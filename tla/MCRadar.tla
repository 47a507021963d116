------------------------------ MODULE MCRadar ------------------------------
(* The worker and the history worker in one process, the handler of          *)
(* POST /data/backfill and one client in the API's.                          *)
EXTENDS Radar

CONSTANTS worker, history, backfill, client, s1

TwoProcesses ==
    [c \in Collectors \cup Jobs \cup Clients |->
        IF c \in {worker, history} THEN "worker" ELSE "api"]
============================================================================
