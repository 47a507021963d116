----------------------------- MODULE MCBackfill -----------------------------
(* The history worker in its process, a handler in the API's                 *)
(* (compose.coolify.yaml), and two instruments.                              *)
EXTENDS Backfill

CONSTANTS worker, c1, i1, i2

TwoProcesses == [c \in Callers |-> IF c = worker THEN "worker" ELSE "api"]
Two          == {i1, i2}
OneClient    == {c1}
AllOrNone    == {Two, {}}
FirstShort   == {[i \in Two |-> IF i = i1 THEN 1 ELSE 2]}
FixedRank    == {[i \in Two |-> IF i = i1 THEN 1 ELSE 2]}
=============================================================================
