---------------------------- MODULE MCCollector ----------------------------
(* A small deployment: the API, which also runs the worker, in one process   *)
(* (docker-compose.yml), and two equities.                                   *)
EXTENDS Collector

CONSTANTS worker, c1, i1, i2

OneProcess == [c \in Callers |-> "api"]
Two        == {i1, i2}
OneClient  == {c1}
=============================================================================
