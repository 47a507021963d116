---------------------------- MODULE MCBacktester ----------------------------
(* Two symbols around a price of 200, that fall or rise within a day.  One   *)
(* plan is that of a trend strategy, one that of a pullback, whose stop may  *)
(* lie above its entry.                                                      *)
EXTENDS Backtester

CONSTANTS a, b

MCOrder == <<a, b>>

MCBars ==
  LET B(low, close, high) == [low |-> low, close |-> close, high |-> high]
  IN {B(192, 194, 201), B(197, 205, 213)}

MCPlans ==
  { [low |-> 995, stop |-> 955, target |-> 1060],
    [low |-> 990, stop |-> 994, target |-> 1050] }
=============================================================================
