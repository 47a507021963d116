--------------------------- MODULE OrderLifecycle ---------------------------
(***************************************************************************)
(* What the paper broker promises about an order, seen from outside: it is *)
(* submitted once, for a quantity that never changes; it fills up          *)
(* monotonically; FILLED and REJECTED are final.  One transaction may move *)
(* several orders, and one order by several fills.                         *)
(***************************************************************************)
EXTENDS Integers

CONSTANT Ids

VARIABLES status, qty, filled  \* functions on Ids

vars == <<status, qty, filled>>

Final == {"FILLED", "REJECTED"}

(* How far an order of quantity q and fill f may be in each status. *)
Consistent(s, q, f) ==
    \/ s = "SUBMITTED" /\ f = 0 /\ q > 0
    \/ s = "PARTIALLY_FILLED" /\ 0 < f /\ f < q
    \/ s = "FILLED" /\ f = q
    \/ s = "REJECTED" /\ 0 <= f /\ f < q

(* Any set of orders in consistent states. *)
LifecycleInit ==
    \A o \in Ids : status[o] = "NONE" \/ Consistent(status[o], qty[o], filled[o])

Unmoved(o) == status'[o] = status[o] /\ qty'[o] = qty[o] /\ filled'[o] = filled[o]

Arrive(o) == /\ status[o] = "NONE"
             /\ Consistent(status'[o], qty'[o], filled'[o])

Advance(o) ==
    /\ status[o] \in {"SUBMITTED", "PARTIALLY_FILLED"}
    /\ qty'[o] = qty[o]
    /\ filled'[o] >= filled[o]
    /\ Consistent(status'[o], qty'[o], filled'[o])

Move == \A o \in Ids : Unmoved(o) \/ Arrive(o) \/ Advance(o)

LifecycleSpec == LifecycleInit /\ [][Move]_vars
=============================================================================
