----------------------------- MODULE Execution -----------------------------
(***************************************************************************)
(* The execution simulator (services/paper_broker/execution.py): what one  *)
(* later market bar does to one paper limit order.  Money and prices are   *)
(* integers.  Cash is counted in units of 1/FeeScale rial, so a fee rate   *)
(* of f/FeeScale of the traded value is exact.  The price-dependent        *)
(* slippage of the code is one constant price step, Slip.                  *)
(***************************************************************************)
EXTENDS Integers

CONSTANTS LimitDown,    \* lowest price of the session  (allowed_min)
          LimitUp,      \* highest price of the session (allowed_max)
          Slip,         \* slippage of a fill, in price units
          BuyFloor,     \* a BUY may always fill this many shares (100 in the code)
          CapDivisor,   \* one fill takes at most 1/CapDivisor of the volume (20)
          FeeScale, BuyFee, SellFee

ASSUME ExecutionAssumption ==
    /\ LimitDown \in Nat \ {0}
    /\ LimitUp \in Nat
    /\ LimitDown <= LimitUp
    /\ Slip \in Nat
    /\ BuyFloor \in Nat \ {0}
    /\ CapDivisor \in Nat \ {0}
    /\ FeeScale \in Nat \ {0}
    /\ BuyFee \in Nat
    /\ SellFee \in 0..FeeScale

Lesser(a, b)  == IF a <= b THEN a ELSE b
Greater(a, b) == IF a >= b THEN a ELSE b

Value(qty, price)   == qty * price * FeeScale
BuyNet(qty, price)  == qty * price * (FeeScale + BuyFee)
SellNet(qty, price) == qty * price * (FeeScale - SellFee)

(* Mutant: earlier partial fills are forgotten. *)
Remaining_Whole(order) == order.qty

Remaining(order) == order.qty - order.filled

(* A bar that never left its limit price is a one-sided queue. *)
Locked(order, bar) ==
    LET limit == IF order.side = "BUY" THEN LimitUp ELSE LimitDown
    IN  bar.low = limit /\ bar.high = limit

Crosses(order, bar) ==
    IF order.side = "BUY" THEN bar.low <= order.price ELSE bar.high >= order.price

(* The opening print when it is inside the limit price, the limit otherwise. *)
BasePrice(order, bar) ==
    IF order.side = "BUY" THEN Lesser(bar.open, order.price)
                          ELSE Greater(bar.open, order.price)

FillPrice(order, bar) ==
    IF order.side = "BUY" THEN Lesser(LimitUp, BasePrice(order, bar) + Slip)
                          ELSE Greater(LimitDown, BasePrice(order, bar) - Slip)

FillCap(order, bar) ==
    Greater(IF order.side = "BUY" THEN BuyFloor ELSE 1, bar.volume \div CapDivisor)

FillQuantity(order, bar) == Lesser(Remaining(order), FillCap(order, bar))

(* Mutant: an order that keeps waiting is reset. *)
InQueue_Reset(order) == "SUBMITTED"

InQueue(order) == IF order.filled > 0 THEN "PARTIALLY_FILLED" ELSE "SUBMITTED"

NoFill(status) == [status |-> status, qty |-> 0, price |-> 0]

(* The new order status and the fill; qty = 0 stands for "no fill". *)
Simulate(order, bar) ==
    IF bar.volume <= 0               THEN NoFill("SUBMITTED")
    ELSE IF Locked(order, bar)       THEN NoFill("REJECTED")
    ELSE IF Remaining(order) <= 0    THEN NoFill("FILLED")
    ELSE IF ~Crosses(order, bar)     THEN NoFill(InQueue(order))
    ELSE LET qty == FillQuantity(order, bar)
         IN  [status |-> IF qty = Remaining(order) THEN "FILLED" ELSE "PARTIALLY_FILLED",
              qty    |-> qty,
              price  |-> FillPrice(order, bar)]
=============================================================================
