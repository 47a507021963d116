----------------------------- MODULE Backtester -----------------------------
(* The backtest lab: one call of run_backtest_simulation, day by day, and    *)
(* the route that launches it and stores its report.  A day closes the       *)
(* positions that hit their stop, their target or their horizon, considers   *)
(* every symbol in turn for a purchase decided on the bars up to yesterday,  *)
(* and values the book.  Prices are whole rials.  No day's bars are known    *)
(* before the day, so they are chosen when it comes.                         *)
(*                                                                           *)
(* What the strategy sees is abstracted: it may or may not propose, and a    *)
(* proposal is one of Plans (every strategy gives a low end of its entry     *)
(* range, so the open of the bar, engine.py:186, is never used).             *)
EXTENDS Integers, Sequences, FiniteSets, FiniteSetsExt

CONSTANTS
  Order,      \* the symbols, in the order in which a day considers them
  Bars,       \* bars [low, high, close] a day may bring
  Plans,      \* [low, stop, target] of a proposal, in permille of the close
  Limits,     \* limits on open positions a caller may pass
  Capital,    \* initial capital
  Horizon,    \* sessions a position is held at most
  Warmup,     \* days before the first purchase (30)
  MinBars,    \* bars a strategy needs (30)
  MinShares,  \* shares a purchase needs (100)
  RiskRate,   \* risk of one trade, per ten thousand of the net asset value (35)
  MaxDays     \* bound: days of a simulation

Symbols == {Order[i] : i \in DOMAIN Order}
NoBar   == [close |-> 0]
None    == [quantity |-> 0]

(* The target of every strategy is above the close, and its entry below.     *)
ASSUME BacktestAssumption ==
  /\ Order \in Seq(Symbols) /\ Cardinality(Symbols) = Len(Order)
  /\ Bars \subseteq [low : Nat, high : Nat, close : Nat]
  /\ \A b \in Bars : 0 < b.low /\ b.low <= b.close /\ b.close <= b.high
  /\ Plans \subseteq [low : Nat, stop : Nat, target : Nat]
  /\ \A p \in Plans : p.low <= p.target
  /\ {Capital, Horizon, MinBars, MinShares, RiskRate, MaxDays} \subseteq Nat \ {0}
  /\ Warmup \in Nat /\ Limits \subseteq Nat

VARIABLES
  limit,     \* limit on open positions of this run
  day, turn, \* index of the day; symbol to consider, 0 in the morning
  bar,       \* today's bar of each symbol
  seen,      \* number of bars of each symbol before today
  last,      \* close of the last of them
  cash, nav, \* cash; net asset value of the evening before
  peak, dip, \* highest net asset value; deepest drawdown, in basis points
  open,      \* position of each symbol
  gains,     \* sum of the profitable trades
  losses,    \* sum of the others, as a positive number
  report     \* what the route stored

market == <<bar, seen, last>>
book   == <<cash, open, gains, losses>>
value  == <<nav, peak, dip>>
vars   == <<limit, day, turn, market, book, value, report>>

Report   == [final : Nat, dip : Nat, factor : Int, gain : Int]
NoReport == [final |-> 0]

Init ==
  /\ limit \in Limits /\ day = 0 /\ turn = 0
  /\ bar = [s \in Symbols |-> NoBar]
  /\ seen = [s \in Symbols |-> 0] /\ last = [s \in Symbols |-> 0]
  /\ cash = Capital /\ nav = Capital /\ peak = Capital /\ dip = 0
  /\ open = [s \in Symbols |-> None]
  /\ gains = 0 /\ losses = 0
  /\ report = NoReport

-----------------------------------------------------------------------------
(* Fees, each rounded half up to a rial.                                     *)
Fee(amount, rate) == (amount * rate + 500000) \div 1000000

BuyFee(amount)  == Fee(amount, 3712)
SellFee(amount) == Fee(amount, 3850) + Fee(amount, 5000)

Held    == {s \in Symbols : open[s] # None}
Invested == SumFunction([s \in Held |-> open[s].cost])

-----------------------------------------------------------------------------
(* The morning: exits.  A stop is checked before a target, a target before   *)
(* the horizon; both are filled at their own price, whatever the bar.        *)
Stopped(p, b) == b.low <= p.stop
Reached(p, b) == ~Stopped(p, b) /\ b.high >= p.target

Expired_Late(p) == p.held + 1 > Horizon
Expired(p) == p.held + 1 >= Horizon

Leaves(p, b) == b # NoBar /\ (Stopped(p, b) \/ Reached(p, b) \/ Expired(p))

ExitPrice(p, b) ==
  CASE Stopped(p, b) -> p.stop [] Reached(p, b) -> p.target [] OTHER -> b.close

Proceeds(p, b) ==
  LET amount == p.quantity * ExitPrice(p, b) IN amount - SellFee(amount)

Exits(today) ==
  LET Gone       == {s \in Held : Leaves(open[s], today[s])}
      Back(s)    == Proceeds(open[s], today[s])
      Profit(s)  == Back(s) - open[s].cost
      Won        == {s \in Gone : Profit(s) > 0}
  IN /\ cash'   = cash + SumFunction([s \in Gone |-> Back(s)])
     /\ gains'  = gains + SumFunction([s \in Won |-> Profit(s)])
     /\ losses' = losses - SumFunction([s \in Gone \ Won |-> Profit(s)])
     /\ open' = [s \in Symbols |->
                   CASE s \in Gone        -> None
                     [] s \in Held \ Gone -> [open[s] EXCEPT !.held = @ + 1]
                     [] OTHER             -> None]

Morning ==
  /\ turn = 0 /\ day < MaxDays /\ report = NoReport
  /\ \E today \in [Symbols -> Bars \cup {NoBar}] :
       /\ \E s \in Symbols : today[s] # NoBar
       /\ bar' = today
       /\ Exits(today)
  /\ turn' = 1
  /\ UNCHANGED <<limit, day, seen, last, value, report>>

-----------------------------------------------------------------------------
(* A purchase.  The plan is of yesterday's close; the fill is at its low     *)
(* end, which today's bar need not have reached.  A position notes the net   *)
(* asset value its budget was taken of, for LossWithinBudget only.           *)
OfClose(permille, close) == (permille * close + 500) \div 1000

(* A purchase is worth more than the rounding of its fees: a hundred shares  *)
(* of a stock that trades at four rials or more.                             *)
ASSUME PriceAssumption ==
  \A b \in Bars, p \in Plans : MinShares * OfClose(p.low, b.close) >= 400

(* Shares the risk budget allows: stop distance plus 1.65 percent of costs.  *)
ByRisk_Free(entry, stop) == (nav * RiskRate) \div (10000 * Max({1, entry - stop}))
ByRisk(entry, stop) == (nav * RiskRate) \div (10000 * Max({1, entry - stop}) + 165 * entry)

Shares(entry, stop) ==
  Min({ByRisk(entry, stop), (nav * 8) \div (100 * entry), (cash * 9) \div (10 * entry)})

Eligible(s) ==
  /\ Cardinality(Held) < limit
  /\ day > Warmup
  /\ open[s] = None
  /\ bar[s] # NoBar
  /\ seen[s] >= MinBars

Buy_FreeEntry(s, plan) ==
  LET entry == OfClose(plan.low, last[s])
      stop  == OfClose(plan.stop, last[s])
      n     == Shares(entry, stop)
      cost  == n * entry + BuyFee(n * entry)
  IN /\ Eligible(s) /\ n >= MinShares /\ cash >= cost
     /\ cash' = cash - n * entry
     /\ open' = [open EXCEPT ![s] =
          [quantity |-> n, entry |-> entry, stop |-> stop, held |-> 0, nav |-> nav,
           target |-> OfClose(plan.target, last[s]), cost |-> cost]]

Buy(s, plan) ==
  LET entry == OfClose(plan.low, last[s])
      stop  == OfClose(plan.stop, last[s])
      n     == Shares(entry, stop)
      cost  == n * entry + BuyFee(n * entry)
  IN /\ Eligible(s)
     /\ n >= MinShares
     /\ cash >= cost
     /\ cash' = cash - cost
     /\ open' = [open EXCEPT ![s] =
          [quantity |-> n, entry |-> entry, stop |-> stop, held |-> 0, nav |-> nav,
           target |-> OfClose(plan.target, last[s]), cost |-> cost]]

Consider(s) ==
  /\ turn \in DOMAIN Order /\ s = Order[turn]
  /\ turn' = turn + 1
  /\ \/ \E plan \in Plans : Buy(s, plan)
     \/ UNCHANGED <<cash, open>>
  /\ UNCHANGED <<limit, day, market, gains, losses, value, report>>

-----------------------------------------------------------------------------
(* The evening: a position without a bar counts at its purchase price.       *)
Worth(s) == open[s].quantity * (IF bar[s] = NoBar THEN open[s].entry ELSE bar[s].close)

Equity == cash + SumFunction([s \in Held |-> Worth(s)])

Drawdown(high, now) == (10000 * (high - now) + high \div 2) \div high

HighWater(now) == Max({peak, now})

Evening ==
  /\ turn = Len(Order) + 1
  /\ turn' = 0 /\ day' = day + 1
  /\ nav' = Equity
  /\ peak' = HighWater(Equity)
  /\ dip' = Max({dip, Drawdown(HighWater(Equity), Equity)})
  /\ seen' = [s \in Symbols |-> seen[s] + IF bar[s] = NoBar THEN 0 ELSE 1]
  /\ last' = [s \in Symbols |-> IF bar[s] = NoBar THEN last[s] ELSE bar[s].close]
  /\ bar' = [s \in Symbols |-> NoBar]
  /\ UNCHANGED <<limit, book, report>>

(* The report, and its storage with the trades.  Positions still open are    *)
(* not closed: they count in the final equity, not among the trades.         *)
ProfitFactor ==
  CASE losses > 0               -> (100 * gains + losses \div 2) \div losses
    [] losses = 0 /\ gains > 0  -> 999
    [] losses = 0 /\ gains <= 0 -> 0

Finish ==
  /\ turn = 0 /\ day = MaxDays /\ report = NoReport
  /\ report' = [final |-> nav, dip |-> dip, factor |-> ProfitFactor,
                gain |-> (10000 * (nav - Capital)) \div Capital]
  /\ UNCHANGED <<limit, day, turn, market, book, value>>

Next == Morning \/ (\E s \in Symbols : Consider(s)) \/ Evening \/ Finish

Spec == Init /\ [][Next]_vars

-----------------------------------------------------------------------------
BacktestTypeOK ==
  /\ limit \in Limits /\ day \in 0..MaxDays /\ turn \in 0..(Len(Order) + 1)
  /\ \A s \in Symbols : bar[s] \in Bars \cup {NoBar} /\ seen[s] \in 0..MaxDays
  /\ {cash, nav, peak, dip, gains, losses} \subseteq Nat
  /\ \A s \in Symbols : open[s] = None \/ (open[s].quantity >= MinShares /\ open[s].cost > 0)
  /\ Cardinality(Held) <= limit
  /\ report \in Report \cup {NoReport}

(* The ledger of a simulation balances to the rial: cash and the cost of the *)
(* open positions are the capital and the results of the closed ones, fees   *)
(* and all (engine.py:116-121 and 203-206, docs/14_TEST_PLAN.md, section 2). *)
BooksBalance == cash + Invested = Capital + gains - losses

(* A trade is sized on its stop and costs, so that none loses more than the  *)
(* risk budget of the day it was bought (engine.py:190-201).  The market     *)
(* cannot break this: a stop is filled at its price, gap or not.             *)
LossWithinBudget ==
  [][10000 * (losses' - losses)
       <= SumFunction([s \in {t \in Held : open'[t] = None} |-> open[s].nav * RiskRate])]_book

(* A position whose symbol trades is gone when its horizon is over, the days *)
(* without a bar counted (engine.py:80-88 and 108-112).                      *)
HorizonKept ==
  \A s \in Held : turn > 0 /\ bar[s] # NoBar => open[s].held < Horizon

(* The report contradicts itself nowhere: a run that ends below its capital  *)
(* reports a drawdown at least as deep (engine.py:229-231 and 265-266).      *)
ReportConsistent == report # NoReport => report.dip >= 0 - report.gain - 1

(* A simulation never overdraws its cash, balances its books, keeps its      *)
(* limits and its horizon, and reports what happened.                        *)
BacktestInv == BacktestTypeOK /\ BooksBalance /\ HorizonKept /\ ReportConsistent
=============================================================================
