-------------------------- MODULE BacktesterProofs --------------------------
(***************************************************************************)
(* A simulation of the backtest lab, for every value of the constants: its *)
(* ledger balances, nothing is overdrawn, limit and horizon are kept, the  *)
(* report agrees with itself, and no day loses more than the risk budgets  *)
(* of the trades it ends.                                                  *)
(***************************************************************************)
EXTENDS Backtester, SumTheorems

-----------------------------------------------------------------------------
(* Arithmetic. *)

(* The product of naturals is a natural.                                    *)
LEMMA ProductNat == ASSUME NEW a \in Nat, NEW b \in Nat PROVE a * b \in Nat
  BY SMT

(* Quotients of naturals.                                                   *)
LEMMA Quotient ==
  ASSUME NEW a \in Nat, NEW b \in Nat, b > 0
  PROVE  /\ a \div b \in Nat
         /\ (a \div b) * b <= a /\ a < (a \div b) * b + b
  BY SMT

(* A fee is a natural, and at most half a rial above its rate.              *)
LEMMA FeeBound ==
  ASSUME NEW a \in Nat, NEW rate \in Nat
  PROVE  Fee(a, rate) \in Nat /\ 1000000 * Fee(a, rate) <= a * rate + 500000
<1> DEFINE x == a * rate + 500000
<1>1. x \in Nat
  BY SMT
<1>2. x \div 1000000 \in Nat /\ 1000000 * (x \div 1000000) <= x
  <2> HIDE DEF x
  <2> QED
    BY <1>1
<1> QED
  BY <1>2 DEF Fee

LEMMA BuyFeeBound ==
  ASSUME NEW a \in Nat
  PROVE  BuyFee(a) \in Nat /\ 1000000 * BuyFee(a) <= 3712 * a + 500000
  BY FeeBound, SMT DEF BuyFee

(* A sale brings at least its fees.                                         *)
LEMMA SellFeeBound ==
  ASSUME NEW a \in Nat
  PROVE  /\ SellFee(a) \in Nat /\ SellFee(a) <= a
         /\ 1000000 * SellFee(a) <= 8850 * a + 1000000
<1>1. ASSUME NEW rate \in Nat
      PROVE  Fee(a, rate) \in Nat /\ 1000000 * Fee(a, rate) <= a * rate + 500000
  BY FeeBound, SMT
<1>2. SellFee(a) = Fee(a, 3850) + Fee(a, 5000)
  BY DEF SellFee
<1>3. /\ SellFee(a) \in Nat /\ (a >= 2 => SellFee(a) <= a)
      /\ 1000000 * SellFee(a) <= 8850 * a + 1000000
  <2>1. Fee(a, 3850) \in Nat /\ 1000000 * Fee(a, 3850) <= a * 3850 + 500000
    BY <1>1, SMT
  <2>2. Fee(a, 5000) \in Nat /\ 1000000 * Fee(a, 5000) <= a * 5000 + 500000
    BY <1>1, SMT
  <2> QED
    BY <1>2, <2>1, <2>2, SMT
<1>4. a < 2 => SellFee(a) = 0
  BY SMT DEF SellFee, Fee
<1> QED
  BY <1>3, <1>4, SMT

(* Prices of a plan grow with their permille.                               *)
LEMMA OfCloseGrows ==
  ASSUME NEW m \in Nat, NEW n \in Nat, NEW close \in Nat, m <= n
  PROVE  /\ OfClose(m, close) \in Nat /\ OfClose(n, close) \in Nat
         /\ OfClose(m, close) <= OfClose(n, close)
<1>1. m * close \in Nat /\ n * close \in Nat /\ m * close <= n * close
  BY SMT
<1> DEFINE x == m * close
           y == n * close
<1>2. /\ (x + 500) \div 1000 \in Nat /\ (y + 500) \div 1000 \in Nat
      /\ (x + 500) \div 1000 <= (y + 500) \div 1000
  <2>1. x \in Nat /\ y \in Nat /\ x <= y
    BY <1>1
  <2> HIDE DEF x, y
  <2> QED
    BY <2>1
<1> QED
  BY <1>2 DEF OfClose

(* The larger of two, the least of three.                                   *)
LEMMA MaxOfTwo ==
  ASSUME NEW a \in Int, NEW b \in Int
  PROVE  Max({a, b}) = IF a >= b THEN a ELSE b
<1> DEFINE m == IF a >= b THEN a ELSE b
<1>1. m \in {a, b} /\ \A y \in {a, b} : m >= y
  OBVIOUS
<1>2. \A n \in {a, b} : (\A y \in {a, b} : n >= y) => n = m
  OBVIOUS
<1> QED
  BY <1>1, <1>2 DEF Max

LEMMA MinOfThree ==
  ASSUME NEW a \in Int, NEW b \in Int, NEW c \in Int
  PROVE  LET m == Min({a, b, c}) IN m \in {a, b, c} /\ m <= a /\ m <= b /\ m <= c
<1> DEFINE least == IF a <= b THEN IF a <= c THEN a ELSE c ELSE IF b <= c THEN b ELSE c
<1>1. least \in {a, b, c} /\ \A y \in {a, b, c} : least <= y
  OBVIOUS
<1> HIDE DEF least
<1>2. Min({a, b, c}) \in {a, b, c} /\ \A y \in {a, b, c} : Min({a, b, c}) <= y
  BY <1>1 DEF Min
<1> QED
  BY <1>2

-----------------------------------------------------------------------------
(* A trade. *)

Position == [quantity : Nat, entry : Nat, stop : Nat, held : Nat, nav : Nat,
             target : Nat, cost : Nat]

(* What a purchase makes sure of.                                           *)
Sized(p) ==
  /\ p.quantity >= MinShares /\ p.quantity * p.entry >= 400
  /\ p.entry <= p.target
  /\ p.cost = p.quantity * p.entry + BuyFee(p.quantity * p.entry)
  /\ p.quantity * (10000 * Max({1, p.entry - p.stop}) + 165 * p.entry) <= p.nav * RiskRate

(* The constants, one by one.                                               *)
LEMMA Constants ==
  /\ Capital \in Nat /\ Capital > 0 /\ Horizon \in Nat /\ Horizon > 0
  /\ MinBars \in Nat /\ MinBars > 0 /\ MinShares \in Nat /\ MinShares > 0
  /\ RiskRate \in Nat /\ MaxDays \in Nat /\ Limits \subseteq Nat
  BY BacktestAssumption

(* A trade that is sold at its stop or above, or at its entry or above,     *)
(* loses no more than its risk budget, fees and their rounding included.    *)
LEMMA TradeLoss ==
  ASSUME NEW p \in Position, Sized(p), NEW x \in Nat, x >= p.stop \/ x >= p.entry
  PROVE  10000 * (p.cost - (p.quantity * x - SellFee(p.quantity * x))) <= p.nav * RiskRate
<1> DEFINE q == p.quantity
           e == p.entry
           s == p.stop
           m == Max({1, e - s})
           qe == q * e
           qs == q * s
           qx == q * x
           qm == q * m
<1>1. q \in Nat /\ q > 0 /\ e \in Nat /\ s \in Nat /\ p.nav \in Nat
  BY Constants DEF Position, Sized
<1>2. m \in Nat /\ m >= 1 /\ m >= e - s
  <2>1. e - s \in Int /\ 1 \in Int
    BY <1>1
  <2>2. m = IF 1 >= e - s THEN 1 ELSE e - s
    BY <2>1, MaxOfTwo
  <2> HIDE DEF m, e, s
  <2> QED
    BY <2>1, <2>2
<1>3. /\ qe \in Nat /\ qs \in Nat /\ qx \in Nat /\ qm \in Nat /\ qm >= q
      /\ (e >= s => qm >= qe - qs /\ qe >= qs /\ qx >= qs)
      /\ (e < s => qx >= qe)
  <2>1. x >= s \/ x >= e
    OBVIOUS
  <2> HIDE DEF q, e, s, m
  <2>2. q * m >= q * 1
    BY <1>1, <1>2
  <2>3. e >= s => q * m >= q * (e - s) /\ q * e >= q * s /\ q * x >= q * s
    <3>1. ASSUME NEW a \in Nat, NEW b \in Nat, a <= b
          PROVE  q * a <= q * b
      BY <1>1, <3>1, SMT
    <3> QED
      BY <1>1, <1>2, <2>1, <3>1
  <2>4. q * (e - s) = q * e - q * s
    BY <1>1
  <2>5. e < s => q * x >= q * e
    BY <1>1, <2>1, SMT
  <2> QED
    BY <1>1, <1>2, <2>2, <2>3, <2>4, <2>5
<1>4. 1000000 * BuyFee(qe) <= 3712 * qe + 500000 /\ BuyFee(qe) \in Nat
  BY <1>3, BuyFeeBound, SMT
<1>5. 1000000 * SellFee(qx) <= 8850 * qx + 1000000 /\ SellFee(qx) \in Nat
  BY <1>3, SellFeeBound, SMT
<1>6. qe >= 400 /\ p.cost = qe + BuyFee(qe) /\ q * (10000 * m + 165 * e) <= p.nav * RiskRate
  BY DEF Sized
<1>7. q * (10000 * m + 165 * e) = 10000 * qm + 165 * qe
  <2> HIDE DEF q, e, m
  <2>1. q * (10000 * m + 165 * e) = q * (10000 * m) + q * (165 * e)
    BY <1>1, <1>2, SMT
  <2>2. q * (10000 * m) = 10000 * (q * m) /\ q * (165 * e) = 165 * (q * e)
    BY <1>1, <1>2, SMT
  <2> QED
    BY <2>1, <2>2
<1>8. 10000 * (qe + BuyFee(qe) - (qx - SellFee(qx))) <= 10000 * qm + 165 * qe
  <2> HIDE DEF q, e, s, m, qe, qs, qx, qm
  <2>1. CASE e >= s
    BY <1>1, <1>3, <1>4, <1>5, <1>6, <2>1, SMT
  <2>2. CASE e < s
    BY <1>1, <1>3, <1>4, <1>5, <1>6, <2>2, SMT
  <2> QED
    BY <1>1, <2>1, <2>2
<1>9. 10000 * (p.cost - (qx - SellFee(qx))) <= p.nav * RiskRate
  <2>1. p.nav * RiskRate \in Nat
    <3>1. RiskRate \in Nat
      BY Constants
    <3> QED
      BY <1>1, <3>1, SMT
  <2> HIDE DEF q, e, s, m, qe, qs, qx, qm
  <2>2. 10000 * qm + 165 * qe \in Nat
    BY <1>3, SMT
  <2> QED
    BY <1>3, <1>4, <1>5, <1>6, <1>7, <1>8, <2>1, <2>2, SMT
<1> QED
  BY <1>9

-----------------------------------------------------------------------------
(* The invariant. *)

(* The walk over the days: the last close of a symbol that has bars is one. *)
Calendar ==
  /\ limit \in Limits /\ day \in 0..MaxDays /\ turn \in 0..(Len(Order) + 1)
  /\ turn > 0 => day < MaxDays
  /\ bar \in [Symbols -> Bars \cup {NoBar}]
  /\ seen \in [Symbols -> Nat] /\ last \in [Symbols -> Nat]
  /\ \A s \in Symbols :
       seen[s] <= day /\ (seen[s] > 0 => \E b \in Bars : last[s] = b.close)

(* What is held, each position sized by its purchase.                       *)
Holdings ==
  /\ open \in [Symbols -> Position \cup {None}]
  /\ \A s \in Held : Sized(open[s])
  /\ Cardinality(Held) <= limit
  /\ HorizonKept

Money == cash \in Nat /\ gains \in Nat /\ losses \in Nat /\ BooksBalance

(* The deepest drawdown is at least that of now, from the highest value.    *)
Valuation ==
  /\ nav \in Nat /\ peak \in Nat /\ dip \in Nat
  /\ peak >= Capital /\ peak >= nav /\ dip >= Drawdown(peak, nav)

Reported == report \in Report \cup {NoReport} /\ ReportConsistent

LabInv == Calendar /\ Holdings /\ Money /\ Valuation /\ Reported

(* There are finitely many symbols.                                         *)
LEMMA FiniteSymbols ==
  IsFiniteSet(Symbols) /\ \A T \in SUBSET Symbols : IsFiniteSet(T)
<1> DEFINE f == [i \in 1..Len(Order) |-> Order[i]]
<1>1. DOMAIN Order = 1..Len(Order) /\ Len(Order) \in Nat /\ \A i \in DOMAIN Order : Order[i] \in Symbols
  BY BacktestAssumption
<1>2. f \in Surjection(1..Len(Order), Symbols)
  BY <1>1 DEF Surjection, Symbols
<1>3. IsFiniteSet(1..Len(Order))
  BY <1>1, FS_Interval
<1>4. IsFiniteSet(Symbols)
  <2> HIDE DEF f
  <2> QED
    BY <1>2, <1>3, FS_Surjection
<1> QED
  BY <1>4, FS_Subset

(* What is held is a position that was bought.                              *)
LEMMA HeldPositions ==
  ASSUME Holdings
  PROVE  /\ Held \subseteq Symbols /\ IsFiniteSet(Held)
         /\ \A s \in Held : open[s] \in Position /\ Sized(open[s])
<1>1. Held \subseteq Symbols
  BY DEF Held
<1> QED
  BY <1>1, FiniteSymbols DEF Holdings, Held

(* It costs something, which is what is invested.                           *)
LEMMA HeldCosts ==
  ASSUME Holdings
  PROVE  /\ \A s \in Held : open[s].cost \in Nat /\ open[s].cost > 0
         /\ Invested \in Nat
<1>1. ASSUME NEW s \in Held
      PROVE  open[s].cost \in Nat /\ open[s].cost > 0
  <2>1. open[s] \in Position /\ Sized(open[s])
    BY HeldPositions
  <2>2. /\ open[s].quantity \in Nat /\ open[s].entry \in Nat /\ open[s].cost \in Nat
    BY <2>1 DEF Position
  <2>3. open[s].quantity * open[s].entry \in Nat
    BY <2>2, SMT
  <2>4. BuyFee(open[s].quantity * open[s].entry) \in Nat
    BY <2>3, BuyFeeBound
  <2> QED
    BY <2>1, <2>2, <2>3, <2>4 DEF Sized
<1> DEFINE f == [s \in Held |-> open[s].cost]
<1>2. IsFiniteSet(Held) /\ DOMAIN f = Held /\ \A s \in Held : f[s] \in Nat
  BY <1>1, HeldPositions
<1>3. Invested = SumFunctionOnSet(f, Held)
  BY DEF Invested, SumFunction
<1>4. SumFunctionOnSet(f, Held) \in Nat
  <2> HIDE DEF f
  <2> QED
    BY <1>2, SumNat
<1> QED
  BY <1>1, <1>3, <1>4

(* A position that leaves is sold at its stop or above, or at its entry or  *)
(* above; it brings something, and loses no more than its budget.           *)
LEMMA Leaving ==
  ASSUME NEW p \in Position, Sized(p), NEW b \in Bars \cup {NoBar}, Leaves(p, b)
  PROVE  Proceeds(p, b) \in Nat /\ 10000 * (p.cost - Proceeds(p, b)) <= p.nav * RiskRate
<1> DEFINE x == ExitPrice(p, b)
<1>1. /\ b \in Bars /\ b.low \in Nat /\ b.close \in Nat /\ b.low <= b.close
  BY BacktestAssumption DEF Leaves
<1>2. p.quantity \in Nat /\ p.entry \in Nat /\ p.stop \in Nat /\ p.target \in Nat
  BY DEF Position
<1>3. x \in Nat /\ (x >= p.stop \/ x >= p.entry)
  <2>1. CASE Stopped(p, b)
    <3>1. x = p.stop
      BY <2>1 DEF ExitPrice, Reached
    <3> QED
      BY <1>2, <3>1
  <2>2. CASE Reached(p, b)
    <3>1. x = p.target
      BY <2>2 DEF ExitPrice, Reached
    <3> QED
      BY <1>2, <3>1 DEF Sized
  <2>3. CASE ~Stopped(p, b) /\ ~Reached(p, b)
    <3>1. x = b.close /\ ~(b.low <= p.stop)
      BY <2>3 DEF ExitPrice, Stopped
    <3> QED
      BY <1>1, <1>2, <3>1
  <2> QED
    BY <2>1, <2>2, <2>3
<1> HIDE DEF x
<1>4. p.quantity * x \in Nat
  BY <1>2, <1>3, SMT
<1>5. SellFee(p.quantity * x) \in Nat /\ SellFee(p.quantity * x) <= p.quantity * x
  BY <1>4, SellFeeBound
<1>6. Proceeds(p, b) = p.quantity * x - SellFee(p.quantity * x)
  BY DEF Proceeds, x
<1>7. 10000 * (p.cost - (p.quantity * x - SellFee(p.quantity * x))) <= p.nav * RiskRate
  BY <1>3, TradeLoss
<1>8. p.quantity * x - SellFee(p.quantity * x) \in Nat
  BY <1>4, <1>5
<1> QED
  BY <1>6, <1>7, <1>8

-----------------------------------------------------------------------------
(* The morning. *)

Gone(today)     == {s \in Held : Leaves(open[s], today[s])}
Returned(today) == [s \in Symbols |-> Proceeds(open[s], today[s])]
Result(today)   == [s \in Symbols |-> Proceeds(open[s], today[s]) - open[s].cost]
Winners(today)  == {s \in Gone(today) : Result(today)[s] > 0}
Losers(today)   == Gone(today) \ Winners(today)

(* The exits of a morning, in these terms.                                  *)
LEMMA ExitSums ==
  ASSUME Holdings, NEW today \in [Symbols -> Bars \cup {NoBar}], Exits(today)
  PROVE  /\ cash'   = cash + SumFunctionOnSet(Returned(today), Gone(today))
         /\ gains'  = gains + SumFunctionOnSet(Result(today), Winners(today))
         /\ losses' = losses - SumFunctionOnSet(Result(today), Losers(today))
         /\ open' = [s \in Symbols |->
                       CASE s \in Gone(today)        -> None
                         [] s \in Held \ Gone(today) -> [open[s] EXCEPT !.held = @ + 1]
                         [] OTHER                    -> None]
<1> DEFINE Profit(s) == Proceeds(open[s], today[s]) - open[s].cost
<1>1. /\ Gone(today) \subseteq Symbols /\ IsFiniteSet(Gone(today))
      /\ Winners(today) \subseteq Symbols /\ IsFiniteSet(Winners(today))
      /\ Losers(today) \subseteq Symbols /\ IsFiniteSet(Losers(today))
  <2>1. Gone(today) \subseteq Symbols /\ Winners(today) \subseteq Symbols /\ Losers(today) \subseteq Symbols
    BY DEF Gone, Held, Winners, Losers
  <2> QED
    BY <2>1, FiniteSymbols
<1>2. Winners(today) = {s \in Gone(today) : Profit(s) > 0}
  BY <1>1 DEF Winners, Result
<1>3. SumFunction([s \in Gone(today) |-> Proceeds(open[s], today[s])])
        = SumFunctionOnSet(Returned(today), Gone(today))
  <2> DEFINE f == [s \in Gone(today) |-> Proceeds(open[s], today[s])]
  <2>1. DOMAIN f = Gone(today) /\ \A s \in Gone(today) : f[s] = Returned(today)[s]
    BY <1>1 DEF Returned
  <2>2. SumFunction(f) = SumFunctionOnSet(Returned(today), Gone(today))
    <3> HIDE DEF f
    <3> QED
      BY <1>1, <2>1, SumOver
  <2> QED
    BY <2>2
<1>4. SumFunction([s \in Winners(today) |-> Profit(s)])
        = SumFunctionOnSet(Result(today), Winners(today))
  <2> DEFINE f == [s \in Winners(today) |-> Profit(s)]
  <2>1. DOMAIN f = Winners(today) /\ \A s \in Winners(today) : f[s] = Result(today)[s]
    BY <1>1 DEF Result
  <2>2. SumFunction(f) = SumFunctionOnSet(Result(today), Winners(today))
    <3> HIDE DEF f
    <3> QED
      BY <1>1, <2>1, SumOver
  <2> QED
    BY <2>2
<1>5. SumFunction([s \in Losers(today) |-> Profit(s)])
        = SumFunctionOnSet(Result(today), Losers(today))
  <2> DEFINE f == [s \in Losers(today) |-> Profit(s)]
  <2>1. DOMAIN f = Losers(today) /\ \A s \in Losers(today) : f[s] = Result(today)[s]
    BY <1>1 DEF Result
  <2>2. SumFunction(f) = SumFunctionOnSet(Result(today), Losers(today))
    <3> HIDE DEF f
    <3> QED
      BY <1>1, <2>1, SumOver
  <2> QED
    BY <2>2
<1>6. /\ cash'   = cash + SumFunction([s \in Gone(today) |-> Proceeds(open[s], today[s])])
      /\ gains'  = gains + SumFunction([s \in Winners(today) |-> Profit(s)])
      /\ losses' = losses - SumFunction([s \in Losers(today) |-> Profit(s)])
      /\ open' = [s \in Symbols |->
                    CASE s \in Gone(today)        -> None
                      [] s \in Held \ Gone(today) -> [open[s] EXCEPT !.held = @ + 1]
                      [] OTHER                    -> None]
  BY <1>2 DEF Exits, Gone, Losers
<1> HIDE DEF Profit
<1> QED
  BY <1>3, <1>4, <1>5, <1>6

(* What stays is a day older.                                               *)
LEMMA Staying ==
  ASSUME Holdings, NEW today \in [Symbols -> Bars \cup {NoBar}], Exits(today)
  PROVE  /\ Held' = Held \ Gone(today)
         /\ open' \in [Symbols -> Position \cup {None}]
         /\ \A s \in Held' : /\ open'[s] = [open[s] EXCEPT !.held = @ + 1]
                             /\ Sized(open'[s]) /\ open'[s].cost = open[s].cost
<1>1. open' = [s \in Symbols |->
                CASE s \in Gone(today)        -> None
                  [] s \in Held \ Gone(today) -> [open[s] EXCEPT !.held = @ + 1]
                  [] OTHER                    -> None]
  BY ExitSums
<1>2. \A s \in Symbols : s \notin Held \ Gone(today) => open'[s] = None
  <2>1. Gone(today) \subseteq Held
    BY DEF Gone
  <2> QED
    BY <1>1, <2>1
<1>3. ASSUME NEW s \in Held \ Gone(today)
      PROVE  /\ s \in Symbols /\ open'[s] = [open[s] EXCEPT !.held = @ + 1]
             /\ open'[s] \in Position /\ open'[s].cost = open[s].cost
             /\ Sized(open'[s]) /\ open'[s] # None
  <2>1. s \in Symbols /\ open[s] \in Position /\ Sized(open[s])
    BY HeldPositions
  <2>2. open'[s] = [open[s] EXCEPT !.held = @ + 1]
    BY <1>1, <2>1
  <2> DEFINE p == open[s]
             q == [p EXCEPT !.held = @ + 1]
  <2>3. /\ q \in Position /\ q.quantity = p.quantity /\ q.entry = p.entry /\ q.cost = p.cost
        /\ q.stop = p.stop /\ q.target = p.target /\ q.nav = p.nav
    <3>1. p \in Position
      BY <2>1
    <3> HIDE DEF p
    <3> QED
      BY <3>1 DEF Position
  <2> HIDE DEF q
  <2>4. Sized(q)
    BY <2>1, <2>3 DEF Sized
  <2>5. q # None
    BY <2>4, Constants DEF Sized, None
  <2>6. q = open'[s]
    BY <2>2 DEF q
  <2> QED
    BY <2>1, <2>2, <2>3, <2>4, <2>5, <2>6
<1>4. Held' = Held \ Gone(today)
  <2>1. Held' = {s \in Symbols : open'[s] # None}
    BY DEF Held
  <2>2. Held \subseteq Symbols
    BY DEF Held
  <2> QED
    BY <1>2, <1>3, <2>1, <2>2
<1>5. open' \in [Symbols -> Position \cup {None}]
  <2>1. \A s \in Symbols : open'[s] \in Position \cup {None}
    BY <1>2, <1>3
  <2>2. open' = [s \in Symbols |-> open'[s]]
    BY <1>1
  <2> QED
    BY <2>1, <2>2
<1> QED
  BY <1>3, <1>4, <1>5

(* What each position that leaves brings, costs and results in.             *)
LEMMA LeavingTerms ==
  ASSUME Holdings, NEW today \in [Symbols -> Bars \cup {NoBar}]
  PROVE  /\ IsFiniteSet(Gone(today)) /\ Gone(today) \subseteq Held
         /\ \A s \in Gone(today) :
              /\ Returned(today)[s] \in Nat /\ open[s].cost \in Nat /\ Result(today)[s] \in Int
              /\ Returned(today)[s] = open[s].cost + Result(today)[s]
              /\ -10000 * Result(today)[s] <= open[s].nav * RiskRate
              /\ open[s].nav * RiskRate \in Nat
<1>1. IsFiniteSet(Gone(today)) /\ Gone(today) \subseteq Held
  BY HeldPositions, FS_Subset DEF Gone
<1>2. ASSUME NEW s \in Gone(today)
      PROVE  /\ Returned(today)[s] \in Nat /\ open[s].cost \in Nat /\ Result(today)[s] \in Int
             /\ Returned(today)[s] = open[s].cost + Result(today)[s]
             /\ -10000 * Result(today)[s] <= open[s].nav * RiskRate
             /\ open[s].nav * RiskRate \in Nat
  <2> DEFINE p == open[s]
             r == Proceeds(p, today[s])
  <2>1. s \in Symbols /\ p \in Position /\ Sized(p) /\ today[s] \in Bars \cup {NoBar}
    BY <1>1, HeldPositions
  <2>2. Leaves(p, today[s])
    BY DEF Gone
  <2>3. r \in Nat /\ 10000 * (p.cost - r) <= p.nav * RiskRate
    <3> HIDE DEF p
    <3> QED
      BY <2>1, <2>2, Leaving
  <2>4. Returned(today)[s] = r /\ Result(today)[s] = r - p.cost
    BY <2>1 DEF Returned, Result
  <2>5. p.cost \in Nat /\ p.nav \in Nat /\ RiskRate \in Nat
    BY <2>1, Constants DEF Position
  <2>6. p.nav * RiskRate \in Nat
    BY <2>5, SMT
  <2>7. -10000 * (r - p.cost) = 10000 * (p.cost - r)
    <3> HIDE DEF r, p
    <3> QED
      BY <2>3, <2>5, SMT
  <2>8. r - p.cost \in Int /\ r = p.cost + (r - p.cost)
    BY <2>3, <2>5
  <2> HIDE DEF r
  <2> QED
    BY <2>3, <2>4, <2>5, <2>6, <2>7, <2>8
<1> QED
  BY <1>1, <1>2

(* The books balance over the exits of a morning.                           *)
LEMMA ExitsBalance ==
  ASSUME Holdings, Money, NEW today \in [Symbols -> Bars \cup {NoBar}], Exits(today)
  PROVE  Money'
<1> DEFINE cost == [s \in Symbols |-> open[s].cost]
           gone == Gone(today)
           stay == Held \ gone
           won  == Winners(today)
           lost == Losers(today)
           back == Returned(today)
           result == Result(today)
<1>1. /\ cash' = cash + SumFunctionOnSet(back, gone)
      /\ gains' = gains + SumFunctionOnSet(result, won)
      /\ losses' = losses - SumFunctionOnSet(result, lost)
  BY ExitSums
<1>2. /\ gone \subseteq Held /\ IsFiniteSet(gone)
      /\ \A s \in gone : /\ back[s] \in Nat /\ open[s].cost \in Nat /\ result[s] \in Int
                         /\ back[s] = open[s].cost + result[s]
  BY LeavingTerms
<1>3. /\ Held \subseteq Symbols /\ IsFiniteSet(Held)
      /\ \A s \in Held : cost[s] = open[s].cost /\ cost[s] \in Nat
  BY HeldPositions, HeldCosts
<1>4. Held' = stay /\ \A s \in stay : open'[s].cost = cost[s]
  <2>1. Held' = stay /\ \A s \in Held' : open'[s].cost = open[s].cost
    BY Staying
  <2> QED
    BY <1>3, <2>1
<1>5. /\ won \subseteq gone /\ lost = gone \ won
      /\ \A s \in won : result[s] > 0
      /\ \A s \in lost : ~(result[s] > 0)
  BY DEF Winners, Losers
<1>6. Invested = SumFunctionOnSet(cost, Held)
  <2> DEFINE f == [s \in Held |-> open[s].cost]
  <2>1. DOMAIN f = Held /\ \A s \in Held : f[s] = cost[s]
    BY <1>3
  <2>2. SumFunction(f) = SumFunctionOnSet(cost, Held)
    <3> HIDE DEF f, cost
    <3> QED
      BY <1>3, <2>1, SumOver
  <2> QED
    BY <2>2 DEF Invested
<1>7. Invested' = SumFunctionOnSet(cost, stay)
  <2> DEFINE f == [s \in Held' |-> open'[s].cost]
  <2>1. IsFiniteSet(stay) /\ DOMAIN f = stay /\ \A s \in stay : f[s] = cost[s]
    BY <1>3, <1>4, FS_Subset
  <2>2. SumFunction(f) = SumFunctionOnSet(cost, stay)
    <3> HIDE DEF f, cost, stay
    <3> QED
      BY <2>1, SumOver
  <2>3. Invested' = SumFunction(f)
    BY DEF Invested
  <2> QED
    BY <2>2, <2>3
<1> HIDE DEF cost, gone, won, lost, back, result
<1>8. SumFunctionOnSet(cost, Held) = SumFunctionOnSet(cost, gone) + SumFunctionOnSet(cost, stay)
  BY <1>2, <1>3, SumSplit
<1>9. SumFunctionOnSet(back, gone) = SumFunctionOnSet(cost, gone) + SumFunctionOnSet(result, gone)
  <2>1. \A s \in gone : /\ cost[s] \in Int /\ result[s] \in Int
                       /\ back[s] = cost[s] + result[s]
    BY <1>2, <1>3
  <2> QED
    BY <1>2, <2>1, SumPlus
<1>10. SumFunctionOnSet(result, gone) = SumFunctionOnSet(result, won) + SumFunctionOnSet(result, lost)
  <2>1. \A s \in gone : result[s] \in Int
    BY <1>2
  <2> QED
    BY <1>2, <1>5, <2>1, SumSplit
<1>11. /\ SumFunctionOnSet(back, gone) \in Nat /\ SumFunctionOnSet(result, won) \in Nat
       /\ SumFunctionOnSet(result, lost) \in Int /\ SumFunctionOnSet(result, lost) <= 0
  <2>1. IsFiniteSet(won) /\ IsFiniteSet(lost)
    BY <1>2, <1>5, FS_Subset
  <2>2. \A s \in won : result[s] \in Nat
    BY <1>2, <1>5
  <2>3. \A s \in lost : result[s] \in Int /\ result[s] <= 0
    BY <1>2, <1>5
  <2>4. \A s \in gone : back[s] \in Nat
    BY <1>2
  <2> QED
    BY <1>2, <2>1, <2>2, <2>3, <2>4, SumNat, SumNegative
<1>12. SumFunctionOnSet(cost, stay) \in Int /\ SumFunctionOnSet(cost, gone) \in Int
  <2>1. /\ IsFiniteSet(stay) /\ \A s \in stay : cost[s] \in Int
        /\ \A s \in gone : cost[s] \in Int
    BY <1>2, <1>3, FS_Subset
  <2> QED
    BY <1>2, <2>1, SumInt
<1>13. cash \in Nat /\ gains \in Nat /\ losses \in Nat /\ cash + Invested = Capital + gains - losses
  BY DEF Money, BooksBalance
<1>14. cash' \in Nat /\ gains' \in Nat /\ losses' \in Nat
  BY <1>1, <1>11, <1>13
<1>15. cash' + Invested' = Capital + gains' - losses'
  <2>1. Capital \in Nat
    BY Constants
  <2> QED
    BY <1>1, <1>6, <1>7, <1>8, <1>9, <1>10, <1>11, <1>12, <1>13, <2>1
<1> QED
  BY <1>14, <1>15 DEF Money, BooksBalance

(* The exits of a morning lose no more than the budgets of what leaves.     *)
LEMMA ExitsWithinBudget ==
  ASSUME Holdings, Money, NEW today \in [Symbols -> Bars \cup {NoBar}], Exits(today)
  PROVE  10000 * (losses' - losses)
           <= SumFunction([s \in {t \in Held : open'[t] = None} |-> open[s].nav * RiskRate])
<1> DEFINE gone == Gone(today)
           won  == Winners(today)
           lost == Losers(today)
           result == Result(today)
           budget == [s \in gone |-> open[s].nav * RiskRate]
<1>1. {t \in Held : open'[t] = None} = gone
  <2>1. gone \subseteq Held /\ Held \subseteq Symbols
    BY LeavingTerms, HeldPositions
  <2>2. \A s \in Symbols : s \in Held' <=> open'[s] # None
    BY DEF Held
  <2>3. Held' = Held \ gone
    BY Staying
  <2> QED
    BY <2>1, <2>2, <2>3
<1>2. losses' = losses - SumFunctionOnSet(result, lost)
  BY ExitSums
<1>3. /\ IsFiniteSet(gone) /\ won \subseteq gone /\ lost = gone \ won
      /\ DOMAIN budget = gone
      /\ \A s \in gone : /\ result[s] \in Int /\ budget[s] \in Nat
                         /\ -10000 * result[s] <= budget[s]
  BY LeavingTerms DEF Winners, Losers
<1>4. losses \in Nat
  BY DEF Money
<1>5. SumFunction([s \in {t \in Held : open'[t] = None} |-> open[s].nav * RiskRate])
        = SumFunctionOnSet(budget, gone)
  BY <1>1 DEF SumFunction
<1> HIDE DEF gone, won, lost, result, budget
<1>6. IsFiniteSet(won) /\ IsFiniteSet(lost) /\ won \subseteq gone /\ lost \subseteq gone
  BY <1>3, FS_Subset
<1>7. -10000 * SumFunctionOnSet(result, lost) <= SumFunctionOnSet(budget, lost)
  <2> DEFINE k == -10000
  <2>1. /\ k \in Int
        /\ \A s \in lost : /\ result[s] \in Int /\ budget[s] \in Int
                           /\ k * result[s] <= budget[s]
    BY <1>3, <1>6
  <2>2. k * SumFunctionOnSet(result, lost) <= SumFunctionOnSet(budget, lost)
    <3> HIDE DEF k
    <3> QED
      BY <1>6, <2>1, SumBound
  <2>3. SumFunctionOnSet(result, lost) \in Int
    BY <1>3, <1>6, SumInt
  <2> QED
    BY <2>2, <2>3, SMT
<1>8. /\ SumFunctionOnSet(budget, gone)
            = SumFunctionOnSet(budget, won) + SumFunctionOnSet(budget, lost)
      /\ SumFunctionOnSet(budget, won) \in Nat /\ SumFunctionOnSet(budget, lost) \in Nat
  <2>1. \A s \in gone : budget[s] \in Int
    BY <1>3
  <2>2. /\ \A s \in won : budget[s] \in Nat
        /\ \A s \in lost : budget[s] \in Nat
    BY <1>3, <1>6
  <2>3. SumFunctionOnSet(budget, gone)
          = SumFunctionOnSet(budget, won) + SumFunctionOnSet(budget, lost)
    BY <1>3, <2>1, SumSplit
  <2> QED
    BY <1>6, <2>2, <2>3, SumNat
<1>9. SumFunctionOnSet(result, lost) \in Int
  BY <1>3, <1>6, SumInt
<1> QED
  BY <1>2, <1>4, <1>5, <1>7, <1>8, <1>9

(* A morning keeps the invariant, and the budgets of what it ends.          *)
LEMMA MorningKeeps ==
  ASSUME LabInv, Morning
  PROVE  /\ LabInv'
         /\ 10000 * (losses' - losses)
              <= SumFunction([s \in {t \in Held : open'[t] = None} |-> open[s].nav * RiskRate])
<1>1. PICK today \in [Symbols -> Bars \cup {NoBar}] : bar' = today /\ Exits(today)
  BY DEF Morning
<1>2. /\ turn' = 1 /\ turn = 0 /\ day < MaxDays
      /\ UNCHANGED <<limit, day, seen, last, nav, peak, dip, report>>
  BY DEF Morning, value
<1>3. Calendar'
  <2>1. Len(Order) \in Nat
    BY BacktestAssumption
  <2> QED
    BY <1>1, <1>2, <2>1 DEF Calendar, LabInv
<1>4. Holdings'
  <2>1. /\ Held' = Held \ Gone(today) /\ open' \in [Symbols -> Position \cup {None}]
        /\ \A s \in Held' : open'[s] = [open[s] EXCEPT !.held = @ + 1] /\ Sized(open'[s])
    BY <1>1, Staying DEF LabInv
  <2>2. /\ Held \subseteq Symbols /\ IsFiniteSet(Held) /\ Cardinality(Held) <= limit
        /\ \A s \in Held : open[s] \in Position
    BY HeldPositions DEF LabInv, Holdings
  <2>3. Cardinality(Held') <= limit'
    <3>1. Cardinality(Held \ Gone(today)) <= Cardinality(Held) /\ Cardinality(Held) \in Nat
      BY <2>2, FS_Subset, FS_CardinalityType
    <3>2. Cardinality(Held \ Gone(today)) \in Nat
      BY <2>2, FS_Subset, FS_CardinalityType
    <3>3. limit \in Nat
      BY Constants DEF LabInv, Calendar
    <3> QED
      BY <1>2, <2>1, <2>2, <3>1, <3>2, <3>3
  <2>4. ASSUME NEW s \in Held', bar'[s] # NoBar
        PROVE  open'[s].held < Horizon
    <3>1. s \in Held /\ s \notin Gone(today) /\ open[s] \in Position
      BY <2>1, <2>2
    <3>2. ~Expired(open[s])
      BY <1>1, <2>4, <3>1 DEF Gone, Leaves
    <3>3. open'[s].held = open[s].held + 1
      BY <2>1, <3>1 DEF Position
    <3>4. open[s].held \in Nat /\ Horizon \in Nat
      BY <3>1, Constants DEF Position
    <3> QED
      BY <3>2, <3>3, <3>4 DEF Expired
  <2> QED
    BY <2>1, <2>3, <2>4 DEF Holdings, HorizonKept
<1>5. Money'
  BY <1>1, ExitsBalance DEF LabInv
<1>6. Valuation'
  BY <1>2 DEF LabInv, Valuation, Drawdown
<1>7. Reported'
  BY <1>2 DEF LabInv, Reported, ReportConsistent
<1>8. 10000 * (losses' - losses)
        <= SumFunction([s \in {t \in Held : open'[t] = None} |-> open[s].nav * RiskRate])
  BY <1>1, ExitsWithinBudget DEF LabInv
<1> QED
  BY <1>3, <1>4, <1>5, <1>6, <1>7, <1>8 DEF LabInv

-----------------------------------------------------------------------------
(* A purchase. *)

(* The shares that it takes: within the risk budget, and no fewer than the  *)
(* least purchase.                                                          *)
LEMMA SharesBound ==
  ASSUME Money, Valuation, NEW entry \in Nat, entry > 0, NEW stop \in Nat
  PROVE  /\ Shares(entry, stop) \in Nat
         /\ Shares(entry, stop) * (10000 * Max({1, entry - stop}) + 165 * entry) <= nav * RiskRate
<1> DEFINE m == Max({1, entry - stop})
           d == 10000 * m + 165 * entry
           x == (nav * 8) \div (100 * entry)
           y == (cash * 9) \div (10 * entry)
           n == Shares(entry, stop)
           r == (nav * RiskRate) \div d
<1>1. m \in Nat
  <2>1. entry - stop \in Int /\ 1 \in Int
    OBVIOUS
  <2>2. m = IF 1 >= entry - stop THEN 1 ELSE entry - stop
    BY <2>1, MaxOfTwo
  <2> HIDE DEF m
  <2> QED
    BY <2>1, <2>2
<1>2. d \in Nat /\ d > 0
  <2> HIDE DEF m
  <2> QED
    BY <1>1, SMT
<1>3. nav * RiskRate \in Nat
  <2>1. nav \in Nat /\ RiskRate \in Nat
    BY Constants DEF Valuation
  <2> QED
    BY <2>1, SMT
<1>4. x \in Nat /\ y \in Nat
  <2>1. nav * 8 \in Nat /\ 100 * entry \in Nat /\ 100 * entry > 0
    BY SMT DEF Valuation
  <2>2. cash * 9 \in Nat /\ 10 * entry \in Nat /\ 10 * entry > 0
    BY SMT DEF Money
  <2> QED
    BY <2>1, <2>2, Quotient
<1>5. r \in Nat /\ r * d <= nav * RiskRate
  <2> HIDE DEF d
  <2> QED
    BY <1>2, <1>3, Quotient
<1>6. n \in {r, x, y} /\ n <= r
  <2>1. n = Min({r, x, y})
    BY DEF Shares, ByRisk
  <2> HIDE DEF r, x, y, n
  <2> QED
    BY <1>4, <1>5, <2>1, MinOfThree
<1>7. n \in Nat /\ n * d <= nav * RiskRate
  <2> HIDE DEF r, x, y, n, d
  <2>1. n \in Nat
    BY <1>4, <1>5, <1>6
  <2>2. n * d <= r * d
    BY <1>2, <1>5, <1>6, <2>1, SMT
  <2>3. n * d \in Nat /\ r * d \in Nat
    BY <1>2, <1>5, <2>1, SMT
  <2> QED
    BY <1>3, <1>5, <2>1, <2>2, <2>3
<1> QED
  BY <1>7

(* What a purchase does.                                                    *)
LEMMA Purchase ==
  ASSUME Calendar, Money, Valuation, NEW s \in Symbols, NEW plan \in Plans, Buy(s, plan)
  PROVE  \E p \in Position :
           /\ Sized(p) /\ p.held = 0
           /\ open' = [open EXCEPT ![s] = p]
           /\ cash' = cash - p.cost /\ cash >= p.cost
<1> DEFINE entry  == OfClose(plan.low, last[s])
           stop   == OfClose(plan.stop, last[s])
           target == OfClose(plan.target, last[s])
           n      == Shares(entry, stop)
           cost   == n * entry + BuyFee(n * entry)
           p      == [quantity |-> n, entry |-> entry, stop |-> stop, held |-> 0, nav |-> nav,
                      target |-> target, cost |-> cost]
<1>1. /\ n >= MinShares /\ cash >= cost /\ cash' = cash - cost
      /\ open' = [open EXCEPT ![s] = p] /\ seen[s] >= MinBars
  BY DEF Buy, Eligible
<1>2. plan.low \in Nat /\ plan.stop \in Nat /\ plan.target \in Nat /\ plan.low <= plan.target
  BY BacktestAssumption
<1>3. PICK b \in Bars : last[s] = b.close
  <2>1. seen[s] \in Nat /\ seen[s] > 0
    BY <1>1, Constants DEF Calendar
  <2> QED
    BY <2>1 DEF Calendar
<1>4. last[s] \in Nat
  BY DEF Calendar
<1>5. /\ entry \in Nat /\ stop \in Nat /\ target \in Nat /\ entry <= target
  <2>1. entry \in Nat /\ target \in Nat /\ entry <= target
    BY <1>2, <1>4, OfCloseGrows
  <2>2. plan.stop <= plan.stop
    BY <1>2
  <2>3. stop \in Nat
    BY <1>2, <1>4, <2>2, OfCloseGrows
  <2> QED
    BY <2>1, <2>3
<1>6. MinShares * entry >= 400
  BY <1>3, PriceAssumption
<1> HIDE DEF entry, stop, target
<1>7. entry > 0
  BY <1>5, <1>6, Constants
<1>8. n \in Nat /\ n * (10000 * Max({1, entry - stop}) + 165 * entry) <= nav * RiskRate
  BY <1>5, <1>7, SharesBound
<1> HIDE DEF n
<1>9. n * entry \in Nat /\ n * entry >= 400
  <2>1. MinShares \in Nat
    BY Constants
  <2>2. n * entry >= MinShares * entry
    BY <1>1, <1>5, <1>8, <2>1, SMT
  <2>3. n * entry \in Nat /\ MinShares * entry \in Nat
    BY <1>5, <1>8, <2>1, SMT
  <2> QED
    BY <1>6, <2>2, <2>3
<1>10. cost \in Nat
  BY <1>9, BuyFeeBound
<1>11. cost = n * entry + BuyFee(n * entry)
  OBVIOUS
<1> HIDE DEF cost
<1>12. /\ p.quantity = n /\ p.entry = entry /\ p.stop = stop /\ p.held = 0 /\ p.nav = nav
       /\ p.target = target /\ p.cost = cost
  OBVIOUS
<1>13. p \in Position
  BY <1>5, <1>8, <1>10 DEF Position, Valuation
<1> HIDE DEF p
<1>14. Sized(p)
  BY <1>1, <1>5, <1>8, <1>9, <1>11, <1>12 DEF Sized
<1> QED
  BY <1>1, <1>12, <1>13, <1>14

(* A symbol that is considered, bought or not, keeps the invariant, and     *)
(* nothing is lost or sold.                                                 *)
LEMMA ConsiderKeeps ==
  ASSUME LabInv, NEW s \in Symbols, Consider(s)
  PROVE  /\ LabInv' /\ losses' = losses
         /\ \A t \in Held : open'[t] # None
<1>1. /\ turn \in DOMAIN Order /\ turn' = turn + 1
      /\ UNCHANGED <<limit, day, bar, seen, last, gains, losses, nav, peak, dip, report>>
  BY DEF Consider, market, value
<1>2. Calendar'
  <2>1. DOMAIN Order = 1..Len(Order) /\ Len(Order) \in Nat
    BY BacktestAssumption
  <2>2. turn' \in 0..(Len(Order) + 1) /\ turn > 0
    BY <1>1, <2>1
  <2> QED
    BY <1>1, <2>2 DEF Calendar, LabInv
<1>3. Valuation' /\ Reported'
  BY <1>1 DEF LabInv, Valuation, Drawdown, Reported, ReportConsistent
<1>4. CASE UNCHANGED <<cash, open>>
  <2>1. Held' = Held /\ Invested' = Invested
    BY <1>4 DEF Held, Invested
  <2>2. Holdings' /\ Money'
    <3>1. turn > 0
      BY <1>1, BacktestAssumption
    <3>2. Holdings /\ Money
      BY DEF LabInv
    <3>3. HorizonKept'
      BY <1>1, <1>4, <2>1, <3>1, <3>2 DEF Holdings, HorizonKept
    <3>4. Holdings'
      BY <1>1, <1>4, <2>1, <3>2, <3>3 DEF Holdings
    <3> QED
      BY <1>1, <1>4, <2>1, <3>2, <3>4 DEF Money, BooksBalance
  <2>3. \A t \in Held : open'[t] # None
    BY <1>4 DEF Held
  <2> QED
    BY <1>1, <1>2, <1>3, <2>2, <2>3 DEF LabInv
<1>5. ASSUME NEW plan \in Plans, Buy(s, plan)
      PROVE  Holdings' /\ Money' /\ \A t \in Held : open'[t] # None
  <2>1. PICK p \in Position :
          /\ Sized(p) /\ p.held = 0
          /\ open' = [open EXCEPT ![s] = p]
          /\ cash' = cash - p.cost /\ cash >= p.cost
    BY <1>5, Purchase DEF LabInv
  <2>2. open[s] = None /\ Cardinality(Held) < limit
    BY <1>5 DEF Buy, Eligible
  <2>3. /\ Held \subseteq Symbols /\ IsFiniteSet(Held) /\ s \notin Held
        /\ open \in [Symbols -> Position \cup {None}]
    BY <2>2, HeldPositions DEF LabInv, Holdings, Held
  <2>4. p # None
    <3>1. p.quantity >= MinShares /\ p.quantity \in Nat
      BY <2>1 DEF Sized, Position
    <3> QED
      BY <3>1, Constants DEF None
  <2>5. open'[s] = p /\ \A t \in Symbols \ {s} : open'[t] = open[t]
    BY <2>1, <2>3
  <2>6. Held' = Held \cup {s}
    <3>1. Held' = {t \in Symbols : open'[t] # None} /\ Held = {t \in Symbols : open[t] # None}
      BY DEF Held
    <3> QED
      BY <2>4, <2>5, <3>1
  <2>7. \A t \in Held : open'[t] = open[t] /\ open'[t] # None
    BY <2>3, <2>5 DEF Held
  <2>8. Holdings'
    <3>1. open' \in [Symbols -> Position \cup {None}]
      BY <2>1, <2>3
    <3>2. \A t \in Held' : Sized(open'[t])
      BY <2>1, <2>5, <2>6, <2>7 DEF LabInv, Holdings
    <3>3. Cardinality(Held') <= limit'
      <4>1. Cardinality(Held') = Cardinality(Held) + 1 /\ Cardinality(Held) \in Nat
        BY <2>3, <2>6, FS_AddElement, FS_CardinalityType
      <4>2. limit \in Nat
        BY Constants DEF LabInv, Calendar
      <4> QED
        BY <1>1, <2>2, <4>1, <4>2
    <3>4. ASSUME NEW t \in Held', bar'[t] # NoBar
          PROVE  open'[t].held < Horizon
      <4>1. CASE t = s
        BY <2>1, <2>5, <4>1, Constants
      <4>2. CASE t # s
        <5>1. t \in Held /\ bar[t] # NoBar /\ open'[t] = open[t]
          BY <1>1, <2>6, <2>7, <3>4, <4>2
        <5>2. turn > 0
          BY <1>1, BacktestAssumption
        <5> QED
          BY <5>1, <5>2 DEF LabInv, Holdings, HorizonKept
      <4> QED
        BY <4>1, <4>2
    <3> QED
      BY <3>1, <3>2, <3>3, <3>4 DEF Holdings, HorizonKept
  <2>9. Money'
    <3> DEFINE f == [t \in Held |-> open[t].cost]
               g == [t \in Held' |-> open'[t].cost]
    <3>1. /\ DOMAIN f = Held /\ \A t \in Held : f[t] \in Int
          /\ DOMAIN g = Held \cup {s}
          /\ \A t \in Held : g[t] = f[t]
          /\ g[s] = p.cost
      BY <2>5, <2>6, <2>7, HeldCosts DEF LabInv
    <3>2. p.cost \in Nat
      BY DEF Position
    <3>3. Invested = SumFunctionOnSet(f, Held)
      BY DEF Invested, SumFunction
    <3>4. Invested' = SumFunctionOnSet(g, Held \cup {s})
      <4>1. Invested' = SumFunctionOnSet(g, DOMAIN g)
        BY DEF Invested, SumFunction
      <4> QED
        BY <3>1, <4>1
    <3> HIDE DEF f, g
    <3>5. SumFunctionOnSet(g, Held \cup {s}) = SumFunctionOnSet(g, Held) + p.cost
      <4>1. \A t \in Held \cup {s} : g[t] \in Int
        BY <3>1, <3>2
      <4> QED
        BY <2>3, <3>1, <4>1, SumAdd
    <3>6. SumFunctionOnSet(g, Held) = SumFunctionOnSet(f, Held)
      BY <2>3, <3>1, SumSame
    <3>7. SumFunctionOnSet(f, Held) \in Int
      BY <2>3, <3>1, SumInt
    <3>8. /\ cash \in Nat /\ gains \in Nat /\ losses \in Nat
          /\ cash + Invested = Capital + gains - losses
      BY DEF LabInv, Money, BooksBalance
    <3>9. cash' + Invested' = Capital + gains' - losses'
      BY <1>1, <2>1, <3>2, <3>3, <3>4, <3>5, <3>6, <3>7, <3>8, Constants
    <3>10. cash' \in Nat
      BY <2>1, <3>2, <3>8
    <3> QED
      BY <1>1, <3>8, <3>9, <3>10 DEF Money, BooksBalance
  <2> QED
    BY <2>7, <2>8, <2>9
<1>6. (\E plan \in Plans : Buy(s, plan)) \/ UNCHANGED <<cash, open>>
  BY DEF Consider
<1>7. CASE \E plan \in Plans : Buy(s, plan)
  BY <1>1, <1>2, <1>3, <1>5, <1>7 DEF LabInv
<1> QED
  BY <1>4, <1>6, <1>7

-----------------------------------------------------------------------------
(* The evening, and the report. *)

(* The value of the book is a natural.                                      *)
LEMMA EquityNat == ASSUME Calendar, Holdings, Money PROVE Equity \in Nat
<1> DEFINE f == [s \in Held |-> Worth(s)]
<1>1. ASSUME NEW s \in Held
      PROVE  Worth(s) \in Nat
  <2>1. s \in Symbols /\ open[s].quantity \in Nat /\ open[s].entry \in Nat
    BY HeldPositions DEF Position
  <2>2. bar[s] # NoBar => bar[s].close \in Nat
    BY <2>1, BacktestAssumption DEF Calendar
  <2>3. (IF bar[s] = NoBar THEN open[s].entry ELSE bar[s].close) \in Nat
    BY <2>1, <2>2
  <2> QED
    BY <2>1, <2>3, ProductNat DEF Worth
<1>2. IsFiniteSet(Held) /\ DOMAIN f = Held /\ \A s \in Held : f[s] \in Nat
  BY <1>1, HeldPositions
<1>3. Equity = cash + SumFunctionOnSet(f, Held)
  BY DEF Equity, SumFunction
<1> HIDE DEF f
<1>4. SumFunctionOnSet(f, Held) \in Nat
  BY <1>2, SumNat
<1> QED
  BY <1>3, <1>4 DEF Money

(* A drawdown, in basis points, is a natural.                               *)
LEMMA DrawdownNat ==
  ASSUME NEW high \in Nat, high > 0, NEW now \in Nat, now <= high
  PROVE  Drawdown(high, now) \in Nat
<1>1. 10000 * (high - now) + high \div 2 \in Nat
  BY SMT
<1> QED
  BY <1>1, Quotient DEF Drawdown

(* An evening keeps the invariant.                                          *)
LEMMA EveningKeeps == ASSUME LabInv, Evening PROVE LabInv' /\ UNCHANGED book
<1>1. /\ turn = Len(Order) + 1 /\ turn' = 0 /\ day' = day + 1
      /\ seen' = [s \in Symbols |-> seen[s] + IF bar[s] = NoBar THEN 0 ELSE 1]
      /\ last' = [s \in Symbols |-> IF bar[s] = NoBar THEN last[s] ELSE bar[s].close]
      /\ bar' = [s \in Symbols |-> NoBar]
      /\ UNCHANGED <<limit, cash, open, gains, losses, report>>
  BY DEF Evening, book
<1>2. Calendar'
  <2>1. Len(Order) \in Nat /\ MaxDays \in Nat
    BY BacktestAssumption
  <2>2. day \in 0..MaxDays /\ day < MaxDays /\ limit \in Limits
    BY <1>1, <2>1 DEF LabInv, Calendar
  <2>3. /\ day' \in 0..MaxDays /\ turn' \in 0..(Len(Order) + 1) /\ ~(turn' > 0)
        /\ limit' \in Limits
    BY <1>1, <2>1, <2>2
  <2>4. bar' \in [Symbols -> Bars \cup {NoBar}]
    BY <1>1
  <2>5. ASSUME NEW s \in Symbols
        PROVE  /\ seen'[s] \in Nat /\ last'[s] \in Nat /\ seen'[s] <= day'
               /\ (seen'[s] > 0 => \E b \in Bars : last'[s] = b.close)
    <3>1. /\ seen[s] \in Nat /\ last[s] \in Nat /\ seen[s] <= day
          /\ (seen[s] > 0 => \E b \in Bars : last[s] = b.close)
          /\ bar[s] \in Bars \cup {NoBar}
      BY DEF LabInv, Calendar
    <3>2. CASE bar[s] = NoBar
      <4>1. seen'[s] = seen[s] /\ last'[s] = last[s]
        BY <1>1, <3>1, <3>2
      <4> QED
        BY <1>1, <2>2, <3>1, <4>1
    <3>3. CASE bar[s] # NoBar
      <4>1. seen'[s] = seen[s] + 1 /\ last'[s] = bar[s].close
        BY <1>1, <3>3
      <4>2. bar[s] \in Bars /\ bar[s].close \in Nat
        BY <3>1, <3>3, BacktestAssumption
      <4> QED
        BY <1>1, <2>2, <3>1, <4>1, <4>2
    <3> QED
      BY <3>2, <3>3
  <2>6. seen' \in [Symbols -> Nat] /\ last' \in [Symbols -> Nat]
    BY <1>1, <2>5
  <2> QED
    BY <2>3, <2>4, <2>5, <2>6 DEF Calendar
<1>3. Held' = Held /\ Invested' = Invested
  BY <1>1 DEF Held, Invested
<1>4. Holdings' /\ Money'
  <2>1. Holdings /\ Money
    BY DEF LabInv
  <2>2. HorizonKept'
    <3>1. \A s \in Held' : bar'[s] = NoBar
      BY <1>1 DEF Held
    <3> QED
      BY <3>1 DEF HorizonKept
  <2>3. Holdings'
    BY <1>1, <1>3, <2>1, <2>2 DEF Holdings
  <2> QED
    BY <1>1, <1>3, <2>1, <2>3 DEF Money, BooksBalance
<1>5. Valuation'
  <2>1. Equity \in Nat
    BY EquityNat DEF LabInv
  <2>2. nav' = Equity /\ peak' = Max({peak, Equity})
    BY DEF Evening, HighWater
  <2>3. dip' = Max({dip, Drawdown(peak', nav')})
    BY DEF Evening, HighWater
  <2>4. peak \in Nat /\ peak >= Capital /\ dip \in Nat /\ Capital \in Nat /\ Capital > 0
    BY Constants DEF LabInv, Valuation
  <2>5. peak' \in Nat /\ peak' >= Capital /\ peak' >= nav' /\ nav' \in Nat
    <3>1. peak' = IF peak >= Equity THEN peak ELSE Equity
      BY <2>1, <2>2, <2>4, MaxOfTwo
    <3> QED
      BY <2>1, <2>2, <2>4, <3>1
  <2>6. Drawdown(peak', nav') \in Nat
    BY <2>4, <2>5, DrawdownNat
  <2>7. dip' = IF dip >= Drawdown(peak', nav') THEN dip ELSE Drawdown(peak', nav')
    BY <2>3, <2>4, <2>6, MaxOfTwo
  <2>8. dip' \in Nat /\ dip' >= Drawdown(peak', nav')
    BY <2>4, <2>6, <2>7
  <2>9. Drawdown(peak, nav)' = Drawdown(peak', nav')
    BY DEF Drawdown
  <2> QED
    BY <2>5, <2>8, <2>9 DEF Valuation
<1>6. Reported'
  BY <1>1 DEF LabInv, Reported, ReportConsistent
<1>7. UNCHANGED book
  BY <1>1 DEF book
<1> QED
  BY <1>2, <1>4, <1>5, <1>6, <1>7 DEF LabInv

(* A quotient that is rounded down, of any integer.                         *)
LEMMA QuotientInt ==
  ASSUME NEW a \in Int, NEW b \in Nat, b > 0
  PROVE  a \div b \in Int /\ (a \div b) * b <= a /\ a < (a \div b) * b + b
  BY SMT

(* A drawdown from h, the highest value, is at least the loss against the   *)
(* capital c, to the basis point, when h is no less than c.                 *)
LEMMA DrawdownCovers ==
  ASSUME NEW c \in Nat, c > 0, NEW h \in Nat, h >= c, NEW n \in Nat, n <= h,
         NEW d \in Nat, d >= Drawdown(h, n)
  PROVE  d >= 0 - ((10000 * (n - c)) \div c) - 1
<1> DEFINE g == (10000 * (n - c)) \div c
           k == Drawdown(h, n) + 1
<1>1. g \in Int /\ 10000 * (n - c) < g * c + c
  <2>1. 10000 * (n - c) \in Int
    BY SMT
  <2> QED
    BY <2>1, QuotientInt
<1>2. k \in Nat /\ 10000 * (h - n) < k * h
  <2> DEFINE a == 10000 * (h - n) + h \div 2
             q == a \div h
  <2>1. a \in Nat /\ a >= 10000 * (h - n)
    BY SMT
  <2>2. q \in Nat /\ a < q * h + h
    <3> HIDE DEF a
    <3> QED
      BY <2>1, Quotient
  <2>3. k = q + 1
    BY DEF Drawdown
  <2> HIDE DEF q, a, k
  <2>4. k * h = q * h + h /\ q * h \in Nat
    BY <2>2, <2>3, SMT
  <2>5. 10000 * (h - n) \in Int
    BY SMT
  <2> QED
    BY <2>1, <2>2, <2>3, <2>4, <2>5, SMT
<1>3. SUFFICES ASSUME k <= -g - 1 PROVE FALSE
  <2>1. Drawdown(h, n) \in Nat
    BY DrawdownNat
  <2>2. d >= 0 - g - 1
    <3> HIDE DEF g
    <3> QED
      BY <1>1, <1>3, <2>1 DEF k
  <2> QED
    BY <2>2
<1> HIDE DEF g, k
<1>4. k * c < 10000 * (c - n)
  <2>1. k * c <= (-g - 1) * c
    BY <1>1, <1>2, <1>3, SMT
  <2>2. (-g - 1) * c = -(g * c + c) /\ g * c + c \in Int
    BY <1>1, SMT
  <2>3. k * c \in Int
    BY <1>2, SMT
  <2> QED
    BY <1>1, <2>1, <2>2, <2>3, SMT
<1>5. (k * c) * h < (10000 * (c - n)) * h
  <2>1. k * c \in Int /\ 10000 * (c - n) \in Int
    BY <1>2, SMT
  <2>2. ASSUME NEW x \in Int, NEW y \in Int, x < y PROVE x * h < y * h
    BY <2>2, SMT
  <2> QED
    BY <1>4, <2>1, <2>2
<1>6. (10000 * (h - n)) * c < (k * h) * c
  <2>1. k * h \in Int /\ 10000 * (h - n) \in Int
    BY <1>2, SMT
  <2>2. ASSUME NEW x \in Int, NEW y \in Int, x < y PROVE x * c < y * c
    BY <2>2, SMT
  <2> QED
    BY <1>2, <2>1, <2>2
<1>7. /\ (k * c) * h = (k * h) * c /\ (k * c) * h \in Int
      /\ (10000 * (c - n)) * h = 10000 * (c * h) - 10000 * (n * h)
      /\ (10000 * (h - n)) * c = 10000 * (c * h) - 10000 * (n * c)
  BY <1>2, SMT
<1>8. n * c <= n * h /\ n * c \in Nat /\ n * h \in Nat /\ c * h \in Nat
  BY SMT
<1> QED
  BY <1>5, <1>6, <1>7, <1>8, SMT

(* The report is one, agrees with itself, and is the last thing to happen.  *)
LEMMA FinishKeeps == ASSUME LabInv, Finish PROVE LabInv' /\ UNCHANGED book
<1>1. UNCHANGED <<limit, day, turn, bar, seen, last, cash, open, gains, losses, nav, peak, dip>>
  BY DEF Finish, market, book, value
<1>2. Calendar' /\ Valuation'
  BY <1>1 DEF LabInv, Calendar, Valuation, Drawdown
<1>3. Held' = Held /\ Invested' = Invested
  BY <1>1 DEF Held, Invested
<1>4. Holdings' /\ Money'
  <2>1. Holdings /\ Money
    BY DEF LabInv
  <2> QED
    BY <1>1, <1>3, <2>1 DEF Holdings, HorizonKept, Money, BooksBalance
<1>5. Reported'
  <2> DEFINE gain == (10000 * (nav - Capital)) \div Capital
  <2>1. report' = [final |-> nav, dip |-> dip, factor |-> ProfitFactor, gain |-> gain]
    BY DEF Finish
  <2>2. /\ nav \in Nat /\ dip \in Nat /\ peak \in Nat /\ peak >= Capital /\ peak >= nav
        /\ dip >= Drawdown(peak, nav)
    BY DEF LabInv, Valuation
  <2>3. gain \in Int
    <3>1. 10000 * (nav - Capital) \in Int
      BY <2>2, Constants, SMT
    <3> QED
      BY <3>1, Constants, QuotientInt
  <2>4. dip >= 0 - gain - 1
    BY <2>2, Constants, DrawdownCovers
  <2>5. ProfitFactor \in Int
    <3>1. gains \in Nat /\ losses \in Nat
      BY DEF LabInv, Money
    <3>2. 100 * gains + losses \div 2 \in Nat
      BY <3>1, SMT
    <3>3. losses > 0 => (100 * gains + losses \div 2) \div losses \in Nat
      BY <3>1, <3>2, Quotient
    <3>4. CASE losses > 0
      BY <3>1, <3>3, <3>4 DEF ProfitFactor
    <3>5. CASE losses = 0 /\ gains > 0
      BY <3>1, <3>5 DEF ProfitFactor
    <3>6. CASE losses = 0 /\ gains <= 0
      BY <3>1, <3>6 DEF ProfitFactor
    <3> QED
      BY <3>1, <3>4, <3>5, <3>6
  <2> HIDE DEF gain
  <2>6. report' \in Report
    BY <2>1, <2>2, <2>3, <2>5 DEF Report
  <2>7. report'.dip >= 0 - report'.gain - 1
    BY <2>1, <2>4
  <2> QED
    BY <2>6, <2>7 DEF Reported, ReportConsistent
<1>6. UNCHANGED book
  BY <1>1 DEF book
<1> QED
  BY <1>2, <1>4, <1>5, <1>6 DEF LabInv

-----------------------------------------------------------------------------
(* The theorems. *)

(* It holds before the first day.                                           *)
LEMMA LabInit == ASSUME Init PROVE LabInv
<1>1. /\ limit \in Limits /\ day = 0 /\ turn = 0 /\ cash = Capital /\ nav = Capital
      /\ peak = Capital /\ dip = 0 /\ gains = 0 /\ losses = 0 /\ report = NoReport
      /\ bar = [s \in Symbols |-> NoBar] /\ open = [s \in Symbols |-> None]
      /\ seen = [s \in Symbols |-> 0] /\ last = [s \in Symbols |-> 0]
  BY DEF Init
<1>2. Calendar
  <2>1. Len(Order) \in Nat /\ MaxDays \in Nat
    BY BacktestAssumption
  <2> QED
    BY <1>1, <2>1 DEF Calendar
<1>3. Held = {}
  BY <1>1 DEF Held
<1>4. Holdings
  <2>1. Cardinality(Held) <= limit
    BY <1>1, <1>3, FS_EmptySet, Constants
  <2>2. open \in [Symbols -> Position \cup {None}]
    BY <1>1
  <2> QED
    BY <1>3, <2>1, <2>2 DEF Holdings, HorizonKept
<1>5. Money
  <2> DEFINE f == [s \in Held |-> open[s].cost]
  <2>1. DOMAIN f = {}
    BY <1>3
  <2>2. SumFunction(f) = 0
    <3> HIDE DEF f
    <3> QED
      BY <2>1, NoRows
  <2>3. Invested = 0
    BY <2>2 DEF Invested
  <2> QED
    BY <1>1, <2>3, Constants DEF Money, BooksBalance
<1>6. Valuation
  <2>1. Drawdown(Capital, Capital) = 0
    <3>1. 10000 * (Capital - Capital) + Capital \div 2 = Capital \div 2
      BY Constants, SMT
    <3>2. Capital \div 2 \in Nat /\ Capital \div 2 < Capital
      BY Constants, SMT
    <3>3. \A x \in Nat, y \in Nat : x < y => x \div y = 0
      BY SMT
    <3> QED
      BY <3>1, <3>2, <3>3, Constants DEF Drawdown
  <2> QED
    BY <1>1, <2>1, Constants DEF Valuation
<1>7. Reported
  BY <1>1 DEF Reported, ReportConsistent
<1> QED
  BY <1>2, <1>4, <1>5, <1>6, <1>7 DEF LabInv

(* Every step keeps it, and no step that changes the book loses more than   *)
(* the budgets of the trades it ends.                                       *)
Budgeted ==
  10000 * (losses' - losses)
    <= SumFunction([s \in {t \in Held : open'[t] = None} |-> open[s].nav * RiskRate])

LEMMA LabStep == ASSUME LabInv, [Next]_vars PROVE LabInv' /\ [Budgeted]_book
<1>1. ASSUME NEW s \in Symbols, Consider(s)
      PROVE  LabInv' /\ Budgeted
  <2>1. /\ LabInv' /\ losses' = losses
        /\ {t \in Held : open'[t] = None} = {}
    BY <1>1, ConsiderKeeps
  <2> DEFINE f == [s_1 \in {t \in Held : open'[t] = None} |-> open[s_1].nav * RiskRate]
  <2>2. DOMAIN f = {}
    BY <2>1
  <2>3. SumFunction(f) = 0
    <3> HIDE DEF f
    <3> QED
      BY <2>2, NoRows
  <2>4. losses \in Nat
    BY DEF LabInv, Money
  <2>5. 10000 * (losses' - losses) <= SumFunction(f)
    <3> HIDE DEF f
    <3> QED
      BY <2>1, <2>3, <2>4
  <2> QED
    BY <2>1, <2>5 DEF Budgeted
<1>2. CASE Morning
  BY <1>2, MorningKeeps DEF Budgeted
<1>3. CASE Evening
  BY <1>3, EveningKeeps
<1>4. CASE Finish
  BY <1>4, FinishKeeps
<1>5. CASE UNCHANGED vars
  <2>1. UNCHANGED <<limit, day, turn, bar, seen, last, cash, open, gains, losses, nav, peak, dip,
                    report>>
    BY <1>5 DEF vars, market, book, value
  <2>2. Held' = Held /\ Invested' = Invested
    BY <2>1 DEF Held, Invested
  <2>3. Calendar' /\ Valuation' /\ Reported'
    BY <2>1 DEF LabInv, Calendar, Valuation, Drawdown, Reported, ReportConsistent
  <2>4. Holdings /\ Money
    BY DEF LabInv
  <2>5. Holdings' /\ Money'
    BY <2>1, <2>2, <2>4 DEF Holdings, HorizonKept, Money, BooksBalance
  <2>6. UNCHANGED book
    BY <2>1 DEF book
  <2> QED
    BY <2>3, <2>5, <2>6 DEF LabInv
<1> QED
  BY <1>1, <1>2, <1>3, <1>4, <1>5 DEF Next

(* What the runs check follows from it.                                     *)
LEMMA LabMeans == ASSUME LabInv PROVE BacktestInv
<1>1. BacktestTypeOK
  <2>1. \A s \in Symbols : bar[s] \in Bars \cup {NoBar} /\ seen[s] \in 0..MaxDays
    <3>1. MaxDays \in Nat
      BY Constants
    <3> QED
      BY <3>1 DEF LabInv, Calendar
  <2>2. \A s \in Symbols : open[s] = None \/ (open[s].quantity >= MinShares /\ open[s].cost > 0)
    <3>1. \A s \in Held : open[s].quantity >= MinShares /\ open[s].cost > 0
      <4>1. Holdings
        BY DEF LabInv
      <4>2. \A s \in Held : open[s].cost > 0
        BY <4>1, HeldCosts
      <4>3. ASSUME NEW s \in Held
            PROVE  open[s].quantity >= MinShares
        <5>1. Sized(open[s])
          BY <4>1 DEF Holdings
        <5> QED
          BY <5>1 DEF Sized
      <4> QED
        BY <4>2, <4>3
    <3> QED
      BY <3>1 DEF Held
  <2>3. /\ limit \in Limits /\ day \in 0..MaxDays /\ turn \in 0..(Len(Order) + 1)
    BY DEF LabInv, Calendar
  <2>4. {cash, nav, peak, dip, gains, losses} \subseteq Nat
    BY DEF LabInv, Money, Valuation
  <2>5. Cardinality(Held) <= limit /\ report \in Report \cup {NoReport}
    BY DEF LabInv, Holdings, Reported
  <2> QED
    BY <2>1, <2>2, <2>3, <2>4, <2>5 DEF BacktestTypeOK
<1> QED
  BY <1>1 DEF LabInv, Holdings, Money, Reported, BacktestInv

THEOREM LabInvariant == Spec => []LabInv
<1>1. Init => LabInv
  BY LabInit
<1>2. LabInv /\ [Next]_vars => LabInv'
  BY LabStep
<1> QED
  BY <1>1, <1>2, PTL DEF Spec

(* Nothing is overdrawn, the books balance, limit and horizon are kept, and *)
(* the report agrees with itself (engine.py:80-112, 124-129, 196-206, 229-231 and 265-266).   *)
THEOREM SimulationSound == Spec => []BacktestInv
<1>1. LabInv => BacktestInv
  BY LabMeans
<1> QED
  BY <1>1, LabInvariant, PTL

(* Cash and the cost of what is held are the capital and the results of     *)
(* what was sold, fees and all (engine.py:116-121 and 203-206).             *)
THEOREM SimulationBalances == Spec => []BooksBalance
<1>1. LabInv => BooksBalance
  BY LabMeans DEF BacktestInv
<1> QED
  BY <1>1, LabInvariant, PTL

(* No trade loses more than the risk budget of the day it was bought,       *)
(* whatever the bars of the days that follow (engine.py:190-201).           *)
THEOREM LossesBudgeted == Spec => LossWithinBudget
<1>1. LabInv /\ [Next]_vars => [Budgeted]_book
  BY LabStep
<1>2. LossWithinBudget <=> [][Budgeted]_book
  BY DEF LossWithinBudget, Budgeted
<1> QED
  BY <1>1, <1>2, LabInvariant, PTL DEF Spec
=============================================================================
