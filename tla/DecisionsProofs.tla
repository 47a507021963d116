--------------------------- MODULE DecisionsProofs ---------------------------
(***************************************************************************)
(* Theorems about the purchases a trading cycle decides on, for every      *)
(* value of the constants: scores stay in their ranges and grades tell the *)
(* truth, no purchase is decided deep in a loss, a stopped trade costs     *)
(* what the policy allows, the orders of a cycle can all be paid, each     *)
(* rests on evidence that is there, and evidence that only gets better     *)
(* never takes a tradable signal away.                                     *)
(*                                                                         *)
(* Nothing about an order survives the step after its cycle, so each       *)
(* property is proved of the step Enter, from the types of the evidence    *)
(* and of the portfolio; better evidence, of any step and the two          *)
(* evidences it joins.                                                     *)
(***************************************************************************)
EXTENDS Decisions, SumTheorems

-----------------------------------------------------------------------------
(* Numbers. *)

LEMMA DivisionWithin ==
  ASSUME NEW a \in Nat, NEW b \in Nat, b > 0, NEW k \in Nat, a <= k * b
  PROVE  a \div b \in 0..k
<1>1. a \div b \in Nat /\ (a \div b) * b <= a
  BY DivisionFacts, DivisionNat
<1> DEFINE q == a \div b
<1>2. q \in Nat /\ q * b <= k * b
  BY <1>1
<1>3. q <= k
  <2> HIDE DEF q
  <2> QED
    BY <1>2, Z3
<1> QED
  BY <1>2, <1>3

(* The image of a finite set under a function.                              *)
LEMMA ImageFinite ==
  ASSUME NEW S, IsFiniteSet(S), NEW f
  PROVE  IsFiniteSet({f[x] : x \in S})
<1> DEFINE T == {f[x] : x \in S}
           g == [x \in S |-> f[x]]
<1>1. g \in Surjection(S, T)
  BY DEF Surjection
<1> QED
  BY <1>1, FS_Surjection

LEMMA LeastOf ==
  ASSUME NEW S \in SUBSET Int, IsFiniteSet(S), S # {}
  PROVE  Min(S) \in S /\ \A y \in S : Min(S) <= y
<1>1. \E x \in S : \A y \in S : x <= y
  BY LeastExists
<1> QED
  BY <1>1 DEF Min

LEMMA GreatestOf ==
  ASSUME NEW S \in SUBSET Int, IsFiniteSet(S), S # {}
  PROVE  Max(S) \in S /\ \A y \in S : y <= Max(S)
<1> DEFINE minus == [x \in Int |-> 0 - x]
           T == {minus[x] : x \in S}
<1>1. IsFiniteSet(T)
  <2> HIDE DEF minus
  <2> QED
    BY ImageFinite
<1>2. T \in SUBSET Int /\ T # {}
  OBVIOUS
<1>3. PICK m \in T : \A y \in T : m <= y
  <2> HIDE DEF T
  <2> QED
    BY <1>1, <1>2, LeastExists
<1>4. PICK x \in S : m = minus[x]
  BY <1>3
<1>5. \A y \in S : minus[y] \in T
  OBVIOUS
<1>6. \A y \in S : x >= y
  <2> SUFFICES ASSUME NEW y \in S PROVE x >= y
    OBVIOUS
  <2>1. minus[x] <= minus[y]
    BY <1>3, <1>4, <1>5
  <2>2. x \in Int /\ y \in Int
    OBVIOUS
  <2> QED
    BY <2>1, <2>2
<1>7. Max(S) \in S /\ \A y \in S : Max(S) >= y
  <2> HIDE DEF T, minus
  <2> QED
    BY <1>6 DEF Max
<1> QED
  <2> HIDE DEF T, minus
  <2>1. \A y \in S : y \in Int
    OBVIOUS
  <2> QED
    BY <1>7, <2>1

(* Of two integers.                                                         *)
LEMMA MinOfTwo ==
  ASSUME NEW a \in Int, NEW b \in Int
  PROVE  Min({a, b}) = IF a <= b THEN a ELSE b
<1>1. IsFiniteSet({a, b})
  <2>1. IsFiniteSet({a}) /\ IsFiniteSet({b})
    BY FS_Singleton
  <2>2. IsFiniteSet({a} \cup {b})
    BY <2>1, FS_Union
  <2>3. {a, b} = {a} \cup {b}
    OBVIOUS
  <2> QED
    BY <2>2, <2>3
<1>2. Min({a, b}) \in {a, b} /\ \A y \in {a, b} : Min({a, b}) <= y
  BY <1>1, LeastOf
<1> QED
  BY <1>2

LEMMA MaxOfTwo ==
  ASSUME NEW a \in Int, NEW b \in Int
  PROVE  Max({a, b}) = IF a >= b THEN a ELSE b
<1>1. IsFiniteSet({a, b})
  <2>1. IsFiniteSet({a}) /\ IsFiniteSet({b})
    BY FS_Singleton
  <2>2. IsFiniteSet({a} \cup {b})
    BY <2>1, FS_Union
  <2>3. {a, b} = {a} \cup {b}
    OBVIOUS
  <2> QED
    BY <2>2, <2>3
<1>2. Max({a, b}) \in {a, b} /\ \A y \in {a, b} : y <= Max({a, b})
  BY <1>1, GreatestOf
<1> QED
  BY <1>2

(* Of six sets, or numbers.                                                 *)
LEMMA FiniteSix ==
  ASSUME NEW a, NEW b, NEW c, NEW d, NEW e, NEW f
  PROVE  IsFiniteSet({a, b, c, d, e, f})
<1>1. IsFiniteSet({a}) /\ IsFiniteSet({a} \cup {b})
  BY FS_Singleton, FS_AddElement
<1>2. IsFiniteSet(({a} \cup {b}) \cup {c})
  BY <1>1, FS_AddElement
<1>3. IsFiniteSet((({a} \cup {b}) \cup {c}) \cup {d})
  BY <1>2, FS_AddElement
<1>4. IsFiniteSet(((({a} \cup {b}) \cup {c}) \cup {d}) \cup {e})
  BY <1>3, FS_AddElement
<1>5. IsFiniteSet((((({a} \cup {b}) \cup {c}) \cup {d}) \cup {e}) \cup {f})
  BY <1>4, FS_AddElement
<1>6. {a, b, c, d, e, f} = (((({a} \cup {b}) \cup {c}) \cup {d}) \cup {e}) \cup {f}
  OBVIOUS
<1> QED
  BY <1>5, <1>6

(* A finite set with two elements that differ is what a cardinality of two  *)
(* or more says there is.                                                   *)
LEMMA TwoApart ==
  ASSUME NEW S, IsFiniteSet(S), Cardinality(S) >= 2
  PROVE  \E x, y \in S : x # y
<1> SUFFICES ASSUME \A x, y \in S : x = y PROVE FALSE
  OBVIOUS
<1>1. Cardinality({}) = 0 /\ \A x : Cardinality({x}) = 1
  BY FS_EmptySet, FS_Singleton
<1>2. S = {} \/ \E x : S = {x}
  <2>1. CASE S = {}
    BY <2>1
  <2>2. CASE S # {}
    <3>1. PICK x \in S : TRUE
      BY <2>2
    <3> QED
      BY <3>1
  <2> QED
    BY <2>1, <2>2
<1>3. Cardinality(S) = 0 \/ Cardinality(S) = 1
  <2>1. CASE S = {}
    BY <1>1, <2>1
  <2>2. CASE \E x : S = {x}
    <3>1. PICK x : S = {x}
      BY <2>2
    <3>2. Cardinality({x}) = 1
      BY <1>1
    <3> QED
      BY <3>1, <3>2
  <2> QED
    BY <1>2, <2>1, <2>2
<1> QED
  BY <1>3

(* The same term over and over.                                             *)
LEMMA SumConstant ==
  ASSUME NEW S, IsFiniteSet(S), NEW c \in Int, NEW f, \A x \in S : f[x] = c
  PROVE  SumFunctionOnSet(f, S) = Cardinality(S) * c
<1> DEFINE Good == {T \in SUBSET S : SumFunctionOnSet(f, T) = Cardinality(T) * c}
<1>1. ASSUME NEW T \in SUBSET S, \A U \in SUBSET T : U # T => U \in Good
      PROVE  T \in Good
  <2>1. IsFiniteSet(T)
    BY FS_Subset
  <2>2. CASE T = {}
    <3>1. SumFunctionOnSet(f, T) = 0 /\ Cardinality(T) = 0
      BY <2>2, SumEmpty, FS_EmptySet
    <3> QED
      BY <3>1
  <2>3. CASE T # {}
    <3> DEFINE x == Pick(T)
               U == T \ {x}
    <3>1. x \in T /\ U \in Good
      BY <1>1, <2>3, PickIn
    <3>2. SumFunctionOnSet(f, T) = f[x] + SumFunctionOnSet(f, U)
      BY <2>1, <2>3, SumStep
    <3>3. Cardinality(U) = Cardinality(T) - 1 /\ Cardinality(T) \in Nat
      BY <2>1, <3>1, FS_RemoveElement, FS_CardinalityType
    <3>4. f[x] = c /\ SumFunctionOnSet(f, U) = Cardinality(U) * c
      BY <3>1
    <3>5. SumFunctionOnSet(f, T) = Cardinality(T) * c
      <4> DEFINE n == Cardinality(T)
      <4>1. n \in Int
        BY <3>3
      <4>2. (n - 1) * c = n * c - c /\ n * c \in Int
        <5> HIDE DEF n
        <5> QED
          BY <4>1
      <4>3. SumFunctionOnSet(f, T) = c + (n - 1) * c
        BY <3>2, <3>3, <3>4
      <4>4. SumFunctionOnSet(f, T) = n * c
        <5> HIDE DEF n
        <5> QED
          BY <4>2, <4>3
      <4> QED
        BY <4>4
    <3> QED
      BY <3>5
  <2> QED
    BY <2>2, <2>3
<1>2. S \in Good
  <2> HIDE DEF Good
  <2> QED
    BY <1>1, SubsetInduction
<1> QED
  BY <1>2

-----------------------------------------------------------------------------
(* The size of an order. *)

Portfolios == [cash : Nat, value : Nat, count : Nat, risk : Nat, reserved : Nat, kill : BOOLEAN]

(* The caps of a policy leave a reserve of thirty percent or more, and the  *)
(* drawdown ladder only lowers its risk.                                    *)
LEMMA PolicyFacts ==
  ASSUME NEW state
  PROVE  /\ Policy(state).rate \in Nat /\ Policy(state).gross \in Nat
         /\ Policy(state).reserve \in Nat /\ Policy(state).reserve >= 30
  BY DEF Policy

LEMMA WorthFacts ==
  ASSUME NEW p \in Portfolios
  PROVE  /\ NetAsset(p) \in Nat /\ HighWater(p) \in Nat
         /\ NetAsset(p) <= HighWater(p) /\ InitialCash <= HighWater(p)
         /\ HighWater(p) \in {NetAsset(p), InitialCash}
<1>1. NetAsset(p) \in Nat
  BY DEF Portfolios, NetAsset
<1>2. InitialCash \in Nat
  BY SizingAssumption
<1>3. HighWater(p) = IF NetAsset(p) >= InitialCash THEN NetAsset(p) ELSE InitialCash
  BY <1>1, <1>2, MaxOfTwo DEF HighWater
<1> QED
  BY <1>1, <1>2, <1>3

LEMMA LostMore ==
  ASSUME NEW p \in Portfolios, NEW m \in Nat, NEW n \in Nat, m <= n, Lost(p, n)
  PROVE  Lost(p, m)
<1> DEFINE high == HighWater(p)
           worth == NetAsset(p)
<1>1. high \in Nat /\ worth \in Nat
  BY WorthFacts
<1>2. 100 * (high - worth) >= n * high
  BY DEF Lost
<1>3. 100 * (high - worth) >= m * high
  <2> HIDE DEF high, worth
  <2>1. m * high <= n * high
    BY <1>1, Z3
  <2>2. m * high \in Int /\ n * high \in Int /\ 100 * (high - worth) \in Int
    BY <1>1
  <2> QED
    BY <1>2, <2>1, <2>2
<1> QED
  BY <1>3 DEF Lost

LEMMA LadderFacts ==
  ASSUME NEW p \in Portfolios, NEW state
  PROVE  /\ RiskRate(p, state) \in Nat /\ RiskRate(p, state) <= Policy(state).rate
         /\ Lost(p, 8) => RiskRate(p, state) = 0
         /\ GrossCap(p, state) \in Int
<1> DEFINE rate == Policy(state).rate
           gross == Policy(state).gross
<1>1. rate \in Nat /\ gross \in Nat
  BY PolicyFacts
<1>2. /\ rate \div 2 \in Nat /\ rate \div 2 <= rate
      /\ (3 * rate) \div 4 \in Nat /\ (3 * rate) \div 4 <= rate
  <2> HIDE DEF rate
  <2>1. rate \in Nat
    BY <1>1
  <2> QED
    BY <2>1, Z3
<1>3. Min({gross, 20}) \in Int /\ Min({gross, 35}) \in Int
  <2> HIDE DEF gross
  <2>1. gross \in Int /\ 20 \in Int /\ 35 \in Int
    BY <1>1
  <2>2. Min({gross, 20}) = (IF gross <= 20 THEN gross ELSE 20)
    BY <2>1, MinOfTwo
  <2>3. Min({gross, 35}) = (IF gross <= 35 THEN gross ELSE 35)
    BY <2>1, MinOfTwo
  <2> QED
    BY <2>1, <2>2, <2>3
<1>4. RiskRate(p, state) =
        CASE Lost(p, 8)                -> 0
          [] Lost(p, 6) /\ ~Lost(p, 8) -> rate \div 2
          [] Lost(p, 4) /\ ~Lost(p, 6) -> (3 * rate) \div 4
          [] OTHER                     -> rate
  BY DEF RiskRate
<1>5. GrossCap(p, state) =
        CASE Lost(p, 12)                -> 0
          [] Lost(p, 8) /\ ~Lost(p, 12) -> Min({gross, 20})
          [] Lost(p, 6) /\ ~Lost(p, 8)  -> Min({gross, 35})
          [] OTHER                      -> gross
  BY DEF GrossCap
<1>6. (Lost(p, 12) => Lost(p, 8)) /\ (Lost(p, 8) => Lost(p, 6))
  BY LostMore
<1>7. GrossCap(p, state) \in Int
  <2> HIDE DEF gross
  <2>1. CASE Lost(p, 12)
    BY <2>1, <1>5, <1>6
  <2>2. CASE ~Lost(p, 12) /\ Lost(p, 8)
    BY <2>2, <1>3, <1>5
  <2>3. CASE ~Lost(p, 12) /\ ~Lost(p, 8)
    BY <2>3, <1>1, <1>3, <1>5
  <2> QED
    BY <2>1, <2>2, <2>3
<1>8. /\ RiskRate(p, state) \in Nat /\ RiskRate(p, state) <= rate
      /\ Lost(p, 8) => RiskRate(p, state) = 0
  <2> HIDE DEF rate
  <2>1. CASE Lost(p, 8)
    <3>1. RiskRate(p, state) = 0
      BY <2>1, <1>4, <1>6
    <3> QED
      BY <3>1, <1>1
  <2>2. CASE ~Lost(p, 8) /\ Lost(p, 6)
    <3>1. RiskRate(p, state) = rate \div 2
      BY <2>2, <1>4
    <3> QED
      BY <2>2, <3>1, <1>2
  <2>3. CASE ~Lost(p, 8) /\ ~Lost(p, 6)
    <3>1. RiskRate(p, state) \in {(3 * rate) \div 4, rate}
      BY <2>3, <1>4
    <3> QED
      BY <2>3, <3>1, <1>1, <1>2
  <2> QED
    BY <2>1, <2>2, <2>3
<1> QED
  BY <1>7, <1>8

(* A plan with an entry above nothing.                                      *)
PlanOK(plan) == plan.low \in Nat /\ plan.low > 0 /\ plan.stop \in Nat

LEMMA RiskFacts ==
  ASSUME NEW plan, PlanOK(plan)
  PROVE  /\ RiskPerShare(plan) \in Nat /\ RiskPerShare(plan) >= 1
         /\ RiskPerShare(plan) >= plan.low - plan.stop
         /\ RiskPerShare(plan) = 1 \/ RiskPerShare(plan) = plan.low - plan.stop
<1>1. plan.low \in Nat /\ plan.stop \in Nat
  BY DEF PlanOK
<1>2. 1 \in Int /\ plan.low - plan.stop \in Int
  BY <1>1
<1>3. RiskPerShare(plan) = IF 1 >= plan.low - plan.stop THEN 1 ELSE plan.low - plan.stop
  BY <1>2, MaxOfTwo DEF RiskPerShare
<1> QED
  BY <1>2, <1>3

LEMMA LossFacts ==
  ASSUME NEW plan, PlanOK(plan)
  PROVE  /\ EffectiveLoss(plan) \in Nat /\ EffectiveLoss(plan) > 0
         /\ EffectiveLoss(plan) - RoundTrip = (100000 * RiskPerShare(plan)) \div plan.low
<1> DEFINE risk == 100000 * RiskPerShare(plan)
<1>1. risk \in Nat /\ plan.low \in Nat /\ plan.low > 0 /\ risk >= RiskPerShare(plan)
  BY RiskFacts DEF PlanOK
<1>2. RoundTrip \in Nat /\ RoundTrip > 0
  BY SizingAssumption
<1>3. risk \div plan.low \in Nat
  <2> HIDE DEF risk
  <2> QED
    BY <1>1, DivisionNat
<1>4. EffectiveLoss(plan) = risk \div plan.low + RoundTrip
  BY DEF EffectiveLoss
<1> QED
  BY <1>2, <1>3, <1>4

LEMMA AvailableFacts ==
  ASSUME NEW p \in Portfolios, NEW state
  PROVE  /\ AvailableCash(p, state) \in Nat
         /\ AvailableCash(p, state) > 0 => 100 * p.cash > 30 * NetAsset(p)
<1> DEFINE kept == (NetAsset(p) * Policy(state).reserve) \div 100
           worth == NetAsset(p)
           reserve == Policy(state).reserve
<1>1. worth \in Nat /\ reserve \in Nat /\ reserve >= 30
  BY WorthFacts, PolicyFacts
<1>2. p.cash \in Nat
  BY DEF Portfolios
<1>3. worth * reserve \in Nat /\ worth * 30 <= worth * reserve
  <2> HIDE DEF worth, reserve
  <2> QED
    BY <1>1, Z3
<1>4. kept \in Int /\ worth * reserve < kept * 100 + 100
  <2> DEFINE all == worth * reserve
  <2>1. all \in Int
    BY <1>3
  <2>2. all \div 100 \in Int /\ all < (all \div 100) * 100 + 100
    <3> HIDE DEF all
    <3> QED
      BY <2>1, DivisionFacts
  <2> QED
    BY <2>2
<1>5. AvailableCash(p, state) = IF 0 >= p.cash - kept THEN 0 ELSE p.cash - kept
  <2>1. p.cash - kept \in Int
    BY <1>2, <1>4
  <2> HIDE DEF kept
  <2> QED
    BY <2>1, MaxOfTwo DEF AvailableCash, kept
<1> QED
  <2>1. AvailableCash(p, state) \in Nat
    <3> HIDE DEF kept
    <3> QED
      BY <1>2, <1>4, <1>5
  <2>2. ASSUME AvailableCash(p, state) > 0
        PROVE  100 * p.cash > 30 * NetAsset(p)
    <3> HIDE DEF kept
    <3>1. p.cash - kept >= 1
      BY <2>2, <1>2, <1>4, <1>5
    <3> DEFINE all == worth * reserve
               part == worth * 30
    <3>2. all \in Int /\ part <= all /\ all < kept * 100 + 100
      BY <1>3, <1>4
    <3>5. part \in Int
      BY <1>1
    <3>3. 100 * p.cash > part
      <4> HIDE DEF all, part
      <4> QED
        BY <1>2, <1>4, <3>1, <3>2, <3>5
    <3>4. part = 30 * NetAsset(p)
      <4> HIDE DEF worth
      <4>1. worth * 30 = 30 * worth
        BY <1>1
      <4> QED
        BY <4>1 DEF worth
    <3> QED
      BY <3>3, <3>4
  <2> QED
    BY <2>1, <2>2

LEMMA CapacityFacts ==
  ASSUME NEW p \in Portfolios, NEW state, NEW sector
  PROVE  /\ Capacity(p, state, sector) \in SUBSET Int
         /\ IsFiniteSet(Capacity(p, state, sector))
         /\ (NetAsset(p) * 8) \div 100 \in Capacity(p, state, sector)
<1> DEFINE A == (NetAsset(p) * 8) \div 100
           B == Max({0, (NetAsset(p) * 18) \div 100 - SectorExposure(p, sector)})
           D == (AvailableCash(p, state) * 10000) \div (10000 + BuyFee)
           E == Max({0, (NetAsset(p) * GrossCap(p, state)) \div 100 - p.value})
           F == (NetAsset(p) * 15) \div 100
<1>1. NetAsset(p) \in Nat /\ p.value \in Nat /\ LiquidityCap \in Int /\ BuyFee \in Nat
  <2>1. NetAsset(p) \in Nat
    BY WorthFacts
  <2>2. p.value \in Nat
    BY DEF Portfolios
  <2>3. LiquidityCap \in Int /\ BuyFee \in Nat
    BY SizingAssumption
  <2> QED
    BY <2>1, <2>2, <2>3
<1>2. A \in Int /\ F \in Int
  BY <1>1
<1>3. B \in Int
  <2>1. SectorExposure(p, sector) \in Int
    BY <1>1 DEF SectorExposure
  <2> DEFINE b == (NetAsset(p) * 18) \div 100 - SectorExposure(p, sector)
  <2>2. b \in Int
    BY <1>1, <2>1
  <2>3. Max({0, b}) \in Int
    <3> HIDE DEF b
    <3>1. Max({0, b}) = IF 0 >= b THEN 0 ELSE b
      BY <2>2, MaxOfTwo
    <3> QED
      BY <2>2, <3>1
  <2> QED
    BY <2>3
<1>4. D \in Int
  <2>1. AvailableCash(p, state) \in Nat
    BY AvailableFacts
  <2> DEFINE cash == AvailableCash(p, state)
             fee  == 10000 + BuyFee
  <2>2. cash \in Nat /\ fee \in Nat /\ fee > 0
    BY <1>1, <2>1
  <2>3. (cash * 10000) \div fee \in Int
    <3> HIDE DEF cash, fee
    <3>1. cash * 10000 \in Int
      BY <2>2
    <3> QED
      BY <2>2, <3>1, DivisionFacts
  <2> QED
    BY <2>3
<1>5. E \in Int
  <2>1. GrossCap(p, state) \in Int
    BY LadderFacts
  <2> DEFINE worth == NetAsset(p)
             cap == GrossCap(p, state)
             e == (worth * cap) \div 100 - p.value
  <2>2. worth * cap \in Int
    <3>1. worth \in Int /\ cap \in Int
      BY <1>1, <2>1
    <3> HIDE DEF worth, cap
    <3> QED
      BY <3>1
  <2>3. e \in Int
    <3> DEFINE all == worth * cap
    <3>1. all \in Int
      BY <2>2
    <3>2. all \div 100 - p.value \in Int
      <4> HIDE DEF all
      <4> QED
        BY <1>1, <3>1
    <3> QED
      BY <3>2
  <2>4. Max({0, e}) \in Int
    <3> HIDE DEF e
    <3>1. Max({0, e}) = IF 0 >= e THEN 0 ELSE e
      BY <2>3, MaxOfTwo
    <3> QED
      BY <2>3, <3>1
  <2> QED
    BY <2>4
<1>6. Capacity(p, state, sector) = {A, B, LiquidityCap, D, E, F}
  BY DEF Capacity
<1>7. {A, B, LiquidityCap, D, E, F} \in SUBSET Int
  <2> HIDE DEF A, B, D, E, F
  <2> QED
    BY <1>1, <1>2, <1>3, <1>4, <1>5
<1>8. IsFiniteSet({A, B, LiquidityCap, D, E, F})
  <2> HIDE DEF A, B, D, E, F
  <2> QED
    BY FiniteSix
<1>9. A \in {A, B, LiquidityCap, D, E, F}
  OBVIOUS
<1> QED
  BY <1>6, <1>7, <1>8, <1>9

(* What the worth of a quantity is within when its share of a limit is.     *)
LEMMA ShareOf ==
  ASSUME NEW limit \in Int, NEW price \in Nat, price > 0, NEW m \in Int, m <= limit,
         NEW quantity, quantity = m \div price, quantity > 0
  PROVE  quantity \in Nat /\ quantity * price <= limit
<1>1. quantity \in Int /\ quantity * price <= m
  BY DivisionFacts
<1>2. quantity * price \in Int
  BY <1>1
<1> QED
  BY <1>1, <1>2

(* An order is worth at most eight percent of the net asset value, and what *)
(* it may lose at most the risk budget; it is not placed deep in a loss,    *)
(* after a chase or without the reserve in cash.                            *)
LEMMA OrderFacts ==
  ASSUME NEW p \in Portfolios, NEW plan, PlanOK(plan), NEW state, NEW sector,
         NEW price \in Nat, NEW quantity, quantity # 0,
         quantity = OrderQuantity(p, plan, state, sector, price)
  PROVE  /\ quantity \in Nat /\ quantity > 0
         /\ 100 * (quantity * price) <= 8 * NetAsset(p)
         /\ (quantity * price) * EffectiveLoss(plan) <= 100000 * RiskBudget(p, state)
         /\ ~Lost(p, 8)
         /\ ~ChaseBlocked(plan, price)
         /\ 100 * p.cash > 30 * NetAsset(p)
<1> DEFINE loss == EffectiveLoss(plan)
           budget == RiskBudget(p, state)
           byRisk == (budget * 100000) \div loss
           limits == Capacity(p, state, sector) \cup {byRisk}
           eighth == (NetAsset(p) * 8) \div 100
<1>1. Approved(p, plan, state, sector, price)
  BY DEF OrderQuantity
<1>2. quantity = FinalQuantity(p, plan, state, sector, price)
  BY DEF OrderQuantity
<1>3. quantity > 0 /\ ~ChaseBlocked(plan, price) /\ AvailableCash(p, state) >= MinimumCash
  BY <1>1, <1>2 DEF Approved
<1>4. price > 0 /\ quantity = Min(limits) \div price
  BY <1>2, <1>3 DEF FinalQuantity
<1>5. 100 * p.cash > 30 * NetAsset(p)
  <2>1. MinimumCash \in Nat /\ MinimumCash > 0
    BY SizingAssumption
  <2>2. AvailableCash(p, state) \in Nat
    BY AvailableFacts
  <2>3. AvailableCash(p, state) > 0
    BY <1>3, <2>1, <2>2
  <2> QED
    BY <2>3, AvailableFacts
<1>6. loss \in Nat /\ loss > 0
  BY LossFacts
<1>7. RiskRate(p, state) \in Nat /\ (Lost(p, 8) => RiskRate(p, state) = 0) /\ NetAsset(p) \in Nat
  BY LadderFacts, WorthFacts
<1>8. budget \in Nat /\ (Lost(p, 8) => budget = 0)
  <2> DEFINE worth == NetAsset(p)
             rate == RiskRate(p, state)
  <2>1. (worth * rate) \div 40000 \in Nat /\ (rate = 0 => (worth * rate) \div 40000 = 0)
    <3>1. worth \in Nat /\ rate \in Nat
      BY <1>7
    <3> HIDE DEF worth, rate
    <3>2. worth * rate \in Nat /\ (rate = 0 => worth * rate = 0)
      BY <3>1
    <3> QED
      BY <3>2
  <2>2. budget = (worth * rate) \div 40000
    BY DEF RiskBudget
  <2> QED
    BY <2>1, <2>2, <1>7
<1>9. byRisk \in Int /\ byRisk * loss <= budget * 100000 /\ (budget = 0 => byRisk = 0)
  <2> HIDE DEF loss, budget
  <2>1. budget * 100000 \in Int
    BY <1>8
  <2>2. byRisk \in Int /\ byRisk * loss <= budget * 100000
    BY <2>1, <1>6, DivisionFacts
  <2>3. budget = 0 => byRisk = 0
    BY <1>6, Z3
  <2> QED
    BY <2>2, <2>3
<1>10. /\ Capacity(p, state, sector) \in SUBSET Int
       /\ IsFiniteSet(Capacity(p, state, sector))
       /\ eighth \in Capacity(p, state, sector)
  BY CapacityFacts
<1>11. limits \in SUBSET Int /\ limits # {} /\ IsFiniteSet(limits)
  <2> HIDE DEF byRisk
  <2> QED
    BY <1>9, <1>10, FS_AddElement
<1>12. Min(limits) \in Int /\ Min(limits) <= byRisk /\ Min(limits) <= eighth
  <2>1. Min(limits) \in limits /\ \A y \in limits : Min(limits) <= y
    <3> HIDE DEF limits
    <3> QED
      BY <1>11, LeastOf
  <2>2. byRisk \in limits /\ eighth \in limits
    BY <1>10
  <2> HIDE DEF limits, byRisk, eighth
  <2> QED
    BY <2>1, <2>2, <1>11
<1>13. quantity \in Nat /\ quantity * price <= byRisk /\ quantity * price <= eighth
  <2>1. byRisk \in Int /\ eighth \in Int
    BY <1>9, <1>10
  <2> HIDE DEF limits, byRisk, eighth
  <2> QED
    BY <2>1, <1>3, <1>4, <1>12, ShareOf
<1> DEFINE cost == quantity * price
<1>14. cost \in Nat /\ cost > 0
  BY <1>3, <1>4, <1>13, Z3
<1>15. 100 * cost <= 8 * NetAsset(p)
  <2> DEFINE worth == NetAsset(p)
             all == worth * 8
  <2>1. all \in Int
    BY <1>7
  <2>2. all \div 100 \in Int /\ (all \div 100) * 100 <= all
    <3> HIDE DEF all
    <3> QED
      BY <2>1, DivisionFacts
  <2>3. cost <= all \div 100
    BY <1>13
  <2>4. 100 * cost <= all
    <3> HIDE DEF all, cost
    <3> QED
      BY <1>14, <2>1, <2>2, <2>3
  <2>5. all = 8 * NetAsset(p)
    BY <1>7
  <2> QED
    BY <2>4, <2>5
<1>16. cost * loss <= 100000 * budget
  <2>1. cost <= byRisk
    BY <1>13
  <2> HIDE DEF cost, byRisk, loss, budget
  <2>2. cost * loss <= byRisk * loss
    BY <2>1, <1>6, <1>9, <1>14, Z3
  <2>3. cost * loss \in Int /\ byRisk * loss \in Int /\ budget * 100000 \in Int
        /\ budget * 100000 = 100000 * budget
    BY <1>6, <1>8, <1>9, <1>14
  <2> QED
    BY <2>2, <2>3, <1>9
<1>17. ~Lost(p, 8)
  <2> SUFFICES ASSUME Lost(p, 8) PROVE FALSE
    OBVIOUS
  <2>1. byRisk = 0
    BY <1>8, <1>9
  <2>2. cost <= byRisk
    BY <1>13
  <2> HIDE DEF byRisk, cost
  <2> QED
    BY <2>1, <2>2, <1>14
<1> QED
  BY <1>3, <1>5, <1>13, <1>15, <1>16, <1>17

(* What a share loses between its price and its stop, of a share bought     *)
(* within the chase and planned to lose `risk' between its entry and stop.  *)
LEMMA ChasedLoss ==
  ASSUME NEW price \in Nat, NEW low \in Nat, NEW stop \in Nat, NEW risk \in Nat,
         low > 0, risk >= 1, risk >= low - stop, risk = 1 \/ risk = low - stop,
         100 * (price - low) <= 35 * risk
  PROVE  100 * ((price - stop) * low) <= 135 * (price * risk)
<1>1. (price - stop) * low \in Int /\ price * risk \in Nat /\ low * risk \in Nat
  OBVIOUS
<1>2. CASE price >= low
  <2>1. 100 * (price - stop) <= 135 * risk
    BY <1>2
  <2>2. low * (100 * (price - stop)) <= low * (135 * risk)
    BY <2>1, TimesKeeps
  <2>3. risk * low <= risk * price
    BY <1>2, TimesKeeps
  <2>4. low * (100 * (price - stop)) = 100 * ((price - stop) * low)
    OBVIOUS
  <2>5. low * (135 * risk) = 135 * (risk * low) /\ risk * price = price * risk
    OBVIOUS
  <2>6. risk * low \in Int
    OBVIOUS
  <2> QED
    BY <1>1, <2>2, <2>3, <2>4, <2>5, <2>6
<1>3. CASE price < low /\ price <= stop
  <2>1. (price - stop) * low <= 0
    <3>1. price - stop <= 0 /\ price - stop \in Int /\ 0 \in Int
      BY <1>3
    <3>2. low * (price - stop) <= low * 0
      BY <3>1, TimesKeeps
    <3> QED
      BY <3>2
  <2> QED
    BY <1>1, <2>1
<1>4. CASE price < low /\ price > stop
  <2>1. risk = low - stop
    BY <1>4
  <2>2. stop * price <= stop * low
    BY <1>4, TimesKeeps
  <2>3. (price - stop) * low = price * low - stop * low
    OBVIOUS
  <2>4. price * risk = price * low - price * stop
    BY <2>1
  <2>5. price * low \in Int /\ stop * low \in Int /\ price * stop \in Int /\ stop * price = price * stop
    OBVIOUS
  <2>6. (price - stop) * low <= price * risk
    BY <2>2, <2>3, <2>4, <2>5
  <2> QED
    BY <1>1, <2>6
<1> QED
  BY <1>2, <1>3, <1>4

(* The loss of an order that is stopped, against the budget it was sized    *)
(* for: `cost' is its worth, `fall' what its price loses, `trip' what the   *)
(* round trip costs, `unit' the hundred thousand that parts are counted in. *)
LEMMA BudgetedLoss ==
  ASSUME NEW unit \in Nat, unit > 0, NEW cost \in Nat, NEW risk \in Nat, NEW low \in Nat, low > 0,
         NEW trip \in Nat, NEW budget \in Nat, NEW fall \in Int,
         100 * (fall * low) <= 135 * (cost * risk),
         cost * ((unit * risk) \div low + trip) <= unit * budget
  PROVE  100 * (fall + (cost * trip) \div unit) <= 135 * (budget + cost \div unit + 1)
<1> DEFINE part == (unit * risk) \div low
           fees == (cost * trip) \div unit
           rest == cost \div unit
<1>1. part \in Nat /\ unit * risk < part * low + low
  <2>1. unit * risk \in Nat
    OBVIOUS
  <2> QED
    BY <2>1, DivisionFacts, DivisionNat
<1>2. fees \in Nat /\ fees * unit <= cost * trip
  <2>1. cost * trip \in Nat
    OBVIOUS
  <2> QED
    BY <2>1, DivisionFacts, DivisionNat
<1>3. rest \in Nat /\ cost < rest * unit + unit
  BY DivisionFacts, DivisionNat
<1>4. cost * (part + trip) <= unit * budget
  OBVIOUS
<1>5. 100 * (fall + fees) <= 135 * (budget + rest + 1)
  <2> HIDE DEF part, fees, rest
  <2> DEFINE X == cost * risk
             Y == cost * part
             Z == fees * low
             B == budget * low
             R == rest * low
             G == cost * low
  <2>1. X \in Nat /\ Y \in Nat /\ Z \in Nat /\ B \in Nat /\ R \in Nat /\ G \in Nat /\ unit * low \in Nat
    BY <1>1, <1>2, <1>3
  (* The worth of the risk, and that of the round trip, in parts.           *)
  <2>2. unit * X <= low * Y + G
    <3>1. cost * (unit * risk) <= cost * (part * low + low)
      <4>1. unit * risk \in Int /\ part * low + low \in Int /\ unit * risk <= part * low + low
        BY <1>1
      <4> QED
        BY <4>1, TimesKeeps
    <3>2. cost * (unit * risk) = unit * (cost * risk)
      OBVIOUS
    <3>3. cost * (part * low + low) = low * (cost * part) + cost * low
      BY <1>1
    <3> QED
      BY <3>1, <3>2, <3>3
  <2>3. unit * Z <= low * (cost * trip)
    <3>1. low * (fees * unit) <= low * (cost * trip)
      <4>1. fees * unit \in Int /\ cost * trip \in Int
        BY <1>2
      <4> QED
        BY <4>1, <1>2, TimesKeeps
    <3>2. low * (fees * unit) = unit * (fees * low)
      BY <1>2
    <3> QED
      BY <3>1, <3>2
  <2>4. low * Y + low * (cost * trip) <= unit * B
    <3>1. low * (cost * (part + trip)) <= low * (unit * budget)
      <4>1. cost * (part + trip) \in Int /\ unit * budget \in Int
        BY <1>1
      <4> QED
        BY <4>1, <1>4, TimesKeeps
    <3>2. low * (cost * (part + trip)) = low * (cost * part) + low * (cost * trip)
      BY <1>1
    <3>3. low * (unit * budget) = unit * (budget * low)
      OBVIOUS
    <3> QED
      BY <3>1, <3>2, <3>3
  <2>5. G <= unit * R + unit * low
    <3>1. low * cost <= low * (rest * unit + unit)
      <4>1. rest * unit + unit \in Int /\ cost <= rest * unit + unit
        BY <1>3
      <4> QED
        BY <4>1, TimesKeeps
    <3>2. low * cost = cost * low /\ low * (rest * unit + unit) = unit * (rest * low) + unit * low
      BY <1>3
    <3> QED
      BY <3>1, <3>2
  <2>6. unit * X + unit * Z <= unit * B + unit * R + unit * low
    <3>1. /\ unit * X \in Int /\ unit * Z \in Int /\ unit * B \in Int /\ unit * R \in Int
          /\ low * Y \in Int /\ low * (cost * trip) \in Int
      BY <2>1
    <3> HIDE DEF X, Y, Z, B, R, G
    <3> QED
      BY <2>1, <2>2, <2>3, <2>4, <2>5, <3>1
  <2>7. X + Z <= B + R + low
    <3> HIDE DEF X, Y, Z, B, R, G
    <3>1. unit * X + unit * Z = unit * (X + Z) /\ unit * B + unit * R + unit * low = unit * (B + R + low)
      BY <2>1
    <3>2. X + Z \in Int /\ B + R + low \in Int /\ unit * (X + Z) <= unit * (B + R + low)
      BY <2>1, <2>6, <3>1
    <3> DEFINE l == X + Z
               r == B + R + low
    <3>3. l \in Int /\ r \in Int /\ unit * l <= unit * r
      BY <3>2
    <3>4. l <= r
      <4> HIDE DEF l, r
      <4> QED
        BY <3>3, Z3
    <3> QED
      BY <3>4
  <2>8. 100 * (fall * low) + 100 * Z <= 135 * (B + R + low)
    <3> DEFINE H == fall * low
    <3>1. H \in Int /\ 100 * H <= 135 * X
      OBVIOUS
    <3> HIDE DEF X, Y, Z, B, R, G, H
    <3>2. 100 * H + 100 * Z <= 135 * (B + R + low)
      BY <2>1, <2>7, <3>1
    <3> QED
      BY <3>2 DEF H
  <2>9. low * (100 * (fall + fees)) <= low * (135 * (budget + rest + 1))
    <3>1. low * (100 * (fall + fees)) = 100 * (fall * low) + 100 * (fees * low)
      BY <1>2
    <3>2. low * (135 * (budget + rest + 1)) = 135 * (budget * low + rest * low + low)
      BY <1>3
    <3> QED
      BY <2>8, <3>1, <3>2
  <2> DEFINE l == 100 * (fall + fees)
             r == 135 * (budget + rest + 1)
  <2>10. l \in Int /\ r \in Int /\ low * l <= low * r
    BY <1>2, <1>3, <2>9
  <2>11. l <= r
    <3> HIDE DEF l, r
    <3> QED
      BY <2>10, Z3
  <2> QED
    BY <2>11
<1> QED
  BY <1>5

LEMMA OrderLoss ==
  ASSUME NEW p \in Portfolios, NEW plan, PlanOK(plan), NEW state, NEW sector,
         NEW price \in Nat, NEW quantity, quantity # 0,
         quantity = OrderQuantity(p, plan, state, sector, price)
  PROVE  100 * (quantity * (price - plan.stop) + (quantity * price * RoundTrip) \div 100000)
           <= 135 * ((NetAsset(p) * Policy(state).rate) \div 40000
                       + (quantity * price) \div 100000 + 1)
<1> DEFINE unit == 100000
           low == plan.low
           stop == plan.stop
           risk == RiskPerShare(plan)
           trip == RoundTrip
           budget == (NetAsset(p) * Policy(state).rate) \div 40000
           cost == quantity * price
           fall == quantity * (price - stop)
<1>1. low \in Nat /\ low > 0 /\ stop \in Nat /\ trip \in Nat /\ unit \in Nat /\ unit > 0
  BY SizingAssumption DEF PlanOK
<1>2. risk \in Nat /\ risk >= 1 /\ risk >= low - stop /\ (risk = 1 \/ risk = low - stop)
  BY RiskFacts
<1>3. quantity \in Nat /\ quantity > 0 /\ ~ChaseBlocked(plan, price)
  BY OrderFacts
<1>4. cost * EffectiveLoss(plan) <= 100000 * RiskBudget(p, state)
  BY OrderFacts
<1>5. budget \in Nat /\ RiskBudget(p, state) <= budget /\ RiskBudget(p, state) \in Nat
  <2> DEFINE worth == NetAsset(p)
             rate == RiskRate(p, state)
             whole == Policy(state).rate
             a == worth * rate
             b == worth * whole
  <2>1. worth \in Nat /\ rate \in Nat /\ whole \in Nat /\ rate <= whole
    BY WorthFacts, LadderFacts, PolicyFacts
  <2>2. a \in Nat /\ b \in Nat /\ a <= b
    <3> HIDE DEF worth, rate, whole
    <3> QED
      BY <2>1, TimesKeeps
  <2>3. a \div 40000 \in Nat /\ b \div 40000 \in Nat /\ a \div 40000 <= b \div 40000
    <3> HIDE DEF a, b
    <3> QED
      BY <2>2, SMT
  <2>4. RiskBudget(p, state) = a \div 40000
    BY DEF RiskBudget
  <2>5. budget = b \div 40000
    OBVIOUS
  <2> HIDE DEF a, b, budget
  <2> QED
    BY <2>3, <2>4, <2>5
<1>6. EffectiveLoss(plan) = (unit * risk) \div low + trip
  BY DEF EffectiveLoss
<1>7. 100 * (price - low) <= 35 * risk
  <2>1. ~(100 * (price - low) > 35 * risk)
    BY <1>3 DEF ChaseBlocked
  <2>2. 100 * (price - low) \in Int /\ 35 * risk \in Int
    BY <1>1, <1>2
  <2> HIDE DEF low, risk
  <2> QED
    BY <2>1, <2>2
<1>8. 100 * (fall * low) <= 135 * (cost * risk)
  <2>1. 100 * ((price - stop) * low) <= 135 * (price * risk)
    <3> HIDE DEF low, stop, risk
    <3> QED
      BY <1>1, <1>2, <1>7, ChasedLoss
  <2> HIDE DEF low, stop, risk
  <2>2. quantity * (100 * ((price - stop) * low)) <= quantity * (135 * (price * risk))
    <3>1. 100 * ((price - stop) * low) \in Int /\ 135 * (price * risk) \in Int
      BY <1>1, <1>2
    <3> QED
      BY <1>3, <2>1, <3>1, TimesKeeps
  <2>3. quantity * (100 * ((price - stop) * low)) = 100 * ((quantity * (price - stop)) * low)
    BY <1>1, <1>3
  <2>4. quantity * (135 * (price * risk)) = 135 * ((quantity * price) * risk)
    BY <1>2, <1>3
  <2> QED
    BY <2>2, <2>3, <2>4
<1>9. cost * ((unit * risk) \div low + trip) <= unit * budget
  <2> DEFINE loss == (unit * risk) \div low + trip
  <2>1. cost * loss <= unit * RiskBudget(p, state)
    BY <1>4, <1>6
  <2>2. unit * RiskBudget(p, state) <= unit * budget
    <3> HIDE DEF budget, unit
    <3> QED
      BY <1>1, <1>5, TimesKeeps
  <2>3. cost * loss \in Int /\ unit * RiskBudget(p, state) \in Int /\ unit * budget \in Int
    <3>1. loss \in Int /\ cost \in Int
      <4>1. loss \in Nat
        BY <1>6, LossFacts
      <4> HIDE DEF loss
      <4> QED
        BY <1>3, <4>1
    <3> HIDE DEF loss, cost, budget
    <3> QED
      BY <3>1, <1>1, <1>5
  <2> HIDE DEF loss, cost, budget, unit
  <2>4. cost * loss <= unit * budget
    BY <2>1, <2>2, <2>3
  <2> QED
    BY <2>4 DEF loss
<1>10. 100 * (fall + (cost * trip) \div unit) <= 135 * (budget + cost \div unit + 1)
  <2>1. cost \in Nat /\ fall \in Int
    BY <1>1, <1>3
  <2> HIDE DEF unit, low, stop, risk, trip, budget, cost, fall
  <2> QED
    BY <2>1, <1>1, <1>2, <1>5, <1>8, <1>9, BudgetedLoss
<1> QED
  BY <1>10

-----------------------------------------------------------------------------
(* The evidence about a symbol and what the strategies propose on it. *)

(* Every field has one of its values.                                       *)
Typed(e) == DOMAIN e = Fields /\ \A field \in Fields : e[field] \in Values(field)

(* The numbers that the signal of a symbol is computed from.                *)
Measured(e) ==
  /\ e.close \in Nat /\ e.ema20 \in Nat /\ e.atr \in Nat /\ e.last \in Nat
  /\ 2 * e.atr <= e.close /\ 2 * e.atr <= e.ema20
  /\ e.bars \in Nat /\ e.valid \in Nat /\ e.covered \in Nat
  /\ e.score \in 0..100
  /\ e.ret20 \in Int /\ e.volZ \in Int /\ e.volRatio \in Int
  /\ e.power \in Int /\ e.streak \in Int /\ e.adx \in Int

LEMMA TypedIsMeasured == ASSUME NEW e, Typed(e) PROVE Measured(e)
<1>1. \A field \in Fields : e[field] \in Values(field)
  BY DEF Typed
<1>2. Prices \subseteq Fields /\ Counts \subseteq Fields /\ Whole \subseteq Fields
  BY DEF Fields
<1>3. \A field \in Prices \cup Counts : e[field] \in Nat
  BY <1>1, <1>2, EvidenceAssumption
<1>4. \A field \in Whole : e[field] \in Int
  BY <1>1, <1>2, EvidenceAssumption
<1>5. e["close"] \in Nat /\ e["ema20"] \in Nat /\ e["atr"] \in Nat /\ e["last"] \in Nat
  BY <1>3 DEF Prices
<1>6. e["bars"] \in Nat /\ e["valid"] \in Nat /\ e["covered"] \in Nat
  BY <1>3 DEF Counts
<1>7. /\ e["ret20"] \in Int /\ e["volZ"] \in Int /\ e["volRatio"] \in Int
      /\ e["power"] \in Int /\ e["streak"] \in Int /\ e["adx"] \in Int
  BY <1>4 DEF Whole
<1>8. e["score"] \in 0..100
  <2>1. "score" \in Fields
    BY DEF Fields, Whole
  <2>2. e["score"] \in Values("score")
    BY <1>1, <2>1
  <2> QED
    BY <2>2, EvidenceAssumption
<1>9. 2 * e["atr"] <= e["close"] /\ 2 * e["atr"] <= e["ema20"]
  <2>1. "atr" \in Fields /\ "close" \in Fields /\ "ema20" \in Fields
    BY DEF Fields, Prices
  <2>2. e["atr"] \in Values("atr") /\ e["close"] \in Values("close") /\ e["ema20"] \in Values("ema20")
    BY <1>1, <2>1
  <2>3. \A atr \in Values("atr"), price \in Values("close") \cup Values("ema20") : 2 * atr <= price
    BY EvidenceAssumption
  <2> QED
    BY <2>2, <2>3
<1> QED
  BY <1>5, <1>6, <1>7, <1>8, <1>9 DEF Measured

(* What the plan and the vote of a candidate are made of.                   *)
Sound(e, c) ==
  /\ c.key \in Keys
  /\ c.vote \in Int /\ c.vote <= 100
  /\ c.base \in {e.close, e.ema20}
  /\ c.terms.low \in {990, 995} /\ c.terms.stop \in 10..20

(* A proposal with such parts.                                              *)
Proper(e, key, vote, base, terms) ==
  /\ key \in Keys /\ vote \in Int /\ base \in {e.close, e.ema20}
  /\ terms.low \in {990, 995} /\ terms.stop \in 10..20

LEMMA ProposalSound ==
  ASSUME NEW e, NEW fires, NEW key, NEW vote, NEW base, NEW terms,
         Proper(e, key, vote, base, terms)
  PROVE  /\ \A c \in Proposes(fires, key, vote, base, terms) : Sound(e, c) /\ c.key = key
         /\ IsFiniteSet(Proposes(fires, key, vote, base, terms))
<1> DEFINE c == [key |-> key, vote |-> Min({100, vote}), base |-> base, terms |-> terms]
<1>1. Min({100, vote}) = IF 100 <= vote THEN 100 ELSE vote
  BY MinOfTwo DEF Proper
<1>2. Sound(e, c) /\ c.key = key
  BY <1>1 DEF Sound, Proper
<1>3. Proposes(fires, key, vote, base, terms) \in {{c}, {}}
  BY DEF Proposes
<1>4. IsFiniteSet({c}) /\ IsFiniteSet({})
  <2> HIDE DEF c
  <2>1. IsFiniteSet({c})
    BY FS_Singleton
  <2>2. IsFiniteSet({})
    BY FS_EmptySet
  <2> QED
    BY <2>1, <2>2
<1> QED
  <2> HIDE DEF c
  <2> QED
    BY <1>2, <1>3, <1>4

LEMMA ConfirmationsNat == ASSUME NEW e PROVE Confirmations(e) \in Nat
<1> DEFINE Says == [ema |-> e.emaScore >= 75,   rsi |-> e.rsi > 50 /\ e.rsi < 70,
                    macd |-> e.macdUp,          supertrend |-> e.supertrendUp,
                    mfi |-> e.mfi > 50,         obv |-> e.obvUp,
                    power |-> e.power > 120,    cloud |-> e.aboveCloud]
           names == {"ema", "rsi", "macd", "supertrend", "mfi", "obv"} \cup {"power"} \cup {"cloud"}
<1>1. DOMAIN Says = names
  OBVIOUS
<1>2. IsFiniteSet(names)
  <2>1. IsFiniteSet({"ema", "rsi", "macd", "supertrend", "mfi", "obv"})
    BY FiniteSix
  <2>2. IsFiniteSet({"ema", "rsi", "macd", "supertrend", "mfi", "obv"} \cup {"power"})
    BY <2>1, FS_AddElement
  <2> QED
    BY <2>2, FS_AddElement
<1>3. Confirmations(e) = Cardinality({i \in DOMAIN Says : Says[i]})
  BY DEF Confirmations
<1>4. IsFiniteSet({i \in DOMAIN Says : Says[i]})
  <2> HIDE DEF names, Says
  <2> QED
    BY <1>1, <1>2, FS_Subset
<1> QED
  <2> HIDE DEF Says
  <2> QED
    BY <1>3, <1>4, FS_CardinalityType

(* The keys are the names of the strategies, each with its place.           *)
LEMMA KeysAre ==
  /\ "momentum" \in Keys /\ "trend" \in Keys /\ "breakout" \in Keys /\ "pullback" \in Keys
  /\ "reversion" \in Keys /\ "volume" \in Keys /\ "client_flow" \in Keys
  /\ "ichimoku" \in Keys /\ "sector_rotation" \in Keys /\ "bb_squeeze" \in Keys
  /\ "confluence" \in Keys /\ "divergence" \in Keys
<1>1. DOMAIN Registered = 1..12
  BY DEF Registered
<1>2. \A i \in 1..12 : Registered[i] \in Keys
  BY <1>1 DEF Keys
<1>3. /\ Registered[1] = "momentum" /\ Registered[2] = "trend" /\ Registered[3] = "breakout"
      /\ Registered[4] = "pullback" /\ Registered[5] = "reversion" /\ Registered[6] = "volume"
      /\ Registered[7] = "client_flow" /\ Registered[8] = "ichimoku"
      /\ Registered[9] = "sector_rotation" /\ Registered[10] = "bb_squeeze"
      /\ Registered[11] = "confluence" /\ Registered[12] = "divergence"
  BY DEF Registered
<1> QED
  BY <1>2, <1>3

LEMMA Placed == ASSUME NEW key \in Keys PROVE Place[key] \in 1..12
<1>1. DOMAIN Registered = 1..12
  BY DEF Registered
<1>2. \E i \in DOMAIN Registered : Registered[i] = key
  BY DEF Keys
<1>3. Place[key] = CHOOSE i \in DOMAIN Registered : Registered[i] = key
  BY DEF Place
<1>4. Place[key] \in DOMAIN Registered
  <2> HIDE DEF Registered
  <2> QED
    BY <1>2, <1>3
<1> QED
  BY <1>1, <1>4

LEMMA TermsAre ==
  ASSUME NEW low, NEW high, NEW chase, NEW stop, NEW first, NEW second, NEW sessions
  PROVE  /\ Terms(low, high, chase, stop, first, second, sessions).low = low
         /\ Terms(low, high, chase, stop, first, second, sessions).stop = stop
  BY DEF Terms

(* Every strategy proposes sound candidates, and finitely many.             *)
LEMMA StrategiesSound ==
  ASSUME NEW e, Measured(e), NEW state
  PROVE  \A S \in {Momentum(e), Trend(e), Breakout(e), Pullback(e),
               Reversion(e, state), VolumeAnomaly(e), ClientFlow(e), Ichimoku(e),
               SectorRotation(e), Squeeze(e), Confluence(e), Divergence(e)} :
            (\A c \in S : Sound(e, c)) /\ IsFiniteSet(S)
<1>1. /\ e.ret20 \in Int /\ e.volZ \in Int /\ e.volRatio \in Int
      /\ e.power \in Int /\ e.streak \in Int /\ e.adx \in Int
  BY DEF Measured
<1>2. (\A c \in Momentum(e) : Sound(e, c)) /\ IsFiniteSet(Momentum(e))
  <2> DEFINE terms == Terms(995, 1015, 1030, 15, 20, 35, 5)
             vote == 50 + (2 * e.ret20 + 5) \div 10
             fires == e.ret20 > 40 /\ e.ret60 > 80
  <2>1. vote \in Int
    BY <1>1
  <2>2. terms.low = 995 /\ terms.stop = 15
    BY TermsAre
  <2>3. "momentum" \in Keys /\ e.close \in {e.close, e.ema20}
    BY KeysAre
  <2>4. Momentum(e) = Proposes(fires, "momentum", vote, e.close, terms)
    BY DEF Momentum
  <2> HIDE DEF terms, vote, fires
  <2>5. Proper(e, "momentum", vote, e.close, terms)
    BY <2>1, <2>2, <2>3 DEF Proper
  <2>6. /\ \A c \in Proposes(fires, "momentum", vote, e.close, terms) : Sound(e, c)
        /\ IsFiniteSet(Proposes(fires, "momentum", vote, e.close, terms))
    BY <2>5, ProposalSound
  <2> QED
    BY <2>4, <2>6
<1>3. (\A c \in Trend(e) : Sound(e, c)) /\ IsFiniteSet(Trend(e))
  <2> DEFINE terms == Terms(990, 1010, 1025, 10, 18, 30, 7)
             vote == IF e.emaScore = 100 THEN 80 ELSE 65
             fires == e.emaScore >= 75 /\ e.close > e.ema20
  <2>1. vote \in Int
    BY <1>1
  <2>2. terms.low = 990 /\ terms.stop = 10
    BY TermsAre
  <2>3. "trend" \in Keys /\ e.ema20 \in {e.close, e.ema20}
    BY KeysAre
  <2>4. Trend(e) = Proposes(fires, "trend", vote, e.ema20, terms)
    BY DEF Trend
  <2> HIDE DEF terms, vote, fires
  <2>5. Proper(e, "trend", vote, e.ema20, terms)
    BY <2>1, <2>2, <2>3 DEF Proper
  <2>6. /\ \A c \in Proposes(fires, "trend", vote, e.ema20, terms) : Sound(e, c)
        /\ IsFiniteSet(Proposes(fires, "trend", vote, e.ema20, terms))
    BY <2>5, ProposalSound
  <2> QED
    BY <2>4, <2>6
<1>4. (\A c \in Breakout(e) : Sound(e, c)) /\ IsFiniteSet(Breakout(e))
  <2> DEFINE terms == Terms(995, 1020, 1035, 12, 22, 40, 5)
             vote == 60 + e.volZ
             fires == e.toHigh >= -8 /\ e.volZ >= 14
  <2>1. vote \in Int
    BY <1>1
  <2>2. terms.low = 995 /\ terms.stop = 12
    BY TermsAre
  <2>3. "breakout" \in Keys /\ e.close \in {e.close, e.ema20}
    BY KeysAre
  <2>4. Breakout(e) = Proposes(fires, "breakout", vote, e.close, terms)
    BY DEF Breakout
  <2> HIDE DEF terms, vote, fires
  <2>5. Proper(e, "breakout", vote, e.close, terms)
    BY <2>1, <2>2, <2>3 DEF Proper
  <2>6. /\ \A c \in Proposes(fires, "breakout", vote, e.close, terms) : Sound(e, c)
        /\ IsFiniteSet(Proposes(fires, "breakout", vote, e.close, terms))
    BY <2>5, ProposalSound
  <2> QED
    BY <2>4, <2>6
<1>5. (\A c \in Pullback(e) : Sound(e, c)) /\ IsFiniteSet(Pullback(e))
  <2> DEFINE terms == Terms(990, 1010, 1020, 13, 20, 32, 6)
             vote == 72
             fires == e.ret60 > 80 /\ e.ret3 \in -50 .. -10 /\ NearEma(e)
  <2>1. vote \in Int
    BY <1>1
  <2>2. terms.low = 990 /\ terms.stop = 13
    BY TermsAre
  <2>3. "pullback" \in Keys /\ e.ema20 \in {e.close, e.ema20}
    BY KeysAre
  <2>4. Pullback(e) = Proposes(fires, "pullback", vote, e.ema20, terms)
    BY DEF Pullback
  <2> HIDE DEF terms, vote, fires
  <2>5. Proper(e, "pullback", vote, e.ema20, terms)
    BY <2>1, <2>2, <2>3 DEF Proper
  <2>6. /\ \A c \in Proposes(fires, "pullback", vote, e.ema20, terms) : Sound(e, c)
        /\ IsFiniteSet(Proposes(fires, "pullback", vote, e.ema20, terms))
    BY <2>5, ProposalSound
  <2> QED
    BY <2>4, <2>6
<1>6. (\A c \in Reversion(e, state) : Sound(e, c)) /\ IsFiniteSet(Reversion(e, state))
  <2> DEFINE terms == Terms(990, 1010, 1015, 10, 15, 25, 3)
             vote == 64
             fires == state # "risk_off" /\ e.ret5 < -60 /\ e.channel <= 10
  <2>1. vote \in Int
    BY <1>1
  <2>2. terms.low = 990 /\ terms.stop = 10
    BY TermsAre
  <2>3. "reversion" \in Keys /\ e.close \in {e.close, e.ema20}
    BY KeysAre
  <2>4. Reversion(e, state) = Proposes(fires, "reversion", vote, e.close, terms)
    BY DEF Reversion
  <2> HIDE DEF terms, vote, fires
  <2>5. Proper(e, "reversion", vote, e.close, terms)
    BY <2>1, <2>2, <2>3 DEF Proper
  <2>6. /\ \A c \in Proposes(fires, "reversion", vote, e.close, terms) : Sound(e, c)
        /\ IsFiniteSet(Proposes(fires, "reversion", vote, e.close, terms))
    BY <2>5, ProposalSound
  <2> QED
    BY <2>4, <2>6
<1>7. (\A c \in VolumeAnomaly(e) : Sound(e, c)) /\ IsFiniteSet(VolumeAnomaly(e))
  <2> DEFINE terms == Terms(995, 1020, 1030, 13, 20, 38, 5)
             vote == 65 + (e.volRatio + 1) \div 2
             fires == e.volRatio >= 20 /\ e.volZ >= 15 /\ e.ret1 > 5
  <2>1. vote \in Int
    BY <1>1
  <2>2. terms.low = 995 /\ terms.stop = 13
    BY TermsAre
  <2>3. "volume" \in Keys /\ e.close \in {e.close, e.ema20}
    BY KeysAre
  <2>4. VolumeAnomaly(e) = Proposes(fires, "volume", vote, e.close, terms)
    BY DEF VolumeAnomaly
  <2> HIDE DEF terms, vote, fires
  <2>5. Proper(e, "volume", vote, e.close, terms)
    BY <2>1, <2>2, <2>3 DEF Proper
  <2>6. /\ \A c \in Proposes(fires, "volume", vote, e.close, terms) : Sound(e, c)
        /\ IsFiniteSet(Proposes(fires, "volume", vote, e.close, terms))
    BY <2>5, ProposalSound
  <2> QED
    BY <2>4, <2>6
<1>8. (\A c \in ClientFlow(e) : Sound(e, c)) /\ IsFiniteSet(ClientFlow(e))
  <2> DEFINE terms == Terms(990, 1015, 1025, 14, 20, 36, 5)
             vote == 60 + (e.power + 5) \div 10 + 5 * e.streak
             fires == e.power >= 135 /\ e.inflow > 50
  <2>1. vote \in Int
    BY <1>1
  <2>2. terms.low = 990 /\ terms.stop = 14
    BY TermsAre
  <2>3. "client_flow" \in Keys /\ e.close \in {e.close, e.ema20}
    BY KeysAre
  <2>4. ClientFlow(e) = Proposes(fires, "client_flow", vote, e.close, terms)
    BY DEF ClientFlow
  <2> HIDE DEF terms, vote, fires
  <2>5. Proper(e, "client_flow", vote, e.close, terms)
    BY <2>1, <2>2, <2>3 DEF Proper
  <2>6. /\ \A c \in Proposes(fires, "client_flow", vote, e.close, terms) : Sound(e, c)
        /\ IsFiniteSet(Proposes(fires, "client_flow", vote, e.close, terms))
    BY <2>5, ProposalSound
  <2> QED
    BY <2>4, <2>6
<1>9. (\A c \in Ichimoku(e) : Sound(e, c)) /\ IsFiniteSet(Ichimoku(e))
  <2> DEFINE terms == Terms(995, 1020, 1030, 20, 25, 40, 7)
             vote == 25 + e.adx
             fires == e.aboveCloud /\ e.tenkanOver /\ e.adx > 25 /\ e.emaScore >= 50
  <2>1. vote \in Int
    BY <1>1
  <2>2. terms.low = 995 /\ terms.stop = 20
    BY TermsAre
  <2>3. "ichimoku" \in Keys /\ e.close \in {e.close, e.ema20}
    BY KeysAre
  <2>4. Ichimoku(e) = Proposes(fires, "ichimoku", vote, e.close, terms)
    BY DEF Ichimoku
  <2> HIDE DEF terms, vote, fires
  <2>5. Proper(e, "ichimoku", vote, e.close, terms)
    BY <2>1, <2>2, <2>3 DEF Proper
  <2>6. /\ \A c \in Proposes(fires, "ichimoku", vote, e.close, terms) : Sound(e, c)
        /\ IsFiniteSet(Proposes(fires, "ichimoku", vote, e.close, terms))
    BY <2>5, ProposalSound
  <2> QED
    BY <2>4, <2>6
<1>10. (\A c \in SectorRotation(e) : Sound(e, c)) /\ IsFiniteSet(SectorRotation(e))
  <2> DEFINE terms == Terms(990, 1015, 1025, 15, 20, 35, 7)
             vote == 74
             fires == e.leading /\ e.ret20 > 50
  <2>1. vote \in Int
    BY <1>1
  <2>2. terms.low = 990 /\ terms.stop = 15
    BY TermsAre
  <2>3. "sector_rotation" \in Keys /\ e.close \in {e.close, e.ema20}
    BY KeysAre
  <2>4. SectorRotation(e) = Proposes(fires, "sector_rotation", vote, e.close, terms)
    BY DEF SectorRotation
  <2> HIDE DEF terms, vote, fires
  <2>5. Proper(e, "sector_rotation", vote, e.close, terms)
    BY <2>1, <2>2, <2>3 DEF Proper
  <2>6. /\ \A c \in Proposes(fires, "sector_rotation", vote, e.close, terms) : Sound(e, c)
        /\ IsFiniteSet(Proposes(fires, "sector_rotation", vote, e.close, terms))
    BY <2>5, ProposalSound
  <2> QED
    BY <2>4, <2>6
<1>11. (\A c \in Squeeze(e) : Sound(e, c)) /\ IsFiniteSet(Squeeze(e))
  <2> DEFINE terms == Terms(990, 1015, 1025, 15, 30, 50, 5)
             vote == 55 + e.volZ
             fires == e.squeeze /\ e.volZ > 15 /\ e.supertrendUp
  <2>1. vote \in Int
    BY <1>1
  <2>2. terms.low = 990 /\ terms.stop = 15
    BY TermsAre
  <2>3. "bb_squeeze" \in Keys /\ e.close \in {e.close, e.ema20}
    BY KeysAre
  <2>4. Squeeze(e) = Proposes(fires, "bb_squeeze", vote, e.close, terms)
    BY DEF Squeeze
  <2> HIDE DEF terms, vote, fires
  <2>5. Proper(e, "bb_squeeze", vote, e.close, terms)
    BY <2>1, <2>2, <2>3 DEF Proper
  <2>6. /\ \A c \in Proposes(fires, "bb_squeeze", vote, e.close, terms) : Sound(e, c)
        /\ IsFiniteSet(Proposes(fires, "bb_squeeze", vote, e.close, terms))
    BY <2>5, ProposalSound
  <2> QED
    BY <2>4, <2>6
<1>12. (\A c \in Confluence(e) : Sound(e, c)) /\ IsFiniteSet(Confluence(e))
  <2> DEFINE terms == Terms(990, 1010, 1020, 15, 25, 40, 6)
             vote == 40 + 8 * Confirmations(e)
             fires == Confirmations(e) >= 5
  <2>1. vote \in Int
    BY <1>1, ConfirmationsNat
  <2>2. terms.low = 990 /\ terms.stop = 15
    BY TermsAre
  <2>3. "confluence" \in Keys /\ e.close \in {e.close, e.ema20}
    BY KeysAre
  <2>4. Confluence(e) = Proposes(fires, "confluence", vote, e.close, terms)
    BY DEF Confluence
  <2> HIDE DEF terms, vote, fires
  <2>5. Proper(e, "confluence", vote, e.close, terms)
    BY <2>1, <2>2, <2>3 DEF Proper
  <2>6. /\ \A c \in Proposes(fires, "confluence", vote, e.close, terms) : Sound(e, c)
        /\ IsFiniteSet(Proposes(fires, "confluence", vote, e.close, terms))
    BY <2>5, ProposalSound
  <2> QED
    BY <2>4, <2>6
<1>13. (\A c \in Divergence(e) : Sound(e, c)) /\ IsFiniteSet(Divergence(e))
  <2> DEFINE terms == Terms(990, 1010, 1020, 20, 20, 40, 10)
             vote == 50 + (15 * e.power + 50) \div 100
             fires == e.ret5 < -30 /\ e.mfi > 45 /\ e.obvUp /\ e.power > 130 /\ e.channel < 30
  <2>1. vote \in Int
    BY <1>1
  <2>2. terms.low = 990 /\ terms.stop = 20
    BY TermsAre
  <2>3. "divergence" \in Keys /\ e.close \in {e.close, e.ema20}
    BY KeysAre
  <2>4. Divergence(e) = Proposes(fires, "divergence", vote, e.close, terms)
    BY DEF Divergence
  <2> HIDE DEF terms, vote, fires
  <2>5. Proper(e, "divergence", vote, e.close, terms)
    BY <2>1, <2>2, <2>3 DEF Proper
  <2>6. /\ \A c \in Proposes(fires, "divergence", vote, e.close, terms) : Sound(e, c)
        /\ IsFiniteSet(Proposes(fires, "divergence", vote, e.close, terms))
    BY <2>5, ProposalSound
  <2> QED
    BY <2>4, <2>6
<1> QED
  BY <1>2, <1>3, <1>4, <1>5, <1>6, <1>7, <1>8, <1>9, <1>10, <1>11, <1>12, <1>13

LEMMA CandidatesSound ==
  ASSUME NEW e, Measured(e), NEW state
  PROVE  /\ \A c \in Candidates(e, state) : Sound(e, c)
         /\ IsFiniteSet(Candidates(e, state))
<1> DEFINE A == {Momentum(e), Trend(e), Breakout(e), Pullback(e), Reversion(e, state),
                 VolumeAnomaly(e)}
           B == {ClientFlow(e), Ichimoku(e), SectorRotation(e), Squeeze(e), Confluence(e),
                 Divergence(e)}
           All == {Momentum(e), Trend(e), Breakout(e), Pullback(e), Reversion(e, state),
                   VolumeAnomaly(e), ClientFlow(e), Ichimoku(e), SectorRotation(e),
                   Squeeze(e), Confluence(e), Divergence(e)}
<1>1. Candidates(e, state) = UNION All
  BY DEF Candidates
<1>2. \A S \in All : (\A c \in S : Sound(e, c)) /\ IsFiniteSet(S)
  BY StrategiesSound
<1>3. IsFiniteSet(A) /\ IsFiniteSet(B)
  BY FiniteSix
<1>4. All = A \cup B
  OBVIOUS
<1> HIDE DEF A, B, All
<1>5. IsFiniteSet(All)
  BY <1>3, <1>4, FS_Union
<1>6. IsFiniteSet(UNION All)
  BY <1>2, <1>5, FS_UNION
<1> QED
  BY <1>1, <1>2, <1>6

(* The best vote is one of them, and none is better.                        *)
LEMMA BestVoteIs ==
  ASSUME NEW C, IsFiniteSet(C), C # {}, \A c \in C : c.vote \in Int
  PROVE  /\ BestVote(C) \in Int
         /\ \E c \in C : c.vote = BestVote(C)
         /\ \A c \in C : c.vote <= BestVote(C)
<1> DEFINE vote == [c \in C |-> c.vote]
           votes == {c.vote : c \in C}
<1>1. votes = {vote[c] : c \in C}
  OBVIOUS
<1>2. IsFiniteSet({vote[c] : c \in C})
  <2> HIDE DEF vote
  <2> QED
    BY ImageFinite
<1>3. votes \in SUBSET Int /\ votes # {} /\ IsFiniteSet(votes)
  BY <1>1, <1>2
<1>4. Max(votes) \in votes /\ \A y \in votes : y <= Max(votes)
  <2> HIDE DEF votes
  <2> QED
    BY <1>3, GreatestOf
<1>5. BestVote(C) = Max(votes)
  BY DEF BestVote
<1>6. \A c \in C : c.vote \in votes
  OBVIOUS
<1> DEFINE best == Max(votes)
<1>7. best \in Int /\ (\E c \in C : c.vote = best) /\ (\A c \in C : c.vote <= best)
  BY <1>3, <1>4, <1>6
<1> QED
  BY <1>5, <1>7

(* There is a first of those that vote most: the plan of a signal is that   *)
(* of a candidate.                                                          *)
LEMMA PrimaryIs ==
  ASSUME NEW C, IsFiniteSet(C), C # {}, \A c \in C : c.vote \in Int /\ c.key \in Keys
  PROVE  Primary(C) \in C
<1> DEFINE Best == {c \in C : c.vote = BestVote(C)}
           place == [c \in Best |-> Place[c.key]]
           places == {place[c] : c \in Best}
<1>1. Best # {}
  BY BestVoteIs
<1>2. IsFiniteSet(Best)
  BY FS_Subset
<1>3. IsFiniteSet(places)
  <2> HIDE DEF Best, place
  <2> QED
    BY <1>2, ImageFinite
<1>4. places \in SUBSET Int
  <2>1. \A c \in Best : c.key \in Keys
    OBVIOUS
  <2>2. \A c \in Best : Place[c.key] \in Int
    <3> HIDE DEF Best
    <3> QED
      BY <2>1, Placed
  <2>3. \A c \in Best : place[c] = Place[c.key]
    OBVIOUS
  <2>4. \A c \in Best : place[c] \in Int
    BY <2>2, <2>3
  <2> HIDE DEF Best, place
  <2> QED
    BY <2>4
<1>5. PICK first \in places : \A n \in places : first <= n
  <2>1. places # {}
    BY <1>1
  <2> HIDE DEF places
  <2> QED
    BY <1>3, <1>4, <2>1, LeastExists
<1>6. PICK c \in Best : first = Place[c.key]
  BY <1>5
<1>7. \A d \in Best : Place[d.key] \in places
  OBVIOUS
<1>8. /\ c \in C /\ c.vote = BestVote(C)
      /\ \A d \in C : d.vote = c.vote => Place[c.key] <= Place[d.key]
  <2> HIDE DEF place, places
  <2> QED
    BY <1>5, <1>6, <1>7
<1> QED
  <2> HIDE DEF Best, place, places
  <2> QED
    BY <1>8 DEF Primary

(* The plan of a considered symbol has an entry above nothing, and a stop:  *)
(* a stop lies at most two ranges below the price it is measured from.      *)
LEMMA PlanIsOK ==
  ASSUME NEW e, Measured(e), e.close > 0, NEW c, Sound(e, c)
  PROVE  PlanOK(Plan(e, c))
<1> DEFINE low == c.terms.low
           stop == c.terms.stop
           close == e.close
           base == c.base
           atr == e.atr
<1>1. /\ low \in {990, 995} /\ stop \in 10..20
      /\ close \in Nat /\ close > 0 /\ base \in Nat /\ atr \in Nat /\ 2 * atr <= base
  BY DEF Sound, Measured
<1>2. (low * close + 500) \div 1000 \in Nat /\ (low * close + 500) \div 1000 > 0
  <2> HIDE DEF low, close
  <2>1. low = 990 \/ low = 995
    BY <1>1
  <2>2. CASE low = 990
    BY <2>2, <1>1, SMT
  <2>3. CASE low = 995
    BY <2>3, <1>1, SMT
  <2> QED
    BY <2>1, <2>2, <2>3
<1>3. (10 * base + (0 - stop) * atr + 5) \div 10 \in Nat
  <2> HIDE DEF stop, base, atr
  <2>1. stop * atr <= 20 * atr
    <3>1. stop \in Int /\ 20 \in Int /\ stop <= 20
      BY <1>1
    <3>2. atr * stop <= atr * 20
      BY <1>1, <3>1, TimesKeeps
    <3> QED
      BY <1>1, <3>1, <3>2
  <2>2. 20 * atr <= 10 * base
    BY <1>1
  <2>3. (0 - stop) * atr = 0 - stop * atr /\ stop * atr \in Int
    BY <1>1
  <2>4. 10 * base + (0 - stop) * atr + 5 \in Nat
    BY <1>1, <2>1, <2>2, <2>3
  <2> QED
    BY <2>4, DivisionNat
<1>4. /\ Plan(e, c).low = (low * close + 500) \div 1000
      /\ Plan(e, c).stop = (10 * base + (0 - stop) * atr + 5) \div 10
  BY DEF Plan
<1> HIDE DEF low, stop, close, base, atr
<1> QED
  BY <1>2, <1>3, <1>4 DEF PlanOK

-----------------------------------------------------------------------------
(* The scores of a signal. *)

(* A confidence in hundredths of a percent.                                 *)
Hundredths == 0..10000

LEMMA ChorusFacts ==
  ASSUME NEW e, Measured(e), NEW state, NEW c, c = Chorus(e, state)
  PROVE  /\ IsFiniteSet(c.bullish) /\ IsFiniteSet(c.families) /\ Cardinality(c.families) \in Nat
         /\ \A b \in c.bullish : b.vote \in 60..100
         /\ c.families = {FamilyOf[b.key] : b \in c.bullish}
<1> DEFINE C == Candidates(e, state)
           Bullish == {b \in C : FamilyOf[b.key] # "composite" /\ b.vote >= 60}
           family == [b \in Bullish |-> FamilyOf[b.key]]
<1>1. IsFiniteSet(C) /\ \A b \in C : Sound(e, b)
  BY CandidatesSound
<1>2. /\ c.bullish = Bullish
      /\ c.families = {FamilyOf[b.key] : b \in Bullish}
  BY DEF Chorus
<1>3. IsFiniteSet(Bullish) /\ \A b \in Bullish : b.vote \in 60..100
  <2>1. IsFiniteSet(Bullish)
    <3> HIDE DEF C
    <3> QED
      BY <1>1, FS_Subset
  <2>2. \A b \in Bullish : b.vote \in Int /\ b.vote <= 100 /\ b.vote >= 60
    <3> HIDE DEF C
    <3> QED
      BY <1>1 DEF Sound
  <2> HIDE DEF Bullish
  <2> QED
    BY <2>1, <2>2
<1>4. {FamilyOf[b.key] : b \in Bullish} = {family[b] : b \in Bullish}
  OBVIOUS
<1>5. IsFiniteSet({family[b] : b \in Bullish})
  <2> HIDE DEF family, Bullish
  <2> QED
    BY <1>3, ImageFinite
<1> HIDE DEF Bullish, family
<1>6. IsFiniteSet(c.families)
  BY <1>2, <1>4, <1>5
<1> QED
  BY <1>2, <1>3, <1>6, FS_CardinalityType

(* The vote of a family that votes is one of its votes.                     *)
LEMMA FamilyVoteIs ==
  ASSUME NEW e, Measured(e), NEW state, NEW c, c = Chorus(e, state), NEW family \in c.families
  PROVE  FamilyVote(c, family) \in 60..100
<1> DEFINE Own == {b \in c.bullish : FamilyOf[b.key] = family}
<1>1. /\ IsFiniteSet(c.bullish) /\ \A b \in c.bullish : b.vote \in 60..100
      /\ c.families = {FamilyOf[b.key] : b \in c.bullish}
  BY ChorusFacts
<1>2. IsFiniteSet(Own) /\ Own # {} /\ \A b \in Own : b.vote \in 60..100
  BY <1>1, FS_Subset
<1>3. \A b \in Own : b.vote \in Int
  <2> HIDE DEF Own
  <2> QED
    BY <1>2
<1>4. \E b \in Own : b.vote = BestVote(Own)
  <2> HIDE DEF Own
  <2> QED
    BY <1>2, <1>3, BestVoteIs
<1>5. BestVote(Own) \in 60..100
  <2> HIDE DEF Own
  <2> QED
    BY <1>2, <1>4
<1> QED
  BY <1>5 DEF FamilyVote

LEMMA RawScoreIs ==
  ASSUME NEW e, Measured(e), NEW state, NEW c, c = Chorus(e, state)
  PROVE  RawScore(c) \in 0..100
<1> DEFINE n == Cardinality(c.families)
           votes == [family \in c.families |-> FamilyVote(c, family)]
           total == SumFunction(votes)
           bonus == Min({12, 3 * (n - 1)})
<1>1. n \in Nat /\ IsFiniteSet(c.families)
  BY ChorusFacts
<1>2. total \in Nat
  <2>1. \A family \in c.families : votes[family] \in Nat
    <3>1. \A family \in c.families : FamilyVote(c, family) \in 60..100
      BY FamilyVoteIs
    <3>2. \A family \in c.families : votes[family] = FamilyVote(c, family)
      OBVIOUS
    <3> HIDE DEF votes
    <3> QED
      BY <3>1, <3>2
  <2>2. DOMAIN votes = c.families
    OBVIOUS
  <2>3. SumFunctionOnSet(votes, c.families) \in Nat
    <3> HIDE DEF votes
    <3> QED
      BY <1>1, <2>1, SumNat
  <2> HIDE DEF votes
  <2> QED
    BY <2>2, <2>3 DEF SumFunction
<1>3. RawScore(c) = IF n = 0 THEN 0 ELSE Min({100, total \div n + bonus})
  BY DEF RawScore
<1>4. ASSUME n # 0
      PROVE  Min({100, total \div n + bonus}) \in 0..100
  <2> HIDE DEF n, total
  <2>1. bonus \in Nat
    <3> DEFINE more == 3 * (n - 1)
    <3>1. more \in Int /\ more >= 0
      BY <1>1, <1>4
    <3> HIDE DEF more
    <3>2. Min({12, more}) = IF 12 <= more THEN 12 ELSE more
      BY <3>1, MinOfTwo
    <3>3. Min({12, more}) \in Nat
      BY <3>1, <3>2
    <3> QED
      BY <3>3 DEF more
  <2>2. total \div n \in Nat
    BY <1>1, <1>2, <1>4, DivisionNat
  <2> HIDE DEF bonus
  <2> DEFINE all == total \div n + bonus
  <2>3. all \in Nat
    BY <2>1, <2>2
  <2> HIDE DEF all
  <2>4. Min({100, all}) = IF 100 <= all THEN 100 ELSE all
    BY <2>3, MinOfTwo
  <2>5. Min({100, all}) \in 0..100
    BY <2>3, <2>4
  <2> QED
    BY <2>5 DEF all
<1> HIDE DEF n, total, bonus
<1> QED
  BY <1>3, <1>4

LEMMA ChanceIs ==
  ASSUME NEW e, Measured(e), NEW state, NEW f
  PROVE  ProfitChance(Chorus(e, state), f) \in 0..100
<1> DEFINE raw == RawScore(Chorus(e, state))
<1>1. raw \in 0..100
  BY RawScoreIs
<1>2. Curve \in [0..100 -> 0..100]
  BY GatesAssumption
<1>3. ProfitChance(Chorus(e, state), f) = IF f THEN Curve[raw] ELSE 0
  BY DEF ProfitChance
<1> HIDE DEF raw
<1>4. Curve[raw] \in 0..100
  BY <1>1, <1>2
<1> QED
  BY <1>3, <1>4

LEMMA QualityIs == ASSUME NEW e, Measured(e) PROVE Quality(e) \in Nat
<1> DEFINE some == Min({e.bars, MinHistory})
<1>1. e.bars \in Nat /\ e.valid \in Nat /\ e.covered \in Nat
  BY DEF Measured
<1>2. MinHistory \in Nat /\ MinHistory > 0
  BY GatesAssumption
<1>3. some \in Nat
  <2>1. some = IF e.bars <= MinHistory THEN e.bars ELSE MinHistory
    BY <1>1, <1>2, MinOfTwo
  <2> QED
    BY <1>1, <1>2, <2>1
<1>4. Quality(e) = IF e.bars = 0 THEN 0
                     ELSE (500 * some) \div MinHistory + (300 * e.valid) \div e.bars
                            + (200 * e.covered) \div e.bars
  BY DEF Quality
<1> HIDE DEF some
<1>5. 500 * some \in Nat /\ 300 * e.valid \in Nat /\ 200 * e.covered \in Nat
  BY <1>1, <1>3
<1>6. (500 * some) \div MinHistory \in Nat
  BY <1>2, <1>5, DivisionNat
<1>7. e.bars > 0 => (300 * e.valid) \div e.bars \in Nat /\ (200 * e.covered) \div e.bars \in Nat
  BY <1>1, <1>5, DivisionNat
<1> QED
  BY <1>1, <1>4, <1>6, <1>7

LEMMA SupportIs == ASSUME NEW e, Measured(e) PROVE SampleSupport(e) \in Nat
<1> DEFINE part == (100 * e.bars) \div MinHistory
<1>1. 100 * e.bars \in Nat
  BY DEF Measured
<1>2. MinHistory \in Nat /\ MinHistory > 0
  BY GatesAssumption
<1>3. part \in Nat
  BY <1>1, <1>2, DivisionNat
<1>4. Min({100, part}) \in Nat
  <2> HIDE DEF part
  <2>1. Min({100, part}) = IF 100 <= part THEN 100 ELSE part
    BY <1>3, MinOfTwo
  <2> QED
    BY <1>3, <2>1
<1> QED
  BY <1>4 DEF SampleSupport

LEMMA FactorIs == ASSUME NEW state PROVE RegimeFactor(state) \in {40, 70, 90}
  BY DEF RegimeFactor

LEMMA ConfidenceIs ==
  ASSUME NEW e, Measured(e), NEW state, NEW r
  PROVE  Confidence(e, Chorus(e, state), r) \in Hundredths
<1> DEFINE c == Chorus(e, state)
           support == SampleSupport(e)
           quality == Quality(e)
           families == Cardinality(c.families)
           some == Min({3, families})
           factor == RegimeFactor(r)
           all == 25 * support + (5 * quality) \div 2 + 1000 * some + 20 * factor
<1>1. support \in Nat /\ quality \in Nat
  BY SupportIs, QualityIs
<1>2. families \in Nat
  BY ChorusFacts
<1>3. some \in Nat
  <2> HIDE DEF families
  <2>1. Min({3, families}) = IF 3 <= families THEN 3 ELSE families
    BY <1>2, MinOfTwo
  <2> QED
    BY <1>2, <2>1
<1>4. factor \in Nat
  BY FactorIs
<1>5. (5 * quality) \div 2 \in Nat
  <2>1. 5 * quality \in Nat /\ 2 \in Nat /\ 2 > 0
    BY <1>1
  <2> HIDE DEF quality
  <2> QED
    BY <2>1, DivisionNat
<1>6. all \in Nat
  <2> HIDE DEF support, quality, some, factor
  <2> QED
    BY <1>1, <1>3, <1>4, <1>5
<1>7. Confidence(e, c, r) = Min({10000, all})
  BY DEF Confidence
<1> HIDE DEF all
<1>8. Min({10000, all}) = IF 10000 <= all THEN 10000 ELSE all
  BY <1>6, MinOfTwo
<1>9. Confidence(e, c, r) \in Hundredths
  <2>1. CASE 10000 <= all
    BY <2>1, <1>7, <1>8, SMT DEF Hundredths
  <2>2. CASE ~(10000 <= all)
    BY <2>2, <1>6, <1>7, <1>8, SMT, SMTT(30) DEF Hundredths
  <2> QED
    BY <2>1, <2>2
<1> QED
  BY <1>9

(* The score of a signal, in tenths, stays within a thousand.               *)
LEMMA OpportunityIs ==
  ASSUME NEW e, Measured(e), NEW state, NEW r, NEW passed, NEW f, NEW rank \in 0..100
  PROVE  Opportunity(e, Chorus(e, state), r, passed, f, rank) \in Tenths
<1> DEFINE c == Chorus(e, state)
           chance == ProfitChance(c, f)
           gain == Max({0, chance - 50})
           confidence == Confidence(e, c, r)
           fill == FillScore(e)
           factor == RegimeFactor(r)
           fundamental == FundamentalScore(e)
           sum == 30 * rank + 40 * gain + (15 * confidence) \div 100 + 15 * fill
                    + 10 * factor + 10 * fundamental
           kept == IF RiskFlagged(e, c, passed, f) THEN 90 ELSE 100
<1>1. chance \in 0..100
  BY ChanceIs
<1>2. gain \in 0..50
  <2> HIDE DEF chance
  <2>1. chance - 50 \in Int
    BY <1>1
  <2>2. gain = IF 0 >= chance - 50 THEN 0 ELSE chance - 50
    BY <2>1, MaxOfTwo
  <2> QED
    BY <1>1, <2>2
<1>3. confidence \in 0..10000
  <2>1. confidence \in Hundredths
    BY ConfidenceIs
  <2> HIDE DEF confidence
  <2> QED
    BY <2>1, SMT DEF Hundredths
<1>4. fill \in {65, 85, 90}
  BY DEF FillScore
<1>5. factor \in {40, 70, 90}
  BY FactorIs
<1>6. fundamental \in 0..100
  BY DEF FundamentalScore, Measured
<1>7. kept \in {90, 100}
  OBVIOUS
<1>8. Opportunity(e, c, r, passed, f, rank) = ((sum * kept) \div 100 + 5) \div 10
  BY DEF Opportunity
<1>9. sum \in 0..9900
  <2> HIDE DEF gain, confidence, fill, factor, fundamental
  <2> DEFINE part == (15 * confidence) \div 100
  <2>1. part \in 0..1500
    <3>1. 15 * confidence \in Nat /\ 15 * confidence <= 1500 * 100
      BY <1>3
    <3> QED
      BY <3>1, DivisionWithin
  <2>2. /\ rank \in Nat /\ rank <= 100 /\ gain \in Nat /\ gain <= 50
        /\ fill \in Nat /\ fill <= 90 /\ factor \in Nat /\ factor <= 90
        /\ fundamental \in Nat /\ fundamental <= 100
    BY <1>2, <1>4, <1>5, <1>6
  <2>3. part \in Nat /\ part <= 1500
    <3> HIDE DEF part
    <3> QED
      BY <2>1
  <2>4. sum = 30 * rank + 40 * gain + part + 15 * fill + 10 * factor + 10 * fundamental
    BY DEF part, sum
  <2> HIDE DEF part, sum
  <2>5. sum \in Nat /\ sum <= 9900
    BY <2>2, <2>3, <2>4, SMTT(30)
  <2> QED
    BY <2>5, SMTT(30)
<1>10. ((sum * kept) \div 100 + 5) \div 10 \in 0..1000
  <2> HIDE DEF sum, kept
  <2> DEFINE product == sum * kept
             part == product \div 100
  <2>1. product \in Nat /\ product <= 9900 * 100 /\ 9900 \in Nat /\ 100 \in Nat /\ 100 > 0
    <3>1. sum \in Nat /\ kept \in Nat /\ sum <= 9900 /\ kept <= 100
      BY <1>7, <1>9
    <3>2. sum * kept <= sum * 100
      BY <3>1, TimesKeeps
    <3> QED
      BY <3>1, <3>2
  <2>2. part \in 0..9900
    <3> HIDE DEF product
    <3> QED
      BY <2>1, DivisionWithin
  <2> HIDE DEF part, product
  <2>3. part + 5 \in Nat /\ part + 5 <= 1000 * 10
    BY <2>2
  <2>4. (part + 5) \div 10 \in 0..1000
    BY <2>3, DivisionWithin
  <2> QED
    BY <2>4 DEF part, product
<1> HIDE DEF sum, kept
<1>11. Opportunity(e, c, r, passed, f, rank) \in Tenths
  BY <1>8, <1>10 DEF Tenths
<1> QED
  BY <1>11

(* Above C is what was published: the gate asks for a score of 70.          *)
LEMMA GradeIs ==
  ASSUME NEW passed \in BOOLEAN, NEW score \in Int, NEW confidence \in Int,
         passed => score >= 700
  PROVE  passed <=> Grade(passed, score, confidence) # "C"
<1>1. CASE passed /\ score >= 850 /\ confidence >= 7000
  <2>1. /\ ~(score < 850 \/ confidence < 7000) /\ score \notin 680..779
    BY <1>1
  <2>2. Grade(passed, score, confidence) = "A+"
    BY <1>1, <2>1 DEF Grade
  <2>3. Grade(passed, score, confidence) # "C"
    BY <2>2
  <2>4. passed
    BY <1>1
  <2> QED
    BY <2>3, <2>4
<1>2. CASE passed /\ score >= 780 /\ ~(score >= 850 /\ confidence >= 7000)
  <2>1. (score < 850 \/ confidence < 7000) /\ score \notin 680..779
    BY <1>2
  <2>2. Grade(passed, score, confidence) = "A"
    BY <1>2, <2>1 DEF Grade
  <2>3. Grade(passed, score, confidence) # "C"
    BY <2>2
  <2>4. passed
    BY <1>2
  <2> QED
    BY <2>3, <2>4
<1>3. CASE passed /\ ~(score >= 780)
  <2>1. score \in 680..779 /\ ~(score >= 850)
    BY <1>3
  <2>2. Grade(passed, score, confidence) = "B"
    BY <1>3, <2>1 DEF Grade
  <2> QED
    BY <1>3, <2>2
<1>4. CASE ~passed
  <2>1. Grade(passed, score, confidence) = "C"
    BY <1>4 DEF Grade
  <2> QED
    BY <1>4, <2>1
<1> QED
  BY <1>1, <1>2, <1>3, <1>4

(* What a signal says of its score, its grade and its plan.                 *)
LEMMA SignalParts ==
  ASSUME NEW e, NEW state, NEW f, NEW r, NEW t, NEW rank
  PROVE  LET signal      == Signal(e, state, f, r, t, rank)
             c           == Chorus(e, state)
             fundamental == FundamentalGate(e, r, t)
             score       == Opportunity(e, c, state, fundamental, f, rank)
             confidence  == Confidence(e, c, state)
             passed      == PublicationGate(e, c, fundamental, f, score, confidence)
         IN /\ signal.score = score
            /\ signal.actionable <=> passed
            /\ signal.grade = Grade(passed, score, confidence)
            /\ signal.regime = state
            /\ signal.plan = Plan(e, Primary(c.candidates))
  BY DEF Signal

LEMMA SignalNeeds ==
  ASSUME NEW e, NEW state, NEW f, NEW r, NEW t, NEW rank,
         Signal(e, state, f, r, t, rank).actionable
  PROVE  FundamentalGate(e, r, t)
<1> DEFINE c == Chorus(e, state)
           fundamental == FundamentalGate(e, r, t)
           confidence == Confidence(e, c, state)
           score == Opportunity(e, c, state, fundamental, f, rank)
           passed == PublicationGate(e, c, fundamental, f, score, confidence)
<1>1. Signal(e, state, f, r, t, rank).actionable <=> passed
  BY SignalParts
<1>2. passed => fundamental
  BY DEF PublicationGate
<1> QED
  BY <1>1, <1>2

LEMMA SignalIs ==
  ASSUME NEW e, Measured(e), NEW state, NEW f, NEW r, NEW t, NEW rank \in 0..100,
         NEW signal, signal = Signal(e, state, f, r, t, rank)
  PROVE  /\ signal.score \in Tenths
         /\ signal.actionable <=> signal.grade # "C"
<1> DEFINE c == Chorus(e, state)
           fundamental == FundamentalGate(e, r, t)
           confidence == Confidence(e, c, state)
           score == Opportunity(e, c, state, fundamental, f, rank)
           passed == PublicationGate(e, c, fundamental, f, score, confidence)
<1>1. score \in Tenths
  BY OpportunityIs
<1>2. confidence \in Hundredths
  BY ConfidenceIs
<1>3. passed \in BOOLEAN /\ (passed => score >= 700)
  BY DEF PublicationGate
<1>4. /\ signal.score = score
      /\ signal.actionable <=> passed
      /\ signal.grade = Grade(passed, score, confidence)
  BY SignalParts
<1>5. passed <=> Grade(passed, score, confidence) # "C"
  <2> HIDE DEF score, passed, confidence
  <2>1. score \in Int /\ confidence \in Int
    BY <1>1, <1>2, SMT DEF Tenths, Hundredths
  <2> QED
    BY <1>3, <2>1, GradeIs
<1> HIDE DEF score, passed, confidence
<1> QED
  BY <1>1, <1>4, <1>5

-----------------------------------------------------------------------------
(* The state between two cycles. *)

States ==
  /\ now \in 0..MaxDays
  /\ DOMAIN evidence = Symbols /\ \A s \in Symbols : Typed(evidence[s])
  /\ receipts \in [Sources -> [healthy : BOOLEAN, at : 0..now]]
  /\ breadth \in Breadths /\ fitted \in BOOLEAN
  /\ book \in Portfolios
  /\ held \in SUBSET Symbols
  /\ news \in 0..MaxNews

LEMMA ScoresAreSound ==
  ASSUME States, NEW s \in Considered
  PROVE  /\ \A rank \in 0..100 : SignalAt(s, rank).score \in Tenths
         /\ ProfitChance(Chorus(evidence[s], regime), fitted) \in 0..100
         /\ \A rank \in 0..100 : SignalAt(s, rank).actionable <=> SignalAt(s, rank).grade # "C"
<1> DEFINE e == evidence[s]
<1>1. s \in Symbols
  BY DEF Considered
<1>2. Measured(e)
  BY <1>1, TypedIsMeasured DEF States
<1>3. ProfitChance(Chorus(e, regime), fitted) \in 0..100
  BY <1>2, ChanceIs
<1>4. ASSUME NEW rank \in 0..100
      PROVE  /\ SignalAt(s, rank).score \in Tenths
             /\ SignalAt(s, rank).actionable <=> SignalAt(s, rank).grade # "C"
  <2>1. SignalAt(s, rank) = Signal(e, regime, fitted, receipts, now, rank)
    BY DEF SignalAt
  <2> HIDE DEF e
  <2> QED
    BY <1>2, <2>1, SignalIs
<1>5. \A rank \in 0..100 : SignalAt(s, rank).score \in Tenths
  BY <1>4
<1>6. \A rank \in 0..100 : SignalAt(s, rank).actionable <=> SignalAt(s, rank).grade # "C"
  BY <1>4
<1> QED
  BY <1>3, <1>5, <1>6

(* What a purchase rests on, and what it may cost.                          *)
Backed(s) ==
  \E p, q \in evidence[s].sources :
    /\ UpstreamOf[p] # UpstreamOf[q]
    /\ \A src \in {p, q, Codal} : receipts[src].healthy /\ now - receipts[src].at <= ReceiptLife

Bounded(o) ==
  100 * StoppedLoss(o)
    <= 135 * ((NetAsset(book) * Policy(regime).rate) \div 40000
                + (o.quantity * o.price) \div 100000 + 1)

Sized(o) ==
  /\ DOMAIN o = {"quantity", "price", "low", "stop"}
  /\ o.quantity \in Nat /\ o.quantity > 0 /\ o.price \in Nat
  /\ 100 * (o.quantity * o.price) <= 8 * NetAsset(book)
  /\ ~Lost(book, 8)
  /\ 100 * book.cash > 30 * NetAsset(book)
  /\ book.reserved + WithFee(o.quantity * o.price) <= book.cash

LEMMA GateBacks ==
  ASSUME States, NEW s, FundamentalGate(evidence[s], receipts, now)
  PROVE  Backed(s)
<1> DEFINE Healthy == HealthySources(receipts, now)
           S == evidence[s].sources \cap Healthy
           up == [p \in S |-> UpstreamOf[p]]
<1>1. Codal \in Healthy /\ Cardinality(Upstreams(S)) >= 2
  BY DEF FundamentalGate
<1>2. \A src \in Healthy : receipts[src].healthy /\ now - receipts[src].at <= ReceiptLife
  BY DEF HealthySources
<1>3. S \in SUBSET Sources
  BY DEF HealthySources
<1>4. IsFiniteSet(S)
  <2>1. IsFiniteSet(Sources)
    BY GatesAssumption
  <2> HIDE DEF S
  <2> QED
    BY <1>3, <2>1, FS_Subset
<1>5. Upstreams(S) = {up[p] : p \in S}
  BY DEF Upstreams
<1>6. IsFiniteSet({up[p] : p \in S})
  <2> HIDE DEF S, up
  <2> QED
    BY <1>4, ImageFinite
<1>7. PICK x, y \in Upstreams(S) : x # y
  <2>1. IsFiniteSet(Upstreams(S))
    BY <1>5, <1>6
  <2> HIDE DEF S
  <2> QED
    BY <1>1, <2>1, TwoApart
<1>8. PICK p \in S : x = UpstreamOf[p]
  BY <1>7 DEF Upstreams
<1>9. PICK q \in S : y = UpstreamOf[q]
  BY <1>7 DEF Upstreams
<1>10. p \in evidence[s].sources /\ q \in evidence[s].sources /\ p \in Healthy /\ q \in Healthy
  OBVIOUS
<1> HIDE DEF Healthy, S, up
<1>11. \A src \in {p, q, Codal} : receipts[src].healthy /\ now - receipts[src].at <= ReceiptLife
  BY <1>1, <1>2, <1>10
<1> QED
  BY <1>7, <1>8, <1>9, <1>10, <1>11 DEF Backed

(* What a purchase costs with its fee.                                      *)
LEMMA FeeFacts ==
  ASSUME NEW value \in Nat
  PROVE  /\ WithFee(value) \in Nat /\ WithFee(value) >= value
         /\ 10000 * WithFee(value) <= value * (10000 + BuyFee)
<1> DEFINE whole == value * BuyFee
           fee == whole \div 10000
<1>1. BuyFee \in Nat
  BY SizingAssumption
<1>2. whole \in Nat
  BY <1>1
<1>3. fee \in Nat /\ fee * 10000 <= whole
  <2> HIDE DEF whole
  <2> QED
    BY <1>2, DivisionFacts, DivisionNat
<1>4. WithFee(value) = value + fee
  BY DEF WithFee
<1>5. value * (10000 + BuyFee) = 10000 * value + whole
  BY <1>1
<1> HIDE DEF whole, fee
<1> QED
  BY <1>2, <1>3, <1>4, <1>5

(* An order is placed on the cash that the pending purchases leave.         *)
LEMMA OrderCovered ==
  ASSUME NEW p \in Portfolios, NEW plan, PlanOK(plan), NEW state, NEW sector,
         NEW price \in Nat, NEW quantity, quantity # 0,
         quantity = OrderQuantity(p, plan, state, sector, price)
  PROVE  p.reserved + WithFee(quantity * price) <= p.cash
<1> DEFINE free == p.cash - p.reserved
           paid == WithFee(quantity * price)
<1>1. /\ quantity = FinalQuantity(p, plan, state, sector, price)
      /\ Approved(p, plan, state, sector, price)
      /\ paid <= Max({0, free})
  BY DEF OrderQuantity
<1>2. quantity \in Nat /\ quantity > 0
  BY OrderFacts
<1>3. price > 0
  BY <1>1, <1>2 DEF FinalQuantity
<1>4. paid \in Nat /\ paid > 0
  <2> DEFINE worth == quantity * price
  <2>1. worth \in Nat /\ worth > 0
    BY <1>2, <1>3
  <2>2. WithFee(worth) \in Nat /\ WithFee(worth) >= worth
    <3> HIDE DEF worth
    <3> QED
      BY <2>1, FeeFacts
  <2> HIDE DEF worth
  <2>3. WithFee(worth) > 0
    BY <2>1, <2>2
  <2> QED
    BY <2>2, <2>3 DEF worth
<1>5. p.cash \in Nat /\ p.reserved \in Nat /\ free \in Int
  BY DEF Portfolios
<1>6. Max({0, free}) = IF 0 >= free THEN 0 ELSE free
  <2> HIDE DEF free
  <2> QED
    BY <1>5, MaxOfTwo
<1>7. paid <= free
  <2> HIDE DEF free, paid
  <2> QED
    BY <1>1, <1>4, <1>5, <1>6
<1> HIDE DEF paid
<1>8. p.reserved + paid <= p.cash
  BY <1>4, <1>5, <1>7
<1> QED
  BY <1>8 DEF paid

(* The entry for an actionable signal is no order, or one that is sized,    *)
(* bounded and backed.                                                      *)
LEMMA EntrySound ==
  ASSUME States, NEW s \in Considered, NEW rank, NEW signal, signal = SignalAt(s, rank),
         signal.actionable, NEW o, o = Entry(s, signal), o # NoOrder
  PROVE  Sized(o) /\ Bounded(o) /\ Backed(s)
<1> DEFINE e == evidence[s]
           state == regime
           C == Candidates(e, state)
           plan == Plan(e, Primary(C))
           price == e.last
           sector == e.sector
           quantity == OrderQuantity(book, plan, state, sector, price)
<1>1. s \in Symbols /\ e.close > 0 /\ C # {}
  BY DEF Considered, Assembled
<1>2. Measured(e)
  BY <1>1, TypedIsMeasured DEF States
<1>3. book \in Portfolios
  BY DEF States
<1>4. signal = Signal(e, state, fitted, receipts, now, rank)
  BY DEF SignalAt
<1>5. Chorus(e, state).candidates = C
  BY DEF Chorus
<1>6. signal.regime = state /\ signal.plan = plan
  BY <1>4, <1>5, SignalParts
<1>7. FundamentalGate(e, receipts, now)
  BY <1>4, SignalNeeds
<1>8. Backed(s)
  BY <1>7, GateBacks
<1>9. PlanOK(plan)
  <2>1. IsFiniteSet(C) /\ \A c \in C : Sound(e, c)
    <3> HIDE DEF e, state
    <3> QED
      BY <1>2, CandidatesSound
  <2>2. \A c \in C : c.vote \in Int /\ c.key \in Keys
    <3> HIDE DEF C
    <3> QED
      BY <2>1 DEF Sound
  <2>3. Primary(C) \in C
    <3> HIDE DEF C
    <3> QED
      BY <1>1, <2>1, <2>2, PrimaryIs
  <2> HIDE DEF C, e
  <2> QED
    BY <1>1, <1>2, <2>1, <2>3, PlanIsOK
<1>10. price \in Nat
  BY <1>2 DEF Measured
<1>11. /\ quantity # 0
       /\ o = [quantity |-> quantity, price |-> price, low |-> plan.low, stop |-> plan.stop]
  <2>1. o = IF quantity = 0 THEN NoOrder
              ELSE [quantity |-> quantity, price |-> price, low |-> signal.plan.low,
                    stop |-> signal.plan.stop]
    BY <1>6 DEF Entry
  <2> HIDE DEF quantity, plan, price
  <2> QED
    BY <1>6, <2>1
<1>12. DOMAIN o = {"quantity", "price", "low", "stop"}
  <2> HIDE DEF quantity, price, plan
  <2> QED
    BY <1>11
<1>13. o.quantity = quantity /\ o.price = price /\ o.stop = plan.stop
  <2> HIDE DEF quantity, price, plan
  <2> QED
    BY <1>11
<1>14. /\ quantity \in Nat /\ quantity > 0
       /\ 100 * (quantity * price) <= 8 * NetAsset(book)
       /\ ~Lost(book, 8)
       /\ 100 * book.cash > 30 * NetAsset(book)
  <2> HIDE DEF plan, state, sector, price
  <2> QED
    BY <1>3, <1>9, <1>10, <1>11, OrderFacts
<1>15. 100 * (quantity * (price - plan.stop) + (quantity * price * RoundTrip) \div 100000)
         <= 135 * ((NetAsset(book) * Policy(state).rate) \div 40000
                     + (quantity * price) \div 100000 + 1)
  <2> HIDE DEF plan, state, sector, price
  <2> QED
    BY <1>3, <1>9, <1>10, <1>11, OrderLoss
<1>16. Bounded(o)
  <2> HIDE DEF quantity, plan, price
  <2> QED
    BY <1>13, <1>15 DEF Bounded, StoppedLoss
<1>17. book.reserved + WithFee(quantity * price) <= book.cash
  <2> HIDE DEF plan, state, sector, price
  <2> QED
    BY <1>3, <1>9, <1>10, <1>11, OrderCovered
<1>18. Sized(o)
  <2> HIDE DEF quantity, price
  <2> QED
    BY <1>10, <1>12, <1>13, <1>14, <1>17 DEF Sized
<1> QED
  BY <1>8, <1>16, <1>18

-----------------------------------------------------------------------------
(* The orders of a cycle together. *)

Chosen(o) ==
  \E T \in SUBSET Symbols :
    /\ Cardinality(T) <= MaxPerCycle
    /\ \A s \in Symbols : o[s] = NoOrder \/ (s \in T /\ Sized(o[s]) /\ Bounded(o[s]) /\ Backed(s))

LEMMA NoOrderNone == NoOrder.quantity = 0 /\ DOMAIN NoOrder = {"quantity"}
  BY DEF NoOrder

(* Picks are no more than a cycle may enter, each with an actionable signal. *)
LEMMA PicksFacts ==
  ASSUME States, NEW place \in Rankings(Considered), NEW T \in Picks(SignalsOf(place))
  PROVE  /\ T \in SUBSET Considered /\ Cardinality(T) <= MaxPerCycle
         /\ \A s \in T : /\ SignalsOf(place)[s].actionable
                         /\ \E rank : SignalsOf(place)[s] = SignalAt(s, rank)
<1> DEFINE signals == SignalsOf(place)
           Able == {s \in DOMAIN signals : signals[s].actionable}
           least == Min({MaxPerCycle, MaxActive - book.count})
           room == Max({0, least})
<1>1. DOMAIN signals = Considered
  BY DEF SignalsOf, Rankings
<1>2. T \in SUBSET Able /\ Cardinality(T) = Min({room, Cardinality(Able)})
  BY DEF Picks
<1>3. \A s \in Considered : \E rank : signals[s] = SignalAt(s, rank)
  BY <1>1 DEF SignalsOf
<1>4. MaxPerCycle \in Nat /\ MaxActive \in Nat /\ book.count \in Nat
  <2>1. MaxPerCycle \in Nat
    BY DecisionsAssumption
  <2>2. MaxActive \in Nat
    BY SizingAssumption
  <2>3. book.count \in Nat
    BY DEF States, Portfolios
  <2> QED
    BY <2>1, <2>2, <2>3
<1>5. least \in Int /\ least <= MaxPerCycle
  <2> DEFINE left == MaxActive - book.count
  <2>1. left \in Int
    BY <1>4
  <2>2. Min({MaxPerCycle, left}) \in Int /\ Min({MaxPerCycle, left}) <= MaxPerCycle
    <3> HIDE DEF left
    <3>1. Min({MaxPerCycle, left}) = IF MaxPerCycle <= left THEN MaxPerCycle ELSE left
      BY <1>4, <2>1, MinOfTwo
    <3> QED
      BY <1>4, <2>1, <3>1
  <2> QED
    BY <2>2
<1>6. room \in Int /\ room <= MaxPerCycle
  <2> HIDE DEF least
  <2>1. room = IF 0 >= least THEN 0 ELSE least
    BY <1>5, MaxOfTwo
  <2> QED
    BY <1>4, <1>5, <2>1
<1>7. IsFiniteSet(Able) /\ Cardinality(Able) \in Nat
  <2>1. Able \in SUBSET Symbols
    BY <1>1 DEF Considered
  <2>2. IsFiniteSet(Symbols)
    BY DecisionsAssumption
  <2> HIDE DEF Able
  <2> QED
    BY <2>1, <2>2, FS_Subset, FS_CardinalityType
<1>8. Cardinality(T) <= MaxPerCycle
  <2> DEFINE able == Cardinality(Able)
  <2>1. able \in Int /\ Cardinality(T) = Min({room, able})
    BY <1>2, <1>7
  <2> HIDE DEF room, able
  <2>2. Min({room, able}) = IF room <= able THEN room ELSE able
    BY <1>6, <2>1, MinOfTwo
  <2> QED
    BY <1>4, <1>6, <2>1, <2>2
<1>9. T \in SUBSET Considered /\ \A s \in T : signals[s].actionable
  BY <1>1, <1>2
<1> HIDE DEF signals, Able, room, least
<1> QED
  BY <1>3, <1>8, <1>9 DEF signals

LEMMA EnterChooses ==
  ASSUME States, Enter
  PROVE  Chosen(orders') /\ Submits(orders')
<1>0. PICK place \in Rankings(Considered) :
        \E T \in Picks(SignalsOf(place)) :
          Submits([s \in Symbols |-> IF s \in T THEN Entry(s, SignalsOf(place)[s]) ELSE NoOrder])
  BY DEF Enter
<1>1. PICK T \in Picks(SignalsOf(place)) :
        Submits([s \in Symbols |-> IF s \in T THEN Entry(s, SignalsOf(place)[s]) ELSE NoOrder])
  BY <1>0
<1> DEFINE o == [s \in Symbols |-> IF s \in T THEN Entry(s, SignalsOf(place)[s]) ELSE NoOrder]
<1>2. orders' = o
  BY <1>1 DEF Submits
<1>3. Submits(orders')
  BY <1>1, <1>2
<1>4. /\ T \in SUBSET Considered /\ Cardinality(T) <= MaxPerCycle
      /\ \A s \in T : /\ SignalsOf(place)[s].actionable
                      /\ \E rank : SignalsOf(place)[s] = SignalAt(s, rank)
  BY PicksFacts
<1>5. T \in SUBSET Symbols
  BY <1>4 DEF Considered
<1>6. ASSUME NEW s \in Symbols, o[s] # NoOrder
      PROVE  s \in T /\ Sized(o[s]) /\ Bounded(o[s]) /\ Backed(s)
  <2>1. s \in T /\ o[s] = Entry(s, SignalsOf(place)[s])
    BY <1>6
  <2>2. PICK rank : SignalsOf(place)[s] = SignalAt(s, rank)
    BY <1>4, <2>1
  <2>3. s \in Considered /\ SignalsOf(place)[s].actionable
    BY <1>4, <2>1
  <2> HIDE DEF o
  <2> QED
    BY <1>6, <2>1, <2>2, <2>3, EntrySound
<1>7. Chosen(o)
  <2> HIDE DEF o
  <2> QED
    BY <1>4, <1>5, <1>6 DEF Chosen
<1> QED
  BY <1>2, <1>3, <1>7

(* What they cost is less than the reserve that each had to leave.          *)
LEMMA CostFacts ==
  ASSUME States, NEW o, Chosen(o)
  PROVE  Cost(o) \in Nat /\ Cost(o) <= book.cash
<1> DEFINE S == Submitted(o)
           cost == [s \in S |-> WithFee(o[s].quantity * o[s].price)]
           worth == NetAsset(book)
           rate == 10000 + BuyFee
           most == (8 * worth) * rate
           bound == [s \in S |-> most]
<1>1. PICK T \in SUBSET Symbols :
        /\ Cardinality(T) <= MaxPerCycle
        /\ \A s \in Symbols : o[s] = NoOrder \/ (s \in T /\ Sized(o[s]))
  BY DEF Chosen
<1>2. S \in SUBSET T /\ \A s \in S : Sized(o[s])
  BY <1>1, NoOrderNone DEF Submitted
<1>3. IsFiniteSet(S) /\ Cardinality(S) \in Nat /\ Cardinality(S) <= MaxPerCycle
  <2>1. IsFiniteSet(T)
    BY DecisionsAssumption, FS_Subset
  <2>2. Cardinality(T) \in Nat
    BY <2>1, FS_CardinalityType
  <2>3. IsFiniteSet(S) /\ Cardinality(S) <= Cardinality(T)
    <3> HIDE DEF S
    <3> QED
      BY <1>2, <2>1, FS_Subset
  <2>4. Cardinality(S) \in Nat
    BY <2>3, FS_CardinalityType
  <2>5. MaxPerCycle \in Nat
    BY DecisionsAssumption
  <2> HIDE DEF S
  <2> QED
    BY <1>1, <2>2, <2>3, <2>4, <2>5
<1>4. book \in Portfolios
  BY DEF States
<1>5. worth \in Nat /\ book.cash \in Nat /\ rate \in Nat /\ most \in Nat /\ MaxPerCycle \in Nat
  <2>1. worth \in Nat
    BY <1>4, WorthFacts
  <2>2. book.cash \in Nat
    BY <1>4 DEF Portfolios
  <2>3. rate \in Nat
    BY SizingAssumption
  <2>4. MaxPerCycle \in Nat
    BY DecisionsAssumption
  <2> HIDE DEF worth, rate
  <2> QED
    BY <2>1, <2>2, <2>3, <2>4
<1>6. \A s \in S : cost[s] \in Nat /\ 1000000 * cost[s] <= most
  <2> SUFFICES ASSUME NEW s \in S
               PROVE  cost[s] \in Nat /\ 1000000 * cost[s] <= most
    OBVIOUS
  <2> DEFINE value == o[s].quantity * o[s].price
             paid == WithFee(value)
  <2>1. value \in Nat /\ 100 * value <= 8 * worth
    BY <1>2 DEF Sized
  <2>2. paid \in Nat /\ 10000 * paid <= value * rate
    <3> HIDE DEF value
    <3> QED
      BY <2>1, FeeFacts
  <2>3. cost[s] = paid
    OBVIOUS
  <2> HIDE DEF value, paid, worth, rate
  <2>4. rate * (100 * value) <= rate * (8 * worth)
    <3>1. 100 * value \in Int /\ 8 * worth \in Int
      BY <1>5, <2>1
    <3> QED
      BY <1>5, <2>1, <3>1, TimesKeeps
  <2> DEFINE A == value * rate
  <2>5. A \in Nat /\ rate * (100 * value) = 100 * A /\ rate * (8 * worth) = most
    BY <1>5, <2>1
  <2> HIDE DEF A, most
  <2>6. 10000 * paid <= A
    BY <2>2 DEF A
  <2>7. 100 * A <= most
    BY <2>4, <2>5
  <2>8. 1000000 * paid <= most
    BY <1>5, <2>2, <2>5, <2>6, <2>7, SMT
  <2> HIDE DEF cost
  <2> QED
    BY <2>2, <2>3, <2>8
<1>7. Cost(o) = SumFunctionOnSet(cost, S)
  BY DEF Cost, SumFunction
<1>8. SumFunctionOnSet(cost, S) \in Nat
  <2> HIDE DEF cost, S
  <2> QED
    BY <1>3, <1>6, SumNat
<1>9. 1000000 * SumFunctionOnSet(cost, S) <= Cardinality(S) * most
  <2>1. \A s \in S : bound[s] = most
    OBVIOUS
  <2> HIDE DEF cost, S, bound, most
  <2>2. SumFunctionOnSet(bound, S) = Cardinality(S) * most
    <3>1. most \in Int
      BY <1>5
    <3> QED
      BY <1>3, <2>1, <3>1, SumConstant
  <2>3. 1000000 * SumFunctionOnSet(cost, S) <= SumFunctionOnSet(bound, S)
    <3> DEFINE k == 1000000
    <3>1. k \in Int
      OBVIOUS
    <3>2. \A s \in S : cost[s] \in Int /\ bound[s] \in Int /\ k * cost[s] <= bound[s]
      BY <1>5, <1>6, <2>1
    <3> HIDE DEF k
    <3>3. k * SumFunctionOnSet(cost, S) <= SumFunctionOnSet(bound, S)
      BY <1>3, <3>1, <3>2, SumBound
    <3> QED
      BY <3>3 DEF k
  <2> QED
    BY <2>2, <2>3
<1>10. CASE S = {}
  <2>1. SumFunctionOnSet(cost, S) = 0
    <3> HIDE DEF cost
    <3> QED
      BY <1>10, SumEmpty
  <2> QED
    BY <1>5, <1>7, <2>1
<1>11. CASE S # {}
  <2> DEFINE sum == SumFunctionOnSet(cost, S)
             n == Cardinality(S)
  <2>1. 100 * book.cash > 30 * worth
    <3>1. PICK s \in S : TRUE
      BY <1>11
    <3>2. Sized(o[s])
      BY <1>2, <3>1
    <3> QED
      BY <3>2 DEF Sized
  <2>2. (MaxPerCycle * 8) * rate <= 300000
    BY ReserveAssumption
  <2>3. n \in Nat /\ n <= MaxPerCycle /\ sum \in Nat /\ 1000000 * sum <= n * most
    BY <1>3, <1>8, <1>9
  <2> HIDE DEF S, cost, bound, sum, n
  <2>4. most * n <= most * MaxPerCycle
    <3>1. n \in Int /\ MaxPerCycle \in Int
      BY <1>5, <2>3
    <3> QED
      BY <1>5, <2>3, <3>1, TimesKeeps
  <2>5. worth * ((MaxPerCycle * 8) * rate) <= worth * 300000
    <3> DEFINE all == (MaxPerCycle * 8) * rate
    <3>1. all \in Int /\ all <= 300000
      <4> HIDE DEF rate
      <4> QED
        BY <1>5, <2>2
    <3> HIDE DEF all, worth
    <3>2. 300000 \in Int
      OBVIOUS
    <3>3. worth * all <= worth * 300000
      BY <1>5, <3>1, <3>2, TimesKeeps
    <3> QED
      BY <3>3 DEF all
  <2>6. most * MaxPerCycle = worth * ((MaxPerCycle * 8) * rate)
    <3> HIDE DEF worth, rate
    <3> QED
      BY <1>5
  <2>7. n * most = most * n /\ n * most \in Int /\ most * MaxPerCycle \in Int
    <3> HIDE DEF most
    <3> QED
      BY <1>5, <2>3
  <2> HIDE DEF most, worth, rate
  <2>8. 1000000 * sum <= worth * 300000
    <3> DEFINE p == n * most
               q == most * MaxPerCycle
               w == worth * 300000
    <3>1. 1000000 * sum <= p /\ p <= q /\ q <= w
      BY <2>3, <2>4, <2>5, <2>6, <2>7
    <3>2. p \in Int /\ q \in Int /\ w \in Int /\ 1000000 * sum \in Int
      BY <1>5, <2>3, <2>7
    <3> HIDE DEF p, q, w
    <3>3. 1000000 * sum <= w
      BY <3>1, <3>2, SMT
    <3> QED
      BY <3>3 DEF w
  <2>9. sum <= book.cash
    BY <1>5, <2>1, <2>3, <2>8, SMT
  <2> QED
    BY <1>7, <2>3, <2>9 DEF sum
<1> QED
  BY <1>7, <1>8, <1>10, <1>11

-----------------------------------------------------------------------------
(* The invariant of the cycle: the state between cycles, and what holds of  *)
(* the orders that the last one submitted.                                  *)

Safe ==
  /\ \A s \in Symbols : OrderOK(orders[s])
  /\ LossBounded
  /\ OneCycleAffordable
  /\ DeepLossStopsBuying
  /\ OrdersAreBacked

CycleInv == States /\ Safe

(* Eight percent below the initial capital is eight percent below the       *)
(* high-water mark.                                                         *)
LEMMA DeepLossIsLost ==
  ASSUME NEW p \in Portfolios, 25 * NetAsset(p) <= 23 * InitialCash
  PROVE  Lost(p, 8)
<1> DEFINE worth == NetAsset(p)
           high == HighWater(p)
<1>1. worth \in Nat /\ high \in {worth, InitialCash}
  BY WorthFacts
<1>2. InitialCash \in Nat /\ InitialCash > 0
  BY SizingAssumption
<1>3. high >= worth /\ high >= InitialCash
  BY WorthFacts
<1>4. 100 * (high - worth) >= 8 * high
  <2> HIDE DEF worth, high
  <2>1. high = InitialCash
    <3>1. 25 * worth <= 23 * InitialCash
      BY DEF worth
    <3>2. worth < InitialCash
      BY <1>1, <1>2, <3>1
    <3> QED
      BY <1>1, <1>2, <1>3, <3>2
  <2>2. 25 * worth <= 23 * InitialCash
    BY DEF worth
  <2> QED
    BY <1>1, <1>2, <2>1, <2>2
<1> QED
  BY <1>4 DEF Lost

(* Without orders there is nothing to keep.                                 *)
LEMMA QuietIsSafe ==
  ASSUME book' \in Portfolios, orders' = None
  PROVE  Safe'
<1>1. \A s \in Symbols : orders'[s] = NoOrder
  BY DEF None
<1>2. Submitted(orders') = {}
  BY <1>1, NoOrderNone DEF Submitted
<1>3. Cost(orders') = 0
  <2> DEFINE f == [s \in Submitted(orders') |-> WithFee(orders'[s].quantity * orders'[s].price)]
  <2>1. DOMAIN f = {}
    BY <1>2
  <2>2. SumFunction(f) = 0
    <3> HIDE DEF f
    <3> QED
      BY <2>1, NoRows
  <2> QED
    BY <2>2 DEF Cost
<1>4. book'.cash \in Nat
  BY DEF Portfolios
<1>5. OneCycleAffordable'
  BY <1>2, <1>3, <1>4 DEF OneCycleAffordable
<1>6. LossBounded' /\ DeepLossStopsBuying' /\ OrdersAreBacked'
  BY <1>2 DEF LossBounded, DeepLossStopsBuying, OrdersAreBacked
<1>7. \A s \in Symbols : OrderOK(orders'[s])
  BY <1>1 DEF OrderOK
<1> QED
  BY <1>5, <1>6, <1>7 DEF Safe

(* The orders that a cycle submits.                                         *)
LEMMA SubmitsKeeps ==
  ASSUME States, NEW o, Submits(o), Cost(o) \in Nat
  PROVE  /\ States' /\ orders' = o
         /\ NetAsset(book') = NetAsset(book) /\ book'.cash = book.cash
         /\ book'.reserved = book.reserved + Cost(o)
         /\ regime' = regime
         /\ UNCHANGED <<evidence, receipts, now>>
<1>1. /\ orders' = o /\ book' = [book EXCEPT !.reserved = @ + Cost(o)] /\ news' = 0
      /\ UNCHANGED <<now, evidence, receipts, feed, breadth, fitted, held>>
  BY DEF Submits, inputs
<1>2. book \in Portfolios
  BY DEF States
<1>3. /\ book' \in Portfolios /\ book'.cash = book.cash /\ book'.value = book.value
      /\ book'.reserved = book.reserved + Cost(o)
  BY <1>1, <1>2 DEF Portfolios
<1>4. NetAsset(book') = NetAsset(book)
  BY <1>3 DEF NetAsset
<1>5. regime' = regime
  BY <1>1 DEF regime
<1>6. news' \in 0..MaxNews
  <2>1. MaxNews \in Nat
    BY DecisionsAssumption
  <2> QED
    BY <1>1, <2>1
<1>7. States'
  BY <1>1, <1>3, <1>6 DEF States
<1> QED
  BY <1>1, <1>3, <1>4, <1>5, <1>7

LEMMA EnterIsSafe ==
  ASSUME States, Enter
  PROVE  States' /\ Safe'
<1>1. Chosen(orders') /\ Submits(orders')
  BY EnterChooses
<1>2. Cost(orders') \in Nat /\ Cost(orders') <= book.cash
  BY <1>1, CostFacts
<1>3. /\ States' /\ NetAsset(book') = NetAsset(book) /\ book'.cash = book.cash
      /\ book'.reserved = book.reserved + Cost(orders')
      /\ regime' = regime /\ UNCHANGED <<evidence, receipts, now>>
  BY <1>1, <1>2, SubmitsKeeps
<1>4. \A s \in Symbols :
        orders'[s] = NoOrder \/ (Sized(orders'[s]) /\ Bounded(orders'[s]) /\ Backed(s))
  BY <1>1 DEF Chosen
<1>5. \A s \in Symbols : OrderOK(orders'[s])
  BY <1>4 DEF OrderOK, Sized
<1>6. \A s \in Submitted(orders') : Sized(orders'[s]) /\ Bounded(orders'[s]) /\ Backed(s)
  BY <1>4, NoOrderNone DEF Submitted
<1>7. LossBounded'
  <2>1. \A s \in Submitted(orders') : Bounded(orders'[s])
    BY <1>6
  <2> QED
    BY <1>3, <2>1 DEF LossBounded, Bounded, StoppedLoss
<1>8. OneCycleAffordable'
  <2>1. Cost(orders') <= book'.cash
    BY <1>2, <1>3
  <2>2. Pending' = book.reserved
    <3>1. book.reserved \in Nat
      BY DEF States, Portfolios
    <3>2. book'.reserved - Cost(orders') = book.reserved
      BY <1>2, <1>3, <3>1
    <3> QED
      BY <3>2 DEF Pending
  <2>3. \A s \in Submitted(orders') :
          Pending' + WithFee(orders'[s].quantity * orders'[s].price) <= book'.cash
    BY <1>3, <1>6, <2>2 DEF Sized
  <2> QED
    BY <2>1, <2>3 DEF OneCycleAffordable
<1>9. DeepLossStopsBuying'
  <2> SUFFICES ASSUME 25 * NetAsset(book') <= 23 * InitialCash
               PROVE  Submitted(orders') = {}
    BY DEF DeepLossStopsBuying
  <2>1. Lost(book, 8)
    <3>1. book \in Portfolios /\ 25 * NetAsset(book) <= 23 * InitialCash
      BY <1>3 DEF States
    <3> QED
      BY <3>1, DeepLossIsLost
  <2>2. \A s \in Submitted(orders') : ~Lost(book, 8)
    BY <1>6 DEF Sized
  <2> QED
    BY <2>1, <2>2
<1>10. OrdersAreBacked'
  <2>1. \A s \in Submitted(orders') : Backed(s)
    BY <1>6
  <2> QED
    BY <1>3, <2>1 DEF OrdersAreBacked, Backed
<1> QED
  BY <1>3, <1>5, <1>7, <1>8, <1>9, <1>10 DEF Safe

LEMMA BooksAre == Books \subseteq Portfolios
  BY DecisionsAssumption DEF Portfolios

LEMMA BlockedIsSafe ==
  ASSUME States, Blocked
  PROVE  States' /\ Safe'
<1>1. Submits(None)
  BY DEF Blocked
<1>2. Chosen(None)
  <2>1. \A s \in Symbols : None[s] = NoOrder
    BY DEF None
  <2>2. Cardinality({}) <= MaxPerCycle
    <3>1. Cardinality({}) = 0
      BY FS_EmptySet
    <3>2. MaxPerCycle \in Nat
      BY DecisionsAssumption
    <3> QED
      BY <3>1, <3>2
  <2> QED
    BY <2>1, <2>2 DEF Chosen
<1>3. Cost(None) \in Nat
  BY <1>2, CostFacts
<1>4. States' /\ orders' = None
  BY <1>1, <1>3, SubmitsKeeps
<1>5. book' \in Portfolios
  BY <1>4 DEF States
<1> QED
  BY <1>4, <1>5, QuietIsSafe

(* Every other step leaves no orders, and a state between cycles.           *)
LEMMA LearnTyped ==
  ASSUME States, NEW s \in Symbols, Learn(s)
  PROVE  States' /\ orders' = None
<1>0. PICK field \in DOMAIN News :
        \E value \in News[field] : evidence' = [evidence EXCEPT ![s][field] = value]
  BY DEF Learn
<1>1. PICK value \in News[field] : evidence' = [evidence EXCEPT ![s][field] = value]
  BY <1>0
<1>2. /\ news > 0 /\ news' = news - 1 /\ orders' = None
      /\ UNCHANGED <<now, receipts, feed, breadth, fitted, book, held>>
  BY DEF Learn, Hears
<1>3. field \in Fields /\ value \in Values(field)
  <2>1. field \in Fields
    BY EvidenceAssumption
  <2> QED
    BY <2>1 DEF Values
<1>4. DOMAIN evidence = Symbols /\ \A t \in Symbols : Typed(evidence[t])
  BY DEF States
<1>5. DOMAIN evidence' = Symbols
  BY <1>1, <1>4
<1>6. ASSUME NEW t \in Symbols
      PROVE  Typed(evidence'[t])
  <2>1. CASE t # s
    <3>1. evidence'[t] = evidence[t]
      BY <2>1, <1>1, <1>4
    <3> QED
      BY <3>1, <1>4
  <2>2. CASE t = s
    <3>1. evidence'[t] = [evidence[s] EXCEPT ![field] = value]
      BY <2>2, <1>1, <1>4
    <3>2. DOMAIN evidence[s] = Fields /\ \A f \in Fields : evidence[s][f] \in Values(f)
      BY <1>4 DEF Typed
    <3>3. DOMAIN evidence'[t] = Fields
      BY <3>1, <3>2
    <3>4. \A f \in Fields : evidence'[t][f] \in Values(f)
      BY <3>1, <3>2, <1>3
    <3> QED
      BY <3>3, <3>4 DEF Typed
  <2> QED
    BY <2>1, <2>2
<1>7. news' \in 0..MaxNews
  BY <1>2, DecisionsAssumption DEF States
<1> QED
  BY <1>2, <1>5, <1>6, <1>7 DEF States

LEMMA ReceiptsTyped ==
  ASSUME States, NEW src \in Sources, Receive(src) \/ Fail(src)
  PROVE  States' /\ orders' = None
<1>1. /\ news > 0 /\ news' = news - 1 /\ orders' = None
      /\ UNCHANGED <<now, evidence, feed, breadth, fitted, book, held>>
  BY DEF Receive, Fail, Hears
<1>2. receipts \in [Sources -> [healthy : BOOLEAN, at : 0..now]] /\ now \in 0..now
  BY DEF States
<1>3. receipts' \in [Sources -> [healthy : BOOLEAN, at : 0..now]]
  <2>1. CASE Receive(src)
    <3>1. receipts' = [receipts EXCEPT ![src] = [healthy |-> TRUE, at |-> now]]
      BY <2>1 DEF Receive
    <3> QED
      BY <3>1, <1>2
  <2>2. CASE Fail(src)
    <3>1. receipts' = [receipts EXCEPT ![src].healthy = FALSE]
      BY <2>2 DEF Fail
    <3> QED
      BY <3>1, <1>2
  <2> QED
    BY <2>1, <2>2
<1>4. news' \in 0..MaxNews
  BY <1>1, DecisionsAssumption DEF States
<1> QED
  BY <1>1, <1>3, <1>4 DEF States

LEMMA MarketTyped ==
  ASSUME States, FeedChanges \/ MarketMoves \/ Recalibrate
  PROVE  States' /\ orders' = None
<1>1. /\ news > 0 /\ news' = news - 1 /\ orders' = None
      /\ UNCHANGED <<now, evidence, receipts, book, held>>
  BY DEF FeedChanges, MarketMoves, Recalibrate, Hears
<1>2. breadth' \in Breadths
  BY DEF FeedChanges, MarketMoves, Recalibrate, States
<1>3. fitted' \in BOOLEAN
  BY DEF FeedChanges, MarketMoves, Recalibrate, States
<1>4. news' \in 0..MaxNews
  BY <1>1, DecisionsAssumption DEF States
<1> QED
  BY <1>1, <1>2, <1>3, <1>4 DEF States

LEMMA PortfolioTyped ==
  ASSUME States, Reshape \/ Settle
  PROVE  States' /\ orders' = None
<1>1. /\ orders' = None /\ book' \in Portfolios
      /\ UNCHANGED <<now, evidence, receipts, feed, breadth, fitted>>
  BY BooksAre DEF Reshape, Settle, Hears, inputs
<1>2. held' \in SUBSET Symbols
  BY DEF Reshape, Settle, inputs, States
<1>3. news' \in 0..MaxNews
  BY DecisionsAssumption DEF Reshape, Settle, Hears, States
<1> QED
  BY <1>1, <1>2, <1>3 DEF States

LEMMA TickTyped ==
  ASSUME States, Tick
  PROVE  States' /\ orders' = None
<1>1. /\ now < MaxDays /\ now' = now + 1 /\ orders' = None
      /\ UNCHANGED <<evidence, receipts, feed, breadth, fitted, book, held, news>>
  BY DEF Tick
<1>2. now \in 0..MaxDays /\ now' \in 0..MaxDays /\ 0..now \subseteq 0..now'
  BY <1>1, DecisionsAssumption DEF States
<1>3. receipts' \in [Sources -> [healthy : BOOLEAN, at : 0..now']]
  BY <1>1, <1>2 DEF States
<1> QED
  BY <1>1, <1>2, <1>3 DEF States

-----------------------------------------------------------------------------
(* The theorems. *)

LEMMA CycleInit == Init => CycleInv
<1> SUFFICES ASSUME Init PROVE CycleInv
  OBVIOUS
<1>1. /\ now = 0 /\ evidence \in [Symbols -> Profiles] /\ breadth \in Breadths /\ fitted = TRUE
      /\ receipts = [s \in Sources |-> [healthy |-> TRUE, at |-> 0]]
      /\ book \in Books /\ held = {} /\ orders = None /\ news = MaxNews
  BY DEF Init
<1>2. MaxDays \in Nat /\ MaxNews \in Nat
  BY DecisionsAssumption
<1>3. book \in Portfolios
  BY <1>1, BooksAre
<1>4. \A s \in Symbols : Typed(evidence[s])
  <2> SUFFICES ASSUME NEW s \in Symbols PROVE Typed(evidence[s])
    OBVIOUS
  <2>1. evidence[s] \in Profiles
    BY <1>1
  <2>2. DOMAIN evidence[s] = Fields
    BY <2>1, EvidenceAssumption
  <2>3. \A field \in Fields : evidence[s][field] \in Values(field)
    BY <2>1 DEF Values
  <2> QED
    BY <2>2, <2>3 DEF Typed
<1>5. States
  BY <1>1, <1>2, <1>3, <1>4 DEF States
<1>6. Submitted(orders) = {} /\ \A s \in Symbols : orders[s] = NoOrder
  BY <1>1, NoOrderNone DEF None, Submitted
<1>7. Cost(orders) = 0
  <2> DEFINE f == [s \in Submitted(orders) |-> WithFee(orders[s].quantity * orders[s].price)]
  <2>1. DOMAIN f = {}
    BY <1>6
  <2>2. SumFunction(f) = 0
    <3> HIDE DEF f
    <3> QED
      BY <2>1, NoRows
  <2> QED
    BY <2>2 DEF Cost
<1>8. book.cash \in Nat
  BY <1>3 DEF Portfolios
<1>9. Safe
  BY <1>6, <1>7, <1>8
     DEF Safe, OrderOK, LossBounded, OneCycleAffordable, DeepLossStopsBuying,
         OrdersAreBacked
<1> QED
  BY <1>5, <1>9 DEF CycleInv

LEMMA CycleNext == CycleInv /\ [Next]_vars => CycleInv'
<1> SUFFICES ASSUME CycleInv, [Next]_vars PROVE CycleInv'
  OBVIOUS
<1>1. States /\ Safe
  BY DEF CycleInv
<1>2. ASSUME States', orders' = None
      PROVE  CycleInv'
  <2>1. book' \in Portfolios
    BY <1>2 DEF States
  <2> QED
    BY <1>2, <2>1, QuietIsSafe DEF CycleInv
<1>3. CASE Enter
  BY <1>1, <1>3, EnterIsSafe DEF CycleInv
<1>4. CASE Blocked
  BY <1>1, <1>4, BlockedIsSafe DEF CycleInv
<1>5. ASSUME NEW s \in Symbols, Learn(s) PROVE CycleInv'
  BY <1>1, <1>2, <1>5, LearnTyped
<1>6. ASSUME NEW src \in Sources, Receive(src) \/ Fail(src) PROVE CycleInv'
  BY <1>1, <1>2, <1>6, ReceiptsTyped
<1>7. CASE FeedChanges \/ MarketMoves \/ Recalibrate
  BY <1>1, <1>2, <1>7, MarketTyped
<1>8. CASE Reshape \/ Settle
  BY <1>1, <1>2, <1>8, PortfolioTyped
<1>9. CASE Tick
  BY <1>1, <1>2, <1>9, TickTyped
<1>10. CASE UNCHANGED vars
  <2>1. UNCHANGED <<now, evidence, receipts, feed, breadth, fitted, held, book, orders, news>>
    BY <1>10 DEF vars, inputs
  <2>2. States'
    BY <1>1, <2>1 DEF States
  <2>3. regime' = regime
    BY <2>1 DEF regime
  <2>4. Safe'
    BY <1>1, <2>1, <2>3
       DEF Safe, LossBounded, OneCycleAffordable, Pending, DeepLossStopsBuying, OrdersAreBacked
  <2> QED
    BY <2>2, <2>4 DEF CycleInv
<1> QED
  BY <1>3, <1>4, <1>5, <1>6, <1>7, <1>8, <1>9, <1>10 DEF Next

LEMMA CycleInvariant == Spec => []CycleInv
  BY CycleInit, CycleNext, PTL DEF Spec

(* Whatever the evidence, scores and chances stay in their ranges, a grade  *)
(* above C is a published signal and the other way round, and deep in a     *)
(* loss nothing is bought (services/scorer/ensemble.py:63-152,              *)
(* services/paper_broker/sizing.py:105-117).                                *)
THEOREM DecisionsSound == Spec => []DecisionsInv
<1>1. CycleInv => DecisionsInv
  <2> SUFFICES ASSUME CycleInv PROVE DecisionsInv
    OBVIOUS
  <2>1. States /\ Safe
    BY DEF CycleInv
  <2>2. \A s \in Considered, rank \in 0..100 : SignalAt(s, rank).score \in Tenths
    BY <2>1, ScoresAreSound
  <2>3. \A s \in Considered : ProfitChance(Chorus(evidence[s], regime), fitted) \in 0..100
    BY <2>1, ScoresAreSound
  <2>4. \A s \in Considered, rank \in 0..100 :
          SignalAt(s, rank).actionable <=> SignalAt(s, rank).grade # "C"
    BY <2>1, ScoresAreSound
  <2>5. 100 \in 0..100 /\ 50 \in 0..100
    OBVIOUS
  <2>6. GradeTellsTruth
    BY <2>4, <2>5 DEF GradeTellsTruth
  <2>7. \A s \in Sources : receipts[s].at \in 0..now
    BY <2>1 DEF States
  <2>8. book.reserved \in Nat
    BY <2>1 DEF States, Portfolios
  <2>9. \A s \in Considered : SignalAt(s, 100).score \in Tenths
    BY <2>2, <2>5
  <2>10. /\ now \in 0..MaxDays /\ breadth \in Breadths /\ fitted \in BOOLEAN
         /\ held \in SUBSET Symbols /\ news \in 0..MaxNews
         /\ \A s \in Symbols : OrderOK(orders[s])
    BY <2>1 DEF States, Safe
  <2>11. DecisionsTypeOK
    BY <2>3, <2>7, <2>8, <2>9, <2>10, Zenon DEF DecisionsTypeOK
  <2> QED
    BY <2>1, <2>6, <2>11 DEF DecisionsInv, Safe
<1> QED
  BY <1>1, CycleInvariant, PTL

(* A trade that is stopped loses at most the risk budget of its regime and  *)
(* the part of the stop distance it was allowed to chase                    *)
(* (services/paper_broker/sizing.py:119-185).                               *)
THEOREM LossesBounded == Spec => []LossBounded
<1>1. CycleInv => LossBounded
  BY DEF CycleInv, Safe
<1> QED
  BY <1>1, CycleInvariant, PTL

(* The orders of a cycle, each sized as if it were the only one, can all be *)
(* paid, and any one of them also after the purchases that were pending     *)
(* when the cycle began (services/paper_broker/sizing.py:162-183,           *)
(* ledger.py:135-142).                                                      *)
THEOREM CyclesAffordable == Spec => []OneCycleAffordable
<1>1. CycleInv => OneCycleAffordable
  BY DEF CycleInv, Safe
<1> QED
  BY <1>1, CycleInvariant, PTL

(* An ordered symbol rests on deliveries of two upstream families and of    *)
(* the disclosure source, within the life of a receipt                      *)
(* (services/data_validator/quality.py:35-54, fundamental_gate.py:49-62).   *)
THEOREM OrdersBacked == Spec => []OrdersAreBacked
<1>1. CycleInv => OrdersAreBacked
  BY DEF CycleInv, Safe
<1> QED
  BY <1>1, CycleInvariant, PTL

-----------------------------------------------------------------------------
(* Better evidence. *)

(* What the strategies, the price limits and the size of the sample read:   *)
(* none of it is a fact that evidence improves by.                          *)
Prints  == {"close", "ema20", "bars", "lo", "hi", "hasSnapshot", "sources"}
Returns == {"ret1", "ret3", "ret5", "ret20", "ret60", "toHigh", "volZ", "volRatio"}
Flows   == {"power", "inflow", "streak", "mfi", "rsi", "obvUp", "macdUp"}
Trends  == {"emaScore", "squeeze", "supertrendUp", "aboveCloud", "tenkanOver", "adx", "channel",
            "leading"}

Alike(e, b) == \A field \in Prints \cup Returns \cup Flows \cup Trends : b[field] = e[field]

(* The other facts, as the gates and the scores read them.                  *)
NoWorse(e, b) ==
  /\ e.score <= b.score /\ e.piotroski <= b.piotroski /\ e.growth <= b.growth
  /\ e.liquidity <= b.liquidity /\ e.asOf <= b.asOf
  /\ e.valid <= b.valid /\ e.covered <= b.covered
  /\ e.debt \in 0..25 => b.debt \in 0..25
  /\ e.filing = "fine" => b.filing = "fine"

LEMMA TypedIsWhole ==
  ASSUME NEW e, Typed(e)
  PROVE  /\ e.piotroski \in Int /\ e.growth \in Int /\ e.liquidity \in Int
         /\ e.asOf \in Int /\ e.debt \in Int
<1>1. \A field \in Fields : e[field] \in Values(field)
  BY DEF Typed
<1>2. Whole \subseteq Fields
  BY DEF Fields
<1>3. \A field \in Whole : e[field] \in Int
  BY <1>1, <1>2, EvidenceAssumption
<1>4. /\ "piotroski" \in Whole /\ "growth" \in Whole /\ "liquidity" \in Whole
      /\ "asOf" \in Whole /\ "debt" \in Whole
  BY DEF Whole
<1> QED
  BY <1>3, <1>4

(* Improved evidence is alike, and no worse.                                *)
LEMMA ImprovedIsAlike ==
  ASSUME NEW e, NEW b, Typed(e), Typed(b), Improves(e, b)
  PROVE  Alike(e, b) /\ NoWorse(e, b)
<1> DEFINE Facts == {"score", "piotroski", "growth", "liquidity", "valid", "covered", "asOf",
                     "debt", "filing"}
           Read == Prints \cup Returns \cup Flows \cup Trends
<1>1. DOMAIN e = Fields /\ DOMAIN b = Fields
  BY DEF Typed
<1>2. PICK field \in Facts :
        /\ b = [e EXCEPT ![field] = b[field]]
        /\ \/ field \in {"score", "piotroski", "growth", "liquidity", "valid", "covered", "asOf"}
                /\ b[field] > e[field]
           \/ field = "debt" /\ b.debt \in 0..(e.debt - 1)
           \/ field = "filing" /\ b.filing = "fine"
  <2>1. CASE \E field \in {"score", "piotroski", "growth", "liquidity", "valid", "covered", "asOf"} :
               b = [e EXCEPT ![field] = b[field]] /\ b[field] > e[field]
    BY <2>1
  <2>2. CASE b = [e EXCEPT !.debt = b.debt] /\ b.debt \in 0..(e.debt - 1)
    <3>1. "debt" \in Facts
      OBVIOUS
    <3> QED
      BY <2>2, <3>1
  <2>3. CASE b = [e EXCEPT !.filing = "fine"]
    <3>1. "filing" \in Facts /\ "filing" \in Fields
      BY DEF Fields
    <3>2. b["filing"] = "fine"
      BY <1>1, <2>3, <3>1
    <3> QED
      BY <2>3, <3>1, <3>2
  <2> QED
    BY <2>1, <2>2, <2>3 DEF Improves
<1>3. ASSUME NEW other \in Fields, other # field
      PROVE  b[other] = e[other]
  BY <1>1, <1>2, <1>3
<1>4. Alike(e, b)
  <2>1. Prints \subseteq Fields /\ Returns \subseteq Fields
    BY DEF Prints, Returns, Fields, Prices, Counts, Whole
  <2>2. Flows \subseteq Fields /\ Trends \subseteq Fields
    BY DEF Flows, Trends, Fields, Prices, Counts, Whole
  <2>3. Read \cap Facts = {}
    <3>1. Prints \cap Facts = {} /\ Returns \cap Facts = {}
      BY DEF Prints, Returns
    <3>2. Flows \cap Facts = {} /\ Trends \cap Facts = {}
      BY DEF Flows, Trends
    <3> QED
      BY <3>1, <3>2
  <2> HIDE DEF Facts
  <2>4. \A other \in Read : other \in Fields /\ other # field
    BY <2>1, <2>2, <2>3
  <2> HIDE DEF Read
  <2>5. \A other \in Read : b[other] = e[other]
    BY <2>4, <1>3
  <2> QED
    BY <2>5 DEF Alike, Read
<1>5. NoWorse(e, b)
  <2>1. \A fact \in Facts : fact \in Fields
    BY DEF Fields, Counts, Whole
  <2>2. /\ e.score \in Int /\ e.piotroski \in Int /\ e.growth \in Int /\ e.liquidity \in Int
        /\ e.asOf \in Int /\ e.valid \in Int /\ e.covered \in Int /\ e.debt \in Int
    BY TypedIsWhole, TypedIsMeasured DEF Measured
  <2>3. \A fact \in Facts : fact # field => b[fact] = e[fact]
    <3> HIDE DEF Facts
    <3> QED
      BY <1>3, <2>1
  <2>4. /\ "score" # field => b.score = e.score
        /\ "piotroski" # field => b.piotroski = e.piotroski
        /\ "growth" # field => b.growth = e.growth
        /\ "liquidity" # field => b.liquidity = e.liquidity
        /\ "asOf" # field => b.asOf = e.asOf
        /\ "valid" # field => b.valid = e.valid
        /\ "covered" # field => b.covered = e.covered
        /\ "debt" # field => b.debt = e.debt
        /\ "filing" # field => b.filing = e.filing
    BY <2>3
  <2>5. CASE field \in {"score", "piotroski", "growth", "liquidity", "valid", "covered", "asOf"}
             /\ b[field] > e[field]
    <3> DEFINE Grown == {"score", "piotroski", "growth", "liquidity", "valid", "covered", "asOf"}
    <3>1. \A fact \in Grown : fact \in Facts /\ e[fact] \in Int
      BY <2>2
    <3>2. \A fact \in Grown : fact \in Fields /\ e[fact] \in Int
      BY <2>1, <3>1
    <3>3. \A fact \in Grown : b[fact] \in Int
      BY TypedIsWhole, TypedIsMeasured DEF Measured
    <3>4. \A fact \in Grown : e[fact] <= b[fact]
      <4> SUFFICES ASSUME NEW fact \in Grown PROVE e[fact] <= b[fact]
        OBVIOUS
      <4> HIDE DEF Grown, Facts
      <4>1. CASE fact = field
        BY <4>1, <2>5, <3>2, <3>3
      <4>2. CASE fact # field
        BY <4>2, <2>3, <3>1
      <4> QED
        BY <4>1, <4>2
    <3>5. "debt" # field /\ "filing" # field
      BY <2>5
    <3>6. b.debt = e.debt /\ b.filing = e.filing
      BY <2>4, <3>5
    <3>7. /\ e.score <= b.score /\ e.piotroski <= b.piotroski /\ e.growth <= b.growth
          /\ e.liquidity <= b.liquidity /\ e.asOf <= b.asOf
          /\ e.valid <= b.valid /\ e.covered <= b.covered
      BY <3>4
    <3> QED
      BY <3>6, <3>7 DEF NoWorse
  <2>6. CASE field = "debt" /\ b.debt \in 0..(e.debt - 1)
    BY <2>2, <2>4, <2>6 DEF NoWorse
  <2>7. CASE field = "filing" /\ b.filing = "fine"
    BY <2>2, <2>4, <2>7 DEF NoWorse
  <2> QED
    BY <1>2, <2>5, <2>6, <2>7
<1> QED
  BY <1>4, <1>5

(* The same fields, by their names.                                         *)
LEMMA AlikeFields ==
  ASSUME NEW e, NEW b, Alike(e, b)
  PROVE  /\ b.close = e.close /\ b.ema20 = e.ema20 /\ b.bars = e.bars
         /\ b.lo = e.lo /\ b.hi = e.hi
         /\ b.hasSnapshot = e.hasSnapshot /\ b.sources = e.sources
         /\ b.ret1 = e.ret1 /\ b.ret3 = e.ret3 /\ b.ret5 = e.ret5 /\ b.ret20 = e.ret20
         /\ b.ret60 = e.ret60 /\ b.toHigh = e.toHigh
         /\ b.volZ = e.volZ /\ b.volRatio = e.volRatio
         /\ b.power = e.power /\ b.inflow = e.inflow /\ b.streak = e.streak
         /\ b.mfi = e.mfi /\ b.rsi = e.rsi /\ b.obvUp = e.obvUp /\ b.macdUp = e.macdUp
         /\ b.emaScore = e.emaScore /\ b.squeeze = e.squeeze
         /\ b.supertrendUp = e.supertrendUp /\ b.aboveCloud = e.aboveCloud
         /\ b.tenkanOver = e.tenkanOver /\ b.adx = e.adx /\ b.channel = e.channel
         /\ b.leading = e.leading
<1>1. /\ \A field \in Prints : b[field] = e[field]
      /\ \A field \in Returns : b[field] = e[field]
      /\ \A field \in Flows : b[field] = e[field]
      /\ \A field \in Trends : b[field] = e[field]
  BY DEF Alike
<1>2. /\ b.close = e.close /\ b.ema20 = e.ema20 /\ b.bars = e.bars
      /\ b.lo = e.lo /\ b.hi = e.hi
      /\ b.hasSnapshot = e.hasSnapshot /\ b.sources = e.sources
  BY <1>1 DEF Prints
<1>3. /\ b.ret1 = e.ret1 /\ b.ret3 = e.ret3 /\ b.ret5 = e.ret5 /\ b.ret20 = e.ret20
      /\ b.ret60 = e.ret60 /\ b.toHigh = e.toHigh
      /\ b.volZ = e.volZ /\ b.volRatio = e.volRatio
  BY <1>1 DEF Returns
<1>4. /\ b.power = e.power /\ b.inflow = e.inflow /\ b.streak = e.streak
      /\ b.mfi = e.mfi /\ b.rsi = e.rsi /\ b.obvUp = e.obvUp /\ b.macdUp = e.macdUp
  BY <1>1 DEF Flows
<1>5. /\ b.emaScore = e.emaScore /\ b.squeeze = e.squeeze
      /\ b.supertrendUp = e.supertrendUp /\ b.aboveCloud = e.aboveCloud
      /\ b.tenkanOver = e.tenkanOver /\ b.adx = e.adx /\ b.channel = e.channel
      /\ b.leading = e.leading
  BY <1>1 DEF Trends
<1> QED
  BY <1>2, <1>3, <1>4, <1>5

(* Alike evidence has the same candidates.                                  *)
LEMMA SameConfirmations ==
  ASSUME NEW e, NEW b, Alike(e, b)
  PROVE  Confirmations(b) = Confirmations(e)
<1> DEFINE Says(f) == [ema |-> f.emaScore >= 75,   rsi |-> f.rsi > 50 /\ f.rsi < 70,
                       macd |-> f.macdUp,          supertrend |-> f.supertrendUp,
                       mfi |-> f.mfi > 50,         obv |-> f.obvUp,
                       power |-> f.power > 120,    cloud |-> f.aboveCloud]
<1>1. \A f : Confirmations(f) = Cardinality({i \in DOMAIN Says(f) : Says(f)[i]})
  BY DEF Confirmations
<1>2. /\ b.emaScore = e.emaScore /\ b.rsi = e.rsi /\ b.macdUp = e.macdUp
      /\ b.supertrendUp = e.supertrendUp /\ b.mfi = e.mfi /\ b.obvUp = e.obvUp
      /\ b.power = e.power /\ b.aboveCloud = e.aboveCloud
  BY AlikeFields
<1>3. Says(b) = Says(e)
  BY <1>2
<1> HIDE DEF Says
<1> QED
  BY <1>1, <1>3

LEMMA SameCandidates ==
  ASSUME NEW e, NEW b, Alike(e, b), NEW state
  PROVE  Candidates(b, state) = Candidates(e, state)
<1>1. Momentum(b) = Momentum(e) /\ Trend(b) = Trend(e) /\ Breakout(b) = Breakout(e)
  BY AlikeFields DEF Momentum, Trend, Breakout
<1>2. NearEma(b) = NearEma(e)
  BY AlikeFields DEF NearEma
<1>3. Pullback(b) = Pullback(e)
  BY <1>2, AlikeFields DEF Pullback
<1>4. Reversion(b, state) = Reversion(e, state) /\ VolumeAnomaly(b) = VolumeAnomaly(e)
  BY AlikeFields DEF Reversion, VolumeAnomaly
<1>5. ClientFlow(b) = ClientFlow(e) /\ Ichimoku(b) = Ichimoku(e)
  BY AlikeFields DEF ClientFlow, Ichimoku
<1>6. SectorRotation(b) = SectorRotation(e) /\ Squeeze(b) = Squeeze(e)
  BY AlikeFields DEF SectorRotation, Squeeze
<1>7. Confluence(b) = Confluence(e)
  BY SameConfirmations, AlikeFields DEF Confluence
<1>8. Divergence(b) = Divergence(e)
  BY AlikeFields DEF Divergence
<1> QED
  BY <1>1, <1>3, <1>4, <1>5, <1>6, <1>7, <1>8 DEF Candidates

LEMMA RangesAreInt == (\A x \in Tenths : x \in Int) /\ (\A x \in Hundredths : x \in Int)
<1>1. ASSUME NEW x \in Tenths PROVE x \in Int
  BY <1>1 DEF Tenths
<1>2. ASSUME NEW x \in Hundredths PROVE x \in Int
  BY <1>2 DEF Hundredths
<1> QED
  BY <1>1, <1>2

(* The quality of the history, the confidence and the score do not fall.    *)
LEMMA DivisionGrows ==
  ASSUME NEW a \in Int, NEW b \in Int, a <= b, NEW k \in Nat, k > 0
  PROVE  a \div k <= b \div k
<1>1. /\ a \div k \in Int /\ (a \div k) * k <= a
      /\ b \div k \in Int /\ b < (b \div k) * k + k
  BY DivisionFacts
<1> DEFINE p == a \div k
           q == b \div k
<1>2. p \in Int /\ q \in Int /\ p * k < q * k + k
  <2>1. p * k \in Int /\ q * k \in Int
    BY <1>1
  <2> HIDE DEF p, q
  <2>2. p * k <= a /\ b < q * k + k
    BY <1>1 DEF p, q
  <2> QED
    BY <1>1, <2>1, <2>2 DEF p, q
<1> HIDE DEF p, q
<1>3. p < q + 1
  <2> SUFFICES ASSUME q + 1 <= p PROVE FALSE
    BY <1>2
  <2>1. k * (q + 1) <= k * p
    BY <1>2, TimesKeeps
  <2>2. k * (q + 1) = q * k + k /\ k * p = p * k
    BY <1>2
  <2> QED
    BY <1>2, <2>1, <2>2
<1>4. p <= q
  BY <1>2, <1>3
<1> QED
  BY <1>4 DEF p, q

LEMMA ShareGrows ==
  ASSUME NEW n \in Nat, NEW m \in Nat, n <= m, NEW parts \in Nat, NEW whole \in Nat, whole > 0
  PROVE  /\ (parts * n) \div whole <= (parts * m) \div whole
         /\ (parts * n) \div whole \in Nat /\ (parts * m) \div whole \in Nat
<1>1. parts * n <= parts * m /\ parts * n \in Nat /\ parts * m \in Nat
  BY TimesKeeps
<1> QED
  BY <1>1, DivisionGrows, DivisionNat

LEMMA QualityGrows ==
  ASSUME NEW e, NEW b, Measured(e), Measured(b), Alike(e, b), NoWorse(e, b)
  PROVE  Quality(e) <= Quality(b)
<1> DEFINE first == (500 * Min({e.bars, MinHistory})) \div MinHistory
           validOf(f) == (300 * f.valid) \div e.bars
           coveredOf(f) == (200 * f.covered) \div e.bars
<1>1. /\ e.bars \in Nat /\ e.valid \in Nat /\ e.covered \in Nat
      /\ b.valid \in Nat /\ b.covered \in Nat
  BY DEF Measured
<1>2. e.valid <= b.valid /\ e.covered <= b.covered
  BY DEF NoWorse
<1>3. b.bars = e.bars
  BY AlikeFields
<1>4. /\ Quality(e) = IF e.bars = 0 THEN 0 ELSE first + validOf(e) + coveredOf(e)
      /\ Quality(b) = IF e.bars = 0 THEN 0 ELSE first + validOf(b) + coveredOf(b)
  BY <1>3 DEF Quality
<1>5. ASSUME e.bars > 0
      PROVE  first + validOf(e) + coveredOf(e) <= first + validOf(b) + coveredOf(b)
  <2>1. validOf(e) <= validOf(b) /\ validOf(e) \in Nat /\ validOf(b) \in Nat
    <3> DEFINE parts == 300
    <3>1. parts \in Nat
      OBVIOUS
    <3> HIDE DEF parts
    <3>2. /\ (parts * e.valid) \div e.bars <= (parts * b.valid) \div e.bars
          /\ (parts * e.valid) \div e.bars \in Nat /\ (parts * b.valid) \div e.bars \in Nat
      BY <1>1, <1>2, <1>5, <3>1, ShareGrows
    <3> QED
      BY <3>2 DEF parts
  <2>2. coveredOf(e) <= coveredOf(b) /\ coveredOf(e) \in Nat /\ coveredOf(b) \in Nat
    <3> DEFINE parts == 200
    <3>1. parts \in Nat
      OBVIOUS
    <3> HIDE DEF parts
    <3>2. /\ (parts * e.covered) \div e.bars <= (parts * b.covered) \div e.bars
          /\ (parts * e.covered) \div e.bars \in Nat /\ (parts * b.covered) \div e.bars \in Nat
      BY <1>1, <1>2, <1>5, <3>1, ShareGrows
    <3> QED
      BY <3>2 DEF parts
  <2>3. first \in Int
    <3>1. MinHistory \in Nat /\ MinHistory > 0
      BY GatesAssumption
    <3>2. Min({e.bars, MinHistory}) \in Int
      <4>1. Min({e.bars, MinHistory}) = IF e.bars <= MinHistory THEN e.bars ELSE MinHistory
        BY <1>1, <3>1, MinOfTwo
      <4> QED
        BY <1>1, <3>1, <4>1
    <3>3. 500 * Min({e.bars, MinHistory}) \in Int
      BY <3>2
    <3> QED
      BY <3>1, <3>3, DivisionFacts
  <2> HIDE DEF first, validOf, coveredOf
  <2> QED
    BY <2>1, <2>2, <2>3
<1>6. Quality(e) \in Int /\ Quality(b) \in Int
  BY QualityIs
<1> HIDE DEF first, validOf, coveredOf
<1> QED
  BY <1>1, <1>4, <1>5, <1>6

LEMMA SameChorus ==
  ASSUME NEW e, NEW b, Alike(e, b), NEW state
  PROVE  Chorus(b, state) = Chorus(e, state)
<1>1. Candidates(b, state) = Candidates(e, state)
  BY SameCandidates
<1> QED
  BY <1>1, Zenon DEF Chorus

LEMMA SameSupport ==
  ASSUME NEW e, NEW b, Alike(e, b)
  PROVE  SampleSupport(b) = SampleSupport(e)
  BY AlikeFields DEF SampleSupport

LEMMA SameLimits ==
  ASSUME NEW e, NEW b, Alike(e, b)
  PROVE  /\ AtUpperLimit(b) = AtUpperLimit(e) /\ AtLowerLimit(b) = AtLowerLimit(e)
         /\ FillScore(b) = FillScore(e)
<1>1. AtUpperLimit(b) = AtUpperLimit(e)
  BY AlikeFields DEF AtUpperLimit
<1>2. AtLowerLimit(b) = AtLowerLimit(e)
  BY <1>1, AlikeFields DEF AtLowerLimit
<1> QED
  BY <1>1, <1>2 DEF FillScore

LEMMA ConfidenceGrows ==
  ASSUME NEW e, NEW b, Measured(e), Measured(b), Alike(e, b), NoWorse(e, b), NEW state
  PROVE  Confidence(e, Chorus(e, state), state) <= Confidence(b, Chorus(b, state), state)
<1> DEFINE c == Chorus(e, state)
           support == SampleSupport(e)
           families == Cardinality(c.families)
           some == Min({3, families})
           factor == RegimeFactor(state)
           all(q) == 25 * support + (5 * q) \div 2 + 1000 * some + 20 * factor
           qe == Quality(e)
           qb == Quality(b)
<1>1. qe \in Nat /\ qb \in Nat /\ qe <= qb
  BY QualityIs, QualityGrows
<1>2. support \in Nat
  BY SupportIs
<1>3. some \in Nat
  <2>1. families \in Nat
    BY ChorusFacts
  <2> HIDE DEF families
  <2>2. Min({3, families}) = IF 3 <= families THEN 3 ELSE families
    BY <2>1, MinOfTwo
  <2> QED
    BY <2>1, <2>2
<1>4. factor \in Nat
  BY FactorIs
<1>5. /\ Confidence(e, c, state) = Min({10000, all(qe)})
      /\ Confidence(b, c, state) = Min({10000, all(qb)})
  <2>1. SampleSupport(b) = support
    BY SameSupport
  <2>2. Confidence(e, c, state) = Min({10000, all(qe)})
    BY DEF Confidence
  <2>3. Confidence(b, c, state) = Min({10000, all(qb)})
    BY <2>1 DEF Confidence
  <2> QED
    BY <2>2, <2>3
<1>6. /\ (5 * qe) \div 2 <= (5 * qb) \div 2
      /\ (5 * qe) \div 2 \in Int /\ (5 * qb) \div 2 \in Int
  <2> HIDE DEF qe, qb
  <2>1. 5 * qe \in Int /\ 5 * qb \in Int /\ 5 * qe <= 5 * qb /\ 2 \in Nat /\ 2 > 0
    BY <1>1
  <2> QED
    BY <2>1, DivisionGrows, DivisionFacts
<1>7. all(qe) \in Int /\ all(qb) \in Int /\ all(qe) <= all(qb)
  <2> HIDE DEF qe, qb, support, some, factor
  <2> QED
    BY <1>2, <1>3, <1>4, <1>6
<1>8. Chorus(b, state) = c
  BY SameChorus
<1>9. Min({10000, all(qe)}) <= Min({10000, all(qb)})
  <2> DEFINE x == all(qe)
             y == all(qb)
             most == 10000
  <2>1. x \in Int /\ y \in Int /\ x <= y /\ most \in Int
    BY <1>7
  <2> HIDE DEF x, y, most
  <2>2. /\ Min({most, x}) = IF most <= x THEN most ELSE x
        /\ Min({most, y}) = IF most <= y THEN most ELSE y
    BY <2>1, MinOfTwo
  <2>3. Min({most, x}) <= Min({most, y})
    BY <2>1, <2>2
  <2> QED
    BY <2>3 DEF x, y, most
<1> HIDE DEF all
<1> QED
  BY <1>5, <1>8, <1>9

LEMMA ScoreGrows ==
  ASSUME NEW e, NEW b, Measured(e), Measured(b), Alike(e, b), NoWorse(e, b), NEW state,
         NEW passed, NEW f, NEW rank \in 0..100
  PROVE  Opportunity(e, Chorus(e, state), state, passed, f, rank)
           <= Opportunity(b, Chorus(b, state), state, passed, f, rank)
<1> DEFINE c == Chorus(e, state)
           chance == ProfitChance(c, f)
           gain == Max({0, chance - 50})
           trust(x) == Confidence(x, c, state)
           fill == FillScore(e)
           factor == RegimeFactor(state)
           sum(x) == 30 * rank + 40 * gain + (15 * trust(x)) \div 100 + 15 * fill
                       + 10 * factor + 10 * FundamentalScore(x)
           kept == IF RiskFlagged(e, c, passed, f) THEN 90 ELSE 100
<1>1. Chorus(b, state) = c
  BY SameChorus
<1>2. RiskFlagged(b, c, passed, f) = RiskFlagged(e, c, passed, f)
  BY SameLimits DEF RiskFlagged
<1>3. FillScore(b) = fill
  BY SameLimits
<1>4. /\ Opportunity(e, c, state, passed, f, rank) = ((sum(e) * kept) \div 100 + 5) \div 10
      /\ Opportunity(b, c, state, passed, f, rank) = ((sum(b) * kept) \div 100 + 5) \div 10
  BY <1>2, <1>3 DEF Opportunity
<1>5. gain \in Int
  <2>1. chance \in 0..100
    BY ChanceIs
  <2> HIDE DEF chance
  <2>2. chance - 50 \in Int
    BY <2>1
  <2>3. gain = IF 0 >= chance - 50 THEN 0 ELSE chance - 50
    BY <2>2, MaxOfTwo
  <2> QED
    BY <2>2, <2>3
<1>6. fill \in Int /\ factor \in Int /\ kept \in Nat
  <2>1. fill \in {65, 85, 90}
    BY DEF FillScore
  <2>2. factor \in {40, 70, 90}
    BY FactorIs
  <2> HIDE DEF fill, factor
  <2> QED
    BY <2>1, <2>2
<1>7. trust(e) \in Int /\ trust(b) \in Int /\ trust(e) <= trust(b)
  <2>1. trust(e) <= trust(b)
    BY <1>1, ConfidenceGrows
  <2>2. trust(e) \in Hundredths /\ trust(b) \in Hundredths
    BY <1>1, ConfidenceIs
  <2> HIDE DEF trust
  <2> QED
    BY <2>1, <2>2, RangesAreInt
<1>8. /\ FundamentalScore(e) \in Int /\ FundamentalScore(b) \in Int
      /\ FundamentalScore(e) <= FundamentalScore(b)
  <2>1. b.hasSnapshot = e.hasSnapshot
    BY AlikeFields
  <2> QED
    BY <2>1 DEF FundamentalScore, Measured, NoWorse
<1>9. sum(e) \in Int /\ sum(b) \in Int /\ sum(e) <= sum(b)
  <2> HIDE DEF gain, trust, fill, factor
  <2>1. /\ 15 * trust(e) \in Int /\ 15 * trust(b) \in Int /\ 15 * trust(e) <= 15 * trust(b)
        /\ 100 \in Nat /\ 100 > 0
    BY <1>7
  <2>2. /\ (15 * trust(e)) \div 100 <= (15 * trust(b)) \div 100
        /\ (15 * trust(e)) \div 100 \in Int /\ (15 * trust(b)) \div 100 \in Int
    BY <2>1, DivisionGrows, DivisionFacts
  <2> QED
    BY <1>5, <1>6, <1>8, <2>2
<1>10. ((sum(e) * kept) \div 100 + 5) \div 10 <= ((sum(b) * kept) \div 100 + 5) \div 10
  <2> HIDE DEF sum, kept
  <2>1. /\ sum(e) * kept \in Int /\ sum(b) * kept \in Int /\ sum(e) * kept <= sum(b) * kept
        /\ 100 \in Nat /\ 100 > 0 /\ 10 \in Nat /\ 10 > 0
    <3>1. kept * sum(e) <= kept * sum(b)
      BY <1>6, <1>9, TimesKeeps
    <3> QED
      BY <1>6, <1>9, <3>1
  <2> DEFINE p == (sum(e) * kept) \div 100
             q == (sum(b) * kept) \div 100
  <2>2. p <= q /\ p \in Int /\ q \in Int
    BY <2>1, DivisionGrows, DivisionFacts
  <2> HIDE DEF p, q
  <2>3. p + 5 <= q + 5 /\ p + 5 \in Int /\ q + 5 \in Int
    BY <2>2
  <2>4. (p + 5) \div 10 <= (q + 5) \div 10
    BY <2>1, <2>3, DivisionGrows
  <2> QED
    BY <2>4 DEF p, q
<1> HIDE DEF sum, kept
<1> QED
  BY <1>1, <1>4, <1>10

(* No gate closes on better evidence.                                       *)
LEMMA GateStaysOpen ==
  ASSUME NEW e, NEW b, Typed(e), Typed(b), Alike(e, b), NoWorse(e, b), NEW r, NEW t \in Int,
         FundamentalGate(e, r, t)
  PROVE  FundamentalGate(b, r, t)
<1>1. /\ e.piotroski \in Int /\ b.piotroski \in Int /\ e.growth \in Int /\ b.growth \in Int
      /\ e.asOf \in Int /\ b.asOf \in Int /\ e.score \in Int /\ b.score \in Int
  BY TypedIsWhole, TypedIsMeasured DEF Measured
<1>2. b.hasSnapshot = e.hasSnapshot /\ b.sources = e.sources
  BY AlikeFields
<1>3. /\ e.score <= b.score /\ e.piotroski <= b.piotroski /\ e.growth <= b.growth
      /\ e.asOf <= b.asOf
      /\ e.debt \in 0..25 => b.debt \in 0..25
      /\ e.filing = "fine" => b.filing = "fine"
  BY DEF NoWorse
<1>4. /\ e.hasSnapshot /\ e.sources # {} /\ e.sources \subseteq HealthySources(r, t)
      /\ Cardinality(Upstreams(e.sources \cap HealthySources(r, t))) >= 2
      /\ Codal \in HealthySources(r, t)
  BY DEF FundamentalGate
<1>5. /\ t - e.asOf <= SnapshotLife
      /\ e.score >= 60 /\ e.piotroski >= 5 /\ e.growth > 0
      /\ e.debt \in 0..25 /\ e.filing = "fine"
  BY DEF FundamentalGate
<1>6. SnapshotLife \in Nat
  BY GatesAssumption, Zenon
<1>7. /\ b.hasSnapshot /\ b.sources # {} /\ b.sources \subseteq HealthySources(r, t)
      /\ Cardinality(Upstreams(b.sources \cap HealthySources(r, t))) >= 2
  BY <1>2, <1>4
<1>8. /\ t - b.asOf <= SnapshotLife
      /\ b.score >= 60 /\ b.piotroski >= 5 /\ b.growth > 0
      /\ b.debt \in 0..25 /\ b.filing = "fine"
  BY <1>1, <1>3, <1>5, <1>6
<1> QED
  BY <1>4, <1>7, <1>8 DEF FundamentalGate

LEMMA SignalStays ==
  ASSUME NEW e, NEW b, Typed(e), Typed(b), Improves(e, b),
         NEW state, NEW f, NEW r, NEW t \in Int, NEW rank \in 0..100,
         Signal(e, state, f, r, t, rank).actionable
  PROVE  Signal(b, state, f, r, t, rank).actionable
<1> DEFINE c == Chorus(e, state)
           score(x) == Opportunity(x, c, state, TRUE, f, rank)
           trust(x) == Confidence(x, c, state)
<1>1. Measured(e) /\ Measured(b) /\ Alike(e, b) /\ NoWorse(e, b)
  BY TypedIsMeasured, ImprovedIsAlike
<1>2. Chorus(b, state) = c
  BY <1>1, SameChorus
<1>3. FundamentalGate(e, r, t)
  BY SignalNeeds
<1>4. FundamentalGate(b, r, t)
  BY <1>1, <1>3, GateStaysOpen
<1>5. FundamentalGate(e, r, t) = TRUE /\ FundamentalGate(b, r, t) = TRUE
  BY <1>3, <1>4 DEF FundamentalGate
<1>6. PublicationGate(e, c, TRUE, f, score(e), trust(e))
  BY <1>5, SignalParts
<1>7. score(e) <= score(b) /\ trust(e) <= trust(b)
  BY <1>1, <1>2, ScoreGrows, ConfidenceGrows
<1>8. score(e) \in Int /\ score(b) \in Int /\ trust(e) \in Int /\ trust(b) \in Int
  <2>1. score(e) \in Tenths /\ score(b) \in Tenths
    BY <1>1, <1>2, OpportunityIs
  <2>2. trust(e) \in Hundredths /\ trust(b) \in Hundredths
    BY <1>1, <1>2, ConfidenceIs
  <2> HIDE DEF score, trust
  <2> QED
    BY <2>1, <2>2, RangesAreInt
<1>9. Quality(e) \in Int /\ Quality(b) \in Int /\ Quality(e) <= Quality(b)
  BY <1>1, QualityIs, QualityGrows
<1>10. e.liquidity \in Int /\ b.liquidity \in Int /\ e.liquidity <= b.liquidity
  BY <1>1, TypedIsWhole DEF NoWorse
<1>11. AtUpperLimit(b) = AtUpperLimit(e)
  BY <1>1, SameLimits
<1>12. PublicationGate(b, c, TRUE, f, score(b), trust(b))
  <2> HIDE DEF score, trust, c
  <2>1. /\ TechnicalGate(c) /\ f /\ ~AtUpperLimit(e)
        /\ Quality(e) >= 850 /\ e.liquidity >= 60 /\ score(e) >= 700 /\ trust(e) >= 5500
    BY <1>6 DEF PublicationGate
  <2>2. Quality(b) >= 850 /\ b.liquidity >= 60 /\ score(b) >= 700 /\ trust(b) >= 5500
    BY <1>7, <1>8, <1>9, <1>10, <2>1
  <2> QED
    BY <1>11, <2>1, <2>2 DEF PublicationGate
<1> QED
  BY <1>2, <1>5, <1>12, SignalParts

(* Evidence about a symbol that only gets better never takes a tradable     *)
(* signal away: the strategies read none of the facts it improves by, and   *)
(* every score and gate that reads one grows with it                        *)
(* (services/scorer/ensemble.py:63-142, fundamental_gate.py:68-96,          *)
(* services/data_validator/quality.py:15-32).                               *)
THEOREM BetterEvidenceHelps == Spec => BetterEvidenceKeeps
<1>1. ASSUME CycleInv, CycleInv', UNCHANGED <<now, receipts, breadth, fitted>>,
             NEW s \in Symbols, NEW rank \in {50, 100}
      PROVE  \A e \in {evidence[s]}, better \in {evidence'[s]} :
               Improves(e, better) /\ Tradable(e, rank) => Tradable(better, rank)
  <2> SUFFICES ASSUME NEW e \in {evidence[s]}, NEW better \in {evidence'[s]},
                      Improves(e, better), Tradable(e, rank)
               PROVE  Tradable(better, rank)
    OBVIOUS
  <2>1. Typed(e) /\ Typed(better) /\ now \in Int
    BY <1>1 DEF CycleInv, States
  <2>2. Alike(e, better) /\ NoWorse(e, better)
    BY <2>1, ImprovedIsAlike
  <2>3. Assembled(better, regime)
    <3>1. Assembled(e, regime)
      BY DEF Tradable
    <3>2. /\ better.bars = e.bars /\ better.lo = e.lo /\ better.hi = e.hi
          /\ better.close = e.close
      BY <2>2, AlikeFields
    <3>3. Candidates(better, regime) = Candidates(e, regime)
      BY <2>2, SameCandidates
    <3> QED
      BY <3>1, <3>2, <3>3 DEF Assembled
  <2>4. rank \in 0..100
    OBVIOUS
  <2>5. Signal(e, regime, fitted, receipts, now, rank).actionable
    BY DEF Tradable
  <2>6. Signal(better, regime, fitted, receipts, now, rank).actionable
    BY <2>1, <2>4, <2>5, SignalStays
  <2> QED
    BY <2>3, <2>6 DEF Tradable
<1>2. CycleInv /\ CycleInv' /\ [Next]_vars
        => [UNCHANGED <<now, receipts, breadth, fitted>> =>
              \A s \in Symbols, rank \in {50, 100} :
                \A e \in {evidence[s]}, better \in {evidence'[s]} :
                  Improves(e, better) /\ Tradable(e, rank) => Tradable(better, rank)]_vars
  BY <1>1
<1> QED
  BY <1>2, CycleInvariant, PTL DEF Spec, BetterEvidenceKeeps
=============================================================================
