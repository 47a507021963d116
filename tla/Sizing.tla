------------------------------- MODULE Sizing -------------------------------
(* PositionSizingSolver.solve under the active risk policy, and the checks   *)
(* that create_order_from_signal adds to it: how many shares of a signal are *)
(* bought at a price, or none.                                               *)
(*                                                                           *)
(* A portfolio is a record p: cash, the value, number and open risk of the   *)
(* open positions, the cash that pending purchases reserve, and the kill     *)
(* switch.  The volume of the market, the allocations of the day and the     *)
(* high-water mark are parameters that no caller passes, so the liquidity    *)
(* cap is a constant, nothing is allocated yet, and the drawdown counts from *)
(* the initial cash.                                                         *)
EXTENDS Integers, FiniteSetsExt

CONSTANTS
  InitialCash,   \* capital of the campaign
  MinimumCash,   \* least free cash for a purchase (50 million rials)
  LiquidityCap,  \* five percent of the assumed daily turnover
  BuyFee,        \* per ten thousand
  RoundTrip,     \* fees, slippage and gap buffer of a round trip, per hundred thousand
  MaxActive      \* open positions (10)

ASSUME SizingAssumption ==
  /\ {InitialCash, MinimumCash, LiquidityCap, RoundTrip} \subseteq Nat \ {0}
  /\ {BuyFee, MaxActive} \subseteq Nat

-----------------------------------------------------------------------------
(* The policy: gross exposure and cash reserve in percent of the net asset   *)
(* value, risk of one trade in forty-thousandths of it.  A regime without an *)
(* entry of its own is taken for risk_on.                                    *)
Policy_Unlimited(regime) ==
  CASE regime = "neutral"  -> [gross |-> 50, reserve |-> 50, rate |-> 100]
    [] regime = "risk_off" -> [gross |-> 25, reserve |-> 75, rate |-> 60]
    [] OTHER               -> [gross |-> 100, reserve |-> 0, rate |-> 140]

Policy(regime) ==
  CASE regime = "neutral"  -> [gross |-> 50, reserve |-> 50, rate |-> 100]
    [] regime = "risk_off" -> [gross |-> 25, reserve |-> 75, rate |-> 60]
    [] OTHER               -> [gross |-> 70, reserve |-> 30, rate |-> 140]

NetAsset(p) == p.cash + p.value
HighWater(p) == Max({NetAsset(p), InitialCash})

Lost(p, percent) == 100 * (HighWater(p) - NetAsset(p)) >= percent * HighWater(p)

(* The drawdown ladder.                                                      *)
RiskRate_Halved(p, regime) ==
  LET rate == Policy(regime).rate
  IN CASE Lost(p, 6)                -> rate \div 2
       [] Lost(p, 4) /\ ~Lost(p, 6) -> (3 * rate) \div 4
       [] OTHER                     -> rate

RiskRate(p, regime) ==
  LET rate == Policy(regime).rate
  IN CASE Lost(p, 8)                -> 0
       [] Lost(p, 6) /\ ~Lost(p, 8) -> rate \div 2
       [] Lost(p, 4) /\ ~Lost(p, 6) -> (3 * rate) \div 4
       [] OTHER                     -> rate

GrossCap(p, regime) ==
  LET gross == Policy(regime).gross
  IN CASE Lost(p, 12)                -> 0
       [] Lost(p, 8) /\ ~Lost(p, 12) -> Min({gross, 20})
       [] Lost(p, 6) /\ ~Lost(p, 8)  -> Min({gross, 35})
       [] OTHER                      -> gross

HardKill(p) == p.kill \/ Lost(p, 12)

-----------------------------------------------------------------------------
(* The plan of a signal: entry at the low end of its zone.                   *)
RiskPerShare(plan) == Max({1, plan.low - plan.stop})

ChaseBlocked_OfPrice(plan, price) == 100 * (price - plan.low) > 35 * plan.low
ChaseBlocked(plan, price) == 100 * (price - plan.low) > 35 * RiskPerShare(plan)

(* The loss a stopped trade is planned to make, per hundred thousand.        *)
EffectiveLoss(plan) == (100000 * RiskPerShare(plan)) \div plan.low + RoundTrip

RiskBudget(p, regime) == (NetAsset(p) * RiskRate(p, regime)) \div 40000

AvailableCash(p, regime) ==
  Max({0, p.cash - (NetAsset(p) * Policy(regime).reserve) \div 100})

(* Positions carry no sector: a signal with a sector meets an empty one, a   *)
(* signal without one meets the whole portfolio.                             *)
SectorExposure(p, sector) == IF sector THEN 0 ELSE p.value

Capacity(p, regime, sector) ==
  { (NetAsset(p) * 8) \div 100,
    Max({0, (NetAsset(p) * 18) \div 100 - SectorExposure(p, sector)}),
    LiquidityCap,
    (AvailableCash(p, regime) * 10000) \div (10000 + BuyFee),
    Max({0, (NetAsset(p) * GrossCap(p, regime)) \div 100 - p.value}),
    (NetAsset(p) * 15) \div 100 }

FinalQuantity(p, plan, regime, sector, price) ==
  LET ByRisk == (RiskBudget(p, regime) * 100000) \div EffectiveLoss(plan)
      Limits == Capacity(p, regime, sector) \cup {ByRisk}
  IN IF price > 0 THEN Min(Limits) \div price ELSE 0

-----------------------------------------------------------------------------
(* The decision of the ticket, in the order of its checks.                   *)
OpenRiskExceeded(p, plan, quantity) ==
  1000 * (p.risk + RiskPerShare(plan) * quantity) > 25 * NetAsset(p)

SectorExceeded(p, sector, quantity, price) ==
  100 * (SectorExposure(p, sector) + quantity * price) > 18 * NetAsset(p)

Approved(p, plan, regime, sector, price) ==
  LET quantity == FinalQuantity(p, plan, regime, sector, price)
  IN /\ ~HardKill(p)
     /\ p.count < MaxActive
     /\ ~ChaseBlocked(plan, price)
     /\ quantity > 0
     /\ AvailableCash(p, regime) >= MinimumCash
     /\ ~OpenRiskExceeded(p, plan, quantity)
     /\ ~SectorExceeded(p, sector, quantity, price)

WithFee(value) == value + (value * BuyFee) \div 10000

(* Mutant: the pending purchases are left out of the check.                 *)
OrderQuantity_NonePending(p, plan, regime, sector, price) ==
  LET quantity == FinalQuantity(p, plan, regime, sector, price)
  IN IF /\ ~p.kill
        /\ Approved(p, plan, regime, sector, price)
        /\ WithFee(quantity * price) <= p.cash
       THEN quantity ELSE 0

(* The shares create_order_from_signal submits: zero when it refuses.        *)
OrderQuantity(p, plan, regime, sector, price) ==
  LET quantity == FinalQuantity(p, plan, regime, sector, price)
  IN IF /\ ~p.kill
        /\ Approved(p, plan, regime, sector, price)
        /\ WithFee(quantity * price) <= Max({0, p.cash - p.reserved})
       THEN quantity ELSE 0
=============================================================================
