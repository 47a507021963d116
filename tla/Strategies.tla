----------------------------- MODULE Strategies -----------------------------
(* The twelve strategies of packages/strategies: when each proposes a        *)
(* purchase, how strongly it votes, and the plan (entry zone, stop, targets) *)
(* it attaches.  The features of a symbol are one record f: returns and the  *)
(* distance to the 20-day high in permille, the volume z-score and the       *)
(* volume ratio in tenths, the buyer power in hundredths, prices in rials.   *)
(* A vote is a percentage.  Halves are rounded up (Python rounds them to     *)
(* the even number).                                                         *)
EXTENDS Integers, Sequences, FiniteSets, FiniteSetsExt

(* The order of registration, which is the order of the candidates.          *)
Registered == <<"momentum", "trend", "breakout", "pullback", "reversion", "volume",
                "client_flow", "ichimoku", "sector_rotation", "bb_squeeze",
                "confluence", "divergence">>

Keys == {Registered[i] : i \in DOMAIN Registered}

Place == [k \in Keys |-> CHOOSE i \in DOMAIN Registered : Registered[i] = k]

FamilyOf ==
  [k \in Keys |->
     CASE k \in {"momentum", "trend", "pullback", "ichimoku"} -> "trend"
       [] k \in {"breakout", "volume", "bb_squeeze"}          -> "breakout_volatility"
       [] k = "reversion"                                     -> "mean_reversion"
       [] k \in {"client_flow", "divergence"}                 -> "smart_money"
       [] k = "sector_rotation"                               -> "relative_strength"
       [] k = "confluence"                                    -> "composite"]

-----------------------------------------------------------------------------
(* The indicators that the composite strategy counts.                        *)
Confirmations(f) ==
  LET Says == [ema |-> f.emaScore >= 75,   rsi |-> f.rsi > 50 /\ f.rsi < 70,
               macd |-> f.macdUp,          supertrend |-> f.supertrendUp,
               mfi |-> f.mfi > 50,         obv |-> f.obvUp,
               power |-> f.power > 120,    cloud |-> f.aboveCloud]
  IN Cardinality({i \in DOMAIN Says : Says[i]})

NearEma(f) == 1000 * Max({f.close - f.ema20, f.ema20 - f.close}) <= 25 * f.close

(* The plan of a candidate.  `low', `high' and `chase' are permille of the   *)
(* close; `stop', `first' and `second' are tenths of the average true range, *)
(* the stop below the close or, for two trend strategies, the 20-day EMA.    *)
Terms(low, high, chase, stop, first, second, sessions) ==
  [low |-> low, high |-> high, chase |-> chase, stop |-> stop,
   first |-> first, second |-> second, sessions |-> sessions]

(* The candidate a strategy returns, if any: its vote, and its plan with the *)
(* price the stop is measured from.                                          *)
Proposes(fires, key, vote, base, terms) ==
  IF fires THEN {[key |-> key, vote |-> Min({100, vote}), base |-> base, terms |-> terms]}
           ELSE {}

Momentum(f) ==
  Proposes(f.ret20 > 40 /\ f.ret60 > 80,
           "momentum", 50 + (2 * f.ret20 + 5) \div 10, f.close,
           Terms(995, 1015, 1030, 15, 20, 35, 5))

Trend(f) ==
  Proposes(f.emaScore >= 75 /\ f.close > f.ema20,
           "trend", IF f.emaScore = 100 THEN 80 ELSE 65, f.ema20,
           Terms(990, 1010, 1025, 10, 18, 30, 7))

Breakout(f) ==
  Proposes(f.toHigh >= -8 /\ f.volZ >= 14,
           "breakout", 60 + f.volZ, f.close,
           Terms(995, 1020, 1035, 12, 22, 40, 5))

Pullback(f) ==
  Proposes(f.ret60 > 80 /\ f.ret3 \in -50 .. -10 /\ NearEma(f),
           "pullback", 72, f.ema20,
           Terms(990, 1010, 1020, 13, 20, 32, 6))

Reversion(f, regime) ==
  Proposes(regime # "risk_off" /\ f.ret5 < -60 /\ f.channel <= 10,
           "reversion", 64, f.close,
           Terms(990, 1010, 1015, 10, 15, 25, 3))

VolumeAnomaly(f) ==
  Proposes(f.volRatio >= 20 /\ f.volZ >= 15 /\ f.ret1 > 5,
           "volume", 65 + (f.volRatio + 1) \div 2, f.close,
           Terms(995, 1020, 1030, 13, 20, 38, 5))

ClientFlow(f) ==
  Proposes(f.power >= 135 /\ f.inflow > 50,
           "client_flow", 60 + (f.power + 5) \div 10 + 5 * f.streak, f.close,
           Terms(990, 1015, 1025, 14, 20, 36, 5))

Ichimoku(f) ==
  Proposes(f.aboveCloud /\ f.tenkanOver /\ f.adx > 25 /\ f.emaScore >= 50,
           "ichimoku", 25 + f.adx, f.close,
           Terms(995, 1020, 1030, 20, 25, 40, 7))

SectorRotation(f) ==
  Proposes(f.leading /\ f.ret20 > 50,
           "sector_rotation", 74, f.close,
           Terms(990, 1015, 1025, 15, 20, 35, 7))

Squeeze(f) ==
  Proposes(f.squeeze /\ f.volZ > 15 /\ f.supertrendUp,
           "bb_squeeze", 55 + f.volZ, f.close,
           Terms(990, 1015, 1025, 15, 30, 50, 5))

Confluence(f) ==
  Proposes(Confirmations(f) >= 5,
           "confluence", 40 + 8 * Confirmations(f), f.close,
           Terms(990, 1010, 1020, 15, 25, 40, 6))

Divergence(f) ==
  Proposes(f.ret5 < -30 /\ f.mfi > 45 /\ f.obvUp /\ f.power > 130 /\ f.channel < 30,
           "divergence", 50 + (15 * f.power + 50) \div 100, f.close,
           Terms(990, 1010, 1020, 20, 20, 40, 10))

(* evaluate_all.  Every strategy supports the five-day horizon, the only one *)
(* that is ever asked for.                                                   *)
Candidates(f, regime) ==
  UNION {Momentum(f), Trend(f), Breakout(f), Pullback(f), Reversion(f, regime),
         VolumeAnomaly(f), ClientFlow(f), Ichimoku(f), SectorRotation(f),
         Squeeze(f), Confluence(f), Divergence(f)}

-----------------------------------------------------------------------------
(* The entry zone, stop and targets of a candidate.                          *)
Plan(f, candidate) ==
  LET t          == candidate.terms
      OfClose(n) == (n * f.close + 500) \div 1000
      Atr(n, p)  == (10 * p + n * f.atr + 5) \div 10
  IN [low     |-> OfClose(t.low), high |-> OfClose(t.high), chase |-> OfClose(t.chase),
      stop    |-> Atr(0 - t.stop, candidate.base),
      targets |-> <<Atr(t.first, f.close), Atr(t.second, f.close)>>,
      sessions |-> t.sessions]

(* Only the reversion candidate carries a risk flag.                         *)
Flagged(candidates) == \E c \in candidates : c.key = "reversion"

BestVote(candidates) == Max({c.vote : c \in candidates})

(* The candidate whose plan is published: the first of those that vote most. *)
Primary(candidates) ==
  CHOOSE c \in candidates :
    /\ c.vote = BestVote(candidates)
    /\ \A d \in candidates : d.vote = c.vote => Place[c.key] <= Place[d.key]
=============================================================================
