----------------------------- MODULE SignalGates -----------------------------
(* From the evidence about one symbol to its published signal: the market    *)
(* regime, the receipts of the data sources, the fundamental gate, the       *)
(* quality of the history, the price limits, and the ensemble that joins     *)
(* them into an opportunity score, a grade and the decision to publish.      *)
(*                                                                           *)
(* Evidence is one record e: the features of Strategies, the last price and  *)
(* the price limits of the day (last, lo, hi), the history (bars, of which   *)
(* valid, of which covered by client rows), liquidity (0 to 100), and the    *)
(* latest fundamental snapshot (sources, asOf, score, piotroski, growth,     *)
(* debt in tenths) and Codal filing.  Time is in days, scores are percent    *)
(* unless a comment says otherwise.                                          *)
EXTENDS Strategies

CONSTANTS
  Sources,       \* fundamental data sources
  Codal,         \* the official disclosure source among them
  UpstreamOf,    \* the independence key of a source's receipt
  ReceiptLife,   \* days a success of a source counts (86 400 seconds)
  SnapshotLife,  \* days a fundamental snapshot counts (120)
  MinHistory,    \* sessions of history a strategy needs (260)
  Curve          \* the calibrated probability of profit of each raw score

ASSUME GatesAssumption ==
  /\ IsFiniteSet(Sources) /\ Codal \in Sources /\ DOMAIN UpstreamOf = Sources
  /\ ReceiptLife \in Nat /\ SnapshotLife \in Nat /\ MinHistory \in Nat \ {0}
  /\ Curve \in [0..100 -> 0..100]

-----------------------------------------------------------------------------
(* The regime, from the breadth b of the market: share of fresh snapshots,   *)
(* advancing and declining symbols, share above the EMA, turnover over its   *)
(* median in tenths, median five-day return in permille.                     *)
NoRegime == "unknown"

Classify(b) ==
  LET Above(n) == 100 * b.advancers > n * (b.advancers + b.decliners)
      Below(n) == 100 * b.advancers < n * (b.advancers + b.decliners)
      Rising   == Above(60) /\ b.ret5 > 10 /\ b.above > 55
      Falling  == Below(35) /\ b.ret5 < -10 /\ b.above < 40
  IN CASE Rising                                            -> "risk_on"
       [] Falling                                           -> "risk_off"
       [] ~Falling /\ Below(45) /\ b.turnover > 14          -> "distribution"
       [] OTHER                                             -> "neutral"

RegimeOf(b) ==
  IF b.fresh < 98 \/ b.advancers + b.decliners = 0 \/ b.histories = 0
    THEN NoRegime ELSE Classify(b)

RegimeFactor(regime) ==
  CASE regime = "risk_on" -> 90 [] regime = "neutral" -> 70 [] OTHER -> 40

-----------------------------------------------------------------------------
(* Receipts: r[s] says whether source s is healthy and when it last          *)
(* delivered.  The data gate opens the whole market, the fundamental gate    *)
(* one symbol.                                                               *)
HealthySources(r, now) ==
  {s \in Sources : r[s].healthy /\ r[s].at <= now /\ now - r[s].at <= ReceiptLife}

Upstreams_Sources(S) == S
Upstreams(S) == {UpstreamOf[s] : s \in S}

DataGate(feed, r, now) ==
  /\ feed.official /\ ~feed.fixtures
  /\ feed.fresh /\ feed.receipt /\ feed.batch
  /\ feed.open
  /\ Cardinality(Upstreams(HealthySources(r, now))) >= 2

FundamentalGate_InDebt(e, r, now) ==
  /\ e.hasSnapshot /\ e.sources # {} /\ e.sources \subseteq HealthySources(r, now)
  /\ Cardinality(Upstreams(e.sources)) >= 2
  /\ now - e.asOf <= SnapshotLife
  /\ e.score >= 60 /\ e.piotroski >= 5 /\ e.growth > 0 /\ e.debt \in 1..25
  /\ Codal \in HealthySources(r, now) /\ e.filing = "fine"

FundamentalGate(e, r, now) ==
  /\ e.hasSnapshot
  /\ e.sources # {}
  /\ e.sources \subseteq HealthySources(r, now)
  /\ Cardinality(Upstreams(e.sources \cap HealthySources(r, now))) >= 2
  /\ now - e.asOf <= SnapshotLife
  /\ e.score >= 60
  /\ e.piotroski >= 5
  /\ e.growth > 0
  /\ e.debt \in 0..25
  /\ Codal \in HealthySources(r, now)
  /\ e.filing = "fine"

FundamentalScore(e) == IF e.hasSnapshot THEN e.score ELSE 0

-----------------------------------------------------------------------------
(* Quality of the history in tenths of a percent, and how much of the        *)
(* required sample it is.                                                    *)
Quality(e) ==
  IF e.bars = 0 THEN 0
    ELSE (500 * Min({e.bars, MinHistory})) \div MinHistory
           + (300 * e.valid) \div e.bars + (200 * e.covered) \div e.bars

SampleSupport(e) == Min({100, (100 * e.bars) \div MinHistory})

(* The price limits, as the ensemble asks about them: the volumes of the     *)
(* queues are never passed, so only the distance to a limit counts.          *)
AtUpperLimit(e) == 500 * Max({e.close - e.hi, e.hi - e.close}) < e.hi
AtLowerLimit(e) == ~AtUpperLimit(e) /\ 500 * Max({e.close - e.lo, e.lo - e.close}) < e.lo
FillScore(e)    == IF AtUpperLimit(e) THEN 65 ELSE IF AtLowerLimit(e) THEN 85 ELSE 90

-----------------------------------------------------------------------------
(* The ensemble.  What the strategies say of a symbol, computed once: the    *)
(* candidates, the independent ones that vote at least 60, their families.   *)
Chorus(e, regime) ==
  LET candidates == Candidates(e, regime)
      bullish    == {c \in candidates : FamilyOf[c.key] # "composite" /\ c.vote >= 60}
  IN [candidates |-> candidates, bullish |-> bullish,
      families |-> {FamilyOf[c.key] : c \in bullish}]

TechnicalGate(c) == Cardinality(c.families) >= 3 /\ Cardinality(c.bullish) >= 4

FamilyVote(c, family) == BestVote({b \in c.bullish : FamilyOf[b.key] = family})

(* Average of the qualifying families plus a bonus for agreement.            *)
RawScore(c) ==
  LET n     == Cardinality(c.families)
      Total == SumFunction([family \in c.families |-> FamilyVote(c, family)])
  IN IF n = 0 THEN 0 ELSE Min({100, Total \div n + Min({12, 3 * (n - 1)})})

(* Zero stands for "not calibrated".                                         *)
ProfitChance(c, fitted) == IF fitted THEN Curve[RawScore(c)] ELSE 0

(* Confidence in hundredths of a percent.                                    *)
Confidence(e, c, regime) ==
  Min({10000, 25 * SampleSupport(e) + (5 * Quality(e)) \div 2
                + 1000 * Min({3, Cardinality(c.families)}) + 20 * RegimeFactor(regime)})

(* A flag of a candidate, of the price limits or of a failed gate.           *)
RiskFlagged(e, c, fundamental, fitted) ==
  \/ AtUpperLimit(e) \/ AtLowerLimit(e)
  \/ Flagged(c.candidates)
  \/ ~TechnicalGate(c) \/ ~fundamental \/ ~fitted

(* The opportunity score in tenths, for a cross-sectional rank in percent.   *)
Opportunity(e, c, regime, fundamental, fitted, rank) ==
  LET Sum == 30 * rank + 40 * Max({0, ProfitChance(c, fitted) - 50})
               + (15 * Confidence(e, c, regime)) \div 100 + 15 * FillScore(e)
               + 10 * RegimeFactor(regime) + 10 * FundamentalScore(e)
      Kept == IF RiskFlagged(e, c, fundamental, fitted) THEN 90 ELSE 100
  IN ((Sum * Kept) \div 100 + 5) \div 10

PublicationGate(e, c, fundamental, fitted, score, confidence) ==
  /\ TechnicalGate(c)
  /\ fundamental
  /\ fitted
  /\ Quality(e) >= 850
  /\ e.liquidity >= 60
  /\ ~AtUpperLimit(e)
  /\ score >= 700
  /\ confidence >= 5500

Grade(passed, score, confidence) ==
  CASE passed /\ score >= 850 /\ confidence >= 7000                  -> "A+"
    [] passed /\ score >= 780 /\ (score < 850 \/ confidence < 7000)  -> "A"
    [] passed /\ score \in 680..779                                  -> "B"
    [] OTHER                                                         -> "C"

(* Whether a symbol has a signal at all: enough history, limits of the day,  *)
(* and a candidate.                                                          *)
Assembled(e, regime) ==
  /\ e.bars >= MinHistory /\ e.lo > 0 /\ e.hi > 0 /\ e.close > 0
  /\ Candidates(e, regime) # {}

Signal(e, regime, fitted, r, now, rank) ==
  LET c           == Chorus(e, regime)
      fundamental == FundamentalGate(e, r, now)
      score       == Opportunity(e, c, regime, fundamental, fitted, rank)
      confidence  == Confidence(e, c, regime)
      passed      == PublicationGate(e, c, fundamental, fitted, score, confidence)
  IN [actionable |-> passed, score |-> score, regime |-> regime,
      grade |-> Grade(passed, score, confidence),
      plan  |-> Plan(e, Primary(c.candidates))]
=============================================================================
