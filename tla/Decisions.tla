------------------------------ MODULE Decisions ------------------------------
(* Which purchases a trading cycle decides on.  The evidence about the       *)
(* symbols, the receipts of the sources, the market and the portfolio change *)
(* between cycles; a cycle asks the data gate, ranks the symbols it does not *)
(* hold, publishes their signals, and sizes an order for the best of them.   *)
(* Every order of a cycle is sized on the portfolio as it was when the cycle *)
(* began its entries.                                                        *)
(*                                                                           *)
(* The portfolio between two cycles is whatever fills, exits and quotes made *)
(* of it: one of Books.  How they do is the subject of PaperBroker.          *)
EXTENDS SignalGates, Sizing

CONSTANTS
  Symbols,
  Profiles,      \* evidence to start from
  News,          \* the values each field of the evidence may change to
  Breadths,      \* states of the market
  Books,         \* portfolios
  MaxPerCycle,   \* orders of one cycle (3)
  MaxNews,       \* bound: changes before the first cycle
  MaxDays        \* bound: days in a behaviour

(* The fields of the evidence: numbers, counts and prices among them.        *)
Prices == {"close", "ema20", "atr", "last"}
Counts == {"bars", "valid", "covered"}
Whole  == {"ret1", "ret3", "ret5", "ret20", "ret60", "emaScore", "toHigh", "volZ", "volRatio",
           "power", "inflow", "streak", "adx", "channel", "mfi", "rsi", "lo", "hi", "liquidity",
           "asOf", "score", "piotroski", "growth", "debt"}
Fields == Prices \cup Counts \cup Whole \cup
          {"squeeze", "supertrendUp", "aboveCloud", "tenkanOver", "obvUp", "macdUp", "leading",
           "live", "sector", "hasSnapshot", "sources", "filing"}

(* The values that a field of the evidence takes.                            *)
Values(field) ==
  {e[field] : e \in Profiles} \cup (IF field \in DOMAIN News THEN News[field] ELSE {})

ASSUME DecisionsAssumption ==
  /\ IsFiniteSet(Symbols) /\ {MaxPerCycle, MaxNews, MaxDays} \subseteq Nat \ {0}
  /\ Books \subseteq [cash : Nat, value : Nat, count : Nat, risk : Nat, reserved : Nat,
                      kill : BOOLEAN]

(* The price limits of a day keep the range of a symbol far below its price. *)
ASSUME EvidenceAssumption ==
  /\ \A e \in Profiles : DOMAIN e = Fields
  /\ DOMAIN News \subseteq Fields
  /\ \A field \in Prices \cup Counts : Values(field) \subseteq Nat
  /\ \A field \in Whole : Values(field) \subseteq Int
  /\ Values("score") \subseteq 0..100
  /\ \A atr \in Values("atr"), price \in Values("close") \cup Values("ema20") : 2 * atr <= price

(* The orders of a cycle, each of eight percent of the net asset value and   *)
(* its fee, stay within the least reserve of the policy.                     *)
ASSUME ReserveAssumption == MaxPerCycle * 8 * (10000 + BuyFee) <= 30 * 10000

VARIABLES
  now,       \* day
  evidence,  \* evidence about each symbol
  receipts,  \* health and last success of each source
  feed,      \* what the data gate asks of the market data
  breadth,   \* state of the market
  fitted,    \* whether an active calibrator is loaded
  book,      \* portfolio
  held,      \* symbols with an open position
  orders,    \* what the cycle that just ended submitted
  news       \* changes left before the first cycle

inputs == <<now, evidence, receipts, feed, breadth, fitted, held>>
vars   == <<inputs, book, orders, news>>

NoOrder == [quantity |-> 0]
None    == [s \in Symbols |-> NoOrder]

AllWell == [official |-> TRUE, fixtures |-> FALSE, fresh |-> TRUE,
            receipt |-> TRUE, batch |-> TRUE, open |-> TRUE]

Init ==
  /\ now = 0
  /\ evidence \in [Symbols -> Profiles]
  /\ receipts = [s \in Sources |-> [healthy |-> TRUE, at |-> 0]]
  /\ feed = AllWell
  /\ breadth \in Breadths
  /\ fitted = TRUE
  /\ book \in Books
  /\ held = {}
  /\ orders = None
  /\ news = MaxNews

-----------------------------------------------------------------------------
(* The signals of a cycle.                                                   *)
regime == RegimeOf(breadth)

Considered ==
  {s \in Symbols \ held : evidence[s].live /\ Assembled(evidence[s], regime)}

(* Places by best vote; equal votes keep the order of the query, which the   *)
(* database chooses.                                                         *)
Rankings(S) ==
  LET best == [s \in S |-> BestVote(Candidates(evidence[s], regime))]
  IN {place \in [S -> 1..Cardinality(S)] :
        \A s, t \in S : /\ s # t => place[s] # place[t]
                        /\ best[s] > best[t] => place[s] < place[t]}

RankPercent(place, n) == (100 * (n - place + 1)) \div n

SignalAt(s, rank) == Signal(evidence[s], regime, fitted, receipts, now, rank)

SignalsOf(place) ==
  [s \in DOMAIN place |-> SignalAt(s, RankPercent(place[s], Cardinality(DOMAIN place)))]

(* The actionable signals that score most, as many as the cycle may enter.   *)
Picks(signals) ==
  LET Able == {s \in DOMAIN signals : signals[s].actionable}
      Room == Max({0, Min({MaxPerCycle, MaxActive - book.count})})
  IN {T \in SUBSET Able : /\ Cardinality(T) = Min({Room, Cardinality(Able)})
                          /\ \A s \in T, t \in Able \ T : signals[t].score <= signals[s].score}

Entry(s, signal) ==
  LET quantity == OrderQuantity(book, signal.plan, signal.regime, evidence[s].sector,
                                evidence[s].last)
  IN IF quantity = 0 THEN NoOrder
       ELSE [quantity |-> quantity, price |-> evidence[s].last,
             low |-> signal.plan.low, stop |-> signal.plan.stop]

Submitted(o) == {s \in Symbols : o[s].quantity > 0}

Cost(o) == SumFunction([s \in Submitted(o) |-> WithFee(o[s].quantity * o[s].price)])

-----------------------------------------------------------------------------
(* A cycle.  Exits and fills of pending orders, which precede the entries,   *)
(* are part of Reshape.                                                      *)
MayEnter == ~book.kill /\ DataGate(feed, receipts, now) /\ regime # NoRegime

Submits(o) ==
  /\ orders = None
  /\ orders' = o
  /\ book' = [book EXCEPT !.reserved = @ + Cost(o)]
  /\ news' = 0
  /\ UNCHANGED inputs

Enter ==
  /\ MayEnter
  /\ \E place \in Rankings(Considered) :
       LET signals == SignalsOf(place)
       IN \E T \in Picks(signals) :
            Submits([s \in Symbols |-> IF s \in T THEN Entry(s, signals[s]) ELSE NoOrder])

Blocked == ~MayEnter /\ Submits(None)

-----------------------------------------------------------------------------
(* What changes before a cycle; only orders and days go on afterwards.       *)
Hears == /\ news > 0
         /\ news' = news - 1
         /\ orders' = None

(* One fact about a symbol changes: a new snapshot, filing, bar or quote.    *)
Learn(s) ==
  /\ Hears
  /\ \E field \in DOMAIN News : \E value \in News[field] \ {evidence[s][field]} :
       evidence' = [evidence EXCEPT ![s][field] = value]
  /\ UNCHANGED <<now, receipts, feed, breadth, fitted, book, held>>

Receive(src) ==
  /\ Hears
  /\ receipts' = [receipts EXCEPT ![src] = [healthy |-> TRUE, at |-> now]]
  /\ receipts' # receipts
  /\ UNCHANGED <<now, evidence, feed, breadth, fitted, book, held>>

Fail(src) ==
  /\ Hears
  /\ receipts[src].healthy
  /\ receipts' = [receipts EXCEPT ![src].healthy = FALSE]
  /\ UNCHANGED <<now, evidence, feed, breadth, fitted, book, held>>

FeedChanges ==
  /\ Hears
  /\ \E part \in DOMAIN feed : feed' = [feed EXCEPT ![part] = ~@]
  /\ UNCHANGED <<now, evidence, receipts, breadth, fitted, book, held>>

MarketMoves ==
  /\ Hears
  /\ breadth' \in Breadths \ {breadth}
  /\ UNCHANGED <<now, evidence, receipts, feed, fitted, book, held>>

Recalibrate ==
  /\ Hears
  /\ fitted' = ~fitted
  /\ UNCHANGED <<now, evidence, receipts, feed, breadth, book, held>>

Reshape ==
  /\ Hears
  /\ book' \in Books
  /\ held' \in {H \in SUBSET Symbols : Cardinality(H) <= book'.count}
  /\ UNCHANGED <<now, evidence, receipts, feed, breadth, fitted>>

(* The orders of a cycle are filled or given up.                             *)
Settle ==
  /\ orders # None
  /\ orders' = None
  /\ book' \in Books
  /\ UNCHANGED <<inputs, news>>

Tick ==
  /\ now < MaxDays
  /\ now' = now + 1
  /\ orders' = None
  /\ UNCHANGED <<evidence, receipts, feed, breadth, fitted, book, held, news>>

Next ==
  \/ Enter \/ Blocked
  \/ \E s \in Symbols : Learn(s)
  \/ \E src \in Sources : Receive(src) \/ Fail(src)
  \/ FeedChanges \/ MarketMoves \/ Recalibrate \/ Reshape \/ Settle \/ Tick

Spec == Init /\ [][Next]_vars

-----------------------------------------------------------------------------
(* Type correctness.  Among the parts: a score is between 0 and 100, a       *)
(* probability too, whatever the evidence (docs/14_TEST_PLAN.md, section 1). *)
Tenths == 0..1000   \* tenths of a percent

OrderOK(o) == o = NoOrder \/ (DOMAIN o = {"quantity", "price", "low", "stop"} /\ o.quantity > 0)

DecisionsTypeOK ==
  /\ now \in 0..MaxDays
  /\ \A s \in Sources : receipts[s].at \in 0..now
  /\ breadth \in Breadths /\ fitted \in BOOLEAN
  /\ held \in SUBSET Symbols
  /\ book.reserved \in Nat
  /\ \A s \in Symbols : OrderOK(orders[s])
  /\ \A s \in Considered : LET signal == SignalAt(s, 100)
                           IN /\ signal.score \in Tenths
                              /\ ProfitChance(Chorus(evidence[s], regime), fitted) \in 0..100
  /\ news \in 0..MaxNews

(* A grade is better than C exactly when the signal may be traded: the       *)
(* thresholds of the grades and of the publication gate are written in two   *)
(* places (services/scorer/ensemble.py:134-152).                             *)
GradeTellsTruth ==
  \A s \in Considered, rank \in {50, 100} :
    LET signal == SignalAt(s, rank) IN signal.actionable <=> signal.grade # "C"

(* A stopped trade costs what the policy allows: bought at the price of its  *)
(* order and sold at its stop, with the costs of both, an order loses at     *)
(* most the risk budget of its regime and the part of the stop distance it   *)
(* was allowed to chase (sizing.py:119-185, docs/RISK_POLICY.md sections 2   *)
(* and 6), to within a rial and the hundred-thousandth of the purchase that  *)
(* the percentages are cut to.                                               *)
StoppedLoss(o) == o.quantity * (o.price - o.stop) + (o.quantity * o.price * RoundTrip) \div 100000

LossBounded ==
  \A s \in Submitted(orders) :
    100 * StoppedLoss(orders[s])
      <= 135 * ((NetAsset(book) * Policy(regime).rate) \div 40000
                  + (orders[s].quantity * orders[s].price) \div 100000 + 1)

(* What one cycle orders can all be paid if it is filled before anything     *)
(* else, although each order was sized as if it were the only one on the     *)
(* same cash: the reserve floor leaves room for the others.  After the       *)
(* purchases that were pending when the cycle began, any one of its orders   *)
(* can still be paid, but not all of them (sizing.py:162-183,                *)
(* ledger.py:135-142).                                                       *)
Pending == book.reserved - Cost(orders)   \* before the cycle

OneCycleAffordable ==
  /\ Cost(orders) <= book.cash
  /\ \A s \in Submitted(orders) :
       Pending + WithFee(orders[s].quantity * orders[s].price) <= book.cash

(* Eight percent below the initial capital no purchase is decided, in        *)
(* whatever regime (sizing.py:105-117, docs/RISK_POLICY.md section 4).       *)
DeepLossStopsBuying ==
  25 * NetAsset(book) <= 23 * InitialCash => Submitted(orders) = {}

(* Nothing is bought on evidence that is gone: every ordered symbol rests on *)
(* deliveries of two upstream families within the life of a receipt, even if *)
(* the sources that mirror one another all delivered (quality.py:35-54,      *)
(* fundamental_gate.py:49-62).                                               *)
OrdersAreBacked ==
  \A s \in Submitted(orders) :
    \E p, q \in evidence[s].sources :
      /\ UpstreamOf[p] # UpstreamOf[q]
      /\ \A src \in {p, q, Codal} : receipts[src].healthy /\ now - receipts[src].at <= ReceiptLife

-----------------------------------------------------------------------------
(* Better evidence about a symbol: one fact of its fundamentals, history or  *)
(* liquidity improves and nothing else changes.                              *)
Improves(e, better) ==
  \/ \E field \in {"score", "piotroski", "growth", "liquidity", "valid", "covered", "asOf"} :
       better = [e EXCEPT ![field] = better[field]] /\ better[field] > e[field]
  \/ better = [e EXCEPT !.debt = better.debt] /\ better.debt \in 0..(e.debt - 1)
  \/ better = [e EXCEPT !.filing = "fine"] /\ e.filing # "fine"

(* Evidence that only gets better never takes a tradable signal away: the    *)
(* score, the confidence, the flags and the gates all read the same facts    *)
(* (ensemble.py:63-142, fundamental_gate.py:68-96, quality.py:15-32).        *)
Tradable(e, rank) ==
  Assembled(e, regime) /\ Signal(e, regime, fitted, receipts, now, rank).actionable

BetterEvidenceKeeps ==
  [][UNCHANGED <<now, receipts, breadth, fitted>> =>
       \A s \in Symbols, rank \in {50, 100} :
         \A e \in {evidence[s]}, better \in {evidence'[s]} :
           Improves(e, better) /\ Tradable(e, rank) => Tradable(better, rank)]_vars

(* What holds of every signal and every book that a cycle may meet.          *)
DecisionsInv == DecisionsTypeOK /\ GradeTellsTruth /\ DeepLossStopsBuying
=============================================================================
