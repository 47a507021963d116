-------------------------------- MODULE Radar --------------------------------
(***************************************************************************)
(* The market cycle (MarketCycleOrchestrator.run, services/collector/      *)
(* market_cycle.py), the handlers that collect beside it, and the radar    *)
(* scan it shares with the history jobs (IngestionCoordinator.run_radar_-  *)
(* scan, services/collector/service.py).                                   *)
(*                                                                         *)
(* A scan works in a thread and a session of its own.  One lock per        *)
(* process keeps a second scan out; nothing orders a scan and the order    *)
(* entry of a trading cycle or of a client.  Statements read what is       *)
(* committed, and a scan's deletions and insertions are seen together.     *)
(***************************************************************************)
EXTENDS Integers, Sequences, FiniteSets

CONSTANTS
    Cycles,           \* collect, scan, trade: the worker, POST /sync-all
    Triggers,         \* collect, trade: POST /auto-trading/trigger
    Backfills,        \* collect, fetch history, scan: POST /data/backfill
    Jobs,             \* scan, after fetching history: the history worker
    Clients,          \* POST /orders/from-signal
    Home,             \* the process of each of them
    Symbols,
    StaleAfter,       \* critical_market_stale_seconds
    MaxSeconds,       \* bound: the clock
    MaxOrders         \* bound: orders from signals

Traders    == Cycles \cup Triggers
Collectors == Traders \cup Backfills
Callers    == Cycles \cup Backfills \cup Jobs    \* of run_radar_scan
Processes  == {Home[c] : c \in Collectors \cup Jobs}
Nobody     == "nobody"
Trader     == "trader"     \* run_cycle, which makes signals of its own

ASSUME RadarAssumption ==
    /\ Cycles \cap (Triggers \cup Backfills \cup Jobs) = {}
    /\ Backfills \cap (Triggers \cup Jobs) = {} /\ Triggers \cap Jobs = {}
    /\ Nobody \notin Callers
    /\ MaxSeconds \in Nat /\ MaxOrders \in Nat
    /\ StaleAfter \in Nat
    /\ Trader \notin Processes

VARIABLES
    now,              \* seconds
    quote,            \* second of the newest snapshots in the database
    evidence,         \* symbols that would get an actionable signal; regime known or not
    published,        \* PublishedSignal rows
    orders,           \* BrokerOrder rows with a signal
    lock,             \* _RADAR_SCAN_LOCK of each process: its holder
    stage,            \* what each collector is doing
    scan,             \* the scan of each caller
    entry             \* the signal a trader or a client is about to order from

market == <<now, quote, evidence>>
vars   == <<market, published, orders, lock, stage, scan, entry>>

Status == {"SUBMITTED", "FILLED", "REJECTED"}
Stages == {"idle", "codal", "history", "scan", "trade", "commit"}
Steps  == {"off", "look", "delete", "publish"}
Author == Processes \cup {Trader}
Id     == [symbol : Symbols, at : 0..MaxSeconds]
Signal == [symbol : Symbols, at : 0..MaxSeconds, by : Author]
NoId   == [symbol |-> "none", at |-> 0]

Evidence == {e \in [regime : BOOLEAN, found : SUBSET Symbols] : e.regime \/ e.found = {}}

(* The primary key: sig_<symbol>_<second>.                                  *)
Key(x)     == [symbol |-> x.symbol, at |-> x.at]
Keys(rows) == {Key(x) : x \in rows}
Pending    == {k \in DOMAIN orders : orders[k].status = "SUBMITTED"}
InOrders   == {orders[k].signal : k \in Pending}

Off == [step |-> "off", found |-> {}, pending |-> {}, doomed |-> {}]

Init ==
    /\ now = 0 /\ quote = 0 /\ evidence \in Evidence
    /\ published = {} /\ orders = <<>>
    /\ lock = [p \in Processes |-> Nobody]
    /\ stage = [c \in Collectors |-> "idle"]
    /\ scan = [c \in Callers |-> Off]
    /\ entry = [c \in Traders \cup Clients |-> NoId]

To(c, s) == stage' = [stage EXCEPT ![c] = s]

-----------------------------------------------------------------------------
(* Collection, and what comes between it and a scan.                        *)

AfterCollect(c) ==
    CASE c \in Cycles    -> "codal"
      [] c \in Triggers  -> "trade"
      [] c \in Backfills -> "history"

(* A collection that is eligible lets its caller go on, with new snapshots  *)
(* or with those it had; one that fails, times out or is not eligible       *)
(* leaves nothing behind.                                                   *)
Collect(c) ==
    /\ stage[c] = "idle" /\ To(c, AfterCollect(c))
    /\ quote' \in {quote, now}
    /\ UNCHANGED <<now, evidence, published, orders, lock, scan, entry>>

(* An exception while the disclosures are stored ends the cycle.            *)
Codal(c) ==
    /\ stage[c] = "codal" /\ \E s \in {"scan", "idle"} : To(c, s)
    /\ UNCHANGED <<market, published, orders, lock, scan, entry>>

(* A history batch that completes no symbol, or too soon after another,     *)
(* makes no scan of its own; an exception in it ends the handler.           *)
Batch(c) ==
    /\ stage[c] = "history" /\ scan[c].step = "off" /\ \E s \in {"scan", "idle"} : To(c, s)
    /\ UNCHANGED <<market, published, orders, lock, scan, entry>>

-----------------------------------------------------------------------------
(* The scan.                                                                *)

(* Mutant: an exception of the scan ends the cycle. *)
AfterScan_Raises(c) == IF c \in Collectors THEN [stage EXCEPT ![c] = "idle"] ELSE stage
(* Whatever became of it.  The history batch of a handler comes before the  *)
(* handler's own scan, which ends it.                                       *)
AfterScan(c) ==
    CASE c \in Cycles    -> [stage EXCEPT ![c] = "trade"]
      [] c \in Backfills -> [stage EXCEPT ![c] = IF @ = "history" THEN "scan" ELSE "idle"]
      [] c \in Jobs      -> stage

LockFree(p) == lock[p] = Nobody

Due(c) ==
    /\ scan[c].step = "off"
    /\ c \in Cycles => stage[c] = "scan"
    /\ c \in Backfills => stage[c] \in {"history", "scan"}

(* The symbols are evaluated with the lock held.                            *)
BeginScan(c) ==
    /\ Due(c) /\ LockFree(Home[c]) /\ evidence.regime
    /\ lock' = [lock EXCEPT ![Home[c]] = c]
    /\ scan' = [scan EXCEPT ![c].step = "look", ![c].found = evidence.found]
    /\ UNCHANGED <<market, published, orders, stage, entry>>

(* Without the lock or a market regime a scan changes nothing: the signals  *)
(* stay, and its caller goes on.                                            *)
SkipScan(c) ==
    /\ Due(c) /\ ~(LockFree(Home[c]) /\ evidence.regime)
    /\ stage' = AfterScan(c)
    /\ UNCHANGED <<market, published, orders, lock, scan, entry>>

Unlocked(c) == [lock EXCEPT ![Home[c]] = Nobody]

EndScan(c) ==
    /\ stage' = AfterScan(c)
    /\ scan' = [scan EXCEPT ![c] = Off]

(* An exception rolls the scan back; the cycle and the history batch catch  *)
(* it, a handler turns it into its answer.                                  *)
FailScan(c) ==
    /\ scan[c].step # "off" /\ lock' = Unlocked(c)
    /\ EndScan(c)
    /\ UNCHANGED <<market, published, orders, entry>>

Look(c) ==
    /\ scan[c].step = "look"
    /\ scan' = [scan EXCEPT ![c].step = "delete", ![c].pending = InOrders]
    /\ UNCHANGED <<market, published, orders, lock, stage, entry>>

(* The deletion is not seen before the commit.                              *)
Visible(doomed) == published

(* Mutant: every signal is replaced, pending orders or not. *)
Doomed_All(c) == published
(* Mutant: the signals of this second are taken for the scan's own. *)
Doomed_Older(c) == {x \in published : Key(x) \notin scan[c].pending /\ x.at < now}
Doomed(c) == {x \in published : Key(x) \notin scan[c].pending}

Delete(c) ==
    /\ scan[c].step = "delete"
    /\ scan' = [scan EXCEPT ![c].step = "publish", ![c].doomed = Doomed(c)]
    /\ published' = Visible(Doomed(c))
    /\ UNCHANGED <<market, orders, lock, stage, entry>>

New(c) == {[symbol |-> s, at |-> now, by |-> Home[c]] : s \in scan[c].found}

(* A key that is taken raises and leads to FailScan.                        *)
Publish(c) ==
    /\ scan[c].step = "publish"
    /\ Keys(New(c)) \cap Keys(published \ scan[c].doomed) = {}
    /\ published' = (published \ scan[c].doomed) \cup New(c)
    /\ lock' = Unlocked(c)
    /\ EndScan(c)
    /\ UNCHANGED <<market, orders, entry>>

ScanStep(c) == FailScan(c) \/ Look(c) \/ Delete(c) \/ Publish(c)

-----------------------------------------------------------------------------
(* Orders.                                                                  *)

Submitted(k) == [signal |-> k, status |-> "SUBMITTED"]

(* process_pending_orders: an order whose signal is gone is rejected, the   *)
(* others wait, fill, or are rejected for another reason.                   *)
Orphans == {k \in Pending : orders[k].signal \notin Keys(published)}

Processed(filled, rejected) ==
    [k \in DOMAIN orders |->
        [orders[k] EXCEPT !.status = CASE k \in filled   -> "FILLED"
                                       [] k \in rejected -> "REJECTED"
                                       [] OTHER          -> @]]

(* run_cycle decides on signals of its own, which it does not find among    *)
(* the published ones, or on nothing.                                       *)
Decide(c) ==
    /\ stage[c] = "trade" /\ To(c, "commit")
    /\ \/ UNCHANGED entry
       \/ \E s \in evidence.found :
            Len(orders) < MaxOrders /\ entry' = [entry EXCEPT ![c] = [symbol |-> s, at |-> now]]
    /\ UNCHANGED <<market, published, orders, lock, scan>>

Missing(k) == IF k \in Keys(published) THEN {}
              ELSE {[symbol |-> k.symbol, at |-> k.at, by |-> Trader]}

(* Its signal, its order and what it made of the pending orders are         *)
(* committed together.                                                      *)
Trade(c) ==
    /\ stage[c] = "commit" /\ To(c, "idle")
    /\ \E filled, rejected \in SUBSET Pending :
         /\ filled \cap rejected = {} /\ Orphans \subseteq rejected
         /\ \/ /\ entry[c] = NoId
               /\ orders' = Processed(filled, rejected) /\ UNCHANGED published
            \/ /\ entry[c] # NoId /\ Len(orders) < MaxOrders
               /\ orders' = Append(Processed(filled, rejected), Submitted(entry[c]))
               /\ published' = published \cup Missing(entry[c])
    /\ entry' = [entry EXCEPT ![c] = NoId]
    /\ UNCHANGED <<market, lock, scan>>

(* An exception rolls the trading cycle back.                               *)
AbortTrade(c) ==
    /\ stage[c] = "commit" /\ To(c, "idle")
    /\ entry' = [entry EXCEPT ![c] = NoId]
    /\ UNCHANGED <<market, published, orders, lock, scan>>

(* What the opportunities page offers and an order may name: signals that   *)
(* are not older than the newest snapshots, while these are fresh.          *)
Fresh    == now - quote <= StaleAfter
Bound(x) == Fresh /\ quote <= x.at
Board    == {x \in published : Bound(x)}

(* A handler reads the signal, and inserts the order later.                 *)
Choose(k) ==
    /\ entry[k] = NoId /\ Len(orders) < MaxOrders
    /\ \E x \in Board : entry' = [entry EXCEPT ![k] = Key(x)]
    /\ UNCHANGED <<market, published, orders, lock, stage, scan>>

Order(k) ==
    /\ entry[k] # NoId /\ Len(orders) < MaxOrders
    /\ orders' = Append(orders, Submitted(entry[k]))
    /\ entry' = [entry EXCEPT ![k] = NoId]
    /\ UNCHANGED <<market, published, lock, stage, scan>>

-----------------------------------------------------------------------------
(* Surroundings.                                                            *)

Tick ==
    /\ now < MaxSeconds /\ now' = now + 1
    /\ evidence' \in Evidence
    /\ UNCHANGED <<quote, published, orders, lock, stage, scan, entry>>

(* A process dies and starts again: its lock is in memory, its transactions *)
(* are rolled back.                                                         *)
Die(p) ==
    LET gone == {c \in Collectors \cup Jobs \cup Clients : Home[c] = p} IN
    /\ lock' = [lock EXCEPT ![p] = Nobody]
    /\ stage' = [c \in Collectors |-> IF c \in gone THEN "idle" ELSE stage[c]]
    /\ scan' = [c \in Callers |-> IF c \in gone THEN Off ELSE scan[c]]
    /\ entry' = [c \in DOMAIN entry |-> IF c \in gone THEN NoId ELSE entry[c]]
    /\ UNCHANGED <<market, published, orders>>

Next ==
    \/ \E c \in Collectors : Collect(c) \/ Codal(c) \/ Batch(c)
    \/ \E c \in Callers : BeginScan(c) \/ SkipScan(c) \/ ScanStep(c)
    \/ \E c \in Traders : Decide(c) \/ Trade(c) \/ AbortTrade(c)
    \/ \E k \in Clients : Choose(k) \/ Order(k)
    \/ Tick
    \/ \E p \in Processes : Die(p)

Spec == Init /\ [][Next]_vars

(* A scan is a thread that is not cancelled and has no wait in it.          *)
FairSpec ==
    /\ Spec
    /\ \A c \in Callers : WF_vars(ScanStep(c))
    /\ \A c \in Cycles : WF_vars(BeginScan(c) \/ SkipScan(c))

-----------------------------------------------------------------------------
(* Properties.                                                              *)

RadarTypeOK ==
    /\ now \in 0..MaxSeconds /\ quote \in 0..now /\ evidence \in Evidence
    /\ published \subseteq Signal /\ orders \in Seq([signal : Id, status : Status])
    /\ lock \in [Processes -> Callers \cup {Nobody}]
    /\ stage \in [Collectors -> Stages]
    /\ scan \in [Callers -> [step : Steps, found : SUBSET Symbols, pending : SUBSET Id,
                             doomed : SUBSET Signal]]
    /\ entry \in [Traders \cup Clients -> Id \cup {NoId}]

Publishes(c) == scan[c].step = "publish" /\ scan'[c].step = "off" /\ published' # published

(* A process runs at most one scan, and the lock names it.                   *)
OneScanPerProcess ==
    \A c \in Callers : scan[c].step # "off" <=> lock[Home[c]] = c

(* "Serialize scans so scheduler/backfill cannot race signal publication":   *)
(* when a scan has published, a signal of another scan of its process is     *)
(* left only for an order that was pending.                                  *)
OneScanShown ==
    [][\A c \in Callers : Publishes(c) =>
         \A x \in published' : x.by = Home[c] => x \in New(c) \/ Key(x) \in scan[c].pending]_vars

(* A scan leaves the signals of the orders that it has seen pending.         *)
ScanKeepsPending ==
    [][\A c \in Callers : Publishes(c) =>
         scan[c].pending \cap Keys(published) \subseteq Keys(published')]_vars

(* "Other snapshots are replaced atomically": no reader finds a symbol       *)
(* without its signal unless a scan has just found that it has none.         *)
ShownUntilRefuted ==
    [][\A x \in published :
         (\A y \in published' : y.symbol # x.symbol)
            => \E c \in Callers : scan[c].step = "publish" /\ x.symbol \notin scan[c].found]_vars

(* No scan keeps the lock for ever: not if it fails, finds no regime or dies.*)
LockReturns == \A p \in Processes : lock[p] # Nobody ~> lock[p] = Nobody

(* A scan that fails or is skipped does not keep its cycle from trading,     *)
(* which is when exits are reviewed: the cycle does not stay with its scan,  *)
(* and unless its process dies it goes on to trade.                          *)
ScanLetsTrade ==
    /\ \A c \in Cycles : stage[c] = "scan" ~> stage[c] # "scan"
    /\ [][\A c \in Cycles : stage[c] = "scan" /\ stage'[c] # "scan" =>
            stage'[c] = "trade" \/ Die(Home[c])]_vars

(* Every scan ends, whatever becomes of it, and lets others go on.           *)
ScansEnd == LockReturns /\ ScanLetsTrade
=============================================================================
