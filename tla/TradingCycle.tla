---------------------------- MODULE TradingCycle ----------------------------
(***************************************************************************)
(* AutoPaperTrader.run_cycle and _check_exits                              *)
(* (services/paper_broker/auto_trader.py), driving the paper broker.       *)
(*                                                                         *)
(* A cycle processes pending SELL orders, reviews every open position,     *)
(* passes the entry gates, processes pending BUY orders, submits new       *)
(* entries and books an equity snapshot, all in one transaction.  What it  *)
(* reads through portfolio.positions and portfolio.orders is what these    *)
(* collections held when they were first loaded: the session does not      *)
(* autoflush, and rows it adds never enter a loaded collection.            *)
(***************************************************************************)
EXTENDS PaperBroker

CONSTANTS MaxNew,       \* new entries per cycle (3)
          CycleTrim,    \* trim_fraction, in percent (25)
          KillPercent   \* dd_kill_switch_pct (12)

ASSUME CycleAssumption ==
    /\ MaxNew \in Nat
    /\ CycleTrim \in TrimPercents
    /\ KillPercent \in 1..100

VARIABLES
    phase,      \* where run_cycle is
    queue,      \* orders the current process_pending_orders call still has
    held,       \* the cached portfolio.positions
    seen,       \* the cached portfolio.orders,
    loaded,     \* once it is loaded
    todo,       \* positions _check_exits has not finished
    tried,      \* symbols whose new entry has been tried
    nav, peak   \* last and highest total_equity of the PortfolioSnapshot rows

cycle     == <<phase, queue, held, seen, loaded, todo, tried>>
equity    == <<nav, peak>>
cycleVars == <<vars, cycle, equity>>

Phases == {"idle", "sell", "mark", "adjust", "time", "exit", "blocked", "buy", "enter"}

CycleInit ==
    /\ Init
    /\ phase = "idle"
    /\ queue = {} /\ held = {} /\ seen = {} /\ loaded = FALSE /\ todo = {} /\ tried = {}
    /\ nav = InitialCash /\ peak = InitialCash  \* the opening snapshot

Return ==
    /\ phase' = "idle"
    /\ queue' = {} /\ held' = {} /\ seen' = {} /\ loaded' = FALSE /\ todo' = {} /\ tried' = {}

-----------------------------------------------------------------------------
(* process_pending_orders: one query, then the orders, oldest first.        *)

PendingOf(side) ==
    {o \in OrderIds : IsPending(committed.orders[o]) /\ committed.orders[o].side = side}

Oldest == {o \in queue : \A k \in queue : orders[o].created <= orders[k].created}

(* Mutant: an order is dropped when the market has nothing new. *)
NothingLater_Rejects(o) ==
    /\ NextSnapshots(orders[o].symbol, orders[o].cursor) = {}
    /\ orders' = [orders EXCEPT ![o].status = "REJECTED"]
    /\ UNCHANGED <<cash, realized, positions, logs, closed, fills, ledger, signals, committed,
                   session, visible, kill, killSeen, requests, market, outcome>>

(* No later fresh snapshot: the order stays as it is. *)
NothingLater(o) ==
    /\ orders[o].side = "BUY" => EntryAdmitted(orders[o])
    /\ NextSnapshots(orders[o].symbol, orders[o].cursor) = {}
    /\ UNCHANGED vars

ProcessNext ==
    /\ phase \in {"sell", "blocked", "buy"}
    /\ \E o \in Oldest :
        \/ /\ \/ NothingLater(o)
              \/ RejectEntry(o)
              \/ \E i \in DOMAIN snapshots[orders[o].symbol] :
                    NotFilled(o, i) \/ BuyFill(o, i) \/ SellFill(o, i)
           /\ queue' = queue \ {o}
           /\ UNCHANGED <<phase, held, seen, loaded, todo, tried>>
        \/ /\ \E i \in DOMAIN snapshots[orders[o].symbol] : Raise(o, i)
           /\ Return
    /\ UNCHANGED equity

StartCycle ==
    /\ phase = "idle"
    /\ Begin
    /\ phase' = "sell"
    /\ queue' = PendingOf("SELL")
    /\ UNCHANGED <<held, seen, loaded, todo, tried, equity>>

StartReview ==
    /\ phase = "sell" /\ queue = {}
    /\ phase' = "mark"
    /\ held' = DOMAIN positions
    /\ todo' = OpenPositions(positions)
    /\ UNCHANGED <<vars, queue, seen, loaded, tried, equity>>

-----------------------------------------------------------------------------
(* _check_exits, position by position.                                      *)

(* In some fixed order: the collection has no order of its own. *)
Current == CHOOSE p \in todo : TRUE

FinishPosition == /\ phase' = "mark"
                 /\ todo' = todo \ {Current}

(* portfolio.orders as an order-creating call of the broker reads it. *)
Collection ==
    IF loaded THEN seen ELSE {o \in OrderIds : committed.orders[o].status # "NONE"}

ReadCollection == loaded' = TRUE /\ seen' = Collection

(* The mark price is kept for the rest of the review.  A reason to exit     *)
(* (target, stop, deterioration) found now rules out scaling and trimming.  *)
Mark ==
    /\ phase = "mark" /\ todo # {}
    /\ \/ /\ MarkPosition(Current)
          /\ phase' \in {"adjust", "exit"}
          /\ UNCHANGED todo
       \/ /\ LatestSnapshots(positions[Current].symbol) = {}
          /\ FinishPosition
          /\ UNCHANGED vars
    /\ UNCHANGED <<queue, held, seen, loaded, tried, equity>>

Price == positions[Current].current

(* Scale-in (0.5R to 1R) and trim (from 2R) need a price above the average. *)
Adjust ==
    /\ phase = "adjust"
    /\ \/ /\ Price > positions[Current].average
          /\ \/ ~positions[Current].scaled /\ SubmitScaleIn(Current, held, Collection, Price)
             \/ ~positions[Current].trimmed
                /\ SubmitExit(Current, held, Collection, CycleTrim, Price)
          /\ ReadCollection
       \/ /\ UNCHANGED vars
          /\ UNCHANGED <<seen, loaded>> \/ ReadCollection
    /\ phase' = "time"
    /\ UNCHANGED <<queue, held, todo, tried, equity>>

TimeStop ==
    /\ phase = "time"
    /\ \/ phase' = "exit" /\ UNCHANGED todo
       \/ FinishPosition
    /\ UNCHANGED <<vars, queue, held, seen, loaded, tried, equity>>

(* A full exit; "all sellable volume already reserved" submits nothing, nor *)
(* does the model once its order table is full.                             *)
Exit ==
    /\ phase = "exit"
    /\ \/ SubmitExit(Current, held, Collection, 100, Price)
       \/ /\ \/ ExitQuantity(positions, orders, Collection, Current, 100) = 0
             \/ FreeIds = {}
          /\ UNCHANGED vars
    /\ ReadCollection
    /\ FinishPosition
    /\ UNCHANGED <<queue, held, tried, equity>>

-----------------------------------------------------------------------------
(* The entry gates, and the pending entries.                                *)

(* Kill switch or closed campaign window: the BUY pass only rejects. *)
Blocked == killSeen \/ ~InWindow

ReviewDone == phase = "mark" /\ todo = {}

StartBuys ==
    /\ ReviewDone
    /\ phase' = IF Blocked THEN "blocked" ELSE "buy"
    /\ queue' = PendingOf("BUY")
    /\ UNCHANGED <<vars, held, seen, loaded, todo, tried, equity>>

(* The data gate refuses, a blocked BUY pass is over, or there is no market *)
(* regime: commit and return without an equity snapshot.                    *)
ReturnEarly ==
    /\ \/ ReviewDone /\ ~Blocked
       \/ phase \in {"blocked", "buy"} /\ queue = {}
    /\ Commit(FALSE)
    /\ Return
    /\ UNCHANGED equity

StartEntries ==
    /\ phase = "buy" /\ queue = {}
    /\ phase' = "enter"
    /\ UNCHANGED <<vars, queue, held, seen, loaded, todo, tried, equity>>

-----------------------------------------------------------------------------
(* New entries and the equity snapshot.                                     *)

HeldOpen == {p \in held : positions[p].open}

Room == Lesser(MaxNew, Greater(0, MaxActive - Cardinality(HeldOpen)))

(* A symbol with an open position in the collection is skipped; the best of *)
(* the others get one freshly assembled signal each.  The risk gates of the *)
(* broker may decline it.                                                   *)
Enter ==
    /\ phase = "enter"
    /\ Cardinality(tried) < Room
    /\ \E g \in Signals :
        /\ ~IsPublished(signals, g)
        /\ SymbolOf[g] \notin tried
        /\ \A p \in HeldOpen : positions[p].symbol # SymbolOf[g]
        /\ tried' = tried \cup {SymbolOf[g]}
        /\ SubmitEntry(g, held, Collection)
    /\ ReadCollection
    /\ UNCHANGED <<phase, queue, held, todo, equity>>

(* Mutant: realized profit is counted although cash already holds it. *)
TotalEquity_Twice == cash + realized + PositionsValue(positions, held)

TotalEquity == cash + PositionsValue(positions, held)

NewPeak == Greater(peak, TotalEquity)

DeepDrawdown == (NewPeak - TotalEquity) * 100 >= KillPercent * NewPeak

Book ==
    /\ phase = "enter"
    /\ nav' = TotalEquity
    /\ peak' = NewPeak
    /\ Commit(DeepDrawdown)
    /\ Return

CrashCycle == Crash /\ Return /\ UNCHANGED equity

-----------------------------------------------------------------------------
CycleStep ==
    \/ StartReview \/ ProcessNext
    \/ Mark \/ Adjust \/ TimeStop \/ Exit
    \/ StartBuys \/ ReturnEarly \/ StartEntries \/ Enter \/ Book

Others == (Market \/ Api) /\ UNCHANGED <<cycle, equity>>

CycleNext == StartCycle \/ CycleStep \/ CrashCycle \/ Others

CycleSpec == CycleInit /\ [][CycleNext]_cycleVars

-----------------------------------------------------------------------------
(* Properties.                                                              *)

CycleTypeOK ==
    /\ TypeOK
    /\ phase \in Phases
    /\ queue \subseteq OrderIds
    /\ held \subseteq DOMAIN positions /\ todo \subseteq DOMAIN positions
    /\ seen \subseteq OrderIds /\ loaded \in BOOLEAN
    /\ tried \subseteq Symbols
    /\ phase = "idle" <=> session = "idle"

(* A cycle books at most what the database holds after it: cash and open    *)
(* positions at their mark prices; stale collections can only miss value.   *)
EquityNotOverstated ==
    [][nav' # nav => nav' <= committed'.cash
                        + PositionsValue(committed'.positions, DOMAIN committed'.positions)]_cycleVars

(* Every step of a cycle is one the broker's interface allows: the cycle    *)
(* implements the nondeterministic session of PaperBroker, so what is       *)
(* proved there for any caller holds for it.                                *)
CycleUsesBroker == [][Next]_vars

-----------------------------------------------------------------------------
(* Claims of the repository that the code does not keep.                    *)

(* "All sellable volume already reserved" (ledger.py:752): the orders that  *)
(* may still sell shares of a position sell at most what it holds.          *)
ExitsCovered ==
    \A p \in OpenPositions(committed.positions) :
        PendingSell(committed.orders, OrderIds, p) <= committed.positions[p].qty

(* "Drawdown >= 12 % from High Water Mark: HARD KILL SWITCH"                *)
(* (docs/RISK_POLICY.md:49): a cycle trips the switch only when what the    *)
(* portfolio is worth after it lies that far below the highest equity ever  *)
(* booked (Step 5 of run_cycle, auto_trader.py:310-322).                    *)
KillIsEarned ==
    [][phase # "idle" /\ phase' = "idle" /\ ~kill /\ kill' =>
        LET worth == committed'.cash
                     + PositionsValue(committed'.positions, DOMAIN committed'.positions)
        IN  (Greater(peak, worth) - worth) * 100 >= KillPercent * Greater(peak, worth)]_cycleVars
=============================================================================
