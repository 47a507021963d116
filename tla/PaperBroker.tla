---------------------------- MODULE PaperBroker ----------------------------
(***************************************************************************)
(* The paper broker (services/paper_broker/ledger.py) and the HTTP         *)
(* handlers that submit orders to it (apps/api/routes/paper.py), over the  *)
(* database they share.                                                    *)
(*                                                                         *)
(* One session at a time, the trading cycle's, fills orders: it reads and  *)
(* writes the working tables and ends with Commit or, when an exception    *)
(* leaves run_cycle, with Abort.  The tables of the last commit are kept   *)
(* in "committed"; they are what every API handler reads.  A handler has   *)
(* its own session: it decides on an order from the committed tables and   *)
(* inserts it some time later, without a lock.                             *)
(*                                                                         *)
(* The broker does not fix the order in which a session calls it, nor      *)
(* which orders the session's cached collection portfolio.orders holds     *)
(* ("seen"): TradingCycle, which extends this module, does.                *)
(***************************************************************************)
EXTENDS Execution, Sequences, FiniteSetsExt

CONSTANTS Symbols, Signals, SymbolOf, NoSignal,  \* a signal belongs to a symbol
          Clients,                               \* concurrent API requests
          InitialCash,
          MaxOrders, MaxTime,                    \* bounds of the model
          SizedQuantities,                       \* what the sizing solver may allow
          CampaignEnd,                           \* the campaign's ends_at
          KillRequests,                          \* what an operator asks of the kill switch
          MaxLag,                                \* oldest snapshot that still arrives
          Prices, VolumeSteps,                   \* what a snapshot may report
          StaleAfter,                            \* critical_market_stale_seconds
          DayLength,                             \* clock units of one trading date
          TrimPercents, ScalePercent,            \* size of a trim, of a scale-in
          WeightCapPercent,                      \* normal_max_position_weight_pct
          MaxActive                              \* max_active_positions

OrderIds == 1..MaxOrders

ASSUME BrokerAssumption ==
    /\ Symbols # {}
    /\ SymbolOf \in [Signals -> Symbols]
    /\ NoSignal \notin Signals
    /\ InitialCash \in Nat
    /\ MaxOrders \in Nat /\ MaxTime \in Nat /\ MaxLag \in Nat
    /\ SizedQuantities \subseteq Nat \ {0}
    /\ CampaignEnd \in Nat
    /\ KillRequests \subseteq BOOLEAN
    /\ Prices \subseteq LimitDown..LimitUp
    /\ VolumeSteps \subseteq Nat
    /\ StaleAfter \in Nat
    /\ DayLength \in Nat \ {0}
    /\ TrimPercents \subseteq 1..99
    /\ ScalePercent \in 1..99
    /\ WeightCapPercent \in Nat
    /\ MaxActive \in Nat

VARIABLES
    cash, realized, orders, positions, logs, closed, fills, ledger, signals,
                \* working tables: Portfolio.cash and .realized_pnl, BrokerOrder,
                \* Position, PaperTradeLog, ClosedTradeHistory, OrderFill,
                \* CashLedger, and the publication time of each PublishedSignal
    committed,  \* the tables at the last commit
    session,    \* "idle" or "open": the trading cycle's transaction
    visible,    \* positions and logs flushed so far: what a query can find
    kill,       \* committed Portfolio.kill_switch_active
    killSeen,   \* its value when the open session loaded the portfolio
    requests,   \* per API client, the order it is about to insert
    snapshots,  \* trusted market snapshots of a symbol, oldest first
    lapsed,     \* signals that expired or are no longer actionable
    now,
    outcome     \* how the last cycle ended (auto_trader.last_error)

tables  == <<cash, realized, orders, positions, logs, closed, fills, ledger, signals>>
market  == <<snapshots, lapsed, now>>
vars    == <<tables, committed, session, visible, kill, killSeen, requests, market, outcome>>

-----------------------------------------------------------------------------
(* Records of the database. *)

Statuses == {"NONE", "SUBMITTED", "PARTIALLY_FILLED", "FILLED", "REJECTED"}
OrderTypes == {"LIMIT", "SCALE_IN", "TRIM", "EXIT"}

Order == [status : Statuses, side : {"BUY", "SELL"}, type : OrderTypes,
          symbol : Symbols, signal : Signals \cup {NoSignal}, position : Nat,
          price : Nat, qty : Nat, filled : Nat, created : Nat, cursor : Nat]

Position == [symbol : Symbols, qty : Nat, average : Nat, invested : Nat,
             current : Nat, open : BOOLEAN, trimmed : BOOLEAN, scaled : BOOLEAN]

TradeLog == [symbol : Symbols, entryOrder : OrderIds, entry : Nat, qty : Nat, invested : Nat,
             exit : Nat, gross : Int, net : Int, closed : BOOLEAN]

ClosedTrade == [position : Nat, log : Nat, symbol : Symbols, qty : Nat, net : Int, at : Nat]

Fill == [order : OrderIds, symbol : Symbols, side : {"BUY", "SELL"},
         qty : Nat, price : Nat, net : Int, at : Nat]

(* The opening row of a campaign belongs to no order. *)
LedgerRow == [order : 0..MaxOrders, amount : Int, balance : Nat]

Snapshot == [at : Nat, price : LimitDown..LimitUp, volume : Nat]

SomeSymbol == CHOOSE s \in Symbols : TRUE

NewOrder(side, type, symbol, signal, position, price, qty) ==
    [status |-> "SUBMITTED", side |-> side, type |-> type, symbol |-> symbol,
     signal |-> signal, position |-> position, price |-> price, qty |-> qty,
     filled |-> 0, created |-> now, cursor |-> now]

NoOrder == [status |-> "NONE", side |-> "BUY", type |-> "LIMIT", symbol |-> SomeSymbol,
            signal |-> NoSignal, position |-> 0, price |-> 0, qty |-> 0,
            filled |-> 0, created |-> 0, cursor |-> 0]

IsPending(order) == order.status \in {"SUBMITTED", "PARTIALLY_FILLED"}

-----------------------------------------------------------------------------
(* Market data and the conditions of an entry. *)

(* The campaign's execution window; it opened before the model starts. *)
InWindow == now <= CampaignEnd

Day(time) == time \div DayLength

Fresh(symbol) ==
    {i \in DOMAIN snapshots[symbol] : snapshots[symbol][i].at + StaleAfter >= now}

(* latest_trusted_market_snapshot(after = ...): the earliest later one. *)
NextSnapshots(symbol, after) ==
    {i \in Fresh(symbol) :
        /\ snapshots[symbol][i].at > after
        /\ \A j \in Fresh(symbol) : snapshots[symbol][j].at > after => i <= j}

(* latest_trusted_market_snapshot() without after: the newest one. *)
LatestSnapshots(symbol) ==
    {i \in Fresh(symbol) : \A j \in Fresh(symbol) : j <= i}

PriorSnapshots(symbol, after) ==
    {i \in DOMAIN snapshots[symbol] :
        /\ snapshots[symbol][i].at <= after
        /\ \A j \in DOMAIN snapshots[symbol] : snapshots[symbol][j].at <= after => j <= i}

(* Volume traded between the previous snapshot of the same day and i; no    *)
(* such snapshot means no fill, like a volume that did not grow.            *)
IncrementalVolume(symbol, after, i) ==
    LET same == {j \in PriorSnapshots(symbol, after) :
                    Day(snapshots[symbol][j].at) = Day(snapshots[symbol][i].at)}
    IN  IF same = {} THEN 0
        ELSE LET j == CHOOSE j \in same : TRUE
             IN  Greater(0, snapshots[symbol][i].volume - snapshots[symbol][j].volume)

FlatBar(price, volume) == [open |-> price, low |-> price, high |-> price, volume |-> volume]

BarAt(order, i) ==
    FlatBar(snapshots[order.symbol][i].price,
            IncrementalVolume(order.symbol, order.cursor, i))

IsPublished(published, signal) == published[signal] <= now

(* Mutant: the kill switch only stops new orders. *)
EntryAdmitted_NoKill(order) ==
    /\ InWindow
    /\ order.type = "LIMIT" =>
          /\ IsPublished(signals, order.signal)
          /\ order.signal \notin lapsed

(* The gates a BUY passes each time it is considered for a fill. *)
EntryAdmitted(order) ==
    /\ InWindow
    /\ ~killSeen
    /\ order.type = "LIMIT" =>
          /\ IsPublished(signals, order.signal)
          /\ order.signal \notin lapsed

-----------------------------------------------------------------------------
(* Quantities a submitted order may have. *)

PendingSell(ords, seen, position) ==
    MapThenSumSet(LAMBDA o : Remaining(ords[o]),
                  {o \in seen : /\ ords[o].side = "SELL"
                                /\ ords[o].position = position
                                /\ IsPending(ords[o])})

(* A full exit takes all that is not already in a seen exit order, a trim   *)
(* a share of the position, at least one and at most what is left.          *)
ExitQuantity(poss, ords, seen, p, percent) ==
    LET available == Greater(0, poss[p].qty - PendingSell(ords, seen, p))
    IN  IF percent >= 100 THEN available
        ELSE Lesser(available, Greater(1, (poss[p].qty * percent) \div 100))

Reserved(ords, seen, statuses) ==
    MapThenSumSet(LAMBDA o : BuyNet(ords[o].qty, ords[o].price),
                  {o \in seen : ords[o].side = "BUY" /\ ords[o].status \in statuses})

ReservedRemaining(ords, seen) ==
    MapThenSumSet(LAMBDA o : BuyNet(Remaining(ords[o]), ords[o].price),
                  {o \in seen : ords[o].side = "BUY" /\ IsPending(ords[o])})

PositionsValue(poss, held) ==
    SumFunctionOnSet([p \in DOMAIN poss |-> Value(poss[p].qty, poss[p].current)],
                     {p \in held : poss[p].open})

OpenPositions(poss) == {p \in DOMAIN poss : poss[p].open}

ScaleQuantity(cashNow, poss, held, p, price) ==
    LET nav  == cashNow + PositionsValue(poss, held)
        room == Greater(0, (nav * WeightCapPercent) \div 100 - Value(poss[p].qty, price))
    IN  Lesser(Greater(1, (poss[p].qty * ScalePercent) \div 100),
               room \div (price * FeeScale))

-----------------------------------------------------------------------------
(* What each order-creating method of the broker returns: an order, or no   *)
(* order when a guard rejects the request.  "seen" is the set of orders and *)
(* "held" the set of positions in the caller's cached collections.          *)

(* create_order_from_signal.  The sizing solver recommends some quantity and *)
(* refuses a full portfolio; a caller may ask for less.                     *)
EntryOrders(cashNow, poss, held, ords, seen, signal, price) ==
    {NewOrder("BUY", "LIMIT", SymbolOf[signal], signal, 0, price, q) :
        q \in {n \in SizedQuantities :
                  /\ Cardinality({p \in held : poss[p].open}) < MaxActive
                  /\ BuyNet(n, price)
                        <= Greater(0, cashNow - Reserved(ords, seen, {"SUBMITTED"}))}}

(* scale_in_position: never below the average entry price. *)
ScaleInOrders(cashNow, poss, held, ords, seen, p, price) ==
    {NewOrder("BUY", "SCALE_IN", poss[p].symbol, NoSignal, p, price, q) :
        q \in {n \in 1..poss[p].qty :
                  /\ p \in held /\ poss[p].open
                  /\ price >= poss[p].average
                  /\ n = ScaleQuantity(cashNow, poss, held, p, price)
                  /\ BuyNet(n, price) <= Greater(0, cashNow - ReservedRemaining(ords, seen))}}

(* create_exit_order, full (100) or partial. *)
ExitOrders(poss, held, ords, seen, p, percent, price) ==
    {NewOrder("SELL", IF percent >= 100 THEN "EXIT" ELSE "TRIM",
              poss[p].symbol, NoSignal, p, price, q) :
        q \in {n \in 1..poss[p].qty :
                  /\ p \in held /\ poss[p].open
                  /\ n = ExitQuantity(poss, ords, seen, p, percent)}}

(* Insert a row under a new identifier. *)
FreeIds == {o \in OrderIds : orders[o].status = "NONE"}
NewIds  == {o \in FreeIds : \A k \in FreeIds : o <= k}

-----------------------------------------------------------------------------
Working == [cash |-> cash, realized |-> realized, orders |-> orders,
            positions |-> positions, logs |-> logs, closed |-> closed,
            fills |-> fills, ledger |-> ledger, signals |-> signals]

Unpublished == MaxTime + 1

(* A new campaign, with the opening row of its cash ledger. *)
Init ==
    /\ cash = InitialCash /\ realized = 0
    /\ orders = [o \in OrderIds |-> NoOrder]
    /\ positions = <<>> /\ logs = <<>> /\ closed = <<>> /\ fills = <<>>
    /\ ledger = <<[order |-> 0, amount |-> InitialCash, balance |-> InitialCash]>>
    /\ signals = [g \in Signals |-> Unpublished]
    /\ committed = Working
    /\ session = "idle" /\ visible = 0 /\ killSeen = FALSE
    /\ kill = FALSE
    /\ requests = [c \in Clients |-> NoOrder]
    /\ snapshots = [s \in Symbols |-> <<>>]
    /\ lapsed = {} /\ now = 0
    /\ outcome = "ok"

-----------------------------------------------------------------------------
(* The market and the other writers of the database. *)

Tick ==
    /\ now < MaxTime
    /\ now' = now + 1
    /\ UNCHANGED <<tables, committed, session, visible, kill, killSeen, requests,
                   snapshots, lapsed, outcome>>

(* The collector stores a snapshot taken at "at", possibly some time ago.   *)
(* Volume is cumulative within a trading date.  A row that repeats the time *)
(* of the symbol's last trade is left out: no query tells it from that row. *)
ArriveSnapshot(s, at, price, step) ==
    LET last   == Len(snapshots[s])
        before == IF last > 0 /\ Day(snapshots[s][last].at) = Day(at)
                  THEN snapshots[s][last].volume ELSE 0
    IN  /\ last > 0 => snapshots[s][last].at < at
        /\ snapshots' = [snapshots EXCEPT ![s] =
                Append(@, [at |-> at, price |-> price, volume |-> before + step])]
        /\ UNCHANGED <<tables, committed, session, visible, kill, killSeen, requests,
                       lapsed, now, outcome>>

(* A radar scan publishes a signal in a transaction of its own. *)
PublishSignal(g) ==
    /\ ~IsPublished(signals, g)
    /\ signals' = [signals EXCEPT ![g] = now]
    /\ committed' = [committed EXCEPT !.signals[g] = now]
    /\ UNCHANGED <<cash, realized, orders, positions, logs, closed, fills, ledger, session,
                   visible, kill, killSeen, requests, market, outcome>>

(* It expires, is replaced by the next scan, or loses its actionable flag. *)
LapseSignal(g) ==
    /\ IsPublished(signals, g)
    /\ lapsed' = lapsed \cup {g}
    /\ UNCHANGED <<tables, committed, session, visible, kill, killSeen, requests,
                   snapshots, now, outcome>>

-----------------------------------------------------------------------------
(* API handlers.  Each decides on an order from the committed tables ...    *)

Decide(c, possible) ==
    /\ requests[c].status = "NONE"
    /\ \E order \in possible : requests' = [requests EXCEPT ![c] = order]
    /\ UNCHANGED <<tables, committed, session, visible, kill, killSeen, market, outcome>>

Held == DOMAIN committed.positions

ApiFromSignal(c, g) ==
    /\ InWindow /\ ~kill
    /\ IsPublished(committed.signals, g) /\ g \notin lapsed
    /\ \E i \in LatestSnapshots(SymbolOf[g]) :
        LET shot == snapshots[SymbolOf[g]][i]
        IN  /\ committed.signals[g] >= shot.at
            /\ Decide(c, EntryOrders(committed.cash, committed.positions, Held,
                                     committed.orders, OrderIds, g, shot.price))

ApiScaleIn(c, p) ==
    /\ InWindow /\ ~kill
    /\ \E i \in LatestSnapshots(committed.positions[p].symbol) :
        Decide(c, ScaleInOrders(committed.cash, committed.positions, Held, committed.orders,
                                OrderIds, p, snapshots[committed.positions[p].symbol][i].price))

(* close-position is percent = 100, trim one of TrimPercents. *)
ApiExit(c, p, percent) ==
    \E i \in LatestSnapshots(committed.positions[p].symbol) :
        Decide(c, ExitOrders(committed.positions, Held, committed.orders, OrderIds, p, percent,
                             snapshots[committed.positions[p].symbol][i].price))

(* ... and inserts it later, whatever has been committed in between. *)
ApiCommit(c) ==
    /\ requests[c].status # "NONE"
    /\ \E id \in NewIds :
        /\ orders' = [orders EXCEPT ![id] = requests[c]]
        /\ committed' = [committed EXCEPT !.orders[id] = requests[c]]
    /\ requests' = [requests EXCEPT ![c] = NoOrder]
    /\ UNCHANGED <<cash, realized, positions, logs, closed, fills, ledger, signals, session,
                   visible, kill, killSeen, market, outcome>>

ApiKill(active) ==
    /\ kill' = active
    /\ UNCHANGED <<tables, committed, session, visible, killSeen, requests, market, outcome>>

-----------------------------------------------------------------------------
(* The cycle's session: process_pending_orders on one order.                *)

Begin ==
    /\ session = "idle"
    /\ session' = "open"
    /\ visible' = Len(positions)
    /\ killSeen' = kill
    /\ UNCHANGED <<tables, committed, kill, requests, market, outcome>>

RejectEntry(o) ==
    /\ session = "open"
    /\ IsPending(orders[o]) /\ orders[o].side = "BUY"
    /\ ~EntryAdmitted(orders[o])
    /\ orders' = [orders EXCEPT ![o].status = "REJECTED"]
    /\ UNCHANGED <<cash, realized, positions, logs, closed, fills, ledger, signals, committed,
                   session, visible, kill, killSeen, requests, market, outcome>>

(* The order is looked at against snapshot i, which moves its cursor: the   *)
(* latest of its creation, its last fill and its last evaluated snapshot.   *)
Considers(o, i) ==
    /\ session = "open"
    /\ IsPending(orders[o])
    /\ orders[o].side = "BUY" => EntryAdmitted(orders[o])
    /\ i \in NextSnapshots(orders[o].symbol, orders[o].cursor)

At(o, i)     == snapshots[orders[o].symbol][i].at
Traded(o, i) == BarAt(orders[o], i).volume > 0
Result(o, i) == Simulate(orders[o], BarAt(orders[o], i))

(* Mutant: the cursor stays where it was. *)
Evaluated_NoCursor(o, i) ==
    [orders EXCEPT ![o].status = Result(o, i).status,
                   ![o].filled = @ + Result(o, i).qty]

Evaluated(o, i) ==
    [orders EXCEPT ![o].cursor = At(o, i),
                   ![o].status = Result(o, i).status,
                   ![o].filled = @ + Result(o, i).qty]

(* No volume since the previous snapshot, or no fill from the simulator. *)
NotFilled(o, i) ==
    /\ Considers(o, i)
    /\ IF Traded(o, i) THEN /\ Result(o, i).qty = 0
                            /\ orders' = Evaluated(o, i)
                       ELSE orders' = [orders EXCEPT ![o].cursor = At(o, i)]
    /\ UNCHANGED <<cash, realized, positions, logs, closed, fills, ledger, signals, committed,
                   session, visible, kill, killSeen, requests, market, outcome>>

Filled(o, i) == Considers(o, i) /\ Traded(o, i) /\ Result(o, i).qty > 0

(* What the broker's queries can find: flushed rows only. *)
PositionsFound(o) ==
    {p \in DOMAIN positions :
        /\ p <= visible /\ positions[p].open
        /\ IF orders[o].side = "BUY" /\ orders[o].type = "LIMIT"
           THEN positions[p].symbol = orders[o].symbol
           ELSE p = orders[o].position}

LogsFound(symbol) ==
    {l \in DOMAIN logs : l <= visible /\ logs[l].symbol = symbol /\ ~logs[l].closed}

FillNet(o, i) ==
    LET r == Result(o, i)
    IN  IF orders[o].side = "BUY" THEN BuyNet(r.qty, r.price) ELSE SellNet(r.qty, r.price)

(* Mutant: the fill is paid without its fees. *)
Affordable_NoFees(o, i) == Value(Result(o, i).qty, Result(o, i).price) <= cash

Affordable(o, i) == FillNet(o, i) <= cash

Row(o, amount) == [order |-> o, amount |-> amount, balance |-> cash + amount]

RecordFill(o, i, amount) ==
    /\ orders' = Evaluated(o, i)
    /\ fills' = Append(fills, [order |-> o, symbol |-> orders[o].symbol,
                               side |-> orders[o].side, qty |-> Result(o, i).qty,
                               price |-> Result(o, i).price, net |-> FillNet(o, i),
                               at |-> At(o, i)])
    /\ cash' = cash + amount
    /\ ledger' = Append(ledger, Row(o, amount))

(* The trade log follows the position the fill went into. *)
LogEntry(o, position) ==
    IF LogsFound(orders[o].symbol) = {}
    THEN logs' = Append(logs, [symbol |-> orders[o].symbol, entryOrder |-> o,
                               entry |-> position.average, qty |-> position.qty,
                               invested |-> position.invested, exit |-> 0,
                               gross |-> 0, net |-> 0, closed |-> FALSE])
    ELSE \E l \in LogsFound(orders[o].symbol) :
            logs' = [logs EXCEPT ![l].entry = position.average, ![l].qty = position.qty,
                                 ![l].invested = position.invested]

NewPosition(o, i) ==
    [symbol |-> orders[o].symbol, qty |-> Result(o, i).qty, average |-> Result(o, i).price,
     invested |-> FillNet(o, i), current |-> Result(o, i).price,
     open |-> TRUE, trimmed |-> FALSE, scaled |-> FALSE]

(* The average price is rounded down to a price unit. *)
Increased(o, i, old) ==
    LET r   == Result(o, i)
        qty == old.qty + r.qty
    IN  [old EXCEPT !.qty = qty,
                    !.average  = (old.average * old.qty + r.price * r.qty) \div qty,
                    !.current  = r.price,
                    !.invested = @ + FillNet(o, i),
                    !.scaled   = @ \/ orders[o].type = "SCALE_IN"]

BuyFill(o, i) ==
    /\ orders[o].side = "BUY"
    /\ Filled(o, i)
    /\ Affordable(o, i)
    /\ RecordFill(o, i, -FillNet(o, i))
    /\ \/ /\ orders[o].type = "LIMIT" /\ PositionsFound(o) = {}
          /\ positions' = Append(positions, NewPosition(o, i))
          /\ LogEntry(o, NewPosition(o, i))
       \/ \E p \in PositionsFound(o) :
            /\ positions' = [positions EXCEPT ![p] = Increased(o, i, @)]
            /\ LogEntry(o, Increased(o, i, positions[p]))
    /\ UNCHANGED <<realized, closed, signals, committed, session, visible, kill, killSeen,
                   requests, market, outcome>>

(* Mutant: sold shares carry their entry price, without the entry fees. *)
Allocated_NoFees(p, qty) == Value(qty, positions[p].average)

(* The share of the position's cost that the sold shares carry.  It is      *)
(* rounded down; the last sale takes all that is left.                      *)
Allocated(p, qty) == (positions[p].invested * qty) \div positions[p].qty

(* Mutant: a partial fill sells the whole order. *)
Reduced_Whole(o, i, old, cost) ==
    [old EXCEPT !.qty = @ - orders[o].qty,
                !.invested = @ - cost,
                !.current  = Result(o, i).price,
                !.trimmed  = @ \/ orders[o].type = "TRIM",
                !.open     = old.qty # orders[o].qty]

Reduced(o, i, old, cost) ==
    LET r == Result(o, i)
    IN  [old EXCEPT !.qty = @ - r.qty,
                    !.invested = @ - cost,
                    !.current  = r.price,
                    !.trimmed  = @ \/ orders[o].type = "TRIM",
                    !.open     = old.qty # r.qty]

(* Mutant: a completed order closes the log. *)
SoldOut_Order(o, i, old) == Result(o, i).status = "FILLED"

SoldOut(o, i, old) == old.qty = Result(o, i).qty

(* soldBefore is what the log can tell of earlier sales: its quantity less  *)
(* what the position still held.                                            *)
SaleLogged(o, i, log, old, cost) ==
    LET r == Result(o, i)
        soldBefore == Greater(0, log.qty - old.qty)
    IN  [log EXCEPT !.exit  = (@ * soldBefore + r.price * r.qty) \div (soldBefore + r.qty),
                    !.gross = @ + (r.price - log.entry) * r.qty * FeeScale,
                    !.net   = @ + FillNet(o, i) - cost,
                    !.closed = SoldOut(o, i, old)]

CloseRecord(o, i, p, l, log) ==
    [position |-> p, log |-> l, symbol |-> log.symbol,
     qty |-> log.qty, net |-> log.net, at |-> At(o, i)]

(* _record_closed_trade, which flushes the session. *)
RecordClosed(o, i, p, l, log) ==
    IF \E k \in DOMAIN closed : closed[k].position = p
    THEN UNCHANGED <<closed, visible>>
    ELSE /\ closed' = Append(closed, CloseRecord(o, i, p, l, log))
         /\ visible' = Len(positions)

SellFill(o, i) ==
    /\ orders[o].side = "SELL"
    /\ Filled(o, i)
    /\ \E p \in PositionsFound(o), l \in LogsFound(orders[o].symbol) :
        LET old  == positions[p]
            cost == Allocated(p, Result(o, i).qty)
            new  == Reduced(o, i, old, cost)
            log  == SaleLogged(o, i, logs[l], old, cost)
        IN  /\ Result(o, i).qty <= old.qty
            /\ positions' = [positions EXCEPT ![p] = new]
            /\ logs' = [logs EXCEPT ![l] = log]
            /\ realized' = realized + FillNet(o, i) - cost
            /\ IF new.open THEN UNCHANGED <<closed, visible>>
                           ELSE RecordClosed(o, i, p, l, log)
    /\ RecordFill(o, i, FillNet(o, i))
    /\ UNCHANGED <<signals, committed, session, kill, killSeen, requests, market, outcome>>

(* Mutant: the loaded portfolio object survives the rollback. *)
RestorePortfolio_Kept == UNCHANGED <<cash, realized>>

RestorePortfolio == cash' = committed.cash /\ realized' = committed.realized

Rollback ==
    /\ RestorePortfolio
    /\ orders' = committed.orders /\ positions' = committed.positions
    /\ logs' = committed.logs /\ closed' = committed.closed
    /\ fills' = committed.fills /\ ledger' = committed.ledger
    /\ signals' = committed.signals
    /\ session' = "idle" /\ visible' = 0 /\ killSeen' = FALSE
    /\ UNCHANGED <<committed, kill, requests, market>>

(* The three "reject" branches after db.add(fill) call db.delete on a row   *)
(* that was never flushed.  The session raises InvalidRequestError, which   *)
(* leaves run_cycle through its rollback.                                   *)
NotApplicable(o, i) ==
    IF orders[o].side = "BUY"
    THEN \/ ~Affordable(o, i)
         \/ orders[o].type = "SCALE_IN" /\ PositionsFound(o) = {}
    ELSE \A p \in PositionsFound(o) : Result(o, i).qty > positions[p].qty

Raise(o, i) ==
    /\ Filled(o, i)
    /\ NotApplicable(o, i)
    /\ Rollback
    /\ outcome' = "aborted"

(* The worker process dies; the database discards its transaction. *)
Crash ==
    /\ session = "open"
    /\ Rollback
    /\ outcome' = "ok"

-----------------------------------------------------------------------------
(* What else the cycle's session does. *)

(* A position is marked at the newest snapshot before exits are judged. *)
MarkPosition(p) ==
    /\ session = "open" /\ positions[p].open
    /\ \E i \in LatestSnapshots(positions[p].symbol) :
        positions' = [positions EXCEPT ![p].current = snapshots[positions[p].symbol][i].price]
    /\ UNCHANGED <<cash, realized, orders, logs, closed, fills, ledger, signals, committed,
                   session, visible, kill, killSeen, requests, market, outcome>>

Submit(possible) ==
    /\ session = "open"
    /\ \E order \in possible, id \in NewIds : orders' = [orders EXCEPT ![id] = order]
    /\ UNCHANGED <<cash, realized, positions, logs, closed, fills, ledger, committed,
                   session, kill, killSeen, requests, market, outcome>>

(* A signal the cycle assembled itself is stored, and flushed, first. *)
SubmitEntry(g, held, seen) ==
    /\ ~killSeen
    /\ \E i \in LatestSnapshots(SymbolOf[g]) :
        Submit(EntryOrders(cash, positions, held, orders, seen, g,
                           snapshots[SymbolOf[g]][i].price))
    /\ IF IsPublished(signals, g)
       THEN UNCHANGED <<signals, visible>>
       ELSE /\ signals' = [signals EXCEPT ![g] = now]
            /\ visible' = Len(positions)

(* The price is that of a snapshot read earlier in the cycle. *)
SubmitScaleIn(p, held, seen, price) ==
    /\ ~killSeen
    /\ Submit(ScaleInOrders(cash, positions, held, orders, seen, p, price))
    /\ UNCHANGED <<signals, visible>>

SubmitExit(p, held, seen, percent, price) ==
    /\ Submit(ExitOrders(positions, held, orders, seen, p, percent, price))
    /\ UNCHANGED <<signals, visible>>

(* A cycle that measures too deep a drawdown trips the kill switch. *)
Commit(trips) ==
    /\ session = "open"
    /\ committed' = Working
    /\ session' = "idle" /\ visible' = 0 /\ killSeen' = FALSE
    /\ kill' = (kill \/ trips)
    /\ outcome' = "ok"
    /\ UNCHANGED <<tables, requests, market>>

-----------------------------------------------------------------------------
Quoted(s) == {snapshots[s][i].price : i \in DOMAIN snapshots[s]}

Market ==
    \/ Tick
    \/ \E s \in Symbols, at \in Greater(0, now - MaxLag)..now, price \in Prices,
          step \in VolumeSteps : ArriveSnapshot(s, at, price, step)
    \/ \E g \in Signals : PublishSignal(g) \/ LapseSignal(g)

Api ==
    \/ \E c \in Clients :
        \/ \E g \in Signals : ApiFromSignal(c, g)
        \/ \E p \in OpenPositions(committed.positions) :
            \/ ApiScaleIn(c, p)
            \/ \E percent \in TrimPercents \cup {100} : ApiExit(c, p, percent)
        \/ ApiCommit(c)
    \/ \E active \in KillRequests : ApiKill(active)

Process(o) ==
    \/ RejectEntry(o)
    \/ \E i \in DOMAIN snapshots[orders[o].symbol] :
        NotFilled(o, i) \/ BuyFill(o, i) \/ SellFill(o, i) \/ Raise(o, i)

Known == {o \in OrderIds : orders[o].status # "NONE"}

Submissions ==
    \E held \in SUBSET DOMAIN positions, seen \in SUBSET Known :
        \/ \E g \in Signals : SubmitEntry(g, held, seen)
        \/ \E p \in held, price \in UNION {Quoted(s) : s \in Symbols} :
            \/ SubmitScaleIn(p, held, seen, price)
            \/ \E percent \in TrimPercents \cup {100} : SubmitExit(p, held, seen, percent, price)

Session ==
    \/ Begin
    \/ \E o \in OrderIds : Process(o)
    \/ \E p \in DOMAIN positions : MarkPosition(p)
    \/ Submissions
    \/ \E trips \in BOOLEAN : Commit(trips)
    \/ Crash

Next == Market \/ Api \/ Session

Spec == Init /\ [][Next]_vars

-----------------------------------------------------------------------------
(* Properties.                                                              *)

Tables == [cash : Nat, realized : Int, orders : [OrderIds -> Order],
           positions : Seq(Position), logs : Seq(TradeLog), closed : Seq(ClosedTrade),
           fills : Seq(Fill), ledger : Seq(LedgerRow), signals : [Signals -> Nat]]

(* Every table holds rows of its type, in the session and in the database; *)
(* in particular cash, and the quantity and cost of a position, never go   *)
(* below zero.                                                             *)
TypeOK ==
    /\ cash \in Nat /\ realized \in Int
    /\ orders \in [OrderIds -> Order]
    /\ positions \in Seq(Position) /\ logs \in Seq(TradeLog)
    /\ closed \in Seq(ClosedTrade) /\ fills \in Seq(Fill) /\ ledger \in Seq(LedgerRow)
    /\ signals \in [Signals -> Nat]
    /\ committed \in Tables
    /\ session \in {"idle", "open"}
    /\ visible \in Nat
    /\ kill \in BOOLEAN /\ killSeen \in BOOLEAN
    /\ requests \in [Clients -> Order]
    /\ snapshots \in [Symbols -> Seq(Snapshot)]
    /\ lapsed \subseteq Signals
    /\ now \in Nat
    /\ outcome \in {"ok", "aborted"}

Balanced(t) ==
    /\ Len(t.ledger) > 0
    /\ t.ledger[1].balance = InitialCash
    /\ \A i \in 2..Len(t.ledger) :
        t.ledger[i].balance = t.ledger[i - 1].balance + t.ledger[i].amount
    /\ t.cash = t.ledger[Len(t.ledger)].balance

(* The settled_cash column of the cash ledger is a running balance from the *)
(* opening row to Portfolio.cash: a committed cycle, an aborted one and one *)
(* in progress all leave it so (CashLedger rows, ledger.py:419 and :499).   *)
RunningBalance == Balanced(Working) /\ Balanced(committed)

(* The shares that the fills in "rows" delivered to order o.                *)
Delivered(rows, o) ==
    SumFunction([k \in DOMAIN rows |-> IF rows[k].order = o THEN rows[k].qty ELSE 0])

(* An order's filled_quantity is exactly what its fill rows delivered, it   *)
(* never exceeds the order, and FILLED says the order is complete.          *)
FilledQuantityAgrees ==
    \A o \in OrderIds :
        /\ orders[o].filled = Delivered(fills, o)
        /\ orders[o].filled <= orders[o].qty
        /\ IsPending(orders[o]) => orders[o].filled < orders[o].qty
        /\ orders[o].status = "FILLED" => orders[o].filled = orders[o].qty

(* "Fill pending orders once per later official snapshot": every fill is at *)
(* a snapshot strictly after the order was submitted and after its previous *)
(* fill, and none is beyond what the order has already been evaluated at.   *)
FillsAreLaterSnapshots ==
    \A k \in DOMAIN fills :
        /\ fills[k].at > orders[fills[k].order].created
        /\ fills[k].at <= orders[fills[k].order].cursor
        /\ \A j \in DOMAIN fills :
            j < k /\ fills[j].order = fills[k].order => fills[j].at < fills[k].at

(* The shares of a symbol in the positions, and what the fills made of them. *)
Holding(poss, symbol) ==
    SumFunction([p \in DOMAIN poss |-> IF poss[p].symbol = symbol THEN poss[p].qty ELSE 0])

Signed(row) == IF row.side = "BUY" THEN row.qty ELSE -row.qty

NetBought(rows, symbol) ==
    SumFunction([k \in DOMAIN rows |->
                    IF rows[k].symbol = symbol THEN Signed(rows[k]) ELSE 0])

(* The shares of a symbol held in positions are the shares its fills        *)
(* delivered, whatever duplicate positions, trims and scale-ins did.        *)
SharesConserved == \A s \in Symbols : Holding(positions, s) = NetBought(fills, s)

(* The cost of the open positions, and the result of the trade logs.        *)
CostOfOpen(poss) ==
    SumFunction([p \in DOMAIN poss |-> IF poss[p].open THEN poss[p].invested ELSE 0])

NetResult(rows) == SumFunction([l \in DOMAIN rows |-> rows[l].net])

(* The books close: cash plus the cost of the open positions is the capital plus   *)
(* the realized profit, and the trade logs add up to that profit.           *)
BooksClose ==
    /\ cash + CostOfOpen(positions) = InitialCash + realized
    /\ realized = NetResult(logs)

(* Every open position has its open trade log, also among the rows a query  *)
(* can see: the SELL branch of the ledger never runs without its log, so a  *)
(* closed position has exactly one immutable close record.                  *)
LogsMatchPositions ==
    /\ Len(logs) = Len(positions)
    /\ \A s \in Symbols, n \in {visible, Len(positions)} :
        Cardinality({p \in 1..n : positions[p].symbol = s /\ positions[p].open})
        = Cardinality({l \in 1..n : logs[l].symbol = s /\ ~logs[l].closed})
    /\ \A p \in DOMAIN positions :
        Cardinality({k \in DOMAIN closed : closed[k].position = p})
        = IF positions[p].open THEN 0 ELSE 1

(* A close record carries the final result of its trade log for good.       *)
ClosedRecordsAgree ==
    \A k \in DOMAIN closed :
        /\ logs[closed[k].log].closed
        /\ closed[k].net = logs[closed[k].log].net

(* Positions, their logs and their close records tell one history.          *)
HistoryAgrees == LogsMatchPositions /\ ClosedRecordsAgree

(* No transaction of a cycle that began under the kill switch buys shares,  *)
(* whatever was queued before and whoever flips the switch meanwhile.       *)
KillStopsBuying ==
    killSeen => \A k \in DOMAIN fills :
        k > Len(committed.fills) => fills[k].side = "SELL"

(* Between cycles there is nothing uncommitted: an abort or a crash leaves  *)
(* no trace of the fills it had applied, and keeps the orders that the API  *)
(* inserted meanwhile.                                                      *)
NothingLeftBehind == session = "idle" => Working = committed

-----------------------------------------------------------------------------
(* The abstract specifications the broker implements, over the database.    *)

Account == INSTANCE CashAccount WITH
    Opening <- InitialCash, balance <- committed.cash, journal <- committed.ledger

(* The portfolio's cash is an account that is posted to row by row, never   *)
(* overdrawn and never rewritten, whatever cycles abort (CashAccount).      *)
CashIsAnAccount == Account!AccountSpec

Lifecycle == INSTANCE OrderLifecycle WITH
    Ids    <- OrderIds,
    status <- [o \in OrderIds |-> committed.orders[o].status],
    qty    <- [o \in OrderIds |-> committed.orders[o].qty],
    filled <- [o \in OrderIds |-> committed.orders[o].filled]

(* Every order follows the life cycle: submitted once, filled monotonically *)
(* up to a fixed quantity, FILLED and REJECTED for good (OrderLifecycle).   *)
OrdersFollowLifecycle == Lifecycle!LifecycleSpec
=============================================================================
