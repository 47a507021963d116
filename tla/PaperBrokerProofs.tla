------------------------- MODULE PaperBrokerProofs -------------------------
(***************************************************************************)
(* Theorems about the paper broker and the trading cycle that drives it,   *)
(* for every value of their constants.                                     *)
(*                                                                         *)
(* Types: every table stays well typed, so cash, quantities and costs      *)
(* never fall below zero.  Money: the cash ledger is a running balance,    *)
(* and what the database holds of cash and ledger implements CashAccount.  *)
(* Orders: no transaction that began under the kill switch buys, nothing   *)
(* is left of a cycle that did not commit, every fill of an order is at a  *)
(* later snapshot than its submission and its previous fill, the filled    *)
(* quantity of an order is the sum of its fills, and every order           *)
(* implements OrderLifecycle.                                              *)
(*                                                                         *)
(* Trades: positions, trade logs and close records agree with each other,  *)
(* every share that was bought is held or was sold, and cash, the cost of  *)
(* what is held and the booked results add up to the capital.  Each is the *)
(* sum of many rows that one fill changes in several tables: the steps are *)
(* classified once, by what they do to these tables (Trading, Ending,      *)
(* Bought, Sold, ...), and each invariant is proved against that.          *)
(*                                                                         *)
(* The cycle: run_cycle implements the broker's session, so that what is   *)
(* proved of the broker for any caller holds of it.                        *)
(***************************************************************************)
EXTENDS TradingCycle, SumTheorems

-----------------------------------------------------------------------------
(* Arithmetic and sequences. *)

(* The product of naturals is a natural. *)
LEMMA ProductNat == ASSUME NEW a \in Nat, NEW b \in Nat PROVE a * b \in Nat
  BY SMT

(* Multiplication by a natural is monotone. *)
LEMMA ProductMonotone ==
  ASSUME NEW a \in Nat, NEW b \in Nat, NEW c \in Nat, b <= c
  PROVE  a * b <= a * c
  BY SMT

(* The share b/c of a is at most a: a sale never carries more cost than the *)
(* position has.                                                            *)
LEMMA DivisionShare ==
  ASSUME NEW a \in Nat, NEW b \in Nat, NEW c \in Nat, c > 0, b <= c
  PROVE  (a * b) \div c <= a
  BY ProductNat, ProductMonotone, SMT

(* Appending keeps the type of a sequence. *)
LEMMA AppendType ==
  ASSUME NEW S, NEW s \in Seq(S), NEW x \in S
  PROVE  Append(s, x) \in Seq(S)
  OBVIOUS

(* Replacing an element keeps the type of a sequence. *)
LEMMA ExceptType ==
  ASSUME NEW S, NEW s \in Seq(S), NEW i \in DOMAIN s, NEW x \in S
  PROVE  [s EXCEPT ![i] = x] \in Seq(S)
  OBVIOUS

(* What a fill costs, and brings, is never negative. *)
LEMMA NetNat ==
  ASSUME NEW q \in Nat, NEW p \in Nat
  PROVE  BuyNet(q, p) \in Nat /\ SellNet(q, p) \in Nat /\ Value(q, p) \in Nat
<1>1. q * p \in Nat
  BY ProductNat
<1>2. FeeScale + BuyFee \in Nat /\ FeeScale - SellFee \in Nat /\ FeeScale \in Nat
  BY ExecutionAssumption DEF ExecutionAssumption
<1> QED
  BY <1>1, <1>2, ProductNat DEF BuyNet, SellNet, Value

-----------------------------------------------------------------------------
(* The simulator. *)

(* A simulated fill is a natural quantity at a natural price.               *)
LEMMA SimulateType ==
  ASSUME NEW order \in Order, NEW price \in Nat, NEW volume \in Nat
  PROVE  LET r == Simulate(order, FlatBar(price, volume))
         IN  /\ r.status \in Statuses \ {"NONE"}
             /\ r.qty \in Nat
             /\ r.price \in Nat
<1> DEFINE bar == FlatBar(price, volume)
<1>1. Remaining(order) > 0 => FillQuantity(order, bar) \in Nat
  BY ExecutionAssumption DEF ExecutionAssumption, FillQuantity, FillCap, Remaining, Lesser,
     Greater, FlatBar, Order
<1>2. FillPrice(order, bar) \in Nat
  BY ExecutionAssumption DEF ExecutionAssumption, FillPrice, BasePrice, Lesser, Greater,
     FlatBar, Order
<1>3. Remaining(order) \in Int
  BY DEF Remaining, Order
<1> QED
  BY <1>1, <1>2, <1>3 DEF Simulate, NoFill, InQueue, Statuses

(* The traded volume between two snapshots is a natural.                    *)
LEMMA VolumeNat ==
  ASSUME TypeOK, NEW s \in Symbols, NEW after \in Nat, NEW i \in DOMAIN snapshots[s]
  PROVE  IncrementalVolume(s, after, i) \in Nat
<1> DEFINE same == {j \in PriorSnapshots(s, after) :
                       Day(snapshots[s][j].at) = Day(snapshots[s][i].at)}
           j == CHOOSE j \in same : TRUE
<1>1. CASE same = {}
  BY <1>1 DEF IncrementalVolume
<1>2. CASE same # {}
  <2>1. j \in DOMAIN snapshots[s]
    BY <1>2 DEF PriorSnapshots
  <2> HIDE DEF j
  <2>2. snapshots[s] \in Seq(Snapshot)
    BY DEF TypeOK
  <2>3. snapshots[s][i] \in Snapshot /\ snapshots[s][j] \in Snapshot
    BY <2>1, <2>2
  <2>4. snapshots[s][i].volume \in Nat /\ snapshots[s][j].volume \in Nat
    BY <2>3 DEF Snapshot
  <2> USE DEF j
  <2> QED
    BY <1>2, <2>4 DEF IncrementalVolume, Greater
<1> QED
  BY <1>1, <1>2

(* What an order gets from a snapshot is well typed.                        *)
LEMMA ResultType ==
  ASSUME TypeOK, NEW o \in OrderIds, NEW i \in DOMAIN snapshots[orders[o].symbol]
  PROVE  /\ Result(o, i).status \in Statuses \ {"NONE"}
         /\ Result(o, i).qty \in Nat
         /\ Result(o, i).price \in Nat
         /\ At(o, i) \in Nat
         /\ FillNet(o, i) \in Nat
<1> DEFINE price  == snapshots[orders[o].symbol][i].price
           volume == IncrementalVolume(orders[o].symbol, orders[o].cursor, i)
<1>1. orders[o] \in Order
  BY DEF TypeOK
<1>2. orders[o].symbol \in Symbols /\ orders[o].cursor \in Nat
  BY <1>1 DEF Order
<1>3. snapshots[orders[o].symbol][i] \in Snapshot
  BY <1>2 DEF TypeOK
<1>4. price \in Nat /\ At(o, i) \in Nat
  BY <1>3, ExecutionAssumption DEF ExecutionAssumption, Snapshot, At
<1>5. volume \in Nat
  BY <1>2, VolumeNat
<1>6. Result(o, i) = Simulate(orders[o], FlatBar(price, volume))
  BY DEF Result, BarAt
<1>7. /\ Result(o, i).status \in Statuses \ {"NONE"}
      /\ Result(o, i).qty \in Nat
      /\ Result(o, i).price \in Nat
  BY <1>1, <1>4, <1>5, <1>6, SimulateType
<1> QED
  BY <1>4, <1>7, NetNat DEF FillNet

(* Changing an order's cursor, status and filled quantity.                  *)
LEMMA MovedOrderType ==
  ASSUME NEW order \in Order, NEW at \in Nat, NEW status \in Statuses, NEW filled \in Nat
  PROVE  [order EXCEPT !.cursor = at, !.status = status, !.filled = filled] \in Order
  BY DEF Order

(* Moving an order keeps the order table well typed.                        *)
LEMMA EvaluatedType ==
  ASSUME TypeOK, NEW o \in OrderIds, NEW i \in DOMAIN snapshots[orders[o].symbol]
  PROVE  Evaluated(o, i) \in [OrderIds -> Order]
<1>1. orders \in [OrderIds -> Order]
  BY DEF TypeOK
<1>2. orders[o].filled + Result(o, i).qty \in Nat
  BY <1>1, ResultType DEF Order
<1> QED
  <2>1. orders[o] \in Order
    BY <1>1
  <2>2. At(o, i) \in Nat /\ Result(o, i).status \in Statuses
    BY ResultType
  <2> DEFINE new == [orders[o] EXCEPT !.cursor = At(o, i), !.status = Result(o, i).status,
                                      !.filled = orders[o].filled + Result(o, i).qty]
  <2>3. new \in Order
    BY <1>2, <2>1, <2>2, MovedOrderType
  <2>4. Evaluated(o, i) = [orders EXCEPT ![o] = new]
    BY <1>1 DEF Evaluated
  <2> HIDE DEF new
  <2> QED
    BY <1>1, <2>3, <2>4

(* An order built by NewOrder from typed parts is an order.                 *)
LEMMA NewOrderType ==
  ASSUME now \in Nat, NEW side \in {"BUY", "SELL"}, NEW type \in OrderTypes,
         NEW symbol \in Symbols, NEW signal \in Signals \cup {NoSignal}, NEW position \in Nat,
         NEW price \in Nat, NEW qty \in Nat
  PROVE  NewOrder(side, type, symbol, signal, position, price, qty) \in Order
  BY DEF NewOrder, Order, Statuses

(* The empty slot of the order table.                                       *)
LEMMA NoOrderType == NoOrder \in Order
  BY BrokerAssumption DEF BrokerAssumption, NoOrder, SomeSymbol, Order, Statuses, OrderTypes

(* Each order-creating method returns orders.                               *)
LEMMA EntryOrdersType ==
  ASSUME now \in Nat, NEW cashNow, NEW poss, NEW holding, NEW ords, NEW known,
         NEW signal \in Signals, NEW price \in Nat
  PROVE  EntryOrders(cashNow, poss, holding, ords, known, signal, price) \subseteq Order
<1> SUFFICES ASSUME NEW q \in SizedQuantities
             PROVE  NewOrder("BUY", "LIMIT", SymbolOf[signal], signal, 0, price, q) \in Order
  BY DEF EntryOrders
<1>1. SymbolOf[signal] \in Symbols /\ q \in Nat
  BY BrokerAssumption DEF BrokerAssumption
<1> QED
  BY <1>1, NewOrderType DEF OrderTypes

(* The same for orders on a position.                                       *)
LEMMA PositionOrderType ==
  ASSUME now \in Nat, NEW poss \in Seq(Position), NEW p \in DOMAIN poss, NEW price \in Nat,
         NEW q \in 1..poss[p].qty, NEW side \in {"BUY", "SELL"}, NEW type \in OrderTypes
  PROVE  NewOrder(side, type, poss[p].symbol, NoSignal, p, price, q) \in Order
<1>1. poss[p] \in Position /\ p \in Nat
  OBVIOUS
<1>2. poss[p].symbol \in Symbols /\ poss[p].qty \in Nat
  BY <1>1 DEF Position
<1>3. q \in Nat /\ NoSignal \in Signals \cup {NoSignal}
  BY <1>2
<1> QED
  BY <1>1, <1>2, <1>3, NewOrderType

(* A scale-in is an order.                                                  *)
LEMMA ScaleInOrdersType ==
  ASSUME now \in Nat, NEW cashNow, NEW poss \in Seq(Position), NEW holding, NEW ords,
         NEW known, NEW p \in DOMAIN poss, NEW price \in Nat
  PROVE  ScaleInOrders(cashNow, poss, holding, ords, known, p, price) \subseteq Order
  BY PositionOrderType DEF ScaleInOrders, OrderTypes

(* So is an exit or a trim.                                                 *)
LEMMA ExitOrdersType ==
  ASSUME now \in Nat, NEW poss \in Seq(Position), NEW holding, NEW ords,
         NEW known, NEW p \in DOMAIN poss, NEW percent, NEW price \in Nat
  PROVE  ExitOrders(poss, holding, ords, known, p, percent, price) \subseteq Order
  BY PositionOrderType DEF ExitOrders, OrderTypes

-----------------------------------------------------------------------------
(* Type correctness, action by action.                                      *)

(* The tables of a new campaign are well typed.                             *)
LEMMA InitType == Init => TypeOK
<1> SUFFICES ASSUME Init PROVE TypeOK
  OBVIOUS
<1>1. InitialCash \in Nat /\ Unpublished \in Nat /\ MaxOrders \in Nat
  BY BrokerAssumption DEF BrokerAssumption, Unpublished
<1>2. ledger \in Seq(LedgerRow)
  <2>1. [order |-> 0, amount |-> InitialCash, balance |-> InitialCash] \in LedgerRow
    BY <1>1 DEF LedgerRow
  <2> QED
    BY <2>1 DEF Init
<1>3. orders \in [OrderIds -> Order] /\ requests \in [Clients -> Order]
  BY NoOrderType DEF Init
<1>4. /\ positions \in Seq(Position) /\ logs \in Seq(TradeLog)
      /\ closed \in Seq(ClosedTrade) /\ fills \in Seq(Fill)
      /\ signals \in [Signals -> Nat] /\ cash \in Nat /\ realized \in Int
  BY <1>1 DEF Init
<1>5. committed \in Tables
  BY <1>2, <1>3, <1>4 DEF Init, Working, Tables
<1>6. snapshots \in [Symbols -> Seq(Snapshot)]
  BY DEF Init
<1> QED
  BY <1>2, <1>3, <1>4, <1>5, <1>6 DEF Init, TypeOK

(* The market and the scans keep the types.                                 *)
LEMMA MarketType == ASSUME TypeOK, Market PROVE TypeOK'
<1>1. CASE Tick
  BY <1>1 DEF Tick, TypeOK, tables
<1>2. ASSUME NEW s \in Symbols, NEW at \in Greater(0, now - MaxLag)..now, NEW price \in Prices,
             NEW step \in VolumeSteps, ArriveSnapshot(s, at, price, step)
      PROVE  TypeOK'
  <2> DEFINE last   == Len(snapshots[s])
             before == IF last > 0 /\ Day(snapshots[s][last].at) = Day(at)
                       THEN snapshots[s][last].volume ELSE 0
             shot   == [at |-> at, price |-> price, volume |-> before + step]
  <2>1. snapshots[s] \in Seq(Snapshot) /\ last \in Nat
    BY DEF TypeOK
  <2>2. before \in Nat
    <3>1. last > 0 => snapshots[s][last] \in Snapshot
      BY <2>1
    <3> QED
      BY <3>1 DEF Snapshot
  <2>3. at \in Nat
    BY BrokerAssumption DEF BrokerAssumption, Greater, TypeOK
  <2>4. price \in LimitDown..LimitUp /\ step \in Nat
    BY BrokerAssumption DEF BrokerAssumption
  <2>5. shot \in Snapshot
    <3> HIDE DEF before
    <3> QED
      BY <2>2, <2>3, <2>4 DEF Snapshot
  <2>6. snapshots' = [snapshots EXCEPT ![s] = Append(snapshots[s], shot)]
    BY <1>2 DEF ArriveSnapshot
  <2>7. snapshots' \in [Symbols -> Seq(Snapshot)]
    <3> HIDE DEF shot
    <3>1. Append(snapshots[s], shot) \in Seq(Snapshot)
      BY <2>1, <2>5, AppendType
    <3> QED
      BY <2>6, <3>1 DEF TypeOK
  <2> QED
    BY <1>2, <2>7 DEF ArriveSnapshot, TypeOK, tables
<1>3. ASSUME NEW g \in Signals, PublishSignal(g)
      PROVE  TypeOK'
  <2>1. signals' \in [Signals -> Nat]
    BY <1>3 DEF PublishSignal, TypeOK
  <2>2. committed' \in Tables
    BY <1>3 DEF PublishSignal, TypeOK, Tables
  <2> QED
    BY <1>3, <2>1, <2>2 DEF PublishSignal, TypeOK, market
<1>4. ASSUME NEW g \in Signals, LapseSignal(g)
      PROVE  TypeOK'
  BY <1>4 DEF LapseSignal, TypeOK, tables
<1> QED
  BY <1>1, <1>2, <1>3, <1>4 DEF Market

(* A request decided on from a set of orders keeps the types.               *)
LEMMA DecideType ==
  ASSUME TypeOK, NEW c \in Clients, NEW possible \in SUBSET Order, Decide(c, possible)
  PROVE  TypeOK'
<1>1. requests' \in [Clients -> Order]
  BY DEF Decide, TypeOK
<1> QED
  BY <1>1 DEF Decide, TypeOK, tables, market

(* The price of a stored snapshot is a natural.                             *)
LEMMA ShotPrice ==
  ASSUME TypeOK, NEW s \in Symbols, NEW i \in DOMAIN snapshots[s]
  PROVE  snapshots[s][i].price \in Nat
<1>1. snapshots[s] \in Seq(Snapshot)
  BY DEF TypeOK
<1>2. snapshots[s][i] \in Snapshot
  BY <1>1
<1> QED
  BY <1>2, ExecutionAssumption DEF ExecutionAssumption, Snapshot

(* The API handlers keep the types.                                         *)
LEMMA ApiType == ASSUME TypeOK, Api PROVE TypeOK'
<1>1. committed.positions \in Seq(Position) /\ now \in Nat
  BY DEF TypeOK, Tables
<1>2. ASSUME NEW p \in OpenPositions(committed.positions)
      PROVE  p \in DOMAIN committed.positions /\ committed.positions[p].symbol \in Symbols
  <2>1. p \in DOMAIN committed.positions
    BY DEF OpenPositions
  <2>2. committed.positions[p] \in Position
    BY <1>1, <2>1
  <2> QED
    BY <2>1, <2>2 DEF Position
<1>3. ASSUME NEW c \in Clients, NEW g \in Signals, ApiFromSignal(c, g)
      PROVE  TypeOK'
  <2>1. SymbolOf[g] \in Symbols
    BY BrokerAssumption DEF BrokerAssumption
  <2>2. PICK i \in LatestSnapshots(SymbolOf[g]) :
            Decide(c, EntryOrders(committed.cash, committed.positions, Held, committed.orders,
                                  OrderIds, g, snapshots[SymbolOf[g]][i].price))
    BY <1>3 DEF ApiFromSignal
  <2>3. snapshots[SymbolOf[g]][i].price \in Nat
    BY <2>1, <2>2, ShotPrice DEF LatestSnapshots, Fresh
  <2>4. EntryOrders(committed.cash, committed.positions, Held, committed.orders,
                    OrderIds, g, snapshots[SymbolOf[g]][i].price) \subseteq Order
    BY <1>1, <2>3, EntryOrdersType
  <2> QED
    BY <2>2, <2>4, DecideType
<1>4. ASSUME NEW c \in Clients, NEW p \in OpenPositions(committed.positions), ApiScaleIn(c, p)
      PROVE  TypeOK'
  <2>1. PICK i \in LatestSnapshots(committed.positions[p].symbol) :
            Decide(c, ScaleInOrders(committed.cash, committed.positions, Held, committed.orders,
                          OrderIds, p, snapshots[committed.positions[p].symbol][i].price))
    BY <1>4 DEF ApiScaleIn
  <2>2. snapshots[committed.positions[p].symbol][i].price \in Nat
    BY <1>2, <2>1, ShotPrice DEF LatestSnapshots, Fresh
  <2>3. ScaleInOrders(committed.cash, committed.positions, Held, committed.orders, OrderIds, p,
                      snapshots[committed.positions[p].symbol][i].price) \subseteq Order
    BY <1>1, <1>2, <2>2, ScaleInOrdersType
  <2> QED
    BY <2>1, <2>3, DecideType
<1>7. ASSUME NEW c \in Clients, NEW p \in OpenPositions(committed.positions),
             NEW percent \in TrimPercents \cup {100}, ApiExit(c, p, percent)
      PROVE  TypeOK'
  <2>1. PICK i \in LatestSnapshots(committed.positions[p].symbol) :
            Decide(c, ExitOrders(committed.positions, Held, committed.orders, OrderIds, p,
                          percent, snapshots[committed.positions[p].symbol][i].price))
    BY <1>7 DEF ApiExit
  <2>2. snapshots[committed.positions[p].symbol][i].price \in Nat
    BY <1>2, <2>1, ShotPrice, SMTT(30) DEF LatestSnapshots, Fresh
  <2>3. ExitOrders(committed.positions, Held, committed.orders, OrderIds, p, percent,
                   snapshots[committed.positions[p].symbol][i].price) \subseteq Order
    BY <1>1, <1>2, <2>2, ExitOrdersType
  <2> QED
    BY <2>1, <2>3, DecideType
<1>5. ASSUME NEW c \in Clients, ApiCommit(c)
      PROVE  TypeOK'
  <2>1. PICK id \in NewIds :
            /\ orders' = [orders EXCEPT ![id] = requests[c]]
            /\ committed' = [committed EXCEPT !.orders[id] = requests[c]]
    BY <1>5 DEF ApiCommit
  <2>2. requests[c] \in Order /\ id \in OrderIds
    BY DEF TypeOK, NewIds, FreeIds
  <2>3. orders' \in [OrderIds -> Order]
    BY <2>1, <2>2 DEF TypeOK
  <2>4. committed' \in Tables
    BY <2>1, <2>2 DEF TypeOK, Tables
  <2>5. requests' \in [Clients -> Order]
    BY <1>5, NoOrderType DEF ApiCommit, TypeOK
  <2> QED
    BY <1>5, <2>3, <2>4, <2>5 DEF ApiCommit, TypeOK, market
<1>6. ASSUME NEW active \in KillRequests, ApiKill(active)
      PROVE  TypeOK'
  BY <1>6, BrokerAssumption DEF BrokerAssumption, ApiKill, TypeOK, tables, market
<1> QED
  BY <1>3, <1>4, <1>5, <1>6, <1>7 DEF Api

-----------------------------------------------------------------------------
(* Filling an order. *)

(* A rejection or an evaluation without a fill keeps the types.             *)
LEMMA NoFillType ==
  ASSUME TypeOK, NEW o \in OrderIds, NEW i \in DOMAIN snapshots[orders[o].symbol],
         RejectEntry(o) \/ NotFilled(o, i)
  PROVE  TypeOK'
<1>1. orders \in [OrderIds -> Order] /\ orders[o] \in Order
  BY DEF TypeOK
<1>2. orders' \in [OrderIds -> Order]
  <2>1. CASE RejectEntry(o)
    BY <1>1, <2>1 DEF RejectEntry, Order, Statuses
  <2>2. CASE NotFilled(o, i)
    <3>1. [orders EXCEPT ![o].cursor = At(o, i)] \in [OrderIds -> Order]
      BY <1>1, ResultType DEF Order
    <3> QED
      BY <2>2, <3>1, EvaluatedType DEF NotFilled
  <2> QED
    BY <2>1, <2>2
<1> QED
  BY <1>2 DEF RejectEntry, NotFilled, TypeOK, market

(* The row that RecordFill adds to the fills, and to the cash ledger.       *)
LEMMA RecordFillType ==
  ASSUME TypeOK, NEW o \in OrderIds, NEW i \in DOMAIN snapshots[orders[o].symbol],
         NEW amount \in Int, cash + amount \in Nat, RecordFill(o, i, amount)
  PROVE  /\ orders' \in [OrderIds -> Order]
         /\ fills' \in Seq(Fill)
         /\ cash' \in Nat
         /\ ledger' \in Seq(LedgerRow)
<1> DEFINE fill == [order |-> o, symbol |-> orders[o].symbol, side |-> orders[o].side,
                    qty |-> Result(o, i).qty, price |-> Result(o, i).price,
                    net |-> FillNet(o, i), at |-> At(o, i)]
<1>1. orders[o] \in Order
  BY DEF TypeOK
<1>2. orders[o].symbol \in Symbols /\ orders[o].side \in {"BUY", "SELL"}
  BY <1>1 DEF Order
<1>3. fill \in Fill
  BY <1>2, ResultType DEF Fill
<1>4. Row(o, amount) \in LedgerRow
  BY DEF Row, LedgerRow, OrderIds
<1>5. fills' = Append(fills, fill)
  BY DEF RecordFill
<1> HIDE DEF fill
<1> QED
  BY <1>3, <1>4, <1>5, EvaluatedType, AppendType DEF RecordFill, TypeOK

(* The position a fill opens.                                               *)
LEMMA NewPositionType ==
  ASSUME TypeOK, NEW o \in OrderIds, NEW i \in DOMAIN snapshots[orders[o].symbol]
  PROVE  NewPosition(o, i) \in Position
<1>1. orders[o] \in Order
  BY DEF TypeOK
<1>2. orders[o].symbol \in Symbols
  BY <1>1 DEF Order
<1> QED
  BY <1>2, ResultType DEF NewPosition, Position

(* The position a fill adds to.                                             *)
LEMMA IncreasedType ==
  ASSUME TypeOK, NEW o \in OrderIds, NEW i \in DOMAIN snapshots[orders[o].symbol],
         Result(o, i).qty > 0, NEW old \in Position
  PROVE  Increased(o, i, old) \in Position
<1> DEFINE r       == Result(o, i)
           qty     == old.qty + r.qty
           average == (old.average * old.qty + r.price * r.qty) \div qty
<1>1. old.qty \in Nat /\ old.average \in Nat /\ old.invested \in Nat /\ old.scaled \in BOOLEAN
  BY DEF Position
<1>2. qty \in Nat /\ qty > 0
  BY <1>1, ResultType
<1>3. average \in Nat
  <2>1. old.average * old.qty \in Nat /\ r.price * r.qty \in Nat
    BY <1>1, ResultType, ProductNat
  <2>2. old.average * old.qty + r.price * r.qty \in Nat
    BY <2>1
  <2> QED
    BY <1>2, <2>2, DivisionNat
<1>4. old.invested + FillNet(o, i) \in Nat
  BY <1>1, ResultType
<1>5. (old.scaled \/ orders[o].type = "SCALE_IN") \in BOOLEAN
  BY <1>1
<1>6. r.price \in Nat
  BY ResultType
<1>7. Increased(o, i, old) = [old EXCEPT !.qty = qty, !.average = average, !.current = r.price,
                                         !.invested = old.invested + FillNet(o, i),
                                         !.scaled = old.scaled \/ orders[o].type = "SCALE_IN"]
  BY DEF Increased, Position
<1> HIDE DEF r, qty, average
<1> QED
  BY <1>2, <1>3, <1>4, <1>5, <1>6, <1>7 DEF Position

(* The trade log written for a position.                                    *)
LEMMA LogEntryType ==
  ASSUME TypeOK, NEW o \in OrderIds, NEW position \in Position, LogEntry(o, position)
  PROVE  logs' \in Seq(TradeLog)
<1>1. logs \in Seq(TradeLog) /\ orders[o] \in Order
  BY DEF TypeOK
<1>2. /\ orders[o].symbol \in Symbols /\ position.average \in Nat
      /\ position.qty \in Nat /\ position.invested \in Nat
  BY <1>1 DEF Order, Position
<1>3. CASE LogsFound(orders[o].symbol) = {}
  <2> DEFINE log == [symbol |-> orders[o].symbol, entryOrder |-> o,
                     entry |-> position.average, qty |-> position.qty,
                     invested |-> position.invested, exit |-> 0,
                     gross |-> 0, net |-> 0, closed |-> FALSE]
  <2>1. log \in TradeLog
    BY <1>2 DEF TradeLog
  <2>2. logs' = Append(logs, log)
    BY <1>3 DEF LogEntry
  <2> HIDE DEF log
  <2> QED
    BY <1>1, <2>1, <2>2, AppendType
<1>4. CASE LogsFound(orders[o].symbol) # {}
  <2>1. PICK l \in LogsFound(orders[o].symbol) :
            logs' = [logs EXCEPT ![l].entry = position.average, ![l].qty = position.qty,
                                 ![l].invested = position.invested]
    BY <1>4 DEF LogEntry
  <2>2. l \in DOMAIN logs
    BY DEF LogsFound
  <2>3. logs[l] \in TradeLog
    BY <1>1, <2>2
  <2> DEFINE log == [logs[l] EXCEPT !.entry = position.average, !.qty = position.qty,
                                    !.invested = position.invested]
  <2>4. log \in TradeLog
    BY <1>2, <2>3 DEF TradeLog
  <2>5. logs' = [logs EXCEPT ![l] = log]
    BY <1>1, <2>1, <2>2
  <2> HIDE DEF log
  <2> QED
    BY <1>1, <2>2, <2>4, <2>5, ExceptType
<1> QED
  BY <1>3, <1>4

(* A buy keeps the types: it is affordable when it is paid for.             *)
LEMMA BuyFillType ==
  ASSUME TypeOK, NEW o \in OrderIds, NEW i \in DOMAIN snapshots[orders[o].symbol], BuyFill(o, i)
  PROVE  TypeOK'
<1>1. Result(o, i).qty > 0 /\ RecordFill(o, i, -FillNet(o, i))
  BY DEF BuyFill, Filled
<1>2. -FillNet(o, i) \in Int /\ cash + (-FillNet(o, i)) \in Nat
  BY ResultType DEF BuyFill, Affordable, TypeOK
<1>3. /\ orders' \in [OrderIds -> Order] /\ fills' \in Seq(Fill)
      /\ cash' \in Nat /\ ledger' \in Seq(LedgerRow)
  BY <1>1, <1>2, RecordFillType
<1>4. positions \in Seq(Position)
  BY DEF TypeOK
<1>5. positions' \in Seq(Position) /\ logs' \in Seq(TradeLog)
  <2>1. CASE /\ positions' = Append(positions, NewPosition(o, i))
             /\ LogEntry(o, NewPosition(o, i))
    BY <1>4, <2>1, NewPositionType, AppendType, LogEntryType
  <2>2. ASSUME NEW p \in PositionsFound(o),
               positions' = [positions EXCEPT ![p] = Increased(o, i, @)],
               LogEntry(o, Increased(o, i, positions[p]))
        PROVE  positions' \in Seq(Position) /\ logs' \in Seq(TradeLog)
    <3>1. p \in DOMAIN positions
      BY DEF PositionsFound
    <3>2. positions[p] \in Position
      BY <1>4, <3>1
    <3>3. Increased(o, i, positions[p]) \in Position
      BY <1>1, <3>2, IncreasedType
    <3>4. positions' = [positions EXCEPT ![p] = Increased(o, i, positions[p])]
      BY <2>2
    <3> QED
      BY <1>4, <2>2, <3>1, <3>3, <3>4, ExceptType, LogEntryType
  <2> QED
    BY <2>1, <2>2 DEF BuyFill
<1> QED
  BY <1>3, <1>5 DEF BuyFill, TypeOK, market

(* The share of a position's cost that a sale carries.                      *)
LEMMA AllocatedType ==
  ASSUME TypeOK, NEW p \in DOMAIN positions, NEW qty \in Nat, 0 < qty, qty <= positions[p].qty
  PROVE  Allocated(p, qty) \in Nat /\ Allocated(p, qty) <= positions[p].invested
<1>1. positions[p] \in Position
  BY DEF TypeOK
<1>2. positions[p].qty \in Nat /\ positions[p].invested \in Nat /\ positions[p].qty > 0
  BY <1>1 DEF Position
<1>3. positions[p].invested * qty \in Nat
  BY <1>2, ProductNat
<1> QED
  BY <1>2, <1>3, DivisionNat, DivisionShare DEF Allocated

(* The position after a sale of at most what it holds.                      *)
LEMMA ReducedType ==
  ASSUME TypeOK, NEW o \in OrderIds, NEW i \in DOMAIN snapshots[orders[o].symbol],
         NEW old \in Position, Result(o, i).qty <= old.qty,
         NEW cost \in Nat, cost <= old.invested
  PROVE  Reduced(o, i, old, cost) \in Position
<1> DEFINE r == Result(o, i)
<1>1. old.qty \in Nat /\ old.invested \in Nat /\ old.trimmed \in BOOLEAN
  BY DEF Position
<1>2. old.qty - r.qty \in Nat /\ old.invested - cost \in Nat /\ r.price \in Nat
  BY <1>1, ResultType
<1>3. Reduced(o, i, old, cost)
        = [old EXCEPT !.qty = old.qty - r.qty, !.invested = old.invested - cost,
                      !.current = r.price, !.trimmed = old.trimmed \/ orders[o].type = "TRIM",
                      !.open = old.qty # r.qty]
  BY DEF Reduced, Position
<1> HIDE DEF r
<1> QED
  BY <1>1, <1>2, <1>3 DEF Position

(* The trade log after a sale.                                              *)
LEMMA SaleLoggedType ==
  ASSUME TypeOK, NEW o \in OrderIds, NEW i \in DOMAIN snapshots[orders[o].symbol],
         Result(o, i).qty > 0, NEW log \in TradeLog, NEW old \in Position, NEW cost \in Nat
  PROVE  SaleLogged(o, i, log, old, cost) \in TradeLog
<1> DEFINE r     == Result(o, i)
           sold  == Greater(0, log.qty - old.qty)
           exit  == (log.exit * sold + r.price * r.qty) \div (sold + r.qty)
           gross == log.gross + (r.price - log.entry) * r.qty * FeeScale
           net   == log.net + FillNet(o, i) - cost
<1>1. /\ log.qty \in Nat /\ log.exit \in Nat /\ log.entry \in Nat /\ log.gross \in Int
      /\ log.net \in Int /\ old.qty \in Nat /\ FeeScale \in Int
  BY ExecutionAssumption DEF ExecutionAssumption, TradeLog, Position
<1>2. r.qty \in Nat /\ r.qty > 0 /\ r.price \in Nat /\ FillNet(o, i) \in Nat
  BY ResultType
<1>3. sold \in Nat
  BY <1>1 DEF Greater
<1>4. exit \in Nat
  <2> HIDE DEF r, sold
  <2>1. log.exit * sold \in Nat /\ r.price * r.qty \in Nat
    BY <1>1, <1>2, <1>3, ProductNat
  <2>2. log.exit * sold + r.price * r.qty \in Nat /\ sold + r.qty \in Nat /\ sold + r.qty > 0
    BY <1>2, <1>3, <2>1
  <2> QED
    BY <2>2, DivisionNat
<1>5. gross \in Int
  <2> HIDE DEF r
  <2>1. r.price - log.entry \in Int
    BY <1>1, <1>2
  <2>2. (r.price - log.entry) * r.qty \in Int
    BY <1>2, <2>1, SMT
  <2>3. (r.price - log.entry) * r.qty * FeeScale \in Int
    BY <1>1, <2>2, SMT
  <2> QED
    BY <1>1, <2>3
<1>6. net \in Int
  BY <1>1, <1>2
<1>7. SoldOut(o, i, old) \in BOOLEAN
  BY DEF SoldOut
<1>8. SaleLogged(o, i, log, old, cost)
        = [log EXCEPT !.exit = exit, !.gross = gross, !.net = net,
                      !.closed = SoldOut(o, i, old)]
  BY DEF SaleLogged, TradeLog
<1> HIDE DEF r, sold, exit, gross, net
<1> QED
  BY <1>4, <1>5, <1>6, <1>7, <1>8 DEF TradeLog

(* A sale keeps the types: it sells at most what the position holds, and    *)
(* carries at most its cost.                                                *)
LEMMA SellFillType ==
  ASSUME TypeOK, NEW o \in OrderIds, NEW i \in DOMAIN snapshots[orders[o].symbol], SellFill(o, i)
  PROVE  TypeOK'
<1>1. Result(o, i).qty > 0 /\ RecordFill(o, i, FillNet(o, i))
  BY DEF SellFill, Filled
<1>2. /\ orders' \in [OrderIds -> Order] /\ fills' \in Seq(Fill)
      /\ cash' \in Nat /\ ledger' \in Seq(LedgerRow)
  <2>1. FillNet(o, i) \in Int /\ cash + FillNet(o, i) \in Nat
    BY ResultType DEF TypeOK
  <2> QED
    BY <1>1, <2>1, RecordFillType
<1>3. PICK p \in PositionsFound(o), l \in LogsFound(orders[o].symbol) :
        LET old  == positions[p]
            cost == Allocated(p, Result(o, i).qty)
            new  == Reduced(o, i, old, cost)
            log  == SaleLogged(o, i, logs[l], old, cost)
        IN  /\ Result(o, i).qty <= old.qty
            /\ positions' = [positions EXCEPT ![p] = new]
            /\ logs' = [logs EXCEPT ![l] = log]
            /\ realized' = realized + FillNet(o, i) - cost
            /\ IF new.open THEN UNCHANGED <<closed, visible>>
                           ELSE RecordClosed(o, i, p, l, log)
  BY DEF SellFill
<1> DEFINE old  == positions[p]
           cost == Allocated(p, Result(o, i).qty)
           new  == Reduced(o, i, old, cost)
           log  == SaleLogged(o, i, logs[l], old, cost)
<1>4. p \in DOMAIN positions /\ l \in DOMAIN logs
  BY DEF PositionsFound, LogsFound
<1>5. positions \in Seq(Position) /\ logs \in Seq(TradeLog) /\ p \in Nat /\ l \in Nat
  BY <1>4 DEF TypeOK
<1>6. old \in Position /\ logs[l] \in TradeLog
  BY <1>4, <1>5
<1>7. cost \in Nat /\ cost <= old.invested
  BY <1>1, <1>3, <1>4, ResultType, AllocatedType
<1>8. new \in Position
  BY <1>3, <1>6, <1>7, ReducedType
<1>9. log \in TradeLog
  BY <1>1, <1>6, <1>7, SaleLoggedType
<1>10. /\ positions' = [positions EXCEPT ![p] = new]
       /\ logs' = [logs EXCEPT ![l] = log]
       /\ realized' = realized + FillNet(o, i) - cost
       /\ \/ UNCHANGED <<closed, visible>>
          \/ RecordClosed(o, i, p, l, log)
  BY <1>3
<1> HIDE DEF old, cost, new, log
<1>11. positions' \in Seq(Position) /\ logs' \in Seq(TradeLog)
  BY <1>4, <1>5, <1>8, <1>9, <1>10, ExceptType
<1>12. realized' \in Int
  BY <1>7, <1>10, ResultType DEF TypeOK
<1>13. closed' \in Seq(ClosedTrade) /\ visible' \in Nat
  <2>1. CloseRecord(o, i, p, l, log) \in ClosedTrade
    BY <1>5, <1>9, ResultType DEF CloseRecord, ClosedTrade, TradeLog
  <2>2. Len(positions) \in Nat
    BY <1>5
  <2> QED
    BY <1>10, <2>1, <2>2, AppendType DEF RecordClosed, TypeOK
<1> QED
  BY <1>2, <1>11, <1>12, <1>13 DEF SellFill, TypeOK, market

-----------------------------------------------------------------------------
(* The rest of a session. *)

(* Losing a transaction restores tables that were well typed.               *)
LEMMA RollbackType ==
  ASSUME TypeOK, Rollback, outcome' \in {"ok", "aborted"}
  PROVE  TypeOK'
  BY DEF Rollback, RestorePortfolio, TypeOK, Tables, market

(* Marking a position keeps the types.                                      *)
LEMMA MarkType ==
  ASSUME TypeOK, NEW p \in DOMAIN positions, MarkPosition(p)
  PROVE  TypeOK'
<1>1. PICK i \in LatestSnapshots(positions[p].symbol) :
        positions' = [positions EXCEPT ![p].current = snapshots[positions[p].symbol][i].price]
  BY DEF MarkPosition
<1>2. positions \in Seq(Position)
  BY DEF TypeOK
<1>3. positions[p] \in Position
  BY <1>2
<1>4. positions[p].symbol \in Symbols
  BY <1>3 DEF Position
<1>5. snapshots[positions[p].symbol][i].price \in Nat
  BY <1>1, <1>4, ShotPrice DEF LatestSnapshots, Fresh
<1> DEFINE new == [positions[p] EXCEPT !.current = snapshots[positions[p].symbol][i].price]
<1>6. new \in Position
  BY <1>3, <1>5 DEF Position
<1>7. positions' = [positions EXCEPT ![p] = new]
  BY <1>1, <1>2
<1> HIDE DEF new
<1>8. positions' \in Seq(Position)
  BY <1>2, <1>6, <1>7, ExceptType
<1> QED
  BY <1>8 DEF MarkPosition, TypeOK, market

(* A submitted order keeps the types, with the signals and the flushed rows *)
(* left to the caller.                                                      *)
LEMMA SubmitType ==
  ASSUME TypeOK, NEW possible \in SUBSET Order, Submit(possible),
         signals' \in [Signals -> Nat], visible' \in Nat
  PROVE  TypeOK'
<1>1. PICK order \in possible, id \in NewIds : orders' = [orders EXCEPT ![id] = order]
  BY DEF Submit
<1>2. orders' \in [OrderIds -> Order]
  BY <1>1 DEF TypeOK
<1> QED
  BY <1>2 DEF Submit, TypeOK, market

(* The price of a stored snapshot, by symbol.                               *)
LEMMA QuotedPrice ==
  ASSUME TypeOK, NEW price \in UNION {Quoted(s) : s \in Symbols}
  PROVE  price \in Nat
  BY ShotPrice DEF Quoted

(* The cycle's own orders keep the types.                                   *)
LEMMA SubmissionsType == ASSUME TypeOK, Submissions PROVE TypeOK'
<1>1. PICK holding \in SUBSET DOMAIN positions, known \in SUBSET Known :
        \/ \E g \in Signals : SubmitEntry(g, holding, known)
        \/ \E p \in holding, price \in UNION {Quoted(s) : s \in Symbols} :
            \/ SubmitScaleIn(p, holding, known, price)
            \/ \E percent \in TrimPercents \cup {100} : SubmitExit(p, holding, known, percent, price)
  BY DEF Submissions
<1>2. positions \in Seq(Position) /\ now \in Nat /\ visible \in Nat
      /\ signals \in [Signals -> Nat]
  BY DEF TypeOK
<1>3. ASSUME NEW g \in Signals, SubmitEntry(g, holding, known)
      PROVE  TypeOK'
  <2>1. SymbolOf[g] \in Symbols
    BY BrokerAssumption DEF BrokerAssumption
  <2>2. PICK i \in LatestSnapshots(SymbolOf[g]) :
            Submit(EntryOrders(cash, positions, holding, orders, known, g,
                               snapshots[SymbolOf[g]][i].price))
    BY <1>3 DEF SubmitEntry
  <2>3. snapshots[SymbolOf[g]][i].price \in Nat
    BY <2>1, <2>2, ShotPrice DEF LatestSnapshots, Fresh
  <2>4. EntryOrders(cash, positions, holding, orders, known, g,
                    snapshots[SymbolOf[g]][i].price) \subseteq Order
    BY <1>2, <2>3, EntryOrdersType
  <2>5. signals' \in [Signals -> Nat] /\ visible' \in Nat
    BY <1>2, <1>3 DEF SubmitEntry
  <2> QED
    BY <2>2, <2>4, <2>5, SubmitType
<1>4. ASSUME NEW p \in holding, NEW price \in UNION {Quoted(s) : s \in Symbols},
             SubmitScaleIn(p, holding, known, price)
      PROVE  TypeOK'
  <2>1. price \in Nat /\ p \in DOMAIN positions
    BY QuotedPrice
  <2>2. ScaleInOrders(cash, positions, holding, orders, known, p, price) \subseteq Order
    BY <1>2, <2>1, ScaleInOrdersType
  <2> QED
    BY <1>2, <1>4, <2>2, SubmitType DEF SubmitScaleIn
<1>5. ASSUME NEW p \in holding, NEW price \in UNION {Quoted(s) : s \in Symbols},
             NEW percent \in TrimPercents \cup {100}, SubmitExit(p, holding, known, percent, price)
      PROVE  TypeOK'
  <2>1. price \in Nat /\ p \in DOMAIN positions
    BY QuotedPrice
  <2>2. ExitOrders(positions, holding, orders, known, p, percent, price) \subseteq Order
    BY <1>2, <2>1, ExitOrdersType
  <2> QED
    BY <1>2, <1>5, <2>2, SubmitType DEF SubmitExit
<1> QED
  BY <1>1, <1>3, <1>4, <1>5

(* What a session does keeps the types.                                     *)
LEMMA SessionType == ASSUME TypeOK, Session PROVE TypeOK'
<1>1. CASE Begin
  <2>1. Len(positions) \in Nat
    BY DEF TypeOK
  <2> QED
    BY <1>1, <2>1 DEF Begin, TypeOK, tables, market
<1>2. ASSUME NEW o \in OrderIds, Process(o)
      PROVE  TypeOK'
  <2>1. CASE RejectEntry(o)
    <3>1. orders \in [OrderIds -> Order] /\ orders[o] \in Order
      BY DEF TypeOK
    <3>2. orders' \in [OrderIds -> Order]
      BY <2>1, <3>1 DEF RejectEntry, Order, Statuses
    <3> QED
      BY <2>1, <3>2 DEF RejectEntry, TypeOK, market
  <2>2. ASSUME NEW i \in DOMAIN snapshots[orders[o].symbol],
               NotFilled(o, i) \/ BuyFill(o, i) \/ SellFill(o, i)
        PROVE  TypeOK'
    BY <2>2, NoFillType, BuyFillType, SellFillType
  <2>3. ASSUME NEW i \in DOMAIN snapshots[orders[o].symbol], Raise(o, i)
        PROVE  TypeOK'
    BY <2>3, RollbackType DEF Raise
  <2> QED
    BY <1>2, <2>1, <2>2, <2>3 DEF Process
<1>3. ASSUME NEW p \in DOMAIN positions, MarkPosition(p)
      PROVE  TypeOK'
  BY <1>3, MarkType
<1>4. ASSUME NEW trips \in BOOLEAN, Commit(trips)
      PROVE  TypeOK'
  <2>1. committed' \in Tables
    BY <1>4 DEF Commit, Working, TypeOK, Tables
  <2> QED
    BY <1>4, <2>1 DEF Commit, TypeOK, tables, market
<1>5. CASE Crash
  BY <1>5, RollbackType DEF Crash
<1> QED
  BY <1>1, <1>2, <1>3, <1>4, <1>5, SubmissionsType DEF Session

(* No step breaks the types.                                                *)
LEMMA StepType == TypeOK /\ [Next]_vars => TypeOK'
<1>1. ASSUME TypeOK, UNCHANGED vars
      PROVE  TypeOK'
  BY <1>1 DEF vars, tables, market, TypeOK
<1> QED
  BY <1>1, MarketType, ApiType, SessionType DEF Next

(* Every table of the broker is well typed in every reachable state: cash,  *)
(* and the quantity, cost and average price of a position, never go below   *)
(* zero, whatever is submitted, filled, sold or rolled back.                *)
THEOREM TypeCorrect == Spec => []TypeOK
  BY InitType, StepType, PTL DEF Spec

-----------------------------------------------------------------------------
(* All that a step of the broker can do to money. *)

(* Cash and ledger, in the session and in the database, stay as they are.   *)
MoneyKept == UNCHANGED <<cash, ledger, committed.cash, committed.ledger>>

(* A row is posted in the session,                                          *)
Posted == \E o \in OrderIds, amount \in Int :
    /\ cash' = cash + amount
    /\ ledger' = Append(ledger, Row(o, amount))
    /\ UNCHANGED committed

(* the session takes over the database (abort, crash),                      *)
Restored ==
    /\ cash' = committed.cash /\ ledger' = committed.ledger
    /\ UNCHANGED committed

(* or the database takes over the session (commit).                         *)
Saved ==
    /\ committed'.cash = cash /\ committed'.ledger = ledger
    /\ UNCHANGED <<cash, ledger>>

(* The market, the API and the submissions leave money alone.               *)
LEMMA OutsideKeepsMoney ==
  ASSUME TypeOK, Market \/ Api \/ Submissions
  PROVE  MoneyKept
<1> USE DEF MoneyKept
<1>1. CASE Market
  <2>1. ASSUME NEW g \in Signals, PublishSignal(g)
        PROVE  MoneyKept
    BY <2>1 DEF PublishSignal, TypeOK, Tables
  <2> QED
    BY <1>1, <2>1 DEF Market, Tick, ArriveSnapshot, LapseSignal, tables
<1>2. CASE Api
  <2>1. ASSUME NEW c \in Clients, ApiCommit(c)
        PROVE  MoneyKept
    BY <2>1 DEF ApiCommit, TypeOK, Tables
  <2> QED
    BY <1>2, <2>1 DEF Api, ApiFromSignal, ApiScaleIn, ApiExit, ApiKill, Decide, tables
<1>3. CASE Submissions
  BY <1>3 DEF Submissions, SubmitEntry, SubmitScaleIn, SubmitExit, Submit
<1> QED
  BY <1>1, <1>2, <1>3

(* Every step keeps money, posts one row, restores or saves the account.    *)
LEMMA MoneyStep ==
  ASSUME TypeOK, [Next]_vars
  PROVE  MoneyKept \/ Posted \/ Restored \/ Saved
<1>1. CASE UNCHANGED vars
  BY <1>1 DEF vars, tables, MoneyKept
<1>2. CASE Market \/ Api \/ Submissions
  BY <1>2, OutsideKeepsMoney
<1>3. CASE Session
  <2>1. CASE Begin
    BY <2>1 DEF Begin, tables, MoneyKept
  <2>2. ASSUME NEW o \in OrderIds, Process(o)
        PROVE  MoneyKept \/ Posted \/ Restored
    <3>1. CASE RejectEntry(o)
      BY <3>1 DEF RejectEntry, MoneyKept
    <3>2. ASSUME NEW i \in DOMAIN snapshots[orders[o].symbol], NotFilled(o, i)
          PROVE  MoneyKept
      BY <3>2 DEF NotFilled, MoneyKept
    <3>3. ASSUME NEW i \in DOMAIN snapshots[orders[o].symbol], BuyFill(o, i)
          PROVE  Posted
      <4>1. -FillNet(o, i) \in Int
        BY ResultType
      <4>2. RecordFill(o, i, -FillNet(o, i)) /\ UNCHANGED committed
        BY <3>3 DEF BuyFill
      <4> HIDE DEF Row
      <4> QED
        BY <4>1, <4>2 DEF RecordFill, Posted
    <3>4. ASSUME NEW i \in DOMAIN snapshots[orders[o].symbol], SellFill(o, i)
          PROVE  Posted
      <4>1. FillNet(o, i) \in Int
        BY ResultType
      <4>2. RecordFill(o, i, FillNet(o, i)) /\ UNCHANGED committed
        BY <3>4 DEF SellFill
      <4> QED
        BY <4>1, <4>2 DEF RecordFill, Posted
    <3>5. ASSUME NEW i \in DOMAIN snapshots[orders[o].symbol], Raise(o, i)
          PROVE  Restored
      BY <3>5 DEF Raise, Rollback, RestorePortfolio, Restored
    <3> QED
      BY <2>2, <3>1, <3>2, <3>3, <3>4, <3>5 DEF Process
  <2>3. ASSUME NEW p \in DOMAIN positions, MarkPosition(p)
        PROVE  MoneyKept
    BY <2>3 DEF MarkPosition, MoneyKept
  <2>4. ASSUME NEW trips \in BOOLEAN, Commit(trips)
        PROVE  Saved
    BY <2>4 DEF Commit, Working, tables, Saved
  <2>5. CASE Crash
    BY <2>5 DEF Crash, Rollback, RestorePortfolio, Restored
  <2> QED
    BY <1>2, <1>3, <2>1, <2>2, <2>3, <2>4, <2>5 DEF Session
<1> QED
  BY <1>1, <1>2, <1>3 DEF Next

-----------------------------------------------------------------------------
(* The inductive invariant. *)

(* A journal of rows that starts with the campaign's capital and ends with  *)
(* "balance".                                                               *)
Journal(rows, balance) ==
    /\ rows \in Seq(LedgerRow)
    /\ Len(rows) > 0
    /\ rows[1].amount = InitialCash /\ rows[1].balance = InitialCash
    /\ \A k \in 2..Len(rows) : rows[k].balance = rows[k - 1].balance + rows[k].amount
    /\ balance = rows[Len(rows)].balance

(* The session only ever adds rows to what the database holds.              *)
OnlyAdded ==
    /\ Len(committed.ledger) <= Len(ledger)
    /\ \A k \in 1..Len(committed.ledger) : ledger[k] = committed.ledger[k]

(* The inductive invariant of the money.                                    *)
MoneyInv ==
    /\ Journal(ledger, cash)
    /\ Journal(committed.ledger, committed.cash)
    /\ OnlyAdded

(* A journal with one more row that carries the new balance is a journal.   *)
LEMMA JournalAppend ==
  ASSUME NEW rows, NEW balance \in Int, NEW row \in LedgerRow, Journal(rows, balance),
         row.balance = balance + row.amount
  PROVE  Journal(Append(rows, row), row.balance)
<1> DEFINE more == Append(rows, row)
<1>1. rows \in Seq(LedgerRow) /\ Len(rows) > 0 /\ balance = rows[Len(rows)].balance
  BY DEF Journal
<1>2. more \in Seq(LedgerRow) /\ Len(more) = Len(rows) + 1 /\ more[Len(more)] = row
  BY <1>1
<1>3. \A k \in 1..Len(rows) : more[k] = rows[k]
  BY <1>1
<1> HIDE DEF more
<1>4. ASSUME NEW k \in 2..Len(more)
      PROVE  more[k].balance = more[k - 1].balance + more[k].amount
  <2>1. CASE k = Len(more)
    BY <1>1, <1>2, <1>3, <2>1
  <2>2. CASE k # Len(more)
    <3>1. k \in 2..Len(rows) /\ k - 1 \in 1..Len(rows) /\ k \in 1..Len(rows)
      BY <1>1, <1>2, <2>2
    <3> QED
      BY <1>3, <3>1 DEF Journal
  <2> QED
    BY <2>1, <2>2
<1>5. more[1] = rows[1]
  BY <1>1, <1>3
<1>6. Journal(more, row.balance)
  BY <1>1, <1>2, <1>4, <1>5 DEF Journal
<1> QED
  BY <1>6 DEF more

(* A new campaign's journal is its opening row.                             *)
LEMMA InitMoney == ASSUME Init PROVE MoneyInv
<1>1. TypeOK
  BY InitType
<1>2. committed.ledger = ledger /\ committed.cash = cash
  BY DEF Init, Working
<1>3. Journal(ledger, cash)
  BY <1>1 DEF Init, Journal, TypeOK
<1> QED
  BY <1>1, <1>2, <1>3 DEF MoneyInv, OnlyAdded, TypeOK

(* No step breaks the journals.                                             *)
LEMMA StepMoney == ASSUME TypeOK, MoneyInv, [Next]_vars PROVE MoneyInv'
<1>1. CASE MoneyKept
  BY <1>1 DEF MoneyKept, MoneyInv, OnlyAdded, Journal
<1>2. CASE Posted
  <2>1. PICK o \in OrderIds, amount \in Int :
          /\ cash' = cash + amount
          /\ ledger' = Append(ledger, Row(o, amount))
          /\ UNCHANGED committed
    BY <1>2 DEF Posted
  <2>2. TypeOK'
    BY StepType
  <2>3. cash \in Int /\ cash' \in Nat /\ ledger \in Seq(LedgerRow)
    BY <2>2 DEF TypeOK
  <2>4. Row(o, amount) \in LedgerRow
    BY <2>1, <2>3 DEF Row, LedgerRow, OrderIds
  <2>5. Journal(ledger', cash')
    <3>1. Row(o, amount).balance = cash + Row(o, amount).amount /\ Row(o, amount).balance = cash'
      BY <2>1 DEF Row
    <3> QED
      BY <2>1, <2>3, <2>4, <3>1, JournalAppend DEF MoneyInv
  <2>6. /\ Len(committed.ledger) <= Len(ledger')
        /\ \A k \in 1..Len(committed.ledger) : ledger'[k] = committed.ledger[k]
    <3>1. Len(ledger') = Len(ledger) + 1 /\ \A k \in 1..Len(ledger) : ledger'[k] = ledger[k]
      BY <2>1, <2>3, <2>4
    <3>2. Len(committed.ledger) \in Nat
      BY DEF MoneyInv, Journal
    <3> QED
      BY <2>3, <3>1, <3>2 DEF MoneyInv, OnlyAdded
  <2> QED
    BY <2>1, <2>5, <2>6 DEF MoneyInv, OnlyAdded, Journal
<1>3. CASE Restored
  <2>1. Len(committed.ledger) \in Nat
    BY DEF MoneyInv, Journal
  <2> QED
    BY <1>3, <2>1 DEF Restored, MoneyInv, OnlyAdded, Journal
<1>4. CASE Saved
  <2>1. Len(ledger) \in Nat
    BY DEF MoneyInv, Journal
  <2> QED
    BY <1>4, <2>1 DEF Saved, MoneyInv, OnlyAdded, Journal
<1> QED
  BY <1>1, <1>2, <1>3, <1>4, MoneyStep

(* The journals hold in every reachable state.                              *)
LEMMA MoneyHolds == Spec => [](TypeOK /\ MoneyInv)
<1>1. Init => TypeOK /\ MoneyInv
  BY InitType, InitMoney
<1>2. TypeOK /\ MoneyInv /\ [Next]_vars => (TypeOK /\ MoneyInv)'
  BY StepType, StepMoney
<1> QED
  BY <1>1, <1>2, PTL DEF Spec

(* The cash ledger is a running balance from the capital to the             *)
(* portfolio's cash, in the session and in the database.                    *)
THEOREM LedgerBalances == Spec => []RunningBalance
<1>1. MoneyInv => RunningBalance
  BY DEF MoneyInv, Journal, RunningBalance, Balanced, Working
<1> QED
  BY <1>1, MoneyHolds, PTL

-----------------------------------------------------------------------------
(* Refinement. *)

(* The database's account starts with its opening row.                      *)
LEMMA AccountStart == ASSUME MoneyInv PROVE Account!AccountInit
<1>1. \A k \in 1..Len(committed.ledger) : committed.ledger[k].balance \in Nat
  <2>1. committed.ledger \in Seq(LedgerRow)
    BY DEF MoneyInv, Journal
  <2>2. \A k \in 1..Len(committed.ledger) : committed.ledger[k] \in LedgerRow
    BY <2>1
  <2> QED
    BY <2>2 DEF LedgerRow
<1> QED
  BY <1>1 DEF MoneyInv, Journal, Account!AccountInit, Account!Chained

(* A step posts a batch of rows to the database's account or leaves it.     *)
LEMMA AccountStep ==
  ASSUME TypeOK, MoneyInv, [Next]_vars
  PROVE  [Account!Post]_Account!vars
<1>1. CASE MoneyKept \/ Posted \/ Restored
  BY <1>1 DEF MoneyKept, Posted, Restored, Account!vars
<1>2. CASE Saved
  <2> DEFINE old == committed.ledger
  <2>1. committed'.ledger = ledger /\ committed'.cash = cash
    BY <1>2 DEF Saved
  <2>2. /\ old \in Seq(LedgerRow) /\ ledger \in Seq(LedgerRow)
        /\ Len(old) \in Nat /\ Len(ledger) \in Nat /\ Len(old) > 0
        /\ Len(old) <= Len(ledger)
        /\ \A k \in 1..Len(old) : ledger[k] = old[k]
    BY DEF MoneyInv, Journal, OnlyAdded
  <2>3. CASE Len(ledger) = Len(old)
    <3>1. ledger = old
      BY <2>2, <2>3
    <3>2. cash = committed.cash
      BY <3>1 DEF MoneyInv, Journal
    <3> QED
      BY <2>1, <3>1, <3>2 DEF Account!vars
  <2>4. CASE Len(ledger) # Len(old)
    <3>1. Len(ledger) > Len(old)
      BY <2>2, <2>4
    <3>2. SubSeq(ledger, 1, Len(old)) = old
      BY <2>2
    <3>3. ASSUME NEW k \in Len(old) + 1..Len(ledger)
          PROVE  /\ ledger[k].balance = ledger[k - 1].balance + ledger[k].amount
                 /\ ledger[k].balance >= 0
      <4>1. k \in 2..Len(ledger) /\ k \in 1..Len(ledger)
        BY <2>2
      <4>2. ledger[k] \in LedgerRow
        BY <2>2, <4>1
      <4> QED
        BY <4>1, <4>2 DEF MoneyInv, Journal, LedgerRow
    <3>4. Account!Post
      <4>1. committed'.cash = committed'.ledger[Len(committed'.ledger)].balance
        BY <2>1 DEF MoneyInv, Journal
      <4> QED
        BY <2>1, <3>1, <3>2, <3>3, <4>1
           DEF Account!Post, Account!Continues, Account!Chained
    <3> QED
      BY <3>4
  <2> QED
    BY <2>3, <2>4
<1> QED
  BY <1>1, <1>2, MoneyStep

(* The broker implements CashAccount: each commit posts its rows as one     *)
(* batch, and nothing else changes what the database says of money.         *)
THEOREM ImplementsAccount == Spec => CashIsAnAccount
<1>1. TypeOK /\ MoneyInv => Account!AccountInit
  BY AccountStart
<1>2. TypeOK /\ MoneyInv /\ [Next]_vars => [Account!Post]_Account!vars
  BY AccountStep
<1> QED
  BY <1>1, <1>2, MoneyHolds, PTL DEF Spec, CashIsAnAccount, Account!AccountSpec

-----------------------------------------------------------------------------
(* The kill switch. *)

(* The inductive invariant of the kill switch.                              *)
KillInv == NothingLeftBehind /\ KillStopsBuying

(* What the market and the API do to the tables they share with the session *)
(* they do to both copies.                                                  *)
LEMMA OutsideKeepsCopies ==
  ASSUME TypeOK, Market \/ Api
  PROVE  /\ Working = committed => Working' = committed'
         /\ UNCHANGED <<fills, committed.fills, session, killSeen>>
<1> USE DEF Working
<1>1. committed \in Tables
  BY DEF TypeOK
<1>2. ASSUME NEW g \in Signals, PublishSignal(g)
      PROVE  /\ Working = committed => Working' = committed'
             /\ UNCHANGED <<fills, committed.fills, session, killSeen>>
  <2>1. UNCHANGED <<fills, session, killSeen>> /\ committed'.fills = committed.fills
    BY <1>1, <1>2 DEF PublishSignal, Tables
  <2>2. ASSUME Working = committed
        PROVE  Working' = [Working EXCEPT !.signals[g] = now]
    BY <1>2 DEF PublishSignal
  <2> QED
    BY <1>2, <2>1, <2>2 DEF PublishSignal
<1>3. ASSUME NEW c \in Clients, ApiCommit(c)
      PROVE  /\ Working = committed => Working' = committed'
             /\ UNCHANGED <<fills, committed.fills, session, killSeen>>
  <2>1. PICK id \in NewIds :
          /\ orders' = [orders EXCEPT ![id] = requests[c]]
          /\ committed' = [committed EXCEPT !.orders[id] = requests[c]]
    BY <1>3 DEF ApiCommit
  <2>2. UNCHANGED <<fills, session, killSeen>> /\ committed'.fills = committed.fills
    BY <1>1, <1>3, <2>1 DEF ApiCommit, Tables
  <2>3. Working' = [Working EXCEPT !.orders[id] = requests[c]]
    BY <1>3, <2>1 DEF ApiCommit
  <2> QED
    BY <2>1, <2>2, <2>3
<1>4. CASE UNCHANGED <<tables, committed, session, killSeen>>
  BY <1>4 DEF tables
<1>5. CASE Market
  BY <1>2, <1>4, <1>5 DEF Market, Tick, ArriveSnapshot, LapseSignal
<1>6. CASE Api
  BY <1>3, <1>4, <1>6 DEF Api, ApiFromSignal, ApiScaleIn, ApiExit, ApiKill, Decide
<1> QED
  BY <1>5, <1>6

(* A session under the kill switch that adds a fill adds a sale.            *)
LEMMA FillKeepsKill ==
  ASSUME TypeOK, KillInv, NEW o \in OrderIds, NEW i \in DOMAIN snapshots[orders[o].symbol],
         BuyFill(o, i) \/ SellFill(o, i)
  PROVE  KillInv'
<1>1. session = "open" /\ UNCHANGED <<committed, session, killSeen>>
  BY DEF BuyFill, SellFill, Filled, Considers
<1>2. CASE BuyFill(o, i)
  <2>1. ~killSeen
    BY <1>2 DEF BuyFill, Filled, Considers, EntryAdmitted
  <2> QED
    BY <1>1, <2>1 DEF KillInv, NothingLeftBehind, KillStopsBuying
<1>3. CASE SellFill(o, i)
  <2> DEFINE fill == [order |-> o, symbol |-> orders[o].symbol, side |-> orders[o].side,
                      qty |-> Result(o, i).qty, price |-> Result(o, i).price,
                      net |-> FillNet(o, i), at |-> At(o, i)]
  <2>1. fills' = Append(fills, fill) /\ fill.side = "SELL"
    BY <1>3 DEF SellFill, RecordFill
  <2>2. fills \in Seq(Fill) /\ fills' \in Seq(Fill)
    BY StepType, <1>3, SellFillType DEF TypeOK
  <2>3. /\ DOMAIN fills' = 1..Len(fills) + 1
        /\ \A k \in 1..Len(fills) : fills'[k] = fills[k]
        /\ fills'[Len(fills) + 1].side = "SELL"
    <3> HIDE DEF fill
    <3> QED
      BY <2>1, <2>2
  <2>4. KillStopsBuying'
    BY <1>1, <2>2, <2>3 DEF KillInv, KillStopsBuying
  <2> QED
    BY <1>1, <2>4 DEF KillInv, NothingLeftBehind
<1> QED
  BY <1>2, <1>3

(* No step breaks the invariant.                                            *)
LEMMA StepKill == ASSUME TypeOK, KillInv, [Next]_vars PROVE KillInv'
<1> USE DEF KillInv, NothingLeftBehind, KillStopsBuying
<1>1. CASE UNCHANGED vars
  BY <1>1 DEF vars, tables, Working
<1>2. CASE Market \/ Api
  BY <1>2, OutsideKeepsCopies
<1>3. ASSUME session' = "open", fills' = fills, committed' = committed, killSeen' = killSeen
      PROVE  KillInv'
  BY <1>3
<1>4. ASSUME Rollback
      PROVE  KillInv'
  BY <1>4 DEF Rollback, RestorePortfolio, Working, TypeOK, Tables
<1>5. CASE Session
  <2>1. CASE Begin
    <3>1. fills = committed.fills /\ fills' = fills /\ committed' = committed
      BY <2>1 DEF Begin, tables, Working
    <3>2. fills' \in Seq(Fill)
      BY <3>1 DEF TypeOK
    <3> QED
      BY <2>1, <3>1, <3>2 DEF Begin
  <2>2. ASSUME NEW o \in OrderIds, Process(o)
        PROVE  KillInv'
    BY <1>3, <1>4, <2>2, FillKeepsKill DEF Process, RejectEntry, NotFilled, Considers, Raise
  <2>3. ASSUME NEW p \in DOMAIN positions, MarkPosition(p)
        PROVE  KillInv'
    BY <1>3, <2>3 DEF MarkPosition
  <2>4. CASE Submissions
    BY <1>3, <2>4 DEF Submissions, SubmitEntry, SubmitScaleIn, SubmitExit, Submit
  <2>5. ASSUME NEW trips \in BOOLEAN, Commit(trips)
        PROVE  KillInv'
    BY <2>5 DEF Commit, Working, tables
  <2>6. CASE Crash
    BY <1>4, <2>6 DEF Crash
  <2> QED
    BY <1>5, <2>1, <2>2, <2>3, <2>4, <2>5, <2>6 DEF Session
<1> QED
  BY <1>1, <1>2, <1>5 DEF Next

(* The invariant holds in every reachable state.                            *)
LEMMA KillHolds == Spec => []KillInv
<1>1. Init => TypeOK /\ KillInv
  BY InitType DEF Init, KillInv, NothingLeftBehind, KillStopsBuying, Working
<1>2. TypeOK /\ KillInv /\ [Next]_vars => (TypeOK /\ KillInv)'
  BY StepType, StepKill
<1> QED
  BY <1>1, <1>2, PTL DEF Spec

(* No transaction of a cycle that began under the kill switch buys shares,  *)
(* whatever was queued before it.                                           *)
THEOREM KillSwitchHolds == Spec => []KillStopsBuying
  BY KillHolds, PTL DEF KillInv

(* Between cycles the session's tables are those of the database: an abort  *)
(* or a crash leaves nothing behind.                                        *)
THEOREM NothingUncommitted == Spec => []NothingLeftBehind
  BY KillHolds, PTL DEF KillInv

-----------------------------------------------------------------------------
(* Orders and their fills. *)

(* An order table and the fills of its orders.                              *)
InOrder(ords, rows) ==
    /\ \A o \in OrderIds : ords[o].created <= ords[o].cursor
    /\ \A k \in DOMAIN rows :
        /\ ords[rows[k].order].status # "NONE"
        /\ ords[rows[k].order].created < rows[k].at
        /\ rows[k].at <= ords[rows[k].order].cursor
        /\ \A j \in DOMAIN rows :
            j < k /\ rows[j].order = rows[k].order => rows[j].at < rows[k].at

(* An identifier the database uses is also taken in the session.            *)
TakenInBoth ==
    \A o \in OrderIds : committed.orders[o].status # "NONE" => orders[o].status # "NONE"

(* The inductive invariant of the order of fills.                           *)
OrderInv ==
    /\ InOrder(orders, fills)
    /\ InOrder(committed.orders, committed.fills)
    /\ TakenInBoth
    /\ \A c \in Clients : requests[c].created <= requests[c].cursor

(* What may replace an order without a new fill: a later state of the same  *)
(* order, or the order that takes a free identifier.                        *)
Follows(old, new) ==
    /\ new.status # "NONE" \/ old.status = "NONE"
    /\ new.created <= new.cursor
    /\ old.status # "NONE" => new.created = old.created /\ old.cursor <= new.cursor

(* Such a replacement keeps fills and orders in order.                      *)
LEMMA InOrderFollows ==
  ASSUME NEW ords \in [OrderIds -> Order], NEW rows \in Seq(Fill), InOrder(ords, rows),
         NEW o \in OrderIds, NEW new \in Order, Follows(ords[o], new)
  PROVE  InOrder([ords EXCEPT ![o] = new], rows)
<1> DEFINE next == [ords EXCEPT ![o] = new]
<1>1. next[o] = new /\ \A p \in OrderIds : p # o => next[p] = ords[p]
  OBVIOUS
<1> HIDE DEF next
<1>2. \A p \in OrderIds : next[p].created <= next[p].cursor
  BY <1>1 DEF InOrder, Follows
<1>3. ASSUME NEW k \in DOMAIN rows
      PROVE  /\ next[rows[k].order].status # "NONE"
             /\ next[rows[k].order].created < rows[k].at
             /\ rows[k].at <= next[rows[k].order].cursor
  <2>1. rows[k] \in Fill
    OBVIOUS
  <2>2. rows[k].order \in OrderIds /\ rows[k].at \in Nat
    BY <2>1 DEF Fill
  <2>3. /\ ords[rows[k].order].status # "NONE" /\ ords[rows[k].order].created < rows[k].at
        /\ rows[k].at <= ords[rows[k].order].cursor
    BY DEF InOrder
  <2>4. CASE rows[k].order # o
    BY <1>1, <2>2, <2>3, <2>4
  <2>5. CASE rows[k].order = o
    <3>1. /\ new.status # "NONE" /\ new.created = ords[o].created /\ ords[o].cursor <= new.cursor
      BY <2>3, <2>5 DEF Follows
    <3>2. ords[o].cursor \in Nat /\ new.cursor \in Nat
      BY DEF Order
    <3> QED
      BY <1>1, <2>2, <2>3, <2>5, <3>1, <3>2
  <2> QED
    BY <2>4, <2>5
<1>4. InOrder(next, rows)
  BY <1>2, <1>3 DEF InOrder
<1> QED
  BY <1>4 DEF next

(* A fill at an order's new cursor, beyond its old one, keeps them in order. *)
LEMMA InOrderFilled ==
  ASSUME NEW ords \in [OrderIds -> Order], NEW rows \in Seq(Fill), InOrder(ords, rows),
         NEW o \in OrderIds, ords[o].created < ords[o].cursor, ords[o].status # "NONE",
         NEW row \in Fill, row.order = o, row.at = ords[o].cursor,
         \A k \in DOMAIN rows : rows[k].order = o => rows[k].at < row.at
  PROVE  InOrder(ords, Append(rows, row))
<1> DEFINE more == Append(rows, row)
<1>1. /\ DOMAIN more = 1..Len(rows) + 1 /\ DOMAIN rows = 1..Len(rows) /\ Len(rows) \in Nat
      /\ more[Len(rows) + 1] = row /\ \A k \in 1..Len(rows) : more[k] = rows[k]
  OBVIOUS
<1> HIDE DEF more
<1>2. ords[o] \in Order
  OBVIOUS
<1>3. ords[o].cursor \in Nat
  BY <1>2 DEF Order
<1>4. ASSUME NEW k \in DOMAIN more
      PROVE  /\ ords[more[k].order].status # "NONE"
             /\ ords[more[k].order].created < more[k].at
             /\ more[k].at <= ords[more[k].order].cursor
             /\ \A j \in DOMAIN more :
                    j < k /\ more[j].order = more[k].order => more[j].at < more[k].at
  <2>1. CASE k = Len(rows) + 1
    BY <1>1, <1>3, <2>1
  <2>2. CASE k # Len(rows) + 1
    <3>1. k \in DOMAIN rows /\ more[k] = rows[k]
      BY <1>1, <2>2
    <3>2. \A j \in DOMAIN more : j < k => j \in DOMAIN rows /\ more[j] = rows[j]
      BY <1>1, <2>2
    <3> QED
      BY <3>1, <3>2 DEF InOrder
  <2> QED
    BY <2>1, <2>2
<1>5. InOrder(ords, more)
  BY <1>4 DEF InOrder
<1> QED
  BY <1>5 DEF more

-----------------------------------------------------------------------------
(* The steps of the broker on its orders. *)

(* Every order-creating method returns orders that nothing has evaluated.   *)
LEMMA NewOrders ==
  ASSUME TypeOK
  PROVE  /\ \A cashNow, poss, holding, ords, known, g, price :
              \A order \in EntryOrders(cashNow, poss, holding, ords, known, g, price) :
                  order.created <= order.cursor
         /\ \A cashNow, poss, holding, ords, known, p, price :
              \A order \in ScaleInOrders(cashNow, poss, holding, ords, known, p, price) :
                  order.created <= order.cursor
         /\ \A poss, holding, ords, known, p, percent, price :
              \A order \in ExitOrders(poss, holding, ords, known, p, percent, price) :
                  order.created <= order.cursor
<1>1. now <= now
  BY DEF TypeOK
<1>2. \A side, type, symbol, signal, position, price, qty :
        LET order == NewOrder(side, type, symbol, signal, position, price, qty)
        IN  order.created <= order.cursor
  BY <1>1 DEF NewOrder
<1>3. \A cashNow, poss, holding, ords, known, g, price :
        \A order \in EntryOrders(cashNow, poss, holding, ords, known, g, price) :
            order.created <= order.cursor
  BY <1>2 DEF EntryOrders
<1>4. \A cashNow, poss, holding, ords, known, p, price :
        \A order \in ScaleInOrders(cashNow, poss, holding, ords, known, p, price) :
            order.created <= order.cursor
  BY <1>2 DEF ScaleInOrders
<1>5. \A poss, holding, ords, known, p, percent, price :
        \A order \in ExitOrders(poss, holding, ords, known, p, percent, price) :
            order.created <= order.cursor
  BY <1>2 DEF ExitOrders
<1> QED
  BY <1>3, <1>4, <1>5

(* An order looked at against a later snapshot.                             *)
LEMMA EvaluatedInOrder ==
  ASSUME TypeOK, OrderInv, NEW o \in OrderIds,
         NEW i \in DOMAIN snapshots[orders[o].symbol], Considers(o, i),
         NEW next, next = Evaluated(o, i) \/ next = [orders EXCEPT ![o].cursor = At(o, i)]
  PROVE  /\ next \in [OrderIds -> Order]
         /\ InOrder(next, fills)
         /\ \A p \in OrderIds : orders[p].status # "NONE" => next[p].status # "NONE"
         /\ next[o].status # "NONE"
         /\ next[o].cursor = At(o, i) /\ orders[o].cursor < At(o, i)
         /\ next[o].created = orders[o].created /\ orders[o].created <= orders[o].cursor
<1>1. orders \in [OrderIds -> Order] /\ orders[o] \in Order /\ fills \in Seq(Fill)
  BY DEF TypeOK
<1>2. orders[o].created \in Nat /\ orders[o].cursor \in Nat /\ At(o, i) \in Nat
  BY <1>1, ResultType DEF Order
<1>3. orders[o].cursor < At(o, i)
  BY <1>2 DEF Considers, NextSnapshots, At
<1>4. orders[o].status # "NONE" /\ orders[o].created <= orders[o].cursor
  BY DEF Considers, IsPending, OrderInv, InOrder
<1>5. PICK new \in Order : /\ next = [orders EXCEPT ![o] = new]
                           /\ new.created = orders[o].created /\ new.cursor = At(o, i)
                           /\ new.status # "NONE"
  <2>1. CASE next = Evaluated(o, i)
    <3> DEFINE new == [orders[o] EXCEPT !.cursor = At(o, i), !.status = Result(o, i).status,
                                        !.filled = orders[o].filled + Result(o, i).qty]
    <3>1. /\ orders[o].filled + Result(o, i).qty \in Nat
          /\ Result(o, i).status \in Statuses \ {"NONE"}
      BY <1>1, ResultType DEF Order
    <3>2. new \in Order
      BY <1>1, <1>2, <3>1, MovedOrderType
    <3>3. next = [orders EXCEPT ![o] = new]
      BY <1>1, <2>1 DEF Evaluated
    <3>4. new.created = orders[o].created /\ new.cursor = At(o, i) /\ new.status # "NONE"
      BY <1>1, <3>1 DEF Order
    <3> HIDE DEF new
    <3> QED
      BY <3>2, <3>3, <3>4
  <2>2. CASE next = [orders EXCEPT ![o].cursor = At(o, i)]
    <3> DEFINE new == [orders[o] EXCEPT !.cursor = At(o, i)]
    <3>1. new \in Order /\ new.created = orders[o].created /\ new.cursor = At(o, i)
          /\ new.status # "NONE"
      BY <1>1, <1>2, <1>4 DEF Order
    <3>2. next = [orders EXCEPT ![o] = new]
      BY <1>1, <2>2
    <3> HIDE DEF new
    <3> QED
      BY <3>1, <3>2
  <2> QED
    BY <2>1, <2>2
<1>6. Follows(orders[o], new)
  BY <1>2, <1>3, <1>4, <1>5 DEF Follows
<1>7. InOrder(next, fills)
  BY <1>1, <1>5, <1>6, InOrderFollows DEF OrderInv
<1>8. next[o] = new /\ \A p \in OrderIds : p # o => next[p] = orders[p]
  BY <1>1, <1>5
<1> QED
  BY <1>1, <1>3, <1>4, <1>5, <1>7, <1>8

(* A fill.                                                                  *)
LEMMA FillInOrder ==
  ASSUME TypeOK, OrderInv, NEW o \in OrderIds,
         NEW i \in DOMAIN snapshots[orders[o].symbol], Considers(o, i),
         NEW amount, RecordFill(o, i, amount)
  PROVE  /\ InOrder(orders', fills')
         /\ \A p \in OrderIds : orders[p].status # "NONE" => orders'[p].status # "NONE"
<1> DEFINE fill == [order |-> o, symbol |-> orders[o].symbol, side |-> orders[o].side,
                    qty |-> Result(o, i).qty, price |-> Result(o, i).price,
                    net |-> FillNet(o, i), at |-> At(o, i)]
<1>1. orders' = Evaluated(o, i) /\ fills' = Append(fills, fill)
  BY DEF RecordFill
<1>2. /\ orders' \in [OrderIds -> Order]
      /\ InOrder(orders', fills)
      /\ \A p \in OrderIds : orders[p].status # "NONE" => orders'[p].status # "NONE"
      /\ orders'[o].status # "NONE"
      /\ orders'[o].cursor = At(o, i) /\ orders[o].cursor < At(o, i)
      /\ orders'[o].created = orders[o].created /\ orders[o].created <= orders[o].cursor
  BY <1>1, EvaluatedInOrder
<1>3. orders[o] \in Order /\ fills \in Seq(Fill)
  BY DEF TypeOK
<1>4. /\ orders[o].symbol \in Symbols /\ orders[o].side \in {"BUY", "SELL"}
      /\ orders[o].created \in Nat /\ orders[o].cursor \in Nat /\ At(o, i) \in Nat
  BY <1>3, ResultType DEF Order
<1>5. fill \in Fill
  BY <1>4, ResultType DEF Fill
<1>6. fill.order = o /\ fill.at = orders'[o].cursor /\ orders'[o].created < orders'[o].cursor
  BY <1>2, <1>4
<1>7. ASSUME NEW k \in DOMAIN fills, fills[k].order = o
      PROVE  fills[k].at < fill.at
  <2>1. fills[k] \in Fill
    BY <1>3
  <2>2. fills[k].at \in Nat /\ fills[k].at <= orders[o].cursor
    BY <1>7, <2>1 DEF OrderInv, InOrder, Fill
  <2> QED
    BY <1>2, <1>4, <2>2
<1> HIDE DEF fill
<1> QED
  BY <1>1, <1>2, <1>3, <1>5, <1>6, <1>7, InOrderFilled

(* A request that an API handler has decided on.                            *)
LEMMA DecideInOrder ==
  ASSUME TypeOK, OrderInv, NEW c \in Clients, NEW possible, Decide(c, possible),
         \A order \in possible : order.created <= order.cursor
  PROVE  OrderInv'
<1>1. UNCHANGED <<orders, fills, committed>>
  BY DEF Decide, tables
<1>2. \A d \in Clients : requests'[d].created <= requests'[d].cursor
  BY DEF Decide, OrderInv, TypeOK
<1> QED
  BY <1>1, <1>2 DEF OrderInv, InOrder, TakenInBoth

(* An order inserted by the session or, in both copies, by an API handler.  *)
LEMMA InsertInOrder ==
  ASSUME TypeOK, OrderInv, NEW id \in NewIds, NEW order \in Order,
         order.created <= order.cursor
  PROVE  /\ InOrder([orders EXCEPT ![id] = order], fills)
         /\ InOrder([committed.orders EXCEPT ![id] = order], committed.fills)
         /\ order.status # "NONE" =>
              \A p \in OrderIds : orders[p].status # "NONE"
                                    => [orders EXCEPT ![id] = order][p].status # "NONE"
<1>1. /\ orders \in [OrderIds -> Order] /\ fills \in Seq(Fill)
      /\ committed.orders \in [OrderIds -> Order] /\ committed.fills \in Seq(Fill)
  BY DEF TypeOK, Tables
<1>2. id \in OrderIds /\ orders[id].status = "NONE"
  BY DEF NewIds, FreeIds
<1>3. committed.orders[id].status = "NONE"
  BY <1>2 DEF OrderInv, TakenInBoth
<1>4. Follows(orders[id], order) /\ Follows(committed.orders[id], order)
  BY <1>2, <1>3 DEF Follows
<1>5. InOrder([orders EXCEPT ![id] = order], fills)
  BY <1>1, <1>2, <1>4, InOrderFollows DEF OrderInv
<1>6. InOrder([committed.orders EXCEPT ![id] = order], committed.fills)
  BY <1>1, <1>2, <1>4, InOrderFollows DEF OrderInv
<1> QED
  BY <1>1, <1>2, <1>5, <1>6

(* A new order is submitted at the snapshot of now.                         *)
LEMMA SubmitInOrder ==
  ASSUME TypeOK, OrderInv, NEW possible \in SUBSET Order, Submit(possible),
         \A order \in possible : order.created <= order.cursor
  PROVE  OrderInv'
<1>1. PICK order \in possible, id \in NewIds : orders' = [orders EXCEPT ![id] = order]
  BY DEF Submit
<1>2. InOrder(orders', fills)
  BY <1>1, InsertInOrder
<1>3. id \in OrderIds /\ orders[id].status = "NONE" /\ orders \in [OrderIds -> Order]
  BY DEF NewIds, FreeIds, TypeOK
<1>4. \A p \in OrderIds : orders[p].status # "NONE" => orders'[p].status # "NONE"
  BY <1>1, <1>3
<1>5. UNCHANGED <<fills, committed, requests>>
  BY DEF Submit
<1> QED
  BY <1>2, <1>4, <1>5 DEF OrderInv, InOrder, TakenInBoth

(* The market and the API.                                                  *)
LEMMA OutsideInOrder == ASSUME TypeOK, OrderInv, Market \/ Api PROVE OrderInv'
<1>1. ASSUME UNCHANGED <<orders, fills, committed.orders, committed.fills, requests>>
      PROVE  OrderInv'
  BY <1>1 DEF OrderInv, InOrder, TakenInBoth
<1>2. CASE Market
  <2>1. ASSUME NEW g \in Signals, PublishSignal(g)
        PROVE  OrderInv'
    BY <1>1, <2>1 DEF PublishSignal, TypeOK, Tables
  <2> QED
    BY <1>1, <1>2, <2>1 DEF Market, Tick, ArriveSnapshot, LapseSignal, tables
<1>3. ASSUME NEW c \in Clients, NEW g \in Signals, ApiFromSignal(c, g)
      PROVE  OrderInv'
  BY <1>3, NewOrders, DecideInOrder DEF ApiFromSignal
<1>4. ASSUME NEW c \in Clients, NEW p \in OpenPositions(committed.positions), ApiScaleIn(c, p)
      PROVE  OrderInv'
  BY <1>4, NewOrders, DecideInOrder DEF ApiScaleIn
<1>5. ASSUME NEW c \in Clients, NEW p \in OpenPositions(committed.positions),
             NEW percent \in TrimPercents \cup {100}, ApiExit(c, p, percent)
      PROVE  OrderInv'
  BY <1>5, NewOrders, DecideInOrder DEF ApiExit
<1>6. ASSUME NEW c \in Clients, ApiCommit(c)
      PROVE  OrderInv'
  <2>1. PICK id \in NewIds :
          /\ orders' = [orders EXCEPT ![id] = requests[c]]
          /\ committed' = [committed EXCEPT !.orders[id] = requests[c]]
    BY <1>6 DEF ApiCommit
  <2>2. requests[c] \in Order /\ requests[c].created <= requests[c].cursor
        /\ requests[c].status # "NONE"
    BY <1>6 DEF ApiCommit, OrderInv, TypeOK
  <2>3. /\ committed'.orders = [committed.orders EXCEPT ![id] = requests[c]]
        /\ committed'.fills = committed.fills /\ fills' = fills
    BY <1>6, <2>1 DEF ApiCommit, TypeOK, Tables
  <2>4. InOrder(orders', fills') /\ InOrder(committed'.orders, committed'.fills)
    BY <2>1, <2>2, <2>3, InsertInOrder
  <2>5. id \in OrderIds /\ orders \in [OrderIds -> Order]
        /\ committed.orders \in [OrderIds -> Order]
    BY DEF NewIds, FreeIds, TypeOK, Tables
  <2>6. TakenInBoth'
    BY <2>1, <2>2, <2>3, <2>5 DEF OrderInv, TakenInBoth
  <2>7. \A d \in Clients : requests'[d].created <= requests'[d].cursor
    <3>1. requests' = [requests EXCEPT ![c] = NoOrder] /\ requests \in [Clients -> Order]
      BY <1>6 DEF ApiCommit, TypeOK
    <3> QED
      BY <3>1 DEF NoOrder, OrderInv
  <2> QED
    BY <2>4, <2>6, <2>7 DEF OrderInv
<1>7. ASSUME NEW active \in KillRequests, ApiKill(active)
      PROVE  OrderInv'
  BY <1>1, <1>7 DEF ApiKill, tables
<1> QED
  BY <1>2, <1>3, <1>4, <1>5, <1>6, <1>7 DEF Api

(* What a session submits.                                                  *)
LEMMA SubmissionsInOrder == ASSUME TypeOK, OrderInv, Submissions PROVE OrderInv'
<1>1. PICK holding \in SUBSET DOMAIN positions, known \in SUBSET Known :
        \/ \E g \in Signals : SubmitEntry(g, holding, known)
        \/ \E p \in holding, price \in UNION {Quoted(s) : s \in Symbols} :
            \/ SubmitScaleIn(p, holding, known, price)
            \/ \E percent \in TrimPercents \cup {100} :
                SubmitExit(p, holding, known, percent, price)
  BY DEF Submissions
<1>2. positions \in Seq(Position) /\ now \in Nat
  BY DEF TypeOK
<1>3. ASSUME NEW g \in Signals, SubmitEntry(g, holding, known)
      PROVE  OrderInv'
  <2>1. SymbolOf[g] \in Symbols
    BY BrokerAssumption DEF BrokerAssumption
  <2>2. PICK i \in LatestSnapshots(SymbolOf[g]) :
            Submit(EntryOrders(cash, positions, holding, orders, known, g,
                               snapshots[SymbolOf[g]][i].price))
    BY <1>3 DEF SubmitEntry
  <2>3. snapshots[SymbolOf[g]][i].price \in Nat
    BY <2>1, <2>2, ShotPrice DEF LatestSnapshots, Fresh
  <2>4. EntryOrders(cash, positions, holding, orders, known, g,
                    snapshots[SymbolOf[g]][i].price) \subseteq Order
    BY <1>2, <2>3, EntryOrdersType
  <2> QED
    BY <2>2, <2>4, NewOrders, SubmitInOrder
<1>4. ASSUME NEW p \in holding, NEW price \in UNION {Quoted(s) : s \in Symbols},
             SubmitScaleIn(p, holding, known, price)
      PROVE  OrderInv'
  <2>1. ScaleInOrders(cash, positions, holding, orders, known, p, price) \subseteq Order
    BY <1>2, QuotedPrice, ScaleInOrdersType
  <2> QED
    BY <1>4, <2>1, NewOrders, SubmitInOrder DEF SubmitScaleIn
<1>5. ASSUME NEW p \in holding, NEW price \in UNION {Quoted(s) : s \in Symbols},
             NEW percent \in TrimPercents \cup {100},
             SubmitExit(p, holding, known, percent, price)
      PROVE  OrderInv'
  <2>1. ExitOrders(positions, holding, orders, known, p, percent, price) \subseteq Order
    BY <1>2, QuotedPrice, ExitOrdersType
  <2> QED
    BY <1>5, <2>1, NewOrders, SubmitInOrder DEF SubmitExit
<1> QED
  BY <1>1, <1>3, <1>4, <1>5

(* No step breaks the invariant.                                            *)
LEMMA StepInOrder == ASSUME TypeOK, OrderInv, [Next]_vars PROVE OrderInv'
<1>1. ASSUME UNCHANGED <<orders, fills, committed, requests>>
      PROVE  OrderInv'
  BY <1>1 DEF OrderInv, InOrder, TakenInBoth
<1>2. ASSUME InOrder(orders', fills'), UNCHANGED <<committed, requests>>,
             \A p \in OrderIds : orders[p].status # "NONE" => orders'[p].status # "NONE"
      PROVE  OrderInv'
  BY <1>2 DEF OrderInv, InOrder, TakenInBoth
<1>3. ASSUME Rollback
      PROVE  OrderInv'
  BY <1>3 DEF Rollback, OrderInv, InOrder, TakenInBoth
<1>4. CASE Session
  <2>1. CASE Begin
    BY <1>1, <2>1 DEF Begin, tables
  <2>2. ASSUME NEW o \in OrderIds, RejectEntry(o)
        PROVE  OrderInv'
    <3>1. orders \in [OrderIds -> Order] /\ orders[o] \in Order /\ fills \in Seq(Fill)
      BY DEF TypeOK
    <3> DEFINE new == [orders[o] EXCEPT !.status = "REJECTED"]
    <3>2. new \in Order /\ Follows(orders[o], new)
      <4>1. orders[o].created <= orders[o].cursor /\ orders[o].cursor \in Nat
        BY <3>1 DEF OrderInv, InOrder, Order
      <4>2. /\ new \in Order /\ new.status = "REJECTED"
            /\ new.created = orders[o].created /\ new.cursor = orders[o].cursor
        BY <3>1 DEF Order, Statuses
      <4> HIDE DEF new
      <4> QED
        BY <4>1, <4>2 DEF Follows
    <3>3. orders' = [orders EXCEPT ![o] = new] /\ new.status # "NONE"
      BY <2>2, <3>1 DEF RejectEntry, Order
    <3> HIDE DEF new
    <3>4. InOrder(orders', fills)
      BY <3>1, <3>2, <3>3, InOrderFollows DEF OrderInv
    <3>6. UNCHANGED <<fills, committed, requests>>
      BY <2>2 DEF RejectEntry
    <3>5. \A p \in OrderIds : orders[p].status # "NONE" => orders'[p].status # "NONE"
      BY <3>1, <3>3
    <3> QED
      BY <1>2, <3>4, <3>5, <3>6
  <2>3. ASSUME NEW o \in OrderIds, NEW i \in DOMAIN snapshots[orders[o].symbol], NotFilled(o, i)
        PROVE  OrderInv'
    <3>1. /\ Considers(o, i) /\ UNCHANGED <<fills, committed, requests>>
          /\ orders' = Evaluated(o, i) \/ orders' = [orders EXCEPT ![o].cursor = At(o, i)]
      BY <2>3 DEF NotFilled
    <3>2. /\ InOrder(orders', fills)
          /\ \A p \in OrderIds : orders[p].status # "NONE" => orders'[p].status # "NONE"
      BY <3>1, EvaluatedInOrder
    <3> QED
      BY <1>2, <3>1, <3>2
  <2>4. ASSUME NEW o \in OrderIds, NEW i \in DOMAIN snapshots[orders[o].symbol],
               BuyFill(o, i) \/ SellFill(o, i)
        PROVE  OrderInv'
    <3>1. Considers(o, i) /\ UNCHANGED <<committed, requests>>
      BY <2>4 DEF BuyFill, SellFill, Filled
    <3>2. RecordFill(o, i, -FillNet(o, i)) \/ RecordFill(o, i, FillNet(o, i))
      BY <2>4 DEF BuyFill, SellFill
    <3>3. /\ InOrder(orders', fills')
          /\ \A p \in OrderIds : orders[p].status # "NONE" => orders'[p].status # "NONE"
      BY <3>1, <3>2, FillInOrder
    <3> QED
      BY <1>2, <3>1, <3>3
  <2>5. ASSUME NEW p \in DOMAIN positions, MarkPosition(p)
        PROVE  OrderInv'
    BY <1>1, <2>5 DEF MarkPosition
  <2>6. ASSUME NEW trips \in BOOLEAN, Commit(trips)
        PROVE  OrderInv'
    BY <2>6 DEF Commit, Working, tables, OrderInv, InOrder, TakenInBoth
  <2> QED
    BY <1>3, <1>4, <2>1, <2>2, <2>3, <2>4, <2>5, <2>6, SubmissionsInOrder
       DEF Session, Process, Raise, Crash
<1>5. CASE UNCHANGED vars
  BY <1>1, <1>5 DEF vars, tables
<1> QED
  BY <1>4, <1>5, OutsideInOrder DEF Next

(* The invariant holds in every reachable state.                            *)
LEMMA OrdersHold == Spec => []OrderInv
<1>1. Init => TypeOK /\ OrderInv
  BY InitType DEF Init, OrderInv, InOrder, TakenInBoth, Working, NoOrder
<1>2. TypeOK /\ OrderInv /\ [Next]_vars => (TypeOK /\ OrderInv)'
  BY StepType, StepInOrder
<1> QED
  BY <1>1, <1>2, PTL DEF Spec

(* Every fill is at a snapshot strictly after the submission of its order   *)
(* and after the order's previous fill, and never beyond its cursor.        *)
THEOREM FillsFollowOrders == Spec => []FillsAreLaterSnapshots
<1>1. TypeOK /\ OrderInv => FillsAreLaterSnapshots
  BY DEF OrderInv, InOrder, FillsAreLaterSnapshots
<1> QED
  BY <1>1, OrdersHold, TypeCorrect, PTL

-----------------------------------------------------------------------------
(* Quantities. *)

(* How far an order may be in its status; an unused slot has filled nothing. *)
Sound(order) ==
    IF order.status = "NONE" THEN order.filled = 0
    ELSE Lifecycle!Consistent(order.status, order.qty, order.filled)

(* A new order, which nothing has filled.                                   *)
Unfilled(order) == order.status = "SUBMITTED" /\ order.filled = 0 /\ order.qty > 0

(* Every order is sound and has filled what its fill rows delivered.        *)
Reconciled(ords, rows) ==
    \A o \in OrderIds : Sound(ords[o]) /\ ords[o].filled = Delivered(rows, o)

(* How an order of the session may be ahead of the same order in the        *)
(* database: new, or filled further.                                        *)
Ahead(old, new) ==
    \/ old = new
    \/ old.status = "NONE" /\ new.status # "NONE"
    \/ IsPending(old) /\ new.status # "NONE" /\ new.qty = old.qty /\ old.filled <= new.filled

(* The inductive invariant of the quantities.                               *)
QuantityInv ==
    /\ Reconciled(orders, fills)
    /\ Reconciled(committed.orders, committed.fills)
    /\ \A o \in OrderIds : Ahead(committed.orders[o], orders[o])
    /\ \A c \in Clients : requests[c].status # "NONE" => Unfilled(requests[c])

(* One more fill row adds its shares to its order, and to no other.         *)
LEMMA DeliveredMore ==
  ASSUME NEW rows \in Seq(Fill), NEW row \in Fill, NEW o \in OrderIds
  PROVE  /\ Delivered(rows, o) \in Int
         /\ Delivered(Append(rows, row), o)
              = Delivered(rows, o) + (IF row.order = o THEN row.qty ELSE 0)
<1> DEFINE more == Append(rows, row)
           f == [k \in DOMAIN rows |-> IF rows[k].order = o THEN rows[k].qty ELSE 0]
           g == [k \in DOMAIN more |-> IF more[k].order = o THEN more[k].qty ELSE 0]
<1>1. /\ DOMAIN more = 1..Len(rows) + 1 /\ DOMAIN rows = 1..Len(rows) /\ Len(rows) \in Nat
      /\ more[Len(rows) + 1] = row /\ \A k \in 1..Len(rows) : more[k] = rows[k]
  OBVIOUS
<1>2. row.qty \in Int /\ \A k \in 1..Len(rows) : rows[k].qty \in Int
  <2>1. \A k \in 1..Len(rows) : rows[k] \in Fill
    OBVIOUS
  <2> QED
    BY <2>1, SMTT(30) DEF Fill
<1> HIDE DEF more
<1>3. /\ DOMAIN f = 1..Len(rows) /\ DOMAIN g = 1..Len(rows) + 1
      /\ \A k \in 1..Len(rows) : f[k] \in Int /\ g[k] = f[k]
      /\ g[Len(rows) + 1] = IF row.order = o THEN row.qty ELSE 0
      /\ g[Len(rows) + 1] \in Int
  BY <1>1, <1>2
<1>4. Delivered(rows, o) = SumFunction(f) /\ Delivered(more, o) = SumFunction(g)
  BY DEF Delivered
<1> HIDE DEF f, g
<1>5. SumFunction(f) \in Int
  BY <1>1, <1>3, RowsInt
<1>6. SumFunction(g) = SumFunction(f) + g[Len(rows) + 1]
  BY <1>1, <1>3, RowAdded
<1> QED
  BY <1>3, <1>4, <1>5, <1>6 DEF more

(* Every order-creating method returns unfilled orders.                     *)
LEMMA NewUnfilled ==
  /\ \A cashNow, poss, holding, ords, known, g, price :
        \A order \in EntryOrders(cashNow, poss, holding, ords, known, g, price) :
            Unfilled(order)
  /\ \A cashNow, poss, holding, ords, known, p, price :
        \A order \in ScaleInOrders(cashNow, poss, holding, ords, known, p, price) :
            Unfilled(order)
  /\ \A poss, holding, ords, known, p, percent, price :
        \A order \in ExitOrders(poss, holding, ords, known, p, percent, price) :
            Unfilled(order)
<1>1. \A side, type, symbol, signal, position, price : \A qty \in Nat \ {0} :
        Unfilled(NewOrder(side, type, symbol, signal, position, price, qty))
  BY DEF NewOrder, Unfilled
<1>2. \A cashNow, poss, holding, ords, known, g, price :
        \A order \in EntryOrders(cashNow, poss, holding, ords, known, g, price) :
            Unfilled(order)
  <2>1. SizedQuantities \subseteq Nat \ {0}
    BY BrokerAssumption DEF BrokerAssumption
  <2> SUFFICES ASSUME NEW g, NEW price, NEW q \in SizedQuantities
               PROVE  Unfilled(NewOrder("BUY", "LIMIT", SymbolOf[g], g, 0, price, q))
    BY DEF EntryOrders
  <2> QED
    BY <1>1, <2>1
<1>3. \A cashNow, poss, holding, ords, known, p, price :
        \A order \in ScaleInOrders(cashNow, poss, holding, ords, known, p, price) :
            Unfilled(order)
  BY <1>1 DEF ScaleInOrders
<1>4. \A poss, holding, ords, known, p, percent, price :
        \A order \in ExitOrders(poss, holding, ords, known, p, percent, price) :
            Unfilled(order)
  BY <1>1 DEF ExitOrders
<1> QED
  BY <1>2, <1>3, <1>4

(* What the simulator does to a sound pending order: it fills at most what  *)
(* is left of it, and the status says how far it got.                       *)
LEMMA SimulateSound ==
  ASSUME NEW order \in Order, IsPending(order), Sound(order),
         NEW price \in Nat, NEW volume \in Nat, volume > 0
  PROVE  LET r == Simulate(order, FlatBar(price, volume))
         IN  /\ r.status # "NONE"
             /\ Lifecycle!Consistent(r.status, order.qty, order.filled + r.qty)
<1> DEFINE bar == FlatBar(price, volume)
<1>1. order.qty \in Nat /\ order.filled \in Nat /\ order.filled < order.qty
  BY DEF Order, IsPending, Sound, Lifecycle!Consistent
<1>2. Remaining(order) \in Nat /\ Remaining(order) > 0
  BY <1>1 DEF Remaining
<1>3. FillCap(order, bar) \in Nat /\ FillCap(order, bar) > 0
  BY ExecutionAssumption DEF ExecutionAssumption, FillCap, Greater, FlatBar
<1>4. /\ FillQuantity(order, bar) \in Nat /\ FillQuantity(order, bar) > 0
      /\ FillQuantity(order, bar) <= Remaining(order)
  BY <1>2, <1>3 DEF FillQuantity, Lesser
<1>5. bar.volume = volume
  BY DEF FlatBar
<1> QED
  BY <1>1, <1>2, <1>4, <1>5
     DEF Simulate, NoFill, InQueue, Lifecycle!Consistent, Remaining

(* All that a step of the broker can do to quantities: nothing, ...         *)
QuantitiesKept == UNCHANGED <<orders, fills, committed.orders, committed.fills>>

(* ... a new order, of the session or in both copies, ...                   *)
Placed == \E id \in NewIds, order \in Order :
    /\ Unfilled(order)
    /\ orders' = [orders EXCEPT ![id] = order]
    /\ UNCHANGED <<fills, committed.fills>>
    /\ \/ committed'.orders = committed.orders
       \/ committed'.orders = [committed.orders EXCEPT ![id] = order]

(* ... the progress of a pending order, with or without a fill, ...         *)
Progressed == \E o \in OrderIds, new \in Order :
    /\ IsPending(orders[o])
    /\ orders' = [orders EXCEPT ![o] = new]
    /\ UNCHANGED <<committed.orders, committed.fills>>
    /\ new.status # "NONE" /\ new.qty = orders[o].qty
    /\ Lifecycle!Consistent(new.status, new.qty, new.filled)
    /\ \/ fills' = fills /\ new.filled = orders[o].filled
       \/ \E row \in Fill : /\ fills' = Append(fills, row) /\ row.order = o
                            /\ new.filled = orders[o].filled + row.qty

(* ... the end of a transaction.                                            *)
OrdersRestored ==
    /\ orders' = committed.orders /\ fills' = committed.fills
    /\ UNCHANGED <<committed.orders, committed.fills>>

(* A commit writes the orders and the fills.                                *)
OrdersSaved ==
    /\ committed'.orders = orders /\ committed'.fills = fills
    /\ UNCHANGED <<orders, fills>>

(* An order looked at against a later snapshot, with what it gets from it.  *)
LEMMA ConsideredProgress ==
  ASSUME TypeOK, QuantityInv, NEW o \in OrderIds,
         NEW i \in DOMAIN snapshots[orders[o].symbol], Considers(o, i),
         UNCHANGED <<committed.orders, committed.fills>>,
         \/ orders' = [orders EXCEPT ![o].cursor = At(o, i)] /\ fills' = fills
         \/ /\ Traded(o, i) /\ orders' = Evaluated(o, i)
            /\ \/ fills' = fills /\ Result(o, i).qty = 0
               \/ \E row \in Fill : /\ fills' = Append(fills, row) /\ row.order = o
                                    /\ row.qty = Result(o, i).qty
  PROVE  Progressed
<1>1. orders \in [OrderIds -> Order] /\ orders[o] \in Order
  BY DEF TypeOK
<1>2. IsPending(orders[o]) /\ Sound(orders[o])
  BY DEF Considers, QuantityInv, Reconciled
<1>3. orders[o].qty \in Nat /\ orders[o].filled \in Nat /\ At(o, i) \in Nat
  BY <1>1, ResultType DEF Order
<1>4. CASE orders' = [orders EXCEPT ![o].cursor = At(o, i)] /\ fills' = fills
  <2> DEFINE new == [orders[o] EXCEPT !.cursor = At(o, i)]
  <2>1. /\ new \in Order /\ new.status = orders[o].status
        /\ new.qty = orders[o].qty /\ new.filled = orders[o].filled
    BY <1>1, <1>3 DEF Order
  <2>2. orders' = [orders EXCEPT ![o] = new]
    BY <1>1, <1>4
  <2>3. new.status # "NONE" /\ Lifecycle!Consistent(new.status, new.qty, new.filled)
    BY <1>2, <2>1 DEF IsPending, Sound
  <2> HIDE DEF new
  <2> QED
    BY <1>2, <1>4, <2>1, <2>2, <2>3 DEF Progressed
<1>5. CASE /\ Traded(o, i) /\ orders' = Evaluated(o, i)
           /\ \/ fills' = fills /\ Result(o, i).qty = 0
              \/ \E row \in Fill : /\ fills' = Append(fills, row) /\ row.order = o
                                   /\ row.qty = Result(o, i).qty
  <2> DEFINE price  == snapshots[orders[o].symbol][i].price
             volume == IncrementalVolume(orders[o].symbol, orders[o].cursor, i)
             r      == Result(o, i)
             new    == [orders[o] EXCEPT !.cursor = At(o, i), !.status = r.status,
                                         !.filled = orders[o].filled + r.qty]
  <2>1. orders[o].symbol \in Symbols /\ orders[o].cursor \in Nat
    BY <1>1 DEF Order
  <2>2. price \in Nat /\ volume \in Nat
    BY <2>1, ShotPrice, VolumeNat
  <2>3. volume > 0 /\ r = Simulate(orders[o], FlatBar(price, volume))
    BY <1>5 DEF Traded, Result, BarAt, FlatBar
  <2>4. /\ r.status # "NONE"
        /\ Lifecycle!Consistent(r.status, orders[o].qty, orders[o].filled + r.qty)
    <3> HIDE DEF price, volume, r
    <3> QED
      BY <1>1, <1>2, <2>2, <2>3, SimulateSound
  <2>5. r.status \in Statuses /\ r.qty \in Nat
    BY ResultType
  <2> HIDE DEF price, volume, r
  <2>6. /\ new \in Order /\ new.status = r.status
        /\ new.qty = orders[o].qty /\ new.filled = orders[o].filled + r.qty
    <3>1. orders[o].filled + r.qty \in Nat
      BY <1>3, <2>5
    <3>2. new \in Order
      BY <1>1, <1>3, <2>5, <3>1, MovedOrderType
    <3> QED
      BY <1>1, <3>2 DEF Order
  <2>7. orders' = [orders EXCEPT ![o] = new]
    BY <1>1, <1>5 DEF Evaluated, r
  <2>8. \/ fills' = fills /\ new.filled = orders[o].filled
        \/ \E row \in Fill : /\ fills' = Append(fills, row) /\ row.order = o
                             /\ new.filled = orders[o].filled + row.qty
    BY <1>3, <1>5, <2>6 DEF r
  <2> HIDE DEF new
  <2>9. new.status # "NONE" /\ Lifecycle!Consistent(new.status, new.qty, new.filled)
    BY <2>4, <2>6
  <2> QED
    BY <1>2, <2>6, <2>7, <2>8, <2>9 DEF Progressed
<1> QED
  BY <1>4, <1>5

(* The market and the API keep quantities or place an order in both copies. *)
LEMMA OutsideQuantities ==
  ASSUME TypeOK, QuantityInv, Market \/ Api
  PROVE  QuantitiesKept \/ Placed
<1>1. ASSUME NEW g \in Signals, PublishSignal(g)
      PROVE  QuantitiesKept
  BY <1>1 DEF PublishSignal, TypeOK, Tables, QuantitiesKept
<1>2. ASSUME NEW c \in Clients, ApiCommit(c)
      PROVE  Placed
  <2>1. PICK id \in NewIds :
          /\ orders' = [orders EXCEPT ![id] = requests[c]]
          /\ committed' = [committed EXCEPT !.orders[id] = requests[c]]
    BY <1>2 DEF ApiCommit
  <2>2. requests[c] \in Order /\ Unfilled(requests[c])
    BY <1>2 DEF ApiCommit, TypeOK, QuantityInv
  <2>3. /\ committed'.orders = [committed.orders EXCEPT ![id] = requests[c]]
        /\ UNCHANGED <<fills, committed.fills>>
    BY <1>2, <2>1 DEF ApiCommit, TypeOK, Tables
  <2> QED
    BY <2>1, <2>2, <2>3 DEF Placed
<1>3. CASE UNCHANGED <<tables, committed>>
  BY <1>3 DEF tables, QuantitiesKept
<1>4. CASE Market
  BY <1>1, <1>3, <1>4 DEF Market, Tick, ArriveSnapshot, LapseSignal
<1>5. CASE Api
  BY <1>2, <1>3, <1>5 DEF Api, ApiFromSignal, ApiScaleIn, ApiExit, ApiKill, Decide
<1> QED
  BY <1>4, <1>5

(* What the session submits is placed.                                      *)
LEMMA SubmitPlaced ==
  ASSUME TypeOK, NEW possible \in SUBSET Order, Submit(possible),
         \A order \in possible : Unfilled(order)
  PROVE  Placed
<1>1. PICK order \in possible, id \in NewIds : orders' = [orders EXCEPT ![id] = order]
  BY DEF Submit
<1>2. UNCHANGED <<fills, committed>>
  BY DEF Submit
<1> QED
  BY <1>1, <1>2 DEF Placed

(* A submission places an order.                                            *)
LEMMA SubmissionsPlaced == ASSUME TypeOK, Submissions PROVE Placed
<1>1. PICK holding \in SUBSET DOMAIN positions, known \in SUBSET Known :
        \/ \E g \in Signals : SubmitEntry(g, holding, known)
        \/ \E p \in holding, price \in UNION {Quoted(s) : s \in Symbols} :
            \/ SubmitScaleIn(p, holding, known, price)
            \/ \E percent \in TrimPercents \cup {100} :
                SubmitExit(p, holding, known, percent, price)
  BY DEF Submissions
<1>2. positions \in Seq(Position) /\ now \in Nat
  BY DEF TypeOK
<1>3. ASSUME NEW g \in Signals, SubmitEntry(g, holding, known)
      PROVE  Placed
  <2>1. SymbolOf[g] \in Symbols
    BY BrokerAssumption DEF BrokerAssumption
  <2>2. PICK i \in LatestSnapshots(SymbolOf[g]) :
            Submit(EntryOrders(cash, positions, holding, orders, known, g,
                               snapshots[SymbolOf[g]][i].price))
    BY <1>3 DEF SubmitEntry
  <2>3. snapshots[SymbolOf[g]][i].price \in Nat
    BY <2>1, <2>2, ShotPrice DEF LatestSnapshots, Fresh
  <2>4. EntryOrders(cash, positions, holding, orders, known, g,
                    snapshots[SymbolOf[g]][i].price) \subseteq Order
    BY <1>2, <2>3, EntryOrdersType
  <2> QED
    BY <2>2, <2>4, NewUnfilled, SubmitPlaced
<1>4. ASSUME NEW p \in holding, NEW price \in UNION {Quoted(s) : s \in Symbols},
             SubmitScaleIn(p, holding, known, price)
      PROVE  Placed
  <2>1. ScaleInOrders(cash, positions, holding, orders, known, p, price) \subseteq Order
    BY <1>2, QuotedPrice, ScaleInOrdersType
  <2> QED
    BY <1>4, <2>1, NewUnfilled, SubmitPlaced DEF SubmitScaleIn
<1>5. ASSUME NEW p \in holding, NEW price \in UNION {Quoted(s) : s \in Symbols},
             NEW percent \in TrimPercents \cup {100},
             SubmitExit(p, holding, known, percent, price)
      PROVE  Placed
  <2>1. ExitOrders(positions, holding, orders, known, p, percent, price) \subseteq Order
    BY <1>2, QuotedPrice, ExitOrdersType
  <2> QED
    BY <1>5, <2>1, NewUnfilled, SubmitPlaced DEF SubmitExit
<1> QED
  BY <1>1, <1>3, <1>4, <1>5

(* Every step is one of these.                                              *)
LEMMA QuantityStep ==
  ASSUME TypeOK, QuantityInv, [Next]_vars
  PROVE  QuantitiesKept \/ Placed \/ Progressed \/ OrdersRestored \/ OrdersSaved
<1>1. CASE UNCHANGED vars
  BY <1>1 DEF vars, tables, QuantitiesKept
<1>2. CASE Market \/ Api
  BY <1>2, OutsideQuantities
<1>3. ASSUME Rollback
      PROVE  OrdersRestored
  BY <1>3 DEF Rollback, OrdersRestored
<1>4. CASE Session
  <2>1. CASE Begin
    BY <2>1 DEF Begin, tables, QuantitiesKept
  <2>2. ASSUME NEW o \in OrderIds, RejectEntry(o)
        PROVE  Progressed
    <3>1. orders \in [OrderIds -> Order] /\ orders[o] \in Order
      BY DEF TypeOK
    <3> DEFINE new == [orders[o] EXCEPT !.status = "REJECTED"]
    <3>2. /\ new \in Order /\ new.status = "REJECTED"
          /\ new.qty = orders[o].qty /\ new.filled = orders[o].filled
      BY <3>1 DEF Order, Statuses
    <3>3. orders' = [orders EXCEPT ![o] = new]
      BY <2>2, <3>1 DEF RejectEntry
    <3>4. IsPending(orders[o]) /\ UNCHANGED <<fills, committed>>
      BY <2>2 DEF RejectEntry
    <3>5. orders[o].qty \in Nat /\ orders[o].filled \in Nat /\ Sound(orders[o])
      BY <3>1 DEF Order, QuantityInv, Reconciled
    <3> HIDE DEF new
    <3>6. Lifecycle!Consistent(new.status, new.qty, new.filled)
      BY <3>2, <3>4, <3>5 DEF IsPending, Sound, Lifecycle!Consistent
    <3> QED
      BY <3>2, <3>3, <3>4, <3>6 DEF Progressed
  <2>3. ASSUME NEW o \in OrderIds, NEW i \in DOMAIN snapshots[orders[o].symbol], NotFilled(o, i)
        PROVE  Progressed
    BY <2>3, ConsideredProgress DEF NotFilled
  <2>4. ASSUME NEW o \in OrderIds, NEW i \in DOMAIN snapshots[orders[o].symbol],
               BuyFill(o, i) \/ SellFill(o, i)
        PROVE  Progressed
    <3> DEFINE fill == [order |-> o, symbol |-> orders[o].symbol, side |-> orders[o].side,
                        qty |-> Result(o, i).qty, price |-> Result(o, i).price,
                        net |-> FillNet(o, i), at |-> At(o, i)]
    <3>1. Considers(o, i) /\ Traded(o, i) /\ UNCHANGED committed
      BY <2>4 DEF BuyFill, SellFill, Filled
    <3>2. orders' = Evaluated(o, i) /\ fills' = Append(fills, fill)
      BY <2>4 DEF BuyFill, SellFill, RecordFill
    <3>3. orders[o] \in Order
      BY DEF TypeOK
    <3>4. fill \in Fill /\ fill.order = o /\ fill.qty = Result(o, i).qty
      BY <3>3, ResultType DEF Fill, Order
    <3> HIDE DEF fill
    <3> QED
      BY <3>1, <3>2, <3>4, ConsideredProgress
  <2>5. ASSUME NEW p \in DOMAIN positions, MarkPosition(p)
        PROVE  QuantitiesKept
    BY <2>5 DEF MarkPosition, QuantitiesKept
  <2>6. ASSUME NEW trips \in BOOLEAN, Commit(trips)
        PROVE  OrdersSaved
    BY <2>6 DEF Commit, Working, tables, OrdersSaved
  <2> QED
    BY <1>3, <1>4, <2>1, <2>2, <2>3, <2>4, <2>5, <2>6, SubmissionsPlaced
       DEF Session, Process, Raise, Crash
<1> QED
  BY <1>1, <1>2, <1>4 DEF Next

(* An unfilled order in a free slot keeps a table reconciled.               *)
LEMMA PlacedReconciled ==
  ASSUME NEW ords \in [OrderIds -> Order], NEW rows, Reconciled(ords, rows),
         NEW id \in OrderIds, ords[id].status = "NONE", NEW order \in Order, Unfilled(order)
  PROVE  Reconciled([ords EXCEPT ![id] = order], rows)
<1>1. order.qty \in Nat /\ ords[id].filled = 0 /\ Delivered(rows, id) = 0
  BY DEF Order, Reconciled, Sound
<1>2. Sound(order) /\ order.filled = 0
  BY <1>1 DEF Unfilled, Sound, Lifecycle!Consistent
<1> QED
  BY <1>1, <1>2 DEF Reconciled

(* So does the progress of an order with the fill it got.                   *)
LEMMA ProgressReconciled ==
  ASSUME TypeOK, QuantityInv, Progressed
  PROVE  /\ Reconciled(orders', fills')
         /\ \A o \in OrderIds : Ahead(committed'.orders[o], orders'[o])
<1>1. PICK o \in OrderIds, new \in Order :
        /\ IsPending(orders[o])
        /\ orders' = [orders EXCEPT ![o] = new]
        /\ UNCHANGED <<committed.orders, committed.fills>>
        /\ new.status # "NONE" /\ new.qty = orders[o].qty
        /\ Lifecycle!Consistent(new.status, new.qty, new.filled)
        /\ \/ fills' = fills /\ new.filled = orders[o].filled
           \/ \E row \in Fill : /\ fills' = Append(fills, row) /\ row.order = o
                                /\ new.filled = orders[o].filled + row.qty
  BY DEF Progressed
<1>2. orders \in [OrderIds -> Order] /\ fills \in Seq(Fill)
      /\ committed.orders \in [OrderIds -> Order]
  BY DEF TypeOK, Tables
<1>3. orders'[o] = new /\ \A p \in OrderIds : p # o => orders'[p] = orders[p]
  BY <1>1, <1>2
<1>4. Sound(new)
  BY <1>1 DEF Sound
<1>5. ASSUME NEW p \in OrderIds
      PROVE  orders'[p].filled = Delivered(fills', p)
  <2>1. orders[p].filled = Delivered(fills, p)
    BY DEF QuantityInv, Reconciled
  <2>2. CASE fills' = fills /\ new.filled = orders[o].filled
    BY <1>3, <2>1, <2>2
  <2>3. ASSUME NEW row \in Fill, fills' = Append(fills, row), row.order = o,
               new.filled = orders[o].filled + row.qty
        PROVE  orders'[p].filled = Delivered(fills', p)
    <3>1. /\ Delivered(fills, p) \in Int
          /\ Delivered(fills', p) = Delivered(fills, p) + (IF o = p THEN row.qty ELSE 0)
      BY <1>2, <2>3, DeliveredMore
    <3> QED
      BY <1>3, <2>1, <2>3, <3>1
  <2> QED
    BY <1>1, <2>2, <2>3
<1>6. ASSUME NEW p \in OrderIds
      PROVE  Ahead(committed'.orders[p], orders'[p])
  <2>1. Ahead(committed.orders[p], orders[p])
    BY DEF QuantityInv
  <2>2. orders[o].filled \in Nat /\ new.filled \in Nat /\ orders[o].filled <= new.filled
    <3>1. orders[o] \in Order /\ \A row \in Fill : row.qty \in Nat
      BY <1>2 DEF Fill
    <3> QED
      BY <1>1, <3>1 DEF Order
  <2>3. committed.orders[o].filled \in Nat
    BY <1>2 DEF Order
  <2> QED
    BY <1>1, <1>3, <2>1, <2>2, <2>3 DEF Ahead, IsPending
<1> QED
  BY <1>3, <1>4, <1>5, <1>6 DEF QuantityInv, Reconciled

(* A request is unfilled until it is inserted.                              *)
LEMMA RequestsUnfilled ==
  ASSUME TypeOK, QuantityInv, [Next]_vars
  PROVE  \A c \in Clients : requests'[c].status # "NONE" => Unfilled(requests'[c])
<1>1. requests \in [Clients -> Order]
  BY DEF TypeOK
<1>2. ASSUME requests' = requests
      PROVE  \A c \in Clients : requests'[c].status # "NONE" => Unfilled(requests'[c])
  BY <1>2 DEF QuantityInv
<1>3. ASSUME NEW c \in Clients, NEW possible, Decide(c, possible),
             \A order \in possible : Unfilled(order)
      PROVE  \A d \in Clients : requests'[d].status # "NONE" => Unfilled(requests'[d])
  BY <1>1, <1>3 DEF Decide, QuantityInv
<1>4. ASSUME NEW c \in Clients, ApiCommit(c)
      PROVE  \A d \in Clients : requests'[d].status # "NONE" => Unfilled(requests'[d])
  <2>1. NoOrder.status = "NONE"
    BY DEF NoOrder
  <2> QED
    BY <1>1, <1>4, <2>1 DEF ApiCommit, QuantityInv
<1>5. CASE Api
  BY <1>2, <1>3, <1>4, <1>5, NewUnfilled
     DEF Api, ApiFromSignal, ApiScaleIn, ApiExit, ApiKill
<1>6. CASE Market \/ UNCHANGED vars
  BY <1>2, <1>6 DEF vars, Market, Tick, ArriveSnapshot, PublishSignal, LapseSignal
<1>7. CASE Session
  <2>1. CASE Begin \/ Crash \/ \E trips \in BOOLEAN : Commit(trips)
    BY <1>2, <2>1 DEF Begin, Crash, Rollback, Commit
  <2>2. ASSUME NEW o \in OrderIds, Process(o)
        PROVE  requests' = requests
    BY <2>2 DEF Process, RejectEntry, NotFilled, BuyFill, SellFill, Raise, Rollback
  <2>3. ASSUME NEW p \in DOMAIN positions, MarkPosition(p)
        PROVE  requests' = requests
    BY <2>3 DEF MarkPosition
  <2>4. CASE Submissions
    <3>1. requests' = requests
      BY <2>4 DEF Submissions, SubmitEntry, SubmitScaleIn, SubmitExit, Submit
    <3> QED
      BY <1>2, <3>1
  <2> QED
    BY <1>2, <1>7, <2>1, <2>2, <2>3, <2>4 DEF Session
<1> QED
  BY <1>5, <1>6, <1>7 DEF Next

(* No step breaks the invariant.                                            *)
LEMMA StepQuantity == ASSUME TypeOK, QuantityInv, [Next]_vars PROVE QuantityInv'
<1>1. orders \in [OrderIds -> Order] /\ committed.orders \in [OrderIds -> Order]
  BY DEF TypeOK, Tables
<1>2. CASE QuantitiesKept
  BY <1>2, RequestsUnfilled DEF QuantitiesKept, QuantityInv, Reconciled
<1>3. CASE Placed
  <2>1. PICK id \in NewIds, order \in Order :
          /\ Unfilled(order)
          /\ orders' = [orders EXCEPT ![id] = order]
          /\ UNCHANGED <<fills, committed.fills>>
          /\ \/ committed'.orders = committed.orders
             \/ committed'.orders = [committed.orders EXCEPT ![id] = order]
    BY <1>3 DEF Placed
  <2>2. id \in OrderIds /\ orders[id].status = "NONE"
    BY DEF NewIds, FreeIds
  <2>3. committed.orders[id].status = "NONE"
    BY <2>2 DEF QuantityInv, Ahead, IsPending
  <2>4. Reconciled(orders', fills')
    BY <1>1, <2>1, <2>2, PlacedReconciled DEF QuantityInv
  <2>5. Reconciled(committed'.orders, committed'.fills)
    <3>1. CASE committed'.orders = committed.orders
      BY <2>1, <3>1 DEF QuantityInv, Reconciled
    <3>2. CASE committed'.orders = [committed.orders EXCEPT ![id] = order]
      BY <1>1, <2>1, <2>2, <2>3, <3>2, PlacedReconciled DEF QuantityInv
    <3> QED
      BY <2>1, <3>1, <3>2
  <2>6. ASSUME NEW o \in OrderIds
        PROVE  Ahead(committed'.orders[o], orders'[o])
    <3>1. Ahead(committed.orders[o], orders[o])
      BY DEF QuantityInv
    <3>2. order.status # "NONE"
      BY <2>1 DEF Unfilled
    <3> QED
      BY <1>1, <2>1, <2>2, <2>3, <3>1, <3>2 DEF Ahead
  <2> QED
    BY <2>4, <2>5, <2>6, RequestsUnfilled DEF QuantityInv
<1>4. CASE Progressed
  <2>1. Reconciled(committed'.orders, committed'.fills)
    BY <1>4 DEF Progressed, QuantityInv, Reconciled
  <2> QED
    BY <1>4, <2>1, ProgressReconciled, RequestsUnfilled DEF QuantityInv
<1>5. CASE OrdersRestored
  BY <1>5, RequestsUnfilled DEF OrdersRestored, QuantityInv, Reconciled, Ahead
<1>6. CASE OrdersSaved
  BY <1>6, RequestsUnfilled DEF OrdersSaved, QuantityInv, Reconciled, Ahead
<1> QED
  BY <1>2, <1>3, <1>4, <1>5, <1>6, QuantityStep

(* The invariant holds in every reachable state.                            *)
LEMMA QuantitiesHold == Spec => [](TypeOK /\ QuantityInv)
<1>1. ASSUME Init PROVE QuantityInv
  <2>1. \A o \in OrderIds : Delivered(<<>>, o) = 0
    BY NoRows DEF Delivered
  <2>2. Sound(NoOrder) /\ NoOrder.filled = 0 /\ NoOrder.status = "NONE"
    BY DEF Sound, NoOrder
  <2>3. /\ orders = [o \in OrderIds |-> NoOrder] /\ fills = <<>>
        /\ committed.orders = orders /\ committed.fills = fills
        /\ requests = [c \in Clients |-> NoOrder]
    BY <1>1 DEF Init, Working
  <2>4. \A o \in OrderIds : orders[o] = NoOrder
    BY <2>3
  <2>5. Reconciled(orders, fills)
    BY <2>1, <2>2, <2>3, <2>4 DEF Reconciled
  <2>6. \A o \in OrderIds : Ahead(committed.orders[o], orders[o])
    BY <2>3 DEF Ahead
  <2>7. \A c \in Clients : requests[c].status = "NONE"
    BY <2>2, <2>3
  <2> QED
    BY <2>3, <2>5, <2>6, <2>7 DEF QuantityInv
<1>2. TypeOK /\ QuantityInv /\ [Next]_vars => (TypeOK /\ QuantityInv)'
  BY StepType, StepQuantity
<1> QED
  BY <1>1, <1>2, InitType, PTL DEF Spec

(* An order's filled_quantity is exactly what its fill rows delivered, it   *)
(* never exceeds the order, and FILLED says that the order is complete.     *)
THEOREM FilledIsDelivered == Spec => []FilledQuantityAgrees
<1>1. ASSUME TypeOK, QuantityInv PROVE FilledQuantityAgrees
  <2> SUFFICES ASSUME NEW o \in OrderIds
               PROVE  /\ orders[o].filled = Delivered(fills, o)
                      /\ orders[o].filled <= orders[o].qty
                      /\ IsPending(orders[o]) => orders[o].filled < orders[o].qty
                      /\ orders[o].status = "FILLED" => orders[o].filled = orders[o].qty
    BY DEF FilledQuantityAgrees
  <2>1. orders[o] \in Order
    BY <1>1 DEF TypeOK
  <2>2. orders[o].filled \in Nat /\ orders[o].qty \in Nat
    BY <2>1 DEF Order
  <2> QED
    BY <1>1, <2>2 DEF QuantityInv, Reconciled, Sound, IsPending, Lifecycle!Consistent
<1> QED
  BY <1>1, QuantitiesHold, PTL

-----------------------------------------------------------------------------
(* The life cycle of an order. *)

(* A committed order is in a state of its life cycle.                       *)
LEMMA LifecycleStart == ASSUME QuantityInv PROVE Lifecycle!LifecycleInit
  BY DEF QuantityInv, Reconciled, Sound, Lifecycle!LifecycleInit

(* A commit moves each order that the session is ahead with; an API handler *)
(* lets one order arrive; no other step moves any.                          *)
LEMMA LifecycleStep ==
  ASSUME TypeOK, QuantityInv, [Next]_vars
  PROVE  [Lifecycle!Move]_Lifecycle!vars
<1>1. ASSUME \A o \in OrderIds : Ahead(committed.orders[o], committed'.orders[o])
      PROVE  Lifecycle!Move
  <2> SUFFICES ASSUME NEW o \in OrderIds
               PROVE  Lifecycle!Unmoved(o) \/ Lifecycle!Arrive(o) \/ Lifecycle!Advance(o)
    BY DEF Lifecycle!Move
  <2>1. Sound(committed'.orders[o])
    BY StepQuantity DEF QuantityInv, Reconciled
  <2>2. Ahead(committed.orders[o], committed'.orders[o])
    BY <1>1
  <2> QED
    BY <2>1, <2>2 DEF Ahead, Sound, IsPending, Lifecycle!Unmoved, Lifecycle!Arrive,
       Lifecycle!Advance
<1>2. CASE QuantitiesKept \/ Progressed \/ OrdersRestored
  BY <1>1, <1>2 DEF QuantitiesKept, Progressed, OrdersRestored, Ahead
<1>3. CASE OrdersSaved
  BY <1>1, <1>3 DEF OrdersSaved, QuantityInv
<1>4. CASE Placed
  <2>1. PICK id \in NewIds, order \in Order :
          /\ Unfilled(order)
          /\ \/ committed'.orders = committed.orders
             \/ committed'.orders = [committed.orders EXCEPT ![id] = order]
    BY <1>4 DEF Placed
  <2>2. id \in OrderIds /\ orders[id].status = "NONE"
    BY DEF NewIds, FreeIds
  <2>3. committed.orders[id].status = "NONE" /\ committed.orders \in [OrderIds -> Order]
    BY <2>2 DEF QuantityInv, Ahead, IsPending, TypeOK, Tables
  <2> QED
    BY <1>1, <2>1, <2>2, <2>3 DEF Ahead, Unfilled
<1> QED
  BY <1>2, <1>3, <1>4, QuantityStep

(* The broker implements OrderLifecycle: an order is submitted once for a   *)
(* fixed quantity, fills monotonically up to it, and ends FILLED or         *)
(* REJECTED, whatever cycles abort and whatever the API inserts meanwhile.  *)
THEOREM ImplementsLifecycle == Spec => OrdersFollowLifecycle
<1>1. TypeOK /\ QuantityInv => Lifecycle!LifecycleInit
  BY LifecycleStart
<1>2. TypeOK /\ QuantityInv /\ [Next]_vars => [Lifecycle!Move]_Lifecycle!vars
  BY LifecycleStep
<1> QED
  BY <1>1, <1>2, QuantitiesHold, PTL
     DEF Spec, OrdersFollowLifecycle, Lifecycle!LifecycleSpec

-----------------------------------------------------------------------------
(* Orders on a position. *)

(* An exit, a trim or a scale-in: it names its position.                    *)
OnPosition(order) ==
    order.status # "NONE" /\ ~(order.side = "BUY" /\ order.type = "LIMIT")

(* Such an order is for the symbol of its position.                         *)
Aimed(order, poss) ==
    OnPosition(order) =>
        /\ order.position \in DOMAIN poss
        /\ poss[order.position].symbol = order.symbol

(* Positions are only added, and keep their symbol.                         *)
Longer(new, old) ==
    Len(old) <= Len(new) /\ \A p \in 1..Len(old) : new[p].symbol = old[p].symbol

(* The inductive invariant: every order on a position, of the session, of   *)
(* the database or still in a request, is aimed, and the database holds a   *)
(* prefix of the positions of the session.                                  *)
AimInv ==
    /\ Longer(positions, committed.positions)
    /\ \A o \in OrderIds : Aimed(orders[o], positions)
    /\ \A o \in OrderIds : Aimed(committed.orders[o], committed.positions)
    /\ \A c \in Clients : Aimed(requests[c], committed.positions)

(* An order that progressed aims at what it aimed at.                       *)
SameAim(new, old) ==
    /\ old.status # "NONE"
    /\ new.side = old.side /\ new.type = old.type
    /\ new.symbol = old.symbol /\ new.position = old.position

(* The empty slot is not on a position.                                     *)
LEMMA NoOrderAimed == \A poss : Aimed(NoOrder, poss)
  BY DEF NoOrder, Aimed, OnPosition

(* What is aimed stays aimed when positions are added.                      *)
LEMMA AimedLonger ==
  ASSUME NEW old \in Seq(Position), NEW new \in Seq(Position), Longer(new, old),
         NEW order, Aimed(order, old)
  PROVE  Aimed(order, new)
  BY DEF Aimed, Longer

(* A change of one position that keeps its symbol, and a new position.      *)
LEMMA LongerExcept ==
  ASSUME NEW old \in Seq(Position), NEW p \in DOMAIN old, NEW row \in Position,
         row.symbol = old[p].symbol
  PROVE  Longer([old EXCEPT ![p] = row], old) /\ Longer(old, old)
  BY DEF Longer

(* A position more.                                                         *)
LEMMA LongerAppend ==
  ASSUME NEW old \in Seq(Position), NEW row \in Position
  PROVE  Longer(Append(old, row), old) /\ Longer(old, old)
  BY DEF Longer

(* One change of the positions after another.                               *)
LEMMA LongerTransitive ==
  ASSUME NEW a \in Seq(Position), NEW b \in Seq(Position), NEW c \in Seq(Position),
         Longer(a, b), Longer(b, c)
  PROVE  Longer(a, c)
  BY DEF Longer

(* Every order-creating method aims its orders.                             *)
LEMMA NewAimed ==
  /\ \A cashNow, poss, holding, ords, known, g, price, other :
        \A order \in EntryOrders(cashNow, poss, holding, ords, known, g, price) :
            Aimed(order, other)
  /\ \A cashNow, poss, holding, ords, known, price : \A p \in DOMAIN poss :
        \A order \in ScaleInOrders(cashNow, poss, holding, ords, known, p, price) :
            Aimed(order, poss)
  /\ \A poss, holding, ords, known, percent, price : \A p \in DOMAIN poss :
        \A order \in ExitOrders(poss, holding, ords, known, p, percent, price) :
            Aimed(order, poss)
<1>1. \A cashNow, poss, holding, ords, known, g, price, other :
        \A order \in EntryOrders(cashNow, poss, holding, ords, known, g, price) :
            Aimed(order, other)
  <2>1. \A symbol, signal, price, qty, other :
          Aimed(NewOrder("BUY", "LIMIT", symbol, signal, 0, price, qty), other)
    BY DEF NewOrder, Aimed, OnPosition
  <2> QED
    BY <2>1 DEF EntryOrders
<1>2. \A cashNow, poss, holding, ords, known, price : \A p \in DOMAIN poss :
        \A order \in ScaleInOrders(cashNow, poss, holding, ords, known, p, price) :
            Aimed(order, poss)
  BY DEF ScaleInOrders, NewOrder, Aimed
<1>3. \A poss, holding, ords, known, percent, price : \A p \in DOMAIN poss :
        \A order \in ExitOrders(poss, holding, ords, known, p, percent, price) :
            Aimed(order, poss)
  BY DEF ExitOrders, NewOrder, Aimed
<1> QED
  BY <1>1, <1>2, <1>3

-----------------------------------------------------------------------------
(* What a step of the broker can do to orders and positions. *)

(* Nothing, or something to one request, ...                                *)
Deciding ==
    /\ UNCHANGED <<orders, positions, committed.orders, committed.positions>>
    /\ \/ UNCHANGED requests
       \/ \E c \in Clients : \E order :
            /\ requests' = [requests EXCEPT ![c] = order]
            /\ Aimed(order, committed.positions)

(* ... a new order, of the session or of the API, ...                       *)
Aiming ==
    /\ UNCHANGED <<positions, committed.positions>>
    /\ \E id \in NewIds : \E order :
        /\ orders' = [orders EXCEPT ![id] = order]
        /\ \/ UNCHANGED <<committed.orders, requests>> /\ Aimed(order, positions)
           \/ /\ committed'.orders = [committed.orders EXCEPT ![id] = order]
              /\ \E c \in Clients : /\ order = requests[c]
                                    /\ requests' = [requests EXCEPT ![c] = NoOrder]

(* ... progress of an order, a trade in a position or a mark, ...           *)
Trading ==
    /\ UNCHANGED <<committed.orders, committed.positions, requests>>
    /\ \/ UNCHANGED orders
       \/ \E o \in OrderIds : \E new :
            orders' = [orders EXCEPT ![o] = new] /\ SameAim(new, orders[o])
    /\ Longer(positions', positions)

(* ... the end of a transaction.                                            *)
Ending ==
    /\ UNCHANGED requests
    /\ \/ /\ orders' = committed.orders /\ positions' = committed.positions
          /\ UNCHANGED <<committed.orders, committed.positions>>
       \/ /\ committed'.orders = orders /\ committed'.positions = positions
          /\ UNCHANGED <<orders, positions>>

(* The market and the API.                                                  *)
LEMMA OutsideAims ==
  ASSUME TypeOK, Market \/ Api
  PROVE  Deciding \/ Aiming
<1>1. ASSUME UNCHANGED <<tables, committed, requests>>
      PROVE  Deciding
  BY <1>1 DEF tables, Deciding
<1>2. ASSUME NEW g \in Signals, PublishSignal(g)
      PROVE  Deciding
  BY <1>2 DEF PublishSignal, TypeOK, Tables, Deciding
<1>3. ASSUME NEW c \in Clients, NEW possible, Decide(c, possible),
             \A order \in possible : Aimed(order, committed.positions)
      PROVE  Deciding
  BY <1>3 DEF Decide, tables, Deciding
<1>4. ASSUME NEW c \in Clients, ApiCommit(c)
      PROVE  Aiming
  BY <1>4 DEF ApiCommit, TypeOK, Tables, Aiming
<1>5. CASE Market
  BY <1>1, <1>2, <1>5 DEF Market, Tick, ArriveSnapshot, LapseSignal
<1>6. CASE Api
  <2>1. ASSUME NEW c \in Clients, NEW g \in Signals, ApiFromSignal(c, g)
        PROVE  Deciding
    BY <1>3, <2>1, NewAimed DEF ApiFromSignal
  <2>2. ASSUME NEW c \in Clients, NEW p \in OpenPositions(committed.positions), ApiScaleIn(c, p)
        PROVE  Deciding
    BY <1>3, <2>2, NewAimed DEF ApiScaleIn, OpenPositions
  <2>3. ASSUME NEW c \in Clients, NEW p \in OpenPositions(committed.positions), NEW percent,
               ApiExit(c, p, percent)
        PROVE  Deciding
    BY <1>3, <2>3, NewAimed DEF ApiExit, OpenPositions
  <2>4. ASSUME NEW active, ApiKill(active)
        PROVE  Deciding
    BY <1>1, <2>4 DEF ApiKill
  <2> QED
    BY <1>4, <1>6, <2>1, <2>2, <2>3, <2>4 DEF Api
<1> QED
  BY <1>5, <1>6

(* The submissions of the session.                                          *)
LEMMA SubmissionsAim == ASSUME TypeOK, Submissions PROVE Aiming
<1>1. PICK holding \in SUBSET DOMAIN positions, known \in SUBSET Known :
        \/ \E g \in Signals : SubmitEntry(g, holding, known)
        \/ \E p \in holding, price \in UNION {Quoted(s) : s \in Symbols} :
            \/ SubmitScaleIn(p, holding, known, price)
            \/ \E percent \in TrimPercents \cup {100} :
                SubmitExit(p, holding, known, percent, price)
  BY DEF Submissions
<1>2. ASSUME NEW possible, Submit(possible), \A order \in possible : Aimed(order, positions)
      PROVE  Aiming
  BY <1>2 DEF Submit, Aiming
<1>3. ASSUME NEW g \in Signals, SubmitEntry(g, holding, known)
      PROVE  Aiming
  BY <1>2, <1>3, NewAimed DEF SubmitEntry
<1>4. ASSUME NEW p \in holding, NEW price, SubmitScaleIn(p, holding, known, price)
      PROVE  Aiming
  BY <1>2, <1>4, NewAimed DEF SubmitScaleIn
<1>5. ASSUME NEW p \in holding, NEW price, NEW percent,
             SubmitExit(p, holding, known, percent, price)
      PROVE  Aiming
  BY <1>2, <1>5, NewAimed DEF SubmitExit
<1> QED
  BY <1>1, <1>3, <1>4, <1>5

(* One order the session considers, without and with a fill.                *)
LEMMA ProcessAims ==
  ASSUME TypeOK, AimInv, NEW o \in OrderIds, Process(o)
  PROVE  Trading \/ Ending
<1>1. /\ orders \in [OrderIds -> Order] /\ positions \in Seq(Position)
      /\ Longer(positions, positions)
  BY DEF TypeOK, Longer
<1>2. CASE RejectEntry(o)
  <2> DEFINE new == [orders[o] EXCEPT !.status = "REJECTED"]
  <2>1. orders' = [orders EXCEPT ![o] = new] /\ SameAim(new, orders[o])
    BY <1>1, <1>2 DEF RejectEntry, IsPending, SameAim, Order
  <2> HIDE DEF new
  <2> QED
    BY <1>1, <1>2, <2>1 DEF RejectEntry, Trading
<1>3. ASSUME NEW i, Considers(o, i),
             orders' = Evaluated(o, i) \/ orders' = [orders EXCEPT ![o].cursor = At(o, i)]
      PROVE  \E new : orders' = [orders EXCEPT ![o] = new] /\ SameAim(new, orders[o])
  <2>1. orders[o] \in Order /\ orders[o].status # "NONE"
    BY <1>1, <1>3 DEF Considers, IsPending
  <2>2. CASE orders' = Evaluated(o, i)
    <3> DEFINE new == [orders[o] EXCEPT !.cursor = At(o, i), !.status = Result(o, i).status,
                                        !.filled = orders[o].filled + Result(o, i).qty]
    <3>1. orders' = [orders EXCEPT ![o] = new]
      BY <1>1, <2>2 DEF Evaluated
    <3>2. SameAim(new, orders[o])
      BY <2>1 DEF SameAim, Order
    <3> QED
      BY <3>1, <3>2
  <2>3. CASE orders' = [orders EXCEPT ![o].cursor = At(o, i)]
    <3> DEFINE new == [orders[o] EXCEPT !.cursor = At(o, i)]
    <3>1. orders' = [orders EXCEPT ![o] = new]
      BY <1>1, <2>3
    <3>2. SameAim(new, orders[o])
      BY <2>1 DEF SameAim, Order
    <3> QED
      BY <3>1, <3>2
  <2> QED
    BY <1>3, <2>2, <2>3
<1>4. ASSUME NEW i \in DOMAIN snapshots[orders[o].symbol], NotFilled(o, i)
      PROVE  Trading
  <2>1. \E new : orders' = [orders EXCEPT ![o] = new] /\ SameAim(new, orders[o])
    BY <1>3, <1>4 DEF NotFilled
  <2> QED
    BY <1>1, <1>4, <2>1 DEF NotFilled, Trading
<1>5. ASSUME NEW i \in DOMAIN snapshots[orders[o].symbol], BuyFill(o, i)
      PROVE  Trading
  <2>1. \E new : orders' = [orders EXCEPT ![o] = new] /\ SameAim(new, orders[o])
    BY <1>3, <1>5 DEF BuyFill, Filled, RecordFill
  <2>2. Longer(positions', positions)
    <3>1. NewPosition(o, i) \in Position
      BY NewPositionType
    <3>2. ASSUME NEW p \in PositionsFound(o)
          PROVE  /\ p \in DOMAIN positions /\ Increased(o, i, positions[p]) \in Position
                 /\ Increased(o, i, positions[p]).symbol = positions[p].symbol
      <4>1. p \in DOMAIN positions /\ positions[p] \in Position
        BY <1>1 DEF PositionsFound
      <4>2. Result(o, i).qty > 0
        BY <1>5 DEF BuyFill, Filled
      <4> QED
        BY <4>1, <4>2, IncreasedType DEF Increased, Position
    <3>3. ASSUME NEW p \in PositionsFound(o),
                 positions' = [positions EXCEPT ![p] = Increased(o, i, @)]
          PROVE  Longer(positions', positions)
      BY <1>1, <3>2, <3>3, LongerExcept
    <3> QED
      BY <1>1, <1>5, <3>1, <3>3, LongerAppend DEF BuyFill
  <2> QED
    BY <1>5, <2>1, <2>2 DEF BuyFill, Trading
<1>6. ASSUME NEW i \in DOMAIN snapshots[orders[o].symbol], SellFill(o, i)
      PROVE  Trading
  <2>1. \E new : orders' = [orders EXCEPT ![o] = new] /\ SameAim(new, orders[o])
    BY <1>3, <1>6 DEF SellFill, Filled, RecordFill
  <2>2. Longer(positions', positions)
    <3>1. PICK p \in PositionsFound(o) :
            /\ Result(o, i).qty <= positions[p].qty
            /\ positions' = [positions EXCEPT ![p] =
                    Reduced(o, i, positions[p], Allocated(p, Result(o, i).qty))]
      BY <1>6 DEF SellFill
    <3> DEFINE row == Reduced(o, i, positions[p], Allocated(p, Result(o, i).qty))
    <3>2. p \in DOMAIN positions /\ positions[p] \in Position
      BY <1>1 DEF PositionsFound
    <3>3. Result(o, i).qty \in Nat /\ Result(o, i).qty > 0
      BY <1>6, ResultType DEF SellFill, Filled
    <3>4. /\ Allocated(p, Result(o, i).qty) \in Nat
          /\ Allocated(p, Result(o, i).qty) <= positions[p].invested
      BY <3>1, <3>2, <3>3, AllocatedType
    <3>5. row \in Position
      BY <3>1, <3>2, <3>4, ReducedType
    <3>6. row.symbol = positions[p].symbol
      BY <3>2 DEF Reduced, Position
    <3> HIDE DEF row
    <3> QED
      BY <1>1, <3>1, <3>2, <3>5, <3>6, LongerExcept DEF row
  <2> QED
    BY <1>6, <2>1, <2>2 DEF SellFill, Trading
<1>7. ASSUME NEW i \in DOMAIN snapshots[orders[o].symbol], Raise(o, i)
      PROVE  Ending
  BY <1>7 DEF Raise, Rollback, Ending
<1> QED
  BY <1>2, <1>4, <1>5, <1>6, <1>7 DEF Process

(* Every step is one of these.                                              *)
LEMMA AimStep ==
  ASSUME TypeOK, AimInv, [Next]_vars
  PROVE  Deciding \/ Aiming \/ Trading \/ Ending
<1>1. CASE UNCHANGED vars \/ Begin
  BY <1>1 DEF vars, Begin, tables, Deciding
<1>2. CASE Market \/ Api
  BY <1>2, OutsideAims
<1>3. CASE Session
  <2>1. ASSUME NEW p \in DOMAIN positions, MarkPosition(p)
        PROVE  Trading
    <3>1. PICK i \in LatestSnapshots(positions[p].symbol) :
            positions' = [positions EXCEPT ![p].current =
                                snapshots[positions[p].symbol][i].price]
      BY <2>1 DEF MarkPosition
    <3> DEFINE row == [positions[p] EXCEPT !.current = snapshots[positions[p].symbol][i].price]
    <3>2. positions \in Seq(Position) /\ positions[p] \in Position
      BY DEF TypeOK
    <3>3. row.symbol = positions[p].symbol /\ positions' = [positions EXCEPT ![p] = row]
      BY <3>1, <3>2 DEF Position
    <3>4. Longer(positions', positions)
      BY <3>2, <3>3 DEF Longer
    <3> QED
      BY <2>1, <3>4 DEF MarkPosition, Trading
  <2>2. CASE Crash \/ \E trips \in BOOLEAN : Commit(trips)
    BY <2>2 DEF Crash, Rollback, Commit, Working, tables, Ending
  <2> QED
    BY <1>1, <1>3, <2>1, <2>2, SubmissionsAim, ProcessAims DEF Session
<1> QED
  BY <1>1, <1>2, <1>3 DEF Next

(* No step breaks the invariant.                                            *)
LEMMA StepAims == ASSUME TypeOK, AimInv, [Next]_vars PROVE AimInv'
<1>1. /\ orders \in [OrderIds -> Order] /\ committed.orders \in [OrderIds -> Order]
      /\ requests \in [Clients -> Order]
      /\ positions \in Seq(Position) /\ committed.positions \in Seq(Position)
      /\ positions' \in Seq(Position)
  BY StepType DEF TypeOK, Tables
<1>2. CASE Deciding
  BY <1>1, <1>2 DEF Deciding, AimInv
<1>3. CASE Aiming
  <2>1. PICK id, order :
          /\ id \in NewIds /\ orders' = [orders EXCEPT ![id] = order]
          /\ \/ UNCHANGED <<committed.orders, requests>> /\ Aimed(order, positions)
             \/ /\ committed'.orders = [committed.orders EXCEPT ![id] = order]
                /\ \E c \in Clients : /\ order = requests[c]
                                      /\ requests' = [requests EXCEPT ![c] = NoOrder]
    BY <1>3, ZenonT(40) DEF Aiming
  <2>2. CASE UNCHANGED <<committed.orders, requests>> /\ Aimed(order, positions)
    BY <1>1, <1>3, <2>1, <2>2 DEF Aiming, AimInv
  <2>3. ASSUME NEW c \in Clients, order = requests[c],
               requests' = [requests EXCEPT ![c] = NoOrder],
               committed'.orders = [committed.orders EXCEPT ![id] = order]
        PROVE  AimInv'
    <3>1. Aimed(order, committed.positions) /\ Aimed(order, positions)
      BY <1>1, <2>3, AimedLonger DEF AimInv
    <3>2. Aimed(NoOrder, committed.positions)
      BY NoOrderAimed
    <3> QED
      BY <1>1, <1>3, <2>1, <2>3, <3>1, <3>2 DEF Aiming, AimInv
  <2> QED
    BY <2>1, <2>2, <2>3
<1>4. CASE Trading
  <2>1. Longer(positions', committed'.positions)
    BY <1>1, <1>4, LongerTransitive DEF Trading, AimInv
  <2>2. \A o \in OrderIds : Aimed(orders[o], positions')
    BY <1>1, <1>4, AimedLonger DEF Trading, AimInv
  <2>3. \A o \in OrderIds : Aimed(orders'[o], positions')
    BY <1>1, <1>4, <2>2 DEF Trading, SameAim, Aimed, OnPosition
  <2> QED
    BY <1>4, <2>1, <2>3 DEF Trading, AimInv
<1>5. CASE Ending
  <2>1. Longer(positions, positions) /\ Longer(committed.positions, committed.positions)
    BY <1>1 DEF Longer
  <2>2. \A c \in Clients : Aimed(requests[c], positions)
    BY <1>1, AimedLonger DEF AimInv
  <2> QED
    BY <1>5, <2>1, <2>2 DEF Ending, AimInv
<1> QED
  BY <1>2, <1>3, <1>4, <1>5, AimStep

-----------------------------------------------------------------------------
(* What a step of the broker can do to the history of its trades. *)

(* The open positions of a symbol and its logs that are not closed, among   *)
(* the first n rows.                                                        *)
Opened(rows, n, s)   == {p \in 1..n : rows[p].symbol = s /\ rows[p].open}
Unclosed(rows, n, s) == {l \in 1..n : rows[l].symbol = s /\ ~rows[l].closed}

trades == <<cash, realized, positions, logs, closed, fills>>

savedTrades == <<committed.cash, committed.realized, committed.positions, committed.logs,
                 committed.closed, committed.fills>>

(* Nothing but a flush, ...                                                 *)
TradesKept ==
    /\ UNCHANGED <<trades, savedTrades>>
    /\ visible' \in {visible, Len(positions)}

(* ... a mark, ...                                                          *)
Marked ==
    /\ UNCHANGED <<cash, realized, logs, closed, fills, savedTrades, visible>>
    /\ \E p \in DOMAIN positions, new \in Position :
        /\ positions' = [positions EXCEPT ![p] = new]
        /\ new.symbol = positions[p].symbol /\ new.qty = positions[p].qty
        /\ new.invested = positions[p].invested /\ new.open = positions[p].open

(* ... a purchase of q shares of s for n, in a new position or one found,   *)
(* with a new trade log or one found, ...                                   *)
FillAdded(side, s, q) ==
    \E row \in Fill : /\ fills' = Append(fills, row)
                      /\ row.side = side /\ row.symbol = s /\ row.qty = q

(* A purchase adds to the open position of its symbol, or opens one,        *)
PositionBought(s, q, n) ==
    \/ /\ Opened(positions, visible, s) = {}
       /\ \E new \in Position :
            /\ positions' = Append(positions, new)
            /\ new.symbol = s /\ new.open /\ new.qty = q /\ new.invested = n
    \/ \E p \in Opened(positions, visible, s), new \in Position :
        /\ positions' = [positions EXCEPT ![p] = new]
        /\ new.symbol = s /\ new.open
        /\ new.qty = positions[p].qty + q /\ new.invested = positions[p].invested + n

(* and does the same to the trade log.                                      *)
LogBought(s) ==
    \/ /\ Unclosed(logs, visible, s) = {}
       /\ \E log \in TradeLog : /\ logs' = Append(logs, log)
                                /\ log.symbol = s /\ ~log.closed /\ log.net = 0
    \/ \E l \in Unclosed(logs, visible, s), log \in TradeLog :
        /\ logs' = [logs EXCEPT ![l] = log]
        /\ log.symbol = s /\ ~log.closed /\ log.net = logs[l].net

(* A purchase of q shares of s, which costs n.                              *)
Bought == \E s \in Symbols, q \in Nat, n \in Nat :
    /\ FillAdded("BUY", s, q)
    /\ PositionBought(s, q, n)
    /\ LogBought(s)
    /\ cash' = cash - n
    /\ UNCHANGED <<realized, closed, visible, committed>>

(* ... a sale of q shares that cost "cost" for n, which closes the position *)
(* and its log when it is all of it, ...                                    *)
PositionSold(s, p, q, cost) ==
    /\ p \in Opened(positions, visible, s)
    /\ q <= positions[p].qty
    /\ q = positions[p].qty => cost = positions[p].invested
    /\ \E new \in Position :
        /\ positions' = [positions EXCEPT ![p] = new]
        /\ new.symbol = s /\ new.open = (q # positions[p].qty)
        /\ new.qty = positions[p].qty - q /\ new.invested = positions[p].invested - cost

(* A sale takes the last open log of its symbol,                            *)
LogSold(s, l, p, q, result) ==
    /\ l \in Unclosed(logs, visible, s)
    /\ \E log \in TradeLog :
        /\ logs' = [logs EXCEPT ![l] = log]
        /\ log.symbol = s /\ log.closed = (q = positions[p].qty)
        /\ log.net = logs[l].net + result

(* closes it with its position when no share is left,                       *)
TradeClosed(p, l) ==
    IF \E k \in DOMAIN closed : closed[k].position = p
    THEN UNCHANGED <<closed, visible>>
    ELSE /\ \E record \in ClosedTrade :
                /\ closed' = Append(closed, record)
                /\ record.position = p /\ record.log = l /\ record.net = logs'[l].net
         /\ visible' = Len(positions)

(* and books the cost it takes away and the result it leaves.               *)
Sold == \E s \in Symbols, p \in DOMAIN positions, l \in DOMAIN logs, q \in Nat, n \in Nat,
           cost \in Nat :
    /\ FillAdded("SELL", s, q)
    /\ PositionSold(s, p, q, cost)
    /\ LogSold(s, l, p, q, n - cost)
    /\ IF q # positions[p].qty THEN UNCHANGED <<closed, visible>> ELSE TradeClosed(p, l)
    /\ cash' = cash + n
    /\ realized' = realized + n - cost
    /\ UNCHANGED committed

(* ... the end of a transaction.                                            *)
TradesRestored ==
    /\ cash' = committed.cash /\ realized' = committed.realized
    /\ positions' = committed.positions /\ logs' = committed.logs
    /\ closed' = committed.closed /\ fills' = committed.fills
    /\ visible' = 0
    /\ UNCHANGED savedTrades

(* A commit writes all of them.                                             *)
TradesSaved ==
    /\ committed'.cash = cash /\ committed'.realized = realized
    /\ committed'.positions = positions /\ committed'.logs = logs
    /\ committed'.closed = closed /\ committed'.fills = fills
    /\ visible' = 0
    /\ UNCHANGED trades

(* The whole of a cost is the share that all the shares carry.              *)
LEMMA DivisionWhole ==
  ASSUME NEW a \in Nat, NEW b \in Nat, b > 0
  PROVE  (a * b) \div b = a
  BY SMT

(* The positions a purchase finds are open ones of the order's symbol.      *)
LEMMA FoundOpened ==
  ASSUME TypeOK, AimInv, visible <= Len(positions), NEW o \in OrderIds, IsPending(orders[o])
  PROVE  /\ PositionsFound(o) \subseteq Opened(positions, visible, orders[o].symbol)
         /\ orders[o].side = "BUY" /\ orders[o].type = "LIMIT"
               => PositionsFound(o) = Opened(positions, visible, orders[o].symbol)
<1>1. positions \in Seq(Position) /\ visible \in Nat
  BY DEF TypeOK
<1>2. Aimed(orders[o], positions)
  BY DEF AimInv
<1> QED
  BY <1>1, <1>2 DEF PositionsFound, Opened, Aimed, OnPosition, IsPending

(* So are the logs.                                                         *)
LEMMA FoundUnclosed ==
  ASSUME TypeOK, visible <= Len(logs), NEW s
  PROVE  LogsFound(s) = Unclosed(logs, visible, s)
<1>1. logs \in Seq(TradeLog) /\ visible \in Nat
  BY DEF TypeOK
<1> QED
  BY <1>1 DEF LogsFound, Unclosed

(* The log of a purchase.                                                   *)
LEMMA LogEntryBought ==
  ASSUME TypeOK, visible <= Len(logs), NEW o \in OrderIds, NEW position \in Position,
         LogEntry(o, position)
  PROVE  LogBought(orders[o].symbol)
<1>1. /\ orders[o] \in Order /\ logs \in Seq(TradeLog)
      /\ position.average \in Nat /\ position.qty \in Nat /\ position.invested \in Nat
  BY DEF TypeOK, Position
<1> DEFINE s == orders[o].symbol
<1>2. s \in Symbols /\ LogsFound(s) = Unclosed(logs, visible, s)
  BY <1>1, FoundUnclosed DEF Order
<1>3. CASE LogsFound(s) = {}
  <2> DEFINE log == [symbol |-> s, entryOrder |-> o, entry |-> position.average,
                     qty |-> position.qty, invested |-> position.invested, exit |-> 0,
                     gross |-> 0, net |-> 0, closed |-> FALSE]
  <2>1. log \in TradeLog /\ log.symbol = s /\ ~log.closed /\ log.net = 0
    BY <1>1, <1>2 DEF TradeLog
  <2>2. logs' = Append(logs, log)
    BY <1>3 DEF LogEntry
  <2> HIDE DEF log
  <2> QED
    BY <1>2, <1>3, <2>1, <2>2 DEF LogBought
<1>4. ASSUME NEW l \in LogsFound(s),
             logs' = [logs EXCEPT ![l].entry = position.average, ![l].qty = position.qty,
                                  ![l].invested = position.invested]
      PROVE  LogBought(s)
  <2> DEFINE log == [logs[l] EXCEPT !.entry = position.average, !.qty = position.qty,
                                    !.invested = position.invested]
  <2>1. l \in DOMAIN logs /\ logs[l] \in TradeLog /\ logs[l].symbol = s /\ ~logs[l].closed
    BY <1>1, <1>4 DEF LogsFound
  <2>2. log \in TradeLog /\ log.symbol = s /\ ~log.closed /\ log.net = logs[l].net
    BY <1>1, <2>1 DEF TradeLog
  <2>3. logs' = [logs EXCEPT ![l] = log]
    BY <1>1, <1>4, <2>1
  <2> HIDE DEF log
  <2> QED
    BY <1>2, <1>4, <2>2, <2>3 DEF LogBought
<1> QED
  BY <1>3, <1>4 DEF LogEntry

(* A filled purchase.                                                       *)
LEMMA BuyFillBought ==
  ASSUME TypeOK, AimInv, visible <= Len(positions), Len(logs) = Len(positions),
         NEW o \in OrderIds, NEW i \in DOMAIN snapshots[orders[o].symbol], BuyFill(o, i)
  PROVE  Bought
<1> DEFINE s == orders[o].symbol
           q == Result(o, i).qty
           n == FillNet(o, i)
<1>1. /\ orders[o].side = "BUY" /\ IsPending(orders[o])
      /\ orders[o] \in Order /\ s \in Symbols /\ orders[o].side \in {"BUY", "SELL"}
      /\ positions \in Seq(Position)
  BY DEF BuyFill, Filled, Considers, TypeOK, Order
<1>2. q \in Nat /\ q > 0 /\ n \in Nat /\ Result(o, i).price \in Nat /\ At(o, i) \in Nat
  BY ResultType DEF BuyFill, Filled
<1>3. FillAdded("BUY", s, q)
  <2> DEFINE row == [order |-> o, symbol |-> orders[o].symbol, side |-> orders[o].side,
                     qty |-> Result(o, i).qty, price |-> Result(o, i).price,
                     net |-> FillNet(o, i), at |-> At(o, i)]
  <2>1. row \in Fill /\ row.side = "BUY" /\ row.symbol = s /\ row.qty = q
    BY <1>1, <1>2 DEF Fill
  <2>2. fills' = Append(fills, row)
    BY DEF BuyFill, RecordFill
  <2> HIDE DEF row
  <2> QED
    BY <2>1, <2>2 DEF FillAdded
<1>4. cash' = cash - n
  BY <1>2 DEF BuyFill, RecordFill, TypeOK
<1>5. CASE /\ orders[o].type = "LIMIT" /\ PositionsFound(o) = {}
           /\ positions' = Append(positions, NewPosition(o, i))
           /\ LogEntry(o, NewPosition(o, i))
  <2>1. NewPosition(o, i) \in Position
    BY NewPositionType
  <2>2. /\ NewPosition(o, i).symbol = s /\ NewPosition(o, i).open
        /\ NewPosition(o, i).qty = q /\ NewPosition(o, i).invested = n
    BY DEF NewPosition
  <2>3. Opened(positions, visible, s) = {}
    BY <1>1, <1>5, FoundOpened
  <2>4. PositionBought(s, q, n)
    BY <1>5, <2>1, <2>2, <2>3 DEF PositionBought
  <2>5. LogBought(s)
    BY <1>5, <2>1, LogEntryBought
  <2> HIDE DEF s, q, n
  <2> QED
    BY <1>1, <1>2, <1>3, <1>4, <2>4, <2>5 DEF Bought, BuyFill
<1>6. ASSUME NEW p \in PositionsFound(o),
             positions' = [positions EXCEPT ![p] = Increased(o, i, @)],
             LogEntry(o, Increased(o, i, positions[p]))
      PROVE  Bought
  <2> DEFINE new == Increased(o, i, positions[p])
  <2>1. /\ p \in Opened(positions, visible, s) /\ p \in DOMAIN positions
        /\ positions[p] \in Position /\ positions[p].symbol = s /\ positions[p].open
    BY <1>1, <1>6, FoundOpened DEF PositionsFound, Opened
  <2>2. new \in Position
    BY <1>2, <2>1, IncreasedType
  <2>3. /\ new.symbol = s /\ new.open
        /\ new.qty = positions[p].qty + q /\ new.invested = positions[p].invested + n
    BY <2>1 DEF Increased, Position
  <2>4. positions' = [positions EXCEPT ![p] = new]
    BY <1>1, <1>6, <2>1
  <2>5. LogBought(s)
    BY <1>6, <2>2, LogEntryBought
  <2> HIDE DEF new, s, q, n
  <2>6. PositionBought(s, q, n)
    BY <2>1, <2>2, <2>3, <2>4 DEF PositionBought
  <2> QED
    BY <1>1, <1>2, <1>3, <1>4, <2>5, <2>6 DEF Bought, BuyFill
<1> QED
  BY <1>5, <1>6 DEF BuyFill

(* A filled sale.                                                           *)
LEMMA SellFillSold ==
  ASSUME TypeOK, AimInv, visible <= Len(positions), Len(logs) = Len(positions),
         NEW o \in OrderIds, NEW i \in DOMAIN snapshots[orders[o].symbol], SellFill(o, i)
  PROVE  Sold
<1> DEFINE s == orders[o].symbol
           q == Result(o, i).qty
           n == FillNet(o, i)
<1>1. /\ orders[o].side = "SELL" /\ IsPending(orders[o])
      /\ orders[o] \in Order /\ s \in Symbols /\ orders[o].side \in {"BUY", "SELL"}
      /\ positions \in Seq(Position) /\ logs \in Seq(TradeLog)
  BY DEF SellFill, Filled, Considers, TypeOK, Order
<1>2. q \in Nat /\ q > 0 /\ n \in Nat /\ Result(o, i).price \in Nat /\ At(o, i) \in Nat
  BY ResultType DEF SellFill, Filled
<1>3. FillAdded("SELL", s, q)
  <2> DEFINE row == [order |-> o, symbol |-> orders[o].symbol, side |-> orders[o].side,
                     qty |-> Result(o, i).qty, price |-> Result(o, i).price,
                     net |-> FillNet(o, i), at |-> At(o, i)]
  <2>1. row \in Fill /\ row.side = "SELL" /\ row.symbol = s /\ row.qty = q
    BY <1>1, <1>2 DEF Fill
  <2>2. fills' = Append(fills, row)
    BY DEF SellFill, RecordFill
  <2> HIDE DEF row
  <2> QED
    BY <2>1, <2>2 DEF FillAdded
<1>4. cash' = cash + n
  BY DEF SellFill, RecordFill
<1>5. PICK p \in PositionsFound(o), l \in LogsFound(s) :
        LET old  == positions[p]
            cost == Allocated(p, Result(o, i).qty)
            new  == Reduced(o, i, old, cost)
            log  == SaleLogged(o, i, logs[l], old, cost)
        IN  /\ Result(o, i).qty <= old.qty
            /\ positions' = [positions EXCEPT ![p] = new]
            /\ logs' = [logs EXCEPT ![l] = log]
            /\ realized' = realized + FillNet(o, i) - cost
            /\ IF new.open THEN UNCHANGED <<closed, visible>>
                           ELSE RecordClosed(o, i, p, l, log)
  BY DEF SellFill
<1> DEFINE old  == positions[p]
           cost == Allocated(p, q)
           new  == Reduced(o, i, old, cost)
           log  == SaleLogged(o, i, logs[l], old, cost)
<1>6. /\ p \in Opened(positions, visible, s) /\ p \in DOMAIN positions
      /\ old \in Position /\ old.symbol = s /\ old.qty \in Nat /\ old.invested \in Nat
  <2>1. p \in Opened(positions, visible, s)
    BY <1>1, FoundOpened
  <2>2. p \in DOMAIN positions
    BY DEF PositionsFound
  <2>3. old \in Position /\ old.symbol = s
    BY <1>1, <2>1, <2>2 DEF Opened
  <2> QED
    BY <2>1, <2>2, <2>3 DEF Position
<1>7. /\ l \in Unclosed(logs, visible, s) /\ l \in DOMAIN logs /\ logs[l] \in TradeLog
      /\ logs[l].symbol = s
  BY <1>1, FoundUnclosed DEF LogsFound
<1>8. cost \in Nat /\ cost <= old.invested
  BY <1>2, <1>5, <1>6, AllocatedType
<1>9. q = old.qty => cost = old.invested
  BY <1>2, <1>6, DivisionWhole DEF Allocated
<1>10. PositionSold(s, p, q, cost)
  <2>1. new \in Position
    BY <1>5, <1>6, <1>8, ReducedType
  <2>2. /\ new.symbol = s /\ new.open = (q # old.qty)
        /\ new.qty = old.qty - q /\ new.invested = old.invested - cost
    BY <1>6 DEF Reduced, Position
  <2>3. positions' = [positions EXCEPT ![p] = new] /\ q <= old.qty
    BY <1>5
  <2> HIDE DEF new, cost, q, s
  <2> QED
    BY <1>6, <1>9, <2>1, <2>2, <2>3 DEF PositionSold
<1>11. /\ log \in TradeLog /\ log.symbol = s /\ log.closed = (q = old.qty)
       /\ log.net = logs[l].net + (n - cost)
  <2>1. log \in TradeLog
    BY <1>2, <1>6, <1>7, <1>8, SaleLoggedType
  <2>2. log.symbol = logs[l].symbol
    BY <1>7 DEF SaleLogged, TradeLog
  <2>3. log.closed = (old.qty = q)
    BY <1>7 DEF SaleLogged, SoldOut, TradeLog
  <2>4. log.net = logs[l].net + n - cost /\ logs[l].net \in Int
    BY <1>7 DEF SaleLogged, TradeLog
  <2> HIDE DEF log, cost, q, n
  <2> QED
    BY <1>2, <1>7, <1>8, <2>1, <2>2, <2>3, <2>4
<1>12. logs' = [logs EXCEPT ![l] = log] /\ logs'[l] = log
  BY <1>5, <1>7
<1>13. LogSold(s, l, p, q, n - cost)
  <2> HIDE DEF log, cost, q, n, s
  <2> QED
    BY <1>7, <1>11, <1>12 DEF LogSold, old
<1>14. IF q # old.qty THEN UNCHANGED <<closed, visible>> ELSE TradeClosed(p, l)
  <2>1. new.open = (old.qty # q)
    BY <1>6 DEF Reduced, Position
  <2>2. ASSUME RecordClosed(o, i, p, l, log)
        PROVE  TradeClosed(p, l)
    <3> DEFINE record == CloseRecord(o, i, p, l, log)
    <3>1. record \in ClosedTrade
      <4>1. log.symbol \in Symbols /\ log.qty \in Nat /\ log.net \in Int
        BY <1>11 DEF TradeLog
      <4>2. p \in Nat /\ l \in Nat
        BY <1>1, <1>6, <1>7
      <4> HIDE DEF log
      <4> QED
        BY <1>2, <4>1, <4>2 DEF CloseRecord, ClosedTrade
    <3>2. record.position = p /\ record.log = l /\ record.net = log.net
      BY DEF CloseRecord
    <3>3. \/ /\ \E k \in DOMAIN closed : closed[k].position = p
             /\ UNCHANGED <<closed, visible>>
          \/ /\ ~\E k \in DOMAIN closed : closed[k].position = p
             /\ closed' = Append(closed, record) /\ visible' = Len(positions)
      BY <2>2 DEF RecordClosed
    <3> HIDE DEF record, log
    <3> QED
      BY <1>12, <3>1, <3>2, <3>3 DEF TradeClosed
  <2>3. IF new.open THEN UNCHANGED <<closed, visible>> ELSE RecordClosed(o, i, p, l, log)
    BY <1>5
  <2> HIDE DEF new, log, q
  <2> QED
    BY <2>1, <2>2, <2>3
<1>15. realized' = realized + n - cost
  BY <1>5
<1> HIDE DEF old, cost, new, log, s, q, n
<1>16. UNCHANGED committed
  BY DEF SellFill
<1> QED
  BY <1>1, <1>2, <1>3, <1>4, <1>6, <1>7, <1>8, <1>10, <1>13, <1>14, <1>15, <1>16
     DEF Sold, old

(* The market, the API and the submissions leave trades alone.              *)
LEMMA OutsideTrades ==
  ASSUME TypeOK, Market \/ Api \/ Submissions
  PROVE  TradesKept
<1> USE DEF TradesKept, trades, savedTrades
<1>1. ASSUME NEW g \in Signals, PublishSignal(g)
      PROVE  TradesKept
  BY <1>1 DEF PublishSignal, TypeOK, Tables
<1>2. CASE Market
  BY <1>1, <1>2 DEF Market, Tick, ArriveSnapshot, LapseSignal, tables
<1>3. ASSUME NEW c \in Clients, ApiCommit(c)
      PROVE  TradesKept
  BY <1>3 DEF ApiCommit, TypeOK, Tables
<1>4. CASE Api
  BY <1>3, <1>4 DEF Api, ApiFromSignal, ApiScaleIn, ApiExit, ApiKill, Decide, tables
<1>5. CASE Submissions
  BY <1>5 DEF Submissions, SubmitEntry, SubmitScaleIn, SubmitExit, Submit
<1> QED
  BY <1>2, <1>4, <1>5

(* Every step is one of these.                                              *)
LEMMA TradeStep ==
  ASSUME TypeOK, AimInv, visible <= Len(positions), Len(logs) = Len(positions), [Next]_vars
  PROVE  TradesKept \/ Marked \/ Bought \/ Sold \/ TradesRestored \/ TradesSaved
<1>1. CASE UNCHANGED vars \/ Begin
  BY <1>1 DEF vars, tables, Begin, TradesKept, trades, savedTrades
<1>2. CASE Market \/ Api \/ Submissions
  BY <1>2, OutsideTrades
<1>3. ASSUME Rollback
      PROVE  TradesRestored
  BY <1>3 DEF Rollback, RestorePortfolio, TradesRestored, savedTrades
<1>4. CASE Session
  <2>1. ASSUME NEW o \in OrderIds, Process(o)
        PROVE  TradesKept \/ Bought \/ Sold \/ TradesRestored
    <3>1. CASE RejectEntry(o)
      BY <3>1 DEF RejectEntry, TradesKept, trades, savedTrades
    <3>2. ASSUME NEW i \in DOMAIN snapshots[orders[o].symbol], NotFilled(o, i)
          PROVE  TradesKept
      BY <3>2 DEF NotFilled, TradesKept, trades, savedTrades
    <3>3. ASSUME NEW i \in DOMAIN snapshots[orders[o].symbol], Raise(o, i)
          PROVE  TradesRestored
      BY <1>3, <3>3 DEF Raise
    <3> QED
      BY <2>1, <3>1, <3>2, <3>3, BuyFillBought, SellFillSold DEF Process
  <2>2. ASSUME NEW p \in DOMAIN positions, MarkPosition(p)
        PROVE  Marked
    <3>1. /\ positions \in Seq(Position) /\ positions[p] \in Position
          /\ positions[p].symbol \in Symbols
      <4>1. positions \in Seq(Position) /\ positions[p] \in Position
        BY DEF TypeOK
      <4> QED
        BY <4>1 DEF Position
    <3>2. PICK i \in LatestSnapshots(positions[p].symbol) :
            positions' = [positions EXCEPT ![p].current =
                                snapshots[positions[p].symbol][i].price]
      BY <2>2 DEF MarkPosition
    <3> DEFINE new == [positions[p] EXCEPT !.current =
                            snapshots[positions[p].symbol][i].price]
    <3>3. snapshots[positions[p].symbol][i].price \in Nat
      BY <3>1, <3>2, ShotPrice DEF LatestSnapshots, Fresh
    <3>4. /\ new \in Position
          /\ new.symbol = positions[p].symbol /\ new.qty = positions[p].qty
          /\ new.invested = positions[p].invested /\ new.open = positions[p].open
      BY <3>1, <3>3 DEF Position
    <3>5. positions' = [positions EXCEPT ![p] = new]
      BY <3>1, <3>2
    <3> HIDE DEF new
    <3> QED
      BY <2>2, <3>4, <3>5 DEF MarkPosition, Marked, savedTrades
  <2>3. CASE \E trips \in BOOLEAN : Commit(trips)
    BY <2>3 DEF Commit, Working, tables, trades, TradesSaved
  <2>4. CASE Crash
    BY <1>3, <2>4 DEF Crash
  <2> QED
    BY <1>1, <1>2, <1>4, <2>1, <2>2, <2>3, <2>4 DEF Session
<1> QED
  BY <1>1, <1>2, <1>4 DEF Next

-----------------------------------------------------------------------------
(* The history of trades. *)

(* The close records of a position.                                         *)
Records(rows, p) == {k \in DOMAIN rows : rows[k].position = p}

(* Among the first n positions and logs, a symbol has as many open          *)
(* positions as open logs.                                                  *)
Matched(poss, rows, n) ==
    \A s \in Symbols : Cardinality(Opened(poss, n, s)) = Cardinality(Unclosed(rows, n, s))

(* Each log has a close record if its position is closed, with its result.  *)
Recorded(poss, rows, records) ==
    /\ \A p \in DOMAIN poss :
        Cardinality(Records(records, p)) = IF poss[p].open THEN 0 ELSE 1
    /\ \A k \in DOMAIN records :
        /\ records[k].position \in DOMAIN poss
        /\ records[k].log \in DOMAIN rows
        /\ rows[records[k].log].closed
        /\ records[k].net = rows[records[k].log].net

(* What positions, logs and close records have to say to each other.        *)
History(poss, rows, records) ==
    /\ Len(rows) = Len(poss)
    /\ Matched(poss, rows, Len(poss))
    /\ Recorded(poss, rows, records)

(* The inductive invariant: it holds of the session and of the database.    *)
HistoryInv ==
    /\ History(positions, logs, closed)
    /\ History(committed.positions, committed.logs, committed.closed)
    /\ visible <= Len(positions)
    /\ Matched(positions, logs, visible)

(* These sets are finite.                                                   *)
LEMMA FiniteRows ==
  ASSUME NEW n \in Nat, NEW rows, NEW s
  PROVE  IsFiniteSet(Opened(rows, n, s)) /\ IsFiniteSet(Unclosed(rows, n, s))
<1>1. IsFiniteSet(1..n)
  BY FS_Interval
<1>2. Opened(rows, n, s) \subseteq 1..n /\ Unclosed(rows, n, s) \subseteq 1..n
  BY DEF Opened, Unclosed
<1> QED
  BY <1>1, <1>2, FS_Subset

(* A change of a position that leaves it open, or closes it.                *)
LEMMA OpenedChanged ==
  ASSUME NEW poss \in Seq(Position), NEW n \in Nat, n <= Len(poss), NEW p \in DOMAIN poss,
         poss[p].open, NEW new \in Position, new.symbol = poss[p].symbol, NEW t
  PROVE  Cardinality(Opened([poss EXCEPT ![p] = new], n, t))
           = IF p <= n /\ poss[p].symbol = t /\ ~new.open
             THEN Cardinality(Opened(poss, n, t)) - 1
             ELSE Cardinality(Opened(poss, n, t))
<1> DEFINE after == Opened([poss EXCEPT ![p] = new], n, t)
           before == Opened(poss, n, t)
<1>1. CASE p <= n /\ poss[p].symbol = t /\ ~new.open
  <2>1. after = before \ {p} /\ p \in before
    BY <1>1 DEF Opened
  <2> QED
    BY <1>1, <2>1, FiniteRows, FS_RemoveElement, ZenonT(40)
<1>2. CASE ~(p <= n /\ poss[p].symbol = t /\ ~new.open)
  <2>1. after = before
    BY <1>2 DEF Opened
  <2> QED
    BY <1>2, <2>1
<1> QED
  BY <1>1, <1>2

(* The same for a log.                                                      *)
LEMMA UnclosedChanged ==
  ASSUME NEW rows \in Seq(TradeLog), NEW n \in Nat, n <= Len(rows), NEW l \in DOMAIN rows,
         ~rows[l].closed, NEW new \in TradeLog, new.symbol = rows[l].symbol, NEW t
  PROVE  Cardinality(Unclosed([rows EXCEPT ![l] = new], n, t))
           = IF l <= n /\ rows[l].symbol = t /\ new.closed
             THEN Cardinality(Unclosed(rows, n, t)) - 1
             ELSE Cardinality(Unclosed(rows, n, t))
<1> DEFINE after == Unclosed([rows EXCEPT ![l] = new], n, t)
           before == Unclosed(rows, n, t)
<1>1. CASE l <= n /\ rows[l].symbol = t /\ new.closed
  <2>1. after = before \ {l} /\ l \in before
    BY <1>1 DEF Unclosed
  <2> QED
    BY <1>1, <2>1, FiniteRows, FS_RemoveElement
<1>2. CASE ~(l <= n /\ rows[l].symbol = t /\ new.closed)
  <2>1. after = before
    BY <1>2 DEF Unclosed
  <2> QED
    BY <1>2, <2>1
<1> QED
  BY <1>1, <1>2

(* A new open position, and a new open log.                                 *)
LEMMA OpenedAdded ==
  ASSUME NEW poss \in Seq(Position), NEW new \in Position, new.open, NEW t
  PROVE  /\ Cardinality(Opened(Append(poss, new), Len(poss) + 1, t))
              = Cardinality(Opened(poss, Len(poss), t)) + (IF new.symbol = t THEN 1 ELSE 0)
         /\ \A n \in 0..Len(poss) : Opened(Append(poss, new), n, t) = Opened(poss, n, t)
<1> DEFINE more == Append(poss, new)
           before == Opened(poss, Len(poss), t)
           after == Opened(more, Len(poss) + 1, t)
<1>1. Len(poss) \in Nat /\ more[Len(poss) + 1] = new /\ \A k \in 1..Len(poss) : more[k] = poss[k]
  OBVIOUS
<1> HIDE DEF more
<1>2. \A n \in 0..Len(poss) : Opened(more, n, t) = Opened(poss, n, t)
  BY <1>1 DEF Opened
<1>3. CASE new.symbol = t
  <2>1. after = before \cup {Len(poss) + 1} /\ Len(poss) + 1 \notin before
    BY <1>1, <1>3 DEF Opened
  <2>2. IsFiniteSet(before) /\ Cardinality(before) \in Nat
    BY <1>1, FiniteRows, FS_CardinalityType
  <2> QED
    BY <1>2, <1>3, <2>1, <2>2, FS_AddElement DEF more
<1>4. CASE new.symbol # t
  <2>1. after = before
    BY <1>1, <1>4 DEF Opened
  <2>2. Cardinality(before) \in Nat
    BY <1>1, FiniteRows, FS_CardinalityType
  <2> QED
    BY <1>2, <1>4, <2>1, <2>2 DEF more
<1> QED
  BY <1>3, <1>4

(* The same of a log more.                                                  *)
LEMMA UnclosedAdded ==
  ASSUME NEW rows \in Seq(TradeLog), NEW new \in TradeLog, ~new.closed, NEW t
  PROVE  /\ Cardinality(Unclosed(Append(rows, new), Len(rows) + 1, t))
              = Cardinality(Unclosed(rows, Len(rows), t)) + (IF new.symbol = t THEN 1 ELSE 0)
         /\ \A n \in 0..Len(rows) : Unclosed(Append(rows, new), n, t) = Unclosed(rows, n, t)
<1> DEFINE more == Append(rows, new)
           before == Unclosed(rows, Len(rows), t)
           after == Unclosed(more, Len(rows) + 1, t)
<1>1. Len(rows) \in Nat /\ more[Len(rows) + 1] = new /\ \A k \in 1..Len(rows) : more[k] = rows[k]
  OBVIOUS
<1> HIDE DEF more
<1>2. \A n \in 0..Len(rows) : Unclosed(more, n, t) = Unclosed(rows, n, t)
  BY <1>1 DEF Unclosed
<1>3. CASE new.symbol = t
  <2>1. after = before \cup {Len(rows) + 1} /\ Len(rows) + 1 \notin before
    BY <1>1, <1>3 DEF Unclosed
  <2>2. IsFiniteSet(before) /\ Cardinality(before) \in Nat
    BY <1>1, FiniteRows, FS_CardinalityType
  <2> QED
    BY <1>2, <1>3, <2>1, <2>2, FS_AddElement DEF more
<1>4. CASE new.symbol # t
  <2>1. after = before
    BY <1>1, <1>4 DEF Unclosed
  <2>2. Cardinality(before) \in Nat
    BY <1>1, FiniteRows, FS_CardinalityType
  <2> QED
    BY <1>2, <1>4, <2>1, <2>2 DEF more
<1> QED
  BY <1>3, <1>4

(* Nothing is among the first zero rows.                                    *)
LEMMA MatchedNone == \A poss, rows : Matched(poss, rows, 0)
<1>1. \A poss, rows, s : Opened(poss, 0, s) = {} /\ Unclosed(rows, 0, s) = {}
  BY DEF Opened, Unclosed
<1> QED
  BY <1>1, FS_EmptySet DEF Matched

(* If a symbol has no open position among them, it has no open log, and     *)
(* the other way round.                                                     *)
LEMMA MatchedEmpty ==
  ASSUME NEW poss, NEW rows, NEW n \in Nat, Matched(poss, rows, n), NEW s \in Symbols
  PROVE  Opened(poss, n, s) = {} <=> Unclosed(rows, n, s) = {}
<1>1. /\ IsFiniteSet(Opened(poss, n, s)) /\ IsFiniteSet(Unclosed(rows, n, s))
      /\ Cardinality(Opened(poss, n, s)) = Cardinality(Unclosed(rows, n, s))
  BY FiniteRows DEF Matched
<1> QED
  BY <1>1, FS_EmptySet

(* A purchase keeps the history.                                            *)
LEMMA BoughtHistory ==
  ASSUME TypeOK, HistoryInv, Bought
  PROVE  /\ History(positions', logs', closed')
         /\ visible' <= Len(positions') /\ Matched(positions', logs', visible')
<1>1. /\ positions \in Seq(Position) /\ logs \in Seq(TradeLog) /\ closed \in Seq(ClosedTrade)
      /\ visible \in Nat /\ visible <= Len(positions) /\ Len(logs) = Len(positions)
      /\ Len(positions) \in Nat
  BY DEF TypeOK, HistoryInv, History
<1>2. PICK s \in Symbols, q \in Nat, n \in Nat :
        /\ PositionBought(s, q, n)
        /\ LogBought(s)
        /\ UNCHANGED <<closed, visible>>
  BY DEF Bought
<1>3. Opened(positions, visible, s) = {} <=> Unclosed(logs, visible, s) = {}
  BY <1>1, MatchedEmpty DEF HistoryInv
<1>4. /\ Matched(positions, logs, visible) /\ Matched(positions, logs, Len(positions))
      /\ Recorded(positions, logs, closed)
  BY DEF HistoryInv, History
<1>5. CASE Opened(positions, visible, s) = {}
  <2>1. PICK new \in Position :
          positions' = Append(positions, new) /\ new.symbol = s /\ new.open
    BY <1>2, <1>5 DEF PositionBought
  <2>2. PICK log \in TradeLog : logs' = Append(logs, log) /\ log.symbol = s /\ ~log.closed
    BY <1>2, <1>3, <1>5 DEF LogBought
  <2>3. Len(positions') = Len(positions) + 1 /\ Len(logs') = Len(logs) + 1
    BY <1>1, <2>1, <2>2
  <2>4. Matched(positions', logs', Len(positions'))
    BY <1>1, <1>4, <2>1, <2>2, <2>3, OpenedAdded, UnclosedAdded DEF Matched
  <2>5. Matched(positions', logs', visible')
    BY <1>1, <1>2, <1>4, <2>1, <2>2, OpenedAdded, UnclosedAdded DEF Matched
  <2>6. /\ DOMAIN positions' = 1..Len(positions) + 1 /\ DOMAIN positions = 1..Len(positions)
        /\ positions'[Len(positions) + 1] = new
        /\ \A k \in 1..Len(positions) : positions'[k] = positions[k]
        /\ DOMAIN logs' = 1..Len(logs) + 1 /\ DOMAIN logs = 1..Len(logs)
        /\ \A k \in 1..Len(logs) : logs'[k] = logs[k]
    BY <1>1, <2>1, <2>2
  <2>7. Recorded(positions', logs', closed')
    <3>1. ASSUME NEW k \in DOMAIN closed'
          PROVE  /\ closed'[k].position \in DOMAIN positions'
                 /\ closed'[k].log \in DOMAIN logs'
                 /\ logs'[closed'[k].log].closed
                 /\ closed'[k].net = logs'[closed'[k].log].net
      BY <1>1, <1>2, <1>4, <2>6 DEF Recorded
    <3>2. ASSUME NEW p \in DOMAIN positions'
          PROVE  Cardinality(Records(closed', p)) = IF positions'[p].open THEN 0 ELSE 1
      <4>1. CASE p \in DOMAIN positions
        BY <1>2, <1>4, <2>6, <4>1 DEF Recorded
      <4>2. CASE p = Len(positions) + 1
        <5>1. Records(closed', p) = {}
          BY <1>1, <1>2, <1>4, <2>6, <4>2 DEF Recorded, Records
        <5> QED
          BY <2>1, <2>6, <4>2, <5>1, FS_EmptySet
      <4> QED
        BY <1>1, <2>6, <4>1, <4>2
    <3> QED
      BY <3>1, <3>2 DEF Recorded
  <2> QED
    BY <1>1, <1>2, <2>3, <2>4, <2>5, <2>7 DEF History
<1>6. CASE Opened(positions, visible, s) # {}
  <2>1. PICK p \in Opened(positions, visible, s), new \in Position :
          positions' = [positions EXCEPT ![p] = new] /\ new.symbol = s /\ new.open
    BY <1>2, <1>6 DEF PositionBought
  <2>2. PICK l \in Unclosed(logs, visible, s), log \in TradeLog :
          /\ logs' = [logs EXCEPT ![l] = log] /\ log.symbol = s /\ ~log.closed
    BY <1>2, <1>3, <1>6 DEF LogBought
  <2>3. /\ p \in DOMAIN positions /\ positions[p].open /\ positions[p].symbol = s
        /\ l \in DOMAIN logs /\ ~logs[l].closed /\ logs[l].symbol = s
    BY <1>1, <2>1, <2>2 DEF Opened, Unclosed
  <2>4. /\ Len(positions') = Len(positions) /\ Len(logs') = Len(logs)
        /\ DOMAIN positions' = DOMAIN positions /\ DOMAIN logs' = DOMAIN logs
        /\ \A k \in DOMAIN positions : positions'[k].open <=> positions[k].open
        /\ \A k \in DOMAIN logs : k # l => logs'[k] = logs[k]
    BY <1>1, <2>1, <2>2, <2>3
  <2>5. \A m \in {visible, Len(positions)} : Matched(positions', logs', m)
    <3> SUFFICES ASSUME NEW m \in {visible, Len(positions)}, NEW t \in Symbols
                 PROVE  Cardinality(Opened(positions', m, t))
                          = Cardinality(Unclosed(logs', m, t))
      BY DEF Matched
    <3>1. m \in Nat /\ m <= Len(positions) /\ m <= Len(logs)
      BY <1>1
    <3>2. Cardinality(Opened([positions EXCEPT ![p] = new], m, t))
            = IF p <= m /\ positions[p].symbol = t /\ ~new.open
              THEN Cardinality(Opened(positions, m, t)) - 1
              ELSE Cardinality(Opened(positions, m, t))
      <4>1. /\ positions \in Seq(Position) /\ p \in DOMAIN positions /\ positions[p].open
            /\ new.symbol = positions[p].symbol
        BY <1>1, <2>1, <2>3
      <4> QED
        BY <3>1, <4>1, OpenedChanged
    <3>3. Cardinality(Unclosed([logs EXCEPT ![l] = log], m, t))
            = IF l <= m /\ logs[l].symbol = t /\ log.closed
              THEN Cardinality(Unclosed(logs, m, t)) - 1
              ELSE Cardinality(Unclosed(logs, m, t))
      <4>1. /\ logs \in Seq(TradeLog) /\ l \in DOMAIN logs /\ ~logs[l].closed
            /\ log.symbol = logs[l].symbol
        BY <1>1, <2>2, <2>3
      <4> QED
        BY <3>1, <4>1, UnclosedChanged
    <3> QED
      BY <1>4, <2>1, <2>2, <3>2, <3>3 DEF Matched
  <2>6. Recorded(positions', logs', closed')
    BY <1>2, <1>4, <2>3, <2>4 DEF Recorded
  <2> QED
    BY <1>1, <1>2, <2>4, <2>5, <2>6 DEF History
<1> QED
  BY <1>5, <1>6

(* So does a sale.                                                          *)
LEMMA SoldHistory ==
  ASSUME TypeOK, HistoryInv, Sold
  PROVE  /\ History(positions', logs', closed')
         /\ visible' <= Len(positions') /\ Matched(positions', logs', visible')
<1>1. /\ positions \in Seq(Position) /\ logs \in Seq(TradeLog) /\ closed \in Seq(ClosedTrade)
      /\ visible \in Nat /\ visible <= Len(positions) /\ Len(logs) = Len(positions)
      /\ Len(positions) \in Nat
  BY DEF TypeOK, HistoryInv, History
<1>2. PICK s \in Symbols, p \in DOMAIN positions, l \in DOMAIN logs, q \in Nat, n \in Nat,
           cost \in Nat :
        /\ FillAdded("SELL", s, q)
        /\ PositionSold(s, p, q, cost)
        /\ LogSold(s, l, p, q, n - cost)
        /\ IF q # positions[p].qty THEN UNCHANGED <<closed, visible>> ELSE TradeClosed(p, l)
        /\ cash' = cash + n
        /\ realized' = realized + n - cost
        /\ UNCHANGED committed
  BY DEF Sold
<1>3. PICK new \in Position :
        /\ positions' = [positions EXCEPT ![p] = new]
        /\ new.symbol = s /\ new.open = (q # positions[p].qty)
  BY <1>2 DEF PositionSold
<1>4. PICK log \in TradeLog :
        /\ logs' = [logs EXCEPT ![l] = log]
        /\ log.symbol = s /\ log.closed = (q = positions[p].qty)
  BY <1>2 DEF LogSold
<1>5. /\ p <= visible /\ positions[p].open /\ positions[p].symbol = s
      /\ l <= visible /\ ~logs[l].closed /\ logs[l].symbol = s
  BY <1>1, <1>2 DEF PositionSold, LogSold, Opened, Unclosed
<1>6. /\ Len(positions') = Len(positions) /\ Len(logs') = Len(logs)
      /\ DOMAIN positions' = DOMAIN positions /\ DOMAIN logs' = DOMAIN logs
      /\ positions'[p] = new /\ logs'[l] = log
      /\ \A k \in DOMAIN positions : k # p => positions'[k] = positions[k]
      /\ \A k \in DOMAIN logs : k # l => logs'[k] = logs[k]
  BY <1>1, <1>2, <1>3, <1>4
<1>7. /\ Matched(positions, logs, visible) /\ Matched(positions, logs, Len(positions))
      /\ Recorded(positions, logs, closed)
  BY DEF HistoryInv, History
<1>8. \A m \in {visible, Len(positions)} : Matched(positions', logs', m)
  <2> SUFFICES ASSUME NEW m \in {visible, Len(positions)}, NEW t \in Symbols
               PROVE  Cardinality(Opened(positions', m, t)) = Cardinality(Unclosed(logs', m, t))
    BY DEF Matched
  <2>1. m \in Nat /\ m <= Len(positions) /\ m <= Len(logs) /\ p <= m /\ l <= m
    BY <1>1, <1>5
  <2>2. Cardinality(Opened([positions EXCEPT ![p] = new], m, t))
          = IF p <= m /\ positions[p].symbol = t /\ ~new.open
            THEN Cardinality(Opened(positions, m, t)) - 1
            ELSE Cardinality(Opened(positions, m, t))
    <3>1. positions \in Seq(Position) /\ positions[p].open /\ new.symbol = positions[p].symbol
      BY <1>1, <1>3, <1>5
    <3> QED
      BY <2>1, <3>1, OpenedChanged
  <2>3. Cardinality(Unclosed([logs EXCEPT ![l] = log], m, t))
          = IF l <= m /\ logs[l].symbol = t /\ log.closed
            THEN Cardinality(Unclosed(logs, m, t)) - 1
            ELSE Cardinality(Unclosed(logs, m, t))
    <3>1. logs \in Seq(TradeLog) /\ ~logs[l].closed /\ log.symbol = logs[l].symbol
      BY <1>1, <1>4, <1>5
    <3> QED
      BY <2>1, <3>1, UnclosedChanged
  <2>4. Cardinality(Opened(positions, m, t)) = Cardinality(Unclosed(logs, m, t))
    BY <1>7 DEF Matched
  <2> QED
    BY <1>3, <1>4, <1>5, <2>1, <2>2, <2>3, <2>4
<1>9. Cardinality(Records(closed, p)) = 0 /\ ~\E k \in DOMAIN closed : closed[k].position = p
  <2>1. Cardinality(Records(closed, p)) = 0
    BY <1>5, <1>7 DEF Recorded
  <2>2. IsFiniteSet(Records(closed, p))
    <3>1. Records(closed, p) \subseteq 1..Len(closed) /\ Len(closed) \in Nat
      BY <1>1 DEF Records
    <3>2. IsFiniteSet(1..Len(closed))
      BY <3>1, FS_Interval
    <3> QED
      BY <3>1, <3>2, FS_Subset
  <2>3. Records(closed, p) = {}
    BY <2>1, <2>2, FS_EmptySet
  <2> QED
    BY <2>1, <2>3 DEF Records
<1>10. CASE q # positions[p].qty
  <2>1. Recorded(positions', logs', closed')
    <3>1. UNCHANGED <<closed, visible>> /\ new.open
      BY <1>2, <1>3, <1>10
    <3>2. \A k \in DOMAIN positions : positions'[k].open <=> positions[k].open
      BY <1>5, <1>6, <3>1
    <3> QED
      BY <1>5, <1>6, <1>7, <3>1, <3>2 DEF Recorded
  <2> QED
    BY <1>1, <1>2, <1>6, <1>8, <1>10, <2>1 DEF History
<1>11. CASE q = positions[p].qty
  <2>1. ~new.open /\ log.closed
    BY <1>3, <1>4, <1>11
  <2>2. PICK record \in ClosedTrade :
          /\ closed' = Append(closed, record) /\ visible' = Len(positions)
          /\ record.position = p /\ record.log = l /\ record.net = logs'[l].net
    BY <1>2, <1>9, <1>11 DEF TradeClosed
  <2>3. /\ DOMAIN closed' = 1..Len(closed) + 1 /\ DOMAIN closed = 1..Len(closed)
        /\ closed'[Len(closed) + 1] = record
        /\ \A k \in 1..Len(closed) : closed'[k] = closed[k]
        /\ Len(closed) \in Nat
    BY <1>1, <2>2
  <2>4. Recorded(positions', logs', closed')
    <3>1. ASSUME NEW k \in DOMAIN closed'
          PROVE  /\ closed'[k].position \in DOMAIN positions'
                 /\ closed'[k].log \in DOMAIN logs'
                 /\ logs'[closed'[k].log].closed
                 /\ closed'[k].net = logs'[closed'[k].log].net
      <4>1. CASE k \in DOMAIN closed
        <5>1. /\ closed[k].position \in DOMAIN positions /\ closed[k].log \in DOMAIN logs
              /\ logs[closed[k].log].closed
              /\ closed[k].net = logs[closed[k].log].net
          BY <1>7, <4>1 DEF Recorded
        <5>2. closed[k].log # l /\ closed'[k] = closed[k]
          BY <1>5, <2>3, <4>1, <5>1
        <5> QED
          BY <1>6, <5>1, <5>2
      <4>2. CASE k = Len(closed) + 1
        BY <1>2, <1>6, <2>1, <2>2, <2>3, <4>2
      <4> QED
        BY <2>3, <4>1, <4>2
    <3>2. ASSUME NEW x \in DOMAIN positions'
          PROVE  Cardinality(Records(closed', x)) = IF positions'[x].open THEN 0 ELSE 1
      <4>1. CASE x = p
        <5>1. Records(closed', p) = {Len(closed) + 1}
          BY <1>9, <2>2, <2>3 DEF Records
        <5> QED
          BY <1>6, <2>1, <4>1, <5>1, FS_Singleton
      <4>2. CASE x # p
        <5>1. Records(closed', x) = Records(closed, x)
          BY <2>2, <2>3, <4>2 DEF Records
        <5> QED
          BY <1>6, <1>7, <4>2, <5>1 DEF Recorded
      <4> QED
        BY <4>1, <4>2
    <3> QED
      BY <3>1, <3>2 DEF Recorded
  <2> QED
    BY <1>1, <1>6, <1>8, <2>2, <2>4 DEF History
<1> QED
  BY <1>10, <1>11

(* A mark keeps the history.                                                *)
LEMMA MarkedHistory ==
  ASSUME TypeOK, HistoryInv, Marked
  PROVE  /\ History(positions', logs', closed')
         /\ visible' <= Len(positions') /\ Matched(positions', logs', visible')
<1>1. positions \in Seq(Position) /\ visible \in Nat /\ visible <= Len(positions)
  BY DEF TypeOK, HistoryInv
<1>2. PICK p \in DOMAIN positions, new \in Position :
        /\ positions' = [positions EXCEPT ![p] = new]
        /\ new.symbol = positions[p].symbol /\ new.open = positions[p].open
  BY DEF Marked
<1>3. UNCHANGED <<logs, closed, visible>>
  BY DEF Marked
<1>4. /\ Len(positions') = Len(positions) /\ DOMAIN positions' = DOMAIN positions
      /\ \A k \in DOMAIN positions : positions'[k].symbol = positions[k].symbol
      /\ \A k \in DOMAIN positions : positions'[k].open = positions[k].open
  BY <1>1, <1>2
<1>5. \A m \in Nat : \A s : m <= Len(positions) => Opened(positions', m, s) = Opened(positions, m, s)
  BY <1>1, <1>4 DEF Opened
<1>6. Len(positions) \in Nat
  BY <1>1
<1> QED
  BY <1>1, <1>3, <1>4, <1>5, <1>6 DEF HistoryInv, History, Matched, Recorded

(* No step breaks the history.                                              *)
LEMMA StepHistory == ASSUME TypeOK, AimInv, HistoryInv, [Next]_vars PROVE HistoryInv'
<1>1. visible <= Len(positions) /\ Len(logs) = Len(positions)
  BY DEF HistoryInv, History
<1>2. /\ positions \in Seq(Position) /\ committed.positions \in Seq(Position)
      /\ Len(positions) \in Nat /\ Len(committed.positions) \in Nat
  BY DEF TypeOK, Tables
<1>3. CASE TradesKept
  <2>1. Matched(positions, logs, visible')
    BY <1>3 DEF TradesKept, HistoryInv, History
  <2> QED
    BY <1>2, <1>3, <2>1 DEF TradesKept, trades, savedTrades, HistoryInv
<1>4. CASE Marked \/ Bought \/ Sold
  <2>1. /\ committed'.positions = committed.positions /\ committed'.logs = committed.logs
        /\ committed'.closed = committed.closed
    BY <1>4 DEF Marked, Bought, Sold, savedTrades
  <2> QED
    BY <1>4, <2>1, MarkedHistory, BoughtHistory, SoldHistory DEF HistoryInv
<1>5. CASE TradesRestored \/ TradesSaved
  BY <1>2, <1>5, MatchedNone DEF TradesRestored, TradesSaved, trades, savedTrades, HistoryInv
<1> QED
  BY <1>1, <1>3, <1>4, <1>5, TradeStep

(* Both invariants hold in every reachable state.                           *)
LEMMA HistoryHolds == Spec => [](TypeOK /\ AimInv /\ HistoryInv)
<1>1. ASSUME Init PROVE AimInv
  <2>1. /\ positions = <<>> /\ committed.positions = positions
        /\ orders = [o \in OrderIds |-> NoOrder] /\ committed.orders = orders
        /\ requests = [c \in Clients |-> NoOrder]
    BY <1>1 DEF Init, Working
  <2>2. Longer(positions, committed.positions)
    BY <2>1 DEF Longer
  <2>3. /\ \A o \in OrderIds : orders[o] = NoOrder /\ committed.orders[o] = NoOrder
        /\ \A c \in Clients : requests[c] = NoOrder
    BY <2>1
  <2> QED
    BY <2>2, <2>3, NoOrderAimed DEF AimInv
<1>2. ASSUME Init PROVE HistoryInv
  <2>1. /\ positions = <<>> /\ logs = <<>> /\ closed = <<>> /\ visible = 0
        /\ committed.positions = positions /\ committed.logs = logs
        /\ committed.closed = closed
    BY <1>2 DEF Init, Working
  <2>2. Len(positions) = 0 /\ Len(logs) = 0 /\ DOMAIN positions = {} /\ DOMAIN closed = {}
    BY <2>1
  <2> QED
    BY <2>1, <2>2, MatchedNone DEF HistoryInv, History, Recorded
<1>3. TypeOK /\ AimInv /\ HistoryInv /\ [Next]_vars => (TypeOK /\ AimInv /\ HistoryInv)'
  BY StepType, StepAims, StepHistory
<1> QED
  BY <1>1, <1>2, <1>3, InitType, PTL DEF Spec

(* Positions, trade logs and close records tell one history: every open     *)
(* position has its open log, also among the rows a query can see; every    *)
(* closed one has exactly one close record, with its final result.          *)
THEOREM TradesAgree == Spec => []HistoryAgrees
<1>1. ASSUME HistoryInv PROVE HistoryAgrees
  <2>1. ClosedRecordsAgree
    BY <1>1 DEF HistoryInv, History, Recorded, ClosedRecordsAgree
  <2>2. Len(logs) = Len(positions)
    BY <1>1 DEF HistoryInv, History
  <2>3. \A s \in Symbols, n \in {visible, Len(positions)} :
          Cardinality({p \in 1..n : positions[p].symbol = s /\ positions[p].open})
          = Cardinality({l \in 1..n : logs[l].symbol = s /\ ~logs[l].closed})
    BY <1>1 DEF HistoryInv, History, Matched, Opened, Unclosed
  <2>4. \A p \in DOMAIN positions :
          Cardinality({k \in DOMAIN closed : closed[k].position = p})
          = IF positions[p].open THEN 0 ELSE 1
    BY <1>1 DEF HistoryInv, History, Recorded, Records
  <2>5. LogsMatchPositions
    BY <2>2, <2>3, <2>4 DEF LogsMatchPositions
  <2> QED
    BY <2>1, <2>5 DEF HistoryAgrees
<1> QED
  BY <1>1, HistoryHolds, PTL

-----------------------------------------------------------------------------
(* What a row more, and a row changed, add to the sums: *)

(* to the shares that are held of a symbol,                                 *)
LEMMA HoldingSums ==
  ASSUME NEW poss \in Seq(Position), NEW s
  PROVE  /\ Holding(poss, s) \in Int
         /\ \A new \in Position :
                Holding(Append(poss, new), s)
                  = Holding(poss, s) + (IF new.symbol = s THEN new.qty ELSE 0)
         /\ \A p \in DOMAIN poss, new \in Position :
                Holding([poss EXCEPT ![p] = new], s)
                  = Holding(poss, s) - (IF poss[p].symbol = s THEN poss[p].qty ELSE 0)
                                     + (IF new.symbol = s THEN new.qty ELSE 0)
<1> DEFINE f == [p \in DOMAIN poss |-> IF poss[p].symbol = s THEN poss[p].qty ELSE 0]
<1>1. /\ Len(poss) \in Nat /\ DOMAIN poss = 1..Len(poss) /\ DOMAIN f = 1..Len(poss)
      /\ \A row \in Position : row.qty \in Int
  BY DEF Position
<1>2. \A p \in 1..Len(poss) : poss[p] \in Position /\ f[p] \in Int
  BY <1>1
<1>3. Holding(poss, s) = SumFunction(f)
  BY DEF Holding
<1>4. SumFunction(f) \in Int
  <2> HIDE DEF f
  <2> QED
    BY <1>1, <1>2, RowsInt
<1>5. ASSUME NEW new \in Position
      PROVE  Holding(Append(poss, new), s)
               = Holding(poss, s) + (IF new.symbol = s THEN new.qty ELSE 0)
  <2> DEFINE more == Append(poss, new)
             g == [p \in DOMAIN more |-> IF more[p].symbol = s THEN more[p].qty ELSE 0]
  <2>1. /\ DOMAIN more = 1..Len(poss) + 1 /\ more[Len(poss) + 1] = new
        /\ \A p \in 1..Len(poss) : more[p] = poss[p]
    BY <1>1
  <2> HIDE DEF more
  <2>2. /\ DOMAIN g = 1..Len(poss) + 1 /\ \A p \in 1..Len(poss) : g[p] = f[p]
        /\ g[Len(poss) + 1] = IF new.symbol = s THEN new.qty ELSE 0
        /\ g[Len(poss) + 1] \in Int
    BY <1>1, <2>1
  <2>3. Holding(more, s) = SumFunction(g)
    BY DEF Holding
  <2> HIDE DEF f, g
  <2>4. SumFunction(g) = SumFunction(f) + g[Len(poss) + 1]
    BY <1>1, <1>2, <2>2, RowAdded
  <2> QED
    BY <1>3, <2>2, <2>3, <2>4 DEF more
<1>6. ASSUME NEW p \in DOMAIN poss, NEW new \in Position
      PROVE  Holding([poss EXCEPT ![p] = new], s)
               = Holding(poss, s) - (IF poss[p].symbol = s THEN poss[p].qty ELSE 0)
                                  + (IF new.symbol = s THEN new.qty ELSE 0)
  <2> DEFINE after == [poss EXCEPT ![p] = new]
             g == [k \in DOMAIN after |-> IF after[k].symbol = s THEN after[k].qty ELSE 0]
  <2>1. /\ DOMAIN after = 1..Len(poss) /\ after[p] = new
        /\ \A k \in 1..Len(poss) : k # p => after[k] = poss[k]
    BY <1>1
  <2> HIDE DEF after
  <2>2. /\ DOMAIN g = 1..Len(poss) /\ \A k \in 1..Len(poss) : k # p => g[k] = f[k]
        /\ g[p] = IF new.symbol = s THEN new.qty ELSE 0
        /\ f[p] = IF poss[p].symbol = s THEN poss[p].qty ELSE 0
        /\ g[p] \in Int
    BY <1>1, <2>1
  <2>3. Holding(after, s) = SumFunction(g)
    BY DEF Holding
  <2> HIDE DEF f, g
  <2>4. SumFunction(g) = SumFunction(f) - f[p] + g[p]
    <3>1. /\ p \in 1..Len(poss) /\ DOMAIN f = 1..Len(poss) /\ DOMAIN g = 1..Len(poss)
          /\ \A k \in 1..Len(poss) : f[k] \in Int /\ (k # p => g[k] = f[k])
          /\ g[p] \in Int /\ Len(poss) \in Nat
      BY <1>1, <1>2, <2>2
    <3> QED
      BY <3>1, RowChanged, SMTT(30)
  <2> QED
    BY <1>3, <2>2, <2>3, <2>4 DEF after
<1> QED
  BY <1>3, <1>4, <1>5, <1>6

(* to the shares its fills have bought and not sold,                        *)
LEMMA NetBoughtSums ==
  ASSUME NEW rows \in Seq(Fill), NEW s
  PROVE  /\ NetBought(rows, s) \in Int
         /\ \A row \in Fill :
                NetBought(Append(rows, row), s)
                  = NetBought(rows, s) + (IF row.symbol = s THEN Signed(row) ELSE 0)
<1> DEFINE f == [k \in DOMAIN rows |-> IF rows[k].symbol = s THEN Signed(rows[k]) ELSE 0]
<1>1. /\ Len(rows) \in Nat /\ DOMAIN rows = 1..Len(rows) /\ DOMAIN f = 1..Len(rows)
      /\ \A row \in Fill : Signed(row) \in Int
  BY DEF Fill, Signed
<1>2. \A k \in 1..Len(rows) : rows[k] \in Fill /\ f[k] \in Int
  BY <1>1
<1>3. NetBought(rows, s) = SumFunction(f)
  BY DEF NetBought
<1>4. SumFunction(f) \in Int
  <2> HIDE DEF f
  <2> QED
    BY <1>1, <1>2, RowsInt
<1>5. ASSUME NEW row \in Fill
      PROVE  NetBought(Append(rows, row), s)
               = NetBought(rows, s) + (IF row.symbol = s THEN Signed(row) ELSE 0)
  <2> DEFINE more == Append(rows, row)
             g == [k \in DOMAIN more |-> IF more[k].symbol = s THEN Signed(more[k]) ELSE 0]
  <2>1. /\ DOMAIN more = 1..Len(rows) + 1 /\ more[Len(rows) + 1] = row
        /\ \A k \in 1..Len(rows) : more[k] = rows[k]
    BY <1>1
  <2> HIDE DEF more
  <2>2. /\ DOMAIN g = 1..Len(rows) + 1 /\ \A k \in 1..Len(rows) : g[k] = f[k]
        /\ g[Len(rows) + 1] = IF row.symbol = s THEN Signed(row) ELSE 0
        /\ g[Len(rows) + 1] \in Int
    BY <1>1, <2>1
  <2>3. NetBought(more, s) = SumFunction(g)
    BY DEF NetBought
  <2> HIDE DEF f, g
  <2>4. SumFunction(g) = SumFunction(f) + g[Len(rows) + 1]
    BY <1>1, <1>2, <2>2, RowAdded
  <2> QED
    BY <1>3, <2>2, <2>3, <2>4 DEF more
<1> QED
  BY <1>3, <1>4, <1>5

(* to the cost of its open positions,                                       *)
LEMMA CostSums ==
  ASSUME NEW poss \in Seq(Position)
  PROVE  /\ CostOfOpen(poss) \in Int
         /\ \A new \in Position :
                CostOfOpen(Append(poss, new))
                  = CostOfOpen(poss) + (IF new.open THEN new.invested ELSE 0)
         /\ \A p \in DOMAIN poss, new \in Position :
                CostOfOpen([poss EXCEPT ![p] = new])
                  = CostOfOpen(poss) - (IF poss[p].open THEN poss[p].invested ELSE 0)
                                     + (IF new.open THEN new.invested ELSE 0)
<1> DEFINE f == [p \in DOMAIN poss |-> IF poss[p].open THEN poss[p].invested ELSE 0]
<1>1. /\ Len(poss) \in Nat /\ DOMAIN poss = 1..Len(poss) /\ DOMAIN f = 1..Len(poss)
      /\ \A row \in Position : row.invested \in Int
  BY DEF Position
<1>2. \A p \in 1..Len(poss) : poss[p] \in Position /\ f[p] \in Int
  BY <1>1
<1>3. CostOfOpen(poss) = SumFunction(f)
  BY DEF CostOfOpen
<1>4. SumFunction(f) \in Int
  <2> HIDE DEF f
  <2> QED
    BY <1>1, <1>2, RowsInt
<1>5. ASSUME NEW new \in Position
      PROVE  CostOfOpen(Append(poss, new))
               = CostOfOpen(poss) + (IF new.open THEN new.invested ELSE 0)
  <2> DEFINE more == Append(poss, new)
             g == [p \in DOMAIN more |-> IF more[p].open THEN more[p].invested ELSE 0]
  <2>1. /\ DOMAIN more = 1..Len(poss) + 1 /\ more[Len(poss) + 1] = new
        /\ \A p \in 1..Len(poss) : more[p] = poss[p]
    BY <1>1
  <2> HIDE DEF more
  <2>2. /\ DOMAIN g = 1..Len(poss) + 1 /\ \A p \in 1..Len(poss) : g[p] = f[p]
        /\ g[Len(poss) + 1] = IF new.open THEN new.invested ELSE 0
        /\ g[Len(poss) + 1] \in Int
    BY <1>1, <2>1
  <2>3. CostOfOpen(more) = SumFunction(g)
    BY DEF CostOfOpen
  <2> HIDE DEF f, g
  <2>4. SumFunction(g) = SumFunction(f) + g[Len(poss) + 1]
    BY <1>1, <1>2, <2>2, RowAdded
  <2> QED
    BY <1>3, <2>2, <2>3, <2>4 DEF more
<1>6. ASSUME NEW p \in DOMAIN poss, NEW new \in Position
      PROVE  CostOfOpen([poss EXCEPT ![p] = new])
               = CostOfOpen(poss) - (IF poss[p].open THEN poss[p].invested ELSE 0)
                                  + (IF new.open THEN new.invested ELSE 0)
  <2> DEFINE after == [poss EXCEPT ![p] = new]
             g == [k \in DOMAIN after |-> IF after[k].open THEN after[k].invested ELSE 0]
  <2>1. /\ DOMAIN after = 1..Len(poss) /\ after[p] = new
        /\ \A k \in 1..Len(poss) : k # p => after[k] = poss[k]
    BY <1>1
  <2> HIDE DEF after
  <2>2. /\ DOMAIN g = 1..Len(poss) /\ \A k \in 1..Len(poss) : k # p => g[k] = f[k]
        /\ g[p] = IF new.open THEN new.invested ELSE 0
        /\ f[p] = IF poss[p].open THEN poss[p].invested ELSE 0
        /\ g[p] \in Int
    BY <1>1, <2>1
  <2>3. CostOfOpen(after) = SumFunction(g)
    BY DEF CostOfOpen
  <2> HIDE DEF f, g
  <2>4. SumFunction(g) = SumFunction(f) - f[p] + g[p]
    <3>1. /\ p \in 1..Len(poss) /\ DOMAIN f = 1..Len(poss) /\ DOMAIN g = 1..Len(poss)
          /\ \A k \in 1..Len(poss) : f[k] \in Int /\ (k # p => g[k] = f[k])
          /\ g[p] \in Int /\ Len(poss) \in Nat
      BY <1>1, <1>2, <2>2
    <3> QED
      BY <3>1, RowChanged, SMTT(30)
  <2> QED
    BY <1>3, <2>2, <2>3, <2>4 DEF after
<1> QED
  BY <1>3, <1>4, <1>5, <1>6

(* and to the results booked so far.                                        *)
LEMMA NetResultSums ==
  ASSUME NEW rows \in Seq(TradeLog)
  PROVE  /\ NetResult(rows) \in Int
         /\ \A new \in TradeLog :
                NetResult(Append(rows, new)) = NetResult(rows) + new.net
         /\ \A l \in DOMAIN rows, new \in TradeLog :
                NetResult([rows EXCEPT ![l] = new]) = NetResult(rows) - rows[l].net + new.net
<1> DEFINE f == [l \in DOMAIN rows |-> rows[l].net]
<1>1. /\ Len(rows) \in Nat /\ DOMAIN rows = 1..Len(rows) /\ DOMAIN f = 1..Len(rows)
      /\ \A row \in TradeLog : row.net \in Int
  BY DEF TradeLog
<1>2. \A l \in 1..Len(rows) : rows[l] \in TradeLog /\ f[l] \in Int
  BY <1>1
<1>3. NetResult(rows) = SumFunction(f)
  BY DEF NetResult
<1>4. SumFunction(f) \in Int
  <2> HIDE DEF f
  <2> QED
    BY <1>1, <1>2, RowsInt
<1>5. ASSUME NEW new \in TradeLog
      PROVE  NetResult(Append(rows, new)) = NetResult(rows) + new.net
  <2> DEFINE more == Append(rows, new)
             g == [l \in DOMAIN more |-> more[l].net]
  <2>1. /\ DOMAIN more = 1..Len(rows) + 1 /\ more[Len(rows) + 1] = new
        /\ \A l \in 1..Len(rows) : more[l] = rows[l]
    BY <1>1
  <2> HIDE DEF more
  <2>2. /\ DOMAIN g = 1..Len(rows) + 1 /\ \A l \in 1..Len(rows) : g[l] = f[l]
        /\ g[Len(rows) + 1] = new.net /\ g[Len(rows) + 1] \in Int
    BY <1>1, <2>1
  <2>3. NetResult(more) = SumFunction(g)
    BY DEF NetResult
  <2> HIDE DEF f, g
  <2>4. SumFunction(g) = SumFunction(f) + g[Len(rows) + 1]
    BY <1>1, <1>2, <2>2, RowAdded
  <2> QED
    BY <1>3, <2>2, <2>3, <2>4 DEF more
<1>6. ASSUME NEW l \in DOMAIN rows, NEW new \in TradeLog
      PROVE  NetResult([rows EXCEPT ![l] = new]) = NetResult(rows) - rows[l].net + new.net
  <2> DEFINE after == [rows EXCEPT ![l] = new]
             g == [k \in DOMAIN after |-> after[k].net]
  <2>1. /\ DOMAIN after = 1..Len(rows) /\ after[l] = new
        /\ \A k \in 1..Len(rows) : k # l => after[k] = rows[k]
    BY <1>1
  <2> HIDE DEF after
  <2>2. /\ DOMAIN g = 1..Len(rows) /\ \A k \in 1..Len(rows) : k # l => g[k] = f[k]
        /\ g[l] = new.net /\ f[l] = rows[l].net /\ g[l] \in Int
    BY <1>1, <2>1
  <2>3. NetResult(after) = SumFunction(g)
    BY DEF NetResult
  <2> HIDE DEF f, g
  <2>4. SumFunction(g) = SumFunction(f) - f[l] + g[l]
    <3>1. /\ l \in 1..Len(rows) /\ DOMAIN f = 1..Len(rows) /\ DOMAIN g = 1..Len(rows)
          /\ \A k \in 1..Len(rows) : f[k] \in Int /\ (k # l => g[k] = f[k])
          /\ g[l] \in Int /\ Len(rows) \in Nat
      BY <1>1, <1>2, <2>2
    <3> QED
      BY <3>1, RowChanged, SMTT(30)
  <2> QED
    BY <1>3, <2>2, <2>3, <2>4 DEF after
<1> QED
  BY <1>3, <1>4, <1>5, <1>6

-----------------------------------------------------------------------------
(* Shares. *)

(* The shares of each symbol in a table of positions are those its fills    *)
(* delivered.                                                               *)
Conserved(poss, rows) == \A s \in Symbols : Holding(poss, s) = NetBought(rows, s)

(* The inductive invariant of the shares.                                   *)
SharesInv == Conserved(positions, fills) /\ Conserved(committed.positions, committed.fills)

(* What a fill row adds to the shares of a symbol.                          *)
LEMMA FillShares ==
  ASSUME TypeOK, NEW side \in {"BUY", "SELL"}, NEW s \in Symbols, NEW q \in Nat,
         FillAdded(side, s, q), NEW t \in Symbols
  PROVE  /\ NetBought(fills, t) \in Int
         /\ NetBought(fills', t)
              = NetBought(fills, t)
                + (IF s = t THEN (IF side = "BUY" THEN q ELSE -q) ELSE 0)
<1>1. fills \in Seq(Fill)
  BY DEF TypeOK
<1>2. PICK row \in Fill : /\ fills' = Append(fills, row)
                          /\ row.side = side /\ row.symbol = s /\ row.qty = q
  BY DEF FillAdded
<1>3. Signed(row) = IF side = "BUY" THEN q ELSE -q
  BY <1>2 DEF Signed
<1> QED
  BY <1>1, <1>2, <1>3, NetBoughtSums

(* What a change of a position adds to the shares of a symbol.              *)
LEMMA PositionShares ==
  ASSUME TypeOK, NEW p \in DOMAIN positions, NEW new \in Position,
         positions' = [positions EXCEPT ![p] = new], new.symbol = positions[p].symbol,
         NEW t
  PROVE  /\ positions[p].qty \in Nat
         /\ Holding(positions, t) \in Int
         /\ Holding(positions', t)
              = Holding(positions, t)
                + (IF new.symbol = t THEN new.qty - positions[p].qty ELSE 0)
<1>1. positions \in Seq(Position) /\ positions[p] \in Position
  BY DEF TypeOK
<1>2. positions[p].qty \in Nat /\ new.qty \in Nat
  BY <1>1 DEF Position
<1>3. /\ Holding(positions, t) \in Int
      /\ Holding([positions EXCEPT ![p] = new], t)
           = Holding(positions, t) - (IF positions[p].symbol = t THEN positions[p].qty ELSE 0)
                                   + (IF new.symbol = t THEN new.qty ELSE 0)
  <2>1. /\ Holding(positions, t) \in Int
        /\ \A k \in DOMAIN positions, row \in Position :
              Holding([positions EXCEPT ![k] = row], t)
                = Holding(positions, t)
                  - (IF positions[k].symbol = t THEN positions[k].qty ELSE 0)
                  + (IF row.symbol = t THEN row.qty ELSE 0)
    BY <1>1, HoldingSums
  <2> QED
    BY <2>1
<1> QED
  BY <1>2, <1>3

(* No step breaks the conservation of shares.                               *)
LEMMA StepShares ==
  ASSUME TypeOK, AimInv, HistoryInv, SharesInv, [Next]_vars
  PROVE  SharesInv'
<1>1. positions \in Seq(Position) /\ visible \in Nat /\ visible <= Len(positions)
  BY DEF TypeOK, HistoryInv
<1>2. CASE TradesKept \/ TradesRestored \/ TradesSaved
  BY <1>2 DEF TradesKept, TradesRestored, TradesSaved, trades, savedTrades, SharesInv
<1>3. ASSUME UNCHANGED <<committed.positions, committed.fills>>,
             \A t \in Symbols : Holding(positions', t) = NetBought(fills', t)
      PROVE  SharesInv'
  BY <1>3 DEF SharesInv, Conserved
<1>4. \A t \in Symbols : Holding(positions, t) = NetBought(fills, t)
  BY DEF SharesInv, Conserved
<1>5. CASE Marked
  <2>1. PICK p \in DOMAIN positions, new \in Position :
          /\ positions' = [positions EXCEPT ![p] = new]
          /\ new.symbol = positions[p].symbol /\ new.qty = positions[p].qty
    BY <1>5 DEF Marked
  <2>2. ASSUME NEW t \in Symbols
        PROVE  Holding(positions', t) = Holding(positions, t)
    <3>1. /\ positions[p].qty \in Nat /\ Holding(positions, t) \in Int
          /\ Holding(positions', t)
               = Holding(positions, t)
                 + (IF new.symbol = t THEN new.qty - positions[p].qty ELSE 0)
      <4>1. positions' = [positions EXCEPT ![p] = new] /\ new.symbol = positions[p].symbol
        BY <2>1
      <4> QED
        BY <4>1, PositionShares, ZenonT(40)
    <3> QED
      BY <2>1, <3>1
  <2> QED
    BY <1>3, <1>4, <1>5, <2>2 DEF Marked, savedTrades
<1>6. CASE Bought
  <2>1. PICK s \in Symbols, q \in Nat, n \in Nat :
          FillAdded("BUY", s, q) /\ PositionBought(s, q, n)
    BY <1>6 DEF Bought
  <2>2. ASSUME NEW t \in Symbols
        PROVE  Holding(positions', t) = Holding(positions, t) + (IF s = t THEN q ELSE 0)
    <3>1. Holding(positions, t) \in Int
      BY <1>1, HoldingSums
    <3>2. CASE \E new \in Position :
                  positions' = Append(positions, new) /\ new.symbol = s /\ new.qty = q
      BY <1>1, <3>2, HoldingSums
    <3>3. ASSUME NEW p \in Opened(positions, visible, s), NEW new \in Position,
                 positions' = [positions EXCEPT ![p] = new], new.symbol = s,
                 new.qty = positions[p].qty + q
          PROVE  Holding(positions', t) = Holding(positions, t) + (IF s = t THEN q ELSE 0)
      <4>1. p \in DOMAIN positions /\ positions[p].symbol = s /\ positions[p] \in Position
        BY <1>1 DEF Opened
      <4>2. /\ positions[p].qty \in Nat
            /\ Holding(positions', t)
                 = Holding(positions, t)
                   + (IF new.symbol = t THEN new.qty - positions[p].qty ELSE 0)
        BY <3>3, <4>1, PositionShares, ZenonT(40)
      <4> QED
        BY <3>3, <4>2
    <3> QED
      BY <2>1, <3>2, <3>3 DEF PositionBought
  <2>3. \A t \in Symbols : Holding(positions', t) = NetBought(fills', t)
    BY <1>4, <2>1, <2>2, FillShares
  <2>4. UNCHANGED committed
    BY <1>6 DEF Bought
  <2> QED
    BY <1>3, <2>3, <2>4
<1>7. CASE Sold
  <2>1. PICK s \in Symbols, p \in DOMAIN positions, q \in Nat, cost \in Nat :
          FillAdded("SELL", s, q) /\ PositionSold(s, p, q, cost) /\ UNCHANGED committed
    BY <1>7 DEF Sold
  <2>2. PICK new \in Position :
          /\ positions' = [positions EXCEPT ![p] = new]
          /\ new.symbol = s /\ new.qty = positions[p].qty - q
    BY <2>1 DEF PositionSold
  <2>3. positions[p].symbol = s /\ positions[p] \in Position
    BY <1>1, <2>1 DEF PositionSold, Opened
  <2>4. ASSUME NEW t \in Symbols
        PROVE  Holding(positions', t) = Holding(positions, t) + (IF s = t THEN -q ELSE 0)
    <3>1. /\ positions[p].qty \in Nat
          /\ Holding(positions', t)
               = Holding(positions, t)
                 + (IF new.symbol = t THEN new.qty - positions[p].qty ELSE 0)
      BY <2>2, <2>3, PositionShares
    <3> QED
      BY <2>2, <3>1
  <2>5. \A t \in Symbols : Holding(positions', t) = NetBought(fills', t)
    BY <1>4, <2>1, <2>4, FillShares
  <2> QED
    BY <1>3, <2>1, <2>5
<1>8. visible <= Len(positions) /\ Len(logs) = Len(positions)
  BY DEF HistoryInv, History
<1> QED
  BY <1>2, <1>5, <1>6, <1>7, <1>8, TradeStep

(* The shares of a symbol held in positions are exactly the shares that its *)
(* fills delivered: duplicate positions, trims and scale-ins lose none.     *)
THEOREM SharesAreConserved == Spec => []SharesConserved
<1>1. ASSUME Init PROVE SharesInv
  <2>1. /\ positions = <<>> /\ fills = <<>>
        /\ committed.positions = positions /\ committed.fills = fills
    BY <1>1 DEF Init, Working
  <2>2. \A s : Holding(<<>>, s) = 0 /\ NetBought(<<>>, s) = 0
    BY NoRows DEF Holding, NetBought
  <2> QED
    BY <2>1, <2>2 DEF SharesInv, Conserved
<1>2. TypeOK /\ AimInv /\ HistoryInv /\ SharesInv /\ [Next]_vars => SharesInv'
  BY StepShares
<1>3. SharesInv => SharesConserved
  BY DEF SharesInv, Conserved, SharesConserved
<1> QED
  BY <1>1, <1>2, <1>3, HistoryHolds, PTL DEF Spec

-----------------------------------------------------------------------------
(* Books. *)

(* Cash and the cost of the open positions are the capital and the realized *)
(* profit, which is the result of the trade logs.                           *)
Closing(money, profit, poss, rows) ==
    /\ money + CostOfOpen(poss) = InitialCash + profit
    /\ profit = NetResult(rows)

(* The inductive invariant of the money.                                    *)
BooksInv ==
    /\ Closing(cash, realized, positions, logs)
    /\ Closing(committed.cash, committed.realized, committed.positions, committed.logs)

(* What a change of an open position adds to the cost of the open ones.     *)
LEMMA PositionCost ==
  ASSUME TypeOK, NEW p \in DOMAIN positions, NEW new \in Position,
         positions' = [positions EXCEPT ![p] = new], new.open = positions[p].open
  PROVE  /\ positions[p].invested \in Nat /\ CostOfOpen(positions) \in Int
         /\ CostOfOpen(positions')
              = CostOfOpen(positions)
                + (IF new.open THEN new.invested - positions[p].invested ELSE 0)
<1>1. positions \in Seq(Position) /\ positions[p] \in Position
  BY DEF TypeOK
<1>2. positions[p].invested \in Nat /\ new.invested \in Nat
  BY <1>1 DEF Position
<1>3. /\ CostOfOpen(positions) \in Int
      /\ CostOfOpen([positions EXCEPT ![p] = new])
           = CostOfOpen(positions) - (IF positions[p].open THEN positions[p].invested ELSE 0)
                                   + (IF new.open THEN new.invested ELSE 0)
  BY <1>1, CostSums
<1> QED
  BY <1>2, <1>3

(* A purchase moves its price from cash to the cost of a position.          *)
LEMMA PurchaseCost ==
  ASSUME TypeOK, visible <= Len(positions), NEW s, NEW q \in Nat, NEW n \in Nat,
         PositionBought(s, q, n)
  PROVE  /\ CostOfOpen(positions) \in Int
         /\ CostOfOpen(positions') = CostOfOpen(positions) + n
<1>1. positions \in Seq(Position) /\ visible \in Nat
  BY DEF TypeOK
<1>2. CostOfOpen(positions) \in Int
  BY <1>1, CostSums
<1>3. ASSUME NEW new \in Position, positions' = Append(positions, new), new.open,
             new.invested = n
      PROVE  CostOfOpen(positions') = CostOfOpen(positions) + n
  BY <1>1, <1>3, CostSums
<1>4. ASSUME NEW p \in Opened(positions, visible, s), NEW new \in Position,
             positions' = [positions EXCEPT ![p] = new], new.open,
             new.invested = positions[p].invested + n
      PROVE  CostOfOpen(positions') = CostOfOpen(positions) + n
  <2>1. p \in DOMAIN positions /\ positions[p].open /\ positions[p] \in Position
    BY <1>1 DEF Opened
  <2>2. new.open = positions[p].open
    BY <1>4, <2>1 DEF Position
  <2>3. /\ positions[p].invested \in Nat
        /\ CostOfOpen(positions')
             = CostOfOpen(positions)
               + (IF new.open THEN new.invested - positions[p].invested ELSE 0)
    BY <1>4, <2>1, <2>2, PositionCost
  <2> QED
    BY <1>2, <1>4, <2>3
<1> QED
  BY <1>2, <1>3, <1>4 DEF PositionBought

(* A sale takes the cost of what is sold, the last one all that is left.    *)
LEMMA SaleCost ==
  ASSUME TypeOK, visible <= Len(positions), NEW s, NEW p \in DOMAIN positions,
         NEW q \in Nat, NEW cost \in Nat, PositionSold(s, p, q, cost)
  PROVE  /\ CostOfOpen(positions) \in Int
         /\ CostOfOpen(positions') = CostOfOpen(positions) - cost
<1>1. positions \in Seq(Position) /\ visible \in Nat /\ positions[p] \in Position
  BY DEF TypeOK
<1>2. PICK new \in Position :
        /\ positions' = [positions EXCEPT ![p] = new]
        /\ new.open = (q # positions[p].qty)
        /\ new.invested = positions[p].invested - cost
  BY DEF PositionSold
<1>3. positions[p].open /\ (q = positions[p].qty => cost = positions[p].invested)
  BY <1>1 DEF PositionSold, Opened
<1>4. positions[p].invested \in Nat
  BY <1>1 DEF Position
<1>5. /\ CostOfOpen(positions) \in Int
      /\ CostOfOpen([positions EXCEPT ![p] = new])
           = CostOfOpen(positions) - (IF positions[p].open THEN positions[p].invested ELSE 0)
                                   + (IF new.open THEN new.invested ELSE 0)
  BY <1>1, CostSums
<1>6. CASE q = positions[p].qty
  <2>1. new.open = FALSE
    BY <1>2, <1>6
  <2> QED
    BY <1>2, <1>3, <1>4, <1>5, <1>6, <2>1
<1>7. CASE q # positions[p].qty
  <2>1. new.open = TRUE
    BY <1>2, <1>7
  <2> QED
    BY <1>2, <1>3, <1>4, <1>5, <2>1
<1> QED
  BY <1>6, <1>7

(* What a purchase and a sale add to the result of the logs.                *)
LEMMA PurchaseResult ==
  ASSUME TypeOK, visible <= Len(logs), NEW s, LogBought(s)
  PROVE  NetResult(logs') = NetResult(logs)
<1>1. logs \in Seq(TradeLog) /\ visible \in Nat
  BY DEF TypeOK
<1>2. NetResult(logs) \in Int
  BY <1>1, NetResultSums
<1>3. ASSUME NEW log \in TradeLog, logs' = Append(logs, log), log.net = 0
      PROVE  NetResult(logs') = NetResult(logs)
  BY <1>1, <1>2, <1>3, NetResultSums
<1>4. ASSUME NEW l \in Unclosed(logs, visible, s), NEW log \in TradeLog,
             logs' = [logs EXCEPT ![l] = log], log.net = logs[l].net
      PROVE  NetResult(logs') = NetResult(logs)
  <2>1. l \in DOMAIN logs /\ logs[l] \in TradeLog
    BY <1>1 DEF Unclosed
  <2>2. NetResult([logs EXCEPT ![l] = log]) = NetResult(logs) - logs[l].net + log.net
    BY <1>1, <2>1, NetResultSums
  <2>3. logs[l].net \in Int
    BY <2>1 DEF TradeLog
  <2> QED
    BY <1>2, <1>4, <2>2, <2>3
<1> QED
  BY <1>3, <1>4 DEF LogBought

(* The result of a sale, in terms of the cash it brings.                    *)
LEMMA SaleResult ==
  ASSUME TypeOK, NEW s, NEW l \in DOMAIN logs, NEW p, NEW q, NEW result \in Int,
         LogSold(s, l, p, q, result)
  PROVE  NetResult(logs) \in Int /\ NetResult(logs') = NetResult(logs) + result
<1>1. logs \in Seq(TradeLog) /\ logs[l] \in TradeLog
  BY DEF TypeOK
<1>2. PICK log \in TradeLog :
        logs' = [logs EXCEPT ![l] = log] /\ log.net = logs[l].net + result
  BY DEF LogSold
<1>3. /\ NetResult(logs) \in Int
      /\ NetResult([logs EXCEPT ![l] = log]) = NetResult(logs) - logs[l].net + log.net
  BY <1>1, NetResultSums
<1>4. logs[l].net \in Int
  BY <1>1 DEF TradeLog
<1> QED
  BY <1>2, <1>3, <1>4

(* No step opens the books.                                                 *)
LEMMA StepBooks ==
  ASSUME TypeOK, AimInv, HistoryInv, BooksInv, [Next]_vars
  PROVE  BooksInv'
<1>1. /\ visible <= Len(positions) /\ visible <= Len(logs) /\ Len(logs) = Len(positions)
      /\ cash \in Int /\ realized \in Int /\ InitialCash \in Int
  BY BrokerAssumption DEF HistoryInv, History, TypeOK, BrokerAssumption
<1>2. CASE TradesKept \/ TradesRestored \/ TradesSaved
  BY <1>2 DEF TradesKept, TradesRestored, TradesSaved, trades, savedTrades, BooksInv
<1>3. ASSUME UNCHANGED <<committed.cash, committed.realized, committed.positions,
                         committed.logs>>,
             Closing(cash', realized', positions', logs')
      PROVE  BooksInv'
  BY <1>3 DEF BooksInv
<1>4. cash + CostOfOpen(positions) = InitialCash + realized /\ realized = NetResult(logs)
  BY DEF BooksInv, Closing
<1>5. CASE Marked
  <2>1. PICK p \in DOMAIN positions, new \in Position :
          /\ positions' = [positions EXCEPT ![p] = new]
          /\ new.invested = positions[p].invested /\ new.open = positions[p].open
    BY <1>5 DEF Marked
  <2>2. CostOfOpen(positions') = CostOfOpen(positions)
    <3>1. /\ positions[p].invested \in Nat /\ CostOfOpen(positions) \in Int
          /\ CostOfOpen(positions')
               = CostOfOpen(positions)
                 + (IF new.open THEN new.invested - positions[p].invested ELSE 0)
      BY <2>1, PositionCost
    <3> QED
      BY <2>1, <3>1
  <2>3. UNCHANGED <<cash, realized, logs, committed.cash, committed.realized,
                    committed.positions, committed.logs>>
    BY <1>5 DEF Marked, savedTrades
  <2> QED
    BY <1>3, <1>4, <2>2, <2>3 DEF Closing
<1>6. CASE Bought
  <2>1. PICK s \in Symbols, q \in Nat, n \in Nat :
          PositionBought(s, q, n) /\ LogBought(s) /\ cash' = cash - n
    BY <1>6 DEF Bought
  <2>2. CostOfOpen(positions) \in Int /\ CostOfOpen(positions') = CostOfOpen(positions) + n
    BY <1>1, <2>1, PurchaseCost
  <2>3. NetResult(logs') = NetResult(logs)
    BY <1>1, <2>1, PurchaseResult
  <2>4. UNCHANGED <<realized, committed>>
    BY <1>6 DEF Bought
  <2>5. Closing(cash', realized', positions', logs')
    BY <1>1, <1>4, <2>1, <2>2, <2>3, <2>4 DEF Closing
  <2> QED
    BY <1>3, <2>4, <2>5
<1>7. CASE Sold
  <2>1. PICK s \in Symbols, p \in DOMAIN positions, l \in DOMAIN logs, q \in Nat, n \in Nat,
             cost \in Nat :
          /\ FillAdded("SELL", s, q)
          /\ PositionSold(s, p, q, cost)
          /\ LogSold(s, l, p, q, n - cost)
          /\ IF q # positions[p].qty THEN UNCHANGED <<closed, visible>> ELSE TradeClosed(p, l)
          /\ cash' = cash + n
          /\ realized' = realized + n - cost
          /\ UNCHANGED committed
    BY <1>7 DEF Sold
  <2>2. CostOfOpen(positions) \in Int /\ CostOfOpen(positions') = CostOfOpen(positions) - cost
    BY <1>1, <2>1, SaleCost
  <2>3. NetResult(logs) \in Int /\ NetResult(logs') = NetResult(logs) + (n - cost)
    BY <2>1, SaleResult
  <2>4. Closing(cash', realized', positions', logs')
    <3>1. cash' + CostOfOpen(positions') = InitialCash + realized'
      <4>1. cash' = cash + n /\ realized' = realized + n - cost
        BY <2>1
      <4>2. /\ cash \in Int /\ realized \in Int /\ InitialCash \in Int
            /\ CostOfOpen(positions) \in Int /\ n \in Int /\ cost \in Int
        BY <1>1, <2>2
      <4>3. cash + CostOfOpen(positions) = InitialCash + realized
        BY <1>4
      <4>4. (cash + n) + (CostOfOpen(positions) - cost) = InitialCash + (realized + n - cost)
        BY <4>2, <4>3
      <4> QED
        BY <2>2, <4>1, <4>4
    <3>2. realized' = NetResult(logs')
      BY <1>1, <1>4, <2>1, <2>3
    <3> QED
      BY <3>1, <3>2 DEF Closing
  <2> QED
    BY <1>3, <2>1, <2>4
<1> QED
  BY <1>1, <1>2, <1>5, <1>6, <1>7, TradeStep

(* The books close: cash and the cost of the open positions are the capital *)
(* and the realized profit, and that profit is what the trade logs add up   *)
(* to, whatever the rounding of partial sales does.                         *)
THEOREM BooksAlwaysClose == Spec => []BooksClose
<1>1. ASSUME Init PROVE BooksInv
  <2>1. /\ cash = InitialCash /\ realized = 0 /\ positions = <<>> /\ logs = <<>>
        /\ committed.cash = cash /\ committed.realized = realized
        /\ committed.positions = positions /\ committed.logs = logs
    BY <1>1 DEF Init, Working
  <2>2. CostOfOpen(<<>>) = 0 /\ NetResult(<<>>) = 0
    BY NoRows DEF CostOfOpen, NetResult
  <2>3. InitialCash \in Int
    BY BrokerAssumption DEF BrokerAssumption
  <2> QED
    BY <2>1, <2>2, <2>3 DEF BooksInv, Closing
<1>2. TypeOK /\ AimInv /\ HistoryInv /\ BooksInv /\ [Next]_vars => BooksInv'
  BY StepBooks
<1>3. BooksInv => BooksClose
  BY DEF BooksInv, Closing, BooksClose
<1> QED
  BY <1>1, <1>2, <1>3, HistoryHolds, PTL DEF Spec

-----------------------------------------------------------------------------
(* The trading cycle, which implements the session of the broker.           *)

Quotes == UNION {Quoted(s) : s \in Symbols}

(* What the broker requires of its caller: cached collections hold rows that *)
(* exist, and a price was quoted.                                           *)
CycleInv ==
    /\ queue \subseteq OrderIds
    /\ todo \subseteq held /\ held \subseteq DOMAIN positions
    /\ seen \subseteq Known
    /\ phase \in {"adjust", "time", "exit"} => todo # {} /\ Price \in Quotes

(* The position under review is one of those to do.                         *)
LEMMA CurrentToDo == ASSUME todo # {} PROVE Current \in todo
  BY DEF Current

(* The collection of orders, loaded or not, holds orders that exist.        *)
LEMMA CollectionKnown == ASSUME OrderInv, CycleInv PROVE Collection \subseteq Known
  BY DEF Collection, Known, OrderInv, TakenInBoth, CycleInv

-----------------------------------------------------------------------------
(* Every step is one of the broker's.                                       *)

(* In a review the position, the collections and the price are admissible.  *)
LEMMA ReviewArguments ==
  ASSUME OrderInv, CycleInv, phase \in {"adjust", "exit"}
  PROVE  /\ held \in SUBSET DOMAIN positions /\ Collection \in SUBSET Known
         /\ Current \in held /\ Price \in UNION {Quoted(s) : s \in Symbols}
  BY CurrentToDo, CollectionKnown DEF CycleInv, Quotes

LEMMA StepOfBroker ==
  ASSUME OrderInv, CycleInv, CycleNext
  PROVE  Next \/ UNCHANGED vars
<1>1. CASE StartCycle
  BY <1>1 DEF StartCycle, Session, Next
<1>2. CASE StartReview \/ TimeStop \/ StartBuys \/ StartEntries
  BY <1>2 DEF StartReview, TimeStop, StartBuys, StartEntries
<1>3. CASE ProcessNext
  <2>1. PICK o \in Oldest :
          \/ NothingLater(o) \/ RejectEntry(o)
          \/ \E i \in DOMAIN snapshots[orders[o].symbol] :
                NotFilled(o, i) \/ BuyFill(o, i) \/ SellFill(o, i) \/ Raise(o, i)
    BY <1>3 DEF ProcessNext
  <2>2. o \in OrderIds
    BY DEF Oldest, CycleInv
  <2>3. CASE NothingLater(o)
    BY <2>3 DEF NothingLater
  <2>4. CASE ~NothingLater(o)
    <3>1. Process(o)
      BY <2>1, <2>4 DEF Process
    <3> QED
      BY <2>2, <3>1 DEF Session, Next
  <2> QED
    BY <2>3, <2>4
<1>4. CASE Mark
  <2>1. todo # {} /\ Current \in DOMAIN positions
    BY <1>4, CurrentToDo DEF Mark, CycleInv
  <2> QED
    BY <1>4, <2>1 DEF Mark, Session, Next
<1>5. CASE Adjust
  <2>1. CASE SubmitScaleIn(Current, held, Collection, Price)
    <3>1. Submissions
      BY <1>5, <2>1, ReviewArguments DEF Adjust, Submissions
    <3> QED
      BY <3>1 DEF Session, Next
  <2>2. CASE SubmitExit(Current, held, Collection, CycleTrim, Price)
    <3>1. CycleTrim \in TrimPercents \cup {100}
      BY CycleAssumption DEF CycleAssumption
    <3>2. Submissions
      BY <1>5, <2>2, <3>1, ReviewArguments DEF Adjust, Submissions
    <3> QED
      BY <3>2 DEF Session, Next
  <2> QED
    BY <1>5, <2>1, <2>2 DEF Adjust
<1>6. CASE Exit
  <2>1. CASE SubmitExit(Current, held, Collection, 100, Price)
    <3>1. Submissions
      BY <1>6, <2>1, ReviewArguments DEF Exit, Submissions
    <3> QED
      BY <3>1 DEF Session, Next
  <2> QED
    BY <1>6, <2>1 DEF Exit
<1>7. CASE ReturnEarly
  BY <1>7 DEF ReturnEarly, Session, Next
<1>8. CASE Enter
  <2>1. held \in SUBSET DOMAIN positions /\ Collection \in SUBSET Known
    BY CollectionKnown DEF CycleInv
  <2>2. PICK g \in Signals : SubmitEntry(g, held, Collection)
    BY <1>8 DEF Enter
  <2>3. Submissions
    BY <2>1, <2>2 DEF Submissions
  <2> QED
    BY <2>3 DEF Session, Next
<1>9. CASE Book
  <2>1. DeepDrawdown \in BOOLEAN
    BY DEF DeepDrawdown
  <2> QED
    BY <1>9, <2>1 DEF Book, Session, Next
<1>10. CASE CrashCycle \/ Others
  BY <1>10 DEF CrashCycle, Others, Session, Next
<1> QED
  BY <1>1, <1>2, <1>3, <1>4, <1>5, <1>6, <1>7, <1>8, <1>9, <1>10 DEF CycleNext, CycleStep

-----------------------------------------------------------------------------
(* The invariant. *)

(* Prices once quoted stay quoted.                                          *)
LEMMA QuotesGrow ==
  ASSUME TypeOK, Market \/ UNCHANGED snapshots
  PROVE  Quotes \subseteq Quotes'
<1>1. CASE UNCHANGED snapshots
  BY <1>1 DEF Quotes, Quoted
<1>2. CASE Market
  <2>1. CASE UNCHANGED snapshots
    BY <2>1, <1>1
  <2>2. ASSUME NEW s \in Symbols, NEW at, NEW price, NEW step, ArriveSnapshot(s, at, price, step)
        PROVE  Quotes \subseteq Quotes'
    <3>1. PICK shot : snapshots' = [snapshots EXCEPT ![s] = Append(snapshots[s], shot)]
      BY <2>2 DEF ArriveSnapshot
    <3>2. snapshots \in [Symbols -> Seq(Snapshot)]
      BY DEF TypeOK
    <3>3. ASSUME NEW r \in Symbols, NEW i \in DOMAIN snapshots[r]
          PROVE  i \in DOMAIN snapshots'[r] /\ snapshots'[r][i] = snapshots[r][i]
      <4>1. snapshots[r] \in Seq(Snapshot)
        BY <3>2
      <4>2. CASE r = s
        <5>1. snapshots'[r] = Append(snapshots[r], shot)
          BY <3>1, <3>2, <4>2
        <5> QED
          BY <4>1, <5>1
      <4>3. CASE r # s
        BY <3>1, <3>2, <4>3
      <4> QED
        BY <4>2, <4>3
    <3> QED
      BY <3>3 DEF Quotes, Quoted
  <2> QED
    BY <1>2, <2>1, <2>2 DEF Market, Tick, PublishSignal, LapseSignal, market
<1> QED
  BY <1>1, <1>2

(* Identifiers in use stay in use, except through a rollback.               *)
LEMMA KnownGrows ==
  ASSUME TypeOK, OrderInv,
         \/ Market \/ Api \/ Submissions \/ UNCHANGED orders
         \/ \E o \in OrderIds : RejectEntry(o)
         \/ \E o \in OrderIds : \E i \in DOMAIN snapshots[orders[o].symbol] :
                NotFilled(o, i) \/ BuyFill(o, i) \/ SellFill(o, i)
  PROVE  Known \subseteq Known'
<1> SUFFICES ASSUME NEW p \in OrderIds, orders[p].status # "NONE"
             PROVE  orders'[p].status # "NONE"
  BY DEF Known
<1>1. orders \in [OrderIds -> Order]
  BY DEF TypeOK
<1>2. CASE UNCHANGED orders
  BY <1>2
<1>3. ASSUME NEW id \in NewIds, NEW order, orders' = [orders EXCEPT ![id] = order]
      PROVE  orders'[p].status # "NONE"
  BY <1>1, <1>3 DEF NewIds, FreeIds
<1>4. CASE Market
  BY <1>2, <1>4 DEF Market, Tick, ArriveSnapshot, PublishSignal, LapseSignal, tables
<1>5. CASE Api
  BY <1>2, <1>3, <1>5
     DEF Api, ApiFromSignal, ApiScaleIn, ApiExit, ApiCommit, ApiKill, Decide, tables
<1>6. CASE Submissions
  BY <1>3, <1>6, SMTT(30) DEF Submissions, SubmitEntry, SubmitScaleIn, SubmitExit, Submit
<1>7. ASSUME NEW o \in OrderIds, RejectEntry(o)
      PROVE  orders'[p].status # "NONE"
  BY <1>1, <1>7 DEF RejectEntry, Order
<1>8. ASSUME NEW o \in OrderIds, NEW i \in DOMAIN snapshots[orders[o].symbol],
             NotFilled(o, i) \/ BuyFill(o, i) \/ SellFill(o, i)
      PROVE  orders'[p].status # "NONE"
  <2>1. Considers(o, i) /\ (orders' = Evaluated(o, i)
                              \/ orders' = [orders EXCEPT ![o].cursor = At(o, i)])
    BY <1>8 DEF NotFilled, BuyFill, SellFill, Filled, RecordFill
  <2> QED
    BY <2>1, EvaluatedInOrder
<1> QED
  BY <1>2, <1>4, <1>5, <1>6, <1>7, <1>8

(* A step of an order keeps the positions there are.                        *)
LEMMA PositionsGrow ==
  ASSUME TypeOK, NEW o \in OrderIds,
         \/ NothingLater(o) \/ RejectEntry(o)
         \/ \E i \in DOMAIN snapshots[orders[o].symbol] :
                NotFilled(o, i) \/ BuyFill(o, i) \/ SellFill(o, i)
  PROVE  DOMAIN positions \subseteq DOMAIN positions'
<1>1. positions \in Seq(Position)
  BY DEF TypeOK
<1>2. ASSUME NEW i \in DOMAIN snapshots[orders[o].symbol], BuyFill(o, i)
      PROVE  DOMAIN positions \subseteq DOMAIN positions'
  <2>1. CASE positions' = Append(positions, NewPosition(o, i))
    BY <1>1, <2>1
  <2>2. ASSUME NEW p, NEW new, positions' = [positions EXCEPT ![p] = new]
        PROVE  DOMAIN positions \subseteq DOMAIN positions'
    BY <2>2
  <2> QED
    BY <1>2, <2>1, <2>2 DEF BuyFill
<1>3. ASSUME NEW i \in DOMAIN snapshots[orders[o].symbol], SellFill(o, i)
      PROVE  DOMAIN positions \subseteq DOMAIN positions'
  BY <1>3 DEF SellFill
<1> QED
  BY <1>2, <1>3 DEF NothingLater, RejectEntry, NotFilled, vars, tables

(* No step of a cycle breaks the invariant.                                 *)
LEMMA StepCycle ==
  ASSUME TypeOK, OrderInv, CycleInv, CycleNext
  PROVE  CycleInv'
<1>1. ASSUME Return
      PROVE  CycleInv'
  BY <1>1 DEF Return, CycleInv
<1>2. ASSUME phase' \notin {"adjust", "time", "exit"}, queue' \subseteq OrderIds,
             UNCHANGED positions, UNCHANGED held, todo' \subseteq todo,
             seen' \subseteq Known, Known \subseteq Known'
      PROVE  CycleInv'
  BY <1>2 DEF CycleInv
<1>3. CASE StartCycle
  <2>1. queue' \subseteq OrderIds
    BY <1>3 DEF StartCycle, PendingOf
  <2>2. UNCHANGED <<positions, orders, held, todo, seen>> /\ phase' = "sell"
    BY <1>3 DEF StartCycle, Begin, tables
  <2> QED
    BY <1>2, <2>1, <2>2, KnownGrows DEF CycleInv
<1>4. CASE StartReview
  <2>1. /\ held' = DOMAIN positions /\ todo' = OpenPositions(positions)
        /\ UNCHANGED <<positions, orders, queue, seen>> /\ phase' = "mark"
    BY <1>4 DEF StartReview, vars, tables
  <2> QED
    BY <2>1 DEF OpenPositions, CycleInv, Known
<1>5. CASE ProcessNext
  <2>1. PICK o \in Oldest :
          \/ /\ \/ NothingLater(o) \/ RejectEntry(o)
                \/ \E i \in DOMAIN snapshots[orders[o].symbol] :
                      NotFilled(o, i) \/ BuyFill(o, i) \/ SellFill(o, i)
             /\ queue' = queue \ {o}
             /\ UNCHANGED <<phase, held, seen, loaded, todo, tried>>
          \/ Return
    BY <1>5 DEF ProcessNext
  <2>2. o \in OrderIds /\ phase \in {"sell", "blocked", "buy"}
    BY <1>5 DEF Oldest, CycleInv, ProcessNext
  <2>3. CASE ~Return
    <3>1. DOMAIN positions \subseteq DOMAIN positions'
      BY <2>1, <2>2, <2>3, PositionsGrow
    <3>2. Known \subseteq Known'
      <4>1. NothingLater(o) => UNCHANGED orders
        BY DEF NothingLater, vars, tables
      <4> QED
        BY <2>1, <2>2, <2>3, <4>1, KnownGrows
    <3> QED
      BY <2>1, <2>2, <2>3, <3>1, <3>2 DEF CycleInv
  <2> QED
    BY <1>1, <2>3
<1>6. CASE Mark
  <2>1. todo # {} /\ Current \in DOMAIN positions /\ UNCHANGED <<queue, held, seen>>
    BY <1>6, CurrentToDo DEF Mark, CycleInv
  <2>2. CASE MarkPosition(Current) /\ UNCHANGED todo
    <3>1. PICK i \in LatestSnapshots(positions[Current].symbol) :
            positions' = [positions EXCEPT ![Current].current =
                              snapshots[positions[Current].symbol][i].price]
      BY <2>2 DEF MarkPosition
    <3>2. positions[Current] \in Position
      BY <2>1 DEF TypeOK
    <3>3. positions[Current].symbol \in Symbols
      BY <3>2 DEF Position
    <3>4. positions'[Current].current = snapshots[positions[Current].symbol][i].price
          /\ DOMAIN positions' = DOMAIN positions
      BY <2>1, <3>1, <3>2 DEF Position
    <3>5. i \in DOMAIN snapshots[positions[Current].symbol]
      BY DEF LatestSnapshots, Fresh
    <3>6. UNCHANGED <<orders, snapshots>>
      BY <2>2 DEF MarkPosition, market
    <3>7. Price' \in Quotes'
      <4>1. Current' = Current
        BY <2>2 DEF Current
      <4>2. Price' = snapshots[positions[Current].symbol][i].price
        BY <3>4, <4>1 DEF Price
      <4> HIDE DEF Current
      <4>3. Price' \in Quotes
        BY <3>3, <3>5, <4>2 DEF Quotes, Quoted
      <4> QED
        BY <3>6, <4>3 DEF Quotes, Quoted
    <3> QED
      BY <2>1, <2>2, <3>4, <3>6, <3>7, KnownGrows DEF CycleInv
  <2>3. CASE FinishPosition /\ UNCHANGED vars
    BY <1>2, <2>1, <2>3 DEF FinishPosition, CycleInv, vars, tables, Known
  <2> QED
    BY <1>6, <2>2, <2>3 DEF Mark
<1>7. CASE Adjust
  <2>1. UNCHANGED <<positions, snapshots, queue, held, todo>> /\ phase = "adjust"
    BY <1>7 DEF Adjust, SubmitScaleIn, SubmitExit, Submit, vars, tables, market
  <2>2. Submissions \/ UNCHANGED orders
    <3>1. CASE SubmitScaleIn(Current, held, Collection, Price)
      BY <2>1, <3>1, ReviewArguments DEF Submissions
    <3>2. CASE SubmitExit(Current, held, Collection, CycleTrim, Price)
      <4>1. CycleTrim \in TrimPercents \cup {100}
        BY CycleAssumption DEF CycleAssumption
      <4> QED
        BY <2>1, <3>2, <4>1, ReviewArguments DEF Submissions
    <3> QED
      BY <1>7, <3>1, <3>2 DEF Adjust, vars, tables
  <2>3. Known \subseteq Known' /\ seen' \subseteq Known
    BY <1>7, <2>2, KnownGrows, CollectionKnown DEF Adjust, ReadCollection, CycleInv
  <2>4. Price' = Price /\ Quotes' = Quotes
    BY <2>1 DEF Price, Current, Quotes, Quoted
  <2> QED
    BY <2>1, <2>3, <2>4 DEF CycleInv
<1>8. CASE TimeStop
  <2>1. UNCHANGED <<positions, snapshots, orders, queue, held, seen>> /\ phase = "time"
    BY <1>8 DEF TimeStop, vars, tables, market
  <2>2. CASE UNCHANGED todo
    BY <2>1, <2>2 DEF CycleInv, Price, Current, Quotes, Quoted, Known
  <2>3. CASE FinishPosition
    BY <1>2, <2>1, <2>3 DEF FinishPosition, CycleInv, Known
  <2> QED
    BY <1>8, <2>2, <2>3 DEF TimeStop
<1>9. CASE Exit
  <2>1. UNCHANGED <<positions, queue, held>> /\ phase = "exit" /\ FinishPosition
    BY <1>9 DEF Exit, SubmitExit, Submit, vars, tables
  <2>2. Submissions \/ UNCHANGED orders
    <3>1. CASE SubmitExit(Current, held, Collection, 100, Price)
      BY <2>1, <3>1, ReviewArguments DEF Submissions
    <3> QED
      BY <1>9, <3>1 DEF Exit, vars, tables
  <2>3. Known \subseteq Known' /\ seen' \subseteq Known
    BY <1>9, <2>2, KnownGrows, CollectionKnown DEF Exit, ReadCollection
  <2> QED
    BY <1>2, <2>1, <2>3 DEF FinishPosition, CycleInv
<1>10. CASE StartBuys \/ StartEntries
  <2>1. /\ UNCHANGED <<positions, orders, held, seen, todo>>
        /\ phase' \in {"blocked", "buy", "enter"} /\ queue' \subseteq OrderIds
    BY <1>10 DEF StartBuys, StartEntries, PendingOf, CycleInv, vars, tables
  <2> QED
    BY <1>2, <2>1 DEF CycleInv, Known
<1>11. CASE Enter
  <2>1. PICK g \in Signals : SubmitEntry(g, held, Collection)
    BY <1>11 DEF Enter
  <2>2. /\ UNCHANGED <<positions, queue, held, todo>> /\ phase' = "enter"
        /\ seen' = Collection
    BY <1>11, <2>1 DEF Enter, ReadCollection, SubmitEntry, Submit
  <2>3. Submissions
    BY <2>1, CollectionKnown DEF CycleInv, Submissions
  <2> QED
    BY <1>2, <2>2, <2>3, KnownGrows, CollectionKnown DEF CycleInv
<1>12. CASE Others
  <2>1. UNCHANGED <<positions, phase, queue, held, seen, todo>>
    BY <1>12 DEF Others, cycle, Market, Tick, ArriveSnapshot, PublishSignal, LapseSignal,
       Api, ApiFromSignal, ApiScaleIn, ApiExit, ApiCommit, ApiKill, Decide, tables
  <2>2. Quotes \subseteq Quotes'
    <3>1. Api => UNCHANGED snapshots
      BY DEF Api, ApiFromSignal, ApiScaleIn, ApiExit, ApiCommit, ApiKill, Decide, market
    <3> QED
      BY <1>12, <3>1, QuotesGrow DEF Others
  <2>3. Known \subseteq Known'
    BY <1>12, KnownGrows DEF Others
  <2>4. Price' = Price
    BY <2>1 DEF Price, Current
  <2> QED
    BY <2>1, <2>2, <2>3, <2>4 DEF CycleInv
<1>13. CASE ReturnEarly \/ Book \/ CrashCycle
  BY <1>1, <1>13 DEF ReturnEarly, Book, CrashCycle
<1> QED
  BY <1>3, <1>4, <1>5, <1>6, <1>7, <1>8, <1>9, <1>10, <1>11, <1>12, <1>13
     DEF CycleNext, CycleStep

(* Every reachable state of the cycle is one in which its next step is the  *)
(* broker's.                                                                *)
LEMMA CycleHolds == CycleSpec => [](TypeOK /\ OrderInv /\ CycleInv)
<1>1. CycleInit => TypeOK /\ OrderInv /\ CycleInv
  <2> SUFFICES ASSUME CycleInit PROVE TypeOK /\ OrderInv /\ CycleInv
    OBVIOUS
  <2>1. OrderInv
    BY InitType DEF CycleInit, Init, OrderInv, InOrder, TakenInBoth, Working, NoOrder
  <2> QED
    BY <2>1, InitType DEF CycleInit, CycleInv
<1>2. TypeOK /\ OrderInv /\ CycleInv /\ [CycleNext]_cycleVars => (TypeOK /\ OrderInv /\ CycleInv)'
  <2> SUFFICES ASSUME TypeOK, OrderInv, CycleInv, [CycleNext]_cycleVars
               PROVE  TypeOK' /\ OrderInv' /\ CycleInv'
    OBVIOUS
  <2>1. CASE CycleNext
    BY <2>1, StepOfBroker, StepType, StepInOrder, StepCycle
  <2>2. CASE UNCHANGED cycleVars
    <3>1. UNCHANGED vars
      BY <2>2 DEF cycleVars
    <3>2. CycleInv'
      BY <2>2 DEF cycleVars, vars, tables, market, cycle, CycleInv, Price, Current, Quotes,
         Quoted, Known
    <3> QED
      BY <3>1, <3>2, StepType, StepInOrder
  <2> QED
    BY <2>1, <2>2
<1> QED
  BY <1>1, <1>2, PTL DEF CycleSpec

(* Every step of a cycle is one the broker's interface allows, for every    *)
(* number of orders, symbols, signals and clients.                          *)
THEOREM CycleImplementsBroker == CycleSpec => CycleUsesBroker
<1>1. TypeOK /\ OrderInv /\ CycleInv /\ [CycleNext]_cycleVars => [Next]_vars
  BY StepOfBroker DEF cycleVars
<1> QED
  BY <1>1, CycleHolds, PTL DEF CycleSpec, CycleUsesBroker

(* So the cycle inherits what is proved of the broker: its tables are typed, *)
(* its cash ledger balances, fills follow their orders and add up to them,   *)
(* under the kill switch it buys nothing, its trades, shares and books agree, *)
(* and what it commits is an account and a set of orders that progress.      *)
THEOREM CycleIsSafe ==
  CycleSpec => /\ [](TypeOK /\ RunningBalance /\ KillStopsBuying /\ FillsAreLaterSnapshots)
               /\ [](FilledQuantityAgrees /\ HistoryAgrees /\ SharesConserved /\ BooksClose)
               /\ CashIsAnAccount /\ OrdersFollowLifecycle
<1>1. CycleInit => Init
  BY DEF CycleInit
<1>2. CycleSpec => Spec
  BY <1>1, CycleImplementsBroker, PTL DEF CycleSpec, Spec, CycleUsesBroker
<1>3. Spec => [](TypeOK /\ RunningBalance /\ KillStopsBuying /\ FillsAreLaterSnapshots)
  BY TypeCorrect, LedgerBalances, KillSwitchHolds, FillsFollowOrders, PTL
<1>4. Spec => [](FilledQuantityAgrees /\ HistoryAgrees /\ SharesConserved /\ BooksClose)
  BY FilledIsDelivered, TradesAgree, SharesAreConserved, BooksAlwaysClose, PTL
<1>5. Spec => CashIsAnAccount /\ OrdersFollowLifecycle
  BY ImplementsAccount, ImplementsLifecycle
<1> QED
  BY <1>2, <1>3, <1>4, <1>5, PTL

-----------------------------------------------------------------------------
(* Types.                                                                   *)

ShapeOK ==
    /\ phase \in Phases /\ loaded \in BOOLEAN /\ tried \subseteq Symbols
    /\ phase = "idle" <=> session = "idle"

(* The program counter and the transaction of the session go together.      *)
LEMMA StepShape ==
  ASSUME ShapeOK, [CycleNext]_cycleVars
  PROVE  ShapeOK'
<1>1. ASSUME Return, session' = "idle"
      PROVE  ShapeOK'
  BY <1>1 DEF Return, ShapeOK, Phases
<1>2. CASE StartCycle
  BY <1>2 DEF StartCycle, Begin, ShapeOK, Phases
<1>3. CASE StartReview \/ TimeStop \/ StartBuys \/ StartEntries
  BY <1>3 DEF StartReview, TimeStop, StartBuys, StartEntries, FinishPosition, ReviewDone,
     vars, ShapeOK, Phases
<1>4. CASE Mark
  <2>1. phase = "mark" /\ phase' \in {"adjust", "exit", "mark"} /\ UNCHANGED <<loaded, tried>>
    BY <1>4 DEF Mark, FinishPosition
  <2>2. UNCHANGED session
    BY <1>4 DEF Mark, MarkPosition, vars
  <2> QED
    BY <2>1, <2>2 DEF ShapeOK, Phases
<1>5. CASE Adjust
  <2>1. phase = "adjust" /\ phase' = "time" /\ UNCHANGED tried /\ loaded' \in {loaded, TRUE}
    BY <1>5 DEF Adjust, ReadCollection
  <2>2. UNCHANGED session
    BY <1>5 DEF Adjust, SubmitScaleIn, SubmitExit, Submit, vars
  <2> QED
    BY <2>1, <2>2 DEF ShapeOK, Phases
<1>6. CASE Exit
  <2>1. phase = "exit" /\ phase' = "mark" /\ UNCHANGED tried /\ loaded' = TRUE
    BY <1>6 DEF Exit, ReadCollection, FinishPosition
  <2>2. UNCHANGED session
    BY <1>6 DEF Exit, SubmitExit, Submit, vars
  <2> QED
    BY <2>1, <2>2 DEF ShapeOK, Phases
<1>7. CASE Enter
  <2>1. phase = "enter" /\ UNCHANGED phase /\ loaded' = TRUE
    BY <1>7 DEF Enter, ReadCollection
  <2>2. tried' \subseteq Symbols
    BY <1>7, BrokerAssumption DEF Enter, BrokerAssumption, ShapeOK
  <2>3. UNCHANGED session
    BY <1>7 DEF Enter, SubmitEntry, Submit
  <2> QED
    BY <2>1, <2>2, <2>3 DEF ShapeOK, Phases
<1>8. CASE ProcessNext
  <2>1. CASE Return
    <3>1. session' = "idle"
      BY <1>8, <2>1 DEF ProcessNext, Raise, Rollback, Return
    <3> QED
      BY <1>1, <2>1, <3>1
  <2>2. CASE UNCHANGED <<phase, held, seen, loaded, todo, tried>>
    <3>1. UNCHANGED session
      BY <1>8, <2>2 DEF ProcessNext, NothingLater, RejectEntry, NotFilled, BuyFill, SellFill, Return, vars
    <3> QED
      BY <2>2, <3>1 DEF ShapeOK
  <2> QED
    BY <1>8, <2>1, <2>2 DEF ProcessNext
<1>9. CASE ReturnEarly \/ Book \/ CrashCycle
  BY <1>1, <1>9 DEF ReturnEarly, Book, CrashCycle, Commit, Crash, Rollback
<1>10. CASE Others
  BY <1>10, ZenonT(40) DEF Others, Market, Tick, ArriveSnapshot, PublishSignal, LapseSignal, Api,
     ApiFromSignal, ApiScaleIn, ApiExit, ApiCommit, ApiKill, Decide, cycle, ShapeOK
<1>11. CASE UNCHANGED cycleVars
  BY <1>11 DEF cycleVars, vars, cycle, ShapeOK
<1> QED
  BY <1>2, <1>3, <1>4, <1>5, <1>6, <1>7, <1>8, <1>9, <1>10, <1>11 DEF CycleNext, CycleStep

(* What a cycle has cached exists in the tables, and a transaction is open  *)
(* exactly while a cycle runs, however the one before it ended.             *)
THEOREM CycleTypeCorrect == CycleSpec => []CycleTypeOK
<1>1. CycleInit => ShapeOK
  BY DEF CycleInit, Init, ShapeOK, Phases
<1>2. ShapeOK /\ [CycleNext]_cycleVars => ShapeOK'
  BY StepShape
<1>3. TypeOK /\ OrderInv /\ CycleInv /\ ShapeOK => CycleTypeOK
  BY DEF CycleInv, ShapeOK, CycleTypeOK, Known
<1> QED
  BY <1>1, <1>2, <1>3, CycleHolds, PTL DEF CycleSpec

-----------------------------------------------------------------------------
(* Equity.                                                                  *)

(* The value of some of the positions is at most the value of all.          *)
LEMMA ValueGrows ==
  ASSUME NEW poss \in Seq(Position), NEW some \in SUBSET DOMAIN poss
  PROVE  /\ PositionsValue(poss, some) \in Nat
         /\ PositionsValue(poss, DOMAIN poss) \in Nat
         /\ PositionsValue(poss, some) <= PositionsValue(poss, DOMAIN poss)
<1> DEFINE f == [p \in DOMAIN poss |-> Value(poss[p].qty, poss[p].current)]
           Open(ps) == {p \in ps : poss[p].open}
<1>1. DOMAIN poss = 1..Len(poss) /\ Len(poss) \in Nat /\ \A p \in DOMAIN poss : poss[p] \in Position
  OBVIOUS
<1>2. IsFiniteSet(Open(DOMAIN poss))
  <2>1. IsFiniteSet(DOMAIN poss)
    BY <1>1, FS_Interval
  <2> QED
    BY <2>1, FS_Subset
<1>3. \A p \in DOMAIN poss : f[p] \in Nat
  <2> SUFFICES ASSUME NEW p \in DOMAIN poss PROVE f[p] \in Nat
    OBVIOUS
  <2>1. poss[p].qty \in Nat /\ poss[p].current \in Nat
    BY <1>1 DEF Position
  <2> QED
    BY <2>1, ExecutionAssumption DEF Value, ExecutionAssumption
<1> DEFINE all == Open(DOMAIN poss)
           part == Open(some)
<1>4. all \subseteq DOMAIN poss /\ part \subseteq all /\ all \ part \subseteq all
  OBVIOUS
<1>5. PositionsValue(poss, some) = SumFunctionOnSet(f, part)
      /\ PositionsValue(poss, DOMAIN poss) = SumFunctionOnSet(f, all)
  BY DEF PositionsValue
<1>6. IsFiniteSet(all) /\ IsFiniteSet(part) /\ IsFiniteSet(all \ part)
  BY <1>2, <1>4, FS_Subset
<1> HIDE DEF f, all, part
<1>7. \A x \in all : f[x] \in Nat /\ f[x] \in Int
  BY <1>3, <1>4
<1>8. SumFunctionOnSet(f, all) = SumFunctionOnSet(f, part) + SumFunctionOnSet(f, all \ part)
  BY <1>4, <1>6, <1>7, SumSplit
<1>9. /\ SumFunctionOnSet(f, all) \in Nat
      /\ SumFunctionOnSet(f, part) \in Nat
      /\ SumFunctionOnSet(f, all \ part) \in Nat
  BY <1>4, <1>6, <1>7, SumNat
<1> QED
  BY <1>5, <1>8, <1>9

(* The equity that a cycle books counts positions that exist, so it is at   *)
(* most what the database holds after it; whatever the collection has       *)
(* missed, it only misses value.                                            *)
THEOREM EquityIsThere == CycleSpec => EquityNotOverstated
<1> DEFINE Worth == committed'.cash + PositionsValue(committed'.positions, DOMAIN committed'.positions)
<1>1. ASSUME TypeOK, CycleInv, [CycleNext]_cycleVars
      PROVE  [nav' # nav => nav' <= Worth]_cycleVars
  <2>1. CASE Book
    <3>1. nav' = cash + PositionsValue(positions, held)
      BY <2>1 DEF Book, TotalEquity
    <3>2. committed'.cash = cash /\ committed'.positions = positions
      BY <2>1 DEF Book, Commit, Working
    <3>3. positions \in Seq(Position) /\ cash \in Nat /\ held \in SUBSET DOMAIN positions
      BY <1>1 DEF TypeOK, CycleInv
    <3>4. /\ PositionsValue(positions, held) \in Nat
          /\ PositionsValue(positions, DOMAIN positions) \in Nat
          /\ PositionsValue(positions, held) <= PositionsValue(positions, DOMAIN positions)
      BY <3>3, ValueGrows
    <3>5. nav' <= Worth
      <4> DEFINE x == PositionsValue(positions, held)
                 y == PositionsValue(positions, DOMAIN positions)
      <4>1. Worth = cash + y /\ nav' = cash + x /\ x \in Nat /\ y \in Nat /\ x <= y
        BY <3>1, <3>2, <3>4
      <4> HIDE DEF x, y, Worth
      <4> QED
        BY <3>3, <4>1
    <3> QED
      BY <3>5
  <2>2. CASE ~Book
    <3>1. nav' = nav
      BY <1>1, <2>2 DEF CycleNext, CycleStep, Others, StartCycle, StartReview, ProcessNext, Mark,
         Adjust, TimeStop, Exit, StartBuys, ReturnEarly, StartEntries, Enter, CrashCycle, equity,
         cycleVars
    <3> QED
      BY <3>1
  <2> QED
    BY <2>1, <2>2
<1> QED
  BY <1>1, CycleHolds, PTL DEF EquityNotOverstated, CycleSpec

=============================================================================
