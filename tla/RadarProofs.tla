---------------------------- MODULE RadarProofs ----------------------------
(***************************************************************************)
(* Proofs about the market cycle and the loop that starts it: about the    *)
(* radar scan for any number of callers, processes and symbols and any     *)
(* staleness limit; about the worker for any calendar, cadence, cooldowns  *)
(* and number of web sockets, and without the bound on its clock.          *)
(***************************************************************************)
EXTENDS Radar, MarketWorker, SumTheorems

(* What is recorded of one scan.                                            *)
ScanType == [step : Steps, found : SUBSET Symbols,
             pending : SUBSET Id, doomed : SUBSET Signal]

OrderType == [signal : Id, status : Status]

-----------------------------------------------------------------------------
(* Types.                                                                   *)

LEMMA HomeIsProcess == \A c \in Callers : Home[c] \in Processes
    BY DEF Processes, Callers, Collectors, Traders

LEMMA OffType == now \in Nat => Off \in ScanType
    BY DEF Off, ScanType, Steps

LEMMA FoundType == ASSUME NEW e \in Evidence PROVE e.found \subseteq Symbols
    BY DEF Evidence

LEMMA KeyType == ASSUME NEW x \in Signal PROVE Key(x) \in Id
    BY DEF Signal, Id, Key

(* A scan that publishes writes signals of this second and this process.    *)
LEMMA NewType ==
    ASSUME RadarTypeOK, NEW c \in Callers
    PROVE  New(c) \subseteq Signal
<1>1. scan[c] \in ScanType
    BY DEF RadarTypeOK, ScanType
<1>2. scan[c].found \subseteq Symbols /\ now \in 0..MaxSeconds /\ Home[c] \in Author
    BY <1>1, HomeIsProcess DEF ScanType, RadarTypeOK, Author
<1>. QED
    BY <1>2 DEF New, Signal

LEMMA CollectTypes ==
    ASSUME RadarTypeOK, NEW c \in Collectors, Collect(c) \/ Codal(c) \/ Batch(c)
    PROVE  RadarTypeOK'
<1>1. stage' \in [Collectors -> Stages]
    <2>1. AfterCollect(c) \in Stages
        BY DEF AfterCollect, Collectors, Traders, Stages
    <2>. QED
        BY <2>1 DEF Collect, Codal, Batch, To, RadarTypeOK, Stages
<1>2. now' = now /\ quote' \in 0..now
    BY DEF Collect, Codal, Batch, market, RadarTypeOK
<1>. QED
    BY <1>1, <1>2, RadarAssumption DEF Collect, Codal, Batch, market, RadarTypeOK

LEMMA AfterScanType ==
    ASSUME RadarTypeOK, NEW c \in Callers
    PROVE  AfterScan(c) \in [Collectors -> Stages]
    BY DEF AfterScan, Callers, RadarTypeOK, Stages

LEMMA BeginTypes ==
    ASSUME RadarTypeOK, NEW c \in Callers, BeginScan(c) \/ SkipScan(c)
    PROVE  RadarTypeOK'
<1>1. CASE BeginScan(c)
    <2>1. evidence.found \subseteq Symbols /\ quote \in 0..now
        BY FoundType DEF RadarTypeOK
    <2>2. [scan[c] EXCEPT !.step = "look", !.found = evidence.found] \in ScanType
        BY <2>1 DEF RadarTypeOK, ScanType, Steps
    <2>3. scan' \in [Callers -> ScanType]
        BY <1>1, <2>2 DEF BeginScan, RadarTypeOK, ScanType
    <2>4. lock' \in [Processes -> Callers \cup {Nobody}]
        BY <1>1 DEF BeginScan, RadarTypeOK
    <2>. QED
        BY <1>1, <2>3, <2>4 DEF BeginScan, market, RadarTypeOK, ScanType
<1>2. CASE SkipScan(c)
    BY <1>2, AfterScanType DEF SkipScan, market, RadarTypeOK
<1>. QED
    BY <1>1, <1>2

LEMMA EndTypes ==
    ASSUME RadarTypeOK, NEW c \in Callers, EndScan(c)
    PROVE  /\ stage' \in [Collectors -> Stages]
           /\ scan' \in [Callers -> ScanType]
<1>1. now \in Nat
    BY RadarAssumption DEF RadarTypeOK, RadarAssumption
<1>. QED
    BY <1>1, OffType, AfterScanType DEF EndScan, RadarTypeOK, ScanType

LEMMA UnlockedType ==
    ASSUME RadarTypeOK, NEW c \in Callers
    PROVE  Unlocked(c) \in [Processes -> Callers \cup {Nobody}]
    BY DEF Unlocked, RadarTypeOK

LEMMA PendingTypes ==
    ASSUME RadarTypeOK
    PROVE  InOrders \subseteq Id
<1>1. orders \in Seq(OrderType)
    BY DEF RadarTypeOK, OrderType
<1>2. \A k \in DOMAIN orders : orders[k] \in OrderType
    BY <1>1
<1>. QED
    BY <1>2 DEF InOrders, Pending, OrderType

LEMMA ScanTypes ==
    ASSUME RadarTypeOK, NEW c \in Callers, ScanStep(c)
    PROVE  RadarTypeOK'
<1>1. CASE FailScan(c)
    BY <1>1, EndTypes, UnlockedType DEF FailScan, market, RadarTypeOK, ScanType
<1>2. CASE Look(c)
    <2>1. [scan[c] EXCEPT !.step = "delete", !.pending = InOrders] \in ScanType
        BY PendingTypes DEF RadarTypeOK, ScanType, Steps
    <2>2. scan' \in [Callers -> ScanType]
        BY <1>2, <2>1 DEF Look, RadarTypeOK, ScanType
    <2>. QED
        BY <1>2, <2>2 DEF Look, market, RadarTypeOK, ScanType
<1>3. CASE Delete(c)
    <2>1. Doomed(c) \subseteq Signal
        BY DEF Doomed, RadarTypeOK
    <2>2. [scan[c] EXCEPT !.step = "publish", !.doomed = Doomed(c)] \in ScanType
        BY <2>1 DEF RadarTypeOK, ScanType, Steps
    <2>3. scan' \in [Callers -> ScanType]
        BY <1>3, <2>2 DEF Delete, RadarTypeOK, ScanType
    <2>. QED
        BY <1>3, <2>3 DEF Delete, Visible, market, RadarTypeOK, ScanType
<1>4. CASE Publish(c)
    <2>1. published' \subseteq Signal
        BY <1>4, NewType DEF Publish, RadarTypeOK
    <2>. QED
        BY <1>4, <2>1, EndTypes, UnlockedType DEF Publish, market, RadarTypeOK, ScanType
<1>. QED
    BY <1>1, <1>2, <1>3, <1>4 DEF ScanStep

LEMMA ProcessedType ==
    ASSUME RadarTypeOK, NEW filled, NEW rejected
    PROVE  /\ Processed(filled, rejected) \in Seq(OrderType)
           /\ Len(Processed(filled, rejected)) = Len(orders)
<1>. DEFINE next == Processed(filled, rejected)
<1>1. orders \in Seq(OrderType)
    BY DEF RadarTypeOK, OrderType
<1>2. Len(orders) \in Nat /\ DOMAIN orders = 1..Len(orders)
    BY <1>1
<1>3. \A k \in DOMAIN orders : orders[k] \in OrderType
    BY <1>1
<1>4. DOMAIN next = DOMAIN orders
    BY DEF Processed
<1>5. ASSUME NEW k \in DOMAIN orders
      PROVE  next[k] \in OrderType
    <2>1. orders[k] \in [signal : Id, status : Status]
        BY <1>3 DEF OrderType
    <2>2. \E s \in Status : next[k] = [orders[k] EXCEPT !.status = s]
        BY <2>1 DEF Processed, Status
    <2>. QED
        BY <2>1, <2>2 DEF OrderType
<1>6. next \in [1..Len(orders) -> OrderType]
    <2>1. next = [k \in DOMAIN orders |-> next[k]]
        BY DEF Processed
    <2>. HIDE DEF next
    <2>. QED
        BY <1>2, <1>5, <2>1
<1>. HIDE DEF next
<1>7. next \in Seq(OrderType)
    BY <1>2, <1>6
<1>8. Len(next) = Len(orders)
    BY <1>2, <1>4, <1>7
<1>. QED
    BY <1>7, <1>8 DEF next

LEMMA AppendedType ==
    ASSUME NEW list \in Seq(OrderType), NEW k \in Id
    PROVE  Append(list, Submitted(k)) \in Seq(OrderType)
<1>1. Submitted(k) \in OrderType
    BY DEF Submitted, OrderType, Status
<1>. QED
    BY <1>1

LEMMA TradeTypes ==
    ASSUME RadarTypeOK, NEW c \in Traders, Decide(c) \/ Trade(c) \/ AbortTrade(c)
    PROVE  RadarTypeOK'
<1>0. now' = now /\ UNCHANGED <<market, lock, scan>> /\ stage' \in [Collectors -> Stages]
    BY DEF Collectors, Decide, Trade, AbortTrade, To, market, RadarTypeOK, Stages
<1>1. CASE Decide(c)
    <2>1. evidence.found \subseteq Symbols /\ now \in 0..MaxSeconds
        BY FoundType DEF RadarTypeOK
    <2>2. entry' \in [Traders \cup Clients -> Id \cup {NoId}]
        <3>1. CASE UNCHANGED entry
            BY <3>1 DEF RadarTypeOK
        <3>2. CASE \E s \in evidence.found :
                       entry' = [entry EXCEPT ![c] = [symbol |-> s, at |-> now]]
            <4>1. PICK s \in evidence.found :
                       entry' = [entry EXCEPT ![c] = [symbol |-> s, at |-> now]]
                BY <3>2
            <4>2. [symbol |-> s, at |-> now] \in Id
                BY <2>1 DEF Id
            <4>. QED
                BY <4>1, <4>2 DEF RadarTypeOK
        <3>. QED
            BY <1>1, <3>1, <3>2 DEF Decide
    <2>. QED
        BY <1>0, <1>1, <2>2 DEF Decide, market, RadarTypeOK
<1>2. CASE Trade(c)
    <2>1. entry' \in [Traders \cup Clients -> Id \cup {NoId}]
        BY <1>2 DEF Trade, RadarTypeOK
    <2>2. PICK filled \in SUBSET Pending, rejected \in SUBSET Pending :
              \/ /\ entry[c] = NoId
                 /\ orders' = Processed(filled, rejected) /\ UNCHANGED published
              \/ /\ entry[c] # NoId
                 /\ orders' = Append(Processed(filled, rejected), Submitted(entry[c]))
                 /\ published' = published \cup Missing(entry[c])
        BY <1>2 DEF Trade
    <2>3. CASE entry[c] = NoId
        BY <1>0, <2>1, <2>2, <2>3, ProcessedType DEF market, RadarTypeOK, OrderType
    <2>4. CASE entry[c] # NoId
        <3>1. entry[c] \in Id
            BY <2>4 DEF RadarTypeOK
        <3>2. orders' \in Seq(OrderType)
            BY <2>2, <2>4, <3>1, ProcessedType, AppendedType
        <3>3. Missing(entry[c]) \subseteq Signal
            BY <3>1 DEF Missing, Id, Signal, Author
        <3>4. published' \subseteq Signal
            BY <2>2, <2>4, <3>3 DEF RadarTypeOK
        <3>. QED
            BY <1>0, <2>1, <3>2, <3>4 DEF market, RadarTypeOK, OrderType
    <2>. QED
        BY <2>3, <2>4
<1>3. CASE AbortTrade(c)
    BY <1>0, <1>3 DEF AbortTrade, market, RadarTypeOK
<1>. QED
    BY <1>1, <1>2, <1>3

LEMMA ClientTypes ==
    ASSUME RadarTypeOK, NEW k \in Clients, Choose(k) \/ Order(k)
    PROVE  RadarTypeOK'
<1>1. CASE Choose(k)
    <2>1. \A x \in Board : Key(x) \in Id
        BY KeyType DEF Board, RadarTypeOK
    <2>2. entry' \in [Traders \cup Clients -> Id \cup {NoId}]
        BY <1>1, <2>1 DEF Choose, RadarTypeOK
    <2>. QED
        BY <1>1, <2>2 DEF Choose, market, RadarTypeOK
<1>2. CASE Order(k)
    <2>1. entry[k] \in Id
        BY <1>2 DEF Order, RadarTypeOK
    <2>2. orders \in Seq(OrderType)
        BY DEF RadarTypeOK, OrderType
    <2>3. orders' \in Seq(OrderType)
        BY <1>2, <2>1, <2>2, AppendedType DEF Order
    <2>4. entry' \in [Traders \cup Clients -> Id \cup {NoId}]
        BY <1>2 DEF Order, RadarTypeOK
    <2>. QED
        BY <1>2, <2>3, <2>4 DEF Order, market, RadarTypeOK, OrderType
<1>. QED
    BY <1>1, <1>2

LEMMA TickTypes ==
    ASSUME RadarTypeOK, Tick
    PROVE  RadarTypeOK'
<1>1. now \in Nat /\ now' = now + 1 /\ now' \in 0..MaxSeconds /\ quote \in 0..now'
    BY RadarAssumption DEF RadarTypeOK, RadarAssumption, Tick
<1>2. 0..now \subseteq 0..now'
    BY <1>1
<1>. QED
    BY <1>1, <1>2 DEF Tick, RadarTypeOK

LEMMA DieTypes ==
    ASSUME RadarTypeOK, NEW p \in Processes, Die(p)
    PROVE  RadarTypeOK'
<1>1. now \in Nat
    BY RadarAssumption DEF RadarTypeOK, RadarAssumption
<1>2. stage' \in [Collectors -> Stages]
    BY DEF Die, RadarTypeOK, Stages
<1>3. scan' \in [Callers -> ScanType]
    BY <1>1, OffType DEF Die, RadarTypeOK, ScanType
<1>4. entry' \in [Traders \cup Clients -> Id \cup {NoId}]
    BY DEF Die, RadarTypeOK
<1>5. lock' \in [Processes -> Callers \cup {Nobody}]
    BY DEF Die, RadarTypeOK
<1>. QED
    BY <1>2, <1>3, <1>4, <1>5 DEF Die, market, RadarTypeOK, ScanType

LEMMA InitTypes == Init => RadarTypeOK
<1>. SUFFICES ASSUME Init PROVE RadarTypeOK
    OBVIOUS
<1>1. now \in 0..MaxSeconds /\ quote \in 0..now
    BY RadarAssumption DEF Init, RadarAssumption
<1>2. scan \in [Callers -> ScanType]
    BY OffType DEF Init
<1>3. orders \in Seq([signal : Id, status : Status])
    BY DEF Init
<1>4. /\ lock \in [Processes -> Callers \cup {Nobody}] /\ stage \in [Collectors -> Stages]
      /\ entry \in [Traders \cup Clients -> Id \cup {NoId}]
    BY DEF Init, Stages
<1>. QED
    BY <1>1, <1>2, <1>3, <1>4 DEF Init, RadarTypeOK, ScanType

LEMMA NextTypes == RadarTypeOK /\ [Next]_vars => RadarTypeOK'
<1>. SUFFICES ASSUME RadarTypeOK, [Next]_vars PROVE RadarTypeOK'
    OBVIOUS
<1>1. CASE UNCHANGED vars
    BY <1>1 DEF vars, market, RadarTypeOK
<1>2. CASE Next
    BY <1>2, CollectTypes, TradeTypes, BeginTypes, ScanTypes, ClientTypes, TickTypes, DieTypes
    DEF Next
<1>. QED
    BY <1>1, <1>2

(* Every row, scan and pending entry stays well typed, for any number of    *)
(* callers and whatever processes die: no scan writes a signal ahead of its *)
(* second, and no cycle is left without a stage.                            *)
THEOREM RadarTypeCorrect == Spec => []RadarTypeOK
<1>. QED
    BY InitTypes, NextTypes, PTL DEF Spec

-----------------------------------------------------------------------------
(* The lock.                                                                *)

(* What a step does to the lock and to the steps of the scans.              *)
LEMMA LockKeeps ==
    ASSUME RadarTypeOK, OneScanPerProcess, Next
    PROVE  OneScanPerProcess'
<1>0. /\ \A c \in Callers : Home[c] \in Processes /\ c # Nobody
      /\ scan \in [Callers -> ScanType] /\ lock \in [Processes -> Callers \cup {Nobody}]
    BY HomeIsProcess, RadarAssumption DEF RadarTypeOK, ScanType, RadarAssumption
<1>1. CASE UNCHANGED <<lock, scan>>
    BY <1>1 DEF OneScanPerProcess
<1>2. ASSUME NEW c \in Callers, BeginScan(c)
      PROVE  OneScanPerProcess'
    <2>1. lock' = [lock EXCEPT ![Home[c]] = c] /\ lock[Home[c]] = Nobody
        BY <1>2 DEF BeginScan, LockFree
    <2>2. scan'[c].step = "look" /\ \A d \in Callers \ {c} : scan'[d] = scan[d]
        BY <1>0, <1>2 DEF BeginScan, ScanType
    <2>. QED
        BY <1>0, <2>1, <2>2 DEF OneScanPerProcess
<1>3. ASSUME NEW c \in Callers, Look(c) \/ Delete(c)
      PROVE  OneScanPerProcess'
    <2>1. lock' = lock /\ scan[c].step # "off" /\ scan'[c].step # "off"
        BY <1>0, <1>3 DEF Look, Delete, ScanType
    <2>2. \A d \in Callers \ {c} : scan'[d] = scan[d]
        BY <1>0, <1>3 DEF Look, Delete
    <2>. QED
        BY <2>1, <2>2 DEF OneScanPerProcess
<1>4. ASSUME NEW c \in Callers, FailScan(c) \/ Publish(c)
      PROVE  OneScanPerProcess'
    <2>1. lock' = [lock EXCEPT ![Home[c]] = Nobody] /\ scan[c].step # "off"
        BY <1>4 DEF FailScan, Publish, Unlocked
    <2>2. scan'[c].step = "off" /\ \A d \in Callers \ {c} : scan'[d] = scan[d]
        BY <1>0, <1>4 DEF FailScan, Publish, EndScan, Off
    <2>3. lock[Home[c]] = c
        BY <2>1 DEF OneScanPerProcess
    <2>. QED
        BY <1>0, <2>1, <2>2, <2>3 DEF OneScanPerProcess
<1>5. ASSUME NEW p \in Processes, Die(p)
      PROVE  OneScanPerProcess'
    <2>1. lock' = [lock EXCEPT ![p] = Nobody]
        BY <1>5 DEF Die
    <2>2. \A d \in Callers : scan'[d] = IF Home[d] = p THEN Off ELSE scan[d]
        BY <1>5 DEF Die, Callers, Collectors, Traders
    <2>3. Off.step = "off"
        BY DEF Off
    <2>. QED
        BY <1>0, <2>1, <2>2, <2>3 DEF OneScanPerProcess
<1>6. CASE \/ \E c \in Collectors : Collect(c) \/ Codal(c) \/ Batch(c)
           \/ \E c \in Traders : Decide(c) \/ Trade(c) \/ AbortTrade(c)
    BY <1>1, <1>6 DEF Collect, Codal, Batch, Decide, Trade, AbortTrade
<1>7. CASE \E c \in Callers : BeginScan(c) \/ SkipScan(c) \/ ScanStep(c)
    <2>1. CASE \E c \in Callers : SkipScan(c)
        BY <1>1, <2>1 DEF SkipScan
    <2>. QED
        BY <1>2, <1>3, <1>4, <1>7, <2>1 DEF ScanStep
<1>8. CASE \E k \in Clients : Choose(k) \/ Order(k)
    BY <1>1, <1>8 DEF Choose, Order
<1>9. CASE Tick
    BY <1>1, <1>9 DEF Tick
<1>. QED
    BY <1>5, <1>6, <1>7, <1>8, <1>9, <1>0 DEF Next

LEMMA LockInit == Init => OneScanPerProcess
<1>. SUFFICES ASSUME Init PROVE OneScanPerProcess
    OBVIOUS
<1>1. \A c \in Callers : scan[c].step = "off" /\ lock[Home[c]] = Nobody /\ c # Nobody
    BY HomeIsProcess, RadarAssumption DEF Init, Off, RadarAssumption
<1>. QED
    BY <1>1 DEF OneScanPerProcess

(* A process runs at most one scan and the lock names it, for any number of *)
(* callers in it, wherever a scan fails and whenever the process dies.      *)
THEOREM ScansSerialised == Spec => []OneScanPerProcess
<1>1. RadarTypeOK /\ OneScanPerProcess /\ [Next]_vars => OneScanPerProcess'
    <2>1. ASSUME OneScanPerProcess, UNCHANGED vars PROVE OneScanPerProcess'
        BY <2>1 DEF vars, OneScanPerProcess
    <2>. QED
        BY <2>1, LockKeeps
<1>. QED
    BY <1>1, LockInit, RadarTypeCorrect, PTL DEF Spec

-----------------------------------------------------------------------------
(* What a scan that is about to publish leaves of the signals it finds.     *)

(* Signals of its own process are doomed or belong to an order it has seen. *)
RivalsDoomed ==
    \A c \in Callers : scan[c].step = "publish" =>
        \A x \in published : x.by = Home[c] => x \in scan[c].doomed \/ Key(x) \in scan[c].pending

PendingSpared ==
    \A c \in Callers : scan[c].step = "publish" =>
        \A x \in scan[c].doomed : Key(x) \notin scan[c].pending

ScanInv == RadarTypeOK /\ OneScanPerProcess /\ RivalsDoomed /\ PendingSpared

(* A step records at most one scan; all others are as before or off.        *)
LEMMA OtherScans ==
    ASSUME RadarTypeOK, Next, NEW c \in Callers, scan'[c] # scan[c]
    PROVE  BeginScan(c) \/ Look(c) \/ Delete(c) \/ scan'[c] = Off
<1>0. scan \in [Callers -> ScanType]
    BY DEF RadarTypeOK, ScanType
<1>1. ASSUME NEW d \in Callers, BeginScan(d) \/ SkipScan(d) \/ ScanStep(d)
      PROVE  BeginScan(c) \/ Look(c) \/ Delete(c) \/ scan'[c] = Off
    <2>1. CASE d = c
        BY <1>0, <1>1, <2>1 DEF SkipScan, ScanStep, FailScan, Publish, EndScan
    <2>2. CASE d # c
        BY <1>0, <1>1, <2>2
        DEF BeginScan, SkipScan, ScanStep, FailScan, Look, Delete, Publish, EndScan
    <2>. QED
        BY <2>1, <2>2
<1>2. ASSUME NEW p \in Processes, Die(p)
      PROVE  scan'[c] = Off
    BY <1>2 DEF Die
<1>3. CASE \/ \E d \in Collectors : Collect(d) \/ Codal(d) \/ Batch(d)
           \/ \E d \in Traders : Decide(d) \/ Trade(d) \/ AbortTrade(d)
           \/ \E k \in Clients : Choose(k) \/ Order(k)
           \/ Tick
    BY <1>3 DEF Collect, Codal, Batch, Decide, Trade, AbortTrade, Choose, Order, Tick
<1>. QED
    BY <1>1, <1>2, <1>3 DEF Next

LEMMA PublishWriter ==
    ASSUME Next, published' # published
    PROVE  (\E c \in Callers : Publish(c)) \/ (\E c \in Traders : Trade(c))
    BY DEF Next, Collect, Codal, Batch, Decide, AbortTrade, BeginScan, SkipScan, ScanStep,
           FailScan, Look, Delete, Visible, Choose, Order, Tick, Die

LEMMA RivalsKeep ==
    ASSUME ScanInv, Next
    PROVE  RivalsDoomed' /\ PendingSpared'
<1>. SUFFICES ASSUME NEW c \in Callers, scan'[c].step = "publish"
              PROVE  /\ \A x \in published' : x.by = Home[c]
                           => x \in scan'[c].doomed \/ Key(x) \in scan'[c].pending
                     /\ \A x \in scan'[c].doomed : Key(x) \notin scan'[c].pending
    BY DEF RivalsDoomed, PendingSpared
<1>0. scan \in [Callers -> ScanType] /\ Home[c] \in Processes /\ Home[c] # Trader
    BY HomeIsProcess, RadarAssumption DEF ScanInv, RadarTypeOK, ScanType, RadarAssumption
<1>1. CASE Delete(c)
    <2>1. /\ scan'[c].pending = scan[c].pending /\ scan'[c].doomed = Doomed(c)
          /\ published' = published
        BY <1>0, <1>1 DEF Delete, Visible, ScanType
    <2>. QED
        BY <2>1 DEF Doomed
<1>2. CASE ~Delete(c)
    <2>1. ~BeginScan(c) /\ ~Look(c) /\ scan'[c] # Off
        BY <1>0 DEF BeginScan, Look, Off, ScanType
    <2>2. scan'[c] = scan[c]
        BY <1>2, <2>1, OtherScans DEF ScanInv
    <2>3. \A x \in published' \ published : x.by # Home[c]
        <3>1. CASE \E d \in Callers : Publish(d)
            <4>1. PICK d \in Callers : Publish(d)
                BY <3>1
            <4>2. d # c
                BY <1>0, <2>1, <4>1 DEF Publish, EndScan
            <4>3. lock[Home[d]] = d /\ lock[Home[c]] = c
                BY <2>2, <4>1 DEF ScanInv, OneScanPerProcess, Publish
            <4>4. Home[d] # Home[c]
                BY <4>2, <4>3
            <4>. QED
                BY <4>1, <4>4 DEF Publish, New
        <3>2. CASE \E d \in Traders : Trade(d)
            BY <1>0, <3>2 DEF Trade, Missing
        <3>. QED
            BY <3>1, <3>2, PublishWriter
    <2>4. \A x \in published : x.by = Home[c] => x \in scan[c].doomed \/ Key(x) \in scan[c].pending
        BY <2>2 DEF ScanInv, RivalsDoomed
    <2>5. \A x \in scan[c].doomed : Key(x) \notin scan[c].pending
        BY <2>2 DEF ScanInv, PendingSpared
    <2>. QED
        BY <2>2, <2>3, <2>4, <2>5
<1>. QED
    BY <1>1, <1>2

LEMMA ScanInvHolds == Spec => []ScanInv
<1>1. Init => ScanInv
    <2>. SUFFICES ASSUME Init PROVE ScanInv
        OBVIOUS
    <2>1. \A c \in Callers : scan[c].step = "off"
        BY DEF Init, Off
    <2>. QED
        BY <2>1, InitTypes, LockInit DEF ScanInv, RivalsDoomed, PendingSpared
<1>2. ScanInv /\ [Next]_vars => ScanInv'
    <2>1. ASSUME ScanInv, UNCHANGED vars PROVE ScanInv'
        <3>1. RadarTypeOK'
            BY <2>1, NextTypes DEF ScanInv
        <3>. QED
            BY <2>1, <3>1
            DEF ScanInv, vars, market, OneScanPerProcess, RivalsDoomed, PendingSpared
    <2>2. ASSUME ScanInv, Next PROVE ScanInv'
        BY <2>2, NextTypes, LockKeeps, RivalsKeep DEF ScanInv
    <2>. QED
        BY <2>1, <2>2
<1>. QED
    BY <1>1, <1>2, PTL DEF Spec

-----------------------------------------------------------------------------
(* What a scan shows.                                                       *)

(* A scan that ends and changes the signals has published.                  *)
LEMMA PublishesByPublish ==
    ASSUME RadarTypeOK, Next, NEW c \in Callers, Publishes(c)
    PROVE  Publish(c)
<1>0. scan \in [Callers -> ScanType] /\ scan[c].step = "publish" /\ scan'[c].step = "off"
    BY DEF RadarTypeOK, ScanType, Publishes
<1>1. CASE \E d \in Callers : Publish(d)
    <2>1. PICK d \in Callers : Publish(d)
        BY <1>1
    <2>2. d = c
        BY <1>0, <2>1 DEF Publish, EndScan
    <2>. QED
        BY <2>1, <2>2
<1>2. CASE \E d \in Traders : Trade(d)
    BY <1>0, <1>2 DEF Trade
<1>. QED
    BY <1>1, <1>2, PublishWriter DEF Publishes

LEMMA ShownStep ==
    ASSUME ScanInv, Next
    PROVE  /\ \A c \in Callers : Publishes(c) =>
                 \A x \in published' : x.by = Home[c] => x \in New(c) \/ Key(x) \in scan[c].pending
           /\ \A c \in Callers : Publishes(c) =>
                 scan[c].pending \cap Keys(published) \subseteq Keys(published')
<1>. SUFFICES ASSUME NEW c \in Callers, Publishes(c)
              PROVE  /\ \A x \in published' :
                           x.by = Home[c] => x \in New(c) \/ Key(x) \in scan[c].pending
                     /\ scan[c].pending \cap Keys(published) \subseteq Keys(published')
    OBVIOUS
<1>1. published' = (published \ scan[c].doomed) \cup New(c) /\ scan[c].step = "publish"
    BY PublishesByPublish DEF Publish, ScanInv
<1>2. /\ \A x \in published : x.by = Home[c] => x \in scan[c].doomed \/ Key(x) \in scan[c].pending
      /\ \A x \in scan[c].doomed : Key(x) \notin scan[c].pending
    BY <1>1 DEF ScanInv, RivalsDoomed, PendingSpared
<1>3. \A x \in published : Key(x) \in scan[c].pending => x \in published'
    BY <1>1, <1>2
<1>. QED
    BY <1>1, <1>2, <1>3 DEF Keys

LEMMA StutterHides ==
    ASSUME UNCHANGED vars, NEW c \in Callers
    PROVE  ~Publishes(c)
    BY DEF vars, Publishes

(* Scans of one process replace each other whole: after a scan published, a *)
(* signal of an earlier one is left only for an order it had seen pending.  *)
THEOREM ScansReplaceWhole == Spec => OneScanShown
<1>1. ScanInv /\ [Next]_vars =>
        \A c \in Callers : Publishes(c) =>
            \A x \in published' : x.by = Home[c] => x \in New(c) \/ Key(x) \in scan[c].pending
    BY ShownStep, StutterHides
<1>. QED
    BY <1>1, ScanInvHolds, PTL DEF Spec, OneScanShown

(* The signals of the orders that a scan has seen pending outlive it, at    *)
(* whatever point the orders of others come in.                             *)
THEOREM PendingSignalsKept == Spec => ScanKeepsPending
<1>1. ScanInv /\ [Next]_vars =>
        \A c \in Callers : Publishes(c) =>
            scan[c].pending \cap Keys(published) \subseteq Keys(published')
    BY ShownStep, StutterHides
<1>. QED
    BY <1>1, ScanInvHolds, PTL DEF Spec, ScanKeepsPending

(* No reader ever finds a symbol without its signal unless a scan has just  *)
(* found that it has none: the old signals go when the new ones are there.  *)
THEOREM ReplacedAtomically == Spec => ShownUntilRefuted
<1>1. [Next]_vars =>
        \A x \in published : (\A y \in published' : y.symbol # x.symbol)
            => \E c \in Callers : scan[c].step = "publish" /\ x.symbol \notin scan[c].found
    <2>. SUFFICES ASSUME [Next]_vars, NEW x \in published,
                         \A y \in published' : y.symbol # x.symbol
                  PROVE  \E c \in Callers : scan[c].step = "publish" /\ x.symbol \notin scan[c].found
        OBVIOUS
    <2>1. x \notin published' /\ published' # published
        OBVIOUS
    <2>2. Next
        BY <2>1 DEF vars
    <2>3. ~\E d \in Traders : Trade(d)
        BY <2>1 DEF Trade
    <2>4. PICK c \in Callers : Publish(c)
        BY <2>1, <2>2, <2>3, PublishWriter
    <2>5. ASSUME x.symbol \in scan[c].found PROVE FALSE
        <3>. DEFINE y == [symbol |-> x.symbol, at |-> now, by |-> Home[c]]
        <3>1. y \in New(c) /\ y.symbol = x.symbol
            BY <2>5 DEF New
        <3>2. y \in published'
            BY <2>4, <3>1 DEF Publish
        <3>. QED
            BY <3>1, <3>2
    <2>. QED
        BY <2>4, <2>5 DEF Publish
<1>. QED
    BY <1>1, PTL DEF Spec, ShownUntilRefuted

-----------------------------------------------------------------------------
(* The calendar.                                                            *)

Closing(d) == d * DayLength + CloseAt

LEMMA LaterDay ==
    ASSUME NEW d \in Nat, NEW e \in Nat, d < e
    PROVE  d * DayLength \in Nat /\ e * DayLength \in Nat
             /\ d * DayLength + DayLength <= e * DayLength
<1>1. DayLength \in Nat /\ d + 1 \in Nat /\ d + 1 <= e
    BY HoursAssumption DEF HoursAssumption
<1>2. DayLength * (d + 1) <= DayLength * e /\ DayLength * (d + 1) = d * DayLength + DayLength
    BY <1>1, TimesKeeps
<1>. QED
    BY <1>1, <1>2

LEMMA DayAndTime ==
    ASSUME NEW t \in Nat
    PROVE  Day(t) \in Nat /\ Time(t) \in 0..DayLength - 1 /\ t = Day(t) * DayLength + Time(t)
<1>1. DayLength \in Nat /\ DayLength > 0
    BY HoursAssumption DEF HoursAssumption
<1>2. t \div DayLength \in Nat /\ t % DayLength \in 0..DayLength - 1
        /\ t = (t \div DayLength) * DayLength + (t % DayLength)
    BY <1>1, Z3
<1>. QED
    BY <1>2 DEF Day, Time

(* An instant has one day only.                                             *)
LEMMA DayOf ==
    ASSUME NEW t \in Nat, NEW d \in Nat, NEW u \in Nat, u < DayLength, t = d * DayLength + u
    PROVE  Day(t) = d /\ Time(t) = u
<1>1. Day(t) \in Nat /\ Time(t) \in 0..DayLength - 1 /\ t = Day(t) * DayLength + Time(t)
    BY DayAndTime
<1>2. DayLength \in Nat /\ d * DayLength \in Nat /\ Day(t) * DayLength \in Nat
    BY <1>1, HoursAssumption DEF HoursAssumption
<1>3. ~(d < Day(t))
    <2>. SUFFICES ASSUME d < Day(t) PROVE FALSE
        OBVIOUS
    <2>1. d * DayLength + DayLength <= Day(t) * DayLength
        BY <1>1, LaterDay
    <2>. QED
        BY <1>1, <1>2, <2>1
<1>4. ~(Day(t) < d)
    <2>. SUFFICES ASSUME Day(t) < d PROVE FALSE
        OBVIOUS
    <2>1. Day(t) * DayLength + DayLength <= d * DayLength
        BY <1>1, LaterDay
    <2>. QED
        BY <1>1, <1>2, <2>1
<1>5. Day(t) = d
    BY <1>1, <1>3, <1>4
<1>6. Time(t) = t - Day(t) * DayLength /\ u = t - d * DayLength
    BY <1>1, <1>2
<1>. QED
    BY <1>5, <1>6

(* The session of a day, as a span of instants.                             *)
LEMMA SessionIsOpen ==
    ASSUME NEW d \in Nat, TradingDay(d), NEW t \in Nat, Opening(d) <= t, t < Closing(d)
    PROVE  Day(t) = d /\ IsOpen(t)
<1>. DEFINE u == t - d * DayLength
<1>1. d * DayLength \in Nat /\ OpenAt \in Nat /\ CloseAt \in Nat /\ CloseAt < DayLength
        /\ DayLength \in Nat
    BY HoursAssumption DEF HoursAssumption
<1>2. u \in Nat /\ OpenAt <= u /\ u < CloseAt /\ t = d * DayLength + u
    BY <1>1 DEF Opening, Closing
<1>3. Day(t) = d /\ Time(t) = u
    BY <1>1, <1>2, DayOf
<1>. QED
    BY <1>2, <1>3 DEF IsOpen

LEMMA OpenIsSession ==
    ASSUME NEW t \in Nat, IsOpen(t)
    PROVE  /\ Day(t) \in Nat /\ TradingDay(Day(t))
           /\ Opening(Day(t)) <= t /\ t < Closing(Day(t))
<1>1. Day(t) \in Nat /\ Time(t) \in 0..DayLength - 1 /\ t = Day(t) * DayLength + Time(t)
    BY DayAndTime
<1>2. Day(t) * DayLength \in Nat /\ OpenAt \in Nat /\ CloseAt \in Nat /\ DayLength \in Nat
    BY <1>1, HoursAssumption DEF HoursAssumption
<1>. QED
    BY <1>1, <1>2 DEF IsOpen, Opening, Closing

(* Neither a weekend nor closures go on for ever.                           *)
LEMMA WeekdayAhead ==
    ASSUME NEW d \in Nat
    PROVE  \E e \in d + 1..d + 3 : Weekday(e) \in TradingWeekdays
<1>1. FirstWeekday \in 0..6
    BY HoursAssumption DEF HoursAssumption
<1>2. \/ (FirstWeekday + (d + 1)) % 7 \notin {3, 4}
      \/ (FirstWeekday + (d + 2)) % 7 \notin {3, 4}
      \/ (FirstWeekday + (d + 3)) % 7 \notin {3, 4}
    BY <1>1, Z3
<1>3. \A e \in Nat : (FirstWeekday + e) % 7 \in 0..6
    BY <1>1, Z3
<1>4. d + 1 \in d + 1..d + 3 /\ d + 2 \in d + 1..d + 3 /\ d + 3 \in d + 1..d + 3
        /\ d + 1 \in Nat /\ d + 2 \in Nat /\ d + 3 \in Nat
    OBVIOUS
<1>5. \A e \in Nat : (FirstWeekday + e) % 7 \notin {3, 4} => Weekday(e) \in TradingWeekdays
    BY <1>3 DEF Weekday, TradingWeekdays
<1>. QED
    BY <1>2, <1>4, <1>5

LEMMA TradingDayAhead ==
    ASSUME NEW d \in Nat
    PROVE  \E e \in d + 1..d + Horizon : TradingDay(e)
<1>1. Horizon \in Nat /\ Horizon >= 4
    BY HoursAssumption, CalendarAssumption DEF HoursAssumption, CalendarAssumption
<1>2. PICK h \in d + 1..d + 3 : Weekday(h) \in TradingWeekdays
    BY WeekdayAhead
<1>3. h \in Int /\ d + 1 <= h /\ h <= d + 3
    BY <1>2
<1>4. CASE h \notin Holidays
    <2>1. h \in d + 1..d + Horizon
        BY <1>1, <1>3
    <2>. QED
        BY <1>2, <1>4, <2>1 DEF TradingDay
<1>5. CASE h \in Holidays
    <2>1. PICK e \in h + 1..h + Horizon - 3 : TradingDay(e)
        BY <1>5, CalendarAssumption DEF CalendarAssumption
    <2>2. e \in d + 1..d + Horizon
        BY <1>1, <1>3, <2>1
    <2>. QED
        BY <2>1, <2>2
<1>. QED
    BY <1>4, <1>5

LEMMA NextTradingDayIs ==
    ASSUME NEW d \in Nat
    PROVE  /\ NextTradingDay(d) \in Nat /\ d < NextTradingDay(d)
           /\ TradingDay(NextTradingDay(d))
           /\ \A f \in Nat : d < f /\ f < NextTradingDay(d) => ~TradingDay(f)
<1>. DEFINE S == {e \in d + 1..d + Horizon : TradingDay(e)}
<1>1. Horizon \in Nat
    BY HoursAssumption DEF HoursAssumption
<1>2. IsFiniteSet(d + 1..d + Horizon)
    BY <1>1, FS_Interval
<1>3. IsFiniteSet(S)
    BY <1>2, FS_Subset
<1>4. S \in SUBSET Int /\ S # {}
    BY TradingDayAhead
<1>. HIDE DEF S
<1>5. PICK x \in S : \A y \in S : x <= y
    BY <1>3, <1>4, LeastExists
<1>6. x \in d + 1..d + Horizon /\ TradingDay(x)
    BY <1>5 DEF S
<1>7. ASSUME NEW f \in d + 1..x - 1 PROVE ~TradingDay(f)
    <2>1. f \in d + 1..d + Horizon /\ ~(x <= f)
        BY <1>1, <1>6
    <2>2. f \notin S
        BY <1>5, <2>1
    <2>. QED
        BY <2>1, <2>2 DEF S
<1>8. /\ NextTradingDay(d) \in d + 1..d + Horizon
      /\ TradingDay(NextTradingDay(d))
      /\ \A f \in d + 1..NextTradingDay(d) - 1 : ~TradingDay(f)
    BY <1>6, <1>7 DEF NextTradingDay
<1>9. NextTradingDay(d) \in Nat /\ d < NextTradingDay(d)
    BY <1>1, <1>8
<1>10. ASSUME NEW f \in Nat, d < f, f < NextTradingDay(d) PROVE ~TradingDay(f)
    <2>1. f \in d + 1..NextTradingDay(d) - 1
        BY <1>9, <1>10
    <2>. QED
        BY <1>8, <2>1
<1>. QED
    BY <1>8, <1>9, <1>10


LEMMA OpeningsFollow ==
    ASSUME NEW d \in Nat, NEW e \in Nat, d <= e
    PROVE  Opening(d) \in Nat /\ Opening(e) \in Nat /\ Opening(d) <= Opening(e)
<1>1. OpenAt \in Nat /\ DayLength \in Nat /\ d * DayLength \in Nat /\ e * DayLength \in Nat
    BY HoursAssumption DEF HoursAssumption
<1>2. CASE d = e
    BY <1>1, <1>2 DEF Opening
<1>3. CASE d < e
    BY <1>1, <1>3, LaterDay DEF Opening
<1>. QED
    BY <1>2, <1>3

LEMMA DaysFollow ==
    ASSUME NEW t \in Nat, NEW s \in Nat, t <= s
    PROVE  Day(t) <= Day(s)
<1>1. /\ Day(t) \in Nat /\ Time(t) \in 0..DayLength - 1 /\ t = Day(t) * DayLength + Time(t)
      /\ Day(s) \in Nat /\ Time(s) \in 0..DayLength - 1 /\ s = Day(s) * DayLength + Time(s)
    BY DayAndTime
<1>. SUFFICES ASSUME Day(s) < Day(t) PROVE FALSE
    BY <1>1
<1>2. DayLength \in Nat /\ Day(s) * DayLength \in Nat /\ Day(t) * DayLength \in Nat
        /\ Day(s) * DayLength + DayLength <= Day(t) * DayLength
    BY <1>1, LaterDay, HoursAssumption DEF HoursAssumption
<1>. QED
    BY <1>1, <1>2

(* The opening it computes is in a session, and no session is on before it. *)
LEMMA NextOpenIsFirst ==
    ASSUME NEW t \in Nat
    PROVE  /\ NextOpen(t) \in Nat /\ t <= NextOpen(t) /\ IsOpen(NextOpen(t))
           /\ \A s \in Nat : t <= s /\ IsOpen(s) => NextOpen(t) <= s
<1>1. Day(t) \in Nat /\ Time(t) \in 0..DayLength - 1 /\ t = Day(t) * DayLength + Time(t)
    BY DayAndTime
<1>2. /\ DayLength \in Nat /\ OpenAt \in Nat /\ CloseAt \in Nat
      /\ OpenAt < CloseAt /\ CloseAt < DayLength /\ Day(t) * DayLength \in Nat
    BY <1>1, HoursAssumption DEF HoursAssumption
<1>3. ASSUME NEW d \in Nat, TradingDay(d) PROVE Opening(d) \in Nat /\ IsOpen(Opening(d))
    <2>1. Opening(d) \in Nat /\ d * DayLength \in Nat
        BY <1>2, OpeningsFollow
    <2>2. Opening(d) < Closing(d)
        BY <1>2, <2>1 DEF Opening, Closing
    <2>. QED
        BY <1>3, <2>1, <2>2, SessionIsOpen
<1>4. ASSUME NEW s \in Nat, t <= s, IsOpen(s)
      PROVE  /\ Day(s) \in Nat /\ TradingDay(Day(s)) /\ Opening(Day(s)) <= s
             /\ s < Closing(Day(s)) /\ Day(t) <= Day(s) /\ Opening(Day(s)) \in Nat
    BY <1>4, OpenIsSession, DaysFollow, OpeningsFollow
<1>5. CASE IsOpen(t)
    BY <1>5 DEF NextOpen
<1>6. CASE ~IsOpen(t) /\ TradingDay(Day(t)) /\ Time(t) < OpenAt
    <2>1. NextOpen(t) = Opening(Day(t))
        BY <1>6 DEF NextOpen
    <2>2. t <= Opening(Day(t))
        BY <1>1, <1>2, <1>6 DEF Opening
    <2>3. ASSUME NEW s \in Nat, t <= s, IsOpen(s) PROVE Opening(Day(t)) <= s
        <3>1. Opening(Day(t)) <= Opening(Day(s)) /\ Opening(Day(t)) \in Nat
            BY <1>1, <1>4, <2>3, OpeningsFollow
        <3>. QED
            BY <1>4, <2>3, <3>1
    <2>. QED
        BY <1>1, <1>3, <1>6, <2>1, <2>2, <2>3
<1>7. CASE ~IsOpen(t) /\ ~(TradingDay(Day(t)) /\ Time(t) < OpenAt)
    <2>. DEFINE e == NextTradingDay(Day(t))
    <2>1. NextOpen(t) = Opening(e)
        BY <1>7 DEF NextOpen
    <2>2. /\ e \in Nat /\ Day(t) < e /\ TradingDay(e)
          /\ \A f \in Nat : Day(t) < f /\ f < e => ~TradingDay(f)
        BY <1>1, NextTradingDayIs
    <2>. HIDE DEF e
    <2>3. e * DayLength \in Nat /\ Day(t) * DayLength + DayLength <= e * DayLength
        BY <1>1, <2>2, LaterDay
    <2>4. t <= Opening(e)
        BY <1>1, <1>2, <2>3 DEF Opening
    <2>5. ASSUME NEW s \in Nat, t <= s, IsOpen(s) PROVE Opening(e) <= s
        <3>1. Day(t) # Day(s)
            <4>. SUFFICES ASSUME Day(t) = Day(s) PROVE FALSE
                OBVIOUS
            <4>1. TradingDay(Day(t)) /\ t < Closing(Day(t))
                <5>1. s < Closing(Day(t)) /\ Closing(Day(t)) \in Nat
                    BY <1>2, <1>4, <2>5 DEF Closing
                <5>. QED
                    BY <1>4, <2>5, <5>1
            <4>2. Opening(Day(t)) <= t
                BY <1>1, <1>2, <1>7, <4>1 DEF Opening
            <4>. QED
                BY <1>1, <1>7, <4>1, <4>2, SessionIsOpen
        <3>2. Day(t) < Day(s) /\ e <= Day(s)
            BY <1>1, <1>4, <2>2, <2>5, <3>1
        <3>3. Opening(e) <= Opening(Day(s)) /\ Opening(e) \in Nat
            BY <1>4, <2>2, <2>5, <3>2, OpeningsFollow
        <3>. QED
            BY <1>4, <2>5, <3>3
    <2>. QED
        BY <1>3, <2>1, <2>2, <2>4, <2>5
<1>. QED
    BY <1>5, <1>6, <1>7

(* Whoever does not sleep past the next opening misses no session.          *)
LEMMA SessionAfter ==
    ASSUME NEW t \in Nat, ~IsOpen(t), NEW d \in Nat, TradingDay(d), t < Closing(d)
    PROVE  NextOpen(t) <= Opening(d) /\ Opening(d) \in Nat
<1>1. Opening(d) \in Nat /\ d * DayLength \in Nat /\ OpenAt < CloseAt
        /\ OpenAt \in Nat /\ CloseAt \in Nat
    BY OpeningsFollow, HoursAssumption DEF HoursAssumption
<1>2. Opening(d) < Closing(d)
    BY <1>1 DEF Opening, Closing
<1>3. IsOpen(Opening(d))
    BY <1>1, <1>2, SessionIsOpen
<1>4. ~(Opening(d) <= t)
    BY SessionIsOpen
<1>. QED
    BY <1>1, <1>3, <1>4, NextOpenIsFirst

(* The seconds it sleeps end at most a second after the opening.            *)
LEMMA SecondsReachOpening ==
    ASSUME NEW t \in Nat, ~IsOpen(t)
    PROVE  SecondsUntil(t) \in Nat /\ SecondsUntil(t) >= 1
             /\ t + SecondsUntil(t) * Second <= NextOpen(t) + Second
<1>1. Second \in Nat /\ Second > 0
    BY HoursAssumption DEF HoursAssumption
<1>2. NextOpen(t) \in Nat /\ t <= NextOpen(t)
    BY NextOpenIsFirst
<1>. DEFINE gap == NextOpen(t) - t
           n == gap \div Second
<1>3. gap \in Nat
    BY <1>2
<1>4. n \in Nat /\ n * Second <= gap
    BY <1>1, <1>3, DivisionFacts, DivisionNat
<1>5. SecondsUntil(t) = IF n > 1 THEN n ELSE 1
    BY DEF SecondsUntil, AtLeastOne
<1>6. gap = NextOpen(t) - t
    OBVIOUS
<1>. HIDE DEF n, gap
<1>7. CASE n > 1
    BY <1>1, <1>2, <1>4, <1>5, <1>6, <1>7
<1>8. CASE ~(n > 1)
    <2>1. SecondsUntil(t) = 1 /\ 1 * Second = Second
        BY <1>1, <1>5, <1>8
    <2>. QED
        BY <1>1, <1>2, <2>1
<1>. QED
    BY <1>7, <1>8

-----------------------------------------------------------------------------
(* The hub.                                                                 *)

SocketType == [state : {"closed", "open"}, queue : Seq(Messages), got : Messages]

(* A subscriber's queue, or else what it read last, ends with the newest.    *)
SocketOK(x) ==
    /\ x \in SocketType /\ Len(x.queue) <= QueueSize
    /\ x.state = "closed" => x = Closed
    /\ x.state # "closed" =>
         "newest" = IF x.queue = <<>> THEN x.got ELSE x.queue[Len(x.queue)]

HubInv == sockets \in [Sockets -> SocketType] /\ \A s \in Sockets : SocketOK(sockets[s])

LEMMA ClosedOK == Closed \in SocketType /\ SocketOK(Closed)
<1>1. QueueSize \in Nat /\ <<>> \in Seq(Messages) /\ Len(<<>>) = 0
    BY WorkerAssumption DEF WorkerAssumption
<1>. QED
    BY <1>1 DEF Closed, SocketType, SocketOK, Messages

LEMMA OfferOK ==
    ASSUME NEW q \in Seq(Messages), Len(q) <= QueueSize
    PROVE  LET r == Offer(Outdated(q), "newest") IN
           r \in Seq(Messages) /\ Len(r) <= QueueSize /\ r # <<>> /\ r[Len(r)] = "newest"
<1>1. QueueSize \in Nat /\ QueueSize > 0
    BY WorkerAssumption DEF WorkerAssumption
<1>2. /\ Outdated(q) \in Seq(Messages) /\ Len(Outdated(q)) = Len(q)
      /\ "newest" \in Messages
    BY DEF Outdated, Messages
<1>. DEFINE o == Outdated(q)
           kept == IF Len(o) = QueueSize THEN Tail(o) ELSE o
<1>3. kept \in Seq(Messages) /\ Len(kept) < QueueSize
    <2>1. CASE Len(o) = QueueSize
        <3>1. o # <<>>
            BY <1>1, <2>1
        <3>2. Tail(o) \in Seq(Messages) /\ Len(Tail(o)) = Len(o) - 1
            BY <1>2, <3>1
        <3>. QED
            BY <1>1, <2>1, <3>2
    <2>2. CASE Len(o) # QueueSize
        BY <1>1, <1>2, <2>2
    <2>. QED
        BY <2>1, <2>2
<1>4. Offer(Outdated(q), "newest") = Append(kept, "newest")
    BY DEF Offer
<1>. HIDE DEF kept
<1>. DEFINE r == Append(kept, "newest")
<1>5. r \in Seq(Messages) /\ Len(r) = Len(kept) + 1 /\ r[Len(kept) + 1] = "newest"
    BY <1>2, <1>3
<1>6. Len(kept) \in Nat /\ Len(<<>>) = 0
    BY <1>3
<1>. HIDE DEF r
<1>7. Len(r) <= QueueSize /\ r # <<>> /\ r[Len(r)] = "newest"
    BY <1>1, <1>3, <1>5, <1>6
<1>. QED
    BY <1>4, <1>5, <1>7 DEF r

LEMMA AnnounceKeeps ==
    ASSUME HubInv, Announce
    PROVE  HubInv'
<1>1. ASSUME NEW s \in Sockets PROVE sockets'[s] \in SocketType /\ SocketOK(sockets'[s])
    <2>1. sockets[s] \in SocketType /\ SocketOK(sockets[s])
        BY DEF HubInv
    <2>2. CASE sockets[s].state = "closed"
        BY <2>2, ClosedOK DEF Announce
    <2>3. CASE sockets[s].state # "closed"
        <3>. DEFINE r == Offer(Outdated(sockets[s].queue), "newest")
        <3>1. r \in Seq(Messages) /\ Len(r) <= QueueSize /\ r # <<>> /\ r[Len(r)] = "newest"
            BY <2>1, OfferOK DEF SocketOK, SocketType
        <3>2. sockets'[s] = [sockets[s] EXCEPT !.queue = r, !.got = "outdated"]
            BY <2>3 DEF Announce
        <3>. HIDE DEF r
        <3>3. /\ sockets'[s] \in SocketType /\ sockets'[s].state = "open"
              /\ sockets'[s].queue = r
            BY <2>1, <2>3, <3>1, <3>2 DEF SocketType, Messages
        <3>. QED
            BY <3>1, <3>3 DEF SocketOK
    <2>. QED
        BY <2>2, <2>3
<1>2. sockets' = [s \in Sockets |-> sockets'[s]]
    BY DEF Announce
<1>. QED
    BY <1>1, <1>2 DEF HubInv

LEMMA SocketSteps ==
    ASSUME HubInv, NEW s \in Sockets, Connect(s) \/ Send(s) \/ Disconnect(s)
    PROVE  HubInv'
<1>1. sockets[s] \in SocketType /\ SocketOK(sockets[s])
    BY DEF HubInv
<1>2. ASSUME NEW x \in SocketType, SocketOK(x), sockets' = [sockets EXCEPT ![s] = x]
      PROVE  HubInv'
    BY <1>2 DEF HubInv
<1>3. CASE Connect(s)
    <2>. DEFINE x == [sockets[s] EXCEPT !.state = "open"]
    <2>1. sockets[s] = Closed
        BY <1>1, <1>3 DEF Connect, SocketOK
    <2>2. x = [state |-> "open", queue |-> <<>>, got |-> "newest"]
        BY <2>1 DEF Closed
    <2>3. QueueSize \in Nat /\ <<>> \in Seq(Messages) /\ Len(<<>>) = 0
        BY WorkerAssumption DEF WorkerAssumption
    <2>4. sockets' = [sockets EXCEPT ![s] = x]
        BY <1>3 DEF Connect, HubInv
    <2>. HIDE DEF x
    <2>5. x \in SocketType /\ x.state = "open" /\ x.queue = <<>> /\ x.got = "newest"
        BY <2>2, <2>3 DEF SocketType, Messages
    <2>6. SocketOK(x)
        BY <2>3, <2>5 DEF SocketOK
    <2>. QED
        BY <1>2, <2>4, <2>5, <2>6
<1>4. CASE Send(s)
    <2>. DEFINE q == sockets[s].queue
               x == [sockets[s] EXCEPT !.queue = Tail(q), !.got = Head(q)]
    <2>1. q \in Seq(Messages) /\ q # <<>> /\ Len(q) <= QueueSize /\ sockets[s].state = "open"
        BY <1>1, <1>4 DEF Send, SocketOK, SocketType
    <2>2. Tail(q) \in Seq(Messages) /\ Len(Tail(q)) = Len(q) - 1 /\ Head(q) \in Messages
        BY <2>1
    <2>3. q[Len(q)] = "newest"
        BY <1>1, <2>1 DEF SocketOK
    <2>4. IF Tail(q) = <<>> THEN Head(q) = "newest" ELSE Tail(q)[Len(Tail(q))] = "newest"
        <3>1. Len(q) \in Nat /\ Len(q) > 0 /\ Head(q) = q[1]
            BY <2>1
        <3>2. CASE Tail(q) = <<>>
            <4>1. Len(<<>>) = 0
                OBVIOUS
            <4>2. Len(Tail(q)) = 0
                BY <3>2, <4>1, Zenon
            <4>3. Len(q) - 1 = 0
                BY <2>2, <4>2, Zenon
            <4>4. Len(q) = 1
                BY <3>1, <4>3
            <4>. QED
                BY <2>3, <3>1, <3>2, <4>4
        <3>3. CASE Tail(q) # <<>>
            <4>1. Len(q) - 1 \in Nat /\ Len(q) - 1 > 0
                BY <2>2, <3>1, <3>3
            <4>2. Tail(q)[Len(q) - 1] = q[(Len(q) - 1) + 1]
                BY <2>1, <3>1, <4>1
            <4>3. (Len(q) - 1) + 1 = Len(q)
                BY <3>1
            <4>. QED
                BY <2>2, <2>3, <3>3, <4>2, <4>3
        <3>. QED
            BY <3>2, <3>3
    <2>5. /\ x \in SocketType /\ x.state = "open" /\ x.queue = Tail(q) /\ x.got = Head(q)
        BY <1>1, <2>1, <2>2 DEF SocketType
    <2>6. QueueSize \in Nat
        BY WorkerAssumption DEF WorkerAssumption
    <2>7. sockets' = [sockets EXCEPT ![s] = x]
        BY <1>4 DEF Send
    <2>8. Len(Tail(q)) <= QueueSize
        BY <2>1, <2>2, <2>6
    <2>. HIDE DEF x
    <2>9. Len(x.queue) <= QueueSize
        BY <2>5, <2>8
    <2>10. "newest" = IF x.queue = <<>> THEN x.got ELSE x.queue[Len(x.queue)]
        BY <2>4, <2>5
    <2>11. SocketOK(x)
        BY <2>5, <2>9, <2>10 DEF SocketOK
    <2>. QED
        BY <1>2, <2>5, <2>7, <2>11
<1>5. CASE Disconnect(s)
    BY <1>2, <1>5, ClosedOK DEF Disconnect
<1>. QED
    BY <1>3, <1>4, <1>5

-----------------------------------------------------------------------------
(* The loop.                                                                *)

LoopTypes ==
    /\ clock \in Nat /\ mode \in Modes /\ remaining \in Nat /\ drift \in 0..MaxDrift
    /\ reason \in Reasons /\ met \subseteq Nat /\ lastStart \in Nat \cup {Never}
    /\ restarts \in 0..MaxRestarts

(* The end of the sleep under way, without and with all it may overrun.     *)
Rests     == clock + remaining * Second
LatestEnd == Rests + (MaxDrift - drift)

(* Every session that is over at t has seen a cycle.                        *)
MetBy(t) == \A d \in Nat \ {0} : TradingDay(d) /\ Closing(d) <= t => d \in met

ModeInv ==
    /\ mode = "check" => remaining = 0
    /\ mode = "cycle" => IsOpen(clock) /\ Day(clock) \in met /\ lastStart = clock

(* No session ends while it sleeps but one that it has met.                 *)
MeetInv == MetBy(IF mode = "sleep" THEN LatestEnd ELSE clock)

(* A sleep until the opening has a second to spare, and not more.           *)
WakeInv ==
    mode = "sleep" /\ reason = "closed" =>
        \A d \in Nat : TradingDay(d) /\ clock < Closing(d)
            => Rests - drift <= Opening(d) + Second

(* The pause that the last cycle has left.                                  *)
PaceInv ==
    lastStart # Never /\ mode # "cycle" =>
        Rests - lastStart >= (IF reason = "circuit" THEN 1 ELSE Cadence) * Second

LoopInv == LoopTypes /\ ModeInv /\ MeetInv /\ WakeInv /\ PaceInv

LEMMA Units ==
    /\ Second \in Nat /\ Second > 0 /\ DayLength \in Nat /\ OpenAt \in Nat /\ CloseAt \in Nat
    /\ OpenAt < CloseAt /\ CloseAt < DayLength /\ MaxDrift \in Nat
    /\ Cadence \in Nat /\ Cadence > 0 /\ Slice \in Nat /\ Slice > 0
    /\ CycleTimes \subseteq Nat /\ RetryAfters \subseteq Nat /\ MaxRestarts \in Nat
    BY HoursAssumption, WorkerAssumption DEF HoursAssumption, WorkerAssumption

LEMMA SleepEnds ==
    ASSUME LoopTypes
    PROVE  /\ Rests \in Nat /\ LatestEnd \in Nat /\ remaining * Second \in Nat
           /\ clock <= Rests /\ Rests <= LatestEnd
<1>1. /\ clock \in Nat /\ remaining \in Nat /\ drift \in Nat /\ drift <= MaxDrift
      /\ MaxDrift \in Nat /\ Second \in Nat
    BY Units DEF LoopTypes
<1>2. remaining * Second \in Nat
    BY <1>1
<1>. QED
    BY <1>1, <1>2 DEF Rests, LatestEnd

LEMMA MetEarlier ==
    ASSUME NEW t \in Nat, NEW u \in Nat, t <= u, MetBy(u)
    PROVE  MetBy(t)
<1>. SUFFICES ASSUME NEW d \in Nat \ {0}, TradingDay(d), Closing(d) <= t PROVE d \in met
    BY DEF MetBy
<1>1. d * DayLength \in Nat /\ CloseAt \in Nat
    BY Units
<1>2. Closing(d) <= u
    BY <1>1 DEF Closing
<1>. QED
    BY <1>2 DEF MetBy

LEMMA LoopInit == WorkerInit => LoopInv /\ HubInv
<1>. SUFFICES ASSUME WorkerInit PROVE LoopInv /\ HubInv
    OBVIOUS
<1>1. LoopTypes
    BY Units DEF WorkerInit, LoopTypes, Modes, Reasons
<1>2. ModeInv /\ WakeInv /\ PaceInv
    BY DEF WorkerInit, ModeInv, WakeInv, PaceInv
<1>3. MeetInv
    <2>. SUFFICES ASSUME NEW d \in Nat \ {0}, Closing(d) <= clock PROVE FALSE
        BY DEF WorkerInit, MeetInv, MetBy
    <2>1. 0 * DayLength + DayLength <= d * DayLength /\ d * DayLength \in Nat
        BY LaterDay
    <2>2. 0 * DayLength = 0
        BY Units
    <2>. QED
        BY <2>1, <2>2, Units DEF WorkerInit, Closing
<1>4. HubInv
    BY ClosedOK DEF WorkerInit, HubInv
<1>. QED
    BY <1>1, <1>2, <1>3, <1>4 DEF LoopInv

LEMMA CheckKeeps ==
    ASSUME LoopInv, Check
    PROVE  LoopInv'
<1>1. LoopTypes /\ mode = "check" /\ remaining = 0 /\ MetBy(clock) /\ clock' = clock
    BY DEF LoopInv, ModeInv, MeetInv, Check
<1>2. clock \in Nat
    BY <1>1 DEF LoopTypes
<1>3. CASE IsOpen(clock)
    <2>1. /\ mode' = "cycle" /\ met' = met \cup {Day(clock)} /\ lastStart' = clock
          /\ remaining' = remaining /\ drift' = drift /\ reason' = reason /\ restarts' = restarts
        BY <1>3 DEF Check
    <2>2. Day(clock) \in Nat
        BY <1>2, DayAndTime
    <2>3. LoopTypes'
        BY <1>1, <2>1, <2>2 DEF LoopTypes, Modes
    <2>4. ModeInv' /\ WakeInv' /\ PaceInv'
        BY <1>1, <1>3, <2>1 DEF ModeInv, WakeInv, PaceInv
    <2>5. MeetInv'
        BY <1>1, <2>1 DEF MeetInv, MetBy
    <2>. QED
        BY <2>3, <2>4, <2>5 DEF LoopInv
<1>4. CASE ~IsOpen(clock)
    <2>1. PICK n \in Nat : /\ n = SecondsUntil(clock) /\ n >= 1
                           /\ clock + n * Second <= NextOpen(clock) + Second
        BY <1>2, <1>4, SecondsReachOpening
    <2>2. /\ mode' = "sleep" /\ remaining' = AtLeastOne(n) /\ drift' = 0
          /\ reason' = "closed" /\ lastStart' = Never /\ met' = met
          /\ restarts' = restarts
        BY <1>4, <2>1 DEF Check, Sleep
    <2>3. NextOpen(clock) \in Nat /\ n * Second \in Nat
        BY <1>2, <2>1, NextOpenIsFirst, Units
    <2>4. remaining' = n
        BY <2>2, <2>1 DEF AtLeastOne
    <2>5. LoopTypes'
        BY <1>1, <2>2, <2>1, <2>4, Units DEF LoopTypes, Modes, Reasons
    <2>6. Rests' = clock + n * Second /\ LatestEnd' = clock + n * Second + MaxDrift
        BY <1>1, <1>2, <2>2, <2>3, <2>4, Units DEF Rests, LatestEnd
    <2>7. ModeInv' /\ PaceInv'
        BY <2>2 DEF ModeInv, PaceInv
    <2>8. ASSUME NEW d \in Nat, TradingDay(d), clock < Closing(d)
          PROVE  NextOpen(clock) <= Opening(d) /\ Opening(d) \in Nat
                   /\ Closing(d) = Opening(d) + (CloseAt - OpenAt)
        <3>1. NextOpen(clock) <= Opening(d) /\ Opening(d) \in Nat
            BY <1>2, <1>4, <2>8, SessionAfter
        <3>2. d * DayLength \in Nat
            BY Units
        <3>3. Closing(d) = Opening(d) + (CloseAt - OpenAt)
            BY <3>2, Units DEF Closing, Opening
        <3>. QED
            BY <3>1, <3>3
    <2>9. WakeInv'
        <3>. SUFFICES ASSUME NEW d \in Nat, TradingDay(d), clock' < Closing(d)
                      PROVE  Rests' - drift' <= Opening(d) + Second
            BY DEF WakeInv
        <3>1. NextOpen(clock) <= Opening(d) /\ Opening(d) \in Nat
            BY <1>1, <2>8
        <3>2. Rests' - drift' = clock + n * Second
            BY <1>2, <2>2, <2>3, <2>6
        <3>. QED
            BY <1>2, <2>1, <2>3, <3>1, <3>2, Units
    <2>10. MeetInv'
        <3>. SUFFICES ASSUME NEW d \in Nat \ {0}, TradingDay(d), Closing(d) <= LatestEnd'
                      PROVE  d \in met
            BY <2>2 DEF MeetInv, MetBy
        <3>1. Closing(d) \in Nat
            BY Units DEF Closing
        <3>2. CASE clock < Closing(d)
            <4>1. NextOpen(clock) <= Opening(d) /\ Opening(d) \in Nat
                    /\ Closing(d) = Opening(d) + (CloseAt - OpenAt)
                BY <2>8, <3>2
            <4>2. Second + MaxDrift < CloseAt - OpenAt
                BY PromptAssumption DEF PromptAssumption
            <4>3. clock + n * Second + MaxDrift < Closing(d)
                BY <1>2, <2>1, <2>3, <4>1, <4>2, Units
            <4>. QED
                BY <1>2, <2>3, <2>6, <3>1, <4>3, Units
        <3>3. CASE ~(clock < Closing(d))
            <4>1. Closing(d) <= clock
                BY <1>2, <3>1, <3>3
            <4>. QED
                BY <1>1, <4>1 DEF MetBy
        <3>. QED
            BY <3>2, <3>3
    <2>. QED
        BY <2>5, <2>7, <2>9, <2>10 DEF LoopInv
<1>. QED
    BY <1>3, <1>4

(* The pause after a cycle ends before the session of the next day does.    *)
LEMMA CycleKeeps ==
    ASSUME LoopInv, Cycle
    PROVE  LoopInv'
<1>1. /\ LoopTypes /\ mode = "cycle" /\ IsOpen(clock) /\ Day(clock) \in met
      /\ lastStart = clock /\ MetBy(clock)
    BY DEF LoopInv, ModeInv, MeetInv, Cycle
<1>2. clock \in Nat /\ met' = met /\ lastStart' = lastStart /\ restarts' = restarts
    BY <1>1 DEF LoopTypes, Cycle
<1>3. PICK d \in CycleTimes :
        /\ clock' = clock + d
        /\ \/ Sleep(Cadence, "cadence")
           \/ \E r \in RetryAfters : Sleep(Pause(r), "circuit")
    BY DEF Cycle
<1>4. PICK n \in RetryAfters \cup {Cadence} :
        Sleep(n, "circuit") \/ (n = Cadence /\ Sleep(n, "cadence"))
    BY <1>3 DEF Pause
<1>5. /\ d \in Nat /\ n \in Nat /\ mode' = "sleep" /\ remaining' = AtLeastOne(n)
      /\ drift' = 0 /\ reason' \in {"cadence", "circuit"}
      /\ reason' = "cadence" => n = Cadence
    BY <1>4, Units DEF Sleep
<1>6. PICK k \in Nat : k = AtLeastOne(n) /\ k >= 1 /\ (n = Cadence => k = Cadence)
    BY <1>5, Units DEF AtLeastOne
<1>7. d + k * Second + MaxDrift <= DayLength /\ k * Second \in Nat
    BY <1>5, <1>6, PromptAssumption, Units DEF PromptAssumption
<1>8. /\ Rests' = clock + d + k * Second
      /\ LatestEnd' = clock + d + k * Second + MaxDrift
    BY <1>2, <1>3, <1>5, <1>6, <1>7, Units DEF Rests, LatestEnd
<1>9. LoopTypes'
    BY <1>1, <1>2, <1>3, <1>5, <1>6, Units DEF LoopTypes, Modes, Reasons
<1>10. ModeInv' /\ WakeInv'
    BY <1>5 DEF ModeInv, WakeInv
<1>11. PaceInv'
    <2>1. lastStart' = clock /\ Rests' - clock = d + k * Second
        BY <1>1, <1>2, <1>5, <1>7, <1>8
    <2>2. 1 * Second <= k * Second /\ 1 * Second \in Nat /\ Cadence * Second \in Nat
        BY <1>6, Units
    <2>3. (IF reason' = "circuit" THEN 1 ELSE Cadence) * Second <= k * Second
        <3>1. CASE reason' = "circuit"
            BY <2>2, <3>1
        <3>2. CASE reason' # "circuit"
            <4>1. k = Cadence
                BY <1>5, <1>6, <3>2
            <4>. QED
                BY <2>2, <3>2, <4>1
        <3>. QED
            BY <3>1, <3>2
    <2>4. (IF reason' = "circuit" THEN 1 ELSE Cadence) * Second \in Nat
        BY <2>2
    <2>5. d + k * Second >= (IF reason' = "circuit" THEN 1 ELSE Cadence) * Second
        BY <1>5, <1>7, <2>3, <2>4
    <2>. QED
        BY <2>1, <2>5 DEF PaceInv
<1>12. MeetInv'
    <2>. DEFINE j == Day(clock)
    <2>1. j \in Nat /\ Opening(j) <= clock /\ clock < Closing(j)
        BY <1>1, <1>2, OpenIsSession
    <2>. SUFFICES ASSUME NEW e \in Nat \ {0}, TradingDay(e), Closing(e) <= LatestEnd'
                  PROVE  e \in met
        BY <1>2, <1>5 DEF MeetInv, MetBy
    <2>2. j * DayLength \in Nat /\ e * DayLength \in Nat /\ j \in met
        BY <1>1, <2>1, Units
    <2>. HIDE DEF j
    <2>3. CASE e < j
        <3>1. e * DayLength + DayLength <= j * DayLength
            BY <2>1, <2>3, LaterDay
        <3>2. Closing(e) <= clock
            BY <1>2, <2>1, <2>2, <3>1, Units DEF Closing, Opening
        <3>. QED
            BY <1>1, <3>2 DEF MetBy
    <2>4. CASE j < e
        <3>1. j * DayLength + DayLength <= e * DayLength
            BY <2>1, <2>4, LaterDay
        <3>2. clock + DayLength < Closing(e)
            BY <1>2, <2>1, <2>2, <3>1, Units DEF Closing
        <3>3. LatestEnd' <= clock + DayLength /\ LatestEnd' \in Nat
            BY <1>2, <1>5, <1>7, <1>8, Units
        <3>. QED
            BY <1>2, <2>2, <3>2, <3>3, Units DEF Closing
    <2>. QED
        BY <2>1, <2>2, <2>3, <2>4
<1>. QED
    BY <1>9, <1>10, <1>11, <1>12 DEF LoopInv

(* A slice moves the clock towards the end of the sleep, not the end.       *)
LEMMA SliceKeeps ==
    ASSUME LoopInv, SleepSlice
    PROVE  LoopInv'
<1>1. LoopTypes /\ mode = "sleep" /\ MetBy(LatestEnd)
    BY DEF LoopInv, MeetInv, SleepSlice
<1>2. PICK lag \in 0..MaxDrift - drift :
        clock' = clock + NextSlice * Second + lag /\ drift' = drift + lag
    BY DEF SleepSlice
<1>3. /\ remaining' = remaining - NextSlice
      /\ mode' = IF remaining' = 0 THEN "check" ELSE "sleep"
      /\ reason' = reason /\ met' = met /\ lastStart' = lastStart /\ restarts' = restarts
    BY DEF SleepSlice, Rest
<1>4. /\ clock \in Nat /\ remaining \in Nat /\ drift \in Nat /\ drift <= MaxDrift
      /\ lag \in Nat /\ drift + lag <= MaxDrift
    BY <1>1, <1>2, Units DEF LoopTypes
<1>5. NextSlice \in Nat /\ NextSlice <= remaining
    BY <1>4, Units DEF NextSlice
<1>6. /\ NextSlice * Second \in Nat /\ remaining * Second \in Nat
      /\ remaining' * Second = remaining * Second - NextSlice * Second
    BY <1>3, <1>4, <1>5, Units
<1>7. Rests' = Rests + lag /\ LatestEnd' = LatestEnd /\ clock <= clock'
    BY <1>2, <1>4, <1>6, Units DEF Rests, LatestEnd
<1>8. LoopTypes'
    <2>1. clock' \in Nat /\ remaining' \in Nat /\ drift' \in 0..MaxDrift
        BY <1>2, <1>3, <1>4, <1>5, <1>6, Units
    <2>. QED
        BY <1>1, <1>3, <2>1 DEF LoopTypes, Modes
<1>9. /\ Rests \in Nat /\ LatestEnd \in Nat /\ clock' \in Nat /\ Rests' \in Nat
      /\ clock' <= LatestEnd'
    <2>1. Rests \in Nat /\ LatestEnd \in Nat
        BY <1>1, SleepEnds
    <2>2. clock' \in Nat /\ remaining' \in Nat /\ remaining' * Second \in Nat
        <3>1. clock' \in Nat /\ remaining' \in Nat /\ Second \in Nat
            BY <1>8, Units DEF LoopTypes
        <3>2. \A n \in Nat : n * Second \in Nat
            BY <3>1
        <3>. QED
            BY <3>1, <3>2
    <2>3. clock' <= LatestEnd
        BY <1>2, <1>4, <1>6, <2>2, Units DEF Rests, LatestEnd
    <2>. QED
        BY <1>4, <1>7, <2>1, <2>2, <2>3
<1>10. MeetInv'
    <2>1. MetBy(LatestEnd)' /\ MetBy(clock)'
        <3>1. MetBy(LatestEnd')
            BY <1>1, <1>7
        <3>2. MetBy(clock')
            BY <1>7, <1>9, <3>1, MetEarlier
        <3>. QED
            BY <1>3, <3>1, <3>2 DEF MetBy
    <2>. QED
        BY <2>1 DEF MeetInv
<1>11. ModeInv'
    BY <1>3 DEF ModeInv
<1>12. WakeInv'
    <2>. SUFFICES ASSUME reason = "closed", NEW d \in Nat, TradingDay(d), clock' < Closing(d)
                  PROVE  Rests' - drift' <= Opening(d) + Second
        BY <1>3 DEF WakeInv
    <2>1. d * DayLength \in Nat
        BY Units
    <2>2. clock < Closing(d)
        BY <1>4, <1>7, <1>9, <2>1, Units DEF Closing
    <2>3. Rests - drift <= Opening(d) + Second
        BY <1>1, <2>2 DEF LoopInv, WakeInv
    <2>4. Rests' - drift' = Rests - drift
        BY <1>2, <1>4, <1>7, <1>9
    <2>. QED
        BY <2>3, <2>4
<1>13. PaceInv'
    <2>. SUFFICES ASSUME lastStart # Never
                  PROVE  Rests' - lastStart >= (IF reason = "circuit" THEN 1 ELSE Cadence) * Second
        BY <1>3 DEF PaceInv
    <2>. DEFINE pause == (IF reason = "circuit" THEN 1 ELSE Cadence) * Second
    <2>1. Rests - lastStart >= pause
        BY <1>1 DEF LoopInv, PaceInv
    <2>2. lastStart \in Nat /\ pause \in Nat
        BY <1>1, Units DEF LoopTypes
    <2>. HIDE DEF pause
    <2>3. Rests' - lastStart >= pause
        BY <1>4, <1>7, <1>9, <2>1, <2>2
    <2>. QED
        BY <2>3 DEF pause
<1>. QED
    BY <1>8, <1>10, <1>11, <1>12, <1>13 DEF LoopInv

LEMMA RestartKeeps ==
    ASSUME LoopInv, Restart
    PROVE  LoopInv' /\ HubInv'
<1>1. LoopTypes
    BY DEF LoopInv
<1>2. /\ mode' = "check" /\ remaining' = 0 /\ drift' = 0 /\ reason' = "none"
      /\ lastStart' = Never /\ clock' = clock /\ met' = met
      /\ restarts < MaxRestarts /\ restarts' = restarts + 1
      /\ sockets' = [s \in Sockets |-> Closed]
    BY DEF Restart
<1>3. LoopTypes'
    BY <1>1, <1>2, Units DEF LoopTypes, Modes, Reasons
<1>4. ModeInv' /\ WakeInv' /\ PaceInv'
    BY <1>2 DEF ModeInv, WakeInv, PaceInv
<1>5. MetBy(clock)
    <2>1. clock \in Nat /\ LatestEnd \in Nat /\ clock <= LatestEnd
        BY <1>1, SleepEnds DEF LoopTypes
    <2>. QED
        BY <2>1, MetEarlier DEF LoopInv, MeetInv
<1>6. MeetInv'
    BY <1>2, <1>5 DEF MeetInv, MetBy
<1>7. HubInv'
    BY <1>2, ClosedOK DEF HubInv
<1>. QED
    BY <1>3, <1>4, <1>6, <1>7 DEF LoopInv

LEMMA LoopStands ==
    ASSUME LoopInv, UNCHANGED <<clock, worker, restarts>>
    PROVE  LoopInv'
    BY DEF LoopInv, LoopTypes, ModeInv, MeetInv, WakeInv, PaceInv, worker, MetBy, Rests, LatestEnd

LEMMA WorkerStep == LoopInv /\ HubInv /\ [WorkerNext]_workerVars => LoopInv' /\ HubInv'
<1>. SUFFICES ASSUME LoopInv, HubInv, [WorkerNext]_workerVars PROVE LoopInv' /\ HubInv'
    OBVIOUS
<1>1. ASSUME UNCHANGED sockets PROVE HubInv'
    BY <1>1 DEF HubInv
<1>2. CASE UNCHANGED workerVars
    BY <1>1, <1>2, LoopStands DEF workerVars
<1>3. CASE Check
    BY <1>1, <1>3, CheckKeeps DEF Check
<1>4. CASE Cycle
    <2>1. Announce \/ UNCHANGED sockets
        BY <1>4 DEF Cycle
    <2>. QED
        BY <1>1, <1>4, <2>1, CycleKeeps, AnnounceKeeps
<1>5. CASE SleepSlice
    BY <1>1, <1>5, SliceKeeps DEF SleepSlice
<1>6. CASE Restart
    BY <1>6, RestartKeeps
<1>7. ASSUME NEW s \in Sockets, Connect(s) \/ Send(s) \/ Disconnect(s)
      PROVE  LoopInv' /\ HubInv'
    <2>1. UNCHANGED <<clock, worker, restarts>>
        BY <1>7 DEF Connect, Send, Disconnect
    <2>. QED
        BY <1>7, <2>1, LoopStands, SocketSteps
<1>. QED
    BY <1>2, <1>3, <1>4, <1>5, <1>6, <1>7 DEF WorkerNext

LEMMA LoopInvHolds == WorkerSpec => [](LoopInv /\ HubInv)
    BY LoopInit, WorkerStep, PTL DEF WorkerSpec

(* In every instant of any calendar and at any pace of the clients the loop *)
(* knows the next opening, is at most a second late for it, and a queue     *)
(* ends with what was published last.                                       *)
THEOREM WorkerSound == WorkerSpec => []WorkerInv
<1>1. LoopInv /\ HubInv => WorkerInv
    <2>. SUFFICES ASSUME LoopInv, HubInv PROVE WorkerInv
        OBVIOUS
    <2>1. WorkerTypeOK
        BY DEF LoopInv, LoopTypes, HubInv, SocketType, SocketOK, WorkerTypeOK
    <2>2. NextOpenIsNext
        <3>1. clock \in Nat
            BY DEF LoopInv, LoopTypes
        <3>2. /\ NextOpen(clock) \in Nat /\ clock <= NextOpen(clock) /\ IsOpen(NextOpen(clock))
              /\ \A s \in Nat : clock <= s /\ IsOpen(s) => NextOpen(clock) <= s
            BY <3>1, NextOpenIsFirst
        <3>3. ASSUME NEW t \in clock..NextOpen(clock) - 1 PROVE ~IsOpen(t)
            <4>1. t \in Nat /\ clock <= t /\ ~(NextOpen(clock) <= t)
                BY <3>1, <3>2
            <4>. QED
                BY <3>2, <4>1
        <3>. QED
            BY <3>1, <3>2, <3>3 DEF NextOpenIsNext
    <2>3. NotOverslept
        <3>. SUFFICES ASSUME mode = "sleep", reason = "closed", IsOpen(clock)
                      PROVE  clock - Opening(Day(clock)) <= Second + drift
            BY DEF NotOverslept
        <3>1. /\ LoopTypes /\ clock \in Nat /\ drift \in Nat /\ Rests \in Nat /\ clock <= Rests
            BY SleepEnds, Units DEF LoopInv, LoopTypes
        <3>2. /\ Day(clock) \in Nat /\ TradingDay(Day(clock)) /\ clock < Closing(Day(clock))
            BY <3>1, OpenIsSession
        <3>3. Rests - drift <= Opening(Day(clock)) + Second
            BY <3>2 DEF LoopInv, WakeInv
        <3>4. Opening(Day(clock)) \in Nat
            BY <3>2, OpeningsFollow
        <3>. QED
            BY <3>1, <3>3, <3>4, Units
    <2>4. NewestReaches
        BY DEF HubInv, SocketOK, NewestReaches
    <2>. QED
        BY <2>1, <2>2, <2>3, <2>4 DEF WorkerInv
<1>. QED
    BY <1>1, LoopInvHolds, PTL

(* No trading day passes without a cycle, wherever weekends and closures    *)
(* fall, whatever the circuit asks for and whenever the process dies.       *)
THEOREM SessionsAreMet == WorkerSpec => []SessionsMet
<1>1. LoopInv => SessionsMet
    <2>. SUFFICES ASSUME LoopInv, NEW d \in 1..Day(clock), TradingDay(d),
                         clock >= d * DayLength + CloseAt
                  PROVE  d \in met
        BY DEF SessionsMet
    <2>1. LoopTypes /\ clock \in Nat /\ LatestEnd \in Nat /\ clock <= LatestEnd
        BY SleepEnds DEF LoopInv, LoopTypes
    <2>2. MetBy(clock)
        BY <2>1, MetEarlier DEF LoopInv, MeetInv
    <2>3. d \in Nat \ {0} /\ Closing(d) \in Nat
        <3>1. Day(clock) \in Nat
            BY <2>1, DayAndTime
        <3>2. d \in Nat \ {0}
            BY <3>1
        <3>. QED
            BY <3>2, Units DEF Closing
    <2>. QED
        BY <2>1, <2>2, <2>3 DEF MetBy, Closing
<1>. QED
    BY <1>1, LoopInvHolds, PTL

(* Two cycles of one life of the process are a cadence apart, or as far as  *)
(* the circuit has asked.                                                   *)
THEOREM CyclesPaced == WorkerSpec => Paced
<1>1. LoopInv /\ [WorkerNext]_workerVars
        => [lastStart' # lastStart /\ lastStart # Never /\ lastStart' # Never
              => lastStart' - lastStart >= (IF reason = "circuit" THEN 1 ELSE Cadence) * Second]_workerVars
    <2>. SUFFICES ASSUME LoopInv, WorkerNext, lastStart' # lastStart,
                         lastStart # Never, lastStart' # Never
                  PROVE  lastStart' - lastStart
                           >= (IF reason = "circuit" THEN 1 ELSE Cadence) * Second
        OBVIOUS
    <2>1. Check
        BY DEF WorkerNext, Cycle, SleepSlice, Restart, Connect, Send, Disconnect, worker
    <2>2. mode = "check" /\ lastStart' = clock
        BY <2>1 DEF Check
    <2>3. remaining = 0 /\ LoopTypes
        BY <2>2 DEF LoopInv, ModeInv
    <2>4. Rests = clock
        BY <2>3, Units DEF LoopTypes, Rests
    <2>. QED
        BY <2>2, <2>4 DEF LoopInv, PaceInv
<1>. QED
    BY <1>1, LoopInvHolds, PTL DEF WorkerSpec, Paced
=============================================================================
