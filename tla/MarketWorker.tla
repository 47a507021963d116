----------------------------- MODULE MarketWorker -----------------------------
(***************************************************************************)
(* The scheduler's worker (services/paper_broker/scheduler.py), started by *)
(* services/worker_main.py, over the calendar of TradingHours, and the     *)
(* live hub (services/collector/live_hub.py) that each collection of the   *)
(* process is published to, with the web socket handlers that read it      *)
(* (apps/api/routes/market_stream.py).                                     *)
(*                                                                         *)
(* A cycle is one step here: what happens in it is Radar's and             *)
(* TradingCycle's.                                                         *)
(***************************************************************************)
EXTENDS TradingHours, Sequences, FiniteSets

CONSTANTS
    Cadence,          \* seconds between cycles (60)
    Slice,            \* seconds of one asyncio.sleep (30)
    CycleTimes,       \* bound: units that a cycle may take
    RetryAfters,      \* seconds that an open circuit may ask for
    MaxDrift,         \* bound: units that the slices of a sleep overrun in all
    Sockets,          \* web sockets
    QueueSize,        \* messages in a subscriber's queue (2)
    End,              \* bound: the clock
    MaxRestarts       \* bound: deaths of the process

ASSUME WorkerAssumption ==
    /\ Cadence \in Nat \ {0} /\ Slice \in Nat \ {0} /\ QueueSize \in Nat \ {0}
    /\ CycleTimes \subseteq Nat /\ RetryAfters \subseteq Nat
    /\ MaxDrift \in Nat /\ End \in Nat /\ MaxRestarts \in Nat

(* A sleep overruns by less than a session; a cycle and the pause after it,  *)
(* 45 seconds and a cadence or a cooldown (config.py), fit into a day.       *)
ASSUME PromptAssumption ==
    /\ Second + MaxDrift < CloseAt - OpenAt
    /\ \A d \in CycleTimes, n \in RetryAfters \cup {Cadence} :
         d + AtLeastOne(n) * Second + MaxDrift <= DayLength

VARIABLES
    clock,
    mode,             \* the worker: "check" the session, in a "cycle", in a "sleep"
    remaining,        \* seconds left of its sleep
    drift,            \* units the sleep has overrun so far
    reason,           \* why it sleeps
    met,              \* days on which a cycle has started
    lastStart,        \* when the last one of the session did
    sockets,          \* handlers with their queues
    restarts

worker     == <<mode, remaining, drift, reason, met, lastStart>>
workerVars == <<clock, worker, sockets, restarts>>

Never   == -1
(* Of a message only matters whether a later one has been published; who has *)
(* just subscribed has missed nothing.                                      *)
Messages == {"newest", "outdated"}
Closed   == [state |-> "closed", queue |-> <<>>, got |-> "newest"]
Modes   == {"check", "cycle", "sleep"}
Reasons == {"none", "closed", "cadence", "circuit"}

WorkerInit ==
    /\ clock \in 0..DayLength - 1
    /\ mode = "check" /\ remaining = 0 /\ drift = 0 /\ reason = "none"
    /\ met = {} /\ lastStart = Never
    /\ sockets = [s \in Sockets |-> Closed]
    /\ restarts = 0

-----------------------------------------------------------------------------
(* The hub.                                                                 *)

Outdated(queue) == [k \in DOMAIN queue |-> "outdated"]

(* The oldest message makes room.                                           *)
Offer(queue, m) ==
    Append(IF Len(queue) = QueueSize THEN Tail(queue) ELSE queue, m)

Announce ==
    sockets' = [s \in Sockets |->
        IF sockets[s].state = "closed" THEN Closed
        ELSE [sockets[s] EXCEPT !.queue = Offer(Outdated(@), "newest"), !.got = "outdated"]]

(* The handler subscribes and greets.  If the client has gone by then, the  *)
(* subscription stays for ever: an open one that nobody reads.              *)
Connect(s) ==
    /\ sockets[s].state = "closed"
    /\ sockets' = [sockets EXCEPT ![s].state = "open"]
    /\ UNCHANGED <<clock, worker, restarts>>

(* A message is sent, or the client has gone and the handler unsubscribes;  *)
(* without a message for 30 seconds that is found out by a heartbeat.       *)
Send(s) ==
    /\ sockets[s].state = "open" /\ sockets[s].queue # <<>>
    /\ sockets' = [sockets EXCEPT ![s].queue = Tail(@), ![s].got = Head(sockets[s].queue)]
    /\ UNCHANGED <<clock, worker, restarts>>

Disconnect(s) ==
    /\ sockets[s].state = "open"
    /\ sockets' = [sockets EXCEPT ![s] = Closed]
    /\ UNCHANGED <<clock, worker, restarts>>

-----------------------------------------------------------------------------
(* The worker.                                                              *)

Sleep(n, why) ==
    /\ mode' = "sleep" /\ remaining' = AtLeastOne(n) /\ drift' = 0 /\ reason' = why

Check ==
    /\ mode = "check" /\ clock < End
    /\ IF IsOpen(clock)
       THEN /\ mode' = "cycle" /\ met' = met \cup {Day(clock)} /\ lastStart' = clock
            /\ UNCHANGED <<remaining, drift, reason>>
       ELSE /\ Sleep(SecondsUntil(clock), "closed")
            /\ lastStart' = Never /\ UNCHANGED met
    /\ UNCHANGED <<clock, sockets, restarts>>

(* Mutant: the circuit's seconds are taken for minutes. *)
Pause_Minutes(r) == 60 * r
Pause(r) == r

(* Mutant: an exception of the cycle ends the loop, which then has no cycle. *)
Cycle_Escapes ==
    /\ mode = "cycle" /\ lastStart # Never
    /\ \E d \in CycleTimes :
         /\ clock' = clock + d
         /\ \/ Sleep(Cadence, "cadence") /\ UNCHANGED lastStart
            \/ lastStart' = Never /\ UNCHANGED <<mode, remaining, drift, reason>>
    /\ UNCHANGED <<met, sockets, restarts>>

(* A cycle publishes what it has collected, fails, or is refused by the     *)
(* circuit breaker.                                                         *)
Cycle ==
    /\ mode = "cycle"
    /\ \E d \in CycleTimes :
         /\ clock' = clock + d
         /\ \/ Sleep(Cadence, "cadence") /\ (Announce \/ UNCHANGED sockets)
            \/ \E r \in RetryAfters : Sleep(Pause(r), "circuit") /\ UNCHANGED sockets
    /\ UNCHANGED <<met, lastStart, restarts>>

NextSlice == IF remaining < Slice THEN remaining ELSE Slice

(* Mutant: a sleep is one slice. *)
Rest_None == 0
Rest == remaining - NextSlice

SleepSlice ==
    /\ mode = "sleep"
    /\ \E lag \in 0..MaxDrift - drift :
         /\ clock' = clock + NextSlice * Second + lag
         /\ drift' = drift + lag
    /\ remaining' = Rest
    /\ mode' = IF Rest = 0 THEN "check" ELSE "sleep"
    /\ UNCHANGED <<reason, met, lastStart, sockets, restarts>>

(* The process dies and is started again at once; its hub is in memory.     *)
Restart ==
    /\ restarts < MaxRestarts /\ restarts' = restarts + 1
    /\ mode' = "check" /\ remaining' = 0 /\ drift' = 0 /\ reason' = "none"
    /\ lastStart' = Never /\ sockets' = [s \in Sockets |-> Closed]
    /\ UNCHANGED <<clock, met>>

WorkerNext ==
    \/ Check \/ Cycle \/ SleepSlice \/ Restart
    \/ \E s \in Sockets : Connect(s) \/ Send(s) \/ Disconnect(s)

WorkerSpec == WorkerInit /\ [][WorkerNext]_workerVars

(* The loop is never left, and every wait in it is bounded.                 *)
FairWorkerSpec == WorkerSpec /\ WF_workerVars(Check \/ Cycle \/ SleepSlice)

-----------------------------------------------------------------------------
(* Properties.                                                              *)

WorkerTypeOK ==
    /\ clock \in Nat /\ mode \in Modes /\ remaining \in Nat /\ drift \in 0..MaxDrift
    /\ reason \in Reasons /\ met \subseteq Nat /\ lastStart \in Nat \cup {Never}
    /\ restarts \in 0..MaxRestarts
    /\ sockets \in [Sockets -> [state : {"closed", "open"},
                                queue : Seq(Messages), got : Messages]]
    /\ \A s \in Sockets : Len(sockets[s].queue) <= QueueSize

(* next_tse_market_open is the first instant from now on that is in a        *)
(* session, whatever weekend and closures lie between.                       *)
NextOpenIsNext ==
    /\ IsOpen(NextOpen(clock)) /\ NextOpen(clock) >= clock
    /\ \A t \in clock..NextOpen(clock) - 1 : ~IsOpen(t)

(* A sleep until the opening ends at most a second late, but for what its    *)
(* slices overrun, although the fraction of a second is cut off and a wait   *)
(* of none is rounded up.                                                    *)
NotOverslept ==
    mode = "sleep" /\ reason = "closed" /\ IsOpen(clock)
        => clock - Opening(Day(clock)) <= Second + drift

(* Every session is collected from: neither the weekend, nor a closure, nor  *)
(* the wait for a circuit or a death of the process makes the worker miss a  *)
(* trading day.                                                              *)
SessionsMet ==
    \A d \in 1..Day(clock) :
        TradingDay(d) /\ clock >= d * DayLength + CloseAt => d \in met

(* Within a life of the process the provider is asked at most once per       *)
(* cadence, unless the circuit said how long to wait, and then not at once.  *)
Paced ==
    [][lastStart' # lastStart /\ lastStart # Never /\ lastStart' # Never
         => lastStart' - lastStart >= (IF reason = "circuit" THEN 1 ELSE Cadence) * Second]_workerVars

(* Whoever reads its queue to the end has seen the newest message, however   *)
(* slowly it has been reading.                                               *)
NewestReaches ==
    \A s \in Sockets : sockets[s].state # "closed" =>
        LET q == sockets[s].queue IN
        "newest" = IF q = <<>> THEN sockets[s].got ELSE q[Len(q)]

(* The worker goes on collecting: from every instant before the opening of a  *)
(* trading day it comes to a cycle in that day's session, however cycles      *)
(* fail, sleeps overrun and the process dies meanwhile.  The days are those   *)
(* that the bounded clock certainly runs through.                             *)
KeepsCollecting ==
    \A d \in {e \in 0..Day(End) - 1 : TradingDay(e)} :
        clock < Opening(d) ~> mode = "cycle" /\ Day(clock) = d

(* The state of the loop and of the hub, in every instant of the calendar.   *)
WorkerInv == WorkerTypeOK /\ NextOpenIsNext /\ NotOverslept /\ NewestReaches
=============================================================================
