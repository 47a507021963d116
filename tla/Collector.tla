------------------------------ MODULE Collector ------------------------------
(***************************************************************************)
(* Collection of the market watch: IngestionCoordinator.sync_cdn_market_-  *)
(* watch (services/collector/service.py), called by the scheduler's worker *)
(* (services/paper_broker/scheduler.py) and by API handlers.               *)
(*                                                                         *)
(* All callers share one receipt row, which carries the circuit breaker.   *)
(* A call awaits only its request; what it read before stays in its        *)
(* session, and an UPDATE writes only the columns that differ from what    *)
(* the session loaded.  Callers at home in one process share an event      *)
(* loop: between two awaits nothing else runs there.                       *)
(***************************************************************************)
EXTENDS Integers, FiniteSets

CONSTANTS
    Worker,           \* the scheduler's background task
    Clients,          \* API handlers that collect
    Home,             \* the process of each caller
    Isins,            \* equities the provider may list
    MinUniverse,      \* minimum_expected_equity_universe (900)
    Ratio,            \* minimum_symbol_completeness_ratio, in percent (98)
    MaxRejected,      \* bound: rows of an answer that fail their contract
    BlockCooldown,    \* minutes, tsetmc_block_cooldown_seconds (120)
    NetworkCooldown,  \* minutes, tsetmc_network_cooldown_seconds (5)
    DayLength,        \* minutes from one opening to the next
    OpenLength,       \* minutes of a session
    MaxRestarts       \* bound: deaths of processes

Callers == Clients \cup {Worker}

ASSUME CollectorAssumption ==
    /\ Worker \notin Clients /\ IsFiniteSet(Isins)
    /\ MinUniverse \in Nat \ {0} /\ Ratio \in 1..100 /\ MaxRejected \in Nat
    /\ NetworkCooldown \in Nat \ {0} /\ BlockCooldown \in Nat /\ BlockCooldown >= NetworkCooldown
    /\ OpenLength \in Nat \ {0} /\ DayLength \in Nat /\ DayLength > OpenLength
    /\ MaxRestarts \in Nat

VARIABLES
    clock,            \* minutes since the last opening
    reachable,        \* the provider answers, with every row it should have
    receipt,          \* DataSourceReceipt of tsetmc_market_watch
    largest, latest,  \* row_count: highest and last of the stored batches
    known, active,    \* instruments in the database, those with is_active
    call,             \* the sync_cdn_market_watch call of each caller
    sleep,            \* minutes the worker still sleeps
    restarts          \* deaths of processes so far

market   == <<clock, reachable, restarts>>
universe == <<largest, latest, known, active>>
vars     == <<market, universe, receipt, call, sleep>>

(* blocked: the provider refused; again: the response is one already stored. *)
Answer == {a \in [rows : SUBSET Isins, eligible : SUBSET Isins, rejected : 0..MaxRejected,
                  blocked : BOOLEAN, again : BOOLEAN] :
             a.eligible \subseteq a.rows /\ (a.blocked => a.rows = {})}

NoAnswer == [rows |-> {}, eligible |-> {}, rejected |-> 0, blocked |-> FALSE, again |-> FALSE]

Statuses == {"NONE", "HEALTHY", "UNAVAILABLE", "SCHEMA_ERROR"}
Steps    == {"idle", "asked", "fail", "reuse", "store", "stored"}
Idle     == [step |-> "idle", loaded |-> "NONE", answer |-> NoAnswer]

Init ==
    /\ clock \in 0..DayLength - 1 /\ reachable \in BOOLEAN
    /\ receipt = [status |-> "NONE", cooling |-> 0]
    /\ largest = 0 /\ latest = 0 /\ known = {} /\ active = {}
    /\ call = [c \in Callers |-> Idle]
    /\ sleep = 0 /\ restarts = 0

(* A caller that is between two awaits holds its event loop.                *)
Between(c) == call[c].step \in {"fail", "reuse", "store", "stored"}
MayRun(c)  == \A d \in Callers : Home[d] = Home[c] /\ Between(d) => d = c

Become(c, step) == call' = [call EXCEPT ![c].step = step]
Finish(c)       == call' = [call EXCEPT ![c] = Idle]

-----------------------------------------------------------------------------
(* The call up to its request.                                              *)

IsOpen == clock < OpenLength
UntilOpen == DayLength - clock

(* Mutant: the circuit is read off the status and not off its end. *)
CircuitOpen_Sticky == receipt.status = "UNAVAILABLE"
CircuitOpen == receipt.cooling > 0

Ask(c) ==
    /\ IsOpen /\ ~CircuitOpen
    /\ call' = [call EXCEPT ![c] = [Idle EXCEPT !.step = "asked", !.loaded = receipt.status]]

(* The worker goes back to sleep without a request: until the next opening, *)
(* or for as long as the circuit stays open.                                *)
Postpone ==
    /\ UNCHANGED call
    /\ \/ ~IsOpen /\ sleep' = UntilOpen
       \/ IsOpen /\ CircuitOpen /\ sleep' = IF receipt.cooling > 0 THEN receipt.cooling ELSE 1

Wake ==
    /\ call[Worker].step = "idle" /\ sleep = 0 /\ MayRun(Worker)
    /\ \/ Ask(Worker) /\ UNCHANGED sleep
       \/ Postpone
    /\ UNCHANGED <<market, universe, receipt>>

ClientAsks(c) ==
    /\ call[c].step = "idle" /\ MayRun(c)
    /\ Ask(c)
    /\ UNCHANGED <<market, universe, receipt, sleep>>

-----------------------------------------------------------------------------
(* The answer.                                                              *)

(* Mutant: a batch is compared with the universe of the database only. *)
Expected_NoHistory == {Cardinality(active), MinUniverse}
Expected == {Cardinality(active), largest, MinUniverse}

Healthy(a) ==
    LET n == Cardinality(a.rows) IN
    /\ n >= MinUniverse
    /\ n * 100 >= Ratio * (n + a.rejected)
    /\ \A size \in Expected : n * 100 >= Ratio * size

(* Mutant: a response is taken for a stored one although no batch was stored. *)
Stored_Assumed(a) == a.again
Stored(a) == a.again /\ largest > 0

Verdict(a) ==
    CASE ~Healthy(a) -> "fail"
      [] Healthy(a) /\ Stored(a) -> "reuse"
      [] Healthy(a) /\ ~Stored(a) -> "store"

Complete == {a \in Answer : a.rows = Isins /\ a.rejected = 0}

Judge(c) ==
    /\ call[c].step = "asked" /\ MayRun(c)
    /\ \E a \in IF reachable THEN Complete ELSE Answer :
         call' = [call EXCEPT ![c].step = Verdict(a), ![c].answer = a]
    /\ UNCHANGED <<market, universe, receipt, sleep>>

(* The worker sleeps after its cycle; a client's handler returns.           *)
SleepFor(c, minutes) == sleep' = IF c = Worker THEN minutes ELSE sleep

(* wait_for cancels the request at its deadline: nothing has been written.  *)
TimeOut(c) ==
    /\ call[c].step = "asked" /\ MayRun(c) /\ ~reachable
    /\ Finish(c) /\ SleepFor(c, 1)
    /\ UNCHANGED <<market, universe, receipt>>

(* MarketDataBatch, Instrument and MarketSnapshot rows, in one transaction. *)
Store(c) ==
    /\ call[c].step = "store"
    /\ LET a == call[c].answer
           n == Cardinality(a.rows) IN
       /\ latest' = n
       /\ largest' = IF n > largest THEN n ELSE largest
       /\ known' = known \cup a.rows
       /\ active' = (active \ a.rows) \cup a.eligible \cup (a.rows \ known)
    /\ Become(c, "stored")
    /\ UNCHANGED <<market, receipt, sleep>>

-----------------------------------------------------------------------------
(* The receipt.                                                             *)

(* A column whose new value is the one the session loaded is not written.   *)
Written(loaded, value) == IF loaded = value THEN receipt.status ELSE value

FailedStatus(c) ==
    Written(call[c].loaded, IF call[c].answer.rows = {} THEN "UNAVAILABLE" ELSE "SCHEMA_ERROR")

Cooldown(a) ==
    CASE a.blocked -> BlockCooldown
      [] ~a.blocked /\ a.rows = {} -> NetworkCooldown
      [] ~a.blocked /\ a.rows # {} -> 0

(* Rows that fall short open no circuit; their counts may be those of the   *)
(* failure the session loaded, in which case the metadata stays too.        *)
RecordFailure(c) ==
    /\ call[c].step = "fail"
    /\ LET cooldown == Cooldown(call[c].answer) IN
       /\ \/ receipt' = [status |-> FailedStatus(c), cooling |-> cooldown]
          \/ /\ cooldown = 0 /\ call[c].loaded = "SCHEMA_ERROR"
             /\ receipt' = [receipt EXCEPT !.status = FailedStatus(c)]
       /\ SleepFor(c, IF cooldown > 0 THEN cooldown ELSE 1)
    /\ Finish(c)
    /\ UNCHANGED <<market, universe>>

(* After a new batch the commit has expired what the session loaded.  A     *)
(* reused batch may give the very columns that the session loaded.          *)
RecordSuccess(c) ==
    /\ call[c].step \in {"reuse", "stored"}
    /\ \/ receipt' = [status  |-> IF call[c].step = "stored" THEN "HEALTHY"
                                  ELSE Written(call[c].loaded, "HEALTHY"),
                      cooling |-> 0]
       \/ call[c].step = "reuse" /\ call[c].loaded = "HEALTHY" /\ UNCHANGED receipt
    /\ Finish(c) /\ SleepFor(c, 1)
    /\ UNCHANGED <<market, universe>>

Write(c) == Store(c) \/ RecordFailure(c) \/ RecordSuccess(c)

-----------------------------------------------------------------------------
(* Surroundings.                                                            *)

Elapse(minutes) == IF minutes > 0 THEN minutes - 1 ELSE 0

(* A minute passes.  Work that is due, and code between awaits, takes less. *)
Tick ==
    /\ \A c \in Callers : ~Between(c)
    /\ call[Worker].step = "idle" => sleep > 0
    /\ clock' = (clock + 1) % DayLength
    /\ receipt' = [receipt EXCEPT !.cooling = Elapse(@)]
    /\ sleep' = Elapse(sleep)
    /\ UNCHANGED <<reachable, restarts, universe, call>>

Outage ==
    /\ reachable' = ~reachable
    /\ UNCHANGED <<clock, restarts, universe, receipt, call, sleep>>

(* A process dies and is started again; its worker begins with no sleep.    *)
Restart(c) ==
    /\ restarts < MaxRestarts /\ restarts' = restarts + 1
    /\ call' = [d \in Callers |-> IF Home[d] = Home[c] THEN Idle ELSE call[d]]
    /\ sleep' = IF Home[c] = Home[Worker] THEN 0 ELSE sleep
    /\ UNCHANGED <<clock, reachable, universe, receipt>>

Surroundings == Tick \/ Outage \/ \E c \in Callers : Restart(c)

Work(c) == Judge(c) \/ TimeOut(c) \/ Write(c)

Next ==
    \/ Wake
    \/ \E c \in Clients : ClientAsks(c)
    \/ \E c \in Callers : Work(c)
    \/ Surroundings

Spec == Init /\ [][Next]_vars

(* The event loop runs what is due in order, so the worker is not overtaken  *)
(* for ever by clients of its process; its request ends, because it has      *)
(* timeouts; code between two awaits runs to its end; and time passes.       *)
Fairness ==
    /\ SF_vars(Wake) /\ SF_vars(Work(Worker)) /\ SF_vars(Tick)
    /\ \A c \in Clients : WF_vars(Write(c))
FairSpec == Spec /\ Fairness

-----------------------------------------------------------------------------
(* Properties.                                                              *)

(* Countdowns never go below zero, and every answer in use is one the       *)
(* adapter can produce.                                                     *)
CollectorTypeOK ==
    /\ clock \in 0..DayLength - 1 /\ reachable \in BOOLEAN /\ restarts \in 0..MaxRestarts
    /\ receipt \in [status : Statuses, cooling : 0..BlockCooldown]
    /\ largest \in Nat /\ latest \in 0..largest
    /\ active \subseteq known /\ known \subseteq Isins
    /\ call \in [Callers -> [step : Steps, loaded : Statuses, answer : Answer]]
    /\ sleep \in Nat

(* A healthy receipt vouches for a batch that was committed, whatever died   *)
(* between the commit of the batch and that of the receipt: the data gate    *)
(* (services/collector/quality.py) takes the receipt as evidence.            *)
HealthyMeansStored == receipt.status = "HEALTHY" => largest > 0

(* A batch that is stored covers the largest batch before it up to the       *)
(* completeness ratio: a truncated answer never becomes trade-eligible       *)
(* (service.py, the comment on cold starts and later cycles).  Callers in    *)
(* two processes may break it: one stores while the other has judged.        *)
UniverseHolds ==
    [][latest' # latest => latest' >= MinUniverse /\ latest' * 100 >= Ratio * largest]_vars

(* Once the provider stays reachable the worker collects again and again:    *)
(* no circuit, sleep, restart or client keeps it from doing so for ever.     *)
CollectionRecovers ==
    <>[]reachable => []<>(call[Worker].step \in {"reuse", "store"})
=============================================================================
