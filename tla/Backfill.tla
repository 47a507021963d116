------------------------------ MODULE Backfill ------------------------------
(***************************************************************************)
(* The history backfill: run_backfill_batch (services/collector/backfill_- *)
(* worker.py), called by its own worker for one symbol at a time and by    *)
(* POST /data/backfill (apps/api/routes/health.py) for several.            *)
(*                                                                         *)
(* A job reads the progress in the metadata of the receipt tsetmc_eod,     *)
(* closes its session, awaits the history of its targets, stores them one  *)
(* commit each and writes the whole progress back.  Between two awaits a   *)
(* job holds the event loop of its process, and of no other.               *)
(*                                                                         *)
(* Dates are counted back from today: an age of 1 is the last session.     *)
(* The radar scan that may follow a batch is module Radar's.               *)
(***************************************************************************)
EXTENDS Integers, FiniteSets, Sequences

CONSTANTS
    Worker,           \* the history worker
    Clients,          \* handlers of POST /data/backfill
    Home,             \* the process of each caller
    Instruments,      \* instruments with a snapshot and a numeric code
    Ranks,            \* orders of turnover that occur: Instruments -> 1, 2, ...
    Actives,          \* sets of active instruments that occur
    Listings,         \* sessions traded before the start: Instruments -> 1..Required
    Required,         \* min_history_sessions (260)
    Batch,            \* max_symbols of a client (4)
    Cooldown,         \* ticks, rejection_cooldown
    MinRetry,         \* days, the least wait for a short history (7)
    Ratio,            \* minimum_symbol_completeness_ratio, in percent
    DayLength,        \* ticks from one opening to the next
    OpenLength,       \* ticks of a session
    MaxCircuit,       \* bound: ticks of a circuit of the market watch
    MaxAge,           \* bound: older history is not told apart
    MaxRestarts       \* bound: deaths of processes

Callers == Clients \cup {Worker}

Permutation(rank) == \A i, j \in Instruments : rank[i] = rank[j] => i = j

ASSUME BackfillAssumption ==
    /\ Worker \notin Clients /\ IsFiniteSet(Instruments) /\ Instruments # {}
    /\ Ranks # {} /\ Ranks \subseteq [Instruments -> 1..Cardinality(Instruments)]
    /\ \A rank \in Ranks : Permutation(rank)
    /\ Actives \subseteq SUBSET Instruments /\ Listings \subseteq [Instruments -> 0..Required]
    /\ Required \in Nat \ {0} /\ Batch \in Nat \ {0} /\ Cooldown \in Nat \ {0}
    /\ MinRetry \in Nat \ {0} /\ Ratio \in 1..100 /\ MaxCircuit \in Nat /\ MaxRestarts \in Nat
    /\ OpenLength \in Nat \ {0} /\ DayLength \in Nat /\ DayLength > OpenLength
    /\ MaxAge \in Nat \ {0}

VARIABLES
    clock,            \* ticks since the last opening
    reachable,        \* the provider answers, and completely
    circuit,          \* ticks until circuit_open_until of the market watch
    active,           \* is_active
    listed,           \* sessions an instrument has traded, up to Required
    snap,             \* age of its last trusted snapshot: 0 (today's) or 1
    rank,             \* 1 for the highest turnover
    age,              \* age of its last trusted EOD bar, NoAge without history
    recent,           \* recent_rejections: ticks until the cooldown ends
    terminal,         \* terminal_ineligible: days until eligible_after
    healthy,          \* the receipt says HEALTHY (no receipt is not)
    job,              \* run_backfill_batch of each caller
    sleep,            \* ticks the worker still sleeps
    restarts          \* deaths of processes so far

market   == <<clock, reachable, circuit, listed>>
universe == <<active, snap, rank>>
progress == <<recent, terminal, healthy>>
vars     == <<market, universe, age, progress, job, sleep, restarts>>

NoAge  == MaxAge + 1
Has(i) == age[i] # NoAge
Ready  == {i \in Instruments : Has(i)}

Nothing == [i \in Instruments |-> 0]
Target  == [inst : Instruments, snap : 0..1]
Verdicts == {"reject", "terminal", "keep"}
Result   == [inst : Instruments, verdict : Verdicts, rows : 0..Required, age : 0..NoAge]

Steps == {"idle", "asked", "stores"}
Idle  == [step |-> "idle", targets |-> <<>>, results |-> <<>>,
          base |-> Nothing, recent |-> Nothing, terminal |-> Nothing]

Init ==
    /\ clock \in 0..DayLength - 1 /\ reachable \in BOOLEAN /\ circuit = 0
    /\ active \in Actives /\ listed \in Listings
    /\ snap = [i \in Instruments |-> 1] /\ rank \in Ranks
    /\ age = [i \in Instruments |-> NoAge] /\ recent = Nothing /\ terminal = Nothing
    /\ healthy = FALSE
    /\ job = [c \in Callers |-> Idle]
    /\ sleep = 0 /\ restarts = 0

Holds(c)  == job[c].step = "stores"
MayRun(c) == \A d \in Callers : Home[d] = Home[c] /\ Holds(d) => d = c

-----------------------------------------------------------------------------
(* Before the request.                                                      *)

IsOpen     == clock < OpenLength
UntilOpen  == DayLength - clock
CircuitOpen == circuit > 0

(* Missing history, active, and not rejected within the cooldown.  That an  *)
(* instrument is listed as terminal does not keep it out.                   *)
Missing == {i \in active : ~Has(i) /\ recent[i] = 0}

(* The n instruments of highest turnover, in that order.                    *)
Ahead(set, i) == Cardinality({j \in set : rank[j] < rank[i]})
Smaller(m, n) == IF m < n THEN m ELSE n
Targets(n) ==
    [k \in 1..Smaller(n, Cardinality(Missing)) |->
        LET i == CHOOSE j \in Missing : Ahead(Missing, j) = k - 1 IN
        [inst |-> i, snap |-> snap[i]]]

-----------------------------------------------------------------------------
(* The progress.                                                            *)

(* Mutant: a job writes back the rejections of its own batch only. *)
Carried_New(c) == Nothing
Carried(c) == recent

Eligible(listing) == Cardinality(active) - Cardinality({i \in active : listing[i] > 0})

(* Ready instruments are counted whether active or not, expected ones only  *)
(* if they are active and not terminal.                                     *)
Suffices(listing) == Cardinality(Ready) * 100 >= Ratio * Eligible(listing)

(* Mutant: nothing expected counts as complete. *)
Healthy_Empty(listing) == Suffices(listing)
Healthy(listing) == Eligible(listing) > 0 /\ Suffices(listing)

Record(listing) ==
    /\ terminal' = [i \in Instruments |-> IF i \in active THEN listing[i] ELSE 0]
    /\ healthy' = Healthy(listing)

-----------------------------------------------------------------------------
(* The job.                                                                 *)

Ask(c, n) ==
    /\ IsOpen /\ ~CircuitOpen /\ Missing # {}
    /\ job' = [job EXCEPT ![c] = [Idle EXCEPT !.step = "asked", !.targets = Targets(n),
                                  !.base = recent, !.recent = Carried(c), !.terminal = terminal]]
    /\ UNCHANGED progress

(* Without a target the progress is written at once.                        *)
NothingToAsk ==
    /\ IsOpen /\ ~CircuitOpen /\ Missing = {}
    /\ Record(terminal)
    /\ UNCHANGED <<recent, job>>

Wake ==
    /\ job[Worker].step = "idle" /\ sleep = 0 /\ MayRun(Worker)
    /\ \/ Ask(Worker, 1) /\ UNCHANGED sleep
       \/ NothingToAsk /\ sleep' = 1
       \/ ~IsOpen /\ sleep' = UntilOpen /\ UNCHANGED <<progress, job>>
       \/ IsOpen /\ CircuitOpen /\ sleep' = circuit /\ UNCHANGED <<progress, job>>
    /\ UNCHANGED <<market, universe, age, restarts>>

ClientAsks(c) ==
    /\ job[c].step = "idle" /\ MayRun(c)
    /\ Ask(c, Batch) \/ NothingToAsk
    /\ UNCHANGED <<market, universe, age, sleep, restarts>>

(* What the provider answers for one target: its own identity record, the   *)
(* rows of the newest sessions, the age of the newest, whether enough rows  *)
(* of client types came with the same newest date, and whether the closing  *)
(* price is yesterday's price of the target's snapshot.                     *)
Answer == [identity : BOOLEAN, rows : 0..Required, error : BOOLEAN, clients : BOOLEAN,
           newest : 0..MaxAge, sameDate : BOOLEAN, samePrice : BOOLEAN]

Honest(n) == {a \in Answer : /\ a.identity /\ a.rows = n /\ ~a.error /\ a.clients
                             /\ a.newest = 1 /\ a.sameDate /\ a.samePrice}

(* While the provider fails; an error leaves no rows, and rows that pass    *)
(* their contract are not fewer than there are.                             *)
Possible(n) ==
    Honest(n) \cup {a \in Answer : a.rows \in {0, n} /\ (a.error => a.rows = 0)}

(* Mutant: the newest bar may be of the day of the snapshot. *)
Bridged_NoDate(before, a) == a.sameDate /\ a.samePrice
Bridged(before, a) == a.sameDate /\ a.samePrice /\ a.newest > before

Verdict(before, a) ==
    CASE ~a.identity                                     -> "reject"
      [] a.identity /\ a.rows < Required                 ->
             IF a.rows > 0 /\ ~a.error THEN "terminal" ELSE "reject"
      [] a.identity /\ a.rows >= Required /\ ~a.clients  -> "reject"
      [] a.identity /\ a.rows >= Required /\ a.clients   ->
             IF Bridged(before, a) THEN "keep" ELSE "reject"

(* What is left of an answer: the rows of a short history, the age of one   *)
(* that is kept.                                                            *)
Outcome(before, a) ==
    LET v == Verdict(before, a) IN
    [verdict |-> v, rows |-> IF v = "terminal" THEN a.rows ELSE 0,
     age |-> IF v = "keep" THEN a.newest ELSE NoAge]

(* By the age of the snapshot and the sessions listed.                      *)
OutcomesUp   == [before \in 0..1 |-> [n \in 0..Required |-> {Outcome(before, a) : a \in Honest(n)}]]
OutcomesDown == [before \in 0..1 |-> [n \in 0..Required |-> {Outcome(before, a) : a \in Possible(n)}]]

Results(t) ==
    {[inst |-> t.inst, verdict |-> o.verdict, rows |-> o.rows, age |-> o.age] :
        o \in IF reachable THEN OutcomesUp[t.snap][listed[t.inst]]
              ELSE OutcomesDown[t.snap][listed[t.inst]]}

Receive(c) ==
    /\ job[c].step = "asked" /\ MayRun(c)
    /\ LET targets == job[c].targets IN
       \E results \in [DOMAIN targets -> UNION {Results(targets[k]) : k \in DOMAIN targets}] :
         /\ \A k \in DOMAIN results : results[k] \in Results(targets[k])
         /\ job' = [job EXCEPT ![c].step = "stores", ![c].targets = <<>>,
                               ![c].results = results]
    /\ UNCHANGED <<market, universe, age, progress, sleep, restarts>>

RetryDays(rows) ==
    LET days == ((Required - rows) * 7 + 4) \div 5 IN IF days > MinRetry THEN days ELSE MinRetry

(* The job's progress after one result.                                     *)
After(c) ==
    LET r == Head(job[c].results) IN
    [job[c] EXCEPT !.results = Tail(@),
                   !.recent[r.inst] = IF r.verdict = "reject" THEN Cooldown ELSE @,
                   !.terminal[r.inst] = IF r.verdict = "terminal" THEN RetryDays(r.rows) ELSE @]

Stored(c) ==
    LET r == Head(job[c].results) IN
    IF r.verdict = "keep" THEN [age EXCEPT ![r.inst] = Smaller(@, r.age)] ELSE age

(* The bars that are not there yet, with their batch, in one transaction.   *)
Store(c) ==
    /\ Holds(c) /\ job[c].results # <<>>
    /\ age' = Stored(c)
    /\ job' = [job EXCEPT ![c] = After(c)]
    /\ UNCHANGED <<market, universe, progress, sleep, restarts>>

(* The worker pauses after a batch; a handler returns.                      *)
Pause(c) == sleep' = IF c = Worker THEN 1 ELSE sleep

(* Two processes store bars of one instrument at the same time: the unique  *)
(* constraint on (instrument, date) ends the job that commits second.       *)
Conflict(c, d) ==
    /\ Holds(c) /\ Holds(d) /\ Home[c] # Home[d]
    /\ job[c].results # <<>> /\ job[d].results # <<>>
    /\ LET r == Head(job[c].results) IN
       /\ r.verdict = "keep" /\ Head(job[d].results).verdict = "keep"
       /\ Head(job[d].results).inst = r.inst /\ ~Has(r.inst)
    /\ age' = Stored(d)
    /\ job' = [job EXCEPT ![c] = Idle, ![d] = After(d)]
    /\ Pause(c)
    /\ UNCHANGED <<market, universe, progress, restarts>>

Persist(c) ==
    /\ Holds(c) /\ job[c].results = <<>>
    /\ recent' = job[c].recent
    /\ Record(job[c].terminal)
    /\ job' = [job EXCEPT ![c] = Idle] /\ Pause(c)
    /\ UNCHANGED <<market, universe, age, restarts>>

-----------------------------------------------------------------------------
(* Surroundings.                                                            *)

(* Mutant: a rejection has no end. *)
Elapse_Never(map) == map
Elapse(map) == [i \in Instruments |-> IF map[i] > 0 THEN map[i] - 1 ELSE 0]

Down(n) == IF n > 0 THEN n - 1 ELSE 0

Older(a) == IF a >= MaxAge THEN a ELSE a + 1
LastTick == clock = DayLength - 1

(* The day ends between an evening and the next opening: a session has been *)
(* traded, and what was today's is now yesterday's.                         *)
NewDay ==
    /\ age' = [i \in Instruments |-> Older(age[i])]
    /\ snap' = [i \in Instruments |-> 1]
    /\ listed' = [i \in Instruments |-> Smaller(listed[i] + 1, Required)]
    /\ terminal' = Elapse(terminal)

(* A tick passes.  A job takes less than a night; work that is due takes    *)
(* less than a tick, and so do jobs and collections while the provider      *)
(* answers.                                                                 *)
Tick ==
    /\ \A c \in Callers : ~Holds(c)
    /\ job[Worker].step = "idle" => sleep > 0
    /\ reachable \/ LastTick => \A c \in Callers : job[c].step = "idle"
    /\ reachable /\ IsOpen => \A i \in Instruments : snap[i] = 0
    /\ clock' = (clock + 1) % DayLength
    /\ circuit' = Down(circuit) /\ sleep' = Down(sleep)
    /\ recent' = Elapse(recent)
    /\ job' = [c \in Callers |-> [job[c] EXCEPT !.base = Elapse(@), !.recent = Elapse(@)]]
    /\ IF LastTick THEN NewDay
       ELSE UNCHANGED <<age, snap, listed, terminal>>
    /\ UNCHANGED <<reachable, active, rank, healthy, restarts>>

(* The collector stores a batch of the market watch.                        *)
Snapshot ==
    /\ IsOpen
    /\ snap' = [i \in Instruments |-> 0]
    /\ rank' \in Ranks
    /\ active' \in Actives
    /\ UNCHANGED <<market, age, progress, job, sleep, restarts>>

Outage ==
    /\ \/ circuit = 0 /\ reachable' = ~reachable /\ UNCHANGED circuit
       \/ ~reachable /\ circuit' \in circuit..MaxCircuit /\ UNCHANGED reachable
    /\ UNCHANGED <<clock, listed, universe, age, progress, job, sleep, restarts>>

Restart(c) ==
    /\ restarts < MaxRestarts /\ restarts' = restarts + 1
    /\ job' = [d \in Callers |-> IF Home[d] = Home[c] THEN Idle ELSE job[d]]
    /\ sleep' = IF Home[c] = Home[Worker] THEN 0 ELSE sleep
    /\ UNCHANGED <<market, universe, age, progress>>

Work(c) == Receive(c) \/ Store(c) \/ Persist(c)

Next ==
    \/ Wake
    \/ \E c \in Clients : ClientAsks(c)
    \/ \E c \in Callers : Work(c) \/ Restart(c)
    \/ \E c, d \in Callers : Conflict(c, d)
    \/ Tick \/ Snapshot \/ Outage

Spec == Init /\ [][Next]_vars

(* As for the Collector: the event loop serves what is due in order, a      *)
(* request ends by its timeouts, code between awaits ends, time passes, and *)
(* the collector collects.                                                  *)
Fairness ==
    /\ SF_vars(Wake) /\ SF_vars(Work(Worker)) /\ SF_vars(Tick)
    /\ \A c \in Clients : WF_vars(Work(c))
    /\ WF_vars(Snapshot /\ snap' # snap)
FairSpec == Spec /\ Fairness

-----------------------------------------------------------------------------
(* Properties.                                                              *)

Maps == [Instruments -> Nat]

BackfillTypeOK ==
    /\ clock \in 0..DayLength - 1 /\ reachable \in BOOLEAN /\ circuit \in 0..MaxCircuit
    /\ active \subseteq Instruments /\ listed \in [Instruments -> 0..Required]
    /\ snap \in [Instruments -> 0..1] /\ rank \in Ranks
    /\ age \in [Instruments -> 0..NoAge]
    /\ recent \in [Instruments -> 0..Cooldown] /\ terminal \in Maps
    /\ healthy \in BOOLEAN
    /\ job \in [Callers -> [step : Steps, targets : Seq(Target), results : Seq(Result),
                            base : Maps, recent : Maps, terminal : Maps]]
    /\ sleep \in Nat /\ restarts \in 0..MaxRestarts

(* A healthy receipt, which the data gate asks for, never stands for an      *)
(* empty history: not when every instrument is terminal or none is active.   *)
HealthyMeansHistory == healthy => Ready # {}

(* No bar of an unfinished session enters the history, whatever the provider *)
(* sends and however old the snapshot is that a job compares it with: the    *)
(* strategies take every stored bar for the past.                            *)
NoLookAhead ==
    [][\A c \in Callers : Store(c) =>
         \A i \in Instruments : age'[i] # age[i] => age'[i] >= 1 /\ listed[i] = Required]_vars

(* A job that no other overtook keeps the rejections it found, so that their *)
(* hour runs to its end ("Retry transient bridge failures hourly").          *)
RejectionsKept ==
    [][\A c \in Callers : Persist(c) /\ job[c].base = recent =>
         \A i \in Instruments : recent'[i] >= recent[i]]_vars

(* While the provider stays reachable, an instrument that stays active gets  *)
(* its history: neither rejections, circuits, nights, restarts, short        *)
(* histories of others nor a client's jobs keep it out for ever.             *)
HistoryArrives ==
    \A i \in Instruments : <>[](reachable /\ circuit = 0 /\ i \in active) => <>Has(i)

(* The tables are well typed, and a healthy receipt stands for some history. *)
BackfillInv == BackfillTypeOK /\ HealthyMeansHistory
=============================================================================
