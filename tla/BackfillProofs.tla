--------------------------- MODULE BackfillProofs ---------------------------
(***************************************************************************)
(* The history backfill, for every value of the constants: its tables stay *)
(* well typed, a healthy receipt stands for some history, no bar of an     *)
(* unfinished session is stored, and a job that no other overtook keeps    *)
(* the rejections it found.                                                *)
(***************************************************************************)
EXTENDS Backfill, FiniteSetTheorems, TLAPS

-----------------------------------------------------------------------------
(* The invariant. *)

Waits == [Instruments -> 0..Cooldown]
Job   == [step : Steps, targets : Seq(Target), results : Seq(Result),
          base : Waits, recent : Waits, terminal : Maps]

Tables ==
    /\ clock \in 0..DayLength - 1 /\ reachable \in BOOLEAN /\ circuit \in 0..MaxCircuit
    /\ active \subseteq Instruments /\ listed \in [Instruments -> 0..Required]
    /\ snap \in [Instruments -> 0..1] /\ rank \in Ranks
    /\ age \in [Instruments -> 0..NoAge]
    /\ recent \in Waits /\ terminal \in Maps /\ healthy \in BOOLEAN
    /\ sleep \in Nat /\ restarts \in 0..MaxRestarts

(* A bar that is kept is of a finished session, and ends a full history.    *)
Finished(r, full) ==
    r.verdict = "keep" => r.age >= 1 /\ full[r.inst] = Required

(* A job never forgets a rejection it began with.                           *)
Sound(j, full) ==
    /\ \A i \in Instruments : j.base[i] <= j.recent[i]
    /\ \A k \in 1..Len(j.results) : Finished(j.results[k], full)

Jobs == job \in [Callers -> Job] /\ \A c \in Callers : Sound(job[c], listed)

JobInv == Tables /\ Jobs /\ HealthyMeansHistory

(* The constants, one by one.                                               *)
LEMMA Constants ==
    /\ IsFiniteSet(Instruments) /\ Cardinality(Instruments) \in Nat
    /\ Required \in Nat /\ Required > 0 /\ Batch \in Nat /\ Cooldown \in Nat /\ Cooldown > 0
    /\ MinRetry \in Nat /\ Ratio \in Nat /\ Ratio > 0 /\ MaxCircuit \in Nat
    /\ OpenLength \in Nat /\ DayLength \in Nat /\ DayLength > 0
    /\ MaxAge \in Nat /\ MaxAge > 0 /\ MaxRestarts \in Nat
    /\ NoAge \in Nat /\ NoAge = MaxAge + 1
    /\ Clients \subseteq Callers /\ Worker \in Callers
  BY BackfillAssumption, FS_CardinalityType DEF NoAge, Callers

(* A job that is not running.                                               *)
LEMMA IdleSound ==
  ASSUME NEW full
  PROVE  Idle \in Job /\ Sound(Idle, full) /\ Idle.results = <<>>
<1>1. Nothing \in Waits /\ Nothing \in Maps
  BY Constants DEF Nothing, Waits, Maps
<1>2. /\ Idle.step = "idle" /\ Idle.targets = <<>> /\ Idle.results = <<>>
      /\ Idle.base = Nothing /\ Idle.recent = Nothing /\ Idle.terminal = Nothing
  BY DEF Idle
<1>3. Idle \in Job
  <2>1. <<>> \in Seq(Target) /\ <<>> \in Seq(Result)
    OBVIOUS
  <2> QED
    BY <1>1, <2>1 DEF Idle, Job, Steps
<1>4. Sound(Idle, full)
  <2>1. \A i \in Instruments : Nothing[i] = 0
    BY DEF Nothing
  <2>2. Len(Idle.results) = 0
    BY <1>2
  <2> QED
    BY <1>2, <2>1, <2>2 DEF Sound
<1> QED
  BY <1>2, <1>3, <1>4

-----------------------------------------------------------------------------
(* The targets. *)

(* The instruments of a set are ranked 0, 1, 2, ... among themselves.       *)
LEMMA AheadOnto ==
  ASSUME Tables, NEW S \in SUBSET Instruments, NEW k \in 1..Cardinality(S)
  PROVE  \E j \in S : Ahead(S, j) = k - 1
<1> DEFINE n == Cardinality(S)
           T == 0..n - 1
           Front(j) == {i \in S : rank[i] < rank[j]}
           f == [j \in S |-> Ahead(S, j)]
<1>1. IsFiniteSet(S) /\ n \in Nat
  BY Constants, FS_Subset, FS_CardinalityType
<1>2. /\ \A i \in Instruments : rank[i] \in Nat
      /\ \A i, j \in Instruments : rank[i] = rank[j] => i = j
  BY BackfillAssumption, Constants DEF Tables, Permutation
<1>3. \A j \in S : IsFiniteSet(Front(j)) /\ Ahead(S, j) = Cardinality(Front(j)) /\ Ahead(S, j) \in Nat
  <2>1. \A j \in S : IsFiniteSet(Front(j))
    BY <1>1, FS_Subset
  <2> QED
    BY <2>1, FS_CardinalityType DEF Ahead
<1>4. ASSUME NEW i \in S, NEW j \in S, rank[i] < rank[j]
      PROVE  Ahead(S, i) < Ahead(S, j)
  <2>1. Front(i) \cup {i} \subseteq Front(j) /\ i \notin Front(i)
    BY <1>2, <1>4
  <2>2. Cardinality(Front(i) \cup {i}) = Cardinality(Front(i)) + 1
    <3> HIDE DEF Front
    <3> QED
      BY <1>3, <2>1, FS_AddElement
  <2>3. Cardinality(Front(i) \cup {i}) <= Cardinality(Front(j))
    <3> HIDE DEF Front
    <3> QED
      BY <1>3, <2>1, FS_Subset
  <2> HIDE DEF Front
  <2> QED
    BY <1>3, <2>2, <2>3
<1>5. ASSUME NEW j \in S
      PROVE  Ahead(S, j) \in T
  <2>1. Front(j) \subseteq S \ {j}
    BY <1>2
  <2>2. Cardinality(S \ {j}) = n - 1 /\ IsFiniteSet(S \ {j})
    BY <1>1, FS_RemoveElement
  <2>3. Cardinality(Front(j)) <= n - 1
    <3> HIDE DEF Front, n
    <3> QED
      BY <2>1, <2>2, FS_Subset
  <2> HIDE DEF Front, n
  <2> QED
    BY <1>1, <1>3, <2>3
<1>6. f \in Injection(S, T)
  <2>1. f \in [S -> T]
    BY <1>5
  <2>2. \A i, j \in S : f[i] = f[j] => i = j
    <3> SUFFICES ASSUME NEW i \in S, NEW j \in S, Ahead(S, i) = Ahead(S, j)
                 PROVE  i = j
      OBVIOUS
    <3>1. Ahead(S, i) \in Nat /\ Ahead(S, j) \in Nat
      BY <1>3
    <3>2. ~(Ahead(S, i) < Ahead(S, j)) /\ ~(Ahead(S, j) < Ahead(S, i))
      BY <3>1
    <3>3. ~(rank[i] < rank[j]) /\ ~(rank[j] < rank[i])
      BY <1>4, <3>2
    <3> QED
      BY <1>2, <3>3
  <2> HIDE DEF f, T
  <2> QED
    BY <2>1, <2>2 DEF Injection, IsInjective
<1>7. IsFiniteSet(T) /\ Cardinality(T) = n
  <2>1. n - 1 \in Int /\ 0 \in Int
    BY <1>1
  <2>2. IsFiniteSet(T) /\ Cardinality(T) = IF 0 > n - 1 THEN 0 ELSE n - 1 - 0 + 1
    <3> HIDE DEF n
    <3> QED
      BY <2>1, FS_Interval
  <2> HIDE DEF n
  <2> QED
    BY <1>1, <2>2
<1>8. f \in Surjection(S, T)
  <2> HIDE DEF f, T
  <2> QED
    BY <1>1, <1>6, <1>7, FS_Injection
<1>9. k - 1 \in T
  <2> HIDE DEF n
  <2> QED
    BY <1>1 DEF n
<1>10. \E j \in S : f[j] = k - 1
  <2> HIDE DEF f, T
  <2> QED
    BY <1>8, <1>9 DEF Surjection
<1> QED
  BY <1>10

(* The targets of a job are missing instruments with their snapshots.       *)
LEMMA TargetsTyped ==
  ASSUME Tables, NEW n \in Nat
  PROVE  Targets(n) \in Seq(Target)
<1> DEFINE m == Smaller(n, Cardinality(Missing))
           chosen(k) == CHOOSE j \in Missing : Ahead(Missing, j) = k - 1
<1>1. Missing \in SUBSET Instruments
  BY DEF Missing, Tables
<1>2. IsFiniteSet(Missing) /\ Cardinality(Missing) \in Nat
  BY <1>1, Constants, FS_Subset, FS_CardinalityType
<1>3. m \in Nat /\ m <= Cardinality(Missing)
  BY <1>2 DEF Smaller
<1>4. ASSUME NEW k \in 1..m
      PROVE  [inst |-> chosen(k), snap |-> snap[chosen(k)]] \in Target
  <2>1. k \in 1..Cardinality(Missing)
    <3> HIDE DEF m
    <3> QED
      BY <1>2, <1>3
  <2>2. \E j \in Missing : Ahead(Missing, j) = k - 1
    BY <1>1, <2>1, AheadOnto
  <2>3. chosen(k) \in Missing
    BY <2>2
  <2> HIDE DEF chosen
  <2>4. chosen(k) \in Instruments /\ snap[chosen(k)] \in 0..1
    BY <1>1, <2>3 DEF Tables
  <2> QED
    BY <2>4 DEF Target
<1>5. Targets(n) = [k \in 1..m |-> [inst |-> chosen(k), snap |-> snap[chosen(k)]]]
  BY DEF Targets
<1> HIDE DEF m, chosen
<1> QED
  BY <1>3, <1>4, <1>5

-----------------------------------------------------------------------------
(* The answers. *)

(* What a job makes of an answer for an instrument that has traded n        *)
(* sessions: a bar is kept of a finished session only, and only if there    *)
(* are as many sessions as are required.                                    *)
LEMMA OutcomeSound ==
  ASSUME NEW before \in 0..1, NEW n \in 0..Required, NEW a \in Possible(n)
  PROVE  LET o == Outcome(before, a) IN
         /\ o.verdict \in Verdicts /\ o.rows \in 0..Required /\ o.age \in 0..NoAge
         /\ o.verdict = "keep" => o.age >= 1 /\ n = Required
<1> DEFINE v == Verdict(before, a)
<1>1. /\ a.identity \in BOOLEAN /\ a.rows \in 0..Required /\ a.rows \in {0, n} /\ a.error \in BOOLEAN
      /\ a.clients \in BOOLEAN /\ a.newest \in 0..MaxAge
  <2>1. a \in Answer /\ a.rows \in {0, n}
    BY DEF Possible, Honest
  <2> QED
    BY <2>1 DEF Answer
<1>2. /\ v \in Verdicts
      /\ v = "keep" => a.rows >= Required /\ Bridged(before, a)
  <2>1. CASE ~a.identity
    <3>1. v = "reject"
      BY <2>1 DEF Verdict
    <3> QED
      BY <3>1 DEF Verdicts
  <2>2. CASE a.identity /\ a.rows < Required
    <3>1. v = IF a.rows > 0 /\ ~a.error THEN "terminal" ELSE "reject"
      BY <1>1, <2>2, Constants DEF Verdict
    <3> HIDE DEF v
    <3> QED
      BY <3>1 DEF Verdicts
  <2>3. CASE a.identity /\ a.rows >= Required /\ ~a.clients
    <3>1. v = "reject"
      BY <1>1, <2>3, Constants DEF Verdict
    <3> QED
      BY <3>1 DEF Verdicts
  <2>4. CASE a.identity /\ a.rows >= Required /\ a.clients
    <3>1. v = IF Bridged(before, a) THEN "keep" ELSE "reject"
      BY <1>1, <2>4, Constants DEF Verdict
    <3> HIDE DEF v
    <3> QED
      BY <2>4, <3>1 DEF Verdicts
  <2> QED
    BY <1>1, <2>1, <2>2, <2>3, <2>4, Constants
<1>3. v = "keep" => a.newest >= 1 /\ n = Required
  <2>1. Bridged(before, a) => a.newest > before
    BY DEF Bridged
  <2> HIDE DEF v
  <2> QED
    BY <1>1, <1>2, <2>1, Constants
<1>4. Outcome(before, a)
        = [verdict |-> v, rows |-> IF v = "terminal" THEN a.rows ELSE 0,
           age |-> IF v = "keep" THEN a.newest ELSE NoAge]
  BY DEF Outcome
<1> HIDE DEF v
<1>5. /\ Outcome(before, a).verdict = v
      /\ Outcome(before, a).rows = (IF v = "terminal" THEN a.rows ELSE 0)
      /\ Outcome(before, a).age = (IF v = "keep" THEN a.newest ELSE NoAge)
  BY <1>4
<1>6. Outcome(before, a).rows \in 0..Required
  BY <1>1, <1>5, Constants
<1>7. Outcome(before, a).age \in 0..NoAge
  BY <1>1, <1>5, Constants
<1> QED
  BY <1>2, <1>3, <1>5, <1>6, <1>7

(* The results of a target.                                                 *)
LEMMA ResultsSound ==
  ASSUME Tables, NEW t \in Target, NEW r \in Results(t)
  PROVE  r \in Result /\ Finished(r, listed)
<1> DEFINE n == listed[t.inst]
<1>1. t.inst \in Instruments /\ t.snap \in 0..1 /\ n \in 0..Required
  BY DEF Target, Tables
<1>2. PICK o \in IF reachable THEN OutcomesUp[t.snap][n] ELSE OutcomesDown[t.snap][n] :
        r = [inst |-> t.inst, verdict |-> o.verdict, rows |-> o.rows, age |-> o.age]
  BY DEF Results
<1>3. /\ OutcomesUp[t.snap][n] = {Outcome(t.snap, a) : a \in Honest(n)}
      /\ OutcomesDown[t.snap][n] = {Outcome(t.snap, a) : a \in Possible(n)}
  <2> HIDE DEF n
  <2> QED
    BY <1>1 DEF OutcomesUp, OutcomesDown
<1> HIDE DEF n
<1>4. PICK a \in Possible(n) : o = Outcome(t.snap, a)
  <2>1. Honest(n) \subseteq Possible(n)
    BY DEF Possible
  <2> QED
    BY <1>2, <1>3, <2>1
<1>5. /\ o.verdict \in Verdicts /\ o.rows \in 0..Required /\ o.age \in 0..NoAge
      /\ o.verdict = "keep" => o.age >= 1 /\ n = Required
  BY <1>1, <1>4, OutcomeSound
<1>6. r.inst = t.inst /\ r.verdict = o.verdict /\ r.rows = o.rows /\ r.age = o.age
  BY <1>2
<1> QED
  BY <1>1, <1>2, <1>5, <1>6 DEF Result, Finished, n

(* Receiving them.                                                          *)
LEMMA ReceiveKeeps ==
  ASSUME JobInv, NEW c \in Callers, Receive(c)
  PROVE  JobInv' /\ UNCHANGED <<age, recent>>
<1>1. /\ UNCHANGED <<clock, reachable, circuit, listed, active, snap, rank, age, recent, terminal,
                     healthy, sleep, restarts>>
  BY DEF Receive, market, universe, progress
<1> DEFINE targets == job[c].targets
<1>2. PICK results \in [DOMAIN targets -> UNION {Results(targets[k]) : k \in DOMAIN targets}] :
        /\ \A k \in DOMAIN results : results[k] \in Results(targets[k])
        /\ job' = [job EXCEPT ![c].step = "stores", ![c].targets = <<>>,
                              ![c].results = results]
  BY DEF Receive
<1>3. job \in [Callers -> Job] /\ job[c] \in Job /\ \A d \in Callers : Sound(job[d], listed)
  BY DEF JobInv, Jobs
<1>4. targets \in Seq(Target) /\ Len(targets) \in Nat /\ DOMAIN targets = 1..Len(targets)
  <2>1. targets \in Seq(Target)
    BY <1>3 DEF Job
  <2> HIDE DEF targets
  <2> QED
    BY <2>1
<1>5. \A k \in 1..Len(targets) : targets[k] \in Target
  <2> HIDE DEF targets
  <2> QED
    BY <1>4
<1> HIDE DEF targets
<1>6. DOMAIN results = 1..Len(targets)
  BY <1>2, <1>4
<1>7. \A k \in 1..Len(targets) : results[k] \in Result /\ Finished(results[k], listed)
  BY <1>2, <1>5, <1>6, ResultsSound DEF JobInv
<1>8. results \in Seq(Result) /\ Len(results) = Len(targets)
  BY <1>2, <1>4, <1>6, <1>7
<1> DEFINE new == [job[c] EXCEPT !.step = "stores", !.targets = <<>>, !.results = results]
<1>9. job' = [job EXCEPT ![c] = new]
  BY <1>2, <1>3
<1>10. /\ new \in Job /\ new.results = results /\ new.base = job[c].base
       /\ new.recent = job[c].recent
  <2>1. <<>> \in Seq(Target)
    OBVIOUS
  <2> QED
    BY <1>3, <1>8, <2>1 DEF Job, Steps
<1> HIDE DEF new
<1>11. Sound(new, listed)
  BY <1>3, <1>7, <1>8, <1>10 DEF Sound
<1>12. Jobs'
  BY <1>1, <1>3, <1>9, <1>10, <1>11 DEF Jobs
<1>13. Tables' /\ HealthyMeansHistory'
  BY <1>1 DEF JobInv, Tables, HealthyMeansHistory, Ready, Has
<1> QED
  BY <1>1, <1>12, <1>13 DEF JobInv

-----------------------------------------------------------------------------
(* The steps of a job. *)

(* One job changes.                                                         *)
LEMMA JobReplaced ==
  ASSUME Jobs, NEW c \in Callers, NEW new \in Job, Sound(new, listed), listed' = listed,
         job' = [job EXCEPT ![c] = new]
  PROVE  Jobs'
  BY DEF Jobs

(* A receipt that becomes healthy stands for some history.                  *)
LEMMA RecordKeeps ==
  ASSUME Tables, NEW listing \in Maps, Record(listing), age' = age
  PROVE  terminal' \in Maps /\ healthy' \in BOOLEAN /\ HealthyMeansHistory'
<1>1. terminal' = [i \in Instruments |-> IF i \in active THEN listing[i] ELSE 0]
  BY DEF Record
<1>2. terminal' \in Maps
  BY <1>1 DEF Maps
<1>3. (healthy' <=> Healthy(listing)) /\ healthy' \in BOOLEAN
  BY DEF Record, Healthy
<1>4. ASSUME Healthy(listing), Ready = {}
      PROVE  FALSE
  <2> DEFINE e == Eligible(listing)
  <2>1. e \in Int
    <3>1. active \in SUBSET Instruments /\ {i \in active : listing[i] > 0} \in SUBSET Instruments
      BY DEF Tables
    <3>2. IsFiniteSet(active) /\ IsFiniteSet({i \in active : listing[i] > 0})
      BY <3>1, Constants, FS_Subset
    <3>3. Cardinality(active) \in Nat /\ Cardinality({i \in active : listing[i] > 0}) \in Nat
      BY <3>2, FS_CardinalityType
    <3> QED
      BY <3>3 DEF Eligible
  <2>2. e > 0 /\ Cardinality(Ready) * 100 >= Ratio * e
    BY <1>4 DEF Healthy, Suffices
  <2>3. Cardinality(Ready) = 0
    BY <1>4, FS_EmptySet
  <2> HIDE DEF e
  <2>4. Ratio * e > 0
    BY <2>1, <2>2, Constants, SMT
  <2> QED
    BY <2>1, <2>2, <2>3, <2>4, Constants
<1>5. Ready' = Ready
  BY DEF Ready, Has
<1> QED
  BY <1>2, <1>3, <1>4, <1>5 DEF HealthyMeansHistory

(* A history, once there, stays: the receipt stands for what it stood for.  *)
LEMMA HistoryStays ==
  ASSUME HealthyMeansHistory, healthy' = healthy,
         \A i \in Instruments : age[i] # NoAge => age'[i] # NoAge
  PROVE  HealthyMeansHistory'
  BY DEF HealthyMeansHistory, Ready, Has

(* A job that asks notes the rejections of now, and is to add to them.      *)
LEMMA AskKeeps ==
  ASSUME JobInv, NEW c \in Callers, NEW n \in Nat, Ask(c, n), listed' = listed
  PROVE  Jobs' /\ UNCHANGED progress
<1> DEFINE new == [Idle EXCEPT !.step = "asked", !.targets = Targets(n),
                               !.base = recent, !.recent = recent, !.terminal = terminal]
<1>1. job' = [job EXCEPT ![c] = new] /\ UNCHANGED progress
  BY DEF Ask, Carried
<1>2. recent \in Waits /\ terminal \in Maps /\ Targets(n) \in Seq(Target)
  BY TargetsTyped DEF JobInv, Tables
<1>3. Idle \in Job /\ Idle.results = <<>>
  BY IdleSound
<1>4. /\ new \in Job /\ new.results = <<>> /\ new.base = recent /\ new.recent = recent
  BY <1>2, <1>3 DEF Job, Steps
<1> HIDE DEF new
<1>5. Sound(new, listed)
  <2>1. \A i \in Instruments : recent[i] <= recent[i]
    BY <1>2, Constants DEF Waits
  <2>2. Len(new.results) = 0
    BY <1>4
  <2> QED
    BY <1>4, <2>1, <2>2 DEF Sound
<1>6. Jobs'
  BY <1>1, <1>4, <1>5, JobReplaced DEF JobInv
<1> QED
  BY <1>1, <1>6

(* Waking, for the worker and for a handler.                                *)
LEMMA WakeKeeps ==
  ASSUME JobInv, NEW c \in Callers, NEW n \in Nat, Ask(c, n) \/ NothingToAsk \/ UNCHANGED <<progress, job>>,
         UNCHANGED <<clock, reachable, circuit, listed, active, snap, rank, age, restarts>>, sleep' \in Nat
  PROVE  JobInv'
<1>1. Tables /\ Jobs /\ HealthyMeansHistory
  BY DEF JobInv
<1>2. CASE Ask(c, n) \/ UNCHANGED <<progress, job>>
  <2>1. Jobs' /\ UNCHANGED <<recent, terminal, healthy>>
    <3>1. CASE Ask(c, n)
      BY <3>1, AskKeeps DEF progress
    <3>2. CASE UNCHANGED <<progress, job>>
      BY <1>1, <3>2 DEF Jobs, progress
    <3> QED
      BY <1>2, <3>1, <3>2
  <2>2. Tables'
    BY <1>1, <2>1 DEF Tables
  <2>3. HealthyMeansHistory'
    BY <1>1, <2>1, HistoryStays
  <2> QED
    BY <2>1, <2>2, <2>3 DEF JobInv
<1>3. CASE NothingToAsk
  <2>1. Record(terminal) /\ UNCHANGED <<recent, job>>
    BY <1>3 DEF NothingToAsk
  <2>2. terminal' \in Maps /\ healthy' \in BOOLEAN /\ HealthyMeansHistory'
    BY <1>1, <2>1, RecordKeeps DEF Tables
  <2>3. Tables'
    BY <1>1, <2>1, <2>2 DEF Tables
  <2>4. Jobs'
    BY <1>1, <2>1 DEF Jobs
  <2> QED
    BY <2>2, <2>3, <2>4 DEF JobInv
<1> QED
  BY <1>2, <1>3

(* What storing a result does: no bar of an unfinished session enters, no   *)
(* history is lost, and no rejection.                                       *)
LEMMA StoreSound ==
  ASSUME JobInv, NEW c \in Callers, job[c].results # <<>>
  PROVE  /\ After(c) \in Job /\ Sound(After(c), listed)
         /\ Stored(c) \in [Instruments -> 0..NoAge]
         /\ \A i \in Instruments :
              /\ age[i] # NoAge => Stored(c)[i] # NoAge
              /\ Stored(c)[i] # age[i] => Stored(c)[i] >= 1 /\ listed[i] = Required
<1> DEFINE j == job[c]
           r == Head(j.results)
           rejected == IF r.verdict = "reject" THEN Cooldown ELSE j.recent[r.inst]
           waits == IF r.verdict = "terminal" THEN RetryDays(r.rows) ELSE j.terminal[r.inst]
           new == [j EXCEPT !.results = Tail(j.results), !.recent = [j.recent EXCEPT ![r.inst] = rejected],
                            !.terminal = [j.terminal EXCEPT ![r.inst] = waits]]
<1>1. j \in Job /\ Sound(j, listed)
  BY DEF JobInv, Jobs
<1>2. /\ j.results \in Seq(Result) /\ j.results # <<>> /\ j.recent \in Waits /\ j.base \in Waits
      /\ j.terminal \in Maps /\ j.targets \in Seq(Target) /\ j.step \in Steps
  BY <1>1 DEF Job
<1>3. After(c) = new
  <2>1. j.recent = [i \in Instruments |-> j.recent[i]]
    BY <1>2 DEF Waits
  <2> QED
    BY DEF After
<1> HIDE DEF j
<1>4. /\ r \in Result /\ r = j.results[1] /\ Len(j.results) \in Nat /\ Len(j.results) >= 1
      /\ Tail(j.results) \in Seq(Result) /\ Len(Tail(j.results)) = Len(j.results) - 1
      /\ \A k \in 1..Len(j.results) - 1 : Tail(j.results)[k] = j.results[k + 1]
  BY <1>2
<1> HIDE DEF r
<1>5. r.inst \in Instruments /\ r.rows \in 0..Required /\ r.age \in 0..NoAge
  BY <1>4 DEF Result
<1>6. r.verdict = "keep" => r.age >= 1 /\ listed[r.inst] = Required
  <2>1. 1 \in 1..Len(j.results)
    BY <1>4
  <2> QED
    BY <1>1, <1>4, <2>1 DEF Sound, Finished
<1>7. rejected \in 0..Cooldown /\ j.base[r.inst] <= rejected
  <2>1. /\ j.base[r.inst] \in 0..Cooldown /\ j.recent[r.inst] \in 0..Cooldown
        /\ j.base[r.inst] <= j.recent[r.inst]
    BY <1>1, <1>2, <1>5 DEF Sound, Waits
  <2> QED
    BY <2>1, Constants
<1>8. waits \in Nat
  <2>1. RetryDays(r.rows) \in Nat
    <3> DEFINE days == ((Required - r.rows) * 7 + 4) \div 5
    <3>1. days \in Int
      BY <1>5, Constants, SMT
    <3>2. RetryDays(r.rows) = IF days > MinRetry THEN days ELSE MinRetry
      BY DEF RetryDays
    <3> HIDE DEF days
    <3> QED
      BY <3>1, <3>2, Constants
  <2>2. j.terminal[r.inst] \in Nat
    BY <1>2, <1>5 DEF Maps
  <2> QED
    BY <2>1, <2>2
<1> HIDE DEF rejected, waits
<1>9. /\ new \in Job /\ new.results = Tail(j.results) /\ new.base = j.base
      /\ new.recent = [j.recent EXCEPT ![r.inst] = rejected]
  <2>1. [j.recent EXCEPT ![r.inst] = rejected] \in Waits
    BY <1>2, <1>7 DEF Waits
  <2>2. [j.terminal EXCEPT ![r.inst] = waits] \in Maps
    BY <1>2, <1>8 DEF Maps
  <2> QED
    BY <1>1, <1>2, <1>4, <2>1, <2>2 DEF Job
<1> HIDE DEF new
<1>10. Sound(new, listed)
  <2>1. \A i \in Instruments : new.base[i] <= new.recent[i]
    <3>1. \A i \in Instruments : j.base[i] <= j.recent[i]
      BY <1>1 DEF Sound
    <3> QED
      BY <1>2, <1>5, <1>7, <1>9, <3>1 DEF Waits
  <2>2. ASSUME NEW k \in 1..Len(new.results)
        PROVE  Finished(new.results[k], listed)
    <3>1. k + 1 \in 1..Len(j.results) /\ new.results[k] = j.results[k + 1]
      BY <1>4, <1>9
    <3> QED
      BY <1>1, <3>1 DEF Sound
  <2> QED
    BY <2>1, <2>2 DEF Sound
<1> DEFINE aged == [age EXCEPT ![r.inst] = Smaller(age[r.inst], r.age)]
<1>11. Stored(c) = IF r.verdict = "keep" THEN aged ELSE age
  BY DEF Stored, r, j
<1>12. age \in [Instruments -> 0..NoAge]
  BY DEF JobInv, Tables
<1>13. /\ aged \in [Instruments -> 0..NoAge]
       /\ aged[r.inst] = (IF age[r.inst] < r.age THEN age[r.inst] ELSE r.age)
       /\ \A i \in Instruments : i # r.inst => aged[i] = age[i]
  BY <1>5, <1>12, Constants DEF Smaller
<1> HIDE DEF aged
<1>14. \A i \in Instruments :
         /\ age[i] # NoAge => aged[i] # NoAge
         /\ r.verdict = "keep" /\ aged[i] # age[i] => aged[i] >= 1 /\ listed[i] = Required
  <2>1. ASSUME NEW i \in Instruments, i # r.inst
        PROVE  aged[i] = age[i]
    BY <1>13, <2>1
  <2>2. /\ age[r.inst] # NoAge => aged[r.inst] # NoAge
        /\ aged[r.inst] # age[r.inst] => aged[r.inst] = r.age
    <3>1. age[r.inst] \in 0..NoAge
      BY <1>5, <1>12
    <3> QED
      BY <1>5, <1>13, <3>1, Constants
  <2> QED
    BY <1>6, <2>1, <2>2
<1> QED
  BY <1>3, <1>9, <1>10, <1>11, <1>12, <1>13, <1>14

(* A result is stored.                                                      *)
LEMMA StoreKeeps ==
  ASSUME JobInv, NEW c \in Callers, Store(c)
  PROVE  JobInv'
<1>1. /\ UNCHANGED <<clock, reachable, circuit, listed, active, snap, rank, recent, terminal,
                     healthy, sleep, restarts>>
      /\ age' = Stored(c) /\ job' = [job EXCEPT ![c] = After(c)] /\ job[c].results # <<>>
  BY DEF Store, market, universe, progress
<1>2. Tables /\ Jobs /\ HealthyMeansHistory
  BY DEF JobInv
<1>3. /\ After(c) \in Job /\ Sound(After(c), listed)
      /\ Stored(c) \in [Instruments -> 0..NoAge]
      /\ \A i \in Instruments : age[i] # NoAge => Stored(c)[i] # NoAge
  BY <1>1, StoreSound
<1>4. Tables'
  BY <1>1, <1>2, <1>3 DEF Tables
<1>5. Jobs'
  BY <1>1, <1>2, <1>3, JobReplaced
<1>6. HealthyMeansHistory'
  BY <1>1, <1>2, <1>3, HistoryStays
<1> QED
  BY <1>4, <1>5, <1>6 DEF JobInv

(* Two processes store bars of one instrument: one of them ends.            *)
LEMMA ConflictKeeps ==
  ASSUME JobInv, NEW c \in Callers, NEW d \in Callers, Conflict(c, d)
  PROVE  JobInv'
<1>1. /\ UNCHANGED <<clock, reachable, circuit, listed, active, snap, rank, recent, terminal,
                     healthy, restarts>>
      /\ age' = Stored(d) /\ job' = [job EXCEPT ![c] = Idle, ![d] = After(d)]
      /\ job[d].results # <<>> /\ sleep' = IF c = Worker THEN 1 ELSE sleep
  BY DEF Conflict, Pause, market, universe, progress
<1>2. Tables /\ Jobs /\ HealthyMeansHistory
  BY DEF JobInv
<1>3. /\ After(d) \in Job /\ Sound(After(d), listed)
      /\ Stored(d) \in [Instruments -> 0..NoAge]
      /\ \A i \in Instruments : age[i] # NoAge => Stored(d)[i] # NoAge
  BY <1>1, StoreSound
<1>4. Tables'
  <2>1. sleep' \in Nat
    BY <1>1, <1>2 DEF Tables
  <2> QED
    BY <1>1, <1>2, <1>3, <2>1 DEF Tables
<1>5. Jobs'
  <2>1. Idle \in Job /\ Sound(Idle, listed)
    BY IdleSound
  <2> QED
    BY <1>1, <1>2, <1>3, <2>1 DEF Jobs
<1>6. HealthyMeansHistory'
  BY <1>1, <1>2, <1>3, HistoryStays
<1> QED
  BY <1>4, <1>5, <1>6 DEF JobInv

(* The progress is written back.                                            *)
LEMMA PersistKeeps ==
  ASSUME JobInv, NEW c \in Callers, Persist(c)
  PROVE  /\ JobInv'
         /\ UNCHANGED age
         /\ job[c].base = recent => \A i \in Instruments : recent'[i] >= recent[i]
<1>1. /\ UNCHANGED <<clock, reachable, circuit, listed, active, snap, rank, age, restarts>>
      /\ recent' = job[c].recent /\ Record(job[c].terminal)
      /\ job' = [job EXCEPT ![c] = Idle] /\ sleep' = IF c = Worker THEN 1 ELSE sleep
  BY DEF Persist, Pause, market, universe
<1>2. Tables /\ Jobs /\ HealthyMeansHistory
  BY DEF JobInv
<1>3. job[c] \in Job /\ Sound(job[c], listed)
  BY <1>2 DEF Jobs
<1>4. job[c].recent \in Waits /\ job[c].terminal \in Maps
  BY <1>3 DEF Job
<1>5. terminal' \in Maps /\ healthy' \in BOOLEAN /\ HealthyMeansHistory'
  <2>1. Record(job[c].terminal) /\ age' = age
    BY <1>1
  <2> QED
    BY <1>2, <1>4, <2>1, RecordKeeps
<1>6. Tables'
  <2>1. sleep' \in Nat
    BY <1>1, <1>2 DEF Tables
  <2> QED
    BY <1>1, <1>2, <1>4, <1>5, <2>1 DEF Tables
<1>7. Jobs'
  <2>1. Idle \in Job /\ Sound(Idle, listed)
    BY IdleSound
  <2> QED
    BY <1>1, <1>2, <2>1, JobReplaced
<1>8. job[c].base = recent => \A i \in Instruments : recent'[i] >= recent[i]
  <2>1. \A i \in Instruments : /\ job[c].base[i] <= job[c].recent[i]
                               /\ job[c].recent[i] \in Nat /\ recent[i] \in Nat
    BY <1>2, <1>3, <1>4, Constants DEF Sound, Tables, Waits
  <2> QED
    BY <1>1, <2>1
<1> QED
  BY <1>1, <1>5, <1>6, <1>7, <1>8 DEF JobInv

-----------------------------------------------------------------------------
(* Surroundings. *)

(* Rejections grow older together, so that none is forgotten.               *)
LEMMA Elapsed ==
  ASSUME NEW w \in Waits, NEW v \in Waits, \A i \in Instruments : w[i] <= v[i]
  PROVE  Elapse(w) \in Waits /\ \A i \in Instruments : Elapse(w)[i] <= Elapse(v)[i]
<1>1. \A i \in Instruments : /\ w[i] \in 0..Cooldown /\ v[i] \in 0..Cooldown
                             /\ Elapse(w)[i] = (IF w[i] > 0 THEN w[i] - 1 ELSE 0)
                             /\ Elapse(v)[i] = (IF v[i] > 0 THEN v[i] - 1 ELSE 0)
  BY DEF Waits, Elapse
<1>2. \A i \in Instruments : Elapse(w)[i] \in 0..Cooldown /\ Elapse(w)[i] <= Elapse(v)[i]
  BY <1>1, Constants
<1>3. Elapse(w) = [i \in Instruments |-> Elapse(w)[i]]
  BY DEF Elapse
<1> QED
  BY <1>2, <1>3 DEF Waits

(* A tick passes.                                                           *)
LEMMA TickKeeps ==
  ASSUME JobInv, Tick
  PROVE  JobInv'
<1>1. Tables /\ Jobs /\ HealthyMeansHistory
  BY DEF JobInv
<1>2. /\ UNCHANGED <<reachable, active, rank, healthy, restarts>>
      /\ clock' = (clock + 1) % DayLength /\ circuit' = Down(circuit) /\ sleep' = Down(sleep)
      /\ recent' = Elapse(recent)
      /\ job' = [c \in Callers |-> [job[c] EXCEPT !.base = Elapse(job[c].base),
                                                  !.recent = Elapse(job[c].recent)]]
      /\ NewDay \/ UNCHANGED <<age, snap, listed, terminal>>
  BY DEF Tick
<1>3. /\ clock' \in 0..DayLength - 1 /\ circuit' \in 0..MaxCircuit /\ sleep' \in Nat
      /\ recent' \in Waits
  <2>1. clock' \in 0..DayLength - 1
    <3>1. clock \in 0..DayLength - 1
      BY <1>1 DEF Tables
    <3>2. clock' = (clock + 1) % DayLength
      BY <1>2
    <3> QED
      BY <3>1, <3>2, Constants
  <2>2. circuit' \in 0..MaxCircuit /\ sleep' \in Nat
    <3>1. circuit \in 0..MaxCircuit /\ sleep \in Nat /\ MaxCircuit \in Nat
      BY <1>1, Constants DEF Tables
    <3>2. circuit' = Down(circuit) /\ sleep' = Down(sleep)
      BY <1>2
    <3> QED
      BY <3>1, <3>2 DEF Down
  <2>3. recent \in Waits /\ \A i \in Instruments : recent[i] <= recent[i]
    BY <1>1, Constants DEF Tables, Waits
  <2> QED
    BY <1>2, <2>1, <2>2, <2>3, Elapsed
<1>4. /\ age' \in [Instruments -> 0..NoAge] /\ snap' \in [Instruments -> 0..1]
      /\ listed' \in [Instruments -> 0..Required] /\ terminal' \in Maps
      /\ \A i \in Instruments : /\ age[i] # NoAge => age'[i] # NoAge
                                /\ listed[i] = Required => listed'[i] = Required
  <2>1. CASE NewDay
    <3>1. /\ age' = [i \in Instruments |-> Older(age[i])] /\ snap' = [i \in Instruments |-> 1]
          /\ listed' = [i \in Instruments |-> Smaller(listed[i] + 1, Required)]
          /\ terminal' = [i \in Instruments |-> IF terminal[i] > 0 THEN terminal[i] - 1 ELSE 0]
      BY <2>1 DEF NewDay, Elapse
    <3>2. \A i \in Instruments : /\ age[i] \in 0..NoAge /\ listed[i] \in 0..Required
                                 /\ terminal[i] \in Nat
      BY <1>1 DEF Tables, Maps
    <3>3. \A i \in Instruments : Older(age[i]) \in 0..NoAge /\ (age[i] # NoAge => Older(age[i]) # NoAge)
      BY <3>2, Constants DEF Older
    <3>4. \A i \in Instruments : /\ Smaller(listed[i] + 1, Required) \in 0..Required
                                 /\ listed[i] = Required => Smaller(listed[i] + 1, Required) = Required
      BY <3>2, Constants DEF Smaller
    <3>5. \A i \in Instruments : (IF terminal[i] > 0 THEN terminal[i] - 1 ELSE 0) \in Nat
      BY <3>2
    <3> QED
      BY <3>1, <3>3, <3>4, <3>5 DEF Maps
  <2>2. CASE UNCHANGED <<age, snap, listed, terminal>>
    BY <1>1, <2>2 DEF Tables
  <2> QED
    BY <1>2, <2>1, <2>2
<1>5. Tables'
  BY <1>1, <1>2, <1>3, <1>4 DEF Tables
<1>6. ASSUME NEW c \in Callers
      PROVE  job'[c] \in Job /\ Sound(job'[c], listed')
  <2> DEFINE j == job[c]
             new == [j EXCEPT !.base = Elapse(j.base), !.recent = Elapse(j.recent)]
  <2>1. j \in Job /\ Sound(j, listed) /\ job'[c] = new
    BY <1>1, <1>2 DEF Jobs
  <2> HIDE DEF j
  <2>2. j.base \in Waits /\ j.recent \in Waits /\ \A i \in Instruments : j.base[i] <= j.recent[i]
    BY <2>1 DEF Job, Sound
  <2>3. Elapse(j.base) \in Waits /\ \A i \in Instruments : Elapse(j.base)[i] <= Elapse(j.recent)[i]
    BY <2>2, Elapsed
  <2>4. Elapse(j.recent) \in Waits
    <3>1. \A i \in Instruments : j.recent[i] <= j.recent[i]
      BY <2>2, Constants DEF Waits
    <3> QED
      BY <2>2, <3>1, Elapsed
  <2>5. /\ new \in Job /\ new.base = Elapse(j.base) /\ new.recent = Elapse(j.recent)
        /\ new.results = j.results
    BY <2>1, <2>3, <2>4 DEF Job
  <2> HIDE DEF new
  <2>6. \A k \in 1..Len(j.results) : Finished(j.results[k], listed')
    <3>1. ASSUME NEW k \in 1..Len(j.results)
          PROVE  j.results[k].inst \in Instruments
      <4>1. j.results \in Seq(Result)
        BY <2>1 DEF Job
      <4>2. j.results[k] \in Result
        BY <4>1
      <4> QED
        BY <4>2 DEF Result
    <3>2. \A k \in 1..Len(j.results) : Finished(j.results[k], listed)
      BY <2>1 DEF Sound
    <3> QED
      BY <1>4, <3>1, <3>2 DEF Finished
  <2> QED
    BY <2>1, <2>3, <2>5, <2>6 DEF Sound
<1>7. Jobs'
  <2>1. job' = [c \in Callers |-> job'[c]]
    BY <1>2
  <2> QED
    BY <1>6, <2>1 DEF Jobs
<1>8. HealthyMeansHistory'
  BY <1>1, <1>2, <1>4, HistoryStays
<1> QED
  BY <1>5, <1>7, <1>8 DEF JobInv

(* The collector stores a batch.                                            *)
LEMMA SnapshotKeeps ==
  ASSUME JobInv, Snapshot
  PROVE  JobInv'
<1>1. /\ UNCHANGED <<clock, reachable, circuit, listed, age, recent, terminal, healthy, job, sleep,
                     restarts>>
      /\ snap' = [i \in Instruments |-> 0] /\ rank' \in Ranks /\ active' \in Actives
  BY DEF Snapshot, market, progress
<1>2. Tables /\ Jobs /\ HealthyMeansHistory
  BY DEF JobInv
<1>3. active' \subseteq Instruments
  BY <1>1, BackfillAssumption
<1>4. Tables'
  BY <1>1, <1>2, <1>3 DEF Tables
<1>5. Jobs'
  BY <1>1, <1>2 DEF Jobs
<1>6. HealthyMeansHistory'
  BY <1>1, <1>2, HistoryStays
<1> QED
  BY <1>4, <1>5, <1>6 DEF JobInv

(* The provider fails or recovers.                                          *)
LEMMA OutageKeeps ==
  ASSUME JobInv, Outage
  PROVE  JobInv'
<1>1. /\ UNCHANGED <<clock, listed, active, snap, rank, age, recent, terminal, healthy, job, sleep,
                     restarts>>
      /\ \/ reachable' = ~reachable /\ circuit' = circuit
         \/ circuit' \in circuit..MaxCircuit /\ reachable' = reachable
  BY DEF Outage, universe, progress
<1>2. Tables /\ Jobs /\ HealthyMeansHistory
  BY DEF JobInv
<1>3. reachable' \in BOOLEAN
  BY <1>1, <1>2 DEF Tables
<1>4. circuit' \in 0..MaxCircuit
  BY <1>1, <1>2, Constants DEF Tables
<1>5. Tables'
  BY <1>1, <1>2, <1>3, <1>4 DEF Tables
<1>6. Jobs'
  BY <1>1, <1>2 DEF Jobs
<1>7. HealthyMeansHistory'
  BY <1>1, <1>2, HistoryStays
<1> QED
  BY <1>5, <1>6, <1>7 DEF JobInv

(* A process dies, and its jobs with it.                                    *)
LEMMA RestartKeeps ==
  ASSUME JobInv, NEW c \in Callers, Restart(c)
  PROVE  JobInv'
<1>1. /\ UNCHANGED <<clock, reachable, circuit, listed, active, snap, rank, age, recent, terminal,
                     healthy>>
      /\ restarts < MaxRestarts /\ restarts' = restarts + 1
      /\ job' = [d \in Callers |-> IF Home[d] = Home[c] THEN Idle ELSE job[d]]
      /\ sleep' = IF Home[c] = Home[Worker] THEN 0 ELSE sleep
  BY DEF Restart, market, universe, progress
<1>2. Tables /\ Jobs /\ HealthyMeansHistory
  BY DEF JobInv
<1>3. restarts' \in 0..MaxRestarts /\ sleep' \in Nat
  BY <1>1, <1>2, Constants DEF Tables
<1>4. Tables'
  BY <1>1, <1>2, <1>3 DEF Tables
<1>5. Jobs'
  <2>1. Idle \in Job /\ Sound(Idle, listed)
    BY IdleSound
  <2> QED
    BY <1>1, <1>2, <2>1 DEF Jobs
<1>6. HealthyMeansHistory'
  BY <1>1, <1>2, HistoryStays
<1> QED
  BY <1>4, <1>5, <1>6 DEF JobInv

-----------------------------------------------------------------------------
(* The specification. *)

(* What no step may do: store a bar of an unfinished session, and forget a  *)
(* rejection.                                                               *)
Stores ==
    \A c \in Callers : Store(c) =>
       \A i \in Instruments : age'[i] # age[i] => age'[i] >= 1 /\ listed[i] = Required
Rejects ==
    \A c \in Callers : Persist(c) /\ job[c].base = recent =>
       \A i \in Instruments : recent'[i] >= recent[i]

LEMMA JobInit == Init => JobInv
<1> SUFFICES ASSUME Init PROVE JobInv
  OBVIOUS
<1>1. /\ clock \in 0..DayLength - 1 /\ reachable \in BOOLEAN /\ circuit = 0
      /\ active \in Actives /\ listed \in Listings
      /\ snap = [i \in Instruments |-> 1] /\ rank \in Ranks
      /\ age = [i \in Instruments |-> NoAge] /\ recent = Nothing /\ terminal = Nothing
      /\ healthy = FALSE /\ job = [c \in Callers |-> Idle] /\ sleep = 0 /\ restarts = 0
  BY DEF Init
<1>2. Nothing \in Waits /\ Nothing \in Maps
  BY Constants DEF Nothing, Waits, Maps
<1>3. active \subseteq Instruments /\ listed \in [Instruments -> 0..Required]
  BY <1>1, BackfillAssumption
<1>4. Tables
  <2>1. /\ circuit \in 0..MaxCircuit /\ sleep \in Nat /\ restarts \in 0..MaxRestarts
        /\ healthy \in BOOLEAN
    <3>1. circuit = 0 /\ sleep = 0 /\ restarts = 0
      BY <1>1
    <3>2. healthy \in BOOLEAN
      BY <1>1
    <3> QED
      BY <3>1, <3>2, Constants
  <2>2. snap \in [Instruments -> 0..1]
    BY <1>1
  <2>3. age \in [Instruments -> 0..NoAge]
    <3>1. NoAge \in 0..NoAge
      BY Constants
    <3> QED
      BY <1>1, <3>1
  <2> QED
    BY <1>1, <1>2, <1>3, <2>1, <2>2, <2>3 DEF Tables
<1>5. Jobs
  <2>1. Idle \in Job /\ Sound(Idle, listed)
    BY IdleSound
  <2> QED
    BY <1>1, <2>1 DEF Jobs
<1>6. HealthyMeansHistory
  BY <1>1 DEF HealthyMeansHistory
<1> QED
  BY <1>4, <1>5, <1>6 DEF JobInv

LEMMA JobNext ==
  ASSUME JobInv, [Next]_vars
  PROVE  JobInv'
<1>1. CASE Wake
  <2>1. /\ UNCHANGED <<clock, reachable, circuit, listed, active, snap, rank, age, restarts>>
        /\ \/ Ask(Worker, 1) /\ sleep' = sleep
           \/ NothingToAsk /\ sleep' = 1
           \/ sleep' = UntilOpen /\ UNCHANGED <<progress, job>>
           \/ sleep' = circuit /\ UNCHANGED <<progress, job>>
    BY <1>1 DEF Wake, market, universe
  <2>2. sleep' \in Nat
    <3>1. clock \in 0..DayLength - 1 /\ circuit \in 0..MaxCircuit /\ sleep \in Nat
      BY DEF JobInv, Tables
    <3>2. sleep' = sleep \/ sleep' = 1 \/ sleep' = DayLength - clock \/ sleep' = circuit
      BY <2>1 DEF UntilOpen
    <3> QED
      BY <3>1, <3>2, Constants
  <2>3. Ask(Worker, 1) \/ NothingToAsk \/ UNCHANGED <<progress, job>>
    BY <2>1
  <2>4. Worker \in Callers /\ 1 \in Nat
    BY Constants
  <2> QED
    BY <2>1, <2>2, <2>3, <2>4, WakeKeeps
<1>2. ASSUME NEW c \in Clients, ClientAsks(c)
      PROVE  JobInv'
  <2>1. /\ UNCHANGED <<clock, reachable, circuit, listed, active, snap, rank, age, sleep, restarts>>
        /\ Ask(c, Batch) \/ NothingToAsk
    BY <1>2 DEF ClientAsks, market, universe
  <2>2. c \in Callers /\ Batch \in Nat
    BY Constants
  <2>3. sleep' \in Nat
    BY <2>1 DEF JobInv, Tables
  <2>4. Ask(c, Batch) \/ NothingToAsk \/ UNCHANGED <<progress, job>>
    BY <2>1
  <2> QED
    BY <2>1, <2>2, <2>3, <2>4, WakeKeeps
<1>3. ASSUME NEW c \in Callers, Receive(c)
      PROVE  JobInv'
  BY <1>3, ReceiveKeeps
<1>4. ASSUME NEW c \in Callers, Store(c)
      PROVE  JobInv'
  BY <1>4, StoreKeeps
<1>5. ASSUME NEW c \in Callers, Persist(c)
      PROVE  JobInv'
  BY <1>5, PersistKeeps
<1>6. ASSUME NEW c \in Callers, Restart(c)
      PROVE  JobInv'
  BY <1>6, RestartKeeps
<1>7. ASSUME NEW c \in Callers, NEW d \in Callers, Conflict(c, d)
      PROVE  JobInv'
  BY <1>7, ConflictKeeps
<1>8. CASE Tick
  BY <1>8, TickKeeps
<1>9. CASE Snapshot
  BY <1>9, SnapshotKeeps
<1>10. CASE Outage
  BY <1>10, OutageKeeps
<1>11. CASE UNCHANGED vars
  <2>1. UNCHANGED <<clock, reachable, circuit, listed, active, snap, rank, age, recent, terminal,
                    healthy, job, sleep, restarts>>
    BY <1>11 DEF vars, market, universe, progress
  <2> QED
    BY <2>1 DEF JobInv, Tables, Jobs, Sound, HealthyMeansHistory, Ready, Has
<1> QED
  BY <1>1, <1>2, <1>3, <1>4, <1>5, <1>6, <1>7, <1>8, <1>9, <1>10, <1>11 DEF Next, Work

(* The invariant holds in every behaviour.                                  *)
THEOREM JobInvariant == Spec => []JobInv
<1>1. JobInv /\ [Next]_vars => JobInv'
  BY JobNext
<1> QED
  BY <1>1, JobInit, PTL DEF Spec

(* Whatever the instruments, the order of turnover and the answers: the     *)
(* tables of the backfill stay well typed, and the receipt the data gate    *)
(* asks for is never healthy over an empty history (_persist_progress).     *)
THEOREM HealthyHistory == Spec => []BackfillInv
<1>1. JobInv => BackfillInv
  <2> SUFFICES ASSUME JobInv PROVE BackfillInv
    OBVIOUS
  <2>1. Tables /\ job \in [Callers -> Job] /\ HealthyMeansHistory
    BY DEF JobInv, Jobs
  <2>2. Waits \subseteq Maps
    BY Constants DEF Waits, Maps
  <2>3. Job \subseteq [step : Steps, targets : Seq(Target), results : Seq(Result),
                      base : Maps, recent : Maps, terminal : Maps]
    BY <2>2 DEF Job
  <2>4. BackfillTypeOK
    BY <2>1, <2>3 DEF BackfillTypeOK, Tables, Waits
  <2> QED
    BY <2>1, <2>4 DEF BackfillInv
<1> QED
  BY <1>1, JobInvariant, PTL

(* No bar of an unfinished session is ever stored, whatever the provider    *)
(* answers: what is kept ends before the day of the snapshot it is compared *)
(* with, and is as long as required (run_backfill_batch).                   *)
THEOREM NothingAhead == Spec => NoLookAhead
<1>1. JobInv => Stores
  <2> SUFFICES ASSUME JobInv, NEW c \in Callers, Store(c)
               PROVE  \A i \in Instruments :
                        age'[i] # age[i] => age'[i] >= 1 /\ listed[i] = Required
    BY DEF Stores
  <2>1. age' = Stored(c) /\ job[c].results # <<>>
    BY DEF Store
  <2> QED
    BY <2>1, StoreSound
<1> QED
  BY <1>1, JobInvariant, PTL DEF NoLookAhead, Stores

(* A job that no other overtook writes back every rejection that was there  *)
(* when it began (recent_rejections).                                       *)
THEOREM RejectionsStay == Spec => RejectionsKept
<1>1. JobInv => Rejects
  BY PersistKeeps DEF Rejects
<1> QED
  BY <1>1, JobInvariant, PTL DEF RejectionsKept, Rejects

=============================================================================
