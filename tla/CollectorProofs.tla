--------------------------- MODULE CollectorProofs ---------------------------
(***************************************************************************)
(* Proofs about the collector for any number of callers, of equities and   *)
(* of processes, any cooldowns and any completeness ratio.                 *)
(***************************************************************************)
EXTENDS Collector, FiniteSetTheorems, TLAPS

(* The size of an answer is a number, because the equities are finite.      *)
LEMMA AnswerSize ==
    ASSUME NEW a \in Answer
    PROVE  Cardinality(a.rows) \in Nat
<1>1. a.rows \subseteq Isins
    BY DEF Answer
<1>2. IsFiniteSet(a.rows)
    BY <1>1, CollectorAssumption, FS_Subset DEF CollectorAssumption
<1>. QED
    BY <1>2, FS_CardinalityType

(* An answer that passes holds at least the reviewed lower bound of rows,   *)
(* and covers the largest batch by the ratio.                               *)
LEMMA HealthyCovers ==
    ASSUME NEW a \in Answer, Healthy(a)
    PROVE  /\ Cardinality(a.rows) >= MinUniverse
           /\ Cardinality(a.rows) * 100 >= Ratio * largest
    BY DEF Healthy, Expected

-----------------------------------------------------------------------------
(* Types.                                                                   *)

CallType == [step : Steps, loaded : Statuses, answer : Answer]

LEMMA IdleType == Idle \in CallType
<1>1. NoAnswer \in Answer
    BY CollectorAssumption DEF CollectorAssumption, NoAnswer, Answer
<1>. QED
    BY <1>1 DEF Idle, CallType, Steps, Statuses

(* Each kind of step keeps the types.                                       *)
LEMMA AskTypes ==
    ASSUME CollectorTypeOK, NEW c \in Callers, Ask(c)
    PROVE  call' \in [Callers -> CallType]
<1>1. receipt.status \in Statuses
    BY DEF CollectorTypeOK
<1>2. [Idle EXCEPT !.step = "asked", !.loaded = receipt.status] \in CallType
    BY <1>1, IdleType DEF CallType, Steps
<1>. QED
    BY <1>2 DEF Ask, CollectorTypeOK, CallType

LEMMA StartTypes ==
    ASSUME CollectorTypeOK, Wake \/ \E c \in Clients : ClientAsks(c)
    PROVE  CollectorTypeOK'
<1>0. /\ Worker \in Callers /\ Clients \subseteq Callers
    BY DEF Callers
<1>1. CASE Wake
    <2>1. call' \in [Callers -> CallType]
        BY <1>0, <1>1, AskTypes DEF Wake, Postpone, CollectorTypeOK, CallType
    <2>2. sleep' \in Nat
        BY <1>1, CollectorAssumption
        DEF Wake, Postpone, UntilOpen, CollectorTypeOK, CollectorAssumption
    <2>. QED
        BY <1>1, <2>1, <2>2 DEF Wake, CollectorTypeOK, CallType, market, universe
<1>2. CASE \E c \in Clients : ClientAsks(c)
    <2>1. PICK c \in Clients : ClientAsks(c)
        BY <1>2
    <2>2. call' \in [Callers -> CallType]
        BY <1>0, <2>1, AskTypes DEF ClientAsks
    <2>. QED
        BY <2>1, <2>2 DEF ClientAsks, CollectorTypeOK, CallType, market, universe
<1>. QED
    BY <1>1, <1>2

LEMMA JudgeTypes ==
    ASSUME CollectorTypeOK, NEW c \in Callers, Judge(c)
    PROVE  CollectorTypeOK'
<1>1. PICK a \in Answer : call' = [call EXCEPT ![c].step = Verdict(a), ![c].answer = a]
    BY DEF Judge, Complete
<1>2. Verdict(a) \in Steps
    BY DEF Verdict, Steps
<1>3. call' \in [Callers -> CallType]
    BY <1>1, <1>2 DEF CollectorTypeOK, CallType
<1>. QED
    BY <1>3 DEF Judge, CollectorTypeOK, CallType, market, universe

LEMMA FinishTypes ==
    ASSUME CollectorTypeOK, NEW c \in Callers, Finish(c)
    PROVE  call' \in [Callers -> CallType]
    BY IdleType DEF Finish, CollectorTypeOK, CallType

LEMMA TimeOutTypes ==
    ASSUME CollectorTypeOK, NEW c \in Callers, TimeOut(c)
    PROVE  CollectorTypeOK'
<1>1. call' \in [Callers -> CallType]
    BY FinishTypes DEF TimeOut
<1>. QED
    BY <1>1 DEF TimeOut, SleepFor, CollectorTypeOK, CallType, market, universe

LEMMA StoreTypes ==
    ASSUME CollectorTypeOK, NEW c \in Callers, Store(c)
    PROVE  CollectorTypeOK'
<1>. DEFINE n == Cardinality(call[c].answer.rows)
<1>1. /\ call[c] \in CallType /\ call[c].answer \in Answer
    BY DEF CollectorTypeOK, CallType
<1>2. n \in Nat
    BY <1>1, AnswerSize
<1>3. /\ call[c].answer.rows \subseteq Isins
      /\ call[c].answer.eligible \subseteq call[c].answer.rows
    BY <1>1 DEF Answer
<1>4. /\ latest' = n
      /\ largest' = IF n > largest THEN n ELSE largest
    BY DEF Store
<1>5. /\ largest' \in Nat /\ latest' \in 0..largest'
    BY <1>2, <1>4 DEF CollectorTypeOK
<1>6. active' \subseteq known' /\ known' \subseteq Isins
    BY <1>3 DEF Store, CollectorTypeOK
<1>7. call' \in [Callers -> CallType]
    BY DEF Store, Become, CollectorTypeOK, CallType, Steps
<1>. QED
    BY <1>5, <1>6, <1>7 DEF Store, CollectorTypeOK, CallType, market

LEMMA FailureTypes ==
    ASSUME CollectorTypeOK, NEW c \in Callers, RecordFailure(c)
    PROVE  CollectorTypeOK'
<1>1. Cooldown(call[c].answer) \in 0..BlockCooldown
    BY CollectorAssumption DEF Cooldown, CollectorAssumption
<1>2. FailedStatus(c) \in Statuses
    BY DEF FailedStatus, Written, Statuses, CollectorTypeOK
<1>3. receipt' \in [status : Statuses, cooling : 0..BlockCooldown]
    BY <1>1, <1>2 DEF RecordFailure, CollectorTypeOK
<1>4. sleep' \in Nat
    BY <1>1, CollectorAssumption DEF RecordFailure, SleepFor, CollectorTypeOK, CollectorAssumption
<1>5. call' \in [Callers -> CallType]
    BY FinishTypes DEF RecordFailure
<1>. QED
    BY <1>3, <1>4, <1>5 DEF RecordFailure, CollectorTypeOK, CallType, market, universe

LEMMA SuccessTypes ==
    ASSUME CollectorTypeOK, NEW c \in Callers, RecordSuccess(c)
    PROVE  CollectorTypeOK'
<1>1. receipt' \in [status : Statuses, cooling : 0..BlockCooldown]
    BY CollectorAssumption
    DEF RecordSuccess, Written, Statuses, CollectorTypeOK, CollectorAssumption
<1>2. call' \in [Callers -> CallType]
    BY FinishTypes DEF RecordSuccess
<1>3. sleep' \in Nat
    BY DEF RecordSuccess, SleepFor, CollectorTypeOK
<1>. QED
    BY <1>1, <1>2, <1>3 DEF RecordSuccess, CollectorTypeOK, CallType, market, universe

LEMMA SurroundingsTypes ==
    ASSUME CollectorTypeOK, Surroundings
    PROVE  CollectorTypeOK'
<1>1. CASE Tick
    <2>1. clock' \in 0..DayLength - 1
        BY <1>1, CollectorAssumption DEF Tick, CollectorTypeOK, CollectorAssumption
    <2>2. receipt' \in [status : Statuses, cooling : 0..BlockCooldown]
        BY <1>1, CollectorAssumption DEF Tick, Elapse, CollectorTypeOK, CollectorAssumption
    <2>3. sleep' \in Nat
        BY <1>1 DEF Tick, Elapse, CollectorTypeOK
    <2>. QED
        BY <1>1, <2>1, <2>2, <2>3 DEF Tick, CollectorTypeOK, universe
<1>2. CASE Outage
    BY <1>2 DEF Outage, CollectorTypeOK, universe
<1>3. CASE \E c \in Callers : Restart(c)
    <2>1. PICK c \in Callers : Restart(c)
        BY <1>3
    <2>2. call' \in [Callers -> CallType]
        BY <2>1, IdleType DEF Restart, CollectorTypeOK, CallType
    <2>3. sleep' \in Nat /\ restarts' \in 0..MaxRestarts
        BY <2>1, CollectorAssumption DEF Restart, CollectorTypeOK, CollectorAssumption
    <2>. QED
        BY <2>1, <2>2, <2>3 DEF Restart, CollectorTypeOK, CallType, universe
<1>. QED
    BY <1>1, <1>2, <1>3 DEF Surroundings

(* Every table and every call in progress stays well typed: countdowns do   *)
(* not pass zero and the largest batch is never smaller than the last one.  *)
THEOREM CollectorTypeCorrect == Spec => []CollectorTypeOK
<1>1. Init => CollectorTypeOK
    BY CollectorAssumption, IdleType
    DEF Init, CollectorTypeOK, CollectorAssumption, CallType, Statuses
<1>2. CollectorTypeOK /\ [Next]_vars => CollectorTypeOK'
    <2>. SUFFICES ASSUME CollectorTypeOK, [Next]_vars
                  PROVE  CollectorTypeOK'
        OBVIOUS
    <2>1. CASE Wake \/ \E c \in Clients : ClientAsks(c)
        BY <2>1, StartTypes
    <2>2. CASE \E c \in Callers : Work(c)
        BY <2>2, JudgeTypes, TimeOutTypes, StoreTypes, FailureTypes, SuccessTypes DEF Work, Write
    <2>3. CASE Surroundings
        BY <2>3, SurroundingsTypes
    <2>4. CASE UNCHANGED vars
        BY <2>4 DEF vars, market, universe, CollectorTypeOK
    <2>. QED
        BY <2>1, <2>2, <2>3, <2>4 DEF Next
<1>. QED
    BY <1>1, <1>2, PTL DEF Spec

(* What is not a step of a call leaves a call as it is, begins it or ends it. *)
LEMMA OthersCalls ==
    ASSUME CollectorTypeOK,
           \/ Wake \/ \E c \in Clients : ClientAsks(c)
           \/ Surroundings
    PROVE  \A d \in Callers : call'[d] = call[d] \/ call'[d].step \in {"idle", "asked"}
<1>0. /\ Worker \in Callers /\ Clients \subseteq Callers
      /\ call \in [Callers -> CallType]
    BY DEF Callers, CollectorTypeOK, CallType
<1>1. ASSUME NEW c \in Callers, Ask(c)
      PROVE  \A d \in Callers : call'[d] = call[d] \/ call'[d].step = "asked"
    <2>1. [Idle EXCEPT !.step = "asked", !.loaded = receipt.status].step = "asked"
        BY DEF Idle
    <2>. QED
        BY <1>0, <1>1, <2>1 DEF Ask
<1>2. CASE Wake \/ \E c \in Clients : ClientAsks(c)
    BY <1>0, <1>1, <1>2 DEF Wake, Postpone, ClientAsks
<1>3. CASE Surroundings
    BY <1>0, <1>3 DEF Surroundings, Tick, Outage, Restart, Idle
<1>. QED
    BY <1>2, <1>3

-----------------------------------------------------------------------------
(* A healthy receipt.                                                       *)

(* What a call is about to vouch for has been stored.  HealthyMeansStored   *)
(* alone is not inductive: the receipt follows the batch in a later step.   *)
StoredInv ==
    /\ CollectorTypeOK
    /\ HealthyMeansStored
    /\ \A c \in Callers :
         /\ call[c].step \in {"reuse", "stored"} => largest > 0
         /\ call[c].step = "store" => Cardinality(call[c].answer.rows) >= MinUniverse

(* Every step of a call keeps what has been stored.                         *)
LEMMA WorkKeepsStored ==
    ASSUME StoredInv, NEW c \in Callers, Work(c), CollectorTypeOK'
    PROVE  StoredInv'
<1>0. call \in [Callers -> CallType] /\ largest \in Nat
    BY DEF StoredInv, CollectorTypeOK, CallType
<1>1. CASE Judge(c)
    <2>1. PICK a \in Answer : call' = [call EXCEPT ![c].step = Verdict(a), ![c].answer = a]
        BY <1>1 DEF Judge, Complete
    <2>2. /\ call'[c].step = Verdict(a) /\ call'[c].answer = a
          /\ \A d \in Callers \ {c} : call'[d] = call[d]
        BY <1>0, <2>1 DEF CallType
    <2>3. Verdict(a) \in {"reuse", "stored"} => largest > 0
        BY <1>0 DEF Verdict, Stored
    <2>4. Verdict(a) = "store" => Cardinality(a.rows) >= MinUniverse
        BY HealthyCovers DEF Verdict
    <2>5. UNCHANGED <<largest, receipt>>
        BY <1>1 DEF Judge, universe
    <2>. QED
        BY <2>2, <2>3, <2>4, <2>5 DEF StoredInv, HealthyMeansStored
<1>2. CASE TimeOut(c)
    BY <1>0, <1>2 DEF TimeOut, Finish, Idle, StoredInv, HealthyMeansStored, universe
<1>3. CASE Store(c)
    <2>1. /\ Cardinality(call[c].answer.rows) \in Nat
          /\ Cardinality(call[c].answer.rows) >= MinUniverse
        BY <1>0, <1>3, AnswerSize DEF Store, StoredInv, CallType
    <2>2. largest' > 0
        BY <1>0, <1>3, <2>1, CollectorAssumption DEF Store, CollectorAssumption
    <2>3. /\ call'[c].step = "stored"
          /\ \A d \in Callers \ {c} : call'[d] = call[d]
        BY <1>0, <1>3 DEF Store, Become, CallType
    <2>. QED
        BY <1>3, <2>2, <2>3 DEF Store, StoredInv, HealthyMeansStored
<1>4. CASE RecordFailure(c)
    <2>1. FailedStatus(c) = "HEALTHY" => receipt.status = "HEALTHY"
        BY DEF FailedStatus, Written
    <2>2. receipt'.status = FailedStatus(c)
        BY <1>4 DEF RecordFailure, StoredInv, CollectorTypeOK
    <2>3. /\ call'[c].step = "idle"
          /\ \A d \in Callers \ {c} : call'[d] = call[d]
        BY <1>0, <1>4 DEF RecordFailure, Finish, Idle
    <2>. QED
        BY <1>4, <2>1, <2>2, <2>3 DEF RecordFailure, StoredInv, HealthyMeansStored, universe
<1>5. CASE RecordSuccess(c)
    <2>1. largest > 0
        BY <1>5 DEF RecordSuccess, StoredInv
    <2>2. /\ call'[c].step = "idle"
          /\ \A d \in Callers \ {c} : call'[d] = call[d]
        BY <1>0, <1>5 DEF RecordSuccess, Finish, Idle
    <2>. QED
        BY <1>5, <2>1, <2>2 DEF RecordSuccess, StoredInv, HealthyMeansStored, universe
<1>. QED
    BY <1>1, <1>2, <1>3, <1>4, <1>5 DEF Work, Write

(* A call that begins, or ends without a trace, has nothing to vouch for.   *)
LEMMA OthersKeepStored ==
    ASSUME StoredInv, CollectorTypeOK',
           \/ Wake \/ \E c \in Clients : ClientAsks(c)
           \/ Surroundings
    PROVE  StoredInv'
<1>1. receipt'.status = receipt.status /\ UNCHANGED largest
    BY DEF Wake, ClientAsks, Surroundings, Tick, Outage, Restart, universe,
           StoredInv, CollectorTypeOK
<1>2. \A d \in Callers : call'[d] = call[d] \/ call'[d].step \in {"idle", "asked"}
    BY OthersCalls DEF StoredInv
<1>. QED
    BY <1>1, <1>2 DEF StoredInv, HealthyMeansStored

(* A healthy receipt vouches for a committed batch, for any number of        *)
(* processes, whichever of them dies between the two commits.                *)
THEOREM HealthyVouches == Spec => []HealthyMeansStored
<1>1. Init => StoredInv
    <2>. SUFFICES ASSUME Init PROVE StoredInv
        OBVIOUS
    <2>1. CollectorTypeOK
        BY CollectorAssumption, IdleType
        DEF Init, CollectorTypeOK, CollectorAssumption, CallType, Statuses
    <2>. QED
        BY <2>1 DEF Init, StoredInv, HealthyMeansStored, Idle
<1>2. StoredInv /\ [Next]_vars /\ CollectorTypeOK' => StoredInv'
    <2>. SUFFICES ASSUME StoredInv, [Next]_vars, CollectorTypeOK'
                  PROVE  StoredInv'
        OBVIOUS
    <2>1. CASE Next
        BY <2>1, WorkKeepsStored, OthersKeepStored DEF Next
    <2>2. CASE UNCHANGED vars
        BY <2>2 DEF vars, market, universe, StoredInv, HealthyMeansStored
    <2>. QED
        BY <2>1, <2>2
<1>3. StoredInv => HealthyMeansStored
    BY DEF StoredInv
<1>. QED
    BY <1>1, <1>2, <1>3, CollectorTypeCorrect, PTL DEF Spec

-----------------------------------------------------------------------------
(* The universe, when every caller is at home in one process.               *)

OneHome == \A c, d \in Callers : Home[c] = Home[d]

(* One event loop: at most one call is between two awaits, so what a        *)
(* verdict was based on is still so when the batch is stored.               *)
UniverseInv ==
    /\ \A c, d \in Callers : Between(c) /\ Between(d) => c = d
    /\ \A c \in Callers : call[c].step = "store" =>
         /\ Cardinality(call[c].answer.rows) >= MinUniverse
         /\ Cardinality(call[c].answer.rows) * 100 >= Ratio * largest

LEMMA WorkKeepsUniverse ==
    ASSUME OneHome, CollectorTypeOK, UniverseInv, NEW c \in Callers, Work(c)
    PROVE  UniverseInv'
<1>0. call \in [Callers -> CallType]
    BY DEF CollectorTypeOK, CallType
<1>1. CASE Judge(c)
    <2>1. PICK a \in Answer : call' = [call EXCEPT ![c].step = Verdict(a), ![c].answer = a]
        BY <1>1 DEF Judge, Complete
    <2>2. /\ call'[c].step = Verdict(a) /\ call'[c].answer = a
          /\ \A d \in Callers \ {c} : call'[d] = call[d]
        BY <1>0, <2>1 DEF CallType
    <2>3. \A d \in Callers \ {c} : ~Between(d)
        BY <1>1 DEF Judge, MayRun, OneHome
    <2>4. Verdict(a) = "store" =>
            /\ Cardinality(a.rows) >= MinUniverse
            /\ Cardinality(a.rows) * 100 >= Ratio * largest
        BY HealthyCovers DEF Verdict
    <2>5. UNCHANGED largest
        BY <1>1 DEF Judge, universe
    <2>. QED
        BY <2>2, <2>3, <2>4, <2>5 DEF UniverseInv, Between
<1>2. CASE Store(c)
    <2>1. \A d \in Callers \ {c} : ~Between(d)
        BY <1>2 DEF Store, UniverseInv, Between
    <2>2. /\ call'[c].step = "stored"
          /\ \A d \in Callers \ {c} : call'[d] = call[d]
        BY <1>0, <1>2 DEF Store, Become, CallType
    <2>. QED
        BY <2>1, <2>2 DEF UniverseInv, Between
<1>3. CASE TimeOut(c) \/ RecordFailure(c) \/ RecordSuccess(c)
    <2>1. Finish(c) /\ UNCHANGED largest
        BY <1>3 DEF TimeOut, RecordFailure, RecordSuccess, universe
    <2>2. /\ call'[c].step = "idle"
          /\ \A d \in Callers \ {c} : call'[d] = call[d]
        BY <1>0, <2>1 DEF Finish, Idle
    <2>. QED
        BY <2>1, <2>2 DEF UniverseInv, Between
<1>. QED
    BY <1>1, <1>2, <1>3 DEF Work, Write

LEMMA OthersKeepUniverse ==
    ASSUME CollectorTypeOK, UniverseInv,
           \/ Wake \/ \E c \in Clients : ClientAsks(c)
           \/ Surroundings
    PROVE  UniverseInv'
<1>1. UNCHANGED largest
    BY DEF Wake, ClientAsks, Surroundings, Tick, Outage, Restart, universe
<1>2. \A d \in Callers : call'[d] = call[d] \/ call'[d].step \in {"idle", "asked"}
    BY OthersCalls
<1>. QED
    BY <1>1, <1>2 DEF UniverseInv, Between

(* In one process the universe does not shrink silently: every stored batch  *)
(* covers the largest one before it, however calls overlap.                  *)
THEOREM UniverseIsKept ==
    ASSUME OneHome
    PROVE  Spec => UniverseHolds
<1>1. Init => UniverseInv
    BY DEF Init, UniverseInv, Between, Idle
<1>2. CollectorTypeOK /\ UniverseInv /\ [Next]_vars => UniverseInv'
    <2>. SUFFICES ASSUME CollectorTypeOK, UniverseInv, [Next]_vars
                  PROVE  UniverseInv'
        OBVIOUS
    <2>1. CASE Next
        BY <2>1, OneHome, WorkKeepsUniverse, OthersKeepUniverse DEF Next
    <2>2. CASE UNCHANGED vars
        BY <2>2 DEF vars, universe, UniverseInv, Between
    <2>. QED
        BY <2>1, <2>2
<1>3. UniverseInv /\ [Next]_vars =>
        [latest' # latest => latest' >= MinUniverse /\ latest' * 100 >= Ratio * largest]_vars
    <2>. SUFFICES ASSUME UniverseInv, Next, latest' # latest
                  PROVE  latest' >= MinUniverse /\ latest' * 100 >= Ratio * largest
        OBVIOUS
    <2>1. PICK c \in Callers : Store(c)
        BY DEF Next, Wake, ClientAsks, Work, Write, Judge, TimeOut, RecordFailure,
               RecordSuccess, Surroundings, Tick, Outage, Restart, universe
    <2>. QED
        BY <2>1 DEF Store, UniverseInv
<1>. QED
    BY <1>1, <1>2, <1>3, CollectorTypeCorrect, PTL DEF Spec, UniverseHolds

=============================================================================
