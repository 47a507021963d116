---------------------------- MODULE Calibration ----------------------------
(* Calibration of the probability of profit: candidates trained on the       *)
(* closed trades of the campaign, their approval by the owner, and the       *)
(* calibrator cycles and scans load (services/scorer/calibration_store.py, *)
(* apps/api/routes/learning.py).  Handlers read first and commit last, and   *)
(* several run at once.                                                      *)
(*                                                                           *)
(* A data set is the list of closed trades with a decision; it only grows,   *)
(* so its size names it, counted from the first that suffices (70 trades,    *)
(* two regimes, profits and losses).  What training finds is fixed with it.  *)
EXTENDS Campaign

CONSTANTS
  Handlers,      \* requests that may overlap
  MaxTrades,     \* bound: size of the data set
  MaxApprovals   \* bound: approvals

ASSUME CalibrationAssumption ==
  MaxTrades \in Nat /\ MaxApprovals \in Nat /\ IsFiniteSet(Handlers)

Versions == 1..MaxTrades
Verdicts == {"worse", "better"}

VARIABLES
  verdict,    \* what training on each data set gives; its length is the size
  artifact,   \* calibration artifacts by version
  request,    \* what each handler read
  approvals   \* clock of the approvals

calibrationVars == <<verdict, artifact, request, approvals>>
vars == <<campaignVars, calibrationVars>>

(* at: the moment of its approval, on the clock of the approvals.            *)
Artifact     == [status : {"missing", "CANDIDATE", "REJECTED", "ACTIVE", "ARCHIVED"},
                 at : 0..MaxApprovals]
TrainType    == [step : {"train"}, version : Versions]
ApproveType  == [step : {"approve"}, version : Versions, at : 0..MaxApprovals,
                 saw : SUBSET Versions, overtaken : BOOLEAN]
Missing == [status |-> "missing", at |-> 0]
NoRequest == [step |-> "none"]

Init ==
  /\ CampaignInit
  /\ verdict = <<>> /\ approvals = 0
  /\ artifact = [v \in Versions |-> Missing]
  /\ request = [h \in Handlers |-> NoRequest]

Live == {v \in Versions : artifact[v].status = "ACTIVE"}

(* The calibrator in use: of those in force, the one approved last.          *)
Served ==
  IF Live = {} THEN 0
  ELSE CHOOSE v \in Live : \A u \in Live : artifact[u].at <= artifact[v].at

Resolved == \E p \in Ids : Resolves(p)

CloseTrade ==
  /\ Len(verdict) < MaxTrades
  /\ \E p \in Ids : Resolves(p) /\ ~portfolio[p].pristine
  /\ \E v \in Verdicts : verdict' = Append(verdict, v)
  /\ UNCHANGED <<artifact, request, approvals>>

-----------------------------------------------------------------------------
(* Training: on the data set of the moment, unless it has an artifact.       *)
Receive(h, r) == request' = [request EXCEPT ![h] = r]

Train(h) ==
  /\ request[h] = NoRequest /\ Resolved
  /\ Len(verdict) > 0 /\ artifact[Len(verdict)] = Missing
  /\ Receive(h, [step |-> "train", version |-> Len(verdict)])
  /\ UNCHANGED <<verdict, artifact, approvals>>

StatusOf(v) == IF verdict[v] = "better" THEN "CANDIDATE" ELSE "REJECTED"

(* The version is unique: of two handlers that trained it one fails.         *)
CommitTraining(h) ==
  /\ request[h].step = "train"
  /\ artifact[request[h].version] = Missing
  /\ artifact' = [artifact EXCEPT ![request[h].version] =
                    [status |-> StatusOf(request[h].version), at |-> 0]]
  /\ Receive(h, NoRequest)
  /\ UNCHANGED <<verdict, approvals>>

-----------------------------------------------------------------------------
(* Approval of a candidate that is better than the raw score on the trades   *)
(* it has not seen; the handler retires the artifacts it saw in force.       *)
MayApprove_Any(v) == artifact[v].status \in {"CANDIDATE", "REJECTED"}
MayApprove(v) == artifact[v].status = "CANDIDATE" /\ verdict[v] = "better"

InForce_Served == Live \cap {Served}
InForce == Live

Approve(h) ==
  /\ request[h] = NoRequest /\ Resolved /\ approvals < MaxApprovals
  /\ approvals' = approvals + 1
  /\ \E v \in Versions :
       /\ MayApprove(v)
       /\ Receive(h, [step |-> "approve", version |-> v, at |-> approvals + 1,
                      saw |-> InForce, overtaken |-> FALSE])
  /\ UNCHANGED <<verdict, artifact>>

CommitApproval(h) ==
  LET r == request[h] IN
  /\ r.step = "approve"
  /\ artifact' = [v \in Versions |->
       CASE v = r.version -> [status |-> "ACTIVE", at |-> r.at]
         [] v # r.version /\ v \in r.saw -> [artifact[v] EXCEPT !.status = "ARCHIVED"]
         [] v # r.version /\ v \notin r.saw -> artifact[v]]
  /\ request' = [i \in Handlers |->
       CASE i = h -> NoRequest
         [] i # h /\ request[i].step = "approve" -> [request[i] EXCEPT !.overtaken = TRUE]
         [] OTHER -> request[i]]
  /\ UNCHANGED <<verdict, approvals>>

Abandon(h) ==
  /\ request[h] # NoRequest
  /\ Receive(h, NoRequest)
  /\ UNCHANGED <<verdict, artifact, approvals>>

CalibrationNext ==
  \/ CloseTrade
  \/ \E h \in Handlers :
       Train(h) \/ CommitTraining(h) \/ Approve(h) \/ CommitApproval(h) \/ Abandon(h)

Next ==
  \/ CampaignNext /\ UNCHANGED calibrationVars
  \/ CalibrationNext /\ UNCHANGED campaignVars

Spec == Init /\ [][Next]_vars

-----------------------------------------------------------------------------
CalibrationTypeOK ==
  /\ CampaignTypeOK
  /\ Len(verdict) <= MaxTrades /\ approvals \in 0..MaxApprovals
  /\ request \in [Handlers -> TrainType \cup ApproveType \cup {NoRequest}]
  /\ \A v \in Versions :
       /\ artifact[v] \in Artifact
       /\ artifact[v] # Missing => v <= Len(verdict)
       /\ artifact[v].status = "CANDIDATE" => verdict[v] = "better"

(* No cycle or scan loads a curve that lost to the raw score on the trades   *)
(* it had not seen, whatever the order of trainings and approvals               *)
(* (calibration_store.py:131-149, docs/25_CONTROLLED_LEARNING_LOOP.md:11).   *)
ServedIsProven == Served # 0 => verdict[Served] = "better"

(* An approval that no other overtook leaves its artifact the only one in    *)
(* force and the one in use, even when earlier approvals that overlapped     *)
(* left two (calibration_store.py:145-149).                                  *)
LoneApprovalRules ==
  [][\A h \in Handlers :
       CommitApproval(h) /\ ~request[h].overtaken
         => Live' = {request[h].version} /\ Served' = request[h].version]_vars
=============================================================================
