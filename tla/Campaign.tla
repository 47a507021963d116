------------------------------ MODULE Campaign ------------------------------
(* The identity of the paper campaign: tools/start_paper_campaign.py, which  *)
(* starts or repairs it, and get_active_campaign_portfolio, through which    *)
(* every reader finds it (services/paper_broker/campaign.py).                *)
(*                                                                           *)
(* The tool reads first and commits last.  Two may run at once (the deploy   *)
(* script runs one); each writes only the columns that differ from what it   *)
(* loaded.  A campaign and its portfolio share one identifier: the Tehran    *)
(* day it was started on.                                                    *)
EXTENDS Naturals, FiniteSets, Sequences

CONSTANTS
  Tools,      \* runs of the tool that may overlap
  Legacy,     \* portfolio of a campaign started before snapshots existed
  Default,    \* portfolio the fixtures seed, which has no campaign
  Window,     \* days a campaign may trade (30)
  MaxDay      \* bound: last day

Days == 0..MaxDay
Ids  == {Legacy, Default} \cup Days

ASSUME CampaignAssumption ==
  /\ MaxDay \in Nat /\ Window \in Nat /\ IsFiniteSet(Tools)
  /\ Legacy # Default /\ {Legacy, Default} \cap Days = {}

VARIABLES
  day,        \* the Tehran day
  campaigns,  \* campaigns in an active status: none ever leaves it
  portfolio,  \* portfolios by identifier
  tool        \* runs of the tool

identity == <<campaigns, portfolio>>
campaignVars == <<day, identity, tool>>

(* pristine: only the opening ledger row.  opening: its opening snapshot.    *)
PortfolioType == [exists : {TRUE}, active : BOOLEAN, kill : BOOLEAN,
                  pristine : BOOLEAN, opening : BOOLEAN]
Absent == [exists |-> FALSE]
Fresh  == [exists |-> TRUE, active |-> TRUE, kill |-> TRUE, pristine |-> TRUE, opening |-> TRUE]
Old    == [Fresh EXCEPT !.opening = FALSE, !.kill = FALSE]

Existing == {p \in Ids : portfolio[p].exists}
Active   == {p \in Existing : portfolio[p].active}
Killed   == {p \in Existing : portfolio[p].kill}
Audited  == {p \in Existing : portfolio[p].opening}

(* What a run read: identifiers, and those active, killed, audited.          *)
RunType == [step : {"repair", "create"}, target : Ids, seen : SUBSET Ids,
            active : SUBSET Ids, killed : SUBSET Ids, opening : SUBSET Ids]
Idle == [step |-> "idle"]

(* A new database, one with the fixtures' portfolio, or one with a campaign  *)
(* older than the opening snapshots, that has traded or not.                 *)
CampaignInit ==
  /\ day = 0 /\ tool = [t \in Tools |-> Idle]
  /\ campaigns \in {{}, {Legacy}}
  /\ \E old \in {Old, [Old EXCEPT !.pristine = FALSE]}, seeded \in {Absent, Old} :
       portfolio = [p \in Ids |-> CASE p \in campaigns -> old
                                    [] p = Default      -> seeded
                                    [] OTHER            -> Absent]

-----------------------------------------------------------------------------
(* The reader.                                                               *)
Resolves_Unaudited(p) == campaigns = {p} /\ Active = {p}
Resolves(p) == campaigns = {p} /\ Active = {p} /\ portfolio[p].opening

InWindow(p) == p \in Days => day <= p + Window

(* The operator flips the kill switch; a cycle or a client trades.           *)
FlipKill ==
  /\ \E p \in Ids :
       Resolves(p) /\ portfolio' = [portfolio EXCEPT ![p].kill = ~@]
  /\ UNCHANGED <<day, campaigns, tool>>

Trade ==
  /\ \E p \in Ids :
       /\ Resolves(p) /\ InWindow(p) /\ ~portfolio[p].kill
       /\ portfolio' = [portfolio EXCEPT ![p].pristine = FALSE]
  /\ UNCHANGED <<day, campaigns, tool>>

-----------------------------------------------------------------------------
(* The tool.  On a database that has a portfolio it runs only with the flag  *)
(* that confirms the archive and with the backup at hand; it refuses to      *)
(* choose between two active campaigns.  A refused run changes nothing.      *)
NewId_PerRun(t) ==
  CHOOSE p \in Days : \A u \in Tools \ {t} : tool[u] = Idle \/ tool[u].target # p

NewId(t) == day

Read(t, plan, target) ==
  tool' = [tool EXCEPT ![t] = [step |-> plan, target |-> target, seen |-> Existing,
                               active |-> Active, killed |-> Killed, opening |-> Audited]]

Begin(t) ==
  /\ tool[t] = Idle
  /\ \/ \E p \in campaigns :
          /\ campaigns = {p}
          /\ portfolio[p].opening \/ portfolio[p].pristine
          /\ Read(t, "repair", p)
     \/ /\ campaigns = {} /\ ~portfolio[NewId(t)].exists
        /\ Read(t, "create", NewId(t))
  /\ UNCHANGED <<day, identity>>

(* A column is written when its new value differs from the one loaded.       *)
Written(loaded, value, now) == IF loaded = value THEN now ELSE value

(* Every portfolio but the target is set aside; the target is stopped too.   *)
Settled(run, p) ==
  [portfolio[p] EXCEPT !.active  = Written(p \in run.active, p = run.target, @),
                       !.kill    = Written(p \in run.killed, TRUE, @),
                       !.opening = @ \/ p = run.target]

Chosen(run) == IF run.step = "repair" THEN run.seen ELSE run.active

Repair(t) ==
  LET run == tool[t] IN
  /\ run.step = "repair"
  /\ run.target \in run.opening \/ ~portfolio[run.target].opening
  /\ portfolio' = [p \in Ids |-> IF p \in Chosen(run) THEN Settled(run, p) ELSE portfolio[p]]
  /\ tool' = [tool EXCEPT ![t] = Idle]
  /\ UNCHANGED <<day, campaigns>>

Create(t) ==
  LET run == tool[t] IN
  /\ run.step = "create"
  /\ ~portfolio[run.target].exists
  /\ portfolio' = [p \in Ids |-> CASE p = run.target -> Fresh
                                   [] p # run.target /\ p \in Chosen(run) -> Settled(run, p)
                                   [] OTHER -> portfolio[p]]
  /\ campaigns' = campaigns \cup {run.target}
  /\ tool' = [tool EXCEPT ![t] = Idle]
  /\ UNCHANGED day

(* A key that is taken, a lost connection or a kill: nothing is committed.   *)
RollBack(t) ==
  /\ tool[t] # Idle
  /\ tool' = [tool EXCEPT ![t] = Idle]
  /\ UNCHANGED <<day, identity>>

(* A run of the tool does not straddle midnight.                             *)
Midnight ==
  /\ day < MaxDay /\ \A t \in Tools : tool[t] = Idle
  /\ day' = day + 1
  /\ UNCHANGED <<identity, tool>>

CampaignNext ==
  \/ FlipKill \/ Trade \/ Midnight
  \/ \E t \in Tools : Begin(t) \/ Repair(t) \/ Create(t) \/ RollBack(t)

-----------------------------------------------------------------------------
CampaignTypeOK ==
  /\ day \in Days /\ campaigns \subseteq Existing
  /\ \A p \in Ids : portfolio[p] \in PortfolioType \cup {Absent}
  /\ \A t \in Tools : tool[t] \in RunType \cup {Idle}

(* A campaign that readers resolve stays the one they resolve: no second run *)
(* of the tool, however it overlaps the first, puts another beside it or     *)
(* takes its portfolio away (campaign.py:139-172).                           *)
IdentityStable == [][\A p \in Ids : Resolves(p) => Resolves(p)']_campaignVars

(* A run of the tool that commits leaves a campaign that readers resolve,    *)
(* whatever it found (tools/start_paper_campaign.py:53-68).                  *)
ToolHelps == [][identity' # identity /\ tool' # tool => \E p \in Ids : Resolves(p)']_campaignVars

(* The opening snapshot is never made up after the event: whoever writes it  *)
(* writes it into a portfolio that has not traded, although the tool checks  *)
(* that before it commits (campaign.py:95-132).                              *)
OpeningComesFirst ==
  [][\A p \in Ids : portfolio[p].exists /\ ~portfolio[p].opening /\ portfolio'[p].opening
       => portfolio'[p].pristine]_campaignVars
=============================================================================
