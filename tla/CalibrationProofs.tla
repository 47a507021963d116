------------------------- MODULE CalibrationProofs -------------------------
(***************************************************************************)
(* Proofs about the campaign and its calibrations, for any number of runs  *)
(* of the tool, handlers, days, trades and approvals.                      *)
(***************************************************************************)
EXTENDS Calibration, WellFoundedInduction, TLAPS

-----------------------------------------------------------------------------
(* What the runs of the tool may rely on.                                   *)

(* A repair under way meets the database as it was, but for what another    *)
(* repair of the same campaign has already set right; a creation under way  *)
(* does too, or its identifier is taken and it will fail.                   *)
RunOK(run) ==
    /\ run.opening \subseteq Audited
    /\ run.step = "repair" =>
          /\ campaigns = {run.target}
          /\ run.seen = Existing
          /\ Active \ {run.target} \subseteq run.active
          /\ run.target \in run.active => run.target \in Active
          /\ ~portfolio[run.target].opening => portfolio[run.target].pristine
    /\ run.step = "create" =>
          /\ run.target = day /\ campaigns \subseteq {day}
          /\ ~portfolio[day].exists => Active \subseteq run.active

CampaignInv ==
    /\ day \in Days
    /\ portfolio \in [Ids -> PortfolioType \cup {Absent}]
    /\ campaigns \subseteq Existing
    /\ tool \in [Tools -> RunType \cup {Idle}]
    /\ \A t \in Tools : tool[t] # Idle => RunOK(tool[t])

LEMMA ExistingType ==
    ASSUME portfolio \in [Ids -> PortfolioType \cup {Absent}]
    PROVE  /\ \A p \in Ids : p \in Existing <=> portfolio[p] \in PortfolioType
           /\ \A p \in Ids : p \notin Existing => portfolio[p] = Absent
<1>1. \A x \in PortfolioType : x.exists = TRUE
    BY DEF PortfolioType
<1>2. Absent.exists = FALSE
    BY DEF Absent
<1>. QED
    BY <1>1, <1>2 DEF Existing

LEMMA CampaignInit_Inv == CampaignInit => CampaignInv
<1>. SUFFICES ASSUME CampaignInit PROVE CampaignInv
    OBVIOUS
<1>1. Old \in PortfolioType /\ [Old EXCEPT !.pristine = FALSE] \in PortfolioType
    BY DEF Old, Fresh, PortfolioType
<1>2. PICK old \in {Old, [Old EXCEPT !.pristine = FALSE]}, seeded \in {Absent, Old} :
         portfolio = [p \in Ids |-> CASE p \in campaigns -> old
                                      [] p = Default      -> seeded
                                      [] OTHER            -> Absent]
    BY DEF CampaignInit
<1>3. campaigns \subseteq Ids
    BY DEF CampaignInit, Ids
<1>4. \A p \in Ids : portfolio[p] = IF p \in campaigns THEN old
                                    ELSE IF p = Default THEN seeded ELSE Absent
    BY <1>2, CampaignAssumption DEF CampaignInit, CampaignAssumption
<1>5. portfolio \in [Ids -> PortfolioType \cup {Absent}]
    BY <1>1, <1>2, <1>4
<1>6. campaigns \subseteq Existing
    BY <1>1, <1>3, <1>4, <1>5, ExistingType
<1>7. day \in Days /\ \A t \in Tools : tool[t] = Idle
    BY CampaignAssumption DEF CampaignInit, CampaignAssumption, Days
<1>8. tool \in [Tools -> RunType \cup {Idle}]
    BY DEF CampaignInit
<1>. QED
    BY <1>5, <1>6, <1>7, <1>8 DEF CampaignInv

-----------------------------------------------------------------------------
(* Steps that are not the tool's.                                           *)

(* Neither the kill switch nor a trade touches what a run relies on.        *)
LEMMA Steady ==
    ASSUME CampaignInv, NEW p \in Ids, NEW new \in PortfolioType,
           portfolio' = [portfolio EXCEPT ![p] = new],
           portfolio[p] \in PortfolioType,
           new.active = portfolio[p].active, new.opening = portfolio[p].opening,
           portfolio[p].opening, UNCHANGED <<day, campaigns, tool>>
    PROVE  /\ CampaignInv'
           /\ Existing' = Existing /\ Active' = Active /\ Audited' = Audited
<1>1. portfolio \in [Ids -> PortfolioType \cup {Absent}]
    BY DEF CampaignInv
<1>2. portfolio' \in [Ids -> PortfolioType \cup {Absent}]
    BY <1>1
<1>3. \A q \in Ids : /\ portfolio'[q].exists = portfolio[q].exists
                     /\ portfolio'[q].active = portfolio[q].active
                     /\ portfolio'[q].opening = portfolio[q].opening
                     /\ ~portfolio[q].opening => portfolio'[q].pristine = portfolio[q].pristine
    BY <1>1 DEF PortfolioType
<1>4. Existing' = Existing
    BY <1>3 DEF Existing
<1>5. Active' = Active /\ Audited' = Audited
    BY <1>3, <1>4 DEF Active, Audited, Existing
<1>6. ASSUME NEW t \in Tools, tool[t] # Idle PROVE RunOK(tool[t])'
    <2>1. tool[t] \in RunType /\ RunOK(tool[t]) /\ tool'[t] = tool[t] /\ day \in Ids
        BY <1>6 DEF CampaignInv, Ids
    <2>2. tool[t].target \in Ids
        BY <2>1 DEF RunType
    <2>. QED
        BY <1>3, <1>4, <1>5, <2>1, <2>2 DEF RunOK
<1>. QED
    BY <1>2, <1>4, <1>5, <1>6 DEF CampaignInv

LEMMA ReaderSteps ==
    ASSUME CampaignInv, FlipKill \/ Trade
    PROVE  /\ CampaignInv' /\ campaigns' = campaigns /\ tool' = tool
           /\ Existing' = Existing /\ Active' = Active /\ Audited' = Audited
<1>1. \A p \in Ids : Resolves(p) => portfolio[p] \in PortfolioType /\ portfolio[p].opening
    <2>. SUFFICES ASSUME NEW p \in Ids, Resolves(p)
                  PROVE  portfolio[p] \in PortfolioType /\ portfolio[p].opening
        OBVIOUS
    <2>1. p \in Existing
        BY DEF Resolves, CampaignInv
    <2>. QED
        BY <2>1, ExistingType DEF CampaignInv, Resolves
<1>2. CASE FlipKill
    <2>1. PICK p \in Ids : Resolves(p) /\ portfolio' = [portfolio EXCEPT ![p].kill = ~@]
        BY <1>2 DEF FlipKill
    <2>. DEFINE new == [portfolio[p] EXCEPT !.kill = ~@]
    <2>2. portfolio[p] \in PortfolioType /\ portfolio[p].opening
        BY <1>1, <2>1
    <2>3. new \in PortfolioType /\ new.active = portfolio[p].active
          /\ new.opening = portfolio[p].opening
        BY <2>2 DEF PortfolioType
    <2>4. portfolio' = [portfolio EXCEPT ![p] = new] /\ UNCHANGED <<day, campaigns, tool>>
        BY <1>2, <2>1 DEF FlipKill
    <2>. HIDE DEF new
    <2>. QED
        BY <2>2, <2>3, <2>4, Steady
<1>3. CASE Trade
    <2>1. PICK p \in Ids : Resolves(p) /\ portfolio' = [portfolio EXCEPT ![p].pristine = FALSE]
        BY <1>3 DEF Trade
    <2>. DEFINE new == [portfolio[p] EXCEPT !.pristine = FALSE]
    <2>2. portfolio[p] \in PortfolioType /\ portfolio[p].opening
        BY <1>1, <2>1
    <2>3. new \in PortfolioType /\ new.active = portfolio[p].active
          /\ new.opening = portfolio[p].opening
        BY <2>2 DEF PortfolioType
    <2>4. portfolio' = [portfolio EXCEPT ![p] = new] /\ UNCHANGED <<day, campaigns, tool>>
        BY <1>3, <2>1 DEF Trade
    <2>. HIDE DEF new
    <2>. QED
        BY <2>2, <2>3, <2>4, Steady
<1>. QED
    BY <1>2, <1>3

LEMMA MidnightSteps ==
    ASSUME CampaignInv, Midnight
    PROVE  CampaignInv'
<1>1. day' \in Days
    BY CampaignAssumption DEF Midnight, CampaignInv, Days, CampaignAssumption
<1>. QED
    BY <1>1 DEF Midnight, identity, CampaignInv, Existing

-----------------------------------------------------------------------------
(* Steps of the tool.                                                       *)

(* What one commit of a run does to one portfolio.                          *)
LEMMA SettledFields ==
    ASSUME NEW run \in RunType, NEW p \in Ids, portfolio[p] \in PortfolioType
    PROVE  /\ Settled(run, p) \in PortfolioType
           /\ Settled(run, p).active = Written(p \in run.active, p = run.target, portfolio[p].active)
           /\ Settled(run, p).opening = (portfolio[p].opening \/ p = run.target)
           /\ Settled(run, p).pristine = portfolio[p].pristine
    BY DEF Settled, Written, PortfolioType

LEMMA BeginSteps ==
    ASSUME CampaignInv, NEW t \in Tools, Begin(t)
    PROVE  CampaignInv'
<1>0. /\ UNCHANGED <<day, campaigns, portfolio>>
      /\ day \in Ids /\ campaigns \subseteq Ids /\ Existing \subseteq Ids
      /\ Active \subseteq Existing /\ Killed \subseteq Existing /\ Audited \subseteq Existing
    BY DEF Begin, identity, CampaignInv, Ids, Existing, Active, Killed, Audited
<1>1. ASSUME NEW u \in Tools, u # t, tool[u] # Idle, tool'[u] = tool[u]
      PROVE  RunOK(tool[u])'
    BY <1>0, <1>1 DEF CampaignInv, RunOK, Existing, Active, Audited
<1>2. ASSUME NEW plan \in {"repair", "create"}, NEW target \in Ids, Read(t, plan, target),
             plan = "repair" => /\ campaigns = {target}
                                /\ portfolio[target].opening \/ portfolio[target].pristine,
             plan = "create" => campaigns = {} /\ target = day
      PROVE  CampaignInv'
    <2>. DEFINE new == [step |-> plan, target |-> target, seen |-> Existing,
                        active |-> Active, killed |-> Killed, opening |-> Audited]
    <2>1. new \in RunType
        BY <1>0, <1>2 DEF RunType
    <2>2. tool' = [tool EXCEPT ![t] = new]
        BY <1>2 DEF Read
    <2>3. /\ new.step = plan /\ new.target = target /\ new.seen = Existing
          /\ new.active = Active /\ new.opening = Audited
        OBVIOUS
    <2>. HIDE DEF new
    <2>4. tool' \in [Tools -> RunType \cup {Idle}] /\ tool'[t] = new
          /\ \A u \in Tools \ {t} : tool'[u] = tool[u]
        BY <2>1, <2>2 DEF CampaignInv
    <2>5. Existing' = Existing /\ Active' = Active /\ Audited' = Audited
        BY <1>0 DEF Existing, Active, Audited
    <2>6. RunOK(tool[t])'
        BY <1>0, <1>2, <2>3, <2>4, <2>5 DEF RunOK
    <2>7. \A u \in Tools : tool'[u] # Idle => RunOK(tool[u])'
        BY <1>1, <2>4, <2>6
    <2>. QED
        BY <1>0, <2>4, <2>5, <2>7 DEF CampaignInv
<1>3. CASE \E p \in campaigns :
              /\ campaigns = {p}
              /\ portfolio[p].opening \/ portfolio[p].pristine
              /\ Read(t, "repair", p)
    BY <1>0, <1>2, <1>3
<1>4. CASE campaigns = {} /\ Read(t, "create", NewId(t))
    BY <1>0, <1>2, <1>4 DEF NewId
<1>. QED
    BY <1>3, <1>4 DEF Begin

LEMMA RollBackSteps ==
    ASSUME CampaignInv, NEW t \in Tools, RollBack(t)
    PROVE  CampaignInv'
<1>1. /\ UNCHANGED <<day, campaigns, portfolio>> /\ tool' = [tool EXCEPT ![t] = Idle]
    BY DEF RollBack, identity
<1>2. tool' \in [Tools -> RunType \cup {Idle}]
    BY <1>1 DEF CampaignInv
<1>3. Existing' = Existing /\ Active' = Active /\ Audited' = Audited
    BY <1>1 DEF Existing, Active, Audited
<1>4. ASSUME NEW u \in Tools, tool'[u] # Idle PROVE RunOK(tool[u])'
    <2>1. tool'[u] = tool[u] /\ RunOK(tool[u])
        BY <1>1, <1>4 DEF CampaignInv
    <2>. QED
        BY <1>1, <1>3, <2>1 DEF RunOK
<1>. QED
    BY <1>1, <1>2, <1>3, <1>4 DEF CampaignInv

(* A repair leaves its campaign resolved, and its portfolio the only one    *)
(* that is active, although it writes only the columns it thinks differ.    *)
LEMMA RepairEffect ==
    ASSUME CampaignInv, NEW t \in Tools, Repair(t)
    PROVE  LET p == tool[t].target IN
           /\ p \in Ids /\ campaigns = {p} /\ campaigns' = {p} /\ day' = day
           /\ portfolio' \in [Ids -> PortfolioType \cup {Absent}]
           /\ Existing' = Existing /\ Active' = {p} /\ Audited' = Audited \cup {p}
           /\ \A q \in Ids : portfolio'[q].pristine = portfolio[q].pristine
<1>. DEFINE run == tool[t]
            p   == run.target
<1>0. run # Idle /\ run.step = "repair"
    BY DEF Repair, Idle
<1>1. run \in RunType /\ RunOK(run)
    BY <1>0 DEF CampaignInv
<1>2. /\ campaigns = {p} /\ run.seen = Existing /\ Active \ {p} \subseteq run.active
      /\ p \in run.active => p \in Active
    BY <1>0, <1>1 DEF RunOK
<1>3. p \in Existing /\ p \in Ids
    BY <1>2 DEF CampaignInv, Existing
<1>4. portfolio' = [q \in Ids |-> IF q \in Existing THEN Settled(run, q) ELSE portfolio[q]]
    BY <1>0, <1>2 DEF Repair, Chosen
<1>5. portfolio \in [Ids -> PortfolioType \cup {Absent}]
    BY DEF CampaignInv
<1>. HIDE DEF run, p
<1>6. ASSUME NEW q \in Ids, q \in Existing
      PROVE  /\ portfolio'[q] \in PortfolioType
             /\ portfolio'[q].active = (q = p)
             /\ portfolio'[q].opening = (portfolio[q].opening \/ q = p)
             /\ portfolio'[q].pristine = portfolio[q].pristine
    <2>1. portfolio[q] \in PortfolioType /\ portfolio'[q] = Settled(run, q)
        BY <1>4, <1>5, <1>6, ExistingType
    <2>2. portfolio[q].active \in BOOLEAN /\ (q \in Active <=> portfolio[q].active)
        BY <1>6, <2>1 DEF PortfolioType, Active
    <2>3. Written(q \in run.active, q = run.target, portfolio[q].active) = (q = p)
        BY <1>2, <2>2 DEF Written, p
    <2>. QED
        BY <1>1, <2>1, <2>3, SettledFields DEF p
<1>7. ASSUME NEW q \in Ids, q \notin Existing
      PROVE  portfolio'[q] = portfolio[q] /\ portfolio'[q] = Absent
    BY <1>4, <1>5, <1>7, ExistingType
<1>8. portfolio' \in [Ids -> PortfolioType \cup {Absent}]
    BY <1>4, <1>6, <1>7
<1>9. Absent.exists = FALSE /\ \A x \in PortfolioType : x.exists = TRUE
    BY DEF Absent, PortfolioType
<1>10. Existing' = Existing
    BY <1>6, <1>7, <1>9 DEF Existing
<1>11. Active' = {p} /\ Audited' = Audited \cup {p}
    BY <1>3, <1>6, <1>10 DEF Active, Audited, Existing
<1>12. campaigns' = campaigns /\ day' = day
    BY DEF Repair
<1>. QED
    BY <1>2, <1>3, <1>6, <1>7, <1>8, <1>10, <1>11, <1>12 DEF p, run

LEMMA RepairSteps ==
    ASSUME CampaignInv, NEW t \in Tools, Repair(t)
    PROVE  CampaignInv'
<1>. DEFINE p == tool[t].target
<1>1. /\ p \in Ids /\ campaigns = {p} /\ campaigns' = {p} /\ day' = day
      /\ portfolio' \in [Ids -> PortfolioType \cup {Absent}]
      /\ Existing' = Existing /\ Active' = {p} /\ Audited' = Audited \cup {p}
    BY RepairEffect
<1>. HIDE DEF p
<1>2. campaigns \subseteq Existing /\ tool' = [tool EXCEPT ![t] = Idle]
    BY DEF CampaignInv, Repair
<1>3. tool' \in [Tools -> RunType \cup {Idle}]
    BY <1>2 DEF CampaignInv
<1>4. p \in Existing /\ portfolio'[p].opening
    BY <1>1, <1>2 DEF Audited, Existing
<1>5. ASSUME NEW u \in Tools, tool'[u] # Idle PROVE RunOK(tool[u])'
    <2>1. tool'[u] = tool[u] /\ RunOK(tool[u])
        BY <1>2, <1>5 DEF CampaignInv
    <2>2. tool[u].step = "create" => tool[u].target = p /\ day = p
        BY <1>1, <2>1 DEF RunOK
    <2>3. tool[u].step = "repair" => tool[u].target = p
        BY <1>1, <2>1 DEF RunOK
    <2>4. portfolio'[p].exists
        BY <1>1, <1>4 DEF Existing
    <2>. QED
        BY <1>1, <1>4, <2>1, <2>2, <2>3, <2>4 DEF RunOK
<1>. QED
    BY <1>1, <1>2, <1>3, <1>5 DEF CampaignInv

(* A creation commits only into a database without a campaign, and leaves   *)
(* its own resolved.                                                        *)
LEMMA CreateEffect ==
    ASSUME CampaignInv, NEW t \in Tools, Create(t)
    PROVE  /\ campaigns = {} /\ campaigns' = {day} /\ day' = day
           /\ portfolio' \in [Ids -> PortfolioType \cup {Absent}]
           /\ Existing' = Existing \cup {day} /\ Active' = {day} /\ Audited' = Audited \cup {day}
           /\ \A q \in Existing : q # day /\ portfolio'[q].pristine = portfolio[q].pristine
<1>. DEFINE run == tool[t]
<1>0. run # Idle /\ run.step = "create"
    BY DEF Create, Idle
<1>1. run \in RunType /\ RunOK(run)
    BY <1>0 DEF CampaignInv
<1>2. run.target = day /\ campaigns \subseteq {day} /\ ~portfolio[day].exists
      /\ Active \subseteq run.active
    BY <1>0, <1>1 DEF RunOK, Create
<1>3. day \in Ids /\ day \notin Existing /\ campaigns = {}
    BY <1>2 DEF CampaignInv, Existing, Ids
<1>4. \A q \in Ids : portfolio'[q] = IF q = day THEN Fresh
                                      ELSE IF q \in run.active THEN Settled(run, q) ELSE portfolio[q]
    BY <1>0, <1>2 DEF Create, Chosen
<1>5. portfolio' = [q \in Ids |-> portfolio'[q]]
    BY DEF Create
<1>6. portfolio \in [Ids -> PortfolioType \cup {Absent}]
    BY DEF CampaignInv
<1>. HIDE DEF run
<1>8. ASSUME NEW q \in Ids, q \in Existing
      PROVE  /\ q # day /\ portfolio'[q] \in PortfolioType
             /\ portfolio'[q].active = FALSE
             /\ portfolio'[q].opening = portfolio[q].opening
             /\ portfolio'[q].pristine = portfolio[q].pristine
    <2>1. portfolio[q] \in PortfolioType /\ q # day
        BY <1>3, <1>6, <1>8, ExistingType
    <2>2. portfolio[q].active \in BOOLEAN /\ (q \in Active <=> portfolio[q].active)
        BY <1>8, <2>1 DEF PortfolioType, Active
    <2>3. CASE q \in run.active
        <3>1. Written(q \in run.active, q = run.target, portfolio[q].active) = FALSE
            BY <1>2, <2>1, <2>3 DEF Written
        <3>2. portfolio'[q] = Settled(run, q)
            BY <1>4, <2>1, <2>3
        <3>3. /\ Settled(run, q) \in PortfolioType
              /\ Settled(run, q).active = Written(q \in run.active, q = run.target, portfolio[q].active)
              /\ Settled(run, q).opening = (portfolio[q].opening \/ q = run.target)
              /\ Settled(run, q).pristine = portfolio[q].pristine
            BY <1>1, <2>1, SettledFields
        <3>4. portfolio[q].opening \in BOOLEAN
            BY <2>1 DEF PortfolioType
        <3>. QED
            BY <1>2, <2>1, <3>1, <3>2, <3>3, <3>4
    <2>4. CASE q \notin run.active
        BY <1>2, <1>4, <2>1, <2>2, <2>4
    <2>. QED
        BY <2>3, <2>4
<1>9. ASSUME NEW q \in Ids, q \notin Existing, q # day
      PROVE  portfolio'[q] = Absent
    <2>1. portfolio[q] = Absent
        BY <1>6, <1>9, ExistingType
    <2>2. DOMAIN Absent = {"exists"} /\ Settled(run, q) = Absent
        BY <2>1 DEF Settled, Absent
    <2>. QED
        BY <1>4, <1>9, <2>1, <2>2
<1>10. Fresh \in PortfolioType /\ Fresh.active /\ Fresh.opening
    BY DEF Fresh, PortfolioType
<1>11. portfolio' \in [Ids -> PortfolioType \cup {Absent}]
    BY <1>4, <1>5, <1>8, <1>9, <1>10
<1>12. Absent.exists = FALSE /\ \A x \in PortfolioType : x.exists = TRUE
    BY DEF Absent, PortfolioType
<1>13. Existing' = Existing \cup {day}
    BY <1>3, <1>4, <1>8, <1>9, <1>10, <1>12 DEF Existing
<1>14. Active' = {day} /\ Audited' = Audited \cup {day}
    BY <1>3, <1>4, <1>8, <1>10, <1>13 DEF Active, Audited, Existing
<1>15. campaigns' = {day} /\ day' = day
    BY <1>2, <1>3 DEF Create, run
<1>. QED
    BY <1>3, <1>8, <1>11, <1>13, <1>14, <1>15 DEF Existing

LEMMA CreateSteps ==
    ASSUME CampaignInv, NEW t \in Tools, Create(t)
    PROVE  CampaignInv'
<1>1. /\ campaigns = {} /\ campaigns' = {day} /\ day' = day
      /\ portfolio' \in [Ids -> PortfolioType \cup {Absent}]
      /\ Existing' = Existing \cup {day} /\ Active' = {day} /\ Audited' = Audited \cup {day}
    BY CreateEffect
<1>2. tool' = [tool EXCEPT ![t] = Idle] /\ day \in Days
    BY DEF CampaignInv, Create
<1>3. tool' \in [Tools -> RunType \cup {Idle}]
    BY <1>2 DEF CampaignInv
<1>4. portfolio'[day].exists
    BY <1>1 DEF Existing
<1>5. ASSUME NEW u \in Tools, tool'[u] # Idle PROVE RunOK(tool[u])'
    <2>1. tool'[u] = tool[u] /\ RunOK(tool[u])
        BY <1>2, <1>5 DEF CampaignInv
    <2>2. tool[u].step # "repair"
        BY <1>1, <2>1 DEF RunOK
    <2>. QED
        BY <1>1, <1>4, <2>1, <2>2 DEF RunOK
<1>. QED
    BY <1>1, <1>2, <1>3, <1>5 DEF CampaignInv

LEMMA CampaignStep == CampaignInv /\ [Next]_vars => CampaignInv'
<1>. SUFFICES ASSUME CampaignInv, [Next]_vars PROVE CampaignInv'
    OBVIOUS
<1>1. CASE UNCHANGED campaignVars
    BY <1>1 DEF campaignVars, identity, CampaignInv, RunOK, Existing, Active, Audited
<1>2. CASE CampaignNext
    BY <1>2, ReaderSteps, MidnightSteps, BeginSteps, RepairSteps, CreateSteps, RollBackSteps
    DEF CampaignNext
<1>. QED
    BY <1>1, <1>2 DEF Next, vars

LEMMA CampaignInvHolds == Spec => []CampaignInv
<1>1. Init => CampaignInv
    BY CampaignInit_Inv DEF Init
<1>. QED
    BY <1>1, CampaignStep, PTL DEF Spec

-----------------------------------------------------------------------------
(* The identity of the campaign.                                            *)

LEMMA ResolvesMeans ==
    ASSUME CampaignInv, NEW p \in Ids
    PROVE  Resolves(p) <=> campaigns = {p} /\ Active = {p} /\ p \in Audited
    BY DEF Resolves, Audited, Active

LEMMA ToolEffect ==
    ASSUME CampaignInv, CampaignNext
    PROVE  \/ campaigns' = campaigns /\ Existing' = Existing /\ Active' = Active /\ Audited' = Audited
              /\ (UNCHANGED identity \/ UNCHANGED tool)
           \/ \E t \in Tools : Repair(t) \/ Create(t)
<1>1. CASE FlipKill \/ Trade
    BY <1>1, ReaderSteps
<1>2. CASE Midnight \/ \E t \in Tools : Begin(t) \/ RollBack(t)
    BY <1>2 DEF Midnight, Begin, RollBack, identity, Existing, Active, Audited
<1>. QED
    BY <1>1, <1>2 DEF CampaignNext

(* The campaign that readers resolve stays the one they resolve, for any    *)
(* number of overlapping runs of the tool.                                  *)
THEOREM CampaignKeepsIdentity == Spec => IdentityStable
<1>1. CampaignInv /\ CampaignInv' /\ [Next]_vars
        => [\A p \in Ids : Resolves(p) => Resolves(p)']_campaignVars
    <2>. SUFFICES ASSUME CampaignInv, CampaignInv', CampaignNext, NEW p \in Ids, Resolves(p)
                  PROVE  Resolves(p)'
        BY DEF Next, vars
    <2>1. campaigns = {p} /\ Active = {p} /\ p \in Audited
        BY ResolvesMeans
    <2>2. campaigns' = {p} /\ Active' = {p} /\ p \in Audited'
        BY <2>1, ToolEffect, RepairEffect, CreateEffect
    <2>. QED
        BY <2>2 DEF Resolves, Audited
<1>. QED
    BY <1>1, CampaignInvHolds, PTL DEF Spec, IdentityStable

(* A run of the tool that commits leaves a campaign that readers resolve,   *)
(* whatever it and the runs beside it had read.                             *)
THEOREM ToolResolves == Spec => ToolHelps
<1>1. CampaignInv /\ [Next]_vars
        => [identity' # identity /\ tool' # tool => \E p \in Ids : Resolves(p)']_campaignVars
    <2>. SUFFICES ASSUME CampaignInv, CampaignNext, identity' # identity, tool' # tool
                  PROVE  \E p \in Ids : Resolves(p)'
        BY DEF Next, vars
    <2>1. PICK t \in Tools : Repair(t) \/ Create(t)
        BY ToolEffect
    <2>2. day \in Ids
        BY DEF CampaignInv, Ids
    <2>3. \E p \in Ids : campaigns' = {p} /\ Active' = {p} /\ p \in Audited'
        BY <2>1, <2>2, RepairEffect, CreateEffect
    <2>. QED
        BY <2>3 DEF Resolves, Audited
<1>. QED
    BY <1>1, CampaignInvHolds, PTL DEF Spec, ToolHelps

(* An opening snapshot is only ever written for a portfolio that has not    *)
(* traded, although the tool looks for trades long before it commits.       *)
THEOREM OpeningIsHonest == Spec => OpeningComesFirst
<1>1. CampaignInv /\ CampaignInv' /\ [Next]_vars
        => [\A p \in Ids : portfolio[p].exists /\ ~portfolio[p].opening /\ portfolio'[p].opening
                => portfolio'[p].pristine]_campaignVars
    <2>. SUFFICES ASSUME CampaignInv, CampaignInv', CampaignNext, NEW p \in Ids,
                         portfolio[p].exists, ~portfolio[p].opening, portfolio'[p].opening
                  PROVE  portfolio'[p].pristine
        BY DEF Next, vars
    <2>1. p \in Existing /\ p \notin Audited
        BY DEF Existing, Audited
    <2>2. Existing \subseteq Existing'
        BY ToolEffect, RepairEffect, CreateEffect
    <2>3. p \in Audited'
        BY <2>1, <2>2 DEF Audited
    <2>4. PICK t \in Tools : Repair(t) \/ Create(t)
        BY <2>1, <2>3, ToolEffect
    <2>5. CASE Repair(t)
        <3>1. p = tool[t].target /\ portfolio'[p].pristine = portfolio[p].pristine
            BY <2>1, <2>3, <2>5, RepairEffect
        <3>2. RunOK(tool[t]) /\ tool[t].step = "repair"
            BY <2>5 DEF CampaignInv, Repair, Idle
        <3>. QED
            BY <3>1, <3>2 DEF RunOK
    <2>6. CASE Create(t)
        BY <2>1, <2>3, <2>6, CreateEffect
    <2>. QED
        BY <2>4, <2>5, <2>6
<1>. QED
    BY <1>1, CampaignInvHolds, PTL DEF Spec, OpeningComesFirst

-----------------------------------------------------------------------------
(* Calibrations.                                                            *)

(* Only a version that won on the trades it had not seen is ever a          *)
(* candidate, approved or retired.                                          *)
Won(v) == v \in 1..Len(verdict) /\ verdict[v] = "better"

(* What a request has read still holds, or it was overtaken.                *)
RequestOK(r) ==
    /\ r.step = "train" => r.version <= Len(verdict)
    /\ r.step = "approve" =>
          /\ Won(r.version)
          /\ \A u \in r.saw : Won(u)
          /\ ~r.overtaken => r.saw = Live

ArtifactOK(v) ==
    /\ artifact[v].status # "missing" => v <= Len(verdict)
    /\ artifact[v].status \in {"CANDIDATE", "ACTIVE", "ARCHIVED"} => Won(v)
    /\ artifact[v].status = "missing" => artifact[v] = Missing

CalibrationInv ==
    /\ verdict \in Seq(Verdicts) /\ Len(verdict) <= MaxTrades
    /\ approvals \in 0..MaxApprovals
    /\ artifact \in [Versions -> Artifact]
    /\ \A v \in Versions : ArtifactOK(v)
    /\ request \in [Handlers -> TrainType \cup ApproveType \cup {NoRequest}]
    /\ \A h \in Handlers : RequestOK(request[h])

LEMMA CalibrationInit == Init => CalibrationInv
<1>. SUFFICES ASSUME Init PROVE CalibrationInv
    OBVIOUS
<1>1. verdict = <<>> /\ verdict \in Seq(Verdicts) /\ Len(verdict) = 0
    BY DEF Init
<1>2. Missing \in Artifact /\ Missing.status = "missing" /\ NoRequest.step = "none"
    BY CalibrationAssumption DEF Missing, Artifact, NoRequest, CalibrationAssumption
<1>3. approvals \in 0..MaxApprovals /\ 0 <= MaxTrades
    BY CalibrationAssumption DEF Init, CalibrationAssumption
<1>4. artifact = [v \in Versions |-> Missing] /\ request = [h \in Handlers |-> NoRequest]
    BY DEF Init
<1>. QED
    BY <1>1, <1>2, <1>3, <1>4 DEF CalibrationInv, ArtifactOK, RequestOK

LEMMA TradeCloses ==
    ASSUME CalibrationInv, CloseTrade
    PROVE  CalibrationInv'
<1>1. PICK v \in Verdicts : verdict' = Append(verdict, v)
    BY DEF CloseTrade
<1>2. verdict \in Seq(Verdicts) /\ Len(verdict) \in Nat /\ Len(verdict) < MaxTrades
      /\ MaxTrades \in Nat
    BY CalibrationAssumption DEF CalibrationInv, CloseTrade, CalibrationAssumption
<1>3. /\ verdict' \in Seq(Verdicts) /\ Len(verdict') = Len(verdict) + 1
      /\ \A u \in 1..Len(verdict) : verdict'[u] = verdict[u]
    BY <1>1, <1>2
<1>4. \A u \in Versions : Won(u) => u \in 1..Len(verdict') /\ verdict'[u] = "better"
    BY <1>2, <1>3 DEF Won, Versions
<1>5. \A u \in Versions : u <= Len(verdict) => u <= Len(verdict')
    BY <1>2, <1>3 DEF Versions
<1>6. /\ UNCHANGED <<artifact, request, approvals>> /\ Live' = Live
      /\ request \in [Handlers -> TrainType \cup ApproveType \cup {NoRequest}]
    BY DEF CloseTrade, Live, CalibrationInv
<1>7. ASSUME NEW h \in Handlers PROVE RequestOK(request[h])'
    <2>1. CASE request[h] \in TrainType
        <3>1. request[h].version \in Versions /\ request[h].step = "train"
            BY <2>1 DEF TrainType
        <3>. QED
            BY <1>5, <1>6, <3>1 DEF CalibrationInv, RequestOK
    <2>2. CASE request[h] \in ApproveType
        <3>1. request[h].version \in Versions /\ request[h].step = "approve"
              /\ request[h].saw \in SUBSET Versions
            BY <2>2 DEF ApproveType
        <3>2. RequestOK(request[h])
            BY DEF CalibrationInv
        <3>. QED
            BY <1>4, <1>6, <3>1, <3>2 DEF RequestOK, Won
    <2>3. CASE request[h] = NoRequest
        BY <1>6, <2>3 DEF RequestOK, NoRequest
    <2>. QED
        BY <1>6, <2>1, <2>2, <2>3
<1>8. \A u \in Versions : ArtifactOK(u)'
    BY <1>4, <1>5, <1>6 DEF CalibrationInv, ArtifactOK, Won
<1>9. Len(verdict') <= MaxTrades
    BY <1>2, <1>3
<1>. QED
    BY <1>3, <1>6, <1>7, <1>8, <1>9 DEF CalibrationInv

(* A request that is begun, or given up, changes only itself.               *)
LEMMA RequestChanges ==
    ASSUME CalibrationInv, NEW h \in Handlers, NEW new \in TrainType \cup ApproveType \cup {NoRequest},
           Receive(h, new), UNCHANGED <<verdict, artifact>>, approvals' \in 0..MaxApprovals,
           RequestOK(new)
    PROVE  CalibrationInv'
<1>1. Live' = Live /\ request' = [request EXCEPT ![h] = new]
    BY DEF Live, Receive
<1>2. request' \in [Handlers -> TrainType \cup ApproveType \cup {NoRequest}]
    BY <1>1 DEF CalibrationInv
<1>3. \A i \in Handlers : RequestOK(request'[i])
    BY <1>1 DEF CalibrationInv
<1>4. \A i \in Handlers : RequestOK(request[i])'
    BY <1>1, <1>3 DEF RequestOK, Won
<1>5. \A v \in Versions : ArtifactOK(v)'
    BY DEF CalibrationInv, ArtifactOK, Won
<1>. QED
    BY <1>2, <1>4, <1>5 DEF CalibrationInv

LEMMA RequestSteps ==
    ASSUME CalibrationInv, NEW h \in Handlers, Train(h) \/ Approve(h) \/ Abandon(h)
    PROVE  CalibrationInv'
<1>1. CASE Train(h)
    <2>. DEFINE new == [step |-> "train", version |-> Len(verdict)]
    <2>1. new \in TrainType /\ RequestOK(new)
        BY <1>1, CalibrationAssumption
        DEF Train, TrainType, Versions, CalibrationInv, CalibrationAssumption, RequestOK
    <2>2. Receive(h, new) /\ UNCHANGED <<verdict, artifact, approvals>>
        BY <1>1 DEF Train
    <2>. HIDE DEF new
    <2>. QED
        BY <2>1, <2>2, RequestChanges DEF CalibrationInv
<1>2. CASE Approve(h)
    <2>1. PICK v \in Versions :
              /\ MayApprove(v)
              /\ Receive(h, [step |-> "approve", version |-> v, at |-> approvals + 1,
                             saw |-> InForce, overtaken |-> FALSE])
        BY <1>2 DEF Approve
    <2>. DEFINE new == [step |-> "approve", version |-> v, at |-> approvals + 1,
                        saw |-> InForce, overtaken |-> FALSE]
    <2>2. approvals' = approvals + 1 /\ approvals + 1 \in 0..MaxApprovals
          /\ UNCHANGED <<verdict, artifact>>
        BY <1>2, CalibrationAssumption DEF Approve, CalibrationInv, CalibrationAssumption
    <2>3. new \in ApproveType /\ new.step = "approve" /\ new.version = v /\ new.saw = Live
        BY <2>2 DEF ApproveType, InForce, Live
    <2>4. Won(v) /\ \A u \in Live : Won(u)
        BY <2>1 DEF MayApprove, CalibrationInv, ArtifactOK, Live
    <2>6. RequestOK(new)
        BY <2>3, <2>4 DEF RequestOK
    <2>5. Receive(h, new)
        BY <2>1
    <2>. HIDE DEF new
    <2>. QED
        BY <2>2, <2>3, <2>5, <2>6, RequestChanges
<1>3. CASE Abandon(h)
    <2>1. RequestOK(NoRequest)
        BY DEF NoRequest, RequestOK
    <2>. QED
        BY <1>3, <2>1, RequestChanges DEF Abandon, CalibrationInv
<1>. QED
    BY <1>1, <1>2, <1>3

LEMMA TrainingCommits ==
    ASSUME CalibrationInv, NEW h \in Handlers, CommitTraining(h)
    PROVE  CalibrationInv'
<1>. DEFINE v   == request[h].version
            new == [status |-> StatusOf(v), at |-> 0]
<1>1. request[h] \in TrainType /\ v \in Versions /\ v <= Len(verdict)
    <2>1. request[h].step = "train"
        BY DEF CommitTraining
    <2>2. request[h] \in TrainType
        BY <2>1 DEF CalibrationInv, ApproveType, NoRequest
    <2>. QED
        BY <2>1, <2>2 DEF TrainType, CalibrationInv, RequestOK
<1>2. artifact' = [artifact EXCEPT ![v] = new] /\ artifact[v] = Missing
      /\ request' = [request EXCEPT ![h] = NoRequest] /\ UNCHANGED <<verdict, approvals>>
    BY DEF CommitTraining, Receive
<1>3. /\ new \in Artifact /\ new.status \in {"CANDIDATE", "REJECTED"}
      /\ new.status = "CANDIDATE" => verdict[v] = "better"
    BY CalibrationAssumption DEF StatusOf, Artifact, CalibrationAssumption
<1>4. v \in 1..Len(verdict)
    BY <1>1 DEF Versions, CalibrationInv
<1>. HIDE DEF v, new
<1>5. /\ artifact' \in [Versions -> Artifact]
      /\ \A u \in Versions : artifact'[u] = IF u = v THEN new ELSE artifact[u]
    BY <1>1, <1>2, <1>3 DEF CalibrationInv
<1>6. Missing.status = "missing" /\ RequestOK(NoRequest)
    BY DEF Missing, NoRequest, RequestOK
<1>7. Live' = Live
    BY <1>1, <1>2, <1>3, <1>5, <1>6 DEF Live
<1>8. ASSUME NEW u \in Versions PROVE ArtifactOK(u)'
    BY <1>2, <1>3, <1>4, <1>5 DEF CalibrationInv, ArtifactOK, Won
<1>9. request' \in [Handlers -> TrainType \cup ApproveType \cup {NoRequest}]
    BY <1>2 DEF CalibrationInv
<1>10. \A i \in Handlers : RequestOK(request'[i])
    BY <1>2, <1>6 DEF CalibrationInv
<1>11. \A i \in Handlers : RequestOK(request[i])'
    BY <1>2, <1>7, <1>10 DEF RequestOK, Won
<1>. QED
    BY <1>2, <1>5, <1>8, <1>9, <1>11 DEF CalibrationInv

(* After an approval that nobody overtook its artifact is alone in force.   *)
LEMMA ApprovalEffect ==
    ASSUME CalibrationInv, NEW h \in Handlers, CommitApproval(h)
    PROVE  LET r == request[h] IN
           /\ r \in ApproveType /\ Won(r.version) /\ \A u \in r.saw : Won(u)
           /\ artifact' \in [Versions -> Artifact]
           /\ artifact'[r.version].status = "ACTIVE"
           /\ \A v \in Versions \ {r.version} :
                 \/ artifact'[v] = artifact[v]
                 \/ artifact'[v].status = "ARCHIVED" /\ v \in r.saw
           /\ ~r.overtaken => Live' = {r.version}
<1>. DEFINE r == request[h]
<1>1. /\ r \in ApproveType /\ Won(r.version) /\ \A u \in r.saw : Won(u)
      /\ ~r.overtaken => r.saw = Live
    <2>1. request[h].step = "approve"
        BY DEF CommitApproval
    <2>2. request[h] \in ApproveType
        BY <2>1 DEF CalibrationInv, TrainType, NoRequest
    <2>. QED
        BY <2>1, <2>2 DEF CalibrationInv, RequestOK
<1>2. /\ artifact' = [v \in Versions |->
                        CASE v = r.version -> [status |-> "ACTIVE", at |-> r.at]
                          [] v # r.version /\ v \in r.saw -> [artifact[v] EXCEPT !.status = "ARCHIVED"]
                          [] v # r.version /\ v \notin r.saw -> artifact[v]]
      /\ artifact \in [Versions -> Artifact]
    BY DEF CommitApproval, CalibrationInv
<1>3. r.version \in Versions /\ r.at \in 0..MaxApprovals
    BY <1>1 DEF ApproveType
<1>. HIDE DEF r
<1>4. artifact'[r.version] = [status |-> "ACTIVE", at |-> r.at]
    BY <1>2, <1>3
<1>5. ASSUME NEW v \in Versions, v # r.version, v \in r.saw
      PROVE  artifact'[v] \in Artifact /\ artifact'[v].status = "ARCHIVED"
    <2>1. artifact'[v] = [artifact[v] EXCEPT !.status = "ARCHIVED"] /\ artifact[v] \in Artifact
        BY <1>2, <1>5
    <2>. QED
        BY <2>1 DEF Artifact
<1>6. ASSUME NEW v \in Versions, v # r.version, v \notin r.saw
      PROVE  artifact'[v] = artifact[v]
    BY <1>2, <1>6
<1>7. [status |-> "ACTIVE", at |-> r.at] \in Artifact
    BY <1>3 DEF Artifact
<1>8. artifact' \in [Versions -> Artifact]
    <2>1. artifact' = [v \in Versions |-> artifact'[v]]
        BY <1>2
    <2>2. \A v \in Versions : artifact'[v] \in Artifact
        BY <1>2, <1>4, <1>5, <1>6, <1>7
    <2>. QED
        BY <2>1, <2>2
<1>9. ~r.overtaken => Live' = {r.version}
    BY <1>1, <1>3, <1>4, <1>5, <1>6 DEF Live
<1>. QED
    BY <1>1, <1>3, <1>4, <1>5, <1>6, <1>8, <1>9 DEF r

LEMMA ApprovalCommits ==
    ASSUME CalibrationInv, NEW h \in Handlers, CommitApproval(h)
    PROVE  CalibrationInv'
<1>. DEFINE r == request[h]
<1>1. /\ r \in ApproveType /\ Won(r.version) /\ \A u \in r.saw : Won(u)
      /\ artifact' \in [Versions -> Artifact]
      /\ artifact'[r.version].status = "ACTIVE"
      /\ \A v \in Versions \ {r.version} :
            \/ artifact'[v] = artifact[v]
            \/ artifact'[v].status = "ARCHIVED" /\ v \in r.saw
    BY ApprovalEffect
<1>2. UNCHANGED <<verdict, approvals>> /\ r.version \in Versions
      /\ request' = [i \in Handlers |->
            CASE i = h -> NoRequest
              [] i # h /\ request[i].step = "approve" -> [request[i] EXCEPT !.overtaken = TRUE]
              [] OTHER -> request[i]]
    BY <1>1 DEF CommitApproval, ApproveType
<1>. HIDE DEF r
<1>3. ASSUME NEW v \in Versions PROVE ArtifactOK(v)'
    <2>1. CASE v = r.version
        BY <1>1, <1>2, <2>1 DEF ArtifactOK, Won, CalibrationInv
    <2>2. CASE v # r.version /\ artifact'[v] = artifact[v]
        BY <1>2, <2>2 DEF ArtifactOK, Won, CalibrationInv
    <2>3. CASE artifact'[v].status = "ARCHIVED" /\ v \in r.saw
        BY <1>1, <1>2, <2>3 DEF ArtifactOK, Won, CalibrationInv
    <2>. QED
        BY <1>1, <2>1, <2>2, <2>3
<1>4. ASSUME NEW i \in Handlers
      PROVE  /\ request'[i] \in TrainType \cup ApproveType \cup {NoRequest}
             /\ RequestOK(request[i])'
    <2>1. CASE i = h
        <3>1. request'[i] = NoRequest
            BY <1>2, <2>1
        <3>. QED
            BY <3>1 DEF NoRequest, RequestOK
    <2>2. CASE i # h /\ request[i] \in ApproveType
        <3>1. request[i].step = "approve" /\ request[i].version \in Versions
              /\ request[i].saw \in SUBSET Versions
            BY <2>2 DEF ApproveType
        <3>2. request'[i] = [request[i] EXCEPT !.overtaken = TRUE]
            BY <1>2, <2>2, <3>1
        <3>3. /\ request'[i] \in ApproveType /\ request'[i].overtaken
              /\ request'[i].step = "approve"
              /\ request'[i].version = request[i].version /\ request'[i].saw = request[i].saw
            BY <2>2, <3>2 DEF ApproveType
        <3>4. Won(request[i].version) /\ \A u \in request[i].saw : Won(u)
            BY <3>1 DEF CalibrationInv, RequestOK
        <3>. QED
            BY <1>2, <3>3, <3>4 DEF RequestOK, Won
    <2>3. CASE i # h /\ request[i] \in TrainType \cup {NoRequest}
        <3>1. request[i].step # "approve"
            BY <2>3 DEF TrainType, NoRequest
        <3>2. request'[i] = request[i]
            BY <1>2, <2>3, <3>1
        <3>3. RequestOK(request[i])
            BY DEF CalibrationInv
        <3>. QED
            BY <1>2, <2>3, <3>1, <3>2, <3>3 DEF RequestOK
    <2>. QED
        BY <2>1, <2>2, <2>3 DEF CalibrationInv
<1>5. request' = [i \in Handlers |-> request'[i]]
    BY <1>2
<1>. QED
    BY <1>1, <1>2, <1>3, <1>4, <1>5 DEF CalibrationInv

LEMMA CalibrationStep == CalibrationInv /\ [Next]_vars => CalibrationInv'
<1>. SUFFICES ASSUME CalibrationInv, [Next]_vars PROVE CalibrationInv'
    OBVIOUS
<1>1. CASE UNCHANGED calibrationVars
    BY <1>1 DEF calibrationVars, CalibrationInv, ArtifactOK, RequestOK, Won, Live
<1>2. CASE CalibrationNext
    BY <1>2, TradeCloses, RequestSteps, TrainingCommits, ApprovalCommits DEF CalibrationNext
<1>. QED
    BY <1>1, <1>2 DEF Next, vars

LEMMA CalibrationInvHolds == Spec => []CalibrationInv
    BY CalibrationInit, CalibrationStep, PTL DEF Spec

-----------------------------------------------------------------------------
(* The calibrator in use.                                                   *)

LEMMA Smallest ==
    ASSUME NEW S \in SUBSET Nat, S # {}
    PROVE  \E n \in S : \A m \in S : n <= m
<1>. DEFINE Less == {ss \in Nat \X Nat : ss[1] < ss[2]}
<1>1. Less = OpToRel(<, Nat)
    BY DEF OpToRel
<1>2. IsWellFoundedOn(Less, Nat)
    BY <1>1, NatLessThanWellFounded
<1>. HIDE DEF Less
<1>3. PICK n \in S : \A m \in S : <<m, n>> \notin Less
    BY <1>2, WFMin
<1>4. ASSUME NEW m \in S PROVE n <= m
    <2>1. m \in Nat /\ n \in Nat /\ <<m, n>> \notin Less
        BY <1>3
    <2>2. ~(m < n)
        BY <2>1 DEF Less
    <2>. QED
        BY <2>1, <2>2
<1>. QED
    BY <1>4

(* There is a last approval among those in force.                           *)
LEMMA ServedIsLive ==
    ASSUME CalibrationInv, Live # {}
    PROVE  Served \in Live
<1>. DEFINE S == {MaxApprovals - artifact[v].at : v \in Live}
<1>1. MaxApprovals \in Nat /\ \A v \in Live : v \in Versions /\ artifact[v].at \in 0..MaxApprovals
    BY CalibrationAssumption DEF CalibrationAssumption, CalibrationInv, Live, Artifact
<1>2. S \in SUBSET Nat /\ S # {}
    BY <1>1
<1>3. PICK n \in S : \A m \in S : n <= m
    BY <1>2, Smallest
<1>4. PICK v \in Live : n = MaxApprovals - artifact[v].at
    OBVIOUS
<1>5. ASSUME NEW u \in Live PROVE artifact[u].at <= artifact[v].at
    <2>1. MaxApprovals - artifact[v].at <= MaxApprovals - artifact[u].at
        BY <1>3, <1>4
    <2>2. artifact[u].at \in Int /\ artifact[v].at \in Int
        BY <1>1
    <2>. QED
        BY <1>1, <2>1, <2>2
<1>. QED
    BY <1>5 DEF Served

(* The types of the two halves together.                                    *)
THEOREM CalibrationTypeCorrect == Spec => []CalibrationTypeOK
<1>1. CampaignInv => CampaignTypeOK
    BY DEF CampaignInv, CampaignTypeOK
<1>2. CalibrationInv
        => /\ Len(verdict) <= MaxTrades /\ approvals \in 0..MaxApprovals
           /\ request \in [Handlers -> TrainType \cup ApproveType \cup {NoRequest}]
           /\ \A v \in Versions :
                /\ artifact[v] \in Artifact
                /\ artifact[v] # Missing => v <= Len(verdict)
                /\ artifact[v].status = "CANDIDATE" => verdict[v] = "better"
    <2>. SUFFICES ASSUME CalibrationInv, NEW v \in Versions
                  PROVE  /\ artifact[v] \in Artifact
                         /\ artifact[v] # Missing => v <= Len(verdict)
                         /\ artifact[v].status = "CANDIDATE" => verdict[v] = "better"
        BY DEF CalibrationInv
    <2>1. artifact[v] \in Artifact /\ ArtifactOK(v)
        BY DEF CalibrationInv
    <2>. QED
        BY <2>1 DEF ArtifactOK, Won
<1>. QED
    BY <1>1, <1>2, CampaignInvHolds, CalibrationInvHolds, PTL DEF CalibrationTypeOK

(* Whatever the order of trainings and approvals and however many overlap,  *)
(* no cycle or scan loads a curve that lost on the trades it had not seen.  *)
THEOREM OnlyProvenServed == Spec => []ServedIsProven
<1>1. CalibrationInv => ServedIsProven
    <2>. SUFFICES ASSUME CalibrationInv, Served # 0 PROVE verdict[Served] = "better"
        BY DEF ServedIsProven
    <2>1. Live # {}
        BY DEF Served
    <2>2. Served \in Live
        BY <2>1, ServedIsLive
    <2>. QED
        BY <2>2 DEF Live, CalibrationInv, ArtifactOK, Won
<1>. QED
    BY <1>1, CalibrationInvHolds, PTL

(* An approval nobody overtook is alone in force and in use, even when      *)
(* approvals that overlapped before it had left two.                        *)
THEOREM LoneApprovalServes == Spec => LoneApprovalRules
<1>1. CalibrationInv /\ CalibrationInv' /\ [Next]_vars
        => [\A h \in Handlers :
              CommitApproval(h) /\ ~request[h].overtaken
                => Live' = {request[h].version} /\ Served' = request[h].version]_vars
    <2>. SUFFICES ASSUME CalibrationInv, CalibrationInv', NEW h \in Handlers,
                         ~request[h].overtaken, CommitApproval(h)
                  PROVE  Live' = {request[h].version} /\ Served' = request[h].version
        OBVIOUS
    <2>1. Live' = {request[h].version}
        BY ApprovalEffect
    <2>2. artifact'[request[h].version].at <= artifact'[request[h].version].at
        <3>1. request[h].version \in Versions
            BY ApprovalEffect DEF ApproveType
        <3>. QED
            BY <3>1 DEF CalibrationInv, Artifact
    <2>3. Served' = CHOOSE v \in Live' : \A u \in Live' : artifact'[u].at <= artifact'[v].at
        BY <2>1 DEF Served
    <2>. QED
        BY <2>1, <2>2, <2>3
<1>. QED
    BY <1>1, CalibrationInvHolds, PTL DEF Spec, LoneApprovalRules
=============================================================================
