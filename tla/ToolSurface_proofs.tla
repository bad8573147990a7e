------------------------ MODULE ToolSurface_proofs -------------------------
(***************************************************************************)
(* Theorems about ToolSurface: for any adapters in the registry, any tools *)
(* that are registered, any findings and faults and any deployment.        *)
(***************************************************************************)
EXTENDS ToolSurface, WellFoundedInduction, TLAPS

(* The active candidate has been captured, a candidate whose objects are   *)
(* gone is one of those the import took them from, and a resume record     *)
(* leads back to a state of the flow.                                      *)
ActiveIsCaptured == job.active \subseteq captured
ObjectsAreKept == \A c \in captured \ lost : c.tree \in workspace.objects
ResumeLeadsBack == job.resume.from # "None" => job.resume.to \in JobStates

SurfaceInv ==
  /\ TypeOK
  /\ ActiveIsCaptured
  /\ ObjectsAreKept
  /\ ResumeLeadsBack

-----------------------------------------------------------------------------
(* Calls that are accepted.                                                *)

LEMMA PatchOk ==
  ASSUME NEW args, Ok("workspace.apply_patch", args)
  PROVE  PatchAccepts
BY DEF Ok, dispatch, Dispatched, dispatch_apply_patch, InWorkspace,
       RuntimeAnswer, McpTools

LEMMA CaptureOk ==
  ASSUME NEW args, Ok("candidate.capture", args)
  PROVE  Known
BY DEF Ok, dispatch, Dispatched, dispatch_capture, InWorkspace,
       RuntimeAnswer, CaptureAccepts, McpTools

LEMMA RunOk ==
  ASSUME NEW args, Ok("check.run", args)
  PROVE  RunsCheck(args.check_id)
BY DEF Ok, dispatch, Dispatched, dispatch_check_run, RuntimeAnswer, McpTools

LEMMA ResumeOk ==
  ASSUME NEW args, Ok("job.resume", args)
  PROVE  Known /\ Resumable
BY DEF Ok, dispatch, Dispatched, dispatch_resume, RuntimeAnswer, Resumes,
       McpTools

LEMMA CheckIs ==
  ASSUME NEW id \in CheckIds
  PROVE  /\ id.candidate \in Candidates
         /\ id.candidate.family \in Families /\ id.candidate.tree \in Trees
         /\ id.index \in DOMAIN Planned[id.candidate.family]
<1>1. PICK c \in Candidates : id \in [candidate : {c}, index : DOMAIN Planned[c.family]]
  BY DEF CheckIds
<1> QED BY <1>1 DEF Candidates

(* What a run of a check can find. *)
LEMMA FindingIs ==
  ASSUME NEW id \in CheckIds, HasTool(id)
  PROVE  Finding(id) \in EvidenceStatuses
BY CheckIs, FindingsAssumption DEF Finding, HasTool

LEMMA GateStatusIs ==
  ASSUME NEW status \in EvidenceStatuses
  PROVE  evidence_to_gate_status(status) \in GateStatuses
BY DEF evidence_to_gate_status, EvidenceStatuses, GateStatuses

LEMMA RulingIs ==
  ASSUME NEW status \in EvidenceStatuses, NEW policy, NEW requirement,
         evaluate_obligation(policy, requirement, status).ok
  PROVE  evaluate_obligation(policy, requirement, status).verdict
           \in ObligationOutcome
<1> DEFINE ruling == verdict_from_evidence_status(status)
<1>1. /\ status \in {"Pass", "NotApplicable"} => ruling = Ruling("Pass")
      /\ status = "Fail" => ruling = Ruling("Fail")
      /\ status = "Inconclusive" => ruling = Refusal("HumanReviewRequired")
      /\ status = "InfrastructureError" => ruling = Refusal("PolicyUnavailable")
  BY DEF verdict_from_evidence_status
<1>2. ruling.ok => ruling.verdict \in ObligationOutcome
  BY <1>1 DEF Ruling, Refusal, ObligationOutcome, EvidenceStatuses
<1>3. evaluate_obligation(policy, requirement, status)
        \in {ruling, Refusal("InvalidConfiguration")}
  BY DEF evaluate_obligation
<1>4. Refusal("InvalidConfiguration").ok = FALSE
  BY DEF Refusal
<1> HIDE DEF ruling
<1> QED BY <1>2, <1>3, <1>4

Duties == ObligationOutcome \cup {"NotEvaluated"}

LEMMA DutiesStay ==
  ASSUME NEW id, NEW status \in EvidenceStatuses, duties \in [DutyIds -> Duties]
  PROVE  derive_obligation_verdicts(id, status) \in [DutyIds -> Duties]
<1> DEFINE ruling(d) == evaluate_obligation(Only(Registry[d.candidate.family].policy),
                                            Template(d).requirement, status)
           new(d) == IF d.candidate = id.candidate /\ ruling(d).ok
                     THEN ruling(d).verdict ELSE duties[d]
<1>1. ASSUME NEW d \in DutyIds PROVE new(d) \in Duties
  <2>1. ruling(d).ok => ruling(d).verdict \in ObligationOutcome
    BY RulingIs
  <2> HIDE DEF ruling
  <2> QED BY <2>1 DEF Duties
<1>2. derive_obligation_verdicts(id, status)
        \in {duties, [d \in DutyIds |-> new(d)]}
  BY DEF derive_obligation_verdicts
<1> HIDE DEF new
<1> QED BY <1>1, <1>2

-----------------------------------------------------------------------------
(* The invariant.                                                          *)

Jobs ==
  [state : JobStates \cup {"Absent"}, active : SUBSET Candidates,
   resume : [from : JobStates \cup {"None"}, to : JobStates \cup {"None"}]]
Workspaces == [tree : Trees, dirty : BOOLEAN, objects : SUBSET Trees]

LEMMA SurfaceInit == Init => SurfaceInv
<1> SUFFICES ASSUME Init PROVE SurfaceInv
  OBVIOUS
<1>1. job \in Jobs /\ job.active = {} /\ job.resume.from = "None"
  BY DEF Init, NoJob, NoResume, Jobs
<1>2. results \in [CheckIds -> GateStatuses]
  BY DEF Init, GateStatuses
<1>3. duties \in [DutyIds -> Duties]
  BY DEF Init, Duties
<1>4. workspace \in Workspaces
  BY SurfaceBoundsAssumption DEF Init, Workspaces, Trees, FirstTree
<1>5. captured = {} /\ lost = {} /\ upsets \in 0..MaxUpsets
  BY SurfaceBoundsAssumption DEF Init
<1> QED BY <1>1, <1>2, <1>3, <1>4, <1>5
    DEF SurfaceInv, TypeOK, Jobs, Workspaces, Duties, ActiveIsCaptured,
        ObjectsAreKept, ResumeLeadsBack

LEMMA UpsetIs ==
  ASSUME upsets \in 0..MaxUpsets, Upset
  PROVE  upsets' \in 0..MaxUpsets
BY SurfaceBoundsAssumption DEF Upset

(* What only moves the job through the flow. *)
LEMMA JobMoves ==
  ASSUME SurfaceInv, job' \in Jobs, job'.active = job.active,
         ResumeLeadsBack',
         UNCHANGED <<captured, results, duties, workspace, lost>>,
         upsets' \in 0..MaxUpsets
  PROVE  SurfaceInv'
BY DEF SurfaceInv, TypeOK, Jobs, ActiveIsCaptured, ObjectsAreKept

LEMMA SurfaceNext == SurfaceInv /\ [Next]_vars => SurfaceInv'
<1> SUFFICES ASSUME SurfaceInv, [Next]_vars PROVE SurfaceInv'
  OBVIOUS
<1> USE DEF Jobs, Workspaces, Duties
<1>1. /\ job \in Jobs /\ captured \subseteq Candidates /\ lost \subseteq Candidates
      /\ results \in [CheckIds -> GateStatuses] /\ duties \in [DutyIds -> Duties]
      /\ workspace \in Workspaces /\ upsets \in 0..MaxUpsets
  BY DEF SurfaceInv, TypeOK
<1>2. CASE UNCHANGED vars
  BY <1>2 DEF vars, SurfaceInv, TypeOK, ActiveIsCaptured, ObjectsAreKept,
              ResumeLeadsBack
<1>3. CASE CreateJob
  <2>1. job' = [NoJob EXCEPT !.state = "EventDetected"]
    BY <1>3 DEF CreateJob
  <2>2. job' \in Jobs /\ job'.active = {} /\ job'.resume.from = "None"
    BY <2>1 DEF NoJob, NoResume, JobStates, FlowStates
  <2> QED BY <1>1, <1>3, <2>2 DEF CreateJob, SurfaceInv, TypeOK, ActiveIsCaptured,
          ObjectsAreKept, ResumeLeadsBack
<1>4. CASE Patch
  <2>1. workspace.tree < MaxTree
    BY <1>4, PatchOk DEF Patch, PatchAccepts
  <2>2. workspace' = [workspace EXCEPT !.tree = @ + 1, !.dirty = TRUE]
    BY <1>4 DEF Patch
  <2>3. workspace' \in Workspaces /\ workspace'.objects = workspace.objects
    <3>1. workspace.tree + 1 \in Trees
      BY <1>1, <2>1, SurfaceBoundsAssumption DEF Trees
    <3> QED BY <1>1, <2>2, <3>1
  <2> QED BY <1>1, <1>4, <2>3 DEF Patch, SurfaceInv, TypeOK, ActiveIsCaptured,
          ObjectsAreKept, ResumeLeadsBack
<1>5. CASE Reconcile
  <2>1. PICK r \in TRANSITION_RULES : job' = [job EXCEPT !.state = r.to]
    BY <1>5 DEF Reconcile, RulesFrom
  <2>2. r.to \in JobStates
    BY <2>1 DEF TRANSITION_RULES, GateRule, JobStates, FlowStates, TerminalStates
  <2>3. job' \in Jobs /\ job'.active = job.active /\ job'.resume = job.resume
    BY <1>1, <2>1, <2>2
  <2>4. UNCHANGED <<captured, results, duties, workspace, lost, upsets>>
    BY <1>5 DEF Reconcile
  <2> QED BY <1>1, <2>3, <2>4, JobMoves DEF SurfaceInv, ResumeLeadsBack
<1>6. CASE EnterHumanReview
  <2>1. job.state \in JobStates
    BY <1>1, <1>6 DEF EnterHumanReview, Known
  <2>2. job' = [job EXCEPT !.state = "HumanReviewRequired",
                 !.resume = [from |-> "HumanReviewRequired", to |-> job.state]]
    BY <1>6 DEF EnterHumanReview
  <2>3. /\ job' \in Jobs /\ job'.active = job.active
        /\ job'.resume.to = job.state
    BY <1>1, <2>1, <2>2 DEF JobStates, ExceptionalStates
  <2>4. UNCHANGED <<captured, results, duties, workspace, lost>>
        /\ upsets' \in 0..MaxUpsets
    BY <1>1, <1>6, UpsetIs DEF EnterHumanReview
  <2> QED BY <2>1, <2>3, <2>4, JobMoves DEF ResumeLeadsBack
<1>7. CASE Resume
  <2>1. job.state \in ExceptionalStates /\ job.resume.from = job.state
    BY <1>7, ResumeOk DEF Resume, Resumable
  <2>2. job.resume.to \in JobStates
    BY <2>1 DEF SurfaceInv, ResumeLeadsBack, ExceptionalStates
  <2>3. job' = [job EXCEPT !.state = job.resume.to]
    BY <1>7 DEF Resume
  <2>4. job' \in Jobs /\ job'.active = job.active /\ job'.resume = job.resume
    BY <1>1, <2>2, <2>3
  <2>5. UNCHANGED <<captured, results, duties, workspace, lost, upsets>>
    BY <1>7 DEF Resume
  <2> QED BY <1>1, <2>4, <2>5, JobMoves DEF SurfaceInv, ResumeLeadsBack
<1>8. ASSUME CallImport, workspace' \in Workspaces,
             \/ lost' = captured
             \/ lost' = lost /\ workspace'.objects = workspace.objects
      PROVE  SurfaceInv'
  <2>1. UNCHANGED <<job, captured, results, duties>> /\ upsets' \in 0..MaxUpsets
    BY <1>1, <1>8, UpsetIs DEF CallImport
  <2> QED BY <1>1, <1>8, <2>1 DEF SurfaceInv, TypeOK, ActiveIsCaptured,
          ObjectsAreKept, ResumeLeadsBack
<1>9. FirstTree \in Trees
  BY SurfaceBoundsAssumption DEF FirstTree, Trees
<1>10. CASE Import
  <2>1. workspace' \in Workspaces
    BY <1>9, <1>10 DEF Import
  <2> QED BY <1>8, <1>10, <2>1 DEF Import
<1>11. ASSUME NEW gone \in BOOLEAN, ImportStops(gone) PROVE SurfaceInv'
  <2>1. workspace' \in Workspaces
    BY <1>1, <1>9, <1>11 DEF ImportStops
  <2>2. \/ lost' = captured
        \/ lost' = lost /\ workspace'.objects = workspace.objects
    BY <1>11 DEF ImportStops
  <2> QED BY <1>8, <1>11, <2>1, <2>2 DEF ImportStops
<1>12. ASSUME NEW family \in Families, Capture(family) PROVE SurfaceInv'
  <2> DEFINE c == [family |-> family, tree |-> workspace.tree]
  <2>1. c \in Candidates /\ c.tree = workspace.tree
    BY <1>1 DEF Candidates
  <2>2. /\ captured' = captured \cup {c} /\ lost' = lost \ {c}
        /\ job' = job \/ job' = [job EXCEPT !.active = {c}]
        /\ workspace' = [workspace EXCEPT !.dirty = FALSE,
                                          !.objects = @ \cup {workspace.tree}]
        /\ UNCHANGED <<results, duties>>
    BY <1>12 DEF Capture
  <2> HIDE DEF c
  <2>3. upsets' \in 0..MaxUpsets
    BY <1>1, <1>12, UpsetIs DEF Capture
  <2>4. /\ job' \in Jobs /\ job'.active \subseteq captured'
        /\ job'.resume = job.resume
    BY <1>1, <2>1, <2>2 DEF SurfaceInv, ActiveIsCaptured
  <2>5. /\ workspace' \in Workspaces
        /\ workspace'.objects = workspace.objects \cup {workspace.tree}
    BY <1>1, <2>2
  <2>6. ObjectsAreKept'
    BY <2>1, <2>2, <2>5 DEF SurfaceInv, ObjectsAreKept
  <2>7. captured' \subseteq Candidates /\ lost' \subseteq Candidates
    BY <1>1, <2>1, <2>2
  <2>8. TypeOK'
    BY <1>1, <2>2, <2>3, <2>4, <2>5, <2>7 DEF TypeOK
  <2> QED BY <2>4, <2>6, <2>8 DEF SurfaceInv, ActiveIsCaptured, ResumeLeadsBack
<1>13. ASSUME NEW id \in CheckIds, NEW status \in EvidenceStatuses, Run(id, status),
              upsets' \in 0..MaxUpsets
       PROVE  SurfaceInv'
  <2>1. results' = [results EXCEPT ![id] = evidence_to_gate_status(status)]
        /\ duties' = derive_obligation_verdicts(id, status)
        /\ UNCHANGED <<job, captured, workspace, lost>>
    BY <1>13 DEF Run
  <2>2. results' \in [CheckIds -> GateStatuses]
    BY <1>1, <1>13, <2>1, GateStatusIs
  <2>3. duties' \in [DutyIds -> Duties]
    BY <1>1, <1>13, <2>1, DutiesStay
  <2> QED BY <1>1, <1>13, <2>1, <2>2, <2>3 DEF SurfaceInv, TypeOK,
          ActiveIsCaptured, ObjectsAreKept, ResumeLeadsBack
<1>14. ASSUME NEW id \in CheckIds, SoundRun(id) PROVE SurfaceInv'
  <2>1. RunsCheck(id)
    BY <1>14, RunOk DEF SoundRun, Run
  <2>2. Finding(id) \in EvidenceStatuses
    BY <2>1, FindingIs DEF RunsCheck
  <2> QED BY <1>1, <1>13, <1>14, <2>2 DEF SoundRun
<1>15. ASSUME NEW id \in CheckIds, FaultyRun(id) PROVE SurfaceInv'
  BY <1>1, <1>13, <1>15, UpsetIs, FindingsAssumption DEF FaultyRun
<1> QED BY <1>2, <1>3, <1>4, <1>5, <1>6, <1>7, <1>10, <1>11, <1>12, <1>14, <1>15
    DEF Next

(* Whatever the agent calls and in whatever order, the job, its            *)
(* candidates, their gate results and the verdicts on their obligations    *)
(* keep their types: a walk or a resume leaves the job in a state there    *)
(* is, and a patch never runs ahead of the patches there are.              *)
THEOREM TypeCorrect == Spec => []TypeOK
<1>1. SurfaceInv => TypeOK
  BY DEF SurfaceInv
<1> QED BY <1>1, SurfaceInit, SurfaceNext, PTL DEF Spec

-----------------------------------------------------------------------------
(* What the agent is offered.                                              *)

(* The record of the next actions keeps its fields as they are attached. *)
IsActions(actions) == DOMAIN actions = {"allowed", "requires_human", "blockers"}

LEMMA ProjectedIs ==
  ASSUME job.state \in JobStates
  PROVE  /\ IsActions(project_next_actions(job.state))
         /\ project_next_actions(job.state).allowed \subseteq {Action("CaptureCandidate")}
         /\ \A b \in project_next_actions(job.state).blockers :
              b.kind \in {"GatePending", "StateMachineBlocked"}
<1> DEFINE actions == project_next_actions(job.state)
<1>1. ASSUME NEW allowed \in {{}, {Action("CaptureCandidate")}}, NEW human,
             NEW blockers \in {{}, {Blocker("GatePending", {})},
                               {Blocker("StateMachineBlocked", {})}},
             actions = NextActions(allowed, human, blockers)
      PROVE  /\ IsActions(actions)
             /\ actions.allowed \subseteq {Action("CaptureCandidate")}
             /\ \A b \in actions.blockers :
                  b.kind \in {"GatePending", "StateMachineBlocked"}
  <2>1. /\ IsActions(actions)
        /\ actions.allowed = allowed /\ actions.blockers = blockers
    BY <1>1 DEF NextActions, IsActions
  <2> HIDE DEF actions
  <2> QED BY <1>1, <2>1 DEF Blocker
<1>2. CASE job.state \in {"EventDetected", "Intake", "SourceReview",
                          "CandidateAssembly"}
  <2>1. actions = NextActions({Action("CaptureCandidate")}, {}, {})
    BY <1>2 DEF project_next_actions, TerminalStates
  <2> HIDE DEF actions
  <2> QED BY <1>1, <2>1 DEF actions
<1>3. CASE job.state \in {"SourceRevision", "SourceIntegrity", "BuildValidation",
                          "PackageQaValidation", "FunctionalValidation",
                          "UpgradeValidation"}
  <2>1. actions = NextActions({}, {}, {Blocker("GatePending", {})})
    BY <1>3 DEF project_next_actions, TerminalStates
  <2> HIDE DEF actions
  <2> QED BY <1>1, <2>1 DEF actions
<1>4. CASE job.state \in {"ReleaseReview", "FinalValidation"}
  <2>1. actions = NextActions({}, {HumanAction("SatisfyObligation", {})}, {})
    BY <1>4 DEF project_next_actions, TerminalStates
  <2> HIDE DEF actions
  <2> QED BY <1>1, <2>1 DEF actions
<1>5. CASE job.state = "ReadyForApproval"
  <2>1. actions = NextActions({}, {HumanAction("ApproveRelease", {})}, {})
    BY <1>5 DEF project_next_actions, TerminalStates
  <2> HIDE DEF actions
  <2> QED BY <1>1, <2>1 DEF actions
<1>6. CASE job.state \in {"Approved", "PublicationPending"}
  <2>1. actions = NextActions({}, {HumanAction("AuthorizePublication", {})}, {})
    BY <1>6 DEF project_next_actions, TerminalStates
  <2> HIDE DEF actions
  <2> QED BY <1>1, <2>1 DEF actions
<1>7. CASE job.state \in TerminalStates
  <2>1. actions = NextActions({}, {}, {})
    BY <1>7 DEF project_next_actions, TerminalStates
  <2> HIDE DEF actions
  <2> QED BY <1>1, <2>1 DEF actions
<1>8. CASE job.state = "HumanReviewRequired"
  <2>1. actions = NextActions({}, {HumanAction("ReviewEscalation", {})}, {})
    BY <1>8 DEF project_next_actions, TerminalStates
  <2> HIDE DEF actions
  <2> QED BY <1>1, <2>1 DEF actions
<1>9. CASE job.state = "InfrastructureBlocked"
  <2>1. actions = NextActions({}, {}, {Blocker("StateMachineBlocked", {})})
    BY <1>9 DEF project_next_actions, TerminalStates
  <2> HIDE DEF actions
  <2> QED BY <1>1, <2>1 DEF actions
<1> QED BY <1>2, <1>3, <1>4, <1>5, <1>6, <1>7, <1>8, <1>9
    DEF JobStates, FlowStates, ExceptionalStates

LEMMA PendingIs ==
  ASSUME NEW actions, IsActions(actions),
         \A b \in actions.blockers : b.kind \in {"GatePending", "StateMachineBlocked"}
  PROVE  /\ IsActions(attach_pending_checks(actions))
         /\ attach_pending_checks(actions).allowed = actions.allowed
              \cup (IF job.state \in RepairableStates
                    THEN {RunCheck(id) : id \in RunnableChecks} ELSE {})
         /\ \A b \in attach_pending_checks(actions).blockers :
              b.kind \in {"GatePending", "StateMachineBlocked"}
<1> DEFINE after == attach_pending_checks(actions)
           first == {Check(id).key : id \in
                      {d \in RunnableChecks :
                         \A e \in RunnableChecks : d.index <= e.index}}
           named(b) == IF b.kind = "GatePending" THEN Blocker("GatePending", first) ELSE b
           offers == actions.allowed \cup {RunCheck(id) : id \in RunnableChecks}
           pending == {named(b) : b \in actions.blockers}
<1>1. CASE job.state \notin RepairableStates
  BY <1>1 DEF attach_pending_checks
<1>2. CASE job.state \in RepairableStates
  <2>1. after = [actions EXCEPT !.allowed = offers, !.blockers = pending]
    BY <1>2 DEF attach_pending_checks
  <2>2. \A b \in pending : b.kind \in {"GatePending", "StateMachineBlocked"}
    BY DEF Blocker
  <2>3. IsActions(after) /\ after.allowed = offers /\ after.blockers = pending
    <3> HIDE DEF offers, pending
    <3> QED BY <2>1 DEF IsActions
  <2> HIDE DEF after, pending, named, first
  <2> QED BY <1>2, <2>2, <2>3 DEF after
<1> QED BY <1>1, <1>2

LEMMA ObligationIs ==
  ASSUME NEW actions, IsActions(actions)
  PROVE  LET after == attach_obligation_state(actions)
             named == {Template(id).requirement : id \in FirstOutstanding}
         IN  /\ IsActions(after) /\ after.allowed = actions.allowed
             /\ after.blockers = actions.blockers
                  \cup (IF FirstOutstanding = {} THEN {}
                        ELSE {Blocker("ObligationPending", named)})
<1> DEFINE after == attach_obligation_state(actions)
           named == {Template(id).requirement : id \in FirstOutstanding}
           blocked == actions.blockers \cup {Blocker("ObligationPending", named)}
           human == IF WantsJudgement(actions)
                    THEN {HumanAction("SatisfyObligation", named)}
                    ELSE actions.requires_human
<1>1. CASE FirstOutstanding = {}
  BY <1>1 DEF attach_obligation_state
<1>2. CASE FirstOutstanding # {}
  <2>1. after = [actions EXCEPT !.blockers = blocked, !.requires_human = human]
    BY <1>2 DEF attach_obligation_state
  <2>2. IsActions(after) /\ after.allowed = actions.allowed /\ after.blockers = blocked
    <3> HIDE DEF blocked, human
    <3> QED BY <2>1 DEF IsActions
  <2> HIDE DEF after, named
  <2> QED BY <1>2, <2>2 DEF after, named
<1> QED BY <1>1, <1>2

LEMMA ResumeIs ==
  ASSUME NEW actions, IsActions(actions)
  PROVE  /\ attach_resume_action(actions).allowed = actions.allowed
              \cup (IF Resumable THEN {Action("ResumeJob")} ELSE {})
         /\ attach_resume_action(actions).blockers = actions.blockers
<1> DEFINE offers == actions.allowed \cup {Action("ResumeJob")}
<1>1. CASE ~Resumable
  BY <1>1 DEF attach_resume_action
<1>2. CASE Resumable
  <2>1. attach_resume_action(actions) = [actions EXCEPT !.allowed = offers]
    BY <1>2 DEF attach_resume_action
  <2>2. /\ attach_resume_action(actions).allowed = offers
        /\ attach_resume_action(actions).blockers = actions.blockers
    <3> HIDE DEF offers
    <3> QED BY <2>1 DEF IsActions
  <2> QED BY <1>2, <2>2
<1> QED BY <1>1, <1>2

(* What the agent may do, and what it is told of the obligations. *)
LEMMA ListedIs ==
  ASSUME job.state \in JobStates
  PROVE  /\ ListNextActions.allowed \subseteq
              {Action("CaptureCandidate")}
              \cup (IF job.state \in RepairableStates
                    THEN {RunCheck(id) : id \in RunnableChecks} ELSE {})
              \cup (IF Resumable THEN {Action("ResumeJob")} ELSE {})
         /\ {b \in ListNextActions.blockers : b.kind = "ObligationPending"}
              = IF FirstOutstanding = {} THEN {}
                ELSE {Blocker("ObligationPending",
                        {Template(id).requirement : id \in FirstOutstanding})}
<1> DEFINE a0 == project_next_actions(job.state)
           a1 == attach_pending_checks(a0)
           a2 == attach_obligation_state(a1)
           named == {Template(id).requirement : id \in FirstOutstanding}
           pendings == {RunCheck(id) : id \in RunnableChecks}
<1>1. /\ IsActions(a0) /\ a0.allowed \subseteq {Action("CaptureCandidate")}
      /\ \A b \in a0.blockers : b.kind \in {"GatePending", "StateMachineBlocked"}
  BY ProjectedIs
<1>2. /\ IsActions(a1)
      /\ a1.allowed = a0.allowed
           \cup (IF job.state \in RepairableStates THEN pendings ELSE {})
      /\ \A b \in a1.blockers : b.kind \in {"GatePending", "StateMachineBlocked"}
  <2> HIDE DEF a0
  <2> QED BY <1>1, PendingIs
<1>3. /\ IsActions(a2) /\ a2.allowed = a1.allowed
      /\ a2.blockers = a1.blockers
           \cup (IF FirstOutstanding = {} THEN {}
                 ELSE {Blocker("ObligationPending", named)})
  <2> HIDE DEF a1
  <2> QED BY <1>2, ObligationIs
<1>4. /\ ListNextActions.allowed = a2.allowed
           \cup (IF Resumable THEN {Action("ResumeJob")} ELSE {})
      /\ ListNextActions.blockers = a2.blockers
  <2>1. ListNextActions = attach_resume_action(a2)
    BY DEF ListNextActions
  <2> HIDE DEF a2
  <2> QED BY <1>3, <2>1, ResumeIs
<1>5. Blocker("ObligationPending", named).kind = "ObligationPending"
  BY DEF Blocker
<1> HIDE DEF a0, a1, a2, named, pendings
<1>6. {b \in ListNextActions.blockers : b.kind = "ObligationPending"}
        = IF FirstOutstanding = {} THEN {} ELSE {Blocker("ObligationPending", named)}
  BY <1>2, <1>3, <1>4, <1>5
<1>7. ListNextActions.allowed \subseteq
        {Action("CaptureCandidate")}
        \cup (IF job.state \in RepairableStates THEN pendings ELSE {})
        \cup (IF Resumable THEN {Action("ResumeJob")} ELSE {})
  BY <1>1, <1>2, <1>3, <1>4
<1> QED BY <1>6, <1>7 DEF named, pendings

LEMMA CaptureKept ==
  ASSUME Known, Server.workspace, NEW action, action = Action("CaptureCandidate")
  PROVE  CallFor(action).tool \in list_tools /\ dispatch(CallFor(action)) = "ok"
<1> DEFINE args == [job_id |-> "job", package |-> "package", repository_url |-> "url"]
           call == [tool |-> "candidate.capture", args |-> args]
<1>1. action.kind = "CaptureCandidate"
  BY DEF Action
<1>2. CallFor(action) = call
  BY <1>1 DEF CallFor, tool_for_action
<1>3. DOMAIN args = CaptureInput /\ Required["candidate.capture"] = CaptureInput
  BY DEF CaptureInput, Required, McpTools
<1>4. call.tool = "candidate.capture" /\ call.args = args
  OBVIOUS
<1> HIDE DEF args, call
<1>5. Dispatched("candidate.capture", args) = "ok"
  BY <1>3 DEF Dispatched, dispatch_capture, InWorkspace, RuntimeAnswer,
     CaptureAccepts, CaptureInput
<1>6. dispatch(call) = "ok"
  BY <1>3, <1>4, <1>5 DEF dispatch, McpTools
<1> QED BY <1>2, <1>4, <1>6 DEF list_tools, McpTools

LEMMA ResumeKept ==
  ASSUME Known, Resumable, NEW action, action = Action("ResumeJob")
  PROVE  CallFor(action).tool \in list_tools /\ dispatch(CallFor(action)) = "ok"
<1> DEFINE args == [job_id |-> "job"]
           call == [tool |-> "job.resume", args |-> args]
<1>1. action.kind = "ResumeJob"
  BY DEF Action
<1>2. CallFor(action) = call
  BY <1>1 DEF CallFor, tool_for_action
<1>3. DOMAIN args = JobInput /\ Required["job.resume"] = JobInput
  BY DEF JobInput, Required, McpTools
<1>4. call.tool = "job.resume" /\ call.args = args
  OBVIOUS
<1> HIDE DEF args, call
<1>5. Dispatched("job.resume", args) = "ok"
  BY DEF Dispatched, dispatch_resume, RuntimeAnswer, Resumes
<1>6. dispatch(call) = "ok"
  BY <1>3, <1>4, <1>5 DEF dispatch, McpTools
<1> QED BY <1>2, <1>4, <1>6 DEF list_tools, McpTools

(* A check of the active candidate, whose tool is registered and whose     *)
(* tree is still in the repository of the workspace.                       *)
LEMMA RunKept ==
  ASSUME SurfaceInv, Known, job.state \in RepairableStates,
         NEW id \in RunnableChecks, HasTool(id), id.candidate \notin lost,
         NEW action, action = RunCheck(id)
  PROVE  CallFor(action).tool \in list_tools /\ dispatch(CallFor(action)) = "ok"
<1> DEFINE args == [job_id |-> "job", check_id |-> id]
           call == [tool |-> "check.run", args |-> args]
<1>1. action.kind = "RunCheck" /\ action.check = {id}
  BY DEF RunCheck
<1>2. Only({id}) = id
  BY DEF Only
<1>3. CallFor(action) = call
  BY <1>1, <1>2 DEF CallFor, tool_for_action
<1>4. DOMAIN args = RunCheckInput /\ Required["check.run"] = RunCheckInput
  BY DEF RunCheckInput, Required, McpTools
<1>5. call.tool = "check.run" /\ call.args = args /\ args.check_id = id
  OBVIOUS
<1> HIDE DEF args, call
<1>6. id.candidate \in active_fingerprint /\ id.candidate \in captured
  BY DEF RunnableChecks, StoredChecks, ActiveChecks
<1>7. post_capture_state(job.state)
  BY DEF post_capture_state, RepairableStates, DecidedStates, TerminalStates
<1>8. id.candidate.tree \in workspace.objects
  BY <1>6 DEF SurfaceInv, ObjectsAreKept
<1>9. RunsCheck(id) /\ GetCheckOutcome(id)
  BY <1>6, <1>7, <1>8 DEF RunsCheck, GetCheckOutcome
<1>10. Dispatched("check.run", args) = "ok"
  BY <1>5, <1>9 DEF Dispatched, dispatch_check_run, RuntimeAnswer
<1>11. dispatch(call) = "ok"
  BY <1>4, <1>5, <1>10 DEF dispatch, McpTools
<1> QED BY <1>3, <1>5, <1>11 DEF list_tools, McpTools

(* Nothing is offered that a tool would then refuse, whatever the agent    *)
(* has called before: not a check of a candidate that is no longer active, *)
(* nor one of a job that is decided on or waits for a person.  What is     *)
(* offered in vain is named: a check without a tool, or of a candidate     *)
(* that an import has taken the objects of.                                *)
THEOREM OffersSound == Spec => []OffersAreKept
<1>1. ASSUME SurfaceInv PROVE OffersAreKept
  <2> SUFFICES ASSUME Known, Server.workspace,
                      NEW action \in ListNextActions.allowed, ~Unkept(action)
               PROVE  /\ CallFor(action).tool \in list_tools
                      /\ require_bearer([kind |-> "bearer",
                                         token |-> Server.token]) = 200
                      /\ dispatch(CallFor(action)) = "ok"
    BY DEF OffersAreKept
  <2>1. require_bearer([kind |-> "bearer", token |-> Server.token]) = 200
    <3> DEFINE header == [kind |-> "bearer", token |-> Server.token]
    <3>1. header.kind = "bearer" /\ header.token = Server.token
      OBVIOUS
    <3> HIDE DEF header
    <3>2. require_bearer(header) = 200
      BY <3>1 DEF require_bearer, validate
    <3> QED BY <3>2 DEF header
  <2>2. job.state \in JobStates
    BY <1>1 DEF SurfaceInv, TypeOK, Known
  <2>3. \/ action = Action("CaptureCandidate")
        \/ Resumable /\ action = Action("ResumeJob")
        \/ /\ job.state \in RepairableStates
           /\ \E id \in RunnableChecks : action = RunCheck(id)
    BY <2>2, ListedIs
  <2>4. CASE action = Action("CaptureCandidate")
    BY <2>1, <2>4, CaptureKept
  <2>5. CASE Resumable /\ action = Action("ResumeJob")
    BY <2>1, <2>5, ResumeKept
  <2>6. ASSUME NEW id \in RunnableChecks, action = RunCheck(id),
               job.state \in RepairableStates
        PROVE  CallFor(action).tool \in list_tools /\ dispatch(CallFor(action)) = "ok"
    <3>1. HasTool(id) /\ id.candidate \notin lost
      BY <2>6 DEF Unkept, RunCheck
    <3> QED BY <1>1, <2>6, <3>1, RunKept
  <2> QED BY <2>1, <2>3, <2>4, <2>5, <2>6
<1> QED BY <1>1, SurfaceInit, SurfaceNext, PTL DEF Spec

-----------------------------------------------------------------------------
(* What the agent is told of the obligations.                              *)

(* A set of naturals that is not empty has a least element. *)
LEMMA Least ==
  ASSUME NEW T \in SUBSET Nat, T # {}
  PROVE  \E x \in T : \A y \in T : x <= y
<1> DEFINE R == OpToRel(<, Nat)
<1>1. IsWellFoundedOn(R, Nat)
  BY NatLessThanWellFounded
<1>2. PICK x \in T : \A y \in T : <<y, x>> \notin R
  <2> HIDE DEF R
  <2> QED BY <1>1, WFMin
<1>3. \A y \in T : ~(y < x)
  BY <1>2 DEF OpToRel
<1>4. \A y \in T : x <= y
  <2> SUFFICES ASSUME NEW y \in T PROVE x <= y
    OBVIOUS
  <2>1. x \in Nat /\ y \in Nat /\ ~(y < x)
    BY <1>3
  <2> QED BY <2>1
<1> QED BY <1>4

LEMMA DutyIs ==
  ASSUME NEW id \in DutyIds
  PROVE  id.candidate \in Candidates /\ id.index \in Nat
<1>1. PICK c \in Candidates : id \in [candidate : {c}, index : DOMAIN Templates[c.family]]
  BY DEF DutyIds
<1>2. c.family \in Families
  BY DEF Candidates
<1>3. DOMAIN Templates[c.family] \subseteq Nat
  BY <1>2, RegistryAssumption
<1> QED BY <1>1, <1>3

(* One of those outstanding is the first. *)
LEMMA SomeFirst ==
  ASSUME OutstandingDuties # {}
  PROVE  FirstOutstanding # {}
<1> DEFINE T == {id.index : id \in OutstandingDuties}
<1>1. T \in SUBSET Nat /\ T # {}
  BY DutyIs DEF OutstandingDuties, ActiveDuties
<1> HIDE DEF T
<1>2. PICK x \in T : \A y \in T : x <= y
  BY <1>1, Least
<1>3. PICK id \in OutstandingDuties : id.index = x
  BY DEF T
<1>4. \A d \in OutstandingDuties : d.index \in T
  BY DEF T
<1> QED BY <1>2, <1>3, <1>4 DEF FirstOutstanding

(* What the engine holds against a candidate, of its obligations. *)
Refusals(c) ==
  {b \in check_obligations([policy |-> TRUE], ActiveName, ContextOf(c)) :
     b[1] \in {"FailedObligation", "ReviewRequired"}}

Stored(id) ==
  [id |-> id.index, candidate |-> ActiveName, strength |-> Template(id).strength,
   applicability |-> Template(id).applicability, status |-> duties[id]]

Outstanding(id) ==
  /\ Template(id).strength = "Mandatory"
  /\ Template(id).applicability = "Applicable"
  /\ duties[id] \in {"Fail", "RequiresReview"}

LEMMA RefusalsAre ==
  ASSUME SurfaceInv, NEW c \in Candidates
  PROVE  /\ \A b \in Refusals(c) :
              \E id \in DutiesOf[c] : Outstanding(id) /\ b[2] = id.index
         /\ \A id \in DutiesOf[c] :
              Outstanding(id) => \E b \in Refusals(c) : b[2] = id.index
<1> DEFINE ctx == ContextOf(c)
           binding == {o \in ctx.obligations : /\ o.candidate = ActiveName
                                               /\ o.strength = "Mandatory"
                                               /\ o.applicability = "Applicable"}
           blocker == [NotEvaluated |-> "MissingObligation",
                       Fail |-> "FailedObligation",
                       RequiresReview |-> "ReviewRequired",
                       ExceptionApproved |-> "UnbackedException"]
           unmet == {b \in binding : /\ b.status # "Pass"
                                     /\ \/ b.status # "ExceptionApproved"
                                        \/ ~ExceptionBacked(ActiveName, ctx)}
           found == {<<blocker[o.status], o.id>> : o \in unmet}
<1>1. check_obligations([policy |-> TRUE], ActiveName, ctx) = found
  <2>1. [policy |-> TRUE].policy /\ ActiveName # NoCandidate
    BY DEF ActiveName, NoCandidate
  <2> QED BY <2>1 DEF check_obligations
<1>2. ctx.obligations = {Stored(id) : id \in DutiesOf[c]}
  BY DEF ContextOf, Stored
<1>3. \A id \in DutiesOf[c] :
        /\ Stored(id).id = id.index /\ Stored(id).candidate = ActiveName
        /\ Stored(id).strength = Template(id).strength
        /\ Stored(id).applicability = Template(id).applicability
        /\ Stored(id).status = duties[id]
  BY DEF Stored
<1>4. \A id \in DutiesOf[c] : duties[id] \in Duties
  BY DEF SurfaceInv, TypeOK, DutiesOf, Duties
<1>5. /\ blocker["NotEvaluated"] = "MissingObligation"
      /\ blocker["Fail"] = "FailedObligation"
      /\ blocker["RequiresReview"] = "ReviewRequired"
  OBVIOUS
<1>6. Refusals(c) = {b \in found : b[1] \in {"FailedObligation", "ReviewRequired"}}
  BY <1>1 DEF Refusals
<1> HIDE DEF ctx, blocker
<1>7. ASSUME NEW b \in Refusals(c)
      PROVE  \E id \in DutiesOf[c] : Outstanding(id) /\ b[2] = id.index
  <2>1. PICK o \in unmet : b = <<blocker[o.status], o.id>>
    BY <1>6
  <2>2. PICK id \in DutiesOf[c] : o = Stored(id)
    BY <1>2, <2>1
  <2>3. blocker[duties[id]] \in {"FailedObligation", "ReviewRequired"}
    BY <1>3, <1>6, <2>1, <2>2
  <2>4. duties[id] \in {"NotEvaluated", "Fail", "RequiresReview"}
    BY <1>3, <1>4, <2>1, <2>2 DEF Duties, ObligationOutcome
  <2>5. duties[id] \in {"Fail", "RequiresReview"}
    BY <1>5, <2>3, <2>4
  <2> QED BY <1>3, <2>1, <2>2, <2>5 DEF Outstanding
<1>8. ASSUME NEW id \in DutiesOf[c], Outstanding(id)
      PROVE  \E b \in Refusals(c) : b[2] = id.index
  <2>1. Stored(id) \in binding
    BY <1>2, <1>3, <1>8 DEF Outstanding
  <2>2. Stored(id) \in unmet
    BY <1>3, <1>8, <2>1 DEF Outstanding
  <2> DEFINE b == <<blocker[Stored(id).status], Stored(id).id>>
  <2>3. b \in found
    BY <2>2
  <2>4. b[1] \in {"FailedObligation", "ReviewRequired"} /\ b[2] = id.index
    BY <1>3, <1>5, <1>8 DEF Outstanding
  <2> QED BY <1>6, <2>3, <2>4
<1> QED BY <1>7, <1>8

(* The query that tells an agent of an obligation and the engine that      *)
(* refuses a release for one read the same rows in the same way: the agent *)
(* is told exactly when the engine would refuse, and of one of those the   *)
(* engine would refuse for, in every state of the job.                     *)
THEOREM ObligationsSound == Spec => []ObligationsAreNamed
<1>1. ASSUME SurfaceInv PROVE ObligationsAreNamed
  <2> DEFINE named == {Template(id).requirement : id \in FirstOutstanding}
             told == {b \in ListNextActions.blockers : b.kind = "ObligationPending"}
             refused == {Template(id).requirement :
                           id \in {d \in ActiveDuties :
                                     \E b \in PolicyRefusals : b[2] = d.index}}
  <2> SUFFICES ASSUME Known
               PROVE  /\ told # {} <=> PolicyRefusals # {}
                      /\ \A b \in told : b.of # {} /\ b.of \subseteq refused
    BY DEF ObligationsAreNamed
  <2>1. told = IF FirstOutstanding = {} THEN {}
               ELSE {Blocker("ObligationPending", named)}
    <3>1. job.state \in JobStates
      BY <1>1 DEF SurfaceInv, TypeOK, Known
    <3> QED BY <3>1, ListedIs
  <2>2. PolicyRefusals = UNION {Refusals(c) : c \in active_fingerprint}
    BY DEF PolicyRefusals, Refusals
  <2>3. active_fingerprint \subseteq Candidates
    BY <1>1 DEF SurfaceInv, TypeOK, active_fingerprint
  <2>4. OutstandingDuties = {id \in ActiveDuties : Outstanding(id)}
    BY DEF OutstandingDuties, Outstanding
  <2>5. \A c \in active_fingerprint : DutiesOf[c] \subseteq ActiveDuties
    BY <2>3 DEF DutiesOf, ActiveDuties
  <2>6. ASSUME NEW b \in PolicyRefusals PROVE OutstandingDuties # {}
    <3>1. PICK c \in active_fingerprint : b \in Refusals(c)
      BY <2>2
    <3>2. PICK id \in DutiesOf[c] : Outstanding(id)
      BY <1>1, <2>3, <3>1, RefusalsAre
    <3> QED BY <2>4, <2>5, <3>2
  <2>7. ASSUME NEW id \in OutstandingDuties
        PROVE  \E b \in PolicyRefusals : b[2] = id.index
    <3>1. id.candidate \in active_fingerprint /\ id \in DutiesOf[id.candidate]
      BY <2>3, <2>4 DEF ActiveDuties, DutiesOf
    <3>2. PICK b \in Refusals(id.candidate) : b[2] = id.index
      BY <1>1, <2>3, <2>4, <3>1, RefusalsAre
    <3> QED BY <2>2, <3>1, <3>2
  <2>8. FirstOutstanding \subseteq OutstandingDuties
    BY DEF FirstOutstanding
  <2>9. FirstOutstanding # {} <=> PolicyRefusals # {}
    BY <2>6, <2>7, <2>8, SomeFirst
  <2>10. named \subseteq refused
    BY <2>4, <2>7, <2>8
  <2>11. FirstOutstanding # {} => named # {}
    OBVIOUS
  <2>12. Blocker("ObligationPending", named).of = named
    BY DEF Blocker
  <2> HIDE DEF named, told, refused
  <2> QED BY <2>1, <2>9, <2>10, <2>11, <2>12
<1> QED BY <1>1, SurfaceInit, SurfaceNext, PTL DEF Spec
=============================================================================
