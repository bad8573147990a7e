--------------------------- MODULE ToolSurface -----------------------------
(***************************************************************************)
(* What an agent sees of the system and what it can make of it: the MCP    *)
(* tools (ironmaint-mcp), the commands and queries they become, and the    *)
(* next actions the runtime offers for a job, over the adapters that are   *)
(* registered and the workspace of the job.                                *)
(*                                                                         *)
(* One action is one tool call, or one move of a job.reconcile: the        *)
(* interleavings inside a call are those of JobService, GateEvidence,      *)
(* Workspace and Release.  What is new here is the order of the calls,     *)
(* which is the agent's to choose.                                         *)
(***************************************************************************)
EXTENDS TransitionEngine, EvidenceGates, Adapters

CONSTANTS
  Registry,        \* the adapters the daemon has registered, by family
  RegisteredTools, \* the keys it has registered a tool for
  Families,        \* families of the packages candidate.capture is given
  Findings,        \* what a tool says of a tree, when nothing goes wrong
  Faults,          \* what a run comes to when something does go wrong
  MaxTree,         \* bound: the patches are those from tree t to tree t + 1
  Server,          \* how it is deployed: workspace, artifacts, allowlist, token
  Home,            \* the family of the job's own package
  MaxUpsets        \* bound: runs that go wrong, captures as another family,
                   \* imports and entries into human review, all together

Trees == 0..MaxTree
FirstTree == 0    \* what a new workspace holds, seeded or cloned

Planned ==
  [f \in Families |->
     IF f \in DOMAIN Registry THEN plan_checks(Registry[f]) ELSE << >>]
Templates ==
  [f \in Families |->
     IF f \in DOMAIN Registry THEN plan_obligations(Registry[f]) ELSE << >>]

ASSUME RegistryAssumption ==
  \A f \in Families :
    /\ Planned[f] \in Seq([key : Seq(STRING), kind : EvidenceKinds,
                           mandatory : BOOLEAN])
    /\ Templates[f] \in Seq([requirement : STRING, strength : STRING,
                             applicability : STRING])
ASSUME FindingsAssumption ==
  /\ Findings \in [Trees -> [RegisteredTools -> EvidenceStatuses]]
  /\ Faults \subseteq EvidenceStatuses
ASSUME ServerAssumption ==
  /\ Server.workspace \in BOOLEAN
  /\ Server.artifacts \in BOOLEAN
  /\ Server.token # ""      \* AuthToken::from_file refuses an empty one
ASSUME SurfaceBoundsAssumption ==
  MaxTree \in Nat /\ MaxUpsets \in Nat /\ Home \in Families

VARIABLES
  job,        \* the projection, its resume record, "Absent" before job.create
  captured,   \* source_candidates, each with its checks and obligations
  results,    \* the gate result of each check: "NotEvaluated" for no row
  duties,     \* the status of each obligation
  workspace,  \* tree, whether it differs from HEAD, trees git has objects of
  lost,       \* history: candidates captured before the last source.import
  upsets      \* how many there have been

vars == <<job, captured, results, duties, workspace, lost, upsets>>

-----------------------------------------------------------------------------
(* What a capture materialises for a candidate. *)

Candidates == [family : Families, tree : Trees]

(* The planned checks whose kind has a gate, in the order of the plan. *)
CheckIds ==
  UNION {[candidate : {c},
          index : {i \in DOMAIN Planned[c.family] :
                     Planned[c.family][i].kind \in DOMAIN gate_stage_for}] :
         c \in Candidates}
Check(id) == Planned[id.candidate.family][id.index]

DutyIds ==
  UNION {[candidate : {c}, index : DOMAIN Templates[c.family]] : c \in Candidates}
Template(id) == Templates[id.candidate.family][id.index]

Known == job.state # "Absent"
ChecksOf == [c \in Candidates |-> {id \in CheckIds : id.candidate = c}]
DutiesOf == [c \in Candidates |-> {id \in DutyIds : id.candidate = c}]

(* The checks and obligations in the store that are the active candidate's. *)
active_fingerprint == job.active
ActiveChecks == {id \in CheckIds : id.candidate \in active_fingerprint}
ActiveDuties == {id \in DutyIds : id.candidate \in active_fingerprint}
StoredChecks == {id \in CheckIds : id.candidate \in captured}

HasTool(id) == Check(id).key \in RegisteredTools

(* What reconcile reads for the engine, of the candidate c.  Only its rows *)
(* are there, so that one name stands for it where the engine compares.    *)
ActiveName == "active"

ContextOf(c) ==
  [defs |-> {[id |-> id.index, candidate |-> ActiveName,
              stage |-> gate_stage_for[Check(id).kind],
              mandatory |-> Check(id).mandatory, minimum |-> "Pass"] :
               id \in ChecksOf[c]},
   results |-> [i \in {id.index : id \in {d \in ChecksOf[c] :
                                            results[d] # "NotEvaluated"}} |->
                  [candidate |-> ActiveName,
                   status |-> results[[candidate |-> c, index |-> i]]]],
   obligations |-> {[id |-> id.index, candidate |-> ActiveName,
                     strength |-> Template(id).strength,
                     applicability |-> Template(id).applicability,
                     status |-> duties[id]] : id \in DutiesOf[c]},
   requirements |-> {}, approvals |-> << >>]

-----------------------------------------------------------------------------
(* The next actions: what an agent may do, what a person has to, and what  *)
(* stands in the way.                                                      *)

Action(kind) == [kind |-> kind, check |-> {}]
RunCheck(id) == [kind |-> "RunCheck", check |-> {id}]
HumanAction(kind, reference) == [kind |-> kind, reference |-> reference]
Blocker(kind, of) == [kind |-> kind, of |-> of]

NextActions(allowed, human, blockers) ==
  [allowed |-> allowed, requires_human |-> human, blockers |-> blockers]

project_next_actions(state) ==
  CASE state \in {"EventDetected", "Intake", "SourceReview", "CandidateAssembly"} ->
         NextActions({Action("CaptureCandidate")}, {}, {})
    [] state \in {"SourceRevision", "SourceIntegrity", "BuildValidation",
                  "PackageQaValidation", "FunctionalValidation",
                  "UpgradeValidation"} ->
         NextActions({}, {}, {Blocker("GatePending", {})})
    [] state \in {"ReleaseReview", "FinalValidation"} ->
         NextActions({}, {HumanAction("SatisfyObligation", {})}, {})
    [] state = "ReadyForApproval" ->
         NextActions({}, {HumanAction("ApproveRelease", {})}, {})
    [] state \in {"Approved", "PublicationPending"} ->
         NextActions({}, {HumanAction("AuthorizePublication", {})}, {})
    [] state \in TerminalStates -> NextActions({}, {}, {})
    [] state = "HumanReviewRequired" ->
         NextActions({}, {HumanAction("ReviewEscalation", {})}, {})
    [] state = "InfrastructureBlocked" ->
         NextActions({}, {}, {Blocker("StateMachineBlocked", {})})

(* mutant: offers the checks of the candidates that are no longer active. *)
RunnableChecks_AnyCandidate ==
  IF active_fingerprint = {} THEN {} ELSE StoredChecks

(* What check.run takes: the materialised checks of the active candidate. *)
RunnableChecks == StoredChecks \cap ActiveChecks

(* attach_pending_checks: every pending gate is given the key of the first *)
(* check, whichever gate it is.                                            *)
attach_pending_checks(actions) ==
  LET first == {Check(id).key : id \in
                  {d \in RunnableChecks :
                     \A e \in RunnableChecks : d.index <= e.index}}
      named(b) == IF b.kind = "GatePending" THEN Blocker("GatePending", first) ELSE b
  IN  IF job.state \notin RepairableStates THEN actions
      ELSE [actions EXCEPT
              !.allowed = @ \cup {RunCheck(id) : id \in RunnableChecks},
              !.blockers = {named(b) : b \in @}]

(* The obligation a person or an agent is to work on: the first of those   *)
(* that bind and were found not to be met, as a set.                       *)
OutstandingDuties ==
  {id \in ActiveDuties : /\ Template(id).strength = "Mandatory"
                         /\ Template(id).applicability = "Applicable"
                         /\ duties[id] \in {"Fail", "RequiresReview"}}
FirstOutstanding ==
  {id \in OutstandingDuties : \A d \in OutstandingDuties : id.index <= d.index}

WantsJudgement(actions) ==
  \E h \in actions.requires_human : h.kind = "SatisfyObligation"

(* mutant: nothing is said of them until a person's judgement is asked for. *)
attach_obligation_state_Late(actions) ==
  IF FirstOutstanding = {} \/ ~WantsJudgement(actions) THEN actions
  ELSE LET named == {Template(id).requirement : id \in FirstOutstanding}
       IN  [actions EXCEPT !.blockers = @ \cup {Blocker("ObligationPending", named)},
              !.requires_human = {HumanAction("SatisfyObligation", named)}]

attach_obligation_state(actions) ==
  LET named == {Template(id).requirement : id \in FirstOutstanding}
  IN  IF FirstOutstanding = {} THEN actions
      ELSE [actions EXCEPT
              !.blockers = @ \cup {Blocker("ObligationPending", named)},
              !.requires_human = IF WantsJudgement(actions)
                                 THEN {HumanAction("SatisfyObligation", named)}
                                 ELSE @]

(* The resume record the job has for the state it is in. *)
Resumable ==
  job.state \in ExceptionalStates /\ job.resume.from = job.state

attach_resume_action(actions) ==
  IF ~Resumable THEN actions
  ELSE [actions EXCEPT !.allowed = @ \cup {Action("ResumeJob")}]

ListNextActions ==
  attach_resume_action(attach_obligation_state(attach_pending_checks(
    project_next_actions(job.state))))

-----------------------------------------------------------------------------
(* The tools.  A call is [tool, args]: args has the fields the agent sent. *)

(* What the input of a tool has to have to be decoded. *)
CreateJobInput == {"orchestrator", "package"}
JobInput == {"job_id"}
CaptureInput == {"job_id", "package", "repository_url"}
RunCheckInput == {"job_id", "check_id"}
ApplyPatchInput == {"job_id", "patch", "expected_revision"}
OperationInput == {"operation_id"}
GetEvidenceInput == {"evidence_id"}
ReadArtifactInput == {"evidence_id", "artifact_id"}
SourceImportInput == {"job_id", "url"}

McpTools ==
  {"job.create", "job.get", "job.next_actions", "job.reconcile", "job.resume",
   "candidate.capture", "check.run", "workspace.apply_patch", "workspace.stat",
   "operation.get", "release.candidate.create", "evidence.list", "evidence.get",
   "evidence.artifact.read", "source.import"}

list_tools == McpTools

Required ==
  [t \in McpTools |->
     CASE t = "job.create" -> CreateJobInput
       [] t \in {"job.get", "job.next_actions", "job.reconcile", "job.resume",
                 "workspace.stat", "release.candidate.create",
                 "evidence.list"} -> JobInput
       [] t = "candidate.capture" -> CaptureInput
       [] t = "check.run" -> RunCheckInput
       [] t = "workspace.apply_patch" -> ApplyPatchInput
       [] t = "operation.get" -> OperationInput
       [] t = "evidence.get" -> GetEvidenceInput
       [] t = "evidence.artifact.read" -> ReadArtifactInput
       [] t = "source.import" -> SourceImportInput]

tool_for_action(action) ==
  [CaptureCandidate |-> "candidate.capture", RunCheck |-> "check.run",
   ApplyPatch |-> "workspace.apply_patch", ResumeJob |-> "job.resume"][action.kind]

(* An answer is "ok" or the kind of an error. *)
McpErrorKinds ==
  {"auth", "invalid_request", "invalid_input", "conflict", "runtime",
   "internal", "other"}

(* Whatever the runtime refuses is the one kind to a caller. *)
RuntimeAnswer(accepted) == IF accepted THEN "ok" ELSE "runtime"

(* post_capture_state: not while a person or the infrastructure is waited  *)
(* for, and not once the job is over.                                      *)
post_capture_state(state) == state \notin TerminalStates \cup ExceptionalStates

(* handle_run_check, up to the run of the tool. *)
RunsCheck(id) ==
  /\ Known /\ id.candidate \in active_fingerprint
  /\ id.candidate \in captured
  /\ post_capture_state(job.state)
  /\ HasTool(id)
  /\ Server.workspace => id.candidate.tree \in workspace.objects

Resumes == Known /\ Resumable

(* The queries, which are refused when a row they start from is not there. *)
GetJob == Known
GetCheckOutcome(id) == id.candidate \in captured
GetOperation(id) == FALSE     \* no call of the surface makes an operation
GetReleaseCandidate == Known /\ active_fingerprint # {}

(* Evidence is named after the check it came from.  An artifact id is      *)
(* "listed" when the row lists it, as it does the report of its run when a *)
(* normalizer took it.                                                     *)
GetEvidence(id) == id.candidate \in captured /\ results[id] # "NotEvaluated"
ReadEvidenceArtifact(id, artifact) ==
  GetEvidence(id) /\ artifact = "listed" /\ Server.artifacts

(* The commands.  Any job with an active candidate gets a snapshot of it,  *)
(* see Release; the workspace's rows have the job as a foreign key.        *)
CreateReleaseCandidate == Known /\ active_fingerprint # {}
CaptureAccepts(args) ==
  Known /\ ("expected_version" \in DOMAIN args => args.expected_version = workspace.tree)
PatchAccepts == ~workspace.dirty /\ workspace.tree < MaxTree

(* Without a workspace manager its tools answer with an internal error. *)
InWorkspace(answer) == IF Server.workspace THEN answer ELSE "internal"

-----------------------------------------------------------------------------
(* The handlers of the tools, behind the decoding of the input. *)

dispatch_job_create(args) == "ok"
dispatch_job_get(args) == RuntimeAnswer(GetJob)
dispatch_next_actions(args) == RuntimeAnswer(Known)
dispatch_reconcile(args) == RuntimeAnswer(Known)
dispatch_resume(args) == RuntimeAnswer(Resumes)
dispatch_capture(args) == InWorkspace(RuntimeAnswer(CaptureAccepts(args)))
dispatch_check_run(args) ==
  RuntimeAnswer(RunsCheck(args.check_id) /\ GetCheckOutcome(args.check_id))
dispatch_apply_patch(args) ==
  InWorkspace(IF ~Known THEN "runtime"
              ELSE IF args.expected_revision # "current" THEN "conflict"
              ELSE RuntimeAnswer(PatchAccepts))
dispatch_workspace_stat(args) == InWorkspace(RuntimeAnswer(Known))
dispatch_operation_get(args) == RuntimeAnswer(GetOperation(args.operation_id))
dispatch_release_candidate_create(args) ==
  RuntimeAnswer(CreateReleaseCandidate /\ GetReleaseCandidate)
dispatch_evidence_list(args) == "ok"
dispatch_evidence_get(args) == RuntimeAnswer(GetEvidence(args.evidence_id))
dispatch_evidence_artifact_read(args) ==
  RuntimeAnswer(ReadEvidenceArtifact(args.evidence_id, args.artifact_id))
dispatch_source_import(args) ==
  IF args.url \notin Server.allowlist THEN "invalid_input"
  ELSE InWorkspace(RuntimeAnswer(Known))

Dispatched(tool, args) ==
  CASE tool = "job.create" -> dispatch_job_create(args)
    [] tool = "job.get" -> dispatch_job_get(args)
    [] tool = "job.next_actions" -> dispatch_next_actions(args)
    [] tool = "job.reconcile" -> dispatch_reconcile(args)
    [] tool = "job.resume" -> dispatch_resume(args)
    [] tool = "candidate.capture" -> dispatch_capture(args)
    [] tool = "check.run" -> dispatch_check_run(args)
    [] tool = "workspace.apply_patch" -> dispatch_apply_patch(args)
    [] tool = "workspace.stat" -> dispatch_workspace_stat(args)
    [] tool = "operation.get" -> dispatch_operation_get(args)
    [] tool = "release.candidate.create" -> dispatch_release_candidate_create(args)
    [] tool = "evidence.list" -> dispatch_evidence_list(args)
    [] tool = "evidence.get" -> dispatch_evidence_get(args)
    [] tool = "evidence.artifact.read" -> dispatch_evidence_artifact_read(args)
    [] tool = "source.import" -> dispatch_source_import(args)

dispatch(call) ==
  IF call.tool \notin McpTools THEN "other"
  ELSE IF ~(Required[call.tool] \subseteq DOMAIN call.args) THEN "invalid_input"
  ELSE Dispatched(call.tool, call.args)

(* The token is the one file's, whole.                                     *)
validate(presented) == presented = Server.token

(* require_bearer, in front of all of it: the status of the response.  A   *)
(* header is what the request has for Authorization, if anything.          *)
require_bearer(header) ==
  CASE header.kind = "absent" -> 401
    [] header.kind = "not_ascii" -> 400
    [] header.kind = "other_scheme" -> 400
    [] header.kind = "bearer" -> IF validate(header.token) THEN 200 ELSE 401

-----------------------------------------------------------------------------
(* The calls that change something. *)

NoJob == [state |-> "Absent", active |-> {}, resume |-> NoResume]

Init ==
  /\ job = NoJob
  /\ captured = {}
  /\ results = [id \in CheckIds |-> "NotEvaluated"]
  /\ duties = [id \in DutyIds |-> "NotEvaluated"]
  /\ workspace = [tree |-> FirstTree, dirty |-> FALSE, objects |-> {FirstTree}]
  /\ lost = {}
  /\ upsets = 0

Upset == upsets < MaxUpsets /\ upsets' = upsets + 1

Ok(tool, args) == dispatch([tool |-> tool, args |-> args]) = "ok"

(* job.create; a second one would be another job. *)
CreateJob ==
  /\ ~Known
  /\ Ok("job.create", [orchestrator |-> "agent", package |-> "package"])
  /\ job' = [NoJob EXCEPT !.state = "EventDetected"]
  /\ UNCHANGED <<captured, results, duties, workspace, lost, upsets>>

(* source.import: the repository is cloned in place of all there was.      *)
CallImport ==
  /\ Ok("source.import",
        [job_id |-> "job", url |-> CHOOSE u \in Server.allowlist : TRUE])
  /\ Upset
  /\ UNCHANGED <<job, captured, results, duties>>

Import ==
  /\ CallImport
  /\ workspace' = [tree |-> FirstTree, dirty |-> FALSE, objects |-> {FirstTree}]
  /\ lost' = captured

(* Every entry is removed first, as if it were a directory; a file stops   *)
(* the call where it stands, .git gone already or not, with something left *)
(* that is no better than the first tree.                                  *)
ImportStops(gone) ==
  /\ CallImport
  /\ workspace' = [tree |-> FirstTree, dirty |-> TRUE,
                   objects |-> IF gone THEN {} ELSE workspace.objects]
  /\ lost' = IF gone THEN captured ELSE lost

(* workspace.apply_patch, of the patch the agent has for this tree. *)
Patch ==
  /\ Ok("workspace.apply_patch",
        [job_id |-> "job", patch |-> "patch", expected_revision |-> "current"])
  /\ workspace' = [workspace EXCEPT !.tree = @ + 1, !.dirty = TRUE]
  /\ UNCHANGED <<job, captured, results, duties, lost, upsets>>

(* mutant: the guard of before, when a capture moved a job only early on. *)
Activates_EarlyOnly ==
  job.state \in {"EventDetected", "Intake", "SourceReview", "CandidateAssembly"}

(* handle_set_active_candidate: not once the release is decided on, nor    *)
(* while a person or the infrastructure is waited for.                     *)
Activates == job.state \notin DecidedStates \cup ExceptionalStates

(* candidate.capture: the package it is told need not be the job's.  What  *)
(* the adapter plans is materialised once; the tree is committed.          *)
Capture(family) ==
  LET c == [family |-> family, tree |-> workspace.tree]
  IN  /\ Ok("candidate.capture", [job_id |-> "job", package |-> family,
                                  repository_url |-> "url"])
      /\ captured' = captured \cup {c}
      /\ job' = IF Activates THEN [job EXCEPT !.active = {c}] ELSE job
      /\ workspace' = [workspace EXCEPT !.dirty = FALSE,
                                        !.objects = @ \cup {workspace.tree}]
      /\ lost' = lost \ {c}
      /\ IF family = Home THEN UNCHANGED upsets ELSE Upset
      /\ UNCHANGED <<results, duties>>

(* derive_obligation_verdicts: after a policy check the adapter rules on   *)
(* each obligation of the candidate; one it will not rule on stays.        *)
derive_obligation_verdicts(id, status) ==
  LET ruling(d) == evaluate_obligation(Only(Registry[d.candidate.family].policy),
                                       Template(d).requirement, status)
  IN  IF Check(id).kind # "PolicyEvaluation" THEN duties
      ELSE [d \in DutyIds |->
              IF d.candidate = id.candidate /\ ruling(d).ok
              THEN ruling(d).verdict ELSE duties[d]]

Finding(id) == Findings[id.candidate.tree][Check(id).key]

(* check.run: the evidence of the run, its gate and the obligations. *)
Run(id, status) ==
  /\ Ok("check.run", [job_id |-> "job", check_id |-> id])
  /\ results' = [results EXCEPT ![id] = evidence_to_gate_status(status)]
  /\ duties' = derive_obligation_verdicts(id, status)
  /\ UNCHANGED <<job, captured, workspace, lost>>

SoundRun(id) == Run(id, Finding(id)) /\ UNCHANGED upsets

(* A timeout is a Fail, a tool that cannot be run an InfrastructureError.  *)
FaultyRun(id) ==
  /\ Upset
  /\ \E status \in Faults : Run(id, status)

(* job.reconcile, one move of its walk: nothing without an active          *)
(* candidate, nor at the end or in an exceptional state; otherwise to the  *)
(* next state, when the rule has no blocker.                               *)
Reconcile ==
  /\ Ok("job.reconcile", [job_id |-> "job"])
  /\ job.state \notin TerminalStates \cup ExceptionalStates
  /\ \E c \in active_fingerprint, r \in RulesFrom(job.state) :
       /\ RequirementBlockers(r, ActiveName, ContextOf(c)) = {}
       /\ job' = [job EXCEPT !.state = r.to]
  /\ UNCHANGED <<captured, results, duties, workspace, lost, upsets>>

(* EnterHumanReview, which no tool becomes: an operator's. *)
EnterHumanReview ==
  /\ Known
  /\ job.state \notin TerminalStates \cup ExceptionalStates
  /\ Upset
  /\ job' = [job EXCEPT !.state = "HumanReviewRequired",
       !.resume = [from |-> "HumanReviewRequired", to |-> job.state]]
  /\ UNCHANGED <<captured, results, duties, workspace, lost>>

(* job.resume. *)
Resume ==
  /\ Ok("job.resume", [job_id |-> "job"])
  /\ job' = [job EXCEPT !.state = job.resume.to]
  /\ UNCHANGED <<captured, results, duties, workspace, lost, upsets>>

Next ==
  \/ CreateJob \/ Patch \/ Reconcile \/ EnterHumanReview \/ Resume
  \/ Import \/ \E gone \in BOOLEAN : ImportStops(gone)
  \/ \E family \in Families : Capture(family)
  \/ \E id \in CheckIds : SoundRun(id) \/ FaultyRun(id)

Spec == Init /\ [][Next]_vars

-----------------------------------------------------------------------------
(* Properties. *)

TypeOK ==
  /\ job \in [state : JobStates \cup {"Absent"}, active : SUBSET Candidates,
              resume : [from : JobStates \cup {"None"}, to : JobStates \cup {"None"}]]
  /\ captured \in SUBSET Candidates /\ lost \in SUBSET Candidates
  /\ results \in [CheckIds -> GateStatuses]
  /\ duties \in [DutyIds -> ObligationOutcome \cup {"NotEvaluated"}]
  /\ workspace \in [tree : Trees, dirty : BOOLEAN, objects : SUBSET Trees]
  /\ upsets \in 0..MaxUpsets

(* The call an offered action is turned into, by an agent that has no      *)
(* more than what it was handed.                                           *)
CallFor(action) ==
  [tool |-> tool_for_action(action),
   args |->
     CASE action.kind = "CaptureCandidate" ->
            [job_id |-> "job", package |-> "package", repository_url |-> "url"]
       [] action.kind = "RunCheck" ->
            [job_id |-> "job", check_id |-> Only(action.check)]
       [] action.kind = "ResumeJob" -> [job_id |-> "job"]]

(* The offers the code does not keep: a check no tool is registered for,   *)
(* and one of a candidate whose objects a source.import has removed.       *)
Unkept(action) ==
  \E id \in action.check : ~HasTool(id) \/ id.candidate \in lost

(* next_actions.rs: `allowed` "never contains an action a tool cannot      *)
(* perform".  In a deployment with a workspace, what the agent is offered  *)
(* is a tool the server lists and, made the next call, is not refused: by  *)
(* the bearer check, the decoding, the dispatch or the guards of the       *)
(* handler.  The exceptions are named in Unkept.                           *)
OffersAreKept ==
  Known /\ Server.workspace =>
    \A action \in ListNextActions.allowed :
      Unkept(action) \/ (/\ CallFor(action).tool \in list_tools
                         /\ require_bearer([kind |-> "bearer", token |-> Server.token]) = 200
                         /\ dispatch(CallFor(action)) = "ok")

(* What the engine would hold against the active candidate if policy were  *)
(* asked for now, as it is in FinalValidation: obligations found not to be *)
(* met.                                                                    *)
PolicyRefusals ==
  UNION {{b \in check_obligations([policy |-> TRUE], ActiveName, ContextOf(c)) :
            b[1] \in {"FailedObligation", "ReviewRequired"}} :
         c \in active_fingerprint}

(* service.rs:575: the two readers of the obligations agree.  An agent is  *)
(* told of an obligation, in whatever state the job is, exactly when the   *)
(* engine would refuse the release for one, and it is told of one of those. *)
ObligationsAreNamed ==
  LET told == {b \in ListNextActions.blockers : b.kind = "ObligationPending"}
      refused == {Template(id).requirement :
                    id \in {d \in ActiveDuties : \E b \in PolicyRefusals : b[2] = d.index}}
  IN  Known =>
        /\ told # {} <=> PolicyRefusals # {}
        /\ \A b \in told : b.of # {} /\ b.of \subseteq refused

-----------------------------------------------------------------------------
(* Progress, for an agent that keeps at it: it repairs the source, captures *)
(* it as what it is, runs the checks that have not passed and reconciles.  *)

KeepsAt ==
  /\ WF_vars(CreateJob)
  /\ WF_vars(Patch)
  /\ WF_vars(Capture(Home))
  /\ WF_vars(Reconcile)
  /\ \A i \in DOMAIN Planned[Home] :
       WF_vars(\E c \in active_fingerprint :
                 c.family = Home /\ SoundRun([candidate |-> c, index |-> i]))

(* The order of the ordinary states. *)
FlowPath ==
  <<"EventDetected", "Intake", "SourceReview", "CandidateAssembly",
    "SourceRevision", "SourceIntegrity", "BuildValidation",
    "PackageQaValidation", "FunctionalValidation", "UpgradeValidation",
    "ReleaseReview", "FinalValidation", "ReadyForApproval", "Approved",
    "PublicationPending", "Published">>

(* The first state whose gate no check of the package can open with the     *)
(* tools there are, however the source is repaired.                        *)
Opens(stage) ==
  \E i \in DOMAIN Planned[Home] :
    LET check == Planned[Home][i]
    IN  /\ check.mandatory /\ check.key \in RegisteredTools
        /\ gate_stage_for[check.kind] = stage
        /\ Findings[MaxTree][check.key] = "Pass"
Frontier ==
  LET shut(i) == \E r \in RulesFrom(FlowPath[i]) :
                   \/ r.policy \/ r.approvals # {}
                   \/ \E stage \in r.gates : ~Opens(stage)
  IN  FlowPath[CHOOSE i \in DOMAIN FlowPath :
                 shut(i) /\ \A j \in 1..(i - 1) : ~shut(j)]

=============================================================================
