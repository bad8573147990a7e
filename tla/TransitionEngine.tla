------------------------- MODULE TransitionEngine -------------------------
(***************************************************************************)
(* The pure state machine of crates/ironmaint-state: the job states, the   *)
(* static transition table and TransitionEngine::evaluate.  The module has *)
(* no variables.  JobService calls Evaluate from its command handlers and  *)
(* EngineInputs checks it over bounded contexts.                           *)
(*                                                                         *)
(* A blocker is the name of a TransitionBlocker variant, or a pair of a    *)
(* variant and the gate or obligation it carries.  A decision is the set   *)
(* of blockers: a transition is Allowed when the set is empty.             *)
(***************************************************************************)
EXTENDS Naturals

(* The ordinary states, in the order of the forward path. *)
FlowStates ==
  {"EventDetected", "Intake", "SourceReview", "CandidateAssembly",
   "SourceRevision", "SourceIntegrity", "BuildValidation",
   "PackageQaValidation", "FunctionalValidation", "UpgradeValidation",
   "ReleaseReview", "FinalValidation", "ReadyForApproval", "Approved",
   "PublicationPending"}

TerminalStates == {"Published", "Cancelled"}

ExceptionalStates == {"HumanReviewRequired", "InfrastructureBlocked"}

JobStates == FlowStates \cup TerminalStates \cup ExceptionalStates

(* JobState::is_decided: the release decision is made, or being made. *)
DecidedStates ==
  {"ReadyForApproval", "Approved", "PublicationPending", "Published",
   "Cancelled"}

(* JobState::is_repairable: an agent may still change the evidence. *)
RepairableStates == JobStates \ (DecidedStates \cup ExceptionalStates)

GateStages ==
  {"SourcePreparation", "SourceAnalysis", "IssueAnalysis", "Maintenance",
   "PolicyEvaluation", "BuildValidation", "PackageQa",
   "FunctionalValidation", "UpgradeValidation", "ReleaseReview",
   "CandidateAssembly", "FinalValidation", "Publication"}

-----------------------------------------------------------------------------
(* A row of the table whose only requirement is one gate stage. *)
GateRule(from, to, stage) ==
  [from |-> from, to |-> to, gates |-> {stage}, policy |-> FALSE,
   approvals |-> {}]

TRANSITION_RULES ==
  {GateRule("EventDetected", "Intake", "SourcePreparation"),
   GateRule("Intake", "SourceReview", "SourceAnalysis"),
   GateRule("SourceReview", "CandidateAssembly", "IssueAnalysis"),
   GateRule("CandidateAssembly", "SourceRevision", "Maintenance"),
   GateRule("SourceRevision", "SourceIntegrity", "PolicyEvaluation"),
   GateRule("SourceIntegrity", "BuildValidation", "BuildValidation"),
   GateRule("BuildValidation", "PackageQaValidation", "PackageQa"),
   GateRule("PackageQaValidation", "FunctionalValidation",
            "FunctionalValidation"),
   GateRule("FunctionalValidation", "UpgradeValidation",
            "UpgradeValidation"),
   GateRule("UpgradeValidation", "ReleaseReview", "ReleaseReview"),
   GateRule("ReleaseReview", "FinalValidation", "CandidateAssembly"),
   [from |-> "FinalValidation", to |-> "ReadyForApproval",
    gates |-> {"FinalValidation"}, policy |-> TRUE, approvals |-> {}],
   [from |-> "ReadyForApproval", to |-> "Approved",
    gates |-> {}, policy |-> FALSE, approvals |-> {"HumanReview"}],
   [from |-> "Approved", to |-> "PublicationPending",
    gates |-> {}, policy |-> FALSE, approvals |-> {}],
   GateRule("PublicationPending", "Published", "Publication")}

(* rule_for: the row for this move, as a set of at most one row. *)
RulesFor(from, to) == {r \in TRANSITION_RULES : r.from = from /\ r.to = to}

(* The rows a reconcile walk looks at from one state. *)
RulesFrom(from) == {r \in TRANSITION_RULES : r.from = from}

(* Targets evaluate allows from every non-terminal state, rule or no rule. *)
SyntheticTargets == {"HumanReviewRequired", "InfrastructureBlocked",
                     "Cancelled"}

-----------------------------------------------------------------------------
(* The blockers of the three requirement checks.  "NoCandidate" stands for *)
(* an absent active candidate; ctx holds what the caller read:             *)
(*   defs          the gate definitions, with distinct ids                 *)
(*   results       a function from some gate ids to a result               *)
(*   obligations   the obligations                                         *)
(*   requirements  the approval requirements                               *)
(*   approvals     a function from some approval ids to a decision         *)
NoCandidate == "NoCandidate"

(* The definition check_gates settles on for a stage: the first mandatory  *)
(* one in the order of the map, that is, of the gate ids.                  *)
FirstMandatory(stage, fp, defs) ==
  LET eligible == {d \in defs : d.stage = stage /\ d.candidate = fp /\ d.mandatory}
  IN  {d \in eligible : \A other \in eligible : d.id <= other.id}

GateResultBlockers(def, fp, results) ==
  IF def.id \notin DOMAIN results THEN {<<"MissingGate", def.id>>}
  ELSE LET result == results[def.id] IN
    IF result.candidate # fp THEN {<<"CandidateMismatch", def.id>>}
    ELSE CASE result.status = "Pass" -> {}
           [] result.status = "NotApplicable" ->
                IF def.minimum = "Pass" THEN {<<"FailedGate", def.id>>} ELSE {}
           [] result.status \in {"NotEvaluated", "Blocked"} ->
                {<<"IncompleteGate", def.id>>}
           [] result.status \in {"Fail", "ReviewRequired"} ->
                {<<"FailedGate", def.id>>}

check_gates(rule, fp, ctx) ==
  UNION {IF fp = NoCandidate \/ FirstMandatory(stage, fp, ctx.defs) = {}
         THEN {<<"MissingGate", stage>>}
         ELSE UNION {GateResultBlockers(d, fp, ctx.results) :
                       d \in FirstMandatory(stage, fp, ctx.defs)} :
         stage \in rule.gates}

(* Some approval of the context is a recorded yes, and some requirement of *)
(* the candidate is a policy exception: the two are not linked.            *)
ExceptionBacked(fp, ctx) ==
  /\ \E req \in ctx.requirements :
       req.candidate = fp /\ req.category = "PolicyException"
  /\ \E id \in DOMAIN ctx.approvals : ctx.approvals[id] = "Approved"

check_obligations(rule, fp, ctx) ==
  LET binding == {o \in ctx.obligations : /\ o.candidate = fp
                                          /\ o.strength = "Mandatory"
                                          /\ o.applicability = "Applicable"}
      blocker == [NotEvaluated |-> "MissingObligation",
                  Fail |-> "FailedObligation",
                  RequiresReview |-> "ReviewRequired",
                  ExceptionApproved |-> "UnbackedException"]
  IN  IF ~rule.policy \/ fp = NoCandidate THEN {}
      ELSE {<<blocker[o.status], o.id>> :
              o \in {b \in binding : /\ b.status # "Pass"
                                     /\ \/ b.status # "ExceptionApproved"
                                        \/ ~ExceptionBacked(fp, ctx)}}

check_approvals(rule, fp, ctx) ==
  LET first(category) ==
        {r \in ctx.requirements :
           /\ r.candidate = fp /\ r.category = category
           /\ \A s \in ctx.requirements :
                s.candidate = fp /\ s.category = category => r.id <= s.id}
      granted(category) ==
        \E r \in first(category) : /\ r.id \in DOMAIN ctx.approvals
                                   /\ ctx.approvals[r.id] = "Approved"
  IN  {<<"MissingApproval", category>> :
         category \in {k \in rule.approvals : fp = NoCandidate \/ ~granted(k)}}

RequirementBlockers(rule, fp, ctx) ==
  check_gates(rule, fp, ctx) \cup check_obligations(rule, fp, ctx)
    \cup check_approvals(rule, fp, ctx)

-----------------------------------------------------------------------------
(* TransitionEngine::evaluate: the early returns in the code's order, and  *)
(* last the blockers unmet of the requirement checks on the move's rule.   *)
NoResume == [from |-> "None", to |-> "None"]

Evaluate(expected, target, current, resume, infrastructureBlocked, unmet) ==
  IF expected # current.version THEN {"StaleProjection"}
  ELSE IF current.state \in TerminalStates THEN {"InvalidStatePath"}
  ELSE IF target \in SyntheticTargets THEN {}
  ELSE IF current.state \in ExceptionalStates
       THEN IF resume = [from |-> current.state, to |-> target]
            THEN {} ELSE {"InvalidStatePath"}
  ELSE IF RulesFor(current.state, target) = {} THEN {"InvalidStatePath"}
  ELSE IF infrastructureBlocked THEN {"InfrastructureBlocked"}
  ELSE unmet

=============================================================================
