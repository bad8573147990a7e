---------------------------- MODULE JobService -----------------------------
(***************************************************************************)
(* RuntimeService's command handlers over the store, for one maintenance   *)
(* job.  A handler is an async function and every store call in it is an   *)
(* await: the daemon serves requests concurrently, on several threads and  *)
(* with no lock per job, so the handlers interleave between any two calls. *)
(* One action here is one store call, with the plain code up to the next.  *)
(*                                                                         *)
(* Each store call is atomic (one SQLite transaction).  What is atomic     *)
(* beyond that is the question the module is about: the projection row is  *)
(* guarded by its version, the event log by its sequence, and nothing      *)
(* guards the two together.                                                *)
(*                                                                         *)
(* Checks, gates and obligations are summarised by what the engine asks of *)
(* them: which gate stages a candidate passes, and whether its mandatory   *)
(* obligations are met.                                                    *)
(***************************************************************************)
EXTENDS TransitionEngine, Sequences, FiniteSets

CONSTANTS
  Procs,          \* requests in flight
  Candidates,     \* source candidates; a candidate is its fingerprint
  CheckStages,    \* gate stages the adapter plans a check for
  Verdicts,       \* what a check run, or a policy evaluation, may conclude
  DirectTargets,  \* states asked of the public try_transition
  MaxRequests,    \* bound: requests sent after job.create
  MaxFailures     \* bound: handlers that stop half way

ASSUME CandidatesAssumption == NoCandidate \notin Candidates
ASSUME StagesAssumption == CheckStages \subseteq GateStages
ASSUME VerdictsAssumption == Verdicts \subseteq BOOLEAN
ASSUME TargetsAssumption == DirectTargets \subseteq JobStates
ASSUME BoundsAssumption == MaxRequests \in Nat /\ MaxFailures \in Nat

VARIABLES
  row,          \* projections: the job's row, NoRow before job.create
  log,          \* events: the job's events, the n-th with sequence n
  activeRow,    \* active_source_candidates: the job's row there
  captured,     \* source_candidates: the candidates persisted so far
  planned,      \* candidates whose checks and gates are materialised
  obliged,      \* candidates whose mandatory obligations are stored
  passing,      \* pairs of a candidate and a gate stage it passes
  policyMet,    \* candidates whose mandatory obligations are all met
  op,           \* what each request in flight is doing
  requests,     \* how many requests were sent after job.create
  failures,     \* how many handlers have stopped half way
  enteredFrom   \* history: the state the last review was entered from

vars == <<row, log, activeRow, captured, planned, obliged, passing, policyMet,
          op, requests, failures, enteredFrom>>

-----------------------------------------------------------------------------
NoRow == [state |-> "None", active |-> NoCandidate, version |-> 0]

(* The projection job.create writes. *)
BirthRow == [state |-> "EventDetected", active |-> NoCandidate, version |-> 0]

Rows == [state : JobStates, active : Candidates \cup {NoCandidate},
         version : Nat]

ResumeRecords == [from : JobStates \cup {"None"}, to : JobStates \cup {"None"}]

(* JobEvent.  after is the row the event says it left, resume the record   *)
(* it carries; "CandidateActivated" carries only the candidate and the     *)
(* version, so the state in its after is not read by anyone.               *)
EventTypes == {"JobCreated", "Transitioned", "CandidateActivated",
               "ResumeRecorded", "Domain", "ToolRunFinished"}

Events == [type : EventTypes, from : JobStates \cup {"None"},
           after : Rows \cup {NoRow}, resume : ResumeRecords]

Event(type) == [type |-> type, from |-> "None", after |-> NoRow,
                resume |-> NoResume]

JobCreated(projection) == [Event("JobCreated") EXCEPT !.after = projection]

Transitioned(before, after) ==
  [Event("Transitioned") EXCEPT !.from = before.state, !.after = after]

CandidateActivated(after) ==
  [Event("CandidateActivated") EXCEPT !.after = after]

ResumeRecorded(record) == [Event("ResumeRecorded") EXCEPT !.resume = record]

-----------------------------------------------------------------------------
(* One request: the command, the next store call, and what it has read.    *)
Idle ==
  [cmd |-> "none", pc |-> "idle",
   snap |-> NoRow,           \* the row it read, stale or not
   expected |-> 0,           \* the version try_transition must find
   target |-> "None",        \* the state it moves to
   resume |-> NoResume,      \* the resume record it presents
   probe |-> FALSE,          \* reconcile's own evaluation, before the move
   gatesMet |-> FALSE,       \* no gate of the rule blocked when last read
   cand |-> NoCandidate,     \* the candidate it is about
   stage |-> "None",         \* the gate stage of the check it runs
   pending |-> << >>,        \* events still to append
   seq |-> 0]                \* the sequence number it was given

Commands == {"none", "create", "capture", "activate", "review", "resume",
             "reconcile", "transition", "check", "record"}

Calls == {"idle", "find", "insert", "activeCheck", "activeRead", "activeRow",
          "activePut", "planChecks", "planObligations", "loadResume", "walk",
          "transition", "gates", "evaluate", "put", "gateResult", "verdicts",
          "outcome", "sequence", "append"}

Ops == [cmd : Commands, pc : Calls, snap : Rows \cup {NoRow},
        expected : Nat, target : JobStates \cup {"None"},
        resume : ResumeRecords, probe : BOOLEAN, gatesMet : BOOLEAN,
        cand : Candidates \cup {NoCandidate},
        stage : GateStages \cup {"None"}, pending : Seq(Events), seq : Nat]

(* job.create answers with the job id only after both of its events. *)
JobKnown == row # NoRow /\ Len(log) >= 2

Begin(cmd, call) == [Idle EXCEPT !.cmd = cmd, !.pc = call]

(* The handler gets to its next call. *)
Proceed(p, next) == op' = [op EXCEPT ![p] = next]

(* It goes on to append these events, one next_sequence and one            *)
(* append_event each.                                                      *)
Emit(p, events) ==
  Proceed(p, [Begin(op[p].cmd, "sequence") EXCEPT
                !.pending = events, !.cand = op[p].cand])

(* It returns, with a result or an error. *)
Return(p) == Proceed(p, Idle)

jobVars == <<row, enteredFrom>>
planVars == <<planned, obliged>>
candidateVars == <<activeRow, captured, planVars>>
gateVars == <<passing, policyMet>>
boundVars == <<requests, failures>>

(* The call only reads the store. *)
ReadsOnly == UNCHANGED <<jobVars, log, candidateVars, gateVars, boundVars>>

(* A request about the job arrives, and its handler gets to its first call. *)
Accept(p, request) ==
  /\ op[p].pc = "idle"
  /\ JobKnown
  /\ requests < MaxRequests
  /\ requests' = requests + 1
  /\ Proceed(p, request)
  /\ UNCHANGED <<jobVars, log, candidateVars, gateVars, failures>>

Init ==
  /\ row = NoRow
  /\ log = << >>
  /\ activeRow = NoCandidate
  /\ captured = {}
  /\ planned = {}
  /\ obliged = {}
  /\ passing = {}
  /\ policyMet = {}
  /\ op = [p \in Procs |-> Idle]
  /\ requests = 0
  /\ failures = 0
  /\ enteredFrom = "None"

-----------------------------------------------------------------------------
(* job.create: the row first, then the seed of the log. *)
CreateJob(p) ==
  /\ op[p].pc = "idle"
  /\ row = NoRow
  /\ row' = BirthRow
  /\ Proceed(p, [Begin("create", "sequence") EXCEPT
                   !.pending = <<JobCreated(BirthRow), Event("Domain")>>])
  /\ UNCHANGED <<log, candidateVars, gateVars, boundVars, enteredFrom>>

-----------------------------------------------------------------------------
(* Appending to the log, shared by every command that leaves events.       *)

(* next_sequence only reads: the number is not reserved. *)
NextSequence(p) ==
  /\ op[p].pc = "sequence"
  /\ Proceed(p, [op[p] EXCEPT !.pc = "append", !.seq = Len(log) + 1])
  /\ ReadsOnly

(* A capture goes on from the activation, or from the refusal of it, to    *)
(* the plans of the candidate.                                             *)
AfterActivation(p) ==
  IF op[p].cmd = "capture"
  THEN [Begin("capture", "planChecks") EXCEPT !.cand = op[p].cand] ELSE Idle

AfterAppend_OneMove(p) ==   \* mutant: reconcile moves once and returns
  IF op[p].cmd = "capture" /\ Head(op[p].pending).type = "Domain"
  THEN [Begin("capture", "activeCheck") EXCEPT !.cand = op[p].cand]
  ELSE AfterActivation(p)

(* Where the handler goes once it has appended its last event: reconcile   *)
(* walks on, a capture goes on to activate what it captured.               *)
AfterAppend(p) ==
  CASE op[p].cmd = "reconcile" -> Begin("reconcile", "walk")
    [] op[p].cmd = "capture" /\ Head(op[p].pending).type = "Domain" ->
         [Begin("capture", "activeCheck") EXCEPT !.cand = op[p].cand]
    [] OTHER -> AfterActivation(p)

(* append_event refuses a sequence that is not the next one; the handler   *)
(* then returns an error, and what it wrote to the row before stays.       *)
AppendEvent(p) ==
  /\ op[p].pc = "append"
  /\ \/ /\ op[p].seq = Len(log) + 1
        /\ log' = Append(log, Head(op[p].pending))
        /\ Proceed(p, IF Tail(op[p].pending) = << >> THEN AfterAppend(p)
                      ELSE [op[p] EXCEPT !.pc = "sequence", !.pending = Tail(@)])
     \/ /\ op[p].seq # Len(log) + 1
        /\ Return(p)
        /\ UNCHANGED log
  /\ UNCHANGED <<jobVars, candidateVars, gateVars, boundVars>>

-----------------------------------------------------------------------------
(* candidate.capture: persist the candidate unless its fingerprint is      *)
(* known, leave an audit event, activate it unless it is active, and       *)
(* derive its checks and obligations from the adapter's plans, each unless *)
(* there are some already.                                                 *)
CaptureCandidate(p, c) ==
  Accept(p, [Begin("capture", "find") EXCEPT !.cand = c])

FindSource(p) ==
  /\ op[p].pc = "find"
  /\ IF op[p].cand \in captured
     THEN Emit(p, <<Event("Domain")>>)
     ELSE Proceed(p, [op[p] EXCEPT !.pc = "insert"])
  /\ ReadsOnly

(* The fingerprint is unique: of two captures that both found nothing, the *)
(* second insert is an error.                                              *)
InsertSource(p) ==
  /\ op[p].pc = "insert"
  /\ IF op[p].cand \in captured THEN Return(p) ELSE Emit(p, <<Event("Domain")>>)
  /\ captured' = captured \cup {op[p].cand}
  /\ UNCHANGED <<jobVars, log, activeRow, planVars, gateVars, boundVars>>

ActiveCheck(p) ==
  /\ op[p].pc = "activeCheck"
  /\ IF row.active = op[p].cand
     THEN Proceed(p, AfterActivation(p))
     ELSE Proceed(p, [op[p] EXCEPT !.pc = "activeRead"])
  /\ ReadsOnly

(* handle_set_active_candidate, on its own or as the end of a capture. *)
SetActiveCandidate(p, c) ==
  Accept(p, [Begin("activate", "activeRead") EXCEPT !.cand = c])

(* Refused once the job is decided, and while it waits in an exceptional   *)
(* state; the candidate must have been captured.                           *)
MayActivate_AnyState(c) == c \in captured   \* mutant: drops the first test

MayActivate(c) == row.state \in RepairableStates /\ c \in captured

ActiveRead(p) ==
  /\ op[p].pc = "activeRead"
  /\ IF MayActivate(op[p].cand)
     THEN Proceed(p, [op[p] EXCEPT !.pc = "activeRow", !.snap = row])
     ELSE Proceed(p, AfterActivation(p))
  /\ ReadsOnly

ActiveRow(p) ==
  /\ op[p].pc = "activeRow"
  /\ activeRow' = op[p].cand
  /\ Proceed(p, [op[p] EXCEPT !.pc = "activePut"])
  /\ UNCHANGED <<jobVars, log, captured, planVars, gateVars, boundVars>>

Activated_SameVersion(before, c) == [before EXCEPT !.active = c]   \* mutant

Activated(before, c) == [before EXCEPT !.active = c, !.version = @ + 1]

(* put_projection: compare the version, then write. *)
ActivePut(p) ==
  /\ op[p].pc = "activePut"
  /\ IF row.version = op[p].snap.version
     THEN /\ row' = Activated(op[p].snap, op[p].cand)
          /\ Emit(p, <<CandidateActivated(row')>>)
     ELSE Return(p) /\ UNCHANGED row
  /\ UNCHANGED <<log, candidateVars, gateVars, boundVars, enteredFrom>>

(* The gate definitions and checks of the build and QA plans. *)
PlanChecks(p) ==
  /\ op[p].pc = "planChecks"
  /\ planned' = planned \cup {op[p].cand}
  /\ Proceed(p, [op[p] EXCEPT !.pc = "planObligations"])
  /\ UNCHANGED <<jobVars, log, activeRow, captured, obliged, gateVars, boundVars>>

(* The obligations of the policy plan, none of them judged yet. *)
PlanObligations(p) ==
  /\ op[p].pc = "planObligations"
  /\ obliged' = obliged \cup {op[p].cand}
  /\ Return(p)
  /\ UNCHANGED <<jobVars, log, activeRow, captured, planned, gateVars, boundVars>>

-----------------------------------------------------------------------------
(* The commands that move the job end in try_transition_with_resume: read  *)
(* the row and compare its version, read the gates, read the obligations,  *)
(* evaluate, write the row, leave the event.                               *)

(* The public try_transition; a caller with a stale version is refused. *)
Transition(p, target) ==
  Accept(p, [Begin("transition", "transition") EXCEPT
               !.target = target, !.expected = row.version])

(* EnterHumanReview, refused in an exceptional state.  The handler has read *)
(* the row: its state is what the resume record will name.                  *)
MayBeReviewed_Always == TRUE   \* mutant

MayBeReviewed == row.state \notin ExceptionalStates

EnterHumanReview(p) ==
  /\ MayBeReviewed
  /\ Accept(p, [Begin("review", "transition") EXCEPT
               !.target = "HumanReviewRequired", !.expected = row.version,
               !.resume = [from |-> "HumanReviewRequired", to |-> row.state]])

(* job.resume, for a job in an exceptional state. *)
ResumeJob(p) ==
  /\ row.state \in ExceptionalStates
  /\ Accept(p, [Begin("resume", "loadResume") EXCEPT
               !.snap = row, !.expected = row.version])

(* The places in the log of the resume records out of a state. *)
RecordsFrom(state) ==
  {i \in 1..Len(log) : /\ log[i].type = "ResumeRecorded"
                       /\ log[i].resume.from = state}

Chosen_First(places) == {i \in places : \A j \in places : i <= j}   \* mutant

(* The last of them. *)
Chosen(places) == {i \in places : \A j \in places : j <= i}

(* load_resume_record: the last record out of the state that was read. *)
LoadResume(p) ==
  /\ op[p].pc = "loadResume"
  /\ \/ /\ RecordsFrom(op[p].snap.state) = {}
        /\ Return(p)
     \/ \E i \in Chosen(RecordsFrom(op[p].snap.state)) :
          Proceed(p, [op[p] EXCEPT !.pc = "transition",
                                   !.resume = log[i].resume,
                                   !.target = log[i].resume.to])
  /\ ReadsOnly

(* job.reconcile: one command walks as far as the evidence allows. *)
Reconcile(p) == Accept(p, Begin("reconcile", "walk"))

(* The head of the walk's loop: read the row, stop in a terminal or an     *)
(* exceptional state and without an active candidate, else evaluate the    *)
(* move of the rule that leaves the state.  The loop's own bound, one more *)
(* round than there are rules, is left out: a longer walk is allowed here. *)
Walk(p) ==
  /\ op[p].pc = "walk"
  /\ \/ /\ \/ row.state \notin FlowStates
           \/ row.active = NoCandidate
        /\ Return(p)
     \/ /\ row.state \in FlowStates
        /\ row.active # NoCandidate
        /\ \E rule \in RulesFrom(row.state) :
             Proceed(p, [Begin("reconcile", "gates") EXCEPT
                           !.snap = row, !.expected = row.version,
                           !.target = rule.to, !.probe = TRUE])
  /\ ReadsOnly

CallerIsCurrent_Unchecked(p) == TRUE   \* mutant: the version is not compared

CallerIsCurrent(p) == row.version = op[p].expected

(* try_transition_with_resume: get_projection and the version check. *)
TransitionRead(p) ==
  /\ op[p].pc = "transition"
  /\ IF CallerIsCurrent(p)
     THEN Proceed(p, [op[p] EXCEPT !.pc = "gates", !.snap = row])
     ELSE Return(p)
  /\ ReadsOnly

(* The gates a rule asks of a candidate, all passed. *)
GatesMet(read, target) ==
  \A rule \in RulesFor(read.state, target) : \A stage \in rule.gates :
    <<read.active, stage>> \in passing

(* The definitions and results of the gates, for the candidate in the row  *)
(* that was read.                                                          *)
ReadGates(p) ==
  /\ op[p].pc = "gates"
  /\ Proceed(p, [op[p] EXCEPT !.pc = "evaluate",
                   !.gatesMet = GatesMet(op[p].snap, op[p].target)])
  /\ ReadsOnly

(* What the three requirement checks of the engine find for the rule of    *)
(* the move; the runtime has no approvals to show.                         *)
Unmet(p) ==
  LET rules == RulesFor(op[p].snap.state, op[p].target) IN
    (IF op[p].gatesMet THEN {} ELSE {"IncompleteGate"})
      \cup (IF \E r \in rules : r.policy /\ op[p].snap.active \in obliged \ policyMet
            THEN {"MissingObligation"} ELSE {})
      \cup (IF \E r \in rules : r.approvals # {} THEN {"MissingApproval"} ELSE {})

(* The production value of the constant of that name. *)
INFRASTRUCTURE_BLOCKED == FALSE

(* Only handle_resume_job shows the engine a resume record. *)
Presented(p) == IF op[p].cmd = "resume" THEN op[p].resume ELSE NoResume

(* Where a blocked move leaves the handler; the mutant walks on regardless. *)
WhenBlocked_WalkOn(p) == IF op[p].probe THEN Begin("reconcile", "walk") ELSE Idle

WhenBlocked(p) == Idle

(* The obligations, then the engine's decision.  Reconcile evaluates twice:*)
(* for itself, and again inside try_transition.                            *)
EvaluateMove(p) ==
  /\ op[p].pc = "evaluate"
  /\ LET blockers == Evaluate(op[p].expected, op[p].target, op[p].snap,
                              Presented(p), INFRASTRUCTURE_BLOCKED, Unmet(p))
     IN  IF blockers # {} THEN Proceed(p, WhenBlocked(p))
         ELSE Proceed(p, [op[p] EXCEPT !.probe = FALSE,
                            !.pc = IF op[p].probe THEN "transition" ELSE "put"])
  /\ ReadsOnly

NotOverwritten_Unguarded(p) == TRUE   \* mutant: no comparison in the write

NotOverwritten(p) == row.version = op[p].expected

MoveEvents_RecordOnly(p, after) ==   \* mutant: a review leaves no Transitioned
  IF op[p].cmd = "review" THEN <<ResumeRecorded(op[p].resume)>>
  ELSE <<Transitioned(op[p].snap, after)>>

(* What the move leaves in the log: a review also records where to resume. *)
MoveEvents(p, after) ==
  <<Transitioned(op[p].snap, after)>> \o
    IF op[p].cmd = "review" THEN <<ResumeRecorded(op[p].resume)>> ELSE << >>

(* put_projection with the expected version.  The state a review is entered*)
(* from is remembered here, whether or not the record of it gets written.  *)
PutProjection(p) ==
  /\ op[p].pc = "put"
  /\ IF NotOverwritten(p)
     THEN /\ row' = [op[p].snap EXCEPT !.state = op[p].target,
                                      !.version = op[p].expected + 1]
          /\ Emit(p, MoveEvents(p, row'))
          /\ enteredFrom' = IF op[p].cmd = "review" THEN op[p].snap.state
                            ELSE enteredFrom
     ELSE Return(p) /\ UNCHANGED jobVars
  /\ UNCHANGED <<log, candidateVars, gateVars, boundVars>>

-----------------------------------------------------------------------------
(* check.run, for a check bound to the active candidate.  The state is     *)
(* looked at here and never again: the tool runs, for as long as it takes, *)
(* and only then are the gate result and the verdicts written.             *)
RunCheck(p, s) ==
  /\ row.active \in planned
  /\ row.state \notin TerminalStates \cup ExceptionalStates
  /\ Accept(p, [Begin("check", "gateResult") EXCEPT
               !.cand = row.active, !.stage = s])

(* put_evidence, evaluate_gate and put_gate_result. *)
PutGateResult(p) ==
  /\ op[p].pc = "gateResult"
  /\ \E pass \in Verdicts :
       LET pair == <<op[p].cand, op[p].stage>> IN
         passing' = IF pass THEN passing \cup {pair} ELSE passing \ {pair}
  /\ IF op[p].stage = "PolicyEvaluation"
     THEN Proceed(p, [op[p] EXCEPT !.pc = "verdicts"])
     ELSE Emit(p, <<Event("ToolRunFinished")>>)
  /\ UNCHANGED <<jobVars, log, candidateVars, policyMet, boundVars>>

(* The candidate's obligations, if it has any, judged again as a whole. *)
Judge(p) ==
  \E met \in Verdicts :
    policyMet' = IF met THEN policyMet \cup ({op[p].cand} \cap obliged)
                 ELSE policyMet \ {op[p].cand}

(* derive_obligation_verdicts: an evaluation may decline, and leaves what  *)
(* was there.                                                              *)
DeriveVerdicts(p) ==
  /\ op[p].pc = "verdicts"
  /\ Judge(p) \/ UNCHANGED policyMet
  /\ Emit(p, <<Event("ToolRunFinished")>>)
  /\ UNCHANGED <<jobVars, log, candidateVars, passing, boundVars>>

(* RecordObligationOutcome, in any state, for an obligation of the active  *)
(* candidate.                                                              *)
RecordObligationOutcome(p) ==
  /\ row.active \in obliged
  /\ Accept(p, [Begin("record", "outcome") EXCEPT !.cand = row.active])

UpdateObligation(p) ==
  /\ op[p].pc = "outcome"
  /\ Judge(p)
  /\ Emit(p, <<Event("Domain")>>)
  /\ UNCHANGED <<jobVars, log, candidateVars, passing, boundVars>>

(* RecordCheckEvidence: an evidence row, which no gate looks at before the *)
(* next check run, and an audit event.                                     *)
RecordCheckEvidence(p) ==
  /\ row.active # NoCandidate
  /\ Accept(p, [Begin("record", "sequence") EXCEPT
               !.pending = <<Event("Domain")>>])

-----------------------------------------------------------------------------
(* Any await may be the last: the store call fails, the client goes away   *)
(* and its future is dropped, or the daemon stops (then all of them do).   *)
Fail(p) ==
  /\ op[p].pc # "idle"
  /\ failures < MaxFailures
  /\ failures' = failures + 1
  /\ Return(p)
  /\ UNCHANGED <<jobVars, log, candidateVars, gateVars, requests>>

(* A request arrives. *)
Request(p) ==
  \/ CreateJob(p)
  \/ \E c \in Candidates : CaptureCandidate(p, c) \/ SetActiveCandidate(p, c)
  \/ \E s \in DirectTargets : Transition(p, s)
  \/ EnterHumanReview(p)
  \/ ResumeJob(p)
  \/ Reconcile(p)
  \/ \E s \in CheckStages : RunCheck(p, s)
  \/ RecordObligationOutcome(p)
  \/ RecordCheckEvidence(p)

(* A handler takes its next step. *)
Step(p) ==
  \/ NextSequence(p) \/ AppendEvent(p)
  \/ FindSource(p) \/ InsertSource(p)
  \/ ActiveCheck(p) \/ ActiveRead(p) \/ ActiveRow(p) \/ ActivePut(p)
  \/ PlanChecks(p) \/ PlanObligations(p)
  \/ LoadResume(p) \/ Walk(p)
  \/ TransitionRead(p) \/ ReadGates(p) \/ EvaluateMove(p) \/ PutProjection(p)
  \/ PutGateResult(p) \/ DeriveVerdicts(p) \/ UpdateObligation(p)

Next == \E p \in Procs : Request(p) \/ Step(p) \/ Fail(p)

Spec == Init /\ [][Next]_vars

(* The runtime polls every handler it has started until it returns. *)
FairSpec == Spec /\ \A p \in Procs : WF_vars(Step(p))

-----------------------------------------------------------------------------
(* Properties.                                                             *)

(* Every variable has the shape the actions assume. *)
TypeOK ==
  /\ row \in Rows \cup {NoRow}
  /\ log \in Seq(Events)
  /\ activeRow \in Candidates \cup {NoCandidate}
  /\ captured \subseteq Candidates
  /\ planned \subseteq Candidates
  /\ obliged \subseteq Candidates
  /\ passing \subseteq Candidates \X GateStages
  /\ policyMet \subseteq Candidates
  /\ op \in [Procs -> Ops]
  /\ requests \in 0..MaxRequests
  /\ failures \in 0..MaxFailures
  /\ enteredFrom \in FlowStates \cup {"None"}

(* The calls between reading the row and writing it. *)
Reading == {"activeRow", "activePut", "gates", "evaluate", "put"}

HoldsSnapshot(p) == op[p].pc \in Reading

(* No lost update: a row that a handler read and is still at its version   *)
(* has not changed since in any field.  What put_projection's comparison   *)
(* of versions is worth rests on this.                                     *)
VersionNamesTheRow ==
  \A p \in Procs : HoldsSnapshot(p) =>
    /\ op[p].snap.version <= row.version
    /\ op[p].snap.version = row.version => op[p].snap = row

(* The calls of a move, from the version check to the write. *)
Moving == {"transition", "gates", "evaluate", "put"}

(* A resume record that resuming may use. *)
ReviewRecords == [from : {"HumanReviewRequired"}, to : FlowStates]

SoundEvents ==
  {e \in Events : e.type = "ResumeRecorded" => e.resume \in ReviewRecords}

(* A move that is legal out of the row it was evaluated against. *)
LegalMove(before, target) ==
  \/ /\ before.state \in FlowStates \cup ExceptionalStates
     /\ target \in SyntheticTargets
  \/ /\ before.state = "HumanReviewRequired"
     /\ target \in FlowStates
  \/ \E rule \in RulesFor(before.state, target) :
       /\ rule.gates # {} => before.active # NoCandidate
       /\ rule.approvals = {}

(* What a handler o knows between two calls, of the row r as it is by now: *)
(* all it has read is either still so, or the version tells it apart.      *)
Knows(o, r) ==
  /\ o.pc \in {"sequence", "append"} => o.pending # << >>
  /\ o.pc \in {"find", "insert", "activeCheck", "activeRead", "activeRow",
               "activePut", "planChecks", "planObligations", "gateResult",
               "verdicts", "outcome"}
     \/ o.cmd = "capture" => o.cand \in Candidates
  /\ o.pc = "gateResult" => o.stage \in GateStages
  /\ o.pc = "loadResume" => o.cmd = "resume"
  /\ o.pc \in Reading =>
       /\ o.snap \in Rows
       /\ o.snap.version <= r.version
       /\ o.snap.version = r.version => o.snap = r
  /\ o.pc \in {"activeRow", "activePut"} => o.snap.state \in RepairableStates
  /\ o.pc \in Moving \ {"transition"} => o.snap.version = o.expected
  /\ o.pc \in Moving => o.target \in JobStates
  /\ o.cmd = "review" /\ o.pc \in Moving =>
       /\ o.target = "HumanReviewRequired"
       /\ o.resume.from = "HumanReviewRequired"
       /\ o.resume.to \in JobStates \ ExceptionalStates
       /\ o.expected <= r.version
       /\ o.expected = r.version => o.resume.to = r.state
       /\ o.pc # "transition" => o.resume.to = o.snap.state
  /\ o.cmd = "resume" /\ o.pc \in Moving => o.resume \in ReviewRecords
  /\ o.pc = "evaluate" /\ o.gatesMet =>
       \A rule \in RulesFor(o.snap.state, o.target) :
         rule.gates # {} => o.snap.active # NoCandidate
  /\ o.pc = "put" => LegalMove(o.snap, o.target)

(* Every handler in flight knows what it acts on, nobody is at work before *)
(* the job is created, and every event, in the log or on its way there,    *)
(* that says where to resume names the review it belongs to.               *)
HandlersKnow ==
  /\ \A p \in Procs : Knows(op[p], row) /\ op[p].pending \in Seq(SoundEvents)
  /\ log \in Seq(SoundEvents)
  /\ row = NoRow => log = << >> /\ op = [p \in Procs |-> Idle]

(* The events of a log that say what the row became. *)
RowEvents ==
  {i \in 1..Len(log) : log[i].type \in {"Transitioned", "CandidateActivated"}}

(* However appends interleave and handlers stop, the log claims no version *)
(* the row has not reached, claims none twice, and two consecutive         *)
(* versions in it fit together: the second move starts from the state and  *)
(* with the candidate the first one left.                                  *)
LogTellsOneHistory ==
  \A i, j \in RowEvents :
    /\ log[i].after.version \in 1..row.version
    /\ log[i].after.version = log[j].after.version => i = j
    /\ /\ log[j].after.version = log[i].after.version + 1
       /\ log[j].type = "Transitioned"
       => /\ log[j].after.active = log[i].after.active
          /\ log[i].type = "Transitioned" => log[j].from = log[i].after.state

(* The atomic job the runtime promises, whatever interleaves. *)
Atomic == INSTANCE JobLifecycle WITH row <- row, Candidates <- Candidates
ImplementsLifecycle == Atomic!Lifecycle

(* With verdicts that are never taken back, a rule is only crossed with    *)
(* its gates passed by the candidate that is active as it is crossed, even *)
(* if another candidate is activated while the move is under way.          *)
CrossingsProven ==
  [][\A rule \in TRANSITION_RULES :
       row.state = rule.from /\ row'.state = rule.to =>
         {row.active} \X rule.gates \subseteq passing]_row

(* Nobody is at work: the store is all there is. *)
Quiescent == \A p \in Procs : op[p].pc = "idle"

(* The versions the row went through that the log does not account for. *)
LostVersions == (1..row.version) \ {log[i].after.version : i \in RowEvents}

(* Without concurrent requests, each handler that stops half way costs the *)
(* log at most the one event it had not appended yet.                      *)
LossBoundedByFailures ==
  Quiescent => Cardinality(LostVersions) <= failures

(* While no handler has stopped half way, a resumed job goes back to where *)
(* this review found it (the comment of load_resume_record, on a job that  *)
(* is reviewed more than once).                                            *)
ResumeReturnsToEntry ==
  [][failures = 0 /\ row.state = "HumanReviewRequired" /\ row'.state \in FlowStates
       => row'.state = enteredFrom]_row

(* Every request is answered: no handler waits on another, and a walk that *)
(* races other commands is not kept walking.                               *)
EveryRequestAnswered ==
  \A p \in Procs : op[p].pc # "idle" ~> op[p].pc = "idle"

(* One reconcile call walks a job whose candidate has passed everything    *)
(* all the way to the review, when nothing else goes on from then on.      *)
WalkReachesReview ==
  \A p \in Procs :
    /\ op[p].pc = "walk"
    /\ row.state \in RepairableStates
    /\ row.active \in policyMet
    /\ {row.active} \X GateStages \subseteq passing
    /\ [](\A q \in Procs \ {p} : op[q].pc = "idle")
    ~> row.state = "ReadyForApproval"

=============================================================================
