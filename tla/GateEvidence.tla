--------------------------- MODULE GateEvidence ----------------------------
(***************************************************************************)
(* The tables between a check run and the gates the transition engine      *)
(* reads, for one candidate of one job: the gate and check definitions a   *)
(* capture materialises from the adapter's plans, the evidence rows, and   *)
(* the gate results aggregated from them.  JobService has this component   *)
(* only in summary.                                                        *)
(*                                                                         *)
(* As there, one action is one store call with the plain code up to the    *)
(* next.  Ids are UUIDv7, ordered as they were minted; the clock is taken  *)
(* to advance, so that evidence is ordered by its id as by its time.       *)
(***************************************************************************)
EXTENDS TransitionEngine, EvidenceGates, Sequences, FiniteSets

CONSTANTS
  Procs,         \* requests in flight
  Plan,          \* the planned checks of the adapter, in its order
  Verdicts,      \* evidence statuses a check run may end with
  Recorded,      \* evidence statuses RecordCheckEvidence is given
  MaxRequests,   \* bound: requests
  MaxFailures    \* bound: handlers that stop half way

ASSUME PlanAssumption ==
  Plan \in Seq([tool : STRING, kind : EvidenceKinds, mandatory : BOOLEAN])
ASSUME VerdictsAssumption ==
  Verdicts \subseteq EvidenceStatuses /\ Recorded \subseteq EvidenceStatuses
ASSUME BoundsAssumption == MaxRequests \in Nat /\ MaxFailures \in Nat

VARIABLES
  gates,        \* gate_definitions
  checks,       \* check_definitions, each with the definition of its gate
  evidence,     \* evidence rows
  results,      \* gate_results, by gate id
  minted,       \* ids minted so far
  op,           \* what each request in flight is doing
  requests,     \* how many requests were sent
  failures,     \* how many handlers have stopped half way
  overlapped    \* history: whether two requests were ever in flight at once

vars == <<gates, checks, evidence, results, minted, op, requests, failures,
          overlapped>>

-----------------------------------------------------------------------------
Candidate == "candidate"    \* the fingerprint all of this is bound to

Definitions ==
  [id : Nat, candidate : {Candidate}, tool : STRING, kind : EvidenceKinds,
   stage : GateStages, mandatory : BOOLEAN, minimum : {"Pass"}]

(* run is the check whose run observed it, 0 if it was recorded by hand. *)
EvidenceRows ==
  [id : Nat, kind : EvidenceKinds, status : EvidenceStatuses, run : Nat]

(* A gate result, with the ids of the evidence that justifies it. *)
Results == [candidate : {Candidate}, status : GateStatuses, cited : SUBSET Nat]

(* The gate of the i-th planned check. *)
GateOf(i, id) ==
  [id |-> id, candidate |-> Candidate, tool |-> Plan[i].tool,
   kind |-> Plan[i].kind, stage |-> gate_stage_for[Plan[i].kind],
   mandatory |-> Plan[i].mandatory, minimum |-> "Pass"]

plan_to_materialised_OneId ==   \* mutant: the id is minted once, for the plan
  {GateOf(i, minted + 1) :
     i \in {j \in DOMAIN Plan : Plan[j].kind \in DOMAIN gate_stage_for}}

(* plan_to_materialised: a gate of its own for each planned check whose    *)
(* kind has a stage, with ids in the order of the plan.                    *)
plan_to_materialised ==
  {GateOf(i, minted + i) :
     i \in {j \in DOMAIN Plan : Plan[j].kind \in DOMAIN gate_stage_for}}

(* Of definitions still to be stored, the next one, as a set. *)
NextOf(todo) == {d \in todo : \A e \in todo : d.id <= e.id}

-----------------------------------------------------------------------------
(* Aggregation. *)

latest_evidence_for_check_Oldest(check) ==   \* mutant: keeps the first row
  {e \in evidence : /\ e.kind = check.kind
                    /\ \A f \in evidence : f.kind = check.kind => e.id <= f.id}

(* latest_evidence_for_check: of the check's kind, the one observed last; a *)
(* set of at most one row.                                                  *)
latest_evidence_for_check(check) ==
  {e \in evidence : /\ e.kind = check.kind
                    /\ \A f \in evidence : f.kind = check.kind => f.id <= e.id}

(* combine_status over all of them: the status that commits to most. *)
combine_status(statuses) ==
  LET rank == [NotEvaluated |-> 0, NotApplicable |-> 1, Pass |-> 2,
               ReviewRequired |-> 3, Fail |-> 4, Blocked |-> 5]
  IN  CHOOSE s \in statuses : \A t \in statuses : rank[t] <= rank[s]

(* evaluate_gate, over the checks of the gate that are stored by now. *)
evaluate_gate(gate) ==
  LET rows == UNION {latest_evidence_for_check(c) :
                       c \in {d \in checks : d.id = gate}}
  IN  [candidate |-> Candidate,
       status |-> combine_status({"NotEvaluated"} \cup
                    {evidence_to_gate_status(e.status) : e \in rows}),
       cited |-> {e.id : e \in rows}]

-----------------------------------------------------------------------------
Idle == [pc |-> "idle", todo |-> {}, check |-> 0, row |-> {}, result |-> {}]

Proceed(p, next) == op' = [op EXCEPT ![p] = next]

Return(p) == Proceed(p, Idle)

tables == <<gates, checks, evidence, results>>
bounds == <<requests, failures, overlapped>>

Busy == \E q \in Procs : op[q].pc # "idle"

(* A request arrives, and its handler gets to its first call. *)
Accept(p, request) ==
  /\ op[p].pc = "idle"
  /\ requests < MaxRequests
  /\ requests' = requests + 1
  /\ overlapped' = (overlapped \/ Busy)
  /\ Proceed(p, request)
  /\ UNCHANGED <<tables, minted, failures>>

Init ==
  /\ gates = {}
  /\ checks = {}
  /\ evidence = {}
  /\ results = << >>
  /\ minted = 0
  /\ op = [p \in Procs |-> Idle]
  /\ requests = 0
  /\ failures = 0
  /\ overlapped = FALSE

-----------------------------------------------------------------------------
(* The part of derive_candidate_plans that is about checks. *)
Derive(p) == Accept(p, [Idle EXCEPT !.pc = "planned"])

AlreadyPlanned_Never == FALSE   \* mutant: no look at what is there

(* Some check of the candidate is enough. *)
AlreadyPlanned == checks # {}

LookForChecks(p) ==
  /\ op[p].pc = "planned"
  /\ IF AlreadyPlanned \/ plan_to_materialised = {}
     THEN Return(p) /\ UNCHANGED minted
     ELSE /\ Proceed(p, [Idle EXCEPT !.pc = "definition",
                                     !.todo = plan_to_materialised])
          /\ minted' = minted + Len(Plan)
  /\ UNCHANGED <<tables, bounds>>

(* persist_materialised: for each of them the gate, then its check. *)
PutDefinition(p) ==
  /\ op[p].pc = "definition"
  /\ gates' = gates \cup NextOf(op[p].todo)
  /\ Proceed(p, [op[p] EXCEPT !.pc = "check"])
  /\ UNCHANGED <<checks, evidence, results, minted, bounds>>

PutCheck(p) ==
  /\ op[p].pc = "check"
  /\ checks' = checks \cup NextOf(op[p].todo)
  /\ LET rest == op[p].todo \ NextOf(op[p].todo)
     IN  IF rest = {} THEN Return(p)
         ELSE Proceed(p, [op[p] EXCEPT !.pc = "definition", !.todo = rest])
  /\ UNCHANGED <<gates, evidence, results, minted, bounds>>

-----------------------------------------------------------------------------
(* check.run, of a check of the active candidate in a state that may run   *)
(* checks: the tool, the evidence of it, and the gate of the check.        *)
RunCheck(p, check) ==
  Accept(p, [Idle EXCEPT !.pc = "tool", !.check = check.id])

(* Evidence::new, in memory. *)
Observe(p, kind, status) ==
  /\ minted' = minted + 1
  /\ Proceed(p, [op[p] EXCEPT !.pc = "evidence",
                   !.row = {[id |-> minted + 1, kind |-> kind,
                             status |-> status, run |-> op[p].check]}])

(* The tool ends with a verdict, or the run has none to record. *)
ToolEnds(p) ==
  /\ op[p].pc = "tool"
  /\ \/ \E c \in checks, status \in Verdicts :
          c.id = op[p].check /\ Observe(p, c.kind, status)
     \/ Return(p) /\ UNCHANGED minted
  /\ UNCHANGED <<tables, bounds>>

(* put_evidence; what RecordCheckEvidence does ends here. *)
PutEvidence(p) ==
  /\ op[p].pc = "evidence"
  /\ evidence' = evidence \cup op[p].row
  /\ IF op[p].check = 0 THEN Return(p)
     ELSE Proceed(p, [op[p] EXCEPT !.pc = "evaluate"])
  /\ UNCHANGED <<gates, checks, results, minted, bounds>>

EvaluateGate(p) ==
  /\ op[p].pc = "evaluate"
  /\ Proceed(p, [op[p] EXCEPT !.pc = "result",
                              !.result = {evaluate_gate(op[p].check)}])
  /\ UNCHANGED <<tables, minted, bounds>>

(* put_gate_result: an upsert, whatever is there. *)
PutGateResult(p) ==
  /\ op[p].pc = "result"
  /\ \E result \in op[p].result :
       results' = [g \in DOMAIN results \cup {op[p].check} |->
                     IF g = op[p].check THEN result ELSE results[g]]
  /\ Return(p)
  /\ UNCHANGED <<gates, checks, evidence, minted, bounds>>

PlannedKinds == {Plan[i].kind : i \in DOMAIN Plan}

(* RecordCheckEvidence: a row of any kind and status, and no gate result;  *)
(* of a kind that no check is planned for, nobody would read it.           *)
RecordCheckEvidence(p, kind, status) ==
  /\ op[p].pc = "idle"
  /\ requests < MaxRequests
  /\ requests' = requests + 1
  /\ overlapped' = (overlapped \/ Busy)
  /\ Observe(p, kind, status)
  /\ UNCHANGED <<tables, failures>>

Fail(p) ==
  /\ op[p].pc # "idle"
  /\ failures < MaxFailures
  /\ failures' = failures + 1
  /\ Return(p)
  /\ UNCHANGED <<tables, minted, requests, overlapped>>

Next ==
  \E p \in Procs :
    \/ Derive(p) \/ LookForChecks(p) \/ PutDefinition(p) \/ PutCheck(p)
    \/ \E check \in checks : RunCheck(p, check)
    \/ ToolEnds(p) \/ PutEvidence(p) \/ EvaluateGate(p) \/ PutGateResult(p)
    \/ \E kind \in PlannedKinds, status \in Recorded :
         RecordCheckEvidence(p, kind, status)
    \/ Fail(p)

Spec == Init /\ [][Next]_vars

-----------------------------------------------------------------------------
(* Properties.                                                             *)

Ops ==
  [pc : {"idle", "planned", "definition", "check", "tool", "evidence",
         "evaluate", "result"},
   todo : SUBSET Definitions, check : Nat, row : SUBSET EvidenceRows,
   result : SUBSET Results]

(* Every variable has the shape the actions assume, a check is stored only *)
(* after its gate, and no two rows of a table share an id.                 *)
TypeOK ==
  /\ gates \subseteq Definitions
  /\ checks \subseteq gates
  /\ \A d, e \in gates : d.id = e.id => d = e
  /\ evidence \subseteq EvidenceRows
  /\ \A e, f \in evidence : e.id = f.id => e = f
  /\ DOMAIN results \subseteq {c.id : c \in checks}
  /\ \A g \in DOMAIN results : results[g] \in Results
  /\ minted \in Nat
  /\ op \in [Procs -> Ops]
  /\ requests \in 0..MaxRequests
  /\ failures \in 0..MaxFailures
  /\ overlapped \in BOOLEAN

(* What the engine makes of a stage of the candidate: nothing blocks it. *)
Open(stage) ==
  check_gates([gates |-> {stage}], Candidate,
              [defs |-> gates, results |-> results]) = {}

(* Whatever interleaves and however handlers stop, a stage is open only on *)
(* a mandatory gate whose result cites a stored, passing piece of evidence *)
(* of the kind the gate asks for.                                          *)
OpenStagesRestOnEvidence ==
  \A stage \in {s \in GateStages : Open(s)} :
    \E d \in gates : /\ d.stage = stage /\ d.mandatory
                     /\ d.id \in DOMAIN results
                     /\ \E e \in evidence : /\ e.id \in results[d.id].cited
                                            /\ e.kind = d.kind
                                            /\ e.status = "Pass"

(* The runs of a check that have left evidence, and the last of them. *)
RunsOf(check) == {e \in evidence : e.run = check.id}

LastRun(check) == {e \in RunsOf(check) : \A f \in RunsOf(check) : f.id <= e.id}

(* While requests come one at a time, and stop half way or not, a gate is  *)
(* judged by a run of its own check, although evidence is looked up by     *)
(* kind and other checks, and RecordCheckEvidence, leave that kind too.    *)
VerdictsAreOwn ==
  ~overlapped => \A c \in checks :
    c.id \in DOMAIN results =>
      \E e \in RunsOf(c) : results[c.id].cited = {e.id}

(* And if none stops, a stage is open exactly when its mandatory checks    *)
(* were run, and passed the last time.                                     *)
StageOpensOnLastRun ==
  ~overlapped /\ failures = 0 /\ ~Busy =>
    \A stage \in GateStages :
      LET mandatory == {c \in checks : c.stage = stage /\ c.mandatory}
      IN  Open(stage) <=>
            /\ mandatory # {}
            /\ \A c \in mandatory : \E e \in LastRun(c) : e.status = "Pass"

=============================================================================
