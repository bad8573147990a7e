------------------------------ MODULE Release ------------------------------
(***************************************************************************)
(* The exit of a job: the obligations of a candidate and who writes their  *)
(* status, the release snapshot assembled from the gates and obligations   *)
(* of the active candidate, and the privileged operations with the         *)
(* recovery of those that a crash has interrupted.                         *)
(*                                                                         *)
(* One action is one store call with the plain code up to the next; reads  *)
(* of rows that never change are taken with the call before.  Where the    *)
(* job stands, the event log and the evidence are in JobService and        *)
(* GateEvidence; here a capture is what it does to the tables that a       *)
(* release reads.                                                          *)
(***************************************************************************)
EXTENDS Integers, Sequences, FiniteSets, SequencesExt, FiniteSetsExt

CONSTANTS
  Procs,        \* requests in flight
  Fingerprints, \* the candidates of the job
  PlannedGates, \* how many checks the adapter plans for a candidate
  Templates,    \* the obligations it derives, by their requirement
  Known,        \* the requirements its evaluator rules on
  Authority,    \* the authority of the reference of a requirement
  Verdicts,     \* evidence statuses that a policy evaluation may end with
  Outcomes,     \* the outcomes that are recorded
  Threshold,    \* interrupt_threshold
  MaxAge,       \* bound: the age of an operation
  MaxRequests,  \* bound: requests
  MaxFailures   \* bound: requests that stop half way

ASSUME TemplatesAssumption ==
  /\ Templates \in Seq(STRING) /\ IsInjective(Templates)
  /\ DOMAIN Authority = Range(Templates)
ASSUME BoundsAssumption ==
  /\ PlannedGates \in Nat /\ MaxRequests \in Nat /\ MaxFailures \in Nat
  /\ Threshold \in Nat /\ MaxAge \in Nat /\ MaxAge > Threshold

VARIABLES
  active,       \* active_candidate of the projection, None before
  gates,        \* gate_definitions
  checks,       \* check_definitions, by the id of their gate
  obligations,  \* obligations, in the order of their ids
  releases,     \* release_candidates, in the order of their rowid
  operations,   \* privileged operations
  minted,       \* ids minted so far
  op,           \* what each request in flight is doing
  requests,     \* how many requests were sent
  failures,     \* how many have stopped half way
  answers,      \* the snapshots that requests were answered with
  captured      \* history: candidates of which a capture ran to its end

tables == <<gates, checks, obligations, releases, operations>>
bounds == <<requests, failures>>
vars == <<active, tables, minted, op, bounds, answers, captured>>

None == "none"

-----------------------------------------------------------------------------
(* Obligations.                                                            *)

Statuses == {"NotEvaluated", "Pass", "Fail", "RequiresReview", "ExceptionApproved"}

ASSUME OutcomesAssumption == Outcomes \subseteq {"Pass", "Fail", "RequiresReview"}

(* evidence: the rows the obligation cites, here the request that          *)
(* observed them and their status.  judged (history): whether the status   *)
(* is the verdict of an evaluation.                                        *)
Obligation(id, c, requirement) ==
  [id |-> id, candidate |-> c, requirement |-> requirement,
   status |-> "NotEvaluated", evidence |-> {}, judged |-> FALSE]

(* Both put_obligation, on an id that is there, and update_obligation      *)
(* write the whole row.                                                    *)
Write(o) ==
  obligations' = [i \in DOMAIN obligations |->
                    IF obligations[i].id = o.id THEN o ELSE obligations[i]]

verdict_from_evidence_status_Lenient(status) ==   \* mutant: no answer is a pass
  CASE status \in {"Pass", "NotApplicable", "Inconclusive"} -> {"Pass"}
    [] status = "Fail" -> {"Fail"}
    [] OTHER -> {}

(* The verdict, as a set: empty if the evaluator has none. *)
verdict_from_evidence_status(status) ==
  CASE status \in {"Pass", "NotApplicable"} -> {"Pass"}
    [] status = "Fail" -> {"Fail"}
    [] OTHER -> {}

evaluate_obligation(requirement, status) ==
  IF requirement \in Known THEN verdict_from_evidence_status(status) ELSE {}

-----------------------------------------------------------------------------
(* Requests.                                                               *)

(* What a handler holds: what it has to store one by one, the ids of what  *)
(* it has to visit in their order, the row it is about to write.           *)
Idle ==
  [pc |-> "idle", id |-> 0, candidate |-> None, todo |-> <<>>, left |-> {},
   row |-> {}, outcome |-> "", gates |-> {}, duties |-> {}, settled |-> FALSE,
   since |-> {}, found |-> 0]

At(p, pc) == op[p].pc = pc

Return(p) == op' = [op EXCEPT ![p] = Idle]

Goto(p, pc) == op' = [op EXCEPT ![p].pc = pc]

Capturing(c) ==
  \E q \in Procs : op[q].candidate = c /\
    op[q].pc \in {"planned?", "gate", "check", "derived?", "duty"}

Init ==
  /\ active = None
  /\ gates = {} /\ checks = {} /\ obligations = <<>> /\ releases = <<>>
  /\ operations = {} /\ minted = 0
  /\ op = [p \in Procs |-> Idle]
  /\ requests = 0 /\ failures = 0 /\ answers = {} /\ captured = {}

Writing(p) == op[p].pc \in {"record", "verdict", "abandon"}

(* op, with the history of those about to write what they have read: what  *)
(* somebody else has written since.                                        *)
Noticed(kind, id) ==
  [p \in Procs |-> IF Writing(p)
                   THEN [op[p] EXCEPT !.since = @ \cup {<<kind, id>>}] ELSE op[p]]

(* A request arrives. *)
Accept(p, pc, c, requirement, outcome) ==
  /\ At(p, "idle") /\ requests < MaxRequests
  /\ op' = [op EXCEPT ![p] = [Idle EXCEPT !.pc = pc, !.candidate = c,
              !.id = IF pc = "evaluate" THEN requests + 1 ELSE 0,
              !.todo = <<requirement>>, !.outcome = outcome]]
  /\ requests' = requests + 1
  /\ UNCHANGED <<active, tables, minted, failures, answers, captured>>

Receive(p) ==
  \/ \E c \in Fingerprints : Accept(p, "activate", c, "", "")
  \/ Accept(p, "release", None, "", "")
  \/ \E t \in Range(Templates), o \in Outcomes : Accept(p, "outcome", None, t, o)
  \/ \E v \in Verdicts : Accept(p, "evaluate", None, "", v)
  \/ Accept(p, "recover", None, "", "")

(* A store call fails, or the daemon stops: what was written stays. *)
Stop(p) ==
  /\ ~At(p, "idle") /\ failures < MaxFailures
  /\ Return(p)
  /\ failures' = failures + 1
  /\ UNCHANGED <<active, tables, minted, requests, answers, captured>>

-----------------------------------------------------------------------------
(* derive_candidate_plans.                                                 *)

(* The candidate is active before its plans are there. *)
ActivateCandidate(p) ==
  /\ At(p, "activate")
  /\ active' = op[p].candidate
  /\ Goto(p, "planned?")
  /\ UNCHANGED <<tables, minted, bounds, answers, captured>>

(* Checks of the candidate, and if there are none, those to store. *)
LookForChecks(p) ==
  /\ At(p, "planned?")
  /\ LET planned == \E g \in gates : g.candidate = op[p].candidate /\ g.id \in checks
     IN  IF planned \/ PlannedGates = 0
         THEN Goto(p, "derived?") /\ UNCHANGED minted
         ELSE /\ op' = [op EXCEPT ![p].pc = "gate",
                          ![p].todo = [i \in 1..PlannedGates |-> minted + i]]
              /\ minted' = minted + PlannedGates
  /\ UNCHANGED <<active, tables, bounds, answers, captured>>

StoreGate(p) ==
  /\ At(p, "gate")
  /\ gates' = gates \cup {[id |-> Head(op[p].todo), candidate |-> op[p].candidate]}
  /\ Goto(p, "check")
  /\ UNCHANGED <<active, checks, obligations, releases, operations, minted,
                 bounds, answers, captured>>

StoreCheck(p) ==
  /\ At(p, "check")
  /\ checks' = checks \cup {Head(op[p].todo)}
  /\ op' = [op EXCEPT ![p].todo = Tail(@),
              ![p].pc = IF Len(op[p].todo) = 1 THEN "derived?" ELSE "gate"]
  /\ UNCHANGED <<active, gates, obligations, releases, operations, minted,
                 bounds, answers, captured>>

LookForObligations(p) ==
  /\ At(p, "derived?")
  /\ IF (\E i \in DOMAIN obligations : obligations[i].candidate = op[p].candidate)
         \/ Templates = <<>>
     THEN /\ Return(p) /\ UNCHANGED minted
          /\ captured' = captured \cup {op[p].candidate}
     ELSE /\ op' = [op EXCEPT ![p].pc = "duty", ![p].todo =
               [i \in DOMAIN Templates |->
                  Obligation(minted + i, op[p].candidate, Templates[i])]]
          /\ minted' = minted + Len(Templates) /\ UNCHANGED captured
  /\ UNCHANGED <<active, tables, bounds, answers>>

StoreObligation_Arrival(p) ==   \* mutant: listed as they were stored
  /\ At(p, "duty")
  /\ obligations' = Append(obligations, Head(op[p].todo))
  /\ IF Len(op[p].todo) = 1
     THEN Return(p) /\ captured' = captured \cup {op[p].candidate}
     ELSE op' = [op EXCEPT ![p].todo = Tail(@)] /\ UNCHANGED captured
  /\ UNCHANGED <<active, gates, checks, releases, operations, minted, bounds,
                 answers>>

(* Where a row is listed: ORDER BY its id. *)
PlaceOf(o) == Cardinality({i \in DOMAIN obligations : obligations[i].id < o.id}) + 1

(* put_obligation of one more. *)
StoreObligation(p) ==
  /\ At(p, "duty")
  /\ LET o == Head(op[p].todo)
     IN  obligations' = InsertAt(obligations, PlaceOf(o), o)
  /\ IF Len(op[p].todo) = 1
     THEN Return(p) /\ captured' = captured \cup {op[p].candidate}
     ELSE op' = [op EXCEPT ![p].todo = Tail(@)] /\ UNCHANGED captured
  /\ UNCHANGED <<active, gates, checks, releases, operations, minted, bounds,
                 answers>>

-----------------------------------------------------------------------------
(* CreateReleaseCandidate, and the query that the tool asks after it.      *)

(* The projection, and the candidate it names. *)
ReadActive(p) ==
  /\ At(p, "release")
  /\ IF active = None THEN Return(p)
     ELSE op' = [op EXCEPT ![p].pc = "assembled?", ![p].candidate = active,
                   ![p].settled = active \in captured /\ ~Capturing(active)]
  /\ UNCHANGED <<active, tables, minted, bounds, answers, captured>>

(* Idempotent on the fingerprint: an assembled snapshot is not renewed. *)
LookForSnapshot(p) ==
  /\ At(p, "assembled?")
  /\ Goto(p, IF \E i \in DOMAIN releases : releases[i].source = op[p].candidate
             THEN "query" ELSE "gates")
  /\ UNCHANGED <<active, tables, minted, bounds, answers, captured>>

ReadGates_OfTheJob(p) ==   \* mutant: not filtered by the fingerprint
  /\ At(p, "gates")
  /\ op' = [op EXCEPT ![p].pc = "duties", ![p].gates = {g.id : g \in gates}]
  /\ UNCHANGED <<active, tables, minted, bounds, answers, captured>>

(* list_gates_for_job; definitions do not change. *)
ReadGates(p) ==
  /\ At(p, "gates")
  /\ op' = [op EXCEPT ![p].pc = "duties", ![p].gates =
              {g.id : g \in {h \in gates : h.candidate = op[p].candidate}}]
  /\ UNCHANGED <<active, tables, minted, bounds, answers, captured>>

DutiesOf(c) == {o \in Range(obligations) : o.candidate = c}

(* list_obligations_for_job; neither candidate nor reference changes. *)
ReadDuties(p) ==
  /\ At(p, "duties")
  /\ op' = [op EXCEPT ![p].pc = "assemble",
              ![p].duties = {[id |-> o.id, authority |-> Authority[o.requirement]] :
                               o \in DutiesOf(op[p].candidate)}]
  /\ UNCHANGED <<active, tables, minted, bounds, answers, captured>>

(* put_release_candidate, under an id of its own. *)
PutSnapshot(p) ==
  /\ At(p, "assemble")
  /\ releases' = Append(releases,
       [id |-> minted + 1, source |-> op[p].candidate, gate_ids |-> op[p].gates,
        obligation_ids |-> {d.id : d \in op[p].duties},
        authorities |-> {d.authority : d \in op[p].duties},
        settled |-> op[p].settled])
  /\ minted' = minted + 1
  /\ Goto(p, "query")
  /\ UNCHANGED <<active, gates, checks, obligations, operations, bounds, answers,
                 captured>>

(* get_release_candidate_for_job reads the projection anew. *)
QueryActive(p) ==
  /\ At(p, "query")
  /\ op' = [op EXCEPT ![p].pc = "answer", ![p].candidate = active]
  /\ UNCHANGED <<active, tables, minted, bounds, answers, captured>>

OfSource(c) == {i \in DOMAIN releases : releases[i].source = c}

Answered_Last(c) ==   \* mutant: the last row
  IF OfSource(c) = {} THEN {} ELSE {releases[Max(OfSource(c))].id}

(* The first row of the fingerprint; none is an error. *)
Answered(c) ==
  IF OfSource(c) = {} THEN {} ELSE {releases[Min(OfSource(c))].id}

QuerySnapshot(p) ==
  /\ At(p, "answer")
  /\ answers' = answers \cup {<<op[p].candidate, id>> : id \in Answered(op[p].candidate)}
  /\ Return(p)
  /\ UNCHANGED <<active, tables, minted, bounds, captured>>

-----------------------------------------------------------------------------
(* RecordObligationOutcome, and derive_obligation_verdicts at the end of a *)
(* policy evaluation.                                                      *)

(* The active candidate and the obligations of the job. *)
ReadOutcome(p) ==
  /\ At(p, "outcome")
  /\ LET ids == {o.id : o \in {d \in DutiesOf(active) :
                                  d.requirement = op[p].todo[1]}}
     IN  IF ids = {} THEN Return(p)
         ELSE op' = [op EXCEPT ![p].pc = "match", ![p].candidate = active,
                       ![p].found = Min(ids)]
  /\ UNCHANGED <<active, tables, minted, bounds, answers, captured>>

RowOf(id) == CHOOSE o \in Range(obligations) : o.id = id

MatchOutcome_Overrules(p) ==   \* mutant: an approved exception is no obstacle
  /\ At(p, "match")
  /\ op' = [op EXCEPT ![p].pc = "record", ![p].since = {},
              ![p].row = {[RowOf(op[p].found) EXCEPT !.status = op[p].outcome,
                                                     !.judged = FALSE]}]
  /\ UNCHANGED <<active, tables, minted, bounds, answers, captured>>

(* The row as it is now; an approved exception is refused. *)
MatchOutcome(p) ==
  /\ At(p, "match")
  /\ LET o == RowOf(op[p].found)
     IN  IF o.status = "ExceptionApproved" THEN Return(p)
         ELSE op' = [op EXCEPT ![p].pc = "record", ![p].since = {},
                       ![p].row = {[o EXCEPT !.status = op[p].outcome,
                                             !.judged = FALSE]}]
  /\ UNCHANGED <<active, tables, minted, bounds, answers, captured>>

RecordOutcome(p) ==
  /\ At(p, "record")
  /\ \E o \in op[p].row :
       Write(o) /\ op' = [Noticed("obligation", o.id) EXCEPT ![p] = Idle]
  /\ UNCHANGED <<active, gates, checks, releases, operations, minted, bounds,
                 answers, captured>>

(* A policy evaluation has run on the active candidate, and its evidence   *)
(* is stored: the obligations of the job.                                  *)
ListVerdicts(p) ==
  /\ At(p, "evaluate")
  /\ IF active = None \/ DutiesOf(active) = {} THEN Return(p)
     ELSE op' = [op EXCEPT ![p].pc = "judge", ![p].candidate = active,
                   ![p].left = {o.id : o \in DutiesOf(active)}]
  /\ UNCHANGED <<active, tables, minted, bounds, answers, captured>>

(* The one of those listed whose turn it is; they are visited by their ids. *)
Turn(p) == Min(op[p].left)

(* To the next of those listed, if there is one. *)
NextItem(p, pc) ==
  LET left == op[p].left \ {Turn(p)}
  IN  IF left = {} THEN Idle
      ELSE [op[p] EXCEPT !.left = left, !.row = {}, !.pc = pc]

Judged(o, verdict, e) ==
  [o EXCEPT !.status = verdict, !.evidence = @ \cup {e}, !.judged = TRUE]

(* One obligation is read and judged; one without a verdict stays. *)
Judge(p) ==
  /\ At(p, "judge")
  /\ LET o == RowOf(Turn(p))
         verdict == evaluate_obligation(o.requirement, op[p].outcome)
         e == [id |-> op[p].id, status |-> op[p].outcome]
     IN  op' = [op EXCEPT ![p] =
           IF verdict = {} THEN NextItem(p, "judge")
           ELSE [op[p] EXCEPT !.pc = "verdict", !.since = {},
                              !.row = {Judged(o, v, e) : v \in verdict}]]
  /\ UNCHANGED <<active, tables, minted, bounds, answers, captured>>

(* put_obligation, over whatever is there. *)
PutVerdict(p) ==
  /\ At(p, "verdict")
  /\ \E o \in op[p].row :
       /\ Write(o)
       /\ op' = [Noticed("obligation", o.id) EXCEPT ![p] = NextItem(p, "judge")]
  /\ UNCHANGED <<active, gates, checks, releases, operations, minted, bounds,
                 answers, captured>>

(* The privileged service, which is not part of this program, records an   *)
(* approval and writes the exception.                                      *)
ApproveException(i) ==
  /\ obligations[i].status # "ExceptionApproved" /\ requests < MaxRequests
  /\ requests' = requests + 1
  /\ obligations' = [obligations EXCEPT ![i].status = "ExceptionApproved",
                                         ![i].judged = FALSE]
  /\ op' = Noticed("obligation", obligations[i].id)
  /\ UNCHANGED <<active, gates, checks, releases, operations, minted, failures,
                 answers, captured>>

-----------------------------------------------------------------------------
(* Privileged operations.  The service that carries them out is not part   *)
(* of this program; it moves them by the methods of PrivilegedOperation.   *)

AuthorizationStates ==
  {"Proposed", "Authorized", "Executing", "Succeeded", "Failed", "Cancelled"}

is_terminal(s) == s \in {"Succeeded", "Failed", "Cancelled"}

(* authorized, executing, succeeded, failed and cancelled: the states each *)
(* method leads to from s.                                                 *)
Steps(s) ==
  [Proposed |-> {"Authorized"}, Authorized |-> {"Executing"},
   Executing |-> {"Succeeded", "Failed"}, Succeeded |-> {}, Failed |-> {},
   Cancelled |-> {}][s] \cup (IF is_terminal(s) THEN {} ELSE {"Cancelled"})

others == <<active, gates, checks, obligations, releases, minted, failures,
            answers, captured>>

Propose ==
  /\ active # None /\ operations = {} /\ requests < MaxRequests
  /\ operations' = {[id |-> 1, candidate |-> active, authorization |-> "Proposed",
                     age |-> 0]}
  /\ requests' = requests + 1
  /\ UNCHANGED <<op, others>>

(* The service reads and writes in one go. *)
Perform(o, s) ==
  /\ s \in Steps(o.authorization)
  /\ operations' = {[o EXCEPT !.authorization = s]}
  /\ op' = Noticed("operation", o.id)
  /\ UNCHANGED <<requests, others>>

(* Time passes. *)
Age(o) ==
  /\ o.age < MaxAge
  /\ operations' = {[o EXCEPT !.age = @ + 1]}
  /\ UNCHANGED <<op, requests, others>>

(* recover_interrupted: list_executing_operations. *)
ListExecuting(p) ==
  /\ At(p, "recover")
  /\ LET ids == {o.id : o \in {x \in operations : x.authorization = "Executing"}}
     IN  IF ids = {} THEN Return(p)
         ELSE op' = [op EXCEPT ![p].pc = "inspect", ![p].left = ids]
  /\ UNCHANGED <<operations, requests, others>>

abandon_operation(o) ==
  IF o.authorization = "Executing"
  THEN [o EXCEPT !.authorization = "Failed"] ELSE o

(* get_operation: abandoned if it is too old, left alone if it is not. *)
Inspect(p) ==
  /\ At(p, "inspect")
  /\ \E o \in operations :
       /\ o.id = Turn(p)
       /\ op' = [op EXCEPT ![p] =
            IF o.age > Threshold
            THEN [op[p] EXCEPT !.pc = "abandon", !.since = {},
                               !.row = {abandon_operation(o)}]
            ELSE NextItem(p, "inspect")]
  /\ UNCHANGED <<operations, requests, others>>

(* update_operation, with the row that was read. *)
Abandon(p) ==
  /\ At(p, "abandon")
  /\ operations' = {[o EXCEPT !.authorization = r.authorization] :
                      o \in operations, r \in op[p].row}
  /\ op' = [Noticed("operation", Turn(p)) EXCEPT
              ![p] = NextItem(p, "inspect")]
  /\ UNCHANGED <<requests, others>>

-----------------------------------------------------------------------------
Work(p) ==
  \/ ActivateCandidate(p) \/ LookForChecks(p) \/ StoreGate(p) \/ StoreCheck(p)
  \/ LookForObligations(p) \/ StoreObligation(p)
  \/ ReadActive(p) \/ LookForSnapshot(p) \/ ReadGates(p) \/ ReadDuties(p)
  \/ PutSnapshot(p) \/ QueryActive(p) \/ QuerySnapshot(p)
  \/ ReadOutcome(p) \/ MatchOutcome(p) \/ RecordOutcome(p)
  \/ ListVerdicts(p) \/ Judge(p) \/ PutVerdict(p)
  \/ ListExecuting(p) \/ Inspect(p) \/ Abandon(p)

Next ==
  \/ \E p \in Procs : Receive(p) \/ Work(p) \/ Stop(p)
  \/ \E i \in DOMAIN obligations : ApproveException(i)
  \/ Propose
  \/ \E o \in operations : Age(o) \/ \E s \in AuthorizationStates : Perform(o, s)

Spec == Init /\ [][Next]_vars

-----------------------------------------------------------------------------
(* Properties.                                                             *)

Candidates == Fingerprints \cup {None}

TypeOK ==
  /\ active \in Candidates
  /\ gates \subseteq [id : 1..minted, candidate : Fingerprints]
  /\ checks \subseteq {g.id : g \in gates}
  /\ \A o \in Range(obligations) :
       /\ o.id \in 1..minted /\ o.candidate \in Fingerprints
       /\ o.requirement \in Range(Templates) /\ o.status \in Statuses
       /\ o.judged \in BOOLEAN
  /\ \A i, j \in DOMAIN obligations : i < j => obligations[i].id < obligations[j].id
  /\ \A r \in Range(releases) : r.id \in 1..minted /\ r.source \in Fingerprints
  /\ Cardinality(operations) <= 1
  /\ \A o \in operations :
       o.authorization \in AuthorizationStates /\ o.age \in 0..MaxAge
  /\ \A p \in Procs : op[p].candidate \in Candidates
  /\ requests \in 0..MaxRequests /\ failures \in 0..MaxFailures

(* Everybody who is answered with the snapshot of a candidate is answered  *)
(* with the same one, also when calls that overlap have assembled two: a   *)
(* caller that holds only the job has one answer (service.rs, 1407-1419).  *)
AnswersAgree == \A a, b \in answers : a[1] = b[1] => a[2] = b[2]

(* A snapshot names gates and obligations of its own candidate only, with  *)
(* the authorities of those obligations, whatever else became active while *)
(* it was assembled; and when a capture of the candidate had run to its    *)
(* end and none was at work as the assembly began, it names all of them,   *)
(* those that are there at any later time included.                        *)
SnapshotStaysWhole ==
  \A r \in Range(releases) :
    LET own == {g.id : g \in {h \in gates : h.candidate = r.source}}
        duties == DutiesOf(r.source)
    IN  /\ r.gate_ids \subseteq own
        /\ r.obligation_ids \subseteq {o.id : o \in duties}
        /\ r.authorities = {Authority[o.requirement] :
                              o \in {d \in duties : d.id \in r.obligation_ids}}
        /\ r.settled => r.gate_ids = own /\ r.obligation_ids = {o.id : o \in duties}

(* The verdict of an evaluation stands with evidence that says so, on a    *)
(* requirement the adapter knows, whoever else has written the row whole   *)
(* in the meantime: nothing passes because the evaluator could not say.    *)
VerdictRestsOnEvidence ==
  \A o \in Range(obligations) : o.judged =>
    /\ o.requirement \in Known
    /\ \E e \in o.evidence :
         e.status \in [Pass |-> {"Pass", "NotApplicable"}, Fail |-> {"Fail"}][o.status]

(* What was decided is not undone by a call that could know: the record of *)
(* an outcome replaces an approved exception, and a recovery the outcome   *)
(* of an operation, only if the decision came after they had read the row. *)
DecisionsStand ==
  [][ /\ \A p \in Procs, o \in Range(obligations) :
          RecordOutcome(p) /\ o.status = "ExceptionApproved" =>
            o \in Range(obligations') \/ <<"obligation", o.id>> \in op[p].since
      /\ \A p \in Procs, o \in operations :
          Abandon(p) /\ is_terminal(o.authorization) =>
            o \in operations' \/ <<"operation", o.id>> \in op[p].since ]_vars

=============================================================================
