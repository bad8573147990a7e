-------------------------- MODULE JobService_proofs --------------------------
(***************************************************************************)
(* Theorems about JobService, for every number of concurrent requests, any *)
(* candidates, and any bounds.  The inductive invariant is IInv: types,    *)
(* and what every handler in flight knows of the row (HandlersKnow), and   *)
(* then what it knows of the gates (GatesRead).                            *)
(*                                                                         *)
(* The second part is about the event log, which tells one history for     *)
(* every number of requests, and wherever they stop.  A handler writes the *)
(* row first and appends the event later, so the invariant speaks of the   *)
(* events in the log and of those still on their way to it as one account. *)
(* The last sections are about requests that come one at a time (Alone):   *)
(* what the log loses when handlers stop half way, where a job that is     *)
(* resumed goes, and what a replay of the log makes of it.                 *)
(***************************************************************************)
EXTENDS ProjectionReplay, SequenceTheorems, FiniteSetTheorems,
        WellFoundedInduction, TLAPS

IInv == TypeOK /\ HandlersKnow

(* The names of the states are all different from the marks for nothing.   *)
LEMMA StateNames ==
  /\ "None" \notin JobStates
  /\ RepairableStates \subseteq FlowStates
  /\ FlowStates \subseteq JobStates
  /\ ExceptionalStates \subseteq JobStates
  /\ SyntheticTargets \subseteq JobStates
  /\ JobStates = FlowStates \cup TerminalStates \cup ExceptionalStates
  /\ "HumanReviewRequired" \in ExceptionalStates
  /\ FlowStates \cap ExceptionalStates = {}
  /\ FlowStates \cap TerminalStates = {}
BY DEF JobStates, FlowStates, TerminalStates, ExceptionalStates,
       RepairableStates, DecidedStates, SyntheticTargets

(* What the table says of every one of its rows. *)
LEMMA RuleTyping ==
  ASSUME NEW rule \in TRANSITION_RULES
  PROVE  /\ rule.from \in FlowStates
         /\ rule.to \in JobStates
         /\ rule.gates \subseteq GateStages
BY DEF TRANSITION_RULES, GateRule, JobStates, FlowStates, TerminalStates,
       GateStages

(* Idle is an operation, and it knows nothing that could go stale. *)
LEMMA IdleKnows ==
  /\ Idle \in Ops
  /\ Idle.pending = << >>
  /\ \A r : Knows(Idle, r)
<1>1. Idle \in Ops
  BY EmptySeq DEF Idle, Ops, Commands, Calls, ResumeRecords, NoResume
<1>2. QED
  BY <1>1 DEF Idle, Knows, Reading, Moving

(* What a handler knows survives a newer row. *)
LEMMA KnowsLater ==
  ASSUME NEW o \in Ops, NEW r, NEW s, r.version \in Nat, s.version \in Nat,
         s = r \/ r.version < s.version, Knows(o, r)
  PROVE  Knows(o, s)
<1>1. CASE s = r
  BY <1>1
<1>2. CASE r.version < s.version
  <2>1. o.pc \in Reading => o.snap \in Rows /\ o.snap.version \in Nat
    BY DEF Knows, Rows
  <2>2. o.expected \in Nat
    BY DEF Ops
  <2>3. o.pc \in Reading =>
          /\ o.snap.version <= s.version
          /\ o.snap.version # s.version
    BY <1>2, <2>1 DEF Knows
  <2>4. o.cmd = "review" /\ o.pc \in Moving =>
          o.expected <= s.version /\ o.expected # s.version
    BY <1>2, <2>2 DEF Knows
  <2>5. QED
    BY <2>1, <2>3, <2>4 DEF Knows
<1>3. QED
  BY <1>1, <1>2

(* The row is there, and so is the log, once somebody is at work. *)
LEMMA AtWork ==
  ASSUME IInv, NEW p \in Procs, op[p].pc # "idle" \/ JobKnown
  PROVE  row \in Rows /\ row.version \in Nat
<1>1. row # NoRow
  BY DEF IInv, HandlersKnow, JobKnown, Idle
<1>2. QED
  BY <1>1 DEF IInv, TypeOK, Rows

(* A step that brings one handler to its next call, with the row as it was *)
(* or newer, leaves every handler knowing what it should.                  *)
LEMMA Proceeding ==
  ASSUME IInv, NEW p \in Procs, NEW next \in Ops, Proceed(p, next),
         row \in Rows, row' \in Rows,
         row' = row \/ row'.version > row.version,
         Knows(next, row'), next.pending \in Seq(SoundEvents)
  PROVE  /\ op' \in [Procs -> Ops]
         /\ \A q \in Procs : Knows(op'[q], row') /\ op'[q].pending \in Seq(SoundEvents)
         /\ row' # NoRow
<1>1. op \in [Procs -> Ops] /\ row.version \in Nat /\ row'.version \in Nat
  BY DEF IInv, TypeOK, Rows
<1>2. op' \in [Procs -> Ops]
  BY <1>1 DEF Proceed
<1>3. ASSUME NEW q \in Procs
      PROVE  Knows(op'[q], row') /\ op'[q].pending \in Seq(SoundEvents)
  <2>1. CASE q = p
    BY <1>1, <2>1 DEF Proceed
  <2>2. CASE q # p
    <3>1. op'[q] = op[q] /\ op[q] \in Ops
      BY <1>1, <2>2 DEF Proceed
    <3>2. Knows(op[q], row) /\ op[q].pending \in Seq(SoundEvents)
      BY DEF IInv, HandlersKnow
    <3>3. Knows(op[q], row')
      BY <1>1, <3>1, <3>2, KnowsLater
    <3>4. QED
      BY <3>1, <3>2, <3>3
  <2>3. QED
    BY <2>1, <2>2
<1>4. row' # NoRow
  BY StateNames DEF Rows, NoRow
<1>5. QED
  BY <1>2, <1>3, <1>4

(* The whole invariant after a step that only moves one handler on. *)
LEMMA ReadingStep ==
  ASSUME IInv, NEW p \in Procs, NEW next \in Ops, Proceed(p, next),
         op[p].pc # "idle" \/ JobKnown,
         UNCHANGED <<jobVars, log, candidateVars, gateVars>>,
         requests' \in 0..MaxRequests, failures' \in 0..MaxFailures,
         Knows(next, row), next.pending \in Seq(SoundEvents)
  PROVE  IInv'
<1>1. row \in Rows /\ row' = row
  BY AtWork DEF jobVars
<1>2. /\ op' \in [Procs -> Ops]
      /\ \A q \in Procs : Knows(op'[q], row') /\ op'[q].pending \in Seq(SoundEvents)
      /\ row' # NoRow
  BY <1>1, Proceeding
<1>3. TypeOK'
  BY <1>1, <1>2 DEF IInv, TypeOK, jobVars, candidateVars, planVars, gateVars
<1>4. HandlersKnow'
  BY <1>2 DEF IInv, HandlersKnow, jobVars
<1>5. QED
  BY <1>3, <1>4 DEF IInv

-----------------------------------------------------------------------------
(* The events that handlers append. *)
LEMMA EventTyping ==
  /\ Event("Domain") \in SoundEvents
  /\ Event("ToolRunFinished") \in SoundEvents
  /\ JobCreated(BirthRow) \in SoundEvents
  /\ \A before, after \in Rows : Transitioned(before, after) \in SoundEvents
  /\ \A after \in Rows : CandidateActivated(after) \in SoundEvents
  /\ \A record \in ReviewRecords : ResumeRecorded(record) \in SoundEvents
<1>1. Event("Domain") \in SoundEvents /\ Event("ToolRunFinished") \in SoundEvents
  BY DEF SoundEvents, Events, Event, EventTypes, NoResume, ResumeRecords
<1>2. BirthRow \in Rows
  BY DEF BirthRow, Rows, JobStates, FlowStates
<1>3. JobCreated(BirthRow) \in SoundEvents
  BY <1>2 DEF JobCreated, SoundEvents, Events, Event, EventTypes, NoResume,
              ResumeRecords
<1>4. \A before, after \in Rows : Transitioned(before, after) \in SoundEvents
  BY DEF Transitioned, SoundEvents, Events, Event, EventTypes, NoResume,
         ResumeRecords, Rows
<1>5. \A after \in Rows : CandidateActivated(after) \in SoundEvents
  BY DEF CandidateActivated, SoundEvents, Events, Event, EventTypes, NoResume,
         ResumeRecords
<1>6. \A record \in ReviewRecords : ResumeRecorded(record) \in SoundEvents
  BY StateNames DEF ResumeRecorded, SoundEvents, Events, Event, EventTypes,
                    NoResume, ResumeRecords, ReviewRecords
<1>7. QED
  BY <1>1, <1>3, <1>4, <1>5, <1>6

(* A handler that goes on to append one or two sound events. *)
LEMMA EmitKnows ==
  ASSUME NEW o \in Ops, NEW events \in Seq(SoundEvents), events # << >>,
         o.cmd = "capture" => o.cand \in Candidates,
         NEW r
  PROVE  LET next == [Begin(o.cmd, "sequence") EXCEPT
                        !.pending = events, !.cand = o.cand]
         IN  /\ next \in Ops
             /\ Knows(next, r)
             /\ next.pending \in Seq(SoundEvents)
<1> DEFINE next == [Begin(o.cmd, "sequence") EXCEPT
                      !.pending = events, !.cand = o.cand]
<1>1. events \in Seq(Events)
  BY SeqMonotonic DEF SoundEvents
<1>2. next \in Ops
  <2>1. o.cmd \in Commands /\ o.cand \in Candidates \cup {NoCandidate}
    BY DEF Ops
  <2>2. Idle \in Ops
    BY DEF Idle, Ops, Calls, Commands, ResumeRecords, NoResume
  <2>3. "sequence" \in Calls
    BY DEF Calls
  <2>4. Begin(o.cmd, "sequence") \in Ops
    BY <2>1, <2>2, <2>3 DEF Begin, Ops
  <2>5. QED
    BY <1>1, <2>1, <2>4 DEF Ops
<1>3. Knows(next, r)
  BY DEF Knows, Begin, Idle, Reading, Moving
<1>4. next.pending = events
  BY DEF Begin, Idle
<1>5. QED
  BY <1>2, <1>3, <1>4

-----------------------------------------------------------------------------
(* Requests. *)

LEMMA CreateJobSafe ==
  ASSUME IInv, NEW p \in Procs, CreateJob(p)
  PROVE  IInv'
<1> DEFINE events == <<JobCreated(BirthRow), Event("Domain")>>
           next == [Begin("create", "sequence") EXCEPT !.pending = events]
<1>1. row' = BirthRow /\ BirthRow \in Rows /\ BirthRow # NoRow
  BY StateNames DEF CreateJob, BirthRow, NoRow, Rows, FlowStates
<1>2. op' = [op EXCEPT ![p] = next] /\ op = [q \in Procs |-> Idle]
  BY DEF CreateJob, Proceed, IInv, HandlersKnow
<1>3. events \in Seq(SoundEvents) /\ events # << >>
  BY EventTyping
<1>4. next \in Ops /\ Knows(next, row') /\ next.pending \in Seq(SoundEvents)
  <2>1. events \in Seq(Events)
    BY <1>3, SeqMonotonic DEF SoundEvents
  <2>2. next \in Ops
    BY <2>1, IdleKnows DEF Begin, Idle, Ops, Commands, Calls
  <2>3. Knows(next, row')
    BY <1>3 DEF Knows, Begin, Idle, Reading, Moving
  <2>4. QED
    BY <1>3, <2>2, <2>3 DEF Begin, Idle
<1>5. \A q \in Procs : Knows(op'[q], row') /\ op'[q].pending \in Seq(SoundEvents)
  BY <1>2, <1>4, IdleKnows, EmptySeq
<1>6. op' \in [Procs -> Ops]
  BY <1>2, <1>4, IdleKnows
<1>7. TypeOK'
  BY <1>1, <1>6 DEF CreateJob, IInv, TypeOK, candidateVars, planVars, gateVars,
                  boundVars
<1>8. HandlersKnow'
  BY <1>1, <1>5 DEF CreateJob, IInv, HandlersKnow
<1>9. QED
  BY <1>7, <1>8 DEF IInv

(* Every other request only reads, so it is enough to look at where its    *)
(* handler starts.                                                         *)
LEMMA AcceptSafe ==
  ASSUME IInv, NEW p \in Procs, NEW request \in Ops, Accept(p, request),
         Knows(request, row), request.pending \in Seq(SoundEvents)
  PROVE  IInv'
<1>1. JobKnown /\ Proceed(p, request)
  BY DEF Accept
<1>2. requests' \in 0..MaxRequests /\ failures' \in 0..MaxFailures
  BY BoundsAssumption DEF Accept, IInv, TypeOK
<1>3. UNCHANGED <<jobVars, log, candidateVars, gateVars>>
  BY DEF Accept
<1>4. QED
  BY <1>1, <1>2, <1>3, ReadingStep

LEMMA RequestSafe ==
  ASSUME IInv, NEW p \in Procs, Request(p)
  PROVE  IInv'
<1> USE EmptySeq DEF Begin, Idle, Ops, Commands, Calls, ResumeRecords, NoResume
<1>1. CASE CreateJob(p)
  BY <1>1, CreateJobSafe
<1>2. ASSUME NEW c \in Candidates, CaptureCandidate(p, c)
      PROVE  IInv'
  <2> DEFINE request == [Begin("capture", "find") EXCEPT !.cand = c]
  <2>1. request \in Ops /\ request.pending \in Seq(SoundEvents)
    OBVIOUS
  <2>2. Knows(request, row)
    BY DEF Knows, Reading, Moving
  <2>3. Accept(p, request)
    BY <1>2 DEF CaptureCandidate
  <2> HIDE DEF request, Begin, Idle, Ops, Commands, Calls
  <2>4. QED
    BY <2>1, <2>2, <2>3, AcceptSafe
<1>3. ASSUME NEW c \in Candidates, SetActiveCandidate(p, c)
      PROVE  IInv'
  <2> DEFINE request == [Begin("activate", "activeRead") EXCEPT !.cand = c]
  <2>1. request \in Ops /\ request.pending \in Seq(SoundEvents)
    OBVIOUS
  <2>2. Knows(request, row)
    BY DEF Knows, Reading, Moving
  <2>3. Accept(p, request)
    BY <1>3 DEF SetActiveCandidate
  <2> HIDE DEF request, Begin, Idle, Ops, Commands, Calls
  <2>4. QED
    BY <2>1, <2>2, <2>3, AcceptSafe
<1>4. ASSUME NEW s \in DirectTargets, Transition(p, s)
      PROVE  IInv'
  <2> DEFINE request == [Begin("transition", "transition") EXCEPT
                           !.target = s, !.expected = row.version]
  <2>1. s \in JobStates /\ row.version \in Nat
    BY <1>4, TargetsAssumption, AtWork DEF Transition, Accept
  <2>2. request \in Ops /\ request.pending \in Seq(SoundEvents)
    BY <2>1
  <2>3. Knows(request, row)
    BY <2>1 DEF Knows, Reading, Moving
  <2>4. Accept(p, request)
    BY <1>4 DEF Transition
  <2> HIDE DEF request, Begin, Idle, Ops, Commands, Calls
  <2>5. QED
    BY <2>2, <2>3, <2>4, AcceptSafe
<1>5. CASE EnterHumanReview(p)
  <2> DEFINE request == [Begin("review", "transition") EXCEPT
                !.target = "HumanReviewRequired", !.expected = row.version,
                !.resume = [from |-> "HumanReviewRequired", to |-> row.state]]
  <2>1. row \in Rows /\ row.version \in Nat /\ row.state \in JobStates
        /\ row.state \notin ExceptionalStates
    BY <1>5, AtWork DEF EnterHumanReview, MayBeReviewed, Accept, Rows
  <2>2. request \in Ops /\ request.pending \in Seq(SoundEvents)
    BY <2>1, StateNames
  <2>3. Knows(request, row)
    BY <2>1, StateNames DEF Knows, Reading, Moving
  <2>4. Accept(p, request)
    BY <1>5 DEF EnterHumanReview
  <2> HIDE DEF request, Begin, Idle, Ops, Commands, Calls
  <2>5. QED
    BY <2>2, <2>3, <2>4, AcceptSafe
<1>6. CASE ResumeJob(p)
  <2> DEFINE request == [Begin("resume", "loadResume") EXCEPT
                           !.snap = row, !.expected = row.version]
  <2>1. row \in Rows /\ row.version \in Nat
    BY <1>6, AtWork DEF ResumeJob, Accept
  <2>2. request \in Ops /\ request.pending \in Seq(SoundEvents)
    BY <2>1
  <2>3. Knows(request, row)
    BY <2>1 DEF Knows, Reading, Moving
  <2>4. Accept(p, request)
    BY <1>6 DEF ResumeJob
  <2> HIDE DEF request, Begin, Idle, Ops, Commands, Calls
  <2>5. QED
    BY <2>2, <2>3, <2>4, AcceptSafe
<1>7. CASE Reconcile(p)
  <2> DEFINE request == Begin("reconcile", "walk")
  <2>1. request \in Ops /\ request.pending \in Seq(SoundEvents)
    OBVIOUS
  <2>2. Knows(request, row)
    BY DEF Knows, Reading, Moving
  <2>3. Accept(p, request)
    BY <1>7 DEF Reconcile
  <2> HIDE DEF request, Begin, Idle, Ops, Commands, Calls
  <2>4. QED
    BY <2>1, <2>2, <2>3, AcceptSafe
<1>8. ASSUME NEW s \in CheckStages, RunCheck(p, s)
      PROVE  IInv'
  <2> DEFINE request == [Begin("check", "gateResult") EXCEPT
                           !.cand = row.active, !.stage = s]
  <2>1. s \in GateStages /\ row.active \in Candidates
    BY <1>8, StagesAssumption DEF RunCheck, IInv, TypeOK
  <2>2. request \in Ops /\ request.pending \in Seq(SoundEvents)
    BY <2>1
  <2>3. Knows(request, row)
    BY <2>1 DEF Knows, Reading, Moving
  <2>4. Accept(p, request)
    BY <1>8 DEF RunCheck
  <2> HIDE DEF request, Begin, Idle, Ops, Commands, Calls
  <2>5. QED
    BY <2>2, <2>3, <2>4, AcceptSafe
<1>9. CASE RecordObligationOutcome(p)
  <2> DEFINE request == [Begin("record", "outcome") EXCEPT !.cand = row.active]
  <2>1. row.active \in Candidates
    BY <1>9 DEF RecordObligationOutcome, IInv, TypeOK
  <2>2. request \in Ops /\ request.pending \in Seq(SoundEvents)
    BY <2>1
  <2>3. Knows(request, row)
    BY <2>1 DEF Knows, Reading, Moving
  <2>4. Accept(p, request)
    BY <1>9 DEF RecordObligationOutcome
  <2> HIDE DEF request, Begin, Idle, Ops, Commands, Calls
  <2>5. QED
    BY <2>2, <2>3, <2>4, AcceptSafe
<1>10. CASE RecordCheckEvidence(p)
  <2> DEFINE events == <<Event("Domain")>>
             request == [Begin("record", "sequence") EXCEPT !.pending = events]
  <2>1. events \in Seq(SoundEvents) /\ events # << >> /\ events \in Seq(Events)
    BY EventTyping DEF SoundEvents
  <2>2. request \in Ops /\ request.pending \in Seq(SoundEvents)
    BY <2>1
  <2>3. Knows(request, row)
    BY <2>1 DEF Knows, Reading, Moving
  <2>4. Accept(p, request)
    BY <1>10 DEF RecordCheckEvidence
  <2> HIDE DEF request, Begin, Idle, Ops, Commands, Calls
  <2>5. QED
    BY <2>2, <2>3, <2>4, AcceptSafe
<1>11. QED
  BY <1>1, <1>2, <1>3, <1>4, <1>5, <1>6, <1>7, <1>8, <1>9, <1>10 DEF Request

-----------------------------------------------------------------------------
(* The calls of the handlers, first those that only read the store.        *)

(* What holds at the start of every step of a handler. *)
LEMMA StepStarts ==
  ASSUME IInv, NEW p \in Procs, op[p].pc # "idle"
  PROVE  /\ op[p] \in Ops
         /\ op[p].pending \in Seq(SoundEvents)
         /\ Knows(op[p], row)
         /\ row \in Rows /\ row.version \in Nat
         /\ log \in Seq(SoundEvents)
BY AtWork DEF IInv, TypeOK, HandlersKnow

(* A handler is done, or goes on to the plans of a candidate it knows. *)
LEMMA AfterActivationKnows ==
  ASSUME IInv, NEW p \in Procs, op[p].pc # "idle", NEW r
  PROVE  /\ AfterActivation(p) \in Ops
         /\ Knows(AfterActivation(p), r)
         /\ AfterActivation(p).pending \in Seq(SoundEvents)
<1>1. CASE op[p].cmd = "capture"
  <2>1. op[p].cand \in Candidates
    BY <1>1, StepStarts DEF Knows
  <2>2. QED
    BY <1>1, <2>1, EmptySeq
       DEF AfterActivation, Begin, Idle, Ops, Commands, Calls, ResumeRecords,
           NoResume, Knows, Reading, Moving
<1>2. CASE op[p].cmd # "capture"
  BY <1>2, IdleKnows, EmptySeq DEF AfterActivation
<1>3. QED
  BY <1>1, <1>2

LEMMA CallReads ==
  ASSUME IInv, NEW p \in Procs, op[p].pc # "idle", NEW next \in Ops,
         Proceed(p, next), ReadsOnly,
         Knows(next, row), next.pending \in Seq(SoundEvents)
  PROVE  IInv'
<1>1. requests' \in 0..MaxRequests /\ failures' \in 0..MaxFailures
  BY DEF ReadsOnly, boundVars, IInv, TypeOK
<1>2. UNCHANGED <<jobVars, log, candidateVars, gateVars>>
  BY DEF ReadsOnly
<1>3. QED
  BY <1>1, <1>2, ReadingStep

(* A call that only reads and after which the handler returns. *)
LEMMA ReadsAndReturns ==
  ASSUME IInv, NEW p \in Procs, op[p].pc # "idle", Return(p), ReadsOnly
  PROVE  IInv'
BY IdleKnows, EmptySeq, CallReads DEF Return

(* A call that only reads and after which there are events to append. *)
LEMMA ReadsAndEmits ==
  ASSUME IInv, NEW p \in Procs, op[p].pc # "idle",
         NEW events \in Seq(SoundEvents), events # << >>,
         Emit(p, events), ReadsOnly
  PROVE  IInv'
<1> DEFINE next == [Begin(op[p].cmd, "sequence") EXCEPT
                      !.pending = events, !.cand = op[p].cand]
<1>1. op[p] \in Ops /\ Knows(op[p], row)
  BY StepStarts
<1>2. op[p].cmd = "capture" => op[p].cand \in Candidates
  BY <1>1 DEF Knows
<1>3. next \in Ops /\ Knows(next, row) /\ next.pending \in Seq(SoundEvents)
  BY <1>1, <1>2, EmitKnows
<1>4. Proceed(p, next)
  BY DEF Emit
<1>5. QED
  BY <1>3, <1>4, CallReads

LEMMA NextSequenceSafe ==
  ASSUME IInv, NEW p \in Procs, NextSequence(p)
  PROVE  IInv'
<1> DEFINE o == op[p]
           next == [o EXCEPT !.pc = "append", !.seq = Len(log) + 1]
<1>1. o.pc = "sequence" /\ Proceed(p, next) /\ ReadsOnly
  BY DEF NextSequence
<1>2. o \in Ops /\ Knows(o, row) /\ o.pending \in Seq(SoundEvents)
      /\ Len(log) + 1 \in Nat
  BY <1>1, StepStarts, LenProperties
<1>3. next \in Ops /\ next.pending = o.pending
  <2> DEFINE n == Len(log) + 1
  <2> HIDE DEF n
  <2>1. n \in Nat
    BY <1>2 DEF n
  <2>2. [o EXCEPT !.pc = "append", !.seq = n] \in Ops
    BY <1>2, <2>1 DEF Ops, Calls
  <2>3. QED
    BY <1>2, <2>2 DEF n, Ops
<1>4. Knows(next, row)
  BY <1>1, <1>2 DEF Knows, Ops, Reading, Moving
<1>5. QED
  BY <1>1, <1>2, <1>3, <1>4, CallReads

LEMMA FindSourceSafe ==
  ASSUME IInv, NEW p \in Procs, FindSource(p)
  PROVE  IInv'
<1> DEFINE o == op[p]
           next == [o EXCEPT !.pc = "insert"]
           events == <<Event("Domain")>>
<1>1. o.pc = "find" /\ ReadsOnly
  BY DEF FindSource
<1>2. o \in Ops /\ Knows(o, row) /\ o.pending \in Seq(SoundEvents)
  BY <1>1, StepStarts
<1>3. CASE o.cand \in captured
  <2>1. events \in Seq(SoundEvents) /\ events # << >>
    BY EventTyping
  <2>2. Emit(p, events)
    BY <1>3 DEF FindSource
  <2>3. QED
    BY <1>1, <2>1, <2>2, ReadsAndEmits
<1>4. CASE o.cand \notin captured
  <2>1. Proceed(p, next)
    BY <1>4 DEF FindSource
  <2>2. next \in Ops /\ next.pending = o.pending
    BY <1>2 DEF Ops, Calls
  <2>3. Knows(next, row)
    BY <1>1, <1>2 DEF Knows, Ops, Reading, Moving
  <2>4. QED
    BY <1>1, <1>2, <2>1, <2>2, <2>3, CallReads
<1>5. QED
  BY <1>3, <1>4

LEMMA ActiveCheckSafe ==
  ASSUME IInv, NEW p \in Procs, ActiveCheck(p)
  PROVE  IInv'
<1> DEFINE o == op[p]
           next == [o EXCEPT !.pc = "activeRead"]
<1>1. o.pc = "activeCheck" /\ ReadsOnly
  BY DEF ActiveCheck
<1>2. CASE row.active = o.cand
  BY <1>1, <1>2, AfterActivationKnows, CallReads DEF ActiveCheck
<1>3. CASE row.active # o.cand
  <2>1. Proceed(p, next)
    BY <1>3 DEF ActiveCheck
  <2>2. o \in Ops /\ Knows(o, row) /\ o.pending \in Seq(SoundEvents)
    BY <1>1, StepStarts
  <2>3. next \in Ops /\ next.pending = o.pending
    BY <2>2 DEF Ops, Calls
  <2>4. Knows(next, row)
    BY <1>1, <2>2 DEF Knows, Ops, Reading, Moving
  <2>5. QED
    BY <1>1, <2>1, <2>2, <2>3, <2>4, CallReads
<1>4. QED
  BY <1>2, <1>3

LEMMA ActiveReadSafe ==
  ASSUME IInv, NEW p \in Procs, ActiveRead(p)
  PROVE  IInv'
<1> DEFINE o == op[p]
           next == [o EXCEPT !.pc = "activeRow", !.snap = row]
<1>1. o.pc = "activeRead" /\ ReadsOnly
  BY DEF ActiveRead
<1>2. CASE MayActivate(o.cand)
  <2>1. Proceed(p, next)
    BY <1>2 DEF ActiveRead
  <2>2. o \in Ops /\ Knows(o, row) /\ o.pending \in Seq(SoundEvents)
        /\ row \in Rows /\ row.version \in Nat
    BY <1>1, StepStarts
  <2>3. next \in Ops /\ next.pending = o.pending
    BY <2>2 DEF Ops, Calls
  <2>4. Knows(next, row)
    BY <1>1, <1>2, <2>2 DEF MayActivate, Knows, Ops, Reading, Moving
  <2>5. QED
    BY <1>1, <2>1, <2>2, <2>3, <2>4, CallReads
<1>3. CASE ~MayActivate(o.cand)
  BY <1>1, <1>3, AfterActivationKnows, CallReads DEF ActiveRead
<1>4. QED
  BY <1>2, <1>3

LEMMA LoadResumeSafe ==
  ASSUME IInv, NEW p \in Procs, LoadResume(p)
  PROVE  IInv'
<1> DEFINE o == op[p]
           next(i) == [o EXCEPT !.pc = "transition", !.resume = log[i].resume,
                                !.target = log[i].resume.to]
<1>1. o.pc = "loadResume" /\ ReadsOnly
  BY DEF LoadResume
<1>2. CASE Return(p)
  BY <1>1, <1>2, ReadsAndReturns
<1>3. ASSUME NEW i \in Chosen(RecordsFrom(o.snap.state)), Proceed(p, next(i))
      PROVE  IInv'
  <2>1. o \in Ops /\ Knows(o, row) /\ o.pending \in Seq(SoundEvents)
        /\ log \in Seq(SoundEvents)
    BY <1>1, StepStarts
  <2>2. i \in 1..Len(log) /\ log[i].type = "ResumeRecorded"
    BY DEF Chosen, RecordsFrom
  <2>3. log[i] \in SoundEvents
    BY <2>1, <2>2, ElementOfSeq
  <2>4. log[i].resume \in ReviewRecords
    BY <2>2, <2>3 DEF SoundEvents
  <2>5. /\ log[i].resume \in ResumeRecords
        /\ log[i].resume.to \in FlowStates
        /\ log[i].resume.to \in JobStates
    BY <2>4, StateNames DEF ReviewRecords, ResumeRecords
  <2>6. next(i) \in Ops /\ next(i).pending = o.pending
    BY <2>1, <2>5 DEF Ops, Calls
  <2>7. o.cmd = "resume"
    BY <1>1, <2>1 DEF Knows
  <2>8. Knows(next(i), row)
    BY <1>1, <2>1, <2>4, <2>5, <2>7 DEF Knows, Ops, Reading, Moving
  <2>9. QED
    BY <1>1, <1>3, <2>1, <2>6, <2>8, CallReads
<1>4. QED
  BY <1>2, <1>3 DEF LoadResume

LEMMA WalkSafe ==
  ASSUME IInv, NEW p \in Procs, Walk(p)
  PROVE  IInv'
<1> DEFINE next(rule) == [Begin("reconcile", "gates") EXCEPT
                            !.snap = row, !.expected = row.version,
                            !.target = rule.to, !.probe = TRUE]
<1>1. op[p].pc = "walk" /\ ReadsOnly
  BY DEF Walk
<1>2. CASE Return(p)
  BY <1>1, <1>2, ReadsAndReturns
<1>3. ASSUME NEW rule \in RulesFrom(row.state), Proceed(p, next(rule))
      PROVE  IInv'
  <2>1. row \in Rows /\ row.version \in Nat
    BY <1>1, StepStarts
  <2>2. rule.to \in JobStates
    BY RuleTyping DEF RulesFrom
  <2>3. next(rule) \in Ops
    BY <2>1, <2>2, EmptySeq
       DEF Begin, Idle, Ops, Commands, Calls, ResumeRecords, NoResume
  <2>4. Knows(next(rule), row)
    BY <2>1, <2>2 DEF Knows, Begin, Idle, Reading, Moving
  <2>5. next(rule).pending \in Seq(SoundEvents)
    BY EmptySeq DEF Begin, Idle
  <2>6. QED
    BY <1>1, <1>3, <2>3, <2>4, <2>5, CallReads
<1>4. QED
  BY <1>2, <1>3 DEF Walk

LEMMA TransitionReadSafe ==
  ASSUME IInv, NEW p \in Procs, TransitionRead(p)
  PROVE  IInv'
<1> DEFINE o == op[p]
           next == [o EXCEPT !.pc = "gates", !.snap = row]
<1>1. o.pc = "transition" /\ ReadsOnly
  BY DEF TransitionRead
<1>2. CASE row.version = o.expected
  <2>1. Proceed(p, next)
    BY <1>2 DEF TransitionRead, CallerIsCurrent
  <2>2. o \in Ops /\ Knows(o, row) /\ o.pending \in Seq(SoundEvents)
        /\ row \in Rows /\ row.version \in Nat
    BY <1>1, StepStarts
  <2>3. next \in Ops /\ next.pending = o.pending
    BY <2>2 DEF Ops, Calls
  <2>4. Knows(next, row)
    BY <1>1, <1>2, <2>2 DEF Knows, Ops, Reading, Moving
  <2>5. QED
    BY <1>1, <2>1, <2>2, <2>3, <2>4, CallReads
<1>3. CASE row.version # o.expected
  BY <1>1, <1>3, ReadsAndReturns DEF TransitionRead, CallerIsCurrent
<1>4. QED
  BY <1>2, <1>3

(* Gates that are met are met by a candidate. *)
LEMMA ReadGatesSafe ==
  ASSUME IInv, NEW p \in Procs, ReadGates(p)
  PROVE  IInv'
<1> DEFINE o == op[p]
           met == GatesMet(o.snap, o.target)
           next == [o EXCEPT !.pc = "evaluate", !.gatesMet = met]
<1>1. o.pc = "gates" /\ ReadsOnly /\ Proceed(p, next)
  BY DEF ReadGates
<1>2. o \in Ops /\ Knows(o, row) /\ o.pending \in Seq(SoundEvents)
  BY <1>1, StepStarts
<1>3. met \in BOOLEAN
  BY DEF GatesMet
<1>4. met => \A rule \in RulesFor(o.snap.state, o.target) :
               rule.gates # {} => o.snap.active # NoCandidate
  <2>1. passing \subseteq Candidates \X GateStages
    BY DEF IInv, TypeOK
  <2>2. ASSUME met, NEW rule \in RulesFor(o.snap.state, o.target),
               NEW stage \in rule.gates
        PROVE  o.snap.active # NoCandidate
    BY <2>1, <2>2, CandidatesAssumption DEF GatesMet
  <2>3. QED
    BY <2>2
<1>5. next \in Ops /\ next.pending = o.pending
  <2> HIDE DEF met
  <2>1. QED
    BY <1>2, <1>3 DEF Ops, Calls
<1>6. Knows(next, row)
  <2> HIDE DEF met
  <2>1. QED
    BY <1>1, <1>2, <1>3, <1>4 DEF Knows, Ops, Reading, Moving
<1>7. QED
  BY <1>1, <1>2, <1>5, <1>6, CallReads

(* The engine allows only legal moves. *)
LEMMA EvaluateAllowsLegal ==
  ASSUME IInv, NEW p \in Procs, op[p].pc = "evaluate",
         Evaluate(op[p].expected, op[p].target, op[p].snap, Presented(p),
                  INFRASTRUCTURE_BLOCKED, Unmet(p)) = {}
  PROVE  LegalMove(op[p].snap, op[p].target)
<1> DEFINE o == op[p]
<1>1. o \in Ops /\ Knows(o, row)
  BY StepStarts
<1>2. o.snap.state \in JobStates
  BY <1>1 DEF Knows, Reading, Rows
<1>3. o.snap.state \notin TerminalStates
  BY DEF Evaluate
<1>4. CASE o.target \in SyntheticTargets
  BY <1>2, <1>3, <1>4, StateNames DEF LegalMove
<1>5. CASE o.target \notin SyntheticTargets /\ o.snap.state \in ExceptionalStates
  <2>1. Presented(p) = [from |-> o.snap.state, to |-> o.target]
    BY <1>3, <1>5 DEF Evaluate
  <2>2. o.cmd = "resume"
    <3>1. o.snap.state # "None"
      BY <1>2, StateNames
    <3>2. CASE o.cmd # "resume"
      BY <2>1, <3>1, <3>2 DEF Presented, NoResume
    <3>3. QED
      BY <3>2
  <2>3. o.resume \in ReviewRecords
    BY <1>1, <2>2 DEF Knows, Moving
  <2>4. o.resume = [from |-> o.snap.state, to |-> o.target]
    BY <2>1, <2>2 DEF Presented
  <2>5. o.snap.state = "HumanReviewRequired" /\ o.target \in FlowStates
    BY <2>3, <2>4 DEF ReviewRecords
  <2>6. QED
    BY <2>5 DEF LegalMove
<1>6. CASE o.target \notin SyntheticTargets /\ o.snap.state \notin ExceptionalStates
  <2>1. RulesFor(o.snap.state, o.target) # {} /\ Unmet(p) = {}
    BY <1>3, <1>6 DEF Evaluate, INFRASTRUCTURE_BLOCKED
  <2>2. o.gatesMet
    BY <2>1 DEF Unmet
  <2>3. \A rule \in RulesFor(o.snap.state, o.target) : rule.approvals = {}
    BY <2>1 DEF Unmet
  <2>4. \A rule \in RulesFor(o.snap.state, o.target) :
          rule.gates # {} => o.snap.active # NoCandidate
    BY <1>1, <2>2 DEF Knows
  <2>5. QED
    BY <2>1, <2>3, <2>4 DEF LegalMove
<1>7. QED
  BY <1>4, <1>5, <1>6

LEMMA EvaluateMoveSafe ==
  ASSUME IInv, NEW p \in Procs, EvaluateMove(p)
  PROVE  IInv'
<1> DEFINE o == op[p]
           blockers == Evaluate(o.expected, o.target, o.snap, Presented(p),
                                INFRASTRUCTURE_BLOCKED, Unmet(p))
           call == IF o.probe THEN "transition" ELSE "put"
           next == [o EXCEPT !.probe = FALSE, !.pc = call]
<1>1. o.pc = "evaluate" /\ ReadsOnly
  BY DEF EvaluateMove
<1>2. CASE blockers # {}
  BY <1>1, <1>2, ReadsAndReturns DEF EvaluateMove, WhenBlocked, Return
<1>3. CASE blockers = {}
  <2>1. Proceed(p, next)
    BY <1>3 DEF EvaluateMove
  <2>2. o \in Ops /\ Knows(o, row) /\ o.pending \in Seq(SoundEvents)
    BY <1>1, StepStarts
  <2>3. LegalMove(o.snap, o.target)
    BY <1>1, <1>3, EvaluateAllowsLegal
  <2>4. next \in Ops /\ next.pending = o.pending
    <3>1. call \in Calls
      BY DEF Calls
    <3> HIDE DEF call
    <3>2. QED
      BY <2>2, <3>1 DEF Ops
  <2>5. Knows(next, row)
    BY <1>1, <2>2, <2>3 DEF Knows, Ops, Reading, Moving
  <2>6. QED
    BY <1>1, <2>1, <2>2, <2>4, <2>5, CallReads
<1>4. QED
  BY <1>2, <1>3

-----------------------------------------------------------------------------
(* The calls that write.                                                   *)

LEMMA CallWrites ==
  ASSUME IInv, NEW p \in Procs, op[p].pc # "idle", NEW next \in Ops,
         Proceed(p, next), Knows(next, row'), next.pending \in Seq(SoundEvents),
         row' \in Rows, row' = row \/ row'.version > row.version,
         log' \in Seq(SoundEvents),
         activeRow' \in Candidates \cup {NoCandidate},
         captured' \subseteq Candidates,
         planned' \subseteq Candidates,
         obliged' \subseteq Candidates,
         passing' \subseteq Candidates \X GateStages,
         policyMet' \subseteq Candidates,
         requests' = requests, failures' \in 0..MaxFailures,
         enteredFrom' \in FlowStates \cup {"None"}
  PROVE  IInv'
<1>1. row \in Rows
  BY AtWork
<1>2. /\ op' \in [Procs -> Ops]
      /\ \A q \in Procs : Knows(op'[q], row') /\ op'[q].pending \in Seq(SoundEvents)
      /\ row' # NoRow
  BY <1>1, Proceeding
<1>3. log' \in Seq(Events)
  BY SeqMonotonic DEF SoundEvents
<1>4. TypeOK'
  BY <1>2, <1>3 DEF IInv, TypeOK
<1>5. HandlersKnow'
  BY <1>2 DEF HandlersKnow
<1>6. QED
  BY <1>4, <1>5 DEF IInv

(* What the variables are before a step, for those a call leaves alone. *)
LEMMA StoreTypes ==
  ASSUME IInv
  PROVE  /\ activeRow \in Candidates \cup {NoCandidate}
         /\ captured \subseteq Candidates
         /\ planned \subseteq Candidates
         /\ obliged \subseteq Candidates
         /\ passing \subseteq Candidates \X GateStages
         /\ policyMet \subseteq Candidates
         /\ failures \in 0..MaxFailures
         /\ enteredFrom \in FlowStates \cup {"None"}
BY DEF IInv, TypeOK

LEMMA AppendEventSafe ==
  ASSUME IInv, NEW p \in Procs, AppendEvent(p)
  PROVE  IInv'
<1> DEFINE o == op[p]
           rest == [o EXCEPT !.pc = "sequence", !.pending = Tail(@)]
<1>1. o.pc = "append" /\ UNCHANGED <<jobVars, candidateVars, gateVars, boundVars>>
  BY DEF AppendEvent
<1>2. o \in Ops /\ Knows(o, row) /\ o.pending \in Seq(SoundEvents)
      /\ row \in Rows /\ log \in Seq(SoundEvents)
  BY <1>1, StepStarts
<1>3. o.pending # << >>
  BY <1>1, <1>2 DEF Knows
<1>4. Head(o.pending) \in SoundEvents /\ Tail(o.pending) \in Seq(SoundEvents)
  BY <1>2, <1>3, HeadTailProperties
<1>5. o.cmd = "capture" => o.cand \in Candidates
  BY <1>2 DEF Knows
<1>6. CASE Return(p) /\ UNCHANGED log
  BY <1>1, <1>6, ReadsAndReturns DEF ReadsOnly
<1>7. ASSUME log' = Append(log, Head(o.pending)),
             NEW next \in Ops, Proceed(p, next), Knows(next, row),
             next.pending \in Seq(SoundEvents)
      PROVE  IInv'
  <2>1. log' \in Seq(SoundEvents)
    BY <1>2, <1>4, <1>7
  <2>2. row' = row /\ requests' = requests
    BY <1>1 DEF jobVars, boundVars
  <2>3. UNCHANGED <<activeRow, captured, planned, obliged, passing, policyMet,
                    failures, enteredFrom>>
    BY <1>1 DEF jobVars, candidateVars, planVars, gateVars, boundVars
  <2>4. QED
    BY <1>1, <1>2, <1>7, <2>1, <2>2, <2>3, StoreTypes, CallWrites
<1>8. AfterAppend(p) \in Ops /\ Knows(AfterAppend(p), row)
      /\ AfterAppend(p).pending \in Seq(SoundEvents)
  <2>1. Begin("reconcile", "walk") \in Ops
        /\ Knows(Begin("reconcile", "walk"), row)
        /\ Begin("reconcile", "walk").pending \in Seq(SoundEvents)
    BY EmptySeq DEF Begin, Idle, Ops, Commands, Calls, ResumeRecords, NoResume,
                    Knows, Reading, Moving
  <2>2. ASSUME o.cmd = "capture"
        PROVE  LET next == [Begin("capture", "activeCheck") EXCEPT !.cand = o.cand]
               IN  next \in Ops /\ Knows(next, row) /\ next.pending \in Seq(SoundEvents)
    <3>1. o.cand \in Candidates
      BY <1>5, <2>2
    <3>2. QED
      BY <3>1, EmptySeq DEF Begin, Idle, Ops, Commands, Calls, ResumeRecords,
                            NoResume, Knows, Reading, Moving
  <2>3. CASE o.cmd = "reconcile"
    BY <2>1, <2>3 DEF AfterAppend
  <2>4. CASE o.cmd = "capture" /\ Head(o.pending).type = "Domain"
    BY <2>2, <2>4 DEF AfterAppend
  <2>5. CASE ~(o.cmd = "capture" /\ Head(o.pending).type = "Domain")
             /\ o.cmd # "reconcile"
    <3>1. AfterAppend(p) = AfterActivation(p)
      BY <2>5 DEF AfterAppend
    <3>2. QED
      BY <1>1, <3>1, AfterActivationKnows
  <2>6. QED
    BY <2>3, <2>4, <2>5
<1>9. CASE log' = Append(log, Head(o.pending))
           /\ Proceed(p, IF Tail(o.pending) = << >> THEN AfterAppend(p) ELSE rest)
  <2>1. CASE Tail(o.pending) = << >>
    BY <1>7, <1>8, <1>9, <2>1
  <2>2. CASE Tail(o.pending) # << >>
    <3>1. Tail(o.pending) \in Seq(Events)
      BY <1>4, SeqMonotonic DEF SoundEvents
    <3>2. rest \in Ops /\ rest.pending = Tail(o.pending)
      BY <1>2, <3>1 DEF Ops, Calls
    <3>3. Knows(rest, row)
      BY <1>2, <1>5, <2>2, <3>2 DEF Knows, Ops, Reading, Moving
    <3>4. QED
      BY <1>4, <1>7, <1>9, <2>2, <3>2, <3>3
  <2>3. QED
    BY <2>1, <2>2
<1>10. QED
  BY <1>6, <1>9 DEF AppendEvent

(* The store calls that end in one event of no consequence to the row. *)
LEMMA WritesAndEmits ==
  ASSUME IInv, NEW p \in Procs, op[p].pc # "idle",
         NEW events \in Seq(SoundEvents), events # << >>,
         Emit(p, events),
         op[p].cmd = "capture" => op[p].cand \in Candidates,
         row' \in Rows, row' = row \/ row'.version > row.version,
         log' = log,
         activeRow' \in Candidates \cup {NoCandidate},
         captured' \subseteq Candidates,
         planned' \subseteq Candidates,
         obliged' \subseteq Candidates,
         passing' \subseteq Candidates \X GateStages,
         policyMet' \subseteq Candidates,
         requests' = requests, failures' = failures,
         enteredFrom' \in FlowStates \cup {"None"}
  PROVE  IInv'
<1> DEFINE next == [Begin(op[p].cmd, "sequence") EXCEPT
                      !.pending = events, !.cand = op[p].cand]
<1>1. op[p] \in Ops /\ log \in Seq(SoundEvents)
  BY StepStarts
<1>2. next \in Ops /\ Knows(next, row') /\ next.pending \in Seq(SoundEvents)
  BY <1>1, EmitKnows
<1>3. Proceed(p, next)
  BY DEF Emit
<1>4. failures' \in 0..MaxFailures
  BY StoreTypes
<1>5. QED
  BY <1>1, <1>2, <1>3, <1>4, CallWrites

LEMMA InsertSourceSafe ==
  ASSUME IInv, NEW p \in Procs, InsertSource(p)
  PROVE  IInv'
<1> DEFINE o == op[p]
           events == <<Event("Domain")>>
<1>1. /\ o.pc = "insert"
      /\ captured' = captured \cup {o.cand}
      /\ UNCHANGED <<jobVars, log, activeRow, planVars, gateVars, boundVars>>
  BY DEF InsertSource
<1>2. o \in Ops /\ Knows(o, row) /\ row \in Rows /\ log \in Seq(SoundEvents)
  BY <1>1, StepStarts
<1>3. o.cand \in Candidates
  BY <1>1, <1>2 DEF Knows
<1>4. /\ captured' \subseteq Candidates
      /\ row' = row /\ log' = log /\ requests' = requests /\ failures' = failures
      /\ UNCHANGED <<activeRow, planned, obliged, passing, policyMet, enteredFrom>>
  BY <1>1, <1>3, StoreTypes DEF jobVars, planVars, gateVars, boundVars
<1>5. CASE o.cand \in captured
  <2>1. Proceed(p, Idle) /\ Idle \in Ops /\ Knows(Idle, row')
        /\ Idle.pending \in Seq(SoundEvents)
    BY <1>5, IdleKnows, EmptySeq DEF InsertSource, Return
  <2>2. QED
    BY <1>1, <1>2, <1>4, <2>1, StoreTypes, CallWrites
<1>6. CASE o.cand \notin captured
  <2>1. events \in Seq(SoundEvents) /\ events # << >> /\ Emit(p, events)
    BY <1>6, EventTyping DEF InsertSource
  <2>2. QED
    BY <1>1, <1>2, <1>3, <1>4, <2>1, StoreTypes, WritesAndEmits
<1>7. QED
  BY <1>5, <1>6

LEMMA ActiveRowSafe ==
  ASSUME IInv, NEW p \in Procs, ActiveRow(p)
  PROVE  IInv'
<1> DEFINE o == op[p]
           next == [o EXCEPT !.pc = "activePut"]
<1>1. /\ o.pc = "activeRow" /\ activeRow' = o.cand /\ Proceed(p, next)
      /\ UNCHANGED <<jobVars, log, captured, planVars, gateVars, boundVars>>
  BY DEF ActiveRow
<1>2. o \in Ops /\ Knows(o, row) /\ o.pending \in Seq(SoundEvents)
      /\ row \in Rows /\ log \in Seq(SoundEvents)
  BY <1>1, StepStarts
<1>3. next \in Ops /\ next.pending = o.pending
  BY <1>2 DEF Ops, Calls
<1>4. Knows(next, row)
  BY <1>1, <1>2 DEF Knows, Ops, Reading, Moving
<1>5. /\ activeRow' \in Candidates \cup {NoCandidate}
      /\ row' = row /\ log' = log /\ requests' = requests /\ failures' = failures
      /\ UNCHANGED <<captured, planned, obliged, passing, policyMet, enteredFrom>>
  BY <1>1, <1>2 DEF jobVars, planVars, gateVars, boundVars, Knows
<1>6. QED
  BY <1>1, <1>2, <1>3, <1>4, <1>5, StoreTypes, CallWrites

(* The two ways a row is rewritten. *)
LEMMA RowTyping ==
  ASSUME NEW r \in Rows, NEW n \in Nat
  PROVE  /\ \A c \in Candidates :
               /\ [r EXCEPT !.active = c, !.version = n] \in Rows
               /\ [r EXCEPT !.active = c, !.version = n].version = n
         /\ \A s \in JobStates :
               /\ [r EXCEPT !.state = s, !.version = n] \in Rows
               /\ [r EXCEPT !.state = s, !.version = n].version = n
BY DEF Rows

LEMMA ActivePutSafe ==
  ASSUME IInv, NEW p \in Procs, ActivePut(p)
  PROVE  IInv'
<1> DEFINE o == op[p]
           after == [o.snap EXCEPT !.active = o.cand, !.version = @ + 1]
           events == <<CandidateActivated(after)>>
<1>1. /\ o.pc = "activePut"
      /\ UNCHANGED <<log, candidateVars, gateVars, boundVars, enteredFrom>>
  BY DEF ActivePut
<1>2. o \in Ops /\ Knows(o, row) /\ row \in Rows /\ row.version \in Nat
  BY <1>1, StepStarts
<1>3. CASE row.version = o.snap.version
  <2>1. row' = after /\ Emit(p, events)
    BY <1>3 DEF ActivePut, Activated
  <2>2. o.snap \in Rows /\ o.cand \in Candidates
    BY <1>1, <1>2 DEF Knows, Reading
  <2>3. after \in Rows /\ after.version > row.version
    <3>1. o.snap.version + 1 \in Nat /\ o.snap.version + 1 > row.version
      BY <1>2, <1>3
    <3>2. QED
      BY <2>2, <3>1, RowTyping
  <2>4. events \in Seq(SoundEvents) /\ events # << >>
    BY <2>3, EventTyping
  <2>5. /\ log' = log /\ requests' = requests /\ failures' = failures
        /\ UNCHANGED <<activeRow, captured, planned, obliged, passing, policyMet,
                        enteredFrom>>
    BY <1>1 DEF candidateVars, planVars, gateVars, boundVars
  <2>6. QED
    BY <1>1, <2>1, <2>2, <2>3, <2>4, <2>5, StoreTypes, WritesAndEmits
<1>4. CASE row.version # o.snap.version
  BY <1>1, <1>4, ReadsAndReturns DEF ActivePut, ReadsOnly, jobVars
<1>5. QED
  BY <1>3, <1>4

(* Only a job in the flow can enter a review: the engine refuses the rest. *)
LEMMA PutProjectionSafe ==
  ASSUME IInv, NEW p \in Procs, PutProjection(p)
  PROVE  IInv'
<1> DEFINE o == op[p]
           after == [o.snap EXCEPT !.state = o.target, !.version = o.expected + 1]
           moved == Transitioned(o.snap, after)
           record == ResumeRecorded(o.resume)
           records == IF o.cmd = "review" THEN <<record>> ELSE << >>
           events == <<moved>> \o records
<1>1. o.pc = "put" /\ UNCHANGED <<log, candidateVars, gateVars, boundVars>>
  BY DEF PutProjection
<1>2. o \in Ops /\ Knows(o, row) /\ row \in Rows /\ row.version \in Nat
  BY <1>1, StepStarts
<1>3. CASE row.version = o.expected
  <2>1. /\ row' = after /\ Emit(p, events)
        /\ enteredFrom' = IF o.cmd = "review" THEN o.snap.state ELSE enteredFrom
    BY <1>3 DEF PutProjection, NotOverwritten, MoveEvents
  <2>2. o.snap \in Rows /\ o.target \in JobStates /\ o.expected \in Nat
        /\ LegalMove(o.snap, o.target)
    BY <1>1, <1>2 DEF Knows, Reading, Moving, Ops
  <2>3. after \in Rows /\ after.version > row.version
    <3>1. o.expected + 1 \in Nat /\ o.expected + 1 > row.version
      BY <1>2, <1>3
    <3>2. QED
      BY <2>2, <3>1, RowTyping
  <2>4. o.cmd = "review" => o.snap.state \in FlowStates /\ o.resume \in ReviewRecords
    <3>1. SUFFICES ASSUME o.cmd = "review"
                   PROVE  o.snap.state \in FlowStates /\ o.resume \in ReviewRecords
      OBVIOUS
    <3>2. /\ o.target = "HumanReviewRequired"
          /\ o.resume.from = "HumanReviewRequired"
          /\ o.resume.to = o.snap.state
          /\ o.snap.state \in JobStates \ ExceptionalStates
      BY <1>1, <1>2, <3>1 DEF Knows, Moving
    <3>3. o.snap.state \in FlowStates
      BY <2>2, <3>2, StateNames, RuleTyping DEF LegalMove, RulesFor
    <3>4. o.resume \in ResumeRecords
      BY <1>2 DEF Ops
    <3>5. QED
      BY <3>2, <3>3, <3>4 DEF ResumeRecords, ReviewRecords
  <2>5. moved \in SoundEvents
    BY <2>2, <2>3, EventTyping
  <2>6. records \in Seq(SoundEvents)
    <3>1. CASE o.cmd = "review"
      BY <2>4, <3>1, EventTyping
    <3>2. CASE o.cmd # "review"
      BY <3>2, EmptySeq
    <3>3. QED
      BY <3>1, <3>2
  <2>7. events \in Seq(SoundEvents) /\ events # << >>
    <3> HIDE DEF moved, records
    <3>1. <<moved>> \in Seq(SoundEvents) /\ Len(<<moved>>) = 1
      BY <2>5
    <3>2. events \in Seq(SoundEvents) /\ Len(events) = 1 + Len(records)
      BY <2>6, <3>1, ConcatProperties
    <3>3. Len(records) \in Nat
      BY <2>6, LenProperties
    <3>4. Len(events) # 0
      BY <3>2, <3>3
    <3>5. QED
      BY <3>2, <3>4, EmptySeq
  <2>8. enteredFrom' \in FlowStates \cup {"None"}
    BY <2>1, <2>4, StoreTypes
  <2>9. /\ log' = log /\ requests' = requests /\ failures' = failures
        /\ UNCHANGED <<activeRow, captured, planned, obliged, passing, policyMet>>
    BY <1>1 DEF candidateVars, planVars, gateVars, boundVars
  <2>10. o.cmd = "capture" => o.cand \in Candidates
    BY <1>2 DEF Knows
  <2>11. QED
    <3> HIDE DEF events, after
    <3>1. QED
      BY <1>1, <2>1, <2>3, <2>7, <2>8, <2>9, <2>10, StoreTypes, WritesAndEmits
<1>4. CASE row.version # o.expected
  BY <1>1, <1>4, ReadsAndReturns DEF PutProjection, NotOverwritten, ReadsOnly
<1>5. QED
  BY <1>3, <1>4

LEMMA PlanChecksSafe ==
  ASSUME IInv, NEW p \in Procs, PlanChecks(p)
  PROVE  IInv'
<1> DEFINE o == op[p]
           next == [o EXCEPT !.pc = "planObligations"]
<1>1. /\ o.pc = "planChecks"
      /\ planned' = planned \cup {o.cand}
      /\ Proceed(p, next)
      /\ UNCHANGED <<jobVars, log, activeRow, captured, obliged, gateVars, boundVars>>
  BY DEF PlanChecks
<1>2. o \in Ops /\ Knows(o, row) /\ o.pending \in Seq(SoundEvents)
      /\ row \in Rows /\ log \in Seq(SoundEvents)
  BY <1>1, StepStarts
<1>3. o.cand \in Candidates
  BY <1>1, <1>2 DEF Knows
<1>4. next \in Ops /\ next.pending = o.pending
  BY <1>2 DEF Ops, Calls
<1>5. Knows(next, row)
  BY <1>1, <1>2 DEF Knows, Ops, Reading, Moving
<1>6. /\ planned' \subseteq Candidates
      /\ row' = row /\ log' = log /\ requests' = requests /\ failures' = failures
      /\ UNCHANGED <<activeRow, captured, obliged, passing, policyMet, enteredFrom>>
  BY <1>1, <1>3, StoreTypes DEF jobVars, gateVars, boundVars
<1>7. QED
  BY <1>1, <1>2, <1>4, <1>5, <1>6, StoreTypes, CallWrites

LEMMA PlanObligationsSafe ==
  ASSUME IInv, NEW p \in Procs, PlanObligations(p)
  PROVE  IInv'
<1> DEFINE o == op[p]
<1>1. /\ o.pc = "planObligations"
      /\ obliged' = obliged \cup {o.cand}
      /\ Proceed(p, Idle)
      /\ UNCHANGED <<jobVars, log, activeRow, captured, planned, gateVars, boundVars>>
  BY DEF PlanObligations, Return
<1>2. o \in Ops /\ Knows(o, row) /\ row \in Rows /\ log \in Seq(SoundEvents)
  BY <1>1, StepStarts
<1>3. o.cand \in Candidates
  BY <1>1, <1>2 DEF Knows
<1>4. Idle \in Ops /\ Knows(Idle, row) /\ Idle.pending \in Seq(SoundEvents)
  BY IdleKnows, EmptySeq
<1>5. /\ obliged' \subseteq Candidates
      /\ row' = row /\ log' = log /\ requests' = requests /\ failures' = failures
      /\ UNCHANGED <<activeRow, captured, planned, passing, policyMet, enteredFrom>>
  BY <1>1, <1>3, StoreTypes DEF jobVars, gateVars, boundVars
<1>6. QED
  BY <1>1, <1>2, <1>4, <1>5, StoreTypes, CallWrites

LEMMA PutGateResultSafe ==
  ASSUME IInv, NEW p \in Procs, PutGateResult(p)
  PROVE  IInv'
<1> DEFINE o == op[p]
           next == [o EXCEPT !.pc = "verdicts"]
           events == <<Event("ToolRunFinished")>>
<1>1. o.pc = "gateResult" /\ UNCHANGED <<jobVars, log, candidateVars, policyMet, boundVars>>
  BY DEF PutGateResult
<1>2. o \in Ops /\ Knows(o, row) /\ o.pending \in Seq(SoundEvents)
      /\ row \in Rows /\ log \in Seq(SoundEvents)
  BY <1>1, StepStarts
<1>3. <<o.cand, o.stage>> \in Candidates \X GateStages
  BY <1>1, <1>2 DEF Knows
<1>4. passing' \subseteq Candidates \X GateStages
  BY <1>3, StoreTypes DEF PutGateResult
<1>5. /\ row' = row /\ log' = log /\ requests' = requests /\ failures' = failures
      /\ UNCHANGED <<activeRow, captured, planned, obliged, policyMet, enteredFrom>>
  BY <1>1 DEF jobVars, candidateVars, planVars, boundVars
<1>6. CASE o.stage = "PolicyEvaluation"
  <2>1. Proceed(p, next)
    BY <1>6 DEF PutGateResult
  <2>2. next \in Ops /\ next.pending = o.pending
    BY <1>2 DEF Ops, Calls
  <2>3. Knows(next, row)
    BY <1>1, <1>2 DEF Knows, Ops, Reading, Moving
  <2>4. QED
    BY <1>1, <1>2, <1>4, <1>5, <2>1, <2>2, <2>3, StoreTypes, CallWrites
<1>7. CASE o.stage # "PolicyEvaluation"
  <2>1. events \in Seq(SoundEvents) /\ events # << >> /\ Emit(p, events)
    BY <1>7, EventTyping DEF PutGateResult
  <2>2. o.cmd = "capture" => o.cand \in Candidates
    BY <1>2 DEF Knows
  <2>3. QED
    BY <1>1, <1>2, <1>4, <1>5, <2>1, <2>2, StoreTypes, WritesAndEmits
<1>8. QED
  BY <1>6, <1>7

(* Judging a candidate's obligations, by either command that does it. *)
LEMMA VerdictsSafe ==
  ASSUME IInv, NEW p \in Procs, DeriveVerdicts(p) \/ UpdateObligation(p)
  PROVE  IInv'
<1> DEFINE o == op[p]
<1>1. o.pc \in {"verdicts", "outcome"}
      /\ UNCHANGED <<jobVars, log, candidateVars, passing, boundVars>>
  BY DEF DeriveVerdicts, UpdateObligation
<1>2. o \in Ops /\ Knows(o, row) /\ row \in Rows
  BY <1>1, StepStarts
<1>3. o.cand \in Candidates
  BY <1>1, <1>2 DEF Knows
<1>4. policyMet' \subseteq Candidates
  BY <1>3, StoreTypes DEF DeriveVerdicts, UpdateObligation, Judge
<1>5. PICK type \in {"Domain", "ToolRunFinished"} : Emit(p, <<Event(type)>>)
  BY DEF DeriveVerdicts, UpdateObligation
<1>6. <<Event(type)>> \in Seq(SoundEvents) /\ <<Event(type)>> # << >>
  BY EventTyping
<1>7. /\ row' = row /\ log' = log /\ requests' = requests /\ failures' = failures
      /\ UNCHANGED <<activeRow, captured, planned, obliged, passing, enteredFrom>>
  BY <1>1 DEF jobVars, candidateVars, planVars, boundVars
<1>8. QED
  BY <1>1, <1>2, <1>3, <1>4, <1>5, <1>6, <1>7, StoreTypes, WritesAndEmits

LEMMA FailSafe ==
  ASSUME IInv, NEW p \in Procs, Fail(p)
  PROVE  IInv'
<1>1. failures' \in 0..MaxFailures /\ requests' \in 0..MaxRequests
  BY BoundsAssumption DEF Fail, IInv, TypeOK
<1>2. Proceed(p, Idle) /\ op[p].pc # "idle"
      /\ UNCHANGED <<jobVars, log, candidateVars, gateVars>>
  BY DEF Fail, Return
<1>3. QED
  BY <1>1, <1>2, IdleKnows, EmptySeq, ReadingStep

-----------------------------------------------------------------------------
(* The invariant.                                                          *)

LEMMA StepSafe ==
  ASSUME IInv, NEW p \in Procs, Step(p)
  PROVE  IInv'
BY NextSequenceSafe, AppendEventSafe, FindSourceSafe, InsertSourceSafe,
   ActiveCheckSafe, ActiveReadSafe, ActiveRowSafe, ActivePutSafe,
   PlanChecksSafe, PlanObligationsSafe,
   LoadResumeSafe, WalkSafe, TransitionReadSafe, ReadGatesSafe,
   EvaluateMoveSafe, PutProjectionSafe, PutGateResultSafe, VerdictsSafe
   DEF Step

LEMMA InitSafe == Init => IInv
<1> SUFFICES ASSUME Init PROVE IInv
  OBVIOUS
<1>1. op \in [Procs -> Ops] /\ \A p \in Procs : op[p] = Idle
  BY IdleKnows DEF Init
<1>2. log \in Seq(Events) /\ log \in Seq(SoundEvents)
  BY EmptySeq DEF Init
<1>3. TypeOK
  BY <1>1, <1>2, BoundsAssumption DEF Init, TypeOK
<1>4. HandlersKnow
  BY <1>1, <1>2, IdleKnows, EmptySeq DEF Init, HandlersKnow
<1>5. QED
  BY <1>3, <1>4 DEF IInv

LEMMA NextSafe == IInv /\ [Next]_vars => IInv'
<1> SUFFICES ASSUME IInv, [Next]_vars PROVE IInv'
  OBVIOUS
<1>1. ASSUME NEW p \in Procs, Request(p) \/ Step(p) \/ Fail(p)
      PROVE  IInv'
  BY <1>1, RequestSafe, StepSafe, FailSafe
<1>2. CASE UNCHANGED vars
  BY <1>2 DEF vars, IInv, TypeOK, HandlersKnow
<1>3. QED
  BY <1>1, <1>2 DEF Next

(* Whatever requests run concurrently and wherever they stop, every        *)
(* handler knows the row it is about to write, or will be refused.         *)
THEOREM Invariant == Spec => []IInv
BY InitSafe, NextSafe, PTL DEF Spec

(* Every variable keeps its type. *)
THEOREM TypeCorrect == Spec => []TypeOK
<1>1. IInv => TypeOK
  BY DEF IInv
<1>2. QED
  BY <1>1, Invariant, PTL

(* What the handlers rely on between two calls stays true of the store. *)
THEOREM HandlersSound == Spec => []HandlersKnow
<1>1. IInv => HandlersKnow
  BY DEF IInv
<1>2. QED
  BY <1>1, Invariant, PTL

(* put_projection never loses an update: the version it compares names the *)
(* row, for any number of writers.                                         *)
THEOREM NoLostUpdate == Spec => []VersionNamesTheRow
<1>1. IInv => VersionNamesTheRow
  BY DEF IInv, HandlersKnow, Knows, VersionNamesTheRow, HoldsSnapshot
<1>2. QED
  BY <1>1, Invariant, PTL

-----------------------------------------------------------------------------
(* Refinement: what happens to the row is the atomic job of JobLifecycle.  *)

(* The two modules speak of the same table. *)
LEMMA SameTable ==
  /\ Atomic!TRANSITION_RULES = TRANSITION_RULES
  /\ Atomic!FlowStates = FlowStates
  /\ Atomic!ExceptionalStates = ExceptionalStates
  /\ Atomic!RepairableStates = RepairableStates
  /\ Atomic!SyntheticTargets = SyntheticTargets
  /\ Atomic!NoCandidate = NoCandidate
  /\ Atomic!BirthRow = BirthRow
  /\ Atomic!NoRow = NoRow
BY DEF Atomic!TRANSITION_RULES, TRANSITION_RULES, Atomic!GateRule, GateRule,
       Atomic!FlowStates, FlowStates, Atomic!ExceptionalStates,
       ExceptionalStates, Atomic!RepairableStates, RepairableStates,
       Atomic!JobStates, JobStates, Atomic!TerminalStates, TerminalStates,
       Atomic!DecidedStates, DecidedStates, Atomic!SyntheticTargets,
       SyntheticTargets, Atomic!NoCandidate, NoCandidate, Atomic!BirthRow,
       BirthRow, Atomic!NoRow, NoRow

(* A legal move of the current row is a step of the abstract job. *)
LEMMA LegalMoveRefines ==
  ASSUME row \in Rows, NEW target, LegalMove(row, target),
         row' = [row EXCEPT !.state = target, !.version = row.version + 1]
  PROVE  Atomic!LifecycleNext
<1>1. Atomic!MoveTo(target)
  BY DEF Atomic!MoveTo
<1>2. CASE /\ row.state \in FlowStates \cup ExceptionalStates
           /\ target \in SyntheticTargets
  BY <1>1, <1>2, SameTable DEF Atomic!Divert, Atomic!LifecycleNext
<1>3. CASE row.state = "HumanReviewRequired" /\ target \in FlowStates
  BY <1>1, <1>3, SameTable DEF Atomic!Resume, Atomic!LifecycleNext
<1>4. ASSUME NEW rule \in RulesFor(row.state, target),
             rule.gates # {} => row.active # NoCandidate,
             rule.approvals = {}
      PROVE  Atomic!LifecycleNext
  <2>1. rule \in TRANSITION_RULES /\ rule.from = row.state /\ rule.to = target
    BY DEF RulesFor
  <2>2. Atomic!Advance
    BY <1>1, <1>4, <2>1, SameTable DEF Atomic!Advance
  <2>3. QED
    BY <2>2 DEF Atomic!LifecycleNext
<1>5. QED
  BY <1>2, <1>3, <1>4 DEF LegalMove

LEMMA PutProjectionRefines ==
  ASSUME IInv, NEW p \in Procs, PutProjection(p)
  PROVE  Atomic!LifecycleNext \/ row' = row
<1> DEFINE o == op[p]
<1>1. o.pc = "put"
  BY DEF PutProjection
<1>2. Knows(o, row) /\ row \in Rows
  BY <1>1, StepStarts
<1>3. CASE row.version = o.expected
  <2>1. o.snap = row /\ LegalMove(row, o.target)
    BY <1>1, <1>2, <1>3 DEF Knows, Reading, Moving
  <2>2. row' = [row EXCEPT !.state = o.target, !.version = row.version + 1]
    BY <1>3, <2>1 DEF PutProjection, NotOverwritten
  <2>3. QED
    BY <1>2, <2>1, <2>2, LegalMoveRefines
<1>4. CASE row.version # o.expected
  BY <1>4 DEF PutProjection, NotOverwritten, jobVars
<1>5. QED
  BY <1>3, <1>4

LEMMA ActivePutRefines ==
  ASSUME IInv, NEW p \in Procs, ActivePut(p)
  PROVE  Atomic!LifecycleNext \/ row' = row
<1> DEFINE o == op[p]
<1>1. o.pc = "activePut"
  BY DEF ActivePut
<1>2. Knows(o, row)
  BY <1>1, StepStarts
<1>3. CASE row.version = o.snap.version
  <2>1. o.snap = row /\ row.state \in RepairableStates /\ o.cand \in Candidates
    BY <1>1, <1>2, <1>3 DEF Knows, Reading
  <2>2. row' = [row EXCEPT !.active = o.cand, !.version = @ + 1]
    BY <1>3, <2>1 DEF ActivePut, Activated
  <2>3. Atomic!Activate(o.cand)
    BY <2>1, <2>2, SameTable DEF Atomic!Activate
  <2>4. QED
    BY <2>1, <2>3 DEF Atomic!LifecycleNext
<1>4. CASE row.version # o.snap.version
  BY <1>4 DEF ActivePut
<1>5. QED
  BY <1>3, <1>4

(* Three calls write the row. *)
LEMMA RowWriters ==
  ASSUME [Next]_vars
  PROVE  \/ row' = row
         \/ \E p \in Procs : CreateJob(p) \/ ActivePut(p) \/ PutProjection(p)
<1>1. ASSUME NEW p \in Procs, Request(p), ~CreateJob(p)
      PROVE  row' = row
  BY <1>1 DEF Request, CaptureCandidate, SetActiveCandidate, Transition,
              EnterHumanReview, ResumeJob, Reconcile, RunCheck,
              RecordObligationOutcome, RecordCheckEvidence, Accept, jobVars
<1>2. ASSUME NEW p \in Procs, Step(p), ~ActivePut(p), ~PutProjection(p)
      PROVE  row' = row
  <2>1. CASE \/ NextSequence(p) \/ FindSource(p) \/ ActiveCheck(p)
             \/ ActiveRead(p) \/ LoadResume(p) \/ Walk(p)
             \/ TransitionRead(p) \/ ReadGates(p) \/ EvaluateMove(p)
    BY <2>1 DEF NextSequence, FindSource, ActiveCheck, ActiveRead, LoadResume,
                Walk, TransitionRead, ReadGates, EvaluateMove, ReadsOnly, jobVars
  <2>2. CASE \/ AppendEvent(p) \/ InsertSource(p) \/ ActiveRow(p)
             \/ PlanChecks(p) \/ PlanObligations(p)
             \/ PutGateResult(p) \/ DeriveVerdicts(p) \/ UpdateObligation(p)
    BY <2>2 DEF AppendEvent, InsertSource, ActiveRow, PlanChecks,
                PlanObligations, PutGateResult, DeriveVerdicts, UpdateObligation, jobVars
  <2>3. QED
    BY <1>2, <2>1, <2>2 DEF Step
<1>3. ASSUME NEW p \in Procs, Fail(p)
      PROVE  row' = row
  BY <1>3 DEF Fail, jobVars
<1>4. CASE UNCHANGED vars
  BY <1>4 DEF vars
<1>5. QED
  BY <1>1, <1>2, <1>3, <1>4 DEF Next

LEMMA StepRefines == IInv /\ [Next]_vars => [Atomic!LifecycleNext]_row
<1> SUFFICES ASSUME IInv, [Next]_vars
             PROVE  Atomic!LifecycleNext \/ row' = row
  OBVIOUS
<1>1. ASSUME NEW p \in Procs, CreateJob(p)
      PROVE  Atomic!LifecycleNext
  BY <1>1, SameTable DEF CreateJob, Atomic!Create, Atomic!LifecycleNext
<1>2. QED
  BY <1>1, ActivePutRefines, PutProjectionRefines, RowWriters

(* However the handlers interleave and wherever they stop, the projection  *)
(* row moves like an atomic state machine that follows the table: every    *)
(* change is legal out of the row it replaces and takes the next version.  *)
THEOREM Refinement == Spec => ImplementsLifecycle
<1>1. Init => Atomic!LifecycleInit
  BY SameTable DEF Init, Atomic!LifecycleInit
<1>2. QED
  BY <1>1, StepRefines, Invariant, PTL DEF Spec, ImplementsLifecycle, Atomic!Lifecycle

-----------------------------------------------------------------------------
(* Crossings: what a move has read of the gates is still so when it writes,*)
(* as long as no verdict is taken back.                                    *)

HasReadGates(o) ==
  o.pc = "put" \/ (o.pc = "evaluate" /\ o.gatesMet) => GatesMet(o.snap, o.target)

GatesRead == \A p \in Procs : HasReadGates(op[p])

(* Every rule leaves its state, and no rule is a way out of the flow. *)
LEMMA RulesMove ==
  ASSUME NEW rule \in TRANSITION_RULES
  PROVE  /\ rule.from # rule.to
         /\ rule.from \in FlowStates
         /\ rule.to \notin SyntheticTargets
BY DEF TRANSITION_RULES, GateRule, FlowStates, SyntheticTargets

(* What is allowed has its gates met, or the rule asks for none. *)
LEMMA EvaluateAsksForGates ==
  ASSUME IInv, GatesRead, NEW p \in Procs, op[p].pc = "evaluate",
         Evaluate(op[p].expected, op[p].target, op[p].snap, Presented(p),
                  INFRASTRUCTURE_BLOCKED, Unmet(p)) = {}
  PROVE  GatesMet(op[p].snap, op[p].target)
<1> DEFINE o == op[p]
<1>1. SUFFICES ASSUME NEW rule \in RulesFor(o.snap.state, o.target)
               PROVE  o.gatesMet
  BY DEF GatesRead, HasReadGates, GatesMet
<1>2. /\ rule \in TRANSITION_RULES
      /\ rule.from = o.snap.state /\ rule.to = o.target
  BY DEF RulesFor
<1>3. /\ o.snap.state \notin TerminalStates \cup ExceptionalStates
      /\ o.target \notin SyntheticTargets
  BY <1>2, RulesMove, StateNames
<1>4. Unmet(p) = {}
  BY <1>1, <1>3 DEF Evaluate, INFRASTRUCTURE_BLOCKED
<1>5. QED
  BY <1>4 DEF Unmet

(* A gate that passes keeps passing. *)
LEMMA PassingGrows ==
  ASSUME Verdicts \subseteq {TRUE}, [Next]_vars
  PROVE  passing \subseteq passing'
<1>1. ASSUME NEW p \in Procs, PutGateResult(p)
      PROVE  passing \subseteq passing'
  BY <1>1 DEF PutGateResult
<1>2. ASSUME NEW p \in Procs, Request(p) \/ Fail(p)
      PROVE  passing' = passing
  BY <1>2 DEF Request, CreateJob, CaptureCandidate, SetActiveCandidate,
              Transition, EnterHumanReview, ResumeJob, Reconcile, RunCheck,
              RecordObligationOutcome, RecordCheckEvidence, Accept, Fail, gateVars
<1>3. ASSUME NEW p \in Procs, Step(p), ~PutGateResult(p)
      PROVE  passing' = passing
  BY <1>3 DEF Step, NextSequence, AppendEvent, FindSource, InsertSource,
              ActiveCheck, ActiveRead, ActiveRow, ActivePut, PlanChecks,
              PlanObligations, LoadResume, Walk, TransitionRead, ReadGates,
              EvaluateMove, PutProjection, DeriveVerdicts, UpdateObligation,
              ReadsOnly, gateVars
<1>4. CASE UNCHANGED vars
  BY <1>4 DEF vars
<1>5. QED
  BY <1>1, <1>2, <1>3, <1>4 DEF Next

(* The handler is not on its way from its gates to the row. *)
Elsewhere(p) == op'[p].pc \notin {"evaluate", "put"}

LEMMA GoesElsewhere ==
  ASSUME IInv, NEW p \in Procs
  PROVE  /\ \A next : Proceed(p, next) =>
              op'[p] = next /\ \A q \in Procs \ {p} : op'[q] = op[q]
         /\ Return(p) => Elsewhere(p)
         /\ \A events : Emit(p, events) => Elsewhere(p)
         /\ Proceed(p, AfterActivation(p)) => Elsewhere(p)
         /\ Proceed(p, AfterAppend(p)) => Elsewhere(p)
         /\ \A next : Proceed(p, next) /\ next.pc \notin {"evaluate", "put"}
              => Elsewhere(p)
<1>1. op \in [Procs -> Ops]
  BY DEF IInv, TypeOK
<1>2. ASSUME NEW next, Proceed(p, next)
      PROVE  op'[p] = next /\ \A q \in Procs \ {p} : op'[q] = op[q]
  BY <1>1, <1>2 DEF Proceed
<1>3. Return(p) => Elsewhere(p)
  BY <1>2 DEF Return, Elsewhere, Idle
<1>4. ASSUME NEW events, Emit(p, events)
      PROVE  Elsewhere(p)
  <2> DEFINE next == [Begin(op[p].cmd, "sequence") EXCEPT
                        !.pending = events, !.cand = op[p].cand]
  <2>1. next.pc = "sequence" /\ Proceed(p, next)
    BY <1>4 DEF Emit, Begin, Idle
  <2>2. QED
    BY <1>2, <2>1 DEF Elsewhere
<1>5. /\ AfterActivation(p).pc \in {"planChecks", "idle"}
      /\ AfterAppend(p).pc \in {"walk", "activeCheck", "planChecks", "idle"}
  BY DEF AfterActivation, AfterAppend, Begin, Idle
<1>6. QED
  BY <1>2, <1>3, <1>4, <1>5 DEF Elsewhere

LEMMA RequestElsewhere ==
  ASSUME IInv, NEW p \in Procs, Request(p)
  PROVE  Elsewhere(p) /\ \A q \in Procs \ {p} : op'[q] = op[q]
<1>1. ASSUME NEW request, Proceed(p, request),
             request.pc \notin {"evaluate", "put"}
      PROVE  Elsewhere(p) /\ \A q \in Procs \ {p} : op'[q] = op[q]
  BY <1>1, GoesElsewhere
<1> USE <1>1 DEF Accept, Begin, Idle
<1>2. CASE CreateJob(p)
  BY <1>2 DEF CreateJob
<1>3. ASSUME NEW c \in Candidates, CaptureCandidate(p, c) \/ SetActiveCandidate(p, c)
      PROVE  Elsewhere(p) /\ \A q \in Procs \ {p} : op'[q] = op[q]
  BY <1>3 DEF CaptureCandidate, SetActiveCandidate
<1>4. ASSUME NEW s \in DirectTargets, Transition(p, s)
      PROVE  Elsewhere(p) /\ \A q \in Procs \ {p} : op'[q] = op[q]
  BY <1>4 DEF Transition
<1>5. CASE EnterHumanReview(p)
  BY <1>5 DEF EnterHumanReview
<1>6. CASE ResumeJob(p)
  BY <1>6 DEF ResumeJob
<1>7. CASE Reconcile(p)
  BY <1>7 DEF Reconcile
<1>8. ASSUME NEW s \in CheckStages, RunCheck(p, s)
      PROVE  Elsewhere(p) /\ \A q \in Procs \ {p} : op'[q] = op[q]
  BY <1>8 DEF RunCheck
<1>9. CASE RecordObligationOutcome(p)
  BY <1>9 DEF RecordObligationOutcome
<1>10. CASE RecordCheckEvidence(p)
  BY <1>10 DEF RecordCheckEvidence
<1>11. QED
  BY <1>2, <1>3, <1>4, <1>5, <1>6, <1>7, <1>8, <1>9, <1>10 DEF Request

LEMMA StepElsewhere ==
  ASSUME IInv, NEW p \in Procs, Step(p), ~ReadGates(p), ~EvaluateMove(p)
  PROVE  Elsewhere(p) /\ \A q \in Procs \ {p} : op'[q] = op[q]
<1>1. op[p] \in Ops
  BY DEF IInv, TypeOK
<1>2. \E next : Proceed(p, next)
  BY DEF Step, NextSequence, AppendEvent, FindSource, InsertSource,
         ActiveCheck, ActiveRead, ActiveRow, ActivePut, PlanChecks,
         PlanObligations, LoadResume, Walk, TransitionRead, PutProjection,
         PutGateResult, DeriveVerdicts, UpdateObligation, Return, Emit
<1>3. SUFFICES Elsewhere(p)
  BY <1>2, GoesElsewhere
<1>4. CASE NextSequence(p)
  <2> DEFINE next == [op[p] EXCEPT !.pc = "append", !.seq = Len(log) + 1]
  <2>1. next.pc = "append"
    BY <1>1 DEF Ops
  <2>2. QED
    BY <1>4, <2>1, GoesElsewhere DEF NextSequence
<1>5. CASE AppendEvent(p)
  <2>1. \A s : [op[p] EXCEPT !.pc = "sequence", !.pending = s].pc = "sequence"
    BY <1>1 DEF Ops
  <2>2. QED
    BY <1>5, <2>1, GoesElsewhere DEF AppendEvent
<1>6. ASSUME NEW pc, pc \notin {"evaluate", "put"},
             Proceed(p, [op[p] EXCEPT !.pc = pc])
      PROVE  Elsewhere(p)
  <2>1. [op[p] EXCEPT !.pc = pc].pc = pc
    BY <1>1 DEF Ops
  <2>2. QED
    BY <1>6, <2>1, GoesElsewhere
<1> DEFINE Goes(pc) == Proceed(p, [op[p] EXCEPT !.pc = pc])
<1>13. \A pc : Goes(pc) /\ pc \notin {"evaluate", "put"} => Elsewhere(p)
  BY <1>6
<1> HIDE DEF Goes
<1>7. CASE \/ FindSource(p) \/ InsertSource(p) \/ ActiveCheck(p) \/ ActiveRow(p)
           \/ ActivePut(p) \/ PlanChecks(p) \/ PlanObligations(p)
  <2>1. CASE FindSource(p)
    <3>1. Goes("insert") \/ Emit(p, <<Event("Domain")>>)
      BY <2>1 DEF FindSource, Goes
    <3>2. QED
      BY <1>13, <3>1, GoesElsewhere
  <2>2. CASE InsertSource(p)
    BY <2>2, GoesElsewhere DEF InsertSource
  <2>3. CASE ActiveCheck(p)
    <3>1. Goes("activeRead") \/ Proceed(p, AfterActivation(p))
      BY <2>3 DEF ActiveCheck, Goes
    <3>2. QED
      BY <1>13, <3>1, GoesElsewhere
  <2>4. CASE ActiveRow(p)
    <3>1. Goes("activePut")
      BY <2>4 DEF ActiveRow, Goes
    <3>2. QED
      BY <1>13, <3>1, GoesElsewhere
  <2>5. CASE ActivePut(p)
    BY <2>5, GoesElsewhere DEF ActivePut
  <2>6. CASE PlanChecks(p)
    <3>1. Goes("planObligations")
      BY <2>6 DEF PlanChecks, Goes
    <3>2. QED
      BY <1>13, <3>1, GoesElsewhere
  <2>7. CASE PlanObligations(p)
    BY <2>7, GoesElsewhere DEF PlanObligations
  <2>8. QED
    BY <1>7, <2>1, <2>2, <2>3, <2>4, <2>5, <2>6, <2>7
<1>8. CASE ActiveRead(p) \/ TransitionRead(p)
  <2>1. \A pc : [op[p] EXCEPT !.pc = pc, !.snap = row].pc = pc
    BY <1>1 DEF Ops
  <2>2. QED
    BY <1>8, <2>1, GoesElsewhere DEF ActiveRead, TransitionRead
<1>9. CASE LoadResume(p)
  <2>1. \A record, target :
          [op[p] EXCEPT !.pc = "transition", !.resume = record,
                        !.target = target].pc = "transition"
    BY <1>1 DEF Ops
  <2>2. QED
    BY <1>9, <2>1, GoesElsewhere DEF LoadResume
<1>10. CASE Walk(p)
  <2>1. \A target :
          [Begin("reconcile", "gates") EXCEPT
             !.snap = row, !.expected = row.version,
             !.target = target, !.probe = TRUE].pc = "gates"
    BY DEF Begin, Idle
  <2>2. QED
    BY <1>10, <2>1, GoesElsewhere DEF Walk
<1>11. CASE \/ PutProjection(p) \/ PutGateResult(p)
            \/ DeriveVerdicts(p) \/ UpdateObligation(p)
  <2>1. CASE PutProjection(p)
    BY <2>1, GoesElsewhere DEF PutProjection
  <2>2. CASE PutGateResult(p)
    <3>1. Goes("verdicts") \/ Emit(p, <<Event("ToolRunFinished")>>)
      BY <2>2 DEF PutGateResult, Goes
    <3>2. QED
      BY <1>13, <3>1, GoesElsewhere
  <2>3. CASE DeriveVerdicts(p)
    BY <2>3, GoesElsewhere DEF DeriveVerdicts
  <2>4. CASE UpdateObligation(p)
    BY <2>4, GoesElsewhere DEF UpdateObligation
  <2>5. QED
    BY <1>11, <2>1, <2>2, <2>3, <2>4
<1>12. QED
  BY <1>4, <1>5, <1>7, <1>8, <1>9, <1>10, <1>11 DEF Step

(* The two calls that do concern the gates. *)
LEMMA GatesReadByHandler ==
  ASSUME IInv, GatesRead, NEW p \in Procs, ReadGates(p) \/ EvaluateMove(p)
  PROVE  /\ HasReadGates(op'[p])
         /\ \A q \in Procs \ {p} : op'[q] = op[q]
<1> DEFINE o == op[p]
<1>1. o \in Ops
  BY DEF IInv, TypeOK
<1>2. CASE ReadGates(p)
  <2> DEFINE met == GatesMet(o.snap, o.target)
             next == [o EXCEPT !.pc = "evaluate", !.gatesMet = met]
  <2>1. Proceed(p, next)
    BY <1>2 DEF ReadGates
  <2>2. /\ next.pc = "evaluate" /\ next.gatesMet = met
        /\ next.snap = o.snap /\ next.target = o.target
    <3> HIDE DEF met
    <3>1. QED
      BY <1>1 DEF Ops
  <2>3. op'[p] = next /\ \A q \in Procs \ {p} : op'[q] = op[q]
    <3> HIDE DEF next
    <3>1. QED
      BY <2>1, GoesElsewhere
  <2>4. HasReadGates(op'[p])
    <3> HIDE DEF next
    <3>1. QED
      BY <2>2, <2>3 DEF HasReadGates
  <2>5. QED
    BY <2>3, <2>4
<1>3. CASE EvaluateMove(p)
  <2> DEFINE allowed == Evaluate(o.expected, o.target, o.snap, Presented(p),
                                 INFRASTRUCTURE_BLOCKED, Unmet(p)) = {}
             pc == IF o.probe THEN "transition" ELSE "put"
             next == [o EXCEPT !.probe = FALSE, !.pc = pc]
  <2>1. o.pc = "evaluate"
    BY <1>3 DEF EvaluateMove
  <2>2. CASE allowed
    <3>1. Proceed(p, next)
      BY <1>3, <2>2 DEF EvaluateMove
    <3>2. GatesMet(o.snap, o.target)
      BY <2>1, <2>2, EvaluateAsksForGates
    <3>3. next.snap = o.snap /\ next.target = o.target
      BY <1>1 DEF Ops
    <3>4. op'[p] = next /\ \A q \in Procs \ {p} : op'[q] = op[q]
      <4> HIDE DEF next
      <4>1. QED
        BY <3>1, GoesElsewhere
    <3>5. HasReadGates(op'[p])
      <4> HIDE DEF next
      <4>1. QED
        BY <3>2, <3>3, <3>4 DEF HasReadGates
    <3>6. QED
      BY <3>4, <3>5
  <2>3. CASE ~allowed
    <3>1. Return(p)
      BY <1>3, <2>3 DEF EvaluateMove, WhenBlocked, Return
    <3>2. QED
      BY <3>1, GoesElsewhere DEF Return, Elsewhere, HasReadGates
  <2>4. QED
    BY <2>2, <2>3
<1>4. QED
  BY <1>2, <1>3

LEMMA GatesReadKept ==
  ASSUME Verdicts \subseteq {TRUE}, IInv, GatesRead, [Next]_vars
  PROVE  GatesRead'
<1>1. \A o : HasReadGates(o) => HasReadGates(o)'
  BY PassingGrows DEF HasReadGates, GatesMet
<1>2. ASSUME NEW p \in Procs, Request(p) \/ Step(p) \/ Fail(p)
      PROVE  GatesRead'
  <2>1. \A q \in Procs \ {p} : op'[q] = op[q]
    BY <1>2, RequestElsewhere, StepElsewhere, GatesReadByHandler, GoesElsewhere
       DEF Fail, Return
  <2>2. HasReadGates(op'[p]) \/ Elsewhere(p)
    BY <1>2, RequestElsewhere, StepElsewhere, GatesReadByHandler, GoesElsewhere
       DEF Fail
  <2>3. HasReadGates(op[p])'
    <3>1. PICK o : o = op'[p]
      OBVIOUS
    <3>2. CASE HasReadGates(o)
      BY <1>1, <3>1, <3>2
    <3>3. CASE Elsewhere(p)
      BY <3>3 DEF Elsewhere, HasReadGates
    <3>4. QED
      BY <2>2, <3>1, <3>2, <3>3
  <2>4. QED
    BY <1>1, <2>1, <2>3 DEF GatesRead
<1>3. CASE UNCHANGED vars
  BY <1>3 DEF vars, GatesRead, HasReadGates, GatesMet
<1>4. QED
  BY <1>2, <1>3 DEF Next

(* A write that crosses a rule, by its writer. *)
LEMMA CrossingHasItsGates ==
  ASSUME IInv, GatesRead, [Next]_vars, row' # row,
         NEW rule \in TRANSITION_RULES,
         row.state = rule.from, row'.state = rule.to
  PROVE  {row.active} \X rule.gates \subseteq passing
<1>1. rule.from # rule.to /\ rule.from \in FlowStates
  BY RulesMove
<1>2. ASSUME NEW p \in Procs, CreateJob(p)
      PROVE  FALSE
  BY <1>1, <1>2, StateNames DEF CreateJob, NoRow
<1>3. ASSUME NEW p \in Procs, ActivePut(p)
      PROVE  FALSE
  <2>1. op[p].pc = "activePut" /\ row.version = op[p].snap.version
    BY <1>3 DEF ActivePut
  <2>2. op[p].snap = row /\ row \in Rows
    BY <2>1, StepStarts DEF Knows, Reading
  <2>3. row' = [row EXCEPT !.active = op[p].cand, !.version = @ + 1]
    BY <1>3, <2>1, <2>2 DEF ActivePut, Activated
  <2>4. row'.state = row.state
    BY <2>2, <2>3 DEF Rows
  <2>5. QED
    BY <1>1, <2>4
<1>4. ASSUME NEW p \in Procs, PutProjection(p)
      PROVE  {row.active} \X rule.gates \subseteq passing
  <2>1. op[p].pc = "put" /\ row.version = op[p].expected
    BY <1>4 DEF PutProjection, NotOverwritten, jobVars
  <2>2. op[p].snap = row /\ row \in Rows
    BY <2>1, StepStarts DEF Knows, Reading, Moving
  <2>3. row' = [row EXCEPT !.state = op[p].target, !.version = op[p].expected + 1]
    BY <1>4, <2>1, <2>2 DEF PutProjection, NotOverwritten
  <2>4. op[p].target = rule.to
    BY <2>2, <2>3 DEF Rows
  <2>5. rule \in RulesFor(row.state, op[p].target)
    BY <2>4 DEF RulesFor
  <2>6. \A stage \in rule.gates : <<row.active, stage>> \in passing
    BY <2>1, <2>2, <2>5 DEF GatesRead, HasReadGates, GatesMet
  <2>7. QED
    BY <2>6
<1>5. QED
  BY <1>2, <1>3, <1>4, RowWriters

(* With verdicts that are never taken back, no rule is crossed without its *)
(* gates passed by the candidate that is active as it is crossed, however  *)
(* many candidates are captured and activated while moves are under way.   *)
THEOREM CrossingsSound ==
  ASSUME Verdicts \subseteq {TRUE}
  PROVE  Spec => CrossingsProven
<1>1. Init => GatesRead
  BY DEF Init, GatesRead, HasReadGates, Idle
<1>2. IInv /\ GatesRead /\ [Next]_vars => GatesRead'
  BY GatesReadKept
<1>3. IInv /\ GatesRead /\ [Next]_vars =>
        [\A rule \in TRANSITION_RULES :
           row.state = rule.from /\ row'.state = rule.to =>
             {row.active} \X rule.gates \subseteq passing]_row
  BY CrossingHasItsGates
<1>4. QED
  BY <1>1, <1>2, <1>3, Invariant, PTL DEF Spec, CrossingsProven

-----------------------------------------------------------------------------
(* The event log.                                                          *)

RowEvent(e) == e.type \in {"Transitioned", "CandidateActivated"}

(* What a replay reads a row from: those, and the birth of the job. *)
Tells(e) == RowEvent(e) \/ e.type = "JobCreated"

(* The event a handler appends next. *)
Held(p) == op[p].pending[1]

Holders == {p \in Procs : Len(op[p].pending) > 0 /\ RowEvent(Held(p))}

(* Who accounts for what became of the row, and what they say. *)
Sources == ({"log"} \X RowEvents) \cup ({"op"} \X Holders)

Says(s) == IF s[1] = "log" THEN log[s[2]] ELSE Held(s[2])

(* What an event says of its version is so, if it is the row's version. *)
Current(e, r) ==
  /\ e.after.version \in 1..r.version
  /\ e.after.version = r.version => e.after = r

(* If f took the version after e's, it started from what e left. *)
Fits(e, f) ==
  /\ f.after.version = e.after.version + 1
  /\ f.type = "Transitioned"
  => /\ f.after.active = e.after.active
     /\ e.type = "Transitioned" => f.from = e.after.state

Agree(e, f) == e.after.version # f.after.version /\ Fits(e, f) /\ Fits(f, e)

(* After the next event a handler appends, none is about the row. *)
RestSilent(s) == \A i \in 2..Len(s) : ~Tells(s[i])

OneAccount ==
  /\ \A s \in Sources : Current(Says(s), row)
  /\ \A s, t \in Sources : s # t => Agree(Says(s), Says(t))
  /\ \A p \in Procs : RestSilent(op[p].pending)

(* What handlers hold that has nothing to do with the row. *)
Silent(s) == \A i \in 1..Len(s) : ~Tells(s[i])

-----------------------------------------------------------------------------
(* A step of a handler that leaves row and log alone, and after which it   *)
(* holds the events it held, or none about the row.                        *)
LEMMA QuietStep ==
  ASSUME OneAccount, NEW p \in Procs,
         \A q \in Procs \ {p} : op'[q] = op[q],
         op'[p].pending = op[p].pending \/ Silent(op'[p].pending),
         log' = log, row' = row \/ Sources = {}
  PROVE  OneAccount'
<1>1. \A q \in Procs : op'[q].pending = op[q].pending \/ Silent(op'[q].pending)
  OBVIOUS
<1>2. ASSUME NEW s \in Sources'
      PROVE  s \in Sources /\ Says(s)' = Says(s)
  <2>1. CASE s[1] = "log"
    BY <2>1 DEF Sources, RowEvents, RowEvent, Says
  <2>2. CASE s[1] = "op"
    <3>1. /\ s = <<"op", s[2]>> /\ s[2] \in Procs
          /\ Len(op'[s[2]].pending) > 0 /\ RowEvent(op'[s[2]].pending[1])
      BY <2>2 DEF Sources, Holders, Held
    <3>2. ~Silent(op'[s[2]].pending)
      BY <3>1 DEF Silent, Tells
    <3>3. op'[s[2]].pending = op[s[2]].pending
      BY <1>1, <3>1, <3>2
    <3>4. QED
      BY <2>2, <3>1, <3>3 DEF Sources, Holders, Held, Says
  <2>3. QED
    BY <2>1, <2>2 DEF Sources
<1>3. \A s \in Sources' : Current(Says(s)', row')
  BY <1>2 DEF OneAccount
<1>4. \A s, t \in Sources' : s # t => Agree(Says(s)', Says(t)')
  BY <1>2 DEF OneAccount
<1>5. ASSUME NEW q \in Procs PROVE RestSilent(op'[q].pending)
  BY <1>1 DEF OneAccount, RestSilent, Silent
<1>6. QED
  BY <1>3, <1>4, <1>5 DEF OneAccount

(* The event a handler held becomes the last of the log: the same account, *)
(* told by another.                                                        *)
LEMMA AppendedEvent ==
  ASSUME IInv, OneAccount, NEW p \in Procs, NEW next,
         Len(op[p].pending) > 0,
         op' = [op EXCEPT ![p] = next],
         next.pending = Tail(op[p].pending) \/ Silent(next.pending),
         log' = Append(log, Head(op[p].pending)), row' = row
  PROVE  OneAccount'
<1> DEFINE last == Len(log) + 1
           was(s) == IF s = <<"log", last>> THEN <<"op", p>> ELSE s
           pending == op[p].pending
<1>1. \A q \in Procs : op'[q] = IF q = p THEN next ELSE op[q]
  BY DEF IInv, TypeOK
<1>2. pending \in Seq(Events) /\ log \in Seq(Events) /\ Len(log) \in Nat
      /\ pending # << >> /\ Head(pending) = pending[1]
  BY LenProperties DEF IInv, TypeOK, Ops
<1>3. /\ Len(log') = last
      /\ \A i \in 1..last : log'[i] = IF i = last THEN Held(p) ELSE log[i]
  BY <1>2, AppendProperties DEF Held
<1>4. Silent(next.pending)
  <2>1. CASE next.pending = Tail(pending)
    <3>1. /\ Len(Tail(pending)) = Len(pending) - 1 /\ Len(pending) \in Nat
          /\ \A i \in 1..Len(Tail(pending)) : Tail(pending)[i] = pending[i + 1]
      BY <1>2, HeadTailProperties, LenProperties
    <3>2. RestSilent(pending)
      BY DEF OneAccount
    <3>3. QED
      BY <2>1, <3>1, <3>2 DEF Silent, RestSilent
  <2>2. QED
    BY <2>1
<1>5. ASSUME NEW s \in Sources'
      PROVE  was(s) \in Sources /\ Says(s)' = Says(was(s))
  <2>1. CASE s[1] = "log"
    <3>1. /\ s = <<"log", s[2]>> /\ s[2] \in 1..last /\ RowEvent(log'[s[2]])
      BY <1>3, <2>1 DEF Sources, RowEvents, RowEvent
    <3>2. CASE s[2] = last
      BY <1>3, <3>1, <3>2 DEF Sources, Holders, Says, Held
    <3>3. CASE s[2] # last
      <4>1. s[2] \in 1..Len(log) /\ log'[s[2]] = log[s[2]] /\ was(s) = s
        BY <1>2, <1>3, <3>1, <3>3
      <4>2. QED
        BY <2>1, <3>1, <4>1 DEF Sources, RowEvents, RowEvent, Says
    <3>4. QED
      BY <3>2, <3>3
  <2>2. CASE s[1] = "op"
    <3>1. /\ s = <<"op", s[2]>> /\ s[2] \in Procs
          /\ Len(op'[s[2]].pending) > 0 /\ RowEvent(op'[s[2]].pending[1])
      BY <2>2 DEF Sources, Holders, Held
    <3>2. s[2] # p
      <4>1. SUFFICES ASSUME s[2] = p PROVE FALSE
        OBVIOUS
      <4>2. Len(next.pending) > 0 /\ RowEvent(next.pending[1])
        BY <1>1, <3>1, <4>1
      <4>3. QED
        BY <1>4, <4>2 DEF Silent, Tells
    <3>3. op'[s[2]] = op[s[2]] /\ was(s) = s
      BY <1>1, <2>2, <3>1, <3>2
    <3>4. QED
      BY <2>2, <3>1, <3>3 DEF Sources, Holders, Held, Says
  <2>3. QED
    BY <2>1, <2>2 DEF Sources
<1>6. ASSUME NEW s \in Sources', NEW t \in Sources', s # t
      PROVE  was(s) # was(t)
  <2>1. <<"op", p>> \notin Sources'
    <3>1. SUFFICES ASSUME p \in Holders' PROVE FALSE
      BY DEF Sources
    <3>2. QED
      BY <1>1, <1>4, <3>1 DEF Holders, Held, Silent, Tells
  <2>2. QED
    BY <1>6, <2>1
<1>7. \A s \in Sources' : Current(Says(s)', row')
  BY <1>5 DEF OneAccount
<1>8. \A s, t \in Sources' : s # t => Agree(Says(s)', Says(t)')
  BY <1>5, <1>6 DEF OneAccount
<1>9. ASSUME NEW q \in Procs PROVE RestSilent(op'[q].pending)
  BY <1>1, <1>4 DEF OneAccount, RestSilent, Silent
<1>10. QED
  BY <1>7, <1>8, <1>9 DEF OneAccount

(* A write of the row, whose event the handler now holds. *)
LEMMA WrittenRow ==
  ASSUME IInv, OneAccount, NEW p \in Procs, NEW next, NEW e,
         op' = [op EXCEPT ![p] = next],
         row.version \in Nat, row'.version = row.version + 1,
         e.after = row', RowEvent(e),
         e.type = "Transitioned" => row'.active = row.active /\ e.from = row.state,
         Len(next.pending) > 0, next.pending[1] = e, RestSilent(next.pending),
         log' = log
  PROVE  OneAccount'
<1> DEFINE new == <<"op", p>>
<1>1. \A q \in Procs : op'[q] = IF q = p THEN next ELSE op[q]
  BY DEF IInv, TypeOK
<1>2. Says(new)' = e
  BY <1>1 DEF Says, Held
<1>3. ASSUME NEW s \in Sources', s # new
      PROVE  s \in Sources /\ Says(s)' = Says(s)
  <2>1. CASE s[1] = "log"
    BY <2>1 DEF Sources, RowEvents, RowEvent, Says
  <2>2. CASE s[1] = "op"
    <3>1. s = <<"op", s[2]>> /\ s[2] \in Procs /\ s[2] # p /\ s[2] \in Holders'
      BY <1>3, <2>2 DEF Sources, Holders
    <3>2. op'[s[2]] = op[s[2]]
      BY <1>1, <3>1
    <3>3. QED
      BY <2>2, <3>1, <3>2 DEF Sources, Holders, Held, Says
  <2>3. QED
    BY <2>1, <2>2 DEF Sources
<1>4. ASSUME NEW o, Current(o, row)
      PROVE  Current(o, row') /\ Agree(o, e) /\ Agree(e, o)
  <2>1. /\ o.after.version \in 1..row.version
        /\ o.after.version = row.version => o.after = row
    BY <1>4 DEF Current
  <2>2. Current(o, row')
    BY <2>1 DEF Current
  <2>3. o.after.version # e.after.version /\ Fits(e, o)
    BY <2>1 DEF Fits
  <2>4. Fits(o, e)
    BY <2>1 DEF Fits
  <2>5. QED
    BY <2>2, <2>3, <2>4 DEF Agree
<1>5. Current(e, row')
  BY DEF Current
<1>6. \A s \in Sources' : Current(Says(s)', row')
  BY <1>2, <1>3, <1>4, <1>5 DEF OneAccount
<1>7. ASSUME NEW s \in Sources', NEW t \in Sources', s # t
      PROVE  Agree(Says(s)', Says(t)')
  <2>1. CASE s # new /\ t # new
    BY <1>3, <1>7, <2>1 DEF OneAccount
  <2>2. CASE s = new /\ t # new
    <3>1. Current(Says(t), row) /\ Says(t)' = Says(t)
      BY <1>3, <2>2 DEF OneAccount
    <3>2. QED
      BY <1>2, <1>4, <2>2, <3>1
  <2>3. CASE s # new /\ t = new
    <3>1. Current(Says(s), row) /\ Says(s)' = Says(s)
      BY <1>3, <2>3 DEF OneAccount
    <3>2. QED
      BY <1>2, <1>4, <2>3, <3>1
  <2>4. QED
    BY <1>7, <2>1, <2>2, <2>3
<1>8. ASSUME NEW q \in Procs PROVE RestSilent(op'[q].pending)
  BY <1>1 DEF OneAccount
<1>9. QED
  BY <1>6, <1>7, <1>8 DEF OneAccount

-----------------------------------------------------------------------------
(* The actions.                                                            *)

LEMMA SilentEvents ==
  /\ Silent(<< >>)
  /\ Silent(<<Event("Domain")>>)
  /\ Silent(<<Event("ToolRunFinished")>>)
BY DEF Silent, Tells, RowEvent, Event

LEMMA CreateJobAccount ==
  ASSUME IInv, OneAccount, NEW p \in Procs, CreateJob(p)
  PROVE  OneAccount'
<1> DEFINE events == <<JobCreated(BirthRow), Event("Domain")>>
           next == [Begin("create", "sequence") EXCEPT !.pending = events]
<1>1. log = << >> /\ op = [q \in Procs |-> Idle]
  BY DEF CreateJob, IInv, HandlersKnow
<1>2. log' = log /\ op' = [op EXCEPT ![p] = next] /\ next.pending = events
  BY DEF CreateJob, Proceed, Begin, Idle
<1> HIDE DEF next
<1>3. \A q \in Procs : op'[q].pending = IF q = p THEN events ELSE << >>
  BY <1>1, <1>2 DEF Idle
<1>4. /\ Len(events) = 2 /\ ~RowEvent(events[1]) /\ ~Tells(events[2])
  BY DEF JobCreated, Event, RowEvent, Tells
<1> HIDE DEF events
<1>5. Sources' = {}
  <2>1. RowEvents' = {}
    BY <1>1, <1>2 DEF RowEvents
  <2>2. Holders' = {}
    BY <1>3, <1>4 DEF Holders, Held
  <2>3. QED
    BY <2>1, <2>2 DEF Sources
<1>6. \A q \in Procs : RestSilent(op'[q].pending)
  BY <1>3, <1>4 DEF RestSilent
<1>7. QED
  BY <1>5, <1>6 DEF OneAccount

(* A handler that goes on holding what it held, or nothing about the row.  *)
Quiet(p) ==
  /\ \A q \in Procs \ {p} : op'[q] = op[q]
  /\ op'[p].pending = op[p].pending \/ Silent(op'[p].pending)

LEMMA AcceptQuiet ==
  ASSUME IInv, NEW p \in Procs, NEW request, Accept(p, request),
         Silent(request.pending)
  PROVE  log' = log /\ row' = row /\ Quiet(p)
BY DEF Accept, Proceed, jobVars, Quiet, IInv, TypeOK

(* The requests that leave row and log alone: all but the birth of the job.*)
LEMMA RequestQuiet ==
  ASSUME IInv, NEW p \in Procs, Request(p), ~CreateJob(p)
  PROVE  log' = log /\ row' = row /\ Quiet(p)
<1> USE SilentEvents, AcceptQuiet DEF Begin, Idle
<1>1. ASSUME NEW c \in Candidates, CaptureCandidate(p, c) \/ SetActiveCandidate(p, c)
      PROVE  log' = log /\ row' = row /\ Quiet(p)
  BY <1>1 DEF CaptureCandidate, SetActiveCandidate
<1>2. ASSUME NEW s \in DirectTargets, Transition(p, s)
      PROVE  log' = log /\ row' = row /\ Quiet(p)
  BY <1>2 DEF Transition
<1>3. CASE EnterHumanReview(p)
  BY <1>3 DEF EnterHumanReview
<1>4. CASE ResumeJob(p)
  BY <1>4 DEF ResumeJob
<1>5. CASE Reconcile(p)
  BY <1>5 DEF Reconcile
<1>6. ASSUME NEW s \in CheckStages, RunCheck(p, s)
      PROVE  log' = log /\ row' = row /\ Quiet(p)
  BY <1>6 DEF RunCheck
<1>7. CASE RecordObligationOutcome(p)
  BY <1>7 DEF RecordObligationOutcome
<1>8. CASE RecordCheckEvidence(p)
  BY <1>8 DEF RecordCheckEvidence
<1>9. QED
  BY <1>1, <1>2, <1>3, <1>4, <1>5, <1>6, <1>7, <1>8 DEF Request

LEMMA RequestAccount ==
  ASSUME IInv, OneAccount, NEW p \in Procs, Request(p)
  PROVE  OneAccount'
BY CreateJobAccount, RequestQuiet, QuietStep DEF Quiet

LEMMA QuietCalls ==
  ASSUME IInv, NEW p \in Procs
  PROVE  /\ Return(p) => Quiet(p)
         /\ Proceed(p, AfterActivation(p)) => Quiet(p)
         /\ \A events : Emit(p, events) /\ Silent(events) => Quiet(p)
         /\ \A next : Proceed(p, next) /\ next.pending = op[p].pending => Quiet(p)
         /\ \A next : Proceed(p, next) /\ next.pending = << >> => Quiet(p)
<1>1. op \in [Procs -> Ops]
  BY DEF IInv, TypeOK
<1>2. ASSUME NEW next, Proceed(p, next)
      PROVE  op'[p] = next /\ \A q \in Procs \ {p} : op'[q] = op[q]
  BY <1>1, <1>2 DEF Proceed
<1>3. Return(p) => Quiet(p)
  BY <1>2, SilentEvents DEF Return, Quiet, Idle
<1>4. Proceed(p, AfterActivation(p)) => Quiet(p)
  <2>1. AfterActivation(p).pending = << >>
    BY DEF AfterActivation, Begin, Idle
  <2>2. QED
    BY <1>2, <2>1, SilentEvents DEF Quiet
<1>5. ASSUME NEW events, Emit(p, events), Silent(events)
      PROVE  Quiet(p)
  <2> DEFINE next == [Begin(op[p].cmd, "sequence") EXCEPT
                        !.pending = events, !.cand = op[p].cand]
  <2>1. next.pending = events /\ Proceed(p, next)
    BY <1>5 DEF Emit, Begin, Idle
  <2>2. QED
    BY <1>2, <1>5, <2>1 DEF Quiet
<1>6. QED
  BY <1>2, <1>3, <1>4, <1>5, SilentEvents DEF Quiet

(* The calls that leave row and log alone. *)
LEMMA QuietSteps ==
  ASSUME IInv, NEW p \in Procs,
         \/ NextSequence(p) \/ FindSource(p) \/ InsertSource(p)
         \/ ActiveCheck(p) \/ ActiveRead(p) \/ ActiveRow(p)
         \/ PlanChecks(p) \/ PlanObligations(p) \/ LoadResume(p) \/ Walk(p)
         \/ TransitionRead(p) \/ ReadGates(p) \/ EvaluateMove(p)
         \/ PutGateResult(p) \/ DeriveVerdicts(p) \/ UpdateObligation(p)
  PROVE  log' = log /\ row' = row /\ Quiet(p)
<1>1. op[p] \in Ops
  BY DEF IInv, TypeOK
<1>2. CASE NextSequence(p)
  <2> DEFINE next == [op[p] EXCEPT !.pc = "append", !.seq = Len(log) + 1]
  <2>1. next.pending = op[p].pending
    BY <1>1 DEF Ops
  <2>2. QED
    BY <1>2, <2>1, QuietCalls DEF NextSequence, ReadsOnly, jobVars
<1>3. CASE FindSource(p) \/ InsertSource(p)
  <2>1. [op[p] EXCEPT !.pc = "insert"].pending = op[p].pending
    BY <1>1 DEF Ops
  <2>2. QED
    BY <1>3, <2>1, QuietCalls, SilentEvents
       DEF FindSource, InsertSource, ReadsOnly, jobVars
<1>4. CASE ActiveCheck(p) \/ ActiveRead(p) \/ ActiveRow(p)
  <2>1. /\ [op[p] EXCEPT !.pc = "activeRead"].pending = op[p].pending
        /\ [op[p] EXCEPT !.pc = "activeRow", !.snap = row].pending = op[p].pending
        /\ [op[p] EXCEPT !.pc = "activePut"].pending = op[p].pending
    BY <1>1 DEF Ops
  <2>2. QED
    BY <1>4, <2>1, QuietCalls
       DEF ActiveCheck, ActiveRead, ActiveRow, ReadsOnly, jobVars
<1>5. CASE PlanChecks(p) \/ PlanObligations(p)
  <2>1. [op[p] EXCEPT !.pc = "planObligations"].pending = op[p].pending
    BY <1>1 DEF Ops
  <2>2. QED
    BY <1>5, <2>1, QuietCalls DEF PlanChecks, PlanObligations, jobVars
<1>6. CASE LoadResume(p)
  <2>1. \A record, target :
          [op[p] EXCEPT !.pc = "transition", !.resume = record,
                        !.target = target].pending = op[p].pending
    BY <1>1 DEF Ops
  <2>2. log' = log /\ row' = row
    BY <1>6 DEF LoadResume, ReadsOnly, jobVars
  <2>3. Return(p) \/ \E next : Proceed(p, next) /\ next.pending = op[p].pending
    <3>1. SUFFICES ASSUME ~Return(p)
                   PROVE  \E next : Proceed(p, next) /\ next.pending = op[p].pending
      OBVIOUS
    <3>2. PICK i : Proceed(p, [op[p] EXCEPT !.pc = "transition",
                                            !.resume = log[i].resume,
                                            !.target = log[i].resume.to])
      BY <1>6, <3>1 DEF LoadResume
    <3>3. QED
      BY <2>1, <3>2
  <2>4. QED
    BY <2>2, <2>3, QuietCalls
<1>7. CASE Walk(p)
  <2>1. \A target :
          [Begin("reconcile", "gates") EXCEPT
             !.snap = row, !.expected = row.version,
             !.target = target, !.probe = TRUE].pending = << >>
    BY DEF Begin, Idle
  <2>2. log' = log /\ row' = row
    BY <1>7 DEF Walk, ReadsOnly, jobVars
  <2>3. Return(p) \/ \E next : Proceed(p, next) /\ next.pending = << >>
    BY <1>7, <2>1 DEF Walk
  <2>4. QED
    BY <2>2, <2>3, QuietCalls
<1>8. CASE TransitionRead(p)
  <2>1. [op[p] EXCEPT !.pc = "gates", !.snap = row].pending = op[p].pending
    BY <1>1 DEF Ops
  <2>2. QED
    BY <1>8, <2>1, QuietCalls DEF TransitionRead, ReadsOnly, jobVars
<1>9. CASE ReadGates(p)
  <2>1. \A met : [op[p] EXCEPT !.pc = "evaluate", !.gatesMet = met].pending
                   = op[p].pending
    BY <1>1 DEF Ops
  <2>2. QED
    BY <1>9, <2>1, QuietCalls DEF ReadGates, ReadsOnly, jobVars
<1>10. CASE EvaluateMove(p)
  <2>1. \A pc : [op[p] EXCEPT !.probe = FALSE, !.pc = pc].pending = op[p].pending
    BY <1>1 DEF Ops
  <2>2. WhenBlocked(p).pending = << >>
    BY DEF WhenBlocked, Idle
  <2>3. QED
    BY <1>10, <2>1, <2>2, QuietCalls DEF EvaluateMove, ReadsOnly, jobVars
<1>11. CASE PutGateResult(p)
  <2>1. [op[p] EXCEPT !.pc = "verdicts"].pending = op[p].pending
    BY <1>1 DEF Ops
  <2>2. QED
    BY <1>11, <2>1, QuietCalls, SilentEvents DEF PutGateResult, jobVars
<1>12. CASE DeriveVerdicts(p) \/ UpdateObligation(p)
  BY <1>12, QuietCalls, SilentEvents DEF DeriveVerdicts, UpdateObligation, jobVars
<1>13. QED
  BY <1>2, <1>3, <1>4, <1>5, <1>6, <1>7, <1>8, <1>9, <1>10, <1>11, <1>12

LEMMA AppendEventAccount ==
  ASSUME IInv, OneAccount, NEW p \in Procs, AppendEvent(p)
  PROVE  OneAccount'
<1> DEFINE o == op[p]
           next == IF Tail(o.pending) = << >> THEN AfterAppend(p)
                   ELSE [o EXCEPT !.pc = "sequence", !.pending = Tail(@)]
<1>1. o.pc = "append" /\ row' = row
  BY DEF AppendEvent, jobVars
<1>2. o \in Ops /\ Knows(o, row) /\ o.pending \in Seq(SoundEvents)
  BY <1>1, StepStarts
<1>3. CASE log' = Append(log, Head(o.pending)) /\ Proceed(p, next)
  <2>1. o.pending # << >>
    BY <1>1, <1>2 DEF Knows
  <2>2. Len(o.pending) > 0
    BY <1>2, <2>1, EmptySeq, LenProperties
  <2>3. AfterAppend(p).pending = << >>
    BY DEF AfterAppend, AfterActivation, Begin, Idle
  <2>4. next.pending = Tail(o.pending) \/ Silent(next.pending)
    BY <1>2, <2>3, SilentEvents DEF Ops
  <2>5. QED
    <3> HIDE DEF next
    <3>1. QED
      BY <1>1, <1>3, <2>2, <2>4, AppendedEvent DEF Proceed
<1>4. CASE log' = log /\ Return(p)
  BY <1>1, <1>4, QuietCalls, QuietStep DEF Quiet
<1>5. QED
  BY <1>3, <1>4 DEF AppendEvent

LEMMA ActivePutAccount ==
  ASSUME IInv, OneAccount, NEW p \in Procs, ActivePut(p)
  PROVE  OneAccount'
<1> DEFINE o == op[p]
           activated == CandidateActivated(row')
           events == <<activated>>
           next == [Begin(o.cmd, "sequence") EXCEPT
                      !.pending = events, !.cand = o.cand]
<1>1. o.pc = "activePut" /\ log' = log
  BY DEF ActivePut
<1>2. Knows(o, row) /\ row \in Rows /\ row.version \in Nat
  BY <1>1, StepStarts
<1>3. CASE row.version = o.snap.version
  <2>1. o.snap = row
    BY <1>1, <1>2, <1>3 DEF Knows, Reading
  <2>2. row'.version = row.version + 1
    BY <1>2, <1>3, <2>1 DEF ActivePut, Activated, Rows
  <2>3. Proceed(p, next) /\ next.pending = events
    BY <1>3 DEF ActivePut, Emit, Begin, Idle
  <2>4. /\ activated.after = row'
        /\ RowEvent(activated) /\ activated.type # "Transitioned"
    BY DEF CandidateActivated, Event, RowEvent
  <2>5. Len(events) > 0 /\ events[1] = activated /\ RestSilent(events)
    BY DEF RestSilent
  <2>6. QED
    <3> HIDE DEF next, events, activated
    <3>1. QED
      BY <1>1, <1>2, <2>2, <2>3, <2>4, <2>5, WrittenRow DEF Proceed
<1>4. CASE row.version # o.snap.version
  BY <1>1, <1>4, QuietCalls, QuietStep DEF ActivePut, Quiet
<1>5. QED
  BY <1>3, <1>4

LEMMA PutProjectionAccount ==
  ASSUME IInv, OneAccount, NEW p \in Procs, PutProjection(p)
  PROVE  OneAccount'
<1> DEFINE o == op[p]
           moved == Transitioned(o.snap, row')
           events == MoveEvents(p, row')
           next == [Begin(o.cmd, "sequence") EXCEPT
                      !.pending = events, !.cand = o.cand]
<1>1. o.pc = "put" /\ log' = log
  BY DEF PutProjection
<1>2. Knows(o, row) /\ row \in Rows /\ row.version \in Nat
  BY <1>1, StepStarts
<1>3. CASE row.version = o.expected
  <2>1. o.snap = row
    BY <1>1, <1>2, <1>3 DEF Knows, Reading, Moving
  <2>2. row'.version = row.version + 1 /\ row'.active = row.active
    BY <1>2, <1>3, <2>1 DEF PutProjection, NotOverwritten, Rows
  <2>3. Proceed(p, next) /\ next.pending = events
    BY <1>3 DEF PutProjection, NotOverwritten, Emit, Begin, Idle
  <2>4. moved.after = row' /\ moved.type = "Transitioned" /\ moved.from = row.state
    BY <2>1 DEF Transitioned, Event
  <2>5. Len(events) > 0 /\ events[1] = moved /\ RestSilent(events)
    <3> DEFINE record == ResumeRecorded(o.resume)
    <3>1. ~Tells(record)
      BY DEF Tells, RowEvent, ResumeRecorded, Event
    <3>2. events = <<moved>> \o IF o.cmd = "review" THEN <<record>> ELSE << >>
      BY DEF MoveEvents
    <3> DEFINE records == IF o.cmd = "review" THEN <<record>> ELSE << >>
    <3> HIDE DEF moved, record, events
    <3>3. /\ <<moved>> \in Seq({moved, record}) /\ Len(<<moved>>) = 1
          /\ records \in Seq({moved, record}) /\ Len(records) \in {0, 1}
          /\ \A i \in 1..Len(records) : records[i] = record
      BY EmptySeq
    <3> HIDE DEF records
    <3>4. /\ Len(events) = 1 + Len(records)
          /\ \A i \in 1..Len(events) :
               events[i] = IF i = 1 THEN moved ELSE records[i - 1]
      BY <3>2, <3>3, ConcatProperties DEF records
    <3>5. QED
      BY <3>1, <3>3, <3>4 DEF RestSilent
  <2>6. QED
    <3> HIDE DEF next, events, moved
    <3>1. QED
      BY <1>1, <1>2, <2>2, <2>3, <2>4, <2>5, WrittenRow DEF Proceed, RowEvent
<1>4. CASE row.version # o.expected
  BY <1>1, <1>4, QuietCalls, QuietStep DEF PutProjection, NotOverwritten, jobVars, Quiet
<1>5. QED
  BY <1>3, <1>4

-----------------------------------------------------------------------------
(* The invariant, and what it says of the log alone.                       *)

LEMMA InitAccount == Init => OneAccount
<1> SUFFICES ASSUME Init PROVE OneAccount
  OBVIOUS
<1>1. log = << >> /\ \A p \in Procs : op[p].pending = << >>
  BY DEF Init, Idle
<1>2. Sources = {}
  BY <1>1 DEF Sources, RowEvents, Holders
<1>3. QED
  BY <1>1, <1>2 DEF OneAccount, RestSilent

LEMMA NextAccount == IInv /\ OneAccount /\ [Next]_vars => OneAccount'
<1> SUFFICES ASSUME IInv, OneAccount, [Next]_vars PROVE OneAccount'
  OBVIOUS
<1>1. ASSUME NEW p \in Procs, Request(p)
      PROVE  OneAccount'
  BY <1>1, RequestAccount
<1>2. ASSUME NEW p \in Procs, Step(p)
      PROVE  OneAccount'
  BY <1>2, AppendEventAccount, ActivePutAccount, PutProjectionAccount,
     QuietSteps, QuietStep DEF Step, Quiet
<1>3. ASSUME NEW p \in Procs, Fail(p)
      PROVE  OneAccount'
  BY <1>3, QuietCalls, QuietStep DEF Fail, Quiet, jobVars
<1>4. CASE UNCHANGED vars
  BY <1>4 DEF vars, OneAccount, Sources, RowEvents, Holders, Held, Says, RestSilent
<1>5. QED
  BY <1>1, <1>2, <1>3, <1>4 DEF Next

(* Events written and events appended are one account of the row's         *)
(* history, whatever order the appends come in.                            *)
THEOREM Account == Spec => []OneAccount
BY InitAccount, NextAccount, Invariant, PTL DEF Spec

(* The log tells one history: however appends interleave and wherever      *)
(* handlers stop, no version is claimed twice and neighbours fit together. *)
THEOREM LogSound == Spec => []LogTellsOneHistory
<1>1. IInv /\ OneAccount => LogTellsOneHistory
  <2> SUFFICES ASSUME IInv, OneAccount, NEW i \in RowEvents, NEW j \in RowEvents
               PROVE  /\ Current(log[i], row)
                      /\ i # j => Agree(log[i], log[j])
    BY DEF LogTellsOneHistory, Current, Agree, Fits
  <2>1. /\ <<"log", i>> \in Sources /\ Says(<<"log", i>>) = log[i]
        /\ <<"log", j>> \in Sources /\ Says(<<"log", j>>) = log[j]
    BY DEF Sources, Says
  <2>2. QED
    BY <2>1 DEF OneAccount
<1>2. QED
  BY <1>1, Invariant, Account, PTL

-----------------------------------------------------------------------------
(* What the log loses when requests come one at a time.                    *)

Alone == \A p, q \in Procs : p = q

(* Between two requests for a number and an append nothing is held, and    *)
(* nobody else appends under a number that was given out.                  *)
Unburdened(o) == o.pc \notin {"sequence", "append"} => o.pending = << >>
Placed(o) == o.pc = "append" => o.seq = Len(log) + 1

(* The versions nobody accounts for, neither the log nor a handler that is *)
(* still at work.                                                          *)
Unaccounted == (1..row.version) \ {Says(s).after.version : s \in Sources}

LossInv ==
  /\ \A p \in Procs : Unburdened(op[p]) /\ Placed(op[p])
  /\ Cardinality(Unaccounted) <= failures

LEMMA UnaccountedFinite ==
  ASSUME row.version \in Nat
  PROVE  IsFiniteSet(Unaccounted) /\ Cardinality(Unaccounted) \in Nat
<1>1. IsFiniteSet(1..row.version)
  BY FS_Interval
<1>2. Unaccounted \in SUBSET (1..row.version)
  BY DEF Unaccounted
<1>3. IsFiniteSet(Unaccounted)
  BY <1>1, <1>2, FS_Subset
<1>4. QED
  BY <1>3, FS_CardinalityType

LEMMA VersionIsNat ==
  ASSUME IInv PROVE row.version \in Nat
BY DEF IInv, TypeOK, Rows, NoRow

LEMMA FewerUnaccounted ==
  ASSUME row.version \in Nat, Unaccounted' \subseteq Unaccounted
  PROVE  Cardinality(Unaccounted') <= Cardinality(Unaccounted)
<1>1. Unaccounted' \in SUBSET Unaccounted
  OBVIOUS
<1>2. QED
  BY <1>1, UnaccountedFinite, FS_Subset

(* Of those who speak, none falls silent, and the row stays.               *)
LEMMA AllStillSpeak ==
  ASSUME row' = row,
         \A s \in Sources : \E t \in Sources' : Says(t)' = Says(s)
  PROVE  Unaccounted' \subseteq Unaccounted
<1> SUFFICES ASSUME NEW v \in Unaccounted', v \notin Unaccounted
             PROVE  FALSE
  OBVIOUS
<1>1. v \in 1..row.version /\ v \notin {Says(t).after.version : t \in Sources}'
  BY DEF Unaccounted
<1>2. PICK s \in Sources : v = Says(s).after.version
  BY <1>1 DEF Unaccounted
<1>3. PICK t \in Sources' : Says(t)' = Says(s)
  OBVIOUS
<1>4. Says(t)'.after.version = v
  BY <1>2, <1>3
<1>5. QED
  BY <1>1, <1>3, <1>4

-----------------------------------------------------------------------------
(* A call of a handler that held nothing, and that leaves row and log.     *)
QuietCall(p) ==
  \E next : Proceed(p, next) /\ Unburdened(next) /\ next.pc # "append"

LEMMA QuietCallLoss ==
  ASSUME IInv, LossInv, Alone, NEW p \in Procs, QuietCall(p),
         op[p].pending = << >>, log' = log, row' = row, failures' = failures
  PROVE  LossInv'
<1>1. PICK next : Proceed(p, next) /\ Unburdened(next) /\ next.pc # "append"
  BY DEF QuietCall
<1>2. \A q \in Procs : q = p /\ op'[q] = next
  BY <1>1 DEF Proceed, IInv, TypeOK, Alone
<1>3. \A q \in Procs : Unburdened(op[q])' /\ Placed(op[q])'
  BY <1>1, <1>2 DEF Placed, Unburdened
<1>4. ASSUME NEW s \in Sources
      PROVE  \E t \in Sources' : Says(t)' = Says(s)
  <2>1. s[1] = "log"
    <3>1. SUFFICES ASSUME s[1] = "op" PROVE FALSE
      BY DEF Sources
    <3>2. s[2] \in Procs /\ Len(op[s[2]].pending) > 0
      BY <3>1 DEF Sources, Holders
    <3>3. s[2] = p
      BY <3>2 DEF Alone
    <3>4. Len(<< >>) = 0
      OBVIOUS
    <3>5. QED
      BY <3>2, <3>3, <3>4
  <2>2. s \in Sources' /\ Says(s)' = Says(s)
    BY <2>1 DEF Sources, RowEvents, Says
  <2>3. QED
    BY <2>2
<1>5. Cardinality(Unaccounted') <= Cardinality(Unaccounted)
  BY <1>4, AllStillSpeak, VersionIsNat, FewerUnaccounted
<1>6. Cardinality(Unaccounted') <= failures'
  <2>1. Cardinality(Unaccounted) \in Nat /\ Cardinality(Unaccounted') \in Nat
    BY VersionIsNat, UnaccountedFinite, <1>4, AllStillSpeak, FS_Subset, FS_CardinalityType
  <2>2. failures \in Nat
    BY DEF IInv, TypeOK
  <2>3. QED
    BY <1>5, <2>1, <2>2 DEF LossInv
<1>7. QED
  BY <1>3, <1>6 DEF LossInv

LEMMA QuietCallForms ==
  ASSUME NEW p \in Procs
  PROVE  /\ Return(p) => QuietCall(p)
         /\ Proceed(p, AfterActivation(p)) => QuietCall(p)
         /\ \A events : Emit(p, events) => QuietCall(p)
         /\ \A next : /\ Proceed(p, next) /\ next.pending = << >>
                      /\ next.pc # "append"
                      => QuietCall(p)
<1>1. ASSUME NEW next, Proceed(p, next), next.pending = << >>, next.pc # "append"
      PROVE  QuietCall(p)
  BY <1>1 DEF QuietCall, Unburdened
<1>2. Return(p) => QuietCall(p)
  BY <1>1 DEF Return, Idle
<1>3. AfterActivation(p).pending = << >> /\ AfterActivation(p).pc # "append"
  BY DEF AfterActivation, Begin, Idle
<1>4. ASSUME NEW events, Emit(p, events)
      PROVE  QuietCall(p)
  <2> DEFINE next == [Begin(op[p].cmd, "sequence") EXCEPT
                        !.pending = events, !.cand = op[p].cand]
  <2>1. Proceed(p, next) /\ next.pc = "sequence"
    BY <1>4 DEF Emit, Begin, Idle
  <2>2. QED
    <3> HIDE DEF next
    <3>1. QED
      BY <2>1 DEF QuietCall, Unburdened
<1>5. QED
  BY <1>1, <1>2, <1>3, <1>4

LEMMA AcceptLoss ==
  ASSUME IInv, LossInv, Alone, NEW p \in Procs, NEW request, Accept(p, request),
         Unburdened(request), request.pc # "append"
  PROVE  LossInv'
<1>1. op[p].pending = << >>
  BY DEF Accept, LossInv, Unburdened
<1>2. QuietCall(p)
  BY DEF Accept, QuietCall
<1>3. QED
  BY <1>1, <1>2, QuietCallLoss DEF Accept, jobVars

LEMMA CreateJobLoss ==
  ASSUME IInv, LossInv, Alone, NEW p \in Procs, CreateJob(p)
  PROVE  LossInv'
<1> DEFINE next == [Begin("create", "sequence") EXCEPT
                      !.pending = <<JobCreated(BirthRow), Event("Domain")>>]
<1>1. \A q \in Procs : q = p /\ op'[q] = next
  BY DEF CreateJob, Proceed, IInv, TypeOK, Alone
<1>2. next.pc = "sequence"
  BY DEF Begin, Idle
<1>3. \A q \in Procs : Unburdened(op[q])' /\ Placed(op[q])'
  BY <1>1, <1>2 DEF Placed, Unburdened
<1>4. Unaccounted' = {}
  <2>1. row'.version = 0
    BY DEF CreateJob, BirthRow
  <2>2. 1..row'.version = {}
    BY <2>1
  <2>3. QED
    BY <2>2 DEF Unaccounted
<1>5. Cardinality(Unaccounted') <= failures'
  BY <1>4, FS_EmptySet DEF CreateJob, boundVars, IInv, TypeOK
<1>6. QED
  BY <1>3, <1>5 DEF LossInv

LEMMA RequestLoss ==
  ASSUME IInv, LossInv, Alone, NEW p \in Procs, Request(p)
  PROVE  LossInv'
<1> USE AcceptLoss DEF Begin, Idle, Unburdened
<1>1. CASE CreateJob(p)
  BY <1>1, CreateJobLoss
<1>2. ASSUME NEW c \in Candidates, CaptureCandidate(p, c) \/ SetActiveCandidate(p, c)
      PROVE  LossInv'
  BY <1>2 DEF CaptureCandidate, SetActiveCandidate
<1>3. ASSUME NEW s \in DirectTargets, Transition(p, s)
      PROVE  LossInv'
  BY <1>3 DEF Transition
<1>4. CASE EnterHumanReview(p)
  BY <1>4 DEF EnterHumanReview
<1>5. CASE ResumeJob(p)
  BY <1>5 DEF ResumeJob
<1>6. CASE Reconcile(p)
  BY <1>6 DEF Reconcile
<1>7. ASSUME NEW s \in CheckStages, RunCheck(p, s)
      PROVE  LossInv'
  BY <1>7 DEF RunCheck
<1>8. CASE RecordObligationOutcome(p)
  BY <1>8 DEF RecordObligationOutcome
<1>9. CASE RecordCheckEvidence(p)
  BY <1>9 DEF RecordCheckEvidence
<1>10. QED
  BY <1>1, <1>2, <1>3, <1>4, <1>5, <1>6, <1>7, <1>8, <1>9 DEF Request

LEMMA QuietStepsLoss ==
  ASSUME IInv, LossInv, Alone, NEW p \in Procs,
         \/ FindSource(p) \/ InsertSource(p)
         \/ ActiveCheck(p) \/ ActiveRead(p) \/ ActiveRow(p)
         \/ PlanChecks(p) \/ PlanObligations(p) \/ LoadResume(p) \/ Walk(p)
         \/ TransitionRead(p) \/ ReadGates(p) \/ EvaluateMove(p)
         \/ PutGateResult(p) \/ DeriveVerdicts(p) \/ UpdateObligation(p)
  PROVE  LossInv'
<1>1. op[p].pending = << >> /\ op[p] \in Ops
  <2>1. op[p].pc \notin {"sequence", "append"}
    BY DEF FindSource, InsertSource, ActiveCheck, ActiveRead, ActiveRow,
           PlanChecks, PlanObligations, LoadResume, Walk, TransitionRead,
           ReadGates, EvaluateMove, PutGateResult, DeriveVerdicts, UpdateObligation
  <2>2. QED
    BY <2>1 DEF LossInv, Unburdened, IInv, TypeOK
<1>2. SUFFICES log' = log /\ row' = row /\ failures' = failures /\ QuietCall(p)
  BY <1>1, QuietCallLoss
<1>3. CASE FindSource(p) \/ InsertSource(p)
  <2>1. LET next == [op[p] EXCEPT !.pc = "insert"]
        IN  next.pending = << >> /\ next.pc # "append"
    BY <1>1 DEF Ops
  <2>2. QED
    BY <1>3, <2>1, QuietCallForms
       DEF FindSource, InsertSource, ReadsOnly, jobVars, boundVars
<1>4. CASE ActiveCheck(p) \/ ActiveRead(p) \/ ActiveRow(p)
  <2>1. \A next \in {[op[p] EXCEPT !.pc = "activeRead"],
                     [op[p] EXCEPT !.pc = "activeRow", !.snap = row],
                     [op[p] EXCEPT !.pc = "activePut"]} :
          next.pending = << >> /\ next.pc # "append"
    BY <1>1 DEF Ops
  <2>2. QED
    BY <1>4, <2>1, QuietCallForms
       DEF ActiveCheck, ActiveRead, ActiveRow, ReadsOnly, jobVars, boundVars
<1>5. CASE PlanChecks(p) \/ PlanObligations(p)
  <2>1. LET next == [op[p] EXCEPT !.pc = "planObligations"]
        IN  next.pending = << >> /\ next.pc # "append"
    BY <1>1 DEF Ops
  <2>2. QED
    BY <1>5, <2>1, QuietCallForms
       DEF PlanChecks, PlanObligations, jobVars, boundVars
<1>6. CASE LoadResume(p)
  <2>1. \A record, target :
          LET next == [op[p] EXCEPT !.pc = "transition", !.resume = record,
                                    !.target = target]
          IN  next.pending = << >> /\ next.pc # "append"
    BY <1>1 DEF Ops
  <2>2. QED
    BY <1>6, <2>1, QuietCallForms DEF LoadResume, ReadsOnly, jobVars, boundVars
<1>7. CASE Walk(p)
  <2>1. \A target :
          LET next == [Begin("reconcile", "gates") EXCEPT
                         !.snap = row, !.expected = row.version,
                         !.target = target, !.probe = TRUE]
          IN  next.pending = << >> /\ next.pc # "append"
    BY DEF Begin, Idle
  <2>2. QED
    BY <1>7, <2>1, QuietCallForms DEF Walk, ReadsOnly, jobVars, boundVars
<1>8. CASE TransitionRead(p)
  <2>1. LET next == [op[p] EXCEPT !.pc = "gates", !.snap = row]
        IN  next.pending = << >> /\ next.pc # "append"
    BY <1>1 DEF Ops
  <2>2. QED
    BY <1>8, <2>1, QuietCallForms DEF TransitionRead, ReadsOnly, jobVars, boundVars
<1>9. CASE ReadGates(p)
  <2>1. \A met : LET next == [op[p] EXCEPT !.pc = "evaluate", !.gatesMet = met]
                 IN  next.pending = << >> /\ next.pc # "append"
    BY <1>1 DEF Ops
  <2>2. QED
    BY <1>9, <2>1, QuietCallForms DEF ReadGates, ReadsOnly, jobVars, boundVars
<1>10. CASE EvaluateMove(p)
  <2>1. \A pc : LET next == [op[p] EXCEPT !.probe = FALSE, !.pc = pc]
                IN  next.pending = << >> /\ next.pc = pc
    BY <1>1 DEF Ops
  <2>2. WhenBlocked(p).pending = << >> /\ WhenBlocked(p).pc # "append"
    BY DEF WhenBlocked, Idle
  <2>3. QED
    BY <1>10, <2>1, <2>2, QuietCallForms DEF EvaluateMove, ReadsOnly, jobVars, boundVars
<1>11. CASE PutGateResult(p)
  <2>1. LET next == [op[p] EXCEPT !.pc = "verdicts"]
        IN  next.pending = << >> /\ next.pc # "append"
    BY <1>1 DEF Ops
  <2>2. QED
    BY <1>11, <2>1, QuietCallForms DEF PutGateResult, jobVars, boundVars
<1>12. CASE DeriveVerdicts(p) \/ UpdateObligation(p)
  BY <1>12, QuietCallForms DEF DeriveVerdicts, UpdateObligation, jobVars, boundVars
<1>13. QED
  BY <1>3, <1>4, <1>5, <1>6, <1>7, <1>8, <1>9, <1>10, <1>11, <1>12

(* What is left to show of a step that keeps the order of the appends.     *)
LEMMA LossKept ==
  ASSUME IInv, LossInv, NEW p \in Procs, Alone, NEW next,
         Proceed(p, next), Unburdened(next),
         next.pc = "append" => next.seq = Len(log') + 1,
         failures' = failures, Unaccounted' \subseteq Unaccounted
  PROVE  LossInv'
<1>1. \A q \in Procs : q = p /\ op'[q] = next
  BY DEF Proceed, IInv, TypeOK, Alone
<1>2. \A q \in Procs : Unburdened(op[q])' /\ Placed(op[q])'
  BY <1>1 DEF Placed, Unburdened
<1>3. Cardinality(Unaccounted') <= Cardinality(Unaccounted)
  BY VersionIsNat, FewerUnaccounted
<1>4. Cardinality(Unaccounted) \in Nat /\ Cardinality(Unaccounted') \in Nat
  BY VersionIsNat, UnaccountedFinite, FS_Subset, FS_CardinalityType
<1>5. failures \in Nat
  BY DEF IInv, TypeOK
<1>6. QED
  BY <1>2, <1>3, <1>4, <1>5 DEF LossInv

LEMMA NextSequenceLoss ==
  ASSUME IInv, LossInv, Alone, NEW p \in Procs, NextSequence(p)
  PROVE  LossInv'
<1> DEFINE next == [op[p] EXCEPT !.pc = "append", !.seq = Len(log) + 1]
<1>1. /\ Proceed(p, next) /\ op[p] \in Ops /\ op[p].pc = "sequence"
      /\ log' = log /\ row' = row /\ failures' = failures
  BY DEF NextSequence, ReadsOnly, jobVars, boundVars, IInv, TypeOK
<1>2. next.pending = op[p].pending /\ next.pc = "append" /\ next.seq = Len(log) + 1
  BY <1>1 DEF Ops
<1>3. op'[p] = next
  BY <1>1 DEF Proceed, IInv, TypeOK
<1>4. op'[p].pending = op[p].pending
  BY <1>2, <1>3
<1> HIDE DEF next
<1>5. \A q \in Procs : op'[q].pending = op[q].pending
  BY <1>4 DEF Alone
<1>6. ASSUME NEW s \in Sources
      PROVE  s \in Sources' /\ Says(s)' = Says(s)
  <2>1. CASE s[1] = "log"
    BY <1>1, <2>1 DEF Sources, RowEvents, Says
  <2>2. CASE s[1] = "op"
    <3>1. s = <<"op", s[2]>> /\ s[2] \in Procs /\ s[2] \in Holders
      BY <2>2 DEF Sources, Holders
    <3>2. op'[s[2]].pending = op[s[2]].pending
      BY <1>5, <3>1
    <3>3. QED
      BY <2>2, <3>1, <3>2 DEF Sources, Holders, Held, Says
  <2>3. QED
    BY <2>1, <2>2 DEF Sources
<1>7. Unaccounted' \subseteq Unaccounted
  BY <1>1, <1>6, AllStillSpeak
<1>8. QED
  BY <1>1, <1>2, <1>7, LossKept DEF Unburdened

LEMMA AppendEventLoss ==
  ASSUME IInv, OneAccount, LossInv, Alone, NEW p \in Procs, AppendEvent(p)
  PROVE  LossInv'
<1> DEFINE o == op[p]
           rest == [o EXCEPT !.pc = "sequence", !.pending = Tail(@)]
           next == IF Tail(o.pending) = << >> THEN AfterAppend(p) ELSE rest
<1>1. /\ o.pc = "append" /\ o \in Ops /\ Knows(o, row)
      /\ row' = row /\ failures' = failures
  BY StepStarts DEF AppendEvent, jobVars, boundVars
<1>2. o.pending \in Seq(Events) /\ o.pending # << >>
      /\ log \in Seq(Events) /\ Len(log) \in Nat
  BY <1>1, LenProperties DEF Ops, Knows, IInv, TypeOK
<1>3. log' = Append(log, Head(o.pending)) /\ Proceed(p, next)
  <2>1. o.seq = Len(log) + 1
    BY <1>1 DEF LossInv, Placed
  <2>2. QED
    BY <2>1 DEF AppendEvent
<1>4. Unburdened(next) /\ next.pc # "append"
  <2>1. AfterAppend(p).pending = << >> /\ AfterAppend(p).pc # "append"
    BY DEF AfterAppend, AfterActivation, Begin, Idle
  <2>2. rest.pc = "sequence"
    BY <1>1 DEF Ops
  <2>3. QED
    BY <2>1, <2>2 DEF Unburdened
<1> PICK last \in Nat : last = Len(log) + 1
  BY <1>2
<1>5. /\ Len(log') = last /\ log'[last] = Held(p)
      /\ \A i \in 1..Len(log) : log'[i] = log[i]
  <2>1. Head(o.pending) = o.pending[1] /\ Head(o.pending) \in Events
    BY <1>2, HeadTailProperties
  <2>2. QED
    BY <1>2, <1>3, <2>1, AppendProperties DEF Held
<1>6. ASSUME NEW s \in Sources
      PROVE  \E t \in Sources' : Says(t)' = Says(s)
  <2>1. CASE s[1] = "log"
    <3>1. s = <<"log", s[2]>> /\ s[2] \in 1..Len(log) /\ RowEvent(log[s[2]])
      BY <2>1 DEF Sources, RowEvents, RowEvent
    <3>2. s[2] \in 1..Len(log') /\ log'[s[2]] = log[s[2]]
      BY <1>2, <1>5, <3>1
    <3>3. s \in Sources' /\ Says(s)' = Says(s)
      BY <2>1, <3>1, <3>2 DEF Sources, RowEvents, RowEvent, Says
    <3>4. QED
      BY <3>3
  <2>2. CASE s[1] = "op"
    <3>1. s = <<"op", s[2]>> /\ s[2] \in Procs /\ RowEvent(Held(s[2]))
      BY <2>2 DEF Sources, Holders
    <3>2. s[2] = p
      BY <3>1 DEF Alone
    <3>3. last \in 1..Len(log')
      BY <1>2, <1>5
    <3>4. <<"log", last>> \in Sources'
      BY <1>5, <3>1, <3>2, <3>3 DEF Sources, RowEvents, RowEvent
    <3>5. Says(s) = Held(p)
      BY <2>2, <3>2 DEF Says
    <3>6. Says(<<"log", last>>)' = log'[last]
      BY DEF Says
    <3>7. Says(<<"log", last>>)' = Says(s)
      BY <1>5, <3>5, <3>6
    <3>8. QED
      BY <3>4, <3>7
  <2>3. QED
    BY <2>1, <2>2 DEF Sources
<1>7. Unaccounted' \subseteq Unaccounted
  BY <1>1, <1>6, AllStillSpeak
<1> HIDE DEF next
<1>8. QED
  BY <1>1, <1>3, <1>4, <1>7, LossKept

(* A write of the row by a handler that now holds the event of it.         *)
LEMMA WrittenRowLoss ==
  ASSUME IInv, LossInv, Alone, NEW p \in Procs, NEW events, NEW e,
         Emit(p, events), op[p].pending = << >>,
         row.version \in Nat, row'.version = row.version + 1,
         e.after = row', RowEvent(e),
         Len(events) > 0, events[1] = e,
         log' = log, failures' = failures
  PROVE  LossInv'
<1> DEFINE next == [Begin(op[p].cmd, "sequence") EXCEPT
                      !.pending = events, !.cand = op[p].cand]
<1>1. Proceed(p, next) /\ next.pending = events /\ next.pc = "sequence"
  BY DEF Emit, Begin, Idle
<1> HIDE DEF next
<1>2. op'[p] = next
  BY <1>1 DEF Proceed, IInv, TypeOK
<1>3. <<"op", p>> \in Sources' /\ Says(<<"op", p>>)' = e
  BY <1>1, <1>2 DEF Sources, Holders, Held, Says
<1>4. ASSUME NEW s \in Sources
      PROVE  s \in Sources' /\ Says(s)' = Says(s)
  <2>1. CASE s[1] = "log"
    BY <2>1 DEF Sources, RowEvents, Says
  <2>2. CASE s[1] = "op"
    <3>1. s[2] \in Procs /\ Len(op[s[2]].pending) > 0
      BY <2>2 DEF Sources, Holders
    <3>2. s[2] = p
      BY <3>1 DEF Alone
    <3>3. Len(<< >>) = 0
      OBVIOUS
    <3>4. QED
      BY <3>1, <3>2, <3>3
  <2>3. QED
    BY <2>1, <2>2 DEF Sources
<1>5. ASSUME NEW v \in Unaccounted', v \notin Unaccounted
      PROVE  FALSE
  <2>1. v \in 1..(row.version + 1) /\ v \notin {Says(t).after.version : t \in Sources}'
    BY <1>5 DEF Unaccounted
  <2>2. v # row.version + 1
    <3>1. Says(<<"op", p>>)'.after.version = row.version + 1
      BY <1>3
    <3>2. QED
      BY <1>3, <2>1, <3>1
  <2>3. v \in 1..row.version
    BY <2>1, <2>2
  <2>4. PICK s \in Sources : v = Says(s).after.version
    BY <1>5, <2>3 DEF Unaccounted
  <2>5. Says(s)'.after.version = v
    BY <1>4, <2>4
  <2>6. QED
    BY <1>4, <2>1, <2>5
<1>6. Unaccounted' \subseteq Unaccounted
  BY <1>5
<1>7. QED
  BY <1>1, <1>6, LossKept DEF Unburdened

LEMMA ActivePutLoss ==
  ASSUME IInv, LossInv, Alone, NEW p \in Procs, ActivePut(p)
  PROVE  LossInv'
<1> DEFINE o == op[p]
           activated == CandidateActivated(row')
           events == <<activated>>
<1>1. o.pc = "activePut" /\ log' = log /\ failures' = failures
  BY DEF ActivePut, boundVars
<1>2. /\ Knows(o, row) /\ row \in Rows /\ row.version \in Nat
      /\ o.pending = << >>
  BY <1>1, StepStarts DEF LossInv, Unburdened
<1>3. CASE row.version = o.snap.version
  <2>1. o.snap = row
    BY <1>1, <1>2, <1>3 DEF Knows, Reading
  <2>2. row'.version = row.version + 1
    BY <1>2, <1>3, <2>1 DEF ActivePut, Activated, Rows
  <2>3. Emit(p, events)
    BY <1>3 DEF ActivePut
  <2>4. activated.after = row' /\ RowEvent(activated)
    BY DEF CandidateActivated, Event, RowEvent
  <2>5. Len(events) > 0 /\ events[1] = activated
    OBVIOUS
  <2>6. QED
    <3> HIDE DEF events, activated
    <3>1. QED
      BY <1>1, <1>2, <2>2, <2>3, <2>4, <2>5, WrittenRowLoss
<1>4. CASE row.version # o.snap.version
  BY <1>1, <1>2, <1>4, QuietCallForms, QuietCallLoss DEF ActivePut
<1>5. QED
  BY <1>3, <1>4

LEMMA PutProjectionLoss ==
  ASSUME IInv, LossInv, Alone, NEW p \in Procs, PutProjection(p)
  PROVE  LossInv'
<1> DEFINE o == op[p]
           moved == Transitioned(o.snap, row')
           records == IF o.cmd = "review" THEN <<ResumeRecorded(o.resume)>> ELSE << >>
           events == MoveEvents(p, row')
<1>1. o.pc = "put" /\ log' = log /\ failures' = failures
  BY DEF PutProjection, boundVars
<1>2. /\ Knows(o, row) /\ row \in Rows /\ row.version \in Nat
      /\ o.pending = << >>
  BY <1>1, StepStarts DEF LossInv, Unburdened
<1>3. CASE row.version = o.expected
  <2>1. o.snap = row
    BY <1>1, <1>2, <1>3 DEF Knows, Reading, Moving
  <2>2. row'.version = row.version + 1
    BY <1>2, <1>3, <2>1 DEF PutProjection, NotOverwritten, Rows
  <2>3. Emit(p, events)
    BY <1>3 DEF PutProjection, NotOverwritten
  <2>4. moved.after = row' /\ RowEvent(moved)
    BY DEF Transitioned, Event, RowEvent
  <2>5. Len(events) > 0 /\ events[1] = moved
    <3>1. events = <<moved>> \o records
      BY DEF MoveEvents
    <3> HIDE DEF moved, events
    <3> DEFINE r == ResumeRecorded(o.resume)
    <3>2. records = <<r>> \/ records = << >>
      OBVIOUS
    <3> HIDE DEF records, r
    <3>3. /\ <<moved>> \in Seq({moved, r}) /\ Len(<<moved>>) = 1
          /\ records \in Seq({moved, r}) /\ Len(records) \in {0, 1}
      <4>1. << >> \in Seq({moved, r}) /\ Len(<< >>) = 0
        BY EmptySeq
      <4>2. <<r>> \in Seq({moved, r}) /\ Len(<<r>>) = 1
        OBVIOUS
      <4>3. <<moved>> \in Seq({moved, r}) /\ Len(<<moved>>) = 1
        OBVIOUS
      <4>4. CASE records = <<r>>
        BY <4>2, <4>3, <4>4
      <4>5. CASE records = << >>
        BY <4>1, <4>3, <4>5
      <4>6. QED
        BY <3>2, <4>4, <4>5
    <3>4. QED
      BY <3>1, <3>3, ConcatProperties
  <2>6. QED
    <3> HIDE DEF events, moved
    <3>1. QED
      BY <1>1, <1>2, <2>2, <2>3, <2>4, <2>5, WrittenRowLoss
<1>4. CASE row.version # o.expected
  BY <1>1, <1>2, <1>4, QuietCallForms, QuietCallLoss
     DEF PutProjection, NotOverwritten, jobVars
<1>5. QED
  BY <1>3, <1>4

(* A handler that stops half way takes one event about the row with it, at *)
(* the most.                                                               *)
LEMMA FailLoss ==
  ASSUME IInv, LossInv, Alone, NEW p \in Procs, Fail(p)
  PROVE  LossInv'
<1> DEFINE held == Held(p).after.version
<1>1. /\ Proceed(p, Idle) /\ log' = log /\ row' = row
      /\ failures' = failures + 1 /\ failures \in Nat /\ row.version \in Nat
  BY VersionIsNat DEF Fail, Return, jobVars, IInv, TypeOK
<1>2. \A q \in Procs : q = p /\ op'[q] = Idle
  BY <1>1 DEF Proceed, IInv, TypeOK, Alone
<1>3. \A q \in Procs : Unburdened(op[q])' /\ Placed(op[q])'
  BY <1>2 DEF Placed, Unburdened, Idle
<1>4. ASSUME NEW v \in Unaccounted', v \notin Unaccounted, v # held
      PROVE  FALSE
  <2>1. v \in 1..row.version /\ v \notin {Says(t).after.version : t \in Sources}'
    BY <1>1, <1>4 DEF Unaccounted
  <2>2. PICK s \in Sources : v = Says(s).after.version
    BY <1>4, <2>1 DEF Unaccounted
  <2>3. CASE s[1] = "log"
    <3>1. s \in Sources' /\ Says(s)' = Says(s)
      BY <1>1, <2>3 DEF Sources, RowEvents, Says
    <3>2. Says(s)'.after.version = v
      BY <2>2, <3>1
    <3>3. QED
      BY <2>1, <3>1, <3>2
  <2>4. CASE s[1] = "op"
    <3>1. s[2] \in Procs
      BY <2>4 DEF Sources, Holders
    <3>2. Says(s) = Held(p)
      BY <2>4, <3>1 DEF Says, Alone
    <3>3. QED
      BY <1>4, <2>2, <3>2
  <2>5. QED
    BY <2>3, <2>4 DEF Sources
<1>5. Unaccounted' \in SUBSET (Unaccounted \cup {held})
  BY <1>4
<1> HIDE DEF held
<1>6. /\ IsFiniteSet(Unaccounted) /\ Cardinality(Unaccounted) \in Nat
      /\ Cardinality(Unaccounted) <= failures
  BY <1>1, UnaccountedFinite DEF LossInv
<1>7. /\ IsFiniteSet(Unaccounted \cup {held})
      /\ Cardinality(Unaccounted \cup {held}) \in Nat
      /\ Cardinality(Unaccounted \cup {held}) <= Cardinality(Unaccounted) + 1
  <2>1. /\ IsFiniteSet(Unaccounted \cup {held})
        /\ Cardinality(Unaccounted \cup {held}) =
             IF held \in Unaccounted THEN Cardinality(Unaccounted)
             ELSE Cardinality(Unaccounted) + 1
    BY <1>6, FS_AddElement
  <2>2. QED
    BY <1>6, <2>1
<1>8. /\ Cardinality(Unaccounted') <= Cardinality(Unaccounted \cup {held})
      /\ Cardinality(Unaccounted') \in Nat
  BY <1>5, <1>7, FS_Subset, FS_CardinalityType
<1>9. Cardinality(Unaccounted') <= failures'
  BY <1>1, <1>6, <1>7, <1>8
<1>10. QED
  BY <1>3, <1>9 DEF LossInv

LEMMA InitLoss == Init => LossInv
<1> SUFFICES ASSUME Init PROVE LossInv
  OBVIOUS
<1>1. \A p \in Procs : Unburdened(op[p]) /\ Placed(op[p])
  BY DEF Init, Idle, Unburdened, Placed
<1>2. Unaccounted = {}
  <2>1. row.version = 0
    BY DEF Init, NoRow
  <2>2. 1..row.version = {}
    BY <2>1
  <2>3. QED
    BY <2>2 DEF Unaccounted
<1>3. QED
  BY <1>1, <1>2, FS_EmptySet DEF LossInv, Init

LEMMA NextLoss ==
  Alone /\ IInv /\ OneAccount /\ LossInv /\ [Next]_vars => LossInv'
<1> SUFFICES ASSUME Alone, IInv, OneAccount, LossInv, [Next]_vars PROVE LossInv'
  OBVIOUS
<1>1. ASSUME NEW p \in Procs, Request(p)
      PROVE  LossInv'
  BY <1>1, RequestLoss
<1>2. ASSUME NEW p \in Procs, Step(p)
      PROVE  LossInv'
  BY <1>2, NextSequenceLoss, AppendEventLoss, ActivePutLoss, PutProjectionLoss,
     QuietStepsLoss DEF Step
<1>3. ASSUME NEW p \in Procs, Fail(p)
      PROVE  LossInv'
  BY <1>3, FailLoss
<1>4. CASE UNCHANGED vars
  BY <1>4 DEF vars, LossInv, Unburdened, Placed, Unaccounted, Sources, RowEvents,
              Holders, Held, Says
<1>5. QED
  BY <1>1, <1>2, <1>3, <1>4 DEF Next

(* When requests come one at a time, each handler that stops half way      *)
(* costs the log at most the one event it had not appended yet: whatever   *)
(* the candidates and the bounds, and however long the job lives.          *)
THEOREM LossBounded ==
  ASSUME Alone PROVE Spec => []LossBoundedByFailures
<1>1. IInv /\ LossInv => LossBoundedByFailures
  <2> SUFFICES ASSUME IInv, LossInv, Quiescent
               PROVE  Cardinality(LostVersions) <= failures
    BY DEF LossBoundedByFailures
  <2>1. \A p \in Procs : op[p].pending = << >>
    BY DEF Quiescent, LossInv, Unburdened
  <2>2. Holders = {}
    <3>1. Len(<< >>) = 0
      OBVIOUS
    <3>2. QED
      BY <2>1, <3>1 DEF Holders
  <2>3. LostVersions = Unaccounted
    <3>1. Sources = {"log"} \X RowEvents
      BY <2>2 DEF Sources
    <3>2. {Says(s).after.version : s \in Sources} = {log[i].after.version : i \in RowEvents}
      <4>1. ASSUME NEW s \in Sources
            PROVE  Says(s).after.version \in {log[i].after.version : i \in RowEvents}
        BY <3>1 DEF Says
      <4>2. ASSUME NEW i \in RowEvents
            PROVE  log[i].after.version \in {Says(s).after.version : s \in Sources}
        <5>1. <<"log", i>> \in Sources /\ Says(<<"log", i>>) = log[i]
          BY <3>1 DEF Says
        <5>2. QED
          BY <5>1
      <4>3. QED
        BY <4>1, <4>2
    <3>3. QED
      BY <3>2 DEF LostVersions, Unaccounted
  <2>4. QED
    BY <2>3 DEF LossInv
<1>2. Alone /\ Init => LossInv
  BY InitLoss
<1>3. QED
  BY <1>1, <1>2, NextLoss, Invariant, Account, PTL DEF Spec

-----------------------------------------------------------------------------
(* Where a resumed job goes when requests come one at a time.              *)

IsRecord(e) == e.type = "ResumeRecorded"
HoldsRecord(o) == \E i \in 1..Len(o.pending) : IsRecord(o.pending[i])

(* A handler about to take the job out of its review resumes it.           *)
ResumesOnly(o) ==
  o.pc = "put" /\ o.snap.state = "HumanReviewRequired" /\ o.target \in FlowStates
  => o.cmd = "resume" /\ o.target = o.resume.to

(* What is known of the state the last review was entered from: a handler  *)
(* that resumes has it, one that records the review is about to log it,    *)
(* and if nobody is about to, the last record in the log has it.           *)
ResumesTo(o, entry) == o.cmd = "resume" /\ o.pc \in Moving => o.resume.to = entry
Records(o, entry) ==
  \A i \in 1..Len(o.pending) : IsRecord(o.pending[i]) => o.pending[i].resume.to = entry
LastRecordIs(entry) ==
  \A i \in Chosen(RecordsFrom("HumanReviewRequired")) : log[i].resume.to = entry

EntryKnown ==
  /\ \A p \in Procs : ResumesTo(op[p], enteredFrom) /\ Records(op[p], enteredFrom)
  /\ (\A p \in Procs : ~HoldsRecord(op[p])) => LastRecordIs(enteredFrom)

EntryInv ==
  /\ \A p \in Procs : ResumesOnly(op[p])
  /\ failures = 0 => EntryKnown

LEMMA NothingHeld ==
  ASSUME NEW o, o.pending = << >>
  PROVE  ~HoldsRecord(o) /\ \A entry : Records(o, entry)
<1>1. Len(<< >>) = 0
  OBVIOUS
<1>2. QED
  BY <1>1 DEF HoldsRecord, Records

(* A step of a handler that held no event, and holds no record after it.   *)
LEMMA EntryKept ==
  ASSUME IInv, EntryInv, Alone, NEW p \in Procs, NEW next, Proceed(p, next),
         op[p].pending = << >>, ~HoldsRecord(next), ResumesOnly(next),
         failures = 0 /\ EntryKnown => ResumesTo(next, enteredFrom),
         log' = log, enteredFrom' = enteredFrom,
         failures' = 0 => failures = 0
  PROVE  EntryInv'
<1>1. \A q \in Procs : q = p /\ op'[q] = next
  BY DEF Proceed, IInv, TypeOK, Alone
<1>2. \A q \in Procs : ResumesOnly(op[q])'
  BY <1>1 DEF ResumesOnly
<1>3. ASSUME failures' = 0 PROVE EntryKnown'
  <2>1. EntryKnown /\ ResumesTo(next, enteredFrom)
    BY <1>3 DEF EntryInv
  <2>2. \A q \in Procs : ~HoldsRecord(op[q])
    BY <1>1, NothingHeld
  <2>3. LastRecordIs(enteredFrom)
    BY <2>1, <2>2 DEF EntryKnown
  <2>4. LastRecordIs(enteredFrom)'
    BY <2>3 DEF LastRecordIs, Chosen, RecordsFrom
  <2>5. Records(next, enteredFrom)
    BY DEF Records, HoldsRecord
  <2>6. ASSUME NEW q \in Procs
        PROVE  ResumesTo(op[q], enteredFrom)' /\ Records(op[q], enteredFrom)'
    BY <1>1, <2>1, <2>5 DEF ResumesTo, Records
  <2>7. QED
    BY <2>4, <2>6 DEF EntryKnown
<1>4. QED
  BY <1>2, <1>3 DEF EntryInv

(* The handler goes on to something other than a move.                     *)
Aside(p) ==
  \E next : Proceed(p, next) /\ next.pc \notin Moving /\ ~HoldsRecord(next)

LEMMA AsideEntry ==
  ASSUME IInv, EntryInv, Alone, NEW p \in Procs, Aside(p),
         op[p].pending = << >>, log' = log, enteredFrom' = enteredFrom,
         failures' = 0 => failures = 0
  PROVE  EntryInv'
<1>1. PICK next : Proceed(p, next) /\ next.pc \notin Moving /\ ~HoldsRecord(next)
  BY DEF Aside
<1>2. ResumesOnly(next) /\ ResumesTo(next, enteredFrom)
  BY <1>1 DEF ResumesOnly, ResumesTo, Moving
<1>3. QED
  BY <1>1, <1>2, EntryKept

LEMMA NoRecords ==
  ASSUME NEW e, e.type # "ResumeRecorded", NEW o, o.pending = <<e>>
  PROVE  ~HoldsRecord(o)
<1>1. Len(<<e>>) = 1 /\ <<e>>[1] = e
  OBVIOUS
<1>2. QED
  BY <1>1 DEF HoldsRecord, IsRecord

LEMMA AsideForms ==
  ASSUME NEW p \in Procs
  PROVE  /\ Return(p) => Aside(p)
         /\ Proceed(p, AfterActivation(p)) => Aside(p)
         /\ \A e : Emit(p, <<e>>) /\ e.type # "ResumeRecorded" => Aside(p)
         /\ \A next : /\ Proceed(p, next) /\ next.pending = << >>
                      /\ next.pc \notin Moving
                      => Aside(p)
<1>1. ASSUME NEW next, Proceed(p, next), next.pending = << >>, next.pc \notin Moving
      PROVE  Aside(p)
  BY <1>1, NothingHeld DEF Aside
<1>2. Return(p) => Aside(p)
  BY <1>1 DEF Return, Idle, Moving
<1>3. AfterActivation(p).pending = << >> /\ AfterActivation(p).pc \notin Moving
  BY DEF AfterActivation, Begin, Idle, Moving
<1>4. ASSUME NEW e, Emit(p, <<e>>), e.type # "ResumeRecorded"
      PROVE  Aside(p)
  <2> DEFINE next == [Begin(op[p].cmd, "sequence") EXCEPT
                        !.pending = <<e>>, !.cand = op[p].cand]
  <2>1. Proceed(p, next) /\ next.pc = "sequence" /\ next.pending = <<e>>
    BY <1>4 DEF Emit, Begin, Idle
  <2> HIDE DEF next
  <2>2. ~HoldsRecord(next)
    BY <1>4, <2>1, NoRecords
  <2>3. QED
    BY <2>1, <2>2 DEF Aside, Moving
<1>5. QED
  BY <1>1, <1>2, <1>3, <1>4

LEMMA AcceptEntry ==
  ASSUME IInv, LossInv, EntryInv, Alone, NEW p \in Procs, NEW request,
         Accept(p, request), ~HoldsRecord(request), request.pc # "put",
         request.cmd = "resume" => request.pc \notin Moving
  PROVE  EntryInv'
<1>1. op[p].pending = << >>
  BY DEF Accept, LossInv, Unburdened
<1>2. ResumesOnly(request) /\ ResumesTo(request, enteredFrom)
  BY DEF ResumesOnly, ResumesTo
<1>3. QED
  BY <1>1, <1>2, EntryKept DEF Accept, jobVars

LEMMA CreateJobEntry ==
  ASSUME IInv, EntryInv, Alone, NEW p \in Procs, CreateJob(p)
  PROVE  EntryInv'
<1> DEFINE events == <<JobCreated(BirthRow), Event("Domain")>>
           next == [Begin("create", "sequence") EXCEPT !.pending = events]
<1>1. /\ Proceed(p, next) /\ log' = log /\ enteredFrom' = enteredFrom
      /\ failures' = failures
  BY DEF CreateJob, boundVars
<1>2. op[p].pending = << >>
  BY DEF CreateJob, IInv, HandlersKnow, Idle
<1>3. next.pc = "sequence" /\ next.pending = events
  BY DEF Begin, Idle
<1>4. \A i \in 1..Len(events) : ~IsRecord(events[i])
  BY DEF IsRecord, JobCreated, Event
<1> HIDE DEF next, events
<1>5. Aside(p)
  BY <1>1, <1>3, <1>4 DEF Aside, Moving, HoldsRecord
<1>6. QED
  BY <1>1, <1>2, <1>5, AsideEntry

LEMMA RequestEntry ==
  ASSUME IInv, LossInv, EntryInv, Alone, NEW p \in Procs, Request(p)
  PROVE  EntryInv'
<1> USE AcceptEntry, NothingHeld DEF Begin, Idle, Moving
<1>1. CASE CreateJob(p)
  BY <1>1, CreateJobEntry
<1>2. ASSUME NEW c \in Candidates, CaptureCandidate(p, c) \/ SetActiveCandidate(p, c)
      PROVE  EntryInv'
  BY <1>2 DEF CaptureCandidate, SetActiveCandidate
<1>3. ASSUME NEW s \in DirectTargets, Transition(p, s)
      PROVE  EntryInv'
  BY <1>3 DEF Transition
<1>4. CASE EnterHumanReview(p)
  BY <1>4 DEF EnterHumanReview
<1>5. CASE ResumeJob(p)
  BY <1>5 DEF ResumeJob
<1>6. CASE Reconcile(p)
  BY <1>6 DEF Reconcile
<1>7. ASSUME NEW s \in CheckStages, RunCheck(p, s)
      PROVE  EntryInv'
  BY <1>7 DEF RunCheck
<1>8. CASE RecordObligationOutcome(p)
  BY <1>8 DEF RecordObligationOutcome
<1>9. CASE RecordCheckEvidence(p)
  <2> DEFINE request == [Begin("record", "sequence") EXCEPT
                           !.pending = <<Event("Domain")>>]
  <2>1. Accept(p, request) /\ request.pc = "sequence" /\ request.cmd = "record"
        /\ request.pending = <<Event("Domain")>>
    BY <1>9 DEF RecordCheckEvidence
  <2> HIDE DEF request
  <2>2. ~HoldsRecord(request)
    BY <2>1, NoRecords DEF Event
  <2>3. QED
    BY <2>1, <2>2
<1>10. QED
  BY <1>1, <1>2, <1>3, <1>4, <1>5, <1>6, <1>7, <1>8, <1>9 DEF Request

LEMMA AsideStepsEntry ==
  ASSUME IInv, LossInv, EntryInv, Alone, NEW p \in Procs,
         \/ FindSource(p) \/ InsertSource(p)
         \/ ActiveCheck(p) \/ ActiveRead(p) \/ ActiveRow(p) \/ ActivePut(p)
         \/ PlanChecks(p) \/ PlanObligations(p)
         \/ PutGateResult(p) \/ DeriveVerdicts(p) \/ UpdateObligation(p)
  PROVE  EntryInv'
<1>1. op[p].pending = << >> /\ op[p] \in Ops
  <2>1. op[p].pc \notin {"sequence", "append"}
    BY DEF FindSource, InsertSource, ActiveCheck, ActiveRead, ActiveRow, ActivePut,
           PlanChecks, PlanObligations, PutGateResult, DeriveVerdicts, UpdateObligation
  <2>2. QED
    BY <2>1 DEF LossInv, Unburdened, IInv, TypeOK
<1>2. SUFFICES /\ log' = log /\ enteredFrom' = enteredFrom /\ failures' = failures
               /\ Aside(p)
  BY <1>1, AsideEntry
<1>3. Event("Domain").type # "ResumeRecorded"
      /\ Event("ToolRunFinished").type # "ResumeRecorded"
  BY DEF Event
<1>4. CASE FindSource(p) \/ InsertSource(p)
  <2>1. LET next == [op[p] EXCEPT !.pc = "insert"]
        IN  next.pending = << >> /\ next.pc \notin Moving
    BY <1>1 DEF Ops, Moving
  <2>2. QED
    BY <1>3, <1>4, <2>1, AsideForms
       DEF FindSource, InsertSource, ReadsOnly, jobVars, boundVars
<1>5. CASE ActiveCheck(p) \/ ActiveRead(p) \/ ActiveRow(p)
  <2>1. \A next \in {[op[p] EXCEPT !.pc = "activeRead"],
                     [op[p] EXCEPT !.pc = "activeRow", !.snap = row],
                     [op[p] EXCEPT !.pc = "activePut"]} :
          next.pending = << >> /\ next.pc \notin Moving
    BY <1>1 DEF Ops, Moving
  <2>2. QED
    BY <1>5, <2>1, AsideForms
       DEF ActiveCheck, ActiveRead, ActiveRow, ReadsOnly, jobVars, boundVars
<1>6. CASE ActivePut(p)
  <2>1. CandidateActivated(row').type # "ResumeRecorded"
    BY DEF CandidateActivated, Event
  <2>2. QED
    BY <1>6, <2>1, AsideForms DEF ActivePut, boundVars
<1>7. CASE PlanChecks(p) \/ PlanObligations(p)
  <2>1. LET next == [op[p] EXCEPT !.pc = "planObligations"]
        IN  next.pending = << >> /\ next.pc \notin Moving
    BY <1>1 DEF Ops, Moving
  <2>2. QED
    BY <1>7, <2>1, AsideForms DEF PlanChecks, PlanObligations, jobVars, boundVars
<1>8. CASE PutGateResult(p)
  <2>1. LET next == [op[p] EXCEPT !.pc = "verdicts"]
        IN  next.pending = << >> /\ next.pc \notin Moving
    BY <1>1 DEF Ops, Moving
  <2>2. QED
    BY <1>3, <1>8, <2>1, AsideForms DEF PutGateResult, jobVars, boundVars
<1>9. CASE DeriveVerdicts(p) \/ UpdateObligation(p)
  BY <1>3, <1>9, AsideForms DEF DeriveVerdicts, UpdateObligation, jobVars, boundVars
<1>10. QED
  BY <1>4, <1>5, <1>6, <1>7, <1>8, <1>9

LEMMA LoadResumeEntry ==
  ASSUME IInv, LossInv, EntryInv, Alone, NEW p \in Procs, LoadResume(p)
  PROVE  EntryInv'
<1> DEFINE o == op[p]
           next(i) == [o EXCEPT !.pc = "transition", !.resume = log[i].resume,
                                !.target = log[i].resume.to]
<1>1. /\ o.pc = "loadResume" /\ o \in Ops /\ o.pending = << >>
      /\ log \in Seq(SoundEvents)
      /\ log' = log /\ enteredFrom' = enteredFrom /\ failures' = failures
  BY StepStarts DEF LoadResume, ReadsOnly, jobVars, boundVars, LossInv, Unburdened
<1>2. CASE Return(p)
  BY <1>1, <1>2, AsideForms, AsideEntry
<1>3. ASSUME NEW i \in Chosen(RecordsFrom(o.snap.state)), Proceed(p, next(i))
      PROVE  EntryInv'
  <2>1. /\ next(i).pc = "transition" /\ next(i).pending = << >>
        /\ next(i).resume = log[i].resume
    BY <1>1 DEF Ops
  <2>2. i \in 1..Len(log) /\ log[i].type = "ResumeRecorded"
        /\ log[i].resume.from = o.snap.state
    BY DEF Chosen, RecordsFrom
  <2>3. log[i] \in SoundEvents
    BY <1>1, <2>2
  <2>4. o.snap.state = "HumanReviewRequired"
    BY <2>2, <2>3 DEF SoundEvents, ReviewRecords
  <2>5. ASSUME failures = 0 PROVE ResumesTo(next(i), enteredFrom)
    <3>1. \A q \in Procs : ~HoldsRecord(op[q])
      BY <1>1, NothingHeld DEF Alone
    <3>2. LastRecordIs(enteredFrom)
      BY <2>5, <3>1 DEF EntryInv, EntryKnown
    <3>3. QED
      BY <2>1, <2>4, <3>2 DEF LastRecordIs, ResumesTo
  <2> HIDE DEF next
  <2>6. ResumesOnly(next(i))
    BY <2>1 DEF ResumesOnly
  <2>7. QED
    BY <1>1, <1>3, <2>1, <2>5, <2>6, NothingHeld, EntryKept
<1>4. QED
  BY <1>2, <1>3 DEF LoadResume

(* A call of a move that keeps the command and what it resumes.            *)
LEMMA MovingEntry ==
  ASSUME IInv, EntryInv, Alone, NEW p \in Procs, NEW next, Proceed(p, next),
         op[p].pending = << >>, op[p].pc \in Moving,
         next.pending = << >>, ResumesOnly(next),
         next.cmd = op[p].cmd, next.resume = op[p].resume,
         log' = log, enteredFrom' = enteredFrom, failures' = failures
  PROVE  EntryInv'
<1>1. ASSUME failures = 0 /\ EntryKnown
      PROVE  ResumesTo(next, enteredFrom)
  BY <1>1 DEF EntryKnown, ResumesTo
<1>2. QED
  BY <1>1, NothingHeld, EntryKept

LEMMA ReadingMovesEntry ==
  ASSUME IInv, LossInv, EntryInv, Alone, NEW p \in Procs,
         Walk(p) \/ TransitionRead(p) \/ ReadGates(p)
  PROVE  EntryInv'
<1> DEFINE o == op[p]
<1>1. /\ o.pc \in {"walk", "transition", "gates"}
      /\ o \in Ops /\ o.pending = << >>
      /\ log' = log /\ enteredFrom' = enteredFrom /\ failures' = failures
  BY DEF Walk, TransitionRead, ReadGates, ReadsOnly, jobVars, boundVars, LossInv,
         Unburdened, IInv, TypeOK
<1>2. CASE Return(p)
  BY <1>1, <1>2, AsideForms, AsideEntry
<1>3. ASSUME NEW target, Proceed(p, [Begin("reconcile", "gates") EXCEPT
                           !.snap = row, !.expected = row.version,
                           !.target = target, !.probe = TRUE])
      PROVE  EntryInv'
  <2> DEFINE next == [Begin("reconcile", "gates") EXCEPT
                           !.snap = row, !.expected = row.version,
                           !.target = target, !.probe = TRUE]
  <2>1. next.cmd = "reconcile" /\ next.pc = "gates" /\ next.pending = << >>
    BY DEF Begin, Idle
  <2>2. Proceed(p, next)
    BY <1>3
  <2> HIDE DEF next
  <2>3. ResumesOnly(next) /\ ResumesTo(next, enteredFrom)
    BY <2>1 DEF ResumesOnly, ResumesTo
  <2>4. QED
    BY <1>1, <2>1, <2>2, <2>3, NothingHeld, EntryKept
<1>4. CASE Proceed(p, [o EXCEPT !.pc = "gates", !.snap = row]) /\ o.pc = "transition"
  <2> DEFINE next == [o EXCEPT !.pc = "gates", !.snap = row]
  <2>1. /\ next.cmd = o.cmd /\ next.pc = "gates" /\ next.pending = << >>
        /\ next.resume = o.resume
    BY <1>1 DEF Ops
  <2>2. Proceed(p, next) /\ o.pc \in Moving
    BY <1>4 DEF Moving
  <2> HIDE DEF next
  <2>3. ResumesOnly(next)
    BY <2>1 DEF ResumesOnly
  <2>4. QED
    BY <1>1, <2>1, <2>2, <2>3, MovingEntry
<1>5. ASSUME NEW met, Proceed(p, [o EXCEPT !.pc = "evaluate", !.gatesMet = met]),
             o.pc = "gates"
      PROVE  EntryInv'
  <2> DEFINE next == [o EXCEPT !.pc = "evaluate", !.gatesMet = met]
  <2>1. /\ next.cmd = o.cmd /\ next.pc = "evaluate" /\ next.pending = << >>
        /\ next.resume = o.resume
    BY <1>1 DEF Ops
  <2>2. Proceed(p, next) /\ o.pc \in Moving
    BY <1>5 DEF Moving
  <2> HIDE DEF next
  <2>3. ResumesOnly(next)
    BY <2>1 DEF ResumesOnly
  <2>4. QED
    BY <1>1, <2>1, <2>2, <2>3, MovingEntry
<1>6. QED
  BY <1>2, <1>3, <1>4, <1>5 DEF Walk, TransitionRead, ReadGates

(* Out of the review the engine lets pass what the record shown to it says. *)
LEMMA EvaluateResumes ==
  ASSUME IInv, NEW p \in Procs, op[p].pc = "evaluate",
         Evaluate(op[p].expected, op[p].target, op[p].snap, Presented(p),
                  INFRASTRUCTURE_BLOCKED, Unmet(p)) = {},
         op[p].snap.state = "HumanReviewRequired", op[p].target \in FlowStates
  PROVE  op[p].cmd = "resume" /\ op[p].target = op[p].resume.to
<1> DEFINE o == op[p]
<1>1. o.target \notin SyntheticTargets /\ o.snap.state \notin TerminalStates
      /\ o.snap.state \in ExceptionalStates /\ o.snap.state # "None"
  BY DEF FlowStates, SyntheticTargets, TerminalStates, ExceptionalStates
<1>2. Presented(p) = [from |-> o.snap.state, to |-> o.target]
  BY <1>1 DEF Evaluate
<1>3. CASE o.cmd # "resume"
  BY <1>1, <1>2, <1>3 DEF Presented, NoResume
<1>4. CASE o.cmd = "resume"
  BY <1>2, <1>4 DEF Presented
<1>5. QED
  BY <1>3, <1>4

LEMMA EvaluateMoveEntry ==
  ASSUME IInv, LossInv, EntryInv, Alone, NEW p \in Procs, EvaluateMove(p)
  PROVE  EntryInv'
<1> DEFINE o == op[p]
           blockers == Evaluate(o.expected, o.target, o.snap, Presented(p),
                                INFRASTRUCTURE_BLOCKED, Unmet(p))
           call == IF o.probe THEN "transition" ELSE "put"
           next == [o EXCEPT !.probe = FALSE, !.pc = call]
<1>1. /\ o.pc = "evaluate" /\ o \in Ops /\ o.pending = << >>
      /\ log' = log /\ enteredFrom' = enteredFrom /\ failures' = failures
  BY DEF EvaluateMove, ReadsOnly, jobVars, boundVars, LossInv, Unburdened, IInv, TypeOK
<1>2. CASE blockers # {}
  <2>1. Return(p)
    BY <1>2 DEF EvaluateMove, WhenBlocked, Return
  <2>2. QED
    BY <1>1, <2>1, AsideForms, AsideEntry
<1>3. CASE blockers = {}
  <2>1. Proceed(p, next)
    BY <1>3 DEF EvaluateMove
  <2>2. /\ next.cmd = o.cmd /\ next.pending = << >> /\ next.resume = o.resume
        /\ next.snap = o.snap /\ next.target = o.target
    <3> HIDE DEF call
    <3>1. QED
      BY <1>1 DEF Ops
  <2>3. o.pc \in Moving
    BY <1>1 DEF Moving
  <2>4. ResumesOnly(next)
    <3> HIDE DEF next
    <3>1. QED
      BY <1>1, <1>3, <2>2, EvaluateResumes DEF ResumesOnly
  <2> HIDE DEF next
  <2>5. QED
    BY <1>1, <2>1, <2>2, <2>3, <2>4, MovingEntry
<1>4. QED
  BY <1>2, <1>3

LEMMA NextSequenceEntry ==
  ASSUME IInv, EntryInv, Alone, NEW p \in Procs, NextSequence(p)
  PROVE  EntryInv'
<1> DEFINE next == [op[p] EXCEPT !.pc = "append", !.seq = Len(log) + 1]
<1>1. /\ Proceed(p, next) /\ op[p] \in Ops
      /\ log' = log /\ enteredFrom' = enteredFrom /\ failures' = failures
  BY DEF NextSequence, ReadsOnly, jobVars, boundVars, IInv, TypeOK
<1>2. next.pending = op[p].pending /\ next.pc = "append"
  BY <1>1 DEF Ops
<1> HIDE DEF next
<1>3. \A q \in Procs : q = p /\ op'[q] = next
  BY <1>1 DEF Proceed, IInv, TypeOK, Alone
<1>4. \A q \in Procs : ResumesOnly(op[q])'
  BY <1>2, <1>3 DEF ResumesOnly
<1>5. ASSUME failures' = 0 PROVE EntryKnown'
  <2>1. EntryKnown
    BY <1>1, <1>5 DEF EntryInv
  <2>2. ASSUME NEW q \in Procs
        PROVE  ResumesTo(op[q], enteredFrom)' /\ Records(op[q], enteredFrom)'
    <3>1. Records(op[p], enteredFrom)
      BY <2>1 DEF EntryKnown
    <3>2. QED
      BY <1>1, <1>2, <1>3, <3>1 DEF ResumesTo, Records, Moving
  <2>3. ASSUME \A q \in Procs : ~HoldsRecord(op[q])'
        PROVE  LastRecordIs(enteredFrom)'
    <3>1. \A q \in Procs : ~HoldsRecord(op[q])
      BY <1>2, <1>3, <2>3 DEF HoldsRecord
    <3>2. LastRecordIs(enteredFrom)
      BY <2>1, <3>1 DEF EntryKnown
    <3>3. QED
      BY <1>1, <3>2 DEF LastRecordIs, Chosen, RecordsFrom
  <2>4. QED
    BY <2>2, <2>3 DEF EntryKnown
<1>6. QED
  BY <1>4, <1>5 DEF EntryInv

(* What a handler holds after an append is part of what it held.           *)
LEMMA AppendEventEntry ==
  ASSUME IInv, LossInv, EntryInv, Alone, NEW p \in Procs, AppendEvent(p)
  PROVE  EntryInv'
<1> DEFINE o == op[p]
           rest == [o EXCEPT !.pc = "sequence", !.pending = Tail(@)]
           next == IF Tail(o.pending) = << >> THEN AfterAppend(p) ELSE rest
           first == o.pending[1]
<1>1. /\ o.pc = "append" /\ o \in Ops /\ Knows(o, row) /\ o.pending \in Seq(SoundEvents)
      /\ enteredFrom' = enteredFrom /\ failures' = failures
      /\ log \in Seq(SoundEvents)
  BY StepStarts DEF AppendEvent, jobVars, boundVars
<1>2. /\ o.pending # << >> /\ Len(o.pending) \in Nat /\ Len(o.pending) >= 1
      /\ Head(o.pending) = first /\ first \in SoundEvents
      /\ Len(log) \in Nat
  <2>1. o.pending # << >>
    BY <1>1 DEF Knows
  <2>2. Len(o.pending) \in Nat /\ Len(o.pending) # 0 /\ Len(log) \in Nat
    BY <1>1, <2>1, EmptySeq, LenProperties
  <2>3. Head(o.pending) = first /\ Head(o.pending) \in SoundEvents
    BY <1>1, <2>1, HeadTailProperties
  <2>4. QED
    BY <2>1, <2>2, <2>3
<1>3. log' = Append(log, first) /\ Proceed(p, next)
  <2>1. o.seq = Len(log) + 1
    BY <1>1 DEF LossInv, Placed
  <2>2. QED
    BY <1>2, <2>1 DEF AppendEvent
<1>4. /\ next.pending = Tail(o.pending)
      /\ next.pc \notin Moving
  <2>1. AfterAppend(p).pending = << >> /\ AfterAppend(p).pc \notin Moving
    BY DEF AfterAppend, AfterActivation, Begin, Idle, Moving
  <2>2. rest.pc = "sequence" /\ rest.pending = Tail(o.pending)
    BY <1>1 DEF Ops
  <2>3. QED
    BY <2>1, <2>2 DEF Moving
<1>5. /\ Len(Tail(o.pending)) = Len(o.pending) - 1
      /\ \A i \in 1..Len(Tail(o.pending)) : Tail(o.pending)[i] = o.pending[i + 1]
  BY <1>1, <1>2, HeadTailProperties
<1> PICK last \in Nat : last = Len(log) + 1
  BY <1>2
<1>6. /\ Len(log') = last /\ log'[last] = first
      /\ \A i \in 1..Len(log) : log'[i] = log[i]
  BY <1>1, <1>2, <1>3, AppendProperties
<1> HIDE DEF next
<1>7. \A q \in Procs : q = p /\ op'[q] = next
  BY <1>3 DEF Proceed, IInv, TypeOK, Alone
<1>8. \A q \in Procs : ResumesOnly(op[q])'
  BY <1>4, <1>7 DEF ResumesOnly, Moving
<1>9. ASSUME failures' = 0 PROVE EntryKnown'
  <2>1. EntryKnown /\ Records(o, enteredFrom)
    BY <1>1, <1>9 DEF EntryInv, EntryKnown
  <2>2. ASSUME NEW q \in Procs
        PROVE  ResumesTo(op[q], enteredFrom)' /\ Records(op[q], enteredFrom)'
    <3>1. ASSUME NEW i \in 1..Len(next.pending), IsRecord(next.pending[i])
          PROVE  next.pending[i].resume.to = enteredFrom
      <4>1. i + 1 \in 1..Len(o.pending) /\ next.pending[i] = o.pending[i + 1]
        BY <1>2, <1>4, <1>5, <3>1
      <4>2. QED
        BY <2>1, <3>1, <4>1 DEF Records
    <3>2. QED
      BY <1>1, <1>4, <1>7, <3>1 DEF ResumesTo, Records
  <2>3. ASSUME \A q \in Procs : ~HoldsRecord(op[q])',
               NEW i \in Chosen(RecordsFrom("HumanReviewRequired"))'
        PROVE  log'[i].resume.to = enteredFrom
    <3>1. /\ i \in 1..last /\ IsRecord(log'[i])
          /\ log'[i].resume.from = "HumanReviewRequired"
          /\ \A j \in 1..last : /\ IsRecord(log'[j])
                                /\ log'[j].resume.from = "HumanReviewRequired"
                                => j <= i
      BY <1>6, <2>3 DEF Chosen, RecordsFrom, IsRecord
    <3>2. CASE i = last
      <4>1. 1 \in 1..Len(o.pending)
        BY <1>2
      <4>2. QED
        BY <1>6, <2>1, <3>1, <3>2, <4>1 DEF Records
    <3>3. CASE i # last
      <4>1. i \in 1..Len(log) /\ log'[i] = log[i]
        BY <1>2, <1>6, <3>1, <3>3
      <4>2. ~IsRecord(first)
        <5>1. SUFFICES ASSUME IsRecord(first) PROVE FALSE
          OBVIOUS
        <5>2. first.resume.from = "HumanReviewRequired"
          BY <1>2, <5>1 DEF SoundEvents, ReviewRecords, IsRecord
        <5>3. last \in 1..last /\ i < last
          BY <1>2, <3>1, <3>3
        <5>4. QED
          BY <1>6, <3>1, <5>1, <5>2, <5>3
      <4>3. ~HoldsRecord(o)
        <5>1. SUFFICES ASSUME NEW k \in 1..Len(o.pending), IsRecord(o.pending[k])
                       PROVE  FALSE
          BY DEF HoldsRecord
        <5>2. k # 1
          BY <4>2, <5>1
        <5>3. k - 1 \in 1..Len(Tail(o.pending)) /\ Tail(o.pending)[k - 1] = o.pending[k]
          BY <1>2, <1>5, <5>2
        <5>4. k - 1 \in 1..Len(next.pending) /\ IsRecord(next.pending[k - 1])
          BY <1>4, <5>1, <5>3
        <5>5. HoldsRecord(next)
          BY <5>4 DEF HoldsRecord
        <5>6. HoldsRecord(op[p])'
          BY <1>7, <5>5 DEF HoldsRecord
        <5>7. QED
          BY <2>3, <5>6
      <4>4. LastRecordIs(enteredFrom)
        BY <2>1, <4>3 DEF EntryKnown, Alone
      <4>5. \A j \in 1..Len(log) : /\ IsRecord(log[j])
                                   /\ log[j].resume.from = "HumanReviewRequired"
                                   => j <= i
        <5>1. SUFFICES ASSUME NEW j \in 1..Len(log), IsRecord(log[j]),
                              log[j].resume.from = "HumanReviewRequired"
                       PROVE  j <= i
          OBVIOUS
        <5>2. j \in 1..last /\ log'[j] = log[j]
          BY <1>2, <1>6
        <5>3. QED
          BY <3>1, <5>1, <5>2
      <4>6. i \in Chosen(RecordsFrom("HumanReviewRequired"))
        BY <3>1, <4>1, <4>5 DEF Chosen, RecordsFrom, IsRecord
      <4>7. QED
        BY <4>1, <4>4, <4>6 DEF LastRecordIs
    <3>4. QED
      BY <3>2, <3>3
  <2>4. QED
    BY <1>1, <2>2, <2>3 DEF EntryKnown, LastRecordIs
<1>10. QED
  BY <1>8, <1>9 DEF EntryInv

(* A review that is entered leaves a record of where it was entered from.  *)
LEMMA PutProjectionEntry ==
  ASSUME IInv, LossInv, EntryInv, Alone, NEW p \in Procs, PutProjection(p)
  PROVE  EntryInv'
<1> DEFINE o == op[p]
           moved == Transitioned(o.snap, row')
           record == ResumeRecorded(o.resume)
<1>1. /\ o.pc = "put" /\ o \in Ops /\ Knows(o, row) /\ o.pending = << >>
      /\ log' = log /\ failures' = failures
  BY StepStarts DEF PutProjection, boundVars, LossInv, Unburdened
<1>2. CASE row.version # o.expected
  BY <1>1, <1>2, AsideForms, AsideEntry DEF PutProjection, NotOverwritten, jobVars
<1>3. moved.type # "ResumeRecorded"
  BY DEF Transitioned, Event
<1>4. CASE row.version = o.expected /\ o.cmd # "review"
  <2>1. MoveEvents(p, row') = <<moved>>
    <3>1. MoveEvents(p, row') = <<moved>> \o << >>
      BY <1>4 DEF MoveEvents
    <3> HIDE DEF moved
    <3>2. <<moved>> \in Seq({moved})
      OBVIOUS
    <3>3. QED
      BY <3>1, <3>2, ConcatEmptySeq
  <2>2. Emit(p, <<moved>>) /\ enteredFrom' = enteredFrom
    BY <1>4, <2>1 DEF PutProjection, NotOverwritten
  <2> HIDE DEF moved
  <2>3. QED
    BY <1>1, <1>3, <2>2, AsideForms, AsideEntry
<1>5. CASE row.version = o.expected /\ o.cmd = "review"
  <2> DEFINE events == <<moved>> \o <<record>>
             next == [Begin(o.cmd, "sequence") EXCEPT
                        !.pending = events, !.cand = o.cand]
  <2>1. Proceed(p, next) /\ enteredFrom' = o.resume.to
    BY <1>1, <1>5 DEF PutProjection, NotOverwritten, MoveEvents, Emit, Knows, Moving
  <2>2. next.pc = "sequence" /\ next.pending = events
    BY DEF Begin, Idle
  <2>3. IsRecord(record) /\ record.resume = o.resume
    BY DEF IsRecord, ResumeRecorded, Event
  <2>4. /\ Len(events) = 2 /\ events[1] = moved /\ events[2] = record
    <3> HIDE DEF moved, record
    <3>1. <<moved>> \in Seq({moved, record}) /\ <<record>> \in Seq({moved, record})
          /\ Len(<<moved>>) = 1 /\ Len(<<record>>) = 1
      OBVIOUS
    <3>2. QED
      BY <3>1, ConcatProperties
  <2> HIDE DEF next, events, record
  <2>5. \A q \in Procs : q = p /\ op'[q] = next
    BY <2>1 DEF Proceed, IInv, TypeOK, Alone
  <2>6. \A q \in Procs : ResumesOnly(op[q])'
    BY <2>2, <2>5 DEF ResumesOnly
  <2>7. ASSUME NEW i \in 1..Len(next.pending), IsRecord(next.pending[i])
        PROVE  next.pending[i].resume.to = o.resume.to
    <3>1. i = 1 \/ i = 2
      BY <2>2, <2>4, <2>7
    <3>2. i # 1
      BY <1>3, <2>2, <2>4, <2>7 DEF IsRecord
    <3>3. QED
      BY <2>2, <2>3, <2>4, <3>1, <3>2
  <2>8. ASSUME NEW q \in Procs
        PROVE  ResumesTo(op[q], enteredFrom)' /\ Records(op[q], enteredFrom)'
    BY <2>1, <2>2, <2>5, <2>7 DEF ResumesTo, Records, Moving
  <2>9. HoldsRecord(op[p])'
    <3>1. 2 \in 1..Len(next.pending) /\ IsRecord(next.pending[2])
      BY <2>2, <2>3, <2>4
    <3>2. QED
      BY <2>5, <3>1 DEF HoldsRecord
  <2>10. EntryKnown'
    BY <2>8, <2>9 DEF EntryKnown
  <2>11. QED
    BY <2>6, <2>10 DEF EntryInv
<1>6. QED
  BY <1>2, <1>4, <1>5

LEMMA FailEntry ==
  ASSUME IInv, Alone, NEW p \in Procs, Fail(p)
  PROVE  EntryInv'
<1>1. \A q \in Procs : op'[q] = Idle
  BY DEF Fail, Return, Proceed, IInv, TypeOK, Alone
<1>2. failures' # 0
  BY DEF Fail, IInv, TypeOK
<1>3. QED
  BY <1>1, <1>2 DEF EntryInv, ResumesOnly, Idle

LEMMA InitEntry == Init => EntryInv
<1> SUFFICES ASSUME Init PROVE EntryInv
  OBVIOUS
<1>1. \A p \in Procs : op[p] = Idle /\ Idle.pending = << >>
  BY DEF Init, Idle
<1>2. \A p \in Procs : ResumesOnly(op[p]) /\ ResumesTo(op[p], enteredFrom)
  BY <1>1 DEF Idle, ResumesOnly, ResumesTo, Moving
<1>3. LastRecordIs(enteredFrom)
  <2>1. log = << >>
    BY DEF Init
  <2>2. 1..Len(log) = {}
    BY <2>1
  <2>3. QED
    BY <2>2 DEF LastRecordIs, Chosen, RecordsFrom
<1>4. \A p \in Procs : Records(op[p], enteredFrom)
  BY <1>1, NothingHeld
<1>5. QED
  BY <1>2, <1>3, <1>4 DEF EntryInv, EntryKnown

LEMMA NextEntry ==
  Alone /\ IInv /\ LossInv /\ EntryInv /\ [Next]_vars => EntryInv'
<1> SUFFICES ASSUME Alone, IInv, LossInv, EntryInv, [Next]_vars PROVE EntryInv'
  OBVIOUS
<1>1. ASSUME NEW p \in Procs, Request(p)
      PROVE  EntryInv'
  BY <1>1, RequestEntry
<1>2. ASSUME NEW p \in Procs, Step(p)
      PROVE  EntryInv'
  BY <1>2, NextSequenceEntry, AppendEventEntry, AsideStepsEntry, LoadResumeEntry,
     ReadingMovesEntry, EvaluateMoveEntry, PutProjectionEntry DEF Step
<1>3. ASSUME NEW p \in Procs, Fail(p)
      PROVE  EntryInv'
  BY <1>3, FailEntry
<1>4. CASE UNCHANGED vars
  BY <1>4 DEF vars, EntryInv, ResumesOnly, EntryKnown, ResumesTo, Records,
              HoldsRecord, LastRecordIs, Chosen, RecordsFrom
<1>5. QED
  BY <1>1, <1>2, <1>3, <1>4 DEF Next

(* The move that takes a job out of its review, when it is written.        *)
LEMMA ReturnStep ==
  ASSUME IInv, EntryInv, [Next]_vars, failures = 0,
         row.state = "HumanReviewRequired", row'.state \in FlowStates
  PROVE  row'.state = enteredFrom
<1>1. "HumanReviewRequired" \notin FlowStates
  BY DEF FlowStates
<1>2. CASE row' = row
  BY <1>1, <1>2
<1>3. ASSUME NEW p \in Procs, CreateJob(p)
      PROVE  FALSE
  BY <1>3 DEF CreateJob, NoRow
<1>4. ASSUME NEW p \in Procs, ActivePut(p)
      PROVE  row'.state = row.state
  <2>1. op[p].pc = "activePut"
    BY <1>4 DEF ActivePut
  <2>2. Knows(op[p], row) /\ row \in Rows
    BY <2>1, StepStarts
  <2>3. CASE row.version = op[p].snap.version
    <3>1. op[p].snap = row
      BY <2>1, <2>2, <2>3 DEF Knows, Reading
    <3>2. row' = [row EXCEPT !.active = op[p].cand, !.version = @ + 1]
      BY <1>4, <2>3, <3>1 DEF ActivePut, Activated
    <3>3. QED
      BY <2>2, <3>2 DEF Rows
  <2>4. CASE row.version # op[p].snap.version
    BY <1>4, <2>4 DEF ActivePut
  <2>5. QED
    BY <2>3, <2>4
<1>5. ASSUME NEW p \in Procs, PutProjection(p), row' # row
      PROVE  row'.state = enteredFrom
  <2>1. op[p].pc = "put"
    BY <1>5 DEF PutProjection
  <2>2. Knows(op[p], row) /\ row \in Rows
    BY <2>1, StepStarts
  <2>3. row.version = op[p].expected
    BY <1>5 DEF PutProjection, NotOverwritten, jobVars
  <2>4. op[p].snap = row
    BY <2>1, <2>2, <2>3 DEF Knows, Reading, Moving
  <2>5. row' = [row EXCEPT !.state = op[p].target, !.version = op[p].expected + 1]
    BY <1>5, <2>3, <2>4 DEF PutProjection, NotOverwritten
  <2>6. row'.state = op[p].target
    BY <2>2, <2>5 DEF Rows
  <2>7. op[p].cmd = "resume" /\ op[p].target = op[p].resume.to
    BY <2>1, <2>4, <2>6 DEF EntryInv, ResumesOnly
  <2>8. op[p].resume.to = enteredFrom
    BY <2>1, <2>7 DEF EntryInv, EntryKnown, ResumesTo, Moving
  <2>9. QED
    BY <2>6, <2>7, <2>8
<1>6. QED
  BY <1>1, <1>2, <1>3, <1>4, <1>5, RowWriters

(* When requests come one at a time and none has stopped half way, a job   *)
(* that is resumed goes back to where this review found it, however often  *)
(* it has been reviewed before and whatever else was asked of it.          *)
THEOREM ResumeReturns ==
  ASSUME Alone PROVE Spec => ResumeReturnsToEntry
<1>1. Alone /\ IInv /\ EntryInv /\ [Next]_vars =>
        [failures = 0 /\ row.state = "HumanReviewRequired" /\ row'.state \in FlowStates
           => row'.state = enteredFrom]_row
  BY ReturnStep
<1>2. Alone /\ Init => LossInv /\ EntryInv
  BY InitLoss, InitEntry
<1>3. QED
  BY <1>1, <1>2, NextLoss, NextEntry, Invariant, Account, PTL
     DEF Spec, ResumeReturnsToEntry

-----------------------------------------------------------------------------
(* What a replay of the log computes.  Replay is a recursive function over *)
(* the places of the log: that there is one, and that one event more makes *)
(* one step more, is shown by a least counterexample.                      *)

(* A function that carries the replay of s through its first n events. *)
Carries(g, s, n) ==
  g = [k \in 0..n |-> IF k = 0 THEN NoRow ELSE apply(g[k - 1], s[k])]

LEMMA Least ==
  ASSUME NEW T \in SUBSET Nat, T # {}
  PROVE  \E x \in T : \A y \in T : x <= y
<1> DEFINE R == OpToRel(<, Nat)
<1>1. IsWellFoundedOn(R, Nat)
  BY NatLessThanWellFounded
<1>2. PICK x \in T : \A y \in T : <<y, x>> \notin R
  <2> HIDE DEF R
  <2> QED BY <1>1, WFMin
<1>3. \A y \in T : ~(y < x)
  BY <1>2 DEF OpToRel
<1>4. \A y \in T : x <= y
  <2> SUFFICES ASSUME NEW y \in T PROVE x <= y
    OBVIOUS
  <2>1. x \in Nat /\ y \in Nat /\ ~(y < x)
    BY <1>3
  <2> QED BY <2>1
<1> QED BY <1>4

LEMMA Carried ==
  ASSUME NEW s, NEW n \in Nat
  PROVE  \E g : Carries(g, s, n)
<1> DEFINE T == {m \in Nat : ~ \E g : Carries(g, s, m)}
<1>1. SUFFICES ASSUME T # {} PROVE FALSE
  OBVIOUS
<1>2. PICK m \in T : \A k \in T : m <= k
  <2> HIDE DEF T
  <2>1. T \in SUBSET Nat
    BY DEF T
  <2>2. QED
    BY <1>1, <2>1, Least
<1>3. m # 0
  <2>1. Carries([k \in 0..0 |-> NoRow], s, 0)
    BY DEF Carries
  <2>2. QED
    BY <2>1
<1>4. PICK g : Carries(g, s, m - 1)
  <2>1. m - 1 \in Nat /\ m - 1 \notin T
    BY <1>2, <1>3
  <2>2. QED
    BY <2>1
<1> DEFINE h == [k \in 0..m |-> IF k = m THEN apply(g[m - 1], s[m]) ELSE g[k]]
           body(k) == IF k = 0 THEN NoRow ELSE apply(h[k - 1], s[k])
<1>5. ASSUME NEW k \in 0..m PROVE h[k] = body(k)
  <2>1. CASE k = m
    <3>1. h[m - 1] = g[m - 1] /\ h[m] = apply(g[m - 1], s[m])
      BY <1>3
    <3>2. QED
      BY <1>3, <2>1, <3>1
  <2>2. CASE k = 0
    <3>1. 0 \in 0..(m - 1)
      BY <1>3
    <3>2. g[0] = NoRow
      BY <1>4, <3>1 DEF Carries
    <3>3. QED
      BY <1>3, <2>2, <3>2
  <2>3. CASE k # m /\ k # 0
    <3>1. k \in 0..(m - 1) /\ k - 1 \in 0..m /\ k - 1 # m
      BY <2>3
    <3>2. g[k] = apply(g[k - 1], s[k])
      BY <1>4, <2>3, <3>1 DEF Carries
    <3>3. h[k - 1] = g[k - 1] /\ h[k] = g[k]
      BY <2>3, <3>1
    <3>4. QED
      BY <2>3, <3>2, <3>3
  <2>4. QED
    BY <2>1, <2>2, <2>3
<1>6. h = [k \in 0..m |-> body(k)]
  <2>1. h = [k \in 0..m |-> h[k]]
    OBVIOUS
  <2> HIDE DEF h, body
  <2>2. QED
    BY <1>5, <2>1
<1>7. Carries(h, s, m)
  <2> HIDE DEF h
  <2>1. QED
    BY <1>6 DEF Carries
<1>8. QED
  BY <1>2, <1>7

SameUpTo(n, s, t) == \A k \in 1..n : s[k] = t[k]

(* Two of them agree as far as both go and their logs are the same. *)
LEMMA CarriedAlike ==
  ASSUME NEW s, NEW t, NEW n \in Nat, NEW m \in Nat, NEW g, NEW h,
         Carries(g, s, n), Carries(h, t, m), n <= m, SameUpTo(n, s, t)
  PROVE  g[n] = h[n]
<1> DEFINE T == {k \in 0..n : g[k] # h[k]}
<1>1. SUFFICES ASSUME T # {} PROVE FALSE
  <2>1. n \in 0..n
    OBVIOUS
  <2>2. QED
    BY <2>1
<1>2. PICK k \in T : \A j \in T : k <= j
  <2> HIDE DEF T
  <2>1. T \in SUBSET Nat
    BY DEF T
  <2>2. QED
    BY <1>1, <2>1, Least
<1>3. k \in 0..n /\ k \in 0..m
  OBVIOUS
<1>4. /\ g[k] = IF k = 0 THEN NoRow ELSE apply(g[k - 1], s[k])
      /\ h[k] = IF k = 0 THEN NoRow ELSE apply(h[k - 1], t[k])
  BY <1>3 DEF Carries
<1>5. CASE k = 0
  BY <1>4, <1>5
<1>6. CASE k # 0
  <2>1. k - 1 \in 0..n /\ k - 1 \notin T /\ k \in 1..n
    BY <1>2, <1>3, <1>6
  <2>2. g[k - 1] = h[k - 1] /\ s[k] = t[k]
    BY <2>1 DEF SameUpTo
  <2>3. QED
    BY <1>4, <1>6, <2>2
<1>7. QED
  BY <1>5, <1>6

LEMMA ReplayIs ==
  ASSUME NEW s, Len(s) \in Nat
  PROVE  \E g : Carries(g, s, Len(s)) /\ Replay(s) = g[Len(s)]
<1> DEFINE g == CHOOSE f : Carries(f, s, Len(s))
<1>1. Carries(g, s, Len(s))
  BY Carried
<1>2. Replay(s) = g[Len(s)]
  BY DEF Replay, Carries
<1>3. QED
  BY <1>1, <1>2

LEMMA ReplayEmpty == Replay(<< >>) = NoRow
<1>1. Len(<< >>) = 0
  OBVIOUS
<1>2. PICK g : Carries(g, << >>, 0) /\ Replay(<< >>) = g[0]
  BY <1>1, ReplayIs
<1>3. QED
  BY <1>2 DEF Carries

LEMMA ReplayAppend ==
  ASSUME NEW S, NEW s \in Seq(S), NEW e \in S
  PROVE  Replay(Append(s, e)) = apply(Replay(s), e)
<1> DEFINE t == Append(s, e)
<1> PICK n \in Nat : n = Len(s)
  BY LenProperties
<1> PICK m \in Nat : m = n + 1
  OBVIOUS
<1>1. Len(t) = m /\ t[m] = e /\ SameUpTo(n, s, t)
  BY AppendProperties DEF SameUpTo
<1> HIDE DEF t
<1>2. PICK g : Carries(g, s, n) /\ Replay(s) = g[n]
  BY ReplayIs
<1>3. PICK h : Carries(h, t, m) /\ Replay(t) = h[m]
  BY <1>1, ReplayIs
<1>4. g[n] = h[n]
  <2>1. n <= m
    OBVIOUS
  <2>2. QED
    BY <1>1, <1>2, <1>3, <2>1, CarriedAlike
<1>5. h[m] = apply(h[n], t[m])
  <2>1. m \in 0..m /\ m # 0 /\ m - 1 = n
    OBVIOUS
  <2>2. QED
    BY <1>3, <2>1 DEF Carries
<1>6. QED
  BY <1>1, <1>2, <1>3, <1>4, <1>5 DEF t

-----------------------------------------------------------------------------
(* The row a replay ends on, when requests come one at a time.             *)

(* What a replay would end on once the next event, if any, is appended.    *)
Told(events, s) ==
  IF s = << >> THEN Replay(events) ELSE apply(Replay(events), s[1])

ReplayInv ==
  /\ \A p \in Procs : Told(log, op[p].pending) = row
  /\ Procs = {} => Replay(log) = row

(* An event that tells nothing of the row moves nothing in a replay.       *)
LEMMA SilentTold ==
  ASSUME NEW events, NEW s \in Seq(Events), Silent(s)
  PROVE  Told(events, s) = Replay(events)
<1>1. CASE s = << >>
  BY <1>1 DEF Told
<1>2. CASE s # << >>
  <2>1. Len(s) \in Nat /\ Len(s) # 0
    BY <1>2, EmptySeq, LenProperties
  <2>2. ~Tells(s[1])
    <3>1. 1 \in 1..Len(s)
      BY <2>1
    <3>2. QED
      BY <3>1 DEF Silent
  <2>3. apply(Replay(events), s[1]) = Replay(events)
    BY <2>2 DEF apply, Tells, RowEvent
  <2>4. QED
    BY <1>2, <2>3 DEF Told
<1>3. QED
  BY <1>1, <1>2

(* A call that leaves row and log, of a handler that held nothing or goes  *)
(* on holding what it held.                                                *)
LEMMA QuietReplay ==
  ASSUME IInv', ReplayInv, Alone, NEW p \in Procs, Quiet(p),
         log' = log, row' = row,
         op'[p].pending = op[p].pending \/ op[p].pending = << >>
  PROVE  ReplayInv'
<1>1. SUFFICES Told(log, op'[p].pending) = row
  BY DEF ReplayInv, Alone, Told
<1>2. CASE op'[p].pending = op[p].pending
  BY <1>2 DEF ReplayInv
<1>3. CASE op[p].pending = << >> /\ Silent(op'[p].pending)
  <2>1. Replay(log) = row
    BY <1>3 DEF ReplayInv, Told
  <2>2. op'[p].pending \in Seq(Events)
    BY DEF IInv, TypeOK, Ops
  <2>3. QED
    BY <1>3, <2>1, <2>2, SilentTold
<1>4. QED
  BY <1>2, <1>3 DEF Quiet

LEMMA NothingHeldBy ==
  ASSUME LossInv, NEW p \in Procs, op[p].pc \notin {"sequence", "append"}
  PROVE  op[p].pending = << >>
BY DEF LossInv, Unburdened

(* A handler that now holds the events of what it has written.             *)
LEMMA WrittenReplay ==
  ASSUME IInv, ReplayInv, Alone, NEW p \in Procs, NEW events, Emit(p, events),
         events # << >>, apply(Replay(log), events[1]) = row', log' = log
  PROVE  ReplayInv'
<1>1. op'[p].pending = events
  <2> DEFINE next == [Begin(op[p].cmd, "sequence") EXCEPT
                        !.pending = events, !.cand = op[p].cand]
  <2>1. Proceed(p, next) /\ next.pending = events
    BY DEF Emit, Begin, Idle
  <2> HIDE DEF next
  <2>2. QED
    BY <2>1 DEF Proceed, IInv, TypeOK
<1>2. QED
  BY <1>1 DEF ReplayInv, Told, Alone

LEMMA CreateJobReplay ==
  ASSUME IInv, Alone, NEW p \in Procs, CreateJob(p)
  PROVE  ReplayInv'
<1> DEFINE events == <<JobCreated(BirthRow), Event("Domain")>>
           next == [Begin("create", "sequence") EXCEPT !.pending = events]
<1>1. Proceed(p, next) /\ next.pending = events /\ row' = BirthRow
  BY DEF CreateJob, Begin, Idle
<1> HIDE DEF next
<1>2. op'[p].pending = events
  BY <1>1 DEF Proceed, IInv, TypeOK
<1>3. events # << >> /\ events[1] = JobCreated(BirthRow)
  OBVIOUS
<1>4. /\ JobCreated(BirthRow).type = "JobCreated"
      /\ JobCreated(BirthRow).after = BirthRow
  BY DEF JobCreated, Event
<1>5. \A r : apply(r, JobCreated(BirthRow)) = BirthRow
  BY <1>4 DEF apply
<1> HIDE DEF events
<1>6. QED
  BY <1>1, <1>2, <1>3, <1>5 DEF ReplayInv, Told, Alone

LEMMA AppendEventReplay ==
  ASSUME IInv, OneAccount, LossInv, ReplayInv, Alone, NEW p \in Procs,
         AppendEvent(p), IInv'
  PROVE  ReplayInv'
<1> DEFINE o == op[p]
           rest == [o EXCEPT !.pc = "sequence", !.pending = Tail(@)]
           next == IF Tail(o.pending) = << >> THEN AfterAppend(p) ELSE rest
           first == o.pending[1]
<1>1. /\ o.pc = "append" /\ o \in Ops /\ Knows(o, row) /\ row' = row
      /\ o.pending \in Seq(Events) /\ log \in Seq(Events)
  BY StepStarts DEF AppendEvent, jobVars, IInv, TypeOK, Ops
<1>2. o.pending # << >> /\ Head(o.pending) = first /\ first \in Events
  <2>1. o.pending # << >>
    BY <1>1 DEF Knows
  <2>2. QED
    BY <1>1, <2>1, HeadTailProperties
<1>3. log' = Append(log, first) /\ Proceed(p, next)
  <2>1. o.seq = Len(log) + 1
    BY <1>1 DEF LossInv, Placed
  <2>2. QED
    BY <1>2, <2>1 DEF AppendEvent
<1>4. Replay(log') = row
  <2>1. Replay(log') = apply(Replay(log), first)
    BY <1>1, <1>2, <1>3, ReplayAppend
  <2>2. QED
    BY <1>2, <2>1 DEF ReplayInv, Told
<1>5. next.pending = Tail(o.pending)
  <2>1. AfterAppend(p).pending = << >>
    BY DEF AfterAppend, AfterActivation, Begin, Idle
  <2>2. rest.pending = Tail(o.pending)
    BY <1>1 DEF Ops
  <2>3. QED
    BY <2>1, <2>2
<1>6. Silent(Tail(o.pending))
  <2>1. /\ Len(Tail(o.pending)) = Len(o.pending) - 1 /\ Len(o.pending) \in Nat
        /\ \A i \in 1..Len(Tail(o.pending)) : Tail(o.pending)[i] = o.pending[i + 1]
    BY <1>1, <1>2, HeadTailProperties, LenProperties
  <2>2. RestSilent(o.pending)
    BY DEF OneAccount
  <2>3. QED
    BY <2>1, <2>2 DEF Silent, RestSilent
<1> HIDE DEF next
<1>7. op'[p].pending = Tail(o.pending)
  BY <1>3, <1>5 DEF Proceed, IInv, TypeOK
<1>8. Tail(o.pending) \in Seq(Events)
  BY <1>1, <1>2, HeadTailProperties
<1>9. Told(log', op'[p].pending) = row'
  BY <1>1, <1>4, <1>6, <1>7, <1>8, SilentTold
<1>10. QED
  BY <1>9 DEF ReplayInv, Alone

LEMMA ActivePutReplay ==
  ASSUME IInv, LossInv, ReplayInv, Alone, NEW p \in Procs, ActivePut(p), IInv'
  PROVE  ReplayInv'
<1> DEFINE o == op[p]
           e == CandidateActivated(row')
<1>1. o.pc = "activePut" /\ log' = log
  BY DEF ActivePut
<1>2. Knows(o, row) /\ row \in Rows /\ o.pending = << >>
  BY <1>1, StepStarts, NothingHeldBy
<1>3. CASE row.version = o.snap.version
  <2>1. o.snap = row
    BY <1>1, <1>2, <1>3 DEF Knows, Reading
  <2>2. Emit(p, <<e>>) /\ row' = [row EXCEPT !.active = o.cand, !.version = @ + 1]
    BY <1>3, <2>1 DEF ActivePut, Activated
  <2>3. Replay(log) = row
    BY <1>2 DEF ReplayInv, Told
  <2>4. e.type = "CandidateActivated" /\ e.after = row'
    BY DEF CandidateActivated, Event
  <2> HIDE DEF e
  <2>5. apply(row, e) = [row' EXCEPT !.state = row.state]
    BY <2>4 DEF apply
  <2>6. [row' EXCEPT !.state = row.state] = row'
    BY <1>2, <2>2 DEF Rows
  <2>7. <<e>> # << >> /\ <<e>>[1] = e
    OBVIOUS
  <2>8. QED
    BY <1>1, <2>2, <2>3, <2>5, <2>6, <2>7, WrittenReplay
<1>4. CASE row.version # o.snap.version
  BY <1>1, <1>2, <1>4, QuietCalls, QuietReplay DEF ActivePut
<1>5. QED
  BY <1>3, <1>4

LEMMA PutProjectionReplay ==
  ASSUME IInv, LossInv, ReplayInv, Alone, NEW p \in Procs, PutProjection(p), IInv'
  PROVE  ReplayInv'
<1> DEFINE o == op[p]
           moved == Transitioned(o.snap, row')
           r == ResumeRecorded(o.resume)
           records == IF o.cmd = "review" THEN <<r>> ELSE << >>
           events == MoveEvents(p, row')
<1>1. o.pc = "put" /\ log' = log
  BY DEF PutProjection
<1>2. o.pending = << >>
  BY <1>1, NothingHeldBy
<1>3. CASE row.version = o.expected
  <2>1. Emit(p, events)
    BY <1>3 DEF PutProjection, NotOverwritten
  <2>2. Replay(log) = row
    BY <1>2 DEF ReplayInv, Told
  <2>3. moved.type = "Transitioned" /\ moved.after = row'
    BY DEF Transitioned, Event
  <2>4. events # << >> /\ events[1] = moved
    <3>1. events = <<moved>> \o records
      BY DEF MoveEvents
    <3> HIDE DEF moved, events, r
    <3>2. << >> \in Seq({moved, r}) /\ Len(<< >>) = 0
      BY EmptySeq
    <3>3. <<r>> \in Seq({moved, r}) /\ Len(<<r>>) = 1
      OBVIOUS
    <3>4. <<moved>> \in Seq({moved, r}) /\ Len(<<moved>>) = 1
      OBVIOUS
    <3>5. records \in Seq({moved, r}) /\ Len(records) \in {0, 1}
      BY <3>2, <3>3
    <3> HIDE DEF records
    <3>6. Len(events) = 1 + Len(records) /\ events[1] = moved
      BY <3>1, <3>4, <3>5, ConcatProperties
    <3>7. QED
      BY <3>2, <3>5, <3>6
  <2> HIDE DEF moved, events
  <2>5. apply(Replay(log), events[1]) = row'
    BY <2>3, <2>4 DEF apply
  <2>6. QED
    BY <1>1, <2>1, <2>4, <2>5, WrittenReplay
<1>4. CASE row.version # o.expected
  BY <1>1, <1>2, <1>4, QuietCalls, QuietReplay DEF PutProjection, NotOverwritten, jobVars
<1>5. QED
  BY <1>3, <1>4

LEMMA StepReplay ==
  ASSUME IInv, OneAccount, LossInv, ReplayInv, Alone, NEW p \in Procs, Step(p), IInv'
  PROVE  ReplayInv'
<1>1. CASE NextSequence(p)
  <2>1. log' = log /\ row' = row /\ Quiet(p)
    BY <1>1, QuietSteps
  <2>2. op'[p].pending = op[p].pending
    <3>1. op[p] \in Ops
      BY DEF IInv, TypeOK
    <3>2. [op[p] EXCEPT !.pc = "append", !.seq = Len(log) + 1].pending = op[p].pending
      BY <3>1 DEF Ops
    <3>3. QED
      BY <1>1, <3>2 DEF NextSequence, Proceed, IInv, TypeOK
  <2>3. QED
    BY <2>1, <2>2, QuietReplay
<1>2. CASE AppendEvent(p)
  BY <1>2, AppendEventReplay
<1>3. CASE ActivePut(p) \/ PutProjection(p)
  BY <1>3, ActivePutReplay, PutProjectionReplay
<1>4. CASE \/ FindSource(p) \/ InsertSource(p)
           \/ ActiveCheck(p) \/ ActiveRead(p) \/ ActiveRow(p)
           \/ PlanChecks(p) \/ PlanObligations(p) \/ LoadResume(p) \/ Walk(p)
           \/ TransitionRead(p) \/ ReadGates(p) \/ EvaluateMove(p)
           \/ PutGateResult(p) \/ DeriveVerdicts(p) \/ UpdateObligation(p)
  <2>1. op[p].pc \notin {"sequence", "append"}
    BY <1>4 DEF FindSource, InsertSource, ActiveCheck, ActiveRead, ActiveRow,
           PlanChecks, PlanObligations, LoadResume, Walk, TransitionRead,
           ReadGates, EvaluateMove, PutGateResult, DeriveVerdicts, UpdateObligation
  <2>2. op[p].pending = << >>
    BY <2>1, NothingHeldBy
  <2>3. log' = log /\ row' = row /\ Quiet(p)
    BY <1>4, QuietSteps
  <2>4. QED
    BY <2>2, <2>3, QuietReplay
<1>5. QED
  BY <1>1, <1>2, <1>3, <1>4 DEF Step

LEMMA RequestReplay ==
  ASSUME IInv, LossInv, ReplayInv, Alone, NEW p \in Procs, Request(p), IInv'
  PROVE  ReplayInv'
<1>1. CASE CreateJob(p)
  BY <1>1, CreateJobReplay
<1>2. CASE ~CreateJob(p)
  <2>1. log' = log /\ row' = row /\ Quiet(p)
    BY <1>2, RequestQuiet
  <2>2. op[p].pc = "idle"
    BY <1>2 DEF Request, CaptureCandidate, SetActiveCandidate, Transition,
           EnterHumanReview, ResumeJob, Reconcile, RunCheck,
           RecordObligationOutcome, RecordCheckEvidence, Accept
  <2>3. op[p].pending = << >>
    BY <2>2, NothingHeldBy
  <2>4. QED
    BY <2>1, <2>3, QuietReplay
<1>3. QED
  BY <1>1, <1>2

(* No step takes a failure back, and only a handler that stops adds one.   *)
LEMMA FailuresStay ==
  ASSUME NEW p \in Procs, Request(p) \/ Step(p)
  PROVE  failures' = failures
<1>1. CASE Request(p)
  BY <1>1 DEF Request, CreateJob, CaptureCandidate, SetActiveCandidate, Transition,
     EnterHumanReview, ResumeJob, Reconcile, RunCheck, RecordObligationOutcome,
     RecordCheckEvidence, Accept, boundVars
<1>2. CASE Step(p)
  BY <1>2 DEF Step, NextSequence, AppendEvent, FindSource, InsertSource,
     ActiveCheck, ActiveRead, ActiveRow, ActivePut, PlanChecks, PlanObligations,
     LoadResume, Walk, TransitionRead, ReadGates, EvaluateMove, PutProjection,
     PutGateResult, DeriveVerdicts, UpdateObligation, ReadsOnly, boundVars
<1>3. QED
  BY <1>1, <1>2

Whole == IInv /\ OneAccount /\ LossInv /\ ReplayInv

(* A rebuild may follow a failure, and then nothing is claimed; before the *)
(* first one it writes the row that is there.                              *)
RepairInv == failures \in Nat /\ (failures = 0 => Whole)

LEMMA RebuildKeeps ==
  ASSUME Whole, Rebuild
  PROVE  UNCHANGED vars
<1>1. Replay(log) = row
  <2>1. \A p \in Procs : op[p].pending = << >>
    BY DEF Rebuild, Quiescent, Whole, LossInv, Unburdened
  <2>2. QED
    BY <2>1 DEF Whole, ReplayInv, Told
<1>2. row' = row
  BY <1>1 DEF Rebuild, Whole, IInv, TypeOK, Rows, NoRow
<1>3. QED
  BY <1>2 DEF Rebuild, vars, candidateVars, planVars, gateVars, boundVars

LEMMA StutterReplay ==
  ASSUME ReplayInv, UNCHANGED vars
  PROVE  ReplayInv'
BY DEF ReplayInv, Told, vars

LEMMA NextReplay ==
  ASSUME Alone, Whole, [Next]_vars, failures' = failures, failures = 0
  PROVE  Whole'
<1>1. IInv' /\ OneAccount' /\ LossInv'
  BY NextSafe, NextAccount, NextLoss DEF Whole
<1>2. ASSUME NEW p \in Procs, Fail(p)
      PROVE  FALSE
  BY <1>2 DEF Fail
<1>3. ASSUME NEW p \in Procs, Request(p)
      PROVE  ReplayInv'
  BY <1>1, <1>3, RequestReplay DEF Whole
<1>4. ASSUME NEW p \in Procs, Step(p)
      PROVE  ReplayInv'
  BY <1>1, <1>4, StepReplay DEF Whole
<1>5. ASSUME UNCHANGED vars
      PROVE  ReplayInv'
  BY <1>5, StutterReplay DEF Whole
<1>6. ReplayInv'
  BY <1>2, <1>3, <1>4, <1>5 DEF Next
<1>7. QED
  BY <1>1, <1>6 DEF Whole

LEMMA NextRepair ==
  Alone /\ RepairInv /\ [RepairNext]_vars => RepairInv'
<1> SUFFICES ASSUME Alone, RepairInv, [RepairNext]_vars PROVE RepairInv'
  OBVIOUS
<1>1. failures' = failures \/ failures' = failures + 1
  <2>1. ASSUME NEW p \in Procs, Fail(p)
        PROVE  failures' = failures + 1
    BY <2>1 DEF Fail
  <2>2. CASE Next
    BY <2>1, <2>2, FailuresStay DEF Next
  <2>3. CASE Rebuild \/ UNCHANGED vars
    BY <2>3 DEF Rebuild, boundVars, vars
  <2>4. QED
    BY <2>2, <2>3 DEF RepairNext
<1>2. failures' \in Nat /\ (failures' = 0 => failures = 0)
  BY <1>1 DEF RepairInv
<1>3. ASSUME failures' = 0
      PROVE  Whole'
  <2>1. failures = 0 /\ Whole
    BY <1>2, <1>3 DEF RepairInv
  <2>2. Rebuild => UNCHANGED vars
    BY <2>1, RebuildKeeps
  <2>3. [Next]_vars
    BY <2>2 DEF RepairNext
  <2>4. QED
    BY <1>3, <2>1, <2>3, NextReplay
<1>4. QED
  BY <1>2, <1>3 DEF RepairInv

LEMMA InitRepair == Init => RepairInv
<1> SUFFICES ASSUME Init PROVE RepairInv
  OBVIOUS
<1>1. \A p \in Procs : op[p].pending = << >>
  BY DEF Init, Idle
<1>2. Replay(log) = row
  BY ReplayEmpty DEF Init
<1>3. ReplayInv
  BY <1>1, <1>2 DEF ReplayInv, Told
<1>4. IInv /\ OneAccount /\ LossInv
  BY InitSafe, InitAccount, InitLoss
<1>5. failures = 0
  BY DEF Init
<1>6. QED
  BY <1>3, <1>4, <1>5 DEF RepairInv, Whole

(* When requests come one at a time and none has stopped half way, the     *)
(* replay of the log is the row, whatever was asked of the job and however *)
(* often the projections were rebuilt in between: the log is the authority.*)
THEOREM ReplaySound ==
  ASSUME Alone PROVE RepairSpec => []ReplayMatchesRow
<1>1. RepairInv => ReplayMatchesRow
  <2> SUFFICES ASSUME RepairInv, failures = 0, Quiescent
               PROVE  Replay(log) = row
    BY DEF ReplayMatchesRow
  <2>1. Whole
    BY DEF RepairInv
  <2>2. \A p \in Procs : op[p].pending = << >>
    BY <2>1 DEF Quiescent, Whole, LossInv, Unburdened
  <2>3. QED
    BY <2>1, <2>2 DEF Whole, ReplayInv, Told
<1>2. QED
  BY <1>1, InitRepair, NextRepair, PTL DEF RepairSpec

=============================================================================
