--------------------------- MODULE MCJobService ----------------------------
(***************************************************************************)
(* Instances of JobService for TLC.  A run starts from the birth of a job  *)
(* (Spec), or from a job that one careful client, working alone, has       *)
(* driven to the StartAt-th state of the flow (SerialSpec): a state the    *)
(* service reaches, from which the interleavings of a few more requests    *)
(* are explored in full.                                                   *)
(***************************************************************************)
EXTENDS ProjectionReplay, SequencesExt

CONSTANTS
  StartAt,          \* rules crossed before the run starts, 0 .. 11
  FirstCandidate,   \* the candidate that client captured and activated
  AlreadyPassing    \* whether it has passed every gate there is

Flow ==
  <<"EventDetected", "Intake", "SourceReview", "CandidateAssembly",
    "SourceRevision", "SourceIntegrity", "BuildValidation",
    "PackageQaValidation", "FunctionalValidation", "UpgradeValidation",
    "ReleaseReview", "FinalValidation">>

(* The row after the i-th move of that client: its first is the activation. *)
RowAt(i) == [state |-> Flow[i], active |-> FirstCandidate, version |-> i]

SerialLog ==
  <<JobCreated(BirthRow), Event("Domain"), Event("Domain"),
    CandidateActivated(RowAt(1))>>
  \o FlattenSeq([i \in 1..StartAt |->
       <<Event("ToolRunFinished"), Transitioned(RowAt(i), RowAt(i + 1))>>])

SerialPassing ==
  {FirstCandidate} \X
    IF AlreadyPassing THEN GateStages
    ELSE UNION {r.gates : r \in UNION {RulesFrom(Flow[i]) : i \in 1..StartAt}}

SerialInit ==
  /\ row = RowAt(StartAt + 1)
  /\ log = SerialLog
  /\ activeRow = FirstCandidate
  /\ captured = {FirstCandidate}
  /\ planned = {FirstCandidate}
  /\ obliged = {FirstCandidate}
  /\ passing = SerialPassing
  /\ policyMet = {FirstCandidate}
  /\ op = [p \in Procs |-> Idle]
  /\ requests = 0
  /\ failures = 0
  /\ enteredFrom = "None"

SerialSpec == SerialInit /\ [][Next]_vars

SerialRepairSpec == SerialInit /\ [][RepairNext]_vars

SerialFairSpec == SerialSpec /\ \A p \in Procs : WF_vars(Step(p))

Symmetry == Permutations(Procs)
=============================================================================
