--------------------------- MODULE MCSqliteStore ---------------------------
(***************************************************************************)
(* Instances of SqliteStore for TLC.  A behaviour draws its calls from one *)
(* menu, the methods of tables that belong together, on a store in which   *)
(* the job j1 exists and j2 does not.                                      *)
(***************************************************************************)
EXTENDS SqliteStore, TLC

CONSTANTS
  older,    \* installed with the first migration only
  current,  \* with both
  upgraded, \* with both, and an event type more
  renamed   \* with a second migration under another name

First == <<1, "0001_initial.sql">>
Second == <<2, "0002_check_definitions.sql">>

FourInstalls ==
  (older :> {First}) @@ (current :> {First, Second}) @@
  (upgraded :> {First, Second}) @@ (renamed :> {First, <<2, "0002.sql">>})

FourReaders ==
  [d \in {older, current, renamed} |-> {"job_created", "transitioned"}] @@
  (upgraded :> {"job_created", "transitioned", "candidate_activated"})

Ask(trait, op) == [trait |-> trait, op |-> op]

CreateJob ==
  Ask("ProjectionStore", "put_projection") @@
  [job |-> "j1", expected |-> 0, version |-> 0]

Appends ==
  {Ask("EventStore", "append_event") @@ e :
     e \in {[job |-> "j1", seq |-> 1, event |-> "job_created"],
            [job |-> "j1", seq |-> 1, event |-> "transitioned"],
            [job |-> "j1", seq |-> 2, event |-> "transitioned"],
            [job |-> "j1", seq |-> 2, event |-> "candidate_activated"],
            [job |-> "j2", seq |-> 1, event |-> "job_created"]}}

LogRequests ==
  Appends \cup
  {Ask("EventStore", "get_event") @@ [job |-> "j1", seq |-> 1],
   Ask("EventStore", "list_events_for_job")
     @@ [job |-> "j1", first |-> 1, last |-> 9],
   Ask("EventStore", "next_sequence") @@ [job |-> "j1"],
   Ask("ProjectionStore", "rebuild_projection") @@ [job |-> "j1"]}

ProjectionRequests ==
  {Ask("ProjectionStore", "put_projection")
     @@ [job |-> j, expected |-> n, version |-> n + 1] :
     j \in {"j1", "j2"}, n \in 0..1} \cup
  {Ask("ProjectionStore", "get_projection") @@ [job |-> j] :
     j \in {"j1", "j2"}}

SourceRequests ==
  {Ask("CandidateStore", "put_source_candidate")
     @@ [job |-> j, id |-> i, fp |-> f] :
     j \in {"j1", "j2"}, i \in {1, 2}, f \in {"f1", "f2"}} \cup
  {Ask("CandidateStore", "set_active_source_candidate")
     @@ [job |-> "j1", id |-> i] : i \in {1, 2}} \cup
  {Ask("CandidateStore", op) @@ [job |-> "j1"] :
     op \in {"active_source_candidate", "list_source_candidates_for_job"}} \cup
  {Ask("CandidateStore", "find_source_by_fingerprint") @@ [fp |-> "f1"],
   Ask("CandidateStore", "get_source_candidate") @@ [id |-> 1]}

(* Two records, two values, and a record of a job that is not there. *)
RowRequests(trait, put, get, list, values) ==
  {Ask(trait, put) @@ [job |-> "j1", id |-> i, val |-> v] :
     i \in {1, 2}, v \in values} \cup
  {Ask(trait, put) @@ [job |-> "j2", id |-> 1, val |-> v] : v \in values} \cup
  {Ask(trait, get) @@ [id |-> 1], Ask(trait, list) @@ [job |-> "j1"]}

Updates(trait, update, values) ==
  {Ask(trait, update) @@ [id |-> i, val |-> v] : i \in {1, 2}, v \in values}

ReleaseRequests ==
  RowRequests("CandidateStore", "put_release_candidate",
    "get_release_candidate", "list_release_candidates_for_job", {"a", "b"})

EvidenceRequests ==
  RowRequests("EvidenceStore", "put_evidence", "get_evidence",
    "list_evidence_for_job", {"f1", "f2"}) \cup
  {Ask("EvidenceStore", "list_evidence_for_candidate") @@ [fp |-> "f1"]}

GateRequests ==
  RowRequests("GateStore", "put_gate_definition", "get_gate_definition",
    "list_gates_for_job", {"a", "b"})

ObligationRequests ==
  RowRequests("ObligationStore", "put_obligation", "get_obligation",
    "list_obligations_for_job", {"a", "b"}) \cup
  Updates("ObligationStore", "update_obligation", {"a", "b"})

OperationRequests ==
  RowRequests("OperationStore", "put_operation", "get_operation",
    "list_operations_for_job", {"proposed", "executing"}) \cup
  Updates("OperationStore", "update_operation", {"succeeded", "executing"}) \cup
  {Ask("OperationStore", "list_executing_operations")}

ArtifactRequests ==
  RowRequests("ArtifactMetadataStore", "put_artifact", "get_artifact",
    "list_artifacts_for_job", {"a"}) \cup
  {Ask("ArtifactMetadataStore", "artifact_exists") @@ [id |-> 1]}

CheckRequests ==
  RowRequests("CheckStore", "put_check", "get_check", "list_checks_for_job",
    {"a"})

CreateGate ==
  Ask("GateStore", "put_gate_definition")
    @@ [job |-> "j1", id |-> 1, val |-> "a"]

ResultRequests ==
  {Ask("GateStore", "put_gate_result") @@ [id |-> g, fp |-> f, val |-> v] :
     g \in {1, 2}, f \in {"f1", "f2"}, v \in {"pass", "fail"}} \cup
  {Ask("GateStore", "get_gate_result") @@ [id |-> 1, fp |-> f] :
     f \in {"f1", "f2"}}

WorkspaceRequests ==
  {Ask("WorkspaceMetadataStore", "put_workspace_state")
     @@ [job |-> "j1", id |-> h, expected |-> n, revision |-> n + 1] :
     h \in {1, 2}, n \in 0..1} \cup
  {Ask("WorkspaceMetadataStore", "get_workspace_state") @@ [id |-> 1],
   Ask("WorkspaceMetadataStore", "list_workspaces_for_job") @@ [job |-> "j1"]}

OneStatement ==
  {ReleaseRequests, EvidenceRequests, GateRequests, ObligationRequests,
   OperationRequests, ArtifactRequests, CheckRequests, SourceRequests}

AllRequests ==
  {CreateJob} \cup UNION OneStatement \cup LogRequests \cup ProjectionRequests
  \cup ResultRequests \cup WorkspaceRequests

Menu(requests, before, count, starting) ==
  [requests |-> requests, before |-> before, migrated |-> {First, Second},
   calls |-> count, starts |-> starting, daemons |-> {current}]

AllMenus ==
  {Menu(requests, <<CreateJob>>, 3, 1) : requests \in OneStatement} \cup
  {Menu(ResultRequests, <<CreateJob, CreateGate>>, 3, 1),
   Menu(ProjectionRequests, <<CreateJob>>, 4, 2),
   Menu(WorkspaceRequests, <<CreateJob>>, 4, 1),
   [Menu(LogRequests, <<CreateJob>>, 3, 2) EXCEPT
      !.daemons = {current, upgraded}],
   [Menu(CheckRequests, <<CreateJob>>, 1, 1) EXCEPT
      !.daemons = {older}, !.migrated = {First}],
   [Menu({}, << >>, 0, 4) EXCEPT !.daemons = Daemons, !.migrated = {}]}
=============================================================================
