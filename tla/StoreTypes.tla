---------------------------- MODULE StoreTypes -----------------------------
(***************************************************************************)
(* What the store traits, the SQLite backend and the in-memory backend     *)
(* have in common: records, requests and answers.                          *)
(*                                                                         *)
(* A request is a record: its field trait is the sub-trait of              *)
(* IronMaintStore, its field op the method, the others are arguments.      *)
(***************************************************************************)
EXTENDS Integers, Sequences, FiniteSets

CONSTANTS
  Callers,       \* calls that may be under way at once
  Jobs,          \* JobId
  Ids,           \* ids of records, in the order they are minted
  Fingerprints,  \* CandidateFingerprint
  Requests,      \* what may be asked of the store
  Nil            \* no row; no call; no answer yet

ASSUME IdsAssumption == Ids \subseteq Nat
ASSUME NoRowAssumption ==
  /\ Nil \notin Nat \cup STRING
  /\ Nil \notin [job : Jobs, val : STRING]
  /\ Nil \notin [job : Jobs, fp : Fingerprints]
  /\ Nil \notin [job : Jobs, revision : Nat]

(* The tables whose rows are put whole, by id, for a job. *)
Kinds == {"release", "evidence", "gate", "obligation", "operation",
          "artifact", "check"}

Reads == {"get_event", "list_events_for_job", "next_sequence",
          "get_projection", "rebuild_projection", "get_source_candidate",
          "get_release_candidate", "list_release_candidates_for_job",
          "list_source_candidates_for_job", "active_source_candidate",
          "find_source_by_fingerprint", "get_evidence",
          "list_evidence_for_job", "list_evidence_for_candidate",
          "get_gate_definition", "get_gate_result", "list_gates_for_job",
          "get_obligation", "list_obligations_for_job", "get_operation",
          "list_executing_operations", "list_operations_for_job",
          "get_artifact", "artifact_exists", "list_artifacts_for_job",
          "get_workspace_state", "list_workspaces_for_job", "get_check",
          "list_checks_for_job"}

(* The methods of the sub-traits, and what each is given. *)
Methods ==
  [EventStore |->
     {"append_event", "get_event", "list_events_for_job", "next_sequence"},
   ProjectionStore |->
     {"get_projection", "put_projection", "rebuild_projection"},
   CandidateStore |->
     {"put_source_candidate", "get_source_candidate",
      "put_release_candidate", "get_release_candidate",
      "list_release_candidates_for_job", "list_source_candidates_for_job",
      "active_source_candidate", "set_active_source_candidate",
      "find_source_by_fingerprint"},
   EvidenceStore |->
     {"put_evidence", "get_evidence", "list_evidence_for_job",
      "list_evidence_for_candidate"},
   GateStore |->
     {"put_gate_definition", "get_gate_definition", "put_gate_result",
      "get_gate_result", "list_gates_for_job"},
   ObligationStore |->
     {"put_obligation", "get_obligation", "update_obligation",
      "list_obligations_for_job"},
   OperationStore |->
     {"put_operation", "get_operation", "update_operation",
      "list_executing_operations", "list_operations_for_job"},
   ArtifactMetadataStore |->
     {"put_artifact", "get_artifact", "artifact_exists",
      "list_artifacts_for_job"},
   WorkspaceMetadataStore |->
     {"get_workspace_state", "put_workspace_state",
      "list_workspaces_for_job"},
   CheckStore |-> {"put_check", "get_check", "list_checks_for_job"}]

(* The table a row is put into. *)
RowKind ==
  [put_release_candidate |-> "release", put_evidence |-> "evidence",
   put_gate_definition |-> "gate", put_obligation |-> "obligation",
   put_operation |-> "operation", put_artifact |-> "artifact",
   put_check |-> "check"]

RowPuts == DOMAIN RowKind

Puts == RowPuts \cup {"put_source_candidate", "put_workspace_state"}

ByJob ==
  Puts \cup Methods.EventStore \cup Methods.ProjectionStore
  \cup {"active_source_candidate", "set_active_source_candidate",
        "list_source_candidates_for_job", "list_release_candidates_for_job",
        "list_evidence_for_job", "list_gates_for_job",
        "list_obligations_for_job", "list_operations_for_job",
        "list_artifacts_for_job", "list_workspaces_for_job",
        "list_checks_for_job"}

ById ==
  Puts \cup {"get_source_candidate", "set_active_source_candidate",
             "get_release_candidate", "get_evidence", "get_gate_definition",
             "put_gate_result", "get_gate_result", "get_obligation",
             "update_obligation", "get_operation", "update_operation",
             "get_artifact", "artifact_exists", "get_workspace_state",
             "get_check"}

ByFingerprint == {"put_source_candidate", "find_source_by_fingerprint",
                  "put_gate_result", "get_gate_result",
                  "list_evidence_for_candidate"}

ByValue == RowPuts \cup {"put_gate_result", "update_obligation",
                        "update_operation"}

ASSUME RequestsAssumption ==
  \A r \in Requests :
    /\ r.trait \in DOMAIN Methods /\ r.op \in Methods[r.trait]
    /\ r.op \in ByJob => r.job \in Jobs
    /\ r.op \in ById => r.id \in Ids
    /\ r.op \in ByFingerprint => r.fp \in Fingerprints
    /\ r.op \in ByValue => r.val \in STRING
    /\ r.op = "put_evidence" => r.val \in Fingerprints
    /\ r.op = "append_event" => r.event \in STRING
    /\ r.op = "put_projection" => r.version \in Nat
    /\ r.op = "put_workspace_state" => r.revision \in Nat

(* Answers: the StoreErrorKind or "none", and the set of what the value    *)
(* consists of, {} for nothing.  A list is compared as a set.              *)
Answered(err, value) == [err |-> err, value |-> value]
Done == Answered("none", {})

(* What a call comes to: its answer, and the store after it. *)
Ok(after) == [ans |-> Done, after |-> after]
Value(value, s) == [ans |-> Answered("none", value), after |-> s]
Error(kind, s) == [ans |-> Answered(kind, {}), after |-> s]

(* fetch_optional: no row is NotFound. *)
Fetch(rows, s) == IF rows = {} THEN Error("NotFound", s) ELSE Value(rows, s)

Optional(x, s) == Value(IF x = Nil THEN {} ELSE {x}, s)
Required(x, s) == Fetch(IF x = Nil THEN {} ELSE {x}, s)
=============================================================================
