------------------------------- MODULE Store -------------------------------
(***************************************************************************)
(* What the traits of ironmaint-store promise their callers, whatever the  *)
(* backend: a call that is answered Ok took effect at one instant between  *)
(* its start and its answer, a call that is refused had no effect, and the *)
(* error says which condition of the trait did not hold.  A backend may    *)
(* always answer Backend, with no effect.  A call whose caller dies may    *)
(* have taken effect or not.                                               *)
(*                                                                         *)
(* The records are what the traits can tell apart: an event by its label,  *)
(* a projection by its version, a workspace by its revision, a source      *)
(* candidate by its fingerprint, every other record by one value.  What    *)
(* there may be one of is a set of at most one element.                    *)
(***************************************************************************)
EXTENDS StoreTypes

VARIABLES
  db,            \* what the store holds
  calls          \* the call of each caller and its answer

-----------------------------------------------------------------------------
(* The sub-traits: what a call comes to on a store that holds d. *)

Events(d, j, first, last) ==
  {[seq |-> n, event |-> d.events[j][n]] :
     n \in {m \in DOMAIN d.events[j] : first <= m /\ m <= last}}

EventStore(d, r) ==
  CASE r.op = "append_event" ->
         IF r.seq = Len(d.events[r.job]) + 1
           THEN Ok([d EXCEPT !.events[r.job] = Append(@, r.event)])
           ELSE Error("SequenceOutOfRange", d)
    [] r.op = "get_event" ->
         IF r.seq \in DOMAIN d.events[r.job]
           THEN Value(Events(d, r.job, r.seq, r.seq), d)
           ELSE Error("NotFound", d)
    [] r.op = "list_events_for_job" ->
         Value(Events(d, r.job, r.first, r.last), d)
    [] r.op = "next_sequence" -> Value({Len(d.events[r.job]) + 1}, d)

(* Written only if what is stored is what the caller expects; a first     *)
(* write expects 0.                                                       *)
Expected(stored, n) == stored \subseteq {n} /\ (stored = {} => n = 0)

(* A rebuild goes through the log from its seed. *)
ProjectionStore(d, r) ==
  LET stored == d.versions[r.job]
      log    == d.events[r.job]
  IN  CASE r.op = "get_projection" -> Fetch(stored, d)
        [] r.op = "put_projection" ->
             IF Expected(stored, r.expected)
               THEN Ok([d EXCEPT !.versions[r.job] = {r.version}])
               ELSE Error("Conflict", d)
        [] r.op = "rebuild_projection" ->
             IF log = << >> THEN Error("NotFound", d)
             ELSE IF Head(log) # "job_created" THEN Error("Corrupt", d)
             ELSE Value({log}, d)

Put(d, kind, r) ==
  Ok([d EXCEPT !.rows[kind][r.id] = {[job |-> r.job, val |-> r.val]}])
Get(d, kind, r) == Fetch(d.rows[kind][r.id], d)
Update(d, kind, r) ==
  IF d.rows[kind][r.id] = {} THEN Error("NotFound", d)
  ELSE Ok([d EXCEPT !.rows[kind][r.id] = {[x EXCEPT !.val = r.val] : x \in @}])
List(d, kind, r) ==
  Value({i \in Ids : \E x \in d.rows[kind][i] : x.job = r.job}, d)
With(d, kind, val) ==
  Value({i \in Ids : \E x \in d.rows[kind][i] : x.val = val}, d)

OfFingerprint(d, f) == {i \in Ids : \E x \in d.sources[i] : x.fp = f}

(* Of one source tree there is one candidate, whichever job captured it. *)
CandidateStore(d, r) ==
  CASE r.op = "put_source_candidate" ->
         IF OfFingerprint(d, r.fp) \subseteq {r.id}
           THEN Ok([d EXCEPT !.sources[r.id] = {[job |-> r.job, fp |-> r.fp]}])
           ELSE Error("Conflict", d)
    [] r.op = "get_source_candidate" -> Fetch(d.sources[r.id], d)
    [] r.op = "put_release_candidate" -> Put(d, "release", r)
    [] r.op = "get_release_candidate" -> Get(d, "release", r)
    [] r.op = "list_release_candidates_for_job" -> List(d, "release", r)
    [] r.op = "list_source_candidates_for_job" ->
         Value({i \in Ids : \E x \in d.sources[i] : x.job = r.job}, d)
    [] r.op = "active_source_candidate" -> Value(d.active[r.job], d)
    [] r.op = "set_active_source_candidate" ->
         Ok([d EXCEPT !.active[r.job] = {r.id}])
    [] r.op = "find_source_by_fingerprint" ->
         Value(OfFingerprint(d, r.fp), d)

EvidenceStore(d, r) ==
  CASE r.op = "put_evidence" -> Put(d, "evidence", r)
    [] r.op = "get_evidence" -> Get(d, "evidence", r)
    [] r.op = "list_evidence_for_job" -> List(d, "evidence", r)
    [] r.op = "list_evidence_for_candidate" -> With(d, "evidence", r.fp)

(* The result of a gate on a candidate is the last one put. *)
GateStore(d, r) ==
  CASE r.op = "put_gate_definition" -> Put(d, "gate", r)
    [] r.op = "get_gate_definition" -> Get(d, "gate", r)
    [] r.op = "put_gate_result" ->
         Ok([d EXCEPT !.results[r.id][r.fp] = {r.val}])
    [] r.op = "get_gate_result" -> Fetch(d.results[r.id][r.fp], d)
    [] r.op = "list_gates_for_job" -> List(d, "gate", r)

ObligationStore(d, r) ==
  CASE r.op = "put_obligation" -> Put(d, "obligation", r)
    [] r.op = "get_obligation" -> Get(d, "obligation", r)
    [] r.op = "update_obligation" -> Update(d, "obligation", r)
    [] r.op = "list_obligations_for_job" -> List(d, "obligation", r)

OperationStore(d, r) ==
  CASE r.op = "put_operation" -> Put(d, "operation", r)
    [] r.op = "get_operation" -> Get(d, "operation", r)
    [] r.op = "update_operation" -> Update(d, "operation", r)
    [] r.op = "list_executing_operations" -> With(d, "operation", "executing")
    [] r.op = "list_operations_for_job" -> List(d, "operation", r)

ArtifactMetadataStore(d, r) ==
  CASE r.op = "put_artifact" -> Put(d, "artifact", r)
    [] r.op = "get_artifact" -> Get(d, "artifact", r)
    [] r.op = "artifact_exists" -> Value({d.rows["artifact"][r.id] # {}}, d)
    [] r.op = "list_artifacts_for_job" -> List(d, "artifact", r)

WorkspaceMetadataStore(d, r) ==
  CASE r.op = "get_workspace_state" -> Fetch(d.workspaces[r.id], d)
    [] r.op = "put_workspace_state" ->
         IF Expected({x.revision : x \in d.workspaces[r.id]}, r.expected)
           THEN Ok([d EXCEPT !.workspaces[r.id] =
                      {[job |-> r.job, revision |-> r.revision]}])
           ELSE Error("Conflict", d)
    [] r.op = "list_workspaces_for_job" ->
         Value({h \in Ids : \E x \in d.workspaces[h] : x.job = r.job}, d)

CheckStore(d, r) ==
  CASE r.op = "put_check" -> Put(d, "check", r)
    [] r.op = "get_check" -> Get(d, "check", r)
    [] r.op = "list_checks_for_job" -> List(d, "check", r)

Outcome(d, r) ==
  CASE r.trait = "EventStore" -> EventStore(d, r)
    [] r.trait = "ProjectionStore" -> ProjectionStore(d, r)
    [] r.trait = "CandidateStore" -> CandidateStore(d, r)
    [] r.trait = "EvidenceStore" -> EvidenceStore(d, r)
    [] r.trait = "GateStore" -> GateStore(d, r)
    [] r.trait = "ObligationStore" -> ObligationStore(d, r)
    [] r.trait = "OperationStore" -> OperationStore(d, r)
    [] r.trait = "ArtifactMetadataStore" -> ArtifactMetadataStore(d, r)
    [] r.trait = "WorkspaceMetadataStore" -> WorkspaceMetadataStore(d, r)
    [] r.trait = "CheckStore" -> CheckStore(d, r)

-----------------------------------------------------------------------------
Idle == [pc |-> "idle", req |-> Nil, ans |-> Nil]

(* The store holds whatever earlier processes have left in it. *)
Init == calls = [c \in Callers |-> Idle]

Call(c, r) ==
  /\ calls[c] = Idle
  /\ calls' = [calls EXCEPT ![c] = [pc |-> "called", req |-> r, ans |-> Nil]]
  /\ UNCHANGED db

UnderWay(c) == calls[c].pc = "called"

Answer(c, ans) ==
  calls' = [calls EXCEPT ![c].pc = "answered", ![c].ans = ans]

(* The instant of the call. *)
Effect(c) ==
  LET o == Outcome(db, calls[c].req)
  IN  UnderWay(c) /\ Answer(c, o.ans) /\ db' = o.after

(* Backend: the backend itself failed.  Corrupt: a row that is there      *)
(* cannot be read by this program.                                        *)
Fail(c) ==
  /\ UnderWay(c)
  /\ \/ Answer(c, Answered("Backend", {}))
     \/ calls[c].req.op \in Reads /\ Answer(c, Answered("Corrupt", {}))
  /\ UNCHANGED db

Return(c) ==
  /\ calls[c].pc = "answered"
  /\ calls' = [calls EXCEPT ![c] = Idle]
  /\ UNCHANGED db

(* The process of the callers stops. *)
Stop == calls' = [c \in Callers |-> Idle] /\ UNCHANGED db

Next ==
  \/ Stop
  \/ \E c \in Callers :
       (\E r \in Requests : Call(c, r)) \/ Effect(c) \/ Fail(c) \/ Return(c)

Spec == Init /\ [][Next]_<<db, calls>>
=============================================================================
