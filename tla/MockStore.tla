----------------------------- MODULE MockStore -----------------------------
(***************************************************************************)
(* The in-memory store of the tests: one map per table and, beside it, the *)
(* secondary indexes that its queries read instead of the table.  An index *)
(* that is a list is the set of what it lists.  Every call holds the one   *)
(* lock, so a call is one step.                                            *)
(***************************************************************************)
EXTENDS StoreTypes

(* MockInner. *)
EmptyMock ==
  [events        |-> [j \in Jobs |-> {}],
   max_sequence  |-> [j \in Jobs |-> 0],
   projections   |-> [j \in Jobs |-> Nil],
   sources       |-> [i \in Ids |-> Nil],
   source_by_fp  |-> [f \in Fingerprints |-> Nil],
   sources_by_job |-> [j \in Jobs |-> {}],
   active_source |-> [j \in Jobs |-> Nil],
   table         |-> [k \in Kinds |-> [i \in Ids |-> Nil]],
   by_job        |-> [k \in Kinds |-> [j \in Jobs |-> {}]],
   evidence_by_fp |-> [f \in Fingerprints |-> {}],
   operations_executing |-> {},
   gate_results  |-> [g \in Ids |-> << >>],
   workspaces    |-> [h \in Ids |-> Nil],
   workspaces_by_job |-> [j \in Jobs |-> {}]]

(* The maps of records by id, each with its list of ids by job. *)
Insert(m, kind, r) ==
  [m EXCEPT !.table[kind][r.id] = [job |-> r.job, val |-> r.val]]

AddOnce(list, known, id) == IF known THEN list ELSE list \cup {id}

MockPut(m, kind, r) ==
  Ok([Insert(m, kind, r) EXCEPT !.by_job[kind][r.job] =
        AddOnce(@, m.table[kind][r.id] # Nil, r.id)])

MockGet(m, kind, r) == Required(m.table[kind][r.id], m)
MockList(m, kind, r) == Value(m.by_job[kind][r.job], m)

-----------------------------------------------------------------------------
(* mutant: the first result that was stored for the fingerprint *)
find_gate_result_First(entries, fp) ==
  LET at == {n \in DOMAIN entries : entries[n].fp = fp}
  IN  IF at = {} THEN Nil
      ELSE entries[CHOOSE n \in at : \A m \in at : n <= m].val

(* Results are appended, so the last one stored for the fingerprint. *)
find_gate_result(entries, fp) ==
  LET at == {n \in DOMAIN entries : entries[n].fp = fp}
  IN  IF at = {} THEN Nil
      ELSE entries[CHOOSE n \in at : \A m \in at : n >= m].val

MockEventStore(m, r) ==
  LET Logged(first, last) ==
        {e \in m.events[r.job] : first <= e.seq /\ e.seq <= last}
  IN  CASE r.op = "append_event" ->
             IF r.seq # m.max_sequence[r.job] + 1
               THEN Error("SequenceOutOfRange", m)
               ELSE Ok([m EXCEPT
                      !.events[r.job] =
                         @ \cup {[seq |-> r.seq, event |-> r.event]},
                      !.max_sequence[r.job] = r.seq])
        [] r.op = "get_event" -> Fetch({e \in m.events[r.job] : e.seq = r.seq}, m)
        [] r.op = "list_events_for_job" -> Value(Logged(r.first, r.last), m)
        [] r.op = "next_sequence" -> Value({m.max_sequence[r.job] + 1}, m)

MockProjectionStore(m, r) ==
  LET stored == m.projections[r.job]
      log == [n \in 1..m.max_sequence[r.job] |->
                (CHOOSE e \in m.events[r.job] : e.seq = n).event]
  IN  CASE r.op = "get_projection" -> Required(stored, m)
        [] r.op = "put_projection" ->
             IF \/ stored # Nil /\ stored # r.expected
                \/ stored = Nil /\ r.expected # 0
               THEN Error("Conflict", m)
               ELSE Ok([m EXCEPT !.projections[r.job] = r.version])
        [] r.op = "rebuild_projection" ->
             IF log = << >> THEN Error("NotFound", m)
             ELSE IF Head(log) # "job_created" THEN Error("Corrupt", m)
             ELSE Value({log}, m)

(* A candidate of a job without a projection is refused, and so is a       *)
(* second candidate with a fingerprint that is taken.                      *)
put_source_candidate(m, r) ==
  IF m.projections[r.job] = Nil \/ m.source_by_fp[r.fp] \notin {Nil, r.id}
    THEN Error("Conflict", m)
    ELSE Ok([m EXCEPT
           !.sources[r.id] = [job |-> r.job, fp |-> r.fp],
           !.source_by_fp[r.fp] = r.id,
           !.sources_by_job[r.job] =
              AddOnce(@, m.sources[r.id] # Nil, r.id)])

(* release_candidates has no index: the table is filtered. *)
MockCandidateStore(m, r) ==
  CASE r.op = "put_source_candidate" -> put_source_candidate(m, r)
    [] r.op = "get_source_candidate" -> Required(m.sources[r.id], m)
    [] r.op = "put_release_candidate" -> Ok(Insert(m, "release", r))
    [] r.op = "get_release_candidate" -> MockGet(m, "release", r)
    [] r.op = "list_release_candidates_for_job" ->
         Value({i \in Ids : m.table["release"][i] # Nil
                              /\ m.table["release"][i].job = r.job}, m)
    [] r.op = "list_source_candidates_for_job" ->
         Value(m.sources_by_job[r.job], m)
    [] r.op = "active_source_candidate" -> Optional(m.active_source[r.job], m)
    [] r.op = "set_active_source_candidate" ->
         Ok([m EXCEPT !.active_source[r.job] = r.id])
    [] r.op = "find_source_by_fingerprint" ->
         Optional(m.source_by_fp[r.fp], m)

MockEvidenceStore(m, r) ==
  CASE r.op = "put_evidence" ->
         Ok([MockPut(m, "evidence", r).after EXCEPT !.evidence_by_fp[r.val] =
               AddOnce(@, m.table["evidence"][r.id] # Nil, r.id)])
    [] r.op = "get_evidence" -> MockGet(m, "evidence", r)
    [] r.op = "list_evidence_for_job" -> MockList(m, "evidence", r)
    [] r.op = "list_evidence_for_candidate" -> Value(m.evidence_by_fp[r.fp], m)

MockGateStore(m, r) ==
  CASE r.op = "put_gate_definition" -> MockPut(m, "gate", r)
    [] r.op = "get_gate_definition" -> MockGet(m, "gate", r)
    [] r.op = "put_gate_result" ->
         Ok([m EXCEPT !.gate_results[r.id] =
               Append(@, [fp |-> r.fp, val |-> r.val])])
    [] r.op = "get_gate_result" ->
         Required(find_gate_result(m.gate_results[r.id], r.fp), m)
    [] r.op = "list_gates_for_job" -> MockList(m, "gate", r)

MockObligationStore(m, r) ==
  CASE r.op = "put_obligation" -> MockPut(m, "obligation", r)
    [] r.op = "get_obligation" -> MockGet(m, "obligation", r)
    [] r.op = "update_obligation" ->
         IF m.table["obligation"][r.id] = Nil THEN Error("NotFound", m)
         ELSE Ok([m EXCEPT !.table["obligation"][r.id].val = r.val])
    [] r.op = "list_obligations_for_job" -> MockList(m, "obligation", r)

(* An update, not a put, keeps the list of the operations that execute. *)
update_operation(m, r) ==
  LET was == m.table["operation"][r.id]
      put == [m EXCEPT !.table["operation"][r.id].val = r.val]
  IN  IF was = Nil THEN Error("NotFound", m)
      ELSE IF was.val # "executing" /\ r.val = "executing"
        THEN Ok([put EXCEPT !.operations_executing = @ \cup {r.id}])
      ELSE IF was.val = "executing" /\ r.val # "executing"
        THEN Ok([put EXCEPT !.operations_executing = @ \ {r.id}])
      ELSE Ok(put)

MockOperationStore(m, r) ==
  CASE r.op = "put_operation" -> MockPut(m, "operation", r)
    [] r.op = "get_operation" -> MockGet(m, "operation", r)
    [] r.op = "update_operation" -> update_operation(m, r)
    [] r.op = "list_executing_operations" -> Value(m.operations_executing, m)
    [] r.op = "list_operations_for_job" -> MockList(m, "operation", r)

MockArtifactStore(m, r) ==
  CASE r.op = "put_artifact" -> MockPut(m, "artifact", r)
    [] r.op = "get_artifact" -> MockGet(m, "artifact", r)
    [] r.op = "artifact_exists" -> Value({m.table["artifact"][r.id] # Nil}, m)
    [] r.op = "list_artifacts_for_job" -> MockList(m, "artifact", r)

MockWorkspaceStore(m, r) ==
  LET stored == m.workspaces[r.id]
  IN  CASE r.op = "get_workspace_state" -> Required(stored, m)
        [] r.op = "put_workspace_state" ->
             IF \/ stored # Nil /\ stored.revision # r.expected
                \/ stored = Nil /\ r.expected # 0
               THEN Error("Conflict", m)
               ELSE Ok([m EXCEPT
                      !.workspaces[r.id] =
                         [job |-> r.job, revision |-> r.revision],
                      !.workspaces_by_job[r.job] =
                         AddOnce(@, stored # Nil, r.id)])
        [] r.op = "list_workspaces_for_job" ->
             Value(m.workspaces_by_job[r.job], m)

MockCheckStore(m, r) ==
  CASE r.op = "put_check" -> MockPut(m, "check", r)
    [] r.op = "get_check" -> MockGet(m, "check", r)
    [] r.op = "list_checks_for_job" -> MockList(m, "check", r)

MockOutcome(m, r) ==
  CASE r.trait = "EventStore" -> MockEventStore(m, r)
    [] r.trait = "ProjectionStore" -> MockProjectionStore(m, r)
    [] r.trait = "CandidateStore" -> MockCandidateStore(m, r)
    [] r.trait = "EvidenceStore" -> MockEvidenceStore(m, r)
    [] r.trait = "GateStore" -> MockGateStore(m, r)
    [] r.trait = "ObligationStore" -> MockObligationStore(m, r)
    [] r.trait = "OperationStore" -> MockOperationStore(m, r)
    [] r.trait = "ArtifactMetadataStore" -> MockArtifactStore(m, r)
    [] r.trait = "WorkspaceMetadataStore" -> MockWorkspaceStore(m, r)
    [] r.trait = "CheckStore" -> MockCheckStore(m, r)
=============================================================================
