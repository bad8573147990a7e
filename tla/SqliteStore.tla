---------------------------- MODULE SqliteStore ----------------------------
(***************************************************************************)
(* The store the daemon runs on: its start (configuration, the lock of the *)
(* state directory, the migrations), its end (signal or crash), and the    *)
(* statements its connections execute against one SQLite database in WAL   *)
(* mode.  Tables are sets of rows with the keys of the migrations.         *)
(*                                                                         *)
(* Most calls are one statement.  Three read, compare and then write in a  *)
(* transaction opened with BEGIN, which SQLite defers: the snapshot is     *)
(* taken by the SELECT, the write lock is asked for by the INSERT, and a   *)
(* snapshot that is no longer the latest cannot be upgraded.               *)
(*                                                                         *)
(* Beside it runs the in-memory store of the tests, which is given every   *)
(* call this one has carried out, at the moment it carried it out.         *)
(***************************************************************************)
EXTENDS MockStore

CONSTANTS
  Daemons,     \* processes that may be started on the state directory
  Files,       \* the migrations each was installed with: <<version, name>>
  KnownEvents, \* the event types each can read
  Menus        \* bound: what a behaviour starts from and may ask for

ASSUME NilAssumption == Nil \notin Daemons \cup Callers
ASSUME FilesAssumption ==
  \A d \in Daemons : \A f, g \in Files[d] : f[1] = g[1] \/ f[2] = g[2] => f = g
ASSUME MenusAssumption ==
  \A m \in Menus :
    /\ m.requests \subseteq Requests /\ m.before \in Seq(Requests)
    /\ m.daemons \subseteq Daemons
    /\ m.calls \in Nat /\ m.starts \in Nat

VARIABLES
  menu,        \* which of Menus this behaviour is bound by
  daemon,      \* where each process is, and the code it exited with
  lock,        \* who holds ironmaint.lock
  migrated,    \* schema_migrations
  created,     \* the migrations whose statements have been executed
  sql,         \* the tables
  conn,        \* the connection of each call
  writer,      \* who holds the write lock of the database
  mock,        \* the in-memory store
  onScript,    \* every call so far is one the runtime may make
  made, starts \* how many calls were made, and processes started

vars == <<menu, daemon, lock, migrated, created, sql, conn, writer, mock,
          onScript, made, starts>>

-----------------------------------------------------------------------------
(* The tables. *)

EmptyTables ==
  [events |-> {}, projections |-> {}, source_candidates |-> {},
   active_source_candidates |-> {}, owned |-> {}, gate_results |-> {},
   workspace_metadata |-> {}]

OfJob(table, j) == {x \in table : x.job = j}
WithId(table, i) == {x \in table : x.id = i}
Table(s, kind) == {x \in s.owned : x.kind = kind}

(* FOREIGN KEY (job_id) REFERENCES projections. *)
HasJob(s, j) == OfJob(s.projections, j) # {}

(* A statement that violates a constraint is an error of sqlx, and         *)
(* map_sqlx_err makes Backend of every one.                                *)
Constrained(holds, s, after) ==
  IF holds THEN Ok(after) ELSE Error("Backend", s)

(* INSERT ... ON CONFLICT (key) DO UPDATE. *)
Upsert(table, old, row) == (table \ old) \cup {row}

SqlPut(s, kind, r) ==
  Constrained(HasJob(s, r.job), s,
    [s EXCEPT !.owned = Upsert(@, WithId(Table(s, kind), r.id),
       [kind |-> kind, id |-> r.id, job |-> r.job, val |-> r.val])])

SqlGet(s, kind, r) ==
  Fetch({[job |-> x.job, val |-> x.val] : x \in WithId(Table(s, kind), r.id)}, s)

(* rows_affected of the UPDATE. *)
SqlUpdate(s, kind, r) ==
  LET old == WithId(Table(s, kind), r.id)
  IN  IF old = {} THEN Error("NotFound", s)
      ELSE Ok([s EXCEPT !.owned =
                 (@ \ old) \cup {[x EXCEPT !.val = r.val] : x \in old}])

SqlList(s, kind, r) == Value({x.id : x \in OfJob(Table(s, kind), r.job)}, s)
SqlWith(s, kind, val) ==
  Value({x.id : x \in {y \in Table(s, kind) : y.val = val}}, s)

-----------------------------------------------------------------------------
(* ops: the statements.  known: the event types this program can read. *)

MaxSequence(s, j) ==
  CHOOSE n \in {0} \cup {e.seq : e \in OfJob(s.events, j)} :
    \A e \in OfJob(s.events, j) : e.seq <= n

serialised(e) == [seq |-> e.seq, event |-> e.event]

(* A row whose event_type the program does not know cannot be read. *)
deserialised(rows, known, s) ==
  IF \A e \in rows : e.event \in known
    THEN Value({serialised(e) : e \in rows}, s)
    ELSE Error("Corrupt", s)

Inserted(s, r) ==
  [s EXCEPT !.events =
     @ \cup {[job |-> r.job, seq |-> r.seq, event |-> r.event]}]

ops_events(s, r, known) ==
  LET rows == OfJob(s.events, r.job)
  IN  CASE r.op = "append_event" ->
             Constrained(HasJob(s, r.job) /\ \A e \in rows : e.seq # r.seq, s,
                         Inserted(s, r))
        [] r.op = "get_event" ->
             LET at == {e \in rows : e.seq = r.seq}
             IN  IF at = {} THEN Error("NotFound", s)
                 ELSE deserialised(at, known, s)
        [] r.op = "list_events_for_job" ->
             deserialised({e \in rows : r.first <= e.seq /\ e.seq <= r.last},
                          known, s)
        [] r.op = "next_sequence" -> Value({MaxSequence(s, r.job) + 1}, s)

(* ORDER BY sequence. *)
Log(s, j) ==
  [n \in 1..MaxSequence(s, j) |->
     (CHOOSE e \in OfJob(s.events, j) : e.seq = n).event]

rebuild(s, j, known) ==
  LET rows == OfJob(s.events, j)
      log  == Log(s, j)
  IN  IF deserialised(rows, known, s).ans.err # "none"
        THEN Error("Corrupt", s)
      ELSE IF rows = {} THEN Error("NotFound", s)
      ELSE IF log[1] # "job_created" THEN Error("Corrupt", s)
      ELSE Value({log}, s)

ops_projections(s, r, known) ==
  CASE r.op = "get_projection" ->
         Fetch({x.version : x \in OfJob(s.projections, r.job)}, s)
    [] r.op = "put_projection" ->
         Ok([s EXCEPT !.projections = Upsert(@, OfJob(@, r.job),
               [job |-> r.job, version |-> r.version])])
    [] r.op = "rebuild_projection" -> rebuild(s, r.job, known)

(* The fingerprint is unique over the table, whatever the job. *)
put_source(s, r) ==
  Constrained(
    /\ HasJob(s, r.job)
    /\ \A x \in s.source_candidates : x.fp = r.fp => x.id = r.id, s,
    [s EXCEPT !.source_candidates = Upsert(@, WithId(@, r.id),
       [id |-> r.id, job |-> r.job, fp |-> r.fp])])

set_active_source(s, r) ==
  Constrained(HasJob(s, r.job) /\ WithId(s.source_candidates, r.id) # {}, s,
    [s EXCEPT !.active_source_candidates = Upsert(@, OfJob(@, r.job),
       [job |-> r.job, id |-> r.id])])

ops_candidates(s, r) ==
  CASE r.op = "put_source_candidate" -> put_source(s, r)
    [] r.op = "get_source_candidate" ->
         Fetch({[job |-> x.job, fp |-> x.fp] :
                  x \in WithId(s.source_candidates, r.id)}, s)
    [] r.op = "put_release_candidate" -> SqlPut(s, "release", r)
    [] r.op = "get_release_candidate" -> SqlGet(s, "release", r)
    [] r.op = "list_release_candidates_for_job" -> SqlList(s, "release", r)
    [] r.op = "list_source_candidates_for_job" ->
         Value({x.id : x \in OfJob(s.source_candidates, r.job)}, s)
    [] r.op = "active_source_candidate" ->
         Value({x.id : x \in OfJob(s.active_source_candidates, r.job)}, s)
    [] r.op = "set_active_source_candidate" -> set_active_source(s, r)
    [] r.op = "find_source_by_fingerprint" ->
         Value({x.id : x \in {y \in s.source_candidates : y.fp = r.fp}}, s)

ops_evidence(s, r) ==
  CASE r.op = "put_evidence" -> SqlPut(s, "evidence", r)
    [] r.op = "get_evidence" -> SqlGet(s, "evidence", r)
    [] r.op = "list_evidence_for_job" -> SqlList(s, "evidence", r)
    [] r.op = "list_evidence_for_candidate" -> SqlWith(s, "evidence", r.fp)

(* One result of a gate on a candidate, replaced by the next. *)
ResultsOf(s, g, f) == {x \in s.gate_results : x.gate = g /\ x.fp = f}

ops_gates(s, r) ==
  LET result == ResultsOf(s, r.id, r.fp)
  IN  CASE r.op = "put_gate_definition" -> SqlPut(s, "gate", r)
        [] r.op = "get_gate_definition" -> SqlGet(s, "gate", r)
        [] r.op = "put_gate_result" ->
             Constrained(WithId(Table(s, "gate"), r.id) # {}, s,
               [s EXCEPT !.gate_results = Upsert(@, result,
                  [gate |-> r.id, fp |-> r.fp, val |-> r.val])])
        [] r.op = "get_gate_result" -> Fetch({x.val : x \in result}, s)
        [] r.op = "list_gates_for_job" -> SqlList(s, "gate", r)

ops_obligations(s, r) ==
  CASE r.op = "put_obligation" -> SqlPut(s, "obligation", r)
    [] r.op = "get_obligation" -> SqlGet(s, "obligation", r)
    [] r.op = "update_obligation" -> SqlUpdate(s, "obligation", r)
    [] r.op = "list_obligations_for_job" -> SqlList(s, "obligation", r)

(* Those that execute are found by reading every payload. *)
ops_operations(s, r) ==
  CASE r.op = "put_operation" -> SqlPut(s, "operation", r)
    [] r.op = "get_operation" -> SqlGet(s, "operation", r)
    [] r.op = "update_operation" -> SqlUpdate(s, "operation", r)
    [] r.op = "list_executing_operations" ->
         SqlWith(s, "operation", "executing")
    [] r.op = "list_operations_for_job" -> SqlList(s, "operation", r)

ops_artifacts(s, r) ==
  CASE r.op = "put_artifact" -> SqlPut(s, "artifact", r)
    [] r.op = "get_artifact" -> SqlGet(s, "artifact", r)
    [] r.op = "artifact_exists" ->
         Value({WithId(Table(s, "artifact"), r.id) # {}}, s)
    [] r.op = "list_artifacts_for_job" -> SqlList(s, "artifact", r)

ops_workspaces(s, r) ==
  CASE r.op = "get_workspace_state" ->
         Fetch({[job |-> x.job, revision |-> x.revision] :
                  x \in WithId(s.workspace_metadata, r.id)}, s)
    [] r.op = "put_workspace_state" ->
         Constrained(HasJob(s, r.job), s,
           [s EXCEPT !.workspace_metadata = Upsert(@, WithId(@, r.id),
              [id |-> r.id, job |-> r.job, revision |-> r.revision])])
    [] r.op = "list_workspaces_for_job" ->
         Value({x.id : x \in OfJob(s.workspace_metadata, r.job)}, s)

ops_checks(s, r) ==
  CASE r.op = "put_check" -> SqlPut(s, "check", r)
    [] r.op = "get_check" -> SqlGet(s, "check", r)
    [] r.op = "list_checks_for_job" -> SqlList(s, "check", r)

(* The impls of the sub-traits. *)
JobTables == {"EventStore", "ProjectionStore", "CandidateStore"}
OfJobTables(s, r, known) ==
  CASE r.trait = "EventStore" -> ops_events(s, r, known)
    [] r.trait = "ProjectionStore" -> ops_projections(s, r, known)
    [] r.trait = "CandidateStore" -> ops_candidates(s, r)

VerdictTables == {"EvidenceStore", "GateStore", "ObligationStore"}
OfVerdictTables(s, r) ==
  CASE r.trait = "EvidenceStore" -> ops_evidence(s, r)
    [] r.trait = "GateStore" -> ops_gates(s, r)
    [] r.trait = "ObligationStore" -> ops_obligations(s, r)

OfToolTables(s, r) ==
  CASE r.trait = "OperationStore" -> ops_operations(s, r)
    [] r.trait = "ArtifactMetadataStore" -> ops_artifacts(s, r)
    [] r.trait = "WorkspaceMetadataStore" -> ops_workspaces(s, r)
    [] r.trait = "CheckStore" -> ops_checks(s, r)

Sql(s, r, known) ==
  IF r.trait \in JobTables THEN OfJobTables(s, r, known)
  ELSE IF r.trait \in VerdictTables THEN OfVerdictTables(s, r)
  ELSE OfToolTables(s, r)

Versions(files) == {f[1] : f \in files}

(* The statement names a table that one of these migrations creates. *)
HasTable(r) ==
  (IF r.trait = "CheckStore" THEN 2 ELSE 1) \in Versions(created)

(* What the compare of a transaction finds before the write. *)
append_refuses(s, r) == r.seq # MaxSequence(s, r.job) + 1

put_projection_refuses(s, r) ==
  LET rows == OfJob(s.projections, r.job)
  IN  \/ rows = {} /\ r.expected # 0
      \/ \E x \in rows : x.version # r.expected

put_workspace_refuses(s, r) ==
  LET rows == WithId(s.workspace_metadata, r.id)
  IN  \/ rows = {} /\ r.expected # 0
      \/ \E x \in rows : x.revision # r.expected

Refuses(s, r) ==
  \/ r.op = "append_event" /\ append_refuses(s, r)
  \/ r.op = "put_projection" /\ put_projection_refuses(s, r)
  \/ r.op = "put_workspace_state" /\ put_workspace_refuses(s, r)

(* The calls the runtime makes: rows of a job that is there, for           *)
(* candidates and gates that are there, whose identity does not change,    *)
(* and operations that are proposed before they are executed.              *)
InScript(s, r) ==
  /\ r.op \in ByJob \ Reads =>
       HasJob(s, r.job) \/ r.op \in {"put_projection", "put_source_candidate"}
  /\ r.op = "put_source_candidate" =>
       \A x \in WithId(s.source_candidates, r.id) :
         x.fp = r.fp /\ x.job = r.job
  /\ r.op = "set_active_source_candidate" =>
       WithId(s.source_candidates, r.id) # {}
  /\ r.op = "put_gate_result" => WithId(Table(s, "gate"), r.id) # {}
  /\ r.op \in RowPuts =>
       \A x \in WithId(Table(s, RowKind[r.op]), r.id) : x.job = r.job
  /\ r.op = "put_evidence" =>
       \A x \in WithId(Table(s, "evidence"), r.id) : x.val = r.val
  /\ r.op = "put_operation" =>
       /\ r.val # "executing"
       /\ \A x \in WithId(Table(s, "operation"), r.id) : x.val # "executing"
  /\ r.op = "put_workspace_state" =>
       \A x \in WithId(s.workspace_metadata, r.id) : x.job = r.job

(* A call of an earlier process, on what the ones before it have left. *)
After(x, r) ==
  [sql  |-> IF Refuses(x.sql, r) THEN x.sql ELSE Sql(x.sql, r, {}).after,
   mock |-> MockOutcome(x.mock, r).after,
   on   |-> x.on /\ InScript(x.sql, r)]

Nothing == [sql |-> EmptyTables, mock |-> EmptyMock, on |-> TRUE]

(* What the calls of earlier processes have left. *)
Left(m) ==
  LET left[n \in 0..Len(m.before)] ==
        IF n = 0 THEN Nothing ELSE After(left[n - 1], m.before[n])
  IN  left[Len(m.before)]

-----------------------------------------------------------------------------
NoConnection ==
  [req |-> Nil, pc |-> "idle", stale |-> FALSE, ans |-> Nil, said |-> Nil]

Down == [pc |-> "down", code |-> 0]

Init ==
  /\ menu \in Menus
  /\ daemon = [d \in Daemons |-> Down]
  /\ lock = Nil
  /\ migrated = menu.migrated /\ created = menu.migrated
  /\ sql = Left(menu).sql
  /\ conn = [c \in Callers |-> NoConnection]
  /\ writer = Nil
  /\ mock = Left(menu).mock
  /\ onScript = Left(menu).on
  /\ made = 0 /\ starts = 0

Serving == {d \in Daemons : daemon[d].pc = "serving"}

-----------------------------------------------------------------------------
(* The process. *)

Go(d, pc) == daemon' = [daemon EXCEPT ![d] = [pc |-> pc, code |-> 0]]

(* The process ends: its files are closed, and its connections with them. *)
Exit(d, code) ==
  /\ daemon' = [daemon EXCEPT ![d] = [pc |-> "down", code |-> code]]
  /\ lock' = IF lock = d THEN Nil ELSE lock

storeVars == <<sql, conn, writer, mock, onScript, made>>

(* RuntimeConfig::from_env_and_args: --help and --version end it, so does *)
(* a flag it does not know, no token file, no migrations directory.       *)
Start(d) ==
  /\ d \in menu.daemons
  /\ daemon[d].pc = "down"
  /\ starts < menu.starts
  /\ starts' = starts + 1
  /\ \/ Go(d, "directories") /\ UNCHANGED lock
     \/ Exit(d, 0)
     \/ Exit(d, 1)
  /\ UNCHANGED <<menu, migrated, created, storeVars>>

(* A path that is a file is reported as StartupError::Serve. *)
ensure_directory(d) ==
  /\ daemon[d].pc = "directories"
  /\ \/ Go(d, "unlocked") /\ UNCHANGED lock
     \/ Exit(d, 2)
  /\ UNCHANGED <<menu, migrated, created, starts, storeVars>>

(* mutant: the lock is taken whoever holds it *)
acquire_Shared(d) ==
  /\ daemon[d].pc = "unlocked"
  /\ Go(d, "history")
  /\ lock' = d
  /\ UNCHANGED <<menu, migrated, created, starts, storeVars>>

(* DaemonLock::acquire: contention is an error at once, not a wait. *)
acquire(d) ==
  /\ daemon[d].pc = "unlocked"
  /\ IF lock = Nil THEN Go(d, "history") /\ lock' = d ELSE Exit(d, 1)
  /\ UNCHANGED <<menu, migrated, created, starts, storeVars>>

(* A recorded version above every file, or a recorded file that is gone. *)
Drifted(d) ==
  \/ \E r \in migrated : \A v \in Versions(Files[d]) : r[1] > v
  \/ \E r \in migrated : r \notin Files[d]

(* apply_migrations, up to the loop.  An empty directory is not compared. *)
check_history(d) ==
  /\ daemon[d].pc = "history"
  /\ \/ Files[d] = {} /\ Go(d, "opened") /\ UNCHANGED lock
     \/ Files[d] # {} /\ Drifted(d) /\ Exit(d, 1)
     \/ Files[d] # {} /\ ~Drifted(d) /\ Go(d, "migrating") /\ UNCHANGED lock
  /\ UNCHANGED <<menu, migrated, created, starts, storeVars>>

(* The first file that is not recorded; each has a transaction of its own *)
(* with the row that records it.                                          *)
Missing(d) == {f \in Files[d] : f[2] \notin {r[2] : r \in migrated}}

apply_migration(d) ==
  /\ daemon[d].pc = "migrating"
  /\ \E f \in Missing(d) :
       /\ \A g \in Missing(d) : f[1] <= g[1]
       /\ created' = created \cup {f}
       /\ migrated' = migrated \cup {f}
  /\ UNCHANGED <<menu, daemon, lock, starts, storeVars>>

migrations_applied(d) ==
  /\ daemon[d].pc = "migrating"
  /\ Missing(d) = {}
  /\ Go(d, "opened")
  /\ UNCHANGED <<menu, lock, migrated, created, starts, storeVars>>

(* The token is read, the tools are registered, the socket is bound.  Two *)
(* tools under one key and a port that is taken are StartupError::Serve.  *)
finish_startup(d) ==
  /\ daemon[d].pc = "opened"
  /\ \/ Go(d, "serving") /\ UNCHANGED lock
     \/ \E code \in {1, 2} : Exit(d, code)
  /\ UNCHANGED <<menu, migrated, created, starts, storeVars>>

(* The first signal: what is in flight is finished, nothing is accepted. *)
Drain(d) ==
  /\ daemon[d].pc = "serving"
  /\ Go(d, "draining")
  /\ UNCHANGED <<menu, lock, migrated, created, starts, storeVars>>

Drained(d) ==
  /\ daemon[d].pc = "draining"
  /\ \A c \in Callers : conn[c] = NoConnection
  /\ Exit(d, 0)
  /\ UNCHANGED <<menu, migrated, created, starts, storeVars>>

(* SIGKILL, or a signal before the handlers are there: transactions that  *)
(* are open are rolled back by whoever opens the database next.           *)
Crash(d) ==
  /\ daemon[d].pc # "down"
  /\ Exit(d, 137)
  /\ IF daemon[d].pc \in {"serving", "draining"}
       THEN /\ conn' = [c \in Callers |-> NoConnection]
            /\ writer' = Nil
       ELSE UNCHANGED <<conn, writer>>
  /\ UNCHANGED <<menu, migrated, created, sql, mock, onScript, made, starts>>

-----------------------------------------------------------------------------
(* The connections. *)

processVars == <<menu, daemon, lock, migrated, created, starts>>

Active == {d \in Daemons : daemon[d].pc \in {"serving", "draining"}}
Known == UNION {KnownEvents[d] : d \in Active}

Answer(c, ans, said) ==
  [conn EXCEPT ![c] =
     [@ EXCEPT !.pc = "answered", !.stale = FALSE, !.ans = ans, !.said = said]]

(* The in-memory store is given the call. *)
Mirror(r) ==
  /\ mock' = MockOutcome(mock, r).after
  /\ onScript' = (onScript /\ InScript(sql, r))

(* What is committed makes the snapshots older than it stale. *)
Committed(cs) ==
  [b \in Callers |->
     IF cs[b].pc = "begun" THEN [cs[b] EXCEPT !.stale = TRUE] ELSE cs[b]]

(* The call is answered and has had no effect. *)
Settle(c, ans) ==
  /\ conn' = Answer(c, ans, MockOutcome(mock, conn[c].req).ans)
  /\ Mirror(conn[c].req)
  /\ UNCHANGED sql

(* The call has its effect and is answered. *)
Apply(c, o) ==
  /\ sql' = o.after
  /\ conn' = Committed(Answer(c, o.ans, MockOutcome(mock, conn[c].req).ans))
  /\ Mirror(conn[c].req)

(* The backend fails before anything is done. *)
Break(c, kind) ==
  /\ conn' = Answer(c, Answered(kind, {}), Nil)
  /\ UNCHANGED <<sql, mock, onScript>>

Call(c) ==
  /\ Serving # {}
  /\ conn[c] = NoConnection
  /\ made < menu.calls
  /\ made' = made + 1
  /\ \E r \in menu.requests :
       conn' = [conn EXCEPT ![c].req = r, ![c].pc = "called"]
  /\ UNCHANGED <<processVars, sql, writer, mock, onScript>>

Select(c) ==
  LET r == conn[c].req  o == Sql(sql, r, Known)
  IN  /\ conn[c].pc = "called"
      /\ r.op \in Reads
      /\ IF ~HasTable(r) THEN Break(c, "Backend")
         ELSE IF o.ans.err = "Corrupt" THEN Break(c, "Corrupt")
         ELSE Settle(c, o.ans)
      /\ UNCHANGED <<processVars, writer, made>>

(* The calls that read and compare before they write. *)
Transactions == {"append_event", "put_projection", "put_workspace_state"}

(* A statement on its own is a transaction: it waits for the write lock,  *)
(* executes and commits.                                                  *)
Statement(c) ==
  LET r == conn[c].req  o == Sql(sql, r, Known)
  IN  /\ conn[c].pc = "called"
      /\ r.op \notin Reads \cup Transactions
      /\ writer = Nil
      /\ IF ~HasTable(r) THEN Break(c, "Backend")
         ELSE IF o.ans.err # "none" THEN Settle(c, o.ans)
         ELSE Apply(c, o)
      /\ UNCHANGED <<processVars, writer, made>>

(* BEGIN, SELECT, compare. *)
Begin(c) ==
  LET r == conn[c].req
  IN  /\ conn[c].pc = "called"
      /\ r.op \in Transactions
      /\ \/ /\ r.op = "append_event" /\ append_refuses(sql, r)
            /\ Settle(c, Answered("SequenceOutOfRange", {}))
         \/ /\ r.op # "append_event" /\ Refuses(sql, r)
            /\ Settle(c, Answered("Conflict", {}))
         \/ /\ ~Refuses(sql, r)
            /\ conn' = [conn EXCEPT ![c].pc = "begun"]
            /\ UNCHANGED <<sql, mock, onScript>>
      /\ UNCHANGED <<processVars, writer, made>>

(* mutant: the write does not mind that the snapshot is old *)
MayWrite_AnySnapshot(c) == writer = Nil

(* A deferred transaction becomes a writer only on the latest snapshot. *)
MayWrite(c) == writer = Nil /\ ~conn[c].stale

(* INSERT: constraints are checked, the row is not visible to others yet. *)
InsertRow(c) ==
  LET o == Sql(sql, conn[c].req, Known)
  IN  /\ conn[c].pc = "begun"
      /\ MayWrite(c)
      /\ IF o.ans.err = "none"
           THEN /\ conn' = [conn EXCEPT ![c].pc = "written"]
                /\ writer' = c
                /\ UNCHANGED <<sql, mock, onScript>>
           ELSE Settle(c, o.ans) /\ UNCHANGED writer
      /\ UNCHANGED <<processVars, made>>

(* SQLITE_BUSY_SNAPSHOT at once, or SQLITE_BUSY after busy_timeout_ms. *)
Busy(c) ==
  /\ \/ conn[c].pc = "begun" /\ (conn[c].stale \/ writer # Nil)
     \/ /\ conn[c].pc = "called" /\ writer # Nil
        /\ conn[c].req.op \notin Reads \cup Transactions
  /\ Break(c, "Backend")
  /\ UNCHANGED <<processVars, writer, made>>

(* mutant: the transaction is not closed *)
Commit_KeepsLock(c) ==
  /\ conn[c].pc = "written"
  /\ Apply(c, Sql(sql, conn[c].req, Known))
  /\ UNCHANGED <<processVars, writer, made>>

Commit(c) ==
  /\ conn[c].pc = "written"
  /\ Apply(c, Sql(sql, conn[c].req, Known))
  /\ writer' = Nil
  /\ UNCHANGED <<processVars, made>>

Return(c) ==
  /\ conn[c].pc = "answered"
  /\ conn' = [conn EXCEPT ![c] = NoConnection]
  /\ UNCHANGED <<processVars, sql, writer, mock, onScript, made>>

Next ==
  \/ \E d \in Daemons :
       \/ Start(d) \/ ensure_directory(d) \/ acquire(d) \/ check_history(d)
       \/ apply_migration(d) \/ migrations_applied(d) \/ finish_startup(d)
       \/ Drain(d) \/ Drained(d) \/ Crash(d)
  \/ \E c \in Callers :
       \/ Call(c) \/ Select(c) \/ Statement(c) \/ Begin(c) \/ InsertRow(c)
       \/ Busy(c) \/ Commit(c) \/ Return(c)

Spec == Init /\ [][Next]_vars

-----------------------------------------------------------------------------
ProcessPcs == {"down", "directories", "unlocked", "history", "migrating",
               "opened", "serving", "draining"}

WriteLockIsHeld ==
  /\ writer \in Callers \cup {Nil}
  /\ \A c \in Callers : conn[c].pc = "written" <=> writer = c

(* The columns of the tables. *)
Tables ==
  [events : SUBSET [job : Jobs, seq : Nat, event : STRING],
   projections : SUBSET [job : Jobs, version : Nat],
   source_candidates : SUBSET [id : Ids, job : Jobs, fp : Fingerprints],
   active_source_candidates : SUBSET [job : Jobs, id : Ids],
   owned : SUBSET [kind : Kinds, id : Ids, job : Jobs, val : STRING],
   gate_results : SUBSET [gate : Ids, fp : Fingerprints, val : STRING],
   workspace_metadata : SUBSET [id : Ids, job : Jobs, revision : Nat]]

(* The events of a job are numbered from 1, each number once. *)
Numbered(s) ==
  \A j \in Jobs :
    /\ MaxSequence(s, j) \in Nat
    /\ {e.seq : e \in OfJob(s.events, j)} = 1..MaxSequence(s, j)
    /\ \A e, f \in OfJob(s.events, j) : e.seq = f.seq => e = f

(* Every table has its columns and every log its numbers, every            *)
(* transaction is of a call, and the write lock is held by the one that    *)
(* has written.                                                            *)
TypeOK ==
  /\ menu \in Menus
  /\ \A d \in Daemons : daemon[d].pc \in ProcessPcs
  /\ lock \in Daemons \cup {Nil}
  /\ sql \in Tables /\ Numbered(sql)
  /\ \A c \in Callers :
       /\ conn[c].req \in Requests \cup {Nil}
       /\ conn[c].pc \in {"idle", "called", "begun", "written", "answered"}
  /\ WriteLockIsHeld

(* Two daemons on one state directory never both serve, and a daemon that  *)
(* serves does so on the schema it was installed with: what is recorded is *)
(* what was executed, and is what its own files say.  The lock, the check  *)
(* of the history and the transaction of each migration are what this     *)
(* rests on, through crashes and up- and downgrades.                       *)
ServerOwnsSchema ==
  /\ migrated = created
  /\ \A d \in Active :
       /\ Active = {d} /\ lock = d
       /\ Files[d] # {} => migrated = Files[d]

(* As long as the calls are ones the runtime may make, the in-memory store *)
(* answers what SQLite answers: the same value, and an error for an error; *)
(* the kind may differ only where SQLite reports a constraint.             *)
BackendsAgree ==
  onScript =>
    \A c \in Callers :
      conn[c].said # Nil =>
        LET a == conn[c].ans  b == conn[c].said
        IN  IF a.err = "Backend" THEN b.err # "none" ELSE a = b

(* The tables as the traits see them. *)
AsStore(s) ==
  [events     |-> [j \in Jobs |-> Log(s, j)],
   versions   |-> [j \in Jobs |-> {x.version : x \in OfJob(s.projections, j)}],
   sources    |-> [i \in Ids |->
                     {[job |-> x.job, fp |-> x.fp] :
                        x \in WithId(s.source_candidates, i)}],
   active     |-> [j \in Jobs |->
                     {x.id : x \in OfJob(s.active_source_candidates, j)}],
   rows       |-> [k \in Kinds |-> [i \in Ids |->
                     {[job |-> x.job, val |-> x.val] :
                        x \in WithId(Table(s, k), i)}]],
   results    |-> [g \in Ids |-> [f \in Fingerprints |->
                     {x.val : x \in ResultsOf(s, g, f)}]],
   workspaces |-> [h \in Ids |->
                     {[job |-> x.job, revision |-> x.revision] :
                        x \in WithId(s.workspace_metadata, h)}]]

(* A call has been made until it is answered, whatever its transaction. *)
AsCall(cn) ==
  [pc  |-> IF cn.pc \in {"begun", "written"} THEN "called" ELSE cn.pc,
   req |-> cn.req, ans |-> cn.ans]

AsCalls == [c \in Callers |-> AsCall(conn[c])]

(* The daemon's store keeps the promises of the traits: each call that is  *)
(* answered Ok took effect at one instant, each that is refused at none,   *)
(* with the error the trait names, through crashes and restarts.           *)
Contract == INSTANCE Store WITH db <- AsStore(sql), calls <- AsCalls

ImplementsStore == Contract!Spec
=============================================================================
