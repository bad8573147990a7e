------------------------ MODULE SqliteStore_proofs -------------------------
(***************************************************************************)
(* Theorems about SqliteStore, for any processes on one state directory,   *)
(* any migrations they were installed with, any calls and any bounds.      *)
(* The daemon's store implements the contract of the traits: what a        *)
(* statement does to the tables is what the contract says of them as the   *)
(* traits see them (SqlCarried), and a transaction that may still write    *)
(* has been compared with the tables as they are now (CallInv).  The       *)
(* in-memory store implements the contract on script (Mirrored), so that   *)
(* both stores answer alike as long as they hold the same (AgreeInv).      *)
(***************************************************************************)
EXTENDS SqliteStore, SequenceTheorems, WellFoundedInduction, TLAPS

(* The calls a process makes while it holds the lock. *)
Locked == {"history", "migrating", "opened", "serving", "draining"}
Opened == {"opened", "serving", "draining"}

OneSchema == migrated = created
LockHolder == \A d \in Daemons : daemon[d].pc \in Locked => lock = d
Migrating == \A d \in Daemons : daemon[d].pc = "migrating" => migrated \subseteq Files[d]
Migrated ==
  \A d \in Daemons :
    daemon[d].pc \in Opened /\ Files[d] # {} => migrated = Files[d]

ProcessInv ==
  /\ DOMAIN daemon = Daemons
  /\ OneSchema
  /\ LockHolder
  /\ Migrating
  /\ Migrated

-----------------------------------------------------------------------------
(* Processes.                                                              *)

(* What a step of one process, or none, does to where each of them is. *)
OnlyDaemon(d, pc) ==
  /\ DOMAIN daemon' = Daemons
  /\ daemon'[d].pc = pc
  /\ \A e \in Daemons : e # d => daemon'[e] = daemon[e]

LEMMA GoIs ==
  ASSUME ProcessInv, NEW d \in Daemons, NEW pc, Go(d, pc)
  PROVE  OnlyDaemon(d, pc)
BY DEF Go, OnlyDaemon, ProcessInv

LEMMA ExitIs ==
  ASSUME ProcessInv, NEW d \in Daemons, NEW code, Exit(d, code)
  PROVE  OnlyDaemon(d, "down") /\ lock' = IF lock = d THEN Nil ELSE lock
BY DEF Exit, OnlyDaemon, ProcessInv

(* A process that goes down leaves the others what they have. *)
LEMMA DownSafe ==
  ASSUME ProcessInv, NEW d \in Daemons, OnlyDaemon(d, "down"),
         lock' = IF lock = d THEN Nil ELSE lock,
         UNCHANGED <<migrated, created>>
  PROVE  ProcessInv'
BY DEF ProcessInv, OnlyDaemon, OneSchema, LockHolder, Migrating, Migrated,
       Locked, Opened

(* A process that goes on without touching the schema. *)
LEMMA GoSafe ==
  ASSUME ProcessInv, NEW d \in Daemons, NEW pc, OnlyDaemon(d, pc),
         UNCHANGED <<lock, migrated, created>>,
         pc \in Locked => lock = d,
         pc = "migrating" => migrated \subseteq Files[d],
         pc \in Opened /\ Files[d] # {} => migrated = Files[d]
  PROVE  ProcessInv'
BY DEF ProcessInv, OnlyDaemon, OneSchema, LockHolder, Migrating, Migrated,
       Locked, Opened

LEMMA ProcessStep ==
  ASSUME ProcessInv, NEW d \in Daemons,
         \/ Start(d) \/ ensure_directory(d) \/ acquire(d) \/ check_history(d)
         \/ apply_migration(d) \/ migrations_applied(d) \/ finish_startup(d)
         \/ Drain(d) \/ Drained(d) \/ Crash(d)
  PROVE  ProcessInv'
<1>1. ASSUME NEW code, Exit(d, code), UNCHANGED <<migrated, created>>
      PROVE  ProcessInv'
  BY <1>1, ExitIs, DownSafe
<1>2. CASE Start(d)
  <2>1. CASE Go(d, "directories") /\ UNCHANGED lock
    BY <1>2, <2>1, GoIs, GoSafe DEF Start, Locked, Opened
  <2> QED BY <1>1, <1>2, <2>1 DEF Start
<1>3. CASE ensure_directory(d)
  <2>1. CASE Go(d, "unlocked") /\ UNCHANGED lock
    BY <1>3, <2>1, GoIs, GoSafe DEF ensure_directory, Locked, Opened
  <2> QED BY <1>1, <1>3, <2>1 DEF ensure_directory
<1>4. CASE acquire(d)
  <2>1. CASE lock = Nil
    <3>1. OnlyDaemon(d, "history") /\ lock' = d /\ UNCHANGED <<migrated, created>>
      BY <1>4, <2>1, GoIs DEF acquire
    <3>2. \A e \in Daemons : daemon[e].pc \notin Locked
      BY <2>1, NilAssumption DEF ProcessInv, LockHolder
    <3> QED BY <3>1, <3>2 DEF ProcessInv, OnlyDaemon, OneSchema, LockHolder,
            Migrating, Migrated, Locked, Opened
  <2>2. CASE lock # Nil
    BY <1>1, <1>4, <2>2 DEF acquire
  <2> QED BY <2>1, <2>2
<1>5. CASE check_history(d)
  <2>1. lock = d
    BY <1>5 DEF check_history, ProcessInv, LockHolder, Locked
  <2>2. CASE Files[d] = {} /\ Go(d, "opened") /\ UNCHANGED lock
    BY <1>5, <2>1, <2>2, GoIs, GoSafe DEF check_history
  <2>3. CASE ~Drifted(d) /\ Go(d, "migrating") /\ UNCHANGED lock
    <3>1. migrated \subseteq Files[d]
      BY <2>3 DEF Drifted
    <3> QED BY <1>5, <2>1, <2>3, <3>1, GoIs, GoSafe DEF check_history, Opened
  <2> QED BY <1>1, <1>5, <2>2, <2>3 DEF check_history
<1>6. CASE apply_migration(d)
  <2>1. PICK f \in Files[d] : /\ created' = created \cup {f}
                              /\ migrated' = migrated \cup {f}
    BY <1>6 DEF apply_migration, Missing
  <2>2. UNCHANGED <<daemon, lock>> /\ daemon[d].pc = "migrating" /\ lock = d
    BY <1>6 DEF apply_migration, ProcessInv, LockHolder, Locked
  <2>3. \A e \in Daemons : daemon[e].pc \in Locked => e = d
    BY <2>2 DEF ProcessInv, LockHolder
  <2> QED BY <2>1, <2>2, <2>3 DEF ProcessInv, OneSchema, LockHolder, Migrating,
          Migrated, Locked, Opened
<1>7. CASE migrations_applied(d)
  <2>1. lock = d /\ migrated \subseteq Files[d] /\ Missing(d) = {}
    BY <1>7 DEF migrations_applied, ProcessInv, LockHolder, Migrating, Locked
  <2>2. Files[d] \subseteq migrated
    <3> SUFFICES ASSUME NEW f \in Files[d] PROVE f \in migrated
      OBVIOUS
    <3>1. PICK r \in migrated : r[2] = f[2]
      BY <2>1 DEF Missing
    <3> QED BY <2>1, <3>1, FilesAssumption
  <2>3. migrated = Files[d]
    BY <2>1, <2>2
  <2>4. Go(d, "opened") /\ UNCHANGED <<lock, migrated, created>>
    BY <1>7 DEF migrations_applied
  <2> QED BY <2>1, <2>3, <2>4, GoIs, GoSafe
<1>8. CASE finish_startup(d)
  <2>1. CASE Go(d, "serving") /\ UNCHANGED lock
    BY <1>8, <2>1, GoIs, GoSafe
       DEF finish_startup, ProcessInv, LockHolder, Migrated, Locked, Opened
  <2> QED BY <1>1, <1>8, <2>1 DEF finish_startup
<1>9. CASE Drain(d)
  BY <1>9, GoIs, GoSafe DEF Drain, ProcessInv, LockHolder, Migrated, Locked, Opened
<1>10. CASE Drained(d)
  BY <1>1, <1>10 DEF Drained
<1>11. CASE Crash(d)
  BY <1>1, <1>11 DEF Crash
<1> QED BY <1>2, <1>3, <1>4, <1>5, <1>6, <1>7, <1>8, <1>9, <1>10, <1>11

LEMMA ProcessInit == Init => ProcessInv
BY DEF Init, Down, ProcessInv, OneSchema, LockHolder, Migrating, Migrated,
       Locked, Opened

LEMMA ProcessNext == ProcessInv /\ [Next]_vars => ProcessInv'
<1> SUFFICES ASSUME ProcessInv, [Next]_vars PROVE ProcessInv'
  OBVIOUS
<1>1. ASSUME NEW c \in Callers,
             \/ Call(c) \/ Select(c) \/ Statement(c) \/ Begin(c) \/ InsertRow(c)
             \/ Busy(c) \/ Commit(c) \/ Return(c)
      PROVE  UNCHANGED <<daemon, lock, migrated, created>>
  BY <1>1 DEF Call, Select, Statement, Begin, InsertRow, Busy, Commit, Return,
              processVars
<1>2. CASE UNCHANGED <<daemon, lock, migrated, created>>
  BY <1>2 DEF ProcessInv, OneSchema, LockHolder, Migrating, Migrated
<1> QED BY <1>1, <1>2, ProcessStep DEF Next, vars

(* Of any number of processes at most one serves, and it serves on the     *)
(* schema its own migrations make.                                         *)
THEOREM ServesSound == Spec => []ServerOwnsSchema
<1>1. ProcessInv => ServerOwnsSchema
  <2> SUFFICES ASSUME ProcessInv, NEW d \in Active
               PROVE  Active = {d} /\ lock = d /\ (Files[d] # {} => migrated = Files[d])
    BY DEF ServerOwnsSchema, ProcessInv, OneSchema
  <2>1. \A e \in Active : lock = e
    BY DEF ProcessInv, LockHolder, Locked, Active
  <2>2. Files[d] # {} => migrated = Files[d]
    BY DEF ProcessInv, Migrated, Opened, Active
  <2> QED BY <2>1, <2>2
<1> QED BY <1>1, ProcessInit, ProcessNext, PTL DEF Spec

-----------------------------------------------------------------------------
(* Connections.                                                            *)

Fields == {"req", "pc", "stale", "ans", "said"}

ConnInv ==
  /\ DOMAIN conn = Callers
  /\ \A c \in Callers : DOMAIN conn[c] = Fields
  /\ WriteLockIsHeld

(* What a step of one call does to where each of them is. *)
OnlyCall(c, pc) ==
  /\ DOMAIN conn' = Callers
  /\ \A b \in Callers : DOMAIN conn'[b] = Fields
  /\ conn'[c].pc = pc
  /\ \A b \in Callers : b # c => conn'[b].pc = conn[b].pc

LEMMA AnswerIs ==
  ASSUME ConnInv, NEW c \in Callers, NEW ans, NEW said, conn' = Answer(c, ans, said)
  PROVE  OnlyCall(c, "answered")
BY DEF Answer, OnlyCall, ConnInv, Fields

LEMMA CommittedIs ==
  ASSUME ConnInv, NEW c \in Callers, NEW ans, NEW said,
         conn' = Committed(Answer(c, ans, said))
  PROVE  OnlyCall(c, "answered")
<1> DEFINE cs == Answer(c, ans, said)
<1>1. /\ DOMAIN cs = Callers
      /\ \A b \in Callers : DOMAIN cs[b] = Fields
      /\ cs[c].pc = "answered"
      /\ \A b \in Callers : b # c => cs[b].pc = conn[b].pc
  BY DEF Answer, ConnInv, Fields
<1>2. conn' = Committed(cs)
  OBVIOUS
<1> HIDE DEF cs
<1> QED BY <1>1, <1>2 DEF Committed, OnlyCall, Fields

(* A call that holds no lock and takes none. *)
LEMMA CallSafe ==
  ASSUME ConnInv, NEW c \in Callers, NEW pc, OnlyCall(c, pc), UNCHANGED writer,
         conn[c].pc # "written", pc # "written"
  PROVE  ConnInv'
BY DEF ConnInv, OnlyCall, WriteLockIsHeld

LEMMA ConnStep ==
  ASSUME ConnInv, NEW c \in Callers,
         \/ Call(c) \/ Select(c) \/ Statement(c) \/ Begin(c) \/ InsertRow(c)
         \/ Busy(c) \/ Commit(c) \/ Return(c)
  PROVE  ConnInv'
<1>1. ASSUME NEW ans, conn[c].pc # "written", UNCHANGED writer,
             Settle(c, ans)
      PROVE  ConnInv'
  BY <1>1, AnswerIs, CallSafe DEF Settle
<1>2. ASSUME NEW kind, conn[c].pc # "written", UNCHANGED writer, Break(c, kind)
      PROVE  ConnInv'
  BY <1>2, AnswerIs, CallSafe DEF Break
<1>3. ASSUME NEW o, Apply(c, o)
      PROVE  OnlyCall(c, "answered")
  BY <1>3, CommittedIs DEF Apply
<1>4. CASE Call(c)
  <2>1. PICK r \in menu.requests : conn' = [conn EXCEPT ![c].req = r, ![c].pc = "called"]
    BY <1>4 DEF Call
  <2>2. conn[c].pc = "idle" /\ UNCHANGED writer
    BY <1>4 DEF Call, NoConnection
  <2>3. OnlyCall(c, "called")
    BY <2>1 DEF OnlyCall, ConnInv, Fields
  <2> QED BY <2>2, <2>3, CallSafe
<1>5. CASE Select(c)
  <2>1. conn[c].pc = "called" /\ UNCHANGED writer
    BY <1>5 DEF Select
  <2>2. (\E kind : Break(c, kind)) \/ (\E ans : Settle(c, ans))
    BY <1>5 DEF Select
  <2> QED BY <1>1, <1>2, <2>1, <2>2
<1>6. CASE Statement(c)
  <2>1. conn[c].pc = "called" /\ UNCHANGED writer
    BY <1>6 DEF Statement
  <2>2. (\E kind : Break(c, kind)) \/ (\E ans : Settle(c, ans)) \/ (\E o : Apply(c, o))
    BY <1>6 DEF Statement
  <2> QED BY <1>1, <1>2, <1>3, <2>1, <2>2, CallSafe
<1>7. CASE Begin(c)
  <2>1. conn[c].pc = "called" /\ UNCHANGED writer
    BY <1>7 DEF Begin
  <2>2. (\E ans : Settle(c, ans)) \/ conn' = [conn EXCEPT ![c].pc = "begun"]
    BY <1>7 DEF Begin
  <2>3. CASE conn' = [conn EXCEPT ![c].pc = "begun"]
    <3>1. OnlyCall(c, "begun")
      BY <2>3 DEF OnlyCall, ConnInv, Fields
    <3> QED BY <2>1, <3>1, CallSafe
  <2> QED BY <1>1, <2>1, <2>2, <2>3
<1>8. CASE InsertRow(c)
  <2>1. conn[c].pc = "begun" /\ writer = Nil
    BY <1>8 DEF InsertRow, MayWrite
  <2>2. \/ \E ans : Settle(c, ans) /\ UNCHANGED writer
        \/ conn' = [conn EXCEPT ![c].pc = "written"] /\ writer' = c
    BY <1>8 DEF InsertRow
  <2>3. CASE conn' = [conn EXCEPT ![c].pc = "written"] /\ writer' = c
    <3>1. OnlyCall(c, "written")
      BY <2>3 DEF OnlyCall, ConnInv, Fields
    <3>2. \A b \in Callers : conn[b].pc # "written"
      BY <2>1, NilAssumption DEF ConnInv, WriteLockIsHeld
    <3> QED BY <2>3, <3>1, <3>2 DEF ConnInv, OnlyCall, WriteLockIsHeld
  <2> QED BY <1>1, <2>1, <2>2, <2>3
<1>9. CASE Busy(c)
  <2>1. conn[c].pc # "written" /\ UNCHANGED writer /\ Break(c, "Backend")
    BY <1>9 DEF Busy
  <2> QED BY <1>2, <2>1
<1>10. CASE Commit(c)
  <2>1. conn[c].pc = "written" /\ writer' = Nil /\ \E o : Apply(c, o)
    BY <1>10 DEF Commit
  <2>2. OnlyCall(c, "answered") /\ writer = c
    BY <1>3, <2>1 DEF ConnInv, WriteLockIsHeld
  <2> QED BY <2>1, <2>2, NilAssumption DEF ConnInv, OnlyCall, WriteLockIsHeld
<1>11. CASE Return(c)
  <2>1. conn[c].pc = "answered" /\ UNCHANGED writer
        /\ conn' = [conn EXCEPT ![c] = NoConnection]
    BY <1>11 DEF Return
  <2>2. OnlyCall(c, "idle")
    BY <2>1 DEF OnlyCall, ConnInv, Fields, NoConnection
  <2> QED BY <2>1, <2>2, CallSafe
<1> QED BY <1>4, <1>5, <1>6, <1>7, <1>8, <1>9, <1>10, <1>11

LEMMA ConnInit == Init => ConnInv
BY NilAssumption DEF Init, ConnInv, NoConnection, Fields, WriteLockIsHeld

LEMMA ConnNext == ConnInv /\ [Next]_vars => ConnInv'
<1> SUFFICES ASSUME ConnInv, [Next]_vars PROVE ConnInv'
  OBVIOUS
<1>1. CASE UNCHANGED <<conn, writer>>
  BY <1>1 DEF ConnInv, WriteLockIsHeld
<1>2. ASSUME NEW d \in Daemons, Crash(d) PROVE ConnInv'
  <2>1. CASE conn' = [c \in Callers |-> NoConnection] /\ writer' = Nil
    BY <2>1, NilAssumption DEF ConnInv, NoConnection, Fields, WriteLockIsHeld
  <2> QED BY <1>1, <1>2, <2>1 DEF Crash
<1>3. ASSUME NEW d \in Daemons,
             \/ Start(d) \/ ensure_directory(d) \/ acquire(d) \/ check_history(d)
             \/ apply_migration(d) \/ migrations_applied(d) \/ finish_startup(d)
             \/ Drain(d) \/ Drained(d)
      PROVE  UNCHANGED <<conn, writer>>
  BY <1>3 DEF Start, ensure_directory, acquire, check_history, apply_migration,
     migrations_applied, finish_startup, Drain, Drained, storeVars
<1> QED BY <1>1, <1>2, <1>3, ConnStep DEF Next, vars

(* The write lock of the database is held by the one transaction that has  *)
(* written, and given back when that ends, also by a crash.                *)
THEOREM WriteLockSound == Spec => []WriteLockIsHeld
<1>1. ConnInv => WriteLockIsHeld
  BY DEF ConnInv
<1> QED BY <1>1, ConnInit, ConnNext, PTL DEF Spec

-----------------------------------------------------------------------------
(* Requests and tables.                                                    *)

Sound(s) == s \in Tables /\ Numbered(s)

LEMMA MethodOf ==
  ASSUME NEW r \in Requests
  PROVE  /\ r.trait = "EventStore" => r.op \in Methods.EventStore
         /\ r.trait = "ProjectionStore" => r.op \in Methods.ProjectionStore
         /\ r.trait = "CandidateStore" => r.op \in Methods.CandidateStore
         /\ r.trait = "EvidenceStore" => r.op \in Methods.EvidenceStore
         /\ r.trait = "GateStore" => r.op \in Methods.GateStore
         /\ r.trait = "ObligationStore" => r.op \in Methods.ObligationStore
         /\ r.trait = "OperationStore" => r.op \in Methods.OperationStore
         /\ r.trait = "ArtifactMetadataStore"
              => r.op \in Methods.ArtifactMetadataStore
         /\ r.trait = "WorkspaceMetadataStore"
              => r.op \in Methods.WorkspaceMetadataStore
         /\ r.trait = "CheckStore" => r.op \in Methods.CheckStore
<1>1. r.op \in Methods[r.trait]
  BY RequestsAssumption
<1> QED BY <1>1

LEMMA TraitOf ==
  ASSUME NEW r \in Requests
  PROVE  r.trait \in {"EventStore", "ProjectionStore", "CandidateStore",
                      "EvidenceStore", "GateStore", "ObligationStore",
                      "OperationStore", "ArtifactMetadataStore",
                      "WorkspaceMetadataStore", "CheckStore"}
<1>1. r.trait \in DOMAIN Methods
  BY RequestsAssumption
<1> QED BY <1>1 DEF Methods

(* The log of a job ends where its events do. *)
LEMMA MaxSequenceIs ==
  ASSUME NEW s, NEW j, NEW n \in Nat,
         {e.seq : e \in OfJob(s.events, j)} = 1..n
  PROVE  MaxSequence(s, j) = n
<1> DEFINE rows == OfJob(s.events, j)
           seqs == {e.seq : e \in rows}
           Last(m) == m \in {0} \cup seqs /\ \A e \in rows : e.seq <= m
<1>1. \A e \in rows : e.seq \in 1..n
  OBVIOUS
<1>2. n \in {0} \cup seqs
  OBVIOUS
<1>3. Last(n)
  BY <1>1, <1>2
<1>4. ASSUME NEW m, Last(m) PROVE m = n
  <2>1. m \in 0..n
    BY <1>4
  <2>2. n \in seqs => n <= m
    BY <1>4
  <2> QED BY <2>1, <2>2
<1>5. MaxSequence(s, j) = CHOOSE m \in {0} \cup seqs : \A e \in rows : e.seq <= m
  BY DEF MaxSequence
<1> HIDE DEF rows, seqs
<1> QED BY <1>3, <1>4, <1>5

-----------------------------------------------------------------------------
(* What a write of one table does to the store the traits see.             *)

LEMMA SameColumns ==
  ASSUME NEW s, NEW t
  PROVE  /\ t.events = s.events => AsStore(t).events = AsStore(s).events
         /\ t.projections = s.projections
              => AsStore(t).versions = AsStore(s).versions
         /\ t.source_candidates = s.source_candidates
              => AsStore(t).sources = AsStore(s).sources
         /\ t.active_source_candidates = s.active_source_candidates
              => AsStore(t).active = AsStore(s).active
         /\ t.owned = s.owned => AsStore(t).rows = AsStore(s).rows
         /\ t.gate_results = s.gate_results
              => AsStore(t).results = AsStore(s).results
         /\ t.workspace_metadata = s.workspace_metadata
              => AsStore(t).workspaces = AsStore(s).workspaces
<1>1. t.events = s.events => AsStore(t).events = AsStore(s).events
  BY DEF AsStore, Log, MaxSequence, OfJob
<1>2. t.projections = s.projections => AsStore(t).versions = AsStore(s).versions
  BY DEF AsStore
<1>3. t.source_candidates = s.source_candidates
        => AsStore(t).sources = AsStore(s).sources
  BY DEF AsStore
<1>4. t.active_source_candidates = s.active_source_candidates
        => AsStore(t).active = AsStore(s).active
  BY DEF AsStore
<1>5. t.owned = s.owned => AsStore(t).rows = AsStore(s).rows
  BY DEF AsStore, Table
<1>6. t.gate_results = s.gate_results => AsStore(t).results = AsStore(s).results
  BY DEF AsStore, ResultsOf
<1>7. t.workspace_metadata = s.workspace_metadata
        => AsStore(t).workspaces = AsStore(s).workspaces
  BY DEF AsStore
<1> QED BY <1>1, <1>2, <1>3, <1>4, <1>5, <1>6, <1>7

StoreFields == {"events", "versions", "sources", "active", "rows", "results",
                "workspaces"}

LEMMA OneField ==
  ASSUME NEW d, NEW e, NEW f \in StoreFields,
         DOMAIN d = StoreFields, DOMAIN e = StoreFields,
         d = [x \in StoreFields |-> d[x]], e = [x \in StoreFields |-> e[x]],
         \A x \in StoreFields \ {f} : d[x] = e[x]
  PROVE  d = [e EXCEPT ![f] = d[f]]
OBVIOUS

(* A write of one table changes one field. *)
LEMMA OneTable ==
  ASSUME NEW s \in Tables, NEW x
  PROVE
    /\ LET t == [s EXCEPT !.events = x]
       IN  AsStore(t) = [AsStore(s) EXCEPT !.events = AsStore(t).events]
    /\ LET t == [s EXCEPT !.projections = x]
       IN  AsStore(t) = [AsStore(s) EXCEPT !.versions = AsStore(t).versions]
    /\ LET t == [s EXCEPT !.source_candidates = x]
       IN  AsStore(t) = [AsStore(s) EXCEPT !.sources = AsStore(t).sources]
    /\ LET t == [s EXCEPT !.active_source_candidates = x]
       IN  AsStore(t) = [AsStore(s) EXCEPT !.active = AsStore(t).active]
    /\ LET t == [s EXCEPT !.owned = x]
       IN  AsStore(t) = [AsStore(s) EXCEPT !.rows = AsStore(t).rows]
    /\ LET t == [s EXCEPT !.gate_results = x]
       IN  AsStore(t) = [AsStore(s) EXCEPT !.results = AsStore(t).results]
    /\ LET t == [s EXCEPT !.workspace_metadata = x]
       IN  AsStore(t) = [AsStore(s) EXCEPT !.workspaces = AsStore(t).workspaces]
<1>1. ASSUME NEW t
      PROVE  /\ DOMAIN AsStore(t) = StoreFields
             /\ AsStore(t) = [f \in StoreFields |-> AsStore(t)[f]]
  BY DEF AsStore, StoreFields
<1>2. LET t == [s EXCEPT !.events = x]
      IN  AsStore(t) = [AsStore(s) EXCEPT !.events = AsStore(t).events]
  <2> DEFINE t == [s EXCEPT !.events = x]
  <2>1. /\ t.projections = s.projections
        /\ t.source_candidates = s.source_candidates
        /\ t.active_source_candidates = s.active_source_candidates
        /\ t.owned = s.owned
        /\ t.gate_results = s.gate_results
        /\ t.workspace_metadata = s.workspace_metadata
    BY DEF Tables
  <2> HIDE DEF t
  <2>2. \A f \in StoreFields \ {"events"} : AsStore(t)[f] = AsStore(s)[f]
    BY <2>1, SameColumns DEF StoreFields
  <2>3. AsStore(t) = [AsStore(s) EXCEPT !["events"] = AsStore(t)["events"]]
    BY <1>1, <2>2, OneField DEF StoreFields
  <2> QED BY <2>3 DEF t
<1>3. LET t == [s EXCEPT !.projections = x]
      IN  AsStore(t) = [AsStore(s) EXCEPT !.versions = AsStore(t).versions]
  <2> DEFINE t == [s EXCEPT !.projections = x]
  <2>1. /\ t.events = s.events
        /\ t.source_candidates = s.source_candidates
        /\ t.active_source_candidates = s.active_source_candidates
        /\ t.owned = s.owned
        /\ t.gate_results = s.gate_results
        /\ t.workspace_metadata = s.workspace_metadata
    BY DEF Tables
  <2> HIDE DEF t
  <2>2. \A f \in StoreFields \ {"versions"} : AsStore(t)[f] = AsStore(s)[f]
    BY <2>1, SameColumns DEF StoreFields
  <2>3. AsStore(t) = [AsStore(s) EXCEPT !["versions"] = AsStore(t)["versions"]]
    BY <1>1, <2>2, OneField DEF StoreFields
  <2> QED BY <2>3 DEF t
<1>4. LET t == [s EXCEPT !.source_candidates = x]
      IN  AsStore(t) = [AsStore(s) EXCEPT !.sources = AsStore(t).sources]
  <2> DEFINE t == [s EXCEPT !.source_candidates = x]
  <2>1. /\ t.events = s.events
        /\ t.projections = s.projections
        /\ t.active_source_candidates = s.active_source_candidates
        /\ t.owned = s.owned
        /\ t.gate_results = s.gate_results
        /\ t.workspace_metadata = s.workspace_metadata
    BY DEF Tables
  <2> HIDE DEF t
  <2>2. \A f \in StoreFields \ {"sources"} : AsStore(t)[f] = AsStore(s)[f]
    BY <2>1, SameColumns DEF StoreFields
  <2>3. AsStore(t) = [AsStore(s) EXCEPT !["sources"] = AsStore(t)["sources"]]
    BY <1>1, <2>2, OneField DEF StoreFields
  <2> QED BY <2>3 DEF t
<1>5. LET t == [s EXCEPT !.active_source_candidates = x]
      IN  AsStore(t) = [AsStore(s) EXCEPT !.active = AsStore(t).active]
  <2> DEFINE t == [s EXCEPT !.active_source_candidates = x]
  <2>1. /\ t.events = s.events
        /\ t.projections = s.projections
        /\ t.source_candidates = s.source_candidates
        /\ t.owned = s.owned
        /\ t.gate_results = s.gate_results
        /\ t.workspace_metadata = s.workspace_metadata
    BY DEF Tables
  <2> HIDE DEF t
  <2>2. \A f \in StoreFields \ {"active"} : AsStore(t)[f] = AsStore(s)[f]
    BY <2>1, SameColumns DEF StoreFields
  <2>3. AsStore(t) = [AsStore(s) EXCEPT !["active"] = AsStore(t)["active"]]
    BY <1>1, <2>2, OneField DEF StoreFields
  <2> QED BY <2>3 DEF t
<1>6. LET t == [s EXCEPT !.owned = x]
      IN  AsStore(t) = [AsStore(s) EXCEPT !.rows = AsStore(t).rows]
  <2> DEFINE t == [s EXCEPT !.owned = x]
  <2>1. /\ t.events = s.events
        /\ t.projections = s.projections
        /\ t.source_candidates = s.source_candidates
        /\ t.active_source_candidates = s.active_source_candidates
        /\ t.gate_results = s.gate_results
        /\ t.workspace_metadata = s.workspace_metadata
    BY DEF Tables
  <2> HIDE DEF t
  <2>2. \A f \in StoreFields \ {"rows"} : AsStore(t)[f] = AsStore(s)[f]
    BY <2>1, SameColumns DEF StoreFields
  <2>3. AsStore(t) = [AsStore(s) EXCEPT !["rows"] = AsStore(t)["rows"]]
    BY <1>1, <2>2, OneField DEF StoreFields
  <2> QED BY <2>3 DEF t
<1>7. LET t == [s EXCEPT !.gate_results = x]
      IN  AsStore(t) = [AsStore(s) EXCEPT !.results = AsStore(t).results]
  <2> DEFINE t == [s EXCEPT !.gate_results = x]
  <2>1. /\ t.events = s.events
        /\ t.projections = s.projections
        /\ t.source_candidates = s.source_candidates
        /\ t.active_source_candidates = s.active_source_candidates
        /\ t.owned = s.owned
        /\ t.workspace_metadata = s.workspace_metadata
    BY DEF Tables
  <2> HIDE DEF t
  <2>2. \A f \in StoreFields \ {"results"} : AsStore(t)[f] = AsStore(s)[f]
    BY <2>1, SameColumns DEF StoreFields
  <2>3. AsStore(t) = [AsStore(s) EXCEPT !["results"] = AsStore(t)["results"]]
    BY <1>1, <2>2, OneField DEF StoreFields
  <2> QED BY <2>3 DEF t
<1>8. LET t == [s EXCEPT !.workspace_metadata = x]
      IN  AsStore(t) = [AsStore(s) EXCEPT !.workspaces = AsStore(t).workspaces]
  <2> DEFINE t == [s EXCEPT !.workspace_metadata = x]
  <2>1. /\ t.events = s.events
        /\ t.projections = s.projections
        /\ t.source_candidates = s.source_candidates
        /\ t.active_source_candidates = s.active_source_candidates
        /\ t.owned = s.owned
        /\ t.gate_results = s.gate_results
    BY DEF Tables
  <2> HIDE DEF t
  <2>2. \A f \in StoreFields \ {"workspaces"} : AsStore(t)[f] = AsStore(s)[f]
    BY <2>1, SameColumns DEF StoreFields
  <2>3. AsStore(t) = [AsStore(s) EXCEPT !["workspaces"] = AsStore(t)["workspaces"]]
    BY <1>1, <2>2, OneField DEF StoreFields
  <2> QED BY <2>3 DEF t
<1> QED BY <1>2, <1>3, <1>4, <1>5, <1>6, <1>7, <1>8

-----------------------------------------------------------------------------
(* The tables whose rows are put whole.                                    *)

(* A statement answers what the contract answers and leaves what the       *)
(* contract leaves; one that is refused by a constraint, or by a row it    *)
(* cannot read, leaves everything.                                         *)

Agree(o, c) == c = [ans |-> o.ans, after |-> AsStore(o.after)]

Carried(o, c, s) ==
  /\ Sound(o.after)
  /\ o.ans.err # "none" =>
       o.after = s /\ o.ans = Answered(o.ans.err, {})
  /\ o.ans.err \notin {"Backend", "Corrupt"} => Agree(o, c)

LEMMA NumberedStays ==
  ASSUME NEW s, NEW t, Numbered(s), t.events = s.events
  PROVE  Numbered(t)
BY DEF Numbered, MaxSequence, OfJob

RowsOf(s, k, i) == {[job |-> x.job, val |-> x.val] : x \in WithId(Table(s, k), i)}

LEMMA RowsOfStore ==
  ASSUME NEW s
  PROVE  /\ AsStore(s).rows = [k \in Kinds |-> [i \in Ids |-> RowsOf(s, k, i)]]
         /\ \A k \in Kinds, i \in Ids : AsStore(s).rows[k][i] = RowsOf(s, k, i)
<1>1. AsStore(s).rows = [k \in Kinds |-> [i \in Ids |-> RowsOf(s, k, i)]]
  BY DEF AsStore, RowsOf
<1> QED BY <1>1

LEMMA OneRow ==
  ASSUME NEW s, NEW t, NEW kind \in Kinds, NEW id \in Ids,
         \A k \in Kinds, i \in Ids :
           k # kind \/ i # id => RowsOf(t, k, i) = RowsOf(s, k, i)
  PROVE  AsStore(t).rows =
           [AsStore(s).rows EXCEPT ![kind][id] = RowsOf(t, kind, id)]
<1> DEFINE f == [k \in Kinds |-> [i \in Ids |-> RowsOf(s, k, i)]]
           g == [k \in Kinds |-> [i \in Ids |-> RowsOf(t, k, i)]]
           h == [f EXCEPT ![kind][id] = RowsOf(t, kind, id)]
<1>1. DOMAIN h = Kinds /\ h = [k \in Kinds |-> h[k]]
  OBVIOUS
<1>2. ASSUME NEW k \in Kinds PROVE h[k] = g[k]
  <2>1. CASE k = kind
    <3>1. h[k] = [f[k] EXCEPT ![id] = RowsOf(t, kind, id)]
      BY <2>1
    <3>2. f[k] = [i \in Ids |-> RowsOf(s, k, i)] /\ g[k] = [i \in Ids |-> RowsOf(t, k, i)]
      OBVIOUS
    <3> HIDE DEF f, g, h
    <3> QED BY <2>1, <3>1, <3>2
  <2>2. CASE k # kind
    <3>1. h[k] = [i \in Ids |-> RowsOf(s, k, i)] /\ g[k] = [i \in Ids |-> RowsOf(t, k, i)]
      BY <2>2
    <3> HIDE DEF f, g, h
    <3> QED BY <2>2, <3>1
  <2> QED BY <2>1, <2>2
<1>3. AsStore(s).rows = f /\ AsStore(t).rows = g
  BY RowsOfStore
<1>4. g = [k \in Kinds |-> g[k]]
  OBVIOUS
<1>5. h = g
  <2> HIDE DEF f, g, h
  <2> QED BY <1>1, <1>2, <1>4
<1> HIDE DEF f, g
<1> QED BY <1>3, <1>5

LEMMA SameAnswers ==
  ASSUME NEW s, NEW d
  PROVE  /\ \A rows : Contract!Fetch(rows, d) =
                      [ans |-> Fetch(rows, s).ans, after |-> d]
         /\ \A value : Contract!Value(value, d) =
                       [ans |-> Value(value, s).ans, after |-> d]
         /\ \A kind : Contract!Error(kind, d) =
                      [ans |-> Error(kind, s).ans, after |-> d]
         /\ Contract!Ok(d) = [ans |-> Ok(s).ans, after |-> d]
BY DEF Fetch, Contract!Fetch, Value, Contract!Value, Error, Contract!Error,
       Ok, Contract!Ok, Done, Contract!Done, Answered, Contract!Answered

LEMMA CarriedFetch ==
  ASSUME NEW s, Sound(s), NEW rows
  PROVE  Carried(Fetch(rows, s), Contract!Fetch(rows, AsStore(s)), s)
<1>1. Fetch(rows, s).after = s
  BY DEF Fetch, Error, Value
<1> QED BY <1>1, SameAnswers DEF Carried, Agree, Fetch, Value, Error, Answered

LEMMA CarriedValue ==
  ASSUME NEW s, Sound(s), NEW value
  PROVE  Carried(Value(value, s), Contract!Value(value, AsStore(s)), s)
<1>1. Value(value, s).after = s
  BY DEF Value
<1> QED BY <1>1, SameAnswers DEF Carried, Agree, Value, Answered

LEMMA CarriedError ==
  ASSUME NEW s, Sound(s), NEW kind
  PROVE  Carried(Error(kind, s), Contract!Error(kind, AsStore(s)), s)
<1>1. Error(kind, s).after = s
  BY DEF Error
<1> QED BY <1>1, SameAnswers DEF Carried, Agree, Error, Answered

LEMMA CarriedOk ==
  ASSUME NEW s, NEW t, Sound(t)
  PROVE  Carried(Ok(t), Contract!Ok(AsStore(t)), s)
<1>1. Ok(t).after = t /\ Ok(t).ans.err = "none"
  BY DEF Ok, Done, Answered
<1> QED BY <1>1, SameAnswers DEF Carried, Agree, Ok, Done, Answered

(* An error that the contract does not explain has had no effect. *)
LEMMA CarriedUnexplained ==
  ASSUME NEW s, Sound(s), NEW kind \in {"Backend", "Corrupt"}, NEW c
  PROVE  Carried(Error(kind, s), c, s)
BY DEF Carried, Error, Answered

LEMMA CarriedConstrained ==
  ASSUME NEW s, Sound(s), NEW t, NEW holds, NEW c,
         holds => Sound(t) /\ c = Contract!Ok(AsStore(t))
  PROVE  Carried(Constrained(holds, s, t), c, s)
<1>1. CASE holds
  BY <1>1, CarriedOk DEF Constrained
<1>2. CASE ~holds
  BY <1>2, CarriedUnexplained DEF Constrained
<1> QED BY <1>1, <1>2

LEMMA PutCarried ==
  ASSUME NEW s, Sound(s), NEW kind \in Kinds, NEW r,
         r.job \in Jobs, r.id \in Ids, r.val \in STRING
  PROVE  Carried(SqlPut(s, kind, r), Contract!Put(AsStore(s), kind, r), s)
<1> DEFINE old == WithId(Table(s, kind), r.id)
           row == [kind |-> kind, id |-> r.id, job |-> r.job, val |-> r.val]
           owned == Upsert(s.owned, old, row)
           t == [s EXCEPT !.owned = owned]
           new == {[job |-> r.job, val |-> r.val]}
<1>1. SqlPut(s, kind, r) = Constrained(HasJob(s, r.job), s, t)
  BY DEF SqlPut
<1>2. s.owned \subseteq [kind : Kinds, id : Ids, job : Jobs, val : STRING]
      /\ row \in [kind : Kinds, id : Ids, job : Jobs, val : STRING]
  BY DEF Sound, Tables
<1>3. owned \in SUBSET [kind : Kinds, id : Ids, job : Jobs, val : STRING]
  BY <1>2 DEF Upsert
<1>4. t \in Tables /\ t.owned = owned /\ t.events = s.events
  BY <1>3 DEF Sound, Tables
<1>5. Sound(t)
  BY <1>4, NumberedStays DEF Sound
<1>6. RowsOf(t, kind, r.id) = new
  <2>1. WithId(Table(t, kind), r.id) = {row}
    BY <1>4 DEF WithId, Table, Upsert
  <2> QED BY <2>1 DEF RowsOf
<1>7. ASSUME NEW k \in Kinds, NEW i \in Ids, k # kind \/ i # r.id
      PROVE  RowsOf(t, k, i) = RowsOf(s, k, i)
  <2>1. WithId(Table(t, k), i) = WithId(Table(s, k), i)
    BY <1>4, <1>7 DEF WithId, Table, Upsert
  <2> QED BY <2>1 DEF RowsOf
<1> HIDE DEF t, new
<1>8. AsStore(t).rows = [AsStore(s).rows EXCEPT ![kind][r.id] = new]
  <2>1. \A k \in Kinds, i \in Ids :
          k # kind \/ i # r.id => RowsOf(t, k, i) = RowsOf(s, k, i)
    BY <1>7
  <2>2. AsStore(t).rows =
          [AsStore(s).rows EXCEPT ![kind][r.id] = RowsOf(t, kind, r.id)]
    BY <2>1, OneRow
  <2> QED BY <1>6, <2>2
<1>9. AsStore(t) = [AsStore(s) EXCEPT !.rows = AsStore(t).rows]
  <2>1. \A x : AsStore([s EXCEPT !.owned = x]) =
                 [AsStore(s) EXCEPT !.rows = AsStore([s EXCEPT !.owned = x]).rows]
    BY OneTable DEF Sound
  <2> QED BY <2>1 DEF t
<1>10. Contract!Put(AsStore(s), kind, r) = Contract!Ok(AsStore(t))
  BY <1>8, <1>9 DEF Contract!Put, new, AsStore
<1> QED BY <1>1, <1>5, <1>10, CarriedConstrained

LEMMA GetCarried ==
  ASSUME NEW s, Sound(s), NEW kind \in Kinds, NEW r, r.id \in Ids
  PROVE  Carried(SqlGet(s, kind, r), Contract!Get(AsStore(s), kind, r), s)
<1>1. AsStore(s).rows[kind][r.id] = RowsOf(s, kind, r.id)
  BY RowsOfStore
<1> QED BY <1>1, CarriedFetch DEF SqlGet, Contract!Get, RowsOf

LEMMA UpdateCarried ==
  ASSUME NEW s, Sound(s), NEW kind \in Kinds, NEW r,
         r.id \in Ids, r.val \in STRING
  PROVE  Carried(SqlUpdate(s, kind, r), Contract!Update(AsStore(s), kind, r), s)
<1> DEFINE old == WithId(Table(s, kind), r.id)
           changed == {[x EXCEPT !.val = r.val] : x \in old}
           owned == (s.owned \ old) \cup changed
           t == [s EXCEPT !.owned = owned]
           new == {[x EXCEPT !.val = r.val] : x \in RowsOf(s, kind, r.id)}
<1>1. AsStore(s).rows[kind][r.id] = RowsOf(s, kind, r.id)
  BY RowsOfStore
<1>2. CASE old = {}
  <2>1. RowsOf(s, kind, r.id) = {}
    BY <1>2 DEF RowsOf
  <2>2. /\ SqlUpdate(s, kind, r) = Error("NotFound", s)
        /\ Contract!Update(AsStore(s), kind, r)
             = Contract!Error("NotFound", AsStore(s))
    BY <1>1, <1>2, <2>1 DEF SqlUpdate, Contract!Update
  <2> QED BY <2>2, CarriedError
<1>3. CASE old # {}
  <2>1. /\ RowsOf(s, kind, r.id) # {}
        /\ SqlUpdate(s, kind, r) = Ok(t)
    BY <1>3 DEF RowsOf, SqlUpdate
  <2>2. s.owned \in SUBSET [kind : Kinds, id : Ids, job : Jobs, val : STRING]
    BY DEF Sound, Tables
  <2>3. old \subseteq s.owned /\ \A x \in old : x.kind = kind /\ x.id = r.id
    BY DEF WithId, Table
  <2>4. \A x \in old :
          [x EXCEPT !.val = r.val]
            = [kind |-> kind, id |-> r.id, job |-> x.job, val |-> r.val]
    BY <2>2, <2>3
  <2>5. \A y \in changed :
          \E x \in old : y = [kind |-> kind, id |-> r.id, job |-> x.job, val |-> r.val]
    BY <2>4
  <2>6. changed \in SUBSET [kind : Kinds, id : Ids, job : Jobs, val : STRING]
    BY <2>2, <2>3, <2>5
  <2>7. t \in Tables /\ t.owned = owned /\ t.events = s.events
    BY <2>6 DEF Sound, Tables
  <2>8. Sound(t)
    BY <2>7, NumberedStays DEF Sound
  <2>9. RowsOf(t, kind, r.id) = new
    <3>1. WithId(Table(t, kind), r.id) = changed
      BY <2>5, <2>7 DEF WithId, Table
    <3>2. RowsOf(t, kind, r.id) = {[job |-> y.job, val |-> y.val] : y \in changed}
      BY <3>1 DEF RowsOf
    <3>3. RowsOf(s, kind, r.id) = {[job |-> x.job, val |-> x.val] : x \in old}
      BY DEF RowsOf
    <3>4. \A x \in old : [[job |-> x.job, val |-> x.val] EXCEPT !.val = r.val]
                           = [job |-> x.job, val |-> r.val]
      OBVIOUS
    <3>5. new = {[job |-> x.job, val |-> r.val] : x \in old}
      <4>1. ASSUME NEW y \in new
            PROVE  \E x \in old : y = [job |-> x.job, val |-> r.val]
        <5>1. PICK z \in RowsOf(s, kind, r.id) : y = [z EXCEPT !.val = r.val]
          OBVIOUS
        <5>2. PICK x \in old : z = [job |-> x.job, val |-> x.val]
          BY <3>3, <5>1
        <5> QED BY <5>1, <5>2
      <4>2. ASSUME NEW x \in old
            PROVE  [job |-> x.job, val |-> r.val] \in new
        <5>1. [job |-> x.job, val |-> x.val] \in RowsOf(s, kind, r.id)
          BY <3>3
        <5> QED BY <3>4, <5>1
      <4> HIDE DEF new
      <4> QED BY <4>1, <4>2
    <3>6. \A x \in old : [x EXCEPT !.val = r.val].job = x.job
                         /\ [x EXCEPT !.val = r.val].val = r.val
      BY <2>4
    <3>7. {[job |-> y.job, val |-> y.val] : y \in changed}
            = {[job |-> x.job, val |-> r.val] : x \in old}
      BY <3>6
    <3> QED BY <3>2, <3>5, <3>7
  <2>10. ASSUME NEW k \in Kinds, NEW i \in Ids, k # kind \/ i # r.id
         PROVE  RowsOf(t, k, i) = RowsOf(s, k, i)
    <3>1. WithId(Table(t, k), i) = WithId(Table(s, k), i)
      BY <2>3, <2>5, <2>7, <2>10 DEF WithId, Table
    <3> QED BY <3>1 DEF RowsOf
  <2> HIDE DEF t, new, old
  <2>11. AsStore(t).rows = [AsStore(s).rows EXCEPT ![kind][r.id] = new]
    <3>1. \A k \in Kinds, i \in Ids :
            k # kind \/ i # r.id => RowsOf(t, k, i) = RowsOf(s, k, i)
      BY <2>10
    <3>2. AsStore(t).rows =
            [AsStore(s).rows EXCEPT ![kind][r.id] = RowsOf(t, kind, r.id)]
      BY <3>1, OneRow
    <3> QED BY <2>9, <3>2
  <2>12. AsStore(t) = [AsStore(s) EXCEPT !.rows = AsStore(t).rows]
    <3>1. \A x : AsStore([s EXCEPT !.owned = x]) =
                   [AsStore(s) EXCEPT !.rows = AsStore([s EXCEPT !.owned = x]).rows]
      BY OneTable DEF Sound
    <3> QED BY <3>1 DEF t
  <2>13. Contract!Update(AsStore(s), kind, r) = Contract!Ok(AsStore(t))
    BY <1>1, <2>1, <2>11, <2>12 DEF Contract!Update, new, AsStore
  <2> QED BY <2>1, <2>8, <2>13, CarriedOk
<1> QED BY <1>2, <1>3

LEMMA ListCarried ==
  ASSUME NEW s, Sound(s), NEW kind \in Kinds, NEW r
  PROVE  Carried(SqlList(s, kind, r), Contract!List(AsStore(s), kind, r), s)
<1>1. \A x \in s.owned : x.id \in Ids
  BY DEF Sound, Tables
<1>2. \A i \in Ids : AsStore(s).rows[kind][i] = RowsOf(s, kind, i)
  BY RowsOfStore
<1>3. {i \in Ids : \E x \in RowsOf(s, kind, i) : x.job = r.job}
        = {x.id : x \in OfJob(Table(s, kind), r.job)}
  <2>1. ASSUME NEW i \in Ids, NEW x \in RowsOf(s, kind, i), x.job = r.job
        PROVE  \E y \in OfJob(Table(s, kind), r.job) : i = y.id
    <3>1. PICK y \in WithId(Table(s, kind), i) : x = [job |-> y.job, val |-> y.val]
      BY DEF RowsOf
    <3> QED BY <2>1, <3>1 DEF WithId, OfJob
  <2>2. ASSUME NEW y \in OfJob(Table(s, kind), r.job)
        PROVE  y.id \in Ids /\ \E x \in RowsOf(s, kind, y.id) : x.job = r.job
    <3>1. y \in WithId(Table(s, kind), y.id) /\ y.job = r.job /\ y \in s.owned
      BY DEF OfJob, WithId, Table
    <3>2. [job |-> y.job, val |-> y.val] \in RowsOf(s, kind, y.id)
      BY <3>1 DEF RowsOf
    <3> QED BY <1>1, <3>1, <3>2
  <2> QED BY <2>1, <2>2
<1>4. {i \in Ids : \E x \in AsStore(s).rows[kind][i] : x.job = r.job}
        = {x.id : x \in OfJob(Table(s, kind), r.job)}
  BY <1>2, <1>3
<1> QED BY <1>4, CarriedValue DEF SqlList, Contract!List

LEMMA WithCarried ==
  ASSUME NEW s, Sound(s), NEW kind \in Kinds, NEW val
  PROVE  Carried(SqlWith(s, kind, val), Contract!With(AsStore(s), kind, val), s)
<1>1. \A x \in s.owned : x.id \in Ids
  BY DEF Sound, Tables
<1>2. \A i \in Ids : AsStore(s).rows[kind][i] = RowsOf(s, kind, i)
  BY RowsOfStore
<1>3. {i \in Ids : \E x \in RowsOf(s, kind, i) : x.val = val}
        = {x.id : x \in {y \in Table(s, kind) : y.val = val}}
  <2>1. ASSUME NEW i \in Ids, NEW x \in RowsOf(s, kind, i), x.val = val
        PROVE  \E y \in Table(s, kind) : y.val = val /\ i = y.id
    <3>1. PICK y \in WithId(Table(s, kind), i) : x = [job |-> y.job, val |-> y.val]
      BY DEF RowsOf
    <3> QED BY <2>1, <3>1 DEF WithId
  <2>2. ASSUME NEW y \in Table(s, kind), y.val = val
        PROVE  y.id \in Ids /\ \E x \in RowsOf(s, kind, y.id) : x.val = val
    <3>1. y \in WithId(Table(s, kind), y.id) /\ y \in s.owned
      BY DEF WithId, Table
    <3>2. [job |-> y.job, val |-> y.val] \in RowsOf(s, kind, y.id)
      BY <3>1 DEF RowsOf
    <3> QED BY <1>1, <2>2, <3>1, <3>2
  <2> QED BY <2>1, <2>2
<1>4. {i \in Ids : \E x \in AsStore(s).rows[kind][i] : x.val = val}
        = {x.id : x \in {y \in Table(s, kind) : y.val = val}}
  BY <1>2, <1>3
<1> QED BY <1>4, CarriedValue DEF SqlWith, Contract!With

-----------------------------------------------------------------------------
(* The events of a job.                                                    *)

LEMMA LogIs ==
  ASSUME NEW s, Sound(s), NEW j \in Jobs
  PROVE  /\ MaxSequence(s, j) \in Nat
         /\ Log(s, j) = [n \in 1..MaxSequence(s, j) |-> Log(s, j)[n]]
         /\ DOMAIN Log(s, j) = 1..MaxSequence(s, j)
         /\ Log(s, j) \in Seq(STRING)
         /\ Len(Log(s, j)) = MaxSequence(s, j)
         /\ \A e \in OfJob(s.events, j) :
              e.seq \in 1..MaxSequence(s, j) /\ Log(s, j)[e.seq] = e.event
         /\ \A n \in 1..MaxSequence(s, j) :
              \E e \in OfJob(s.events, j) : e.seq = n /\ Log(s, j)[n] = e.event
<1> DEFINE rows == OfJob(s.events, j)
           M == MaxSequence(s, j)
<1>1. /\ M \in Nat
      /\ {e.seq : e \in rows} = 1..M
      /\ \A e, f \in rows : e.seq = f.seq => e = f
      /\ \A e \in rows : e.event \in STRING
  BY DEF Sound, Numbered, Tables, OfJob
<1>2. Log(s, j) = [n \in 1..M |-> (CHOOSE e \in rows : e.seq = n).event]
  BY DEF Log
<1> HIDE DEF rows, M
<1>3. ASSUME NEW e \in rows PROVE e.seq \in 1..M /\ Log(s, j)[e.seq] = e.event
  <2>1. e.seq \in 1..M
    BY <1>1
  <2>2. (CHOOSE f \in rows : f.seq = e.seq) = e
    BY <1>1
  <2> QED BY <1>2, <2>1, <2>2
<1>4. ASSUME NEW n \in 1..M
      PROVE  \E e \in rows : e.seq = n /\ Log(s, j)[n] = e.event
  <2>1. PICK e \in rows : e.seq = n
    BY <1>1
  <2> QED BY <1>3, <2>1
<1>5. \A n \in 1..M : Log(s, j)[n] \in STRING
  BY <1>1, <1>4
<1>6. /\ Log(s, j) = [n \in 1..M |-> Log(s, j)[n]]
      /\ DOMAIN Log(s, j) = 1..M
  BY <1>2
<1>7. Log(s, j) \in Seq(STRING) /\ Len(Log(s, j)) = M
  BY <1>1, <1>5, <1>6
<1> QED BY <1>1, <1>3, <1>4, <1>6, <1>7 DEF rows, M

(* An event that comes next makes the log one longer. *)
LEMMA LogGrows ==
  ASSUME NEW s, Sound(s), NEW r, r.job \in Jobs, r.event \in STRING,
         r.seq = MaxSequence(s, r.job) + 1
  PROVE  /\ Sound(Inserted(s, r))
         /\ Log(Inserted(s, r), r.job) = Append(Log(s, r.job), r.event)
         /\ \A j \in Jobs \ {r.job} : Log(Inserted(s, r), j) = Log(s, j)
<1> DEFINE M == MaxSequence(s, r.job)
           row == [job |-> r.job, seq |-> r.seq, event |-> r.event]
           t == Inserted(s, r)
           rows == OfJob(s.events, r.job)
           more == OfJob(t.events, r.job)
<1>1. M \in Nat /\ r.seq = M + 1
  BY LogIs
<1>2. t = [s EXCEPT !.events = s.events \cup {row}]
  BY DEF Inserted
<1>3. row \in [job : Jobs, seq : Nat, event : STRING]
  BY <1>1
<1>4. t \in Tables /\ t.events = s.events \cup {row}
  BY <1>2, <1>3 DEF Sound, Tables
<1>5. more = rows \cup {row}
  BY <1>4 DEF OfJob
<1>6. \A j \in Jobs \ {r.job} : OfJob(t.events, j) = OfJob(s.events, j)
  BY <1>4 DEF OfJob
<1>7. \A j \in Jobs \ {r.job} :
        MaxSequence(t, j) = MaxSequence(s, j) /\ Log(t, j) = Log(s, j)
  <2> HIDE DEF t
  <2> SUFFICES ASSUME NEW j \in Jobs \ {r.job}
               PROVE  MaxSequence(t, j) = MaxSequence(s, j) /\ Log(t, j) = Log(s, j)
    OBVIOUS
  <2>1. OfJob(t.events, j) = OfJob(s.events, j)
    BY <1>6
  <2>2. MaxSequence(t, j) = MaxSequence(s, j)
    BY <2>1 DEF MaxSequence
  <2> QED BY <2>1, <2>2 DEF Log
<1>8. {e.seq : e \in rows} = 1..M /\ \A e, f \in rows : e.seq = f.seq => e = f
  BY DEF Sound, Numbered
<1> HIDE DEF M, t, rows, more
<1>9. {e.seq : e \in more} = 1..(M + 1)
  <2>1. {e.seq : e \in more} = (1..M) \cup {r.seq}
    <3>1. \A e \in more : e \in rows \/ e.seq = r.seq
      BY <1>5
    <3>2. row \in more /\ row.seq = r.seq /\ \A e \in rows : e \in more
      BY <1>5
    <3>3. \A n \in 1..M : \E e \in rows : e.seq = n
      BY <1>8
    <3>4. \A e \in rows : e.seq \in 1..M
      BY <1>8
    <3> HIDE DEF row
    <3> QED BY <3>1, <3>2, <3>3, <3>4
  <2> QED BY <1>1, <2>1
<1>10. \A e, f \in more : e.seq = f.seq => e = f
  <2>1. \A e \in rows : e.seq # row.seq
    BY <1>1, <1>8
  <2> QED BY <1>5, <1>8, <2>1
<1>11. MaxSequence(t, r.job) = M + 1
  BY <1>1, <1>9, MaxSequenceIs DEF more
<1>12. Numbered(t)
  <2> SUFFICES ASSUME NEW j \in Jobs
               PROVE  /\ MaxSequence(t, j) \in Nat
                      /\ {e.seq : e \in OfJob(t.events, j)} = 1..MaxSequence(t, j)
                      /\ \A e, f \in OfJob(t.events, j) : e.seq = f.seq => e = f
    BY DEF Numbered
  <2>1. CASE j = r.job
    BY <1>1, <1>9, <1>10, <1>11, <2>1 DEF more
  <2>2. CASE j # r.job
    BY <1>6, <1>7, <2>2 DEF Sound, Numbered
  <2> QED BY <2>1, <2>2
<1>13. Sound(t)
  BY <1>4, <1>12 DEF Sound
<1>14. /\ DOMAIN Log(t, r.job) = 1..(M + 1)
       /\ Log(t, r.job) \in Seq(STRING) /\ Len(Log(t, r.job)) = M + 1
       /\ Log(s, r.job) \in Seq(STRING) /\ Len(Log(s, r.job)) = M
  BY <1>11, <1>13, LogIs DEF M
<1>15. \A n \in 1..M : Log(t, r.job)[n] = Log(s, r.job)[n]
  <2> SUFFICES ASSUME NEW n \in 1..M
               PROVE  Log(t, r.job)[n] = Log(s, r.job)[n]
    OBVIOUS
  <2>1. PICK e \in rows : e.seq = n /\ Log(s, r.job)[n] = e.event
    BY LogIs DEF M, rows
  <2>2. Log(t, r.job)[e.seq] = e.event
    BY <1>5, <1>13, LogIs DEF more
  <2> QED BY <2>1, <2>2
<1>16. Log(t, r.job)[M + 1] = r.event
  <2>1. row \in more
    BY <1>5
  <2>2. Log(t, r.job)[row.seq] = row.event
    BY <1>13, <2>1, LogIs DEF more
  <2> QED BY <1>1, <2>2
<1>17. Log(t, r.job) = Append(Log(s, r.job), r.event)
  <2> DEFINE a == Log(s, r.job)  b == Log(t, r.job)  c == Append(a, r.event)
  <2>1. /\ c \in Seq(STRING) /\ Len(c) = M + 1 /\ c[M + 1] = r.event
        /\ \A n \in 1..M : c[n] = a[n]
    BY <1>1, <1>14
  <2>2. b \in Seq(STRING) /\ Len(b) = M + 1
    BY <1>14
  <2>3. \A n \in 1..(M + 1) : b[n] = c[n]
    BY <1>1, <1>15, <1>16, <2>1
  <2> HIDE DEF a, b, c
  <2>4. b = c
    BY <1>1, <2>1, <2>2, <2>3
  <2> QED BY <2>4 DEF a, b, c
<1> QED BY <1>7, <1>13, <1>17 DEF t

LEMMA EventOf ==
  ASSUME NEW s, NEW j \in Jobs
  PROVE  AsStore(s).events[j] = Log(s, j)
BY DEF AsStore

LEMMA AppendCarried ==
  ASSUME NEW s, Sound(s), NEW r \in Requests, r.trait = "EventStore",
         r.op = "append_event", ~append_refuses(s, r), NEW known
  PROVE  Carried(ops_events(s, r, known), Contract!EventStore(AsStore(s), r), s)
<1> DEFINE t == Inserted(s, r)
           d == AsStore(s)
           holds == HasJob(s, r.job) /\ \A e \in OfJob(s.events, r.job) : e.seq # r.seq
<1>1. r.job \in Jobs /\ r.event \in STRING
  BY RequestsAssumption DEF ByJob, Methods
<1>2. r.seq = MaxSequence(s, r.job) + 1
  BY DEF append_refuses
<1>3. ops_events(s, r, known) = Constrained(holds, s, t)
  BY DEF ops_events
<1>4. d.events[r.job] = Log(s, r.job) /\ Len(Log(s, r.job)) = MaxSequence(s, r.job)
  BY <1>1, EventOf, LogIs
<1>5. Contract!EventStore(d, r)
        = Contract!Ok([d EXCEPT !.events[r.job] = Append(@, r.event)])
  BY <1>2, <1>4 DEF Contract!EventStore
<1>6. /\ Sound(t)
      /\ Log(t, r.job) = Append(Log(s, r.job), r.event)
      /\ \A j \in Jobs \ {r.job} : Log(t, j) = Log(s, j)
  BY <1>1, <1>2, LogGrows
<1>7. \A x : AsStore([s EXCEPT !.events = x]) =
               [AsStore(s) EXCEPT !.events = AsStore([s EXCEPT !.events = x]).events]
  BY OneTable DEF Sound
<1>8. AsStore(t) = [d EXCEPT !.events = AsStore(t).events]
  BY <1>7 DEF Inserted
<1>9. AsStore(t).events = [d.events EXCEPT ![r.job] = Append(@, r.event)]
  <2>1. /\ d.events = [j \in Jobs |-> Log(s, j)]
        /\ AsStore(t).events = [j \in Jobs |-> Log(t, j)]
    BY DEF AsStore
  <2> DEFINE old == d.events  new == AsStore(t).events
  <2>2. /\ old = [j \in Jobs |-> old[j]] /\ new = [j \in Jobs |-> new[j]]
        /\ DOMAIN old = Jobs
        /\ \A j \in Jobs : old[j] = Log(s, j) /\ new[j] = Log(t, j)
    BY <2>1
  <2> HIDE DEF old, new, d, t
  <2>3. new[r.job] = Append(old[r.job], r.event)
        /\ \A j \in Jobs \ {r.job} : new[j] = old[j]
    BY <1>1, <1>6, <2>2
  <2>4. new = [old EXCEPT ![r.job] = Append(old[r.job], r.event)]
    BY <2>2, <2>3
  <2> QED BY <2>4 DEF old, new
<1> HIDE DEF t
<1>10. Contract!EventStore(d, r) = Contract!Ok(AsStore(t))
  BY <1>5, <1>8, <1>9
<1> QED BY <1>3, <1>6, <1>10, CarriedConstrained

(* The rows of a range of sequences are that range of the log. *)
LEMMA RangeIs ==
  ASSUME NEW s, Sound(s), NEW j \in Jobs, NEW first, NEW last
  PROVE  Contract!Events(AsStore(s), j, first, last) =
           {serialised(e) :
              e \in {f \in OfJob(s.events, j) : first <= f.seq /\ f.seq <= last}}
<1> DEFINE rows == OfJob(s.events, j)
           M == MaxSequence(s, j)
           chosen == {f \in rows : first <= f.seq /\ f.seq <= last}
           range == {m \in 1..M : first <= m /\ m <= last}
<1>1. /\ AsStore(s).events[j] = Log(s, j) /\ DOMAIN Log(s, j) = 1..M
      /\ \A e \in rows : e.seq \in 1..M /\ Log(s, j)[e.seq] = e.event
      /\ \A n \in 1..M : \E e \in rows : e.seq = n /\ Log(s, j)[n] = e.event
  BY EventOf, LogIs
<1>2. Contract!Events(AsStore(s), j, first, last)
        = {[seq |-> n, event |-> Log(s, j)[n]] : n \in range}
  BY <1>1 DEF Contract!Events
<1> HIDE DEF rows, M
<1>3. \A n \in range : \E e \in chosen :
        [seq |-> n, event |-> Log(s, j)[n]] = serialised(e)
  BY <1>1 DEF serialised
<1>4. \A e \in chosen :
        e.seq \in range /\ [seq |-> e.seq, event |-> Log(s, j)[e.seq]] = serialised(e)
  BY <1>1 DEF serialised
<1> HIDE DEF range, chosen
<1>5. {[seq |-> n, event |-> Log(s, j)[n]] : n \in range}
        = {serialised(e) : e \in chosen}
  BY <1>3, <1>4
<1> QED BY <1>2, <1>5 DEF chosen, rows

(* Rows that can all be read are what the contract answers. *)
LEMMA CarriedRead ==
  ASSUME NEW s, Sound(s), NEW rows, NEW known, NEW c,
         c = Contract!Value({serialised(e) : e \in rows}, AsStore(s))
  PROVE  Carried(deserialised(rows, known, s), c, s)
<1>1. CASE \A e \in rows : e.event \in known
  BY <1>1, CarriedValue DEF deserialised
<1>2. CASE ~\A e \in rows : e.event \in known
  BY <1>2, CarriedUnexplained DEF deserialised
<1> QED BY <1>1, <1>2

LEMMA EventReadCarried ==
  ASSUME NEW s, Sound(s), NEW r \in Requests, r.trait = "EventStore",
         r.op # "append_event", NEW known
  PROVE  Carried(ops_events(s, r, known), Contract!EventStore(AsStore(s), r), s)
<1> DEFINE rows == OfJob(s.events, r.job)
<1>1. r.op \in Methods.EventStore
  BY MethodOf
<1>2. r.job \in Jobs
  BY <1>1, RequestsAssumption DEF ByJob
<1>3. /\ AsStore(s).events[r.job] = Log(s, r.job)
      /\ DOMAIN Log(s, r.job) = 1..MaxSequence(s, r.job)
      /\ Len(Log(s, r.job)) = MaxSequence(s, r.job)
      /\ MaxSequence(s, r.job) \in Nat
      /\ \A e \in rows : e.seq \in 1..MaxSequence(s, r.job)
      /\ \A n \in 1..MaxSequence(s, r.job) : \E e \in rows : e.seq = n
  BY <1>2, EventOf, LogIs
<1>4. CASE r.op = "get_event"
  <2> DEFINE at == {e \in rows : e.seq = r.seq}
  <2>1. r.seq \in DOMAIN AsStore(s).events[r.job] <=> at # {}
    BY <1>3
  <2>2. CASE at = {}
    <3>1. /\ ops_events(s, r, known) = Error("NotFound", s)
          /\ Contract!EventStore(AsStore(s), r)
               = Contract!Error("NotFound", AsStore(s))
      BY <1>4, <2>1, <2>2 DEF ops_events, Contract!EventStore
    <3> QED BY <3>1, CarriedError
  <2>3. CASE at # {}
    <3>1. /\ ops_events(s, r, known) = deserialised(at, known, s)
          /\ Contract!EventStore(AsStore(s), r)
               = Contract!Value(Contract!Events(AsStore(s), r.job, r.seq, r.seq),
                                AsStore(s))
      BY <1>4, <2>1, <2>3 DEF ops_events, Contract!EventStore
    <3>2. at = {f \in rows : r.seq <= f.seq /\ f.seq <= r.seq}
      BY <1>3, <2>3
    <3>3. Contract!Events(AsStore(s), r.job, r.seq, r.seq) = {serialised(e) : e \in at}
      BY <1>2, <3>2, RangeIs
    <3> HIDE DEF at
    <3> QED BY <3>1, <3>3, CarriedRead
  <2> QED BY <2>2, <2>3
<1>5. CASE r.op = "list_events_for_job"
  <2> DEFINE chosen == {e \in rows : r.first <= e.seq /\ e.seq <= r.last}
  <2>1. /\ ops_events(s, r, known) = deserialised(chosen, known, s)
        /\ Contract!EventStore(AsStore(s), r)
             = Contract!Value(Contract!Events(AsStore(s), r.job, r.first, r.last),
                              AsStore(s))
    BY <1>5 DEF ops_events, Contract!EventStore
  <2>2. Contract!Events(AsStore(s), r.job, r.first, r.last)
          = {serialised(e) : e \in chosen}
    BY <1>2, RangeIs
  <2> HIDE DEF chosen
  <2> QED BY <2>1, <2>2, CarriedRead
<1>6. CASE r.op = "next_sequence"
  <2>1. /\ ops_events(s, r, known) = Value({MaxSequence(s, r.job) + 1}, s)
        /\ Contract!EventStore(AsStore(s), r)
             = Contract!Value({MaxSequence(s, r.job) + 1}, AsStore(s))
    BY <1>3, <1>6 DEF ops_events, Contract!EventStore
  <2> QED BY <2>1, CarriedValue
<1> QED BY <1>1, <1>4, <1>5, <1>6 DEF Methods

-----------------------------------------------------------------------------
(* The projections of jobs.                                                *)

VersionsOf(s, j) == {x.version : x \in OfJob(s.projections, j)}

LEMMA VersionsOfStore ==
  ASSUME NEW s
  PROVE  /\ AsStore(s).versions = [j \in Jobs |-> VersionsOf(s, j)]
         /\ \A j \in Jobs : AsStore(s).versions[j] = VersionsOf(s, j)
BY DEF AsStore, VersionsOf

LEMMA OneVersion ==
  ASSUME NEW s, NEW t, NEW job \in Jobs,
         \A j \in Jobs \ {job} : VersionsOf(t, j) = VersionsOf(s, j)
  PROVE  AsStore(t).versions =
           [AsStore(s).versions EXCEPT ![job] = VersionsOf(t, job)]
<1>1. AsStore(t).versions =
        [j \in Jobs |-> IF j = job THEN VersionsOf(t, job) ELSE VersionsOf(s, j)]
  BY VersionsOfStore
<1> QED BY <1>1, VersionsOfStore

LEMMA PutProjectionCarried ==
  ASSUME NEW s, Sound(s), NEW r \in Requests, r.trait = "ProjectionStore",
         r.op = "put_projection", ~put_projection_refuses(s, r), NEW known
  PROVE  Carried(ops_projections(s, r, known),
                 Contract!ProjectionStore(AsStore(s), r), s)
<1> DEFINE old == OfJob(s.projections, r.job)
           row == [job |-> r.job, version |-> r.version]
           projections == Upsert(s.projections, old, row)
           t == [s EXCEPT !.projections = projections]
           d == AsStore(s)
<1>1. r.job \in Jobs /\ r.version \in Nat
  BY RequestsAssumption DEF ByJob, Methods
<1>2. ops_projections(s, r, known) = Ok(t)
  BY DEF ops_projections
<1>3. projections \in SUBSET [job : Jobs, version : Nat]
  BY <1>1 DEF Upsert, Sound, Tables
<1>4. t \in Tables /\ t.projections = projections /\ t.events = s.events
  BY <1>3 DEF Sound, Tables
<1>5. Sound(t)
  BY <1>4, NumberedStays DEF Sound
<1>6. Contract!Expected(d.versions[r.job], r.expected)
  <2>1. d.versions[r.job] = {x.version : x \in old}
    BY <1>1, VersionsOfStore DEF VersionsOf
  <2>2. \A x \in old : x.version = r.expected
    BY DEF put_projection_refuses
  <2>3. old = {} => r.expected = 0
    BY DEF put_projection_refuses
  <2> HIDE DEF old, d
  <2> QED BY <2>1, <2>2, <2>3 DEF Contract!Expected
<1>7. Contract!ProjectionStore(d, r)
        = Contract!Ok([d EXCEPT !.versions[r.job] = {r.version}])
  BY <1>6 DEF Contract!ProjectionStore
<1>8. VersionsOf(t, r.job) = {r.version}
  <2>1. OfJob(t.projections, r.job) = {row}
    BY <1>4 DEF OfJob, Upsert
  <2> QED BY <2>1 DEF VersionsOf
<1>9. \A j \in Jobs \ {r.job} : VersionsOf(t, j) = VersionsOf(s, j)
  <2> SUFFICES ASSUME NEW j \in Jobs \ {r.job}
               PROVE  VersionsOf(t, j) = VersionsOf(s, j)
    OBVIOUS
  <2>1. OfJob(t.projections, j) = OfJob(s.projections, j)
    BY <1>4 DEF OfJob, Upsert
  <2> QED BY <2>1 DEF VersionsOf
<1>10. \A x : AsStore([s EXCEPT !.projections = x]) =
                [AsStore(s) EXCEPT !.versions =
                   AsStore([s EXCEPT !.projections = x]).versions]
  BY OneTable DEF Sound
<1>11. AsStore(t) = [d EXCEPT !.versions = AsStore(t).versions]
  BY <1>10
<1> HIDE DEF t
<1>12. AsStore(t).versions = [d.versions EXCEPT ![r.job] = {r.version}]
  <2>1. AsStore(t).versions =
          [AsStore(s).versions EXCEPT ![r.job] = VersionsOf(t, r.job)]
    BY <1>1, <1>9, OneVersion
  <2> QED BY <1>8, <2>1
<1> HIDE DEF d
<1>13. Contract!ProjectionStore(d, r) = Contract!Ok(AsStore(t))
  BY <1>7, <1>11, <1>12
<1> QED BY <1>2, <1>5, <1>13, CarriedOk DEF d

(* A rebuild that can read its rows goes through the log of the contract. *)
LEMMA RebuildCarried ==
  ASSUME NEW s, Sound(s), NEW r, r.job \in Jobs, r.op = "rebuild_projection",
         NEW known
  PROVE  Carried(rebuild(s, r.job, known),
                 Contract!ProjectionStore(AsStore(s), r), s)
<1> DEFINE rows == OfJob(s.events, r.job)
           log == Log(s, r.job)
           unreadable == deserialised(rows, known, s).ans.err # "none"
           c == Contract!ProjectionStore(AsStore(s), r)
<1>1. /\ AsStore(s).events[r.job] = log
      /\ MaxSequence(s, r.job) \in Nat
      /\ log \in Seq(STRING) /\ Len(log) = MaxSequence(s, r.job)
      /\ \A e \in rows : e.seq \in 1..MaxSequence(s, r.job)
      /\ \A n \in 1..MaxSequence(s, r.job) : \E e \in rows : e.seq = n
  BY EventOf, LogIs
<1>2. rows = {} <=> log = << >>
  BY <1>1
<1>3. log # << >> => Head(log) = log[1]
  BY <1>1
<1>4. c = IF log = << >> THEN Contract!Error("NotFound", AsStore(s))
          ELSE IF Head(log) # "job_created" THEN Contract!Error("Corrupt", AsStore(s))
          ELSE Contract!Value({log}, AsStore(s))
  BY <1>1 DEF Contract!ProjectionStore
<1>5. rebuild(s, r.job, known) =
        IF unreadable THEN Error("Corrupt", s)
        ELSE IF rows = {} THEN Error("NotFound", s)
        ELSE IF log[1] # "job_created" THEN Error("Corrupt", s)
        ELSE Value({log}, s)
  BY DEF rebuild
<1> HIDE DEF rows, log, unreadable, c
<1>6. CASE rebuild(s, r.job, known) = Error("Corrupt", s)
  BY <1>6, CarriedUnexplained DEF c
<1>7. CASE ~unreadable /\ rows = {}
  <2>1. rebuild(s, r.job, known) = Error("NotFound", s)
        /\ c = Contract!Error("NotFound", AsStore(s))
    BY <1>2, <1>4, <1>5, <1>7
  <2> QED BY <2>1, CarriedError DEF c
<1>8. CASE ~unreadable /\ rows # {} /\ log[1] = "job_created"
  <2>1. rebuild(s, r.job, known) = Value({log}, s)
        /\ c = Contract!Value({log}, AsStore(s))
    BY <1>2, <1>3, <1>4, <1>5, <1>8
  <2> QED BY <2>1, CarriedValue DEF c
<1> QED BY <1>5, <1>6, <1>7, <1>8

LEMMA ProjectionCarried ==
  ASSUME NEW s, Sound(s), NEW r \in Requests, r.trait = "ProjectionStore",
         ~Refuses(s, r), NEW known
  PROVE  Carried(ops_projections(s, r, known),
                 Contract!ProjectionStore(AsStore(s), r), s)
<1>1. r.op \in Methods.ProjectionStore
  BY MethodOf
<1>2. r.job \in Jobs
  BY <1>1, RequestsAssumption DEF ByJob
<1>3. CASE r.op = "get_projection"
  <2>1. AsStore(s).versions[r.job] = VersionsOf(s, r.job)
    BY <1>2, VersionsOfStore
  <2>2. /\ ops_projections(s, r, known) = Fetch(VersionsOf(s, r.job), s)
        /\ Contract!ProjectionStore(AsStore(s), r)
             = Contract!Fetch(VersionsOf(s, r.job), AsStore(s))
    BY <1>3, <2>1 DEF ops_projections, Contract!ProjectionStore, VersionsOf
  <2> QED BY <2>2, CarriedFetch
<1>4. CASE r.op = "put_projection"
  BY <1>4, PutProjectionCarried DEF Refuses
<1>5. CASE r.op = "rebuild_projection"
  <2>1. ops_projections(s, r, known) = rebuild(s, r.job, known)
    BY <1>5 DEF ops_projections
  <2> QED BY <1>2, <1>5, <2>1, RebuildCarried
<1> QED BY <1>1, <1>3, <1>4, <1>5 DEF Methods

-----------------------------------------------------------------------------
(* Candidates.                                                             *)

SourceOf(s, i) == {[job |-> x.job, fp |-> x.fp] : x \in WithId(s.source_candidates, i)}
ActiveOf(s, j) == {x.id : x \in OfJob(s.active_source_candidates, j)}

LEMMA SourcesOfStore ==
  ASSUME NEW s
  PROVE  /\ AsStore(s).sources = [i \in Ids |-> SourceOf(s, i)]
         /\ \A i \in Ids : AsStore(s).sources[i] = SourceOf(s, i)
         /\ AsStore(s).active = [j \in Jobs |-> ActiveOf(s, j)]
         /\ \A j \in Jobs : AsStore(s).active[j] = ActiveOf(s, j)
<1>1. AsStore(s).sources = [i \in Ids |-> SourceOf(s, i)]
  BY DEF AsStore, SourceOf
<1>2. AsStore(s).active = [j \in Jobs |-> ActiveOf(s, j)]
  BY DEF AsStore, ActiveOf
<1> QED BY <1>1, <1>2

LEMMA OneSource ==
  ASSUME NEW s, NEW t, NEW id \in Ids,
         \A i \in Ids \ {id} : SourceOf(t, i) = SourceOf(s, i)
  PROVE  AsStore(t).sources = [AsStore(s).sources EXCEPT ![id] = SourceOf(t, id)]
<1>1. AsStore(t).sources = [i \in Ids |-> SourceOf(t, i)]
  BY SourcesOfStore
<1>2. AsStore(s).sources = [i \in Ids |-> SourceOf(s, i)]
  BY SourcesOfStore
<1> QED BY <1>1, <1>2

LEMMA OneActive ==
  ASSUME NEW s, NEW t, NEW job \in Jobs,
         \A j \in Jobs \ {job} : ActiveOf(t, j) = ActiveOf(s, j)
  PROVE  AsStore(t).active = [AsStore(s).active EXCEPT ![job] = ActiveOf(t, job)]
<1>1. AsStore(t).active = [j \in Jobs |-> ActiveOf(t, j)]
  BY SourcesOfStore
<1>2. AsStore(s).active = [j \in Jobs |-> ActiveOf(s, j)]
  BY SourcesOfStore
<1> QED BY <1>1, <1>2

(* The candidates of a field's value, in the rows and in the contract. *)
LEMMA SourcesWith ==
  ASSUME NEW s, Sound(s), NEW x
  PROVE  /\ {i \in Ids : \E y \in AsStore(s).sources[i] : y.job = x}
              = {y.id : y \in OfJob(s.source_candidates, x)}
         /\ Contract!OfFingerprint(AsStore(s), x)
              = {z.id : z \in {y \in s.source_candidates : y.fp = x}}
<1>1. \A y \in s.source_candidates : y.id \in Ids
  BY DEF Sound, Tables
<1>2. \A i \in Ids : AsStore(s).sources[i] = SourceOf(s, i)
  BY SourcesOfStore
<1>3. ASSUME NEW i \in Ids, NEW y \in SourceOf(s, i)
      PROVE  \E z \in s.source_candidates : z.id = i /\ z.job = y.job /\ z.fp = y.fp
  <2>1. PICK z \in WithId(s.source_candidates, i) : y = [job |-> z.job, fp |-> z.fp]
    BY DEF SourceOf
  <2> QED BY <2>1 DEF WithId
<1>4. ASSUME NEW z \in s.source_candidates
      PROVE  \E y \in SourceOf(s, z.id) : z.job = y.job /\ z.fp = y.fp
  <2>1. z \in WithId(s.source_candidates, z.id)
    BY DEF WithId
  <2>2. [job |-> z.job, fp |-> z.fp] \in SourceOf(s, z.id)
    BY <2>1 DEF SourceOf
  <2> QED BY <2>2
<1>5. {i \in Ids : \E y \in SourceOf(s, i) : y.job = x}
        = {y.id : y \in OfJob(s.source_candidates, x)}
  <2>1. ASSUME NEW i \in Ids, NEW y \in SourceOf(s, i), y.job = x
        PROVE  \E z \in OfJob(s.source_candidates, x) : i = z.id
    BY <1>3, <2>1 DEF OfJob
  <2>2. ASSUME NEW z \in OfJob(s.source_candidates, x)
        PROVE  z.id \in Ids /\ \E y \in SourceOf(s, z.id) : y.job = x
    BY <1>1, <1>4 DEF OfJob
  <2> QED BY <2>1, <2>2
<1>6. {i \in Ids : \E y \in SourceOf(s, i) : y.fp = x}
        = {z.id : z \in {y \in s.source_candidates : y.fp = x}}
  <2> DEFINE chosen == {y \in s.source_candidates : y.fp = x}
  <2>1. ASSUME NEW i \in Ids, NEW y \in SourceOf(s, i), y.fp = x
        PROVE  \E z \in chosen : i = z.id
    BY <1>3, <2>1
  <2>2. ASSUME NEW z \in chosen
        PROVE  z.id \in Ids /\ \E y \in SourceOf(s, z.id) : y.fp = x
    BY <1>1, <1>4
  <2> HIDE DEF chosen
  <2>3. {i \in Ids : \E y \in SourceOf(s, i) : y.fp = x} = {z.id : z \in chosen}
    BY <2>1, <2>2
  <2> QED BY <2>3 DEF chosen
<1>7. {i \in Ids : \E y \in AsStore(s).sources[i] : y.job = x}
        = {i \in Ids : \E y \in SourceOf(s, i) : y.job = x}
  BY <1>2
<1>8. Contract!OfFingerprint(AsStore(s), x)
        = {i \in Ids : \E y \in SourceOf(s, i) : y.fp = x}
  BY <1>2 DEF Contract!OfFingerprint
<1> QED BY <1>5, <1>6, <1>7, <1>8

LEMMA PutSourceCarried ==
  ASSUME NEW s, Sound(s), NEW r, r.op = "put_source_candidate",
         r.job \in Jobs, r.id \in Ids, r.fp \in Fingerprints
  PROVE  Carried(put_source(s, r), Contract!CandidateStore(AsStore(s), r), s)
<1> DEFINE old == WithId(s.source_candidates, r.id)
           row == [id |-> r.id, job |-> r.job, fp |-> r.fp]
           rows == Upsert(s.source_candidates, old, row)
           t == [s EXCEPT !.source_candidates = rows]
           d == AsStore(s)
           holds == /\ HasJob(s, r.job)
                    /\ \A x \in s.source_candidates : x.fp = r.fp => x.id = r.id
           new == {[job |-> r.job, fp |-> r.fp]}
<1>1. put_source(s, r) = Constrained(holds, s, t)
  BY DEF put_source
<1>2. rows \in SUBSET [id : Ids, job : Jobs, fp : Fingerprints]
  BY DEF Upsert, Sound, Tables
<1>3. t \in Tables /\ t.source_candidates = rows /\ t.events = s.events
  BY <1>2 DEF Sound, Tables
<1>4. Sound(t)
  BY <1>3, NumberedStays DEF Sound
<1>5. SourceOf(t, r.id) = new
  <2>1. WithId(t.source_candidates, r.id) = {row}
    BY <1>3 DEF WithId, Upsert
  <2> QED BY <2>1 DEF SourceOf
<1>6. \A i \in Ids \ {r.id} : SourceOf(t, i) = SourceOf(s, i)
  <2> SUFFICES ASSUME NEW i \in Ids \ {r.id}
               PROVE  SourceOf(t, i) = SourceOf(s, i)
    OBVIOUS
  <2>1. WithId(t.source_candidates, i) = WithId(s.source_candidates, i)
    BY <1>3 DEF WithId, Upsert
  <2> QED BY <2>1 DEF SourceOf
<1>7. \A x : AsStore([s EXCEPT !.source_candidates = x]) =
               [AsStore(s) EXCEPT !.sources =
                  AsStore([s EXCEPT !.source_candidates = x]).sources]
  BY OneTable DEF Sound
<1>8. AsStore(t) = [d EXCEPT !.sources = AsStore(t).sources]
  BY <1>7
<1> HIDE DEF t, new
<1>9. AsStore(t).sources = [d.sources EXCEPT ![r.id] = new]
  <2>1. AsStore(t).sources = [AsStore(s).sources EXCEPT ![r.id] = SourceOf(t, r.id)]
    BY <1>6, OneSource
  <2> QED BY <1>5, <2>1
<1>10. ASSUME holds
       PROVE  Contract!CandidateStore(d, r) = Contract!Ok(AsStore(t))
  <2>1. Contract!OfFingerprint(d, r.fp) \subseteq {r.id}
    BY <1>10, SourcesWith
  <2> HIDE DEF d
  <2>2. Contract!CandidateStore(d, r)
          = Contract!Ok([d EXCEPT !.sources[r.id] = {[job |-> r.job, fp |-> r.fp]}])
    BY <2>1 DEF Contract!CandidateStore
  <2> QED BY <1>8, <1>9, <2>2 DEF new
<1> HIDE DEF holds, d
<1> QED BY <1>1, <1>4, <1>10, CarriedConstrained DEF d

LEMMA SetActiveCarried ==
  ASSUME NEW s, Sound(s), NEW r, r.op = "set_active_source_candidate",
         r.job \in Jobs, r.id \in Ids
  PROVE  Carried(set_active_source(s, r), Contract!CandidateStore(AsStore(s), r), s)
<1> DEFINE old == OfJob(s.active_source_candidates, r.job)
           row == [job |-> r.job, id |-> r.id]
           rows == Upsert(s.active_source_candidates, old, row)
           t == [s EXCEPT !.active_source_candidates = rows]
           d == AsStore(s)
           holds == HasJob(s, r.job) /\ WithId(s.source_candidates, r.id) # {}
<1>1. set_active_source(s, r) = Constrained(holds, s, t)
  BY DEF set_active_source
<1>2. rows \in SUBSET [job : Jobs, id : Ids]
  BY DEF Upsert, Sound, Tables
<1>3. t \in Tables /\ t.active_source_candidates = rows /\ t.events = s.events
  BY <1>2 DEF Sound, Tables
<1>4. Sound(t)
  BY <1>3, NumberedStays DEF Sound
<1>5. ActiveOf(t, r.job) = {r.id}
  <2>1. OfJob(t.active_source_candidates, r.job) = {row}
    BY <1>3 DEF OfJob, Upsert
  <2> QED BY <2>1 DEF ActiveOf
<1>6. \A j \in Jobs \ {r.job} : ActiveOf(t, j) = ActiveOf(s, j)
  <2> SUFFICES ASSUME NEW j \in Jobs \ {r.job}
               PROVE  ActiveOf(t, j) = ActiveOf(s, j)
    OBVIOUS
  <2>1. OfJob(t.active_source_candidates, j) = OfJob(s.active_source_candidates, j)
    BY <1>3 DEF OfJob, Upsert
  <2> QED BY <2>1 DEF ActiveOf
<1>7. \A x : AsStore([s EXCEPT !.active_source_candidates = x]) =
               [AsStore(s) EXCEPT !.active =
                  AsStore([s EXCEPT !.active_source_candidates = x]).active]
  BY OneTable DEF Sound
<1>8. AsStore(t) = [d EXCEPT !.active = AsStore(t).active]
  BY <1>7
<1> HIDE DEF t
<1>9. AsStore(t).active = [d.active EXCEPT ![r.job] = {r.id}]
  <2>1. AsStore(t).active = [AsStore(s).active EXCEPT ![r.job] = ActiveOf(t, r.job)]
    BY <1>6, OneActive
  <2> QED BY <1>5, <2>1
<1> HIDE DEF d
<1>10. Contract!CandidateStore(d, r) = Contract!Ok([d EXCEPT !.active[r.job] = {r.id}])
  BY DEF Contract!CandidateStore
<1>11. Contract!CandidateStore(d, r) = Contract!Ok(AsStore(t))
  BY <1>8, <1>9, <1>10
<1> HIDE DEF holds
<1> QED BY <1>1, <1>4, <1>11, CarriedConstrained DEF d

LEMMA CandidateCarried ==
  ASSUME NEW s, Sound(s), NEW r \in Requests, r.trait = "CandidateStore"
  PROVE  Carried(ops_candidates(s, r), Contract!CandidateStore(AsStore(s), r), s)
<1> DEFINE o == ops_candidates(s, r)
           c == Contract!CandidateStore(AsStore(s), r)
<1>1. r.op \in Methods.CandidateStore
  BY MethodOf
<1>2. "release" \in Kinds
  BY DEF Kinds
<1>3. CASE r.op = "put_source_candidate"
  <2>1. r.job \in Jobs /\ r.id \in Ids /\ r.fp \in Fingerprints
    BY <1>3, RequestsAssumption DEF ByJob, ById, ByFingerprint, Puts
  <2>2. o = put_source(s, r)
    BY <1>3 DEF ops_candidates
  <2> QED BY <1>3, <2>1, <2>2, PutSourceCarried
<1>4. CASE r.op = "get_source_candidate"
  <2>1. r.id \in Ids
    BY <1>4, RequestsAssumption DEF ById
  <2>2. AsStore(s).sources[r.id] = SourceOf(s, r.id)
    BY <2>1, SourcesOfStore
  <2>3. o = Fetch(SourceOf(s, r.id), s)
    BY <1>4 DEF ops_candidates, SourceOf
  <2>4. c = Contract!Fetch(SourceOf(s, r.id), AsStore(s))
    BY <1>4, <2>2 DEF Contract!CandidateStore
  <2> QED BY <2>3, <2>4, CarriedFetch
<1>5. CASE r.op = "put_release_candidate"
  <2>1. r.job \in Jobs /\ r.id \in Ids /\ r.val \in STRING
    BY <1>5, RequestsAssumption DEF ByJob, ById, ByValue, Puts, RowPuts, RowKind
  <2>2. o = SqlPut(s, "release", r)
    BY <1>5 DEF ops_candidates
  <2>3. c = Contract!Put(AsStore(s), "release", r)
    BY <1>5 DEF Contract!CandidateStore
  <2> QED BY <1>2, <2>1, <2>2, <2>3, PutCarried
<1>6. CASE r.op = "get_release_candidate"
  <2>1. r.id \in Ids
    BY <1>6, RequestsAssumption DEF ById
  <2>2. o = SqlGet(s, "release", r)
    BY <1>6 DEF ops_candidates
  <2>3. c = Contract!Get(AsStore(s), "release", r)
    BY <1>6 DEF Contract!CandidateStore
  <2> QED BY <1>2, <2>1, <2>2, <2>3, GetCarried
<1>7. CASE r.op = "list_release_candidates_for_job"
  <2>1. o = SqlList(s, "release", r)
    BY <1>7 DEF ops_candidates
  <2>2. c = Contract!List(AsStore(s), "release", r)
    BY <1>7 DEF Contract!CandidateStore
  <2> QED BY <1>2, <2>1, <2>2, ListCarried
<1>8. CASE r.op = "list_source_candidates_for_job"
  <2>1. o = Value({x.id : x \in OfJob(s.source_candidates, r.job)}, s)
    BY <1>8 DEF ops_candidates
  <2>2. c = Contract!Value({i \in Ids : \E x \in AsStore(s).sources[i] : x.job = r.job},
                           AsStore(s))
    BY <1>8 DEF Contract!CandidateStore
  <2>3. c = Contract!Value({x.id : x \in OfJob(s.source_candidates, r.job)}, AsStore(s))
    BY <2>2, SourcesWith
  <2> QED BY <2>1, <2>3, CarriedValue
<1>9. CASE r.op = "active_source_candidate"
  <2>1. r.job \in Jobs
    BY <1>9, RequestsAssumption DEF ByJob
  <2>2. AsStore(s).active[r.job] = ActiveOf(s, r.job)
    BY <2>1, SourcesOfStore
  <2>3. o = Value(ActiveOf(s, r.job), s)
    BY <1>9 DEF ops_candidates, ActiveOf
  <2>4. c = Contract!Value(ActiveOf(s, r.job), AsStore(s))
    BY <1>9, <2>2 DEF Contract!CandidateStore
  <2> QED BY <2>3, <2>4, CarriedValue
<1>10. CASE r.op = "set_active_source_candidate"
  <2>1. r.job \in Jobs /\ r.id \in Ids
    BY <1>10, RequestsAssumption DEF ByJob, ById
  <2>2. o = set_active_source(s, r)
    BY <1>10 DEF ops_candidates
  <2> QED BY <1>10, <2>1, <2>2, SetActiveCarried
<1>11. CASE r.op = "find_source_by_fingerprint"
  <2>1. o = Value({x.id : x \in {y \in s.source_candidates : y.fp = r.fp}}, s)
    BY <1>11 DEF ops_candidates
  <2>2. c = Contract!Value(Contract!OfFingerprint(AsStore(s), r.fp), AsStore(s))
    BY <1>11 DEF Contract!CandidateStore
  <2>3. Contract!OfFingerprint(AsStore(s), r.fp)
          = {z.id : z \in {y \in s.source_candidates : y.fp = r.fp}}
    BY SourcesWith
  <2>4. o = Value(Contract!OfFingerprint(AsStore(s), r.fp), s)
    BY <2>1, <2>3
  <2> QED BY <2>2, <2>4, CarriedValue
<1> QED BY <1>1, <1>3, <1>4, <1>5, <1>6, <1>7, <1>8, <1>9, <1>10, <1>11 DEF Methods

-----------------------------------------------------------------------------
(* The other tables.                                                       *)

(* A call that is one of the five on rows put whole. *)
RowCall(o, c, s, kind, r) ==
  \/ /\ r.job \in Jobs /\ r.id \in Ids /\ r.val \in STRING
     /\ o = SqlPut(s, kind, r) /\ c = Contract!Put(AsStore(s), kind, r)
  \/ /\ r.id \in Ids
     /\ o = SqlGet(s, kind, r) /\ c = Contract!Get(AsStore(s), kind, r)
  \/ /\ r.id \in Ids /\ r.val \in STRING
     /\ o = SqlUpdate(s, kind, r) /\ c = Contract!Update(AsStore(s), kind, r)
  \/ o = SqlList(s, kind, r) /\ c = Contract!List(AsStore(s), kind, r)
  \/ \E val : o = SqlWith(s, kind, val) /\ c = Contract!With(AsStore(s), kind, val)

LEMMA RowCallCarried ==
  ASSUME NEW s, Sound(s), NEW kind \in Kinds, NEW r, NEW o, NEW c,
         RowCall(o, c, s, kind, r)
  PROVE  Carried(o, c, s)
BY PutCarried, GetCarried, UpdateCarried, ListCarried, WithCarried DEF RowCall

(* What a request that names a job, a record or a value gives. *)
LEMMA GivenOf ==
  ASSUME NEW r \in Requests
  PROVE  /\ r.op \in RowPuts => r.job \in Jobs /\ r.id \in Ids /\ r.val \in STRING
         /\ r.op \in ById => r.id \in Ids
         /\ r.op \in ByValue => r.val \in STRING
BY RequestsAssumption DEF ByJob, ById, ByValue, Puts

LEMMA EvidenceCarried ==
  ASSUME NEW s, Sound(s), NEW r \in Requests, r.trait = "EvidenceStore"
  PROVE  Carried(ops_evidence(s, r), Contract!EvidenceStore(AsStore(s), r), s)
<1> DEFINE o == ops_evidence(s, r)
           c == Contract!EvidenceStore(AsStore(s), r)
<1>1. r.op \in Methods.EvidenceStore
  BY MethodOf
<1>2. "evidence" \in Kinds
  BY DEF Kinds
<1>3. CASE r.op = "put_evidence"
  <2>1. RowCall(o, c, s, "evidence", r)
    BY <1>3, GivenOf DEF RowCall, ops_evidence, Contract!EvidenceStore, RowPuts, RowKind
  <2> QED BY <1>2, <2>1, RowCallCarried
<1>4. CASE r.op = "get_evidence"
  <2>1. RowCall(o, c, s, "evidence", r)
    BY <1>4, GivenOf DEF RowCall, ops_evidence, Contract!EvidenceStore, ById
  <2> QED BY <1>2, <2>1, RowCallCarried
<1>5. CASE r.op = "list_evidence_for_job"
  <2>1. RowCall(o, c, s, "evidence", r)
    BY <1>5, GivenOf DEF RowCall, ops_evidence, Contract!EvidenceStore
  <2> QED BY <1>2, <2>1, RowCallCarried
<1>6. CASE r.op = "list_evidence_for_candidate"
  <2>1. RowCall(o, c, s, "evidence", r)
    BY <1>6, GivenOf DEF RowCall, ops_evidence, Contract!EvidenceStore
  <2> QED BY <1>2, <2>1, RowCallCarried
<1> QED BY <1>1, <1>3, <1>4, <1>5, <1>6 DEF Methods

LEMMA ObligationCarried ==
  ASSUME NEW s, Sound(s), NEW r \in Requests, r.trait = "ObligationStore"
  PROVE  Carried(ops_obligations(s, r), Contract!ObligationStore(AsStore(s), r), s)
<1> DEFINE o == ops_obligations(s, r)
           c == Contract!ObligationStore(AsStore(s), r)
<1>1. r.op \in Methods.ObligationStore
  BY MethodOf
<1>2. "obligation" \in Kinds
  BY DEF Kinds
<1>3. CASE r.op = "put_obligation"
  <2>1. RowCall(o, c, s, "obligation", r)
    BY <1>3, GivenOf DEF RowCall, ops_obligations, Contract!ObligationStore, RowPuts, RowKind
  <2> QED BY <1>2, <2>1, RowCallCarried
<1>4. CASE r.op = "get_obligation"
  <2>1. RowCall(o, c, s, "obligation", r)
    BY <1>4, GivenOf DEF RowCall, ops_obligations, Contract!ObligationStore, ById
  <2> QED BY <1>2, <2>1, RowCallCarried
<1>5. CASE r.op = "update_obligation"
  <2>1. RowCall(o, c, s, "obligation", r)
    BY <1>5, GivenOf DEF RowCall, ops_obligations, Contract!ObligationStore, ById, ByValue
  <2> QED BY <1>2, <2>1, RowCallCarried
<1>6. CASE r.op = "list_obligations_for_job"
  <2>1. RowCall(o, c, s, "obligation", r)
    BY <1>6, GivenOf DEF RowCall, ops_obligations, Contract!ObligationStore
  <2> QED BY <1>2, <2>1, RowCallCarried
<1> QED BY <1>1, <1>3, <1>4, <1>5, <1>6 DEF Methods

LEMMA OperationCarried ==
  ASSUME NEW s, Sound(s), NEW r \in Requests, r.trait = "OperationStore"
  PROVE  Carried(ops_operations(s, r), Contract!OperationStore(AsStore(s), r), s)
<1> DEFINE o == ops_operations(s, r)
           c == Contract!OperationStore(AsStore(s), r)
<1>1. r.op \in Methods.OperationStore
  BY MethodOf
<1>2. "operation" \in Kinds
  BY DEF Kinds
<1>3. CASE r.op = "put_operation"
  <2>1. RowCall(o, c, s, "operation", r)
    BY <1>3, GivenOf DEF RowCall, ops_operations, Contract!OperationStore, RowPuts, RowKind
  <2> QED BY <1>2, <2>1, RowCallCarried
<1>4. CASE r.op = "get_operation"
  <2>1. RowCall(o, c, s, "operation", r)
    BY <1>4, GivenOf DEF RowCall, ops_operations, Contract!OperationStore, ById
  <2> QED BY <1>2, <2>1, RowCallCarried
<1>5. CASE r.op = "update_operation"
  <2>1. RowCall(o, c, s, "operation", r)
    BY <1>5, GivenOf DEF RowCall, ops_operations, Contract!OperationStore, ById, ByValue
  <2> QED BY <1>2, <2>1, RowCallCarried
<1>6. CASE r.op = "list_executing_operations"
  <2>1. RowCall(o, c, s, "operation", r)
    BY <1>6, GivenOf DEF RowCall, ops_operations, Contract!OperationStore
  <2> QED BY <1>2, <2>1, RowCallCarried
<1>7. CASE r.op = "list_operations_for_job"
  <2>1. RowCall(o, c, s, "operation", r)
    BY <1>7, GivenOf DEF RowCall, ops_operations, Contract!OperationStore
  <2> QED BY <1>2, <2>1, RowCallCarried
<1> QED BY <1>1, <1>3, <1>4, <1>5, <1>6, <1>7 DEF Methods

LEMMA CheckCarried ==
  ASSUME NEW s, Sound(s), NEW r \in Requests, r.trait = "CheckStore"
  PROVE  Carried(ops_checks(s, r), Contract!CheckStore(AsStore(s), r), s)
<1> DEFINE o == ops_checks(s, r)
           c == Contract!CheckStore(AsStore(s), r)
<1>1. r.op \in Methods.CheckStore
  BY MethodOf
<1>2. "check" \in Kinds
  BY DEF Kinds
<1>3. CASE r.op = "put_check"
  <2>1. RowCall(o, c, s, "check", r)
    BY <1>3, GivenOf DEF RowCall, ops_checks, Contract!CheckStore, RowPuts, RowKind
  <2> QED BY <1>2, <2>1, RowCallCarried
<1>4. CASE r.op = "get_check"
  <2>1. RowCall(o, c, s, "check", r)
    BY <1>4, GivenOf DEF RowCall, ops_checks, Contract!CheckStore, ById
  <2> QED BY <1>2, <2>1, RowCallCarried
<1>5. CASE r.op = "list_checks_for_job"
  <2>1. RowCall(o, c, s, "check", r)
    BY <1>5, GivenOf DEF RowCall, ops_checks, Contract!CheckStore
  <2> QED BY <1>2, <2>1, RowCallCarried
<1> QED BY <1>1, <1>3, <1>4, <1>5 DEF Methods

LEMMA ArtifactCarried ==
  ASSUME NEW s, Sound(s), NEW r \in Requests, r.trait = "ArtifactMetadataStore"
  PROVE  Carried(ops_artifacts(s, r), Contract!ArtifactMetadataStore(AsStore(s), r), s)
<1> DEFINE o == ops_artifacts(s, r)
           c == Contract!ArtifactMetadataStore(AsStore(s), r)
<1>1. r.op \in Methods.ArtifactMetadataStore
  BY MethodOf
<1>2. "artifact" \in Kinds
  BY DEF Kinds
<1>3. CASE r.op = "put_artifact"
  <2>1. RowCall(o, c, s, "artifact", r)
    BY <1>3, GivenOf DEF RowCall, ops_artifacts, Contract!ArtifactMetadataStore, RowPuts, RowKind
  <2> QED BY <1>2, <2>1, RowCallCarried
<1>4. CASE r.op = "get_artifact"
  <2>1. RowCall(o, c, s, "artifact", r)
    BY <1>4, GivenOf DEF RowCall, ops_artifacts, Contract!ArtifactMetadataStore, ById
  <2> QED BY <1>2, <2>1, RowCallCarried
<1>5. CASE r.op = "artifact_exists"
  <2>1. r.id \in Ids
    BY <1>5, GivenOf DEF ById
  <2>2. AsStore(s).rows["artifact"][r.id] = RowsOf(s, "artifact", r.id)
    BY <1>2, <2>1, RowsOfStore
  <2>3. RowsOf(s, "artifact", r.id) = {} <=> WithId(Table(s, "artifact"), r.id) = {}
    BY DEF RowsOf
  <2>4. o = Value({WithId(Table(s, "artifact"), r.id) # {}}, s)
    BY <1>5 DEF ops_artifacts
  <2>5. c = Contract!Value({RowsOf(s, "artifact", r.id) # {}}, AsStore(s))
    BY <1>5, <2>2 DEF Contract!ArtifactMetadataStore
  <2>6. {RowsOf(s, "artifact", r.id) # {}} = {WithId(Table(s, "artifact"), r.id) # {}}
    BY <2>3
  <2> QED BY <2>4, <2>5, <2>6, CarriedValue
<1>6. CASE r.op = "list_artifacts_for_job"
  <2>1. RowCall(o, c, s, "artifact", r)
    BY <1>6, GivenOf DEF RowCall, ops_artifacts, Contract!ArtifactMetadataStore
  <2> QED BY <1>2, <2>1, RowCallCarried
<1> QED BY <1>1, <1>3, <1>4, <1>5, <1>6 DEF Methods

ResultOf(s, g, f) == {x.val : x \in ResultsOf(s, g, f)}

LEMMA ResultsOfStore ==
  ASSUME NEW s
  PROVE  /\ AsStore(s).results =
              [g \in Ids |-> [f \in Fingerprints |-> ResultOf(s, g, f)]]
         /\ \A g \in Ids, f \in Fingerprints :
              AsStore(s).results[g][f] = ResultOf(s, g, f)
<1>1. AsStore(s).results = [g \in Ids |-> [f \in Fingerprints |-> ResultOf(s, g, f)]]
  BY DEF AsStore, ResultOf
<1> QED BY <1>1

OtherResultsStay(s, t, gate, fp) ==
  \A g \in Ids, f \in Fingerprints :
    g # gate \/ f # fp => ResultOf(t, g, f) = ResultOf(s, g, f)

LEMMA OneResult ==
  ASSUME NEW s, NEW t, NEW gate \in Ids, NEW fp \in Fingerprints,
         OtherResultsStay(s, t, gate, fp)
  PROVE  AsStore(t).results =
           [AsStore(s).results EXCEPT ![gate][fp] = ResultOf(t, gate, fp)]
<1> DEFINE a == [g \in Ids |-> [f \in Fingerprints |-> ResultOf(s, g, f)]]
           b == [g \in Ids |-> [f \in Fingerprints |-> ResultOf(t, g, f)]]
           h == [a EXCEPT ![gate][fp] = ResultOf(t, gate, fp)]
<1>1. DOMAIN h = Ids /\ h = [g \in Ids |-> h[g]]
  OBVIOUS
<1>2. ASSUME NEW g \in Ids PROVE h[g] = b[g]
  <2>1. CASE g = gate
    <3>0. \A f \in Fingerprints \ {fp} : ResultOf(t, g, f) = ResultOf(s, g, f)
      BY <2>1 DEF OtherResultsStay
    <3>1. h[g] = [a[g] EXCEPT ![fp] = ResultOf(t, gate, fp)]
      BY <2>1
    <3>2. /\ a[g] = [f \in Fingerprints |-> ResultOf(s, g, f)]
          /\ b[g] = [f \in Fingerprints |-> ResultOf(t, g, f)]
      OBVIOUS
    <3> HIDE DEF a, b, h
    <3> QED BY <2>1, <3>0, <3>1, <3>2
  <2>2. CASE g # gate
    <3>1. /\ h[g] = [f \in Fingerprints |-> ResultOf(s, g, f)]
          /\ b[g] = [f \in Fingerprints |-> ResultOf(t, g, f)]
      BY <2>2
    <3>2. \A f \in Fingerprints : ResultOf(t, g, f) = ResultOf(s, g, f)
      BY <2>2 DEF OtherResultsStay
    <3> HIDE DEF a, b, h
    <3> QED BY <3>1, <3>2
  <2> QED BY <2>1, <2>2
<1>3. AsStore(s).results = a /\ AsStore(t).results = b
  BY ResultsOfStore
<1>4. b = [g \in Ids |-> b[g]]
  OBVIOUS
<1>5. h = b
  <2> HIDE DEF a, b, h
  <2> QED BY <1>1, <1>2, <1>4
<1> HIDE DEF a, b
<1> QED BY <1>3, <1>5

LEMMA ResultCarried ==
  ASSUME NEW s, Sound(s), NEW r \in Requests,
         r.op \in {"put_gate_result", "get_gate_result"}
  PROVE  Carried(ops_gates(s, r), Contract!GateStore(AsStore(s), r), s)
<1>1. r.id \in Ids /\ r.fp \in Fingerprints
  BY RequestsAssumption DEF ById, ByFingerprint
<1>2. CASE r.op = "get_gate_result"
  <2>1. ops_gates(s, r) = Fetch(ResultOf(s, r.id, r.fp), s)
    BY <1>2 DEF ops_gates, ResultOf
  <2>2. Contract!GateStore(AsStore(s), r)
          = Contract!Fetch(ResultOf(s, r.id, r.fp), AsStore(s))
    BY <1>1, <1>2, ResultsOfStore DEF Contract!GateStore
  <2> QED BY <2>1, <2>2, CarriedFetch
<1>3. CASE r.op = "put_gate_result"
  <2> DEFINE old == ResultsOf(s, r.id, r.fp)
             row == [gate |-> r.id, fp |-> r.fp, val |-> r.val]
             rows == Upsert(s.gate_results, old, row)
             t == [s EXCEPT !.gate_results = rows]
             d == AsStore(s)
             holds == WithId(Table(s, "gate"), r.id) # {}
  <2>1. ops_gates(s, r) = Constrained(holds, s, t)
    BY <1>3 DEF ops_gates
  <2>2. r.val \in STRING
    BY <1>3, GivenOf DEF ByValue
  <2>3. rows \in SUBSET [gate : Ids, fp : Fingerprints, val : STRING]
    BY <1>1, <2>2 DEF Upsert, Sound, Tables
  <2>4. t \in Tables /\ t.gate_results = rows /\ t.events = s.events
    BY <2>3 DEF Sound, Tables
  <2>5. Sound(t)
    BY <2>4, NumberedStays DEF Sound
  <2>6. ResultOf(t, r.id, r.fp) = {r.val}
    <3>1. ResultsOf(t, r.id, r.fp) = {row}
      BY <2>4 DEF ResultsOf, Upsert
    <3> QED BY <3>1 DEF ResultOf
  <2>7. OtherResultsStay(s, t, r.id, r.fp)
    <3> SUFFICES ASSUME NEW g \in Ids, NEW f \in Fingerprints, g # r.id \/ f # r.fp
                 PROVE  ResultOf(t, g, f) = ResultOf(s, g, f)
      BY DEF OtherResultsStay
    <3>1. ResultsOf(t, g, f) = ResultsOf(s, g, f)
      BY <2>4 DEF ResultsOf, Upsert
    <3> QED BY <3>1 DEF ResultOf
  <2>8. \A x : AsStore([s EXCEPT !.gate_results = x]) =
                 [AsStore(s) EXCEPT !.results =
                    AsStore([s EXCEPT !.gate_results = x]).results]
    BY OneTable DEF Sound
  <2>9. AsStore(t) = [d EXCEPT !.results = AsStore(t).results]
    BY <2>8
  <2> HIDE DEF t, rows, row, old
  <2>10. AsStore(t).results = [d.results EXCEPT ![r.id][r.fp] = {r.val}]
    <3>1. AsStore(t).results =
            [AsStore(s).results EXCEPT ![r.id][r.fp] = ResultOf(t, r.id, r.fp)]
      BY <1>1, <2>7, OneResult
    <3> QED BY <2>6, <3>1
  <2> HIDE DEF d
  <2>11. Contract!GateStore(d, r) = Contract!Ok([d EXCEPT !.results[r.id][r.fp] = {r.val}])
    BY <1>3 DEF Contract!GateStore
  <2>12. Contract!GateStore(d, r) = Contract!Ok(AsStore(t))
    BY <2>9, <2>10, <2>11
  <2> HIDE DEF holds
  <2> QED BY <2>1, <2>5, <2>12, CarriedConstrained DEF d
<1> QED BY <1>2, <1>3

LEMMA GateCarried ==
  ASSUME NEW s, Sound(s), NEW r \in Requests, r.trait = "GateStore"
  PROVE  Carried(ops_gates(s, r), Contract!GateStore(AsStore(s), r), s)
<1> DEFINE o == ops_gates(s, r)
           c == Contract!GateStore(AsStore(s), r)
<1>1. r.op \in Methods.GateStore
  BY MethodOf
<1>2. "gate" \in Kinds
  BY DEF Kinds
<1>3. CASE r.op = "put_gate_definition"
  <2>1. RowCall(o, c, s, "gate", r)
    BY <1>3, GivenOf DEF RowCall, ops_gates, Contract!GateStore, RowPuts, RowKind
  <2> QED BY <1>2, <2>1, RowCallCarried
<1>4. CASE r.op = "get_gate_definition"
  <2>1. RowCall(o, c, s, "gate", r)
    BY <1>4, GivenOf DEF RowCall, ops_gates, Contract!GateStore, ById
  <2> QED BY <1>2, <2>1, RowCallCarried
<1>5. CASE r.op \in {"put_gate_result", "get_gate_result"}
  BY <1>5, ResultCarried
<1>6. CASE r.op = "list_gates_for_job"
  <2>1. RowCall(o, c, s, "gate", r)
    BY <1>6, GivenOf DEF RowCall, ops_gates, Contract!GateStore
  <2> QED BY <1>2, <2>1, RowCallCarried
<1> QED BY <1>1, <1>3, <1>4, <1>5, <1>6 DEF Methods

WorkspaceOf(s, h) ==
  {[job |-> x.job, revision |-> x.revision] : x \in WithId(s.workspace_metadata, h)}

LEMMA WorkspacesOfStore ==
  ASSUME NEW s
  PROVE  /\ AsStore(s).workspaces = [h \in Ids |-> WorkspaceOf(s, h)]
         /\ \A h \in Ids : AsStore(s).workspaces[h] = WorkspaceOf(s, h)
<1>1. AsStore(s).workspaces = [h \in Ids |-> WorkspaceOf(s, h)]
  BY DEF AsStore, WorkspaceOf
<1> QED BY <1>1

LEMMA OneWorkspace ==
  ASSUME NEW s, NEW t, NEW id \in Ids,
         \A h \in Ids \ {id} : WorkspaceOf(t, h) = WorkspaceOf(s, h)
  PROVE  AsStore(t).workspaces =
           [AsStore(s).workspaces EXCEPT ![id] = WorkspaceOf(t, id)]
<1>1. AsStore(t).workspaces = [h \in Ids |-> WorkspaceOf(t, h)]
  BY WorkspacesOfStore
<1>2. AsStore(s).workspaces = [h \in Ids |-> WorkspaceOf(s, h)]
  BY WorkspacesOfStore
<1> QED BY <1>1, <1>2

LEMMA PutWorkspaceCarried ==
  ASSUME NEW s, Sound(s), NEW r \in Requests, r.op = "put_workspace_state",
         ~put_workspace_refuses(s, r)
  PROVE  Carried(ops_workspaces(s, r),
                 Contract!WorkspaceMetadataStore(AsStore(s), r), s)
<1> DEFINE old == WithId(s.workspace_metadata, r.id)
           row == [id |-> r.id, job |-> r.job, revision |-> r.revision]
           rows == Upsert(s.workspace_metadata, old, row)
           t == [s EXCEPT !.workspace_metadata = rows]
           d == AsStore(s)
           new == {[job |-> r.job, revision |-> r.revision]}
           found == {x.revision : x \in d.workspaces[r.id]}
<1>1. r.job \in Jobs /\ r.id \in Ids /\ r.revision \in Nat
  BY RequestsAssumption DEF ByJob, ById, Puts
<1>2. ops_workspaces(s, r) = Constrained(HasJob(s, r.job), s, t)
  BY DEF ops_workspaces
<1>3. rows \in SUBSET [id : Ids, job : Jobs, revision : Nat]
  BY <1>1 DEF Upsert, Sound, Tables
<1>4. t \in Tables /\ t.workspace_metadata = rows /\ t.events = s.events
  BY <1>3 DEF Sound, Tables
<1>5. Sound(t)
  BY <1>4, NumberedStays DEF Sound
<1>6. Contract!Expected(found, r.expected)
  <2>1. d.workspaces[r.id] = {[job |-> x.job, revision |-> x.revision] : x \in old}
    BY <1>1, WorkspacesOfStore DEF WorkspaceOf
  <2>2. \A x \in old : x.revision = r.expected
    BY DEF put_workspace_refuses
  <2>3. old = {} => r.expected = 0
    BY DEF put_workspace_refuses
  <2> HIDE DEF old, d
  <2>4. \A y \in d.workspaces[r.id] : y.revision = r.expected
    BY <2>1, <2>2
  <2>5. d.workspaces[r.id] = {} => old = {}
    BY <2>1
  <2> QED BY <2>3, <2>4, <2>5 DEF Contract!Expected
<1>7. WorkspaceOf(t, r.id) = new
  <2>1. WithId(t.workspace_metadata, r.id) = {row}
    BY <1>4 DEF WithId, Upsert
  <2> QED BY <2>1 DEF WorkspaceOf
<1>8. \A h \in Ids \ {r.id} : WorkspaceOf(t, h) = WorkspaceOf(s, h)
  <2> SUFFICES ASSUME NEW h \in Ids \ {r.id}
               PROVE  WorkspaceOf(t, h) = WorkspaceOf(s, h)
    OBVIOUS
  <2>1. WithId(t.workspace_metadata, h) = WithId(s.workspace_metadata, h)
    BY <1>4 DEF WithId, Upsert
  <2> QED BY <2>1 DEF WorkspaceOf
<1>9. \A x : AsStore([s EXCEPT !.workspace_metadata = x]) =
               [AsStore(s) EXCEPT !.workspaces =
                  AsStore([s EXCEPT !.workspace_metadata = x]).workspaces]
  BY OneTable DEF Sound
<1>10. AsStore(t) = [d EXCEPT !.workspaces = AsStore(t).workspaces]
  BY <1>9
<1> HIDE DEF t, new
<1>11. AsStore(t).workspaces = [d.workspaces EXCEPT ![r.id] = new]
  <2>1. AsStore(t).workspaces =
          [AsStore(s).workspaces EXCEPT ![r.id] = WorkspaceOf(t, r.id)]
    BY <1>1, <1>8, OneWorkspace
  <2> QED BY <1>7, <2>1
<1> HIDE DEF d
<1>12. Contract!WorkspaceMetadataStore(d, r)
         = Contract!Ok([d EXCEPT !.workspaces[r.id] =
                          {[job |-> r.job, revision |-> r.revision]}])
  BY <1>6 DEF Contract!WorkspaceMetadataStore
<1>13. Contract!WorkspaceMetadataStore(d, r) = Contract!Ok(AsStore(t))
  BY <1>10, <1>11, <1>12 DEF new
<1> QED BY <1>2, <1>5, <1>13, CarriedConstrained DEF d

LEMMA WorkspaceListIs ==
  ASSUME NEW s, Sound(s), NEW job
  PROVE  {h \in Ids : \E x \in AsStore(s).workspaces[h] : x.job = job}
           = {x.id : x \in OfJob(s.workspace_metadata, job)}
<1>1. \A y \in s.workspace_metadata : y.id \in Ids
  BY DEF Sound, Tables
<1>2. \A h \in Ids : AsStore(s).workspaces[h] = WorkspaceOf(s, h)
  BY WorkspacesOfStore
<1>3. ASSUME NEW h \in Ids, NEW x \in AsStore(s).workspaces[h], x.job = job
      PROVE  \E y \in OfJob(s.workspace_metadata, job) : h = y.id
  <2>1. PICK y \in WithId(s.workspace_metadata, h) :
          x = [job |-> y.job, revision |-> y.revision]
    BY <1>2, <1>3 DEF WorkspaceOf
  <2> QED BY <1>3, <2>1 DEF WithId, OfJob
<1>4. ASSUME NEW y \in OfJob(s.workspace_metadata, job)
      PROVE  y.id \in Ids /\ \E x \in AsStore(s).workspaces[y.id] : x.job = job
  <2>1. y.id \in Ids /\ y.job = job /\ y \in WithId(s.workspace_metadata, y.id)
    BY <1>1 DEF OfJob, WithId
  <2>2. [job |-> y.job, revision |-> y.revision] \in WorkspaceOf(s, y.id)
    BY <2>1 DEF WorkspaceOf
  <2> QED BY <1>2, <2>1, <2>2
<1> QED BY <1>3, <1>4

LEMMA WorkspaceCarried ==
  ASSUME NEW s, Sound(s), NEW r \in Requests, r.trait = "WorkspaceMetadataStore",
         ~Refuses(s, r)
  PROVE  Carried(ops_workspaces(s, r),
                 Contract!WorkspaceMetadataStore(AsStore(s), r), s)
<1>1. r.op \in Methods.WorkspaceMetadataStore
  BY MethodOf
<1>2. CASE r.op = "put_workspace_state"
  BY <1>2, PutWorkspaceCarried DEF Refuses
<1>3. CASE r.op = "get_workspace_state"
  <2>1. r.id \in Ids
    BY <1>3, GivenOf DEF ById
  <2>2. ops_workspaces(s, r) = Fetch(WorkspaceOf(s, r.id), s)
    BY <1>3 DEF ops_workspaces, WorkspaceOf
  <2>3. Contract!WorkspaceMetadataStore(AsStore(s), r)
          = Contract!Fetch(WorkspaceOf(s, r.id), AsStore(s))
    BY <1>3, <2>1, WorkspacesOfStore DEF Contract!WorkspaceMetadataStore
  <2> QED BY <2>2, <2>3, CarriedFetch
<1>4. CASE r.op = "list_workspaces_for_job"
  <2>1. ops_workspaces(s, r)
          = Value({x.id : x \in OfJob(s.workspace_metadata, r.job)}, s)
    BY <1>4 DEF ops_workspaces
  <2>2. Contract!WorkspaceMetadataStore(AsStore(s), r)
          = Contract!Value({h \in Ids : \E x \in AsStore(s).workspaces[h] : x.job = r.job},
                           AsStore(s))
    BY <1>4 DEF Contract!WorkspaceMetadataStore
  <2>3. {h \in Ids : \E x \in AsStore(s).workspaces[h] : x.job = r.job}
          = {x.id : x \in OfJob(s.workspace_metadata, r.job)}
    BY WorkspaceListIs
  <2>4. Contract!WorkspaceMetadataStore(AsStore(s), r)
          = Contract!Value({x.id : x \in OfJob(s.workspace_metadata, r.job)},
                           AsStore(s))
    BY <2>2, <2>3
  <2> QED BY <2>1, <2>4, CarriedValue
<1> QED BY <1>1, <1>2, <1>3, <1>4 DEF Methods

-----------------------------------------------------------------------------
(* Every call.                                                             *)

(* A call that its compare does not refuse is carried out as the contract  *)
(* says, whatever the call and whatever the tables hold.                   *)
LEMMA SqlCarried ==
  ASSUME NEW s, Sound(s), NEW r \in Requests, ~Refuses(s, r), NEW known
  PROVE  Carried(Sql(s, r, known), Contract!Outcome(AsStore(s), r), s)
<1> DEFINE o == Sql(s, r, known)
           c == Contract!Outcome(AsStore(s), r)
<1>1. CASE r.trait = "EventStore"
  <2>1. o = ops_events(s, r, known) /\ c = Contract!EventStore(AsStore(s), r)
    BY <1>1 DEF Sql, OfJobTables, JobTables, Contract!Outcome
  <2>2. r.op = "append_event" => ~append_refuses(s, r)
    BY DEF Refuses
  <2> QED BY <1>1, <2>1, <2>2, AppendCarried, EventReadCarried
<1>2. CASE r.trait = "ProjectionStore"
  <2>1. o = ops_projections(s, r, known) /\ c = Contract!ProjectionStore(AsStore(s), r)
    BY <1>2 DEF Sql, OfJobTables, JobTables, Contract!Outcome
  <2> QED BY <1>2, <2>1, ProjectionCarried
<1>3. CASE r.trait = "CandidateStore"
  <2>1. o = ops_candidates(s, r) /\ c = Contract!CandidateStore(AsStore(s), r)
    BY <1>3 DEF Sql, OfJobTables, JobTables, Contract!Outcome
  <2> QED BY <1>3, <2>1, CandidateCarried
<1>4. CASE r.trait = "EvidenceStore"
  <2>1. o = ops_evidence(s, r) /\ c = Contract!EvidenceStore(AsStore(s), r)
    BY <1>4 DEF Sql, OfVerdictTables, JobTables, VerdictTables, Contract!Outcome
  <2> QED BY <1>4, <2>1, EvidenceCarried
<1>5. CASE r.trait = "GateStore"
  <2>1. o = ops_gates(s, r) /\ c = Contract!GateStore(AsStore(s), r)
    BY <1>5 DEF Sql, OfVerdictTables, JobTables, VerdictTables, Contract!Outcome
  <2> QED BY <1>5, <2>1, GateCarried
<1>6. CASE r.trait = "ObligationStore"
  <2>1. o = ops_obligations(s, r) /\ c = Contract!ObligationStore(AsStore(s), r)
    BY <1>6 DEF Sql, OfVerdictTables, JobTables, VerdictTables, Contract!Outcome
  <2> QED BY <1>6, <2>1, ObligationCarried
<1>7. CASE r.trait = "OperationStore"
  <2>1. o = ops_operations(s, r) /\ c = Contract!OperationStore(AsStore(s), r)
    BY <1>7 DEF Sql, OfToolTables, JobTables, VerdictTables, Contract!Outcome
  <2> QED BY <1>7, <2>1, OperationCarried
<1>8. CASE r.trait = "ArtifactMetadataStore"
  <2>1. o = ops_artifacts(s, r) /\ c = Contract!ArtifactMetadataStore(AsStore(s), r)
    BY <1>8 DEF Sql, OfToolTables, JobTables, VerdictTables, Contract!Outcome
  <2> QED BY <1>8, <2>1, ArtifactCarried
<1>9. CASE r.trait = "WorkspaceMetadataStore"
  <2>1. o = ops_workspaces(s, r) /\ c = Contract!WorkspaceMetadataStore(AsStore(s), r)
    BY <1>9 DEF Sql, OfToolTables, JobTables, VerdictTables, Contract!Outcome
  <2> QED BY <1>9, <2>1, WorkspaceCarried
<1>10. CASE r.trait = "CheckStore"
  <2>1. o = ops_checks(s, r) /\ c = Contract!CheckStore(AsStore(s), r)
    BY <1>10 DEF Sql, OfToolTables, JobTables, VerdictTables, Contract!Outcome
  <2> QED BY <1>10, <2>1, CheckCarried
<1> QED BY TraitOf, <1>1, <1>2, <1>3, <1>4, <1>5, <1>6, <1>7, <1>8, <1>9, <1>10

(* The trait a transaction is a method of. *)
LEMMA TransactionTrait ==
  ASSUME NEW r \in Requests
  PROVE  /\ r.op = "append_event" => r.trait = "EventStore"
         /\ r.op = "put_projection" => r.trait = "ProjectionStore"
         /\ r.op = "put_workspace_state" => r.trait = "WorkspaceMetadataStore"
BY TraitOf, MethodOf DEF Methods

LEMMA AppendRefused ==
  ASSUME NEW s, Sound(s), NEW r \in Requests, r.op = "append_event",
         append_refuses(s, r)
  PROVE  Contract!Outcome(AsStore(s), r)
           = [ans |-> Answered("SequenceOutOfRange", {}), after |-> AsStore(s)]
<1>1. r.trait = "EventStore" /\ r.job \in Jobs
  BY TransactionTrait, RequestsAssumption DEF ByJob, Methods
<1>2. AsStore(s).events[r.job] = Log(s, r.job)
      /\ Len(Log(s, r.job)) = MaxSequence(s, r.job)
  BY <1>1, EventOf, LogIs
<1>3. Contract!EventStore(AsStore(s), r)
        = Contract!Error("SequenceOutOfRange", AsStore(s))
  BY <1>2 DEF append_refuses, Contract!EventStore
<1>4. Contract!Outcome(AsStore(s), r) = Contract!EventStore(AsStore(s), r)
  BY <1>1 DEF Contract!Outcome
<1> QED BY <1>3, <1>4 DEF Contract!Error, Contract!Answered, Answered

LEMMA ProjectionRefused ==
  ASSUME NEW s, NEW r \in Requests, r.op = "put_projection",
         put_projection_refuses(s, r)
  PROVE  Contract!Outcome(AsStore(s), r)
           = [ans |-> Answered("Conflict", {}), after |-> AsStore(s)]
<1>1. r.trait = "ProjectionStore" /\ r.job \in Jobs
  BY TransactionTrait, RequestsAssumption DEF ByJob, Methods
<1>2. ~Contract!Expected(VersionsOf(s, r.job), r.expected)
  BY DEF put_projection_refuses, VersionsOf, Contract!Expected
<1>3. AsStore(s).versions[r.job] = VersionsOf(s, r.job)
  BY <1>1, VersionsOfStore
<1>4. Contract!ProjectionStore(AsStore(s), r) = Contract!Error("Conflict", AsStore(s))
  BY <1>2, <1>3 DEF Contract!ProjectionStore
<1>5. Contract!Outcome(AsStore(s), r) = Contract!ProjectionStore(AsStore(s), r)
  BY <1>1 DEF Contract!Outcome
<1> QED BY <1>4, <1>5 DEF Contract!Error, Contract!Answered, Answered

LEMMA WorkspaceRefused ==
  ASSUME NEW s, NEW r \in Requests, r.op = "put_workspace_state",
         put_workspace_refuses(s, r)
  PROVE  Contract!Outcome(AsStore(s), r)
           = [ans |-> Answered("Conflict", {}), after |-> AsStore(s)]
<1> DEFINE rows == WithId(s.workspace_metadata, r.id)
           found == {x.revision : x \in AsStore(s).workspaces[r.id]}
<1>1. r.trait = "WorkspaceMetadataStore" /\ r.id \in Ids
  BY TransactionTrait, RequestsAssumption DEF ById, Puts
<1>2. AsStore(s).workspaces[r.id]
        = {[job |-> x.job, revision |-> x.revision] : x \in rows}
  BY <1>1, WorkspacesOfStore DEF WorkspaceOf
<1>3. (rows = {} /\ r.expected # 0) \/ \E x \in rows : x.revision # r.expected
  BY DEF put_workspace_refuses
<1> HIDE DEF rows
<1>4. rows = {} => found = {}
  BY <1>2
<1>5. \A x \in rows : x.revision \in found
  <2> SUFFICES ASSUME NEW x \in rows PROVE x.revision \in found
    OBVIOUS
  <2>1. [job |-> x.job, revision |-> x.revision] \in AsStore(s).workspaces[r.id]
    BY <1>2
  <2> QED BY <2>1
<1> HIDE DEF found
<1>6. ~Contract!Expected(found, r.expected)
  BY <1>3, <1>4, <1>5 DEF Contract!Expected
<1>7. Contract!WorkspaceMetadataStore(AsStore(s), r)
        = Contract!Error("Conflict", AsStore(s))
  BY <1>6 DEF Contract!WorkspaceMetadataStore, found
<1>8. Contract!Outcome(AsStore(s), r) = Contract!WorkspaceMetadataStore(AsStore(s), r)
  BY <1>1 DEF Contract!Outcome
<1> QED BY <1>7, <1>8 DEF Contract!Error, Contract!Answered, Answered

(* What a method that reads leaves. *)
LEMMA ReadsKeep ==
  ASSUME NEW s, NEW r \in Requests, r.op \in Reads, NEW known
  PROVE  Sql(s, r, known).after = s
<1> DEFINE o == Sql(s, r, known)
<1>1. /\ \A rows : Fetch(rows, s).after = s
      /\ \A value : Value(value, s).after = s
      /\ \A kind : Error(kind, s).after = s
      /\ \A rows : deserialised(rows, known, s).after = s
  BY DEF Fetch, Value, Error, deserialised
<1>2. /\ \A kind : SqlGet(s, kind, r).after = s
      /\ \A kind : SqlList(s, kind, r).after = s
      /\ \A kind, val : SqlWith(s, kind, val).after = s
  BY <1>1 DEF SqlGet, SqlList, SqlWith
<1>3. CASE r.trait = "EventStore"
  <2>1. o = ops_events(s, r, known) /\ r.op \in Methods.EventStore
    BY <1>3, MethodOf DEF Sql, OfJobTables, JobTables
  <2>2. r.op \in {"get_event", "list_events_for_job", "next_sequence"}
    BY <2>1 DEF Methods, Reads
  <2> QED BY <1>1, <2>1, <2>2 DEF ops_events
<1>4. CASE r.trait = "ProjectionStore"
  <2>1. o = ops_projections(s, r, known) /\ r.op \in Methods.ProjectionStore
    BY <1>4, MethodOf DEF Sql, OfJobTables, JobTables
  <2>2. r.op \in {"get_projection", "rebuild_projection"}
    BY <2>1 DEF Methods, Reads
  <2>3. rebuild(s, r.job, known).after = s
    BY <1>1 DEF rebuild
  <2> QED BY <1>1, <2>1, <2>2, <2>3 DEF ops_projections
<1>5. CASE r.trait = "CandidateStore"
  <2>1. o = ops_candidates(s, r) /\ r.op \in Methods.CandidateStore
    BY <1>5, MethodOf DEF Sql, OfJobTables, JobTables
  <2>2. r.op \in {"get_source_candidate", "get_release_candidate",
                  "list_release_candidates_for_job",
                  "list_source_candidates_for_job",
                  "active_source_candidate", "find_source_by_fingerprint"}
    BY <2>1 DEF Methods, Reads
  <2> QED BY <1>1, <1>2, <2>1, <2>2 DEF ops_candidates
<1>6. CASE r.trait = "EvidenceStore"
  <2>1. o = ops_evidence(s, r) /\ r.op \in Methods.EvidenceStore
    BY <1>6, MethodOf DEF Sql, OfVerdictTables, JobTables, VerdictTables
  <2>2. r.op \in {"get_evidence", "list_evidence_for_job",
                  "list_evidence_for_candidate"}
    BY <2>1 DEF Methods, Reads
  <2> QED BY <1>2, <2>1, <2>2 DEF ops_evidence
<1>7. CASE r.trait = "GateStore"
  <2>1. o = ops_gates(s, r) /\ r.op \in Methods.GateStore
    BY <1>7, MethodOf DEF Sql, OfVerdictTables, JobTables, VerdictTables
  <2>2. r.op \in {"get_gate_definition", "get_gate_result", "list_gates_for_job"}
    BY <2>1 DEF Methods, Reads
  <2> QED BY <1>1, <1>2, <2>1, <2>2 DEF ops_gates
<1>8. CASE r.trait = "ObligationStore"
  <2>1. o = ops_obligations(s, r) /\ r.op \in Methods.ObligationStore
    BY <1>8, MethodOf DEF Sql, OfVerdictTables, JobTables, VerdictTables
  <2>2. r.op \in {"get_obligation", "list_obligations_for_job"}
    BY <2>1 DEF Methods, Reads
  <2> QED BY <1>2, <2>1, <2>2 DEF ops_obligations
<1>9. CASE r.trait = "OperationStore"
  <2>1. o = ops_operations(s, r) /\ r.op \in Methods.OperationStore
    BY <1>9, MethodOf DEF Sql, OfToolTables, JobTables, VerdictTables
  <2>2. r.op \in {"get_operation", "list_executing_operations",
                  "list_operations_for_job"}
    BY <2>1 DEF Methods, Reads
  <2> QED BY <1>2, <2>1, <2>2 DEF ops_operations
<1>10. CASE r.trait = "ArtifactMetadataStore"
  <2>1. o = ops_artifacts(s, r) /\ r.op \in Methods.ArtifactMetadataStore
    BY <1>10, MethodOf DEF Sql, OfToolTables, JobTables, VerdictTables
  <2>2. r.op \in {"get_artifact", "artifact_exists", "list_artifacts_for_job"}
    BY <2>1 DEF Methods, Reads
  <2> QED BY <1>1, <1>2, <2>1, <2>2 DEF ops_artifacts
<1>11. CASE r.trait = "WorkspaceMetadataStore"
  <2>1. o = ops_workspaces(s, r) /\ r.op \in Methods.WorkspaceMetadataStore
    BY <1>11, MethodOf DEF Sql, OfToolTables, JobTables, VerdictTables
  <2>2. r.op \in {"get_workspace_state", "list_workspaces_for_job"}
    BY <2>1 DEF Methods, Reads
  <2> QED BY <1>1, <2>1, <2>2 DEF ops_workspaces
<1>12. CASE r.trait = "CheckStore"
  <2>1. o = ops_checks(s, r) /\ r.op \in Methods.CheckStore
    BY <1>12, MethodOf DEF Sql, OfToolTables, JobTables, VerdictTables
  <2>2. r.op \in {"get_check", "list_checks_for_job"}
    BY <2>1 DEF Methods, Reads
  <2> QED BY <1>2, <2>1, <2>2 DEF ops_checks
<1> QED BY TraitOf, <1>3, <1>4, <1>5, <1>6, <1>7, <1>8, <1>9, <1>10, <1>11, <1>12

(* What a transaction writes does not depend on what the program reads. *)
LEMMA WritesIgnoreKnown ==
  ASSUME NEW s, NEW r \in Requests, r.op \in Transactions, NEW k, NEW l
  PROVE  Sql(s, r, k) = Sql(s, r, l)
<1>1. CASE r.op = "append_event"
  BY <1>1, TransactionTrait DEF Sql, OfJobTables, JobTables, ops_events
<1>2. CASE r.op = "put_projection"
  BY <1>2, TransactionTrait DEF Sql, OfJobTables, JobTables, ops_projections
<1>3. CASE r.op = "put_workspace_state"
  BY <1>3, TransactionTrait DEF Sql, JobTables, VerdictTables
<1> QED BY <1>1, <1>2, <1>3 DEF Transactions

-----------------------------------------------------------------------------
(* What earlier processes have left.                                       *)

(* A set of numbers that is not empty has a least one. *)
LEMMA Least ==
  ASSUME NEW T \in SUBSET Nat, T # {}
  PROVE  \E x \in T : \A y \in T : x <= y
<1> DEFINE R == OpToRel(<, Nat)
<1>1. IsWellFoundedOn(R, Nat)
  BY NatLessThanWellFounded
<1>2. PICK x \in T : \A y \in T : <<y, x>> \notin R
  <2> HIDE DEF R
  <2> QED BY <1>1, WFMin
<1>3. \A y \in T : ~(y < x)
  BY <1>2 DEF OpToRel
<1>4. \A y \in T : x <= y
  <2> SUFFICES ASSUME NEW y \in T PROVE x <= y
    OBVIOUS
  <2>1. x \in Nat /\ y \in Nat /\ ~(y < x)
    BY <1>3
  <2> QED BY <2>1
<1> QED BY <1>4

(* left holds what the first calls of a sequence have left. *)
Leaves(left, calls, n) ==
  /\ left = [i \in 0..n |-> left[i]]
  /\ left[0] = Nothing
  /\ \A i \in 1..n : left[i] = After(left[i - 1], calls[i])

LEMMA SomeLeft ==
  ASSUME NEW calls, NEW n \in Nat
  PROVE  \E left : Leaves(left, calls, n)
<1> DEFINE Bad == {k \in Nat : ~\E left : Leaves(left, calls, k)}
<1> SUFFICES ASSUME Bad # {} PROVE FALSE
  OBVIOUS
<1>1. Bad \in SUBSET Nat
  OBVIOUS
<1>2. PICK k \in Bad : \A y \in Bad : k <= y
  <2> HIDE DEF Bad
  <2> QED BY <1>1, Least
<1>3. k \in Nat
  OBVIOUS
<1>4. k # 0
  <2> DEFINE g == [i \in 0..0 |-> Nothing]
  <2>1. Leaves(g, calls, 0)
    BY DEF Leaves
  <2> QED BY <2>1
<1>5. k - 1 \in Nat /\ k - 1 \notin Bad
  BY <1>2, <1>3, <1>4
<1>6. PICK left : Leaves(left, calls, k - 1)
  BY <1>5
<1> DEFINE g == [i \in 0..k |-> IF i = k THEN After(left[k - 1], calls[k]) ELSE left[i]]
<1>7. g = [i \in 0..k |-> g[i]] /\ g[0] = Nothing
  BY <1>3, <1>4, <1>6 DEF Leaves
<1>8. \A i \in 1..k : g[i] = After(g[i - 1], calls[i])
  <2> SUFFICES ASSUME NEW i \in 1..k PROVE g[i] = After(g[i - 1], calls[i])
    OBVIOUS
  <2>1. i - 1 \in 0..(k - 1) /\ g[i - 1] = left[i - 1]
    BY <1>3
  <2>2. CASE i = k
    BY <1>3, <2>1, <2>2
  <2>3. CASE i # k
    <3>1. i \in 1..(k - 1) /\ g[i] = left[i]
      BY <1>3, <2>3
    <3> HIDE DEF g
    <3> QED BY <1>6, <2>1, <3>1 DEF Leaves
  <2> QED BY <2>2, <2>3
<1>9. Leaves(g, calls, k)
  <2> HIDE DEF g
  <2> QED BY <1>7, <1>8 DEF Leaves
<1> HIDE DEF g
<1> QED BY <1>9

LEMMA LeftIs ==
  ASSUME NEW m \in Menus
  PROVE  \E left : Leaves(left, m.before, Len(m.before))
                   /\ Left(m) = left[Len(m.before)]
<1> DEFINE L == Len(m.before)
           Made(left) == [n \in 0..L |-> IF n = 0 THEN Nothing
                                         ELSE After(left[n - 1], m.before[n])]
<1>1. L \in Nat
  BY MenusAssumption
<1>2. Left(m) = (CHOOSE left : left = Made(left))[L]
  BY DEF Left
<1>3. PICK g : Leaves(g, m.before, L)
  <2> HIDE DEF L
  <2> QED BY <1>1, SomeLeft
<1>4. g = Made(g)
  <2>1. \A i \in 0..L : g[i] = IF i = 0 THEN Nothing ELSE After(g[i - 1], m.before[i])
    <3> HIDE DEF L
    <3> SUFFICES ASSUME NEW i \in 0..L
                 PROVE  g[i] = IF i = 0 THEN Nothing ELSE After(g[i - 1], m.before[i])
      OBVIOUS
    <3>1. CASE i = 0
      BY <1>3, <3>1 DEF Leaves
    <3>2. CASE i # 0
      <4>1. i \in 1..L
        BY <1>1, <3>2
      <4> QED BY <1>3, <3>2, <4>1 DEF Leaves
    <3> QED BY <3>1, <3>2
  <2>2. g = [i \in 0..L |-> g[i]]
    BY <1>3 DEF Leaves
  <2> HIDE DEF L
  <2> QED BY <2>1, <2>2
<1> DEFINE left == CHOOSE h : h = Made(h)
<1> HIDE DEF Made
<1>5. left = Made(left)
  BY <1>4
<1>6. left = [n \in 0..L |-> IF n = 0 THEN Nothing
                             ELSE After(left[n - 1], m.before[n])]
  <2> HIDE DEF left
  <2> QED BY <1>5 DEF Made
<1> HIDE DEF left, L
<1>7. Leaves(left, m.before, L)
  BY <1>1, <1>6 DEF Leaves
<1> QED BY <1>2, <1>7 DEF left, L

LEMMA EmptySound == Sound(EmptyTables)
<1>1. EmptyTables \in Tables
  BY DEF EmptyTables, Tables
<1>2. ASSUME NEW j \in Jobs
      PROVE  /\ MaxSequence(EmptyTables, j) = 0
             /\ OfJob(EmptyTables.events, j) = {}
  <2>1. OfJob(EmptyTables.events, j) = {}
    BY DEF EmptyTables, OfJob
  <2>2. {e.seq : e \in OfJob(EmptyTables.events, j)} = 1..0
    BY <2>1
  <2> QED BY <2>1, <2>2, MaxSequenceIs
<1>3. ASSUME NEW j \in Jobs
      PROVE  {e.seq : e \in OfJob(EmptyTables.events, j)} = 1..MaxSequence(EmptyTables, j)
  BY <1>2
<1> QED BY <1>1, <1>2, <1>3 DEF Sound, Numbered

LEMMA AfterSound ==
  ASSUME NEW x, Sound(x.sql), NEW r \in Requests
  PROVE  Sound(After(x, r).sql)
<1>1. CASE Refuses(x.sql, r)
  BY <1>1 DEF After
<1>2. CASE ~Refuses(x.sql, r)
  <2>1. Sound(Sql(x.sql, r, {}).after)
    BY <1>2, SqlCarried DEF Carried
  <2> QED BY <1>2, <2>1 DEF After
<1> QED BY <1>1, <1>2

LEMMA LeftSound ==
  ASSUME NEW m \in Menus
  PROVE  Sound(Left(m).sql)
<1> DEFINE L == Len(m.before)
<1>1. L \in Nat /\ \A i \in 1..L : m.before[i] \in Requests
  BY MenusAssumption
<1>2. PICK left : Leaves(left, m.before, L) /\ Left(m) = left[L]
  BY LeftIs
<1> HIDE DEF L
<1> DEFINE Bad == {k \in 0..L : ~Sound(left[k].sql)}
<1>3. Bad = {}
  <2> SUFFICES ASSUME Bad # {} PROVE FALSE
    OBVIOUS
  <2>1. Bad \in SUBSET Nat
    BY <1>1
  <2>2. PICK k \in Bad : \A y \in Bad : k <= y
    <3> HIDE DEF Bad
    <3> QED BY <2>1, Least
  <2>3. k \in 0..L /\ ~Sound(left[k].sql)
    OBVIOUS
  <2>4. k # 0
    BY <1>2, <2>3, EmptySound DEF Leaves, Nothing
  <2>5. k \in 1..L /\ k - 1 \in 0..L
    BY <1>1, <2>3, <2>4
  <2>6. Sound(left[k - 1].sql)
    BY <1>1, <2>2, <2>5
  <2>7. left[k] = After(left[k - 1], m.before[k])
    BY <1>2, <2>5 DEF Leaves
  <2> QED BY <1>1, <2>3, <2>5, <2>6, <2>7, AfterSound
<1> QED BY <1>1, <1>2, <1>3

-----------------------------------------------------------------------------
(* Calls.                                                                  *)

Pcs == {"idle", "called", "begun", "written", "answered"}

(* A transaction that may still write has been compared with the tables as *)
(* they are, and the row of one that has written satisfies their           *)
(* constraints: nobody has committed since.                                *)
CallInv(s, cn) ==
  /\ cn.pc \in Pcs
  /\ cn.req \in Requests \cup {Nil}
  /\ cn.pc # "idle" => cn.req \in Requests
  /\ cn.pc \in {"begun", "written"} => cn.req.op \in Transactions
  /\ cn.pc = "begun" /\ ~cn.stale => ~Refuses(s, cn.req)
  /\ cn.pc = "written" =>
       ~Refuses(s, cn.req) /\ Sql(s, cn.req, {}).ans.err = "none"

StoreInv ==
  /\ ConnInv
  /\ menu \in Menus
  /\ Sound(sql)
  /\ \A c \in Callers : CallInv(sql, conn[c])

(* The call is answered; the others are where they were. *)
Answers(c, ans) ==
  /\ conn'[c].pc = "answered" /\ conn'[c].req = conn[c].req
  /\ conn'[c].ans = ans
  /\ \A b \in Callers \ {c} :
       /\ conn'[b].pc = conn[b].pc /\ conn'[b].req = conn[b].req
       /\ conn'[b].ans = conn[b].ans

OthersStay(c) == \A b \in Callers \ {c} : conn'[b] = conn[b]

OthersStale(c) == \A b \in Callers \ {c} : conn[b].pc = "begun" => conn'[b].stale

LEMMA AnswerAnswers ==
  ASSUME ConnInv, NEW c \in Callers, NEW ans, NEW said, conn' = Answer(c, ans, said)
  PROVE  Answers(c, ans) /\ OthersStay(c)
BY DEF Answer, Answers, OthersStay, ConnInv, Fields

LEMMA ApplyAnswers ==
  ASSUME ConnInv, NEW c \in Callers, NEW o, Apply(c, o)
  PROVE  Answers(c, o.ans) /\ OthersStale(c) /\ sql' = o.after
<1> DEFINE said == MockOutcome(mock, conn[c].req).ans
           cs == Answer(c, o.ans, said)
<1>1. conn' = Committed(cs) /\ sql' = o.after
  BY DEF Apply
<1>2. /\ \A b \in Callers : DOMAIN cs[b] = Fields
      /\ cs[c].pc = "answered" /\ cs[c].req = conn[c].req /\ cs[c].ans = o.ans
      /\ \A b \in Callers \ {c} : cs[b] = conn[b]
  BY DEF Answer, ConnInv, Fields
<1> HIDE DEF cs
<1>3. conn'[c] = cs[c]
  BY <1>1, <1>2 DEF Committed
<1>4. ASSUME NEW b \in Callers \ {c}
      PROVE  /\ conn'[b].pc = conn[b].pc /\ conn'[b].req = conn[b].req
             /\ conn'[b].ans = conn[b].ans
             /\ conn[b].pc = "begun" => conn'[b].stale
  <2>1. conn'[b] = IF cs[b].pc = "begun" THEN [cs[b] EXCEPT !.stale = TRUE] ELSE cs[b]
    BY <1>1 DEF Committed
  <2>2. cs[b] = conn[b] /\ DOMAIN cs[b] = Fields
    BY <1>2
  <2> QED BY <2>1, <2>2 DEF Fields
<1> QED BY <1>1, <1>2, <1>3, <1>4 DEF Answers, OthersStale

(* A request that is no transaction is not compared with anything. *)
LEMMA OnlyTransactionsRefuse ==
  ASSUME NEW s, NEW r, r.op \notin Transactions
  PROVE  ~Refuses(s, r)
BY DEF Refuses, Transactions

LEMMA AnswersSafe ==
  ASSUME StoreInv, NEW c \in Callers, NEW ans, conn[c].pc # "idle",
         Answers(c, ans), OthersStay(c), sql' = sql
  PROVE  \A b \in Callers : CallInv(sql', conn'[b])
<1> SUFFICES ASSUME NEW b \in Callers PROVE CallInv(sql', conn'[b])
  OBVIOUS
<1>1. CASE b = c
  BY <1>1 DEF StoreInv, CallInv, Answers, Pcs
<1>2. CASE b # c
  <2>1. conn'[b] = conn[b] /\ CallInv(sql, conn[b])
    BY <1>2 DEF OthersStay, StoreInv
  <2> QED BY <2>1
<1> QED BY <1>1, <1>2

(* Who commits leaves no other transaction that could still write. *)
LEMMA CommitSafe ==
  ASSUME StoreInv, NEW c \in Callers, NEW ans, conn[c].pc # "idle",
         Answers(c, ans), OthersStale(c), writer \in {c, Nil}
  PROVE  \A b \in Callers : CallInv(sql', conn'[b])
<1> SUFFICES ASSUME NEW b \in Callers PROVE CallInv(sql', conn'[b])
  OBVIOUS
<1>1. CASE b = c
  BY <1>1 DEF StoreInv, CallInv, Answers, Pcs
<1>2. CASE b # c
  <2>1. /\ conn'[b].pc = conn[b].pc /\ conn'[b].req = conn[b].req
        /\ conn[b].pc = "begun" => conn'[b].stale
    BY <1>2 DEF Answers, OthersStale
  <2>2. conn[b].pc # "written"
    BY <1>2, NilAssumption DEF StoreInv, ConnInv, WriteLockIsHeld
  <2>3. CallInv(sql, conn[b])
    BY DEF StoreInv
  <2> QED BY <2>1, <2>2, <2>3 DEF CallInv
<1> QED BY <1>1, <1>2

-----------------------------------------------------------------------------
(* The steps of the contract.                                              *)

(* A step of one call. *)
LEMMA OneCall ==
  ASSUME NEW c \in Callers,
         \A b \in Callers \ {c} : AsCall(conn'[b]) = AsCall(conn[b])
  PROVE  /\ AsCalls' = [AsCalls EXCEPT ![c] = AsCall(conn'[c])]
         /\ AsCalls[c] = AsCall(conn[c])
<1> DEFINE F(b) == AsCall(conn[b])  G(b) == AsCall(conn'[b])
<1>1. \A b \in Callers \ {c} : G(b) = F(b)
  OBVIOUS
<1>2. AsCalls = [b \in Callers |-> F(b)] /\ AsCalls' = [b \in Callers |-> G(b)]
  BY DEF AsCalls
<1> HIDE DEF F, G
<1>3. AsCalls' = [AsCalls EXCEPT ![c] = G(c)] /\ AsCalls[c] = F(c)
  BY <1>1, <1>2
<1> QED BY <1>3 DEF F, G

LEMMA AnswerMaps ==
  ASSUME NEW c \in Callers, NEW ans, Answers(c, ans),
         conn[c].pc \in {"called", "begun", "written"}
  PROVE  Contract!UnderWay(c) /\ Contract!Answer(c, ans)
<1>2. AsCall(conn'[c]) = [AsCall(conn[c]) EXCEPT !.pc = "answered", !.ans = ans]
  <2>1. /\ conn'[c].pc = "answered" /\ conn'[c].req = conn[c].req
        /\ conn'[c].ans = ans
    BY DEF Answers
  <2>2. AsCall(conn'[c]) = [pc |-> "answered", req |-> conn[c].req, ans |-> ans]
    BY <2>1 DEF AsCall
  <2>3. AsCall(conn[c]) = [pc |-> "called", req |-> conn[c].req, ans |-> conn[c].ans]
    BY DEF AsCall
  <2> DEFINE q == conn[c].req  a == conn[c].ans
             call == [pc |-> "called", req |-> q, ans |-> a]
  <2>4. [call EXCEPT !.pc = "answered"] = [pc |-> "answered", req |-> q, ans |-> a]
    OBVIOUS
  <2>5. [[pc |-> "answered", req |-> q, ans |-> a] EXCEPT !.ans = ans]
          = [pc |-> "answered", req |-> q, ans |-> ans]
    OBVIOUS
  <2>6. [call EXCEPT !.pc = "answered", !.ans = ans]
          = [[call EXCEPT !.pc = "answered"] EXCEPT !.ans = ans]
    OBVIOUS
  <2> HIDE DEF call
  <2>7. [call EXCEPT !.pc = "answered", !.ans = ans]
          = [pc |-> "answered", req |-> q, ans |-> ans]
    BY <2>4, <2>5, <2>6
  <2> QED BY <2>2, <2>3, <2>7 DEF call
<1>3. \A b \in Callers \ {c} : AsCall(conn'[b]) = AsCall(conn[b])
  BY DEF AsCall, Answers
<1>4. AsCalls' = [AsCalls EXCEPT ![c] = [AsCall(conn[c]) EXCEPT !.pc = "answered",
                                                               !.ans = ans]]
  BY <1>2, <1>3, OneCall
<1>5. AsCalls[c] = AsCall(conn[c]) /\ AsCall(conn[c]).pc = "called"
  BY DEF AsCalls, AsCall
<1> QED BY <1>4, <1>5 DEF Contract!UnderWay, Contract!Answer

(* A call that is answered as the contract says has its effect. *)
LEMMA EffectMaps ==
  ASSUME NEW c \in Callers, NEW ans, Answers(c, ans),
         conn[c].pc \in {"called", "begun", "written"},
         Contract!Outcome(AsStore(sql), conn[c].req)
           = [ans |-> ans, after |-> AsStore(sql')]
  PROVE  Contract!Effect(c)
<1>1. AsCalls[c].req = conn[c].req
  BY DEF AsCalls, AsCall
<1>2. AsStore(sql)' = AsStore(sql')
  OBVIOUS
<1> QED BY <1>1, <1>2, AnswerMaps DEF Contract!Effect

LEMMA BackendMaps ==
  ASSUME NEW c \in Callers, Answers(c, Answered("Backend", {})),
         conn[c].pc \in {"called", "begun", "written"}, sql' = sql
  PROVE  Contract!Fail(c)
<1>1. Contract!Answered("Backend", {}) = Answered("Backend", {})
  BY DEF Contract!Answered, Answered
<1> QED BY <1>1, AnswerMaps DEF Contract!Fail

LEMMA CorruptMaps ==
  ASSUME NEW c \in Callers, Answers(c, Answered("Corrupt", {})),
         conn[c].pc \in {"called", "begun", "written"}, sql' = sql,
         conn[c].req.op \in Reads
  PROVE  Contract!Fail(c)
<1>1. Contract!Answered("Corrupt", {}) = Answered("Corrupt", {})
  BY DEF Contract!Answered, Answered
<1>2. AsCalls[c].req = conn[c].req
  BY DEF AsCalls, AsCall
<1>3. Contract!Reads = Reads
  BY DEF Contract!Reads, Reads
<1> QED BY <1>1, <1>2, <1>3, AnswerMaps DEF Contract!Fail

(* What a statement answers when it is not refused. *)
LEMMA OutcomeMaps ==
  ASSUME StoreInv, NEW c \in Callers, conn[c].pc \in {"called", "begun", "written"},
         NEW known, ~Refuses(sql, conn[c].req),
         Answers(c, Sql(sql, conn[c].req, known).ans),
         sql' = Sql(sql, conn[c].req, known).after,
         Sql(sql, conn[c].req, known).ans.err # "Corrupt"
  PROVE  Contract!Effect(c) \/ Contract!Fail(c)
<1> DEFINE r == conn[c].req  o == Sql(sql, r, known)
           d == Contract!Outcome(AsStore(sql), r)
<1>1. Sound(sql) /\ r \in Requests
  BY DEF StoreInv, CallInv
<1>2. Carried(o, d, sql)
  BY <1>1, SqlCarried
<1> HIDE DEF o, d
<1>3. CASE o.ans.err = "Backend"
  <2>1. o.ans = Answered("Backend", {}) /\ o.after = sql
    BY <1>2, <1>3 DEF Carried
  <2> QED BY <2>1, BackendMaps DEF o
<1>4. CASE o.ans.err # "Backend"
  <2>1. d = [ans |-> o.ans, after |-> AsStore(o.after)]
    BY <1>2, <1>4 DEF Carried, Agree, o
  <2> QED BY <2>1, EffectMaps DEF o, d
<1> QED BY <1>3, <1>4

-----------------------------------------------------------------------------
(* The steps of calls.                                                     *)

(* A method that writes reads no row it could not read. *)
LEMMA WritesReadable ==
  ASSUME NEW s, NEW r \in Requests, r.op \notin Reads, NEW known
  PROVE  Sql(s, r, known).ans.err # "Corrupt"
<1> DEFINE o == Sql(s, r, known)
<1>1. /\ \A holds, after : Constrained(holds, s, after).ans.err # "Corrupt"
      /\ \A after : Ok(after).ans.err # "Corrupt"
  BY DEF Constrained, Ok, Error, Done, Answered
<1>2. \A kind : SqlPut(s, kind, r).ans.err # "Corrupt"
  BY <1>1 DEF SqlPut
<1>3. \A kind : SqlUpdate(s, kind, r).ans.err # "Corrupt"
  BY <1>1 DEF SqlUpdate, Error, Answered
<1>4. CASE r.trait = "EventStore"
  <2>1. o = ops_events(s, r, known) /\ r.op \in Methods.EventStore
    BY <1>4, MethodOf DEF Sql, OfJobTables, JobTables
  <2>2. r.op \in {"append_event"}
    BY <2>1 DEF Methods, Reads
  <2> QED BY <1>1, <2>1, <2>2 DEF ops_events
<1>5. CASE r.trait = "ProjectionStore"
  <2>1. o = ops_projections(s, r, known) /\ r.op \in Methods.ProjectionStore
    BY <1>5, MethodOf DEF Sql, OfJobTables, JobTables
  <2>2. r.op \in {"put_projection"}
    BY <2>1 DEF Methods, Reads
  <2> QED BY <1>1, <2>1, <2>2 DEF ops_projections
<1>6. CASE r.trait = "CandidateStore"
  <2>1. o = ops_candidates(s, r) /\ r.op \in Methods.CandidateStore
    BY <1>6, MethodOf DEF Sql, OfJobTables, JobTables
  <2>2. r.op \in {"put_source_candidate", "put_release_candidate", "set_active_source_candidate"}
    BY <2>1 DEF Methods, Reads
  <2> QED BY <1>1, <1>2, <2>1, <2>2 DEF ops_candidates, put_source, set_active_source
<1>7. CASE r.trait = "EvidenceStore"
  <2>1. o = ops_evidence(s, r) /\ r.op \in Methods.EvidenceStore
    BY <1>7, MethodOf DEF Sql, OfVerdictTables, JobTables, VerdictTables
  <2>2. r.op \in {"put_evidence"}
    BY <2>1 DEF Methods, Reads
  <2> QED BY <1>2, <2>1, <2>2 DEF ops_evidence
<1>8. CASE r.trait = "GateStore"
  <2>1. o = ops_gates(s, r) /\ r.op \in Methods.GateStore
    BY <1>8, MethodOf DEF Sql, OfVerdictTables, JobTables, VerdictTables
  <2>2. r.op \in {"put_gate_definition", "put_gate_result"}
    BY <2>1 DEF Methods, Reads
  <2> QED BY <1>1, <1>2, <2>1, <2>2 DEF ops_gates
<1>9. CASE r.trait = "ObligationStore"
  <2>1. o = ops_obligations(s, r) /\ r.op \in Methods.ObligationStore
    BY <1>9, MethodOf DEF Sql, OfVerdictTables, JobTables, VerdictTables
  <2>2. r.op \in {"put_obligation", "update_obligation"}
    BY <2>1 DEF Methods, Reads
  <2> QED BY <1>2, <1>3, <2>1, <2>2 DEF ops_obligations
<1>10. CASE r.trait = "OperationStore"
  <2>1. o = ops_operations(s, r) /\ r.op \in Methods.OperationStore
    BY <1>10, MethodOf DEF Sql, OfToolTables, JobTables, VerdictTables
  <2>2. r.op \in {"put_operation", "update_operation"}
    BY <2>1 DEF Methods, Reads
  <2> QED BY <1>2, <1>3, <2>1, <2>2 DEF ops_operations
<1>11. CASE r.trait = "ArtifactMetadataStore"
  <2>1. o = ops_artifacts(s, r) /\ r.op \in Methods.ArtifactMetadataStore
    BY <1>11, MethodOf DEF Sql, OfToolTables, JobTables, VerdictTables
  <2>2. r.op \in {"put_artifact"}
    BY <2>1 DEF Methods, Reads
  <2> QED BY <1>2, <2>1, <2>2 DEF ops_artifacts
<1>12. CASE r.trait = "WorkspaceMetadataStore"
  <2>1. o = ops_workspaces(s, r) /\ r.op \in Methods.WorkspaceMetadataStore
    BY <1>12, MethodOf DEF Sql, OfToolTables, JobTables, VerdictTables
  <2>2. r.op \in {"put_workspace_state"}
    BY <2>1 DEF Methods, Reads
  <2> QED BY <1>1, <2>1, <2>2 DEF ops_workspaces
<1>13. CASE r.trait = "CheckStore"
  <2>1. o = ops_checks(s, r) /\ r.op \in Methods.CheckStore
    BY <1>13, MethodOf DEF Sql, OfToolTables, JobTables, VerdictTables
  <2>2. r.op \in {"put_check"}
    BY <2>1 DEF Methods, Reads
  <2> QED BY <1>2, <2>1, <2>2 DEF ops_checks
<1> QED BY TraitOf, <1>4, <1>5, <1>6, <1>7, <1>8, <1>9, <1>10, <1>11, <1>12, <1>13

(* What a step of a call is to the contract, and what it leaves. *)
Steps(c) ==
  /\ \A b \in Callers : CallInv(sql', conn'[b])
  /\ Sound(sql')
  /\ \/ \E r \in Requests : Contract!Call(c, r)
     \/ Contract!Effect(c)
     \/ Contract!Fail(c)
     \/ Contract!Return(c)
     \/ sql' = sql /\ AsCalls' = AsCalls

(* A call that goes on with its transaction. *)
LEMMA GoesOn ==
  ASSUME StoreInv, NEW c \in Callers, NEW pc \in {"begun", "written"},
         conn[c].pc \in {"called", "begun"},
         conn' = [conn EXCEPT ![c].pc = pc], sql' = sql,
         CallInv(sql, [conn[c] EXCEPT !.pc = pc])
  PROVE  Steps(c)
<1>1. /\ conn'[c] = [conn[c] EXCEPT !.pc = pc]
      /\ \A b \in Callers \ {c} : conn'[b] = conn[b]
  BY DEF StoreInv, ConnInv
<1>2. \A b \in Callers : CallInv(sql', conn'[b])
  BY <1>1 DEF StoreInv
<1>3. conn'[c].pc = pc /\ conn'[c].req = conn[c].req /\ conn'[c].ans = conn[c].ans
  BY <1>1 DEF StoreInv, ConnInv, Fields
<1>4. AsCall(conn'[c]) = AsCall(conn[c])
  BY <1>3 DEF AsCall
<1>5. \A b \in Callers : AsCall(conn'[b]) = AsCall(conn[b])
  BY <1>1, <1>4
<1>6. AsCalls' = AsCalls
  BY <1>5 DEF AsCalls
<1> QED BY <1>2, <1>6 DEF Steps, StoreInv

LEMMA BackendSteps ==
  ASSUME StoreInv, NEW c \in Callers,
         conn[c].pc \in {"called", "begun", "written"}, Break(c, "Backend")
  PROVE  Steps(c)
<1>1. Answers(c, Answered("Backend", {})) /\ OthersStay(c) /\ sql' = sql
  BY AnswerAnswers DEF Break, StoreInv
<1>2. \A b \in Callers : CallInv(sql', conn'[b])
  BY <1>1, AnswersSafe
<1>3. Contract!Fail(c)
  BY <1>1, BackendMaps
<1> QED BY <1>1, <1>2, <1>3 DEF Steps, StoreInv

LEMMA CorruptSteps ==
  ASSUME StoreInv, NEW c \in Callers,
         conn[c].pc \in {"called", "begun", "written"}, Break(c, "Corrupt"),
         conn[c].req.op \in Reads
  PROVE  Steps(c)
<1>1. Answers(c, Answered("Corrupt", {})) /\ OthersStay(c) /\ sql' = sql
  BY AnswerAnswers DEF Break, StoreInv
<1>2. \A b \in Callers : CallInv(sql', conn'[b])
  BY <1>1, AnswersSafe
<1>3. Contract!Fail(c)
  BY <1>1, CorruptMaps
<1> QED BY <1>1, <1>2, <1>3 DEF Steps, StoreInv

LEMMA SettleSteps ==
  ASSUME StoreInv, NEW c \in Callers, NEW ans,
         conn[c].pc \in {"called", "begun", "written"}, Settle(c, ans),
         Answers(c, ans) /\ sql' = sql => Contract!Effect(c) \/ Contract!Fail(c)
  PROVE  Steps(c)
<1>1. Answers(c, ans) /\ OthersStay(c) /\ sql' = sql
  BY AnswerAnswers DEF Settle, StoreInv
<1>2. \A b \in Callers : CallInv(sql', conn'[b])
  BY <1>1, AnswersSafe
<1> QED BY <1>1, <1>2 DEF Steps, StoreInv

LEMMA ApplySteps ==
  ASSUME StoreInv, NEW c \in Callers, NEW known,
         conn[c].pc \in {"called", "written"}, writer \in {c, Nil},
         ~Refuses(sql, conn[c].req),
         Sql(sql, conn[c].req, known).ans.err = "none",
         Apply(c, Sql(sql, conn[c].req, known))
  PROVE  Steps(c)
<1> DEFINE o == Sql(sql, conn[c].req, known)
<1>1. Answers(c, o.ans) /\ OthersStale(c) /\ sql' = o.after
  BY ApplyAnswers DEF StoreInv
<1>2. \A b \in Callers : CallInv(sql', conn'[b])
  BY <1>1, CommitSafe
<1>3. Sound(o.after)
  BY SqlCarried DEF StoreInv, CallInv, Carried
<1>4. Contract!Effect(c) \/ Contract!Fail(c)
  BY <1>1, OutcomeMaps
<1> QED BY <1>1, <1>2, <1>3, <1>4 DEF Steps

LEMMA CallSteps ==
  ASSUME StoreInv, NEW c \in Callers, Call(c)
  PROVE  Steps(c)
<1>1. PICK r \in menu.requests : conn' = [conn EXCEPT ![c].req = r, ![c].pc = "called"]
  BY DEF Call
<1>2. r \in Requests
  BY <1>1, MenusAssumption DEF StoreInv
<1>3. conn[c] = NoConnection /\ sql' = sql
  BY DEF Call
<1>4. /\ conn'[c].pc = "called" /\ conn'[c].req = r /\ conn'[c].ans = Nil
      /\ \A b \in Callers \ {c} : conn'[b] = conn[b]
  BY <1>1, <1>3 DEF StoreInv, ConnInv, Fields, NoConnection
<1>5. ASSUME NEW b \in Callers PROVE CallInv(sql', conn'[b])
  <2>1. CASE b = c
    BY <1>2, <1>4, <2>1 DEF CallInv, Pcs
  <2>2. CASE b # c
    BY <1>3, <1>4, <2>2 DEF StoreInv
  <2> QED BY <2>1, <2>2
<1>6. AsCall(conn'[c]) = [pc |-> "called", req |-> r, ans |-> Nil]
  BY <1>4 DEF AsCall
<1>7. AsCall(conn[c]) = Contract!Idle
  BY <1>3 DEF AsCall, NoConnection, Contract!Idle
<1>8. AsCalls' = [AsCalls EXCEPT ![c] = [pc |-> "called", req |-> r, ans |-> Nil]]
      /\ AsCalls[c] = Contract!Idle
  BY <1>4, <1>6, <1>7, OneCall
<1>9. Contract!Call(c, r)
  BY <1>3, <1>8 DEF Contract!Call
<1> QED BY <1>2, <1>3, <1>5, <1>9 DEF Steps, StoreInv

LEMMA SelectSteps ==
  ASSUME StoreInv, NEW c \in Callers, Select(c)
  PROVE  Steps(c)
<1> DEFINE r == conn[c].req  o == Sql(sql, r, Known)
<1>1. conn[c].pc = "called" /\ r \in Requests /\ r.op \in Reads
  BY DEF Select, StoreInv, CallInv
<1>2. ~Refuses(sql, r)
  <2>1. r.op \notin Transactions
    BY <1>1 DEF Reads, Transactions
  <2> QED BY <2>1, OnlyTransactionsRefuse
<1>3. o.after = sql
  BY <1>1, ReadsKeep
<1>4. \/ Break(c, "Backend") \/ Break(c, "Corrupt")
      \/ o.ans.err # "Corrupt" /\ Settle(c, o.ans)
  BY DEF Select
<1>5. CASE o.ans.err # "Corrupt" /\ Settle(c, o.ans)
  <2>1. Answers(c, o.ans) /\ sql' = sql => Contract!Effect(c) \/ Contract!Fail(c)
    BY <1>1, <1>2, <1>3, <1>5, OutcomeMaps
  <2> HIDE DEF o
  <2> QED BY <1>1, <1>5, <2>1, SettleSteps
<1> QED BY <1>1, <1>4, <1>5, BackendSteps, CorruptSteps

LEMMA StatementSteps ==
  ASSUME StoreInv, NEW c \in Callers, Statement(c)
  PROVE  Steps(c)
<1> DEFINE r == conn[c].req  o == Sql(sql, r, Known)
<1>1. conn[c].pc = "called" /\ r \in Requests /\ writer = Nil
  BY DEF Statement, StoreInv, CallInv
<1>2. ~Refuses(sql, r)
  BY OnlyTransactionsRefuse DEF Statement
<1>3. \/ Break(c, "Backend")
      \/ o.ans.err # "none" /\ Settle(c, o.ans)
      \/ o.ans.err = "none" /\ Apply(c, o)
  BY DEF Statement
<1>4. CASE Break(c, "Backend")
  BY <1>1, <1>4, BackendSteps
<1>5. CASE o.ans.err # "none" /\ Settle(c, o.ans)
  <2>1. o.after = sql
    BY <1>1, <1>2, <1>5, SqlCarried DEF StoreInv, Carried
  <2>2. o.ans.err # "Corrupt"
    BY <1>1, WritesReadable DEF Statement
  <2>3. Answers(c, o.ans) /\ sql' = sql => Contract!Effect(c) \/ Contract!Fail(c)
    BY <1>1, <1>2, <2>1, <2>2, OutcomeMaps
  <2> HIDE DEF o
  <2> QED BY <1>1, <1>5, <2>3, SettleSteps
<1>6. CASE o.ans.err = "none" /\ Apply(c, o)
  BY <1>1, <1>2, <1>6, ApplySteps
<1> QED BY <1>3, <1>4, <1>5, <1>6

LEMMA BeginSteps ==
  ASSUME StoreInv, NEW c \in Callers, Begin(c)
  PROVE  Steps(c)
<1> DEFINE r == conn[c].req
<1>1. conn[c].pc = "called" /\ r \in Requests /\ r.op \in Transactions /\ Sound(sql)
  BY DEF Begin, StoreInv, CallInv
<1>2. ASSUME NEW kind, Settle(c, Answered(kind, {})),
             Contract!Outcome(AsStore(sql), r)
               = [ans |-> Answered(kind, {}), after |-> AsStore(sql)]
      PROVE  Steps(c)
  <2>1. Answers(c, Answered(kind, {})) /\ sql' = sql
          => Contract!Effect(c) \/ Contract!Fail(c)
    BY <1>1, <1>2, EffectMaps
  <2> QED BY <1>1, <1>2, <2>1, SettleSteps
<1>3. CASE r.op = "append_event" /\ append_refuses(sql, r)
           /\ Settle(c, Answered("SequenceOutOfRange", {}))
  <2>1. Contract!Outcome(AsStore(sql), r)
          = [ans |-> Answered("SequenceOutOfRange", {}), after |-> AsStore(sql)]
    BY <1>1, <1>3, AppendRefused
  <2> QED BY <1>2, <1>3, <2>1
<1>4. CASE r.op # "append_event" /\ Refuses(sql, r)
           /\ Settle(c, Answered("Conflict", {}))
  <2>1. \/ r.op = "put_projection" /\ put_projection_refuses(sql, r)
        \/ r.op = "put_workspace_state" /\ put_workspace_refuses(sql, r)
    BY <1>4 DEF Refuses
  <2>2. Contract!Outcome(AsStore(sql), r)
          = [ans |-> Answered("Conflict", {}), after |-> AsStore(sql)]
    BY <1>1, <2>1, ProjectionRefused, WorkspaceRefused
  <2> QED BY <1>2, <1>4, <2>2
<1>5. CASE ~Refuses(sql, r) /\ conn' = [conn EXCEPT ![c].pc = "begun"] /\ sql' = sql
  <2> DEFINE cn == [conn[c] EXCEPT !.pc = "begun"]
  <2>1. cn.pc = "begun" /\ cn.req = r
    BY DEF StoreInv, ConnInv, Fields
  <2> HIDE DEF cn
  <2>2. CallInv(sql, cn)
    BY <1>1, <1>5, <2>1 DEF CallInv, Pcs
  <2> QED BY <1>1, <1>5, <2>2, GoesOn DEF cn
<1> QED BY <1>3, <1>4, <1>5 DEF Begin

LEMMA InsertSteps ==
  ASSUME StoreInv, NEW c \in Callers, InsertRow(c)
  PROVE  Steps(c)
<1> DEFINE r == conn[c].req  o == Sql(sql, r, Known)
<1>1. /\ conn[c].pc = "begun" /\ r \in Requests /\ Sound(sql)
      /\ r.op \in Transactions /\ ~Refuses(sql, r)
  BY DEF InsertRow, MayWrite, StoreInv, CallInv
<1>2. \/ o.ans.err = "none" /\ conn' = [conn EXCEPT ![c].pc = "written"] /\ sql' = sql
      \/ o.ans.err # "none" /\ Settle(c, o.ans)
  BY DEF InsertRow
<1>3. CASE o.ans.err = "none" /\ conn' = [conn EXCEPT ![c].pc = "written"] /\ sql' = sql
  <2> DEFINE cn == [conn[c] EXCEPT !.pc = "written"]
  <2>1. cn.pc = "written" /\ cn.req = r
    BY DEF StoreInv, ConnInv, Fields
  <2>2. Sql(sql, r, {}).ans.err = "none"
    BY <1>1, <1>3, WritesIgnoreKnown
  <2> HIDE DEF cn, o
  <2>3. CallInv(sql, cn)
    BY <1>1, <2>1, <2>2 DEF CallInv, Pcs
  <2> QED BY <1>1, <1>3, <2>3, GoesOn DEF cn
<1>4. CASE o.ans.err # "none" /\ Settle(c, o.ans)
  <2>1. o.after = sql
    BY <1>1, <1>4, SqlCarried DEF Carried
  <2>2. o.ans.err # "Corrupt"
    <3>1. r.op \notin Reads
      BY <1>1 DEF Reads, Transactions
    <3> QED BY <1>1, <3>1, WritesReadable
  <2>3. Answers(c, o.ans) /\ sql' = sql => Contract!Effect(c) \/ Contract!Fail(c)
    BY <1>1, <2>1, <2>2, OutcomeMaps
  <2> HIDE DEF o
  <2> QED BY <1>1, <1>4, <2>3, SettleSteps
<1> QED BY <1>2, <1>3, <1>4

LEMMA BusySteps ==
  ASSUME StoreInv, NEW c \in Callers, Busy(c)
  PROVE  Steps(c)
<1>1. Break(c, "Backend") /\ conn[c].pc \in {"called", "begun", "written"}
  BY DEF Busy
<1> QED BY <1>1, BackendSteps

LEMMA CommitSteps ==
  ASSUME StoreInv, NEW c \in Callers, Commit(c)
  PROVE  Steps(c)
<1> DEFINE r == conn[c].req  o == Sql(sql, r, Known)
<1>1. conn[c].pc = "written" /\ Apply(c, o)
  BY DEF Commit
<1>2. writer = c
  BY <1>1 DEF StoreInv, ConnInv, WriteLockIsHeld
<1>3. /\ r \in Requests /\ r.op \in Transactions /\ ~Refuses(sql, r)
      /\ Sql(sql, r, {}).ans.err = "none"
  BY <1>1 DEF StoreInv, CallInv
<1>4. o.ans.err = "none"
  BY <1>3, WritesIgnoreKnown
<1> QED BY <1>1, <1>2, <1>3, <1>4, ApplySteps

LEMMA ReturnSteps ==
  ASSUME StoreInv, NEW c \in Callers, Return(c)
  PROVE  Steps(c)
<1>1. conn[c].pc = "answered" /\ sql' = sql
  BY DEF Return
<1>2. conn'[c] = NoConnection /\ \A b \in Callers \ {c} : conn'[b] = conn[b]
  BY DEF Return, StoreInv, ConnInv
<1>3. CallInv(sql, NoConnection)
  BY DEF CallInv, NoConnection, Pcs
<1>4. \A b \in Callers : CallInv(sql', conn'[b])
  BY <1>1, <1>2, <1>3 DEF StoreInv
<1>5. AsCall(NoConnection) = Contract!Idle
  BY DEF AsCall, NoConnection, Contract!Idle
<1>6. AsCalls' = [AsCalls EXCEPT ![c] = Contract!Idle] /\ AsCalls[c].pc = "answered"
  <2>1. AsCall(conn[c]).pc = "answered"
    BY <1>1 DEF AsCall
  <2> QED BY <1>2, <1>5, <2>1, OneCall
<1>7. Contract!Return(c)
  BY <1>1, <1>6 DEF Contract!Return
<1> QED BY <1>1, <1>4, <1>7 DEF Steps, StoreInv

LEMMA CallerSteps ==
  ASSUME StoreInv, NEW c \in Callers,
         \/ Call(c) \/ Select(c) \/ Statement(c) \/ Begin(c) \/ InsertRow(c)
         \/ Busy(c) \/ Commit(c) \/ Return(c)
  PROVE  Steps(c) /\ menu' = menu
<1>1. menu' = menu
  BY DEF Call, Select, Statement, Begin, InsertRow, Busy, Commit, Return,
         processVars
<1> QED BY <1>1, CallSteps, SelectSteps, StatementSteps, BeginSteps, InsertSteps,
        BusySteps, CommitSteps, ReturnSteps

(* A process stops, and the calls it was asked with it; or it does         *)
(* something else, which is nothing to the contract.                       *)
LEMMA DaemonSteps ==
  ASSUME StoreInv, NEW d \in Daemons,
         \/ Start(d) \/ ensure_directory(d) \/ acquire(d) \/ check_history(d)
         \/ apply_migration(d) \/ migrations_applied(d) \/ finish_startup(d)
         \/ Drain(d) \/ Drained(d) \/ Crash(d)
  PROVE  /\ menu' = menu /\ sql' = sql
         /\ \A b \in Callers : CallInv(sql', conn'[b])
         /\ Contract!Stop \/ AsCalls' = AsCalls
<1>1. CASE UNCHANGED <<menu, sql, conn>>
  <2>1. AsCalls' = AsCalls
    BY <1>1 DEF AsCalls
  <2> QED BY <1>1, <2>1 DEF StoreInv
<1>2. CASE UNCHANGED <<menu, sql>> /\ conn' = [c \in Callers |-> NoConnection]
  <2>1. CallInv(sql, NoConnection)
    BY DEF CallInv, NoConnection, Pcs
  <2>2. AsCall(NoConnection) = Contract!Idle
    BY DEF AsCall, NoConnection, Contract!Idle
  <2>3. \A b \in Callers : conn'[b] = NoConnection
    BY <1>2
  <2>4. AsCalls' = [c \in Callers |-> AsCall(conn'[c])]
    BY DEF AsCalls
  <2>5. AsCalls' = [c \in Callers |-> Contract!Idle]
    BY <2>2, <2>3, <2>4
  <2>6. AsStore(sql)' = AsStore(sql)
    BY <1>2
  <2>7. Contract!Stop
    BY <2>5, <2>6 DEF Contract!Stop
  <2> QED BY <1>2, <2>1, <2>3, <2>7
<1>3. CASE Crash(d)
  BY <1>1, <1>2, <1>3 DEF Crash
<1>4. ~Crash(d) => UNCHANGED <<menu, sql, conn>>
  BY DEF Start, ensure_directory, acquire, check_history, apply_migration,
     migrations_applied, finish_startup, Drain, Drained, storeVars
<1> QED BY <1>1, <1>3, <1>4

-----------------------------------------------------------------------------
(* The theorems.                                                           *)

LEMMA StoreInit == Init => StoreInv /\ Contract!Init
<1> SUFFICES ASSUME Init PROVE StoreInv /\ Contract!Init
  OBVIOUS
<1>1. menu \in Menus /\ sql = Left(menu).sql
      /\ conn = [c \in Callers |-> NoConnection]
  BY DEF Init
<1>2. Sound(sql)
  BY <1>1, LeftSound
<1>3. \A c \in Callers : CallInv(sql, conn[c])
  <2>1. CallInv(sql, NoConnection)
    BY DEF CallInv, NoConnection, Pcs
  <2> QED BY <1>1, <2>1
<1>4. AsCalls = [c \in Callers |-> Contract!Idle]
  <2>1. AsCall(NoConnection) = Contract!Idle
    BY DEF AsCall, NoConnection, Contract!Idle
  <2>2. \A c \in Callers : AsCall(conn[c]) = Contract!Idle
    BY <1>1, <2>1
  <2> QED BY <2>2 DEF AsCalls
<1> QED BY <1>1, <1>2, <1>3, <1>4, ConnInit DEF StoreInv, Contract!Init

LEMMA StoreNext ==
  ASSUME StoreInv, [Next]_vars
  PROVE  StoreInv' /\ [Contract!Next]_<<AsStore(sql), AsCalls>>
<1>1. ConnInv'
  BY ConnNext DEF StoreInv
<1>2. ASSUME NEW c \in Callers, Steps(c), menu' = menu
      PROVE  StoreInv' /\ [Contract!Next]_<<AsStore(sql), AsCalls>>
  <2>1. StoreInv'
    BY <1>1, <1>2 DEF Steps, StoreInv
  <2>2. CASE sql' = sql /\ AsCalls' = AsCalls
    <3>1. AsStore(sql)' = AsStore(sql)
      BY <2>2
    <3> QED BY <2>1, <2>2, <3>1
  <2>3. CASE \/ \E r \in Requests : Contract!Call(c, r)
             \/ Contract!Effect(c) \/ Contract!Fail(c) \/ Contract!Return(c)
    <3>1. Contract!Next
      BY <2>3 DEF Contract!Next
    <3> QED BY <2>1, <3>1
  <2> QED BY <1>2, <2>2, <2>3 DEF Steps
<1>3. ASSUME NEW d \in Daemons, menu' = menu, sql' = sql,
             \A b \in Callers : CallInv(sql', conn'[b]),
             Contract!Stop \/ AsCalls' = AsCalls
      PROVE  StoreInv' /\ [Contract!Next]_<<AsStore(sql), AsCalls>>
  <2>1. StoreInv'
    BY <1>1, <1>3 DEF StoreInv
  <2>2. CASE AsCalls' = AsCalls
    <3>1. AsStore(sql)' = AsStore(sql)
      BY <1>3
    <3> QED BY <2>1, <2>2, <3>1
  <2>3. CASE Contract!Stop
    <3>1. Contract!Next
      BY <2>3 DEF Contract!Next
    <3> QED BY <2>1, <3>1
  <2> QED BY <1>3, <2>2, <2>3
<1>4. CASE UNCHANGED vars
  <2>1. UNCHANGED <<menu, sql, conn>>
    BY <1>4 DEF vars
  <2>2. AsStore(sql)' = AsStore(sql) /\ AsCalls' = AsCalls
    BY <2>1 DEF AsCalls
  <2>3. StoreInv'
    BY <1>1, <2>1 DEF StoreInv
  <2> QED BY <2>2, <2>3
<1>5. ASSUME NEW c \in Callers,
             \/ Call(c) \/ Select(c) \/ Statement(c) \/ Begin(c) \/ InsertRow(c)
             \/ Busy(c) \/ Commit(c) \/ Return(c)
      PROVE  StoreInv' /\ [Contract!Next]_<<AsStore(sql), AsCalls>>
  BY <1>2, <1>5, CallerSteps
<1>6. ASSUME NEW d \in Daemons,
             \/ Start(d) \/ ensure_directory(d) \/ acquire(d) \/ check_history(d)
             \/ apply_migration(d) \/ migrations_applied(d) \/ finish_startup(d)
             \/ Drain(d) \/ Drained(d) \/ Crash(d)
      PROVE  StoreInv' /\ [Contract!Next]_<<AsStore(sql), AsCalls>>
  BY <1>3, <1>6, DaemonSteps
<1> QED BY <1>4, <1>5, <1>6 DEF Next

(* Where the processes are, and who holds the lock of the directory. *)
Processes ==
  /\ DOMAIN daemon = Daemons
  /\ \A d \in Daemons : daemon[d].pc \in ProcessPcs
  /\ lock \in Daemons \cup {Nil}

LEMMA ProcessesInit == Init => Processes
BY DEF Init, Processes, Down, ProcessPcs

LEMMA ProcessesNext == Processes /\ [Next]_vars => Processes'
<1> SUFFICES ASSUME Processes, [Next]_vars PROVE Processes'
  OBVIOUS
<1>1. ASSUME NEW d \in Daemons, NEW pc \in ProcessPcs, Go(d, pc),
             lock' \in {lock, d}
      PROVE  Processes'
  BY <1>1 DEF Go, Processes
<1>2. ASSUME NEW d \in Daemons, NEW code, Exit(d, code)
      PROVE  Processes'
  BY <1>2 DEF Exit, Processes, ProcessPcs
<1>3. CASE UNCHANGED <<daemon, lock>>
  BY <1>3 DEF Processes
<1>4. ASSUME NEW c \in Callers,
             \/ Call(c) \/ Select(c) \/ Statement(c) \/ Begin(c) \/ InsertRow(c)
             \/ Busy(c) \/ Commit(c) \/ Return(c)
      PROVE  UNCHANGED <<daemon, lock>>
  BY <1>4 DEF Call, Select, Statement, Begin, InsertRow, Busy, Commit, Return,
              processVars
<1>5. ASSUME NEW d \in Daemons,
             \/ Start(d) \/ ensure_directory(d) \/ acquire(d) \/ check_history(d)
             \/ apply_migration(d) \/ migrations_applied(d) \/ finish_startup(d)
             \/ Drain(d) \/ Drained(d) \/ Crash(d)
      PROVE  \/ \E pc \in ProcessPcs : Go(d, pc) /\ lock' \in {lock, d}
             \/ \E code : Exit(d, code)
             \/ UNCHANGED <<daemon, lock>>
  BY <1>5 DEF Start, ensure_directory, acquire, check_history, apply_migration,
     migrations_applied, finish_startup, Drain, Drained, Crash, ProcessPcs
<1> QED BY <1>1, <1>2, <1>3, <1>4, <1>5 DEF Next, vars

(* Every table keeps its columns, and the events of every job are numbered *)
(* from 1 without a gap and without a repetition.                          *)
THEOREM TypeCorrect == Spec => []TypeOK
<1>1. StoreInv /\ Processes => TypeOK
  BY DEF StoreInv, Sound, CallInv, Pcs, ConnInv, Processes, TypeOK
<1>2. Init => StoreInv
  BY StoreInit
<1>3. StoreInv /\ [Next]_vars => StoreInv'
  BY StoreNext
<1> QED BY <1>1, <1>2, <1>3, ProcessesInit, ProcessesNext, PTL DEF Spec

(* Whatever the processes, calls, crashes and migrations, SQLite with the  *)
(* statements of ironmaint-store-sqlite keeps the contract of the traits.  *)
THEOREM Refinement == Spec => ImplementsStore
<1>1. Init => StoreInv /\ Contract!Init
  BY StoreInit
<1>2. StoreInv /\ [Next]_vars
        => StoreInv' /\ [Contract!Next]_<<AsStore(sql), AsCalls>>
  BY StoreNext
<1> QED BY <1>1, <1>2, PTL DEF Spec, ImplementsStore, Contract!Spec

-----------------------------------------------------------------------------
(* What the in-memory store keeps of what the traits see.                  *)

(* What the traits see, and what the in-memory store keeps. *)
Contents ==
  [events : [Jobs -> Seq(STRING)], versions : [Jobs -> SUBSET Nat],
   sources : [Ids -> SUBSET [job : Jobs, fp : Fingerprints]],
   active : [Jobs -> SUBSET Ids],
   rows : [Kinds -> [Ids -> SUBSET [job : Jobs, val : STRING]]],
   results : [Ids -> [Fingerprints -> SUBSET STRING]],
   workspaces : [Ids -> SUBSET [job : Jobs, revision : Nat]]]

Record == [job : Jobs, val : STRING]
Result == [fp : Fingerprints, val : STRING]
Source == [job : Jobs, fp : Fingerprints]
State == [job : Jobs, revision : Nat]
Event == [seq : Nat, event : STRING]

Mocks ==
  [events : [Jobs -> SUBSET Event], max_sequence : [Jobs -> Nat],
   projections : [Jobs -> Nat \cup {Nil}],
   sources : [Ids -> Source \cup {Nil}],
   source_by_fp : [Fingerprints -> Ids \cup {Nil}],
   sources_by_job : [Jobs -> SUBSET Ids],
   active_source : [Jobs -> Ids \cup {Nil}],
   table : [Kinds -> [Ids -> Record \cup {Nil}]],
   by_job : [Kinds -> [Jobs -> SUBSET Ids]],
   evidence_by_fp : [Fingerprints -> SUBSET Ids],
   operations_executing : SUBSET Ids,
   gate_results : [Ids -> Seq(Result)],
   workspaces : [Ids -> State \cup {Nil}],
   workspaces_by_job : [Jobs -> SUBSET Ids]]

LEMMA ContentsOfStore ==
  ASSUME NEW s, Sound(s)
  PROVE  AsStore(s) \in Contents
<1> DEFINE d == AsStore(s)
<1>1. \A j \in Jobs : Log(s, j) \in Seq(STRING)
  BY LogIs
<1>2. d.events \in [Jobs -> Seq(STRING)]
  BY <1>1 DEF AsStore
<1>3. d.versions \in [Jobs -> SUBSET Nat]
  BY DEF AsStore, OfJob, Sound, Tables
<1>4. d.sources \in [Ids -> SUBSET [job : Jobs, fp : Fingerprints]]
  BY DEF AsStore, WithId, Sound, Tables
<1>5. d.active \in [Jobs -> SUBSET Ids]
  BY DEF AsStore, OfJob, Sound, Tables
<1>6. d.rows \in [Kinds -> [Ids -> SUBSET [job : Jobs, val : STRING]]]
  <2>1. \A k \in Kinds, i \in Ids : RowsOf(s, k, i) \subseteq [job : Jobs, val : STRING]
    BY DEF RowsOf, WithId, Table, Sound, Tables
  <2>2. d.rows = [k \in Kinds |-> [i \in Ids |-> RowsOf(s, k, i)]]
    BY RowsOfStore
  <2> HIDE DEF d
  <2> QED BY <2>1, <2>2
<1>7. d.results \in [Ids -> [Fingerprints -> SUBSET STRING]]
  BY DEF AsStore, ResultsOf, Sound, Tables
<1>8. d.workspaces \in [Ids -> SUBSET [job : Jobs, revision : Nat]]
  BY DEF AsStore, WithId, Sound, Tables
<1>9. d = [events |-> d.events, versions |-> d.versions, sources |-> d.sources,
           active |-> d.active, rows |-> d.rows, results |-> d.results,
           workspaces |-> d.workspaces]
  BY DEF AsStore
<1> HIDE DEF d
<1>10. d \in Contents
  BY <1>2, <1>3, <1>4, <1>5, <1>6, <1>7, <1>8, <1>9 DEF Contents
<1> QED BY <1>10 DEF d

-----------------------------------------------------------------------------
(* The in-memory store holds what the contract holds, and its indexes list *)
(* what its tables hold.                                                   *)

Some(x) == IF x = Nil THEN {} ELSE {x}

LogsMirror(events, last, logs) ==
  \A j \in Jobs :
    /\ last[j] = Len(logs[j])
    /\ events[j] = {[seq |-> n, event |-> logs[j][n]] : n \in DOMAIN logs[j]}

VersionsMirror(stored, versions) == \A j \in Jobs : versions[j] = Some(stored[j])

SourcesMirror(stored, sources) == \A i \in Ids : sources[i] = Some(stored[i])
ByFpMirrors(index, sources) ==
  \A f \in Fingerprints :
    {i \in Ids : \E x \in sources[i] : x.fp = f} = Some(index[f])
ByJobMirrors(index, entries) ==
  \A j \in Jobs : index[j] = {i \in Ids : \E x \in entries[i] : x.job = j}

ActiveMirrors(stored, active) == \A j \in Jobs : active[j] = Some(stored[j])

RowsMirror(stored, rows) ==
  \A k \in Kinds, i \in Ids : rows[k][i] = Some(stored[k][i])
ListsMirror(index, rows) ==
  \A k \in Kinds \ {"release"} : ByJobMirrors(index[k], rows[k])
EvidenceMirrors(index, rows) ==
  \A f \in Fingerprints :
    index[f] = {i \in Ids : \E x \in rows["evidence"][i] : x.val = f}
ExecutingMirrors(index, rows) ==
  index = {i \in Ids : \E x \in rows["operation"][i] : x.val = "executing"}

ResultsMirror(stored, results) ==
  \A g \in Ids, f \in Fingerprints :
    results[g][f] = Some(find_gate_result(stored[g], f))

WorkspacesMirror(stored, workspaces) ==
  \A h \in Ids : workspaces[h] = Some(stored[h])

Mirrors(m, d) ==
  /\ m \in Mocks
  /\ LogsMirror(m.events, m.max_sequence, d.events)
  /\ VersionsMirror(m.projections, d.versions)
  /\ SourcesMirror(m.sources, d.sources)
  /\ ByFpMirrors(m.source_by_fp, d.sources)
  /\ ByJobMirrors(m.sources_by_job, d.sources)
  /\ ActiveMirrors(m.active_source, d.active)
  /\ RowsMirror(m.table, d.rows)
  /\ ListsMirror(m.by_job, d.rows)
  /\ EvidenceMirrors(m.evidence_by_fp, d.rows)
  /\ ExecutingMirrors(m.operations_executing, d.rows)
  /\ ResultsMirror(m.gate_results, d.results)
  /\ WorkspacesMirror(m.workspaces, d.workspaces)
  /\ ByJobMirrors(m.workspaces_by_job, d.workspaces)

(* The outcome of a call is the same on both sides. *)
Like(o, c) == o.ans = c.ans /\ Mirrors(o.after, c.after)

LEMMA LikeReads ==
  ASSUME NEW m, NEW d, Mirrors(m, d)
  PROVE  /\ \A rows : Like(Fetch(rows, m), Contract!Fetch(rows, d))
         /\ \A value : Like(Value(value, m), Contract!Value(value, d))
         /\ \A kind : Like(Error(kind, m), Contract!Error(kind, d))
         /\ \A x : Like(Required(x, m), Contract!Fetch(Some(x), d))
         /\ \A x : Like(Optional(x, m), Contract!Value(Some(x), d))
<1>1. \A rows : Like(Fetch(rows, m), Contract!Fetch(rows, d))
  <2> SUFFICES ASSUME NEW rows PROVE Like(Fetch(rows, m), Contract!Fetch(rows, d))
    OBVIOUS
  <2>1. Fetch(rows, m).after = m
    BY DEF Fetch, Value, Error
  <2>2. Contract!Fetch(rows, d) = [ans |-> Fetch(rows, m).ans, after |-> d]
    BY SameAnswers
  <2> QED BY <2>1, <2>2 DEF Like
<1>2. \A value : Like(Value(value, m), Contract!Value(value, d))
  BY SameAnswers DEF Like, Value
<1>3. \A kind : Like(Error(kind, m), Contract!Error(kind, d))
  BY SameAnswers DEF Like, Error
<1>4. /\ \A x : Required(x, m) = Fetch(Some(x), m)
      /\ \A x : Optional(x, m) = Value(Some(x), m)
  BY DEF Required, Optional, Some
<1> QED BY <1>1, <1>2, <1>3, <1>4

LEMMA LikeOk ==
  ASSUME NEW m, NEW d, Mirrors(m, d)
  PROVE  Like(Ok(m), Contract!Ok(d))
BY SameAnswers DEF Like, Ok

-----------------------------------------------------------------------------
(* Rows by id.                                                             *)

LEMMA RowsPut ==
  ASSUME NEW table \in [Kinds -> [Ids -> Record \cup {Nil}]],
         NEW rows \in [Kinds -> [Ids -> SUBSET Record]],
         RowsMirror(table, rows), NEW kind \in Kinds, NEW id \in Ids,
         NEW v \in Record
  PROVE  /\ RowsMirror([table EXCEPT ![kind][id] = v], [rows EXCEPT ![kind][id] = {v}])
         /\ [table EXCEPT ![kind][id] = v] \in [Kinds -> [Ids -> Record \cup {Nil}]]
<1>1. v # Nil
  BY NoRowAssumption DEF Record
<1> QED BY <1>1 DEF RowsMirror, Some

(* Row v is put under id, and list is what is then listed of its job. *)
Putting(table, index, rows, kind, id, job, v, list) ==
  /\ table \in [Kinds -> [Ids -> Record \cup {Nil}]]
  /\ index \in [Kinds -> [Jobs -> SUBSET Ids]]
  /\ rows \in [Kinds -> [Ids -> SUBSET Record]]
  /\ RowsMirror(table, rows) /\ ListsMirror(index, rows)
  /\ kind \in Kinds /\ id \in Ids /\ job \in Jobs /\ v \in Record
  /\ v.job = job /\ \A x \in rows[kind][id] : x.job = job
  /\ table[kind][id] = Nil => list = index[kind][job] \cup {id}
  /\ table[kind][id] # Nil => list = index[kind][job]

LEMMA ListsPut ==
  ASSUME NEW table, NEW index, NEW rows, NEW kind, NEW id, NEW job, NEW v, NEW list,
         Putting(table, index, rows, kind, id, job, v, list)
  PROVE  /\ ListsMirror([index EXCEPT ![kind][job] = list],
                        [rows EXCEPT ![kind][id] = {v}])
         /\ [index EXCEPT ![kind][job] = list] \in [Kinds -> [Jobs -> SUBSET Ids]]
<1> DEFINE after == [index EXCEPT ![kind][job] = list]
           now == [rows EXCEPT ![kind][id] = {v}]
<1> USE DEF Putting
<1>1. after \in [Kinds -> [Jobs -> SUBSET Ids]]
  OBVIOUS
<1>2. ASSUME NEW k \in Kinds \ {"release"} PROVE ByJobMirrors(after[k], now[k])
  <2>1. ByJobMirrors(index[k], rows[k])
    BY <1>2 DEF ListsMirror
  <2>2. CASE k # kind
    <3>1. after[k] = index[k] /\ now[k] = rows[k]
      BY <2>2
    <3> QED BY <2>1, <3>1
  <2>3. CASE k = kind
    <3>1. /\ after[k] = [index[k] EXCEPT ![job] = list]
          /\ now[k] = [rows[k] EXCEPT ![id] = {v}]
      BY <2>3
    <3>2. rows[k][id] = Some(table[k][id])
      BY <2>3 DEF RowsMirror
    <3>3. list = index[k][job] \cup {id}
      <4>1. CASE table[k][id] = Nil
        BY <2>3, <4>1
      <4>2. CASE table[k][id] # Nil
        <5>1. \E x \in rows[k][id] : x.job = job
          BY <2>3, <3>2, <4>2 DEF Some
        <5>2. id \in index[k][job]
          BY <1>1, <2>1, <5>1 DEF ByJobMirrors
        <5> QED BY <2>3, <4>2, <5>2
      <4> QED BY <4>1, <4>2
    <3> HIDE DEF after, now
    <3>4. SUFFICES ASSUME NEW j \in Jobs
                   PROVE  after[k][j] = {i \in Ids : \E x \in now[k][i] : x.job = j}
      BY DEF ByJobMirrors
    <3>5. index[k][j] = {i \in Ids : \E x \in rows[k][i] : x.job = j}
      BY <2>1 DEF ByJobMirrors
    <3>6. now[k][id] = {v} /\ \A i \in Ids \ {id} : now[k][i] = rows[k][i]
      BY <3>1
    <3>7. \A x \in rows[k][id] : x.job = job
      BY <2>3
    <3>8. CASE j = job
      <4>1. after[k][j] = index[k][j] \cup {id}
        BY <1>1, <3>1, <3>3, <3>8
      <4> QED BY <3>5, <3>6, <3>8, <4>1
    <3>9. CASE j # job
      <4>1. after[k][j] = index[k][j]
        BY <1>1, <3>1, <3>9
      <4>2. ASSUME NEW i \in Ids
            PROVE  (\E x \in now[k][i] : x.job = j) <=> \E x \in rows[k][i] : x.job = j
        <5>1. CASE i = id
          BY <3>6, <3>7, <3>9, <5>1
        <5>2. CASE i # id
          BY <3>6, <5>2
        <5> QED BY <5>1, <5>2
      <4> QED BY <3>5, <4>1, <4>2
    <3> QED BY <3>8, <3>9
  <2> QED BY <2>2, <2>3
<1>3. ListsMirror(after, now)
  <2> HIDE DEF after, now
  <2> QED BY <1>2 DEF ListsMirror
<1> QED BY <1>1, <1>3

(* The rows, their lists and the two other indexes become these. *)
RowsBecome(m, a, table, lists, fps, executing, rows) ==
  /\ a = [m EXCEPT !.table = table, !.by_job = lists,
            !.evidence_by_fp = fps, !.operations_executing = executing]
  /\ table \in [Kinds -> [Ids -> Record \cup {Nil}]]
  /\ lists \in [Kinds -> [Jobs -> SUBSET Ids]]
  /\ fps \in [Fingerprints -> SUBSET Ids]
  /\ executing \in SUBSET Ids
  /\ RowsMirror(table, rows) /\ ListsMirror(lists, rows)
  /\ EvidenceMirrors(fps, rows) /\ ExecutingMirrors(executing, rows)

LEMMA RowsBecame ==
  ASSUME NEW m, NEW d \in Contents, Mirrors(m, d), NEW a, NEW table, NEW lists,
         NEW fps, NEW executing, NEW rows,
         RowsBecome(m, a, table, lists, fps, executing, rows)
  PROVE  Like(Ok(a), Contract!Ok([d EXCEPT !.rows = rows]))
<1> DEFINE e == [d EXCEPT !.rows = rows]
<1>1. m \in Mocks
  BY DEF Mirrors
<1>2. /\ a.table = table /\ a.by_job = lists /\ a.evidence_by_fp = fps
      /\ a.operations_executing = executing
      /\ a.events = m.events /\ a.max_sequence = m.max_sequence
      /\ a.projections = m.projections /\ a.sources = m.sources
      /\ a.source_by_fp = m.source_by_fp /\ a.sources_by_job = m.sources_by_job
      /\ a.active_source = m.active_source /\ a.gate_results = m.gate_results
      /\ a.workspaces = m.workspaces /\ a.workspaces_by_job = m.workspaces_by_job
  BY <1>1 DEF Mocks, RowsBecome
<1>3. a \in Mocks
  BY <1>1 DEF Mocks, RowsBecome
<1>4. /\ e.rows = rows
      /\ e.events = d.events /\ e.versions = d.versions /\ e.sources = d.sources
      /\ e.active = d.active /\ e.results = d.results /\ e.workspaces = d.workspaces
  BY DEF Contents
<1> HIDE DEF e
<1>5. Mirrors(a, e)
  BY <1>2, <1>3, <1>4 DEF Mirrors, RowsBecome
<1> QED BY <1>5, LikeOk DEF e

(* Both stores once a row is put by id. *)
RowOf(r) == [job |-> r.job, val |-> r.val]
ListedOnce(m, kind, r) ==
  AddOnce(m.by_job[kind][r.job], m.table[kind][r.id] # Nil, r.id)
TablePut(m, kind, r) == [m.table EXCEPT ![kind][r.id] = RowOf(r)]
ListPut(m, kind, r) == [m.by_job EXCEPT ![kind][r.job] = ListedOnce(m, kind, r)]
RowPut(d, kind, r) == [d.rows EXCEPT ![kind][r.id] = {RowOf(r)}]

LEMMA PutIs ==
  ASSUME NEW m \in Mocks, NEW d \in Contents, NEW kind \in Kinds, NEW r
  PROVE  /\ Insert(m, kind, r) = [m EXCEPT !.table = TablePut(m, kind, r)]
         /\ MockPut(m, kind, r) = Ok([m EXCEPT !.table = TablePut(m, kind, r),
                                               !.by_job = ListPut(m, kind, r)])
         /\ Contract!Put(d, kind, r) =
              Contract!Ok([d EXCEPT !.rows = RowPut(d, kind, r)])
<1>1. Insert(m, kind, r) = [m EXCEPT !.table = TablePut(m, kind, r)]
  BY DEF Insert, TablePut, RowOf
<1>2. [m EXCEPT !.table = TablePut(m, kind, r)].by_job = m.by_job
  BY DEF Mocks
<1>3. MockPut(m, kind, r) = Ok([m EXCEPT !.table = TablePut(m, kind, r),
                                        !.by_job = ListPut(m, kind, r)])
  BY <1>1, <1>2 DEF MockPut, ListedOnce, ListPut
<1>4. Contract!Put(d, kind, r) = Contract!Ok([d EXCEPT !.rows = RowPut(d, kind, r)])
  BY DEF Contract!Put, RowPut, RowOf
<1> QED BY <1>1, <1>3, <1>4

LEMMA RowsArePut ==
  ASSUME NEW m, NEW d \in Contents, Mirrors(m, d), NEW kind \in Kinds, NEW r,
         r.job \in Jobs, r.id \in Ids, r.val \in STRING,
         \A x \in d.rows[kind][r.id] : x.job = r.job
  PROVE  /\ TablePut(m, kind, r) \in [Kinds -> [Ids -> Record \cup {Nil}]]
         /\ ListPut(m, kind, r) \in [Kinds -> [Jobs -> SUBSET Ids]]
         /\ RowsMirror(TablePut(m, kind, r), RowPut(d, kind, r))
         /\ ListsMirror(ListPut(m, kind, r), RowPut(d, kind, r))
<1> DEFINE v == RowOf(r)  list == ListedOnce(m, kind, r)
<1>1. v \in Record /\ v.job = r.job
  BY DEF Record, RowOf
<1>2. /\ m \in Mocks /\ m.table \in [Kinds -> [Ids -> Record \cup {Nil}]]
      /\ m.by_job \in [Kinds -> [Jobs -> SUBSET Ids]]
      /\ d.rows \in [Kinds -> [Ids -> SUBSET Record]]
  BY DEF Mirrors, Mocks, Contents, Record
<1>3. RowsMirror(m.table, d.rows) /\ ListsMirror(m.by_job, d.rows)
  BY DEF Mirrors
<1>4. /\ m.table[kind][r.id] = Nil => list = m.by_job[kind][r.job] \cup {r.id}
      /\ m.table[kind][r.id] # Nil => list = m.by_job[kind][r.job]
  BY DEF ListedOnce, AddOnce
<1> DEFINE table == m.table  index == m.by_job  rows == d.rows
           id == r.id  job == r.job
<1>5. /\ TablePut(m, kind, r) = [table EXCEPT ![kind][id] = v]
      /\ ListPut(m, kind, r) = [index EXCEPT ![kind][job] = list]
      /\ RowPut(d, kind, r) = [rows EXCEPT ![kind][id] = {v}]
  BY DEF TablePut, ListPut, RowPut
<1>6. Putting(table, index, rows, kind, id, job, v, list)
  BY <1>1, <1>2, <1>3, <1>4 DEF Putting
<1> HIDE DEF v, list, table, index, rows, id, job
<1>7. /\ RowsMirror([table EXCEPT ![kind][id] = v], [rows EXCEPT ![kind][id] = {v}])
      /\ [table EXCEPT ![kind][id] = v] \in [Kinds -> [Ids -> Record \cup {Nil}]]
  BY <1>6, RowsPut DEF Putting
<1>8. /\ ListsMirror([index EXCEPT ![kind][job] = list], [rows EXCEPT ![kind][id] = {v}])
      /\ [index EXCEPT ![kind][job] = list] \in [Kinds -> [Jobs -> SUBSET Ids]]
  BY <1>6, ListsPut
<1> QED BY <1>5, <1>7, <1>8

(* Evidence is found by its fingerprint, operations by what executes; no   *)
(* other row is in their indexes.                                          *)
LEMMA OtherRows ==
  ASSUME NEW d \in Contents, NEW kind \in Kinds, NEW r, NEW index
  PROVE  /\ kind # "evidence" /\ EvidenceMirrors(index, d.rows)
              => EvidenceMirrors(index, RowPut(d, kind, r))
         /\ kind # "operation" /\ ExecutingMirrors(index, d.rows)
              => ExecutingMirrors(index, RowPut(d, kind, r))
<1> DEFINE now == RowPut(d, kind, r)
<1>1. \A k \in Kinds \ {kind} : now[k] = d.rows[k]
  BY DEF RowPut, Contents
<1> HIDE DEF now
<1>2. kind # "evidence" => now["evidence"] = d.rows["evidence"]
  BY <1>1 DEF Kinds
<1>3. kind # "operation" => now["operation"] = d.rows["operation"]
  BY <1>1 DEF Kinds
<1>4. kind # "evidence" /\ EvidenceMirrors(index, d.rows)
        => EvidenceMirrors(index, now)
  BY <1>2 DEF EvidenceMirrors
<1>5. kind # "operation" /\ ExecutingMirrors(index, d.rows)
        => ExecutingMirrors(index, now)
  BY <1>3 DEF ExecutingMirrors
<1> QED BY <1>4, <1>5 DEF now

(* A row that is neither evidence nor an operation. *)
LEMMA PutMirrors ==
  ASSUME NEW m, NEW d \in Contents, Mirrors(m, d),
         NEW kind \in Kinds \ {"evidence", "operation"}, NEW r,
         r.job \in Jobs, r.id \in Ids, r.val \in STRING,
         \A x \in d.rows[kind][r.id] : x.job = r.job
  PROVE  Like(MockPut(m, kind, r), Contract!Put(d, kind, r))
<1> DEFINE table == TablePut(m, kind, r)  lists == ListPut(m, kind, r)
           rows == RowPut(d, kind, r)
           a == [m EXCEPT !.table = table, !.by_job = lists]
<1>1. m \in Mocks /\ kind \in Kinds
  BY DEF Mirrors
<1>2. /\ MockPut(m, kind, r) = Ok(a)
      /\ Contract!Put(d, kind, r) = Contract!Ok([d EXCEPT !.rows = rows])
  BY <1>1, PutIs
<1>3. /\ table \in [Kinds -> [Ids -> Record \cup {Nil}]]
      /\ lists \in [Kinds -> [Jobs -> SUBSET Ids]]
      /\ RowsMirror(table, rows) /\ ListsMirror(lists, rows)
  BY RowsArePut
<1>4. /\ EvidenceMirrors(m.evidence_by_fp, rows)
      /\ ExecutingMirrors(m.operations_executing, rows)
  BY OtherRows DEF Mirrors
<1>5. /\ m.evidence_by_fp \in [Fingerprints -> SUBSET Ids]
      /\ m.operations_executing \in SUBSET Ids
  BY <1>1 DEF Mocks
<1>6. a = [m EXCEPT !.table = table, !.by_job = lists,
             !.evidence_by_fp = m.evidence_by_fp,
             !.operations_executing = m.operations_executing]
  BY <1>1 DEF Mocks
<1> HIDE DEF a, table, lists, rows
<1>7. RowsBecome(m, a, table, lists, m.evidence_by_fp, m.operations_executing, rows)
  BY <1>3, <1>4, <1>5, <1>6 DEF RowsBecome
<1> QED BY <1>2, <1>7, RowsBecame

(* An update of a row is a put of it under the job it has. *)
Updated(m, kind, r) ==
  [id |-> r.id, job |-> m.table[kind][r.id].job, val |-> r.val]

LEMMA UpdateIs ==
  ASSUME NEW m, NEW d \in Contents, Mirrors(m, d), NEW kind \in Kinds, NEW r,
         r.id \in Ids, r.val \in STRING, m.table[kind][r.id] # Nil
  PROVE  LET q == Updated(m, kind, r)
         IN  /\ q.id = r.id /\ q.job \in Jobs /\ q.val = r.val
             /\ m.table[kind][r.id] \in Record
             /\ d.rows[kind][r.id] = {m.table[kind][r.id]}
             /\ \A x \in d.rows[kind][q.id] : x.job = q.job
             /\ [m EXCEPT !.table[kind][r.id].val = r.val]
                  = [m EXCEPT !.table = TablePut(m, kind, q)]
             /\ ListPut(m, kind, q) = m.by_job
             /\ Contract!Update(d, kind, r) =
                  Contract!Ok([d EXCEPT !.rows = RowPut(d, kind, q)])
<1> DEFINE q == Updated(m, kind, r)  was == m.table[kind][r.id]
<1>1. was \in Record /\ m \in Mocks
  BY DEF Mirrors, Mocks
<1>2. q.id = r.id /\ q.job = was.job /\ q.job \in Jobs /\ q.val = r.val
  BY <1>1 DEF Updated, Record
<1>3. d.rows[kind][r.id] = {was}
  BY DEF Mirrors, RowsMirror, Some
<1>4. [was EXCEPT !.val = r.val] = RowOf(q)
  BY <1>1, <1>2 DEF Record, RowOf
<1>5. [m EXCEPT !.table[kind][r.id].val = r.val]
        = [m EXCEPT !.table = TablePut(m, kind, q)]
  <2>1. TablePut(m, kind, q) = [m.table EXCEPT ![kind][r.id] = [was EXCEPT !.val = r.val]]
    BY <1>2, <1>4 DEF TablePut
  <2> QED BY <2>1
<1>6. m.by_job[kind][q.job] = ListedOnce(m, kind, q)
  BY <1>2 DEF ListedOnce, AddOnce
<1>7. ListPut(m, kind, q) = m.by_job
  <2>1. m.by_job \in [Kinds -> [Jobs -> SUBSET Ids]]
    BY <1>1 DEF Mocks
  <2> QED BY <1>2, <1>6, <2>1 DEF ListPut
<1>8. Contract!Update(d, kind, r) =
        Contract!Ok([d EXCEPT !.rows = RowPut(d, kind, q)])
  <2>1. {[x EXCEPT !.val = r.val] : x \in d.rows[kind][r.id]} = {RowOf(q)}
    BY <1>3, <1>4
  <2>2. Contract!Update(d, kind, r) =
          Contract!Ok([d EXCEPT !.rows[kind][r.id] =
                         {[x EXCEPT !.val = r.val] : x \in d.rows[kind][r.id]}])
    BY <1>3 DEF Contract!Update
  <2> QED BY <1>2, <2>1, <2>2 DEF RowPut
<1> QED BY <1>1, <1>2, <1>3, <1>5, <1>7, <1>8

(* Both stores have the row or neither has. *)
LEMMA SameRow ==
  ASSUME NEW m, NEW d, Mirrors(m, d), NEW kind \in Kinds, NEW i \in Ids
  PROVE  /\ d.rows[kind][i] = Some(m.table[kind][i])
         /\ m.table[kind][i] = Nil <=> d.rows[kind][i] = {}
         /\ m.table[kind][i] # Nil <=> d.rows[kind][i] # {}
BY DEF Mirrors, RowsMirror, Some

LEMMA ObligationUpdateMirrors ==
  ASSUME NEW m, NEW d \in Contents, Mirrors(m, d), NEW r,
         r.id \in Ids, r.val \in STRING, r.op = "update_obligation"
  PROVE  Like(MockObligationStore(m, r), Contract!Update(d, "obligation", r))
<1> DEFINE kind == "obligation"
<1>1. kind \in Kinds
  BY DEF Kinds
<1>2. CASE m.table[kind][r.id] = Nil
  <2>1. MockObligationStore(m, r) = Error("NotFound", m)
    BY <1>2 DEF MockObligationStore
  <2>2. Contract!Update(d, kind, r) = Contract!Error("NotFound", d)
    BY <1>1, <1>2, SameRow DEF Contract!Update
  <2> QED BY <2>1, <2>2, LikeReads
<1>3. CASE m.table[kind][r.id] # Nil
  <2> DEFINE q == Updated(m, kind, r)
             a == [m EXCEPT !.table = TablePut(m, kind, q)]
             rows == RowPut(d, kind, q)
  <2>1. MockObligationStore(m, r) = Ok([m EXCEPT !.table[kind][r.id].val = r.val])
    BY <1>3 DEF MockObligationStore
  <2>2. /\ q.id = r.id /\ q.job \in Jobs /\ q.val = r.val
        /\ \A x \in d.rows[kind][q.id] : x.job = q.job
        /\ [m EXCEPT !.table[kind][r.id].val = r.val] = a
        /\ ListPut(m, kind, q) = m.by_job
        /\ Contract!Update(d, kind, r) = Contract!Ok([d EXCEPT !.rows = rows])
    BY <1>1, <1>3, UpdateIs
  <2> HIDE DEF q
  <2>3. /\ TablePut(m, kind, q) \in [Kinds -> [Ids -> Record \cup {Nil}]]
        /\ ListPut(m, kind, q) \in [Kinds -> [Jobs -> SUBSET Ids]]
        /\ RowsMirror(TablePut(m, kind, q), rows)
        /\ ListsMirror(ListPut(m, kind, q), rows)
    BY <1>1, <2>2, RowsArePut
  <2>4. /\ EvidenceMirrors(m.evidence_by_fp, rows)
        /\ ExecutingMirrors(m.operations_executing, rows)
    BY <1>1, OtherRows DEF Mirrors
  <2>5. /\ m \in Mocks
        /\ m.evidence_by_fp \in [Fingerprints -> SUBSET Ids]
        /\ m.operations_executing \in SUBSET Ids
    BY DEF Mirrors, Mocks
  <2>6. a = [m EXCEPT !.table = TablePut(m, kind, q), !.by_job = m.by_job,
               !.evidence_by_fp = m.evidence_by_fp,
               !.operations_executing = m.operations_executing]
    BY <2>5 DEF Mocks
  <2> HIDE DEF a, rows
  <2>7. RowsBecome(m, a, TablePut(m, kind, q), m.by_job, m.evidence_by_fp,
                   m.operations_executing, rows)
    BY <2>2, <2>3, <2>4, <2>5, <2>6 DEF RowsBecome
  <2> QED BY <2>1, <2>2, <2>7, RowsBecame DEF kind
<1> QED BY <1>2, <1>3

(* The table of release candidates has no list beside it. *)
LEMMA ReleasePutMirrors ==
  ASSUME NEW m, NEW d \in Contents, Mirrors(m, d), NEW r,
         r.job \in Jobs, r.id \in Ids, r.val \in STRING,
         \A x \in d.rows["release"][r.id] : x.job = r.job
  PROVE  Like(Ok(Insert(m, "release", r)), Contract!Put(d, "release", r))
<1> DEFINE kind == "release"  a == Insert(m, kind, r)
           table == TablePut(m, kind, r)  rows == RowPut(d, kind, r)
<1>1. m \in Mocks /\ kind \in Kinds
  BY DEF Mirrors, Kinds
<1>2. /\ a = [m EXCEPT !.table = table]
      /\ Contract!Put(d, kind, r) = Contract!Ok([d EXCEPT !.rows = rows])
  BY <1>1, PutIs
<1>3. /\ table \in [Kinds -> [Ids -> Record \cup {Nil}]]
      /\ RowsMirror(table, rows)
  BY <1>1, RowsArePut
<1>4. ListsMirror(m.by_job, rows)
  <2>1. \A k \in Kinds \ {kind} : rows[k] = d.rows[k]
    BY DEF RowPut, Contents
  <2> HIDE DEF rows
  <2> QED BY <2>1 DEF Mirrors, ListsMirror
<1>5. /\ EvidenceMirrors(m.evidence_by_fp, rows)
      /\ ExecutingMirrors(m.operations_executing, rows)
  BY <1>1, OtherRows DEF Mirrors
<1>6. /\ m.by_job \in [Kinds -> [Jobs -> SUBSET Ids]]
      /\ m.evidence_by_fp \in [Fingerprints -> SUBSET Ids]
      /\ m.operations_executing \in SUBSET Ids
  BY <1>1 DEF Mocks
<1> HIDE DEF table
<1>7. a = [m EXCEPT !.table = table, !.by_job = m.by_job,
             !.evidence_by_fp = m.evidence_by_fp,
             !.operations_executing = m.operations_executing]
  BY <1>1, <1>2 DEF Mocks
<1> HIDE DEF a, rows
<1>8. RowsBecome(m, a, table, m.by_job, m.evidence_by_fp, m.operations_executing, rows)
  BY <1>3, <1>4, <1>5, <1>6, <1>7 DEF RowsBecome
<1>9. Like(Ok(a), Contract!Ok([d EXCEPT !.rows = rows]))
  BY <1>8, RowsBecame
<1> QED BY <1>2, <1>9 DEF a, kind

(* Evidence is put once under its fingerprint. *)
LEMMA EvidencePutMirrors ==
  ASSUME NEW m, NEW d \in Contents, Mirrors(m, d), NEW r, r.op = "put_evidence",
         r.job \in Jobs, r.id \in Ids, r.val \in STRING, r.val \in Fingerprints,
         \A x \in d.rows["evidence"][r.id] : x.job = r.job /\ x.val = r.val
  PROVE  Like(MockEvidenceStore(m, r), Contract!Put(d, "evidence", r))
<1> DEFINE kind == "evidence"
           table == TablePut(m, kind, r)  lists == ListPut(m, kind, r)
           rows == RowPut(d, kind, r)
           put == [m EXCEPT !.table = table, !.by_job = lists]
           list == AddOnce(m.evidence_by_fp[r.val], m.table[kind][r.id] # Nil, r.id)
           fps == [m.evidence_by_fp EXCEPT ![r.val] = list]
           a == [put EXCEPT !.evidence_by_fp = fps]
<1>1. m \in Mocks /\ kind \in Kinds
  BY DEF Mirrors, Kinds
<1>2. /\ MockPut(m, kind, r) = Ok(put)
      /\ Contract!Put(d, kind, r) = Contract!Ok([d EXCEPT !.rows = rows])
  BY <1>1, PutIs
<1>3. /\ table \in [Kinds -> [Ids -> Record \cup {Nil}]]
      /\ lists \in [Kinds -> [Jobs -> SUBSET Ids]]
      /\ RowsMirror(table, rows) /\ ListsMirror(lists, rows)
  BY <1>1, RowsArePut
<1>4. put.evidence_by_fp = m.evidence_by_fp
  <2> HIDE DEF table, lists
  <2> QED BY <1>1 DEF Mocks
<1>5. MockEvidenceStore(m, r) = Ok(a)
  <2>1. Ok(put).after = put
    BY DEF Ok
  <2>2. MockPut(m, "evidence", r).after = put
    BY <1>2, <2>1
  <2> HIDE DEF put
  <2> QED BY <1>4, <2>2 DEF MockEvidenceStore
<1>6. list = m.evidence_by_fp[r.val] \cup {r.id} /\ fps \in [Fingerprints -> SUBSET Ids]
  <2>1. m.evidence_by_fp \in [Fingerprints -> SUBSET Ids]
    BY <1>1 DEF Mocks
  <2>2. list = m.evidence_by_fp[r.val] \cup {r.id}
    <3>1. CASE m.table[kind][r.id] = Nil
      BY <3>1 DEF AddOnce
    <3>2. CASE m.table[kind][r.id] # Nil
      <4>1. \E x \in d.rows["evidence"][r.id] : x.val = r.val
        BY <1>1, <3>2, SameRow
      <4>2. r.id \in m.evidence_by_fp[r.val]
        BY <4>1 DEF Mirrors, EvidenceMirrors
      <4> QED BY <3>2, <4>2 DEF AddOnce
    <3> QED BY <3>1, <3>2
  <2> HIDE DEF list
  <2> QED BY <2>1, <2>2
<1>7. EvidenceMirrors(fps, rows)
  <2>1. /\ rows[kind][r.id] = {RowOf(r)} /\ RowOf(r).val = r.val
        /\ \A i \in Ids \ {r.id} : rows[kind][i] = d.rows[kind][i]
    BY <1>1 DEF RowPut, Contents, RowOf
  <2>2. /\ m.evidence_by_fp \in [Fingerprints -> SUBSET Ids]
        /\ \A f \in Fingerprints :
             m.evidence_by_fp[f] = {i \in Ids : \E x \in d.rows[kind][i] : x.val = f}
    BY <1>1 DEF Mocks, Mirrors, EvidenceMirrors
  <2> HIDE DEF list, rows
  <2>3. SUFFICES ASSUME NEW f \in Fingerprints
                 PROVE  fps[f] = {i \in Ids : \E x \in rows[kind][i] : x.val = f}
    BY DEF EvidenceMirrors
  <2>4. CASE f = r.val
    <3>1. fps[f] = m.evidence_by_fp[f] \cup {r.id}
      BY <1>6, <2>2, <2>4
    <3> QED BY <2>1, <2>2, <2>4, <3>1
  <2>5. CASE f # r.val
    <3>1. fps[f] = m.evidence_by_fp[f]
      BY <2>2, <2>5
    <3>2. ASSUME NEW i \in Ids
          PROVE  (\E x \in rows[kind][i] : x.val = f)
                   <=> \E x \in d.rows[kind][i] : x.val = f
      <4>1. CASE i = r.id
        BY <2>1, <2>5, <4>1
      <4>2. CASE i # r.id
        BY <2>1, <4>2
      <4> QED BY <4>1, <4>2
    <3> QED BY <2>2, <3>1, <3>2
  <2> QED BY <2>4, <2>5
<1>8. ExecutingMirrors(m.operations_executing, rows) /\ m.operations_executing \in SUBSET Ids
  BY <1>1, OtherRows DEF Mirrors, Mocks
<1> HIDE DEF table, lists, fps, list
<1>9. a = [m EXCEPT !.table = table, !.by_job = lists, !.evidence_by_fp = fps,
             !.operations_executing = m.operations_executing]
  BY <1>1 DEF Mocks
<1> HIDE DEF a, rows, put
<1>10. RowsBecome(m, a, table, lists, fps, m.operations_executing, rows)
  BY <1>3, <1>6, <1>7, <1>8, <1>9 DEF RowsBecome
<1>11. Like(Ok(a), Contract!Ok([d EXCEPT !.rows = rows]))
  BY <1>10, RowsBecame
<1> QED BY <1>2, <1>5, <1>11 DEF kind

(* What executes once an operation is put. *)
ExecutingAfter(m, q) ==
  IF q.val = "executing" THEN m.operations_executing \cup {q.id}
  ELSE m.operations_executing \ {q.id}

LEMMA ExecutingPut ==
  ASSUME NEW m, NEW d \in Contents, Mirrors(m, d), NEW q,
         q.job \in Jobs, q.id \in Ids, q.val \in STRING
  PROVE  ExecutingMirrors(ExecutingAfter(m, q), RowPut(d, "operation", q))
<1> DEFINE kind == "operation"  rows == RowPut(d, kind, q)
<1>1. kind \in Kinds
  BY DEF Kinds
<1>2. /\ rows[kind][q.id] = {RowOf(q)} /\ RowOf(q).val = q.val
      /\ \A i \in Ids \ {q.id} : rows[kind][i] = d.rows[kind][i]
  BY <1>1 DEF RowPut, Contents, RowOf
<1>3. m.operations_executing
        = {i \in Ids : \E x \in d.rows[kind][i] : x.val = "executing"}
  BY DEF Mirrors, ExecutingMirrors
<1> HIDE DEF rows
<1>4. CASE q.val = "executing"
  <2>1. m.operations_executing \cup {q.id}
          = {i \in Ids : \E x \in rows[kind][i] : x.val = "executing"}
    BY <1>2, <1>3, <1>4
  <2> QED BY <1>4, <2>1 DEF ExecutingMirrors, ExecutingAfter, rows
<1>5. CASE q.val # "executing"
  <2>1. m.operations_executing \ {q.id}
          = {i \in Ids : \E x \in rows[kind][i] : x.val = "executing"}
    BY <1>2, <1>3, <1>5
  <2> QED BY <1>5, <2>1 DEF ExecutingMirrors, ExecutingAfter, rows
<1> QED BY <1>4, <1>5

(* The operation is not there, or does not execute. *)
Proposed(d, r) ==
  /\ r.val # "executing"
  /\ \A x \in d.rows["operation"][r.id] : x.val # "executing"

LEMMA OperationPutMirrors ==
  ASSUME NEW m, NEW d \in Contents, Mirrors(m, d), NEW r,
         r.job \in Jobs, r.id \in Ids, r.val \in STRING, Proposed(d, r),
         \A x \in d.rows["operation"][r.id] : x.job = r.job
  PROVE  Like(MockPut(m, "operation", r), Contract!Put(d, "operation", r))
<1> DEFINE kind == "operation"
           table == TablePut(m, kind, r)  lists == ListPut(m, kind, r)
           rows == RowPut(d, kind, r)
           a == [m EXCEPT !.table = table, !.by_job = lists]
<1>1. m \in Mocks /\ kind \in Kinds
  BY DEF Mirrors, Kinds
<1>2. /\ MockPut(m, kind, r) = Ok(a)
      /\ Contract!Put(d, kind, r) = Contract!Ok([d EXCEPT !.rows = rows])
  BY <1>1, PutIs
<1>3. /\ table \in [Kinds -> [Ids -> Record \cup {Nil}]]
      /\ lists \in [Kinds -> [Jobs -> SUBSET Ids]]
      /\ RowsMirror(table, rows) /\ ListsMirror(lists, rows)
  BY <1>1, RowsArePut
<1>4. EvidenceMirrors(m.evidence_by_fp, rows)
  BY <1>1, OtherRows DEF Mirrors
<1>5. ExecutingMirrors(m.operations_executing, rows)
  <2>1. r.id \notin m.operations_executing
    BY DEF Mirrors, ExecutingMirrors, Proposed
  <2>2. m.operations_executing \ {r.id} = m.operations_executing
    BY <2>1
  <2>3. ExecutingMirrors(ExecutingAfter(m, r), rows)
    BY ExecutingPut
  <2>4. ExecutingAfter(m, r) = m.operations_executing \ {r.id}
    BY DEF ExecutingAfter, Proposed
  <2> QED BY <2>2, <2>3, <2>4
<1>6. /\ m.evidence_by_fp \in [Fingerprints -> SUBSET Ids]
      /\ m.operations_executing \in SUBSET Ids
  BY <1>1 DEF Mocks
<1> HIDE DEF table, lists, rows
<1>7. a = [m EXCEPT !.table = table, !.by_job = lists,
             !.evidence_by_fp = m.evidence_by_fp,
             !.operations_executing = m.operations_executing]
  BY <1>1 DEF Mocks
<1> HIDE DEF a
<1>8. RowsBecome(m, a, table, lists, m.evidence_by_fp, m.operations_executing, rows)
  BY <1>3, <1>4, <1>5, <1>6, <1>7 DEF RowsBecome
<1> QED BY <1>2, <1>8, RowsBecame

LEMMA OperationUpdateMirrors ==
  ASSUME NEW m, NEW d \in Contents, Mirrors(m, d), NEW r,
         r.id \in Ids, r.val \in STRING
  PROVE  Like(update_operation(m, r), Contract!Update(d, "operation", r))
<1> DEFINE kind == "operation"  was == m.table[kind][r.id]
<1>1. m \in Mocks /\ kind \in Kinds
  BY DEF Mirrors, Kinds
<1>2. CASE was = Nil
  <2>1. update_operation(m, r) = Error("NotFound", m)
    BY <1>2 DEF update_operation
  <2>2. Contract!Update(d, kind, r) = Contract!Error("NotFound", d)
    BY <1>1, <1>2, SameRow DEF Contract!Update
  <2> QED BY <2>1, <2>2, LikeReads
<1>3. CASE was # Nil
  <2> DEFINE q == Updated(m, kind, r)
             table == TablePut(m, kind, q)
             put == [m EXCEPT !.table = table]
             rows == RowPut(d, kind, q)
             executing == ExecutingAfter(m, q)
             a == [put EXCEPT !.operations_executing = executing]
  <2>1. /\ q.id = r.id /\ q.job \in Jobs /\ q.val = r.val
        /\ was \in Record /\ d.rows[kind][r.id] = {was}
        /\ \A x \in d.rows[kind][q.id] : x.job = q.job
        /\ [m EXCEPT !.table[kind][r.id].val = r.val] = put
        /\ ListPut(m, kind, q) = m.by_job
        /\ Contract!Update(d, kind, r) = Contract!Ok([d EXCEPT !.rows = rows])
    BY <1>1, <1>3, UpdateIs
  <2> HIDE DEF q
  <2>2. /\ table \in [Kinds -> [Ids -> Record \cup {Nil}]]
        /\ ListPut(m, kind, q) \in [Kinds -> [Jobs -> SUBSET Ids]]
        /\ RowsMirror(table, rows) /\ ListsMirror(ListPut(m, kind, q), rows)
    BY <1>1, <2>1, RowsArePut
  <2>3. EvidenceMirrors(m.evidence_by_fp, rows)
    BY <1>1, OtherRows DEF Mirrors
  <2>4. ExecutingMirrors(executing, rows)
    BY <2>1, ExecutingPut
  <2>5. /\ m.evidence_by_fp \in [Fingerprints -> SUBSET Ids]
        /\ executing \in SUBSET Ids /\ m.operations_executing \in SUBSET Ids
    BY <1>1, <2>1 DEF Mocks, ExecutingAfter
  <2>6. r.id \in m.operations_executing <=> was.val = "executing"
    BY <2>1 DEF Mirrors, ExecutingMirrors
  <2>7. put.operations_executing = m.operations_executing
    BY <1>1 DEF Mocks
  <2>8. update_operation(m, r) = Ok(a)
    <3> DEFINE changed == [m EXCEPT !.table[kind][r.id].val = r.val]
    <3>1. CASE was.val # "executing" /\ r.val = "executing"
      <4>1. update_operation(m, r) =
              Ok([changed EXCEPT !.operations_executing = @ \cup {r.id}])
        BY <1>3, <3>1 DEF update_operation
      <4> HIDE DEF changed, put
      <4>2. executing = m.operations_executing \cup {r.id}
        BY <2>1, <3>1 DEF ExecutingAfter
      <4> QED BY <2>1, <2>7, <4>1, <4>2 DEF changed
    <3>2. CASE was.val = "executing" /\ r.val # "executing"
      <4>1. update_operation(m, r) =
              Ok([changed EXCEPT !.operations_executing = @ \ {r.id}])
        BY <1>3, <3>2 DEF update_operation
      <4> HIDE DEF changed, put
      <4>2. executing = m.operations_executing \ {r.id}
        BY <2>1, <3>2 DEF ExecutingAfter
      <4> QED BY <2>1, <2>7, <4>1, <4>2 DEF changed
    <3>3. CASE was.val = "executing" <=> r.val = "executing"
      <4>1. update_operation(m, r) = Ok(changed)
        BY <1>3, <3>3 DEF update_operation
      <4>2. put = [put EXCEPT !.operations_executing = put.operations_executing]
        <5> HIDE DEF table
        <5> QED BY <1>1 DEF Mocks
      <4> HIDE DEF changed, put
      <4>3. executing = m.operations_executing
        BY <2>1, <2>5, <2>6, <3>3 DEF ExecutingAfter
      <4> QED BY <2>1, <2>7, <4>1, <4>2, <4>3 DEF changed
    <3> QED BY <3>1, <3>2, <3>3
  <2> HIDE DEF table, executing
  <2>9. a = [m EXCEPT !.table = table, !.by_job = m.by_job,
               !.evidence_by_fp = m.evidence_by_fp,
               !.operations_executing = executing]
    BY <1>1 DEF Mocks
  <2> HIDE DEF a, rows
  <2>10. RowsBecome(m, a, table, m.by_job, m.evidence_by_fp, executing, rows)
    BY <2>1, <2>2, <2>3, <2>4, <2>5, <2>9 DEF RowsBecome
  <2> QED BY <2>1, <2>8, <2>10, RowsBecame DEF kind
<1> QED BY <1>2, <1>3

(* What is read of a table of rows. *)
LEMMA RowReads ==
  ASSUME NEW m, NEW d, Mirrors(m, d), NEW kind \in Kinds, NEW r
  PROVE  /\ r.id \in Ids => Like(MockGet(m, kind, r), Contract!Get(d, kind, r))
         /\ kind # "release" /\ r.job \in Jobs
              => Like(MockList(m, kind, r), Contract!List(d, kind, r))
<1>1. ASSUME r.id \in Ids PROVE Like(MockGet(m, kind, r), Contract!Get(d, kind, r))
  <2>1. d.rows[kind][r.id] = Some(m.table[kind][r.id])
    BY <1>1, SameRow
  <2>2. Like(Required(m.table[kind][r.id], m),
             Contract!Fetch(Some(m.table[kind][r.id]), d))
    BY LikeReads
  <2> QED BY <2>1, <2>2 DEF MockGet, Contract!Get
<1>2. ASSUME kind # "release", r.job \in Jobs
      PROVE  Like(MockList(m, kind, r), Contract!List(d, kind, r))
  <2>1. m.by_job[kind][r.job]
          = {i \in Ids : \E x \in d.rows[kind][i] : x.job = r.job}
    BY <1>2 DEF Mirrors, ListsMirror, ByJobMirrors
  <2>2. Like(Value(m.by_job[kind][r.job], m),
             Contract!Value(m.by_job[kind][r.job], d))
    BY LikeReads
  <2> QED BY <2>1, <2>2 DEF MockList, Contract!List
<1> QED BY <1>1, <1>2

(* The calls that are on script, by what the store holds. *)
Scripted(d, r) ==
  /\ r.op = "put_source_candidate" =>
       /\ d.versions[r.job] # {}
       /\ \A x \in d.sources[r.id] : x.fp = r.fp /\ x.job = r.job
  /\ r.op \in RowPuts =>
       \A x \in d.rows[RowKind[r.op]][r.id] : x.job = r.job
  /\ r.op = "put_evidence" => \A x \in d.rows["evidence"][r.id] : x.val = r.val
  /\ r.op = "put_operation" => Proposed(d, r)
  /\ r.op = "put_workspace_state" => \A x \in d.workspaces[r.id] : x.job = r.job

LEMMA EvidenceMirrored ==
  ASSUME NEW m, NEW d \in Contents, Mirrors(m, d),
         NEW r \in Requests, r.trait = "EvidenceStore", Scripted(d, r)
  PROVE  Like(MockEvidenceStore(m, r), Contract!EvidenceStore(d, r))
<1>1. r.op \in Methods.EvidenceStore
  BY MethodOf
<1>2. "evidence" \in Kinds
  BY DEF Kinds
<1>3. CASE r.op = "put_evidence"
  <2>1. /\ r.job \in Jobs /\ r.id \in Ids /\ r.val \in STRING
        /\ r.val \in Fingerprints
    BY <1>3, RequestsAssumption DEF ByJob, ById, ByValue, Puts, RowPuts, RowKind
  <2>2. \A x \in d.rows["evidence"][r.id] : x.job = r.job /\ x.val = r.val
    BY <1>3 DEF Scripted, RowPuts, RowKind
  <2>3. Like(MockEvidenceStore(m, r), Contract!Put(d, "evidence", r))
    BY <1>3, <2>1, <2>2, EvidencePutMirrors
  <2> QED BY <1>3, <2>3 DEF Contract!EvidenceStore
<1>4. CASE r.op = "get_evidence"
  <2>1. r.id \in Ids
    BY <1>4, RequestsAssumption DEF ById
  <2> QED BY <1>2, <1>4, <2>1, RowReads DEF MockEvidenceStore, Contract!EvidenceStore
<1>5. CASE r.op = "list_evidence_for_job"
  <2>1. r.job \in Jobs
    BY <1>5, RequestsAssumption DEF ByJob
  <2> QED BY <1>2, <1>5, <2>1, RowReads DEF MockEvidenceStore, Contract!EvidenceStore
<1>6. CASE r.op = "list_evidence_for_candidate"
  <2>1. r.fp \in Fingerprints
    BY <1>6, RequestsAssumption DEF ByFingerprint
  <2>2. m.evidence_by_fp[r.fp]
          = {i \in Ids : \E x \in d.rows["evidence"][i] : x.val = r.fp}
    BY <2>1 DEF Mirrors, EvidenceMirrors
  <2>3. Like(Value(m.evidence_by_fp[r.fp], m), Contract!Value(m.evidence_by_fp[r.fp], d))
    BY LikeReads
  <2> QED BY <1>6, <2>2, <2>3 DEF MockEvidenceStore, Contract!EvidenceStore, Contract!With
<1> QED BY <1>1, <1>3, <1>4, <1>5, <1>6 DEF Methods

LEMMA ObligationMirrored ==
  ASSUME NEW m, NEW d \in Contents, Mirrors(m, d),
         NEW r \in Requests, r.trait = "ObligationStore", Scripted(d, r)
  PROVE  Like(MockObligationStore(m, r), Contract!ObligationStore(d, r))
<1>1. r.op \in Methods.ObligationStore
  BY MethodOf
<1>2. "obligation" \in Kinds \ {"evidence", "operation"}
  BY DEF Kinds
<1>3. CASE r.op = "put_obligation"
  <2>1. r.job \in Jobs /\ r.id \in Ids /\ r.val \in STRING
    BY <1>3, RequestsAssumption DEF ByJob, ById, ByValue, Puts, RowPuts, RowKind
  <2>2. \A x \in d.rows["obligation"][r.id] : x.job = r.job
    BY <1>3 DEF Scripted, RowPuts, RowKind
  <2>3. Like(MockPut(m, "obligation", r), Contract!Put(d, "obligation", r))
    BY <1>2, <2>1, <2>2, PutMirrors
  <2> QED BY <1>3, <2>3 DEF MockObligationStore, Contract!ObligationStore
<1>4. CASE r.op = "get_obligation"
  <2>1. r.id \in Ids
    BY <1>4, RequestsAssumption DEF ById
  <2> QED BY <1>2, <1>4, <2>1, RowReads
          DEF MockObligationStore, Contract!ObligationStore
<1>5. CASE r.op = "list_obligations_for_job"
  <2>1. r.job \in Jobs
    BY <1>5, RequestsAssumption DEF ByJob
  <2> QED BY <1>2, <1>5, <2>1, RowReads
          DEF MockObligationStore, Contract!ObligationStore
<1>6. CASE r.op = "update_obligation"
  <2>1. r.id \in Ids /\ r.val \in STRING
    BY <1>6, RequestsAssumption DEF ById, ByValue
  <2>2. Like(MockObligationStore(m, r), Contract!Update(d, "obligation", r))
    BY <1>6, <2>1, ObligationUpdateMirrors
  <2> QED BY <1>6, <2>2 DEF Contract!ObligationStore
<1> QED BY <1>1, <1>3, <1>4, <1>5, <1>6 DEF Methods

LEMMA OperationMirrored ==
  ASSUME NEW m, NEW d \in Contents, Mirrors(m, d),
         NEW r \in Requests, r.trait = "OperationStore", Scripted(d, r)
  PROVE  Like(MockOperationStore(m, r), Contract!OperationStore(d, r))
<1>1. r.op \in Methods.OperationStore
  BY MethodOf
<1>2. "operation" \in Kinds
  BY DEF Kinds
<1>3. CASE r.op = "put_operation"
  <2>1. r.job \in Jobs /\ r.id \in Ids /\ r.val \in STRING
    BY <1>3, RequestsAssumption DEF ByJob, ById, ByValue, Puts, RowPuts, RowKind
  <2>2. Proposed(d, r) /\ \A x \in d.rows["operation"][r.id] : x.job = r.job
    BY <1>3 DEF Scripted, RowPuts, RowKind
  <2>3. Like(MockPut(m, "operation", r), Contract!Put(d, "operation", r))
    BY <2>1, <2>2, OperationPutMirrors
  <2> QED BY <1>3, <2>3 DEF MockOperationStore, Contract!OperationStore
<1>4. CASE r.op = "get_operation"
  <2>1. r.id \in Ids
    BY <1>4, RequestsAssumption DEF ById
  <2> QED BY <1>2, <1>4, <2>1, RowReads DEF MockOperationStore, Contract!OperationStore
<1>5. CASE r.op = "list_operations_for_job"
  <2>1. r.job \in Jobs
    BY <1>5, RequestsAssumption DEF ByJob
  <2> QED BY <1>2, <1>5, <2>1, RowReads DEF MockOperationStore, Contract!OperationStore
<1>6. CASE r.op = "update_operation"
  <2>1. r.id \in Ids /\ r.val \in STRING
    BY <1>6, RequestsAssumption DEF ById, ByValue
  <2>2. Like(update_operation(m, r), Contract!Update(d, "operation", r))
    BY <2>1, OperationUpdateMirrors
  <2> QED BY <1>6, <2>2 DEF MockOperationStore, Contract!OperationStore
<1>7. CASE r.op = "list_executing_operations"
  <2>1. m.operations_executing
          = {i \in Ids : \E x \in d.rows["operation"][i] : x.val = "executing"}
    BY DEF Mirrors, ExecutingMirrors
  <2>2. Like(Value(m.operations_executing, m), Contract!Value(m.operations_executing, d))
    BY LikeReads
  <2> QED BY <1>7, <2>1, <2>2 DEF MockOperationStore, Contract!OperationStore, Contract!With
<1> QED BY <1>1, <1>3, <1>4, <1>5, <1>6, <1>7 DEF Methods

-----------------------------------------------------------------------------
(* Results of gates.                                                       *)

(* The result that is found is the last of the fingerprint. *)
LEMMA LastResult ==
  ASSUME NEW results \in Seq(Result), NEW v \in Result, NEW f
  PROVE  find_gate_result(Append(results, v), f)
           = IF f = v.fp THEN v.val ELSE find_gate_result(results, f)
<1> DEFINE after == Append(results, v)
           n == Len(results)
           at == {k \in DOMAIN results : results[k].fp = f}
           now == {k \in DOMAIN after : after[k].fp = f}
           Greatest(T) == CHOOSE k \in T : \A y \in T : k >= y
<1>1. /\ n \in Nat /\ DOMAIN results = 1..n /\ DOMAIN after = 1..(n + 1)
      /\ after[n + 1] = v /\ \A k \in 1..n : after[k] = results[k]
  OBVIOUS
<1>2. /\ find_gate_result(after, f) = IF now = {} THEN Nil ELSE after[Greatest(now)].val
      /\ find_gate_result(results, f) = IF at = {} THEN Nil ELSE results[Greatest(at)].val
  BY DEF find_gate_result
<1>3. at \in SUBSET (1..n)
  BY <1>1
<1>4. now = IF f = v.fp THEN at \cup {n + 1} ELSE at
  <2> HIDE DEF after, n
  <2> QED BY <1>1
<1> SUFFICES find_gate_result(after, f)
               = IF f = v.fp THEN v.val ELSE find_gate_result(results, f)
  OBVIOUS
<1> HIDE DEF after, at, now, n
<1>5. CASE f = v.fp
  <2>1. n + 1 \in now /\ \A y \in now : n + 1 >= y
    BY <1>1, <1>3, <1>4, <1>5
  <2>2. \A k \in now : n + 1 >= k /\ ((\A y \in now : k >= y) => k = n + 1)
    BY <1>1, <1>3, <1>4, <1>5, <2>1
  <2>3. Greatest(now) = n + 1
    BY <2>1, <2>2
  <2> QED BY <1>1, <1>2, <1>5, <2>1, <2>3
<1>6. CASE f # v.fp
  <2>1. now = at
    BY <1>4, <1>6
  <2>2. CASE at = {}
    BY <1>2, <1>6, <2>1, <2>2
  <2>3. CASE at # {}
    <3> DEFINE back == {n - k : k \in at}
    <3>0. \A k \in at : n - k \in Nat
      BY <1>1, <1>3
    <3>1. back \in SUBSET Nat /\ back # {}
      BY <2>3, <3>0
    <3>2. PICK x \in back : \A y \in back : x <= y
      <4> HIDE DEF back
      <4> QED BY <3>1, Least
    <3>3. PICK k \in at : x = n - k
      OBVIOUS
    <3>4. \A y \in at : k >= y
      <4> SUFFICES ASSUME NEW y \in at PROVE k >= y
        OBVIOUS
      <4>1. n - k <= n - y
        BY <3>2, <3>3
      <4> QED BY <1>1, <1>3, <3>3, <4>1
    <3>5. Greatest(at) \in at
      BY <3>3, <3>4
    <3> QED BY <1>1, <1>2, <1>3, <1>6, <2>1, <2>3, <3>5
  <2> QED BY <2>2, <2>3
<1> QED BY <1>5, <1>6

(* The gate results become these. *)
LEMMA ResultsBecame ==
  ASSUME NEW m, NEW d \in Contents, Mirrors(m, d),
         NEW stored \in [Ids -> Seq(Result)], NEW results,
         ResultsMirror(stored, results)
  PROVE  Like(Ok([m EXCEPT !.gate_results = stored]),
              Contract!Ok([d EXCEPT !.results = results]))
<1> DEFINE a == [m EXCEPT !.gate_results = stored]
           e == [d EXCEPT !.results = results]
<1>1. m \in Mocks
  BY DEF Mirrors
<1>2. /\ a.gate_results = stored
      /\ a.events = m.events /\ a.max_sequence = m.max_sequence
      /\ a.projections = m.projections /\ a.sources = m.sources
      /\ a.source_by_fp = m.source_by_fp /\ a.sources_by_job = m.sources_by_job
      /\ a.active_source = m.active_source /\ a.table = m.table
      /\ a.by_job = m.by_job /\ a.evidence_by_fp = m.evidence_by_fp
      /\ a.operations_executing = m.operations_executing
      /\ a.workspaces = m.workspaces /\ a.workspaces_by_job = m.workspaces_by_job
      /\ a \in Mocks
  BY <1>1 DEF Mocks
<1>3. /\ e.results = results
      /\ e.events = d.events /\ e.versions = d.versions /\ e.sources = d.sources
      /\ e.active = d.active /\ e.rows = d.rows /\ e.workspaces = d.workspaces
  BY DEF Contents
<1> HIDE DEF a, e
<1>4. Mirrors(a, e)
  BY <1>2, <1>3 DEF Mirrors
<1> QED BY <1>4, LikeOk DEF a, e

(* Both stores once a result is put. *)
ResultAppended(m, r) ==
  [m.gate_results EXCEPT ![r.id] = Append(@, [fp |-> r.fp, val |-> r.val])]
ResultReplaced(d, r) == [d.results EXCEPT ![r.id][r.fp] = {r.val}]

LEMMA ResultPutMirrors ==
  ASSUME NEW m, NEW d \in Contents, Mirrors(m, d), NEW r,
         r.op = "put_gate_result",
         r.id \in Ids, r.fp \in Fingerprints, r.val \in STRING
  PROVE  Like(MockGateStore(m, r), Contract!GateStore(d, r))
<1> DEFINE v == [fp |-> r.fp, val |-> r.val]
           stored == ResultAppended(m, r)  results == ResultReplaced(d, r)
<1>1. m.gate_results \in [Ids -> Seq(Result)] /\ v \in Result
  BY DEF Mirrors, Mocks, Result
<1>2. d.results \in [Ids -> [Fingerprints -> SUBSET STRING]]
  BY DEF Contents
<1>3. /\ stored \in [Ids -> Seq(Result)]
      /\ stored[r.id] = Append(m.gate_results[r.id], v)
      /\ \A g \in Ids \ {r.id} : stored[g] = m.gate_results[g]
  BY <1>1 DEF ResultAppended
<1>4. /\ results[r.id][r.fp] = {r.val}
      /\ \A g \in Ids, f \in Fingerprints :
           g # r.id \/ f # r.fp => results[g][f] = d.results[g][f]
  BY <1>2 DEF ResultReplaced
<1> HIDE DEF stored, results
<1>5. \A g \in Ids, f \in Fingerprints :
        d.results[g][f] = Some(find_gate_result(m.gate_results[g], f))
  BY DEF Mirrors, ResultsMirror
<1>6. ASSUME NEW g \in Ids, NEW f \in Fingerprints
      PROVE  results[g][f] = Some(find_gate_result(stored[g], f))
  <2>1. CASE g # r.id
    BY <1>3, <1>4, <1>5, <2>1
  <2>2. CASE g = r.id
    <3>1. find_gate_result(stored[g], f)
            = IF f = v.fp THEN v.val ELSE find_gate_result(m.gate_results[g], f)
      <4> HIDE DEF v
      <4>1. m.gate_results[r.id] \in Seq(Result)
        BY <1>1
      <4>2. find_gate_result(Append(m.gate_results[r.id], v), f)
              = IF f = v.fp THEN v.val ELSE find_gate_result(m.gate_results[r.id], f)
        BY <1>1, <4>1, LastResult
      <4> QED BY <1>3, <2>2, <4>2
    <3>2. CASE f = r.fp
      <4>1. find_gate_result(stored[g], f) = r.val /\ r.val # Nil
        BY <3>1, <3>2, NoRowAssumption
      <4> QED BY <1>4, <2>2, <3>2, <4>1 DEF Some
    <3>3. CASE f # r.fp
      BY <1>4, <1>5, <3>1, <3>3
    <3> QED BY <3>2, <3>3
  <2> QED BY <2>1, <2>2
<1>7. ResultsMirror(stored, results)
  BY <1>6 DEF ResultsMirror
<1>8. Like(Ok([m EXCEPT !.gate_results = stored]),
           Contract!Ok([d EXCEPT !.results = results]))
  BY <1>3, <1>7, ResultsBecame
<1>9. MockGateStore(m, r) = Ok([m EXCEPT !.gate_results = stored])
  <2> DEFINE s == m.gate_results
  <2>1. MockGateStore(m, r) = Ok([m EXCEPT !.gate_results[r.id] = Append(@, v)])
    BY DEF MockGateStore
  <2> QED BY <2>1 DEF stored, ResultAppended
<1>10. Contract!GateStore(d, r) = Contract!Ok([d EXCEPT !.results = results])
  BY DEF Contract!GateStore, results, ResultReplaced
<1> QED BY <1>8, <1>9, <1>10

LEMMA GateMirrored ==
  ASSUME NEW m, NEW d \in Contents, Mirrors(m, d),
         NEW r \in Requests, r.trait = "GateStore", Scripted(d, r)
  PROVE  Like(MockGateStore(m, r), Contract!GateStore(d, r))
<1>1. r.op \in Methods.GateStore
  BY MethodOf
<1>2. "gate" \in Kinds \ {"evidence", "operation"}
  BY DEF Kinds
<1>3. CASE r.op = "put_gate_definition"
  <2>1. r.job \in Jobs /\ r.id \in Ids /\ r.val \in STRING
    BY <1>3, RequestsAssumption DEF ByJob, ById, ByValue, Puts, RowPuts, RowKind
  <2>2. \A x \in d.rows["gate"][r.id] : x.job = r.job
    BY <1>3 DEF Scripted, RowPuts, RowKind
  <2>3. Like(MockPut(m, "gate", r), Contract!Put(d, "gate", r))
    BY <1>2, <2>1, <2>2, PutMirrors
  <2> QED BY <1>3, <2>3 DEF MockGateStore, Contract!GateStore
<1>4. CASE r.op = "get_gate_definition"
  <2>1. r.id \in Ids
    BY <1>4, RequestsAssumption DEF ById
  <2> QED BY <1>2, <1>4, <2>1, RowReads DEF MockGateStore, Contract!GateStore
<1>5. CASE r.op = "list_gates_for_job"
  <2>1. r.job \in Jobs
    BY <1>5, RequestsAssumption DEF ByJob
  <2> QED BY <1>2, <1>5, <2>1, RowReads DEF MockGateStore, Contract!GateStore
<1>6. CASE r.op = "put_gate_result"
  <2>1. r.id \in Ids /\ r.fp \in Fingerprints /\ r.val \in STRING
    BY <1>6, RequestsAssumption DEF ById, ByFingerprint, ByValue
  <2> QED BY <1>6, <2>1, ResultPutMirrors
<1>7. CASE r.op = "get_gate_result"
  <2>1. r.id \in Ids /\ r.fp \in Fingerprints
    BY <1>7, RequestsAssumption DEF ById, ByFingerprint
  <2> DEFINE x == find_gate_result(m.gate_results[r.id], r.fp)
  <2>2. d.results[r.id][r.fp] = Some(x)
    BY <2>1 DEF Mirrors, ResultsMirror
  <2>3. /\ MockGateStore(m, r) = Required(x, m)
        /\ Contract!GateStore(d, r) = Contract!Fetch(d.results[r.id][r.fp], d)
    BY <1>7 DEF MockGateStore, Contract!GateStore
  <2> HIDE DEF x
  <2> QED BY <2>2, <2>3, LikeReads
<1> QED BY <1>1, <1>3, <1>4, <1>5, <1>6, <1>7 DEF Methods

LEMMA ArtifactMirrored ==
  ASSUME NEW m, NEW d \in Contents, Mirrors(m, d),
         NEW r \in Requests, r.trait = "ArtifactMetadataStore", Scripted(d, r)
  PROVE  Like(MockArtifactStore(m, r), Contract!ArtifactMetadataStore(d, r))
<1>1. r.op \in Methods.ArtifactMetadataStore
  BY MethodOf
<1>2. "artifact" \in Kinds \ {"evidence", "operation"}
  BY DEF Kinds
<1>3. CASE r.op = "put_artifact"
  <2>1. r.job \in Jobs /\ r.id \in Ids /\ r.val \in STRING
    BY <1>3, RequestsAssumption DEF ByJob, ById, ByValue, Puts, RowPuts, RowKind
  <2>2. \A x \in d.rows["artifact"][r.id] : x.job = r.job
    BY <1>3 DEF Scripted, RowPuts, RowKind
  <2>3. Like(MockPut(m, "artifact", r), Contract!Put(d, "artifact", r))
    BY <1>2, <2>1, <2>2, PutMirrors
  <2> QED BY <1>3, <2>3 DEF MockArtifactStore, Contract!ArtifactMetadataStore
<1>4. CASE r.op = "get_artifact"
  <2>1. r.id \in Ids
    BY <1>4, RequestsAssumption DEF ById
  <2> QED BY <1>2, <1>4, <2>1, RowReads
          DEF MockArtifactStore, Contract!ArtifactMetadataStore
<1>5. CASE r.op = "list_artifacts_for_job"
  <2>1. r.job \in Jobs
    BY <1>5, RequestsAssumption DEF ByJob
  <2> QED BY <1>2, <1>5, <2>1, RowReads
          DEF MockArtifactStore, Contract!ArtifactMetadataStore
<1>6. CASE r.op = "artifact_exists"
  <2>1. r.id \in Ids
    BY <1>6, RequestsAssumption DEF ById
  <2>2. (m.table["artifact"][r.id] # Nil) = (d.rows["artifact"][r.id] # {})
    BY <1>2, <2>1, SameRow
  <2>3. /\ MockArtifactStore(m, r) = Value({m.table["artifact"][r.id] # Nil}, m)
        /\ Contract!ArtifactMetadataStore(d, r)
             = Contract!Value({d.rows["artifact"][r.id] # {}}, d)
    BY <1>6 DEF MockArtifactStore, Contract!ArtifactMetadataStore
  <2> QED BY <2>2, <2>3, LikeReads
<1> QED BY <1>1, <1>3, <1>4, <1>5, <1>6 DEF Methods

LEMMA CheckMirrored ==
  ASSUME NEW m, NEW d \in Contents, Mirrors(m, d),
         NEW r \in Requests, r.trait = "CheckStore", Scripted(d, r)
  PROVE  Like(MockCheckStore(m, r), Contract!CheckStore(d, r))
<1>1. r.op \in Methods.CheckStore
  BY MethodOf
<1>2. "check" \in Kinds \ {"evidence", "operation"}
  BY DEF Kinds
<1>3. CASE r.op = "put_check"
  <2>1. r.job \in Jobs /\ r.id \in Ids /\ r.val \in STRING
    BY <1>3, RequestsAssumption DEF ByJob, ById, ByValue, Puts, RowPuts, RowKind
  <2>2. \A x \in d.rows["check"][r.id] : x.job = r.job
    BY <1>3 DEF Scripted, RowPuts, RowKind
  <2>3. Like(MockPut(m, "check", r), Contract!Put(d, "check", r))
    BY <1>2, <2>1, <2>2, PutMirrors
  <2> QED BY <1>3, <2>3 DEF MockCheckStore, Contract!CheckStore
<1>4. CASE r.op = "get_check"
  <2>1. r.id \in Ids
    BY <1>4, RequestsAssumption DEF ById
  <2> QED BY <1>2, <1>4, <2>1, RowReads DEF MockCheckStore, Contract!CheckStore
<1>5. CASE r.op = "list_checks_for_job"
  <2>1. r.job \in Jobs
    BY <1>5, RequestsAssumption DEF ByJob
  <2> QED BY <1>2, <1>5, <2>1, RowReads DEF MockCheckStore, Contract!CheckStore
<1> QED BY <1>1, <1>3, <1>4, <1>5 DEF Methods

-----------------------------------------------------------------------------
(* Source candidates.                                                      *)

(* Entry v is put under id, and list is what is then listed of its job. *)
Listing(index, entries, id, job, v, list) ==
  /\ index \in [Jobs -> SUBSET Ids] /\ DOMAIN entries = Ids
  /\ ByJobMirrors(index, entries)
  /\ id \in Ids /\ job \in Jobs
  /\ v.job = job /\ \A x \in entries[id] : x.job = job
  /\ entries[id] = {} => list = index[job] \cup {id}
  /\ entries[id] # {} => list = index[job]

LEMMA EntryListed ==
  ASSUME NEW index, NEW entries, NEW id, NEW job, NEW v, NEW list,
         Listing(index, entries, id, job, v, list)
  PROVE  /\ ByJobMirrors([index EXCEPT ![job] = list], [entries EXCEPT ![id] = {v}])
         /\ [index EXCEPT ![job] = list] \in [Jobs -> SUBSET Ids]
<1> DEFINE after == [index EXCEPT ![job] = list]
           now == [entries EXCEPT ![id] = {v}]
<1> USE DEF Listing
<1>1. \A j \in Jobs : index[j] = {i \in Ids : \E x \in entries[i] : x.job = j}
  BY DEF ByJobMirrors
<1>2. list = index[job] \cup {id}
  <2>1. CASE entries[id] = {}
    BY <2>1
  <2>2. CASE entries[id] # {}
    <3>1. id \in index[job]
      BY <1>1, <2>2
    <3> QED BY <2>2, <3>1
  <2> QED BY <2>1, <2>2
<1>3. after \in [Jobs -> SUBSET Ids]
  BY <1>2
<1>4. /\ after[job] = index[job] \cup {id}
      /\ \A j \in Jobs \ {job} : after[j] = index[j]
      /\ now[id] = {v} /\ \A i \in Ids \ {id} : now[i] = entries[i]
  BY <1>2
<1> HIDE DEF after, now
<1>5. ASSUME NEW j \in Jobs PROVE after[j] = {i \in Ids : \E x \in now[i] : x.job = j}
  <2>1. CASE j = job
    BY <1>1, <1>4, <2>1
  <2>2. CASE j # job
    <3>1. ASSUME NEW i \in Ids
          PROVE  (\E x \in now[i] : x.job = j) <=> \E x \in entries[i] : x.job = j
      <4>1. CASE i = id
        BY <1>4, <2>2, <4>1
      <4>2. CASE i # id
        BY <1>4, <4>2
      <4> QED BY <4>1, <4>2
    <3> QED BY <1>1, <1>4, <2>2, <3>1
  <2> QED BY <2>1, <2>2
<1>6. ByJobMirrors(after, now)
  BY <1>5 DEF ByJobMirrors
<1> QED BY <1>3, <1>6 DEF after, now

-----------------------------------------------------------------------------
(* Source candidates.                                                      *)

(* The source candidates and their two indexes become these. *)
SourcesBecome(m, a, sources, fps, lists, now) ==
  /\ a = [m EXCEPT !.sources = sources, !.source_by_fp = fps,
                   !.sources_by_job = lists]
  /\ sources \in [Ids -> Source \cup {Nil}]
  /\ fps \in [Fingerprints -> Ids \cup {Nil}]
  /\ lists \in [Jobs -> SUBSET Ids]
  /\ SourcesMirror(sources, now) /\ ByFpMirrors(fps, now)
  /\ ByJobMirrors(lists, now)

LEMMA SourcesBecame ==
  ASSUME NEW m, NEW d \in Contents, Mirrors(m, d), NEW a, NEW sources, NEW fps,
         NEW lists, NEW now, SourcesBecome(m, a, sources, fps, lists, now)
  PROVE  Like(Ok(a), Contract!Ok([d EXCEPT !.sources = now]))
<1> DEFINE e == [d EXCEPT !.sources = now]
<1>1. m \in Mocks
  BY DEF Mirrors
<1>2. /\ a.sources = sources /\ a.source_by_fp = fps /\ a.sources_by_job = lists
      /\ a.events = m.events /\ a.max_sequence = m.max_sequence
      /\ a.projections = m.projections
      /\ a.active_source = m.active_source /\ a.table = m.table
      /\ a.by_job = m.by_job /\ a.evidence_by_fp = m.evidence_by_fp
      /\ a.operations_executing = m.operations_executing
      /\ a.gate_results = m.gate_results
      /\ a.workspaces = m.workspaces /\ a.workspaces_by_job = m.workspaces_by_job
  BY <1>1 DEF Mocks, SourcesBecome
<1>3. a \in Mocks
  BY <1>1 DEF Mocks, SourcesBecome
<1>4. /\ e.sources = now
      /\ e.events = d.events /\ e.versions = d.versions /\ e.rows = d.rows
      /\ e.active = d.active /\ e.results = d.results /\ e.workspaces = d.workspaces
  BY DEF Contents
<1> HIDE DEF e
<1>5. Mirrors(a, e)
  BY <1>2, <1>3, <1>4 DEF Mirrors, SourcesBecome
<1> QED BY <1>5, LikeOk DEF e

(* Both stores find the same candidate of a fingerprint. *)
LEMMA SameFingerprint ==
  ASSUME NEW m, NEW d, Mirrors(m, d), NEW f \in Fingerprints
  PROVE  Contract!OfFingerprint(d, f) = Some(m.source_by_fp[f])
BY DEF Contract!OfFingerprint, Mirrors, ByFpMirrors

SourceRow(r) == [job |-> r.job, fp |-> r.fp]
SourcePut(d, r) == [d.sources EXCEPT ![r.id] = {SourceRow(r)}]

LEMMA SourcePutMirrors ==
  ASSUME NEW m, NEW d \in Contents, Mirrors(m, d), NEW r,
         r.op = "put_source_candidate",
         r.job \in Jobs, r.id \in Ids, r.fp \in Fingerprints,
         d.versions[r.job] # {},
         \A x \in d.sources[r.id] : x.fp = r.fp /\ x.job = r.job
  PROVE  Like(put_source_candidate(m, r), Contract!CandidateStore(d, r))
<1> DEFINE taken == m.source_by_fp[r.fp] \notin {Nil, r.id}
           found == Contract!OfFingerprint(d, r.fp)
<1>1. m \in Mocks
  BY DEF Mirrors
<1>2. m.projections[r.job] # Nil
  BY DEF Mirrors, VersionsMirror, Some
<1>3. taken <=> ~(found \subseteq {r.id})
  <2> DEFINE x == m.source_by_fp[r.fp]
  <2>1. found = Some(x)
    BY SameFingerprint
  <2> HIDE DEF x, found
  <2>2. x \in {Nil, r.id} <=> found \subseteq {r.id}
    BY <2>1 DEF Some
  <2> QED BY <2>2 DEF x
<1>4. CASE taken
  <2>1. put_source_candidate(m, r) = Error("Conflict", m)
    BY <1>4 DEF put_source_candidate
  <2>2. Contract!CandidateStore(d, r) = Contract!Error("Conflict", d)
    BY <1>3, <1>4 DEF Contract!CandidateStore
  <2> QED BY <2>1, <2>2, LikeReads
<1>5. CASE ~taken
  <2> DEFINE v == SourceRow(r)  now == SourcePut(d, r)
             list == AddOnce(m.sources_by_job[r.job], m.sources[r.id] # Nil, r.id)
             sources == [m.sources EXCEPT ![r.id] = v]
             fps == [m.source_by_fp EXCEPT ![r.fp] = r.id]
             lists == [m.sources_by_job EXCEPT ![r.job] = list]
             a == [m EXCEPT !.sources = sources, !.source_by_fp = fps,
                            !.sources_by_job = lists]
  <2>1. /\ m.sources \in [Ids -> Source \cup {Nil}]
        /\ m.source_by_fp \in [Fingerprints -> Ids \cup {Nil}]
        /\ m.sources_by_job \in [Jobs -> SUBSET Ids]
        /\ d.sources \in [Ids -> SUBSET Source]
        /\ v \in Source /\ v.job = r.job /\ v.fp = r.fp
        /\ v # Nil /\ r.id # Nil
    <3>1. v \in Source /\ v.job = r.job /\ v.fp = r.fp
      BY DEF Source, SourceRow
    <3>2. v # Nil /\ r.id # Nil
      BY <3>1, NoRowAssumption, IdsAssumption DEF Source
    <3>3. d.sources \in [Ids -> SUBSET Source]
      BY DEF Contents, Source
    <3> QED BY <1>1, <3>1, <3>2, <3>3 DEF Mocks
  <2>2. /\ \A i \in Ids : d.sources[i] = Some(m.sources[i])
        /\ \A f \in Fingerprints :
             {i \in Ids : \E x \in d.sources[i] : x.fp = f} = Some(m.source_by_fp[f])
        /\ ByJobMirrors(m.sources_by_job, d.sources)
    BY DEF Mirrors, SourcesMirror, ByFpMirrors
  <2>3. now[r.id] = {v} /\ \A i \in Ids \ {r.id} : now[i] = d.sources[i]
    BY <2>1 DEF SourcePut
  <2>4. sources \in [Ids -> Source \cup {Nil}] /\ SourcesMirror(sources, now)
    <3>1. /\ sources \in [Ids -> Source \cup {Nil}] /\ sources[r.id] = v
          /\ \A i \in Ids \ {r.id} : sources[i] = m.sources[i]
      <4> HIDE DEF v
      <4> QED BY <2>1
    <3> HIDE DEF sources, now, v
    <3>2. ASSUME NEW i \in Ids PROVE now[i] = Some(sources[i])
      <4>1. CASE i = r.id
        BY <2>1, <2>3, <3>1, <4>1 DEF Some
      <4>2. CASE i # r.id
        BY <2>2, <2>3, <3>1, <4>2
      <4> QED BY <4>1, <4>2
    <3> QED BY <3>1, <3>2 DEF SourcesMirror
  <2>5. fps \in [Fingerprints -> Ids \cup {Nil}] /\ ByFpMirrors(fps, now)
    <3>1. /\ fps \in [Fingerprints -> Ids \cup {Nil}] /\ fps[r.fp] = r.id
          /\ \A f \in Fingerprints \ {r.fp} : fps[f] = m.source_by_fp[f]
      BY <2>1
    <3>2. \A i \in Ids : (\E x \in d.sources[i] : x.fp = r.fp) => i = r.id
      <4>1. found \subseteq {r.id}
        BY <1>3, <1>5
      <4> QED BY <4>1 DEF Contract!OfFingerprint
    <3> HIDE DEF fps, now, v
    <3>3. ASSUME NEW f \in Fingerprints
          PROVE  {i \in Ids : \E x \in now[i] : x.fp = f} = Some(fps[f])
      <4>1. CASE f = r.fp
        <5>1. {i \in Ids : \E x \in now[i] : x.fp = f} = {r.id}
          BY <2>1, <2>3, <3>2, <4>1
        <5> QED BY <2>1, <3>1, <4>1, <5>1 DEF Some
      <4>2. CASE f # r.fp
        <5>1. ASSUME NEW i \in Ids
              PROVE  (\E x \in now[i] : x.fp = f) <=> \E x \in d.sources[i] : x.fp = f
          <6>1. CASE i = r.id
            BY <2>1, <2>3, <4>2, <6>1
          <6>2. CASE i # r.id
            BY <2>3, <6>2
          <6> QED BY <6>1, <6>2
        <5>2. {i \in Ids : \E x \in now[i] : x.fp = f}
                = {i \in Ids : \E x \in d.sources[i] : x.fp = f}
          BY <5>1
        <5> QED BY <2>2, <3>1, <4>2, <5>2
      <4> QED BY <4>1, <4>2
    <3> QED BY <3>1, <3>3 DEF ByFpMirrors
  <2>6. lists \in [Jobs -> SUBSET Ids] /\ ByJobMirrors(lists, now)
    <3> DEFINE index == m.sources_by_job  entries == d.sources
               id == r.id  job == r.job
    <3>1. m.sources[id] # Nil <=> entries[id] # {}
      BY <2>2 DEF Some
    <3>2. Listing(index, entries, id, job, v, list)
      BY <2>1, <2>2, <3>1 DEF Listing, AddOnce
    <3>3. now = [entries EXCEPT ![id] = {v}] /\ lists = [index EXCEPT ![job] = list]
      BY DEF SourcePut
    <3> HIDE DEF index, entries, id, job, v, list, now, lists
    <3>4. /\ ByJobMirrors([index EXCEPT ![job] = list], [entries EXCEPT ![id] = {v}])
          /\ [index EXCEPT ![job] = list] \in [Jobs -> SUBSET Ids]
      BY <3>2, EntryListed
    <3> QED BY <3>3, <3>4
  <2>7. put_source_candidate(m, r) = Ok(a)
    BY <1>2, <1>5 DEF put_source_candidate, SourceRow
  <2>8. Contract!CandidateStore(d, r) = Contract!Ok([d EXCEPT !.sources = now])
    BY <1>3, <1>5 DEF Contract!CandidateStore, SourcePut, SourceRow
  <2> HIDE DEF sources, fps, lists, now
  <2>9. SourcesBecome(m, a, sources, fps, lists, now)
    BY <2>4, <2>5, <2>6 DEF SourcesBecome
  <2> HIDE DEF a
  <2> QED BY <2>7, <2>8, <2>9, SourcesBecame
<1> QED BY <1>4, <1>5

LEMMA SetActiveMirrors ==
  ASSUME NEW m, NEW d \in Contents, Mirrors(m, d), NEW r,
         r.op = "set_active_source_candidate", r.job \in Jobs, r.id \in Ids
  PROVE  Like(MockCandidateStore(m, r), Contract!CandidateStore(d, r))
<1> DEFINE active == [m.active_source EXCEPT ![r.job] = r.id]
           now == [d.active EXCEPT ![r.job] = {r.id}]
           a == [m EXCEPT !.active_source = active]
           e == [d EXCEPT !.active = now]
<1>1. m \in Mocks
  BY DEF Mirrors
<1>2. active \in [Jobs -> Ids \cup {Nil}] /\ ActiveMirrors(active, now)
  <2>1. m.active_source \in [Jobs -> Ids \cup {Nil}]
    BY <1>1 DEF Mocks
  <2>2. d.active \in [Jobs -> SUBSET Ids]
    BY DEF Contents
  <2>3. \A j \in Jobs : d.active[j] = Some(m.active_source[j])
    BY DEF Mirrors, ActiveMirrors
  <2>4. r.id # Nil
    BY NoRowAssumption, IdsAssumption
  <2> QED BY <2>1, <2>2, <2>3, <2>4 DEF ActiveMirrors, Some
<1>3. /\ MockCandidateStore(m, r) = Ok(a)
      /\ Contract!CandidateStore(d, r) = Contract!Ok(e)
  BY DEF MockCandidateStore, Contract!CandidateStore
<1> HIDE DEF active, now
<1>4. /\ a.active_source = active
      /\ a.events = m.events /\ a.max_sequence = m.max_sequence
      /\ a.projections = m.projections /\ a.sources = m.sources
      /\ a.source_by_fp = m.source_by_fp /\ a.sources_by_job = m.sources_by_job
      /\ a.table = m.table /\ a.by_job = m.by_job
      /\ a.evidence_by_fp = m.evidence_by_fp
      /\ a.operations_executing = m.operations_executing
      /\ a.gate_results = m.gate_results
      /\ a.workspaces = m.workspaces /\ a.workspaces_by_job = m.workspaces_by_job
      /\ a \in Mocks
  BY <1>1, <1>2 DEF Mocks
<1>5. /\ e.active = now
      /\ e.events = d.events /\ e.versions = d.versions /\ e.sources = d.sources
      /\ e.rows = d.rows /\ e.results = d.results /\ e.workspaces = d.workspaces
  BY DEF Contents
<1> HIDE DEF a, e
<1>6. Mirrors(a, e)
  BY <1>2, <1>4, <1>5 DEF Mirrors
<1> QED BY <1>3, <1>6, LikeOk

LEMMA CandidateMirrored ==
  ASSUME NEW m, NEW d \in Contents, Mirrors(m, d),
         NEW r \in Requests, r.trait = "CandidateStore", Scripted(d, r)
  PROVE  Like(MockCandidateStore(m, r), Contract!CandidateStore(d, r))
<1>1. r.op \in Methods.CandidateStore
  BY MethodOf
<1>2. "release" \in Kinds
  BY DEF Kinds
<1>3. CASE r.op = "put_source_candidate"
  <2>1. /\ r.job \in Jobs /\ r.id \in Ids /\ r.fp \in Fingerprints
        /\ d.versions[r.job] # {}
        /\ \A x \in d.sources[r.id] : x.fp = r.fp /\ x.job = r.job
    BY <1>3, RequestsAssumption DEF ByJob, ById, ByFingerprint, Puts, Scripted
  <2>2. Like(put_source_candidate(m, r), Contract!CandidateStore(d, r))
    BY <1>3, <2>1, SourcePutMirrors
  <2> QED BY <1>3, <2>2 DEF MockCandidateStore
<1>4. CASE r.op = "get_source_candidate"
  <2>1. r.id \in Ids
    BY <1>4, RequestsAssumption DEF ById
  <2>2. d.sources[r.id] = Some(m.sources[r.id])
    BY <2>1 DEF Mirrors, SourcesMirror
  <2> QED BY <1>4, <2>2, LikeReads DEF MockCandidateStore, Contract!CandidateStore
<1>5. CASE r.op = "put_release_candidate"
  <2>1. r.job \in Jobs /\ r.id \in Ids /\ r.val \in STRING
    BY <1>5, RequestsAssumption DEF ByJob, ById, ByValue, Puts, RowPuts, RowKind
  <2>2. \A x \in d.rows["release"][r.id] : x.job = r.job
    BY <1>5 DEF Scripted, RowPuts, RowKind
  <2>3. Like(Ok(Insert(m, "release", r)), Contract!Put(d, "release", r))
    BY <2>1, <2>2, ReleasePutMirrors
  <2> QED BY <1>5, <2>3 DEF MockCandidateStore, Contract!CandidateStore
<1>6. CASE r.op = "get_release_candidate"
  <2>1. r.id \in Ids
    BY <1>6, RequestsAssumption DEF ById
  <2> QED BY <1>2, <1>6, <2>1, RowReads
          DEF MockCandidateStore, Contract!CandidateStore
<1>7. CASE r.op = "list_release_candidates_for_job"
  <2> DEFINE ids == {i \in Ids : m.table["release"][i] # Nil
                                   /\ m.table["release"][i].job = r.job}
  <2>1. ASSUME NEW i \in Ids
        PROVE  (\E x \in d.rows["release"][i] : x.job = r.job)
                 <=> m.table["release"][i] # Nil /\ m.table["release"][i].job = r.job
    <3>1. d.rows["release"][i] = Some(m.table["release"][i])
      BY <1>2, SameRow
    <3> QED BY <3>1 DEF Some
  <2>2. ids = {i \in Ids : \E x \in d.rows["release"][i] : x.job = r.job}
    BY <2>1
  <2>3. /\ MockCandidateStore(m, r) = Value(ids, m)
        /\ Contract!CandidateStore(d, r) = Contract!List(d, "release", r)
    BY <1>7 DEF MockCandidateStore, Contract!CandidateStore
  <2> HIDE DEF ids
  <2> QED BY <2>2, <2>3, LikeReads DEF Contract!List
<1>8. CASE r.op = "list_source_candidates_for_job"
  <2>1. r.job \in Jobs
    BY <1>8, RequestsAssumption DEF ByJob
  <2>2. m.sources_by_job[r.job] = {i \in Ids : \E x \in d.sources[i] : x.job = r.job}
    BY <2>1 DEF Mirrors, ByJobMirrors
  <2>3. Like(Value(m.sources_by_job[r.job], m),
             Contract!Value(m.sources_by_job[r.job], d))
    BY LikeReads
  <2> QED BY <1>8, <2>2, <2>3 DEF MockCandidateStore, Contract!CandidateStore
<1>9. CASE r.op = "active_source_candidate"
  <2>1. r.job \in Jobs
    BY <1>9, RequestsAssumption DEF ByJob
  <2>2. d.active[r.job] = Some(m.active_source[r.job])
    BY <2>1 DEF Mirrors, ActiveMirrors
  <2> QED BY <1>9, <2>2, LikeReads DEF MockCandidateStore, Contract!CandidateStore
<1>10. CASE r.op = "set_active_source_candidate"
  <2>1. r.job \in Jobs /\ r.id \in Ids
    BY <1>10, RequestsAssumption DEF ByJob, ById
  <2> QED BY <1>10, <2>1, SetActiveMirrors
<1>11. CASE r.op = "find_source_by_fingerprint"
  <2>1. r.fp \in Fingerprints
    BY <1>11, RequestsAssumption DEF ByFingerprint
  <2>2. Contract!OfFingerprint(d, r.fp) = Some(m.source_by_fp[r.fp])
    BY <2>1, SameFingerprint
  <2> QED BY <1>11, <2>2, LikeReads DEF MockCandidateStore, Contract!CandidateStore
<1> QED BY <1>1, <1>3, <1>4, <1>5, <1>6, <1>7, <1>8, <1>9, <1>10, <1>11 DEF Methods

-----------------------------------------------------------------------------
(* Events.                                                                 *)

EventIn(log, n) == [seq |-> n, event |-> log[n]]
EventsOf(log) == {EventIn(log, n) : n \in DOMAIN log}

LEMMA SameEvents ==
  ASSUME NEW m, NEW d \in Contents, Mirrors(m, d), NEW j \in Jobs
  PROVE  /\ d.events[j] \in Seq(STRING)
         /\ m.events[j] = EventsOf(d.events[j])
         /\ m.max_sequence[j] = Len(d.events[j])
<1>1. d.events[j] \in Seq(STRING)
  BY DEF Contents
<1> QED BY <1>1 DEF Mirrors, LogsMirror, EventsOf, EventIn

(* The events from one number to another. *)
LEMMA SameRange ==
  ASSUME NEW m, NEW d \in Contents, Mirrors(m, d), NEW j \in Jobs,
         NEW first, NEW last
  PROVE  {e \in m.events[j] : first <= e.seq /\ e.seq <= last}
           = Contract!Events(d, j, first, last)
<1> DEFINE log == d.events[j]
           within == {n \in DOMAIN log : first <= n /\ n <= last}
<1>1. m.events[j] = EventsOf(log)
  BY SameEvents
<1>2. Contract!Events(d, j, first, last) = {EventIn(log, n) : n \in within}
  BY DEF Contract!Events, EventIn
<1> HIDE DEF log
<1>3. \A n : EventIn(log, n).seq = n
  BY DEF EventIn
<1>4. {e \in EventsOf(log) : first <= e.seq /\ e.seq <= last}
        = {EventIn(log, n) : n \in within}
  BY <1>3 DEF EventsOf
<1> QED BY <1>1, <1>2, <1>4

LEMMA GetEventMirrors ==
  ASSUME NEW m, NEW d \in Contents, Mirrors(m, d), NEW r,
         r.op = "get_event", r.job \in Jobs
  PROVE  Like(MockEventStore(m, r), Contract!EventStore(d, r))
<1> DEFINE log == d.events[r.job]  at == {e \in m.events[r.job] : e.seq = r.seq}
<1>1. log \in Seq(STRING) /\ m.events[r.job] = EventsOf(log)
  BY SameEvents
<1>2. \A n : EventIn(log, n).seq = n
  BY DEF EventIn
<1>3. MockEventStore(m, r) = Fetch(at, m)
  BY DEF MockEventStore
<1>4. CASE r.seq \in DOMAIN log
  <2>1. at = {EventIn(log, r.seq)}
    <3> HIDE DEF log
    <3> QED BY <1>1, <1>2, <1>4 DEF EventsOf
  <2>2. Contract!Events(d, r.job, r.seq, r.seq) = at
    <3>1. Contract!Events(d, r.job, r.seq, r.seq)
            = {EventIn(log, n) : n \in {k \in DOMAIN log : r.seq <= k /\ k <= r.seq}}
      BY DEF Contract!Events, EventIn
    <3> HIDE DEF log, at
    <3>2. DOMAIN log \subseteq Nat
      BY <1>1
    <3>3. {k \in DOMAIN log : r.seq <= k /\ k <= r.seq} = {r.seq}
      BY <1>4, <3>2
    <3> QED BY <2>1, <3>1, <3>3
  <2>3. Contract!EventStore(d, r) = Contract!Value(at, d)
    BY <1>4, <2>2 DEF Contract!EventStore
  <2>4. Fetch(at, m) = Value(at, m)
    <3> HIDE DEF at
    <3> QED BY <2>1 DEF Fetch
  <2> HIDE DEF at
  <2> QED BY <1>3, <2>3, <2>4, LikeReads
<1>5. CASE r.seq \notin DOMAIN log
  <2>1. at = {}
    <3> HIDE DEF log
    <3> QED BY <1>1, <1>2, <1>5 DEF EventsOf
  <2>2. Contract!EventStore(d, r) = Contract!Error("NotFound", d)
    BY <1>5 DEF Contract!EventStore
  <2>3. Fetch(at, m) = Error("NotFound", m)
    <3> HIDE DEF at
    <3> QED BY <2>1 DEF Fetch
  <2> HIDE DEF at
  <2> QED BY <1>3, <2>2, <2>3, LikeReads
<1> QED BY <1>4, <1>5

(* The event that comes next is the last one of the longer log. *)
LEMMA EventsGrow ==
  ASSUME NEW log \in Seq(STRING), NEW event \in STRING
  PROVE  /\ Append(log, event) \in Seq(STRING)
         /\ Len(Append(log, event)) = Len(log) + 1
         /\ EventsOf(Append(log, event))
              = EventsOf(log) \cup {[seq |-> Len(log) + 1, event |-> event]}
<1>1. PICK n, after : n = Len(log) /\ after = Append(log, event)
  OBVIOUS
<1>2. /\ n \in Nat /\ DOMAIN log = 1..n /\ DOMAIN after = 1..(n + 1)
      /\ after \in Seq(STRING) /\ Len(after) = n + 1
      /\ after[n + 1] = event /\ \A k \in 1..n : after[k] = log[k]
  <2>1. n \in Nat /\ DOMAIN log = 1..n
    BY <1>1
  <2>2. Append(log, event) \in Seq(STRING)
    BY AppendProperties
  <2>3. Len(Append(log, event)) = Len(log) + 1
    BY AppendProperties
  <2>4. Append(log, event)[Len(log) + 1] = event
    BY AppendProperties
  <2>5. \A k \in 1..Len(log) : Append(log, event)[k] = log[k]
    BY AppendProperties
  <2>6. /\ after \in Seq(STRING) /\ Len(after) = n + 1
        /\ after[n + 1] = event /\ \A k \in 1..n : after[k] = log[k]
    BY <1>1, <2>2, <2>3, <2>4, <2>5
  <2>7. DOMAIN after = 1..(n + 1)
    BY <2>6
  <2> QED BY <2>1, <2>6, <2>7
<1>3. EventIn(after, n + 1) = [seq |-> n + 1, event |-> event]
  BY <1>2 DEF EventIn
<1>4. \A k \in 1..n : EventIn(after, k) = EventIn(log, k)
  BY <1>2 DEF EventIn
<1>5. DOMAIN after = DOMAIN log \cup {n + 1}
  BY <1>2
<1>6. EventsOf(after) = EventsOf(log) \cup {[seq |-> n + 1, event |-> event]}
  <2>1. EventsOf(after) = {EventIn(after, k) : k \in DOMAIN log} \cup {EventIn(after, n + 1)}
    BY <1>5 DEF EventsOf
  <2>2. {EventIn(after, k) : k \in DOMAIN log} = EventsOf(log)
    BY <1>2, <1>4 DEF EventsOf
  <2> QED BY <1>3, <2>1, <2>2
<1> QED BY <1>1, <1>2, <1>6

AppendedTo(m, r) ==
  [m.events EXCEPT ![r.job] = @ \cup {[seq |-> r.seq, event |-> r.event]}]
AppendedLog(d, r) == [d.events EXCEPT ![r.job] = Append(@, r.event)]

LEMMA LogsAppended ==
  ASSUME NEW m, NEW d \in Contents, Mirrors(m, d), NEW r,
         r.job \in Jobs, r.event \in STRING, r.seq = m.max_sequence[r.job] + 1
  PROVE  LET last == [m.max_sequence EXCEPT ![r.job] = r.seq]
         IN  /\ AppendedTo(m, r) \in [Jobs -> SUBSET Event]
             /\ last \in [Jobs -> Nat]
             /\ LogsMirror(AppendedTo(m, r), last, AppendedLog(d, r))
<1> DEFINE last == [m.max_sequence EXCEPT ![r.job] = r.seq]
           events == AppendedTo(m, r)  logs == AppendedLog(d, r)
           log == d.events[r.job]
<1>1. /\ m.events \in [Jobs -> SUBSET Event] /\ m.max_sequence \in [Jobs -> Nat]
      /\ d.events \in [Jobs -> Seq(STRING)]
  BY DEF Mirrors, Mocks, Contents
<1>2. \A j \in Jobs : /\ d.events[j] \in Seq(STRING)
                      /\ m.events[j] = EventsOf(d.events[j])
                      /\ m.max_sequence[j] = Len(d.events[j])
  BY SameEvents
<1>3. r.seq \in Nat /\ r.seq = Len(log) + 1
  BY <1>1, <1>2
<1>4. [seq |-> r.seq, event |-> r.event] \in Event
  BY <1>3 DEF Event
<1>5. /\ last \in [Jobs -> Nat] /\ last[r.job] = r.seq
      /\ \A j \in Jobs \ {r.job} : last[j] = m.max_sequence[j]
  BY <1>1, <1>3
<1>6. /\ events \in [Jobs -> SUBSET Event]
      /\ events[r.job] = m.events[r.job] \cup {[seq |-> r.seq, event |-> r.event]}
      /\ \A j \in Jobs \ {r.job} : events[j] = m.events[j]
  BY <1>1, <1>4 DEF AppendedTo
<1>7. /\ logs[r.job] = Append(log, r.event)
      /\ \A j \in Jobs \ {r.job} : logs[j] = d.events[j]
  BY <1>1 DEF AppendedLog
<1>8. /\ Len(Append(log, r.event)) = Len(log) + 1
      /\ EventsOf(Append(log, r.event))
           = EventsOf(log) \cup {[seq |-> Len(log) + 1, event |-> r.event]}
  BY <1>2, EventsGrow
<1> HIDE DEF last, events, logs
<1>9. ASSUME NEW j \in Jobs
      PROVE  last[j] = Len(logs[j]) /\ events[j] = EventsOf(logs[j])
  <2>1. CASE j = r.job
    BY <1>2, <1>3, <1>5, <1>6, <1>7, <1>8, <2>1
  <2>2. CASE j # r.job
    BY <1>2, <1>5, <1>6, <1>7, <2>2
  <2> QED BY <2>1, <2>2
<1>10. LogsMirror(events, last, logs)
  BY <1>9 DEF LogsMirror, EventsOf, EventIn
<1> QED BY <1>5, <1>6, <1>10 DEF last, events, logs

LEMMA AppendMirrors ==
  ASSUME NEW m, NEW d \in Contents, Mirrors(m, d), NEW r,
         r.op = "append_event", r.job \in Jobs, r.event \in STRING
  PROVE  Like(MockEventStore(m, r), Contract!EventStore(d, r))
<1>1. m.max_sequence[r.job] = Len(d.events[r.job])
  BY SameEvents
<1>2. CASE r.seq # m.max_sequence[r.job] + 1
  <2>1. MockEventStore(m, r) = Error("SequenceOutOfRange", m)
    BY <1>2 DEF MockEventStore
  <2>2. Contract!EventStore(d, r) = Contract!Error("SequenceOutOfRange", d)
    BY <1>1, <1>2 DEF Contract!EventStore
  <2> QED BY <2>1, <2>2, LikeReads
<1>3. CASE r.seq = m.max_sequence[r.job] + 1
  <2> DEFINE events == AppendedTo(m, r)  logs == AppendedLog(d, r)
             last == [m.max_sequence EXCEPT ![r.job] = r.seq]
             a == [m EXCEPT !.events = events, !.max_sequence = last]
             e == [d EXCEPT !.events = logs]
  <2>1. /\ events \in [Jobs -> SUBSET Event] /\ last \in [Jobs -> Nat]
        /\ LogsMirror(events, last, logs)
    BY <1>3, LogsAppended
  <2>2. MockEventStore(m, r) = Ok(a)
    BY <1>3 DEF MockEventStore, AppendedTo
  <2>3. Contract!EventStore(d, r) = Contract!Ok(e)
    BY <1>1, <1>3 DEF Contract!EventStore, AppendedLog
  <2> HIDE DEF events, logs, last
  <2>4. m \in Mocks
    BY DEF Mirrors
  <2>5. /\ a.events = events /\ a.max_sequence = last
        /\ a.projections = m.projections /\ a.sources = m.sources
        /\ a.source_by_fp = m.source_by_fp /\ a.sources_by_job = m.sources_by_job
        /\ a.active_source = m.active_source
        /\ a.table = m.table /\ a.by_job = m.by_job
        /\ a.evidence_by_fp = m.evidence_by_fp
        /\ a.operations_executing = m.operations_executing
        /\ a.gate_results = m.gate_results
        /\ a.workspaces = m.workspaces /\ a.workspaces_by_job = m.workspaces_by_job
        /\ a \in Mocks
    BY <2>1, <2>4 DEF Mocks
  <2>6. /\ e.events = logs
        /\ e.versions = d.versions /\ e.sources = d.sources /\ e.active = d.active
        /\ e.rows = d.rows /\ e.results = d.results /\ e.workspaces = d.workspaces
    BY DEF Contents
  <2> HIDE DEF a, e
  <2>7. Mirrors(a, e)
    BY <2>1, <2>5, <2>6 DEF Mirrors
  <2> QED BY <2>2, <2>3, <2>7, LikeOk
<1> QED BY <1>2, <1>3

LEMMA EventMirrored ==
  ASSUME NEW m, NEW d \in Contents, Mirrors(m, d),
         NEW r \in Requests, r.trait = "EventStore"
  PROVE  Like(MockEventStore(m, r), Contract!EventStore(d, r))
<1>1. r.op \in Methods.EventStore
  BY MethodOf
<1>2. r.job \in Jobs
  BY <1>1, RequestsAssumption DEF ByJob
<1>3. CASE r.op = "append_event"
  <2>1. r.event \in STRING
    BY <1>3, RequestsAssumption
  <2> QED BY <1>2, <1>3, <2>1, AppendMirrors
<1>4. CASE r.op = "get_event"
  BY <1>2, <1>4, GetEventMirrors
<1>5. CASE r.op = "list_events_for_job"
  <2> DEFINE found == Contract!Events(d, r.job, r.first, r.last)
  <2>1. {e \in m.events[r.job] : r.first <= e.seq /\ e.seq <= r.last} = found
    BY <1>2, SameRange
  <2>2. Like(Value(found, m), Contract!Value(found, d))
    BY LikeReads
  <2>3. MockEventStore(m, r) = Value(found, m)
    BY <1>5, <2>1 DEF MockEventStore
  <2>4. Contract!EventStore(d, r) = Contract!Value(found, d)
    BY <1>5 DEF Contract!EventStore
  <2> QED BY <2>2, <2>3, <2>4
<1>6. CASE r.op = "next_sequence"
  <2>1. m.max_sequence[r.job] = Len(d.events[r.job])
    BY <1>2, SameEvents
  <2> QED BY <1>6, <2>1, LikeReads DEF MockEventStore, Contract!EventStore
<1> QED BY <1>1, <1>3, <1>4, <1>5, <1>6 DEF Methods

-----------------------------------------------------------------------------
(* Projections and workspaces.                                             *)

LEMMA PutProjectionMirrors ==
  ASSUME NEW m, NEW d \in Contents, Mirrors(m, d), NEW r,
         r.op = "put_projection", r.job \in Jobs, r.version \in Nat
  PROVE  Like(MockProjectionStore(m, r), Contract!ProjectionStore(d, r))
<1> DEFINE stored == m.projections[r.job]
           refused == \/ stored # Nil /\ stored # r.expected
                      \/ stored = Nil /\ r.expected # 0
<1>1. d.versions[r.job] = Some(stored) /\ m \in Mocks
  BY DEF Mirrors, VersionsMirror
<1>2. refused <=> ~Contract!Expected(d.versions[r.job], r.expected)
  BY <1>1 DEF Contract!Expected, Some
<1>3. CASE refused
  <2>1. MockProjectionStore(m, r) = Error("Conflict", m)
    BY <1>3 DEF MockProjectionStore
  <2>2. Contract!ProjectionStore(d, r) = Contract!Error("Conflict", d)
    BY <1>2, <1>3 DEF Contract!ProjectionStore
  <2> QED BY <2>1, <2>2, LikeReads
<1>4. CASE ~refused
  <2> DEFINE projections == [m.projections EXCEPT ![r.job] = r.version]
             versions == [d.versions EXCEPT ![r.job] = {r.version}]
             a == [m EXCEPT !.projections = projections]
             e == [d EXCEPT !.versions = versions]
  <2>1. /\ projections \in [Jobs -> Nat \cup {Nil}]
        /\ VersionsMirror(projections, versions)
    <3>1. m.projections \in [Jobs -> Nat \cup {Nil}]
      BY <1>1 DEF Mocks
    <3>2. d.versions \in [Jobs -> SUBSET Nat]
      BY DEF Contents
    <3>3. \A j \in Jobs : d.versions[j] = Some(m.projections[j])
      BY DEF Mirrors, VersionsMirror
    <3>4. r.version # Nil
      BY NoRowAssumption
    <3> QED BY <3>1, <3>2, <3>3, <3>4 DEF VersionsMirror, Some
  <2>2. MockProjectionStore(m, r) = Ok(a)
    BY <1>4 DEF MockProjectionStore
  <2>3. Contract!ProjectionStore(d, r) = Contract!Ok(e)
    BY <1>2, <1>4 DEF Contract!ProjectionStore
  <2> HIDE DEF projections, versions
  <2>4. /\ a.projections = projections
        /\ a.events = m.events /\ a.max_sequence = m.max_sequence
        /\ a.sources = m.sources
        /\ a.source_by_fp = m.source_by_fp /\ a.sources_by_job = m.sources_by_job
        /\ a.active_source = m.active_source
        /\ a.table = m.table /\ a.by_job = m.by_job
        /\ a.evidence_by_fp = m.evidence_by_fp
        /\ a.operations_executing = m.operations_executing
        /\ a.gate_results = m.gate_results
        /\ a.workspaces = m.workspaces /\ a.workspaces_by_job = m.workspaces_by_job
        /\ a \in Mocks
    BY <1>1, <2>1 DEF Mocks
  <2>5. /\ e.versions = versions
        /\ e.events = d.events /\ e.sources = d.sources /\ e.active = d.active
        /\ e.rows = d.rows /\ e.results = d.results /\ e.workspaces = d.workspaces
    BY DEF Contents
  <2> HIDE DEF a, e
  <2>6. Mirrors(a, e)
    BY <2>1, <2>4, <2>5 DEF Mirrors
  <2> QED BY <2>2, <2>3, <2>6, LikeOk
<1> QED BY <1>3, <1>4

(* What a rebuild reads of the in-memory store is the log. *)
LEMMA SameLog ==
  ASSUME NEW m, NEW d \in Contents, Mirrors(m, d), NEW j \in Jobs
  PROVE  [n \in 1..m.max_sequence[j] |->
            (CHOOSE e \in m.events[j] : e.seq = n).event] = d.events[j]
<1> DEFINE log == d.events[j]
<1>1. /\ log \in Seq(STRING) /\ m.events[j] = EventsOf(log)
      /\ m.max_sequence[j] = Len(log)
  BY SameEvents
<1>2. \A n : EventIn(log, n).seq = n /\ EventIn(log, n).event = log[n]
  BY DEF EventIn
<1> HIDE DEF log
<1>3. log = [n \in 1..Len(log) |-> log[n]] /\ DOMAIN log = 1..Len(log)
  BY <1>1
<1>4. ASSUME NEW n \in 1..Len(log)
      PROVE  (CHOOSE e \in EventsOf(log) : e.seq = n).event = log[n]
  <2>1. EventIn(log, n) \in EventsOf(log)
    BY <1>3 DEF EventsOf
  <2>2. \A e \in EventsOf(log) : e.seq = n => e = EventIn(log, n)
    BY <1>2 DEF EventsOf
  <2>3. (CHOOSE e \in EventsOf(log) : e.seq = n) = EventIn(log, n)
    BY <1>2, <2>1, <2>2
  <2> QED BY <1>2, <2>3
<1>5. [n \in 1..Len(log) |-> (CHOOSE e \in EventsOf(log) : e.seq = n).event] = log
  BY <1>3, <1>4
<1> QED BY <1>1, <1>5 DEF log

LEMMA ProjectionMirrored ==
  ASSUME NEW m, NEW d \in Contents, Mirrors(m, d),
         NEW r \in Requests, r.trait = "ProjectionStore"
  PROVE  Like(MockProjectionStore(m, r), Contract!ProjectionStore(d, r))
<1>1. r.op \in Methods.ProjectionStore
  BY MethodOf
<1>2. r.job \in Jobs
  BY <1>1, RequestsAssumption DEF ByJob
<1>3. CASE r.op = "get_projection"
  <2>1. d.versions[r.job] = Some(m.projections[r.job])
    BY <1>2 DEF Mirrors, VersionsMirror
  <2> QED BY <1>3, <2>1, LikeReads DEF MockProjectionStore, Contract!ProjectionStore
<1>4. CASE r.op = "put_projection"
  <2>1. r.version \in Nat
    BY <1>4, RequestsAssumption
  <2> QED BY <1>2, <1>4, <2>1, PutProjectionMirrors
<1>5. CASE r.op = "rebuild_projection"
  <2> DEFINE log == d.events[r.job]
             read == [n \in 1..m.max_sequence[r.job] |->
                        (CHOOSE e \in m.events[r.job] : e.seq = n).event]
  <2>1. read = log
    BY <1>2, SameLog
  <2>2. MockProjectionStore(m, r) =
          IF read = << >> THEN Error("NotFound", m)
          ELSE IF Head(read) # "job_created" THEN Error("Corrupt", m)
          ELSE Value({read}, m)
    BY <1>5 DEF MockProjectionStore
  <2>3. Contract!ProjectionStore(d, r) =
          IF log = << >> THEN Contract!Error("NotFound", d)
          ELSE IF Head(log) # "job_created" THEN Contract!Error("Corrupt", d)
          ELSE Contract!Value({log}, d)
    BY <1>5 DEF Contract!ProjectionStore
  <2> HIDE DEF log, read
  <2> QED BY <2>1, <2>2, <2>3, LikeReads
<1> QED BY <1>1, <1>3, <1>4, <1>5 DEF Methods

StateOf(r) == [job |-> r.job, revision |-> r.revision]

LEMMA PutWorkspaceMirrors ==
  ASSUME NEW m, NEW d \in Contents, Mirrors(m, d), NEW r,
         r.op = "put_workspace_state",
         r.job \in Jobs, r.id \in Ids, r.revision \in Nat,
         \A x \in d.workspaces[r.id] : x.job = r.job
  PROVE  Like(MockWorkspaceStore(m, r), Contract!WorkspaceMetadataStore(d, r))
<1> DEFINE stored == m.workspaces[r.id]
           refused == \/ stored # Nil /\ stored.revision # r.expected
                      \/ stored = Nil /\ r.expected # 0
           found == {x.revision : x \in d.workspaces[r.id]}
<1>1. d.workspaces[r.id] = Some(stored) /\ m \in Mocks
  BY DEF Mirrors, WorkspacesMirror
<1>2. refused <=> ~Contract!Expected(found, r.expected)
  <2>1. found = IF stored = Nil THEN {} ELSE {stored.revision}
    BY <1>1 DEF Some
  <2> HIDE DEF found
  <2> QED BY <2>1 DEF Contract!Expected
<1>3. CASE refused
  <2>1. MockWorkspaceStore(m, r) = Error("Conflict", m)
    BY <1>3 DEF MockWorkspaceStore
  <2>2. Contract!WorkspaceMetadataStore(d, r) = Contract!Error("Conflict", d)
    BY <1>2, <1>3 DEF Contract!WorkspaceMetadataStore
  <2> QED BY <2>1, <2>2, LikeReads
<1>4. CASE ~refused
  <2> DEFINE v == StateOf(r)
             list == AddOnce(m.workspaces_by_job[r.job], stored # Nil, r.id)
             workspaces == [m.workspaces EXCEPT ![r.id] = v]
             lists == [m.workspaces_by_job EXCEPT ![r.job] = list]
             now == [d.workspaces EXCEPT ![r.id] = {v}]
             a == [m EXCEPT !.workspaces = workspaces, !.workspaces_by_job = lists]
             e == [d EXCEPT !.workspaces = now]
  <2>1. v \in State /\ v.job = r.job /\ v # Nil
    <3>1. v \in State /\ v.job = r.job
      BY DEF State, StateOf
    <3> QED BY <3>1, NoRowAssumption DEF State
  <2>2. /\ m.workspaces \in [Ids -> State \cup {Nil}]
        /\ m.workspaces_by_job \in [Jobs -> SUBSET Ids]
        /\ d.workspaces \in [Ids -> SUBSET State]
    BY <1>1 DEF Mocks, Contents, State
  <2>3. /\ \A i \in Ids : d.workspaces[i] = Some(m.workspaces[i])
        /\ ByJobMirrors(m.workspaces_by_job, d.workspaces)
    BY DEF Mirrors, WorkspacesMirror
  <2>4. workspaces \in [Ids -> State \cup {Nil}] /\ WorkspacesMirror(workspaces, now)
    <3> HIDE DEF v
    <3> QED BY <2>1, <2>2, <2>3 DEF WorkspacesMirror, Some
  <2>5. lists \in [Jobs -> SUBSET Ids] /\ ByJobMirrors(lists, now)
    <3> DEFINE index == m.workspaces_by_job  entries == d.workspaces
               id == r.id  job == r.job
    <3>1. stored # Nil <=> entries[id] # {}
      BY <1>1 DEF Some
    <3>2. Listing(index, entries, id, job, v, list)
      BY <2>1, <2>2, <2>3, <3>1 DEF Listing, AddOnce
    <3>3. now = [entries EXCEPT ![id] = {v}] /\ lists = [index EXCEPT ![job] = list]
      OBVIOUS
    <3> HIDE DEF index, entries, id, job, v, list, now, lists
    <3>4. /\ ByJobMirrors([index EXCEPT ![job] = list], [entries EXCEPT ![id] = {v}])
          /\ [index EXCEPT ![job] = list] \in [Jobs -> SUBSET Ids]
      BY <3>2, EntryListed
    <3> QED BY <3>3, <3>4
  <2>6. MockWorkspaceStore(m, r) = Ok(a)
    BY <1>4 DEF MockWorkspaceStore, StateOf
  <2>7. Contract!WorkspaceMetadataStore(d, r) = Contract!Ok(e)
    BY <1>2, <1>4 DEF Contract!WorkspaceMetadataStore, StateOf
  <2> HIDE DEF workspaces, lists, now
  <2>8. /\ a.workspaces = workspaces /\ a.workspaces_by_job = lists
        /\ a.events = m.events /\ a.max_sequence = m.max_sequence
        /\ a.projections = m.projections /\ a.sources = m.sources
        /\ a.source_by_fp = m.source_by_fp /\ a.sources_by_job = m.sources_by_job
        /\ a.active_source = m.active_source
        /\ a.table = m.table /\ a.by_job = m.by_job
        /\ a.evidence_by_fp = m.evidence_by_fp
        /\ a.operations_executing = m.operations_executing
        /\ a.gate_results = m.gate_results
        /\ a \in Mocks
    BY <1>1, <2>4, <2>5 DEF Mocks
  <2>9. /\ e.workspaces = now
        /\ e.events = d.events /\ e.versions = d.versions /\ e.sources = d.sources
        /\ e.active = d.active /\ e.rows = d.rows /\ e.results = d.results
    BY DEF Contents
  <2> HIDE DEF a, e
  <2>10. Mirrors(a, e)
    BY <2>4, <2>5, <2>8, <2>9 DEF Mirrors
  <2> QED BY <2>6, <2>7, <2>10, LikeOk
<1> QED BY <1>3, <1>4

LEMMA WorkspaceMirrored ==
  ASSUME NEW m, NEW d \in Contents, Mirrors(m, d),
         NEW r \in Requests, r.trait = "WorkspaceMetadataStore", Scripted(d, r)
  PROVE  Like(MockWorkspaceStore(m, r), Contract!WorkspaceMetadataStore(d, r))
<1>1. r.op \in Methods.WorkspaceMetadataStore
  BY MethodOf
<1>2. CASE r.op = "get_workspace_state"
  <2>1. r.id \in Ids
    BY <1>2, RequestsAssumption DEF ById
  <2>2. d.workspaces[r.id] = Some(m.workspaces[r.id])
    BY <2>1 DEF Mirrors, WorkspacesMirror
  <2> QED BY <1>2, <2>2, LikeReads DEF MockWorkspaceStore, Contract!WorkspaceMetadataStore
<1>3. CASE r.op = "put_workspace_state"
  <2>1. /\ r.job \in Jobs /\ r.id \in Ids /\ r.revision \in Nat
        /\ \A x \in d.workspaces[r.id] : x.job = r.job
    BY <1>3, RequestsAssumption DEF ByJob, ById, Puts, Scripted
  <2> QED BY <1>3, <2>1, PutWorkspaceMirrors
<1>4. CASE r.op = "list_workspaces_for_job"
  <2>1. r.job \in Jobs
    BY <1>4, RequestsAssumption DEF ByJob
  <2>2. m.workspaces_by_job[r.job]
          = {i \in Ids : \E x \in d.workspaces[i] : x.job = r.job}
    BY <2>1 DEF Mirrors, ByJobMirrors
  <2>3. Like(Value(m.workspaces_by_job[r.job], m),
             Contract!Value(m.workspaces_by_job[r.job], d))
    BY LikeReads
  <2> QED BY <1>4, <2>2, <2>3 DEF MockWorkspaceStore, Contract!WorkspaceMetadataStore
<1> QED BY <1>1, <1>2, <1>3, <1>4 DEF Methods

-----------------------------------------------------------------------------
(* Any call.                                                               *)

(* Every call that is on script is answered as the contract says, and      *)
(* leaves a store that mirrors what the contract leaves.                   *)
LEMMA Mirrored ==
  ASSUME NEW m, NEW d \in Contents, Mirrors(m, d), NEW r \in Requests, Scripted(d, r)
  PROVE  Like(MockOutcome(m, r), Contract!Outcome(d, r))
<1> DEFINE o == MockOutcome(m, r)  c == Contract!Outcome(d, r)
<1>1. CASE r.trait = "EventStore"
  <2>1. o = MockEventStore(m, r) /\ c = Contract!EventStore(d, r)
    BY <1>1 DEF MockOutcome, Contract!Outcome
  <2> QED BY <1>1, <2>1, EventMirrored
<1>2. CASE r.trait = "ProjectionStore"
  <2>1. o = MockProjectionStore(m, r) /\ c = Contract!ProjectionStore(d, r)
    BY <1>2 DEF MockOutcome, Contract!Outcome
  <2> QED BY <1>2, <2>1, ProjectionMirrored
<1>3. CASE r.trait = "CandidateStore"
  <2>1. o = MockCandidateStore(m, r) /\ c = Contract!CandidateStore(d, r)
    BY <1>3 DEF MockOutcome, Contract!Outcome
  <2> QED BY <1>3, <2>1, CandidateMirrored
<1>4. CASE r.trait = "EvidenceStore"
  <2>1. o = MockEvidenceStore(m, r) /\ c = Contract!EvidenceStore(d, r)
    BY <1>4 DEF MockOutcome, Contract!Outcome
  <2> QED BY <1>4, <2>1, EvidenceMirrored
<1>5. CASE r.trait = "GateStore"
  <2>1. o = MockGateStore(m, r) /\ c = Contract!GateStore(d, r)
    BY <1>5 DEF MockOutcome, Contract!Outcome
  <2> QED BY <1>5, <2>1, GateMirrored
<1>6. CASE r.trait = "ObligationStore"
  <2>1. o = MockObligationStore(m, r) /\ c = Contract!ObligationStore(d, r)
    BY <1>6 DEF MockOutcome, Contract!Outcome
  <2> QED BY <1>6, <2>1, ObligationMirrored
<1>7. CASE r.trait = "OperationStore"
  <2>1. o = MockOperationStore(m, r) /\ c = Contract!OperationStore(d, r)
    BY <1>7 DEF MockOutcome, Contract!Outcome
  <2> QED BY <1>7, <2>1, OperationMirrored
<1>8. CASE r.trait = "ArtifactMetadataStore"
  <2>1. o = MockArtifactStore(m, r) /\ c = Contract!ArtifactMetadataStore(d, r)
    BY <1>8 DEF MockOutcome, Contract!Outcome
  <2> QED BY <1>8, <2>1, ArtifactMirrored
<1>9. CASE r.trait = "WorkspaceMetadataStore"
  <2>1. o = MockWorkspaceStore(m, r) /\ c = Contract!WorkspaceMetadataStore(d, r)
    BY <1>9 DEF MockOutcome, Contract!Outcome
  <2> QED BY <1>9, <2>1, WorkspaceMirrored
<1>10. CASE r.trait = "CheckStore"
  <2>1. o = MockCheckStore(m, r) /\ c = Contract!CheckStore(d, r)
    BY <1>10 DEF MockOutcome, Contract!Outcome
  <2> QED BY <1>10, <2>1, CheckMirrored
<1> QED BY TraitOf, <1>1, <1>2, <1>3, <1>4, <1>5, <1>6, <1>7, <1>8, <1>9, <1>10

(* A method that reads leaves the in-memory store as it is. *)
LEMMA MockReadsKeep ==
  ASSUME NEW m, NEW r \in Requests, r.op \in Reads
  PROVE  MockOutcome(m, r).after = m
<1> DEFINE o == MockOutcome(m, r)
<1>1. /\ \A rows : Fetch(rows, m).after = m
      /\ \A value : Value(value, m).after = m
      /\ \A kind : Error(kind, m).after = m
  BY DEF Fetch, Value, Error
<1>2. /\ \A x : Required(x, m).after = m
      /\ \A x : Optional(x, m).after = m
      /\ \A kind : MockGet(m, kind, r).after = m
      /\ \A kind : MockList(m, kind, r).after = m
  BY <1>1 DEF Required, Optional, MockGet, MockList
<1>3. CASE r.trait = "EventStore"
  <2>1. o = MockEventStore(m, r) /\ r.op \in Methods.EventStore
    BY <1>3, MethodOf DEF MockOutcome
  <2>2. r.op \in {"get_event", "list_events_for_job", "next_sequence"}
    BY <2>1 DEF Methods, Reads
  <2> QED BY <1>1, <2>1, <2>2 DEF MockEventStore
<1>4. CASE r.trait = "ProjectionStore"
  <2>1. o = MockProjectionStore(m, r) /\ r.op \in Methods.ProjectionStore
    BY <1>4, MethodOf DEF MockOutcome
  <2>2. r.op \in {"get_projection", "rebuild_projection"}
    BY <2>1 DEF Methods, Reads
  <2> QED BY <1>1, <1>2, <2>1, <2>2 DEF MockProjectionStore
<1>5. CASE r.trait = "CandidateStore"
  <2>1. o = MockCandidateStore(m, r) /\ r.op \in Methods.CandidateStore
    BY <1>5, MethodOf DEF MockOutcome
  <2>2. r.op \in {"get_source_candidate", "get_release_candidate",
                  "list_release_candidates_for_job",
                  "list_source_candidates_for_job",
                  "active_source_candidate", "find_source_by_fingerprint"}
    BY <2>1 DEF Methods, Reads
  <2> QED BY <1>1, <1>2, <2>1, <2>2 DEF MockCandidateStore
<1>6. CASE r.trait = "EvidenceStore"
  <2>1. o = MockEvidenceStore(m, r) /\ r.op \in Methods.EvidenceStore
    BY <1>6, MethodOf DEF MockOutcome
  <2>2. r.op \in {"get_evidence", "list_evidence_for_job",
                  "list_evidence_for_candidate"}
    BY <2>1 DEF Methods, Reads
  <2> QED BY <1>1, <1>2, <2>1, <2>2 DEF MockEvidenceStore
<1>7. CASE r.trait = "GateStore"
  <2>1. o = MockGateStore(m, r) /\ r.op \in Methods.GateStore
    BY <1>7, MethodOf DEF MockOutcome
  <2>2. r.op \in {"get_gate_definition", "get_gate_result", "list_gates_for_job"}
    BY <2>1 DEF Methods, Reads
  <2> QED BY <1>1, <1>2, <2>1, <2>2 DEF MockGateStore
<1>8. CASE r.trait = "ObligationStore"
  <2>1. o = MockObligationStore(m, r) /\ r.op \in Methods.ObligationStore
    BY <1>8, MethodOf DEF MockOutcome
  <2>2. r.op \in {"get_obligation", "list_obligations_for_job"}
    BY <2>1 DEF Methods, Reads
  <2> QED BY <1>2, <2>1, <2>2 DEF MockObligationStore
<1>9. CASE r.trait = "OperationStore"
  <2>1. o = MockOperationStore(m, r) /\ r.op \in Methods.OperationStore
    BY <1>9, MethodOf DEF MockOutcome
  <2>2. r.op \in {"get_operation", "list_executing_operations",
                  "list_operations_for_job"}
    BY <2>1 DEF Methods, Reads
  <2> QED BY <1>1, <1>2, <2>1, <2>2 DEF MockOperationStore
<1>10. CASE r.trait = "ArtifactMetadataStore"
  <2>1. o = MockArtifactStore(m, r) /\ r.op \in Methods.ArtifactMetadataStore
    BY <1>10, MethodOf DEF MockOutcome
  <2>2. r.op \in {"get_artifact", "artifact_exists", "list_artifacts_for_job"}
    BY <2>1 DEF Methods, Reads
  <2> QED BY <1>1, <1>2, <2>1, <2>2 DEF MockArtifactStore
<1>11. CASE r.trait = "WorkspaceMetadataStore"
  <2>1. o = MockWorkspaceStore(m, r) /\ r.op \in Methods.WorkspaceMetadataStore
    BY <1>11, MethodOf DEF MockOutcome
  <2>2. r.op \in {"get_workspace_state", "list_workspaces_for_job"}
    BY <2>1 DEF Methods, Reads
  <2> QED BY <1>1, <1>2, <2>1, <2>2 DEF MockWorkspaceStore
<1>12. CASE r.trait = "CheckStore"
  <2>1. o = MockCheckStore(m, r) /\ r.op \in Methods.CheckStore
    BY <1>12, MethodOf DEF MockOutcome
  <2>2. r.op \in {"get_check", "list_checks_for_job"}
    BY <2>1 DEF Methods, Reads
  <2> QED BY <1>2, <2>1, <2>2 DEF MockCheckStore
<1> QED BY TraitOf, <1>3, <1>4, <1>5, <1>6, <1>7, <1>8, <1>9, <1>10, <1>11, <1>12

-----------------------------------------------------------------------------
(* The script.                                                             *)

(* A call on script is on script by what the traits see, unless it is a    *)
(* candidate of a job that has no projection.                              *)
LEMMA ScriptSeen ==
  ASSUME NEW s, Sound(s), NEW r \in Requests, InScript(s, r),
         r.op = "put_source_candidate" => HasJob(s, r.job)
  PROVE  Scripted(AsStore(s), r)
<1> DEFINE d == AsStore(s)
<1>1. ASSUME r.op = "put_source_candidate"
      PROVE  /\ d.versions[r.job] # {}
             /\ \A x \in d.sources[r.id] : x.fp = r.fp /\ x.job = r.job
  <2>1. r.job \in Jobs /\ r.id \in Ids
    BY <1>1, RequestsAssumption DEF ByJob, ById, Puts
  <2>2. d.versions[r.job] = {x.version : x \in OfJob(s.projections, r.job)}
    BY <2>1 DEF AsStore
  <2>3. d.sources[r.id] = {[job |-> x.job, fp |-> x.fp] :
                             x \in WithId(s.source_candidates, r.id)}
    BY <2>1 DEF AsStore
  <2>4. \A x \in WithId(s.source_candidates, r.id) : x.fp = r.fp /\ x.job = r.job
    BY <1>1 DEF InScript
  <2>5. OfJob(s.projections, r.job) # {}
    BY <1>1 DEF HasJob
  <2> HIDE DEF d
  <2> QED BY <2>2, <2>3, <2>4, <2>5
<1>2. \A k \in Kinds, i \in Ids : d.rows[k][i] = RowsOf(s, k, i)
  BY RowsOfStore
<1>3. ASSUME r.op \in RowPuts
      PROVE  /\ RowKind[r.op] \in Kinds /\ r.id \in Ids
             /\ \A x \in d.rows[RowKind[r.op]][r.id] : x.job = r.job
  <2>1. r.id \in Ids /\ RowKind[r.op] \in Kinds
    BY <1>3, RequestsAssumption DEF ById, Puts, RowPuts, RowKind, Kinds
  <2>2. \A x \in WithId(Table(s, RowKind[r.op]), r.id) : x.job = r.job
    BY <1>3 DEF InScript
  <2> HIDE DEF d
  <2> QED BY <1>2, <2>1, <2>2 DEF RowsOf
<1>4. ASSUME r.op = "put_evidence"
      PROVE  \A x \in d.rows["evidence"][r.id] : x.val = r.val
  <2>1. r.id \in Ids /\ "evidence" \in Kinds
    BY <1>3, <1>4 DEF RowPuts, RowKind, Kinds
  <2>2. \A x \in WithId(Table(s, "evidence"), r.id) : x.val = r.val
    BY <1>4 DEF InScript
  <2> HIDE DEF d
  <2> QED BY <1>2, <2>1, <2>2 DEF RowsOf
<1>5. ASSUME r.op = "put_operation" PROVE Proposed(d, r)
  <2>1. r.id \in Ids /\ "operation" \in Kinds
    BY <1>3, <1>5 DEF RowPuts, RowKind, Kinds
  <2>2. /\ r.val # "executing"
        /\ \A x \in WithId(Table(s, "operation"), r.id) : x.val # "executing"
    BY <1>5 DEF InScript
  <2> HIDE DEF d
  <2> QED BY <1>2, <2>1, <2>2 DEF RowsOf, Proposed
<1>6. ASSUME r.op = "put_workspace_state"
      PROVE  \A x \in d.workspaces[r.id] : x.job = r.job
  <2>1. r.id \in Ids
    BY <1>6, RequestsAssumption DEF ById, Puts
  <2>2. d.workspaces[r.id] = {[job |-> x.job, revision |-> x.revision] :
                                x \in WithId(s.workspace_metadata, r.id)}
    BY <2>1 DEF AsStore
  <2>3. \A x \in WithId(s.workspace_metadata, r.id) : x.job = r.job
    BY <1>6 DEF InScript
  <2> HIDE DEF d
  <2> QED BY <2>2, <2>3
<1> HIDE DEF d
<1> QED BY <1>1, <1>3, <1>4, <1>5, <1>6 DEF Scripted, d

(* The statements of a call on script violate no constraint, unless they   *)
(* put a candidate.                                                        *)
LEMMA ScriptHolds ==
  ASSUME NEW s, Sound(s), NEW r \in Requests, InScript(s, r), ~Refuses(s, r),
         r.op # "put_source_candidate", NEW known
  PROVE  Sql(s, r, known).ans.err # "Backend"
<1> DEFINE o == Sql(s, r, known)
<1>1. /\ \A rows : Fetch(rows, s).ans.err # "Backend"
      /\ \A value : Value(value, s).ans.err # "Backend"
      /\ \A kind : kind # "Backend" => Error(kind, s).ans.err # "Backend"
      /\ \A rows : deserialised(rows, known, s).ans.err # "Backend"
      /\ \A t : Ok(t).ans.err # "Backend"
      /\ \A t : Constrained(TRUE, s, t).ans.err # "Backend"
  BY DEF Fetch, Value, Error, deserialised, Ok, Done, Constrained, Answered
<1>2. /\ \A kind : SqlGet(s, kind, r).ans.err # "Backend"
      /\ \A kind : SqlList(s, kind, r).ans.err # "Backend"
      /\ \A kind, val : SqlWith(s, kind, val).ans.err # "Backend"
      /\ \A kind : SqlUpdate(s, kind, r).ans.err # "Backend"
      /\ HasJob(s, r.job) => \A kind : SqlPut(s, kind, r).ans.err # "Backend"
  BY <1>1 DEF SqlGet, SqlList, SqlWith, SqlUpdate, SqlPut, Constrained
<1>3. r.op \in ByJob \ Reads /\ r.op # "put_projection" => HasJob(s, r.job)
  BY DEF InScript
<1>4. CASE r.trait = "EventStore"
  <2>1. o = ops_events(s, r, known) /\ r.op \in Methods.EventStore
    BY <1>4, MethodOf DEF Sql, OfJobTables, JobTables
  <2>2. CASE r.op = "append_event"
    <3>1. HasJob(s, r.job)
      BY <1>3, <2>2 DEF ByJob, Methods, Reads
    <3>2. \A e \in OfJob(s.events, r.job) : e.seq # r.seq
      <4>1. r.job \in Jobs /\ r.seq = MaxSequence(s, r.job) + 1
        BY <2>2, RequestsAssumption DEF Refuses, append_refuses, ByJob, Methods
      <4>2. /\ MaxSequence(s, r.job) \in Nat
            /\ \A e \in OfJob(s.events, r.job) : e.seq \in 1..MaxSequence(s, r.job)
        BY <4>1, LogIs
      <4> QED BY <4>1, <4>2
    <3>3. o = Ok(Inserted(s, r))
      BY <2>1, <2>2, <3>1, <3>2 DEF ops_events, Constrained
    <3> QED BY <1>1, <3>3
  <2>3. CASE r.op \in {"get_event", "list_events_for_job", "next_sequence"}
    BY <1>1, <2>1, <2>3 DEF ops_events
  <2> QED BY <2>1, <2>2, <2>3 DEF Methods
<1>5. CASE r.trait = "ProjectionStore"
  <2>1. o = ops_projections(s, r, known) /\ r.op \in Methods.ProjectionStore
    BY <1>5, MethodOf DEF Sql, OfJobTables, JobTables
  <2>2. rebuild(s, r.job, known).ans.err # "Backend"
    BY <1>1 DEF rebuild
  <2> QED BY <1>1, <2>1, <2>2 DEF ops_projections, Methods
<1>6. CASE r.trait = "CandidateStore"
  <2>1. o = ops_candidates(s, r) /\ r.op \in Methods.CandidateStore
    BY <1>6, MethodOf DEF Sql, OfJobTables, JobTables
  <2>2. CASE r.op = "set_active_source_candidate"
    <3>1. HasJob(s, r.job) /\ WithId(s.source_candidates, r.id) # {}
      BY <1>3, <2>2 DEF ByJob, Reads, InScript
    <3>2. set_active_source(s, r).ans.err # "Backend"
      BY <1>1, <3>1 DEF set_active_source, Constrained
    <3> QED BY <2>1, <2>2, <3>2 DEF ops_candidates
  <2>3. CASE r.op = "put_release_candidate"
    <3>1. HasJob(s, r.job)
      BY <1>3, <2>3 DEF ByJob, Puts, RowPuts, RowKind, Reads
    <3> QED BY <1>2, <2>1, <2>3, <3>1 DEF ops_candidates
  <2>4. CASE r.op \in {"get_source_candidate", "get_release_candidate",
                       "list_release_candidates_for_job",
                       "list_source_candidates_for_job",
                       "active_source_candidate", "find_source_by_fingerprint"}
    BY <1>1, <1>2, <2>1, <2>4 DEF ops_candidates
  <2> QED BY <2>1, <2>2, <2>3, <2>4 DEF Methods
<1>7. CASE r.trait = "EvidenceStore"
  <2>1. o = ops_evidence(s, r) /\ r.op \in Methods.EvidenceStore
    BY <1>7, MethodOf DEF Sql, OfVerdictTables, JobTables, VerdictTables
  <2>2. r.op = "put_evidence" => HasJob(s, r.job)
    BY <1>3 DEF ByJob, Puts, RowPuts, RowKind, Reads
  <2> QED BY <1>2, <2>1, <2>2 DEF ops_evidence, Methods
<1>8. CASE r.trait = "GateStore"
  <2>1. o = ops_gates(s, r) /\ r.op \in Methods.GateStore
    BY <1>8, MethodOf DEF Sql, OfVerdictTables, JobTables, VerdictTables
  <2>2. CASE r.op = "put_gate_definition"
    <3>1. HasJob(s, r.job)
      BY <1>3, <2>2 DEF ByJob, Puts, RowPuts, RowKind, Reads
    <3> QED BY <1>2, <2>1, <2>2, <3>1 DEF ops_gates
  <2>3. CASE r.op = "put_gate_result"
    <3>1. WithId(Table(s, "gate"), r.id) # {}
      BY <2>3 DEF InScript
    <3> QED BY <1>1, <2>1, <2>3, <3>1 DEF ops_gates, Constrained
  <2>4. CASE r.op \in {"get_gate_definition", "get_gate_result", "list_gates_for_job"}
    BY <1>1, <1>2, <2>1, <2>4 DEF ops_gates
  <2> QED BY <2>1, <2>2, <2>3, <2>4 DEF Methods
<1>9. CASE r.trait = "ObligationStore"
  <2>1. o = ops_obligations(s, r) /\ r.op \in Methods.ObligationStore
    BY <1>9, MethodOf DEF Sql, OfVerdictTables, JobTables, VerdictTables
  <2>2. r.op = "put_obligation" => HasJob(s, r.job)
    BY <1>3 DEF ByJob, Puts, RowPuts, RowKind, Reads
  <2> QED BY <1>2, <2>1, <2>2 DEF ops_obligations, Methods
<1>10. CASE r.trait = "OperationStore"
  <2>1. o = ops_operations(s, r) /\ r.op \in Methods.OperationStore
    BY <1>10, MethodOf DEF Sql, OfToolTables, JobTables, VerdictTables
  <2>2. r.op = "put_operation" => HasJob(s, r.job)
    BY <1>3 DEF ByJob, Puts, RowPuts, RowKind, Reads
  <2> QED BY <1>2, <2>1, <2>2 DEF ops_operations, Methods
<1>11. CASE r.trait = "ArtifactMetadataStore"
  <2>1. o = ops_artifacts(s, r) /\ r.op \in Methods.ArtifactMetadataStore
    BY <1>11, MethodOf DEF Sql, OfToolTables, JobTables, VerdictTables
  <2>2. r.op = "put_artifact" => HasJob(s, r.job)
    BY <1>3 DEF ByJob, Puts, RowPuts, RowKind, Reads
  <2> QED BY <1>1, <1>2, <2>1, <2>2 DEF ops_artifacts, Methods
<1>12. CASE r.trait = "WorkspaceMetadataStore"
  <2>1. o = ops_workspaces(s, r) /\ r.op \in Methods.WorkspaceMetadataStore
    BY <1>12, MethodOf DEF Sql, OfToolTables, JobTables, VerdictTables
  <2>2. r.op = "put_workspace_state" => HasJob(s, r.job)
    BY <1>3 DEF ByJob, Puts, Reads
  <2> QED BY <1>1, <2>1, <2>2 DEF ops_workspaces, Constrained, Methods
<1>13. CASE r.trait = "CheckStore"
  <2>1. o = ops_checks(s, r) /\ r.op \in Methods.CheckStore
    BY <1>13, MethodOf DEF Sql, OfToolTables, JobTables, VerdictTables
  <2>2. r.op = "put_check" => HasJob(s, r.job)
    BY <1>3 DEF ByJob, Puts, RowPuts, RowKind, Reads
  <2> QED BY <1>2, <2>1, <2>2 DEF ops_checks, Methods
<1> QED BY TraitOf, <1>4, <1>5, <1>6, <1>7, <1>8, <1>9, <1>10, <1>11, <1>12, <1>13

-----------------------------------------------------------------------------
(* Both stores under one call.                                             *)

(* What one answer may differ from another in. *)
Told(a, b) == IF a.err = "Backend" THEN b.err # "none" ELSE a = b

(* A call on script that its compare refuses. *)
LEMMA RefusedTold ==
  ASSUME NEW s, Sound(s), NEW m, Mirrors(m, AsStore(s)), NEW r \in Requests,
         InScript(s, r), Refuses(s, r)
  PROVE  /\ Mirrors(MockOutcome(m, r).after, AsStore(s))
         /\ MockOutcome(m, r).ans =
              Answered(IF r.op = "append_event" THEN "SequenceOutOfRange"
                       ELSE "Conflict", {})
<1> DEFINE d == AsStore(s)  c == Contract!Outcome(d, r)
<1>1. \/ r.op = "append_event" /\ append_refuses(s, r)
      \/ r.op = "put_projection" /\ put_projection_refuses(s, r)
      \/ r.op = "put_workspace_state" /\ put_workspace_refuses(s, r)
  BY DEF Refuses
<1>2. c = [ans |-> Answered(IF r.op = "append_event" THEN "SequenceOutOfRange"
                            ELSE "Conflict", {}), after |-> d]
  BY <1>1, AppendRefused, ProjectionRefused, WorkspaceRefused
<1>3. d \in Contents /\ Scripted(d, r)
  BY <1>1, ContentsOfStore, ScriptSeen
<1> HIDE DEF d
<1>4. Like(MockOutcome(m, r), c)
  BY <1>3, Mirrored DEF d
<1> HIDE DEF c
<1> QED BY <1>2, <1>4 DEF Like, d

(* A call on script whose statement is executed. *)
LEMMA ExecutedTold ==
  ASSUME NEW s, Sound(s), NEW m, Mirrors(m, AsStore(s)), NEW r \in Requests,
         InScript(s, r), ~Refuses(s, r), NEW known
  PROVE  LET o == Sql(s, r, known)
         IN  /\ o.ans.err # "Corrupt" => Told(o.ans, MockOutcome(m, r).ans)
             /\ Mirrors(MockOutcome(m, r).after, AsStore(o.after))
<1> DEFINE o == Sql(s, r, known)  d == AsStore(s)  c == Contract!Outcome(d, r)
           p == MockOutcome(m, r)
<1>1. Carried(o, c, s)
  BY SqlCarried
<1>2. d \in Contents
  BY ContentsOfStore
<1>3. CASE o.ans.err = "Corrupt"
  <2>1. r.op \in Reads
    BY <1>3, WritesReadable
  <2>2. o.after = s /\ p.after = m
    BY <2>1, ReadsKeep, MockReadsKeep
  <2> HIDE DEF o, p
  <2> QED BY <1>3, <2>2 DEF o, p
<1>4. CASE r.op = "put_source_candidate" /\ ~HasJob(s, r.job)
  <2>1. r.job \in Jobs /\ r.trait = "CandidateStore"
    BY <1>4, TraitOf, MethodOf, RequestsAssumption DEF ByJob, Puts, Methods
  <2>2. o = Error("Backend", s)
    BY <1>4, <2>1 DEF Sql, OfJobTables, JobTables, ops_candidates, put_source, Constrained
  <2>3. d.versions[r.job] = {}
    <3>1. OfJob(s.projections, r.job) = {}
      BY <1>4 DEF HasJob
    <3> QED BY <2>1, <3>1 DEF AsStore
  <2>4. m.projections[r.job] = Nil
    BY <2>1, <2>3 DEF Mirrors, VersionsMirror, Some
  <2>5. p = Error("Conflict", m)
    BY <1>4, <2>1, <2>4 DEF MockOutcome, MockCandidateStore, put_source_candidate
  <2> HIDE DEF o, p, d
  <2> QED BY <2>2, <2>5 DEF Error, Answered, Told, o, p, d
<1>5. CASE /\ o.ans.err # "Corrupt"
           /\ r.op = "put_source_candidate" => HasJob(s, r.job)
  <2>1. Like(p, c)
    <3>1. Scripted(d, r)
      BY <1>5, ScriptSeen
    <3> HIDE DEF d
    <3> QED BY <1>2, <3>1, Mirrored DEF d
  <2>2. CASE o.ans.err # "Backend"
    <3>1. c = [ans |-> o.ans, after |-> AsStore(o.after)]
      BY <1>1, <1>5, <2>2 DEF Carried, Agree
    <3> HIDE DEF o, p, c
    <3> QED BY <1>5, <2>1, <2>2, <3>1 DEF Like, Told, o, p
  <2>3. CASE o.ans.err = "Backend"
    <3>1. r.op = "put_source_candidate"
      BY <2>3, ScriptHolds
    <3>2. r.job \in Jobs /\ r.id \in Ids /\ r.fp \in Fingerprints
          /\ r.trait = "CandidateStore"
      BY <3>1, TraitOf, MethodOf, RequestsAssumption
         DEF ByJob, ById, ByFingerprint, Puts, Methods
    <3>3. o = put_source(s, r)
      BY <3>1, <3>2 DEF Sql, OfJobTables, JobTables, ops_candidates
    <3>4. ~\A x \in s.source_candidates : x.fp = r.fp => x.id = r.id
      BY <1>5, <2>3, <3>1, <3>3 DEF put_source, Constrained, Ok, Done, Answered
    <3>5. ~(Contract!OfFingerprint(d, r.fp) \subseteq {r.id})
      BY <3>2, <3>4, SourcesWith
    <3>6. c = Contract!Error("Conflict", d)
      BY <3>1, <3>2, <3>5 DEF Contract!Outcome, Contract!CandidateStore
    <3>7. o.after = s
      BY <1>1, <2>3 DEF Carried
    <3> HIDE DEF o, p, c
    <3>8. p.ans = Answered("Conflict", {}) /\ Mirrors(p.after, d)
      BY <2>1, <3>6 DEF Like, Contract!Error, Contract!Answered, Answered
    <3> QED BY <2>3, <3>7, <3>8 DEF Told, Answered, o, p
  <2> QED BY <2>2, <2>3
<1> QED BY <1>3, <1>4, <1>5

-----------------------------------------------------------------------------
(* Where both stores start.                                                *)

LEMMA EmptyMirrors == Mirrors(EmptyMock, AsStore(EmptyTables))
<1> DEFINE m == EmptyMock  s == EmptyTables  d == AsStore(s)
<1>1. m \in Mocks
  <2>1. << >> \in Seq(Result)
    OBVIOUS
  <2> QED BY <2>1 DEF EmptyMock, Mocks
<1>2. LogsMirror(m.events, m.max_sequence, d.events)
  <2> SUFFICES ASSUME NEW j \in Jobs
               PROVE  /\ m.max_sequence[j] = Len(d.events[j])
                      /\ m.events[j] = {[seq |-> n, event |-> d.events[j][n]] :
                                          n \in DOMAIN d.events[j]}
    BY DEF LogsMirror
  <2>1. d.events[j] = Log(s, j)
    BY DEF AsStore
  <2>2. OfJob(s.events, j) = {}
    BY DEF EmptyTables, OfJob
  <2>3. {e.seq : e \in OfJob(s.events, j)} = 1..0
    BY <2>2
  <2>4. MaxSequence(s, j) = 0
    BY <2>3, MaxSequenceIs
  <2>5. DOMAIN Log(s, j) = {} /\ Len(Log(s, j)) = 0
    BY <2>4, LogIs, EmptySound
  <2>6. m.max_sequence[j] = 0 /\ m.events[j] = {}
    BY DEF EmptyMock
  <2> HIDE DEF m, s, d
  <2> QED BY <2>1, <2>5, <2>6
<1>3. VersionsMirror(m.projections, d.versions)
  BY DEF VersionsMirror, EmptyMock, AsStore, EmptyTables, OfJob, Some
<1>4. \A i \in Ids : d.sources[i] = {}
  BY DEF AsStore, EmptyTables, WithId
<1>5. /\ SourcesMirror(m.sources, d.sources)
      /\ ByFpMirrors(m.source_by_fp, d.sources)
      /\ ByJobMirrors(m.sources_by_job, d.sources)
  <2> HIDE DEF d
  <2> QED BY <1>4 DEF SourcesMirror, ByFpMirrors, ByJobMirrors, EmptyMock, Some
<1>6. ActiveMirrors(m.active_source, d.active)
  BY DEF ActiveMirrors, EmptyMock, AsStore, EmptyTables, OfJob, Some
<1>7. \A k \in Kinds, i \in Ids : d.rows[k][i] = {}
  BY DEF AsStore, EmptyTables, WithId, Table
<1>8. /\ RowsMirror(m.table, d.rows) /\ ListsMirror(m.by_job, d.rows)
      /\ EvidenceMirrors(m.evidence_by_fp, d.rows)
      /\ ExecutingMirrors(m.operations_executing, d.rows)
  <2>1. "evidence" \in Kinds /\ "operation" \in Kinds
    BY DEF Kinds
  <2>2. /\ \A k \in Kinds, i \in Ids : m.table[k][i] = Nil
        /\ \A k \in Kinds, j \in Jobs : m.by_job[k][j] = {}
        /\ \A f \in Fingerprints : m.evidence_by_fp[f] = {}
        /\ m.operations_executing = {}
    BY DEF EmptyMock
  <2> HIDE DEF d, m
  <2>3. RowsMirror(m.table, d.rows)
    BY <1>7, <2>2 DEF RowsMirror, Some
  <2>4. ListsMirror(m.by_job, d.rows)
    BY <1>7, <2>2 DEF ListsMirror, ByJobMirrors
  <2> QED BY <1>7, <2>1, <2>2, <2>3, <2>4 DEF EvidenceMirrors, ExecutingMirrors
<1>9. ResultsMirror(m.gate_results, d.results)
  <2>1. \A g \in Ids, f \in Fingerprints : d.results[g][f] = {}
    BY DEF AsStore, EmptyTables, ResultsOf
  <2>2. \A g \in Ids : m.gate_results[g] = << >>
    BY DEF EmptyMock
  <2>3. \A f : find_gate_result(<< >>, f) = Nil
    BY DEF find_gate_result
  <2> HIDE DEF d, m
  <2> QED BY <2>1, <2>2, <2>3 DEF ResultsMirror, Some
<1>10. \A i \in Ids : d.workspaces[i] = {}
  BY DEF AsStore, EmptyTables, WithId
<1>11. /\ WorkspacesMirror(m.workspaces, d.workspaces)
       /\ ByJobMirrors(m.workspaces_by_job, d.workspaces)
  <2> HIDE DEF d
  <2> QED BY <1>10 DEF WorkspacesMirror, ByJobMirrors, EmptyMock, Some
<1> HIDE DEF m, s, d
<1>12. Mirrors(m, d)
  BY <1>1, <1>2, <1>3, <1>5, <1>6, <1>8, <1>9, <1>11 DEF Mirrors
<1> QED BY <1>12 DEF m, d, s

(* Both stores after calls of earlier processes. *)
SameStores(x) == Sound(x.sql) /\ (x.on => Mirrors(x.mock, AsStore(x.sql)))

LEMMA AfterMirrors ==
  ASSUME NEW x, SameStores(x), NEW r \in Requests
  PROVE  SameStores(After(x, r))
<1> DEFINE y == After(x, r)
<1>1. Sound(y.sql)
  BY AfterSound DEF SameStores
<1>2. /\ y.sql = IF Refuses(x.sql, r) THEN x.sql ELSE Sql(x.sql, r, {}).after
      /\ y.mock = MockOutcome(x.mock, r).after
      /\ y.on = (x.on /\ InScript(x.sql, r))
  BY DEF After
<1>3. ASSUME x.on, InScript(x.sql, r) PROVE Mirrors(y.mock, AsStore(y.sql))
  <2>1. Sound(x.sql) /\ Mirrors(x.mock, AsStore(x.sql))
    BY <1>3 DEF SameStores
  <2>2. CASE Refuses(x.sql, r)
    BY <1>2, <1>3, <2>1, <2>2, RefusedTold
  <2>3. CASE ~Refuses(x.sql, r)
    <3>1. Mirrors(MockOutcome(x.mock, r).after, AsStore(Sql(x.sql, r, {}).after))
      BY <1>3, <2>1, <2>3, ExecutedTold
    <3> QED BY <1>2, <2>3, <3>1
  <2> QED BY <2>2, <2>3
<1> HIDE DEF y
<1> QED BY <1>1, <1>2, <1>3 DEF SameStores, y

LEMMA LeftMirrors ==
  ASSUME NEW m \in Menus
  PROVE  SameStores(Left(m))
<1> DEFINE L == Len(m.before)
<1>1. L \in Nat /\ \A i \in 1..L : m.before[i] \in Requests
  BY MenusAssumption
<1>2. PICK left : Leaves(left, m.before, L) /\ Left(m) = left[L]
  BY LeftIs
<1> HIDE DEF L
<1> DEFINE Bad == {k \in 0..L : ~SameStores(left[k])}
<1>3. Bad = {}
  <2> SUFFICES ASSUME Bad # {} PROVE FALSE
    OBVIOUS
  <2>1. Bad \in SUBSET Nat
    BY <1>1
  <2>2. PICK k \in Bad : \A y \in Bad : k <= y
    <3> HIDE DEF Bad
    <3> QED BY <2>1, Least
  <2>3. k \in 0..L /\ ~SameStores(left[k])
    OBVIOUS
  <2>4. k # 0
    <3>1. SameStores(Nothing)
      BY EmptySound, EmptyMirrors DEF SameStores, Nothing
    <3> QED BY <1>2, <2>3, <3>1 DEF Leaves
  <2>5. k \in 1..L /\ k - 1 \in 0..L
    BY <1>1, <2>3, <2>4
  <2>6. SameStores(left[k - 1])
    BY <1>1, <2>2, <2>5
  <2>7. left[k] = After(left[k - 1], m.before[k])
    BY <1>2, <2>5 DEF Leaves
  <2> QED BY <1>1, <2>3, <2>5, <2>6, <2>7, AfterMirrors
<1> QED BY <1>1, <1>2, <1>3

-----------------------------------------------------------------------------
(* The calls of both stores.                                               *)

AnswersAgree(cn) == cn.said # Nil => Told(cn.ans, cn.said)

AgreeInv ==
  onScript => /\ Mirrors(mock, AsStore(sql))
              /\ \A c \in Callers : AnswersAgree(conn[c])

(* What both stores answer one call, and what the others have been told.   *)
Tells(c, ans, said) ==
  /\ conn'[c].ans = ans /\ conn'[c].said = said
  /\ \A b \in Callers \ {c} : conn'[b].ans = conn[b].ans /\ conn'[b].said = conn[b].said

LEMMA AnswerTells ==
  ASSUME ConnInv, NEW c \in Callers, NEW ans, NEW said, conn' = Answer(c, ans, said)
  PROVE  Tells(c, ans, said)
BY DEF Answer, Tells, ConnInv, Fields

LEMMA CommittedTells ==
  ASSUME ConnInv, NEW c \in Callers, NEW ans, NEW said,
         conn' = Committed(Answer(c, ans, said))
  PROVE  Tells(c, ans, said)
<1> DEFINE cs == Answer(c, ans, said)
<1>1. /\ \A b \in Callers : DOMAIN cs[b] = Fields
      /\ cs[c].ans = ans /\ cs[c].said = said
      /\ \A b \in Callers \ {c} : cs[b] = conn[b]
  BY DEF Answer, ConnInv, Fields
<1>2. conn' = Committed(cs)
  OBVIOUS
<1> HIDE DEF cs
<1>3. \A b \in Callers : conn'[b].ans = cs[b].ans /\ conn'[b].said = cs[b].said
  <2> SUFFICES ASSUME NEW b \in Callers
               PROVE  conn'[b].ans = cs[b].ans /\ conn'[b].said = cs[b].said
    OBVIOUS
  <2>1. conn'[b] = IF cs[b].pc = "begun" THEN [cs[b] EXCEPT !.stale = TRUE] ELSE cs[b]
    BY <1>2 DEF Committed
  <2>2. DOMAIN cs[b] = Fields
    BY <1>1
  <2> QED BY <2>1, <2>2 DEF Fields
<1> QED BY <1>1, <1>3 DEF Tells

(* A call on script that both stores answer alike keeps them alike. *)
LEMMA MirrorAgrees ==
  ASSUME AgreeInv, NEW c \in Callers, NEW ans, NEW r, Mirror(r),
         Tells(c, ans, MockOutcome(mock, r).ans),
         InScript(sql, r) /\ Mirrors(mock, AsStore(sql))
           => /\ Told(ans, MockOutcome(mock, r).ans)
              /\ Mirrors(MockOutcome(mock, r).after, AsStore(sql'))
  PROVE  AgreeInv'
<1> SUFFICES ASSUME onScript' PROVE AgreeInv'
  BY DEF AgreeInv
<1>1. onScript /\ InScript(sql, r) /\ mock' = MockOutcome(mock, r).after
  BY DEF Mirror
<1>2. Mirrors(mock, AsStore(sql)) /\ \A b \in Callers : AnswersAgree(conn[b])
  BY <1>1 DEF AgreeInv
<1>3. Told(ans, MockOutcome(mock, r).ans) /\ Mirrors(mock', AsStore(sql'))
  BY <1>1, <1>2
<1>4. ASSUME NEW b \in Callers PROVE AnswersAgree(conn'[b])
  <2>1. CASE b = c
    <3>1. conn'[b].ans = ans /\ conn'[b].said = MockOutcome(mock, r).ans
      BY <2>1 DEF Tells
    <3> QED BY <1>3, <3>1 DEF AnswersAgree
  <2>2. CASE b # c
    <3>1. conn'[b].ans = conn[b].ans /\ conn'[b].said = conn[b].said
      BY <2>2 DEF Tells
    <3> QED BY <1>2, <3>1 DEF AnswersAgree
  <2> QED BY <2>1, <2>2
<1>5. AsStore(sql)' = AsStore(sql')
  OBVIOUS
<1> QED BY <1>3, <1>4, <1>5 DEF AgreeInv

(* A step that neither store sees. *)
LEMMA UnseenAgrees ==
  ASSUME AgreeInv, UNCHANGED <<sql, mock, onScript>>,
         \A b \in Callers :
           \/ conn'[b].said = Nil
           \/ conn'[b].ans = conn[b].ans /\ conn'[b].said = conn[b].said
  PROVE  AgreeInv'
<1>1. AsStore(sql)' = AsStore(sql)
  OBVIOUS
<1>2. \A b \in Callers : AnswersAgree(conn[b]) => AnswersAgree(conn'[b])
  BY DEF AnswersAgree
<1> QED BY <1>1, <1>2 DEF AgreeInv

LEMMA BreakAgrees ==
  ASSUME StoreInv, AgreeInv, NEW c \in Callers, NEW kind, Break(c, kind)
  PROVE  AgreeInv'
<1>1. Tells(c, Answered(kind, {}), Nil) /\ UNCHANGED <<sql, mock, onScript>>
  BY AnswerTells DEF Break, StoreInv
<1> QED BY <1>1, UnseenAgrees DEF Tells

(* A call whose statement is refused, or that only reads. *)
LEMMA SettleAgrees ==
  ASSUME StoreInv, AgreeInv, NEW c \in Callers, NEW known, conn[c].pc # "idle",
         ~Refuses(sql, conn[c].req),
         Sql(sql, conn[c].req, known).after = sql,
         Sql(sql, conn[c].req, known).ans.err # "Corrupt",
         Settle(c, Sql(sql, conn[c].req, known).ans)
  PROVE  AgreeInv'
<1> DEFINE r == conn[c].req  o == Sql(sql, r, known)
<1>1. r \in Requests /\ Sound(sql)
  BY DEF StoreInv, CallInv
<1>2. Mirror(r) /\ sql' = o.after /\ Tells(c, o.ans, MockOutcome(mock, r).ans)
  BY AnswerTells DEF Settle, StoreInv
<1>3. InScript(sql, r) /\ Mirrors(mock, AsStore(sql))
        => /\ Told(o.ans, MockOutcome(mock, r).ans)
           /\ Mirrors(MockOutcome(mock, r).after, AsStore(o.after))
  BY <1>1, ExecutedTold
<1> HIDE DEF o, r
<1> QED BY <1>2, <1>3, MirrorAgrees

LEMMA ApplyAgrees ==
  ASSUME StoreInv, AgreeInv, NEW c \in Callers, NEW known, conn[c].pc # "idle",
         ~Refuses(sql, conn[c].req),
         Sql(sql, conn[c].req, known).ans.err = "none",
         Apply(c, Sql(sql, conn[c].req, known))
  PROVE  AgreeInv'
<1> DEFINE r == conn[c].req  o == Sql(sql, r, known)
<1>1. r \in Requests /\ Sound(sql) /\ o.ans.err # "Corrupt"
  BY DEF StoreInv, CallInv
<1>2. Mirror(r) /\ sql' = o.after /\ Tells(c, o.ans, MockOutcome(mock, r).ans)
  BY CommittedTells DEF Apply, StoreInv
<1>3. InScript(sql, r) /\ Mirrors(mock, AsStore(sql))
        => /\ Told(o.ans, MockOutcome(mock, r).ans)
           /\ Mirrors(MockOutcome(mock, r).after, AsStore(o.after))
  BY <1>1, ExecutedTold
<1> HIDE DEF o, r
<1> QED BY <1>2, <1>3, MirrorAgrees

(* A transaction whose compare fails. *)
LEMMA RefusedAgrees ==
  ASSUME StoreInv, AgreeInv, NEW c \in Callers, conn[c].pc # "idle",
         Refuses(sql, conn[c].req),
         Settle(c, Answered(IF conn[c].req.op = "append_event"
                            THEN "SequenceOutOfRange" ELSE "Conflict", {}))
  PROVE  AgreeInv'
<1> DEFINE r == conn[c].req  p == MockOutcome(mock, r)
           ans == Answered(IF r.op = "append_event" THEN "SequenceOutOfRange"
                           ELSE "Conflict", {})
<1>1. r \in Requests /\ Sound(sql)
  BY DEF StoreInv, CallInv
<1>2. Mirror(r) /\ sql' = sql /\ Tells(c, ans, p.ans)
  BY AnswerTells DEF Settle, StoreInv
<1>3. InScript(sql, r) /\ Mirrors(mock, AsStore(sql))
        => p.ans = ans /\ Mirrors(p.after, AsStore(sql))
  BY <1>1, RefusedTold
<1>4. p.ans = ans => Told(ans, p.ans)
  BY DEF Told, Answered
<1> HIDE DEF r, ans
<1>5. InScript(sql, r) /\ Mirrors(mock, AsStore(sql))
        => Told(ans, MockOutcome(mock, r).ans)
           /\ Mirrors(MockOutcome(mock, r).after, AsStore(sql'))
  BY <1>2, <1>3, <1>4
<1> HIDE DEF p
<1> QED BY <1>2, <1>5, MirrorAgrees DEF p

LEMMA SelectAgrees ==
  ASSUME StoreInv, AgreeInv, NEW c \in Callers, Select(c)
  PROVE  AgreeInv'
<1> DEFINE r == conn[c].req  o == Sql(sql, r, Known)
<1>1. conn[c].pc = "called" /\ r \in Requests /\ r.op \in Reads
  BY DEF Select, StoreInv, CallInv
<1>2. ~Refuses(sql, r)
  <2>1. r.op \notin Transactions
    BY <1>1 DEF Reads, Transactions
  <2> QED BY <2>1, OnlyTransactionsRefuse
<1>3. o.after = sql
  BY <1>1, ReadsKeep
<1>4. \/ Break(c, "Backend") \/ Break(c, "Corrupt")
      \/ o.ans.err # "Corrupt" /\ Settle(c, o.ans)
  BY DEF Select
<1> QED BY <1>1, <1>2, <1>3, <1>4, BreakAgrees, SettleAgrees

LEMMA StatementAgrees ==
  ASSUME StoreInv, AgreeInv, NEW c \in Callers, Statement(c)
  PROVE  AgreeInv'
<1> DEFINE r == conn[c].req  o == Sql(sql, r, Known)
<1>1. conn[c].pc = "called" /\ r \in Requests
  BY DEF Statement, StoreInv, CallInv
<1>2. ~Refuses(sql, r)
  BY OnlyTransactionsRefuse DEF Statement
<1>3. \/ Break(c, "Backend")
      \/ o.ans.err # "none" /\ Settle(c, o.ans)
      \/ o.ans.err = "none" /\ Apply(c, o)
  BY DEF Statement
<1>4. CASE o.ans.err # "none" /\ Settle(c, o.ans)
  <2>1. o.after = sql
    BY <1>1, <1>2, <1>4, SqlCarried DEF StoreInv, Carried
  <2>2. o.ans.err # "Corrupt"
    BY <1>1, WritesReadable DEF Statement
  <2> QED BY <1>1, <1>2, <1>4, <2>1, <2>2, SettleAgrees
<1>5. CASE o.ans.err = "none" /\ Apply(c, o)
  BY <1>1, <1>2, <1>5, ApplyAgrees
<1> QED BY <1>3, <1>4, <1>5, BreakAgrees

(* A call that goes on keeps what it was told, which is nothing. *)
LEMMA GoesOnAgrees ==
  ASSUME StoreInv, AgreeInv, NEW c \in Callers, NEW pc,
         conn' = [conn EXCEPT ![c].pc = pc], UNCHANGED <<sql, mock, onScript>>
  PROVE  AgreeInv'
<1>1. \A b \in Callers : conn'[b].ans = conn[b].ans /\ conn'[b].said = conn[b].said
  BY DEF StoreInv, ConnInv, Fields
<1> QED BY <1>1, UnseenAgrees

LEMMA BeginAgrees ==
  ASSUME StoreInv, AgreeInv, NEW c \in Callers, Begin(c)
  PROVE  AgreeInv'
<1> DEFINE r == conn[c].req
<1>1. conn[c].pc = "called"
  BY DEF Begin
<1>2. CASE r.op = "append_event" /\ append_refuses(sql, r)
           /\ Settle(c, Answered("SequenceOutOfRange", {}))
  <2>1. Refuses(sql, r)
    BY <1>2 DEF Refuses
  <2> QED BY <1>1, <1>2, <2>1, RefusedAgrees
<1>3. CASE r.op # "append_event" /\ Refuses(sql, r)
           /\ Settle(c, Answered("Conflict", {}))
  BY <1>1, <1>3, RefusedAgrees
<1>4. CASE conn' = [conn EXCEPT ![c].pc = "begun"] /\ UNCHANGED <<sql, mock, onScript>>
  BY <1>4, GoesOnAgrees
<1> QED BY <1>2, <1>3, <1>4 DEF Begin

LEMMA InsertAgrees ==
  ASSUME StoreInv, AgreeInv, NEW c \in Callers, InsertRow(c)
  PROVE  AgreeInv'
<1> DEFINE r == conn[c].req  o == Sql(sql, r, Known)
<1>1. /\ conn[c].pc = "begun" /\ r \in Requests /\ Sound(sql)
      /\ r.op \in Transactions /\ ~Refuses(sql, r)
  BY DEF InsertRow, MayWrite, StoreInv, CallInv
<1>2. \/ conn' = [conn EXCEPT ![c].pc = "written"] /\ UNCHANGED <<sql, mock, onScript>>
      \/ o.ans.err # "none" /\ Settle(c, o.ans)
  BY DEF InsertRow
<1>3. CASE o.ans.err # "none" /\ Settle(c, o.ans)
  <2>1. o.after = sql
    BY <1>1, <1>3, SqlCarried DEF Carried
  <2>2. o.ans.err # "Corrupt"
    <3>1. r.op \notin Reads
      BY <1>1 DEF Reads, Transactions
    <3> QED BY <1>1, <3>1, WritesReadable
  <2> QED BY <1>1, <1>3, <2>1, <2>2, SettleAgrees
<1> QED BY <1>2, <1>3, GoesOnAgrees

LEMMA CommitAgrees ==
  ASSUME StoreInv, AgreeInv, NEW c \in Callers, Commit(c)
  PROVE  AgreeInv'
<1> DEFINE r == conn[c].req  o == Sql(sql, r, Known)
<1>1. conn[c].pc = "written" /\ Apply(c, o)
  BY DEF Commit
<1>2. /\ r \in Requests /\ r.op \in Transactions /\ ~Refuses(sql, r)
      /\ Sql(sql, r, {}).ans.err = "none"
  BY <1>1 DEF StoreInv, CallInv
<1>3. o.ans.err = "none"
  BY <1>2, WritesIgnoreKnown
<1> QED BY <1>1, <1>2, <1>3, ApplyAgrees

LEMMA CallerAgrees ==
  ASSUME StoreInv, AgreeInv, NEW c \in Callers,
         \/ Call(c) \/ Select(c) \/ Statement(c) \/ Begin(c) \/ InsertRow(c)
         \/ Busy(c) \/ Commit(c) \/ Return(c)
  PROVE  AgreeInv'
<1>1. CASE Call(c)
  <2>1. UNCHANGED <<sql, mock, onScript>> /\ conn[c] = NoConnection
    BY <1>1 DEF Call
  <2>2. PICK r \in menu.requests : conn' = [conn EXCEPT ![c].req = r, ![c].pc = "called"]
    BY <1>1 DEF Call
  <2>3. conn'[c].said = Nil /\ \A b \in Callers \ {c} : conn'[b] = conn[b]
    BY <2>1, <2>2 DEF StoreInv, ConnInv, Fields, NoConnection
  <2> QED BY <2>1, <2>3, UnseenAgrees
<1>2. CASE Busy(c)
  BY <1>2, BreakAgrees DEF Busy
<1>3. CASE Return(c)
  <2>1. /\ conn'[c] = NoConnection /\ \A b \in Callers \ {c} : conn'[b] = conn[b]
        /\ UNCHANGED <<sql, mock, onScript>>
    BY <1>3 DEF Return, StoreInv, ConnInv
  <2>2. NoConnection.said = Nil
    BY DEF NoConnection
  <2> QED BY <2>1, <2>2, UnseenAgrees
<1> QED BY <1>1, <1>2, <1>3, SelectAgrees, StatementAgrees, BeginAgrees, InsertAgrees,
        CommitAgrees

LEMMA DaemonAgrees ==
  ASSUME AgreeInv, NEW d \in Daemons,
         \/ Start(d) \/ ensure_directory(d) \/ acquire(d) \/ check_history(d)
         \/ apply_migration(d) \/ migrations_applied(d) \/ finish_startup(d)
         \/ Drain(d) \/ Drained(d) \/ Crash(d)
  PROVE  AgreeInv'
<1>1. UNCHANGED <<sql, mock, onScript>>
  BY DEF Start, ensure_directory, acquire, check_history, apply_migration,
     migrations_applied, finish_startup, Drain, Drained, Crash, storeVars
<1>2. UNCHANGED conn \/ conn' = [c \in Callers |-> NoConnection]
  BY DEF Start, ensure_directory, acquire, check_history, apply_migration,
     migrations_applied, finish_startup, Drain, Drained, Crash, storeVars
<1>3. NoConnection.said = Nil
  BY DEF NoConnection
<1> QED BY <1>1, <1>2, <1>3, UnseenAgrees

LEMMA AgreeInit == Init => AgreeInv
<1> SUFFICES ASSUME Init PROVE AgreeInv
  OBVIOUS
<1>1. /\ menu \in Menus /\ sql = Left(menu).sql /\ mock = Left(menu).mock
      /\ onScript = Left(menu).on /\ conn = [c \in Callers |-> NoConnection]
  BY DEF Init
<1>2. onScript => Mirrors(mock, AsStore(sql))
  BY <1>1, LeftMirrors DEF SameStores
<1>3. \A c \in Callers : conn[c].said = Nil
  BY <1>1 DEF NoConnection
<1> QED BY <1>2, <1>3 DEF AgreeInv, AnswersAgree

LEMMA AgreeNext ==
  ASSUME StoreInv, AgreeInv, [Next]_vars
  PROVE  AgreeInv'
<1>1. CASE UNCHANGED vars
  BY <1>1, UnseenAgrees DEF vars
<1>2. ASSUME NEW c \in Callers,
             \/ Call(c) \/ Select(c) \/ Statement(c) \/ Begin(c) \/ InsertRow(c)
             \/ Busy(c) \/ Commit(c) \/ Return(c)
      PROVE  AgreeInv'
  BY <1>2, CallerAgrees
<1>3. ASSUME NEW d \in Daemons,
             \/ Start(d) \/ ensure_directory(d) \/ acquire(d) \/ check_history(d)
             \/ apply_migration(d) \/ migrations_applied(d) \/ finish_startup(d)
             \/ Drain(d) \/ Drained(d) \/ Crash(d)
      PROVE  AgreeInv'
  BY <1>3, DaemonAgrees
<1> QED BY <1>1, <1>2, <1>3 DEF Next

(* The in-memory store the tests of the runtime run on answers what SQLite *)
(* answers, in any order in which the processes' calls execute, through    *)
(* crashes and restarts, as long as every call is one the runtime may      *)
(* make; only where SQLite reports a constraint may the error differ.      *)
THEOREM MockSound == Spec => []BackendsAgree
<1>1. AgreeInv => BackendsAgree
  BY DEF AgreeInv, AnswersAgree, Told, BackendsAgree
<1>2. Init => StoreInv /\ AgreeInv
  BY StoreInit, AgreeInit
<1>3. StoreInv /\ AgreeInv /\ [Next]_vars => StoreInv' /\ AgreeInv'
  BY StoreNext, AgreeNext
<1> QED BY <1>1, <1>2, <1>3, PTL DEF Spec
=============================================================================
