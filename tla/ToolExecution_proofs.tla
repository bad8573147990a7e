----------------------- MODULE ToolExecution_proofs ------------------------
(***************************************************************************)
(* Theorems about ToolExecution, for any finite set of runs that share a   *)
(* budget, any tools, endings and limits.                                  *)
(*                                                                         *)
(* The inductive invariant is IInv.  Types alone are not inductive: that   *)
(* RefundCount leaves the count of the guard a natural number rests on the *)
(* guard counting the task that refunds.  Next to that, IInv says what     *)
(* each task of a run has established by the call it is at.                *)
(***************************************************************************)
EXTENDS ToolExecution, FiniteSetTheorems, TLAPS

(* The spill tasks the guard counts. *)
Holds(task) == task.pc \in {"charging", "refunding"} \/ task.outcome = "kept"
Holders == {x \in Spills : Holds(writer[x[1]][x[2]])}
Counted == guard.count = Cardinality(Holders)

Stored == \A d \in DOMAIN files : files[d] = d

(* A task that has read its stream to the end has measured it. *)
Measured(r, s) ==
  /\ AtEof(r)
  /\ writer[r][s].kept = Least(child[r].size[s], writer[r][s].limit)
  /\ writer[r][s].dropped = child[r].size[s] - writer[r][s].kept

SpillKnows(r, s) ==
  LET task == writer[r][s]
  IN  /\ task.outcome # "none" <=> task.pc = "finished"
      /\ task.pc \in {"sealed", "counting", "charging", "refunding"}
           \/ task.outcome = "kept" => Measured(r, s)
      /\ task.pc \in {"counting", "charging", "refunding"}
           \/ task.outcome = "kept" => task.kept \in DOMAIN files

RunKnows(r) ==
  /\ run[r].pc = "idle" => writer[r] = [w \in Writers |-> Quiet]
  /\ child[r].alive => run[r].pc \in {"waiting", "collecting"}
  /\ run[r].pc \in {"collecting", "answered", "reporting"} => run[r].answer # "none"
  /\ run[r].pc \in {"answered", "reporting"} /\ run[r].answer = "record" =>
       AtEof(r) /\ \A s \in OutputStreams : writer[r][s].pc = "finished"

(* The report of a run whose evidence is about to be written. *)
ReportKnows(r) ==
  LET task == writer[r]["Report"]
  IN  run[r].pc = "reporting" =>
        /\ run[r].answer = "record"
        /\ Accepted(r)
        /\ KeptOfStdout(r) <= ArtifactMax
        /\ task.limit = ArtifactMax
        /\ task.pc \in {"copying", "sealed", "finished"}
        /\ task.pc = "sealed" => task.kept = KeptOfStdout(r)
        /\ task.pc = "finished" /\ task.outcome # "io" =>
             task.kept = KeptOfStdout(r) /\ task.kept \in DOMAIN files

PassEarned(r) ==
  evidence[r].status = "Pass" =>
    /\ run[r].answer = "record"
    /\ IF run[r].tool.normalizer = "None"
       THEN child[r].code = 0
       ELSE /\ child[r].report = "pass"
            /\ child[r].size["Stdout"] <= OutputMax
            /\ evidence[r].artifact = child[r].size["Stdout"]

EvidenceKnows(r) ==
  /\ evidence[r] # NoEvidence => run[r].pc = "done"
  /\ evidence[r].artifact # -1 => evidence[r].artifact \in DOMAIN files
  /\ PassEarned(r)

Knows(r) ==
  /\ RunKnows(r)
  /\ \A s \in OutputStreams : SpillKnows(r, s)
  /\ ReportKnows(r)
  /\ EvidenceKnows(r)

IInv == TypeOK /\ Counted /\ Stored /\ \A r \in Runs : Knows(r)

-----------------------------------------------------------------------------
(* Counting.                                                               *)

LEMMA SpillsFinite == IsFiniteSet(Spills)
<1>1. IsFiniteSet(OutputStreams)
  <2>1. IsFiniteSet({"Stdout"})
    BY FS_Singleton
  <2>2. OutputStreams = {"Stdout"} \cup {"Stderr"}
    BY DEF OutputStreams
  <2> QED BY <2>1, <2>2, FS_AddElement
<1> QED BY <1>1, FS_Product, RunsAssumption DEF Spills

LEMMA HoldersFinite == IsFiniteSet(Holders) /\ Cardinality(Holders) \in Nat
<1>1. Holders \in SUBSET Spills
  BY DEF Holders
<1> QED BY <1>1, SpillsFinite, FS_Subset, FS_CardinalityType

(* A step that lets every task hold what it held keeps the count. *)
LEMMA SameHolders ==
  ASSUME Counted,
         \A x \in Spills : Holds(writer'[x[1]][x[2]]) <=> Holds(writer[x[1]][x[2]]),
         guard'.count = guard.count
  PROVE  Counted'
<1>1. Holders' = Holders
  BY DEF Holders
<1> QED BY <1>1 DEF Counted

(* A step of one task. *)
OnlyTask(r, w) ==
  \A q \in Runs, x \in Writers :
    ~(q = r /\ x = w) => writer'[q][x] = writer[q][x]

LEMMA SameHoldersTask ==
  ASSUME Counted, NEW r \in Runs, NEW w \in Writers, OnlyTask(r, w),
         w \in OutputStreams => (Holds(writer'[r][w]) <=> Holds(writer[r][w])),
         guard'.count = guard.count
  PROVE  Counted'
<1>1. \A x \in Spills : Holds(writer'[x[1]][x[2]]) <=> Holds(writer[x[1]][x[2]])
  <2> SUFFICES ASSUME NEW q \in Runs, NEW s \in OutputStreams
               PROVE  Holds(writer'[q][s]) <=> Holds(writer[q][s])
    BY DEF Spills
  <2>1. CASE q = r /\ s = w
    BY <2>1
  <2>2. CASE ~(q = r /\ s = w)
    <3>1. writer'[q][s] = writer[q][s]
      BY <2>2 DEF OnlyTask, Writers
    <3> QED BY <3>1
  <2> QED BY <2>1, <2>2
<1> QED BY <1>1, SameHolders

LEMMA OneMoreHolder ==
  ASSUME Counted, NEW r \in Runs, NEW s \in OutputStreams, OnlyTask(r, s),
         ~Holds(writer[r][s]), Holds(writer'[r][s]),
         guard'.count = guard.count + 1
  PROVE  Counted'
<1>1. <<r, s>> \in Spills /\ <<r, s>> \notin Holders
  BY DEF Spills, Holders
<1>2. Holders' = Holders \cup {<<r, s>>}
  <2>1. \A x \in Spills : x # <<r, s>> => writer'[x[1]][x[2]] = writer[x[1]][x[2]]
    BY DEF Spills, Writers, OnlyTask
  <2> QED BY <1>1, <2>1 DEF Holders
<1>3. Cardinality(Holders \cup {<<r, s>>}) = Cardinality(Holders) + 1
  BY <1>1, HoldersFinite, FS_AddElement
<1> QED BY <1>2, <1>3 DEF Counted

LEMMA OneLessHolder ==
  ASSUME Counted, NEW r \in Runs, NEW s \in OutputStreams, OnlyTask(r, s),
         Holds(writer[r][s]), ~Holds(writer'[r][s]),
         guard'.count = guard.count - 1
  PROVE  Counted'
<1>1. <<r, s>> \in Holders
  BY DEF Spills, Holders
<1>2. Holders' = Holders \ {<<r, s>>}
  <2>1. \A x \in Spills : x # <<r, s>> => writer'[x[1]][x[2]] = writer[x[1]][x[2]]
    BY DEF Spills, Writers, OnlyTask
  <2> QED BY <1>1, <2>1 DEF Holders
<1> QED BY <1>1, <1>2, HoldersFinite, FS_RemoveElement DEF Counted

(* A task that refunds is one the guard counts. *)
LEMMA HeldIsCounted ==
  ASSUME Counted, NEW r \in Runs, NEW s \in OutputStreams, Holds(writer[r][s])
  PROVE  guard.count >= 1
<1>1. <<r, s>> \in Holders
  BY DEF Spills, Holders
<1> QED BY <1>1, HoldersFinite, FS_EmptySet DEF Counted

-----------------------------------------------------------------------------
(* What one run knows is not disturbed by a step of another. *)
LEMMA Others ==
  ASSUME NEW q \in Runs, Knows(q),
         run'[q] = run[q], child'[q] = child[q],
         \A w \in Writers : writer'[q][w] = writer[q][w],
         writer[q] \in [Writers -> WriterRecords],
         writer'[q] \in [Writers -> WriterRecords],
         evidence'[q] = evidence[q], DOMAIN files \subseteq DOMAIN files'
  PROVE  Knows(q)'
<1>0. writer'[q] = writer[q]
  OBVIOUS
<1>1. RunKnows(q)'
  BY <1>0 DEF Knows, RunKnows, AtEof
<1>2. ASSUME NEW s \in OutputStreams PROVE SpillKnows(q, s)'
  BY <1>0 DEF Knows, SpillKnows, Measured, AtEof
<1>3. ReportKnows(q)'
  BY <1>0 DEF Knows, ReportKnows, Accepted, Consulted, normalize, ParsedReport,
         KeptOfStdout
<1>4. EvidenceKnows(q)'
  BY DEF Knows, EvidenceKnows, PassEarned
<1> QED BY <1>1, <1>2, <1>3, <1>4 DEF Knows

(* The step of a task disturbs only what its run knows of that task. *)
LEMMA TaskDisturbs ==
  ASSUME IInv, NEW r \in Runs, NEW w \in Writers, OnlyTask(r, w),
         UNCHANGED <<run, child, evidence>>, DOMAIN files \subseteq DOMAIN files',
         writer' \in [Runs -> [Writers -> WriterRecords]],
         writer[r][w].pc \notin {"off", "finished"},
         w \in OutputStreams => SpillKnows(r, w)',
         w = "Report" => ReportKnows(r)'
  PROVE  \A q \in Runs : Knows(q)'
<1>1. ASSUME NEW q \in Runs, q # r PROVE Knows(q)'
  BY <1>1, Others DEF OnlyTask, IInv, TypeOK
<1>2. Knows(r)'
  <2>1. RunKnows(r)'
    <3>1. run[r].pc # "idle"
      BY DEF IInv, Knows, RunKnows, Quiet
    <3>2. w \in OutputStreams =>
            ~(run[r].pc \in {"answered", "reporting"} /\ run[r].answer = "record")
      BY DEF IInv, Knows, RunKnows
    <3>3. w = "Report" => \A s \in OutputStreams : writer'[r][s] = writer[r][s]
      BY DEF OnlyTask, Writers, OutputStreams
    <3> QED BY <3>1, <3>2, <3>3 DEF IInv, Knows, RunKnows, AtEof, Writers
  <2>2. ASSUME NEW s \in OutputStreams PROVE SpillKnows(r, s)'
    <3>1. CASE s = w
      BY <3>1
    <3>2. CASE s # w
      <4>1. writer'[r][s] = writer[r][s]
        BY <3>2 DEF OnlyTask, Writers
      <4> QED BY <4>1 DEF IInv, Knows, SpillKnows, Measured, AtEof
    <3> QED BY <3>1, <3>2
  <2>3. ReportKnows(r)'
    <3>1. CASE w = "Report"
      BY <3>1
    <3>2. CASE w # "Report"
      <4>1. writer'[r]["Report"] = writer[r]["Report"]
        BY <3>2 DEF OnlyTask, Writers
      <4>2. (Accepted(r)' <=> Accepted(r)) /\ KeptOfStdout(r)' = KeptOfStdout(r)
        BY DEF Accepted, Consulted, normalize, ParsedReport, KeptOfStdout
      <4> QED BY <4>1, <4>2 DEF IInv, Knows, ReportKnows
    <3> QED BY <3>1, <3>2
  <2>4. EvidenceKnows(r)'
    BY DEF IInv, Knows, EvidenceKnows, PassEarned
  <2> QED BY <2>1, <2>2, <2>3, <2>4 DEF Knows
<1> QED BY <1>1, <1>2

-----------------------------------------------------------------------------
(* The tasks.                                                              *)

LEMMA LeastType ==
  ASSUME NEW a \in Nat, NEW b \in Nat
  PROVE  Least(a, b) \in Nat /\ Least(a, b) <= a /\ Least(a, b) <= b
BY DEF Least

LEMMA WritesTask ==
  ASSUME TypeOK, NEW r \in Runs, NEW w \in Writers, NEW task \in WriterRecords,
         Becomes(r, w, task)
  PROVE  /\ writer' \in [Runs -> [Writers -> WriterRecords]]
         /\ OnlyTask(r, w)
         /\ writer'[r][w] = task
BY DEF Becomes, TypeOK, OnlyTask

LEMMA Finishing ==
  ASSUME TypeOK, NEW r \in Runs, NEW w \in Writers,
         NEW outcome \in {"kept", "io", "budget_count", "budget_bytes"},
         Finish(r, w, outcome)
  PROVE  \E task \in WriterRecords :
           /\ Becomes(r, w, task)
           /\ task.pc = "finished" /\ task.outcome = outcome
           /\ task.limit = writer[r][w].limit
           /\ task.kept = writer[r][w].kept /\ task.dropped = writer[r][w].dropped
<1> DEFINE task == [writer[r][w] EXCEPT !.pc = "finished", !.outcome = outcome]
<1>1. writer[r][w] \in WriterRecords
  BY DEF TypeOK
<1>2. /\ task \in WriterRecords
      /\ task.pc = "finished" /\ task.outcome = outcome
      /\ task.limit = writer[r][w].limit
      /\ task.kept = writer[r][w].kept /\ task.dropped = writer[r][w].dropped
  BY <1>1 DEF WriterRecords, WriterPcs
<1>3. Becomes(r, w, task)
  BY DEF Finish
<1> HIDE DEF task
<1> QED BY <1>2, <1>3

LEMMA Turning ==
  ASSUME TypeOK, NEW r \in Runs, NEW w \in Writers, NEW pc \in WriterPcs,
         Turn(r, w, pc)
  PROVE  \E task \in WriterRecords :
           /\ Becomes(r, w, task)
           /\ task.pc = pc /\ task.outcome = writer[r][w].outcome
           /\ task.limit = writer[r][w].limit
           /\ task.kept = writer[r][w].kept /\ task.dropped = writer[r][w].dropped
<1> DEFINE task == [writer[r][w] EXCEPT !.pc = pc]
<1>1. writer[r][w] \in WriterRecords
  BY DEF TypeOK
<1>2. /\ task \in WriterRecords
      /\ task.pc = pc /\ task.outcome = writer[r][w].outcome
      /\ task.limit = writer[r][w].limit
      /\ task.kept = writer[r][w].kept /\ task.dropped = writer[r][w].dropped
  BY <1>1 DEF WriterRecords
<1>3. Becomes(r, w, task)
  BY DEF Turn
<1> HIDE DEF task
<1> QED BY <1>2, <1>3

LEMMA SpillDecideSafe ==
  ASSUME IInv, NEW r \in Runs, NEW s \in OutputStreams, SpillDecide(r, s)
  PROVE  IInv'
<1> DEFINE limit == Least(guard.maxBytes - guard.bytes, ArtifactMax)
<1>1. limit \in Nat
  <2>1. guard.maxBytes - guard.bytes \in Nat
    BY DEF IInv, TypeOK
  <2> QED BY <2>1, LeastType, LimitsAssumption
<1>2. s \in Writers
  BY DEF Writers
<1> HIDE DEF limit
<1>3. \/ Finish(r, s, "budget_count") /\ UNCHANGED staging
      \/ Finish(r, s, "budget_bytes") /\ UNCHANGED staging
      \/ /\ Becomes(r, s, [writer[r][s] EXCEPT !.pc = "copying", !.limit = limit])
         /\ staging' = staging \cup {<<r, s>>}
  BY DEF SpillDecide, limit
<1>4. PICK task \in WriterRecords :
        /\ Becomes(r, s, task)
        /\ \/ /\ task.pc = "finished"
              /\ task.outcome \in {"budget_count", "budget_bytes"}
           \/ task.pc = "copying" /\ task.outcome = writer[r][s].outcome
  <2>1. writer[r][s] \in WriterRecords
    BY <1>2 DEF IInv, TypeOK
  <2>2. ASSUME NEW outcome \in {"budget_count", "budget_bytes"},
               Finish(r, s, outcome)
        PROVE  \E task \in WriterRecords :
                 /\ Becomes(r, s, task)
                 /\ task.pc = "finished" /\ task.outcome = outcome
    BY <1>2, <2>2, Finishing DEF IInv
  <2>3. CASE Becomes(r, s, [writer[r][s] EXCEPT !.pc = "copying", !.limit = limit])
    <3> DEFINE task == [writer[r][s] EXCEPT !.pc = "copying", !.limit = limit]
    <3>1. /\ task \in WriterRecords
          /\ task.pc = "copying" /\ task.outcome = writer[r][s].outcome
      BY <1>1, <2>1 DEF WriterRecords, WriterPcs
    <3>2. Becomes(r, s, task)
      BY <2>3
    <3> HIDE DEF task
    <3> QED BY <3>1, <3>2
  <2> QED BY <1>3, <2>2, <2>3
<1>5. /\ writer' \in [Runs -> [Writers -> WriterRecords]]
      /\ OnlyTask(r, s)
      /\ writer'[r][s] = task
  BY <1>2, <1>4, WritesTask DEF IInv
<1>6. /\ writer[r][s].pc = "deciding" /\ writer[r][s].outcome = "none"
      /\ UNCHANGED <<run, child, guard, files, evidence, faults, restarts>>
  BY DEF SpillDecide, At, IInv, Knows, SpillKnows
<1>7. \/ writer'[r][s].pc = "finished"
         /\ writer'[r][s].outcome \in {"budget_count", "budget_bytes"}
      \/ writer'[r][s].pc = "copying" /\ writer'[r][s].outcome = "none"
  BY <1>4, <1>5, <1>6
<1>8. TypeOK'
  BY <1>2, <1>3, <1>5, <1>6 DEF IInv, TypeOK
<1>9. Counted'
  BY <1>2, <1>5, <1>6, <1>7, SameHoldersTask DEF IInv, Holds
<1>10. \A q \in Runs : Knows(q)'
  BY <1>2, <1>5, <1>6, <1>7, TaskDisturbs DEF SpillKnows, OutputStreams
<1> QED BY <1>6, <1>8, <1>9, <1>10 DEF IInv, Stored

(* What a task has measured stays measured. *)
LEMMA StaysMeasured ==
  ASSUME NEW r \in Runs, NEW s \in OutputStreams, Measured(r, s),
         child' = child,
         writer'[r][s].kept = writer[r][s].kept,
         writer'[r][s].limit = writer[r][s].limit,
         writer'[r][s].dropped = writer[r][s].dropped
  PROVE  Measured(r, s)'
BY DEF Measured, AtEof

LEMMA TryBumpCountSafe ==
  ASSUME IInv, NEW r \in Runs, NEW s \in OutputStreams, TryBumpCount(r, s)
  PROVE  IInv'
<1>1. s \in Writers /\ TypeOK
  BY DEF Writers, IInv
<1>2. /\ writer[r][s].pc = "counting" /\ writer[r][s].outcome = "none"
      /\ Measured(r, s) /\ writer[r][s].kept \in DOMAIN files
      /\ UNCHANGED <<run, child, staging, files, evidence, faults, restarts>>
  BY DEF TryBumpCount, At, IInv, Knows, SpillKnows
<1>3. CASE guard.count >= guard.maxCount
  <2>1. Finish(r, s, "budget_count") /\ guard' = guard
    BY <1>3 DEF TryBumpCount
  <2>2. PICK task \in WriterRecords :
          /\ Becomes(r, s, task)
          /\ task.pc = "finished" /\ task.outcome = "budget_count"
    BY <1>1, <2>1, Finishing
  <2>3. /\ writer' \in [Runs -> [Writers -> WriterRecords]]
        /\ OnlyTask(r, s)
        /\ writer'[r][s] = task
    BY <1>1, <2>2, WritesTask
  <2>4. TypeOK'
    BY <1>1, <1>2, <2>1, <2>3 DEF TypeOK
  <2>5. Counted'
    BY <1>1, <1>2, <2>1, <2>2, <2>3, SameHoldersTask DEF IInv, Holds
  <2>6. \A q \in Runs : Knows(q)'
    BY <1>1, <1>2, <2>2, <2>3, TaskDisturbs DEF SpillKnows, OutputStreams
  <2> QED BY <1>2, <2>4, <2>5, <2>6 DEF IInv, Stored
<1>4. CASE guard.count < guard.maxCount
  <2>1. Turn(r, s, "charging") /\ guard' = [guard EXCEPT !.count = @ + 1]
    BY <1>1, <1>4 DEF TryBumpCount, TypeOK
  <2>2. PICK task \in WriterRecords :
          /\ Becomes(r, s, task)
          /\ task.pc = "charging" /\ task.outcome = writer[r][s].outcome
          /\ task.limit = writer[r][s].limit
          /\ task.kept = writer[r][s].kept /\ task.dropped = writer[r][s].dropped
    BY <1>1, <2>1, Turning DEF WriterPcs
  <2>3. /\ writer' \in [Runs -> [Writers -> WriterRecords]]
        /\ OnlyTask(r, s)
        /\ writer'[r][s] = task
    BY <1>1, <2>2, WritesTask
  <2>4. /\ guard' \in [count : Nat, bytes : Nat, maxCount : Nat, maxBytes : Nat]
        /\ guard'.count = guard.count + 1
        /\ guard'.count <= guard'.maxCount /\ guard'.bytes <= guard'.maxBytes
    BY <1>1, <1>4, <2>1 DEF TypeOK
  <2>5. TypeOK'
    BY <1>1, <1>2, <2>3, <2>4 DEF TypeOK
  <2>6. Counted'
    BY <1>2, <2>2, <2>3, <2>4, OneMoreHolder DEF IInv, Holds
  <2>7. Measured(r, s)'
    BY <1>2, <2>2, <2>3, StaysMeasured
  <2>8. \A q \in Runs : Knows(q)'
    BY <1>1, <1>2, <2>2, <2>3, <2>7, TaskDisturbs DEF SpillKnows, OutputStreams
  <2> QED BY <1>2, <2>5, <2>6, <2>8 DEF IInv, Stored
<1> QED BY <1>1, <1>3, <1>4 DEF TypeOK

LEMMA TryBumpBytesSafe ==
  ASSUME IInv, NEW r \in Runs, NEW s \in OutputStreams, TryBumpBytes(r, s)
  PROVE  IInv'
<1> DEFINE total == guard.bytes + writer[r][s].kept
<1>1. s \in Writers /\ TypeOK
  BY DEF Writers, IInv
<1>2. /\ writer[r][s].pc = "charging" /\ writer[r][s].outcome = "none"
      /\ Measured(r, s) /\ writer[r][s].kept \in DOMAIN files
      /\ UNCHANGED <<run, child, staging, files, evidence, faults, restarts>>
  BY DEF TryBumpBytes, At, IInv, Knows, SpillKnows
<1>3. total \in Nat
  BY <1>1 DEF TypeOK, WriterRecords
<1>4. \/ total > guard.maxBytes /\ Turn(r, s, "refunding") /\ guard' = guard
      \/ /\ total <= guard.maxBytes
         /\ Finish(r, s, "kept") /\ guard' = [guard EXCEPT !.bytes = total]
  BY <1>1, <1>3 DEF TryBumpBytes, TypeOK
<1>5. /\ guard' \in [count : Nat, bytes : Nat, maxCount : Nat, maxBytes : Nat]
      /\ guard'.count = guard.count
      /\ guard'.count <= guard'.maxCount /\ guard'.bytes <= guard'.maxBytes
  BY <1>1, <1>3, <1>4 DEF TypeOK
<1>6. PICK task \in WriterRecords :
        /\ Becomes(r, s, task)
        /\ \/ task.pc = "refunding" /\ task.outcome = "none"
           \/ task.pc = "finished" /\ task.outcome = "kept"
        /\ task.limit = writer[r][s].limit
        /\ task.kept = writer[r][s].kept /\ task.dropped = writer[r][s].dropped
  <2>1. CASE Turn(r, s, "refunding")
    BY <1>1, <1>2, <2>1, Turning DEF WriterPcs
  <2>2. CASE Finish(r, s, "kept")
    BY <1>1, <2>2, Finishing
  <2> QED BY <1>4, <2>1, <2>2
<1>7. /\ writer' \in [Runs -> [Writers -> WriterRecords]]
      /\ OnlyTask(r, s)
      /\ writer'[r][s] = task
  BY <1>1, <1>6, WritesTask
<1>8. TypeOK'
  BY <1>1, <1>2, <1>5, <1>7 DEF TypeOK
<1>9. Counted'
  BY <1>1, <1>2, <1>5, <1>6, <1>7, SameHoldersTask DEF IInv, Holds
<1>10. Measured(r, s)'
  BY <1>2, <1>6, <1>7, StaysMeasured
<1>11. \A q \in Runs : Knows(q)'
  BY <1>1, <1>2, <1>6, <1>7, <1>10, TaskDisturbs DEF SpillKnows, OutputStreams
<1> QED BY <1>2, <1>8, <1>9, <1>11 DEF IInv, Stored

LEMMA RefundCountSafe ==
  ASSUME IInv, NEW r \in Runs, NEW s \in OutputStreams, RefundCount(r, s)
  PROVE  IInv'
<1>1. s \in Writers /\ TypeOK
  BY DEF Writers, IInv
<1>2. /\ writer[r][s].pc = "refunding"
      /\ Finish(r, s, "budget_bytes")
      /\ guard' = [guard EXCEPT !.count = @ - 1]
      /\ UNCHANGED <<run, child, staging, files, evidence, faults, restarts>>
  BY DEF RefundCount, At
<1>3. Holds(writer[r][s]) /\ guard.count >= 1
  BY <1>2, HeldIsCounted DEF Holds, IInv
<1>4. /\ guard' \in [count : Nat, bytes : Nat, maxCount : Nat, maxBytes : Nat]
      /\ guard'.count = guard.count - 1
      /\ guard'.count <= guard'.maxCount /\ guard'.bytes <= guard'.maxBytes
  BY <1>1, <1>2, <1>3 DEF TypeOK
<1>5. PICK task \in WriterRecords :
        /\ Becomes(r, s, task)
        /\ task.pc = "finished" /\ task.outcome = "budget_bytes"
  BY <1>1, <1>2, Finishing
<1>6. /\ writer' \in [Runs -> [Writers -> WriterRecords]]
      /\ OnlyTask(r, s)
      /\ writer'[r][s] = task
  BY <1>1, <1>5, WritesTask
<1>7. TypeOK'
  BY <1>1, <1>2, <1>4, <1>6 DEF TypeOK
<1>8. Counted'
  BY <1>3, <1>4, <1>5, <1>6, OneLessHolder DEF IInv, Holds
<1>9. \A q \in Runs : Knows(q)'
  BY <1>1, <1>2, <1>5, <1>6, TaskDisturbs DEF SpillKnows, OutputStreams
<1> QED BY <1>2, <1>7, <1>8, <1>9 DEF IInv, Stored

LEMMA ObservedType ==
  ASSUME TypeOK, NEW r \in Runs, NEW w \in Writers
  PROVE  Observed(r, w) \in Nat /\ KeptOfStdout(r) \in Nat
<1>1. child[r].size \in [OutputStreams -> Nat]
  BY DEF TypeOK, ChildRecords
<1>2. KeptOfStdout(r) \in Nat
  BY <1>1, LeastType, LimitsAssumption DEF KeptOfStdout, OutputStreams
<1> QED BY <1>1, <1>2 DEF Observed, Writers

(* What a task that has sealed its file, or stored it, knows of its report. *)
LEMMA ReportKept ==
  ASSUME IInv, NEW r \in Runs, run[r].pc = "reporting",
         writer[r]["Report"].pc = "copying"
  PROVE  Least(Observed(r, "Report"), writer[r]["Report"].limit) = KeptOfStdout(r)
<1>1. /\ KeptOfStdout(r) <= ArtifactMax
      /\ writer[r]["Report"].limit = ArtifactMax
  BY DEF IInv, Knows, ReportKnows
<1>2. KeptOfStdout(r) \in Nat
  BY ObservedType DEF IInv, Writers
<1> QED BY <1>1, <1>2, LimitsAssumption DEF Observed, Least

LEMMA WriterSealsSafe ==
  ASSUME IInv, NEW r \in Runs, NEW w \in Writers, WriterSeals(r, w)
  PROVE  IInv'
<1> DEFINE kept == Least(Observed(r, w), writer[r][w].limit)
           known == kept \in DOMAIN files
           pc == IF known THEN AfterWrite(w) ELSE "sealed"
           task == [writer[r][w] EXCEPT !.pc = pc, !.kept = kept,
                                        !.dropped = Observed(r, w) - kept]
<1>1. TypeOK /\ writer[r][w] \in WriterRecords /\ Observed(r, w) \in Nat
  BY ObservedType DEF IInv, TypeOK
<1>2. /\ writer[r][w].pc = "copying" /\ SeenWhole(r, w)
      /\ UNCHANGED <<run, child, guard, files, evidence, faults, restarts>>
      /\ staging' = IF known THEN staging \ {<<r, w>>} ELSE staging
      /\ Becomes(r, w, task)
  BY DEF WriterSeals, At
<1>3. kept \in Nat /\ Observed(r, w) - kept \in Nat /\ pc \in WriterPcs
  <2>1. writer[r][w].limit \in Nat
    BY <1>1 DEF WriterRecords
  <2>2. kept \in Nat /\ kept <= Observed(r, w)
    BY <1>1, <2>1, LeastType
  <2>3. pc \in WriterPcs
    BY DEF AfterWrite, WriterPcs
  <2> QED BY <1>1, <2>2, <2>3
<1> HIDE DEF pc
<1>4. /\ task \in WriterRecords
      /\ task.pc = pc /\ task.outcome = writer[r][w].outcome
      /\ task.limit = writer[r][w].limit /\ task.kept = kept
      /\ task.dropped = Observed(r, w) - kept
  <2> HIDE DEF kept
  <2> QED BY <1>1, <1>3 DEF WriterRecords
<1> HIDE DEF task
<1>5. /\ writer' \in [Runs -> [Writers -> WriterRecords]]
      /\ OnlyTask(r, w)
      /\ writer'[r][w] = task
  BY <1>1, <1>2, <1>4, WritesTask
<1>6. TypeOK'
  BY <1>1, <1>2, <1>5 DEF TypeOK
<1>7. w \in OutputStreams => /\ writer[r][w].outcome = "none"
                             /\ pc \in {"sealed", "counting"}
                             /\ pc = "counting" => kept \in DOMAIN files
  BY <1>2 DEF IInv, Knows, SpillKnows, AfterWrite, OutputStreams, pc
<1>8. Counted'
  BY <1>2, <1>4, <1>5, <1>7, SameHoldersTask DEF IInv, Holds
<1>9. w \in OutputStreams => Measured(r, w)'
  BY <1>2, <1>4, <1>5 DEF Measured, SeenWhole, AtEof, Observed, OutputStreams
<1>10. w \in OutputStreams => SpillKnows(r, w)'
  BY <1>2, <1>4, <1>5, <1>7, <1>9 DEF SpillKnows
<1>11. w = "Report" => ReportKnows(r)'
  <2> SUFFICES ASSUME w = "Report", run[r].pc = "reporting"
               PROVE  ReportKnows(r)'
    BY <1>2 DEF ReportKnows
  <2>1. kept = KeptOfStdout(r)
    BY <1>2, ReportKept
  <2>2. pc \in {"sealed", "finished"} /\ (pc = "finished" => kept \in DOMAIN files)
    BY DEF AfterWrite, pc
  <2>3. (Accepted(r)' <=> Accepted(r)) /\ KeptOfStdout(r)' = KeptOfStdout(r)
    BY <1>2 DEF Accepted, Consulted, normalize, ParsedReport, KeptOfStdout
  <2> HIDE DEF kept
  <2> QED BY <1>2, <1>4, <1>5, <2>1, <2>2, <2>3 DEF IInv, Knows, ReportKnows
<1>12. \A q \in Runs : Knows(q)'
  BY <1>2, <1>5, <1>10, <1>11, TaskDisturbs
<1> QED BY <1>2, <1>6, <1>8, <1>12 DEF IInv, Stored

LEMMA WriterRenamesSafe ==
  ASSUME IInv, NEW r \in Runs, NEW w \in Writers, WriterRenames(r, w)
  PROVE  IInv'
<1>1. TypeOK /\ writer[r][w] \in WriterRecords
  BY DEF IInv, TypeOK
<1>2. /\ writer[r][w].pc = "sealed"
      /\ Turn(r, w, AfterWrite(w))
      /\ staging' = staging \ {<<r, w>>}
      /\ UNCHANGED <<run, child, guard, evidence, faults, restarts>>
  BY DEF WriterRenames, At
<1>3. PICK task \in WriterRecords :
        /\ Becomes(r, w, task)
        /\ task.pc = AfterWrite(w) /\ task.outcome = writer[r][w].outcome
        /\ task.limit = writer[r][w].limit
        /\ task.kept = writer[r][w].kept /\ task.dropped = writer[r][w].dropped
  BY <1>1, <1>2, Turning DEF AfterWrite, WriterPcs
<1>4. /\ writer' \in [Runs -> [Writers -> WriterRecords]]
      /\ OnlyTask(r, w)
      /\ writer'[r][w] = task
  BY <1>1, <1>3, WritesTask
<1>5. /\ DOMAIN files' = DOMAIN files \cup {writer[r][w].kept}
      /\ \A d \in DOMAIN files' : files'[d] = d
  BY DEF WriterRenames, IInv, Stored
<1>6. TypeOK'
  <2>1. writer[r][w].kept \in Nat
    BY <1>1 DEF WriterRecords
  <2> QED BY <1>1, <1>2, <1>4, <1>5, <2>1 DEF TypeOK
<1>7. w \in OutputStreams => /\ writer[r][w].outcome = "none"
                             /\ AfterWrite(w) = "counting"
                             /\ Measured(r, w)
  BY <1>2 DEF IInv, Knows, SpillKnows, AfterWrite, OutputStreams
<1>8. Counted'
  BY <1>2, <1>3, <1>4, <1>7, SameHoldersTask DEF IInv, Holds
<1>9. w \in OutputStreams => Measured(r, w)'
  BY <1>2, <1>3, <1>4, <1>7, StaysMeasured
<1>10. w \in OutputStreams => SpillKnows(r, w)'
  BY <1>2, <1>3, <1>4, <1>5, <1>7, <1>9 DEF SpillKnows
<1>11. w = "Report" => ReportKnows(r)'
  <2> SUFFICES ASSUME w = "Report", run[r].pc = "reporting"
               PROVE  ReportKnows(r)'
    BY <1>2 DEF ReportKnows
  <2>1. (Accepted(r)' <=> Accepted(r)) /\ KeptOfStdout(r)' = KeptOfStdout(r)
    BY <1>2 DEF Accepted, Consulted, normalize, ParsedReport, KeptOfStdout
  <2> QED BY <1>2, <1>3, <1>4, <1>5, <2>1
          DEF IInv, Knows, ReportKnows, AfterWrite
<1>12. \A q \in Runs : Knows(q)'
  BY <1>2, <1>4, <1>5, <1>10, <1>11, TaskDisturbs
<1> QED BY <1>5, <1>6, <1>8, <1>12 DEF IInv, Stored

LEMMA WriterFailsSafe ==
  ASSUME IInv, NEW r \in Runs, NEW w \in Writers, WriterFails(r, w)
  PROVE  IInv'
<1>1. TypeOK /\ writer[r][w] \in WriterRecords
  BY DEF IInv, TypeOK
<1>2. /\ writer[r][w].pc \in {"copying", "sealed"}
      /\ faults < MaxFaults /\ faults' = faults + 1
      /\ Finish(r, w, "io")
      /\ UNCHANGED <<run, child, guard, staging, files, evidence, restarts>>
  BY DEF WriterFails
<1>3. PICK task \in WriterRecords :
        /\ Becomes(r, w, task) /\ task.limit = writer[r][w].limit
        /\ task.pc = "finished" /\ task.outcome = "io"
  BY <1>1, <1>2, Finishing
<1>4. /\ writer' \in [Runs -> [Writers -> WriterRecords]]
      /\ OnlyTask(r, w)
      /\ writer'[r][w] = task
  BY <1>1, <1>3, WritesTask
<1>5. faults' \in 0..MaxFaults
  BY <1>1, <1>2, LimitsAssumption DEF TypeOK
<1>6. TypeOK'
  BY <1>1, <1>2, <1>4, <1>5 DEF TypeOK
<1>7. w \in OutputStreams => writer[r][w].outcome = "none"
  BY <1>2 DEF IInv, Knows, SpillKnows
<1>8. Counted'
  BY <1>2, <1>3, <1>4, <1>7, SameHoldersTask DEF IInv, Holds
<1>9. w \in OutputStreams => SpillKnows(r, w)'
  BY <1>3, <1>4 DEF SpillKnows
<1>10. w = "Report" => ReportKnows(r)'
  <2> SUFFICES ASSUME w = "Report", run[r].pc = "reporting"
               PROVE  ReportKnows(r)'
    BY <1>2 DEF ReportKnows
  <2>1. (Accepted(r)' <=> Accepted(r)) /\ KeptOfStdout(r)' = KeptOfStdout(r)
    BY <1>2 DEF Accepted, Consulted, normalize, ParsedReport, KeptOfStdout
  <2>2. task.limit = ArtifactMax
    BY <1>3 DEF IInv, Knows, ReportKnows
  <2> QED BY <1>2, <1>3, <1>4, <2>1, <2>2 DEF IInv, Knows, ReportKnows
<1>11. \A q \in Runs : Knows(q)'
  BY <1>2, <1>4, <1>9, <1>10, TaskDisturbs
<1> QED BY <1>2, <1>6, <1>8, <1>11 DEF IInv, Stored

-----------------------------------------------------------------------------
(* The run and its child.                                                  *)

(* A step of a run disturbs what others know by nothing. *)
LEMMA RunDisturbs ==
  ASSUME IInv, NEW r \in Runs,
         \A q \in Runs : q # r => /\ run'[q] = run[q] /\ child'[q] = child[q]
                                  /\ writer'[q] = writer[q]
                                  /\ evidence'[q] = evidence[q],
         files' = files,
         writer' \in [Runs -> [Writers -> WriterRecords]],
         Knows(r)'
  PROVE  \A q \in Runs : Knows(q)'
<1> SUFFICES ASSUME NEW q \in Runs, q # r PROVE Knows(q)'
  OBVIOUS
<1> QED BY Others DEF IInv, TypeOK

(* The child may still change only while the run waits for it or reads its *)
(* streams.  AtEof, once true of a run that was started, stays.            *)
LEMMA ChildEndsSafe ==
  ASSUME IInv, NEW r \in Runs, NEW ending \in Endings, NEW held \in BOOLEAN,
         ChildEnds(r, ending, held)
  PROVE  IInv'
<1>1. TypeOK /\ child[r].alive /\ run[r].pc \in {"waiting", "collecting"}
  BY DEF ChildEnds, IInv, Knows, RunKnows
<1>2. /\ child' = [child EXCEPT ![r] = Ended(ending.code, ending, held)]
      /\ UNCHANGED <<run, writer, guard, staging, files, evidence, faults, restarts>>
  BY DEF ChildEnds
<1>3. Ended(ending.code, ending, held) \in ChildRecords
  BY EndingsAssumption DEF Ended, ChildRecords
<1> HIDE DEF Ended
<1>4. TypeOK'
  BY <1>1, <1>2, <1>3 DEF TypeOK
<1>5. Counted' /\ Stored'
  BY <1>2 DEF IInv, Counted, Stored, Holders, Spills, Holds
<1>6. Knows(r)'
  <2>1. child'[r].alive = FALSE
    BY <1>1, <1>2 DEF TypeOK, Ended
  <2>2. RunKnows(r)'
    BY <1>1, <1>2, <2>1 DEF IInv, Knows, RunKnows
  <2>3. ASSUME NEW s \in OutputStreams PROVE SpillKnows(r, s)'
    BY <1>1, <1>2 DEF IInv, Knows, SpillKnows, Measured, AtEof
  <2>4. ReportKnows(r)'
    BY <1>1, <1>2 DEF IInv, Knows, ReportKnows
  <2>5. EvidenceKnows(r)'
    BY <1>1, <1>2 DEF IInv, Knows, EvidenceKnows, PassEarned, NoEvidence
  <2> QED BY <2>2, <2>3, <2>4, <2>5 DEF Knows
<1>7. \A q \in Runs : q # r => child'[q] = child[q]
  BY <1>1, <1>2 DEF TypeOK
<1>8. \A q \in Runs : Knows(q)'
  BY <1>1, <1>2, <1>6, <1>7, RunDisturbs DEF TypeOK
<1> QED BY <1>4, <1>5, <1>8 DEF IInv

LEMMA DescendantEndsSafe ==
  ASSUME IInv, NEW r \in Runs, DescendantEnds(r)
  PROVE  IInv'
<1>1. TypeOK /\ ~child[r].alive /\ child[r].held
  BY DEF DescendantEnds, IInv
<1>2. /\ child' = [child EXCEPT ![r].held = FALSE]
      /\ UNCHANGED <<run, writer, guard, staging, files, evidence, faults, restarts>>
  BY DEF DescendantEnds
<1>3. child[r] \in ChildRecords
  BY <1>1 DEF TypeOK
<1>4. /\ child'[r] \in ChildRecords
      /\ ~child'[r].alive /\ ~child'[r].held
      /\ child'[r].code = child[r].code /\ child'[r].report = child[r].report
      /\ child'[r].size = child[r].size
      /\ \A q \in Runs : q # r => child'[q] = child[q]
      /\ child' \in [Runs -> ChildRecords]
  BY <1>1, <1>2, <1>3 DEF TypeOK, ChildRecords
<1>5. TypeOK'
  BY <1>1, <1>2, <1>4 DEF TypeOK
<1>6. Counted' /\ Stored'
  BY <1>2 DEF IInv, Counted, Stored, Holders, Spills, Holds
<1>7. Knows(r)'
  <2>1. RunKnows(r)'
    BY <1>1, <1>2, <1>4 DEF IInv, Knows, RunKnows, AtEof
  <2>2. ASSUME NEW s \in OutputStreams PROVE SpillKnows(r, s)'
    BY <1>1, <1>2, <1>4 DEF IInv, Knows, SpillKnows, Measured, AtEof
  <2>3. ReportKnows(r)'
    BY <1>2, <1>4 DEF IInv, Knows, ReportKnows, Accepted, Consulted, normalize,
       ParsedReport, KeptOfStdout
  <2>4. EvidenceKnows(r)'
    BY <1>2, <1>4 DEF IInv, Knows, EvidenceKnows, PassEarned
  <2> QED BY <2>1, <2>2, <2>3, <2>4 DEF Knows
<1>8. \A q \in Runs : Knows(q)'
  BY <1>1, <1>2, <1>4, <1>7, RunDisturbs DEF TypeOK
<1> QED BY <1>5, <1>6, <1>8 DEF IInv

(* A step that only moves the run on, to a place that asks little of it. *)
OnlyRun(r, pc, answer) ==
  /\ run' \in [Runs -> RunRecords]
  /\ \A q \in Runs : q # r => run'[q] = run[q]
  /\ run'[r].pc = pc /\ run'[r].answer = answer /\ run'[r].tool = run[r].tool

LEMMA MovesOn ==
  ASSUME IInv, NEW r \in Runs, NEW pc, NEW answer, OnlyRun(r, pc, answer),
         UNCHANGED <<child, writer, guard, staging, files, evidence>>,
         faults' \in 0..MaxFaults, restarts' = restarts,
         run[r].pc \in {"waiting", "collecting", "answered", "reporting"},
         pc \in {"collecting", "answered", "abandoned"},
         pc # "abandoned" => answer # "none",
         child[r].alive => pc = "collecting",
         pc = "answered" /\ answer = "record" =>
           AtEof(r) /\ \A s \in OutputStreams : writer[r][s].pc = "finished"
  PROVE  IInv'
<1>1. TypeOK'
  BY DEF IInv, TypeOK, OnlyRun
<1>2. Counted' /\ Stored'
  BY DEF IInv, Counted, Stored, Holders, Spills, Holds
<1>3. Knows(r)'
  <2>1. RunKnows(r)'
    BY DEF IInv, Knows, RunKnows, AtEof, OnlyRun
  <2>2. ASSUME NEW s \in OutputStreams PROVE SpillKnows(r, s)'
    BY DEF IInv, Knows, SpillKnows, Measured, AtEof
  <2>3. ReportKnows(r)'
    BY DEF ReportKnows, OnlyRun
  <2>4. EvidenceKnows(r)'
    BY DEF IInv, Knows, EvidenceKnows, PassEarned, NoEvidence, OnlyRun
  <2> QED BY <2>1, <2>2, <2>3, <2>4 DEF Knows
<1>4. \A q \in Runs : Knows(q)'
  BY <1>3, RunDisturbs DEF TypeOK, IInv, OnlyRun
<1> QED BY <1>1, <1>2, <1>4 DEF IInv

LEMMA RunMoves ==
  ASSUME TypeOK, NEW r \in Runs, NEW pc \in Pcs, NEW answer \in Answers,
         run' = [run EXCEPT ![r].pc = pc, ![r].answer = answer]
  PROVE  OnlyRun(r, pc, answer)
<1>1. run \in [Runs -> RunRecords] /\ run[r] \in RunRecords
  BY DEF TypeOK
<1> QED BY <1>1 DEF OnlyRun, RunRecords

LEMMA RunTurns ==
  ASSUME TypeOK, NEW r \in Runs, NEW pc \in Pcs,
         run' = [run EXCEPT ![r].pc = pc]
  PROVE  OnlyRun(r, pc, run[r].answer)
<1>1. run \in [Runs -> RunRecords] /\ run[r] \in RunRecords
  BY DEF TypeOK
<1> QED BY <1>1 DEF OnlyRun, RunRecords

LEMMA ChildWaitedSafe ==
  ASSUME IInv, NEW r \in Runs, NEW ok \in BOOLEAN, ChildWaited(r, ok)
  PROVE  IInv'
<1>1. /\ TypeOK /\ run[r].pc = "waiting" /\ ~child[r].alive
      /\ UNCHANGED <<child, writer, guard, staging, files, evidence, faults, restarts>>
  BY DEF IInv, ChildWaited
<1>2. \/ OnlyRun(r, "collecting", "record")
      \/ OnlyRun(r, "answered", "infrastructure")
  BY <1>1, RunMoves DEF ChildWaited, Answer, Pcs, Answers
<1> QED BY <1>1, <1>2, MovesOn DEF TypeOK

LEMMA WaitFailsSafe ==
  ASSUME IInv, NEW r \in Runs, WaitFails(r)
  PROVE  IInv'
<1>1. /\ TypeOK /\ run[r].pc = "waiting" /\ faults < MaxFaults /\ faults' = faults + 1
      /\ UNCHANGED <<child, writer, guard, staging, files, evidence, restarts>>
  BY DEF IInv, WaitFails
<1>2. OnlyRun(r, "collecting", "infrastructure")
  BY <1>1, RunMoves DEF WaitFails, Pcs, Answers
<1>3. faults' \in 0..MaxFaults
  BY <1>1, LimitsAssumption DEF TypeOK
<1> QED BY <1>1, <1>2, <1>3, MovesOn

LEMMA CollectSafe ==
  ASSUME IInv, NEW r \in Runs, Collect(r)
  PROVE  IInv'
<1>1. /\ TypeOK /\ run[r].pc = "collecting" /\ AtEof(r)
      /\ \A s \in OutputStreams : writer[r][s].pc = "finished"
      /\ run[r].answer # "none" /\ run[r].answer \in Answers
      /\ UNCHANGED <<child, writer, guard, staging, files, evidence, faults, restarts>>
  BY DEF IInv, Collect, Knows, RunKnows, TypeOK, RunRecords
<1>2. run' = [run EXCEPT ![r].pc = "answered", ![r].answer = run[r].answer]
  BY DEF Collect, Answer
<1>3. PICK answer \in Answers : answer = run[r].answer
  BY <1>1
<1>4. OnlyRun(r, "answered", answer)
  BY <1>1, <1>2, <1>3, RunMoves DEF Pcs
<1> QED BY <1>1, <1>3, <1>4, MovesOn DEF TypeOK, AtEof

LEMMA TimesOutSafe ==
  ASSUME IInv, NEW r \in Runs, NEW ending \in Endings, NEW held \in BOOLEAN,
         TimesOut(r, ending, held)
  PROVE  IInv'
<1>1. /\ TypeOK /\ run[r].pc = "waiting"
      /\ UNCHANGED <<writer, guard, staging, files, evidence, faults, restarts>>
  BY DEF IInv, TimesOut
<1>2. OnlyRun(r, "collecting", "timed_out")
  BY <1>1, RunMoves DEF TimesOut, Pcs, Answers
<1>3. Ended(Signalled, ending, held) \in ChildRecords
  BY EndingsAssumption DEF Ended, ChildRecords, Signalled
<1>4. /\ child' \in [Runs -> ChildRecords]
      /\ \A q \in Runs : q # r => child'[q] = child[q]
      /\ child[r].alive \/ child' = child
  BY <1>1, <1>3 DEF TimesOut, TypeOK
<1>5. TypeOK'
  BY <1>1, <1>2, <1>4 DEF TypeOK, OnlyRun
<1>6. Counted' /\ Stored'
  BY <1>1 DEF IInv, Counted, Stored, Holders, Spills, Holds
<1>7. Knows(r)'
  <2>1. RunKnows(r)'
    BY <1>1, <1>2 DEF IInv, Knows, RunKnows, OnlyRun
  <2>2. ASSUME NEW s \in OutputStreams PROVE SpillKnows(r, s)'
    BY <1>1, <1>4 DEF IInv, Knows, SpillKnows, Measured, AtEof
  <2>3. ReportKnows(r)'
    BY <1>2 DEF ReportKnows, OnlyRun
  <2>4. EvidenceKnows(r)'
    BY <1>1, <1>2 DEF IInv, Knows, EvidenceKnows, PassEarned, NoEvidence, OnlyRun
  <2> QED BY <2>1, <2>2, <2>3, <2>4 DEF Knows
<1>8. \A q \in Runs : Knows(q)'
  BY <1>1, <1>2, <1>4, <1>7, RunDisturbs DEF TypeOK, OnlyRun
<1> QED BY <1>5, <1>6, <1>8 DEF IInv

LEMMA ExecuteSafe ==
  ASSUME IInv, NEW r \in Runs, NEW tool \in Tools, NEW spawned \in BOOLEAN,
         Execute(r, tool, spawned)
  PROVE  IInv'
<1> DEFINE next == [pc |-> IF spawned THEN "waiting" ELSE "answered",
                    tool |-> tool,
                    answer |-> CASE tool.class = "PrivilegedExternal" -> "other"
                                 [] spawned -> "none"
                                 [] OTHER -> "infrastructure"]
<1>1. /\ TypeOK /\ run[r].pc = "idle"
      /\ spawned => tool.class # "PrivilegedExternal"
      /\ run' = [run EXCEPT ![r] = next]
      /\ UNCHANGED <<guard, staging, files, evidence, faults, restarts>>
  BY DEF IInv, Execute
<1>2. /\ next \in RunRecords
      /\ \/ spawned /\ next.pc = "waiting"
         \/ ~spawned /\ next.pc = "answered" /\ next.answer \in {"other", "infrastructure"}
  BY <1>1 DEF RunRecords, Pcs, Answers
<1> HIDE DEF next
<1>3. /\ run' \in [Runs -> RunRecords]
      /\ run'[r] = next
      /\ \A q \in Runs : q # r => run'[q] = run[q]
  BY <1>1, <1>2 DEF TypeOK
<1>4. /\ ~child[r].alive /\ writer[r] = [w \in Writers |-> Quiet]
      /\ evidence[r] = NoEvidence
  BY <1>1 DEF IInv, Knows, RunKnows, EvidenceKnows
<1> DEFINE tasks == [w \in Writers |->
                 [Quiet EXCEPT !.pc = IF w = "Report" THEN "off" ELSE "deciding"]]
<1>5. /\ \A w \in Writers : tasks[w] \in WriterRecords /\ tasks[w].outcome = "none"
                              /\ tasks[w].pc \in {"off", "deciding"}
      /\ tasks \in [Writers -> WriterRecords]
  BY DEF Quiet, WriterRecords, WriterPcs
<1> HIDE DEF tasks
<1>6. /\ writer' \in [Runs -> [Writers -> WriterRecords]]
      /\ \A q \in Runs : q # r => writer'[q] = writer[q]
      /\ \A w \in Writers : /\ writer'[r][w].outcome = "none"
                            /\ writer'[r][w].pc \in {"off", "deciding"}
  <2>1. CASE spawned
    <3>1. writer' = [writer EXCEPT ![r] = tasks]
      BY <2>1 DEF Execute, tasks
    <3> QED BY <1>1, <1>5, <3>1 DEF TypeOK
  <2>2. CASE ~spawned
    <3>1. writer' = writer
      BY <2>2 DEF Execute
    <3>2. \A w \in Writers : writer[r][w].outcome = "none" /\ writer[r][w].pc = "off"
      BY <1>4 DEF Quiet
    <3> QED BY <1>1, <3>1, <3>2 DEF TypeOK
  <2> QED BY <2>1, <2>2
<1>7. /\ child' \in [Runs -> ChildRecords]
      /\ \A q \in Runs : q # r => child'[q] = child[q]
      /\ child'[r].alive => next.pc = "waiting"
  <2>1. CASE spawned
    <3>1. child' = [child EXCEPT ![r].alive = TRUE, ![r].held = TRUE]
      BY <2>1 DEF Execute
    <3>2. child \in [Runs -> ChildRecords] /\ child[r] \in ChildRecords
      BY <1>1 DEF TypeOK
    <3> QED BY <1>2, <2>1, <3>1, <3>2 DEF ChildRecords
  <2>2. CASE ~spawned
    BY <1>1, <1>4, <2>2 DEF Execute, TypeOK
  <2> QED BY <2>1, <2>2
<1>8. TypeOK'
  BY <1>1, <1>3, <1>6, <1>7 DEF TypeOK
<1>9. Counted' /\ Stored'
  <2>1. \A x \in Spills : Holds(writer'[x[1]][x[2]]) <=> Holds(writer[x[1]][x[2]])
    <3> SUFFICES ASSUME NEW q \in Runs, NEW s \in OutputStreams
                 PROVE  Holds(writer'[q][s]) <=> Holds(writer[q][s])
      BY DEF Spills
    <3>1. CASE q = r
      BY <1>4, <1>6, <3>1 DEF Holds, Quiet, Writers
    <3>2. CASE q # r
      BY <1>6, <3>2
    <3> QED BY <3>1, <3>2
  <2>2. Counted'
    BY <1>1, <2>1, SameHolders DEF IInv
  <2> QED BY <1>1, <2>2 DEF IInv, Stored
<1>10. Knows(r)'
  <2>1. RunKnows(r)'
    BY <1>2, <1>3, <1>7 DEF RunKnows
  <2>2. ASSUME NEW s \in OutputStreams PROVE SpillKnows(r, s)'
    BY <1>6 DEF SpillKnows, Writers
  <2>3. ReportKnows(r)'
    BY <1>2, <1>3 DEF ReportKnows
  <2>4. EvidenceKnows(r)'
    BY <1>1, <1>4 DEF EvidenceKnows, PassEarned, NoEvidence
  <2> QED BY <2>1, <2>2, <2>3, <2>4 DEF Knows
<1>11. \A q \in Runs : Knows(q)'
  BY <1>1, <1>3, <1>6, <1>7, <1>10, RunDisturbs
<1> QED BY <1>8, <1>9, <1>11 DEF IInv

-----------------------------------------------------------------------------
(* The handler.                                                            *)

(* What it takes for an outcome to become a pass. *)
LEMMA OutcomePasses ==
  ASSUME NEW r \in Runs, run[r].answer \in {"record", "timed_out", "infrastructure"},
         outcome_status(OutcomeOf(r)) = "Pass"
  PROVE  /\ run[r].answer = "record"
         /\ IF run[r].tool.normalizer = "None"
            THEN child[r].code = 0
            ELSE Consulted(r) /\ normalize(r) = "Pass"
<1>1. OutcomeOf(r) = "Pass"
  BY DEF outcome_status
<1>2. CASE Consulted(r)
  <2>1. NormalizedOutcome(normalize(r)) = "Pass"
    BY <1>1, <1>2 DEF OutcomeOf
  <2>2. normalize(r) = "Pass"
    BY <2>1 DEF NormalizedOutcome
  <2> QED BY <1>2, <2>2 DEF Consulted
<1>3. CASE ~Consulted(r)
  <2>1. run[r].answer = "record"
    BY <1>1, <1>3 DEF OutcomeOf
  <2>2. outcome_from_record(child[r].code) = "Pass"
    BY <1>1, <1>3, <2>1 DEF OutcomeOf
  <2>3. child[r].code = 0
    BY <2>2 DEF outcome_from_record
  <2> QED BY <1>3, <2>1, <2>3 DEF Consulted
<1> QED BY <1>2, <1>3

LEMMA PassIsWhole ==
  ASSUME TypeOK, NEW r \in Runs, normalize(r) = "Pass"
  PROVE  /\ child[r].report = "pass"
         /\ child[r].size["Stdout"] <= OutputMax
         /\ KeptOfStdout(r) = child[r].size["Stdout"]
<1>1. child[r].size["Stdout"] \in Nat
  BY DEF TypeOK, ChildRecords, OutputStreams
<1>2. ParsedReport(r) = "pass"
  BY DEF normalize
<1>3. child[r].size["Stdout"] <= OutputMax /\ child[r].report = "pass"
  BY <1>1, <1>2, LimitsAssumption DEF ParsedReport
<1> QED BY <1>1, <1>3, LimitsAssumption DEF KeptOfStdout, Least

LEMMA PutEvidenceSafe ==
  ASSUME IInv, NEW r \in Runs, NEW artifact \in Nat \cup {-1},
         PutEvidence(r, artifact),
         UNCHANGED <<child, writer, guard, staging, files, faults, restarts>>,
         run[r].pc \in {"answered", "reporting"},
         run[r].answer \in {"record", "timed_out", "infrastructure"},
         artifact # -1 => artifact \in DOMAIN files,
         Consulted(r) /\ normalize(r) = "Pass" => artifact = KeptOfStdout(r)
  PROVE  IInv'
<1> DEFINE row == [status |-> outcome_status(OutcomeOf(r)), producer |-> ProducerOf(r),
                   truncated |-> run[r].answer = "record" /\ Truncated(r),
                   artifact |-> artifact]
<1>1. TypeOK
  BY DEF IInv
<1>2. OnlyRun(r, "done", run[r].answer)
  BY <1>1, RunTurns DEF PutEvidence, Pcs
<1>3. row \in EvidenceRows
  <2>1. outcome_status(OutcomeOf(r)) \in {"Pass", "Fail", "InfrastructureError"}
    BY DEF outcome_status
  <2>2. ProducerOf(r) \in {"tool", "#executor-error", "#normalizer-error"}
    BY DEF ProducerOf
  <2>3. (run[r].answer = "record" /\ Truncated(r)) \in BOOLEAN
    OBVIOUS
  <2> QED BY <2>1, <2>2, <2>3 DEF EvidenceRows
<1>4. row.status = outcome_status(OutcomeOf(r)) /\ row.artifact = artifact
  OBVIOUS
<1>5. evidence' = [evidence EXCEPT ![r] = row]
  BY DEF PutEvidence
<1> HIDE DEF row
<1>6. /\ evidence' \in [Runs -> EvidenceRows \cup {NoEvidence}]
      /\ evidence'[r] = row
      /\ \A q \in Runs : q # r => evidence'[q] = evidence[q]
  BY <1>1, <1>3, <1>5 DEF TypeOK
<1>7. TypeOK'
  BY <1>1, <1>2, <1>6 DEF TypeOK, OnlyRun
<1>8. Counted' /\ Stored'
  BY DEF IInv, Counted, Stored, Holders, Spills, Holds
<1>9. Knows(r)'
  <2>1. RunKnows(r)'
    BY <1>2 DEF IInv, Knows, RunKnows, OnlyRun
  <2>2. ASSUME NEW s \in OutputStreams PROVE SpillKnows(r, s)'
    BY DEF IInv, Knows, SpillKnows, Measured, AtEof
  <2>3. ReportKnows(r)'
    BY <1>2 DEF ReportKnows, OnlyRun
  <2>4. PassEarned(r)'
    <3> SUFFICES ASSUME row.status = "Pass" PROVE PassEarned(r)'
      BY <1>6 DEF PassEarned
    <3>1. /\ run[r].answer = "record"
          /\ IF run[r].tool.normalizer = "None"
             THEN child[r].code = 0
             ELSE Consulted(r) /\ normalize(r) = "Pass"
      BY <1>4, OutcomePasses
    <3>2. CASE run[r].tool.normalizer = "None"
      BY <1>2, <3>1, <3>2 DEF PassEarned, OnlyRun
    <3>3. CASE run[r].tool.normalizer # "None"
      <4>1. /\ child[r].report = "pass"
            /\ child[r].size["Stdout"] <= OutputMax
            /\ artifact = child[r].size["Stdout"]
        BY <1>1, <3>1, <3>3, PassIsWhole
      <4> QED BY <1>2, <1>4, <1>6, <3>1, <3>3, <4>1 DEF PassEarned, OnlyRun
    <3> QED BY <3>2, <3>3
  <2>5. EvidenceKnows(r)'
    BY <1>2, <1>4, <1>6, <2>4 DEF EvidenceKnows, OnlyRun
  <2> QED BY <2>1, <2>2, <2>3, <2>5 DEF Knows
<1>10. \A q \in Runs : Knows(q)'
  BY <1>1, <1>2, <1>6, <1>9, RunDisturbs DEF TypeOK, OnlyRun
<1> QED BY <1>7, <1>8, <1>10 DEF IInv

LEMMA JudgeSafe ==
  ASSUME IInv, NEW r \in Runs, Judge(r)
  PROVE  IInv'
<1>1. /\ TypeOK /\ run[r].pc = "answered" /\ run[r].answer # "none"
      /\ run[r].answer \in Answers /\ ~child[r].alive
      /\ UNCHANGED <<child, guard, files, faults, restarts>>
  BY DEF IInv, Judge, Knows, RunKnows, TypeOK, RunRecords
<1>2. KeptOfStdout(r) \in Nat
  BY <1>1, ObservedType DEF Writers
<1>3. ASSUME run' = [run EXCEPT ![r].pc = "abandoned"],
             UNCHANGED <<writer, staging, evidence>>
      PROVE  IInv'
  <2>1. PICK answer \in Answers : answer = run[r].answer
    BY <1>1
  <2>2. OnlyRun(r, "abandoned", answer)
    BY <1>1, <1>3, <2>1, RunTurns DEF Pcs
  <2> QED BY <1>1, <1>3, <2>2, MovesOn DEF TypeOK
<1>4. CASE run[r].answer # "other" /\ Accepted(r) /\ KeptOfStdout(r) <= ArtifactMax
  <2> DEFINE task == [Quiet EXCEPT !.pc = "copying", !.limit = ArtifactMax]
  <2>1. /\ run' = [run EXCEPT ![r].pc = "reporting"]
        /\ Becomes(r, "Report", task)
        /\ staging' = staging \cup {<<r, "Report">>}
        /\ UNCHANGED evidence
    BY <1>2, <1>4, LimitsAssumption DEF Judge
  <2>2. task \in WriterRecords /\ task.pc = "copying" /\ task.limit = ArtifactMax
    BY LimitsAssumption DEF Quiet, WriterRecords, WriterPcs
  <2> HIDE DEF task
  <2>3. OnlyRun(r, "reporting", run[r].answer)
    BY <1>1, <2>1, RunTurns DEF Pcs
  <2>4. /\ writer' \in [Runs -> [Writers -> WriterRecords]]
        /\ OnlyTask(r, "Report")
        /\ writer'[r]["Report"] = task
    BY <1>1, <2>1, <2>2, WritesTask DEF Writers
  <2>5. TypeOK'
    <3>1. staging' \in SUBSET (Runs \X Writers)
      BY <1>1, <2>1 DEF TypeOK, Writers
    <3> QED BY <1>1, <2>1, <2>3, <2>4, <3>1 DEF TypeOK, OnlyRun
  <2>6. Counted'
    BY <1>1, <2>4, SameHoldersTask DEF IInv, Writers, OutputStreams
  <2>7. \A s \in OutputStreams : writer'[r][s] = writer[r][s]
    BY <2>4 DEF OnlyTask, Writers, OutputStreams
  <2>8. Knows(r)'
    <3>1. run[r].answer = "record"
      BY <1>4 DEF Accepted, Consulted
    <3>2. RunKnows(r)'
      BY <1>1, <2>3, <2>7, <3>1 DEF IInv, Knows, RunKnows, OnlyRun, AtEof
    <3>3. ASSUME NEW s \in OutputStreams PROVE SpillKnows(r, s)'
      BY <1>1, <2>7 DEF IInv, Knows, SpillKnows, Measured, AtEof
    <3>4. Accepted(r)' /\ KeptOfStdout(r)' = KeptOfStdout(r)
      BY <1>1, <1>4, <2>3 DEF Accepted, Consulted, normalize, ParsedReport,
         KeptOfStdout, OnlyRun
    <3>5. ReportKnows(r)'
      BY <1>4, <2>2, <2>3, <2>4, <3>1, <3>4 DEF ReportKnows, OnlyRun
    <3>6. EvidenceKnows(r)'
      BY <1>1, <2>1, <2>3 DEF IInv, Knows, EvidenceKnows, PassEarned, NoEvidence, OnlyRun
    <3> QED BY <3>2, <3>3, <3>5, <3>6 DEF Knows
  <2>9. ASSUME NEW q \in Runs, q # r PROVE writer'[q] = writer[q]
    <3>1. \A w \in Writers : writer'[q][w] = writer[q][w]
      BY <2>4, <2>9 DEF OnlyTask
    <3>2. writer'[q] \in [Writers -> WriterRecords] /\ writer[q] \in [Writers -> WriterRecords]
      BY <1>1, <2>4 DEF TypeOK
    <3> QED BY <3>1, <3>2
  <2>10. \A q \in Runs : Knows(q)'
    BY <1>1, <2>1, <2>3, <2>4, <2>8, <2>9, RunDisturbs DEF OnlyRun
  <2> QED BY <1>1, <2>5, <2>6, <2>10 DEF IInv, Stored
<1>5. CASE run[r].answer # "other" /\ ~Accepted(r)
  <2>1. PutEvidence(r, -1) /\ UNCHANGED <<writer, staging>>
    BY <1>5 DEF Judge, NoEvidence
  <2>2. ~(Consulted(r) /\ normalize(r) = "Pass")
    BY <1>5 DEF Accepted
  <2> QED BY <1>1, <1>5, <2>1, <2>2, PutEvidenceSafe DEF Answers
<1>6. CASE run[r].answer = "other"
  BY <1>3, <1>6 DEF Judge
<1>7. CASE run[r].answer # "other" /\ Accepted(r) /\ KeptOfStdout(r) > ArtifactMax
  BY <1>2, <1>3, <1>7, LimitsAssumption DEF Judge
<1>8. CASE run[r].answer # "other"
  <2>1. KeptOfStdout(r) > ArtifactMax \/ KeptOfStdout(r) <= ArtifactMax
    BY <1>2, LimitsAssumption
  <2>2. CASE Accepted(r)
    BY <1>4, <1>7, <1>8, <2>1, <2>2
  <2>3. CASE ~Accepted(r)
    BY <1>5, <1>8, <2>3
  <2> QED BY <2>2, <2>3
<1> QED BY <1>6, <1>8

LEMMA BindReportSafe ==
  ASSUME IInv, NEW r \in Runs, BindReport(r)
  PROVE  IInv'
<1>1. /\ TypeOK /\ run[r].pc = "reporting" /\ run[r].answer = "record"
      /\ writer[r]["Report"].pc = "finished" /\ ~child[r].alive
      /\ UNCHANGED <<child, writer, guard, staging, files, faults, restarts>>
  BY DEF IInv, BindReport, At, Knows, RunKnows, ReportKnows
<1>2. CASE writer[r]["Report"].outcome = "io"
  <2>1. OnlyRun(r, "abandoned", "record") /\ UNCHANGED evidence
    BY <1>1, <1>2, RunTurns DEF BindReport, Pcs
  <2> QED BY <1>1, <2>1, MovesOn DEF TypeOK
<1>3. CASE writer[r]["Report"].outcome # "io"
  <2>1. PICK kept : kept = writer[r]["Report"].kept
    OBVIOUS
  <2>2. kept = KeptOfStdout(r) /\ kept \in DOMAIN files /\ kept \in Nat
    BY <1>1, <1>3, <2>1 DEF IInv, Knows, ReportKnows, TypeOK
  <2>3. PutEvidence(r, kept)
    BY <1>3, <2>1 DEF BindReport
  <2> QED BY <1>1, <2>2, <2>3, PutEvidenceSafe
<1> QED BY <1>2, <1>3

LEMMA RestartSafe ==
  ASSUME IInv, Restart
  PROVE  IInv'
<1>1. /\ TypeOK
      /\ restarts < MaxRestarts /\ restarts' = restarts + 1
      /\ guard' = [guard EXCEPT !.count = 0, !.bytes = 0]
      /\ staging' = {}
      /\ UNCHANGED <<files, evidence, faults>>
  BY DEF IInv, Restart
<1>2. ASSUME NEW q \in Runs
      PROVE  /\ run'[q] \in RunRecords
             /\ run'[q].answer = run[q].answer /\ run'[q].tool = run[q].tool
             /\ \/ run'[q] = run[q] /\ run[q].pc \in {"idle", "done"}
                \/ run'[q].pc = "abandoned" /\ run[q].pc \notin {"idle", "done"}
  <2>1. run[q] \in RunRecords
    BY <1>1 DEF TypeOK
  <2>2. CASE run[q].pc \in {"idle", "done"}
    BY <2>1, <2>2 DEF Restart
  <2>3. CASE run[q].pc \notin {"idle", "done"}
    <3>1. run'[q] = [run[q] EXCEPT !.pc = "abandoned"]
      BY <2>3 DEF Restart
    <3> QED BY <2>1, <2>3, <3>1 DEF RunRecords, Pcs
  <2> QED BY <2>2, <2>3
<1>3. ASSUME NEW q \in Runs
      PROVE  /\ child'[q] \in ChildRecords
             /\ ~child'[q].alive
             /\ child'[q].code = child[q].code /\ child'[q].report = child[q].report
             /\ child'[q].size = child[q].size
  <2>1. child'[q] = [child[q] EXCEPT !.alive = FALSE, !.held = FALSE]
    BY DEF Restart
  <2>2. child[q] \in ChildRecords
    BY <1>1 DEF TypeOK
  <2>3. PICK before \in ChildRecords : before = child[q]
    BY <2>2
  <2>4. PICK now : now = [before EXCEPT !.alive = FALSE]
    OBVIOUS
  <2>5. /\ now \in ChildRecords
        /\ ~now.alive /\ now.code = before.code /\ now.report = before.report
        /\ now.size = before.size
    BY <2>4 DEF ChildRecords
  <2>6. child'[q] = [now EXCEPT !.held = FALSE]
    BY <2>1, <2>3, <2>4
  <2> QED BY <2>3, <2>5, <2>6 DEF ChildRecords
<1>4. /\ writer' = [q \in Runs |-> [w \in Writers |-> Quiet]]
      /\ Quiet \in WriterRecords /\ Quiet.pc = "off" /\ Quiet.outcome = "none"
  BY DEF Restart, Quiet, WriterRecords, WriterPcs
<1>5. TypeOK'
  <2>1. run' \in [Runs -> RunRecords]
    <3>1. run' = [q \in Runs |-> run'[q]]
      BY DEF Restart
    <3> QED BY <1>2, <3>1
  <2>2. child' \in [Runs -> ChildRecords]
    <3>1. child' = [q \in Runs |-> child'[q]]
      BY DEF Restart
    <3> QED BY <1>3, <3>1
  <2>3. writer' \in [Runs -> [Writers -> WriterRecords]]
    BY <1>4
  <2>4. restarts' \in 0..MaxRestarts
    BY <1>1, LimitsAssumption DEF TypeOK
  <2>5. /\ guard' \in [count : Nat, bytes : Nat, maxCount : Nat, maxBytes : Nat]
        /\ guard'.count <= guard'.maxCount /\ guard'.bytes <= guard'.maxBytes
    <3>1. PICK zero : zero = [guard EXCEPT !.count = 0]
      OBVIOUS
    <3>2. /\ zero \in [count : Nat, bytes : Nat, maxCount : Nat, maxBytes : Nat]
          /\ zero.count = 0
      BY <1>1, <3>1 DEF TypeOK
    <3>3. guard' = [zero EXCEPT !.bytes = 0]
      BY <1>1, <3>1
    <3> QED BY <3>2, <3>3
  <2> QED BY <1>1, <2>1, <2>2, <2>3, <2>4, <2>5 DEF TypeOK
<1>6. Counted'
  <2>1. \A x \in Spills : ~Holds(writer'[x[1]][x[2]])
    BY <1>4 DEF Spills, Holds, Writers
  <2>2. Holders' = {}
    BY <2>1 DEF Holders
  <2>3. guard'.count = 0
    BY <1>1 DEF TypeOK
  <2> QED BY <2>2, <2>3, FS_EmptySet DEF Counted
<1>7. ASSUME NEW q \in Runs PROVE Knows(q)'
  <2>1. RunKnows(q)'
    BY <1>2, <1>3, <1>4 DEF IInv, Knows, RunKnows
  <2>2. ASSUME NEW s \in OutputStreams PROVE SpillKnows(q, s)'
    BY <1>4 DEF SpillKnows, Writers
  <2>3. ReportKnows(q)'
    BY <1>2 DEF ReportKnows
  <2>4. EvidenceKnows(q)'
    BY <1>1, <1>2, <1>3 DEF IInv, Knows, EvidenceKnows, PassEarned, NoEvidence
  <2> QED BY <2>1, <2>2, <2>3, <2>4 DEF Knows
<1> QED BY <1>1, <1>5, <1>6, <1>7 DEF IInv, Stored

-----------------------------------------------------------------------------
LEMMA InitSafe == Init => IInv
<1> SUFFICES ASSUME Init PROVE IInv
  OBVIOUS
<1>1. PICK budget \in Budgets : guard = FreshGuard(budget)
  BY DEF Init
<1>2. /\ guard \in [count : Nat, bytes : Nat, maxCount : Nat, maxBytes : Nat]
      /\ guard.count = 0 /\ guard.bytes = 0
      /\ guard.count <= guard.maxCount /\ guard.bytes <= guard.maxBytes
  <2>1. budget.count \in Nat /\ budget.bytes \in Nat
    BY LimitsAssumption
  <2> QED BY <1>1, <2>1 DEF FreshGuard
<1>3. /\ NoChild \in ChildRecords /\ NoChild.alive = FALSE
      /\ Quiet \in WriterRecords /\ Quiet.pc = "off" /\ Quiet.outcome = "none"
  BY DEF NoChild, ChildRecords, Signalled, Reports, OutputStreams, Quiet,
     WriterRecords, WriterPcs
<1>4. [pc |-> "idle", tool |-> NoTool, answer |-> "none"] \in RunRecords
  BY DEF RunRecords, Pcs, Answers
<1>5. TypeOK
  BY <1>2, <1>3, <1>4, LimitsAssumption DEF Init, TypeOK
<1>6. Counted
  <2>1. \A x \in Spills : ~Holds(writer[x[1]][x[2]])
    BY <1>3 DEF Init, Spills, Holds, Writers
  <2>2. Holders = {}
    BY <2>1 DEF Holders
  <2> QED BY <1>2, <2>2, FS_EmptySet DEF Counted
<1>7. Stored
  BY DEF Init, Stored
<1>8. ASSUME NEW r \in Runs PROVE Knows(r)
  <2>1. RunKnows(r)
    BY <1>3 DEF Init, RunKnows
  <2>2. ASSUME NEW s \in OutputStreams PROVE SpillKnows(r, s)
    BY <1>3 DEF Init, SpillKnows, Writers
  <2>3. ReportKnows(r)
    BY DEF Init, ReportKnows
  <2>4. EvidenceKnows(r)
    BY DEF Init, EvidenceKnows, PassEarned, NoEvidence
  <2> QED BY <2>1, <2>2, <2>3, <2>4 DEF Knows
<1> QED BY <1>5, <1>6, <1>7, <1>8 DEF IInv

LEMMA NextSafe == IInv /\ [Next]_vars => IInv'
<1> SUFFICES ASSUME IInv, [Next]_vars PROVE IInv'
  OBVIOUS
<1>1. ASSUME NEW r \in Runs, TaskStep(r) PROVE IInv'
  <2>1. ASSUME NEW ok \in BOOLEAN, ChildWaited(r, ok) PROVE IInv'
    BY <2>1, ChildWaitedSafe
  <2>2. CASE Collect(r)
    BY <2>2, CollectSafe
  <2>3. ASSUME NEW s \in OutputStreams,
               SpillDecide(r, s) \/ TryBumpCount(r, s) \/ TryBumpBytes(r, s)
                 \/ RefundCount(r, s)
        PROVE  IInv'
    BY <2>3, SpillDecideSafe, TryBumpCountSafe, TryBumpBytesSafe, RefundCountSafe
  <2>4. ASSUME NEW w \in Writers, WriterSeals(r, w) \/ WriterRenames(r, w)
        PROVE  IInv'
    BY <2>4, WriterSealsSafe, WriterRenamesSafe
  <2>5. CASE Judge(r)
    BY <2>5, JudgeSafe
  <2>6. CASE BindReport(r)
    BY <2>6, BindReportSafe
  <2> QED BY <1>1, <2>1, <2>2, <2>3, <2>4, <2>5, <2>6 DEF TaskStep
<1>2. ASSUME NEW r \in Runs, ToolStep(r) \/ TimeStep(r) PROVE IInv'
  BY <1>2, ChildEndsSafe, DescendantEndsSafe, TimesOutSafe DEF ToolStep, TimeStep
<1>3. ASSUME NEW r \in Runs, NEW tool \in Tools, NEW spawned \in BOOLEAN,
             Execute(r, tool, spawned)
      PROVE  IInv'
  BY <1>3, ExecuteSafe
<1>4. ASSUME NEW r \in Runs, WaitFails(r) PROVE IInv'
  BY <1>4, WaitFailsSafe
<1>5. ASSUME NEW r \in Runs, NEW w \in Writers, WriterFails(r, w) PROVE IInv'
  BY <1>5, WriterFailsSafe
<1>6. CASE Restart
  BY <1>6, RestartSafe
<1>7. CASE UNCHANGED vars
  <2>1. TypeOK'
    BY <1>7 DEF IInv, TypeOK, vars
  <2>2. Counted' /\ Stored'
    BY <1>7 DEF IInv, Counted, Stored, Holders, Spills, Holds, vars
  <2>3. ASSUME NEW q \in Runs PROVE Knows(q)'
    BY <1>7, Others DEF IInv, TypeOK, vars
  <2> QED BY <2>1, <2>2, <2>3 DEF IInv
<1> QED BY <1>1, <1>2, <1>3, <1>4, <1>5, <1>6, <1>7 DEF Next

(* Every reachable state satisfies the invariant. *)
THEOREM Invariance == Spec => []IInv
<1>1. Init => IInv
  BY InitSafe
<1>2. IInv /\ [Next]_vars => IInv'
  BY NextSafe
<1> QED BY <1>1, <1>2, PTL DEF Spec

(* The types of the state, among them that the guard never goes over the   *)
(* budget nor below nothing.                                               *)
THEOREM TypeCorrect == Spec => []TypeOK
<1>1. IInv => TypeOK
  BY DEF IInv
<1> QED BY <1>1, Invariance, PTL

(* The guard counts the artifacts it has admitted and the tasks between    *)
(* its two counters, and nothing else, however try_record interleaves.     *)
THEOREM CountSound == Spec => []CountIsExact
<1>1. IInv => CountIsExact
  <2> SUFFICES ASSUME IInv PROVE CountIsExact
    OBVIOUS
  <2>1. Holders = Admitted \cup Recording
    BY DEF Holders, Holds, Admitted, Recording
  <2>2. Admitted \cap Recording = {}
    <3> SUFFICES ASSUME NEW r \in Runs, NEW s \in OutputStreams,
                        writer[r][s].outcome = "kept"
                 PROVE  writer[r][s].pc \notin {"charging", "refunding"}
      BY DEF Admitted, Recording, Spills
    <3> QED BY DEF IInv, Knows, SpillKnows
  <2>3. Admitted \in SUBSET Spills /\ Recording \in SUBSET Spills
    BY DEF Admitted, Recording
  <2>4. IsFiniteSet(Admitted) /\ IsFiniteSet(Recording)
    BY <2>3, SpillsFinite, FS_Subset
  <2>5. Cardinality(Admitted) \in Nat /\ Cardinality(Recording) \in Nat
    BY <2>4, FS_CardinalityType
  <2>6. Cardinality(Admitted \cup Recording)
          = Cardinality(Admitted) + Cardinality(Recording)
    BY <2>2, <2>4, <2>5, FS_Union, FS_EmptySet
  <2> QED BY <2>1, <2>6 DEF IInv, Counted, CountIsExact
<1> QED BY <1>1, Invariance, PTL

-----------------------------------------------------------------------------
(* The bytes.  What a task has been admitted with it keeps: it is finished.*)

BytesInv == IsFiniteSet(KeptBytes) /\ BytesAreExact

SameBytes ==
  /\ guard'.bytes = guard.bytes
  /\ \A r \in Runs, s \in OutputStreams :
       /\ writer'[r][s].outcome = "kept" <=> writer[r][s].outcome = "kept"
       /\ writer[r][s].outcome = "kept" => writer'[r][s].kept = writer[r][s].kept

LEMMA SameBytesKept ==
  ASSUME BytesInv, SameBytes
  PROVE  BytesInv'
<1>1. Admitted' = Admitted
  BY DEF Admitted, Spills, SameBytes
<1>2. \A x \in Admitted : writer'[x[1]][x[2]].kept = writer[x[1]][x[2]].kept
  BY DEF Admitted, Spills, SameBytes
<1>3. KeptBytes' = KeptBytes
  BY <1>1, <1>2 DEF KeptBytes
<1> QED BY <1>3 DEF BytesInv, BytesAreExact, SameBytes

(* A step of one task that is not admitted and does not become so.         *)
LEMMA TaskKeepsBytes ==
  ASSUME NEW r \in Runs, NEW w \in Writers, OnlyTask(r, w),
         guard'.bytes = guard.bytes,
         w \in OutputStreams =>
           writer[r][w].outcome # "kept" /\ writer'[r][w].outcome # "kept"
  PROVE  SameBytes
<1> SUFFICES ASSUME NEW q \in Runs, NEW s \in OutputStreams
             PROVE  /\ writer'[q][s].outcome = "kept" <=> writer[q][s].outcome = "kept"
                    /\ writer[q][s].outcome = "kept" =>
                         writer'[q][s].kept = writer[q][s].kept
  BY DEF SameBytes
<1>1. CASE q = r /\ s = w
  BY <1>1
<1>2. CASE ~(q = r /\ s = w)
  <2>1. writer'[q][s] = writer[q][s]
    BY <1>2 DEF OnlyTask, Writers
  <2> QED BY <2>1
<1> QED BY <1>1, <1>2

(* The task that is admitted brings its own bytes, which no other has.     *)
LEMMA MoreBytes ==
  ASSUME TypeOK, BytesInv,
         NEW r \in Runs, NEW s \in OutputStreams, OnlyTask(r, s),
         writer[r][s].outcome # "kept", writer'[r][s].outcome = "kept",
         writer'[r][s].kept = writer[r][s].kept,
         guard'.bytes = guard.bytes + writer[r][s].kept
  PROVE  BytesInv'
<1> DEFINE x == <<r, s>>
           n == writer[r][s].kept
           own == {x} \X (1..n)
<1>1. n \in Nat
  BY DEF TypeOK, Writers, WriterRecords
<1>2. \A y \in Spills : y # x => writer'[y[1]][y[2]] = writer[y[1]][y[2]]
  BY DEF Spills, Writers, OnlyTask
<1>3. x \in Spills /\ x \notin Admitted /\ x[1] = r /\ x[2] = s
  BY DEF Spills, Admitted
<1>4. Admitted' = Admitted \cup {x}
  BY <1>2, <1>3 DEF Admitted
<1>5. \A y \in Admitted : writer'[y[1]][y[2]].kept = writer[y[1]][y[2]].kept
  BY <1>2, <1>3 DEF Admitted
<1>6. writer'[x[1]][x[2]].kept = n
  BY <1>3
<1>7. KeptBytes' = KeptBytes \cup own
  <2> HIDE DEF x, n
  <2> QED BY <1>4, <1>5, <1>6 DEF KeptBytes
<1>8. KeptBytes \cap own = {}
  <2> HIDE DEF x, n
  <2> QED BY <1>3 DEF KeptBytes
<1>9. IsFiniteSet(own) /\ Cardinality(own) = n
  <2>1. IsFiniteSet({x}) /\ Cardinality({x}) = 1
    BY FS_Singleton
  <2> HIDE DEF x, n
  <2>2. IsFiniteSet(1..n) /\ Cardinality(1..n) = n
    BY <1>1, FS_Interval
  <2>3. /\ IsFiniteSet(own)
        /\ Cardinality(own) = Cardinality({x}) * Cardinality(1..n)
    BY <2>1, <2>2, FS_Product
  <2> HIDE DEF own
  <2> QED BY <1>1, <2>1, <2>2, <2>3
<1>10. Cardinality(KeptBytes \cup own) = Cardinality(KeptBytes) + n
  <2>1. Cardinality(KeptBytes \cup own) =
          Cardinality(KeptBytes) + Cardinality(own) - Cardinality(KeptBytes \cap own)
    BY <1>9, FS_Union DEF BytesInv
  <2>2. Cardinality(KeptBytes \cap own) = 0
    BY <1>8, FS_EmptySet
  <2>3. Cardinality(KeptBytes) \in Nat
    BY FS_CardinalityType DEF BytesInv
  <2> HIDE DEF n, own
  <2> QED BY <1>1, <1>9, <2>1, <2>2, <2>3
<1>11. IsFiniteSet(KeptBytes \cup own)
  BY <1>9, FS_Union DEF BytesInv
<1>12. guard'.bytes = guard.bytes + n
  OBVIOUS
<1> HIDE DEF n, own
<1> QED BY <1>7, <1>10, <1>11, <1>12 DEF BytesInv, BytesAreExact

LEMMA NotYetKept ==
  ASSUME IInv, NEW r \in Runs, NEW w \in Writers, writer[r][w].pc # "finished"
  PROVE  w \in OutputStreams => writer[r][w].outcome = "none"
BY DEF IInv, Knows, SpillKnows, TypeOK, WriterRecords

LEMMA BytesInit == Init => BytesInv
<1> SUFFICES ASSUME Init PROVE BytesInv
  OBVIOUS
<1>1. guard.bytes = 0
  BY DEF Init, FreshGuard
<1>2. Admitted = {}
  BY DEF Init, Admitted, Spills, Quiet, Writers
<1>3. KeptBytes = {}
  BY <1>2 DEF KeptBytes
<1> QED BY <1>1, <1>3, FS_EmptySet DEF BytesInv, BytesAreExact

(* The tasks of a run that are not at the byte counter.                    *)
LEMMA SpillDecideBytes ==
  ASSUME IInv, NEW r \in Runs, NEW s \in OutputStreams, SpillDecide(r, s)
  PROVE  SameBytes
<1> DEFINE limit == Least(guard.maxBytes - guard.bytes, ArtifactMax)
<1>1. s \in Writers /\ TypeOK /\ guard' = guard /\ writer[r][s].pc = "deciding"
  BY DEF Writers, IInv, SpillDecide, At
<1>2. writer[r][s].outcome = "none" /\ writer[r][s] \in WriterRecords
  BY <1>1, NotYetKept DEF TypeOK
<1> HIDE DEF limit
<1>3. \/ Finish(r, s, "budget_count")
      \/ Finish(r, s, "budget_bytes")
      \/ Becomes(r, s, [writer[r][s] EXCEPT !.pc = "copying", !.limit = limit])
  BY DEF SpillDecide, limit
<1>4. PICK task : Becomes(r, s, task) /\ task.outcome # "kept"
  <2>1. ASSUME NEW outcome \in {"budget_count", "budget_bytes"},
               Finish(r, s, outcome)
        PROVE  \E task : Becomes(r, s, task) /\ task.outcome # "kept"
    BY <1>1, <2>1, Finishing
  <2>2. CASE Becomes(r, s, [writer[r][s] EXCEPT !.pc = "copying", !.limit = limit])
    <3> DEFINE task == [writer[r][s] EXCEPT !.pc = "copying", !.limit = limit]
    <3>1. task.outcome # "kept"
      BY <1>2 DEF WriterRecords
    <3>2. Becomes(r, s, task)
      BY <2>2
    <3> HIDE DEF task
    <3> QED BY <3>1, <3>2
  <2> QED BY <1>3, <2>1, <2>2
<1>5. OnlyTask(r, s) /\ writer'[r][s] = task
  BY <1>1, <1>4 DEF Becomes, OnlyTask, TypeOK
<1> QED BY <1>1, <1>2, <1>4, <1>5, TaskKeepsBytes

LEMMA CountBytes ==
  ASSUME IInv, NEW r \in Runs, NEW s \in OutputStreams,
         TryBumpCount(r, s) \/ RefundCount(r, s)
  PROVE  SameBytes
<1>1. s \in Writers /\ TypeOK /\ writer[r][s].pc \in {"counting", "refunding"}
  BY DEF Writers, IInv, TryBumpCount, RefundCount, At
<1>2. writer[r][s].outcome = "none" /\ writer[r][s] \in WriterRecords
  BY <1>1, NotYetKept DEF TypeOK
<1>3. guard'.bytes = guard.bytes
  BY <1>1 DEF TryBumpCount, RefundCount, TypeOK
<1>4. \/ Finish(r, s, "budget_count") \/ Finish(r, s, "budget_bytes")
      \/ Turn(r, s, "charging")
  BY DEF TryBumpCount, RefundCount
<1>5. PICK task : Becomes(r, s, task) /\ task.outcome # "kept"
  <2>1. ASSUME NEW outcome \in {"budget_count", "budget_bytes"},
               Finish(r, s, outcome)
        PROVE  \E task : Becomes(r, s, task) /\ task.outcome # "kept"
    BY <1>1, <2>1, Finishing
  <2>2. CASE Turn(r, s, "charging")
    BY <1>1, <1>2, <2>2, Turning DEF WriterPcs
  <2> QED BY <1>4, <2>1, <2>2
<1>6. OnlyTask(r, s) /\ writer'[r][s] = task
  BY <1>1, <1>5 DEF Becomes, OnlyTask, TypeOK
<1> QED BY <1>1, <1>2, <1>3, <1>5, <1>6, TaskKeepsBytes

LEMMA TryBumpBytesExact ==
  ASSUME IInv, BytesInv, NEW r \in Runs, NEW s \in OutputStreams,
         TryBumpBytes(r, s)
  PROVE  BytesInv'
<1> DEFINE total == guard.bytes + writer[r][s].kept
<1>1. s \in Writers /\ TypeOK /\ writer[r][s].pc = "charging"
  BY DEF Writers, IInv, TryBumpBytes, At
<1>2. writer[r][s].outcome = "none" /\ writer[r][s] \in WriterRecords
  BY <1>1, NotYetKept DEF TypeOK
<1>3. \/ Turn(r, s, "refunding") /\ guard' = guard
      \/ Finish(r, s, "kept") /\ guard' = [guard EXCEPT !.bytes = total]
  BY DEF TryBumpBytes
<1>4. CASE Turn(r, s, "refunding") /\ guard' = guard
  <2>1. OnlyTask(r, s) /\ writer'[r][s].outcome # "kept"
    BY <1>1, <1>2, <1>4 DEF Turn, Becomes, OnlyTask, TypeOK, WriterRecords
  <2> QED BY <1>1, <1>2, <1>4, <2>1, TaskKeepsBytes, SameBytesKept
<1>5. CASE Finish(r, s, "kept") /\ guard' = [guard EXCEPT !.bytes = total]
  <2>1. /\ OnlyTask(r, s) /\ writer'[r][s].outcome = "kept"
        /\ writer'[r][s].kept = writer[r][s].kept
    BY <1>1, <1>2, <1>5 DEF Finish, Becomes, OnlyTask, TypeOK, WriterRecords
  <2>2. guard'.bytes = guard.bytes + writer[r][s].kept
    BY <1>1, <1>5 DEF TypeOK
  <2> QED BY <1>1, <1>2, <2>1, <2>2, MoreBytes
<1> QED BY <1>3, <1>4, <1>5

LEMMA WriterBytes ==
  ASSUME IInv, NEW r \in Runs, NEW w \in Writers,
         WriterSeals(r, w) \/ WriterRenames(r, w) \/ WriterFails(r, w)
  PROVE  SameBytes
<1>1. TypeOK /\ guard' = guard /\ writer[r][w].pc \in {"copying", "sealed"}
  BY DEF IInv, WriterSeals, WriterRenames, WriterFails, At
<1>2. writer[r][w] \in WriterRecords /\ (w \in OutputStreams => writer[r][w].outcome = "none")
  BY <1>1, NotYetKept DEF TypeOK
<1>3. CASE WriterSeals(r, w)
  <2>1. PICK task : /\ Becomes(r, w, task)
                    /\ task.outcome = writer[r][w].outcome
    <3> DEFINE kept == Least(Observed(r, w), writer[r][w].limit)
               pc == IF kept \in DOMAIN files THEN AfterWrite(w) ELSE "sealed"
               dropped == Observed(r, w) - kept
               task == [writer[r][w] EXCEPT !.pc = pc, !.kept = kept,
                                            !.dropped = dropped]
    <3>1. Becomes(r, w, task)
      BY <1>3 DEF WriterSeals
    <3> HIDE DEF pc, kept, dropped
    <3>2. task.outcome = writer[r][w].outcome
      BY <1>2 DEF WriterRecords
    <3> QED BY <3>1, <3>2
  <2>2. OnlyTask(r, w) /\ writer'[r][w] = task
    BY <1>1, <2>1 DEF Becomes, OnlyTask, TypeOK
  <2> QED BY <1>1, <1>2, <2>1, <2>2, TaskKeepsBytes
<1>4. CASE WriterRenames(r, w)
  <2>1. OnlyTask(r, w) /\ writer'[r][w].outcome = writer[r][w].outcome
    BY <1>1, <1>2, <1>4 DEF WriterRenames, Turn, Becomes, OnlyTask, TypeOK, WriterRecords
  <2> QED BY <1>1, <1>2, <2>1, TaskKeepsBytes
<1>5. CASE WriterFails(r, w)
  <2>1. OnlyTask(r, w) /\ writer'[r][w].outcome = "io"
    BY <1>1, <1>2, <1>5 DEF WriterFails, Finish, Becomes, OnlyTask, TypeOK, WriterRecords
  <2> QED BY <1>1, <1>2, <2>1, TaskKeepsBytes
<1> QED BY <1>3, <1>4, <1>5

(* The tasks of a run are new when it begins to execute.                   *)
LEMMA ExecuteBytes ==
  ASSUME IInv, NEW r \in Runs, NEW tool \in Tools, NEW spawned \in BOOLEAN,
         Execute(r, tool, spawned)
  PROVE  SameBytes
<1>1. TypeOK /\ guard' = guard /\ writer[r] = [w \in Writers |-> Quiet]
  BY DEF IInv, Execute, Knows, RunKnows
<1>2. \A q \in Runs : q # r => writer'[q] = writer[q]
  BY <1>1 DEF Execute, TypeOK
<1>3. \A s \in OutputStreams : writer[r][s].outcome = "none"
  BY <1>1 DEF Quiet, Writers
<1>4. \A s \in OutputStreams : writer'[r][s].outcome = "none"
  <2>1. CASE writer' = writer
    BY <1>3, <2>1
  <2>2. CASE writer' = [writer EXCEPT ![r] =
                [w \in Writers |->
                   [Quiet EXCEPT !.pc = IF w = "Report" THEN "off" ELSE "deciding"]]]
    BY <1>1, <2>2 DEF TypeOK, Quiet, Writers
  <2> QED BY <2>1, <2>2 DEF Execute
<1> QED BY <1>1, <1>2, <1>3, <1>4 DEF SameBytes

LEMMA JudgeBytes ==
  ASSUME IInv, NEW r \in Runs, Judge(r)
  PROVE  SameBytes
<1>1. TypeOK /\ guard' = guard
  BY DEF IInv, Judge
<1>2. \/ writer' = writer
      \/ Becomes(r, "Report", [Quiet EXCEPT !.pc = "copying", !.limit = ArtifactMax])
  BY DEF Judge
<1>3. CASE writer' = writer
  BY <1>1, <1>3 DEF SameBytes
<1>4. CASE Becomes(r, "Report", [Quiet EXCEPT !.pc = "copying", !.limit = ArtifactMax])
  <2>1. OnlyTask(r, "Report")
    BY <1>1, <1>4 DEF Becomes, OnlyTask, TypeOK
  <2> QED BY <1>1, <2>1, TaskKeepsBytes DEF Writers, OutputStreams
<1> QED BY <1>2, <1>3, <1>4

LEMMA BytesNext ==
  ASSUME IInv, BytesInv, [Next]_vars
  PROVE  BytesInv'
<1>1. ASSUME NEW r \in Runs, TaskStep(r) PROVE BytesInv'
  <2>1. ASSUME NEW s \in OutputStreams,
               SpillDecide(r, s) \/ TryBumpCount(r, s) \/ TryBumpBytes(r, s)
                 \/ RefundCount(r, s)
        PROVE  BytesInv'
    BY <2>1, SpillDecideBytes, CountBytes, TryBumpBytesExact, SameBytesKept
  <2>2. ASSUME NEW w \in Writers, WriterSeals(r, w) \/ WriterRenames(r, w)
        PROVE  BytesInv'
    BY <2>2, WriterBytes, SameBytesKept
  <2>3. CASE Judge(r)
    BY <2>3, JudgeBytes, SameBytesKept
  <2>4. ASSUME \/ \E ok \in BOOLEAN : ChildWaited(r, ok)
               \/ Collect(r) \/ BindReport(r)
        PROVE  BytesInv'
    <3>1. UNCHANGED <<writer, guard>>
      BY <2>4 DEF ChildWaited, Collect, BindReport
    <3> QED BY <3>1, SameBytesKept DEF SameBytes
  <2> QED BY <1>1, <2>1, <2>2, <2>3, <2>4 DEF TaskStep
<1>2. ASSUME NEW r \in Runs, ToolStep(r) \/ TimeStep(r) \/ WaitFails(r)
      PROVE  BytesInv'
  <2>1. UNCHANGED <<writer, guard>>
    BY <1>2 DEF ToolStep, TimeStep, ChildEnds, DescendantEnds, TimesOut, WaitFails
  <2> QED BY <2>1, SameBytesKept DEF SameBytes
<1>3. ASSUME NEW r \in Runs, NEW tool \in Tools, NEW spawned \in BOOLEAN,
             Execute(r, tool, spawned)
      PROVE  BytesInv'
  BY <1>3, ExecuteBytes, SameBytesKept
<1>4. ASSUME NEW r \in Runs, NEW w \in Writers, WriterFails(r, w) PROVE BytesInv'
  BY <1>4, WriterBytes, SameBytesKept
<1>5. CASE Restart
  <2>1. guard'.bytes = 0
    BY <1>5 DEF Restart, IInv, TypeOK
  <2>2. Admitted' = {}
    BY <1>5 DEF Restart, Admitted, Spills, Quiet, Writers
  <2>3. KeptBytes' = {}
    BY <2>2 DEF KeptBytes
  <2> QED BY <2>1, <2>3, FS_EmptySet DEF BytesInv, BytesAreExact
<1>6. CASE UNCHANGED vars
  BY <1>6, SameBytesKept DEF SameBytes, vars
<1> QED BY <1>1, <1>2, <1>3, <1>4, <1>5, <1>6 DEF Next

(* The budget is neither lost nor leaked: next to the count, the bytes the *)
(* guard has charged are those of exactly the artifacts it has admitted.   *)
THEOREM BudgetSound == Spec => []BudgetIsExact
<1>1. IInv /\ BytesInv /\ [Next]_vars => BytesInv'
  BY BytesNext
<1>2. BytesInv => BytesAreExact
  BY DEF BytesInv
<1>3. CountIsExact /\ BytesAreExact => BudgetIsExact
  BY DEF BudgetIsExact
<1> QED BY <1>1, <1>2, <1>3, BytesInit, Invariance, CountSound, PTL DEF Spec

(* Every digest a record or an evidence row names can be read back, whole. *)
THEOREM NamedResolve == Spec => []NamedArtifactsResolve
<1>1. IInv => NamedArtifactsResolve
  <2> SUFFICES ASSUME IInv, NEW r \in Runs
               PROVE  /\ evidence[r].artifact # -1 => Resolves(evidence[r].artifact)
                      /\ \A s \in OutputStreams :
                           writer[r][s].outcome = "kept" => Resolves(writer[r][s].kept)
    BY DEF NamedArtifactsResolve
  <2> QED BY DEF IInv, Stored, Knows, SpillKnows, EvidenceKnows, Resolves
<1> QED BY <1>1, Invariance, PTL

(* What a record says of its streams adds up. *)
THEOREM AccountsSound == Spec => []RecordsAccountForStreams
<1>1. IInv => RecordsAccountForStreams
  <2> SUFFICES ASSUME IInv, NEW r \in Runs, NEW s \in OutputStreams,
                      run[r].pc \in {"answered", "reporting"}, run[r].answer = "record"
               PROVE  \/ /\ writer[r][s].outcome = "kept"
                         /\ writer[r][s].kept + writer[r][s].dropped = child[r].size[s]
                         /\ writer[r][s].dropped > 0 =>
                              writer[r][s].kept = writer[r][s].limit
                      \/ writer[r][s].outcome \in {"io", "budget_count", "budget_bytes"}
    BY DEF RecordsAccountForStreams
  <2>1. writer[r][s] \in WriterRecords /\ child[r].size[s] \in Nat
    BY DEF IInv, TypeOK, Writers, ChildRecords
  <2>2. writer[r][s].outcome # "none"
    BY DEF IInv, Knows, RunKnows, SpillKnows
  <2>3. CASE writer[r][s].outcome = "kept"
    <3>1. Measured(r, s)
      BY <2>3 DEF IInv, Knows, SpillKnows
    <3> QED BY <2>1, <2>3, <3>1 DEF Measured, Least, WriterRecords
  <2>4. CASE writer[r][s].outcome # "kept"
    BY <2>1, <2>2, <2>4 DEF WriterRecords
  <2> QED BY <2>3, <2>4
<1> QED BY <1>1, Invariance, PTL

(* Evidence passes only for a tool that came to its own end in time. *)
THEOREM PassSound == Spec => []PassIsEarned
<1>1. IInv => PassIsEarned
  BY DEF IInv, Knows, EvidenceKnows, PassEarned, PassIsEarned
<1> QED BY <1>1, Invariance, PTL

=============================================================================
