--------------------------- MODULE ToolExecution ---------------------------
(***************************************************************************)
(* From a check that is about to run its tool to the evidence that says    *)
(* how it went: ProcessExecutor spawns the tool, reads its two streams,    *)
(* limits its time and spills the streams to the artifact store under the  *)
(* budget of the job; the runtime then turns the outcome into evidence.    *)
(*                                                                         *)
(* The runs here are of one job, so that they share one budget.  All tools *)
(* print prefixes of one text: a stream is its length, and the digest of   *)
(* what the store keeps is the length too.  Two writers of equal bytes,    *)
(* the case the store has to survive, so come about by themselves.         *)
(***************************************************************************)
EXTENDS Integers, FiniteSets

CONSTANTS
  Runs,          \* runs of checks in flight, of one job
  Tools,         \* the tool registry
  Endings,       \* what a process may leave behind when it ends
  OutputMax,     \* stdout_max_bytes and stderr_max_bytes
  ArtifactMax,   \* max_artifact_bytes of the store
  Budgets,       \* the LimitsConfig a job may have: [count, bytes]
  MaxFaults,     \* bound: system calls that fail
  MaxRestarts    \* bound: restarts of the daemon

(* A ToolDefinitionRecord, with whether check_launchable finds the program *)
(* and how the normalizer takes a report of an infrastructure error: the   *)
(* "strict" ones as unclassifiable, a "lenient" one as a verdict.          *)
ToolDefinitions ==
  [class : {"Check", "WorkspaceInternal", "PrivilegedExternal"},
   input : {"None", "JsonStdin"},
   launchable : BOOLEAN,
   normalizer : {"None", "strict", "lenient"}]

ASSUME RunsAssumption == IsFiniteSet(Runs)
ASSUME ToolsAssumption == Tools \subseteq ToolDefinitions
ASSUME LimitsAssumption ==
  /\ OutputMax \in Nat /\ ArtifactMax \in Nat
  /\ Budgets \subseteq [count : Nat, bytes : Nat]
  /\ MaxFaults \in Nat /\ MaxRestarts \in Nat

OutputStreams == {"Stdout", "Stderr"}

(* What stdout is to the normalizer of the tool: "garbled" does not parse. *)
Reports == {"pass", "fail", "infrastructure_error", "garbled"}

(* The exit code, the report on stdout, and the lengths of the streams. *)
ASSUME EndingsAssumption ==
  Endings \subseteq [code : Int, report : Reports, size : [OutputStreams -> Nat]]

VARIABLES
  run,        \* what execute, and the handler around it, is doing
  child,      \* the process of each run
  writer,     \* the spill tasks, and the writer of the report
  guard,      \* JobArtifactGuard of the job
  staging,    \* temporary files in staging/
  files,      \* the store: what the file at each digest holds
  evidence,   \* the evidence row of each run, NoEvidence before
  faults,     \* how many calls have failed
  restarts    \* how often the daemon was restarted

vars == <<run, child, writer, guard, staging, files, evidence, faults, restarts>>

-----------------------------------------------------------------------------
Writers == OutputStreams \cup {"Report"}

Least(a, b) == IF a < b THEN a ELSE b

(* A killed process has no exit code; the record says -1. *)
Signalled == -1

NoTool == [class |-> "Check", input |-> "None", launchable |-> FALSE,
           normalizer |-> "None"]

NoChild ==
  [alive |-> FALSE, held |-> FALSE, code |-> Signalled, report |-> "garbled",
   size |-> [s \in OutputStreams |-> 0]]

Outcomes == {"Pass", "Fail", "Timeout", "Interrupted", "InfrastructureFailed"}

(* How execute answers: with a record, or an error of one of three kinds.  *)
Answers == {"none", "record", "timed_out", "infrastructure", "other"}

(* pc: the call execute or the handler is at.  An "abandoned" run is one   *)
(* the daemon was stopped in, or whose command ended in an error.          *)
Pcs == {"idle", "waiting", "collecting", "answered", "reporting", "done",
        "abandoned"}

NoEvidence ==
  [status |-> "none", producer |-> "none", truncated |-> FALSE, artifact |-> -1]

(* A writer: limit is what it may keep, kept and dropped what it reports.  *)
Quiet == [pc |-> "off", limit |-> 0, outcome |-> "none", kept |-> 0, dropped |-> 0]

FreshGuard(budget) ==
  [count |-> 0, bytes |-> 0, maxCount |-> budget.count, maxBytes |-> budget.bytes]

Init ==
  /\ run = [r \in Runs |-> [pc |-> "idle", tool |-> NoTool, answer |-> "none"]]
  /\ child = [r \in Runs |-> NoChild]
  /\ writer = [r \in Runs |-> [w \in Writers |-> Quiet]]
  /\ \E budget \in Budgets : guard = FreshGuard(budget)
  /\ staging = {}
  /\ files = [d \in {} |-> 0]
  /\ evidence = [r \in Runs |-> NoEvidence]
  /\ faults = 0
  /\ restarts = 0

-----------------------------------------------------------------------------
(* The executor.                                                           *)

Answer(r, a) ==
  run' = [run EXCEPT ![r].pc = "answered", ![r].answer = a]

(* The tool is known: handle_run_check has looked it up.  Nothing is       *)
(* spawned for a privileged tool, nor when the program cannot be executed. *)
Execute(r, tool, spawned) ==
  /\ run[r].pc = "idle"
  /\ spawned => tool.class # "PrivilegedExternal" /\ tool.launchable
  /\ run' = [run EXCEPT ![r] =
       [pc |-> IF spawned THEN "waiting" ELSE "answered",
        tool |-> tool,
        answer |-> CASE tool.class = "PrivilegedExternal" -> "other"
                     [] spawned -> "none"
                     [] OTHER -> "infrastructure"]]
  /\ IF spawned
     THEN /\ child' = [child EXCEPT ![r].alive = TRUE, ![r].held = TRUE]
          /\ writer' = [writer EXCEPT ![r] =
               [w \in Writers |->
                  [Quiet EXCEPT !.pc = IF w = "Report" THEN "off" ELSE "deciding"]]]
     ELSE UNCHANGED <<child, writer>>
  /\ UNCHANGED <<guard, staging, files, evidence, faults, restarts>>

(* The process ends.  held: a descendant of it still has the pipes open. *)
Ended(code, ending, held) ==
  [alive |-> FALSE, held |-> held, code |-> code, report |-> ending.report,
   size |-> ending.size]

ChildEnds(r, ending, held) ==
  /\ child[r].alive
  /\ child' = [child EXCEPT ![r] = Ended(ending.code, ending, held)]
  /\ UNCHANGED <<run, writer, guard, staging, files, evidence, faults, restarts>>

(* The last descendant that holds the pipes lets go of them. *)
DescendantEnds(r) ==
  /\ ~child[r].alive /\ child[r].held
  /\ child' = [child EXCEPT ![r].held = FALSE]
  /\ UNCHANGED <<run, writer, guard, staging, files, evidence, faults, restarts>>

(* The child is seen to end in time.  The writer of stdin may have failed: *)
(* a child may end without having read its input.                          *)
ChildWaited(r, stdinWritten) ==
  /\ run[r].pc = "waiting" /\ ~child[r].alive
  /\ ~stdinWritten => run[r].tool.input = "JsonStdin"
  /\ IF stdinWritten
     THEN run' = [run EXCEPT ![r].pc = "collecting", ![r].answer = "record"]
     ELSE Answer(r, "infrastructure")
  /\ UNCHANGED <<child, writer, guard, staging, files, evidence, faults, restarts>>

(* Waiting itself fails; what there is of the streams is read first. *)
WaitFails(r) ==
  /\ run[r].pc = "waiting"
  /\ faults < MaxFaults
  /\ run' = [run EXCEPT ![r].pc = "collecting", ![r].answer = "infrastructure"]
  /\ faults' = faults + 1
  /\ UNCHANGED <<child, writer, guard, staging, files, evidence, restarts>>

TimesOut_KillsNobody(r, ending, held) ==
  /\ run[r].pc = "waiting"
  /\ run' = [run EXCEPT ![r].pc = "collecting", ![r].answer = "timed_out"]
  /\ UNCHANGED <<child, writer, guard, staging, files, evidence, faults, restarts>>

(* The time is over before the end of the child is seen, also if it has    *)
(* ended just now.  The child is killed and reaped, its descendants not.   *)
TimesOut(r, ending, held) ==
  /\ run[r].pc = "waiting"
  /\ run' = [run EXCEPT ![r].pc = "collecting", ![r].answer = "timed_out"]
  /\ child' = IF child[r].alive
              THEN [child EXCEPT ![r] = Ended(Signalled, ending, held)]
              ELSE child
  /\ UNCHANGED <<writer, guard, staging, files, evidence, faults, restarts>>

(* Both streams are read to their end: every holder has closed them. *)
AtEof(r) == ~child[r].alive /\ ~child[r].held

Collect_Unawaited(r) ==
  /\ run[r].pc = "collecting" /\ AtEof(r)
  /\ Answer(r, run[r].answer)
  /\ UNCHANGED <<child, writer, guard, staging, files, evidence, faults, restarts>>

(* The readers and the writers are joined before execute answers. *)
Collect(r) ==
  /\ run[r].pc = "collecting" /\ AtEof(r)
  /\ \A s \in OutputStreams : writer[r][s].pc = "finished"
  /\ Answer(r, run[r].answer)
  /\ UNCHANGED <<child, writer, guard, staging, files, evidence, faults, restarts>>

(* bounded_read: the copy of stdout in the record, and whether a stream is *)
(* longer than its copy.                                                   *)
KeptOfStdout(r) == Least(child[r].size["Stdout"], OutputMax)
Truncated(r) == \E s \in OutputStreams : child[r].size[s] > OutputMax

-----------------------------------------------------------------------------
(* The writers: a spill task for each stream, and put_bytes of the report. *)

Becomes(r, w, task) == writer' = [writer EXCEPT ![r][w] = task]

Finish(r, w, outcome) ==
  Becomes(r, w, [writer[r][w] EXCEPT !.pc = "finished", !.outcome = outcome])

Turn(r, w, pc) == Becomes(r, w, [writer[r][w] EXCEPT !.pc = pc])

At(r, w, pc) == writer[r][w].pc = pc

(* spill_guarded decides what the stream may keep before it reads it, and  *)
(* opens the temporary file.                                               *)
SpillDecide(r, s) ==
  LET limit == Least(guard.maxBytes - guard.bytes, ArtifactMax)
  IN  /\ At(r, s, "deciding")
      /\ CASE guard.count >= guard.maxCount ->
                Finish(r, s, "budget_count") /\ UNCHANGED staging
           [] guard.count < guard.maxCount /\ limit = 0 ->
                Finish(r, s, "budget_bytes") /\ UNCHANGED staging
           [] OTHER ->
                /\ Becomes(r, s, [writer[r][s] EXCEPT !.pc = "copying",
                                                      !.limit = limit])
                /\ staging' = staging \cup {<<r, s>>}
      /\ UNCHANGED <<run, child, guard, files, evidence, faults, restarts>>

(* What is there to write, and whether all of it has been seen.  A report  *)
(* is in memory, and no longer than the store allows (ReportOpen).         *)
Observed(r, w) == IF w = "Report" THEN KeptOfStdout(r) ELSE child[r].size[w]
SeenWhole(r, w) == w = "Report" \/ AtEof(r)

AfterWrite(w) == IF w = "Report" THEN "finished" ELSE "counting"

(* write_common: the file is complete and named by its digest.  If there   *)
(* is one of that digest, the temporary file goes.                         *)
WriterSeals(r, w) ==
  LET kept == Least(Observed(r, w), writer[r][w].limit)
      known == kept \in DOMAIN files
  IN  /\ At(r, w, "copying") /\ SeenWhole(r, w)
      /\ Becomes(r, w, [writer[r][w] EXCEPT
           !.pc = IF known THEN AfterWrite(w) ELSE "sealed",
           !.kept = kept, !.dropped = Observed(r, w) - kept])
      /\ staging' = IF known THEN staging \ {<<r, w>>} ELSE staging
      /\ UNCHANGED <<run, child, guard, files, evidence, faults, restarts>>

WriterRenames_NamesTheStream(r, w) ==
  /\ At(r, w, "sealed")
  /\ files' = [d \in DOMAIN files \cup {Observed(r, w)} |->
                 IF d = Observed(r, w) THEN writer[r][w].kept ELSE files[d]]
  /\ staging' = staging \ {<<r, w>>}
  /\ Turn(r, w, AfterWrite(w))
  /\ UNCHANGED <<run, child, guard, evidence, faults, restarts>>

(* The rename, over a file of the same digest if there is one by now. *)
WriterRenames(r, w) ==
  /\ At(r, w, "sealed")
  /\ files' = [d \in DOMAIN files \cup {writer[r][w].kept} |->
                 IF d = writer[r][w].kept THEN d ELSE files[d]]
  /\ staging' = staging \ {<<r, w>>}
  /\ Turn(r, w, AfterWrite(w))
  /\ UNCHANGED <<run, child, guard, evidence, faults, restarts>>

(* A write fails.  The temporary file stays until the store is next opened.*)
WriterFails(r, w) ==
  /\ writer[r][w].pc \in {"copying", "sealed"}
  /\ faults < MaxFaults
  /\ Finish(r, w, "io")
  /\ faults' = faults + 1
  /\ UNCHANGED <<run, child, guard, staging, files, evidence, restarts>>

TryBumpCount_OneMore(r, s) ==
  /\ At(r, s, "counting")
  /\ IF guard.count > guard.maxCount
     THEN Finish(r, s, "budget_count") /\ UNCHANGED guard
     ELSE /\ guard' = [guard EXCEPT !.count = @ + 1]
          /\ Turn(r, s, "charging")
  /\ UNCHANGED <<run, child, staging, files, evidence, faults, restarts>>

(* try_record: first the count, ... *)
TryBumpCount(r, s) ==
  /\ At(r, s, "counting")
  /\ IF guard.count >= guard.maxCount
     THEN Finish(r, s, "budget_count") /\ UNCHANGED guard
     ELSE /\ guard' = [guard EXCEPT !.count = @ + 1]
          /\ Turn(r, s, "charging")
  /\ UNCHANGED <<run, child, staging, files, evidence, faults, restarts>>

TryBumpBytes_KeepsTheCount(r, s) ==
  LET total == guard.bytes + writer[r][s].kept
  IN  /\ At(r, s, "charging")
      /\ IF total > guard.maxBytes
         THEN Finish(r, s, "budget_bytes") /\ UNCHANGED guard
         ELSE Finish(r, s, "kept") /\ guard' = [guard EXCEPT !.bytes = total]
      /\ UNCHANGED <<run, child, staging, files, evidence, faults, restarts>>

(* ... then the bytes; if they do not fit, the count is to be taken back. *)
TryBumpBytes(r, s) ==
  LET total == guard.bytes + writer[r][s].kept
  IN  /\ At(r, s, "charging")
      /\ IF total > guard.maxBytes
         THEN /\ Turn(r, s, "refunding")
              /\ UNCHANGED guard
         ELSE Finish(r, s, "kept") /\ guard' = [guard EXCEPT !.bytes = total]
      /\ UNCHANGED <<run, child, staging, files, evidence, faults, restarts>>

RefundCount(r, s) ==
  /\ At(r, s, "refunding")
  /\ guard' = [guard EXCEPT !.count = @ - 1]
  /\ Finish(r, s, "budget_bytes")
  /\ UNCHANGED <<run, child, staging, files, evidence, faults, restarts>>

-----------------------------------------------------------------------------
(* The handler: handle_run_check after execute.                            *)

outcome_from_record(code) ==
  CASE code = 0 -> "Pass"
    [] code = 127 -> "InfrastructureFailed"
    [] code = 130 -> "Interrupted"
    [] OTHER -> "Fail"

(* A report that was cut short does not parse. *)
ParsedReport(r) ==
  IF child[r].size["Stdout"] > OutputMax THEN "garbled" ELSE child[r].report

(* ResultNormalizer::normalize, "error" for a NormalizationError. *)
normalize(r) ==
  LET report == ParsedReport(r)
  IN  CASE report = "pass" -> "Pass"
        [] report = "fail" -> "Fail"
        [] report = "infrastructure_error"
             /\ run[r].tool.normalizer = "lenient" -> "InfrastructureError"
        [] OTHER -> "error"

Consulted_Always(r) == run[r].tool.normalizer # "None"

(* The normalizer is not asked about a run the executor ended in an error. *)
Consulted(r) == run[r].answer = "record" /\ run[r].tool.normalizer # "None"

NormalizedOutcome(status) ==
  CASE status = "Pass" -> "Pass"
    [] status = "InfrastructureError" -> "InfrastructureFailed"
    [] OTHER -> "Fail"

OutcomeOf(r) ==
  CASE Consulted(r) -> NormalizedOutcome(normalize(r))
    [] ~Consulted(r) /\ run[r].answer = "timed_out" -> "Timeout"
    [] ~Consulted(r) /\ run[r].answer = "infrastructure" -> "InfrastructureFailed"
    [] OTHER -> outcome_from_record(child[r].code)

outcome_status(outcome) ==
  CASE outcome = "Pass" -> "Pass"
    [] outcome = "InfrastructureFailed" -> "InfrastructureError"
    [] OTHER -> "Fail"

ProducerOf(r) ==
  CASE run[r].answer # "record" -> "#executor-error"
    [] run[r].answer = "record" /\ Consulted(r) /\ normalize(r) = "error" ->
         "#normalizer-error"
    [] OTHER -> "tool"

PutEvidence(r, artifact) ==
  /\ evidence' = [evidence EXCEPT ![r] =
       [status |-> outcome_status(OutcomeOf(r)), producer |-> ProducerOf(r),
        truncated |-> run[r].answer = "record" /\ Truncated(r),
        artifact |-> artifact]]
  /\ run' = [run EXCEPT ![r].pc = "done"]

Accepted(r) == Consulted(r) /\ normalize(r) # "error"

(* An error of another kind ends the command without a verdict; a report   *)
(* that was accepted is stored before the evidence that names it.          *)
Judge(r) ==
  /\ run[r].pc = "answered"
  /\ CASE run[r].answer = "other" ->
            /\ run' = [run EXCEPT ![r].pc = "abandoned"]
            /\ UNCHANGED <<writer, staging, evidence>>
       [] run[r].answer # "other" /\ Accepted(r) /\ KeptOfStdout(r) > ArtifactMax ->
            /\ run' = [run EXCEPT ![r].pc = "abandoned"]
            /\ UNCHANGED <<writer, staging, evidence>>
       [] run[r].answer # "other" /\ Accepted(r) /\ KeptOfStdout(r) <= ArtifactMax ->
            /\ run' = [run EXCEPT ![r].pc = "reporting"]
            /\ Becomes(r, "Report",
                       [Quiet EXCEPT !.pc = "copying", !.limit = ArtifactMax])
            /\ staging' = staging \cup {<<r, "Report">>}
            /\ UNCHANGED evidence
       [] OTHER ->
            /\ PutEvidence(r, NoEvidence.artifact)
            /\ UNCHANGED <<writer, staging>>
  /\ UNCHANGED <<child, guard, files, faults, restarts>>

(* A report that could not be stored ends the command in an error. *)
BindReport(r) ==
  /\ run[r].pc = "reporting" /\ At(r, "Report", "finished")
  /\ IF writer[r]["Report"].outcome = "io"
     THEN run' = [run EXCEPT ![r].pc = "abandoned"] /\ UNCHANGED evidence
     ELSE PutEvidence(r, writer[r]["Report"].kept)
  /\ UNCHANGED <<child, writer, guard, staging, files, faults, restarts>>

(* The daemon is stopped and started: the tasks are gone, the guards are   *)
(* made anew, and opening the store sweeps staging/.                       *)
Restart ==
  /\ restarts < MaxRestarts
  /\ restarts' = restarts + 1
  /\ run' = [r \in Runs |->
       IF run[r].pc \in {"idle", "done"} THEN run[r]
       ELSE [run[r] EXCEPT !.pc = "abandoned"]]
  /\ child' = [r \in Runs |-> [child[r] EXCEPT !.alive = FALSE, !.held = FALSE]]
  /\ writer' = [r \in Runs |-> [w \in Writers |-> Quiet]]
  /\ guard' = [guard EXCEPT !.count = 0, !.bytes = 0]
  /\ staging' = {}
  /\ UNCHANGED <<files, evidence, faults>>

-----------------------------------------------------------------------------
TaskStep(r) ==
  \/ \E ok \in BOOLEAN : ChildWaited(r, ok)
  \/ Collect(r)
  \/ \E s \in OutputStreams :
       SpillDecide(r, s) \/ TryBumpCount(r, s) \/ TryBumpBytes(r, s)
         \/ RefundCount(r, s)
  \/ \E w \in Writers : WriterSeals(r, w) \/ WriterRenames(r, w)
  \/ Judge(r)
  \/ BindReport(r)

TimeStep(r) == \E ending \in Endings, held \in BOOLEAN : TimesOut(r, ending, held)

ToolStep(r) ==
  \/ \E ending \in Endings, held \in BOOLEAN : ChildEnds(r, ending, held)
  \/ DescendantEnds(r)

Next ==
  \/ \E r \in Runs :
       \/ \E tool \in Tools, spawned \in BOOLEAN : Execute(r, tool, spawned)
       \/ ToolStep(r) \/ TimeStep(r) \/ TaskStep(r)
       \/ WaitFails(r)
       \/ \E w \in Writers : WriterFails(r, w)
  \/ Restart

Spec == Init /\ [][Next]_vars

(* tokio runs every task that can run and fires every timer; a tool that   *)
(* takes too long is cut short, but nobody makes its descendants end.      *)
TasksFair ==
  \A r \in Runs : WF_vars(TaskStep(r)) /\ WF_vars(TimeStep(r))
FairSpec == Spec /\ TasksFair
KindSpec == FairSpec /\ \A r \in Runs : WF_vars(DescendantEnds(r))

-----------------------------------------------------------------------------
(* Properties.                                                             *)

RunRecords == [pc : Pcs, tool : Tools \cup {NoTool}, answer : Answers]

ChildRecords ==
  [alive : BOOLEAN, held : BOOLEAN, code : Int, report : Reports,
   size : [OutputStreams -> Nat]]

WriterPcs == {"off", "deciding", "copying", "sealed", "counting", "charging",
              "refunding", "finished"}

WriterRecords ==
  [pc : WriterPcs, limit : Nat,
   outcome : {"none", "kept", "io", "budget_count", "budget_bytes"},
   kept : Nat, dropped : Nat]

EvidenceRows ==
  [status : {"Pass", "Fail", "InfrastructureError"},
   producer : {"tool", "#executor-error", "#normalizer-error"},
   truncated : BOOLEAN, artifact : Nat \cup {-1}]

(* The types of the state. *)
TypeOK ==
  /\ run \in [Runs -> RunRecords]
  /\ child \in [Runs -> ChildRecords]
  /\ writer \in [Runs -> [Writers -> WriterRecords]]
  /\ guard \in [count : Nat, bytes : Nat, maxCount : Nat, maxBytes : Nat]
  /\ guard.count <= guard.maxCount /\ guard.bytes <= guard.maxBytes
  /\ staging \in SUBSET (Runs \X Writers)
  /\ DOMAIN files \subseteq Nat /\ \A d \in DOMAIN files : files[d] \in Nat
  /\ evidence \in [Runs -> EvidenceRows \cup {NoEvidence}]
  /\ faults \in 0..MaxFaults /\ restarts \in 0..MaxRestarts

(* The budget of a job is neither lost nor leaked, however the spill tasks *)
(* of its runs interleave in try_record: the guard counts the artifacts it *)
(* has admitted, one more for each task between the two counters, and the  *)
(* bytes of exactly the admitted ones.                                     *)
Spills == Runs \X OutputStreams
Admitted == {x \in Spills : writer[x[1]][x[2]].outcome = "kept"}
Recording == {x \in Spills : writer[x[1]][x[2]].pc \in {"charging", "refunding"}}
CountIsExact == guard.count = Cardinality(Admitted) + Cardinality(Recording)
KeptBytes == UNION {{x} \X (1..writer[x[1]][x[2]].kept) : x \in Admitted}
BytesAreExact == guard.bytes = Cardinality(KeptBytes)
BudgetIsExact == CountIsExact /\ BytesAreExact

(* Every digest a record or an evidence row names can be read back, whole, *)
(* from the moment it is named, also after a restart.                      *)
Resolves(digest) == digest \in DOMAIN files /\ files[digest] = digest
NamedArtifactsResolve ==
  \A r \in Runs :
    /\ evidence[r].artifact # -1 => Resolves(evidence[r].artifact)
    /\ run[r].pc \in {"answered", "reporting"} /\ run[r].answer = "record" =>
         \A s \in OutputStreams :
           writer[r][s].outcome = "kept" => Resolves(writer[r][s].kept)

(* What a record says of its streams adds up: of each, it keeps and drops  *)
(* what the tool has printed, or it names the reason why it kept nothing.  *)
RecordsAccountForStreams ==
  \A r \in Runs :
    run[r].pc \in {"answered", "reporting"} /\ run[r].answer = "record" =>
      \A s \in OutputStreams :
        LET spill == writer[r][s]
        IN  \/ /\ spill.outcome = "kept"
               /\ spill.kept + spill.dropped = child[r].size[s]
               /\ spill.dropped > 0 => spill.kept = spill.limit
            \/ spill.outcome \in {"io", "budget_count", "budget_bytes"}

(* Evidence passes only for a tool that came to its own end in time, and   *)
(* only on its exit code or on the whole of a report that says so.         *)
PassIsEarned ==
  \A r \in Runs :
    evidence[r].status = "Pass" =>
      /\ run[r].answer = "record"
      /\ IF run[r].tool.normalizer = "None"
         THEN child[r].code = 0
         ELSE /\ child[r].report = "pass"
              /\ child[r].size["Stdout"] <= OutputMax
              /\ evidence[r].artifact = child[r].size["Stdout"]

(* Every run that was started is answered with evidence or an error, if no *)
(* descendant of a tool keeps the pipes open for ever; unless a call has   *)
(* failed, for a process that cannot be waited for is not killed either.   *)
EveryRunAnswered ==
  \A r \in Runs :
    run[r].pc # "idle" ~> run[r].pc \in {"done", "abandoned"} \/ faults > 0

=============================================================================
