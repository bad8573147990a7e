------------------------- MODULE DebianTools_proofs -------------------------
(***************************************************************************)
(* Theorems about DebianTools, for any candidate, any source tree and any  *)
(* revisions of it, any answers of the helper and any bounds.  The         *)
(* inductive invariant says that every result is the report of its tool on *)
(* the tree as it is (RunsInv, StoryInv); what is left is about the        *)
(* readers.  The first section needs nothing of what they read.  Then come *)
(* the lemmas about the lists the readers are built from, one section for  *)
(* each file of debian/, the form of each report, and at last what the     *)
(* reports say of each other.                                              *)
(***************************************************************************)
EXTENDS DebianTools, SequenceTheorems, FiniteSetTheorems, WellFoundedInduction, TLAPS

(* What a tool reports of a candidate, and what the daemon makes of it. *)
Prepare == "debian.inspect.source_preparation"
Analyse == "debian.inspect.source_analysis"
Maintain == "debian.inspect.maintenance_context"
Delta == "debian.policy.delta_review"
Bts == "debian.issue.bts_snapshot"

ReportOf(k, w, t, helper) ==
  CASE k = Prepare -> source_preparation(w, t)
    [] k = Analyse -> source_analysis(w, t)
    [] k = Maintain -> maintenance_context(w, t)
    [] k = Delta -> policy_delta(w, t)
    [] k = Bts -> bts_snapshot(helper)

StatusOf(k, delivery, verdict) ==
  IF delivery # "whole" THEN IF k = Bts THEN "Unclassifiable" ELSE "Malformed"
  ELSE IF k = Delta THEN verdict ELSE VerdictStatus(verdict)

RunOf(k, w, t, helper, delivery) ==
  [report |-> ReportOf(k, w, t, helper), delivery |-> delivery,
   status |-> StatusOf(k, delivery, ReportOf(k, w, t, helper).verdict)]

(* Every result is of the tree as it is. *)
RunsInv ==
  /\ DOMAIN result = ToolKeys
  /\ \A k \in ToolKeys :
       \/ result[k] = {}
       \/ \E helper \in HelperRuns, delivery \in Deliveries :
            result[k] = {RunOf(k, workspace, tree, helper, delivery)}

LEMMA MainIs ==
  ASSUME NEW k \in ToolKeys, NEW helper, NEW delivery
  PROVE  LET printed == main(Registered[k].subcommand, HelperOf(k, helper))
         IN  /\ printed.report = ReportOf(k, workspace, tree, helper)
             /\ normalize(Registered[k].normalizer,
                          [printed |-> printed, delivery |-> delivery])
                  = StatusOf(k, delivery, printed.report.verdict)
<1> DEFINE printed == main(Registered[k].subcommand, HelperOf(k, helper))
           output == [printed |-> printed, delivery |-> delivery]
<1>1. CASE k = Prepare
  <2>1. Registered[k] = RegisteredAs("source-preparation", "DebianSourcePreparationNormalizer")
    BY <1>1 DEF Registered, Prepare
  <2>2. printed = Printed("DebianSourcePreparationV1", source_preparation(workspace, tree))
    BY <2>1 DEF RegisteredAs, main
  <2> HIDE DEF printed
  <2>3. normalize(Registered[k].normalizer, output) = DebianSourcePreparationNormalizer(output)
    BY <2>1 DEF RegisteredAs, normalize
  <2>4. printed.type = "DebianSourcePreparationV1"
        /\ printed.report = source_preparation(workspace, tree)
    BY <2>2 DEF Printed
  <2>5. printed.report = ReportOf(k, workspace, tree, helper)
    BY <1>1, <2>4 DEF ReportOf, Prepare, Analyse, Maintain, Delta, Bts
  <2>6. DebianSourcePreparationNormalizer(output) = StatusOf(k, delivery, printed.report.verdict)
    BY <1>1, <2>4 DEF DebianSourcePreparationNormalizer, Parses, StatusOf, Prepare, Delta, Bts
  <2> QED BY <2>3, <2>5, <2>6 DEF printed
<1>2. CASE k = Analyse
  <2>1. Registered[k] = RegisteredAs("source-analysis", "DebianSourceAnalysisNormalizer")
    BY <1>2 DEF Registered, Analyse
  <2>2. printed = Printed("DebianSourceReportV1", source_analysis(workspace, tree))
    BY <2>1 DEF RegisteredAs, main
  <2> HIDE DEF printed
  <2>3. normalize(Registered[k].normalizer, output) = DebianSourceAnalysisNormalizer(output)
    BY <2>1 DEF RegisteredAs, normalize
  <2>4. printed.type = "DebianSourceReportV1"
        /\ printed.report = source_analysis(workspace, tree)
    BY <2>2 DEF Printed
  <2>5. printed.report = ReportOf(k, workspace, tree, helper)
    BY <1>2, <2>4 DEF ReportOf, Prepare, Analyse, Maintain, Delta, Bts
  <2>6. DebianSourceAnalysisNormalizer(output) = StatusOf(k, delivery, printed.report.verdict)
    BY <1>2, <2>4 DEF DebianSourceAnalysisNormalizer, Parses, StatusOf, Analyse, Delta, Bts
  <2> QED BY <2>3, <2>5, <2>6 DEF printed
<1>3. CASE k = Maintain
  <2>1. Registered[k] = RegisteredAs("maintenance-context", "DebianMaintenanceContextNormalizer")
    BY <1>3 DEF Registered, Maintain
  <2>2. printed = Printed("DebianMaintenanceContextV1", maintenance_context(workspace, tree))
    BY <2>1 DEF RegisteredAs, main
  <2> HIDE DEF printed
  <2>3. normalize(Registered[k].normalizer, output) = DebianMaintenanceContextNormalizer(output)
    BY <2>1 DEF RegisteredAs, normalize
  <2>4. printed.type = "DebianMaintenanceContextV1"
        /\ printed.report = maintenance_context(workspace, tree)
    BY <2>2 DEF Printed
  <2>5. printed.report = ReportOf(k, workspace, tree, helper)
    BY <1>3, <2>4 DEF ReportOf, Prepare, Analyse, Maintain, Delta, Bts
  <2>6. DebianMaintenanceContextNormalizer(output) = StatusOf(k, delivery, printed.report.verdict)
    BY <1>3, <2>4 DEF DebianMaintenanceContextNormalizer, Parses, StatusOf, Maintain, Delta, Bts
  <2> QED BY <2>3, <2>5, <2>6 DEF printed
<1>4. CASE k = Delta
  <2>1. Registered[k] = RegisteredAs("policy-delta", "DebianPolicyDeltaReviewNormalizer")
    BY <1>4 DEF Registered, Delta
  <2>2. printed = Printed("DebianPolicyDeltaReviewV1", policy_delta(workspace, tree))
    BY <2>1 DEF RegisteredAs, main
  <2> HIDE DEF printed
  <2>3. normalize(Registered[k].normalizer, output) = DebianPolicyDeltaReviewNormalizer(output)
    BY <2>1 DEF RegisteredAs, normalize
  <2>4. printed.type = "DebianPolicyDeltaReviewV1"
        /\ printed.report = policy_delta(workspace, tree)
    BY <2>2 DEF Printed
  <2>5. printed.report = ReportOf(k, workspace, tree, helper)
    BY <1>4, <2>4 DEF ReportOf, Prepare, Analyse, Maintain, Delta, Bts
  <2>6. DebianPolicyDeltaReviewNormalizer(output) = StatusOf(k, delivery, printed.report.verdict)
    BY <1>4, <2>4 DEF DebianPolicyDeltaReviewNormalizer, Parses, StatusOf, Delta, Bts
  <2> QED BY <2>3, <2>5, <2>6 DEF printed
<1>5. CASE k = Bts
  <2>1. Registered[k] = RegisteredAs("bts-snapshot", "DebianBtsSnapshotNormalizer")
    BY <1>5 DEF Registered, Bts
  <2>2. printed = Printed("DebianIssueReportV1", bts_snapshot(helper))
    BY <1>5, <2>1 DEF RegisteredAs, main, HelperOf, Bts
  <2> HIDE DEF printed
  <2>3. normalize(Registered[k].normalizer, output) = DebianBtsSnapshotNormalizer(output)
    BY <2>1 DEF RegisteredAs, normalize
  <2>4. printed.type = "DebianIssueReportV1" /\ printed.report = bts_snapshot(helper)
    BY <2>2 DEF Printed
  <2>5. printed.report = ReportOf(k, workspace, tree, helper)
    BY <1>5, <2>4 DEF ReportOf, Prepare, Analyse, Maintain, Delta, Bts
  <2>6. DebianBtsSnapshotNormalizer(output) = StatusOf(k, delivery, printed.report.verdict)
    BY <1>5, <2>4 DEF DebianBtsSnapshotNormalizer, Parses, StatusOf, Delta, Bts
  <2> QED BY <2>3, <2>5, <2>6 DEF printed
<1> QED BY <1>1, <1>2, <1>3, <1>4, <1>5 DEF ToolKeys, Prepare, Analyse, Maintain, Delta, Bts

LEMMA RunsInit == Init => RunsInv
BY DEF Init, RunsInv

LEMMA RunsNext == RunsInv /\ [Next]_vars => RunsInv'
<1> SUFFICES ASSUME RunsInv, [Next]_vars PROVE RunsInv'
  OBVIOUS
<1>1. CASE UNCHANGED vars
  BY <1>1 DEF vars, RunsInv
<1>2. ASSUME NEW t, Revise(t) PROVE RunsInv'
  BY <1>2 DEF Revise, RunsInv
<1>3. ASSUME NEW k \in ToolKeys, NEW helper \in HelperRuns, NEW delivery \in Deliveries,
             Inspect(k, helper, delivery)
      PROVE  RunsInv'
  <2> DEFINE printed == main(Registered[k].subcommand, HelperOf(k, helper))
             status == normalize(Registered[k].normalizer,
                                 [printed |-> printed, delivery |-> delivery])
             run == RunOf(k, workspace, tree, helper, delivery)
  <2>1. UNCHANGED <<tree, workspace>>
    BY <1>3 DEF Inspect
  <2>2. result' = [result EXCEPT ![k] =
          {[report |-> printed.report, delivery |-> delivery, status |-> status]}]
    BY <1>3 DEF Inspect
  <2>3. printed.report = ReportOf(k, workspace, tree, helper)
        /\ status = StatusOf(k, delivery, printed.report.verdict)
    BY MainIs
  <2> HIDE DEF printed, status
  <2>4. run = [report |-> printed.report, delivery |-> delivery, status |-> status]
    BY <2>3 DEF RunOf
  <2> HIDE DEF run
  <2>5. result' = [result EXCEPT ![k] = {run}]
    BY <2>2, <2>4
  <2>6. DOMAIN result' = ToolKeys
    BY <2>5 DEF RunsInv
  <2>7. ASSUME NEW j \in ToolKeys
        PROVE  \/ result'[j] = {}
               \/ \E h \in HelperRuns, d \in Deliveries :
                    result'[j] = {RunOf(j, workspace, tree, h, d)}
    <3>1. CASE j = k
      BY <2>5, <3>1 DEF RunsInv, run
    <3>2. CASE j # k
      <4>1. result'[j] = result[j]
        BY <2>5, <3>2 DEF RunsInv
      <4> QED BY <4>1 DEF RunsInv
    <3> QED BY <3>1, <3>2
  <2> QED BY <2>1, <2>6, <2>7 DEF RunsInv
<1> QED BY <1>1, <1>2, <1>3 DEF Next

-----------------------------------------------------------------------------
(* What passes. *)

LEMMA NoneOrOne ==
  /\ \A t, p : Deb822(t, p) = {} \/ \E x : Deb822(t, p) = {x}
  /\ \A line : parse_changelog_header(line) = {} \/ \E x : parse_changelog_header(line) = {x}
  /\ \A lines : \/ parse_changelog_first_entry(lines) = {}
                \/ \E x : parse_changelog_first_entry(lines) = {x}
<1>1. \A t, p : Deb822(t, p) = {} \/ \E x : Deb822(t, p) = {x}
  BY DEF Deb822
<1>2. \A line : parse_changelog_header(line) = {} \/ \E x : parse_changelog_header(line) = {x}
  BY Zenon DEF parse_changelog_header
<1>3. \A lines : \/ parse_changelog_first_entry(lines) = {}
                 \/ \E x : parse_changelog_first_entry(lines) = {x}
  BY <1>2, Zenon DEF parse_changelog_first_entry
<1> QED BY <1>1, <1>2, <1>3

LEMMA PreparationSees ==
  ASSUME NEW w, NEW t, source_preparation(w, t).verdict = "Pass"
  PROVE  w = "dir" /\ t.debian /\ source_preparation(w, t).diagnostics = << >>
<1> DEFINE source == prep_read_control(t)
           entry == prep_read_changelog(t)
           format == prep_read_source_format(t)
           findings == IF w = "dir" /\ t.debian
                       THEN FindingsOf(t, source, entry, format) ELSE NoFindings
<1>1. w = "dir" /\ PreparationVerdict(findings) = "Pass"
  BY DEF source_preparation
<1>2. t.debian /\ PreparationVerdict(FindingsOf(t, source, entry, format)) = "Pass"
  BY <1>1 DEF NoFindings, PreparationVerdict
<1>3. /\ source = {Candidate.name} /\ format # {} /\ entry # {}
      /\ \E e \in entry : e.source = Candidate.name
      /\ \E e \in entry : e.version = Candidate.version
  <2> HIDE DEF source, entry, format
  <2> QED BY <1>2 DEF FindingsOf, PreparationVerdict
<1>4. \E x : entry = {x}
  BY <1>3, NoneOrOne DEF prep_read_changelog
<1>5. ControlDiagnostics(source) = << >>
  <2> HIDE DEF source
  <2> QED BY <1>3 DEF ControlDiagnostics, When
<1>6. ChangelogDiagnostics(entry) = << >>
  <2> HIDE DEF entry
  <2> QED BY <1>3, <1>4 DEF ChangelogDiagnostics, When
<1>7. source_preparation(w, t).diagnostics =
        ControlDiagnostics(source) \o ChangelogDiagnostics(entry)
          \o When(format = {}, "E_FORMAT_UNREADABLE")
  BY <1>1, <1>2 DEF source_preparation
<1>8. When(format = {}, "E_FORMAT_UNREADABLE") = << >>
  <2> HIDE DEF format
  <2> QED BY <1>3 DEF When
<1> HIDE DEF source, entry, format
<1> QED BY <1>1, <1>2, <1>5, <1>6, <1>7, <1>8

LEMMA AnalysisSees ==
  ASSUME NEW w, NEW t, source_analysis(w, t).verdict = "Pass"
  PROVE  w = "dir" /\ t.debian /\ source_analysis(w, t).diagnostics = << >>
<1>1. w = "dir" /\ t.debian /\ source_analysis(w, t) = AnalysisOf(t)
  BY DEF source_analysis, EmptyAnalysis
<1>2. AnalysisOf(t).verdict = "Pass" => AnalysisOf(t).diagnostics = << >>
  BY DEF AnalysisOf
<1> QED BY <1>1, <1>2

LEMMA MaintenanceSees ==
  ASSUME NEW w, NEW t, maintenance_context(w, t).verdict = "Pass"
  PROVE  w = "dir" /\ t.debian /\ maintenance_context(w, t).diagnostics = << >>
<1> DEFINE d == read_patches(t).diagnostics
<1>1. w = "dir" /\ t.debian /\ maintenance_context(w, t) = MaintenanceOf(t)
  BY DEF maintenance_context, EmptyMaintenance
<1>2. MaintenanceOf(t).diagnostics = d /\ ~Has(d, "E_PATCH_FILE_MISSING")
  BY <1>1 DEF MaintenanceOf
<1>3. \E D : d = [i \in D |-> "E_PATCH_FILE_MISSING"]
  BY DEF read_patches
<1> HIDE DEF d
<1>4. d = << >>
  BY <1>2, <1>3 DEF Has
<1> QED BY <1>1, <1>2, <1>4

LEMMA DeltaSees ==
  ASSUME NEW w, NEW t, policy_delta(w, t).verdict = "Pass"
  PROVE  w = "dir" /\ t.debian /\ policy_delta(w, t).diagnostics = << >>
<1> DEFINE version == IF w = "dir" THEN read_standards_version(t) ELSE {}
           delta == compare_standards_version(version)
<1>1. w = "dir" /\ delta # "AboveBaseline" /\ delta # "MissingCandidate"
  <2> HIDE DEF delta
  <2> QED BY DEF policy_delta, delta
<1>2. policy_delta(w, t).diagnostics = << >>
  <2>1. policy_delta(w, t).diagnostics =
          WorkspaceDiagnostics(w) \o When(delta = "AboveBaseline", "E_POLICY_BASELINE_STALE")
            \o When(w = "dir" /\ delta = "MissingCandidate", "E_STANDARDS_VERSION_MISSING")
    BY DEF policy_delta
  <2> HIDE DEF delta
  <2> QED BY <1>1, <2>1 DEF WorkspaceDiagnostics, When
<1>3. read_standards_version(t) # {}
  BY <1>1 DEF compare_standards_version
<1>4. Deb822(t, "control") # {}
  BY <1>3 DEF read_standards_version
<1>5. t.debian
  BY <1>4 DEF Deb822, Readable, is_file
<1> QED BY <1>1, <1>2, <1>5

(* A tool passes no candidate it could not look at: whatever the package,  *)
(* its trees and the helper of the bug tracker, a status of Pass is of a   *)
(* whole report, of a debian directory and without a diagnostic.           *)
THEOREM NothingUnseen == Spec => []NothingPassesUnseen
<1>1. RunsInv => NothingPassesUnseen
  <2> SUFFICES ASSUME RunsInv, NEW k \in ToolKeys, NEW r \in result[k], r.status = "Pass"
               PROVE  /\ r.delivery = "whole" /\ r.report.verdict = "Pass"
                      /\ k # Bts =>
                           workspace = "dir" /\ tree.debian /\ r.report.diagnostics = << >>
    BY DEF NothingPassesUnseen, Bts
  <2>1. PICK helper, delivery : r = RunOf(k, workspace, tree, helper, delivery)
    BY DEF RunsInv
  <2> DEFINE report == ReportOf(k, workspace, tree, helper)
  <2>2. /\ r.report = report /\ r.delivery = delivery
        /\ StatusOf(k, delivery, report.verdict) = "Pass"
    BY <2>1 DEF RunOf
  <2>3. delivery = "whole" /\ report.verdict = "Pass"
    <3> HIDE DEF report
    <3> QED BY <2>2 DEF StatusOf, VerdictStatus
  <2>4. ASSUME k # Bts PROVE workspace = "dir" /\ tree.debian /\ report.diagnostics = << >>
    <3>1. CASE k = Prepare
      <4>1. report = source_preparation(workspace, tree)
        BY <3>1 DEF ReportOf, Prepare, Analyse, Maintain, Delta, Bts
      <4> HIDE DEF report
      <4> QED BY <2>3, <4>1, PreparationSees
    <3>2. CASE k = Analyse
      <4>1. report = source_analysis(workspace, tree)
        BY <3>2 DEF ReportOf, Prepare, Analyse, Maintain, Delta, Bts
      <4> HIDE DEF report
      <4> QED BY <2>3, <4>1, AnalysisSees
    <3>3. CASE k = Maintain
      <4>1. report = maintenance_context(workspace, tree)
        BY <3>3 DEF ReportOf, Prepare, Analyse, Maintain, Delta, Bts
      <4> HIDE DEF report
      <4> QED BY <2>3, <4>1, MaintenanceSees
    <3>4. CASE k = Delta
      <4>1. report = policy_delta(workspace, tree)
        BY <3>4 DEF ReportOf, Prepare, Analyse, Maintain, Delta, Bts
      <4> HIDE DEF report
      <4> QED BY <2>3, <4>1, DeltaSees
    <3> QED BY <2>4, <3>1, <3>2, <3>3, <3>4
            DEF ToolKeys, Prepare, Analyse, Maintain, Delta, Bts
  <2> HIDE DEF report
  <2> QED BY <2>2, <2>3, <2>4
<1> QED BY <1>1, RunsInit, RunsNext, PTL DEF Spec

-----------------------------------------------------------------------------
(* Sequences.                                                              *)

(* A set of numbers that is not empty has a least one. *)
LEMMA Least ==
  ASSUME NEW T \in SUBSET Nat, T # {}
  PROVE  \E x \in T : \A y \in T : x <= y
<1> DEFINE R == OpToRel(<, Nat)
<1>1. IsWellFoundedOn(R, Nat)
  BY NatLessThanWellFounded
<1>2. PICK x \in T : \A y \in T : <<y, x>> \notin R
  <2> HIDE DEF R
  <2> QED BY <1>1, WFMin
<1>3. \A y \in T : ~(y < x)
  BY <1>2 DEF OpToRel
<1>4. \A y \in T : x <= y
  <2> SUFFICES ASSUME NEW y \in T PROVE x <= y
    OBVIOUS
  <2>1. x \in Nat /\ y \in Nat /\ ~(y < x)
    BY <1>3
  <2> QED BY <2>1
<1> QED BY <1>4

(* What Only has kept of the first entries of s. *)
Kept(before, s, S, n) == IF s[n] \in S THEN Append(before, s[n]) ELSE before

Keeps(kept, s, S, n) ==
  /\ kept = [i \in 0..n |-> kept[i]]
  /\ kept[0] = << >>
  /\ \A i \in 1..n : kept[i] = Kept(kept[i - 1], s, S, i)

LEMMA SomeKept ==
  ASSUME NEW s, NEW S, NEW n \in Nat
  PROVE  \E kept : Keeps(kept, s, S, n)
<1> DEFINE Bad == {k \in Nat : ~\E kept : Keeps(kept, s, S, k)}
<1> SUFFICES ASSUME Bad # {} PROVE FALSE
  OBVIOUS
<1>1. Bad \in SUBSET Nat
  OBVIOUS
<1>2. PICK k \in Bad : \A y \in Bad : k <= y
  <2> HIDE DEF Bad
  <2> QED BY <1>1, Least
<1>3. k \in Nat
  OBVIOUS
<1>4. k # 0
  <2> DEFINE g == [i \in 0..0 |-> << >>]
  <2>1. Keeps(g, s, S, 0)
    BY DEF Keeps
  <2> QED BY <2>1
<1>5. k - 1 \in Nat /\ k - 1 \notin Bad
  BY <1>2, <1>3, <1>4
<1>6. PICK kept : Keeps(kept, s, S, k - 1)
  BY <1>5
<1> DEFINE g == [i \in 0..k |-> IF i = k THEN Kept(kept[k - 1], s, S, k) ELSE kept[i]]
<1>7. g = [i \in 0..k |-> g[i]] /\ g[0] = << >>
  BY <1>3, <1>4, <1>6 DEF Keeps
<1>8. \A i \in 1..k : g[i] = Kept(g[i - 1], s, S, i)
  <2> SUFFICES ASSUME NEW i \in 1..k PROVE g[i] = Kept(g[i - 1], s, S, i)
    OBVIOUS
  <2>1. i - 1 \in 0..(k - 1) /\ g[i - 1] = kept[i - 1]
    BY <1>3
  <2>2. CASE i = k
    BY <1>3, <2>1, <2>2
  <2>3. CASE i # k
    <3>1. i \in 1..(k - 1) /\ g[i] = kept[i]
      BY <1>3, <2>3
    <3> HIDE DEF g
    <3> QED BY <1>6, <2>1, <3>1 DEF Keeps
  <2> QED BY <2>2, <2>3
<1>9. Keeps(g, s, S, k)
  <2> HIDE DEF g
  <2> QED BY <1>7, <1>8 DEF Keeps
<1> HIDE DEF g
<1> QED BY <1>9

LEMMA OnlyKeeps ==
  ASSUME NEW T, NEW s \in Seq(T), NEW S
  PROVE  \E kept : Keeps(kept, s, S, Len(s)) /\ Only(s, S) = kept[Len(s)]
<1> DEFINE L == Len(s)
           Made(kept) == [n \in 0..L |-> IF n = 0 THEN << >>
                           ELSE IF s[n] \in S THEN Append(kept[n - 1], s[n])
                           ELSE kept[n - 1]]
<1>1. L \in Nat
  OBVIOUS
<1>2. Only(s, S) = (CHOOSE kept : kept = Made(kept))[L]
  BY DEF Only
<1>3. PICK g : Keeps(g, s, S, L)
  <2> HIDE DEF L
  <2> QED BY <1>1, SomeKept
<1>4. g = Made(g)
  <2>1. \A i \in 0..L : g[i] = IF i = 0 THEN << >>
                               ELSE IF s[i] \in S THEN Append(g[i - 1], s[i]) ELSE g[i - 1]
    <3> HIDE DEF L
    <3> SUFFICES ASSUME NEW i \in 0..L
                 PROVE  g[i] = IF i = 0 THEN << >>
                               ELSE IF s[i] \in S THEN Append(g[i - 1], s[i]) ELSE g[i - 1]
      OBVIOUS
    <3>1. CASE i = 0
      BY <1>3, <3>1 DEF Keeps
    <3>2. CASE i # 0
      <4>1. i \in 1..L
        BY <1>1, <3>2
      <4>2. g[i] = Kept(g[i - 1], s, S, i)
        BY <1>3, <4>1 DEF Keeps
      <4> QED BY <3>2, <4>2 DEF Kept
    <3> QED BY <3>1, <3>2
  <2>2. g = [i \in 0..L |-> g[i]]
    BY <1>3 DEF Keeps
  <2> HIDE DEF L
  <2> QED BY <2>1, <2>2
<1> DEFINE kept == CHOOSE h : h = Made(h)
<1> HIDE DEF Made
<1>5. kept = Made(kept)
  BY <1>4
<1>6. kept = [n \in 0..L |-> IF n = 0 THEN << >>
                ELSE IF s[n] \in S THEN Append(kept[n - 1], s[n]) ELSE kept[n - 1]]
  <2> HIDE DEF kept
  <2> QED BY <1>5 DEF Made
<1> HIDE DEF kept, L
<1>7. Keeps(kept, s, S, L)
  <2>1. kept = [i \in 0..L |-> kept[i]]
    BY <1>6
  <2>2. kept[0] = << >>
    BY <1>1, <1>6
  <2>3. \A i \in 1..L : kept[i] = Kept(kept[i - 1], s, S, i)
    <3> SUFFICES ASSUME NEW i \in 1..L PROVE kept[i] = Kept(kept[i - 1], s, S, i)
      OBVIOUS
    <3>1. i \in 0..L /\ i # 0
      BY <1>1
    <3>2. kept[i] = IF s[i] \in S THEN Append(kept[i - 1], s[i]) ELSE kept[i - 1]
      BY <1>6, <3>1
    <3> QED BY <3>2 DEF Kept
  <2> QED BY <2>1, <2>2, <2>3 DEF Keeps
<1>8. Only(s, S) = kept[L]
  BY <1>2 DEF kept
<1> QED BY <1>7, <1>8 DEF L

(* What Only returns: entries of s that are in S, and all of them. *)
OfOnly(o, T, s, S, n) ==
  /\ o \in Seq(T \cap S)
  /\ \A i \in 1..n : s[i] \in S => \E k \in DOMAIN o : o[k] = s[i]
  /\ \A k \in DOMAIN o : \E i \in 1..n : o[k] = s[i]

LEMMA KeptMore ==
  ASSUME NEW T, NEW s \in Seq(T), NEW S, NEW n \in 1..Len(s), NEW o,
         OfOnly(o, T, s, S, n - 1)
  PROVE  OfOnly(Kept(o, s, S, n), T, s, S, n)
<1>1. /\ n \in Nat /\ n - 1 \in Nat /\ s[n] \in T
      /\ \A i \in 1..n : i \in 1..(n - 1) \/ i = n
      /\ \A i \in 1..(n - 1) : i \in 1..n
      /\ n \in 1..n
  OBVIOUS
<1>2. CASE s[n] \notin S
  <2>1. Kept(o, s, S, n) = o
    BY <1>2 DEF Kept
  <2> QED BY <1>1, <1>2, <2>1 DEF OfOnly
<1>3. CASE s[n] \in S
  <2> DEFINE C == T \cap S
  <2>1. Kept(o, s, S, n) = Append(o, s[n]) /\ s[n] \in C /\ o \in Seq(C)
    BY <1>1, <1>3 DEF Kept, OfOnly
  <2>2. PICK v, p, m : v = s[n] /\ p = Append(o, s[n]) /\ m = Len(o)
    OBVIOUS
  <2> HIDE DEF C
  <2>3. Append(o, s[n]) \in Seq(C)
    BY <2>1, AppendProperties
  <2>4. Len(Append(o, s[n])) = Len(o) + 1
    BY <2>1, AppendProperties
  <2>5. Append(o, s[n])[Len(o) + 1] = s[n]
    BY <2>1, AppendProperties
  <2>6. \A i \in 1..Len(o) : Append(o, s[n])[i] = o[i]
    BY <2>1, AppendProperties
  <2>7. m \in Nat /\ DOMAIN o = 1..m
    BY <2>1, <2>2
  <2>8. p \in Seq(C) /\ Len(p) = m + 1 /\ p[m + 1] = v /\ \A i \in 1..m : p[i] = o[i]
    BY <2>2, <2>3, <2>4, <2>5, <2>6
  <2>9. DOMAIN p = 1..(m + 1)
    BY <2>8
  <2>10. /\ m + 1 \in DOMAIN p /\ \A k \in DOMAIN o : k \in DOMAIN p
         /\ \A k \in DOMAIN p : k \in DOMAIN o \/ k = m + 1
    BY <2>7, <2>9
  <2>11. \A i \in 1..n : s[i] \in S => \E k \in DOMAIN p : p[k] = s[i]
    <3> SUFFICES ASSUME NEW i \in 1..n, s[i] \in S PROVE \E k \in DOMAIN p : p[k] = s[i]
      OBVIOUS
    <3>1. CASE i = n
      BY <2>2, <2>8, <2>10, <3>1
    <3>2. CASE i \in 1..(n - 1)
      <4>1. PICK k \in DOMAIN o : o[k] = s[i]
        BY <3>2 DEF OfOnly
      <4> QED BY <2>7, <2>8, <2>10, <4>1
    <3> QED BY <1>1, <3>1, <3>2
  <2>12. \A k \in DOMAIN p : \E i \in 1..n : p[k] = s[i]
    <3> SUFFICES ASSUME NEW k \in DOMAIN p PROVE \E i \in 1..n : p[k] = s[i]
      OBVIOUS
    <3>1. CASE k = m + 1
      BY <1>1, <2>2, <2>8, <3>1
    <3>2. CASE k \in DOMAIN o
      <4>1. PICK i \in 1..(n - 1) : o[k] = s[i]
        BY <3>2 DEF OfOnly
      <4> QED BY <1>1, <2>7, <2>8, <3>2, <4>1
    <3> QED BY <2>10, <3>1, <3>2
  <2>13. OfOnly(p, T, s, S, n)
    <3>1. p \in Seq(T \cap S)
      BY <2>8 DEF C
    <3> QED BY <2>11, <2>12, <3>1 DEF OfOnly
  <2> QED BY <2>1, <2>2, <2>13
<1> QED BY <1>2, <1>3

LEMMA OnlyIs ==
  ASSUME NEW T, NEW s \in Seq(T), NEW S
  PROVE  /\ Only(s, S) \in Seq(T \cap S)
         /\ \A i \in DOMAIN s : s[i] \in S => \E k \in DOMAIN Only(s, S) : Only(s, S)[k] = s[i]
         /\ \A k \in DOMAIN Only(s, S) : \E i \in DOMAIN s : Only(s, S)[k] = s[i]
<1> DEFINE L == Len(s)
<1>1. L \in Nat /\ DOMAIN s = 1..L
  OBVIOUS
<1>2. PICK kept : Keeps(kept, s, S, L) /\ Only(s, S) = kept[L]
  BY OnlyKeeps
<1> DEFINE Bad == {n \in 0..L : ~OfOnly(kept[n], T, s, S, n)}
<1>3. Bad = {}
  <2> SUFFICES ASSUME Bad # {} PROVE FALSE
    OBVIOUS
  <2> HIDE DEF L
  <2>1. Bad \in SUBSET Nat
    BY <1>1
  <2>2. PICK n \in Bad : \A y \in Bad : n <= y
    <3> HIDE DEF Bad
    <3> QED BY <2>1, Least
  <2>3. n \in 0..L /\ ~OfOnly(kept[n], T, s, S, n)
    OBVIOUS
  <2>4. n # 0
    <3>1. << >> \in Seq(T \cap S)
      OBVIOUS
    <3>2. OfOnly(<< >>, T, s, S, 0)
      BY <3>1 DEF OfOnly
    <3> QED BY <1>2, <2>3, <3>2 DEF Keeps
  <2>5. n \in 1..L /\ n - 1 \in 0..L
    BY <1>1, <2>3, <2>4
  <2>6. n - 1 \notin Bad
    BY <1>1, <2>2, <2>5
  <2>7. OfOnly(kept[n - 1], T, s, S, n - 1)
    BY <2>5, <2>6
  <2>8. kept[n] = Kept(kept[n - 1], s, S, n)
    BY <1>2, <2>5 DEF Keeps
  <2>9. n \in 1..Len(s)
    BY <2>5 DEF L
  <2>10. OfOnly(Kept(kept[n - 1], s, S, n), T, s, S, n)
    BY <2>7, <2>9, KeptMore
  <2> QED BY <2>3, <2>8, <2>10
<1>4. OfOnly(kept[L], T, s, S, L)
  <2> HIDE DEF L
  <2> QED BY <1>1, <1>3
<1> HIDE DEF L, Bad
<1> QED BY <1>1, <1>2, <1>4 DEF OfOnly

(* What FlattenSeq has made of the first entries of a sequence. *)
Joins(joined, ss, n) ==
  /\ joined = [i \in 1..n |-> joined[i]]
  /\ \A i \in 1..n : joined[i] = IF i = 1 THEN ss[i] ELSE joined[i - 1] \o ss[i]

LEMMA SomeJoined ==
  ASSUME NEW ss, NEW n \in Nat
  PROVE  \E joined : Joins(joined, ss, n)
<1> DEFINE Bad == {k \in Nat : ~\E joined : Joins(joined, ss, k)}
<1> SUFFICES ASSUME Bad # {} PROVE FALSE
  OBVIOUS
<1>1. Bad \in SUBSET Nat
  OBVIOUS
<1>2. PICK k \in Bad : \A y \in Bad : k <= y
  <2> HIDE DEF Bad
  <2> QED BY <1>1, Least
<1>3. k \in Nat
  OBVIOUS
<1>4. k # 0
  <2> DEFINE g == [i \in 1..0 |-> << >>]
  <2>1. Joins(g, ss, 0)
    BY DEF Joins
  <2> QED BY <2>1
<1>5. k - 1 \in Nat /\ k - 1 \notin Bad
  BY <1>2, <1>3, <1>4
<1>6. PICK joined : Joins(joined, ss, k - 1)
  BY <1>5
<1> DEFINE Next1 == IF k = 1 THEN ss[k] ELSE joined[k - 1] \o ss[k]
           g == [i \in 1..k |-> IF i = k THEN Next1 ELSE joined[i]]
<1>7. g = [i \in 1..k |-> g[i]]
  OBVIOUS
<1>8. \A i \in 1..k : g[i] = IF i = 1 THEN ss[i] ELSE g[i - 1] \o ss[i]
  <2> SUFFICES ASSUME NEW i \in 1..k
               PROVE  g[i] = IF i = 1 THEN ss[i] ELSE g[i - 1] \o ss[i]
    OBVIOUS
  <2>1. i # 1 => i - 1 \in 1..k /\ i - 1 # k /\ g[i - 1] = joined[i - 1]
    BY <1>3
  <2>2. CASE i = k
    BY <1>3, <2>1, <2>2
  <2>3. CASE i # k
    <3>1. i \in 1..(k - 1) /\ g[i] = joined[i]
      BY <1>3, <2>3
    <3> HIDE DEF g
    <3> QED BY <1>6, <2>1, <3>1 DEF Joins
  <2> QED BY <2>2, <2>3
<1>9. Joins(g, ss, k)
  <2> HIDE DEF g
  <2> QED BY <1>7, <1>8 DEF Joins
<1> HIDE DEF g
<1> QED BY <1>9

LEMMA FlattenJoins ==
  ASSUME NEW T, NEW ss \in Seq(T), Len(ss) # 0
  PROVE  \E joined : Joins(joined, ss, Len(ss)) /\ FlattenSeq(ss) = joined[Len(ss)]
<1> DEFINE L == Len(ss)
           Made(joined) == [i \in 1..L |-> IF i = 1 THEN ss[i] ELSE joined[i - 1] \o ss[i]]
<1>1. L \in Nat
  OBVIOUS
<1>2. FlattenSeq(ss) = (CHOOSE joined : joined = Made(joined))[L]
  BY DEF FlattenSeq
<1>3. PICK g : Joins(g, ss, L)
  <2> HIDE DEF L
  <2> QED BY <1>1, SomeJoined
<1>4. g = Made(g)
  <2>1. \A i \in 1..L : g[i] = IF i = 1 THEN ss[i] ELSE g[i - 1] \o ss[i]
    BY <1>3 DEF Joins
  <2>2. g = [i \in 1..L |-> g[i]]
    BY <1>3 DEF Joins
  <2> HIDE DEF L
  <2> QED BY <2>1, <2>2
<1> DEFINE joined == CHOOSE h : h = Made(h)
<1> HIDE DEF Made
<1>5. joined = Made(joined)
  BY <1>4
<1>6. joined = [i \in 1..L |-> IF i = 1 THEN ss[i] ELSE joined[i - 1] \o ss[i]]
  <2> HIDE DEF joined
  <2> QED BY <1>5 DEF Made
<1> HIDE DEF joined, L
<1>7. Joins(joined, ss, L)
  <2>1. joined = [i \in 1..L |-> joined[i]]
    BY <1>6
  <2>2. \A i \in 1..L : joined[i] = IF i = 1 THEN ss[i] ELSE joined[i - 1] \o ss[i]
    BY <1>6
  <2> QED BY <2>1, <2>2 DEF Joins
<1>8. FlattenSeq(ss) = joined[L]
  BY <1>2 DEF joined
<1> QED BY <1>7, <1>8 DEF L

LEMMA FlattenIs ==
  ASSUME NEW T, NEW ss \in Seq(Seq(T))
  PROVE  FlattenSeq(ss) \in Seq(T)
<1>1. CASE Len(ss) = 0
  BY <1>1 DEF FlattenSeq
<1>2. CASE Len(ss) # 0
  <2> DEFINE L == Len(ss)
  <2>1. L \in Nat /\ L # 0 /\ \A i \in 1..L : ss[i] \in Seq(T)
    BY <1>2
  <2>2. PICK joined : Joins(joined, ss, L) /\ FlattenSeq(ss) = joined[L]
    BY <1>2, FlattenJoins
  <2> DEFINE Bad == {n \in 1..L : joined[n] \notin Seq(T)}
  <2>3. Bad = {}
    <3> HIDE DEF L
    <3> SUFFICES ASSUME Bad # {} PROVE FALSE
      OBVIOUS
    <3>1. Bad \in SUBSET Nat
      BY <2>1
    <3>2. PICK n \in Bad : \A y \in Bad : n <= y
      <4> HIDE DEF Bad
      <4> QED BY <3>1, Least
    <3>3. n \in 1..L /\ joined[n] \notin Seq(T)
      OBVIOUS
    <3>4. joined[n] = IF n = 1 THEN ss[n] ELSE joined[n - 1] \o ss[n]
      BY <2>2, <3>3 DEF Joins
    <3>5. n # 1 => n - 1 \in 1..L /\ n - 1 \notin Bad
      BY <2>1, <3>2, <3>3
    <3>6. n # 1 => joined[n - 1] \in Seq(T)
      BY <3>5
    <3>7. joined[n] \in Seq(T)
      BY <2>1, <3>3, <3>4, <3>6, ConcatProperties
    <3> QED BY <3>3, <3>7
  <2>4. joined[L] \in Seq(T)
    <3> HIDE DEF L
    <3> QED BY <2>1, <2>3
  <2> QED BY <2>2, <2>4
<1> QED BY <1>1, <1>2

-----------------------------------------------------------------------------
(* Texts. *)

LEMMA PartText ==
  ASSUME NEW line \in Text, NEW m \in Nat \ {0}, NEW n \in Nat, n <= Len(line)
  PROVE  SubSeq(line, m, n) \in Text
<1>1. \A i \in m..n : line[i] \in STRING
  BY DEF Text
<1> QED BY <1>1, SubSeqProperties DEF Text

LEMMA FindIs ==
  ASSUME NEW line \in Text, NEW word, Has(line, word)
  PROVE  /\ Find(line, word) \in Nat /\ Find(line, word) \in DOMAIN line
         /\ Find(line, word) >= 1 /\ Find(line, word) <= Len(line)
         /\ line[Find(line, word)] = word
<1> DEFINE P(i) == i \in DOMAIN line /\ line[i] = word /\ \A j \in 1..(i - 1) : line[j] # word
           At == {i \in DOMAIN line : line[i] = word}
<1>1. DOMAIN line = 1..Len(line) /\ Len(line) \in Nat
  BY DEF Text
<1>2. At \in SUBSET Nat /\ At # {}
  BY <1>1 DEF Has
<1>3. PICK x \in At : \A y \in At : x <= y
  <2> HIDE DEF At
  <2> QED BY <1>2, Least
<1>4. P(x)
  <2> SUFFICES ASSUME NEW j \in 1..(x - 1), line[j] = word PROVE FALSE
    OBVIOUS
  <2>1. j \in At /\ j < x
    BY <1>1
  <2> QED BY <1>1, <1>3, <2>1
<1>5. Find(line, word) = CHOOSE i : P(i)
  BY DEF Find
<1>6. P(Find(line, word))
  <2> HIDE DEF P
  <2> QED BY <1>4, <1>5
<1> QED BY <1>1, <1>6

LEMMA CutText ==
  ASSUME NEW line \in Text, NEW word, Has(line, word)
  PROVE  Before(line, word) \in Text /\ After(line, word) \in Text
<1> DEFINE f == Find(line, word)
<1>1. f \in Nat /\ f >= 1 /\ f <= Len(line) /\ Len(line) \in Nat
  BY FindIs DEF Text
<1> HIDE DEF f
<1>2. f - 1 \in Nat /\ f - 1 <= Len(line) /\ f + 1 \in Nat \ {0}
  BY <1>1
<1>3. SubSeq(line, 1, f - 1) \in Text
  BY <1>2, PartText
<1>4. SubSeq(line, f + 1, Len(line)) \in Text
  BY <1>1, <1>2, PartText
<1> QED BY <1>3, <1>4 DEF Before, After, Words, f

LEMMA RestText ==
  ASSUME NEW line \in Text, line # << >>
  PROVE  line[1] \in STRING /\ Tail(line) \in Text
         /\ \A word : Has(line, word) /\ line[1] # word => Has(Tail(line), word)
<1>1. line \in Seq(STRING) /\ DOMAIN line = 1..Len(line) /\ Len(line) \in Nat \ {0}
  BY DEF Text
<1>2. line[1] \in STRING
  BY <1>1
<1>3. Tail(line) \in Seq(STRING) /\ Len(Tail(line)) = Len(line) - 1
      /\ \A i \in 1..Len(Tail(line)) : Tail(line)[i] = line[i + 1]
  BY <1>1, HeadTailProperties
<1>4. ASSUME NEW word, Has(line, word), line[1] # word PROVE Has(Tail(line), word)
  <2>1. PICK i \in 1..Len(line) : line[i] = word
    BY <1>1, <1>4 DEF Has
  <2>2. i - 1 \in 1..Len(Tail(line)) /\ i - 1 + 1 = i
    BY <1>1, <1>3, <1>4, <2>1
  <2>3. Tail(line)[i - 1] = line[i]
    BY <1>3, <2>2
  <2>4. DOMAIN Tail(line) = 1..Len(Tail(line))
    BY <1>3
  <2> QED BY <2>1, <2>2, <2>3, <2>4 DEF Has
<1> QED BY <1>2, <1>3, <1>4 DEF Text

LEMMA ReadIs ==
  ASSUME NEW lines \in Seq(Text)
  PROVE  /\ Read(lines) \in Seq(Text)
         /\ \A i \in DOMAIN Read(lines) : Read(lines)[i] \in Text /\ Read(lines)[i] # << >>
<1> DEFINE S == {l \in ToSet(lines) : ~Ignored(l)}
<1>1. Read(lines) \in Seq(Text \cap S)
  BY OnlyIs DEF Read
<1>2. \A l \in S : l # << >>
  BY DEF Ignored
<1> HIDE DEF S
<1> QED BY <1>1, <1>2

LEMMA StartingIs ==
  ASSUME NEW lines \in Seq(Text), NEW word
  PROVE  /\ Starting(lines, word) \in Seq(Text)
         /\ \A i \in DOMAIN Starting(lines, word) :
              LET l == Starting(lines, word)[i]
              IN  l \in Text /\ l # << >> /\ l[1] = word /\ Tail(l) \in Text
<1> DEFINE S == {l \in ToSet(lines) : StartsWith(l, word)}
<1>1. Starting(lines, word) \in Seq(Text \cap S)
  BY OnlyIs DEF Starting
<1>2. \A l \in S : l # << >> /\ l[1] = word
  BY DEF StartsWith
<1> HIDE DEF S
<1>3. Starting(lines, word) \in Seq(Text)
  BY <1>1
<1>4. ASSUME NEW i \in DOMAIN Starting(lines, word)
      PROVE  LET l == Starting(lines, word)[i]
             IN  l \in Text /\ l # << >> /\ l[1] = word /\ Tail(l) \in Text
  <2>1. Starting(lines, word)[i] \in Text \cap S
    BY <1>1
  <2> QED BY <1>2, <2>1, RestText
<1> QED BY <1>3, <1>4

-----------------------------------------------------------------------------
(* Stanzas.                                                                *)

IsParagraph(p) == \A key \in DOMAIN p : p[key] \in Text
IsStanzas(ps) == ps \in Seq(ToSet(ps)) /\ \A p \in ToSet(ps) : IsParagraph(p)

LEMMA StanzasRead ==
  ASSUME NEW t, IsTree(t), NEW p
  PROVE  /\ \A ps \in Deb822(t, p) : IsStanzas(ps)
         /\ Readable(t, p) => LinesOf(t.files[p]) \in Seq(Text)
<1>1. Readable(t, p) => IsFile(t.files[p])
  BY DEF Readable, is_file, IsTree
<1>2. ASSUME NEW ps \in Deb822(t, p) PROVE IsStanzas(ps)
  <2>1. Readable(t, p) /\ t.files[p].kind = "stanzas" /\ ps = t.files[p].paragraphs
    BY DEF Deb822
  <2>2. t.files[p] # Binary
    BY <2>1 DEF Readable
  <2> QED BY <1>1, <2>1, <2>2 DEF IsFile, IsStanzas, IsParagraph
<1>3. ASSUME IsFile(t.files[p]) PROVE LinesOf(t.files[p]) \in Seq(Text)
  <2>1. CASE t.files[p].kind = "text"
    <3>1. t.files[p] # Binary
      BY <2>1 DEF Binary
    <3> QED BY <1>3, <2>1, <3>1 DEF IsFile, LinesOf
  <2>2. CASE t.files[p].kind # "text"
    BY <2>2 DEF LinesOf
  <2> QED BY <2>1, <2>2
<1> QED BY <1>1, <1>2, <1>3

LEMMA FieldIs ==
  ASSUME NEW p, IsParagraph(p), NEW key
  PROVE  /\ field(p, key) \in Text /\ OptText(opt_field(p, key))
         /\ opt_field(p, key) # {} =>
              /\ key \in DOMAIN p /\ p[key] \in Text /\ p[key] # << >>
              /\ opt_field(p, key) = {p[key]}
<1>1. field(p, key) \in Text
  <2>1. << >> \in Text
    BY DEF Text
  <2> QED BY <2>1 DEF field, IsParagraph
<1>2. ASSUME opt_field(p, key) # {}
      PROVE  key \in DOMAIN p /\ p[key] \in Text /\ p[key] # << >> /\ opt_field(p, key) = {p[key]}
  <2>1. field(p, key) # << >> /\ opt_field(p, key) = {p[key]}
    BY <1>2 DEF opt_field
  <2>2. key \in DOMAIN p /\ field(p, key) = p[key]
    BY <2>1 DEF field
  <2> QED BY <1>1, <2>1, <2>2
<1>3. OptText(opt_field(p, key))
  <2>1. CASE opt_field(p, key) = {}
    BY <2>1 DEF OptText
  <2>2. CASE opt_field(p, key) # {}
    BY <1>2, <2>2 DEF OptText
  <2> QED BY <2>1, <2>2
<1> QED BY <1>1, <1>2, <1>3

(* What a list field gives is a list of texts, whatever its commas. *)
LEMMA ListIs ==
  ASSUME NEW text \in Text
  PROVE  split_comma_list(text) \in Seq(Text)
<1> DEFINE Depth(i) == Cardinality({j \in 1..i : text[j] = "("})
                         - Cardinality({j \in 1..i : text[j] = ")"})
           Cuts == {i \in DOMAIN text : text[i] = "," /\ Depth(i) = 0}
           L == Len(text) + 1
           places == [n \in 1..L |-> n]
           Ends == Only(places, Cuts \cup {L})
           Entry(n) == SubSeq(text, IF n = 1 THEN 1 ELSE Ends[n - 1] + 1, Ends[n] - 1)
           entries == [n \in DOMAIN Ends |-> Entry(n)]
           S == Seq(STRING) \ {<< >>}
<1>1. L \in Nat
  BY DEF Text
<1>2. split_comma_list(text) = Only(entries, S)
  BY DEF split_comma_list
<1> HIDE DEF Cuts, L
<1>3. places \in Seq(Nat)
  BY <1>1
<1>4. Ends \in Seq(Nat \cap (Cuts \cup {L}))
  <2> HIDE DEF places
  <2> QED BY <1>3, OnlyIs
<1> HIDE DEF Ends
<1>5. Len(Ends) \in Nat /\ DOMAIN Ends = 1..Len(Ends)
  BY <1>4
<1>6. entries \in Seq({Entry(n) : n \in DOMAIN Ends})
  <2> HIDE DEF Entry
  <2> QED BY <1>5
<1> HIDE DEF entries
<1>7. Only(entries, S) \in Seq({Entry(n) : n \in DOMAIN Ends} \cap S)
  <2> HIDE DEF S, Entry
  <2> QED BY <1>6, OnlyIs
<1> HIDE DEF Entry
<1>8. Only(entries, S) \in Seq(Text)
  BY <1>7 DEF Text
<1> QED BY <1>2, <1>8

LEMMA ListFieldIs ==
  ASSUME NEW p, IsParagraph(p), NEW key
  PROVE  ListField(p, key) \in Seq(Text)
BY FieldIs, ListIs DEF ListField

LEMMA StatingIs ==
  ASSUME NEW ps, IsStanzas(ps), NEW key
  PROVE  /\ Stating(ps, key) \in Seq(ToSet(ps))
         /\ \A i \in DOMAIN Stating(ps, key) :
              LET p == Stating(ps, key)[i]
              IN  IsParagraph(p) /\ opt_field(p, key) # {}
<1> DEFINE S == {p \in ToSet(ps) : opt_field(p, key) # {}}
<1>1. Stating(ps, key) \in Seq(ToSet(ps) \cap S)
  BY OnlyIs DEF Stating, IsStanzas
<1>2. \A p \in S : IsParagraph(p) /\ opt_field(p, key) # {}
  BY DEF IsStanzas
<1> HIDE DEF S
<1> QED BY <1>1, <1>2

LEMMA NumberIs ==
  ASSUME NEW text
  PROVE  ParseNumber(text) = {} \/ \E n \in Nat : ParseNumber(text) = {n}
<1>1. \A w \in DOMAIN Numerals : Numerals[w] \in Nat
  <2>1. DOMAIN Numerals = {"4", "12", "13"}
    BY DEF Numerals
  <2>2. Numerals["4"] = 4 /\ Numerals["12"] = 12 /\ Numerals["13"] = 13
    BY DEF Numerals
  <2> QED BY <2>1, <2>2
<1> QED BY <1>1 DEF ParseNumber

-----------------------------------------------------------------------------
(* debian/changelog.                                                       *)

LEMMA TrailerIs ==
  ASSUME NEW after \in Text
  PROVE  LET r == parse_changelog_trailer(after)
         IN  r.distribution \in Text /\ r.urgency \in Text
<1> DEFINE r == parse_changelog_trailer(after)
<1>1. CASE ~Has(after, ";")
  <2>1. r = [distribution |-> after, urgency |-> << >>]
    BY <1>1 DEF parse_changelog_trailer
  <2>2. << >> \in Text
    BY DEF Text
  <2> QED BY <2>1, <2>2
<1>2. CASE Has(after, ";")
  <2> DEFINE rest == After(after, ";")
  <2>1. Before(after, ";") \in Text /\ rest \in Text
    BY <1>2, CutText
  <2>2. r.distribution = Before(after, ";")
        /\ r.urgency = IF Has(rest, "urgency=") THEN FirstWord(After(rest, "urgency=")) ELSE << >>
    BY <1>2 DEF parse_changelog_trailer
  <2> HIDE DEF rest
  <2>3. ASSUME NEW x \in Text PROVE FirstWord(x) \in Text
    <3>1. CASE x = << >>
      BY <3>1 DEF FirstWord
    <3>2. CASE x # << >>
      <4>1. x[1] \in STRING
        BY <3>2, RestText
      <4>2. << x[1] >> \in Text
        BY <4>1 DEF Text
      <4> QED BY <3>2, <4>2 DEF FirstWord
    <3> QED BY <3>1, <3>2
  <2>4. Has(rest, "urgency=") => After(rest, "urgency=") \in Text
    BY <2>1, CutText
  <2>5. << >> \in Text
    BY DEF Text
  <2> QED BY <2>1, <2>2, <2>3, <2>4, <2>5
<1> QED BY <1>1, <1>2

(* The fields of a header line. *)
IsEntry(e) == \A k \in {"source", "version", "distribution", "urgency"} : e[k] \in Text

LEMMA HeaderIs ==
  ASSUME NEW line \in Text, NEW e \in parse_changelog_header(line)
  PROVE  IsEntry(e)
<1>1. Has(line, "(") /\ Has(After(line, "("), ")")
  BY DEF parse_changelog_header
<1> DEFINE rest == parse_changelog_trailer(After(After(line, "("), ")"))
<1>2. Before(line, "(") \in Text /\ After(line, "(") \in Text
  BY <1>1, CutText
<1>3. Before(After(line, "("), ")") \in Text /\ After(After(line, "("), ")") \in Text
  BY <1>1, <1>2, CutText
<1>4. rest.distribution \in Text /\ rest.urgency \in Text
  BY <1>3, TrailerIs
<1>5. e = [source |-> Before(line, "("), version |-> Before(After(line, "("), ")"),
           distribution |-> rest.distribution, urgency |-> rest.urgency]
  BY DEF parse_changelog_header
<1> HIDE DEF rest
<1> QED BY <1>2, <1>3, <1>4, <1>5 DEF IsEntry

LEMMA EntryIs ==
  ASSUME NEW lines \in Seq(Text), NEW e \in parse_changelog_first_entry(lines)
  PROVE  IsEntry(e)
<1> DEFINE filled == Only(lines, ToSet(lines) \ {<< >>})
<1>1. filled \in Seq(Text \cap (ToSet(lines) \ {<< >>}))
  BY OnlyIs
<1>2. filled # << >> /\ e \in parse_changelog_header(filled[1])
  <2> HIDE DEF filled
  <2> QED BY DEF parse_changelog_first_entry, filled
<1> HIDE DEF filled
<1>3. filled[1] \in Text
  BY <1>1, <1>2
<1> QED BY <1>2, <1>3, HeaderIs

LEMMA OptIs ==
  ASSUME NEW x \in Text PROVE OptText(IF x = << >> THEN {} ELSE {x})
BY DEF OptText

(* Both readers of the changelog find the same entry in it. *)
LEMMA FullIs ==
  ASSUME NEW lines \in Seq(Text)
  PROVE  LET header == parse_changelog_first_entry(lines)
             full == parse_changelog_full(lines)
         IN  \/ header = {} /\ full = {}
             \/ \E h, i : /\ header = {h} /\ full = {i} /\ IsIdentity(i) /\ IsEntry(h)
                          /\ \A k \in {"source", "version", "distribution", "urgency"} :
                               i[k] = h[k]
<1> DEFINE header == parse_changelog_first_entry(lines)
           full == parse_changelog_full(lines)
           signed == Starting(lines, "--")
           line == IF signed = << >> THEN << >> ELSE Tail(signed[1])
           m == IF Has(line, "  ") THEN Before(line, "  ") ELSE line
           d == IF Has(line, "  ") THEN After(line, "  ") ELSE << >>
           Opt(t) == IF t = << >> THEN {} ELSE {t}
           Id(h) == [source |-> h.source, version |-> h.version,
                     distribution |-> h.distribution, urgency |-> h.urgency,
                     maintainer |-> Opt(m), timestamp |-> Opt(d)]
<1>1. full = {Id(h) : h \in header}
  BY DEF parse_changelog_full
<1>2. line \in Text
  <2>1. signed \in Seq(Text) /\ \A i \in DOMAIN signed : Tail(signed[i]) \in Text
    BY StartingIs
  <2>2. << >> \in Text
    BY DEF Text
  <2> HIDE DEF signed
  <2> QED BY <2>1, <2>2
<1> HIDE DEF line
<1>3. m \in Text /\ d \in Text
  <2>1. << >> \in Text
    BY DEF Text
  <2> QED BY <1>2, <2>1, CutText
<1> HIDE DEF m, d
<1>4. OptText(Opt(m)) /\ OptText(Opt(d))
  BY <1>3, OptIs
<1>5. header = {} \/ \E h : header = {h}
  BY NoneOrOne
<1>6. \A h \in header : IsEntry(h)
  BY EntryIs
<1> HIDE DEF header, full, Opt
<1>7. CASE header = {}
  BY <1>1, <1>7 DEF header, full
<1>8. ASSUME NEW h, header = {h}
      PROVE  /\ full = {Id(h)} /\ IsIdentity(Id(h)) /\ IsEntry(h)
             /\ \A k \in {"source", "version", "distribution", "urgency"} : Id(h)[k] = h[k]
  <2>1. IsEntry(h) /\ full = {Id(h)}
    BY <1>1, <1>6, <1>8
  <2>2. \A k \in {"source", "version", "distribution", "urgency"} : Id(h)[k] = h[k]
    OBVIOUS
  <2>3. IsIdentity(Id(h))
    <3>1. DOMAIN Id(h) = {"source", "version", "distribution", "urgency",
                          "maintainer", "timestamp"}
      OBVIOUS
    <3>2. \A k \in {"source", "version", "distribution", "urgency"} : Id(h)[k] \in Text
      BY <2>1, <2>2 DEF IsEntry
    <3>3. OptText(Id(h).maintainer) /\ OptText(Id(h).timestamp)
      BY <1>4
    <3> QED BY <3>1, <3>2, <3>3 DEF IsIdentity
  <2> QED BY <2>1, <2>2, <2>3
<1> HIDE DEF Id
<1>9. CASE header # {}
  <2>1. PICK h : header = {h}
    BY <1>5, <1>9
  <2>2. /\ full = {Id(h)} /\ IsIdentity(Id(h)) /\ IsEntry(h)
        /\ \A k \in {"source", "version", "distribution", "urgency"} : Id(h)[k] = h[k]
    BY <1>8, <2>1
  <2> QED BY <2>1, <2>2 DEF header, full
<1> QED BY <1>7, <1>9

-----------------------------------------------------------------------------
(* debian/control.                                                         *)

LEMMA NoText == << >> \in Text /\ << >> \in Seq(Text) /\ OptText({})
BY DEF Text, OptText

LEMMA OneWord ==
  ASSUME NEW x \in STRING PROVE <<x>> \in Text
<1>1. \A T : \A y \in T : <<y>> \in Seq(T)
  OBVIOUS
<1> QED BY <1>1 DEF Text

LEMMA MaintainersAre ==
  ASSUME NEW p, IsParagraph(p) PROVE MaintainersOf(p) \in MaintainerInfo
<1>1. field(p, "Maintainer") \in Text /\ ListField(p, "Uploaders") \in Seq(Text)
  BY FieldIs, ListFieldIs
<1> QED BY <1>1 DEF MaintainersOf, MaintainerInfo

LEMMA BuildMetadataIs ==
  ASSUME NEW p, IsParagraph(p) PROVE IsBuildMetadata(BuildMetadataOf(p))
<1> DEFINE depends == ListField(p, "Build-Depends")
           parsed == [i \in DOMAIN depends |-> parse_debhelper_compat(depends[i])]
           S == SUBSET Nat \ {{}}
           compat == Only(parsed, S)
           b == BuildMetadataOf(p)
<1>1. depends \in Seq(Text)
  BY ListFieldIs
<1>2. b = [build_depends |-> depends,
           build_depends_indep |-> ListField(p, "Build-Depends-Indep"),
           build_conflicts |-> ListField(p, "Build-Conflicts"),
           debhelper_compat |-> IF compat = << >> THEN {} ELSE compat[1]]
  BY DEF BuildMetadataOf
<1> HIDE DEF depends, b
<1>3. compat \in Seq({parse_debhelper_compat(depends[i]) : i \in DOMAIN depends} \cap S)
  <2>1. DOMAIN depends = 1..Len(depends) /\ Len(depends) \in Nat
    BY <1>1
  <2>2. parsed \in Seq({parse_debhelper_compat(depends[i]) : i \in DOMAIN depends})
    BY <2>1
  <2> HIDE DEF parsed, S
  <2> QED BY <2>2, OnlyIs
<1> HIDE DEF compat
<1>4. compat # << >> => compat[1] \in SUBSET Nat
  BY <1>3
<1>5. ListField(p, "Build-Depends-Indep") \in Seq(Text)
      /\ ListField(p, "Build-Conflicts") \in Seq(Text)
  BY ListFieldIs
<1>6. DOMAIN b = {"build_depends", "build_depends_indep", "build_conflicts",
                  "debhelper_compat"}
  BY <1>2
<1>7. b.build_depends \in Seq(Text) /\ b.build_depends_indep \in Seq(Text)
      /\ b.build_conflicts \in Seq(Text)
  BY <1>1, <1>2, <1>5
<1>8. b.debhelper_compat \in SUBSET Nat
  BY <1>2, <1>4
<1>9. IsBuildMetadata(b)
  BY <1>6, <1>7, <1>8 DEF IsBuildMetadata
<1> QED BY <1>9 DEF b

LEMMA BinaryPackageIs ==
  ASSUME NEW p, IsParagraph(p) PROVE IsBinaryPackage(BinaryPackageOf(p))
<1> DEFINE b == BinaryPackageOf(p)
           arch == IF "Architecture" \in DOMAIN p THEN p["Architecture"] ELSE <<"any">>
<1>1. b = [name |-> field(p, "Package"), architecture |-> arch,
           multi_arch |-> opt_field(p, "Multi-Arch"),
           depends |-> ListField(p, "Depends"), provides |-> ListField(p, "Provides"),
           breaks |-> ListField(p, "Breaks"), conflicts |-> ListField(p, "Conflicts"),
           replaces |-> ListField(p, "Replaces"),
           maintainer |-> opt_field(p, "Maintainer"),
           description |-> opt_field(p, "Description")]
  BY DEF BinaryPackageOf
<1>2. arch \in Text
  <2>1. PICK x : x = "any"
    OBVIOUS
  <2>2. <<"any">> \in Text
    <3>1. x \in STRING
      BY <2>1, WordsAssumption, Zenon
    <3>2. <<x>> \in Text
      BY <3>1, OneWord
    <3> QED BY <2>1, <3>2, Zenon
  <2> QED BY <2>2 DEF IsParagraph
<1> HIDE DEF b, arch
<1>3. field(p, "Package") \in Text
  BY FieldIs
<1>4. \A k : ListField(p, k) \in Seq(Text)
  BY ListFieldIs
<1>5. \A k : OptText(opt_field(p, k))
  BY FieldIs
<1>6. DOMAIN b = {"name", "architecture", "multi_arch", "depends", "provides",
                  "breaks", "conflicts", "replaces", "maintainer", "description"}
  BY <1>1
<1>7. b.name \in Text /\ b.architecture \in Text
  BY <1>1, <1>2, <1>3
<1>8. \A k \in {"depends", "provides", "breaks", "conflicts", "replaces"} : b[k] \in Seq(Text)
  BY <1>1, <1>4
<1>9. \A k \in {"multi_arch", "maintainer", "description"} : OptText(b[k])
  <2>1. OptText(b.multi_arch) /\ OptText(b.maintainer) /\ OptText(b.description)
    BY <1>1, <1>5
  <2> QED BY <2>1
<1>10. IsBinaryPackage(b)
  BY <1>6, <1>7, <1>8, <1>9 DEF IsBinaryPackage
<1> QED BY <1>10 DEF b

(* What the reader of control gives is of the form the report promises. *)
IsControl(c) ==
  /\ c.maintainers \in MaintainerInfo
  /\ \A k \in DOMAIN SourceMetadataFields : OptText(c.source_metadata[k])
  /\ IsBuildMetadata(c.build_metadata)
  /\ \A i \in DOMAIN c.binary_packages : IsBinaryPackage(c.binary_packages[i])

(* A control file parses when its first paragraph has a Source. *)
Sourced(ps) == ps # << >> /\ "Source" \in DOMAIN ps[1]

LEMMA ControlParses ==
  ASSUME NEW ps, IsStanzas(ps)
  PROVE  /\ ~Sourced(ps) => parse_control(ps) = {}
         /\ Sourced(ps) => \E c : /\ parse_control(ps) = {c} /\ IsControl(c)
                                  /\ c.source_metadata = SourceMetadataOf(ps[1])
<1>1. ~Sourced(ps) => parse_control(ps) = {}
  BY DEF parse_control, Sourced
<1>2. ASSUME Sourced(ps)
      PROVE  \E c : /\ parse_control(ps) = {c} /\ IsControl(c)
                    /\ c.source_metadata = SourceMetadataOf(ps[1])
  <2> DEFINE S == {p \in ToSet(ps) : "Package" \in DOMAIN p}
             named == Only(Tail(ps), S)
             packages == [i \in DOMAIN named |-> BinaryPackageOf(named[i])]
             source == ps[1]
             c == [maintainers |-> MaintainersOf(source),
                   source_metadata |-> SourceMetadataOf(source),
                   build_metadata |-> BuildMetadataOf(source),
                   binary_packages |-> packages]
  <2>1. parse_control(ps) = {c}
    BY <1>2 DEF parse_control, Sourced
  <2>2. ps \in Seq(ToSet(ps)) /\ ps # << >> /\ source \in ToSet(ps) /\ IsParagraph(source)
    BY <1>2 DEF IsStanzas, Sourced, ToSet
  <2>3. Tail(ps) \in Seq(ToSet(ps))
    BY <2>2
  <2>4. named \in Seq(ToSet(ps) \cap S)
    <3> HIDE DEF S
    <3> QED BY <2>3, OnlyIs
  <2> HIDE DEF named, S
  <2>5. \A i \in DOMAIN named : IsParagraph(named[i])
    BY <2>4 DEF IsStanzas
  <2>6. \A i \in DOMAIN packages : IsBinaryPackage(packages[i])
    BY <2>5, BinaryPackageIs
  <2> HIDE DEF packages, source
  <2>7. \A k \in DOMAIN SourceMetadataFields : OptText(SourceMetadataOf(source)[k])
    BY <2>2, FieldIs DEF SourceMetadataOf
  <2>8. MaintainersOf(source) \in MaintainerInfo
    BY <2>2, MaintainersAre
  <2>9. IsBuildMetadata(BuildMetadataOf(source))
    BY <2>2, BuildMetadataIs
  <2>10. IsControl(c)
    BY <2>6, <2>7, <2>8, <2>9 DEF IsControl
  <2>11. c.source_metadata = SourceMetadataOf(source)
    OBVIOUS
  <2> HIDE DEF c
  <2> QED BY <2>1, <2>10, <2>11 DEF source
<1> QED BY <1>1, <1>2

LEMMA NoControlIs == IsControl(NoControl)
<1>1. NoMaintainers \in MaintainerInfo
  BY NoText DEF NoMaintainers, MaintainerInfo
<1>2. \A k \in DOMAIN SourceMetadataFields : OptText(NoSourceMetadata[k])
  BY NoText DEF NoSourceMetadata
<1>3. IsBuildMetadata(NoBuildMetadata)
  <2>1. DOMAIN NoBuildMetadata = {"build_depends", "build_depends_indep", "build_conflicts",
                                  "debhelper_compat"}
    BY DEF NoBuildMetadata
  <2>2. /\ NoBuildMetadata.build_depends = << >> /\ NoBuildMetadata.build_depends_indep = << >>
        /\ NoBuildMetadata.build_conflicts = << >> /\ NoBuildMetadata.debhelper_compat = {}
    BY DEF NoBuildMetadata
  <2> QED BY <2>1, <2>2, NoText DEF IsBuildMetadata
<1> QED BY <1>1, <1>2, <1>3 DEF NoControl, IsControl

(* The three ways in which source-analysis reads control. *)
LEMMA ControlRead ==
  ASSUME NEW t, IsTree(t)
  PROVE  LET read == read_control(t)
         IN  /\ IsControl(read.parts)
             /\ \/ /\ Deb822(t, "control") = {} /\ read.parts = NoControl
                   /\ \/ read.diagnostics = <<"E_CONTROL_UNREADABLE">>
                      \/ read.diagnostics = <<"E_CONTROL_UNPARSABLE">>
                \/ \E ps : /\ Deb822(t, "control") = {ps} /\ IsStanzas(ps) /\ ~Sourced(ps)
                           /\ read.parts = NoControl
                           /\ read.diagnostics = <<"E_CONTROL_UNPARSABLE">>
                \/ \E ps : /\ Deb822(t, "control") = {ps} /\ IsStanzas(ps) /\ Sourced(ps)
                           /\ read.parts.source_metadata = SourceMetadataOf(ps[1])
                           /\ read.diagnostics = << >>
<1> DEFINE read == read_control(t)
           deb == Deb822(t, "control")
           parsed == UNION {parse_control(ps) : ps \in deb}
<1>1. /\ ~Readable(t, "control") => 
           read = [parts |-> NoControl, diagnostics |-> <<"E_CONTROL_UNREADABLE">>]
      /\ Readable(t, "control") /\ parsed = {} =>
           read = [parts |-> NoControl, diagnostics |-> <<"E_CONTROL_UNPARSABLE">>]
      /\ Readable(t, "control") /\ parsed # {} =>
           read = [parts |-> CHOOSE p \in parsed : TRUE, diagnostics |-> << >>]
  BY DEF read_control
<1>2. ~Readable(t, "control") => deb = {}
  BY DEF Deb822
<1>3. deb = {} \/ \E x : deb = {x}
  BY NoneOrOne
<1>4. \A ps \in deb : IsStanzas(ps)
  BY StanzasRead
<1>5. deb # {} => Readable(t, "control")
  BY DEF Deb822
<1> HIDE DEF read, deb
<1>6. CASE deb = {}
  <2>1. parsed = {}
    BY <1>6
  <2> HIDE DEF parsed
  <2>2. \/ read = [parts |-> NoControl, diagnostics |-> <<"E_CONTROL_UNREADABLE">>]
        \/ read = [parts |-> NoControl, diagnostics |-> <<"E_CONTROL_UNPARSABLE">>]
    BY <1>1, <2>1
  <2>3. /\ read.parts = NoControl
        /\ \/ read.diagnostics = <<"E_CONTROL_UNREADABLE">>
           \/ read.diagnostics = <<"E_CONTROL_UNPARSABLE">>
    BY <2>2
  <2> QED BY <1>6, <2>3, NoControlIs DEF read, deb
<1>7. ASSUME NEW ps, deb = {ps}, ~Sourced(ps)
      PROVE  /\ IsStanzas(ps) /\ read.parts = NoControl
             /\ read.diagnostics = <<"E_CONTROL_UNPARSABLE">>
  <2>1. IsStanzas(ps) /\ Readable(t, "control")
    BY <1>4, <1>5, <1>7
  <2>2. parsed = {}
    BY <1>7, <2>1, ControlParses
  <2> HIDE DEF parsed
  <2> QED BY <1>1, <2>1, <2>2
<1>8. ASSUME NEW ps, deb = {ps}, Sourced(ps)
      PROVE  /\ IsStanzas(ps) /\ IsControl(read.parts)
             /\ read.parts.source_metadata = SourceMetadataOf(ps[1])
             /\ read.diagnostics = << >>
  <2>1. IsStanzas(ps) /\ Readable(t, "control")
    BY <1>4, <1>5, <1>8
  <2>2. PICK c : /\ parse_control(ps) = {c} /\ IsControl(c)
                 /\ c.source_metadata = SourceMetadataOf(ps[1])
    BY <1>8, <2>1, ControlParses
  <2>3. parsed = {c}
    BY <1>8, <2>2
  <2> HIDE DEF parsed
  <2>4. read = [parts |-> c, diagnostics |-> << >>]
    BY <1>1, <2>1, <2>3
  <2> QED BY <2>1, <2>2, <2>4
<1>9. CASE deb # {}
  <2>1. PICK ps : deb = {ps}
    BY <1>3, <1>9
  <2>2. CASE ~Sourced(ps)
    <3>1. /\ IsStanzas(ps) /\ read.parts = NoControl
          /\ read.diagnostics = <<"E_CONTROL_UNPARSABLE">>
      BY <1>7, <2>1, <2>2
    <3> QED BY <2>1, <2>2, <3>1, NoControlIs DEF read, deb
  <2>3. CASE Sourced(ps)
    <3>1. /\ IsStanzas(ps) /\ IsControl(read.parts)
          /\ read.parts.source_metadata = SourceMetadataOf(ps[1])
          /\ read.diagnostics = << >>
      BY <1>8, <2>1, <2>3
    <3> QED BY <2>1, <2>3, <3>1 DEF read, deb
  <2> QED BY <2>2, <2>3
<1> QED BY <1>6, <1>9

-----------------------------------------------------------------------------
(* The other files.                                                        *)

LEMMA FormatIs ==
  ASSUME NEW t, IsTree(t)
  PROVE  read_source_format(t) \in SourceFormats
<1> DEFINE text == IF Readable(t, "source/format")
                   THEN FlattenSeq(LinesOf(t.files["source/format"])) ELSE << >>
<1>1. text \in Text
  <2>1. Readable(t, "source/format") => LinesOf(t.files["source/format"]) \in Seq(Seq(STRING))
    BY StanzasRead DEF Text
  <2>2. Readable(t, "source/format") => FlattenSeq(LinesOf(t.files["source/format"])) \in Text
    BY <2>1, FlattenIs DEF Text
  <2> QED BY <2>2, NoText
<1>2. \/ read_source_format(t) = [kind |-> "ThreeZeroQuilt", text |-> << >>]
      \/ read_source_format(t) = [kind |-> "ThreeZeroNative", text |-> << >>]
      \/ read_source_format(t) = [kind |-> "OtherLegacy", text |-> text]
  <2> HIDE DEF text
  <2> QED BY DEF read_source_format, text
<1> HIDE DEF text
<1> QED BY <1>1, <1>2, NoText DEF SourceFormats

LEMMA CopyrightParses ==
  ASSUME NEW ps, IsStanzas(ps)
  PROVE  IsCopyright(parse_copyright(ps))
<1> DEFINE format == IF ps = << >> THEN {} ELSE opt_field(ps[1], "Format")
           licensed == Stating(ps, "License")
           licenses == [i \in DOMAIN licensed |-> field(licensed[i], "License")]
           First(i) == \A j \in 1..(i - 1) : licenses[j] # licenses[i]
           Firsts == {i \in DOMAIN licenses : First(i)}
           places == [i \in DOMAIN licenses |-> i]
           firsts == Only(places, Firsts)
           identifiers == [n \in DOMAIN firsts |-> licenses[firsts[n]]]
           c == parse_copyright(ps)
<1>1. c = [machine_readable |-> \E f \in format : f[1] \in SchemeWords,
           format_declaration |-> format,
           files_stanza_count |-> Len(Stating(ps, "Files")),
           license_identifiers |-> identifiers]
  BY DEF parse_copyright
<1> HIDE DEF c
<1>2. OptText(format)
  <2>1. ps # << >> => IsParagraph(ps[1])
    BY DEF IsStanzas, ToSet
  <2> QED BY <2>1, FieldIs, NoText
<1> HIDE DEF format
<1>3. Len(Stating(ps, "Files")) \in Nat
  BY StatingIs
<1>4. licensed \in Seq(ToSet(ps)) /\ \A i \in DOMAIN licensed : IsParagraph(licensed[i])
  BY StatingIs
<1> HIDE DEF licensed
<1>5. /\ DOMAIN licensed = 1..Len(licensed) /\ Len(licensed) \in Nat
      /\ DOMAIN licenses = DOMAIN licensed
      /\ \A i \in DOMAIN licenses : licenses[i] \in Text
  BY <1>4, FieldIs
<1> HIDE DEF licenses, Firsts
<1>6. places \in Seq(DOMAIN licenses)
  BY <1>5
<1>7. firsts \in Seq(DOMAIN licenses \cap Firsts)
  <2> HIDE DEF places
  <2> QED BY <1>6, OnlyIs
<1> HIDE DEF firsts
<1>8. identifiers \in Seq(Text)
  BY <1>5, <1>7
<1> HIDE DEF identifiers
<1>9. DOMAIN c = {"machine_readable", "format_declaration", "files_stanza_count",
                  "license_identifiers"}
  BY <1>1
<1>10. c.machine_readable \in BOOLEAN
  BY <1>1
<1>11. /\ c.format_declaration = format /\ c.files_stanza_count \in Nat
       /\ c.license_identifiers \in Seq(Text)
  BY <1>1, <1>3, <1>8
<1>12. IsCopyright(c)
  BY <1>2, <1>9, <1>10, <1>11 DEF IsCopyright
<1> QED BY <1>12 DEF c

LEMMA CopyrightIs ==
  ASSUME NEW t, IsTree(t)
  PROVE  IsCopyright(read_copyright(t))
<1> DEFINE parsed == Deb822(t, "copyright")
<1>1. CASE parsed = {}
  <2>1. read_copyright(t) = NoCopyright
    BY <1>1 DEF read_copyright
  <2>2. DOMAIN NoCopyright = {"machine_readable", "format_declaration", "files_stanza_count",
                              "license_identifiers"}
    BY DEF NoCopyright
  <2>3. /\ NoCopyright.machine_readable \in BOOLEAN /\ NoCopyright.format_declaration = {}
        /\ NoCopyright.files_stanza_count \in Nat /\ NoCopyright.license_identifiers = << >>
    BY DEF NoCopyright
  <2> QED BY <2>1, <2>2, <2>3, NoText DEF IsCopyright
<1>2. CASE parsed # {}
  <2>1. PICK ps : parsed = {ps}
    BY <1>2, NoneOrOne
  <2>2. IsStanzas(ps)
    BY <2>1, StanzasRead
  <2>3. read_copyright(t) = parse_copyright(ps)
    <3> HIDE DEF parsed
    <3> QED BY <2>1 DEF read_copyright, parsed
  <2> QED BY <2>2, <2>3, CopyrightParses
<1> QED BY <1>1, <1>2

LEMMA LastIs ==
  ASSUME NEW lines \in Seq(Text), NEW word
  PROVE  OptText(LastOf(lines, word))
<1> DEFINE with == Starting(lines, word)
<1>1. with \in Seq(Text) /\ \A i \in DOMAIN with : Tail(with[i]) \in Text
  BY StartingIs
<1>2. LastOf(lines, word) = IF with = << >> THEN {} ELSE {Tail(with[Len(with)])}
  BY DEF LastOf
<1> HIDE DEF with
<1>3. with # << >> => Len(with) \in DOMAIN with
  BY <1>1
<1> QED BY <1>1, <1>2, <1>3 DEF OptText

LEMMA WatchParses ==
  ASSUME NEW lines \in Seq(Text)
  PROVE  IsWatch(parse_watch(lines))
<1> DEFINE directives == {"version=", "pgpsigurlmangle=", "opts="}
           read == Read(lines)
           urls == Only(read, {l \in ToSet(read) : l[1] \notin directives})
           last == LastOf(read, "version=")
           version == UNION {ParseNumber(v) : v \in last}
           sig == LastOf(read, "pgpsigurlmangle=")
           C(v) == [version |-> v, url_pattern |-> urls[1], pgpsig |-> sig]
           w == parse_watch(lines)
<1>1. w = IF urls = << >> THEN {} ELSE {C(v) : v \in version}
  BY DEF parse_watch
<1> HIDE DEF w
<1>2. read \in Seq(Text)
  BY ReadIs
<1> HIDE DEF read
<1>3. urls \in Seq(Text \cap {l \in ToSet(read) : l[1] \notin directives})
  <2> HIDE DEF directives
  <2> QED BY <1>2, OnlyIs
<1> HIDE DEF urls
<1>4. urls # << >> => urls[1] \in Text
  BY <1>3
<1>5. OptText(sig) /\ OptText(last)
  BY <1>2, LastIs
<1> HIDE DEF sig, last
<1>6. version = {} \/ \E n \in Nat : version = {n}
  <2>1. CASE last = {}
    BY <2>1
  <2>2. CASE last # {}
    <3>1. PICK v : last = {v}
      BY <1>5, <2>2 DEF OptText
    <3>2. version = ParseNumber(v)
      BY <3>1
    <3> QED BY <3>2, NumberIs
  <2> QED BY <2>1, <2>2
<1> HIDE DEF version
<1>7. CASE urls = << >> \/ version = {}
  <2>1. w = {}
    BY <1>1, <1>7
  <2> QED BY <2>1 DEF IsWatch, w
<1>8. CASE urls # << >> /\ version # {}
  <2>1. PICK n \in Nat : version = {n}
    BY <1>6, <1>8
  <2>2. w = {C(n)}
    BY <1>1, <1>8, <2>1
  <2>3. /\ DOMAIN C(n) = {"version", "url_pattern", "pgpsig"}
        /\ C(n).version = n /\ C(n).url_pattern = urls[1] /\ C(n).pgpsig = sig
    OBVIOUS
  <2> HIDE DEF C
  <2> QED BY <1>4, <1>5, <1>8, <2>2, <2>3 DEF IsWatch, w
<1> QED BY <1>7, <1>8

LEMMA WatchIs ==
  ASSUME NEW t, IsTree(t)
  PROVE  IsWatch(read_watch(t))
<1>1. CASE Readable(t, "watch")
  BY <1>1, StanzasRead, WatchParses DEF read_watch
<1>2. CASE ~Readable(t, "watch")
  BY <1>2 DEF read_watch, IsWatch
<1> QED BY <1>1, <1>2

LEMMA TestsParse ==
  ASSUME NEW ps, IsStanzas(ps)
  PROVE  \A i \in DOMAIN parse_tests_control(ps) : IsAutopkgtest(parse_tests_control(ps)[i])
<1> DEFINE named == Stating(ps, "Tests")
           Test(p) == [name |-> p["Tests"][1],
                       command |-> IF Len(p["Tests"]) = 1 THEN {} ELSE {Tail(p["Tests"])},
                       restrictions |-> field(p, "Restrictions"),
                       features |-> field(p, "Features"),
                       depends |-> ListField(p, "Depends")]
<1>1. parse_tests_control(ps) = [i \in DOMAIN named |-> Test(named[i])]
  BY DEF parse_tests_control
<1>2. \A i \in DOMAIN named : IsParagraph(named[i]) /\ opt_field(named[i], "Tests") # {}
  BY StatingIs
<1>3. ASSUME NEW p, IsParagraph(p), opt_field(p, "Tests") # {}
      PROVE  IsAutopkgtest(Test(p))
  <2>1. p["Tests"] \in Text /\ p["Tests"] # << >>
    BY <1>3, FieldIs
  <2>2. p["Tests"][1] \in STRING /\ Tail(p["Tests"]) \in Text
    BY <2>1, RestText
  <2>3. field(p, "Restrictions") \in Text /\ field(p, "Features") \in Text
        /\ ListField(p, "Depends") \in Seq(Text)
    BY <1>3, FieldIs, ListFieldIs
  <2>4. DOMAIN Test(p) = {"name", "command", "restrictions", "features", "depends"}
    OBVIOUS
  <2>5. /\ Test(p).name = p["Tests"][1]
        /\ Test(p).command = IF Len(p["Tests"]) = 1 THEN {} ELSE {Tail(p["Tests"])}
        /\ Test(p).restrictions = field(p, "Restrictions")
        /\ Test(p).features = field(p, "Features") /\ Test(p).depends = ListField(p, "Depends")
    OBVIOUS
  <2> HIDE DEF Test
  <2>6. OptText(Test(p).command)
    BY <2>2, <2>5 DEF OptText
  <2> QED BY <2>2, <2>3, <2>4, <2>5, <2>6 DEF IsAutopkgtest
<1> HIDE DEF named, Test
<1> QED BY <1>1, <1>2, <1>3

LEMMA TestsAre ==
  ASSUME NEW t, IsTree(t)
  PROVE  \A i \in DOMAIN read_tests_control(t) : IsAutopkgtest(read_tests_control(t)[i])
<1> DEFINE parsed == Deb822(t, "tests/control")
<1>1. CASE parsed = {}
  BY <1>1 DEF read_tests_control
<1>2. CASE parsed # {}
  <2>1. PICK ps : parsed = {ps}
    BY <1>2, NoneOrOne
  <2>2. IsStanzas(ps)
    BY <2>1, StanzasRead
  <2>3. read_tests_control(t) = parse_tests_control(ps)
    <3> HIDE DEF parsed
    <3> QED BY <2>1 DEF read_tests_control, parsed
  <2> QED BY <2>2, <2>3, TestsParse
<1> QED BY <1>1, <1>2

-----------------------------------------------------------------------------
(* The patches.                                                            *)

LEMMA FirstOf ==
  ASSUME NEW T \in SUBSET Nat, T # {}
  PROVE  LET m == CHOOSE i \in T : \A j \in T : i <= j
         IN  m \in T /\ \A j \in T : m <= j
<1> DEFINE P(i) == i \in T /\ \A j \in T : i <= j
<1>1. \E i : P(i)
  BY Least
<1>2. P(CHOOSE i : P(i))
  <2> HIDE DEF P
  <2> QED BY <1>1
<1> QED BY <1>2

LEMMA PatchIs ==
  ASSUME NEW name \in Text, NEW lines \in Seq(Text)
  PROVE  IsPatch(read_patch(name, lines))
<1> DEFINE ends == {i \in DOMAIN lines : lines[i] = << >> \/ lines[i][1] \in DiffStarts}
           last == IF ends = {} THEN Len(lines)
                   ELSE (CHOOSE i \in ends : \A j \in ends : i <= j) - 1
           keys == {i \in 1..last : Has(lines[i], ":")}
           NextKey(i) == {j \in keys : j > i}
           EndOf(i) == IF NextKey(i) = {} THEN last
                       ELSE (CHOOSE j \in NextKey(i) : \A k \in NextKey(i) : j <= k) - 1
           ValueAt(i) == After(lines[i], ":") \o FlattenSeq(SubSeq(lines, i + 1, EndOf(i)))
           At(key) == {i \in keys : Before(lines[i], ":") = <<key>>}
           assign(key) ==
             {ValueAt(i) : i \in {j \in At(key) : \A k \in At(key) : k <= j}} \ {<< >>}
           p == read_patch(name, lines)
<1>1. p = [name |-> name, description |-> assign("Description"),
           author |-> assign("Author"), forwarded |-> assign("Forwarded"),
           last_update |-> assign("Last-Update")]
  BY DEF read_patch
<1> HIDE DEF p
<1>2. Len(lines) \in Nat /\ DOMAIN lines = 1..Len(lines)
  OBVIOUS
<1>3. last \in Nat /\ last <= Len(lines)
  <2>1. ends \in SUBSET Nat /\ \A i \in ends : i >= 1 /\ i <= Len(lines)
    BY <1>2
  <2> HIDE DEF ends
  <2>2. CASE ends = {}
    BY <1>2, <2>2
  <2>3. CASE ends # {}
    <3>1. PICK m : m = CHOOSE i \in ends : \A j \in ends : i <= j
      OBVIOUS
    <3>2. m \in ends
      BY <2>1, <2>3, <3>1, FirstOf
    <3>3. last = m - 1
      BY <2>3, <3>1
    <3> HIDE DEF last
    <3> QED BY <1>2, <2>1, <3>2, <3>3
  <2> QED BY <2>2, <2>3
<1> HIDE DEF last
<1>4. \A i \in keys : /\ i \in Nat /\ i >= 1 /\ i <= last /\ i \in DOMAIN lines
                      /\ lines[i] \in Text /\ Has(lines[i], ":")
  BY <1>2, <1>3
<1> HIDE DEF keys
<1>5. ASSUME NEW i \in keys PROVE EndOf(i) \in Nat /\ EndOf(i) <= Len(lines)
  <2>1. NextKey(i) \in SUBSET Nat /\ \A j \in NextKey(i) : j >= 1 /\ j <= last
    BY <1>4
  <2> HIDE DEF NextKey
  <2>2. CASE NextKey(i) = {}
    BY <1>3, <2>2
  <2>3. CASE NextKey(i) # {}
    <3>1. PICK m : m = CHOOSE j \in NextKey(i) : \A k \in NextKey(i) : j <= k
      OBVIOUS
    <3>2. m \in NextKey(i)
      BY <2>1, <2>3, <3>1, FirstOf
    <3>3. EndOf(i) = m - 1
      BY <2>3, <3>1
    <3> HIDE DEF EndOf
    <3> QED BY <1>2, <1>3, <2>1, <3>2, <3>3
  <2> QED BY <2>2, <2>3
<1> HIDE DEF EndOf
<1>6. ASSUME NEW i \in keys PROVE ValueAt(i) \in Text
  <2>1. After(lines[i], ":") \in Text
    BY <1>4, CutText
  <2>2. \A n \in (i + 1)..EndOf(i) : lines[n] \in Text
    BY <1>2, <1>4, <1>5
  <2>3. i + 1 \in Int /\ EndOf(i) \in Int
    BY <1>4, <1>5
  <2>4. SubSeq(lines, i + 1, EndOf(i)) \in Seq(Text)
    BY <2>2, <2>3, SubSeqProperties
  <2>5. FlattenSeq(SubSeq(lines, i + 1, EndOf(i))) \in Text
    BY <2>4, FlattenIs DEF Text
  <2> QED BY <2>1, <2>5, ConcatProperties DEF Text
<1> HIDE DEF ValueAt
<1>7. ASSUME NEW key PROVE OptText(assign(key))
  <2> DEFINE latest == {j \in At(key) : \A k \in At(key) : k <= j}
  <2>1. \A i \in At(key) : i \in keys /\ i \in Nat
    BY <1>4
  <2>2. \A i, j \in latest : i = j
    BY <2>1
  <2>3. \A i \in latest : ValueAt(i) \in Text
    BY <1>6, <2>1
  <2>4. assign(key) = {ValueAt(i) : i \in latest} \ {<< >>}
    OBVIOUS
  <2> HIDE DEF latest, assign
  <2>5. CASE assign(key) = {}
    BY <2>5 DEF OptText
  <2>6. CASE assign(key) # {}
    <3>1. PICK i \in latest : ValueAt(i) # << >>
      BY <2>4, <2>6
    <3>2. assign(key) = {ValueAt(i)}
      BY <2>2, <2>4, <3>1
    <3> QED BY <2>3, <3>1, <3>2 DEF OptText
  <2> QED BY <2>5, <2>6
<1> HIDE DEF assign
<1>8. DOMAIN p = {"name", "description", "author", "forwarded", "last_update"}
      /\ p.name \in Text
  BY <1>1
<1>9. OptText(p.description) /\ OptText(p.author) /\ OptText(p.forwarded)
      /\ OptText(p.last_update)
  BY <1>1, <1>7
<1> QED BY <1>8, <1>9 DEF IsPatch, p

LEMMA NoHeaderIs ==
  ASSUME NEW name \in Text PROVE IsPatch(NoHeader(name))
<1> DEFINE p == NoHeader(name)
<1>1. p = [name |-> name, description |-> {}, author |-> {}, forwarded |-> {},
           last_update |-> {}]
  BY DEF NoHeader
<1> HIDE DEF p
<1>2. DOMAIN p = {"name", "description", "author", "forwarded", "last_update"}
      /\ p.name \in Text
  BY <1>1
<1>3. p.description = {} /\ p.author = {} /\ p.forwarded = {} /\ p.last_update = {}
  BY <1>1
<1> QED BY <1>2, <1>3, NoText DEF IsPatch, p

LEMMA PatchesAre ==
  ASSUME NEW t, IsTree(t)
  PROVE  /\ \A i \in DOMAIN read_patches(t).patches : IsPatch(read_patches(t).patches[i])
         /\ read_patches(t).diagnostics \in Seq({"E_PATCH_FILE_MISSING"})
<1> DEFINE listed == IF Readable(t, "patches/series")
                     THEN Read(LinesOf(t.files["patches/series"])) ELSE << >>
           gone == ToSet(listed) \ DOMAIN t.patches
           missing == Only(listed, gone)
           Patch(l) == IF l \in DOMAIN t.patches /\ t.patches[l] # Binary
                       THEN read_patch(l, LinesOf(t.patches[l])) ELSE NoHeader(l)
           diagnostics == [i \in DOMAIN missing |-> "E_PATCH_FILE_MISSING"]
<1>1. read_patches(t) = [patches |-> [i \in DOMAIN listed |-> Patch(listed[i])],
                         diagnostics |-> diagnostics]
  BY DEF read_patches
<1>2. listed \in Seq(Text)
  <2>1. Readable(t, "patches/series") => LinesOf(t.files["patches/series"]) \in Seq(Text)
    BY StanzasRead
  <2> QED BY <2>1, ReadIs, NoText
<1> HIDE DEF listed
<1>3. missing \in Seq(Text \cap gone)
  <2> HIDE DEF gone
  <2> QED BY <1>2, OnlyIs
<1> HIDE DEF missing
<1>4. diagnostics \in Seq({"E_PATCH_FILE_MISSING"})
  <2>1. DOMAIN missing = 1..Len(missing) /\ Len(missing) \in Nat
    BY <1>3
  <2> QED BY <2>1
<1> HIDE DEF diagnostics
<1>5. ASSUME NEW l \in Text PROVE IsPatch(Patch(l))
  <2>1. CASE l \in DOMAIN t.patches /\ t.patches[l] # Binary
    <3>1. IsFile(t.patches[l])
      BY <2>1 DEF IsTree
    <3>2. LinesOf(t.patches[l]) \in Seq(Text)
      <4>1. CASE t.patches[l].kind = "text"
        BY <2>1, <3>1, <4>1 DEF IsFile, LinesOf
      <4>2. CASE t.patches[l].kind # "text"
        BY <4>2 DEF LinesOf
      <4> QED BY <4>1, <4>2
    <3> QED BY <2>1, <3>2, PatchIs
  <2>2. CASE ~(l \in DOMAIN t.patches /\ t.patches[l] # Binary)
    <3>1. Patch(l) = NoHeader(l)
      BY <2>2
    <3> QED BY <3>1, NoHeaderIs
  <2> QED BY <2>1, <2>2
<1> HIDE DEF Patch
<1> QED BY <1>1, <1>2, <1>4, <1>5

-----------------------------------------------------------------------------
(* debian/rules, the scripts and gbp.conf.                                 *)

LEMMA RulesAre ==
  ASSUME NEW t, IsTree(t)
  PROVE  read_rules(t) \in RulesInfo
<1>1. CASE ~Readable(t, "rules")
  BY <1>1, NoText DEF read_rules, NoRules, RulesInfo
<1>2. CASE Readable(t, "rules")
  <2> DEFINE lines == LinesOf(t.files["rules"])
             starting == Starting(lines, "override_")
             S == {l \in ToSet(lines) : Has(l, ":") /\ Before(Tail(l), ":") # << >>}
             overrides == Only(starting, S)
             targets == [i \in DOMAIN overrides |-> Before(Tail(overrides[i]), ":")]
  <2>1. read_rules(t) = [executable |-> executable_bit(t, "rules"),
                         dh_style |-> parse_dh_style(lines),
                         override_targets |-> targets]
    BY <1>2 DEF read_rules, parse_override_targets
  <2>2. lines \in Seq(Text)
    BY <1>2, StanzasRead
  <2> HIDE DEF lines
  <2>3. /\ starting \in Seq(Text)
        /\ \A i \in DOMAIN starting :
             /\ starting[i] \in Text /\ starting[i] # << >>
             /\ starting[i][1] = "override_" /\ Tail(starting[i]) \in Text
    BY <2>2, StartingIs
  <2> HIDE DEF starting, S
  <2>4. /\ overrides \in Seq(Text \cap S)
        /\ \A k \in DOMAIN overrides : \E i \in DOMAIN starting : overrides[k] = starting[i]
    BY <2>3, OnlyIs
  <2> HIDE DEF overrides
  <2>5. ASSUME NEW k \in DOMAIN overrides PROVE Before(Tail(overrides[k]), ":") \in Text
    <3>1. PICK l : l = overrides[k]
      OBVIOUS
    <3>2. l \in Text /\ Has(l, ":") /\ l # << >> /\ l[1] # ":" /\ Tail(l) \in Text
      BY <2>3, <2>4, <3>1 DEF S
    <3>3. Has(Tail(l), ":")
      BY <3>2, RestText
    <3> QED BY <3>1, <3>2, <3>3, CutText
  <2>6. targets \in Seq(Text)
    <3>1. DOMAIN overrides = 1..Len(overrides) /\ Len(overrides) \in Nat
      BY <2>4
    <3> QED BY <2>5, <3>1
  <2> HIDE DEF targets
  <2>7. executable_bit(t, "rules") \in BOOLEAN /\ parse_dh_style(lines) \in BOOLEAN
    BY DEF executable_bit, parse_dh_style
  <2> QED BY <2>1, <2>6, <2>7 DEF RulesInfo
<1> QED BY <1>1, <1>2

LEMMA ScriptIs ==
  ASSUME NEW t, NEW p
  PROVE  read_script_presence(t, p) \in Option(ScriptPresence)
<1>1. executable_bit(t, p) \in BOOLEAN
  BY DEF executable_bit
<1>2. [executable |-> executable_bit(t, p)] \in ScriptPresence
  BY <1>1 DEF ScriptPresence
<1> QED BY <1>2 DEF read_script_presence, Option

LEMMA ScriptsAre ==
  ASSUME NEW t, IsTree(t)
  PROVE  IsMaintainerScripts(read_maintainer_scripts(t))
<1> DEFINE known == CanonicalScripts \cup HiddenFiles \cup
             {"rules", "control", "changelog", "copyright", "source", "patches",
              "tests", "watch", "triggers", "gbp.conf", "gbp-dch.conf"}
           others == DOMAIN t.files \ (known \cup NestedFiles)
           triggers == IF is_file(t, "triggers") THEN {[executable |-> FALSE]} ELSE {}
           scripts == {[name |-> n, presence |-> [executable |-> executable_bit(t, n)]] :
                         n \in others}
           m == read_maintainer_scripts(t)
<1>1. m = [preinst |-> read_script_presence(t, "preinst"),
           postinst |-> read_script_presence(t, "postinst"),
           prerm |-> read_script_presence(t, "prerm"),
           postrm |-> read_script_presence(t, "postrm"),
           triggers |-> triggers, other_scripts |-> scripts]
  BY DEF read_maintainer_scripts
<1> HIDE DEF m
<1>2. triggers \in Option(ScriptPresence)
  <2>1. [executable |-> FALSE] \in ScriptPresence
    BY DEF ScriptPresence
  <2> QED BY <2>1 DEF Option
<1>3. \A n \in others : n \in STRING
  BY DEF IsTree
<1> HIDE DEF others, triggers
<1>4. ASSUME NEW s \in scripts PROVE s \in NamedScripts
  <2>1. PICK n \in others : s = [name |-> n, presence |-> [executable |-> executable_bit(t, n)]]
    OBVIOUS
  <2>2. executable_bit(t, n) \in BOOLEAN
    BY DEF executable_bit
  <2>3. [executable |-> executable_bit(t, n)] \in ScriptPresence
    BY <2>2 DEF ScriptPresence
  <2> QED BY <1>3, <2>1, <2>3 DEF NamedScripts
<1> HIDE DEF scripts
<1>5. DOMAIN m = {"preinst", "postinst", "prerm", "postrm", "triggers", "other_scripts"}
  BY <1>1
<1>6. /\ m.preinst \in Option(ScriptPresence) /\ m.postinst \in Option(ScriptPresence)
      /\ m.prerm \in Option(ScriptPresence) /\ m.postrm \in Option(ScriptPresence)
      /\ m.triggers \in Option(ScriptPresence)
  BY <1>1, <1>2, ScriptIs
<1>7. \A s \in m.other_scripts : s \in NamedScripts
  BY <1>1, <1>4
<1> QED BY <1>5, <1>6, <1>7 DEF IsMaintainerScripts, m

LEMMA BranchesParse ==
  ASSUME NEW lines \in Seq(Text), NEW s \in parse_gbp_conf_branch(lines),
         NEW k \in DOMAIN GbpBranchFields
  PROVE  OptText(s[k])
<1> DEFINE S == {l \in ToSet(lines) : ~Ignored(l) /\ l[1] # ";"}
           read == Only(lines, S)
           HeadOf(i) == {j \in 1..i : StartsWith(read[j], "[")}
           InSection(i) == /\ HeadOf(i) # {}
                           /\ LET h == CHOOSE j \in HeadOf(i) : \A n \in HeadOf(i) : n <= j
                              IN  h # i /\ read[h] = <<"[", "BUILD-DEFAULTS", "]">>
           Sets(i, key) == InSection(i) /\ Has(read[i], "=") /\ Before(read[i], "=") = <<key>>
           At(key) == {i \in DOMAIN read : Sets(i, key)}
           latest(key) == {j \in At(key) : \A n \in At(key) : n <= j}
           Value(key) == {After(read[i], "=") : i \in latest(key)}
           key == GbpBranchFields[k]
<1>1. s[k] = Value(key)
  BY Zenon DEF parse_gbp_conf_branch
<1> HIDE DEF S
<1>2. read \in Seq(Text \cap S)
  BY OnlyIs
<1> HIDE DEF read, InSection, key
<1>3. \A i \in At(key) : i \in Nat /\ read[i] \in Text /\ Has(read[i], "=")
  BY <1>2
<1>4. \A i, j \in latest(key) : i = j
  BY <1>3
<1>5. \A i \in latest(key) : After(read[i], "=") \in Text
  BY <1>3, CutText
<1> HIDE DEF latest
<1>6. CASE latest(key) = {}
  BY <1>1, <1>6 DEF OptText
<1>7. CASE latest(key) # {}
  <2>1. PICK i \in latest(key) : TRUE
    BY <1>7
  <2>2. Value(key) = {After(read[i], "=")}
    BY <1>4, <2>1
  <2> HIDE DEF Value
  <2> QED BY <1>1, <1>5, <2>1, <2>2 DEF OptText
<1> QED BY <1>6, <1>7

LEMMA GbpIs ==
  ASSUME NEW t, IsTree(t)
  PROVE  IsGbp(read_gbp_config(t))
<1> DEFINE branches == IF Readable(t, "gbp.conf")
                       THEN parse_gbp_conf_branch(LinesOf(t.files["gbp.conf"])) ELSE {}
           g == read_gbp_config(t)
<1>1. g = [gbp_conf_present |-> is_file(t, "gbp.conf"),
           gbp_dch_conf_present |-> is_file(t, "gbp-dch.conf"),
           branch_settings |-> branches]
  BY DEF read_gbp_config
<1> HIDE DEF g
<1>2. is_file(t, "gbp.conf") \in BOOLEAN /\ is_file(t, "gbp-dch.conf") \in BOOLEAN
  BY DEF is_file, IsTree
<1>3. \A s \in branches : \A k \in DOMAIN GbpBranchFields : OptText(s[k])
  BY StanzasRead, BranchesParse
<1> HIDE DEF branches
<1>4. DOMAIN g = {"gbp_conf_present", "gbp_dch_conf_present", "branch_settings"}
  BY <1>1
<1>5. /\ g.gbp_conf_present \in BOOLEAN /\ g.gbp_dch_conf_present \in BOOLEAN
      /\ g.branch_settings = branches
  BY <1>1, <1>2
<1> QED BY <1>3, <1>4, <1>5 DEF IsGbp, g

-----------------------------------------------------------------------------
(* Where the source is kept.                                               *)

LEMMA VcsIs ==
  ASSUME NEW ps, ps = << >> \/ IsStanzas(ps)
  PROVE  LET v == parse_vcs_metadata(ps)
             Opt(key) == IF ps = << >> THEN {} ELSE opt_field(ps[1], key)
         IN  /\ DOMAIN v = {"vcs_git", "vcs_browser", "homepage"}
             /\ v.vcs_git = Opt("Vcs-Git") /\ v.vcs_browser = Opt("Vcs-Browser")
             /\ v.homepage = Opt("Homepage")
             /\ \A k \in DOMAIN v : OptText(v[k])
<1> DEFINE Opt(key) == IF ps = << >> THEN {} ELSE opt_field(ps[1], key)
           v == parse_vcs_metadata(ps)
<1>1. v = [vcs_git |-> Opt("Vcs-Git"), vcs_browser |-> Opt("Vcs-Browser"),
           homepage |-> Opt("Homepage")]
  BY DEF parse_vcs_metadata
<1>2. \A key : OptText(Opt(key))
  <2>1. ps # << >> => IsParagraph(ps[1])
    BY DEF IsStanzas, ToSet
  <2> QED BY <2>1, FieldIs, NoText
<1> HIDE DEF v
<1>3. DOMAIN v = {"vcs_git", "vcs_browser", "homepage"}
      /\ v.vcs_git = Opt("Vcs-Git") /\ v.vcs_browser = Opt("Vcs-Browser")
      /\ v.homepage = Opt("Homepage")
  BY <1>1
<1>4. \A k \in DOMAIN v : OptText(v[k])
  <2> HIDE DEF Opt
  <2> QED BY <1>2, <1>3
<1> QED BY <1>3, <1>4 DEF v

LEMMA UpstreamIs ==
  ASSUME NEW ps, ps = << >> \/ IsStanzas(ps)
  PROVE  LET u == parse_upstream_metadata(ps)
         IN  /\ DOMAIN u = {"upstream_name", "upstream_contact", "upstream_url"}
             /\ \A k \in DOMAIN u : OptText(u[k])
<1> DEFINE Opt(key) == IF ps = << >> THEN {} ELSE opt_field(ps[1], key)
           with == Stating(ps, "Source")
           url == IF with = << >> THEN {} ELSE opt_field(with[1], "Source")
           u == parse_upstream_metadata(ps)
<1>1. u = [upstream_name |-> Opt("Upstream-Name"),
           upstream_contact |-> Opt("Upstream-Contact"), upstream_url |-> url]
  BY DEF parse_upstream_metadata
<1>2. IsStanzas(ps)
  <2>1. ASSUME ps = << >> PROVE IsStanzas(ps)
    BY <2>1 DEF IsStanzas, ToSet
  <2> QED BY <2>1
<1>3. \A key : OptText(Opt(key))
  <2>1. ps # << >> => IsParagraph(ps[1])
    BY <1>2 DEF IsStanzas, ToSet
  <2> QED BY <2>1, FieldIs, NoText
<1>4. OptText(url)
  <2>1. with \in Seq(ToSet(ps)) /\ \A i \in DOMAIN with : IsParagraph(with[i])
    BY <1>2, StatingIs
  <2> HIDE DEF with
  <2>2. with # << >> => IsParagraph(with[1])
    BY <2>1
  <2> QED BY <2>2, FieldIs, NoText
<1> HIDE DEF u, url, Opt
<1>5. DOMAIN u = {"upstream_name", "upstream_contact", "upstream_url"}
      /\ u.upstream_name = Opt("Upstream-Name") /\ u.upstream_contact = Opt("Upstream-Contact")
      /\ u.upstream_url = url
  BY <1>1
<1>6. \A k \in DOMAIN u : OptText(u[k])
  BY <1>3, <1>4, <1>5
<1> QED BY <1>5, <1>6 DEF u

-----------------------------------------------------------------------------
(* The reports are of the form they promise.                               *)

Codes == Seq(DiagnosticCodes)

LEMMA WhenIs ==
  ASSUME NEW c, NEW code \in DiagnosticCodes
  PROVE  When(c, code) \in Codes
BY DEF When, Codes

LEMMA CodesJoin ==
  ASSUME NEW d \in Codes, NEW e \in Codes
  PROVE  d \o e \in Codes
BY ConcatProperties DEF Codes

LEMMA WorkspaceDiagnosticsAre ==
  ASSUME NEW w PROVE WorkspaceDiagnostics(w) \in Codes
<1>1. When(w = "none", "E_WORKSPACE_PATH_MISSING") \in Codes
  BY WhenIs DEF DiagnosticCodes
<1>2. When(w = "missing", "E_WORKSPACE_NOT_DIR") \in Codes
  BY WhenIs DEF DiagnosticCodes
<1> QED BY <1>1, <1>2, CodesJoin DEF WorkspaceDiagnostics

LEMMA NoDebianIs == <<"E_DEBIAN_DIR_MISSING">> \in Codes
BY DEF Codes, DiagnosticCodes

-----------------------------------------------------------------------------
(* source-preparation. *)

LEMMA PrepControlIs ==
  ASSUME NEW t, IsTree(t)
  PROVE  /\ OptText(prep_read_control(t))
         /\ prep_read_control(t) # {} =>
              \E ps : /\ Deb822(t, "control") = {ps} /\ IsStanzas(ps) /\ Sourced(ps)
<1> DEFINE deb == Deb822(t, "control")
           Named(ps) == IF ps = << >> THEN {} ELSE opt_field(ps[1], "Source")
<1>1. prep_read_control(t) = UNION {Named(ps) : ps \in deb}
  BY DEF prep_read_control
<1>2. CASE deb = {}
  <2>1. prep_read_control(t) = {}
    BY <1>1, <1>2
  <2> QED BY <2>1, NoText
<1>3. CASE deb # {}
  <2>1. PICK ps : deb = {ps}
    BY <1>3, NoneOrOne
  <2>2. IsStanzas(ps)
    BY <2>1, StanzasRead
  <2>3. ps # << >> => IsParagraph(ps[1])
    BY <2>2 DEF IsStanzas, ToSet
  <2>4. prep_read_control(t) = Named(ps)
    <3> HIDE DEF deb, Named
    <3> QED BY <1>1, <2>1
  <2>5. OptText(Named(ps)) /\ (Named(ps) # {} => Sourced(ps))
    BY <2>3, FieldIs, NoText DEF Sourced
  <2> HIDE DEF Named
  <2> QED BY <2>1, <2>2, <2>4, <2>5
<1> QED BY <1>2, <1>3

LEMMA PrepChangelogIs ==
  ASSUME NEW t, IsTree(t)
  PROVE  prep_read_changelog(t) = {} \/ \E e : prep_read_changelog(t) = {e} /\ IsEntry(e)
<1>1. CASE ~Readable(t, "changelog")
  BY <1>1 DEF prep_read_changelog
<1>2. CASE Readable(t, "changelog")
  <2> DEFINE lines == LinesOf(t.files["changelog"])
  <2>1. lines \in Seq(Text)
    BY <1>2, StanzasRead
  <2>2. prep_read_changelog(t) = parse_changelog_first_entry(lines)
    BY <1>2 DEF prep_read_changelog
  <2> HIDE DEF lines
  <2> QED BY <2>1, <2>2, NoneOrOne, EntryIs
<1> QED BY <1>1, <1>2

LEMMA PrepFormatIs ==
  ASSUME NEW t, IsTree(t) PROVE OptText(prep_read_source_format(t))
<1> DEFINE text == IF Readable(t, "source/format")
                   THEN FlattenSeq(LinesOf(t.files["source/format"])) ELSE << >>
<1>1. text \in Text
  <2>1. Readable(t, "source/format") => LinesOf(t.files["source/format"]) \in Seq(Seq(STRING))
    BY StanzasRead DEF Text
  <2>2. Readable(t, "source/format") => FlattenSeq(LinesOf(t.files["source/format"])) \in Text
    BY <2>1, FlattenIs DEF Text
  <2> QED BY <2>2, NoText
<1>2. prep_read_source_format(t) = IF text = << >> THEN {} ELSE {text}
  BY DEF prep_read_source_format
<1> HIDE DEF text
<1> QED BY <1>1, <1>2, OptIs

LEMMA FindingsAre ==
  ASSUME NEW t, IsTree(t), NEW source, OptText(source), NEW format, OptText(format),
         NEW entry, entry = {} \/ \E e : entry = {e} /\ IsEntry(e)
  PROVE  IsFindings(FindingsOf(t, source, entry, format))
<1> DEFINE f == FindingsOf(t, source, entry, format)
           names == {e.source : e \in entry}
           versions == {e.version : e \in entry}
           executable == is_file(t, "rules") /\ executable_bit(t, "rules")
<1>1. DOMAIN f = {"debian_directory_present", "control_parsable",
       "control_source_name", "control_source_name_matches_candidate",
       "changelog_parsable", "changelog_source_name",
       "changelog_source_name_matches_candidate", "changelog_version",
       "changelog_version_matches_candidate", "format_identifiable",
       "source_format", "rules_executable"}
  BY DEF FindingsOf
<1>2. /\ f.control_source_name = source /\ f.changelog_source_name = names
      /\ f.changelog_version = versions /\ f.source_format = format
  BY DEF FindingsOf
<1>3. /\ f.debian_directory_present = TRUE /\ f.control_parsable = (source # {})
      /\ f.changelog_parsable = (entry # {}) /\ f.format_identifiable = (format # {})
      /\ f.rules_executable = executable
  BY DEF FindingsOf
<1> HIDE DEF f
<1>4. OptText(names) /\ OptText(versions)
  <2>1. CASE entry = {}
    <3>1. names = {} /\ versions = {}
      BY <2>1
    <3> QED BY <3>1, NoText
  <2>2. CASE entry # {}
    <3>1. PICK e : entry = {e} /\ IsEntry(e)
      BY <2>2
    <3>2. names = {e.source} /\ versions = {e.version}
      BY <3>1
    <3>3. e.source \in Text /\ e.version \in Text
      BY <3>1 DEF IsEntry
    <3> HIDE DEF names, versions
    <3> QED BY <3>2, <3>3 DEF OptText
  <2> QED BY <2>1, <2>2
<1>5. executable \in BOOLEAN
  BY DEF is_file, executable_bit, IsTree
<1> HIDE DEF names, versions, executable
<1>6. \A k \in {"control_source_name", "changelog_source_name", "changelog_version",
                "source_format"} : OptText(f[k])
  <2>1. /\ OptText(f.control_source_name) /\ OptText(f.changelog_source_name)
        /\ OptText(f.changelog_version) /\ OptText(f.source_format)
    BY <1>2, <1>4
  <2> QED BY <2>1
<1>7. \A k \in {"debian_directory_present", "control_parsable", "changelog_parsable",
                "format_identifiable", "rules_executable"} : f[k] \in BOOLEAN
  <2>1. /\ f.debian_directory_present \in BOOLEAN /\ f.control_parsable \in BOOLEAN
        /\ f.changelog_parsable \in BOOLEAN /\ f.format_identifiable \in BOOLEAN
        /\ f.rules_executable \in BOOLEAN
    BY <1>3, <1>5
  <2> QED BY <2>1
<1> QED BY <1>1, <1>6, <1>7 DEF IsFindings, f

LEMMA NoFindingsAre == IsFindings(NoFindings)
<1> DEFINE f == NoFindings
<1>1. DOMAIN f = {"debian_directory_present", "control_parsable",
       "control_source_name", "control_source_name_matches_candidate",
       "changelog_parsable", "changelog_source_name",
       "changelog_source_name_matches_candidate", "changelog_version",
       "changelog_version_matches_candidate", "format_identifiable",
       "source_format", "rules_executable"}
  BY DEF NoFindings
<1>2. /\ f.control_source_name = {} /\ f.changelog_source_name = {}
      /\ f.changelog_version = {} /\ f.source_format = {}
  BY DEF NoFindings
<1>3. /\ f.debian_directory_present = FALSE /\ f.control_parsable = FALSE
      /\ f.changelog_parsable = FALSE /\ f.format_identifiable = FALSE
      /\ f.rules_executable = FALSE
  BY DEF NoFindings
<1> QED BY <1>1, <1>2, <1>3, NoText DEF IsFindings

LEMMA ControlDiagnosticsAre ==
  ASSUME NEW source PROVE ControlDiagnostics(source) \in Codes
<1>1. When(source = {}, "E_CONTROL_UNREADABLE") \in Codes
  BY WhenIs DEF DiagnosticCodes
<1>2. When(source \notin {{}, {Candidate.name}}, "E_SOURCE_NAME_MISMATCH") \in Codes
  BY WhenIs DEF DiagnosticCodes
<1> QED BY <1>1, <1>2, CodesJoin DEF ControlDiagnostics

LEMMA ChangelogDiagnosticsAre ==
  ASSUME NEW entry PROVE ChangelogDiagnostics(entry) \in Codes
<1>1. When(entry = {}, "E_CHANGELOG_UNREADABLE") \in Codes
  BY WhenIs DEF DiagnosticCodes
<1>2. When(\E e \in entry : e.source # Candidate.name,
           "E_CHANGELOG_SOURCE_NAME_MISMATCH") \in Codes
  BY WhenIs DEF DiagnosticCodes
<1>3. When(\E e \in entry : e.version # Candidate.version, "E_VERSION_MISMATCH") \in Codes
  BY WhenIs DEF DiagnosticCodes
<1> QED BY <1>1, <1>2, <1>3, CodesJoin DEF ChangelogDiagnostics

LEMMA PreparationIs ==
  ASSUME NEW t, IsTree(t), NEW w
  PROVE  IsPreparation(source_preparation(w, t))
<1> DEFINE source == prep_read_control(t)
           entry == prep_read_changelog(t)
           format == prep_read_source_format(t)
           findings == IF w = "dir" /\ t.debian
                       THEN FindingsOf(t, source, entry, format) ELSE NoFindings
           Identity(e) == [source |-> e.source, version |-> e.version,
                           distribution |-> e.distribution, urgency |-> e.urgency,
                           maintainer |-> {}, timestamp |-> {}]
           verdict == IF w = "dir" THEN PreparationVerdict(findings)
                      ELSE "InfrastructureError"
           diagnostics ==
             CASE w # "dir" -> WorkspaceDiagnostics(w)
               [] w = "dir" /\ ~t.debian -> <<"E_DEBIAN_DIR_MISSING">>
               [] OTHER -> ControlDiagnostics(source) \o ChangelogDiagnostics(entry)
                             \o When(format = {}, "E_FORMAT_UNREADABLE")
           identity == IF w = "dir" /\ t.debian THEN {Identity(e) : e \in entry} ELSE {}
           r == source_preparation(w, t)
<1>1. r = [findings |-> findings, verdict |-> verdict, diagnostics |-> diagnostics,
           identity |-> identity]
  BY DEF source_preparation
<1> HIDE DEF r
<1>2. /\ OptText(source) /\ OptText(format)
      /\ entry = {} \/ \E e : entry = {e} /\ IsEntry(e)
  BY PrepControlIs, PrepFormatIs, PrepChangelogIs
<1> HIDE DEF source, entry, format
<1>3. IsFindings(findings)
  BY <1>2, FindingsAre, NoFindingsAre
<1>4. verdict \in Verdicts
  <2> HIDE DEF findings
  <2> QED BY DEF PreparationVerdict, Verdicts
<1>5. diagnostics \in Codes
  <2>1. When(format = {}, "E_FORMAT_UNREADABLE") \in Codes
    BY WhenIs DEF DiagnosticCodes
  <2>2. ControlDiagnostics(source) \o ChangelogDiagnostics(entry)
          \o When(format = {}, "E_FORMAT_UNREADABLE") \in Codes
    BY <2>1, ControlDiagnosticsAre, ChangelogDiagnosticsAre, CodesJoin
  <2>3. WorkspaceDiagnostics(w) \in Codes
    BY WorkspaceDiagnosticsAre
  <2>4. CASE w # "dir"
    BY <2>3, <2>4
  <2>5. CASE w = "dir" /\ ~t.debian
    BY <2>5, NoDebianIs
  <2>6. CASE w = "dir" /\ t.debian
    BY <2>2, <2>6
  <2> QED BY <2>4, <2>5, <2>6
<1>6. OptIdentity(identity)
  <2>1. ASSUME NEW e, IsEntry(e) PROVE IsIdentity(Identity(e))
    <3>1. DOMAIN Identity(e) = {"source", "version", "distribution", "urgency",
                                "maintainer", "timestamp"}
      OBVIOUS
    <3>2. \A k \in {"source", "version", "distribution", "urgency"} : Identity(e)[k] \in Text
      <4>1. e.source \in Text /\ e.version \in Text /\ e.distribution \in Text
            /\ e.urgency \in Text
        BY <2>1 DEF IsEntry
      <4> QED BY <4>1
    <3>3. Identity(e).maintainer = {} /\ Identity(e).timestamp = {}
      OBVIOUS
    <3> QED BY <3>1, <3>2, <3>3, NoText DEF IsIdentity
  <2> HIDE DEF Identity
  <2>2. CASE identity = {}
    BY <2>2 DEF OptIdentity
  <2>3. CASE identity # {}
    <3>1. PICK e : entry = {e} /\ IsEntry(e)
      BY <1>2, <2>3
    <3>2. identity = {Identity(e)}
      BY <2>3, <3>1
    <3>3. IsIdentity(Identity(e))
      BY <2>1, <3>1
    <3> HIDE DEF identity
    <3> QED BY <3>2, <3>3 DEF OptIdentity
  <2> QED BY <2>2, <2>3
<1> HIDE DEF findings, verdict, diagnostics, identity
<1>7. DOMAIN r = {"verdict", "diagnostics", "findings", "identity"}
  BY <1>1
<1>8. r.verdict = verdict /\ r.diagnostics = diagnostics /\ r.findings = findings
      /\ r.identity = identity
  BY <1>1
<1> QED BY <1>3, <1>4, <1>5, <1>6, <1>7, <1>8 DEF IsPreparation, Codes, r

-----------------------------------------------------------------------------
(* source-analysis. *)

(* The parts of an analysis. *)
IsEveryPart(r) ==
  /\ OptIdentity(r.identity) /\ r.maintainers \in MaintainerInfo
  /\ \A k \in DOMAIN SourceMetadataFields : OptText(r.source_metadata[k])
  /\ IsBuildMetadata(r.build_metadata)
  /\ \A i \in DOMAIN r.binary_packages : IsBinaryPackage(r.binary_packages[i])
  /\ r.source_format \in SourceFormats
  /\ \A i \in DOMAIN r.patches : IsPatch(r.patches[i])
  /\ \A i \in DOMAIN r.tests : IsAutopkgtest(r.tests[i])
  /\ IsWatch(r.watch) /\ IsCopyright(r.copyright)
  /\ IsMaintainerScripts(r.maintainer_scripts)
  /\ r.rules \in RulesInfo /\ IsGbp(r.gbp)

AnalysisFields ==
  {"verdict", "diagnostics", "identity", "maintainers",
   "source_metadata", "build_metadata", "binary_packages",
   "source_format", "patches", "tests", "watch", "copyright",
   "maintainer_scripts", "rules", "gbp"}

LEMMA NoScriptsAre == IsMaintainerScripts(NoScripts)
<1>1. DOMAIN NoScripts = {"preinst", "postinst", "prerm", "postrm", "triggers",
                          "other_scripts"}
  BY DEF NoScripts
<1>2. /\ NoScripts.preinst = {} /\ NoScripts.postinst = {} /\ NoScripts.prerm = {}
      /\ NoScripts.postrm = {} /\ NoScripts.triggers = {} /\ NoScripts.other_scripts = {}
  BY DEF NoScripts
<1>3. {} \in Option(ScriptPresence)
  BY DEF Option
<1> QED BY <1>1, <1>2, <1>3 DEF IsMaintainerScripts

LEMMA NoGbpIs == IsGbp(NoGbp)
<1>1. DOMAIN NoGbp = {"gbp_conf_present", "gbp_dch_conf_present", "branch_settings"}
  BY DEF NoGbp
<1>2. /\ NoGbp.gbp_conf_present = FALSE /\ NoGbp.gbp_dch_conf_present = FALSE
      /\ NoGbp.branch_settings = {}
  BY DEF NoGbp
<1> QED BY <1>1, <1>2 DEF IsGbp

LEMMA NoCopyrightIs == IsCopyright(NoCopyright)
<1>1. DOMAIN NoCopyright = {"machine_readable", "format_declaration", "files_stanza_count",
                            "license_identifiers"}
  BY DEF NoCopyright
<1>2. /\ NoCopyright.machine_readable \in BOOLEAN /\ NoCopyright.format_declaration = {}
      /\ NoCopyright.files_stanza_count \in Nat /\ NoCopyright.license_identifiers = << >>
  BY DEF NoCopyright
<1> QED BY <1>1, <1>2, NoText DEF IsCopyright

LEMMA EmptyAnalysisIs ==
  ASSUME NEW verdict \in Verdicts, NEW d \in Codes
  PROVE  IsAnalysis(EmptyAnalysis(verdict, d))
<1> DEFINE r == EmptyAnalysis(verdict, d)
<1>1. DOMAIN r = AnalysisFields /\ r.verdict = verdict /\ r.diagnostics = d
  BY DEF EmptyAnalysis, AnalysisFields
<1>2. /\ r.identity = {} /\ r.maintainers = NoMaintainers
      /\ r.source_metadata = NoSourceMetadata /\ r.build_metadata = NoBuildMetadata
      /\ r.binary_packages = << >>
  BY DEF EmptyAnalysis
<1>3. /\ r.source_format = [kind |-> "OtherLegacy", text |-> << >>]
      /\ r.patches = << >> /\ r.tests = << >> /\ r.watch = {} /\ r.copyright = NoCopyright
      /\ r.maintainer_scripts = NoScripts /\ r.rules = NoRules /\ r.gbp = NoGbp
  BY DEF EmptyAnalysis
<1> HIDE DEF r
<1>4. OptIdentity(r.identity)
  BY <1>2 DEF OptIdentity
<1>5. /\ r.maintainers \in MaintainerInfo /\ IsBuildMetadata(r.build_metadata)
      /\ \A k \in DOMAIN SourceMetadataFields : OptText(r.source_metadata[k])
  <2>1. NoMaintainers \in MaintainerInfo
    BY NoText DEF NoMaintainers, MaintainerInfo
  <2>2. \A k \in DOMAIN SourceMetadataFields : OptText(NoSourceMetadata[k])
    BY NoText DEF NoSourceMetadata
  <2>3. IsBuildMetadata(NoBuildMetadata)
    BY NoControlIs DEF NoControl, IsControl
  <2> QED BY <1>2, <2>1, <2>2, <2>3
<1>6. r.source_format \in SourceFormats
  BY <1>3, NoText DEF SourceFormats
<1>7. r.rules \in RulesInfo
  BY <1>3, NoText DEF NoRules, RulesInfo
<1>8. IsWatch(r.watch)
  BY <1>3 DEF IsWatch
<1>9. IsCopyright(r.copyright) /\ IsMaintainerScripts(r.maintainer_scripts) /\ IsGbp(r.gbp)
  BY <1>3, NoCopyrightIs, NoScriptsAre, NoGbpIs
<1>10. /\ \A i \in DOMAIN r.binary_packages : IsBinaryPackage(r.binary_packages[i])
       /\ \A i \in DOMAIN r.patches : IsPatch(r.patches[i])
       /\ \A i \in DOMAIN r.tests : IsAutopkgtest(r.tests[i])
  BY <1>2, <1>3
<1>11. IsEveryPart(r)
  BY <1>4, <1>5, <1>6, <1>7, <1>8, <1>9, <1>10 DEF IsEveryPart
<1> QED BY <1>1, <1>11 DEF IsAnalysis, IsEveryPart, AnalysisFields, Codes, r

(* How source-analysis reads the changelog. *)
LEMMA ChangelogRead ==
  ASSUME NEW t, IsTree(t)
  PROVE  LET read == read_changelog_full(t)
         IN  /\ read.diagnostics \in Codes
             /\ \/ /\ prep_read_changelog(t) = {} /\ read.identity = {}
                   /\ \/ read.diagnostics = <<"E_CHANGELOG_UNREADABLE">>
                      \/ read.diagnostics = <<"E_CHANGELOG_UNPARSABLE">>
                \/ \E h, i : /\ prep_read_changelog(t) = {h} /\ read.identity = {i}
                             /\ IsEntry(h) /\ IsIdentity(i)
                             /\ \A k \in {"source", "version", "distribution", "urgency"} :
                                  i[k] = h[k]
                             /\ read.diagnostics = << >>
<1> DEFINE read == read_changelog_full(t)
           lines == LinesOf(t.files["changelog"])
           full == parse_changelog_full(lines)
<1>1. <<"E_CHANGELOG_UNREADABLE">> \in Codes /\ <<"E_CHANGELOG_UNPARSABLE">> \in Codes
      /\ << >> \in Codes
  BY DEF Codes, DiagnosticCodes
<1>2. CASE ~Readable(t, "changelog")
  <2>1. read.identity = {} /\ read.diagnostics = <<"E_CHANGELOG_UNREADABLE">>
    BY <1>2 DEF read_changelog_full
  <2>2. prep_read_changelog(t) = {}
    BY <1>2 DEF prep_read_changelog
  <2> QED BY <1>1, <2>1, <2>2
<1>3. CASE Readable(t, "changelog")
  <2>1. read = [identity |-> full, diagnostics |-> IF full = {} 
                THEN <<"E_CHANGELOG_UNPARSABLE">> ELSE << >>]
    BY <1>3 DEF read_changelog_full
  <2>2. prep_read_changelog(t) = parse_changelog_first_entry(lines)
    BY <1>3 DEF prep_read_changelog
  <2>3. lines \in Seq(Text)
    BY <1>3, StanzasRead
  <2> HIDE DEF read, lines
  <2>4. \/ parse_changelog_first_entry(lines) = {} /\ full = {}
        \/ \E h, i : /\ parse_changelog_first_entry(lines) = {h} /\ full = {i}
                     /\ IsIdentity(i) /\ IsEntry(h)
                     /\ \A k \in {"source", "version", "distribution", "urgency"} : i[k] = h[k]
    BY <2>3, FullIs
  <2> HIDE DEF full
  <2>5. CASE full = {}
    <3>1. read.identity = {} /\ read.diagnostics = <<"E_CHANGELOG_UNPARSABLE">>
      BY <2>1, <2>5
    <3> QED BY <1>1, <2>2, <2>4, <2>5, <3>1 DEF read
  <2>6. CASE full # {}
    <3>1. read.identity = full /\ read.diagnostics = << >>
      BY <2>1, <2>6
    <3> QED BY <1>1, <2>2, <2>4, <2>6, <3>1 DEF read
  <2> QED BY <2>5, <2>6
<1> QED BY <1>2, <1>3

LEMMA AnalysisIs ==
  ASSUME NEW t, IsTree(t), NEW w
  PROVE  IsAnalysis(source_analysis(w, t))
<1>1. CASE w # "dir"
  <2>1. source_analysis(w, t) = EmptyAnalysis("InfrastructureError", WorkspaceDiagnostics(w))
    BY <1>1 DEF source_analysis
  <2> QED BY <2>1, EmptyAnalysisIs, WorkspaceDiagnosticsAre DEF Verdicts
<1>2. CASE w = "dir" /\ ~t.debian
  <2>1. source_analysis(w, t) = EmptyAnalysis("Fail", <<"E_DEBIAN_DIR_MISSING">>)
    BY <1>2 DEF source_analysis
  <2> QED BY <2>1, EmptyAnalysisIs, NoDebianIs DEF Verdicts
<1>3. CASE w = "dir" /\ t.debian
  <2> DEFINE changelog == read_changelog_full(t)
             control == read_control(t)
             patches == read_patches(t)
             diagnostics == changelog.diagnostics \o control.diagnostics \o patches.diagnostics
             verdict == IF diagnostics = << >> THEN "Pass" ELSE "Fail"
             r == AnalysisOf(t)
  <2>1. source_analysis(w, t) = r
    BY <1>3 DEF source_analysis
  <2>2. DOMAIN r = AnalysisFields /\ r.verdict = verdict /\ r.diagnostics = diagnostics
    BY DEF AnalysisOf, AnalysisFields
  <2>3. /\ r.identity = changelog.identity /\ r.maintainers = control.parts.maintainers
        /\ r.source_metadata = control.parts.source_metadata
        /\ r.build_metadata = control.parts.build_metadata
        /\ r.binary_packages = control.parts.binary_packages
    BY DEF AnalysisOf
  <2>4. /\ r.source_format = read_source_format(t) /\ r.patches = patches.patches
        /\ r.tests = read_tests_control(t) /\ r.watch = read_watch(t)
        /\ r.copyright = read_copyright(t)
        /\ r.maintainer_scripts = read_maintainer_scripts(t)
        /\ r.rules = read_rules(t) /\ r.gbp = read_gbp_config(t)
    BY DEF AnalysisOf
  <2> HIDE DEF r
  <2>5. OptIdentity(changelog.identity) /\ changelog.diagnostics \in Codes
    <3>1. changelog.identity = {} \/ \E i : changelog.identity = {i} /\ IsIdentity(i)
      BY ChangelogRead
    <3>2. changelog.diagnostics \in Codes
      BY ChangelogRead
    <3> HIDE DEF changelog
    <3> QED BY <3>1, <3>2 DEF OptIdentity
  <2>6. IsControl(control.parts) /\ control.diagnostics \in Codes
    <3>1. \/ control.diagnostics = <<"E_CONTROL_UNREADABLE">>
          \/ control.diagnostics = <<"E_CONTROL_UNPARSABLE">>
          \/ control.diagnostics = << >>
      BY ControlRead
    <3>2. <<"E_CONTROL_UNREADABLE">> \in Codes /\ <<"E_CONTROL_UNPARSABLE">> \in Codes
          /\ << >> \in Codes
      BY DEF Codes, DiagnosticCodes
    <3> QED BY <3>1, <3>2, ControlRead
  <2>7. /\ patches.diagnostics \in Codes
        /\ \A i \in DOMAIN patches.patches : IsPatch(patches.patches[i])
    <3>1. patches.diagnostics \in Seq({"E_PATCH_FILE_MISSING"})
      BY PatchesAre
    <3>2. {"E_PATCH_FILE_MISSING"} \subseteq DiagnosticCodes
      BY DEF DiagnosticCodes
    <3> HIDE DEF patches
    <3>3. patches.diagnostics \in Codes
      BY <3>1, <3>2 DEF Codes
    <3> QED BY <3>3, PatchesAre DEF patches
  <2> HIDE DEF changelog, control, patches
  <2>8. diagnostics \in Codes
    BY <2>5, <2>6, <2>7, CodesJoin
  <2>9. verdict \in Verdicts
    BY DEF Verdicts
  <2> HIDE DEF diagnostics, verdict
  <2>10. /\ OptIdentity(r.identity) /\ r.maintainers \in MaintainerInfo
         /\ \A k \in DOMAIN SourceMetadataFields : OptText(r.source_metadata[k])
         /\ IsBuildMetadata(r.build_metadata)
         /\ \A i \in DOMAIN r.binary_packages : IsBinaryPackage(r.binary_packages[i])
    BY <2>3, <2>5, <2>6 DEF IsControl
  <2>11. /\ r.source_format \in SourceFormats
         /\ \A i \in DOMAIN r.patches : IsPatch(r.patches[i])
         /\ \A i \in DOMAIN r.tests : IsAutopkgtest(r.tests[i])
    BY <2>4, <2>7, FormatIs, TestsAre
  <2>12. IsWatch(r.watch) /\ IsCopyright(r.copyright)
    BY <2>4, WatchIs, CopyrightIs
  <2>13. IsMaintainerScripts(r.maintainer_scripts) /\ r.rules \in RulesInfo /\ IsGbp(r.gbp)
    BY <2>4, ScriptsAre, RulesAre, GbpIs
  <2>14. IsEveryPart(r)
    BY <2>10, <2>11, <2>12, <2>13 DEF IsEveryPart
  <2>15. IsAnalysis(r)
    BY <2>2, <2>8, <2>9, <2>14 DEF IsAnalysis, IsEveryPart, AnalysisFields, Codes
  <2> QED BY <2>1, <2>15
<1> QED BY <1>1, <1>2, <1>3

-----------------------------------------------------------------------------
(* maintenance-context. *)

(* What vcs-metadata is read from: the first paragraph of control, if any. *)
VcsField(t, key) ==
  UNION {IF ps = << >> THEN {} ELSE opt_field(ps[1], key) : ps \in Deb822(t, "control")}

LEMMA ParagraphsOf ==
  ASSUME NEW t, IsTree(t), NEW p
  PROVE  LET parsed == Deb822(t, p)
             ps == IF parsed = {} THEN << >> ELSE CHOOSE x \in parsed : TRUE
         IN  (ps = << >> \/ IsStanzas(ps)) /\ ((parsed = {} /\ ps = << >>) \/ parsed = {ps})
<1> DEFINE parsed == Deb822(t, p)
           ps == IF parsed = {} THEN << >> ELSE CHOOSE x \in parsed : TRUE
<1>1. parsed = {} \/ \E x : parsed = {x}
  BY NoneOrOne
<1>2. \A x \in parsed : IsStanzas(x)
  BY StanzasRead
<1> HIDE DEF parsed
<1>3. CASE parsed = {}
  BY <1>3 DEF parsed
<1>4. CASE parsed # {}
  <2>1. PICK x : parsed = {x}
    BY <1>1, <1>4
  <2>2. ps = x
    BY <2>1
  <2> HIDE DEF ps
  <2> QED BY <1>2, <2>1, <2>2 DEF parsed, ps
<1> QED BY <1>3, <1>4

LEMMA VcsRead ==
  ASSUME NEW t, IsTree(t)
  PROVE  LET v == read_vcs_metadata(t)
         IN  /\ DOMAIN v = {"vcs_git", "vcs_browser", "homepage"}
             /\ v.vcs_git = VcsField(t, "Vcs-Git") /\ v.vcs_browser = VcsField(t, "Vcs-Browser")
             /\ v.homepage = VcsField(t, "Homepage")
             /\ \A k \in DOMAIN v : OptText(v[k])
<1> DEFINE parsed == Deb822(t, "control")
           ps == IF parsed = {} THEN << >> ELSE CHOOSE x \in parsed : TRUE
           Opt(key) == IF ps = << >> THEN {} ELSE opt_field(ps[1], key)
<1>1. read_vcs_metadata(t) = parse_vcs_metadata(ps)
  BY DEF read_vcs_metadata
<1>2. (ps = << >> \/ IsStanzas(ps)) /\ ((parsed = {} /\ ps = << >>) \/ parsed = {ps})
  BY ParagraphsOf
<1> HIDE DEF ps
<1>3. \A key : VcsField(t, key) = Opt(key)
  <2> HIDE DEF parsed
  <2> SUFFICES ASSUME NEW key PROVE VcsField(t, key) = Opt(key)
    OBVIOUS
  <2>1. VcsField(t, key) = UNION {IF x = << >> THEN {} ELSE opt_field(x[1], key) : x \in parsed}
    BY DEF VcsField, parsed
  <2>2. CASE parsed = {} /\ ps = << >>
    BY <2>1, <2>2
  <2>3. CASE parsed = {ps}
    BY <2>1, <2>3
  <2> QED BY <1>2, <2>2, <2>3
<1>4. LET v == parse_vcs_metadata(ps)
      IN  /\ DOMAIN v = {"vcs_git", "vcs_browser", "homepage"}
          /\ v.vcs_git = Opt("Vcs-Git") /\ v.vcs_browser = Opt("Vcs-Browser")
          /\ v.homepage = Opt("Homepage")
          /\ \A k \in DOMAIN v : OptText(v[k])
  BY <1>2, VcsIs
<1> QED BY <1>1, <1>3, <1>4

LEMMA UpstreamRead ==
  ASSUME NEW t, IsTree(t)
  PROVE  LET u == read_upstream_metadata(t)
         IN  /\ DOMAIN u = {"upstream_name", "upstream_contact", "upstream_url"}
             /\ \A k \in DOMAIN u : OptText(u[k])
<1> DEFINE parsed == Deb822(t, "copyright")
           ps == IF parsed = {} THEN << >> ELSE CHOOSE x \in parsed : TRUE
<1>1. read_upstream_metadata(t) = parse_upstream_metadata(ps)
  BY DEF read_upstream_metadata
<1>2. ps = << >> \/ IsStanzas(ps)
  BY ParagraphsOf
<1> HIDE DEF ps
<1> QED BY <1>1, <1>2, UpstreamIs

(* The relationship of the two, as the report has it. *)
Related(upstream, vcs) ==
  [k \in DOMAIN NoRelationship |-> IF k \in DOMAIN vcs THEN vcs[k] ELSE upstream[k]]

RelationshipFields == {"upstream_name", "upstream_contact", "upstream_url",
                       "vcs_git", "vcs_browser", "homepage"}

LEMMA RelationshipIs ==
  ASSUME NEW t, IsTree(t)
  PROVE  LET r == Related(read_upstream_metadata(t), read_vcs_metadata(t))
         IN  /\ IsRelationship(r)
             /\ r.vcs_git = VcsField(t, "Vcs-Git") /\ r.vcs_browser = VcsField(t, "Vcs-Browser")
             /\ r.homepage = VcsField(t, "Homepage")
<1> DEFINE u == read_upstream_metadata(t)
           v == read_vcs_metadata(t)
           r == Related(u, v)
<1>1. /\ DOMAIN u = {"upstream_name", "upstream_contact", "upstream_url"}
      /\ \A k \in DOMAIN u : OptText(u[k])
  BY UpstreamRead
<1>2. /\ DOMAIN v = {"vcs_git", "vcs_browser", "homepage"}
      /\ v.vcs_git = VcsField(t, "Vcs-Git") /\ v.vcs_browser = VcsField(t, "Vcs-Browser")
      /\ v.homepage = VcsField(t, "Homepage")
      /\ \A k \in DOMAIN v : OptText(v[k])
  BY VcsRead
<1> HIDE DEF u, v
<1>7. DOMAIN NoRelationship = RelationshipFields
  BY DEF NoRelationship, RelationshipFields
<1>3. r = [x \in DOMAIN NoRelationship |-> IF x \in DOMAIN v THEN v[x] ELSE u[x]]
  BY DEF Related
<1> HIDE DEF r
<1>4. DOMAIN r = RelationshipFields
  BY <1>3, <1>7 DEF RelationshipFields
<1>5. \A k \in DOMAIN r : OptText(r[k])
  BY <1>1, <1>2, <1>3, <1>7 DEF RelationshipFields
<1>6. r.vcs_git = v.vcs_git /\ r.vcs_browser = v.vcs_browser /\ r.homepage = v.homepage
  BY <1>2, <1>3, <1>7 DEF RelationshipFields
<1> QED BY <1>2, <1>4, <1>5, <1>6, <1>7 DEF IsRelationship, r, u, v

MaintenanceFields ==
  {"verdict", "diagnostics", "patches", "tests", "watch", "gbp",
   "maintainer_scripts", "upstream_relationship"}

LEMMA EmptyMaintenanceIs ==
  ASSUME NEW verdict \in Verdicts, NEW d \in Codes
  PROVE  IsMaintenance(EmptyMaintenance(verdict, d))
<1> DEFINE r == EmptyMaintenance(verdict, d)
<1>1. DOMAIN r = MaintenanceFields /\ r.verdict = verdict /\ r.diagnostics = d
  BY DEF EmptyMaintenance, MaintenanceFields
<1>2. /\ r.patches = << >> /\ r.tests = << >> /\ r.watch = {} /\ r.gbp = NoGbp
      /\ r.maintainer_scripts = NoScripts /\ r.upstream_relationship = NoRelationship
  BY DEF EmptyMaintenance
<1> HIDE DEF r
<1>3. IsWatch(r.watch)
  BY <1>2 DEF IsWatch
<1>4. IsGbp(r.gbp) /\ IsMaintainerScripts(r.maintainer_scripts)
  BY <1>2, NoGbpIs, NoScriptsAre
<1>5. IsRelationship(NoRelationship)
  <2>1. \A k \in DOMAIN NoRelationship : NoRelationship[k] = {}
    BY DEF NoRelationship
  <2> QED BY <2>1, NoText DEF IsRelationship
<1>6. /\ \A i \in DOMAIN r.patches : IsPatch(r.patches[i])
      /\ \A i \in DOMAIN r.tests : IsAutopkgtest(r.tests[i])
  BY <1>2
<1> QED BY <1>1, <1>2, <1>3, <1>4, <1>5, <1>6 DEF IsMaintenance, MaintenanceFields, Codes, r

LEMMA MaintenanceOfIs ==
  ASSUME NEW t
  PROVE  LET r == MaintenanceOf(t)
         IN  /\ DOMAIN r = MaintenanceFields
             /\ r.verdict = IF Has(read_patches(t).diagnostics, "E_PATCH_FILE_MISSING")
                            THEN "Fail" ELSE "Pass"
             /\ r.diagnostics = read_patches(t).diagnostics
             /\ r.patches = read_patches(t).patches
             /\ r.tests = read_tests_control(t) /\ r.watch = read_watch(t)
             /\ r.gbp = read_gbp_config(t)
             /\ r.maintainer_scripts = read_maintainer_scripts(t)
             /\ r.upstream_relationship = Related(read_upstream_metadata(t), read_vcs_metadata(t))
<1> DEFINE r == MaintenanceOf(t)
           u == Related(read_upstream_metadata(t), read_vcs_metadata(t))
           verdict == IF Has(read_patches(t).diagnostics, "E_PATCH_FILE_MISSING")
                      THEN "Fail" ELSE "Pass"
<1>1. r = [verdict |-> verdict,
           diagnostics |-> read_patches(t).diagnostics, patches |-> read_patches(t).patches,
           tests |-> read_tests_control(t), watch |-> read_watch(t),
           gbp |-> read_gbp_config(t),
           maintainer_scripts |-> read_maintainer_scripts(t),
           upstream_relationship |-> u]
  BY DEF MaintenanceOf, Related
<1> HIDE DEF r, u, verdict
<1>2. /\ DOMAIN r = MaintenanceFields /\ r.verdict = verdict
      /\ r.diagnostics = read_patches(t).diagnostics
      /\ r.patches = read_patches(t).patches
      /\ r.tests = read_tests_control(t) /\ r.watch = read_watch(t)
      /\ r.gbp = read_gbp_config(t)
      /\ r.maintainer_scripts = read_maintainer_scripts(t)
      /\ r.upstream_relationship = u
  BY <1>1 DEF MaintenanceFields
<1> QED BY <1>2 DEF r, u, verdict

LEMMA MaintenanceIs ==
  ASSUME NEW t, IsTree(t), NEW w
  PROVE  IsMaintenance(maintenance_context(w, t))
<1>1. CASE w # "dir"
  <2>1. maintenance_context(w, t)
          = EmptyMaintenance("InfrastructureError", WorkspaceDiagnostics(w))
    BY <1>1 DEF maintenance_context
  <2> QED BY <2>1, EmptyMaintenanceIs, WorkspaceDiagnosticsAre DEF Verdicts
<1>2. CASE w = "dir" /\ ~t.debian
  <2>1. maintenance_context(w, t) = EmptyMaintenance("Fail", <<"E_DEBIAN_DIR_MISSING">>)
    BY <1>2 DEF maintenance_context
  <2> QED BY <2>1, EmptyMaintenanceIs, NoDebianIs DEF Verdicts
<1>3. CASE w = "dir" /\ t.debian
  <2> DEFINE r == MaintenanceOf(t)
  <2>1. maintenance_context(w, t) = r
    BY <1>3 DEF maintenance_context
  <2>2. /\ DOMAIN r = MaintenanceFields
        /\ r.verdict = IF Has(read_patches(t).diagnostics, "E_PATCH_FILE_MISSING")
                       THEN "Fail" ELSE "Pass"
        /\ r.diagnostics = read_patches(t).diagnostics
        /\ r.patches = read_patches(t).patches
        /\ r.tests = read_tests_control(t) /\ r.watch = read_watch(t)
        /\ r.gbp = read_gbp_config(t)
        /\ r.maintainer_scripts = read_maintainer_scripts(t)
        /\ r.upstream_relationship = Related(read_upstream_metadata(t), read_vcs_metadata(t))
    BY MaintenanceOfIs
  <2> HIDE DEF r
  <2>3. r.verdict \in Verdicts
    BY <2>2 DEF Verdicts
  <2>4. r.diagnostics \in Codes /\ \A i \in DOMAIN r.patches : IsPatch(r.patches[i])
    <3>1. r.diagnostics \in Seq({"E_PATCH_FILE_MISSING"})
      BY <2>2, PatchesAre
    <3>2. {"E_PATCH_FILE_MISSING"} \subseteq DiagnosticCodes
      BY DEF DiagnosticCodes
    <3>3. r.diagnostics \in Codes
      BY <3>1, <3>2 DEF Codes
    <3> QED BY <2>2, <3>3, PatchesAre
  <2>5. \A i \in DOMAIN r.tests : IsAutopkgtest(r.tests[i])
    BY <2>2, TestsAre
  <2>6. IsWatch(r.watch) /\ IsGbp(r.gbp) /\ IsMaintainerScripts(r.maintainer_scripts)
    BY <2>2, WatchIs, GbpIs, ScriptsAre
  <2>7. IsRelationship(r.upstream_relationship)
    BY <2>2, RelationshipIs
  <2>8. IsMaintenance(r)
    BY <2>2, <2>3, <2>4, <2>5, <2>6, <2>7 DEF IsMaintenance, MaintenanceFields, Codes
  <2> QED BY <2>1, <2>8
<1> QED BY <1>1, <1>2, <1>3

-----------------------------------------------------------------------------
(* policy-delta. *)

KnownVersions ==
  {<<4, 4, 0>>, <<4, 5, 0>>, <<4, 6, 0>>, <<4, 6, 0, 1>>, <<4, 7, 0>>, <<4, 7, 4>>,
   <<4, 7, 4, 1>>, <<5, 0, 0>>}

LEMMA VersionsParse ==
  /\ \A text \in DOMAIN ParsedVersions : ParsedVersions[text] \in KnownVersions
  /\ ParsedVersions["4.5.0"] = <<4, 5, 0>> /\ ParsedVersions["4.6.0"] = <<4, 6, 0>>
  /\ ParsedVersions["4.7.0"] = <<4, 7, 0>> /\ ParsedVersions["4.7.4"] = <<4, 7, 4>>
  /\ ParsedVersions["4.7.4.1"] = <<4, 7, 4, 1>> /\ Baseline = <<4, 7, 4>>
<1>1. /\ ParsedVersions["4.4.0"] = <<4, 4, 0>> /\ ParsedVersions["4.5.0"] = <<4, 5, 0>>
      /\ ParsedVersions["4.6.0"] = <<4, 6, 0>> /\ ParsedVersions["4.6.0.1"] = <<4, 6, 0, 1>>
      /\ ParsedVersions["4.7.0"] = <<4, 7, 0>>
  BY DEF ParsedVersions
<1>2. /\ ParsedVersions["4.7.4"] = <<4, 7, 4>> /\ ParsedVersions["4.07.4"] = <<4, 7, 4>>
      /\ ParsedVersions["4.7.4.1"] = <<4, 7, 4, 1>> /\ ParsedVersions["5.0.0"] = <<5, 0, 0>>
  BY DEF ParsedVersions
<1>3. DOMAIN ParsedVersions = {"4.4.0", "4.5.0", "4.6.0", "4.6.0.1", "4.7.0", "4.7.4",
                               "4.07.4", "4.7.4.1", "5.0.0"}
  BY DEF ParsedVersions
<1>4. \A text \in DOMAIN ParsedVersions : ParsedVersions[text] \in KnownVersions
  BY <1>1, <1>2, <1>3, Zenon DEF KnownVersions
<1>5. Baseline = <<4, 7, 4>>
  BY <1>2 DEF Baseline, standards_version_target
<1> QED BY <1>1, <1>2, <1>4, <1>5

LEMMA VersionIs ==
  ASSUME NEW text
  PROVE  VersionOf(text) = {} \/ \E v \in KnownVersions : VersionOf(text) = {v}
<1>1. VersionOf(text) = {} \/ \E x \in DOMAIN ParsedVersions : VersionOf(text) = {ParsedVersions[x]}
  BY DEF VersionOf
<1> QED BY <1>1, VersionsParse

(* The order of versions that agree up to their second number. *)
LEMMA IsOlder ==
  ASSUME NEW v, NEW w, NEW a, NEW b, {1, 2} \subseteq DOMAIN v, {1, 2} \subseteq DOMAIN w,
         v[1] = w[1], v[2] = a, w[2] = b, a \in Nat, b \in Nat, a < b
  PROVE  NotNewer(v, w)
<1>1. \A i \in 1..(2 - 1) : i = 1
  OBVIOUS
<1>2. 2 \in DOMAIN w /\ v[2] < w[2] /\ \A i \in 1..(2 - 1) : i \in DOMAIN v /\ v[i] = w[i]
  BY <1>1
<1> QED BY <1>2 DEF Older, NotNewer

(* A version that is not before a shorter one at any of its numbers. *)
Reaches(v, w) ==
  \/ v[1] > w[1]
  \/ v[1] = w[1] /\ v[2] > w[2]
  \/ v[1] = w[1] /\ v[2] = w[2] /\ v[3] >= w[3]

LEMMA IsNotOlder ==
  ASSUME NEW v, NEW w, DOMAIN w = 1..3, {1, 2, 3} \subseteq DOMAIN v,
         \A i \in 1..3 : v[i] \in Nat /\ w[i] \in Nat, Reaches(v, w), v # w
  PROVE  ~NotNewer(v, w)
<1> SUFFICES ASSUME Older(v, w) PROVE FALSE
  BY DEF NotNewer
<1>1. PICK n \in 1..3 : v[n] < w[n] /\ \A i \in 1..(n - 1) : v[i] = w[i]
  BY DEF Older
<1>2. /\ v[1] \in Nat /\ v[2] \in Nat /\ v[3] \in Nat
      /\ w[1] \in Nat /\ w[2] \in Nat /\ w[3] \in Nat
  OBVIOUS
<1>3. CASE n = 1
  BY <1>1, <1>2, <1>3 DEF Reaches
<1>4. CASE n = 2
  <2>1. v[1] = w[1]
    BY <1>1, <1>4
  <2> QED BY <1>1, <1>2, <1>4, <2>1 DEF Reaches
<1>5. CASE n = 3
  <2>1. v[1] = w[1] /\ v[2] = w[2]
    BY <1>1, <1>5
  <2> QED BY <1>1, <1>2, <1>5, <2>1 DEF Reaches
<1> QED BY <1>1, <1>3, <1>4, <1>5

(* Who is not past 4.5.0 is not past 4.6.0, nor past 4.7.0. *)
LEMMA Passes ==
  ASSUME NEW v \in KnownVersions
  PROVE  /\ NotNewer(v, <<4, 5, 0>>) => NotNewer(v, <<4, 6, 0>>)
         /\ NotNewer(v, <<4, 6, 0>>) => NotNewer(v, <<4, 7, 0>>)
<1>1. CASE v = <<4, 4, 0>>
  BY <1>1, IsOlder
<1>2. CASE v = <<4, 5, 0>>
  BY <1>2, IsOlder
<1>3. CASE v = <<4, 6, 0>>
  <2>1. NotNewer(v, <<4, 6, 0>>)
    BY <1>3 DEF NotNewer
  <2>2. NotNewer(v, <<4, 7, 0>>)
    BY <1>3, IsOlder
  <2> QED BY <2>1, <2>2
<1>4. CASE v = <<4, 6, 0, 1>>
  <2>1. v # <<4, 5, 0>> /\ Reaches(v, <<4, 5, 0>>)
    BY <1>4 DEF Reaches
  <2>2. ~NotNewer(v, <<4, 5, 0>>)
    BY <1>4, <2>1, IsNotOlder
  <2>3. NotNewer(v, <<4, 7, 0>>)
    BY <1>4, IsOlder
  <2> QED BY <2>2, <2>3
<1>5. CASE v \in {<<4, 7, 0>>, <<4, 7, 4>>, <<4, 7, 4, 1>>, <<5, 0, 0>>}
  <2>1. /\ {1, 2, 3} \subseteq DOMAIN v /\ \A i \in 1..3 : v[i] \in Nat
        /\ v[1] > 4 \/ (v[1] = 4 /\ v[2] > 6)
    <3>1. CASE v = <<4, 7, 0>>
      BY <3>1
    <3>2. CASE v = <<4, 7, 4>>
      BY <3>2
    <3>3. CASE v = <<4, 7, 4, 1>>
      BY <3>3
    <3>4. CASE v = <<5, 0, 0>>
      BY <3>4
    <3> QED BY <1>5, <3>1, <3>2, <3>3, <3>4
  <2>2. ASSUME NEW w \in {<<4, 5, 0>>, <<4, 6, 0>>} PROVE ~NotNewer(v, w)
    <3>1. DOMAIN w = 1..3 /\ w[1] = 4 /\ w[2] \in Nat /\ w[2] <= 6 /\ w[3] = 0
      BY <2>2
    <3>2. Reaches(v, w) /\ v # w
      BY <2>1, <3>1 DEF Reaches
    <3> QED BY <2>1, <3>1, <3>2, IsNotOlder
  <2> QED BY <2>2
<1> QED BY <1>1, <1>2, <1>3, <1>4, <1>5 DEF KnownVersions

LEMMA BaselineOrder ==
  /\ NotNewer(<<4, 6, 0>>, Baseline) /\ NotNewer(<<4, 7, 0>>, Baseline)
  /\ NotNewer(<<4, 7, 4>>, Baseline) /\ ~NotNewer(<<4, 7, 4, 1>>, Baseline)
<1>1. Baseline = <<4, 7, 4>>
  BY VersionsParse
<1>2. NotNewer(<<4, 6, 0>>, <<4, 7, 4>>)
  BY IsOlder
<1>3. NotNewer(<<4, 7, 4>>, <<4, 7, 4>>)
  BY DEF NotNewer
<1>4. NotNewer(<<4, 7, 0>>, <<4, 7, 4>>)
  <2> DEFINE v == <<4, 7, 0>>
             w == <<4, 7, 4>>
  <2>1. 3 \in DOMAIN w /\ v[3] < w[3]
    OBVIOUS
  <2>2. \A i \in 1..(3 - 1) : i \in DOMAIN v /\ v[i] = w[i]
    <3>1. \A i \in 1..(3 - 1) : i = 1 \/ i = 2
      OBVIOUS
    <3> QED BY <3>1
  <2>3. 3 \in DOMAIN v
    OBVIOUS
  <2> HIDE DEF v, w
  <2>4. Older(v, w)
    BY <2>1, <2>2, <2>3 DEF Older
  <2> QED BY <2>4 DEF NotNewer, v, w
<1>5. ~NotNewer(<<4, 7, 4, 1>>, <<4, 7, 4>>)
  <2> DEFINE v == <<4, 7, 4, 1>>
             w == <<4, 7, 4>>
  <2>1. /\ DOMAIN w = 1..3 /\ {1, 2, 3} \subseteq DOMAIN v
        /\ \A i \in 1..3 : v[i] \in Nat /\ w[i] \in Nat
    <3>1. \A i \in 1..3 : i = 1 \/ i = 2 \/ i = 3
      OBVIOUS
    <3> QED BY <3>1
  <2>2. Reaches(v, w)
    BY DEF Reaches
  <2>3. v # w
    <3>1. Len(v) = 4 /\ Len(w) = 3
      OBVIOUS
    <3> HIDE DEF v, w
    <3> QED BY <3>1
  <2> HIDE DEF v, w
  <2>4. ~NotNewer(v, w)
    BY <2>1, <2>2, <2>3, IsNotOlder
  <2> QED BY <2>4 DEF v, w
<1> QED BY <1>1, <1>2, <1>3, <1>4, <1>5

LEMMA Appended ==
  ASSUME NEW T, NEW o \in Seq(T), NEW x \in T, NEW k, k = Append(o, x)
  PROVE  /\ k \in Seq(T) /\ Len(k) = Len(o) + 1 /\ k[Len(o) + 1] = x
         /\ \A i \in 1..Len(o) : k[i] = o[i]
<1>1. k \in Seq(T)
  BY AppendProperties
<1>2. Len(k) = Len(o) + 1
  BY AppendProperties
<1>3. k[Len(o) + 1] = x
  BY AppendProperties
<1>4. \A i \in 1..Len(o) : k[i] = o[i]
  BY AppendProperties
<1> QED BY <1>1, <1>2, <1>3, <1>4

(* Of four entries, the last of which is not kept, a tail of the others. *)
TailOfThree(o, s) ==
  \/ Len(o) = 0
  \/ Len(o) = 1 /\ o[1] = s[3]
  \/ Len(o) = 2 /\ o[1] = s[2] /\ o[2] = s[3]
  \/ Len(o) = 3 /\ o[1] = s[1] /\ o[2] = s[2] /\ o[3] = s[3]

LEMMA OnlyOfFour ==
  ASSUME NEW T, NEW s \in Seq(T), Len(s) = 4, NEW S, s[4] \notin S,
         s[1] \in S => s[2] \in S, s[2] \in S => s[3] \in S
  PROVE  TailOfThree(Only(s, S), s)
<1>1. PICK kept : Keeps(kept, s, S, 4) /\ Only(s, S) = kept[4]
  BY OnlyKeeps
<1>2. kept[0] = << >> /\ kept[1] = Kept(kept[0], s, S, 1) /\ kept[2] = Kept(kept[1], s, S, 2)
      /\ kept[3] = Kept(kept[2], s, S, 3) /\ kept[4] = Kept(kept[3], s, S, 4)
  <2>1. 1 \in 1..4 /\ 2 \in 1..4 /\ 3 \in 1..4 /\ 4 \in 1..4
        /\ 1 - 1 = 0 /\ 2 - 1 = 1 /\ 3 - 1 = 2 /\ 4 - 1 = 3
    OBVIOUS
  <2> QED BY <1>1, <2>1 DEF Keeps
<1>3. kept[4] = kept[3]
  BY <1>2 DEF Kept
<1>4. PICK x1, x2, x3 : /\ x1 = s[1] /\ x2 = s[2] /\ x3 = s[3]
                        /\ x1 \in T /\ x2 \in T /\ x3 \in T
  <2>1. 1 \in 1..Len(s) /\ 2 \in 1..Len(s) /\ 3 \in 1..Len(s)
    OBVIOUS
  <2>2. s[1] \in T /\ s[2] \in T /\ s[3] \in T
    BY <2>1, ElementOfSeq
  <2> QED BY <2>2, Zenon
<1>5. PICK k0, k1, k2, k3 : k0 = kept[0] /\ k1 = kept[1] /\ k2 = kept[2] /\ k3 = kept[3]
  OBVIOUS
<1>6. k0 \in Seq(T) /\ Len(k0) = 0
  BY <1>2, <1>5
<1>7. CASE s[1] \in S
  <2>1. k1 \in Seq(T) /\ Len(k1) = 1 /\ k1[1] = x1
    <3>1. k1 = Append(k0, x1)
      BY <1>2, <1>5, <1>4, <1>7 DEF Kept
    <3>2. k1 \in Seq(T) /\ Len(k1) = Len(k0) + 1 /\ k1[Len(k0) + 1] = x1
      BY <1>4, <1>6, <1>7, <3>1, Appended
    <3> QED BY <1>6, <3>2
  <2>2. k2 \in Seq(T) /\ Len(k2) = 2 /\ k2[1] = x1 /\ k2[2] = x2
    <3>1. k2 = Append(k1, x2)
      BY <1>2, <1>5, <1>4, <1>7 DEF Kept
    <3>2. /\ k2 \in Seq(T) /\ Len(k2) = Len(k1) + 1 /\ k2[Len(k1) + 1] = x2
          /\ \A i \in 1..Len(k1) : k2[i] = k1[i]
      BY <1>4, <1>7, <2>1, <3>1, Appended
    <3> QED BY <2>1, <3>2
  <2>3. Len(k3) = 3 /\ k3[1] = x1 /\ k3[2] = x2 /\ k3[3] = x3
    <3>1. k3 = Append(k2, x3)
      BY <1>2, <1>5, <1>4, <1>7 DEF Kept
    <3>2. /\ Len(k3) = Len(k2) + 1 /\ k3[Len(k2) + 1] = x3
          /\ \A i \in 1..Len(k2) : k3[i] = k2[i]
      BY <1>4, <1>7, <2>2, <3>1, Appended
    <3> QED BY <2>2, <3>2
  <2> QED BY <1>1, <1>3, <1>4, <1>5, <2>3 DEF TailOfThree
<1>8. CASE s[1] \notin S
  <2>1. k1 = k0
    BY <1>2, <1>5, <1>8 DEF Kept
  <2>2. CASE s[2] \in S
    <3>1. k2 \in Seq(T) /\ Len(k2) = 1 /\ k2[1] = x2
      <4>1. k2 = Append(k1, x2)
        BY <1>2, <1>5, <1>4, <2>2 DEF Kept
      <4>2. k2 \in Seq(T) /\ Len(k2) = Len(k1) + 1 /\ k2[Len(k1) + 1] = x2
        BY <1>4, <1>6, <2>1, <2>2, <4>1, Appended
      <4> QED BY <1>6, <2>1, <4>2
    <3>2. Len(k3) = 2 /\ k3[1] = x2 /\ k3[2] = x3
      <4>1. k3 = Append(k2, x3)
        BY <1>2, <1>5, <1>4, <2>2 DEF Kept
      <4>2. /\ Len(k3) = Len(k2) + 1 /\ k3[Len(k2) + 1] = x3
            /\ \A i \in 1..Len(k2) : k3[i] = k2[i]
        BY <1>4, <2>2, <3>1, <4>1, Appended
      <4> QED BY <3>1, <4>2
    <3> QED BY <1>1, <1>3, <1>4, <1>5, <3>2 DEF TailOfThree
  <2>3. CASE s[2] \notin S
    <3>1. k2 = k0
      BY <1>2, <1>5, <2>1, <2>3 DEF Kept
    <3>2. CASE s[3] \in S
      <4>1. k3 = Append(k2, x3)
        BY <1>2, <1>5, <1>4, <3>2 DEF Kept
      <4>2. Len(k3) = Len(k2) + 1 /\ k3[Len(k2) + 1] = x3
        BY <1>4, <1>6, <3>1, <3>2, <4>1, Appended
      <4>3. Len(k3) = 1 /\ k3[1] = x3
        BY <1>6, <3>1, <4>2
      <4> QED BY <1>1, <1>3, <1>4, <1>5, <4>3 DEF TailOfThree
    <3>3. CASE s[3] \notin S
      <4>1. k3 = k0
        BY <1>2, <1>5, <3>1, <3>3 DEF Kept
      <4> QED BY <1>1, <1>3, <1>4, <1>5, <1>6, <4>1 DEF TailOfThree
    <3> QED BY <3>2, <3>3
  <2> QED BY <2>2, <2>3
<1> QED BY <1>7, <1>8

(* A path through the checklist without gaps that ends at the baseline. *)
IsPath(path) ==
  /\ path # << >> => path[Len(path)].to_version = Baseline
  /\ \A i \in 1..(Len(path) - 1) : path[i].to_version = path[i + 1].from_version

LEMMA ChecklistIs ==
  /\ UpgradingChecklist \in Seq(ChecklistEntries) /\ Len(UpgradingChecklist) = 4
  /\ UpgradingChecklist[1] = [from_version |-> <<4, 5, 0>>, to_version |-> <<4, 6, 0>>]
  /\ UpgradingChecklist[2] = [from_version |-> <<4, 6, 0>>, to_version |-> <<4, 7, 0>>]
  /\ UpgradingChecklist[3] = [from_version |-> <<4, 7, 0>>, to_version |-> <<4, 7, 4>>]
  /\ UpgradingChecklist[4] = [from_version |-> <<4, 7, 4>>, to_version |-> <<4, 7, 4, 1>>]
<1>1. /\ Interval("4.5.0", "4.6.0") = [from_version |-> <<4, 5, 0>>, to_version |-> <<4, 6, 0>>]
      /\ Interval("4.6.0", "4.7.0") = [from_version |-> <<4, 6, 0>>, to_version |-> <<4, 7, 0>>]
      /\ Interval("4.7.0", "4.7.4") = [from_version |-> <<4, 7, 0>>, to_version |-> <<4, 7, 4>>]
      /\ Interval("4.7.4", "4.7.4.1")
           = [from_version |-> <<4, 7, 4>>, to_version |-> <<4, 7, 4, 1>>]
  BY VersionsParse DEF Interval
<1>2. \A a, b \in Seq(Nat) : [from_version |-> a, to_version |-> b] \in ChecklistEntries
  BY DEF ChecklistEntries
<1>3. /\ <<4, 5, 0>> \in Seq(Nat) /\ <<4, 6, 0>> \in Seq(Nat) /\ <<4, 7, 0>> \in Seq(Nat)
      /\ <<4, 7, 4>> \in Seq(Nat) /\ <<4, 7, 4, 1>> \in Seq(Nat)
  OBVIOUS
<1>4. PICK e1, e2, e3, e4 : /\ e1 = Interval("4.5.0", "4.6.0") /\ e2 = Interval("4.6.0", "4.7.0")
                            /\ e3 = Interval("4.7.0", "4.7.4") /\ e4 = Interval("4.7.4", "4.7.4.1")
  OBVIOUS
<1>5. UpgradingChecklist = <<e1, e2, e3, e4>>
  BY <1>4 DEF UpgradingChecklist
<1>6. e1 \in ChecklistEntries /\ e2 \in ChecklistEntries /\ e3 \in ChecklistEntries
      /\ e4 \in ChecklistEntries
  BY <1>1, <1>2, <1>3, <1>4, Zenon
<1>7. UpgradingChecklist \in Seq(ChecklistEntries) /\ Len(UpgradingChecklist) = 4
  BY <1>5, <1>6
<1> QED BY <1>1, <1>4, <1>5, <1>7

LEMMA PathIs ==
  ASSUME NEW version, OptText(version)
  PROVE  LET path == intervening_entries_in(version, UpgradingChecklist)
         IN  path \in Seq(ChecklistEntries) /\ IsPath(path)
<1> DEFINE from == UNION {VersionOf(v) : v \in version}
           s == UpgradingChecklist
           S == {e \in ToSet(s) : \E v \in from : NotNewer(v, e.from_version)
                                                  /\ NotNewer(e.to_version, Baseline)}
           path == Only(s, S)
<1>1. intervening_entries_in(version, UpgradingChecklist) = path
  BY DEF intervening_entries_in
<1>2. s \in Seq(ChecklistEntries) /\ Len(s) = 4
  BY ChecklistIs
<1>3. /\ s[1].from_version = <<4, 5, 0>> /\ s[1].to_version = <<4, 6, 0>>
      /\ s[2].from_version = <<4, 6, 0>> /\ s[2].to_version = <<4, 7, 0>>
      /\ s[3].from_version = <<4, 7, 0>> /\ s[3].to_version = <<4, 7, 4>>
      /\ s[4].to_version = <<4, 7, 4, 1>>
  BY ChecklistIs
<1> HIDE DEF s
<1>4. s[1] \in ToSet(s) /\ s[2] \in ToSet(s) /\ s[3] \in ToSet(s)
  BY <1>2 DEF ToSet
<1>5. \A v \in from : v \in KnownVersions
  BY VersionIs
<1> HIDE DEF from
<1>6. s[4] \notin S
  BY <1>3, BaselineOrder
<1>7. s[1] \in S => s[2] \in S
  BY <1>3, <1>4, <1>5, BaselineOrder, Passes
<1>8. s[2] \in S => s[3] \in S
  BY <1>3, <1>4, <1>5, BaselineOrder, Passes
<1>9. path \in Seq(ChecklistEntries)
  <2> HIDE DEF S
  <2>1. path \in Seq(ChecklistEntries \cap S)
    BY <1>2, OnlyIs
  <2> QED BY <2>1
<1>10. TailOfThree(path, s)
  <2> HIDE DEF S
  <2> QED BY <1>2, <1>6, <1>7, <1>8, OnlyOfFour
<1> HIDE DEF path
<1>11. IsPath(path)
  <2>1. Baseline = <<4, 7, 4>>
    BY VersionsParse
  <2>2. CASE Len(path) = 0
    BY <1>9, <2>2 DEF IsPath
  <2>3. CASE Len(path) = 1 /\ path[1] = s[3]
    <3>1. Len(path) = 1 /\ path[1] = s[3]
      BY <2>3
    <3> QED BY <1>3, <2>1, <3>1 DEF IsPath
  <2>4. CASE Len(path) = 2 /\ path[1] = s[2] /\ path[2] = s[3]
    <3>1. Len(path) = 2 /\ path[1] = s[2] /\ path[2] = s[3]
      BY <2>4
    <3>2. \A i \in 1..(Len(path) - 1) : i = 1
      BY <3>1
    <3> QED BY <1>3, <2>1, <3>1, <3>2 DEF IsPath
  <2>5. CASE Len(path) = 3 /\ path[1] = s[1] /\ path[2] = s[2] /\ path[3] = s[3]
    <3>1. Len(path) = 3 /\ path[1] = s[1] /\ path[2] = s[2] /\ path[3] = s[3]
      BY <2>5
    <3>2. \A i \in 1..(Len(path) - 1) : i = 1 \/ i = 2
      BY <3>1
    <3>3. path[1].to_version = path[1 + 1].from_version
          /\ path[2].to_version = path[2 + 1].from_version
      <4>1. 1 + 1 = 2 /\ 2 + 1 = 3
        OBVIOUS
      <4> QED BY <1>3, <3>1, <4>1
    <3>4. path[Len(path)].to_version = Baseline
      BY <1>3, <2>1, <3>1
    <3> QED BY <3>2, <3>3, <3>4 DEF IsPath
  <2> QED BY <1>10, <2>2, <2>3, <2>4, <2>5 DEF TailOfThree
<1> QED BY <1>1, <1>9, <1>11

DeltaFields ==
  {"verdict", "diagnostics", "candidate_standards_version", "comparison_outcome",
   "intervening_checklist_entries"}

(* What policy-delta ranks. *)
DeltaVersion(w, t) == IF w = "dir" THEN VcsField(t, "Standards-Version") ELSE {}

LEMMA StandardsAre ==
  ASSUME NEW t, IsTree(t), NEW key
  PROVE  OptText(VcsField(t, key))
<1>1. CASE Deb822(t, "control") = {}
  <2>1. VcsField(t, key) = {}
    BY <1>1 DEF VcsField
  <2> QED BY <2>1, NoText
<1>2. CASE Deb822(t, "control") # {}
  <2>1. PICK ps : Deb822(t, "control") = {ps}
    BY <1>2, NoneOrOne
  <2>2. IsStanzas(ps)
    BY <2>1, StanzasRead
  <2>3. ps # << >> => IsParagraph(ps[1])
    BY <2>2 DEF IsStanzas, ToSet
  <2>4. VcsField(t, key) = IF ps = << >> THEN {} ELSE opt_field(ps[1], key)
    BY <2>1 DEF VcsField
  <2> QED BY <2>3, <2>4, FieldIs, NoText
<1> QED BY <1>1, <1>2

LEMMA DeltaIs ==
  ASSUME NEW t, IsTree(t), NEW w
  PROVE  /\ IsPolicyDelta(policy_delta(w, t))
         /\ policy_delta(w, t).candidate_standards_version = DeltaVersion(w, t)
         /\ IsPath(policy_delta(w, t).intervening_checklist_entries)
<1> DEFINE version == DeltaVersion(w, t)
           delta == compare_standards_version(version)
           missing == w = "dir" /\ delta = "MissingCandidate"
           outcome == CASE delta = "AboveBaseline" -> {"AboveBaseline"}
                        [] delta = "MissingCandidate" -> {}
                        [] delta = "AtOrBelowBaseline" ->
                             IF version = {<<standards_version_target>>}
                             THEN {"AtBaseline"} ELSE {"BelowBaseline"}
           verdict == CASE w # "dir" \/ delta = "AboveBaseline" -> "InfrastructureError"
                        [] missing -> "Fail"
                        [] OTHER -> "Pass"
           diagnostics == WorkspaceDiagnostics(w)
                            \o When(delta = "AboveBaseline", "E_POLICY_BASELINE_STALE")
                            \o When(missing, "E_STANDARDS_VERSION_MISSING")
           between == intervening_entries_in(version, UpgradingChecklist)
           path == IF outcome = {"BelowBaseline"} THEN between ELSE << >>
           r == policy_delta(w, t)
<1>1. version = IF w = "dir" THEN read_standards_version(t) ELSE {}
  BY DEF DeltaVersion, VcsField, read_standards_version
<1> HIDE DEF version
<1>2. r = [verdict |-> verdict, diagnostics |-> diagnostics,
           candidate_standards_version |-> version, comparison_outcome |-> outcome,
           intervening_checklist_entries |-> path]
  BY <1>1 DEF policy_delta
<1>3. OptText(version)
  BY StandardsAre, NoText DEF version, DeltaVersion
<1>4. delta \in {"MissingCandidate", "AboveBaseline", "AtOrBelowBaseline"}
  BY DEF compare_standards_version
<1> HIDE DEF delta
<1>5. verdict \in Verdicts
  BY DEF Verdicts
<1>6. diagnostics \in Codes
  <2>1. When(delta = "AboveBaseline", "E_POLICY_BASELINE_STALE") \in Codes
        /\ When(missing, "E_STANDARDS_VERSION_MISSING") \in Codes
    BY WhenIs DEF DiagnosticCodes
  <2> QED BY <2>1, WorkspaceDiagnosticsAre, CodesJoin
<1>7. outcome \in Option(StandardsComparisons)
  <2>1. outcome \in {{}, {"AboveBaseline"}, {"AtBaseline"}, {"BelowBaseline"}}
    BY <1>4
  <2> HIDE DEF outcome
  <2> QED BY <2>1 DEF Option, StandardsComparisons
<1>8. between \in Seq(ChecklistEntries) /\ IsPath(between)
  BY <1>3, PathIs
<1> HIDE DEF between, outcome, verdict, diagnostics
<1>9. path \in Seq(ChecklistEntries) /\ IsPath(path)
  <2>1. << >> \in Seq(ChecklistEntries) /\ IsPath(<< >>)
    BY DEF IsPath
  <2> QED BY <1>8, <2>1
<1> HIDE DEF r, path
<1>10. DOMAIN r = DeltaFields
  BY <1>2 DEF DeltaFields
<1>11. /\ r.verdict = verdict /\ r.diagnostics = diagnostics
       /\ r.candidate_standards_version = version /\ r.comparison_outcome = outcome
       /\ r.intervening_checklist_entries = path
  BY <1>2
<1> QED BY <1>3, <1>5, <1>6, <1>7, <1>9, <1>10, <1>11
        DEF IsPolicyDelta, Codes, DeltaFields, r, version

-----------------------------------------------------------------------------
(* bts-snapshot. *)

LEMMA SummaryIs ==
  ASSUME NEW bugs \in Seq(BugRecords)
  PROVE  bug_summary(bugs) \in BugSummary
<1>1. \A S : Len(Only(bugs, S)) \in Nat
  <2> SUFFICES ASSUME NEW S PROVE Len(Only(bugs, S)) \in Nat
    OBVIOUS
  <2>1. Only(bugs, S) \in Seq(BugRecords \cap S)
    BY OnlyIs
  <2> QED BY <2>1
<1> QED BY <1>1 DEF bug_summary, BugSummary

LEMMA HermeticIs == hermetic_report \in IssueReports
<1>1. {"serious", "normal", "wishlist", "open", "done"} \subseteq STRING
  BY WordsAssumption, Zenon
<1>2. \A severity \in STRING, status \in STRING, f \in BOOLEAN, p \in BOOLEAN :
        Bug(severity, status, f, p) \in BugRecords
  BY DEF Bug, BugRecords
<1>3. PICK b1, b2, b3 : /\ b1 = Bug("serious", "open", FALSE, TRUE)
                        /\ b2 = Bug("normal", "open", TRUE, FALSE)
                        /\ b3 = Bug("wishlist", "done", FALSE, FALSE)
  OBVIOUS
<1>4. b1 \in BugRecords /\ b2 \in BugRecords /\ b3 \in BugRecords
  BY <1>1, <1>2, <1>3, Zenon
<1>5. hermetic_bugs = <<b1, b2, b3>>
  BY <1>3 DEF hermetic_bugs
<1>6. hermetic_bugs \in Seq(BugRecords)
  BY <1>4, <1>5
<1>7. bug_summary(hermetic_bugs) \in BugSummary
  BY <1>6, SummaryIs
<1>8. Candidate.name \in Text
  BY CandidateAssumption
<1> QED BY <1>6, <1>7, <1>8 DEF hermetic_report, IssueReports, IssueVerdicts

LEMMA BtsIs ==
  ASSUME NEW helper \in HelperRuns
  PROVE  bts_snapshot(helper) \in IssueReports
<1>1. CASE helper.kind \in HelperErrors
  <2>1. Candidate.name \in Text
    BY CandidateAssumption
  <2>2. << >> \in Seq(BugRecords) /\ NoBugs \in BugSummary
    BY DEF NoBugs, BugSummary
  <2> QED BY <1>1, <2>1, <2>2 DEF bts_snapshot, IssueReports, IssueVerdicts
<1>2. CASE helper.kind \notin HelperErrors
  <2>1. bts_snapshot(helper) = bts_run(helper)
    BY <1>2 DEF bts_snapshot
  <2> QED BY <1>2, <2>1, HermeticIs, HelperAssumption DEF bts_run
<1> QED BY <1>1, <1>2

-----------------------------------------------------------------------------
(* What the reports say of each other. *)

LEMMA HasJoined ==
  ASSUME NEW d \in Codes, NEW e \in Codes, NEW x
  PROVE  Has(d \o e, x) <=> Has(d, x) \/ Has(e, x)
<1>1. /\ Len(d) \in Nat /\ Len(e) \in Nat
      /\ DOMAIN d = 1..Len(d) /\ DOMAIN e = 1..Len(e)
  BY DEF Codes
<1>2. d \o e \in Codes /\ Len(d \o e) = Len(d) + Len(e)
  BY ConcatProperties DEF Codes
<1>3. DOMAIN (d \o e) = 1..(Len(d) + Len(e))
  BY <1>2 DEF Codes
<1>4. \A i \in 1..(Len(d) + Len(e)) : (d \o e)[i] = IF i <= Len(d) THEN d[i] ELSE e[i - Len(d)]
  BY ConcatProperties DEF Codes
<1>5. ASSUME Has(d \o e, x) PROVE Has(d, x) \/ Has(e, x)
  <2>1. PICK i \in 1..(Len(d) + Len(e)) : (d \o e)[i] = x
    BY <1>3, <1>5 DEF Has
  <2>2. CASE i <= Len(d)
    BY <1>1, <1>4, <2>1, <2>2 DEF Has
  <2>3. CASE i > Len(d)
    <3>1. i - Len(d) \in 1..Len(e) /\ e[i - Len(d)] = x
      BY <1>1, <1>4, <2>1, <2>3
    <3> QED BY <1>1, <3>1 DEF Has
  <2> QED BY <1>1, <2>1, <2>2, <2>3
<1>6. ASSUME Has(d, x) PROVE Has(d \o e, x)
  <2>1. PICK i \in 1..Len(d) : d[i] = x
    BY <1>1, <1>6 DEF Has
  <2>2. i \in 1..(Len(d) + Len(e)) /\ (d \o e)[i] = x
    BY <1>1, <1>4, <2>1
  <2> QED BY <1>3, <2>2 DEF Has
<1>7. ASSUME Has(e, x) PROVE Has(d \o e, x)
  <2>1. PICK i \in 1..Len(e) : e[i] = x
    BY <1>1, <1>7 DEF Has
  <2>2. Len(d) + i \in 1..(Len(d) + Len(e)) /\ ~(Len(d) + i <= Len(d))
        /\ (Len(d) + i) - Len(d) = i
    BY <1>1
  <2>3. (d \o e)[Len(d) + i] = x
    BY <1>4, <2>1, <2>2
  <2> QED BY <1>3, <2>2, <2>3 DEF Has
<1> QED BY <1>5, <1>6, <1>7

(* The diagnostics of an analysis, and what it has from control. *)
LEMMA AnalysisOfIs ==
  ASSUME NEW t
  PROVE  LET r == AnalysisOf(t)
             changelog == read_changelog_full(t)
             control == read_control(t)
             patches == read_patches(t)
         IN  /\ r.diagnostics
                  = changelog.diagnostics \o control.diagnostics \o patches.diagnostics
             /\ r.verdict = IF r.diagnostics = << >> THEN "Pass" ELSE "Fail"
             /\ r.identity = changelog.identity
             /\ r.source_metadata = control.parts.source_metadata
             /\ r.patches = patches.patches /\ r.tests = read_tests_control(t)
             /\ r.watch = read_watch(t) /\ r.gbp = read_gbp_config(t)
             /\ r.maintainer_scripts = read_maintainer_scripts(t)
<1> DEFINE diagnostics == read_changelog_full(t).diagnostics \o read_control(t).diagnostics
                            \o read_patches(t).diagnostics
           verdict == IF diagnostics = << >> THEN "Pass" ELSE "Fail"
           r == AnalysisOf(t)
<1>1. r.diagnostics = diagnostics /\ r.verdict = verdict
  BY DEF AnalysisOf
<1>2. /\ r.identity = read_changelog_full(t).identity
      /\ r.source_metadata = read_control(t).parts.source_metadata
      /\ r.patches = read_patches(t).patches /\ r.tests = read_tests_control(t)
      /\ r.watch = read_watch(t) /\ r.gbp = read_gbp_config(t)
      /\ r.maintainer_scripts = read_maintainer_scripts(t)
  BY DEF AnalysisOf
<1> HIDE DEF r
<1> QED BY <1>1, <1>2 DEF r

(* Of three lists of diagnostics, none of the first two of a patch. *)
LEMMA DiagnosticsRead ==
  ASSUME NEW t, IsTree(t)
  PROVE  LET c == read_changelog_full(t).diagnostics
             k == read_control(t).diagnostics
             p == read_patches(t).diagnostics
         IN  /\ c \in Codes /\ k \in Codes /\ p \in Codes
             /\ \A x : Has(c \o k \o p, x) <=> Has(c, x) \/ Has(k, x) \/ Has(p, x)
             /\ ~Has(c, "E_PATCH_FILE_MISSING") /\ ~Has(k, "E_PATCH_FILE_MISSING")
             /\ ToSet(p) \subseteq {"E_PATCH_FILE_MISSING"}
<1> DEFINE c == read_changelog_full(t).diagnostics
           k == read_control(t).diagnostics
           p == read_patches(t).diagnostics
<1>1. c \in {<<"E_CHANGELOG_UNREADABLE">>, <<"E_CHANGELOG_UNPARSABLE">>, << >>}
  BY ChangelogRead
<1>2. k \in {<<"E_CONTROL_UNREADABLE">>, <<"E_CONTROL_UNPARSABLE">>, << >>}
  BY ControlRead
<1>3. p \in Seq({"E_PATCH_FILE_MISSING"})
  BY PatchesAre
<1> HIDE DEF c, k, p
<1>4. c \in Codes /\ k \in Codes
  <2>1. \A x \in DiagnosticCodes : <<x>> \in Codes
    BY DEF Codes
  <2>2. << >> \in Codes
    BY DEF Codes
  <2>3. /\ "E_CHANGELOG_UNREADABLE" \in DiagnosticCodes
        /\ "E_CHANGELOG_UNPARSABLE" \in DiagnosticCodes
        /\ "E_CONTROL_UNREADABLE" \in DiagnosticCodes
        /\ "E_CONTROL_UNPARSABLE" \in DiagnosticCodes
    BY DEF DiagnosticCodes
  <2> QED BY <1>1, <1>2, <2>1, <2>2, <2>3, Zenon
<1>5. p \in Codes
  <2>1. {"E_PATCH_FILE_MISSING"} \subseteq DiagnosticCodes
    BY DEF DiagnosticCodes
  <2> QED BY <1>3, <2>1 DEF Codes
<1>6. \A x : Has(c \o k \o p, x) <=> Has(c, x) \/ Has(k, x) \/ Has(p, x)
  <2>1. c \o k \in Codes
    BY <1>4, CodesJoin
  <2> QED BY <1>4, <1>5, <2>1, HasJoined
<1>7. ~Has(c, "E_PATCH_FILE_MISSING") /\ ~Has(k, "E_PATCH_FILE_MISSING")
  BY <1>1, <1>2 DEF Has
<1>8. ToSet(p) \subseteq {"E_PATCH_FILE_MISSING"}
  BY <1>3 DEF ToSet
<1> QED BY <1>4, <1>5, <1>6, <1>7, <1>8 DEF c, k, p

-----------------------------------------------------------------------------
(* source-preparation and source-analysis. *)

IdentityOf(i) == <<i.source, i.version, i.distribution, i.urgency>>

Agreed(p, a) ==
  /\ p.verdict = "Pass" =>
       /\ {<<i.source, i.version>> : i \in a.identity}
            = {<<Candidate.name, Candidate.version>>}
       /\ ToSet(a.diagnostics) \subseteq {"E_PATCH_FILE_MISSING"}
  /\ {<<i.source, i.version, i.distribution, i.urgency>> : i \in p.identity}
       = {<<i.source, i.version, i.distribution, i.urgency>> : i \in a.identity}

LEMMA NothingPrepared ==
  ASSUME NEW t, NEW w, ~(w = "dir" /\ t.debian)
  PROVE  /\ source_preparation(w, t).verdict # "Pass"
         /\ source_preparation(w, t).identity = {}
         /\ source_analysis(w, t).identity = {}
<1>1. source_preparation(w, t).identity = {}
  BY DEF source_preparation
<1>2. source_preparation(w, t).verdict
        = IF w = "dir" THEN PreparationVerdict(NoFindings) ELSE "InfrastructureError"
  BY DEF source_preparation
<1>3. PreparationVerdict(NoFindings) = "Fail"
  BY DEF NoFindings, PreparationVerdict
<1>4. source_analysis(w, t).identity = {}
  <2>1. CASE w # "dir"
    BY <2>1 DEF source_analysis, EmptyAnalysis
  <2>2. CASE w = "dir" /\ ~t.debian
    BY <2>2 DEF source_analysis, EmptyAnalysis
  <2> QED BY <2>1, <2>2
<1> QED BY <1>1, <1>2, <1>3, <1>4

LEMMA SomethingPrepared ==
  ASSUME NEW t, NEW w, source_preparation(w, t).verdict = "Pass"
  PROVE  /\ prep_read_control(t) # {}
         /\ \E e \in prep_read_changelog(t) : e.source = Candidate.name
         /\ \E e \in prep_read_changelog(t) : e.version = Candidate.version
<1> DEFINE source == prep_read_control(t)
           entry == prep_read_changelog(t)
           format == prep_read_source_format(t)
           findings == IF w = "dir" /\ t.debian
                       THEN FindingsOf(t, source, entry, format) ELSE NoFindings
<1>1. w = "dir" /\ PreparationVerdict(findings) = "Pass"
  BY DEF source_preparation
<1>2. t.debian /\ PreparationVerdict(FindingsOf(t, source, entry, format)) = "Pass"
  BY <1>1 DEF NoFindings, PreparationVerdict
<1> HIDE DEF source, entry, format
<1>3. /\ source # {}
      /\ \E e \in entry : e.source = Candidate.name
      /\ \E e \in entry : e.version = Candidate.version
  BY <1>2 DEF FindingsOf, PreparationVerdict
<1> QED BY <1>3 DEF source, entry

LEMMA PreparedAgreed ==
  ASSUME NEW t, IsTree(t), NEW w
  PROVE  Agreed(source_preparation(w, t), source_analysis(w, t))
<1> DEFINE p == source_preparation(w, t)
           a == source_analysis(w, t)
<1>1. CASE ~(w = "dir" /\ t.debian)
  <2>1. p.verdict # "Pass" /\ p.identity = {} /\ a.identity = {}
    BY <1>1, NothingPrepared
  <2> HIDE DEF p, a
  <2> QED BY <2>1 DEF Agreed, p, a
<1>2. CASE w = "dir" /\ t.debian
  <2> DEFINE entry == prep_read_changelog(t)
             Identity(e) == [source |-> e.source, version |-> e.version,
                             distribution |-> e.distribution, urgency |-> e.urgency,
                             maintainer |-> {}, timestamp |-> {}]
             c == read_changelog_full(t).diagnostics
             k == read_control(t).diagnostics
             d == read_patches(t).diagnostics
  <2>1. p.identity = {Identity(e) : e \in entry}
    BY <1>2 DEF source_preparation
  <2>2. a = AnalysisOf(t)
    BY <1>2 DEF source_analysis
  <2>3. a.identity = read_changelog_full(t).identity /\ a.diagnostics = c \o k \o d
    BY <2>2, AnalysisOfIs
  <2>4. \/ entry = {} /\ a.identity = {}
        \/ \E h, i : /\ entry = {h} /\ a.identity = {i} /\ c = << >>
                     /\ \A x \in {"source", "version", "distribution", "urgency"} :
                          i[x] = h[x]
    BY <2>3, ChangelogRead
  <2>5. p.verdict = "Pass" =>
          /\ prep_read_control(t) # {}
          /\ \E e \in entry : e.source = Candidate.name
          /\ \E e \in entry : e.version = Candidate.version
    BY SomethingPrepared
  <2>6. d \in Codes /\ ToSet(d) \subseteq {"E_PATCH_FILE_MISSING"}
    BY DiagnosticsRead
  <2>7. prep_read_control(t) # {} => k = << >>
    BY PrepControlIs, ControlRead
  <2> HIDE DEF p, a, entry, c, k, d
  <2>8. {IdentityOf(i) : i \in p.identity} = {IdentityOf(i) : i \in a.identity}
    <3>1. CASE entry = {} /\ a.identity = {}
      BY <2>1, <3>1
    <3>2. ASSUME NEW h, NEW i, entry = {h}, a.identity = {i},
                 \A x \in {"source", "version", "distribution", "urgency"} : i[x] = h[x]
          PROVE  {IdentityOf(j) : j \in p.identity} = {IdentityOf(j) : j \in a.identity}
      <4>1. IdentityOf(Identity(h)) = IdentityOf(i)
        <5>1. /\ i.source = h.source /\ i.version = h.version
              /\ i.distribution = h.distribution /\ i.urgency = h.urgency
          BY <3>2
        <5> QED BY <5>1 DEF IdentityOf
      <4> HIDE DEF Identity
      <4> QED BY <2>1, <3>2, <4>1
    <3> HIDE DEF Identity
    <3> QED BY <2>4, <3>1, <3>2
  <2>9. ASSUME p.verdict = "Pass"
        PROVE  /\ {<<i.source, i.version>> : i \in a.identity}
                    = {<<Candidate.name, Candidate.version>>}
               /\ ToSet(a.diagnostics) \subseteq {"E_PATCH_FILE_MISSING"}
    <3>1. PICK h, i : /\ entry = {h} /\ a.identity = {i} /\ c = << >>
                      /\ i.source = h.source /\ i.version = h.version
      <4>1. entry # {}
        BY <2>5, <2>9
      <4> QED BY <2>4, <4>1
    <3>2. h.source = Candidate.name /\ h.version = Candidate.version
      BY <2>5, <2>9, <3>1
    <3>3. a.diagnostics = << >> \o << >> \o d
      BY <2>3, <2>5, <2>7, <2>9, <3>1
    <3>4. a.diagnostics = d
      BY <2>6, <3>3 DEF Codes
    <3> QED BY <2>6, <3>1, <3>2, <3>4
  <2> QED BY <2>8, <2>9 DEF Agreed, IdentityOf, p, a
<1> QED BY <1>1, <1>2

-----------------------------------------------------------------------------
(* maintenance-context and source-analysis. *)

Matches(m, a) ==
  /\ \A k \in {"patches", "tests", "watch", "gbp", "maintainer_scripts"} : m[k] = a[k]
  /\ Has(m.diagnostics, "E_PATCH_FILE_MISSING") <=> Has(a.diagnostics, "E_PATCH_FILE_MISSING")
  /\ m.verdict = "Fail" => a.verdict = "Fail"
  /\ ToSet(a.diagnostics) \cap {"E_CONTROL_UNREADABLE", "E_CONTROL_UNPARSABLE"} = {} =>
       \A k \in {"vcs_git", "vcs_browser", "homepage"} :
         m.upstream_relationship[k] = a.source_metadata[k]

LEMMA EmptyMatches ==
  ASSUME NEW verdict, NEW d
  PROVE  Matches(EmptyMaintenance(verdict, d), EmptyAnalysis(verdict, d))
<1> DEFINE m == EmptyMaintenance(verdict, d)
           a == EmptyAnalysis(verdict, d)
<1>1. /\ m.verdict = verdict /\ m.diagnostics = d /\ m.patches = << >> /\ m.tests = << >>
      /\ m.watch = {} /\ m.gbp = NoGbp /\ m.maintainer_scripts = NoScripts
      /\ m.upstream_relationship = NoRelationship
  BY DEF EmptyMaintenance
<1>2. /\ a.verdict = verdict /\ a.diagnostics = d /\ a.patches = << >> /\ a.tests = << >>
      /\ a.watch = {} /\ a.gbp = NoGbp /\ a.maintainer_scripts = NoScripts
      /\ a.source_metadata = NoSourceMetadata
  BY DEF EmptyAnalysis
<1>3. \A k \in {"vcs_git", "vcs_browser", "homepage"} : NoRelationship[k] = {}
  BY DEF NoRelationship
<1>4. \A k \in {"vcs_git", "vcs_browser", "homepage"} : NoSourceMetadata[k] = {}
  BY DEF NoSourceMetadata, SourceMetadataFields
<1> HIDE DEF m, a
<1>5. \A k \in {"patches", "tests", "watch", "gbp", "maintainer_scripts"} : m[k] = a[k]
  BY <1>1, <1>2
<1> QED BY <1>1, <1>2, <1>3, <1>4, <1>5 DEF Matches, m, a

(* Of the paragraph that both have read. *)
LEMMA MetadataIs ==
  ASSUME NEW t, NEW ps, Deb822(t, "control") = {ps}, Sourced(ps)
  PROVE  /\ SourceMetadataOf(ps[1]).vcs_git = VcsField(t, "Vcs-Git")
         /\ SourceMetadataOf(ps[1]).vcs_browser = VcsField(t, "Vcs-Browser")
         /\ SourceMetadataOf(ps[1]).homepage = VcsField(t, "Homepage")
         /\ SourceMetadataOf(ps[1]).standards_version = VcsField(t, "Standards-Version")
<1>1. \A key : VcsField(t, key) = opt_field(ps[1], key)
  <2> SUFFICES ASSUME NEW key PROVE VcsField(t, key) = opt_field(ps[1], key)
    OBVIOUS
  <2>1. VcsField(t, key) = UNION {IF x = << >> THEN {} ELSE opt_field(x[1], key) : x \in {ps}}
    BY DEF VcsField
  <2>2. VcsField(t, key) = IF ps = << >> THEN {} ELSE opt_field(ps[1], key)
    BY <2>1
  <2> QED BY <2>2 DEF Sourced
<1>2. /\ {"vcs_git", "vcs_browser", "homepage", "standards_version"}
           \subseteq DOMAIN SourceMetadataFields
      /\ SourceMetadataFields.vcs_git = "Vcs-Git"
      /\ SourceMetadataFields.vcs_browser = "Vcs-Browser"
      /\ SourceMetadataFields.homepage = "Homepage"
      /\ SourceMetadataFields.standards_version = "Standards-Version"
  BY DEF SourceMetadataFields
<1>3. \A k \in DOMAIN SourceMetadataFields :
        SourceMetadataOf(ps[1])[k] = opt_field(ps[1], SourceMetadataFields[k])
  BY DEF SourceMetadataOf
<1> QED BY <1>1, <1>2, <1>3

LEMMA MaintenanceMatches ==
  ASSUME NEW t, IsTree(t), NEW w
  PROVE  Matches(maintenance_context(w, t), source_analysis(w, t))
<1>1. CASE w # "dir"
  <2>1. /\ maintenance_context(w, t)
             = EmptyMaintenance("InfrastructureError", WorkspaceDiagnostics(w))
        /\ source_analysis(w, t)
             = EmptyAnalysis("InfrastructureError", WorkspaceDiagnostics(w))
    BY <1>1 DEF maintenance_context, source_analysis
  <2> QED BY <2>1, EmptyMatches
<1>2. CASE w = "dir" /\ ~t.debian
  <2>1. /\ maintenance_context(w, t) = EmptyMaintenance("Fail", <<"E_DEBIAN_DIR_MISSING">>)
        /\ source_analysis(w, t) = EmptyAnalysis("Fail", <<"E_DEBIAN_DIR_MISSING">>)
    BY <1>2 DEF maintenance_context, source_analysis
  <2> QED BY <2>1, EmptyMatches
<1>3. CASE w = "dir" /\ t.debian
  <2> DEFINE m == MaintenanceOf(t)
             a == AnalysisOf(t)
             c == read_changelog_full(t).diagnostics
             k == read_control(t).diagnostics
             p == read_patches(t).diagnostics
             metadata == read_control(t).parts.source_metadata
             related == Related(read_upstream_metadata(t), read_vcs_metadata(t))
  <2>1. maintenance_context(w, t) = m /\ source_analysis(w, t) = a
    BY <1>3 DEF maintenance_context, source_analysis
  <2>2. /\ m.verdict = IF Has(p, "E_PATCH_FILE_MISSING") THEN "Fail" ELSE "Pass"
        /\ m.diagnostics = p /\ m.patches = read_patches(t).patches
        /\ m.tests = read_tests_control(t) /\ m.watch = read_watch(t)
        /\ m.gbp = read_gbp_config(t)
        /\ m.maintainer_scripts = read_maintainer_scripts(t)
        /\ m.upstream_relationship = related
    BY MaintenanceOfIs
  <2>3. /\ a.diagnostics = c \o k \o p
        /\ a.verdict = IF a.diagnostics = << >> THEN "Pass" ELSE "Fail"
        /\ a.source_metadata = metadata
        /\ a.patches = read_patches(t).patches /\ a.tests = read_tests_control(t)
        /\ a.watch = read_watch(t) /\ a.gbp = read_gbp_config(t)
        /\ a.maintainer_scripts = read_maintainer_scripts(t)
    BY AnalysisOfIs
  <2>4. /\ \A x : Has(c \o k \o p, x) <=> Has(c, x) \/ Has(k, x) \/ Has(p, x)
        /\ ~Has(c, "E_PATCH_FILE_MISSING") /\ ~Has(k, "E_PATCH_FILE_MISSING")
    BY DiagnosticsRead
  <2>5. /\ related.vcs_git = VcsField(t, "Vcs-Git")
        /\ related.vcs_browser = VcsField(t, "Vcs-Browser")
        /\ related.homepage = VcsField(t, "Homepage")
    BY RelationshipIs
  <2>6. \/ k = <<"E_CONTROL_UNREADABLE">> \/ k = <<"E_CONTROL_UNPARSABLE">>
        \/ \E ps : /\ Deb822(t, "control") = {ps} /\ Sourced(ps)
                   /\ metadata = SourceMetadataOf(ps[1])
    BY ControlRead
  <2> HIDE DEF m, a, c, k, p, metadata, related
  <2>7. \A x \in {"patches", "tests", "watch", "gbp", "maintainer_scripts"} : m[x] = a[x]
    BY <2>2, <2>3
  <2>8. Has(m.diagnostics, "E_PATCH_FILE_MISSING") <=> Has(a.diagnostics, "E_PATCH_FILE_MISSING")
    BY <2>2, <2>3, <2>4
  <2>9. ASSUME m.verdict = "Fail" PROVE a.verdict = "Fail"
    <3>1. Has(a.diagnostics, "E_PATCH_FILE_MISSING")
      BY <2>2, <2>8, <2>9
    <3>2. a.diagnostics # << >>
      BY <3>1 DEF Has
    <3> QED BY <2>3, <3>2
  <2>10. ASSUME ToSet(a.diagnostics) \cap {"E_CONTROL_UNREADABLE", "E_CONTROL_UNPARSABLE"} = {}
         PROVE  \A x \in {"vcs_git", "vcs_browser", "homepage"} :
                  m.upstream_relationship[x] = a.source_metadata[x]
    <3>1. ~Has(a.diagnostics, "E_CONTROL_UNREADABLE")
          /\ ~Has(a.diagnostics, "E_CONTROL_UNPARSABLE")
      BY <2>10 DEF ToSet, Has
    <3>2. ~Has(k, "E_CONTROL_UNREADABLE") /\ ~Has(k, "E_CONTROL_UNPARSABLE")
      BY <2>3, <2>4, <3>1
    <3>3. k # <<"E_CONTROL_UNREADABLE">> /\ k # <<"E_CONTROL_UNPARSABLE">>
      BY <3>2 DEF Has
    <3>4. PICK ps : /\ Deb822(t, "control") = {ps} /\ Sourced(ps)
                    /\ metadata = SourceMetadataOf(ps[1])
      BY <2>6, <3>3
    <3>5. /\ metadata.vcs_git = VcsField(t, "Vcs-Git")
          /\ metadata.vcs_browser = VcsField(t, "Vcs-Browser")
          /\ metadata.homepage = VcsField(t, "Homepage")
      BY <3>4, MetadataIs
    <3> QED BY <2>2, <2>3, <2>5, <3>5
  <2>11. Matches(m, a)
    BY <2>7, <2>8, <2>9, <2>10 DEF Matches
  <2> QED BY <2>1, <2>11
<1> QED BY <1>1, <1>2, <1>3

-----------------------------------------------------------------------------
(* policy-delta and source-analysis. *)

Ranks(w, t, d, a) ==
  LET path == d.intervening_checklist_entries
  IN  /\ Has(a.diagnostics, "E_CONTROL_UNPARSABLE") \/ w # "dir" \/ ~t.debian
           \/ d.candidate_standards_version = a.source_metadata.standards_version
      /\ path # <<>> => path[Len(path)].to_version = Baseline
      /\ \A i \in 1..(Len(path) - 1) : path[i].to_version = path[i + 1].from_version

LEMMA PolicyRanks ==
  ASSUME NEW t, IsTree(t), NEW w
  PROVE  Ranks(w, t, policy_delta(w, t), source_analysis(w, t))
<1> DEFINE d == policy_delta(w, t)
           a == source_analysis(w, t)
<1>1. d.candidate_standards_version = DeltaVersion(w, t) /\ IsPath(d.intervening_checklist_entries)
  BY DeltaIs
<1>2. ASSUME w = "dir", t.debian, ~Has(a.diagnostics, "E_CONTROL_UNPARSABLE")
      PROVE  d.candidate_standards_version = a.source_metadata.standards_version
  <2> DEFINE c == read_changelog_full(t).diagnostics
             k == read_control(t).diagnostics
             p == read_patches(t).diagnostics
             parts == read_control(t).parts
  <2>1. a = AnalysisOf(t)
    BY <1>2 DEF source_analysis
  <2>2. a.diagnostics = c \o k \o p /\ a.source_metadata = parts.source_metadata
    BY <2>1, AnalysisOfIs
  <2>3. \A x : Has(c \o k \o p, x) <=> Has(c, x) \/ Has(k, x) \/ Has(p, x)
    BY DiagnosticsRead
  <2>4. d.candidate_standards_version = VcsField(t, "Standards-Version")
    BY <1>1, <1>2 DEF DeltaVersion
  <2>5. \/ k = <<"E_CONTROL_UNPARSABLE">>
        \/ Deb822(t, "control") = {} /\ parts = NoControl
        \/ \E ps : /\ Deb822(t, "control") = {ps} /\ Sourced(ps)
                   /\ parts.source_metadata = SourceMetadataOf(ps[1])
    BY ControlRead
  <2> HIDE DEF d, a, c, k, p, parts
  <2>6. ~Has(k, "E_CONTROL_UNPARSABLE")
    BY <1>2, <2>2, <2>3
  <2>7. k # <<"E_CONTROL_UNPARSABLE">>
    BY <2>6 DEF Has
  <2>8. CASE Deb822(t, "control") = {} /\ parts = NoControl
    <3>1. VcsField(t, "Standards-Version") = {}
      BY <2>8 DEF VcsField
    <3>2. NoSourceMetadata.standards_version = {}
      BY DEF NoSourceMetadata, SourceMetadataFields
    <3> QED BY <2>2, <2>4, <2>8, <3>1, <3>2 DEF NoControl
  <2>9. CASE \E ps : /\ Deb822(t, "control") = {ps} /\ Sourced(ps)
                     /\ parts.source_metadata = SourceMetadataOf(ps[1])
    BY <2>2, <2>4, <2>9, MetadataIs
  <2> QED BY <2>5, <2>7, <2>8, <2>9
<1> HIDE DEF d, a
<1> QED BY <1>1, <1>2 DEF Ranks, IsPath, d, a

-----------------------------------------------------------------------------
(* One story. *)

(* What a maintainer makes of a source tree is one. *)
RevisionsAreTrees == \A t : IsTree(t) => \A u \in Revisions(t) : IsTree(u)

(* The reports in result are those of the tree as it is, and it is one. *)
StoryInv ==
  /\ RunsInv
  /\ IsTree(tree) /\ workspace \in {"none", "missing", "dir"}
  /\ revised \in 0..MaxRevisions

LEMMA StoryInit == Init => StoryInv
<1> SUFFICES ASSUME Init PROVE StoryInv
  OBVIOUS
<1>1. RunsInv
  BY RunsInit
<1>2. IsTree(tree)
  BY TreeAssumption DEF Init
<1>3. workspace \in {"none", "missing", "dir"} /\ revised \in 0..MaxRevisions
  BY BoundsAssumption DEF Init
<1> QED BY <1>1, <1>2, <1>3 DEF StoryInv

LEMMA StoryNext ==
  ASSUME RevisionsAreTrees PROVE StoryInv /\ [Next]_vars => StoryInv'
<1> SUFFICES ASSUME StoryInv, [Next]_vars PROVE StoryInv'
  OBVIOUS
<1>1. RunsInv'
  BY RunsNext DEF StoryInv
<1>2. CASE UNCHANGED vars
  <2>1. tree' = tree /\ workspace' = workspace /\ revised' = revised
    BY <1>2 DEF vars
  <2> QED BY <1>1, <2>1 DEF StoryInv
<1>3. ASSUME NEW t \in Revisions(tree), Revise(t) PROVE StoryInv'
  <2>1. tree' = t /\ workspace' = workspace /\ revised' = revised + 1 /\ revised < MaxRevisions
    BY <1>3 DEF Revise
  <2>2. IsTree(t)
    BY DEF RevisionsAreTrees, StoryInv
  <2>3. revised' \in 0..MaxRevisions
    BY <2>1, BoundsAssumption DEF StoryInv
  <2> QED BY <1>1, <2>1, <2>2, <2>3 DEF StoryInv
<1>4. ASSUME NEW k \in ToolKeys, NEW helper \in HelperRuns, NEW delivery \in Deliveries,
             Inspect(k, helper, delivery)
      PROVE  StoryInv'
  <2>1. tree' = tree /\ workspace' = workspace /\ revised' = revised
    BY <1>4 DEF Inspect
  <2> QED BY <1>1, <2>1 DEF StoryInv
<1> QED BY <1>2, <1>3, <1>4 DEF Next

(* The report and the status of a run are of the form they promise. *)
LEMMA ReportIs ==
  ASSUME NEW t, IsTree(t), NEW w, NEW k \in ToolKeys, NEW helper \in HelperRuns
  PROVE  LET r == ReportOf(k, w, t, helper)
         IN  WellFormed(k, r) /\ r.verdict \in Verdicts
<1> DEFINE r == ReportOf(k, w, t, helper)
<1>1. CASE k = Prepare
  <2>1. r = source_preparation(w, t)
    BY <1>1 DEF ReportOf, Prepare, Analyse, Maintain, Delta, Bts
  <2>2. IsPreparation(r)
    BY <2>1, PreparationIs
  <2> HIDE DEF r
  <2>3. WellFormed(k, r)
    BY <1>1, <2>2 DEF WellFormed, Prepare
  <2> QED BY <2>2, <2>3 DEF IsPreparation, r
<1>2. CASE k = Analyse
  <2>1. r = source_analysis(w, t)
    BY <1>2 DEF ReportOf, Prepare, Analyse, Maintain, Delta, Bts
  <2>2. IsAnalysis(r)
    BY <2>1, AnalysisIs
  <2> HIDE DEF r
  <2>3. WellFormed(k, r)
    BY <1>2, <2>2 DEF WellFormed, Analyse
  <2> QED BY <2>2, <2>3 DEF IsAnalysis, r
<1>3. CASE k = Maintain
  <2>1. r = maintenance_context(w, t)
    BY <1>3 DEF ReportOf, Prepare, Analyse, Maintain, Delta, Bts
  <2>2. IsMaintenance(r)
    BY <2>1, MaintenanceIs
  <2> HIDE DEF r
  <2>3. WellFormed(k, r)
    BY <1>3, <2>2 DEF WellFormed, Maintain
  <2> QED BY <2>2, <2>3 DEF IsMaintenance, r
<1>4. CASE k = Delta
  <2>1. r = policy_delta(w, t)
    BY <1>4 DEF ReportOf, Prepare, Analyse, Maintain, Delta, Bts
  <2>2. IsPolicyDelta(r)
    BY <2>1, DeltaIs
  <2> HIDE DEF r
  <2>3. WellFormed(k, r)
    BY <1>4, <2>2 DEF WellFormed, Delta
  <2> QED BY <2>2, <2>3 DEF IsPolicyDelta, r
<1>5. CASE k = Bts
  <2>1. r = bts_snapshot(helper)
    BY <1>5 DEF ReportOf, Prepare, Analyse, Maintain, Delta, Bts
  <2>2. r \in IssueReports
    BY <2>1, BtsIs
  <2> HIDE DEF r
  <2>3. WellFormed(k, r)
    BY <1>5, <2>2 DEF WellFormed, Bts
  <2>4. r.verdict \in Verdicts
    BY <2>2 DEF IssueReports, IssueVerdicts, Verdicts
  <2> QED BY <2>3, <2>4 DEF r
<1> QED BY <1>1, <1>2, <1>3, <1>4, <1>5 DEF ToolKeys, Prepare, Analyse, Maintain, Delta, Bts

LEMMA WellFormedReports == StoryInv => ReportsAreWellFormed
<1> SUFFICES ASSUME StoryInv, NEW k \in ToolKeys
             PROVE  /\ Cardinality(result[k]) <= 1
                    /\ \A r \in result[k] :
                         /\ WellFormed(k, r.report) /\ r.delivery \in Deliveries
                         /\ r.status \in Verdicts \cup {"Malformed", "Unclassifiable"}
  BY DEF StoryInv, ReportsAreWellFormed
<1>1. CASE result[k] = {}
  <2>1. Cardinality(result[k]) = 0
    BY <1>1, FS_EmptySet
  <2> QED BY <1>1, <2>1
<1>2. ASSUME NEW helper \in HelperRuns, NEW delivery \in Deliveries,
             result[k] = {RunOf(k, workspace, tree, helper, delivery)}
      PROVE  /\ Cardinality(result[k]) <= 1
             /\ \A r \in result[k] :
                  /\ WellFormed(k, r.report) /\ r.delivery \in Deliveries
                  /\ r.status \in Verdicts \cup {"Malformed", "Unclassifiable"}
  <2>1. PICK run : run = RunOf(k, workspace, tree, helper, delivery)
    OBVIOUS
  <2>2. Cardinality(result[k]) = 1
    BY <1>2, <2>1, FS_Singleton
  <2>3. PICK report : report = ReportOf(k, workspace, tree, helper)
    OBVIOUS
  <2>4. WellFormed(k, report) /\ report.verdict \in Verdicts
    BY <2>3, ReportIs DEF StoryInv
  <2>5. run.report = report /\ run.delivery = delivery
        /\ run.status = StatusOf(k, delivery, report.verdict)
    BY <2>1, <2>3 DEF RunOf
  <2>6. StatusOf(k, delivery, report.verdict) \in Verdicts \cup {"Malformed", "Unclassifiable"}
    BY <2>4 DEF StatusOf, VerdictStatus, Verdicts
  <2>7. result[k] = {run}
    BY <1>2, <2>1
  <2> QED BY <2>2, <2>4, <2>5, <2>6, <2>7
<1> QED BY <1>1, <1>2 DEF StoryInv, RunsInv

(* What has been reported of a tool that does not ask the bug tracker. *)
LEMMA ReportedOf ==
  ASSUME StoryInv, NEW k \in ToolKeys, NEW r \in ReportsOf(k)
  PROVE  /\ k = Prepare => r = source_preparation(workspace, tree)
         /\ k = Analyse => r = source_analysis(workspace, tree)
         /\ k = Maintain => r = maintenance_context(workspace, tree)
         /\ k = Delta => r = policy_delta(workspace, tree)
<1>1. PICK helper, delivery : result[k] = {RunOf(k, workspace, tree, helper, delivery)}
  BY DEF StoryInv, RunsInv, ReportsOf
<1>2. r = RunOf(k, workspace, tree, helper, delivery).report
  BY <1>1 DEF ReportsOf
<1>3. r = ReportOf(k, workspace, tree, helper)
  BY <1>2 DEF RunOf
<1> QED BY <1>3 DEF ReportOf, Prepare, Analyse, Maintain, Delta, Bts

(* Whatever the package, however its tree is revised to other trees and    *)
(* whichever outputs are lost, the five tools report what their contract   *)
(* promises and agree on what they have read, each with its own reader:    *)
(* a prepared candidate has been analysed under its own name and version,  *)
(* maintenance-context repeats the analysis, and policy-delta ranks the    *)
(* version that the analysis reports on a path that ends at the baseline.  *)
THEOREM OneStory ==
  ASSUME RevisionsAreTrees PROVE Spec => []ToolsTellOneStory
<1>1. StoryInv => ToolsTellOneStory
  <2> SUFFICES ASSUME StoryInv PROVE ToolsTellOneStory
    OBVIOUS
  <2>1. Prepare \in ToolKeys /\ Analyse \in ToolKeys /\ Maintain \in ToolKeys /\ Delta \in ToolKeys
    BY DEF ToolKeys, Prepare, Analyse, Maintain, Delta
  <2>2. IsTree(tree)
    BY DEF StoryInv
  <2>3. PreparedIsAnalysed
    <3>1. ASSUME NEW p \in ReportsOf(Prepare), NEW a \in ReportsOf(Analyse) PROVE Agreed(p, a)
      BY <2>1, <2>2, ReportedOf, PreparedAgreed
    <3> QED BY <3>1 DEF PreparedIsAnalysed, Agreed, Prepare, Analyse
  <2>4. MaintenanceMatchesAnalysis
    <3>1. ASSUME NEW m \in ReportsOf(Maintain), NEW a \in ReportsOf(Analyse) PROVE Matches(m, a)
      BY <2>1, <2>2, ReportedOf, MaintenanceMatches
    <3> QED BY <3>1 DEF MaintenanceMatchesAnalysis, Matches, Maintain, Analyse
  <2>5. PolicyMatchesAnalysis
    <3>1. ASSUME NEW d \in ReportsOf(Delta), NEW a \in ReportsOf(Analyse)
          PROVE  Ranks(workspace, tree, d, a)
      BY <2>1, <2>2, ReportedOf, PolicyRanks
    <3> QED BY <3>1 DEF PolicyMatchesAnalysis, Ranks, Delta, Analyse
  <2> QED BY <2>3, <2>4, <2>5, WellFormedReports DEF ToolsTellOneStory
<1>2. Init => StoryInv
  BY StoryInit
<1>3. StoryInv /\ [Next]_vars => StoryInv'
  BY StoryNext
<1> QED BY <1>1, <1>2, <1>3, PTL DEF Spec
=============================================================================
