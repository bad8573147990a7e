---------------------------- MODULE DebianTools ----------------------------
(***************************************************************************)
(* The five inspections of a Debian source candidate: the subcommands of   *)
(* ironmaint-debian-tool, how the daemon registers them, and what their    *)
(* normalizers make of what they print.                                    *)
(*                                                                         *)
(* A candidate is a name, a version and a workspace; the tree in the       *)
(* workspace may be changed in between, which makes another candidate and  *)
(* voids the results.  The tools are run in any order, and what becomes of *)
(* their output on the way to the normalizer is the executor's: it may be  *)
(* cut at the limit.                                                       *)
(***************************************************************************)
EXTENDS DebianSource

CONSTANTS
  Candidate,     \* the candidate's [name, version]
  SoundTree,     \* the tree the maintainer starts from
  Revisions(_),  \* what a tree may be changed to in one step
  HelperRuns,    \* how a run of the BTS helper may end: [kind, report]
  MaxRevisions,  \* bound: changes to the tree
  MaxLost        \* bound: outputs that do not arrive whole

ASSUME BoundsAssumption == MaxRevisions \in Nat /\ MaxLost \in Nat
ASSUME CandidateAssumption == Candidate \in [name : Text, version : Text]
ASSUME TreeAssumption == IsTree(SoundTree)
(* The words the tools add of their own (to the proofs, literals are not   *)
(* strings unless they are said to be).                                    *)
ASSUME WordsAssumption ==
  {"any", "serious", "normal", "wishlist", "open", "done"} \subseteq STRING

VARIABLES
  tree,       \* the source tree
  workspace,  \* workspace_path of the input: "none", "missing" or "dir"
  revised,    \* how often the tree has been changed
  result      \* of each tool, the set of its last run on this candidate

vars == <<tree, workspace, revised, result>>

-----------------------------------------------------------------------------
(* source-preparation. *)

NoFindings ==
  [debian_directory_present |-> FALSE, control_parsable |-> FALSE,
   control_source_name |-> {}, control_source_name_matches_candidate |-> FALSE,
   changelog_parsable |-> FALSE, changelog_source_name |-> {},
   changelog_source_name_matches_candidate |-> FALSE, changelog_version |-> {},
   changelog_version_matches_candidate |-> FALSE, format_identifiable |-> FALSE,
   source_format |-> {}, rules_executable |-> FALSE]

(* Its own reader of control: the first paragraph names a source. *)
prep_read_control(t) ==
  UNION {IF ps = <<>> THEN {} ELSE opt_field(ps[1], "Source") : ps \in Deb822(t, "control")}

prep_read_changelog(t) ==
  IF Readable(t, "changelog")
  THEN parse_changelog_first_entry(LinesOf(t.files["changelog"])) ELSE {}

prep_read_source_format(t) ==
  LET text == IF Readable(t, "source/format")
              THEN FlattenSeq(LinesOf(t.files["source/format"])) ELSE <<>>
  IN  IF text = <<>> THEN {} ELSE {text}

When(condition, code) == IF condition THEN <<code>> ELSE <<>>

ControlDiagnostics(source) ==
  When(source = {}, "E_CONTROL_UNREADABLE")
    \o When(source \notin {{}, {Candidate.name}}, "E_SOURCE_NAME_MISMATCH")

ChangelogDiagnostics(entry) ==
  When(entry = {}, "E_CHANGELOG_UNREADABLE")
    \o When(\E e \in entry : e.source # Candidate.name,
            "E_CHANGELOG_SOURCE_NAME_MISMATCH")
    \o When(\E e \in entry : e.version # Candidate.version, "E_VERSION_MISMATCH")

FindingsOf(t, source, entry, format) ==
  [debian_directory_present |-> TRUE, control_parsable |-> source # {},
   control_source_name |-> source,
   control_source_name_matches_candidate |-> source = {Candidate.name},
   changelog_parsable |-> entry # {},
   changelog_source_name |-> {e.source : e \in entry},
   changelog_source_name_matches_candidate |->
     \E e \in entry : e.source = Candidate.name,
   changelog_version |-> {e.version : e \in entry},
   changelog_version_matches_candidate |->
     \E e \in entry : e.version = Candidate.version,
   format_identifiable |-> format # {}, source_format |-> format,
   rules_executable |-> is_file(t, "rules") /\ executable_bit(t, "rules")]

(* mutant: the version of the changelog is not looked at. *)
PreparationVerdict_AnyVersion(f) ==
  IF /\ f.debian_directory_present /\ f.control_parsable
     /\ f.changelog_parsable /\ f.format_identifiable
     /\ f.control_source_name_matches_candidate
     /\ f.changelog_source_name_matches_candidate
  THEN "Pass" ELSE "Fail"

(* The name and the version must be the candidate's; rules may be anything. *)
PreparationVerdict(f) ==
  IF /\ f.debian_directory_present /\ f.control_parsable
     /\ f.changelog_parsable /\ f.format_identifiable
     /\ f.control_source_name_matches_candidate
     /\ f.changelog_source_name_matches_candidate
     /\ f.changelog_version_matches_candidate
  THEN "Pass" ELSE "Fail"

(* Why none of the tools that read the tree can: no path, or no directory. *)
WorkspaceDiagnostics(w) ==
  When(w = "none", "E_WORKSPACE_PATH_MISSING")
    \o When(w = "missing", "E_WORKSPACE_NOT_DIR")

source_preparation(w, t) ==
  LET source == prep_read_control(t)
      entry == prep_read_changelog(t)
      format == prep_read_source_format(t)
      findings == IF w = "dir" /\ t.debian
                  THEN FindingsOf(t, source, entry, format) ELSE NoFindings
      Identity(e) == [source |-> e.source, version |-> e.version,
                      distribution |-> e.distribution, urgency |-> e.urgency,
                      maintainer |-> {}, timestamp |-> {}]
  IN  [findings |-> findings,
       verdict |-> IF w = "dir" THEN PreparationVerdict(findings)
                   ELSE "InfrastructureError",
       diagnostics |->
         CASE w # "dir" -> WorkspaceDiagnostics(w)
           [] w = "dir" /\ ~t.debian -> <<"E_DEBIAN_DIR_MISSING">>
           [] OTHER -> ControlDiagnostics(source) \o ChangelogDiagnostics(entry)
                         \o When(format = {}, "E_FORMAT_UNREADABLE"),
       identity |-> IF w = "dir" /\ t.debian
                    THEN {Identity(e) : e \in entry} ELSE {}]

-----------------------------------------------------------------------------
(* source-analysis. *)

(* What a report says that has read nothing. *)
EmptyAnalysis(verdict, diagnostics) ==
  [verdict |-> verdict, diagnostics |-> diagnostics, identity |-> {},
   maintainers |-> NoMaintainers, source_metadata |-> NoSourceMetadata,
   build_metadata |-> NoBuildMetadata, binary_packages |-> <<>>,
   source_format |-> [kind |-> "OtherLegacy", text |-> <<>>], patches |-> <<>>,
   tests |-> <<>>, watch |-> {}, copyright |-> NoCopyright,
   maintainer_scripts |-> NoScripts, rules |-> NoRules, gbp |-> NoGbp]

(* Every reader is tried, whatever the ones before it have found. *)
AnalysisOf(t) ==
  LET changelog == read_changelog_full(t)
      control == read_control(t)
      patches == read_patches(t)
      diagnostics == changelog.diagnostics \o control.diagnostics \o patches.diagnostics
  IN  [verdict |-> IF diagnostics = <<>> THEN "Pass" ELSE "Fail",
       diagnostics |-> diagnostics, identity |-> changelog.identity,
       maintainers |-> control.parts.maintainers,
       source_metadata |-> control.parts.source_metadata,
       build_metadata |-> control.parts.build_metadata,
       binary_packages |-> control.parts.binary_packages,
       source_format |-> read_source_format(t), patches |-> patches.patches,
       tests |-> read_tests_control(t), watch |-> read_watch(t),
       copyright |-> read_copyright(t),
       maintainer_scripts |-> read_maintainer_scripts(t),
       rules |-> read_rules(t), gbp |-> read_gbp_config(t)]

source_analysis(w, t) ==
  CASE w # "dir" -> EmptyAnalysis("InfrastructureError", WorkspaceDiagnostics(w))
    [] w = "dir" /\ ~t.debian -> EmptyAnalysis("Fail", <<"E_DEBIAN_DIR_MISSING">>)
    [] OTHER -> AnalysisOf(t)

-----------------------------------------------------------------------------
(* maintenance-context. *)

EmptyMaintenance(verdict, diagnostics) ==
  [verdict |-> verdict, diagnostics |-> diagnostics, patches |-> <<>>,
   tests |-> <<>>, watch |-> {}, gbp |-> NoGbp, maintainer_scripts |-> NoScripts,
   upstream_relationship |-> NoRelationship]

MaintenanceOf(t) ==
  LET patches == read_patches(t)
      upstream == read_upstream_metadata(t)
      vcs == read_vcs_metadata(t)
  IN  [verdict |-> IF Has(patches.diagnostics, "E_PATCH_FILE_MISSING")
                   THEN "Fail" ELSE "Pass",
       diagnostics |-> patches.diagnostics, patches |-> patches.patches,
       tests |-> read_tests_control(t), watch |-> read_watch(t),
       gbp |-> read_gbp_config(t),
       maintainer_scripts |-> read_maintainer_scripts(t),
       upstream_relationship |-> [k \in DOMAIN NoRelationship |->
                                    IF k \in DOMAIN vcs THEN vcs[k] ELSE upstream[k]]]

maintenance_context(w, t) ==
  CASE w # "dir" -> EmptyMaintenance("InfrastructureError", WorkspaceDiagnostics(w))
    [] w = "dir" /\ ~t.debian -> EmptyMaintenance("Fail", <<"E_DEBIAN_DIR_MISSING">>)
    [] OTHER -> MaintenanceOf(t)

-----------------------------------------------------------------------------
(* policy-delta. *)

(* What the version parser makes of the texts: the numbers between dots. *)
ParsedVersions ==
  [v \in {"4.4.0", "4.5.0", "4.6.0", "4.6.0.1", "4.7.0", "4.7.4", "4.07.4",
          "4.7.4.1", "5.0.0"} |->
     CASE v = "4.4.0" -> <<4, 4, 0>> [] v = "4.5.0" -> <<4, 5, 0>>
       [] v = "4.6.0" -> <<4, 6, 0>> [] v = "4.6.0.1" -> <<4, 6, 0, 1>>
       [] v = "4.7.0" -> <<4, 7, 0>> [] v \in {"4.7.4", "4.07.4"} -> <<4, 7, 4>>
       [] v = "4.7.4.1" -> <<4, 7, 4, 1>> [] v = "5.0.0" -> <<5, 0, 0>>]

(* Debian's order on them; of two, one a prefix of the other, it is older. *)
Older(v, w) ==
  \/ \E n \in DOMAIN w :
       /\ n \notin DOMAIN v \/ (n \in DOMAIN v /\ v[n] < w[n])
       /\ \A i \in 1..(n - 1) : i \in DOMAIN v /\ v[i] = w[i]
NotNewer(v, w) == v = w \/ Older(v, w)

standards_version_target == "4.7.4"
Baseline == ParsedVersions[standards_version_target]

Interval(from, to) == [from_version |-> ParsedVersions[from],
                       to_version |-> ParsedVersions[to]]
UpgradingChecklist ==
  <<Interval("4.5.0", "4.6.0"), Interval("4.6.0", "4.7.0"),
    Interval("4.7.0", "4.7.4"), Interval("4.7.4", "4.7.4.1")>>

read_standards_version(t) ==
  UNION {IF ps = <<>> THEN {} ELSE opt_field(ps[1], "Standards-Version") :
           ps \in Deb822(t, "control")}

VersionOf(text) ==
  IF Len(text) = 1 /\ text[1] \in DOMAIN ParsedVersions
  THEN {ParsedVersions[text[1]]} ELSE {}

(* A version that does not parse counts as missing. *)
compare_standards_version(version) ==
  LET parsed == UNION {VersionOf(v) : v \in version}
  IN  CASE parsed = {} -> "MissingCandidate"
        [] \E v \in parsed : Older(Baseline, v) -> "AboveBaseline"
        [] OTHER -> "AtOrBelowBaseline"

(* The intervals that lie between the candidate's version and the target. *)
intervening_entries_in(version, checklist) ==
  LET from == UNION {VersionOf(v) : v \in version}
  IN  Only(checklist, {e \in ToSet(checklist) :
        \E v \in from : NotNewer(v, e.from_version) /\ NotNewer(e.to_version, Baseline)})

(* At the baseline is who has the very text of it. *)
policy_delta(w, t) ==
  LET version == IF w = "dir" THEN read_standards_version(t) ELSE {}
      delta == compare_standards_version(version)
      missing == w = "dir" /\ delta = "MissingCandidate"
      outcome == CASE delta = "AboveBaseline" -> {"AboveBaseline"}
                   [] delta = "MissingCandidate" -> {}
                   [] delta = "AtOrBelowBaseline" ->
                        IF version = {<<standards_version_target>>}
                        THEN {"AtBaseline"} ELSE {"BelowBaseline"}
  IN  [verdict |-> CASE w # "dir" \/ delta = "AboveBaseline" -> "InfrastructureError"
                     [] missing -> "Fail"
                     [] OTHER -> "Pass",
       diagnostics |-> WorkspaceDiagnostics(w)
                         \o When(delta = "AboveBaseline", "E_POLICY_BASELINE_STALE")
                         \o When(missing, "E_STANDARDS_VERSION_MISSING"),
       candidate_standards_version |-> version, comparison_outcome |-> outcome,
       intervening_checklist_entries |->
         IF outcome = {"BelowBaseline"}
         THEN intervening_entries_in(version, UpgradingChecklist) ELSE <<>>]

-----------------------------------------------------------------------------
(* bts-snapshot. *)

Bug(severity, status, forwarded, patch_tagged) ==
  [severity |-> severity, status |-> status, forwarded |-> forwarded,
   patch_tagged |-> patch_tagged]
hermetic_bugs ==
  <<Bug("serious", "open", FALSE, TRUE), Bug("normal", "open", TRUE, FALSE),
    Bug("wishlist", "done", FALSE, FALSE)>>

bug_summary(bugs) ==
  LET Count(S) == Len(Only(bugs, S))
      open == {b \in ToSet(bugs) : b.status = "open"}
  IN  [open |-> Count(open),
       serious |-> Count({b \in open : b.severity \in {"critical", "grave", "serious"}}),
       patch_tagged |-> Count({b \in ToSet(bugs) : b.patch_tagged}),
       forwarded |-> Count({b \in ToSet(bugs) : b.forwarded})]

hermetic_report ==
  [verdict |-> "Pass", source_package |-> Candidate.name, bugs |-> hermetic_bugs,
   summary |-> bug_summary(hermetic_bugs)]

NoHelper == [kind |-> "unset", report |-> hermetic_report]

(* A helper that cannot be run, that fails, or that prints something else. *)
HelperErrors == {"Transport", "HelperExit", "MalformedJson"}

(* Without a helper the report is made up; a helper's is taken as it is. *)
bts_run(helper) == IF helper = NoHelper THEN hermetic_report ELSE helper.report

ASSUME HelperAssumption ==
  \A h \in HelperRuns : h.kind \notin HelperErrors => h.report \in IssueReports

bts_snapshot(helper) ==
  IF helper.kind \in HelperErrors
  THEN [verdict |-> "InfrastructureError", source_package |-> Candidate.name,
        bugs |-> <<>>, summary |-> NoBugs]
  ELSE bts_run(helper)

-----------------------------------------------------------------------------
(* The registration of the daemon, and the normalizers. *)

Subcommands == {"source-preparation", "source-analysis", "maintenance-context",
                "policy-delta", "bts-snapshot"}

ToolKeys == {"debian.inspect.source_preparation", "debian.inspect.source_analysis",
             "debian.inspect.maintenance_context", "debian.policy.delta_review",
             "debian.issue.bts_snapshot"}

(* The subcommand each key runs and the normalizer its output is given to. *)
RegisteredAs(subcommand, normalizer) ==
  [subcommand |-> subcommand, normalizer |-> normalizer]
Registered ==
  [k \in ToolKeys |->
     CASE k = "debian.inspect.source_preparation" ->
            RegisteredAs("source-preparation", "DebianSourcePreparationNormalizer")
       [] k = "debian.inspect.source_analysis" ->
            RegisteredAs("source-analysis", "DebianSourceAnalysisNormalizer")
       [] k = "debian.inspect.maintenance_context" ->
            RegisteredAs("maintenance-context", "DebianMaintenanceContextNormalizer")
       [] k = "debian.policy.delta_review" ->
            RegisteredAs("policy-delta", "DebianPolicyDeltaReviewNormalizer")
       [] k = "debian.issue.bts_snapshot" ->
            RegisteredAs("bts-snapshot", "DebianBtsSnapshotNormalizer")]

(* Only the tool of the bug tracker is told of a helper. *)
HelperOf(k, helper) ==
  IF k = "debian.issue.bts_snapshot" THEN helper ELSE NoHelper

Printed(type, report) == [type |-> type, report |-> report]

(* main: what a subcommand prints on an input that it can read. *)
main(subcommand, helper) ==
  CASE subcommand = "source-preparation" ->
         Printed("DebianSourcePreparationV1", source_preparation(workspace, tree))
    [] subcommand = "source-analysis" ->
         Printed("DebianSourceReportV1", source_analysis(workspace, tree))
    [] subcommand = "maintenance-context" ->
         Printed("DebianMaintenanceContextV1", maintenance_context(workspace, tree))
    [] subcommand = "policy-delta" ->
         Printed("DebianPolicyDeltaReviewV1", policy_delta(workspace, tree))
    [] subcommand = "bts-snapshot" ->
         Printed("DebianIssueReportV1", bts_snapshot(helper))

(* What the normalizer is given: all of it, what fitted the limit, or the  *)
(* nothing of a tool that could not read its input.                        *)
Deliveries == {"whole", "cut", "nothing"}

Parses(output, type) == output.delivery = "whole" /\ output.printed.type = type

(* mutant: a tool that could not look has found nothing. *)
VerdictStatus_Lenient(verdict) == IF verdict = "Fail" THEN "Fail" ELSE "Pass"

(* A tool that could not look gives no verdict on the package. *)
VerdictStatus(verdict) ==
  IF verdict = "InfrastructureError" THEN "Unclassifiable" ELSE verdict

DebianSourcePreparationNormalizer(output) ==
  IF Parses(output, "DebianSourcePreparationV1")
  THEN VerdictStatus(output.printed.report.verdict) ELSE "Malformed"

DebianSourceAnalysisNormalizer(output) ==
  IF Parses(output, "DebianSourceReportV1")
  THEN VerdictStatus(output.printed.report.verdict) ELSE "Malformed"

DebianMaintenanceContextNormalizer(output) ==
  IF Parses(output, "DebianMaintenanceContextV1")
  THEN VerdictStatus(output.printed.report.verdict) ELSE "Malformed"

(* Alone in taking a stale baseline for evidence. *)
DebianPolicyDeltaReviewNormalizer(output) ==
  IF Parses(output, "DebianPolicyDeltaReviewV1")
  THEN output.printed.report.verdict ELSE "Malformed"

DebianBtsSnapshotNormalizer(output) ==
  IF Parses(output, "DebianIssueReportV1")
  THEN VerdictStatus(output.printed.report.verdict) ELSE "Unclassifiable"

normalize(normalizer, output) ==
  CASE normalizer = "DebianSourcePreparationNormalizer" ->
         DebianSourcePreparationNormalizer(output)
    [] normalizer = "DebianSourceAnalysisNormalizer" ->
         DebianSourceAnalysisNormalizer(output)
    [] normalizer = "DebianMaintenanceContextNormalizer" ->
         DebianMaintenanceContextNormalizer(output)
    [] normalizer = "DebianPolicyDeltaReviewNormalizer" ->
         DebianPolicyDeltaReviewNormalizer(output)
    [] normalizer = "DebianBtsSnapshotNormalizer" -> DebianBtsSnapshotNormalizer(output)

-----------------------------------------------------------------------------
Init ==
  /\ tree = SoundTree /\ workspace \in {"none", "missing", "dir"}
  /\ revised = 0
  /\ result = [k \in ToolKeys |-> {}]

(* A change to the tree: a file, a bit or the directory itself. *)
Revise(t) ==
  /\ workspace = "dir" /\ revised < MaxRevisions
  /\ tree' = t /\ revised' = revised + 1
  /\ result' = [k \in ToolKeys |-> {}]
  /\ UNCHANGED workspace

Lost == {k \in ToolKeys : \E r \in result[k] : r.delivery # "whole"}

(* A run of a tool, up to what its normalizer answers. *)
Inspect(k, helper, delivery) ==
  LET printed == main(Registered[k].subcommand, HelperOf(k, helper))
      output == [printed |-> printed, delivery |-> delivery]
  IN  /\ result[k] = {}
      /\ helper = NoHelper \/ k = "debian.issue.bts_snapshot"
      /\ delivery = "whole" \/ Cardinality(Lost) < MaxLost
      /\ result' = [result EXCEPT ![k] =
           {[report |-> printed.report, delivery |-> delivery,
             status |-> normalize(Registered[k].normalizer, output)]}]
      /\ UNCHANGED <<tree, workspace, revised>>

Next == \/ \E t \in Revisions(tree) : Revise(t)
        \/ \E k \in ToolKeys, helper \in HelperRuns, delivery \in Deliveries :
             Inspect(k, helper, delivery)

Spec == Init /\ [][Next]_vars

-----------------------------------------------------------------------------
(* Properties. *)

(* What the last run of a tool has reported, whether or not it got through. *)
ReportsOf(k) == {r.report : r \in result[k]}

WellFormed(k, r) ==
  CASE k = "debian.inspect.source_preparation" -> IsPreparation(r)
    [] k = "debian.inspect.source_analysis" -> IsAnalysis(r)
    [] k = "debian.inspect.maintenance_context" -> IsMaintenance(r)
    [] k = "debian.policy.delta_review" -> IsPolicyDelta(r)
    [] k = "debian.issue.bts_snapshot" -> r \in IssueReports

(* Every subcommand prints the report its normalizer reads, whatever it    *)
(* finds in the tree; what is no verdict is one of the normalizer's errors.*)
ReportsAreWellFormed ==
  /\ IsTree(tree)
  /\ workspace \in {"none", "missing", "dir"} /\ revised \in 0..MaxRevisions
  /\ \A k \in ToolKeys :
       /\ Cardinality(result[k]) <= 1
       /\ \A r \in result[k] :
            /\ WellFormed(k, r.report) /\ r.delivery \in Deliveries
            /\ r.status \in Verdicts \cup {"Malformed", "Unclassifiable"}

(* source-preparation and source-analysis have a reader of changelog and   *)
(* of control each: a candidate that is prepared has been analysed under   *)
(* its own name and version, and nothing but patches is amiss.             *)
PreparedIsAnalysed ==
  \A p \in ReportsOf("debian.inspect.source_preparation"),
     a \in ReportsOf("debian.inspect.source_analysis") :
    /\ p.verdict = "Pass" =>
         /\ {<<i.source, i.version>> : i \in a.identity}
              = {<<Candidate.name, Candidate.version>>}
         /\ ToSet(a.diagnostics) \subseteq {"E_PATCH_FILE_MISSING"}
    /\ {<<i.source, i.version, i.distribution, i.urgency>> : i \in p.identity}
         = {<<i.source, i.version, i.distribution, i.urgency>> : i \in a.identity}

(* maintenance-context and source-analysis tell the same of patches, tests,*)
(* watch file, scripts and branches, and of where the source is kept; a    *)
(* missing patch fails both.                                               *)
MaintenanceMatchesAnalysis ==
  \A m \in ReportsOf("debian.inspect.maintenance_context"),
     a \in ReportsOf("debian.inspect.source_analysis") :
    /\ \A k \in {"patches", "tests", "watch", "gbp", "maintainer_scripts"} : m[k] = a[k]
    /\ Has(m.diagnostics, "E_PATCH_FILE_MISSING") <=> Has(a.diagnostics, "E_PATCH_FILE_MISSING")
    /\ m.verdict = "Fail" => a.verdict = "Fail"
    /\ ToSet(a.diagnostics) \cap {"E_CONTROL_UNREADABLE", "E_CONTROL_UNPARSABLE"} = {} =>
         \A k \in {"vcs_git", "vcs_browser", "homepage"} :
           m.upstream_relationship[k] = a.source_metadata[k]

(* policy-delta ranks the version that source-analysis reports, and what   *)
(* it lists is a path without gaps that ends at the baseline.              *)
PolicyMatchesAnalysis ==
  \A d \in ReportsOf("debian.policy.delta_review"),
     a \in ReportsOf("debian.inspect.source_analysis") :
    LET path == d.intervening_checklist_entries
    IN  /\ Has(a.diagnostics, "E_CONTROL_UNPARSABLE")
             \/ workspace # "dir" \/ ~tree.debian
             \/ d.candidate_standards_version = a.source_metadata.standards_version
        /\ path # <<>> => path[Len(path)].to_version = Baseline
        /\ \A i \in 1..(Len(path) - 1) : path[i].to_version = path[i + 1].from_version

(* The five tools read the same files with readers of their own, and tell  *)
(* one story of a candidate, each in reports of the form it promises.      *)
ToolsTellOneStory ==
  /\ ReportsAreWellFormed
  /\ PreparedIsAnalysed
  /\ MaintenanceMatchesAnalysis
  /\ PolicyMatchesAnalysis

(* A status of Pass comes of a report that arrived whole from a tool that  *)
(* could look: of a workspace that is there, with a debian directory, and  *)
(* for the bug tracker of a helper that answered.                          *)
NothingPassesUnseen ==
  \A k \in ToolKeys : \A r \in result[k] :
    r.status = "Pass" =>
      /\ r.delivery = "whole" /\ r.report.verdict = "Pass"
      /\ k # "debian.issue.bts_snapshot" =>
           workspace = "dir" /\ tree.debian /\ r.report.diagnostics = <<>>
=============================================================================
