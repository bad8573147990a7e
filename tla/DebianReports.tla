--------------------------- MODULE DebianReports ---------------------------
(***************************************************************************)
(* The wire contract of ironmaint-debian-tool: what each subcommand prints *)
(* and what the normalizers of the daemon read back.                       *)
(*                                                                         *)
(* A text is the sequence of its words and signs, without white space; an  *)
(* Option is the empty set or the set of its value.  Messages and paths of *)
(* diagnostics and the constant fields (schema_version, report_kind,       *)
(* inspector_version) are left out.                                        *)
(***************************************************************************)
EXTENDS Naturals, Sequences

Text == Seq(STRING)
Option(S) == {{}} \cup {{x} : x \in S}
OptText(x) == \/ x = {}
              \/ \E t \in x : x = {t} /\ t \in Text

Verdicts == {"Pass", "Fail", "InfrastructureError"}

DiagnosticCodes ==
  {"E_WORKSPACE_PATH_MISSING", "E_WORKSPACE_NOT_DIR", "E_DEBIAN_DIR_MISSING",
   "E_CONTROL_UNREADABLE", "E_CONTROL_UNPARSABLE", "E_SOURCE_NAME_MISMATCH",
   "E_CHANGELOG_UNREADABLE", "E_CHANGELOG_UNPARSABLE",
   "E_CHANGELOG_SOURCE_NAME_MISMATCH", "E_VERSION_MISMATCH",
   "E_FORMAT_UNREADABLE", "E_PATCH_FILE_MISSING",
   "E_POLICY_BASELINE_STALE", "E_STANDARDS_VERSION_MISSING"}

IsFindings(f) ==
  /\ DOMAIN f = {"debian_directory_present", "control_parsable",
       "control_source_name", "control_source_name_matches_candidate",
       "changelog_parsable", "changelog_source_name",
       "changelog_source_name_matches_candidate", "changelog_version",
       "changelog_version_matches_candidate", "format_identifiable",
       "source_format", "rules_executable"}
  /\ \A k \in {"control_source_name", "changelog_source_name",
               "changelog_version", "source_format"} : OptText(f[k])
  /\ \A k \in {"debian_directory_present", "control_parsable",
               "changelog_parsable", "format_identifiable",
               "rules_executable"} : f[k] \in BOOLEAN

(* The identity of the last changelog entry. *)
IsIdentity(i) ==
  /\ DOMAIN i = {"source", "version", "distribution", "urgency",
                 "maintainer", "timestamp"}
  /\ \A k \in {"source", "version", "distribution", "urgency"} : i[k] \in Text
  /\ OptText(i.maintainer) /\ OptText(i.timestamp)
OptIdentity(x) == \/ x = {}
                  \/ \E i \in x : x = {i} /\ IsIdentity(i)

IsPreparation(r) ==
  /\ DOMAIN r = {"verdict", "diagnostics", "findings", "identity"}
  /\ r.verdict \in Verdicts /\ r.diagnostics \in Seq(DiagnosticCodes)
  /\ IsFindings(r.findings) /\ OptIdentity(r.identity)

SourceFormats == [kind : {"ThreeZeroQuilt", "ThreeZeroNative", "OtherLegacy"},
                  text : Text]

MaintainerInfo == [maintainer : Text, uploaders : Seq(Text)]
NoMaintainers == [maintainer |-> <<>>, uploaders |-> <<>>]

SourceMetadataFields ==
  [standards_version |-> "Standards-Version",
   rules_requires_root |-> "Rules-Requires-Root", section |-> "Section",
   priority |-> "Priority", homepage |-> "Homepage", vcs_git |-> "Vcs-Git",
   vcs_browser |-> "Vcs-Browser"]
NoSourceMetadata == [k \in DOMAIN SourceMetadataFields |-> {}]

IsBuildMetadata(b) ==
  /\ DOMAIN b = {"build_depends", "build_depends_indep", "build_conflicts",
                 "debhelper_compat"}
  /\ \A k \in DOMAIN b \ {"debhelper_compat"} : b[k] \in Seq(Text)
  /\ b.debhelper_compat \in SUBSET Nat
NoBuildMetadata ==
  [build_depends |-> <<>>, build_depends_indep |-> <<>>,
   build_conflicts |-> <<>>, debhelper_compat |-> {}]

IsBinaryPackage(b) ==
  /\ DOMAIN b = {"name", "architecture", "multi_arch", "depends", "provides",
                 "breaks", "conflicts", "replaces", "maintainer", "description"}
  /\ b.name \in Text /\ b.architecture \in Text
  /\ \A k \in {"depends", "provides", "breaks", "conflicts", "replaces"} :
       b[k] \in Seq(Text)
  /\ \A k \in {"multi_arch", "maintainer", "description"} : OptText(b[k])

IsPatch(p) ==
  /\ DOMAIN p = {"name", "description", "author", "forwarded", "last_update"}
  /\ p.name \in Text
  /\ \A k \in DOMAIN p \ {"name"} : OptText(p[k])

IsAutopkgtest(t) ==
  /\ DOMAIN t = {"name", "command", "restrictions", "features", "depends"}
  /\ t.name \in STRING /\ OptText(t.command)
  /\ t.restrictions \in Text /\ t.features \in Text /\ t.depends \in Seq(Text)

IsWatch(w) ==
  \/ w = {}
  \/ \E c \in w : /\ w = {c} /\ DOMAIN c = {"version", "url_pattern", "pgpsig"}
                  /\ c.version \in Nat /\ c.url_pattern \in Text
                  /\ OptText(c.pgpsig)

IsCopyright(c) ==
  /\ DOMAIN c = {"machine_readable", "format_declaration",
                 "files_stanza_count", "license_identifiers"}
  /\ c.machine_readable \in BOOLEAN /\ OptText(c.format_declaration)
  /\ c.files_stanza_count \in Nat /\ c.license_identifiers \in Seq(Text)
NoCopyright == [machine_readable |-> FALSE, format_declaration |-> {},
                files_stanza_count |-> 0, license_identifiers |-> <<>>]

ScriptPresence == [executable : BOOLEAN]
NamedScripts == [name : STRING, presence : ScriptPresence]
IsMaintainerScripts(m) ==
  /\ DOMAIN m = {"preinst", "postinst", "prerm", "postrm", "triggers",
                 "other_scripts"}
  /\ \A k \in DOMAIN m \ {"other_scripts"} : m[k] \in Option(ScriptPresence)
  /\ \A s \in m.other_scripts : s \in NamedScripts
NoScripts == [preinst |-> {}, postinst |-> {}, prerm |-> {}, postrm |-> {},
              triggers |-> {}, other_scripts |-> {}]

RulesInfo == [executable : BOOLEAN, dh_style : BOOLEAN, override_targets : Seq(Text)]
NoRules == [executable |-> FALSE, dh_style |-> FALSE, override_targets |-> <<>>]

GbpBranchFields ==
  [branch |-> "branch", debian_branch |-> "debian-branch",
   upstream_branch |-> "upstream-branch", upstream_tag |-> "upstream-tag",
   debian_tag |-> "debian-tag"]
IsGbp(g) ==
  /\ DOMAIN g = {"gbp_conf_present", "gbp_dch_conf_present", "branch_settings"}
  /\ g.gbp_conf_present \in BOOLEAN /\ g.gbp_dch_conf_present \in BOOLEAN
  /\ \A s \in g.branch_settings : \A k \in DOMAIN GbpBranchFields : OptText(s[k])
NoGbp == [gbp_conf_present |-> FALSE, gbp_dch_conf_present |-> FALSE,
          branch_settings |-> {}]

IsAnalysis(r) ==
  /\ DOMAIN r = {"verdict", "diagnostics", "identity", "maintainers",
       "source_metadata", "build_metadata", "binary_packages",
       "source_format", "patches", "tests", "watch", "copyright",
       "maintainer_scripts", "rules", "gbp"}
  /\ r.verdict \in Verdicts /\ r.diagnostics \in Seq(DiagnosticCodes)
  /\ OptIdentity(r.identity) /\ r.maintainers \in MaintainerInfo
  /\ \A k \in DOMAIN SourceMetadataFields : OptText(r.source_metadata[k])
  /\ IsBuildMetadata(r.build_metadata)
  /\ \A i \in DOMAIN r.binary_packages : IsBinaryPackage(r.binary_packages[i])
  /\ r.source_format \in SourceFormats
  /\ \A i \in DOMAIN r.patches : IsPatch(r.patches[i])
  /\ \A i \in DOMAIN r.tests : IsAutopkgtest(r.tests[i])
  /\ IsWatch(r.watch) /\ IsCopyright(r.copyright)
  /\ IsMaintainerScripts(r.maintainer_scripts)
  /\ r.rules \in RulesInfo /\ IsGbp(r.gbp)

NoRelationship ==
  [upstream_name |-> {}, upstream_contact |-> {}, upstream_url |-> {},
   vcs_git |-> {}, vcs_browser |-> {}, homepage |-> {}]
IsRelationship(u) ==
  DOMAIN u = DOMAIN NoRelationship /\ \A k \in DOMAIN u : OptText(u[k])

IsMaintenance(r) ==
  /\ DOMAIN r = {"verdict", "diagnostics", "patches", "tests", "watch", "gbp",
                 "maintainer_scripts", "upstream_relationship"}
  /\ r.verdict \in Verdicts /\ r.diagnostics \in Seq(DiagnosticCodes)
  /\ \A i \in DOMAIN r.patches : IsPatch(r.patches[i])
  /\ \A i \in DOMAIN r.tests : IsAutopkgtest(r.tests[i])
  /\ IsWatch(r.watch) /\ IsGbp(r.gbp)
  /\ IsMaintainerScripts(r.maintainer_scripts)
  /\ IsRelationship(r.upstream_relationship)

StandardsComparisons == {"AboveBaseline", "AtBaseline", "BelowBaseline"}
ChecklistEntries == [from_version : Seq(Nat), to_version : Seq(Nat)]

IsPolicyDelta(r) ==
  /\ DOMAIN r = {"verdict", "diagnostics", "candidate_standards_version",
       "comparison_outcome", "intervening_checklist_entries"}
  /\ r.verdict \in Verdicts /\ r.diagnostics \in Seq(DiagnosticCodes)
  /\ OptText(r.candidate_standards_version)
  /\ r.comparison_outcome \in Option(StandardsComparisons)
  /\ r.intervening_checklist_entries \in Seq(ChecklistEntries)

BugRecords == [severity : STRING, status : STRING, forwarded : BOOLEAN,
               patch_tagged : BOOLEAN]
BugSummary == [open : Nat, serious : Nat, patch_tagged : Nat, forwarded : Nat]
NoBugs == [open |-> 0, serious |-> 0, patch_tagged |-> 0, forwarded |-> 0]
IssueVerdicts == {"Pass", "InfrastructureError"}
IssueReports == [verdict : IssueVerdicts, source_package : Text,
                 bugs : Seq(BugRecords), summary : BugSummary]
=============================================================================
