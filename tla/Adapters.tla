----------------------------- MODULE Adapters ------------------------------
(***************************************************************************)
(* The adapter contract (crates/ironmaint-adapter-api), the three          *)
(* implementations of it in adapters/, the registry the runtime finds them *)
(* in, and the contract of the test kit's conformance suite.  An adapter   *)
(* is a pure function of its inputs, so it is a record of what it answers. *)
(*                                                                         *)
(* A capability an adapter may lack (Option<&dyn ...>) is a set of at most *)
(* one answer.  A tool capability key is the sequence of its segments, a   *)
(* package name the sequence of the classes of its characters, a path the  *)
(* class an adapter tells apart and a version the parts it is split into.  *)
(***************************************************************************)
EXTENDS Naturals, Sequences, FiniteSets

AdapterErrorKinds ==
  {"Unsupported", "InvalidPackage", "InvalidVersion", "InvalidConfiguration",
   "MissingRequiredMetadata", "PolicyUnavailable", "HumanReviewRequired",
   "ExternalTransient", "ExternalPermanent", "InternalAdapterFailure"}

AdapterCapability ==
  {"SourceInspection", "VersionComparison", "UpstreamDiscovery",
   "PolicyDerivation", "BuildPlanning", "PackageQaPlanning",
   "FunctionalTestPlanning", "UpgradeTestPlanning", "ReproducibilityPlanning",
   "IssueRead", "IssueWrite", "ReleaseMetadata", "PublicationPlanning"}

(* ToolCapabilityKey: a namespace, and no segment that is empty. *)
ToolCapabilityKey(key) ==
  /\ key # << >>
  /\ \A i \in DOMAIN key : key[i] # ""
namespace(key) == key[1]

PlannedCheck(key, kind, mandatory) ==
  [key |-> key, kind |-> kind, mandatory |-> mandatory]

ObligationTemplate(requirement, strength) ==
  [requirement |-> requirement, strength |-> strength,
   applicability |-> "Applicable"]

-----------------------------------------------------------------------------
(* Policy: how the evidence of a policy check rules on an obligation.  An  *)
(* answer is a verdict, or an error with its kind.                         *)

Ruling(verdict) == [ok |-> TRUE, verdict |-> verdict]
Refusal(kind) == [ok |-> FALSE, kind |-> kind]

ObligationOutcome == {"Pass", "Fail", "RequiresReview"}

verdict_from_evidence_status(status) ==
  CASE status \in {"Pass", "NotApplicable"} -> Ruling("Pass")
    [] status = "Fail" -> Ruling("Fail")
    [] status = "Inconclusive" -> Refusal("HumanReviewRequired")
    [] status = "InfrastructureError" -> Refusal("PolicyUnavailable")

(* evaluate_obligation, the same in each adapter: a requirement it does    *)
(* not derive is refused, and for the others it is the default's verdict.  *)
evaluate_obligation(policy, requirement, status) ==
  IF \A i \in DOMAIN policy.templates : policy.templates[i].requirement # requirement
  THEN Refusal("InvalidConfiguration")
  ELSE verdict_from_evidence_status(status)

(* derive_obligation_plan: the templates, over the baseline asked for, if  *)
(* any, or a new one for the candidate's distribution, with the            *)
(* authorities the adapter knows.                                          *)
PolicyBaseline(distribution) == [distribution |-> distribution, authorities |-> {}]

derive_obligation_plan(policy, distribution, requested) ==
  LET from == IF requested = {} THEN PolicyBaseline(distribution)
              ELSE CHOOSE b \in requested : TRUE
  IN  [baseline |-> [from EXCEPT !.authorities = @ \cup policy.authorities],
       templates |-> policy.templates]

-----------------------------------------------------------------------------
(* Package names and versions. *)

NameCharacters == {"lower", "upper", "digit", "mark", "underscore", "other"}

Named(name, first, rest) ==
  /\ Len(name) >= 2
  /\ name[1] \in first
  /\ \A i \in DOMAIN name : name[i] \in rest

(* The production adapter and the Debian stub have this in common. *)
debian_validate_name(name) ==
  Named(name, {"lower", "digit"}, {"lower", "digit", "mark"})

(* What may come first is wider than what may come at all. *)
fedora_validate_name(name) ==
  Named(name, {"lower", "upper", "digit"}, {"lower", "digit", "mark", "underscore"})

(* A version as it is written: the number of its colons, what stands       *)
(* before the first, and ranks of the other two parts; the tag of a        *)
(* distribution may follow the release.                                    *)
Version(epoch, version, release, tag) ==
  [colons |-> IF epoch = 0 THEN 0 ELSE 1, epoch |-> epoch, version |-> version,
   release |-> release, tag |-> tag]

fedora_validate_version(v) == v.colons <= 1

(* parse, with strip_dist_tag. *)
fedora_parse(v) == <<IF v.colons = 0 THEN 0 ELSE v.epoch, v.version, v.release>>

(* The library behind the Debian comparators knows of no tag: what follows *)
(* the revision is part of it.                                             *)
debian_parse(v) == <<v.epoch, v.version, v.release, v.tag>>

(* compare: the first part in which two versions differ decides. *)
compare(left, right) ==
  LET differ == {i \in DOMAIN left : left[i] # right[i]}
      first == CHOOSE i \in differ : \A j \in differ : i <= j
  IN  CASE differ = {} -> "Equal"
        [] differ # {} /\ left[first] < right[first] -> "Less"
        [] differ # {} /\ left[first] > right[first] -> "Greater"

-----------------------------------------------------------------------------
(* The domain of a changed path: by the path where the adapter knows it,   *)
(* otherwise by the role the caller gives it.                              *)

ByRole ==
  [UpstreamSource |-> "UpstreamSource", UpstreamTests |-> "Tests",
   PackagingMetadata |-> "PackagingMetadata",
   PackagingBuildConfig |-> "BuildConfiguration",
   PackagingRuntimeDeps |-> "RuntimeDependencies", PackagingTests |-> "Tests",
   PackagingPatch |-> "PatchSet", LicensingMetadata |-> "LicensingMetadata",
   DocumentationOnly |-> "DocumentationOnly",
   ReleaseMetadata |-> "ReleaseMetadata", VendorSpecific |-> "AdapterSpecific"]

DebianPaths ==
  [control |-> "PackagingMetadata", rules |-> "BuildConfiguration",
   debian_tests |-> "Tests", patches |-> "PatchSet",
   debian_other |-> "PackagingMetadata", readme |-> "DocumentationOnly",
   licence |-> "LicensingMetadata"]

FedoraPaths ==
  [spec |-> "PackagingMetadata", sources |-> "PackagingMetadata",
   section |-> "BuildConfiguration", tests |-> "Tests",
   readme |-> "DocumentationOnly", licence |-> "LicensingMetadata"]

classify_one(paths, change) ==
  IF change.path \in DOMAIN paths THEN paths[change.path] ELSE ByRole[change.role]

debian_classify(change) == classify_one(DebianPaths, change)
debian_stub_classify(change) == classify_one(DebianPaths, change)
fedora_classify(change) == classify_one(FedoraPaths, change)

-----------------------------------------------------------------------------
(* Issues: the kinds of action an adapter's tracker knows.  An issue id is *)
(* "number", or what makes it something else.                              *)

IssueActionKind ==
  {"Comment", "Close", "Reopen", "SetSeverity", "AddLabels", "RemoveLabels",
   "Reassign", "Link", "MarkFixed", "MarkPending", "Forward", "CreateRelated",
   "Other"}

(* validate_action of the two stubs. *)
stub_validate_action(issues, action) ==
  IF action.kind \notin issues.actions THEN Refusal("Unsupported")
  ELSE IF action.id \in {"empty", "not_digits", "leading_zero"}
  THEN Refusal("InvalidConfiguration")
  ELSE [ok |-> TRUE]

(* The production adapter looks at the kind alone. *)
debian_validate_action(issues, action) ==
  IF action.kind \notin issues.actions THEN Refusal("Unsupported")
  ELSE [ok |-> TRUE]

-----------------------------------------------------------------------------
(* The three adapters. *)

(* load_authorities, of the manifest in policy/debian. *)
load_authorities ==
  {"Debian Policy", "Developer's Reference", "DEP-5 / copyright-format",
   "BTS operational protocol"}

(* The requirement is told by its prefix; the target version follows it. *)
StandardsVersion ==
  ObligationTemplate("Standards-Version at or below the baseline", "Mandatory")

AuthorityOrder ==
  <<"BestPractice", "TeamPolicy", "DistributionProcedure",
    "FormalSpecification", "NormativePolicy">>

debian_descriptor ==
  [family |-> "debian",
   capabilities |-> {"SourceInspection", "VersionComparison", "IssueRead",
                     "PolicyDerivation"}]

debian_inspection ==
  <<PlannedCheck(<<"debian", "inspect", "source_preparation">>,
                 "SourcePreparation", TRUE),
    PlannedCheck(<<"debian", "inspect", "source_analysis">>,
                 "SourceIntegrity", TRUE),
    PlannedCheck(<<"debian", "inspect", "maintenance_context">>,
                 "Maintenance", TRUE),
    PlannedCheck(<<"debian", "policy", "delta_review">>,
                 "PolicyEvaluation", TRUE),
    PlannedCheck(<<"debian", "issue", "bts_snapshot">>,
                 "IssueCorrelation", TRUE)>>

debian_policy ==
  [order |-> AuthorityOrder, authorities |-> load_authorities,
   templates |-> <<StandardsVersion>>]

Debian ==
  [descriptor |-> debian_descriptor,
   policy |-> {debian_policy},
   build |-> {},
   inspection |-> {debian_inspection},
   issues |-> {[actions |-> {"Comment"}]},
   release |-> {}]

debian_stub_descriptor ==
  [family |-> "debian",
   capabilities |-> AdapterCapability \ {"SourceInspection", "UpstreamDiscovery"}]

debian_stub_build ==
  [build |-> <<PlannedCheck(<<"debian", "build", "sbuild">>, "Build", TRUE)>>,
   qa |-> <<PlannedCheck(<<"debian", "qa", "lintian">>, "PackageQa", TRUE),
            PlannedCheck(<<"debian", "qa", "piuparts">>, "PackageQa", FALSE),
            PlannedCheck(<<"debian", "test", "autopkgtest">>, "FunctionalTest",
                         TRUE)>>]

debian_stub_policy ==
  [order |-> AuthorityOrder, authorities |-> {},
   templates |->
     <<ObligationTemplate("binary must be reproducible from source", "Mandatory"),
       ObligationTemplate("debian/patches must use quilt series", "Recommended")>>]

debian_stub_release ==
  [tags |-> <<"debian/release">>, fallback |-> "sid",
   operations |-> <<"CanonicalRepositoryPush", "IssueTrackerMutation">>]

DebianStub ==
  [descriptor |-> debian_stub_descriptor,
   policy |-> {debian_stub_policy},
   build |-> {debian_stub_build},
   inspection |-> {},
   issues |-> {[actions |-> {"MarkPending", "Forward", "SetSeverity", "Comment",
                             "Link"}]},
   release |-> {debian_stub_release}]

(* It has a policy capability that it does not advertise. *)
fedora_descriptor ==
  [family |-> "fedora",
   capabilities |-> AdapterCapability \ {"PolicyDerivation"}]

fedora_build ==
  [build |-> <<PlannedCheck(<<"fedora", "build", "mock">>, "Build", TRUE)>>,
   qa |-> <<PlannedCheck(<<"fedora", "qa", "rpmlint">>, "PackageQa", TRUE),
            PlannedCheck(<<"fedora", "qa", "spectool">>, "PackageQa", FALSE),
            PlannedCheck(<<"fedora", "test", "functional">>, "FunctionalTest",
                         TRUE)>>]

fedora_inspection ==
  <<PlannedCheck(<<"fedora", "inspect", "source_walk">>, "SourcePreparation", FALSE)>>

fedora_policy ==
  [order |-> <<"BestPractice", "TeamPolicy", "DistributionProcedure",
               "LocalPolicy", "FormalSpecification", "NormativePolicy">>,
   authorities |-> {},
   templates |->
     <<ObligationTemplate("license must be OSI-approved", "Mandatory"),
       ObligationTemplate("release field must end with .fcNN tag", "LocalPolicy")>>]

fedora_release ==
  [tags |-> <<"fedora/release">>, fallback |-> "rawhide",
   operations |-> <<"CanonicalRepositoryPush", "RemoteBuildSubmission",
                    "DistributionUpdateCreation">>]

FedoraStub ==
  [descriptor |-> fedora_descriptor,
   policy |-> {fedora_policy},
   build |-> {fedora_build},
   inspection |-> {fedora_inspection},
   issues |-> {[actions |-> {"SetSeverity", "Comment", "Reopen", "AddLabels",
                             "RemoveLabels"}]},
   release |-> {fedora_release}]

(* The distribution of a publication plan: the one the release candidate   *)
(* was validated for, when it is of the adapter's family.                  *)
into_ref_distribution(adapter, release, distribution) ==
  IF distribution.family = adapter.descriptor.family THEN distribution
  ELSE [family |-> adapter.descriptor.family, release |-> release.fallback]

publication_plan(adapter, release, distribution) ==
  [distribution |-> into_ref_distribution(adapter, release, distribution),
   operations |-> release.operations]

-----------------------------------------------------------------------------
(* The registry, by family: register replaces what was there. *)

NoAdapters == << >>
register(registry, adapter) ==
  [f \in DOMAIN registry \cup {adapter.descriptor.family} |->
     IF f = adapter.descriptor.family THEN adapter ELSE registry[f]]
lookup(registry, family) ==
  IF family \in DOMAIN registry THEN {registry[family]} ELSE {}

(* What the daemon registers at startup. *)
DaemonRegistry == register(register(NoAdapters, Debian), FedoraStub)

Only(answers) == CHOOSE a \in answers : TRUE

(* plan_checks: the capabilities the adapter has, in a fixed order. *)
plan_checks(adapter) ==
  (IF adapter.build = {} THEN << >>
   ELSE Only(adapter.build).build \o Only(adapter.build).qa)
    \o (IF adapter.inspection = {} THEN << >> ELSE Only(adapter.inspection))

(* plan_obligations: the templates of its policy, advertised or not. *)
plan_obligations(adapter) ==
  IF adapter.policy = {} THEN << >> ELSE Only(adapter.policy).templates

(* adapter_error: what the runtime makes of an adapter's error. *)
adapter_error(kind) ==
  CASE kind = "Unsupported" -> "Unsupported"
    [] kind \in {"InvalidPackage", "InvalidVersion", "InvalidConfiguration",
                 "MissingRequiredMetadata"} -> "InvalidInput"
    [] kind \in {"PolicyUnavailable", "HumanReviewRequired", "ExternalTransient",
                 "ExternalPermanent", "InternalAdapterFailure"} -> "Other"

-----------------------------------------------------------------------------
(* The contract the conformance suite holds an adapter to. *)

(* Each capability advertised has an implementation. *)
descriptor_is_valid(adapter) ==
  LET caps == adapter.descriptor.capabilities
      BuildSide == {"BuildPlanning", "PackageQaPlanning", "FunctionalTestPlanning",
                    "UpgradeTestPlanning", "ReproducibilityPlanning"}
  IN  /\ caps # {} /\ caps \subseteq AdapterCapability
      /\ "PolicyDerivation" \in caps => adapter.policy # {}
      /\ caps \cap BuildSide # {} => adapter.build # {}
      /\ caps \cap {"IssueRead", "IssueWrite"} # {} => adapter.issues # {}
      /\ caps \cap {"ReleaseMetadata", "PublicationPlanning"} # {} =>
           adapter.release # {}
      /\ "SourceInspection" \in caps => adapter.inspection # {}

(* What the adapter makes of the versions 1.0.0 and 1.0.1. *)
versioning_conforms(one, later) ==
  /\ compare(later, one) = "Greater"
  /\ compare(one, later) = "Less"
  /\ compare(one, one) = "Equal"

FirstVersion == Version(0, 100, 0, 0)
NextVersion == Version(0, 101, 0, 0)

(* Whether it takes the name of a package, and what it makes of changes. *)
package_model_conforms(accepted, roles) ==
  accepted /\ roles \ {"AdapterSpecific"} # {}

PlainName == <<"lower", "lower", "lower">>
PlainChanges ==
  {[path |-> "control", role |-> "PackagingMetadata"],
   [path |-> "readme", role |-> "DocumentationOnly"]}

(* What it proposes it rules on, never in favour of what failed, and on    *)
(* nothing else.                                                           *)
policy_conforms(policy, family) ==
  /\ derive_obligation_plan(policy, [family |-> family, release |-> "any"], {})
       .baseline.distribution.family = family
  /\ policy.order # << >>
  /\ \A i \in DOMAIN policy.templates : \A status \in {"Pass", "Fail", "NotApplicable"} :
       LET answer == evaluate_obligation(policy, policy.templates[i].requirement, status)
       IN  /\ answer.ok /\ answer.verdict \in ObligationOutcome
           /\ status = "Fail" => answer.verdict # "Pass"
  /\ ~evaluate_obligation(policy, "conformance.a-requirement-no-adapter-proposes",
                          "Pass").ok

build_conforms(adapter) ==
  \A b \in adapter.build :
    /\ b.build # << >> /\ b.qa # << >>
    /\ \A i \in DOMAIN (b.build \o b.qa) :
         namespace((b.build \o b.qa)[i].key) = adapter.descriptor.family

issues_conform(issues) ==
  issues.actions # {} /\ issues.actions \subseteq IssueActionKind

release_conforms(adapter, release) ==
  LET plan == publication_plan(adapter, release,
                [family |-> adapter.descriptor.family, release |-> "any"])
  IN  /\ release.tags # << >> /\ plan.operations # << >>
      /\ \A i \in DOMAIN plan.operations : plan.operations[i] # "Other"

Conforms(adapter) ==
  /\ descriptor_is_valid(adapter)
  /\ \A p \in adapter.policy : policy_conforms(p, adapter.descriptor.family)
  /\ build_conforms(adapter)
  /\ \A i \in adapter.issues : issues_conform(i)
  /\ \A r \in adapter.release : release_conforms(adapter, r)

ASSUME EveryAdapterConforms ==
  /\ \A adapter \in {Debian, DebianStub, FedoraStub} :
       /\ Conforms(adapter)
       /\ \A i \in DOMAIN plan_checks(adapter) :
            ToolCapabilityKey(plan_checks(adapter)[i].key)
  /\ versioning_conforms(debian_parse(FirstVersion), debian_parse(NextVersion))
  /\ versioning_conforms(fedora_parse(FirstVersion), fedora_parse(NextVersion))
  /\ package_model_conforms(debian_validate_name(PlainName),
                            {debian_classify(c) : c \in PlainChanges})
  /\ package_model_conforms(debian_validate_name(PlainName),
                            {debian_stub_classify(c) : c \in PlainChanges})
  /\ package_model_conforms(fedora_validate_name(PlainName),
                            {fedora_classify(c) : c \in PlainChanges})
  /\ \A kind \in AdapterErrorKinds :
       adapter_error(kind) \in {"Unsupported", "InvalidInput", "Other"}

=============================================================================
