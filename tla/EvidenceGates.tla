--------------------------- MODULE EvidenceGates ---------------------------
(***************************************************************************)
(* What the evidence of a check says to the gate it was planned for: the   *)
(* vocabularies of ironmaint-evidence and the pure tables of the runtime's *)
(* check.rs.                                                               *)
(***************************************************************************)
EvidenceStatuses ==
  {"Pass", "Fail", "NotApplicable", "Inconclusive", "InfrastructureError"}

(* gate_stage_for; the kind "Other" is not in its domain. *)
gate_stage_for ==
  [SourcePreparation |-> "SourcePreparation",
   SourceIntegrity |-> "SourceAnalysis",
   IssueCorrelation |-> "IssueAnalysis",
   Maintenance |-> "Maintenance",
   PolicyEvaluation |-> "PolicyEvaluation",
   Build |-> "BuildValidation",
   PackageQa |-> "PackageQa",
   FunctionalTest |-> "FunctionalValidation",
   UpgradeTest |-> "UpgradeValidation",
   ReleaseReview |-> "ReleaseReview",
   ReleaseAssembly |-> "CandidateAssembly",
   Reproducibility |-> "FinalValidation",
   LicenseReview |-> "FinalValidation",
   PublicationValidation |-> "Publication"]

EvidenceKinds == DOMAIN gate_stage_for \cup {"Other"}

GateStatuses ==
  {"NotEvaluated", "NotApplicable", "Pass", "ReviewRequired", "Fail", "Blocked"}

evidence_to_gate_status_Lenient(status) ==   \* mutant: exempts not applicable
  IF status = "NotApplicable" THEN "Pass"
  ELSE [Pass |-> "Pass", Fail |-> "Fail", Inconclusive |-> "ReviewRequired",
        InfrastructureError |-> "Blocked"][status]

evidence_to_gate_status(status) ==
  [Pass |-> "Pass", Fail |-> "Fail", NotApplicable |-> "NotApplicable",
   Inconclusive |-> "ReviewRequired", InfrastructureError |-> "Blocked"][status]

=============================================================================
