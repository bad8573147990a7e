-------------------------- MODULE MCGateEvidence ---------------------------
(***************************************************************************)
(* Instances of GateEvidence for TLC.  Of the plan of the Debian stub      *)
(* adapter, the two checks that share a kind, one mandatory and one        *)
(* advisory; between them one of a kind that no stage is for, as an        *)
(* adapter may plan.                                                       *)
(***************************************************************************)
EXTENDS GateEvidence, TLC

QaPlan ==
  <<[tool |-> "lintian", kind |-> "PackageQa", mandatory |-> TRUE],
    [tool |-> "screenshot", kind |-> "Other", mandatory |-> TRUE],
    [tool |-> "piuparts", kind |-> "PackageQa", mandatory |-> FALSE]>>

Symmetry == Permutations(Procs)
=============================================================================
