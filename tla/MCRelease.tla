----------------------------- MODULE MCRelease -----------------------------
(***************************************************************************)
(* Instances of Release for TLC: the two obligations of the Debian stub,   *)
(* of which the evaluator here rules on the first, and two authorities.    *)
(***************************************************************************)
EXTENDS Release

TwoTemplates == <<"reproducible", "quilt">>
KnownToEvaluator == {"reproducible"}
TwoAuthorities == [reproducible |-> "policy", quilt |-> "reference"]

Symmetry == Permutations(Procs) \cup Permutations(Fingerprints)
=============================================================================
