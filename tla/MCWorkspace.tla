---------------------------- MODULE MCWorkspace ----------------------------
(***************************************************************************)
(* Instances of Workspace for TLC: two tool calls at a time, a patch of a  *)
(* directory and one of a file at the top that bumps the version.          *)
(***************************************************************************)
EXTENDS Workspace, TLC

CONSTANTS p1, p2

TwoPatches == {p1, p2}
BumpingPatches == {p2}
FilePatches == {p2}
TwoHandles == {1, 2}

Symmetry == Permutations(Callers)
=============================================================================
