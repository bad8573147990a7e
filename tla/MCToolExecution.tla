-------------------------- MODULE MCToolExecution --------------------------
(***************************************************************************)
(* Instances of ToolExecution for TLC: a fixture tool, the two kinds of    *)
(* tool with a normalizer, and one of the class that is not run.           *)
(***************************************************************************)
EXTENDS ToolExecution, TLC

Fixture == [class |-> "Check", input |-> "None", launchable |-> TRUE,
            normalizer |-> "None"]
Inspection == [class |-> "Check", input |-> "JsonStdin", launchable |-> TRUE,
               normalizer |-> "strict"]
PolicyReview == [Inspection EXCEPT !.normalizer = "lenient"]
Signing == [Fixture EXCEPT !.class = "PrivilegedExternal"]

Ending(code, report, out, err) ==
  [code |-> code, report |-> report,
   size |-> [s \in OutputStreams |-> IF s = "Stdout" THEN out ELSE err]]

AllEndings == {Ending(code, report, out, err) :
   code \in {0, 127}, report \in Reports, out \in {1, 2}, err \in {0, 3}}

(* Too few artifacts for two streams, or too few bytes. *)
TightBudgets == {[count |-> 1, bytes |-> 5], [count |-> 2, bytes |-> 3]}

AllTools == {Fixture, Inspection, PolicyReview, Signing}

Symmetry == Permutations(Runs)
=============================================================================
