--------------------------- MODULE MCToolSurface ---------------------------
(***************************************************************************)
(* The daemon as it is deployed, and an agent with one repair to make: the *)
(* policy review fails on the first tree and passes on the second.         *)
(***************************************************************************)
EXTENDS ToolSurface

DaemonTools == {debian_inspection[i].key : i \in DOMAIN debian_inspection}

MCFindings ==
  [t \in 0..1 |-> [k \in DaemonTools |->
     IF t = 0 /\ k = <<"debian", "policy", "delta_review">> THEN "Fail" ELSE "Pass"]]

MCServer == [workspace |-> TRUE, artifacts |-> TRUE,
             allowlist |-> {"https://salsa.debian.org/"}, token |-> "token"]

FairSpec == Spec /\ KeepsAt

(* service.rs:2184 and the skill's repair loop: an agent that keeps at it  *)
(* gets the job as far as the registered tools go, unless a person has     *)
(* taken it out of its hands; a failed policy check, a capture under       *)
(* another family, a faulty run or an import does not leave it stuck.      *)
AgentReachesFrontier ==
  <>[](job.state \in {Frontier, "HumanReviewRequired"})
=============================================================================
