--------------------------- MODULE JobLifecycle ----------------------------
(***************************************************************************)
(* What the runtime promises about one maintenance job, whatever runs      *)
(* concurrently: its projection row changes in single atomic moves, each   *)
(* of them legal from the state the row is in at that moment, each of them *)
(* taking the next version.  JobService implements this specification.     *)
(***************************************************************************)
EXTENDS TransitionEngine

CONSTANT Candidates            \* the source candidates a job may activate

VARIABLE row                   \* the job's projection row

NoRow == [state |-> "None", active |-> NoCandidate, version |-> 0]

BirthRow == [state |-> "EventDetected", active |-> NoCandidate, version |-> 0]

Rows == [state : JobStates, active : Candidates \cup {NoCandidate},
         version : Nat]

LifecycleInit == row = NoRow

Create == row = NoRow /\ row' = BirthRow

(* The source under review is pinned: only a repairable job takes one. *)
Activate(c) ==
  /\ row.state \in RepairableStates
  /\ row' = [row EXCEPT !.active = c, !.version = @ + 1]

MoveTo(s) == row' = [row EXCEPT !.state = s, !.version = @ + 1]

(* Forward, along the table, with a candidate whenever gates are asked of  *)
(* one, and never past the approval nobody can record.                     *)
Advance ==
  \E rule \in TRANSITION_RULES :
    /\ row.state = rule.from
    /\ rule.gates # {} => row.active # NoCandidate
    /\ rule.approvals = {}
    /\ MoveTo(rule.to)

(* Out of the flow, from any state that is not terminal. *)
Divert ==
  /\ row.state \in FlowStates \cup ExceptionalStates
  /\ \E s \in SyntheticTargets : MoveTo(s)

(* Back into the flow, from human review alone: nothing records where to   *)
(* resume a job that infrastructure blocked.                               *)
Resume ==
  /\ row.state = "HumanReviewRequired"
  /\ \E s \in FlowStates : MoveTo(s)

LifecycleNext ==
  Create \/ (\E c \in Candidates : Activate(c)) \/ Advance \/ Divert \/ Resume

Lifecycle == LifecycleInit /\ [][LifecycleNext]_row

=============================================================================
