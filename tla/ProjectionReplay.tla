-------------------------- MODULE ProjectionReplay --------------------------
(***************************************************************************)
(* What a reader of the event log reconstructs: the replay of a job's      *)
(* events into a projection row, and the offline repair command of         *)
(* ironmaintctl, which writes the replayed row back over the stored one.   *)
(* The daemon is stopped while the repair runs.                            *)
(***************************************************************************)
EXTENDS JobService

(* Mutant: an activation is an audit record only. *)
apply_NoActivation(projection, event) ==
  IF event.type \in {"JobCreated", "Transitioned"} THEN event.after
  ELSE projection

(* ProjectionApply::apply: the row after one more event.  A transition     *)
(* carries the whole row it left, an activation all of it but the state;   *)
(* the other events are records that move nothing.                         *)
apply(projection, event) ==
  CASE event.type \in {"JobCreated", "Transitioned"} -> event.after
    [] event.type = "CandidateActivated" ->
         [event.after EXCEPT !.state = projection.state]
    [] OTHER -> projection

(* rebuild_projection: the first event is the seed. *)
Replay(events) ==
  LET after[n \in 0..Len(events)] ==
        IF n = 0 THEN NoRow ELSE apply(after[n - 1], events[n])
  IN  after[Len(events)]

(* replay_one of ironmaintctl rebuild-projections: skipped for a job with  *)
(* no events, an error if the first of them is no seed, refused when the   *)
(* replay lost the active candidate; else the replayed row is written under*)
(* the version that is stored.                                             *)
Rebuild ==
  /\ Quiescent
  /\ log # << >>
  /\ Head(log).type \in {"JobCreated", "Transitioned"}
  /\ Replay(log).active = row.active
  /\ row' = [Replay(log) EXCEPT !.version = row.version]
  /\ UNCHANGED <<log, candidateVars, gateVars, op, boundVars, enteredFrom>>

RepairNext == Next \/ Rebuild

RepairSpec == Init /\ [][RepairNext]_vars

-----------------------------------------------------------------------------
(* Properties.                                                             *)

(* When requests come one at a time and none has stopped half way, the log *)
(* says exactly what the row is: it is the authority PHASE-0B section 36   *)
(* makes of it, and a rebuild changes nothing.                             *)
ReplayMatchesRow ==
  failures = 0 /\ Quiescent /\ log # << >> => Replay(log) = row

=============================================================================
