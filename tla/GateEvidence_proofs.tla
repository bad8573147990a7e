------------------------ MODULE GateEvidence_proofs -------------------------
(***************************************************************************)
(* Theorems about GateEvidence, for every plan, any set of verdicts, every *)
(* number of concurrent requests and any bounds.                           *)
(*                                                                         *)
(* The inductive invariant is IInv.  Next to the types it says that ids    *)
(* are never minted twice (FreshIds), that a handler at work is bound to a *)
(* stored check and holds only results that stored evidence justifies      *)
(* (Sound), and, as long as no two requests have overlapped, that the      *)
(* evidence a handler is about to judge its gate by is the last there is,  *)
(* and its own (Own).                                                      *)
(*                                                                         *)
(* LInv, on top of it, is about requests that come one at a time and never *)
(* stop half way: no stage has two mandatory gates, no gate is without its *)
(* check, and each check that nobody is judging has the result of its last *)
(* run, or none and no run.                                                *)
(***************************************************************************)
EXTENDS GateEvidence, SequenceTheorems, TLAPS

(* What there is or will be: stored, or in the hands of a handler. *)
AllGates == gates \cup UNION {op[p].todo : p \in Procs}

AllRows == evidence \cup UNION {op[p].row : p \in Procs}

FreshIds ==
  /\ \A d, e \in AllGates : d.id = e.id => d = e
  /\ \A d \in AllGates : d.id <= minted
  /\ \A d, e \in AllRows : d.id = e.id => d = e
  /\ \A d \in AllRows : d.id <= minted

IsCheck(id) == \E c \in checks : c.id = id

(* If the result of a gate is a pass, it cites passing evidence of the     *)
(* kind the check of the gate is for.                                      *)
Justified(id, result) ==
  result.status = "Pass" =>
    \A c \in checks : c.id = id =>
      \E e \in evidence : /\ e.id \in result.cited
                          /\ e.kind = c.kind
                          /\ e.status = "Pass"

(* What is true of a handler o, whatever interleaves. *)
Sound(o) ==
  /\ o.pc = "idle" => o = Idle
  /\ o.pc = "check" => NextOf(o.todo) \subseteq gates
  /\ o.pc \in {"tool", "evaluate", "result"} => IsCheck(o.check)
  /\ o.pc = "evidence" => /\ o.row # {}
                          /\ o.check = 0 \/ IsCheck(o.check)
  /\ o.pc = "result" => \A r \in o.result : Justified(o.check, r)

(* The row a run of the check leaves, of the kind of the check. *)
RowOfRun(e, id) ==
  e.run = id /\ \A c \in checks : c.id = id => e.kind = c.kind

(* What is true of it besides when no two requests have overlapped. *)
Own(o) ==
  /\ o.pc = "evidence" /\ o.check # 0 =>
       \A e \in o.row : e.id = minted /\ RowOfRun(e, o.check)
  /\ o.pc = "evaluate" =>
       \E e \in evidence : e.id = minted /\ RowOfRun(e, o.check)
  /\ o.pc = "result" =>
       \A r \in o.result :
         \E e \in evidence : e.run = o.check /\ r.cited = {e.id}

Alone ==
  ~overlapped => /\ \A p, q \in Procs :
                      op[p].pc # "idle" /\ op[q].pc # "idle" => p = q
                 /\ \A p \in Procs : Own(op[p])

ResultsJustified == \A g \in DOMAIN results : Justified(g, results[g])

IInv ==
  /\ TypeOK
  /\ FreshIds
  /\ \A p \in Procs : Sound(op[p])
  /\ ResultsJustified
  /\ Alone
  /\ VerdictsAreOwn

-----------------------------------------------------------------------------
(* The operators. *)

LEMMA StageTyping ==
  \A k \in DOMAIN gate_stage_for : gate_stage_for[k] \in GateStages
BY DEF gate_stage_for, GateStages

LEMMA VerdictTyping ==
  ASSUME NEW s \in EvidenceStatuses
  PROVE  /\ evidence_to_gate_status(s) \in GateStatuses
         /\ evidence_to_gate_status(s) = "Pass" => s = "Pass"
BY DEF EvidenceStatuses, GateStatuses, evidence_to_gate_status

(* The aggregate is one of the statuses that were combined. *)
LEMMA CombineChooses ==
  ASSUME NEW S \in SUBSET GateStatuses, S # {}
  PROVE  combine_status(S) \in S
<1> DEFINE rank == [NotEvaluated |-> 0, NotApplicable |-> 1, Pass |-> 2,
                    ReviewRequired |-> 3, Fail |-> 4, Blocked |-> 5]
<1>1. /\ rank["NotEvaluated"] = 0 /\ rank["NotApplicable"] = 1
      /\ rank["Pass"] = 2 /\ rank["ReviewRequired"] = 3
      /\ rank["Fail"] = 4 /\ rank["Blocked"] = 5
  OBVIOUS
<1>2. \E s \in S : \A t \in S : rank[t] <= rank[s]
  <2> HIDE DEF rank
  <2> USE <1>1 DEF GateStatuses
  <2>1. CASE "Blocked" \in S
    BY <2>1
  <2>2. CASE "Blocked" \notin S /\ "Fail" \in S
    BY <2>2
  <2>3. CASE "Blocked" \notin S /\ "Fail" \notin S /\ "ReviewRequired" \in S
    BY <2>3
  <2>4. CASE S \subseteq {"NotEvaluated", "NotApplicable", "Pass"} /\ "Pass" \in S
    BY <2>4
  <2>5. CASE S \subseteq {"NotEvaluated", "NotApplicable"} /\ "NotApplicable" \in S
    BY <2>5
  <2>6. CASE S \subseteq {"NotEvaluated"}
    <3>1. S = {"NotEvaluated"}
      BY <2>6
    <3>2. QED
      BY <3>1
  <2>7. QED
    BY <2>1, <2>2, <2>3, <2>4, <2>5, <2>6
<1>3. QED
  BY <1>2 DEF combine_status

(* Against "NotEvaluated", any status prevails. *)
LEMMA CombineOne ==
  ASSUME NEW s \in GateStatuses
  PROVE  combine_status({"NotEvaluated", s}) = s
<1> DEFINE rank == [NotEvaluated |-> 0, NotApplicable |-> 1, Pass |-> 2,
                    ReviewRequired |-> 3, Fail |-> 4, Blocked |-> 5]
           both == {"NotEvaluated", s}
<1>1. /\ rank["NotEvaluated"] = 0 /\ rank["NotApplicable"] = 1
      /\ rank["Pass"] = 2 /\ rank["ReviewRequired"] = 3
      /\ rank["Fail"] = 4 /\ rank["Blocked"] = 5
  OBVIOUS
<1>2. combine_status(both) = CHOOSE r \in both : \A t \in both : rank[t] <= rank[r]
  BY DEF combine_status
<1> HIDE DEF rank
<1>3. rank[s] \in Nat /\ (s # "NotEvaluated" => rank[s] > 0)
  BY <1>1 DEF GateStatuses
<1>4. \A t \in both : rank[t] <= rank[s]
  BY <1>1, <1>3
<1>5. \A r \in both : (\A t \in both : rank[t] <= rank[r]) => r = s
  BY <1>1, <1>3
<1>6. s \in both
  OBVIOUS
<1> HIDE DEF both
<1>7. (CHOOSE r \in both : \A t \in both : rank[t] <= rank[r]) = s
  BY <1>4, <1>5, <1>6
<1>8. QED
  BY <1>2, <1>7 DEF both

LEMMA PlanTyping ==
  ASSUME TypeOK
  PROVE  /\ plan_to_materialised \subseteq Definitions
         /\ \A d \in plan_to_materialised :
              minted < d.id /\ d.id <= minted + Len(Plan)
         /\ \A d, e \in plan_to_materialised : d.id = e.id => d = e
<1>1. /\ minted \in Nat
      /\ Len(Plan) \in Nat
      /\ DOMAIN Plan = 1..Len(Plan)
      /\ \A i \in DOMAIN Plan :
           Plan[i] \in [tool : STRING, kind : EvidenceKinds, mandatory : BOOLEAN]
  <2> DEFINE T == [tool : STRING, kind : EvidenceKinds, mandatory : BOOLEAN]
  <2>1. Plan \in Seq(T)
    BY PlanAssumption
  <2> HIDE DEF T
  <2>2. /\ Len(Plan) \in Nat
        /\ DOMAIN Plan = 1..Len(Plan)
        /\ \A i \in DOMAIN Plan : Plan[i] \in T
    BY <2>1, LenProperties, ElementOfSeq
  <2>3. QED
    BY <2>2 DEF TypeOK, T
<1>2. ASSUME NEW i \in DOMAIN Plan, Plan[i].kind \in DOMAIN gate_stage_for
      PROVE  /\ GateOf(i, minted + i) \in Definitions
             /\ GateOf(i, minted + i).id = minted + i
             /\ i \in 1..Len(Plan)
  <2>1. gate_stage_for[Plan[i].kind] \in GateStages
    BY <1>2, StageTyping
  <2>2. minted + i \in Nat
    BY <1>1
  <2>3. QED
    BY <1>1, <2>1, <2>2 DEF GateOf, Definitions
<1>3. \A d \in plan_to_materialised :
        \E i \in DOMAIN Plan : /\ Plan[i].kind \in DOMAIN gate_stage_for
                               /\ d = GateOf(i, minted + i)
  BY DEF plan_to_materialised
<1>4. QED
  BY <1>1, <1>2, <1>3

(* The rows evaluate_gate looks at for a gate are of its check. *)
LEMMA Evaluation ==
  ASSUME TypeOK, NEW g
  PROVE  /\ evaluate_gate(g) \in Results
         /\ Justified(g, evaluate_gate(g))
<1> DEFINE rows == UNION {latest_evidence_for_check(c) :
                           c \in {d \in checks : d.id = g}}
           statuses == {"NotEvaluated"} \cup
                         {evidence_to_gate_status(e.status) : e \in rows}
<1>1. /\ rows \subseteq evidence
      /\ \A e \in rows : \E c \in checks : c.id = g /\ e.kind = c.kind
  BY DEF latest_evidence_for_check
<1>2. \A e \in rows : e.status \in EvidenceStatuses /\ e.id \in Nat
  BY <1>1 DEF TypeOK, EvidenceRows
<1>3. statuses \subseteq GateStatuses
  BY <1>2, VerdictTyping DEF GateStatuses
<1>4. combine_status(statuses) \in statuses
  BY <1>3, CombineChooses
<1>5. /\ evaluate_gate(g).candidate = Candidate
      /\ evaluate_gate(g).status = combine_status(statuses)
      /\ evaluate_gate(g).cited = {e.id : e \in rows}
      /\ evaluate_gate(g) = [candidate |-> Candidate,
                             status |-> combine_status(statuses),
                             cited |-> {e.id : e \in rows}]
  BY DEF evaluate_gate
<1>6. evaluate_gate(g) \in Results
  <2>1. {e.id : e \in rows} \subseteq Nat
    BY <1>2
  <2>2. combine_status(statuses) \in GateStatuses
    BY <1>3, <1>4
  <2>3. QED
    BY <1>5, <2>1, <2>2 DEF Results
<1>7. ASSUME combine_status(statuses) = "Pass",
             NEW c \in checks, c.id = g
      PROVE  \E e \in evidence : /\ e.id \in evaluate_gate(g).cited
                                 /\ e.kind = c.kind
                                 /\ e.status = "Pass"
  <2>1. PICK e \in rows : evidence_to_gate_status(e.status) = "Pass"
    BY <1>4, <1>7
  <2>2. e.status = "Pass"
    BY <1>2, <2>1, VerdictTyping
  <2>3. PICK d \in checks : d.id = g /\ e.kind = d.kind
    BY <1>1
  <2>4. d = c
    BY <1>7, <2>3 DEF TypeOK
  <2>5. e.id \in evaluate_gate(g).cited
    BY <1>5
  <2>6. QED
    BY <1>1, <2>2, <2>3, <2>4, <2>5
<1>8. QED
  BY <1>5, <1>6, <1>7 DEF Justified

-----------------------------------------------------------------------------
(* What the steps have in common. *)

(* The tables only grow, and a check is stored only after its gate. *)
Grows ==
  /\ gates \subseteq gates' /\ checks \subseteq checks' /\ evidence \subseteq evidence'
  /\ checks' \subseteq gates'
  /\ \A d, e \in gates' : d.id = e.id => d = e

LEMMA IdleSound ==
  /\ Idle \in Ops
  /\ Idle.pc = "idle" /\ Idle.check = 0
  /\ Idle.todo = {} /\ Idle.row = {} /\ Idle.result = {}
  /\ Sound(Idle) /\ Sound(Idle)'
  /\ Own(Idle) /\ Own(Idle)'
BY DEF Idle, Ops, Sound, Own

LEMMA ChecksStay ==
  ASSUME Grows, NEW id, IsCheck(id)
  PROVE  /\ IsCheck(id)'
         /\ \A c \in checks' : c.id = id => c \in checks
BY DEF Grows, IsCheck

LEMMA JustifiedLater ==
  ASSUME Grows, NEW id, IsCheck(id), NEW r, Justified(id, r)
  PROVE  Justified(id, r)'
<1> SUFFICES ASSUME r.status = "Pass", NEW c \in checks', c.id = id
             PROVE  \E e \in evidence' : /\ e.id \in r.cited
                                         /\ e.kind = c.kind
                                         /\ e.status = "Pass"
  BY DEF Justified
<1>1. c \in checks
  BY ChecksStay
<1>2. QED
  BY <1>1 DEF Justified, Grows

LEMMA SoundLater ==
  ASSUME Grows, NEW o, Sound(o)
  PROVE  Sound(o)'
<1>1. o.pc = "check" => NextOf(o.todo) \subseteq gates'
  BY DEF Sound, Grows
<1>2. IsCheck(o.check) => IsCheck(o.check)'
  BY ChecksStay
<1>3. o.pc = "result" => \A r \in o.result : Justified(o.check, r)'
  BY JustifiedLater DEF Sound
<1>4. QED
  BY <1>1, <1>2, <1>3 DEF Sound, NextOf

(* One handler moves on; what it does to the tables keeps them in shape. *)
LEMMA Stepping ==
  ASSUME IInv, NEW p \in Procs, NEW next \in Ops, Proceed(p, next), Grows,
         gates' \subseteq Definitions, evidence' \subseteq EvidenceRows,
         minted' \in Nat, FreshIds',
         requests' \in 0..MaxRequests, failures' \in 0..MaxFailures,
         \/ op[p].pc # "idle" /\ overlapped' = overlapped
         \/ overlapped' = (overlapped \/ Busy),
         DOMAIN results' \subseteq {c.id : c \in checks'},
         \A g \in DOMAIN results' : results'[g] \in Results,
         Sound(next)', ~overlapped' => Own(next)',
         ResultsJustified', VerdictsAreOwn'
  PROVE  IInv'
<1>1. /\ op' \in [Procs -> Ops]
      /\ op'[p] = next
      /\ \A q \in Procs : q # p => op'[q] = op[q]
  BY DEF IInv, TypeOK, Proceed
<1>2. \A e, f \in evidence' : e.id = f.id => e = f
  BY DEF FreshIds, AllRows
<1>3. TypeOK'
  BY <1>1, <1>2 DEF IInv, TypeOK, Grows
<1>4. ASSUME NEW q \in Procs
      PROVE  Sound(op[q])'
  <2>1. CASE q = p
    BY <1>1, <2>1 DEF Sound, NextOf, IsCheck, Justified
  <2>2. CASE q # p
    <3>1. Sound(op[q]) /\ op'[q] = op[q]
      BY <1>1, <2>2 DEF IInv
    <3>2. PICK o : o = op[q]
      OBVIOUS
    <3>3. Sound(o)'
      BY <3>1, <3>2, SoundLater
    <3>4. QED
      BY <3>1, <3>2, <3>3 DEF Sound, IsCheck, Justified
  <2>3. QED
    BY <2>1, <2>2
<1>5. Alone'
  <2> SUFFICES ASSUME ~overlapped'
               PROVE  /\ \A q, r \in Procs :
                           op'[q].pc # "idle" /\ op'[r].pc # "idle" => q = r
                      /\ \A q \in Procs : Own(op[q])'
    BY DEF Alone
  <2>1. ~overlapped
    BY DEF IInv, TypeOK
  <2>2. \A q \in Procs : q # p => op'[q].pc = "idle"
    BY <1>1, <2>1 DEF IInv, Alone, Busy
  <2>3. \A q \in Procs : Own(op[q])'
    BY <1>1, <2>2 DEF Own, RowOfRun
  <2>4. QED
    BY <2>2, <2>3
<1>6. QED
  BY <1>3, <1>4, <1>5 DEF IInv

(* Results that stay as they are stay justified, and stay those of their   *)
(* own runs.                                                               *)
LEMMA ResultsStay ==
  ASSUME IInv, Grows, results' = results, overlapped => overlapped'
  PROVE  /\ DOMAIN results' \subseteq {c.id : c \in checks'}
         /\ \A g \in DOMAIN results' : results'[g] \in Results
         /\ ResultsJustified'
         /\ VerdictsAreOwn'
<1>1. \A g \in DOMAIN results : IsCheck(g)
  BY DEF IInv, TypeOK, IsCheck
<1>2. /\ DOMAIN results' \subseteq {c.id : c \in checks'}
      /\ \A g \in DOMAIN results' : results'[g] \in Results
  BY DEF IInv, TypeOK, Grows
<1>3. ResultsJustified'
  BY <1>1, JustifiedLater DEF IInv, ResultsJustified
<1>4. VerdictsAreOwn'
  <2> SUFFICES ASSUME ~overlapped', NEW c \in checks', c.id \in DOMAIN results
               PROVE  \E e \in RunsOf(c)' : results[c.id].cited = {e.id}
    BY DEF VerdictsAreOwn
  <2>1. c \in checks
    BY <1>1, ChecksStay
  <2>2. RunsOf(c) \subseteq RunsOf(c)'
    BY DEF RunsOf, Grows
  <2>3. QED
    BY <2>1, <2>2 DEF IInv, VerdictsAreOwn
<1>5. QED
  BY <1>2, <1>3, <1>4

(* Nothing is minted, and nothing appears that was not there or on its way.*)
LEMMA NothingMinted ==
  ASSUME IInv, NEW p \in Procs, NEW next \in Ops, Proceed(p, next),
         next.todo \subseteq op[p].todo, next.row \subseteq op[p].row,
         gates' \subseteq gates \cup op[p].todo,
         evidence' \subseteq evidence \cup op[p].row,
         minted' = minted
  PROVE  FreshIds'
<1>1. \A q \in Procs : /\ op'[q].todo \subseteq op[q].todo
                       /\ op'[q].row \subseteq op[q].row
  BY DEF IInv, TypeOK, Proceed
<1>2. AllGates' \subseteq AllGates
  BY <1>1 DEF AllGates
<1>3. AllRows' \subseteq AllRows
  BY <1>1 DEF AllRows
<1>4. QED
  BY <1>2, <1>3 DEF IInv, FreshIds

-----------------------------------------------------------------------------
(* The steps. *)

LEMMA AcceptSafe ==
  ASSUME IInv, NEW p \in Procs, NEW request \in Ops, Accept(p, request),
         request.pc \in {"planned", "tool"}, Sound(request),
         request.todo = {}, request.row = {}
  PROVE  IInv'
<1> USE DEF Accept, tables
<1>1. Grows
  BY DEF Grows, IInv, TypeOK
<1>2. FreshIds'
  BY NothingMinted
<1>3. Sound(request)'
  BY <1>1, SoundLater
<1>4. Own(request)'
  BY DEF Own
<1>5. requests' \in 0..MaxRequests
  BY BoundsAssumption DEF IInv, TypeOK
<1>6. overlapped => overlapped'
  OBVIOUS
<1>7. QED
  BY <1>1, <1>2, <1>3, <1>4, <1>5, <1>6, ResultsStay, Stepping
     DEF IInv, TypeOK

LEMMA DeriveSafe ==
  ASSUME IInv, NEW p \in Procs, Derive(p)
  PROVE  IInv'
<1> DEFINE request == [Idle EXCEPT !.pc = "planned"]
<1>1. /\ request \in Ops
      /\ request.pc = "planned" /\ request.todo = {} /\ request.row = {}
      /\ Sound(request)
  BY DEF Idle, Ops, Sound
<1>2. QED
  BY <1>1, AcceptSafe DEF Derive

LEMMA RunCheckSafe ==
  ASSUME IInv, NEW p \in Procs, NEW check \in checks, RunCheck(p, check)
  PROVE  IInv'
<1> DEFINE request == [Idle EXCEPT !.pc = "tool", !.check = check.id]
<1>1. check.id \in Nat
  BY DEF IInv, TypeOK, Definitions
<1>2. /\ request \in Ops
      /\ request.pc = "tool" /\ request.todo = {} /\ request.row = {}
      /\ Sound(request)
  BY <1>1 DEF Idle, Ops, Sound, IsCheck
<1>3. QED
  BY <1>2, AcceptSafe DEF RunCheck

LEMMA FailSafe ==
  ASSUME IInv, NEW p \in Procs, Fail(p)
  PROVE  IInv'
<1> USE DEF Fail, Return, tables
<1>1. Grows
  BY DEF Grows, IInv, TypeOK
<1>2. FreshIds'
  BY IdleSound, NothingMinted
<1>3. failures' \in 0..MaxFailures
  BY BoundsAssumption DEF IInv, TypeOK
<1>4. QED
  BY <1>1, <1>2, <1>3, IdleSound, ResultsStay, Stepping DEF IInv, TypeOK

LEMMA LookForChecksSafe ==
  ASSUME IInv, NEW p \in Procs, LookForChecks(p)
  PROVE  IInv'
<1> USE DEF LookForChecks, tables, bounds
<1>1. Grows
  BY DEF Grows, IInv, TypeOK
<1>2. CASE Return(p) /\ UNCHANGED minted
  <2>1. FreshIds'
    BY <1>2, IdleSound, NothingMinted DEF Return
  <2>2. QED
    BY <1>1, <1>2, <2>1, IdleSound, ResultsStay, Stepping
       DEF IInv, TypeOK, Return
<1>3. CASE ~(AlreadyPlanned \/ plan_to_materialised = {})
  <2>1. /\ plan_to_materialised \subseteq Definitions
        /\ \A d \in plan_to_materialised : minted < d.id /\ d.id <= minted'
        /\ \A d, e \in plan_to_materialised : d.id = e.id => d = e
    BY <1>3, PlanTyping DEF IInv
  <2>2. minted \in Nat /\ minted' \in Nat /\ minted <= minted'
    <3>1. Len(Plan) \in Nat
      BY PlanAssumption, LenProperties
    <3>2. QED
      BY <1>3, <3>1 DEF IInv, TypeOK
  <2>3. [Idle EXCEPT !.pc = "definition", !.todo = plan_to_materialised] \in Ops
    BY <2>1 DEF Idle, Ops
  <2>4. PICK next \in Ops :
          next = [Idle EXCEPT !.pc = "definition", !.todo = plan_to_materialised]
    BY <2>3
  <2>5. /\ Proceed(p, next)
        /\ next.pc = "definition" /\ next.row = {}
        /\ next.todo = plan_to_materialised
    BY <1>3, <2>4 DEF Idle
  <2>6. FreshIds'
    <3>1. op'[p] = next /\ \A q \in Procs : q # p => op'[q] = op[q]
      BY <2>5 DEF IInv, TypeOK, Proceed
    <3>2. AllGates' \subseteq AllGates \cup plan_to_materialised
      BY <2>5, <3>1 DEF AllGates
    <3>3. AllRows' \subseteq AllRows
      BY <2>5, <3>1 DEF AllRows
    <3>4. \A d \in AllGates : d.id \in Nat
      BY DEF AllGates, IInv, TypeOK, Ops, Definitions
    <3>5. \A d \in AllRows : d.id \in Nat
      BY DEF AllRows, IInv, TypeOK, Ops, EvidenceRows
    <3>6. \A d \in plan_to_materialised : d.id \in Nat
      BY <2>1 DEF Definitions
    <3>7. \A d \in AllGates' : d.id <= minted'
      BY <2>1, <2>2, <3>2, <3>4 DEF IInv, FreshIds
    <3>8. \A d, e \in AllGates' : d.id = e.id => d = e
      BY <2>1, <2>2, <3>2, <3>4, <3>6 DEF IInv, FreshIds
    <3>9. \A d \in AllRows' : d.id <= minted'
      BY <2>2, <3>3, <3>5 DEF IInv, FreshIds
    <3>10. QED
      BY <3>3, <3>7, <3>8, <3>9 DEF IInv, FreshIds
  <2>7. Sound(next)' /\ Own(next)'
    BY <2>5 DEF Sound, Own
  <2>8. /\ requests' \in 0..MaxRequests /\ failures' \in 0..MaxFailures
        /\ op[p].pc # "idle" /\ overlapped' = overlapped /\ results' = results
        /\ gates' \subseteq Definitions /\ evidence' \subseteq EvidenceRows
    BY DEF IInv, TypeOK
  <2>9. QED
    BY <1>1, <2>2, <2>5, <2>6, <2>7, <2>8, ResultsStay, Stepping
<1>4. QED
  BY <1>2, <1>3

LEMMA PutDefinitionSafe ==
  ASSUME IInv, NEW p \in Procs, PutDefinition(p)
  PROVE  IInv'
<1> USE DEF PutDefinition, bounds
<1>1. op[p] \in Ops /\ NextOf(op[p].todo) \subseteq op[p].todo
  BY DEF IInv, TypeOK, NextOf
<1>2. PICK next \in Ops : next = [op[p] EXCEPT !.pc = "check"]
  BY <1>1 DEF Ops
<1>3. /\ Proceed(p, next)
      /\ next.pc = "check" /\ next.row = op[p].row /\ next.todo = op[p].todo
  BY <1>1, <1>2 DEF Ops
<1>4. FreshIds'
  BY <1>1, <1>3, NothingMinted
<1>5. Grows
  BY <1>4 DEF Grows, IInv, TypeOK, FreshIds, AllGates
<1>6. Sound(next)' /\ Own(next)'
  BY <1>3 DEF Sound, Own, NextOf
<1>7. /\ gates' \subseteq Definitions /\ evidence' \subseteq EvidenceRows
      /\ minted' \in Nat
      /\ requests' \in 0..MaxRequests /\ failures' \in 0..MaxFailures
      /\ op[p].pc # "idle" /\ overlapped' = overlapped /\ results' = results
  BY <1>1 DEF IInv, TypeOK, Ops
<1>8. QED
  BY <1>3, <1>4, <1>5, <1>6, <1>7, ResultsStay, Stepping

LEMMA PutCheckSafe ==
  ASSUME IInv, NEW p \in Procs, PutCheck(p)
  PROVE  IInv'
<1> USE DEF PutCheck, bounds
<1>1. op[p] \in Ops /\ NextOf(op[p].todo) \subseteq gates
  BY DEF IInv, TypeOK, Sound
<1>2. PICK next \in Ops :
        /\ Proceed(p, next)
        /\ \/ next = Idle
           \/ next = [op[p] EXCEPT !.pc = "definition",
                                   !.todo = @ \ NextOf(op[p].todo)]
  <2>1. [op[p] EXCEPT !.pc = "definition", !.todo = @ \ NextOf(op[p].todo)]
          \in Ops
    BY <1>1 DEF Ops
  <2>2. QED
    BY <2>1, IdleSound DEF Return
<1>3. /\ next.todo \subseteq op[p].todo /\ next.row \subseteq op[p].row
      /\ next = Idle \/ next.pc = "definition"
  <2>1. CASE next = Idle
    BY <2>1, IdleSound
  <2>2. CASE next = [op[p] EXCEPT !.pc = "definition",
                                  !.todo = @ \ NextOf(op[p].todo)]
    <3>1. /\ next.pc = "definition" /\ next.row = op[p].row
          /\ next.todo = op[p].todo \ NextOf(op[p].todo)
      BY <1>1, <2>2 DEF Ops
    <3>2. QED
      BY <3>1
  <2>3. QED
    BY <1>2, <2>1, <2>2
<1>4. FreshIds'
  BY <1>2, <1>3, NothingMinted
<1>5. Grows
  BY <1>1 DEF Grows, IInv, TypeOK
<1>6. Sound(next)' /\ Own(next)'
  BY <1>3, IdleSound DEF Sound, Own
<1>7. /\ gates' \subseteq Definitions /\ evidence' \subseteq EvidenceRows
      /\ minted' \in Nat
      /\ requests' \in 0..MaxRequests /\ failures' \in 0..MaxFailures
      /\ op[p].pc # "idle" /\ overlapped' = overlapped /\ results' = results
  BY DEF IInv, TypeOK
<1>8. QED
  BY <1>2, <1>4, <1>5, <1>6, <1>7, ResultsStay, Stepping

(* A handler that is bound to a check observes evidence of the check's     *)
(* kind; one that is bound to none, of any kind.                           *)
LEMMA ObserveSafe ==
  ASSUME IInv, NEW p \in Procs,
         NEW kind \in EvidenceKinds, NEW status \in EvidenceStatuses,
         Observe(p, kind, status), UNCHANGED tables,
         \/ op[p].check = 0
         \/ /\ IsCheck(op[p].check)
            /\ \A c \in checks : c.id = op[p].check => c.kind = kind,
         requests' \in 0..MaxRequests, failures' \in 0..MaxFailures,
         \/ op[p].pc # "idle" /\ overlapped' = overlapped
         \/ overlapped' = (overlapped \/ Busy)
  PROVE  IInv'
<1> USE DEF tables
<1>1. op[p] \in Ops /\ op[p].check \in Nat /\ minted \in Nat
  BY DEF IInv, TypeOK, Ops
<1>2. PICK e \in EvidenceRows : e = [id |-> minted + 1, kind |-> kind,
                                    status |-> status, run |-> op[p].check]
  <2>1. [id |-> minted + 1, kind |-> kind, status |-> status,
         run |-> op[p].check] \in EvidenceRows
    BY <1>1 DEF EvidenceRows
  <2>2. QED
    BY <2>1
<1>3. PICK next \in Ops : next = [op[p] EXCEPT !.pc = "evidence", !.row = {e}]
  BY <1>1 DEF Ops
<1>4. /\ Proceed(p, next) /\ minted' = minted + 1
      /\ next.pc = "evidence" /\ next.row = {e}
      /\ next.todo = op[p].todo /\ next.check = op[p].check
  BY <1>1, <1>2, <1>3 DEF Observe, Ops
<1>5. Grows
  BY DEF Grows, IInv, TypeOK
<1>6. FreshIds'
  <2>1. op'[p] = next /\ \A q \in Procs : q # p => op'[q] = op[q]
    BY <1>4 DEF IInv, TypeOK, Proceed
  <2>2. AllGates' \subseteq AllGates
    BY <1>4, <2>1 DEF AllGates
  <2>3. AllRows' \subseteq AllRows \cup {e}
    BY <1>4, <2>1 DEF AllRows
  <2>4. \A d \in AllGates : d.id \in Nat
    BY DEF AllGates, IInv, TypeOK, Ops, Definitions
  <2>5. \A d \in AllRows : d.id \in Nat
    BY DEF AllRows, IInv, TypeOK, Ops, EvidenceRows
  <2>6. e.id = minted + 1
    BY <1>2
  <2>7. \A d \in AllGates' : d.id <= minted'
    BY <1>1, <1>4, <2>2, <2>4 DEF IInv, FreshIds
  <2>8. \A d \in AllRows' : d.id <= minted'
    BY <1>1, <1>4, <2>3, <2>5, <2>6 DEF IInv, FreshIds
  <2>9. \A d, f \in AllRows' : d.id = f.id => d = f
    BY <1>1, <2>3, <2>5, <2>6 DEF IInv, FreshIds
  <2>10. QED
    BY <2>2, <2>7, <2>8, <2>9 DEF IInv, FreshIds
<1>7. Sound(next)'
  BY <1>4 DEF Sound, IsCheck
<1>8. Own(next)'
  BY <1>1, <1>2, <1>4 DEF Own, RowOfRun
<1>9. /\ gates' \subseteq Definitions /\ evidence' \subseteq EvidenceRows
      /\ minted' \in Nat /\ results' = results
      /\ (overlapped => overlapped')
  BY <1>1, <1>4 DEF IInv, TypeOK
<1>10. QED
  BY <1>4, <1>5, <1>6, <1>7, <1>8, <1>9, ResultsStay, Stepping

LEMMA ToolEndsSafe ==
  ASSUME IInv, NEW p \in Procs, ToolEnds(p)
  PROVE  IInv'
<1> USE DEF ToolEnds, tables, bounds
<1>1. ASSUME NEW c \in checks, NEW status \in Verdicts,
             c.id = op[p].check, Observe(p, c.kind, status)
      PROVE  IInv'
  <2>1. c.kind \in EvidenceKinds /\ status \in EvidenceStatuses
    BY VerdictsAssumption DEF IInv, TypeOK, Definitions
  <2>2. /\ IsCheck(op[p].check)
        /\ \A d \in checks : d.id = op[p].check => d.kind = c.kind
    BY <1>1 DEF IsCheck, IInv, TypeOK
  <2>3. /\ requests' \in 0..MaxRequests /\ failures' \in 0..MaxFailures
        /\ op[p].pc # "idle" /\ overlapped' = overlapped
    BY DEF IInv, TypeOK
  <2>4. QED
    BY <1>1, <2>1, <2>2, <2>3, ObserveSafe
<1>2. CASE Return(p) /\ UNCHANGED minted
  <2>1. Grows
    BY DEF Grows, IInv, TypeOK
  <2>2. FreshIds'
    BY <1>2, IdleSound, NothingMinted DEF Return
  <2>3. QED
    BY <1>2, <2>1, <2>2, IdleSound, ResultsStay, Stepping
       DEF IInv, TypeOK, Return
<1>3. QED
  BY <1>1, <1>2

LEMMA RecordCheckEvidenceSafe ==
  ASSUME IInv, NEW p \in Procs, NEW kind \in PlannedKinds, NEW status \in Recorded,
         RecordCheckEvidence(p, kind, status)
  PROVE  IInv'
<1> USE DEF RecordCheckEvidence
<1>1. kind \in EvidenceKinds /\ status \in EvidenceStatuses
  <2> DEFINE T == [tool : STRING, kind : EvidenceKinds, mandatory : BOOLEAN]
  <2>1. Plan \in Seq(T)
    BY PlanAssumption
  <2> HIDE DEF T
  <2>2. \A i \in DOMAIN Plan : Plan[i] \in T
    BY <2>1, LenProperties, ElementOfSeq
  <2>3. QED
    BY <2>2, VerdictsAssumption DEF PlannedKinds, T
<1>2. op[p].check = 0
  BY IdleSound DEF IInv, Sound
<1>3. requests' \in 0..MaxRequests /\ failures' \in 0..MaxFailures
  BY BoundsAssumption DEF IInv, TypeOK
<1>4. QED
  BY <1>1, <1>2, <1>3, ObserveSafe

LEMMA PutEvidenceSafe ==
  ASSUME IInv, NEW p \in Procs, PutEvidence(p)
  PROVE  IInv'
<1> USE DEF PutEvidence, bounds
<1>1. op[p] \in Ops /\ op[p].row \subseteq EvidenceRows
  BY DEF IInv, TypeOK, Ops
<1>2. /\ op[p].pc = "evidence" /\ op[p].row # {} /\ Sound(op[p])
      /\ op[p].check = 0 \/ IsCheck(op[p].check)
  BY DEF IInv, Sound
<1>3. PICK next \in Ops :
        /\ Proceed(p, next)
        /\ \/ op[p].check = 0 /\ next = Idle
           \/ op[p].check # 0 /\ next = [op[p] EXCEPT !.pc = "evaluate"]
  <2>1. [op[p] EXCEPT !.pc = "evaluate"] \in Ops
    BY <1>1 DEF Ops
  <2>2. QED
    BY <2>1, IdleSound DEF Return
<1>4. /\ next.todo \subseteq op[p].todo /\ next.row \subseteq op[p].row
      /\ \/ next = Idle
         \/ /\ next.pc = "evaluate" /\ next.check = op[p].check
            /\ op[p].check # 0
  BY <1>1, <1>3, IdleSound DEF Ops
<1>5. FreshIds'
  BY <1>3, <1>4, NothingMinted
<1>6. Grows
  BY DEF Grows, IInv, TypeOK
<1>7. Sound(next)'
  BY <1>2, <1>4, IdleSound DEF Sound, IsCheck
<1>8. ASSUME ~overlapped PROVE Own(next)'
  <2>1. CASE next = Idle
    BY <2>1, IdleSound DEF Own
  <2>2. CASE next.pc = "evaluate" /\ next.check = op[p].check /\ op[p].check # 0
    <3>1. \A e \in op[p].row : e.id = minted /\ RowOfRun(e, op[p].check)
      BY <1>2, <1>8, <2>2 DEF IInv, Alone, Own
    <3>2. PICK e \in op[p].row : e \in evidence'
      BY <1>2
    <3>3. e.id = minted' /\ RowOfRun(e, next.check)'
      BY <2>2, <3>1 DEF RowOfRun
    <3>4. QED
      BY <2>2, <3>2, <3>3 DEF Own
  <2>3. QED
    BY <1>4, <2>1, <2>2
<1>9. /\ gates' \subseteq Definitions /\ evidence' \subseteq EvidenceRows
      /\ minted' \in Nat
      /\ requests' \in 0..MaxRequests /\ failures' \in 0..MaxFailures
      /\ op[p].pc # "idle" /\ overlapped' = overlapped /\ results' = results
  BY <1>1 DEF IInv, TypeOK
<1>10. QED
  BY <1>3, <1>5, <1>6, <1>7, <1>8, <1>9, ResultsStay, Stepping

(* Evidence of a check's kind that is the last there is decides its gate:  *)
(* it is what the result cites, and what it says.                          *)
LEMMA LastEvidenceDecides ==
  ASSUME IInv, NEW g, IsCheck(g),
         NEW e \in evidence, e.id = minted, RowOfRun(e, g)
  PROVE  /\ evaluate_gate(g).cited = {e.id}
         /\ evaluate_gate(g).status = evidence_to_gate_status(e.status)
<1> DEFINE rows == UNION {latest_evidence_for_check(c) :
                           c \in {d \in checks : d.id = g}}
<1>1. PICK c \in checks : c.id = g
  BY DEF IsCheck
<1>2. {d \in checks : d.id = g} = {c}
  BY <1>1 DEF IInv, TypeOK
<1>3. e.kind = c.kind
  BY <1>1 DEF RowOfRun
<1>4. \A f \in evidence : f.id \in Nat /\ f.id <= e.id
  BY DEF IInv, TypeOK, EvidenceRows, FreshIds, AllRows
<1>5. latest_evidence_for_check(c) = {e}
  <2>1. e \in latest_evidence_for_check(c)
    BY <1>3, <1>4 DEF latest_evidence_for_check
  <2>2. ASSUME NEW f \in latest_evidence_for_check(c)
        PROVE  f = e
    <3>1. f \in evidence /\ e.id <= f.id
      BY <1>3 DEF latest_evidence_for_check
    <3>2. f.id = e.id
      BY <1>4, <3>1
    <3>3. QED
      BY <3>1, <3>2 DEF IInv, TypeOK
  <2>3. QED
    BY <2>1, <2>2
<1>6. rows = {e}
  BY <1>2, <1>5
<1>7. /\ evaluate_gate(g).cited = {f.id : f \in rows}
      /\ evaluate_gate(g).status =
           combine_status({"NotEvaluated"} \cup
                            {evidence_to_gate_status(f.status) : f \in rows})
  BY DEF evaluate_gate
<1> HIDE DEF rows
<1>8. {"NotEvaluated"} \cup {evidence_to_gate_status(f.status) : f \in rows}
        = {"NotEvaluated", evidence_to_gate_status(e.status)}
  BY <1>6
<1>9. evidence_to_gate_status(e.status) \in GateStatuses
  BY VerdictTyping DEF IInv, TypeOK, EvidenceRows
<1>10. evaluate_gate(g).cited = {e.id}
  BY <1>6, <1>7
<1>11. QED
  BY <1>7, <1>8, <1>9, <1>10, CombineOne

LEMMA EvaluateGateSafe ==
  ASSUME IInv, NEW p \in Procs, EvaluateGate(p)
  PROVE  IInv'
<1> USE DEF EvaluateGate, tables, bounds
<1>1. op[p] \in Ops /\ op[p].pc = "evaluate" /\ IsCheck(op[p].check)
  BY DEF IInv, TypeOK, Sound
<1>2. PICK r \in Results : r = evaluate_gate(op[p].check)
  BY Evaluation DEF IInv
<1>3. PICK next \in Ops : next = [op[p] EXCEPT !.pc = "result", !.result = {r}]
  <2>1. [op[p] EXCEPT !.pc = "result", !.result = {r}] \in Ops
    BY <1>1 DEF Ops
  <2>2. QED
    BY <2>1
<1>4. /\ Proceed(p, next)
      /\ next.pc = "result" /\ next.result = {r} /\ next.check = op[p].check
      /\ next.todo = op[p].todo /\ next.row = op[p].row
  BY <1>1, <1>2, <1>3 DEF Ops
<1>5. FreshIds'
  BY <1>4, NothingMinted
<1>6. Grows
  BY DEF Grows, IInv, TypeOK
<1>7. Sound(next)
  BY <1>1, <1>2, <1>4, Evaluation DEF IInv, Sound
<1>8. Sound(next)'
  BY <1>6, <1>7, SoundLater
<1>9. ASSUME ~overlapped PROVE Own(next)'
  <2>1. PICK e \in evidence : e.id = minted /\ RowOfRun(e, op[p].check)
    BY <1>1, <1>9 DEF IInv, Alone, Own
  <2>2. r.cited = {e.id} /\ e.run = next.check
    BY <1>1, <1>2, <1>4, <2>1, LastEvidenceDecides DEF RowOfRun
  <2>3. QED
    BY <1>4, <2>2 DEF Own
<1>10. /\ gates' \subseteq Definitions /\ evidence' \subseteq EvidenceRows
       /\ minted' \in Nat
       /\ requests' \in 0..MaxRequests /\ failures' \in 0..MaxFailures
       /\ op[p].pc # "idle" /\ overlapped' = overlapped /\ results' = results
  BY DEF IInv, TypeOK
<1>11. QED
  BY <1>4, <1>5, <1>6, <1>8, <1>9, <1>10, ResultsStay, Stepping

LEMMA PutGateResultSafe ==
  ASSUME IInv, NEW p \in Procs, PutGateResult(p)
  PROVE  IInv'
<1> USE DEF PutGateResult, Return, bounds
<1>1. /\ op[p] \in Ops /\ op[p].pc = "result" /\ IsCheck(op[p].check)
      /\ \A r \in op[p].result : Justified(op[p].check, r)
  BY DEF IInv, TypeOK, Sound
<1>2. PICK r \in op[p].result :
        results' = [g \in DOMAIN results \cup {op[p].check} |->
                      IF g = op[p].check THEN r ELSE results[g]]
  OBVIOUS
<1>3. /\ r \in Results
      /\ DOMAIN results' = DOMAIN results \cup {op[p].check}
      /\ results'[op[p].check] = r
      /\ \A g \in DOMAIN results :
           g # op[p].check => results'[g] = results[g]
  BY <1>1, <1>2 DEF Ops
<1>4. Grows
  BY DEF Grows, IInv, TypeOK
<1>5. FreshIds'
  BY IdleSound, NothingMinted
<1>6. /\ DOMAIN results' \subseteq {c.id : c \in checks'}
      /\ \A g \in DOMAIN results' : results'[g] \in Results
  BY <1>1, <1>3 DEF IInv, TypeOK, IsCheck
<1>7. ResultsJustified'
  <2>1. \A g \in DOMAIN results' : Justified(g, results'[g])
    BY <1>1, <1>3 DEF IInv, ResultsJustified
  <2>2. QED
    BY <2>1 DEF ResultsJustified, Justified
<1>8. VerdictsAreOwn'
  <2> SUFFICES ASSUME ~overlapped, NEW c \in checks, c.id \in DOMAIN results'
               PROVE  \E e \in RunsOf(c) : results'[c.id].cited = {e.id}
    BY DEF VerdictsAreOwn, RunsOf
  <2>1. CASE c.id = op[p].check
    <3>1. PICK e \in evidence : e.run = op[p].check /\ r.cited = {e.id}
      BY <1>1 DEF IInv, Alone, Own
    <3>2. QED
      BY <1>3, <2>1, <3>1 DEF RunsOf
  <2>2. CASE c.id # op[p].check
    BY <1>3, <2>2 DEF IInv, VerdictsAreOwn
  <2>3. QED
    BY <2>1, <2>2
<1>9. /\ gates' \subseteq Definitions /\ evidence' \subseteq EvidenceRows
      /\ minted' \in Nat
      /\ requests' \in 0..MaxRequests /\ failures' \in 0..MaxFailures
      /\ op[p].pc # "idle" /\ overlapped' = overlapped
  BY DEF IInv, TypeOK
<1>10. QED
  BY <1>4, <1>5, <1>6, <1>7, <1>8, <1>9, IdleSound, Stepping

-----------------------------------------------------------------------------
(* The theorems. *)

LEMMA InitSafe == Init => IInv
<1> SUFFICES ASSUME Init PROVE IInv
  OBVIOUS
<1> USE DEF Init
<1>1. TypeOK
  <2>1. DOMAIN results = {}
    OBVIOUS
  <2>2. op \in [Procs -> Ops]
    BY IdleSound
  <2>3. requests \in 0..MaxRequests /\ failures \in 0..MaxFailures
    BY BoundsAssumption
  <2>4. QED
    BY <2>1, <2>2, <2>3 DEF TypeOK
<1>2. FreshIds
  BY IdleSound DEF FreshIds, AllGates, AllRows
<1>3. (\A p \in Procs : Sound(op[p])) /\ Alone
  BY IdleSound DEF Alone
<1>4. ResultsJustified /\ VerdictsAreOwn
  BY DEF ResultsJustified, VerdictsAreOwn
<1>5. QED
  BY <1>1, <1>2, <1>3, <1>4 DEF IInv

LEMMA NextSafe == IInv /\ [Next]_vars => IInv'
<1> SUFFICES ASSUME IInv, [Next]_vars PROVE IInv'
  OBVIOUS
<1>1. ASSUME NEW p \in Procs, Derive(p) PROVE IInv'
  BY <1>1, DeriveSafe
<1>2. ASSUME NEW p \in Procs,
             LookForChecks(p) \/ PutDefinition(p) \/ PutCheck(p)
      PROVE  IInv'
  BY <1>2, LookForChecksSafe, PutDefinitionSafe, PutCheckSafe
<1>3. ASSUME NEW p \in Procs, NEW check \in checks, RunCheck(p, check)
      PROVE  IInv'
  BY <1>3, RunCheckSafe
<1>4. ASSUME NEW p \in Procs,
             ToolEnds(p) \/ PutEvidence(p) \/ EvaluateGate(p) \/ PutGateResult(p)
      PROVE  IInv'
  BY <1>4, ToolEndsSafe, PutEvidenceSafe, EvaluateGateSafe, PutGateResultSafe
<1>5. ASSUME NEW p \in Procs, NEW kind \in PlannedKinds, NEW status \in Recorded,
             RecordCheckEvidence(p, kind, status)
      PROVE  IInv'
  BY <1>5, RecordCheckEvidenceSafe
<1>6. ASSUME NEW p \in Procs, Fail(p) PROVE IInv'
  BY <1>6, FailSafe
<1>7. CASE UNCHANGED vars
  <2> USE <1>7 DEF vars
  <2>1. TypeOK' /\ FreshIds'
    BY DEF IInv, TypeOK, FreshIds, AllGates, AllRows
  <2>2. \A p \in Procs : Sound(op[p])'
    BY DEF IInv, Sound, NextOf, IsCheck, Justified
  <2>3. ResultsJustified' /\ VerdictsAreOwn'
    BY DEF IInv, ResultsJustified, Justified, VerdictsAreOwn, RunsOf
  <2>4. Alone'
    BY DEF IInv, Alone, Own, RowOfRun
  <2>5. QED
    BY <2>1, <2>2, <2>3, <2>4 DEF IInv
<1>8. QED
  BY <1>1, <1>2, <1>3, <1>4, <1>5, <1>6, <1>7 DEF Next

(* IInv is an invariant, for every plan and any bounds. *)
THEOREM Invariant == Spec => []IInv
BY InitSafe, NextSafe, PTL DEF Spec

(* The tables keep their shape: no id is minted twice, however captures    *)
(* overlap, and no check is stored without its gate (persist_materialised).*)
THEOREM TypeCorrect == Spec => []TypeOK
<1>1. IInv => TypeOK
  BY DEF IInv
<1>2. QED
  BY <1>1, Invariant, PTL

(* A stage that nothing blocks has a mandatory gate that passed. *)
LEMMA OpenStageHasPass ==
  ASSUME TypeOK, NEW stage \in GateStages, Open(stage)
  PROVE  \E d \in gates : /\ d.stage = stage /\ d.mandatory
                          /\ d.id \in DOMAIN results
                          /\ results[d.id].status = "Pass"
<1> DEFINE first == FirstMandatory(stage, Candidate, gates)
           blockers == UNION {GateResultBlockers(d, Candidate, results) : d \in first}
           found == IF Candidate = NoCandidate \/ first = {}
                    THEN {<<"MissingGate", stage>>} ELSE blockers
<1>1. found = {}
  <2>1. UNION {found : s \in {stage}} = {}
    BY DEF Open, check_gates
  <2> HIDE DEF found
  <2>2. QED
    BY <2>1
<1>2. first # {} /\ blockers = {}
  BY <1>1
<1>3. PICK d \in first : GateResultBlockers(d, Candidate, results) = {}
  <2> HIDE DEF first
  <2>1. QED
    BY <1>2
<1>4. d \in gates /\ d.stage = stage /\ d.mandatory
  BY DEF FirstMandatory
<1>5. d.id \in DOMAIN results
  BY <1>3 DEF GateResultBlockers
<1>6. d.minimum = "Pass" /\ results[d.id].status \in GateStatuses
  BY <1>4, <1>5 DEF TypeOK, Definitions, Results
<1>7. results[d.id].status = "Pass"
  <2>1. ASSUME NEW r, r = results[d.id], r.status # "Pass" PROVE FALSE
    <3>1. CASE r.status = "NotApplicable"
      BY <1>3, <1>5, <1>6, <2>1, <3>1 DEF GateResultBlockers
    <3>2. CASE r.status \in {"NotEvaluated", "Blocked"}
      BY <1>3, <1>5, <1>6, <2>1, <3>2 DEF GateResultBlockers
    <3>3. CASE r.status \in {"Fail", "ReviewRequired"}
      BY <1>3, <1>5, <1>6, <2>1, <3>3 DEF GateResultBlockers
    <3>4. QED
      BY <1>6, <2>1, <3>1, <3>2, <3>3 DEF GateStatuses
  <2>2. QED
    BY <2>1
<1>8. QED
  BY <1>4, <1>5, <1>7

(* However captures, runs and recorded evidence interleave, and whatever   *)
(* stops half way, a stage of the candidate opens only on a mandatory gate *)
(* with passing evidence of its kind behind it (check_gates over what      *)
(* evaluate_gate stored).                                                  *)
THEOREM OpenStagesSound == Spec => []OpenStagesRestOnEvidence
<1>1. IInv => OpenStagesRestOnEvidence
  <2> SUFFICES ASSUME IInv, NEW stage \in GateStages, Open(stage)
               PROVE  \E d \in gates :
                        /\ d.stage = stage /\ d.mandatory
                        /\ d.id \in DOMAIN results
                        /\ \E e \in evidence : /\ e.id \in results[d.id].cited
                                               /\ e.kind = d.kind
                                               /\ e.status = "Pass"
    BY DEF OpenStagesRestOnEvidence
  <2>1. PICK d \in gates : /\ d.stage = stage /\ d.mandatory
                           /\ d.id \in DOMAIN results
                           /\ results[d.id].status = "Pass"
    BY OpenStageHasPass DEF IInv
  <2>2. d \in checks
    BY <2>1 DEF IInv, TypeOK
  <2>3. \E e \in evidence : /\ e.id \in results[d.id].cited
                            /\ e.kind = d.kind
                            /\ e.status = "Pass"
    BY <2>1, <2>2 DEF IInv, ResultsJustified, Justified
  <2>4. QED
    BY <2>1, <2>3
<1>2. QED
  BY <1>1, Invariant, PTL

(* As long as no two requests have overlapped, each gate is judged by one  *)
(* run of its own check, although evidence is looked up by kind            *)
(* (latest_evidence_for_check) and several checks share a kind.            *)
THEOREM VerdictsOwn == Spec => []VerdictsAreOwn
<1>1. IInv => VerdictsAreOwn
  BY DEF IInv
<1>2. QED
  BY <1>1, Invariant, PTL

-----------------------------------------------------------------------------
(* What opens a stage when requests come one at a time and none stops half *)
(* way: the last run of its mandatory check.  check_gates looks at the     *)
(* first mandatory definition of a stage only, so the plan must not hold   *)
(* two, as no plan of the shipped adapters does.                           *)

OneMandatoryPerStage ==
  \A i, j \in DOMAIN Plan :
    /\ Plan[i].mandatory /\ Plan[i].kind \in DOMAIN gate_stage_for
    /\ Plan[j].mandatory /\ Plan[j].kind \in DOMAIN gate_stage_for
    /\ gate_stage_for[Plan[i].kind] = gate_stage_for[Plan[j].kind]
    => i = j

(* So is what was made of the plan, because it is made once. *)
OnePerStage ==
  \A d, e \in AllGates : d.mandatory /\ e.mandatory /\ d.stage = e.stage => d = e

(* A gate without its check is the one a capture has just put. *)
GatesHaveChecks ==
  \A d \in gates :
    d \in checks \/ \E p \in Procs : op[p].pc = "check" /\ d \in NextOf(op[p].todo)

RunsAreOfChecks ==
  /\ \A d \in AllGates : d.id # 0
  /\ \A e \in AllRows : e.run = 0 \/ IsCheck(e.run)

(* A result says what the last run of the check says. *)
Judged(r, c) == \E e \in LastRun(c) : r.status = evidence_to_gate_status(e.status)

(* Of a handler at work. *)
Follows(o) ==
  /\ o.pc \notin {"definition", "check"} => o.todo = {}
  /\ o.pc = "evidence" => \A e \in o.row : e.run = o.check
  /\ o.pc = "result" =>
       \A c \in checks : c.id = o.check => \A r \in o.result : Judged(r, c)

(* Of a check no handler is judging. *)
Settled(c) ==
  IF c.id \in DOMAIN results THEN Judged(results[c.id], c) ELSE RunsOf(c) = {}

BeingJudged(c) ==
  \E p \in Procs : op[p].pc \in {"evaluate", "result"} /\ op[p].check = c.id

Quiet == ~overlapped /\ failures = 0

LInv ==
  Quiet => /\ OnePerStage
           /\ GatesHaveChecks
           /\ RunsAreOfChecks
           /\ \A p \in Procs : Follows(op[p])
           /\ \A c \in checks : Settled(c) \/ BeingJudged(c)

(* All of this seen from the one handler o that may be at work. *)
View(o) ==
  /\ \A d, e \in gates \cup o.todo :
       d.mandatory /\ e.mandatory /\ d.stage = e.stage => d = e
  /\ \A d \in gates \cup o.todo : d.id # 0
  /\ \A d \in gates : d \in checks \/ (o.pc = "check" /\ d \in NextOf(o.todo))
  /\ \A e \in evidence \cup o.row : e.run = 0 \/ IsCheck(e.run)
  /\ Follows(o)
  /\ \A c \in checks :
       Settled(c) \/ (o.pc \in {"evaluate", "result"} /\ o.check = c.id)

OthersIdle(p) == \A q \in Procs : q # p => op[q] = Idle

LEMMA IdleFollows == Follows(Idle) /\ Follows(Idle)'
BY IdleSound DEF Follows

LEMMA ViewOf ==
  ASSUME LInv, Quiet, NEW p \in Procs, OthersIdle(p)
  PROVE  View(op[p])
<1>1. AllGates = gates \cup op[p].todo
  BY IdleSound DEF AllGates, OthersIdle
<1>2. AllRows = evidence \cup op[p].row
  BY IdleSound DEF AllRows, OthersIdle
<1>3. \A d \in gates : d \in checks \/ (op[p].pc = "check" /\ d \in NextOf(op[p].todo))
  BY IdleSound DEF LInv, GatesHaveChecks, OthersIdle
<1>4. \A c \in checks :
        Settled(c) \/ (op[p].pc \in {"evaluate", "result"} /\ op[p].check = c.id)
  BY IdleSound DEF LInv, BeingJudged, OthersIdle
<1>5. QED
  BY <1>1, <1>2, <1>3, <1>4 DEF LInv, OnePerStage, RunsAreOfChecks, View

(* What is left to show of a step: the view of the handler that made it.   *)
LEMMA Looking ==
  ASSUME IInv, LInv, NEW p \in Procs, NEW next \in Ops, Proceed(p, next),
         failures' = failures,
         \/ op[p].pc # "idle" /\ overlapped' = overlapped
         \/ overlapped' = (overlapped \/ Busy),
         Quiet /\ View(op[p]) => View(next)'
  PROVE  LInv'
<1> SUFFICES ASSUME Quiet'
             PROVE  /\ OnePerStage' /\ GatesHaveChecks' /\ RunsAreOfChecks'
                    /\ \A q \in Procs : Follows(op[q])'
                    /\ \A c \in checks' : Settled(c)' \/ BeingJudged(c)'
  BY DEF LInv
<1>1. /\ op' \in [Procs -> Ops]
      /\ op'[p] = next
      /\ \A q \in Procs : q # p => op'[q] = op[q]
  BY DEF IInv, TypeOK, Proceed
<1>2. Quiet
  BY DEF Quiet, IInv, TypeOK
<1>3. OthersIdle(p)
  <2>1. \A q \in Procs : q # p => op[q].pc = "idle"
    BY <1>2 DEF Quiet, IInv, Alone, Busy
  <2>2. QED
    BY <2>1 DEF IInv, Sound, OthersIdle
<1>4. \A q \in Procs : q # p => op'[q] = Idle
  BY <1>1, <1>3 DEF OthersIdle
<1>5. View(next)'
  BY <1>2, <1>3, ViewOf
<1>6. AllGates' = gates' \cup next.todo
  BY <1>1, <1>4, IdleSound DEF AllGates
<1>7. AllRows' = evidence' \cup next.row
  BY <1>1, <1>4, IdleSound DEF AllRows
<1>8. OnePerStage' /\ RunsAreOfChecks'
  BY <1>5, <1>6, <1>7 DEF View, OnePerStage, RunsAreOfChecks
<1>9. GatesHaveChecks'
  BY <1>1, <1>5 DEF View, GatesHaveChecks
<1>10. \A q \in Procs : Follows(op[q])'
  <2>1. Follows(next)'
    BY <1>5 DEF View
  <2>2. ASSUME NEW q \in Procs PROVE Follows(op[q])'
    <3>1. CASE q = p
      BY <1>1, <2>1, <3>1 DEF Follows, Judged
    <3>2. CASE q # p
      BY <1>4, <3>2, IdleSound DEF Follows
    <3>3. QED
      BY <3>1, <3>2
  <2>3. QED
    BY <2>2
<1>11. \A c \in checks' : Settled(c)' \/ BeingJudged(c)'
  BY <1>1, <1>5 DEF View, BeingJudged
<1>12. QED
  BY <1>8, <1>9, <1>10, <1>11

(* A gate that stands, and the runs of a check that are stored, are looked *)
(* at in the tables only.                                                  *)
LEMMA VerdictsStay ==
  ASSUME evidence' = evidence, NEW c
  PROVE  /\ RunsOf(c)' = RunsOf(c)
         /\ \A r : Judged(r, c)' <=> Judged(r, c)
         /\ results' = results => (Settled(c)' <=> Settled(c))
<1>1. RunsOf(c)' = RunsOf(c)
  BY DEF RunsOf
<1>2. LastRun(c)' = LastRun(c)
  BY <1>1 DEF LastRun
<1>3. \A r : Judged(r, c)' <=> Judged(r, c)
  BY <1>2 DEF Judged
<1>4. QED
  BY <1>1, <1>3 DEF Settled

(* A handler that has nothing of gates or evidence in hand before or after *)
(* the step, and leaves the tables as they are.                            *)
LEMMA EmptyHanded ==
  ASSUME NEW o, NEW next, View(o), UNCHANGED tables,
         o.pc \notin {"check", "evaluate", "result"},
         next.todo = {}, next.row = {},
         next.pc \notin {"evidence", "result"}
  PROVE  View(next)'
<1> USE DEF tables
<1>1. \A d, e \in gates' \cup next.todo :
        d.mandatory /\ e.mandatory /\ d.stage = e.stage => d = e
  BY DEF View
<1>2. (\A d \in gates' \cup next.todo : d.id # 0) /\ (\A d \in gates' : d \in checks')
  BY DEF View
<1>3. \A e \in evidence' \cup next.row : e.run = 0 \/ IsCheck(e.run)'
  BY DEF View, IsCheck
<1>4. Follows(next)'
  BY DEF Follows
<1>5. \A c \in checks' : Settled(c)'
  BY VerdictsStay DEF View
<1>6. QED
  BY <1>1, <1>2, <1>3, <1>4, <1>5 DEF View

LEMMA RequestFollows ==
  ASSUME IInv, LInv, NEW p \in Procs, NEW request \in Ops, Accept(p, request),
         request.pc \in {"planned", "tool"}, request.todo = {}, request.row = {}
  PROVE  LInv'
<1> USE DEF Accept
<1>1. ASSUME View(op[p]) PROVE View(request)'
  BY <1>1, EmptyHanded
<1>2. QED
  BY <1>1, Looking

LEMMA DeriveFollows ==
  ASSUME IInv, LInv, NEW p \in Procs, Derive(p)
  PROVE  LInv'
<1> DEFINE request == [Idle EXCEPT !.pc = "planned"]
<1>1. /\ request \in Ops
      /\ request.pc = "planned" /\ request.todo = {} /\ request.row = {}
  BY DEF Idle, Ops
<1>2. QED
  BY <1>1, RequestFollows DEF Derive

LEMMA RunCheckFollows ==
  ASSUME IInv, LInv, NEW p \in Procs, NEW check \in checks, RunCheck(p, check)
  PROVE  LInv'
<1> DEFINE request == [Idle EXCEPT !.pc = "tool", !.check = check.id]
<1>1. check.id \in Nat
  BY DEF IInv, TypeOK, Definitions
<1>2. /\ request \in Ops
      /\ request.pc = "tool" /\ request.todo = {} /\ request.row = {}
  BY <1>1 DEF Idle, Ops
<1>3. QED
  BY <1>2, RequestFollows DEF RunCheck

LEMMA PlanOnePerStage ==
  ASSUME OneMandatoryPerStage, TypeOK
  PROVE  /\ \A d, e \in plan_to_materialised :
              d.mandatory /\ e.mandatory /\ d.stage = e.stage => d = e
         /\ \A d \in plan_to_materialised : d.id # 0
<1>1. \A d \in plan_to_materialised :
        \E i \in DOMAIN Plan : /\ Plan[i].kind \in DOMAIN gate_stage_for
                               /\ d = GateOf(i, minted + i)
  BY DEF plan_to_materialised
<1>2. ASSUME NEW i \in DOMAIN Plan
      PROVE  /\ GateOf(i, minted + i).stage = gate_stage_for[Plan[i].kind]
             /\ GateOf(i, minted + i).mandatory = Plan[i].mandatory
  BY DEF GateOf
<1>3. \A d, e \in plan_to_materialised :
        d.mandatory /\ e.mandatory /\ d.stage = e.stage => d = e
  <2> SUFFICES ASSUME NEW d \in plan_to_materialised, NEW e \in plan_to_materialised,
                      d.mandatory, e.mandatory, d.stage = e.stage
               PROVE  d = e
    OBVIOUS
  <2>1. PICK i \in DOMAIN Plan : /\ Plan[i].kind \in DOMAIN gate_stage_for
                                 /\ d = GateOf(i, minted + i)
    BY <1>1
  <2>2. PICK j \in DOMAIN Plan : /\ Plan[j].kind \in DOMAIN gate_stage_for
                                 /\ e = GateOf(j, minted + j)
    BY <1>1
  <2>3. Plan[i].mandatory /\ Plan[j].mandatory
    BY <1>2, <2>1, <2>2
  <2>4. gate_stage_for[Plan[i].kind] = gate_stage_for[Plan[j].kind]
    BY <1>2, <2>1, <2>2
  <2>5. i = j
    BY <2>1, <2>2, <2>3, <2>4 DEF OneMandatoryPerStage
  <2>6. QED
    BY <2>1, <2>2, <2>5
<1>4. ASSUME NEW d \in plan_to_materialised PROVE d.id # 0
  <2>1. minted < d.id /\ minted \in Nat /\ d.id \in Nat
    BY PlanTyping DEF TypeOK, Definitions
  <2>2. QED
    BY <2>1
<1>5. QED
  BY <1>3, <1>4

(* What a plan is made into is the first there is: with no check stored,   *)
(* and nobody else at work, no gate is stored either.                      *)
LEMMA LookForChecksFollows ==
  ASSUME OneMandatoryPerStage, IInv, LInv, NEW p \in Procs, LookForChecks(p)
  PROVE  LInv'
<1> USE DEF LookForChecks, bounds
<1>1. CASE Return(p) /\ UNCHANGED minted
  <2>1. ASSUME View(op[p]) PROVE View(Idle)'
    BY <2>1, EmptyHanded, IdleSound
  <2>2. QED
    BY <1>1, <2>1, IdleSound, Looking DEF Return
<1>2. CASE ~(AlreadyPlanned \/ plan_to_materialised = {})
  <2>1. plan_to_materialised \subseteq Definitions
    BY PlanTyping DEF IInv
  <2>2. [Idle EXCEPT !.pc = "definition", !.todo = plan_to_materialised] \in Ops
    BY <2>1 DEF Idle, Ops
  <2>3. PICK next \in Ops :
          next = [Idle EXCEPT !.pc = "definition", !.todo = plan_to_materialised]
    BY <2>2
  <2>4. /\ Proceed(p, next)
        /\ next.pc = "definition" /\ next.row = {}
        /\ next.todo = plan_to_materialised
    BY <1>2, <2>3 DEF Idle
  <2>5. checks = {} /\ UNCHANGED tables
    BY <1>2 DEF AlreadyPlanned
  <2>6. ASSUME View(op[p]) PROVE View(next)'
    <3>1. gates = {}
      BY <2>5, <2>6 DEF View
    <3>2. gates' = {} /\ checks' = {} /\ evidence' = evidence
      BY <2>5, <3>1 DEF tables
    <3>3. \A d, e \in gates' \cup next.todo :
            d.mandatory /\ e.mandatory /\ d.stage = e.stage => d = e
      BY <2>4, <3>2, PlanOnePerStage DEF IInv
    <3>4. \A d \in gates' \cup next.todo : d.id # 0
      BY <2>4, <3>2, PlanOnePerStage DEF IInv
    <3>5. \A e \in evidence' \cup next.row : e.run = 0 \/ IsCheck(e.run)'
      BY <2>4, <2>5, <2>6, <3>2 DEF View, IsCheck
    <3>6. Follows(next)'
      BY <2>4 DEF Follows
    <3>7. QED
      BY <3>2, <3>3, <3>4, <3>5, <3>6 DEF View
  <2>7. failures' = failures /\ op[p].pc # "idle" /\ overlapped' = overlapped
    OBVIOUS
  <2>8. QED
    BY <2>4, <2>6, <2>7, Looking
<1>3. QED
  BY <1>1, <1>2

LEMMA PutDefinitionFollows ==
  ASSUME IInv, LInv, NEW p \in Procs, PutDefinition(p)
  PROVE  LInv'
<1> USE DEF PutDefinition, bounds
<1>1. op[p] \in Ops /\ NextOf(op[p].todo) \subseteq op[p].todo
  BY DEF IInv, TypeOK, NextOf
<1>2. PICK next \in Ops : next = [op[p] EXCEPT !.pc = "check"]
  BY <1>1 DEF Ops
<1>3. /\ Proceed(p, next)
      /\ next.pc = "check" /\ next.row = op[p].row /\ next.todo = op[p].todo
  BY <1>1, <1>2 DEF Ops
<1>4. ASSUME View(op[p]) PROVE View(next)'
  <2>1. gates' \cup next.todo = gates \cup op[p].todo
    BY <1>1, <1>3
  <2>2. \A d \in gates' : d \in checks' \/ d \in NextOf(next.todo)
    BY <1>3, <1>4 DEF View
  <2>3. \A e \in evidence' \cup next.row : e.run = 0 \/ IsCheck(e.run)'
    BY <1>3, <1>4 DEF View, IsCheck
  <2>4. Follows(next)'
    BY <1>3 DEF Follows
  <2>5. \A c \in checks' : Settled(c)'
    BY <1>4, VerdictsStay DEF View
  <2>6. QED
    BY <1>3, <1>4, <2>1, <2>2, <2>3, <2>4, <2>5 DEF View, NextOf
<1>5. failures' = failures /\ op[p].pc # "idle" /\ overlapped' = overlapped
  OBVIOUS
<1>6. QED
  BY <1>3, <1>4, <1>5, Looking

(* A check that is new has no runs and no result yet. *)
LEMMA PutCheckFollows ==
  ASSUME IInv, LInv, NEW p \in Procs, PutCheck(p)
  PROVE  LInv'
<1> USE DEF PutCheck, bounds
<1>1. op[p] \in Ops /\ NextOf(op[p].todo) \subseteq gates
  BY DEF IInv, TypeOK, Sound
<1>2. PICK next \in Ops :
        /\ Proceed(p, next)
        /\ next.todo = op[p].todo \ NextOf(op[p].todo)
        /\ next.row \subseteq op[p].row
        /\ next.pc \in {"idle", "definition"}
        /\ next.pc = "idle" => next.todo = {}
  <2>1. CASE op[p].todo \ NextOf(op[p].todo) = {}
    BY <2>1, IdleSound DEF Return
  <2>2. CASE op[p].todo \ NextOf(op[p].todo) # {}
    <3>1. PICK next \in Ops :
            next = [op[p] EXCEPT !.pc = "definition",
                                 !.todo = op[p].todo \ NextOf(op[p].todo)]
      BY <1>1 DEF Ops
    <3>2. /\ next.todo = op[p].todo \ NextOf(op[p].todo)
          /\ next.row = op[p].row /\ next.pc = "definition"
      BY <1>1, <3>1 DEF Ops
    <3>3. Proceed(p, next)
      BY <2>2, <3>1
    <3>4. QED
      BY <3>2, <3>3
  <2>3. QED
    BY <2>1, <2>2
<1>3. ASSUME View(op[p]) PROVE View(next)'
  <2>1. gates' \cup next.todo \subseteq gates \cup op[p].todo
    BY <1>2
  <2>2. \A d \in gates' : d \in checks'
    BY <1>3 DEF View
  <2>3. \A e \in evidence' \cup next.row : e.run = 0 \/ IsCheck(e.run)'
    BY <1>2, <1>3 DEF View, IsCheck
  <2>4. Follows(next)'
    BY <1>2 DEF Follows
  <2>5. ASSUME NEW c \in checks' PROVE Settled(c)'
    <3>1. CASE c \in checks
      BY <1>3, <3>1, VerdictsStay DEF View
    <3>2. CASE c \notin checks
      <4>1. c \in gates /\ c.id # 0
        BY <1>1, <1>3, <3>2 DEF View
      <4>2. ~IsCheck(c.id)
        BY <3>2, <4>1 DEF IsCheck, IInv, TypeOK
      <4>3. c.id \notin DOMAIN results
        BY <4>2 DEF IsCheck, IInv, TypeOK
      <4>4. RunsOf(c) = {}
        BY <1>3, <4>1, <4>2 DEF RunsOf, View
      <4>5. QED
        BY <4>3, <4>4, VerdictsStay DEF Settled
    <3>3. QED
      BY <3>1, <3>2
  <2>6. QED
    BY <1>3, <2>1, <2>2, <2>3, <2>4, <2>5 DEF View
<1>4. failures' = failures /\ op[p].pc # "idle" /\ overlapped' = overlapped
  OBVIOUS
<1>5. QED
  BY <1>2, <1>3, <1>4, Looking

LEMMA ObserveFollows ==
  ASSUME IInv, LInv, NEW p \in Procs,
         NEW kind \in EvidenceKinds, NEW status \in EvidenceStatuses,
         Observe(p, kind, status), UNCHANGED tables,
         op[p].pc \in {"idle", "tool"},
         op[p].check = 0 \/ IsCheck(op[p].check),
         failures' = failures,
         \/ op[p].pc # "idle" /\ overlapped' = overlapped
         \/ overlapped' = (overlapped \/ Busy)
  PROVE  LInv'
<1>1. op[p] \in Ops /\ op[p].check \in Nat /\ minted \in Nat
  BY DEF IInv, TypeOK, Ops
<1>2. PICK e \in EvidenceRows : e = [id |-> minted + 1, kind |-> kind,
                                    status |-> status, run |-> op[p].check]
  <2>1. [id |-> minted + 1, kind |-> kind, status |-> status,
         run |-> op[p].check] \in EvidenceRows
    BY <1>1 DEF EvidenceRows
  <2>2. QED
    BY <2>1
<1>3. PICK next \in Ops : next = [op[p] EXCEPT !.pc = "evidence", !.row = {e}]
  BY <1>1 DEF Ops
<1>4. /\ Proceed(p, next)
      /\ next.pc = "evidence" /\ next.row = {e} /\ e.run = op[p].check
      /\ next.todo = op[p].todo /\ next.check = op[p].check
  BY <1>1, <1>2, <1>3 DEF Observe, Ops
<1>5. ASSUME View(op[p]) PROVE View(next)'
  <2> USE DEF tables
  <2>1. next.todo = {}
    BY <1>4, <1>5 DEF View, Follows
  <2>2. \A d, f \in gates' \cup next.todo :
          d.mandatory /\ f.mandatory /\ d.stage = f.stage => d = f
    BY <1>5, <2>1 DEF View
  <2>3. (\A d \in gates' \cup next.todo : d.id # 0) /\ (\A d \in gates' : d \in checks')
    BY <1>5, <2>1 DEF View
  <2>4. \A f \in evidence' \cup next.row : f.run = 0 \/ IsCheck(f.run)'
    BY <1>4, <1>5 DEF View, IsCheck
  <2>5. Follows(next)'
    BY <1>4, <2>1 DEF Follows
  <2>6. \A c \in checks' : Settled(c)'
    BY <1>5, VerdictsStay DEF View
  <2>7. QED
    BY <2>2, <2>3, <2>4, <2>5, <2>6 DEF View
<1>6. QED
  BY <1>4, <1>5, Looking

LEMMA ToolEndsFollows ==
  ASSUME IInv, LInv, NEW p \in Procs, ToolEnds(p)
  PROVE  LInv'
<1> USE DEF ToolEnds, bounds
<1>1. ASSUME NEW c \in checks, NEW status \in Verdicts,
             c.id = op[p].check, Observe(p, c.kind, status)
      PROVE  LInv'
  <2>1. c.kind \in EvidenceKinds /\ status \in EvidenceStatuses
    BY VerdictsAssumption DEF IInv, TypeOK, Definitions
  <2>2. IsCheck(op[p].check)
    BY <1>1 DEF IsCheck
  <2>3. QED
    BY <1>1, <2>1, <2>2, ObserveFollows
<1>2. CASE Return(p) /\ UNCHANGED minted
  <2>1. ASSUME View(op[p]) PROVE View(Idle)'
    BY <2>1, EmptyHanded, IdleSound
  <2>2. QED
    BY <1>2, <2>1, IdleSound, Looking DEF Return
<1>3. QED
  BY <1>1, <1>2

LEMMA RecordCheckEvidenceFollows ==
  ASSUME IInv, LInv, NEW p \in Procs, NEW kind \in PlannedKinds, NEW status \in Recorded,
         RecordCheckEvidence(p, kind, status)
  PROVE  LInv'
<1> USE DEF RecordCheckEvidence
<1>1. kind \in EvidenceKinds /\ status \in EvidenceStatuses
  <2> DEFINE T == [tool : STRING, kind : EvidenceKinds, mandatory : BOOLEAN]
  <2>1. Plan \in Seq(T)
    BY PlanAssumption
  <2> HIDE DEF T
  <2>2. \A i \in DOMAIN Plan : Plan[i] \in T
    BY <2>1, LenProperties, ElementOfSeq
  <2>3. QED
    BY <2>2, VerdictsAssumption DEF PlannedKinds, T
<1>2. op[p].check = 0
  BY IdleSound DEF IInv, Sound
<1>3. QED
  BY <1>1, <1>2, ObserveFollows

(* Evidence of another check, or recorded by hand, is no run of a check.   *)
LEMMA PutEvidenceFollows ==
  ASSUME IInv, LInv, NEW p \in Procs, PutEvidence(p)
  PROVE  LInv'
<1> USE DEF PutEvidence, bounds
<1>1. op[p] \in Ops
  BY DEF IInv, TypeOK
<1>2. PICK next \in Ops :
        /\ Proceed(p, next)
        /\ next.todo \subseteq op[p].todo /\ next.row \subseteq op[p].row
        /\ \/ op[p].check = 0 /\ next.pc = "idle"
           \/ next.pc = "evaluate" /\ next.check = op[p].check
  <2>1. CASE op[p].check = 0
    BY <2>1, IdleSound DEF Return
  <2>2. CASE op[p].check # 0
    <3>1. PICK next \in Ops : next = [op[p] EXCEPT !.pc = "evaluate"]
      BY <1>1 DEF Ops
    <3>2. /\ next.todo = op[p].todo /\ next.row = op[p].row
          /\ next.pc = "evaluate" /\ next.check = op[p].check
      BY <1>1, <3>1 DEF Ops
    <3>3. QED
      BY <2>2, <3>1, <3>2
  <2>3. QED
    BY <2>1, <2>2
<1>3. ASSUME View(op[p]) PROVE View(next)'
  <2>1. op[p].todo = {} /\ \A e \in op[p].row : e.run = op[p].check
    BY <1>3 DEF View, Follows
  <2>2. gates' \cup next.todo \subseteq gates \cup op[p].todo
    BY <1>2
  <2>3. \A d \in gates' : d \in checks'
    BY <1>3 DEF View
  <2>4. \A e \in evidence' \cup next.row : e.run = 0 \/ IsCheck(e.run)'
    BY <1>2, <1>3 DEF View, IsCheck
  <2>5. Follows(next)'
    BY <1>2, <2>1 DEF Follows
  <2>6. ASSUME NEW c \in checks', ~(next.pc = "evaluate" /\ next.check = c.id)
        PROVE  Settled(c)'
    <3>1. c.id # op[p].check
      BY <1>2, <1>3, <2>3, <2>6 DEF View, IInv, TypeOK
    <3>2. RunsOf(c)' = RunsOf(c)
      BY <2>1, <3>1 DEF RunsOf
    <3>3. LastRun(c)' = LastRun(c)
      BY <3>2 DEF LastRun
    <3>4. Settled(c)
      BY <1>3 DEF View
    <3>5. QED
      BY <3>2, <3>3, <3>4 DEF Settled, Judged
  <2>7. QED
    BY <1>3, <2>2, <2>3, <2>4, <2>5, <2>6 DEF View
<1>4. failures' = failures /\ op[p].pc # "idle" /\ overlapped' = overlapped
  OBVIOUS
<1>5. QED
  BY <1>2, <1>3, <1>4, Looking

(* Of the runs of the check, the one just judged is the last. *)
LEMMA EvaluateGateFollows ==
  ASSUME IInv, LInv, NEW p \in Procs, EvaluateGate(p)
  PROVE  LInv'
<1> USE DEF EvaluateGate, bounds
<1>1. op[p] \in Ops /\ op[p].pc = "evaluate" /\ IsCheck(op[p].check)
  BY DEF IInv, TypeOK, Sound
<1>2. PICK r \in Results : r = evaluate_gate(op[p].check)
  BY Evaluation DEF IInv
<1>3. PICK next \in Ops : next = [op[p] EXCEPT !.pc = "result", !.result = {r}]
  <2>1. [op[p] EXCEPT !.pc = "result", !.result = {r}] \in Ops
    BY <1>1 DEF Ops
  <2>2. QED
    BY <2>1
<1>4. /\ Proceed(p, next)
      /\ next.pc = "result" /\ next.result = {r} /\ next.check = op[p].check
      /\ next.todo = op[p].todo /\ next.row = op[p].row
  BY <1>1, <1>2, <1>3 DEF Ops
<1>5. ASSUME Quiet, NEW c \in checks, c.id = op[p].check
      PROVE  Judged(r, c)
  <2>1. PICK e \in evidence : e.id = minted /\ RowOfRun(e, op[p].check)
    BY <1>1, <1>5 DEF IInv, Alone, Own, Quiet
  <2>2. r.status = evidence_to_gate_status(e.status)
    BY <1>1, <1>2, <2>1, LastEvidenceDecides
  <2>3. \A f \in evidence : f.id <= e.id
    BY <2>1 DEF IInv, FreshIds, AllRows
  <2>4. e \in LastRun(c)
    BY <1>5, <2>1, <2>3 DEF LastRun, RunsOf, RowOfRun
  <2>5. QED
    BY <2>2, <2>4 DEF Judged
<1>6. ASSUME Quiet, View(op[p]) PROVE View(next)'
  <2> USE DEF tables
  <2>1. gates' \cup next.todo = gates \cup op[p].todo
    BY <1>4
  <2>2. \A d \in gates' : d \in checks'
    BY <1>1, <1>6 DEF View
  <2>3. \A e \in evidence' \cup next.row : e.run = 0 \/ IsCheck(e.run)'
    BY <1>4, <1>6 DEF View, IsCheck
  <2>4. Follows(next)'
    <3>1. next.todo = {}
      BY <1>1, <1>4, <1>6 DEF View, Follows
    <3>2. \A c \in checks : c.id = next.check => \A s \in next.result : Judged(s, c)'
      BY <1>4, <1>5, <1>6, VerdictsStay
    <3>3. QED
      BY <1>4, <3>1, <3>2 DEF Follows
  <2>5. ASSUME NEW c \in checks', next.check # c.id
        PROVE  Settled(c)'
    BY <1>4, <1>6, <2>5, VerdictsStay DEF View
  <2>6. QED
    BY <1>4, <1>6, <2>1, <2>2, <2>3, <2>4, <2>5 DEF View
<1>7. failures' = failures /\ op[p].pc # "idle" /\ overlapped' = overlapped
  OBVIOUS
<1>8. QED
  BY <1>4, <1>6, <1>7, Looking

LEMMA PutGateResultFollows ==
  ASSUME IInv, LInv, NEW p \in Procs, PutGateResult(p)
  PROVE  LInv'
<1> USE DEF PutGateResult, Return, bounds
<1>1. op[p] \in Ops /\ op[p].pc = "result"
  BY DEF IInv, TypeOK
<1>2. PICK r \in op[p].result :
        results' = [g \in DOMAIN results \cup {op[p].check} |->
                      IF g = op[p].check THEN r ELSE results[g]]
  OBVIOUS
<1>3. /\ DOMAIN results' = DOMAIN results \cup {op[p].check}
      /\ results'[op[p].check] = r
      /\ \A g \in DOMAIN results :
           g # op[p].check => results'[g] = results[g]
  BY <1>2
<1>4. ASSUME View(op[p]) PROVE View(Idle)'
  <2>1. /\ op[p].todo = {}
        /\ \A c \in checks : c.id = op[p].check => Judged(r, c)
    BY <1>1, <1>4 DEF View, Follows
  <2>2. gates' \cup Idle.todo = gates
    BY IdleSound
  <2>3. \A d \in gates' : d \in checks'
    BY <1>1, <1>4 DEF View
  <2>4. \A e \in evidence' \cup Idle.row : e.run = 0 \/ IsCheck(e.run)'
    BY <1>4, IdleSound DEF View, IsCheck
  <2>5. ASSUME NEW c \in checks' PROVE Settled(c)'
    <3>1. CASE c.id = op[p].check
      <4>1. Judged(r, c)'
        BY <2>1, <3>1, VerdictsStay
      <4>2. QED
        BY <1>3, <3>1, <4>1 DEF Settled, Judged
    <3>2. CASE c.id # op[p].check
      <4>1. Settled(c)
        BY <1>4, <3>2 DEF View
      <4>2. CASE c.id \in DOMAIN results
        <5>1. Judged(results[c.id], c)
          BY <4>1, <4>2 DEF Settled
        <5>2. results'[c.id] = results[c.id] /\ c.id \in DOMAIN results'
          BY <1>3, <3>2, <4>2
        <5>3. LastRun(c)' = LastRun(c)
          BY DEF LastRun, RunsOf
        <5>4. QED
          BY <5>1, <5>2, <5>3 DEF Settled, Judged
      <4>3. CASE c.id \notin DOMAIN results
        BY <1>3, <3>2, <4>1, <4>3, VerdictsStay DEF Settled
      <4>4. QED
        BY <4>2, <4>3
    <3>3. QED
      BY <3>1, <3>2
  <2>6. QED
    BY <1>4, <2>2, <2>3, <2>4, <2>5, IdleFollows DEF View
<1>5. failures' = failures /\ op[p].pc # "idle" /\ overlapped' = overlapped
  OBVIOUS
<1>6. QED
  BY <1>4, <1>5, IdleSound, Looking

LEMMA FailFollows ==
  ASSUME IInv, NEW p \in Procs, Fail(p)
  PROVE  LInv'
<1>1. failures' # 0
  BY DEF Fail, IInv, TypeOK
<1>2. QED
  BY <1>1 DEF LInv, Quiet

LEMMA InitFollows == Init => LInv
<1> SUFFICES ASSUME Init PROVE LInv
  OBVIOUS
<1> USE DEF Init
<1>1. AllGates = {} /\ AllRows = {}
  BY IdleSound DEF AllGates, AllRows
<1>2. OnePerStage /\ GatesHaveChecks /\ RunsAreOfChecks
  BY <1>1 DEF OnePerStage, GatesHaveChecks, RunsAreOfChecks
<1>3. \A p \in Procs : Follows(op[p])
  BY IdleSound DEF Follows
<1>4. QED
  BY <1>2, <1>3 DEF LInv

LEMMA NextFollows ==
  OneMandatoryPerStage /\ IInv /\ LInv /\ [Next]_vars => LInv'
<1> SUFFICES ASSUME OneMandatoryPerStage, IInv, LInv, [Next]_vars PROVE LInv'
  OBVIOUS
<1>1. ASSUME NEW p \in Procs,
             Derive(p) \/ LookForChecks(p) \/ PutDefinition(p) \/ PutCheck(p)
      PROVE  LInv'
  BY <1>1, DeriveFollows, LookForChecksFollows, PutDefinitionFollows, PutCheckFollows
<1>2. ASSUME NEW p \in Procs, NEW check \in checks, RunCheck(p, check)
      PROVE  LInv'
  BY <1>2, RunCheckFollows
<1>3. ASSUME NEW p \in Procs,
             ToolEnds(p) \/ PutEvidence(p) \/ EvaluateGate(p) \/ PutGateResult(p)
      PROVE  LInv'
  BY <1>3, ToolEndsFollows, PutEvidenceFollows, EvaluateGateFollows,
     PutGateResultFollows
<1>4. ASSUME NEW p \in Procs, NEW kind \in PlannedKinds, NEW status \in Recorded,
             RecordCheckEvidence(p, kind, status)
      PROVE  LInv'
  BY <1>4, RecordCheckEvidenceFollows
<1>5. ASSUME NEW p \in Procs, Fail(p) PROVE LInv'
  BY <1>5, FailFollows
<1>6. CASE UNCHANGED vars
  <2> USE <1>6 DEF vars
  <2>1. AllGates' = AllGates /\ AllRows' = AllRows
    BY DEF AllGates, AllRows
  <2>2. (OnePerStage /\ GatesHaveChecks /\ RunsAreOfChecks)'
          <=> (OnePerStage /\ GatesHaveChecks /\ RunsAreOfChecks)
    BY <2>1 DEF OnePerStage, GatesHaveChecks, RunsAreOfChecks, IsCheck, NextOf
  <2>3. \A p \in Procs : Follows(op[p])' <=> Follows(op[p])
    BY VerdictsStay DEF Follows
  <2>4. \A c \in checks : (Settled(c)' <=> Settled(c)) /\ (BeingJudged(c)' <=> BeingJudged(c))
    BY VerdictsStay DEF BeingJudged
  <2>5. Quiet' <=> Quiet
    BY DEF Quiet
  <2>6. QED
    BY <2>2, <2>3, <2>4, <2>5 DEF LInv
<1>7. QED
  BY <1>1, <1>2, <1>3, <1>4, <1>5, <1>6 DEF Next

(* Where no stage has two mandatory checks, requests come one at a time    *)
(* and none stops half way, a stage is open exactly when its mandatory     *)
(* check was run and passed the last time: neither evidence recorded by    *)
(* hand nor a run of another check of the kind opens or closes it          *)
(* (check_gates over latest_evidence_for_check and evaluate_gate).         *)
THEOREM LastRunOpens ==
  ASSUME OneMandatoryPerStage
  PROVE  Spec => []StageOpensOnLastRun
<1>1. IInv /\ LInv => StageOpensOnLastRun
  <2> SUFFICES ASSUME IInv, LInv, Quiet, ~Busy, NEW stage \in GateStages
               PROVE  LET mandatory == {c \in checks : c.stage = stage /\ c.mandatory}
                      IN  Open(stage) <=>
                            /\ mandatory # {}
                            /\ \A c \in mandatory :
                                 \E e \in LastRun(c) : e.status = "Pass"
    BY DEF StageOpensOnLastRun, Quiet
  <2> DEFINE mandatory == {c \in checks : c.stage = stage /\ c.mandatory}
  <2>1. gates = checks
    BY DEF LInv, GatesHaveChecks, IInv, TypeOK, Busy
  <2>2. \A c \in checks : Settled(c)
    BY DEF LInv, BeingJudged, Busy
  <2>3. \A c, d \in mandatory : c = d
    BY <2>1 DEF LInv, OnePerStage, AllGates
  <2>4. ASSUME Open(stage)
        PROVE  /\ mandatory # {}
               /\ \A c \in mandatory : \E e \in LastRun(c) : e.status = "Pass"
    <3>1. PICK d \in gates : /\ d.stage = stage /\ d.mandatory
                             /\ d.id \in DOMAIN results
                             /\ results[d.id].status = "Pass"
      BY <2>4, OpenStageHasPass DEF IInv
    <3>2. d \in mandatory
      BY <2>1, <3>1
    <3>3. PICK e \in LastRun(d) :
                 results[d.id].status = evidence_to_gate_status(e.status)
      BY <2>2, <3>1, <3>2 DEF Settled, Judged
    <3>4. e.status = "Pass"
      BY <3>1, <3>3, VerdictTyping DEF LastRun, RunsOf, IInv, TypeOK, EvidenceRows
    <3>5. QED
      BY <2>3, <3>2, <3>4
  <2>5. ASSUME mandatory # {},
               \A c \in mandatory : \E e \in LastRun(c) : e.status = "Pass"
        PROVE  Open(stage)
    <3>1. PICK c \in mandatory : TRUE
      BY <2>5
    <3>2. PICK e \in LastRun(c) : e.status = "Pass"
      BY <2>5
    <3>3. c.id \in DOMAIN results /\ Judged(results[c.id], c)
      BY <2>2, <3>1, <3>2 DEF Settled, LastRun
    <3>4. PICK f \in LastRun(c) :
                 results[c.id].status = evidence_to_gate_status(f.status)
      BY <3>3 DEF Judged
    <3>5. e = f
      <4>1. e.id <= f.id /\ f.id <= e.id /\ e \in evidence /\ f \in evidence
        BY DEF LastRun, RunsOf
      <4>2. e.id \in Nat /\ f.id \in Nat
        BY <4>1 DEF IInv, TypeOK, EvidenceRows
      <4>3. QED
        BY <4>1, <4>2 DEF IInv, TypeOK
    <3>6. results[c.id].status = "Pass" /\ results[c.id].candidate = Candidate
      BY <3>2, <3>3, <3>4, <3>5
         DEF evidence_to_gate_status, IInv, TypeOK, Results
    <3>7. FirstMandatory(stage, Candidate, gates) = {c}
      <4>1. {d \in gates : d.stage = stage /\ d.candidate = Candidate /\ d.mandatory}
              = {c}
        BY <2>1, <2>3, <3>1 DEF IInv, TypeOK, Definitions
      <4>2. c.id \in Nat
        BY <3>1 DEF IInv, TypeOK, Definitions
      <4>3. QED
        BY <4>1, <4>2 DEF FirstMandatory
    <3>8. GateResultBlockers(c, Candidate, results) = {}
      BY <3>3, <3>6 DEF GateResultBlockers
    <3>9. Candidate # NoCandidate
      BY DEF Candidate, NoCandidate
    <3>10. QED
      BY <3>7, <3>8, <3>9 DEF Open, check_gates
  <2>6. QED
    BY <2>4, <2>5
<1>2. IInv /\ LInv /\ [Next]_vars => (IInv /\ LInv)'
  BY NextSafe, NextFollows
<1>3. Init => IInv /\ LInv
  BY InitSafe, InitFollows
<1>4. QED
  BY <1>1, <1>2, <1>3, PTL DEF Spec

=============================================================================
