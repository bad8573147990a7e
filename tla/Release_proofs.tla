--------------------------- MODULE Release_proofs ---------------------------
(***************************************************************************)
(* Theorems about Release, for any number of requests, candidates, gates   *)
(* and obligations.                                                        *)
(*                                                                         *)
(* TInv says what the tables hold and what each request holds where it     *)
(* stands: TypeCorrect and VerdictsSound follow from it.  Overtaken says   *)
(* of a request that is about to write that it has been overtaken by every *)
(* decision that its row is not about: DecisionsSound.  SInv says what a   *)
(* capture that has run to its end leaves, what an assembly has read of    *)
(* it, and what a snapshot holds: SnapshotsSound.  The last section is     *)
(* about the answers, and needs none of that: AnswersSound.                *)
(***************************************************************************)
EXTENDS Release, FiniteSetTheorems, TLAPS

-----------------------------------------------------------------------------
(* What the tables hold, and what a request holds where it stands.         *)

Fields == {"pc", "id", "candidate", "todo", "left", "row", "outcome", "gates",
           "duties", "settled", "since", "found"}

Rows == [id : Nat, candidate : Fingerprints, requirement : Range(Templates),
         status : Statuses, evidence : SUBSET [id : Nat, status : Verdicts],
         judged : BOOLEAN]

Operations == [id : {1}, candidate : Fingerprints,
               authorization : AuthorizationStates, age : 0..MaxAge]

Sorted(s) == \A i, j \in DOMAIN s : i < j => s[i].id < s[j].id

Ids(s) == {r.id : r \in Range(s)}

RequestsTyped ==
  /\ op = [p \in Procs |-> op[p]]
  /\ \A p \in Procs : /\ DOMAIN op[p] = Fields
                      /\ op[p].candidate \in Candidates /\ op[p].id \in Nat

TablesTyped ==
  /\ active \in Candidates /\ minted \in Nat
  /\ gates \subseteq [id : 1..minted, candidate : Fingerprints]
  /\ checks \subseteq {g.id : g \in gates}
  /\ obligations \in Seq(Rows) /\ Ids(obligations) \subseteq 1..minted
  /\ Sorted(obligations)
  /\ \A r \in Range(releases) : r.id \in 1..minted /\ r.source \in Fingerprints
  /\ releases \in Seq(Range(releases))
  /\ operations = {} \/ \E o \in operations : operations = {o} /\ o \in Operations
  /\ requests \in 0..MaxRequests /\ failures \in 0..MaxFailures

(* A row that is the same obligation. *)
Same(r, o) == r.id = o.id /\ r.candidate = o.candidate /\ r.requirement = o.requirement

(* A verdict has the evidence that it rests on. *)
Rests(o) ==
  o.judged =>
    /\ o.requirement \in Known
    /\ \E e \in o.evidence :
         e.status \in [Pass |-> {"Pass", "NotApplicable"}, Fail |-> {"Fail"}][o.status]

(* The row that a request is about to write. *)
Pending(o) ==
  \A r \in o.row :
    /\ r \in Rows /\ Rests(r) /\ r.status # "ExceptionApproved"
    /\ \E x \in Range(obligations) : Same(x, r)

Held(p) ==
  LET o == op[p] IN
  /\ o.pc \in {"activate", "planned?", "gate", "check", "derived?", "duty",
               "assembled?", "gates", "duties", "assemble"} =>
       o.candidate \in Fingerprints
  /\ o.pc \in {"gate", "check"} => o.todo \in Seq(1..minted) /\ o.todo # <<>>
  /\ o.pc = "check" => [id |-> Head(o.todo), candidate |-> o.candidate] \in gates
  /\ o.pc = "match" => o.found \in Ids(obligations)
  /\ o.pc \in {"outcome", "match"} => o.outcome \in Outcomes
  /\ o.pc \in {"evaluate", "judge", "verdict"} => o.outcome \in Verdicts
  /\ o.pc \in {"judge", "verdict"} => o.left \subseteq Ids(obligations) /\ o.left # {}
  /\ o.pc \in {"record", "verdict"} => Pending(o)
  /\ o.pc \in {"inspect", "abandon"} => o.left = {1} /\ operations # {}
  /\ o.pc = "abandon" => \E r \in o.row : o.row = {r} /\ r \in Operations

(* The obligations that a capture has still to store. *)
Underived(p) ==
  LET o == op[p] IN
  o.pc = "duty" =>
    /\ o.todo \in Seq(Rows) /\ o.todo # <<>>
    /\ \A i \in DOMAIN o.todo :
         /\ o.todo[i].id \in (1..minted) \ Ids(obligations)
         /\ o.todo[i].candidate = o.candidate /\ ~o.todo[i].judged
         /\ o.todo[i].status # "ExceptionApproved"
    /\ \A i, j \in DOMAIN o.todo : o.todo[i].id = o.todo[j].id => i = j

(* No two captures store an obligation under the same id. *)
IdsApart ==
  \A p, q \in Procs : p # q /\ At(p, "duty") /\ At(q, "duty") =>
    \A i \in DOMAIN op[p].todo, j \in DOMAIN op[q].todo :
      op[p].todo[i].id # op[q].todo[j].id

(* The inductive invariant of types and verdicts. *)
TInv ==
  /\ RequestsTyped /\ TablesTyped /\ VerdictRestsOnEvidence
  /\ \A p \in Procs : Held(p) /\ Underived(p)
  /\ IdsApart

(* Who is about to write knows, or has been overtaken. *)
Informed(p) ==
  /\ At(p, "record") =>
       \A o \in Range(obligations), r \in op[p].row :
         o.id = r.id /\ o.status = "ExceptionApproved" =>
           <<"obligation", o.id>> \in op[p].since
  /\ At(p, "abandon") =>
       \A o \in operations, r \in op[p].row :
         is_terminal(o.authorization) =>
           \/ <<"operation", o.id>> \in op[p].since
           \/ r.authorization = o.authorization

Overtaken == \A p \in Procs : Informed(p)

(* What a capture that has run to its end leaves. *)
Planned(c) ==
  PlannedGates = 0 \/ \E g \in gates : g.candidate = c /\ g.id \in checks
Derived(c) ==
  Templates = <<>> \/ \E o \in Range(obligations) : o.candidate = c

(* Somebody stores something for a capture of c. *)
BusyOn(q, c) == op[q].candidate = c /\ op[q].pc \in {"gate", "check", "duty"}

(* No capture of c stores anything, now or later. *)
Quiet(c) == Planned(c) /\ Derived(c) /\ \A q \in Procs : ~BusyOn(q, c)

CapturesEnd ==
  /\ \A c \in captured : Planned(c) /\ Derived(c)
  /\ \A q \in Procs, c \in Candidates :
       op[q].candidate = c /\ op[q].pc \in {"derived?", "duty"} => Planned(c)

Own(c) == {g.id : g \in {h \in gates : h.candidate = c}}
DutyIds(c) == {o.id : o \in DutiesOf(c)}

(* What an assembly takes from an obligation is what the obligation says. *)
Named(d, c) ==
  \E o \in DutiesOf(c) : d.id = o.id /\ d.authority = Authority[o.requirement]

(* What p has read for a release of c. *)
Assembling(p, c) ==
  LET o == op[p] IN
  /\ o.pc \in {"assembled?", "gates", "duties", "assemble"} /\ o.settled => Quiet(c)
  /\ o.pc \in {"duties", "assemble"} =>
       o.gates \subseteq Own(c) /\ (o.settled => o.gates = Own(c))
  /\ o.pc = "assemble" =>
       /\ \A d \in o.duties : Named(d, c)
       /\ o.settled => {d.id : d \in o.duties} = DutyIds(c)

(* What a snapshot of c holds. *)
Whole(r, c) ==
  /\ r.settled => Quiet(c)
  /\ r.gate_ids \subseteq Own(c)
  /\ r.obligation_ids \subseteq DutyIds(c)
  /\ r.authorities = {Authority[o.requirement] :
                        o \in {d \in DutiesOf(c) : d.id \in r.obligation_ids}}
  /\ r.settled => r.gate_ids = Own(c) /\ r.obligation_ids = DutyIds(c)

(* The inductive invariant of snapshots, given TInv. *)
SInv ==
  /\ CapturesEnd
  /\ \A p \in Procs, c \in Candidates : op[p].candidate = c => Assembling(p, c)
  /\ \A r \in Range(releases), c \in Candidates : r.source = c => Whole(r, c)
-----------------------------------------------------------------------------
(* Sets of numbers, sequences, and where a row is put among others.        *)

(* A set of numbers that has every smaller one as well is 1..m. *)
LEMMA Segment ==
  ASSUME NEW n \in Nat, NEW D \in SUBSET (1..n),
         \A i \in D : \A j \in 1..n : j < i => j \in D
  PROVE  D = 1..Cardinality(D) /\ Cardinality(D) \in 0..n
<1>1. IsFiniteSet(1..n) /\ Cardinality(1..n) = n
  BY FS_Interval
<1>2. IsFiniteSet(D) /\ Cardinality(D) <= n
  BY <1>1, FS_Subset
<1>3. Cardinality(D) \in Nat
  BY <1>2, FS_CardinalityType
<1>4. ASSUME NEW i \in D PROVE i \in 1..Cardinality(D)
  <2>1. i \in 1..n /\ 1..i \in SUBSET D
    OBVIOUS
  <2>2. Cardinality(1..i) = i
    BY FS_Interval
  <2>3. Cardinality(1..i) <= Cardinality(D)
    BY <1>2, <2>1, FS_Subset
  <2> QED BY <1>3, <2>2, <2>3
<1>5. /\ IsFiniteSet(1..Cardinality(D)) /\ Cardinality(1..Cardinality(D)) = Cardinality(D)
  BY <1>3, FS_Interval
<1>6. D \in SUBSET (1..Cardinality(D))
  BY <1>4
<1>7. D = 1..Cardinality(D)
  <2> DEFINE C == 1..Cardinality(D)
  <2>1. IsFiniteSet(C) /\ Cardinality(C) = Cardinality(D) /\ D \in SUBSET C
    BY <1>5, <1>6
  <2> HIDE DEF C
  <2>2. C = D
    BY <2>1, FS_Subset
  <2> QED BY <2>2 DEF C
<1> QED BY <1>2, <1>3, <1>7

LEMMA SeqOfFcn ==
  ASSUME NEW S, NEW n \in Nat, NEW f \in [1..n -> S]
  PROVE  f \in Seq(S) /\ Len(f) = n
OBVIOUS

LEMMA HeadAndTail ==
  ASSUME NEW S, NEW s \in Seq(S), s # <<>>
  PROVE  /\ Head(s) \in S /\ Head(s) = s[1] /\ Tail(s) \in Seq(S)
         /\ Len(s) \in Nat /\ Len(s) # 0 /\ DOMAIN s = 1..Len(s)
         /\ Len(s) # 1 => Tail(s) # <<>>
         /\ DOMAIN Tail(s) = 1..(Len(s) - 1)
         /\ \A i \in 1..(Len(s) - 1) : Tail(s)[i] = s[i + 1]
<1>1. Len(s) \in Nat /\ Len(s) # 0 /\ DOMAIN s = 1..Len(s)
  OBVIOUS
<1>2. Head(s) = s[1] /\ s[1] \in S
  BY <1>1
<1>3. Tail(s) \in Seq(S) /\ Len(Tail(s)) = Len(s) - 1
  OBVIOUS
<1>4. \A i \in 1..(Len(s) - 1) : Tail(s)[i] = s[i + 1]
  OBVIOUS
<1>5. DOMAIN Tail(s) = 1..(Len(s) - 1)
  BY <1>3
<1>6. Len(s) # 1 => Tail(s) # <<>>
  <2> SUFFICES ASSUME Len(s) # 1, Tail(s) = <<>> PROVE FALSE
    OBVIOUS
  <2>1. 1 \in DOMAIN Tail(s)
    BY <1>1, <1>5
  <2>2. 1 \notin DOMAIN << >>
    OBVIOUS
  <2> QED BY <2>1, <2>2
<1> QED BY <1>1, <1>2, <1>3, <1>4, <1>5, <1>6

LEMMA AppendRange ==
  ASSUME NEW s, s \in Seq(Range(s)), NEW r, NEW t, t = Append(s, r)
  PROVE  Range(t) = Range(s) \cup {r} /\ t \in Seq(Range(t))
<1>1. PICK n \in Nat : n = Len(s) /\ DOMAIN s = 1..n
  OBVIOUS
<1>2. DOMAIN t = 1..(n + 1) /\ t[n + 1] = r /\ \A i \in 1..n : t[i] = s[i]
  BY <1>1
<1>3. Range(t) = Range(s) \cup {r}
  <2>1. \A i \in 1..(n + 1) : i \in 1..n \/ i = n + 1
    OBVIOUS
  <2>2. 1..n \subseteq 1..(n + 1) /\ n + 1 \in 1..(n + 1)
    OBVIOUS
  <2> QED BY <1>1, <1>2, <2>1, <2>2 DEF Range
<1>4. t \in Seq(Range(s) \cup {r})
  <2> DEFINE S == Range(s) \cup {r}
  <2>1. s \in Seq(S) /\ r \in S
    BY <1>1 DEF Range
  <2> HIDE DEF S
  <2>2. t \in Seq(S)
    BY <2>1
  <2> QED BY <2>2 DEF S
<1> QED BY <1>3, <1>4

(* A set of numbers has a least one. *)
LEMMA LeastThere ==
  ASSUME NEW S \in SUBSET Nat, S # {}
  PROVE  Min(S) \in S /\ \A m \in S : Min(S) <= m
<1>1. PICK n \in S : TRUE
  OBVIOUS
<1> DEFINE D == {i \in 1..n : \A m \in S : i <= m}
<1>2. D = 1..Cardinality(D) /\ Cardinality(D) \in 0..n
  <2>1. \A i \in D : \A j \in 1..n : j < i => j \in D
    OBVIOUS
  <2> HIDE DEF D
  <2>2. n \in Nat /\ D \in SUBSET (1..n)
    BY <1>1 DEF D
  <2> QED BY <2>1, <2>2, Segment
<1> DEFINE c == Cardinality(D)
<1>3. \A m \in S : c <= m
  <2>1. c > 0 => c \in D
    BY <1>2
  <2> QED BY <1>2, <2>1
<1>4. c \in S
  <2> SUFFICES ASSUME c \notin S PROVE FALSE
    OBVIOUS
  <2>1. c \in Nat /\ \A m \in S : c + 1 <= m
    BY <1>2, <1>3
  <2>2. c + 1 \in 1..n
    BY <1>1, <2>1
  <2>3. c + 1 \in D
    BY <2>1, <2>2
  <2>4. c + 1 \in 1..c
    BY <1>2, <2>3
  <2> QED BY <2>1, <2>4
<1> HIDE DEF c
<1> QED BY <1>3, <1>4 DEF Min

LEMMA Spliced ==
  ASSUME NEW T, NEW s \in Seq(T), NEW o \in T, NEW k \in 1..(Len(s) + 1)
  PROVE  LET t == InsertAt(s, k, o)
         IN  /\ t \in Seq(T) /\ DOMAIN t = 1..(Len(s) + 1)
             /\ \A i \in 1..(Len(s) + 1) :
                  t[i] = IF i < k THEN s[i] ELSE IF i = k THEN o ELSE s[i - 1]
<1> DEFINE a == SubSeq(s, 1, k - 1)
           b == SubSeq(s, k, Len(s))
<1>1. PICK n \in Nat : n = Len(s)
  OBVIOUS
<1>2. k \in Nat /\ 1 <= k /\ k <= n + 1
  BY <1>1
<1>3. a \in Seq(T) /\ Len(a) = k - 1
  BY <1>1, <1>2
<1>4. \A i \in 1..(k - 1) : a[i] = s[i]
  BY <1>1, <1>2
<1>5. b \in Seq(T) /\ Len(b) = n + 1 - k
  BY <1>1, <1>2
<1>6. ASSUME NEW i \in 1..(n + 1 - k)
      PROVE  b[i] = s[k + i - 1]
  BY <1>1, <1>2
<1> HIDE DEF a, b
<1> DEFINE ao == a \o <<o>>
           t == ao \o b
<1>7. InsertAt(s, k, o) = t
  BY DEF InsertAt, a, b
<1>8. ao \in Seq(T) /\ Len(ao) = k /\ ao[k] = o /\ \A i \in 1..(k - 1) : ao[i] = s[i]
  BY <1>2, <1>3, <1>4
<1> HIDE DEF ao
<1>9. t \in Seq(T) /\ Len(t) = n + 1 /\ DOMAIN t = 1..(n + 1)
  <2>1. t \in Seq(T) /\ Len(t) = Len(ao) + Len(b)
    BY <1>5, <1>8
  <2>2. Len(t) = n + 1
    BY <1>2, <1>5, <1>8, <2>1
  <2> HIDE DEF t
  <2> QED BY <2>1, <2>2
<1>10. ASSUME NEW i \in 1..(n + 1)
       PROVE  t[i] = IF i < k THEN s[i] ELSE IF i = k THEN o ELSE s[i - 1]
  <2>1. t[i] = IF i <= k THEN ao[i] ELSE b[i - k]
    BY <1>2, <1>5, <1>8
  <2>2. CASE i < k
    <3>1. i \in 1..(k - 1)
      BY <1>2, <2>2
    <3>2. ao[i] = s[i]
      BY <1>8, <3>1
    <3> QED BY <1>2, <2>1, <2>2, <3>2
  <2>3. CASE i = k
    BY <1>2, <1>8, <2>1, <2>3
  <2>4. CASE k < i
    <3>1. i - k \in 1..(n + 1 - k) /\ k + (i - k) - 1 = i - 1
      BY <1>2, <2>4
    <3>2. b[i - k] = s[i - 1]
      BY <1>6, <3>1
    <3> QED BY <1>2, <2>1, <2>4, <3>2
  <2>5. i < k \/ i = k \/ k < i
    BY <1>2
  <2> HIDE DEF t
  <2> QED BY <2>2, <2>3, <2>4, <2>5
<1> HIDE DEF t
<1> QED BY <1>1, <1>7, <1>9, <1>10

LEMMA SplicedRange ==
  ASSUME NEW T, NEW s \in Seq(T), NEW o \in T, NEW k \in 1..(Len(s) + 1)
  PROVE  Range(InsertAt(s, k, o)) = Range(s) \cup {o}
<1> DEFINE t == InsertAt(s, k, o)
<1>1. PICK n \in Nat : n = Len(s) /\ DOMAIN s = 1..n /\ k \in 1..(n + 1)
  OBVIOUS
<1>2. /\ DOMAIN t = 1..(n + 1)
      /\ \A i \in 1..(n + 1) :
           t[i] = IF i < k THEN s[i] ELSE IF i = k THEN o ELSE s[i - 1]
  <2>1. k \in 1..(Len(s) + 1)
    OBVIOUS
  <2>2. /\ DOMAIN t = 1..(Len(s) + 1)
        /\ \A i \in 1..(Len(s) + 1) :
             t[i] = IF i < k THEN s[i] ELSE IF i = k THEN o ELSE s[i - 1]
    BY <2>1, Spliced
  <2> HIDE DEF t
  <2> QED BY <1>1, <2>2
<1> HIDE DEF t
<1>3. /\ \A i \in 1..(n + 1) : t[i] \in Range(t)
      /\ \A i \in 1..n : s[i] \in Range(s)
      /\ \A r \in Range(t) : \E i \in 1..(n + 1) : r = t[i]
      /\ \A r \in Range(s) : \E i \in 1..n : r = s[i]
  BY <1>1, <1>2 DEF Range
<1>4. ASSUME NEW i \in 1..(n + 1) PROVE t[i] \in Range(s) \cup {o}
  <2>1. CASE i < k
    <3>1. i \in 1..n
      BY <1>1, <2>1
    <3> QED BY <1>2, <1>3, <2>1, <3>1
  <2>2. CASE i = k
    BY <1>2, <2>2
  <2>3. CASE k < i
    <3>1. i - 1 \in 1..n /\ ~(i < k) /\ i # k
      BY <1>1, <2>3
    <3> QED BY <1>2, <1>3, <3>1
  <2> QED BY <1>1, <2>1, <2>2, <2>3
<1>5. ASSUME NEW i \in 1..n PROVE s[i] \in Range(t)
  <2>1. CASE i < k
    <3>1. i \in 1..(n + 1)
      OBVIOUS
    <3> QED BY <1>2, <1>3, <2>1, <3>1
  <2>2. CASE k <= i
    <3>1. PICK j \in 1..(n + 1) : j = i + 1
      OBVIOUS
    <3>2. ~(j < k) /\ j # k /\ j - 1 = i
      BY <1>1, <2>2, <3>1
    <3> QED BY <1>2, <1>3, <3>2
  <2> QED BY <1>1, <2>1, <2>2
<1>6. o \in Range(t)
  <2>1. t[k] = o
    BY <1>1, <1>2
  <2> QED BY <1>1, <1>3, <2>1
<1>7. Range(t) = Range(s) \cup {o}
  BY <1>3, <1>4, <1>5, <1>6
<1> QED BY <1>7 DEF t

(* A row put at the place of its id: the ids stay in order. *)
LEMMA Placing ==
  ASSUME NEW T, \A r \in T : r.id \in Nat, NEW s \in Seq(T), Sorted(s),
         NEW o \in T, o.id \notin Ids(s)
  PROVE  LET k == Cardinality({i \in DOMAIN s : s[i].id < o.id}) + 1
             t == InsertAt(s, k, o)
         IN  t \in Seq(T) /\ Sorted(t) /\ Range(t) = Range(s) \cup {o}
<1> DEFINE D == {i \in DOMAIN s : s[i].id < o.id}
           k == Cardinality(D) + 1
           t == InsertAt(s, k, o)
<1>1. PICK n \in Nat : n = Len(s) /\ DOMAIN s = 1..n
  OBVIOUS
<1>2. /\ \A i \in 1..n : s[i].id \in Nat /\ s[i].id # o.id
      /\ \A i, j \in 1..n : i < j => s[i].id < s[j].id
      /\ o.id \in Nat
  <2>1. \A i \in 1..n : s[i] \in T /\ s[i] \in Range(s)
    BY <1>1 DEF Range
  <2>2. \A i \in 1..n : s[i].id \in Nat /\ s[i].id # o.id
    BY <2>1 DEF Ids
  <2> QED BY <1>1, <2>2 DEF Sorted
<1>3. D = 1..Cardinality(D) /\ Cardinality(D) \in 0..n
  <2>1. D \in SUBSET (1..n) /\ \A i \in D : \A j \in 1..n : j < i => j \in D
    BY <1>1, <1>2
  <2> HIDE DEF D
  <2> QED BY <2>1, Segment
<1>4. \A i \in 1..n : i \in D <=> s[i].id < o.id
  BY <1>1
<1> HIDE DEF D
<1>5. k \in 1..(n + 1) /\ \A i \in 1..n : i < k <=> i \in D
  BY <1>3
<1> HIDE DEF k
<1>6. ASSUME NEW i \in 1..n
      PROVE  (i < k => s[i].id < o.id) /\ (k <= i => o.id < s[i].id)
  BY <1>2, <1>4, <1>5
<1>7. /\ t \in Seq(T) /\ DOMAIN t = 1..(n + 1)
      /\ \A i \in 1..(n + 1) :
           t[i] = IF i < k THEN s[i] ELSE IF i = k THEN o ELSE s[i - 1]
  <2>1. k \in 1..(Len(s) + 1)
    BY <1>1, <1>5
  <2>2. /\ t \in Seq(T) /\ DOMAIN t = 1..(Len(s) + 1)
        /\ \A i \in 1..(Len(s) + 1) :
             t[i] = IF i < k THEN s[i] ELSE IF i = k THEN o ELSE s[i - 1]
    BY <2>1, Spliced
  <2> HIDE DEF t
  <2> QED BY <1>1, <2>2
<1>8. Range(t) = Range(s) \cup {o}
  BY <1>1, <1>5, SplicedRange
<1> HIDE DEF t
<1>9. ASSUME NEW i \in 1..(n + 1), NEW j \in 1..(n + 1), i < j
      PROVE  t[i].id < t[j].id
  <2>1. CASE j < k
    <3>1. i \in 1..n /\ j \in 1..n /\ i < k
      BY <1>5, <1>9, <2>1
    <3> QED BY <1>2, <1>7, <1>9, <2>1, <3>1
  <2>2. CASE j = k
    <3>1. i \in 1..n /\ i < k
      BY <1>5, <1>9, <2>2
    <3>2. t[i] = s[i] /\ t[j] = o
      BY <1>7, <2>2, <3>1
    <3> QED BY <1>6, <3>1, <3>2
  <2>3. CASE k < j
    <3>1. PICK m \in 1..n : m = j - 1
      BY <1>5, <2>3
    <3>2. t[j] = s[m] /\ k <= m
      BY <1>5, <1>7, <2>3, <3>1
    <3>3. CASE i < k
      <4>1. i \in 1..n /\ i < m
        BY <1>5, <3>2, <3>3
      <4> QED BY <1>2, <1>7, <3>2, <3>3, <4>1
    <3>4. CASE i = k
      BY <1>6, <1>7, <3>2, <3>4
    <3>5. CASE k < i
      <4>1. PICK l \in 1..n : l = i - 1
        BY <1>5, <3>5
      <4>2. t[i] = s[l] /\ l < m
        BY <1>5, <1>7, <1>9, <3>1, <3>5, <4>1
      <4> QED BY <1>2, <3>2, <4>2
    <3> QED BY <1>5, <3>3, <3>4, <3>5
  <2> QED BY <1>5, <2>1, <2>2, <2>3
<1>10. Sorted(t)
  BY <1>7, <1>9 DEF Sorted
<1> QED BY <1>7, <1>8, <1>10 DEF t, k, D

-----------------------------------------------------------------------------
(* Rows.                                                                    *)

LEMMA Rowed ==
  ASSUME TInv
  PROVE  /\ obligations \in Seq(Rows) /\ Sorted(obligations)
         /\ Range(obligations) \subseteq Rows
         /\ \A i \in DOMAIN obligations : obligations[i] \in Range(obligations)
         /\ \A o \in Range(obligations) : \E i \in DOMAIN obligations : o = obligations[i]
         /\ Ids(obligations) \subseteq 1..minted /\ minted \in Nat
<1>1. /\ obligations \in Seq(Rows) /\ Sorted(obligations)
      /\ Ids(obligations) \subseteq 1..minted /\ minted \in Nat
  BY DEF TInv, TablesTyped
<1>2. \A i \in DOMAIN obligations : obligations[i] \in Rows
  BY <1>1
<1> QED BY <1>1, <1>2 DEF Range

(* An id names one row. *)
LEMMA OneRow ==
  ASSUME TInv, NEW o \in Range(obligations), NEW n \in Range(obligations), o.id = n.id
  PROVE  o = n
<1>1. PICK i \in DOMAIN obligations : o = obligations[i]
  BY Rowed
<1>2. PICK j \in DOMAIN obligations : n = obligations[j]
  BY Rowed
<1>3. /\ i \in Nat /\ j \in Nat
      /\ obligations[i].id \in Nat /\ obligations[j].id \in Nat
  BY <1>1, <1>2, Rowed DEF Rows
<1>4. ~(i < j) /\ ~(j < i)
  BY <1>1, <1>2, <1>3, Rowed DEF Sorted
<1> QED BY <1>1, <1>2, <1>3, <1>4

LEMMA RowFound ==
  ASSUME TInv, NEW id \in Ids(obligations)
  PROVE  RowOf(id) \in Range(obligations) /\ RowOf(id).id = id
BY DEF RowOf, Ids

(* The obligations there were are there, and others have other ids. *)
Carried ==
  /\ \A o \in Range(obligations) : \E n \in Range(obligations') : Same(o, n)
  /\ \A n \in Range(obligations') :
       n.id \in Ids(obligations) => \E o \in Range(obligations) : Same(o, n)

(* A row that is written whole. *)
LEMMA Rewriting ==
  ASSUME TInv, NEW r \in Rows, NEW x \in Range(obligations), Same(x, r), Write(r), Rests(r)
  PROVE  /\ obligations' \in Seq(Rows) /\ Sorted(obligations)'
         /\ Ids(obligations)' = Ids(obligations) /\ Carried
         /\ \A o \in Range(obligations') : o = r \/ (o \in Range(obligations) /\ o.id # r.id)
         /\ \A o \in Range(obligations) : o.id # r.id => o \in Range(obligations')
         /\ VerdictRestsOnEvidence'
<1>1. PICK n \in Nat : n = Len(obligations) /\ DOMAIN obligations = 1..n
  BY Rowed
<1>2. /\ obligations' = [i \in 1..n |-> IF obligations[i].id = r.id THEN r ELSE obligations[i]]
      /\ DOMAIN obligations' = 1..n
  BY <1>1 DEF Write
<1>3. \A i \in 1..n : obligations[i] \in Rows /\ obligations[i] \in Range(obligations)
  BY <1>1, Rowed
<1>4. obligations' \in Seq(Rows)
  BY <1>2, <1>3
<1>5. ASSUME NEW i \in 1..n
      PROVE  /\ obligations'[i].id = obligations[i].id
             /\ Same(obligations[i], obligations'[i])
             /\ \/ obligations'[i] = r
                \/ obligations'[i] = obligations[i] /\ obligations[i].id # r.id
             /\ obligations[i].id # r.id => obligations'[i] = obligations[i]
  <2>1. CASE obligations[i].id = r.id
    <3>1. obligations[i] = x
      BY <1>3, <2>1, OneRow DEF Same
    <3> QED BY <1>2, <2>1, <3>1 DEF Same
  <2>2. CASE obligations[i].id # r.id
    BY <1>2, <2>2 DEF Same
  <2> QED BY <2>1, <2>2
<1>6. /\ \A o \in Range(obligations) : \E i \in 1..n : o = obligations[i]
      /\ \A o \in Range(obligations') : \E i \in 1..n : o = obligations'[i]
      /\ \A i \in 1..n : obligations'[i] \in Range(obligations')
  BY <1>1, <1>2 DEF Range
<1> HIDE <1>2
<1>7. Sorted(obligations)'
  <2>1. \A i, j \in 1..n : i < j => obligations[i].id < obligations[j].id
    BY <1>1, Rowed DEF Sorted
  <2>2. DOMAIN obligations' = 1..n
    BY <1>2
  <2> QED BY <1>5, <2>1, <2>2 DEF Sorted
<1>8. Ids(obligations)' = Ids(obligations)
  BY <1>3, <1>5, <1>6 DEF Ids
<1>9. Carried
  BY <1>3, <1>5, <1>6 DEF Carried
<1>10. /\ \A o \in Range(obligations') : o = r \/ (o \in Range(obligations) /\ o.id # r.id)
       /\ \A o \in Range(obligations) : o.id # r.id => o \in Range(obligations')
  BY <1>3, <1>5, <1>6
<1>11. VerdictRestsOnEvidence'
  <2>1. \A o \in Range(obligations) : Rests(o)
    BY DEF TInv, VerdictRestsOnEvidence, Rests
  <2>2. \A o \in Range(obligations') : Rests(o)
    BY <1>10, <2>1
  <2> QED BY <2>2 DEF VerdictRestsOnEvidence, Rests
<1> QED BY <1>4, <1>7, <1>8, <1>9, <1>10, <1>11

(* One more obligation, under an id that is not there. *)
LEMMA Inserting ==
  ASSUME TInv, NEW r \in Rows, r.id \notin Ids(obligations), ~r.judged,
         obligations' = InsertAt(obligations, PlaceOf(r), r)
  PROVE  /\ obligations' \in Seq(Rows) /\ Sorted(obligations)'
         /\ Range(obligations') = Range(obligations) \cup {r}
         /\ Ids(obligations)' = Ids(obligations) \cup {r.id} /\ Carried
         /\ VerdictRestsOnEvidence'
<1>1. \A o \in Rows : o.id \in Nat
  BY DEF Rows
<1>2. /\ obligations' \in Seq(Rows) /\ Sorted(obligations)'
      /\ Range(obligations') = Range(obligations) \cup {r}
  BY <1>1, Rowed, Placing DEF PlaceOf
<1>3. Ids(obligations)' = Ids(obligations) \cup {r.id}
  BY <1>2 DEF Ids
<1>4. Carried
  BY <1>2 DEF Carried, Same
<1>5. VerdictRestsOnEvidence'
  <2>1. \A o \in Range(obligations) : Rests(o)
    BY DEF TInv, VerdictRestsOnEvidence, Rests
  <2>2. \A o \in Range(obligations') : Rests(o)
    BY <1>2, <2>1 DEF Rests
  <2> QED BY <2>2 DEF VerdictRestsOnEvidence, Rests
<1> QED BY <1>2, <1>3, <1>4, <1>5

-----------------------------------------------------------------------------
(* What one step does to the requests.                                      *)

(* A request that has not moved, though it may have noticed something. *)
Alike(n, o) ==
  /\ DOMAIN n = DOMAIN o /\ n.pc = o.pc /\ n.id = o.id /\ n.candidate = o.candidate
  /\ n.todo = o.todo /\ n.left = o.left /\ n.row = o.row /\ n.outcome = o.outcome
  /\ n.gates = o.gates /\ n.duties = o.duties /\ n.settled = o.settled
  /\ n.found = o.found /\ o.since \subseteq n.since

(* Only p moves, and this is where to. *)
MovesTo(p, n) ==
  /\ op' = [q \in Procs |-> op'[q]] /\ op'[p] = n
  /\ \A q \in Procs \ {p} : Alike(op'[q], op[q])

LEMMA Typed ==
  ASSUME TInv, NEW p \in Procs
  PROVE  /\ DOMAIN op[p] = Fields /\ op[p].candidate \in Candidates /\ op[p].id \in Nat
         /\ Held(p) /\ Underived(p)
BY DEF TInv, RequestsTyped

LEMMA PlainMove ==
  ASSUME TInv, NEW p \in Procs, NEW n, op' = [op EXCEPT ![p] = n]
  PROVE  MovesTo(p, n) /\ \A q \in Procs \ {p} : op'[q] = op[q]
<1>1. op = [q \in Procs |-> op[q]]
  BY DEF TInv, RequestsTyped
<1>2. op'[p] = n /\ \A q \in Procs \ {p} : op'[q] = op[q]
  BY <1>1
<1>3. op' = [q \in Procs |-> op'[q]]
  BY <1>1
<1> QED BY <1>2, <1>3 DEF MovesTo, Alike

LEMMA NoticedOf ==
  ASSUME TInv, NEW p \in Procs, NEW kind, NEW id
  PROVE  /\ DOMAIN Noticed(kind, id) = Procs
         /\ Alike(Noticed(kind, id)[p], op[p])
         /\ Writing(p) => Noticed(kind, id)[p].since = op[p].since \cup {<<kind, id>>}
<1> DEFINE o == op[p]
           n == [o EXCEPT !.since = @ \cup {<<kind, id>>}]
<1>1. DOMAIN o = Fields
  BY Typed
<1>2. /\ DOMAIN n = Fields /\ n.since = o.since \cup {<<kind, id>>}
      /\ n.pc = o.pc /\ n.id = o.id /\ n.candidate = o.candidate /\ n.todo = o.todo
      /\ n.left = o.left /\ n.row = o.row /\ n.outcome = o.outcome /\ n.gates = o.gates
      /\ n.duties = o.duties /\ n.settled = o.settled /\ n.found = o.found
  BY <1>1 DEF Fields
<1>3. Alike(n, o) /\ Alike(o, o)
  BY <1>1, <1>2 DEF Alike
<1>4. Noticed(kind, id)[p] = (IF Writing(p) THEN n ELSE o)
  BY DEF Noticed
<1>5. DOMAIN Noticed(kind, id) = Procs
  BY DEF Noticed
<1> HIDE DEF n
<1> QED BY <1>2, <1>3, <1>4, <1>5

LEMMA NoticedMove ==
  ASSUME TInv, NEW p \in Procs, NEW n, NEW kind, NEW id,
         op' = [Noticed(kind, id) EXCEPT ![p] = n]
  PROVE  /\ MovesTo(p, n)
         /\ \A q \in Procs \ {p} : Writing(q) =>
              op'[q].since = op[q].since \cup {<<kind, id>>}
<1> DEFINE N == Noticed(kind, id)
<1>1. DOMAIN N = Procs /\ \A q \in Procs : Alike(N[q], op[q])
  BY NoticedOf
<1>2. \A q \in Procs : Writing(q) => N[q].since = op[q].since \cup {<<kind, id>>}
  BY NoticedOf
<1> HIDE DEF N
<1>3. op' = [N EXCEPT ![p] = n]
  BY DEF N
<1>4. op' = [q \in Procs |-> op'[q]] /\ op'[p] = n /\ \A q \in Procs \ {p} : op'[q] = N[q]
  BY <1>1, <1>3
<1> QED BY <1>1, <1>2, <1>4 DEF MovesTo

(* What the tables never lose. *)
Grows ==
  /\ Carried /\ gates \subseteq gates' /\ minted' \in Nat /\ minted <= minted'
  /\ (operations # {} => operations' # {})

LEMMA CarriedRow ==
  ASSUME Carried, NEW r, \E x \in Range(obligations) : Same(x, r)
  PROVE  \E x \in Range(obligations') : Same(x, r)
<1>1. PICK x \in Range(obligations) : Same(x, r)
  OBVIOUS
<1>2. PICK y \in Range(obligations') : Same(x, y)
  BY DEF Carried
<1> QED BY <1>1, <1>2 DEF Same

LEMMA CarriedIds ==
  ASSUME Carried
  PROVE  Ids(obligations) \subseteq Ids(obligations)'
BY DEF Carried, Ids, Same

(* A request that has not moved holds what it held. *)
LEMMA StillHeld ==
  ASSUME TInv, Grows, NEW q \in Procs, Alike(op'[q], op[q])
  PROVE  Held(q)'
<1> DEFINE o == op[q]
           n == op'[q]
<1>1. Held(q)
  BY Typed
<1>2. /\ n.pc = o.pc /\ n.candidate = o.candidate /\ n.todo = o.todo /\ n.left = o.left
      /\ n.row = o.row /\ n.outcome = o.outcome /\ n.found = o.found
  BY DEF Alike
<1>3. minted \in Nat /\ minted' \in Nat /\ minted <= minted' /\ gates \subseteq gates'
  BY Rowed DEF Grows
<1>4. Ids(obligations) \subseteq Ids(obligations)'
  BY CarriedIds DEF Grows
<1> HIDE DEF n, o
<1>5. n.pc \in {"gate", "check"} => n.todo \in Seq(1..minted') /\ n.todo # <<>>
  <2>1. \A s : s \in Seq(1..minted) => s \in Seq(1..minted')
    BY <1>3
  <2> QED BY <1>1, <1>2, <2>1 DEF Held, o
<1>6. n.pc \in {"record", "verdict"} => Pending(op[q])'
  <2> SUFFICES ASSUME n.pc \in {"record", "verdict"}, NEW r \in n.row
               PROVE  /\ r \in Rows /\ Rests(r) /\ r.status # "ExceptionApproved"
                      /\ \E x \in Range(obligations') : Same(x, r)
    BY DEF Pending, Rests, Rows, Statuses, Same, n
  <2>1. Pending(o)
    BY <1>1, <1>2 DEF Held, o
  <2>2. /\ r \in Rows /\ Rests(r) /\ r.status # "ExceptionApproved"
        /\ \E x \in Range(obligations) : Same(x, r)
    BY <1>2, <2>1 DEF Pending
  <2> QED BY <2>2, CarriedRow DEF Grows
<1>7. n.pc = "check" => [id |-> Head(n.todo), candidate |-> n.candidate] \in gates'
  BY <1>1, <1>2, <1>3 DEF Held, o
<1>8. /\ n.pc = "match" => n.found \in Ids(obligations)'
      /\ n.pc \in {"judge", "verdict"} => n.left \subseteq Ids(obligations)' /\ n.left # {}
  BY <1>1, <1>2, <1>4 DEF Held, o
<1>9. n.pc \in {"inspect", "abandon"} => n.left = {1} /\ operations' # {}
  BY <1>1, <1>2 DEF Held, Grows, o
<1>10. n.pc = "abandon" => \E r \in n.row : n.row = {r} /\ r \in Operations
  BY <1>1, <1>2 DEF Held, o
<1>11. /\ n.pc \in {"activate", "planned?", "gate", "check", "derived?", "duty",
                    "assembled?", "gates", "duties", "assemble"} =>
            n.candidate \in Fingerprints
       /\ n.pc \in {"outcome", "match"} => n.outcome \in Outcomes
       /\ n.pc \in {"evaluate", "judge", "verdict"} => n.outcome \in Verdicts
  BY <1>1, <1>2 DEF Held, o
<1> QED BY <1>5, <1>6, <1>7, <1>8, <1>9, <1>10, <1>11 DEF Held, n

(* The ids of what a capture has still to store. *)
Due(o) == IF o.pc = "duty" THEN {o.todo[i].id : i \in DOMAIN o.todo} ELSE {}

LEMMA StillUnderived ==
  ASSUME TInv, Grows, NEW q \in Procs, Alike(op'[q], op[q]),
         Ids(obligations)' \cap Due(op[q]) = {}
  PROVE  Underived(q)'
<1> DEFINE o == op[q]
           n == op'[q]
<1>1. Underived(q)
  BY Typed
<1>2. n.pc = o.pc /\ n.candidate = o.candidate /\ n.todo = o.todo
  BY DEF Alike
<1>3. minted \in Nat /\ minted' \in Nat /\ minted <= minted'
  BY Rowed DEF Grows
<1> HIDE DEF n, o
<1> SUFFICES ASSUME n.pc = "duty"
             PROVE  /\ n.todo \in Seq(Rows) /\ n.todo # <<>>
                    /\ \A i \in DOMAIN n.todo :
                         /\ n.todo[i].id \in (1..minted') \ Ids(obligations)'
                         /\ n.todo[i].candidate = n.candidate /\ ~n.todo[i].judged
                         /\ n.todo[i].status # "ExceptionApproved"
                    /\ \A i, j \in DOMAIN n.todo : n.todo[i].id = n.todo[j].id => i = j
  BY DEF Underived, Rows, Statuses, n
<1>4. /\ o.todo \in Seq(Rows) /\ o.todo # <<>>
      /\ \A i \in DOMAIN o.todo :
           /\ o.todo[i].id \in 1..minted
           /\ o.todo[i].candidate = o.candidate /\ ~o.todo[i].judged
           /\ o.todo[i].status # "ExceptionApproved"
      /\ \A i, j \in DOMAIN o.todo : o.todo[i].id = o.todo[j].id => i = j
  BY <1>1, <1>2 DEF Underived, o
<1>5. \A i \in DOMAIN o.todo : o.todo[i].id \in Due(o)
  BY <1>2 DEF Due
<1>6. \A i \in DOMAIN o.todo : o.todo[i].id \notin Ids(obligations)'
  BY <1>5 DEF o
<1> QED BY <1>2, <1>3, <1>4, <1>6

LEMMA DueApart ==
  ASSUME TInv, NEW p \in Procs, NEW q \in Procs, p # q
  PROVE  Due(op[p]) \cap Due(op[q]) = {}
BY DEF TInv, IdsApart, Due, At

LEMMA DueFresh ==
  ASSUME TInv, NEW p \in Procs
  PROVE  Due(op[p]) \subseteq (1..minted) \ Ids(obligations)
BY Typed DEF Underived, Due

(* How a step of p keeps the invariant: it says where p stands then.       *)
LEMMA StepKeeps ==
  ASSUME TInv, Grows, NEW p \in Procs, NEW n, MovesTo(p, n),
         DOMAIN n = Fields, n.candidate \in Candidates, n.id \in Nat,
         TablesTyped', VerdictRestsOnEvidence',
         Held(p)', Underived(p)',
         \A q \in Procs \ {p} : Ids(obligations)' \cap Due(op[q]) = {},
         \A q \in Procs \ {p} : Due(n) \cap Due(op[q]) = {}
  PROVE  TInv'
<1>1. /\ op' = [q \in Procs |-> op'[q]] /\ op'[p] = n
      /\ \A q \in Procs \ {p} : Alike(op'[q], op[q])
  BY DEF MovesTo
<1>2. RequestsTyped'
  <2>1. ASSUME NEW q \in Procs \ {p}
        PROVE  /\ DOMAIN op'[q] = Fields /\ op'[q].candidate \in Candidates
               /\ op'[q].id \in Nat
    BY <1>1, Typed DEF Alike
  <2> QED BY <1>1, <2>1 DEF RequestsTyped, Candidates
<1>3. ASSUME NEW q \in Procs PROVE Held(q)' /\ Underived(q)'
  <2>1. CASE q = p
    BY <2>1
  <2>2. CASE q # p
    BY <1>1, <2>2, StillHeld, StillUnderived
  <2> QED BY <2>1, <2>2
<1>4. IdsApart'
  <2>1. ASSUME NEW q \in Procs, NEW r \in Procs, q # r
        PROVE  Due(op'[q]) \cap Due(op'[r]) = {}
    <3>1. ASSUME NEW s \in Procs \ {p} PROVE Due(op'[s]) = Due(op[s])
      <4>1. op'[s].pc = op[s].pc /\ op'[s].todo = op[s].todo
        BY <1>1, <3>1 DEF Alike
      <4> QED BY <4>1 DEF Due
    <3>2. CASE q = p
      BY <1>1, <2>1, <3>1, <3>2
    <3>3. CASE r = p
      BY <1>1, <2>1, <3>1, <3>3
    <3>4. CASE q # p /\ r # p
      BY <2>1, <3>1, <3>4, DueApart
    <3> QED BY <3>2, <3>3, <3>4
  <2> SUFFICES ASSUME NEW q \in Procs, NEW r \in Procs, q # r,
                      op'[q].pc = "duty", op'[r].pc = "duty",
                      NEW i \in DOMAIN op'[q].todo, NEW j \in DOMAIN op'[r].todo
               PROVE  op'[q].todo[i].id # op'[r].todo[j].id
    BY DEF IdsApart, At
  <2>2. op'[q].todo[i].id \in Due(op'[q]) /\ op'[r].todo[j].id \in Due(op'[r])
    BY DEF Due
  <2> QED BY <2>1, <2>2
<1> QED BY <1>2, <1>3, <1>4 DEF TInv

-----------------------------------------------------------------------------
(* The steps, one after the other.                                          *)

LEMMA SameRows ==
  ASSUME obligations' = obligations
  PROVE  /\ Carried /\ Ids(obligations)' = Ids(obligations)
         /\ Range(obligations') = Range(obligations)
         /\ \A c : DutiesOf(c)' = DutiesOf(c)
BY DEF Carried, Ids, Same, DutiesOf

LEMMA VerdictsKept ==
  ASSUME TInv, obligations' = obligations
  PROVE  VerdictRestsOnEvidence'
BY DEF TInv, VerdictRestsOnEvidence

LEMMA TablesKept ==
  ASSUME TInv, UNCHANGED tables, active' \in Candidates, minted' \in Nat,
         minted <= minted', requests' \in 0..MaxRequests, failures' \in 0..MaxFailures
  PROVE  TablesTyped' /\ Grows /\ VerdictRestsOnEvidence'
<1>1. /\ gates' = gates /\ checks' = checks /\ obligations' = obligations
      /\ releases' = releases /\ operations' = operations
  BY DEF tables
<1>2. TablesTyped /\ minted \in Nat
  BY Rowed DEF TInv
<1>3. 1..minted \subseteq 1..minted'
  BY <1>2
<1>4. Grows
  BY <1>1, SameRows DEF Grows
<1>5. \A g \in [id : 1..minted, candidate : Fingerprints] :
        g \in [id : 1..minted', candidate : Fingerprints]
  BY <1>3
<1>6. TablesTyped'
  <2>1. /\ gates \subseteq [id : 1..minted', candidate : Fingerprints]
        /\ checks \subseteq {g.id : g \in gates}
        /\ obligations \in Seq(Rows) /\ Ids(obligations) \subseteq 1..minted'
        /\ Sorted(obligations)
        /\ \A r \in Range(releases) : r.id \in 1..minted' /\ r.source \in Fingerprints
        /\ releases \in Seq(Range(releases))
        /\ operations = {} \/ \E o \in operations : operations = {o} /\ o \in Operations
    BY <1>2, <1>3, <1>5 DEF TablesTyped
  <2>2. /\ Ids(obligations)' = Ids(obligations) /\ Range(releases)' = Range(releases)
        /\ Sorted(obligations)' = Sorted(obligations)
    BY <1>1 DEF Ids, Sorted
  <2> QED BY <1>1, <2>1, <2>2 DEF TablesTyped, Rows, Candidates, Statuses, Operations,
             AuthorizationStates
<1> QED BY <1>1, <1>4, <1>6, VerdictsKept

(* A step that writes nothing in the tables. *)
LEMMA ReadKeeps ==
  ASSUME TInv, NEW p \in Procs, NEW n, op' = [op EXCEPT ![p] = n], UNCHANGED tables,
         active' \in Candidates, minted' = minted,
         requests' \in 0..MaxRequests, failures' \in 0..MaxFailures,
         DOMAIN n = Fields, n.candidate \in Candidates, n.id \in Nat, n.pc # "duty",
         Held(p)'
  PROVE  TInv'
<1>1. MovesTo(p, n) /\ op'[p] = n
  BY PlainMove DEF MovesTo
<1>2. minted \in Nat /\ minted' \in Nat /\ minted <= minted'
  BY Rowed
<1>3. TablesTyped' /\ Grows /\ VerdictRestsOnEvidence'
  BY <1>2, TablesKept
<1>4. Underived(p)'
  BY <1>1 DEF Underived
<1>5. \A q \in Procs : Ids(obligations)' \cap Due(op[q]) = {}
  BY DueFresh, SameRows DEF tables
<1>6. Due(n) = {}
  BY DEF Due
<1> QED BY <1>1, <1>3, <1>4, <1>5, <1>6, StepKeeps

LEMMA IdleTyped ==
  /\ DOMAIN Idle = Fields /\ Idle.candidate \in Candidates /\ Idle.id \in Nat
  /\ Idle.pc = "idle"
BY DEF Idle, Fields, Candidates

(* One that sits idle holds nothing. *)
LEMMA IdleHolds ==
  ASSUME NEW p, op'[p] = Idle
  PROVE  Held(p)' /\ Underived(p)'
<1>1. op'[p].pc = "idle"
  BY IdleTyped
<1> QED BY <1>1 DEF Held, Underived

LEMMA BoundsTyped ==
  ASSUME TInv
  PROVE  /\ active \in Candidates /\ requests \in 0..MaxRequests
         /\ failures \in 0..MaxFailures
BY DEF TInv, TablesTyped

LEMMA ReturnSafe ==
  ASSUME TInv, NEW p \in Procs, Return(p), UNCHANGED <<active, tables, minted>>,
         requests' = requests, failures' \in 0..MaxFailures
  PROVE  TInv'
<1>1. op'[p] = Idle /\ op' = [op EXCEPT ![p] = Idle]
  BY PlainMove DEF Return, MovesTo
<1>2. Held(p)'
  BY <1>1, IdleHolds
<1> QED BY <1>1, <1>2, IdleTyped, BoundsTyped, ReadKeeps

LEMMA ReceiveSafe ==
  ASSUME TInv, NEW p \in Procs, Receive(p)
  PROVE  TInv'
<1>1. ASSUME NEW pc, NEW c \in Candidates, NEW requirement, NEW outcome,
             Accept(p, pc, c, requirement, outcome),
             \/ pc = "activate" /\ c \in Fingerprints
             \/ pc = "outcome" /\ outcome \in Outcomes
             \/ pc = "evaluate" /\ outcome \in Verdicts
             \/ pc \in {"release", "recover"}
      PROVE  TInv'
  <2> DEFINE id == IF pc = "evaluate" THEN requests + 1 ELSE 0
             n == [Idle EXCEPT !.pc = pc, !.candidate = c, !.id = id,
                               !.todo = <<requirement>>, !.outcome = outcome]
  <2>1. requests \in 0..MaxRequests /\ requests < MaxRequests /\ MaxRequests \in Nat
    BY <1>1, BoundsTyped, BoundsAssumption DEF Accept, BoundsAssumption
  <2>2. id \in Nat
    BY <2>1
  <2>3. /\ op' = [op EXCEPT ![p] = n] /\ requests' = requests + 1
        /\ UNCHANGED tables /\ minted' = minted /\ active' = active /\ failures' = failures
    BY <1>1 DEF Accept, tables
  <2> HIDE DEF id
  <2>4. /\ DOMAIN n = Fields /\ n.candidate = c /\ n.id = id /\ n.pc = pc
        /\ n.outcome = outcome
    BY IdleTyped DEF Idle, Fields
  <2> HIDE DEF n
  <2>5. op'[p] = n
    BY <2>3, PlainMove DEF MovesTo
  <2>6. Held(p)'
    BY <1>1, <2>4, <2>5 DEF Held
  <2>7. requests' \in 0..MaxRequests
    BY <2>1, <2>3
  <2>8. n.pc # "duty"
    BY <1>1, <2>4
  <2> QED BY <2>2, <2>3, <2>4, <2>6, <2>7, <2>8, BoundsTyped, ReadKeeps
<1>2. None \in Candidates /\ Fingerprints \subseteq Candidates
  BY DEF Candidates
<1>3. CASE \E c \in Fingerprints : Accept(p, "activate", c, "", "")
  BY <1>1, <1>2, <1>3
<1>4. CASE Accept(p, "release", None, "", "")
  BY <1>1, <1>2, <1>4
<1>5. CASE \E t \in Range(Templates), o \in Outcomes : Accept(p, "outcome", None, t, o)
  BY <1>1, <1>2, <1>5
<1>6. CASE \E v \in Verdicts : Accept(p, "evaluate", None, "", v)
  BY <1>1, <1>2, <1>6
<1>7. CASE Accept(p, "recover", None, "", "")
  BY <1>1, <1>2, <1>7
<1> QED BY <1>3, <1>4, <1>5, <1>6, <1>7 DEF Receive

LEMMA StopSafe ==
  ASSUME TInv, NEW p \in Procs, Stop(p)
  PROVE  TInv'
<1>1. /\ Return(p) /\ UNCHANGED <<active, tables, minted>> /\ requests' = requests
      /\ failures < MaxFailures /\ failures' = failures + 1
  BY DEF Stop
<1>2. failures' \in 0..MaxFailures
  BY <1>1, BoundsTyped, BoundsAssumption DEF BoundsAssumption
<1> QED BY <1>1, <1>2, ReturnSafe

(* A step that only goes on to the next call, the candidate perhaps set.   *)
LEMMA Going ==
  ASSUME TInv, NEW p \in Procs, NEW pc, NEW c
  PROVE  LET n == [op[p] EXCEPT !.pc = pc, !.candidate = c]
             m == [op[p] EXCEPT !.pc = pc]
         IN  /\ DOMAIN n = Fields /\ n.pc = pc /\ n.candidate = c /\ n.id = op[p].id
             /\ DOMAIN m = Fields /\ m.pc = pc /\ m.candidate = op[p].candidate
             /\ m.id = op[p].id /\ m.todo = op[p].todo
<1>1. DOMAIN op[p] = Fields
  BY Typed
<1> QED BY <1>1 DEF Fields

LEMMA GotoMove ==
  ASSUME TInv, NEW p \in Procs, NEW pc, Goto(p, pc)
  PROVE  op' = [op EXCEPT ![p] = [op[p] EXCEPT !.pc = pc]]
BY DEF TInv, RequestsTyped, Goto

LEMMA GotoSafe ==
  ASSUME TInv, NEW p \in Procs, NEW pc, Goto(p, pc),
         UNCHANGED <<tables, minted, bounds>>, active' \in Candidates,
         pc \in {"planned?", "derived?", "query", "gates"},
         pc # "query" => op[p].candidate \in Fingerprints
  PROVE  TInv'
<1> DEFINE n == [op[p] EXCEPT !.pc = pc]
<1>1. op' = [op EXCEPT ![p] = n] /\ UNCHANGED tables /\ minted' = minted
  BY GotoMove
<1>2. /\ DOMAIN n = Fields /\ n.pc = pc /\ n.candidate = op[p].candidate
      /\ n.id = op[p].id
  BY Going
<1> HIDE DEF n
<1>3. op'[p] = n
  BY <1>1, PlainMove DEF MovesTo
<1>4. Held(p)'
  BY <1>2, <1>3 DEF Held
<1>5. n.candidate \in Candidates /\ n.id \in Nat /\ n.pc # "duty"
  BY <1>2, Typed
<1>6. requests' \in 0..MaxRequests /\ failures' \in 0..MaxFailures
  BY BoundsTyped DEF bounds
<1> QED BY <1>1, <1>2, <1>4, <1>5, <1>6, ReadKeeps

LEMMA ActivateSafe ==
  ASSUME TInv, NEW p \in Procs, ActivateCandidate(p)
  PROVE  TInv'
<1>1. op[p].candidate \in Fingerprints
  BY Typed DEF Held, ActivateCandidate, At
<1>2. active' \in Candidates
  BY <1>1 DEF ActivateCandidate, Candidates
<1> QED BY <1>1, <1>2, GotoSafe DEF ActivateCandidate

LEMMA LookForSnapshotSafe ==
  ASSUME TInv, NEW p \in Procs, LookForSnapshot(p)
  PROVE  TInv'
<1>1. op[p].candidate \in Fingerprints
  BY Typed DEF Held, LookForSnapshot, At
<1>2. active' \in Candidates
  BY BoundsTyped DEF LookForSnapshot
<1> QED BY <1>1, <1>2, GotoSafe DEF LookForSnapshot

LEMMA OpIsFunction ==
  ASSUME TInv
  PROVE  op = [q \in Procs |-> op[q]]
BY DEF TInv, RequestsTyped

LEMMA LookForChecksSafe ==
  ASSUME TInv, NEW p \in Procs, LookForChecks(p)
  PROVE  TInv'
<1>1. op[p].candidate \in Fingerprints /\ minted \in Nat /\ PlannedGates \in Nat
  BY Typed, Rowed, BoundsAssumption DEF Held, LookForChecks, At, BoundsAssumption
<1>2. /\ UNCHANGED <<active, tables, bounds>>
      /\ active' \in Candidates /\ requests' \in 0..MaxRequests /\ failures' \in 0..MaxFailures
  BY BoundsTyped DEF LookForChecks, bounds
<1>3. CASE Goto(p, "derived?") /\ UNCHANGED minted
  BY <1>1, <1>2, <1>3, GotoSafe
<1>4. CASE ~(Goto(p, "derived?") /\ UNCHANGED minted)
  <2> DEFINE todo == [i \in 1..PlannedGates |-> minted + i]
             n == [op[p] EXCEPT !.pc = "gate", !.todo = todo]
  <2>1. /\ op' = [op EXCEPT ![p].pc = "gate", ![p].todo = todo]
        /\ minted' = minted + PlannedGates /\ PlannedGates # 0
    BY <1>4 DEF LookForChecks
  <2>2. todo \in Seq(1..minted') /\ todo # <<>>
    <3>1. \A i \in 1..PlannedGates : minted + i \in 1..minted'
      BY <1>1, <2>1
    <3>2. todo \in [1..PlannedGates -> 1..minted']
      BY <3>1
    <3>3. todo \in Seq(1..minted') /\ Len(todo) = PlannedGates
      <4> HIDE DEF todo
      <4> QED BY <1>1, <3>2, SeqOfFcn
    <3> QED BY <2>1, <3>3
  <2> HIDE DEF todo
  <2>3. /\ op' = [op EXCEPT ![p] = n] /\ DOMAIN n = Fields /\ n.pc = "gate"
        /\ n.candidate = op[p].candidate /\ n.id = op[p].id /\ n.todo = todo
    BY <2>1, OpIsFunction, Typed DEF Fields
  <2> HIDE DEF n
  <2>4. MovesTo(p, n) /\ op'[p] = n
    BY <2>3, PlainMove DEF MovesTo
  <2>5. Held(p)' /\ Underived(p)' /\ Due(n) = {}
    BY <1>1, <2>2, <2>3, <2>4 DEF Held, Underived, Due
  <2>6. TablesTyped' /\ Grows /\ VerdictRestsOnEvidence'
    BY <1>1, <1>2, <2>1, TablesKept
  <2>7. \A q \in Procs : Ids(obligations)' \cap Due(op[q]) = {}
    BY <1>2, DueFresh, SameRows DEF tables
  <2>8. n.candidate \in Candidates /\ n.id \in Nat
    BY <2>3, Typed
  <2> QED BY <2>3, <2>4, <2>5, <2>6, <2>7, <2>8, StepKeeps
<1> QED BY <1>3, <1>4

LEMMA GatesAdded ==
  ASSUME TInv, NEW p \in Procs, gates \subseteq gates',
         gates' \subseteq [id : 1..minted, candidate : Fingerprints],
         checks' \subseteq {g.id : g \in gates'},
         UNCHANGED <<active, obligations, releases, operations, minted, bounds>>
  PROVE  TablesTyped' /\ Grows /\ VerdictRestsOnEvidence'
<1>1. TablesTyped
  BY DEF TInv
<1>2. /\ active' = active /\ obligations' = obligations /\ releases' = releases
      /\ operations' = operations /\ minted' = minted /\ requests' = requests
      /\ failures' = failures
  BY DEF bounds
<1>3. TablesTyped'
  BY <1>1, <1>2 DEF TablesTyped, Ids, Sorted
<1>4. Grows
  BY <1>2, SameRows, Rowed DEF Grows
<1> QED BY <1>2, <1>3, <1>4, VerdictsKept

LEMMA StoreGateSafe ==
  ASSUME TInv, NEW p \in Procs, StoreGate(p)
  PROVE  TInv'
<1> DEFINE o == op[p]
           g == [id |-> Head(o.todo), candidate |-> o.candidate]
           n == [o EXCEPT !.pc = "check"]
<1>1. o.candidate \in Fingerprints /\ o.todo \in Seq(1..minted) /\ o.todo # <<>>
  BY Typed DEF Held, StoreGate, At
<1>2. /\ gates' = gates \cup {g} /\ Goto(p, "check") /\ checks' = checks
      /\ UNCHANGED <<active, obligations, releases, operations, minted, bounds>>
  BY DEF StoreGate
<1>3. Head(o.todo) \in 1..minted
  BY <1>1, HeadAndTail
<1>4. gates' \subseteq [id : 1..minted, candidate : Fingerprints]
  BY <1>1, <1>2, <1>3 DEF TInv, TablesTyped
<1>5. checks' \subseteq {h.id : h \in gates'}
  BY <1>2 DEF TInv, TablesTyped
<1>6. TablesTyped' /\ Grows /\ VerdictRestsOnEvidence'
  BY <1>2, <1>4, <1>5, GatesAdded
<1>7. /\ op' = [op EXCEPT ![p] = n] /\ DOMAIN n = Fields /\ n.pc = "check"
      /\ n.candidate = o.candidate /\ n.id = o.id /\ n.todo = o.todo
  BY <1>2, GotoMove, Going
<1> HIDE DEF n
<1>8. MovesTo(p, n) /\ op'[p] = n
  BY <1>7, PlainMove DEF MovesTo
<1>9. [id |-> Head(n.todo), candidate |-> n.candidate] \in gates'
  BY <1>2, <1>7
<1>10. Held(p)' /\ Underived(p)' /\ Due(n) = {}
  BY <1>1, <1>2, <1>7, <1>8, <1>9 DEF Held, Underived, Due
<1>11. \A q \in Procs : Ids(obligations)' \cap Due(op[q]) = {}
  BY <1>2, DueFresh, SameRows
<1>12. n.candidate \in Candidates /\ n.id \in Nat
  BY <1>7, Typed
<1> QED BY <1>6, <1>7, <1>8, <1>10, <1>11, <1>12, StepKeeps

LEMMA StoreCheckSafe ==
  ASSUME TInv, NEW p \in Procs, StoreCheck(p)
  PROVE  TInv'
<1> DEFINE o == op[p]
           pc == IF Len(o.todo) = 1 THEN "derived?" ELSE "gate"
           n == [o EXCEPT !.todo = Tail(o.todo), !.pc = pc]
<1>1. /\ o.candidate \in Fingerprints /\ o.todo \in Seq(1..minted) /\ o.todo # <<>>
      /\ [id |-> Head(o.todo), candidate |-> o.candidate] \in gates
  BY Typed DEF Held, StoreCheck, At
<1>2. /\ checks' = checks \cup {Head(o.todo)} /\ gates' = gates
      /\ op' = [op EXCEPT ![p].todo = Tail(@), ![p].pc = pc]
      /\ UNCHANGED <<active, obligations, releases, operations, minted, bounds>>
  BY DEF StoreCheck
<1>3. Head(o.todo) \in {h.id : h \in gates}
  BY <1>1
<1>4. checks' \subseteq {h.id : h \in gates'}
  BY <1>2, <1>3 DEF TInv, TablesTyped
<1>5. gates' \subseteq [id : 1..minted, candidate : Fingerprints]
  BY <1>2 DEF TInv, TablesTyped
<1>6. TablesTyped' /\ Grows /\ VerdictRestsOnEvidence'
  BY <1>2, <1>4, <1>5, GatesAdded
<1>7. /\ Tail(o.todo) \in Seq(1..minted)
      /\ Len(o.todo) # 1 => Tail(o.todo) # <<>>
  BY <1>1, HeadAndTail
<1>8. pc \in {"derived?", "gate"} /\ (pc = "gate" => Len(o.todo) # 1)
  OBVIOUS
<1> HIDE DEF pc
<1>9. /\ op' = [op EXCEPT ![p] = n] /\ DOMAIN n = Fields /\ n.pc = pc
      /\ n.candidate = o.candidate /\ n.id = o.id /\ n.todo = Tail(o.todo)
  <2>1. op' = [op EXCEPT ![p] = n]
    BY <1>2, OpIsFunction
  <2> QED BY <2>1, Typed DEF Fields
<1> HIDE DEF n
<1>10. MovesTo(p, n) /\ op'[p] = n
  BY <1>9, PlainMove DEF MovesTo
<1>11. Held(p)' /\ Underived(p)' /\ Due(n) = {}
  BY <1>1, <1>2, <1>7, <1>8, <1>9, <1>10 DEF Held, Underived, Due
<1>12. \A q \in Procs : Ids(obligations)' \cap Due(op[q]) = {}
  BY <1>2, DueFresh, SameRows
<1>13. n.candidate \in Candidates /\ n.id \in Nat
  BY <1>9, Typed
<1> QED BY <1>6, <1>9, <1>10, <1>11, <1>12, <1>13, StepKeeps

LEMMA LookForObligationsSafe ==
  ASSUME TInv, NEW p \in Procs, LookForObligations(p)
  PROVE  TInv'
<1> DEFINE o == op[p]
           todo == [i \in DOMAIN Templates |->
                      Obligation(minted + i, o.candidate, Templates[i])]
           n == [o EXCEPT !.pc = "duty", !.todo = todo]
<1>1. o.candidate \in Fingerprints /\ minted \in Nat
  BY Typed, Rowed DEF Held, LookForObligations, At
<1>2. /\ UNCHANGED <<active, tables, bounds>>
      /\ active' \in Candidates /\ requests' \in 0..MaxRequests /\ failures' \in 0..MaxFailures
  BY BoundsTyped DEF LookForObligations, bounds
<1>3. CASE Return(p) /\ UNCHANGED minted
  BY <1>2, <1>3, ReturnSafe DEF bounds
<1>4. CASE ~(Return(p) /\ UNCHANGED minted)
  <2>1. /\ op' = [op EXCEPT ![p].pc = "duty", ![p].todo = todo]
        /\ minted' = minted + Len(Templates) /\ Templates # <<>>
    BY <1>4 DEF LookForObligations
  <2>2. /\ Templates \in Seq(STRING) /\ Len(Templates) \in Nat /\ Len(Templates) # 0
        /\ DOMAIN Templates = 1..Len(Templates)
        /\ \A i \in DOMAIN Templates : Templates[i] \in Range(Templates)
    BY <2>1, TemplatesAssumption DEF TemplatesAssumption, Range
  <2>3. ASSUME NEW i \in 1..Len(Templates)
        PROVE  /\ todo[i] \in Rows /\ todo[i].id = minted + i
               /\ todo[i].candidate = o.candidate /\ ~todo[i].judged
               /\ todo[i].status # "ExceptionApproved"
    <3>1. /\ minted + i \in Nat /\ Templates[i] \in Range(Templates)
          /\ "NotEvaluated" \in Statuses
      BY <1>1, <2>2 DEF Statuses
    <3>2. todo[i] = [id |-> minted + i, candidate |-> o.candidate,
                     requirement |-> Templates[i], status |-> "NotEvaluated",
                     evidence |-> {}, judged |-> FALSE]
      BY <2>2 DEF Obligation
    <3> HIDE DEF todo
    <3> QED BY <1>1, <3>1, <3>2 DEF Rows
  <2>4. todo \in Seq(Rows) /\ todo # <<>> /\ DOMAIN todo = 1..Len(Templates)
    <3>1. DOMAIN todo = 1..Len(Templates) /\ todo = [i \in 1..Len(Templates) |-> todo[i]]
      BY <2>2
    <3> HIDE DEF todo
    <3>2. todo \in [1..Len(Templates) -> Rows]
      BY <2>3, <3>1
    <3>3. todo \in Seq(Rows) /\ Len(todo) = Len(Templates)
      BY <2>2, <3>2, SeqOfFcn
    <3> QED BY <2>2, <3>1, <3>3
  <2> HIDE DEF todo
  <2>5. /\ op' = [op EXCEPT ![p] = n] /\ DOMAIN n = Fields /\ n.pc = "duty"
        /\ n.candidate = o.candidate /\ n.id = o.id /\ n.todo = todo
    BY <2>1, OpIsFunction, Typed DEF Fields
  <2> HIDE DEF n
  <2>6. MovesTo(p, n) /\ op'[p] = n
    BY <2>5, PlainMove DEF MovesTo
  <2>7. minted' \in Nat /\ minted <= minted'
    BY <1>1, <2>1, <2>2
  <2>8. TablesTyped' /\ Grows /\ VerdictRestsOnEvidence'
    BY <1>2, <2>7, TablesKept
  <2>9. Ids(obligations)' = Ids(obligations) /\ Ids(obligations) \subseteq 1..minted
    BY <1>2, SameRows, Rowed DEF tables
  <2>10. \A i \in 1..Len(Templates) :
           todo[i].id \in 1..minted' /\ todo[i].id \notin 1..minted
    BY <1>1, <2>1, <2>2, <2>3
  <2>11. Underived(p)'
    <3>1. /\ \A i \in DOMAIN todo :
               /\ todo[i].id \in (1..minted') \ Ids(obligations)'
               /\ todo[i].candidate = n.candidate /\ ~todo[i].judged
               /\ todo[i].status # "ExceptionApproved"
      BY <2>3, <2>4, <2>5, <2>9, <2>10
    <3>2. \A i, j \in DOMAIN todo : todo[i].id = todo[j].id => i = j
      BY <1>1, <2>2, <2>3, <2>4
    <3>3. op'[p].todo = todo /\ op'[p].candidate = n.candidate
      BY <2>5, <2>6
    <3> QED BY <2>4, <3>1, <3>2, <3>3 DEF Underived
  <2>12. Held(p)'
    BY <1>1, <2>5, <2>6 DEF Held
  <2>13. \A q \in Procs : Ids(obligations)' \cap Due(op[q]) = {} /\ Due(n) \cap Due(op[q]) = {}
    <3>1. \A x \in Due(n) : x \notin 1..minted
      BY <2>4, <2>5, <2>10 DEF Due
    <3>2. \A q \in Procs : Due(op[q]) \subseteq (1..minted) \ Ids(obligations)
      BY DueFresh
    <3> QED BY <2>9, <3>1, <3>2
  <2>14. n.candidate \in Candidates /\ n.id \in Nat
    BY <2>5, Typed
  <2> QED BY <2>5, <2>6, <2>8, <2>11, <2>12, <2>13, <2>14, StepKeeps
<1> QED BY <1>3, <1>4

LEMMA StoreObligationSafe ==
  ASSUME TInv, NEW p \in Procs, StoreObligation(p)
  PROVE  TInv'
<1> DEFINE o == op[p]
           r == Head(o.todo)
           rest == Tail(o.todo)
<1>1. /\ o.candidate \in Fingerprints /\ o.todo \in Seq(Rows) /\ o.todo # <<>>
      /\ \A i \in DOMAIN o.todo :
           /\ o.todo[i].id \in (1..minted) \ Ids(obligations)
           /\ o.todo[i].candidate = o.candidate /\ ~o.todo[i].judged
           /\ o.todo[i].status # "ExceptionApproved"
      /\ \A i, j \in DOMAIN o.todo : o.todo[i].id = o.todo[j].id => i = j
      /\ o.pc = "duty"
  BY Typed DEF Held, Underived, StoreObligation, At
<1>2. /\ obligations' = InsertAt(obligations, PlaceOf(r), r)
      /\ UNCHANGED <<active, gates, checks, releases, operations, minted, bounds>>
  BY DEF StoreObligation
<1>3. PICK n \in Nat : /\ n = Len(o.todo) /\ n # 0 /\ DOMAIN o.todo = 1..n
                       /\ r = o.todo[1] /\ r \in Rows /\ rest \in Seq(Rows)
                       /\ DOMAIN rest = 1..(n - 1) /\ (n # 1 => rest # <<>>)
                       /\ \A i \in 1..(n - 1) : rest[i] = o.todo[i + 1]
  BY <1>1, HeadAndTail
<1>4. r.id \in (1..minted) \ Ids(obligations) /\ ~r.judged
  BY <1>1, <1>3
<1>5. ASSUME NEW i \in 1..(n - 1)
      PROVE  /\ rest[i].id \in (1..minted) \ Ids(obligations) /\ rest[i].id # r.id
             /\ rest[i].candidate = o.candidate /\ ~rest[i].judged
             /\ rest[i].status # "ExceptionApproved"
  <2>1. PICK j \in 1..n : j = i + 1 /\ j # 1 /\ 1 \in 1..n
    OBVIOUS
  <2>2. rest[i] = o.todo[j] /\ r = o.todo[1] /\ DOMAIN o.todo = 1..n
    BY <1>3, <2>1
  <2> HIDE DEF r, rest
  <2> QED BY <1>1, <2>1, <2>2
<1>6. ASSUME NEW i \in 1..(n - 1), NEW j \in 1..(n - 1), rest[i].id = rest[j].id
      PROVE  i = j
  <2>1. PICK k \in 1..n : k = i + 1 /\ rest[i] = o.todo[k]
    BY <1>3
  <2>2. PICK l \in 1..n : l = j + 1 /\ rest[j] = o.todo[l]
    BY <1>3
  <2> HIDE DEF r, rest
  <2>3. k = l
    BY <1>1, <1>3, <1>6, <2>1, <2>2
  <2> QED BY <2>1, <2>2, <2>3
<1> HIDE DEF r, rest
<1>7. /\ obligations' \in Seq(Rows) /\ Sorted(obligations)'
      /\ Ids(obligations)' = Ids(obligations) \cup {r.id} /\ Carried
      /\ VerdictRestsOnEvidence'
  BY <1>2, <1>3, <1>4, Inserting
<1>8. /\ active' = active /\ gates' = gates /\ checks' = checks /\ releases' = releases
      /\ operations' = operations /\ minted' = minted /\ requests' = requests
      /\ failures' = failures
  BY <1>2 DEF bounds
<1>9. TablesTyped'
  BY <1>4, <1>7, <1>8 DEF TInv, TablesTyped
<1>10. Grows
  BY <1>7, <1>8, Rowed DEF Grows
<1>11. \A q \in Procs \ {p} : Ids(obligations)' \cap Due(op[q]) = {}
  <2>1. r.id \in Due(o)
    BY <1>1, <1>3 DEF Due
  <2> QED BY <1>7, <2>1, DueFresh, DueApart
<1>12. CASE n = 1
  <2>1. Return(p)
    BY <1>3, <1>12 DEF StoreObligation
  <2>2. MovesTo(p, Idle) /\ op'[p] = Idle
    BY <2>1, PlainMove DEF Return, MovesTo
  <2>3. Due(Idle) = {}
    BY IdleTyped DEF Due
  <2> QED BY <1>7, <1>9, <1>10, <1>11, <2>2, <2>3, IdleTyped, IdleHolds, StepKeeps
<1>13. CASE n # 1
  <2> DEFINE m == [o EXCEPT !.todo = rest]
  <2>1. op' = [op EXCEPT ![p].todo = Tail(@)]
    BY <1>3, <1>13 DEF StoreObligation
  <2>2. op' = [op EXCEPT ![p] = m]
    BY <2>1, OpIsFunction DEF rest
  <2>3. /\ DOMAIN m = Fields /\ m.pc = "duty" /\ m.candidate = o.candidate
        /\ m.id = o.id /\ m.todo = rest
    BY <1>1, Typed DEF Fields
  <2> HIDE DEF m
  <2>4. MovesTo(p, m) /\ op'[p] = m
    BY <2>2, PlainMove DEF MovesTo
  <2>5. Held(p)'
    BY <1>1, <2>3, <2>4 DEF Held
  <2>6. op'[p].todo = rest /\ op'[p].candidate = o.candidate
    BY <2>3, <2>4
  <2>7. \A i \in DOMAIN rest : rest[i].id \in (1..minted') \ Ids(obligations)'
    BY <1>3, <1>5, <1>7, <1>8
  <2>8. Underived(p)'
    BY <1>3, <1>5, <1>6, <1>13, <2>6, <2>7 DEF Underived
  <2>9. \A q \in Procs \ {p} : Due(m) \cap Due(op[q]) = {}
    <3>1. \A i \in DOMAIN rest : \E j \in DOMAIN o.todo : rest[i].id = o.todo[j].id
      BY <1>3
    <3>2. Due(m) \subseteq Due(o)
      BY <1>1, <2>3, <3>1 DEF Due
    <3> QED BY <3>2, DueApart
  <2>10. m.candidate \in Candidates /\ m.id \in Nat
    BY <2>3, Typed
  <2> QED BY <1>7, <1>9, <1>10, <1>11, <2>3, <2>4, <2>5, <2>8, <2>9, <2>10, StepKeeps
<1> QED BY <1>12, <1>13

-----------------------------------------------------------------------------
(* The assembly of a snapshot and the query.                                *)

(* A step of p alone: what it sets of what p holds. *)
LEMMA ReadActiveSafe ==
  ASSUME TInv, NEW p \in Procs, ReadActive(p)
  PROVE  TInv'
<1> DEFINE settled == active \in captured /\ ~Capturing(active)
           n == [op[p] EXCEPT !.pc = "assembled?", !.candidate = active,
                              !.settled = settled]
<1>1. /\ UNCHANGED <<active, tables, minted>> /\ requests' = requests /\ failures' = failures
      /\ active' \in Candidates /\ requests' \in 0..MaxRequests /\ failures' \in 0..MaxFailures
      /\ active \in Candidates
  BY BoundsTyped DEF ReadActive, bounds
<1>2. CASE Return(p)
  BY <1>1, <1>2, ReturnSafe
<1>3. CASE ~Return(p)
  <2>1. /\ active # None
        /\ op' = [op EXCEPT ![p].pc = "assembled?", ![p].candidate = active,
                            ![p].settled = settled]
    BY <1>3 DEF ReadActive
  <2> HIDE DEF settled
  <2>2. /\ op' = [op EXCEPT ![p] = n] /\ DOMAIN n = Fields /\ n.pc = "assembled?"
        /\ n.candidate = active /\ n.id = op[p].id
    BY <2>1, OpIsFunction, Typed DEF Fields
  <2> HIDE DEF n
  <2>3. op'[p] = n
    BY <2>2, PlainMove DEF MovesTo
  <2>4. Held(p)'
    BY <1>1, <2>1, <2>2, <2>3 DEF Held, Candidates
  <2> QED BY <1>1, <2>2, <2>4, Typed, ReadKeeps
<1> QED BY <1>2, <1>3

LEMMA ReadGatesSafe ==
  ASSUME TInv, NEW p \in Procs, ReadGates(p)
  PROVE  TInv'
<1> DEFINE mine == {g.id : g \in {h \in gates : h.candidate = op[p].candidate}}
           n == [op[p] EXCEPT !.pc = "duties", !.gates = mine]
<1>1. /\ UNCHANGED <<active, tables, minted>>
      /\ active' \in Candidates /\ requests' \in 0..MaxRequests /\ failures' \in 0..MaxFailures
  BY BoundsTyped DEF ReadGates, bounds
<1>2. op[p].candidate \in Fingerprints
  BY Typed DEF Held, ReadGates, At
<1>3. op' = [op EXCEPT ![p].pc = "duties", ![p].gates = mine]
  BY DEF ReadGates
<1> HIDE DEF mine
<1>4. /\ op' = [op EXCEPT ![p] = n] /\ DOMAIN n = Fields /\ n.pc = "duties"
      /\ n.candidate = op[p].candidate /\ n.id = op[p].id
  BY <1>3, OpIsFunction, Typed DEF Fields
<1> HIDE DEF n
<1>5. op'[p] = n
  BY <1>4, PlainMove DEF MovesTo
<1>6. Held(p)'
  BY <1>2, <1>4, <1>5 DEF Held
<1> QED BY <1>1, <1>4, <1>6, Typed, ReadKeeps

LEMMA ReadDutiesSafe ==
  ASSUME TInv, NEW p \in Procs, ReadDuties(p)
  PROVE  TInv'
<1> DEFINE mine == {[id |-> o.id, authority |-> Authority[o.requirement]] :
                      o \in DutiesOf(op[p].candidate)}
           n == [op[p] EXCEPT !.pc = "assemble", !.duties = mine]
<1>1. /\ UNCHANGED <<active, tables, minted>>
      /\ active' \in Candidates /\ requests' \in 0..MaxRequests /\ failures' \in 0..MaxFailures
  BY BoundsTyped DEF ReadDuties, bounds
<1>2. op[p].candidate \in Fingerprints
  BY Typed DEF Held, ReadDuties, At
<1>3. op' = [op EXCEPT ![p].pc = "assemble", ![p].duties = mine]
  BY DEF ReadDuties
<1> HIDE DEF mine
<1>4. /\ op' = [op EXCEPT ![p] = n] /\ DOMAIN n = Fields /\ n.pc = "assemble"
      /\ n.candidate = op[p].candidate /\ n.id = op[p].id
  BY <1>3, OpIsFunction, Typed DEF Fields
<1> HIDE DEF n
<1>5. op'[p] = n
  BY <1>4, PlainMove DEF MovesTo
<1>6. Held(p)'
  BY <1>2, <1>4, <1>5 DEF Held
<1> QED BY <1>1, <1>4, <1>6, Typed, ReadKeeps

LEMMA QueryActiveSafe ==
  ASSUME TInv, NEW p \in Procs, QueryActive(p)
  PROVE  TInv'
<1> DEFINE n == [op[p] EXCEPT !.pc = "answer", !.candidate = active]
<1>1. /\ UNCHANGED <<active, tables, minted>> /\ active \in Candidates
      /\ active' \in Candidates /\ requests' \in 0..MaxRequests /\ failures' \in 0..MaxFailures
  BY BoundsTyped DEF QueryActive, bounds
<1>2. op' = [op EXCEPT ![p] = n]
  BY OpIsFunction DEF QueryActive
<1>3. /\ DOMAIN n = Fields /\ n.pc = "answer" /\ n.candidate = active /\ n.id = op[p].id
  BY Going
<1> HIDE DEF n
<1>4. op'[p] = n
  BY <1>2, PlainMove DEF MovesTo
<1>5. Held(p)'
  BY <1>3, <1>4 DEF Held
<1> QED BY <1>1, <1>2, <1>3, <1>5, Typed, ReadKeeps

LEMMA QuerySnapshotSafe ==
  ASSUME TInv, NEW p \in Procs, QuerySnapshot(p)
  PROVE  TInv'
BY BoundsTyped, ReturnSafe DEF QuerySnapshot, bounds

LEMMA PutSnapshotSafe ==
  ASSUME TInv, NEW p \in Procs, PutSnapshot(p)
  PROVE  TInv'
<1> DEFINE o == op[p]
           r == [id |-> minted + 1, source |-> o.candidate, gate_ids |-> o.gates,
                 obligation_ids |-> {d.id : d \in o.duties},
                 authorities |-> {d.authority : d \in o.duties}, settled |-> o.settled]
           n == [o EXCEPT !.pc = "query"]
<1>1. /\ releases' = Append(releases, r) /\ minted' = minted + 1 /\ Goto(p, "query")
      /\ UNCHANGED <<active, gates, checks, obligations, operations, bounds>>
  BY DEF PutSnapshot
<1>2. o.candidate \in Fingerprints /\ minted \in Nat /\ minted' \in Nat /\ minted <= minted'
  <2>1. o.candidate \in Fingerprints
    BY Typed DEF Held, PutSnapshot, At
  <2>2. minted \in Nat
    BY Rowed
  <2> QED BY <1>1, <2>1, <2>2
<1>3. r.id = minted' /\ r.source = o.candidate
  BY <1>1
<1> HIDE DEF r
<1>4. releases' \in Seq(Range(releases')) /\ Range(releases') = Range(releases) \cup {r}
  BY <1>1, AppendRange DEF TInv, TablesTyped
<1>5. /\ active' = active /\ gates' = gates /\ checks' = checks
      /\ obligations' = obligations /\ operations' = operations
      /\ requests' = requests /\ failures' = failures
  BY <1>1 DEF bounds
<1>6. /\ 1..minted \subseteq 1..minted' /\ minted' \in 1..minted'
      /\ \A g \in [id : 1..minted, candidate : Fingerprints] :
           g \in [id : 1..minted', candidate : Fingerprints]
  <2>1. 1..minted \subseteq 1..minted' /\ minted' \in 1..minted'
    BY <1>1, <1>2
  <2> QED BY <2>1
<1>7. TablesTyped'
  <2>1. \A x \in Range(releases)' : x.id \in 1..minted' /\ x.source \in Fingerprints
    BY <1>2, <1>3, <1>4, <1>6 DEF TInv, TablesTyped
  <2>2. TablesTyped
    BY DEF TInv
  <2>3. gates \subseteq [id : 1..minted', candidate : Fingerprints]
    BY <1>6, <2>2 DEF TablesTyped
  <2>4. Ids(obligations)' = Ids(obligations) /\ Sorted(obligations)' = Sorted(obligations)
    BY <1>5 DEF Ids, Sorted
  <2> QED BY <1>2, <1>4, <1>5, <1>6, <2>1, <2>2, <2>3, <2>4 DEF TablesTyped
<1>8. Grows /\ VerdictRestsOnEvidence'
  BY <1>2, <1>5, SameRows, VerdictsKept DEF Grows
<1>9. /\ op' = [op EXCEPT ![p] = n] /\ DOMAIN n = Fields /\ n.pc = "query"
      /\ n.candidate = o.candidate /\ n.id = o.id
  BY <1>1, GotoMove, Going
<1> HIDE DEF n
<1>10. MovesTo(p, n) /\ op'[p] = n
  BY <1>9, PlainMove DEF MovesTo
<1>11. Held(p)' /\ Underived(p)' /\ Due(n) = {}
  BY <1>9, <1>10 DEF Held, Underived, Due
<1>12. \A q \in Procs : Ids(obligations)' \cap Due(op[q]) = {}
  BY <1>5, DueFresh, SameRows
<1>13. n.candidate \in Candidates /\ n.id \in Nat
  BY <1>9, Typed
<1> QED BY <1>7, <1>8, <1>9, <1>10, <1>11, <1>12, <1>13, StepKeeps

-----------------------------------------------------------------------------
(* Outcomes and verdicts.                                                   *)

LEMMA ReadOutcomeSafe ==
  ASSUME TInv, NEW p \in Procs, ReadOutcome(p)
  PROVE  TInv'
<1> DEFINE ids == {o.id : o \in {d \in DutiesOf(active) :
                                   d.requirement = op[p].todo[1]}}
           found == Min(ids)
           n == [op[p] EXCEPT !.pc = "match", !.candidate = active, !.found = found]
<1>1. /\ UNCHANGED <<active, tables, minted>> /\ requests' = requests /\ failures' = failures
      /\ active' \in Candidates /\ requests' \in 0..MaxRequests /\ failures' \in 0..MaxFailures
      /\ active \in Candidates
  BY BoundsTyped DEF ReadOutcome, bounds
<1>2. CASE ids = {}
  <2>1. Return(p)
    BY <1>2 DEF ReadOutcome
  <2> QED BY <1>1, <2>1, ReturnSafe
<1>3. CASE ids # {}
  <2>1. ids \subseteq Ids(obligations) /\ Ids(obligations) \subseteq Nat
    <3>1. ids \subseteq Ids(obligations)
      BY DEF Ids, DutiesOf
    <3>2. Ids(obligations) \subseteq Nat
      BY Rowed
    <3> QED BY <3>1, <3>2
  <2>2. op' = [op EXCEPT ![p].pc = "match", ![p].candidate = active, ![p].found = found]
    BY <1>3 DEF ReadOutcome
  <2> HIDE DEF ids
  <2>3. found \in Ids(obligations)
    BY <1>3, <2>1, LeastThere
  <2> HIDE DEF found
  <2>4. /\ op' = [op EXCEPT ![p] = n] /\ DOMAIN n = Fields /\ n.pc = "match"
        /\ n.candidate = active /\ n.id = op[p].id /\ n.found = found
        /\ n.outcome = op[p].outcome
    BY <2>2, OpIsFunction, Typed DEF Fields
  <2> HIDE DEF n
  <2>5. op'[p] = n
    BY <2>4, PlainMove DEF MovesTo
  <2>6. op[p].outcome \in Outcomes
    BY Typed DEF Held, ReadOutcome, At
  <2>7. found \in Ids(obligations)'
    BY <1>1, <2>3, SameRows DEF tables
  <2>8. Held(p)'
    BY <2>4, <2>5, <2>6, <2>7 DEF Held
  <2> QED BY <1>1, <2>4, <2>8, Typed, ReadKeeps
<1> QED BY <1>2, <1>3

LEMMA PendingStays ==
  ASSUME NEW p \in Procs, obligations' = obligations, NEW n, op'[p] = n, Pending(n)
  PROVE  Pending(op[p])'
BY SameRows DEF Pending, Rows, Statuses, Rests, Same

LEMMA MatchOutcomeSafe ==
  ASSUME TInv, NEW p \in Procs, MatchOutcome(p)
  PROVE  TInv'
<1> DEFINE o == RowOf(op[p].found)
           r == [o EXCEPT !.status = op[p].outcome, !.judged = FALSE]
           n == [op[p] EXCEPT !.pc = "record", !.since = {}, !.row = {r}]
<1>1. /\ UNCHANGED <<active, tables, minted>> /\ requests' = requests /\ failures' = failures
      /\ active' \in Candidates /\ requests' \in 0..MaxRequests /\ failures' \in 0..MaxFailures
  BY BoundsTyped DEF MatchOutcome, bounds
<1>2. op[p].found \in Ids(obligations) /\ op[p].outcome \in Outcomes
  BY Typed DEF Held, MatchOutcome, At
<1>3. o \in Range(obligations) /\ o \in Rows
  BY <1>2, RowFound, Rowed
<1>4. CASE o.status = "ExceptionApproved"
  <2>1. Return(p)
    BY <1>4 DEF MatchOutcome
  <2> QED BY <1>1, <2>1, ReturnSafe
<1>5. CASE o.status # "ExceptionApproved"
  <2>1. op' = [op EXCEPT ![p].pc = "record", ![p].since = {}, ![p].row = {r}]
    BY <1>5 DEF MatchOutcome
  <2> HIDE DEF o
  <2>2. op[p].outcome \in Statuses /\ op[p].outcome # "ExceptionApproved"
    BY <1>2, OutcomesAssumption DEF OutcomesAssumption, Statuses
  <2>3. /\ r \in Rows /\ Same(o, r) /\ ~r.judged /\ r.status = op[p].outcome
    BY <1>3, <2>2 DEF Rows, Same
  <2> HIDE DEF r
  <2>4. /\ op' = [op EXCEPT ![p] = n] /\ DOMAIN n = Fields /\ n.pc = "record"
        /\ n.candidate = op[p].candidate /\ n.id = op[p].id /\ n.row = {r}
    BY <2>1, OpIsFunction, Typed DEF Fields
  <2> HIDE DEF n
  <2>5. op'[p] = n
    BY <2>4, PlainMove DEF MovesTo
  <2>6. Pending(n)
    BY <1>3, <2>2, <2>3, <2>4 DEF Pending, Rests
  <2>7. Pending(op[p])'
    BY <1>1, <2>5, <2>6, PendingStays DEF tables
  <2>8. Held(p)'
    BY <2>4, <2>5, <2>7 DEF Held
  <2> QED BY <1>1, <2>4, <2>8, Typed, ReadKeeps
<1> QED BY <1>4, <1>5

(* A row written whole, and its writer gone on. *)
LEMMA WriteKeeps ==
  ASSUME TInv, NEW p \in Procs, NEW n, MovesTo(p, n), NEW r \in Rows,
         NEW x \in Range(obligations), Same(x, r), Rests(r), Write(r),
         UNCHANGED <<active, gates, checks, releases, operations, minted, bounds>>,
         DOMAIN n = Fields, n.candidate \in Candidates, n.id \in Nat, n.pc # "duty",
         Held(p)'
  PROVE  TInv'
<1>1. /\ obligations' \in Seq(Rows) /\ Sorted(obligations)'
      /\ Ids(obligations)' = Ids(obligations) /\ Carried /\ VerdictRestsOnEvidence'
  BY Rewriting
<1>2. /\ active' = active /\ gates' = gates /\ checks' = checks /\ releases' = releases
      /\ operations' = operations /\ minted' = minted /\ requests' = requests
      /\ failures' = failures
  BY DEF bounds
<1>3. TablesTyped'
  BY <1>1, <1>2 DEF TInv, TablesTyped
<1>4. Grows
  BY <1>1, <1>2, Rowed DEF Grows
<1>5. Underived(p)' /\ Due(n) = {}
  BY DEF MovesTo, Underived, Due
<1>6. \A q \in Procs : Ids(obligations)' \cap Due(op[q]) = {}
  BY <1>1, DueFresh
<1> QED BY <1>1, <1>3, <1>4, <1>5, <1>6, StepKeeps

LEMMA RecordOutcomeSafe ==
  ASSUME TInv, NEW p \in Procs, RecordOutcome(p)
  PROVE  TInv'
<1>1. Pending(op[p])
  BY Typed DEF Held, RecordOutcome, At
<1>2. PICK r \in op[p].row :
        Write(r) /\ op' = [Noticed("obligation", r.id) EXCEPT ![p] = Idle]
  BY DEF RecordOutcome
<1>3. r \in Rows /\ Rests(r) /\ \E x \in Range(obligations) : Same(x, r)
  BY <1>1 DEF Pending
<1>4. MovesTo(p, Idle) /\ op'[p] = Idle
  BY <1>2, NoticedMove DEF MovesTo
<1>5. Held(p)'
  BY <1>4, IdleHolds
<1>6. UNCHANGED <<active, gates, checks, releases, operations, minted, bounds>>
  BY DEF RecordOutcome
<1> QED BY <1>2, <1>3, <1>4, <1>5, <1>6, IdleTyped, WriteKeeps

LEMMA ListVerdictsSafe ==
  ASSUME TInv, NEW p \in Procs, ListVerdicts(p)
  PROVE  TInv'
<1> DEFINE ids == {o.id : o \in DutiesOf(active)}
           n == [op[p] EXCEPT !.pc = "judge", !.candidate = active, !.left = ids]
<1>1. /\ UNCHANGED <<active, tables, minted>> /\ requests' = requests /\ failures' = failures
      /\ active' \in Candidates /\ requests' \in 0..MaxRequests /\ failures' \in 0..MaxFailures
      /\ active \in Candidates
  BY BoundsTyped DEF ListVerdicts, bounds
<1>2. CASE active = None \/ DutiesOf(active) = {}
  <2>1. Return(p)
    BY <1>2 DEF ListVerdicts
  <2> QED BY <1>1, <2>1, ReturnSafe
<1>3. CASE ~(active = None \/ DutiesOf(active) = {})
  <2>1. ids \subseteq Ids(obligations) /\ ids # {}
    BY <1>3 DEF Ids, DutiesOf
  <2>2. op' = [op EXCEPT ![p].pc = "judge", ![p].candidate = active, ![p].left = ids]
    BY <1>3 DEF ListVerdicts
  <2> HIDE DEF ids
  <2>3. /\ op' = [op EXCEPT ![p] = n] /\ DOMAIN n = Fields /\ n.pc = "judge"
        /\ n.candidate = active /\ n.id = op[p].id /\ n.left = ids
        /\ n.outcome = op[p].outcome
    BY <2>2, OpIsFunction, Typed DEF Fields
  <2> HIDE DEF n
  <2>4. op'[p] = n
    BY <2>3, PlainMove DEF MovesTo
  <2>5. op[p].outcome \in Verdicts
    BY Typed DEF Held, ListVerdicts, At
  <2>6. Ids(obligations)' = Ids(obligations)
    BY <1>1, SameRows DEF tables
  <2>7. Held(p)'
    BY <2>1, <2>3, <2>4, <2>5, <2>6 DEF Held
  <2> QED BY <1>1, <2>3, <2>7, Typed, ReadKeeps
<1> QED BY <1>2, <1>3

(* The next of those listed, if there is one. *)
LEMMA TurnTaken ==
  ASSUME TInv, NEW p \in Procs, NEW pc
  PROVE  LET n == NextItem(p, pc)
         IN  \/ n = Idle
             \/ /\ DOMAIN n = Fields /\ n.pc = pc /\ n.candidate = op[p].candidate
                /\ n.id = op[p].id /\ n.outcome = op[p].outcome
                /\ n.left = op[p].left \ {Turn(p)} /\ n.left # {}
<1> DEFINE left == op[p].left \ {Turn(p)}
           n == [op[p] EXCEPT !.left = left, !.row = {}, !.pc = pc]
<1>1. NextItem(p, pc) = IF left = {} THEN Idle ELSE n
  BY DEF NextItem
<1> HIDE DEF left
<1>2. /\ DOMAIN n = Fields /\ n.pc = pc /\ n.candidate = op[p].candidate
      /\ n.id = op[p].id /\ n.outcome = op[p].outcome /\ n.left = left
  BY Typed DEF Fields
<1> HIDE DEF n
<1> QED BY <1>1, <1>2 DEF left

LEMMA TurnListed ==
  ASSUME TInv, NEW p \in Procs, op[p].pc \in {"judge", "verdict"}
  PROVE  /\ Turn(p) \in Ids(obligations) /\ op[p].outcome \in Verdicts
         /\ op[p].left \subseteq Ids(obligations)
<1>1. /\ op[p].left \subseteq Ids(obligations) /\ op[p].left # {}
      /\ op[p].outcome \in Verdicts
  BY Typed DEF Held
<1>2. op[p].left \subseteq Nat
  BY <1>1, Rowed
<1> QED BY <1>1, <1>2, LeastThere DEF Turn

LEMMA JudgeSafe ==
  ASSUME TInv, NEW p \in Procs, Judge(p)
  PROVE  TInv'
<1> DEFINE o == RowOf(Turn(p))
           verdict == evaluate_obligation(o.requirement, op[p].outcome)
           e == [id |-> op[p].id, status |-> op[p].outcome]
           row == {Judged(o, v, e) : v \in verdict}
           m == [op[p] EXCEPT !.pc = "verdict", !.since = {}, !.row = row]
           n == IF verdict = {} THEN NextItem(p, "judge") ELSE m
<1>1. /\ UNCHANGED <<active, tables, minted>> /\ requests' = requests /\ failures' = failures
      /\ active' \in Candidates /\ requests' \in 0..MaxRequests /\ failures' \in 0..MaxFailures
      /\ Ids(obligations)' = Ids(obligations) /\ obligations' = obligations
  BY BoundsTyped, SameRows DEF Judge, bounds, tables
<1>2. /\ Turn(p) \in Ids(obligations) /\ op[p].outcome \in Verdicts
      /\ op[p].left \subseteq Ids(obligations) /\ op[p].left # {}
  BY TurnListed, Typed DEF Judge, At, Held
<1>3. o \in Range(obligations) /\ o \in Rows
  BY <1>2, RowFound, Rowed
<1>4. op' = [op EXCEPT ![p] = n]
  BY DEF Judge
<1> HIDE DEF o
<1>5. e \in [id : Nat, status : Verdicts] /\ e.status = op[p].outcome
  BY <1>2, Typed
<1>6. ASSUME NEW v \in verdict
      PROVE  /\ v \in {"Pass", "Fail"} /\ o.requirement \in Known
             /\ v = "Pass" => op[p].outcome \in {"Pass", "NotApplicable"}
             /\ v = "Fail" => op[p].outcome = "Fail"
  BY DEF evaluate_obligation, verdict_from_evidence_status
<1> HIDE DEF verdict, e
<1>7. ASSUME NEW v \in verdict
      PROVE  LET r == Judged(o, v, e)
             IN  r \in Rows /\ Same(o, r) /\ Rests(r) /\ r.status # "ExceptionApproved"
  <2> DEFINE r == Judged(o, v, e)
  <2>1. v \in {"Pass", "Fail"} /\ v \in Statuses
    BY <1>6 DEF Statuses
  <2>2. /\ r \in Rows /\ Same(o, r) /\ r.status = v /\ r.requirement = o.requirement
        /\ r.evidence = o.evidence \cup {e}
    BY <1>3, <1>5, <2>1 DEF Rows, Judged, Same
  <2>3. e \in r.evidence
    BY <2>2
  <2> HIDE DEF r
  <2>4. e.status \in [Pass |-> {"Pass", "NotApplicable"}, Fail |-> {"Fail"}][r.status]
    <3>1. CASE v = "Pass"
      BY <1>5, <1>6, <2>2, <3>1
    <3>2. CASE v = "Fail"
      BY <1>5, <1>6, <2>2, <3>2
    <3> QED BY <2>1, <3>1, <3>2
  <2>5. Rests(r)
    BY <1>6, <2>2, <2>3, <2>4 DEF Rests
  <2>6. r.status # "ExceptionApproved"
    BY <2>1, <2>2
  <2> QED BY <2>2, <2>5, <2>6 DEF r
<1>8. CASE verdict = {}
  <2>1. op' = [op EXCEPT ![p] = NextItem(p, "judge")]
    BY <1>4, <1>8
  <2>2. op'[p] = NextItem(p, "judge")
    BY <2>1, PlainMove DEF MovesTo
  <2>3. CASE NextItem(p, "judge") = Idle
    BY <1>1, <2>1, <2>2, <2>3, IdleTyped, IdleHolds, ReadKeeps
  <2>4. CASE NextItem(p, "judge") # Idle
    <3> DEFINE k == NextItem(p, "judge")
    <3>1. /\ DOMAIN k = Fields /\ k.pc = "judge" /\ k.candidate = op[p].candidate
          /\ k.id = op[p].id /\ k.outcome = op[p].outcome
          /\ k.left \subseteq op[p].left /\ k.left # {}
      BY <2>4, TurnTaken
    <3> HIDE DEF k
    <3>2. op' = [op EXCEPT ![p] = k] /\ op'[p] = k
      BY <2>1, <2>2 DEF k
    <3>3. Held(p)'
      BY <1>1, <1>2, <3>1, <3>2 DEF Held
    <3> QED BY <1>1, <3>1, <3>2, <3>3, Typed, ReadKeeps
  <2> QED BY <2>3, <2>4
<1>9. CASE verdict # {}
  <2>1. op' = [op EXCEPT ![p] = m]
    BY <1>4, <1>9
  <2>2. /\ DOMAIN m = Fields /\ m.pc = "verdict" /\ m.candidate = op[p].candidate
        /\ m.id = op[p].id /\ m.row = row /\ m.left = op[p].left
        /\ m.outcome = op[p].outcome
    <3> HIDE DEF row
    <3> QED BY Typed DEF Fields
  <2> HIDE DEF m
  <2>3. op'[p] = m
    BY <2>1, PlainMove DEF MovesTo
  <2>4. Pending(m)
    BY <1>3, <1>7, <2>2 DEF Pending
  <2>5. Pending(op[p])'
    BY <1>1, <2>3, <2>4, PendingStays
  <2>6. Held(p)'
    BY <1>1, <1>2, <2>2, <2>3, <2>5 DEF Held
  <2> QED BY <1>1, <2>1, <2>2, <2>6, Typed, ReadKeeps
<1> QED BY <1>8, <1>9

LEMMA PutVerdictSafe ==
  ASSUME TInv, NEW p \in Procs, PutVerdict(p)
  PROVE  TInv'
<1> DEFINE n == NextItem(p, "judge")
<1>1. Pending(op[p]) /\ op[p].outcome \in Verdicts /\ op[p].left \subseteq Ids(obligations)
  BY Typed DEF Held, PutVerdict, At
<1>2. PICK r \in op[p].row :
        Write(r) /\ op' = [Noticed("obligation", r.id) EXCEPT ![p] = n]
  BY DEF PutVerdict
<1>3. PICK x \in Range(obligations) : r \in Rows /\ Rests(r) /\ Same(x, r)
  BY <1>1 DEF Pending
<1>4. UNCHANGED <<active, gates, checks, releases, operations, minted, bounds>>
  BY DEF PutVerdict
<1>5. MovesTo(p, n) /\ op'[p] = n
  BY <1>2, NoticedMove DEF MovesTo
<1>6. CASE n = Idle
  <2>1. Held(p)'
    BY <1>5, <1>6, IdleHolds
  <2> QED BY <1>2, <1>3, <1>4, <1>5, <1>6, <2>1, IdleTyped, WriteKeeps
<1>7. CASE n # Idle
  <2>1. /\ DOMAIN n = Fields /\ n.pc = "judge" /\ n.candidate = op[p].candidate
        /\ n.id = op[p].id /\ n.outcome = op[p].outcome
        /\ n.left \subseteq op[p].left /\ n.left # {}
    BY <1>7, TurnTaken
  <2>2. Ids(obligations)' = Ids(obligations)
    BY <1>2, <1>3, Rewriting
  <2> HIDE DEF n
  <2>3. Held(p)'
    BY <1>1, <1>5, <2>1, <2>2 DEF Held
  <2> QED BY <1>2, <1>3, <1>4, <1>5, <2>1, <2>3, Typed, WriteKeeps
<1> QED BY <1>6, <1>7

-----------------------------------------------------------------------------
(* What no request does: exceptions, operations.                            *)

LEMMA OutsideKeeps ==
  ASSUME TInv, Grows, TablesTyped', VerdictRestsOnEvidence',
         op' = [q \in Procs |-> op'[q]], \A q \in Procs : Alike(op'[q], op[q]),
         Ids(obligations)' = Ids(obligations)
  PROVE  TInv'
<1>1. CASE Procs = {}
  <2>1. RequestsTyped' /\ IdsApart' /\ \A p \in Procs : Held(p)' /\ Underived(p)'
    BY <1>1 DEF RequestsTyped, IdsApart
  <2> QED BY <2>1 DEF TInv
<1>2. CASE Procs # {}
  <2>1. PICK p \in Procs : TRUE
    BY <1>2
  <2> DEFINE n == op'[p]
  <2>2. MovesTo(p, n)
    BY DEF MovesTo
  <2>3. \A q \in Procs : Ids(obligations)' \cap Due(op[q]) = {}
    BY DueFresh
  <2>4. Held(p)' /\ Underived(p)'
    BY <2>3, StillHeld, StillUnderived
  <2>5. DOMAIN n = Fields /\ n.candidate \in Candidates /\ n.id \in Nat
    BY Typed DEF Alike
  <2>6. Due(n) = Due(op[p])
    <3>1. n.pc = op[p].pc /\ n.todo = op[p].todo
      BY DEF Alike
    <3> HIDE DEF n
    <3> QED BY <3>1 DEF Due
  <2>7. \A q \in Procs \ {p} : Due(n) \cap Due(op[q]) = {}
    BY <2>6, DueApart
  <2> HIDE DEF n
  <2> QED BY <2>2, <2>3, <2>4, <2>5, <2>7, StepKeeps
<1> QED BY <1>1, <1>2

LEMMA NoticedAlike ==
  ASSUME TInv, NEW kind, NEW id, op' = Noticed(kind, id)
  PROVE  /\ op' = [q \in Procs |-> op'[q]] /\ \A q \in Procs : Alike(op'[q], op[q])
         /\ \A q \in Procs : Writing(q) =>
              op'[q].since = op[q].since \cup {<<kind, id>>}
<1>1. DOMAIN Noticed(kind, id) = Procs
  BY DEF Noticed
<1>2. Noticed(kind, id) = [q \in Procs |-> Noticed(kind, id)[q]]
  BY DEF Noticed
<1> QED BY <1>1, <1>2, NoticedOf

LEMMA StillAlike ==
  ASSUME TInv, op' = op
  PROVE  op' = [q \in Procs |-> op'[q]] /\ \A q \in Procs : Alike(op'[q], op[q])
BY OpIsFunction DEF Alike

(* An approved exception is the row with its status written. *)
LEMMA ExceptionWrites ==
  ASSUME TInv, NEW i \in DOMAIN obligations, ApproveException(i)
  PROVE  LET r == [obligations[i] EXCEPT !.status = "ExceptionApproved", !.judged = FALSE]
         IN  r \in Rows /\ Same(obligations[i], r) /\ Rests(r) /\ Write(r)
<1> DEFINE o == obligations[i]
           r == [o EXCEPT !.status = "ExceptionApproved", !.judged = FALSE]
<1>1. o \in Rows /\ o \in Range(obligations)
  BY Rowed
<1>2. r \in Rows /\ Same(o, r) /\ ~r.judged /\ r.id = o.id
  BY <1>1 DEF Rows, Statuses, Same
<1>3. obligations' = [obligations EXCEPT ![i] = r]
  <2>1. obligations' = [obligations EXCEPT ![i].status = "ExceptionApproved",
                                           ![i].judged = FALSE]
    BY DEF ApproveException
  <2> QED BY <2>1, Rowed
<1>4. \A j \in DOMAIN obligations : obligations[j].id = r.id => obligations[j] = o
  BY <1>1, <1>2, Rowed, OneRow
<1>5. \A j \in DOMAIN obligations : obligations[j].id = r.id => i = j
  <2>1. ASSUME NEW j \in DOMAIN obligations, obligations[j].id = r.id PROVE i = j
    <3>1. i \in Nat /\ j \in Nat /\ o.id \in Nat /\ obligations[j].id = o.id
      BY <1>1, <1>2, <2>1, Rowed DEF Rows
    <3>2. ~(i < j) /\ ~(j < i)
      BY <3>1, Rowed DEF Sorted
    <3> QED BY <3>1, <3>2
  <2> QED BY <2>1
<1> HIDE DEF r
<1>6. Write(r)
  <2>1. [obligations EXCEPT ![i] = r] =
          [j \in DOMAIN obligations |-> IF obligations[j].id = r.id THEN r ELSE obligations[j]]
    BY <1>2, <1>5
  <2> QED BY <1>3, <2>1 DEF Write
<1>7. Rests(r)
  BY <1>2 DEF Rests
<1> QED BY <1>2, <1>6, <1>7 DEF r

LEMMA ApproveExceptionSafe ==
  ASSUME TInv, NEW i \in DOMAIN obligations, ApproveException(i)
  PROVE  TInv'
<1> DEFINE o == obligations[i]
           r == [o EXCEPT !.status = "ExceptionApproved", !.judged = FALSE]
<1>1. r \in Rows /\ Same(o, r) /\ Rests(r) /\ Write(r) /\ o \in Range(obligations)
  BY ExceptionWrites, Rowed
<1> HIDE DEF r
<1>2. /\ obligations' \in Seq(Rows) /\ Sorted(obligations)'
      /\ Ids(obligations)' = Ids(obligations) /\ Carried /\ VerdictRestsOnEvidence'
  BY <1>1, Rewriting
<1>3. /\ active' = active /\ gates' = gates /\ checks' = checks /\ releases' = releases
      /\ operations' = operations /\ minted' = minted /\ failures' = failures
      /\ requests < MaxRequests /\ requests' = requests + 1
      /\ op' = Noticed("obligation", o.id)
  BY DEF ApproveException
<1>4. requests' \in 0..MaxRequests
  BY <1>3, BoundsTyped, BoundsAssumption DEF BoundsAssumption
<1>5. TablesTyped'
  BY <1>2, <1>3, <1>4 DEF TInv, TablesTyped
<1>6. Grows
  BY <1>2, <1>3, Rowed DEF Grows
<1>7. op' = [q \in Procs |-> op'[q]] /\ \A q \in Procs : Alike(op'[q], op[q])
  BY <1>3, NoticedAlike
<1> QED BY <1>2, <1>5, <1>6, <1>7, OutsideKeeps

(* A step that concerns the operations only. *)
LEMMA OperationsKeep ==
  ASSUME TInv, UNCHANGED others, requests' \in 0..MaxRequests,
         operations # {} => operations' # {},
         operations' = {} \/ \E o \in operations' : operations' = {o} /\ o \in Operations
  PROVE  /\ TablesTyped' /\ Grows /\ VerdictRestsOnEvidence'
         /\ Ids(obligations)' = Ids(obligations)
<1>1. /\ active' = active /\ gates' = gates /\ checks' = checks
      /\ obligations' = obligations /\ releases' = releases /\ minted' = minted
      /\ failures' = failures
  BY DEF others
<1>2. Ids(obligations)' = Ids(obligations) /\ Sorted(obligations)' = Sorted(obligations)
  BY <1>1 DEF Ids, Sorted
<1>3. TablesTyped'
  BY <1>1, <1>2 DEF TInv, TablesTyped
<1>4. Grows
  BY <1>1, SameRows, Rowed DEF Grows
<1> QED BY <1>1, <1>2, <1>3, <1>4, VerdictsKept

LEMMA OperationTyped ==
  ASSUME TInv, NEW o \in operations
  PROVE  o \in Operations /\ operations = {o} /\ o.id = 1
<1>1. PICK x \in operations : operations = {x} /\ x \in Operations
  BY DEF TInv, TablesTyped
<1>2. o = x
  BY <1>1
<1> QED BY <1>1, <1>2 DEF Operations

LEMMA ProposeSafe ==
  ASSUME TInv, Propose
  PROVE  TInv'
<1> DEFINE o == [id |-> 1, candidate |-> active, authorization |-> "Proposed", age |-> 0]
<1>1. /\ operations' = {o} /\ UNCHANGED others /\ op' = op /\ active # None
      /\ requests < MaxRequests /\ requests' = requests + 1
  BY DEF Propose
<1>2. active \in Fingerprints /\ requests \in 0..MaxRequests
  BY <1>1, BoundsTyped DEF Candidates
<1>3. requests' \in 0..MaxRequests
  BY <1>1, <1>2, BoundsAssumption DEF BoundsAssumption
<1>4. o \in Operations
  <2>1. 0 \in 0..MaxAge /\ "Proposed" \in AuthorizationStates
    BY BoundsAssumption DEF BoundsAssumption, AuthorizationStates
  <2> QED BY <1>2, <2>1 DEF Operations
<1> HIDE DEF o
<1>5. /\ TablesTyped' /\ Grows /\ VerdictRestsOnEvidence'
      /\ Ids(obligations)' = Ids(obligations)
  BY <1>1, <1>3, <1>4, OperationsKeep
<1>6. op' = [q \in Procs |-> op'[q]] /\ \A q \in Procs : Alike(op'[q], op[q])
  BY <1>1, StillAlike
<1> QED BY <1>5, <1>6, OutsideKeeps

LEMMA PerformSafe ==
  ASSUME TInv, NEW o \in operations, NEW s \in AuthorizationStates, Perform(o, s)
  PROVE  TInv'
<1> DEFINE n == [o EXCEPT !.authorization = s]
<1>1. /\ operations' = {n} /\ UNCHANGED others /\ requests' = requests
      /\ op' = Noticed("operation", o.id)
  BY DEF Perform
<1>2. n \in Operations
  BY OperationTyped DEF Operations
<1> HIDE DEF n
<1>3. /\ TablesTyped' /\ Grows /\ VerdictRestsOnEvidence'
      /\ Ids(obligations)' = Ids(obligations)
  BY <1>1, <1>2, BoundsTyped, OperationsKeep
<1>4. op' = [q \in Procs |-> op'[q]] /\ \A q \in Procs : Alike(op'[q], op[q])
  BY <1>1, NoticedAlike
<1> QED BY <1>3, <1>4, OutsideKeeps

LEMMA AgeSafe ==
  ASSUME TInv, NEW o \in operations, Age(o)
  PROVE  TInv'
<1> DEFINE n == [o EXCEPT !.age = @ + 1]
<1>1. /\ operations' = {n} /\ UNCHANGED others /\ requests' = requests /\ op' = op
      /\ o.age < MaxAge
  BY DEF Age
<1>2. n \in Operations
  <2>1. o \in Operations /\ MaxAge \in Nat
    BY OperationTyped, BoundsAssumption DEF BoundsAssumption
  <2>2. o.age + 1 \in 0..MaxAge
    BY <1>1, <2>1 DEF Operations
  <2> QED BY <2>1, <2>2 DEF Operations
<1> HIDE DEF n
<1>3. /\ TablesTyped' /\ Grows /\ VerdictRestsOnEvidence'
      /\ Ids(obligations)' = Ids(obligations)
  BY <1>1, <1>2, BoundsTyped, OperationsKeep
<1>4. op' = [q \in Procs |-> op'[q]] /\ \A q \in Procs : Alike(op'[q], op[q])
  BY <1>1, StillAlike
<1> QED BY <1>3, <1>4, OutsideKeeps

LEMMA ListExecutingSafe ==
  ASSUME TInv, NEW p \in Procs, ListExecuting(p)
  PROVE  TInv'
<1> DEFINE ids == {o.id : o \in {x \in operations : x.authorization = "Executing"}}
           n == [op[p] EXCEPT !.pc = "inspect", !.left = ids]
<1>1. /\ UNCHANGED <<active, tables, minted>> /\ requests' = requests
      /\ failures' = failures /\ failures' \in 0..MaxFailures
      /\ requests' \in 0..MaxRequests /\ active' \in Candidates
  BY BoundsTyped DEF ListExecuting, others, tables
<1>2. CASE ids = {}
  <2>1. Return(p)
    BY <1>2 DEF ListExecuting
  <2> QED BY <1>1, <2>1, ReturnSafe
<1>3. CASE ids # {}
  <2>1. ids = {1} /\ operations # {}
    BY <1>3, OperationTyped
  <2>2. op' = [op EXCEPT ![p].pc = "inspect", ![p].left = ids]
    BY <1>3 DEF ListExecuting
  <2> HIDE DEF ids
  <2>3. /\ op' = [op EXCEPT ![p] = n] /\ DOMAIN n = Fields /\ n.pc = "inspect"
        /\ n.candidate = op[p].candidate /\ n.id = op[p].id /\ n.left = ids
    BY <2>2, OpIsFunction, Typed DEF Fields
  <2> HIDE DEF n
  <2>4. op'[p] = n
    BY <2>3, PlainMove DEF MovesTo
  <2>5. operations' # {}
    BY <1>1, <2>1 DEF tables
  <2>6. Held(p)'
    BY <2>1, <2>3, <2>4, <2>5 DEF Held
  <2> QED BY <1>1, <2>3, <2>6, Typed, ReadKeeps
<1> QED BY <1>2, <1>3

(* There is one operation: after it there is no next. *)
LEMMA LastTurn ==
  ASSUME TInv, NEW p \in Procs, op[p].pc \in {"inspect", "abandon"}
  PROVE  Turn(p) = 1 /\ NextItem(p, "inspect") = Idle /\ operations # {}
<1>1. op[p].left = {1} /\ operations # {}
  BY Typed DEF Held
<1>2. Turn(p) = 1
  <2>1. {1} \in SUBSET Nat /\ {1} # {}
    OBVIOUS
  <2>2. Min({1}) \in {1}
    BY <2>1, LeastThere
  <2> QED BY <1>1, <2>2 DEF Turn
<1> QED BY <1>1, <1>2 DEF NextItem

LEMMA InspectSafe ==
  ASSUME TInv, NEW p \in Procs, Inspect(p)
  PROVE  TInv'
<1>1. /\ UNCHANGED <<active, tables, minted>> /\ requests' = requests
      /\ failures' = failures /\ failures' \in 0..MaxFailures
      /\ requests' \in 0..MaxRequests /\ active' \in Candidates
  BY BoundsTyped DEF Inspect, others, tables
<1>2. NextItem(p, "inspect") = Idle /\ operations # {} /\ op[p].left = {1}
  BY LastTurn, Typed DEF Inspect, At, Held
<1>3. PICK o \in operations :
        op' = [op EXCEPT ![p] =
            IF o.age > Threshold
            THEN [op[p] EXCEPT !.pc = "abandon", !.since = {},
                               !.row = {abandon_operation(o)}]
            ELSE Idle]
  BY <1>2 DEF Inspect
<1>4. CASE ~(o.age > Threshold)
  BY <1>1, <1>3, <1>4, ReturnSafe DEF Return
<1>5. CASE o.age > Threshold
  <2> DEFINE r == abandon_operation(o)
             n == [op[p] EXCEPT !.pc = "abandon", !.since = {}, !.row = {r}]
  <2>1. op' = [op EXCEPT ![p] = n]
    BY <1>3, <1>5
  <2>2. r \in Operations
    <3>1. o \in Operations /\ "Failed" \in AuthorizationStates
      BY OperationTyped DEF AuthorizationStates
    <3> QED BY <3>1 DEF Operations, abandon_operation
  <2> HIDE DEF r
  <2>3. /\ DOMAIN n = Fields /\ n.pc = "abandon" /\ n.candidate = op[p].candidate
        /\ n.id = op[p].id /\ n.left = op[p].left /\ n.row = {r}
    BY Typed DEF Fields
  <2> HIDE DEF n
  <2>4. op'[p] = n
    BY <2>1, PlainMove DEF MovesTo
  <2>5. operations' # {}
    BY <1>1, <1>2 DEF tables
  <2>6. Held(p)'
    BY <1>2, <2>2, <2>3, <2>4, <2>5 DEF Held
  <2> QED BY <1>1, <2>1, <2>3, <2>6, Typed, ReadKeeps
<1> QED BY <1>4, <1>5

LEMMA AbandonSafe ==
  ASSUME TInv, NEW p \in Procs, Abandon(p)
  PROVE  TInv'
<1>1. NextItem(p, "inspect") = Idle /\ operations # {}
  BY LastTurn DEF Abandon, At
<1>2. PICK r \in op[p].row : op[p].row = {r} /\ r \in Operations
  BY Typed DEF Held, Abandon, At
<1>3. PICK o \in operations : TRUE
  BY <1>1
<1>4. o \in Operations /\ operations = {o}
  BY OperationTyped
<1> DEFINE n == [o EXCEPT !.authorization = r.authorization]
<1>5. operations' = {n}
  BY <1>2, <1>4 DEF Abandon
<1>6. n \in Operations
  BY <1>2, <1>4 DEF Operations
<1> HIDE DEF n
<1>7. /\ op' = [Noticed("operation", Turn(p)) EXCEPT ![p] = Idle]
      /\ UNCHANGED others /\ requests' = requests
  BY <1>1 DEF Abandon
<1>8. MovesTo(p, Idle) /\ op'[p] = Idle
  BY <1>7, NoticedMove DEF MovesTo
<1>9. /\ TablesTyped' /\ Grows /\ VerdictRestsOnEvidence'
      /\ Ids(obligations)' = Ids(obligations)
  BY <1>5, <1>6, <1>7, BoundsTyped, OperationsKeep
<1>10. \A q \in Procs : Ids(obligations)' \cap Due(op[q]) = {}
  BY <1>9, DueFresh
<1>11. Due(Idle) = {}
  BY IdleTyped DEF Due
<1> QED BY <1>8, <1>9, <1>10, <1>11, IdleTyped, IdleHolds, StepKeeps

-----------------------------------------------------------------------------
LEMMA TInit ==
  ASSUME Init
  PROVE  TInv
<1>1. /\ active = None /\ gates = {} /\ checks = {} /\ obligations = <<>>
      /\ releases = <<>> /\ operations = {} /\ minted = 0
      /\ op = [p \in Procs |-> Idle] /\ requests = 0 /\ failures = 0
  BY DEF Init
<1>2. \A p \in Procs : op[p] = Idle /\ op[p].pc = "idle"
  BY <1>1, IdleTyped
<1>3. RequestsTyped
  BY <1>1, IdleTyped DEF RequestsTyped
<1>4. \A s : s = <<>> => Range(s) = {} /\ Ids(s) = {} /\ Sorted(s)
  BY DEF Range, Ids, Sorted
<1>5. TablesTyped
  <2>1. active \in Candidates /\ requests \in 0..MaxRequests /\ failures \in 0..MaxFailures
    BY <1>1, BoundsAssumption DEF BoundsAssumption, Candidates
  <2>2. obligations \in Seq(Rows) /\ releases \in Seq(Range(releases)) /\ minted \in Nat
    BY <1>1
  <2>3. /\ Ids(obligations) = {} /\ Sorted(obligations) /\ Range(releases) = {}
    BY <1>1, <1>4
  <2> QED BY <1>1, <2>1, <2>2, <2>3 DEF TablesTyped
<1>6. VerdictRestsOnEvidence
  BY <1>1, <1>4 DEF VerdictRestsOnEvidence
<1>7. \A p \in Procs : Held(p) /\ Underived(p)
  BY <1>2 DEF Held, Underived
<1>8. IdsApart
  BY <1>2 DEF IdsApart, At
<1> QED BY <1>3, <1>5, <1>6, <1>7, <1>8 DEF TInv

LEMMA TWork ==
  ASSUME TInv, NEW p \in Procs, Work(p)
  PROVE  TInv'
<1>1. CASE \/ ActivateCandidate(p) \/ LookForChecks(p) \/ StoreGate(p) \/ StoreCheck(p)
           \/ LookForObligations(p) \/ StoreObligation(p)
  BY <1>1, ActivateSafe, LookForChecksSafe, StoreGateSafe, StoreCheckSafe,
     LookForObligationsSafe, StoreObligationSafe
<1>2. CASE \/ ReadActive(p) \/ LookForSnapshot(p) \/ ReadGates(p) \/ ReadDuties(p)
           \/ PutSnapshot(p) \/ QueryActive(p) \/ QuerySnapshot(p)
  BY <1>2, ReadActiveSafe, LookForSnapshotSafe, ReadGatesSafe, ReadDutiesSafe,
     PutSnapshotSafe, QueryActiveSafe, QuerySnapshotSafe
<1>3. CASE \/ ReadOutcome(p) \/ MatchOutcome(p) \/ RecordOutcome(p)
           \/ ListVerdicts(p) \/ Judge(p) \/ PutVerdict(p)
  BY <1>3, ReadOutcomeSafe, MatchOutcomeSafe, RecordOutcomeSafe, ListVerdictsSafe,
     JudgeSafe, PutVerdictSafe
<1>4. CASE ListExecuting(p) \/ Inspect(p) \/ Abandon(p)
  BY <1>4, ListExecutingSafe, InspectSafe, AbandonSafe
<1> QED BY <1>1, <1>2, <1>3, <1>4 DEF Work

LEMMA TStutter ==
  ASSUME TInv, UNCHANGED vars
  PROVE  TInv'
<1>1. /\ UNCHANGED tables /\ op' = op /\ active' = active /\ minted' = minted
      /\ requests' = requests /\ failures' = failures
  BY DEF vars, bounds
<1>2. TablesTyped' /\ Grows /\ VerdictRestsOnEvidence'
  BY <1>1, BoundsTyped, Rowed, TablesKept
<1>3. Ids(obligations)' = Ids(obligations)
  BY <1>1, SameRows DEF tables
<1>4. op' = [q \in Procs |-> op'[q]] /\ \A q \in Procs : Alike(op'[q], op[q])
  BY <1>1, StillAlike
<1> QED BY <1>2, <1>3, <1>4, OutsideKeeps

LEMMA TStep ==
  ASSUME TInv, [Next]_vars
  PROVE  TInv'
<1>1. ASSUME NEW p \in Procs, Receive(p) \/ Work(p) \/ Stop(p)
      PROVE  TInv'
  BY <1>1, ReceiveSafe, TWork, StopSafe
<1>2. ASSUME NEW i \in DOMAIN obligations, ApproveException(i)
      PROVE  TInv'
  BY <1>2, ApproveExceptionSafe
<1>3. CASE Propose
  BY <1>3, ProposeSafe
<1>4. ASSUME NEW o \in operations,
             Age(o) \/ \E s \in AuthorizationStates : Perform(o, s)
      PROVE  TInv'
  BY <1>4, AgeSafe, PerformSafe
<1>5. CASE UNCHANGED vars
  BY <1>5, TStutter
<1> HIDE DEF TInv
<1> QED BY <1>1, <1>2, <1>3, <1>4, <1>5 DEF Next

-----------------------------------------------------------------------------
(* Where an action leaves the request that takes it.                        *)

(* One who has not stored anything for a capture, nor reads for a release. *)
Calm == {"idle", "activate", "release", "outcome", "evaluate", "recover", "planned?",
         "query", "answer", "match", "record", "judge", "verdict", "inspect", "abandon"}

ReadOnly == UNCHANGED <<gates, checks, obligations, releases, operations, captured>>

LEMMA IdleMove ==
  ASSUME TInv, NEW p \in Procs, Return(p)
  PROVE  MovesTo(p, Idle) /\ op'[p] = Idle /\ op'[p].pc = "idle"
BY PlainMove, IdleTyped DEF Return, MovesTo

LEMMA ReceiveMoves ==
  ASSUME TInv, NEW p \in Procs, Receive(p)
  PROVE  /\ MovesTo(p, op'[p]) /\ ReadOnly
         /\ op'[p].pc \in {"activate", "release", "outcome", "evaluate", "recover"}
<1>1. PICK pc \in {"activate", "release", "outcome", "evaluate", "recover"} :
        \E c, t, o : Accept(p, pc, c, t, o)
  BY Zenon DEF Receive
<1>2. PICK c, t, o : Accept(p, pc, c, t, o)
  BY <1>1
<1> DEFINE n == [Idle EXCEPT !.pc = pc, !.candidate = c,
                   !.id = IF pc = "evaluate" THEN requests + 1 ELSE 0,
                   !.todo = <<t>>, !.outcome = o]
<1>3. op' = [op EXCEPT ![p] = n] /\ ReadOnly
  BY <1>2 DEF Accept, ReadOnly, tables
<1>4. n.pc = pc
  BY DEF Idle
<1> HIDE DEF n
<1>5. MovesTo(p, n) /\ op'[p] = n
  BY <1>3, PlainMove DEF MovesTo
<1> QED BY <1>1, <1>3, <1>4, <1>5

LEMMA StopMoves ==
  ASSUME TInv, NEW p \in Procs, Stop(p)
  PROVE  MovesTo(p, op'[p]) /\ ReadOnly /\ op'[p].pc = "idle"
BY IdleMove DEF Stop, ReadOnly, tables

LEMMA GotoMoves ==
  ASSUME TInv, NEW p \in Procs, NEW pc, Goto(p, pc)
  PROVE  /\ MovesTo(p, op'[p]) /\ op'[p].pc = pc /\ op'[p].candidate = op[p].candidate
         /\ op'[p].settled = op[p].settled /\ op'[p].todo = op[p].todo
<1> DEFINE n == [op[p] EXCEPT !.pc = pc]
<1>1. /\ n.pc = pc /\ n.candidate = op[p].candidate /\ n.settled = op[p].settled
      /\ n.todo = op[p].todo
  BY Typed DEF Fields
<1>2. op' = [op EXCEPT ![p] = n]
  BY GotoMove
<1> HIDE DEF n
<1> QED BY <1>1, <1>2, PlainMove DEF MovesTo

LEMMA ActivateMoves ==
  ASSUME TInv, NEW p \in Procs, ActivateCandidate(p)
  PROVE  MovesTo(p, op'[p]) /\ ReadOnly /\ op'[p].pc = "planned?"
BY GotoMoves DEF ActivateCandidate, ReadOnly, tables

LEMMA QueryActiveMoves ==
  ASSUME TInv, NEW p \in Procs, QueryActive(p)
  PROVE  MovesTo(p, op'[p]) /\ ReadOnly /\ op'[p].pc = "answer"
<1> DEFINE n == [op[p] EXCEPT !.pc = "answer", !.candidate = active]
<1>1. n.pc = "answer"
  BY Typed DEF Fields
<1>2. op' = [op EXCEPT ![p] = n] /\ ReadOnly
  BY OpIsFunction, Typed DEF QueryActive, Fields, ReadOnly, tables
<1> HIDE DEF n
<1> QED BY <1>1, <1>2, PlainMove DEF MovesTo

LEMMA QuerySnapshotMoves ==
  ASSUME TInv, NEW p \in Procs, QuerySnapshot(p)
  PROVE  MovesTo(p, op'[p]) /\ ReadOnly /\ op'[p].pc = "idle"
BY IdleMove DEF QuerySnapshot, ReadOnly, tables

LEMMA ReadOutcomeMoves ==
  ASSUME TInv, NEW p \in Procs, ReadOutcome(p)
  PROVE  MovesTo(p, op'[p]) /\ ReadOnly /\ op'[p].pc \in {"idle", "match"}
<1> DEFINE ids == {o.id : o \in {d \in DutiesOf(active) : d.requirement = op[p].todo[1]}}
           n == [op[p] EXCEPT !.pc = "match", !.candidate = active, !.found = Min(ids)]
<1>1. ReadOnly
  BY DEF ReadOutcome, ReadOnly, tables
<1>2. CASE ids = {}
  BY <1>1, <1>2, IdleMove DEF ReadOutcome
<1>3. CASE ids # {}
  <2>1. op' = [op EXCEPT ![p].pc = "match", ![p].candidate = active, ![p].found = Min(ids)]
    BY <1>3 DEF ReadOutcome
  <2> HIDE DEF ids
  <2>2. op' = [op EXCEPT ![p] = n] /\ n.pc = "match"
    BY <2>1, OpIsFunction, Typed DEF Fields
  <2> HIDE DEF n
  <2> QED BY <1>1, <2>2, PlainMove DEF MovesTo
<1> QED BY <1>2, <1>3

(* The row is the one in the table, with another status. *)
LEMMA MatchOutcomeMoves ==
  ASSUME TInv, NEW p \in Procs, MatchOutcome(p)
  PROVE  /\ MovesTo(p, op'[p]) /\ ReadOnly /\ op'[p].pc \in {"idle", "record"}
         /\ op'[p].pc = "record" =>
              LET o == RowOf(op[p].found)
              IN  /\ o \in Range(obligations) /\ o.status # "ExceptionApproved"
                  /\ \A r \in op'[p].row : r.id = o.id
<1> DEFINE o == RowOf(op[p].found)
           r == [o EXCEPT !.status = op[p].outcome, !.judged = FALSE]
           n == [op[p] EXCEPT !.pc = "record", !.since = {}, !.row = {r}]
<1>1. ReadOnly
  BY DEF MatchOutcome, ReadOnly, tables
<1>2. o \in Range(obligations) /\ o \in Rows
  BY Typed, RowFound, Rowed DEF Held, MatchOutcome, At
<1>3. r.id = o.id
  BY <1>2 DEF Rows
<1>4. CASE o.status = "ExceptionApproved"
  BY <1>1, <1>4, IdleMove DEF MatchOutcome
<1>5. CASE o.status # "ExceptionApproved"
  <2>1. op' = [op EXCEPT ![p].pc = "record", ![p].since = {}, ![p].row = {r}]
    BY <1>5 DEF MatchOutcome
  <2> HIDE DEF r
  <2>2. op' = [op EXCEPT ![p] = n] /\ n.pc = "record" /\ n.row = {r}
    BY <2>1, OpIsFunction, Typed DEF Fields
  <2> HIDE DEF n
  <2>3. MovesTo(p, n) /\ op'[p] = n
    BY <2>2, PlainMove DEF MovesTo
  <2> QED BY <1>1, <1>2, <1>3, <1>5, <2>2, <2>3
<1> QED BY <1>4, <1>5

LEMMA ListVerdictsMoves ==
  ASSUME TInv, NEW p \in Procs, ListVerdicts(p)
  PROVE  MovesTo(p, op'[p]) /\ ReadOnly /\ op'[p].pc \in {"idle", "judge"}
<1> DEFINE ids == {o.id : o \in DutiesOf(active)}
           n == [op[p] EXCEPT !.pc = "judge", !.candidate = active, !.left = ids]
<1>1. ReadOnly
  BY DEF ListVerdicts, ReadOnly, tables
<1>2. CASE Return(p)
  BY <1>1, <1>2, IdleMove
<1>3. CASE ~Return(p)
  <2>1. op' = [op EXCEPT ![p].pc = "judge", ![p].candidate = active, ![p].left = ids]
    BY <1>3 DEF ListVerdicts
  <2> HIDE DEF ids
  <2>2. op' = [op EXCEPT ![p] = n] /\ n.pc = "judge"
    BY <2>1, OpIsFunction, Typed DEF Fields
  <2> HIDE DEF n
  <2> QED BY <1>1, <2>2, PlainMove DEF MovesTo
<1> QED BY <1>2, <1>3

LEMMA JudgeMoves ==
  ASSUME TInv, NEW p \in Procs, Judge(p)
  PROVE  MovesTo(p, op'[p]) /\ ReadOnly /\ op'[p].pc \in {"idle", "judge", "verdict"}
<1> DEFINE o == RowOf(Turn(p))
           verdict == evaluate_obligation(o.requirement, op[p].outcome)
           e == [id |-> op[p].id, status |-> op[p].outcome]
           row == {Judged(o, v, e) : v \in verdict}
           m == [op[p] EXCEPT !.pc = "verdict", !.since = {}, !.row = row]
           n == IF verdict = {} THEN NextItem(p, "judge") ELSE m
<1>1. op' = [op EXCEPT ![p] = n] /\ ReadOnly
  BY DEF Judge, ReadOnly, tables
<1> HIDE DEF row, verdict
<1>2. m.pc = "verdict"
  BY Typed DEF Fields
<1> HIDE DEF m
<1>3. n.pc \in {"idle", "judge", "verdict"}
  BY <1>2, TurnTaken, IdleTyped
<1> HIDE DEF n
<1> QED BY <1>1, <1>3, PlainMove DEF MovesTo

LEMMA ListExecutingMoves ==
  ASSUME TInv, NEW p \in Procs, ListExecuting(p)
  PROVE  MovesTo(p, op'[p]) /\ ReadOnly /\ op'[p].pc \in {"idle", "inspect"}
<1> DEFINE ids == {o.id : o \in {x \in operations : x.authorization = "Executing"}}
           n == [op[p] EXCEPT !.pc = "inspect", !.left = ids]
<1>1. ReadOnly
  BY DEF ListExecuting, ReadOnly, others
<1>2. CASE Return(p)
  BY <1>1, <1>2, IdleMove
<1>3. CASE ~Return(p)
  <2>1. op' = [op EXCEPT ![p].pc = "inspect", ![p].left = ids]
    BY <1>3 DEF ListExecuting
  <2> HIDE DEF ids
  <2>2. op' = [op EXCEPT ![p] = n] /\ n.pc = "inspect"
    BY <2>1, OpIsFunction, Typed DEF Fields
  <2> HIDE DEF n
  <2> QED BY <1>1, <2>2, PlainMove DEF MovesTo
<1> QED BY <1>2, <1>3

(* The row is the operation, executing or as it has ended. *)
LEMMA InspectMoves ==
  ASSUME TInv, NEW p \in Procs, Inspect(p)
  PROVE  /\ MovesTo(p, op'[p]) /\ ReadOnly /\ op'[p].pc \in {"idle", "abandon"}
         /\ op'[p].pc = "abandon" =>
              \A o \in operations, r \in op'[p].row :
                is_terminal(o.authorization) => r.authorization = o.authorization
<1>1. ReadOnly
  BY DEF Inspect, ReadOnly, others
<1>2. NextItem(p, "inspect") = Idle
  BY LastTurn DEF Inspect, At
<1>3. PICK o \in operations :
        op' = [op EXCEPT ![p] =
            IF o.age > Threshold
            THEN [op[p] EXCEPT !.pc = "abandon", !.since = {},
                               !.row = {abandon_operation(o)}]
            ELSE Idle]
  BY <1>2 DEF Inspect
<1>4. operations = {o} /\ o \in Operations
  BY OperationTyped
<1> DEFINE r == abandon_operation(o)
           n == [op[p] EXCEPT !.pc = "abandon", !.since = {}, !.row = {r}]
<1>5. is_terminal(o.authorization) => r.authorization = o.authorization
  BY DEF is_terminal, abandon_operation
<1>6. CASE ~(o.age > Threshold)
  BY <1>1, <1>3, <1>6, IdleMove DEF Return
<1>7. CASE o.age > Threshold
  <2>1. op' = [op EXCEPT ![p] = n]
    BY <1>3, <1>7
  <2> HIDE DEF r
  <2>2. n.pc = "abandon" /\ n.row = {r}
    BY Typed DEF Fields
  <2> HIDE DEF n
  <2>3. MovesTo(p, n) /\ op'[p] = n
    BY <2>1, PlainMove DEF MovesTo
  <2> QED BY <1>1, <1>4, <1>5, <2>2, <2>3
<1> QED BY <1>6, <1>7

-----------------------------------------------------------------------------
(* The steps of a capture and of an assembly.                               *)

LEMMA LookForChecksMoves ==
  ASSUME TInv, NEW p \in Procs, LookForChecks(p)
  PROVE  /\ MovesTo(p, op'[p]) /\ ReadOnly
         /\ op[p].pc = "planned?" /\ op'[p].candidate = op[p].candidate
         /\ \/ op'[p].pc = "derived?" /\ Planned(op[p].candidate)
            \/ op'[p].pc = "gate" /\ ~Planned(op[p].candidate)
<1> DEFINE planned == \E g \in gates : g.candidate = op[p].candidate /\ g.id \in checks
           todo == [i \in 1..PlannedGates |-> minted + i]
           n == [op[p] EXCEPT !.pc = "gate", !.todo = todo]
<1>1. op[p].pc = "planned?" /\ ReadOnly
  BY DEF LookForChecks, At, ReadOnly, tables
<1>2. Planned(op[p].candidate) <=> planned \/ PlannedGates = 0
  BY DEF Planned
<1> HIDE DEF planned
<1>3. CASE planned \/ PlannedGates = 0
  <2>1. Goto(p, "derived?")
    BY <1>3 DEF LookForChecks, planned
  <2> QED BY <1>1, <1>2, <1>3, <2>1, GotoMoves
<1>4. CASE ~(planned \/ PlannedGates = 0)
  <2>1. op' = [op EXCEPT ![p].pc = "gate", ![p].todo = todo]
    BY <1>4 DEF LookForChecks, planned
  <2> HIDE DEF todo
  <2>2. op' = [op EXCEPT ![p] = n] /\ n.pc = "gate" /\ n.candidate = op[p].candidate
    BY <2>1, OpIsFunction, Typed DEF Fields
  <2> HIDE DEF n
  <2> QED BY <1>1, <1>2, <1>4, <2>2, PlainMove DEF MovesTo
<1> QED BY <1>3, <1>4

LEMMA StoreGateMoves ==
  ASSUME TInv, NEW p \in Procs, StoreGate(p)
  PROVE  /\ MovesTo(p, op'[p]) /\ op[p].pc = "gate" /\ op'[p].pc = "check"
         /\ op'[p].candidate = op[p].candidate
         /\ UNCHANGED <<checks, obligations, releases, operations, captured>>
         /\ \E g : g.candidate = op[p].candidate /\ gates' = gates \cup {g}
<1>1. PICK g : g = [id |-> Head(op[p].todo), candidate |-> op[p].candidate]
  OBVIOUS
<1>2. g.candidate = op[p].candidate /\ gates' = gates \cup {g}
  BY <1>1 DEF StoreGate
<1>3. op[p].pc = "gate" /\ Goto(p, "check")
  BY DEF StoreGate, At
<1>4. UNCHANGED <<checks, obligations, releases, operations, captured>>
  BY DEF StoreGate
<1> HIDE <1>1
<1> QED BY <1>2, <1>3, <1>4, GotoMoves

LEMMA StoreCheckMoves ==
  ASSUME TInv, NEW p \in Procs, StoreCheck(p)
  PROVE  /\ MovesTo(p, op'[p]) /\ op[p].pc = "check" /\ op'[p].pc \in {"gate", "derived?"}
         /\ op'[p].candidate = op[p].candidate /\ checks \subseteq checks'
         /\ UNCHANGED <<gates, obligations, releases, operations, captured>>
         /\ Planned(op[p].candidate)'
<1> DEFINE pc == IF Len(op[p].todo) = 1 THEN "derived?" ELSE "gate"
           g == [id |-> Head(op[p].todo), candidate |-> op[p].candidate]
           n == [op[p] EXCEPT !.todo = Tail(@), !.pc = pc]
<1>1. /\ op[p].pc = "check" /\ checks' = checks \cup {Head(op[p].todo)}
      /\ UNCHANGED <<gates, obligations, releases, operations, captured>>
      /\ op' = [op EXCEPT ![p].todo = Tail(@), ![p].pc = pc]
  BY DEF StoreCheck, At
<1>2. pc \in {"gate", "derived?"}
  OBVIOUS
<1> HIDE DEF pc
<1>3. op' = [op EXCEPT ![p] = n] /\ n.pc = pc /\ n.candidate = op[p].candidate
  BY <1>1, OpIsFunction, Typed DEF Fields
<1> HIDE DEF n
<1>4. g \in gates
  BY <1>1, Typed DEF Held
<1>5. g.candidate = op[p].candidate /\ g.id = Head(op[p].todo)
  OBVIOUS
<1>6. \E h \in gates' : h.candidate = op[p].candidate /\ h.id \in checks'
  BY <1>1, <1>4, <1>5
<1>7. MovesTo(p, n) /\ op'[p] = n
  BY <1>3, PlainMove DEF MovesTo
<1>8. Planned(op[p].candidate)'
  <2>1. op'[p].candidate = op[p].candidate
    BY <1>3, <1>7
  <2> QED BY <1>6, <2>1 DEF Planned
<1> QED BY <1>1, <1>2, <1>3, <1>7, <1>8

LEMMA LookForObligationsMoves ==
  ASSUME TInv, NEW p \in Procs, LookForObligations(p)
  PROVE  /\ MovesTo(p, op'[p]) /\ op[p].pc = "derived?"
         /\ UNCHANGED <<gates, checks, obligations, releases, operations>>
         /\ \/ /\ op'[p].pc = "idle" /\ Derived(op[p].candidate)
               /\ captured' = captured \cup {op[p].candidate}
            \/ /\ op'[p].pc = "duty" /\ op'[p].candidate = op[p].candidate
               /\ ~Derived(op[p].candidate) /\ captured' = captured
<1> DEFINE there == \E i \in DOMAIN obligations : obligations[i].candidate = op[p].candidate
           todo == [i \in DOMAIN Templates |->
                      Obligation(minted + i, op[p].candidate, Templates[i])]
           n == [op[p] EXCEPT !.pc = "duty", !.todo = todo]
<1>1. /\ op[p].pc = "derived?"
      /\ UNCHANGED <<gates, checks, obligations, releases, operations>>
  BY DEF LookForObligations, At, tables
<1>2. there <=> \E o \in Range(obligations) : o.candidate = op[p].candidate
  BY Rowed
<1>3. Derived(op[p].candidate) <=> there \/ Templates = <<>>
  BY <1>2 DEF Derived
<1> HIDE DEF there
<1>4. CASE there \/ Templates = <<>>
  <2>1. Return(p) /\ captured' = captured \cup {op[p].candidate}
    BY <1>4 DEF LookForObligations, there
  <2> QED BY <1>1, <1>3, <1>4, <2>1, IdleMove
<1>5. CASE ~(there \/ Templates = <<>>)
  <2>1. op' = [op EXCEPT ![p].pc = "duty", ![p].todo = todo] /\ captured' = captured
    BY <1>5 DEF LookForObligations, there
  <2> HIDE DEF todo
  <2>2. op' = [op EXCEPT ![p] = n] /\ n.pc = "duty" /\ n.candidate = op[p].candidate
    BY <2>1, OpIsFunction, Typed DEF Fields
  <2> HIDE DEF n
  <2> QED BY <1>1, <1>3, <1>5, <2>1, <2>2, PlainMove DEF MovesTo
<1> QED BY <1>4, <1>5

LEMMA StoreObligationMoves ==
  ASSUME TInv, NEW p \in Procs, StoreObligation(p)
  PROVE  /\ MovesTo(p, op'[p]) /\ op[p].pc = "duty"
         /\ UNCHANGED <<gates, checks, releases, operations>>
         /\ \/ op'[p].pc = "idle" /\ captured' = captured \cup {op[p].candidate}
            \/ /\ op'[p].pc = "duty" /\ op'[p].candidate = op[p].candidate
               /\ captured' = captured
         /\ \E r \in Rows :
              /\ r.candidate = op[p].candidate /\ r.id \notin Ids(obligations)
              /\ r.status # "ExceptionApproved" /\ Carried
              /\ Range(obligations') = Range(obligations) \cup {r}
<1> DEFINE n == [op[p] EXCEPT !.todo = Tail(@)]
           r == Head(op[p].todo)
<1>1. op[p].pc = "duty" /\ UNCHANGED <<gates, checks, releases, operations>>
  BY DEF StoreObligation, At
<1>2. \/ Return(p) /\ captured' = captured \cup {op[p].candidate}
      \/ op' = [op EXCEPT ![p].todo = Tail(@)] /\ captured' = captured
  BY DEF StoreObligation
<1>3. /\ r \in Rows /\ r.id \notin Ids(obligations) /\ ~r.judged
      /\ r.status # "ExceptionApproved" /\ r.candidate = op[p].candidate
  <2>1. /\ op[p].todo \in Seq(Rows) /\ op[p].todo # <<>>
        /\ \A i \in DOMAIN op[p].todo :
             /\ op[p].todo[i].id \in (1..minted) \ Ids(obligations)
             /\ op[p].todo[i].candidate = op[p].candidate
             /\ ~op[p].todo[i].judged /\ op[p].todo[i].status # "ExceptionApproved"
    BY <1>1, Typed DEF Underived
  <2>2. r \in Rows /\ 1 \in DOMAIN op[p].todo /\ r = op[p].todo[1]
    BY <2>1, HeadAndTail
  <2> QED BY <2>1, <2>2
<1>4. obligations' = InsertAt(obligations, PlaceOf(r), r)
  BY DEF StoreObligation
<1> HIDE DEF r
<1>5. Range(obligations') = Range(obligations) \cup {r} /\ Carried
  BY <1>3, <1>4, Inserting
<1>6. CASE Return(p) /\ captured' = captured \cup {op[p].candidate}
  BY <1>1, <1>3, <1>5, <1>6, IdleMove
<1>7. CASE op' = [op EXCEPT ![p].todo = Tail(@)] /\ captured' = captured
  <2>1. op' = [op EXCEPT ![p] = n] /\ n.pc = "duty" /\ n.candidate = op[p].candidate
    BY <1>1, <1>7, OpIsFunction, Typed DEF Fields
  <2> HIDE DEF n
  <2>2. MovesTo(p, n) /\ op'[p] = n
    BY <2>1, PlainMove DEF MovesTo
  <2> QED BY <1>1, <1>3, <1>5, <1>7, <2>1, <2>2
<1> QED BY <1>2, <1>6, <1>7

LEMMA ReadActiveMoves ==
  ASSUME TInv, NEW p \in Procs, ReadActive(p)
  PROVE  /\ MovesTo(p, op'[p]) /\ ReadOnly
         /\ \/ op'[p].pc = "idle"
            \/ /\ op'[p].pc = "assembled?" /\ op'[p].candidate = active
               /\ op'[p].settled = (active \in captured /\ ~Capturing(active))
<1> DEFINE settled == active \in captured /\ ~Capturing(active)
           n == [op[p] EXCEPT !.pc = "assembled?", !.candidate = active, !.settled = settled]
<1>1. ReadOnly
  BY DEF ReadActive, ReadOnly, tables
<1>2. CASE Return(p)
  BY <1>1, <1>2, IdleMove
<1>3. CASE ~Return(p)
  <2>1. op' = [op EXCEPT ![p].pc = "assembled?", ![p].candidate = active,
                         ![p].settled = settled]
    BY <1>3 DEF ReadActive
  <2> HIDE DEF settled
  <2>2. /\ op' = [op EXCEPT ![p] = n] /\ n.pc = "assembled?" /\ n.candidate = active
        /\ n.settled = settled
    BY <2>1, OpIsFunction, Typed DEF Fields
  <2> HIDE DEF n
  <2>3. MovesTo(p, n) /\ op'[p] = n
    BY <2>2, PlainMove DEF MovesTo
  <2> QED BY <1>1, <2>2, <2>3 DEF settled
<1> QED BY <1>2, <1>3

LEMMA LookForSnapshotMoves ==
  ASSUME TInv, NEW p \in Procs, LookForSnapshot(p)
  PROVE  /\ MovesTo(p, op'[p]) /\ ReadOnly /\ op[p].pc = "assembled?"
         /\ op'[p].pc \in {"query", "gates"} /\ op'[p].candidate = op[p].candidate
         /\ op'[p].settled = op[p].settled
<1> DEFINE pc == IF \E i \in DOMAIN releases : releases[i].source = op[p].candidate
                 THEN "query" ELSE "gates"
<1>1. ReadOnly /\ op[p].pc = "assembled?" /\ Goto(p, pc)
  BY DEF LookForSnapshot, ReadOnly, tables, At
<1>2. pc \in {"query", "gates"}
  OBVIOUS
<1> HIDE DEF pc
<1> QED BY <1>1, <1>2, GotoMoves

LEMMA ReadGatesMoves ==
  ASSUME TInv, NEW p \in Procs, ReadGates(p)
  PROVE  /\ MovesTo(p, op'[p]) /\ ReadOnly /\ op[p].pc = "gates" /\ op'[p].pc = "duties"
         /\ op'[p].candidate = op[p].candidate /\ op'[p].settled = op[p].settled
         /\ op'[p].gates = Own(op[p].candidate)
<1> DEFINE own == {g.id : g \in {h \in gates : h.candidate = op[p].candidate}}
           n == [op[p] EXCEPT !.pc = "duties", !.gates = own]
<1>1. /\ ReadOnly /\ op[p].pc = "gates"
      /\ op' = [op EXCEPT ![p].pc = "duties", ![p].gates = own]
  BY DEF ReadGates, ReadOnly, tables, At
<1>2. own = Own(op[p].candidate)
  BY DEF Own
<1> HIDE DEF own
<1>3. /\ op' = [op EXCEPT ![p] = n] /\ n.pc = "duties" /\ n.candidate = op[p].candidate
      /\ n.settled = op[p].settled /\ n.gates = own
  BY <1>1, OpIsFunction, Typed DEF Fields
<1> HIDE DEF n
<1>4. MovesTo(p, n) /\ op'[p] = n
  BY <1>3, PlainMove DEF MovesTo
<1> QED BY <1>1, <1>2, <1>3, <1>4

LEMMA ReadDutiesMoves ==
  ASSUME TInv, NEW p \in Procs, ReadDuties(p)
  PROVE  /\ MovesTo(p, op'[p]) /\ ReadOnly /\ op[p].pc = "duties"
         /\ op'[p].pc = "assemble"
         /\ op'[p].candidate = op[p].candidate /\ op'[p].settled = op[p].settled
         /\ op'[p].gates = op[p].gates
         /\ op'[p].duties = {[id |-> o.id, authority |-> Authority[o.requirement]] :
                               o \in DutiesOf(op[p].candidate)}
<1> DEFINE duties == {[id |-> o.id, authority |-> Authority[o.requirement]] :
                        o \in DutiesOf(op[p].candidate)}
           n == [op[p] EXCEPT !.pc = "assemble", !.duties = duties]
<1>1. /\ ReadOnly /\ op[p].pc = "duties"
      /\ op' = [op EXCEPT ![p].pc = "assemble", ![p].duties = duties]
  BY DEF ReadDuties, ReadOnly, tables, At
<1> HIDE DEF duties
<1>2. /\ op' = [op EXCEPT ![p] = n] /\ n.pc = "assemble" /\ n.candidate = op[p].candidate
      /\ n.settled = op[p].settled /\ n.gates = op[p].gates /\ n.duties = duties
  BY <1>1, OpIsFunction, Typed DEF Fields
<1> HIDE DEF n
<1>3. MovesTo(p, n) /\ op'[p] = n
  BY <1>2, PlainMove DEF MovesTo
<1> QED BY <1>1, <1>2, <1>3 DEF duties

LEMMA PutSnapshotMoves ==
  ASSUME TInv, NEW p \in Procs, PutSnapshot(p)
  PROVE  /\ MovesTo(p, op'[p]) /\ op[p].pc = "assemble" /\ op'[p].pc = "query"
         /\ UNCHANGED <<gates, checks, obligations, operations, captured>>
<1>1. op[p].pc = "assemble" /\ Goto(p, "query")
  BY DEF PutSnapshot, At
<1>2. UNCHANGED <<gates, checks, obligations, operations, captured>>
  BY DEF PutSnapshot
<1> QED BY <1>1, <1>2, GotoMoves

-----------------------------------------------------------------------------
(* Decisions: who writes over one has been overtaken by it.                 *)

LEMMA InformedKept ==
  ASSUME NEW q \in Procs, Informed(q), Alike(op'[q], op[q]),
         \A o \in Range(obligations') :
           o.status = "ExceptionApproved" /\ op[q].pc = "record" =>
             o \in Range(obligations) \/ <<"obligation", o.id>> \in op'[q].since,
         \A o \in operations' :
           is_terminal(o.authorization) /\ op[q].pc = "abandon" =>
             \/ \E x \in operations : x.id = o.id /\ x.authorization = o.authorization
             \/ <<"operation", o.id>> \in op'[q].since
  PROVE  Informed(q)'
<1>1. op'[q].pc = op[q].pc /\ op'[q].row = op[q].row /\ op[q].since \subseteq op'[q].since
  BY DEF Alike
<1>2. ASSUME op[q].pc = "record", NEW o \in Range(obligations'), NEW r \in op[q].row,
             o.id = r.id, o.status = "ExceptionApproved"
      PROVE  <<"obligation", o.id>> \in op'[q].since
  BY <1>1, <1>2 DEF Informed, At
<1>3. ASSUME op[q].pc = "abandon", NEW o \in operations', NEW r \in op[q].row,
             is_terminal(o.authorization)
      PROVE  <<"operation", o.id>> \in op'[q].since \/ r.authorization = o.authorization
  BY <1>1, <1>3 DEF Informed, At
<1> QED BY <1>1, <1>2, <1>3 DEF Informed, At

(* Nobody writes. *)
LEMMA ReadOvertaken ==
  ASSUME Overtaken, NEW p \in Procs, MovesTo(p, op'[p]), obligations' = obligations,
         operations' = operations, Informed(p)'
  PROVE  Overtaken'
<1>1. ASSUME NEW q \in Procs \ {p}
      PROVE  Informed(q)'
  BY InformedKept DEF Overtaken, MovesTo
<1> QED BY <1>1 DEF Overtaken

LEMMA NotAbout ==
  ASSUME NEW p \in Procs, op'[p].pc \notin {"record", "abandon"}
  PROVE  Informed(p)'
BY DEF Informed, At

(* One row is written, and everybody about to write notices. *)
LEMMA WriteOvertaken ==
  ASSUME TInv, Overtaken, NEW p \in Procs, NEW r \in Rows,
         NEW x \in Range(obligations), Same(x, r), Rests(r), Write(r),
         operations' = operations, NEW n, n.pc \notin {"record", "abandon"},
         MovesTo(p, n),
         \A q \in Procs \ {p} : Writing(q) =>
           op'[q].since = op[q].since \cup {<<"obligation", r.id>>}
  PROVE  Overtaken'
<1>1. \A o \in Range(obligations') : o = r \/ o \in Range(obligations)
  BY Rewriting
<1>2. /\ op'[p] = n /\ \A q \in Procs \ {p} : Alike(op'[q], op[q])
      /\ \A q \in Procs \ {p} : Writing(q) =>
           <<"obligation", r.id>> \in op'[q].since
  BY DEF MovesTo
<1>3. ASSUME NEW q \in Procs \ {p}
      PROVE  Informed(q)'
  BY <1>1, <1>2, InformedKept DEF Overtaken, Writing
<1>4. Informed(p)'
  BY <1>2, NotAbout
<1> QED BY <1>3, <1>4 DEF Overtaken

LEMMA RecordOvertaken ==
  ASSUME TInv, Overtaken, NEW p \in Procs, RecordOutcome(p)
  PROVE  Overtaken'
<1>1. PICK r \in op[p].row :
        Write(r) /\ op' = [Noticed("obligation", r.id) EXCEPT ![p] = Idle]
  BY DEF RecordOutcome
<1>2. PICK x \in Range(obligations) : r \in Rows /\ Rests(r) /\ Same(x, r)
  BY Typed DEF Held, Pending, RecordOutcome, At
<1>3. operations' = operations
  BY DEF RecordOutcome
<1>4. /\ MovesTo(p, Idle)
      /\ \A q \in Procs \ {p} : Writing(q) =>
           op'[q].since = op[q].since \cup {<<"obligation", r.id>>}
  BY <1>1, NoticedMove
<1> QED BY <1>1, <1>2, <1>3, <1>4, IdleTyped, WriteOvertaken

LEMMA VerdictOvertaken ==
  ASSUME TInv, Overtaken, NEW p \in Procs, PutVerdict(p)
  PROVE  Overtaken'
<1> DEFINE n == NextItem(p, "judge")
<1>1. PICK r \in op[p].row :
        Write(r) /\ op' = [Noticed("obligation", r.id) EXCEPT ![p] = n]
  BY DEF PutVerdict
<1>2. PICK x \in Range(obligations) : r \in Rows /\ Rests(r) /\ Same(x, r)
  BY Typed DEF Held, Pending, PutVerdict, At
<1>3. operations' = operations
  BY DEF PutVerdict
<1>4. n.pc \notin {"record", "abandon"}
  BY TurnTaken, IdleTyped
<1>5. /\ MovesTo(p, n)
      /\ \A q \in Procs \ {p} : Writing(q) =>
           op'[q].since = op[q].since \cup {<<"obligation", r.id>>}
  BY <1>1, NoticedMove
<1> HIDE DEF n
<1> QED BY <1>1, <1>2, <1>3, <1>4, <1>5, WriteOvertaken

LEMMA ExceptionOvertaken ==
  ASSUME TInv, Overtaken, NEW i \in DOMAIN obligations, ApproveException(i)
  PROVE  Overtaken'
<1> DEFINE r == [obligations[i] EXCEPT !.status = "ExceptionApproved", !.judged = FALSE]
<1>1. r \in Rows /\ Same(obligations[i], r) /\ Rests(r) /\ Write(r)
  BY ExceptionWrites
<1>2. obligations[i] \in Range(obligations) /\ r.id = obligations[i].id
  BY <1>1, Rowed DEF Same
<1> HIDE DEF r
<1>3. \A o \in Range(obligations') : o = r \/ o \in Range(obligations)
  BY <1>1, <1>2, Rewriting
<1>4. op' = Noticed("obligation", r.id) /\ operations' = operations
  BY <1>2 DEF ApproveException
<1>5. /\ \A q \in Procs : Alike(op'[q], op[q])
      /\ \A q \in Procs : Writing(q) => <<"obligation", r.id>> \in op'[q].since
  <2>1. /\ \A q \in Procs : Alike(op'[q], op[q])
        /\ \A q \in Procs : Writing(q) =>
             op'[q].since = op[q].since \cup {<<"obligation", r.id>>}
    BY <1>4, NoticedAlike
  <2> QED BY <2>1
<1>6. ASSUME NEW q \in Procs
      PROVE  Informed(q)'
  BY <1>3, <1>4, <1>5, InformedKept DEF Overtaken, Writing
<1> QED BY <1>6 DEF Overtaken

(* What is derived anew is no exception. *)
LEMMA StoreOvertaken ==
  ASSUME TInv, Overtaken, NEW p \in Procs, StoreObligation(p)
  PROVE  Overtaken'
<1>1. /\ MovesTo(p, op'[p]) /\ op'[p].pc \in {"idle", "duty"} /\ operations' = operations
  BY StoreObligationMoves
<1>2. PICK r \in Rows : /\ r.status # "ExceptionApproved"
                        /\ Range(obligations') = Range(obligations) \cup {r}
  BY StoreObligationMoves
<1>3. ASSUME NEW q \in Procs \ {p}
      PROVE  Informed(q)'
  BY <1>1, <1>2, InformedKept DEF Overtaken, MovesTo
<1>4. Informed(p)'
  BY <1>1, NotAbout
<1> QED BY <1>3, <1>4 DEF Overtaken

LEMMA AbandonOvertaken ==
  ASSUME TInv, Overtaken, NEW p \in Procs, Abandon(p)
  PROVE  Overtaken'
<1>1. NextItem(p, "inspect") = Idle /\ Turn(p) = 1
  BY LastTurn DEF Abandon, At
<1>2. /\ op' = [Noticed("operation", 1) EXCEPT ![p] = Idle]
      /\ obligations' = obligations
  BY <1>1 DEF Abandon, others
<1>3. /\ op'[p] = Idle /\ \A q \in Procs \ {p} : Alike(op'[q], op[q])
      /\ \A q \in Procs \ {p} : Writing(q) => <<"operation", 1>> \in op'[q].since
  <2>1. /\ MovesTo(p, Idle)
        /\ \A q \in Procs \ {p} : Writing(q) =>
             op'[q].since = op[q].since \cup {<<"operation", 1>>}
    BY <1>2, NoticedMove
  <2> QED BY <2>1 DEF MovesTo
<1>4. \A o \in operations' : o.id = 1
  <2>1. TInv'
    BY AbandonSafe
  <2>2. operations' = {} \/ \E o \in operations' : operations' = {o} /\ o.id = 1
    BY <2>1 DEF TInv, TablesTyped, Operations
  <2> QED BY <2>2
<1>5. ASSUME NEW q \in Procs \ {p}
      PROVE  Informed(q)'
  BY <1>2, <1>3, <1>4, InformedKept DEF Overtaken, Writing
<1>6. Informed(p)'
  BY <1>3, IdleTyped, NotAbout
<1> QED BY <1>5, <1>6 DEF Overtaken

(* The service moves an operation, and everybody about to write notices. *)
LEMMA PerformOvertaken ==
  ASSUME TInv, Overtaken, NEW o \in operations, NEW s \in AuthorizationStates,
         Perform(o, s)
  PROVE  Overtaken'
<1>1. o \in Operations /\ operations = {o} /\ o.id = 1
  BY OperationTyped
<1>2. /\ operations' = {[o EXCEPT !.authorization = s]} /\ op' = Noticed("operation", 1)
      /\ obligations' = obligations
  BY <1>1 DEF Perform, others
<1>3. \A n \in operations' : n.id = 1
  BY <1>1, <1>2 DEF Operations
<1>4. /\ \A q \in Procs : Alike(op'[q], op[q])
      /\ \A q \in Procs : Writing(q) => <<"operation", 1>> \in op'[q].since
  <2>1. /\ \A q \in Procs : Alike(op'[q], op[q])
        /\ \A q \in Procs : Writing(q) =>
             op'[q].since = op[q].since \cup {<<"operation", 1>>}
    BY <1>2, NoticedAlike
  <2> QED BY <2>1
<1>5. ASSUME NEW q \in Procs
      PROVE  Informed(q)'
  BY <1>2, <1>3, <1>4, InformedKept DEF Overtaken, Writing
<1> QED BY <1>5 DEF Overtaken

LEMMA AgeOvertaken ==
  ASSUME TInv, Overtaken, NEW o \in operations, Age(o)
  PROVE  Overtaken'
<1> DEFINE n == [o EXCEPT !.age = @ + 1]
<1>1. n.id = o.id /\ n.authorization = o.authorization
  BY OperationTyped DEF Operations
<1>2. operations' = {n} /\ op' = op /\ obligations' = obligations
  BY DEF Age, others
<1> HIDE DEF n
<1>3. \A q \in Procs : Alike(op'[q], op[q])
  BY <1>2, StillAlike
<1>4. ASSUME NEW q \in Procs
      PROVE  Informed(q)'
  BY <1>1, <1>2, <1>3, InformedKept DEF Overtaken
<1> QED BY <1>4 DEF Overtaken

(* What is proposed has not ended. *)
LEMMA ProposeOvertaken ==
  ASSUME TInv, Overtaken, Propose
  PROVE  Overtaken'
<1> DEFINE n == [id |-> 1, candidate |-> active, authorization |-> "Proposed", age |-> 0]
<1>1. ~is_terminal(n.authorization)
  BY DEF is_terminal
<1>2. operations' = {n} /\ op' = op /\ obligations' = obligations
  BY DEF Propose, others
<1> HIDE DEF n
<1>3. \A q \in Procs : Alike(op'[q], op[q])
  BY <1>2, StillAlike
<1>4. ASSUME NEW q \in Procs
      PROVE  Informed(q)'
  BY <1>1, <1>2, <1>3, InformedKept DEF Overtaken
<1> QED BY <1>4 DEF Overtaken

(* What an action that writes none of these tables does. *)
LEMMA ReaderOvertaken ==
  ASSUME TInv, Overtaken, NEW p \in Procs, MovesTo(p, op'[p]), obligations' = obligations,
         operations' = operations, op'[p].pc \notin {"record", "abandon"}
  PROVE  Overtaken'
BY ReadOvertaken, NotAbout

LEMMA MatchOvertaken ==
  ASSUME TInv, Overtaken, NEW p \in Procs, MatchOutcome(p)
  PROVE  Overtaken'
<1>1. /\ MovesTo(p, op'[p]) /\ obligations' = obligations /\ operations' = operations
      /\ op'[p].pc \in {"idle", "record"}
  BY MatchOutcomeMoves DEF ReadOnly
<1>2. CASE op'[p].pc = "idle"
  BY <1>1, <1>2, ReaderOvertaken
<1>3. CASE op'[p].pc = "record"
  <2> DEFINE o == RowOf(op[p].found)
  <2>1. /\ o \in Range(obligations) /\ o.status # "ExceptionApproved"
        /\ \A r \in op'[p].row : r.id = o.id
    BY <1>3, MatchOutcomeMoves
  <2> HIDE DEF o
  <2>2. ASSUME NEW x \in Range(obligations), NEW r \in op'[p].row, x.id = r.id
        PROVE  x.status # "ExceptionApproved"
    BY <2>1, <2>2, OneRow
  <2>3. Informed(p)'
    BY <1>1, <1>3, <2>2 DEF Informed, At
  <2> QED BY <1>1, <2>3, ReadOvertaken
<1> QED BY <1>1, <1>2, <1>3

LEMMA InspectOvertaken ==
  ASSUME TInv, Overtaken, NEW p \in Procs, Inspect(p)
  PROVE  Overtaken'
<1>1. /\ MovesTo(p, op'[p]) /\ obligations' = obligations /\ operations' = operations
      /\ op'[p].pc \in {"idle", "abandon"}
      /\ op'[p].pc = "abandon" =>
           \A o \in operations, r \in op'[p].row :
             is_terminal(o.authorization) => r.authorization = o.authorization
  BY InspectMoves DEF ReadOnly
<1>2. Informed(p)'
  BY <1>1 DEF Informed, At
<1> QED BY <1>1, <1>2, ReadOvertaken

LEMMA CaptureOvertaken ==
  ASSUME TInv, Overtaken, NEW p \in Procs,
         \/ LookForChecks(p) \/ StoreGate(p) \/ StoreCheck(p) \/ LookForObligations(p)
         \/ ReadActive(p) \/ LookForSnapshot(p) \/ ReadGates(p) \/ ReadDuties(p)
         \/ PutSnapshot(p)
  PROVE  Overtaken'
<1>1. CASE LookForChecks(p) \/ StoreGate(p) \/ StoreCheck(p) \/ LookForObligations(p)
  <2>1. /\ MovesTo(p, op'[p]) /\ obligations' = obligations /\ operations' = operations
        /\ op'[p].pc \notin {"record", "abandon"}
    BY <1>1, LookForChecksMoves, StoreGateMoves, StoreCheckMoves, LookForObligationsMoves
       DEF ReadOnly
  <2> QED BY <2>1, ReaderOvertaken
<1>2. CASE \/ ReadActive(p) \/ LookForSnapshot(p) \/ ReadGates(p) \/ ReadDuties(p)
           \/ PutSnapshot(p)
  <2>1. /\ MovesTo(p, op'[p]) /\ obligations' = obligations /\ operations' = operations
        /\ op'[p].pc \notin {"record", "abandon"}
    BY <1>2, ReadActiveMoves, LookForSnapshotMoves, ReadGatesMoves, ReadDutiesMoves,
       PutSnapshotMoves DEF ReadOnly
  <2> QED BY <2>1, ReaderOvertaken
<1> QED BY <1>1, <1>2

LEMMA ReadsOvertaken ==
  ASSUME TInv, Overtaken, NEW p \in Procs,
         \/ Receive(p) \/ Stop(p) \/ ActivateCandidate(p) \/ QueryActive(p)
         \/ QuerySnapshot(p) \/ ReadOutcome(p) \/ ListVerdicts(p) \/ Judge(p)
         \/ ListExecuting(p)
  PROVE  Overtaken'
<1>1. CASE Receive(p) \/ Stop(p) \/ ActivateCandidate(p) \/ QueryActive(p) \/ QuerySnapshot(p)
  <2>1. /\ MovesTo(p, op'[p]) /\ obligations' = obligations /\ operations' = operations
        /\ op'[p].pc \notin {"record", "abandon"}
    BY <1>1, ReceiveMoves, StopMoves, ActivateMoves, QueryActiveMoves, QuerySnapshotMoves
       DEF ReadOnly
  <2> QED BY <2>1, ReaderOvertaken
<1>2. CASE ReadOutcome(p) \/ ListVerdicts(p) \/ Judge(p) \/ ListExecuting(p)
  <2>1. /\ MovesTo(p, op'[p]) /\ obligations' = obligations /\ operations' = operations
        /\ op'[p].pc \notin {"record", "abandon"}
    BY <1>2, ReadOutcomeMoves, ListVerdictsMoves, JudgeMoves, ListExecutingMoves DEF ReadOnly
  <2> QED BY <2>1, ReaderOvertaken
<1> QED BY <1>1, <1>2

LEMMA OInit ==
  ASSUME Init
  PROVE  Overtaken
<1>1. \A p \in Procs : op[p].pc = "idle"
  BY DEF Init, Idle
<1> QED BY <1>1 DEF Overtaken, Informed, At

LEMMA OStep ==
  ASSUME TInv, Overtaken, [Next]_vars
  PROVE  Overtaken'
<1>1. ASSUME NEW p \in Procs, Receive(p) \/ Work(p) \/ Stop(p)
      PROVE  Overtaken'
  BY <1>1, CaptureOvertaken, ReadsOvertaken, StoreOvertaken, MatchOvertaken,
     RecordOvertaken, VerdictOvertaken, InspectOvertaken, AbandonOvertaken DEF Work
<1>2. ASSUME NEW i \in DOMAIN obligations, ApproveException(i)
      PROVE  Overtaken'
  BY <1>2, ExceptionOvertaken
<1>3. CASE Propose
  BY <1>3, ProposeOvertaken
<1>4. ASSUME NEW o \in operations,
             Age(o) \/ \E s \in AuthorizationStates : Perform(o, s)
      PROVE  Overtaken'
  BY <1>4, AgeOvertaken, PerformOvertaken
<1>5. CASE UNCHANGED vars
  <2>1. obligations' = obligations /\ operations' = operations /\ op' = op
    BY <1>5 DEF vars, tables
  <2>2. \A q \in Procs : Alike(op'[q], op[q])
    BY <2>1, StillAlike
  <2>3. ASSUME NEW q \in Procs
        PROVE  Informed(q)'
    BY <2>1, <2>2, InformedKept DEF Overtaken
  <2> QED BY <2>3 DEF Overtaken
<1> HIDE DEF TInv, Overtaken
<1> QED BY <1>1, <1>2, <1>3, <1>4, <1>5 DEF Next

-----------------------------------------------------------------------------
(* What a step of one who writes replaces.                                  *)

LEMMA RecordStands ==
  ASSUME TInv, Overtaken, NEW p \in Procs, RecordOutcome(p),
         NEW o \in Range(obligations), o.status = "ExceptionApproved"
  PROVE  o \in Range(obligations') \/ <<"obligation", o.id>> \in op[p].since
<1>1. PICK r \in op[p].row : Write(r)
  BY DEF RecordOutcome
<1>2. PICK x \in Range(obligations) : r \in Rows /\ Rests(r) /\ Same(x, r)
  BY Typed DEF Held, Pending, RecordOutcome, At
<1>3. CASE o.id = r.id
  BY <1>3 DEF Overtaken, Informed, RecordOutcome
<1>4. CASE o.id # r.id
  BY <1>1, <1>2, <1>4, Rewriting
<1> QED BY <1>3, <1>4

LEMMA AbandonStands ==
  ASSUME TInv, Overtaken, NEW p \in Procs, Abandon(p),
         NEW o \in operations, is_terminal(o.authorization)
  PROVE  o \in operations' \/ <<"operation", o.id>> \in op[p].since
<1>1. PICK r \in op[p].row : op[p].row = {r}
  BY Typed DEF Held, Abandon, At
<1>2. o \in Operations /\ operations = {o}
  BY OperationTyped
<1>3. operations' = {[o EXCEPT !.authorization = r.authorization]}
  BY <1>1, <1>2 DEF Abandon
<1>4. \/ <<"operation", o.id>> \in op[p].since
      \/ r.authorization = o.authorization
  BY DEF Overtaken, Informed, Abandon
<1>5. ASSUME r.authorization = o.authorization
      PROVE  [o EXCEPT !.authorization = r.authorization] = o
  BY <1>2, <1>5 DEF Operations
<1> QED BY <1>3, <1>4, <1>5

-----------------------------------------------------------------------------
(* The theorems about the rows and who writes them.                         *)

LEMMA TypesMeant ==
  ASSUME TInv
  PROVE  TypeOK
<1>1. TablesTyped
  BY DEF TInv
<1>2. \A o \in Range(obligations) :
        /\ o.id \in 1..minted /\ o.candidate \in Fingerprints
        /\ o.requirement \in Range(Templates) /\ o.status \in Statuses
        /\ o.judged \in BOOLEAN
  BY Rowed DEF Rows, Ids
<1>3. \A i, j \in DOMAIN obligations : i < j => obligations[i].id < obligations[j].id
  BY Rowed DEF Sorted
<1>4. Cardinality(operations) <= 1
  <2>1. CASE operations = {}
    BY <2>1, FS_EmptySet
  <2>2. CASE operations # {}
    <3>1. PICK o \in operations : operations = {o}
      BY <1>1, <2>2 DEF TablesTyped
    <3>2. Cardinality({o}) = 1
      BY FS_Singleton
    <3> QED BY <3>1, <3>2
  <2> QED BY <2>1, <2>2
<1>5. \A o \in operations : o.authorization \in AuthorizationStates /\ o.age \in 0..MaxAge
  BY OperationTyped DEF Operations
<1>6. \A p \in Procs : op[p].candidate \in Candidates
  BY Typed
<1>7. /\ active \in Candidates
      /\ gates \subseteq [id : 1..minted, candidate : Fingerprints]
      /\ checks \subseteq {g.id : g \in gates}
      /\ \A r \in Range(releases) : r.id \in 1..minted /\ r.source \in Fingerprints
      /\ requests \in 0..MaxRequests /\ failures \in 0..MaxFailures
  BY <1>1 DEF TablesTyped
<1> QED BY <1>2, <1>3, <1>4, <1>5, <1>6, <1>7 DEF TypeOK

LEMMA RowsInvariant == Spec => []TInv
<1>1. Init => TInv
  BY TInit
<1>2. TInv /\ [Next]_vars => TInv'
  BY TStep
<1> QED BY <1>1, <1>2, PTL DEF Spec

(* What the tables hold and what a request holds is what the code declares *)
(* it to be, in every state: the obligations are in the order of their ids *)
(* though captures that overlap store them interleaved, no two are stored  *)
(* under one id, and there is one privileged operation at most.            *)
THEOREM TypeCorrect == Spec => []TypeOK
<1>1. TInv => TypeOK
  BY TypesMeant
<1> QED BY <1>1, RowsInvariant, PTL

(* A verdict stands with the evidence that it rests on, also when another  *)
(* request or the service writes the same row whole in between.            *)
THEOREM VerdictsSound == Spec => []VerdictRestsOnEvidence
<1>1. TInv => VerdictRestsOnEvidence
  BY DEF TInv
<1> QED BY <1>1, RowsInvariant, PTL

(* An approved exception, or the outcome of an operation, is replaced only *)
(* by one who had read the row before it was decided.                      *)
THEOREM DecisionsSound == Spec => DecisionsStand
<1> DEFINE Stands ==
      /\ \A p \in Procs, o \in Range(obligations) :
           RecordOutcome(p) /\ o.status = "ExceptionApproved" =>
             o \in Range(obligations') \/ <<"obligation", o.id>> \in op[p].since
      /\ \A p \in Procs, o \in operations :
           Abandon(p) /\ is_terminal(o.authorization) =>
             o \in operations' \/ <<"operation", o.id>> \in op[p].since
<1>1. Init => Overtaken
  BY OInit
<1>2. TInv /\ Overtaken /\ [Next]_vars => Overtaken'
  BY OStep
<1>3. TInv /\ Overtaken => Stands
  BY RecordStands, AbandonStands
<1>4. TInv /\ Overtaken /\ [Next]_vars => [Stands]_vars
  <2> HIDE DEF Stands
  <2> QED BY <1>3
<1>5. Spec => []Overtaken
  BY <1>1, <1>2, RowsInvariant, PTL DEF Spec
<1>6. Spec => [][Stands]_vars
  <2> HIDE DEF Stands
  <2> QED BY <1>4, <1>5, RowsInvariant, PTL DEF Spec
<1> QED BY <1>6 DEF DecisionsStand

-----------------------------------------------------------------------------
(* What is whole stays whole: nothing that a snapshot names goes away, and  *)
(* where no capture stores anything nothing is added.                       *)

LEMMA SortedApart ==
  ASSUME NEW s \in Seq(Rows), Sorted(s), NEW a \in Range(s), NEW b \in Range(s), a.id = b.id
  PROVE  a = b
<1>1. PICK i \in DOMAIN s, j \in DOMAIN s : a = s[i] /\ b = s[j]
  BY DEF Range
<1>2. i \in Nat /\ j \in Nat /\ a \in Rows /\ b \in Rows
  BY <1>1
<1>3. a.id \in Nat /\ b.id \in Nat
  BY <1>2 DEF Rows
<1>4. ~(i < j) /\ ~(j < i)
  BY <1>1, <1>3 DEF Sorted
<1> QED BY <1>1, <1>2, <1>4

LEMMA OneRowLater ==
  ASSUME TInv', NEW a \in Range(obligations'), NEW b \in Range(obligations'), a.id = b.id
  PROVE  a = b
<1>1. obligations' \in Seq(Rows) /\ Sorted(obligations')
  BY DEF TInv, TablesTyped, Sorted, Rows, Statuses
<1> QED BY <1>1, SortedApart

LEMMA PlannedKept ==
  ASSUME gates \subseteq gates', checks \subseteq checks', NEW c, Planned(c)
  PROVE  Planned(c)'
BY DEF Planned

LEMMA DerivedKept ==
  ASSUME Carried, NEW c, Derived(c)
  PROVE  Derived(c)'
BY DEF Carried, Same, Derived

(* Where every obligation was there before, those of a candidate are. *)
LEMMA SameDuties ==
  ASSUME TInv, TInv', Carried, Ids(obligations)' = Ids(obligations), NEW c
  PROVE  DutyIds(c)' = DutyIds(c)
<1>1. ASSUME NEW o \in Range(obligations'), o.candidate = c
      PROVE  \E x \in Range(obligations) : x.id = o.id /\ x.candidate = c
  <2>1. o.id \in Ids(obligations)
    BY <1>1 DEF Ids
  <2>2. PICK x \in Range(obligations) : x.id = o.id
    BY <2>1 DEF Ids
  <2>3. PICK y \in Range(obligations') : Same(x, y)
    BY DEF Carried
  <2>4. y = o
    BY <2>2, <2>3, OneRowLater DEF Same
  <2> QED BY <1>1, <2>2, <2>3, <2>4 DEF Same
<1>2. ASSUME NEW o \in Range(obligations), o.candidate = c
      PROVE  \E x \in Range(obligations') : x.id = o.id /\ x.candidate = c
  BY <1>2 DEF Carried, Same
<1> QED BY <1>1, <1>2 DEF DutyIds, DutiesOf

(* What a step does to the gates and obligations of c. *)
Lasts(c) ==
  /\ Carried /\ Own(c) \subseteq Own(c)'
  /\ Quiet(c) => Quiet(c)' /\ Own(c)' = Own(c) /\ DutyIds(c)' = DutyIds(c)

LEMMA QuietKept ==
  ASSUME NEW p \in Procs, MovesTo(p, op'[p]), gates \subseteq gates', checks \subseteq checks',
         Carried, NEW c, Quiet(c), ~BusyOn(p, c)'
  PROVE  Quiet(c)'
<1>1. Planned(c)' /\ Derived(c)'
  BY PlannedKept, DerivedKept DEF Quiet
<1>2. ASSUME NEW q \in Procs \ {p}
      PROVE  ~BusyOn(q, c)'
  BY DEF Quiet, BusyOn, MovesTo, Alike
<1> QED BY <1>1, <1>2 DEF Quiet

(* No gate and no obligation is added. *)
LEMMA TablesLast ==
  ASSUME TInv, TInv', NEW p \in Procs, MovesTo(p, op'[p]), gates' = gates,
         checks \subseteq checks', Carried, Ids(obligations)' = Ids(obligations), NEW c,
         BusyOn(p, c)' => ~Quiet(c)
  PROVE  Lasts(c)
<1>1. Own(c)' = Own(c)
  BY DEF Own
<1>2. DutyIds(c)' = DutyIds(c)
  BY SameDuties
<1>3. Quiet(c) => Quiet(c)'
  BY QuietKept
<1> QED BY <1>1, <1>2, <1>3 DEF Lasts

LEMMA NamedKept ==
  ASSUME Carried, NEW d, NEW c, Named(d, c)
  PROVE  Named(d, c)'
BY DEF Named, Carried, Same, DutiesOf

LEMMA DutiesKept ==
  ASSUME Carried, NEW c
  PROVE  DutyIds(c) \subseteq DutyIds(c)'
BY DEF DutyIds, Carried, Same, DutiesOf

LEMMA AssemblingKept ==
  ASSUME NEW q \in Procs, NEW c, Alike(op'[q], op[q]), Assembling(q, c), Lasts(c)
  PROVE  Assembling(q, c)'
<1>1. /\ op'[q].pc = op[q].pc /\ op'[q].settled = op[q].settled
      /\ op'[q].gates = op[q].gates /\ op'[q].duties = op[q].duties
  BY DEF Alike
<1>2. op[q].pc \in {"assembled?", "gates", "duties", "assemble"} /\ op[q].settled =>
        Quiet(c) /\ Quiet(c)' /\ Own(c)' = Own(c) /\ DutyIds(c)' = DutyIds(c)
  BY DEF Assembling, Lasts
<1>3. op[q].pc \in {"duties", "assemble"} =>
        op[q].gates \subseteq Own(c)' /\ (op[q].settled => op[q].gates = Own(c)')
  BY <1>2 DEF Assembling, Lasts
<1>4. op[q].pc = "assemble" =>
        /\ \A d \in op[q].duties : Named(d, c)'
        /\ op[q].settled => {d.id : d \in op[q].duties} = DutyIds(c)'
  BY <1>2, NamedKept DEF Assembling, Lasts
<1> QED BY <1>1, <1>2, <1>3, <1>4 DEF Assembling

LEMMA WholeKept ==
  ASSUME TInv, TInv', NEW r, NEW c, Whole(r, c), Lasts(c)
  PROVE  Whole(r, c)'
<1>1. /\ r.settled => Quiet(c)' /\ r.gate_ids = Own(c)' /\ r.obligation_ids = DutyIds(c)'
      /\ r.gate_ids \subseteq Own(c)'
  BY DEF Whole, Lasts
<1>2. r.obligation_ids \subseteq DutyIds(c)'
  BY DutiesKept DEF Whole, Lasts
<1>3. ASSUME NEW a
      PROVE  (\E o \in Range(obligations) : o.candidate = c /\ o.id \in r.obligation_ids
                                              /\ a = Authority[o.requirement])
             <=> \E o \in Range(obligations') : o.candidate = c /\ o.id \in r.obligation_ids
                                              /\ a = Authority[o.requirement]
  <2>1. ASSUME NEW o \in Range(obligations)
        PROVE  \E y \in Range(obligations') : Same(o, y)
    BY DEF Lasts, Carried
  <2>2. ASSUME NEW o \in Range(obligations'), o.id \in r.obligation_ids
        PROVE  \E x \in Range(obligations) : Same(x, o)
    <3>1. PICK x \in Range(obligations) : x.id = o.id /\ x.candidate = c
      BY <2>2 DEF Whole, DutyIds, DutiesOf
    <3>2. PICK y \in Range(obligations') : Same(x, y)
      BY <2>1
    <3>3. y = o
      BY <3>1, <3>2, OneRowLater DEF Same
    <3> QED BY <3>2, <3>3
  <2> QED BY <2>1, <2>2 DEF Same
<1>4. r.authorities = {Authority[o.requirement] :
                        o \in {d \in DutiesOf(c)' : d.id \in r.obligation_ids}}
  <2>1. r.authorities = {Authority[o.requirement] :
                        o \in {d \in DutiesOf(c) : d.id \in r.obligation_ids}}
    BY DEF Whole
  <2> DEFINE now == {o \in Range(obligations) : o.candidate = c}
             next == {o \in Range(obligations') : o.candidate = c}
  <2>2. DutiesOf(c) = now /\ DutiesOf(c)' = next
    BY DEF DutiesOf
  <2>3. ASSUME NEW a
        PROVE  (\E o \in now : o.id \in r.obligation_ids /\ a = Authority[o.requirement])
               <=> \E o \in next : o.id \in r.obligation_ids /\ a = Authority[o.requirement]
    BY <1>3
  <2> HIDE DEF now, next
  <2> QED BY <2>1, <2>2, <2>3
<1> QED BY <1>1, <1>2, <1>4 DEF Whole

-----------------------------------------------------------------------------
(* Snapshots.                                                               *)

LEMMA CandidateLater ==
  ASSUME NEW p \in Procs, NEW q \in Procs \ {p}, MovesTo(p, op'[p])
  PROVE  op'[q].candidate = op[q].candidate /\ op'[q].pc = op[q].pc /\ Alike(op'[q], op[q])
BY DEF MovesTo, Alike

LEMMA EndsKept ==
  ASSUME CapturesEnd, NEW p \in Procs, MovesTo(p, op'[p]),
         gates \subseteq gates', checks \subseteq checks', Carried,
         \A c \in captured' : c \in captured \/ (Planned(c)' /\ Derived(c)'),
         \A c \in Candidates : op'[p].candidate = c /\ op'[p].pc \in {"derived?", "duty"} =>
           Planned(c)'
  PROVE  CapturesEnd'
<1>1. ASSUME NEW c \in captured'
      PROVE  Planned(c)' /\ Derived(c)'
  BY PlannedKept, DerivedKept DEF CapturesEnd
<1>2. ASSUME NEW q \in Procs \ {p}, NEW c \in Candidates, op'[q].candidate = c,
             op'[q].pc \in {"derived?", "duty"}
      PROVE  Planned(c)'
  <2>1. op[q].candidate = c /\ op[q].pc \in {"derived?", "duty"}
    BY <1>2, CandidateLater
  <2> QED BY <2>1, PlannedKept DEF CapturesEnd
<1>3. ASSUME NEW c \in Candidates, op'[p].candidate = c, op'[p].pc \in {"derived?", "duty"}
      PROVE  Planned(c)'
  BY <1>3
<1> QED BY <1>1, <1>2, <1>3 DEF CapturesEnd, Candidates

LEMMA SStepKeeps ==
  ASSUME TInv, TInv', SInv, NEW p \in Procs, MovesTo(p, op'[p]), \A c : Lasts(c), CapturesEnd',
         \A c \in Candidates : op'[p].candidate = c => Assembling(p, c)',
         \A r \in Range(releases'), c \in Candidates :
           r.source = c => r \in Range(releases) \/ Whole(r, c)'
  PROVE  SInv'
<1>1. ASSUME NEW q \in Procs \ {p}, NEW c \in Candidates, op'[q].candidate = c
      PROVE  Assembling(q, c)'
  <2>1. op[q].candidate = c /\ Alike(op'[q], op[q])
    BY <1>1, CandidateLater
  <2>2. Assembling(q, c)
    BY <2>1 DEF SInv
  <2> QED BY <2>1, <2>2, AssemblingKept
<1>2. ASSUME NEW r \in Range(releases'), NEW c \in Candidates, r.source = c
      PROVE  Whole(r, c)'
  <2>1. CASE r \in Range(releases)
    <3>1. Whole(r, c)
      BY <1>2, <2>1 DEF SInv
    <3> QED BY <3>1, WholeKept
  <2>2. CASE r \notin Range(releases)
    BY <1>2, <2>2
  <2> QED BY <2>1, <2>2
<1>3. \A q \in Procs, c \in Candidates : op'[q].candidate = c => Assembling(q, c)'
  BY <1>1
<1> QED BY <1>2, <1>3 DEF SInv, Candidates

LEMMA AssemblesNothing ==
  ASSUME NEW p \in Procs, NEW c,
         op'[p].pc \notin {"assembled?", "gates", "duties", "assemble"}
  PROVE  Assembling(p, c)'
BY DEF Assembling

LEMMA NotBusy ==
  ASSUME NEW p \in Procs, NEW c, op'[p].pc \notin {"gate", "check", "duty"}
  PROVE  ~BusyOn(p, c)'
BY DEF BusyOn

(* A request that stores nothing for a capture and reads nothing for a      *)
(* release.                                                                 *)
LEMMA CalmKeeps ==
  ASSUME TInv, TInv', SInv, NEW p \in Procs, MovesTo(p, op'[p]), op'[p].pc \in Calm,
         UNCHANGED <<gates, checks, releases, captured>>, Carried,
         Ids(obligations)' = Ids(obligations)
  PROVE  SInv'
<1>1. op'[p].pc \notin {"gate", "check", "duty", "derived?",
                        "assembled?", "gates", "duties", "assemble"}
  BY DEF Calm
<1>2. \A c : ~BusyOn(p, c)' /\ Assembling(p, c)'
  BY <1>1, AssemblesNothing, NotBusy
<1>3. gates' = gates /\ checks' = checks /\ releases' = releases /\ captured' = captured
  OBVIOUS
<1>4. \A c : Lasts(c)
  BY <1>2, <1>3, TablesLast
<1>5. CapturesEnd'
  BY <1>1, <1>3, EndsKept DEF SInv
<1> QED BY <1>2, <1>3, <1>4, <1>5, SStepKeeps

LEMMA ReadCalm ==
  ASSUME TInv, TInv', SInv, NEW p \in Procs, MovesTo(p, op'[p]), op'[p].pc \in Calm, ReadOnly
  PROVE  SInv'
<1>1. Carried /\ Ids(obligations)' = Ids(obligations)
  BY SameRows DEF ReadOnly
<1> QED BY <1>1, CalmKeeps DEF ReadOnly

LEMMA WriteCalm ==
  ASSUME TInv, TInv', SInv, NEW p \in Procs, MovesTo(p, op'[p]), op'[p].pc \in Calm,
         UNCHANGED <<gates, checks, releases, captured>>,
         NEW r \in op[p].row, Write(r), Pending(op[p])
  PROVE  SInv'
<1>1. PICK x \in Range(obligations) : r \in Rows /\ Rests(r) /\ Same(x, r)
  BY DEF Pending
<1>2. Carried /\ Ids(obligations)' = Ids(obligations)
  BY <1>1, Rewriting
<1> QED BY <1>2, CalmKeeps

(* One who reads for a release, or looks what there is to store. *)
LEMMA ReadingKeeps ==
  ASSUME TInv, TInv', SInv, NEW p \in Procs, MovesTo(p, op'[p]), ReadOnly,
         \A c : BusyOn(p, c)' => ~Quiet(c),
         \A c \in Candidates : op'[p].candidate = c /\ op'[p].pc \in {"derived?", "duty"} =>
           Planned(c),
         \A c \in Candidates : op'[p].candidate = c => Assembling(p, c)'
  PROVE  SInv'
<1>1. /\ gates' = gates /\ checks' = checks /\ releases' = releases /\ captured' = captured
      /\ obligations' = obligations
  BY DEF ReadOnly
<1>2. Carried /\ Ids(obligations)' = Ids(obligations)
  BY <1>1, SameRows
<1>3. \A c : Lasts(c)
  BY <1>1, <1>2, TablesLast
<1>4. CapturesEnd'
  <2>1. \A c : Planned(c) => Planned(c)'
    BY <1>1, PlannedKept
  <2> QED BY <1>1, <1>2, <2>1, EndsKept DEF SInv
<1> QED BY <1>1, <1>3, <1>4, SStepKeeps

LEMMA LookForChecksWhole ==
  ASSUME TInv, TInv', SInv, NEW p \in Procs, LookForChecks(p)
  PROVE  SInv'
<1>1. /\ MovesTo(p, op'[p]) /\ ReadOnly /\ op'[p].candidate = op[p].candidate
      /\ \/ op'[p].pc = "derived?" /\ Planned(op[p].candidate)
         \/ op'[p].pc = "gate" /\ ~Planned(op[p].candidate)
  BY LookForChecksMoves
<1>2. \A c : BusyOn(p, c)' => ~Quiet(c)
  BY <1>1 DEF BusyOn, Quiet
<1>3. \A c : Assembling(p, c)'
  BY <1>1, AssemblesNothing
<1>4. \A c \in Candidates : op'[p].candidate = c /\ op'[p].pc \in {"derived?", "duty"} =>
        Planned(c)
  BY <1>1
<1> QED BY <1>1, <1>2, <1>3, <1>4, ReadingKeeps

LEMMA StoreGateWhole ==
  ASSUME TInv, TInv', SInv, NEW p \in Procs, StoreGate(p)
  PROVE  SInv'
<1>1. /\ MovesTo(p, op'[p]) /\ op[p].pc = "gate" /\ op'[p].pc = "check"
      /\ op'[p].candidate = op[p].candidate
      /\ checks' = checks /\ obligations' = obligations /\ releases' = releases
      /\ captured' = captured
  BY StoreGateMoves
<1>2. PICK g : g.candidate = op[p].candidate /\ gates' = gates \cup {g}
  BY StoreGateMoves
<1>3. Carried /\ Ids(obligations)' = Ids(obligations)
  BY <1>1, SameRows
<1>4. \A c : BusyOn(p, c)' => BusyOn(p, c)
  BY <1>1 DEF BusyOn
<1>5. ASSUME NEW c
      PROVE  Lasts(c)
  <2>1. Own(c) \subseteq Own(c)'
    BY <1>2 DEF Own
  <2>2. Quiet(c) => c # op[p].candidate /\ ~BusyOn(p, c)
    BY <1>1 DEF Quiet, BusyOn
  <2>3. c # op[p].candidate => Own(c)' = Own(c)
    BY <1>2 DEF Own
  <2>4. Quiet(c) => Quiet(c)'
    BY <1>1, <1>2, <1>3, <1>4, <2>2, QuietKept
  <2>5. DutyIds(c)' = DutyIds(c)
    BY <1>3, SameDuties
  <2> QED BY <1>3, <2>1, <2>2, <2>3, <2>4, <2>5 DEF Lasts
<1>6. CapturesEnd'
  BY <1>1, <1>2, <1>3, EndsKept DEF SInv
<1>7. \A c : Assembling(p, c)'
  BY <1>1, AssemblesNothing
<1> QED BY <1>1, <1>5, <1>6, <1>7, SStepKeeps

LEMMA StoreCheckWhole ==
  ASSUME TInv, TInv', SInv, NEW p \in Procs, StoreCheck(p)
  PROVE  SInv'
<1>1. /\ MovesTo(p, op'[p]) /\ op[p].pc = "check" /\ op'[p].pc \in {"gate", "derived?"}
      /\ op'[p].candidate = op[p].candidate /\ checks \subseteq checks'
      /\ gates' = gates /\ obligations' = obligations /\ releases' = releases
      /\ captured' = captured
  BY StoreCheckMoves
<1>2. Carried /\ Ids(obligations)' = Ids(obligations)
  BY <1>1, SameRows
<1>3. \A c : BusyOn(p, c)' => ~Quiet(c)
  BY <1>1 DEF BusyOn, Quiet
<1>4. \A c : Lasts(c)
  BY <1>1, <1>2, <1>3, TablesLast
<1>5. ASSUME NEW c, op'[p].candidate = c
      PROVE  Planned(c)'
  BY <1>1, <1>5, StoreCheckMoves DEF Planned
<1>6. CapturesEnd'
  BY <1>1, <1>2, <1>5, EndsKept DEF SInv
<1>7. \A c : Assembling(p, c)'
  BY <1>1, AssemblesNothing
<1> QED BY <1>1, <1>4, <1>6, <1>7, SStepKeeps

LEMMA LookForObligationsWhole ==
  ASSUME TInv, TInv', SInv, NEW p \in Procs, LookForObligations(p)
  PROVE  SInv'
<1> DEFINE c == op[p].candidate
<1>1. /\ MovesTo(p, op'[p]) /\ op[p].pc = "derived?"
      /\ gates' = gates /\ checks' = checks /\ obligations' = obligations
      /\ releases' = releases
      /\ \/ /\ op'[p].pc = "idle" /\ Derived(c) /\ captured' = captured \cup {c}
         \/ /\ op'[p].pc = "duty" /\ op'[p].candidate = c
            /\ ~Derived(c) /\ captured' = captured
  BY LookForObligationsMoves
<1>2. Carried /\ Ids(obligations)' = Ids(obligations)
  BY <1>1, SameRows
<1>3. Planned(c)
  BY <1>1, Typed DEF SInv, CapturesEnd
<1>4. PICK d : d = c
  OBVIOUS
<1> HIDE DEF c
<1>5. \A e : BusyOn(p, e)' => ~Quiet(e)
  BY <1>1 DEF BusyOn, Quiet
<1>6. \A e : Lasts(e)
  BY <1>1, <1>2, <1>5, TablesLast
<1>7. Planned(d)' /\ (Derived(d) => Derived(d)')
  BY <1>1, <1>2, <1>3, <1>4, PlannedKept, DerivedKept
<1>8. CapturesEnd'
  <2>1. \A e \in captured' : e \in captured \/ (Planned(e)' /\ Derived(e)')
    BY <1>1, <1>4, <1>7
  <2>2. \A e \in Candidates : op'[p].candidate = e /\ op'[p].pc \in {"derived?", "duty"} =>
          Planned(e)'
    BY <1>1, <1>4, <1>7
  <2> QED BY <1>1, <1>2, <2>1, <2>2, EndsKept DEF SInv
<1>9. \A e : Assembling(p, e)'
  BY <1>1, AssemblesNothing
<1> QED BY <1>1, <1>6, <1>8, <1>9, SStepKeeps

LEMMA StoreObligationWhole ==
  ASSUME TInv, TInv', SInv, NEW p \in Procs, StoreObligation(p)
  PROVE  SInv'
<1> DEFINE c == op[p].candidate
<1>1. /\ MovesTo(p, op'[p]) /\ op[p].pc = "duty"
      /\ gates' = gates /\ checks' = checks /\ releases' = releases
      /\ \/ op'[p].pc = "idle" /\ captured' = captured \cup {c}
         \/ op'[p].pc = "duty" /\ op'[p].candidate = c /\ captured' = captured
  BY StoreObligationMoves
<1>2. PICK r \in Rows : /\ r.candidate = c /\ Carried
                        /\ Range(obligations') = Range(obligations) \cup {r}
  BY StoreObligationMoves
<1>3. Planned(c) /\ BusyOn(p, c)
  BY <1>1, Typed DEF SInv, CapturesEnd, BusyOn
<1>4. PICK d : d = c
  OBVIOUS
<1> HIDE DEF c
<1>5. Planned(d)' /\ Derived(d)'
  <2>1. Planned(d)'
    BY <1>1, <1>3, <1>4, PlannedKept
  <2>2. \E o \in Range(obligations') : o.candidate = d
    BY <1>2, <1>4
  <2> QED BY <2>1, <2>2 DEF Derived
<1>6. ASSUME NEW e
      PROVE  Lasts(e)
  <2>1. Own(e)' = Own(e)
    BY <1>1 DEF Own
  <2>2. Quiet(e) => e # c
    BY <1>3 DEF Quiet
  <2>3. e # c => ~BusyOn(p, e)'
    BY <1>1 DEF BusyOn
  <2>4. Quiet(e) => Quiet(e)'
    BY <1>1, <1>2, <2>2, <2>3, QuietKept
  <2>5. e # c => DutyIds(e)' = DutyIds(e)
    BY <1>2 DEF DutyIds, DutiesOf
  <2> QED BY <1>2, <2>1, <2>2, <2>4, <2>5 DEF Lasts
<1>7. CapturesEnd'
  <2>1. \A e \in captured' : e \in captured \/ (Planned(e)' /\ Derived(e)')
    BY <1>1, <1>4, <1>5
  <2>2. \A e \in Candidates : op'[p].candidate = e /\ op'[p].pc \in {"derived?", "duty"} =>
          Planned(e)'
    BY <1>1, <1>4, <1>5
  <2> QED BY <1>1, <1>2, <2>1, <2>2, EndsKept DEF SInv
<1>8. \A e : Assembling(p, e)'
  BY <1>1, AssemblesNothing
<1> QED BY <1>1, <1>6, <1>7, <1>8, SStepKeeps

LEMMA ReadActiveWhole ==
  ASSUME TInv, TInv', SInv, NEW p \in Procs, ReadActive(p)
  PROVE  SInv'
<1>1. MovesTo(p, op'[p]) /\ ReadOnly /\ op'[p].pc \in {"idle", "assembled?"}
  BY ReadActiveMoves
<1>2. CASE op'[p].pc = "idle"
  BY <1>1, <1>2, ReadCalm DEF Calm
<1>3. CASE op'[p].pc = "assembled?"
  <2>1. /\ op'[p].candidate = active
        /\ op'[p].settled = (active \in captured /\ ~Capturing(active))
    BY <1>3, ReadActiveMoves
  <2>2. \A c : ~BusyOn(p, c)'
    BY <1>3, NotBusy
  <2>3. ASSUME NEW c \in Candidates, op'[p].candidate = c
        PROVE  Assembling(p, c)'
    <3>1. op'[p].settled => Quiet(c)
      <4>1. SUFFICES ASSUME op'[p].settled PROVE Quiet(c)
        OBVIOUS
      <4>2. c \in captured /\ ~Capturing(c)
        BY <2>1, <2>3, <4>1
      <4>3. Planned(c) /\ Derived(c)
        BY <4>2 DEF SInv, CapturesEnd
      <4> QED BY <4>2, <4>3 DEF Quiet, BusyOn, Capturing
    <3>2. Quiet(c) => Quiet(c)'
      <4>1. gates \subseteq gates' /\ checks \subseteq checks' /\ obligations' = obligations
        BY <1>1 DEF ReadOnly
      <4>2. Carried
        BY <4>1, SameRows
      <4> QED BY <1>1, <2>2, <4>1, <4>2, QuietKept
    <3> QED BY <1>3, <3>1, <3>2 DEF Assembling
  <2> QED BY <1>1, <1>3, <2>2, <2>3, ReadingKeeps
<1> QED BY <1>1, <1>2, <1>3

(* One who goes on with an assembly of c. *)
LEMMA GoesOn ==
  ASSUME TInv, TInv', SInv, NEW p \in Procs, MovesTo(p, op'[p]), ReadOnly,
         op'[p].pc \in {"gates", "duties", "assemble"},
         op'[p].candidate = op[p].candidate,
         \A c \in Candidates :
           op[p].candidate = c /\ Assembling(p, c) /\ Lasts(c) => Assembling(p, c)'
  PROVE  SInv'
<1>1. \A c : ~BusyOn(p, c)'
  BY NotBusy
<1>2. \A c : Lasts(c)
  <2>1. gates' = gates /\ checks \subseteq checks' /\ obligations' = obligations
    BY DEF ReadOnly
  <2>2. Carried /\ Ids(obligations)' = Ids(obligations)
    BY <2>1, SameRows
  <2> QED BY <1>1, <2>1, <2>2, TablesLast
<1>3. ASSUME NEW c \in Candidates, op'[p].candidate = c
      PROVE  Assembling(p, c)'
  <2>1. op[p].candidate = c /\ Assembling(p, c)
    BY <1>3 DEF SInv
  <2> QED BY <1>2, <2>1
<1> QED BY <1>1, <1>3, ReadingKeeps

LEMMA LookForSnapshotWhole ==
  ASSUME TInv, TInv', SInv, NEW p \in Procs, LookForSnapshot(p)
  PROVE  SInv'
<1>1. /\ MovesTo(p, op'[p]) /\ ReadOnly /\ op[p].pc = "assembled?"
      /\ op'[p].pc \in {"query", "gates"} /\ op'[p].candidate = op[p].candidate
      /\ op'[p].settled = op[p].settled
  BY LookForSnapshotMoves
<1>2. CASE op'[p].pc = "query"
  BY <1>1, <1>2, ReadCalm DEF Calm
<1>3. CASE op'[p].pc = "gates"
  <2>1. \A c : Assembling(p, c) /\ Lasts(c) => Assembling(p, c)'
    BY <1>1, <1>3 DEF Assembling, Lasts
  <2> QED BY <1>1, <1>3, <2>1, GoesOn
<1> QED BY <1>1, <1>2, <1>3

LEMMA ReadGatesWhole ==
  ASSUME TInv, TInv', SInv, NEW p \in Procs, ReadGates(p)
  PROVE  SInv'
<1>1. /\ MovesTo(p, op'[p]) /\ ReadOnly /\ op[p].pc = "gates" /\ op'[p].pc = "duties"
      /\ op'[p].candidate = op[p].candidate /\ op'[p].settled = op[p].settled
      /\ op'[p].gates = Own(op[p].candidate)
  BY ReadGatesMoves
<1>2. ASSUME NEW c, op[p].candidate = c, Assembling(p, c), Lasts(c)
      PROVE  Assembling(p, c)'
  <2>1. op'[p].gates = Own(c)'
    BY <1>1, <1>2 DEF Own, ReadOnly
  <2>2. op'[p].settled => Quiet(c)'
    BY <1>1, <1>2 DEF Assembling, Lasts
  <2> QED BY <1>1, <2>1, <2>2 DEF Assembling
<1> QED BY <1>1, <1>2, GoesOn

LEMMA ReadDutiesWhole ==
  ASSUME TInv, TInv', SInv, NEW p \in Procs, ReadDuties(p)
  PROVE  SInv'
<1>1. /\ MovesTo(p, op'[p]) /\ ReadOnly /\ op[p].pc = "duties" /\ op'[p].pc = "assemble"
      /\ op'[p].candidate = op[p].candidate /\ op'[p].settled = op[p].settled
      /\ op'[p].gates = op[p].gates
      /\ op'[p].duties = {[id |-> o.id, authority |-> Authority[o.requirement]] :
                            o \in DutiesOf(op[p].candidate)}
  BY ReadDutiesMoves
<1>2. ASSUME NEW c, op[p].candidate = c, Assembling(p, c), Lasts(c)
      PROVE  Assembling(p, c)'
  <2>1. DutiesOf(c)' = DutiesOf(c) /\ Own(c)' = Own(c)
    BY <1>1 DEF DutiesOf, Own, ReadOnly
  <2>2. \A d \in op'[p].duties : Named(d, c)'
    <3>1. \A d \in op'[p].duties : \E o \in DutiesOf(c) :
            d.id = o.id /\ d.authority = Authority[o.requirement]
      BY <1>1, <1>2
    <3> QED BY <2>1, <3>1 DEF Named
  <2>3. {d.id : d \in op'[p].duties} = DutyIds(c)'
    <3>1. op'[p].duties = {[id |-> o.id, authority |-> Authority[o.requirement]] :
                             o \in DutiesOf(c)}
      BY <1>1, <1>2
    <3>2. \A d \in op'[p].duties : \E o \in DutiesOf(c) : d.id = o.id
      BY <3>1
    <3>3. ASSUME NEW o \in DutiesOf(c)
          PROVE  \E d \in op'[p].duties : d.id = o.id
      <4> DEFINE d == [id |-> o.id, authority |-> Authority[o.requirement]]
      <4>1. d \in op'[p].duties /\ d.id = o.id
        BY <3>1
      <4> HIDE DEF d
      <4> QED BY <4>1
    <3> HIDE <3>1
    <3>4. {d.id : d \in op'[p].duties} = {o.id : o \in DutiesOf(c)}
      BY <3>2, <3>3
    <3> QED BY <2>1, <3>4 DEF DutyIds
  <2>4. op'[p].settled => Quiet(c)'
    BY <1>1, <1>2 DEF Assembling, Lasts
  <2>5. op'[p].gates \subseteq Own(c)' /\ (op'[p].settled => op'[p].gates = Own(c)')
    BY <1>1, <1>2, <2>1 DEF Assembling
  <2> QED BY <1>1, <2>2, <2>3, <2>4, <2>5 DEF Assembling
<1> QED BY <1>1, <1>2, GoesOn

(* The row says what the assembly has read. *)
LEMMA AssembledWhole ==
  ASSUME TInv, NEW p \in Procs, op[p].pc = "assemble", NEW c, Assembling(p, c),
         NEW r, r.settled = op[p].settled, r.gate_ids = op[p].gates,
         r.obligation_ids = {d.id : d \in op[p].duties},
         r.authorities = {d.authority : d \in op[p].duties}
  PROVE  Whole(r, c)
<1>1. \A d \in op[p].duties : Named(d, c)
  BY DEF Assembling
<1>2. r.obligation_ids \subseteq DutyIds(c)
  BY <1>1 DEF Named, DutyIds
<1>3. ASSUME NEW a
      PROVE  (\E d \in op[p].duties : a = d.authority)
             <=> \E o \in DutiesOf(c) : o.id \in r.obligation_ids
                                          /\ a = Authority[o.requirement]
  <2>1. ASSUME NEW d \in op[p].duties
        PROVE  \E o \in DutiesOf(c) : /\ o.id \in r.obligation_ids
                                      /\ d.authority = Authority[o.requirement]
    BY <1>1 DEF Named
  <2>2. ASSUME NEW o \in DutiesOf(c), o.id \in r.obligation_ids
        PROVE  \E d \in op[p].duties : d.authority = Authority[o.requirement]
    <3>1. PICK d \in op[p].duties : d.id = o.id
      BY <2>2
    <3>2. PICK n \in DutiesOf(c) : d.id = n.id /\ d.authority = Authority[n.requirement]
      BY <1>1 DEF Named
    <3>3. n = o
      BY <3>1, <3>2, OneRow DEF DutiesOf
    <3> QED BY <3>2, <3>3
  <2> QED BY <2>1, <2>2
<1>4. r.authorities = {Authority[o.requirement] :
                         o \in {d \in DutiesOf(c) : d.id \in r.obligation_ids}}
  <2> DEFINE named == {d \in DutiesOf(c) : d.id \in r.obligation_ids}
             said == {Authority[o.requirement] : o \in named}
  <2>1. \A a : a \in r.authorities <=> \E d \in op[p].duties : a = d.authority
    OBVIOUS
  <2>2. \A a : a \in said <=> \E o \in named : a = Authority[o.requirement]
    OBVIOUS
  <2>3. \A o : o \in named <=> o \in DutiesOf(c) /\ o.id \in r.obligation_ids
    OBVIOUS
  <2> HIDE DEF named, said
  <2>4. ASSUME NEW a
        PROVE  a \in r.authorities <=> a \in said
    <3>1. a \in r.authorities <=> \E d \in op[p].duties : a = d.authority
      BY <2>1
    <3>2. a \in r.authorities <=>
            \E o \in DutiesOf(c) : o.id \in r.obligation_ids /\ a = Authority[o.requirement]
      BY <1>3, <3>1
    <3>3. a \in said => \E o \in DutiesOf(c) :
                           o.id \in r.obligation_ids /\ a = Authority[o.requirement]
      BY <2>2, <2>3
    <3>4. ASSUME NEW o \in DutiesOf(c), o.id \in r.obligation_ids, a = Authority[o.requirement]
          PROVE  a \in said
      BY <2>2, <2>3, <3>4
    <3> QED BY <3>2, <3>3, <3>4
  <2>5. r.authorities = said
    <3> DEFINE told == {d.authority : d \in op[p].duties}
    <3>1. r.authorities = told
      OBVIOUS
    <3> HIDE DEF told
    <3>2. \A a : a \in told <=> a \in said
      BY <2>4, <3>1
    <3>3. told = said
      BY <3>2
    <3> QED BY <3>1, <3>3
  <2> QED BY <2>5 DEF named, said
<1> QED BY <1>2, <1>4 DEF Whole, Assembling

LEMMA PutSnapshotWhole ==
  ASSUME TInv, TInv', SInv, NEW p \in Procs, PutSnapshot(p)
  PROVE  SInv'
<1>1. /\ MovesTo(p, op'[p]) /\ op[p].pc = "assemble" /\ op'[p].pc = "query"
      /\ gates' = gates /\ checks' = checks /\ obligations' = obligations
      /\ captured' = captured
  BY PutSnapshotMoves
<1>2. PICK r : /\ releases' = Append(releases, r) /\ r.source = op[p].candidate
               /\ r.settled = op[p].settled /\ r.gate_ids = op[p].gates
               /\ r.obligation_ids = {d.id : d \in op[p].duties}
               /\ r.authorities = {d.authority : d \in op[p].duties}
  <2> DEFINE r == [id |-> minted + 1, source |-> op[p].candidate, gate_ids |-> op[p].gates,
                   obligation_ids |-> {d.id : d \in op[p].duties},
                   authorities |-> {d.authority : d \in op[p].duties},
                   settled |-> op[p].settled]
  <2>1. releases' = Append(releases, r)
    BY DEF PutSnapshot
  <2>2. /\ r.source = op[p].candidate
        /\ r.settled = op[p].settled /\ r.gate_ids = op[p].gates
        /\ r.obligation_ids = {d.id : d \in op[p].duties}
        /\ r.authorities = {d.authority : d \in op[p].duties}
    OBVIOUS
  <2> HIDE DEF r
  <2> QED BY <2>1, <2>2
<1>3. Range(releases') = Range(releases) \cup {r}
  BY <1>2, AppendRange DEF TInv, TablesTyped
<1>4. Carried /\ Ids(obligations)' = Ids(obligations)
  BY <1>1, SameRows
<1>5. \A c : ~BusyOn(p, c)' /\ Assembling(p, c)'
  BY <1>1, AssemblesNothing, NotBusy
<1>6. \A c : Lasts(c)
  BY <1>1, <1>4, <1>5, TablesLast
<1>7. CapturesEnd'
  BY <1>1, <1>4, EndsKept DEF SInv
<1>8. ASSUME NEW c \in Candidates, r.source = c
      PROVE  Whole(r, c)'
  <2>1. Assembling(p, c)
    BY <1>2, <1>8 DEF SInv
  <2>2. Whole(r, c)
    BY <1>1, <1>2, <2>1, AssembledWhole
  <2> QED BY <1>6, <2>2, WholeKept
<1> QED BY <1>1, <1>3, <1>5, <1>6, <1>7, <1>8, SStepKeeps

LEMMA CapturesWhole ==
  ASSUME TInv, TInv', SInv, NEW p \in Procs,
         \/ LookForChecks(p) \/ StoreGate(p) \/ StoreCheck(p) \/ LookForObligations(p)
         \/ StoreObligation(p) \/ ReadActive(p) \/ LookForSnapshot(p) \/ ReadGates(p)
         \/ ReadDuties(p) \/ PutSnapshot(p)
  PROVE  SInv'
<1> HIDE DEF TInv, SInv
<1> QED BY LookForChecksWhole, StoreGateWhole, StoreCheckWhole, LookForObligationsWhole,
           StoreObligationWhole, ReadActiveWhole, LookForSnapshotWhole, ReadGatesWhole,
           ReadDutiesWhole, PutSnapshotWhole

LEMMA ReadsWhole ==
  ASSUME TInv, TInv', SInv, NEW p \in Procs,
         \/ Receive(p) \/ Stop(p) \/ ActivateCandidate(p) \/ QueryActive(p)
         \/ QuerySnapshot(p) \/ ReadOutcome(p) \/ MatchOutcome(p) \/ ListVerdicts(p)
         \/ Judge(p) \/ ListExecuting(p) \/ Inspect(p)
  PROVE  SInv'
<1>1. CASE \/ Receive(p) \/ Stop(p) \/ ActivateCandidate(p) \/ QueryActive(p)
           \/ QuerySnapshot(p)
  <2>1. MovesTo(p, op'[p]) /\ op'[p].pc \in Calm /\ ReadOnly
    BY <1>1, ReceiveMoves, StopMoves, ActivateMoves, QueryActiveMoves, QuerySnapshotMoves
       DEF Calm
  <2> QED BY <2>1, ReadCalm
<1>2. CASE ReadOutcome(p) \/ MatchOutcome(p) \/ ListVerdicts(p)
  <2>1. MovesTo(p, op'[p]) /\ op'[p].pc \in Calm /\ ReadOnly
    BY <1>2, ReadOutcomeMoves, MatchOutcomeMoves, ListVerdictsMoves DEF Calm
  <2> QED BY <2>1, ReadCalm
<1>3. CASE Judge(p) \/ ListExecuting(p) \/ Inspect(p)
  <2>1. MovesTo(p, op'[p]) /\ op'[p].pc \in Calm /\ ReadOnly
    BY <1>3, JudgeMoves, ListExecutingMoves, InspectMoves DEF Calm
  <2> QED BY <2>1, ReadCalm
<1> QED BY <1>1, <1>2, <1>3

LEMMA WritesWhole ==
  ASSUME TInv, TInv', SInv, NEW p \in Procs, RecordOutcome(p) \/ PutVerdict(p)
  PROVE  SInv'
<1>1. UNCHANGED <<gates, checks, releases, captured>> /\ Pending(op[p])
  BY Typed DEF RecordOutcome, PutVerdict, Held, At
<1> DEFINE Writes(r, n) ==
             /\ Write(r) /\ op' = [Noticed("obligation", r.id) EXCEPT ![p] = n]
             /\ n = Idle \/ n = NextItem(p, "judge")
<1>2. PICK r \in op[p].row : \E n : Writes(r, n)
  BY DEF RecordOutcome, PutVerdict
<1>3. PICK n : Writes(r, n)
  BY <1>2
<1>4. n.pc \in {"idle", "judge"}
  BY <1>3, IdleTyped, TurnTaken
<1>5. MovesTo(p, n) /\ op'[p] = n
  BY <1>3, NoticedMove DEF MovesTo
<1>6. MovesTo(p, op'[p]) /\ op'[p].pc \in Calm
  BY <1>4, <1>5 DEF Calm
<1> QED BY <1>1, <1>3, <1>6, WriteCalm

LEMMA AbandonWhole ==
  ASSUME TInv, TInv', SInv, NEW p \in Procs, Abandon(p)
  PROVE  SInv'
<1>1. /\ UNCHANGED <<gates, checks, releases, captured>> /\ obligations' = obligations
      /\ op' = [Noticed("operation", Turn(p)) EXCEPT ![p] = Idle]
  BY LastTurn DEF Abandon, others, At
<1>2. MovesTo(p, Idle) /\ op'[p] = Idle
  BY <1>1, NoticedMove DEF MovesTo
<1>3. MovesTo(p, op'[p]) /\ op'[p].pc \in Calm
  BY <1>2, IdleTyped DEF Calm
<1>4. Carried /\ Ids(obligations)' = Ids(obligations)
  BY <1>1, SameRows
<1> QED BY <1>1, <1>3, <1>4, CalmKeeps

(* No request moves. *)
LEMMA OutsideWhole ==
  ASSUME TInv, TInv', SInv, UNCHANGED <<gates, checks, releases, captured>>, Carried,
         Ids(obligations)' = Ids(obligations), \A q \in Procs : Alike(op'[q], op[q])
  PROVE  SInv'
<1>1. /\ gates' = gates /\ checks' = checks /\ releases' = releases /\ captured' = captured
      /\ \A q \in Procs : op'[q].candidate = op[q].candidate /\ op'[q].pc = op[q].pc
  BY DEF Alike
<1>2. ASSUME NEW c
      PROVE  Lasts(c)
  <2>1. (Planned(c) => Planned(c)') /\ (Derived(c) => Derived(c)')
    BY <1>1, PlannedKept, DerivedKept
  <2>2. \A q \in Procs : BusyOn(q, c)' <=> BusyOn(q, c)
    BY <1>1 DEF BusyOn
  <2>3. Quiet(c) => Quiet(c)'
    BY <2>1, <2>2 DEF Quiet
  <2>4. Own(c)' = Own(c) /\ DutyIds(c)' = DutyIds(c)
    BY <1>1, SameDuties DEF Own
  <2> QED BY <2>3, <2>4 DEF Lasts
<1>3. \A c : (Planned(c) => Planned(c)') /\ (Derived(c) => Derived(c)')
  BY <1>1, PlannedKept, DerivedKept
<1>4. CapturesEnd'
  <2>1. \A c \in captured' : Planned(c)' /\ Derived(c)'
    BY <1>1, <1>3 DEF SInv, CapturesEnd
  <2>2. \A q \in Procs, c \in Candidates :
          op'[q].candidate = c /\ op'[q].pc \in {"derived?", "duty"} => Planned(c)'
    BY <1>1, <1>3 DEF SInv, CapturesEnd
  <2> QED BY <2>1, <2>2 DEF CapturesEnd, Candidates
<1>5. \A q \in Procs, c \in Candidates : op'[q].candidate = c => Assembling(q, c)'
  BY <1>1, <1>2, AssemblingKept DEF SInv
<1>6. \A r \in Range(releases'), c \in Candidates : r.source = c => Whole(r, c)'
  BY <1>1, <1>2, WholeKept DEF SInv
<1> QED BY <1>4, <1>5, <1>6 DEF SInv, Candidates

LEMMA ExceptionWhole ==
  ASSUME TInv, TInv', SInv, NEW i \in DOMAIN obligations, ApproveException(i)
  PROVE  SInv'
<1> DEFINE r == [obligations[i] EXCEPT !.status = "ExceptionApproved", !.judged = FALSE]
<1>1. r \in Rows /\ Same(obligations[i], r) /\ Rests(r) /\ Write(r)
  BY ExceptionWrites
<1>2. obligations[i] \in Range(obligations)
  BY Rowed
<1> HIDE DEF r
<1>3. Carried /\ Ids(obligations)' = Ids(obligations)
  BY <1>1, <1>2, Rewriting
<1>4. /\ UNCHANGED <<gates, checks, releases, captured>>
      /\ op' = Noticed("obligation", obligations[i].id)
  BY DEF ApproveException
<1>5. \A q \in Procs : Alike(op'[q], op[q])
  BY <1>4, NoticedAlike
<1> QED BY <1>3, <1>4, <1>5, OutsideWhole

LEMMA OperationWhole ==
  ASSUME TInv, TInv', SInv,
         \/ Propose
         \/ \E o \in operations : Age(o) \/ \E s \in AuthorizationStates : Perform(o, s)
  PROVE  SInv'
<1>1. UNCHANGED <<gates, checks, releases, captured>> /\ obligations' = obligations
  BY DEF Propose, Age, Perform, others
<1>2. op' = op \/ \E o \in operations : op' = Noticed("operation", o.id)
  BY DEF Propose, Age, Perform
<1>3. \A q \in Procs : Alike(op'[q], op[q])
  BY <1>2, StillAlike, NoticedAlike
<1>4. Carried /\ Ids(obligations)' = Ids(obligations)
  BY <1>1, SameRows
<1> QED BY <1>1, <1>3, <1>4, OutsideWhole

LEMMA SInit ==
  ASSUME Init
  PROVE  SInv
<1>1. /\ captured = {} /\ releases = <<>>
      /\ \A p \in Procs : op[p].pc = "idle"
  BY DEF Init, Idle
<1>2. Range(releases) = {}
  BY <1>1 DEF Range
<1>3. CapturesEnd
  BY <1>1 DEF CapturesEnd
<1>4. \A p \in Procs, c \in Candidates : Assembling(p, c)
  BY <1>1 DEF Assembling
<1> QED BY <1>2, <1>3, <1>4 DEF SInv

LEMMA SStep ==
  ASSUME TInv, TInv', SInv, [Next]_vars
  PROVE  SInv'
<1>1. ASSUME NEW p \in Procs, Receive(p) \/ Work(p) \/ Stop(p)
      PROVE  SInv'
  BY <1>1, CapturesWhole, ReadsWhole, WritesWhole, AbandonWhole DEF Work
<1>2. ASSUME NEW i \in DOMAIN obligations, ApproveException(i)
      PROVE  SInv'
  BY <1>2, ExceptionWhole
<1>3. ASSUME \/ Propose
             \/ \E o \in operations : Age(o) \/ \E s \in AuthorizationStates : Perform(o, s)
      PROVE  SInv'
  BY <1>3, OperationWhole
<1>4. CASE UNCHANGED vars
  <2>1. UNCHANGED <<gates, checks, releases, captured>> /\ obligations' = obligations /\ op' = op
    BY <1>4 DEF vars, tables
  <2>2. \A q \in Procs : Alike(op'[q], op[q])
    BY <2>1, StillAlike
  <2>3. Carried /\ Ids(obligations)' = Ids(obligations)
    BY <2>1, SameRows
  <2> QED BY <2>1, <2>2, <2>3, OutsideWhole
<1> HIDE DEF TInv, SInv
<1> QED BY <1>1, <1>2, <1>3, <1>4 DEF Next

(* A snapshot names gates and obligations of its own candidate only, with   *)
(* their authorities, in every later state too; and all of them, if a       *)
(* capture had run to its end and none was at work as the assembly began,   *)
(* whatever becomes active, is captured or is stored in between.            *)
THEOREM SnapshotsSound == Spec => []SnapshotStaysWhole
<1>1. Init => SInv
  BY SInit
<1>2. TInv /\ TInv' /\ SInv /\ [Next]_vars => SInv'
  BY SStep
<1>3. TInv /\ SInv => SnapshotStaysWhole
  <2> SUFFICES ASSUME TInv, SInv, NEW r \in Range(releases)
               PROVE  LET own == {g.id : g \in {h \in gates : h.candidate = r.source}}
                          duties == DutiesOf(r.source)
                      IN  /\ r.gate_ids \subseteq own
                          /\ r.obligation_ids \subseteq {o.id : o \in duties}
                          /\ r.authorities = {Authority[o.requirement] :
                                o \in {d \in duties : d.id \in r.obligation_ids}}
                          /\ r.settled =>
                               r.gate_ids = own /\ r.obligation_ids = {o.id : o \in duties}
    BY DEF SnapshotStaysWhole
  <2>1. r.source \in Candidates
    BY DEF TInv, TablesTyped, Candidates
  <2>2. Whole(r, r.source)
    BY <2>1 DEF SInv
  <2> QED BY <2>2 DEF Whole, Own, DutyIds
<1> QED BY <1>1, <1>2, <1>3, RowsInvariant, PTL DEF Spec

-----------------------------------------------------------------------------
(* Rows of snapshots are appended, and never taken away.                   *)

Listed == \E S : releases \in Seq(S)

(* A row of the source that no other row of it comes before. *)
IsFirst(i, c) == i \in OfSource(c) /\ \A j \in OfSource(c) : i <= j

(* The answer is the id of such a row. *)
FirstAnswered ==
  \A a \in answers : \E i \in OfSource(a[1]) : IsFirst(i, a[1]) /\ a[2] = releases[i].id

(* Where there is a row there is a first one. *)
FirstThere == \A c : OfSource(c) # {} => \E i \in OfSource(c) : IsFirst(i, c)

IInv == Listed /\ FirstThere /\ FirstAnswered

LEMMA Indices ==
  ASSUME Listed
  PROVE  \A c : OfSource(c) \subseteq Nat
BY DEF Listed, OfSource

(* There is one first row at most. *)
LEMMA OneFirst ==
  ASSUME Listed, NEW c, NEW i, NEW j, IsFirst(i, c), IsFirst(j, c)
  PROVE  i = j
<1>1. i \in Nat /\ j \in Nat
  BY Indices DEF IsFirst
<1>2. i <= j /\ j <= i
  BY DEF IsFirst
<1> QED BY <1>1, <1>2

(* The query answers with it. *)
LEMMA QueryFirst ==
  ASSUME Listed, NEW c, NEW i, IsFirst(i, c)
  PROVE  Answered(c) = {releases[i].id}
<1>1. i \in OfSource(c) /\ \A j \in OfSource(c) : i <= j
  BY DEF IsFirst
<1>2. /\ Min(OfSource(c)) \in OfSource(c)
      /\ \A j \in OfSource(c) : Min(OfSource(c)) <= j
  BY <1>1 DEF Min
<1>3. Min(OfSource(c)) = i
  BY <1>2, OneFirst DEF IsFirst
<1> QED BY <1>1, <1>3 DEF Answered

(* What a row more changes: it comes after all that are there. *)
LEMMA Appended ==
  ASSUME Listed, NEW new, releases' = Append(releases, new)
  PROVE  /\ Listed'
         /\ \A c : OfSource(c)' = OfSource(c) \cup
                     (IF new.source = c THEN {Len(releases) + 1} ELSE {})
         /\ \A c : \A i \in OfSource(c) :
              i <= Len(releases) /\ releases'[i] = releases[i]
         /\ Len(releases) \in Nat
<1>1. PICK S : releases \in Seq(S)
  BY DEF Listed
<1> DEFINE T == S \cup {new}
<1>2. releases \in Seq(T) /\ new \in T
  BY <1>1
<1>3. /\ releases' \in Seq(T) /\ Len(releases) \in Nat
      /\ Len(releases') = Len(releases) + 1
      /\ releases'[Len(releases) + 1] = new
      /\ \A i \in 1..Len(releases) : releases'[i] = releases[i]
      /\ DOMAIN releases = 1..Len(releases)
      /\ DOMAIN releases' = 1..(Len(releases) + 1)
  BY <1>2
<1>4. Listed'
  BY <1>3 DEF Listed
<1>5. ASSUME NEW c
      PROVE  OfSource(c)' = OfSource(c) \cup
               (IF new.source = c THEN {Len(releases) + 1} ELSE {})
  BY <1>3 DEF OfSource
<1>6. ASSUME NEW c, NEW i \in OfSource(c)
      PROVE  i <= Len(releases) /\ releases'[i] = releases[i]
  BY <1>3 DEF OfSource
<1> QED BY <1>3, <1>4, <1>5, <1>6

LEMMA PutSafe ==
  ASSUME IInv, NEW p \in Procs, PutSnapshot(p)
  PROVE  IInv'
<1>1. PICK new : releases' = Append(releases, new)
  BY DEF PutSnapshot
<1>2. answers' = answers /\ Listed /\ FirstThere /\ FirstAnswered
  BY DEF PutSnapshot, IInv
<1> DEFINE n == Len(releases)
<1>3. /\ Listed' /\ n \in Nat
      /\ \A c : OfSource(c)' = OfSource(c) \cup
                  (IF new.source = c THEN {n + 1} ELSE {})
      /\ \A c : \A i \in OfSource(c) : i <= n /\ releases'[i] = releases[i]
  BY <1>1, <1>2, Appended
<1>4. \A c : OfSource(c) \subseteq Nat
  BY <1>2, Indices
<1> HIDE DEF n
<1>5. ASSUME NEW c, NEW i, IsFirst(i, c)
      PROVE  IsFirst(i, c)' /\ releases'[i] = releases[i]
  <2>1. i \in OfSource(c) /\ \A j \in OfSource(c) : i <= j
    BY <1>5 DEF IsFirst
  <2>2. i \in Nat /\ i <= n + 1 /\ releases'[i] = releases[i] /\ i \in OfSource(c)'
    BY <1>3, <1>4, <2>1
  <2>3. \A j \in OfSource(c)' : i <= j
    BY <1>3, <2>1, <2>2
  <2> QED BY <2>2, <2>3 DEF IsFirst
<1>6. FirstThere'
  <2> SUFFICES ASSUME NEW c, OfSource(c)' # {}
               PROVE  \E i \in OfSource(c)' : IsFirst(i, c)'
    BY DEF FirstThere
  <2>1. CASE OfSource(c) # {}
    <3>1. PICK i \in OfSource(c) : IsFirst(i, c)
      BY <1>2, <2>1 DEF FirstThere
    <3> QED BY <1>5, <3>1 DEF IsFirst
  <2>2. CASE OfSource(c) = {}
    <3>1. OfSource(c)' = {n + 1}
      BY <1>3, <2>2
    <3>2. n + 1 <= n + 1
      BY <1>3
    <3> QED BY <3>1, <3>2 DEF IsFirst
  <2> QED BY <2>1, <2>2
<1>7. FirstAnswered'
  <2> SUFFICES ASSUME NEW a \in answers
               PROVE  \E i \in OfSource(a[1])' :
                        IsFirst(i, a[1])' /\ a[2] = releases'[i].id
    BY <1>2 DEF FirstAnswered
  <2>1. PICK i \in OfSource(a[1]) : IsFirst(i, a[1]) /\ a[2] = releases[i].id
    BY <1>2 DEF FirstAnswered
  <2> QED BY <1>5, <2>1 DEF IsFirst
<1> QED BY <1>3, <1>6, <1>7 DEF IInv

LEMMA QuerySafe ==
  ASSUME IInv, NEW p \in Procs, QuerySnapshot(p)
  PROVE  IInv'
<1> DEFINE c == op[p].candidate
<1>1. /\ releases' = releases
      /\ answers' = answers \cup {<<c, id>> : id \in Answered(c)}
  BY DEF QuerySnapshot, tables
<1>2. Listed /\ FirstThere /\ FirstAnswered
  BY DEF IInv
<1>3. \A d : OfSource(d)' = OfSource(d)
  BY <1>1 DEF OfSource
<1>4. Listed' /\ FirstThere'
  BY <1>1, <1>2, <1>3 DEF Listed, FirstThere, IsFirst
<1>5. ASSUME NEW a \in answers'
      PROVE  \E i \in OfSource(a[1]) : IsFirst(i, a[1]) /\ a[2] = releases[i].id
  <2>1. CASE a \in answers
    BY <1>2, <2>1 DEF FirstAnswered
  <2>2. CASE a \notin answers
    <3>1. PICK id \in Answered(c) : a = <<c, id>>
      BY <1>1, <2>2
    <3>2. OfSource(c) # {}
      BY <3>1 DEF Answered
    <3>3. PICK i \in OfSource(c) : IsFirst(i, c)
      BY <1>2, <3>2 DEF FirstThere
    <3>4. id = releases[i].id
      BY <1>2, <3>1, <3>3, QueryFirst
    <3> HIDE DEF c
    <3> QED BY <3>1, <3>3, <3>4
  <2> QED BY <2>1, <2>2
<1>6. FirstAnswered'
  BY <1>1, <1>3, <1>5 DEF FirstAnswered, IsFirst
<1> QED BY <1>4, <1>6 DEF IInv

(* Nothing else writes snapshots or answers. *)
LEMMA Others ==
  ASSUME [Next]_vars
  PROVE  \/ UNCHANGED <<releases, answers>>
         \/ \E p \in Procs : PutSnapshot(p) \/ QuerySnapshot(p)
<1>1. ASSUME NEW p \in Procs, Receive(p) \/ Stop(p)
      PROVE  UNCHANGED <<releases, answers>>
  BY <1>1 DEF Receive, Accept, Stop, tables
<1>2. ASSUME NEW p \in Procs, Work(p), ~PutSnapshot(p), ~QuerySnapshot(p)
      PROVE  UNCHANGED <<releases, answers>>
  <2>1. CASE \/ ActivateCandidate(p) \/ LookForChecks(p) \/ StoreGate(p)
             \/ StoreCheck(p) \/ LookForObligations(p) \/ StoreObligation(p)
    BY <2>1, Zenon DEF ActivateCandidate, LookForChecks, StoreGate, StoreCheck,
       LookForObligations, StoreObligation, tables
  <2>2. CASE \/ ReadActive(p) \/ LookForSnapshot(p) \/ ReadGates(p)
             \/ ReadDuties(p) \/ QueryActive(p)
    BY <2>2, Zenon DEF ReadActive, LookForSnapshot, ReadGates, ReadDuties,
       QueryActive, tables
  <2>3. CASE MatchOutcome(p) \/ Judge(p)
    BY <2>3 DEF MatchOutcome, Judge, tables
  <2>4. CASE RecordOutcome(p) \/ PutVerdict(p)
    BY <2>4 DEF RecordOutcome, PutVerdict
  <2>5. CASE ReadOutcome(p)
    BY <2>5 DEF ReadOutcome, tables
  <2>6. CASE ListVerdicts(p)
    BY <2>6 DEF ListVerdicts, tables
  <2>7. CASE ListExecuting(p) \/ Inspect(p) \/ Abandon(p)
    <3>1. CASE ListExecuting(p) \/ Inspect(p)
      BY <3>1 DEF ListExecuting, Inspect, others
    <3>2. CASE Abandon(p)
      BY <3>2, Zenon DEF Abandon, others
    <3> QED BY <2>7, <3>1, <3>2
  <2> QED BY <1>2, <2>1, <2>2, <2>3, <2>4, <2>5, <2>6, <2>7
          DEF Work
<1>3. ASSUME NEW i \in DOMAIN obligations, ApproveException(i)
      PROVE  UNCHANGED <<releases, answers>>
  BY <1>3 DEF ApproveException
<1>4. CASE Propose
  BY <1>4 DEF Propose, others
<1>5. ASSUME NEW o \in operations,
             Age(o) \/ \E s \in AuthorizationStates : Perform(o, s)
      PROVE  UNCHANGED <<releases, answers>>
  BY <1>5 DEF Age, Perform, others
<1>6. CASE UNCHANGED vars
  BY <1>6 DEF vars, tables
<1> QED BY <1>1, <1>2, <1>3, <1>4, <1>5, <1>6 DEF Next, Work

LEMMA InvariantInit == Init => IInv
<1> SUFFICES ASSUME Init PROVE IInv
  OBVIOUS
<1>1. releases = <<>> /\ answers = {}
  BY DEF Init
<1>2. Listed /\ \A c : OfSource(c) = {}
  <2>1. releases \in Seq({})
    BY <1>1
  <2>2. DOMAIN releases = {}
    BY <1>1
  <2> QED BY <2>1, <2>2 DEF Listed, OfSource
<1> QED BY <1>1, <1>2 DEF IInv, FirstThere, FirstAnswered

LEMMA InvariantStep == IInv /\ [Next]_vars => IInv'
<1> SUFFICES ASSUME IInv, [Next]_vars PROVE IInv'
  OBVIOUS
<1>1. CASE UNCHANGED <<releases, answers>>
  <2>1. releases' = releases /\ answers' = answers /\ IInv
    BY <1>1
  <2>2. \A c : OfSource(c)' = OfSource(c)
    BY <2>1 DEF OfSource
  <2>3. \A i, c : IsFirst(i, c)' <=> IsFirst(i, c)
    BY <2>2 DEF IsFirst
  <2>4. Listed' /\ FirstThere'
    BY <2>1, <2>2, <2>3 DEF IInv, Listed, FirstThere
  <2>5. FirstAnswered'
    BY <2>1, <2>2, <2>3 DEF IInv, FirstAnswered
  <2> QED BY <2>4, <2>5 DEF IInv
<1>2. ASSUME NEW p \in Procs, PutSnapshot(p) PROVE IInv'
  BY <1>2, PutSafe
<1>3. ASSUME NEW p \in Procs, QuerySnapshot(p) PROVE IInv'
  BY <1>3, QuerySafe
<1> HIDE DEF IInv
<1> QED BY <1>1, <1>2, <1>3, Others

(* Whoever is answered with the snapshot of a candidate is answered with   *)
(* the same one, though two calls that overlap assemble one each and a     *)
(* call may stop anywhere: rows are appended, and the query takes the      *)
(* first.                                                                  *)
THEOREM AnswersSound == Spec => []AnswersAgree
<1>1. IInv => AnswersAgree
  <2> SUFFICES ASSUME IInv, NEW a \in answers, NEW b \in answers, a[1] = b[1]
               PROVE  a[2] = b[2]
    BY DEF AnswersAgree
  <2>1. PICK i \in OfSource(a[1]) : IsFirst(i, a[1]) /\ a[2] = releases[i].id
    BY DEF IInv, FirstAnswered
  <2>2. PICK j \in OfSource(b[1]) : IsFirst(j, b[1]) /\ b[2] = releases[j].id
    BY DEF IInv, FirstAnswered
  <2>3. i = j
    BY <2>1, <2>2, OneFirst DEF IInv
  <2> QED BY <2>1, <2>2, <2>3
<1> QED BY <1>1, InvariantInit, InvariantStep, PTL DEF Spec

=============================================================================
