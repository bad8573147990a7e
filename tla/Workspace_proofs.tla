-------------------------- MODULE Workspace_proofs --------------------------
(***************************************************************************)
(* Theorems about Workspace, for any callers, handles and patches and any  *)
(* bounds: the types; that a revision is answered once; that only a second *)
(* run of the same check can tear what a check reads; that what was        *)
(* answered is captured; and what a row that says clean tells.             *)
(***************************************************************************)
EXTENDS Workspace, TLAPS

-----------------------------------------------------------------------------
(* What a call knows where it stands.                                      *)

Unplaced == {"idle", "ensuring", "creating", "checking"}

Ensuring == {"ensuring", "creating", "providing", "seeding"}

PatchSteps == {"check_revision", "status", "apply", "reread", "record", "patched"}

Situated(x) ==
  /\ call[x].pc \in Ensuring =>
       call[x].kind \in {"patch", "capture", "import", "stat"}
  /\ call[x].pc \in PatchSteps => call[x].kind = "patch"
  /\ call[x].kind = "patch" => call[x].patch \in Patches
  /\ call[x].pc \notin Unplaced =>
       call[x].handle \in Handles /\ row[call[x].handle] \in Rows
  /\ call[x].pc \in {"record", "mark", "bump_compare", "bump_read", "bump"} =>
       call[x].seen \in Rows
  /\ call[x].pc = "record" => call[x].seen.revision = call[x].expected
  /\ call[x].pc = "drift" => call[x].reads \in {"whole", "torn"}
  /\ call[x].pc # "idle" => call[x].id \in 1..calls

Located == \A x \in Callers : Situated(x)

TInv == TypeOK /\ Located

-----------------------------------------------------------------------------
(* A step of one call.                                                     *)

(* The other calls stay where they are, and no row is lost. *)
OnlyCall(x) ==
  /\ call' \in [Callers -> CallStates]
  /\ \A y \in Callers : y # x => call'[y] = call[y]
  /\ row' \in [Handles -> Rows \cup {NoRow}]
  /\ \A h \in Handles : row[h] \in Rows => row'[h] \in Rows
  /\ calls' >= calls

LEMMA IdleIs ==
  Idle \in CallStates /\ Idle.pc = "idle" /\ Idle.kind = "none"
BY BoundsAssumption DEF BoundsAssumption, Idle, CallStates, Steps, Candidates, NoCandidate

LEMMA NoRowApart == NoRow \notin Rows
BY DEF NoRow, Rows

LEMMA Counting ==
  ASSUME TInv
  PROVE  calls \in Nat /\ MaxCalls \in Nat /\ calls <= MaxCalls
<1>1. calls \in 0..MaxCalls
  BY DEF TInv, TypeOK
<1>2. MaxCalls \in Nat
  BY BoundsAssumption DEF BoundsAssumption
<1> QED BY <1>1, <1>2

(* The others know what they knew. *)
LEMMA SituatedStays ==
  ASSUME TInv, NEW x \in Callers, OnlyCall(x), Situated(x)', calls' \in Nat
  PROVE  Located'
<1> SUFFICES ASSUME NEW y \in Callers, y # x PROVE Situated(y)'
  BY DEF Located
<1>1. call'[y] = call[y] /\ Situated(y) /\ calls \in Nat /\ calls' >= calls
  BY Counting DEF OnlyCall, TInv, Located
<1>2. row[call[y].handle] \in Rows /\ call[y].handle \in Handles =>
        row'[call[y].handle] \in Rows
  BY DEF OnlyCall
<1>3. 1..calls \subseteq 1..calls'
  BY <1>1
<1> QED BY <1>1, <1>2, <1>3 DEF Situated

(* A call that ends. *)
LEMMA DoneIs ==
  ASSUME TInv, NEW x \in Callers, Done(x),
         row' \in [Handles -> Rows \cup {NoRow}],
         \A h \in Handles : row[h] \in Rows => row'[h] \in Rows,
         calls' = calls
  PROVE  OnlyCall(x) /\ Situated(x)' /\ call'[x] = Idle
<1>1. call'[x] = Idle /\ \A y \in Callers : y # x => call'[y] = call[y]
  BY DEF Done, TInv, TypeOK
<1>2. call' \in [Callers -> CallStates]
  BY IdleIs DEF Done, TInv, TypeOK
<1>3. Situated(x)'
  BY <1>1 DEF Idle, Situated, Ensuring, PatchSteps, Unplaced
<1>4. calls' >= calls
  BY Counting
<1> QED BY <1>1, <1>2, <1>3, <1>4 DEF OnlyCall

(* A call that goes on with nothing but its next step. *)
LEMMA GotoIs ==
  ASSUME TInv, NEW x \in Callers, NEW pc \in Steps, Goto(x, pc)
  PROVE  /\ call' \in [Callers -> CallStates]
         /\ \A y \in Callers : y # x => call'[y] = call[y]
         /\ call'[x].pc = pc
         /\ call'[x].kind = call[x].kind /\ call'[x].id = call[x].id
         /\ call'[x].handle = call[x].handle /\ call'[x].patch = call[x].patch
         /\ call'[x].expected = call[x].expected /\ call'[x].seen = call[x].seen
         /\ call'[x].candidate = call[x].candidate /\ call'[x].reads = call[x].reads
<1>1. call[x] \in CallStates /\ call \in [Callers -> CallStates]
  BY DEF TInv, TypeOK
<1> QED BY <1>1 DEF Goto, CallStates

RowsKept ==
  /\ row' \in [Handles -> Rows \cup {NoRow}]
  /\ \A h \in Handles : row[h] \in Rows => row'[h] \in Rows
  /\ calls' = calls

LEMMA RowsUnchanged ==
  ASSUME TInv, UNCHANGED <<row, calls>>
  PROVE  RowsKept
BY DEF RowsKept, TInv, TypeOK

(* A call knows at its next step what it knew, and a fact more. *)
LEMMA GoesOn ==
  ASSUME TInv, NEW x \in Callers, NEW pc \in Steps, Goto(x, pc), RowsKept,
         call[x].pc # "idle", pc \notin Ensuring,
         pc \in PatchSteps => call[x].kind = "patch",
         pc \notin Unplaced =>
           call[x].handle \in Handles /\ row'[call[x].handle] \in Rows,
         pc \in {"record", "mark", "bump_compare", "bump_read", "bump"} =>
           call[x].seen \in Rows,
         pc \notin {"record", "drift"}
  PROVE  OnlyCall(x) /\ Situated(x)' /\ call'[x].id = call[x].id /\ call'[x].pc = pc
<1>1. OnlyCall(x)
  BY GotoIs, Counting DEF OnlyCall, RowsKept
<1>2. Situated(x) /\ calls' = calls
  BY DEF TInv, Located, RowsKept
<1>3. call'[x].id \in 1..calls'
  BY <1>2, GotoIs DEF Situated
<1>4. call'[x].kind = "patch" => call'[x].patch \in Patches
  BY <1>2, GotoIs DEF Situated
<1> QED BY <1>1, <1>3, <1>4, GotoIs DEF Situated

(* A placed call that goes on. *)
LEMMA PlacedGoesOn ==
  ASSUME TInv, NEW x \in Callers, NEW pc \in Steps, Goto(x, pc), RowsKept,
         call[x].pc \notin Unplaced, pc \notin Ensuring,
         pc \in PatchSteps => call[x].kind = "patch",
         pc \in {"record", "mark", "bump_compare", "bump_read", "bump"} =>
           call[x].seen \in Rows,
         pc \notin {"record", "drift"}
  PROVE  OnlyCall(x) /\ Situated(x)' /\ call'[x].id = call[x].id /\ call'[x].pc = pc
<1>1. call[x].handle \in Handles /\ row[call[x].handle] \in Rows
  BY DEF TInv, Located, Situated
<1>2. row'[call[x].handle] \in Rows /\ call[x].pc # "idle"
  BY <1>1 DEF RowsKept, Unplaced
<1> QED BY <1>1, <1>2, GoesOn

Moves(x) ==
  /\ OnlyCall(x) /\ Situated(x)'
  /\ call'[x] = Idle \/ (call[x].pc # "idle" /\ call'[x].id = call[x].id)

LEMMA EndsMoves ==
  ASSUME TInv, NEW x \in Callers, Done(x), RowsKept
  PROVE  Moves(x)
BY DoneIs DEF Moves, RowsKept

LEMMA PlacedMoves ==
  ASSUME TInv, NEW x \in Callers, NEW pc \in Steps, Goto(x, pc), RowsKept,
         call[x].pc \notin Unplaced, pc \notin Ensuring,
         pc \in PatchSteps => call[x].kind = "patch",
         pc \in {"record", "mark", "bump_compare", "bump_read", "bump"} =>
           call[x].seen \in Rows,
         pc \notin {"record", "drift"}
  PROVE  Moves(x) /\ call'[x].pc = pc
BY PlacedGoesOn DEF Moves, Unplaced

(* It is not about to answer a patch, nor at the checks. *)
Aside(x) ==
  call'[x].pc \notin {"patched", "checking", "freezing", "worktree", "tool", "drift"}

(* From the workspace to the first step of each tool. *)
LEMMA EnsuringMoves ==
  ASSUME TInv, NEW x \in Callers,
         \/ EnsureFind(x) \/ (\E h \in Handles : create(x, h))
         \/ EnsureProvide(x) \/ EnsureSeed(x)
  PROVE  Moves(x) /\ RowsKept /\ Aside(x)
<1>1. /\ call \in [Callers -> CallStates] /\ call[x] \in CallStates /\ Situated(x)
      /\ row \in [Handles -> Rows \cup {NoRow}]
  BY DEF TInv, TypeOK, Located
<1>2. ASSUME NEW pc \in Steps, Goto(x, pc), call[x].pc \in Ensuring, RowsKept,
             pc \in Ensuring \/ pc = AfterEnsure(call[x].kind),
             pc \notin Unplaced => call[x].pc \notin Unplaced
      PROVE  Moves(x) /\ Aside(x)
  <2>1. OnlyCall(x)
    BY <1>2, GotoIs, Counting DEF OnlyCall, RowsKept
  <2>2. call'[x].pc \in PatchSteps => call'[x].kind = "patch"
    BY <1>1, <1>2, GotoIs DEF AfterEnsure, Situated, PatchSteps, Ensuring
  <2>3. /\ call'[x].pc \in Ensuring => call'[x].kind \in {"patch", "capture", "import", "stat"}
        /\ call'[x].pc \notin {"record", "mark", "bump_compare", "bump_read", "bump"}
        /\ Aside(x)
    BY <1>1, <1>2, GotoIs DEF AfterEnsure, Situated, Ensuring, Aside
  <2>4. call'[x].pc \notin Unplaced =>
          call'[x].handle \in Handles /\ row'[call'[x].handle] \in Rows
    BY <1>1, <1>2, GotoIs DEF Situated, RowsKept
  <2>5. call'[x].kind = "patch" => call'[x].patch \in Patches
    BY <1>1, <1>2, GotoIs DEF Situated
  <2>6. call[x].pc # "idle" /\ call'[x].id = call[x].id /\ call'[x].id \in 1..calls'
    BY <1>1, <1>2, GotoIs DEF Situated, Ensuring, RowsKept
  <2> QED BY <2>1, <2>2, <2>3, <2>4, <2>5, <2>6 DEF Moves, Situated, Aside
<1>3. CASE EnsureFind(x)
  <2>1. RowsKept
    BY <1>3, RowsUnchanged DEF EnsureFind, stores, tallies
  <2>2. CASE Goto(x, "creating")
    BY <1>2, <1>3, <2>1, <2>2 DEF EnsureFind, At, Ensuring, Unplaced, Steps
  <2>3. CASE \E h \in Handles : /\ Latest(h)
               /\ call' = [call EXCEPT ![x].pc = "providing", ![x].handle = h,
                                       ![x].floor = Found(h)]
    <3>1. PICK h \in Handles : /\ row[h] # NoRow
             /\ call' = [call EXCEPT ![x].pc = "providing", ![x].handle = h,
                                     ![x].floor = Found(h)]
      BY <2>3 DEF Latest, Known
    <3>2. Found(h) \in SUBSET Patches
      BY DEF Found, TInv, TypeOK
    <3>3. call'[x] = [call[x] EXCEPT !.pc = "providing", !.handle = h, !.floor = Found(h)]
      BY <1>1, <3>1
    <3>4. PICK f \in SUBSET Patches : f = Found(h)
      BY <3>2
    <3>0. "providing" \in Steps
      BY DEF Steps
    <3>5. /\ call'[x] \in CallStates /\ call'[x].pc = "providing"
          /\ call'[x].handle = h /\ call'[x].kind = call[x].kind
          /\ call'[x].patch = call[x].patch /\ call'[x].id = call[x].id
      BY <3>0, <1>1, <3>3, <3>4 DEF CallStates
    <3>6. OnlyCall(x)
      BY <1>1, <2>1, <3>1, <3>5, Counting DEF OnlyCall, RowsKept
    <3>7. call[x].pc = "ensuring" /\ calls' = calls /\ row'[h] \in Rows
      BY <1>1, <1>3, <2>1, <3>1 DEF EnsureFind, At, RowsKept
    <3> QED BY <1>1, <2>1, <3>1, <3>5, <3>6, <3>7
            DEF Moves, Situated, Ensuring, PatchSteps, Aside
  <2> QED BY <1>3, <2>1, <2>2, <2>3 DEF EnsureFind
<1>4. CASE \E h \in Handles : create(x, h)
  <2>1. PICK h \in Handles : create(x, h)
    BY <1>4
  <2>2. [NoRow EXCEPT !.revision = 0, !.dirty = TRUE] \in Rows
    BY DEF NoRow, Rows, NoCandidate, Candidates
  <2>3. RowsKept /\ row'[h] \in Rows
    BY <1>1, <2>1, <2>2, NoRowApart DEF create, RowsKept, tallies
  <2>4. call'[x] = [call[x] EXCEPT !.pc = "providing", !.handle = h]
    BY <1>1, <2>1 DEF create
  <2>0. "providing" \in Steps
    BY DEF Steps
  <2>5. /\ call'[x] \in CallStates /\ call'[x].pc = "providing"
        /\ call'[x].handle = h /\ call'[x].kind = call[x].kind
        /\ call'[x].patch = call[x].patch /\ call'[x].id = call[x].id
    BY <2>0, <1>1, <2>4 DEF CallStates
  <2>6. OnlyCall(x)
    <3>1. /\ call' \in [Callers -> CallStates]
          /\ \A y \in Callers : y # x => call'[y] = call[y]
      BY <1>1, <2>1, <2>5 DEF create
    <3> QED BY <2>3, <3>1, Counting DEF OnlyCall, RowsKept
  <2>7. call[x].pc = "creating" /\ calls' = calls
    BY <2>1, <2>3 DEF create, At, RowsKept
  <2> QED BY <1>1, <2>3, <2>5, <2>6, <2>7
          DEF Moves, Situated, Ensuring, PatchSteps, Aside
<1>5. CASE EnsureProvide(x)
  <2>1. RowsKept
    BY <1>5, RowsUnchanged DEF EnsureProvide, stores, tallies
  <2>2. call[x].kind \in {"patch", "capture", "import", "stat"}
    BY <1>1, <1>5 DEF EnsureProvide, At, Situated, Ensuring
  <2>3. AfterEnsure(call[x].kind) \in Steps
    BY <2>2 DEF AfterEnsure, Steps
  <2>4. Goto(x, AfterEnsure(call[x].kind)) \/ Goto(x, "seeding")
    BY <1>5 DEF EnsureProvide
  <2>5. call[x].pc = "providing" /\ "seeding" \in Steps
    BY <1>5 DEF EnsureProvide, At, Steps
  <2> QED BY <1>2, <2>1, <2>3, <2>4, <2>5 DEF Ensuring, Unplaced
<1>6. CASE EnsureSeed(x)
  <2>1. RowsKept
    BY <1>6, RowsUnchanged DEF EnsureSeed, stores, tallies
  <2>2. call[x].kind \in {"patch", "capture", "import", "stat"} /\ call[x].pc = "seeding"
    BY <1>1, <1>6 DEF EnsureSeed, At, Situated, Ensuring
  <2>3. AfterEnsure(call[x].kind) \in Steps
    BY <2>2 DEF AfterEnsure, Steps
  <2> QED BY <1>2, <1>6, <2>1, <2>2, <2>3 DEF EnsureSeed, Ensuring, Unplaced
<1> QED BY <1>3, <1>4, <1>5, <1>6

(* A write of the row puts a row there with the revision it was told. *)
LEMMA RewritesKeeps ==
  ASSUME TInv, NEW x \in Callers, NEW pc \in Steps, NEW state \in Rows, NEW expected,
         Rewrites(x, state, expected, pc), calls' = calls,
         call[x].pc \notin Unplaced, pc \notin Ensuring,
         pc \in PatchSteps => call[x].kind = "patch",
         pc \in {"record", "mark", "bump_compare", "bump_read", "bump"} =>
           call[x].seen \in Rows,
         pc \notin {"record", "drift"}
  PROVE  /\ Moves(x) /\ RowsKept
         /\ \/ call'[x].pc = pc /\ row[call[x].handle].revision = expected
               /\ row' = [row EXCEPT ![call[x].handle] = state]
            \/ call'[x] = Idle /\ row' = row
<1>1. call[x].handle \in Handles /\ row \in [Handles -> Rows \cup {NoRow}]
  BY DEF TInv, TypeOK, Located, Situated
<1>2. CASE /\ put_workspace_state(call[x].handle, state, expected)
           /\ Goto(x, pc)
  <2>1. RowsKept
    BY <1>1, <1>2 DEF put_workspace_state, RowsKept
  <2> QED BY <1>2, <2>1, PlacedMoves DEF put_workspace_state
<1>3. CASE Done(x) /\ UNCHANGED row
  <2>1. RowsKept
    BY <1>1, <1>3, RowsUnchanged
  <2> QED BY <1>3, <2>1, EndsMoves, DoneIs DEF RowsKept
<1> QED BY <1>2, <1>3 DEF Rewrites

LEMMA PatchMoves ==
  ASSUME TInv, NEW x \in Callers,
         \/ ApplyCompare(x) \/ ApplyStatus(x) \/ Apply(x) \/ ApplyReread(x)
         \/ ApplyAnswer(x)
  PROVE  Moves(x) /\ RowsKept /\ Aside(x)
<1>1. /\ call \in [Callers -> CallStates] /\ call[x] \in CallStates /\ Situated(x)
      /\ row \in [Handles -> Rows \cup {NoRow}]
  BY DEF TInv, TypeOK, Located
<1>2. RowsKept
  BY RowsUnchanged DEF ApplyCompare, ApplyStatus, Apply, ApplyReread, ApplyAnswer,
     stores, tallies
<1>3. call[x].pc \in PatchSteps
  BY DEF ApplyCompare, ApplyStatus, Apply, ApplyReread, ApplyAnswer, At, PatchSteps
<1>4. call[x].pc \notin Unplaced /\ call[x].kind = "patch"
  BY <1>1, <1>3 DEF Situated, PatchSteps, Unplaced
<1>5. ASSUME Done(x)
      PROVE  Moves(x) /\ Aside(x)
  BY <1>2, <1>5, EndsMoves, DoneIs, IdleIs DEF RowsKept, Aside
<1>6. ASSUME NEW pc \in {"status", "apply", "reread"}, Goto(x, pc)
      PROVE  Moves(x) /\ Aside(x)
  <2>1. pc \in Steps
    BY DEF Steps
  <2> QED BY <1>2, <1>4, <1>6, <2>1, PlacedMoves DEF Ensuring, Aside
<1>7. CASE ApplyReread(x) /\ ~Done(x)
  <2> DEFINE seen == row[call[x].handle]
  <2>1. /\ call' = [call EXCEPT ![x].pc = "record", ![x].seen = seen]
        /\ seen.revision = call[x].expected
    BY <1>7 DEF ApplyReread
  <2>2. seen \in Rows /\ call[x].handle \in Handles
    BY <1>1, <1>4 DEF Situated
  <2> HIDE DEF seen
  <2>3. call'[x] = [call[x] EXCEPT !.pc = "record", !.seen = seen]
    BY <1>1, <2>1
  <2>0. "record" \in Steps
    BY DEF Steps
  <2>4. /\ call'[x] \in CallStates /\ call'[x].pc = "record"
        /\ call'[x].handle = call[x].handle /\ call'[x].kind = call[x].kind
        /\ call'[x].patch = call[x].patch /\ call'[x].id = call[x].id
        /\ call'[x].seen = seen /\ call'[x].expected = call[x].expected
    BY <2>0, <1>1, <2>2, <2>3 DEF CallStates
  <2>5. /\ call' \in [Callers -> CallStates]
        /\ \A y \in Callers : y # x => call'[y] = call[y]
    BY <1>1, <2>1, <2>4
  <2>6. OnlyCall(x)
    BY <1>2, <2>5, Counting DEF OnlyCall, RowsKept
  <2>7. row'[call[x].handle] \in Rows /\ calls' = calls /\ call[x].pc # "idle"
    BY <1>1, <1>2, <1>4 DEF Situated, RowsKept, Unplaced
  <2>8. Situated(x)'
    BY <1>1, <1>4, <2>1, <2>2, <2>4, <2>7 DEF Situated, Ensuring, PatchSteps
  <2> QED BY <1>2, <2>4, <2>6, <2>7, <2>8 DEF Moves, Aside
<1>8. CASE ApplyCompare(x)
  BY <1>2, <1>5, <1>6, <1>8 DEF ApplyCompare
<1>9. CASE ApplyStatus(x)
  BY <1>2, <1>5, <1>6, <1>9 DEF ApplyStatus
<1>10. CASE Apply(x)
  BY <1>2, <1>5, <1>6, <1>10 DEF Apply
<1>11. CASE ApplyAnswer(x)
  BY <1>2, <1>5, <1>11 DEF ApplyAnswer
<1> QED BY <1>2, <1>5, <1>7, <1>8, <1>9, <1>10, <1>11

(* The row that a patch records is that of the revision it expected, with  *)
(* the next revision.                                                      *)
LEMMA RecordMoves ==
  ASSUME TInv, NEW x \in Callers, ApplyRecord(x)
  PROVE  /\ Moves(x) /\ RowsKept
         /\ \/ /\ call'[x].pc = "patched" /\ call'[x].handle = call[x].handle
               /\ call'[x].expected = call[x].expected /\ call'[x].patch = call[x].patch
               /\ row[call[x].handle].revision = call[x].expected
               /\ row'[call[x].handle].revision = call[x].expected + 1
            \/ call'[x] = Idle /\ row' = row
         /\ \A h \in Handles : h # call[x].handle => row'[h] = row[h]
<1> DEFINE next == [call[x].seen EXCEPT !.dirty = TRUE, !.revision = @ + 1]
<1>1. /\ call \in [Callers -> CallStates] /\ call[x] \in CallStates /\ Situated(x)
      /\ row \in [Handles -> Rows \cup {NoRow}]
  BY DEF TInv, TypeOK, Located
<1>2. call[x].pc = "record" /\ Rewrites(x, next, call[x].expected, "patched") /\ calls' = calls
  BY DEF ApplyRecord, At, tallies
<1>3. /\ call[x].seen \in Rows /\ call[x].seen.revision = call[x].expected
      /\ call[x].handle \in Handles /\ call[x].kind = "patch"
  BY <1>1, <1>2 DEF Situated, Unplaced, PatchSteps
<1>4. next \in Rows /\ next.revision = call[x].expected + 1
  <2>1. PICK seen \in Rows : seen = call[x].seen
    BY <1>3
  <2>2. PICK n \in Nat : n = seen.revision + 1
    BY DEF Rows
  <2>3. PICK marked \in Rows : marked = [seen EXCEPT !.dirty = TRUE]
    BY Zenon DEF Rows
  <2>4. [marked EXCEPT !.revision = n] \in Rows /\ [marked EXCEPT !.revision = n].revision = n
    BY DEF Rows
  <2> QED BY <1>3, <2>1, <2>2, <2>3, <2>4
<1> HIDE DEF next
<1>5. PICK state \in Rows : state = next
  BY <1>4
<1>6. /\ Moves(x) /\ RowsKept
      /\ \/ call'[x].pc = "patched" /\ row[call[x].handle].revision = call[x].expected
            /\ row' = [row EXCEPT ![call[x].handle] = state]
         \/ call'[x] = Idle /\ row' = row
  <2>1. /\ "patched" \in Steps
        /\ "patched" \notin Ensuring \cup
             {"record", "mark", "bump_compare", "bump_read", "bump", "drift"}
    BY DEF Ensuring, Steps
  <2>2. call[x].pc \notin Unplaced
    BY <1>2 DEF Unplaced
  <2> QED BY <1>2, <1>3, <1>5, <2>1, <2>2, RewritesKeeps
<1>7. call'[x] # Idle => Goto(x, "patched")
  BY <1>1, <1>2 DEF Rewrites, Done
<1>8. "patched" \in Steps
  BY DEF Steps
<1>9. CASE call'[x] = Idle
  BY <1>6, <1>9, IdleIs
<1>10. CASE call'[x] # Idle
  BY <1>1, <1>3, <1>4, <1>5, <1>6, <1>7, <1>8, <1>10, GotoIs
<1> QED BY <1>9, <1>10

(* The same call, at a step that needs no more than the place it has. *)
SameCall(x) ==
  /\ call' \in [Callers -> CallStates]
  /\ \A y \in Callers : y # x => call'[y] = call[y]
  /\ call'[x].kind = call[x].kind /\ call'[x].id = call[x].id
  /\ call'[x].handle = call[x].handle /\ call'[x].patch = call[x].patch

LEMMA SameCallMoves ==
  ASSUME TInv, NEW x \in Callers, SameCall(x), RowsKept,
         call[x].pc \notin Unplaced,
         call'[x].pc \notin Unplaced \cup Ensuring \cup PatchSteps,
         call'[x].pc \in {"mark", "bump_compare", "bump_read", "bump"} =>
           call'[x].seen \in Rows,
         call'[x].pc = "drift" => call'[x].reads \in {"whole", "torn"}
  PROVE  Moves(x)
<1>1. Situated(x) /\ call[x].pc # "idle"
  BY DEF TInv, Located, Unplaced
<1>2. call[x].handle \in Handles /\ row'[call[x].handle] \in Rows /\ calls' = calls
  BY <1>1 DEF Situated, RowsKept
<1>3. OnlyCall(x)
  BY Counting DEF SameCall, OnlyCall, RowsKept
<1>4. call'[x].pc # "record" /\ call'[x].pc \notin PatchSteps
  BY DEF PatchSteps
<1>5. Situated(x)'
  BY <1>1, <1>2, <1>4 DEF Situated, SameCall
<1> QED BY <1>1, <1>3, <1>5 DEF Moves, SameCall

LEMMA CaptureMoves ==
  ASSUME TInv, NEW x \in Callers,
         \/ CaptureBase(x) \/ CaptureAdd(x) \/ CaptureTree(x) \/ CaptureVersion(x)
         \/ CaptureFind(x) \/ CapturePut(x) \/ CaptureCommit(x)
         \/ (\E accepted, activated \in BOOLEAN : CaptureCommand(x, accepted, activated))
         \/ ActivateSet(x)
  PROVE  Moves(x) /\ RowsKept /\ Aside(x)
<1>1. /\ call \in [Callers -> CallStates] /\ call[x] \in CallStates /\ Situated(x)
      /\ disk \in [Handles -> Repositories]
  BY DEF TInv, TypeOK, Located
<1>2. RowsKept
  BY RowsUnchanged DEF CaptureBase, CaptureAdd, CaptureTree, CaptureVersion,
     CaptureFind, CapturePut, CaptureCommit, CaptureCommand, ActivateSet,
     stores, tallies
<1> SUFFICES Moves(x) /\ Aside(x)
  BY <1>2
<1>3. call[x].pc \in {"base_commit", "add", "write_tree", "version", "find", "put",
                      "revision", "runtime", "set_active"}
  BY DEF CaptureBase, CaptureAdd, CaptureTree, CaptureVersion, CaptureFind,
     CapturePut, CaptureCommit, CaptureCommand, ActivateSet, At
<1>4. call[x].pc \notin Unplaced /\ call[x].handle \in Handles
  BY <1>1, <1>3 DEF Situated, Unplaced
<1>5. ASSUME Done(x)
      PROVE  Moves(x) /\ Aside(x)
  BY <1>2, <1>5, EndsMoves, DoneIs, IdleIs DEF RowsKept, Aside
<1>6. ASSUME NEW pc \in {"write_tree", "put", "revision", "runtime", "promote"}, Goto(x, pc)
      PROVE  Moves(x) /\ Aside(x)
  <2>1. pc \in Steps
    BY DEF Steps
  <2> QED BY <1>2, <1>4, <1>6, <2>1, PlacedMoves DEF Ensuring, PatchSteps, Aside
<1>7. ASSUME NEW c \in Candidates, NEW pc \in {"add", "version", "find"},
             call' = [call EXCEPT ![x] = [call[x] EXCEPT !.pc = pc, !.candidate = c]]
      PROVE  Moves(x) /\ Aside(x)
  <2>1. call'[x] = [call[x] EXCEPT !.pc = pc, !.candidate = c]
    BY <1>1, <1>7
  <2>0. pc \in Steps
    BY DEF Steps
  <2>2. /\ call'[x] \in CallStates /\ call'[x].pc = pc
        /\ call'[x].handle = call[x].handle /\ call'[x].kind = call[x].kind
        /\ call'[x].patch = call[x].patch /\ call'[x].id = call[x].id
    BY <2>0, <1>1, <2>1 DEF CallStates
  <2>3. SameCall(x)
    BY <1>1, <1>7, <2>2 DEF SameCall
  <2>4. pc \notin Unplaced \cup Ensuring \cup PatchSteps
    BY DEF Unplaced, Ensuring, PatchSteps
  <2> QED BY <1>2, <1>4, <2>2, <2>3, <2>4, SameCallMoves DEF Aside
<1>8. PICK old \in Candidates : old = call[x].candidate
  BY <1>1 DEF CallStates
<1>9. PICK d \in Repositories : d = disk[call[x].handle]
  BY <1>1, <1>4
<1>10. CASE CaptureBase(x) /\ ~Done(x)
  <2>1. [old EXCEPT !.base = d.base] \in Candidates
    BY DEF Candidates, Repositories
  <2>2. PICK c \in Candidates : c = [old EXCEPT !.base = d.base]
    BY <2>1
  <2>3. call' = [call EXCEPT ![x] = [call[x] EXCEPT !.pc = "add", !.candidate = c]]
    BY <1>1, <1>8, <1>9, <1>10, <2>2 DEF CaptureBase, CallStates
  <2> QED BY <1>7, <2>3
<1>11. CASE CaptureTree(x) /\ ~Done(x)
  <2>1. [old EXCEPT !.tree = d.index] \in Candidates
    BY DEF Candidates, Repositories
  <2>2. PICK c \in Candidates : c = [old EXCEPT !.tree = d.index]
    BY <2>1
  <2>3. call' = [call EXCEPT ![x] = [call[x] EXCEPT !.pc = "version", !.candidate = c]]
    BY <1>1, <1>8, <1>9, <1>11, <2>2 DEF CaptureTree, CallStates
  <2> QED BY <1>7, <2>3
<1>12. CASE CaptureVersion(x)
  <2>1. [old EXCEPT !.version = d.work \cap Bumps] \in Candidates
    BY DEF Candidates, Repositories
  <2>2. PICK c \in Candidates : c = [old EXCEPT !.version = d.work \cap Bumps]
    BY <2>1
  <2>3. call' = [call EXCEPT ![x] = [call[x] EXCEPT !.pc = "find", !.candidate = c]]
    BY <1>1, <1>8, <1>9, <1>12, <2>2
       DEF CaptureVersion, read_changelog_first_entry, CallStates
  <2> QED BY <1>7, <2>3
<1>13. CASE CaptureAdd(x)
  BY <1>5, <1>6, <1>13 DEF CaptureAdd
<1>14. CASE CaptureFind(x)
  BY <1>6, <1>14 DEF CaptureFind
<1>15. CASE CapturePut(x)
  BY <1>5, <1>6, <1>15 DEF CapturePut
<1>16. CASE CaptureCommit(x)
  BY <1>5, <1>6, <1>16 DEF CaptureCommit
<1>17. CASE \E accepted, activated \in BOOLEAN : CaptureCommand(x, accepted, activated)
  BY <1>5, <1>6, <1>17 DEF CaptureCommand
<1>18. CASE ActivateSet(x)
  BY <1>5, <1>18 DEF ActivateSet
<1> QED BY <1>2, <1>5, <1>10, <1>11, <1>12, <1>13, <1>14, <1>15, <1>16, <1>17, <1>18

RevisionsKept == \A h \in Handles : row'[h].revision >= row[h].revision

LEMMA RevisionsAre ==
  ASSUME TInv
  PROVE  \A h \in Handles : row[h].revision \in Int
<1> SUFFICES ASSUME NEW h \in Handles PROVE row[h].revision \in Int
  OBVIOUS
<1>1. row[h] \in Rows \/ row[h] = NoRow
  BY DEF TInv, TypeOK
<1> QED BY <1>1 DEF Rows, NoRow

LEMMA RevisionsUnchanged ==
  ASSUME TInv, UNCHANGED row
  PROVE  RevisionsKept
BY RevisionsAre DEF RevisionsKept

LEMMA RevisionsRewritten ==
  ASSUME TInv, NEW x \in Callers, NEW state \in Rows, call[x].handle \in Handles,
         \/ /\ row' = [row EXCEPT ![call[x].handle] = state]
            /\ state.revision >= row[call[x].handle].revision
         \/ row' = row
  PROVE  RevisionsKept
<1>1. row \in [Handles -> Rows \cup {NoRow}]
  BY DEF TInv, TypeOK
<1> QED BY <1>1, RevisionsAre DEF RevisionsKept

LEMMA RowStates ==
  ASSUME NEW seen \in Rows
  PROVE  /\ seen.revision \in Nat
         /\ \A c \in Candidates :
              /\ [seen EXCEPT !.base = c, !.dirty = FALSE] \in Rows
              /\ [seen EXCEPT !.base = c, !.dirty = FALSE].revision = seen.revision
         /\ \A n \in Nat : /\ [seen EXCEPT !.revision = n] \in Rows
                            /\ [seen EXCEPT !.revision = n].revision = n
<1>1. seen.revision \in Nat
  BY DEF Rows
<1>2. ASSUME NEW c \in Candidates
      PROVE  /\ [seen EXCEPT !.base = c, !.dirty = FALSE] \in Rows
             /\ [seen EXCEPT !.base = c, !.dirty = FALSE].revision = seen.revision
  <2>1. PICK based \in Rows : based = [seen EXCEPT !.base = c]
    BY Zenon DEF Rows
  <2>2. based.revision = seen.revision
    BY <2>1 DEF Rows
  <2>3. [based EXCEPT !.dirty = FALSE] \in Rows
        /\ [based EXCEPT !.dirty = FALSE].revision = based.revision
    BY DEF Rows
  <2> QED BY <2>1, <2>2, <2>3
<1>3. ASSUME NEW n \in Nat
      PROVE  [seen EXCEPT !.revision = n] \in Rows /\ [seen EXCEPT !.revision = n].revision = n
  BY DEF Rows
<1> QED BY <1>1, <1>2, <1>3

(* An activation: the row it read, the mark on it, and the bump. *)
LEMMA ActivateMoves ==
  ASSUME TInv, NEW x \in Callers,
         \/ ActivateRead(x) \/ ActivateMark(x) \/ BumpCompare(x) \/ BumpRead(x)
         \/ Bump(x)
  PROVE  /\ Moves(x) /\ RowsKept /\ Aside(x)
         /\ "stale bump" \in history' \/ RevisionsKept
<1>1. /\ call \in [Callers -> CallStates] /\ call[x] \in CallStates /\ Situated(x)
      /\ row \in [Handles -> Rows \cup {NoRow}]
  BY DEF TInv, TypeOK, Located
<1>2. call[x].pc \in {"promote", "mark", "bump_compare", "bump_read", "bump"}
  BY DEF ActivateRead, ActivateMark, BumpCompare, BumpRead, Bump, At
<1>3. /\ call[x].pc \notin Unplaced /\ call[x].handle \in Handles
      /\ row[call[x].handle] \in Rows
  BY <1>1, <1>2 DEF Situated, Unplaced
<1>4. calls' = calls
  BY DEF ActivateRead, ActivateMark, BumpCompare, BumpRead, Bump, stores, tallies
<1>5. ASSUME Done(x), UNCHANGED row
      PROVE  Moves(x) /\ RowsKept /\ Aside(x) /\ RevisionsKept
  BY <1>4, <1>5, EndsMoves, DoneIs, IdleIs, RowsUnchanged, RevisionsUnchanged
     DEF RowsKept, Aside
<1>6. ASSUME NEW pc \in Steps, SameCall(x), UNCHANGED row, call'[x].pc = pc,
             pc \in {"mark", "bump_read", "bump"}, call'[x].seen \in Rows
      PROVE  Moves(x) /\ RowsKept /\ Aside(x) /\ RevisionsKept
  <2>1. RowsKept /\ RevisionsKept
    BY <1>4, <1>6, RowsUnchanged, RevisionsUnchanged
  <2>2. pc \notin Unplaced \cup Ensuring \cup PatchSteps
    BY <1>6 DEF Unplaced, Ensuring, PatchSteps
  <2> QED BY <1>3, <1>6, <2>1, <2>2, SameCallMoves DEF Aside
<1>7. CASE ActivateRead(x)
  <2>1. PICK seen \in Rows : seen = row[call[x].handle]
    BY <1>3
  <2>2. /\ UNCHANGED row
        /\ call' = [call EXCEPT ![x] = [call[x] EXCEPT !.pc = "mark", !.seen = seen]]
    BY <1>1, <1>7, <2>1 DEF ActivateRead, stores
  <2>3. call'[x] = [call[x] EXCEPT !.pc = "mark", !.seen = seen]
    BY <1>1, <2>2
  <2>0. "mark" \in Steps
    BY DEF Steps
  <2>4. /\ call'[x] \in CallStates /\ call'[x].pc = "mark" /\ call'[x].seen = seen
        /\ call'[x].handle = call[x].handle /\ call'[x].kind = call[x].kind
        /\ call'[x].patch = call[x].patch /\ call'[x].id = call[x].id
    BY <2>0, <1>1, <2>3 DEF CallStates
  <2>5. SameCall(x)
    BY <1>1, <2>2, <2>4 DEF SameCall
  <2>6. "mark" \in Steps
    BY DEF Steps
  <2> QED BY <1>6, <2>2, <2>4, <2>5, <2>6
<1>8. CASE ActivateMark(x)
  <2>1. PICK seen \in Rows : seen = call[x].seen
    BY <1>1, <1>8 DEF ActivateMark, At, Situated
  <2>2. PICK c \in Candidates : c = call[x].candidate
    BY <1>1 DEF CallStates
  <2>3. PICK state \in Rows : /\ state = [seen EXCEPT !.base = c, !.dirty = FALSE]
                              /\ state.revision = seen.revision
    BY RowStates
  <2>4. Rewrites(x, state, seen.revision, "bump_compare")
    BY <1>8, <2>1, <2>2, <2>3 DEF ActivateMark
  <2>5. "bump_compare" \in Steps
    BY DEF Steps
  <2>6. /\ Moves(x) /\ RowsKept
        /\ \/ call'[x].pc = "bump_compare" /\ row[call[x].handle].revision = seen.revision
              /\ row' = [row EXCEPT ![call[x].handle] = state]
           \/ call'[x] = Idle /\ row' = row
    BY <1>3, <1>4, <2>1, <2>4, <2>5, RewritesKeeps DEF Ensuring, PatchSteps
  <2>7. seen.revision \in Nat
    BY RowStates
  <2>8. \/ /\ row' = [row EXCEPT ![call[x].handle] = state]
           /\ state.revision >= row[call[x].handle].revision
        \/ row' = row
    BY <2>3, <2>6, <2>7
  <2>9. RevisionsKept
    BY <1>3, <2>8, RevisionsRewritten
  <2> QED BY <2>6, <2>9, IdleIs DEF Aside
<1>9. CASE BumpCompare(x)
  <2>1. call[x].seen \in Rows /\ UNCHANGED row
    BY <1>1, <1>9 DEF BumpCompare, At, Situated, stores
  <2>2. CASE Goto(x, "bump_read")
    <3>1. "bump_read" \in Steps
      BY DEF Steps
    <3>2. SameCall(x) /\ call'[x].pc = "bump_read" /\ call'[x].seen = call[x].seen
      BY <2>2, <3>1, GotoIs DEF SameCall
    <3> QED BY <1>6, <2>1, <3>1, <3>2
  <2> QED BY <1>5, <1>9, <2>1, <2>2 DEF BumpCompare
<1>10. CASE BumpRead(x)
  <2>1. PICK seen \in Rows : seen = row[call[x].handle]
    BY <1>3
  <2>2. call[x].seen \in Rows /\ UNCHANGED row
    BY <1>1, <1>10 DEF BumpRead, At, Situated, stores
  <2>3. PICK n \in Nat : n = call[x].seen.revision + 1
    <3>1. PICK old \in Rows : old = call[x].seen
      BY <2>2
    <3>2. old.revision \in Nat
      BY RowStates
    <3> QED BY <3>1, <3>2
  <2>4. call' = [call EXCEPT ![x] =
                   [call[x] EXCEPT !.pc = "bump", !.expected = n, !.seen = seen]]
    BY <1>1, <1>10, <2>1, <2>3 DEF BumpRead, CallStates
  <2>5. call'[x] = [call[x] EXCEPT !.pc = "bump", !.expected = n, !.seen = seen]
    BY <1>1, <2>4
  <2>0. "bump" \in Steps
    BY DEF Steps
  <2>6. /\ call'[x] \in CallStates /\ call'[x].pc = "bump" /\ call'[x].seen = seen
        /\ call'[x].handle = call[x].handle /\ call'[x].kind = call[x].kind
        /\ call'[x].patch = call[x].patch /\ call'[x].id = call[x].id
    BY <2>0, <1>1, <2>5 DEF CallStates
  <2>7. SameCall(x)
    BY <1>1, <2>4, <2>6 DEF SameCall
  <2>8. "bump" \in Steps
    BY DEF Steps
  <2> QED BY <1>6, <2>2, <2>6, <2>7, <2>8
<1>11. CASE Bump(x)
  <2>1. PICK seen \in Rows : seen = call[x].seen
    BY <1>1, <1>11 DEF Bump, At, Situated
  <2>2. PICK n \in Nat : n = call[x].expected
    BY <1>1 DEF CallStates
  <2>3. PICK state \in Rows : state = [seen EXCEPT !.revision = n] /\ state.revision = n
    BY RowStates
  <2>4. Rewrites(x, state, seen.revision, "set_active")
    BY <1>11, <2>1, <2>2, <2>3 DEF Bump
  <2>5. "set_active" \in Steps
    BY DEF Steps
  <2>6. /\ Moves(x) /\ RowsKept
        /\ \/ call'[x].pc = "set_active" /\ row[call[x].handle].revision = seen.revision
              /\ row' = [row EXCEPT ![call[x].handle] = state]
           \/ call'[x] = Idle /\ row' = row
    BY <1>3, <1>4, <2>4, <2>5, RewritesKeeps DEF Ensuring, PatchSteps
  <2>7. n <= seen.revision => "stale bump" \in history'
    BY <1>11, <2>1, <2>2 DEF Bump
  <2>8. seen.revision \in Nat
    BY RowStates
  <2>9. ASSUME n > seen.revision PROVE RevisionsKept
    <3>1. \/ /\ row' = [row EXCEPT ![call[x].handle] = state]
             /\ state.revision >= row[call[x].handle].revision
          \/ row' = row
      BY <2>3, <2>6, <2>8, <2>9
    <3> QED BY <1>3, <3>1, RevisionsRewritten
  <2>10. n <= seen.revision \/ n > seen.revision
    BY <2>8
  <2> QED BY <2>6, <2>7, <2>9, <2>10, IdleIs DEF Aside
<1> QED BY <1>7, <1>8, <1>9, <1>10, <1>11

(* The steps of an import, and of a check but for the tool it runs. *)
LEMMA OtherMoves ==
  ASSUME TInv, NEW x \in Callers,
         \/ Stat(x) \/ ImportChecks(x) \/ ImportClone(x)
         \/ (\E gitGone \in BOOLEAN, left \in SUBSET Contents : ImportClear(x, gitGone, left))
         \/ FreezeClear(x) \/ FreezeAdd(x) \/ CheckDrift(x) \/ CheckDrop(x)
  PROVE  /\ Moves(x) /\ RowsKept /\ UNCHANGED row
         /\ \/ Aside(x)
            \/ FreezeClear(x) /\ call'[x].pc = "worktree"
            \/ FreezeAdd(x) /\ call'[x].pc = "tool"
<1>1. Situated(x)
  BY DEF TInv, Located
<1>2. RowsKept /\ UNCHANGED row
  BY RowsUnchanged DEF Stat, ImportChecks, ImportClone, ImportClear, FreezeClear,
     FreezeAdd, CheckDrift, CheckDrop, stores, tallies
<1> SUFFICES /\ Moves(x)
             /\ \/ Aside(x)
                \/ FreezeClear(x) /\ call'[x].pc = "worktree"
                \/ FreezeAdd(x) /\ call'[x].pc = "tool"
  BY <1>2
<1>3. call[x].pc \in {"stat", "clearing_checks", "clearing", "cloning", "freezing",
                      "worktree", "drift", "dropping"}
  BY DEF Stat, ImportChecks, ImportClone, ImportClear, FreezeClear, FreezeAdd,
     CheckDrift, CheckDrop, At
<1>4. call[x].pc \notin Unplaced
  BY <1>3 DEF Unplaced
<1>5. ASSUME Done(x)
      PROVE  Moves(x) /\ Aside(x)
  BY <1>2, <1>5, EndsMoves, DoneIs, IdleIs DEF RowsKept, Aside
<1>6. ASSUME NEW pc \in {"clearing", "cloning", "worktree", "tool", "dropping"}, Goto(x, pc)
      PROVE  Moves(x) /\ call'[x].pc = pc
  <2>1. pc \in Steps
    BY DEF Steps
  <2> QED BY <1>2, <1>4, <1>6, <2>1, PlacedMoves DEF Ensuring, PatchSteps
<1>7. CASE Stat(x)
  BY <1>5, <1>7 DEF Stat
<1>8. CASE ImportChecks(x)
  BY <1>6, <1>8 DEF ImportChecks, Aside
<1>9. CASE ImportClone(x)
  BY <1>5, <1>9 DEF ImportClone
<1>10. CASE \E gitGone \in BOOLEAN, left \in SUBSET Contents : ImportClear(x, gitGone, left)
  BY <1>5, <1>6, <1>10 DEF ImportClear, Aside
<1>11. CASE FreezeClear(x)
  BY <1>6, <1>11 DEF FreezeClear
<1>12. CASE FreezeAdd(x)
  BY <1>5, <1>6, <1>12 DEF FreezeAdd
<1>13. CASE CheckDrift(x)
  BY <1>6, <1>13 DEF CheckDrift, Aside
<1>14. CASE CheckDrop(x)
  BY <1>5, <1>14 DEF CheckDrop
<1> QED BY <1>7, <1>8, <1>9, <1>10, <1>11, <1>12, <1>13, <1>14

(* What the tool leaves of its call. *)
ToolEnds(x, reads) ==
  /\ SameCall(x) /\ call'[x].pc = "drift" /\ call'[x].reads = reads
  /\ call'[x].candidate = call[x].candidate

Read(x) ==
  IF \E f \in frozen : SameCheck(f, x) /\ f.owner = call[x].id
                        /\ f.work = call[x].candidate.tree
  THEN "whole" ELSE "torn"

LEMMA ToolMoves ==
  ASSUME TInv, NEW x \in Callers, NEW act, Tool(x, act)
  PROVE  Moves(x) /\ RowsKept /\ ToolEnds(x, Read(x)) /\ UNCHANGED row
<1>1. call \in [Callers -> CallStates] /\ call[x] \in CallStates
  BY DEF TInv, TypeOK
<1>2. RowsKept /\ UNCHANGED row /\ call[x].pc \notin Unplaced
  BY RowsUnchanged DEF Tool, At, Unplaced, stores, tallies
<1>3. PICK reads \in {"whole", "torn"} : reads = Read(x)
  BY DEF Read
<1>4. call' = [call EXCEPT ![x] = [call[x] EXCEPT !.pc = "drift", !.reads = reads]]
  <2>1. call' = [call EXCEPT ![x].pc = "drift", ![x].reads = Read(x)]
    BY Zenon DEF Tool, Read
  <2> QED BY <1>1, <1>3, <2>1
<1>5. call'[x] = [call[x] EXCEPT !.pc = "drift", !.reads = reads]
  BY <1>1, <1>4
<1>0. "drift" \in Steps
  BY DEF Steps
<1>6. /\ call'[x] \in CallStates /\ call'[x].pc = "drift" /\ call'[x].reads = reads
      /\ call'[x].handle = call[x].handle /\ call'[x].kind = call[x].kind
      /\ call'[x].patch = call[x].patch /\ call'[x].id = call[x].id
      /\ call'[x].candidate = call[x].candidate
  BY <1>0, <1>1, <1>5 DEF CallStates
<1>7. ToolEnds(x, Read(x))
  BY <1>1, <1>3, <1>4, <1>6 DEF ToolEnds, SameCall
<1>8. "drift" \notin Unplaced \cup Ensuring \cup PatchSteps
  BY DEF Unplaced, Ensuring, PatchSteps
<1> QED BY <1>2, <1>6, <1>7, <1>8, SameCallMoves DEF ToolEnds

LEMMA CheckFindMoves ==
  ASSUME TInv, NEW x \in Callers, CheckFind(x)
  PROVE  Moves(x) /\ RowsKept /\ call'[x].pc \in {"idle", "freezing"} /\ UNCHANGED row
<1>1. /\ call \in [Callers -> CallStates] /\ call[x] \in CallStates /\ Situated(x)
      /\ row \in [Handles -> Rows \cup {NoRow}] /\ active \in Candidates
  BY DEF TInv, TypeOK, Located
<1>2. RowsKept /\ UNCHANGED row /\ call[x].pc = "checking"
  BY RowsUnchanged DEF CheckFind, At, stores, tallies
<1>3. CASE Done(x)
  BY <1>2, <1>3, EndsMoves, DoneIs, IdleIs DEF RowsKept
<1>4. CASE ~Done(x)
  <2>1. PICK h \in Handles : /\ row[h] # NoRow
           /\ call' = [call EXCEPT ![x].pc = "freezing", ![x].handle = h,
                                   ![x].candidate = active]
    BY <1>4 DEF CheckFind, Latest, Known
  <2>2. PICK c \in Candidates : c = active
    BY <1>1
  <2>3. call'[x] = [call[x] EXCEPT !.pc = "freezing", !.handle = h, !.candidate = c]
    BY <1>1, <2>1, <2>2
  <2>0. "freezing" \in Steps
    BY DEF Steps
  <2>4. /\ call'[x] \in CallStates /\ call'[x].pc = "freezing"
        /\ call'[x].handle = h /\ call'[x].kind = call[x].kind
        /\ call'[x].patch = call[x].patch /\ call'[x].id = call[x].id
    BY <2>0, <1>1, <2>3 DEF CallStates
  <2>5. /\ call' \in [Callers -> CallStates]
        /\ \A y \in Callers : y # x => call'[y] = call[y]
    BY <1>1, <2>1, <2>4
  <2>6. OnlyCall(x)
    BY <1>2, <2>5, Counting DEF OnlyCall, RowsKept
  <2>7. row'[h] \in Rows /\ calls' = calls
    BY <1>1, <1>2, <2>1 DEF RowsKept
  <2>8. Situated(x)'
    BY <1>1, <1>2, <2>4, <2>7 DEF Situated, Ensuring, PatchSteps
  <2> QED BY <1>2, <2>4, <2>6, <2>8 DEF Moves
<1> QED BY <1>3, <1>4

LEMMA StartMoves ==
  ASSUME TInv, NEW x \in Callers, NEW kind \in Kinds, NEW patch \in Patches \cup {Remote},
         NEW expected \in Expected, Start(x, kind, patch, expected)
  PROVE  /\ OnlyCall(x) /\ Situated(x)' /\ UNCHANGED row /\ calls' = calls + 1
         /\ call'[x].id = calls + 1 /\ call'[x].pc \in {"checking", "ensuring"}
         /\ calls' \in 0..MaxCalls
<1>1. /\ call \in [Callers -> CallStates] /\ row \in [Handles -> Rows \cup {NoRow}]
      /\ calls \in Nat /\ MaxCalls \in Nat /\ calls < MaxCalls /\ calls' = calls + 1
      /\ UNCHANGED row
  BY Counting DEF TInv, TypeOK, Start
<1> DEFINE pc == IF kind = "check" THEN "checking" ELSE "ensuring"
<1>2. call'[x] = [Idle EXCEPT !.pc = pc, !.kind = kind, !.id = calls + 1,
                              !.patch = patch, !.expected = expected]
  <2>1. call' = [call EXCEPT ![x] =
                   [Idle EXCEPT !.pc = pc, !.kind = kind, !.id = calls + 1,
                                !.patch = patch, !.expected = expected]]
    BY DEF Start
  <2> HIDE DEF pc
  <2> QED BY <1>1, <2>1
<1>3. call'[x] = [pc |-> pc, kind |-> kind, id |-> calls + 1, handle |-> 0,
                  patch |-> patch, expected |-> expected, seen |-> NoRow,
                  candidate |-> NoCandidate, floor |-> {}, reads |-> "nothing"]
  BY <1>2 DEF Idle
<1>4. expected \in Nat /\ calls + 1 \in 0..MaxCalls /\ pc \in Steps
  <2>1. expected \in Nat
    BY BoundsAssumption DEF BoundsAssumption
  <2>2. calls + 1 \in 0..MaxCalls
    BY <1>1
  <2>3. "checking" \in Steps /\ "ensuring" \in Steps
    BY DEF Steps
  <2> QED BY <2>1, <2>2, <2>3
<1>5. NoCandidate \in Candidates
  BY DEF NoCandidate, Candidates
<1>6. call'[x] \in CallStates
  BY <1>3, <1>4, <1>5 DEF CallStates
<1>7. /\ call' \in [Callers -> CallStates]
      /\ \A y \in Callers : y # x => call'[y] = call[y]
  BY <1>1, <1>6 DEF Start
<1>8. OnlyCall(x)
  BY <1>1, <1>7 DEF OnlyCall
<1>9. kind = "patch" => patch \in Patches
  BY DEF Start
<1>10. /\ call'[x].pc = pc /\ call'[x].kind = kind /\ call'[x].patch = patch
       /\ call'[x].id = calls + 1
  BY <1>3
<1>11. pc \in {"checking", "ensuring"} /\ (pc = "ensuring" => kind # "check")
  OBVIOUS
<1>12. pc \in Unplaced /\ pc \notin PatchSteps
  BY DEF Unplaced, PatchSteps
<1> HIDE DEF pc
<1>13. pc \in Ensuring => kind \in {"patch", "capture", "import", "stat"}
  BY <1>11 DEF Ensuring, Kinds
<1>14. Situated(x)'
  BY <1>1, <1>9, <1>10, <1>11, <1>12, <1>13 DEF Situated
<1> QED BY <1>1, <1>4, <1>8, <1>10, <1>11, <1>14

LEMMA FailsMoves ==
  ASSUME TInv, NEW x \in Callers, Fails(x)
  PROVE  Moves(x) /\ RowsKept /\ call'[x] = Idle /\ UNCHANGED row
<1>1. RowsKept /\ UNCHANGED row
  BY RowsUnchanged DEF Fails
<1> QED BY <1>1, EndsMoves, DoneIs DEF Fails, RowsKept

-----------------------------------------------------------------------------
(* The types of what the calls share.                                      *)

LEMMA DiskTyped ==
  ASSUME TInv, NEW x \in Callers,
         \/ EnsureSeed(x) \/ Apply(x) \/ CaptureAdd(x) \/ CaptureCommit(x)
         \/ (\E gitGone \in BOOLEAN, left \in SUBSET Contents : ImportClear(x, gitGone, left))
         \/ ImportClone(x)
  PROVE  disk' \in [Handles -> Repositories]
<1>1. /\ disk \in [Handles -> Repositories] /\ Situated(x)
      /\ call[x] \in CallStates
  BY DEF TInv, TypeOK, Located
<1>2. call[x].handle \in Handles
  BY <1>1 DEF EnsureSeed, Apply, CaptureAdd, CaptureCommit, ImportClear, ImportClone,
     At, Situated, Unplaced
<1>3. PICK h \in Handles : h = call[x].handle
  BY <1>2
<1>4. disk[h] \in Repositories
  BY <1>1
<1>5. CASE EnsureSeed(x)
  <2> DEFINE n == disk[h].base + 1
             i == disk[h].index
             w == disk[h].work
  <2>1. n \in Nat /\ i \in SUBSET Contents /\ w \in SUBSET Contents
    BY <1>4 DEF Repositories
  <2>2. [git |-> TRUE, work |-> w, index |-> i, head |-> i, base |-> n] \in Repositories
    BY <2>1 DEF Repositories
  <2>3. disk'[h] = [git |-> TRUE, work |-> w, index |-> i, head |-> i, base |-> n]
    BY <1>1, <1>3, <1>4, <1>5 DEF EnsureSeed, Repositories
  <2>4. \A g \in Handles : g # h => disk'[g] = disk[g]
    BY <1>1, <1>3, <1>5 DEF EnsureSeed
  <2>5. disk' = [g \in Handles |-> disk'[g]]
    BY <1>1, <1>3, <1>5 DEF EnsureSeed
  <2>6. ASSUME NEW g \in Handles PROVE disk'[g] \in Repositories
    BY <1>1, <2>2, <2>3, <2>4
  <2> QED BY <2>5, <2>6
<1>6. CASE Apply(x)
  <2>1. CASE UNCHANGED disk
    BY <1>1, <2>1
  <2>2. CASE disk' = [disk EXCEPT ![h].work = @ \cup {call[x].patch}]
    <3>1. call[x].patch \in Contents
      BY <1>1 DEF CallStates, Contents
    <3>2. [disk[h] EXCEPT !.work = @ \cup {call[x].patch}] \in Repositories
      BY <1>4, <3>1 DEF Repositories
    <3> QED BY <1>1, <2>2, <3>2
  <2> QED BY <1>3, <1>6, <2>1, <2>2 DEF Apply
<1>7. Visible(h) \in SUBSET Contents
  BY <1>4 DEF Visible, Repositories, Contents
<1>8. CASE CaptureAdd(x)
  <2>1. [disk[h] EXCEPT !.index = Visible(h)] \in Repositories
    BY <1>4, <1>7 DEF Repositories
  <2> QED BY <1>1, <1>3, <1>8, <2>1 DEF CaptureAdd, current_tree
<1>9. CASE CaptureCommit(x)
  <2>1. [disk[h] EXCEPT !.head = disk[h].index] \in Repositories
    BY <1>4 DEF Repositories
  <2> QED BY <1>1, <1>3, <1>9, <2>1 DEF CaptureCommit
<1>10. CASE \E gitGone \in BOOLEAN, left \in SUBSET Contents : ImportClear(x, gitGone, left)
  <2>1. PICK left \in SUBSET Contents :
          \/ disk' = [disk EXCEPT ![h] =
                [NoRepository EXCEPT !.base = disk[h].base, !.work = left]]
          \/ disk' = [disk EXCEPT ![h].work = left]
    BY <1>3, <1>10 DEF ImportClear
  <2>2. [NoRepository EXCEPT !.base = disk[h].base, !.work = left] \in Repositories
    BY <1>4 DEF NoRepository, Repositories
  <2>3. [disk[h] EXCEPT !.work = left] \in Repositories
    BY <1>4 DEF Repositories
  <2> QED BY <1>1, <2>1, <2>2, <2>3
<1>11. CASE ImportClone(x)
  <2>1. PICK n \in Nat : n = disk[h].base + 1
    BY <1>4 DEF Repositories
  <2>2. {Remote} \in SUBSET Contents
    BY DEF Contents
  <2>3. [git |-> TRUE, work |-> {Remote}, index |-> {Remote},
         head |-> {Remote}, base |-> n] \in Repositories
    BY <2>2 DEF Repositories
  <2> QED BY <1>1, <1>3, <1>11, <2>1, <2>3 DEF ImportClone
<1> QED BY <1>5, <1>6, <1>8, <1>9, <1>10, <1>11

(* The worktrees after the end of a tool are those of before, with the     *)
(* call among the users of those by its name.                              *)
LEMMA ToolWorktrees ==
  ASSUME TInv, NEW x \in Callers, NEW act \in {"reads", "writes", "commits"},
         Tool(x, act), NEW g \in frozen'
  PROVE  \/ g \in frozen /\ ~SameCheck(g, x)
         \/ \E f \in frozen :
              /\ SameCheck(f, x) /\ g \in Worktrees
              /\ g.handle = f.handle /\ g.check = f.check /\ g.owner = f.owner
              /\ g.users = f.users \cup {call[x].id}
<1> DEFINE there == {f \in frozen : SameCheck(f, x)}
           Changed(f) ==
             CASE act = "reads" -> f
               [] act = "writes" -> [f EXCEPT !.work = @ \cup {"commit of a tool"}]
               [] act = "commits" -> [f EXCEPT !.work = @ \cup {"commit of a tool"},
                                               !.head = @ \cup {"commit of a tool"}]
<1> DEFINE id == call[x].id
<1>1. frozen' = (frozen \ there) \cup {[Changed(f) EXCEPT !.users = @ \cup {id}] : f \in there}
  BY DEF Tool
<1>2. CASE g \in frozen \ there
  BY <1>2
<1>3. CASE g \notin frozen \ there
  <2>1. PICK f \in there : g = [Changed(f) EXCEPT !.users = @ \cup {id}]
    BY <1>1, <1>3
  <2>2. f \in Worktrees /\ f \in frozen /\ SameCheck(f, x)
    BY DEF TInv, TypeOK
  <2>3. id \in 1..MaxCalls
    <3>1. id \in 1..calls
      BY DEF TInv, Located, Situated, Tool, At
    <3> QED BY <3>1, Counting
  <2>4. "commit of a tool" \in Contents
    BY DEF Contents
  <2>5. PICK c \in Worktrees : /\ c = Changed(f) /\ c.handle = f.handle
           /\ c.check = f.check /\ c.owner = f.owner /\ c.users = f.users
    <3>1. PICK w \in Worktrees : /\ w = [f EXCEPT !.work = @ \cup {"commit of a tool"}]
             /\ w.handle = f.handle /\ w.check = f.check /\ w.owner = f.owner
             /\ w.users = f.users /\ w.head = f.head
      <4>1. [f EXCEPT !.work = @ \cup {"commit of a tool"}] \in Worktrees
        BY <2>2, <2>4 DEF Worktrees
      <4> QED BY <2>2, <4>1 DEF Worktrees
    <3> DEFINE both == [w EXCEPT !.head = @ \cup {"commit of a tool"}]
    <3>2. /\ both \in Worktrees
          /\ both.handle = f.handle /\ both.check = f.check /\ both.owner = f.owner
          /\ both.users = f.users
      BY <2>4, <3>1 DEF Worktrees
    <3>3. both = [f EXCEPT !.work = @ \cup {"commit of a tool"},
                           !.head = @ \cup {"commit of a tool"}]
      BY <2>2, <3>1 DEF Worktrees
    <3>5. CASE act = "reads"
      BY <2>2, <3>5
    <3>6. CASE act = "writes"
      BY <3>1, <3>6
    <3>7. CASE act = "commits"
      BY <3>2, <3>3, <3>7
    <3> QED BY <3>5, <3>6, <3>7
  <2> HIDE DEF Changed
  <2>6. g = [c EXCEPT !.users = @ \cup {id}]
    BY <2>1, <2>5
  <2>7. /\ g \in Worktrees /\ g.handle = c.handle /\ g.check = c.check
        /\ g.owner = c.owner /\ g.users = c.users \cup {id}
    BY <2>3, <2>6 DEF Worktrees
  <2> QED BY <2>2, <2>5, <2>7
<1> QED BY <1>2, <1>3

LEMMA FrozenTyped ==
  ASSUME TInv, NEW x \in Callers,
         \/ frozen' \subseteq frozen \/ FreezeAdd(x)
         \/ (\E act \in {"reads", "writes", "commits"} : Tool(x, act))
  PROVE  frozen' \subseteq Worktrees
<1>1. frozen \subseteq Worktrees /\ call[x] \in CallStates /\ Situated(x)
  BY DEF TInv, TypeOK, Located
<1>2. CASE frozen' \subseteq frozen
  BY <1>1, <1>2
<1>3. CASE FreezeAdd(x) /\ frozen' # frozen
  <2>1. PICK c \in Candidates, id \in 1..MaxCalls, h \in Handles :
          c = call[x].candidate /\ id = call[x].id /\ h = call[x].handle
    <3>1. call[x].candidate \in Candidates
      BY <1>1 DEF CallStates
    <3>2. call[x].id \in 1..calls /\ call[x].handle \in Handles
      BY <1>1, <1>3 DEF FreezeAdd, At, Situated, Unplaced
    <3>3. call[x].id \in 1..MaxCalls
      BY <3>2, Counting
    <3> QED BY <3>1, <3>2, <3>3
  <2>2. [handle |-> h, check |-> c, owner |-> id, users |-> {}, head |-> c.tree,
         work |-> c.tree] \in Worktrees
    BY DEF Worktrees, Candidates
  <2>3. frozen' = frozen \cup
          {[handle |-> h, check |-> c, owner |-> id, users |-> {}, head |-> c.tree,
            work |-> c.tree]}
    BY <1>3, <2>1 DEF FreezeAdd
  <2> QED BY <1>1, <2>2, <2>3
<1>4. CASE \E act \in {"reads", "writes", "commits"} : Tool(x, act)
  BY <1>1, <1>4, ToolWorktrees
<1> QED BY <1>2, <1>3, <1>4

LEMMA RecordsTyped ==
  ASSUME TInv, NEW x \in Callers,
         \/ ApplyAnswer(x)
         \/ (\E gitGone \in BOOLEAN, left \in SUBSET Contents : ImportClear(x, gitGone, left))
         \/ UNCHANGED answered
  PROVE  answered' \subseteq [handle : Handles, patch : Patches, revision : Nat]
<1>1. /\ answered \subseteq [handle : Handles, patch : Patches, revision : Nat]
      /\ call[x] \in CallStates /\ Situated(x)
  BY DEF TInv, TypeOK, Located
<1>2. CASE ApplyAnswer(x)
  <2>1. /\ call[x].handle \in Handles /\ call[x].patch \in Patches
        /\ call[x].expected + 1 \in Nat
    BY <1>1, <1>2 DEF ApplyAnswer, At, Situated, Unplaced, PatchSteps, CallStates
  <2> QED BY <1>1, <1>2, <2>1 DEF ApplyAnswer
<1>3. CASE \E gitGone \in BOOLEAN, left \in SUBSET Contents : ImportClear(x, gitGone, left)
  BY <1>1, <1>3 DEF ImportClear
<1> QED BY <1>1, <1>2, <1>3

LEMMA EvidenceTyped ==
  ASSUME TInv, NEW x \in Callers, CheckDrift(x) \/ UNCHANGED evidence
  PROVE  evidence' \subseteq
           [candidate : Candidates, reads : {"whole", "torn"}, rival : BOOLEAN]
<1>1. /\ evidence \subseteq
           [candidate : Candidates, reads : {"whole", "torn"}, rival : BOOLEAN]
      /\ call[x] \in CallStates /\ Situated(x)
  BY DEF TInv, TypeOK, Located
<1>2. CASE CheckDrift(x)
  <2> DEFINE rival == \E f \in frozen :
                       SameCheck(f, x) /\ f.users \cup {f.owner} # {call[x].id}
  <2>1. call[x].candidate \in Candidates /\ call[x].reads \in {"whole", "torn"}
    BY <1>1, <1>2 DEF CheckDrift, At, Situated, CallStates
  <2>2. rival \in BOOLEAN
    OBVIOUS
  <2>3. evidence' \subseteq evidence \cup
          {[candidate |-> call[x].candidate, reads |-> call[x].reads, rival |-> rival]}
    BY <1>2 DEF CheckDrift
  <2> HIDE DEF rival
  <2> QED BY <1>1, <2>1, <2>2, <2>3
<1> QED BY <1>1, <1>2

LEMMA CandidatesTyped ==
  ASSUME TInv, NEW x \in Callers,
         \/ CapturePut(x) \/ ActivateSet(x)
         \/ (\E accepted, activated \in BOOLEAN : CaptureCommand(x, accepted, activated))
         \/ UNCHANGED <<candidates, active>>
  PROVE  candidates' \subseteq Candidates /\ active' \in Candidates
<1>1. /\ candidates \subseteq Candidates /\ active \in Candidates
      /\ call[x].candidate \in Candidates
  BY DEF TInv, TypeOK, CallStates
<1> QED BY <1>1 DEF CapturePut, ActivateSet, CaptureCommand

LEMMA HistoryTyped ==
  ASSUME TInv,
         history' \subseteq history \cup {"overlap", "failure", "import", "stale bump"}
  PROVE  history' \subseteq {"overlap", "failure", "import", "stale bump"}
BY DEF TInv, TypeOK

-----------------------------------------------------------------------------
(* Each step: the variables it may touch.                                  *)

Cleared(x) ==
  \E gitGone \in BOOLEAN, left \in SUBSET Contents : ImportClear(x, gitGone, left)

Commanded(x) ==
  \E accepted, activated \in BOOLEAN : CaptureCommand(x, accepted, activated)

Ran(x) == \E act \in {"reads", "writes", "commits"} : Tool(x, act)

LEMMA Touches ==
  ASSUME NEW x \in Callers, CallStep(x)
  PROVE  /\ UNCHANGED <<calls, faults>>
         /\ \/ UNCHANGED disk
            \/ EnsureSeed(x) \/ Apply(x) \/ CaptureAdd(x) \/ CaptureCommit(x)
            \/ Cleared(x) \/ ImportClone(x)
         /\ frozen' \subseteq frozen \/ FreezeAdd(x) \/ Ran(x)
         /\ UNCHANGED answered \/ ApplyAnswer(x) \/ Cleared(x)
         /\ UNCHANGED evidence \/ CheckDrift(x)
         /\ \/ UNCHANGED <<candidates, active>>
            \/ CapturePut(x) \/ ActivateSet(x) \/ Commanded(x)
         /\ \/ history' = history \/ history' = history \cup {"import"}
            \/ history' = history \cup {"stale bump"}
<1>1. CASE \/ EnsureFind(x) \/ (\E h \in Handles : create(x, h)) \/ EnsureProvide(x)
           \/ EnsureSeed(x) \/ Stat(x)
  BY <1>1, Zenon DEF EnsureFind, create, EnsureProvide, EnsureSeed, Stat, stores, tallies
<1>2. CASE \/ ApplyCompare(x) \/ ApplyStatus(x) \/ Apply(x) \/ ApplyReread(x)
           \/ ApplyRecord(x) \/ ApplyAnswer(x)
  BY <1>2, Zenon DEF ApplyCompare, ApplyStatus, Apply, ApplyReread, ApplyRecord,
     ApplyAnswer, stores, tallies
<1>3. CASE \/ CaptureBase(x) \/ CaptureAdd(x) \/ CaptureTree(x) \/ CaptureVersion(x)
           \/ CaptureFind(x) \/ CapturePut(x) \/ CaptureCommit(x) \/ Commanded(x)
  BY <1>3, Zenon DEF CaptureBase, CaptureAdd, CaptureTree, CaptureVersion, CaptureFind,
     CapturePut, CaptureCommit, Commanded, CaptureCommand, stores, tallies
<1>4. CASE \/ ActivateRead(x) \/ ActivateMark(x) \/ BumpCompare(x) \/ BumpRead(x)
           \/ Bump(x) \/ ActivateSet(x)
  BY <1>4, Zenon DEF ActivateRead, ActivateMark, BumpCompare, BumpRead, Bump,
     ActivateSet, stores, tallies
<1>5. CASE ImportChecks(x) \/ ImportClone(x)
  BY <1>5, Zenon DEF ImportChecks, ImportClone, WorktreesIn, stores, tallies
<1>6. CASE Cleared(x)
  <2>1. frozen' \subseteq frozen
    BY <1>6 DEF Cleared, ImportClear
  <2> QED BY <1>6, <2>1, Zenon DEF Cleared, ImportClear, stores
<1>7. CASE CheckFind(x) \/ FreezeClear(x) \/ FreezeAdd(x)
  <2>1. CheckFind(x) \/ FreezeClear(x) => frozen' \subseteq frozen
    BY DEF CheckFind, FreezeClear
  <2> QED BY <1>7, <2>1, Zenon DEF CheckFind, FreezeClear, FreezeAdd, stores, tallies
<1>8. CASE Ran(x) \/ CheckDrift(x) \/ CheckDrop(x)
  <2>1. CheckDrift(x) \/ CheckDrop(x) => frozen' \subseteq frozen
    BY DEF CheckDrift, CheckDrop
  <2> QED BY <1>8, <2>1, Zenon DEF Ran, Tool, CheckDrift, CheckDrop, stores, tallies
<1> QED BY <1>1, <1>2, <1>3, <1>4, <1>5, <1>6, <1>7, <1>8
        DEF CallStep, Cleared, Commanded, Ran

(* Each step of a call keeps the rows and moves that call alone. *)
LEMMA CallStepMoves ==
  ASSUME TInv, NEW x \in Callers, CallStep(x)
  PROVE  Moves(x) /\ RowsKept
<1>1. CASE \/ EnsureFind(x) \/ (\E h \in Handles : create(x, h)) \/ EnsureProvide(x)
           \/ EnsureSeed(x)
  BY <1>1, EnsuringMoves
<1>2. CASE \/ ApplyCompare(x) \/ ApplyStatus(x) \/ Apply(x) \/ ApplyReread(x)
           \/ ApplyAnswer(x)
  BY <1>2, PatchMoves
<1>3. CASE ApplyRecord(x)
  BY <1>3, RecordMoves
<1>4. CASE \/ CaptureBase(x) \/ CaptureAdd(x) \/ CaptureTree(x) \/ CaptureVersion(x)
           \/ CaptureFind(x) \/ CapturePut(x) \/ CaptureCommit(x) \/ Commanded(x)
           \/ ActivateSet(x)
  BY <1>4, CaptureMoves DEF Commanded
<1>5. CASE \/ ActivateRead(x) \/ ActivateMark(x) \/ BumpCompare(x) \/ BumpRead(x)
           \/ Bump(x)
  BY <1>5, ActivateMoves
<1>6. CASE \/ Stat(x) \/ ImportChecks(x) \/ ImportClone(x) \/ Cleared(x)
           \/ FreezeClear(x) \/ FreezeAdd(x) \/ CheckDrift(x) \/ CheckDrop(x)
  BY <1>6, OtherMoves DEF Cleared
<1>7. CASE CheckFind(x)
  BY <1>7, CheckFindMoves
<1>8. CASE Ran(x)
  BY <1>8, ToolMoves DEF Ran
<1> QED BY <1>1, <1>2, <1>3, <1>4, <1>5, <1>6, <1>7, <1>8
        DEF CallStep, Cleared, Commanded, Ran

LEMMA TypesStep ==
  ASSUME TInv, [Next]_vars
  PROVE  TInv'
<1>1. ASSUME NEW x \in Callers, OnlyCall(x), Situated(x)', calls' \in 0..MaxCalls,
             faults' \in 0..MaxFaults, disk' \in [Handles -> Repositories],
             frozen' \subseteq Worktrees,
             candidates' \subseteq Candidates /\ active' \in Candidates,
             answered' \subseteq [handle : Handles, patch : Patches, revision : Nat],
             evidence' \subseteq
               [candidate : Candidates, reads : {"whole", "torn"}, rival : BOOLEAN],
             history' \subseteq {"overlap", "failure", "import", "stale bump"}
      PROVE  TInv'
  <2>1. calls' \in Nat
    <3>1. MaxCalls \in Nat
      BY Counting
    <3>2. calls' \in 0..MaxCalls
      BY <1>1
    <3> QED BY <3>1, <3>2
  <2>2. Located'
    BY <1>1, <2>1, SituatedStays
  <2>3. TypeOK'
    BY <1>1 DEF TypeOK, OnlyCall
  <2> QED BY <2>2, <2>3 DEF TInv
<1>2. ASSUME NEW x \in Callers, CallStep(x)
      PROVE  TInv'
  <2>1. Moves(x) /\ RowsKept
    BY <1>2, CallStepMoves
  <2>2. disk' \in [Handles -> Repositories]
    <3>1. UNCHANGED disk => disk' \in [Handles -> Repositories]
      BY DEF TInv, TypeOK
    <3> QED BY <1>2, <3>1, Touches, DiskTyped DEF Cleared
  <2>3. frozen' \subseteq Worktrees
    BY <1>2, Touches, FrozenTyped DEF Ran
  <2>4. /\ candidates' \subseteq Candidates /\ active' \in Candidates
        /\ answered' \subseteq [handle : Handles, patch : Patches, revision : Nat]
        /\ evidence' \subseteq
             [candidate : Candidates, reads : {"whole", "torn"}, rival : BOOLEAN]
    BY <1>2, Touches, CandidatesTyped, RecordsTyped, EvidenceTyped DEF Cleared, Commanded
  <2>5. history' \subseteq {"overlap", "failure", "import", "stale bump"}
    <3>1. history' \subseteq history \cup {"overlap", "failure", "import", "stale bump"}
      BY <1>2, Touches
    <3> QED BY <3>1, HistoryTyped
  <2>6. calls' \in 0..MaxCalls /\ faults' \in 0..MaxFaults
    BY <1>2, Touches DEF TInv, TypeOK
  <2>7. OnlyCall(x) /\ Situated(x)'
    BY <2>1 DEF Moves
  <2> QED BY <1>1, <2>2, <2>3, <2>4, <2>5, <2>6, <2>7
<1>3. ASSUME NEW x \in Callers, NEW kind \in Kinds, NEW patch \in Patches \cup {Remote},
             NEW expected \in Expected, Start(x, kind, patch, expected)
      PROVE  TInv'
  <2>1. OnlyCall(x) /\ Situated(x)' /\ calls' \in 0..MaxCalls
    BY <1>3, StartMoves
  <2>2. UNCHANGED <<disk, frozen, candidates, active, faults, answered, evidence>>
    BY <1>3 DEF Start
  <2>3. history' \subseteq {"overlap", "failure", "import", "stale bump"}
    <3>1. history' \subseteq history \cup {"overlap", "failure", "import", "stale bump"}
      BY <1>3 DEF Start
    <3> QED BY <3>1, HistoryTyped
  <2>4. /\ faults' \in 0..MaxFaults /\ disk' \in [Handles -> Repositories]
        /\ frozen' \subseteq Worktrees /\ candidates' \subseteq Candidates
        /\ active' \in Candidates
        /\ answered' \subseteq [handle : Handles, patch : Patches, revision : Nat]
        /\ evidence' \subseteq
             [candidate : Candidates, reads : {"whole", "torn"}, rival : BOOLEAN]
    BY <2>2 DEF TInv, TypeOK
  <2> QED BY <1>1, <2>1, <2>3, <2>4
<1>4. ASSUME NEW x \in Callers, Fails(x)
      PROVE  TInv'
  <2>1. Moves(x) /\ RowsKept
    BY <1>4, FailsMoves
  <2>2. /\ UNCHANGED <<disk, candidates, active, calls, answered, evidence>>
        /\ frozen' \subseteq frozen /\ faults < MaxFaults /\ faults' = faults + 1
    BY <1>4 DEF Fails
  <2>3. history' \subseteq {"overlap", "failure", "import", "stale bump"}
    <3>1. history' \subseteq history \cup {"overlap", "failure", "import", "stale bump"}
      BY <1>4 DEF Fails
    <3> QED BY <3>1, HistoryTyped
  <2>4. faults' \in 0..MaxFaults
    <3>1. faults \in 0..MaxFaults /\ MaxFaults \in Nat
      BY BoundsAssumption DEF BoundsAssumption, TInv, TypeOK
    <3> QED BY <2>2, <3>1
  <2>5. /\ calls' \in 0..MaxCalls /\ disk' \in [Handles -> Repositories]
        /\ frozen' \subseteq Worktrees /\ candidates' \subseteq Candidates
        /\ active' \in Candidates
        /\ answered' \subseteq [handle : Handles, patch : Patches, revision : Nat]
        /\ evidence' \subseteq
             [candidate : Candidates, reads : {"whole", "torn"}, rival : BOOLEAN]
    BY <2>2 DEF TInv, TypeOK
  <2>6. OnlyCall(x) /\ Situated(x)'
    BY <2>1 DEF Moves
  <2> QED BY <1>1, <2>3, <2>4, <2>5, <2>6
<1>5. CASE UNCHANGED vars
  BY <1>5 DEF vars, TInv, TypeOK, Located, Situated
<1> QED BY <1>2, <1>3, <1>4, <1>5 DEF Next

LEMMA TypesInit == Init => TInv
<1> SUFFICES ASSUME Init PROVE TInv
  OBVIOUS
<1>1. NoCandidate \in Candidates
  BY DEF NoCandidate, Candidates
<1>2. NoRepository \in Repositories
  BY DEF NoRepository, Repositories
<1>3. calls \in 0..MaxCalls /\ faults \in 0..MaxFaults
  BY BoundsAssumption DEF BoundsAssumption, Init
<1>4. /\ row \in [Handles -> Rows \cup {NoRow}] /\ disk \in [Handles -> Repositories]
      /\ call \in [Callers -> CallStates]
  BY <1>2, IdleIs DEF Init
<1>5. TypeOK
  BY <1>1, <1>3, <1>4 DEF Init, TypeOK
<1>6. \A x \in Callers : call[x] = Idle
  BY DEF Init
<1>7. Located
  BY <1>6, IdleIs DEF Located, Situated, Ensuring, PatchSteps, Unplaced
<1> QED BY <1>5, <1>7 DEF TInv

-----------------------------------------------------------------------------
(* Checks and their worktrees.                                             *)

Reading == {"checking", "freezing", "worktree", "tool"}

(* Calls in flight have numbers of their own, which the worktrees keep. *)
Apart ==
  \A x, y \in Callers :
    x # y /\ call[x].pc # "idle" /\ call[y].pc # "idle" => call[x].id # call[y].id

Numbered == \A f \in frozen : f.owner \in 1..calls /\ f.users \subseteq 1..calls

(* A worktree nobody has used is the tree it was made of. *)
Untouched == \A f \in frozen : f.users = {} => f.work = f.check.tree

(* A call is no user before its tool has ended. *)
Unread ==
  \A x \in Callers : call[x].pc \in Reading => \A f \in frozen : call[x].id \notin f.users

(* A worktree with the traces of more calls than this one. *)
Rival(f, x) == f.users \cup {f.owner} # {call[x].id}

(* If the tree was torn, any worktree by its name has seen another call. *)
Rivalled ==
  \A x \in Callers : call[x].pc = "drift" /\ call[x].reads = "torn" =>
    \A f \in frozen : SameCheck(f, x) => Rival(f, x)

CInv == Apart /\ Numbered /\ Untouched /\ Unread /\ Rivalled /\ TornByARivalOnly

LEMMA ApartStays ==
  ASSUME TInv, Apart, NEW x \in Callers, Moves(x)
  PROVE  Apart'
BY IdleIs DEF Apart, Moves, OnlyCall

(* The others keep what they know of worktrees that stay, and of new ones  *)
(* that belong to this call.                                               *)
LEMMA OthersRivalled ==
  ASSUME TInv, CInv, NEW x \in Callers, OnlyCall(x), NEW y \in Callers, y # x,
         call[x].pc # "idle", call[y].pc = "drift", call[y].reads = "torn",
         NEW g \in frozen', SameCheck(g, y)',
         g \in frozen \/ g.owner = call[x].id
  PROVE  Rival(g, y)'
<1>1. call'[y] = call[y]
  BY DEF OnlyCall
<1>2. CASE g \in frozen
  BY <1>1, <1>2 DEF CInv, Rivalled, SameCheck, Rival
<1>3. CASE g.owner = call[x].id
  <2>1. call[x].id # call[y].id
    BY DEF CInv, Apart
  <2> QED BY <1>1, <1>3, <2>1 DEF Rival
<1> QED BY <1>2, <1>3

(* A step that makes no worktree and comes to no end of a tool. *)
LEMMA CalmSafe ==
  ASSUME TInv, CInv, NEW x \in Callers, Moves(x), frozen' \subseteq frozen,
         UNCHANGED calls, TornByARivalOnly',
         call'[x].pc # "drift",
         call'[x].pc \in Reading => call[x].pc \in Reading
  PROVE  CInv'
<1>1. Apart'
  BY ApartStays DEF CInv
<1>2. Numbered' /\ Untouched'
  BY DEF CInv, Numbered, Untouched
<1>3. Unread'
  <2> SUFFICES ASSUME NEW y \in Callers, call'[y].pc \in Reading, NEW f \in frozen'
               PROVE  call'[y].id \notin f.users
    BY DEF Unread
  <2>1. call[y].pc \in Reading /\ call'[y].id = call[y].id
    BY IdleIs DEF Moves, OnlyCall, Reading
  <2> QED BY <2>1 DEF CInv, Unread
<1>4. Rivalled'
  <2> SUFFICES ASSUME NEW y \in Callers, call'[y].pc = "drift", call'[y].reads = "torn",
                      NEW f \in frozen', SameCheck(f, y)'
               PROVE  Rival(f, y)'
    BY DEF Rivalled
  <2>1. y # x /\ call'[y] = call[y]
    BY DEF Moves, OnlyCall
  <2> QED BY <2>1 DEF CInv, Rivalled, SameCheck, Rival
<1> QED BY <1>1, <1>2, <1>3, <1>4 DEF CInv

LEMMA StartSafe ==
  ASSUME TInv, CInv, NEW x \in Callers, OnlyCall(x), call'[x].id = calls + 1,
         calls' = calls + 1, call'[x].pc \in {"checking", "ensuring"},
         UNCHANGED <<frozen, evidence>>
  PROVE  CInv'
<1>1. calls \in Nat /\ \A y \in Callers : call[y].pc # "idle" => call[y].id \in 1..calls
  BY Counting DEF TInv, Located, Situated
<1>2. Apart'
  BY <1>1 DEF CInv, Apart, OnlyCall
<1>3. Numbered' /\ Untouched' /\ TornByARivalOnly'
  BY <1>1 DEF CInv, Numbered, Untouched, TornByARivalOnly
<1>4. Unread'
  <2> SUFFICES ASSUME NEW y \in Callers, call'[y].pc \in Reading, NEW f \in frozen'
               PROVE  call'[y].id \notin f.users
    BY DEF Unread
  <2>1. CASE y = x
    BY <1>1, <2>1 DEF CInv, Numbered
  <2>2. CASE y # x
    BY <2>2 DEF CInv, Unread, OnlyCall
  <2> QED BY <2>1, <2>2
<1>5. Rivalled'
  <2> SUFFICES ASSUME NEW y \in Callers, call'[y].pc = "drift", call'[y].reads = "torn",
                      NEW f \in frozen', SameCheck(f, y)'
               PROVE  Rival(f, y)'
    BY DEF Rivalled
  <2>1. y # x /\ call'[y] = call[y]
    BY DEF OnlyCall
  <2> QED BY <2>1 DEF CInv, Rivalled, SameCheck, Rival
<1> QED BY <1>2, <1>3, <1>4, <1>5 DEF CInv

LEMMA FreezeSafe ==
  ASSUME TInv, CInv, NEW x \in Callers, FreezeAdd(x), frozen' # frozen
  PROVE  CInv'
<1>1. Moves(x) /\ call'[x].pc = "tool" /\ call[x].pc = "worktree"
  <2>1. Goto(x, "tool") /\ call[x].pc = "worktree"
    BY Zenon DEF FreezeAdd, At
  <2>2. "tool" \in Steps
    BY DEF Steps
  <2> QED BY <2>1, <2>2, GotoIs, OtherMoves
<1> DEFINE new == [handle |-> call[x].handle, check |-> call[x].candidate,
                   owner |-> call[x].id, users |-> {},
                   head |-> call[x].candidate.tree, work |-> call[x].candidate.tree]
<1>2. /\ frozen' = frozen \cup {new} /\ UNCHANGED <<calls, evidence>>
      /\ call[x].id \in 1..calls
  BY DEF FreezeAdd, stores, tallies, At, TInv, Located, Situated
<1>3. /\ new.users = {} /\ new.owner = call[x].id /\ new.work = new.check.tree
  OBVIOUS
<1> HIDE DEF new
<1>4. Apart'
  BY <1>1, ApartStays DEF CInv
<1>5. Numbered' /\ Untouched' /\ TornByARivalOnly'
  BY <1>2, <1>3 DEF CInv, Numbered, Untouched, TornByARivalOnly
<1>6. Unread'
  <2> SUFFICES ASSUME NEW y \in Callers, call'[y].pc \in Reading, NEW f \in frozen'
               PROVE  call'[y].id \notin f.users
    BY DEF Unread
  <2>1. call[y].pc \in Reading /\ call'[y].id = call[y].id
    BY <1>1, IdleIs DEF Moves, OnlyCall, Reading
  <2> QED BY <1>2, <1>3, <2>1 DEF CInv, Unread
<1>7. Rivalled'
  <2> SUFFICES ASSUME NEW y \in Callers, call'[y].pc = "drift", call'[y].reads = "torn",
                      NEW f \in frozen', SameCheck(f, y)'
               PROVE  Rival(f, y)'
    BY DEF Rivalled
  <2>1. y # x /\ call'[y] = call[y] /\ call[x].pc # "idle" /\ OnlyCall(x)
    BY <1>1 DEF Moves, OnlyCall
  <2>2. f \in frozen \/ f.owner = call[x].id
    BY <1>2, <1>3
  <2> QED BY <2>1, <2>2, OthersRivalled
<1> QED BY <1>4, <1>5, <1>6, <1>7 DEF CInv

LEMMA ToolSafe ==
  ASSUME TInv, CInv, NEW x \in Callers, NEW act \in {"reads", "writes", "commits"},
         Tool(x, act)
  PROVE  CInv'
<1>1. /\ Moves(x) /\ ToolEnds(x, Read(x)) /\ call[x].pc = "tool"
      /\ UNCHANGED <<calls, evidence>> /\ call[x].id \in 1..calls
  BY ToolMoves DEF Tool, At, stores, tallies, TInv, Located, Situated
<1>2. /\ call'[x].id = call[x].id /\ call'[x].handle = call[x].handle
      /\ call'[x].candidate = call[x].candidate /\ call'[x].pc = "drift"
  BY <1>1 DEF ToolEnds, SameCall
<1>3. Apart'
  BY <1>1, ApartStays DEF CInv
<1>4. ASSUME NEW g \in frozen'
      PROVE  /\ g.owner \in 1..calls' /\ g.users \subseteq 1..calls'
             /\ g.users = {} => g.work = g.check.tree
  <2>1. CASE g \in frozen
    BY <1>1, <2>1 DEF CInv, Numbered, Untouched
  <2>2. CASE g \notin frozen
    <3>1. PICK f \in frozen : /\ g.owner = f.owner
                             /\ g.users = f.users \cup {call[x].id}
      BY <2>2, ToolWorktrees
    <3> QED BY <1>1, <3>1 DEF CInv, Numbered
  <2> QED BY <2>1, <2>2
<1>5. Numbered' /\ Untouched' /\ TornByARivalOnly'
  BY <1>1, <1>4 DEF CInv, Numbered, Untouched, TornByARivalOnly
<1>6. Unread'
  <2> SUFFICES ASSUME NEW y \in Callers, call'[y].pc \in Reading, NEW g \in frozen'
               PROVE  call'[y].id \notin g.users
    BY DEF Unread
  <2>1. y # x /\ call'[y] = call[y]
    BY <1>1, <1>2 DEF Moves, OnlyCall, Reading
  <2>2. call[y].id # call[x].id
    BY <1>1, <2>1 DEF CInv, Apart, Reading
  <2> QED BY <2>1, <2>2, ToolWorktrees DEF CInv, Unread
<1>7. Rivalled'
  <2> SUFFICES ASSUME NEW y \in Callers, call'[y].pc = "drift", call'[y].reads = "torn",
                      NEW g \in frozen', SameCheck(g, y)'
               PROVE  Rival(g, y)'
    BY DEF Rivalled
  <2>1. CASE y # x
    <3>1. call'[y] = call[y] /\ call[x].id # call[y].id
      BY <1>1, <2>1 DEF Moves, OnlyCall, CInv, Apart
    <3>2. CASE g \in frozen
      BY <2>1, <3>1, <3>2 DEF CInv, Rivalled, SameCheck, Rival
    <3>3. CASE g \notin frozen
      <4>1. call[x].id \in g.users
        BY <3>3, ToolWorktrees
      <4> QED BY <3>1, <4>1 DEF Rival
    <3> QED BY <3>2, <3>3
  <2>2. CASE y = x
    <3>1. SameCheck(g, x)
      BY <1>2, <2>2 DEF SameCheck
    <3>2. PICK f \in frozen : /\ SameCheck(f, x) /\ g.owner = f.owner
                             /\ g.users = f.users \cup {call[x].id}
      BY <3>1, ToolWorktrees
    <3>3. ~(f.owner = call[x].id /\ f.work = call[x].candidate.tree)
      BY <1>1, <2>2, <3>2 DEF ToolEnds, Read
    <3>4. CASE f.owner # call[x].id
      BY <1>2, <2>2, <3>2, <3>4 DEF Rival
    <3>5. CASE f.work # call[x].candidate.tree
      <4>1. f.users # {} /\ call[x].id \notin f.users
        BY <1>1, <3>2, <3>5 DEF CInv, Untouched, Unread, SameCheck, Reading
      <4>2. PICK u \in f.users : u # call[x].id
        BY <4>1
      <4> QED BY <1>2, <2>2, <3>2, <4>2 DEF Rival
    <3> QED BY <3>3, <3>4, <3>5
  <2> QED BY <2>1, <2>2
<1> QED BY <1>3, <1>5, <1>6, <1>7 DEF CInv

LEMMA DriftSafe ==
  ASSUME TInv, CInv, NEW x \in Callers, CheckDrift(x)
  PROVE  CInv'
<1>1. Moves(x) /\ Aside(x) /\ frozen' \subseteq frozen /\ UNCHANGED calls
  BY OtherMoves DEF CheckDrift, FreezeClear, FreezeAdd, At
<1>2. TornByARivalOnly'
  <2> SUFFICES ASSUME NEW e \in evidence', e \notin evidence, e.reads = "torn"
               PROVE  e.rival
    BY DEF TornByARivalOnly, CInv
  <2> DEFINE rival == \E f \in frozen :
                       SameCheck(f, x) /\ f.users \cup {f.owner} # {call[x].id}
  <2>1. /\ ~Drifted(x) /\ call[x].pc = "drift"
        /\ evidence' = evidence \cup
             {[candidate |-> call[x].candidate, reads |-> call[x].reads, rival |-> rival]}
    BY Zenon DEF CheckDrift, At
  <2>2. PICK f \in frozen : SameCheck(f, x)
    BY <2>1 DEF Drifted
  <2> HIDE DEF rival
  <2>3. e.reads = call[x].reads /\ e.rival = rival
    BY <2>1
  <2>4. Rival(f, x)
    BY <2>1, <2>2, <2>3 DEF CInv, Rivalled
  <2>5. rival
    BY <2>2, <2>4 DEF rival, Rival
  <2> QED BY <2>3, <2>5
<1> QED BY <1>1, <1>2, CalmSafe DEF Aside, Reading

LEMMA AsideSafe ==
  ASSUME TInv, CInv, NEW x \in Callers, Moves(x), Aside(x), frozen' \subseteq frozen,
         UNCHANGED <<calls, evidence>>
  PROVE  CInv'
<1>1. TornByARivalOnly'
  BY DEF CInv, TornByARivalOnly
<1> QED BY <1>1, CalmSafe DEF Aside, Reading

LEMMA ChecksStep ==
  ASSUME TInv, CInv, [Next]_vars
  PROVE  CInv'
<1>1. ASSUME NEW x \in Callers, CallStep(x)
      PROVE  CInv'
  <2>1. /\ Moves(x) /\ UNCHANGED calls /\ (UNCHANGED evidence \/ CheckDrift(x))
        /\ frozen' \subseteq frozen \/ FreezeAdd(x) \/ Ran(x)
    BY <1>1, CallStepMoves, Touches
  <2>2. CASE CheckDrift(x)
    BY <2>2, DriftSafe
  <2>3. CASE Ran(x)
    BY <2>3, ToolSafe DEF Ran
  <2>4. CASE FreezeAdd(x) /\ frozen' # frozen
    BY <2>4, FreezeSafe
  <2>5. ASSUME ~CheckDrift(x), frozen' \subseteq frozen, ~Ran(x)
        PROVE  CInv'
    <3>1. UNCHANGED evidence
      BY <2>1, <2>5
    <3>2. CASE Aside(x)
      BY <2>1, <2>5, <3>1, <3>2, AsideSafe
    <3>3. CASE ~Aside(x)
      <4>1. \/ ApplyRecord(x) /\ call'[x].pc \in {"patched", "idle"}
            \/ FreezeClear(x) /\ call'[x].pc = "worktree"
            \/ FreezeAdd(x) /\ call'[x].pc = "tool"
            \/ CheckFind(x) /\ call'[x].pc \in {"idle", "freezing"}
        BY <1>1, <2>5, <3>3, EnsuringMoves, PatchMoves, RecordMoves, CaptureMoves,
           ActivateMoves, OtherMoves, CheckFindMoves, IdleIs
           DEF CallStep, Ran
      <4>2. /\ call'[x].pc # "drift"
            /\ call'[x].pc \in Reading => call[x].pc \in Reading
        BY <4>1 DEF FreezeClear, FreezeAdd, CheckFind, At, Reading
      <4>3. TornByARivalOnly'
        BY <3>1 DEF CInv, TornByARivalOnly
      <4> QED BY <2>1, <2>5, <4>2, <4>3, CalmSafe
    <3> QED BY <3>2, <3>3
  <2> QED BY <2>1, <2>2, <2>3, <2>4, <2>5
<1>2. ASSUME NEW x \in Callers, NEW kind \in Kinds, NEW patch \in Patches \cup {Remote},
             NEW expected \in Expected, Start(x, kind, patch, expected)
      PROVE  CInv'
  <2>1. UNCHANGED <<frozen, evidence>>
    BY <1>2 DEF Start
  <2> QED BY <1>2, <2>1, StartMoves, StartSafe
<1>3. ASSUME NEW x \in Callers, Fails(x)
      PROVE  CInv'
  <2>1. Aside(x) /\ frozen' \subseteq frozen /\ UNCHANGED <<calls, evidence>>
    BY <1>3, FailsMoves, IdleIs DEF Aside, Fails
  <2> QED BY <1>3, <2>1, FailsMoves, AsideSafe
<1>4. CASE UNCHANGED vars
  BY <1>4 DEF vars, CInv, Apart, Numbered, Untouched, Unread, Rivalled, Rival, SameCheck,
     TornByARivalOnly
<1> QED BY <1>1, <1>2, <1>3, <1>4 DEF Next

-----------------------------------------------------------------------------
(* Revisions.                                                              *)

(* A patch whose row is written has its revision, answered or not yet.     *)
NotAhead ==
  /\ \A a \in answered : a.revision <= row[a.handle].revision
  /\ \A x \in Callers : call[x].pc = "patched" =>
       call[x].expected + 1 <= row[call[x].handle].revision

OneEach ==
  /\ \A a, b \in answered :
       a.handle = b.handle /\ a.revision = b.revision => a.patch = b.patch
  /\ \A x \in Callers, a \in answered :
       call[x].pc = "patched" /\ a.handle = call[x].handle =>
         a.revision # call[x].expected + 1
  /\ \A x, y \in Callers :
       /\ x # y /\ call[x].pc = "patched" /\ call[y].pc = "patched"
       /\ call[x].handle = call[y].handle
       => call[x].expected # call[y].expected

RInv == "stale bump" \notin history => NotAhead /\ OneEach

(* No claim is new when no call gets to "patched". *)
LEMMA OneEachStays ==
  ASSUME OneEach, answered' \subseteq answered, NEW x \in Callers,
         \A y \in Callers : call'[y].pc = "patched" => y # x /\ call'[y] = call[y]
  PROVE  OneEach'
<1>1. ASSUME NEW a \in answered', NEW b \in answered',
             a.handle = b.handle, a.revision = b.revision
      PROVE  a.patch = b.patch
  BY <1>1 DEF OneEach
<1>2. ASSUME NEW y \in Callers, NEW a \in answered',
             call'[y].pc = "patched", a.handle = call'[y].handle
      PROVE  a.revision # call'[y].expected + 1
  <2>1. call'[y] = call[y] /\ a \in answered
    BY <1>2
  <2> QED BY <1>2, <2>1 DEF OneEach
<1>3. ASSUME NEW y \in Callers, NEW z \in Callers, y # z,
             call'[y].pc = "patched", call'[z].pc = "patched",
             call'[y].handle = call'[z].handle
      PROVE  call'[y].expected # call'[z].expected
  <2>1. call'[y] = call[y] /\ call'[z] = call[z]
    BY <1>3
  <2> QED BY <1>3, <2>1 DEF OneEach
<1> QED BY <1>1, <1>2, <1>3 DEF OneEach

LEMMA RevisionIs ==
  ASSUME NEW state \in Rows \cup {NoRow}
  PROVE  state.revision \in Int
BY DEF Rows, NoRow

(* What is counted, apart from the strings that the steps are named by.    *)
LEMMA AtMost == \A l, m, n \in Int : l <= m /\ m <= n => l <= n
OBVIOUS

LEMMA Successors ==
  \A m, n \in Nat :
    /\ m \in Int /\ m + 1 \in Int /\ m + 1 <= m + 1
    /\ m <= n => m # n + 1 /\ m <= n + 1
    /\ m + 1 <= n => m # n /\ m + 1 <= n + 1
    /\ m # n => m + 1 # n + 1
OBVIOUS

LEMMA ClaimTypes ==
  ASSUME TInv
  PROVE  /\ \A a \in answered : a.handle \in Handles /\ a.revision \in Nat
         /\ \A x \in Callers : call[x].expected \in Nat
         /\ \A x \in Callers : call[x].pc = "patched" => call[x].handle \in Handles
<1>1. answered \subseteq [handle : Handles, patch : Patches, revision : Nat]
  BY DEF TInv, TypeOK
<1>2. \A x \in Callers : call[x] \in CallStates /\ Situated(x)
  BY DEF TInv, TypeOK, Located
<1>3. \A x \in Callers : call[x].expected \in Nat
  BY <1>2 DEF CallStates
<1>4. \A x \in Callers : call[x].pc = "patched" => call[x].handle \in Handles
  BY <1>2 DEF Situated, Unplaced
<1> QED BY <1>1, <1>3, <1>4

(* A step that makes no claim, and takes no revision back. *)
LEMMA StillSafe ==
  ASSUME TInv, TInv', RInv, NEW x \in Callers, OnlyCall(x), call'[x].pc # "patched",
         answered' \subseteq answered,
         "stale bump" \in history => "stale bump" \in history',
         "stale bump" \in history' \/ RevisionsKept
  PROVE  RInv'
<1> SUFFICES ASSUME "stale bump" \notin history' PROVE (NotAhead /\ OneEach)'
  BY DEF RInv
<1>1. RevisionsKept /\ NotAhead /\ OneEach
  BY DEF RInv
<1>2. \A h \in Handles : row[h].revision \in Int /\ row'[h].revision \in Int
  <2>1. \A h \in Handles : row[h].revision \in Int
    BY RevisionsAre
  <2>2. ASSUME NEW h \in Handles PROVE row'[h].revision \in Int
    <3>1. row'[h] \in Rows \cup {NoRow}
      BY DEF OnlyCall
    <3> QED BY <3>1, RevisionIs
  <2> QED BY <2>1, <2>2
<1>3. \A y \in Callers : call'[y].pc = "patched" => y # x /\ call'[y] = call[y]
  BY DEF OnlyCall
<1>4. NotAhead'
  <2>1. ASSUME NEW a \in answered' PROVE a.revision <= row'[a.handle].revision
    <3>1. a \in answered /\ a.handle \in Handles /\ a.revision \in Nat
      BY ClaimTypes
    <3>2. PICK m \in Int : m = row[a.handle].revision
      BY <1>2, <3>1
    <3>3. PICK n \in Int : n = row'[a.handle].revision
      BY <1>2, <3>1
    <3>4. a.revision <= m
      BY <1>1, <3>1, <3>2 DEF NotAhead
    <3>5. m <= n
      BY <1>1, <3>1, <3>2, <3>3 DEF RevisionsKept
    <3>6. a.revision \in Int
      BY <3>1, Successors, Zenon
    <3> QED BY <3>2, <3>3, <3>4, <3>5, <3>6, AtMost, Zenon
  <2>2. ASSUME NEW y \in Callers, call'[y].pc = "patched"
        PROVE  call'[y].expected + 1 <= row'[call'[y].handle].revision
    <3>1. /\ call[y].pc = "patched" /\ call'[y] = call[y]
          /\ call[y].handle \in Handles /\ call[y].expected \in Nat
      BY <1>3, <2>2, ClaimTypes
    <3>2. PICK m \in Int : m = row[call[y].handle].revision
      BY <1>2, <3>1
    <3>3. PICK n \in Int : n = row'[call[y].handle].revision
      BY <1>2, <3>1
    <3>4. PICK l \in Int : l = call[y].expected + 1
      BY <3>1, Successors, Zenon
    <3>5. l <= m
      BY <1>1, <3>1, <3>2, <3>4 DEF NotAhead
    <3>6. m <= n
      BY <1>1, <3>1, <3>2, <3>3 DEF RevisionsKept
    <3>7. l <= n
      BY <3>2, <3>3, <3>4, <3>5, <3>6, AtMost, Zenon
    <3> QED BY <3>1, <3>3, <3>4, <3>7
  <2> QED BY <2>1, <2>2 DEF NotAhead
<1>5. OneEach'
  BY <1>1, <1>3, OneEachStays
<1> QED BY <1>4, <1>5

(* The write of a row claims a revision that nobody has. *)
LEMMA RecordSafe ==
  ASSUME TInv, RInv, NEW x \in Callers, ApplyRecord(x)
  PROVE  RInv'
<1>1. /\ Moves(x) /\ RowsKept
      /\ \/ /\ call'[x].pc = "patched" /\ call'[x].handle = call[x].handle
            /\ call'[x].expected = call[x].expected
            /\ row[call[x].handle].revision = call[x].expected
            /\ row'[call[x].handle].revision = call[x].expected + 1
         \/ call'[x] = Idle /\ row' = row
      /\ \A h \in Handles : h # call[x].handle => row'[h] = row[h]
  BY RecordMoves
<1>2. UNCHANGED <<answered, history>> /\ OnlyCall(x)
  BY <1>1 DEF ApplyRecord, tallies, Moves
<1> SUFFICES ASSUME "stale bump" \notin history PROVE (NotAhead /\ OneEach)'
  BY <1>2 DEF RInv
<1>3. NotAhead /\ OneEach
  BY DEF RInv
<1> DEFINE h == call[x].handle
<1>4. h \in Handles /\ call[x].expected \in Nat
  BY ClaimTypes DEF TInv, Located, Situated, ApplyRecord, At, Unplaced
<1>5. \A y \in Callers : y # x => call'[y] = call[y]
  BY <1>2 DEF OnlyCall
<1>6. CASE row' = row /\ call'[x] = Idle
  <2>1. call'[x].pc # "patched"
    BY <1>6, IdleIs
  <2>2. NotAhead'
    BY <1>2, <1>3, <1>5, <1>6, <2>1 DEF NotAhead
  <2>3. OneEach'
    <3>1. \A y \in Callers : call'[y].pc = "patched" => y # x /\ call'[y] = call[y]
      BY <1>5, <2>1
    <3> QED BY <1>2, <1>3, <3>1, OneEachStays
  <2> QED BY <2>2, <2>3
<1>7. CASE /\ call'[x].handle = h /\ call'[x].expected = call[x].expected
           /\ row[h].revision = call[x].expected
           /\ row'[h].revision = call[x].expected + 1
  <2>1. call'[x].expected = call[x].expected /\ call'[x].handle = h
    BY <1>7
  <2>0. PICK n \in Nat : n = call[x].expected
    BY <1>4
  <2>2. \A a \in answered : a.revision \in Nat /\ (a.handle = h => a.revision <= n)
    <3>1. row[h].revision = n
      BY <1>7, <2>0
    <3> QED BY <1>3, <3>1, ClaimTypes DEF NotAhead
  <2>3. \A y \in Callers : call[y].pc = "patched" =>
          call[y].expected \in Nat /\ (call[y].handle = h => call[y].expected + 1 <= n)
    <3>1. row[h].revision = n
      BY <1>7, <2>0
    <3> QED BY <1>3, <3>1, ClaimTypes DEF NotAhead
  <2>4. row'[h].revision = n + 1
    BY <1>7, <2>0
  <2>5. NotAhead'
    <3>1. ASSUME NEW a \in answered PROVE a.revision <= row'[a.handle].revision
      <4>1. CASE a.handle = h
        <5>1. PICK m \in Nat : m = a.revision
          BY <2>2
        <5>2. m <= n
          BY <2>2, <4>1, <5>1
        <5>3. row'[a.handle].revision = n + 1
          BY <2>4, <4>1
        <5>4. m <= n + 1
          BY <2>0, <5>1, <5>2, Successors, Zenon
        <5> QED BY <5>1, <5>3, <5>4, Zenon
      <4>2. CASE a.handle # h
        <5>1. row'[a.handle] = row[a.handle]
          BY <1>1, <4>2, ClaimTypes
        <5> QED BY <1>3, <5>1 DEF NotAhead
      <4> QED BY <4>1, <4>2
    <3>2. ASSUME NEW y \in Callers, call'[y].pc = "patched"
          PROVE  call'[y].expected + 1 <= row'[call'[y].handle].revision
      <4>1. CASE y = x
        <5>1. call'[y].expected = n /\ row'[call'[y].handle].revision = n + 1
          BY <2>0, <2>1, <2>4, <4>1
        <5> QED BY <2>0, <5>1, Successors, Zenon
      <4>2. CASE y # x /\ call[y].handle = h
        <5>1. /\ call'[y] = call[y] /\ call[y].pc = "patched"
              /\ row'[call[y].handle].revision = n + 1
          BY <1>5, <2>4, <3>2, <4>2
        <5>2. PICK m \in Nat : m = call[y].expected
          BY <2>3, <5>1
        <5>3. m + 1 <= n
          BY <2>3, <4>2, <5>1, <5>2
        <5>4. m + 1 <= n + 1
          BY <2>0, <5>2, <5>3, Successors, Zenon
        <5>5. call'[y].expected + 1 = m + 1
          BY <5>1, <5>2
        <5>6. row'[call'[y].handle].revision = n + 1
          BY <5>1
        <5> QED BY <5>4, <5>5, <5>6, Zenon
      <4>3. CASE y # x /\ call[y].handle # h
        <5>1. row'[call[y].handle] = row[call[y].handle] /\ call[y].pc = "patched"
          BY <1>1, <1>5, <3>2, <4>3, ClaimTypes
        <5> QED BY <1>3, <1>5, <4>3, <5>1 DEF NotAhead
      <4> QED BY <4>1, <4>2, <4>3
    <3> QED BY <1>2, <3>1, <3>2 DEF NotAhead
  <2>6. ASSUME NEW y \in Callers, y # x, call'[y].pc = "patched", call'[y].handle = h
        PROVE  call'[y].expected # call'[x].expected
    <3>1. call'[y] = call[y] /\ call[y].pc = "patched" /\ call[y].handle = h
      BY <1>5, <2>6
    <3>2. PICK m \in Nat : m = call[y].expected
      BY <2>3, <3>1
    <3>3. m + 1 <= n
      BY <2>3, <3>1, <3>2
    <3>4. m # n
      BY <2>0, <3>2, <3>3, Successors, Zenon
    <3> QED BY <2>0, <2>1, <3>1, <3>2, <3>4
  <2>7. ASSUME NEW a \in answered, a.handle = h
        PROVE  a.revision # call'[x].expected + 1
    <3>1. PICK m \in Nat : m = a.revision
      BY <2>2
    <3>2. m <= n
      BY <2>2, <2>7, <3>1
    <3>3. m # n + 1
      BY <2>0, <3>1, <3>2, Successors, Zenon
    <3> QED BY <2>0, <2>1, <3>1, <3>3
  <2> HIDE DEF h
  <2>8. OneEach'
    <3>1. \A a, b \in answered' :
            a.handle = b.handle /\ a.revision = b.revision => a.patch = b.patch
      BY <1>2, <1>3 DEF OneEach
    <3>2. ASSUME NEW y \in Callers, NEW a \in answered', call'[y].pc = "patched",
                 a.handle = call'[y].handle
          PROVE  a.revision # call'[y].expected + 1
      <4>1. CASE y = x
        BY <1>2, <2>1, <2>7, <3>2, <4>1
      <4>2. CASE y # x
        BY <1>2, <1>3, <1>5, <3>2, <4>2 DEF OneEach
      <4> QED BY <4>1, <4>2
    <3>3. ASSUME NEW y \in Callers, NEW z \in Callers, y # z,
                 call'[y].pc = "patched", call'[z].pc = "patched",
                 call'[y].handle = call'[z].handle
          PROVE  call'[y].expected # call'[z].expected
      <4>1. CASE y = x
        BY <2>1, <2>6, <3>3, <4>1
      <4>2. CASE z = x
        BY <2>1, <2>6, <3>3, <4>2
      <4>3. CASE y # x /\ z # x
        BY <1>3, <1>5, <3>3, <4>3 DEF OneEach
      <4> QED BY <4>1, <4>2, <4>3
    <3> QED BY <3>1, <3>2, <3>3 DEF OneEach
  <2> QED BY <2>5, <2>8
<1> QED BY <1>1, <1>6, <1>7

(* The answer hands the claim on. *)
LEMMA AnswerSafe ==
  ASSUME TInv, RInv, NEW x \in Callers, ApplyAnswer(x)
  PROVE  RInv'
<1> DEFINE a0 == [handle |-> call[x].handle, patch |-> call[x].patch,
                  revision |-> call[x].expected + 1]
<1>1. /\ OnlyCall(x) /\ call'[x] = Idle /\ call[x].pc = "patched"
      /\ answered' = answered \cup {a0} /\ UNCHANGED <<history, row>>
  <2>1. /\ Done(x) /\ call[x].pc = "patched"
        /\ answered' = answered \cup {a0} /\ UNCHANGED <<history, row, calls>>
    BY DEF ApplyAnswer, At, stores
  <2>2. RowsKept
    BY <2>1, RowsUnchanged
  <2> QED BY <2>1, <2>2, DoneIs DEF RowsKept
<1>2. a0.handle = call[x].handle /\ a0.revision = call[x].expected + 1 /\ call[x].pc = "patched"
  BY <1>1
<1> HIDE DEF a0
<1> SUFFICES ASSUME "stale bump" \notin history PROVE (NotAhead /\ OneEach)'
  BY <1>1 DEF RInv
<1>3. NotAhead /\ OneEach
  BY DEF RInv
<1>4. /\ call'[x].pc # "patched"
      /\ \A y \in Callers : y # x => call'[y] = call[y]
  BY <1>1, IdleIs DEF OnlyCall
<1>5. NotAhead'
  BY <1>1, <1>2, <1>3, <1>4 DEF NotAhead
<1>6. OneEach'
  <2>1. ASSUME NEW a \in answered, a.handle = a0.handle PROVE a.revision # a0.revision
    BY <1>2, <1>3, <2>1 DEF OneEach
  <2>2. ASSUME NEW a \in answered', NEW b \in answered',
               a.handle = b.handle, a.revision = b.revision
        PROVE  a.patch = b.patch
    BY <1>1, <1>3, <2>1, <2>2 DEF OneEach
  <2>3. ASSUME NEW y \in Callers, NEW a \in answered', call'[y].pc = "patched",
               a.handle = call'[y].handle
        PROVE  a.revision # call'[y].expected + 1
    <3>1. y # x /\ call[y].pc = "patched"
      BY <1>4, <2>3
    <3>2. CASE a \in answered
      BY <1>3, <1>4, <2>3, <3>1, <3>2 DEF OneEach
    <3>3. CASE a = a0
      <4>1. call[x].expected \in Nat /\ call[y].expected \in Nat
        BY ClaimTypes
      <4>2. PICK m \in Nat : m = call[x].expected
        BY <4>1
      <4>3. PICK n \in Nat : n = call[y].expected
        BY <4>1
      <4>4. call'[y] = call[y] /\ call[x].pc = "patched"
        BY <1>2, <1>4, <3>1
      <4>5. call[x].handle = call[y].handle
        BY <1>2, <2>3, <3>3, <4>4
      <4>6. m # n
        BY <1>3, <3>1, <4>2, <4>3, <4>4, <4>5 DEF OneEach
      <4>7. m + 1 # n + 1
        BY <4>2, <4>3, <4>6, Successors, Zenon
      <4> QED BY <1>2, <3>3, <4>2, <4>3, <4>4, <4>7
    <3> QED BY <1>1, <3>2, <3>3
  <2>4. ASSUME NEW y \in Callers, NEW z \in Callers, y # z,
               call'[y].pc = "patched", call'[z].pc = "patched",
               call'[y].handle = call'[z].handle
        PROVE  call'[y].expected # call'[z].expected
    BY <1>3, <1>4, <2>4 DEF OneEach
  <2> QED BY <2>2, <2>3, <2>4 DEF OneEach
<1> QED BY <1>5, <1>6

(* A workspace that is created starts to count. *)
LEMMA CreateKeeps ==
  ASSUME TInv, NEW x \in Callers, NEW h \in Handles, create(x, h)
  PROVE  RevisionsKept
<1>1. row \in [Handles -> Rows \cup {NoRow}] /\ row[h] = NoRow
  BY DEF TInv, TypeOK, create
<1>2. PICK new : new = [NoRow EXCEPT !.revision = 0, !.dirty = TRUE]
  OBVIOUS
<1>3. new.revision = 0 /\ NoRow.revision = -1
  BY <1>2 DEF NoRow
<1>4. row' = [row EXCEPT ![h] = new]
  BY <1>2 DEF create
<1>5. ASSUME NEW g \in Handles PROVE row'[g].revision >= row[g].revision
  <2>1. CASE g = h
    BY <1>1, <1>3, <1>4, <2>1
  <2>2. CASE g # h
    BY <1>1, <1>4, <2>2, RevisionsAre
  <2> QED BY <2>1, <2>2
<1> QED BY <1>5 DEF RevisionsKept

LEMMA RevisionsStep ==
  ASSUME TInv, RInv, [Next]_vars
  PROVE  RInv'
<1>1. TInv'
  BY TypesStep
<1>2. ASSUME NEW x \in Callers, CallStep(x)
      PROVE  RInv'
  <2>1. "stale bump" \in history => "stale bump" \in history'
    BY <1>2, Touches
  <2>2. OnlyCall(x)
    BY <1>2, CallStepMoves DEF Moves
  <2>3. CASE ApplyRecord(x)
    BY <2>3, RecordSafe
  <2>4. CASE ApplyAnswer(x)
    BY <2>4, AnswerSafe
  <2>5. ASSUME ~ApplyRecord(x), ~ApplyAnswer(x)
        PROVE  RInv'
    <3>1. answered' \subseteq answered
      BY <1>2, <2>5, Touches DEF Cleared, ImportClear
    <3>2. UNCHANGED row => RevisionsKept
      BY RevisionsUnchanged
    <3>3. call'[x].pc # "patched" /\ ("stale bump" \in history' \/ RevisionsKept)
      <4>1. CASE EnsureFind(x) \/ EnsureProvide(x) \/ EnsureSeed(x)
        BY <3>2, <4>1, EnsuringMoves
           DEF EnsureFind, EnsureProvide, EnsureSeed, stores, Aside
      <4>2. CASE \E h \in Handles : create(x, h)
        BY <4>2, EnsuringMoves, CreateKeeps DEF Aside
      <4>3. CASE ApplyCompare(x) \/ ApplyStatus(x) \/ Apply(x) \/ ApplyReread(x)
        BY <3>2, <4>3, PatchMoves
           DEF ApplyCompare, ApplyStatus, Apply, ApplyReread, stores, Aside
      <4>4. CASE \/ CaptureBase(x) \/ CaptureAdd(x) \/ CaptureTree(x)
                 \/ CaptureVersion(x) \/ CaptureFind(x) \/ CapturePut(x)
                 \/ CaptureCommit(x) \/ Commanded(x) \/ ActivateSet(x)
        <5>1. UNCHANGED row
          BY <4>4, Zenon DEF CaptureBase, CaptureAdd, CaptureTree, CaptureVersion,
             CaptureFind, CapturePut, CaptureCommit, Commanded, CaptureCommand,
             ActivateSet, stores
        <5> QED BY <3>2, <4>4, <5>1, CaptureMoves DEF Commanded, Aside
      <4>5. CASE \/ ActivateRead(x) \/ ActivateMark(x) \/ BumpCompare(x)
                 \/ BumpRead(x) \/ Bump(x)
        BY <4>5, ActivateMoves DEF Aside
      <4>6. CASE \/ Stat(x) \/ ImportChecks(x) \/ ImportClone(x) \/ Cleared(x)
                 \/ FreezeClear(x) \/ FreezeAdd(x) \/ CheckDrift(x) \/ CheckDrop(x)
        BY <3>2, <4>6, OtherMoves DEF Cleared, Aside
      <4>7. CASE CheckFind(x)
        BY <3>2, <4>7, CheckFindMoves
      <4>8. CASE Ran(x)
        BY <3>2, <4>8, ToolMoves DEF Ran, ToolEnds
      <4> QED BY <1>2, <2>5, <4>1, <4>2, <4>3, <4>4, <4>5, <4>6, <4>7, <4>8
              DEF CallStep, Cleared, Commanded, Ran
    <3> QED BY <1>1, <2>1, <2>2, <3>1, <3>3, StillSafe
  <2> QED BY <2>3, <2>4, <2>5
<1>3. ASSUME NEW x \in Callers, NEW kind \in Kinds, NEW patch \in Patches \cup {Remote},
             NEW expected \in Expected, Start(x, kind, patch, expected)
      PROVE  RInv'
  <2>1. OnlyCall(x) /\ call'[x].pc # "patched" /\ RevisionsKept
    BY <1>3, StartMoves, RevisionsUnchanged
  <2>2. answered' = answered /\ ("stale bump" \in history => "stale bump" \in history')
    BY <1>3 DEF Start
  <2> QED BY <1>1, <2>1, <2>2, StillSafe
<1>4. ASSUME NEW x \in Callers, Fails(x)
      PROVE  RInv'
  <2>1. OnlyCall(x) /\ call'[x].pc # "patched" /\ RevisionsKept
    BY <1>4, FailsMoves, RevisionsUnchanged, IdleIs DEF Moves
  <2>2. answered' = answered /\ ("stale bump" \in history => "stale bump" \in history')
    BY <1>4 DEF Fails
  <2> QED BY <1>1, <2>1, <2>2, StillSafe
<1>5. CASE UNCHANGED vars
  BY <1>5 DEF vars, RInv, NotAhead, OneEach
<1> QED BY <1>2, <1>3, <1>4, <1>5 DEF Next

-----------------------------------------------------------------------------
(* The invariant.                                                          *)
IInv == TInv /\ CInv /\ RInv

LEMMA InvariantInit == Init => IInv
<1> SUFFICES ASSUME Init PROVE IInv
  OBVIOUS
<1>1. TInv
  BY TypesInit
<1>2. \A x \in Callers : call[x].pc = "idle"
  BY IdleIs DEF Init
<1>3. CInv
  BY <1>2 DEF Init, CInv, Apart, Numbered, Untouched, Unread, Rivalled,
     TornByARivalOnly, Reading
<1>4. RInv
  BY <1>2 DEF Init, RInv, NotAhead, OneEach
<1> QED BY <1>1, <1>3, <1>4 DEF IInv

(* The invariant of the proof: the types, with the place of every call;    *)
(* what calls leave in the frozen worktrees; what they claim of revisions. *)
THEOREM Invariance == Spec => []IInv
<1>1. IInv /\ [Next]_vars => IInv'
  BY TypesStep, ChecksStep, RevisionsStep DEF IInv
<1> QED BY <1>1, InvariantInit, PTL DEF Spec

(* Every state has the types of the rows, repositories, worktrees and      *)
(* calls, whatever calls overlap and wherever one fails.                   *)
THEOREM TypeCorrect == Spec => []TypeOK
<1>1. IInv => TypeOK
  BY DEF IInv, TInv
<1> QED BY <1>1, Invariance, PTL

(* Evidence that a tool took from a torn tree is owed to a second run of   *)
(* the same check, however many callers, calls and failures there are.     *)
THEOREM TornSound == Spec => []TornByARivalOnly
<1>1. IInv => TornByARivalOnly
  BY DEF IInv, CInv
<1> QED BY <1>1, Invariance, PTL

(* The compare and swap of the row hands each revision to one patch, until *)
(* an activation bumps what was bumped since it looked.                    *)
THEOREM RevisionsSound == Spec => []RevisionsAnsweredOnce
<1>1. IInv => RevisionsAnsweredOnce
  BY DEF IInv, RInv, NotAhead, OneEach, RevisionsAnsweredOnce
<1> QED BY <1>1, Invariance, PTL

-----------------------------------------------------------------------------
(* What is applied is captured.                                             *)

(* What a call of a workspace that nothing was imported to leaves behind    *)
(* and finds: the patches it has to find are in the tree, once it has added *)
(* them in the index, and once it has written the tree in the candidate.    *)
Carries(x) ==
  LET h == call[x].handle IN
  /\ call[x].pc # "cloning"
  /\ call[x].pc \in Unplaced => call[x].floor = {}
  /\ call[x].pc \notin Unplaced => call[x].floor \subseteq disk[h].work
  /\ call[x].pc \in {"reread", "record", "patched"} => call[x].patch \in disk[h].work
  /\ call[x].pc = "write_tree" => call[x].floor \subseteq disk[h].index
  /\ call[x].pc \in {"version", "find", "put", "revision", "runtime", "promote"} =>
       call[x].floor \subseteq call[x].candidate.tree

AInv ==
  "import" \notin history =>
    /\ \A a \in answered : a.patch \in disk[a.handle].work
    /\ \A x \in Callers : Carries(x)

(* Nothing leaves a directory; what leaves an index is in the directory. *)
Grows ==
  \A h \in Handles :
    /\ disk[h].work \subseteq disk'[h].work
    /\ disk'[h].index = disk[h].index \/ disk[h].work \subseteq disk'[h].index

TreeSteps == {"version", "find", "put", "revision", "runtime", "promote"}

(* The call goes on in the same place with what it has to find. *)
Same(x) ==
  /\ call'[x].floor = call[x].floor /\ call'[x].handle = call[x].handle
  /\ call'[x].patch = call[x].patch

LEMMA DoneCarries ==
  ASSUME NEW x \in Callers, call'[x] = Idle
  PROVE  Carries(x)'
BY DEF Carries, Idle, Unplaced

LEMMA GotoSame ==
  ASSUME TInv, NEW x \in Callers, NEW pc, Goto(x, pc)
  PROVE  Same(x) /\ call'[x].pc = pc /\ call'[x].candidate = call[x].candidate
<1>1. call[x] \in CallStates /\ call \in [Callers -> CallStates]
  BY DEF TInv, TypeOK
<1> QED BY <1>1 DEF Goto, CallStates, Same

(* The others find what they found. *)
LEMMA OthersCarry ==
  ASSUME TInv, NEW y \in Callers, Grows, Carries(y), call'[y] = call[y]
  PROVE  Carries(y)'
<1>1. call[y].pc \notin Unplaced => call[y].handle \in Handles
  BY DEF TInv, Located, Situated
<1>2. CASE call[y].pc \in Unplaced
  BY <1>2 DEF Carries, Unplaced
<1>3. CASE call[y].pc \notin Unplaced
  <2> DEFINE h == call[y].handle
  <2>1. /\ disk[h].work \subseteq disk'[h].work /\ call'[y].handle = h
        /\ disk'[h].index = disk[h].index \/ disk[h].work \subseteq disk'[h].index
        /\ call[y].floor \subseteq disk[h].work /\ call'[y].floor = call[y].floor
    BY <1>1, <1>3 DEF Grows, Carries
  <2>2. call[y].pc = "write_tree" => call[y].floor \subseteq disk'[h].index
    BY <2>1 DEF Carries
  <2>3. call[y].pc \in {"reread", "record", "patched"} => call[y].patch \in disk'[h].work
    BY <2>1 DEF Carries
  <2> QED BY <1>3, <2>1, <2>2, <2>3 DEF Carries
<1> QED BY <1>2, <1>3

(* A call that goes on finds what it found. *)
LEMMA StepCarries ==
  ASSUME TInv, NEW x \in Callers, Grows, Carries(x), Same(x),
         call[x].pc \notin Unplaced, call'[x].pc \notin Unplaced \cup {"cloning"},
         call'[x].pc \in {"reread", "record", "patched"} =>
           call[x].patch \in disk'[call[x].handle].work,
         call'[x].pc = "write_tree" =>
           call[x].floor \subseteq disk'[call[x].handle].index,
         call'[x].pc \in TreeSteps => call[x].floor \subseteq call'[x].candidate.tree
  PROVE  Carries(x)'
<1>1. call[x].handle \in Handles
  BY DEF TInv, Located, Situated
<1>2. call[x].floor \subseteq disk'[call[x].handle].work
  BY <1>1 DEF Grows, Carries
<1> QED BY <1>2 DEF Carries, Same, TreeSteps

(* Where a step gets no further than this, it carries what it carried. *)
Plain ==
  {"seeding", "stat", "check_revision", "status", "apply", "base_commit", "add", "mark",
   "bump_compare", "bump_read", "bump", "set_active", "clearing_checks", "clearing",
   "worktree", "tool", "drift", "dropping"}

LEMMA PlainCarries ==
  ASSUME TInv, NEW x \in Callers, Grows, Carries(x), Same(x),
         call[x].pc \notin Unplaced, call'[x].pc \in Plain
  PROVE  Carries(x)'
<1>1. /\ call'[x].pc \notin Unplaced \cup {"cloning"}
      /\ call'[x].pc \notin {"reread", "record", "patched"} \cup {"write_tree"} \cup TreeSteps
  BY DEF Plain, Unplaced, TreeSteps
<1> QED BY <1>1, StepCarries

LEMMA DiskGrows ==
  ASSUME UNCHANGED disk
  PROVE  Grows
BY DEF Grows

(* A step that does not empty a directory and does not answer. *)
LEMMA AKeeps ==
  ASSUME TInv, AInv, NEW x \in Callers, OnlyCall(x), history \subseteq history',
         Grows, answered' = answered, Carries(x) => Carries(x)'
  PROVE  AInv'
<1> SUFFICES ASSUME "import" \notin history' PROVE AInv'
  BY DEF AInv
<1>1. /\ \A a \in answered : a.patch \in disk[a.handle].work
      /\ \A y \in Callers : Carries(y)
  BY DEF AInv
<1>2. \A a \in answered : a.handle \in Handles
  BY DEF TInv, TypeOK
<1>3. \A a \in answered : a.patch \in disk'[a.handle].work
  BY <1>1, <1>2 DEF Grows
<1>4. \A y \in Callers : Carries(y)'
  <2> SUFFICES ASSUME NEW y \in Callers PROVE Carries(y)'
    OBVIOUS
  <2>1. CASE y = x
    BY <1>1, <2>1
  <2>2. CASE y # x
    BY <1>1, <2>2, OthersCarry DEF OnlyCall
  <2> QED BY <2>1, <2>2
<1> QED BY <1>3, <1>4 DEF AInv

LEMMA GotoPlain ==
  ASSUME TInv, NEW x \in Callers, NEW pc \in Plain, Goto(x, pc), Grows,
         call[x].pc \notin Unplaced
  PROVE  Carries(x) => Carries(x)'
BY GotoSame, PlainCarries

LEMMA EndCarries ==
  ASSUME TInv, NEW x \in Callers, Done(x)
  PROVE  Carries(x)'
<1>1. call'[x] = Idle
  BY DEF Done, TInv, TypeOK
<1> QED BY <1>1, DoneCarries

LEMMA EnsuringCarries ==
  ASSUME TInv, AInv, NEW x \in Callers, "import" \notin history,
         \/ EnsureFind(x) \/ (\E h \in Handles : create(x, h))
         \/ EnsureProvide(x) \/ EnsureSeed(x)
  PROVE  Carries(x)' /\ Grows
<1>1. /\ call[x] \in CallStates /\ call \in [Callers -> CallStates] /\ Situated(x)
      /\ disk \in [Handles -> Repositories] /\ Carries(x)
  BY DEF TInv, TypeOK, Located, AInv
<1>2. CASE EnsureFind(x) /\ Goto(x, "creating")
  <2>1. Same(x) /\ call'[x].pc = "creating" /\ call[x].floor = {}
    BY <1>1, <1>2, GotoSame DEF EnsureFind, At, Carries, Unplaced
  <2> QED BY <1>2, <2>1, DiskGrows DEF EnsureFind, Carries, Unplaced, Same
<1>3. CASE EnsureFind(x) /\ ~Goto(x, "creating")
  <2>1. PICK h \in Handles :
          call' = [call EXCEPT ![x].pc = "providing", ![x].handle = h, ![x].floor = Found(h)]
    BY <1>3 DEF EnsureFind
  <2>2. Found(h) \subseteq disk[h].work
    BY <1>1 DEF Found, AInv
  <2>3. PICK f : f = Found(h)
    OBVIOUS
  <2>4. call'[x] = [call[x] EXCEPT !.pc = "providing", !.handle = h, !.floor = f]
    BY <1>1, <2>1, <2>3
  <2>5. call'[x].pc = "providing" /\ call'[x].handle = h /\ call'[x].floor = f
    BY <1>1, <2>4 DEF CallStates
  <2>6. disk' = disk
    BY <1>3 DEF EnsureFind
  <2> QED BY <2>2, <2>3, <2>5, <2>6, DiskGrows DEF Carries, Unplaced
<1>4. CASE \E h \in Handles : create(x, h)
  <2>1. PICK h \in Handles : create(x, h)
    BY <1>4
  <2>2. call'[x] = [call[x] EXCEPT !.pc = "providing", !.handle = h] /\ call[x].floor = {}
    BY <1>1, <2>1 DEF create, At, Carries, Unplaced
  <2>3. call'[x].pc = "providing" /\ call'[x].handle = h /\ call'[x].floor = {}
    BY <1>1, <2>2 DEF CallStates
  <2>4. disk' = disk
    BY <2>1 DEF create
  <2> QED BY <2>3, <2>4, DiskGrows DEF Carries, Unplaced
<1>5. ASSUME EnsureProvide(x) \/ EnsureSeed(x)
      PROVE  /\ call[x].pc \notin Unplaced /\ call[x].handle \in Handles
             /\ AfterEnsure(call[x].kind) \in Plain /\ "seeding" \in Plain
  <2>1. call[x].pc \in {"providing", "seeding"}
    BY <1>5 DEF EnsureProvide, EnsureSeed, At
  <2>2. /\ call[x].kind \in {"patch", "capture", "import", "stat"}
        /\ call[x].pc \notin Unplaced /\ call[x].handle \in Handles
    BY <1>1, <2>1 DEF Situated, Ensuring, Unplaced
  <2> QED BY <2>2 DEF AfterEnsure, Plain
<1>6. CASE EnsureProvide(x)
  <2>1. Grows /\ (Goto(x, AfterEnsure(call[x].kind)) \/ Goto(x, "seeding"))
    BY <1>6, DiskGrows DEF EnsureProvide
  <2> QED BY <1>1, <1>5, <1>6, <2>1, GotoPlain
<1>7. CASE EnsureSeed(x)
  <2> DEFINE h == call[x].handle
  <2>1. disk' = [disk EXCEPT ![h].git = TRUE, ![h].base = @ + 1, ![h].head = disk[h].index]
    BY <1>7 DEF EnsureSeed
  <2>2. PICK d \in Repositories : d = disk[h]
    BY <1>1, <1>5, <1>7
  <2>3. disk'[h] = [d EXCEPT !.git = TRUE, !.base = @ + 1, !.head = d.index]
        /\ \A g \in Handles : g # h => disk'[g] = disk[g]
    BY <1>1, <1>5, <1>7, <2>1, <2>2
  <2>4. disk'[h].work = d.work /\ disk'[h].index = d.index
    BY <2>3 DEF Repositories
  <2>5. Grows
    BY <2>2, <2>3, <2>4 DEF Grows
  <2> QED BY <1>1, <1>5, <1>7, <2>5, GotoPlain DEF EnsureSeed
<1> QED BY <1>2, <1>3, <1>4, <1>6, <1>7

LEMMA PatchCarries ==
  ASSUME TInv, AInv, NEW x \in Callers, "import" \notin history,
         ApplyCompare(x) \/ ApplyStatus(x) \/ Apply(x) \/ ApplyReread(x) \/ ApplyRecord(x)
  PROVE  Carries(x)' /\ Grows
<1>1. /\ call[x] \in CallStates /\ call \in [Callers -> CallStates] /\ Situated(x)
      /\ disk \in [Handles -> Repositories] /\ Carries(x)
  BY DEF TInv, TypeOK, Located, AInv
<1>2. call[x].pc \in {"check_revision", "status", "apply", "reread", "record"}
  BY DEF ApplyCompare, ApplyStatus, Apply, ApplyReread, ApplyRecord, At
<1>3. /\ call[x].pc \notin Unplaced /\ call[x].handle \in Handles
      /\ "status" \in Plain /\ "apply" \in Plain
  BY <1>1, <1>2 DEF Situated, Unplaced, Plain
<1> DEFINE h == call[x].handle
<1>4. CASE ApplyCompare(x) \/ ApplyStatus(x)
  <2>1. Grows /\ (Goto(x, "status") \/ Goto(x, "apply") \/ Done(x))
    BY <1>4, DiskGrows DEF ApplyCompare, ApplyStatus
  <2> QED BY <1>1, <1>3, <2>1, GotoPlain, EndCarries
<1>5. ASSUME NEW pc \in {"reread", "record", "patched"}, Same(x), call'[x].pc = pc, Grows,
             call[x].patch \in disk'[h].work
      PROVE  Carries(x)'
  <2>1. /\ pc \notin Unplaced \cup {"cloning"}
        /\ pc \notin {"write_tree"} /\ pc \notin TreeSteps
    BY DEF Unplaced, TreeSteps
  <2> QED BY <1>1, <1>3, <1>5, <2>1, StepCarries
<1>6. CASE Apply(x)
  <2>1. CASE Done(x) /\ UNCHANGED disk
    BY <2>1, DiskGrows, EndCarries
  <2>2. CASE ~(Done(x) /\ UNCHANGED disk)
    <3>1. /\ disk' = [disk EXCEPT ![h].work = @ \cup {call[x].patch}]
          /\ Goto(x, "reread")
      BY <1>6, <2>2 DEF Apply
    <3>2. PICK d \in Repositories : d = disk[h]
      BY <1>1, <1>3
    <3>3. PICK p : p = call[x].patch
      OBVIOUS
    <3>4. disk'[h] = [d EXCEPT !.work = d.work \cup {p}]
          /\ \A g \in Handles : g # h => disk'[g] = disk[g]
      BY <1>1, <1>3, <3>1, <3>2, <3>3
    <3>5. disk'[h].work = d.work \cup {p} /\ disk'[h].index = d.index
      BY <3>4 DEF Repositories
    <3>6. Grows /\ call[x].patch \in disk'[h].work
      BY <3>2, <3>3, <3>4, <3>5 DEF Grows
    <3> QED BY <1>5, <3>1, <3>6, GotoSame
  <2> QED BY <2>1, <2>2
<1>7. CASE ApplyReread(x)
  <2>1. Grows
    BY <1>7, DiskGrows DEF ApplyReread
  <2>2. CASE Done(x)
    BY <2>1, <2>2, EndCarries
  <2>3. CASE ~Done(x)
    <3>1. PICK s : s = row[h]
      OBVIOUS
    <3>2. call'[x] = [call[x] EXCEPT !.pc = "record", !.seen = s]
      BY <1>1, <1>7, <2>3, <3>1 DEF ApplyReread
    <3>3. call'[x].pc = "record" /\ Same(x)
      BY <1>1, <3>2 DEF CallStates, Same
    <3>4. call[x].patch \in disk'[h].work
      BY <1>1, <1>7 DEF ApplyReread, At, Carries
    <3> QED BY <1>5, <2>1, <3>3, <3>4
  <2> QED BY <2>2, <2>3
<1>8. CASE ApplyRecord(x)
  <2>1. Grows /\ (Goto(x, "patched") \/ Done(x))
    BY <1>8, DiskGrows DEF ApplyRecord, Rewrites
  <2>2. call[x].patch \in disk'[h].work
    BY <1>1, <1>8 DEF ApplyRecord, At, Carries
  <2> QED BY <1>5, <2>1, <2>2, GotoSame, EndCarries
<1> QED BY <1>4, <1>6, <1>7, <1>8

LEMMA CaptureCarries ==
  ASSUME TInv, AInv, NEW x \in Callers, "import" \notin history,
         \/ CaptureBase(x) \/ CaptureAdd(x) \/ CaptureTree(x) \/ CaptureVersion(x)
         \/ CaptureFind(x) \/ CapturePut(x) \/ CaptureCommit(x)
         \/ (\E accepted, activated \in BOOLEAN : CaptureCommand(x, accepted, activated))
         \/ ActivateSet(x)
  PROVE  Carries(x)' /\ Grows
<1>1. /\ call[x] \in CallStates /\ call \in [Callers -> CallStates] /\ Situated(x)
      /\ disk \in [Handles -> Repositories] /\ Carries(x)
  BY DEF TInv, TypeOK, Located, AInv
<1>2. call[x].pc \in {"base_commit", "add", "write_tree", "version", "find", "put",
                      "revision", "runtime", "set_active"}
  BY DEF CaptureBase, CaptureAdd, CaptureTree, CaptureVersion, CaptureFind,
     CapturePut, CaptureCommit, CaptureCommand, ActivateSet, At
<1>3. /\ call[x].pc \notin Unplaced /\ call[x].handle \in Handles
      /\ "add" \in Plain
  BY <1>1, <1>2 DEF Situated, Unplaced, Plain
<1> DEFINE h == call[x].handle
<1>4. PICK d \in Repositories : d = disk[h]
  BY <1>1, <1>3
<1>5. ASSUME NEW pc \in TreeSteps, Same(x), call'[x].pc = pc, Grows,
             call[x].floor \subseteq call'[x].candidate.tree
      PROVE  Carries(x)'
  <2>1. pc \notin Unplaced \cup {"cloning"} /\ pc \notin {"reread", "record", "patched", "write_tree"}
    BY DEF Unplaced, TreeSteps
  <2> QED BY <1>1, <1>3, <1>5, <2>1, StepCarries
<1>6. ASSUME NEW pc \in TreeSteps, Goto(x, pc), Grows, call[x].pc \in TreeSteps
      PROVE  Carries(x)'
  <2>1. call[x].floor \subseteq call[x].candidate.tree
    BY <1>1, <1>6 DEF Carries, TreeSteps
  <2> QED BY <1>5, <1>6, <2>1, GotoSame
<1>7. PICK old \in Candidates : old = call[x].candidate
  BY <1>1 DEF CallStates
<1>8. CASE CaptureBase(x)
  <2>1. Grows
    BY <1>8, DiskGrows DEF CaptureBase
  <2>2. CASE Done(x)
    BY <2>1, <2>2, EndCarries
  <2>3. CASE ~Done(x)
    <3>1. call' = [call EXCEPT ![x].pc = "add", ![x].candidate.base = d.base]
      BY <1>4, <1>8, <2>3 DEF CaptureBase
    <3>2. PICK c : c = [old EXCEPT !.base = d.base]
      OBVIOUS
    <3>3. call'[x] = [call[x] EXCEPT !.pc = "add", !.candidate = c]
      BY <1>1, <1>7, <3>1, <3>2 DEF CallStates
    <3>4. call'[x].pc = "add" /\ Same(x)
      BY <1>1, <3>3 DEF CallStates, Same
    <3> QED BY <1>1, <1>3, <2>1, <3>4, PlainCarries
  <2> QED BY <2>2, <2>3
<1>9. CASE CaptureAdd(x)
  <2>1. CASE Done(x) /\ UNCHANGED disk
    BY <2>1, DiskGrows, EndCarries
  <2>2. CASE ~(Done(x) /\ UNCHANGED disk)
    <3>1. disk' = [disk EXCEPT ![h].index = Visible(h)] /\ Goto(x, "write_tree")
      BY <1>9, <2>2 DEF CaptureAdd, current_tree
    <3>2. PICK v : v = Visible(h) /\ d.work \subseteq v
      BY <1>4 DEF Visible
    <3>3. disk'[h] = [d EXCEPT !.index = v] /\ \A g \in Handles : g # h => disk'[g] = disk[g]
      BY <1>1, <1>3, <1>4, <3>1, <3>2
    <3>4. disk'[h].work = d.work /\ disk'[h].index = v
      BY <3>3 DEF Repositories
    <3>5. Grows
      BY <1>4, <3>2, <3>3, <3>4 DEF Grows
    <3>6. call[x].floor \subseteq disk'[h].index
      BY <1>1, <1>3, <1>4, <3>2, <3>4 DEF Carries
    <3>7. /\ "write_tree" \notin Unplaced \cup {"cloning"}
          /\ "write_tree" \notin {"reread", "record", "patched"} \cup TreeSteps
      BY DEF Unplaced, TreeSteps
    <3> QED BY <1>1, <1>3, <3>1, <3>5, <3>6, <3>7, StepCarries, GotoSame
  <2> QED BY <2>1, <2>2
<1>10. CASE CaptureTree(x)
  <2>1. Grows
    BY <1>10, DiskGrows DEF CaptureTree
  <2>2. CASE Done(x)
    BY <2>1, <2>2, EndCarries
  <2>3. CASE ~Done(x)
    <3>1. call' = [call EXCEPT ![x].pc = "version", ![x].candidate.tree = d.index]
      BY <1>4, <1>10, <2>3 DEF CaptureTree
    <3>2. PICK c : c = [old EXCEPT !.tree = d.index]
      OBVIOUS
    <3>3. call'[x] = [call[x] EXCEPT !.pc = "version", !.candidate = c]
      BY <1>1, <1>7, <3>1, <3>2 DEF CallStates
    <3>4. call'[x].pc = "version" /\ Same(x) /\ call'[x].candidate = c
      BY <1>1, <3>3 DEF Same, CallStates
    <3>5. call[x].floor \subseteq c.tree
      <4>1. c.tree = d.index
        BY <3>2 DEF Candidates
      <4> QED BY <1>1, <1>4, <1>10, <4>1 DEF CaptureTree, At, Carries
    <3>6. "version" \in TreeSteps
      BY DEF TreeSteps
    <3> QED BY <1>5, <2>1, <3>4, <3>5, <3>6
  <2> QED BY <2>2, <2>3
<1>11. CASE CaptureVersion(x)
  <2>1. Grows
    BY <1>11, DiskGrows DEF CaptureVersion
  <2>2. PICK v : v = read_changelog_first_entry(h)
    OBVIOUS
  <2>3. PICK c : c = [old EXCEPT !.version = v]
    OBVIOUS
  <2>4. call'[x] = [call[x] EXCEPT !.pc = "find", !.candidate = c]
    BY <1>1, <1>7, <1>11, <2>2, <2>3 DEF CaptureVersion, CallStates
  <2>5. call'[x].pc = "find" /\ Same(x) /\ call'[x].candidate = c
    BY <1>1, <2>4 DEF Same, CallStates
  <2>6. call[x].floor \subseteq c.tree
    <3>1. c.tree = old.tree
      BY <2>3 DEF Candidates
    <3> QED BY <1>1, <1>7, <1>11, <3>1 DEF CaptureVersion, At, Carries
  <2>7. "find" \in TreeSteps
    BY DEF TreeSteps
  <2> QED BY <1>5, <2>1, <2>5, <2>6, <2>7
<1>12. CASE CaptureFind(x)
  <2>1. Grows /\ (Goto(x, "revision") \/ Goto(x, "put")) /\ call[x].pc \in TreeSteps
    BY <1>12, DiskGrows DEF CaptureFind, At, TreeSteps
  <2>2. "revision" \in TreeSteps /\ "put" \in TreeSteps
    BY DEF TreeSteps
  <2> QED BY <1>6, <2>1, <2>2
<1>13. CASE CapturePut(x)
  <2>1. Grows /\ (Goto(x, "revision") \/ Done(x)) /\ call[x].pc \in TreeSteps
    BY <1>13, DiskGrows DEF CapturePut, At, TreeSteps
  <2>2. "revision" \in TreeSteps
    BY DEF TreeSteps
  <2> QED BY <1>6, <2>1, <2>2, EndCarries
<1>14. CASE CaptureCommit(x)
  <2>1. CASE Done(x) /\ UNCHANGED disk
    BY <2>1, DiskGrows, EndCarries
  <2>2. CASE ~(Done(x) /\ UNCHANGED disk)
    <3>1. disk' = [disk EXCEPT ![h].head = d.index] /\ Goto(x, "runtime")
      BY <1>4, <1>14, <2>2 DEF CaptureCommit
    <3>2. disk'[h] = [d EXCEPT !.head = d.index] /\ \A g \in Handles : g # h => disk'[g] = disk[g]
      BY <1>1, <1>3, <1>4, <3>1
    <3>3. disk'[h].work = d.work /\ disk'[h].index = d.index
      BY <3>2 DEF Repositories
    <3>4. Grows
      BY <1>4, <3>2, <3>3 DEF Grows
    <3>5. "runtime" \in TreeSteps /\ call[x].pc \in TreeSteps
      BY <1>14 DEF TreeSteps, CaptureCommit, At
    <3> QED BY <1>6, <3>1, <3>4, <3>5
  <2> QED BY <2>1, <2>2
<1>15. CASE \E accepted, activated \in BOOLEAN : CaptureCommand(x, accepted, activated)
  <2>1. Grows /\ (Goto(x, "promote") \/ Done(x)) /\ call[x].pc \in TreeSteps
    BY <1>15, DiskGrows DEF CaptureCommand, At, TreeSteps
  <2>2. "promote" \in TreeSteps
    BY DEF TreeSteps
  <2> QED BY <1>6, <2>1, <2>2, EndCarries
<1>16. CASE ActivateSet(x)
  BY <1>16, DiskGrows, EndCarries DEF ActivateSet
<1> QED BY <1>8, <1>9, <1>10, <1>11, <1>12, <1>13, <1>14, <1>15, <1>16

LEMMA ActivateCarries ==
  ASSUME TInv, AInv, NEW x \in Callers, "import" \notin history,
         \/ ActivateRead(x) \/ ActivateMark(x) \/ BumpCompare(x) \/ BumpRead(x)
         \/ Bump(x)
  PROVE  Carries(x)' /\ Grows
<1>1. /\ call[x] \in CallStates /\ call \in [Callers -> CallStates] /\ Carries(x)
  BY DEF TInv, TypeOK, AInv
<1>2. Grows
  BY DiskGrows DEF ActivateRead, ActivateMark, BumpCompare, BumpRead, Bump
<1>3. /\ call[x].pc \notin Unplaced /\ "mark" \in Plain /\ "bump_compare" \in Plain
      /\ "bump_read" \in Plain /\ "bump" \in Plain /\ "set_active" \in Plain
  BY DEF ActivateRead, ActivateMark, BumpCompare, BumpRead, Bump, At, Unplaced, Plain
<1>4. CASE ActivateRead(x)
  <2>1. PICK s : s = row[call[x].handle]
    OBVIOUS
  <2>2. call'[x] = [call[x] EXCEPT !.pc = "mark", !.seen = s]
    BY <1>1, <1>4, <2>1 DEF ActivateRead
  <2>3. call'[x].pc = "mark" /\ Same(x)
    BY <1>1, <2>2 DEF CallStates, Same
  <2> QED BY <1>1, <1>2, <1>3, <2>3, PlainCarries
<1>5. CASE BumpRead(x)
  <2>1. PICK s : s = row[call[x].handle]
    OBVIOUS
  <2>2. PICK e : e = call[x].seen.revision + 1
    OBVIOUS
  <2>3. call'[x] = [call[x] EXCEPT !.pc = "bump", !.expected = e, !.seen = s]
    BY <1>1, <1>5, <2>1, <2>2 DEF BumpRead
  <2>4. call'[x].pc = "bump" /\ Same(x)
    BY <1>1, <2>3 DEF CallStates, Same
  <2> QED BY <1>1, <1>2, <1>3, <2>4, PlainCarries
<1>6. CASE ActivateMark(x) \/ BumpCompare(x) \/ Bump(x)
  <2>1. Goto(x, "bump_compare") \/ Goto(x, "bump_read") \/ Goto(x, "set_active") \/ Done(x)
    BY <1>6 DEF ActivateMark, BumpCompare, Bump, Rewrites
  <2> QED BY <1>1, <1>2, <1>3, <2>1, GotoPlain, EndCarries
<1> QED BY <1>4, <1>5, <1>6

LEMMA OtherCarries ==
  ASSUME TInv, AInv, NEW x \in Callers, "import" \notin history,
         \/ Stat(x) \/ ImportChecks(x) \/ ImportClone(x)
         \/ CheckFind(x) \/ FreezeClear(x) \/ FreezeAdd(x)
         \/ (\E act \in {"reads", "writes", "commits"} : Tool(x, act))
         \/ CheckDrift(x) \/ CheckDrop(x)
  PROVE  Carries(x)' /\ Grows
<1>1. /\ call[x] \in CallStates /\ call \in [Callers -> CallStates] /\ Carries(x)
  BY DEF TInv, TypeOK, AInv
<1>2. ~ImportClone(x)
  BY <1>1 DEF ImportClone, At, Carries
<1>3. Grows
  BY <1>2, DiskGrows DEF Stat, ImportChecks, CheckFind, FreezeClear, FreezeAdd, Tool,
     CheckDrift, CheckDrop
<1>4. /\ "clearing" \in Plain /\ "worktree" \in Plain /\ "tool" \in Plain
      /\ "drift" \in Plain /\ "dropping" \in Plain
  BY DEF Plain
<1>5. CASE Stat(x) \/ CheckDrop(x)
  BY <1>3, <1>5, EndCarries DEF Stat, CheckDrop
<1>6. CASE ImportChecks(x) \/ FreezeClear(x) \/ FreezeAdd(x) \/ CheckDrift(x)
  <2>1. /\ call[x].pc \notin Unplaced
        /\ \/ Goto(x, "clearing") \/ Goto(x, "worktree") \/ Goto(x, "tool")
           \/ Goto(x, "dropping") \/ Done(x)
    BY <1>6 DEF ImportChecks, FreezeClear, FreezeAdd, CheckDrift, At, Unplaced
  <2> QED BY <1>1, <1>3, <1>4, <2>1, GotoPlain, EndCarries
<1>7. CASE CheckFind(x)
  <2>1. call[x].floor = {}
    BY <1>1, <1>7 DEF CheckFind, At, Carries, Unplaced
  <2>2. CASE Done(x)
    BY <1>3, <2>2, EndCarries
  <2>3. CASE ~Done(x)
    <3>1. PICK h \in Handles : call' = [call EXCEPT ![x].pc = "freezing", ![x].handle = h,
                                                    ![x].candidate = active]
      BY <1>7, <2>3 DEF CheckFind
    <3>2. PICK c : c = active
      OBVIOUS
    <3>3. call'[x] = [call[x] EXCEPT !.pc = "freezing", !.handle = h, !.candidate = c]
      BY <1>1, <3>1, <3>2
    <3>4. call'[x].pc = "freezing" /\ call'[x].floor = {}
      BY <1>1, <2>1, <3>3 DEF CallStates
    <3> QED BY <1>3, <3>4 DEF Carries, Unplaced
  <2> QED BY <2>2, <2>3
<1>8. CASE \E act \in {"reads", "writes", "commits"} : Tool(x, act)
  <2>1. PICK r : call' = [call EXCEPT ![x].pc = "drift", ![x].reads = r]
    BY <1>8 DEF Tool
  <2>2. call'[x] = [call[x] EXCEPT !.pc = "drift", !.reads = r]
    BY <1>1, <2>1
  <2>3. call'[x].pc = "drift" /\ Same(x) /\ call[x].pc \notin Unplaced
    BY <1>1, <1>8, <2>2 DEF CallStates, Same, Tool, At, Unplaced
  <2> QED BY <1>1, <1>3, <1>4, <2>3, PlainCarries
<1> QED BY <1>2, <1>5, <1>6, <1>7, <1>8

LEMMA HistoryGrows ==
  ASSUME NEW x \in Callers, CallStep(x)
  PROVE  history \subseteq history'
<1>1. CASE \E h \in Handles : create(x, h)
  BY <1>1 DEF create, tallies
<1>2. CASE Bump(x) \/ ApplyAnswer(x) \/ CheckDrift(x)
  BY <1>2 DEF Bump, ApplyAnswer, CheckDrift
<1>3. CASE \E gitGone \in BOOLEAN, left \in SUBSET Contents : ImportClear(x, gitGone, left)
  BY <1>3 DEF ImportClear
<1>4. CASE \/ EnsureFind(x) \/ EnsureProvide(x) \/ EnsureSeed(x) \/ Stat(x)
           \/ ApplyCompare(x) \/ ApplyStatus(x) \/ Apply(x) \/ ApplyReread(x)
           \/ ApplyRecord(x)
  BY <1>4 DEF EnsureFind, EnsureProvide, EnsureSeed, Stat, ApplyCompare, ApplyStatus,
     Apply, ApplyReread, ApplyRecord, tallies
<1>5. CASE \/ CaptureBase(x) \/ CaptureAdd(x) \/ CaptureTree(x) \/ CaptureVersion(x)
           \/ CaptureFind(x) \/ CapturePut(x) \/ CaptureCommit(x)
           \/ (\E accepted, activated \in BOOLEAN : CaptureCommand(x, accepted, activated))
  BY <1>5 DEF CaptureBase, CaptureAdd, CaptureTree, CaptureVersion, CaptureFind,
     CapturePut, CaptureCommit, CaptureCommand, tallies
<1>6. CASE \/ ActivateRead(x) \/ ActivateMark(x) \/ BumpCompare(x) \/ BumpRead(x)
           \/ ActivateSet(x) \/ ImportChecks(x) \/ ImportClone(x) \/ CheckFind(x)
           \/ FreezeClear(x) \/ FreezeAdd(x) \/ CheckDrop(x)
           \/ (\E act \in {"reads", "writes", "commits"} : Tool(x, act))
  BY <1>6 DEF ActivateRead, ActivateMark, BumpCompare, BumpRead, ActivateSet,
     ImportChecks, ImportClone, CheckFind, FreezeClear, FreezeAdd, CheckDrop, Tool, tallies
<1> QED BY <1>1, <1>2, <1>3, <1>4, <1>5, <1>6 DEF CallStep

(* Only an answer adds to what was answered, and only an import takes away. *)
LEMMA AnsweredStays ==
  ASSUME NEW x \in Callers, CallStep(x), ~ApplyAnswer(x),
         ~\E gitGone \in BOOLEAN, left \in SUBSET Contents : ImportClear(x, gitGone, left)
  PROVE  answered' = answered
<1>1. CASE \E h \in Handles : create(x, h)
  BY <1>1 DEF create, tallies
<1>2. CASE Bump(x) \/ CheckDrift(x)
  BY <1>2 DEF Bump, CheckDrift
<1>4. CASE \/ EnsureFind(x) \/ EnsureProvide(x) \/ EnsureSeed(x) \/ Stat(x)
           \/ ApplyCompare(x) \/ ApplyStatus(x) \/ Apply(x) \/ ApplyReread(x)
           \/ ApplyRecord(x)
  BY <1>4 DEF EnsureFind, EnsureProvide, EnsureSeed, Stat, ApplyCompare, ApplyStatus,
     Apply, ApplyReread, ApplyRecord, tallies
<1>5. CASE \/ CaptureBase(x) \/ CaptureAdd(x) \/ CaptureTree(x) \/ CaptureVersion(x)
           \/ CaptureFind(x) \/ CapturePut(x) \/ CaptureCommit(x)
           \/ (\E accepted, activated \in BOOLEAN : CaptureCommand(x, accepted, activated))
  BY <1>5 DEF CaptureBase, CaptureAdd, CaptureTree, CaptureVersion, CaptureFind,
     CapturePut, CaptureCommit, CaptureCommand, tallies
<1>6. CASE \/ ActivateRead(x) \/ ActivateMark(x) \/ BumpCompare(x) \/ BumpRead(x)
           \/ ActivateSet(x) \/ ImportChecks(x) \/ ImportClone(x) \/ CheckFind(x)
           \/ FreezeClear(x) \/ FreezeAdd(x) \/ CheckDrop(x)
           \/ (\E act \in {"reads", "writes", "commits"} : Tool(x, act))
  BY <1>6 DEF ActivateRead, ActivateMark, BumpCompare, BumpRead, ActivateSet,
     ImportChecks, ImportClone, CheckFind, FreezeClear, FreezeAdd, CheckDrop, Tool, tallies
<1> QED BY <1>1, <1>2, <1>4, <1>5, <1>6 DEF CallStep

LEMMA AnswerCarries ==
  ASSUME TInv, AInv, NEW x \in Callers, ApplyAnswer(x)
  PROVE  AInv'
<1> SUFFICES ASSUME "import" \notin history' PROVE AInv'
  BY DEF AInv
<1>1. /\ \A a \in answered : a.patch \in disk[a.handle].work
      /\ \A y \in Callers : Carries(y)
  BY DEF AInv, ApplyAnswer
<1>2. call'[x] = Idle /\ \A y \in Callers : y # x => call'[y] = call[y]
  BY DEF TInv, TypeOK, ApplyAnswer, Done
<1>3. disk' = disk /\ call[x].patch \in disk[call[x].handle].work
  BY <1>1 DEF ApplyAnswer, Carries, At
<1>4. \A a \in answered' : a.patch \in disk'[a.handle].work
  BY <1>1, <1>3 DEF ApplyAnswer
<1>5. \A y \in Callers : Carries(y)'
  BY <1>1, <1>2, <1>3, DiskGrows, OthersCarry, DoneCarries
<1> QED BY <1>4, <1>5 DEF AInv

LEMMA StartCarries ==
  ASSUME TInv, AInv, NEW x \in Callers, NEW kind \in Kinds, NEW patch \in Patches \cup {Remote},
         NEW expected \in Expected, Start(x, kind, patch, expected)
  PROVE  AInv'
<1>1. OnlyCall(x) /\ call'[x].pc \in {"checking", "ensuring"}
  BY StartMoves
<1>2. history \subseteq history' /\ answered' = answered /\ Grows
  BY DiskGrows DEF Start
<1>3. PICK pc, n : call'[x] = [Idle EXCEPT !.pc = pc, !.kind = kind, !.id = n,
                                    !.patch = patch, !.expected = expected]
  BY DEF TInv, TypeOK, Start
<1>4. call'[x].floor = {}
  BY <1>3 DEF Idle
<1>5. Carries(x)'
  BY <1>1, <1>4 DEF Carries, Unplaced
<1> QED BY <1>1, <1>2, <1>5, AKeeps

LEMMA CapturesStep == TInv /\ AInv /\ [Next]_vars => AInv'
<1> SUFFICES ASSUME TInv, AInv, [Next]_vars PROVE AInv'
  OBVIOUS
<1>1. ASSUME NEW x \in Callers, CallStep(x)
      PROVE  AInv'
  <2>1. OnlyCall(x) /\ history \subseteq history'
    BY <1>1, CallStepMoves, HistoryGrows DEF Moves
  <2>2. CASE "import" \in history'
    BY <2>2 DEF AInv
  <2>3. CASE ApplyAnswer(x)
    BY <2>3, AnswerCarries
  <2>4. CASE "import" \notin history' /\ ~ApplyAnswer(x)
    <3>1. /\ "import" \notin history
          /\ ~\E gitGone \in BOOLEAN, left \in SUBSET Contents : ImportClear(x, gitGone, left)
      BY <2>1, <2>4 DEF ImportClear
    <3>2. answered' = answered
      BY <1>1, <2>4, <3>1, AnsweredStays
    <3>3. Carries(x)' /\ Grows
      <4>1. CASE \/ EnsureFind(x) \/ (\E h \in Handles : create(x, h))
                 \/ EnsureProvide(x) \/ EnsureSeed(x)
        BY <3>1, <4>1, EnsuringCarries
      <4>2. CASE \/ ApplyCompare(x) \/ ApplyStatus(x) \/ Apply(x) \/ ApplyReread(x)
                 \/ ApplyRecord(x)
        BY <3>1, <4>2, PatchCarries
      <4>3. CASE \/ CaptureBase(x) \/ CaptureAdd(x) \/ CaptureTree(x) \/ CaptureVersion(x)
                 \/ CaptureFind(x) \/ CapturePut(x) \/ CaptureCommit(x) \/ Commanded(x)
                 \/ ActivateSet(x)
        BY <3>1, <4>3, CaptureCarries DEF Commanded
      <4>4. CASE \/ ActivateRead(x) \/ ActivateMark(x) \/ BumpCompare(x) \/ BumpRead(x)
                 \/ Bump(x)
        BY <3>1, <4>4, ActivateCarries
      <4>5. CASE \/ Stat(x) \/ ImportChecks(x) \/ ImportClone(x)
                 \/ CheckFind(x) \/ FreezeClear(x) \/ FreezeAdd(x)
                 \/ Ran(x) \/ CheckDrift(x) \/ CheckDrop(x)
        BY <3>1, <4>5, OtherCarries DEF Ran
      <4> QED BY <1>1, <2>4, <3>1, <4>1, <4>2, <4>3, <4>4, <4>5 DEF CallStep, Commanded, Ran
    <3> QED BY <2>1, <3>2, <3>3, AKeeps
  <2> QED BY <2>2, <2>3, <2>4
<1>2. ASSUME NEW x \in Callers, NEW kind \in Kinds, NEW patch \in Patches \cup {Remote},
             NEW expected \in Expected, Start(x, kind, patch, expected)
      PROVE  AInv'
  BY <1>2, StartCarries
<1>3. ASSUME NEW x \in Callers, Fails(x)
      PROVE  AInv'
  <2>1. OnlyCall(x)
    BY <1>3, FailsMoves DEF Moves
  <2>2. history \subseteq history' /\ answered' = answered /\ Grows /\ Done(x)
    BY <1>3, DiskGrows DEF Fails
  <2> QED BY <2>1, <2>2, EndCarries, AKeeps
<1>4. CASE UNCHANGED vars
  BY <1>4, Zenon DEF vars, AInv, Carries
<1> QED BY <1>1, <1>2, <1>3, <1>4 DEF Next

LEMMA CapturesInit == Init => AInv
BY DEF Init, AInv, Carries, Idle, Unplaced

-----------------------------------------------------------------------------
(* What is clean is captured.                                               *)

(* Nothing is uncommitted in the directory of h, and the tree is the one of *)
(* the candidate that the row names.                                        *)
Tidy(h) ==
  /\ disk[h].git /\ disk[h].work = disk[h].index /\ disk[h].index = disk[h].head
  /\ disk[h].head = row[h].base.tree /\ row[h].base \in candidates

(* The tree of the capture that x makes is in the index. *)
Added(x) ==
  LET h == call[x].handle IN disk[h].git /\ disk[h].index = disk[h].work

(* Where a call stands that is alone. *)
Alone(x) ==
  LET h == call[x].handle IN
  /\ call[x].pc = "seeding" => ~disk[h].git
  /\ call[x].pc \in {"status", "apply", "reread", "record"} =>
       row[h].revision = call[x].expected
  /\ call[x].pc = "bump" => call[x].seen = row[h]
  /\ call[x].pc \in {"write_tree", "version", "find", "put", "revision", "runtime",
                     "promote", "mark"} => Added(x)
  /\ call[x].pc \in {"version", "find", "put", "revision", "runtime", "promote", "mark"} =>
       call[x].candidate.tree = disk[h].index
  /\ call[x].pc \in {"revision", "runtime", "promote", "mark"} =>
       call[x].candidate \in candidates
  /\ call[x].pc \in {"runtime", "promote", "mark"} => disk[h].head = disk[h].index

OneAtATime ==
  \A x, y \in Callers : call[x].pc # "idle" /\ call[y].pc # "idle" => x = y

(* Only a check that is alone has a worktree, and it is its own. *)
OwnWorktree ==
  \A f \in frozen : \E x \in Callers :
    call[x].pc \in {"tool", "drift", "dropping"} /\ SameCheck(f, x)

(* The patch of h that is applied and not yet recorded. *)
Unrecorded(h) ==
  \E x \in Callers : call[x].pc \in {"reread", "record"} /\ call[x].handle = h

KInv ==
  history = {} =>
    /\ OneAtATime /\ OwnWorktree
    /\ \A x \in Callers : Alone(x)
    /\ \A h \in Handles : row[h] # NoRow /\ ~row[h].dirty /\ ~Unrecorded(h) => Tidy(h)

Tidied ==
  \A h \in Handles : row[h] # NoRow /\ ~row[h].dirty /\ ~Unrecorded(h) => Tidy(h)

(* The steps at which a call needs no more than its place. *)
Free ==
  {"idle", "ensuring", "creating", "providing", "stat", "check_revision", "patched",
   "base_commit", "add", "bump_compare", "bump_read", "set_active", "clearing_checks",
   "clearing", "cloning", "checking", "freezing", "worktree", "tool", "drift", "dropping"}

LEMMA AloneFree ==
  ASSUME NEW x \in Callers, call'[x].pc \in Free
  PROVE  Alone(x)'
BY DEF Alone, Free

(* What a call that is under way has to itself. *)
Sole(x) ==
  /\ history = {} /\ call[x].pc # "idle"
  /\ \A y \in Callers : y # x => call[y].pc = "idle"
  /\ Alone(x) /\ Tidied
  /\ \A f \in frozen : call[x].pc \in {"tool", "drift", "dropping"} /\ SameCheck(f, x)

LEMMA SoleIs ==
  ASSUME KInv, history = {}, NEW x \in Callers, call[x].pc # "idle"
  PROVE  Sole(x)
<1>1. OneAtATime /\ OwnWorktree /\ Tidied /\ Alone(x)
  BY DEF KInv, Tidied
<1>2. \A y \in Callers : y # x => call[y].pc = "idle"
  BY <1>1 DEF OneAtATime
<1>3. \A f \in frozen : call[x].pc \in {"tool", "drift", "dropping"} /\ SameCheck(f, x)
  <2> SUFFICES ASSUME NEW f \in frozen
               PROVE  call[x].pc \in {"tool", "drift", "dropping"} /\ SameCheck(f, x)
    OBVIOUS
  <2>1. PICK y \in Callers : call[y].pc \in {"tool", "drift", "dropping"} /\ SameCheck(f, y)
    BY <1>1 DEF OwnWorktree
  <2>2. y = x
    BY <1>2, <2>1
  <2> QED BY <2>1, <2>2
<1> QED BY <1>1, <1>2, <1>3 DEF Sole

(* The other calls are idle and stay so. *)
LEMMA KNext ==
  ASSUME NEW x \in Callers, Sole(x), OnlyCall(x), Alone(x)', Tidied',
         \A f \in frozen' : call'[x].pc \in {"tool", "drift", "dropping"} /\ SameCheck(f, x)'
  PROVE  KInv'
<1>1. \A y \in Callers : y # x => call'[y].pc = "idle"
  BY DEF Sole, OnlyCall
<1>2. OneAtATime'
  BY <1>1 DEF OneAtATime
<1>3. OwnWorktree'
  BY DEF OwnWorktree
<1>4. \A y \in Callers : Alone(y)'
  <2> SUFFICES ASSUME NEW y \in Callers PROVE Alone(y)'
    OBVIOUS
  <2>1. CASE y = x
    BY <2>1
  <2>2. CASE y # x
    BY <1>1, <2>2, AloneFree DEF Free
  <2> QED BY <2>1, <2>2
<1> QED BY <1>2, <1>3, <1>4 DEF KInv, Tidied

LEMMA UnrecordedIs ==
  ASSUME NEW x \in Callers, Sole(x), OnlyCall(x)
  PROVE  \A h : /\ Unrecorded(h) <=>
                     call[x].pc \in {"reread", "record"} /\ call[x].handle = h
                /\ Unrecorded(h)' <=>
                     call'[x].pc \in {"reread", "record"} /\ call'[x].handle = h
<1>1. \A y \in Callers : y # x => call'[y].pc = "idle" /\ call[y].pc = "idle"
  BY DEF Sole, OnlyCall
<1> QED BY <1>1 DEF Unrecorded

(* Rows and repositories that are not touched are as tidy as they were. *)
LEMMA TidiedStays ==
  ASSUME NEW x \in Callers, Sole(x), OnlyCall(x), UNCHANGED <<row, disk>>,
         candidates \subseteq candidates',
         call[x].pc \in {"reread", "record"} =>
           call'[x].pc \in {"reread", "record"} /\ call'[x].handle = call[x].handle
  PROVE  Tidied'
<1> SUFFICES ASSUME NEW h \in Handles, row'[h] # NoRow, ~row'[h].dirty, ~Unrecorded(h)'
             PROVE  Tidy(h)'
  BY DEF Tidied, NoRow
<1>1. row[h] # NoRow /\ ~row[h].dirty /\ ~Unrecorded(h)
  BY UnrecordedIs
<1>2. Tidy(h)
  BY <1>1 DEF Sole, Tidied
<1> QED BY <1>2 DEF Tidy

LEMMA Quiet ==
  ASSUME NEW x \in Callers, Sole(x), OnlyCall(x), UNCHANGED <<row, disk>>, Alone(x)',
         candidates \subseteq candidates', frozen' \subseteq frozen,
         call[x].pc \notin {"reread", "record", "tool", "drift", "dropping"}
  PROVE  KInv'
<1>1. Tidied'
  BY TidiedStays
<1>2. frozen' = {}
  BY DEF Sole
<1> QED BY <1>1, <1>2, KNext

LEMMA QuietFree ==
  ASSUME NEW x \in Callers, Sole(x), OnlyCall(x), UNCHANGED <<row, disk>>,
         candidates \subseteq candidates', frozen' \subseteq frozen, call'[x].pc \in Free,
         call[x].pc \notin {"reread", "record", "tool", "drift", "dropping"}
  PROVE  KInv'
BY Quiet, AloneFree

LEMMA DoneFree ==
  ASSUME TInv, NEW x \in Callers, Done(x)
  PROVE  call'[x].pc \in Free
<1>1. call'[x] = Idle
  BY DEF Done, TInv, TypeOK
<1> QED BY <1>1 DEF Idle, Free

(* One repository changes, and with it no row. *)
LEMMA TidiedElsewhere ==
  ASSUME NEW x \in Callers, Sole(x), OnlyCall(x), NEW h \in Handles, UNCHANGED row,
         candidates \subseteq candidates', call[x].pc \notin {"reread", "record"},
         \A g \in Handles : g # h => disk'[g] = disk[g],
         row[h] # NoRow /\ ~row[h].dirty /\ ~Unrecorded(h)' /\ Tidy(h) => Tidy(h)'
  PROVE  Tidied'
<1> SUFFICES ASSUME NEW g \in Handles, row'[g] # NoRow, ~row'[g].dirty, ~Unrecorded(g)'
             PROVE  Tidy(g)'
  BY DEF Tidied, NoRow
<1>1. row[g] # NoRow /\ ~row[g].dirty /\ ~Unrecorded(g)
  BY UnrecordedIs
<1>2. Tidy(g)
  BY <1>1 DEF Sole, Tidied
<1>3. CASE g = h
  BY <1>1, <1>2, <1>3
<1>4. CASE g # h
  BY <1>2, <1>4 DEF Tidy
<1> QED BY <1>3, <1>4

(* One row changes, and with it no repository. *)
LEMMA TidiedRewritten ==
  ASSUME NEW x \in Callers, Sole(x), OnlyCall(x), NEW h \in Handles, UNCHANGED disk,
         candidates \subseteq candidates',
         call[x].pc \in {"reread", "record"} => call[x].handle = h,
         \A g \in Handles : g # h => row'[g] = row[g],
         row'[h] # NoRow /\ ~row'[h].dirty /\ ~Unrecorded(h)' => Tidy(h)'
  PROVE  Tidied'
<1> SUFFICES ASSUME NEW g \in Handles, row'[g] # NoRow, ~row'[g].dirty, ~Unrecorded(g)'
             PROVE  Tidy(g)'
  BY DEF Tidied, NoRow
<1>1. CASE g = h
  BY <1>1
<1>2. CASE g # h
  <2>1. row[g] # NoRow /\ ~row[g].dirty /\ ~Unrecorded(g) /\ row'[g] = row[g]
    BY <1>2, UnrecordedIs
  <2>2. Tidy(g)
    BY <2>1 DEF Sole, Tidied
  <2> QED BY <2>1, <2>2 DEF Tidy
<1> QED BY <1>1, <1>2

LEMMA CleanEnsuring ==
  ASSUME TInv, NEW x \in Callers, Sole(x), OnlyCall(x),
         \/ EnsureFind(x) \/ (\E h \in Handles : create(x, h))
         \/ EnsureProvide(x) \/ EnsureSeed(x)
  PROVE  KInv'
<1>1. /\ call[x] \in CallStates /\ call \in [Callers -> CallStates] /\ Situated(x)
      /\ disk \in [Handles -> Repositories] /\ row \in [Handles -> Rows \cup {NoRow}]
  BY DEF TInv, TypeOK, Located
<1>2. call[x].pc \in Ensuring /\ frozen' = {} /\ candidates' = candidates
  BY DEF EnsureFind, create, EnsureProvide, EnsureSeed, At, Ensuring, Sole, stores
<1>3. /\ call[x].pc \notin {"reread", "record"} \cup {"tool", "drift", "dropping"}
      /\ AfterEnsure(call[x].kind) \in Free
  BY <1>1, <1>2 DEF Situated, Ensuring, AfterEnsure, Free
<1>4. CASE EnsureFind(x)
  <2>1. call'[x].pc \in {"creating", "providing"}
    <3>1. CASE Goto(x, "creating")
      BY <3>1, GotoSame
    <3>2. CASE ~Goto(x, "creating")
      <4>1. PICK h, f : call' = [call EXCEPT ![x].pc = "providing", ![x].handle = h, ![x].floor = f]
        BY <1>4, <3>2 DEF EnsureFind
      <4>2. call'[x] = [call[x] EXCEPT !.pc = "providing", !.handle = h, !.floor = f]
        BY <1>1, <4>1
      <4> QED BY <1>1, <4>2 DEF CallStates
    <3> QED BY <3>1, <3>2
  <2>2. UNCHANGED <<row, disk>>
    BY <1>4 DEF EnsureFind, stores
  <2> QED BY <1>2, <1>3, <2>1, <2>2, QuietFree DEF Free
<1>5. CASE \E h \in Handles : create(x, h)
  <2>1. PICK h \in Handles : create(x, h)
    BY <1>5
  <2>2. call'[x] = [call[x] EXCEPT !.pc = "providing", !.handle = h]
    BY <1>1, <2>1 DEF create
  <2>3. call'[x].pc \in Free
    BY <1>1, <2>2 DEF CallStates, Free
  <2>4. /\ row' = [row EXCEPT ![h] = [NoRow EXCEPT !.revision = 0, !.dirty = TRUE]]
        /\ disk' = disk
    BY <2>1 DEF create
  <2>5. row'[h].dirty /\ \A g \in Handles : g # h => row'[g] = row[g]
    BY <1>1, <2>4 DEF NoRow
  <2>6. Tidied'
    BY <1>2, <1>3, <2>4, <2>5, TidiedRewritten
  <2> QED BY <1>2, <2>3, <2>6, AloneFree, KNext
<1>6. CASE EnsureProvide(x)
  <2>1. UNCHANGED <<row, disk>>
    BY <1>6 DEF EnsureProvide, stores
  <2>2. CASE disk[call[x].handle].git
    <3>1. call'[x].pc \in Free
      BY <1>3, <1>6, <2>2, GotoSame DEF EnsureProvide
    <3> QED BY <1>2, <1>3, <2>1, <3>1, QuietFree
  <2>3. CASE ~disk[call[x].handle].git
    <3>1. call'[x].pc = "seeding" /\ call'[x].handle = call[x].handle
      BY <1>6, <2>3, GotoSame DEF EnsureProvide, Same
    <3>2. Alone(x)'
      BY <2>1, <2>3, <3>1 DEF Alone
    <3> QED BY <1>2, <1>3, <2>1, <3>2, Quiet
  <2> QED BY <2>2, <2>3
<1>7. CASE EnsureSeed(x)
  <2> DEFINE h == call[x].handle
  <2>1. call'[x].pc \in Free
    BY <1>3, <1>7, GotoSame DEF EnsureSeed
  <2>2. h \in Handles /\ ~disk[h].git
    BY <1>1, <1>7 DEF EnsureSeed, At, Situated, Unplaced, Sole, Alone
  <2>3. disk' = [disk EXCEPT ![h].git = TRUE, ![h].base = @ + 1, ![h].head = disk[h].index]
        /\ row' = row
    BY <1>7 DEF EnsureSeed, stores
  <2>4. \A g \in Handles : g # h => disk'[g] = disk[g]
    BY <1>1, <2>3
  <2>5. ~Tidy(h)
    BY <2>2 DEF Tidy
  <2>6. Tidied'
    <3> HIDE DEF h
    <3> QED BY <1>2, <1>3, <2>2, <2>3, <2>4, <2>5, TidiedElsewhere
  <2> QED BY <1>2, <2>1, <2>6, AloneFree, KNext
<1> QED BY <1>4, <1>5, <1>6, <1>7

LEMMA CleanPatch ==
  ASSUME TInv, NEW x \in Callers, Sole(x), OnlyCall(x), history' = {},
         \/ ApplyCompare(x) \/ ApplyStatus(x) \/ Apply(x) \/ ApplyReread(x)
         \/ ApplyRecord(x) \/ ApplyAnswer(x)
  PROVE  KInv'
<1>1. /\ call[x] \in CallStates /\ call \in [Callers -> CallStates] /\ Situated(x)
      /\ disk \in [Handles -> Repositories] /\ row \in [Handles -> Rows \cup {NoRow}]
      /\ Alone(x)
  BY DEF TInv, TypeOK, Located, Sole
<1>2. call[x].pc \in {"check_revision", "status", "apply", "reread", "record", "patched"}
      /\ candidates' = candidates /\ frozen' = frozen
  BY DEF ApplyCompare, ApplyStatus, Apply, ApplyReread, ApplyRecord, ApplyAnswer, At, stores
<1>3. frozen' = {} /\ call[x].handle \in Handles
  BY <1>1, <1>2 DEF Sole, Situated, Unplaced
<1> DEFINE h == call[x].handle
<1>4. CASE ApplyCompare(x)
  <2>1. UNCHANGED <<row, disk>> /\ call[x].pc = "check_revision"
    BY <1>4 DEF ApplyCompare, stores, At
  <2>2. CASE Done(x)
    BY <1>2, <2>1, <2>2, DoneFree, QuietFree
  <2>3. CASE ~Done(x)
    <3>1. Goto(x, "status") /\ row[h].revision = call[x].expected
      BY <1>4, <2>3 DEF ApplyCompare
    <3>2. call'[x].expected = call[x].expected /\ call'[x].handle = h /\ call'[x].pc = "status"
      BY <3>1, GotoIs DEF Steps
    <3>3. Alone(x)'
      BY <2>1, <3>1, <3>2 DEF Alone
    <3> QED BY <1>2, <2>1, <3>3, Quiet
  <2> QED BY <2>2, <2>3
<1>5. CASE ApplyStatus(x)
  <2>1. UNCHANGED <<row, disk>> /\ call[x].pc = "status"
    BY <1>5 DEF ApplyStatus, stores, At
  <2>2. CASE Done(x)
    BY <1>2, <2>1, <2>2, DoneFree, QuietFree
  <2>3. CASE ~Done(x)
    <3>1. Goto(x, "apply") /\ row[h].revision = call[x].expected
      BY <1>1, <1>5, <2>1, <2>3 DEF ApplyStatus, Alone
    <3>2. call'[x].expected = call[x].expected /\ call'[x].handle = h /\ call'[x].pc = "apply"
      BY <3>1, GotoIs DEF Steps
    <3>3. Alone(x)'
      BY <2>1, <3>1, <3>2 DEF Alone
    <3> QED BY <1>2, <2>1, <3>3, Quiet
  <2> QED BY <2>2, <2>3
<1>6. CASE Apply(x)
  <2>1. row' = row /\ call[x].pc = "apply" /\ row[h].revision = call[x].expected
    BY <1>1, <1>6 DEF Apply, stores, At, Alone
  <2>2. CASE Done(x) /\ UNCHANGED disk
    BY <1>2, <2>1, <2>2, DoneFree, QuietFree
  <2>3. CASE ~(Done(x) /\ UNCHANGED disk)
    <3>1. disk' = [disk EXCEPT ![h].work = @ \cup {call[x].patch}] /\ Goto(x, "reread")
      BY <1>6, <2>3 DEF Apply
    <3>2. call'[x].expected = call[x].expected /\ call'[x].handle = h /\ call'[x].pc = "reread"
      BY <3>1, GotoIs DEF Steps
    <3>3. Alone(x)'
      BY <2>1, <3>2 DEF Alone
    <3>4. PICK here \in Handles : here = h
      BY <1>3
    <3>5. \A g \in Handles : g # here => disk'[g] = disk[g]
      BY <1>1, <3>1, <3>4
    <3>6. Unrecorded(here)'
      BY <3>2, <3>4 DEF Unrecorded
    <3>7. Tidied'
      BY <1>2, <2>1, <3>5, <3>6, TidiedElsewhere
    <3> QED BY <1>3, <3>3, <3>7, KNext
  <2> QED BY <2>2, <2>3
<1>7. CASE ApplyReread(x)
  <2>1. /\ UNCHANGED <<row, disk>> /\ call[x].pc = "reread"
        /\ row[h].revision = call[x].expected
    BY <1>1, <1>7 DEF ApplyReread, stores, At, Alone
  <2>2. PICK s : s = row[h]
    OBVIOUS
  <2>3. call'[x] = [call[x] EXCEPT !.pc = "record", !.seen = s]
    BY <1>1, <1>7, <2>1, <2>2 DEF ApplyReread
  <2>4. call'[x].expected = call[x].expected /\ call'[x].handle = h /\ call'[x].pc = "record"
    BY <1>1, <2>3 DEF CallStates
  <2>5. Alone(x)'
    BY <2>1, <2>4 DEF Alone
  <2>6. Tidied'
    BY <1>2, <2>1, <2>4, TidiedStays
  <2> QED BY <1>3, <2>5, <2>6, KNext
<1>8. CASE ApplyRecord(x)
  <2>1. disk' = disk /\ call[x].pc = "record" /\ row[h].revision = call[x].expected
    BY <1>1, <1>8 DEF ApplyRecord, At, Alone
  <2>2. PICK s \in Rows : s = call[x].seen
    BY <1>1, <2>1 DEF Situated
  <2>3. PICK n : n = s.revision + 1
    OBVIOUS
  <2>4. row' = [row EXCEPT ![h] = [s EXCEPT !.dirty = TRUE, !.revision = n]]
        /\ Goto(x, "patched")
    BY <1>8, <2>1, <2>2, <2>3 DEF ApplyRecord, Rewrites, put_workspace_state
  <2>5. row'[h].dirty /\ \A g \in Handles : g # h => row'[g] = row[g]
    <3>1. PICK t : t = [s EXCEPT !.dirty = TRUE, !.revision = n]
      OBVIOUS
    <3>2. t.dirty
      BY <3>1 DEF Rows
    <3> QED BY <1>1, <1>3, <2>4, <3>1, <3>2
  <2>6. Tidied'
    BY <1>2, <1>3, <2>1, <2>5, TidiedRewritten
  <2>7. call'[x].pc \in Free
    BY <2>4, GotoSame DEF Free
  <2> QED BY <1>3, <2>6, <2>7, AloneFree, KNext
<1>9. CASE ApplyAnswer(x)
  <2>1. UNCHANGED <<row, disk>> /\ call[x].pc = "patched" /\ Done(x)
    BY <1>9 DEF ApplyAnswer, stores, At
  <2> QED BY <1>2, <2>1, DoneFree, QuietFree
<1> QED BY <1>4, <1>5, <1>6, <1>7, <1>8, <1>9

LEMMA CleanCapture ==
  ASSUME TInv, NEW x \in Callers, Sole(x), OnlyCall(x),
         \/ CaptureBase(x) \/ CaptureAdd(x) \/ CaptureTree(x) \/ CaptureVersion(x)
         \/ CaptureFind(x) \/ CapturePut(x) \/ CaptureCommit(x)
         \/ (\E accepted, activated \in BOOLEAN : CaptureCommand(x, accepted, activated))
         \/ ActivateSet(x)
  PROVE  KInv'
<1>1. /\ call[x] \in CallStates /\ call \in [Callers -> CallStates] /\ Situated(x)
      /\ disk \in [Handles -> Repositories] /\ Alone(x)
  BY DEF TInv, TypeOK, Located, Sole
<1>2. /\ call[x].pc \in {"base_commit", "add", "write_tree", "version", "find", "put",
                         "revision", "runtime", "set_active"}
      /\ row' = row /\ frozen' = frozen /\ candidates \subseteq candidates'
  BY DEF CaptureBase, CaptureAdd, CaptureTree, CaptureVersion, CaptureFind,
     CapturePut, CaptureCommit, CaptureCommand, ActivateSet, At, stores
<1>3. frozen = {} /\ frozen' = {} /\ call[x].handle \in Handles
  BY <1>1, <1>2 DEF Sole, Situated, Unplaced
<1>4. call[x].pc \notin {"reread", "record"} \cup {"tool", "drift", "dropping"}
  BY <1>2
<1>5. PICK h \in Handles : h = call[x].handle
  BY <1>3
<1>6. PICK d \in Repositories : d = disk[h]
  BY <1>1
<1>7. ASSUME UNCHANGED disk, Done(x)
      PROVE  KInv'
  BY <1>2, <1>4, <1>7, DoneFree, QuietFree
<1>8. PICK old \in Candidates : old = call[x].candidate
  BY <1>1 DEF CallStates
<1>9. CASE CaptureBase(x) /\ ~Done(x)
  <2>1. call' = [call EXCEPT ![x].pc = "add", ![x].candidate.base = d.base] /\ disk' = disk
    BY <1>5, <1>6, <1>9 DEF CaptureBase
  <2>2. PICK c : c = [old EXCEPT !.base = d.base]
    OBVIOUS
  <2>3. call'[x] = [call[x] EXCEPT !.pc = "add", !.candidate = c]
    BY <1>1, <1>8, <2>1, <2>2 DEF CallStates
  <2>4. call'[x].pc \in Free
    BY <1>1, <2>3 DEF CallStates, Free
  <2> QED BY <1>2, <1>4, <2>1, <2>4, QuietFree
<1>10. CASE CaptureAdd(x) /\ ~(Done(x) /\ UNCHANGED disk)
  <2>1. /\ disk' = [disk EXCEPT ![h].index = Visible(h)] /\ Goto(x, "write_tree") /\ d.git
        /\ call[x].pc = "add"
    BY <1>5, <1>6, <1>10 DEF CaptureAdd, current_tree, At
  <2>2. Visible(h) = d.work
    BY <1>3, <1>6 DEF Visible, WorktreesIn
  <2>3. disk'[h] = [d EXCEPT !.index = d.work] /\ \A g \in Handles : g # h => disk'[g] = disk[g]
    BY <1>1, <1>6, <2>1, <2>2
  <2>4. disk'[h].work = d.work /\ disk'[h].index = d.work /\ disk'[h].git = d.git
        /\ disk'[h].head = d.head
    BY <2>3 DEF Repositories
  <2>5. call'[x].handle = h /\ call'[x].pc = "write_tree"
    BY <1>5, <2>1, GotoSame DEF Same
  <2>6. Alone(x)'
    BY <2>1, <2>4, <2>5 DEF Alone, Added
  <2>7. Tidy(h) => Tidy(h)'
    BY <1>2, <1>6, <2>1, <2>4 DEF Tidy
  <2>8. Tidied'
    BY <1>2, <1>4, <2>3, <2>7, TidiedElsewhere
  <2> QED BY <1>3, <2>6, <2>8, KNext
<1>11. CASE CaptureTree(x) /\ ~Done(x)
  <2>1. call' = [call EXCEPT ![x].pc = "version", ![x].candidate.tree = d.index] /\ disk' = disk
    BY <1>5, <1>6, <1>11 DEF CaptureTree
  <2>2. PICK c : c = [old EXCEPT !.tree = d.index]
    OBVIOUS
  <2>3. c.tree = d.index
    BY <2>2 DEF Candidates
  <2>4. call'[x] = [call[x] EXCEPT !.pc = "version", !.candidate = c]
    BY <1>1, <1>8, <2>1, <2>2 DEF CallStates
  <2>5. call'[x].pc = "version" /\ call'[x].handle = h /\ call'[x].candidate = c
    BY <1>1, <1>5, <2>4 DEF CallStates
  <2>6. Added(x)
    BY <1>1, <1>11 DEF CaptureTree, At, Alone
  <2>7. Alone(x)'
    BY <1>5, <1>6, <2>1, <2>3, <2>5, <2>6 DEF Alone, Added
  <2> QED BY <1>2, <1>4, <2>1, <2>7, Quiet
<1>12. CASE CaptureVersion(x)
  <2>1. PICK v : v = read_changelog_first_entry(call[x].handle)
    OBVIOUS
  <2>2. PICK c : c = [old EXCEPT !.version = v]
    OBVIOUS
  <2>3. c.tree = old.tree
    BY <2>2 DEF Candidates
  <2>4. call'[x] = [call[x] EXCEPT !.pc = "find", !.candidate = c] /\ disk' = disk
    BY <1>1, <1>8, <1>12, <2>1, <2>2 DEF CaptureVersion, CallStates
  <2>5. call'[x].pc = "find" /\ call'[x].handle = h /\ call'[x].candidate = c
    BY <1>1, <1>5, <2>4 DEF CallStates
  <2>6. Added(x) /\ old.tree = d.index
    BY <1>1, <1>5, <1>6, <1>8, <1>12 DEF CaptureVersion, At, Alone
  <2>7. Alone(x)'
    BY <1>5, <1>6, <2>3, <2>4, <2>5, <2>6 DEF Alone, Added
  <2> QED BY <1>2, <1>4, <2>4, <2>7, Quiet
<1>13. ASSUME call[x].pc \in {"find", "put"}, disk' = disk
       PROVE  /\ Goto(x, "put") => KInv'
              /\ Goto(x, "revision") /\ old \in candidates' => KInv'
  <2>1. Added(x) /\ old.tree = d.index
    BY <1>1, <1>5, <1>6, <1>8, <1>13 DEF Alone
  <2>2. ASSUME NEW pc \in {"put", "revision"}, Goto(x, pc),
               pc = "revision" => old \in candidates'
        PROVE  KInv'
    <3>1. call'[x].pc = pc /\ call'[x].handle = h /\ call'[x].candidate = old
      BY <1>5, <1>8, <2>2, GotoSame DEF Same
    <3>2. Alone(x)'
      BY <1>5, <1>6, <1>13, <2>1, <2>2, <3>1 DEF Alone, Added
    <3> QED BY <1>2, <1>4, <1>13, <3>2, Quiet
  <2> QED BY <2>2
<1>14. CASE CaptureFind(x)
  BY <1>8, <1>13, <1>14 DEF CaptureFind, At, stores
<1>15. CASE CapturePut(x) /\ ~Done(x)
  BY <1>8, <1>13, <1>15 DEF CapturePut, At
<1>16. CASE CaptureCommit(x) /\ ~(Done(x) /\ UNCHANGED disk)
  <2>1. /\ disk' = [disk EXCEPT ![h].head = d.index] /\ Goto(x, "runtime")
        /\ call[x].pc = "revision" /\ candidates' = candidates
    BY <1>5, <1>6, <1>16 DEF CaptureCommit, At, stores
  <2>2. disk'[h] = [d EXCEPT !.head = d.index] /\ \A g \in Handles : g # h => disk'[g] = disk[g]
    BY <1>1, <1>6, <2>1
  <2>3. disk'[h].work = d.work /\ disk'[h].index = d.index /\ disk'[h].git = d.git
        /\ disk'[h].head = d.index
    BY <2>2 DEF Repositories
  <2>4. call'[x].handle = h /\ call'[x].pc = "runtime" /\ call'[x].candidate = old
    BY <1>5, <1>8, <2>1, GotoSame DEF Same
  <2>5. Added(x) /\ old.tree = d.index /\ old \in candidates
    BY <1>1, <1>5, <1>6, <1>8, <2>1 DEF Alone
  <2>6. Alone(x)'
    BY <1>5, <1>6, <2>1, <2>3, <2>4, <2>5 DEF Alone, Added
  <2>7. Tidy(h) => Tidy(h)'
    BY <1>2, <1>6, <2>3 DEF Tidy
  <2>8. Tidied'
    BY <1>2, <1>4, <2>2, <2>7, TidiedElsewhere
  <2> QED BY <1>3, <2>6, <2>8, KNext
<1>17. CASE \E accepted, activated \in BOOLEAN : CaptureCommand(x, accepted, activated)
  <2>1. /\ call[x].pc = "runtime" /\ UNCHANGED <<disk, candidates>>
        /\ Goto(x, "promote") \/ Done(x)
    BY <1>17 DEF CaptureCommand, At
  <2>2. CASE Goto(x, "promote")
    <3>1. call'[x].handle = h /\ call'[x].pc = "promote" /\ call'[x].candidate = old
      BY <1>5, <1>8, <2>2, GotoSame DEF Same
    <3>2. Added(x) /\ old.tree = d.index /\ old \in candidates /\ d.head = d.index
      BY <1>1, <1>5, <1>6, <1>8, <2>1 DEF Alone
    <3>3. Alone(x)'
      BY <1>5, <1>6, <2>1, <3>1, <3>2 DEF Alone, Added
    <3> QED BY <1>2, <1>4, <2>1, <3>3, Quiet
  <2> QED BY <1>7, <2>1, <2>2
<1>18. CASE ActivateSet(x)
  BY <1>7, <1>18 DEF ActivateSet
<1> QED BY <1>7, <1>9, <1>10, <1>11, <1>12, <1>14, <1>15, <1>16, <1>17, <1>18
        DEF CaptureBase, CaptureTree, CapturePut

LEMMA CleanActivate ==
  ASSUME TInv, NEW x \in Callers, Sole(x), OnlyCall(x),
         \/ ActivateRead(x) \/ ActivateMark(x) \/ BumpCompare(x) \/ BumpRead(x)
         \/ Bump(x)
  PROVE  KInv'
<1>1. /\ call[x] \in CallStates /\ call \in [Callers -> CallStates] /\ Situated(x)
      /\ row \in [Handles -> Rows \cup {NoRow}] /\ Alone(x)
  BY DEF TInv, TypeOK, Located, Sole
<1>2. /\ call[x].pc \in {"promote", "mark", "bump_compare", "bump_read", "bump"}
      /\ disk' = disk /\ frozen' = frozen /\ candidates' = candidates
  BY DEF ActivateRead, ActivateMark, BumpCompare, BumpRead, Bump, At, stores
<1>3. frozen' = {} /\ call[x].handle \in Handles
  BY <1>1, <1>2 DEF Sole, Situated, Unplaced
<1>4. PICK h \in Handles : h = call[x].handle
  BY <1>3
<1>5. PICK d : d = disk[h]
  OBVIOUS
<1>6. PICK old \in Candidates : old = call[x].candidate
  BY <1>1 DEF CallStates
<1>7. ASSUME row' = row, call'[x].pc \in Free
      PROVE  KInv'
  BY <1>2, <1>7, QuietFree
<1>8. CASE ActivateRead(x)
  <2>1. PICK s : s = row[h]
    OBVIOUS
  <2>2. call'[x] = [call[x] EXCEPT !.pc = "mark", !.seen = s] /\ row' = row
        /\ call[x].pc = "promote"
    BY <1>1, <1>4, <1>8, <2>1 DEF ActivateRead, stores, At
  <2>3. call'[x].pc = "mark" /\ call'[x].handle = h /\ call'[x].candidate = old
    BY <1>1, <1>4, <1>6, <2>2 DEF CallStates
  <2>4. Added(x) /\ old.tree = d.index /\ old \in candidates /\ d.head = d.index
    BY <1>1, <1>4, <1>5, <1>6, <2>2 DEF Alone
  <2>5. Alone(x)'
    BY <1>2, <1>4, <1>5, <2>3, <2>4 DEF Alone, Added
  <2> QED BY <1>2, <2>2, <2>5, Quiet
<1>9. CASE ActivateMark(x)
  <2>1. CASE Done(x) /\ UNCHANGED row
    BY <1>7, <2>1, DoneFree
  <2>2. CASE ~(Done(x) /\ UNCHANGED row)
    <3>1. PICK s \in Rows : s = call[x].seen
      BY <1>1, <1>9 DEF ActivateMark, At, Situated
    <3>2. /\ row' = [row EXCEPT ![h] = [s EXCEPT !.base = old, !.dirty = FALSE]]
          /\ Goto(x, "bump_compare") /\ call[x].pc = "mark"
      BY <1>4, <1>6, <1>9, <2>2, <3>1 DEF ActivateMark, Rewrites, put_workspace_state, At
    <3>3. PICK t : t = [s EXCEPT !.base = old, !.dirty = FALSE]
      OBVIOUS
    <3>4. t.base = old
      BY <3>3 DEF Rows
    <3>5. row'[h] = t /\ \A g \in Handles : g # h => row'[g] = row[g]
      BY <1>1, <3>2, <3>3
    <3>6. Added(x) /\ old.tree = d.index /\ old \in candidates /\ d.head = d.index
      BY <1>1, <1>4, <1>5, <1>6, <3>2 DEF Alone
    <3>7. d.git /\ d.index = d.work
      BY <1>4, <1>5, <3>6 DEF Added
    <3>8. Tidy(h)'
      BY <1>2, <1>5, <3>4, <3>5, <3>6, <3>7 DEF Tidy
    <3>9. Tidied'
      BY <1>2, <3>5, <3>8, TidiedRewritten
    <3>10. call'[x].pc \in Free
      BY <3>2, GotoSame DEF Free
    <3> QED BY <1>3, <3>9, <3>10, AloneFree, KNext
  <2> QED BY <2>1, <2>2
<1>10. CASE BumpCompare(x)
  <2>1. row' = row /\ (Goto(x, "bump_read") \/ Done(x))
    BY <1>10 DEF BumpCompare, stores
  <2>2. call'[x].pc \in Free
    BY <2>1, GotoSame, DoneFree DEF Free
  <2> QED BY <1>7, <2>1, <2>2
<1>11. CASE BumpRead(x)
  <2>1. PICK s : s = row[h]
    OBVIOUS
  <2>2. PICK e : e = call[x].seen.revision + 1
    OBVIOUS
  <2>3. call'[x] = [call[x] EXCEPT !.pc = "bump", !.expected = e, !.seen = s] /\ row' = row
    BY <1>1, <1>4, <1>11, <2>1, <2>2 DEF BumpRead, stores
  <2>4. call'[x].pc = "bump" /\ call'[x].handle = h /\ call'[x].seen = s
    BY <1>1, <1>4, <2>3 DEF CallStates
  <2>5. Alone(x)'
    BY <2>1, <2>3, <2>4 DEF Alone
  <2> QED BY <1>2, <2>3, <2>5, Quiet
<1>12. CASE Bump(x)
  <2>1. CASE Done(x) /\ UNCHANGED row
    BY <1>7, <2>1, DoneFree
  <2>2. CASE ~(Done(x) /\ UNCHANGED row)
    <3>1. PICK s \in Rows : s = call[x].seen /\ s = row[h]
      BY <1>1, <1>4, <1>12 DEF Bump, At, Situated, Alone
    <3>2. PICK n : n = call[x].expected
      OBVIOUS
    <3>3. row' = [row EXCEPT ![h] = [s EXCEPT !.revision = n]] /\ Goto(x, "set_active")
      BY <1>4, <1>12, <2>2, <3>1, <3>2 DEF Bump, Rewrites, put_workspace_state
    <3>4. PICK t : t = [s EXCEPT !.revision = n]
      OBVIOUS
    <3>5. t.base = s.base /\ t.dirty = s.dirty
      BY <3>4 DEF Rows
    <3>6. row'[h] = t /\ \A g \in Handles : g # h => row'[g] = row[g]
      BY <1>1, <3>3, <3>4
    <3>7. row[h] # NoRow /\ ~Unrecorded(h)
      BY <1>2, <3>1, NoRowApart, UnrecordedIs
    <3>8. ~t.dirty => Tidy(h)
      BY <3>1, <3>5, <3>7 DEF Sole, Tidied
    <3>9. ~row'[h].dirty => Tidy(h)'
      BY <1>2, <3>1, <3>5, <3>6, <3>8 DEF Tidy
    <3>10. Tidied'
      BY <1>2, <3>6, <3>9, TidiedRewritten
    <3>11. call'[x].pc \in Free
      BY <3>3, GotoSame DEF Free
    <3> QED BY <1>3, <3>10, <3>11, AloneFree, KNext
  <2> QED BY <2>1, <2>2
<1> QED BY <1>8, <1>9, <1>10, <1>11, <1>12

LEMMA CleanChecks ==
  ASSUME TInv, NEW x \in Callers, Sole(x), OnlyCall(x),
         FreezeAdd(x) \/ Ran(x) \/ CheckDrift(x) \/ CheckDrop(x)
  PROVE  KInv'
<1>1. call[x] \in CallStates /\ call \in [Callers -> CallStates]
  BY DEF TInv, TypeOK
<1>2. /\ call[x].pc \in {"worktree", "tool", "drift", "dropping"}
      /\ UNCHANGED <<row, disk, candidates>>
  BY DEF FreezeAdd, Ran, Tool, CheckDrift, CheckDrop, At, stores
<1>3. Tidied'
  BY <1>2, TidiedStays
<1> SUFFICES ASSUME TRUE
             PROVE  /\ call'[x].pc \in Free
                    /\ \A f \in frozen' : /\ call'[x].pc \in {"tool", "drift", "dropping"}
                                          /\ SameCheck(f, x)'
  BY <1>3, AloneFree, KNext
<1>4. ASSUME call'[x].pc \in {"tool", "drift", "dropping"},
             call'[x].handle = call[x].handle, call'[x].candidate = call[x].candidate,
             \A f \in frozen' : f.handle = call[x].handle /\ f.check = call[x].candidate
      PROVE  /\ call'[x].pc \in Free
             /\ \A f \in frozen' : /\ call'[x].pc \in {"tool", "drift", "dropping"}
                                   /\ SameCheck(f, x)'
  BY <1>4 DEF Free, SameCheck
<1>5. \A f \in frozen : f.handle = call[x].handle /\ f.check = call[x].candidate
  BY DEF Sole, SameCheck
<1>6. CASE FreezeAdd(x)
  <2>1. frozen = {}
    BY <1>6 DEF FreezeAdd, At, Sole
  <2>2. CASE Done(x) /\ UNCHANGED frozen
    BY <2>1, <2>2, DoneFree
  <2>3. CASE ~(Done(x) /\ UNCHANGED frozen)
    <3>1. /\ frozen' = frozen \cup
               {[handle |-> call[x].handle, check |-> call[x].candidate, owner |-> call[x].id,
                 users |-> {}, head |-> call[x].candidate.tree,
                 work |-> call[x].candidate.tree]}
          /\ Goto(x, "tool")
      BY <1>6, <2>3 DEF FreezeAdd
    <3>2. \A f \in frozen' : f.handle = call[x].handle /\ f.check = call[x].candidate
      BY <2>1, <3>1
    <3> QED BY <1>4, <3>1, <3>2, GotoSame DEF Same
  <2> QED BY <2>2, <2>3
<1>7. CASE Ran(x)
  <2>1. PICK act \in {"reads", "writes", "commits"} : Tool(x, act)
    BY <1>7 DEF Ran
  <2> DEFINE Changed(f) ==
        CASE act = "reads" -> f
          [] act = "writes" -> [f EXCEPT !.work = @ \cup {"commit of a tool"}]
          [] act = "commits" -> [f EXCEPT !.work = @ \cup {"commit of a tool"},
                                          !.head = @ \cup {"commit of a tool"}]
      Used(f) == [Changed(f) EXCEPT !.users = @ \cup {call[x].id}]
      there == {f \in frozen : SameCheck(f, x)}
  <2>2. frozen' = (frozen \ there) \cup {Used(f) : f \in there}
    BY <2>1 DEF Tool
  <2>3. \A f \in Worktrees : Used(f).handle = f.handle /\ Used(f).check = f.check
    <3> SUFFICES ASSUME NEW f \in Worktrees
                 PROVE  Used(f).handle = f.handle /\ Used(f).check = f.check
      OBVIOUS
    <3>1. PICK g : g = Changed(f)
      OBVIOUS
    <3>2. /\ g.handle = f.handle /\ g.check = f.check
          /\ g \in [handle : Handles, check : Candidates, owner : 1..MaxCalls,
                    users : SUBSET (1..MaxCalls), head : SUBSET Contents,
                    work : SUBSET Contents]
      <4>0. /\ f.work \in SUBSET Contents /\ f.head \in SUBSET Contents
            /\ {"commit of a tool"} \in SUBSET Contents
        <5>1. "commit of a tool" \in Contents
          BY DEF Contents
        <5> QED BY <5>1 DEF Worktrees
      <4>1. PICK u \in SUBSET Contents : u = f.work \cup {"commit of a tool"}
        BY <4>0
      <4>2. PICK v \in SUBSET Contents : v = f.head \cup {"commit of a tool"}
        BY <4>0
      <4>3. CASE act = "reads"
        BY <3>1, <4>3 DEF Worktrees
      <4>4. CASE act = "writes"
        <5>1. g = [f EXCEPT !.work = u]
          BY <3>1, <4>1, <4>4
        <5> QED BY <4>1, <5>1 DEF Worktrees
      <4>5. CASE act = "commits"
        <5>1. g = [f EXCEPT !.work = u, !.head = v]
          BY <3>1, <4>1, <4>2, <4>5
        <5> QED BY <4>1, <4>2, <5>1 DEF Worktrees
      <4> QED BY <4>3, <4>4, <4>5
    <3>3. PICK w : w = g.users \cup {call[x].id}
      OBVIOUS
    <3>4. Used(f) = [g EXCEPT !.users = w]
      BY <3>1, <3>3
    <3>5. [g EXCEPT !.users = w].handle = g.handle /\ [g EXCEPT !.users = w].check = g.check
      BY <3>2
    <3> QED BY <3>2, <3>4, <3>5
  <2>4. frozen \subseteq Worktrees
    BY DEF TInv, TypeOK
  <2>5. \A f \in frozen' : f.handle = call[x].handle /\ f.check = call[x].candidate
    <3> HIDE DEF Used, Changed
    <3> QED BY <1>5, <2>2, <2>3, <2>4
  <2>6. PICK r : call' = [call EXCEPT ![x].pc = "drift", ![x].reads = r]
    BY <2>1 DEF Tool
  <2>7. call'[x] = [call[x] EXCEPT !.pc = "drift", !.reads = r]
    BY <1>1, <2>6
  <2>8. /\ call'[x].pc = "drift" /\ call'[x].handle = call[x].handle
        /\ call'[x].candidate = call[x].candidate
    BY <1>1, <2>7 DEF CallStates
  <2> QED BY <1>4, <2>5, <2>8
<1>8. CASE CheckDrift(x)
  <2>1. Goto(x, "dropping") /\ frozen' = frozen
    BY <1>8 DEF CheckDrift
  <2> QED BY <1>4, <1>5, <2>1, GotoSame DEF Same
<1>9. CASE CheckDrop(x)
  <2>1. Done(x) /\ frozen' = {f \in frozen : ~SameCheck(f, x)}
    BY <1>9 DEF CheckDrop
  <2>2. frozen' = {}
    BY <2>1 DEF Sole
  <2> QED BY <2>1, <2>2, DoneFree
<1> QED BY <1>6, <1>7, <1>8, <1>9

LEMMA CleanOther ==
  ASSUME TInv, NEW x \in Callers, Sole(x), OnlyCall(x),
         Stat(x) \/ ImportChecks(x) \/ CheckFind(x) \/ FreezeClear(x)
  PROVE  KInv'
<1>1. call[x] \in CallStates /\ call \in [Callers -> CallStates]
  BY DEF TInv, TypeOK
<1>2. /\ call[x].pc \in {"stat", "clearing_checks", "checking", "freezing"}
      /\ UNCHANGED <<row, disk, candidates>> /\ frozen' \subseteq frozen
  BY DEF Stat, ImportChecks, CheckFind, FreezeClear, At, stores
<1>3. call'[x].pc \in Free
  <2>1. CASE Done(x)
    BY <2>1, DoneFree
  <2>2. CASE Goto(x, "clearing") \/ Goto(x, "worktree")
    BY <2>2, GotoSame DEF Free
  <2>3. CASE CheckFind(x) /\ ~Done(x)
    <3>1. PICK h, c : call' = [call EXCEPT ![x].pc = "freezing", ![x].handle = h,
                                           ![x].candidate = c]
      BY <2>3 DEF CheckFind
    <3>2. call'[x] = [call[x] EXCEPT !.pc = "freezing", !.handle = h, !.candidate = c]
      BY <1>1, <3>1
    <3> QED BY <1>1, <3>2 DEF CallStates, Free
  <2> QED BY <2>1, <2>2, <2>3 DEF Stat, ImportChecks, FreezeClear
<1> QED BY <1>2, <1>3, QuietFree

LEMMA CleanStart ==
  ASSUME TInv, KInv, NEW x \in Callers, NEW kind \in Kinds, NEW patch \in Patches \cup {Remote},
         NEW expected \in Expected, Start(x, kind, patch, expected), history' = {}
  PROVE  KInv'
<1>1. OnlyCall(x) /\ call'[x].pc \in {"checking", "ensuring"}
  BY StartMoves
<1>2. history = {} /\ \A y \in Callers : call[y].pc = "idle"
  BY DEF Start, At
<1>3. frozen' = {} /\ UNCHANGED <<row, disk, candidates>>
  BY <1>2 DEF Start, KInv, OwnWorktree
<1>4. \A y \in Callers : y # x => call'[y].pc = "idle"
  BY <1>1, <1>2 DEF OnlyCall
<1>5. \A y \in Callers : Alone(y)'
  BY <1>1, <1>4, AloneFree DEF Free
<1>6. \A h : ~Unrecorded(h)
  BY <1>2 DEF Unrecorded
<1>7. \A h \in Handles : row[h] # NoRow /\ ~row[h].dirty => Tidy(h)
  BY <1>2, <1>6 DEF KInv
<1>8. \A h \in Handles : row'[h] # NoRow /\ ~row'[h].dirty => Tidy(h)'
  BY <1>3, <1>7 DEF Tidy, NoRow
<1>9. OneAtATime' /\ OwnWorktree'
  BY <1>3, <1>4 DEF OneAtATime, OwnWorktree
<1> QED BY <1>5, <1>8, <1>9 DEF KInv, NoRow

LEMMA CleanStep == TInv /\ AInv /\ KInv /\ [Next]_vars => KInv'
<1> SUFFICES ASSUME TInv, AInv, KInv, [Next]_vars, history' = {} PROVE KInv'
  BY DEF KInv
<1>1. ASSUME NEW x \in Callers, CallStep(x)
      PROVE  KInv'
  <2>1. OnlyCall(x) /\ history = {}
    BY <1>1, CallStepMoves, HistoryGrows DEF Moves
  <2>2. call[x].pc # "idle"
    BY <1>1, Zenon DEF CallStep, At, EnsureFind, create, EnsureProvide, EnsureSeed, Stat,
       ApplyCompare, ApplyStatus, Apply, ApplyReread, ApplyRecord, ApplyAnswer,
       CaptureBase, CaptureAdd, CaptureTree, CaptureVersion, CaptureFind, CapturePut,
       CaptureCommit, CaptureCommand, ActivateRead, ActivateMark, BumpCompare, BumpRead,
       Bump, ActivateSet, ImportChecks, ImportClone, ImportClear, CheckFind, FreezeClear,
       FreezeAdd, Tool, CheckDrift, CheckDrop
  <2>3. Sole(x)
    BY <2>1, <2>2, SoleIs
  <2>4. ~Cleared(x)
    BY DEF Cleared, ImportClear
  <2>5. ~ImportClone(x)
    BY <2>1 DEF AInv, Carries, ImportClone, At
  <2>6. CASE \/ EnsureFind(x) \/ (\E h \in Handles : create(x, h))
             \/ EnsureProvide(x) \/ EnsureSeed(x)
    BY <2>1, <2>3, <2>6, CleanEnsuring
  <2>7. CASE \/ ApplyCompare(x) \/ ApplyStatus(x) \/ Apply(x) \/ ApplyReread(x)
             \/ ApplyRecord(x) \/ ApplyAnswer(x)
    BY <2>1, <2>3, <2>7, CleanPatch
  <2>8. CASE \/ CaptureBase(x) \/ CaptureAdd(x) \/ CaptureTree(x) \/ CaptureVersion(x)
             \/ CaptureFind(x) \/ CapturePut(x) \/ CaptureCommit(x) \/ Commanded(x)
             \/ ActivateSet(x)
    BY <2>1, <2>3, <2>8, CleanCapture DEF Commanded
  <2>9. CASE \/ ActivateRead(x) \/ ActivateMark(x) \/ BumpCompare(x) \/ BumpRead(x)
             \/ Bump(x)
    BY <2>1, <2>3, <2>9, CleanActivate
  <2>10. CASE FreezeAdd(x) \/ Ran(x) \/ CheckDrift(x) \/ CheckDrop(x)
    BY <2>1, <2>3, <2>10, CleanChecks
  <2>11. CASE Stat(x) \/ ImportChecks(x) \/ CheckFind(x) \/ FreezeClear(x)
    BY <2>1, <2>3, <2>11, CleanOther
  <2> QED BY <1>1, <2>4, <2>5, <2>6, <2>7, <2>8, <2>9, <2>10, <2>11
          DEF CallStep, Cleared, Commanded, Ran
<1>2. ASSUME NEW x \in Callers, NEW kind \in Kinds, NEW patch \in Patches \cup {Remote},
             NEW expected \in Expected, Start(x, kind, patch, expected)
      PROVE  KInv'
  BY <1>2, CleanStart
<1>3. ASSUME NEW x \in Callers, Fails(x)
      PROVE  KInv'
  BY <1>3 DEF Fails
<1>4. CASE UNCHANGED vars
  <2>1. ASSUME NEW x \in Callers
        PROVE  Alone(x) => Alone(x)'
    BY <1>4 DEF vars, Alone, Added
  <2>2. OneAtATime => OneAtATime'
    BY <1>4 DEF vars, OneAtATime
  <2>3. OwnWorktree => OwnWorktree'
    BY <1>4 DEF vars, OwnWorktree, SameCheck
  <2>4. history = {} /\ row' = row
    BY <1>4 DEF vars
  <2>5. OneAtATime' /\ OwnWorktree' /\ \A x \in Callers : Alone(x)'
    BY <2>1, <2>2, <2>3, <2>4 DEF KInv
  <2>6. ASSUME NEW h \in Handles, row'[h] # NoRow, ~row'[h].dirty, ~Unrecorded(h)'
        PROVE  Tidy(h)'
    <3>1. row[h] # NoRow /\ ~row[h].dirty /\ ~Unrecorded(h)
      BY <1>4, <2>6 DEF vars, Unrecorded
    <3>2. Tidy(h)
      BY <2>4, <3>1 DEF KInv
    <3> QED BY <1>4, <3>2 DEF vars, Tidy
  <2> QED BY <2>5, <2>6 DEF KInv, NoRow
<1> QED BY <1>1, <1>2, <1>3, <1>4 DEF Next

LEMMA CleanInit == Init => KInv
<1> SUFFICES ASSUME Init PROVE KInv
  OBVIOUS
<1>1. \A x \in Callers : call[x] = Idle /\ call[x].pc = "idle"
  BY DEF Init, Idle
<1>2. OneAtATime /\ OwnWorktree /\ \A x \in Callers : Alone(x)
  BY <1>1 DEF Init, OneAtATime, OwnWorktree, Alone
<1> QED BY <1>2 DEF Init, KInv

(* What every call finds where it stands, and what a call that is alone     *)
(* leaves behind.                                                          *)
THEOREM Tracked == Spec => [](AInv /\ KInv)
<1>1. TInv /\ AInv /\ KInv /\ [Next]_vars => (AInv /\ KInv)'
  BY CapturesStep, CleanStep
<1>2. Init => AInv /\ KInv
  BY CapturesInit, CleanInit
<1>3. IInv => TInv
  BY DEF IInv
<1> QED BY <1>1, <1>2, <1>3, Invariance, PTL DEF Spec

(* What was answered is captured: however many calls overlap and wherever   *)
(* one fails, a patch answered with a revision is in every candidate that   *)
(* is captured from the workspace afterwards, until an import.              *)
THEOREM CapturesSound == Spec => []AppliedPatchIsCaptured
<1>1. AInv => AppliedPatchIsCaptured
  BY DEF AInv, Carries, AppliedPatchIsCaptured
<1> QED BY <1>1, Tracked, PTL

(* Where calls come one at a time and none fails, a row that says clean     *)
(* names the candidate that the tree is, with nothing uncommitted.          *)
THEOREM CleanSound == Spec => []CleanMeansCaptured
<1>1. KInv => CleanMeansCaptured
  <2> SUFFICES ASSUME KInv, NEW h \in Handles, row[h] # NoRow, ~row[h].dirty,
                      history = {}, \A x \in Callers : At(x, "idle")
               PROVE  Clean(h) /\ disk[h].head = row[h].base.tree
                        /\ row[h].base \in candidates
    BY DEF CleanMeansCaptured
  <2>1. frozen = {} /\ ~Unrecorded(h)
    BY DEF KInv, OwnWorktree, Unrecorded, At
  <2>2. Tidy(h)
    BY <2>1 DEF KInv
  <2>3. Visible(h) = disk[h].work
    BY <2>1 DEF Visible, WorktreesIn
  <2> QED BY <2>2, <2>3 DEF Tidy, Clean
<1> QED BY <1>1, Tracked, PTL
=============================================================================
