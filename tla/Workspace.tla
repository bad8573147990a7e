----------------------------- MODULE Workspace -----------------------------
(***************************************************************************)
(* The workspace of one job: the git tree that the agent patches, the row  *)
(* with its revision and its dirty flag, the candidates captured from the  *)
(* tree, and the frozen worktrees in which checks read a captured tree.    *)
(*                                                                         *)
(* Every tool call is a sequence of git commands and store calls, and      *)
(* nothing locks a workspace: a call stands at one of those, and any other *)
(* call may go in between.  The content of a tree is the set of things     *)
(* that made it: the patches applied, the remote cloned, the frozen        *)
(* worktree that `git add -A` took for an embedded repository, and what a  *)
(* tool committed in its worktree.                                         *)
(***************************************************************************)
EXTENDS Integers

CONSTANTS
  Callers,     \* tool calls that may be in flight at once
  Handles,     \* workspace handles, ordered by their creation
  Patches,     \* the patches of the agents
  Bumps,       \* those that change the first entry of debian/changelog
  Files,       \* those that make a file, not a directory, at the top
  Remote,      \* what source.import clones
  Expected,    \* bound: the revisions an agent may expect
  MaxCalls,    \* bound: calls made
  MaxFaults    \* bound: git commands and store calls that fail

ASSUME PatchesAssumption == Bumps \subseteq Patches /\ Files \subseteq Patches
ASSUME BoundsAssumption ==
  Expected \subseteq Nat /\ 0 \in Expected /\ Remote \notin Patches /\
  Handles \subseteq Nat /\ MaxCalls \in Nat /\ MaxFaults \in Nat

VARIABLES
  row,         \* workspace_metadata: by handle, NoRow before it is written
  disk,        \* the repository in the directory of a handle
  frozen,      \* worktrees under .ironmaint-checks
  candidates,  \* source_candidates
  active,      \* active_source_candidates, NoCandidate before
  call,        \* what each call in flight is doing
  calls,       \* how many calls have been made
  faults,      \* how many commands have failed
  answered,    \* the patches answered with a revision
  evidence,    \* what the checks that were answered have read
  history      \* which of "overlap", "failure", "import", "stale bump" there was

vars == <<row, disk, frozen, candidates, active, call, calls, faults, answered,
          evidence, history>>

-----------------------------------------------------------------------------
(* Trees.                                                                  *)

Contents == Patches \cup {Remote, "worktree", "commit of a tool"}

NoCandidate == [base |-> 0, tree |-> {}, version |-> {}]

(* WorkspaceState.  base: base_candidate. *)
NoRow == [revision |-> -1, dirty |-> FALSE, base |-> NoCandidate]

(* base: the last commit that is not a maintenance commit. *)
NoRepository ==
  [git |-> FALSE, work |-> {}, index |-> {}, head |-> {}, base |-> 0]

(* A FrozenWorktree: the call that made it, the tree of its HEAD, and its  *)
(* files.  Its directory is named after the check, here after the tree the *)
(* check is about.                                                         *)
WorktreesIn(h) == {f \in frozen : f.handle = h}

(* What git sees in the directory: a worktree there is one embedded        *)
(* repository more.                                                        *)
Visible(h) ==
  disk[h].work \cup (IF WorktreesIn(h) = {} THEN {} ELSE {"worktree"})

(* GitInvocation::status has nothing to report. *)
Clean(h) ==
  disk[h].git /\ Visible(h) = disk[h].index /\ disk[h].index = disk[h].head

read_changelog_first_entry_AnyFile(h) == disk[h].work

(* The version: which patches have touched the first entry. *)
read_changelog_first_entry(h) == disk[h].work \cap Bumps

(* list_workspaces_for_job. *)
Known == {h \in Handles : row[h] # NoRow}

(* The manager takes the last of them. *)
Latest(h) == h \in Known /\ \A g \in Known : g <= h

Idle ==
  [pc |-> "idle", kind |-> "none", id |-> 0, handle |-> 0, patch |-> Remote,
   expected |-> 0, seen |-> NoRow, candidate |-> NoCandidate, floor |-> {},
   reads |-> "nothing"]

Init ==
  /\ row = [h \in Handles |-> NoRow]
  /\ disk = [h \in Handles |-> NoRepository]
  /\ frozen = {}
  /\ candidates = {}
  /\ active = NoCandidate
  /\ call = [x \in Callers |-> Idle]
  /\ calls = 0
  /\ faults = 0
  /\ answered = {}
  /\ evidence = {}
  /\ history = {}

-----------------------------------------------------------------------------
(* Calls.                                                                  *)

At(x, pc) == call[x].pc = pc

Goto(x, pc) == call' = [call EXCEPT ![x].pc = pc]

(* The call is answered, with an error or not. *)
Done(x) == call' = [call EXCEPT ![x] = Idle]

(* A worktree with the name that the check of this call gives it. *)
SameCheck(f, x) == f.handle = call[x].handle /\ f.check = call[x].candidate

stores == <<row, candidates, active>>
tallies == <<calls, faults, answered, evidence, history>>

(* A tool call arrives.  An agent that patches has asked for the revision, *)
(* now or before.                                                          *)
Start(x, kind, patch, expected) ==
  /\ At(x, "idle") /\ calls < MaxCalls
  /\ IF kind = "patch" THEN patch # Remote ELSE patch = Remote /\ expected = 0
  /\ call' = [call EXCEPT ![x] =
       [Idle EXCEPT !.pc = IF kind = "check" THEN "checking" ELSE "ensuring",
                    !.kind = kind, !.id = calls + 1, !.patch = patch,
                    !.expected = expected]]
  /\ calls' = calls + 1
  /\ history' = IF \E y \in Callers : ~At(y, "idle")
                THEN history \cup {"overlap"} ELSE history
  /\ UNCHANGED <<row, disk, frozen, candidates, active, faults, answered, evidence>>

(* A git command or a store call fails, or git finds its index locked by   *)
(* another; the call ends, and what it has done stays.                     *)
Fails(x) ==
  /\ ~At(x, "idle") /\ faults < MaxFaults
  /\ Done(x)
  /\ faults' = faults + 1
  /\ history' = history \cup {"failure"}
  /\ frozen' = IF call[x].pc \in {"tool", "drift"}
               THEN {f \in frozen : ~SameCheck(f, x)} ELSE frozen
  /\ UNCHANGED <<row, disk, candidates, active, calls, answered, evidence>>

-----------------------------------------------------------------------------
(* ensure_workspace.                                                       *)

(* The patches a capture that starts now has to find. *)
Found(h) == {a.patch : a \in {b \in answered : b.handle = h}}

AfterEnsure(kind) ==
  CASE kind = "patch" -> "check_revision"
    [] kind = "capture" -> "base_commit"
    [] kind = "import" -> "clearing_checks"
    [] kind = "stat" -> "stat"

EnsureFind(x) ==
  /\ At(x, "ensuring")
  /\ \/ Known = {} /\ Goto(x, "creating")
     \/ \E h \in Handles :
          /\ Latest(h)
          /\ call' = [call EXCEPT ![x].pc = "providing", ![x].handle = h,
                                  ![x].floor = Found(h)]
  /\ UNCHANGED <<disk, frozen, stores, tallies>>

create_Clean(x, h) ==
  /\ At(x, "creating") /\ row[h] = NoRow
  /\ row' = [row EXCEPT ![h] = [NoRow EXCEPT !.revision = 0]]
  /\ call' = [call EXCEPT ![x].pc = "providing", ![x].handle = h]
  /\ UNCHANGED <<disk, frozen, candidates, active, tallies>>

create(x, h) ==
  /\ At(x, "creating") /\ row[h] = NoRow
  /\ row' = [row EXCEPT ![h] = [NoRow EXCEPT !.revision = 0, !.dirty = TRUE]]
  /\ call' = [call EXCEPT ![x].pc = "providing", ![x].handle = h]
  /\ UNCHANGED <<disk, frozen, candidates, active, tallies>>

(* The directory and, if there is no .git, the decision to make one. *)
EnsureProvide(x) ==
  /\ At(x, "providing")
  /\ Goto(x, IF disk[call[x].handle].git
             THEN AfterEnsure(call[x].kind) ELSE "seeding")
  /\ UNCHANGED <<disk, frozen, stores, tallies>>

(* init, which does nothing to a repository, and the seed commit, which    *)
(* commits what the index holds.                                           *)
EnsureSeed(x) ==
  /\ At(x, "seeding")
  /\ LET h == call[x].handle
     IN  disk' = [disk EXCEPT ![h].git = TRUE, ![h].base = @ + 1,
                              ![h].head = disk[h].index]
  /\ Goto(x, AfterEnsure(call[x].kind))
  /\ UNCHANGED <<frozen, stores, tallies>>

(* workspace.stat reads the revision, and nothing more. *)
Stat(x) ==
  /\ At(x, "stat")
  /\ Done(x)
  /\ UNCHANGED <<disk, frozen, stores, tallies>>

-----------------------------------------------------------------------------
(* The row.                                                                *)

put_workspace_state_Blind(h, state, expected) ==
  row' = [row EXCEPT ![h] = state]

(* The store writes over the expected revision only. *)
put_workspace_state(h, state, expected) ==
  /\ row[h].revision = expected
  /\ row' = [row EXCEPT ![h] = state]

Rewrites(x, state, expected, pc) ==
  \/ /\ put_workspace_state(call[x].handle, state, expected)
     /\ Goto(x, pc)
  \/ /\ row[call[x].handle].revision # expected
     /\ Done(x)
     /\ UNCHANGED row

-----------------------------------------------------------------------------
(* workspace.apply_patch.                                                  *)

ApplyCompare(x) ==
  /\ At(x, "check_revision")
  /\ IF row[call[x].handle].revision = call[x].expected
     THEN Goto(x, "status")
     ELSE Done(x)
  /\ UNCHANGED <<disk, frozen, stores, tallies>>

ApplyStatus(x) ==
  /\ At(x, "status")
  /\ IF Clean(call[x].handle) THEN Goto(x, "apply") ELSE Done(x)
  /\ UNCHANGED <<disk, frozen, stores, tallies>>

(* git apply --check refuses a patch that is there, and any patch where    *)
(* there is no repository.                                                 *)
Apply(x) ==
  LET h == call[x].handle
  IN  /\ At(x, "apply")
      /\ IF disk[h].git /\ call[x].patch \notin disk[h].work
         THEN /\ disk' = [disk EXCEPT ![h].work = @ \cup {call[x].patch}]
              /\ Goto(x, "reread")
         ELSE Done(x) /\ UNCHANGED disk
      /\ UNCHANGED <<frozen, stores, tallies>>

ApplyReread(x) ==
  LET state == row[call[x].handle]
  IN  /\ At(x, "reread")
      /\ IF state.revision = call[x].expected
         THEN call' = [call EXCEPT ![x].pc = "record", ![x].seen = state]
         ELSE Done(x)
      /\ UNCHANGED <<disk, frozen, stores, tallies>>

ApplyRecord(x) ==
  LET next == [call[x].seen EXCEPT !.dirty = TRUE, !.revision = @ + 1]
  IN  /\ At(x, "record")
      /\ Rewrites(x, next, call[x].expected, "patched")
      /\ UNCHANGED <<disk, frozen, candidates, active, tallies>>

ApplyAnswer(x) ==
  /\ At(x, "patched")
  /\ answered' = answered \cup
       {[handle |-> call[x].handle, patch |-> call[x].patch,
         revision |-> call[x].expected + 1]}
  /\ Done(x)
  /\ UNCHANGED <<disk, frozen, stores, calls, faults, evidence, history>>

-----------------------------------------------------------------------------
(* candidate.capture.                                                      *)

CaptureBase(x) ==
  LET h == call[x].handle
  IN  /\ At(x, "base_commit")
      /\ IF disk[h].git
         THEN call' = [call EXCEPT ![x].pc = "add",
                                   ![x].candidate.base = disk[h].base]
         ELSE Done(x)
      /\ UNCHANGED <<disk, frozen, stores, tallies>>

current_tree_Index(h) == disk[h].index

(* git add -A takes all that is visible. *)
current_tree(h) == Visible(h)

CaptureAdd(x) ==
  LET h == call[x].handle
  IN  /\ At(x, "add")
      /\ IF disk[h].git
         THEN /\ disk' = [disk EXCEPT ![h].index = current_tree(h)]
              /\ Goto(x, "write_tree")
         ELSE Done(x) /\ UNCHANGED disk
      /\ UNCHANGED <<frozen, stores, tallies>>

CaptureTree(x) ==
  LET h == call[x].handle
  IN  /\ At(x, "write_tree")
      /\ IF disk[h].git
         THEN call' = [call EXCEPT ![x].pc = "version",
                                   ![x].candidate.tree = disk[h].index]
         ELSE Done(x)
      /\ UNCHANGED <<disk, frozen, stores, tallies>>

(* The version is read from the file, not from the tree. *)
CaptureVersion(x) ==
  /\ At(x, "version")
  /\ call' = [call EXCEPT ![x].pc = "find",
       ![x].candidate.version = read_changelog_first_entry(call[x].handle)]
  /\ UNCHANGED <<disk, frozen, stores, tallies>>

CaptureFind(x) ==
  /\ At(x, "find")
  /\ Goto(x, IF call[x].candidate \in candidates THEN "revision" ELSE "put")
  /\ UNCHANGED <<disk, frozen, stores, tallies>>

(* The fingerprint is unique: the second of two inserts fails. *)
CapturePut(x) ==
  /\ At(x, "put")
  /\ IF call[x].candidate \in candidates
     THEN Done(x) /\ UNCHANGED candidates
     ELSE /\ candidates' = candidates \cup {call[x].candidate}
          /\ Goto(x, "revision")
  /\ UNCHANGED <<row, disk, frozen, active, tallies>>

(* current_revision is for the message only; the maintenance commit takes  *)
(* the index as it is by now.                                              *)
CaptureCommit(x) ==
  LET h == call[x].handle
  IN  /\ At(x, "revision")
      /\ IF disk[h].git
         THEN /\ disk' = [disk EXCEPT ![h].head = disk[h].index]
              /\ Goto(x, "runtime")
         ELSE Done(x) /\ UNCHANGED disk
      /\ UNCHANGED <<frozen, stores, tallies>>

(* RuntimeCommand::CaptureCandidate may refuse; it may activate, too. *)
CaptureCommand(x, accepted, activated) ==
  /\ At(x, "runtime")
  /\ activated => accepted
  /\ IF accepted THEN Goto(x, "promote") ELSE Done(x)
  /\ active' = IF activated THEN call[x].candidate ELSE active
  /\ UNCHANGED <<row, disk, frozen, candidates, tallies>>

(* WorkspaceManager::activate_candidate. *)
ActivateRead(x) ==
  /\ At(x, "promote")
  /\ call' = [call EXCEPT ![x].pc = "mark", ![x].seen = row[call[x].handle]]
  /\ UNCHANGED <<disk, frozen, stores, tallies>>

ActivateMark(x) ==
  LET next == [call[x].seen EXCEPT !.base = call[x].candidate, !.dirty = FALSE]
  IN  /\ At(x, "mark")
      /\ Rewrites(x, next, call[x].seen.revision, "bump_compare")
      /\ UNCHANGED <<disk, frozen, candidates, active, tallies>>

(* bump_revision reads the row to compare it, and again to change it. *)
BumpCompare(x) ==
  /\ At(x, "bump_compare")
  /\ IF row[call[x].handle].revision = call[x].seen.revision
     THEN Goto(x, "bump_read")
     ELSE Done(x)
  /\ UNCHANGED <<disk, frozen, stores, tallies>>

BumpRead(x) ==
  /\ At(x, "bump_read")
  /\ call' = [call EXCEPT ![x].pc = "bump",
                          ![x].expected = call[x].seen.revision + 1,
                          ![x].seen = row[call[x].handle]]
  /\ UNCHANGED <<disk, frozen, stores, tallies>>

Bump(x) ==
  /\ At(x, "bump")
  /\ Rewrites(x, [call[x].seen EXCEPT !.revision = call[x].expected],
              call[x].seen.revision, "set_active")
  /\ history' = IF call[x].expected <= call[x].seen.revision
                THEN history \cup {"stale bump"} ELSE history
  /\ UNCHANGED <<disk, frozen, candidates, active, calls, faults, answered, evidence>>

ActivateSet(x) ==
  /\ At(x, "set_active")
  /\ active' = call[x].candidate
  /\ Done(x)
  /\ UNCHANGED <<row, disk, frozen, candidates, tallies>>

-----------------------------------------------------------------------------
(* source.import.                                                          *)

ImportChecks(x) ==
  /\ At(x, "clearing_checks")
  /\ frozen' = frozen \ WorktreesIn(call[x].handle)
  /\ Goto(x, "clearing")
  /\ UNCHANGED <<disk, stores, tallies>>

(* Every entry is removed as a directory, which fails on a file; what goes *)
(* before it, .git or directories, is gone.                                *)
ImportClear(x, gitGone, left) ==
  LET h == call[x].handle
      solid == disk[h].work \cap (Files \cup {Remote})
  IN  /\ At(x, "clearing")
      /\ solid \subseteq left /\ left \subseteq disk[h].work
      /\ solid = {} => gitGone /\ left = {}
      /\ frozen' = frozen \ WorktreesIn(h)
      /\ disk' = IF gitGone
                 THEN [disk EXCEPT ![h] =
                   [NoRepository EXCEPT !.base = disk[h].base, !.work = left]]
                 ELSE [disk EXCEPT ![h].work = left]
      /\ answered' = {a \in answered : a.handle # h}
      /\ history' = history \cup {"import"}
      /\ IF solid = {} THEN Goto(x, "cloning") ELSE Done(x)
      /\ UNCHANGED <<stores, calls, faults, evidence>>

(* git clone wants an empty directory.  The row is left as it is. *)
ImportClone(x) ==
  LET h == call[x].handle
  IN  /\ At(x, "cloning")
      /\ disk' = IF ~disk[h].git /\ Visible(h) = {}
                 THEN [disk EXCEPT ![h] =
                   [git |-> TRUE, work |-> {Remote}, index |-> {Remote},
                    head |-> {Remote}, base |-> disk[h].base + 1]]
                 ELSE disk
      /\ Done(x)
      /\ UNCHANGED <<frozen, stores, tallies>>

-----------------------------------------------------------------------------
(* check.run of a tool that reads the workspace.                           *)

CheckFind(x) ==
  /\ At(x, "checking")
  /\ \/ (Known = {} \/ active = NoCandidate) /\ Done(x)
     \/ \E h \in Handles :
          /\ Latest(h) /\ active # NoCandidate
          /\ call' = [call EXCEPT ![x].pc = "freezing", ![x].handle = h,
                                  ![x].candidate = active]
  /\ UNCHANGED <<disk, frozen, stores, tallies>>

(* frozen_for_check: a directory of that name is taken for a stale one. *)
FreezeClear(x) ==
  /\ At(x, "freezing")
  /\ frozen' = {f \in frozen : ~SameCheck(f, x)}
  /\ Goto(x, "worktree")
  /\ UNCHANGED <<disk, stores, tallies>>

(* git worktree add wants a repository, and no directory of that name. *)
FreezeAdd(x) ==
  LET h == call[x].handle
  IN  /\ At(x, "worktree")
      /\ IF disk[h].git /\ ~\E f \in frozen : SameCheck(f, x)
         THEN /\ frozen' = frozen \cup
                   {[handle |-> h, check |-> call[x].candidate, owner |-> call[x].id,
                     users |-> {}, head |-> call[x].candidate.tree,
                     work |-> call[x].candidate.tree]}
              /\ Goto(x, "tool")
         ELSE Done(x) /\ UNCHANGED frozen
      /\ UNCHANGED <<disk, stores, tallies>>

(* The tool ends.  It has read a whole tree if the worktree of its call    *)
(* was there to the end; it may have written there, or committed.          *)
Tool(x, act) ==
  LET there == {f \in frozen : SameCheck(f, x)}
      Changed(f) ==
        CASE act = "reads" -> f
          [] act = "writes" -> [f EXCEPT !.work = @ \cup {"commit of a tool"}]
          [] act = "commits" -> [f EXCEPT !.work = @ \cup {"commit of a tool"},
                                          !.head = @ \cup {"commit of a tool"}]
  IN  /\ At(x, "tool")
      /\ act # "reads" => there # {}
      /\ frozen' = (frozen \ there) \cup 
                   {[Changed(f) EXCEPT !.users = @ \cup {call[x].id}] : f \in there}
      /\ call' = [call EXCEPT ![x].pc = "drift", ![x].reads =
           IF \E f \in there :
                 f.owner = call[x].id /\ f.work = call[x].candidate.tree
           THEN "whole" ELSE "torn"]
      /\ UNCHANGED <<disk, stores, tallies>>

Drifted_Never(x) == FALSE

(* FrozenWorktree::tree_sha after the tool: the tree of HEAD, an error if  *)
(* there is no worktree or no repository behind it.                        *)
Drifted(x) ==
  LET there == {f \in frozen : SameCheck(f, x)}
  IN  ~disk[call[x].handle].git \/ there = {}
        \/ \E f \in there : f.head # call[x].candidate.tree

CheckDrift(x) ==
  /\ At(x, "drift")
  /\ Goto(x, "dropping")
  /\ evidence' =
       IF Drifted(x) THEN evidence
       ELSE evidence \cup
              {[candidate |-> call[x].candidate, reads |-> call[x].reads,
                rival |-> \E f \in frozen :
                  SameCheck(f, x) /\ f.users \cup {f.owner} # {call[x].id}]}
  /\ UNCHANGED <<disk, frozen, stores, calls, faults, answered, history>>

(* Drop of the FrozenWorktree removes whatever is there by its name. *)
CheckDrop(x) ==
  /\ At(x, "dropping")
  /\ frozen' = {f \in frozen : ~SameCheck(f, x)}
  /\ Done(x)
  /\ UNCHANGED <<disk, stores, tallies>>

-----------------------------------------------------------------------------
Kinds == {"patch", "capture", "import", "check", "stat"}

CallStep(x) ==
  \/ EnsureFind(x) \/ (\E h \in Handles : create(x, h)) \/ EnsureProvide(x)
  \/ EnsureSeed(x) \/ Stat(x)
  \/ ApplyCompare(x) \/ ApplyStatus(x) \/ Apply(x) \/ ApplyReread(x)
  \/ ApplyRecord(x) \/ ApplyAnswer(x)
  \/ CaptureBase(x) \/ CaptureAdd(x) \/ CaptureTree(x) \/ CaptureVersion(x)
  \/ CaptureFind(x) \/ CapturePut(x) \/ CaptureCommit(x)
  \/ (\E accepted, activated \in BOOLEAN : CaptureCommand(x, accepted, activated))
  \/ ActivateRead(x) \/ ActivateMark(x) \/ BumpCompare(x) \/ BumpRead(x)
  \/ Bump(x) \/ ActivateSet(x)
  \/ ImportChecks(x) \/ ImportClone(x)
  \/ (\E gitGone \in BOOLEAN, left \in SUBSET Contents : ImportClear(x, gitGone, left))
  \/ CheckFind(x) \/ FreezeClear(x) \/ FreezeAdd(x)
  \/ (\E act \in {"reads", "writes", "commits"} : Tool(x, act))
  \/ CheckDrift(x) \/ CheckDrop(x)

Next ==
  \E x \in Callers :
    \/ \E kind \in Kinds, patch \in Patches \cup {Remote}, expected \in Expected :
         Start(x, kind, patch, expected)
    \/ CallStep(x)
    \/ Fails(x)

Spec == Init /\ [][Next]_vars

-----------------------------------------------------------------------------
(* Properties.                                                             *)

Candidates == [base : Nat, tree : SUBSET Contents, version : SUBSET Bumps]

Rows == [revision : Nat, dirty : BOOLEAN, base : Candidates]

Repositories ==
  [git : BOOLEAN, work : SUBSET Contents, index : SUBSET Contents,
   head : SUBSET Contents, base : Nat]

Worktrees ==
  [handle : Handles, check : Candidates, owner : 1..MaxCalls,
   users : SUBSET (1..MaxCalls), head : SUBSET Contents, work : SUBSET Contents]

Steps ==
  {"idle", "ensuring", "creating", "providing", "seeding", "stat",
   "check_revision", "status", "apply", "reread", "record", "patched",
   "base_commit", "add", "write_tree", "version", "find", "put", "revision",
   "runtime", "promote", "mark", "bump_compare", "bump_read", "bump", "set_active",
   "clearing_checks", "clearing", "cloning",
   "checking", "freezing", "worktree", "tool", "drift", "dropping"}

CallStates ==
  [pc : Steps, kind : Kinds \cup {"none"}, id : 0..MaxCalls,
   handle : Handles \cup {0}, patch : Patches \cup {Remote}, expected : Nat,
   seen : Rows \cup {NoRow}, candidate : Candidates, floor : SUBSET Patches,
   reads : {"nothing", "whole", "torn"}]

(* The types of the state. *)
TypeOK ==
  /\ row \in [Handles -> Rows \cup {NoRow}]
  /\ disk \in [Handles -> Repositories]
  /\ frozen \subseteq Worktrees
  /\ candidates \subseteq Candidates /\ active \in Candidates
  /\ call \in [Callers -> CallStates]
  /\ calls \in 0..MaxCalls /\ faults \in 0..MaxFaults
  /\ answered \subseteq [handle : Handles, patch : Patches, revision : Nat]
  /\ evidence \subseteq
       [candidate : Candidates, reads : {"whole", "torn"}, rival : BOOLEAN]
  /\ history \subseteq {"overlap", "failure", "import", "stale bump"}

(* Optimistic concurrency: of the calls that patch on top of one revision, *)
(* one is answered with the next one, whatever the others do in between;   *)
(* but for an activation that bumps what was bumped since it looked.       *)
RevisionsAnsweredOnce ==
  "stale bump" \notin history =>
  \A a, b \in answered :
    a.handle = b.handle =>
      /\ a.revision <= row[a.handle].revision
      /\ a.revision = b.revision => a.patch = b.patch

(* A patch that was answered with a revision is in every candidate that is *)
(* captured from the workspace afterwards, unless there was an import.     *)
AppliedPatchIsCaptured ==
  \A x \in Callers :
    "import" \notin history /\
    call[x].pc \in {"version", "find", "put", "revision", "runtime", "promote"} =>
      call[x].floor \cap Found(call[x].handle) \subseteq call[x].candidate.tree

(* A row that says clean tells what the tree is, as long as calls come one *)
(* at a time and none fails: nothing is uncommitted, and the tree is the   *)
(* one of the candidate the row names.                                     *)
CleanMeansCaptured ==
  \A h \in Handles :
    /\ row[h] # NoRow /\ ~row[h].dirty
    /\ history = {} /\ \A x \in Callers : At(x, "idle")
    => Clean(h) /\ disk[h].head = row[h].base.tree /\ row[h].base \in candidates

(* Evidence rests on the whole of the captured tree, whatever is patched,  *)
(* captured or imported while the tool reads it: only a second run of the  *)
(* same check, which takes the directory away, can tear it.                *)
TornByARivalOnly == \A e \in evidence : e.reads = "torn" => e.rival

(* manager.rs:167: a bump of a revision that is no longer the expected one *)
(* is a conflict, so that a revision is never taken back.                  *)
RevisionNeverFallsBack ==
  [][\A h \in Handles : row'[h].revision >= row[h].revision]_vars

=============================================================================
