----------------------------- MODULE FileLanding -----------------------------
(***************************************************************************)
(* How an agent's work reaches the project: the sandbox is copied from the *)
(* project (or from HEAD), the agent changes it, and the changes land      *)
(* directly (automatic mode) or as a patch that the user applies (review   *)
(* mode, micro tasks).  workspace.py writes the files of one landing one   *)
(* by one and rolls back if a write fails.  A snapshot of the project is   *)
(* made before a direct landing and a commit, and after a patch was        *)
(* applied or an older snapshot was restored.                              *)
(*                                                                         *)
(* The text of a file is the set of changes it contains: a change is made  *)
(* by a round of a task, or by the user, who made the files there are at   *)
(* first.  An agent writes all its files in the first round, some of them  *)
(* in the repair round, and keeps what it reads.                           *)
(* A landing writes its files in the order of Files, and rolls back in the *)
(* reverse order; contracts.json comes last.                               *)
(***************************************************************************)
EXTENDS Naturals, Sequences, FiniteSets, SequencesExt

CONSTANTS
  Task,
  Files,         \* the files of the project, in order
  Contracts,     \* the registry .docuagent/contracts.json, the last of Files
  Absent,        \* the content of a file that is not there
  New,           \* the files that are not there at first
  TaskFiles,     \* TaskFiles[t]: files the agent of t may write
  Mode,          \* Mode[t]: "auto", "review" or "micro"
  SNAPSHOT_MAX,  \* snapshots kept
  Serial,        \* assumption: nobody else snapshots while a snapshot is made
  Calm,          \* assumption: a micro task is not sandboxed during a landing
  Quiet,         \* assumption: no snapshot is made and nothing committed
                 \* while a landing writes; no snapshot is restored and no
                 \* patch applied while one writes or is about to
  MaxRounds,     \* bound: rounds of a task, two for each attempt
  MaxActs,       \* bound: edits, commits and restores by the user
  MaxFaults      \* bound: failing writes and restarts

File == ToSet(Files)
User == "user"
Restorer == "restorer"   \* the request that restores a snapshot
Committer == "committer" \* the request that commits
Change == (Task \X (0..MaxRounds)) \cup ({User} \X (0..MaxActs))

ASSUME LandingAssumption ==
  /\ Files \in Seq(File) \ {<<>>}
  /\ Contracts = Last(Files) /\ Contracts \notin New
  /\ IsInjective(Files)
  /\ TaskFiles \in [Task -> SUBSET (File \ {Contracts})]
  /\ Mode \in [Task -> {"auto", "review", "micro"}]
  /\ {User, Restorer, Committer} \cap Task = {}
  /\ \A c \in SUBSET Change : c # Absent
  /\ {Serial, Calm, Quiet} \subseteq BOOLEAN
  /\ SNAPSHOT_MAX \in Nat \ {0}
  /\ {MaxRounds, MaxActs, MaxFaults} \subseteq Nat

VARIABLES
  disk,      \* the project's files
  head,      \* the files of the last commit, Absent without a repository
  phase,     \* phase[w]: where task w, or the restoring request, is
  round,     \* round[t]: rounds of t so far
  box, base, \* box[t], base[t]: the sandbox of t, now and when it was made
  patch,     \* patch[t]: the files t proposes
  before,    \* before[t]: the files as the patch was compared with them
  want,      \* want[w]: the texts w is landing
  prev,      \* prev[w]: what w read before its first write
  todo,      \* todo[w]: files w has still to write, or did not land
  done,      \* done[w]: files w wrote and has not rolled back
  torn,      \* landings of which a crash or a failed rollback left a part
  store,     \* snapshots.json
  acts,      \* what the user did so far
  faults     \* what went wrong so far

tree == <<disk, head>>
sandbox == <<box, base, round>>
proposal == <<patch, before>>
landing == <<want, prev, todo, done, torn>>
vars == <<tree, phase, sandbox, proposal, landing, store, acts, faults>>

Writer == Task \cup {Restorer}
Content == (SUBSET Change) \cup {Absent}
Tree == [File -> Content]
Phase == {"idle", "built", "review", "snapped", "writing", "undoing",
          "refused", "landed", "kept", "verified", "failed"}
NoFiles == [f \in File |-> Absent]

TypeOK ==
  /\ disk \in Tree
  /\ head \in Tree \cup {Absent}
  /\ phase \in [Writer \cup {Committer} -> Phase]
  /\ round \in [Task -> 0..MaxRounds]
  /\ {box, base, before} \subseteq [Task -> Tree]
  /\ patch \in [Task -> SUBSET File]
  /\ {want, prev} \subseteq [Writer -> Tree]
  /\ {todo, done} \subseteq [Writer -> SUBSET File]
  /\ torn \subseteq Writer
  /\ store \in Seq(Tree) /\ Len(store) <= SNAPSHOT_MAX
  /\ acts \in 0..MaxActs
  /\ faults \in 0..MaxFaults

Init ==
  /\ disk = [f \in File |-> IF f \in New THEN Absent ELSE {<<User, 0>>}]
  /\ head \in {disk, Absent}
  /\ phase = [w \in Writer \cup {Committer} |-> "idle"]
  /\ round = [t \in Task |-> 0]
  /\ box = [t \in Task |-> NoFiles] /\ base = box /\ before = box
  /\ patch = [t \in Task |-> {}]
  /\ want = [w \in Writer |-> NoFiles] /\ prev = want
  /\ todo = [w \in Writer |-> {}] /\ done = todo
  /\ torn = {}
  /\ store = <<>>
  /\ acts = 0
  /\ faults = 0

\* A file that is not there reads as an empty text.
Text(c) == IF c = Absent THEN {} ELSE c
Busy(w) == phase[w] \in {"snapped", "writing", "undoing"}
Landing(w) == phase[w] \in {"writing", "undoing"}
Goto(w, p) == phase' = [phase EXCEPT ![w] = p]

\* The sandbox of t is removed.
Destroyed(t) ==
  /\ box' = [box EXCEPT ![t] = NoFiles]
  /\ base' = [base EXCEPT ![t] = NoFiles]

\* Nothing of the last landing of w matters any more.
Forget(w) ==
  /\ want' = [want EXCEPT ![w] = NoFiles]
  /\ prev' = [prev EXCEPT ![w] = NoFiles]
  /\ todo' = [todo EXCEPT ![w] = {}]
  /\ done' = [done EXCEPT ![w] = {}]

-----------------------------------------------------------------------------
(* The user's own editor and commits.                                      *)

UserEdits(f) ==
  /\ acts < MaxActs
  /\ f # Contracts
  /\ acts' = acts + 1
  /\ \/ disk' = [disk EXCEPT ![f] = Text(@) \cup {<<User, acts'>>}]
     \/ disk[f] # Absent /\ disk' = [disk EXCEPT ![f] = Absent]
  /\ UNCHANGED <<head, phase, sandbox, proposal, landing, store, faults>>

\* git_commit stages everything; its route has taken a snapshot.
Commit ==
  /\ phase[Committer] = "snapped"
  /\ Quiet => \A w \in Writer : ~Landing(w)
  /\ head' = disk
  /\ Goto(Committer, "idle")
  /\ UNCHANGED <<disk, sandbox, proposal, landing, store, acts, faults>>

-----------------------------------------------------------------------------
(* The sandbox.                                                            *)

\* A worktree holds the last commit, a copy the files as they are.  Files
\* below .docuagent are left out.
SandboxTree == [f \in File |-> IF f = Contracts THEN Absent
                               ELSE IF head = Absent THEN disk[f] ELSE head[f]]

\* The locks of a wave: no other task at work shares a file with t.
LocksFree(t) == \A o \in Task \ {t} :
  TaskFiles[o] \cap TaskFiles[t] # {} =>
    phase[o] \in {"idle", "review", "refused", "verified", "failed"}

\* Odd rounds are attempts, even ones their repair.
NextAttempt(t) == round[t] + 1 + (round[t] % 2)

\* What the agent makes of a sandbox in one round, writing the files S.
Written(t, tree0, n, S) == [f \in File |->
  IF f \in S THEN Text(tree0[f]) \cup {<<t, n>>} ELSE tree0[f]]

Generate(t) ==
  /\ \/ phase[t] \in {"idle", "review", "failed"}
     \/ phase[t] = "refused" /\ patch[t] = {}
  /\ phase[t] = "review" => Mode[t] = "review"   \* retry_task
  /\ NextAttempt(t) < MaxRounds
  /\ LocksFree(t)
  /\ Calm /\ Mode[t] = "micro" => \A w \in Writer : ~Landing(w)
  /\ base' = [base EXCEPT ![t] = SandboxTree]
  /\ box' = [box EXCEPT
       ![t] = Written(t, SandboxTree, NextAttempt(t), TaskFiles[t])]
  /\ round' = [round EXCEPT ![t] = NextAttempt(t)]
  /\ patch' = [patch EXCEPT ![t] = {}]
  /\ before' = [before EXCEPT ![t] = NoFiles]
  /\ Forget(t)
  /\ torn' = torn \ {t}
  /\ Goto(t, "built")
  /\ UNCHANGED <<tree, store, acts, faults>>

ChangedFiles(t) == {f \in File : box[t][f] # base[t][f]}

\* The sandbox of a micro task is compared with the project instead.
DifferentFiles(t) ==
  {f \in File : box[t][f] # Absent /\ box[t][f] # Text(disk[f])}

Settle(t) ==
  /\ phase[t] = "built" /\ Mode[t] # "auto"
  /\ patch' = [patch EXCEPT
       ![t] = IF Mode[t] = "micro" THEN DifferentFiles(t) ELSE ChangedFiles(t)]
  /\ before' = [before EXCEPT ![t] = [f \in File |-> Text(disk[f])]]
  /\ Goto(t, "review")
  /\ UNCHANGED <<tree, sandbox, landing, store, acts, faults>>

-----------------------------------------------------------------------------
(* Snapshots.                                                              *)

\* Before a direct landing, after a patch or a restoration, before a commit.
CanSnapshot(w) ==
  \/ w \in Task /\ IF Mode[w] = "auto" /\ patch[w] = {}
                     THEN phase[w] = "built"
                     ELSE phase[w] \in {"landed", "refused"}
  \/ w = Restorer /\ phase[w] = "landed"
  \/ w = Committer /\ phase[w] = "idle"
     /\ acts < MaxActs /\ head \notin {disk, Absent}

\* What w does once its snapshot is made.
AfterSnapshot(w) ==
  IF w = Restorer THEN "idle"
  ELSE IF phase[w] = "landed" THEN "kept"
  ELSE IF phase[w] = "refused" THEN "failed" ELSE "snapped"

Newest(entries) ==
  SubSeq(entries, IF Len(entries) > SNAPSHOT_MAX THEN 2 ELSE 1, Len(entries))

\* The store is read, the project is read, and the store is written: what
\* others added to the store in between is overwritten.
CreateSnapshot(w) ==
  /\ CanSnapshot(w)
  /\ Quiet => \A o \in Writer : ~Landing(o)
  /\ acts' = IF w = Committer THEN acts + 1 ELSE acts
  /\ \E n \in 0..Len(store) :
       /\ Serial => n = Len(store)
       /\ store' = Newest(Append(SubSeq(store, 1, n), disk))
  /\ Goto(w, AfterSnapshot(w))
  /\ IF w = Restorer THEN Forget(w) /\ UNCHANGED torn ELSE UNCHANGED landing
  /\ UNCHANGED <<tree, sandbox, proposal, faults>>

-----------------------------------------------------------------------------
(* apply_text_files_atomic, and what decides the texts it is given.        *)

StartWriting(w, texts, files) ==
  /\ want' = [want EXCEPT ![w] = texts]
  /\ prev' = [prev EXCEPT ![w] = disk]
  /\ todo' = [todo EXCEPT ![w] = files]
  /\ done' = [done EXCEPT ![w] = {}]
  /\ Goto(w, IF files = {} THEN "landed" ELSE "writing")

(* Mutant: only files the project has, too, are in conflict.            *)
ConflictIgnoresEdits(t, f) == base[t][f] = Absent /\ disk[f] # Absent

\* apply_sandbox: only files that moved away from the base, and only if the
\* project did not.
Conflict(t, f) == IF base[t][f] = Absent THEN disk[f] # Absent
                                         ELSE disk[f] # base[t][f]

(* Mutant: no snapshot precedes the landing.                             *)
ApplySandboxUnsaved(t) ==
  LET files == {f \in ChangedFiles(t) : disk[f] # box[t][f]} IN
  /\ phase[t] = "built" /\ Mode[t] = "auto"
  /\ \A f \in files : ~Conflict(t, f)
  /\ StartWriting(t, box[t], files)
  /\ UNCHANGED <<tree, sandbox, proposal, torn, store, acts, faults>>

ApplySandbox(t) ==
  LET files == {f \in ChangedFiles(t) : disk[f] # box[t][f]} IN
  /\ phase[t] = "snapped"
  /\ \A f \in files : ~Conflict(t, f)
  /\ StartWriting(t, box[t], files)
  /\ UNCHANGED <<tree, sandbox, proposal, torn, store, acts, faults>>

\* The contract check of the patch found a violation: a human decides.
GateStops(t) ==
  /\ phase[t] = "snapped"
  /\ ChangedFiles(t) # {}
  /\ patch' = [patch EXCEPT ![t] = ChangedFiles(t)]
  /\ before' = [before EXCEPT ![t] = [f \in File |-> Text(disk[f])]]
  /\ Goto(t, "review")
  /\ UNCHANGED <<tree, sandbox, landing, store, acts, faults>>

\* apply_task_patch, or apply_task_partial with some of the files; the
\* registry gets the delta of the patch, computed from what it is now.
ApplyPatch(t) ==
  /\ phase[t] = "review"
  /\ Quiet => \A w \in Writer : ~Busy(w)
  /\ \E files \in (SUBSET patch[t]) \ {{}} :
       /\ \A f \in files : Text(disk[f]) = before[t][f]
       /\ StartWriting(t,
            [box[t] EXCEPT ![Contracts] =
               Text(disk[Contracts]) \cup {<<t, round[t]>>}],
            files \cup {Contracts})
  /\ UNCHANGED <<tree, sandbox, proposal, torn, store, acts, faults>>

\* The comparison, or the contract check of a patch, stops the landing.
Refuse(t) ==
  /\ \/ /\ phase[t] = "snapped"
        /\ \E f \in ChangedFiles(t) : disk[f] # box[t][f] /\ Conflict(t, f)
        /\ todo' = [todo EXCEPT ![t] = ChangedFiles(t)]
     \/ /\ phase[t] = "review" /\ patch[t] # {}
        /\ todo' = [todo EXCEPT ![t] = patch[t]]
  /\ prev' = [prev EXCEPT ![t] = disk]
  /\ done' = [done EXCEPT ![t] = {}]
  /\ Destroyed(t)
  /\ Goto(t, "refused")
  /\ UNCHANGED <<tree, round, proposal, want, torn, store, acts, faults>>

\* restore_snapshot compares with nothing and removes no file.
RestoreSnapshot(i) ==
  LET saved == store[i] IN
  /\ phase[Restorer] = "idle" /\ acts < MaxActs
  /\ Quiet => \A w \in Writer : ~Busy(w)
  /\ acts' = acts + 1
  /\ StartWriting(Restorer, saved, {f \in File : saved[f] # Absent})
  /\ UNCHANGED <<tree, sandbox, proposal, torn, store, faults>>

Place(f) == CHOOSE i \in DOMAIN Files : Files[i] = f

WriteFile(w, f) ==
  /\ phase[w] = "writing"
  /\ f \in todo[w] /\ \A g \in todo[w] : Place(f) <= Place(g)
  /\ disk' = [disk EXCEPT ![f] = want[w][f]]
  /\ todo' = [todo EXCEPT ![w] = @ \ {f}]
  /\ done' = [done EXCEPT ![w] = @ \cup {f}]
  /\ Goto(w, IF todo[w] = {f} THEN "landed" ELSE "writing")
  /\ UNCHANGED <<head, sandbox, proposal, want, prev, torn, store, acts,
                 faults>>

WriteFails(w) ==
  /\ faults < MaxFaults
  /\ phase[w] = "writing"
  /\ Goto(w, "undoing")
  /\ faults' = faults + 1
  /\ UNCHANGED <<tree, sandbox, proposal, landing, store, acts>>

(* Mutant: a file that was new is not removed.                          *)
RollBackKeepsNew(w, f) ==
  /\ phase[w] = "undoing"
  /\ f \in done[w] /\ \A g \in done[w] : Place(g) <= Place(f)
  /\ done' = [done EXCEPT ![w] = @ \ {f}]
  /\ todo' = [todo EXCEPT ![w] = @ \cup {f}]
  /\ disk' = [disk EXCEPT ![f] = IF prev[w][f] = Absent THEN @ ELSE prev[w][f]]
  /\ UNCHANGED <<head, phase, sandbox, proposal, want, prev, torn, store, acts,
                 faults>>

\* Back to what was read before the first write, or removed.
RollBack(w, f) ==
  /\ phase[w] = "undoing"
  /\ f \in done[w] /\ \A g \in done[w] : Place(g) <= Place(f)
  /\ done' = [done EXCEPT ![w] = @ \ {f}]
  /\ todo' = [todo EXCEPT ![w] = @ \cup {f}]
  /\ \/ /\ disk' = [disk EXCEPT ![f] = prev[w][f]]
        /\ UNCHANGED torn
     \/ torn' = torn \cup {w} /\ UNCHANGED disk
  /\ UNCHANGED <<head, phase, sandbox, proposal, want, prev, store, acts,
                 faults>>

RolledBack(w) ==
  /\ phase[w] = "undoing"
  /\ done[w] = {}
  /\ IF w \in Task
     THEN /\ Goto(w, "refused")
          /\ want' = [want EXCEPT ![w] = NoFiles]
          /\ Destroyed(w)
          /\ UNCHANGED <<prev, todo, done>>
     ELSE /\ Goto(w, "idle")
          /\ Forget(w)
          /\ UNCHANGED <<box, base>>
  /\ UNCHANGED <<tree, round, proposal, torn, store, acts, faults>>

-----------------------------------------------------------------------------
(* After a landing.                                                        *)

\* Verification in the project: a first failure starts the repair round in
\* the same sandbox, whose base stays what it was.
Verify(t) ==
  /\ phase[t] = IF patch[t] = {} THEN "landed" ELSE "kept"
  /\ \/ /\ \/ Goto(t, "verified")
           \/ Goto(t, "failed")
        /\ Destroyed(t)
        /\ Forget(t)
        /\ patch' = [patch EXCEPT ![t] = {}]
        /\ before' = [before EXCEPT ![t] = NoFiles]
        /\ UNCHANGED <<round, torn>>
     \/ /\ patch[t] = {} /\ round[t] % 2 = 1
        /\ round' = [round EXCEPT ![t] = @ + 1]
        /\ \E S \in SUBSET TaskFiles[t] :
             box' = [box EXCEPT ![t] = Written(t, @, round'[t], S)]
        /\ Goto(t, "built")
        /\ UNCHANGED <<base, proposal, landing>>
     \/ \* files of the patch that are still to be decided
        /\ patch[t] \ done[t] # {}
        /\ patch' = [patch EXCEPT ![t] = @ \ done[t]]
        /\ Goto(t, "review")
        /\ Forget(t)
        /\ UNCHANGED <<sandbox, before, torn>>
  /\ UNCHANGED <<tree, store, acts, faults>>

\* The process dies: a landing stays as far as it came.
Restart ==
  /\ faults < MaxFaults
  /\ \E w \in Writer : Landing(w)
  /\ faults' = faults + 1
  /\ torn' = torn \cup {w \in Writer : Landing(w)}
  /\ phase' = [w \in DOMAIN phase |->
       IF w \in Task /\ ~Busy(w) /\ phase[w] \notin {"built", "landed", "kept"}
       THEN phase[w] ELSE "idle"]
  /\ want' = [w \in Writer |-> NoFiles] /\ prev' = want'
  /\ todo' = [w \in Writer |-> {}] /\ done' = todo'
  /\ box' = [t \in Task |-> IF phase'[t] = "idle" THEN NoFiles ELSE box[t]]
  /\ base' = [t \in Task |-> IF phase'[t] = "idle" THEN NoFiles ELSE base[t]]
  /\ UNCHANGED <<tree, round, proposal, store, acts>>

Next ==
  \/ \E f \in File : UserEdits(f)
  \/ Commit
  \/ \E t \in Task :
       \/ Generate(t) \/ Settle(t)
       \/ ApplySandbox(t) \/ GateStops(t) \/ ApplyPatch(t) \/ Refuse(t)
       \/ Verify(t)
  \/ \E w \in Writer \cup {Committer} : CreateSnapshot(w)
  \/ \E i \in 1..Len(store) : RestoreSnapshot(i)
  \/ \E w \in Writer : WriteFails(w) \/ RolledBack(w)
  \/ \E w \in Writer, f \in File : WriteFile(w, f) \/ RollBack(w, f)
  \/ Restart

Spec == Init /\ [][Next]_vars

-----------------------------------------------------------------------------
(* Properties.                                                             *)

\* A landing overwrites no change it found in the project when it started:
\* only what is written while its files are being written can be lost, and
\* a file the user removed is not brought back.  A patch may also drop what
\* reached the project between the making of the sandbox and of the patch
\* (apply_sandbox, make_patch_entries, apply_text_files_atomic).
Protected(t, f) ==
  LET exempt == IF patch[t] = {} THEN {} ELSE before[t][f] \ Text(base[t][f])
  IN  /\ Text(disk[f]) \ Text(disk'[f])
           \subseteq (Text(disk[f]) \ Text(prev[t][f])) \cup exempt
      /\ patch[t] = {} /\ prev[t][f] = Absent => base[t][f] = Absent
EditsSurvive == [][\A t \in Task : \A f \in done'[t] \ done[t] :
                     f # Contracts => Protected(t, f)]_vars

\* The stronger claim of apply_sandbox ("applying would overwrite user work
\* and is rejected"), for patches, too.
PatchesProtect == [][\A t \in Task : \A f \in done'[t] \ done[t] :
  f # Contracts =>
    Text(disk[f]) \cap Text(prev[t][f]) \subseteq Text(disk'[f])]_vars

\* A refused landing left none of its changes in a file it was to write, and
\* the registry as it was when it gave up, unless a rollback failed
\* (apply_text_files_atomic, all or nothing).  Later the registry may hold an
\* entry of the task again: a snapshot made between two parts of its patch
\* may be restored.
AllOrNothing == \A t \in Task \ torn :
  /\ phase[t] = "refused" =>
       \A f \in todo[t] \ {Contracts} : <<t, round[t]>> \notin Text(disk[f])
  /\ phase[t] = "undoing" /\ done[t] = {} /\ Contracts \in todo[t] =>
       disk[Contracts] = prev[t][Contracts]

\* When a task that nobody reviewed starts to write, one snapshot holds
\* whatever it is going to overwrite, so that it can be undone
\* (create_snapshot, _apply_sandbox_to_main).
UndoPossible ==
  \A t \in Task : phase[t] = "writing" /\ done[t] = {} /\ patch[t] = {} =>
  \E i \in DOMAIN store : \A f \in todo[t] \ {Contracts} :
    Text(prev[t][f]) \subseteq Text(store[i][f])

\* An agent starts from the project as it is, so that a task finds the code
\* of the tasks it depends on (create_sandbox).
SandboxIsCurrent == [][\A t \in Task :
  base'[t] # base[t] /\ base'[t] # NoFiles =>
    \A f \in File \ {Contracts} : base'[t][f] = disk[f]]_vars
=============================================================================
