-------------------------- MODULE FileLandingProofs --------------------------
(***************************************************************************)
(* Landings for any number of tasks, files, edits and faults.              *)
(***************************************************************************)
EXTENDS FileLanding, TLAPS

-----------------------------------------------------------------------------
(* Types.                                                                  *)

LEMMA ContractsInFile == Contracts \in File
<1>1. Files \in Seq(File) /\ Files # <<>>
  BY LandingAssumption
<1>2. Len(Files) \in DOMAIN Files
  BY <1>1
<1> QED
  BY <1>2, LandingAssumption DEF Last, File, ToSet

LEMMA TextType ==
  ASSUME NEW c \in Content PROVE Text(c) \in SUBSET Change
BY DEF Content, Text

(* A set of changes is not the mark of a file that is not there.           *)
LEMMA PresentText ==
  ASSUME NEW c \in SUBSET Change PROVE c # Absent /\ Text(c) = c
BY LandingAssumption DEF Text

(* Of the snapshots that are kept the last is the new one, and the others  *)
(* were there before.                                                      *)
LEMMA NewestKeeps ==
  ASSUME NEW S, NEW s \in Seq(S), Len(s) <= SNAPSHOT_MAX, NEW d \in S,
         NEW n \in 0..Len(s)
  PROVE  LET r == Newest(Append(SubSeq(s, 1, n), d))
         IN  /\ r \in Seq(S)
             /\ Len(r) \in 1..SNAPSHOT_MAX
             /\ r[Len(r)] = d
             /\ \A i \in DOMAIN r :
                  r[i] = d \/ \E j \in DOMAIN s : r[i] = s[j]
<1> DEFINE a == Append(SubSeq(s, 1, n), d)
           r == Newest(a)
<1>1. SNAPSHOT_MAX \in Nat \ {0}
  BY LandingAssumption
<1>2. /\ a \in Seq(S) /\ Len(a) = n + 1 /\ a[n + 1] = d
      /\ \A i \in 1..n : a[i] = s[i]
  OBVIOUS
<1> HIDE DEF a
<1>3. CASE Len(a) > SNAPSHOT_MAX
  <2>1. r = SubSeq(a, 2, n + 1)
    BY <1>2, <1>3 DEF Newest
  <2>2. /\ r \in Seq(S) /\ Len(r) = n /\ \A i \in 1..n : r[i] = a[i + 1]
    BY <1>2, <2>1
  <2> QED
    BY <1>1, <1>2, <1>3, <2>2 DEF a
<1>4. CASE ~ (Len(a) > SNAPSHOT_MAX)
  <2>1. r = SubSeq(a, 1, n + 1)
    BY <1>2, <1>4 DEF Newest
  <2>2. /\ r \in Seq(S) /\ Len(r) = n + 1
        /\ \A i \in 1..(n + 1) : r[i] = a[i]
    BY <1>2, <2>1
  <2> QED
    BY <1>1, <1>2, <1>4, <2>2 DEF a
<1> QED
  BY <1>3, <1>4 DEF a

(* The repair of an attempt has a round left.                              *)
RepairFits == \A t \in Task : round[t] % 2 = 1 => round[t] < MaxRounds

Typed == TypeOK /\ RepairFits

LEMMA NoFilesType == NoFiles \in Tree
BY DEF NoFiles, Tree, Content

LEMMA InitTyped == Init => Typed
<1> SUFFICES ASSUME Init PROVE Typed
  OBVIOUS
<1>1. disk \in Tree
  <2>1. {<<User, 0>>} \in SUBSET Change
    BY LandingAssumption DEF Change
  <2> QED
    BY <2>1 DEF Init, Tree, Content
<1>2. store \in Seq(Tree) /\ Len(store) = 0
  BY DEF Init
<1>3. head \in Tree \cup {Absent}
  BY <1>1 DEF Init
<1>4. TypeOK
  <2>1. /\ phase \in [Writer \cup {Committer} -> Phase]
        /\ round \in [Task -> 0..MaxRounds]
        /\ acts \in 0..MaxActs /\ faults \in 0..MaxFaults
    BY LandingAssumption DEF Init, Phase
  <2>2. /\ {box, base, before} \subseteq [Task -> Tree]
        /\ patch \in [Task -> SUBSET File]
        /\ {want, prev} \subseteq [Writer -> Tree]
        /\ {todo, done} \subseteq [Writer -> SUBSET File]
        /\ torn \subseteq Writer
    BY NoFilesType DEF Init
  <2>3. Len(store) <= SNAPSHOT_MAX
    BY <1>2, LandingAssumption
  <2> QED
    BY <1>1, <1>2, <1>3, <2>1, <2>2, <2>3 DEF TypeOK
<1>5. RepairFits
  BY DEF Init, RepairFits
<1> QED
  BY <1>4, <1>5 DEF Typed

LEMMA ForgetType ==
  ASSUME TypeOK, NEW w \in Writer, Forget(w)
  PROVE  /\ {want', prev'} \subseteq [Writer -> Tree]
         /\ {todo', done'} \subseteq [Writer -> SUBSET File]
BY NoFilesType DEF Forget, TypeOK

LEMMA DestroyedType ==
  ASSUME TypeOK, NEW t \in Task, Destroyed(t)
  PROVE  {box', base'} \subseteq [Task -> Tree]
BY NoFilesType DEF Destroyed, TypeOK

LEMMA GotoType ==
  ASSUME TypeOK, NEW w, NEW p \in Phase, Goto(w, p)
  PROVE  phase' \in [Writer \cup {Committer} -> Phase]
BY DEF Goto, TypeOK

LEMMA StartWritingType ==
  ASSUME TypeOK, NEW w \in Writer, NEW texts \in Tree,
         NEW files \in SUBSET File, StartWriting(w, texts, files)
  PROVE  /\ {want', prev'} \subseteq [Writer -> Tree]
         /\ {todo', done'} \subseteq [Writer -> SUBSET File]
         /\ phase' \in [Writer \cup {Committer} -> Phase]
BY DEF StartWriting, TypeOK, Goto, Phase

LEMMA WrittenType ==
  ASSUME NEW t \in Task, NEW x \in Tree, NEW n \in 0..MaxRounds, NEW S
  PROVE  Written(t, x, n, S) \in Tree
<1>1. \A f \in File : Text(x[f]) \cup {<<t, n>>} \in SUBSET Change
  BY TextType DEF Tree, Change
<1> QED
  BY <1>1 DEF Written, Tree, Content

LEMMA SandboxType == ASSUME TypeOK PROVE SandboxTree \in Tree
BY DEF TypeOK, SandboxTree, Tree, Content

LEMMA DiskTextType ==
  ASSUME TypeOK PROVE [f \in File |-> Text(disk[f])] \in Tree
BY TextType DEF TypeOK, Tree, Content

-----------------------------------------------------------------------------
LEMMA UserEditsTyped ==
  ASSUME Typed, NEW f \in File, UserEdits(f) PROVE Typed'
<1>1. acts' \in 0..MaxActs
  BY LandingAssumption DEF UserEdits, Typed, TypeOK
<1>2. Text(disk[f]) \cup {<<User, acts'>>} \in SUBSET Change
  BY <1>1, TextType DEF Typed, TypeOK, Tree, Change
<1>3. disk' \in Tree
  BY <1>2 DEF UserEdits, Typed, TypeOK, Tree, Content
<1> QED
  BY <1>1, <1>3 DEF UserEdits, Typed, TypeOK, RepairFits, sandbox, proposal,
                    landing

LEMMA CommitTyped == ASSUME Typed, Commit PROVE Typed'
<1>1. phase' \in [Writer \cup {Committer} -> Phase]
  BY GotoType DEF Commit, Typed, Phase
<1> QED
  BY <1>1 DEF Commit, Typed, TypeOK, RepairFits, sandbox, proposal, landing

LEMMA GenerateTyped ==
  ASSUME Typed, NEW t \in Task, Generate(t) PROVE Typed'
<1>1. /\ NextAttempt(t) \in 0..MaxRounds
      /\ NextAttempt(t) % 2 = 1 => NextAttempt(t) < MaxRounds
  BY LandingAssumption DEF Generate, Typed, TypeOK, NextAttempt
<1>2. phase' \in [Writer \cup {Committer} -> Phase]
  BY GotoType DEF Generate, Typed, Phase
<1>3. /\ {box', base', before'} \subseteq [Task -> Tree]
      /\ patch' \in [Task -> SUBSET File]
      /\ round' \in [Task -> 0..MaxRounds]
      /\ RepairFits'
  BY <1>1, SandboxType, WrittenType, NoFilesType
  DEF Generate, Typed, TypeOK, RepairFits
<1>4. /\ {want', prev'} \subseteq [Writer -> Tree]
      /\ {todo', done'} \subseteq [Writer -> SUBSET File]
  BY ForgetType DEF Generate, Typed, Writer
<1> QED
  BY <1>2, <1>3, <1>4 DEF Generate, Typed, TypeOK, tree

LEMMA SettleTyped ==
  ASSUME Typed, NEW t \in Task, Settle(t) PROVE Typed'
<1>1. phase' \in [Writer \cup {Committer} -> Phase]
  BY GotoType DEF Settle, Typed, Phase
<1>2. before' \in [Task -> Tree]
  BY DiskTextType DEF Settle, Typed, TypeOK
<1>3. patch' \in [Task -> SUBSET File]
  BY DEF Settle, Typed, TypeOK, ChangedFiles, DifferentFiles
<1> QED
  BY <1>1, <1>2, <1>3
  DEF Settle, Typed, TypeOK, RepairFits, tree, sandbox, landing

LEMMA AfterSnapshotType ==
  ASSUME TypeOK, NEW w \in Writer \cup {Committer}
  PROVE  AfterSnapshot(w) \in Phase
BY DEF AfterSnapshot, TypeOK, Phase

LEMMA CreateSnapshotTyped ==
  ASSUME Typed, NEW w \in Writer \cup {Committer}, CreateSnapshot(w)
  PROVE  Typed'
<1>1. phase' \in [Writer \cup {Committer} -> Phase]
  BY GotoType, AfterSnapshotType DEF CreateSnapshot, Typed
<1>2. acts' \in 0..MaxActs
  <2>1. w = Committer => acts < MaxActs
    BY LandingAssumption DEF CreateSnapshot, CanSnapshot, Restorer, Committer
  <2> QED
    BY <2>1, LandingAssumption DEF CreateSnapshot, Typed, TypeOK
<1>3. store' \in Seq(Tree) /\ Len(store') <= SNAPSHOT_MAX
  BY NewestKeeps, LandingAssumption DEF CreateSnapshot, Typed, TypeOK
<1>4. /\ {want', prev'} \subseteq [Writer -> Tree]
      /\ {todo', done'} \subseteq [Writer -> SUBSET File]
      /\ torn' = torn
  BY ForgetType DEF CreateSnapshot, Typed, TypeOK, landing, Writer
<1> QED
  BY <1>1, <1>2, <1>3, <1>4
  DEF CreateSnapshot, Typed, TypeOK, RepairFits, tree, sandbox, proposal

LEMMA StartsTyped ==
  ASSUME Typed, NEW w \in Writer, NEW texts \in Tree,
         NEW files \in SUBSET File, StartWriting(w, texts, files),
         acts' \in 0..MaxActs,
         UNCHANGED <<tree, sandbox, proposal, torn, store, faults>>
  PROVE  Typed'
BY StartWritingType
DEF Typed, TypeOK, RepairFits, tree, sandbox, proposal

LEMMA ApplySandboxTyped ==
  ASSUME Typed, NEW t \in Task, ApplySandbox(t) PROVE Typed'
<1>1. box[t] \in Tree /\ acts' \in 0..MaxActs
  BY DEF ApplySandbox, Typed, TypeOK
<1>2. {f \in ChangedFiles(t) : disk[f] # box[t][f]} \in SUBSET File
  BY DEF ChangedFiles
<1> QED
  BY <1>1, <1>2, StartsTyped DEF ApplySandbox, Writer

LEMMA GateStopsTyped ==
  ASSUME Typed, NEW t \in Task, GateStops(t) PROVE Typed'
<1>1. phase' \in [Writer \cup {Committer} -> Phase]
  BY GotoType DEF GateStops, Typed, Phase
<1>2. before' \in [Task -> Tree]
  BY DiskTextType DEF GateStops, Typed, TypeOK
<1> QED
  BY <1>1, <1>2 DEF GateStops, Typed, TypeOK, RepairFits, tree, sandbox,
                    landing, ChangedFiles

LEMMA ApplyPatchTyped ==
  ASSUME Typed, NEW t \in Task, ApplyPatch(t) PROVE Typed'
<1> DEFINE texts == [box[t] EXCEPT ![Contracts] =
                       Text(disk[Contracts]) \cup {<<t, round[t]>>}]
<1>1. PICK files \in (SUBSET patch[t]) \ {{}} :
        StartWriting(t, texts, files \cup {Contracts})
  BY DEF ApplyPatch
<1>2. Text(disk[Contracts]) \cup {<<t, round[t]>>} \in SUBSET Change
  BY TextType, ContractsInFile DEF Typed, TypeOK, Tree, Change
<1>3. texts \in Tree
  BY <1>2 DEF Typed, TypeOK, Tree, Content
<1>4. files \cup {Contracts} \in SUBSET File
  BY ContractsInFile DEF Typed, TypeOK
<1>5. acts' \in 0..MaxActs
  BY DEF ApplyPatch, Typed, TypeOK
<1> QED
  BY <1>1, <1>3, <1>4, <1>5, StartsTyped DEF ApplyPatch, Writer

LEMMA RefuseTyped ==
  ASSUME Typed, NEW t \in Task, Refuse(t) PROVE Typed'
<1>1. phase' \in [Writer \cup {Committer} -> Phase]
  BY GotoType DEF Refuse, Typed, Phase
<1>2. {box', base'} \subseteq [Task -> Tree]
  BY DestroyedType DEF Refuse, Typed
<1>3. /\ prev' \in [Writer -> Tree]
      /\ done' \in [Writer -> SUBSET File]
  BY DEF Refuse, Typed, TypeOK, Writer
<1>4. todo' \in [Writer -> SUBSET File]
  <2>1. ChangedFiles(t) \in SUBSET File /\ patch[t] \in SUBSET File
    BY DEF ChangedFiles, Typed, TypeOK
  <2> HIDE DEF ChangedFiles
  <2> QED
    BY <2>1 DEF Refuse, Typed, TypeOK
<1> QED
  BY <1>1, <1>2, <1>3, <1>4
  DEF Refuse, Typed, TypeOK, RepairFits, tree, proposal

LEMMA RestoreSnapshotTyped ==
  ASSUME Typed, NEW i \in 1..Len(store), RestoreSnapshot(i) PROVE Typed'
<1>1. store[i] \in Tree
  BY DEF Typed, TypeOK
<1>2. acts' \in 0..MaxActs
  BY LandingAssumption DEF RestoreSnapshot, Typed, TypeOK
<1> QED
  BY <1>1, <1>2, StartsTyped DEF RestoreSnapshot, Writer

LEMMA WriteFileTyped ==
  ASSUME Typed, NEW w \in Writer, NEW f \in File, WriteFile(w, f)
  PROVE  Typed'
<1>1. phase' \in [Writer \cup {Committer} -> Phase]
  BY GotoType DEF WriteFile, Typed, Phase
<1>2. want[w][f] \in Content
  BY DEF Typed, TypeOK, Tree
<1>3. disk' \in Tree
  BY <1>2 DEF WriteFile, Typed, TypeOK, Tree
<1>4. {todo', done'} \subseteq [Writer -> SUBSET File]
  BY DEF WriteFile, Typed, TypeOK
<1> QED
  BY <1>1, <1>3, <1>4
  DEF WriteFile, Typed, TypeOK, RepairFits, sandbox, proposal

LEMMA WriteFailsTyped ==
  ASSUME Typed, NEW w \in Writer, WriteFails(w) PROVE Typed'
<1>1. phase' \in [Writer \cup {Committer} -> Phase]
  BY GotoType DEF WriteFails, Typed, Phase
<1>2. faults' \in 0..MaxFaults
  BY LandingAssumption DEF WriteFails, Typed, TypeOK
<1> QED
  BY <1>1, <1>2 DEF WriteFails, Typed, TypeOK, RepairFits, tree, sandbox,
                    proposal, landing

LEMMA RollBackTyped ==
  ASSUME Typed, NEW w \in Writer, NEW f \in File, RollBack(w, f)
  PROVE  Typed'
<1>1. prev[w][f] \in Content
  BY DEF Typed, TypeOK, Tree
<1>2. disk' \in Tree
  BY <1>1 DEF RollBack, Typed, TypeOK, Tree
<1>3. {todo', done'} \subseteq [Writer -> SUBSET File]
  BY DEF RollBack, Typed, TypeOK
<1>4. torn' \subseteq Writer
  BY DEF RollBack, Typed, TypeOK
<1> QED
  BY <1>2, <1>3, <1>4
  DEF RollBack, Typed, TypeOK, RepairFits, sandbox, proposal

LEMMA RolledBackTyped ==
  ASSUME Typed, NEW w \in Writer, RolledBack(w) PROVE Typed'
<1>1. phase' \in [Writer \cup {Committer} -> Phase]
  BY GotoType DEF RolledBack, Typed, Phase
<1>2. /\ {want', prev'} \subseteq [Writer -> Tree]
      /\ {todo', done'} \subseteq [Writer -> SUBSET File]
  BY ForgetType, NoFilesType DEF RolledBack, Typed, TypeOK
<1>3. {box', base'} \subseteq [Task -> Tree]
  BY DestroyedType DEF RolledBack, Typed, TypeOK
<1> QED
  BY <1>1, <1>2, <1>3
  DEF RolledBack, Typed, TypeOK, RepairFits, tree, proposal

LEMMA VerifyTyped ==
  ASSUME Typed, NEW t \in Task, Verify(t) PROVE Typed'
<1>1. phase' \in [Writer \cup {Committer} -> Phase]
  BY GotoType DEF Verify, Typed, Phase
<1>2. /\ {want', prev'} \subseteq [Writer -> Tree]
      /\ {todo', done'} \subseteq [Writer -> SUBSET File]
      /\ torn' = torn
  BY ForgetType DEF Verify, Typed, TypeOK, Writer, landing
<1>3. round' \in [Task -> 0..MaxRounds] /\ RepairFits'
  <2>1. CASE round' = round
    BY <2>1 DEF Typed, TypeOK, RepairFits
  <2>2. CASE round[t] % 2 = 1 /\ round' = [round EXCEPT ![t] = @ + 1]
    <3>1. round[t] \in 0..MaxRounds /\ round[t] < MaxRounds
      BY <2>2 DEF Typed, TypeOK, RepairFits
    <3>2. round[t] + 1 \in 0..MaxRounds /\ (round[t] + 1) % 2 # 1
      BY <2>2, <3>1, LandingAssumption
    <3> QED
      BY <2>2, <3>2 DEF Typed, TypeOK, RepairFits
  <2> QED
    BY <2>1, <2>2 DEF Verify, sandbox
<1>4. {box', base'} \subseteq [Task -> Tree]
  <2>1. round'[t] \in 0..MaxRounds
    BY <1>3
  <2>2. \A S : Written(t, box[t], round'[t], S) \in Tree
    BY <2>1, WrittenType DEF Typed, TypeOK
  <2>3. CASE Destroyed(t)
    BY <2>3, DestroyedType DEF Typed
  <2>4. CASE UNCHANGED <<box, base>>
    BY <2>4 DEF Typed, TypeOK
  <2>5. ASSUME NEW S \in SUBSET TaskFiles[t], UNCHANGED base,
               box' = [box EXCEPT ![t] = Written(t, @, round'[t], S)]
        PROVE  {box', base'} \subseteq [Task -> Tree]
    BY <2>2, <2>5 DEF Typed, TypeOK
  <2> QED
    BY <2>3, <2>4, <2>5 DEF Verify, sandbox
<1>5. before' \in [Task -> Tree] /\ patch' \in [Task -> SUBSET File]
  BY NoFilesType DEF Verify, Typed, TypeOK, proposal
<1> QED
  BY <1>1, <1>2, <1>3, <1>4, <1>5 DEF Verify, Typed, TypeOK, tree

LEMMA RestartTyped == ASSUME Typed, Restart PROVE Typed'
<1>1. phase' \in [Writer \cup {Committer} -> Phase]
  BY DEF Restart, Typed, TypeOK, Phase
<1>2. faults' \in 0..MaxFaults
  BY LandingAssumption DEF Restart, Typed, TypeOK
<1>3. {box', base'} \subseteq [Task -> Tree]
  BY NoFilesType DEF Restart, Typed, TypeOK
<1>4. /\ {want', prev'} \subseteq [Writer -> Tree]
      /\ {todo', done'} \subseteq [Writer -> SUBSET File]
      /\ torn' \subseteq Writer
  BY NoFilesType DEF Restart, Typed, TypeOK
<1> QED
  BY <1>1, <1>2, <1>3, <1>4
  DEF Restart, Typed, TypeOK, RepairFits, tree, proposal

LEMMA NextTyped == Typed /\ [Next]_vars => Typed'
<1> SUFFICES ASSUME Typed, [Next]_vars PROVE Typed'
  OBVIOUS
<1>1. CASE UNCHANGED vars
  BY <1>1 DEF vars, tree, sandbox, proposal, landing, Typed, TypeOK,
              RepairFits
<1> QED
  BY <1>1, UserEditsTyped, CommitTyped, GenerateTyped, SettleTyped,
     ApplySandboxTyped, GateStopsTyped, ApplyPatchTyped, RefuseTyped,
     VerifyTyped, CreateSnapshotTyped, RestoreSnapshotTyped,
     WriteFailsTyped, RolledBackTyped, WriteFileTyped, RollBackTyped,
     RestartTyped
  DEF Next

(* Every variable of the landing keeps its type, and there is always a     *)
(* round for the repair of an attempt (_repair_sandbox_once runs once).    *)
THEOREM LandingTypeCorrect == Spec => []TypeOK
<1>1. Typed => TypeOK
  BY DEF Typed
<1> QED
  BY InitTyped, NextTyped, <1>1, PTL DEF Spec

-----------------------------------------------------------------------------
(* Sandboxes and patches: what is about to be written.                     *)

(* An agent changes its own files, never the registry, and takes nothing   *)
(* out of what it found.                                                   *)
BoxShape(t) ==
  /\ base[t][Contracts] = Absent /\ box[t][Contracts] = Absent
  /\ \A f \in File : box[t][f] # base[t][f] => f \in TaskFiles[t]
  /\ \A f \in File : Text(base[t][f]) \subseteq Text(box[t][f])

(* A patch is of the task's own files, but for a micro task, which is      *)
(* compared with the project.                                              *)
PatchShape(t) ==
  /\ Contracts \notin patch[t]
  /\ Mode[t] # "micro" => patch[t] \subseteq TaskFiles[t]

(* What is still to be written comes from the sandbox, and replaces what   *)
(* the sandbox was made from, or what the patch was compared with.         *)
Prepared(t) ==
  phase[t] = "writing" =>
    /\ todo[t] \subseteq
         (IF patch[t] = {} THEN TaskFiles[t] ELSE patch[t] \cup {Contracts})
    /\ \A f \in todo[t] \ {Contracts} :
         /\ want[t][f] = box[t][f]
         /\ IF patch[t] = {} THEN prev[t][f] = base[t][f]
                             ELSE Text(prev[t][f]) = before[t][f]

SandboxInv == \A t \in Task : BoxShape(t) /\ PatchShape(t) /\ Prepared(t)

LEMMA BoxShapeKept ==
  ASSUME NEW t, BoxShape(t), base'[t] = base[t], box'[t] = box[t]
  PROVE  BoxShape(t)'
BY DEF BoxShape

LEMMA NoBoxShape ==
  ASSUME NEW t, base'[t] = NoFiles, box'[t] = NoFiles
  PROVE  BoxShape(t)'
BY ContractsInFile DEF BoxShape, NoFiles

LEMMA PatchShapeKept ==
  ASSUME NEW t, PatchShape(t), patch'[t] \subseteq patch[t]
  PROVE  PatchShape(t)'
BY DEF PatchShape

LEMMA PreparedKept ==
  ASSUME NEW t, Prepared(t),
         phase'[t] = "writing" => phase[t] = "writing",
         todo'[t] \subseteq todo[t],
         UNCHANGED <<patch[t], want[t], prev[t], box[t], base[t], before[t]>>
  PROVE  Prepared(t)'
BY DEF Prepared

LEMMA NotWriting ==
  ASSUME NEW t, phase'[t] # "writing" PROVE Prepared(t)'
BY DEF Prepared

(* A step that leaves every sandbox and patch alone, and takes no file into *)
(* a landing.                                                              *)
LEMMA SandboxFrame ==
  ASSUME SandboxInv, UNCHANGED <<sandbox, proposal>>,
         \A t \in Task :
           \/ phase'[t] # "writing"
           \/ /\ phase[t] = "writing"
              /\ todo'[t] \subseteq todo[t]
              /\ UNCHANGED <<want[t], prev[t]>>
  PROVE  SandboxInv'
<1> SUFFICES ASSUME NEW t \in Task
             PROVE  (BoxShape(t) /\ PatchShape(t) /\ Prepared(t))'
  BY DEF SandboxInv
<1>1. BoxShape(t)' /\ PatchShape(t)'
  BY BoxShapeKept, PatchShapeKept DEF SandboxInv, sandbox, proposal
<1>2. Prepared(t)'
  BY PreparedKept, NotWriting DEF SandboxInv, sandbox, proposal
<1> QED
  BY <1>1, <1>2

(* A step of one task, whose landing has not begun.                        *)
LEMMA SandboxStep ==
  ASSUME SandboxInv, NEW t \in Task,
         \A o \in Task \ {t} :
           UNCHANGED <<patch[o], want[o], prev[o], box[o], base[o], before[o],
                       phase[o], todo[o]>>,
         BoxShape(t)', PatchShape(t)', Prepared(t)'
  PROVE  SandboxInv'
<1> SUFFICES ASSUME NEW o \in Task \ {t}
             PROVE  (BoxShape(o) /\ PatchShape(o) /\ Prepared(o))'
  BY DEF SandboxInv
<1> QED
  BY BoxShapeKept, PatchShapeKept, PreparedKept DEF SandboxInv

LEMMA InitSandbox == Init => SandboxInv
<1> SUFFICES ASSUME Init, NEW t \in Task
             PROVE  BoxShape(t) /\ PatchShape(t) /\ Prepared(t)
  BY DEF SandboxInv
<1>1. /\ base[t] = NoFiles /\ box[t] = NoFiles
      /\ patch[t] = {} /\ phase[t] = "idle"
  BY DEF Init, Writer
<1> QED
  BY <1>1, ContractsInFile DEF BoxShape, PatchShape, Prepared, NoFiles

LEMMA WrittenShape ==
  ASSUME NEW t \in Task, NEW x \in Tree, NEW n \in 0..MaxRounds, NEW S,
         NEW f \in File
  PROVE  /\ f \in S => Written(t, x, n, S)[f] = Text(x[f]) \cup {<<t, n>>}
         /\ f \notin S => Written(t, x, n, S)[f] = x[f]
         /\ Text(Written(t, x, n, S)[f]) =
              Text(x[f]) \cup (IF f \in S THEN {<<t, n>>} ELSE {})
<1>1. Text(x[f]) \cup {<<t, n>>} \in SUBSET Change
  BY TextType DEF Tree, Change
<1> QED
  BY <1>1, PresentText DEF Written

LEMMA GenerateSandbox ==
  ASSUME Typed, SandboxInv, NEW t \in Task, Generate(t) PROVE SandboxInv'
<1> DEFINE n == NextAttempt(t)
           b == Written(t, SandboxTree, n, TaskFiles[t])
<1>1. n \in 0..MaxRounds
  BY LandingAssumption DEF Generate, Typed, TypeOK, NextAttempt
<1>2. /\ base'[t] = SandboxTree /\ box'[t] = b
      /\ patch'[t] = {} /\ phase'[t] = "built"
  BY DEF Generate, Typed, TypeOK, Goto, Writer
<1>3. SandboxTree \in Tree /\ SandboxTree[Contracts] = Absent
  BY SandboxType, ContractsInFile DEF Typed, SandboxTree
<1>4. Contracts \notin TaskFiles[t]
  BY LandingAssumption
<1>5. \A f \in File :
        /\ f \notin TaskFiles[t] => b[f] = SandboxTree[f]
        /\ Text(SandboxTree[f]) \subseteq Text(b[f])
  BY <1>1, <1>3, WrittenShape
<1>6. BoxShape(t)'
  BY <1>2, <1>3, <1>4, <1>5, ContractsInFile DEF BoxShape
<1>7. PatchShape(t)' /\ Prepared(t)'
  BY <1>2 DEF PatchShape, Prepared
<1>8. \A o \in Task \ {t} :
        UNCHANGED <<patch[o], want[o], prev[o], box[o], base[o], before[o],
                    phase[o], todo[o]>>
  BY DEF Generate, Typed, TypeOK, Goto, Forget, Writer
<1> QED
  BY <1>6, <1>7, <1>8, SandboxStep

LEMMA SettleSandbox ==
  ASSUME Typed, SandboxInv, NEW t \in Task, Settle(t) PROVE SandboxInv'
<1>1. /\ base'[t] = base[t] /\ box'[t] = box[t]
      /\ phase'[t] = "review"
      /\ patch'[t] = IF Mode[t] = "micro" THEN DifferentFiles(t)
                                          ELSE ChangedFiles(t)
  BY DEF Settle, Typed, TypeOK, Goto, sandbox, Writer
<1>2. BoxShape(t)
  BY DEF SandboxInv
<1>3. BoxShape(t)' /\ Prepared(t)'
  BY <1>1, <1>2, BoxShapeKept, NotWriting
<1>4. PatchShape(t)'
  BY <1>1, <1>2 DEF PatchShape, BoxShape, DifferentFiles, ChangedFiles
<1>5. \A o \in Task \ {t} :
        UNCHANGED <<patch[o], want[o], prev[o], box[o], base[o], before[o],
                    phase[o], todo[o]>>
  BY DEF Settle, Typed, TypeOK, Goto, sandbox, landing
<1> QED
  BY <1>3, <1>4, <1>5, SandboxStep

LEMMA ApplySandboxSandbox ==
  ASSUME Typed, SandboxInv, NEW t \in Task, patch[t] = {}, ApplySandbox(t)
  PROVE  SandboxInv'
<1> DEFINE files == {f \in ChangedFiles(t) : disk[f] # box[t][f]}
<1>1. /\ UNCHANGED <<base, box, patch, before>>
      /\ want'[t] = box[t] /\ prev'[t] = disk /\ todo'[t] = files
  BY DEF ApplySandbox, StartWriting, Typed, TypeOK, sandbox, proposal, Writer
<1>2. \A f \in files : disk[f] = base[t][f]
  BY DEF ApplySandbox, Conflict
<1>3. BoxShape(t) /\ PatchShape(t)
  BY DEF SandboxInv
<1>4. files \subseteq TaskFiles[t]
  BY <1>3 DEF BoxShape, ChangedFiles
<1>5. Prepared(t)'
  BY <1>1, <1>2, <1>4 DEF Prepared
<1>6. BoxShape(t)' /\ PatchShape(t)'
  BY <1>1, <1>3, BoxShapeKept, PatchShapeKept
<1>7. \A o \in Task \ {t} :
        UNCHANGED <<patch[o], want[o], prev[o], box[o], base[o], before[o],
                    phase[o], todo[o]>>
  BY DEF ApplySandbox, StartWriting, Typed, TypeOK, Goto, sandbox, proposal,
         Writer
<1> QED
  BY <1>5, <1>6, <1>7, SandboxStep

LEMMA GateStopsSandbox ==
  ASSUME Typed, SandboxInv, NEW t \in Task, GateStops(t) PROVE SandboxInv'
<1>1. /\ base'[t] = base[t] /\ box'[t] = box[t]
      /\ phase'[t] = "review" /\ patch'[t] = ChangedFiles(t)
  BY DEF GateStops, Typed, TypeOK, Goto, sandbox, Writer
<1>2. BoxShape(t)
  BY DEF SandboxInv
<1>3. BoxShape(t)' /\ Prepared(t)'
  BY <1>1, <1>2, BoxShapeKept, NotWriting
<1>4. PatchShape(t)'
  BY <1>1, <1>2 DEF PatchShape, BoxShape, ChangedFiles
<1>5. \A o \in Task \ {t} :
        UNCHANGED <<patch[o], want[o], prev[o], box[o], base[o], before[o],
                    phase[o], todo[o]>>
  BY DEF GateStops, Typed, TypeOK, Goto, sandbox, landing
<1> QED
  BY <1>3, <1>4, <1>5, SandboxStep

LEMMA ApplyPatchSandbox ==
  ASSUME Typed, SandboxInv, NEW t \in Task, ApplyPatch(t) PROVE SandboxInv'
<1>1. PICK files \in (SUBSET patch[t]) \ {{}} :
        /\ \A f \in files : Text(disk[f]) = before[t][f]
        /\ StartWriting(t,
             [box[t] EXCEPT ![Contracts] =
                Text(disk[Contracts]) \cup {<<t, round[t]>>}],
             files \cup {Contracts})
  BY DEF ApplyPatch
<1>2. /\ UNCHANGED <<base, box, patch, before>>
      /\ \A f \in File \ {Contracts} : want'[t][f] = box[t][f]
      /\ prev'[t] = disk /\ todo'[t] = files \cup {Contracts}
  BY <1>1 DEF ApplyPatch, StartWriting, Typed, TypeOK, Tree, sandbox,
              proposal, Writer
<1>3. patch[t] # {} /\ files \subseteq File
  BY DEF Typed, TypeOK
<1>4. Prepared(t)'
  BY <1>1, <1>2, <1>3 DEF Prepared
<1>5. BoxShape(t)' /\ PatchShape(t)'
  BY <1>2, BoxShapeKept, PatchShapeKept DEF SandboxInv
<1>6. \A o \in Task \ {t} :
        UNCHANGED <<patch[o], want[o], prev[o], box[o], base[o], before[o],
                    phase[o], todo[o]>>
  BY <1>1, <1>2 DEF ApplyPatch, StartWriting, Typed, TypeOK, Goto, Writer
<1> QED
  BY <1>4, <1>5, <1>6, SandboxStep

LEMMA RefuseSandbox ==
  ASSUME Typed, SandboxInv, NEW t \in Task, Refuse(t) PROVE SandboxInv'
<1>1. /\ base'[t] = NoFiles /\ box'[t] = NoFiles
      /\ phase'[t] = "refused" /\ patch'[t] = patch[t]
  BY DEF Refuse, Destroyed, Typed, TypeOK, Goto, proposal, Writer
<1>2. BoxShape(t)' /\ PatchShape(t)' /\ Prepared(t)'
  BY <1>1, NoBoxShape, PatchShapeKept, NotWriting DEF SandboxInv
<1>3. \A o \in Task \ {t} :
        UNCHANGED <<patch[o], want[o], prev[o], box[o], base[o], before[o],
                    phase[o], todo[o]>>
  BY DEF Refuse, Destroyed, Typed, TypeOK, Goto, proposal, Writer
<1> QED
  BY <1>2, <1>3, SandboxStep

LEMMA RolledBackSandbox ==
  ASSUME Typed, SandboxInv, NEW w \in Writer, RolledBack(w)
  PROVE  SandboxInv'
<1>1. CASE w \in Task
  <2>1. /\ base'[w] = NoFiles /\ box'[w] = NoFiles
        /\ phase'[w] = "refused" /\ patch'[w] = patch[w]
    BY <1>1 DEF RolledBack, Destroyed, Typed, TypeOK, Goto, proposal
  <2>2. BoxShape(w)' /\ PatchShape(w)' /\ Prepared(w)'
    BY <1>1, <2>1, NoBoxShape, PatchShapeKept, NotWriting DEF SandboxInv
  <2>3. \A o \in Task \ {w} :
          UNCHANGED <<patch[o], want[o], prev[o], box[o], base[o], before[o],
                      phase[o], todo[o]>>
    BY <1>1 DEF RolledBack, Destroyed, Typed, TypeOK, Goto, proposal, Writer
  <2> QED
    BY <1>1, <2>2, <2>3, SandboxStep
<1>2. CASE w \notin Task
  <2>1. \A t \in Task :
          UNCHANGED <<want[t], prev[t], todo[t], phase[t]>>
    BY <1>2 DEF RolledBack, Forget, Typed, TypeOK, Goto, Writer
  <2> QED
    BY <1>2, <2>1, SandboxFrame DEF RolledBack, sandbox
<1> QED
  BY <1>1, <1>2

LEMMA VerifySandbox ==
  ASSUME Typed, SandboxInv, NEW t \in Task, Verify(t) PROVE SandboxInv'
<1>1. \A o \in Task \ {t} :
        UNCHANGED <<patch[o], want[o], prev[o], box[o], base[o], before[o],
                    phase[o], todo[o]>>
  BY DEF Verify, Destroyed, Forget, Typed, TypeOK, Goto, sandbox, proposal,
         landing, Writer
<1>2. phase'[t] # "writing"
  BY DEF Verify, Typed, TypeOK, Goto
<1>3. patch'[t] \subseteq patch[t]
  BY DEF Verify, Typed, TypeOK, proposal
<1>4. PatchShape(t)' /\ Prepared(t)'
  BY <1>2, <1>3, PatchShapeKept, NotWriting DEF SandboxInv
<1>5. BoxShape(t)
  BY DEF SandboxInv
<1>6. CASE Destroyed(t)
  <2>1. base'[t] = NoFiles /\ box'[t] = NoFiles
    BY <1>6 DEF Destroyed, Typed, TypeOK
  <2> QED
    BY <1>1, <1>4, <2>1, NoBoxShape, SandboxStep
<1>7. ASSUME NEW S \in SUBSET TaskFiles[t], UNCHANGED base,
             round' = [round EXCEPT ![t] = @ + 1],
             box' = [box EXCEPT ![t] = Written(t, @, round'[t], S)]
      PROVE  SandboxInv'
  <2>1. round'[t] \in 0..MaxRounds /\ Contracts \notin S
    BY <1>7, VerifyTyped, LandingAssumption DEF Typed, TypeOK
  <2>2. /\ box[t] \in Tree /\ base'[t] = base[t]
        /\ box'[t] = Written(t, box[t], round'[t], S)
    BY <1>7 DEF Typed, TypeOK
  <2>3. \A f \in File :
          /\ f \notin S => box'[t][f] = box[t][f]
          /\ Text(box[t][f]) \subseteq Text(box'[t][f])
    <3> TAKE f \in File
    <3>1. /\ f \notin S => box'[t][f] = box[t][f]
          /\ Text(box'[t][f]) =
               Text(box[t][f])
                 \cup (IF f \in S THEN {<<t, round'[t]>>} ELSE {})
      BY <2>1, <2>2, WrittenShape
    <3> QED
      BY <3>1
  <2>4. BoxShape(t)'
    BY <1>5, <2>1, <2>2, <2>3, ContractsInFile DEF BoxShape
  <2> QED
    BY <1>1, <1>4, <2>4, SandboxStep
<1>8. CASE UNCHANGED sandbox
  <2>1. BoxShape(t)'
    BY <1>5, <1>8, BoxShapeKept DEF sandbox
  <2> QED
    BY <1>1, <1>4, <2>1, SandboxStep
<1> QED
  BY <1>6, <1>7, <1>8 DEF Verify

LEMMA RestartSandbox ==
  ASSUME Typed, SandboxInv, Restart PROVE SandboxInv'
<1> SUFFICES ASSUME NEW t \in Task
             PROVE  (BoxShape(t) /\ PatchShape(t) /\ Prepared(t))'
  BY DEF SandboxInv
<1>1. phase'[t] # "writing"
  BY DEF Restart, Typed, TypeOK, Busy, Writer
<1>2. \/ base'[t] = NoFiles /\ box'[t] = NoFiles
      \/ base'[t] = base[t] /\ box'[t] = box[t]
  BY DEF Restart
<1>3. BoxShape(t)'
  BY <1>2, NoBoxShape, BoxShapeKept DEF SandboxInv
<1> QED
  BY <1>1, <1>3, PatchShapeKept, NotWriting DEF Restart, SandboxInv, proposal

(* Nothing is proposed while a task is at work.                            *)
Unproposed ==
  \A t \in Task : phase[t] \in {"built", "snapped"} => patch[t] = {}

LEMMA NextUnproposed ==
  ASSUME Typed, Unproposed, [Next]_vars PROVE Unproposed'
<1> USE DEF Unproposed, Typed, TypeOK
<1>1. ASSUME NEW t \in Task, phase'[t] = phase[t], patch'[t] \subseteq patch[t]
      PROVE  phase'[t] \in {"built", "snapped"} => patch'[t] = {}
  BY <1>1
<1>2. ASSUME NEW f \in File, UserEdits(f) PROVE Unproposed'
  BY <1>2 DEF UserEdits, proposal
<1>3. CASE Commit
  BY <1>3, LandingAssumption DEF Commit, Goto, proposal
<1>4. ASSUME NEW t \in Task, Generate(t) PROVE Unproposed'
  BY <1>4 DEF Generate, Goto
<1>5. ASSUME NEW t \in Task, Settle(t) PROVE Unproposed'
  BY <1>5 DEF Settle, Goto, Writer
<1>6. ASSUME NEW t \in Task, ApplySandbox(t) PROVE Unproposed'
  BY <1>6 DEF ApplySandbox, StartWriting, Goto, proposal
<1>7. ASSUME NEW t \in Task, GateStops(t) PROVE Unproposed'
  BY <1>7 DEF GateStops, Goto, Writer
<1>8. ASSUME NEW t \in Task, ApplyPatch(t) PROVE Unproposed'
  BY <1>8 DEF ApplyPatch, StartWriting, Goto, proposal
<1>9. ASSUME NEW t \in Task, Refuse(t) PROVE Unproposed'
  BY <1>9 DEF Refuse, Goto, proposal
<1>10. ASSUME NEW t \in Task, Verify(t) PROVE Unproposed'
  BY <1>10 DEF Verify, Goto, proposal, Writer
<1>11. ASSUME NEW w \in Writer \cup {Committer}, CreateSnapshot(w)
       PROVE  Unproposed'
  BY <1>11, LandingAssumption
  DEF CreateSnapshot, CanSnapshot, AfterSnapshot, Goto, proposal
<1>12. ASSUME NEW i \in 1..Len(store), RestoreSnapshot(i) PROVE Unproposed'
  BY <1>12 DEF RestoreSnapshot, StartWriting, Goto, proposal
<1>13. ASSUME NEW w \in Writer, WriteFails(w) PROVE Unproposed'
  BY <1>13 DEF WriteFails, Goto, proposal
<1>14. ASSUME NEW w \in Writer, RolledBack(w) PROVE Unproposed'
  BY <1>14 DEF RolledBack, Goto, proposal, Writer
<1>15. ASSUME NEW w \in Writer, NEW f \in File, WriteFile(w, f)
       PROVE  Unproposed'
  BY <1>15 DEF WriteFile, Goto, proposal
<1>16. ASSUME NEW w \in Writer, NEW f \in File, RollBack(w, f)
       PROVE  Unproposed'
  BY <1>16 DEF RollBack, proposal
<1>17. CASE Restart
  BY <1>17 DEF Restart, proposal, Writer
<1>18. CASE UNCHANGED vars
  BY <1>18 DEF vars, proposal
<1> QED
  BY <1>2, <1>3, <1>4, <1>5, <1>6, <1>7, <1>8, <1>9, <1>10, <1>11, <1>12,
     <1>13, <1>14, <1>15, <1>16, <1>17, <1>18 DEF Next

LEMMA OtherStepsSandbox ==
  ASSUME Typed, SandboxInv,
         \/ UNCHANGED vars
         \/ Commit
         \/ \E f \in File : UserEdits(f)
         \/ \E w \in Writer \cup {Committer} : CreateSnapshot(w)
         \/ \E i \in 1..Len(store) : RestoreSnapshot(i)
         \/ \E w \in Writer : WriteFails(w)
         \/ \E w \in Writer, f \in File : WriteFile(w, f) \/ RollBack(w, f)
  PROVE  SandboxInv'
<1> DEFINE Still(t) == UNCHANGED <<phase[t], todo[t], want[t], prev[t]>>
<1>1. ASSUME UNCHANGED <<sandbox, proposal>>, \A t \in Task : Still(t)
      PROVE  SandboxInv'
  BY <1>1, SandboxFrame
<1>2. CASE UNCHANGED vars
  BY <1>1, <1>2 DEF vars, landing
<1>3. CASE Commit
  BY <1>1, <1>3, LandingAssumption DEF Commit, Goto, landing, Typed, TypeOK
<1>4. ASSUME NEW f \in File, UserEdits(f) PROVE SandboxInv'
  BY <1>1, <1>4 DEF UserEdits, landing
<1>5. ASSUME NEW w \in Writer \cup {Committer}, CreateSnapshot(w)
      PROVE  SandboxInv'
  <2>1. UNCHANGED <<sandbox, proposal>>
    BY <1>5 DEF CreateSnapshot
  <2>2. \A t \in Task : Still(t) \/ phase'[t] # "writing"
    BY <1>5, LandingAssumption
    DEF CreateSnapshot, AfterSnapshot, Goto, Forget, landing, Typed, TypeOK,
        Writer
  <2> QED
    BY <2>1, <2>2, SandboxFrame
<1>6. ASSUME NEW i \in 1..Len(store), RestoreSnapshot(i) PROVE SandboxInv'
  BY <1>1, <1>6, LandingAssumption
  DEF RestoreSnapshot, StartWriting, Goto, Typed, TypeOK, Writer
<1>7. ASSUME NEW w \in Writer, WriteFails(w) PROVE SandboxInv'
  <2>1. \A t \in Task : Still(t) \/ phase'[t] # "writing"
    BY <1>7 DEF WriteFails, Goto, landing, Typed, TypeOK
  <2> QED
    BY <1>7, <2>1, SandboxFrame DEF WriteFails
<1>8. ASSUME NEW w \in Writer, NEW f \in File, WriteFile(w, f)
      PROVE  SandboxInv'
  <2>1. \A t \in Task :
          \/ phase'[t] # "writing"
          \/ /\ phase[t] = "writing" /\ todo'[t] \subseteq todo[t]
             /\ UNCHANGED <<want[t], prev[t]>>
    BY <1>8 DEF WriteFile, Goto, Typed, TypeOK, Writer
  <2> QED
    BY <1>8, <2>1, SandboxFrame DEF WriteFile
<1>9. ASSUME NEW w \in Writer, NEW f \in File, RollBack(w, f)
      PROVE  SandboxInv'
  <2>1. \A t \in Task : Still(t) \/ phase'[t] # "writing"
    BY <1>9 DEF RollBack, Typed, TypeOK, Writer
  <2> QED
    BY <1>9, <2>1, SandboxFrame DEF RollBack
<1> QED
  BY <1>2, <1>3, <1>4, <1>5, <1>6, <1>7, <1>8, <1>9

LEMMA NextSandbox ==
  ASSUME Typed, SandboxInv, Unproposed, [Next]_vars PROVE SandboxInv'
<1>1. ASSUME NEW t \in Task, ApplySandbox(t) PROVE SandboxInv'
  BY <1>1, ApplySandboxSandbox DEF Unproposed, ApplySandbox
<1> QED
  BY <1>1, OtherStepsSandbox, GenerateSandbox, SettleSandbox,
     GateStopsSandbox, ApplyPatchSandbox, RefuseSandbox, VerifySandbox,
     RolledBackSandbox, RestartSandbox
  DEF Next

LEMMA SandboxSpec == Spec => [](Typed /\ Unproposed /\ SandboxInv)
<1>1. Init => Unproposed
  BY DEF Init, Unproposed, Writer
<1> QED
  BY <1>1, InitTyped, InitSandbox, NextTyped, NextUnproposed, NextSandbox,
     PTL DEF Spec

(* Only the writing of a file adds to what a task wrote.                   *)
LEMMA DoneByWriting ==
  ASSUME Typed, [Next]_vars, NEW t \in Task, NEW f \in done'[t] \ done[t]
  PROVE  f \in File /\ WriteFile(t, f)
<1> USE DEF Typed, TypeOK
<1>1. UNCHANGED vars => done'[t] \subseteq done[t]
  BY DEF vars, landing
<1>2. ASSUME NEW w \in Writer, Forget(w) PROVE done'[t] \subseteq done[t]
  BY <1>2 DEF Forget, Writer
<1>3. ASSUME NEW w \in Writer, NEW x, NEW S, StartWriting(w, x, S)
      PROVE  done'[t] \subseteq done[t]
  BY <1>3 DEF StartWriting, Writer
<1>4. ASSUME NEW o \in Task,
             \/ Generate(o) \/ Settle(o) \/ ApplySandbox(o) \/ GateStops(o)
             \/ ApplyPatch(o) \/ Refuse(o) \/ Verify(o)
      PROVE  done'[t] \subseteq done[t]
  BY <1>2, <1>3, <1>4
  DEF Generate, Settle, ApplySandbox, GateStops, ApplyPatch, Refuse, Verify,
      landing, Writer
<1>5. ASSUME NEW w \in Writer \cup {Committer}, CreateSnapshot(w)
      PROVE  done'[t] \subseteq done[t]
  BY <1>2, <1>5 DEF CreateSnapshot, landing, Writer
<1>6. ASSUME NEW i \in 1..Len(store), RestoreSnapshot(i)
      PROVE  done'[t] \subseteq done[t]
  BY <1>3, <1>6 DEF RestoreSnapshot, Writer
<1>7. ASSUME NEW w \in Writer, WriteFails(w) \/ RolledBack(w)
      PROVE  done'[t] \subseteq done[t]
  BY <1>2, <1>7 DEF WriteFails, RolledBack, landing
<1>8. ASSUME NEW w \in Writer, NEW g \in File, RollBack(w, g)
      PROVE  done'[t] \subseteq done[t]
  BY <1>8 DEF RollBack
<1>9. ASSUME NEW g \in File, Commit \/ UserEdits(g) \/ Restart
      PROVE  done'[t] \subseteq done[t]
  BY <1>9 DEF Commit, UserEdits, Restart, landing, Writer
<1>10. ASSUME NEW w \in Writer, NEW g \in File, WriteFile(w, g)
       PROVE  w = t /\ g = f
  BY <1>10 DEF WriteFile, Writer
<1>11. File # {}
  BY ContractsInFile
<1> QED
  BY <1>1, <1>4, <1>5, <1>6, <1>7, <1>8, <1>9, <1>10, <1>11 DEF Next

(* No landing, of whatever task, mode and interleaving, drops a change the *)
(* project had when the landing read it, nor brings back a removed file    *)
(* (apply_sandbox, make_patch_entries): every file still to be written     *)
(* holds what it replaces and more.                                        *)
THEOREM LandingsKeepEdits == Spec => EditsSurvive
<1>1. ASSUME Typed, SandboxInv, [Next]_vars, NEW t \in Task,
             NEW f \in done'[t] \ done[t], f # Contracts
      PROVE  Protected(t, f)
  <2>1. WriteFile(t, f) /\ f \in File
    BY <1>1, DoneByWriting
  <2>2. phase[t] = "writing" /\ f \in todo[t] /\ disk'[f] = want[t][f]
    BY <2>1, <1>1 DEF WriteFile, Typed, TypeOK, Tree
  <2>3. /\ Text(base[t][f]) \subseteq Text(box[t][f])
        /\ disk'[f] = box[t][f]
        /\ IF patch[t] = {} THEN prev[t][f] = base[t][f]
                            ELSE Text(prev[t][f]) = before[t][f]
    BY <1>1, <2>1, <2>2 DEF SandboxInv, BoxShape, Prepared
  <2> QED
    BY <2>3 DEF Protected
<1>2. Typed /\ SandboxInv /\ [Next]_vars =>
        [\A t \in Task : \A f \in done'[t] \ done[t] :
           f # Contracts => Protected(t, f)]_vars
  BY <1>1
<1> QED
  BY SandboxSpec, <1>2, PTL DEF Spec, EditsSurvive

-----------------------------------------------------------------------------
(* Where changes come from.                                                *)

(* A text holds changes of tasks that may write the file (the registry     *)
(* holds an entry for every task), of rounds that have begun.              *)
OwnText(f, c, r, a) ==
  /\ \A t \in Task, n \in 0..MaxRounds : <<t, n>> \in Text(c) =>
       n <= r[t] /\ f \in TaskFiles[t] \cup {Contracts}
  /\ \A n \in 0..MaxActs : <<User, n>> \in Text(c) => n <= a

Own(x, r, a) == \A f \in File : OwnText(f, x[f], r, a)

Authored ==
  /\ Own(disk, round, acts)
  /\ head # Absent => Own(head, round, acts)
  /\ \A t \in Task : Own(base[t], round, acts) /\ Own(box[t], round, acts)
  /\ \A w \in Writer : Own(want[w], round, acts) /\ Own(prev[w], round, acts)
  /\ \A i \in DOMAIN store : Own(store[i], round, acts)

LEMMA OwnGrows ==
  ASSUME NEW r \in [Task -> 0..MaxRounds], NEW q \in [Task -> 0..MaxRounds],
         NEW a \in 0..MaxActs, NEW b \in 0..MaxActs,
         \A t \in Task : r[t] <= q[t], a <= b,
         NEW x, Own(x, r, a)
  PROVE  Own(x, q, b)
<1> SUFFICES ASSUME NEW f \in File PROVE OwnText(f, x[f], q, b)
  BY DEF Own
<1>1. OwnText(f, x[f], r, a)
  BY DEF Own
<1> QED
  BY <1>1, LandingAssumption DEF OwnText

LEMMA OwnNoFiles == ASSUME NEW r, NEW a PROVE Own(NoFiles, r, a)
BY DEF Own, OwnText, NoFiles, Text

LEMMA OwnWritten ==
  ASSUME NEW t \in Task, NEW x \in Tree, NEW r \in [Task -> 0..MaxRounds],
         NEW a, Own(x, r, a), NEW S \in SUBSET TaskFiles[t]
  PROVE  Own(Written(t, x, r[t], S), r, a)
<1> SUFFICES ASSUME NEW f \in File
             PROVE  OwnText(f, Written(t, x, r[t], S)[f], r, a)
  BY DEF Own
<1>1. Text(Written(t, x, r[t], S)[f]) =
        Text(x[f]) \cup (IF f \in S THEN {<<t, r[t]>>} ELSE {})
  BY WrittenShape
<1>2. OwnText(f, x[f], r, a)
  BY DEF Own
<1> QED
  BY <1>1, <1>2, LandingAssumption DEF OwnText

LEMMA OwnSandbox ==
  ASSUME Authored PROVE Own(SandboxTree, round, acts)
BY DEF Authored, Own, OwnText, SandboxTree, Text

LEMMA InitAuthored == Init => Authored
<1> SUFFICES ASSUME Init PROVE Authored
  OBVIOUS
<1>1. Own(disk, round, acts)
  <2> SUFFICES ASSUME NEW f \in File PROVE OwnText(f, disk[f], round, acts)
    BY DEF Own
  <2>1. Text(disk[f]) \subseteq {<<User, 0>>} /\ acts = 0
    BY DEF Init, Text
  <2> QED
    BY <2>1, LandingAssumption DEF OwnText
<1>2. DOMAIN store = {}
  BY DEF Init
<1> QED
  BY <1>1, <1>2, OwnNoFiles DEF Init, Authored

(* What was there before is no newer after a step.                         *)
LEMMA OlderTrees ==
  ASSUME Typed, Authored, Typed',
         \A t \in Task : round[t] <= round'[t], acts <= acts'
  PROVE  /\ Own(disk, round', acts')
         /\ head # Absent => Own(head, round', acts')
         /\ \A t \in Task : Own(base[t], round', acts')
                            /\ Own(box[t], round', acts')
         /\ \A w \in Writer : Own(want[w], round', acts')
                              /\ Own(prev[w], round', acts')
         /\ \A i \in DOMAIN store : Own(store[i], round', acts')
<1>1. /\ round \in [Task -> 0..MaxRounds] /\ round' \in [Task -> 0..MaxRounds]
      /\ acts \in 0..MaxActs /\ acts' \in 0..MaxActs
  BY DEF Typed, TypeOK
<1> QED
  BY <1>1, OwnGrows DEF Authored

(* A step after which each tree is one that was there before.              *)
LEMMA OldTreesOnly ==
  ASSUME Typed, Authored, Typed',
         \A t \in Task : round[t] <= round'[t], acts <= acts',
         Own(disk', round', acts'),
         head' \in {head, disk},
         \A t \in Task : /\ base'[t] \in {base[t], NoFiles}
                         /\ box'[t] \in {box[t], NoFiles},
         \A w \in Writer :
           /\ \/ want'[w] \in {want[w], NoFiles}
              \/ w \in Task /\ want'[w] = box[w]
              \/ \E i \in DOMAIN store : want'[w] = store[i]
           /\ prev'[w] \in {prev[w], disk, NoFiles},
         \A i \in DOMAIN store' :
           store'[i] = disk \/ \E j \in DOMAIN store : store'[i] = store[j]
  PROVE  Authored'
BY OlderTrees, OwnNoFiles DEF Authored

LEMMA GenerateAuthored ==
  ASSUME Typed, Authored, Typed', NEW t \in Task, Generate(t)
  PROVE  Authored'
<1>1. /\ round' = [round EXCEPT ![t] = NextAttempt(t)]
      /\ round[t] <= round'[t] /\ round'[t] = NextAttempt(t)
  BY DEF Generate, Typed, TypeOK, NextAttempt
<1>2. /\ round \in [Task -> 0..MaxRounds] /\ round' \in [Task -> 0..MaxRounds]
      /\ acts \in 0..MaxActs
  BY DEF Typed, TypeOK
<1>3. \A o \in Task : round[o] <= round'[o]
  BY <1>1, <1>2
<1>4. acts' = acts
  BY DEF Generate
<1>5. Own(SandboxTree, round', acts')
  BY <1>2, <1>3, <1>4, OwnSandbox, OwnGrows
<1>6. Own(Written(t, SandboxTree, round'[t], TaskFiles[t]), round', acts')
  BY <1>2, <1>5, SandboxType, OwnWritten DEF Typed
<1>7. \A o \in Task :
        Own(base'[o], round', acts') /\ Own(box'[o], round', acts')
  <2>1. /\ base'[t] = SandboxTree
        /\ box'[t] = Written(t, SandboxTree, round'[t], TaskFiles[t])
        /\ \A o \in Task \ {t} : base'[o] = base[o] /\ box'[o] = box[o]
    BY <1>1 DEF Generate, Typed, TypeOK
  <2>2. acts <= acts'
    BY <1>2, <1>4
  <2> QED
    BY <1>3, <1>5, <1>6, <2>1, <2>2, OlderTrees
<1>8. \A w \in Writer : /\ want'[w] \in {want[w], NoFiles}
                        /\ prev'[w] \in {prev[w], NoFiles}
  BY DEF Generate, Forget, Typed, TypeOK
<1>9. UNCHANGED <<disk, head, store>> /\ acts <= acts'
  BY <1>2, <1>4 DEF Generate, tree
<1> QED
  BY <1>3, <1>7, <1>8, <1>9, OlderTrees, OwnNoFiles DEF Authored

LEMMA VerifyAuthored ==
  ASSUME Typed, Authored, Typed', NEW t \in Task, Verify(t)
  PROVE  Authored'
<1>1. /\ round \in [Task -> 0..MaxRounds] /\ round' \in [Task -> 0..MaxRounds]
      /\ acts \in 0..MaxActs /\ acts' = acts
  BY DEF Verify, Typed, TypeOK
<1>2. \A o \in Task : round[o] <= round'[o]
  BY <1>1 DEF Verify, sandbox
<1>3. \A w \in Writer : /\ want'[w] \in {want[w], NoFiles}
                        /\ prev'[w] \in {prev[w], NoFiles}
  BY DEF Verify, Forget, landing, Typed, TypeOK
<1>4. UNCHANGED <<disk, head, store>>
  BY DEF Verify, tree
<1>5. CASE Destroyed(t) \/ UNCHANGED sandbox
  <2>1. \A o \in Task : /\ base'[o] \in {base[o], NoFiles}
                        /\ box'[o] \in {box[o], NoFiles}
    BY <1>5 DEF Destroyed, sandbox, Typed, TypeOK
  <2> QED
    BY <1>1, <1>2, <1>3, <1>4, <2>1, OldTreesOnly, OlderTrees
<1>6. ASSUME NEW S \in SUBSET TaskFiles[t], UNCHANGED base,
             box' = [box EXCEPT ![t] = Written(t, @, round'[t], S)]
      PROVE  Authored'
  <2>1. box[t] \in Tree /\ Own(box[t], round', acts')
    BY <1>1, <1>2, OlderTrees DEF Typed, TypeOK
  <2>2. Own(Written(t, box[t], round'[t], S), round', acts')
    BY <1>1, <1>6, <2>1, OwnWritten
  <2>3. \A o \in Task : Own(box'[o], round', acts')
    BY <1>1, <1>2, <1>6, <2>2, OlderTrees DEF Typed, TypeOK
  <2> QED
    BY <1>1, <1>2, <1>3, <1>4, <1>6, <2>3, OlderTrees, OwnNoFiles DEF Authored
<1> QED
  BY <1>5, <1>6 DEF Verify

LEMMA UserEditText ==
  ASSUME Typed, Typed', NEW f \in File, UserEdits(f), NEW g \in File
  PROVE  Text(disk'[g]) \subseteq Text(disk[g]) \cup {<<User, acts'>>}
<1>1. acts' \in 0..MaxActs
  BY DEF Typed, TypeOK
<1>2. Text(disk[f]) \cup {<<User, acts'>>} \in SUBSET Change
  BY <1>1, TextType DEF Typed, TypeOK, Tree, Change
<1>3. \/ disk'[g] = disk[g]
      \/ disk'[g] = Absent
      \/ g = f /\ disk'[g] = Text(disk[f]) \cup {<<User, acts'>>}
  BY DEF UserEdits, Typed, TypeOK, Tree
<1>4. Text(Absent) = {}
  BY DEF Text
<1> QED
  BY <1>2, <1>3, <1>4, PresentText

LEMMA UserEditsAuthored ==
  ASSUME Typed, Authored, Typed', NEW f \in File, UserEdits(f)
  PROVE  Authored'
<1>1. acts \in 0..MaxActs /\ acts' = acts + 1 /\ acts' \in 0..MaxActs
  BY DEF UserEdits, Typed, TypeOK
<1>2. round' = round /\ round \in [Task -> 0..MaxRounds]
  BY DEF UserEdits, sandbox, Typed, TypeOK
<1>3. Own(disk, round', acts')
  BY <1>1, <1>2, OlderTrees
<1>4. Own(disk', round', acts')
  <2> SUFFICES ASSUME NEW g \in File
               PROVE  OwnText(g, disk'[g], round', acts')
    BY DEF Own
  <2>1. Text(disk'[g]) \subseteq Text(disk[g]) \cup {<<User, acts'>>}
    BY UserEditText
  <2>2. OwnText(g, disk[g], round', acts')
    BY <1>3 DEF Own
  <2> QED
    BY <1>1, <2>1, <2>2, LandingAssumption DEF OwnText
<1> QED
  BY <1>1, <1>2, <1>4, OldTreesOnly
  DEF UserEdits, sandbox, landing

LEMMA WritesAuthored ==
  ASSUME Typed, Authored, Typed', NEW w \in Writer, NEW f \in File,
         WriteFile(w, f) \/ RollBack(w, f)
  PROVE  Authored'
<1>1. /\ UNCHANGED <<head, box, base, round, want, prev, store, acts>>
      /\ \/ disk' = disk
         \/ disk' = [disk EXCEPT ![f] = want[w][f]]
         \/ disk' = [disk EXCEPT ![f] = prev[w][f]]
  BY DEF WriteFile, RollBack, sandbox
<1>2. Own(disk', round', acts')
  BY <1>1 DEF Authored, Own, Typed, TypeOK, Tree
<1> QED
  BY <1>1, <1>2 DEF Authored

LEMMA ApplyPatchAuthored ==
  ASSUME Typed, Authored, Typed', NEW t \in Task, ApplyPatch(t)
  PROVE  Authored'
<1> DEFINE texts == [box[t] EXCEPT ![Contracts] =
                       Text(disk[Contracts]) \cup {<<t, round[t]>>}]
<1>1. PICK files : StartWriting(t, texts, files)
  BY DEF ApplyPatch
<1>2. UNCHANGED <<disk, head, box, base, round, store, acts>>
  BY DEF ApplyPatch, tree, sandbox
<1>3. Own(texts, round, acts)
  <2> SUFFICES ASSUME NEW f \in File PROVE OwnText(f, texts[f], round, acts)
    BY DEF Own
  <2>1. OwnText(f, box[t][f], round, acts) /\ OwnText(f, disk[f], round, acts)
    BY DEF Authored, Own
  <2>2. Text(disk[Contracts]) \cup {<<t, round[t]>>} \in SUBSET Change
    BY TextType, ContractsInFile DEF Typed, TypeOK, Tree, Change
  <2>3. f # Contracts => texts[f] = box[t][f]
    BY DEF Typed, TypeOK, Tree
  <2>4. f = Contracts =>
          Text(texts[f]) = Text(disk[f]) \cup {<<t, round[t]>>}
    BY <2>2, PresentText DEF Typed, TypeOK, Tree
  <2>5. round[t] \in 0..MaxRounds
    BY DEF Typed, TypeOK
  <2> HIDE DEF texts
  <2>6. CASE f # Contracts
    BY <2>1, <2>3, <2>6
  <2>7. CASE f = Contracts
    BY <2>1, <2>4, <2>5, <2>7, LandingAssumption DEF OwnText
  <2> QED
    BY <2>6, <2>7
<1>4. \A w \in Writer :
        Own(want'[w], round, acts) /\ Own(prev'[w], round, acts)
  <2> HIDE DEF texts
  <2> QED
    BY <1>1, <1>3 DEF StartWriting, Authored, Typed, TypeOK, Writer
<1> QED
  BY <1>2, <1>4 DEF Authored

LEMMA CreateSnapshotAuthored ==
  ASSUME Typed, Authored, Typed', NEW w \in Writer \cup {Committer},
         CreateSnapshot(w)
  PROVE  Authored'
<1>1. acts <= acts' /\ round' = round
  BY DEF CreateSnapshot, sandbox, Typed, TypeOK
<1>2. \A i \in DOMAIN store' :
        store'[i] = disk \/ \E j \in DOMAIN store : store'[i] = store[j]
  BY NewestKeeps DEF CreateSnapshot, Typed, TypeOK
<1>3. \A v \in Writer : /\ want'[v] \in {want[v], NoFiles}
                        /\ prev'[v] \in {prev[v], NoFiles}
  BY DEF CreateSnapshot, Forget, landing, Typed, TypeOK
<1>4. UNCHANGED <<disk, head, box, base, round>>
  BY DEF CreateSnapshot, tree, sandbox
<1>5. Own(disk', round', acts') /\ \A t \in Task : round[t] <= round'[t]
  BY <1>1, <1>4, OlderTrees DEF Typed, TypeOK
<1> QED
  BY <1>1, <1>2, <1>3, <1>4, <1>5, OldTreesOnly

LEMMA OtherStepsAuthored ==
  ASSUME Typed, Authored, Typed',
         \/ UNCHANGED vars \/ Commit \/ Restart
         \/ \E t \in Task : \/ Settle(t) \/ ApplySandbox(t) \/ GateStops(t)
                            \/ Refuse(t)
         \/ \E i \in 1..Len(store) : RestoreSnapshot(i)
         \/ \E w \in Writer : WriteFails(w) \/ RolledBack(w)
  PROVE  Authored'
<1> DEFINE Texts(w) == /\ \/ want'[w] \in {want[w], NoFiles}
                          \/ w \in Task /\ want'[w] = box[w]
                          \/ \E i \in DOMAIN store : want'[w] = store[i]
                       /\ prev'[w] \in {prev[w], disk, NoFiles}
           Boxes(t) == /\ base'[t] \in {base[t], NoFiles}
                       /\ box'[t] \in {box[t], NoFiles}
<1>1. ASSUME UNCHANGED <<disk, round, store>>, acts <= acts',
             head' \in {head, disk},
             \A t \in Task : Boxes(t), \A w \in Writer : Texts(w)
      PROVE  Authored'
  <2>1. \A t \in Task : round[t] <= round'[t]
    BY <1>1 DEF Typed, TypeOK
  <2>2. Own(disk', round', acts')
    BY <1>1, <2>1, OlderTrees
  <2> QED
    BY <1>1, <2>1, <2>2, OldTreesOnly
<1>2. acts \in Nat
  BY DEF Typed, TypeOK
<1> USE DEF tree, sandbox, landing
<1>3. CASE UNCHANGED vars
  BY <1>1, <1>2, <1>3 DEF vars
<1>4. CASE Commit
  BY <1>1, <1>2, <1>4 DEF Commit
<1>5. CASE Restart
  BY <1>1, <1>2, <1>5 DEF Restart
<1>6. ASSUME NEW t \in Task, Settle(t) \/ GateStops(t) PROVE Authored'
  BY <1>1, <1>2, <1>6 DEF Settle, GateStops
<1>7. ASSUME NEW t \in Task, ApplySandbox(t) PROVE Authored'
  <2>1. \A w \in Writer : Texts(w)
    BY <1>7 DEF ApplySandbox, StartWriting, Typed, TypeOK
  <2>2. UNCHANGED <<disk, round, store, acts, head, box, base>>
    BY <1>7 DEF ApplySandbox
  <2> QED
    BY <1>1, <1>2, <2>1, <2>2
<1>8. ASSUME NEW t \in Task, Refuse(t) PROVE Authored'
  <2>1. \A w \in Writer : Texts(w)
    BY <1>8 DEF Refuse, Typed, TypeOK
  <2>2. \A o \in Task : Boxes(o)
    BY <1>8 DEF Refuse, Destroyed, Typed, TypeOK
  <2> QED
    BY <1>1, <1>2, <1>8, <2>1, <2>2 DEF Refuse
<1>9. ASSUME NEW i \in 1..Len(store), RestoreSnapshot(i) PROVE Authored'
  <2>1. \A w \in Writer : Texts(w)
    BY <1>9 DEF RestoreSnapshot, StartWriting, Typed, TypeOK
  <2>2. /\ UNCHANGED <<disk, round, store, head, box, base>>
        /\ acts <= acts'
    BY <1>2, <1>9 DEF RestoreSnapshot
  <2> QED
    BY <1>1, <2>1, <2>2
<1>10. ASSUME NEW w \in Writer, WriteFails(w) PROVE Authored'
  BY <1>1, <1>2, <1>10 DEF WriteFails
<1>11. ASSUME NEW w \in Writer, RolledBack(w) PROVE Authored'
  <2>1. \A v \in Writer : Texts(v)
    BY <1>11 DEF RolledBack, Forget, Typed, TypeOK
  <2>2. \A o \in Task : Boxes(o)
    BY <1>11 DEF RolledBack, Destroyed, Typed, TypeOK
  <2> QED
    BY <1>1, <1>2, <1>11, <2>1, <2>2 DEF RolledBack
<1> QED
  BY <1>3, <1>4, <1>5, <1>6, <1>7, <1>8, <1>9, <1>10, <1>11

LEMMA NextAuthored ==
  ASSUME Typed, Authored, [Next]_vars PROVE Authored'
<1>1. Typed'
  BY NextTyped
<1> QED
  BY <1>1, OtherStepsAuthored, GenerateAuthored, VerifyAuthored,
     UserEditsAuthored, WritesAuthored, ApplyPatchAuthored,
     CreateSnapshotAuthored
  DEF Next

-----------------------------------------------------------------------------
(* Where the change of the present round can be.                           *)

LEMMA AuthoredSpec ==
  Spec => [](Typed /\ Unproposed /\ SandboxInv /\ Authored)
BY SandboxSpec, InitAuthored, NextAuthored, PTL DEF Spec

Open(w) == todo[w] \cup done[w]

(* The change of this round of t to f is in no text that may come into the *)
(* project otherwise than by t itself.                                     *)
Secret(t, f) ==
  LET c == <<t, round[t]>> IN
  /\ head # Absent => c \notin Text(head[f])
  /\ \A i \in DOMAIN store : c \notin Text(store[i][f])
  /\ \A o \in Task \ {t} : f \in TaskFiles[o] \/ Mode[o] = "micro" =>
       c \notin Text(base[o][f]) \cup Text(box[o][f])
  /\ \A w \in Writer : Landing(w) /\ f \in Open(w) =>
       /\ c \notin Text(prev[w][f])
       /\ w # t => c \notin Text(want[w][f])

Unwritten(t, f) == <<t, round[t]>> \notin Text(disk[f])

(* The files of which the project must not have the change of this round,  *)
(* but for a landing that is at work on them.                              *)
Withheld(t) ==
  {f \in TaskFiles[t] :
     \/ phase[t] \in {"built", "snapped"}
     \/ phase[t] = "review" /\ f \in patch[t]
     \/ Landing(t) /\ f \in patch[t] \ Open(t)
     \/ phase[t] \in {"landed", "kept"} /\ f \in patch[t] \ done[t]
     \/ phase[t] = "refused" /\ t \notin torn /\ f \in todo[t]}

(* A landing has yet to write f, or has rolled it back.                    *)
Pending(t) ==
  {f \in TaskFiles[t] \cap todo[t] :
     phase[t] = "writing" \/ (phase[t] = "undoing" /\ t \notin torn)}

Guarded(t) ==
  Withheld(t) \cup {f \in TaskFiles[t] \cap Open(t) : Landing(t)}

Fresh(t, f) ==
  /\ f \in Guarded(t) => Secret(t, f)
  /\ f \in Withheld(t) \cup Pending(t) => Unwritten(t, f)

FreshInv == \A t \in Task, f \in File : Fresh(t, f)

LEMMA OwnFiles ==
  ASSUME NEW t \in Task, NEW f, f \in Guarded(t) \/ f \in Pending(t)
  PROVE  f \in TaskFiles[t] /\ f \in File /\ f # Contracts
BY LandingAssumption DEF Guarded, Withheld, Pending

LEMMA GuardedKept ==
  ASSUME NEW t, UNCHANGED <<patch[t], phase[t], todo[t], done[t]>>,
         t \in torn' <=> t \in torn
  PROVE  /\ Guarded(t)' = Guarded(t) /\ Withheld(t)' = Withheld(t)
         /\ Pending(t)' = Pending(t)
BY DEF Guarded, Withheld, Pending, Landing, Open

(* A text comes to where it may enter the project from only from such      *)
(* places, or from a project that does not have the change.                *)
LEMMA SecretKept ==
  ASSUME NEW t \in Task, NEW f \in File, Secret(t, f),
         round'[t] = round[t],
         head' # head => head' = disk /\ Unwritten(t, f),
         \A i \in DOMAIN store' :
           \/ store'[i] = disk /\ Unwritten(t, f)
           \/ \E j \in DOMAIN store : store'[i] = store[j],
         \A o \in Task \ {t} :
           \/ base'[o] \in {base[o], NoFiles} /\ box'[o] \in {box[o], NoFiles}
           \/ f \in TaskFiles[o] \/ Mode[o] = "micro" =>
                <<t, round[t]>> \notin Text(base'[o][f]) \cup Text(box'[o][f]),
         \A w \in Writer : Landing(w)' /\ f \in Open(w)' =>
           \/ /\ Landing(w) /\ f \in Open(w)
              /\ prev'[w] = prev[w] /\ want'[w] = want[w]
           \/ /\ <<t, round[t]>> \notin Text(prev'[w][f])
              /\ w # t => <<t, round[t]>> \notin Text(want'[w][f])
  PROVE  Secret(t, f)'
<1> DEFINE c == <<t, round[t]>>
<1>1. c \notin Text(NoFiles[f])
  BY DEF NoFiles, Text
<1>2. head' # Absent => c \notin Text(head'[f])
  BY DEF Secret, Unwritten
<1>3. \A i \in DOMAIN store' : c \notin Text(store'[i][f])
  BY DEF Secret, Unwritten
<1>4. \A o \in Task \ {t} : f \in TaskFiles[o] \/ Mode[o] = "micro" =>
        c \notin Text(base'[o][f]) \cup Text(box'[o][f])
  BY <1>1 DEF Secret
<1>5. \A w \in Writer : Landing(w)' /\ f \in Open(w)' =>
        /\ c \notin Text(prev'[w][f])
        /\ w # t => c \notin Text(want'[w][f])
  BY DEF Secret
<1> QED
  BY <1>2, <1>3, <1>4, <1>5 DEF Secret

(* While no landing writes, what is guarded is not in the project.         *)
LEMMA GuardedAtRest ==
  ASSUME NEW t \in Task, NEW f \in Guarded(t), Fresh(t, f), ~Landing(t)
  PROVE  Unwritten(t, f)
BY DEF Guarded, Fresh

(* The change of a round that has just begun is nowhere.                   *)
LEMMA NewRound ==
  ASSUME Typed, Authored, Typed', NEW t \in Task, round[t] < round'[t],
         UNCHANGED <<disk, head, store>>, ~Landing(t)',
         \A o \in Task \ {t} : UNCHANGED <<base[o], box[o]>>,
         \A w \in Writer \ {t} : UNCHANGED <<want[w], prev[w]>>,
         NEW f \in File
  PROVE  Fresh(t, f)'
<1> DEFINE n == round'[t]
<1>1. n \in 0..MaxRounds /\ round[t] \in 0..MaxRounds /\ MaxRounds \in Nat
  BY LandingAssumption DEF Typed, TypeOK
<1>2. ASSUME NEW x, Own(x, round, acts) PROVE <<t, n>> \notin Text(x[f])
  BY <1>1, <1>2 DEF Own, OwnText
<1>3. <<t, n>> \notin Text(disk'[f])
  BY <1>2 DEF Authored
<1>4. Secret(t, f)'
  BY <1>2 DEF Authored, Secret
<1> QED
  BY <1>3, <1>4 DEF Fresh, Unwritten

(* A step that leaves f as it is, and lets t keep no more from it.         *)
LEMMA FreshKept ==
  ASSUME NEW t \in Task, NEW f \in File, Fresh(t, f),
         round'[t] = round[t], disk'[f] = disk[f],
         f \in Guarded(t)' => f \in Guarded(t) /\ Secret(t, f)',
         f \in Withheld(t)' \cup Pending(t)' =>
           f \in Withheld(t) \cup Pending(t)
  PROVE  Fresh(t, f)'
BY DEF Fresh, Unwritten

(* A step that only ends what was going on, or carries it on.              *)
LEMMA FreshRecedes ==
  ASSUME FreshInv, UNCHANGED <<disk, round, head, store>>,
         \A t \in Task : /\ base'[t] \in {base[t], NoFiles}
                         /\ box'[t] \in {box[t], NoFiles}
                         /\ Guarded(t)' \subseteq Guarded(t)
                         /\ Withheld(t)' \cup Pending(t)'
                              \subseteq Withheld(t) \cup Pending(t),
         \A w \in Writer : Landing(w)' =>
           /\ Landing(w) /\ Open(w)' = Open(w)
           /\ prev'[w] = prev[w] /\ want'[w] = want[w]
  PROVE  FreshInv'
<1> SUFFICES ASSUME NEW t \in Task, NEW f \in File PROVE Fresh(t, f)'
  BY DEF FreshInv
<1>1. Fresh(t, f)
  BY DEF FreshInv
<1>2. ASSUME f \in Guarded(t)' PROVE Secret(t, f)'
  <2>1. Secret(t, f)
    BY <1>1, <1>2 DEF Fresh
  <2> QED
    BY <2>1, SecretKept
<1> QED
  BY <1>1, <1>2, FreshKept

LEMMA SettleFresh ==
  ASSUME Typed, FreshInv, NEW t \in Task, Settle(t) \/ GateStops(t)
  PROVE  FreshInv'
<1>1. UNCHANGED <<disk, head, round, box, base, store, landing>>
  BY DEF Settle, GateStops, tree, sandbox
<1>2. /\ phase[t] \in {"built", "snapped"} /\ phase'[t] = "review"
      /\ \A w \in Writer \ {t} : phase'[w] = phase[w]
      /\ \A o \in Task \ {t} : patch'[o] = patch[o]
  BY DEF Settle, GateStops, Goto, Typed, TypeOK, Writer
<1>3. \A o \in Task : /\ Guarded(o)' \subseteq Guarded(o)
                      /\ Withheld(o)' \cup Pending(o)'
                           \subseteq Withheld(o) \cup Pending(o)
  <2> TAKE o \in Task
  <2>1. CASE o # t
    BY <1>1, <1>2, <2>1, GuardedKept DEF landing, Writer
  <2>2. CASE o = t
    BY <1>2, <2>2 DEF Guarded, Withheld, Pending, Landing
  <2> QED
    BY <2>1, <2>2
<1>4. \A w \in Writer : Landing(w)' => Landing(w)
  BY <1>2 DEF Landing
<1> QED
  BY <1>1, <1>3, <1>4, FreshRecedes DEF landing, Open

LEMMA RefuseFresh ==
  ASSUME Typed, Unproposed, FreshInv, NEW t \in Task, Refuse(t)
  PROVE  FreshInv'
<1>1. UNCHANGED <<disk, head, round, store, torn, patch, want>>
  BY DEF Refuse, tree, proposal
<1>2. /\ phase'[t] = "refused"
      /\ \A w \in Writer \ {t} :
           UNCHANGED <<phase[w], todo[w], done[w], prev[w]>>
      /\ \/ phase[t] = "snapped"
         \/ phase[t] = "review" /\ todo'[t] = patch[t]
  BY DEF Refuse, Goto, Typed, TypeOK, Writer
<1>3. \A o \in Task : /\ base'[o] \in {base[o], NoFiles}
                      /\ box'[o] \in {box[o], NoFiles}
  BY DEF Refuse, Destroyed, Typed, TypeOK
<1>4. \A o \in Task : /\ Guarded(o)' \subseteq Guarded(o)
                      /\ Withheld(o)' \cup Pending(o)'
                           \subseteq Withheld(o) \cup Pending(o)
  <2> TAKE o \in Task
  <2>1. CASE o # t
    BY <1>1, <1>2, <2>1, GuardedKept DEF Writer
  <2>2. CASE o = t
    BY <1>1, <1>2, <2>2 DEF Guarded, Withheld, Pending, Landing
  <2> QED
    BY <2>1, <2>2
<1>5. \A w \in Writer : Landing(w)' =>
        /\ Landing(w) /\ Open(w)' = Open(w)
        /\ prev'[w] = prev[w] /\ want'[w] = want[w]
  BY <1>1, <1>2 DEF Landing, Open
<1> QED
  BY <1>1, <1>3, <1>4, <1>5, FreshRecedes

LEMMA WriteFailsFresh ==
  ASSUME Typed, FreshInv, NEW w \in Writer, WriteFails(w) PROVE FreshInv'
<1>1. UNCHANGED <<disk, head, round, box, base, store, patch, landing>>
  BY DEF WriteFails, tree, sandbox, proposal
<1>2. /\ phase[w] = "writing" /\ phase'[w] = "undoing"
      /\ \A v \in Writer \ {w} : phase'[v] = phase[v]
  BY DEF WriteFails, Goto, Typed, TypeOK, Writer
<1>3. \A t \in Task : /\ Guarded(t)' \subseteq Guarded(t)
                      /\ Withheld(t)' \cup Pending(t)'
                           \subseteq Withheld(t) \cup Pending(t)
  <2> TAKE t \in Task
  <2>1. CASE t # w
    BY <1>1, <1>2, <2>1, GuardedKept DEF landing, Writer
  <2>2. CASE t = w
    BY <1>1, <1>2, <2>2
    DEF Guarded, Withheld, Pending, Landing, Open, landing
  <2> QED
    BY <2>1, <2>2
<1>4. \A v \in Writer : Landing(v)' => Landing(v)
  BY <1>2 DEF Landing
<1> QED
  BY <1>1, <1>3, <1>4, FreshRecedes DEF landing, Open

LEMMA RolledBackFresh ==
  ASSUME Typed, FreshInv, NEW w \in Writer, RolledBack(w) PROVE FreshInv'
<1>1. UNCHANGED <<disk, head, round, store, torn, patch>>
  BY DEF RolledBack, tree, proposal
<1>2. /\ phase[w] = "undoing" /\ done[w] = {}
      /\ phase'[w] \in {"refused", "idle"}
      /\ w \in Task => phase'[w] = "refused" /\ todo' = todo
      /\ \A v \in Writer \ {w} :
           UNCHANGED <<phase[v], todo[v], done[v], prev[v], want[v]>>
  BY DEF RolledBack, Goto, Forget, Typed, TypeOK, Writer
<1>3. \A o \in Task : /\ base'[o] \in {base[o], NoFiles}
                      /\ box'[o] \in {box[o], NoFiles}
  BY DEF RolledBack, Destroyed, Typed, TypeOK
<1>4. \A t \in Task : /\ Guarded(t)' \subseteq Guarded(t)
                      /\ Withheld(t)' \cup Pending(t)'
                           \subseteq Withheld(t) \cup Pending(t)
  <2> TAKE t \in Task
  <2>1. CASE t # w
    BY <1>1, <1>2, <2>1, GuardedKept DEF Writer
  <2>2. CASE t = w
    BY <1>1, <1>2, <2>2 DEF Guarded, Withheld, Pending, Landing, Open
  <2> QED
    BY <2>1, <2>2
<1>5. \A v \in Writer : Landing(v)' =>
        /\ Landing(v) /\ Open(v)' = Open(v)
        /\ prev'[v] = prev[v] /\ want'[v] = want[v]
  BY <1>2 DEF Landing, Open
<1> QED
  BY <1>1, <1>3, <1>4, <1>5, FreshRecedes

LEMMA RestartFresh == ASSUME Typed, FreshInv, Restart PROVE FreshInv'
<1>1. UNCHANGED <<disk, head, round, store, patch>>
  BY DEF Restart, tree, sandbox, proposal
<1>2. \A w \in Writer :
        /\ ~Landing(w)' /\ todo'[w] = {} /\ done'[w] = {}
        /\ phase'[w] # "idle" => phase'[w] = phase[w]
        /\ phase'[w] \notin {"built", "snapped", "landed", "kept"}
  BY DEF Restart, Busy, Landing, Typed, TypeOK, Writer
<1>3. \A t \in Task : /\ base'[t] \in {base[t], NoFiles}
                      /\ box'[t] \in {box[t], NoFiles}
  BY DEF Restart
<1>4. \A t \in Task : /\ Guarded(t)' \subseteq Guarded(t)
                      /\ Withheld(t)' \cup Pending(t)'
                           \subseteq Withheld(t) \cup Pending(t)
  BY <1>1, <1>2 DEF Guarded, Withheld, Pending, Landing, Open, Writer
<1> QED
  BY <1>1, <1>2, <1>3, <1>4, FreshRecedes

LEMMA GenerateFresh ==
  ASSUME Calm, Typed, Authored, FreshInv, Typed', NEW o \in Task, Generate(o)
  PROVE  FreshInv'
<1>1. /\ UNCHANGED <<disk, head, store>>
      /\ round' = [round EXCEPT ![o] = NextAttempt(o)]
      /\ round[o] < round'[o] /\ phase'[o] = "built"
      /\ base'[o] = SandboxTree
      /\ box'[o] = Written(o, SandboxTree, round'[o], TaskFiles[o])
      /\ torn' = torn \ {o}
  BY DEF Generate, Goto, NextAttempt, Typed, TypeOK, tree, Writer
<1>2. \A t \in Task \ {o} :
        UNCHANGED <<base[t], box[t], patch[t], round[t]>>
  BY DEF Generate, Typed, TypeOK
<1>3. \A w \in Writer \ {o} :
        UNCHANGED <<want[w], prev[w], phase[w], todo[w], done[w]>>
  BY DEF Generate, Forget, Goto, Typed, TypeOK, Writer
<1> SUFFICES ASSUME NEW t \in Task, NEW f \in File PROVE Fresh(t, f)'
  BY DEF FreshInv
<1>4. CASE t = o
  BY <1>1, <1>2, <1>3, <1>4, NewRound DEF Landing
<1>5. CASE t # o
  <2>1. /\ Guarded(t)' = Guarded(t) /\ Withheld(t)' = Withheld(t)
        /\ Pending(t)' = Pending(t) /\ Fresh(t, f)
    BY <1>1, <1>2, <1>3, <1>5, GuardedKept DEF FreshInv, Writer
  <2>2. ASSUME f \in Guarded(t), f \in TaskFiles[o] \/ Mode[o] = "micro"
        PROVE  <<t, round[t]>> \notin Text(base'[o][f]) \cup Text(box'[o][f])
    <3>1. ~Landing(t)
      BY <1>5, <2>2, OwnFiles DEF Generate, LocksFree, Landing, Writer
    <3>2. Unwritten(t, f) /\ Secret(t, f)
      BY <2>1, <2>2, <3>1, GuardedAtRest DEF Fresh
    <3>3. <<t, round[t]>> \notin Text(SandboxTree[f])
      BY <3>2 DEF Unwritten, Secret, SandboxTree, Text
    <3>4. Text(box'[o][f]) \subseteq
            Text(SandboxTree[f]) \cup {<<o, round'[o]>>}
      BY <1>1, WrittenShape, SandboxType DEF Typed, TypeOK
    <3> QED
      BY <1>1, <1>5, <3>3, <3>4
  <2>3. \A w \in Writer : Landing(w)' =>
          /\ Landing(w) /\ Open(w)' = Open(w)
          /\ prev'[w] = prev[w] /\ want'[w] = want[w]
    BY <1>1, <1>3 DEF Landing, Open
  <2>4. f \in Guarded(t) => Secret(t, f)'
    BY <1>1, <1>2, <1>5, <2>1, <2>2, <2>3, SecretKept DEF Fresh
  <2> QED
    BY <1>1, <1>2, <1>5, <2>1, <2>4, FreshKept
<1> QED
  BY <1>4, <1>5

LEMMA VerifyFresh ==
  ASSUME Typed, Authored, FreshInv, Typed', NEW o \in Task, Verify(o)
  PROVE  FreshInv'
<1>1. /\ UNCHANGED <<disk, head, store, torn>>
      /\ ~Landing(o) /\ phase'[o] \in {"verified", "failed", "built", "review"}
      /\ \A t \in Task \ {o} : UNCHANGED <<patch[t], round[t]>>
      /\ \A w \in Writer \ {o} :
           UNCHANGED <<want[w], prev[w], phase[w], todo[w], done[w]>>
  BY DEF Verify, Forget, Goto, Landing, Typed, TypeOK, tree, landing, sandbox,
         proposal, Writer
<1>2. \A t \in Task \ {o} :
        /\ Guarded(t)' = Guarded(t) /\ Withheld(t)' = Withheld(t)
        /\ Pending(t)' = Pending(t)
  BY <1>1, GuardedKept DEF Writer
<1>3. \A w \in Writer : Landing(w)' =>
        /\ Landing(w) /\ Open(w)' = Open(w)
        /\ prev'[w] = prev[w] /\ want'[w] = want[w]
  BY <1>1 DEF Landing, Open
<1>4. ASSUME phase'[o] # "built" PROVE FreshInv'
  <2>1. \A t \in Task : /\ base'[t] \in {base[t], NoFiles}
                        /\ box'[t] \in {box[t], NoFiles}
    BY <1>4 DEF Verify, Destroyed, Goto, Typed, TypeOK, sandbox, Writer
  <2>2. round' = round
    BY <1>4 DEF Verify, Goto, Typed, TypeOK, sandbox, Writer
  <2>3. /\ Guarded(o)' \subseteq Guarded(o)
        /\ Withheld(o)' \cup Pending(o)' \subseteq Withheld(o) \cup Pending(o)
    <3>1. CASE phase'[o] = "review"
      <4>1. phase[o] = "kept" /\ patch'[o] = patch[o] \ done[o]
        BY <3>1 DEF Verify, Goto, Typed, TypeOK, Writer
      <4> QED
        BY <3>1, <4>1 DEF Guarded, Withheld, Pending, Landing
    <3>2. CASE phase'[o] \in {"verified", "failed"}
      BY <3>2 DEF Guarded, Withheld, Pending, Landing
    <3> QED
      BY <1>1, <1>4, <3>1, <3>2
  <2> QED
    BY <1>1, <1>2, <1>3, <2>1, <2>2, <2>3, FreshRecedes
<1>5. ASSUME phase'[o] = "built" PROVE FreshInv'
  <2>1. PICK S \in SUBSET TaskFiles[o] :
          /\ round' = [round EXCEPT ![o] = @ + 1]
          /\ box' = [box EXCEPT ![o] = Written(o, @, round'[o], S)]
          /\ UNCHANGED <<base, proposal, landing>>
    BY <1>5 DEF Verify, Goto, Typed, TypeOK, Writer
  <2>2. /\ round[o] < round'[o]
        /\ box'[o] = Written(o, box[o], round'[o], S)
        /\ \A t \in Task \ {o} : box'[t] = box[t]
    BY <2>1 DEF Typed, TypeOK
  <2> SUFFICES ASSUME NEW t \in Task, NEW f \in File PROVE Fresh(t, f)'
    BY DEF FreshInv
  <2>3. CASE t = o
    BY <1>1, <1>5, <2>1, <2>2, <2>3, NewRound DEF Landing
  <2>4. CASE t # o
    <3>1. Fresh(t, f) /\ round'[t] = round[t]
      BY <1>1, <2>4 DEF FreshInv
    <3>2. ASSUME Secret(t, f), f \in TaskFiles[o] \/ Mode[o] = "micro"
          PROVE  <<t, round[t]>> \notin Text(base'[o][f]) \cup Text(box'[o][f])
      <4>1. Text(box'[o][f]) \subseteq Text(box[o][f]) \cup {<<o, round'[o]>>}
        BY <2>2, WrittenShape DEF Typed, TypeOK
      <4> QED
        BY <2>1, <2>4, <3>2, <4>1 DEF Secret
    <3>3. f \in Guarded(t) => Secret(t, f)'
      BY <1>1, <1>3, <2>1, <2>2, <3>1, <3>2, SecretKept DEF Fresh
    <3> QED
      BY <1>1, <1>2, <2>4, <3>1, <3>3, FreshKept
  <2> QED
    BY <2>3, <2>4
<1> QED
  BY <1>4, <1>5

LEMMA UserEditsFresh ==
  ASSUME Typed, FreshInv, Typed', NEW g \in File, UserEdits(g)
  PROVE  FreshInv'
<1>1. UNCHANGED <<head, phase, round, box, base, patch, want, prev, todo, done,
                  torn, store>>
  BY DEF UserEdits, sandbox, proposal, landing
<1> SUFFICES ASSUME NEW t \in Task, NEW f \in File PROVE Fresh(t, f)'
  BY DEF FreshInv
<1>2. /\ Guarded(t)' = Guarded(t) /\ Withheld(t)' = Withheld(t)
      /\ Pending(t)' = Pending(t) /\ Fresh(t, f)
  BY <1>1, GuardedKept DEF FreshInv
<1>3. Secret(t, f) => Secret(t, f)'
  BY <1>1 DEF Secret, Landing, Open
<1>4. Unwritten(t, f) => Unwritten(t, f)'
  <2>1. Text(disk'[f]) \subseteq Text(disk[f]) \cup {<<User, acts'>>}
    BY UserEditText
  <2>2. User # t
    BY LandingAssumption
  <2> QED
    BY <1>1, <2>1, <2>2 DEF Unwritten
<1> QED
  BY <1>2, <1>3, <1>4 DEF Fresh

LEMMA CommitFresh ==
  ASSUME Quiet, Typed, FreshInv, Commit PROVE FreshInv'
<1>1. /\ UNCHANGED <<disk, round, box, base, patch, want, prev, todo, done,
                     torn, store>>
      /\ head' = disk
  BY DEF Commit, sandbox, proposal, landing
<1>2. \A w \in Writer : phase'[w] = phase[w] /\ ~Landing(w)
  BY LandingAssumption DEF Commit, Goto, Typed, TypeOK, Writer, Restorer,
                           Committer
<1> SUFFICES ASSUME NEW t \in Task, NEW f \in File PROVE Fresh(t, f)'
  BY DEF FreshInv
<1>3. /\ Guarded(t)' = Guarded(t) /\ Withheld(t)' = Withheld(t)
      /\ Pending(t)' = Pending(t) /\ Fresh(t, f)
  BY <1>1, <1>2, GuardedKept DEF FreshInv, Writer
<1>4. \A w \in Writer : ~Landing(w)'
  BY <1>2 DEF Landing
<1>5. f \in Guarded(t) => Secret(t, f)'
  BY <1>1, <1>2, <1>3, <1>4, GuardedAtRest, SecretKept DEF Fresh, Writer
<1> QED
  BY <1>1, <1>3, <1>5, FreshKept

(* A landing begins with texts that have no change of another round in     *)
(* question, of files that do not have it either.                          *)
LEMMA FreshStarts ==
  ASSUME Typed, FreshInv, NEW w \in Writer, NEW texts,
         NEW files \in SUBSET File, StartWriting(w, texts, files),
         UNCHANGED <<tree, sandbox, proposal, torn, store>>,
         w \in Task =>
           \/ phase[w] = "snapped"
           \/ phase[w] = "review" /\ files \subseteq patch[w] \cup {Contracts},
         \A t \in Task : \A f \in files \cap Guarded(t) :
           /\ <<t, round[t]>> \notin Text(disk[f])
           /\ t # w => <<t, round[t]>> \notin Text(texts[f])
  PROVE  FreshInv'
<1>1. UNCHANGED <<disk, head, round, box, base, store, torn, patch>>
  BY DEF tree, sandbox, proposal
<1>2. /\ phase'[w] \in {"writing", "landed"}
      /\ todo'[w] = files /\ done'[w] = {}
      /\ want'[w] = texts /\ prev'[w] = disk
      /\ \A v \in Writer \ {w} :
           UNCHANGED <<phase[v], todo[v], done[v], prev[v], want[v]>>
  BY DEF StartWriting, Goto, Typed, TypeOK, Writer
<1> SUFFICES ASSUME NEW t \in Task, NEW f \in File PROVE Fresh(t, f)'
  BY DEF FreshInv
<1>3. /\ Guarded(t)' \subseteq Guarded(t)
      /\ Withheld(t)' \cup Pending(t)' \subseteq Withheld(t) \cup Pending(t)
  <2>1. CASE t # w
    BY <1>1, <1>2, <2>1, GuardedKept DEF Writer
  <2>2. CASE t = w
    <3>1. \A g \in TaskFiles[t] : g # Contracts
      BY LandingAssumption
    <3> QED
      BY <1>1, <1>2, <2>2, <3>1
      DEF Guarded, Withheld, Pending, Landing, Open
  <2> QED
    BY <2>1, <2>2
<1>4. ASSUME f \in Guarded(t), NEW v \in Writer, Landing(v)', f \in Open(v)'
      PROVE  \/ /\ Landing(v) /\ f \in Open(v)
                /\ prev'[v] = prev[v] /\ want'[v] = want[v]
             \/ /\ <<t, round[t]>> \notin Text(prev'[v][f])
                /\ v # t => <<t, round[t]>> \notin Text(want'[v][f])
  BY <1>1, <1>2, <1>4 DEF Landing, Open
<1>5. Fresh(t, f) /\ (f \in Guarded(t) => Secret(t, f)')
  BY <1>1, <1>4, SecretKept DEF FreshInv, Fresh
<1> QED
  BY <1>1, <1>3, <1>5, FreshKept

LEMMA ApplySandboxFresh ==
  ASSUME Typed, SandboxInv, FreshInv, NEW o \in Task, ApplySandbox(o)
  PROVE  FreshInv'
<1> DEFINE files == {f \in ChangedFiles(o) : disk[f] # box[o][f]}
<1>1. \A f \in files : f \in TaskFiles[o] /\ disk[f] = base[o][f]
  BY DEF ApplySandbox, Conflict, ChangedFiles, SandboxInv, BoxShape
<1>2. ASSUME NEW t \in Task, NEW f \in files \cap Guarded(t)
      PROVE  /\ <<t, round[t]>> \notin Text(disk[f])
             /\ t # o => <<t, round[t]>> \notin Text(box[o][f])
  <2>1. f \in File /\ Fresh(t, f) /\ Secret(t, f)
    BY <1>2, OwnFiles DEF FreshInv, Fresh
  <2>2. CASE t # o
    BY <1>1, <1>2, <2>1, <2>2 DEF Secret
  <2>3. CASE t = o
    <3>1. ~Landing(t)
      BY <2>3 DEF ApplySandbox, Landing
    <3> QED
      BY <1>2, <2>1, <2>3, <3>1, GuardedAtRest DEF Unwritten
  <2> QED
    BY <2>2, <2>3
<1>3. files \in SUBSET File
  BY DEF ChangedFiles
<1> HIDE DEF files
<1>4. /\ StartWriting(o, box[o], files) /\ phase[o] = "snapped"
      /\ UNCHANGED <<tree, sandbox, proposal, torn, store>>
  BY DEF ApplySandbox, files
<1> QED
  BY <1>2, <1>3, <1>4, FreshStarts DEF Writer

LEMMA ApplyPatchFresh ==
  ASSUME Quiet, Typed, SandboxInv, FreshInv, NEW o \in Task, ApplyPatch(o)
  PROVE  FreshInv'
<1> DEFINE texts == [box[o] EXCEPT ![Contracts] =
                       Text(disk[Contracts]) \cup {<<o, round[o]>>}]
<1>1. PICK files \in (SUBSET patch[o]) \ {{}} :
        StartWriting(o, texts, files \cup {Contracts})
  BY DEF ApplyPatch
<1>2. ASSUME NEW t \in Task, NEW f \in (files \cup {Contracts}) \cap Guarded(t)
      PROVE  /\ <<t, round[t]>> \notin Text(disk[f])
             /\ t # o => <<t, round[t]>> \notin Text(texts[f])
  <2>1. f \in File /\ f # Contracts /\ Fresh(t, f) /\ Secret(t, f)
    BY <1>2, OwnFiles DEF FreshInv, Fresh
  <2>2. ~Landing(t)
    BY DEF ApplyPatch, Busy, Landing, Writer
  <2>3. texts[f] = box[o][f]
    BY <2>1 DEF Typed, TypeOK, Tree
  <2>4. f \in TaskFiles[o] \/ Mode[o] = "micro"
    BY <1>2, <2>1 DEF SandboxInv, PatchShape
  <2> QED
    BY <1>2, <2>1, <2>2, <2>3, <2>4, GuardedAtRest DEF Unwritten, Secret
<1>3. files \cup {Contracts} \in SUBSET File
  BY ContractsInFile DEF Typed, TypeOK
<1> HIDE DEF texts
<1>4. /\ phase[o] = "review" /\ files \subseteq patch[o]
      /\ UNCHANGED <<tree, sandbox, proposal, torn, store>>
  BY DEF ApplyPatch
<1> QED
  BY <1>1, <1>2, <1>3, <1>4, FreshStarts DEF Writer

LEMMA RestoreSnapshotFresh ==
  ASSUME Quiet, Typed, FreshInv, NEW i \in 1..Len(store), RestoreSnapshot(i)
  PROVE  FreshInv'
<1> DEFINE files == {f \in File : store[i][f] # Absent}
<1>1. ASSUME NEW t \in Task, NEW f \in files \cap Guarded(t)
      PROVE  /\ <<t, round[t]>> \notin Text(disk[f])
             /\ <<t, round[t]>> \notin Text(store[i][f])
  <2>1. Fresh(t, f) /\ Secret(t, f)
    BY <1>1 DEF FreshInv, Fresh
  <2>2. ~Landing(t)
    BY DEF RestoreSnapshot, Busy, Landing, Writer
  <2>3. i \in DOMAIN store
    BY DEF Typed, TypeOK
  <2> QED
    BY <1>1, <2>1, <2>2, <2>3, GuardedAtRest DEF Unwritten, Secret
<1>2. /\ StartWriting(Restorer, store[i], files)
      /\ UNCHANGED <<tree, sandbox, proposal, torn, store>>
  BY DEF RestoreSnapshot
<1>3. Restorer \in Writer /\ Restorer \notin Task
  BY LandingAssumption DEF Writer
<1>4. files \in SUBSET File
  OBVIOUS
<1> HIDE DEF files
<1> QED
  BY <1>1, <1>2, <1>3, <1>4, FreshStarts

LEMMA CreateSnapshotFresh ==
  ASSUME Quiet, Typed, Unproposed, FreshInv, NEW w \in Writer \cup {Committer},
         CreateSnapshot(w)
  PROVE  FreshInv'
<1>1. UNCHANGED <<disk, head, round, box, base, patch, torn>>
  BY DEF CreateSnapshot, tree, sandbox, proposal, landing
<1>2. \A i \in DOMAIN store' :
        store'[i] = disk \/ \E j \in DOMAIN store : store'[i] = store[j]
  BY NewestKeeps DEF CreateSnapshot, Typed, TypeOK
<1>3. \A t \in Task : UNCHANGED <<todo[t], done[t]>>
  BY LandingAssumption
  DEF CreateSnapshot, Forget, landing, Typed, TypeOK, Writer
<1>4. \A t \in Task :
        \/ phase'[t] = phase[t]
        \/ phase[t] = "built" /\ phase'[t] = "snapped"
        \/ phase[t] = "landed" /\ phase'[t] = "kept"
        \/ phase[t] = "refused" /\ phase'[t] = "failed"
  BY LandingAssumption
  DEF CreateSnapshot, CanSnapshot, AfterSnapshot, Goto, Typed, TypeOK, Writer
<1>5. \A v \in Writer : ~Landing(v) /\ ~Landing(v)'
  BY LandingAssumption
  DEF CreateSnapshot, AfterSnapshot, Goto, Landing, Typed, TypeOK, Writer
<1> SUFFICES ASSUME NEW t \in Task, NEW f \in File PROVE Fresh(t, f)'
  BY DEF FreshInv
<1>6. /\ Guarded(t)' \subseteq Guarded(t)
      /\ Withheld(t)' \cup Pending(t)' \subseteq Withheld(t) \cup Pending(t)
  BY <1>1, <1>3, <1>4 DEF Guarded, Withheld, Pending, Landing, Open
<1>7. Fresh(t, f)
  BY DEF FreshInv
<1>8. f \in Guarded(t) => Secret(t, f)'
  BY <1>1, <1>2, <1>5, <1>7, GuardedAtRest, SecretKept DEF Fresh, Writer
<1> QED
  BY <1>1, <1>6, <1>7, <1>8, FreshKept

(* Writing a file, or putting it back: the text that comes to the project  *)
(* from another landing does not have the change, and a file that is put   *)
(* back did not have it either.                                            *)
LEMMA WriteFileFresh ==
  ASSUME Typed, FreshInv, NEW w \in Writer, NEW g \in File, WriteFile(w, g)
  PROVE  FreshInv'
<1>1. UNCHANGED <<head, round, box, base, store, torn, patch, want, prev>>
  BY DEF WriteFile, sandbox, proposal
<1>2. /\ phase[w] = "writing" /\ g \in todo[w]
      /\ phase'[w] = IF todo[w] = {g} THEN "landed" ELSE "writing"
      /\ todo'[w] = todo[w] \ {g} /\ done'[w] = done[w] \cup {g}
      /\ disk' = [disk EXCEPT ![g] = want[w][g]]
      /\ \A v \in Writer \ {w} : UNCHANGED <<phase[v], todo[v], done[v]>>
  BY DEF WriteFile, Goto, Typed, TypeOK, Writer
<1>3. \A v \in Writer : Landing(v)' => Landing(v) /\ Open(v)' = Open(v)
  BY <1>2 DEF Landing, Open
<1> SUFFICES ASSUME NEW t \in Task, NEW f \in File PROVE Fresh(t, f)'
  BY DEF FreshInv
<1>4. Fresh(t, f)
  BY DEF FreshInv
<1>5. /\ Guarded(t)' \subseteq Guarded(t)
      /\ Withheld(t)' \cup Pending(t)' \subseteq Withheld(t) \cup Pending(t)
      /\ t = w => g \notin Withheld(t)' \cup Pending(t)'
  <2>1. CASE t # w
    BY <1>1, <1>2, <2>1, GuardedKept DEF Writer
  <2>2. CASE t = w
    BY <1>1, <1>2, <2>2 DEF Guarded, Withheld, Pending, Landing, Open
  <2> QED
    BY <2>1, <2>2
<1>6. f \in Guarded(t) => Secret(t, f)'
  BY <1>1, <1>3, <1>4, SecretKept DEF Fresh
<1>7. ASSUME f \in Withheld(t)' \cup Pending(t)' PROVE Unwritten(t, f)'
  <2>1. CASE f # g
    BY <1>1, <1>2, <1>4, <1>5, <1>7, <2>1
    DEF Fresh, Unwritten, Typed, TypeOK, Tree
  <2>2. CASE f = g
    <3>1. t # w /\ f \in Open(w) /\ Landing(w)
      BY <1>2, <1>5, <1>7, <2>2 DEF Open, Landing
    <3>2. f \in Guarded(t)
      BY <1>5, <1>7 DEF Guarded, Pending, Withheld, Landing, Open
    <3>3. <<t, round[t]>> \notin Text(want[w][f])
      BY <1>4, <3>1, <3>2 DEF Fresh, Secret
    <3> QED
      BY <1>1, <1>2, <2>2, <3>3 DEF Unwritten, Typed, TypeOK, Tree
  <2> QED
    BY <2>1, <2>2
<1> QED
  BY <1>5, <1>6, <1>7 DEF Fresh

LEMMA RollBackFresh ==
  ASSUME Typed, FreshInv, NEW w \in Writer, NEW g \in File, RollBack(w, g)
  PROVE  FreshInv'
<1>1. UNCHANGED <<head, phase, round, box, base, store, patch, want, prev>>
  BY DEF RollBack, sandbox, proposal
<1>2. /\ phase[w] = "undoing" /\ g \in done[w]
      /\ todo'[w] = todo[w] \cup {g} /\ done'[w] = done[w] \ {g}
      /\ \A v \in Writer \ {w} : UNCHANGED <<todo[v], done[v]>>
      /\ torn' \in {torn, torn \cup {w}}
  BY DEF RollBack, Typed, TypeOK, Writer
<1>3. \/ torn' = torn /\ disk' = [disk EXCEPT ![g] = prev[w][g]]
      \/ w \in torn' /\ disk' = disk
  BY DEF RollBack
<1>4. \A v \in Writer : /\ Landing(v)' = Landing(v)
                        /\ Open(v)' = Open(v)
  BY <1>1, <1>2 DEF Landing, Open
<1> SUFFICES ASSUME NEW t \in Task, NEW f \in File PROVE Fresh(t, f)'
  BY DEF FreshInv
<1>5. Fresh(t, f)
  BY DEF FreshInv
<1>6. /\ Guarded(t)' \subseteq Guarded(t)
      /\ Withheld(t)' \cup Pending(t)'
           \subseteq Withheld(t) \cup Pending(t)
                     \cup (IF t = w /\ w \notin torn' THEN {g} ELSE {})
  <2>1. CASE t # w
    BY <1>1, <1>2, <2>1, GuardedKept DEF Writer
  <2>2. CASE t = w
    BY <1>1, <1>2, <2>2 DEF Guarded, Withheld, Pending, Landing, Open
  <2> QED
    BY <2>1, <2>2
<1>7. f \in Guarded(t) => Secret(t, f)'
  BY <1>1, <1>4, <1>5, SecretKept DEF Fresh
<1>8. ASSUME f \in Withheld(t)' \cup Pending(t)' PROVE Unwritten(t, f)'
  <2>1. CASE f # g \/ (w \in torn' /\ disk' = disk)
    BY <1>1, <1>3, <1>5, <1>6, <1>8, <2>1
    DEF Fresh, Unwritten, Typed, TypeOK, Tree
  <2>2. CASE f = g /\ disk' = [disk EXCEPT ![g] = prev[w][g]]
    <3>1. f \in Open(w) /\ Landing(w)
      BY <1>2, <2>2 DEF Open, Landing
    <3>2. f \in Guarded(t)
      BY <1>1, <1>4, <1>6, <1>8
      DEF Guarded, Pending, Withheld, Landing, Open
    <3>3. <<t, round[t]>> \notin Text(prev[w][f])
      BY <1>5, <3>1, <3>2 DEF Fresh, Secret
    <3> QED
      BY <1>1, <2>2, <3>3 DEF Unwritten, Typed, TypeOK, Tree
  <2> QED
    BY <1>3, <2>1, <2>2
<1> QED
  BY <1>6, <1>7, <1>8 DEF Fresh

LEMMA NextFresh ==
  ASSUME Quiet, Calm, Typed, Unproposed, SandboxInv, Authored, FreshInv,
         [Next]_vars
  PROVE  FreshInv'
<1>1. Typed'
  BY NextTyped
<1>2. CASE UNCHANGED vars
  <2>1. UNCHANGED <<disk, head, round, base, box, store, phase, want, prev,
                    todo, done, patch, torn>>
    BY <1>2 DEF vars, tree, sandbox, proposal, landing
  <2> QED
    BY <2>1, FreshRecedes, GuardedKept DEF Landing, Open
<1> QED
  BY <1>1, <1>2, UserEditsFresh, CommitFresh, GenerateFresh, SettleFresh,
     ApplySandboxFresh, ApplyPatchFresh, RefuseFresh, VerifyFresh,
     CreateSnapshotFresh, RestoreSnapshotFresh, WriteFailsFresh,
     RolledBackFresh, WriteFileFresh, RollBackFresh, RestartFresh
  DEF Next

(* Nobody else has the registry open while a patch is applied or a         *)
(* snapshot is restored, and the patch finds it as it was.                 *)
HasRegistry(w) == Landing(w) /\ Contracts \in Open(w)

RegistryInv ==
  /\ \A v, w \in Writer : HasRegistry(v) /\ HasRegistry(w) => v = w
  /\ \A t \in Task :
       phase[t] = "writing" \/ (phase[t] = "undoing" /\ t \notin torn) =>
         (Contracts \in todo[t] => disk[Contracts] = prev[t][Contracts])

LEMMA NoRegistryInSandbox ==
  ASSUME SandboxInv, NEW t \in Task
  PROVE  Contracts \notin ChangedFiles(t)
BY DEF SandboxInv, BoxShape, ChangedFiles

(* A step that leaves the registry alone and opens it for nobody.          *)
LEMMA RegistryFrame ==
  ASSUME RegistryInv, disk'[Contracts] = disk[Contracts],
         \A w \in Writer : Landing(w)' =>
           /\ Landing(w) /\ Open(w)' \subseteq Open(w) /\ prev'[w] = prev[w]
           /\ Contracts \in todo'[w] => Contracts \in todo[w]
           /\ phase'[w] = "undoing" /\ w \notin torn' => w \notin torn
           /\ phase'[w] = "writing" => phase[w] = "writing"
  PROVE  RegistryInv'
BY DEF RegistryInv, HasRegistry, Landing, Writer

(* A landing begins that has the registry open only if nobody else is      *)
(* landing.                                                                *)
LEMMA RegistryStarts ==
  ASSUME Typed, RegistryInv, NEW w \in Writer, NEW texts, NEW files,
         StartWriting(w, texts, files), UNCHANGED <<tree, torn>>,
         Contracts \in files => \A v \in Writer : ~Landing(v)
  PROVE  RegistryInv'
<1>1. /\ disk' = disk /\ torn' = torn
      /\ phase'[w] \in {"writing", "landed"}
      /\ todo'[w] = files /\ done'[w] = {} /\ prev'[w] = disk
      /\ \A v \in Writer \ {w} :
           UNCHANGED <<phase[v], todo[v], done[v], prev[v]>>
  BY DEF StartWriting, Goto, Typed, TypeOK, Writer, tree
<1>2. \A v \in Writer : HasRegistry(v)' =>
        (v = w /\ Contracts \in files) \/ (v # w /\ HasRegistry(v))
  BY <1>1 DEF HasRegistry, Landing, Open
<1>3. \A u, v \in Writer : HasRegistry(u)' /\ HasRegistry(v)' => u = v
  BY <1>2 DEF RegistryInv, HasRegistry
<1>4. \A t \in Task :
        phase'[t] = "writing" \/ (phase'[t] = "undoing" /\ t \notin torn') =>
          (Contracts \in todo'[t] => disk'[Contracts] = prev'[t][Contracts])
  BY <1>1 DEF RegistryInv, Writer
<1> QED
  BY <1>3, <1>4 DEF RegistryInv

LEMMA StartsRegistry ==
  ASSUME Quiet, Typed, SandboxInv, RegistryInv,
         \/ \E t \in Task : ApplySandbox(t) \/ ApplyPatch(t)
         \/ \E i \in 1..Len(store) : RestoreSnapshot(i)
  PROVE  RegistryInv'
<1>1. ASSUME NEW t \in Task, ApplySandbox(t) PROVE RegistryInv'
  <2> DEFINE files == {f \in ChangedFiles(t) : disk[f] # box[t][f]}
  <2>1. Contracts \notin files
    BY NoRegistryInSandbox
  <2> HIDE DEF files
  <2>2. StartWriting(t, box[t], files) /\ UNCHANGED <<tree, torn>>
    BY <1>1 DEF ApplySandbox, files
  <2> QED
    BY <2>1, <2>2, RegistryStarts DEF Writer
<1>2. ASSUME NEW t \in Task, ApplyPatch(t) PROVE RegistryInv'
  <2>1. PICK texts, files : StartWriting(t, texts, files)
    BY <1>2 DEF ApplyPatch
  <2>2. \A v \in Writer : ~Landing(v)
    BY <1>2 DEF ApplyPatch, Busy, Landing
  <2> QED
    BY <1>2, <2>1, <2>2, RegistryStarts DEF ApplyPatch, Writer
<1>3. ASSUME NEW i \in 1..Len(store), RestoreSnapshot(i) PROVE RegistryInv'
  <2> DEFINE files == {f \in File : store[i][f] # Absent}
  <2> HIDE DEF files
  <2>1. StartWriting(Restorer, store[i], files) /\ UNCHANGED <<tree, torn>>
    BY <1>3 DEF RestoreSnapshot, files
  <2>2. \A v \in Writer : ~Landing(v)
    BY <1>3 DEF RestoreSnapshot, Busy, Landing
  <2> QED
    BY <2>1, <2>2, RegistryStarts DEF Writer
<1> QED
  BY <1>1, <1>2, <1>3

LEMMA WriteFileRegistry ==
  ASSUME Typed, RegistryInv, NEW w \in Writer, NEW g \in File, WriteFile(w, g)
  PROVE  RegistryInv'
<1>1. UNCHANGED <<torn, prev>>
  BY DEF WriteFile
<1>2. /\ phase[w] = "writing" /\ g \in todo[w]
      /\ phase'[w] \in {"landed", "writing"}
      /\ todo'[w] = todo[w] \ {g} /\ done'[w] = done[w] \cup {g}
      /\ disk' = [disk EXCEPT ![g] = want[w][g]]
      /\ \A v \in Writer \ {w} : UNCHANGED <<phase[v], todo[v], done[v]>>
  BY DEF WriteFile, Goto, Typed, TypeOK, Writer
<1>3. \A v \in Writer : HasRegistry(v)' => HasRegistry(v)
  BY <1>2 DEF HasRegistry, Landing, Open
<1>4. ASSUME NEW t \in Task, Contracts \in todo'[t],
             phase'[t] = "writing" \/ (phase'[t] = "undoing" /\ t \notin torn')
      PROVE  disk'[Contracts] = prev'[t][Contracts]
  <2>1. g # Contracts
    BY <1>2, <1>4 DEF RegistryInv, HasRegistry, Landing, Open, Writer
  <2>2. disk'[Contracts] = disk[Contracts]
    BY <1>2, <2>1, ContractsInFile DEF Typed, TypeOK, Tree
  <2> QED
    BY <1>1, <1>2, <1>4, <2>2 DEF RegistryInv, Writer
<1> QED
  BY <1>3, <1>4 DEF RegistryInv

LEMMA RollBackRegistry ==
  ASSUME Typed, RegistryInv, NEW w \in Writer, NEW g \in File, RollBack(w, g)
  PROVE  RegistryInv'
<1>1. UNCHANGED <<phase, prev>>
  BY DEF RollBack
<1>2. /\ phase[w] = "undoing" /\ g \in done[w]
      /\ todo'[w] = todo[w] \cup {g} /\ done'[w] = done[w] \ {g}
      /\ \A v \in Writer \ {w} : UNCHANGED <<todo[v], done[v]>>
      /\ torn' \in {torn, torn \cup {w}}
      /\ \/ torn' = torn /\ disk' = [disk EXCEPT ![g] = prev[w][g]]
         \/ w \in torn' /\ disk' = disk
  BY DEF RollBack, Typed, TypeOK, Writer
<1>3. \A v \in Writer : HasRegistry(v)' => HasRegistry(v)
  BY <1>1, <1>2 DEF HasRegistry, Landing, Open
<1>4. ASSUME NEW t \in Task, Contracts \in todo'[t],
             phase'[t] = "writing" \/ (phase'[t] = "undoing" /\ t \notin torn')
      PROVE  disk'[Contracts] = prev'[t][Contracts]
  <2>1. CASE g = Contracts
    <3>1. t = w
      BY <1>1, <1>2, <1>4, <2>1
      DEF RegistryInv, HasRegistry, Landing, Open, Writer
    <3> QED
      BY <1>1, <1>2, <1>4, <2>1, <3>1 DEF Typed, TypeOK, Tree
  <2>2. CASE g # Contracts
    <3>1. disk'[Contracts] = disk[Contracts]
      BY <1>2, <2>2, ContractsInFile DEF Typed, TypeOK, Tree
    <3> QED
      BY <1>1, <1>2, <1>4, <2>2, <3>1 DEF RegistryInv, Writer
  <2> QED
    BY <2>1, <2>2
<1> QED
  BY <1>3, <1>4 DEF RegistryInv

(* The other steps only end landings.                                      *)
LEMMA OtherStepsRegistry ==
  ASSUME Typed, RegistryInv,
         \/ UNCHANGED vars \/ Commit \/ Restart
         \/ \E f \in File : UserEdits(f)
         \/ \E t \in Task : \/ Generate(t) \/ Settle(t) \/ GateStops(t)
                            \/ Refuse(t) \/ Verify(t)
         \/ \E w \in Writer \cup {Committer} : CreateSnapshot(w)
         \/ \E w \in Writer : WriteFails(w) \/ RolledBack(w)
  PROVE  RegistryInv'
<1> DEFINE Same(w) == UNCHANGED <<phase[w], todo[w], done[w], prev[w]>>
<1> USE DEF Typed, TypeOK
<1>1. ASSUME disk'[Contracts] = disk[Contracts],
             torn \subseteq torn',
             \A w \in Writer : Same(w) \/ ~Landing(w)'
      PROVE  RegistryInv'
  BY <1>1, RegistryFrame DEF Open, Landing
<1>2. CASE UNCHANGED vars
  BY <1>1, <1>2 DEF vars, tree, landing
<1>3. CASE Commit
  <2>1. \A w \in Writer : phase'[w] = phase[w]
    BY <1>3, LandingAssumption DEF Commit, Goto, Writer, Restorer, Committer
  <2> QED
    BY <1>1, <1>3, <2>1 DEF Commit, landing
<1>4. CASE Restart
  BY <1>1, <1>4 DEF Restart, Landing, Busy, tree
<1>5. ASSUME NEW f \in File, UserEdits(f) PROVE RegistryInv'
  BY <1>1, <1>5, ContractsInFile DEF UserEdits, landing, Tree
<1>6. ASSUME NEW t \in Task, Generate(t) PROVE RegistryInv'
  <2>1. \A w \in Writer :
          IF w = t THEN ~Landing(w)'
                   ELSE Same(w) /\ (w \in torn' <=> w \in torn)
    BY <1>6 DEF Generate, Forget, Goto, Landing, Writer
  <2> QED
    BY <1>6, <2>1, RegistryFrame DEF Generate, Open, Landing, tree
<1>7. ASSUME NEW t \in Task, Settle(t) \/ GateStops(t) PROVE RegistryInv'
  <2>1. \A w \in Writer : Same(w) \/ ~Landing(w)'
    BY <1>7 DEF Settle, GateStops, Goto, Landing, landing, Writer
  <2> QED
    BY <1>1, <1>7, <2>1 DEF Settle, GateStops, tree, landing
<1>8. ASSUME NEW t \in Task, Refuse(t) PROVE RegistryInv'
  <2>1. \A w \in Writer : Same(w) \/ ~Landing(w)'
    BY <1>8 DEF Refuse, Goto, Landing, Writer
  <2> QED
    BY <1>1, <1>8, <2>1 DEF Refuse, tree
<1>9. ASSUME NEW t \in Task, Verify(t) PROVE RegistryInv'
  <2>1. \A w \in Writer : Same(w) \/ ~Landing(w)'
    BY <1>9 DEF Verify, Forget, Goto, Landing, landing, Writer
  <2> QED
    BY <1>1, <1>9, <2>1 DEF Verify, tree, landing
<1>10. ASSUME NEW w \in Writer \cup {Committer}, CreateSnapshot(w)
       PROVE  RegistryInv'
  <2>1. \A v \in Writer : Same(v) \/ ~Landing(v)'
    BY <1>10, LandingAssumption
    DEF CreateSnapshot, AfterSnapshot, Forget, Goto, Landing, landing, Writer
  <2> QED
    BY <1>1, <1>10, <2>1 DEF CreateSnapshot, tree, landing
<1>11. ASSUME NEW w \in Writer, WriteFails(w) PROVE RegistryInv'
  BY <1>11 DEF WriteFails, Goto, RegistryInv, HasRegistry, Landing, Open, tree,
               landing, Writer
<1>12. ASSUME NEW w \in Writer, RolledBack(w) PROVE RegistryInv'
  <2>1. \A v \in Writer : Same(v) \/ ~Landing(v)'
    BY <1>12 DEF RolledBack, Forget, Goto, Landing, Writer
  <2> QED
    BY <1>1, <1>12, <2>1 DEF RolledBack, tree
<1> QED
  BY <1>2, <1>3, <1>4, <1>5, <1>6, <1>7, <1>8, <1>9, <1>10, <1>11, <1>12

LEMMA NextRegistry ==
  ASSUME Quiet, Typed, SandboxInv, RegistryInv, [Next]_vars
  PROVE  RegistryInv'
BY StartsRegistry, WriteFileRegistry, RollBackRegistry, OtherStepsRegistry
DEF Next

(* What is withheld is what AllOrNothing asks for; a file the task does    *)
(* not own has none of its changes anyway.                                 *)
LEMMA RefusedLeavesNothing ==
  Typed /\ Authored /\ FreshInv /\ RegistryInv => AllOrNothing
<1> SUFFICES ASSUME Typed, Authored, FreshInv, RegistryInv,
                    NEW t \in Task \ torn
             PROVE  /\ phase[t] = "refused" =>
                         \A f \in todo[t] \ {Contracts} : Unwritten(t, f)
                    /\ phase[t] = "undoing" /\ Contracts \in todo[t] =>
                         disk[Contracts] = prev[t][Contracts]
  BY DEF AllOrNothing, Unwritten
<1>1. ASSUME phase[t] = "refused", NEW f \in todo[t] \ {Contracts}
      PROVE  Unwritten(t, f)
  <2>1. f \in File /\ round[t] \in 0..MaxRounds
    BY DEF Typed, TypeOK, Writer
  <2>2. CASE f \in TaskFiles[t]
    BY <1>1, <2>1, <2>2 DEF FreshInv, Fresh, Withheld
  <2>3. CASE f \notin TaskFiles[t]
    BY <1>1, <2>1, <2>3 DEF Authored, Own, OwnText, Unwritten
  <2> QED
    BY <2>2, <2>3
<1>2. phase[t] = "undoing" /\ Contracts \in todo[t] =>
        disk[Contracts] = prev[t][Contracts]
  BY DEF RegistryInv
<1> QED
  BY <1>1, <1>2

(* A landing that was refused or failed left nothing behind, if what       *)
(* workspace.py leaves to chance goes well: no landing meets a snapshot, a *)
(* commit, a restoration or another patch (Quiet), and no micro task       *)
(* copies the project during one (Calm).  The change of the present round  *)
(* is kept, until it lands, where only the task's own landing finds it.    *)
THEOREM LandingIsAtomic ==
  ASSUME Quiet, Calm PROVE Spec => []AllOrNothing
<1>1. Init => FreshInv /\ RegistryInv
  <2> SUFFICES ASSUME Init PROVE FreshInv /\ RegistryInv
    OBVIOUS
  <2>1. \A w \in Writer : phase[w] = "idle"
    BY DEF Init
  <2> QED
    BY <2>1 DEF FreshInv, Fresh, Guarded, Withheld, Pending, RegistryInv,
                HasRegistry, Landing, Writer
<1>2. ASSUME Typed, Unproposed, SandboxInv, Authored, FreshInv, RegistryInv,
             [Next]_vars
      PROVE  FreshInv' /\ RegistryInv'
  <2>1. FreshInv'
    BY <1>2, NextFresh
  <2>2. RegistryInv'
    BY <1>2, NextRegistry
  <2> QED
    BY <2>1, <2>2
<1> QED
  BY <1>1, <1>2, AuthoredSpec, RefusedLeavesNothing, PTL DEF Spec

-----------------------------------------------------------------------------
(* Undo.                                                                   *)

(* t holds the locks of its files.                                         *)
Working(t) ==
  \/ phase[t] \in {"built", "snapped"}
  \/ phase[t] \in {"writing", "undoing", "landed"} /\ patch[t] = {}

(* Tasks at work share no file (the locks of a wave).                      *)
LocksHeld ==
  \A t, o \in Task : Working(t) /\ Working(o) /\ t # o =>
    TaskFiles[t] \cap TaskFiles[o] = {}

(* Between the snapshot of a task and its landing only landings of other   *)
(* tasks at work write.                                                    *)
WritersWork ==
  \A t \in Task, w \in Writer : phase[t] = "snapped" /\ Landing(w) =>
    w \in Task /\ patch[w] = {} /\ Open(w) \subseteq TaskFiles[w]

(* A snapshot holds what a file has that has not moved from the base.      *)
Saved ==
  \A t \in Task : phase[t] = "snapped" =>
    \E i \in DOMAIN store : \A f \in TaskFiles[t] :
      disk[f] = base[t][f] => Text(disk[f]) \subseteq Text(store[i][f])

UndoInv == LocksHeld /\ WritersWork /\ Saved /\ UndoPossible

(* A step after which no more tasks work, land or have their snapshot.     *)
LEMMA UndoFrame ==
  ASSUME UndoInv, UNCHANGED store,
         \A t \in Task : Working(t)' => Working(t),
         \A w \in Writer : Landing(w)' =>
           /\ Landing(w) /\ Open(w)' \subseteq Open(w)
           /\ w \in Task => patch'[w] = patch[w],
         \A t \in Task : phase'[t] = "snapped" =>
           /\ phase[t] = "snapped" /\ base'[t] = base[t]
           /\ \A f \in TaskFiles[t] :
                \/ disk'[f] = disk[f]
                \/ disk'[f] # base[t][f]
                \/ Text(disk'[f]) = {},
         \A t \in Task : phase'[t] = "writing" /\ done'[t] = {} =>
           /\ phase[t] = "writing" /\ done[t] = {} /\ patch'[t] = patch[t]
           /\ todo'[t] \subseteq todo[t] /\ prev'[t] = prev[t]
  PROVE  UndoInv'
<1>1. LocksHeld'
  BY DEF UndoInv, LocksHeld
<1>2. WritersWork'
  BY DEF UndoInv, WritersWork
<1>3. Saved'
  <2> SUFFICES ASSUME NEW t \in Task, phase'[t] = "snapped"
               PROVE  \E i \in DOMAIN store' : \A f \in TaskFiles[t] :
                        disk'[f] = base'[t][f] =>
                          Text(disk'[f]) \subseteq Text(store'[i][f])
    BY DEF Saved
  <2>1. PICK i \in DOMAIN store : \A f \in TaskFiles[t] :
          disk[f] = base[t][f] => Text(disk[f]) \subseteq Text(store[i][f])
    BY DEF UndoInv, Saved
  <2>2. \A f \in TaskFiles[t] : disk'[f] = base'[t][f] =>
          Text(disk'[f]) \subseteq Text(store[i][f])
    <3> TAKE f \in TaskFiles[t]
    <3>1. CASE disk'[f] = disk[f]
      BY <2>1, <3>1
    <3>2. CASE Text(disk'[f]) = {}
      BY <3>2
    <3> QED
      BY <3>1, <3>2
  <2> QED
    BY <2>2
<1>4. UndoPossible'
  <2> SUFFICES ASSUME NEW t \in Task, phase'[t] = "writing", done'[t] = {},
                      patch'[t] = {}
               PROVE  \E i \in DOMAIN store : \A f \in todo'[t] \ {Contracts} :
                        Text(prev'[t][f]) \subseteq Text(store[i][f])
    BY DEF UndoPossible
  <2>1. /\ phase[t] = "writing" /\ done[t] = {} /\ patch[t] = {}
        /\ todo'[t] \subseteq todo[t] /\ prev'[t] = prev[t]
    OBVIOUS
  <2>2. PICK i \in DOMAIN store : \A f \in todo[t] \ {Contracts} :
          Text(prev[t][f]) \subseteq Text(store[i][f])
    BY <2>1 DEF UndoInv, UndoPossible
  <2> QED
    BY <2>1, <2>2
<1> QED
  BY <1>1, <1>2, <1>3, <1>4 DEF UndoInv

(* A step of one writer that ends what it was at.                          *)
LEMMA UndoEnds ==
  ASSUME UndoInv, UNCHANGED <<disk, store>>, NEW w \in Writer,
         \A v \in Writer \ {w} :
           UNCHANGED <<phase[v], todo[v], done[v], prev[v]>>,
         \A t \in Task \ {w} : UNCHANGED <<patch[t], base[t]>>,
         phase'[w] \notin {"snapped", "writing", "undoing"},
         w \in Task /\ Working(w)' => Working(w)
  PROVE  UndoInv'
<1>1. \A t \in Task : Working(t)' => Working(t)
  BY DEF Working, Writer
<1>2. \A v \in Writer : Landing(v)' =>
        /\ Landing(v) /\ Open(v)' = Open(v)
        /\ v \in Task => patch'[v] = patch[v]
  BY DEF Landing, Open
<1> QED
  BY <1>1, <1>2, UndoFrame DEF Writer

LEMMA UserEditsUndo ==
  ASSUME Typed, Authored, UndoInv, Typed', NEW g \in File, UserEdits(g)
  PROVE  UndoInv'
<1>1. UNCHANGED <<phase, base, patch, todo, done, prev, store>>
  BY DEF UserEdits, sandbox, proposal, landing
<1>2. acts' = acts + 1 /\ acts' \in 0..MaxActs /\ acts \in 0..MaxActs
  BY DEF UserEdits, Typed, TypeOK
<1>3. ASSUME NEW t \in Task, NEW f \in File
      PROVE  \/ disk'[f] = disk[f]
             \/ disk'[f] # base[t][f]
             \/ Text(disk'[f]) = {}
  <2>1. CASE disk' = [disk EXCEPT ![g] = Text(@) \cup {<<User, acts'>>}]
    <3>1. Text(disk[g]) \cup {<<User, acts'>>} \in SUBSET Change
      BY <1>2, TextType DEF Typed, TypeOK, Tree, Change
    <3>2. <<User, acts'>> \notin Text(base[t][f])
      BY <1>2, LandingAssumption DEF Authored, Own, OwnText
    <3>3. f = g => <<User, acts'>> \in Text(disk'[f])
      BY <2>1, <3>1, PresentText DEF Typed, TypeOK, Tree
    <3>4. f # g => disk'[f] = disk[f]
      BY <2>1 DEF Typed, TypeOK, Tree
    <3> QED
      BY <3>2, <3>3, <3>4
  <2>2. CASE disk' = [disk EXCEPT ![g] = Absent]
    BY <2>2 DEF Text, Typed, TypeOK, Tree
  <2> QED
    BY <2>1, <2>2 DEF UserEdits
<1>4. \A t \in Task : TaskFiles[t] \subseteq File
  BY LandingAssumption
<1> QED
  BY <1>1, <1>3, <1>4, UndoFrame DEF Working, Landing, Open

LEMMA GenerateUndo ==
  ASSUME Typed, UndoInv, NEW t \in Task, Generate(t) PROVE UndoInv'
<1>1. /\ UNCHANGED <<disk, store>> /\ phase'[t] = "built"
      /\ \A w \in Writer \ {t} :
           UNCHANGED <<phase[w], todo[w], done[w], prev[w]>>
      /\ \A o \in Task \ {t} : UNCHANGED <<patch[o], base[o]>>
  BY DEF Generate, Forget, Goto, Typed, TypeOK, tree, Writer
<1>2. LocksHeld'
  <2> SUFFICES ASSUME NEW o \in Task \ {t}, Working(o)'
               PROVE  TaskFiles[t] \cap TaskFiles[o] = {}
    BY <1>1 DEF LocksHeld, UndoInv, Working, Writer
  <2> QED
    BY <1>1 DEF Generate, LocksFree, Working, Writer
<1>3. WritersWork'
  BY <1>1 DEF UndoInv, WritersWork, Landing, Open, Writer
<1>4. Saved'
  <2> SUFFICES ASSUME NEW o \in Task, phase'[o] = "snapped"
               PROVE  \E i \in DOMAIN store : \A f \in TaskFiles[o] :
                        disk[f] = base'[o][f] =>
                          Text(disk[f]) \subseteq Text(store[i][f])
    BY <1>1 DEF Saved
  <2>1. phase[o] = "snapped" /\ base'[o] = base[o]
    BY <1>1 DEF Writer
  <2> QED
    BY <2>1 DEF UndoInv, Saved
<1>5. UndoPossible'
  <2> SUFFICES ASSUME NEW o \in Task, phase'[o] = "writing", done'[o] = {},
                      patch'[o] = {}
               PROVE  \E i \in DOMAIN store : \A f \in todo'[o] \ {Contracts} :
                        Text(prev'[o][f]) \subseteq Text(store[i][f])
    BY <1>1 DEF UndoPossible
  <2>1. o # t /\ UNCHANGED <<phase[o], done[o], todo[o], prev[o], patch[o]>>
    BY <1>1 DEF Writer
  <2> QED
    BY <2>1 DEF UndoInv, UndoPossible
<1> QED
  BY <1>2, <1>3, <1>4, <1>5 DEF UndoInv

LEMMA CreateSnapshotUndo ==
  ASSUME Quiet, Serial, Typed, UndoInv, NEW w \in Writer \cup {Committer},
         CreateSnapshot(w)
  PROVE  UndoInv'
<1>1. UNCHANGED <<disk, base, patch>>
  BY DEF CreateSnapshot, tree, sandbox, proposal
<1>2. \E i \in DOMAIN store' : store'[i] = disk
  <2>1. LET r == Newest(Append(SubSeq(store, 1, Len(store)), disk))
        IN  Len(r) \in DOMAIN r /\ r[Len(r)] = disk
    BY NewestKeeps, LandingAssumption DEF Typed, TypeOK
  <2> QED
    BY <2>1 DEF CreateSnapshot
<1>3. \A v \in Writer : ~Landing(v)'
  BY LandingAssumption
  DEF CreateSnapshot, AfterSnapshot, Goto, Landing, Typed, TypeOK, Writer
<1>4. \A t \in Task :
        \/ phase'[t] = phase[t]
        \/ phase[t] = "built" /\ phase'[t] = "snapped"
        \/ phase'[t] \in {"kept", "failed"}
  BY LandingAssumption
  DEF CreateSnapshot, CanSnapshot, AfterSnapshot, Goto, Typed, TypeOK, Writer
<1>5. \A t \in Task : Working(t)' => Working(t)
  BY <1>1, <1>4 DEF Working
<1>6. LocksHeld' /\ WritersWork'
  BY <1>3, <1>5 DEF UndoInv, LocksHeld, WritersWork
<1>7. Saved'
  BY <1>1, <1>2 DEF Saved
<1>8. UndoPossible'
  BY <1>3 DEF UndoPossible, Landing, Writer
<1> QED
  BY <1>6, <1>7, <1>8 DEF UndoInv

LEMMA ApplySandboxUndo ==
  ASSUME Typed, Unproposed, SandboxInv, UndoInv, NEW t \in Task,
         ApplySandbox(t)
  PROVE  UndoInv'
<1> DEFINE files == {f \in ChangedFiles(t) : disk[f] # box[t][f]}
<1>1. /\ UNCHANGED <<disk, store, patch, base>>
      /\ phase[t] = "snapped" /\ patch[t] = {}
      /\ phase'[t] \in {"writing", "landed"}
      /\ todo'[t] = files /\ done'[t] = {} /\ prev'[t] = disk
      /\ \A w \in Writer \ {t} :
           UNCHANGED <<phase[w], todo[w], done[w], prev[w]>>
  BY DEF ApplySandbox, StartWriting, Goto, Unproposed, Typed, TypeOK, tree,
         sandbox, proposal, Writer
<1>2. \A f \in files : f \in TaskFiles[t] /\ disk[f] = base[t][f]
  BY DEF ApplySandbox, Conflict, ChangedFiles, SandboxInv, BoxShape
<1> HIDE DEF files
<1>3. \A o \in Task : Working(o)' => Working(o)
  BY <1>1 DEF Working, Writer
<1>4. LocksHeld'
  BY <1>3 DEF UndoInv, LocksHeld
<1>5. WritersWork'
  <2> SUFFICES ASSUME NEW o \in Task, NEW w \in Writer,
                      phase'[o] = "snapped", Landing(w)'
               PROVE  /\ w \in Task /\ patch'[w] = {}
                      /\ Open(w)' \subseteq TaskFiles[w]
    BY DEF WritersWork
  <2>1. phase[o] = "snapped"
    BY <1>1 DEF Writer
  <2> QED
    BY <1>1, <1>2, <2>1 DEF UndoInv, WritersWork, Landing, Open
<1>6. Saved'
  BY <1>1, SMTT(30) DEF UndoInv, Saved, Writer
<1>7. UndoPossible'
  <2> SUFFICES ASSUME NEW o \in Task, phase'[o] = "writing", done'[o] = {},
                      patch'[o] = {}
               PROVE  \E i \in DOMAIN store : \A f \in todo'[o] \ {Contracts} :
                        Text(prev'[o][f]) \subseteq Text(store[i][f])
    BY <1>1 DEF UndoPossible
  <2>1. CASE o # t
    BY <1>1, <2>1 DEF UndoInv, UndoPossible, Writer
  <2>2. CASE o = t
    <3>1. PICK i \in DOMAIN store : \A f \in TaskFiles[t] :
            disk[f] = base[t][f] => Text(disk[f]) \subseteq Text(store[i][f])
      BY <1>1 DEF UndoInv, Saved
    <3>2. \A f \in todo'[o] \ {Contracts} :
            Text(prev'[o][f]) \subseteq Text(store'[i][f])
      BY <1>1, <1>2, <2>2, <3>1
    <3> QED
      BY <1>1, <3>2
  <2> QED
    BY <2>1, <2>2
<1> QED
  BY <1>4, <1>5, <1>6, <1>7 DEF UndoInv

(* A patch or a snapshot begins to land: nobody has a snapshot pending.    *)
LEMMA StartsUndo ==
  ASSUME Quiet, Typed, UndoInv,
         \/ \E t \in Task : ApplyPatch(t)
         \/ \E i \in 1..Len(store) : RestoreSnapshot(i)
  PROVE  UndoInv'
<1>1. /\ UNCHANGED <<disk, store, patch, base>>
      /\ \A v \in Writer : ~Busy(v)
  BY DEF ApplyPatch, RestoreSnapshot, tree, sandbox, proposal
<1>2. PICK w \in Writer :
        /\ phase'[w] \in {"writing", "landed"}
        /\ w \in Task => patch[w] # {}
        /\ \A v \in Writer \ {w} :
             UNCHANGED <<phase[v], todo[v], done[v], prev[v]>>
  <2>1. ASSUME NEW t \in Task, ApplyPatch(t)
        PROVE  /\ phase'[t] \in {"writing", "landed"}
               /\ patch[t] # {}
               /\ \A v \in Writer \ {t} :
                    UNCHANGED <<phase[v], todo[v], done[v], prev[v]>>
    BY <2>1 DEF ApplyPatch, StartWriting, Goto, Typed, TypeOK, Writer
  <2>2. ASSUME NEW i \in 1..Len(store), RestoreSnapshot(i)
        PROVE  /\ phase'[Restorer] \in {"writing", "landed"}
               /\ Restorer \notin Task
               /\ \A v \in Writer \ {Restorer} :
                    UNCHANGED <<phase[v], todo[v], done[v], prev[v]>>
    BY <2>2, LandingAssumption
    DEF RestoreSnapshot, StartWriting, Goto, Typed, TypeOK, Writer
  <2> QED
    BY <2>1, <2>2 DEF Writer
<1>3. \A o \in Task : Working(o)' => Working(o)
  BY <1>1, <1>2 DEF Working, Writer
<1>4. \A o \in Task : phase'[o] # "snapped"
  BY <1>1, <1>2 DEF Busy, Writer
<1>5. \A o \in Task : phase'[o] = "writing" => patch'[o] # {}
  BY <1>1, <1>2 DEF Busy, Writer
<1> QED
  BY <1>3, <1>4, <1>5 DEF UndoInv, LocksHeld, WritersWork, Saved, UndoPossible

(* While a task has its snapshot, no file of it is written.                *)
LEMMA WritesUndo ==
  ASSUME Typed, UndoInv, NEW w \in Writer, NEW g \in File,
         WriteFile(w, g) \/ RollBack(w, g)
  PROVE  UndoInv'
<1>1. /\ UNCHANGED <<base, patch, prev, store>>
      /\ Landing(w) /\ g \in Open(w)
      /\ \A v \in Writer \ {w} : UNCHANGED <<phase[v], todo[v], done[v]>>
      /\ \A f \in File \ {g} : disk'[f] = disk[f]
      /\ Open(w)' = Open(w)
  BY DEF WriteFile, RollBack, Goto, Landing, Open, Typed, TypeOK, Tree,
         sandbox, proposal, Writer
<1>2. /\ phase'[w] \in {"writing", "landed", "undoing"}
      /\ phase'[w] = "writing" => done'[w] # {}
  <2>1. CASE WriteFile(w, g)
    <3>1. phase'[w] \in {"writing", "landed"} /\ g \in done'[w]
      BY <2>1 DEF WriteFile, Goto, Typed, TypeOK
    <3> QED
      BY <3>1
  <2>2. CASE RollBack(w, g)
    BY <2>2 DEF RollBack
  <2> QED
    BY <2>1, <2>2
<1>3. \A t \in Task : Working(t)' => Working(t)
  BY <1>1, <1>2 DEF Working, Landing, Writer
<1>4. ASSUME NEW t \in Task, phase'[t] = "snapped"
      PROVE  /\ phase[t] = "snapped"
             /\ \A f \in TaskFiles[t] : disk'[f] = disk[f]
  <2>1. t # w /\ phase[t] = "snapped"
    BY <1>1, <1>2, <1>4 DEF Writer
  <2>2. w \in Task /\ patch[w] = {} /\ g \in TaskFiles[w]
    BY <1>1, <2>1 DEF UndoInv, WritersWork
  <2>3. Working(t) /\ Working(w)
    BY <1>1, <2>1, <2>2 DEF Working, Landing
  <2>4. g \notin TaskFiles[t] /\ TaskFiles[t] \subseteq File
    BY <2>1, <2>2, <2>3, LandingAssumption DEF UndoInv, LocksHeld
  <2> QED
    BY <1>1, <2>1, <2>4
<1> QED
  BY <1>1, <1>2, <1>3, <1>4, UndoFrame DEF Landing, Open, Writer

LEMMA EndsUndo ==
  ASSUME Typed, UndoInv,
         \/ \E t \in Task : \/ Settle(t) \/ GateStops(t) \/ Refuse(t)
                            \/ Verify(t)
         \/ \E w \in Writer : RolledBack(w)
  PROVE  UndoInv'
<1> DEFINE Others(w) ==
             /\ UNCHANGED <<disk, store>>
             /\ \A v \in Writer \ {w} :
                  UNCHANGED <<phase[v], todo[v], done[v], prev[v]>>
             /\ \A t \in Task \ {w} : UNCHANGED <<patch[t], base[t]>>
<1> USE DEF Goto, Typed, TypeOK, Writer
<1>1. ASSUME NEW t \in Task, Settle(t) \/ GateStops(t) PROVE UndoInv'
  <2>1. Others(t) /\ phase'[t] = "review"
    BY <1>1 DEF Settle, GateStops, tree, sandbox, landing
  <2> QED
    BY <2>1, UndoEnds DEF Working
<1>2. ASSUME NEW t \in Task, Refuse(t) PROVE UndoInv'
  <2>1. Others(t) /\ phase'[t] = "refused"
    BY <1>2 DEF Refuse, Destroyed, tree, proposal
  <2> QED
    BY <2>1, UndoEnds DEF Working
<1>3. ASSUME NEW t \in Task, Verify(t) PROVE UndoInv'
  <2>1. Others(t)
    BY <1>3 DEF Verify, Destroyed, Forget, tree, sandbox, proposal, landing
  <2>2. /\ phase'[t] \in {"verified", "failed", "built", "review"}
        /\ phase'[t] = "built" => phase[t] = "landed" /\ patch[t] = {}
    BY <1>3 DEF Verify
  <2> QED
    BY <2>1, <2>2, UndoEnds DEF Working
<1>4. ASSUME NEW w \in Writer, RolledBack(w) PROVE UndoInv'
  <2>1. Others(w) /\ phase'[w] \in {"refused", "idle"}
    BY <1>4 DEF RolledBack, Destroyed, Forget, tree, proposal
  <2> QED
    BY <2>1, UndoEnds DEF Working
<1> QED
  BY <1>1, <1>2, <1>3, <1>4

LEMMA OtherStepsUndo ==
  ASSUME Typed, UndoInv,
         \/ UNCHANGED vars \/ Commit \/ Restart
         \/ \E w \in Writer : WriteFails(w)
  PROVE  UndoInv'
<1> USE DEF Goto, Typed, TypeOK, Writer
<1>1. CASE UNCHANGED vars
  <2>1. UNCHANGED <<disk, store, phase, patch, base, todo, done, prev>>
    BY <1>1 DEF vars, tree, sandbox, proposal, landing
  <2> QED
    BY <2>1, UndoFrame DEF Working, Landing, Open
<1>2. CASE Commit
  <2>1. UNCHANGED <<disk, store, patch, base, todo, done, prev>>
    BY <1>2 DEF Commit, sandbox, proposal, landing
  <2>2. \A w \in Writer : phase'[w] = phase[w]
    BY <1>2, LandingAssumption DEF Commit, Restorer, Committer
  <2> QED
    BY <2>1, <2>2, UndoFrame DEF Working, Landing, Open
<1>3. CASE Restart
  <2>1. UNCHANGED <<disk, store, patch>>
    BY <1>3 DEF Restart, tree, proposal
  <2>2. \A w \in Writer :
          /\ ~Landing(w)'
          /\ phase'[w] \notin {"built", "snapped", "landed"}
    BY <1>3 DEF Restart, Busy, Landing
  <2> QED
    BY <2>1, <2>2, UndoFrame DEF Working, Landing
<1>4. ASSUME NEW w \in Writer, WriteFails(w) PROVE UndoInv'
  <2>1. UNCHANGED <<disk, store, patch, base, todo, done, prev>>
    BY <1>4 DEF WriteFails, tree, sandbox, proposal, landing
  <2>2. /\ phase[w] = "writing" /\ phase'[w] = "undoing"
        /\ \A v \in Writer \ {w} : phase'[v] = phase[v]
    BY <1>4 DEF WriteFails
  <2> QED
    BY <2>1, <2>2, UndoFrame DEF Working, Landing, Open
<1> QED
  BY <1>1, <1>2, <1>3, <1>4

LEMMA NextUndo ==
  ASSUME Quiet, Serial, Typed, Unproposed, SandboxInv, Authored, UndoInv,
         [Next]_vars
  PROVE  UndoInv'
<1>1. Typed'
  BY NextTyped
<1> QED
  BY <1>1, UserEditsUndo, GenerateUndo, CreateSnapshotUndo, ApplySandboxUndo,
     StartsUndo, WritesUndo, EndsUndo, OtherStepsUndo
  DEF Next

(* What a landing that nobody reviewed is about to overwrite can be had    *)
(* back from one snapshot, if snapshots are made one at a time (Serial)    *)
(* and no patch or snapshot lands between a task's own snapshot and its    *)
(* landing (Quiet): what changed since the snapshot is in conflict, and    *)
(* refused.                                                                *)
THEOREM LandingsCanBeUndone ==
  ASSUME Quiet, Serial PROVE Spec => []UndoPossible
<1>1. Init => UndoInv
  <2> SUFFICES ASSUME Init PROVE UndoInv
    OBVIOUS
  <2>1. \A w \in Writer : phase[w] = "idle"
    BY DEF Init
  <2> QED
    BY <2>1 DEF UndoInv, LocksHeld, WritersWork, Saved, UndoPossible, Working,
                Landing, Writer
<1>2. Typed /\ Unproposed /\ SandboxInv /\ Authored /\ UndoInv /\ [Next]_vars
        => UndoInv'
  BY NextUndo
<1>3. UndoInv => UndoPossible
  BY DEF UndoInv
<1> QED
  BY <1>1, <1>2, <1>3, AuthoredSpec, PTL DEF Spec
=============================================================================
