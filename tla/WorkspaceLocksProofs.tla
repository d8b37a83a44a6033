------------------------- MODULE WorkspaceLocksProofs -------------------------
(***************************************************************************)
(* For any plan, any target files and any number of requests that clobber  *)
(* locks.json concurrently, the tasks granted by one acquisition have      *)
(* pairwise disjoint target files.                                         *)
(***************************************************************************)
EXTENDS WorkspaceLocks, TLAPS

(* While the loop of acquire_workspace_locks runs, the copy records the    *)
(* files of every task granted so far; before it, nothing is granted.      *)
GrantsInCopy ==
  \A r \in Request :
    /\ pc[r] \in {"idle", "acquire"} => granted[r] = {}
    /\ pc[r] = "grant" =>
         \A t \in granted[r] : TargetFiles[t] \subseteq copy[r][t]

IInv == TypeOK /\ GrantsInCopy /\ WaveExclusive

LEMMA InitInv == Init => IInv
BY LocksAssumption
DEF Init, Idle, IInv, TypeOK, GrantsInCopy, WaveExclusive, NoLocks, Step, Kind

LEMMA NextInv == IInv /\ [Next]_vars => IInv'
<1> SUFFICES ASSUME IInv, [Next]_vars PROVE IInv'
  OBVIOUS
<1> USE LocksAssumption DEF Step, Kind, NoLocks
<1>1. ASSUME NEW r \in Request, NEW S \in SUBSET Task, StartWave(r, S)
      PROVE IInv'
  BY <1>1 DEF StartWave, IInv, TypeOK, GrantsInCopy, WaveExclusive
<1>2. ASSUME NEW r \in Request, NEW k \in {"resume", "micro"}, NEW t \in Task,
             StartOne(r, k, t)
      PROVE IInv'
  BY <1>2 DEF StartOne, IInv, TypeOK, GrantsInCopy, WaveExclusive
<1>3. ASSUME NEW r \in Request, AcquireRead(r) PROVE IInv'
  BY <1>3 DEF AcquireRead, IInv, TypeOK, GrantsInCopy, WaveExclusive
<1>4. ASSUME NEW r \in Request, NEW t \in Task, GrantNext(r, t) PROVE IInv'
  <2>1. TypeOK'
    <3>1. copy' \in [Request -> [Task -> SUBSET Path]]
      <4>1. [copy[r] EXCEPT ![t] = @ \cup TargetFiles[t]]
              \in [Task -> SUBSET Path]
        BY DEF IInv, TypeOK
      <4> QED
        BY <1>4, <4>1 DEF GrantNext, IInv, TypeOK
    <3>2. granted' \in [Request -> SUBSET Task]
      <4>1. granted[r] \cup {t} \in SUBSET Task
        BY DEF IInv, TypeOK
      <4>2. \/ granted' = granted
            \/ granted' = [granted EXCEPT ![r] = granted[r] \cup {t}]
        BY <1>4 DEF GrantNext
      <4> QED
        BY <4>1, <4>2 DEF IInv, TypeOK
    <3> QED
      BY <1>4, <3>1, <3>2 DEF GrantNext, IInv, TypeOK
  <2>2. CASE Free(t, copy[r])
    <3>1. \A u \in granted[r] : TargetFiles[u] \cap TargetFiles[t] = {}
      BY <1>4, <2>2 DEF GrantNext, Free, IInv, TypeOK, GrantsInCopy
    <3>2. granted' = [granted EXCEPT ![r] = @ \cup {t}]
      BY <1>4, <2>2 DEF GrantNext
    <3>3. WaveExclusive'
      BY <3>1, <3>2 DEF IInv, TypeOK, WaveExclusive
    <3>4. copy' = [copy EXCEPT ![r][t] = @ \cup TargetFiles[t]]
      BY <1>4, <2>2 DEF GrantNext
    <3>5. GrantsInCopy'
      BY <1>4, <3>2, <3>4 DEF GrantNext, IInv, TypeOK, GrantsInCopy
    <3> QED
      BY <2>1, <3>3, <3>5 DEF IInv
  <2>3. CASE ~ Free(t, copy[r])
    BY <1>4, <2>1, <2>3 DEF GrantNext, IInv, GrantsInCopy, WaveExclusive
  <2> QED
    BY <2>2, <2>3
<1>5. ASSUME NEW r \in Request, AcquireWrite(r) PROVE IInv'
  BY <1>5 DEF AcquireWrite, IInv, TypeOK, GrantsInCopy, WaveExclusive
<1>6. ASSUME NEW r \in Request, Refused(r) PROVE IInv'
  BY <1>6 DEF Refused, Reset, IInv, TypeOK, GrantsInCopy, WaveExclusive
<1>7. ASSUME NEW r \in Request, Work(r) PROVE IInv'
  BY <1>7 DEF Work, IInv, TypeOK, GrantsInCopy, WaveExclusive
<1>8. ASSUME NEW r \in Request, StartFails(r) PROVE IInv'
  BY <1>8 DEF StartFails, Reset, IInv, TypeOK, GrantsInCopy, WaveExclusive
<1>9. ASSUME NEW r \in Request, ReleaseRead(r) PROVE IInv'
  BY <1>9 DEF ReleaseRead, IInv, TypeOK, GrantsInCopy, WaveExclusive
<1>10. ASSUME NEW r \in Request, ReleaseWrite(r) PROVE IInv'
  BY <1>10 DEF ReleaseWrite, Reset, IInv, TypeOK, GrantsInCopy, WaveExclusive
<1>11. CASE Restart
  BY <1>11 DEF Restart, IInv, TypeOK, GrantsInCopy, WaveExclusive
<1>12. CASE UNCHANGED vars
  BY <1>12 DEF vars, IInv, TypeOK, GrantsInCopy, WaveExclusive
<1> QED
  BY <1>1, <1>2, <1>3, <1>4, <1>5, <1>6, <1>7, <1>8, <1>9, <1>10, <1>11, <1>12
  DEF Next

LEMMA SpecInv == Spec => []IInv
<1>1. IInv /\ [Next]_vars => IInv'
  BY NextInv
<1> QED BY InitInv, <1>1, PTL DEF Spec

(* Every variable of WorkspaceLocks keeps its type.                        *)
THEOREM LocksTypeCorrect == Spec => []TypeOK
<1>1. IInv => TypeOK
  BY DEF IInv
<1> QED BY SpecInv, <1>1, PTL

(* One acquisition of locks never grants two tasks that share a file.      *)
THEOREM GrantsAreDisjoint == Spec => []WaveExclusive
<1>1. IInv => WaveExclusive
  BY DEF IInv
<1> QED BY SpecInv, <1>1, PTL


-----------------------------------------------------------------------------
(* One request at a time.  Nobody writes locks.json between its read and   *)
(* its write then, so what the request put into its copy reaches the file  *)
(* and stays there until the request itself releases it.                   *)

(* An entry is empty or the files of its task: also one that a process     *)
(* that died has left behind.                                              *)
Whole(locks) == \A t \in Task : locks[t] \in {{}, TargetFiles[t]}

GrantsRecorded(r) ==
  /\ pc[r] = "grant" => \A t \in granted[r] : copy[r][t] = TargetFiles[t]
  /\ pc[r] \in {"granted", "working"} =>
       \A t \in granted[r] : held[t] = TargetFiles[t]

OneInv(r) == IInv /\ Whole(held) /\ Whole(copy[r]) /\ GrantsRecorded(r)

LEMMA OneInit == ASSUME NEW r, Request = {r} PROVE Init => OneInv(r)
BY InitInv DEF Init, Idle, NoLocks, OneInv, Whole, GrantsRecorded

(* Granting a task completes its entry in the copy, whatever the entry was *)
(* before.                                                                 *)
LEMMA OneGrants ==
  ASSUME NEW r, Request = {r}, OneInv(r), NEW t \in Task, GrantNext(r, t)
  PROVE  Whole(copy[r])' /\ GrantsRecorded(r)'
<1>1. CASE Free(t, copy[r])
  <2>1. /\ copy' = [copy EXCEPT ![r][t] = @ \cup TargetFiles[t]]
        /\ granted' = [granted EXCEPT ![r] = @ \cup {t}]
        /\ pc' = pc /\ pc[r] = "grant"
    BY <1>1 DEF GrantNext
  <2>2. copy'[r] = [copy[r] EXCEPT ![t] = TargetFiles[t]]
    <3>1. copy[r][t] \cup TargetFiles[t] = TargetFiles[t]
      BY DEF OneInv, Whole
    <3>2. copy' = [copy EXCEPT ![r] =
                     [copy[r] EXCEPT ![t] = @ \cup TargetFiles[t]]]
      BY <2>1
    <3>3. copy' = [copy EXCEPT ![r] = [copy[r] EXCEPT ![t] = TargetFiles[t]]]
      BY <3>1, <3>2
    <3>4. copy \in [Request -> [Task -> SUBSET Path]] /\ r \in Request
      BY DEF OneInv, IInv, TypeOK
    <3> QED
      BY <3>3, <3>4
  <2>3. copy[r] \in [Task -> SUBSET Path] /\ granted[r] \subseteq Task
    BY DEF OneInv, IInv, TypeOK
  <2>4. granted'[r] = granted[r] \cup {t}
    BY <2>1 DEF OneInv, IInv, TypeOK
  <2>5. \A u \in granted[r] : copy[r][u] = TargetFiles[u]
    BY <2>1 DEF OneInv, GrantsRecorded
  <2>6. \A u \in Task :
          copy'[r][u] = IF u = t THEN TargetFiles[t] ELSE copy[r][u]
    BY <2>2, <2>3
  <2>7. Whole(copy[r])'
    BY <2>6 DEF OneInv, Whole
  <2>8. GrantsRecorded(r)'
    BY <2>1, <2>3, <2>4, <2>5, <2>6 DEF GrantsRecorded
  <2> QED
    BY <2>7, <2>8
<1>2. CASE ~ Free(t, copy[r])
  BY <1>2 DEF GrantNext, OneInv, Whole, GrantsRecorded
<1> QED
  BY <1>1, <1>2

LEMMA OneNext ==
  ASSUME NEW r, Request = {r} PROVE OneInv(r) /\ [Next]_vars => OneInv(r)'
<1> SUFFICES ASSUME OneInv(r), [Next]_vars
             PROVE  Whole(held)' /\ Whole(copy[r])' /\ GrantsRecorded(r)'
  BY NextInv DEF OneInv
<1> USE LocksAssumption DEF NoLocks
<1>1. ASSUME NEW S \in SUBSET Task, StartWave(r, S)
      PROVE  Whole(held)' /\ Whole(copy[r])' /\ GrantsRecorded(r)'
  BY <1>1 DEF StartWave, OneInv, IInv, TypeOK, Whole, GrantsRecorded
<1>2. ASSUME NEW k, NEW t \in Task, StartOne(r, k, t)
      PROVE  Whole(held)' /\ Whole(copy[r])' /\ GrantsRecorded(r)'
  BY <1>2 DEF StartOne, OneInv, IInv, TypeOK, Whole, GrantsRecorded
<1>3. CASE AcquireRead(r)
  <2>1. granted[r] = {}
    BY <1>3 DEF AcquireRead, OneInv, IInv, GrantsInCopy
  <2> QED
    BY <1>3, <2>1
    DEF AcquireRead, OneInv, IInv, TypeOK, Whole, GrantsRecorded
<1>4. ASSUME NEW t \in Task, GrantNext(r, t)
      PROVE  Whole(held)' /\ Whole(copy[r])' /\ GrantsRecorded(r)'
  <2>1. Whole(held)'
    BY <1>4 DEF GrantNext, OneInv, Whole
  <2> QED
    BY <1>4, <2>1, OneGrants
<1>5. CASE AcquireWrite(r)
  BY <1>5 DEF AcquireWrite, OneInv, IInv, TypeOK, Whole, GrantsRecorded
<1>6. CASE Refused(r)
  BY <1>6 DEF Refused, Reset, OneInv, IInv, TypeOK, Whole, GrantsRecorded
<1>7. CASE Work(r)
  BY <1>7 DEF Work, OneInv, IInv, TypeOK, Whole, GrantsRecorded
<1>8. CASE StartFails(r)
  BY <1>8 DEF StartFails, Reset, OneInv, IInv, TypeOK, Whole, GrantsRecorded
<1>9. CASE ReleaseRead(r)
  BY <1>9 DEF ReleaseRead, OneInv, IInv, TypeOK, Whole, GrantsRecorded
<1>10. CASE ReleaseWrite(r)
  BY <1>10 DEF ReleaseWrite, Reset, OneInv, IInv, TypeOK, Whole, GrantsRecorded
<1>11. CASE Restart
  BY <1>11 DEF Restart, OneInv, IInv, TypeOK, Whole, GrantsRecorded
<1>12. CASE UNCHANGED vars
  BY <1>12 DEF vars, OneInv, Whole, GrantsRecorded
<1> QED
  BY <1>1, <1>2, <1>3, <1>4, <1>5, <1>6, <1>7, <1>8, <1>9, <1>10, <1>11, <1>12
  DEF Next

(* With one request at a time locks.json tells the truth, however often    *)
(* the process dies: the files of a working agent are recorded as its own. *)
THEOREM OneRequestIsRecorded ==
  ASSUME NEW r, Request = {r} PROVE Spec => []WorkIsRecorded
<1>1. OneInv(r) => WorkIsRecorded
  BY DEF OneInv, GrantsRecorded, WorkIsRecorded, AtWork
<1>2. Init => OneInv(r)
  BY OneInit
<1>3. OneInv(r) /\ [Next]_vars => OneInv(r)'
  BY OneNext
<1> QED
  BY <1>1, <1>2, <1>3, PTL DEF Spec

(* With one request at a time no two agents work on one file: what two     *)
(* requests break.                                                         *)
THEOREM OneRequestIsExclusive ==
  ASSUME NEW r, Request = {r} PROVE Spec => []Exclusive
<1>1. IInv => Exclusive
  BY DEF IInv, WaveExclusive, Exclusive, AtWork
<1> QED
  BY SpecInv, <1>1, PTL
=============================================================================
