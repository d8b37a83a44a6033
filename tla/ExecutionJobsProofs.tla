-------------------------- MODULE ExecutionJobsProofs --------------------------
(***************************************************************************)
(* Proofs about ExecutionJobs, for every number of jobs, requests and      *)
(* restarts and every history limit.                                       *)
(***************************************************************************)
EXTENDS ExecutionJobs, FiniteSetTheorems, TLAPS

(* A write of the file keeps or drops each record and changes none.        *)
LEMMA WriteKeepsOrDrops ==
  ASSUME NEW d \in [Job -> RecordStatus], NEW fresh,
         WriteDocument(d, fresh)
  PROVE  /\ doc' \in [Job -> RecordStatus]
         /\ \A j \in Job : doc'[j] \in {d[j], "absent"}
BY DEF WriteDocument, RecordStatus

-----------------------------------------------------------------------------
(* The inductive invariant.                                                *)

Born == {"running"} \cup Terminal

(* Which steps a request can be at, and that it owns a job there.          *)
OwnsJob ==
  /\ \A r \in Client :
       /\ pc[r] \in {"working", "checking", "closing", "putRead", "putWrite"}
            => job[r] \in Job
       /\ pc[r] # "signalled"
       /\ lock = r => job[r] \in Job
  /\ \A r \in Stopper :
       /\ pc[r] \in {"idle", "cancel", "signalled", "putRead", "putWrite"}
       /\ pc[r] \in {"signalled", "putRead", "putWrite"} => job[r] \in Job

(* The jobs requests hold have a handle of this process, and the one a     *)
(* request is closing has ended.                                           *)
HeldIsBorn ==
  \A r \in Request :
    /\ job[r] \in Job => status[job[r]] \in Born
    /\ pc[r] \in {"checking", "closing"} => status[job[r]] # "running"
    /\ \A j \in selected[r] : status[j] \in Born

(* Nothing is recorded, and nothing was read, about a job not yet begun.   *)
RecordedIsBorn ==
  \A j \in Job : status[j] = "unborn" =>
    /\ doc[j] = "absent"
    /\ \A r \in Request : snap[r][j] = "absent"

(* begin_job registers the handle it creates; finish_job removes it only   *)
(* after its status was set.                                               *)
RunningIsRegistered ==
  \A j \in Job : status[j] = "running" => j \in handles

(* The file, what requests read from it, and what they are about to write  *)
(* never call a running job ended.                                         *)
FileAgrees ==
  \A j \in Job : status[j] = "running" =>
    /\ doc[j] \in {"absent", "running"}
    /\ \A r \in Request : snap[r][j] \in {"absent", "running"}

RecAgrees ==
  \A r \in Request : pc[r] \in {"putRead", "putWrite"} =>
    /\ rec[r] \in Born
    /\ status[job[r]] = "running" => rec[r] = "running"

(* The table is read after the file: every running job whose record was    *)
(* read is among the live ones.                                            *)
LiveCoversSnap ==
  \A r \in Request : pc[r] = "recWrite" =>
    \A j \in Job :
      status[j] = "running" /\ snap[r][j] = "running" => j \in live[r]

IInv ==
  /\ TypeOK
  /\ OwnsJob
  /\ HeldIsBorn
  /\ RecordedIsBorn
  /\ RunningIsRegistered
  /\ FileAgrees
  /\ RecAgrees
  /\ LiveCoversSnap

-----------------------------------------------------------------------------
LEMMA InitInv == Init => IInv
BY JobsAssumption
DEF Init, IInv, TypeOK, OwnsJob, HeldIsBorn, RecordedIsBorn, RunningIsRegistered,
    FileAgrees, RecAgrees, LiveCoversSnap, Request, NoDoc, RecordStatus,
    HandleStatus, Step, Terminal, Born

LEMMA NextInv == IInv /\ [Next]_vars => IInv'
<1> SUFFICES ASSUME IInv, [Next]_vars PROVE IInv'
  OBVIOUS
<1> USE JobsAssumption DEF Request, Terminal, Born, HandleStatus, RecordStatus,
        Step, table, LiveJobs
<1>1. ASSUME NEW r \in Client, StartReconcile(r) PROVE IInv'
  BY <1>1 DEF StartReconcile, IInv, TypeOK, OwnsJob, HeldIsBorn, RecordedIsBorn,
     RunningIsRegistered, FileAgrees, RecAgrees, LiveCoversSnap
<1>2. ASSUME NEW r \in Request, ReconcileRead(r) PROVE IInv'
  BY <1>2 DEF ReconcileRead, IInv, TypeOK, OwnsJob, HeldIsBorn, RecordedIsBorn,
     RunningIsRegistered, FileAgrees, RecAgrees, LiveCoversSnap
<1>3. ASSUME NEW r \in Request, ReconcileLive(r) PROVE IInv'
  <2>1. LiveCoversSnap'
    BY <1>3 DEF ReconcileLive, IInv, TypeOK, LiveCoversSnap, RunningIsRegistered
  <2>2. TypeOK'
    BY <1>3 DEF ReconcileLive, IInv, TypeOK
  <2> QED
    BY <1>3, <2>1, <2>2 DEF ReconcileLive, IInv, TypeOK, OwnsJob, HeldIsBorn,
       RecordedIsBorn, RunningIsRegistered, FileAgrees, RecAgrees
<1>4. ASSUME NEW r \in Request, ReconcileWrite(r) PROVE IInv'
  <2>1. Orphaned(r) \in [Job -> RecordStatus]
    BY <1>4 DEF Orphaned, IInv, TypeOK
  <2>2. /\ doc' \in [Job -> RecordStatus]
        /\ doc' = doc \/ \A j \in Job : doc'[j] \in {Orphaned(r)[j], "absent"}
    BY <1>4, <2>1, WriteKeepsOrDrops DEF ReconcileWrite, IInv, TypeOK
  <2>3. r \in Client
    BY <1>4 DEF ReconcileWrite, IInv, OwnsJob
  <2>4. TypeOK'
    <3>1. rec' \in [Request -> HandleStatus] /\ pc' \in [Request -> Step]
      <4>1. CASE lock = r
        <5>1. job[r] \in Job
          BY <2>3, <4>1 DEF IInv, OwnsJob
        <5>2. status[job[r]] \in HandleStatus
          BY <5>1 DEF IInv, TypeOK
        <5> QED
          BY <1>4, <4>1, <5>2 DEF ReconcileWrite, IInv, TypeOK
      <4>2. CASE lock # r
        BY <1>4, <4>2 DEF ReconcileWrite, IInv, TypeOK
      <4> QED
        BY <4>1, <4>2
    <3>2. NoDoc \in [Job -> RecordStatus]
      BY DEF NoDoc
    <3> QED
      BY <1>4, <2>2, <3>1, <3>2 DEF ReconcileWrite, IInv, TypeOK
  <2>5. OwnsJob'
    BY <1>4, <2>3 DEF ReconcileWrite, IInv, TypeOK, OwnsJob
  <2>6. HeldIsBorn'
    BY <1>4 DEF ReconcileWrite, IInv, TypeOK, HeldIsBorn
  <2>7. RecordedIsBorn'
    BY <1>4, <2>2 DEF ReconcileWrite, IInv, TypeOK, RecordedIsBorn, NoDoc,
       Orphaned, Stale, Active
  <2>8. RunningIsRegistered'
    BY <1>4 DEF ReconcileWrite, IInv, RunningIsRegistered
  <2>9. FileAgrees'
    BY <1>4, <2>2 DEF ReconcileWrite, IInv, TypeOK, FileAgrees, NoDoc, Orphaned,
       Stale, Active, LiveCoversSnap
  <2>10. RecAgrees'
    BY <1>4, <2>3 DEF ReconcileWrite, IInv, TypeOK, RecAgrees, OwnsJob, HeldIsBorn
  <2>11. LiveCoversSnap'
    BY <1>4 DEF ReconcileWrite, IInv, TypeOK, LiveCoversSnap
  <2> QED
    BY <2>4, <2>5, <2>6, <2>7, <2>8, <2>9, <2>10, <2>11 DEF IInv
<1>5. ASSUME NEW r \in Request, ReconcileFails(r) PROVE IInv'
  BY <1>5 DEF ReconcileFails, IInv, TypeOK, OwnsJob, HeldIsBorn, RecordedIsBorn,
     RunningIsRegistered, FileAgrees, RecAgrees, LiveCoversSnap, NoDoc
<1>6. ASSUME NEW r \in Client, NEW j \in Job, Begin(r, j) PROVE IInv'
  BY <1>6 DEF Begin, IInv, TypeOK, OwnsJob, HeldIsBorn, RecordedIsBorn,
     RunningIsRegistered, FileAgrees, RecAgrees, LiveCoversSnap
<1>7. ASSUME NEW r \in Request, ReplaceRead(r) PROVE IInv'
  BY <1>7 DEF ReplaceRead, IInv, TypeOK, OwnsJob, HeldIsBorn, RecordedIsBorn,
     RunningIsRegistered, FileAgrees, RecAgrees, LiveCoversSnap
<1>8. ASSUME NEW r \in Request, ReplaceWrite(r) PROVE IInv'
  <2> DEFINE d == [snap[r] EXCEPT ![job[r]] = rec[r]]
  <2>1. job[r] \in Job /\ rec[r] \in Born /\ d \in [Job -> RecordStatus]
    BY <1>8 DEF ReplaceWrite, IInv, TypeOK, OwnsJob, RecAgrees
  <2>2. /\ doc' \in [Job -> RecordStatus]
        /\ \A j \in Job : doc'[j] \in {d[j], "absent"}
    BY <1>8, <2>1, WriteKeepsOrDrops DEF ReplaceWrite
  <2>3. TypeOK'
    <3>1. snap' \in [Request -> [Job -> RecordStatus]]
      BY <1>8 DEF ReplaceWrite, IInv, TypeOK, NoDoc
    <3>2. /\ pc' \in [Request -> Step]
          /\ job' \in [Request -> Job \cup {NoJob}]
          /\ rec' \in [Request -> HandleStatus]
          /\ lock' \in Request \cup {NoRequest}
      BY <1>8 DEF ReplaceWrite, IInv, TypeOK
    <3> QED
      BY <1>8, <2>2, <3>1, <3>2 DEF ReplaceWrite, IInv, TypeOK
  <2>4. OwnsJob'
    <3>1. \A q \in Request : q # r => pc'[q] = pc[q] /\ job'[q] = job[q]
      BY <1>8 DEF ReplaceWrite, IInv, TypeOK
    <3>2. \A q \in Client : lock' = q => q # r /\ lock = q
      BY <1>8 DEF ReplaceWrite
    <3>3. CASE r \in Stopper
      BY <1>8, <3>1, <3>2, <3>3 DEF ReplaceWrite, IInv, TypeOK, OwnsJob
    <3>4. CASE r \in Client
      <4>1. \/ pc'[r] = "working" /\ job'[r] \in Job
            \/ pc'[r] = "idle"
        BY <1>8, <2>1, <3>4 DEF ReplaceWrite, IInv, TypeOK
      <4> QED
        BY <3>1, <3>2, <3>4, <4>1 DEF IInv, OwnsJob
    <3> QED
      BY <3>3, <3>4
  <2>5. HeldIsBorn'
    BY <1>8 DEF ReplaceWrite, IInv, TypeOK, HeldIsBorn
  <2>6. RecordedIsBorn'
    BY <1>8, <2>1, <2>2 DEF ReplaceWrite, IInv, TypeOK, RecordedIsBorn, NoDoc,
       HeldIsBorn
  <2>7. RunningIsRegistered'
    BY <1>8 DEF ReplaceWrite, IInv, RunningIsRegistered
  <2>8. FileAgrees'
    BY <1>8, <2>1, <2>2 DEF ReplaceWrite, IInv, TypeOK, FileAgrees, NoDoc,
       RecAgrees
  <2>9. RecAgrees'
    BY <1>8, <2>1 DEF ReplaceWrite, IInv, TypeOK, RecAgrees
  <2>10. LiveCoversSnap'
    BY <1>8 DEF ReplaceWrite, IInv, TypeOK, LiveCoversSnap
  <2> QED
    BY <2>3, <2>4, <2>5, <2>6, <2>7, <2>8, <2>9, <2>10 DEF IInv
<1>9. ASSUME NEW r \in Client, NEW o \in Terminal, FinishStatus(r, o) PROVE IInv'
  BY <1>9 DEF FinishStatus, IInv, TypeOK, OwnsJob, HeldIsBorn, RecordedIsBorn,
     RunningIsRegistered, FileAgrees, RecAgrees, LiveCoversSnap
<1>16. ASSUME NEW r \in Client, FinishCancelled(r) PROVE IInv'
  BY <1>16 DEF FinishCancelled, IInv, TypeOK, OwnsJob, HeldIsBorn,
     RecordedIsBorn, RunningIsRegistered, FileAgrees, RecAgrees, LiveCoversSnap
<1>10. ASSUME NEW r \in Client, FinishPop(r) PROVE IInv'
  BY <1>10 DEF FinishPop, IInv, TypeOK, OwnsJob, HeldIsBorn, RecordedIsBorn,
     RunningIsRegistered, FileAgrees, RecAgrees, LiveCoversSnap
<1>11. ASSUME NEW r \in Stopper, NEW S \in SUBSET Job, CancelSelect(r, S)
       PROVE IInv'
  BY <1>11 DEF CancelSelect, IInv, TypeOK, OwnsJob, HeldIsBorn, RecordedIsBorn,
     RunningIsRegistered, FileAgrees, RecAgrees, LiveCoversSnap
<1>12. ASSUME NEW r \in Stopper, NEW j \in Job, CancelSignal(r, j) PROVE IInv'
  BY <1>12 DEF CancelSignal, IInv, TypeOK, OwnsJob, HeldIsBorn, RecordedIsBorn,
     RunningIsRegistered, FileAgrees, RecAgrees, LiveCoversSnap
<1>17. ASSUME NEW r \in Stopper, CancelRecord(r) PROVE IInv'
  BY <1>17 DEF CancelRecord, IInv, TypeOK, OwnsJob, HeldIsBorn, RecordedIsBorn,
     RunningIsRegistered, FileAgrees, RecAgrees, LiveCoversSnap
<1>13. ASSUME NEW r \in Stopper, CancelDone(r) PROVE IInv'
  BY <1>13 DEF CancelDone, IInv, TypeOK, OwnsJob, HeldIsBorn, RecordedIsBorn,
     RunningIsRegistered, FileAgrees, RecAgrees, LiveCoversSnap
<1>14. CASE Restart
  BY <1>14 DEF Restart, IInv, TypeOK, OwnsJob, HeldIsBorn, RecordedIsBorn,
     RunningIsRegistered, FileAgrees, RecAgrees, LiveCoversSnap, NoDoc
<1>15. CASE UNCHANGED vars
  BY <1>15 DEF vars, IInv, TypeOK, OwnsJob, HeldIsBorn, RecordedIsBorn,
     RunningIsRegistered, FileAgrees, RecAgrees, LiveCoversSnap
<1> QED
  BY <1>1, <1>2, <1>3, <1>4, <1>5, <1>6, <1>7, <1>8, <1>9, <1>10, <1>11, <1>12,
     <1>13, <1>14, <1>15, <1>16, <1>17
  DEF Next, Reconcile, Replace, Finish, Cancel

-----------------------------------------------------------------------------
LEMMA SpecInv == Spec => []IInv
<1>1. IInv /\ [Next]_vars => IInv'
  BY NextInv
<1> QED BY InitInv, <1>1, PTL DEF Spec

(* Every variable of ExecutionJobs keeps its type.                         *)
THEOREM JobsTypeCorrect == Spec => []TypeOK
<1>1. IInv => TypeOK
  BY DEF IInv
<1> QED BY SpecInv, <1>1, PTL

(* No interleaving of reconciliations, starts, stops, cancellations and    *)
(* restarts records a job that still runs in this process as ended.        *)
THEOREM JobsLiveNotOrphaned == Spec => []LiveNotOrphaned
<1>1. IInv => LiveNotOrphaned
  BY DEF IInv, FileAgrees, LiveNotOrphaned, LiveJobs, TypeOK
<1> QED BY SpecInv, <1>1, PTL

-----------------------------------------------------------------------------
(* One request at a time, and any number of stop requests.                 *)

Putting(r) == pc[r] \in {"putRead", "putWrite"}
Reading(r) == pc[r] \in {"recRead", "recLive", "recWrite"}
Working(r) == pc[r] \in {"working", "checking", "closing"}
Recorded(d) == { j \in Job : d[j] # "absent" }

(* Who holds the lock, and that a stop request works only while the job it *)
(* stops does or is being closed.                                          *)
LockHeld(c) ==
  /\ Putting(c) => lock = c
  /\ pc[c] = "idle" \/ Working(c) => lock # c
  /\ job[c] \in Job <=> lock = c \/ Working(c)
  /\ \A s \in Stopper :
       /\ lock = s <=> pc[s] # "idle"
       /\ lock = s => Working(c) /\ selected[s] \subseteq {job[c]}
       /\ pc[s] = "signalled" \/ Putting(s) => job[s] = job[c]

(* What a request read is what the file and the table still hold.          *)
NothingMoved(c) ==
  /\ \A r \in Request :
       pc[r] \in {"recLive", "recWrite", "putWrite"} => snap[r] = doc
  /\ pc[c] = "recWrite" => live[c] = LiveJobs
  /\ handles \subseteq {job[c]}
  /\ Putting(c) /\ rec[c] # "running" => handles = {}

(* What is recorded of a job is its status, or what that was before it was *)
(* turned into cancelled.                                                  *)
Agrees(recorded, now) ==
  \/ recorded = now
  \/ recorded = "completed" /\ now = "cancelled"

(* The record of the request's own job, from begin_job to finish_job.      *)
OwnRecord(c) ==
  /\ lock = c /\ (Reading(c) \/ rec[c] = "running") =>
       status[job[c]] = "running" /\ doc[job[c]] = "absent"
  /\ pc[c] = "working" => status[job[c]] = "running" /\ doc[job[c]] = "running"
  /\ pc[c] \in {"checking", "closing"} \/ (Putting(c) /\ rec[c] # "running") =>
       /\ status[job[c]] \in Terminal
       /\ doc[job[c]] = "running" \/ Agrees(doc[job[c]], status[job[c]])
  /\ Putting(c) => rec[c] = status[job[c]]
  /\ \A s \in Stopper : Putting(s) =>
       /\ rec[s] = "running" \/ Agrees(rec[s], status[job[c]])
       /\ doc[job[c]] = "running" \/ Agrees(doc[job[c]], rec[s])

(* Any other record is of a job that ended; it is a dead process's if it   *)
(* was not closed, and then there is one at most.                          *)
OtherRecords(c) ==
  /\ IsFiniteSet(Recorded(doc))
  /\ \A i, j \in Active(doc) : i = j
  /\ Working(c) \/ Putting(c) =>
       Active(doc) \subseteq {job[c]}
  /\ \A j \in Job \ {job[c]} :
       /\ doc[j] # "absent" => Ended(j)
       /\ doc[j] \in {"running", "orphaned"} => status[j] = "lost"

SingleInv(c) ==
  LockHeld(c) /\ NothingMoved(c) /\ OwnRecord(c) /\ OtherRecords(c)

LEMMA NewestIsNotEmpty ==
  ASSUME NEW S, IsFiniteSet(S), S # {}, NEW kept, NEW fresh,
         Newest(kept, S, fresh)
  PROVE  kept # {}
<1>1. Cardinality(S) \in Nat /\ Cardinality(S) # 0
  BY FS_CardinalityType, FS_EmptySet
<1>2. Cardinality(kept) # 0
  BY <1>1, JobsAssumption DEF Newest
<1> QED
  BY <1>2, FS_EmptySet

(* A write drops no record that is the only running one, and not the       *)
(* closed one it writes.                                                   *)
LEMMA WriteKeeps ==
  ASSUME NEW d \in [Job -> RecordStatus], IsFiniteSet(Recorded(d)),
         NEW fresh, WriteDocument(d, fresh)
  PROVE  /\ IsFiniteSet(Recorded(doc'))
         /\ \A j \in Active(d) : Active(d) \subseteq {j} => doc'[j] = "running"
         /\ \A j \in History(d) :
              fresh \cap History(d) \subseteq {j} /\ j \in fresh =>
                doc'[j] = d[j]
<1>1. PICK a \in SUBSET Active(d), h \in SUBSET History(d) :
        /\ Newest(a, Active(d), fresh) /\ Newest(h, History(d), fresh)
        /\ doc' = [j \in Job |-> IF j \in a \cup h THEN d[j] ELSE "absent"]
  BY DEF WriteDocument
<1>2. /\ Active(d) \subseteq Recorded(d) /\ History(d) \subseteq Recorded(d)
      /\ Active(d) \subseteq Job /\ History(d) \subseteq Job
  BY DEF Active, History, Recorded
<1>3. IsFiniteSet(Active(d)) /\ IsFiniteSet(History(d))
  BY <1>2, FS_Subset
<1>4. IsFiniteSet(Recorded(doc'))
  <2>1. Recorded(doc') \subseteq Recorded(d)
    BY <1>1, <1>2 DEF Recorded
  <2> QED
    BY <2>1, FS_Subset
<1>5. ASSUME NEW j \in Active(d), Active(d) \subseteq {j}
      PROVE  doc'[j] = "running"
  <2>1. a # {}
    BY <1>1, <1>3, <1>5, NewestIsNotEmpty
  <2>2. j \in a /\ d[j] = "running" /\ j \in Job
    BY <1>5, <2>1 DEF Active
  <2> QED
    BY <1>1, <2>2
<1>6. ASSUME NEW j \in History(d), j \in fresh,
             fresh \cap History(d) \subseteq {j}
      PROVE  doc'[j] = d[j]
  <2>1. h # {}
    BY <1>1, <1>3, <1>6, NewestIsNotEmpty
  <2>2. j \in h /\ j \in Job
    BY <1>1, <1>2, <1>6, <2>1 DEF Newest
  <2> QED
    BY <1>1, <2>2
<1> QED
  BY <1>4, <1>5, <1>6

LEMMA InitSingle ==
  ASSUME NEW c, Client = {c}, Init PROVE SingleInv(c)
<1>1. Recorded(doc) = {}
  BY DEF Init, NoDoc, Recorded
<1>2. IsFiniteSet(Recorded(doc))
  BY <1>1, FS_EmptySet
<1> QED
  BY <1>2, JobsAssumption
  DEF Init, SingleInv, LockHeld, NothingMoved, OwnRecord, OtherRecords, NoDoc,
      Putting, Reading, Working, Agrees, Request, Active

(* What a reconciliation makes of the file: a record that is running and   *)
(* whose process is gone is called orphaned.                               *)
LEMMA ReconcileWrites ==
  ASSUME NEW c, Client = {c}, IInv, SingleInv(c), NEW r \in Request,
         ReconcileWrite(r)
  PROVE  /\ r = c /\ IsFiniteSet(Recorded(doc'))
         /\ \A j \in Job :
              \/ doc'[j] \in {doc[j], "absent"} /\ doc[j] # "running"
              \/ doc[j] = "running" /\ doc'[j] = "running" /\ j \in LiveJobs
              \/ doc[j] = "running" /\ doc'[j] = "orphaned"
<1>1. r = c /\ snap[c] = doc /\ live[c] = LiveJobs
  BY DEF ReconcileWrite, IInv, OwnsJob, SingleInv, NothingMoved, Request
<1>2. /\ doc \in [Job -> RecordStatus] /\ Orphaned(c) \in [Job -> RecordStatus]
      /\ IsFiniteSet(Recorded(doc)) /\ \A i, j \in Active(doc) : i = j
  BY DEF IInv, TypeOK, Orphaned, RecordStatus, SingleInv, OtherRecords, Request
<1>3. CASE Stale(c) = {}
  BY <1>1, <1>2, <1>3 DEF ReconcileWrite, Stale, Active
<1>4. CASE Stale(c) # {}
  <2>1. WriteDocument(Orphaned(c), Stale(c))
    BY <1>1, <1>4 DEF ReconcileWrite
  <2>2. IsFiniteSet(Recorded(Orphaned(c)))
    <3>1. Recorded(Orphaned(c)) \subseteq Recorded(doc)
      BY <1>1 DEF Recorded, Orphaned, Stale, Active
    <3> QED
      BY <1>2, <3>1, FS_Subset
  <2>3. /\ IsFiniteSet(Recorded(doc'))
        /\ \A j \in Job : doc'[j] \in {Orphaned(c)[j], "absent"}
    BY <1>2, <2>1, <2>2, WriteKeepsOrDrops, WriteKeeps
  <2>4. ASSUME NEW j \in Stale(c) PROVE doc'[j] = "orphaned"
    <3>1. j \in Job /\ Orphaned(c)[j] = "orphaned"
      BY <2>4 DEF Stale, Active, Orphaned
    <3>2. j \in History(Orphaned(c)) /\ Stale(c) \subseteq {j}
      BY <1>1, <1>2, <2>4, <3>1 DEF History, Stale
    <3> QED
      BY <1>2, <2>1, <2>2, <2>4, <3>1, <3>2, WriteKeeps
  <2>5. \A j \in Job : doc[j] = "running" => j \in Stale(c)
    <3>1. PICK i \in Stale(c) : TRUE
      BY <1>4
    <3> QED
      BY <1>1, <1>2, <3>1 DEF Stale, Active
  <2>6. \A j \in Job : doc[j] # "running" => Orphaned(c)[j] = doc[j]
    BY <1>1 DEF Stale, Active, Orphaned
  <2> QED
    BY <1>1, <2>3, <2>4, <2>5, <2>6
<1> QED
  BY <1>3, <1>4

(* A record that is replaced is the one of the request's own job, and the  *)
(* file has it afterwards.                                                 *)
LEMMA ReplaceWrites ==
  ASSUME NEW c, Client = {c}, IInv, SingleInv(c), NEW r \in Request,
         ReplaceWrite(r)
  PROVE  /\ job[r] = job[c] /\ job[c] \in Job
         /\ IsFiniteSet(Recorded(doc'))
         /\ doc'[job[c]] = rec[r]
         /\ \A j \in Job \ {job[c]} : doc'[j] \in {doc[j], "absent"}
<1> DEFINE k == job[c]
           d == [doc EXCEPT ![k] = rec[r]]
<1>1. /\ job[r] = k /\ k \in Job /\ rec[r] \in Born /\ snap[r] = doc
      /\ Active(doc) \subseteq {k}
  BY DEF ReplaceWrite, IInv, OwnsJob, RecAgrees, SingleInv, LockHeld,
         NothingMoved, OtherRecords, Putting, Request
<1>2. /\ doc \in [Job -> RecordStatus] /\ d \in [Job -> RecordStatus]
      /\ WriteDocument(d, {k}) /\ d[k] = rec[r]
      /\ \A j \in Job \ {k} : d[j] = doc[j]
  BY <1>1 DEF ReplaceWrite, IInv, TypeOK, RecordStatus, Born, Terminal
<1>3. IsFiniteSet(Recorded(d))
  <2>1. Recorded(d) \subseteq Recorded(doc) \cup {k}
    BY <1>1 DEF Recorded
  <2>2. IsFiniteSet(Recorded(doc) \cup {k})
    BY FS_AddElement DEF SingleInv, OtherRecords
  <2> QED
    BY <2>1, <2>2, FS_Subset
<1> HIDE DEF d
<1>4. /\ IsFiniteSet(Recorded(doc'))
      /\ \A j \in Job : doc'[j] \in {d[j], "absent"}
  BY <1>2, <1>3, WriteKeepsOrDrops, WriteKeeps
<1>5. doc'[k] = rec[r]
  <2>1. CASE rec[r] = "running"
    <3>1. k \in Active(d) /\ Active(d) \subseteq {k}
      BY <1>1, <1>2, <2>1 DEF Active
    <3> QED
      BY <1>2, <1>3, <2>1, <3>1, WriteKeeps
  <2>2. CASE rec[r] # "running"
    <3>1. k \in History(d)
      BY <1>1, <1>2, <2>2 DEF History, Born, Terminal
    <3> QED
      BY <1>2, <1>3, <3>1, WriteKeeps
  <2> QED
    BY <2>1, <2>2
<1> QED
  BY <1>1, <1>2, <1>4, <1>5

LEMMA ReconcileWriteSingle ==
  ASSUME NEW c, Client = {c}, IInv, SingleInv(c), NEW r \in Request,
         ReconcileWrite(r)
  PROVE  SingleInv(c)'
<1> USE DEF Request, Putting, Reading, Working, Agrees
<1>1. /\ r = c /\ IsFiniteSet(Recorded(doc'))
      /\ \A j \in Job :
           \/ doc'[j] \in {doc[j], "absent"} /\ doc[j] # "running"
           \/ doc[j] = "running" /\ doc'[j] = "running" /\ j \in LiveJobs
           \/ doc[j] = "running" /\ doc'[j] = "orphaned"
  BY ReconcileWrites
<1>2. /\ pc[c] = "recWrite"
      /\ pc' = [pc EXCEPT ![c] = IF lock = c THEN "putRead" ELSE "idle"]
      /\ rec' = IF lock = c THEN [rec EXCEPT ![c] = status[job[c]]] ELSE rec
      /\ UNCHANGED <<handles, status, lock, job, selected>>
  BY <1>1 DEF ReconcileWrite, table
<1>3. /\ pc \in [Request -> Step] /\ rec \in [Request -> HandleStatus]
      /\ \A s \in Stopper : lock # s /\ pc[s] = "idle" /\ s # c
  BY <1>2, JobsAssumption DEF IInv, TypeOK, SingleInv, LockHeld
<1>4. LockHeld(c)'
  BY <1>2, <1>3, JobsAssumption DEF SingleInv, LockHeld, Step
<1>5. NothingMoved(c)'
  <2>1. lock = c => status[job[c]] = "running"
    BY <1>2 DEF SingleInv, OwnRecord
  <2>2. Putting(c)' => lock = c /\ rec'[c] = status[job[c]]
    BY <1>2, <1>3 DEF Step
  <2> QED
    BY <1>2, <1>3, <2>1, <2>2 DEF SingleInv, NothingMoved
<1>6. OwnRecord(c)'
  BY <1>1, <1>2, <1>3 DEF SingleInv, OwnRecord, LockHeld, Step, Terminal
<1>7. OtherRecords(c)'
  <2>1. lock = c => Active(doc') = {}
    <3>1. ASSUME lock = c, NEW j \in Job, doc'[j] = "running" PROVE FALSE
      <4>1. doc[j] = "running" /\ j \in LiveJobs
        BY <1>1, <3>1
      <4>2. j = job[c]
        BY <4>1 DEF SingleInv, NothingMoved, LiveJobs
      <4> QED
        BY <1>2, <3>1, <4>1, <4>2 DEF SingleInv, OwnRecord
    <3> QED
      BY <3>1 DEF Active
  <2>2. Active(doc') \subseteq Active(doc)
    BY <1>1 DEF Active
  <2>3. \A j \in Job \ {job[c]} :
          /\ doc'[j] # "absent" => Ended(j)
          /\ doc'[j] \in {"running", "orphaned"} => status[j] = "lost"
    BY <1>1 DEF SingleInv, OtherRecords
  <2> QED
    BY <1>1, <1>2, <1>3, <2>1, <2>2, <2>3 DEF SingleInv, OtherRecords, Ended
<1> QED
  BY <1>4, <1>5, <1>6, <1>7 DEF SingleInv

LEMMA ReplaceWriteSingle ==
  ASSUME NEW c, Client = {c}, IInv, SingleInv(c), NEW r \in Request,
         ReplaceWrite(r)
  PROVE  SingleInv(c)'
<1> USE JobsAssumption DEF Request, Putting, Reading, Working, Agrees
<1>1. /\ job[r] = job[c] /\ job[c] \in Job
      /\ IsFiniteSet(Recorded(doc'))
      /\ doc'[job[c]] = rec[r]
      /\ \A j \in Job \ {job[c]} : doc'[j] \in {doc[j], "absent"}
  BY ReplaceWrites
<1>2. /\ rec[r] \in Born /\ pc[r] = "putWrite"
      /\ UNCHANGED <<handles, status, cancelRequested, live, selected>>
      /\ snap' = [snap EXCEPT ![r] = NoDoc]
      /\ rec' = [rec EXCEPT ![r] = "unborn"]
  BY DEF ReplaceWrite, IInv, RecAgrees, table
<1>3. \/ /\ r \in Stopper /\ r # c
         /\ pc' = [pc EXCEPT ![r] = "cancel"]
         /\ job' = [job EXCEPT ![r] = NoJob]
         /\ lock' = lock
      \/ /\ r = c /\ rec[c] = "running"
         /\ pc' = [pc EXCEPT ![c] = "working"]
         /\ lock' = NoRequest /\ job' = job
      \/ /\ r = c /\ rec[c] # "running"
         /\ pc' = [pc EXCEPT ![c] = "idle"]
         /\ job' = [job EXCEPT ![c] = NoJob]
         /\ lock' = NoRequest
  BY DEF ReplaceWrite
<1>4. /\ pc \in [Request -> Step] /\ job \in [Request -> Job \cup {NoJob}]
      /\ rec \in [Request -> HandleStatus] /\ lock = r
      /\ \A s \in Stopper : s # r => pc[s] = "idle"
  BY <1>2 DEF IInv, TypeOK, SingleInv, LockHeld
<1>5. LockHeld(c)'
  BY <1>2, <1>3, <1>4 DEF SingleInv, LockHeld, Step
<1>6. NothingMoved(c)'
  <2>1. \A q \in Request :
          pc'[q] \notin {"recLive", "recWrite", "putWrite"}
    BY <1>2, <1>3, <1>4 DEF SingleInv, LockHeld, Step
  <2>2. handles \subseteq {job'[c]}
    BY <1>2, <1>3, <1>4 DEF SingleInv, NothingMoved
  <2>3. Putting(c)' /\ rec'[c] # "running" => handles = {}
    BY <1>2, <1>3, <1>4 DEF SingleInv, LockHeld, NothingMoved, Step
  <2> QED
    BY <1>2, <2>1, <2>2, <2>3 DEF NothingMoved
<1>7. OwnRecord(c)'
  BY <1>1, <1>2, <1>3, <1>4 DEF SingleInv, OwnRecord, LockHeld, Step, Terminal,
     Born
<1>8. OtherRecords(c)'
  <2>1. \A j \in Job \ {job[c]} : doc'[j] # "running"
    BY <1>1, <1>2, <1>4 DEF SingleInv, OtherRecords, LockHeld, Active
  <2>2. \A j \in Job \ {job[c]} :
          /\ doc'[j] # "absent" => Ended(j)
          /\ doc'[j] \in {"running", "orphaned"} => status[j] = "lost"
    BY <1>1 DEF SingleInv, OtherRecords
  <2>3. r = c /\ rec[c] # "running" =>
          /\ doc'[job[c]] \in Terminal /\ Ended(job[c])
    BY <1>1, <1>2 DEF Ended, SingleInv, OwnRecord, Terminal, Born
  <2> QED
    BY <1>1, <1>2, <1>3, <1>4, <2>1, <2>2, <2>3
    DEF OtherRecords, Active, Ended, Terminal
<1> QED
  BY <1>5, <1>6, <1>7, <1>8 DEF SingleInv

LEMMA NextSingle ==
  ASSUME NEW c, Client = {c}, IInv, SingleInv(c), [Next]_vars
  PROVE  SingleInv(c)'
<1> USE JobsAssumption DEF Request, Terminal, Born, HandleStatus, RecordStatus,
        Step, table, LiveJobs, Putting, Reading, Working, Agrees, Ended, Active
<1>0. IInv'
  BY NextInv
<1>1. ASSUME StartReconcile(c) PROVE SingleInv(c)'
  BY <1>1 DEF StartReconcile, IInv, TypeOK, OwnsJob, SingleInv, LockHeld,
     NothingMoved, OwnRecord, OtherRecords
<1>2. ASSUME NEW r \in Request, ReconcileRead(r) PROVE SingleInv(c)'
  BY <1>2 DEF ReconcileRead, IInv, TypeOK, OwnsJob, SingleInv, LockHeld,
     NothingMoved, OwnRecord, OtherRecords
<1>3. ASSUME NEW r \in Request, ReconcileLive(r) PROVE SingleInv(c)'
  BY <1>3 DEF ReconcileLive, IInv, TypeOK, OwnsJob, SingleInv, LockHeld,
     NothingMoved, OwnRecord, OtherRecords
<1>4. ASSUME NEW r \in Request, ReconcileWrite(r) PROVE SingleInv(c)'
  BY <1>4, ReconcileWriteSingle
<1>5. ASSUME NEW r \in Request, ReconcileFails(r) PROVE SingleInv(c)'
  BY <1>5 DEF ReconcileFails, IInv, TypeOK, OwnsJob, SingleInv, LockHeld,
     NothingMoved, OwnRecord, OtherRecords
<1>6. ASSUME NEW j \in Job, Begin(c, j) PROVE SingleInv(c)'
  BY <1>6 DEF Begin, IInv, TypeOK, OwnsJob, RecordedIsBorn, SingleInv, LockHeld,
     NothingMoved, OwnRecord, OtherRecords
<1>7. ASSUME NEW r \in Request, ReplaceRead(r) PROVE SingleInv(c)'
  BY <1>7 DEF ReplaceRead, IInv, TypeOK, OwnsJob, SingleInv, LockHeld,
     NothingMoved, OwnRecord, OtherRecords
<1>8. ASSUME NEW r \in Request, ReplaceWrite(r) PROVE SingleInv(c)'
  BY <1>8, ReplaceWriteSingle
<1>9. ASSUME NEW o \in Terminal, FinishStatus(c, o) PROVE SingleInv(c)'
  BY <1>9 DEF FinishStatus, IInv, TypeOK, OwnsJob, SingleInv, LockHeld,
     NothingMoved, OwnRecord, OtherRecords
<1>16. ASSUME FinishCancelled(c) PROVE SingleInv(c)'
  BY <1>16 DEF FinishCancelled, IInv, TypeOK, OwnsJob, SingleInv, LockHeld,
     NothingMoved, OwnRecord, OtherRecords
<1>10. ASSUME FinishPop(c) PROVE SingleInv(c)'
  BY <1>10 DEF FinishPop, IInv, TypeOK, OwnsJob, SingleInv, LockHeld,
     NothingMoved, OwnRecord, OtherRecords
<1>11. ASSUME NEW r \in Stopper, NEW S \in SUBSET Job, CancelSelect(r, S)
       PROVE  SingleInv(c)'
  BY <1>11 DEF CancelSelect, IInv, TypeOK, OwnsJob, SingleInv, LockHeld,
     NothingMoved, OwnRecord, OtherRecords
<1>12. ASSUME NEW r \in Stopper, NEW j \in Job, CancelSignal(r, j)
       PROVE  SingleInv(c)'
  BY <1>12 DEF CancelSignal, IInv, TypeOK, OwnsJob, SingleInv, LockHeld,
     NothingMoved, OwnRecord, OtherRecords
<1>17. ASSUME NEW r \in Stopper, CancelRecord(r) PROVE SingleInv(c)'
  BY <1>17 DEF CancelRecord, IInv, TypeOK, OwnsJob, SingleInv, LockHeld,
     NothingMoved, OwnRecord, OtherRecords
<1>13. ASSUME NEW r \in Stopper, CancelDone(r) PROVE SingleInv(c)'
  BY <1>13 DEF CancelDone, IInv, TypeOK, OwnsJob, SingleInv, LockHeld,
     NothingMoved, OwnRecord, OtherRecords
<1>14. CASE Restart
  BY <1>14 DEF Restart, IInv, TypeOK, OwnsJob, SingleInv, LockHeld,
     NothingMoved, OwnRecord, OtherRecords, InFlight
<1>15. CASE UNCHANGED vars
  BY <1>15 DEF vars, IInv, TypeOK, OwnsJob, SingleInv, LockHeld,
     NothingMoved, OwnRecord, OtherRecords
<1> QED
  BY <1>1, <1>2, <1>3, <1>4, <1>5, <1>6, <1>7, <1>8, <1>9, <1>10, <1>11,
     <1>12, <1>13, <1>14, <1>15, <1>16, <1>17
  DEF Next, Reconcile, Replace, Finish, Cancel

LEMMA SingleSpec ==
  ASSUME NEW c, Client = {c} PROVE Spec => [](IInv /\ SingleInv(c))
<1>1. Init => SingleInv(c)
  BY InitSingle
<1>2. IInv /\ SingleInv(c) /\ [Next]_vars => SingleInv(c)'
  BY NextSingle
<1> QED
  BY InitInv, NextInv, <1>1, <1>2, PTL DEF Spec

(* While requests come one at a time, begin_job has classified whatever a  *)
(* restart left behind before its request works, and however stop requests *)
(* interleave the request's own record says that it runs.                  *)
THEOREM JobsRestartClassified ==
  ASSUME NEW c, Client = {c} PROVE Spec => []RestartClassified
<1>1. IInv /\ SingleInv(c) => RestartClassified
  BY DEF IInv, TypeOK, RunningIsRegistered, SingleInv, LockHeld, OwnRecord,
         OtherRecords, RestartClassified, LiveJobs, Active, Request, Working
<1> QED
  BY SingleSpec, <1>1, PTL

(* While requests come one at a time, only jobs of a dead process are      *)
(* called orphaned.                                                        *)
THEOREM JobsOrphanIsForeign ==
  ASSUME NEW c, Client = {c} PROVE Spec => []OrphanIsForeign
<1>1. IInv /\ SingleInv(c) => OrphanIsForeign
  BY DEF SingleInv, OtherRecords, OrphanIsForeign, InFlight
<1> QED
  BY SingleSpec, <1>1, PTL

-----------------------------------------------------------------------------
(* The ledger.                                                             *)

Outcome == [j \in Job |-> IF doc[j] # "absent" THEN doc[j]
                          ELSE IF Ended(j) THEN "forgotten"
                          ELSE "none"]


LEMMA LedgerStep ==
  ASSUME NEW c, Client = {c}, IInv, SingleInv(c), [Next]_vars,
         NEW j \in Job
  PROVE  <<Outcome[j], Outcome'[j]>> \in Ledger!Legal
<1> USE DEF Request
<1>0. doc \in [Job -> RecordStatus]
  BY DEF IInv, TypeOK
<1>1. ASSUME NEW r \in Request, ReconcileWrite(r)
      PROVE  <<Outcome[j], Outcome'[j]>> \in Ledger!Legal
  <2>1. \/ doc'[j] \in {doc[j], "absent"} /\ doc[j] # "running"
        \/ doc[j] = "running" /\ doc'[j] \in {"running", "orphaned"}
    BY <1>1, ReconcileWrites
  <2>2. status' = status
    BY <1>1 DEF ReconcileWrite, table
  <2>3. doc[j] = doc'[j] \/ doc[j] = "running" \/ Ended(j)
    <3>1. CASE j # job[c]
      BY <2>1, <3>1 DEF SingleInv, OtherRecords
    <3>2. CASE j = job[c]
      <4>1. doc[j] = "absent"
        BY <1>1, <3>2, ReconcileWrites
        DEF SingleInv, LockHeld, OwnRecord, Reading, Working, ReconcileWrite
      <4> QED
        BY <2>1, <4>1
    <3> QED
      BY <3>1, <3>2
  <2> QED
    BY <1>0, <2>1, <2>2, <2>3
    DEF Outcome, Ended, Ledger!Legal, Ledger!Terminal, RecordStatus, Terminal
<1>2. ASSUME NEW r \in Request, ReplaceWrite(r)
      PROVE  <<Outcome[j], Outcome'[j]>> \in Ledger!Legal
  <2>1. /\ job[r] = job[c] /\ job[c] \in Job
        /\ doc'[job[c]] = rec[r]
        /\ \A i \in Job \ {job[c]} : doc'[i] \in {doc[i], "absent"}
    BY <1>2, ReplaceWrites
  <2>2. status' = status /\ pc[r] = "putWrite"
    BY <1>2 DEF ReplaceWrite, table
  <2>3. CASE j # job[c]
    <3>1. doc[j] # "absent" => Ended(j) /\ doc[j] # "running"
      BY <2>2, <2>3 DEF SingleInv, OtherRecords, LockHeld, Putting, Active
    <3> QED
      BY <1>0, <2>1, <2>2, <2>3, <3>1
      DEF Outcome, Ended, Ledger!Legal, Ledger!Terminal, RecordStatus, Terminal
  <2>4. CASE j = job[c]
    <3>1. /\ rec[r] \in {"running"} \cup Terminal
          /\ \/ doc[j] = "absent" /\ rec[r] = "running" /\ ~Ended(j)
             \/ doc[j] = "running" \/ Agrees(doc[j], rec[r])
      BY <2>2, <2>4
      DEF SingleInv, OwnRecord, LockHeld, Putting, Working, Agrees, Terminal,
          Ended, IInv, RecAgrees, Born
    <3> QED
      BY <1>0, <2>1, <2>2, <2>4, <3>1
      DEF Agrees, Outcome, Ended, Ledger!Legal, Ledger!Terminal, RecordStatus, Terminal
  <2> QED
    BY <2>3, <2>4
<1>3. ASSUME doc' = doc, Ended(j) => Ended(j)'
      PROVE  <<Outcome[j], Outcome'[j]>> \in Ledger!Legal
  BY <1>0, <1>3
  DEF Outcome, Ended, Ledger!Legal, Ledger!Terminal, RecordStatus, Terminal
<1>4. ASSUME doc' = doc, status' = status
      PROVE  <<Outcome[j], Outcome'[j]>> \in Ledger!Legal
  BY <1>3, <1>4 DEF Ended
<1>5. CASE Restart
  BY <1>3, <1>5 DEF Restart, Ended, IInv, TypeOK
<1>6. ASSUME NEW i \in Job, Begin(c, i)
      PROVE  <<Outcome[j], Outcome'[j]>> \in Ledger!Legal
  BY <1>3, <1>6 DEF Begin, Ended, Terminal, IInv, TypeOK
<1>7. ASSUME NEW o \in Terminal, FinishStatus(c, o)
      PROVE  <<Outcome[j], Outcome'[j]>> \in Ledger!Legal
  BY <1>3, <1>7 DEF FinishStatus, Ended, Terminal, IInv, TypeOK
<1>8. ASSUME FinishCancelled(c)
      PROVE  <<Outcome[j], Outcome'[j]>> \in Ledger!Legal
  BY <1>3, <1>8 DEF FinishCancelled, Ended, Terminal, IInv, TypeOK
<1> QED
  BY <1>1, <1>2, <1>4, <1>5, <1>6, <1>7, <1>8
  DEF Next, Reconcile, Replace, Finish, Cancel, vars, table, StartReconcile,
      ReconcileRead, ReconcileLive, ReconcileFails, ReplaceRead, FinishPop,
      CancelSelect, CancelSignal, CancelRecord, CancelDone

(* While requests come one at a time, the file is a ledger: each job is    *)
(* opened once and never again, and its outcome stays until the bounded    *)
(* history forgets it, but for a completed one that a stop request in      *)
(* flight turns into cancelled.                                            *)
THEOREM JobsKeepLedger ==
  ASSUME NEW c, Client = {c} PROVE Spec => LedgerSpec
<1>1. Init => Ledger!Init
  BY DEF Init, Ledger!Init, NoDoc, Ended, Terminal
<1>2. IInv /\ SingleInv(c) /\ [Next]_vars => [Ledger!Record]_Outcome
  <2> SUFFICES ASSUME IInv, SingleInv(c), [Next]_vars PROVE Ledger!Record
    BY DEF Outcome
  <2>1. \A j \in Job : <<Outcome[j], Outcome'[j]>> \in Ledger!Legal
    BY LedgerStep
  <2> QED
    BY <2>1 DEF Ledger!Record, Outcome
<1> QED
  BY <1>1, <1>2, SingleSpec, PTL DEF Spec, LedgerSpec, Ledger!Spec, Outcome
=============================================================================
