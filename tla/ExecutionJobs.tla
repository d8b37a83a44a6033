---------------------------- MODULE ExecutionJobs ----------------------------
(***************************************************************************)
(* task_jobs.py: the execution jobs of one project.                        *)
(*                                                                         *)
(* A job lives twice: as a JobHandle in the process-wide table _HANDLES    *)
(* and as a record of execution-jobs.json.  Requests run on threads of     *)
(* their own.  begin_job, finish_job and cancel_jobs touch the table and   *)
(* rewrite the whole file under _LOCK, but finish_job assigns              *)
(* handle.status and looks for a stop request before it takes the lock,    *)
(* and reconcile_jobs is called without the lock by recover_stale_running  *)
(* and read_jobs.  Every access to the file and to a field of a handle     *)
(* that another thread may write is a step of its own.                     *)
(***************************************************************************)
EXTENDS Naturals, FiniteSets

CONSTANTS
  Job,          \* job identifiers; each is used once (uuid4)
  Client,       \* request threads that reconcile and run jobs
  Stopper,      \* request threads that serve /api/tasks/cancel
  NoRequest,    \* value of lock while _LOCK is free
  NoJob,        \* value of job[r] while request r owns no job
  MaxHistory,   \* MAX_JOB_HISTORY
  MaxRestarts   \* bound: how often the process dies and is started again

Request == Client \cup Stopper

ASSUME JobsAssumption ==
  /\ NoRequest \notin Request
  /\ NoJob \notin Job
  /\ Client \cap Stopper = {}
  /\ MaxHistory \in Nat \ {0}
  /\ MaxRestarts \in Nat

VARIABLES
  handles,          \* keys of _HANDLES
  status,           \* status[j]: JobHandle.status, or that no handle exists
  cancelRequested,  \* cancelRequested[j]: JobHandle.cancel_requested
  doc,              \* doc[j]: status of j's record in execution-jobs.json
  lock,             \* holder of _LOCK
  pc,               \* pc[r]: the next step of request r
  job,              \* job[r]: the job whose record r writes
  snap,             \* snap[r]: the document r read last
  live,             \* live[r]: live_ids, as r computed them
  rec,              \* rec[r]: status in the record r is about to write
  selected,         \* selected[r]: jobs a cancel request has still to signal
  restarts          \* how often the process was restarted

vars == <<handles, status, cancelRequested, doc, lock, pc, job, snap, live,
          rec, selected, restarts>>
table == <<handles, status, cancelRequested>>

Terminal == {"completed", "cancelled", "failed"}
HandleStatus == {"unborn", "running", "lost"} \cup Terminal
RecordStatus == {"absent", "running", "orphaned"} \cup Terminal
Step == {"idle", "recRead", "recLive", "recWrite", "putRead", "putWrite",
         "working", "checking", "closing", "cancel", "signalled"}

NoDoc == [j \in Job |-> "absent"]

TypeOK ==
  /\ handles \subseteq Job
  /\ status \in [Job -> HandleStatus]
  /\ cancelRequested \in [Job -> BOOLEAN]
  /\ doc \in [Job -> RecordStatus]
  /\ lock \in Request \cup {NoRequest}
  /\ pc \in [Request -> Step]
  /\ job \in [Request -> Job \cup {NoJob}]
  /\ snap \in [Request -> [Job -> RecordStatus]]
  /\ live \in [Request -> SUBSET Job]
  /\ rec \in [Request -> HandleStatus]
  /\ selected \in [Request -> SUBSET Job]
  /\ restarts \in 0..MaxRestarts

Init ==
  /\ handles = {}
  /\ status = [j \in Job |-> "unborn"]
  /\ cancelRequested = [j \in Job |-> FALSE]
  /\ doc = NoDoc
  /\ lock = NoRequest
  /\ pc = [r \in Request |-> "idle"]
  /\ job = [r \in Request |-> NoJob]
  /\ snap = [r \in Request |-> NoDoc]
  /\ live = [r \in Request |-> {}]
  /\ rec = [r \in Request |-> "unborn"]
  /\ selected = [r \in Request |-> {}]
  /\ restarts = 0

-----------------------------------------------------------------------------
(* The file.                                                               *)

Active(d) == { j \in Job : d[j] = "running" }
History(d) == { j \in Job : d[j] \notin {"absent", "running"} }

(* kept is a legal choice of Limit members of S.  The code keeps the       *)
(* newest; which of the older ones stay depends on time stamps and is left *)
(* open, but a record stamped by this very write (fresh) goes last.        *)
Newest(kept, S, fresh) ==
  /\ kept \subseteq S
  /\ Cardinality(kept) = IF Cardinality(S) < MaxHistory THEN Cardinality(S)
                                                        ELSE MaxHistory
  /\ fresh \cap S \subseteq kept \/ kept \subseteq fresh

(* _write_document(_trim_jobs(d)): at most MaxHistory running and          *)
(* MaxHistory other records survive a write.                               *)
WriteDocument(d, fresh) ==
  \E a \in SUBSET Active(d), h \in SUBSET History(d) :
    /\ Newest(a, Active(d), fresh)
    /\ Newest(h, History(d), fresh)
    /\ doc' = [j \in Job |-> IF j \in a \cup h THEN d[j] ELSE "absent"]

(* live_ids of reconcile_jobs, and the loop of active_task_ids.            *)
LiveJobs == { j \in handles : status[j] = "running" }

-----------------------------------------------------------------------------
(* reconcile_jobs: read the file, read the table, write the file.  Called  *)
(* with _LOCK held by begin_job and without it by every other caller.      *)

StartReconcile(r) ==
  /\ pc[r] = "idle"
  /\ pc' = [pc EXCEPT ![r] = "recRead"]
  /\ UNCHANGED <<table, doc, lock, job, snap, live, rec, selected, restarts>>

ReconcileRead(r) ==
  /\ pc[r] = "recRead"
  /\ snap' = [snap EXCEPT ![r] = doc]
  /\ pc' = [pc EXCEPT ![r] = "recLive"]
  /\ UNCHANGED <<table, doc, lock, job, live, rec, selected, restarts>>

ReconcileLive(r) ==
  /\ pc[r] = "recLive"
  /\ live' = [live EXCEPT ![r] = LiveJobs]
  /\ pc' = [pc EXCEPT ![r] = "recWrite"]
  /\ UNCHANGED <<table, doc, lock, job, snap, rec, selected, restarts>>

(* Mutants.  The file is read again just before it is written, after the   *)
(* table was read; the check of the record's status is dropped.            *)
StaleRereads(r) == Active(doc) \ live[r]
StaleAnyStatus(r) == (Active(snap[r]) \cup History(snap[r])) \ live[r]

Stale(r) == Active(snap[r]) \ live[r]

Orphaned(r) ==
  [j \in Job |-> IF j \in Stale(r) THEN "orphaned" ELSE snap[r][j]]

ReconcileWrite(r) ==
  /\ pc[r] = "recWrite"
  /\ IF Stale(r) = {} THEN UNCHANGED doc
                      ELSE WriteDocument(Orphaned(r), Stale(r))
  /\ snap' = [snap EXCEPT ![r] = NoDoc]
  /\ live' = [live EXCEPT ![r] = {}]
  /\ IF lock = r
     THEN /\ pc' = [pc EXCEPT ![r] = "putRead"]
          /\ rec' = [rec EXCEPT ![r] = status[job[r]]]
     ELSE /\ pc' = [pc EXCEPT ![r] = "idle"]
          /\ UNCHANGED rec
  /\ UNCHANGED <<table, lock, job, selected, restarts>>

(* _HANDLES.items() is iterated without the lock: a registration or a      *)
(* removal by another thread meanwhile raises RuntimeError and the request *)
(* fails before it wrote anything.                                         *)
ReconcileFails(r) ==
  /\ pc[r] = "recLive"
  /\ lock # r
  /\ \E q \in Client \ {r} : pc[q] # "idle"
  /\ snap' = [snap EXCEPT ![r] = NoDoc]
  /\ pc' = [pc EXCEPT ![r] = "idle"]
  /\ UNCHANGED <<table, doc, lock, job, live, rec, selected, restarts>>

-----------------------------------------------------------------------------
(* begin_job, under _LOCK to its end: register the handle, reconcile, add  *)
(* the record.                                                             *)

(* Mutant: a job is begun without reconciling first.                       *)
BeginUnreconciled(r, j) ==
  /\ pc[r] = "idle"
  /\ lock = NoRequest
  /\ status[j] = "unborn"
  /\ lock' = r
  /\ handles' = handles \cup {j}
  /\ status' = [status EXCEPT ![j] = "running"]
  /\ job' = [job EXCEPT ![r] = j]
  /\ rec' = [rec EXCEPT ![r] = "running"]
  /\ pc' = [pc EXCEPT ![r] = "putRead"]
  /\ UNCHANGED <<cancelRequested, doc, snap, live, selected, restarts>>

Begin(r, j) ==
  /\ pc[r] = "idle"
  /\ lock = NoRequest
  /\ status[j] = "unborn"
  /\ lock' = r
  /\ handles' = handles \cup {j}
  /\ status' = [status EXCEPT ![j] = "running"]
  /\ job' = [job EXCEPT ![r] = j]
  /\ pc' = [pc EXCEPT ![r] = "recRead"]
  /\ UNCHANGED <<cancelRequested, doc, snap, live, rec, selected, restarts>>

(* _replace_record: read the document, replace or append one record, write *)
(* it back.  Shared by begin_job, finish_job and cancel_jobs.              *)
ReplaceRead(r) ==
  /\ pc[r] = "putRead"
  /\ snap' = [snap EXCEPT ![r] = doc]
  /\ pc' = [pc EXCEPT ![r] = "putWrite"]
  /\ UNCHANGED <<table, doc, lock, job, live, rec, selected, restarts>>

ReplaceWrite(r) ==
  /\ pc[r] = "putWrite"
  /\ WriteDocument([snap[r] EXCEPT ![job[r]] = rec[r]], {job[r]})
  /\ snap' = [snap EXCEPT ![r] = NoDoc]
  /\ rec' = [rec EXCEPT ![r] = "unborn"]
  /\ \/ /\ r \in Stopper
        /\ pc' = [pc EXCEPT ![r] = "cancel"]
        /\ job' = [job EXCEPT ![r] = NoJob]
        /\ UNCHANGED lock
     \/ /\ r \in Client
        /\ rec[r] = "running"
        /\ pc' = [pc EXCEPT ![r] = "working"]
        /\ lock' = NoRequest
        /\ UNCHANGED job
     \/ /\ r \in Client
        /\ rec[r] # "running"
        /\ pc' = [pc EXCEPT ![r] = "idle"]
        /\ job' = [job EXCEPT ![r] = NoJob]
        /\ lock' = NoRequest
  /\ UNCHANGED <<table, live, selected, restarts>>

-----------------------------------------------------------------------------
(* finish_job: the handle's status is assigned first, then a completed job *)
(* that was asked to stop is turned into a cancelled one; neither is done  *)
(* under the lock.                                                         *)

(* Mutant: the default of an empty terminal status is dropped.             *)
FinishStatusUnset(r, outcome) ==
  /\ pc[r] = "working"
  /\ status' = [status EXCEPT ![job[r]] = ""]
  /\ pc' = [pc EXCEPT ![r] = "checking"]
  /\ UNCHANGED <<handles, cancelRequested, doc, lock, job, snap, live, rec,
                 selected, restarts>>

FinishStatus(r, outcome) ==
  /\ pc[r] = "working"
  /\ status' = [status EXCEPT ![job[r]] = outcome]
  /\ pc' = [pc EXCEPT ![r] = "checking"]
  /\ UNCHANGED <<handles, cancelRequested, doc, lock, job, snap, live, rec,
                 selected, restarts>>

FinishCancelled(r) ==
  /\ pc[r] = "checking"
  /\ status' = [status EXCEPT ![job[r]] =
                  IF @ = "completed" /\ cancelRequested[job[r]]
                  THEN "cancelled" ELSE @]
  /\ pc' = [pc EXCEPT ![r] = "closing"]
  /\ UNCHANGED <<handles, cancelRequested, doc, lock, job, snap, live, rec,
                 selected, restarts>>

(* Mutants.  The handle stays in the table; the record is not written.     *)
FinishLeaksHandle(r) ==
  /\ pc[r] = "closing"
  /\ lock = NoRequest
  /\ lock' = r
  /\ rec' = [rec EXCEPT ![r] = status[job[r]]]
  /\ pc' = [pc EXCEPT ![r] = "putRead"]
  /\ UNCHANGED <<handles, status, cancelRequested, doc, job, snap, live,
                 selected, restarts>>
FinishUnrecorded(r) ==
  /\ pc[r] = "closing"
  /\ lock = NoRequest
  /\ handles' = handles \ {job[r]}
  /\ job' = [job EXCEPT ![r] = NoJob]
  /\ pc' = [pc EXCEPT ![r] = "idle"]
  /\ UNCHANGED <<status, cancelRequested, doc, lock, snap, live, rec, selected,
                 restarts>>

FinishPop(r) ==
  /\ pc[r] = "closing"
  /\ lock = NoRequest
  /\ lock' = r
  /\ handles' = handles \ {job[r]}
  /\ rec' = [rec EXCEPT ![r] = status[job[r]]]
  /\ pc' = [pc EXCEPT ![r] = "putRead"]
  /\ UNCHANGED <<status, cancelRequested, doc, job, snap, live, selected,
                 restarts>>

-----------------------------------------------------------------------------
(* cancel_jobs, under _LOCK: select the matching running handles, then     *)
(* signal each one, take its record (_record_for) and rewrite it.  The job *)
(* may end at any point of this.                                           *)

CancelSelect(r, S) ==
  /\ pc[r] = "idle"
  /\ lock = NoRequest
  /\ S \subseteq LiveJobs
  /\ S # {}
  /\ lock' = r
  /\ selected' = [selected EXCEPT ![r] = S]
  /\ pc' = [pc EXCEPT ![r] = "cancel"]
  /\ UNCHANGED <<table, doc, job, snap, live, rec, restarts>>

CancelSignal(r, j) ==
  /\ pc[r] = "cancel"
  /\ j \in selected[r]
  /\ selected' = [selected EXCEPT ![r] = @ \ {j}]
  /\ cancelRequested' = [cancelRequested EXCEPT ![j] = TRUE]
  /\ job' = [job EXCEPT ![r] = j]
  /\ pc' = [pc EXCEPT ![r] = "signalled"]
  /\ UNCHANGED <<handles, status, doc, lock, snap, live, rec, restarts>>

CancelRecord(r) ==
  /\ pc[r] = "signalled"
  /\ rec' = [rec EXCEPT ![r] = status[job[r]]]
  /\ pc' = [pc EXCEPT ![r] = "putRead"]
  /\ UNCHANGED <<table, doc, lock, job, snap, live, selected, restarts>>

CancelDone(r) ==
  /\ pc[r] = "cancel"
  /\ selected[r] = {}
  /\ lock' = NoRequest
  /\ pc' = [pc EXCEPT ![r] = "idle"]
  /\ UNCHANGED <<table, doc, job, snap, live, rec, selected, restarts>>

-----------------------------------------------------------------------------
(* The process dies between any two steps and is started again: the table, *)
(* the lock and the threads are gone, the file stays.                      *)
InFlight == { j \in Job : \E r \in Client : job[r] = j }

Restart ==
  /\ restarts < MaxRestarts
  /\ restarts' = restarts + 1
  /\ handles' = {}
  /\ status' = [j \in Job |-> IF j \in handles \cup InFlight THEN "lost"
                                            ELSE status[j]]
  /\ cancelRequested' = [j \in Job |-> FALSE]
  /\ lock' = NoRequest
  /\ pc' = [r \in Request |-> "idle"]
  /\ job' = [r \in Request |-> NoJob]
  /\ snap' = [r \in Request |-> NoDoc]
  /\ live' = [r \in Request |-> {}]
  /\ rec' = [r \in Request |-> "unborn"]
  /\ selected' = [r \in Request |-> {}]
  /\ UNCHANGED doc

Reconcile(r) ==
  \/ ReconcileRead(r)
  \/ ReconcileLive(r)
  \/ ReconcileWrite(r)
  \/ ReconcileFails(r)

Replace(r) == ReplaceRead(r) \/ ReplaceWrite(r)

Finish(r) ==
  \/ \E o \in Terminal : FinishStatus(r, o)
  \/ FinishCancelled(r)
  \/ FinishPop(r)

Cancel(r) ==
  \/ \E j \in Job : CancelSignal(r, j)
  \/ CancelRecord(r)
  \/ CancelDone(r)

Next ==
  \/ \E r \in Client :
       \/ StartReconcile(r)
       \/ \E j \in Job : Begin(r, j)
       \/ Finish(r)
  \/ \E r \in Stopper :
       \/ \E S \in SUBSET Job : CancelSelect(r, S)
       \/ Cancel(r)
  \/ \E r \in Request : Reconcile(r) \/ Replace(r)
  \/ Restart

Spec == Init /\ [][Next]_vars

(* A request that has started goes on: the loops it runs are bounded (turn *)
(* limits, command timeouts) and _LOCK is held for bounded work only.      *)
(* FinishPop competes for _LOCK with other requests, hence SF.             *)
Fairness ==
  /\ \A r \in Request : WF_vars(Reconcile(r)) /\ WF_vars(Replace(r))
  /\ \A r \in Client :
       /\ WF_vars(\E o \in Terminal : FinishStatus(r, o))
       /\ WF_vars(FinishCancelled(r))
       /\ SF_vars(FinishPop(r))
  /\ \A r \in Stopper : WF_vars(Cancel(r))

FairSpec == Spec /\ Fairness

-----------------------------------------------------------------------------
(* Properties.                                                             *)

(* However requests interleave, a job that is still running in this        *)
(* process never has a durable record that says it ended.  It rests on two *)
(* orders in the code: begin_job registers the handle before its record is *)
(* written, and reconcile_jobs reads the file before it reads the table.   *)
LiveNotOrphaned ==
  \A j \in LiveJobs : doc[j] \in {"absent", "running"}

(* While requests do not overlap, a request that runs a job works with a   *)
(* file in which its own job is recorded as running and no record of a     *)
(* dead process is: begin_job has classified what a restart left behind.   *)
RestartClassified ==
  \A r \in Client :
    pc[r] = "working" => /\ doc[job[r]] = "running"
                         /\ Active(doc) \subseteq LiveJobs

(* "orphaned" is the verdict about a job whose process is gone: a job that *)
(* this process has closed itself does not stay recorded as orphaned.      *)
OrphanIsForeign ==
  \A j \in Job \ InFlight : doc[j] = "orphaned" => status[j] = "lost"

(* A job that was started is closed, and dropped from the table, whatever  *)
(* stop requests and reconciliations run meanwhile.                        *)
JobIsClosed == \A j \in Job : j \in handles ~> j \notin handles

(* While requests do not overlap the durable file is a JobLedger.          *)
Ended(j) == status[j] \in Terminal \cup {"lost"}

Ledger == INSTANCE JobLedger WITH
  outcome <- [j \in Job |-> IF doc[j] # "absent" THEN doc[j]
                            ELSE IF Ended(j) THEN "forgotten"
                            ELSE "none"]

LedgerSpec == Ledger!Spec
=============================================================================
