------------------------------ MODULE JobLedger ------------------------------
(***************************************************************************)
(* What task_jobs.py promises a reader of execution-jobs.json: every       *)
(* execution job is opened once, never opened again after it was closed,   *)
(* and the outcome the file shows is final until the bounded history       *)
(* forgets the job.  There is one exception: a job that completes while a  *)
(* stop request is on its way may be shown as completed first and as       *)
(* cancelled then.                                                         *)
(***************************************************************************)
CONSTANT Job                       \* identifiers of execution jobs

VARIABLE outcome                   \* outcome[j]: what the durable file says

Terminal == {"completed", "cancelled", "failed", "orphaned"}

Legal ==
  { <<"none", "running">>, <<"running", "running">> }
    \cup { <<"running", o>> : o \in Terminal }
    \cup { <<"completed", "cancelled">> }
    \cup { <<o, o>> : o \in Terminal \cup {"none", "forgotten"} }
    \cup { <<o, "forgotten">> : o \in Terminal \cup {"none"} }

Init == outcome = [j \in Job |-> "none"]

(* A job may be forgotten unrecorded: its process died before the first    *)
(* write.  One write of the file may close several jobs (a restart orphans every   *)
(* job of the dead process), open one and forget old ones.                 *)
Record ==
  /\ DOMAIN outcome' = Job
  /\ \A j \in Job : <<outcome[j], outcome'[j]>> \in Legal

Spec == Init /\ [][Record]_outcome
=============================================================================
