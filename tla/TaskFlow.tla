------------------------------ MODULE TaskFlow -------------------------------
(***************************************************************************)
(* The requests that move work items: a generation wave, retry, resume,    *)
(* repair, verify, apply, reject, and what the user changes between them.  *)
(*                                                                         *)
(* A request reads tasks.json into a copy, works on the copy for minutes   *)
(* and writes the whole copy back.  Reads and writes of one request that   *)
(* follow each other at once are one step; what lies between them (the     *)
(* job registry, the agents' work, the project files) is a step of its     *)
(* own.  Who gets which workspace lock is WorkspaceLocks' business: a wave *)
(* runs some of its ready tasks.  SyncDocs is what DocSync does in detail. *)
(***************************************************************************)
EXTENDS TaskState

CONSTANTS
  Request,       \* request threads
  Architecture,  \* stands for the architecture document in drift
  Kinds,         \* entry points this instance uses
  OneAtATime,    \* the client waits for a request before it sends another
  IOFails,       \* file writes fail where the code expects no failure
  MaxRestarts    \* bound: how often the process dies and is started again

ASSUME FlowAssumption ==
  /\ Architecture \notin Task
  /\ OneAtATime \in BOOLEAN
  /\ IOFails \in BOOLEAN
  /\ MaxRestarts \in Nat

VARIABLES
  disk,      \* tasks.json
  mem,       \* mem[r]: the copy request r works on; NewPlan when it has none
  pc,        \* pc[r]: next step of request r
  kind,      \* kind[r]: what r is running
  mine,      \* mine[r]: the tasks r runs
  phase,     \* phase[r][t]: where r's agent for t is
  job,       \* job[r]: the tasks of r's live job
  stop,      \* stop[r]: tasks of r's job that were asked to stop
  mode,      \* apply-mode.json
  stale,     \* stale modules, as the tasks that belong to them
  landed,    \* tasks a result of which, or a part of it, went to the project
  waived,    \* tasks called applied when nothing of theirs was written
  current,   \* tasks the latest result of which is in the project
  drift,     \* tasks, or the architecture, the documents do not cover yet
  restarts

project == <<landed, waived, current, drift>>
settings == <<mode, stale>>
agents == <<mine, phase, job, stop>>
vars == <<disk, mem, pc, kind, agents, settings, project, restarts>>

Step == {"idle", "write", "begin", "read", "land", "work", "save", "finish",
         "leaving"}
Kind == {"none", "wave", "retry", "reverify", "resume", "repair", "handoff",
         "verify", "apply"}
Phase == {"none", "loop", "auto", "landed", "retry", "relanded", "check",
          "dead"}

TypeOK ==
  /\ disk \in Document
  /\ mem \in [Request -> Document]
  /\ pc \in [Request -> Step]
  /\ kind \in [Request -> Kind]
  /\ mine \in [Request -> SUBSET Task]
  /\ phase \in [Request -> [Task -> Phase]]
  /\ job \in [Request -> SUBSET Task]
  /\ stop \in [Request -> SUBSET Task]
  /\ mode \in {"review", "auto"}
  /\ stale \subseteq Task
  /\ landed \subseteq Task
  /\ waived \subseteq Task
  /\ current \subseteq Task
  /\ drift \subseteq Task \cup {Architecture}
  /\ restarts \in 0..MaxRestarts

Off == [t \in Task |-> "none"]

Idle ==
  /\ mem = [r \in Request |-> NewPlan]
  /\ pc = [r \in Request |-> "idle"]
  /\ kind = [r \in Request |-> "none"]
  /\ mine = [r \in Request |-> {}]
  /\ phase = [r \in Request |-> Off]
  /\ job = [r \in Request |-> {}]
  /\ stop = [r \in Request |-> {}]

Init ==
  /\ disk = NewPlan
  /\ Idle
  /\ mode = "review" /\ stale = {}
  /\ landed = {} /\ waived = {} /\ current = {} /\ drift = {}
  /\ restarts = 0

Goto(r, step) == pc' = [pc EXCEPT ![r] = step]

(* active_task_ids                                                         *)
LiveTasks == UNION { job[r] : r \in Request }

-----------------------------------------------------------------------------
(* Requests start.                                                         *)

(* The client sends a request when it has the answer to the last one or    *)
(* has given it up.                                                        *)
MaySend(k) ==
  /\ k \in Kinds
  /\ OneAtATime => \A q \in Request : pc[q] \in {"idle", "leaving"}

Start(r, k, S, s, step) ==
  /\ MaySend(k)
  /\ pc[r] = "idle"
  /\ Goto(r, step)
  /\ kind' = [kind EXCEPT ![r] = k]
  /\ mine' = [mine EXCEPT ![r] = S]
  /\ mem' = [mem EXCEPT ![r] = s]
  /\ UNCHANGED <<phase, job, stop, settings, project, restarts>>

(* What a request finds: the tasks of a dead run are pending again.        *)
Recovered == recover_stale_running(disk, LiveTasks)
RecoveredForWave ==
  recover_stale_running(mark_stale_tasks(disk, stale), LiveTasks)

(* _prepare_wave_locks: ready tasks that were not granted their files.     *)
Refuse(s, S) == Set(s, S, "pending", "other")

(* _generate_wave_events up to the statuses of the granted tasks.          *)
StartWave(r, S) ==
  LET ready == ready_tasks(RecoveredForWave)
      s == Refuse(RecoveredForWave, ready \ S)
  IN  /\ S # {}
      /\ S \subseteq ready
      /\ Start(r, "wave", S, Put(s, S, "running"), "write")
      /\ UNCHANGED disk

(* Nothing is ready, or other requests hold the files of all that is.      *)
WaveWaits(r) ==
  LET ready == ready_tasks(RecoveredForWave)
  IN  /\ MaySend("wave")
      /\ pc[r] = "idle"
      /\ ~ AllDone(disk)
      /\ ready = {} \/ \E q \in Request : pc[q] # "idle"
      /\ disk' = Refuse(RecoveredForWave, ready)
      /\ UNCHANGED <<mem, pc, kind, agents, settings, project, restarts>>

Verifiable(s, t) == t \in s.patch /\ t \in s.tested

Retryable(t) ==
  \/ disk.status[t] \in {"failed", "running"}
  \/ disk.status[t] = "pending" /\ disk.cause[t] = "interrupted"
  \/ disk.status[t] = "blocked" /\ disk.cause[t] = "handoff"

(* retry_task: generate again.                                             *)
StartRetry(r, t) ==
  /\ Retryable(t)
  /\ ~ (disk.status[t] = "failed" /\ Verifiable(disk, t))
  /\ Start(r, "retry", {t}, Set(Recovered, {t}, "running", "none"), "begin")
  /\ disk' = Recovered

(* retry_task: a failed task with a patch and a verification_output is     *)
(* taken for applied and verified again.                                   *)
StartReverify(r, t) ==
  /\ disk.status[t] = "failed"
  /\ Verifiable(disk, t)
  /\ Start(r, "reverify", {t},
           update_delivery_status(Set(Recovered, {t}, "applied", "none")),
           "begin")
  /\ disk' = Recovered

(* resume_task; whether a checkpoint exists is left open.                  *)
StartResume(r, t) ==
  /\ Recovered.status[t] \in {"failed", "pending"}
  /\ \A d \in DependsOn[t] : Recovered.status[d] \in Landed
  /\ Start(r, "resume", {t}, Set(Recovered, {t}, "running", "none"), "begin")
  /\ disk' = Recovered

(* retry_task and resume_task recover before they check and refuse.        *)
Refused(r) ==
  /\ MaySend("resume")
  /\ pc[r] = "idle"
  /\ disk' = Recovered
  /\ UNCHANGED <<mem, pc, kind, agents, settings, project, restarts>>

(* Mutant: attempts are counted but not limited.                           *)
StartRepairUnlimited(r, t) ==
  /\ disk.status[t] = "failed"
  /\ Verifiable(disk, t)
  /\ Start(r, "repair", {t},
           [Set(disk, {t}, "running", "none") EXCEPT !.repairs[t] = @ + 1],
           "write")
  /\ UNCHANGED disk

(* Mutant: a task that did not fail is repaired, too.                      *)
StartRepairAny(r, t) ==
  /\ Verifiable(disk, t)
  /\ disk.repairs[t] < MaxRepairs
  /\ Start(r, "repair", {t},
           [Set(disk, {t}, "running", "none") EXCEPT !.repairs[t] = @ + 1],
           "write")
  /\ UNCHANGED disk

StartRepair(r, t) ==
  /\ disk.status[t] = "failed"
  /\ Verifiable(disk, t)
  /\ disk.repairs[t] < MaxRepairs
  /\ Start(r, "repair", {t},
           [Set(disk, {t}, "running", "none") EXCEPT !.repairs[t] = @ + 1],
           "write")
  /\ UNCHANGED disk

(* The routes of verify begin a job before anything is read.               *)
StartVerify(r, t) ==
  /\ Start(r, "verify", {t}, NewPlan, "begin")
  /\ UNCHANGED disk

(* apply_task_patch, apply_task_partial and apply_task_hunks.              *)
StartApply(r, t) ==
  LET s == mark_stale_tasks(disk, stale)
  IN  /\ s.status[t] \in {"review", "partially_applied"}
      /\ Start(r, "apply", {t}, Put(s, {t}, "applying"), "write")
      /\ UNCHANGED disk

(* Mutant: also what was accepted can be rejected.                         *)
RejectAny(r, t) ==
  /\ MaySend("reject")
  /\ pc[r] = "idle"
  /\ disk' = Set(disk, {t}, "rejected", "none")
  /\ UNCHANGED <<mem, pc, kind, agents, settings, project, restarts>>

(* reject_task reads and writes at once.                                   *)
Reject(r, t) ==
  /\ MaySend("reject")
  /\ pc[r] = "idle"
  /\ disk.status[t] \in {"review", "pending", "blocked"}
  /\ disk' = Set(disk, {t}, "rejected", "none")
  /\ UNCHANGED <<mem, pc, kind, agents, settings, project, restarts>>

-----------------------------------------------------------------------------
(* The bookkeeping of a request.                                           *)

(* tasks.json is written before the work begins.                           *)
Write(r) ==
  /\ pc[r] = "write"
  /\ disk' = mem[r]
  /\ Goto(r, CASE kind[r] \in {"wave", "repair"} -> "begin"
               [] kind[r] = "reverify" -> "read"
               [] kind[r] = "apply" -> "land"
               [] OTHER -> "work")
  /\ phase' = [phase EXCEPT ![r] = [t \in Task |->
                 IF t \in mine[r] /\ kind[r] \in {"retry", "resume"} THEN "loop"
                 ELSE IF t \in mine[r] /\ kind[r] = "verify" THEN "check"
                 ELSE "none"]]
  /\ UNCHANGED <<mem, kind, mine, job, stop, settings, project, restarts>>

(* begin_job: before the write of retry and resume, after that of a wave   *)
(* and of repair.                                                          *)
Begin(r) ==
  /\ pc[r] = "begin"
  /\ job' = [job EXCEPT ![r] = mine[r]]
  /\ Goto(r, CASE kind[r] \in {"wave", "repair"} -> "work"
               [] kind[r] = "verify" -> "read"
               [] OTHER -> "write")
  /\ phase' = [phase EXCEPT ![r] = [t \in Task |->
                 IF t \in mine[r] /\ kind[r] \in {"wave", "repair"}
                 THEN "loop" ELSE "none"]]
  /\ UNCHANGED <<disk, mem, kind, mine, stop, settings, project, restarts>>

(* verify_task reads the file itself; a task that is not applied is        *)
(* refused.  Code that was written since the documents were synchronised   *)
(* asks for documentation again.                                           *)
Read(r) ==
  /\ pc[r] = "read"
  /\ \E t \in mine[r] :
       IF disk.status[t] = "applied"
       THEN LET s == IF t \in disk.changed
                        /\ disk.documentation \in DocumentsCurrent
                     THEN register_documentation_task(disk) ELSE disk
            IN  /\ mem' = [mem EXCEPT ![r] =
                     update_delivery_status(Put(s, {t}, "verifying"))]
                /\ kind' = [kind EXCEPT ![r] = "verify"]
                /\ Goto(r, "write")
       ELSE Goto(r, "finish") /\ UNCHANGED <<mem, kind>>
  /\ UNCHANGED <<disk, agents, settings, project, restarts>>

Worked(r) == pc[r] = "work" /\ phase[r] = Off

(* Which of the two comes first when the work is done: the final write or  *)
(* the end of the job.                                                     *)
FinishesFirst == {"resume", "repair", "handoff"}

Leave(r) ==
  /\ Goto(r, "idle")
  /\ kind' = [kind EXCEPT ![r] = "none"]
  /\ mine' = [mine EXCEPT ![r] = {}]
  /\ mem' = [mem EXCEPT ![r] = NewPlan]
  /\ stop' = [stop EXCEPT ![r] = {}]

Final(s) == register_completed_documentation(s)

Save(r) ==
  /\ \/ Worked(r) /\ kind[r] \notin FinishesFirst
     \/ pc[r] = "save"
  /\ disk' = IF kind[r] \in {"verify", "apply"} THEN mem[r] ELSE Final(mem[r])
  /\ IF kind[r] \in FinishesFirst \cup {"apply"}
     THEN Leave(r)
     ELSE Goto(r, "finish") /\ UNCHANGED <<mem, kind, mine, stop>>
  /\ UNCHANGED <<phase, job, settings, project, restarts>>

(* finish_job.  A repair that was handed off returns without saving.       *)
Finish(r) ==
  /\ \/ pc[r] = "finish"
     \/ Worked(r) /\ kind[r] \in FinishesFirst
  /\ job' = [job EXCEPT ![r] = {}]
  /\ IF kind[r] \in FinishesFirst \ {"handoff"}
     THEN Goto(r, "save") /\ UNCHANGED <<mem, kind, mine, stop>>
     ELSE Leave(r)
  /\ UNCHANGED <<disk, phase, settings, project, restarts>>

-----------------------------------------------------------------------------
(* What an agent may come to: generate_one_task, stream_generate_one_task, *)
(* repair_task and _complete_sandbox_task.                                 *)

Move(r, t, ph) == phase' = [phase EXCEPT ![r][t] = ph]

(* The copy after agent r, t: a new status and a reason, and what else     *)
(* changed.                                                                *)
Record(r, s) == mem' = [mem EXCEPT ![r] = s]

(* Proposed files, a review-mode sandbox or a contract violation: a patch  *)
(* waits for review.                                                       *)
Propose(r, t) ==
  /\ phase[r][t] \in {"loop", "auto", "retry"}
  /\ Record(r, [Set(mem[r], {t}, "review", "none")
                  EXCEPT !.patch = @ \cup {t}])
  /\ Move(r, t, "none")
  /\ current' = current \ {t}
  /\ UNCHANGED <<disk, pc, kind, mine, job, stop, settings, landed, waived,
                 drift, restarts>>

Fail(r, t) ==
  /\ phase[r][t] \in {"loop", "auto", "retry"}
  /\ Record(r, Set(mem[r], {t}, "failed", "other"))
  /\ Move(r, t, "none")
  /\ UNCHANGED <<disk, pc, kind, mine, job, stop, settings, project, restarts>>

(* The work belongs to another module.  In the loop of repair_task this    *)
(* returns at once.                                                        *)
HandOff(r, t) ==
  /\ phase[r][t] \in {"loop", "auto", "retry"}
  /\ Record(r, Set(mem[r], {t}, "blocked", "handoff"))
  /\ Move(r, t, "none")
  /\ kind' = [kind EXCEPT ![r] =
       IF @ = "repair" /\ phase[r][t] = "loop" THEN "handoff" ELSE @]
  /\ UNCHANGED <<disk, pc, mine, job, stop, settings, project, restarts>>

(* Mutant: the stopped task keeps its status.                              *)
StoppedRunning(r, t) ==
  /\ phase[r][t] = "loop"
  /\ t \in stop[r]
  /\ Record(r, Set(mem[r], {t}, "running", "other"))
  /\ Move(r, t, "none")
  /\ UNCHANGED <<disk, pc, kind, mine, job, stop, settings, project, restarts>>

Stopped(r, t) ==
  /\ phase[r][t] = "loop"
  /\ t \in stop[r]
  /\ Record(r, Set(mem[r], {t}, "pending", "other"))
  /\ Move(r, t, "none")
  /\ UNCHANGED <<disk, pc, kind, mine, job, stop, settings, project, restarts>>

(* The loop is done; read_apply_mode is asked now, once.                   *)
Complete(r, t) ==
  /\ phase[r][t] = "loop"
  /\ mode = "auto"
  /\ Move(r, t, "auto")
  /\ UNCHANGED <<disk, mem, pc, kind, mine, job, stop, settings, project,
                 restarts>>

(* _apply_sandbox_to_main writes the sandbox's changes to the project; if  *)
(* there are none, the project is the result.  It runs before and after    *)
(* the one repair round; a third time, a direct fallback after that round, *)
(* is not told apart.                                                      *)
Land(r, t, new) ==
  /\ phase[r][t] \in {"auto", "retry"}
  /\ Record(r, [Put(mem[r], {t}, "verifying") EXCEPT
                  !.changed = IF new THEN @ \cup {t} ELSE @ \ {t}])
  /\ Move(r, t, IF phase[r][t] = "auto" THEN "landed" ELSE "relanded")
  /\ landed' = landed \cup {t}
  /\ waived' = waived \ {t}
  /\ current' = current \cup {t}
  /\ drift' = IF new THEN drift \cup {t} ELSE drift
  /\ UNCHANGED <<disk, pc, kind, mine, job, stop, settings, restarts>>

(* Mutant: the repair round is tried again and again.                      *)
MainFailsForever(r, t) ==
  /\ phase[r][t] \in {"landed", "relanded"}
  /\ Record(r, [Set(mem[r], {t}, "failed", "other")
                  EXCEPT !.tested = @ \cup {t}])
  /\ Move(r, t, "retry")
  /\ UNCHANGED <<disk, pc, kind, mine, job, stop, settings, project, restarts>>

(* The verification in the project passes, or it fails: once a repair is   *)
(* tried, then the task has failed.                                        *)
MainPasses(r, t) ==
  /\ phase[r][t] \in {"landed", "relanded"}
  /\ Record(r, [Set(mem[r], {t}, "verified", "none")
                  EXCEPT !.tested = @ \cup {t}])
  /\ Move(r, t, "none")
  /\ UNCHANGED <<disk, pc, kind, mine, job, stop, settings, project, restarts>>

MainFails(r, t) ==
  /\ phase[r][t] \in {"landed", "relanded"}
  /\ Record(r, [Set(mem[r], {t}, "failed", "other")
                  EXCEPT !.tested = @ \cup {t}])
  /\ Move(r, t, IF phase[r][t] = "landed" THEN "retry" ELSE "none")
  /\ UNCHANGED <<disk, pc, kind, mine, job, stop, settings, project, restarts>>

(* The declared commands were run or stopped.  verify_task writes the file *)
(* on some of its branches before the delivery status is derived, and      *)
(* leaves no verification_output when it is stopped.                       *)
Judged(r, t, outcome) ==
  /\ phase[r][t] = "check"
  /\ outcome = "applied" => t \in stop[r]
  /\ Move(r, t, "none")
  /\ UNCHANGED <<disk, pc, kind, mine, job, stop, settings, project, restarts>>

Judgement(r, t, outcome) ==
  Set(mem[r], {t}, outcome, IF outcome = "verified" THEN "none" ELSE "other")

VerifySync(r, t, outcome, derived) ==
  LET s == [Judgement(r, t, outcome) EXCEPT
              !.tested = IF outcome = "applied" THEN @ ELSE @ \cup {t}]
  IN  /\ outcome = "applied" => ~ derived
      /\ Judged(r, t, outcome)
      /\ Record(r, IF derived THEN update_delivery_status(s) ELSE s)

VerifyStream(r, t, outcome) ==
  /\ Judged(r, t, outcome)
  /\ Record(r, update_delivery_status(
       [Judgement(r, t, outcome) EXCEPT !.tested = @ \cup {t}]))

(* An exception that leaves a worker of a wave, raised where the handlers  *)
(* themselves write: no task_done follows.                                 *)
WorkerDies(r, t) ==
  /\ IOFails
  /\ kind[r] = "wave"
  /\ phase[r][t] \notin {"none", "dead"}
  /\ Move(r, t, "dead")
  /\ UNCHANGED <<disk, mem, pc, kind, mine, job, stop, settings, project,
                 restarts>>

Agent(r, t) ==
  \/ Propose(r, t) \/ Fail(r, t) \/ HandOff(r, t) \/ Stopped(r, t)
  \/ Complete(r, t) \/ MainPasses(r, t) \/ MainFails(r, t)
  \/ \E new \in BOOLEAN : Land(r, t, new)
  \/ \E outcome \in {"verified", "failed", "applied"} :
       \/ \E derived \in BOOLEAN : VerifySync(r, t, outcome, derived)
       \/ VerifyStream(r, t, outcome)

-----------------------------------------------------------------------------
(* The user's patch decision reaches the project.                          *)

(* Files were written: code_changed_files grows, and documentation is      *)
(* asked for.                                                              *)
Applied(s, S, value) ==
  register_documentation_task(
    [Set(s, S, value, "none") EXCEPT !.changed = @ \cup S])

(* Every file of the patch was accepted and written (apply_task_patch and  *)
(* the last decision of apply_task_partial).                               *)
ApplyAll(r) ==
  /\ pc[r] = "land"
  /\ Record(r, Applied(mem[r], mine[r], "applied"))
  /\ landed' = landed \cup mine[r]
  /\ waived' = waived \ mine[r]
  /\ current' = current \cup mine[r]
  /\ drift' = drift \cup mine[r]
  /\ Goto(r, "save")
  /\ UNCHANGED <<disk, kind, agents, settings, restarts>>

(* applied_files survives a new generation: a file of this patch that was  *)
(* accepted in an earlier one counts as accepted and is not written.  The  *)
(* field is part of code_changed_files and is not kept apart from it.      *)
AcceptedEarlier(r) == mine[r] \subseteq mem[r].changed

(* Some files or hunks were accepted and written.                          *)
ApplySome(r, value) ==
  /\ pc[r] = "land"
  /\ value = "applied" => AcceptedEarlier(r)
  /\ Record(r, Applied(mem[r], mine[r], value))
  /\ landed' = landed \cup mine[r]
  /\ waived' = waived \ mine[r]
  /\ drift' = drift \cup mine[r]
  /\ Goto(r, "save")
  /\ UNCHANGED <<disk, kind, agents, settings, current, restarts>>

Waive(r, value) ==
  waived' = IF value = "applied" THEN waived \cup (mine[r] \ landed)
                                 ELSE waived

(* apply_task_hunks with no hunk accepted writes `before` back, and the    *)
(* file counts as accepted.                                                *)
ApplyNoHunk(r, value) ==
  /\ pc[r] = "land"
  /\ Record(r, Applied(mem[r], mine[r], value))
  /\ Waive(r, value)
  /\ Goto(r, "save")
  /\ UNCHANGED <<disk, kind, agents, settings, landed, current, drift,
                 restarts>>

(* apply_task_partial with no file to write: the files were rejected, left *)
(* open or accepted earlier.                                               *)
ApplyNone(r, value) ==
  /\ pc[r] = "land"
  /\ value = "applied" => AcceptedEarlier(r)
  /\ Record(r, Set(mem[r], mine[r], value, "none"))
  /\ Waive(r, value)
  /\ Goto(r, "save")
  /\ UNCHANGED <<disk, kind, agents, settings, landed, current, drift,
                 restarts>>

(* Mutant: the failure is recorded like a success.                         *)
ApplyFailsApplied(r) ==
  /\ pc[r] = "land"
  /\ Record(r, Set(mem[r], mine[r], "applied", "other"))
  /\ Goto(r, "save")
  /\ UNCHANGED <<disk, kind, agents, settings, project, restarts>>

ApplyFails(r) ==
  /\ pc[r] = "land"
  /\ Record(r, update_delivery_status(
                 Set(mem[r], mine[r], "failed", "other")))
  /\ Goto(r, "save")
  /\ UNCHANGED <<disk, kind, agents, settings, project, restarts>>

(* apply_task_hunks does not expect the write to fail.                     *)
HunkRaises(r) ==
  /\ IOFails
  /\ pc[r] = "land"
  /\ Leave(r)
  /\ UNCHANGED <<disk, phase, job, settings, project, restarts>>

Apply(r) ==
  \/ ApplyAll(r) \/ ApplyFails(r) \/ HunkRaises(r)
  \/ \E value \in {"partially_applied", "applied"} :
       ApplySome(r, value) \/ ApplyNoHunk(r, value)
  \/ \E value \in {"partially_applied", "applied", "rejected"} :
       ApplyNone(r, value)

-----------------------------------------------------------------------------
(* The user and the machine.                                               *)

(* cancel_jobs signals the live jobs of a task.                            *)
Cancel(t) ==
  /\ "cancel" \in Kinds
  /\ t \in LiveTasks
  /\ stop' = [r \in Request |-> IF t \in job[r] THEN stop[r] \cup {t}
                                                ELSE stop[r]]
  /\ stop' # stop
  /\ UNCHANGED <<disk, mem, pc, kind, mine, phase, job, settings, project,
                 restarts>>

(* A wave notices a closed stream when it has an event to send.  One that  *)
(* waits for the task_done of a dead worker only has none.                 *)
Over(r) == \A t \in Task : phase[r][t] \in {"none", "dead"}
Silent(r) == Over(r) /\ phase[r] # Off

(* Mutant: the job of a closed wave is never finished.                     *)
CloseKeepsJob(r) ==
  /\ "close" \in Kinds
  /\ kind[r] = "wave"
  /\ pc[r] = "work"
  /\ ~ Silent(r)
  /\ stop' = [stop EXCEPT ![r] = mine[r]]
  /\ Goto(r, "leaving")
  /\ UNCHANGED <<disk, mem, kind, mine, phase, job, settings, project,
                 restarts>>

(* The client closes a stream.  A wave ends its job first and then waits   *)
(* for its workers; a verification just ends.  Neither writes tasks.json.  *)
CloseWave(r) ==
  /\ "close" \in Kinds
  /\ kind[r] = "wave"
  /\ pc[r] = "work"
  /\ ~ Silent(r)
  /\ job' = [job EXCEPT ![r] = {}]
  /\ stop' = [stop EXCEPT ![r] = mine[r]]
  /\ Goto(r, "leaving")
  /\ UNCHANGED <<disk, mem, kind, mine, phase, settings, project, restarts>>

Gone(r) ==
  /\ pc[r] = "leaving"
  /\ Over(r)
  /\ phase' = [phase EXCEPT ![r] = Off]
  /\ Leave(r)
  /\ UNCHANGED <<disk, job, settings, project, restarts>>

CloseVerify(r) ==
  /\ "close" \in Kinds
  /\ kind[r] = "verify"
  /\ pc[r] = "work"
  /\ job' = [job EXCEPT ![r] = {}]
  /\ phase' = [phase EXCEPT ![r] = Off]
  /\ Leave(r)
  /\ UNCHANGED <<disk, settings, project, restarts>>

(* sync_docs and retry_documentation as DocSync promises them: documents   *)
(* for everything written so far, or a gate that stays closed, a run that  *)
(* died included.                                                          *)
SyncDocs(r, outcome) ==
  /\ outcome # "not_required"
  /\ MaySend("docs")
  /\ pc[r] = "idle"
  /\ AllDone(disk)
  /\ disk' = update_delivery_status([disk EXCEPT !.documentation = outcome])
  /\ drift' = IF outcome = "synced" THEN {} ELSE drift
  /\ UNCHANGED <<mem, pc, kind, agents, settings, landed, waived, current,
                 restarts>>

(* An architecture edit replaces the stale modules; then                   *)
(* mark_architecture_docs_dirty derives the delivery status before it sets *)
(* the documentation task's.                                               *)
EditArchitecture(r, S) ==
  /\ MaySend("edit")
  /\ pc[r] = "idle"
  /\ stale' = S
  /\ disk' = [update_delivery_status(disk) EXCEPT !.documentation = "pending"]
  /\ drift' = drift \cup {Architecture}
  /\ UNCHANGED <<mem, pc, kind, agents, mode, landed, waived, current,
                 restarts>>

ClearStale(t) ==
  /\ "edit" \in Kinds
  /\ t \in stale
  /\ stale' = stale \ {t}
  /\ UNCHANGED <<disk, mem, pc, kind, agents, mode, project, restarts>>

SetMode(m) ==
  /\ "mode" \in Kinds
  /\ mode' = m
  /\ mode' # mode
  /\ UNCHANGED <<disk, mem, pc, kind, agents, stale, project, restarts>>

(* The process dies between any two steps; the files stay.                 *)
Restart ==
  /\ restarts < MaxRestarts
  /\ restarts' = restarts + 1
  /\ mem' = [r \in Request |-> NewPlan]
  /\ pc' = [r \in Request |-> "idle"]
  /\ kind' = [r \in Request |-> "none"]
  /\ mine' = [r \in Request |-> {}]
  /\ phase' = [r \in Request |-> Off]
  /\ job' = [r \in Request |-> {}]
  /\ stop' = [r \in Request |-> {}]
  /\ UNCHANGED <<disk, settings, project>>

Proceed(r) ==
  \/ Begin(r) \/ Write(r) \/ Read(r) \/ Save(r) \/ Finish(r) \/ Gone(r)
  \/ Apply(r)
  \/ \E t \in Task : Agent(r, t)

StartsWith(r, t) ==
  \/ StartRetry(r, t) \/ StartReverify(r, t) \/ StartResume(r, t)
  \/ StartRepair(r, t) \/ StartVerify(r, t) \/ StartApply(r, t)
  \/ Reject(r, t)

Next ==
  \/ \E r \in Request :
       \/ \E S \in SUBSET Task : StartWave(r, S) \/ EditArchitecture(r, S)
       \/ \E t \in Task : StartsWith(r, t) \/ WorkerDies(r, t)
       \/ WaveWaits(r) \/ Refused(r)
       \/ \E o \in DOCUMENTATION_STATUSES : SyncDocs(r, o)
       \/ Proceed(r)
       \/ CloseWave(r) \/ CloseVerify(r)
  \/ \E t \in Task : Cancel(t) \/ ClearStale(t)
  \/ \E m \in {"review", "auto"} : SetMode(m)
  \/ Restart

Spec == Init /\ [][Next]_vars

(* A request that was accepted goes on: its loops have turn limits and its *)
(* commands time-outs.                                                     *)
FairSpec == Spec /\ \A r \in Request : WF_vars(Proceed(r))
-----------------------------------------------------------------------------
(* Properties.                                                             *)

(* What a task that counts as done rests on: something of a result of its  *)
(* that went to the project, or a decision of the user to take nothing of  *)
(* a patch (no hunk, or files whose acceptance an earlier patch left).     *)
Decided == landed \cup waived

(* Whatever requests overlapped, were stopped or died in between: what     *)
(* tasks.json calls applied or verified has reached the project, except    *)
(* where the user took nothing of its patch.  No stale copy, no retry and  *)
(* no failed write makes dependents build on a result nobody wrote.        *)
AppliedHasLanded ==
  \A t \in Task : disk.status[t] \in Landed => t \in Decided

(* An agent is at work for a task only when each module it depends on has  *)
(* reached the project or was decided upon with nothing taken (ready_tasks *)
(* and resume_task ask for it; retry_task and repair_task do not).         *)
DependenciesFirst ==
  \A r \in Request, t \in Task :
    phase[r][t] # "none" => DependsOn[t] \subseteq Decided

(* README: "Delivery becomes `ready` only after both code work and         *)
(* documentation work pass."  A delivery that is ready has documents that  *)
(* cover everything written to the project and the whole architecture.     *)
ReadyMeansDocumented == disk.delivery = "ready" => drift = {}

AtWork == {"running", "applying", "verifying"}

(* When every request was answered, no task is left in a status that says  *)
(* someone is at work on it.                                               *)
RestIsClean ==
  (\A r \in Request : pc[r] = "idle")
    => \A t \in Task : disk.status[t] \notin AtWork

(* Generation that was cut off by a died process or a closed stream is     *)
(* reachable again after the recovery at the start of the next wave.        *)
RecoverySuffices ==
  (\A r \in Request : pc[r] = "idle")
    => \A t \in Task : Recovered.status[t] # "running"

(* The same of a verification or an application that was cut off.          *)
CutOffIsRecovered ==
  (\A r \in Request : pc[r] = "idle")
    => \A t \in Task : Recovered.status[t] \notin AtWork

(* An architecture that was confirmed again (clear_stale, an undone edit)  *)
(* gives the tasks its stale modules blocked back to the next wave: the    *)
(* message they carry says they are generated after that.                  *)
StaleIsTemporary ==
  (\A r \in Request : pc[r] = "idle")
    => \A t \in Task :
         /\ RecoveredForWave.status[t] = "blocked"
         /\ RecoveredForWave.cause[t] = "stale"
         => t \in stale

(* README: delivery needs "both code work and documentation work": no      *)
(* delivery is ready with a task whose code was never verified.            *)
ReadyMeansVerified ==
  disk.delivery = "ready"
    => \A t \in Task : disk.status[t] \in {"verified", "rejected"}

(* README: a module becomes ready "once [its] dependencies are applied and *)
(* verified": agents of a wave build on verified code only.                *)
DependenciesVerified ==
  \A r \in Request, t \in Task :
    kind[r] = "wave" /\ pc[r] = "begin" /\ t \in mine[r]
      => \A d \in DependsOn[t] : disk.status[d] = "verified"

(* retry_task re-verifies a failed task "when a patch already landed": an  *)
(* applied task's latest patch is in the project.                          *)
AppliedIsCurrent ==
  \A t \in Task : disk.status[t] \in Landed => t \in current

(* A running task seen by a new wave is a zombie (recover_stale_running):  *)
(* no two agents are at work for one task.                                 *)
OneAgentPerTask ==
  \A q, r \in Request, t \in Task :
    q # r /\ phase[q][t] \notin {"none", "dead"}
      => phase[r][t] \in {"none", "dead"}

(* read_apply_mode on review: "Nothing reaches the project until a human   *)
(* applies it": sandbox results land only while the mode is auto.          *)
LandsInAutoOnly ==
  [][\A r \in Request, t \in Task :
       /\ phase[r][t] \in {"auto", "retry"}
       /\ phase'[r][t] \in {"landed", "relanded"}
       => mode = "auto"]_vars

StageOf == [
  pending |-> "waiting", running |-> "working", review |-> "offered",
  applying |-> "offered", partially_applied |-> "offered",
  applied |-> "landed", verifying |-> "landed", verified |-> "accepted",
  failed |-> "failed", blocked |-> "blocked", rejected |-> "dropped"]

Lifecycle == INSTANCE TaskLifecycle
  WITH stage <- [t \in Task |-> StageOf[disk.status[t]]]

(* tasks.json implements TaskLifecycle: no request, recovery, stale mark   *)
(* or crash moves a task back from an accepted or dropped result, skips    *)
(* the review of an offered one or restarts one that never failed.         *)
LifecycleSpec == Lifecycle!Spec

(* Every request is answered: no agent, stop, repair round or verification *)
(* keeps it for ever.                                                      *)
RequestEnds == \A r \in Request : pc[r] # "idle" ~> pc[r] = "idle"
=============================================================================
