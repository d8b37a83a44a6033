------------------------------ MODULE TaskState ------------------------------
(***************************************************************************)
(* task_state.py and the pure parts of task_generate.py: what tasks.json   *)
(* says about the work items and the documentation task, and the functions *)
(* every stage applies to a copy of it.  There are no variables here.      *)
(***************************************************************************)
EXTENDS Naturals

CONSTANTS
  Task,        \* work items, one per architecture module
  DependsOn,   \* DependsOn[t]: tasks that t waits for
  MaxRepairs   \* MAX_REPAIR_ATTEMPTS

ASSUME StateAssumption ==
  /\ DependsOn \in [Task -> SUBSET Task]
  /\ MaxRepairs \in Nat

Status == {"pending", "running", "review", "applying", "partially_applied",
           "applied", "verifying", "verified", "failed", "blocked", "rejected"}
Landed == {"applied", "verified"}
TASK_DONE_STATUSES == Landed \cup {"rejected"}

(* What a later decision reads out of last_error.                          *)
Cause == {"none", "interrupted", "handoff", "stale", "other"}

DOCUMENTATION_STATUSES ==
  {"not_required", "pending", "running", "synced", "retrying", "blocked"}
DocumentsCurrent == {"not_required", "synced"}

Document == [
  status : [Task -> Status],
  cause : [Task -> Cause],
  patch : SUBSET Task,         \* tasks that hold a patch
  tested : SUBSET Task,        \* tasks that hold a verification_output
  changed : SUBSET Task,       \* tasks with code_changed_files
  registered : SUBSET Task,    \* documentation_registered
  repairs : [Task -> 0..MaxRepairs],
  documentation : DOCUMENTATION_STATUSES,
  delivery : {"ready", "blocked"}]

(* A plan derived from the architecture, before any task was generated.    *)
NewPlan == [
  status |-> [t \in Task |-> "pending"],
  cause |-> [t \in Task |-> "none"],
  patch |-> {}, tested |-> {}, changed |-> {}, registered |-> {},
  repairs |-> [t \in Task |-> 0],
  documentation |-> "not_required",
  delivery |-> "blocked"]

Set(s, S, value, why) ==
  [s EXCEPT !.status = [t \in Task |-> IF t \in S THEN value ELSE s.status[t]],
            !.cause = [t \in Task |-> IF t \in S THEN why ELSE s.cause[t]]]

Put(s, S, value) ==
  [s EXCEPT !.status = [t \in Task |-> IF t \in S THEN value ELSE s.status[t]]]

AllDone(s) == \A t \in Task : s.status[t] \in TASK_DONE_STATUSES

(* The gate: all tasks done (so none failed or blocked) and the documents  *)
(* current.                                                                *)
Gate(s) == AllDone(s) /\ s.documentation \in DocumentsCurrent

update_delivery_status(s) ==
  [s EXCEPT !.delivery = IF Gate(s) THEN "ready" ELSE "blocked"]

(* Mutant: the documentation task keeps the status it had.                 *)
RegisterKeepsStatus(s) == update_delivery_status(s)

register_documentation_task(s) ==
  update_delivery_status([s EXCEPT !.documentation = "pending"])

Unregistered(s) ==
  { t \in s.changed \ s.registered : s.status[t] \in Landed }

register_completed_documentation(s) ==
  LET r == [s EXCEPT !.registered = s.registered \cup Unregistered(s)]
  IN  IF Unregistered(s) = {} THEN update_delivery_status(s)
                              ELSE register_documentation_task(r)

(* Mutant: also tasks that are done are blocked.                           *)
MarkStaleDone(s, stale) ==
  Set(s, { t \in stale : s.status[t] \in {"pending", "review", "verified"} },
      "blocked", "stale")

mark_stale_tasks(s, stale) ==
  Set(s, { t \in stale : s.status[t] \in {"pending", "running", "review"} },
      "blocked", "stale")

Zombies(s, live) == { t \in Task \ live : s.status[t] = "running" }

recover_stale_running(s, live) ==
  Set(s, Zombies(s, live), "pending", "interrupted")

(* Mutant: a dependency that was rejected counts as done.                  *)
ReadyDone(s) ==
  { t \in Task : /\ s.status[t] = "pending"
                 /\ \A d \in DependsOn[t] : s.status[d] \in TASK_DONE_STATUSES }

ready_tasks(s) ==
  { t \in Task : /\ s.status[t] = "pending"
                 /\ \A d \in DependsOn[t] : s.status[d] \in Landed }
=============================================================================
