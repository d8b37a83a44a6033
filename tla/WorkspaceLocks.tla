---------------------------- MODULE WorkspaceLocks ----------------------------
(***************************************************************************)
(* The workspace locks of agents.py as their callers use them: a wave      *)
(* (_prepare_wave_locks, _release_wave_locks), a resumed task (resume_task)*)
(* and a micro task that is applied (apply_micro_task).                    *)
(*                                                                         *)
(* locks.json maps a task to the files it owns.  Every operation reads the *)
(* whole file, changes its copy and writes the copy back; nothing keeps    *)
(* two requests from doing so at the same time.                            *)
(***************************************************************************)
EXTENDS Naturals

CONSTANTS
  Request,      \* request threads
  Task,         \* work items
  Path,         \* project files
  TargetFiles,  \* TargetFiles[t]: _lock_keys of t's target_files
  Rank,         \* Rank[t]: position of t in the plan
  MaxRestarts   \* bound: how often the process dies and is started again

ASSUME LocksAssumption ==
  /\ TargetFiles \in [Task -> SUBSET Path]
  /\ Rank \in [Task -> Nat]
  /\ \A t, u \in Task : Rank[t] = Rank[u] => t = u
  /\ MaxRestarts \in Nat

VARIABLES
  held,      \* held[t]: t's entry in locks.json; {} when it has none
  pc,        \* pc[r]: next step of request r
  kind,      \* kind[r]: what r is running
  wave,      \* wave[r]: the tasks r asks locks for
  todo,      \* todo[r]: assignments acquire_workspace_locks has not looked at
  copy,      \* copy[r]: the locks as r read them and changed them
  granted,   \* granted[r]: tasks r was granted
  restarts   \* how often the process was restarted

vars == <<held, pc, kind, wave, todo, copy, granted, restarts>>

Step == {"idle", "acquire", "grant", "granted", "working", "popped"}
Kind == {"none", "wave", "resume", "micro"}
NoLocks == [t \in Task |-> {}]

TypeOK ==
  /\ held \in [Task -> SUBSET Path]
  /\ pc \in [Request -> Step]
  /\ kind \in [Request -> Kind]
  /\ wave \in [Request -> SUBSET Task]
  /\ todo \in [Request -> SUBSET Task]
  /\ copy \in [Request -> [Task -> SUBSET Path]]
  /\ granted \in [Request -> SUBSET Task]
  /\ restarts \in 0..MaxRestarts

Idle ==
  /\ pc = [r \in Request |-> "idle"]
  /\ kind = [r \in Request |-> "none"]
  /\ wave = [r \in Request |-> {}]
  /\ todo = [r \in Request |-> {}]
  /\ copy = [r \in Request |-> NoLocks]
  /\ granted = [r \in Request |-> {}]

Init == held = NoLocks /\ Idle /\ restarts = 0

-----------------------------------------------------------------------------
AtWork(r) == IF pc[r] = "working" THEN granted[r] ELSE {}

(* A task at work has status running; a wave, a resume and a micro task    *)
(* only take tasks of another status.                                      *)
NotAtWork == Task \ UNION { AtWork(r) : r \in Request }

(* _prepare_wave_locks empties the file first.                             *)
StartWave(r, S) ==
  /\ pc[r] = "idle"
  /\ S # {}
  /\ S \subseteq NotAtWork
  /\ held' = NoLocks
  /\ kind' = [kind EXCEPT ![r] = "wave"]
  /\ wave' = [wave EXCEPT ![r] = S]
  /\ pc' = [pc EXCEPT ![r] = "acquire"]
  /\ UNCHANGED <<todo, copy, granted, restarts>>

(* resume_task and apply_micro_task ask for the locks of one task.         *)
StartOne(r, k, t) ==
  /\ pc[r] = "idle"
  /\ t \in NotAtWork
  /\ kind' = [kind EXCEPT ![r] = k]
  /\ wave' = [wave EXCEPT ![r] = {t}]
  /\ pc' = [pc EXCEPT ![r] = "acquire"]
  /\ UNCHANGED <<held, todo, copy, granted, restarts>>

(* Mutant: the pairs of an assignment are unpacked in the wrong order.     *)
AcquireReadsPaths(r) ==
  /\ pc[r] = "acquire"
  /\ copy' = [copy EXCEPT ![r] = held]
  /\ todo' = [todo EXCEPT ![r] = UNION {TargetFiles[t] : t \in wave[r]}]
  /\ pc' = [pc EXCEPT ![r] = "grant"]
  /\ UNCHANGED <<held, kind, wave, granted, restarts>>

(* acquire_workspace_locks: read the file.                                 *)
AcquireRead(r) ==
  /\ pc[r] = "acquire"
  /\ copy' = [copy EXCEPT ![r] = held]
  /\ todo' = [todo EXCEPT ![r] = wave[r]]
  /\ pc' = [pc EXCEPT ![r] = "grant"]
  /\ UNCHANGED <<held, kind, wave, granted, restarts>>

(* Mutant: a task is blocked only when all its files are taken.            *)
FreeIfNotAll(t, locks) ==
  \A u \in Task : TargetFiles[t] = {} \/ ~ TargetFiles[t] \subseteq locks[u]

(* An entry of the file, the task's own included, blocks a task whose      *)
(* files it shares.                                                        *)
Free(t, locks) == \A u \in Task : locks[u] \cap TargetFiles[t] = {}

(* Mutant: the granted keys are not added to the copy.                     *)
GrantForgetsKeys(r, t) ==
  /\ pc[r] = "grant"
  /\ t \in todo[r]
  /\ todo' = [todo EXCEPT ![r] = @ \ {t}]
  /\ IF Free(t, copy[r]) THEN granted' = [granted EXCEPT ![r] = @ \cup {t}]
                         ELSE UNCHANGED granted
  /\ UNCHANGED <<held, pc, kind, wave, copy, restarts>>

(* The loop of acquire_workspace_locks, one assignment at a time, in plan  *)
(* order.                                                                  *)
GrantNext(r, t) ==
  /\ pc[r] = "grant"
  /\ t \in todo[r]
  /\ \A u \in todo[r] : Rank[t] <= Rank[u]
  /\ todo' = [todo EXCEPT ![r] = @ \ {t}]
  /\ IF Free(t, copy[r])
     THEN /\ copy' = [copy EXCEPT ![r][t] = @ \cup TargetFiles[t]]
          /\ granted' = [granted EXCEPT ![r] = @ \cup {t}]
     ELSE UNCHANGED <<copy, granted>>
  /\ UNCHANGED <<held, pc, kind, wave, restarts>>

AcquireWrite(r) ==
  /\ pc[r] = "grant"
  /\ todo[r] = {}
  /\ held' = copy[r]
  /\ copy' = [copy EXCEPT ![r] = NoLocks]
  /\ pc' = [pc EXCEPT ![r] = "granted"]
  /\ UNCHANGED <<kind, wave, todo, granted, restarts>>

Reset(r) ==
  /\ pc' = [pc EXCEPT ![r] = "idle"]
  /\ kind' = [kind EXCEPT ![r] = "none"]
  /\ wave' = [wave EXCEPT ![r] = {}]
  /\ granted' = [granted EXCEPT ![r] = {}]

(* Nothing granted: the wave ends, a single task is refused.               *)
Refused(r) ==
  /\ pc[r] = "granted"
  /\ granted[r] = {}
  /\ Reset(r)
  /\ UNCHANGED <<held, todo, copy, restarts>>

Work(r) ==
  /\ pc[r] = "granted"
  /\ granted[r] # {}
  /\ pc' = [pc EXCEPT ![r] = "working"]
  /\ UNCHANGED <<held, kind, wave, todo, copy, granted, restarts>>

(* Between the grant and the try block, register_agent or begin_job of a   *)
(* wave or of resume_task may raise: the locks stay in the file.           *)
StartFails(r) ==
  /\ pc[r] = "granted"
  /\ kind[r] \in {"wave", "resume"}
  /\ granted[r] # {}
  /\ Reset(r)
  /\ UNCHANGED <<held, todo, copy, restarts>>

(* Mutant: only one of the granted tasks is dropped.                       *)
ReleaseOne(r) ==
  /\ pc[r] = "working"
  /\ \E t \in granted[r] : copy' = [copy EXCEPT ![r] = [held EXCEPT ![t] = {}]]
  /\ pc' = [pc EXCEPT ![r] = "popped"]
  /\ UNCHANGED <<held, kind, wave, todo, granted, restarts>>

(* release_workspace_locks: read the file, drop the entries of the granted *)
(* tasks, write it.                                                        *)
ReleaseRead(r) ==
  /\ pc[r] = "working"
  /\ copy' = [copy EXCEPT ![r] = [t \in Task |->
                IF t \in granted[r] THEN {} ELSE held[t]]]
  /\ pc' = [pc EXCEPT ![r] = "popped"]
  /\ UNCHANGED <<held, kind, wave, todo, granted, restarts>>

ReleaseWrite(r) ==
  /\ pc[r] = "popped"
  /\ held' = copy[r]
  /\ copy' = [copy EXCEPT ![r] = NoLocks]
  /\ Reset(r)
  /\ UNCHANGED <<todo, restarts>>

(* The process dies and is started again; locks.json stays.                *)
Restart ==
  /\ restarts < MaxRestarts
  /\ restarts' = restarts + 1
  /\ pc' = [r \in Request |-> "idle"]
  /\ kind' = [r \in Request |-> "none"]
  /\ wave' = [r \in Request |-> {}]
  /\ todo' = [r \in Request |-> {}]
  /\ copy' = [r \in Request |-> NoLocks]
  /\ granted' = [r \in Request |-> {}]
  /\ UNCHANGED held

Next ==
  \/ \E r \in Request :
       \/ \E S \in SUBSET Task : StartWave(r, S)
       \/ \E t \in Task : StartOne(r, "resume", t) \/ StartOne(r, "micro", t)
       \/ AcquireRead(r)
       \/ \E t \in Task : GrantNext(r, t)
       \/ AcquireWrite(r)
       \/ Refused(r)
       \/ Work(r)
       \/ StartFails(r)
       \/ ReleaseRead(r)
       \/ ReleaseWrite(r)
  \/ Restart

Spec == Init /\ [][Next]_vars

(* Once started, a request goes on: granting is a bounded loop and the     *)
(* work between grant and release is bounded by turn limits and timeouts.  *)
Continue(r) ==
  \/ AcquireRead(r) \/ (\E t \in Task : GrantNext(r, t)) \/ AcquireWrite(r)
  \/ Refused(r) \/ Work(r) \/ ReleaseRead(r) \/ ReleaseWrite(r)

FairSpec == Spec /\ \A r \in Request : WF_vars(Continue(r))

-----------------------------------------------------------------------------
(* Properties.                                                             *)

(* Two tasks granted by one acquisition never share a target file, however *)
(* other requests rewrite locks.json meanwhile.                            *)
WaveExclusive ==
  \A r \in Request : \A t, u \in granted[r] :
    t # u => TargetFiles[t] \cap TargetFiles[u] = {}

(* No two agents work on one file, whatever request they belong to.        *)
Exclusive ==
  \A r, q \in Request : \A t \in AtWork(r), u \in AtWork(q) :
    r # q \/ t # u => TargetFiles[t] \cap TargetFiles[u] = {}

(* With one request at a time the file tells the truth: a working agent's  *)
(* files are recorded as its own.                                          *)
WorkIsRecorded ==
  \A r \in Request : \A t \in AtWork(r) : held[t] = TargetFiles[t]

(* The locks of an agent at work are given back, unless the process dies   *)
(* before.                                                                 *)
WorkIsReleased ==
  \A t \in Task, n \in 0..MaxRestarts :
    (restarts = n /\ \E r \in Request : t \in AtWork(r))
      ~> (restarts > n \/ held[t] = {})

(* A task is refused only because of another task: its own entry, left     *)
(* behind by a run that was cut short, does not keep it from being resumed.*)
NotSelfBlocked ==
  \A r \in Request :
    pc[r] = "grant" /\ kind[r] = "resume" => \A t \in todo[r] :
      (\A u \in Task \ {t} : copy[r][u] \cap TargetFiles[t] = {})
        => Free(t, copy[r])
=============================================================================
