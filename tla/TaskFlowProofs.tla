--------------------------- MODULE TaskFlowProofs ---------------------------
(***************************************************************************)
(* Proofs about TaskFlow, for every set of tasks, every dependency         *)
(* relation and any number of restarts.                                    *)
(*                                                                         *)
(* The first theorems allow any overlap of requests: what a request writes *)
(* back may be old, but it is never untrue of what has reached the         *)
(* project.  The others are about one request thread: the client waits for *)
(* the answer before it sends the next request, so that tasks.json and the *)
(* copy of the request at work move together, as one life of every work    *)
(* item.  What else a theorem assumes of the entry points is said with it. *)
(***************************************************************************)
EXTENDS TaskFlow, TLAPS

USE DEF Decided

-----------------------------------------------------------------------------
(* What the operators of TaskState preserve: a copy of tasks.json stays    *)
(* sound for the set L of tasks that reached the project or were decided   *)
(* upon with nothing taken.                                                *)

(* Statuses and reasons that a task has only after work for it began.      *)
BegunBy(value, why) ==
  \/ value \notin {"pending", "blocked", "rejected"}
  \/ value = "pending" /\ why = "interrupted"
  \/ value = "blocked" /\ why = "handoff"

LandedBy(value) == value \in {"applied", "verified", "verifying"}

(* What tasks.json says of a landed task is so, and so it is of what a     *)
(* begun task depends on.                                                  *)
Sound(s, L) ==
  /\ s \in Document
  /\ s.tested \subseteq L
  /\ \A t \in Task :
       /\ LandedBy(s.status[t]) => t \in L
       /\ BegunBy(s.status[t], s.cause[t]) => DependsOn[t] \subseteq L

Given(S, value, why, L) ==
  \A t \in S : /\ LandedBy(value) => t \in L
               /\ BegunBy(value, why) => DependsOn[t] \subseteq L

LEMMA SoundGrows ==
  ASSUME NEW s, NEW L, NEW M, Sound(s, L), L \subseteq M
  PROVE  Sound(s, M)
BY DEF Sound

LEMMA NewPlanSound ==
  ASSUME NEW L PROVE Sound(NewPlan, L)
<1>1. NewPlan \in Document
  BY StateAssumption DEF NewPlan, Document, Status, Cause, Landed,
     DOCUMENTATION_STATUSES
<1> QED
  BY <1>1 DEF Sound, NewPlan, LandedBy, BegunBy

LEMMA SetType ==
  ASSUME NEW s \in Document, NEW S, NEW value \in Status, NEW why \in Cause
  PROVE  /\ Set(s, S, value, why) \in Document
         /\ Set(s, S, value, why).tested = s.tested
         /\ \A t \in Task :
              /\ Set(s, S, value, why).status[t]
                   = IF t \in S THEN value ELSE s.status[t]
              /\ Set(s, S, value, why).cause[t]
                   = IF t \in S THEN why ELSE s.cause[t]
BY DEF Set, Document

LEMMA SetSound ==
  ASSUME NEW s, NEW S, NEW L, NEW value \in Status, NEW why \in Cause,
         Sound(s, L), Given(S, value, why, L)
  PROVE  Sound(Set(s, S, value, why), L)
<1>1. s \in Document
  BY DEF Sound
<1> QED
  BY <1>1, SetType DEF Sound, Given

LEMMA PutSound ==
  ASSUME NEW s, NEW S, NEW L, NEW value \in Status, Sound(s, L),
         \A t \in S : DependsOn[t] \subseteq L /\ (LandedBy(value) => t \in L)
  PROVE  Sound(Put(s, S, value), L)
<1>1. /\ Put(s, S, value) \in Document
      /\ Put(s, S, value).tested = s.tested
      /\ Put(s, S, value).cause = s.cause
      /\ \A t \in Task : Put(s, S, value).status[t]
                           = IF t \in S THEN value ELSE s.status[t]
  BY DEF Put, Document, Sound
<1> QED
  BY <1>1 DEF Sound

(* Changing what Sound does not look at.                                   *)
LEMMA SameSound ==
  ASSUME NEW s, NEW L, NEW u \in Document, Sound(s, L),
         u.tested = s.tested, u.status = s.status, u.cause = s.cause
  PROVE  Sound(u, L)
BY DEF Sound

LEMMA GateSound ==
  ASSUME NEW s, NEW L, Sound(s, L)
  PROVE  Sound(update_delivery_status(s), L)
<1>1. update_delivery_status(s) \in Document
  BY DEF Sound, update_delivery_status, Document
<1>2. /\ update_delivery_status(s).tested = s.tested
      /\ update_delivery_status(s).status = s.status
      /\ update_delivery_status(s).cause = s.cause
  BY DEF Sound, update_delivery_status, Document
<1> QED
  BY <1>1, <1>2, SameSound

LEMMA RegisterSound ==
  ASSUME NEW s, NEW L, Sound(s, L)
  PROVE  Sound(register_documentation_task(s), L)
<1> DEFINE u == [s EXCEPT !.documentation = "pending"]
<1>1. /\ u \in Document
      /\ u.tested = s.tested /\ u.status = s.status /\ u.cause = s.cause
  BY DEF Sound, Document, DOCUMENTATION_STATUSES
<1>2. Sound(u, L)
  BY <1>1, SameSound
<1> QED
  BY <1>2, GateSound DEF register_documentation_task

LEMMA CompletedSound ==
  ASSUME NEW s, NEW L, Sound(s, L)
  PROVE  Sound(register_completed_documentation(s), L)
<1> DEFINE u == [s EXCEPT !.registered = s.registered \cup Unregistered(s)]
<1>1. Unregistered(s) \subseteq Task
  BY DEF Unregistered, Sound, Document
<1>2. /\ u \in Document
      /\ u.tested = s.tested /\ u.status = s.status /\ u.cause = s.cause
  BY <1>1 DEF Sound, Document
<1>3. Sound(u, L)
  BY <1>2, SameSound
<1> QED
  BY <1>3, GateSound, RegisterSound DEF register_completed_documentation

LEMMA MarkStaleSound ==
  ASSUME NEW s, NEW L, NEW S, Sound(s, L)
  PROVE  Sound(mark_stale_tasks(s, S), L)
BY SetSound DEF mark_stale_tasks, Given, LandedBy, BegunBy, Status, Cause

LEMMA RecoverSound ==
  ASSUME NEW s, NEW L, NEW live, Sound(s, L)
  PROVE  Sound(recover_stale_running(s, live), L)
<1>1. Given(Zombies(s, live), "pending", "interrupted", L)
  BY DEF Given, Zombies, Sound, LandedBy, BegunBy
<1> QED
  BY <1>1, SetSound DEF recover_stale_running, Status, Cause

-----------------------------------------------------------------------------
(* The inductive invariant.                                                *)

(* Every copy of tasks.json, however old, is sound for what was decided.   *)
CopiesSound ==
  /\ Sound(disk, Decided)
  /\ \A r \in Request : Sound(mem[r], Decided)

(* An agent that verifies has something to verify, and an agent at work    *)
(* has what it depends on.                                                 *)
AgentsSound ==
  \A r \in Request, t \in Task :
    /\ phase[r][t] \in {"landed", "relanded", "check"} => t \in Decided
    /\ phase[r][t] # "none" => DependsOn[t] \subseteq Decided

(* So do the tasks of a request whose agents are about to start.           *)
Committed(r) ==
  \/ pc[r] \in {"write", "land"}
  \/ pc[r] = "begin" /\ kind[r] # "verify"

MineSound ==
  \A r \in Request : \A t \in mine[r] :
    /\ Committed(r) => DependsOn[t] \subseteq Decided
    /\ pc[r] = "write" /\ kind[r] = "verify" => t \in Decided

(* Verification is of one task.                                            *)
OneTask ==
  \A r \in Request :
    /\ pc[r] = "read" => kind[r] \in {"verify", "reverify"}
    /\ kind[r] \in {"verify", "reverify"} => \A t, u \in mine[r] : t = u
    /\ pc[r] = "land" => kind[r] = "apply"
    /\ kind[r] = "apply" => \A t, u \in mine[r] : t = u

IInv ==
  /\ TypeOK
  /\ CopiesSound
  /\ AgentsSound
  /\ MineSound
  /\ OneTask
-----------------------------------------------------------------------------
LEMMA InitInv == Init => IInv
<1> SUFFICES ASSUME Init PROVE IInv
  OBVIOUS
<1>1. Sound(NewPlan, {})
  BY NewPlanSound
<1>2. CopiesSound
  BY <1>1 DEF Init, Idle, CopiesSound
<1>3. TypeOK
  BY <1>1, FlowAssumption
  DEF Init, Idle, TypeOK, Sound, Off, Step, Kind, Phase
<1> QED
  BY <1>2, <1>3 DEF Init, Idle, IInv, AgentsSound, MineSound, OneTask, Committed,
     Off

(* A request starts with a sound copy.                                     *)
LEMMA StartInv ==
  ASSUME IInv, NEW r \in Request, NEW k \in Kind, NEW S \in SUBSET Task,
         NEW s, NEW step \in {"write", "begin"},
         Start(r, k, S, s, step), Sound(s, Decided), Sound(disk', Decided),
         k # "verify" => \A t \in S : DependsOn[t] \subseteq Decided,
         k = "verify" => step = "begin",
         k \in {"verify", "reverify", "apply"} => \A t, u \in S : t = u
  PROVE  IInv'
<1> USE DEF Start, Goto, settings, project
<1>1. CopiesSound'
  BY DEF IInv, TypeOK, CopiesSound
<1>2. TypeOK'
  <2>1. disk' \in Document /\ mem' \in [Request -> Document]
    BY DEF IInv, TypeOK, Sound
  <2> QED
    BY <2>1 DEF IInv, TypeOK, Step
<1>3. AgentsSound'
  BY DEF IInv, AgentsSound
<1>4. MineSound'
  BY DEF IInv, TypeOK, MineSound, Committed
<1>5. OneTask'
  BY DEF IInv, TypeOK, OneTask
<1> QED
  BY <1>1, <1>2, <1>3, <1>4, <1>5 DEF IInv

(* An agent has come to a result and recorded it soundly.                  *)
LEMMA AgentInv ==
  ASSUME IInv, NEW r \in Request, NEW t \in Task, NEW s, NEW ph \in Phase,
         phase[r][t] # "none", Record(r, s), Move(r, t, ph),
         Decided \subseteq Decided', Sound(s, Decided'),
         ph \in {"landed", "relanded", "check"} => t \in Decided',
         Decided' \subseteq Task, current' \subseteq Task,
         drift' \subseteq Task \cup {Architecture},
         \/ kind' = kind
         \/ kind[r] = "repair" /\ kind' = [kind EXCEPT ![r] = "handoff"],
         UNCHANGED <<disk, pc, mine, job, stop, settings, restarts>>
  PROVE  IInv'
<1> USE DEF Record, Move, settings
<1>1. CopiesSound'
  BY SoundGrows DEF IInv, TypeOK, CopiesSound
<1>2. phase' \in [Request -> [Task -> Phase]]
  BY DEF IInv, TypeOK
<1>3. TypeOK'
  <2>1. disk' \in Document /\ mem' \in [Request -> Document]
    BY DEF IInv, TypeOK, Sound
  <2>2. kind' \in [Request -> Kind]
    BY DEF IInv, TypeOK, Kind
  <2> QED
    BY <1>2, <2>1, <2>2 DEF IInv, TypeOK
<1>4. AgentsSound'
  BY DEF IInv, TypeOK, AgentsSound
<1>5. MineSound'
  BY DEF IInv, TypeOK, MineSound, Committed
<1>6. OneTask'
  BY DEF IInv, TypeOK, OneTask
<1> QED
  BY <1>1, <1>3, <1>4, <1>5, <1>6 DEF IInv

(* A request leaves.                                                       *)
LEMMA LeaveInv ==
  ASSUME IInv, NEW r \in Request, Leave(r), Sound(disk', Decided),
         phase' = phase \/ phase' = [phase EXCEPT ![r] = Off],
         job' \in [Request -> SUBSET Task],
         UNCHANGED <<settings, project, restarts>>
  PROVE  IInv'
<1> USE DEF Leave, Goto, settings, project
<1>1. CopiesSound'
  BY NewPlanSound DEF IInv, TypeOK, CopiesSound
<1>2. phase' \in [Request -> [Task -> Phase]]
  BY DEF IInv, TypeOK, Off, Phase
<1>3. TypeOK'
  <2>1. disk' \in Document /\ mem' \in [Request -> Document]
    BY NewPlanSound DEF IInv, TypeOK, Sound
  <2> QED
    BY <1>2, <2>1 DEF IInv, TypeOK, Step, Kind
<1>4. AgentsSound'
  BY DEF IInv, TypeOK, AgentsSound, Off
<1>5. MineSound'
  BY DEF IInv, TypeOK, MineSound, Committed
<1>6. OneTask'
  BY DEF IInv, TypeOK, OneTask
<1> QED
  BY <1>1, <1>3, <1>4, <1>5, <1>6 DEF IInv

(* tasks.json is written by a step of its own, or only what no part of the *)
(* invariant but the types looks at.                                       *)
LEMMA FileInv ==
  ASSUME IInv, Sound(disk', Decided),
         UNCHANGED <<mem, pc, kind, mine, phase, landed, waived>>,
         job' \in [Request -> SUBSET Task],
         stop' \in [Request -> SUBSET Task],
         mode' \in {"review", "auto"}, stale' \subseteq Task,
         current' \subseteq Task, drift' \subseteq Task \cup {Architecture},
         restarts' \in 0..MaxRestarts
  PROVE  IInv'
BY DEF IInv, TypeOK, CopiesSound, Sound, AgentsSound, MineSound, OneTask, Committed
-----------------------------------------------------------------------------
(* What the recoveries leave.                                              *)
LEMMA RecoveredSound ==
  ASSUME IInv
  PROVE  Sound(Recovered, Decided) /\ Sound(RecoveredForWave, Decided)
BY RecoverSound, MarkStaleSound DEF IInv, CopiesSound, Recovered, RecoveredForWave

LEMMA RefuseSound ==
  ASSUME NEW s, NEW L, NEW S, Sound(s, L)
  PROVE  Sound(Refuse(s, S), L)
BY SetSound DEF Refuse, Given, LandedBy, BegunBy, Status, Cause

(* A failed task, and every other one retry_task accepts, was begun.       *)
LEMMA RetryableBegun ==
  ASSUME IInv, NEW t \in Task, Retryable(t) \/ disk.status[t] = "failed"
  PROVE  DependsOn[t] \subseteq Decided
BY DEF IInv, CopiesSound, Sound, Retryable, BegunBy

LEMMA StartsInv ==
  ASSUME IInv, NEW r \in Request, NEW t \in Task, StartsWith(r, t)
  PROVE  IInv'
<1> USE DEF Status, Cause, Given, LandedBy, BegunBy
<1>1. CASE StartRetry(r, t)
  <2>1. DependsOn[t] \subseteq Decided
    BY <1>1, RetryableBegun DEF StartRetry
  <2>2. Sound(Set(Recovered, {t}, "running", "none"), Decided)
    BY <2>1, RecoveredSound, SetSound
  <2>3. Sound(disk', Decided)
    BY <1>1, RecoveredSound DEF StartRetry
  <2> QED
    BY <1>1, <2>1, <2>2, <2>3, StartInv DEF StartRetry, Kind
<1>2. CASE StartReverify(r, t)
  <2>1. DependsOn[t] \subseteq Decided
    BY <1>2, RetryableBegun DEF StartReverify
  <2>2. t \in Decided
    BY <1>2 DEF StartReverify, Verifiable, IInv, CopiesSound, Sound
  <2>3. Sound(Set(Recovered, {t}, "applied", "none"), Decided)
    BY <2>1, <2>2, RecoveredSound, SetSound
  <2>4. Sound(update_delivery_status(Set(Recovered, {t}, "applied", "none")),
              Decided)
    BY <2>3, GateSound
  <2>5. Sound(disk', Decided)
    BY <1>2, RecoveredSound DEF StartReverify
  <2> QED
    BY <1>2, <2>1, <2>4, <2>5, StartInv DEF StartReverify, Kind
<1>3. CASE StartResume(r, t)
  <2>1. DependsOn[t] \subseteq Decided
    BY <1>3, RecoveredSound, StateAssumption DEF StartResume, Sound, Landed
  <2>2. Sound(Set(Recovered, {t}, "running", "none"), Decided)
    BY <2>1, RecoveredSound, SetSound
  <2>3. Sound(disk', Decided)
    BY <1>3, RecoveredSound DEF StartResume
  <2> QED
    BY <1>3, <2>1, <2>2, <2>3, StartInv DEF StartResume, Kind
<1>4. CASE StartRepair(r, t)
  <2>1. DependsOn[t] \subseteq Decided
    BY <1>4, RetryableBegun DEF StartRepair
  <2>2. Sound(disk, Decided)
    BY DEF IInv, CopiesSound
  <2> DEFINE s == Set(disk, {t}, "running", "none")
             u == [s EXCEPT !.repairs[t] = @ + 1]
  <2>3. Sound(s, Decided)
    BY <2>1, <2>2, SetSound
  <2>4. s.repairs = disk.repairs
    BY <2>2 DEF Set, Sound, Document
  <2>5. s.repairs[t] + 1 \in 0..MaxRepairs
    BY <1>4, <2>2, <2>4, StateAssumption DEF StartRepair, Sound, Document
  <2>6. /\ u \in Document
        /\ u.tested = s.tested /\ u.status = s.status /\ u.cause = s.cause
    BY <2>3, <2>5 DEF Sound, Document
  <2>7. Sound(u, Decided)
    BY <2>3, <2>6, SameSound
  <2>8. /\ Start(r, "repair", {t}, u, "write")
        /\ disk' = disk
    BY <1>4 DEF StartRepair
  <2> QED
    BY <2>1, <2>2, <2>7, <2>8, StartInv DEF Kind
<1>5. CASE StartVerify(r, t)
  BY <1>5, NewPlanSound, StartInv DEF StartVerify, Kind, IInv, CopiesSound
<1>6. CASE StartApply(r, t)
  <2> DEFINE s == mark_stale_tasks(disk, stale)
  <2>1. Sound(s, Decided)
    BY MarkStaleSound DEF IInv, CopiesSound
  <2>2. DependsOn[t] \subseteq Decided
    BY <1>6, <2>1 DEF StartApply, Sound
  <2>3. Sound(Put(s, {t}, "applying"), Decided)
    BY <2>1, <2>2, PutSound
  <2>4. /\ Start(r, "apply", {t}, Put(s, {t}, "applying"), "write")
        /\ Sound(disk', Decided)
    BY <1>6 DEF StartApply, IInv, CopiesSound
  <2> QED
    BY <2>2, <2>3, <2>4, StartInv DEF Kind
<1>7. CASE Reject(r, t)
  <2>1. Sound(disk', Decided)
    BY <1>7, SetSound DEF Reject, IInv, CopiesSound
  <2> QED
    BY <1>7, <2>1, FileInv DEF Reject, IInv, TypeOK, agents, settings, project
<1> QED
  BY <1>1, <1>2, <1>3, <1>4, <1>5, <1>6, <1>7 DEF StartsWith

LEMMA WaveInv ==
  ASSUME IInv, NEW r \in Request, NEW S \in SUBSET Task, StartWave(r, S)
  PROVE  IInv'
<1> DEFINE ready == ready_tasks(RecoveredForWave)
           s == Refuse(RecoveredForWave, ready \ S)
<1>1. Sound(s, Decided)
  BY RecoveredSound, RefuseSound
<1>2. \A t \in S : DependsOn[t] \subseteq Decided
  BY RecoveredSound, StateAssumption
  DEF StartWave, ready_tasks, Sound, Landed, LandedBy
<1>3. Sound(Put(s, S, "running"), Decided)
  BY <1>1, <1>2, PutSound DEF Status, LandedBy
<1>4. /\ Start(r, "wave", S, Put(s, S, "running"), "write")
      /\ Sound(disk', Decided)
  BY DEF StartWave, IInv, CopiesSound
<1> QED
  BY <1>2, <1>3, <1>4, StartInv DEF Kind

LEMMA FilesInv ==
  ASSUME IInv,
         \/ \E r \in Request : \/ WaveWaits(r) \/ Refused(r)
                               \/ \E o \in DOCUMENTATION_STATUSES : SyncDocs(r, o)
                               \/ \E S \in SUBSET Task : EditArchitecture(r, S)
         \/ \E t \in Task : Cancel(t) \/ ClearStale(t)
         \/ \E m \in {"review", "auto"} : SetMode(m)
  PROVE  IInv'
<1> USE DEF agents, settings, project
<1>1. ASSUME NEW r \in Request, WaveWaits(r) PROVE IInv'
  <2>1. Sound(disk', Decided)
    BY <1>1, RecoveredSound, RefuseSound DEF WaveWaits
  <2> QED
    BY <1>1, <2>1, FileInv DEF WaveWaits, IInv, TypeOK
<1>2. ASSUME NEW r \in Request, Refused(r) PROVE IInv'
  <2>1. Sound(disk', Decided)
    BY <1>2, RecoveredSound DEF Refused
  <2> QED
    BY <1>2, <2>1, FileInv DEF Refused, IInv, TypeOK
<1>3. ASSUME NEW r \in Request, NEW o \in DOCUMENTATION_STATUSES, SyncDocs(r, o)
      PROVE  IInv'
  <2> DEFINE u == [disk EXCEPT !.documentation = o]
  <2>1. /\ u \in Document /\ Sound(disk, Decided)
        /\ u.tested = disk.tested /\ u.status = disk.status
        /\ u.cause = disk.cause
    BY DEF IInv, CopiesSound, Sound, Document
  <2>2. Sound(update_delivery_status(u), Decided)
    BY <2>1, SameSound, GateSound
  <2>3. /\ disk' = update_delivery_status(u)
        /\ drift' \subseteq Task \cup {Architecture}
        /\ UNCHANGED <<mem, pc, kind, agents, settings, landed, waived, current, restarts>>
    BY <1>3 DEF SyncDocs, IInv, TypeOK
  <2> QED
    BY <2>2, <2>3, FileInv DEF IInv, TypeOK
<1>4. ASSUME NEW r \in Request, NEW S \in SUBSET Task, EditArchitecture(r, S)
      PROVE  IInv'
  <2> DEFINE s == update_delivery_status(disk)
             u == [s EXCEPT !.documentation = "pending"]
  <2>1. Sound(s, Decided)
    BY GateSound DEF IInv, CopiesSound
  <2>2. /\ u \in Document
        /\ u.tested = s.tested /\ u.status = s.status /\ u.cause = s.cause
    BY <2>1 DEF Sound, Document, DOCUMENTATION_STATUSES
  <2>3. Sound(u, Decided)
    BY <2>1, <2>2, SameSound
  <2>4. /\ disk' = u
        /\ drift' \subseteq Task \cup {Architecture}
        /\ stale' \subseteq Task
        /\ UNCHANGED <<mem, pc, kind, agents, mode, landed, waived, current, restarts>>
    BY <1>4 DEF EditArchitecture, IInv, TypeOK
  <2> QED
    BY <2>3, <2>4, FileInv DEF IInv, TypeOK
<1>5. ASSUME NEW t \in Task, Cancel(t) PROVE IInv'
  <2>1. stop' \in [Request -> SUBSET Task]
    BY <1>5 DEF Cancel, IInv, TypeOK
  <2> QED
    BY <1>5, <2>1, FileInv DEF Cancel, IInv, TypeOK, CopiesSound
<1>6. ASSUME NEW t \in Task, ClearStale(t) PROVE IInv'
  BY <1>6, FileInv DEF ClearStale, IInv, TypeOK, CopiesSound
<1>7. ASSUME NEW m \in {"review", "auto"}, SetMode(m) PROVE IInv'
  BY <1>7, FileInv DEF SetMode, IInv, TypeOK, CopiesSound
<1> QED
  BY <1>1, <1>2, <1>3, <1>4, <1>5, <1>6, <1>7
-----------------------------------------------------------------------------
LEMMA WriteInv ==
  ASSUME IInv, NEW r \in Request, Write(r) PROVE IInv'
<1> USE DEF Write, Goto, settings, project
<1>1. CopiesSound'
  BY DEF IInv, CopiesSound
<1>2. phase' \in [Request -> [Task -> Phase]]
  BY DEF IInv, TypeOK, Phase
<1>3. /\ pc' \in [Request -> Step]
      /\ pc'[r] \in {"begin", "read", "land", "work"}
      /\ pc'[r] = "read" => kind[r] = "reverify"
      /\ pc'[r] = "begin" => kind[r] \in {"wave", "repair"}
      /\ pc'[r] = "land" => kind[r] = "apply"
      /\ \A q \in Request : q # r => pc'[q] = pc[q]
  BY DEF IInv, TypeOK, Step
<1>4. TypeOK'
  <2>1. disk' \in Document
    BY DEF IInv, TypeOK
  <2> QED
    BY <1>2, <1>3, <2>1 DEF IInv, TypeOK
<1>5. AgentsSound'
  <2> SUFFICES ASSUME NEW q \in Request, NEW t \in Task
               PROVE  /\ phase'[q][t] \in {"landed", "relanded", "check"}
                           => t \in Decided
                      /\ phase'[q][t] # "none" => DependsOn[t] \subseteq Decided
    BY DEF AgentsSound
  <2>1. CASE q # r
    BY <2>1 DEF IInv, TypeOK, AgentsSound
  <2>2. CASE q = r /\ t \notin mine[r]
    BY <2>2 DEF IInv, TypeOK
  <2>3. CASE q = r /\ t \in mine[r]
    <3>1. DependsOn[t] \subseteq Decided
      BY <2>3 DEF IInv, MineSound, Committed
    <3>2. phase'[q][t] \in {"loop", "check", "none"}
      BY <2>3 DEF IInv, TypeOK
    <3>3. phase'[q][t] = "check" => kind[r] = "verify"
      BY <2>3 DEF IInv, TypeOK
    <3> QED
      BY <2>3, <3>1, <3>2, <3>3 DEF IInv, MineSound
  <2> QED
    BY <2>1, <2>2, <2>3
<1>6. MineSound'
  BY <1>3 DEF IInv, TypeOK, MineSound, Committed
<1>7. OneTask'
  BY <1>3 DEF IInv, TypeOK, OneTask
<1> QED
  BY <1>1, <1>4, <1>5, <1>6, <1>7 DEF IInv

LEMMA BeginInv ==
  ASSUME IInv, NEW r \in Request, Begin(r) PROVE IInv'
<1> USE DEF Begin, Goto, settings, project
<1>1. CopiesSound'
  BY DEF IInv, CopiesSound
<1>2. phase' \in [Request -> [Task -> Phase]]
  BY DEF IInv, TypeOK, Phase
<1>3. /\ pc' \in [Request -> Step]
      /\ pc'[r] \in {"work", "read", "write"}
      /\ pc'[r] = "read" => kind[r] = "verify"
      /\ pc'[r] = "write" => kind[r] # "verify"
      /\ \A q \in Request : q # r => pc'[q] = pc[q]
  BY DEF IInv, TypeOK, Step
<1>4. job' \in [Request -> SUBSET Task]
  BY DEF IInv, TypeOK
<1>5. TypeOK'
  BY <1>2, <1>3, <1>4 DEF IInv, TypeOK
<1>6. AgentsSound'
  <2> SUFFICES ASSUME NEW q \in Request, NEW t \in Task
               PROVE  /\ phase'[q][t] \in {"landed", "relanded", "check"}
                           => t \in Decided
                      /\ phase'[q][t] # "none" => DependsOn[t] \subseteq Decided
    BY DEF AgentsSound
  <2>1. CASE q # r
    BY <2>1 DEF IInv, TypeOK, AgentsSound
  <2>2. CASE q = r
    BY <2>2 DEF IInv, TypeOK, MineSound, Committed
  <2> QED
    BY <2>1, <2>2
<1>7. MineSound'
  BY <1>3 DEF IInv, TypeOK, MineSound, Committed
<1>8. OneTask'
  BY <1>3 DEF IInv, TypeOK, OneTask
<1> QED
  BY <1>1, <1>5, <1>6, <1>7, <1>8 DEF IInv

(* The one task of a verification was applied, so it has landed.           *)
LEMMA ReadInv ==
  ASSUME IInv, NEW r \in Request, Read(r) PROVE IInv'
<1> USE DEF Read, Goto, agents, settings, project
<1>1. PICK t \in mine[r] :
        \/ /\ disk.status[t] = "applied"
           /\ \E s : /\ s = disk \/ s = register_documentation_task(disk)
                     /\ mem' = [mem EXCEPT ![r] =
                          update_delivery_status(Put(s, {t}, "verifying"))]
           /\ kind' = [kind EXCEPT ![r] = "verify"]
           /\ pc' = [pc EXCEPT ![r] = "write"]
        \/ pc' = [pc EXCEPT ![r] = "finish"] /\ UNCHANGED <<mem, kind>>
  BY Zenon
<1>2. CASE pc' = [pc EXCEPT ![r] = "finish"] /\ UNCHANGED <<mem, kind>>
  <2>11. TypeOK'
    BY <1>2 DEF IInv, TypeOK, Step
  <2>12. CopiesSound'
    BY <1>2 DEF IInv, TypeOK, CopiesSound
  <2>13. AgentsSound'
    BY <1>2 DEF IInv, TypeOK, AgentsSound
  <2>14. MineSound'
    BY <1>2 DEF IInv, TypeOK, MineSound, Committed
  <2>15. OneTask'
    BY <1>2 DEF IInv, TypeOK, OneTask
  <2> QED
    BY <2>11, <2>12, <2>13, <2>14, <2>15 DEF IInv
<1>3. CASE /\ disk.status[t] = "applied"
           /\ \E s : /\ s = disk \/ s = register_documentation_task(disk)
                     /\ mem' = [mem EXCEPT ![r] =
                          update_delivery_status(Put(s, {t}, "verifying"))]
           /\ kind' = [kind EXCEPT ![r] = "verify"]
           /\ pc' = [pc EXCEPT ![r] = "write"]
  <2>1. PICK s : /\ s = disk \/ s = register_documentation_task(disk)
                 /\ mem' = [mem EXCEPT ![r] =
                      update_delivery_status(Put(s, {t}, "verifying"))]
    BY <1>3
  <2>2. t \in Task
    BY DEF IInv, TypeOK
  <2>3. t \in Decided /\ DependsOn[t] \subseteq Decided
    BY <1>3, <2>2 DEF IInv, CopiesSound, Sound, LandedBy, BegunBy
  <2>4. Sound(s, Decided)
    BY <2>1, RegisterSound DEF IInv, CopiesSound
  <2>5. Sound(update_delivery_status(Put(s, {t}, "verifying")), Decided)
    BY <2>3, <2>4, PutSound, GateSound DEF Status
  <2>6. CopiesSound'
    BY <2>1, <2>5 DEF IInv, TypeOK, CopiesSound
  <2>7. TypeOK'
    <3>1. mem' \in [Request -> Document]
      BY <2>1, <2>5 DEF IInv, TypeOK, Sound
    <3> QED
      BY <1>3, <3>1 DEF IInv, TypeOK, Step, Kind
  <2>8. AgentsSound'
    BY DEF IInv, AgentsSound
  <2>9. \A u \in mine[r] : u = t
    BY DEF IInv, OneTask
  <2>10. MineSound'
    BY <1>3, <2>3, <2>9 DEF IInv, TypeOK, MineSound, Committed
  <2>11. OneTask'
    BY <1>3, <2>9 DEF IInv, TypeOK, OneTask
  <2> QED
    BY <2>6, <2>7, <2>8, <2>10, <2>11 DEF IInv
<1> QED
  BY <1>1, <1>2, <1>3

LEMMA SaveInv ==
  ASSUME IInv, NEW r \in Request, Save(r) PROVE IInv'
<1> USE DEF settings, project
<1>1. Sound(disk', Decided)
  BY CompletedSound DEF Save, Final, IInv, CopiesSound
<1>2. job' \in [Request -> SUBSET Task] /\ UNCHANGED <<settings, project, restarts>>
  BY DEF Save, IInv, TypeOK
<1>3. CASE Leave(r)
  BY <1>1, <1>2, <1>3, LeaveInv DEF Save
<1>4. CASE Goto(r, "finish") /\ UNCHANGED <<mem, kind, mine, stop>>
  <2>1. disk' \in Document
    BY <1>1 DEF Sound
  <2> USE DEF Save, Goto
  <2>11. TypeOK'
    BY <1>1, <1>4, <2>1 DEF IInv, TypeOK, Step
  <2>12. CopiesSound'
    BY <1>1, <1>4, <2>1 DEF IInv, TypeOK, CopiesSound
  <2>13. AgentsSound'
    BY <1>1, <1>4, <2>1 DEF IInv, TypeOK, AgentsSound
  <2>14. MineSound'
    BY <1>1, <1>4, <2>1 DEF IInv, TypeOK, MineSound, Committed
  <2>15. OneTask'
    BY <1>1, <1>4, <2>1 DEF IInv, TypeOK, OneTask
  <2> QED
    BY <2>11, <2>12, <2>13, <2>14, <2>15 DEF IInv
<1> QED
  BY <1>3, <1>4 DEF Save

LEMMA FinishInv ==
  ASSUME IInv, NEW r \in Request, Finish(r) PROVE IInv'
<1> USE DEF settings, project
<1>1. /\ job' \in [Request -> SUBSET Task]
      /\ UNCHANGED <<disk, phase, settings, project, restarts>>
  BY DEF Finish, IInv, TypeOK
<1>2. CASE Leave(r)
  BY <1>1, <1>2, LeaveInv DEF IInv, CopiesSound
<1>3. CASE Goto(r, "save") /\ UNCHANGED <<mem, kind, mine, stop>>
  <2> USE DEF Goto
  <2>11. TypeOK'
    BY <1>1, <1>3 DEF IInv, TypeOK, Step
  <2>12. CopiesSound'
    BY <1>1, <1>3 DEF IInv, TypeOK, CopiesSound
  <2>13. AgentsSound'
    BY <1>1, <1>3 DEF IInv, TypeOK, AgentsSound
  <2>14. MineSound'
    BY <1>1, <1>3 DEF IInv, TypeOK, MineSound, Committed
  <2>15. OneTask'
    BY <1>1, <1>3 DEF IInv, TypeOK, OneTask
  <2> QED
    BY <2>11, <2>12, <2>13, <2>14, <2>15 DEF IInv
<1> QED
  BY <1>2, <1>3 DEF Finish

LEMMA CloseInv ==
  ASSUME IInv, NEW r \in Request,
         CloseWave(r) \/ Gone(r) \/ CloseVerify(r)
  PROVE  IInv'
<1> USE DEF settings, project
<1>1. CASE CloseWave(r)
  <2> USE DEF CloseWave, Goto
  <2>11. TypeOK'
    BY <1>1 DEF IInv, TypeOK, Step
  <2>12. CopiesSound'
    BY <1>1 DEF IInv, TypeOK, CopiesSound
  <2>13. AgentsSound'
    BY <1>1 DEF IInv, TypeOK, AgentsSound
  <2>14. MineSound'
    BY <1>1 DEF IInv, TypeOK, MineSound, Committed
  <2>15. OneTask'
    BY <1>1 DEF IInv, TypeOK, OneTask
  <2> QED
    BY <2>11, <2>12, <2>13, <2>14, <2>15 DEF IInv
<1>2. CASE Gone(r)
  BY <1>2, LeaveInv DEF Gone, IInv, TypeOK, CopiesSound
<1>3. CASE CloseVerify(r)
  <2>1. job' \in [Request -> SUBSET Task]
    BY <1>3 DEF CloseVerify, IInv, TypeOK
  <2> QED
    BY <1>3, <2>1, LeaveInv DEF CloseVerify, IInv, CopiesSound
<1> QED
  BY <1>1, <1>2, <1>3
-----------------------------------------------------------------------------
(* Agents.  Each step adds a result that has landed, or none.              *)
LEMMA AgentsInv ==
  ASSUME IInv, NEW r \in Request, NEW t \in Task, Agent(r, t)
  PROVE  IInv'
<1> USE DEF Status, Cause, Given, LandedBy, BegunBy, project
<1>1. /\ Sound(mem[r], Decided)
      /\ phase[r][t] # "none" => DependsOn[t] \subseteq Decided
      /\ phase[r][t] \in {"landed", "relanded", "check"} => t \in Decided
      /\ Decided \subseteq Task /\ current \subseteq Task
      /\ drift \subseteq Task \cup {Architecture}
  BY DEF IInv, TypeOK, CopiesSound, AgentsSound
<1>2. CASE Propose(r, t)
  <2> DEFINE s == Set(mem[r], {t}, "review", "none")
             u == [s EXCEPT !.patch = @ \cup {t}]
  <2>1. Sound(s, Decided)
    BY <1>1, <1>2, SetSound DEF Propose
  <2>2. /\ u \in Document
        /\ u.tested = s.tested /\ u.status = s.status /\ u.cause = s.cause
    BY <2>1 DEF Sound, Document
  <2>3. Sound(u, Decided)
    BY <2>1, <2>2, SameSound
  <2> QED
    BY <1>1, <1>2, <2>3, AgentInv DEF Propose, Phase
<1>3. CASE Fail(r, t)
  <2>1. Sound(Set(mem[r], {t}, "failed", "other"), Decided)
    BY <1>1, <1>3, SetSound DEF Fail
  <2> QED
    BY <1>1, <1>3, <2>1, AgentInv DEF Fail, Phase
<1>4. CASE HandOff(r, t)
  <2>1. Sound(Set(mem[r], {t}, "blocked", "handoff"), Decided)
    BY <1>1, <1>4, SetSound DEF HandOff
  <2>2. \/ kind' = kind
        \/ kind[r] = "repair" /\ kind' = [kind EXCEPT ![r] = "handoff"]
    BY <1>4 DEF HandOff, IInv, TypeOK
  <2> QED
    BY <1>1, <1>4, <2>1, <2>2, AgentInv DEF HandOff, Phase
<1>5. CASE Stopped(r, t)
  <2>1. Sound(Set(mem[r], {t}, "pending", "other"), Decided)
    BY <1>1, SetSound
  <2> QED
    BY <1>1, <1>5, <2>1, AgentInv DEF Stopped, Phase
<1>6. CASE Complete(r, t)
  <2>1. Record(r, mem[r])
    BY <1>6 DEF Complete, Record, IInv, TypeOK
  <2> QED
    BY <1>1, <1>6, <2>1, AgentInv DEF Complete, Phase
<1>7. ASSUME NEW new \in BOOLEAN, Land(r, t, new) PROVE IInv'
  <2> DEFINE s == Put(mem[r], {t}, "verifying")
             u == [s EXCEPT !.changed = IF new THEN @ \cup {t} ELSE @ \ {t}]
  <2>1. Decided' = Decided \cup {t} /\ t \in Decided'
    BY <1>7 DEF Land
  <2>2. Sound(s, Decided')
    <3>1. Sound(mem[r], Decided')
      BY <1>1, <2>1, SoundGrows
    <3> QED
      BY <1>1, <1>7, <2>1, <3>1, PutSound DEF Land
  <2>3. /\ u \in Document
        /\ u.tested = s.tested /\ u.status = s.status /\ u.cause = s.cause
    BY <2>2 DEF Sound, Document
  <2>4. Sound(u, Decided')
    BY <2>2, <2>3, SameSound
  <2> QED
    BY <1>1, <1>7, <2>1, <2>4, AgentInv DEF Land, Phase
<1>8. ASSUME NEW value \in {"verified", "failed"}, NEW why \in {"none", "other"},
             phase[r][t] \in {"landed", "relanded", "check"}
      PROVE  Sound([Set(mem[r], {t}, value, why) EXCEPT
                      !.tested = @ \cup {t}], Decided)
  <2> DEFINE s == Set(mem[r], {t}, value, why)
             u == [s EXCEPT !.tested = @ \cup {t}]
  <2>1. Sound(s, Decided)
    BY <1>1, <1>8, SetSound
  <2>2. /\ u \in Document
        /\ u.tested = s.tested \cup {t}
        /\ u.status = s.status /\ u.cause = s.cause
    BY <2>1 DEF Sound, Document
  <2> QED
    BY <1>1, <1>8, <2>1, <2>2 DEF Sound
<1>9. CASE MainPasses(r, t)
  BY <1>1, <1>8, <1>9, AgentInv DEF MainPasses, Phase
<1>10. CASE MainFails(r, t)
  BY <1>1, <1>8, <1>10, AgentInv DEF MainFails, Phase
<1>11. ASSUME NEW outcome \in {"verified", "failed", "applied"},
              phase[r][t] = "check"
       PROVE  /\ Sound(Judgement(r, t, outcome), Decided)
              /\ Sound([Judgement(r, t, outcome) EXCEPT
                          !.tested = @ \cup {t}], Decided)
  <2> DEFINE s == Judgement(r, t, outcome)
             u == [s EXCEPT !.tested = @ \cup {t}]
  <2>1. Sound(s, Decided)
    BY <1>1, <1>11, SetSound DEF Judgement
  <2>2. /\ u \in Document
        /\ u.tested = s.tested \cup {t}
        /\ u.status = s.status /\ u.cause = s.cause
    BY <2>1 DEF Sound, Document
  <2> QED
    BY <1>1, <1>11, <2>1, <2>2 DEF Sound
<1>12. ASSUME NEW outcome \in {"verified", "failed", "applied"}, NEW s,
              Judged(r, t, outcome), Record(r, s), Sound(s, Decided)
       PROVE  IInv'
  BY <1>1, <1>12, AgentInv DEF Judged, Phase
<1>13. ASSUME NEW outcome \in {"verified", "failed", "applied"},
              NEW derived \in BOOLEAN, VerifySync(r, t, outcome, derived)
       PROVE  IInv'
  <2> DEFINE s == [Judgement(r, t, outcome) EXCEPT
                     !.tested = IF outcome = "applied" THEN @ ELSE @ \cup {t}]
  <2>1. Judged(r, t, outcome) /\ phase[r][t] = "check"
    BY <1>13 DEF VerifySync, Judged
  <2>2. Sound(s, Decided)
    <3>1. CASE outcome = "applied"
      <4>1. s = Judgement(r, t, outcome)
        BY <1>11, <2>1, <3>1 DEF Sound, Document
      <4> QED
        BY <1>11, <2>1, <4>1
    <3>2. CASE outcome # "applied"
      BY <1>11, <2>1, <3>2
    <3> QED
      BY <3>1, <3>2
  <2>3. Sound(update_delivery_status(s), Decided)
    BY <2>2, GateSound
  <2>4. Record(r, s) \/ Record(r, update_delivery_status(s))
    BY <1>13 DEF VerifySync
  <2> QED
    BY <1>12, <2>1, <2>2, <2>3, <2>4
<1>14. ASSUME NEW outcome \in {"verified", "failed", "applied"},
              VerifyStream(r, t, outcome)
       PROVE  IInv'
  <2> DEFINE s == [Judgement(r, t, outcome) EXCEPT !.tested = @ \cup {t}]
  <2>1. /\ Judged(r, t, outcome) /\ phase[r][t] = "check"
        /\ Record(r, update_delivery_status(s))
    BY <1>14 DEF VerifyStream, Judged
  <2>2. Sound(update_delivery_status(s), Decided)
    BY <1>11, <2>1, GateSound
  <2> QED
    BY <1>12, <2>1, <2>2
<1> QED
  BY <1>2, <1>3, <1>4, <1>5, <1>6, <1>7, <1>9, <1>10, <1>13, <1>14 DEF Agent

LEMMA DeadInv ==
  ASSUME IInv, NEW r \in Request, NEW t \in Task, WorkerDies(r, t)
  PROVE  IInv'
<1>1. Record(r, mem[r]) /\ Sound(mem[r], Decided)
  BY DEF WorkerDies, Record, IInv, TypeOK, CopiesSound
<1> QED
  BY <1>1, AgentInv DEF WorkerDies, IInv, TypeOK, Phase, project
-----------------------------------------------------------------------------
(* The patch decision was carried out, and recorded soundly.               *)
LEMMA DecidedInv ==
  ASSUME IInv, NEW r \in Request, NEW s, pc[r] = "land", Record(r, s),
         Goto(r, "save"), Decided \subseteq Decided', Sound(s, Decided'),
         Decided' \subseteq Task, current' \subseteq Task,
         drift' \subseteq Task \cup {Architecture},
         UNCHANGED <<disk, kind, agents, settings, restarts>>
  PROVE  IInv'
<1> USE DEF Record, Goto, agents, settings
<1>1. CopiesSound'
  BY SoundGrows DEF IInv, TypeOK, CopiesSound
<1>2. TypeOK'
  <2>1. disk' \in Document /\ mem' \in [Request -> Document]
    BY DEF IInv, TypeOK, Sound
  <2> QED
    BY <2>1 DEF IInv, TypeOK, Step
<1>3. AgentsSound'
  BY DEF IInv, AgentsSound
<1>4. MineSound'
  BY DEF IInv, TypeOK, MineSound, Committed
<1>5. OneTask'
  BY DEF IInv, TypeOK, OneTask
<1> QED
  BY <1>1, <1>2, <1>3, <1>4, <1>5 DEF IInv

LEMMA ApplyInv ==
  ASSUME IInv, NEW r \in Request, Apply(r) PROVE IInv'
<1> USE DEF Status, Cause, Given, LandedBy, BegunBy, project
<1>1. /\ Decided \subseteq Task /\ current \subseteq Task
      /\ drift \subseteq Task \cup {Architecture}
      /\ mine[r] \subseteq Task
      /\ Sound(mem[r], Decided)
  BY DEF IInv, TypeOK, CopiesSound
<1>2. pc[r] = "land" => \A t \in mine[r] : DependsOn[t] \subseteq Decided
  BY DEF IInv, MineSound, Committed
<1>3. ASSUME NEW L, Decided \subseteq L, pc[r] = "land",
             NEW value \in {"applied", "partially_applied"},
             value = "applied" => mine[r] \subseteq L
      PROVE  Sound(Applied(mem[r], mine[r], value), L)
  <2> DEFINE s == Set(mem[r], mine[r], value, "none")
             u == [s EXCEPT !.changed = @ \cup mine[r]]
  <2>1. Sound(mem[r], L)
    BY <1>1, <1>3, SoundGrows
  <2>2. Given(mine[r], value, "none", L)
    BY <1>2, <1>3
  <2>3. Sound(s, L)
    BY <2>1, <2>2, <1>3, SetSound
  <2>4. /\ u \in Document
        /\ u.tested = s.tested /\ u.status = s.status /\ u.cause = s.cause
    BY <1>1, <2>3 DEF Sound, Document
  <2>5. Sound(u, L)
    <3> HIDE DEF s, u
    <3> QED
      BY <2>3, <2>4, SameSound
  <2>6. Sound(register_documentation_task(u), L)
    <3> HIDE DEF u
    <3> QED
      BY <2>5, RegisterSound
  <2> QED
    BY <2>6 DEF Applied
<1>4. CASE ApplyAll(r)
  <2>1. Decided \cup mine[r] = Decided'
    BY <1>4 DEF ApplyAll
  <2>2. Sound(Applied(mem[r], mine[r], "applied"), Decided')
    BY <1>3, <1>4, <2>1 DEF ApplyAll
  <2> QED
    BY <1>1, <1>4, <2>1, <2>2, DecidedInv DEF ApplyAll
<1>5. ASSUME NEW value \in {"partially_applied", "applied"}, ApplySome(r, value)
      PROVE  IInv'
  <2>1. Decided \cup mine[r] = Decided'
    BY <1>5 DEF ApplySome
  <2>2. Sound(Applied(mem[r], mine[r], value), Decided')
    BY <1>3, <1>5, <2>1 DEF ApplySome
  <2> QED
    BY <1>1, <1>5, <2>1, <2>2, DecidedInv DEF ApplySome
<1>9. ASSUME NEW value \in {"partially_applied", "applied", "rejected"},
             Waive(r, value), landed' = landed
      PROVE  /\ Decided \subseteq Decided' /\ Decided' \subseteq Task
             /\ value = "applied" => mine[r] \subseteq Decided'
  BY <1>1, <1>9 DEF Waive
<1>10. ASSUME NEW value \in {"partially_applied", "applied"},
              ApplyNoHunk(r, value)
       PROVE  IInv'
  <2>1. Waive(r, value) /\ landed' = landed /\ pc[r] = "land"
    BY <1>10 DEF ApplyNoHunk
  <2>2. Sound(Applied(mem[r], mine[r], value), Decided')
    BY <1>3, <1>9, <2>1
  <2> QED
    BY <1>1, <1>9, <1>10, <2>1, <2>2, DecidedInv DEF ApplyNoHunk
<1>6. ASSUME NEW value \in {"partially_applied", "applied", "rejected"},
             ApplyNone(r, value)
      PROVE  IInv'
  <2>1. Waive(r, value) /\ landed' = landed /\ pc[r] = "land"
    BY <1>6 DEF ApplyNone
  <2>2. Sound(mem[r], Decided')
    BY <1>1, <1>9, <2>1, SoundGrows
  <2>3. Given(mine[r], value, "none", Decided')
    BY <1>2, <1>9, <2>1
  <2>4. Sound(Set(mem[r], mine[r], value, "none"), Decided')
    BY <2>2, <2>3, SetSound
  <2> QED
    BY <1>1, <1>6, <1>9, <2>1, <2>4, DecidedInv DEF ApplyNone
<1>7. CASE ApplyFails(r)
  <2>1. Sound(Set(mem[r], mine[r], "failed", "other"), Decided)
    BY <1>1, <1>2, <1>7, SetSound DEF ApplyFails
  <2>2. Sound(update_delivery_status(Set(mem[r], mine[r], "failed", "other")),
              Decided)
    BY <2>1, GateSound
  <2> QED
    BY <1>1, <1>7, <2>2, DecidedInv DEF ApplyFails
<1>8. CASE HunkRaises(r)
  BY <1>8, LeaveInv DEF HunkRaises, IInv, TypeOK, CopiesSound
<1> QED
  BY <1>4, <1>5, <1>6, <1>7, <1>8, <1>10 DEF Apply

(* The process dies: the files stay, and so does what landed.              *)
LEMMA RestartInv ==
  ASSUME IInv, Restart PROVE IInv'
<1> USE DEF Restart, settings, project
<1>1. CopiesSound'
  BY NewPlanSound DEF IInv, CopiesSound
<1>2. TypeOK'
  <2>1. disk' \in Document /\ mem' \in [Request -> Document]
    BY NewPlanSound DEF IInv, TypeOK, Sound
  <2>2. phase' \in [Request -> [Task -> Phase]]
    BY DEF Off, Phase
  <2>3. restarts' \in 0..MaxRestarts
    BY FlowAssumption DEF IInv, TypeOK
  <2> QED
    BY <2>1, <2>2, <2>3 DEF IInv, TypeOK, Step, Kind
<1> QED
  BY <1>1, <1>2 DEF IInv, AgentsSound, MineSound, OneTask, Committed, Off

LEMMA StutterInv ==
  ASSUME IInv, UNCHANGED vars PROVE IInv'
BY DEF IInv, vars, agents, settings, project, TypeOK, CopiesSound, Sound,
   AgentsSound, MineSound, OneTask, Committed

LEMMA NextInv ==
  ASSUME IInv, [Next]_vars PROVE IInv'
<1>1. ASSUME NEW r \in Request, Proceed(r) PROVE IInv'
  BY <1>1, WriteInv, BeginInv, ReadInv, SaveInv, FinishInv, CloseInv, ApplyInv,
     AgentsInv DEF Proceed
<1>2. ASSUME NEW r \in Request, CloseWave(r) \/ CloseVerify(r) PROVE IInv'
  BY <1>2, CloseInv
<1>3. ASSUME NEW r \in Request, NEW t \in Task,
             StartsWith(r, t) \/ WorkerDies(r, t)
      PROVE  IInv'
  BY <1>3, StartsInv, DeadInv
<1>4. ASSUME NEW r \in Request, NEW S \in SUBSET Task, StartWave(r, S)
      PROVE  IInv'
  BY <1>4, WaveInv
<1>5. ASSUME \/ \E r \in Request : \/ WaveWaits(r) \/ Refused(r)
                                   \/ \E o \in DOCUMENTATION_STATUSES :
                                        SyncDocs(r, o)
                                   \/ \E S \in SUBSET Task :
                                        EditArchitecture(r, S)
             \/ \E t \in Task : Cancel(t) \/ ClearStale(t)
             \/ \E m \in {"review", "auto"} : SetMode(m)
      PROVE  IInv'
  BY <1>5, FilesInv
<1> QED
  BY <1>1, <1>2, <1>3, <1>4, <1>5, RestartInv, StutterInv DEF Next

LEMMA Inductive == Spec => []IInv
<1>1. Init => IInv
  BY InitInv
<1>2. IInv /\ [Next]_vars => IInv'
  BY NextInv
<1> QED
  BY <1>1, <1>2, PTL DEF Spec

(* tasks.json, every copy of it and all that the requests keep has its     *)
(* type, whatever overlaps: in particular no task is repaired more than    *)
(* MaxRepairs times.                                                       *)
THEOREM FlowTypeCorrect == Spec => []TypeOK
<1>1. IInv => TypeOK
  BY DEF IInv
<1> QED
  BY <1>1, Inductive, PTL

(* A task tasks.json calls applied or verified has reached the project, or *)
(* its user took nothing of its patch: no late write of a stale copy, no   *)
(* stopped agent, no retry and no restart can make it say so otherwise.    *)
THEOREM AppliedLands == Spec => []AppliedHasLanded
<1>1. IInv => AppliedHasLanded
  BY DEF IInv, CopiesSound, Sound, AppliedHasLanded, Landed, LandedBy
<1> QED
  BY <1>1, Inductive, PTL

(* No agent works for a task before everything the task depends on has     *)
(* reached the project or was decided upon with nothing taken, although    *)
(* retry_task and repair_task do not ask.                                  *)
THEOREM DependenciesLandFirst == Spec => []DependenciesFirst
<1>1. IInv => DependenciesFirst
  BY DEF IInv, AgentsSound, DependenciesFirst
<1> QED
  BY <1>1, Inductive, PTL


-----------------------------------------------------------------------------
(* Which requests have a job: none that is idle, gives its job up or       *)
(* carries out a patch decision.                                           *)
JobsOver ==
  \A r \in Request :
    /\ pc[r] \in {"idle", "leaving", "save"} \/ kind[r] = "apply"
         => job[r] = {}
    /\ pc[r] = "begin" => kind[r] # "apply"

(* The steps of a request change its own job only.                         *)
LEMMA JobsOverProceed ==
  ASSUME IInv, JobsOver, NEW r \in Request, Proceed(r) PROVE JobsOver'
<1> USE DEF Goto, Leave, Record, Move, agents, settings, project
<1>1. CASE Begin(r)
  BY <1>1 DEF Begin, IInv, TypeOK, JobsOver
<1>2. CASE Write(r)
  BY <1>2 DEF Write, IInv, TypeOK, JobsOver
<1>3. CASE Read(r)
  <2>1. /\ job' = job
        /\ \A q \in Request : q # r => pc'[q] = pc[q] /\ kind'[q] = kind[q]
        /\ \/ pc'[r] = "write" /\ kind'[r] = "verify"
           \/ pc'[r] = "finish" /\ kind'[r] = kind[r]
    BY <1>3 DEF Read, IInv, TypeOK
  <2> QED
    BY <2>1 DEF JobsOver
<1>4. CASE Save(r)
  <2>1. /\ job' = job
        /\ \A q \in Request : q # r => pc'[q] = pc[q] /\ kind'[q] = kind[q]
        /\ \/ pc'[r] = "idle" /\ (pc[r] = "save" \/ kind[r] = "apply")
           \/ pc'[r] = "finish" /\ kind'[r] = kind[r]
    BY <1>4 DEF Save, FinishesFirst, IInv, TypeOK
  <2>2. pc'[r] = "idle" => job[r] = {}
    BY <2>1 DEF JobsOver
  <2> QED
    BY <2>1, <2>2 DEF JobsOver
<1>5. CASE Finish(r)
  <2>1. /\ job'[r] = {}
        /\ pc'[r] \in {"save", "idle"}
        /\ \A q \in Request : q # r => /\ pc'[q] = pc[q] /\ kind'[q] = kind[q]
                                       /\ job'[q] = job[q]
    BY <1>5 DEF Finish, IInv, TypeOK
  <2> QED
    BY <2>1 DEF JobsOver
<1>6. CASE Gone(r)
  BY <1>6 DEF Gone, IInv, TypeOK, JobsOver
<1>7. CASE Apply(r)
  <2>1. /\ job' = job /\ pc'[r] \in {"save", "idle"} /\ kind[r] = "apply"
        /\ \A q \in Request : q # r => pc'[q] = pc[q] /\ kind'[q] = kind[q]
    BY <1>7 DEF Apply, ApplyAll, ApplySome, ApplyNoHunk, ApplyNone,
       ApplyFails, HunkRaises, IInv, TypeOK, OneTask
  <2> QED
    BY <2>1 DEF JobsOver
<1>8. ASSUME NEW t \in Task, Agent(r, t) PROVE JobsOver'
  <2>1. /\ job' = job /\ pc' = pc
        /\ \/ kind' = kind
           \/ kind[r] = "repair" /\ kind' = [kind EXCEPT ![r] = "handoff"]
    BY <1>8 DEF Agent, Propose, Fail, HandOff, Stopped, Complete, MainPasses,
       MainFails, Land, VerifySync, VerifyStream, Judged, IInv, TypeOK
  <2> QED
    BY <2>1 DEF IInv, TypeOK, JobsOver
<1> QED
  BY <1>1, <1>2, <1>3, <1>4, <1>5, <1>6, <1>7, <1>8 DEF Proceed

LEMMA JobsOverNext ==
  ASSUME IInv, JobsOver, [Next]_vars PROVE JobsOver'
<1> USE DEF Goto, agents, settings, project
<1>1. ASSUME NEW r \in Request, NEW k, NEW S, NEW s, NEW step,
             Start(r, k, S, s, step), step \in {"write", "begin"},
             step = "begin" => k # "apply"
      PROVE  JobsOver'
  BY <1>1 DEF Start, IInv, TypeOK, JobsOver
<1>2. ASSUME NEW r \in Request, NEW S \in SUBSET Task, StartWave(r, S)
      PROVE  JobsOver'
  BY <1>1, <1>2 DEF StartWave
<1>3. ASSUME NEW r \in Request, NEW t \in Task, StartsWith(r, t)
      PROVE  JobsOver'
  <2>1. CASE Reject(r, t)
    BY <2>1 DEF Reject, JobsOver
  <2> QED
    BY <1>1, <1>3, <2>1 DEF StartsWith, StartRetry, StartReverify, StartResume,
       StartRepair, StartVerify, StartApply
<1>4. ASSUME NEW r \in Request, CloseWave(r) \/ CloseVerify(r)
      PROVE  JobsOver'
  BY <1>4 DEF CloseWave, CloseVerify, Leave, IInv, TypeOK, JobsOver
<1>5. CASE UNCHANGED <<pc, kind, job>>
  BY <1>5 DEF JobsOver
<1>6. ASSUME \/ \E r \in Request :
                  \/ WaveWaits(r) \/ Refused(r)
                  \/ \E t \in Task : WorkerDies(r, t)
                  \/ \E S \in SUBSET Task : EditArchitecture(r, S)
                  \/ \E o \in DOCUMENTATION_STATUSES : SyncDocs(r, o)
             \/ \E t \in Task : Cancel(t) \/ ClearStale(t)
             \/ \E m \in {"review", "auto"} : SetMode(m)
      PROVE  UNCHANGED <<pc, kind, job>>
  BY <1>6 DEF WaveWaits, Refused, WorkerDies, EditArchitecture, SyncDocs,
     Cancel, ClearStale, SetMode
<1>7. CASE Restart
  BY <1>7 DEF Restart, JobsOver
<1>8. CASE UNCHANGED vars
  BY <1>5, <1>8 DEF vars
<1> QED
  BY <1>2, <1>3, <1>4, <1>5, <1>6, <1>7, <1>8, JobsOverProceed DEF Next

(* When every request was answered, no task is running after the recovery: *)
(* whoever died, was closed or handed its work off, the next wave can      *)
(* generate it again.  That holds however the requests overlapped.         *)
THEOREM RecoveryReachesAll == Spec => []RecoverySuffices
<1>1. IInv /\ JobsOver => RecoverySuffices
  <2> SUFFICES ASSUME IInv, JobsOver, \A r \in Request : pc[r] = "idle",
                      NEW t \in Task
               PROVE  Recovered.status[t] # "running"
    BY DEF RecoverySuffices
  <2>1. LiveTasks = {}
    BY DEF LiveTasks, JobsOver
  <2>2. disk \in Document
    BY DEF IInv, TypeOK
  <2> QED
    BY <2>1, <2>2, SetType
    DEF Recovered, recover_stale_running, Zombies, Status, Cause
<1>2. Init => JobsOver
  BY DEF Init, Idle, JobsOver
<1>3. IInv /\ IInv' /\ JobsOver /\ [Next]_vars => JobsOver'
  BY JobsOverNext
<1> QED
  BY <1>1, <1>2, <1>3, Inductive, PTL DEF Spec
-----------------------------------------------------------------------------
(* What the operators of TaskState leave alone.                            *)

LEMMA SetKeeps ==
  ASSUME NEW s \in Document, NEW S, NEW value \in Status, NEW why \in Cause
  PROVE  /\ Set(s, S, value, why).documentation = s.documentation
         /\ Set(s, S, value, why).delivery = s.delivery
BY DEF Set, Document

LEMMA PutType ==
  ASSUME NEW s \in Document, NEW S, NEW value \in Status
  PROVE  /\ Put(s, S, value) \in Document
         /\ Put(s, S, value).documentation = s.documentation
         /\ Put(s, S, value).delivery = s.delivery
         /\ \A t \in Task : Put(s, S, value).status[t]
                              = IF t \in S THEN value ELSE s.status[t]
BY DEF Put, Document

LEMMA GateType ==
  ASSUME NEW s \in Document
  PROVE  /\ update_delivery_status(s) \in Document
         /\ update_delivery_status(s).status = s.status
         /\ update_delivery_status(s).documentation = s.documentation
         /\ update_delivery_status(s).delivery = "ready" <=> Gate(s)
<1>1. (IF Gate(s) THEN "ready" ELSE "blocked") \in {"ready", "blocked"}
  OBVIOUS
<1> QED
  BY <1>1 DEF update_delivery_status, Document

LEMMA RegisterType ==
  ASSUME NEW s \in Document
  PROVE  /\ register_documentation_task(s) \in Document
         /\ register_documentation_task(s).status = s.status
         /\ register_documentation_task(s).documentation = "pending"
         /\ register_documentation_task(s).delivery = "blocked"
<1> DEFINE u == [s EXCEPT !.documentation = "pending"]
<1>1. /\ u \in Document
      /\ u.status = s.status /\ u.documentation = "pending"
  BY DEF Document, DOCUMENTATION_STATUSES
<1>2. ~ Gate(u)
  BY <1>1 DEF Gate, DocumentsCurrent
<1>3. /\ update_delivery_status(u) \in Document
      /\ update_delivery_status(u).status = u.status
      /\ update_delivery_status(u).documentation = u.documentation
      /\ update_delivery_status(u).delivery # "ready"
  BY <1>1, <1>2, GateType
<1>4. update_delivery_status(u).delivery \in {"ready", "blocked"}
  BY <1>3 DEF Document
<1> QED
  BY <1>1, <1>3, <1>4 DEF register_documentation_task

(* register_completed_documentation keeps every status and either derives  *)
(* the delivery status or asks for documentation.                          *)
LEMMA CompletedType ==
  ASSUME NEW s \in Document
  PROVE  /\ Final(s) \in Document
         /\ Final(s).status = s.status
         /\ \/ /\ Final(s).documentation = s.documentation
               /\ Final(s).delivery = "ready" <=> Gate(s)
            \/ /\ Final(s).documentation = "pending"
               /\ Final(s).delivery = "blocked"
<1> DEFINE u == [s EXCEPT !.registered = s.registered \cup Unregistered(s)]
<1>1. Unregistered(s) \subseteq Task
  BY DEF Unregistered, Document
<1>2. u \in Document /\ u.status = s.status
  BY <1>1 DEF Document
<1>3. \/ Final(s) = update_delivery_status(s)
      \/ Final(s) = register_documentation_task(u)
  BY DEF Final, register_completed_documentation
<1> HIDE DEF u
<1> QED
  BY <1>2, <1>3, GateType, RegisterType


-----------------------------------------------------------------------------
(* How a work item may move in one write of tasks.json.                    *)
MayBecome(v, w) ==
  StageOf[w] = StageOf[v] \/ StageOf[w] \in Lifecycle!After[StageOf[v]]

LEMMA Moves ==
  /\ \A v : MayBecome(v, v)
  /\ \A w \in {"running", "blocked", "rejected"} : MayBecome("pending", w)
  /\ \A w \in {"pending", "review", "verified", "failed", "blocked"} :
       MayBecome("running", w)
  /\ \A w \in {"applying", "blocked", "rejected"} : MayBecome("review", w)
  /\ MayBecome("partially_applied", "applying")
  /\ \A w \in {"applied", "partially_applied", "rejected", "failed"} :
       MayBecome("applying", w)
  /\ MayBecome("applied", "verifying")
  /\ \A w \in {"applied", "verified", "failed"} : MayBecome("verifying", w)
  /\ \A w \in {"running", "applied"} : MayBecome("failed", w)
  /\ \A w \in {"running", "rejected"} : MayBecome("blocked", w)
<1>1. /\ StageOf["pending"] = "waiting" /\ StageOf["running"] = "working"
      /\ StageOf["review"] = "offered" /\ StageOf["applying"] = "offered"
      /\ StageOf["partially_applied"] = "offered"
      /\ StageOf["applied"] = "landed" /\ StageOf["verifying"] = "landed"
      /\ StageOf["verified"] = "accepted" /\ StageOf["failed"] = "failed"
      /\ StageOf["blocked"] = "blocked" /\ StageOf["rejected"] = "dropped"
  BY DEF StageOf
<1>2. /\ Lifecycle!After["waiting"] = {"working", "blocked", "dropped"}
      /\ Lifecycle!After["working"]
           = {"waiting", "offered", "accepted", "failed", "blocked"}
      /\ Lifecycle!After["offered"]
           = {"landed", "failed", "blocked", "dropped"}
      /\ Lifecycle!After["landed"] = {"accepted", "failed"}
      /\ Lifecycle!After["failed"] = {"working", "landed"}
      /\ Lifecycle!After["blocked"] = {"working", "dropped"}
  BY DEF Lifecycle!After
<1>3. \A v : MayBecome(v, v)
  BY <1>1, <1>2 DEF MayBecome
<1>4. \A w \in {"running", "blocked", "rejected"} : MayBecome("pending", w)
  BY <1>1, <1>2 DEF MayBecome
<1>5. \A w \in {"pending", "review", "verified", "failed", "blocked"} :
        MayBecome("running", w)
  BY <1>1, <1>2 DEF MayBecome
<1>6. \A w \in {"applying", "blocked", "rejected"} : MayBecome("review", w)
  BY <1>1, <1>2 DEF MayBecome
<1>7. MayBecome("partially_applied", "applying")
  BY <1>1, <1>2 DEF MayBecome
<1>8. \A w \in {"applied", "partially_applied", "rejected", "failed"} :
        MayBecome("applying", w)
  BY <1>1, <1>2 DEF MayBecome
<1>9. MayBecome("applied", "verifying")
  BY <1>1, <1>2 DEF MayBecome
<1>10. \A w \in {"applied", "verified", "failed"} : MayBecome("verifying", w)
  BY <1>1, <1>2 DEF MayBecome
<1>11. \A w \in {"running", "applied"} : MayBecome("failed", w)
  BY <1>1, <1>2 DEF MayBecome
<1>12. \A w \in {"running", "rejected"} : MayBecome("blocked", w)
  BY <1>1, <1>2 DEF MayBecome
<1> QED
  BY <1>3, <1>4, <1>5, <1>6, <1>7, <1>8, <1>9, <1>10, <1>11, <1>12

(* What a request finds: a task that was running is pending again or, if   *)
(* its module is stale, blocked.                                           *)
LEMMA Found ==
  ASSUME NEW s \in Document, NEW live, NEW t \in Task
  PROVE  /\ recover_stale_running(s, live) \in Document
         /\ mark_stale_tasks(s, live) \in Document
         /\ \/ recover_stale_running(s, live).status[t] = s.status[t]
            \/ /\ s.status[t] = "running"
               /\ recover_stale_running(s, live).status[t] = "pending"
         /\ \/ mark_stale_tasks(s, live).status[t] = s.status[t]
            \/ /\ s.status[t] \in {"pending", "running", "review"}
               /\ mark_stale_tasks(s, live).status[t] = "blocked"
<1> DEFINE Z == Zombies(s, live)
           M == { u \in live : s.status[u] \in {"pending", "running", "review"} }
<1> USE DEF Status, Cause
<1>1. /\ Set(s, Z, "pending", "interrupted") \in Document
      /\ Set(s, Z, "pending", "interrupted").status[t]
           = IF t \in Z THEN "pending" ELSE s.status[t]
  BY SetType
<1>2. /\ Set(s, M, "blocked", "stale") \in Document
      /\ Set(s, M, "blocked", "stale").status[t]
           = IF t \in M THEN "blocked" ELSE s.status[t]
  BY SetType
<1>3. t \in Z => s.status[t] = "running"
  BY DEF Zombies
<1>4. t \in M => s.status[t] \in {"pending", "running", "review"}
  OBVIOUS
<1> HIDE DEF Z, M
<1> QED
  BY <1>1, <1>2, <1>3, <1>4 DEF recover_stale_running, mark_stale_tasks, Z, M

LEMMA FoundForWave ==
  ASSUME disk \in Document, NEW t \in Task
  PROVE  /\ RecoveredForWave \in Document
         /\ \/ RecoveredForWave.status[t] = disk.status[t]
            \/ /\ disk.status[t] = "running"
               /\ RecoveredForWave.status[t] = "pending"
            \/ /\ disk.status[t] \in {"pending", "running", "review"}
               /\ RecoveredForWave.status[t] = "blocked"
<1> DEFINE s == mark_stale_tasks(disk, stale)
<1>1. s \in Document
  BY Found
<1>2. \/ s.status[t] = disk.status[t]
      \/ disk.status[t] \in {"pending", "running", "review"} /\ s.status[t] = "blocked"
  BY Found
<1>3. /\ RecoveredForWave \in Document
      /\ \/ RecoveredForWave.status[t] = s.status[t]
         \/ s.status[t] = "running" /\ RecoveredForWave.status[t] = "pending"
  <2> HIDE DEF s
  <2>1. recover_stale_running(s, LiveTasks) = RecoveredForWave
    BY DEF RecoveredForWave, s
  <2> QED
    BY <1>1, <2>1, Found
<1> QED
  BY <1>2, <1>3


-----------------------------------------------------------------------------
(* What a step of an agent leaves in the copy: the task it works for gets  *)
(* a result the stage of the agent allows; no other task changes.          *)
Generating == {"loop", "auto", "landed", "retry", "relanded"}

LEMMA AgentStep ==
  ASSUME IInv, NEW r \in Request, NEW t \in Task, Agent(r, t)
  PROVE  /\ UNCHANGED <<disk, pc, mine, job, stop, settings, restarts>>
         /\ \/ kind' = kind
            \/ kind[r] = "repair" /\ kind' = [kind EXCEPT ![r] = "handoff"]
         /\ \A u \in Task \ {t} : /\ mem'[r].status[u] = mem[r].status[u]
                                  /\ phase'[r][u] = phase[r][u]
         /\ \/ /\ phase[r][t] = "check" /\ phase'[r][t] = "none"
               /\ mem'[r].status[t] \in {"applied", "verified", "failed"}
               /\ drift' = drift
            \/ /\ phase[r][t] \in Generating /\ phase'[r][t] = "none"
               /\ mem'[r].status[t] \in {"pending", "review", "verified",
                                         "failed", "blocked"}
               /\ drift' = drift
            \/ /\ phase[r][t] = "loop" /\ mode = "auto"
               /\ phase'[r][t] = "auto"
            \/ /\ phase[r][t] \in Generating \ {"loop"}
               /\ phase'[r][t] \in Generating
<1>1. /\ mem[r] \in Document /\ phase[r] \in [Task -> Phase]
      /\ mem \in [Request -> Document]
      /\ phase \in [Request -> [Task -> Phase]]
  BY DEF IInv, TypeOK
<1> USE DEF settings, project
<1>2. ASSUME NEW value \in Status, NEW why \in Cause, NEW s,
             s.status = Set(mem[r], {t}, value, why).status,
             Record(r, s), Move(r, t, "none")
      PROVE  /\ mem'[r].status[t] = value /\ phase'[r][t] = "none"
             /\ \A u \in Task \ {t} : /\ mem'[r].status[u] = mem[r].status[u]
                                      /\ phase'[r][u] = phase[r][u]
  <2>1. mem'[r] = s
    BY <1>1, <1>2 DEF Record
  <2>2. \A u \in Task : phase'[r][u] = IF u = t THEN "none" ELSE phase[r][u]
    BY <1>1, <1>2 DEF Move
  <2> QED
    BY <1>1, <1>2, <2>1, <2>2, SetType
<1> USE DEF Status, Cause, Generating
<1>3. CASE Propose(r, t)
  <2> DEFINE s == [Set(mem[r], {t}, "review", "none") EXCEPT !.patch = @ \cup {t}]
  <2>1. s.status = Set(mem[r], {t}, "review", "none").status
    <3> DEFINE w == Set(mem[r], {t}, "review", "none")
    <3>1. w \in Document
      BY <1>1, SetType
    <3> HIDE DEF w
    <3>2. [w EXCEPT !.patch = @ \cup {t}].status = w.status
      BY <3>1 DEF Document
    <3> QED
      BY <3>2 DEF w
  <2>2. Record(r, s) /\ Move(r, t, "none")
    BY <1>3 DEF Propose
  <2> HIDE DEF s
  <2> QED
    BY <1>2, <1>3, <2>1, <2>2 DEF Propose
<1>4. CASE Fail(r, t)
  BY <1>2, <1>4 DEF Fail
<1>5. CASE HandOff(r, t)
  <2>1. \/ kind' = kind
        \/ kind[r] = "repair" /\ kind' = [kind EXCEPT ![r] = "handoff"]
    BY <1>5 DEF HandOff, IInv, TypeOK
  <2> QED
    BY <1>2, <1>5, <2>1 DEF HandOff
<1>6. CASE Stopped(r, t)
  BY <1>2, <1>6 DEF Stopped
<1>7. CASE Complete(r, t)
  BY <1>1, <1>7 DEF Complete, Move
<1>8. ASSUME NEW new \in BOOLEAN, Land(r, t, new)
      PROVE  /\ phase[r][t] \in {"auto", "retry"}
             /\ phase'[r][t] \in {"landed", "relanded"}
             /\ \A u \in Task \ {t} : /\ mem'[r].status[u] = mem[r].status[u]
                                      /\ phase'[r][u] = phase[r][u]
  <2> DEFINE s == [Put(mem[r], {t}, "verifying") EXCEPT
                     !.changed = IF new THEN @ \cup {t} ELSE @ \ {t}]
  <2>1. s.status = Put(mem[r], {t}, "verifying").status
    BY <1>1, PutType DEF Document
  <2>2. Record(r, s)
    BY <1>8 DEF Land
  <2> HIDE DEF s
  <2>3. mem'[r] = s
    BY <1>1, <2>2 DEF Record
  <2>4. \A u \in Task \ {t} : mem'[r].status[u] = mem[r].status[u]
    BY <1>1, <2>1, <2>3, PutType
  <2> QED
    BY <1>1, <1>8, <2>4 DEF Land, Move
<1>9. ASSUME NEW new \in BOOLEAN, Land(r, t, new)
      PROVE  UNCHANGED <<disk, pc, kind, mine, job, stop, settings, restarts>>
  BY <1>9 DEF Land
<1>10. ASSUME NEW value \in Status, NEW why \in Cause
       PROVE  [Set(mem[r], {t}, value, why) EXCEPT !.tested = @ \cup {t}].status
                = Set(mem[r], {t}, value, why).status
  <2> DEFINE w == Set(mem[r], {t}, value, why)
  <2>1. w \in Document
    BY <1>1, SetType
  <2> HIDE DEF w
  <2>2. [w EXCEPT !.tested = @ \cup {t}].status = w.status
    BY <2>1 DEF Document
  <2> QED
    BY <2>2 DEF w
<1>11. CASE MainPasses(r, t)
  BY <1>2, <1>10, <1>11 DEF MainPasses
<1>12. CASE MainFails(r, t)
  <2> DEFINE s == [Set(mem[r], {t}, "failed", "other") EXCEPT
                     !.tested = @ \cup {t}]
             next == IF phase[r][t] = "landed" THEN "retry" ELSE "none"
  <2>1. s.status = Set(mem[r], {t}, "failed", "other").status
    BY <1>10
  <2>2. Record(r, s) /\ Move(r, t, next)
    BY <1>12 DEF MainFails
  <2>3. /\ phase[r][t] \in {"landed", "relanded"}
        /\ UNCHANGED <<disk, pc, kind, mine, job, stop, settings, project,
                       restarts>>
    BY <1>12 DEF MainFails
  <2> HIDE DEF s
  <2>4. mem'[r] = s
    BY <1>1, <2>2 DEF Record
  <2>5. \A u \in Task : mem'[r].status[u]
                          = IF u = t THEN "failed" ELSE mem[r].status[u]
    BY <1>1, <2>1, <2>4, SetType
  <2>6. \A u \in Task : phase'[r][u] = IF u = t THEN next ELSE phase[r][u]
    BY <1>1, <2>2 DEF Move
  <2> QED
    BY <2>3, <2>5, <2>6
<1>13. ASSUME NEW outcome \in {"verified", "failed", "applied"}
       PROVE  \/ \E derived \in BOOLEAN : VerifySync(r, t, outcome, derived)
              \/ VerifyStream(r, t, outcome)
              => \E s : /\ s.status = Judgement(r, t, outcome).status
                        /\ Record(r, s) /\ Judged(r, t, outcome)
  <2>1. Judgement(r, t, outcome) \in Document
    BY <1>1, SetType DEF Judgement
  <2> DEFINE s1 == [Judgement(r, t, outcome) EXCEPT
                      !.tested = IF outcome = "applied" THEN @ ELSE @ \cup {t}]
             s2 == [Judgement(r, t, outcome) EXCEPT !.tested = @ \cup {t}]
  <2>2. /\ s1 \in Document /\ s1.status = Judgement(r, t, outcome).status
        /\ s2 \in Document /\ s2.status = Judgement(r, t, outcome).status
    BY <2>1 DEF Document
  <2>3. ASSUME NEW derived \in BOOLEAN, VerifySync(r, t, outcome, derived)
        PROVE  /\ Record(r, s1) \/ Record(r, update_delivery_status(s1))
               /\ Judged(r, t, outcome)
    BY <2>3 DEF VerifySync
  <2>4. ASSUME VerifyStream(r, t, outcome)
        PROVE  Record(r, update_delivery_status(s2)) /\ Judged(r, t, outcome)
    BY <2>4 DEF VerifyStream
  <2> HIDE DEF s1, s2
  <2>5. /\ update_delivery_status(s1).status = s1.status
        /\ update_delivery_status(s2).status = s2.status
    BY <2>2, GateType
  <2> QED
    BY <2>2, <2>3, <2>4, <2>5
<1>14. ASSUME NEW outcome \in {"verified", "failed", "applied"}, NEW s,
              s.status = Judgement(r, t, outcome).status,
              Record(r, s), Judged(r, t, outcome)
       PROVE  /\ phase[r][t] = "check" /\ phase'[r][t] = "none"
              /\ mem'[r].status[t] = outcome
              /\ \A u \in Task \ {t} : /\ mem'[r].status[u] = mem[r].status[u]
                                       /\ phase'[r][u] = phase[r][u]
              /\ UNCHANGED <<disk, pc, kind, mine, job, stop, settings, project,
                             restarts>>
  BY <1>2, <1>14 DEF Judged, Judgement
<1> QED
  BY <1>3, <1>4, <1>5, <1>6, <1>7, <1>8, <1>9, <1>11, <1>12, <1>13, <1>14
  DEF Agent


-----------------------------------------------------------------------------
(* The invariant: what tasks.json and the copy of the request say of each  *)
(* other while the request proceeds.                                       *)

(* The request has a copy that it is going to write.                       *)
Holding(r) ==
  \/ pc[r] \in {"write", "land", "work", "save"}
  \/ pc[r] \in {"begin", "read"} /\ kind[r] # "verify"

(* The status a request gives its tasks before it works on them.           *)
Target(k) == CASE k = "verify" -> "verifying" [] k = "apply" -> "applying"
               [] k = "reverify" -> "applied" [] OTHER -> "running"

(* Agents work while their request does, or waits for them.                *)
AgentsAttend(r) ==
  \A t \in Task : phase[r][t] # "none" => pc[r] \in {"work", "leaving"}

(* The copy is a move ahead of tasks.json at most, whatever happened to    *)
(* the tasks no agent is at work for.                                      *)
OneMoveAhead(r) ==
  Holding(r) => \A t \in Task :
    phase[r][t] = "none" => MayBecome(disk.status[t], mem[r].status[t])

(* What is announced in the copy and then in tasks.json before the work.   *)
Announced(r) ==
  /\ pc[r] = "write" \/ (pc[r] = "begin" /\ kind[r] # "verify")
       => \A t \in mine[r] : mem[r].status[t] = Target(kind[r])
  /\ pc[r] = "land" \/ (pc[r] = "begin" /\ kind[r] \in {"wave", "repair"})
       => \A t \in mine[r] : disk.status[t] = Target(kind[r])

(* During the work tasks.json says what it was announced.                  *)
Recorded(r) ==
  pc[r] = "work" => \A t \in Task :
    /\ phase[r][t] = "check" => disk.status[t] = "verifying"
    /\ phase[r][t] \in Generating => disk.status[t] = "running"

(* A request that finishes its job last has written its copy.              *)
Written(r) == pc[r] = "finish" => kind[r] \notin FinishesFirst

Shape(r) == AgentsAttend(r) /\ OneMoveAhead(r) /\ Announced(r) /\ Recorded(r)
              /\ Written(r)

SerialInv(r) == IInv /\ Shape(r)

LEMMA ShapeInit == ASSUME NEW r \in Request, Init PROVE Shape(r)
BY DEF Init, Idle, Shape, AgentsAttend, OneMoveAhead, Announced, Recorded,
   Written, Holding, Off

(* A request starts with a copy that is one move ahead.                    *)
LEMMA ShapeStart ==
  ASSUME NEW r \in Request, SerialInv(r), NEW k \in Kind, NEW S \in SUBSET Task,
         NEW s \in Document, NEW step \in {"write", "begin"},
         Start(r, k, S, s, step),
         k # "verify" => \A t \in Task : MayBecome(disk'.status[t], s.status[t]),
         k = "verify" => step = "begin",
         k # "verify" => \A t \in S : s.status[t] = Target(k),
         step = "begin" => k \notin {"wave", "repair"}
  PROVE  Shape(r)'
<1>1. /\ pc'[r] = step /\ kind'[r] = k /\ mine'[r] = S /\ mem'[r] = s
      /\ phase' = phase /\ pc[r] = "idle"
  BY DEF Start, Goto, SerialInv, IInv, TypeOK
<1>2. AgentsAttend(r)'
  BY <1>1 DEF SerialInv, Shape, AgentsAttend
<1>3. OneMoveAhead(r)'
  BY <1>1 DEF OneMoveAhead, Holding
<1>4. Announced(r)'
  BY <1>1 DEF Announced
<1> QED
  BY <1>1, <1>2, <1>3, <1>4 DEF Shape, Recorded, Written

(* A request is over.                                                      *)
LEMMA ShapeLeave ==
  ASSUME NEW r \in Request, SerialInv(r), pc' = [pc EXCEPT ![r] = "idle"],
         phase'[r] = Off \/ (phase' = phase /\ pc[r] \notin {"work", "leaving"})
                         \/ (phase' = phase /\ phase[r] = Off)
  PROVE  Shape(r)'
BY DEF SerialInv, IInv, TypeOK, Shape, AgentsAttend, OneMoveAhead, Holding,
   Announced, Recorded, Written, Off

LEMMA ShapeStarts ==
  ASSUME NEW r \in Request, SerialInv(r), NEW t \in Task, StartsWith(r, t)
  PROVE  Shape(r)'
<1>1. disk \in Document
  BY DEF SerialInv, IInv, TypeOK
<1>2. /\ Recovered \in Document
      /\ \A u \in Task : \/ Recovered.status[u] = disk.status[u]
                         \/ /\ disk.status[u] = "running"
                            /\ Recovered.status[u] = "pending"
  BY <1>1, Found DEF Recovered
<1> USE DEF Status, Cause, Kind
<1>3. CASE StartRetry(r, t)
  <2> DEFINE s == Set(Recovered, {t}, "running", "none")
  <2>1. /\ s \in Document
        /\ \A u \in Task : s.status[u] = IF u = t THEN "running"
                                         ELSE Recovered.status[u]
    BY <1>2, SetType
  <2>2. /\ Start(r, "retry", {t}, s, "begin") /\ disk' = Recovered
        /\ disk.status[t] \in {"failed", "running", "pending", "blocked"}
    BY <1>3 DEF StartRetry, Retryable
  <2> HIDE DEF s
  <2>3. \A u \in Task : MayBecome(disk'.status[u], s.status[u])
    BY <1>2, <2>1, <2>2, Moves
  <2> QED
    BY <2>1, <2>2, <2>3, ShapeStart DEF Target
<1>4. CASE StartReverify(r, t)
  <2> DEFINE w == Set(Recovered, {t}, "applied", "none")
             s == update_delivery_status(w)
  <2>1. /\ w \in Document
        /\ \A u \in Task : w.status[u] = IF u = t THEN "applied"
                                         ELSE Recovered.status[u]
    BY <1>2, SetType
  <2>2. s \in Document /\ s.status = w.status
    <3> HIDE DEF w
    <3> QED
      BY <2>1, GateType
  <2>3. /\ Start(r, "reverify", {t}, s, "begin") /\ disk' = Recovered
        /\ disk.status[t] = "failed"
    BY <1>4 DEF StartReverify
  <2> HIDE DEF s, w
  <2>4. \A u \in Task : MayBecome(disk'.status[u], s.status[u])
    BY <1>2, <2>1, <2>2, <2>3, Moves
  <2> QED
    BY <2>1, <2>2, <2>3, <2>4, ShapeStart DEF Target
<1>5. CASE StartResume(r, t)
  <2> DEFINE s == Set(Recovered, {t}, "running", "none")
  <2>1. /\ s \in Document
        /\ \A u \in Task : s.status[u] = IF u = t THEN "running"
                                         ELSE Recovered.status[u]
    BY <1>2, SetType
  <2>2. /\ Start(r, "resume", {t}, s, "begin") /\ disk' = Recovered
        /\ Recovered.status[t] \in {"failed", "pending"}
    BY <1>5 DEF StartResume
  <2> HIDE DEF s
  <2>3. \A u \in Task : MayBecome(disk'.status[u], s.status[u])
    BY <2>1, <2>2, Moves
  <2> QED
    BY <2>1, <2>2, <2>3, ShapeStart DEF Target
<1>6. CASE StartRepair(r, t)
  <2> DEFINE w == Set(disk, {t}, "running", "none")
             s == [w EXCEPT !.repairs[t] = @ + 1]
  <2>1. /\ w \in Document
        /\ \A u \in Task : w.status[u] = IF u = t THEN "running"
                                         ELSE disk.status[u]
    BY <1>1, SetType
  <2>2. w.repairs = disk.repairs
    BY <1>1 DEF Set, Document
  <2>3. w.repairs[t] + 1 \in 0..MaxRepairs
    BY <1>1, <1>6, <2>2, StateAssumption DEF StartRepair, Document
  <2>4. s \in Document /\ s.status = w.status
    <3> HIDE DEF w
    <3> QED
      BY <2>1, <2>3 DEF Document
  <2>5. /\ Start(r, "repair", {t}, s, "write") /\ disk' = disk
        /\ disk.status[t] = "failed"
    BY <1>6 DEF StartRepair
  <2> HIDE DEF s, w
  <2>6. \A u \in Task : MayBecome(disk'.status[u], s.status[u])
    BY <2>1, <2>4, <2>5, Moves
  <2> QED
    BY <2>1, <2>4, <2>5, <2>6, ShapeStart DEF Target
<1>7. CASE StartVerify(r, t)
  <2>1. NewPlan \in Document
    BY NewPlanSound DEF Sound
  <2> QED
    BY <1>7, <2>1, ShapeStart DEF StartVerify
<1>8. CASE StartApply(r, t)
  <2> DEFINE w == mark_stale_tasks(disk, stale)
             s == Put(w, {t}, "applying")
  <2>1. w \in Document
    BY <1>1, Found
  <2>2. \A u \in Task :
          \/ w.status[u] = disk.status[u]
          \/ /\ disk.status[u] \in {"pending", "running", "review"}
             /\ w.status[u] = "blocked"
    BY <1>1, Found
  <2>3. /\ Start(r, "apply", {t}, s, "write") /\ disk' = disk
        /\ w.status[t] \in {"review", "partially_applied"}
    BY <1>8 DEF StartApply
  <2>4. /\ s \in Document
        /\ \A u \in Task : s.status[u] = IF u = t THEN "applying"
                                         ELSE w.status[u]
    <3> HIDE DEF w
    <3> QED
      BY <2>1, PutType
  <2> HIDE DEF s, w
  <2>5. \A u \in Task : MayBecome(disk'.status[u], s.status[u])
    BY <2>2, <2>3, <2>4, Moves
  <2> QED
    BY <2>3, <2>4, <2>5, ShapeStart DEF Target
<1>9. CASE Reject(r, t)
  BY <1>9 DEF Reject, agents, SerialInv, Shape, AgentsAttend, OneMoveAhead,
     Holding, Announced, Recorded, Written
<1> QED
  BY <1>3, <1>4, <1>5, <1>6, <1>7, <1>8, <1>9 DEF StartsWith

LEMMA ShapeWave ==
  ASSUME NEW r \in Request, SerialInv(r), NEW S \in SUBSET Task, StartWave(r, S)
  PROVE  Shape(r)'
<1> DEFINE f == RecoveredForWave
           ready == ready_tasks(f)
           w == Refuse(f, ready \ S)
           s == Put(w, S, "running")
<1>1. disk \in Document
  BY DEF SerialInv, IInv, TypeOK
<1>2. f \in Document
  BY <1>1, FoundForWave, Zenon DEF StartWave
<1>3. \A u \in Task :
        \/ f.status[u] = disk.status[u]
        \/ disk.status[u] = "running" /\ f.status[u] = "pending"
        \/ /\ disk.status[u] \in {"pending", "running", "review"}
           /\ f.status[u] = "blocked"
  BY <1>1, FoundForWave
<1>4. /\ Start(r, "wave", S, s, "write") /\ disk' = disk
      /\ S \subseteq ready
  BY DEF StartWave
<1>5. \A u \in ready : f.status[u] = "pending"
  BY DEF ready_tasks
<1>6. /\ w \in Document
      /\ \A u \in Task : w.status[u] = IF u \in ready \ S THEN "pending"
                                       ELSE f.status[u]
  BY <1>2, SetType DEF Refuse, Status, Cause
<1>7. /\ s \in Document
      /\ \A u \in Task : s.status[u] = IF u \in S THEN "running" ELSE w.status[u]
  <2> HIDE DEF w
  <2> QED
    BY <1>6, PutType DEF Status
<1> HIDE DEF f, ready, w, s
<1>8. \A u \in Task : MayBecome(disk'.status[u], s.status[u])
  BY <1>3, <1>4, <1>5, <1>6, <1>7, Moves
<1> QED
  BY <1>4, <1>7, <1>8, ShapeStart DEF Target, Kind


-----------------------------------------------------------------------------
(* The copy becomes the file.                                              *)
LEMMA ShapeWrite ==
  ASSUME NEW r \in Request, SerialInv(r), Write(r)
  PROVE  Shape(r)'
<1>1. /\ pc \in [Request -> Step] /\ mine[r] \subseteq Task
      /\ phase \in [Request -> [Task -> Phase]]
  BY DEF SerialInv, IInv, TypeOK
<1>2. /\ pc[r] = "write" /\ disk' = mem[r] /\ mem' = mem
      /\ UNCHANGED <<kind, mine>>
      /\ \/ kind[r] \in {"wave", "repair"} /\ pc'[r] = "begin"
         \/ kind[r] = "reverify" /\ pc'[r] = "read"
         \/ kind[r] = "apply" /\ pc'[r] = "land"
         \/ /\ kind[r] \notin {"wave", "repair", "reverify", "apply"}
            /\ pc'[r] = "work"
  BY <1>1 DEF Write, Goto
<1>3. \A t \in Task :
        \/ phase'[r][t] = "none"
        \/ t \in mine[r] /\ kind[r] \in {"retry", "resume"} /\ phase'[r][t] = "loop"
        \/ t \in mine[r] /\ kind[r] = "verify" /\ phase'[r][t] = "check"
  BY <1>1 DEF Write
<1>4. \A t \in mine[r] : mem[r].status[t] = Target(kind[r])
  BY <1>2 DEF SerialInv, Shape, Announced
<1>5. AgentsAttend(r)'
  BY <1>2, <1>3 DEF AgentsAttend
<1>6. OneMoveAhead(r)'
  BY <1>2, Moves DEF OneMoveAhead
<1>7. Announced(r)'
  BY <1>2, <1>4 DEF Announced, Target
<1>8. Recorded(r)'
  BY <1>2, <1>3, <1>4 DEF Recorded, Target, Generating
<1> QED
  BY <1>2, <1>5, <1>6, <1>7, <1>8 DEF Shape, Written

LEMMA ShapeBegin ==
  ASSUME NEW r \in Request, SerialInv(r), Begin(r)
  PROVE  Shape(r)'
<1>1. /\ pc \in [Request -> Step] /\ mine[r] \subseteq Task
      /\ phase \in [Request -> [Task -> Phase]]
  BY DEF SerialInv, IInv, TypeOK
<1>2. /\ pc[r] = "begin" /\ UNCHANGED <<disk, mem, kind, mine>>
      /\ \/ kind[r] \in {"wave", "repair"} /\ pc'[r] = "work"
         \/ kind[r] = "verify" /\ pc'[r] = "read"
         \/ kind[r] \notin {"wave", "repair", "verify"} /\ pc'[r] = "write"
  BY <1>1 DEF Begin, Goto
<1>3. \A t \in Task :
        \/ phase'[r][t] = "none"
        \/ t \in mine[r] /\ kind[r] \in {"wave", "repair"} /\ phase'[r][t] = "loop"
  BY <1>1 DEF Begin
<1>4. phase[r] = Off
  BY <1>1, <1>2 DEF SerialInv, Shape, AgentsAttend, Off
<1>5. AgentsAttend(r)'
  BY <1>2, <1>3 DEF AgentsAttend
<1>6. OneMoveAhead(r)'
  BY <1>2, <1>4 DEF SerialInv, Shape, OneMoveAhead, Holding, Off
<1>7. Announced(r)'
  BY <1>2 DEF SerialInv, Shape, Announced
<1>8. Recorded(r)'
  BY <1>2, <1>3 DEF SerialInv, Shape, Announced, Recorded, Target, Generating
<1> QED
  BY <1>2, <1>5, <1>6, <1>7, <1>8 DEF Shape, Written

(* verify_task takes its copy: one task, the one it was asked for.         *)
LEMMA ReadStep ==
  ASSUME NEW r \in Request, SerialInv(r), Read(r)
  PROVE  /\ pc[r] = "read" /\ kind[r] \in {"verify", "reverify"}
         /\ UNCHANGED <<disk, agents, settings, project, restarts>>
         /\ \/ /\ pc'[r] = "finish" /\ UNCHANGED <<mem, kind>>
            \/ \E t \in Task, s \in Document :
                 /\ mine[r] = {t} /\ disk.status[t] = "applied"
                 /\ s = disk \/ s = register_documentation_task(disk)
                 /\ mem'[r] = update_delivery_status(Put(s, {t}, "verifying"))
                 /\ pc'[r] = "write" /\ kind'[r] = "verify"
<1>1. /\ pc \in [Request -> Step] /\ mine[r] \subseteq Task
      /\ kind \in [Request -> Kind] /\ mem \in [Request -> Document]
      /\ disk \in Document
      /\ pc[r] = "read" => kind[r] \in {"verify", "reverify"}
      /\ kind[r] \in {"verify", "reverify"} => \A t, u \in mine[r] : t = u
  BY DEF SerialInv, IInv, TypeOK, OneTask
<1>2. PICK t \in mine[r] :
        \/ /\ disk.status[t] = "applied"
           /\ \E s : /\ s = disk \/ s = register_documentation_task(disk)
                     /\ mem' = [mem EXCEPT ![r] =
                          update_delivery_status(Put(s, {t}, "verifying"))]
           /\ kind' = [kind EXCEPT ![r] = "verify"]
           /\ pc' = [pc EXCEPT ![r] = "write"]
        \/ pc' = [pc EXCEPT ![r] = "finish"] /\ UNCHANGED <<mem, kind>>
  BY Zenon DEF Read, Goto
<1>3. mine[r] = {t} /\ t \in Task
  BY <1>1, <1>2 DEF Read
<1>4. disk \in Document /\ register_documentation_task(disk) \in Document
  BY <1>1, RegisterType
<1> QED
  BY <1>1, <1>2, <1>3, <1>4 DEF Read

LEMMA ShapeRead ==
  ASSUME NEW r \in Request, SerialInv(r), Read(r)
  PROVE  Shape(r)'
<1>1. /\ pc[r] = "read" /\ kind[r] \in {"verify", "reverify"}
      /\ UNCHANGED <<disk, mine, phase>>
  BY ReadStep DEF agents
<1>2. AgentsAttend(r)' /\ phase[r] = Off
  BY <1>1 DEF SerialInv, IInv, TypeOK, Shape, AgentsAttend, Off
<1>3. CASE pc'[r] = "finish" /\ UNCHANGED <<mem, kind>>
  BY <1>1, <1>2, <1>3 DEF Shape, OneMoveAhead, Holding, Announced, Recorded,
     Written, FinishesFirst
<1>4. ASSUME NEW t \in Task, NEW s \in Document,
             mine[r] = {t}, disk.status[t] = "applied",
             s = disk \/ s = register_documentation_task(disk),
             mem'[r] = update_delivery_status(Put(s, {t}, "verifying")),
             pc'[r] = "write", kind'[r] = "verify"
      PROVE  Shape(r)'
  <2>1. s.status = disk.status
    BY <1>4, RegisterType DEF SerialInv, IInv, TypeOK
  <2>2. \A u \in Task : mem'[r].status[u] = IF u = t THEN "verifying"
                                            ELSE disk.status[u]
    BY <1>4, <2>1, PutType, GateType DEF Status
  <2>3. OneMoveAhead(r)'
    BY <1>1, <1>4, <2>2, Moves DEF OneMoveAhead
  <2>4. Announced(r)'
    BY <1>1, <1>4, <2>2 DEF Announced, Target
  <2> QED
    BY <1>2, <1>4, <2>3, <2>4 DEF Shape, Recorded, Written
<1> QED
  BY <1>3, <1>4, ReadStep

LEMMA ShapeSave ==
  ASSUME NEW r \in Request, SerialInv(r), Save(r)
  PROVE  Shape(r)'
<1>1. pc[r] = "save" \/ phase[r] = Off
  BY DEF Save, Worked
<1>2. CASE Leave(r)
  BY <1>1, <1>2, ShapeLeave DEF Save, Leave, Goto
<1>3. CASE Goto(r, "finish") /\ UNCHANGED <<mem, kind, mine, stop>>
  <2>1. pc'[r] = "finish" /\ UNCHANGED <<kind, phase>>
    BY <1>3 DEF Save, Goto, SerialInv, IInv, TypeOK
  <2>2. kind[r] \notin FinishesFirst
    BY <1>3 DEF Save, Leave, Goto, SerialInv, IInv, TypeOK
  <2>3. phase[r] = Off
    BY <1>1 DEF SerialInv, IInv, TypeOK, Shape, AgentsAttend, Off
  <2> QED
    BY <2>1, <2>2, <2>3 DEF Shape, AgentsAttend, OneMoveAhead, Holding,
       Announced, Recorded, Written, Off
<1> QED
  BY <1>2, <1>3 DEF Save

LEMMA ShapeFinish ==
  ASSUME NEW r \in Request, SerialInv(r), Finish(r)
  PROVE  Shape(r)'
<1>1. pc[r] = "finish" \/ phase[r] = Off
  BY DEF Finish, Worked
<1>2. CASE Leave(r)
  BY <1>1, <1>2, ShapeLeave DEF Finish, Leave, Goto
<1>3. CASE Goto(r, "save") /\ UNCHANGED <<mem, kind, mine, stop>>
  <2>1. pc'[r] = "save" /\ UNCHANGED <<disk, mem, kind, phase>>
    BY <1>3 DEF Finish, Goto, SerialInv, IInv, TypeOK
  <2>2. pc[r] = "work"
    BY <1>3 DEF Finish, Worked, Leave, Goto, SerialInv, IInv, TypeOK, Shape,
       Written
  <2>3. phase[r] = Off
    BY <1>1, <2>2
  <2> QED
    BY <2>1, <2>2, <2>3 DEF SerialInv, Shape, AgentsAttend, OneMoveAhead,
       Holding, Announced, Recorded, Written, Off
<1> QED
  BY <1>2, <1>3 DEF Finish


(* What the patch decision leaves in the copy.                             *)
LEMMA ApplyStep ==
  ASSUME NEW r \in Request, SerialInv(r), Apply(r)
  PROVE  /\ pc[r] = "land" /\ kind[r] = "apply"
         /\ UNCHANGED <<disk, phase, job, settings, restarts>>
         /\ \/ Leave(r) /\ UNCHANGED project
            \/ /\ pc' = [pc EXCEPT ![r] = "save"] /\ UNCHANGED <<kind, mine>>
               /\ \E value \in {"applied", "partially_applied", "rejected",
                                "failed"} :
                    \A t \in Task : mem'[r].status[t]
                      = IF t \in mine[r] THEN value ELSE mem[r].status[t]
<1>1. /\ mem \in [Request -> Document] /\ mem[r] \in Document
      /\ mine[r] \subseteq Task
      /\ pc[r] = "land" => kind[r] = "apply"
  BY DEF SerialInv, IInv, TypeOK, OneTask
<1> USE DEF Status, Cause, agents, settings, project, Goto
<1>2. ASSUME NEW value \in {"applied", "partially_applied", "rejected", "failed"},
             NEW why \in {"none", "other"}, NEW s,
             s.status = Set(mem[r], mine[r], value, why).status, Record(r, s)
      PROVE  \A t \in Task : mem'[r].status[t]
               = IF t \in mine[r] THEN value ELSE mem[r].status[t]
  <2>1. mem'[r] = s
    BY <1>1, <1>2 DEF Record
  <2>2. \A t \in Task : Set(mem[r], mine[r], value, why).status[t]
                         = IF t \in mine[r] THEN value ELSE mem[r].status[t]
    <3>1. value \in Status /\ why \in Cause
      BY <1>2
    <3> HIDE DEF Status, Cause
    <3> QED
      BY <1>1, <3>1, SetType
  <2> QED
    BY <1>2, <2>1, <2>2
<1>3. ASSUME NEW value \in {"applied", "partially_applied"}
      PROVE  Applied(mem[r], mine[r], value).status
               = Set(mem[r], mine[r], value, "none").status
  <2> DEFINE u == [Set(mem[r], mine[r], value, "none") EXCEPT
                     !.changed = @ \cup mine[r]]
  <2>1. Set(mem[r], mine[r], value, "none") \in Document
    BY <1>1, SetType
  <2>2. /\ u \in Document
        /\ u.status = Set(mem[r], mine[r], value, "none").status
    BY <1>1, <2>1 DEF Document
  <2> HIDE DEF u
  <2>3. register_documentation_task(u).status = u.status
    BY <2>2, RegisterType
  <2> QED
    BY <2>2, <2>3 DEF u, Applied
<1> DEFINE StatusGiven == \E value \in {"applied", "partially_applied", "rejected",
                                   "failed"} :
                     \A t \in Task : mem'[r].status[t]
                       = IF t \in mine[r] THEN value ELSE mem[r].status[t]
           Moved == /\ pc[r] = "land" /\ pc' = [pc EXCEPT ![r] = "save"]
                    /\ UNCHANGED <<disk, kind, agents, settings, restarts>>
<1>4. CASE ApplyAll(r)
  <2>1. Record(r, Applied(mem[r], mine[r], "applied")) /\ Moved
    BY <1>4 DEF ApplyAll
  <2>2. StatusGiven
    BY <1>2, <1>3, <2>1
  <2> QED
    BY <1>1, <2>1, <2>2
<1>5. ASSUME NEW value \in {"partially_applied", "applied"},
             ApplySome(r, value) \/ ApplyNoHunk(r, value)
      PROVE  StatusGiven /\ Moved
  <2>1. Record(r, Applied(mem[r], mine[r], value)) /\ Moved
    BY <1>5 DEF ApplySome, ApplyNoHunk
  <2>2. StatusGiven
    BY <1>2, <1>3, <2>1
  <2> QED
    BY <2>1, <2>2
<1>6. ASSUME NEW value \in {"partially_applied", "applied", "rejected"},
             ApplyNone(r, value)
      PROVE  StatusGiven /\ Moved
  <2>1. Record(r, Set(mem[r], mine[r], value, "none")) /\ Moved
    BY <1>6 DEF ApplyNone
  <2>2. StatusGiven
    BY <1>2, <2>1
  <2> QED
    BY <2>1, <2>2
<1>7. CASE ApplyFails(r)
  <2>1. update_delivery_status(Set(mem[r], mine[r], "failed", "other")).status
          = Set(mem[r], mine[r], "failed", "other").status
    BY <1>1, SetType, GateType
  <2>2. StatusGiven
    BY <1>2, <1>7, <2>1 DEF ApplyFails
  <2>3. Moved
    BY <1>7 DEF ApplyFails
  <2> QED
    BY <1>1, <2>2, <2>3
<1>8. CASE HunkRaises(r)
  BY <1>1, <1>8 DEF HunkRaises
<1>9. ASSUME StatusGiven, Moved
      PROVE  /\ pc[r] = "land" /\ kind[r] = "apply"
             /\ UNCHANGED <<disk, phase, job, settings, restarts>>
             /\ pc' = [pc EXCEPT ![r] = "save"] /\ UNCHANGED <<kind, mine>>
             /\ StatusGiven
  BY <1>1, <1>9
<1> QED
  <2>1. CASE \/ \E value \in {"partially_applied", "applied"} :
                 ApplySome(r, value) \/ ApplyNoHunk(r, value)
             \/ \E value \in {"partially_applied", "applied", "rejected"} :
                  ApplyNone(r, value)
    BY <1>5, <1>6, <1>9, <2>1
  <2> QED
    BY <1>4, <1>7, <1>8, <2>1 DEF Apply

LEMMA ShapeApply ==
  ASSUME NEW r \in Request, SerialInv(r), Apply(r)
  PROVE  Shape(r)'
<1>1. /\ pc[r] = "land" /\ kind[r] = "apply"
      /\ UNCHANGED <<disk, phase>>
  BY ApplyStep
<1>2. phase[r] = Off
  BY <1>1 DEF SerialInv, IInv, TypeOK, Shape, AgentsAttend, Off
<1>3. CASE Leave(r)
  BY <1>1, <1>2, <1>3, ShapeLeave DEF Leave, Goto
<1>4. ASSUME NEW value \in {"applied", "partially_applied", "rejected", "failed"},
             pc' = [pc EXCEPT ![r] = "save"], UNCHANGED <<kind, mine>>,
             \A t \in Task : mem'[r].status[t]
               = IF t \in mine[r] THEN value ELSE mem[r].status[t]
      PROVE  Shape(r)'
  <2>1. pc'[r] = "save"
    BY <1>4 DEF SerialInv, IInv, TypeOK
  <2>2. \A t \in mine[r] : disk.status[t] = "applying"
    BY <1>1 DEF SerialInv, Shape, Announced, Target
  <2>3. \A t \in Task : MayBecome(disk.status[t], mem[r].status[t])
    BY <1>1, <1>2 DEF SerialInv, Shape, OneMoveAhead, Holding, Off
  <2>4. OneMoveAhead(r)'
    BY <1>1, <1>4, <2>2, <2>3, Moves DEF OneMoveAhead
  <2> QED
    BY <1>1, <1>2, <2>1, <2>4 DEF Shape, AgentsAttend, Announced, Recorded,
       Written, Off
<1> QED
  BY <1>3, <1>4, ApplyStep

LEMMA ShapeClose ==
  ASSUME NEW r \in Request, SerialInv(r),
         CloseWave(r) \/ Gone(r) \/ CloseVerify(r)
  PROVE  Shape(r)'
<1>1. CASE CloseWave(r)
  BY <1>1 DEF CloseWave, Goto, SerialInv, IInv, TypeOK, Shape, AgentsAttend,
     OneMoveAhead, Holding, Announced, Recorded, Written
<1>2. CASE Gone(r) \/ CloseVerify(r)
  <2>1. phase'[r] = Off /\ pc' = [pc EXCEPT ![r] = "idle"]
    BY <1>2 DEF Gone, CloseVerify, Leave, Goto, SerialInv, IInv, TypeOK
  <2> QED
    BY <2>1, ShapeLeave
<1> QED
  BY <1>1, <1>2

LEMMA ShapeAgent ==
  ASSUME NEW r \in Request, SerialInv(r), NEW t \in Task, Agent(r, t)
  PROVE  Shape(r)'
<1> USE AgentStep DEF settings
<1>1. /\ UNCHANGED <<disk, pc, mine>>
      /\ phase[r][t] = "check" \/ phase[r][t] \in Generating
      /\ pc[r] \in {"work", "leaving"}
      /\ \A u \in Task \ {t} : /\ mem'[r].status[u] = mem[r].status[u]
                               /\ phase'[r][u] = phase[r][u]
  BY DEF SerialInv, Shape, AgentsAttend, Generating
<1>2. AgentsAttend(r)'
  BY <1>1 DEF SerialInv, Shape, AgentsAttend
<1>3. pc[r] = "work" /\ phase'[r][t] = "none"
        => MayBecome(disk.status[t], mem'[r].status[t])
  <2>1. CASE phase[r][t] = "check"
    BY <2>1, Moves DEF SerialInv, Shape, Recorded, Generating
  <2>2. CASE phase[r][t] \in Generating
    BY <2>2, Moves DEF SerialInv, Shape, Recorded, Generating
  <2> QED
    BY <1>1, <2>1, <2>2
<1>4. OneMoveAhead(r)'
  BY <1>1, <1>3 DEF SerialInv, Shape, OneMoveAhead, Holding
<1>5. Recorded(r)'
  BY <1>1 DEF SerialInv, Shape, Recorded, Generating
<1> QED
  BY <1>1, <1>2, <1>4, <1>5 DEF Shape, Announced, Written

(* What nobody but an idle thread does, and what touches no request.       *)
LEMMA ShapeOthers ==
  ASSUME NEW r \in Request, SerialInv(r), UNCHANGED <<mem, pc, kind, mine>>,
         \/ phase' = phase /\ (disk' = disk \/ pc[r] = "idle")
         \/ \E t \in Task : WorkerDies(r, t)
  PROVE  Shape(r)'
<1>1. CASE phase' = phase /\ (disk' = disk \/ pc[r] = "idle")
  BY <1>1 DEF SerialInv, Shape, AgentsAttend, OneMoveAhead, Holding, Announced,
     Recorded, Written
<1>2. ASSUME NEW t \in Task, WorkerDies(r, t) PROVE Shape(r)'
  <2>1. /\ disk' = disk /\ phase[r][t] # "none"
        /\ \A u \in Task : phase'[r][u] = IF u = t THEN "dead" ELSE phase[r][u]
    BY <1>2 DEF WorkerDies, Move, SerialInv, IInv, TypeOK
  <2> QED
    BY <2>1 DEF SerialInv, Shape, AgentsAttend, OneMoveAhead, Holding,
       Announced, Recorded, Written, Generating
<1> QED
  BY <1>1, <1>2

LEMMA SerialNext ==
  ASSUME NEW r, Request = {r}, SerialInv(r), [Next]_vars
  PROVE  SerialInv(r)'
<1>1. IInv'
  BY NextInv DEF SerialInv
<1>2. ASSUME Proceed(r) PROVE Shape(r)'
  BY <1>2, ShapeWrite, ShapeBegin, ShapeRead, ShapeSave, ShapeFinish,
     ShapeApply, ShapeClose, ShapeAgent DEF Proceed
<1>3. ASSUME NEW t \in Task, StartsWith(r, t) PROVE Shape(r)'
  BY <1>3, ShapeStarts
<1>4. ASSUME NEW S \in SUBSET Task, StartWave(r, S) PROVE Shape(r)'
  BY <1>4, ShapeWave
<1>5. ASSUME CloseWave(r) \/ CloseVerify(r) PROVE Shape(r)'
  BY <1>5, ShapeClose
<1>6. ASSUME NEW t \in Task, WorkerDies(r, t) PROVE Shape(r)'
  BY <1>6, ShapeOthers DEF WorkerDies
<1>7. ASSUME \/ WaveWaits(r) \/ Refused(r)
             \/ \E S \in SUBSET Task : EditArchitecture(r, S)
             \/ \E o \in DOCUMENTATION_STATUSES : SyncDocs(r, o)
             \/ \E t \in Task : Cancel(t) \/ ClearStale(t)
             \/ \E m \in {"review", "auto"} : SetMode(m)
             \/ UNCHANGED vars
      PROVE  Shape(r)'
  <2>1. /\ UNCHANGED <<mem, pc, kind, mine>> /\ phase' = phase
        /\ disk' = disk \/ pc[r] = "idle"
    BY <1>7 DEF WaveWaits, Refused, EditArchitecture, SyncDocs, Cancel,
       ClearStale, SetMode, vars, agents
  <2> QED
    BY <2>1, ShapeOthers
<1>8. ASSUME Restart PROVE Shape(r)'
  <2>1. pc'[r] = "idle" /\ \A t \in Task : phase'[r][t] = "none"
    BY <1>8 DEF Restart, Off
  <2> QED
    BY <2>1 DEF Shape, AgentsAttend, OneMoveAhead, Holding, Announced,
       Recorded, Written, Off
<1> QED
  BY <1>1, <1>2, <1>3, <1>4, <1>5, <1>6, <1>7, <1>8 DEF SerialInv, Next

LEMMA Serial ==
  ASSUME NEW r, Request = {r} PROVE Spec => []SerialInv(r)
<1>1. Init => SerialInv(r)
  BY InitInv, ShapeInit DEF SerialInv
<1>2. SerialInv(r) /\ [Next]_vars => SerialInv(r)'
  BY SerialNext
<1> QED
  BY <1>1, <1>2, PTL DEF Spec


-----------------------------------------------------------------------------
(* tasks.json implements TaskLifecycle.                                    *)

(* Every write of tasks.json moves every work item one stage at most.      *)
LEMMA DiskMoves ==
  ASSUME NEW r, Request = {r}, SerialInv(r), [Next]_vars, NEW t \in Task
  PROVE  MayBecome(disk.status[t], disk'.status[t])
<1>1. disk \in Document /\ mem[r] \in Document
  BY DEF SerialInv, IInv, TypeOK
<1>2. CASE disk' = disk
  BY <1>2, Moves
<1>3. CASE Write(r)
  BY <1>3 DEF Write, SerialInv, Shape, AgentsAttend, OneMoveAhead, Holding
<1>4. CASE Save(r)
  <2>1. phase[r][t] = "none" /\ Holding(r)
    BY <1>4 DEF Save, Worked, Holding, SerialInv, Shape, AgentsAttend, Off
  <2>2. disk'.status = mem[r].status
    BY <1>1, <1>4, CompletedType DEF Save
  <2> QED
    BY <2>1, <2>2 DEF SerialInv, Shape, OneMoveAhead
<1>5. CASE disk' = Recovered
  BY <1>1, <1>5, Found, Moves DEF Recovered
<1>6. CASE WaveWaits(r)
  <2> DEFINE f == RecoveredForWave
             ready == ready_tasks(f)
  <2>1. f \in Document
    BY <1>1, FoundForWave
  <2>2. \/ f.status[t] = disk.status[t]
        \/ disk.status[t] = "running" /\ f.status[t] = "pending"
        \/ /\ disk.status[t] \in {"pending", "running", "review"}
           /\ f.status[t] = "blocked"
    BY <1>1, FoundForWave
  <2>3. disk' = Refuse(f, ready)
    BY <1>6 DEF WaveWaits
  <2>4. t \in ready => f.status[t] = "pending"
    BY DEF ready_tasks
  <2> HIDE DEF f, ready
  <2>5. disk'.status[t] = IF t \in ready THEN "pending" ELSE f.status[t]
    BY <2>1, <2>3, SetType DEF Refuse, Status, Cause
  <2> QED
    BY <2>2, <2>4, <2>5, Moves
<1>7. CASE Reject(r, t)
  <2>1. disk'.status[t] = "rejected"
    BY <1>1, <1>7, SetType DEF Reject, Status, Cause
  <2> QED
    BY <1>7, <2>1, Moves DEF Reject
<1>8. ASSUME NEW u \in Task, u # t, Reject(r, u)
      PROVE  MayBecome(disk.status[t], disk'.status[t])
  <2>1. disk'.status[t] = disk.status[t]
    BY <1>1, <1>8, SetType DEF Reject, Status, Cause
  <2> QED
    BY <2>1, Moves
<1>9. ASSUME NEW o \in DOCUMENTATION_STATUSES, SyncDocs(r, o)
      PROVE  MayBecome(disk.status[t], disk'.status[t])
  <2> DEFINE u == [disk EXCEPT !.documentation = o]
  <2>1. u \in Document /\ u.status = disk.status
    BY <1>1 DEF Document
  <2>2. disk' = update_delivery_status(u)
    BY <1>9 DEF SyncDocs
  <2> HIDE DEF u
  <2> QED
    BY <2>1, <2>2, GateType, Moves
<1>10. ASSUME NEW S \in SUBSET Task, EditArchitecture(r, S)
       PROVE  MayBecome(disk.status[t], disk'.status[t])
  <2> DEFINE s == update_delivery_status(disk)
  <2>1. s \in Document /\ s.status = disk.status
    BY <1>1, GateType
  <2>2. disk'.status = s.status
    BY <1>10, <2>1 DEF EditArchitecture, Document
  <2> QED
    BY <2>1, <2>2, Moves
<1>11. ASSUME NEW u \in Task, StartsWith(r, u), ~ Reject(r, u)
       PROVE  disk' = disk \/ disk' = Recovered
  BY <1>11 DEF StartsWith, StartRetry, StartReverify, StartResume, StartRepair,
     StartVerify, StartApply
<1>12. ASSUME Proceed(r), ~ Write(r), ~ Save(r) PROVE disk' = disk
  <2>1. ASSUME NEW u \in Task, Agent(r, u) PROVE disk' = disk
    BY <2>1, AgentStep DEF SerialInv
  <2>2. ASSUME Apply(r) PROVE disk' = disk
    BY <2>2, ApplyStep
  <2> QED
    BY <1>12, <2>1, <2>2 DEF Proceed, Begin, Read, Finish, Gone
<1>13. ASSUME \/ \E S \in SUBSET Task : StartWave(r, S)
              \/ \E u \in Task : \/ WorkerDies(r, u) \/ Cancel(u)
                                 \/ ClearStale(u)
              \/ CloseWave(r) \/ CloseVerify(r)
              \/ \E m \in {"review", "auto"} : SetMode(m)
              \/ Restart \/ UNCHANGED vars
       PROVE  disk' = disk
  BY <1>13 DEF StartWave, WorkerDies, Cancel, ClearStale, CloseWave,
     CloseVerify, SetMode, Restart, vars
<1>14. Refused(r) => disk' = Recovered
  BY DEF Refused
<1> QED
  BY <1>2, <1>3, <1>4, <1>5, <1>6, <1>7, <1>8, <1>9, <1>10, <1>11, <1>12,
     <1>13, <1>14 DEF Next

(* With one request at a time tasks.json implements TaskLifecycle: no      *)
(* request, recovery, stale mark, closed stream or crash moves a work item *)
(* back from an accepted or dropped result, skips the review of an offered *)
(* one or restarts one that never failed.                                  *)
THEOREM LifecycleIsKept ==
  ASSUME NEW r, Request = {r} PROVE Spec => LifecycleSpec
<1> DEFINE stage == [t \in Task |-> StageOf[disk.status[t]]]
<1>1. \A v \in Status : StageOf[v] \in Lifecycle!Stage
  BY DEF StageOf, Status, Lifecycle!Stage
<1>2. Init => Lifecycle!Init
  <2>1. Init => \A t \in Task : StageOf[disk.status[t]] = "waiting"
    <3>1. StageOf["pending"] = "waiting"
      BY DEF StageOf
    <3>2. NewPlan.status = [t \in Task |-> "pending"]
      BY DEF NewPlan
    <3>3. Init => disk = NewPlan
      BY DEF Init
    <3> QED
      BY <3>1, <3>2, <3>3
  <2> QED
    BY <2>1 DEF Lifecycle!Init
<1>3. SerialInv(r) /\ SerialInv(r)' /\ [Next]_vars => [Lifecycle!Move]_stage
  <2> SUFFICES ASSUME SerialInv(r), SerialInv(r)', [Next]_vars
               PROVE  Lifecycle!Move
    OBVIOUS
  <2>1. \A t \in Task : disk'.status[t] \in Status
    BY DEF SerialInv, IInv, TypeOK, Document
  <2>2. \A t \in Task : MayBecome(disk.status[t], disk'.status[t])
    BY DiskMoves
  <2> QED
    BY <1>1, <2>1, <2>2 DEF MayBecome, Lifecycle!Move
<1>4. Spec => []SerialInv(r)
  BY Serial
<1> QED
  BY <1>2, <1>3, <1>4, PTL DEF Spec, LifecycleSpec, Lifecycle!Spec


-----------------------------------------------------------------------------
(* Nothing is left at work, if no write fails, no process dies, no stream  *)
(* is closed and nobody uses repair, whose hand-off does not save.         *)
Undisturbed ==
  /\ ~ IOFails /\ MaxRestarts = 0
  /\ Kinds \cap {"close", "repair"} = {}

(* Agents work for tasks of their request, and none of them dies.          *)
AgentsOwned(r) ==
  \A t \in Task : phase[r][t] # "none" => t \in mine[r] /\ phase[r][t] # "dead"

(* The entry points in use.                                                *)
InUse(r) ==
  /\ pc[r] # "leaving" /\ kind[r] \notin {"repair", "handoff"}
  /\ pc[r] # "idle" => kind[r] # "none"

(* tasks.json says of a task that someone is at work on it only while the  *)
(* request is that has to say otherwise.                                   *)
DiskClean(r) ==
  \A t \in Task : disk.status[t] \in AtWork =>
    /\ t \in mine[r]
    /\ pc[r] \in {"land", "work", "save"} \/ (pc[r] = "begin" /\ kind[r] = "wave")

(* So does the copy, until the agent of the task has come to a result.     *)
CopyClean(r) ==
  Holding(r) => \A t \in Task : mem[r].status[t] \in AtWork =>
    /\ t \in mine[r]
    /\ \/ pc[r] \in {"write", "begin", "land"}
       \/ pc[r] = "work" /\ phase[r][t] # "none"

CleanInv(r) == AgentsOwned(r) /\ InUse(r) /\ DiskClean(r) /\ CopyClean(r)

NobodyAtWork(s) == \A t \in Task : s.status[t] \notin AtWork

LEMMA CleanInit == ASSUME NEW r \in Request, Init PROVE CleanInv(r)
<1>1. /\ pc[r] = "idle" /\ kind[r] = "none" /\ disk = NewPlan
      /\ \A t \in Task : phase[r][t] = "none"
  BY DEF Init, Idle, Off
<1>2. NewPlan.status = [t \in Task |-> "pending"]
  BY DEF NewPlan
<1> QED
  BY <1>1, <1>2 DEF CleanInv, AgentsOwned, InUse, DiskClean, CopyClean, Holding,
     AtWork

(* An idle request has left nothing at work.                               *)
LEMMA IdleClean ==
  ASSUME NEW r \in Request, SerialInv(r), CleanInv(r), pc[r] = "idle"
  PROVE  /\ NobodyAtWork(disk) /\ disk \in Document
         /\ \A t \in Task : phase[r][t] = "none"
         /\ NobodyAtWork(Recovered) /\ Recovered \in Document
         /\ NobodyAtWork(RecoveredForWave)
         /\ \A S : NobodyAtWork(mark_stale_tasks(disk, S))
<1>1. NobodyAtWork(disk) /\ disk \in Document
  BY DEF CleanInv, DiskClean, NobodyAtWork, SerialInv, IInv, TypeOK
<1>2. \A t \in Task : phase[r][t] = "none"
  BY DEF SerialInv, Shape, AgentsAttend
<1>3. NobodyAtWork(Recovered) /\ Recovered \in Document
  <2>1. Recovered \in Document
    BY <1>1, SetType DEF Recovered, recover_stale_running, Status, Cause
  <2> QED
    BY <1>1, <2>1, Found DEF Recovered, NobodyAtWork, AtWork
<1>4. NobodyAtWork(RecoveredForWave)
  BY <1>1, FoundForWave DEF NobodyAtWork, AtWork
<1>5. ASSUME NEW S PROVE NobodyAtWork(mark_stale_tasks(disk, S))
  BY <1>1, Found DEF NobodyAtWork, AtWork
<1> QED
  BY <1>1, <1>2, <1>3, <1>4, <1>5

LEMMA CleanStart ==
  ASSUME NEW r \in Request, SerialInv(r), CleanInv(r),
         NEW k \in Kind \ {"none", "repair", "handoff"}, NEW S \in SUBSET Task,
         NEW s, NEW step \in {"write", "begin"},
         Start(r, k, S, s, step), NobodyAtWork(disk'),
         \A t \in Task : s.status[t] \in AtWork => t \in S
  PROVE  CleanInv(r)'
<1>1. /\ pc'[r] = step /\ kind'[r] = k /\ mine'[r] = S /\ mem'[r] = s
      /\ phase' = phase /\ pc[r] = "idle"
  BY DEF Start, Goto, SerialInv, IInv, TypeOK
<1>2. \A t \in Task : phase'[r][t] = "none"
  BY <1>1, IdleClean
<1> QED
  BY <1>1, <1>2 DEF CleanInv, AgentsOwned, InUse, DiskClean, CopyClean,
     NobodyAtWork

LEMMA CleanStarts ==
  ASSUME Undisturbed, NEW r \in Request, SerialInv(r), CleanInv(r),
         NEW t \in Task, StartsWith(r, t)
  PROVE  CleanInv(r)'
<1>1. pc[r] = "idle"
  BY DEF StartsWith, StartRetry, StartReverify, StartResume, StartRepair,
     StartVerify, StartApply, Start, Reject
<1> USE IdleClean, <1>1 DEF Status, Cause, Kind
<1>2. ASSUME NEW s \in Document, NobodyAtWork(s), NEW value \in Status,
             NEW why \in Cause
      PROVE  /\ Set(s, {t}, value, why) \in Document
             /\ \A u \in Task :
                  /\ Set(s, {t}, value, why).status[u] \in AtWork => u = t
                  /\ value \notin AtWork
                       => Set(s, {t}, value, why).status[u] \notin AtWork
  <2> HIDE DEF Status, Cause
  <2> QED
    BY <1>2, SetType DEF NobodyAtWork
<1>3. CASE StartRetry(r, t)
  <2> DEFINE s == Set(Recovered, {t}, "running", "none")
  <2>1. \A u \in Task : s.status[u] \in AtWork => u = t
    BY <1>2
  <2>2. Start(r, "retry", {t}, s, "begin") /\ disk' = Recovered
    BY <1>3 DEF StartRetry
  <2> HIDE DEF s
  <2> QED
    BY <2>1, <2>2, CleanStart
<1>4. CASE StartReverify(r, t)
  <2> DEFINE w == Set(Recovered, {t}, "applied", "none")
  <2>1. w \in Document /\ \A u \in Task : w.status[u] \in AtWork => u = t
    BY <1>2
  <2>2. /\ Start(r, "reverify", {t}, update_delivery_status(w), "begin")
        /\ disk' = Recovered
    BY <1>4 DEF StartReverify
  <2> HIDE DEF w
  <2>3. update_delivery_status(w).status = w.status
    BY <2>1, GateType
  <2> QED
    BY <2>1, <2>2, <2>3, CleanStart
<1>5. CASE StartResume(r, t)
  <2> DEFINE s == Set(Recovered, {t}, "running", "none")
  <2>1. \A u \in Task : s.status[u] \in AtWork => u = t
    BY <1>2
  <2>2. Start(r, "resume", {t}, s, "begin") /\ disk' = Recovered
    BY <1>5 DEF StartResume
  <2> HIDE DEF s
  <2> QED
    BY <2>1, <2>2, CleanStart
<1>6. ~ StartRepair(r, t)
  BY DEF StartRepair, Start, MaySend, Undisturbed
<1>7. CASE StartVerify(r, t)
  <2>1. NewPlan.status = [u \in Task |-> "pending"]
    BY DEF NewPlan
  <2> QED
    BY <1>7, <2>1, CleanStart DEF StartVerify, AtWork
<1>8. CASE StartApply(r, t)
  <2> DEFINE w == mark_stale_tasks(disk, stale)
  <2>1. w \in Document /\ NobodyAtWork(w)
    BY Found
  <2>2. /\ Start(r, "apply", {t}, Put(w, {t}, "applying"), "write")
        /\ disk' = disk
    BY <1>8 DEF StartApply
  <2> HIDE DEF w
  <2> DEFINE s == Put(w, {t}, "applying")
  <2>3. \A u \in Task : s.status[u] \in AtWork => u \in {t}
    BY <2>1, PutType DEF NobodyAtWork
  <2>4. Start(r, "apply", {t}, s, "write") /\ NobodyAtWork(disk')
    BY <2>2, IdleClean DEF NobodyAtWork, StartApply, Start
  <2> HIDE DEF s
  <2> QED
    BY <2>3, <2>4, CleanStart
<1>9. CASE Reject(r, t)
  <2>1. /\ disk' = Set(disk, {t}, "rejected", "none")
        /\ UNCHANGED <<mem, pc, kind, mine, phase>>
    BY <1>9 DEF Reject, agents
  <2>2. NobodyAtWork(disk')
    BY <1>2, <2>1 DEF NobodyAtWork, AtWork
  <2> QED
    BY <2>1, <2>2 DEF CleanInv, AgentsOwned, InUse, DiskClean, CopyClean,
       Holding, NobodyAtWork
<1> QED
  BY <1>3, <1>4, <1>5, <1>6, <1>7, <1>8, <1>9 DEF StartsWith

LEMMA CleanWave ==
  ASSUME NEW r \in Request, SerialInv(r), CleanInv(r), NEW S \in SUBSET Task,
         StartWave(r, S)
  PROVE  CleanInv(r)'
<1> DEFINE f == RecoveredForWave
           w == Refuse(f, ready_tasks(f) \ S)
           s == Put(w, S, "running")
<1>1. /\ Start(r, "wave", S, s, "write") /\ disk' = disk /\ pc[r] = "idle"
      /\ S # {}
  BY DEF StartWave, Start
<1>2. NobodyAtWork(disk) /\ NobodyAtWork(f) /\ disk \in Document
  BY <1>1, IdleClean
<1>3. f \in Document
  BY <1>1, <1>2, FoundForWave
<1> HIDE DEF f
<1>4. w \in Document /\ NobodyAtWork(w)
  BY <1>2, <1>3, SetType DEF Refuse, Status, Cause, NobodyAtWork, AtWork
<1>5. \A t \in Task : s.status[t] \in AtWork => t \in S
  <2> HIDE DEF w
  <2> QED
    BY <1>4, PutType DEF Status, NobodyAtWork
<1> QED
  BY <1>1, <1>2, <1>5, CleanStart DEF Kind


LEMMA CleanWriteBegin ==
  ASSUME NEW r \in Request, SerialInv(r), CleanInv(r), Write(r) \/ Begin(r)
  PROVE  CleanInv(r)'
<1>1. /\ pc \in [Request -> Step] /\ kind[r] \in Kind
      /\ phase \in [Request -> [Task -> Phase]]
  BY DEF SerialInv, IInv, TypeOK
<1>2. \A t \in Task : phase[r][t] = "none" \/ pc[r] \in {"work", "leaving"}
  BY DEF SerialInv, Shape, AgentsAttend
<1> USE DEF CleanInv, AgentsOwned, InUse, DiskClean, CopyClean, Holding
<1>3. CASE Write(r)
  <2>1. /\ pc[r] = "write" /\ disk' = mem[r] /\ UNCHANGED <<mem, kind, mine>>
        /\ \/ kind[r] = "wave" /\ pc'[r] = "begin"
           \/ kind[r] = "reverify" /\ pc'[r] = "read"
           \/ kind[r] = "apply" /\ pc'[r] = "land"
           \/ /\ kind[r] \in {"retry", "resume", "verify"}
              /\ pc'[r] = "work"
    BY <1>1, <1>3 DEF Write, Goto, Kind
  <2>2. \A t \in Task :
          \/ /\ phase'[r][t] = "none"
             /\ t \notin mine[r] \/ kind[r] \notin {"retry", "resume", "verify"}
          \/ t \in mine[r] /\ phase'[r][t] \in {"loop", "check"}
    BY <1>1, <1>3 DEF Write
  <2>3. \A t \in Task : mem[r].status[t] \in AtWork => t \in mine[r]
    BY <2>1
  <2>4. kind[r] = "reverify" => NobodyAtWork(mem[r])
    BY <2>1, <2>3 DEF SerialInv, Shape, Announced, Target, NobodyAtWork, AtWork
  <2> QED
    BY <2>1, <2>2, <2>3, <2>4 DEF NobodyAtWork
<1>4. CASE Begin(r)
  <2>1. /\ pc[r] = "begin" /\ UNCHANGED <<disk, mem, kind, mine>>
        /\ \/ kind[r] = "wave" /\ pc'[r] = "work"
           \/ kind[r] = "verify" /\ pc'[r] = "read"
           \/ kind[r] \notin {"wave", "verify"} /\ pc'[r] = "write"
    BY <1>1, <1>4 DEF Begin, Goto
  <2>2. \A t \in Task :
          \/ phase'[r][t] = "none" /\ (t \notin mine[r] \/ kind[r] # "wave")
          \/ t \in mine[r] /\ phase'[r][t] = "loop"
    BY <1>1, <1>4 DEF Begin
  <2> QED
    BY <2>1, <2>2
<1> QED
  BY <1>3, <1>4

LEMMA CleanRead ==
  ASSUME NEW r \in Request, SerialInv(r), CleanInv(r), Read(r)
  PROVE  CleanInv(r)'
<1>1. /\ pc[r] = "read" /\ kind[r] \in {"verify", "reverify"}
      /\ UNCHANGED <<disk, mine, phase>>
  BY ReadStep DEF agents
<1>2. \A t \in Task : disk.status[t] \notin AtWork /\ phase[r][t] = "none"
  BY <1>1 DEF CleanInv, DiskClean, SerialInv, Shape, AgentsAttend
<1> USE DEF CleanInv, AgentsOwned, InUse, DiskClean, CopyClean, Holding
<1>3. CASE pc'[r] = "finish" /\ UNCHANGED <<mem, kind>>
  BY <1>1, <1>2, <1>3
<1>4. ASSUME NEW t \in Task, NEW s \in Document, mine[r] = {t},
             s = disk \/ s = register_documentation_task(disk),
             mem'[r] = update_delivery_status(Put(s, {t}, "verifying")),
             pc'[r] = "write", kind'[r] = "verify"
      PROVE  CleanInv(r)'
  <2>1. s.status = disk.status
    BY <1>4, RegisterType DEF SerialInv, IInv, TypeOK
  <2>2. \A u \in Task : mem'[r].status[u] = IF u = t THEN "verifying"
                                            ELSE disk.status[u]
    BY <1>4, <2>1, PutType, GateType DEF Status
  <2> QED
    BY <1>1, <1>2, <1>4, <2>2, SMTT(30)
<1> HIDE DEF CleanInv, AgentsOwned, InUse, DiskClean, CopyClean, Holding
<1>5. CASE \E t \in Task, s \in Document :
             /\ mine[r] = {t} /\ disk.status[t] = "applied"
             /\ s = disk \/ s = register_documentation_task(disk)
             /\ mem'[r] = update_delivery_status(Put(s, {t}, "verifying"))
             /\ pc'[r] = "write" /\ kind'[r] = "verify"
  BY <1>4, <1>5, Zenon
<1>6. \/ pc'[r] = "finish" /\ UNCHANGED <<mem, kind>>
      \/ \E t \in Task, s \in Document :
           /\ mine[r] = {t} /\ disk.status[t] = "applied"
           /\ s = disk \/ s = register_documentation_task(disk)
           /\ mem'[r] = update_delivery_status(Put(s, {t}, "verifying"))
           /\ pc'[r] = "write" /\ kind'[r] = "verify"
  BY ReadStep
<1> QED
  BY <1>3, <1>5, <1>6, Zenon

(* What is saved is clean.                                                 *)
LEMMA CleanSaveFinish ==
  ASSUME NEW r \in Request, SerialInv(r), CleanInv(r), Save(r) \/ Finish(r)
  PROVE  CleanInv(r)'
<1>1. /\ pc \in [Request -> Step] /\ mem[r] \in Document
      /\ kind \in [Request -> Kind] /\ mine \in [Request -> SUBSET Task]
  BY DEF SerialInv, IInv, TypeOK
<1>2. phase' = phase /\ \A t \in Task : phase[r][t] = "none"
  BY DEF Save, Finish, Worked, SerialInv, Shape, AgentsAttend, Off
<1> USE DEF CleanInv, AgentsOwned, InUse, DiskClean, CopyClean, Holding
<1>3. CASE Save(r)
  <2>1. pc[r] \in {"work", "save"}
    BY <1>3 DEF Save, Worked
  <2>2. NobodyAtWork(mem[r])
    BY <1>2, <2>1 DEF NobodyAtWork
  <2>3. disk'.status = mem[r].status
    BY <1>1, <1>3, CompletedType DEF Save
  <2>4. NobodyAtWork(disk')
    BY <2>2, <2>3 DEF NobodyAtWork
  <2>5. \/ pc'[r] = "idle" /\ kind'[r] = "none"
        \/ pc'[r] = "finish" /\ kind'[r] = kind[r]
    BY <1>1, <1>3 DEF Save, Leave, Goto
  <2> QED
    BY <1>2, <2>1, <2>4, <2>5 DEF NobodyAtWork
<1>4. CASE Finish(r)
  <2>1. disk' = disk
    BY <1>4 DEF Finish
  <2>2. CASE Goto(r, "save") /\ UNCHANGED <<mem, kind, mine, stop>>
    <3>1. pc'[r] = "save" /\ pc[r] \in {"work", "finish"}
      BY <1>1, <1>4, <2>2 DEF Finish, Worked, Goto
    <3>2. pc[r] = "work"
      BY <1>1, <1>4, <2>2, <3>1 DEF Finish, Leave, Goto, SerialInv, Shape,
         Written
    <3> QED
      BY <1>2, <2>1, <2>2, <3>1, <3>2
  <2>3. CASE Leave(r)
    <3>1. pc'[r] = "idle" /\ kind'[r] = "none"
      BY <1>1, <2>3 DEF Leave, Goto
    <3>2. pc[r] = "finish"
      <4>1. pc[r] = "finish" \/ kind[r] \in FinishesFirst \ {"handoff"}
        BY <1>4 DEF Finish, FinishesFirst
      <4>2. kind[r] \in FinishesFirst \ {"handoff"} => Goto(r, "save")
        BY <1>4 DEF Finish
      <4> QED
        BY <1>1, <3>1, <4>1, <4>2 DEF Goto
    <3> QED
      BY <1>2, <2>1, <3>1, <3>2
  <2> QED
    BY <1>4, <2>2, <2>3 DEF Finish
<1> QED
  BY <1>3, <1>4

LEMMA CleanApply ==
  ASSUME Undisturbed, NEW r \in Request, SerialInv(r), CleanInv(r), Apply(r)
  PROVE  CleanInv(r)'
<1>1. ~ HunkRaises(r)
  BY DEF HunkRaises, Undisturbed
<1>2. pc[r] = "land" /\ kind[r] = "apply" /\ UNCHANGED <<disk, phase>>
  BY ApplyStep
<1>3. pc' = [pc EXCEPT ![r] = "save"] /\ UNCHANGED <<kind, mine>>
  BY <1>1 DEF Apply, ApplyAll, ApplySome, ApplyNoHunk, ApplyNone, ApplyFails,
     Goto, agents
<1>4. pc'[r] = "save"
  BY <1>3 DEF SerialInv, IInv, TypeOK
<1>5. PICK value \in {"applied", "partially_applied", "rejected", "failed"} :
        \A t \in Task : mem'[r].status[t]
          = IF t \in mine[r] THEN value ELSE mem[r].status[t]
  <2>1. ~ Leave(r)
    BY <1>4 DEF SerialInv, IInv, TypeOK, Leave, Goto
  <2> HIDE DEF Decided
  <2> QED
    BY <2>1, ApplyStep
<1> USE DEF CleanInv, AgentsOwned, InUse, DiskClean, CopyClean, Holding
<1>6. NobodyAtWork(mem[r])'
  BY <1>2, <1>5 DEF NobodyAtWork, AtWork
<1>7. /\ pc[r] = "land" /\ pc'[r] = "save" /\ phase' = phase /\ disk' = disk
      /\ mine' = mine /\ kind' = kind
  BY <1>2, <1>3, <1>4
<1>8. AgentsOwned(r)' /\ InUse(r)' /\ DiskClean(r)'
  BY <1>7
<1>9. CopyClean(r)'
  BY <1>6, <1>7 DEF NobodyAtWork
<1> QED
  BY <1>8, <1>9

LEMMA CleanAgent ==
  ASSUME NEW r \in Request, SerialInv(r), CleanInv(r),
         NEW t \in Task, Agent(r, t)
  PROVE  CleanInv(r)'
<1>1. /\ UNCHANGED <<disk, pc, mine>>
      /\ phase[r][t] = "check" \/ phase[r][t] \in Generating
      /\ kind[r] # "repair" => kind' = kind
      /\ \A u \in Task \ {t} : /\ mem'[r].status[u] = mem[r].status[u]
                               /\ phase'[r][u] = phase[r][u]
      /\ \/ phase'[r][t] \in Generating
         \/ /\ phase'[r][t] = "none"
            /\ mem'[r].status[t] \notin AtWork
  <2>1. IInv
    BY DEF SerialInv
  <2>2. "loop" \in Generating /\ "auto" \in Generating
    BY DEF Generating
  <2> QED
    BY <2>1, <2>2, AgentStep DEF AtWork
<1>2. t \in mine[r] /\ pc[r] = "work"
  BY <1>1 DEF CleanInv, AgentsOwned, InUse, SerialInv, Shape, AgentsAttend,
     Generating
<1>3. AgentsOwned(r)' /\ InUse(r)' /\ DiskClean(r)'
  BY <1>1, <1>2 DEF CleanInv, AgentsOwned, InUse, DiskClean, Generating
<1>4. CopyClean(r)'
  BY <1>1, <1>2 DEF CleanInv, CopyClean, Holding, Generating
<1> QED
  BY <1>3, <1>4 DEF CleanInv


(* Idle threads that write tasks.json at once.                             *)
LEMMA CleanFiles ==
  ASSUME NEW r \in Request, SerialInv(r), CleanInv(r),
         \/ WaveWaits(r) \/ Refused(r)
         \/ \E o \in DOCUMENTATION_STATUSES : SyncDocs(r, o)
         \/ \E S \in SUBSET Task : EditArchitecture(r, S)
  PROVE  CleanInv(r)'
<1>1. pc[r] = "idle" /\ UNCHANGED <<mem, pc, kind, mine, phase>>
  BY DEF WaveWaits, Refused, SyncDocs, EditArchitecture, agents
<1>2. NobodyAtWork(disk) /\ disk \in Document
  BY <1>1, IdleClean
<1>3. NobodyAtWork(disk')
  <2>1. CASE WaveWaits(r)
    <3> DEFINE f == RecoveredForWave
    <3>1. NobodyAtWork(f)
      BY <1>1, IdleClean
    <3>2. ASSUME NEW t \in Task PROVE f \in Document
      BY <1>2, FoundForWave
    <3>3. disk' = Refuse(f, ready_tasks(f))
      BY <2>1 DEF WaveWaits
    <3> HIDE DEF f
    <3> DEFINE late == ready_tasks(f)
    <3>4. disk' = Set(f, late, "pending", "other")
      BY <3>3 DEF Refuse
    <3> HIDE DEF late
    <3>5. \A u \in Task : disk'.status[u] \in {f.status[u], "pending"}
      BY <3>2, <3>4, SetType DEF Status, Cause
    <3> QED
      BY <3>1, <3>5 DEF NobodyAtWork, AtWork
  <2>2. CASE Refused(r)
    BY <1>1, <2>2, IdleClean DEF Refused
  <2>3. ASSUME NEW o \in DOCUMENTATION_STATUSES, SyncDocs(r, o)
        PROVE  NobodyAtWork(disk')
    <3> DEFINE u == [disk EXCEPT !.documentation = o]
    <3>1. u \in Document /\ u.status = disk.status
      BY <1>2 DEF Document
    <3>2. disk' = update_delivery_status(u)
      BY <2>3 DEF SyncDocs
    <3> HIDE DEF u
    <3> QED
      BY <1>2, <3>1, <3>2, GateType DEF NobodyAtWork
  <2>4. ASSUME NEW S \in SUBSET Task, EditArchitecture(r, S)
        PROVE  NobodyAtWork(disk')
    <3>1. /\ update_delivery_status(disk) \in Document
          /\ update_delivery_status(disk).status = disk.status
      BY <1>2, GateType
    <3>2. disk'.status = update_delivery_status(disk).status
      BY <2>4, <3>1 DEF EditArchitecture, Document
    <3> QED
      BY <1>2, <3>1, <3>2 DEF NobodyAtWork
  <2> QED
    BY <2>1, <2>2, <2>3, <2>4
<1> QED
  BY <1>1, <1>3 DEF CleanInv, AgentsOwned, InUse, DiskClean, CopyClean,
     Holding, NobodyAtWork

LEMMA CleanNext ==
  ASSUME Undisturbed, NEW r, Request = {r}, SerialInv(r), CleanInv(r),
         [Next]_vars
  PROVE  CleanInv(r)'
<1>1. ASSUME Proceed(r) PROVE CleanInv(r)'
  <2>1. ~ Gone(r)
    BY DEF Gone, CleanInv, InUse
  <2> QED
    BY <1>1, <2>1, CleanWriteBegin, CleanRead, CleanSaveFinish, CleanApply,
       CleanAgent DEF Proceed
<1>2. ASSUME NEW t \in Task, StartsWith(r, t) PROVE CleanInv(r)'
  BY <1>2, CleanStarts
<1>3. ASSUME NEW S \in SUBSET Task, StartWave(r, S) PROVE CleanInv(r)'
  BY <1>3, CleanWave
<1>4. ~ CloseWave(r) /\ ~ CloseVerify(r) /\ ~ Restart
  BY DEF CloseWave, CloseVerify, Restart, Undisturbed, SerialInv, IInv, TypeOK
<1>5. ~ \E t \in Task : WorkerDies(r, t)
  BY DEF WorkerDies, Undisturbed
<1>6. ASSUME \/ \E t \in Task : Cancel(t) \/ ClearStale(t)
             \/ \E m \in {"review", "auto"} : SetMode(m)
             \/ UNCHANGED vars
      PROVE  CleanInv(r)'
  <2>1. UNCHANGED <<disk, mem, pc, kind, mine>> /\ phase' = phase
    BY <1>6 DEF Cancel, ClearStale, SetMode, vars, agents
  <2> QED
    BY <2>1 DEF CleanInv, AgentsOwned, InUse, DiskClean, CopyClean, Holding
<1> QED
  BY <1>1, <1>2, <1>3, <1>4, <1>5, <1>6, CleanFiles DEF Next

(* With one request at a time that nothing disturbs and that is no repair, *)
(* every answered request leaves tasks.json without a task that somebody   *)
(* is said to be at work on: waves, retries, resumed tasks, verifications, *)
(* patch decisions and refusals say of all their tasks what became of      *)
(* them.                                                                   *)
THEOREM RestsClean ==
  ASSUME NEW r, Request = {r}, Undisturbed PROVE Spec => []RestIsClean
<1>1. Init => CleanInv(r)
  BY CleanInit
<1>2. SerialInv(r) /\ CleanInv(r) /\ [Next]_vars => CleanInv(r)'
  BY CleanNext
<1>3. CleanInv(r) => RestIsClean
  BY DEF CleanInv, DiskClean, RestIsClean
<1>4. Spec => []SerialInv(r)
  BY Serial
<1> QED
  BY <1>1, <1>2, <1>3, <1>4, PTL DEF Spec


-----------------------------------------------------------------------------
(* A ready delivery is documented, if nobody edits the architecture and    *)
(* every result is reviewed.                                               *)
Reviewed == Kinds \cap {"edit", "mode"} = {}

(* A delivery is called ready only while the gate is open.                 *)
Honest(s) == s.delivery = "ready" => Gate(s)

(* What the documents do not cover keeps the gate closed: they are not     *)
(* current, or a task outside S was cut off while it was applied.          *)
Covered(s, S, uncovered) ==
  \/ uncovered = {}
  \/ s.documentation \notin DocumentsCurrent
  \/ \E t \in Task \ S : s.status[t] = "applying"

Sincere(s, S, uncovered) ==
  s \in Document /\ Honest(s) /\ Covered(s, S, uncovered)

(* With every result reviewed an agent generates or verifies, for a task   *)
(* of its request that is not done.                                        *)
AgentsReviewed(r) ==
  /\ mode = "review"
  /\ pc[r] # "idle" => mine[r] # {}
  /\ \A t \in Task :
       /\ phase[r][t] \in {"none", "loop", "check", "dead"}
       /\ phase[r][t] # "none" => t \in mine[r]
       /\ pc[r] = "work" /\ phase[r][t] = "loop"
            => mem[r].status[t] = "running"
       /\ pc[r] = "work" /\ phase[r][t] = "check"
            => mem[r].status[t] = "verifying"
       /\ pc[r] = "land" /\ t \in mine[r] => mem[r].status[t] = "applying"

DocsInv(r) ==
  /\ AgentsReviewed(r)
  /\ Sincere(disk, {}, drift)
  /\ Holding(r) => Sincere(mem[r], mine[r], drift)

(* Tasks that are not done, nor cut off, can move.                         *)
Movable == Status \ (TASK_DONE_STATUSES \cup {"applying"})

LEMMA SetSincere ==
  ASSUME NEW s, NEW A, NEW D, Sincere(s, A, D), NEW S, NEW value \in Status,
         NEW why \in Cause, \A t \in S \cap Task : s.status[t] \in Movable
  PROVE  /\ Sincere(Set(s, S, value, why), A \cup S, D)
         /\ Sincere(Set(s, S, value, why), A, D)
<1> DEFINE w == Set(s, S, value, why)
<1>1. /\ s \in Document /\ w \in Document
      /\ w.documentation = s.documentation /\ w.delivery = s.delivery
      /\ \A t \in Task : w.status[t] = IF t \in S THEN value ELSE s.status[t]
  BY SetType, SetKeeps DEF Sincere
<1> HIDE DEF w
<1>2. Honest(w)
  <2> SUFFICES ASSUME w.delivery = "ready" PROVE Gate(w)
    BY DEF Honest
  <2>1. AllDone(s) /\ s.documentation \in DocumentsCurrent
    BY <1>1 DEF Sincere, Honest, Gate
  <2>2. \A t \in Task : t \notin S
    BY <2>1 DEF AllDone, Movable
  <2> QED
    BY <1>1, <2>1, <2>2 DEF Gate, AllDone
<1>3. Covered(w, A \cup S, D) /\ Covered(w, A, D)
  BY <1>1 DEF Sincere, Covered, Movable
<1> QED
  BY <1>1, <1>2, <1>3 DEF Sincere, w

LEMMA PutSincere ==
  ASSUME NEW s, NEW A, NEW D, Sincere(s, A, D), NEW S, NEW value \in Status,
         \A t \in S \cap Task : s.status[t] \in Movable
  PROVE  Sincere(Put(s, S, value), A \cup S, D)
<1> DEFINE w == Put(s, S, value)
<1>1. /\ s \in Document /\ w \in Document
      /\ w.documentation = s.documentation /\ w.delivery = s.delivery
      /\ \A t \in Task : w.status[t] = IF t \in S THEN value ELSE s.status[t]
  BY PutType DEF Sincere
<1> HIDE DEF w
<1>2. Honest(w)
  <2> SUFFICES ASSUME w.delivery = "ready" PROVE Gate(w)
    BY DEF Honest
  <2>1. AllDone(s) /\ s.documentation \in DocumentsCurrent
    BY <1>1 DEF Sincere, Honest, Gate
  <2>2. \A t \in Task : t \notin S
    BY <2>1 DEF AllDone, Movable
  <2> QED
    BY <1>1, <2>1, <2>2 DEF Gate, AllDone
<1>3. Covered(w, A \cup S, D)
  BY <1>1 DEF Sincere, Covered, Movable
<1> QED
  BY <1>1, <1>2, <1>3 DEF Sincere, w

(* Deriving the delivery status makes any copy honest.                     *)
LEMMA GateSincere ==
  ASSUME NEW s \in Document, NEW A, NEW D, Covered(s, A, D)
  PROVE  Sincere(update_delivery_status(s), A, D)
<1> DEFINE w == update_delivery_status(s)
<1>1. /\ w \in Document /\ w.status = s.status
      /\ w.documentation = s.documentation
      /\ w.delivery = "ready" => Gate(s)
  BY GateType
<1> HIDE DEF w
<1> QED
  BY <1>1 DEF Sincere, Honest, Gate, AllDone, Covered, w

LEMMA RegisterSincere ==
  ASSUME NEW s \in Document, NEW A, NEW D
  PROVE  Sincere(register_documentation_task(s), A, D)
BY RegisterType DEF Sincere, Honest, Covered, DocumentsCurrent

LEMMA CompletedSincere ==
  ASSUME NEW s, NEW A, NEW D, Sincere(s, A, D)
  PROVE  Sincere(Final(s), A, D)
<1> DEFINE w == Final(s)
<1>1. /\ w \in Document /\ w.status = s.status
      /\ \/ /\ w.documentation = s.documentation
            /\ w.delivery = "ready" => Gate(s)
         \/ w.documentation = "pending" /\ w.delivery = "blocked"
  BY CompletedType DEF Sincere
<1> HIDE DEF w
<1> QED
  BY <1>1
  DEF Sincere, Honest, Gate, AllDone, Covered, DocumentsCurrent, w

LEMMA SincereLess ==
  ASSUME NEW s, NEW A, NEW D, Sincere(s, A, D) PROVE Sincere(s, {}, D)
BY DEF Sincere, Covered

LEMMA FoundSincere ==
  ASSUME NEW s, NEW A, NEW D, Sincere(s, A, D), NEW live
  PROVE  /\ Sincere(recover_stale_running(s, live), A, D)
         /\ Sincere(mark_stale_tasks(s, live), A, D)
<1> DEFINE Z == Zombies(s, live)
           M == { u \in live : s.status[u] \in {"pending", "running", "review"} }
<1>1. \A t \in Z \cap Task : s.status[t] \in Movable
  BY DEF Zombies, Movable, Status, TASK_DONE_STATUSES, Landed
<1>2. \A t \in M \cap Task : s.status[t] \in Movable
  BY DEF Movable, Status, TASK_DONE_STATUSES, Landed
<1>3. /\ "pending" \in Status /\ "blocked" \in Status
      /\ "interrupted" \in Cause /\ "stale" \in Cause
  BY DEF Status, Cause
<1> HIDE DEF Z, M
<1>4. Sincere(Set(s, Z, "pending", "interrupted"), A, D)
  BY <1>1, <1>3, SetSincere
<1>5. Sincere(Set(s, M, "blocked", "stale"), A, D)
  BY <1>2, <1>3, SetSincere
<1> QED
  BY <1>4, <1>5 DEF recover_stale_running, mark_stale_tasks, Z, M

LEMMA RecoveredSincere ==
  ASSUME Sincere(disk, {}, drift)
  PROVE  Sincere(Recovered, {}, drift) /\ Sincere(RecoveredForWave, {}, drift)
BY FoundSincere DEF Recovered, RecoveredForWave


LEMMA DocsInit == ASSUME NEW r \in Request, Init PROVE DocsInv(r)
<1>1. /\ pc[r] = "idle" /\ disk = NewPlan /\ drift = {} /\ mode = "review"
      /\ \A t \in Task : phase[r][t] = "none"
  BY DEF Init, Idle, Off
<1>2. NewPlan \in Document
  BY NewPlanSound DEF Sound
<1>3. NewPlan.delivery # "ready"
  BY DEF NewPlan
<1> QED
  BY <1>1, <1>2, <1>3 DEF DocsInv, AgentsReviewed, Sincere, Honest, Covered,
     Holding

LEMMA DocsStart ==
  ASSUME NEW r \in Request, SerialInv(r), DocsInv(r), NEW k \in Kind,
         NEW S \in SUBSET Task, NEW s, NEW step \in {"write", "begin"},
         Start(r, k, S, s, step), S # {}, Sincere(disk', {}, drift),
         \/ Sincere(s, S, drift)
         \/ k = "verify" /\ step = "begin"
  PROVE  DocsInv(r)'
<1>1. /\ pc'[r] = step /\ kind'[r] = k /\ mine'[r] = S /\ mem'[r] = s
      /\ phase' = phase /\ pc[r] = "idle" /\ mode' = mode /\ drift' = drift
  BY DEF Start, Goto, settings, project, SerialInv, IInv, TypeOK
<1>2. \A t \in Task : phase'[r][t] = "none"
  BY <1>1 DEF SerialInv, Shape, AgentsAttend
<1>3. AgentsReviewed(r)'
  BY <1>1, <1>2 DEF DocsInv, AgentsReviewed
<1>4. Holding(r)' => Sincere(s, S, drift)
  BY <1>1 DEF Holding
<1> QED
  BY <1>1, <1>3, <1>4 DEF DocsInv

LEMMA DocsStarts ==
  ASSUME NEW r \in Request, SerialInv(r), DocsInv(r), NEW t \in Task,
         StartsWith(r, t)
  PROVE  DocsInv(r)'
<1>1. Sincere(disk, {}, drift) /\ Sincere(Recovered, {}, drift)
  BY RecoveredSincere DEF DocsInv
<1>2. disk \in Document /\ Recovered \in Document
  BY <1>1 DEF Sincere
<1>3. \/ Recovered.status[t] = disk.status[t]
      \/ disk.status[t] = "running" /\ Recovered.status[t] = "pending"
  BY <1>2, Found DEF Recovered
<1> USE DEF Status, Cause, Kind
<1>4. {"pending", "running", "review", "failed", "blocked",
       "partially_applied"} \subseteq Movable
  BY DEF Movable, TASK_DONE_STATUSES, Landed
<1>5. ASSUME NEW s, Sincere(s, {}, drift), s.status[t] \in Movable,
             NEW value \in Status, NEW why \in Cause
      PROVE  /\ Sincere(Set(s, {t}, value, why), {t}, drift)
             /\ Sincere(Set(s, {t}, value, why), {}, drift)
             /\ Sincere(Put(s, {t}, value), {t}, drift)
  <2> HIDE DEF Status, Cause
  <2>1. \A u \in {t} \cap Task : s.status[u] \in Movable
    BY <1>5
  <2>2. {} \cup {t} = {t}
    OBVIOUS
  <2> QED
    BY <1>5, <2>1, <2>2, SetSincere, PutSincere
<1>6. CASE StartRetry(r, t)
  <2> DEFINE s == Set(Recovered, {t}, "running", "none")
  <2>1. /\ Start(r, "retry", {t}, s, "begin") /\ disk' = Recovered
        /\ disk.status[t] \in {"failed", "running", "pending", "blocked"}
    BY <1>6 DEF StartRetry, Retryable
  <2>2. Sincere(s, {t}, drift)
    BY <1>1, <1>3, <1>4, <1>5, <2>1
  <2> HIDE DEF s
  <2> QED
    BY <1>1, <2>1, <2>2, DocsStart
<1>7. CASE StartReverify(r, t)
  <2> DEFINE w == Set(Recovered, {t}, "applied", "none")
             s == update_delivery_status(w)
  <2>1. /\ Start(r, "reverify", {t}, s, "begin") /\ disk' = Recovered
        /\ disk.status[t] = "failed"
    BY <1>7 DEF StartReverify
  <2>2. Sincere(w, {t}, drift)
    BY <1>1, <1>3, <1>4, <1>5, <2>1
  <2>3. Sincere(s, {t}, drift)
    <3> HIDE DEF w
    <3> QED
      BY <2>2, GateSincere DEF Sincere
  <2> HIDE DEF s
  <2> QED
    BY <1>1, <2>1, <2>3, DocsStart
<1>8. CASE StartResume(r, t)
  <2> DEFINE s == Set(Recovered, {t}, "running", "none")
  <2>1. /\ Start(r, "resume", {t}, s, "begin") /\ disk' = Recovered
        /\ Recovered.status[t] \in {"failed", "pending"}
    BY <1>8 DEF StartResume
  <2>2. Sincere(s, {t}, drift)
    BY <1>1, <1>4, <1>5, <2>1
  <2> HIDE DEF s
  <2> QED
    BY <1>1, <2>1, <2>2, DocsStart
<1>9. CASE StartRepair(r, t)
  <2> DEFINE w == Set(disk, {t}, "running", "none")
             s == [w EXCEPT !.repairs[t] = @ + 1]
  <2>1. /\ Start(r, "repair", {t}, s, "write") /\ disk' = disk
        /\ disk.status[t] = "failed" /\ disk.repairs[t] < MaxRepairs
    BY <1>9 DEF StartRepair
  <2>2. Sincere(w, {t}, drift) /\ w \in Document
    BY <1>1, <1>4, <1>5, <2>1 DEF Sincere
  <2>3. w.repairs = disk.repairs
    BY <1>2 DEF Set, Document
  <2>4. w.repairs[t] + 1 \in 0..MaxRepairs
    BY <1>2, <2>1, <2>3, StateAssumption DEF Document
  <2>5. Sincere(s, {t}, drift)
    <3> HIDE DEF w
    <3>1. /\ s \in Document /\ s.status = w.status /\ s.delivery = w.delivery
          /\ s.documentation = w.documentation
      BY <2>2, <2>4 DEF Document
    <3> HIDE DEF s
    <3> QED
      BY <2>2, <3>1 DEF Sincere, Honest, Gate, AllDone, Covered
  <2> HIDE DEF s
  <2> QED
    BY <1>1, <2>1, <2>5, DocsStart
<1>10. CASE StartVerify(r, t)
  BY <1>1, <1>10, DocsStart DEF StartVerify
<1>11. CASE StartApply(r, t)
  <2> DEFINE w == mark_stale_tasks(disk, stale)
             s == Put(w, {t}, "applying")
  <2>1. /\ Start(r, "apply", {t}, s, "write") /\ disk' = disk
        /\ w.status[t] \in {"review", "partially_applied"}
    BY <1>11 DEF StartApply
  <2>2. Sincere(w, {}, drift)
    BY <1>1, FoundSincere
  <2>3. Sincere(s, {t}, drift)
    <3> HIDE DEF w
    <3> QED
      BY <1>4, <1>5, <2>1, <2>2
  <2> HIDE DEF s
  <2> QED
    BY <1>1, <2>1, <2>3, DocsStart
<1>12. CASE Reject(r, t)
  <2>1. /\ disk' = Set(disk, {t}, "rejected", "none") /\ pc[r] = "idle"
        /\ disk.status[t] \in {"review", "pending", "blocked"}
        /\ UNCHANGED <<mem, pc, kind, mine, phase, mode, drift>>
    BY <1>12 DEF Reject, agents, settings, project
  <2>2. Sincere(disk', {}, drift)
    BY <1>1, <1>4, <1>5, <2>1
  <2> QED
    BY <2>1, <2>2 DEF DocsInv, AgentsReviewed, Holding
<1> QED
  BY <1>6, <1>7, <1>8, <1>9, <1>10, <1>11, <1>12 DEF StartsWith

LEMMA DocsWave ==
  ASSUME NEW r \in Request, SerialInv(r), DocsInv(r), NEW S \in SUBSET Task,
         StartWave(r, S)
  PROVE  DocsInv(r)'
<1> DEFINE f == RecoveredForWave
           ready == ready_tasks(f)
           w == Refuse(f, ready \ S)
           s == Put(w, S, "running")
<1>1. /\ Start(r, "wave", S, s, "write") /\ disk' = disk
      /\ S # {} /\ S \subseteq ready
  BY DEF StartWave
<1>2. Sincere(disk, {}, drift) /\ Sincere(f, {}, drift)
  BY RecoveredSincere DEF DocsInv
<1>3. \A t \in ready : t \in Task /\ f.status[t] = "pending"
  BY DEF ready_tasks
<1>4. "pending" \in Movable /\ "pending" \in Status /\ "other" \in Cause
      /\ "running" \in Status
  BY DEF Movable, Status, Cause, TASK_DONE_STATUSES, Landed
<1> HIDE DEF f, ready
<1>5. Sincere(w, {}, drift)
  BY <1>2, <1>3, <1>4, SetSincere DEF Refuse
<1>6. \A t \in S : w.status[t] = "pending"
  BY <1>1, <1>2, <1>3, <1>4, SetType DEF Refuse, Sincere
<1> HIDE DEF w
<1>7. Sincere(s, {} \cup S, drift)
  BY <1>4, <1>5, <1>6, PutSincere
<1>8. Sincere(s, S, drift)
  BY <1>7
<1> HIDE DEF s
<1> QED
  BY <1>1, <1>2, <1>8, DocsStart DEF Kind


LEMMA DocsWriteBegin ==
  ASSUME NEW r \in Request, SerialInv(r), DocsInv(r), Write(r) \/ Begin(r)
  PROVE  DocsInv(r)'
<1>1. /\ pc \in [Request -> Step] /\ mine[r] \subseteq Task
      /\ phase \in [Request -> [Task -> Phase]]
  BY DEF SerialInv, IInv, TypeOK
<1>2. \A t \in mine[r] :
        pc[r] = "write" \/ (pc[r] = "begin" /\ kind[r] # "verify")
          => mem[r].status[t] = Target(kind[r])
  BY DEF SerialInv, Shape, Announced
<1>3. /\ mode' = mode /\ drift' = drift /\ mem' = mem /\ mine' = mine
      /\ kind' = kind /\ pc[r] \in {"write", "begin"}
      /\ Write(r) => pc[r] = "write" /\ disk' = mem[r]
      /\ Begin(r) => pc[r] = "begin" /\ disk' = disk
  BY DEF Write, Begin, settings, project
<1>4. \A t \in Task :
        \/ phase'[r][t] = "none"
        \/ /\ t \in mine[r] /\ phase'[r][t] = "loop"
           /\ kind[r] \in {"retry", "resume", "wave", "repair"}
        \/ t \in mine[r] /\ phase'[r][t] = "check" /\ kind[r] = "verify"
  BY <1>1 DEF Write, Begin
<1>5. /\ pc'[r] \in {"begin", "read", "land", "work", "write"}
      /\ Write(r) /\ pc'[r] = "land" => kind[r] = "apply"
      /\ Begin(r) => pc'[r] \in {"work", "read", "write"}
      /\ Begin(r) /\ kind[r] = "verify" => pc'[r] = "read"
  BY <1>1 DEF Write, Begin, Goto
<1>6. AgentsReviewed(r)'
  <2>1. /\ mode' = "review" /\ mine[r] # {}
    BY <1>3 DEF DocsInv, AgentsReviewed
  <2>2. pc'[r] = "land" => \A t \in mine[r] : mem[r].status[t] = "applying"
    BY <1>2, <1>3, <1>5 DEF Target
  <2>3. ASSUME NEW t \in Task, pc'[r] = "work"
        PROVE  /\ phase'[r][t] = "loop" => mem[r].status[t] = "running"
               /\ phase'[r][t] = "check" => mem[r].status[t] = "verifying"
    BY <1>2, <1>3, <1>4, <1>5, <2>3 DEF Target
  <2> QED
    BY <1>3, <1>4, <2>1, <2>2, <2>3 DEF AgentsReviewed
<1>7. Holding(r)' => Holding(r)
  BY <1>3, <1>5 DEF Holding
<1>8. Write(r) => Holding(r)
  BY <1>3 DEF Holding
<1> QED
  BY <1>3, <1>6, <1>7, <1>8, SincereLess DEF DocsInv

LEMMA DocsRead ==
  ASSUME NEW r \in Request, SerialInv(r), DocsInv(r), Read(r)
  PROVE  DocsInv(r)'
<1>1. /\ pc[r] = "read" /\ disk' = disk /\ mine' = mine /\ phase' = phase
      /\ mode' = mode /\ drift' = drift
  BY ReadStep DEF agents, settings, project
<1>2. Sincere(disk, {}, drift) /\ disk \in Document
  BY DEF DocsInv, Sincere
<1>3. pc'[r] \in {"finish", "write"} => AgentsReviewed(r)'
  BY <1>1 DEF DocsInv, AgentsReviewed, SerialInv, Shape, AgentsAttend
<1>4. CASE pc'[r] = "finish"
  BY <1>1, <1>2, <1>3, <1>4 DEF DocsInv, Holding
<1>5. ASSUME NEW t \in Task, NEW s \in Document,
             mine[r] = {t}, disk.status[t] = "applied",
             s = disk \/ s = register_documentation_task(disk),
             mem'[r] = update_delivery_status(Put(s, {t}, "verifying")),
             pc'[r] = "write"
      PROVE  DocsInv(r)'
  <2> DEFINE w == Put(s, {t}, "verifying")
  <2>1. Sincere(s, {}, drift) /\ s.status = disk.status
    BY <1>2, <1>5, RegisterSincere, RegisterType
  <2>2. /\ w \in Document /\ w.documentation = s.documentation
        /\ \A u \in Task : w.status[u] = IF u = t THEN "verifying"
                                         ELSE s.status[u]
    BY PutType DEF Status
  <2> HIDE DEF w
  <2>3. Covered(w, {t}, drift)
    BY <1>5, <2>1, <2>2 DEF Sincere, Covered
  <2>4. Sincere(mem'[r], mine[r], drift)
    BY <1>5, <2>2, <2>3, GateSincere DEF w
  <2> QED
    BY <1>1, <1>2, <1>3, <1>5, <2>4 DEF DocsInv
<1> QED
  BY <1>4, <1>5, ReadStep

LEMMA DocsSaveFinish ==
  ASSUME NEW r \in Request, SerialInv(r), DocsInv(r), Save(r) \/ Finish(r)
  PROVE  DocsInv(r)'
<1>1. /\ pc \in [Request -> Step] /\ mem[r] \in Document
      /\ kind \in [Request -> Kind] /\ mine \in [Request -> SUBSET Task]
  BY DEF SerialInv, IInv, TypeOK
<1>2. \A t \in Task : phase[r][t] = "none"
  BY DEF Save, Finish, Worked, SerialInv, Shape, AgentsAttend, Off
<1>3. phase' = phase /\ mode' = mode /\ drift' = drift
  BY DEF Save, Finish, settings, project
<1>4. \/ pc'[r] = "idle"
      \/ /\ pc'[r] \in {"save", "finish"} /\ mine' = mine /\ mem' = mem
         /\ pc[r] # "idle"
  BY <1>1 DEF Save, Finish, Worked, Leave, Goto
<1>5. AgentsReviewed(r)'
  BY <1>2, <1>3, <1>4 DEF DocsInv, AgentsReviewed
<1>6. Sincere(disk', {}, drift)
  <2>1. CASE Save(r)
    <3>1. Sincere(mem[r], {}, drift)
      BY <2>1, SincereLess DEF Save, Worked, DocsInv, Holding
    <3> QED
      BY <2>1, <3>1, CompletedSincere DEF Save
  <2>2. CASE Finish(r)
    BY <2>2 DEF Finish, DocsInv
  <2> QED
    BY <2>1, <2>2
<1>7. pc'[r] = "save" => Sincere(mem[r], mine[r], drift)
  <2>1. pc'[r] = "save" => Finish(r) /\ kind[r] \in FinishesFirst
    BY <1>1 DEF Save, Finish, Leave, Goto
  <2>2. pc'[r] = "save" => pc[r] = "work"
    BY <2>1 DEF Finish, Worked, SerialInv, Shape, Written
  <2> QED
    BY <2>2 DEF DocsInv, Holding
<1> QED
  BY <1>3, <1>4, <1>5, <1>6, <1>7 DEF DocsInv, Holding


(* An agent whose task was not done keeps the copy sincere: it leaves the  *)
(* documentation task alone.                                               *)
LEMMA AgentSincere ==
  ASSUME NEW r \in Request, IInv, NEW t \in Task, Agent(r, t),
         mode = "review", phase[r][t] \in {"none", "loop", "check", "dead"}
  PROVE  /\ mem'[r].documentation = mem[r].documentation
         /\ \/ mem'[r].delivery = mem[r].delivery
            \/ mem'[r].delivery = "ready" => Gate(mem'[r])
         /\ mode' = mode /\ drift' = drift
         /\ phase[r][t] \in {"loop", "check"} /\ phase'[r][t] = "none"
<1>1. mem[r] \in Document /\ mem \in [Request -> Document]
      /\ phase \in [Request -> [Task -> Phase]]
  BY DEF IInv, TypeOK
<1> USE DEF Status, Cause, settings, project
<1>2. ASSUME NEW value \in Status, NEW why \in Cause,
             Record(r, Set(mem[r], {t}, value, why))
      PROVE  /\ mem'[r].documentation = mem[r].documentation
             /\ mem'[r].delivery = mem[r].delivery
  <2> HIDE DEF Status, Cause
  <2> QED
    BY <1>1, <1>2, SetKeeps DEF Record
<1>3. ASSUME Move(r, t, "none") PROVE phase'[r][t] = "none"
  BY <1>1, <1>3 DEF Move
<1>4. CASE Propose(r, t)
  <2> DEFINE w == Set(mem[r], {t}, "review", "none")
             s == [w EXCEPT !.patch = @ \cup {t}]
  <2>1. /\ w \in Document /\ w.documentation = mem[r].documentation
        /\ w.delivery = mem[r].delivery
    BY <1>1, SetType, SetKeeps
  <2>2. Record(r, s)
    BY <1>4 DEF Propose
  <2> HIDE DEF w
  <2>3. s.documentation = w.documentation /\ s.delivery = w.delivery
    BY <2>1 DEF Document
  <2>4. mem'[r] = s
    BY <1>1, <2>2 DEF Record
  <2> QED
    BY <1>3, <1>4, <2>1, <2>3, <2>4 DEF Propose
<1>5. CASE Fail(r, t)
  BY <1>2, <1>3, <1>5 DEF Fail
<1>6. CASE HandOff(r, t)
  BY <1>2, <1>3, <1>6 DEF HandOff
<1>7. CASE Stopped(r, t)
  BY <1>2, <1>3, <1>7 DEF Stopped
<1>8. ASSUME NEW outcome \in {"verified", "failed", "applied"},
             \/ \E derived \in BOOLEAN : VerifySync(r, t, outcome, derived)
             \/ VerifyStream(r, t, outcome)
      PROVE  /\ mem'[r].documentation = mem[r].documentation
             /\ \/ mem'[r].delivery = mem[r].delivery
                \/ mem'[r].delivery = "ready" => Gate(mem'[r])
             /\ Judged(r, t, outcome)
  <2> DEFINE w == Judgement(r, t, outcome)
             s1 == [w EXCEPT
                      !.tested = IF outcome = "applied" THEN @ ELSE @ \cup {t}]
             s2 == [w EXCEPT !.tested = @ \cup {t}]
  <2>1. /\ w \in Document /\ w.documentation = mem[r].documentation
        /\ w.delivery = mem[r].delivery
    BY <1>1, SetType, SetKeeps, SMTT(30) DEF Judgement
  <2>2. /\ \/ Record(r, s1) \/ Record(r, update_delivery_status(s1))
           \/ Record(r, update_delivery_status(s2))
        /\ Judged(r, t, outcome)
    BY <1>8 DEF VerifySync, VerifyStream
  <2> HIDE DEF w
  <2>3. /\ s1 \in Document /\ s1.documentation = w.documentation
        /\ s1.delivery = w.delivery
        /\ s2 \in Document /\ s2.documentation = w.documentation
    BY <2>1 DEF Document
  <2> HIDE DEF s1, s2
  <2>4. ASSUME NEW s \in Document
        PROVE  /\ update_delivery_status(s).documentation = s.documentation
               /\ update_delivery_status(s).delivery = "ready"
                    => Gate(update_delivery_status(s))
    BY GateType DEF Gate, AllDone
  <2> QED
    BY <1>1, <2>1, <2>2, <2>3, <2>4 DEF Record
<1>9. ASSUME NEW outcome, Judged(r, t, outcome)
      PROVE  /\ phase[r][t] = "check" /\ phase'[r][t] = "none"
             /\ mode' = mode /\ drift' = drift
  BY <1>3, <1>9 DEF Judged
<1>10. /\ ~ Complete(r, t) /\ ~ MainPasses(r, t) /\ ~ MainFails(r, t)
       /\ ~ \E new \in BOOLEAN : Land(r, t, new)
  BY DEF Complete, MainPasses, MainFails, Land
<1> QED
  BY <1>4, <1>5, <1>6, <1>7, <1>8, <1>9, <1>10 DEF Agent

LEMMA DocsAgent ==
  ASSUME NEW r \in Request, SerialInv(r), DocsInv(r), NEW t \in Task, Agent(r, t)
  PROVE  DocsInv(r)'
<1>1. /\ IInv /\ mode = "review"
      /\ phase[r][t] \in {"none", "loop", "check", "dead"}
  BY DEF SerialInv, DocsInv, AgentsReviewed
<1>2. /\ mem'[r].documentation = mem[r].documentation
      /\ \/ mem'[r].delivery = mem[r].delivery
         \/ mem'[r].delivery = "ready" => Gate(mem'[r])
      /\ mode' = mode /\ drift' = drift
      /\ phase[r][t] \in {"loop", "check"} /\ phase'[r][t] = "none"
  BY <1>1, AgentSincere
<1>3. /\ disk' = disk /\ pc' = pc /\ mine' = mine
      /\ kind[r] \in {"verify"} => kind' = kind
      /\ \A u \in Task \ {t} : /\ mem'[r].status[u] = mem[r].status[u]
                               /\ phase'[r][u] = phase[r][u]
  BY <1>1, AgentStep
<1>4. t \in mine[r]
  BY <1>2 DEF DocsInv, AgentsReviewed
<1>5. pc[r] \in {"work", "leaving"}
  BY <1>2 DEF SerialInv, Shape, AgentsAttend
<1>6. AgentsReviewed(r)'
  BY <1>2, <1>3, <1>5 DEF DocsInv, AgentsReviewed
<1>7. pc[r] = "work" => Sincere(mem'[r], mine[r], drift)
  <2> SUFFICES ASSUME pc[r] = "work" PROVE Sincere(mem'[r], mine[r], drift)
    OBVIOUS
  <2>1. Sincere(mem[r], mine[r], drift) /\ mem[r].status[t] \in Movable
    BY <1>2 DEF DocsInv, AgentsReviewed, Holding, Movable, Status,
       TASK_DONE_STATUSES, Landed
  <2>2. mem'[r] \in Document
    BY NextInv, <1>1, AgentsInv DEF IInv, TypeOK
  <2>3. mem[r].delivery # "ready"
    BY <2>1 DEF Sincere, Honest, Gate, AllDone, Movable
  <2>4. Honest(mem'[r])
    BY <1>2, <2>3 DEF Honest
  <2>5. Covered(mem'[r], mine[r], drift)
    BY <1>2, <1>3, <1>4, <2>1 DEF Sincere, Covered
  <2> QED
    BY <2>2, <2>4, <2>5 DEF Sincere
<1>8. Holding(r)' => pc[r] = "work"
  BY <1>3, <1>5 DEF Holding
<1> QED
  BY <1>2, <1>3, <1>6, <1>7, <1>8 DEF DocsInv


(* What the decision about a patch leaves in the copy: either the          *)
(* documentation task is pending again, or nothing was written; a task     *)
(* cut off here is "applying" in tasks.json.                               *)
LEMMA ApplySincere ==
  ASSUME NEW r \in Request, SerialInv(r), DocsInv(r), Apply(r), ~ HunkRaises(r)
  PROVE  /\ mode' = mode /\ pc' = [pc EXCEPT ![r] = "save"]
         /\ drift' \subseteq drift \cup mine[r]
         /\ Sincere(mem'[r], mine[r], drift')
<1>1. /\ mem \in [Request -> Document] /\ mem[r] \in Document
      /\ mine[r] \subseteq Task /\ pc[r] = "land"
  BY ApplyStep DEF SerialInv, IInv, TypeOK
<1>2. /\ Sincere(mem[r], mine[r], drift) /\ mine[r] # {}
      /\ \A t \in mine[r] : mem[r].status[t] = "applying"
  BY <1>1 DEF DocsInv, AgentsReviewed, Holding
<1>3. mem[r].delivery # "ready"
  BY <1>1, <1>2 DEF Sincere, Honest, Gate, AllDone, TASK_DONE_STATUSES, Landed
<1>4. ASSUME NEW value \in Status, NEW why \in Cause
      PROVE  /\ Set(mem[r], mine[r], value, why) \in Document
             /\ Set(mem[r], mine[r], value, why).delivery # "ready"
             /\ Covered(Set(mem[r], mine[r], value, why), mine[r], drift)
  <2> DEFINE w == Set(mem[r], mine[r], value, why)
  <2>1. /\ w \in Document /\ w.delivery = mem[r].delivery
        /\ w.documentation = mem[r].documentation
        /\ \A t \in Task : w.status[t] = IF t \in mine[r] THEN value
                                         ELSE mem[r].status[t]
    <3> DEFINE s == mem[r]
               S == mine[r]
    <3>1. s \in Document
      BY <1>1
    <3> HIDE DEF s, S
    <3>2. /\ Set(s, S, value, why) \in Document
          /\ Set(s, S, value, why).delivery = s.delivery
          /\ Set(s, S, value, why).documentation = s.documentation
          /\ \A t \in Task : Set(s, S, value, why).status[t]
                               = IF t \in S THEN value ELSE s.status[t]
      BY <3>1, SetType, SetKeeps
    <3> QED
      BY <3>2 DEF s, S
  <2> HIDE DEF w
  <2>2. w.delivery # "ready" /\ Covered(w, mine[r], drift)
    BY <1>2, <1>3, <2>1 DEF Sincere, Covered
  <2> QED
    BY <2>1, <2>2 DEF w
<1> USE DEF agents, settings, project, Goto
<1>5. ASSUME NEW value \in {"applied", "partially_applied"},
             Record(r, Applied(mem[r], mine[r], value))
      PROVE  Sincere(mem'[r], mine[r], drift')
  <2> DEFINE u == [Set(mem[r], mine[r], value, "none") EXCEPT
                     !.changed = @ \cup mine[r]]
  <2>1. Set(mem[r], mine[r], value, "none") \in Document
    BY <1>4 DEF Status, Cause
  <2>2. u \in Document
    BY <1>1, <2>1 DEF Document
  <2>3. mem'[r] = register_documentation_task(u)
    BY <1>1, <1>5 DEF Record, Applied
  <2> HIDE DEF u
  <2> QED
    BY <2>2, <2>3, RegisterSincere
<1>6. ASSUME NEW value \in {"partially_applied", "applied", "rejected"},
             ApplyNone(r, value)
      PROVE  Sincere(mem'[r], mine[r], drift')
  <2>1. mem'[r] = Set(mem[r], mine[r], value, "none") /\ drift' = drift
    BY <1>1, <1>6 DEF ApplyNone, Record
  <2>2. value \in Status /\ "none" \in Cause
    BY DEF Status, Cause
  <2> QED
    BY <1>4, <2>1, <2>2 DEF Sincere, Honest
<1>7. CASE ApplyFails(r)
  <2> DEFINE w == Set(mem[r], mine[r], "failed", "other")
  <2>1. mem'[r] = update_delivery_status(w) /\ drift' = drift
    BY <1>1, <1>7 DEF ApplyFails, Record
  <2>2. w \in Document /\ Covered(w, mine[r], drift)
    BY <1>4 DEF Status, Cause
  <2> HIDE DEF w
  <2>3. Sincere(update_delivery_status(w), mine[r], drift)
    BY <2>2, GateSincere
  <2>4. mode' = mode /\ pc' = [pc EXCEPT ![r] = "save"]
    BY <1>7 DEF ApplyFails
  <2> QED
    BY <2>1, <2>3, <2>4
<1>8. CASE ApplyAll(r)
  BY <1>5, <1>8 DEF ApplyAll
<1>9. ASSUME NEW value \in {"partially_applied", "applied"},
             ApplySome(r, value) \/ ApplyNoHunk(r, value)
      PROVE  /\ Sincere(mem'[r], mine[r], drift')
             /\ mode' = mode /\ pc' = [pc EXCEPT ![r] = "save"]
             /\ drift' \subseteq drift \cup mine[r]
  BY <1>5, <1>9 DEF ApplySome, ApplyNoHunk
<1>10. ASSUME NEW value \in {"partially_applied", "applied", "rejected"},
              ApplyNone(r, value)
       PROVE  mode' = mode /\ pc' = [pc EXCEPT ![r] = "save"] /\ drift' = drift
  BY <1>10 DEF ApplyNone
<1> QED
  BY <1>6, <1>7, <1>8, <1>9, <1>10
  DEF Apply, ApplyAll, ApplyFails

LEMMA DocsApply ==
  ASSUME NEW r \in Request, SerialInv(r), DocsInv(r), Apply(r)
  PROVE  DocsInv(r)'
<1>1. /\ pc[r] = "land" /\ disk' = disk /\ phase' = phase
      /\ pc \in [Request -> Step]
  BY ApplyStep DEF SerialInv, IInv, TypeOK
<1>2. \A t \in Task : phase[r][t] = "none"
  BY <1>1 DEF SerialInv, Shape, AgentsAttend
<1>3. CASE HunkRaises(r)
  <2>1. pc'[r] = "idle" /\ mode' = mode /\ drift' = drift
    BY <1>1, <1>3 DEF HunkRaises, Leave, Goto, settings, project
  <2> QED
    BY <1>1, <1>2, <2>1 DEF DocsInv, AgentsReviewed, Holding
<1>4. CASE ~ HunkRaises(r)
  <2>1. /\ mode' = mode /\ pc' = [pc EXCEPT ![r] = "save"]
        /\ Sincere(mem'[r], mine[r], drift')
    BY <1>4, ApplySincere
  <2>2. pc'[r] = "save"
    BY <1>1, <2>1
  <2>3. mine' = mine
    BY <1>4 DEF Apply, ApplyAll, ApplySome, ApplyNoHunk, ApplyNone, ApplyFails,
       agents
  <2>4. PICK t \in mine[r] : t \in Task /\ disk.status[t] = "applying"
    <3>1. mine[r] # {} /\ mine[r] \subseteq Task /\ kind[r] = "apply"
      BY <1>1, ApplyStep DEF DocsInv, AgentsReviewed, SerialInv, IInv, TypeOK
    <3> QED
      BY <1>1, <3>1 DEF SerialInv, Shape, Announced, Target
  <2>5. Sincere(disk', {}, drift')
    BY <1>1, <2>4 DEF DocsInv, Sincere, Covered
  <2> QED
    BY <1>1, <1>2, <2>1, <2>2, <2>3, <2>5
    DEF DocsInv, AgentsReviewed
<1> QED
  BY <1>3, <1>4


LEMMA DocsClose ==
  ASSUME NEW r \in Request, SerialInv(r), DocsInv(r),
         CloseWave(r) \/ Gone(r) \/ CloseVerify(r)
  PROVE  DocsInv(r)'
<1>1. /\ pc \in [Request -> Step] /\ phase \in [Request -> [Task -> Phase]]
      /\ disk' = disk /\ mode' = mode /\ drift' = drift
  BY DEF SerialInv, IInv, TypeOK, CloseWave, Gone, CloseVerify, settings,
     project
<1>2. CASE CloseWave(r)
  <2>1. pc'[r] = "leaving" /\ pc[r] = "work" /\ phase' = phase /\ mine' = mine
    BY <1>1, <1>2 DEF CloseWave, Goto
  <2> QED
    BY <1>1, <2>1 DEF DocsInv, AgentsReviewed, Holding
<1>3. CASE Gone(r) \/ CloseVerify(r)
  <2>1. pc'[r] = "idle" /\ \A t \in Task : phase'[r][t] = "none"
    BY <1>1, <1>3 DEF Gone, CloseVerify, Leave, Goto, Off
  <2> QED
    BY <1>1, <2>1 DEF DocsInv, AgentsReviewed, Holding
<1> QED
  BY <1>2, <1>3

(* Idle threads that write tasks.json at once.                             *)
LEMMA DocsFiles ==
  ASSUME NEW r \in Request, SerialInv(r), DocsInv(r),
         \/ WaveWaits(r) \/ Refused(r)
         \/ \E o \in DOCUMENTATION_STATUSES : SyncDocs(r, o)
  PROVE  DocsInv(r)'
<1>1. /\ pc[r] = "idle" /\ UNCHANGED <<mem, pc, kind, mine, phase>>
      /\ mode' = mode
  BY DEF WaveWaits, Refused, SyncDocs, agents, settings
<1>2. Sincere(disk, {}, drift) /\ Sincere(Recovered, {}, drift)
      /\ Sincere(RecoveredForWave, {}, drift)
  BY RecoveredSincere DEF DocsInv
<1>3. Sincere(disk', {}, drift')
  <2>1. CASE WaveWaits(r)
    <3> DEFINE f == RecoveredForWave
    <3>1. Sincere(f, {}, drift)
      BY <1>2
    <3>2. disk' = Refuse(f, ready_tasks(f)) /\ drift' = drift
      BY <2>1 DEF WaveWaits, project
    <3>3. \A t \in ready_tasks(f) \cap Task : f.status[t] \in Movable
      BY DEF ready_tasks, Movable, Status, TASK_DONE_STATUSES, Landed
    <3>4. "pending" \in Status /\ "other" \in Cause
      BY DEF Status, Cause
    <3> HIDE DEF f
    <3>5. Sincere(Refuse(f, ready_tasks(f)), {}, drift)
      BY <3>1, <3>3, <3>4, SetSincere DEF Refuse
    <3> QED
      BY <3>2, <3>5
  <2>2. CASE Refused(r)
    BY <1>2, <2>2 DEF Refused, project
  <2>3. ASSUME NEW o \in DOCUMENTATION_STATUSES, SyncDocs(r, o)
        PROVE  Sincere(disk', {}, drift')
    <3> DEFINE u == [disk EXCEPT !.documentation = o]
    <3>1. u \in Document /\ u.documentation = o /\ u.status = disk.status
      BY <1>2 DEF Sincere, Document
    <3>2. disk' = update_delivery_status(u) /\ AllDone(disk)
      BY <2>3 DEF SyncDocs
    <3>3. \/ o = "synced" /\ drift' = {}
          \/ o \notin DocumentsCurrent
      BY <2>3 DEF SyncDocs, DocumentsCurrent
    <3> HIDE DEF u
    <3>4. Covered(u, {}, drift')
      BY <3>1, <3>3 DEF Covered
    <3>5. Sincere(update_delivery_status(u), {}, drift')
      BY <3>1, <3>4, GateSincere
    <3> QED
      BY <3>2, <3>5
  <2> QED
    BY <2>1, <2>2, <2>3
<1> QED
  BY <1>1, <1>3 DEF DocsInv, AgentsReviewed, Holding

(* Steps that leave tasks.json and the copy alone, or forget the copy.     *)
LEMMA DocsOthers ==
  ASSUME Reviewed, NEW r \in Request, SerialInv(r), DocsInv(r),
         \/ \E t \in Task : WorkerDies(r, t) \/ Cancel(t) \/ ClearStale(t)
         \/ Restart \/ UNCHANGED vars
  PROVE  DocsInv(r)'
<1>1. disk' = disk /\ mode' = mode /\ drift' = drift
  BY DEF WorkerDies, Cancel, ClearStale, Restart, vars, settings, project
<1>2. CASE Restart
  <2>1. pc'[r] = "idle" /\ \A t \in Task : phase'[r][t] = "none"
    BY <1>2 DEF Restart, Off
  <2> QED
    BY <1>1, <2>1 DEF DocsInv, AgentsReviewed, Holding
<1>3. CASE \/ \E t \in Task : Cancel(t) \/ ClearStale(t)
           \/ UNCHANGED vars
  <2>1. UNCHANGED <<mem, pc, kind, mine, phase>>
    BY <1>3 DEF Cancel, ClearStale, vars, agents
  <2> QED
    BY <1>1, <2>1 DEF DocsInv, AgentsReviewed, Holding
<1>4. ASSUME NEW t \in Task, WorkerDies(r, t) PROVE DocsInv(r)'
  <2>1. /\ UNCHANGED <<mem, pc, kind, mine>> /\ phase[r][t] # "none"
        /\ \A u \in Task : phase'[r][u] = IF u = t THEN "dead" ELSE phase[r][u]
    BY <1>4 DEF WorkerDies, Move, SerialInv, IInv, TypeOK
  <2> QED
    BY <1>1, <2>1 DEF DocsInv, AgentsReviewed, Holding
<1> QED
  BY <1>2, <1>3, <1>4

LEMMA DocsNext ==
  ASSUME Reviewed, NEW r, Request = {r}, SerialInv(r), DocsInv(r), [Next]_vars
  PROVE  DocsInv(r)'
<1>1. ASSUME Proceed(r) PROVE DocsInv(r)'
  BY <1>1, DocsWriteBegin, DocsRead, DocsSaveFinish, DocsClose, DocsApply,
     DocsAgent DEF Proceed
<1>2. ASSUME NEW t \in Task, StartsWith(r, t) PROVE DocsInv(r)'
  BY <1>2, DocsStarts
<1>3. ASSUME NEW S \in SUBSET Task, StartWave(r, S) PROVE DocsInv(r)'
  BY <1>3, DocsWave
<1>4. /\ \A S \in SUBSET Task : ~ EditArchitecture(r, S)
      /\ \A m \in {"review", "auto"} : ~ SetMode(m)
  BY DEF EditArchitecture, MaySend, SetMode, Reviewed
<1> QED
  BY <1>1, <1>2, <1>3, <1>4, DocsClose, DocsFiles, DocsOthers DEF Next

(* README: "Delivery becomes `ready` only after both code work and         *)
(* documentation work pass."  One request at a time, whatever is stopped,  *)
(* closed, fails or dies in between: a delivery that is ready has          *)
(* documents for everything that reached the project, provided every       *)
(* result is reviewed and nobody edits the architecture.                   *)
THEOREM DeliveryIsDocumented ==
  ASSUME NEW r, Request = {r}, Reviewed PROVE Spec => []ReadyMeansDocumented
<1>1. Init => DocsInv(r)
  BY DocsInit
<1>2. SerialInv(r) /\ DocsInv(r) /\ [Next]_vars => DocsInv(r)'
  BY DocsNext
<1>3. DocsInv(r) => ReadyMeansDocumented
  BY DEF DocsInv, Sincere, Honest, Covered, Gate, AllDone,
     TASK_DONE_STATUSES, Landed, ReadyMeansDocumented
<1>4. Spec => []SerialInv(r)
  BY Serial
<1> QED
  BY <1>1, <1>2, <1>3, <1>4, PTL DEF Spec
=============================================================================
