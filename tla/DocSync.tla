------------------------------- MODULE DocSync -------------------------------
(***************************************************************************)
(* task_docs.py: the documentation task.  Every directory of the project   *)
(* has one document, AI_ARCH.md; sync_docs asks the documentation agent    *)
(* for those of the affected directories, deepest first, writes them as    *)
(* one batch, and retries a failed attempt; an exhausted task blocks the   *)
(* delivery and shows an error node.                                       *)
(*                                                                         *)
(* A document is fresh when it tells the truth about the code of its       *)
(* directory and of those below.  One directory stands for one module.     *)
(* Left out: the delivery status, which TaskState derives from the status  *)
(* here, and directories of dependent modules, which are rewritten too.    *)
(***************************************************************************)
EXTENDS Naturals

CONSTANTS
  Dir,         \* directories the project may come to have
  Root,        \* the project root
  Above,       \* Above[d]: the directories d lies in, Root included
  Depth,       \* Depth[d]: how deep d lies
  Request,     \* request threads that synchronise documents
  OneAtATime,  \* the client waits for a sync before it does anything else
  DirectEdits, \* nodes and edges are edited on the graph, too
  Undocumented,\* directories that may be there without a document at first
  Cuts,        \* a batch of documents may be cut short
  MaxRetries,  \* MAX_DOCUMENTATION_AUTO_RETRIES
  MaxChanges,  \* bound: how often code lands or the architecture is edited
  MaxRestarts  \* bound: how often the process dies and is started again

ASSUME TreeAssumption ==
  /\ Root \in Dir
  /\ Above \in [Dir -> SUBSET Dir]
  /\ Depth \in [Dir -> Nat]
  /\ Above[Root] = {}
  /\ \A d \in Dir : \A e \in Above[d] :
       Above[e] \subseteq Above[d] /\ Depth[e] < Depth[d]
ASSUME BoundAssumption ==
  /\ OneAtATime \in BOOLEAN
  /\ DirectEdits \in BOOLEAN
  /\ Cuts \in BOOLEAN
  /\ Undocumented \subseteq Dir \ {Root}
  /\ MaxRetries \in Nat
  /\ MaxChanges \in Nat
  /\ MaxRestarts \in Nat

VARIABLES
  file,      \* the documentation task of tasks.json, and unfinished tasks
  node,      \* its error node in error_nodes.json
  doc,       \* doc[d]: the document of directory d on disk
  pc,        \* pc[r]: next step of request r
  mem,       \* mem[r]: the copy the retry loop of r works on
  seen,      \* seen[r]: the copy the current attempt of r has read
  attempt,   \* attempt[r]: attempts of r that are over
  todo,      \* todo[r]: directories r has still to describe
  made,      \* made[r]: directories whose new text r holds
  sound,     \* sound[r]: those of them whose text is true
  stop,      \* requests that were asked to stop
  changes, restarts

disk == <<file, node, doc>>
work == <<todo, made, sound>>
bounds == <<changes, restarts>>
vars == <<disk, pc, mem, seen, attempt, work, stop, bounds>>

Status == {"not_required", "pending", "running", "synced", "retrying",
           "blocked"}
Documentation == [
  status : Status,
  attempts : 0..MaxRetries,   \* auto_retry_count
  changed : SUBSET Dir,       \* changed_files and affected_modules
  open : BOOLEAN]             \* some task is not done
Step == {"idle", "attempt", "make", "check", "resolve", "synced", "failed",
         "blocked"}

NoDocumentation ==
  [status |-> "not_required", attempts |-> 0, changed |-> {}, open |-> TRUE]

TypeOK ==
  /\ file \in Documentation
  /\ node \in {"none", "active", "resolved"}
  /\ doc \in [Dir -> {"none", "missing", "stale", "fresh"}]
  /\ pc \in [Request -> Step]
  /\ mem \in [Request -> Documentation]
  /\ seen \in [Request -> Documentation]
  /\ attempt \in [Request -> 0..MaxRetries]
  /\ todo \in [Request -> SUBSET Dir]
  /\ made \in [Request -> SUBSET Dir]
  /\ sound \in [Request -> SUBSET Dir]
  /\ stop \subseteq Request
  /\ changes \in 0..MaxChanges
  /\ restarts \in 0..MaxRestarts

Idle ==
  /\ pc = [r \in Request |-> "idle"]
  /\ mem = [r \in Request |-> NoDocumentation]
  /\ seen = [r \in Request |-> NoDocumentation]
  /\ attempt = [r \in Request |-> 0]
  /\ todo = [r \in Request |-> {}]
  /\ made = [r \in Request |-> {}]
  /\ sound = [r \in Request |-> {}]
  /\ stop = {}

WithAbove(S) == S \cup UNION { Above[d] : d \in S }

(* Confirming the architecture described every directory there was; those  *)
(* of Undocumented were made by hand since.  No code was generated yet.    *)
Init ==
  /\ file = NoDocumentation
  /\ node = "none"
  /\ \E S \in SUBSET Dir, M \in SUBSET Undocumented :
       doc = [d \in Dir |-> IF d \in M THEN "missing"
                            ELSE IF d \in WithAbove(M) THEN "stale"
                            ELSE IF d \in WithAbove(S) \cup {Root} THEN "fresh"
                            ELSE "none"]
  /\ Idle
  /\ changes = 0 /\ restarts = 0

Goto(r, step) == pc' = [pc EXCEPT ![r] = step]

(* _iter_document_directories, with the root.                              *)
Tree == { d \in Dir : doc[d] # "none" }

(* document_tree_gaps *)
Gaps == { d \in Tree \ {Root} : doc[d] = "missing" }

(* _affected_document_directories, and the root.                           *)
Affected(s) == {Root} \cup IF Gaps # {} THEN Tree
                           ELSE WithAbove(s.changed) \cap Tree

-----------------------------------------------------------------------------
(* The rest of the system writes code and edits the architecture.          *)

MayAct == OneAtATime => \A q \in Request : pc[q] = "idle"

Outdated(S) ==
  [d \in Dir |-> IF d \notin WithAbove(S) THEN doc[d]
                 ELSE IF doc[d] = "none" THEN "missing"
                 ELSE IF doc[d] = "fresh" THEN "stale" ELSE doc[d]]

(* What a request holds about S is no longer true.                         *)
Doubt(S) == sound' = [r \in Request |-> sound[r] \ WithAbove(S)]

(* register_documentation_task, called for every write to the project.     *)
Land(d, more) ==
  /\ MayAct
  /\ changes < MaxChanges
  /\ file.open
  /\ changes' = changes + 1
  /\ file' = [status |-> "pending", attempts |-> 0,
              changed |-> file.changed \cup {d}, open |-> more]
  /\ doc' = Outdated({d})
  /\ Doubt({d})
  /\ UNCHANGED <<node, pc, mem, seen, attempt, todo, made, stop, restarts>>

(* An edit of modules whose code landed.  Edits by the architecture agent  *)
(* and of a module's requirement call mark_architecture_docs_dirty; those  *)
(* of update_architecture_nodes and update_architecture_edges do not.      *)
Edit(S, asks) ==
  /\ MayAct
  /\ changes < MaxChanges
  /\ asks \/ DirectEdits
  /\ S # {} /\ S \subseteq file.changed
  /\ changes' = changes + 1
  /\ file' = IF asks THEN [file EXCEPT !.status = "pending"] ELSE file
  /\ doc' = Outdated(S)
  /\ Doubt(S)
  /\ UNCHANGED <<node, pc, mem, seen, attempt, todo, made, stop, restarts>>

(* A micro task or a new module: there are unfinished tasks again.         *)
NewWork ==
  /\ MayAct
  /\ ~ file.open
  /\ file' = [file EXCEPT !.open = TRUE]
  /\ UNCHANGED <<node, doc, pc, mem, seen, attempt, work, stop, bounds>>

-----------------------------------------------------------------------------
(* sync_docs and retry_documentation.                                      *)

Reset(s) == [s EXCEPT !.attempts = 0, !.status = "pending"]

StartSync(r) ==
  /\ MayAct
  /\ pc[r] = "idle"
  /\ ~ file.open
  /\ file' = Reset(file)
  /\ mem' = [mem EXCEPT ![r] = Reset(file)]
  /\ attempt' = [attempt EXCEPT ![r] = 0]
  /\ Goto(r, "attempt")
  /\ UNCHANGED <<node, doc, seen, work, stop, bounds>>

(* A retry resets the task before sync_docs refuses unfinished tasks.      *)
RetryRefused(r) ==
  /\ MayAct
  /\ pc[r] = "idle"
  /\ file.status \in {"blocked", "retrying", "pending"}
  /\ file.open
  /\ file' = Reset(file)
  /\ UNCHANGED <<node, doc, pc, mem, seen, attempt, work, stop, bounds>>

Leave(r) ==
  /\ Goto(r, "idle")
  /\ stop' = stop \ {r}

(* The head of the retry loop: a stop is noticed here only.                *)
Stopped(r) ==
  /\ pc[r] = "attempt"
  /\ r \in stop
  /\ file' = [mem[r] EXCEPT !.status = "pending"]
  /\ Leave(r)
  /\ UNCHANGED <<node, doc, mem, seen, attempt, work, bounds>>

(* The copy is written, read back by _sync_docs_once, and the directories  *)
(* are chosen.                                                             *)
Attempt(r) ==
  LET s == [mem[r] EXCEPT !.attempts = attempt[r],
              !.status = IF attempt[r] = 0 THEN "running" ELSE "retrying"]
  IN  /\ pc[r] = "attempt"
      /\ r \notin stop
      /\ file' = s
      /\ mem' = [mem EXCEPT ![r] = s]
      /\ seen' = [seen EXCEPT ![r] = s]
      /\ todo' = [todo EXCEPT ![r] = Affected(s)]
      /\ made' = [made EXCEPT ![r] = {}]
      /\ sound' = [sound EXCEPT ![r] = {}]
      /\ Goto(r, "make")
      /\ UNCHANGED <<node, doc, attempt, stop, bounds>>

Below(d) == { e \in Tree : d \in Above[e] }

(* What the agent is shown of a directory below: the text it just wrote,   *)
(* or the document on disk.                                                *)
Trusted(r, e) == IF e \in made[r] THEN e \in sound[r] ELSE doc[e] = "fresh"

(* Mutant: parents first.                                                  *)
MakeParentsFirst(r, d) ==
  /\ pc[r] = "make"
  /\ d \in todo[r]
  /\ \A e \in todo[r] : Depth[d] <= Depth[e]
  /\ todo' = [todo EXCEPT ![r] = @ \ {d}]
  /\ made' = [made EXCEPT ![r] = @ \cup {d}]
  /\ sound' = [sound EXCEPT ![r] =
                 IF \A e \in Below(d) : Trusted(r, e) THEN @ \cup {d} ELSE @]
  /\ UNCHANGED <<disk, pc, mem, seen, attempt, stop, bounds>>

(* One directory, the deepest that is left: one accepted answer of the     *)
(* agent in at most two.                                                   *)
Make(r, d) ==
  /\ pc[r] = "make"
  /\ d \in todo[r]
  /\ \A e \in todo[r] : Depth[e] <= Depth[d]
  /\ todo' = [todo EXCEPT ![r] = @ \ {d}]
  /\ made' = [made EXCEPT ![r] = @ \cup {d}]
  /\ sound' = [sound EXCEPT ![r] =
                 IF \A e \in Below(d) : Trusted(r, e) THEN @ \cup {d} ELSE @]
  /\ UNCHANGED <<disk, pc, mem, seen, attempt, stop, bounds>>

(* The answer was refused twice, or the model call failed.                 *)
MakeFails(r) ==
  /\ pc[r] = "make"
  /\ todo[r] # {}
  /\ Goto(r, "failed")
  /\ UNCHANGED <<disk, mem, seen, attempt, work, stop, bounds>>

Replaced(r, S) ==
  [d \in Dir |-> IF d \notin S THEN doc[d]
                 ELSE IF d \in sound[r] THEN "fresh" ELSE "stale"]

Complete(r) == \A d \in Tree : d \in made[r] \/ doc[d] # "missing"

(* apply_text_files_atomic *)
Commit(r) ==
  /\ pc[r] = "make"
  /\ todo[r] = {}
  /\ Complete(r)
  /\ doc' = Replaced(r, made[r])
  /\ Goto(r, "check")
  /\ UNCHANGED <<file, node, mem, seen, attempt, work, stop, bounds>>

(* A directory without a document appeared, or a write failed: what was    *)
(* written is rolled back.  When that fails too, or the process dies here, *)
(* the documents of S stay.                                                *)
CommitFails(r, S) ==
  /\ pc[r] = "make"
  /\ todo[r] = {}
  /\ S \subseteq made[r]
  /\ S = {} \/ (Cuts /\ Complete(r))
  /\ doc' = Replaced(r, S)
  /\ Goto(r, "failed")
  /\ UNCHANGED <<file, node, mem, seen, attempt, work, stop, bounds>>

(* require_documented_command_consistency and sync_architecture_from_tasks *)
Check(r, ok) ==
  /\ pc[r] = "check"
  /\ Goto(r, IF ok THEN "resolve" ELSE "failed")
  /\ UNCHANGED <<disk, mem, seen, attempt, work, stop, bounds>>

(* _finish_documentation_sync: the error node first, then tasks.json.      *)
Resolve(r) ==
  /\ pc[r] = "resolve"
  /\ node' = IF node = "active" THEN "resolved" ELSE node
  /\ Goto(r, "synced")
  /\ UNCHANGED <<file, doc, mem, seen, attempt, work, stop, bounds>>

Synced(r) ==
  /\ pc[r] = "synced"
  /\ file' = [seen[r] EXCEPT !.attempts = attempt[r], !.status = "synced"]
  /\ Leave(r)
  /\ UNCHANGED <<node, doc, mem, seen, attempt, work, bounds>>

(* Mutant: the attempt does not count.                                     *)
FailedUncounted(r) ==
  LET s == [mem[r] EXCEPT !.attempts = attempt[r], !.status = "retrying"]
  IN  /\ pc[r] = "failed"
      /\ attempt[r] < MaxRetries
      /\ mem' = [mem EXCEPT ![r] = s]
      /\ file' = s
      /\ Goto(r, "attempt")
      /\ UNCHANGED <<node, doc, seen, attempt, work, stop, bounds>>

(* Mutant: the number of retries is not limited.                           *)
FailedUnlimited(r) ==
  LET s == [mem[r] EXCEPT !.attempts = attempt[r] + 1, !.status = "retrying"]
  IN  /\ pc[r] = "failed"
      /\ mem' = [mem EXCEPT ![r] = s]
      /\ file' = s
      /\ attempt' = [attempt EXCEPT ![r] = @ + 1]
      /\ Goto(r, "attempt")
      /\ UNCHANGED <<node, doc, seen, work, stop, bounds>>

Failed(r) ==
  LET s == [mem[r] EXCEPT !.attempts = attempt[r] + 1, !.status = "retrying"]
  IN  /\ pc[r] = "failed"
      /\ attempt[r] < MaxRetries
      /\ mem' = [mem EXCEPT ![r] = s]
      /\ file' = s
      /\ attempt' = [attempt EXCEPT ![r] = @ + 1]
      /\ Goto(r, "attempt")
      /\ UNCHANGED <<node, doc, seen, work, stop, bounds>>

(* Mutant: the error node is not written.                                  *)
ExhaustedUnshown(r) ==
  /\ pc[r] = "failed"
  /\ attempt[r] = MaxRetries
  /\ file' = [mem[r] EXCEPT !.attempts = MaxRetries, !.status = "blocked"]
  /\ Goto(r, "blocked")
  /\ UNCHANGED <<node, doc, mem, seen, attempt, work, stop, bounds>>

(* No retry is left: the error node first, then tasks.json.                *)
Exhausted(r) ==
  /\ pc[r] = "failed"
  /\ attempt[r] = MaxRetries
  /\ node' = "active"
  /\ Goto(r, "blocked")
  /\ UNCHANGED <<file, doc, mem, seen, attempt, work, stop, bounds>>

Blocked(r) ==
  /\ pc[r] = "blocked"
  /\ file' = [mem[r] EXCEPT !.attempts = MaxRetries, !.status = "blocked"]
  /\ Leave(r)
  /\ UNCHANGED <<node, doc, mem, seen, attempt, work, bounds>>

(* cancel_jobs *)
Stop(r) ==
  /\ pc[r] # "idle"
  /\ r \notin stop
  /\ stop' = stop \cup {r}
  /\ UNCHANGED <<disk, pc, mem, seen, attempt, work, bounds>>

(* The process dies between any two steps.                                 *)
Restart ==
  /\ restarts < MaxRestarts
  /\ restarts' = restarts + 1
  /\ pc' = [r \in Request |-> "idle"]
  /\ mem' = [r \in Request |-> NoDocumentation]
  /\ seen' = [r \in Request |-> NoDocumentation]
  /\ attempt' = [r \in Request |-> 0]
  /\ todo' = [r \in Request |-> {}]
  /\ made' = [r \in Request |-> {}]
  /\ sound' = [r \in Request |-> {}]
  /\ stop' = {}
  /\ UNCHANGED <<disk, changes>>

Proceed(r) ==
  \/ Stopped(r) \/ Attempt(r)
  \/ \E d \in Dir : Make(r, d)
  \/ MakeFails(r) \/ Commit(r)
  \/ \E S \in SUBSET Dir : CommitFails(r, S)
  \/ \E ok \in BOOLEAN : Check(r, ok)
  \/ Resolve(r) \/ Synced(r) \/ Failed(r) \/ Exhausted(r) \/ Blocked(r)

Next ==
  \/ \E d \in Dir, more \in BOOLEAN : Land(d, more)
  \/ \E S \in SUBSET Dir, asks \in BOOLEAN : Edit(S, asks)
  \/ NewWork
  \/ \E r \in Request :
       StartSync(r) \/ RetryRefused(r) \/ Stop(r) \/ Proceed(r)
  \/ Restart

Spec == Init /\ [][Next]_vars

(* Every attempt is bounded: model calls and commands have time-outs.      *)
FairSpec == Spec /\ \A r \in Request : WF_vars(Proceed(r))

-----------------------------------------------------------------------------
(* Properties.                                                             *)

(* README: "deeper directories first, then parents, and finally the root   *)
(* document".  When the documentation task is synced, every directory has  *)
(* a document that describes its code and the documents below it, however  *)
(* many landings, edits, failed batches and restarts came before.          *)
SyncedIsFresh ==
  file.status = "synced" => \A d \in Tree : doc[d] = "fresh"

(* A blocked documentation task is shown on the graph, by an error node    *)
(* that is active; one that is synced is not.  A crash between the two     *)
(* files changes nothing.                                                  *)
BlockedIsShown ==
  /\ file.status = "blocked" => node = "active"
  /\ file.status = "synced" => node # "active"

(* Every request is answered, whatever the agent returns.                  *)
SyncEnds == \A r \in Request : pc[r] # "idle" ~> pc[r] = "idle"
=============================================================================
