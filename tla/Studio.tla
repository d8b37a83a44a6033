------------------------------- MODULE Studio -------------------------------
(***************************************************************************)
(* A project from its interview to its work plan: the requests that start, *)
(* answer, revise, confirm, build, reopen, edit and undo an architecture   *)
(* (main.py, main_routes_bootstrap.py, main_routes_tasks.py), and those    *)
(* that plan and run the work derived from it (task_plan.py,               *)
(* orchestrate.py, microtask.py), over the six files they share.           *)
(*                                                                         *)
(* A request reads files, may wait for a model with its copies of them,    *)
(* and then writes files one after the other, each atomically.  The server *)
(* may stop before any write.  A request that the code refuses is not a    *)
(* step.                                                                   *)
(***************************************************************************)
EXTENDS WorkPlan, SequencesExt

CONSTANTS
  Drafts,        \* architectures the model may propose
  Handmade,      \* architecture.json as a user wrote it, without edges
  Profile,       \* how many PROFILE_QUESTIONS there are
  HISTORY_MAX,   \* ARCHITECTURE_HISTORY_MAX
  Outcome,       \* what the execution of an item may come to
  Overlap,       \* whether requests are served while one waits for a model
  MaxRequests    \* bound: requests served

-----------------------------------------------------------------------------
Status == {"interviewing", "review", "ready", "initialized"}
Bootstrap == [
  status : Status,
  asked : {"none", "profile", "design"},   \* current_question
  profile : 0..Profile,
  failed : BOOLEAN,                        \* agent_mode = "ai_failed"
  arch : Architecture]

Direct == {"node", "edge", "requirement"}
Edits == Direct \cup {"edit"}
Waits == {"start", "answer", "stream", "revise", "edit", "finalize", "plan",
          "orchestrate", "micro", "wave"}
Requests == Edits \cup Waits \cup
  {"none", "begin", "confirm", "settle", "reopen", "undo", "clear", "task"}

(* The copies a request waits with.                                        *)
Call == [
  kind : Waits,
  boot : Bootstrap \cup {Null}, doc : Architecture \cup {Null},
  plan : Plan \cup {Null}, scope : SUBSET Module]

ASSUME StudioAssumption ==
  /\ Drafts \subseteq Architecture /\ Handmade \in Architecture
  /\ Profile \in Nat \ {0} /\ HISTORY_MAX \in Nat \ {0}
  /\ Outcome \subseteq {"review", "applied", "failed", "blocked"}
  /\ Overlap \in BOOLEAN /\ MaxRequests \in Nat
  /\ Null \notin Architecture \cup Bootstrap \cup Plan \cup Call

VARIABLES
  boot,      \* bootstrap.json: the interview and its draft
  doc,       \* architecture.json
  history,   \* architecture-history.json, the oldest first
  stale,     \* stale.json
  plan,      \* tasks.json
  errors,    \* the modules with an active error node for a failed task
  handler,   \* the request that writes, or wrote last
  pending,   \* what it still has to write, in order
  call,      \* the request that waits for a model, with its copies
  served,    \* how many requests were served
  cut,       \* a stop of the server has cut a request's writes short
  replaced   \* history variable: what undo would have to give back

files == <<boot, doc, history, stale, plan, errors>>
vars == <<files, handler, pending, call, served, cut, replaced>>

File == {"boot", "doc", "history", "stale", "plan", "errors"}

TypeOK ==
  /\ boot \in Bootstrap \cup {Null}
  /\ doc \in Architecture \cup {Null}
  /\ history \in Seq(Architecture) /\ Len(history) <= HISTORY_MAX
  /\ stale \subseteq Module /\ errors \subseteq Module
  /\ plan \in Plan \cup {Null}
  /\ handler \in Requests
  /\ \A i \in DOMAIN pending : pending[i].file \in File
  /\ call \in Call \cup {Null}
  /\ served \in 0..MaxRequests /\ cut \in BOOLEAN
  /\ replaced \in Architecture \cup {Null}

-----------------------------------------------------------------------------
(* Serving a request.                                                      *)

Put(file, value) == [file |-> file, value |-> value]

Free == pending = <<>> /\ served < MaxRequests /\ (Overlap \/ call = Null)

Write(name, writes) == handler' = name /\ pending' = writes

Serve(name, writes) ==
  /\ Free
  /\ Write(name, writes)
  /\ served' = served + 1 /\ replaced' = Null
  /\ UNCHANGED <<files, call, cut>>

(* Ask the model, after the writes, with copies of the files.              *)
Wait(kind, b, p, scope) ==
  [kind |-> kind, boot |-> b, doc |-> doc, plan |-> p, scope |-> scope]

Ask(kind, b, p, scope, writes) ==
  /\ Free /\ call = Null
  /\ Write(kind, writes) /\ call' = Wait(kind, b, p, scope)
  /\ served' = served + 1 /\ replaced' = Null
  /\ UNCHANGED <<files, cut>>

(* The request that waited goes on.                                        *)
Resume(kind, writes) ==
  /\ call # Null /\ call.kind = kind /\ pending = <<>>
  /\ Write(kind, writes) /\ call' = Null
  /\ UNCHANGED <<files, served, cut>>

WriteNext ==
  /\ pending # <<>>
  /\ LET w == Head(pending)
         Now(file, old) == IF w.file = file THEN w.value ELSE old
     IN  /\ boot' = Now("boot", boot) /\ doc' = Now("doc", doc)
         /\ history' = Now("history", history) /\ stale' = Now("stale", stale)
         /\ plan' = Now("plan", plan) /\ errors' = Now("errors", errors)
  /\ pending' = Tail(pending)
  /\ UNCHANGED <<handler, call, served, cut, replaced>>

(* The server stops.  At most once.                                        *)
Crash ==
  /\ ~ cut /\ (pending # <<>> \/ call # Null)
  /\ cut' = TRUE /\ pending' = <<>> /\ call' = Null /\ replaced' = Null
  /\ UNCHANGED <<files, handler, served>>

-----------------------------------------------------------------------------
(* What is there to work on.                                               *)

HasModules(b) == b # Null /\ b.arch.mods # {}

(* The draft of an interview wins over the generated document.             *)
Resolve(b, d) ==
  IF HasModules(b) THEN b.arch
  ELSE IF d # Null /\ d.mods # {} THEN d ELSE Null

Current == Resolve(boot, doc)

InReview == boot # Null /\ boot.status = "review"

PutBoot(b, a) ==
  IF b = Null THEN <<>> ELSE <<Put("boot", [b EXCEPT !.arch = a])>>

(* write_task_state: tasks.json, then the error nodes.                     *)
PutPlan(p) == <<Put("plan", p), Put("errors", Reconcile(errors, p))>>

PutSynced(p, a) == IF Keeps(p) THEN <<>> ELSE PutPlan(SyncWorkItems(p, a))

(* Mutant: the document that replaces the old one is recorded. *)
PushNew(old, new) == <<Put("history", <<new>>)>>

(* push_architecture_history.                                              *)
Push(old, new) ==
  LET all == Append(history, old)
  IN  <<Put("history", IF Len(all) > HISTORY_MAX THEN Tail(all) ELSE all)>>

-----------------------------------------------------------------------------
(* The interview.                                                          *)

Fresh == [status |-> "interviewing", asked |-> "none", profile |-> 0,
          failed |-> FALSE, arch |-> NoArchitecture]

(* A first turn that failed is begun anew; another project only if the     *)
(* user says so.                                                           *)
FailedFirstTurn(b) ==
  b.failed \/ (b.status = "interviewing" /\ b.asked = "none"
               /\ b.arch.mods = {})

StartBootstrap ==
  \E restart \in BOOLEAN :
    /\ boot # Null /\ ~ restart => FailedFirstTurn(boot)
    /\ Serve("begin", <<Put("boot", [Fresh EXCEPT !.asked = "profile"])>>)

(* The streaming interview looks at nothing and asks no profile.           *)
StreamBootstrapStart == Ask("start", Fresh, Null, {}, <<>>)

Asked == /\ boot # Null /\ boot.status = "interviewing" /\ boot.asked # "none"

AnswerBootstrap ==
  /\ Asked
  /\ LET profile == boot.profile + 1
         next == [boot EXCEPT !.profile = profile,
                    !.asked = IF profile < Profile THEN "profile" ELSE "none"]
     IN  IF boot.profile = Profile THEN Ask("answer", boot, Null, {}, <<>>)
         ELSE IF profile < Profile THEN Serve("answer", <<Put("boot", next)>>)
         ELSE Ask("answer", next, Null, {}, <<>>)

StreamBootstrapAnswer == Asked /\ Ask("stream", boot, Null, {}, <<>>)

ReviseBootstrap == InReview /\ Ask("revise", boot, Null, {}, <<>>)

(* apply_architecture_model_result.                                        *)
Applied(b, a, ready) ==
  [b EXCEPT !.arch = a, !.failed = FALSE,
            !.status = IF ready THEN "review" ELSE "interviewing",
            !.asked = IF ready THEN "none" ELSE "design"]

(* validate_architecture_model_result: claims of the model's that the user *)
(* has not settled do not keep the interview from ending.                  *)
Drawn(raw) == [SimplifyEdges(NormalizeArchitecture(raw))
                 EXCEPT !.claims = raw.claims]
Acceptable(raw, ready) ==
  /\ Known(raw) /\ Cardinality(raw.mods) <= MaxModules
  /\ ready => Ready(raw) /\ Cardinality(raw.mods) >= MinModules

Turn(kind) ==
  \E raw \in Drafts, ready \in BOOLEAN :
    /\ Acceptable(raw, ready)
    /\ Resume(kind, <<Put("boot", Applied(call.boot, Drawn(raw), ready))>>)
    /\ UNCHANGED replaced

InterviewTurn ==
  \E kind \in {"start", "answer", "stream", "revise"} : Turn(kind)

(* Nothing is written when a model fails, but by answer_bootstrap.         *)
ModelFails ==
  \E kind \in Waits \ {"wave"} :
    /\ Resume(kind, IF kind # "answer" THEN <<>>
                    ELSE <<Put("boot", [call.boot EXCEPT !.failed = TRUE])>>)
    /\ replaced' = Null

-----------------------------------------------------------------------------
(* The gate.                                                               *)

(* One claim stands for all; it is settled in the draft if there is one.   *)
UpdateProvenance ==
  /\ Current # Null /\ Current.claims = "inferred"
  /\ LET settled == [Current EXCEPT !.claims = "settled"]
     IN  Serve("settle", IF HasModules(boot) THEN PutBoot(boot, settled)
                         ELSE <<Put("doc", settled)>>)

(* Mutant: the gate is passed as soon as the fields are there. *)
ConfirmAnything ==
  /\ InReview /\ boot.arch.whole
  /\ Serve("confirm", <<Put("boot", [boot EXCEPT !.status = "ready"])>>)

ConfirmBootstrap ==
  /\ InReview
  /\ Ready(boot.arch) /\ OwnersAreClear(boot.arch)
  /\ boot.arch.claims # "inferred"
  /\ Serve("confirm", <<Put("boot", [boot EXCEPT !.status = "ready"])>>)

(* architecture.json is written before the document tree is asked for, and *)
(* the rest after it.                                                      *)
FinalizeBootstrap ==
  /\ boot # Null /\ boot.status = "ready"
  /\ OwnersAreClear(boot.arch)
  /\ Ask("finalize", boot, Null, {}, <<Put("doc", boot.arch)>>)

(* Mutant: the work items are derived, the end is not recorded. *)
FinalizeForgets ==
  /\ call # Null /\ Resume("finalize", PutSynced(plan, call.boot.arch) \o
       <<Put("boot", [call.boot EXCEPT !.status = "initialized",
                                       !.arch.edges = {}])>>)
  /\ UNCHANGED replaced

Finalized ==
  /\ call # Null /\ Resume("finalize", PutSynced(plan, call.boot.arch) \o
       <<Put("boot", [call.boot EXCEPT !.status = "initialized"])>>)
  /\ UNCHANGED replaced

ReopenArchitectureReview ==
  /\ boot # Null /\ boot.status \in {"ready", "initialized"}
  /\ LET a == IF doc # Null /\ doc.mods # {} THEN doc ELSE boot.arch
     IN  Serve("reopen", <<Put("boot",
           [boot EXCEPT !.arch = a, !.asked = "none", !.status = "review"])>>)
-----------------------------------------------------------------------------
(* Editing the architecture.                                               *)

(* The document an edit replaces; the draft where there is no document.    *)
Previous(b, d) == IF d # Null THEN d ELSE b.arch

(* An edit outside the review: flags, history, document, draft.            *)
PutEdit(b, d, flagged, previous, new) ==
  <<Put("stale", flagged)>> \o Push(previous, new)
    \o <<Put("doc", new)>> \o PutBoot(b, new)

Editing(name, writes, gone) ==
  /\ Free
  /\ Write(name, writes)
  /\ served' = served + 1 /\ replaced' = gone
  /\ UNCHANGED <<files, call, cut>>

(* edit_architecture and its streaming twin: the model revises what there  *)
(* is, in any phase.  Its answer carries no claims.                        *)
EditArchitecture == Current # Null /\ Ask("edit", boot, Null, {}, <<>>)

(* validate_architecture_edit_result, then the preflight of the route.      *)
Revised(raw) == SimplifyEdges(NormalizeArchitecture(raw))

EditAcceptable(raw) ==
  /\ Known(raw) /\ Cardinality(raw.mods) <= MaxModules
  /\ Ready(Revised(raw)) /\ OwnersAreClear(Revised(raw))

EditAnswered ==
  /\ call # Null
  /\ \E raw \in Drafts :
      LET b == call.boot  d == call.doc
          old == Resolve(b, d)
          new == Revised(raw)
      IN  /\ EditAcceptable(raw)
          /\ Resume("edit",
               PutEdit(b, d, StaleAfterEdit(old, new), Previous(b, d), new)
                 \o PutSynced(plan, new))
          /\ replaced' = Previous(b, d)

(* The requirement is changed in the very object that was read: without a  *)
(* draft, or without a document, that is also the one for the history.     *)
UpdateModuleRequirement ==
  /\ Current # Null
  /\ \E m \in Current.mods : \E t \in Text \ {Current.text[m]} :
      LET new == [Current EXCEPT !.text[m] = t]
          previous == IF HasModules(boot) /\ doc # Null THEN doc ELSE new
      IN  Editing("requirement", PutEdit(boot, doc,
            StaleAfterModuleEdit(new, m), previous, new), Null)

(* Mutant: the flags are written last. *)
FlagsLast(name, raw) ==
  LET old == Current
      new == [NormalizeArchitecture(raw) EXCEPT !.claims = old.claims]
      flags == <<Put("stale", StaleAfterEdit(old, new))>>
  IN  /\ Known(raw) /\ Cardinality(new.mods) <= MaxModules
      /\ InReview => Cardinality(new.mods) >= MinModules
      /\ IF InReview THEN Editing(name, PutBoot(boot, new) \o flags, Null)
         ELSE Editing(name, Push(Previous(boot, doc), new)
                \o <<Put("doc", new)>> \o PutBoot(boot, new)
                \o PutSynced(plan, new) \o flags,
              Previous(boot, doc))

(* _commit_direct_architecture_edit, after the counts that only            *)
(* update_architecture_nodes looks at.  In review only the draft changes.  *)
CommitDirect(name, raw) ==
  LET old == Current
      new == [NormalizeArchitecture(raw) EXCEPT !.claims = old.claims]
      flagged == StaleAfterEdit(old, new)
  IN  /\ Known(raw)
      /\ name = "node" => /\ Cardinality(new.mods) <= MaxModules
                          /\ InReview => Cardinality(new.mods) >= MinModules
      /\ IF InReview
         THEN Editing(name,
                <<Put("stale", flagged)>> \o PutBoot(boot, new), Null)
         ELSE Editing(name,
                PutEdit(boot, doc, flagged, Previous(boot, doc), new)
                  \o PutSynced(plan, new),
                Previous(boot, doc))

(* uncertain; accept and reason of an edge.                                *)
Touch(name) == Current # Null /\ CommitDirect(name, Current)

Rename ==
  /\ Current # Null
  /\ \E m \in Current.mods : \E l \in Label \ {Current.label[m]} :
       CommitDirect("node", [Current EXCEPT !.label[m] = l])

SetResponsibility ==
  /\ Current # Null
  /\ \E m \in Current.mods : \E t \in Text \ {Current.text[m]} :
       CommitDirect("node", [Current EXCEPT !.text[m] = t])

Without(a, m) ==
  [Only(a, a.mods \ {m}) EXCEPT
     !.deps = [n \in Module |-> IF n = m THEN {} ELSE a.deps[n] \ {m}],
     !.edges = {e \in a.edges : m \notin {e.from, e.to}}]

DeleteModule ==
  /\ Current # Null
  /\ \E m \in Current.mods : CommitDirect("node", Without(Current, m))

(* The target takes over the texts, the edges and the dependencies of the  *)
(* source, not its files.                                                  *)
MergedModules(a, m, s, t) ==
  LET At(n) == IF n = s THEN m ELSE n
      moved == {[e EXCEPT !.from = At(@), !.to = At(@)] : e \in a.edges}
      deps == [n \in Module |-> {At(d) : d \in a.deps[n]} \ {n}]
  IN  [Only(a, a.mods \ {s}) EXCEPT
         !.text[m] = t,
         !.deps = [n \in Module |->
                     IF n = m THEN deps[m] \cup (a.deps[s] \ {m})
                     ELSE IF n = s THEN {} ELSE deps[n]],
         !.edges = {e \in moved : e.from # e.to}]

MergeModules ==
  /\ Current # Null
  /\ \E m, s \in Current.mods, t \in Text :
       /\ m # s /\ t # Current.text[m]
       /\ CommitDirect("node", MergedModules(Current, m, s, t))

(* Both halves take over the edges, the dependencies, the files and the    *)
(* verification; the name of a half goes with its id.                      *)
SplitModules(a, m, x, y, t) ==
  LET halves == {x, y}
      Parts(n) == IF n = m THEN halves ELSE {n}
      mods == (a.mods \ {m}) \cup halves
      Source(n) == IF n \in halves THEN m ELSE n
      At(S) == UNION {Parts(n) : n \in S}
  IN  [a EXCEPT
         !.mods = mods,
         !.text = [n \in Module |-> IF n \in halves THEN t
                                    ELSE IF n = m THEN 0 ELSE a.text[n]],
         !.label = [n \in Module |-> IF n \in mods THEN a.label[Source(n)]
                                     ELSE 0],
         !.deps = [n \in Module |-> IF n \in mods THEN At(a.deps[Source(n)])
                                    ELSE {}],
         !.files = [n \in Module |-> IF n \in mods THEN a.files[Source(n)]
                                     ELSE {}],
         !.edges = UNION {[from : Parts(e.from), to : Parts(e.to),
                           kind : {e.kind}] : e \in a.edges}]

SplitModule ==
  /\ Current # Null /\ Cardinality(Current.mods) < MaxModules
  /\ \E m \in Current.mods, x, y \in Module \ Current.mods, t \in Text :
       x < y /\ CommitDirect("node", SplitModules(Current, m, x, y, t))

(* The first edge of the pair gets another kind.                           *)
RetypeEdge ==
  /\ Current # Null
  /\ \E e \in Current.edges, k \in {"uses", "event"} :
       CommitDirect("edge", [Current EXCEPT !.edges =
         (@ \ {e}) \cup {[e EXCEPT !.kind = k]}])

DeleteEdge ==
  /\ Current # Null
  /\ \E e \in Current.edges :
       CommitDirect("edge", [Current EXCEPT
         !.edges = {x \in @ : ~ (x.from = e.from /\ x.to = e.to)},
         !.deps[e.from] = @ \ {e.to}])

UpdateArchitectureNodes ==
  \/ Touch("node") \/ Rename \/ SetResponsibility
  \/ DeleteModule \/ MergeModules \/ SplitModule

UpdateArchitectureEdges == Touch("edge") \/ RetypeEdge \/ DeleteEdge

(* Pops the history, and only then writes what was popped.                 *)
UndoArchitecture ==
  /\ history # <<>>
  /\ LET a == Last(history)
     IN  Editing("undo", <<Put("history", Front(history)), Put("doc", a)>>
           \o PutBoot(boot, a) \o <<Put("stale", {})>>,
         IF handler \in {"edit", "node", "edge"} THEN replaced ELSE Null)

ClearStale ==
  \E S \in (SUBSET stale) \ {{}} : Serve("clear", <<Put("stale", stale \ S)>>)
-----------------------------------------------------------------------------
(* Planning.                                                               *)

(* main.py routes neither plan_tasks nor confirm_tasks: they are offered to *)
(* whoever imports the package.                                            *)
PlanTasks ==
  /\ Current # Null /\ MayPlan(plan)
  /\ \/ Ask("plan", boot, plan, Current.mods, <<>>)
     \/ \E m \in Current.mods : Ask("plan", boot, plan, {m}, <<>>)

OrchestrateTasks ==
  /\ Current # Null /\ MayPlan(plan)
  /\ \/ Ask("orchestrate", boot, plan, Current.mods, <<>>)
     \/ \E m \in Current.mods :
          Ask("orchestrate", boot, plan, ScopeModuleIds(Current, m), <<>>)

(* A plan for all modules replaces the old one; any other is merged into   *)
(* the copy of the old one.  The new tasks follow the dependencies of the  *)
(* modules, or stand alone.                                                *)
TasksPlanned ==
  /\ call # Null /\ call.kind \in {"plan", "orchestrate"}
  /\ LET a == Resolve(call.boot, call.doc)
         whole == call.kind = "plan" /\ call.scope = a.mods
     IN  \E S \in (SUBSET call.scope) \ {{}}, chained \in BOOLEAN :
           LET deps == [m \in Module |->
                         IF chained THEN a.deps[m] \cap S ELSE {}]
               new == Planned(S, deps)
               p == IF whole THEN new ELSE Merged(call.plan, new, call.scope)
           IN  /\ Valid(new) /\ Valid(p)
               /\ Resume(call.kind, PutPlan(p))
  /\ UNCHANGED replaced

ConfirmTasks ==
  /\ plan # Null /\ plan.status = "planned"
  /\ Serve("task", PutPlan([plan EXCEPT !.status = "confirmed"]))

(* A micro task is confirmed as it is made, written without the error      *)
(* nodes, and written again with the plan's copy when the model is done,   *)
(* was stopped or hands the request over to the conversation.              *)
DispatchMicroTask ==
  /\ Current # Null /\ (plan # Null => plan.item[Micro] = "none")
  /\ \E m \in Current.mods :
       LET p == AppendMicro(plan, m)
       IN  Ask("micro", boot, p, {m}, <<Put("plan", p)>>)

MicroTaskDone ==
  /\ call # Null
  /\ \E s \in {"review", "pending", "blocked"} :
       Resume("micro", <<Put("plan", [call.plan EXCEPT !.item[Micro] = s])>>)
  /\ UNCHANGED replaced

-----------------------------------------------------------------------------
(* The work, as far as a plan is concerned by it.                          *)

SetItems(p, S, s) ==
  [p EXCEPT !.item = [i \in Id |-> IF i \in S THEN s ELSE p.item[i]]]

Running(p) == {i \in Items(p) : p.item[i] = "running"}

(* A wave derives the plan anew, blocks what is stale, takes up what a     *)
(* stopped server left, and starts what is ready.                          *)
StartWave ==
  /\ Current # Null
  /\ LET synced == SyncWorkItems(plan, Current)
         marked == MarkStale(synced, stale)
         p == SetItems(marked, Running(marked), "pending")
         begun == SetItems(p, ReadyItems(p), "running")
     IN  IF synced.status \notin {"confirmed", "review"}
         THEN Serve("task", PutSynced(plan, Current))
         ELSE IF ReadyItems(p) = {}
         THEN Serve("task", PutSynced(plan, Current)
                              \o PutPlan([p EXCEPT !.status = "review"]))
         ELSE Ask("wave", boot, begun, {},
                  PutSynced(plan, Current) \o PutPlan(begun))

(* The wave ends with its own copy of the plan.                            *)
WaveEnds ==
  /\ call # Null /\ call.kind = "wave"
  /\ \E result \in [Running(call.plan) -> Outcome] :
       Resume("wave", PutPlan([call.plan EXCEPT !.item =
         [i \in Id |-> IF i \in DOMAIN result THEN result[i] ELSE @[i]]]))
  /\ UNCHANGED replaced

(* Every request about a task blocks stale items in its copy first.        *)
ApplyTaskPatch ==
  /\ plan # Null
  /\ LET p == MarkStale(plan, stale)
     IN  \E i \in Items(p) :
           /\ p.item[i] = "review"
           /\ Serve("task", PutPlan(SetItems(p, {i}, "applied")))

RetryTask ==
  /\ plan # Null
  /\ \E i \in Items(plan), s \in Outcome :
       /\ plan.item[i] \in {"failed", "blocked"}
       /\ Serve("task", PutPlan(SetItems(plan, {i}, s)))
-----------------------------------------------------------------------------
(* A new directory, a user's own document, or a project before or after    *)
(* the finalization that derives its work.                                 *)
Begun(a, status) ==
  [Fresh EXCEPT !.status = status, !.profile = Profile, !.arch = a]

Init ==
  /\ \/ boot = Null /\ plan = Null
        /\ doc \in {Null, MigrateArchitectureShape(Handmade, {})}
     \/ \E raw \in {x \in Drafts : Acceptable(x, TRUE)} :
          LET a == [Drawn(raw) EXCEPT !.claims = "settled"]
          IN  \/ boot = Begun(a, "ready") /\ doc = Null /\ plan = Null
              \/ /\ boot = Begun(a, "initialized") /\ doc = a
                 /\ plan = SyncWorkItems(Null, a)
  /\ history = <<>> /\ stale = {} /\ errors = {}
  /\ handler = "none" /\ pending = <<>> /\ call = Null
  /\ served = 0 /\ cut = FALSE /\ replaced = Null

Interview == \/ StartBootstrap \/ StreamBootstrapStart \/ AnswerBootstrap
             \/ StreamBootstrapAnswer \/ ReviseBootstrap \/ InterviewTurn
Gate == \/ UpdateProvenance \/ ConfirmBootstrap \/ FinalizeBootstrap
        \/ Finalized \/ ReopenArchitectureReview
Edition == \/ EditArchitecture \/ EditAnswered \/ UpdateModuleRequirement
           \/ UpdateArchitectureNodes \/ UpdateArchitectureEdges
           \/ UndoArchitecture \/ ClearStale
Work == \/ PlanTasks \/ OrchestrateTasks \/ TasksPlanned \/ ConfirmTasks
        \/ DispatchMicroTask \/ MicroTaskDone \/ StartWave \/ WaveEnds
        \/ ApplyTaskPatch \/ RetryTask

(* The project is at rest, and its user has had enough.                    *)
Done == /\ served = MaxRequests /\ pending = <<>> /\ call = Null
        /\ UNCHANGED vars

Next == Interview \/ Gate \/ Edition \/ Work \/ ModelFails \/ WriteNext
        \/ Crash \/ Done

Spec == Init /\ [][Next]_vars
-----------------------------------------------------------------------------
(* The canvas shows the architecture of the draft, or of the document.     *)
Shown == IF Current = Null THEN NoArchitecture ELSE Current

Quiet == pending = <<>> /\ call = Null

Unsettled(a) == [a EXCEPT !.claims = "none"]

(* After any sequence of complete requests, a built project has one        *)
(* architecture: the draft the canvas shows and work is planned from, and  *)
(* the document that undo, the documents and other tools read, agree in    *)
(* all but the claims, which are settled in the draft only.                *)
OneArchitecture ==
  Quiet /\ ~ cut /\ boot # Null /\ boot.status = "initialized" =>
    doc # Null /\ Unsettled(doc) = Unsettled(boot.arch)

(* No edit is ever seen without its flags, not even when the server stops  *)
(* in the middle of it: from the moment the canvas shows the new           *)
(* architecture, every module that the comparison reports as added,        *)
(* removed or changed, or that depends on one that is, however indirectly, *)
(* is flagged.  Not so a module of which only the name or the verification *)
(* is another: the comparison reports it as changed, nothing is flagged.   *)
(* Edges decide what is flagged (_stale_after_edit); here it is the        *)
(* dependencies, unless those and the edges form a cycle, when the edge of *)
(* a dependency may have been dropped to break it.                         *)
EditIsFlagged ==
  [][(/\ handler \in Edits /\ Shown' # Shown
      /\ ~ Cyclic(DependsOn(Shown') \cup (Shown').edges)) =>
       LET delta == CompareArchitectures(Shown, Shown')
           told == delta.added \cup delta.removed
                     \cup (delta.changed \ delta.relabelled)
       IN  Dependents(DependsOn(Shown'), told) \subseteq stale']_vars

(* The undo that follows an edit gives back the document the edit          *)
(* replaced, in the document and in the draft (undo_architecture: "Every   *)
(* accepted edit pushes the document it replaced").                        *)
UndoRestores ==
  Quiet /\ handler = "undo" /\ replaced # Null =>
    doc = replaced /\ (boot # Null => boot.arch = replaced)

(* Whoever writes tasks.json, and whether or not it is the plan's own      *)
(* writer, a module has an active error node exactly when a task of it has *)
(* failed.                                                                 *)
FailedIsShown ==
  Quiet /\ ~ cut => errors = IF plan = Null THEN {} ELSE Owners(plan)

PassesGate(a) == Ready(a) /\ OwnersAreClear(a) /\ a.claims # "inferred"

Lifecycle == INSTANCE ProjectLifecycle WITH
  request <- handler,
  phase <- IF boot = Null THEN "none" ELSE boot.status,
  drawn <- Shown,
  Drawing <- Architecture,
  Nothing <- NoArchitecture,
  Design <- Unsettled,
  Confirmable <- PassesGate

(* The requests implement the abstract life of a project, each its own     *)
(* part of it: a project is confirmed only as it is shown in the review    *)
(* and when it passes the gate, and is built only from there; in between   *)
(* what is shown changes by the user's own edits alone (or is reviewed     *)
(* again); and no edit moves a project to another phase                    *)
(* (edit_architecture: "loosening those would let a finished project fall  *)
(* back into interviewing").                                               *)
ProjectSpec == Lifecycle!Spec

(* "marks the edited module plus every build-order dependent stale, which  *)
(* blocks their tasks until re-confirmed" (update_module_requirement): a   *)
(* flag goes only when the user clears it, undoes the edit, or the module  *)
(* goes.                                                                   *)
StaleUntilConfirmed ==
  [][~ cut /\ handler \notin {"clear", "undo"} =>
       (stale \cap (Shown.mods)' \subseteq stale')]_vars

(* "Hold position rather than advancing: a failed call must not consume    *)
(* the turn" (answer_bootstrap): an interview whose last turn failed still *)
(* has a question to answer.                                               *)
FailedTurnKeepsItsQuestion ==
  boot # Null /\ boot.failed /\ boot.status = "interviewing" =>
    boot.asked # "none"

(* Work can only start in an order: no item waits for itself.              *)
PlanIsOrdered == plan # Null => ~ Cyclic(DependencyEdges(plan))
=============================================================================
