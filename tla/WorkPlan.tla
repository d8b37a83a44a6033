------------------------------ MODULE WorkPlan ------------------------------
(***************************************************************************)
(* tasks.json as a plan: how it is derived from the architecture, written  *)
(* by a planning or an orchestrating model, confirmed, extended by a micro *)
(* task, and what error_nodes.json says about it.  The work itself is the  *)
(* subject of TaskFlow; of an item this module keeps the part of its       *)
(* status that a plan depends on.  No variables.                           *)
(*                                                                         *)
(* An item has the id of its module, or is the micro task (only one at a   *)
(* time here).  A planning model splits a module into several tasks; here  *)
(* a module has at most one.                                               *)
(***************************************************************************)
EXTENDS ArchitectureGraph

CONSTANTS Micro,   \* the id of a micro task
          Null     \* no such file

ASSUME PlanAssumption == Micro \notin Module

Id == Module \cup {Micro}
ItemStatus ==
  {"pending", "running", "review", "applied", "failed", "blocked"}
DoneStatus == {"applied"}   \* also verified and rejected, not told apart

Plan == [
  source : {"architecture", "plan"},   \* derived, or written by a model
  status : {"planned", "confirmed", "review", "done"},
  item : [Id -> ItemStatus \cup {"none"}],   \* "none": not in the plan
  deps : [Id -> SUBSET Id],
  owner : Module \cup {Null}]   \* the module of the micro task

Items(p) == {i \in Id : p.item[i] # "none"}
ModuleOf(p, i) == IF i = Micro THEN p.owner ELSE i

NewItems(source, status, S, deps) ==
  [source |-> source, status |-> status,
   item |-> [i \in Id |-> IF i \in S THEN "pending" ELSE "none"],
   deps |-> [i \in Id |-> IF i \in S THEN deps[i] ELSE {}],
   owner |-> Null]

DependencyEdges(p) ==
  {e \in [from : Module, to : Module, kind : {"uses"}] :
     e.to \in p.deps[e.from]}

AllDone(p) == \A i \in Items(p) : p.item[i] \in DoneStatus

-----------------------------------------------------------------------------
(* sync_work_items_from_architecture.                                      *)

(* A plan a model wrote is kept; any other is derived anew: an item per    *)
(* module, with the status the item of that id had.                        *)
Keeps(p) == p # Null /\ p.source = "plan" /\ Items(p) # {}

SyncWorkItems(p, a) ==
  IF Keeps(p) THEN p
  ELSE LET old == [i \in Id |-> IF p = Null THEN "none" ELSE p.item[i]]
           item == [i \in Id |-> IF i \notin a.mods THEN "none"
                                 ELSE IF old[i] = "none" THEN "pending"
                                 ELSE old[i]]
           new == [NewItems("architecture", "confirmed", a.mods,
                            [m \in Module |-> a.deps[m] \cap a.mods])
                     EXCEPT !.item = item]
       IN  [new EXCEPT !.status =
              IF Items(new) # {} /\ AllDone(new) THEN "done" ELSE "confirmed"]

(* mark_stale_tasks.                                                       *)
MarkStale(p, stale) ==
  [p EXCEPT !.item = [i \in Id |->
     IF /\ p.item[i] \in {"pending", "running", "review"}
        /\ ModuleOf(p, i) \in stale
     THEN "blocked" ELSE p.item[i]]]

ReadyItems(p) ==
  {i \in Items(p) : /\ p.item[i] = "pending"
                    /\ \A j \in p.deps[i] : p.item[j] \in DoneStatus}

-----------------------------------------------------------------------------
(* Plans that a model writes.                                              *)

(* plan_tasks and orchestrate_tasks refuse while a plan is in progress.    *)
MayPlan(p) == p # Null => p.status \notin {"confirmed", "review"}

(* normalize_task_plan: S of the modules, with acyclic dependencies among  *)
(* the new tasks; a module without a task is allowed.                      *)
Planned(S, deps) == NewItems("plan", "planned", S, deps)
Valid(p) == /\ Items(p) # {} /\ ~ Cyclic(DependencyEdges(p))
            /\ \A i \in Items(p) : p.deps[i] \subseteq Items(p)

(* _merge_planned_module and merge_planned_modules: the new tasks of the   *)
(* modules in scope beside the old tasks of all others.                    *)
Merged(old, new, scope) ==
  LET kept == IF old = Null THEN {}
              ELSE {i \in Items(old) : ModuleOf(old, i) \notin scope}
  IN  [source |-> "plan", status |-> "planned",
       item |-> [i \in Id |-> IF i \in kept THEN old.item[i] ELSE new.item[i]],
       deps |-> [i \in Id |-> IF i \in kept THEN old.deps[i] ELSE new.deps[i]],
       owner |-> IF Micro \in kept THEN old.owner ELSE Null]

-----------------------------------------------------------------------------
(* A micro task is appended to what tasks.json says, without reading the   *)
(* plan's state; where there is no file it makes one that names no source. *)
AppendMicro(p, m) ==
  LET old == IF p = Null THEN Planned({}, [i \in Id |-> {}]) ELSE p
  IN  [old EXCEPT !.item[Micro] = "pending", !.deps[Micro] = {},
                  !.owner = m, !.status = "confirmed"]

-----------------------------------------------------------------------------
(* Error nodes.  A node belongs to a module: after a reconciliation the    *)
(* active ones are those of the failed items.                              *)
Owners(p) == {ModuleOf(p, i) : i \in {x \in Items(p) : p.item[x] = "failed"}}

(* Mutant: an error is only ever added. *)
NeverResolved(nodes, p) == nodes \cup Owners(p)

Reconcile(nodes, p) ==
  LET refreshed == nodes \cup Owners(p)
      resolved == {m \in nodes : m \notin Owners(p)}
  IN  refreshed \ resolved
=============================================================================
