-------------------------- MODULE ArchitectureGraph --------------------------
(***************************************************************************)
(* The architecture of a project as core.py normalises and judges it, and  *)
(* what the routes compute from it: the modules an edit makes stale, the   *)
(* owners of the files, the scope of an orchestration.  No variables.      *)
(*                                                                         *)
(* Modules are numbers, in the order of their ids.  A module's texts       *)
(* (responsibility, brief, path, needs_ui) are one version number, its     *)
(* name and its verification another, the label; a target file is named    *)
(* after the module it was planned for.  The claims of the model about the *)
(* project (provenance) are absent, waiting for the user or settled.       *)
(* Groups and what an edge says are left out, and a rename makes no module *)
(* an entry or a composition root.                                         *)
(***************************************************************************)
EXTENDS Naturals, Sequences, FiniteSets

CONSTANTS
  Module,          \* ids of modules
  Entry,           \* modules named like an entry page or shell
  Composer,        \* modules named like a composition root
  Text,            \* versions of a module's texts
  Label,           \* versions of a module's name and verification
  MinModules, MaxModules   \* MIN_ and MAX_FIRST_VERSION_MODULES

(* With several composition roots, the order of a set decides which edges  *)
(* simplification drops.                                                   *)
ASSUME GraphAssumption ==
  /\ Module \subseteq Nat /\ IsFiniteSet(Module)
  /\ Entry \subseteq Module /\ Composer \subseteq Module
  /\ Cardinality(Composer) <= 1
  /\ Text \subseteq Nat \ {0} /\ Text # {}
  /\ Label \subseteq Nat \ {0} /\ Label # {}
  /\ {MinModules, MaxModules} \subseteq Nat \ {0} /\ MinModules <= MaxModules

EDGE_KIND_PRIORITY ==
  [uses |-> 0, extends |-> 1, data |-> 2, blocks |-> 3, event |-> 4]
Alphabetic ==
  [blocks |-> 0, data |-> 1, event |-> 2, extends |-> 3, uses |-> 4]
Kind == DOMAIN Alphabetic
BUILD_ORDER_EDGE_TYPES == Kind \ {"event"}
Edge == [from : Module, to : Module, kind : Kind]

Architecture == [
  mods : SUBSET Module,
  text : [Module -> Text \cup {0}],
  label : [Module -> Label \cup {0}],
  deps : [Module -> SUBSET Module],    \* depends_on
  files : [Module -> SUBSET Module],   \* target_files
  edges : SUBSET Edge,
  whole : BOOLEAN,    \* the required fields are there, nothing is unresolved
  claims : {"none", "inferred", "settled"}]

NoArchitecture ==
  [mods |-> {},
   text |-> [m \in Module |-> 0], label |-> [m \in Module |-> 0],
   deps |-> [m \in Module |-> {}], files |-> [m \in Module |-> {}],
   edges |-> {}, whole |-> FALSE, claims |-> "none"]

(* What belongs to modules that are there.                                 *)
Only(a, S) ==
  [a EXCEPT !.mods = S,
            !.text = [m \in Module |-> IF m \in S THEN a.text[m] ELSE 0],
            !.label = [m \in Module |-> IF m \in S THEN a.label[m] ELSE 0],
            !.deps = [m \in Module |-> IF m \in S THEN a.deps[m] ELSE {}],
            !.files = [m \in Module |-> IF m \in S THEN a.files[m] ELSE {}]]

-----------------------------------------------------------------------------
(* Paths along edges.                                                      *)

(* The modules that a chain of edges of E leads to from S, with S.         *)
ReachedFrom(E, S) ==
  LET Round[n \in 0 .. Cardinality(Module)] ==
        IF n = 0 THEN S
        ELSE LET before == Round[n - 1]
             IN  before \cup {e.to : e \in {x \in E : x.from \in before}}
  IN  Round[Cardinality(Module)]

Reversed(E) == {[from |-> e.to, to |-> e.from, kind |-> e.kind] : e \in E}

Reaches(E, m, n) == n \in ReachedFrom(E, {m})

BuildOrder(E) == {e \in E : e.kind \in BUILD_ORDER_EDGE_TYPES}

Cyclic(E) == \E e \in E : Reaches(E, e.to, e.from)

DependsOn(a) ==
  {e \in [from : a.mods, to : a.mods, kind : {"uses"}] :
     e.to \in a.deps[e.from]}

-----------------------------------------------------------------------------
(* Normalising what a model, a user or an old file says.                   *)

EdgesFromModules(a) ==
  UNION {{[from |-> m, to |-> d, kind |-> "uses"] : d \in a.deps[m]} :
           m \in a.mods}

EdgeLess(e, f) ==
  \/ e.from < f.from
  \/ e.from = f.from /\ e.to < f.to
  \/ e.from = f.from /\ e.to = f.to /\ Alphabetic[e.kind] < Alphabetic[f.kind]

(* The edges one after the other, each kept unless it closes a cycle of    *)
(* the build order.                                                        *)
BreakBuildOrderCycles(E) ==
  LET Kept[e \in BuildOrder(E)] ==
        ~ Reaches({f \in BuildOrder(E) : EdgeLess(f, e) /\ Kept[f]},
                  e.to, e.from)
  IN  (E \ BuildOrder(E)) \cup {e \in BuildOrder(E) : Kept[e]}

(* normalize_architecture raises for a reference to an unknown module.     *)
Known(a) ==
  /\ \A m \in a.mods : a.deps[m] \subseteq a.mods
  /\ \A e \in a.edges : {e.from, e.to} \subseteq a.mods

(* Typed edges, then a uses edge for each dependency without one.  The     *)
(* claims are not a field of the normalised architecture.                  *)
NormalizeArchitecture(a) ==
  LET deps == [m \in Module |-> a.deps[m] \ {m}]
      declared == {e \in a.edges : e.from # e.to}
      derived == {e \in EdgesFromModules([a EXCEPT !.deps = deps]) :
                    ~ \E f \in declared : f.from = e.from /\ f.to = e.to}
  IN  [a EXCEPT !.deps = deps, !.claims = "none",
                !.edges = BreakBuildOrderCycles(declared \cup derived)]

(* One edge per pair, the most telling kind; and an entry module does not  *)
(* repeat, as a load order, what the composition root already leads to.    *)
(* The code also knows a load order by its label; labels are left out, and *)
(* a blocks edge stands for any load order.                                *)
SimplifyEdges(a) ==
  LET best == {e \in a.edges : \A f \in a.edges :
                 f.from = e.from /\ f.to = e.to =>
                   EDGE_KIND_PRIORITY[e.kind] <= EDGE_KIND_PRIORITY[f.kind]}
      Repeats(e, c) ==
        /\ e.from \in Entry /\ e.to # c /\ e.kind = "blocks"
        /\ \/ \E f \in best : f.from = e.from /\ f.to = c
           \/ Reaches(BuildOrder(best), e.from, c)
        /\ Reaches(BuildOrder(best), c, e.to)
  IN  [a EXCEPT !.edges =
         {e \in best : ~ \E c \in Composer \cap a.mods : Repeats(e, c)}]

(* A file from before the graph: no edges, or prose about dependencies     *)
(* (here already as edges) of which the unknown ends are dropped.          *)
MigrateArchitectureShape(a, prose) ==
  LET old == {e \in prose : e.from # e.to /\ {e.from, e.to} \subseteq a.mods}
  IN  [a EXCEPT !.edges =
         old \cup {e \in EdgesFromModules(a) : e.to \in a.mods}]

-----------------------------------------------------------------------------
(* Judging an architecture.                                                *)

Ready(a) == a.whole /\ a.mods # {}

(* No file is a target of two modules.  The check of the verification      *)
(* commands is left to whole.                                              *)
OwnersAreClear(a) ==
  \A m, n \in a.mods : m # n => a.files[m] \cap a.files[n] = {}

-----------------------------------------------------------------------------
(* What follows from an edit.                                              *)

Dependents(E, S) == ReachedFrom(Reversed(E), S)

(* Looks at the responsibility, the brief, the path, the dependencies and  *)
(* needs_ui: neither at the name nor at the verification.                  *)
Changed(old, new) ==
  {m \in old.mods \cup new.mods :
     \/ m \notin old.mods \cap new.mods
     \/ old.text[m] # new.text[m]
     \/ old.deps[m] # new.deps[m]}

(* What the user is told of an edit.  A module that got another name or    *)
(* another verification has changed like one with another responsibility;  *)
(* the fields that are named tell them apart.  A module that only got      *)
(* other files has moved; one that got another path has too, here with its *)
(* texts.                                                                  *)
CompareArchitectures(old, new) ==
  LET kept == old.mods \cap new.mods
      reworked == {m \in kept : \/ old.text[m] # new.text[m]
                               \/ old.deps[m] # new.deps[m]}
      semantic == reworked \cup {m \in kept : old.label[m] # new.label[m]}
  IN  [added    |-> new.mods \ old.mods,
       removed  |-> old.mods \ new.mods,
       changed  |-> semantic,
       relabelled |-> semantic \ reworked,   \* changed in nothing else
       moved    |-> {m \in kept \ semantic : old.files[m] # new.files[m]},
       linked   |-> new.edges \ old.edges,
       unlinked |-> old.edges \ new.edges]

(* Mutant: only what depends on a change directly. *)
DirectlyStale(old, new) ==
  LET changed == Changed(old, new)
  IN  changed \cup {e.from : e \in {x \in new.edges : x.to \in changed}}

StaleAfterEdit(old, new) == Dependents(new.edges, Changed(old, new))

StaleAfterModuleEdit(a, m) == Dependents(a.edges, {m})

-----------------------------------------------------------------------------
(* The part of the architecture a plan is made for.                        *)

ScopeModuleIds(a, m) ==
  ReachedFrom(DependsOn(a) \cup Reversed(DependsOn(a)), {m})
=============================================================================
