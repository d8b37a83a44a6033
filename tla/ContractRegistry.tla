-------------------------- MODULE ContractRegistry --------------------------
(***************************************************************************)
(* The life of contracts.json.  It is written when a project is created or *)
(* imported; every landed patch rewrites it, with the exports the lint     *)
(* found undeclared (task_patch._merge_contract_delta); agents apply       *)
(* batches of deltas under a lock file (contract_registry.                 *)
(* apply_deltas_atomically); reconciliation stamps its entries.            *)
(*                                                                         *)
(* A landing reads the registry for the lint, reads it again to merge, and *)
(* writes what it merged with its files (FileLanding has the parts of that *)
(* write): without the lock, and without a look at what the registry has   *)
(* become.  The deltas are modelled step by step: the lock is a file       *)
(* created exclusively, removed by its holder, or by a waiter that found   *)
(* it older than LOCK_AGE.  Time is not counted: a lock may grow old at    *)
(* any moment, and a waiter's 30 seconds may end whenever it finds the     *)
(* lock taken.                                                             *)
(***************************************************************************)
EXTENDS Contracts

CONSTANTS
  Writer,         \* threads or processes that apply deltas
  Lander,         \* requests that land a patch or reconcile
  Batches,        \* the batches of deltas they are given
  Patches,        \* the patches that are offered: [file, text]
  Architectures,  \* what a project may start from
  MaxCalls,       \* bound: calls of apply_deltas_atomically
  MaxCrashes,     \* bound: writers that die in it
  MaxMisreads,    \* bound: reads in it that fail
  MaxLandings     \* bound: patches and reconciliations

ASSUME RegistryAssumption ==
  /\ Batches \subseteq Seq(Delta) \ {<<>>}
  /\ \A p \in Patches : p.file \in File /\ p.text \in Text
  /\ \A a \in Architectures :
       /\ a.depends_on \in UNION {[S -> SUBSET Module] : S \in SUBSET Module}
       /\ a.sources \in [File -> Text \cup {Null}]
       /\ ~ a.imported => a.scaffold \in [File -> Text \cup {Null}]
       /\ \A m \in DOMAIN a.depends_on : a.declared_exports[m] \subseteq Symbol
  /\ {MaxCalls, MaxCrashes, MaxMisreads, MaxLandings} \subseteq Nat
  /\ Writer \cap Lander = {} /\ Null \notin Patches
  /\ Null \notin Writer /\ \A S \in SUBSET File : S # Null
  /\ Null \notin [by: Writer \cup {Null}, aged: BOOLEAN]

VARIABLES
  file,      \* contracts.json, Null while there is none
  disk,      \* the Python files of the project
  scanned,   \* the files the import scan knows; Null: no project yet
  notes,     \* unresolved notes about upstream changes
  lock,      \* the lock file: who made it (Null: dead), and is it old
  call,      \* per writer, the call it is in
  landing,   \* per lander, what it lands and what it will write
  robbed,    \* history: a live lock was removed
  misled,    \* history: who works from a registry that is not the one on
             \* disk, for a reason that no lock prevents
  calls, crashes, misreads, landings

project == <<disk, scanned, notes>>
bounds == <<calls, crashes, misreads, landings>>
vars == <<file, project, lock, call, landing, robbed, misled, bounds>>

NoCall == [pc |-> "idle", batch |-> <<>>, expected |-> Null, view |-> Null]
NoLanding == [pc |-> "idle", patch |-> Null, names |-> {}, out |-> Null]

\* Those between their read of the registry and their write.
Reading == {w \in Writer : call[w].pc = "read"}
Merging == {l \in Lander : landing[l].pc = "merged"}

TypeOK ==
  /\ file \in Registry \cup {Null}
  /\ disk \in [File -> Text \cup {Null}]
  /\ scanned = Null \/ scanned \in SUBSET File
  /\ \A n \in notes : n.to \in Module /\ n.names \subseteq Symbol
  /\ lock = Null \/ lock \in [by: Writer \cup {Null}, aged: BOOLEAN]
  /\ \A w \in Writer :
       /\ call[w].pc \in {"idle", "waiting", "reaping", "locked", "read",
                          "leaving"}
       /\ call[w].batch \in Batches \cup {<<>>}
       /\ call[w].view \in Registry \cup {Null}
  /\ \A l \in Lander :
       /\ landing[l].pc \in {"idle", "checked", "merged", "over"}
       /\ landing[l].patch \in Patches \cup {Null}
       /\ landing[l].names \subseteq Symbol
       /\ landing[l].out \in Registry \cup {Null}
  /\ robbed \in BOOLEAN
  /\ misled \subseteq Reading \cup Merging

Init ==
  /\ file = Null
  /\ disk = [f \in File |-> Null]
  /\ scanned = Null
  /\ notes = {}
  /\ lock = Null
  /\ call = [w \in Writer |-> NoCall]
  /\ landing = [l \in Lander |-> NoLanding]
  /\ robbed = FALSE
  /\ misled = {}
  /\ calls = 0 /\ crashes = 0 /\ misreads = 0 /\ landings = 0

-----------------------------------------------------------------------------
(* Creation, landings and reconciliation                                   *)

\* A registry that does not normalise is not written: the request fails.
Write(r) == file' = IF Readable(r) THEN Normalised(r) ELSE file

Begin(a) ==
  /\ scanned = Null
  /\ scanned' = Scan(a.sources)
  /\ IF a.imported
     THEN /\ disk' = a.sources
          /\ Write(DraftFromScan(a, a.sources))
     ELSE /\ disk' = CreateScaffold(a)
          /\ Write(MinimalContracts(a))
  /\ UNCHANGED <<notes, lock, call, landing, robbed, misled, bounds>>

\* _read_contracts and read_contracts() or {}: a project without a registry
\* has an empty one.
EmptyRegistry == [depends_on |-> [m \in {} |-> {}], entries |-> {}]
OnDisk == IF file = Null THEN EmptyRegistry ELSE file

\* workspace.read_contracts raises for a file that does not normalise.
CanRead == Readable(OnDisk)
Known == Normalised(OnDisk)

\* a is through with what it read.  If the file was written, those who are
\* in between work from what no longer is on disk.
Ends(a, others) ==
  misled' = (IF file' = file THEN misled ELSE misled \cup others) \ {a}

Land(l, pc, patch, names, out) ==
  landing' = [landing EXCEPT
    ![l] = [pc |-> pc, patch |-> patch, names |-> names, out |-> out]]

\* The lint of a patch.
CheckPatch(l, p) ==
  /\ scanned # Null
  /\ landing[l].pc = "idle"
  /\ landings < MaxLandings
  /\ IF CanRead /\ Clean(Known, p.file, p.text)
     THEN Land(l, "checked", p, ContractDelta(Known, p.file, p.text), Null)
     ELSE Land(l, "over", p, {}, Null)
  /\ landings' = landings + 1
  /\ UNCHANGED <<file, project, lock, call, robbed, misled,
                 calls, crashes, misreads>>

\* _merge_contract_delta reads again; without a registry none is written.
MergeDelta(l) ==
  LET p == landing[l].patch
      after == [disk EXCEPT ![p.file] = p.text]
      merged == WithDelta(Known, Home[p.file], landing[l].names)
  IN  /\ landing[l].pc = "checked"
      /\ CanRead
      /\ Land(l, "merged", p, {},
              IF file = Null THEN Null
              ELSE Promoted(merged, after, scanned \cup {p.file}))
      /\ UNCHANGED <<file, project, lock, call, robbed, misled, bounds>>

\* What apply_reconcile_to_contracts offers its caller, written by it.
ReadToReconcile(l) ==
  LET r == ApplyReconcile(Known, ReconcileRegistry(Known, disk))
  IN  /\ landing[l].pc = "idle"
      /\ landings < MaxLandings
      /\ file # Null /\ CanRead /\ Readable(r)
      /\ Land(l, "merged", Null, {}, Normalised(r))
      /\ landings' = landings + 1
      /\ UNCHANGED <<file, project, lock, call, robbed, misled,
                     calls, crashes, misreads>>

\* The files of the patch and, last, the registry: nothing looks at the
\* lock, or at what the registry says by now.
WriteLanding(l) ==
  LET p == landing[l].patch
  IN  /\ landing[l].pc = "merged"
      /\ disk' = IF p = Null THEN disk ELSE [disk EXCEPT ![p.file] = p.text]
      /\ file' = IF landing[l].out = Null THEN file ELSE landing[l].out
      /\ Ends(l, Reading \cup Merging)
      /\ Land(l, "over", p, {}, Null)
      /\ UNCHANGED <<scanned, notes, lock, call, robbed, bounds>>

\* A read fails, a file has moved, or a write fails and is taken back.
GiveUp(l) ==
  /\ landing[l].pc \in {"checked", "merged"}
  /\ Land(l, "over", landing[l].patch, {}, Null)
  /\ misled' = misled \ {l}
  /\ UNCHANGED <<file, project, lock, call, robbed, bounds>>

\* The note that is left with a module at the boundary of a task of it,
\* whatever became of the task.  The same text is not left twice, and
\* nothing is left if the registry cannot be read.
Deliver(l) ==
  LET p == landing[l].patch
      m == IF p = Null THEN Null ELSE Home[p.file]
  IN  /\ landing[l].pc = "over"
      /\ notes' = IF m # Null /\ CanRead /\ UpstreamChanges(Known, m) # Null
                  THEN notes \cup {UpstreamNotice(Known, m)}
                  ELSE notes
      /\ landing' = [landing EXCEPT ![l] = NoLanding]
      /\ UNCHANGED <<file, disk, scanned, lock, call, robbed, misled, bounds>>

\* The user settles a note.
Resolve(n) ==
  /\ n \in notes
  /\ notes' = notes \ {n}
  /\ UNCHANGED <<file, disk, scanned, lock, call, landing, robbed, misled,
                 bounds>>

-----------------------------------------------------------------------------
(* apply_deltas_atomically                                                 *)

Goto(w, pc) == call' = [call EXCEPT ![w].pc = pc]
Leave(w) == call' = [call EXCEPT ![w] = NoCall]
InSection(w) == call[w].pc \in {"locked", "read", "leaving"}

\* An agent calls, with the hash of the registry as it sees it, or without.
Call(w, batch, optimistic) ==
  /\ scanned # Null
  /\ call[w].pc = "idle"
  /\ calls < MaxCalls
  /\ call' = [call EXCEPT ![w] =
                [pc |-> "waiting", batch |-> batch, view |-> Null,
                 expected |-> IF optimistic THEN OnDisk ELSE Null]]
  /\ calls' = calls + 1
  /\ UNCHANGED <<file, project, lock, landing, robbed, misled,
                 crashes, misreads, landings>>

(* Mutant: the lock file is created whether it exists or not.              *)
AcquireAnyway(w) ==
  /\ call[w].pc = "waiting"
  /\ lock' = [by |-> w, aged |-> FALSE]
  /\ Goto(w, "locked")
  /\ UNCHANGED <<file, project, landing, robbed, misled, bounds>>

\* O_CREAT | O_EXCL
Acquire(w) ==
  /\ call[w].pc = "waiting"
  /\ lock = Null
  /\ lock' = [by |-> w, aged |-> FALSE]
  /\ Goto(w, "locked")
  /\ UNCHANGED <<file, project, landing, robbed, misled, bounds>>

\* The lock is older than a minute ...
SeeOld(w) ==
  /\ call[w].pc = "waiting"
  /\ lock # Null
  /\ lock.aged
  /\ Goto(w, "reaping")
  /\ UNCHANGED <<file, project, lock, landing, robbed, misled, bounds>>

IsLive(l) == l # Null /\ l.by # Null

(* Mutant: the removal fails and the waiter starts over without a look at  *)
(* its deadline.                                                           *)
ReapAgain(w) ==
  /\ call[w].pc = "reaping"
  /\ Goto(w, "waiting")
  /\ UNCHANGED <<file, project, lock, landing, robbed, misled, bounds>>

\* ... and is removed, or whatever has that name by now.  Then the waiter
\* looks at its own 30 seconds, as it does each time round.
Reap(w) ==
  /\ call[w].pc = "reaping"
  /\ lock' = Null
  /\ robbed' = (robbed \/ IsLive(lock))
  /\ Goto(w, "waiting") \/ Leave(w)
  /\ UNCHANGED <<file, project, landing, misled, bounds>>

TimeOut(w) ==
  /\ call[w].pc = "waiting"
  /\ lock # Null
  /\ Leave(w)
  /\ UNCHANGED <<file, project, lock, landing, robbed, misled, bounds>>

(* Mutant: the expected hash is not compared.                              *)
SeesUnchecked(w, r) == call' = [call EXCEPT ![w].pc = "read", ![w].view = r]

\* A hash that no longer fits is a conflict.
Sees(w, r) ==
  IF call[w].expected \in {Null, r}
  THEN call' = [call EXCEPT ![w].pc = "read", ![w].view = r]
  ELSE Goto(w, "leaving")

Read(w) ==
  /\ call[w].pc = "locked"
  /\ Sees(w, OnDisk)
  /\ UNCHANGED <<file, project, lock, landing, robbed, misled, bounds>>

\* A file that cannot be read at this moment, or cannot be parsed, is taken
\* for none.
ReadFails(w) ==
  /\ call[w].pc = "locked"
  /\ file # Null
  /\ misreads < MaxMisreads
  /\ Sees(w, EmptyRegistry)
  /\ misled' = misled \cup (Reading' \ Reading)
  /\ misreads' = misreads + 1
  /\ UNCHANGED <<file, project, lock, landing, robbed,
                 calls, crashes, landings>>

\* The whole batch or nothing, in a file that replaces the old one.
Commit(w) ==
  /\ call[w].pc = "read"
  /\ LET r == ApplyBatch(call[w].view, call[w].batch)
     IN  file' = IF r = Null THEN file ELSE r
  /\ Ends(w, Merging)
  /\ Goto(w, "leaving")
  /\ UNCHANGED <<project, lock, landing, robbed, bounds>>

\* os.remove of the path, whosever lock it has become.
Release(w) ==
  /\ call[w].pc = "leaving"
  /\ lock' = Null
  /\ robbed' = (robbed \/ (IsLive(lock) /\ lock.by # w))
  /\ Leave(w)
  /\ UNCHANGED <<file, project, landing, misled, bounds>>

\* The process dies; its lock file stays.
Crash(w) ==
  /\ InSection(w)
  /\ crashes < MaxCrashes
  /\ lock' = IF lock # Null /\ lock.by = w THEN [lock EXCEPT !.by = Null]
             ELSE lock
  /\ Leave(w)
  /\ misled' = misled \ {w}
  /\ crashes' = crashes + 1
  /\ UNCHANGED <<file, project, landing, robbed, calls, misreads, landings>>

\* A minute passes: the holder is dead, or slow.
Age ==
  /\ lock # Null
  /\ ~ lock.aged
  /\ lock' = [lock EXCEPT !.aged = TRUE]
  /\ UNCHANGED <<file, project, call, landing, robbed, misled, bounds>>

Proceed(w) ==
  \/ Acquire(w)
  \/ SeeOld(w)
  \/ Reap(w)
  \/ TimeOut(w)
  \/ Read(w)
  \/ ReadFails(w)
  \/ Commit(w)
  \/ Release(w)

Next ==
  \/ \E a \in Architectures : Begin(a)
  \/ \E l \in Lander :
       \/ \E p \in Patches : CheckPatch(l, p)
       \/ MergeDelta(l)
       \/ ReadToReconcile(l)
       \/ WriteLanding(l)
       \/ GiveUp(l)
       \/ Deliver(l)
  \/ \E n \in notes : Resolve(n)
  \/ \E w \in Writer :
       \/ \E b \in Batches, o \in BOOLEAN : Call(w, b, o)
       \/ Proceed(w)
       \/ Crash(w)
  \/ Age

Spec == Init /\ [][Next]_vars

\* A thread in the call goes on: it never blocks, it sleeps and looks again.
\* This is WF_vars(Proceed(w)) written out: Proceed(w) is enabled exactly
\* while w is in a call, and of the other steps that change its call one
\* begins and one ends it.
Fairness ==
  \A w \in Writer :
    []<>(call[w].pc = "idle") \/ []<><<call'[w] # call[w]>>_vars

FairSpec == Spec /\ Fairness

-----------------------------------------------------------------------------
(* Properties                                                              *)

(* Whoever is between the creation of the lock file and its removal is the *)
(* one who made the file that is there, so that sections never overlap, as *)
(* long as no live lock is removed (_acquire_lock: "Cross-process mutex    *)
(* via an exclusive-create lock file").                                    *)
SectionIsHeld ==
  ~ robbed =>
    \A w \in Writer : InSection(w) => lock # Null /\ lock.by = w

Batched ==
  \E w \in Writer :
    /\ call[w].pc = "read" /\ call'[w].pc = "leaving"
    /\ file' = ApplyBatch(file, call[w].batch)
    /\ call[w].expected \in {Null, file}

\* Against what the file said, nothing is lost: entries are added, and
\* promises kept.
Grown ==
  LET before == ById(Normalised(file))
      after == ById(Normalised(file'))
      delta == ContractsDelta(Normalised(file), Normalised(file'))
  IN  /\ call' = call
      /\ delta.removed = {} /\ delta.moved = {}
      /\ \A i \in delta.changed :
           /\ i \in DOMAIN before
           /\ before[i].status = "proposed" /\ after[i].status = "active"

OnlyMoved ==
  LET delta == ContractsDelta(Normalised(file), Normalised(file'))
  IN  /\ call' = call
      /\ delta.added \cup delta.removed \cup delta.changed = {}

MisledWrites == (misled \cap (Reading \cup Merging)) \ (Reading \cup Merging)' # {}

(* As long as no live lock is removed, agents who apply deltas at the same *)
(* time never lose one another's: a write of the registry is a batch       *)
(* applied as a whole to what is on disk at that moment, which is what its *)
(* agent expected, or a landing that only adds exports and keeps promises, *)
(* or a reconciliation that changes nothing contracts_delta would call a   *)
(* change; unless whoever writes was misled after its read, by a landing   *)
(* (or, when it is one that lands, by anybody), or by a read that failed:  *)
(* neither is guarded against.                                             *)
RegistrySteps ==
  [][file # Null /\ file' # file /\ ~ robbed' =>
       MisledWrites \/ Batched \/ Grown \/ OnlyMoved]_vars

(* The same without the reservations: what the comment above               *)
(* apply_deltas_atomically promises.                                       *)
NoWriteIsLost ==
  [][file # Null /\ file' # file => Batched \/ Grown \/ OnlyMoved]_vars

(* The registry on disk can be read: it normalises.                        *)
RegistryReadable == file # Null => Readable(file)

(* An import or a creation leaves the project with a registry.             *)
ProjectHasRegistry == scanned # Null => file # Null

(* "id/type/owner are the entry's key": they never come apart.             *)
OwnerIsKey ==
  file # Null => \A e \in Normalised(file).entries : e.id = Id(e)

\* <<a, b>>: a has something to re-adapt when b's interface moves.
BuildsOn(r, depending) ==
  LET On(a) == (IF a \in depending THEN r.depends_on[a] ELSE {}) \cup
               {e.owner : e \in {x \in Of(r, "shared_kernel") :
                                   a \in x.consumers}}
      all == Modules(r) \cup {Shared}
  IN  UNION {{<<a, b>> : b \in (On(a) \cap all) \ {a}} : a \in Modules(r)}

Told(r) == {m \in Modules(r) : UpstreamChanges(r, m) # Null}

\* The owners of what is stale, whoever builds on one of them, and so on:
\* what every set has that has these owners and all who build on a member.
Concerned(r, depending) ==
  LET Closed(T) ==
        /\ StaleOwners(r) \subseteq T
        /\ \A p \in BuildsOn(r, depending) : p[2] \in T => p[1] \in T
  IN  {m \in Modules(r) :
         \A T \in SUBSET (Modules(r) \cup {Shared}) : Closed(T) => m \in T}

(* A module is told of a stale interface exactly when it owns it or builds *)
(* on it, directly or not, where one that exports nothing builds on the    *)
(* shared entries it uses, and on nothing else; and it is told the         *)
(* distance 1 when it builds on it directly.                               *)
UpstreamTold ==
  (file # Null /\ Readable(file)) =>
    LET r == Normalised(file)
        exporting == {m \in Modules(r) : Exports(r, m) # {}}
        direct == BuildsOn(r, exporting)
        told == Told(r)
    IN  /\ told = Concerned(r, exporting)
        /\ \A m \in told \ StaleOwners(r) :
             UpstreamChanges(r, m).depth = 1 <=>
               \E o \in StaleOwners(r) : <<m, o>> \in direct

(* What the docstring of impact_for_roots says, "Propagate changes to      *)
(* every downstream consumer", whether it exports something itself or not. *)
EveryConsumerTold ==
  (file # Null /\ Readable(file)) =>
    LET r == Normalised(file)
    IN  Concerned(r, Modules(r)) \subseteq Told(r)

(* No call waits for ever, whoever died holding the lock.                  *)
CallEnds ==
  \A w \in Writer : call[w].pc # "idle" ~> call[w].pc = "idle"
=============================================================================
