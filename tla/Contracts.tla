------------------------------ MODULE Contracts ------------------------------
(***************************************************************************)
(* The project contract registry as data: what normalize_contracts accepts *)
(* (core.py), deltas, reconciliation and impact (contract_registry.py),    *)
(* the lint of a patch and the exports it adds (contract_lint.py,          *)
(* task_patch.py), and the two first drafts (scaffold.py, importscan.py).  *)
(*                                                                         *)
(* A registry is the modules with their dependencies and a set of typed    *)
(* entries.  An entry keeps its key, status and bookkeeping; its other     *)
(* fields (signature, kind, fields, ...) are one "content".  Recipes,      *)
(* forbidden aliases, "consumes" (which no code fills), and the paths and  *)
(* line numbers of messages are left out.                                  *)
(***************************************************************************)
EXTENDS Naturals, FiniteSets, SequencesExt

CONSTANTS
  Module,        \* ids of modules
  Symbol,        \* symbols, terms and names
  Private,       \* the symbols that start with an underscore
  File,          \* the Python files patches write
  Home,          \* the module whose path a file lies in, or Null
  TestFile,      \* files that are tests (importscan._is_test_path)
  SharedFile,    \* files below a shared/ directory
  EntryModule,   \* modules whose path has the shape of an entry point
  Content,       \* what an entry says of its symbol
  Null

Shared == "shared"
Owner == Module \cup {Shared, Null}
RegistryType ==
  {"public_api", "data_schema", "commands_events", "config_policy",
   "shared_kernel", "vocabulary"}
RegistryStatus == {"planned", "proposed", "active", "stale", "deprecated"}

ASSUME ContractsAssumption ==
  /\ Private \subseteq Symbol
  /\ Home \in [File -> Module \cup {Null}]
  /\ TestFile \subseteq File /\ SharedFile \subseteq File
  /\ EntryModule \subseteq Module
  /\ {"code", "declared"} \cup File \subseteq Content
  /\ Null \notin Module \cup Symbol \cup File \cup Content
  /\ IsFiniteSet(Module)
  /\ LET Key == RegistryType \X Owner \X Symbol
     IN  Null \notin Key \cup [depth: Nat, changed: SUBSET Key]

-----------------------------------------------------------------------------
(* Entries and registries                                                  *)

\* A shared symbol that names no owner belongs to "shared".
OwnerOf(e) ==
  IF e.type = "shared_kernel" /\ e.owner = Null THEN Shared ELSE e.owner

\* registry_item_id
Id(e) == <<e.type, OwnerOf(e), e.name>>

\* "ref" is source_ref, "seen" is source_hash and last_seen: the file.  An
\* entry whose fields were all left out has no content (Null).
Entry ==
  [type: RegistryType, owner: Owner, name: Symbol,
   id: (RegistryType \X Owner \X Symbol) \cup {Null},
   status: RegistryStatus \cup {Null}, content: Content \cup {Null},
   consumers: SUBSET Module,
   ref: File \cup {Null}, seen: File \cup {Null}]

NewEntry(type, owner, name, status, content) ==
  [type |-> type, owner |-> owner, name |-> name, id |-> Null,
   status |-> status, content |-> content, consumers |-> {},
   ref |-> Null, seen |-> Null]

Registry ==
  [depends_on: UNION {[S -> SUBSET Module] : S \in SUBSET Module},
   entries: SUBSET Entry]

Modules(r) == DOMAIN r.depends_on
Of(r, type) == {e \in r.entries : e.type = type}
Exports(r, m) ==
  {e.name : e \in {x \in Of(r, "public_api") : x.owner = m}}

\* What normalize_contracts fills in.
Normalised(r) ==
  [r EXCEPT !.entries =
     {[e EXCEPT !.owner = OwnerOf(e),
                !.id = IF @ = Null THEN Id(e) ELSE @,
                !.status = IF @ = Null THEN "active" ELSE @]
        : e \in @}]

Names(S) == [e \in S |-> e.name]
Ids(S) == [e \in S |-> e.id]

NamesAreUnique(r) ==
  /\ IsInjective(Names(Of(r, "public_api") \cup Of(r, "shared_kernel")))
  /\ IsInjective(Names(Of(r, "vocabulary")))
  /\ IsInjective(Names(Of(r, "commands_events")))
  /\ IsInjective(Ids(Normalised(r).entries))

DataOwnersAreKnown(r) ==
  \A e \in Of(r, "data_schema") \cup Of(r, "config_policy") :
    e.owner \in Modules(r) \cup {Shared, Null}

OwnersAreKnown(r) ==
  /\ \A e \in Of(r, "vocabulary") \cup Of(r, "shared_kernel") :
       OwnerOf(e) \in Modules(r) \cup {Shared}
  /\ \A e \in Of(r, "shared_kernel") : e.consumers \subseteq Modules(r)
  /\ \A e \in Of(r, "commands_events") : e.owner \in Modules(r)

DependenciesAreKnown(r) ==
  \A m \in Modules(r) : r.depends_on[m] \subseteq Modules(r) \ {m}

\* normalize_contracts returns and does not raise.
Readable(r) ==
  /\ NamesAreUnique(r)
  /\ DataOwnersAreKnown(r)
  /\ OwnersAreKnown(r)
  /\ DependenciesAreKnown(r)

-----------------------------------------------------------------------------
(* Deltas                                                                  *)

\* "op", and "data" with what the caller wrote; Null means it left the field
\* out.
Delta ==
  [op: {"add", "update", "remove"}, type: RegistryType, owner: Owner,
   name: Symbol, content: Content \cup {Null},
   status: RegistryStatus \cup {Null}, consumers: SUBSET Module,
   ref: File \cup {Null}]

EnsureModule(r, owner) ==
  IF owner \in Module \ Modules(r)
  THEN [r EXCEPT !.depends_on = [m \in Modules(r) \cup {owner} |->
                                   IF m = owner THEN {} ELSE @[m]]]
  ELSE r

\* Only an export is looked up among its owner's entries.
Existing(r, d) ==
  {e \in Of(r, d.type) :
     /\ e.name = d.name
     /\ d.type = "public_api" => e.owner = d.owner}

Merged(e, d) ==
  [e EXCEPT !.owner = d.owner,
            !.content = IF d.content = Null THEN @ ELSE d.content,
            !.status = IF d.status = Null THEN @ ELSE d.status,
            !.consumers = IF d.consumers = {} THEN @ ELSE d.consumers]

Added(d) ==
  [NewEntry(d.type, d.owner, d.name, d.status, d.content)
     EXCEPT !.consumers = d.consumers, !.ref = d.ref]

\* The entries of the registry after the delta, before it is validated.
Edited(r, d) ==
  LET old == Existing(r, d)
  IN  CASE d.op = "remove" -> r.entries \ old
        [] d.op # "remove" /\ old # {} ->
             (r.entries \ old) \cup {Merged(e, d) : e \in old}
        [] OTHER -> r.entries \cup {Added(d)}

\* Null is the ContractConflict.
ApplyContractDelta(r, d) ==
  LET u == EnsureModule(r, d.owner)
      edited == Normalised([u EXCEPT !.entries = Edited(u, d)])
  IN  IF \/ d.type = "public_api" /\ d.owner \notin Module
         \/ d.op = "update" /\ Existing(u, d) = {}
         \/ ~ Readable(edited)
      THEN Null
      ELSE edited

ApplyBatch(r, batch) ==
  LET upto[n \in 0 .. Len(batch)] ==
        IF n = 0 THEN r
        ELSE IF upto[n - 1] = Null THEN Null
        ELSE ApplyContractDelta(upto[n - 1], batch[n])
  IN  upto[Len(batch)]

-----------------------------------------------------------------------------
(* Reconciliation with the symbol index, and the classified difference     *)

\* Exports are flattened with a "name"; shared symbols and terms have none.
HasName(e) == e.type \notin {"shared_kernel", "vocabulary"}

\* The symbol index: which file defines what.
Records(disk) ==
  UNION {{<<f, s>> : s \in disk[f].defs} : f \in {x \in File : disk[x] # Null}}
Holding(disk, name) == {f \in File : <<f, name>> \in Records(disk)}

\* An entry whose symbol is gone, or elsewhere, is reported and kept as it
\* is; one that is found is stamped with the first file that holds it.
ReconcileRegistry(r, disk) ==
  {IF HasName(e) /\ Holding(disk, e.name) # {}
   THEN [e EXCEPT !.seen = CHOOSE f \in Holding(disk, e.name) : TRUE]
   ELSE e : e \in Normalised(r).entries}

Drifted(r, disk) ==
  {e \in r.entries :
     /\ HasName(e) /\ e.ref # Null
     /\ Holding(disk, e.name) # {} /\ e.ref \notin Holding(disk, e.name)}

\* Merged back by id: source_hash, last_seen and status only.
ApplyReconcile(r, enriched) ==
  [r EXCEPT !.entries =
     {LET same == {n \in enriched : n.id = e.id}
      IN  IF same = {} THEN e
          ELSE LET new == CHOOSE n \in same : TRUE
               IN  [e EXCEPT !.seen = new.seen, !.status = new.status]
        : e \in @}]

ById(r) == [i \in {e.id : e \in r.entries} |->
              CHOOSE e \in r.entries : e.id = i]

Semantic(e) == <<e.content, e.status, e.consumers>>
Presentation(e) == <<e.ref, e.seen>>

\* contracts_delta: what changed, and only where it sits.  An entry is known
\* by its id, so a new owner under the old id is no change at all.
ContractsDelta(before, after) ==
  LET b == ById(before)
      a == ById(after)
      both == DOMAIN a \cap DOMAIN b
      kept == Modules(before) \cap Modules(after)
      changed == {i \in both : Semantic(a[i]) # Semantic(b[i])}
  IN  [added   |-> (DOMAIN a \ DOMAIN b) \cup
                     (Modules(after) \ Modules(before)),
       removed |-> (DOMAIN b \ DOMAIN a) \cup
                     (Modules(before) \ Modules(after)),
       changed |-> changed \cup
                     {m \in kept : before.depends_on[m] # after.depends_on[m]},
       moved   |-> {i \in both \ changed :
                      Presentation(a[i]) # Presentation(b[i])}]

-----------------------------------------------------------------------------
(* Impact of a stale interface                                             *)

StaleOwners(r) ==
  {e.owner : e \in {x \in r.entries : x.status = "stale"}} \ {Null}

\* The edges of projection_graph.  A dependency hangs on the exports of the
\* module that has it, a use on the shared entry.
DependsOnEdges(r) ==
  UNION {{<<e, m>> : m \in r.depends_on[e.owner] \cap Modules(r)}
           : e \in Of(r, "public_api")}
UsesEdges(r) ==
  UNION {{<<e, m>> : m \in e.consumers \cap Modules(r)}
           : e \in Of(r, "shared_kernel")}

(* Mutant: the uses of shared entries are not followed.                    *)
DependentsOfModules(r, m) ==
  {x[1].owner : x \in {e \in DependsOnEdges(r) : e[2] = m}} \ {m}

\* Who depends on a module (or on "shared"), the two kinds of edges turned
\* into one direction.
DependentsOf(r, m) ==
  ({x[1].owner : x \in {e \in DependsOnEdges(r) : e[2] = m}}
     \cup {x[2] : x \in {e \in UsesEdges(r) : e[1].owner = m}}) \ {m}

\* The search of impact_for_roots: what is reached at distance n, and all
\* that was reached by then.
Impact(r) ==
  LET front[n \in 0 .. Cardinality(Module)] ==
        IF n = 0 THEN [new |-> StaleOwners(r), seen |-> StaleOwners(r)]
        ELSE LET last == front[n - 1]
                 new == (UNION {DependentsOf(r, m) : m \in last.new})
                          \ last.seen
             IN  [new |-> new, seen |-> last.seen \cup new]
  IN  [n \in 1 .. Cardinality(Module) |-> front[n].new]

\* upstream_changes_for_module: Null is the empty answer.
UpstreamChanges(r, m) ==
  LET impact == Impact(r)
      at == {n \in DOMAIN impact : m \in impact[n]}
  IN  IF at = {} /\ m \notin StaleOwners(r) THEN Null
      ELSE [depth |-> IF at = {} THEN 0 ELSE CHOOSE n \in at : TRUE,
            changed |-> {e.id : e \in {x \in r.entries :
                                          x.status = "stale"}}]

\* The text of the note a module finds on its node.
UpstreamNotice(r, m) ==
  LET told == UpstreamChanges(r, m)
  IN  [to |-> m, direct |-> told.depth <= 1,
       names |-> {e.name : e \in {x \in r.entries : x.id \in told.changed}}]

-----------------------------------------------------------------------------
(* The lint of a patch, and the exports a landed patch adds                *)

\* A Python file: top-level definitions, __all__ (Null when there is none),
\* "from module import name", and the commands it registers.
Text == [defs: SUBSET Symbol, all: (SUBSET Symbol) \cup {Null},
         imports: SUBSET (Module \X Symbol), registers: SUBSET Symbol]

PublicNames(text) == IF text.all # Null THEN text.all ELSE text.defs \ Private
Mentioned(text) ==
  text.defs \cup text.registers \cup {i[2] : i \in text.imports}
    \cup (IF text.all = Null THEN {} ELSE text.all)

\* _module_for_file; a module without a path owns no file.
ModuleForFile(r, f) == IF Home[f] \in Modules(r) THEN Home[f] ELSE Null
OwnDependencies(r, f) ==
  IF ModuleForFile(r, f) = Null THEN {}
  ELSE r.depends_on[ModuleForFile(r, f)]

BadImports(r, f, text) ==
  {i \in text.imports :
     /\ i[1] \in Modules(r) \ {ModuleForFile(r, f)}
     /\ \/ i[1] \notin OwnDependencies(r, f)
        \/ i[2] \in Private
        \/ Exports(r, i[1]) # {} /\ i[2] \notin Exports(r, i[1])}

TakenNames(r, f, text) ==
  {s \in text.defs :
     \/ \E m \in Modules(r) \ {ModuleForFile(r, f)} : s \in Exports(r, m)
     \/ \E e \in Of(r, "vocabulary") :
          e.name = s /\ e.owner # ModuleForFile(r, f)}

Unadmitted(r, f, text) ==
  {s \in text.defs \ Private :
     /\ f \in SharedFile
     /\ ~ \E e \in Of(r, "shared_kernel") :
          e.name = s /\ Cardinality(e.consumers) >= 2}

TakenCommands(r, f, text) ==
  {s \in text.registers :
     \E e \in Of(r, "commands_events") :
       /\ e.name = s
       /\ ModuleForFile(r, f) # Null /\ e.owner # ModuleForFile(r, f)}

Clean(r, f, text) ==
  /\ BadImports(r, f, text) = {}
  /\ TakenNames(r, f, text) = {}
  /\ Unadmitted(r, f, text) = {}
  /\ TakenCommands(r, f, text) = {}

\* The public names of the file its module does not export yet.
ContractDelta(r, f, text) ==
  IF ModuleForFile(r, f) = Null THEN {}
  ELSE PublicNames(text) \ Exports(r, ModuleForFile(r, f))

\* contracts_with_delta: the names the lint found undeclared, if they still
\* are, appended as they are, not validated; to a module of their own if the
\* registry has lost it.
WithDelta(r, m, names) ==
  IF names = {} THEN r
  ELSE [EnsureModule(r, m) EXCEPT !.entries = @ \cup
          {NewEntry("public_api", m, s, Null, "code")
             : s \in names \ Exports(r, m)}]

IsEntryModule(r, m) ==
  m \in EntryModule /\ \A o \in Modules(r) : m \notin r.depends_on[o]

\* A production file that mentions the promise of another module (or, for
\* an entry point nobody depends on, of its own).
Referenced(r, e, disk, candidates) ==
  \E f \in candidates \ TestFile :
    /\ ModuleForFile(r, f) = e.owner => IsEntryModule(r, e.owner)
    /\ disk[f] # Null /\ e.name \in Mentioned(disk[f])

\* promote_proposed_exports: "disk" already holds the pending files, and
\* candidates are the files of the last scan and those of the patch.
Promoted(r, disk, candidates) ==
  [r EXCEPT !.entries =
     {[e EXCEPT !.status =
         IF /\ e.type = "public_api" /\ @ = "proposed"
            /\ Referenced(r, e, disk, candidates)
         THEN "active" ELSE @] : e \in @}]

-----------------------------------------------------------------------------
(* The first registry of a project                                         *)

\* What create_scaffold writes: promises, from the architecture alone.
MinimalContracts(arch) ==
  [depends_on |-> arch.depends_on,
   entries |-> UNION
     {{NewEntry("public_api", m, s, "proposed", "declared")
         : s \in arch.declared_exports[m] \ Private}
        : m \in DOMAIN arch.depends_on}]

\* The files of a new Python project, where there are none yet.
CreateScaffold(arch) ==
  [f \in File |-> IF arch.sources[f] = Null THEN arch.scaffold[f]
                  ELSE arch.sources[f]]

\* The import scan: the files that are there, and the names it finds in one.
Scan(disk) == {f \in File : disk[f] # Null}
ScanSymbols(text) == PublicNames(text) \ Private

\* What an imported project is given: every public name of every file of a
\* module, once per file.  (The content tells the files apart.)
DraftFromScan(arch, disk) ==
  [depends_on |-> arch.depends_on,
   entries |-> UNION
     {{NewEntry("public_api", Home[f], s, Null, f)
         : s \in ScanSymbols(disk[f])}
        : f \in {x \in Scan(disk) : Home[x] \in DOMAIN arch.depends_on}}]
=============================================================================
