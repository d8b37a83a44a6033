------------------------- MODULE MCContractRegistry -------------------------
(* A small project: A depends on B, G has no files; the shared directory   *)
(* and the tests lie below the path of A.                                  *)
EXTENDS ContractRegistry

CONSTANTS A, B, G, x, y, z, fa, fb, fs, tb

MCModule == {A, B, G}
MCHome == [f \in {fa, fb, fs, tb} |-> IF f = fb THEN B ELSE A]
MCContent == {"v1", "code", "declared", fa, fb, fs, tb}

Python(defs, all, imports) ==
  [defs |-> defs, all |-> all, imports |-> imports, registers |-> {}]

Defines(s) == Python({s}, Null, {})
Uses(m, s) == Python({}, Null, {<<m, s>>})
Forwards(m, s) == Python({}, {s}, {<<m, s>>})

\* A defines x and uses y of B; a shared symbol.
MCPatches ==
  {[file |-> fa, text |-> Python({x}, Null, {<<B, y>>})],
   [file |-> fs, text |-> Defines(z)]}

\* A package that hands on what it imports: __all__ names it.
MCForwarding ==
  {[file |-> fa, text |-> Forwards(B, y)],
   [file |-> fb, text |-> Defines(y)]}

Change(op, type, owner, name, status) ==
  [op |-> op, type |-> type, owner |-> owner, name |-> name,
   content |-> IF op = "add" THEN "v1" ELSE Null,
   status |-> status, consumers |-> {}, ref |-> Null]

MCBatches ==
  {<<Change("update", "public_api", B, y, "stale")>>,
   <<Change("add", "public_api", A, x, Null),
     Change("remove", "public_api", B, y, Null)>>,
   <<Change("add", "data_schema", G, y, Null),
     [Change("add", "shared_kernel", Shared, z, "stale")
        EXCEPT !.consumers = {B, G}]>>}

Nothing == [f \in File |-> Null]
DependsOn == [m \in {A, B} |-> IF m = A THEN {B} ELSE {}]

MCArchitectures ==
  {[imported |-> FALSE, depends_on |-> DependsOn, sources |-> Nothing,
    scaffold |-> [Nothing EXCEPT ![fa] = Defines(x), ![tb] = Uses(A, x)],
    declared_exports |-> [m \in {A, B} |-> IF m = B THEN {y} ELSE {}]],
   [imported |-> TRUE, depends_on |-> DependsOn,
    declared_exports |-> [m \in {A, B} |-> {}],
    sources |-> [Nothing EXCEPT ![fa] = Defines(x), ![fb] = Defines(y)]]}

\* Two files with a function of the same name.
MCTwoMains ==
  {[imported |-> TRUE, depends_on |-> DependsOn,
    declared_exports |-> [m \in {A, B} |-> {}],
    sources |-> [Nothing EXCEPT ![fa] = Defines(x), ![fb] = Defines(x)]]}

\* The same vocabulary term, from two modules.
MCTakeover ==
  {<<Change("add", "vocabulary", A, x, Null)>>,
   <<Change("add", "vocabulary", B, x, Null)>>}
=============================================================================
