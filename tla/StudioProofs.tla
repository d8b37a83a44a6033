---------------------------- MODULE StudioProofs ----------------------------
(***************************************************************************)
(* For any modules, drafts and number of requests: the files of a project  *)
(* keep to their types; and when no request is served while another one    *)
(* waits for a model, a built project has one architecture, an undo gives  *)
(* back what the edit before it replaced, an error node stands for a       *)
(* failed task, the requests keep the life of a project that               *)
(* ProjectLifecycle describes, and no edit is seen without the flags on    *)
(* what depends on it, wherever the server stops.                          *)
(*                                                                         *)
(* The invariant is about what the files will say when all that is pending *)
(* is written: one write changes nothing of that, so the work of a request *)
(* is judged once, when it begins to write.                                *)
(* For the life of a project a second one says which request may write     *)
(* which draft and which document: nobody but an import, a reopening and   *)
(* an edit changes what is drawn without asking for a confirmation again.  *)
(*                                                                         *)
(* The flags need two theorems about the graph of modules besides: the     *)
(* edges that break_build_order_cycles drops are those that close a cycle, *)
(* and those that simplify_architecture_edges hides leave a path.  So      *)
(* every dependency can be followed along the edges, unless the two        *)
(* together form a cycle.                                                  *)
(***************************************************************************)
EXTENDS Studio, WellFoundedInduction, FiniteSetTheorems, TLAPS

-----------------------------------------------------------------------------
(* Induction over the numbers without an operator parameter: the set T     *)
(* takes the place of the predicate.                                       *)
LEMMA Least ==
  ASSUME NEW T \in SUBSET Nat, T # {}
  PROVE  \E m \in T : \A n \in T : m <= n
<1> DEFINE R == OpToRel(<, Nat)
<1>1. IsWellFoundedOn(R, Nat)
  BY NatLessThanWellFounded
<1>2. \A x, y \in Nat : x < y => <<x, y>> \in R
  BY DEF OpToRel
<1> HIDE DEF R
<1>3. PICK m \in T : \A n \in T : ~ (<<n, m>> \in R)
  BY <1>1, WFMin
<1>4. \A n \in T : ~ (n < m)
  BY <1>2, <1>3
<1> QED
  BY <1>4

LEMMA Induction ==
  ASSUME NEW T, 0 \in T, \A n \in Nat : n \in T => n + 1 \in T
  PROVE  Nat \subseteq T
<1> DEFINE Out == Nat \ T
<1>1. SUFFICES ASSUME Out # {} PROVE FALSE
  OBVIOUS
<1>2. PICK m \in Out : \A n \in Out : m <= n
  BY <1>1, Least
<1>3. m # 0 /\ m - 1 \in Nat /\ m - 1 \notin Out
  BY <1>2
<1> QED
  BY <1>2, <1>3

(* A function that goes on from x step by step, as g says.                 *)
Steps(f, N, x, g) ==
  f = [n \in 0..N |-> IF n = 0 THEN x ELSE g[<<f[n - 1], n>>]]

LEMMA StepsExist ==
  ASSUME NEW D, NEW x \in D, NEW N \in Nat, NEW g \in [D \X (1..N) -> D]
  PROVE  \E f \in [0..N -> D] : Steps(f, N, x, g)
<1> DEFINE T == { k \in Nat : k <= N => \E f \in [0..k -> D] : Steps(f, k, x, g) }
<1>1. 0 \in T
  <2> DEFINE f == [n \in 0..0 |-> x]
  <2>1. f \in [0..0 -> D] /\ Steps(f, 0, x, g)
    BY DEF Steps
  <2> QED
    BY <2>1
<1>2. ASSUME NEW k \in Nat, k \in T PROVE k + 1 \in T
  <2> SUFFICES ASSUME k + 1 <= N
               PROVE  \E h \in [0..(k + 1) -> D] : Steps(h, k + 1, x, g)
    OBVIOUS
  <2>1. PICK f \in [0..k -> D] : Steps(f, k, x, g)
    BY <1>2
  <2> DEFINE y == g[<<f[k], k + 1>>]
             h == [n \in 0..(k + 1) |-> IF n <= k THEN f[n] ELSE y]
  <2>2. f[k] \in D /\ k + 1 \in 1..N
    BY <2>1
  <2>3. y \in D
    BY <2>2
  <2>4. h \in [0..(k + 1) -> D]
    <3> HIDE DEF y
    <3> QED BY <2>1, <2>3
  <2>5. h[k + 1] = g[<<h[k], k + 1>>]
    OBVIOUS
  <2>6. \A n \in 0..k : h[n] = f[n]
    OBVIOUS
  <2>7. \A n \in 0..k : f[n] = IF n = 0 THEN x ELSE g[<<f[n - 1], n>>]
    BY <2>1 DEF Steps
  <2> HIDE DEF h, y
  <2>8. \A n \in 0..(k + 1) : h[n] = IF n = 0 THEN x ELSE g[<<h[n - 1], n>>]
    <3> TAKE n \in 0..(k + 1)
    <3>1. CASE n \in 0..k
      <4>1. n # 0 => n - 1 \in 0..k
        BY <3>1
      <4> QED
        BY <2>6, <2>7, <3>1, <4>1
    <3>2. CASE n = k + 1
      BY <2>5, <3>2
    <3> QED
      BY <3>1, <3>2
  <2> DEFINE w == [n \in 0..(k + 1) |-> IF n = 0 THEN x ELSE g[<<h[n - 1], n>>]]
  <2>9. h = w
    <3>1. w \in [0..(k + 1) -> D]
      BY <2>4, <2>8
    <3>2. \A n \in 0..(k + 1) : h[n] = w[n]
      BY <2>8
    <3> HIDE DEF w
    <3> QED
      BY <2>4, <3>1, <3>2
  <2> QED
    BY <2>4, <2>9 DEF Steps
<1>3. Nat \subseteq T
  BY <1>1, <1>2, Induction
<1> QED
  BY <1>3

\* What every step keeps in D is in D at the end.
LEMMA StaysIn ==
  ASSUME NEW D, NEW N \in Nat, NEW u, u[0] \in D,
         \A n \in 1..N : u[n - 1] \in D => u[n] \in D
  PROVE  \A n \in 0..N : u[n] \in D
<1> DEFINE T == { k \in Nat : k <= N => u[k] \in D }
<1>1. 0 \in T
  OBVIOUS
<1>2. ASSUME NEW k \in Nat, k \in T PROVE k + 1 \in T
  <2>1. SUFFICES ASSUME k + 1 <= N PROVE u[k + 1] \in D
    OBVIOUS
  <2>2. u[k] \in D /\ k + 1 \in 1..N /\ (k + 1) - 1 = k
    BY <1>2, <2>1
  <2> QED
    BY <2>2
<1>3. Nat \subseteq T
  BY <1>1, <1>2, Induction
<1> QED
  BY <1>3

-----------------------------------------------------------------------------
(* What a file will say when all that is pending is written.               *)

At(file, writes) == {i \in 1..Len(writes) : writes[i].file = file}

Will(file, old, writes) ==
  IF At(file, writes) = {} THEN old
  ELSE writes[CHOOSE i \in At(file, writes) :
                \A j \in At(file, writes) : j <= i].value

LEMMA LatestIs ==
  ASSUME NEW S, NEW s \in Seq(S), NEW file, NEW old, NEW i \in At(file, s),
         \A j \in At(file, s) : j <= i
  PROVE  Will(file, old, s) = s[i].value
<1> DEFINE k == CHOOSE i_1 \in At(file, s) : \A j \in At(file, s) : j <= i_1
<1>1. k \in At(file, s) /\ \A j \in At(file, s) : j <= k
  OBVIOUS
<1>2. \A j \in At(file, s) : j \in Nat
  BY DEF At
<1>3. k = i
  <2> HIDE DEF k
  <2> QED BY <1>1, <1>2
<1> QED
  BY <1>1, <1>3 DEF Will

LEMMA LatestExists ==
  ASSUME NEW S, NEW s \in Seq(S), NEW file, At(file, s) # {}
  PROVE  \E i \in At(file, s) : \A j \in At(file, s) : j <= i
<1> DEFINE n == Len(s)
           T == {k \in Nat : \E i \in At(file, s) : n - i = k}
<1>1. n \in Nat /\ \A i \in At(file, s) : i \in 1..n
  BY DEF At
<1>2. T # {} /\ T \in SUBSET Nat
  <2>1. PICK i \in At(file, s) : TRUE
    OBVIOUS
  <2>2. n - i \in T
    BY <1>1, <2>1
  <2> QED
    BY <2>2
<1>3. PICK k \in T : \A l \in T : k <= l
  <2> HIDE DEF T
  <2> QED BY <1>2, Least
<1>4. PICK i \in At(file, s) : n - i = k
  BY <1>3
<1>5. ASSUME NEW j \in At(file, s) PROVE j <= i
  <2>1. n - j \in T
    BY <1>1
  <2>2. k <= n - j
    BY <1>3, <2>1
  <2> QED
    BY <1>1, <1>4, <2>2
<1> QED
  BY <1>4, <1>5

LEMMA NothingWritten ==
  ASSUME NEW file, NEW old PROVE Will(file, old, <<>>) = old
<1>1. At(file, <<>>) = {}
  BY DEF At
<1> QED
  BY <1>1 DEF Will

LEMMA OneWritten ==
  ASSUME NEW file, NEW old, NEW name, NEW value
  PROVE  Will(file, old, <<Put(name, value)>>) =
           IF name = file THEN value ELSE old
<1> DEFINE s == <<Put(name, value)>>
<1>1. s \in Seq({Put(name, value)}) /\ Len(s) = 1
      /\ s[1].file = name /\ s[1].value = value
  BY DEF Put
<1> HIDE DEF s
<1>2. At(file, s) = IF name = file THEN {1} ELSE {}
  BY <1>1 DEF At
<1>3. CASE name = file
  <2>1. 1 \in At(file, s) /\ \A j \in At(file, s) : j <= 1
    BY <1>2, <1>3
  <2>2. Will(file, old, s) = s[1].value
    BY <1>1, <2>1, LatestIs
  <2> QED
    BY <1>1, <1>3, <2>2 DEF s
<1>4. CASE name # file
  BY <1>2, <1>4 DEF Will, s
<1> QED
  BY <1>3, <1>4

LEMMA BothWritten ==
  ASSUME NEW S, NEW s \in Seq(S), NEW t \in Seq(S), NEW file, NEW old
  PROVE  Will(file, old, s \o t) = Will(file, Will(file, old, s), t)
<1> DEFINE u == s \o t
           m == Len(s)
           n == Len(t)
<1>1. u \in Seq(S) /\ Len(u) = m + n /\ m \in Nat /\ n \in Nat
  OBVIOUS
<1>2. /\ \A i \in 1..m : u[i] = s[i]
      /\ \A i \in 1..n : u[m + i] = t[i]
      /\ \A i \in 1..(m + n) : i \in 1..m \/ (i - m \in 1..n /\ i = m + (i - m))
  OBVIOUS
<1> HIDE DEF u, m, n
<1>3. At(file, u) = At(file, s) \cup {m + i : i \in At(file, t)}
  <2>1. ASSUME NEW i \in At(file, u)
        PROVE  i \in At(file, s) \cup {m + j : j \in At(file, t)}
    <3>1. i \in 1..(m + n) /\ u[i].file = file
      BY <1>1 DEF At
    <3>2. CASE i \in 1..m
      BY <1>2, <3>1, <3>2 DEF At, m
    <3>3. CASE i - m \in 1..n /\ i = m + (i - m)
      <4>1. i - m \in At(file, t)
        BY <1>2, <3>1, <3>3 DEF At, n
      <4> QED
        BY <3>3, <4>1
    <3> QED
      BY <1>2, <3>1, <3>2, <3>3
  <2>2. \A i \in At(file, s) : i \in At(file, u)
    BY <1>1, <1>2 DEF At, m
  <2>3. \A i \in At(file, t) : m + i \in At(file, u)
    BY <1>1, <1>2 DEF At, n
  <2> QED
    BY <2>1, <2>2, <2>3
<1>4. CASE At(file, t) # {}
  <2>1. PICK i \in At(file, t) : \A j \in At(file, t) : j <= i
    BY <1>4, LatestExists
  <2>2. i \in 1..n /\ \A j \in At(file, s) : j \in 1..m
    BY DEF At, m, n
  <2>3. m + i \in At(file, u) /\ \A j \in At(file, u) : j <= m + i
    <3>1. m + i \in At(file, u)
      BY <1>3, <2>1
    <3>2. ASSUME NEW j \in At(file, u) PROVE j <= m + i
      <4>1. CASE j \in At(file, s)
        BY <1>1, <2>2, <4>1
      <4>2. ASSUME NEW k \in At(file, t), j = m + k PROVE j <= m + i
        <5>1. k <= i /\ k \in Nat
          BY <2>1, <4>2 DEF At
        <5> QED
          BY <1>1, <2>2, <4>2, <5>1
      <4> QED
        BY <1>3, <4>1, <4>2
    <3> QED
      BY <3>1, <3>2
  <2>4. Will(file, old, u) = u[m + i].value
    BY <1>1, <2>3, LatestIs
  <2>5. Will(file, Will(file, old, s), t) = t[i].value
    BY <2>1, LatestIs
  <2> QED
    BY <1>2, <2>2, <2>4, <2>5 DEF u
<1>5. CASE At(file, t) = {} /\ At(file, s) # {}
  <2>1. PICK i \in At(file, s) : \A j \in At(file, s) : j <= i
    BY <1>5, LatestExists
  <2>2. At(file, u) = At(file, s)
    BY <1>3, <1>5
  <2>3. Will(file, old, u) = u[i].value
    BY <1>1, <2>1, <2>2, LatestIs
  <2>4. Will(file, old, s) = s[i].value
    BY <2>1, LatestIs
  <2>5. u[i] = s[i]
    BY <1>2 DEF At, m
  <2>6. Will(file, Will(file, old, s), t) = Will(file, old, s)
    BY <1>5 DEF Will
  <2> QED
    BY <2>3, <2>4, <2>5, <2>6 DEF u
<1>6. CASE At(file, t) = {} /\ At(file, s) = {}
  <2>1. At(file, u) = {}
    BY <1>3, <1>6
  <2> QED
    BY <1>6, <2>1 DEF Will, u
<1> QED
  BY <1>4, <1>5, <1>6

\* One write changes nothing of what will be.
LEMMA WriteKeepsWill ==
  ASSUME NEW S, NEW s \in Seq(S), s # <<>>, NEW file, NEW old
  PROVE  Will(file, old, s) =
           Will(file, IF Head(s).file = file THEN Head(s).value ELSE old,
                Tail(s))
<1>1. Len(s) \in Nat /\ 1 \in 1..Len(s) /\ Head(s) = s[1] /\ Head(s) \in S
  OBVIOUS
<1> DEFINE h == <<Head(s)>>
           t == Tail(s)
<1>2. h \in Seq(S) /\ t \in Seq(S) /\ s = h \o t
  BY <1>1
<1>3. Will(file, old, h) = IF Head(s).file = file THEN Head(s).value ELSE old
  <2>1. h \in Seq(S) /\ Len(h) = 1 /\ h[1] = Head(s)
    BY <1>2
  <2> HIDE DEF h
  <2>2. At(file, h) = IF Head(s).file = file THEN {1} ELSE {}
    BY <2>1 DEF At
  <2>3. CASE Head(s).file = file
    <3>1. 1 \in At(file, h) /\ \A j \in At(file, h) : j <= 1
      BY <2>2, <2>3
    <3> QED
      BY <2>1, <2>3, <3>1, LatestIs
  <2>4. CASE Head(s).file # file
    BY <2>2, <2>4 DEF Will
  <2> QED
    BY <2>3, <2>4
<1> HIDE DEF h, t
<1>4. Will(file, old, h \o t) = Will(file, Will(file, old, h), t)
  BY <1>2, BothWritten
<1> QED
  BY <1>2, <1>3, <1>4 DEF t

-----------------------------------------------------------------------------
(* The operators on architectures and plans keep to their types.           *)

\* The rounds of the search, and where they end.
Search(E, S, f) ==
  /\ f \in [0..Cardinality(Module) -> SUBSET Module]
  /\ f[0] = S
  /\ \A n \in 1..Cardinality(Module) :
       f[n] = f[n - 1] \cup {e.to : e \in {x \in E : x.from \in f[n - 1]}}

Closed(E, T) == \A e \in E : e.from \in T => e.to \in T

LEMMA SearchExists ==
  ASSUME NEW E \in SUBSET Edge, NEW S \in SUBSET Module
  PROVE  \E f : Search(E, S, f) /\ ReachedFrom(E, S) = f[Cardinality(Module)]
<1> DEFINE N == Cardinality(Module)
           D == SUBSET Module
           g == [y \in D \X (1..N) |->
                   y[1] \cup {e.to : e \in {x \in E : x.from \in y[1]}}]
           R(f) == [n \in 0..N |->
                   IF n = 0 THEN S
                   ELSE f[n - 1] \cup
                        {e.to : e \in {x \in E : x.from \in f[n - 1]}}]
           Round == CHOOSE f : f = R(f)
<1>1. N \in Nat
  BY GraphAssumption, FS_CardinalityType
<1>2. g \in [D \X (1..N) -> D]
  BY DEF Edge
<1>3. \E f : f = R(f)
  <2>1. PICK f \in [0..N -> D] : Steps(f, N, S, g)
    <3> HIDE DEF g, N, D
    <3>1. S \in D
      BY DEF D
    <3> QED BY <1>1, <1>2, <3>1, StepsExist
  <2> DEFINE h == [n \in 0..N |-> IF n = 0 THEN S ELSE g[<<f[n - 1], n>>]]
  <2>2. f = h
    BY <2>1 DEF Steps
  <2>3. \A n \in 0..N : n # 0 =>
          g[<<f[n - 1], n>>] = f[n - 1] \cup
                        {e.to : e \in {x \in E : x.from \in f[n - 1]}}
    <3> TAKE n \in 0..N
    <3> HAVE n # 0
    <3>1. n - 1 \in 0..N /\ n \in 1..N
      BY <1>1
    <3>2. f[n - 1] \in D
      BY <2>1, <3>1
    <3> QED
      BY <3>1, <3>2
  <2>4. h = R(f)
    BY <2>3
  <2> QED
    BY <2>2, <2>4
<1>4. Round = R(Round)
  BY <1>3
<1> HIDE DEF Round
<1>5. Round[0] = S
  BY <1>1, <1>4
<1>6. ASSUME NEW n \in 1..N
      PROVE  Round[n] = Round[n - 1] \cup
               {e.to : e \in {x \in E : x.from \in Round[n - 1]}}
  <2>1. n \in 0..N /\ n # 0
    BY <1>1
  <2> HIDE DEF N
  <2> QED
    BY <1>4, <2>1
<1>7. \A n \in 1..N : Round[n - 1] \in D => Round[n] \in D
  <2> TAKE n \in 1..N
  <2> HAVE Round[n - 1] \in D
  <2>1. {e.to : e \in {x \in E : x.from \in Round[n - 1]}} \in D
    BY DEF Edge
  <2> QED
    BY <1>6, <2>1
<1>8. \A n \in 0..N : Round[n] \in D
  <2>1. Round[0] \in D
    BY <1>5
  <2> HIDE DEF D, N
  <2> QED
    BY <1>1, <1>7, <2>1, StaysIn
<1>9. Round \in [0..N -> D]
  <2> DEFINE r == R(Round)
  <2>1. r = [n \in 0..N |-> r[n]]
    OBVIOUS
  <2> HIDE DEF r, N, D
  <2> QED
    BY <1>4, <1>8, <2>1 DEF r
<1>10. ReachedFrom(E, S) = Round[N]
  BY DEF ReachedFrom, Round
<1>11. Search(E, S, Round)
  BY <1>5, <1>6, <1>9 DEF Search
<1> QED
  BY <1>10, <1>11

LEMMA ReachedIsModules ==
  ASSUME NEW E \in SUBSET Edge, NEW S \in SUBSET Module
  PROVE  ReachedFrom(E, S) \in SUBSET Module
<1>1. PICK f : Search(E, S, f) /\ ReachedFrom(E, S) = f[Cardinality(Module)]
  BY SearchExists
<1>2. Cardinality(Module) \in 0..Cardinality(Module)
  BY GraphAssumption, FS_CardinalityType
<1> QED
  BY <1>1, <1>2 DEF Search

LEMMA ReversedIsEdges ==
  ASSUME NEW E \in SUBSET Edge PROVE Reversed(E) \in SUBSET Edge
BY DEF Reversed, Edge

LEMMA DependsIsEdges ==
  ASSUME NEW a \in Architecture PROVE DependsOn(a) \in SUBSET Edge
BY DEF DependsOn, Edge, Architecture, Kind, Alphabetic

LEMMA FromModulesIsEdges ==
  ASSUME NEW a \in Architecture PROVE EdgesFromModules(a) \in SUBSET Edge
BY DEF EdgesFromModules, Edge, Architecture, Kind, Alphabetic

LEMMA NormalizeType ==
  ASSUME NEW a \in Architecture PROVE NormalizeArchitecture(a) \in Architecture
<1> DEFINE deps == [m \in Module |-> a.deps[m] \ {m}]
           declared == {e \in a.edges : e.from # e.to}
           derived == {e \in EdgesFromModules([a EXCEPT !.deps = deps]) :
                         ~ \E f \in declared : f.from = e.from /\ f.to = e.to}
<1>1. deps \in [Module -> SUBSET Module]
  BY DEF Architecture
<1>2. [a EXCEPT !.deps = deps] \in Architecture
  <2> HIDE DEF deps
  <2> QED BY <1>1 DEF Architecture
<1>3. derived \in SUBSET Edge /\ declared \in SUBSET Edge
  <2> HIDE DEF deps
  <2> QED BY <1>2, FromModulesIsEdges DEF Architecture
<1>4. BreakBuildOrderCycles(declared \cup derived) \in SUBSET Edge
  <2> HIDE DEF declared, derived
  <2> QED BY <1>3 DEF BreakBuildOrderCycles, BuildOrder
<1> HIDE DEF deps, declared, derived
<1> QED
  BY <1>1, <1>4 DEF NormalizeArchitecture, Architecture, deps, declared, derived

LEMMA SimplifyType ==
  ASSUME NEW a \in Architecture PROVE SimplifyEdges(a) \in Architecture
BY DEF SimplifyEdges, Architecture

LEMMA ClaimsType ==
  ASSUME NEW a \in Architecture, NEW c \in {"none", "inferred", "settled"}
  PROVE  [a EXCEPT !.claims = c] \in Architecture
BY DEF Architecture

LEMMA MigrateType ==
  ASSUME NEW a \in Architecture
  PROVE  MigrateArchitectureShape(a, {}) \in Architecture
<1>1. EdgesFromModules(a) \in SUBSET Edge
  BY FromModulesIsEdges
<1> QED
  BY <1>1 DEF MigrateArchitectureShape, Architecture

LEMMA OnlyType ==
  ASSUME NEW a \in Architecture, NEW S \in SUBSET Module
  PROVE  Only(a, S) \in Architecture /\ Only(a, S).edges = a.edges
BY DEF Only, Architecture

LEMMA TextType ==
  ASSUME NEW a \in Architecture, NEW m \in Module, NEW t \in Text
  PROVE  [a EXCEPT !.text[m] = t] \in Architecture
BY DEF Architecture

LEMMA LabelType ==
  ASSUME NEW a \in Architecture, NEW m \in Module, NEW l \in Label
  PROVE  [a EXCEPT !.label[m] = l] \in Architecture
BY DEF Architecture

LEMMA WithoutType ==
  ASSUME NEW a \in Architecture, NEW m \in Module
  PROVE  Without(a, m) \in Architecture
<1> DEFINE o == Only(a, a.mods \ {m})
           deps == [n \in Module |-> IF n = m THEN {} ELSE a.deps[n] \ {m}]
           edges == {e \in a.edges : m \notin {e.from, e.to}}
<1>1. o \in Architecture
  BY OnlyType DEF Architecture
<1>2. deps \in [Module -> SUBSET Module] /\ edges \in SUBSET Edge
  BY DEF Architecture
<1>3. Without(a, m) = [o EXCEPT !.deps = deps, !.edges = edges]
  BY DEF Without
<1> HIDE DEF o, deps, edges
<1> QED
  BY <1>1, <1>2, <1>3 DEF Architecture

LEMMA MergedType ==
  ASSUME NEW a \in Architecture, NEW m \in a.mods, NEW s \in a.mods,
         NEW t \in Text
  PROVE  MergedModules(a, m, s, t) \in Architecture
<1> DEFINE Into(n) == IF n = s THEN m ELSE n
           o == Only(a, a.mods \ {s})
           moved == {[e EXCEPT !.from = Into(@), !.to = Into(@)] : e \in a.edges}
           deps == [n \in Module |-> {Into(d) : d \in a.deps[n]} \ {n}]
           all == [n \in Module |->
                     IF n = m THEN deps[m] \cup (a.deps[s] \ {m})
                     ELSE IF n = s THEN {} ELSE deps[n]]
           edges == {e \in moved : e.from # e.to}
<1>1. m \in Module /\ s \in Module /\ o \in Architecture
  BY OnlyType DEF Architecture
<1>2. deps \in [Module -> SUBSET Module]
  BY <1>1 DEF Architecture
<1>3. all \in [Module -> SUBSET Module]
  <2> HIDE DEF deps
  <2> QED BY <1>1, <1>2 DEF Architecture
<1>4. moved \in SUBSET Edge
  <2>1. \A n \in Module : Into(n) \in Module
    BY <1>1
  <2>2. ASSUME NEW e \in Edge
        PROVE  [e EXCEPT !.from = Into(@), !.to = Into(@)] \in Edge
    <3> HIDE DEF Into
    <3>1. Into(e.from) \in Module /\ Into(e.to) \in Module
      BY <2>1 DEF Edge
    <3> QED
      BY <3>1 DEF Edge
  <2>3. \A e \in a.edges : e \in Edge
    BY DEF Architecture
  <2> HIDE DEF Into
  <2>4. \A e \in a.edges : [e EXCEPT !.from = Into(@), !.to = Into(@)] \in Edge
    BY <2>2, <2>3
  <2> QED
    BY <2>4
<1>5. edges \in SUBSET Edge
  <2> HIDE DEF moved
  <2> QED BY <1>4
<1>6. MergedModules(a, m, s, t) =
        [o EXCEPT !.text[m] = t, !.deps = all, !.edges = edges]
  BY DEF MergedModules
<1> HIDE DEF o, all, edges
<1>7. [o EXCEPT !.text[m] = t] \in Architecture
  BY <1>1, TextType
<1>8. [o EXCEPT !.text[m] = t, !.deps = all, !.edges = edges] =
        [[o EXCEPT !.text[m] = t] EXCEPT !.deps = all, !.edges = edges]
  OBVIOUS
<1> QED
  BY <1>3, <1>5, <1>6, <1>7, <1>8 DEF Architecture

LEMMA SplitType ==
  ASSUME NEW a \in Architecture, NEW m \in a.mods,
         NEW x \in Module, NEW y \in Module, NEW t \in Text
  PROVE  SplitModules(a, m, x, y, t) \in Architecture
<1> DEFINE halves == {x, y}
           Parts(n) == IF n = m THEN halves ELSE {n}
           mods == (a.mods \ {m}) \cup halves
           Source(n) == IF n \in halves THEN m ELSE n
           Both(S) == UNION {Parts(n) : n \in S}
           text == [n \in Module |-> IF n \in halves THEN t
                                     ELSE IF n = m THEN 0 ELSE a.text[n]]
           label == [n \in Module |-> IF n \in mods THEN a.label[Source(n)]
                                      ELSE 0]
           deps == [n \in Module |-> IF n \in mods THEN Both(a.deps[Source(n)])
                                     ELSE {}]
           owned == [n \in Module |-> IF n \in mods THEN a.files[Source(n)]
                                      ELSE {}]
           edges == UNION {[from : Parts(e.from), to : Parts(e.to),
                            kind : {e.kind}] : e \in a.edges}
<1>1. m \in Module /\ mods \in SUBSET Module
  BY DEF Architecture
<1>2. \A n \in Module : Parts(n) \in SUBSET Module
  OBVIOUS
<1>3. \A S \in SUBSET Module : Both(S) \in SUBSET Module
  <2> HIDE DEF Parts
  <2> QED BY <1>2
<1>4. \A n \in Module : Source(n) \in Module
  BY <1>1
<1>5. text \in [Module -> Text \cup {0}]
  BY DEF Architecture
<1>6. /\ deps \in [Module -> SUBSET Module] /\ owned \in [Module -> SUBSET Module]
      /\ label \in [Module -> Label \cup {0}]
  <2> HIDE DEF Source, Both, mods
  <2> QED BY <1>3, <1>4 DEF Architecture
<1>7. edges \in SUBSET Edge
  <2> HIDE DEF Parts
  <2>1. ASSUME NEW e \in a.edges, NEW f \in [from : Parts(e.from),
                                      to : Parts(e.to), kind : {e.kind}]
        PROVE  f \in Edge
    <3>1. e \in Edge
      BY DEF Architecture
    <3>2. e.from \in Module /\ e.to \in Module /\ e.kind \in Kind
      BY <3>1 DEF Edge
    <3>3. f.from \in Module /\ f.to \in Module /\ f.kind \in Kind
          /\ f = [from |-> f.from, to |-> f.to, kind |-> f.kind]
      BY <1>2, <3>2
    <3> QED
      BY <3>3 DEF Edge
  <2> QED
    BY <2>1
<1>8. SplitModules(a, m, x, y, t) =
        [a EXCEPT !.mods = mods, !.text = text, !.label = label, !.deps = deps,
                  !.files = owned, !.edges = edges]
  BY DEF SplitModules
<1> HIDE DEF mods, text, label, deps, owned, edges
<1> QED
  BY <1>1, <1>5, <1>6, <1>7, <1>8 DEF Architecture

LEMMA RetypeType ==
  ASSUME NEW a \in Architecture, NEW e \in a.edges, NEW k \in {"uses", "event"}
  PROVE  [a EXCEPT !.edges = (@ \ {e}) \cup {[e EXCEPT !.kind = k]}]
           \in Architecture
<1>1. e \in Edge /\ k \in Kind
  BY DEF Architecture, Kind, Alphabetic
<1>2. [e EXCEPT !.kind = k] \in Edge
  BY <1>1 DEF Edge
<1>3. (a.edges \ {e}) \cup {[e EXCEPT !.kind = k]} \in SUBSET Edge
  BY <1>2 DEF Architecture
<1> QED
  BY <1>3 DEF Architecture

LEMMA DeleteEdgeType ==
  ASSUME NEW a \in Architecture, NEW e \in a.edges
  PROVE  [a EXCEPT
            !.edges = {x \in @ : ~ (x.from = e.from /\ x.to = e.to)},
            !.deps[e.from] = @ \ {e.to}] \in Architecture
<1>1. e.from \in Module
  BY DEF Architecture, Edge
<1> QED
  BY <1>1 DEF Architecture

-----------------------------------------------------------------------------
LEMMA StaleEditType ==
  ASSUME NEW a \in Architecture, NEW b \in Architecture
  PROVE  StaleAfterEdit(a, b) \in SUBSET Module
<1>1. Changed(a, b) \in SUBSET Module
  BY DEF Changed, Architecture
<1>2. Reversed(b.edges) \in SUBSET Edge
  BY ReversedIsEdges DEF Architecture
<1> QED
  BY <1>1, <1>2, ReachedIsModules DEF StaleAfterEdit, Dependents

LEMMA StaleType ==
  ASSUME NEW a \in Architecture, NEW m \in Module
  PROVE  StaleAfterModuleEdit(a, m) \in SUBSET Module
<1>1. Reversed(a.edges) \in SUBSET Edge
  BY ReversedIsEdges DEF Architecture
<1> QED
  BY <1>1, ReachedIsModules DEF StaleAfterModuleEdit, Dependents

LEMMA ScopeType ==
  ASSUME NEW a \in Architecture, NEW m \in Module
  PROVE  ScopeModuleIds(a, m) \in SUBSET Module
<1>1. DependsOn(a) \in SUBSET Edge
  BY DependsIsEdges
<1>2. DependsOn(a) \cup Reversed(DependsOn(a)) \in SUBSET Edge
  BY <1>1, ReversedIsEdges
<1> QED
  BY <1>2, ReachedIsModules DEF ScopeModuleIds

\* A micro task in the plan has an owner.
GoodPlan == {p \in Plan : p.item[Micro] # "none" => p.owner \in Module}

LEMMA NewType ==
  ASSUME NEW source \in {"architecture", "plan"},
         NEW status \in {"planned", "confirmed", "review", "done"},
         NEW S \in SUBSET Module, NEW deps,
         \A m \in Module : deps[m] \in SUBSET Module
  PROVE  /\ NewItems(source, status, S, deps) \in Plan
         /\ NewItems(source, status, S, deps).item[Micro] = "none"
BY PlanAssumption DEF NewItems, Plan, Id, ItemStatus

LEMMA PlannedType ==
  ASSUME NEW S \in SUBSET Module, NEW deps,
         \A m \in Module : deps[m] \in SUBSET Module
  PROVE  Planned(S, deps) \in GoodPlan
BY NewType DEF Planned, GoodPlan

LEMMA SyncType ==
  ASSUME NEW p \in GoodPlan \cup {Null}, NEW a \in Architecture
  PROVE  SyncWorkItems(p, a) \in GoodPlan
<1>1. CASE Keeps(p)
  BY <1>1 DEF SyncWorkItems, Keeps
<1>2. CASE ~ Keeps(p)
  <2> DEFINE old == [i \in Id |-> IF p = Null THEN "none" ELSE p.item[i]]
             item == [i \in Id |-> IF i \notin a.mods THEN "none"
                                   ELSE IF old[i] = "none" THEN "pending"
                                   ELSE old[i]]
             new == NewItems("architecture", "confirmed", a.mods,
                             [m \in Module |-> a.deps[m] \cap a.mods])
             kept == [new EXCEPT !.item = item]
             status == IF Items(kept) # {} /\ AllDone(kept)
                       THEN "done" ELSE "confirmed"
  <2>1. old \in [Id -> ItemStatus \cup {"none"}]
    BY DEF GoodPlan, Plan
  <2>2. item \in [Id -> ItemStatus \cup {"none"}] /\ item[Micro] = "none"
    <3>1. Micro \notin a.mods /\ Micro \in Id
      BY PlanAssumption DEF Architecture, Id
    <3> HIDE DEF old
    <3> QED BY <2>1, <3>1 DEF ItemStatus
  <2>3. new \in Plan
    <3>1. a.mods \in SUBSET Module
          /\ \A m \in Module : a.deps[m] \cap a.mods \in SUBSET Module
      BY DEF Architecture
    <3> DEFINE deps == [m \in Module |-> a.deps[m] \cap a.mods]
    <3>2. \A m \in Module : deps[m] \in SUBSET Module
      BY <3>1
    <3> HIDE DEF deps
    <3> QED BY <3>1, <3>2, NewType DEF deps
  <2>4. SyncWorkItems(p, a) = [kept EXCEPT !.status = status]
    BY <1>2 DEF SyncWorkItems
  <2>5. kept \in Plan /\ kept.item = item
    <3> HIDE DEF new, item
    <3> QED BY <2>2, <2>3 DEF Plan
  <2> HIDE DEF kept, item
  <2> QED
    BY <2>2, <2>4, <2>5 DEF GoodPlan, Plan
<1> QED
  BY <1>1, <1>2

LEMMA ItemsType ==
  ASSUME NEW p \in GoodPlan, NEW item \in [Id -> ItemStatus \cup {"none"}],
         item[Micro] # "none" => p.item[Micro] # "none"
  PROVE  [p EXCEPT !.item = item] \in GoodPlan
BY DEF GoodPlan, Plan

LEMMA MarkType ==
  ASSUME NEW p \in GoodPlan, NEW S
  PROVE  MarkStale(p, S) \in GoodPlan
<1> DEFINE item == [i \in Id |->
     IF /\ p.item[i] \in {"pending", "running", "review"}
        /\ ModuleOf(p, i) \in S
     THEN "blocked" ELSE p.item[i]]
<1>1. item \in [Id -> ItemStatus \cup {"none"}]
  BY DEF GoodPlan, Plan, ItemStatus
<1>2. item[Micro] # "none" => p.item[Micro] # "none"
  BY DEF Id
<1> HIDE DEF item
<1> QED
  BY <1>1, <1>2, ItemsType DEF MarkStale, item

LEMMA SetType ==
  ASSUME NEW p \in GoodPlan, NEW S \in SUBSET Items(p), NEW s \in ItemStatus
  PROVE  SetItems(p, S, s) \in GoodPlan
<1> DEFINE item == [i \in Id |-> IF i \in S THEN s ELSE p.item[i]]
<1>1. item \in [Id -> ItemStatus \cup {"none"}]
  BY DEF GoodPlan, Plan
<1>2. item[Micro] # "none" => p.item[Micro] # "none"
  BY DEF Id, Items
<1> HIDE DEF item
<1> QED
  BY <1>1, <1>2, ItemsType DEF SetItems, item

LEMMA StatusType ==
  ASSUME NEW p \in GoodPlan, NEW s \in {"planned", "confirmed", "review", "done"}
  PROVE  [p EXCEPT !.status = s] \in GoodPlan
BY DEF GoodPlan, Plan

LEMMA MergedPlanType ==
  ASSUME NEW p \in GoodPlan \cup {Null}, NEW q \in Plan, q.item[Micro] = "none",
         NEW S
  PROVE  Merged(p, q, S) \in GoodPlan
<1> DEFINE kept == IF p = Null THEN {}
                   ELSE {i \in Items(p) : ModuleOf(p, i) \notin S}
           item == [i \in Id |-> IF i \in kept THEN p.item[i] ELSE q.item[i]]
           deps == [i \in Id |-> IF i \in kept THEN p.deps[i] ELSE q.deps[i]]
           owner == IF Micro \in kept THEN p.owner ELSE Null
<1>1. \A i \in kept : p \in GoodPlan /\ i \in Items(p)
  OBVIOUS
<1>2. Merged(p, q, S) = [source |-> "plan", status |-> "planned",
                         item |-> item, deps |-> deps, owner |-> owner]
  BY DEF Merged
<1> HIDE DEF kept
<1>3. item \in [Id -> ItemStatus \cup {"none"}]
  BY <1>1 DEF GoodPlan, Plan
<1>4. deps \in [Id -> SUBSET Id]
  BY <1>1 DEF GoodPlan, Plan
<1>5. owner \in Module \cup {Null}
  BY <1>1 DEF GoodPlan, Plan
<1>6. item[Micro] # "none" => owner \in Module
  BY <1>1 DEF GoodPlan, Items, Id
<1> HIDE DEF item, deps, owner
<1> QED
  BY <1>2, <1>3, <1>4, <1>5, <1>6 DEF GoodPlan, Plan

LEMMA AppendType ==
  ASSUME NEW p \in GoodPlan \cup {Null}, NEW m \in Module
  PROVE  /\ AppendMicro(p, m) \in GoodPlan
         /\ AppendMicro(p, m).item[Micro] = "pending"
<1> DEFINE old == IF p = Null THEN Planned({}, [i \in Id |-> {}]) ELSE p
<1>1. old \in GoodPlan
  <2> DEFINE deps == [i \in Id |-> {}]
  <2>1. \A n \in Module : deps[n] \in SUBSET Module
    BY DEF Id
  <2> HIDE DEF deps
  <2>2. Planned({}, deps) \in GoodPlan
    BY <2>1, PlannedType
  <2> QED
    BY <2>2 DEF deps
<1>2. AppendMicro(p, m) =
        [old EXCEPT !.item[Micro] = "pending", !.deps[Micro] = {},
                    !.owner = m, !.status = "confirmed"]
  BY DEF AppendMicro
<1> HIDE DEF old
<1>3. Micro \in Id /\ old \in Plan
  BY <1>1 DEF GoodPlan, Id
<1> DEFINE item == [old.item EXCEPT ![Micro] = "pending"]
           deps == [old.deps EXCEPT ![Micro] = {}]
<1>4. /\ item \in [Id -> ItemStatus \cup {"none"}] /\ item[Micro] = "pending"
      /\ deps \in [Id -> SUBSET Id]
  BY <1>3 DEF Plan, ItemStatus
<1>5. AppendMicro(p, m) =
        [old EXCEPT !.item = item, !.deps = deps,
                    !.owner = m, !.status = "confirmed"]
  BY <1>2, <1>3 DEF Plan
<1> HIDE DEF item, deps
<1>6. AppendMicro(p, m) \in Plan /\ AppendMicro(p, m).item = item
      /\ AppendMicro(p, m).owner = m
  BY <1>3, <1>4, <1>5 DEF Plan
<1> QED
  BY <1>4, <1>6 DEF GoodPlan

LEMMA MicroType ==
  ASSUME NEW p \in GoodPlan, p.item[Micro] # "none", NEW s \in ItemStatus
  PROVE  [p EXCEPT !.item[Micro] = s] \in GoodPlan
BY DEF GoodPlan, Plan, Id

LEMMA OwnersType ==
  ASSUME NEW p \in GoodPlan PROVE Owners(p) \in SUBSET Module
BY DEF Owners, Items, ModuleOf, GoodPlan, Plan, Id

LEMMA ReconcileIs ==
  ASSUME NEW nodes, NEW p PROVE Reconcile(nodes, p) = Owners(p)
BY DEF Reconcile

-----------------------------------------------------------------------------
(* What the requests write.                                                *)

History == {h \in Seq(Architecture) : Len(h) <= HISTORY_MAX}

Writing ==
  [file : {"boot"}, value : Bootstrap]
    \cup [file : {"doc"}, value : Architecture]
    \cup [file : {"history"}, value : History]
    \cup [file : {"stale", "errors"}, value : SUBSET Module]
    \cup [file : {"plan"}, value : GoodPlan]

\* What is written to one file.
Says(file, writes) == {writes[i].value : i \in At(file, writes)}

\* A module has an error node exactly when a task of it has failed.
Agree(p, nodes) == nodes = IF p = Null THEN {} ELSE Owners(p)

\* Writes that leave the architecture alone, and the error nodes true.
WorkOnly(w) ==
  /\ w \in Seq(Writing)
  /\ \A file \in {"boot", "doc", "history"} :
       \A old : Will(file, old, w) = old
  /\ Says("boot", w) = {}
  /\ \A p, nodes : Agree(p, nodes) =>
       Agree(Will("plan", p, w), Will("errors", nodes, w))

LEMMA OneSays ==
  ASSUME NEW file, NEW name, NEW value
  PROVE  Says(file, <<Put(name, value)>>) = IF name = file THEN {value} ELSE {}
<1> DEFINE s == <<Put(name, value)>>
<1>1. Len(s) = 1 /\ s[1].file = name /\ s[1].value = value
  BY DEF Put
<1> HIDE DEF s
<1>2. At(file, s) = IF name = file THEN {1} ELSE {}
  BY <1>1 DEF At
<1>3. Says(file, s) = IF name = file THEN {value} ELSE {}
  BY <1>1, <1>2 DEF Says
<1> QED
  BY <1>3 DEF s

LEMMA NothingSays == ASSUME NEW file PROVE Says(file, <<>>) = {}
BY DEF Says, At

LEMMA BothSay ==
  ASSUME NEW S, NEW s \in Seq(S), NEW t \in Seq(S), NEW file
  PROVE  Says(file, s \o t) = Says(file, s) \cup Says(file, t)
<1> DEFINE u == s \o t
           m == Len(s)
           n == Len(t)
<1>1. u \in Seq(S) /\ Len(u) = m + n /\ m \in Nat /\ n \in Nat
  OBVIOUS
<1>2. /\ \A i \in 1..m : u[i] = s[i]
      /\ \A i \in 1..n : u[m + i] = t[i]
      /\ \A i \in 1..(m + n) : i \in 1..m \/ (i - m \in 1..n /\ i = m + (i - m))
  OBVIOUS
<1>3. \A i \in 1..m : i \in 1..(m + n)
  BY <1>1
<1>4. \A i \in 1..n : m + i \in 1..(m + n)
  BY <1>1
<1> HIDE DEF u, m, n
<1>5. ASSUME NEW v \in Says(file, u)
      PROVE  v \in Says(file, s) \cup Says(file, t)
  <2>1. PICK i \in 1..(m + n) : u[i].file = file /\ u[i].value = v
    BY <1>1 DEF Says, At
  <2>2. CASE i \in 1..m
    BY <1>2, <2>1, <2>2 DEF Says, At, m
  <2>3. CASE i - m \in 1..n /\ i = m + (i - m)
    <3>1. u[i] = t[i - m]
      BY <1>2, <2>3
    <3> QED
      BY <2>1, <2>3, <3>1 DEF Says, At, n
  <2> QED
    BY <1>2, <2>1, <2>2, <2>3
<1>6. ASSUME NEW v \in Says(file, s) PROVE v \in Says(file, u)
  BY <1>1, <1>2, <1>3 DEF Says, At, m
<1>7. ASSUME NEW v \in Says(file, t) PROVE v \in Says(file, u)
  <2>1. PICK i \in 1..n : t[i].file = file /\ t[i].value = v
    BY DEF Says, At, n
  <2>2. m + i \in 1..Len(u) /\ u[m + i] = t[i]
    BY <1>1, <1>2, <1>4
  <2> QED
    BY <2>1, <2>2 DEF Says, At
<1>8. Says(file, u) = Says(file, s) \cup Says(file, t)
  BY <1>5, <1>6, <1>7
<1> QED
  BY <1>8 DEF u

LEMMA HeadSays ==
  ASSUME NEW S, NEW s \in Seq(S), s # <<>>, NEW file
  PROVE  /\ Says(file, Tail(s)) \subseteq Says(file, s)
         /\ Head(s).file = file => Head(s).value \in Says(file, s)
         /\ Head(s) \in S /\ Tail(s) \in Seq(S)
<1>1. Len(s) \in Nat /\ 1 \in 1..Len(s) /\ Head(s) = s[1] /\ Head(s) \in S
  OBVIOUS
<1> DEFINE t == Tail(s)
<1>2. t \in Seq(S) /\ Len(t) = Len(s) - 1
      /\ \A i \in 1..Len(t) : t[i] = s[i + 1]
  BY <1>1
<1> HIDE DEF t
<1>3. ASSUME NEW v \in Says(file, t) PROVE v \in Says(file, s)
  <2>1. PICK i \in 1..Len(t) : t[i].file = file /\ t[i].value = v
    BY DEF Says, At
  <2>2. i + 1 \in 1..Len(s) /\ s[i + 1] = t[i]
    BY <1>1, <1>2
  <2> QED
    BY <2>1, <2>2 DEF Says, At
<1>4. Head(s).file = file => Head(s).value \in Says(file, s)
  BY <1>1 DEF Says, At
<1> QED
  BY <1>1, <1>2, <1>3, <1>4 DEF t

-----------------------------------------------------------------------------
LEMMA NoWork == WorkOnly(<<>>)
<1>1. \A file, old : Will(file, old, <<>>) = old
  BY NothingWritten
<1>2. <<>> \in Seq(Writing)
  OBVIOUS
<1>3. Says("boot", <<>>) = {}
  BY NothingSays
<1> QED
  BY <1>1, <1>2, <1>3 DEF WorkOnly

LEMMA MoreWork ==
  ASSUME NEW v, WorkOnly(v), NEW w, WorkOnly(w) PROVE WorkOnly(v \o w)
<1>1. v \in Seq(Writing) /\ w \in Seq(Writing) /\ v \o w \in Seq(Writing)
  BY DEF WorkOnly
<1>2. \A file, old : Will(file, old, v \o w) = Will(file, Will(file, old, v), w)
  BY <1>1, BothWritten
<1>3. \A file \in {"boot", "doc", "history"} :
        \A old : Will(file, old, v \o w) = old
  BY <1>2 DEF WorkOnly
<1>4. ASSUME NEW p, NEW nodes, Agree(p, nodes)
      PROVE  Agree(Will("plan", p, v \o w), Will("errors", nodes, v \o w))
  BY <1>2, <1>4 DEF WorkOnly
<1>5. Says("boot", v \o w) = {}
  <2>1. Says("boot", v \o w) = Says("boot", v) \cup Says("boot", w)
    BY <1>1, BothSay
  <2> QED
    BY <2>1 DEF WorkOnly
<1> QED
  BY <1>1, <1>3, <1>4, <1>5 DEF WorkOnly

LEMMA StalePutIs ==
  ASSUME NEW S \in SUBSET Module PROVE WorkOnly(<<Put("stale", S)>>)
<1> DEFINE s == <<Put("stale", S)>>
<1>1. Put("stale", S) \in Writing
  BY DEF Put, Writing
<1>2. s \in Seq(Writing)
  BY <1>1
<1>3. \A file, old : Will(file, old, s) = IF "stale" = file THEN S ELSE old
  BY OneWritten
<1>4. Says("boot", s) = {}
  BY OneSays
<1> HIDE DEF s
<1>5. WorkOnly(s)
  BY <1>2, <1>3, <1>4 DEF WorkOnly
<1> QED
  BY <1>5 DEF s

LEMMA PutPlanIs ==
  ASSUME NEW p \in GoodPlan
  PROVE  /\ WorkOnly(PutPlan(p))
         /\ \A old : Will("plan", old, PutPlan(p)) = p
         /\ \A old : Will("errors", old, PutPlan(p)) = Owners(p)
<1> DEFINE s == <<Put("plan", p)>>
           t == <<Put("errors", Reconcile(errors, p))>>
<1>1. PutPlan(p) = s \o t
  BY DEF PutPlan
<1>2. Reconcile(errors, p) = Owners(p) /\ Owners(p) \in SUBSET Module
  BY OwnersType, ReconcileIs
<1>3. Put("plan", p) \in Writing /\ Put("errors", Owners(p)) \in Writing
  BY <1>2 DEF Put, Writing
<1>4. s \in Seq(Writing) /\ t \in Seq(Writing) /\ s \o t \in Seq(Writing)
  BY <1>2, <1>3
<1>5. \A file, old : Will(file, old, s) = IF "plan" = file THEN p ELSE old
  BY OneWritten
<1>6. \A file, old : Will(file, old, t) =
                       IF "errors" = file THEN Owners(p) ELSE old
  BY <1>2, OneWritten
<1>7. \A file, old : Will(file, old, s \o t) = Will(file, Will(file, old, s), t)
  <2> HIDE DEF s, t
  <2> QED BY <1>4, BothWritten
<1>8. Says("boot", s \o t) = {}
  <2>1. Says("boot", s) = {} /\ Says("boot", t) = {}
    BY OneSays
  <2> HIDE DEF s, t
  <2> QED BY <1>4, <2>1, BothSay
<1> HIDE DEF s, t
<1>9. p # Null
  BY StudioAssumption DEF GoodPlan
<1>10. \A old : Will("plan", old, s \o t) = p /\ Will("errors", old, s \o t) = Owners(p)
  BY <1>5, <1>6, <1>7
<1>11. \A file \in {"boot", "doc", "history"} :
         \A old : Will(file, old, s \o t) = old
  BY <1>5, <1>6, <1>7
<1>12. WorkOnly(s \o t)
  BY <1>4, <1>8, <1>9, <1>10, <1>11 DEF WorkOnly, Agree
<1> QED
  BY <1>1, <1>10, <1>12

LEMMA PutSyncedIs ==
  ASSUME NEW p \in GoodPlan \cup {Null}, NEW a \in Architecture
  PROVE  WorkOnly(PutSynced(p, a))
<1>1. SyncWorkItems(p, a) \in GoodPlan
  BY SyncType
<1> QED
  BY <1>1, NoWork, PutPlanIs DEF PutSynced

LEMMA PutBootIs ==
  ASSUME NEW b \in Bootstrap \cup {Null}, NEW a \in Architecture
  PROVE  /\ PutBoot(b, a) \in Seq(Writing)
         /\ \A old : Will("boot", old, PutBoot(b, a)) =
                       IF b = Null THEN old ELSE [b EXCEPT !.arch = a]
         /\ \A file : file # "boot" =>
              \A old : Will(file, old, PutBoot(b, a)) = old
         /\ Says("boot", PutBoot(b, a)) =
              IF b = Null THEN {} ELSE {[b EXCEPT !.arch = a]}
<1>1. CASE b = Null
  <2>1. PutBoot(b, a) = <<>>
    BY <1>1 DEF PutBoot
  <2>2. \A file, old : Will(file, old, <<>>) = old
    BY NothingWritten
  <2>3. Says("boot", <<>>) = {}
    BY NothingSays
  <2> QED
    BY <1>1, <2>1, <2>2, <2>3
<1>2. CASE b # Null
  <2> DEFINE v == [b EXCEPT !.arch = a]
  <2>1. PutBoot(b, a) = <<Put("boot", v)>> /\ v \in Bootstrap
    BY <1>2 DEF PutBoot, Bootstrap
  <2> HIDE DEF v
  <2>2. Put("boot", v) \in Writing
    BY <2>1 DEF Put, Writing
  <2>3. \A file, old : Will(file, old, <<Put("boot", v)>>) =
                         IF "boot" = file THEN v ELSE old
    BY OneWritten
  <2>4. Says("boot", <<Put("boot", v)>>) = {v}
    BY OneSays
  <2> QED
    BY <1>2, <2>1, <2>2, <2>3, <2>4 DEF v
<1> QED
  BY <1>1, <1>2

LEMMA PushIs ==
  ASSUME history \in History, NEW a \in Architecture, NEW new
  PROVE  \E h \in History : Push(a, new) = <<Put("history", h)>>
                            /\ h # <<>> /\ Last(h) = a
<1> DEFINE all == Append(history, a)
           h == IF Len(all) > HISTORY_MAX THEN Tail(all) ELSE all
<1>1. Push(a, new) = <<Put("history", h)>>
  BY DEF Push
<1>2. /\ HISTORY_MAX \in Nat \ {0} /\ history \in Seq(Architecture)
      /\ Len(history) \in Nat /\ Len(history) <= HISTORY_MAX
  BY StudioAssumption DEF History
<1>3. /\ all \in Seq(Architecture) /\ Len(all) = Len(history) + 1
      /\ all[Len(all)] = a /\ all # <<>>
  BY <1>2
<1> HIDE DEF all
<1>4. CASE Len(all) > HISTORY_MAX
  <2>1. h = Tail(all)
    BY <1>4
  <2>2. /\ Tail(all) \in Seq(Architecture) /\ Len(Tail(all)) = Len(all) - 1
        /\ Len(Tail(all)) \in 1..HISTORY_MAX
        /\ Tail(all)[Len(Tail(all))] = all[Len(all)]
    BY <1>2, <1>3, <1>4
  <2> HIDE DEF h
  <2>3. h \in History /\ h # <<>> /\ Last(h) = a
    BY <1>3, <2>1, <2>2 DEF History, Last
  <2> QED
    BY <1>1, <2>3
<1>5. CASE ~ Len(all) > HISTORY_MAX
  <2>1. h = all /\ Len(all) <= HISTORY_MAX
    BY <1>2, <1>3, <1>5
  <2> HIDE DEF h
  <2>2. h \in History /\ h # <<>> /\ Last(h) = a
    BY <1>3, <2>1 DEF History, Last
  <2> QED
    BY <1>1, <2>2
<1> QED
  BY <1>4, <1>5

\* What an edit outside the review writes: the new document, the draft if
\* there is one, and the old document as the last of the history.
EditWrites(b, previous, new, w) ==
  /\ w \in Seq(Writing)
  /\ \A old : Will("boot", old, w) =
                IF b = Null THEN old ELSE [b EXCEPT !.arch = new]
  /\ Says("boot", w) = IF b = Null THEN {} ELSE {[b EXCEPT !.arch = new]}
  /\ \A old : Will("doc", old, w) = new
  /\ \E h \in History : /\ \A old : Will("history", old, w) = h
                        /\ h # <<>> /\ Last(h) = previous
  /\ \A p, nodes : Agree(p, nodes) =>
       Agree(Will("plan", p, w), Will("errors", nodes, w))

LEMMA FourWritten ==
  ASSUME NEW S, NEW r \in Seq(S), NEW s \in Seq(S), NEW t \in Seq(S),
         NEW u \in Seq(S)
  PROVE  LET w == ((r \o s) \o t) \o u
         IN  /\ w \in Seq(S)
             /\ \A file, old : Will(file, old, w) =
                  Will(file, Will(file, Will(file, Will(file, old, r), s), t), u)
             /\ \A file : Says(file, w) = Says(file, r) \cup Says(file, s)
                            \cup Says(file, t) \cup Says(file, u)
<1> DEFINE v == r \o s
           x == v \o t
           w == x \o u
<1>1. v \in Seq(S)
  OBVIOUS
<1>2. /\ \A file, old : Will(file, old, v) = Will(file, Will(file, old, r), s)
      /\ \A file : Says(file, v) = Says(file, r) \cup Says(file, s)
  BY BothWritten, BothSay
<1> HIDE DEF v
<1>3. x \in Seq(S)
  BY <1>1
<1>4. /\ \A file, old : Will(file, old, x) = Will(file, Will(file, old, v), t)
      /\ \A file : Says(file, x) = Says(file, v) \cup Says(file, t)
  BY <1>1, BothWritten, BothSay
<1> HIDE DEF x
<1>5. w \in Seq(S)
  BY <1>3
<1>6. /\ \A file, old : Will(file, old, w) = Will(file, Will(file, old, x), u)
      /\ \A file : Says(file, w) = Says(file, x) \cup Says(file, u)
  BY <1>3, BothWritten, BothSay
<1> HIDE DEF w
<1>7. /\ \A file, old : Will(file, old, w) =
           Will(file, Will(file, Will(file, Will(file, old, r), s), t), u)
      /\ \A file : Says(file, w) = Says(file, r) \cup Says(file, s)
                      \cup Says(file, t) \cup Says(file, u)
  BY <1>2, <1>4, <1>6
<1> QED
  BY <1>5, <1>7 DEF w, x, v

LEMMA PutEditIs ==
  ASSUME history \in History, NEW b \in Bootstrap \cup {Null}, NEW d,
         NEW flagged \in SUBSET Module, NEW previous \in Architecture,
         NEW new \in Architecture
  PROVE  EditWrites(b, previous, new, PutEdit(b, d, flagged, previous, new))
<1> DEFINE r == <<Put("stale", flagged)>>
           s == Push(previous, new)
           t == <<Put("doc", new)>>
           u == PutBoot(b, new)
           w == ((r \o s) \o t) \o u
<1>1. PutEdit(b, d, flagged, previous, new) = w
  BY DEF PutEdit
<1>2. PICK h \in History : s = <<Put("history", h)>> /\ h # <<>> /\ Last(h) = previous
  BY PushIs
<1>3. /\ Put("stale", flagged) \in Writing /\ Put("history", h) \in Writing
      /\ Put("doc", new) \in Writing
  BY DEF Put, Writing
<1>4. /\ r \in Seq(Writing) /\ s \in Seq(Writing) /\ t \in Seq(Writing)
      /\ u \in Seq(Writing)
  BY <1>2, <1>3, PutBootIs
<1>5. /\ \A file, old : Will(file, old, r) = IF "stale" = file THEN flagged ELSE old
      /\ \A file, old : Will(file, old, s) = IF "history" = file THEN h ELSE old
      /\ \A file, old : Will(file, old, t) = IF "doc" = file THEN new ELSE old
  BY <1>2, OneWritten
<1>6. /\ \A old : Will("boot", old, u) =
                    IF b = Null THEN old ELSE [b EXCEPT !.arch = new]
      /\ \A file : file # "boot" => \A old : Will(file, old, u) = old
      /\ Says("boot", u) = IF b = Null THEN {} ELSE {[b EXCEPT !.arch = new]}
  BY PutBootIs
<1>7. Says("boot", r) = {} /\ Says("boot", s) = {} /\ Says("boot", t) = {}
  <2>1. Says("boot", r) = {} /\ Says("boot", t) = {}
    BY OneSays
  <2>2. Says("boot", <<Put("history", h)>>) = {}
    BY OneSays
  <2> QED
    BY <1>2, <2>1, <2>2
<1> HIDE DEF r, s, t, u
<1>8. /\ w \in Seq(Writing)
      /\ \A file, old : Will(file, old, w) =
           Will(file, Will(file, Will(file, Will(file, old, r), s), t), u)
      /\ Says("boot", w) = Says("boot", r) \cup Says("boot", s)
                             \cup Says("boot", t) \cup Says("boot", u)
  BY <1>4, FourWritten
<1>9. Says("boot", w) = Says("boot", u)
  BY <1>7, <1>8
<1> HIDE DEF w
<1>10. \A old : /\ Will("doc", old, w) = new /\ Will("history", old, w) = h
                /\ Will("plan", old, w) = old /\ Will("errors", old, w) = old
                /\ Will("boot", old, w) =
                     IF b = Null THEN old ELSE [b EXCEPT !.arch = new]
  BY <1>5, <1>6, <1>8
<1>12. \A p, nodes : Agree(p, nodes) =>
        Agree(Will("plan", p, w), Will("errors", nodes, w))
  BY <1>10
<1>13. \E k \in History : /\ \A old : Will("history", old, w) = k
                          /\ k # <<>> /\ Last(k) = previous
  BY <1>2, <1>10
<1>14. EditWrites(b, previous, new, w)
  BY <1>6, <1>8, <1>9, <1>10, <1>12, <1>13 DEF EditWrites
<1> QED
  BY <1>1, <1>14 DEF w

LEMMA EditAndWork ==
  ASSUME NEW b, NEW previous, NEW new, NEW v, EditWrites(b, previous, new, v),
         NEW w, WorkOnly(w)
  PROVE  EditWrites(b, previous, new, v \o w)
<1>1. v \in Seq(Writing) /\ w \in Seq(Writing) /\ v \o w \in Seq(Writing)
  BY DEF EditWrites, WorkOnly
<1>2. \A file, old : Will(file, old, v \o w) = Will(file, Will(file, old, v), w)
  BY <1>1, BothWritten
<1>3. \A file \in {"boot", "doc", "history"} : \A old :
        Will(file, old, v \o w) = Will(file, old, v)
  BY <1>2 DEF WorkOnly
<1>4. Says("boot", v \o w) = Says("boot", v)
  <2>1. Says("boot", v \o w) = Says("boot", v) \cup Says("boot", w)
    BY <1>1, BothSay
  <2> QED
    BY <2>1 DEF WorkOnly
<1>5. ASSUME NEW p, NEW nodes, Agree(p, nodes)
      PROVE  Agree(Will("plan", p, v \o w), Will("errors", nodes, v \o w))
  <2>1. Agree(Will("plan", p, v), Will("errors", nodes, v))
    BY <1>5 DEF EditWrites
  <2>2. Agree(Will("plan", Will("plan", p, v), w),
              Will("errors", Will("errors", nodes, v), w))
    BY <2>1 DEF WorkOnly
  <2> QED
    BY <1>2, <2>2
<1>6. \E h \in History : /\ \A old : Will("history", old, v \o w) = h
                         /\ h # <<>> /\ Last(h) = previous
  <2>1. PICK h \in History : /\ \A old : Will("history", old, v) = h
                             /\ h # <<>> /\ Last(h) = previous
    BY DEF EditWrites
  <2> QED
    BY <1>3, <2>1
<1> QED
  BY <1>1, <1>3, <1>4, <1>5, <1>6 DEF EditWrites

-----------------------------------------------------------------------------
(* The inductive invariant.  The types and what undo relies on hold in any *)
(* case, the rest when no request is served while another one waits for a  *)
(* model.                                                                  *)

\* What the requests that wait were asked with.
CallShaped ==
  call # Null =>
    /\ call \in Call /\ call.plan \in GoodPlan \cup {Null}
    /\ call.kind \in {"start", "answer", "stream", "revise", "finalize"} =>
         call.boot # Null
    /\ call.kind = "answer" => call.boot.status = "interviewing"
    /\ call.kind = "finalize" => call.boot.status = "ready"
    /\ call.kind \in {"edit", "plan", "orchestrate"} =>
         Resolve(call.boot, call.doc) # Null
    /\ call.kind \in {"micro", "wave"} => call.plan # Null
    /\ call.kind = "micro" => call.plan.item[Micro] = "pending"

TypeInv ==
  /\ boot \in Bootstrap \cup {Null}
  /\ doc \in Architecture \cup {Null}
  /\ history \in History
  /\ stale \in SUBSET Module /\ errors \in SUBSET Module
  /\ plan \in GoodPlan \cup {Null}
  /\ handler \in Requests
  /\ pending \in Seq(Writing)
  /\ CallShaped
  /\ served \in 0..MaxRequests /\ cut \in BOOLEAN
  /\ replaced \in Architecture \cup {Null}

\* The copies are current, or will be when all is written.
CallCurrent ==
  call # Null =>
    /\ call.kind \in {"edit", "finalize"} =>
         call.boot = Will("boot", boot, pending)
    /\ call.kind = "edit" => call.doc = Will("doc", doc, pending)
    /\ call.kind = "finalize" => Will("doc", doc, pending) = call.boot.arch
    /\ call.kind = "micro" => call.plan = Will("plan", plan, pending)

Built(b, d) ==
  b # Null /\ b.status = "initialized" =>
    d # Null /\ Unsettled(d) = Unsettled(b.arch)

\* A request writes one draft.
OneDraft(w) == \A u, v \in Says("boot", w) : u = v

UndoIsPossible ==
  replaced # Null =>
    /\ handler \in {"edit", "node", "edge"} =>
         LET h == Will("history", history, pending)
         IN  h # <<>> /\ Last(h) = replaced
    /\ handler = "undo" =>
         LET b == Will("boot", boot, pending)
         IN  /\ Will("doc", doc, pending) = replaced
             /\ b # Null => b.arch = replaced

Settled ==
  /\ CallCurrent
  /\ ~ cut => Built(Will("boot", boot, pending), Will("doc", doc, pending))
  /\ ~ cut => Agree(Will("plan", plan, pending), Will("errors", errors, pending))
  /\ OneDraft(pending)

IInv == TypeInv /\ UndoIsPossible /\ (~ Overlap => Settled)

\* Writes that keep it, begun when nothing is pending.
Fine(w) ==
  /\ w \in Seq(Writing)
  /\ ~ Overlap =>
       /\ Built(boot, doc) => Built(Will("boot", boot, w), Will("doc", doc, w))
       /\ Agree(plan, errors) =>
            Agree(Will("plan", plan, w), Will("errors", errors, w))
       /\ OneDraft(w)

LEMMA NullIsNot ==
  /\ \A b \in Bootstrap : b # Null
  /\ \A a \in Architecture : a # Null
  /\ \A p \in GoodPlan : p # Null
  /\ \A c \in Call : c # Null
BY StudioAssumption DEF GoodPlan

LEMMA AtRest ==
  ASSUME IInv, pending = <<>>, ~ Overlap
  PROVE  /\ CallCurrent /\ OneDraft(<<>>)
         /\ \A file, old : Will(file, old, pending) = old
         /\ ~ cut => Built(boot, doc)
         /\ ~ cut => Agree(plan, errors)
<1>1. \A file, old : Will(file, old, <<>>) = old
  BY NothingWritten
<1> QED
  BY <1>1 DEF IInv, Settled

\* What is common to all requests that begin to write.
LEMMA BeginKeeps ==
  ASSUME IInv, pending = <<>>, UNCHANGED <<files, cut>>,
         Fine(pending'), handler' \in Requests, served' \in 0..MaxRequests,
         replaced' \in Architecture \cup {Null},
         CallShaped', UndoIsPossible', ~ Overlap => CallCurrent'
  PROVE  IInv'
<1>1. TypeInv'
  BY DEF IInv, TypeInv, Fine, files
<1>2. ASSUME ~ Overlap PROVE Settled'
  <2>1. /\ ~ cut => Built(boot, doc)
        /\ ~ cut => Agree(plan, errors)
    BY <1>2, AtRest
  <2>2. /\ Built(boot, doc) =>
             Built(Will("boot", boot, pending'), Will("doc", doc, pending'))
        /\ Agree(plan, errors) =>
             Agree(Will("plan", plan, pending'), Will("errors", errors, pending'))
        /\ OneDraft(pending')
    BY <1>2 DEF Fine
  <2>3. boot' = boot /\ doc' = doc /\ plan' = plan /\ errors' = errors /\ cut' = cut
    BY DEF files
  <2> QED
    BY <1>2, <2>1, <2>2, <2>3 DEF Settled
<1> QED
  BY <1>1, <1>2 DEF IInv

LEMMA ServeKeeps ==
  ASSUME IInv, NEW name \in Requests, NEW w, Serve(name, w), Fine(w)
  PROVE  IInv'
<1>1. /\ pending = <<>> /\ pending' = w /\ handler' = name /\ replaced' = Null
      /\ UNCHANGED <<files, call, cut>> /\ served' = served + 1
      /\ served < MaxRequests /\ (Overlap \/ call = Null)
  BY DEF Serve, Free, Write
<1>2. served' \in 0..MaxRequests
  BY <1>1, StudioAssumption DEF IInv, TypeInv
<1>3. CallShaped'
  BY <1>1 DEF IInv, TypeInv, CallShaped, Resolve, HasModules
<1>4. UndoIsPossible' /\ (~ Overlap => CallCurrent')
  BY <1>1 DEF CallCurrent, UndoIsPossible
<1> QED
  BY <1>1, <1>2, <1>3, <1>4, BeginKeeps

LEMMA AskKeeps ==
  ASSUME IInv, NEW kind \in Waits, NEW b, NEW p, NEW scope, NEW w,
         Ask(kind, b, p, scope, w), Fine(w), CallShaped',
         ~ Overlap => CallCurrent'
  PROVE  IInv'
<1>1. /\ pending = <<>> /\ pending' = w /\ handler' = kind /\ replaced' = Null
      /\ UNCHANGED <<files, cut>> /\ served' = served + 1
      /\ served < MaxRequests
  BY DEF Ask, Free, Write
<1>2. served' \in 0..MaxRequests
  BY <1>1, StudioAssumption DEF IInv, TypeInv
<1>3. UndoIsPossible'
  BY <1>1 DEF UndoIsPossible
<1>4. handler' \in Requests
  BY <1>1 DEF Requests
<1> QED
  BY <1>1, <1>2, <1>3, <1>4, BeginKeeps

LEMMA ResumeKeeps ==
  ASSUME IInv, NEW kind \in Waits, NEW w, Resume(kind, w), Fine(w),
         replaced' = Null \/ (kind # "edit" /\ UNCHANGED replaced)
  PROVE  IInv'
<1>1. /\ pending = <<>> /\ pending' = w /\ handler' = kind /\ call' = Null
      /\ UNCHANGED <<files, served, cut>> /\ call # Null
  BY DEF Resume, Write
<1>2. CallShaped' /\ CallCurrent'
  BY <1>1 DEF CallShaped, CallCurrent
<1>3. UndoIsPossible'
  BY <1>1 DEF UndoIsPossible, Waits
<1>4. /\ handler' \in Requests /\ served' \in 0..MaxRequests
      /\ replaced' \in Architecture \cup {Null}
  BY <1>1 DEF IInv, TypeInv, Requests
<1> QED
  BY <1>1, <1>2, <1>3, <1>4, BeginKeeps

LEMMA EditingKeeps ==
  ASSUME IInv, NEW name \in Requests, NEW w, NEW gone \in Architecture \cup {Null},
         Editing(name, w, gone), Fine(w), UndoIsPossible'
  PROVE  IInv'
<1>1. /\ pending = <<>> /\ pending' = w /\ handler' = name /\ replaced' = gone
      /\ UNCHANGED <<files, call, cut>> /\ served' = served + 1
      /\ served < MaxRequests /\ (Overlap \/ call = Null)
  BY DEF Editing, Free, Write
<1>2. served' \in 0..MaxRequests
  BY <1>1, StudioAssumption DEF IInv, TypeInv
<1>3. CallShaped'
  BY <1>1 DEF IInv, TypeInv, CallShaped, Resolve, HasModules
<1>4. ~ Overlap => CallCurrent'
  BY <1>1 DEF CallCurrent
<1> QED
  BY <1>1, <1>2, <1>3, <1>4, BeginKeeps

-----------------------------------------------------------------------------
LEMMA FineWork == ASSUME NEW w, WorkOnly(w) PROVE Fine(w)
<1>1. OneDraft(w)
  BY DEF WorkOnly, OneDraft
<1> QED
  BY <1>1 DEF WorkOnly, Fine

LEMMA FineBoot ==
  ASSUME NEW v \in Bootstrap,
         ~ Overlap => (Built(boot, doc) => Built(v, doc))
  PROVE  Fine(<<Put("boot", v)>>)
<1> DEFINE w == <<Put("boot", v)>>
<1>1. w \in Seq(Writing)
  <2>1. Put("boot", v) \in Writing
    BY DEF Put, Writing
  <2> QED
    BY <2>1
<1>2. \A file, old : Will(file, old, w) = IF "boot" = file THEN v ELSE old
  BY OneWritten
<1>3. Says("boot", w) = {v}
  BY OneSays
<1> HIDE DEF w
<1>4. Fine(w)
  BY <1>1, <1>2, <1>3 DEF Fine, OneDraft
<1> QED
  BY <1>4 DEF w

LEMMA FineDoc ==
  ASSUME NEW d \in Architecture, ~ Overlap => (Built(boot, doc) => Built(boot, d))
  PROVE  Fine(<<Put("doc", d)>>)
<1> DEFINE w == <<Put("doc", d)>>
<1>1. w \in Seq(Writing)
  <2>1. Put("doc", d) \in Writing
    BY DEF Put, Writing
  <2> QED
    BY <2>1
<1>2. \A file, old : Will(file, old, w) = IF "doc" = file THEN d ELSE old
  BY OneWritten
<1>3. Says("boot", w) = {}
  BY OneSays
<1> HIDE DEF w
<1>4. Fine(w)
  BY <1>1, <1>2, <1>3 DEF Fine, OneDraft
<1> QED
  BY <1>4 DEF w

\* A new architecture for the draft, and work.
LEMMA FineDraft ==
  ASSUME NEW v, WorkOnly(v), NEW b \in Bootstrap,
         ~ Overlap => (Built(boot, doc) => Built(b, doc))
  PROVE  Fine(v \o <<Put("boot", b)>>)
<1> DEFINE s == <<Put("boot", b)>>
           w == v \o s
<1>1. Put("boot", b) \in Writing
  BY DEF Put, Writing
<1>2. v \in Seq(Writing) /\ s \in Seq(Writing) /\ w \in Seq(Writing)
  BY <1>1 DEF WorkOnly
<1>3. \A file, old : Will(file, old, s) = IF "boot" = file THEN b ELSE old
  BY OneWritten
<1>4. Says("boot", s) = {b}
  BY OneSays
<1> HIDE DEF s
<1>5. \A file, old : Will(file, old, v \o s) = Will(file, Will(file, old, v), s)
  BY <1>2, BothWritten
<1>6. Says("boot", v \o s) = Says("boot", v) \cup Says("boot", s)
  BY <1>2, BothSay
<1> HIDE DEF w
<1>7. Says("boot", w) = {b}
  BY <1>4, <1>6 DEF w, WorkOnly
<1>8. /\ \A old : Will("boot", old, w) = b
      /\ \A old : Will("doc", old, w) = old
      /\ \A p, nodes : Agree(p, nodes) =>
           Agree(Will("plan", p, w), Will("errors", nodes, w))
  BY <1>3, <1>5 DEF w, WorkOnly
<1>9. Fine(w)
  BY <1>2, <1>7, <1>8 DEF Fine, OneDraft
<1> QED
  BY <1>9 DEF w, s

LEMMA FineEdit ==
  ASSUME NEW b \in Bootstrap \cup {Null}, NEW previous, NEW new \in Architecture,
         NEW w, EditWrites(b, previous, new, w), ~ Overlap => b = boot
  PROVE  Fine(w)
<1>1. w \in Seq(Writing)
  BY DEF EditWrites
<1>2. SUFFICES ASSUME ~ Overlap, b = boot
      PROVE  /\ Built(Will("boot", boot, w), Will("doc", doc, w))
             /\ Agree(plan, errors) =>
                  Agree(Will("plan", plan, w), Will("errors", errors, w))
             /\ OneDraft(w)
  BY <1>1 DEF Fine
<1>3. CASE boot = Null
  <2>1. Will("boot", boot, w) = Null /\ Says("boot", w) = {}
    BY <1>2, <1>3 DEF EditWrites
  <2> QED
    BY <2>1 DEF EditWrites, Built, OneDraft
<1>4. CASE boot # Null
  <2> DEFINE v == [boot EXCEPT !.arch = new]
  <2>1. Will("boot", boot, w) = v /\ Says("boot", w) = {v} /\ Will("doc", doc, w) = new
    BY <1>2, <1>4 DEF EditWrites
  <2>2. v.arch = new /\ v.status = boot.status /\ new # Null
    BY <1>2, <1>4, NullIsNot DEF Bootstrap
  <2> HIDE DEF v
  <2>3. Built(Will("boot", boot, w), Will("doc", doc, w))
    BY <2>1, <2>2 DEF Built
  <2>4. OneDraft(w)
    BY <1>4, <2>1, <2>2 DEF OneDraft
  <2> QED
    BY <2>3, <2>4 DEF EditWrites
<1> QED
  BY <1>3, <1>4

LEMMA FineReview ==
  ASSUME NEW flagged \in SUBSET Module, NEW new \in Architecture,
         boot \in Bootstrap, boot.status = "review"
  PROVE  Fine(<<Put("stale", flagged)>> \o PutBoot(boot, new))
<1> DEFINE s == <<Put("stale", flagged)>>
           b == [boot EXCEPT !.arch = new]
<1>1. boot # Null /\ b \in Bootstrap /\ b.status = "review"
  BY NullIsNot DEF Bootstrap
<1>2. PutBoot(boot, new) = <<Put("boot", b)>>
  BY <1>1 DEF PutBoot
<1> HIDE DEF b
<1>3. WorkOnly(s)
  BY StalePutIs
<1>4. Built(b, doc)
  BY <1>1 DEF Built
<1> HIDE DEF s
<1>5. Fine(s \o <<Put("boot", b)>>)
  BY <1>1, <1>3, <1>4, FineDraft
<1> QED
  BY <1>2, <1>5 DEF s

-----------------------------------------------------------------------------
(* One lemma per action: the interview and the gate.                       *)

LEMMA ResolveType ==
  ASSUME NEW b \in Bootstrap \cup {Null}, NEW d \in Architecture \cup {Null}
  PROVE  /\ Resolve(b, d) \in Architecture \cup {Null}
         /\ Resolve(b, d) # Null => (b # Null \/ d # Null)
         /\ Resolve(b, d) # Null /\ d = Null => Resolve(b, d) = b.arch
         /\ HasModules(b) => Resolve(b, d) = b.arch
         /\ Resolve(b, d) # Null /\ ~ HasModules(b) => Resolve(b, d) = d
BY NullIsNot DEF Resolve, HasModules, Bootstrap

LEMMA CurrentType ==
  ASSUME IInv
  PROVE  /\ boot \in Bootstrap \cup {Null} /\ doc \in Architecture \cup {Null}
         /\ plan \in GoodPlan \cup {Null}
         /\ Current \in Architecture \cup {Null}
         /\ Current # Null => Current.mods \in SUBSET Module
BY ResolveType DEF IInv, TypeInv, Current, Architecture

LEMMA DrawnType ==
  ASSUME NEW raw \in Drafts
  PROVE  /\ Drawn(raw) \in Architecture /\ Revised(raw) \in Architecture
         /\ raw \in Architecture
<1>1. raw \in Architecture
  BY StudioAssumption
<1>2. NormalizeArchitecture(raw) \in Architecture
  BY <1>1, NormalizeType
<1>3. SimplifyEdges(NormalizeArchitecture(raw)) \in Architecture
  BY <1>2, SimplifyType
<1>4. raw.claims \in {"none", "inferred", "settled"}
  BY <1>1 DEF Architecture
<1> QED
  BY <1>1, <1>3, <1>4, ClaimsType DEF Drawn, Revised

LEMMA EmptyType == NoArchitecture \in Architecture
BY DEF NoArchitecture, Architecture

LEMMA FreshType == Fresh \in Bootstrap /\ Fresh.status = "interviewing"
BY EmptyType, StudioAssumption DEF Fresh, Bootstrap, Status

LEMMA AppliedType ==
  ASSUME NEW b \in Bootstrap, NEW a \in Architecture, NEW ready \in BOOLEAN
  PROVE  /\ Applied(b, a, ready) \in Bootstrap
         /\ Applied(b, a, ready).status \in {"interviewing", "review"}
BY DEF Applied, Bootstrap, Status

\* A request that asks leaves well-shaped copies.
LEMMA WaitShaped ==
  ASSUME IInv, NEW kind \in Waits, NEW b \in Bootstrap \cup {Null},
         NEW p \in GoodPlan \cup {Null}, NEW scope \in SUBSET Module,
         call' = Wait(kind, b, p, scope),
         kind \in {"start", "answer", "stream", "revise", "finalize"} => b # Null,
         kind = "answer" => b.status = "interviewing",
         kind = "finalize" => b.status = "ready",
         kind \in {"edit", "plan", "orchestrate"} => Resolve(b, doc) # Null,
         kind \in {"micro", "wave"} => p # Null,
         kind = "micro" => p.item[Micro] = "pending"
  PROVE  /\ CallShaped'
         /\ call'.kind = kind /\ call'.boot = b /\ call'.doc = doc
         /\ call'.plan = p /\ call' # Null
<1>1. /\ call'.kind = kind /\ call'.boot = b /\ call'.doc = doc
      /\ call'.plan = p /\ call'.scope = scope
      /\ call' = [kind |-> kind, boot |-> b, doc |-> doc, plan |-> p,
                  scope |-> scope]
  BY DEF Wait
<1>2. call' \in Call
  <2>1. doc \in Architecture \cup {Null} /\ p \in Plan \cup {Null}
    BY DEF IInv, TypeInv, GoodPlan
  <2> QED
    BY <1>1, <2>1 DEF Call
<1>3. call' # Null
  BY <1>2, NullIsNot
<1>4. Resolve(call'.boot, call'.doc) = Resolve(b, doc)
  BY <1>1
<1>5. CallShaped'
  BY <1>1, <1>2, <1>4 DEF CallShaped, Resolve, HasModules
<1> QED
  BY <1>1, <1>3, <1>5

\* Nothing is written before a question of the interview or an edit.
LEMMA AskOnlyKeeps ==
  ASSUME IInv, NEW kind \in Waits \ {"finalize", "micro"},
         NEW b \in Bootstrap \cup {Null}, NEW p \in GoodPlan \cup {Null},
         NEW scope \in SUBSET Module,
         Ask(kind, b, p, scope, <<>>),
         kind \in {"start", "answer", "stream", "revise"} => b # Null,
         kind = "answer" => b.status = "interviewing",
         kind = "edit" => b = boot,
         kind \in {"edit", "plan", "orchestrate"} => Resolve(b, doc) # Null,
         kind = "wave" => p # Null
  PROVE  IInv'
<1>1. /\ call' = Wait(kind, b, p, scope) /\ pending' = <<>> /\ replaced' = Null
      /\ boot' = boot /\ doc' = doc
  BY DEF Ask, Write, files
<1>2. Fine(<<>>)
  BY NoWork, FineWork
<1>3. /\ CallShaped'
      /\ call'.kind = kind /\ call'.boot = b /\ call'.doc = doc
      /\ call'.plan = p /\ call' # Null
  BY <1>1, WaitShaped
<1>4. CallCurrent'
  <2>1. Will("boot", boot, <<>>) = boot /\ Will("doc", doc, <<>>) = doc
    BY NothingWritten
  <2> QED
    BY <1>1, <1>3, <2>1 DEF CallCurrent
<1> QED
  BY <1>2, <1>3, <1>4, AskKeeps

\* The interview asks with its state alone.
LEMMA AskDraftKeeps ==
  ASSUME IInv, NEW kind \in {"start", "answer", "stream", "revise"},
         NEW b \in Bootstrap, b.status = "interviewing" \/ kind # "answer",
         Ask(kind, b, Null, {}, <<>>)
  PROVE  IInv'
<1>1. /\ kind \in Waits \ {"finalize", "micro"}
      /\ kind \notin {"edit", "plan", "orchestrate", "wave"}
  BY DEF Waits
<1>2. /\ b \in Bootstrap \cup {Null} /\ b # Null
      /\ Null \in GoodPlan \cup {Null} /\ {} \in SUBSET Module
  BY NullIsNot
<1> QED
  BY <1>1, <1>2, AskOnlyKeeps

LEMMA StartBootstrapKeeps == ASSUME IInv, StartBootstrap PROVE IInv'
<1> DEFINE v == [Fresh EXCEPT !.asked = "profile"]
<1>1. v \in Bootstrap /\ v.status = "interviewing"
  BY FreshType DEF Bootstrap
<1>2. Serve("begin", <<Put("boot", v)>>)
  BY DEF StartBootstrap
<1> HIDE DEF v
<1>3. Built(v, doc)
  BY <1>1 DEF Built
<1>4. Fine(<<Put("boot", v)>>)
  BY <1>1, <1>3, FineBoot
<1>5. "begin" \in Requests
  BY DEF Requests
<1> QED
  BY <1>2, <1>4, <1>5, ServeKeeps

LEMMA StreamStartKeeps == ASSUME IInv, StreamBootstrapStart PROVE IInv'
<1>1. Fresh \in Bootstrap /\ Fresh # Null
  BY FreshType, NullIsNot
<1>2. "start" \in {"start", "answer", "stream", "revise"}
  OBVIOUS
<1>3. Ask("start", Fresh, Null, {}, <<>>)
  BY DEF StreamBootstrapStart
<1> HIDE DEF Ask
<1> QED
  BY <1>1, <1>2, <1>3, AskDraftKeeps

LEMMA AnswerKeeps == ASSUME IInv, AnswerBootstrap PROVE IInv'
<1> DEFINE profile == boot.profile + 1
           next == [boot EXCEPT !.profile = profile,
                      !.asked = IF profile < Profile THEN "profile" ELSE "none"]
<1>1. boot \in Bootstrap /\ boot # Null /\ boot.status = "interviewing"
  BY DEF IInv, TypeInv, AnswerBootstrap, Asked
<1>2. "answer" \in {"start", "answer", "stream", "revise"} /\ "answer" \in Requests
  BY DEF Requests, Waits
<1>3. CASE boot.profile = Profile
  <2>1. Ask("answer", boot, Null, {}, <<>>)
    BY <1>3 DEF AnswerBootstrap
  <2> QED
    BY <1>1, <1>2, <2>1, AskDraftKeeps
<1>4. CASE boot.profile # Profile
  <2>1. next \in Bootstrap /\ next.status = "interviewing" /\ next # Null
    <3>1. boot.profile \in 0..Profile /\ Profile \in Nat
      BY <1>1, StudioAssumption DEF Bootstrap
    <3>2. profile \in 0..Profile
      BY <1>4, <3>1
    <3> HIDE DEF profile
    <3>3. next \in Bootstrap /\ next.status = "interviewing"
      BY <1>1, <3>2 DEF Bootstrap
    <3> QED
      BY <3>3, NullIsNot
  <2>2. \/ Serve("answer", <<Put("boot", next)>>)
        \/ Ask("answer", next, Null, {}, <<>>)
    BY <1>4 DEF AnswerBootstrap
  <2> HIDE DEF next
  <2>3. CASE Serve("answer", <<Put("boot", next)>>)
    <3>1. Built(next, doc)
      BY <2>1 DEF Built
    <3>2. Fine(<<Put("boot", next)>>)
      BY <2>1, <3>1, FineBoot
    <3> QED
      BY <1>2, <2>3, <3>2, ServeKeeps
  <2>4. CASE Ask("answer", next, Null, {}, <<>>)
    BY <1>2, <2>1, <2>4, AskDraftKeeps
  <2> QED
    BY <2>2, <2>3, <2>4
<1> QED
  BY <1>3, <1>4

LEMMA StreamAnswerKeeps == ASSUME IInv, StreamBootstrapAnswer PROVE IInv'
<1>1. boot \in Bootstrap /\ boot # Null
  BY DEF IInv, TypeInv, StreamBootstrapAnswer, Asked
<1>2. "stream" \in {"start", "answer", "stream", "revise"}
  OBVIOUS
<1>3. Ask("stream", boot, Null, {}, <<>>)
  BY DEF StreamBootstrapAnswer
<1> QED
  BY <1>1, <1>2, <1>3, AskDraftKeeps

LEMMA ReviseKeeps == ASSUME IInv, ReviseBootstrap PROVE IInv'
<1>1. boot \in Bootstrap /\ boot # Null
  BY DEF IInv, TypeInv, ReviseBootstrap, InReview
<1>2. "revise" \in {"start", "answer", "stream", "revise"}
  OBVIOUS
<1>3. Ask("revise", boot, Null, {}, <<>>)
  BY DEF ReviseBootstrap
<1> QED
  BY <1>1, <1>2, <1>3, AskDraftKeeps

LEMMA TurnKeeps == ASSUME IInv, InterviewTurn PROVE IInv'
<1>1. PICK kind \in {"start", "answer", "stream", "revise"} : Turn(kind)
  BY DEF InterviewTurn
<1>2. PICK raw \in Drafts, ready \in BOOLEAN :
        /\ Resume(kind, <<Put("boot", Applied(call.boot, Drawn(raw), ready))>>)
        /\ UNCHANGED replaced
  BY <1>1 DEF Turn
<1>3. kind \in Waits /\ call.kind = kind /\ call # Null
  BY <1>2 DEF Waits, Resume
<1>4. call.boot \in Bootstrap
  BY <1>3 DEF IInv, TypeInv, CallShaped, Call
<1> DEFINE v == Applied(call.boot, Drawn(raw), ready)
<1>5. v \in Bootstrap /\ v.status \in {"interviewing", "review"}
  BY <1>4, DrawnType, AppliedType
<1> HIDE DEF v
<1>6. Built(v, doc)
  BY <1>5 DEF Built
<1>7. Fine(<<Put("boot", v)>>)
  BY <1>5, <1>6, FineBoot
<1> QED
  BY <1>2, <1>3, <1>7, ResumeKeeps DEF v

LEMMA FailsKeeps == ASSUME IInv, ModelFails PROVE IInv'
<1> DEFINE v == [call.boot EXCEPT !.failed = TRUE]
<1>1. PICK kind \in Waits \ {"wave"} :
        /\ Resume(kind, IF kind # "answer" THEN <<>> ELSE <<Put("boot", v)>>)
        /\ replaced' = Null
  BY DEF ModelFails
<1>2. call.kind = kind /\ call # Null /\ kind \in Waits /\ replaced' = Null
  BY <1>1 DEF Resume
<1>3. CASE kind # "answer"
  <2>1. Resume(kind, <<>>)
    BY <1>1, <1>3
  <2> QED
    BY <1>2, <2>1, NoWork, FineWork, ResumeKeeps
<1>4. CASE kind = "answer"
  <2>1. call.boot \in Bootstrap /\ call.boot.status = "interviewing"
    BY <1>2, <1>4 DEF IInv, TypeInv, CallShaped, Call
  <2>2. v \in Bootstrap /\ v.status = "interviewing"
    BY <2>1 DEF Bootstrap
  <2>3. Resume(kind, <<Put("boot", v)>>)
    BY <1>1, <1>4
  <2> HIDE DEF v
  <2>4. Built(v, doc)
    BY <2>2 DEF Built
  <2>5. Fine(<<Put("boot", v)>>)
    BY <2>2, <2>4, FineBoot
  <2> QED
    BY <1>2, <2>3, <2>5, ResumeKeeps
<1> QED
  BY <1>3, <1>4

LEMMA ProvenanceKeeps == ASSUME IInv, UpdateProvenance PROVE IInv'
<1> DEFINE settled == [Current EXCEPT !.claims = "settled"]
<1>1. /\ Current \in Architecture
      /\ boot \in Bootstrap \cup {Null} /\ doc \in Architecture \cup {Null}
  BY CurrentType DEF UpdateProvenance
<1>2. settled \in Architecture /\ Unsettled(settled) = Unsettled(Current)
  BY <1>1, ClaimsType DEF Unsettled, Architecture
<1>3. Serve("settle", IF HasModules(boot) THEN PutBoot(boot, settled)
                      ELSE <<Put("doc", settled)>>)
  BY DEF UpdateProvenance
<1>4. "settle" \in Requests /\ Current # Null
  BY <1>1, NullIsNot DEF Requests
<1> HIDE DEF settled
<1>5. CASE HasModules(boot)
  <2> DEFINE v == [boot EXCEPT !.arch = settled]
  <2>1. boot # Null /\ boot \in Bootstrap /\ Current = boot.arch
    BY <1>1, <1>5, ResolveType DEF HasModules, Current
  <2>2. /\ v \in Bootstrap /\ v.status = boot.status /\ v.arch = settled
        /\ PutBoot(boot, settled) = <<Put("boot", v)>>
    BY <1>2, <2>1 DEF Bootstrap, PutBoot
  <2> HIDE DEF v
  <2>3. Built(boot, doc) => Built(v, doc)
    BY <1>2, <2>1, <2>2 DEF Built
  <2>4. Fine(<<Put("boot", v)>>)
    BY <2>2, <2>3, FineBoot
  <2> QED
    BY <1>3, <1>4, <1>5, <2>2, <2>4, ServeKeeps
<1>6. CASE ~ HasModules(boot)
  <2>1. Current = doc
    BY <1>1, <1>4, <1>6, ResolveType DEF Current
  <2>2. Built(boot, doc) => Built(boot, settled)
    BY <1>2, <2>1, NullIsNot DEF Built
  <2>3. Fine(<<Put("doc", settled)>>)
    BY <1>2, <2>2, FineDoc
  <2> QED
    BY <1>3, <1>4, <1>6, <2>3, ServeKeeps
<1> QED
  BY <1>5, <1>6

LEMMA ConfirmKeeps == ASSUME IInv, ConfirmBootstrap PROVE IInv'
<1> DEFINE v == [boot EXCEPT !.status = "ready"]
<1>1. boot \in Bootstrap /\ boot # Null /\ boot.status = "review"
  BY DEF IInv, TypeInv, ConfirmBootstrap, InReview
<1>2. v \in Bootstrap /\ v.status = "ready" /\ v.arch = boot.arch
  BY <1>1 DEF Bootstrap, Status
<1>3. Serve("confirm", <<Put("boot", v)>>)
  BY DEF ConfirmBootstrap
<1> HIDE DEF v
<1>4. Built(v, doc)
  BY <1>1, <1>2 DEF Built
<1>5. Fine(<<Put("boot", v)>>)
  BY <1>2, <1>4, FineBoot
<1>6. "confirm" \in Requests
  BY DEF Requests
<1> QED
  BY <1>3, <1>5, <1>6, ServeKeeps

LEMMA FinalizeKeeps == ASSUME IInv, FinalizeBootstrap PROVE IInv'
<1> DEFINE w == <<Put("doc", boot.arch)>>
<1>1. boot \in Bootstrap /\ boot # Null /\ boot.status = "ready"
  BY DEF IInv, TypeInv, FinalizeBootstrap
<1>2. boot.arch \in Architecture
  BY <1>1 DEF Bootstrap
<1>3. Ask("finalize", boot, Null, {}, w)
  BY DEF FinalizeBootstrap
<1>4. Built(boot, boot.arch)
  BY <1>1 DEF Built
<1>5. Fine(w)
  BY <1>2, <1>4, FineDoc
<1>6. /\ call' = Wait("finalize", boot, Null, {}) /\ pending' = w
      /\ boot' = boot /\ doc' = doc /\ replaced' = Null
  BY <1>3 DEF Ask, Write, files
<1>7. "finalize" \in Waits
  BY DEF Waits
<1>8. /\ CallShaped'
      /\ call'.kind = "finalize" /\ call'.boot = boot
  <2>1. /\ boot \in Bootstrap \cup {Null}
        /\ Null \in GoodPlan \cup {Null} /\ {} \in SUBSET Module
    BY <1>1
  <2> QED
    BY <1>1, <1>6, <1>7, <2>1, WaitShaped
<1>9. Will("boot", boot, w) = boot /\ Will("doc", doc, w) = boot.arch
  BY OneWritten
<1> HIDE DEF w
<1>10. CallCurrent'
  BY <1>6, <1>8, <1>9 DEF CallCurrent
<1> QED
  BY <1>3, <1>5, <1>7, <1>8, <1>10, AskKeeps

LEMMA FinalizedKeeps == ASSUME IInv, Finalized PROVE IInv'
<1> DEFINE v == [call.boot EXCEPT !.status = "initialized"]
           w == PutSynced(plan, call.boot.arch)
<1>1. /\ Resume("finalize", w \o <<Put("boot", v)>>) /\ UNCHANGED replaced
      /\ call # Null
  BY DEF Finalized
<1>2. call.kind = "finalize" /\ pending = <<>> /\ "finalize" \in Waits
  BY <1>1 DEF Resume, Waits
<1>3. call.boot \in Bootstrap /\ call.boot.status = "ready" /\ call.boot # Null
  BY <1>1, <1>2 DEF IInv, TypeInv, CallShaped, Call
<1>4. call.boot.arch \in Architecture
  BY <1>3 DEF Bootstrap
<1>5. WorkOnly(w)
  BY <1>4, CurrentType, PutSyncedIs
<1>6. v \in Bootstrap /\ v.status = "initialized" /\ v.arch = call.boot.arch
  BY <1>3 DEF Bootstrap, Status
<1>7. ~ Overlap => call.boot = boot /\ doc = call.boot.arch
  BY <1>1, <1>2, AtRest DEF CallCurrent
<1> HIDE DEF v, w
<1>8. ~ Overlap => Built(v, doc)
  BY <1>3, <1>4, <1>6, <1>7, NullIsNot DEF Built
<1>9. Fine(w \o <<Put("boot", v)>>)
  BY <1>5, <1>6, <1>8, FineDraft
<1> QED
  BY <1>1, <1>2, <1>9, ResumeKeeps

LEMMA ReopenKeeps == ASSUME IInv, ReopenArchitectureReview PROVE IInv'
<1> DEFINE a == IF doc # Null /\ doc.mods # {} THEN doc ELSE boot.arch
           v == [boot EXCEPT !.arch = a, !.asked = "none", !.status = "review"]
<1>1. boot \in Bootstrap /\ doc \in Architecture \cup {Null}
  BY DEF IInv, TypeInv, ReopenArchitectureReview
<1>2. a \in Architecture
  BY <1>1 DEF Bootstrap
<1>3. Serve("reopen", <<Put("boot", v)>>)
  BY DEF ReopenArchitectureReview
<1> HIDE DEF a
<1>4. v \in Bootstrap /\ v.status = "review"
  BY <1>1, <1>2 DEF Bootstrap, Status
<1> HIDE DEF v
<1>5. Built(v, doc)
  BY <1>4 DEF Built
<1>6. Fine(<<Put("boot", v)>>)
  BY <1>4, <1>5, FineBoot
<1>7. "reopen" \in Requests
  BY DEF Requests
<1> QED
  BY <1>3, <1>6, <1>7, ServeKeeps

-----------------------------------------------------------------------------
(* The edits.                                                              *)

LEMMA EditArchitectureKeeps == ASSUME IInv, EditArchitecture PROVE IInv'
<1>1. "edit" \in Waits \ {"finalize", "micro"}
  BY DEF Waits
<1>2. /\ Ask("edit", boot, Null, {}, <<>>) /\ Resolve(boot, doc) # Null
  BY DEF EditArchitecture, Current
<1>3. /\ boot \in Bootstrap \cup {Null}
      /\ Null \in GoodPlan \cup {Null} /\ {} \in SUBSET Module
  BY CurrentType
<1> QED
  BY <1>1, <1>2, <1>3, AskOnlyKeeps

LEMMA PreviousType ==
  ASSUME NEW b \in Bootstrap \cup {Null}, NEW d \in Architecture \cup {Null},
         Resolve(b, d) # Null
  PROVE  Previous(b, d) \in Architecture
<1>1. b # Null \/ d # Null
  BY ResolveType
<1> QED
  BY <1>1 DEF Previous, Bootstrap

\* Whoever edits outside the review can undo it.
LEMMA HistoryShows ==
  ASSUME NEW b, NEW previous, NEW new, NEW w, EditWrites(b, previous, new, w),
         pending' = w, replaced' = previous, handler' # "undo"
  PROVE  UndoIsPossible'
<1>1. PICK h \in History : /\ \A old : Will("history", old, w) = h
                           /\ h # <<>> /\ Last(h) = previous
  BY DEF EditWrites
<1>2. Will("history", history', pending') = h
  BY <1>1
<1> QED
  BY <1>1, <1>2 DEF UndoIsPossible

LEMMA EditAnsweredKeeps == ASSUME IInv, EditAnswered PROVE IInv'
<1> DEFINE b == call.boot
           d == call.doc
           old == Resolve(b, d)
           previous == Previous(b, d)
<1>1. PICK raw \in Drafts :
        /\ Resume("edit",
             PutEdit(b, d, StaleAfterEdit(old, Revised(raw)), previous,
                     Revised(raw))
               \o PutSynced(plan, Revised(raw)))
        /\ replaced' = previous
  BY DEF EditAnswered
<1> DEFINE new == Revised(raw)
           flagged == StaleAfterEdit(old, new)
           v == PutEdit(b, d, flagged, previous, new)
           w == v \o PutSynced(plan, new)
<1>2. call # Null /\ call.kind = "edit" /\ pending = <<>>
  BY <1>1 DEF EditAnswered, Resume
<1>3. /\ b \in Bootstrap \cup {Null} /\ d \in Architecture \cup {Null}
      /\ old # Null
  BY <1>2 DEF IInv, TypeInv, CallShaped, Call
<1>4. /\ old \in Architecture /\ previous \in Architecture
      /\ new \in Architecture
  BY <1>3, ResolveType, PreviousType, DrawnType
<1>5. flagged \in SUBSET Module
  BY <1>4, StaleEditType
<1>6. history \in History /\ plan \in GoodPlan \cup {Null}
  BY DEF IInv, TypeInv
<1> HIDE DEF b, d, old, previous, new, flagged
<1>7. EditWrites(b, previous, new, v)
  BY <1>3, <1>4, <1>5, <1>6, PutEditIs
<1>8. WorkOnly(PutSynced(plan, new))
  BY <1>4, <1>6, PutSyncedIs
<1> HIDE DEF v
<1>9. EditWrites(b, previous, new, w)
  BY <1>7, <1>8, EditAndWork
<1>10. ~ Overlap => b = boot
  BY <1>2, AtRest DEF CallCurrent, b
<1>11. Fine(w)
  <2> HIDE DEF w
  <2> QED BY <1>3, <1>4, <1>9, <1>10, FineEdit
<1>12. /\ pending' = w /\ handler' = "edit" /\ call' = Null
       /\ UNCHANGED <<files, served, cut>> /\ replaced' = previous
  BY <1>1 DEF Resume, Write, v, flagged, new, previous, old, b, d
<1> HIDE DEF w
<1>13. UndoIsPossible'
  BY <1>9, <1>12, HistoryShows
<1>14. CallShaped' /\ CallCurrent'
  BY <1>12 DEF CallShaped, CallCurrent
<1>15. /\ handler' \in Requests /\ served' \in 0..MaxRequests
       /\ replaced' \in Architecture \cup {Null}
  BY <1>4, <1>12 DEF IInv, TypeInv, Requests, Waits
<1> QED
  BY <1>2, <1>11, <1>12, <1>13, <1>14, <1>15, BeginKeeps

LEMMA RequirementKeeps == ASSUME IInv, UpdateModuleRequirement PROVE IInv'
<1>1. PICK m \in Current.mods, t \in Text :
        LET new == [Current EXCEPT !.text[m] = t]
            previous == IF HasModules(boot) /\ doc # Null THEN doc ELSE new
        IN  Editing("requirement", PutEdit(boot, doc,
              StaleAfterModuleEdit(new, m), previous, new), Null)
  BY DEF UpdateModuleRequirement
<1> DEFINE new == [Current EXCEPT !.text[m] = t]
           previous == IF HasModules(boot) /\ doc # Null THEN doc ELSE new
           flagged == StaleAfterModuleEdit(new, m)
           w == PutEdit(boot, doc, flagged, previous, new)
<1>2. /\ Current \in Architecture /\ m \in Module
      /\ boot \in Bootstrap \cup {Null} /\ doc \in Architecture \cup {Null}
  BY CurrentType DEF UpdateModuleRequirement
<1>3. new \in Architecture
  BY <1>2, TextType
<1>4. previous \in Architecture /\ flagged \in SUBSET Module
  <2> HIDE DEF new
  <2> QED BY <1>2, <1>3, StaleType
<1>5. Editing("requirement", w, Null)
  BY <1>1
<1> HIDE DEF new, previous, flagged
<1>6. EditWrites(boot, previous, new, w)
  BY <1>2, <1>3, <1>4, PutEditIs DEF IInv, TypeInv
<1> HIDE DEF w
<1>7. Fine(w)
  BY <1>2, <1>3, <1>6, FineEdit
<1>8. replaced' = Null /\ "requirement" \in Requests
  BY <1>5 DEF Editing, Requests, Edits, Direct
<1>9. UndoIsPossible'
  BY <1>8 DEF UndoIsPossible
<1> QED
  BY <1>5, <1>7, <1>8, <1>9, EditingKeeps

LEMMA DirectKeeps ==
  ASSUME IInv, NEW name \in {"node", "edge"}, NEW raw \in Architecture,
         Current # Null, CommitDirect(name, raw)
  PROVE  IInv'
<1> DEFINE new == [NormalizeArchitecture(raw) EXCEPT !.claims = Current.claims]
           flagged == StaleAfterEdit(Current, new)
           previous == Previous(boot, doc)
<1>1. /\ Current \in Architecture
      /\ boot \in Bootstrap \cup {Null} /\ doc \in Architecture \cup {Null}
      /\ plan \in GoodPlan \cup {Null} /\ history \in History
  BY CurrentType DEF IInv, TypeInv
<1>2. new \in Architecture
  <2>1. Current.claims \in {"none", "inferred", "settled"}
    BY <1>1 DEF Architecture
  <2>2. NormalizeArchitecture(raw) \in Architecture
    BY NormalizeType
  <2> QED
    BY <2>1, <2>2, ClaimsType
<1>3. name \in Requests /\ name # "undo"
  BY DEF Requests, Edits, Direct
<1>4. previous \in Architecture
  BY <1>1, PreviousType DEF Current
<1>5. \/ InReview /\ Editing(name, <<Put("stale", flagged)>> \o PutBoot(boot, new), Null)
      \/ Editing(name, PutEdit(boot, doc, flagged, previous, new)
                         \o PutSynced(plan, new), previous)
  BY DEF CommitDirect
<1> HIDE DEF new
<1>6. flagged \in SUBSET Module
  BY <1>1, <1>2, StaleEditType
<1> HIDE DEF flagged, previous
<1>7. CASE InReview /\ Editing(name, <<Put("stale", flagged)>> \o PutBoot(boot, new), Null)
  <2> DEFINE w == <<Put("stale", flagged)>> \o PutBoot(boot, new)
  <2>1. boot \in Bootstrap /\ boot.status = "review"
    BY <1>1, <1>7 DEF InReview
  <2>2. Fine(w)
    BY <1>2, <1>6, <2>1, FineReview
  <2>3. Editing(name, w, Null)
    BY <1>7
  <2> HIDE DEF w
  <2>4. UndoIsPossible'
    BY <2>3 DEF Editing, UndoIsPossible
  <2> QED
    BY <1>3, <2>2, <2>3, <2>4, EditingKeeps
<1>8. CASE Editing(name, PutEdit(boot, doc, flagged, previous, new)
                         \o PutSynced(plan, new), previous)
  <2> DEFINE v == PutEdit(boot, doc, flagged, previous, new)
             w == v \o PutSynced(plan, new)
  <2>1. EditWrites(boot, previous, new, v)
    BY <1>1, <1>2, <1>4, <1>6, PutEditIs
  <2>2. WorkOnly(PutSynced(plan, new))
    BY <1>1, <1>2, PutSyncedIs
  <2>3. Editing(name, w, previous)
    BY <1>8
  <2> HIDE DEF v
  <2>4. EditWrites(boot, previous, new, w)
    BY <2>1, <2>2, EditAndWork
  <2> HIDE DEF w
  <2>5. Fine(w)
    BY <1>1, <1>2, <2>4, FineEdit
  <2>6. pending' = w /\ handler' = name /\ replaced' = previous
    BY <2>3 DEF Editing, Write
  <2>7. UndoIsPossible'
    BY <1>3, <2>4, <2>6, HistoryShows
  <2> QED
    BY <1>3, <1>4, <2>3, <2>5, <2>7, EditingKeeps
<1> QED
  BY <1>5, <1>7, <1>8

\* What an edit of nodes or edges makes of the architecture, before it is
\* normalised.
LEMMA DirectIs ==
  ASSUME IInv, UpdateArchitectureNodes \/ UpdateArchitectureEdges
  PROVE  /\ Current # Null
         /\ \E name \in {"node", "edge"}, raw \in Architecture :
              /\ name = "edge" => raw.mods = Current.mods
              /\ CommitDirect(name, raw)
<1>1. Current # Null
  BY DEF UpdateArchitectureNodes, Touch, Rename, SetResponsibility,
         DeleteModule, MergeModules, SplitModule, UpdateArchitectureEdges,
         RetypeEdge, DeleteEdge
<1>2. Current \in Architecture /\ Current.mods \in SUBSET Module
  BY <1>1, CurrentType
<1>3. CASE Touch("node") \/ Touch("edge")
  BY <1>1, <1>2, <1>3 DEF Touch
<1>10. CASE Rename
  <2>1. PICK m \in Current.mods, l \in Label :
          CommitDirect("node", [Current EXCEPT !.label[m] = l])
    BY <1>10 DEF Rename
  <2>2. [Current EXCEPT !.label[m] = l] \in Architecture
    BY <1>2, LabelType
  <2> QED
    BY <1>1, <2>1, <2>2
<1>4. CASE SetResponsibility
  <2>1. PICK m \in Current.mods, t \in Text :
          CommitDirect("node", [Current EXCEPT !.text[m] = t])
    BY <1>4 DEF SetResponsibility
  <2>2. [Current EXCEPT !.text[m] = t] \in Architecture
    BY <1>2, TextType
  <2> QED
    BY <1>1, <2>1, <2>2
<1>5. CASE DeleteModule
  <2>1. PICK m \in Current.mods : CommitDirect("node", Without(Current, m))
    BY <1>5 DEF DeleteModule
  <2>2. Without(Current, m) \in Architecture
    BY <1>2, WithoutType
  <2> QED
    BY <1>1, <2>1, <2>2
<1>6. CASE MergeModules
  <2>1. PICK m \in Current.mods, s \in Current.mods, t \in Text :
          CommitDirect("node", MergedModules(Current, m, s, t))
    BY <1>6 DEF MergeModules
  <2>2. MergedModules(Current, m, s, t) \in Architecture
    BY <1>2, MergedType
  <2> QED
    BY <1>1, <2>1, <2>2
<1>7. CASE SplitModule
  <2>1. PICK m \in Current.mods, x \in Module \ Current.mods,
             y \in Module \ Current.mods, t \in Text :
          CommitDirect("node", SplitModules(Current, m, x, y, t))
    BY <1>7 DEF SplitModule
  <2>2. SplitModules(Current, m, x, y, t) \in Architecture
    BY <1>2, SplitType
  <2> QED
    BY <1>1, <2>1, <2>2
<1>8. CASE RetypeEdge
  <2>1. PICK e \in Current.edges, k \in {"uses", "event"} :
          CommitDirect("edge", [Current EXCEPT !.edges =
            (@ \ {e}) \cup {[e EXCEPT !.kind = k]}])
    BY <1>8 DEF RetypeEdge
  <2> DEFINE a == [Current EXCEPT !.edges =
                     (@ \ {e}) \cup {[e EXCEPT !.kind = k]}]
  <2>2. a \in Architecture
    BY <1>2, RetypeType
  <2>3. a.mods = Current.mods
    BY <1>2 DEF Architecture
  <2> HIDE DEF a
  <2> QED
    BY <1>1, <2>1, <2>2, <2>3 DEF a
<1>9. CASE DeleteEdge
  <2>1. PICK e \in Current.edges :
          CommitDirect("edge", [Current EXCEPT
            !.edges = {x \in @ : ~ (x.from = e.from /\ x.to = e.to)},
            !.deps[e.from] = @ \ {e.to}])
    BY <1>9 DEF DeleteEdge
  <2> DEFINE a == [Current EXCEPT
            !.edges = {x \in @ : ~ (x.from = e.from /\ x.to = e.to)},
            !.deps[e.from] = @ \ {e.to}]
  <2>2. a \in Architecture
    BY <1>2, DeleteEdgeType
  <2>3. a.mods = Current.mods
    BY <1>2 DEF Architecture
  <2> HIDE DEF a
  <2> QED
    BY <1>1, <2>1, <2>2, <2>3 DEF a
<1> QED
  BY <1>3, <1>4, <1>5, <1>6, <1>7, <1>8, <1>9, <1>10
     DEF UpdateArchitectureNodes, UpdateArchitectureEdges

LEMMA NodesAndEdgesKeep ==
  ASSUME IInv, UpdateArchitectureNodes \/ UpdateArchitectureEdges PROVE IInv'
BY DirectIs, DirectKeeps

LEMMA UndoKeeps == ASSUME IInv, UndoArchitecture PROVE IInv'
<1> DEFINE a == Last(history)
           h == Front(history)
           gone == IF handler \in {"edit", "node", "edge"} THEN replaced ELSE Null
           r == <<Put("history", h)>>
           s == <<Put("doc", a)>>
           t == PutBoot(boot, a)
           u == <<Put("stale", {})>>
           w == (<<Put("history", h), Put("doc", a)>> \o t) \o u
<1>1. history # <<>> /\ Editing("undo", w, gone)
  BY DEF UndoArchitecture
<1>2. /\ boot \in Bootstrap \cup {Null} /\ doc \in Architecture \cup {Null}
      /\ history \in History /\ replaced \in Architecture \cup {Null}
  BY DEF IInv, TypeInv
<1>3. a \in Architecture /\ h \in History
  <2>1. /\ history \in Seq(Architecture) /\ Len(history) \in Nat
        /\ Len(history) >= 1 /\ Len(history) <= HISTORY_MAX
        /\ HISTORY_MAX \in Nat
    BY <1>1, <1>2, StudioAssumption DEF History
  <2>2. a \in Architecture
    BY <2>1 DEF Last
  <2>3. h = SubSeq(history, 1, Len(history) - 1)
    BY DEF Front
  <2>4. /\ SubSeq(history, 1, Len(history) - 1) \in Seq(Architecture)
        /\ Len(SubSeq(history, 1, Len(history) - 1)) = Len(history) - 1
    <3> DEFINE n == Len(history) - 1
               p == SubSeq(history, 1, n)
    <3>1. n \in Nat /\ \A i \in 1..n : history[i] \in Architecture
      BY <2>1
    <3> HIDE DEF n
    <3>2. p = [i \in 1..n |-> history[i]]
      BY <2>1, <3>1
    <3>3. [i \in 1..n |-> history[i]] \in Seq(Architecture)
      BY <3>1
    <3>4. Len(p) = n
      BY <3>1, <3>2
    <3> QED
      BY <3>2, <3>3, <3>4 DEF n
  <2> HIDE DEF h
  <2>5. h \in Seq(Architecture) /\ Len(h) <= HISTORY_MAX
    BY <2>1, <2>3, <2>4
  <2> QED
    BY <2>2, <2>5 DEF History
<1>4. gone \in Architecture \cup {Null}
  BY <1>2
<1>5. /\ Editing("undo", w, gone) /\ pending = <<>> /\ pending' = w
      /\ handler' = "undo" /\ replaced' = gone
      /\ boot' = boot /\ doc' = doc
  BY <1>1 DEF Editing, Free, Write, files
<1> HIDE DEF h, a
<1>6. /\ r \in Seq(Writing) /\ s \in Seq(Writing) /\ u \in Seq(Writing)
      /\ t \in Seq(Writing)
  <2>1. /\ Put("history", h) \in Writing /\ Put("doc", a) \in Writing
        /\ Put("stale", {}) \in Writing
    BY <1>3 DEF Put, Writing
  <2> QED
    BY <1>2, <1>3, <2>1, PutBootIs
<1>7. w = ((r \o s) \o t) \o u
  OBVIOUS
<1>8. /\ \A file, old : Will(file, old, r) = IF "history" = file THEN h ELSE old
      /\ \A file, old : Will(file, old, s) = IF "doc" = file THEN a ELSE old
      /\ \A file, old : Will(file, old, u) = IF "stale" = file THEN {} ELSE old
      /\ Says("boot", r) = {} /\ Says("boot", s) = {} /\ Says("boot", u) = {}
  <2>1. \A file, old : Will(file, old, r) = IF "history" = file THEN h ELSE old
    BY OneWritten
  <2>2. \A file, old : Will(file, old, s) = IF "doc" = file THEN a ELSE old
    BY OneWritten
  <2>3. \A file, old : Will(file, old, u) = IF "stale" = file THEN {} ELSE old
    BY OneWritten
  <2>4. Says("boot", r) = {} /\ Says("boot", s) = {} /\ Says("boot", u) = {}
    BY OneSays
  <2> QED
    BY <2>1, <2>2, <2>3, <2>4
<1>9. /\ \A old : Will("boot", old, t) =
                    IF boot = Null THEN old ELSE [boot EXCEPT !.arch = a]
      /\ \A file : file # "boot" => \A old : Will(file, old, t) = old
      /\ Says("boot", t) = IF boot = Null THEN {} ELSE {[boot EXCEPT !.arch = a]}
  BY <1>2, <1>3, PutBootIs
<1> HIDE DEF r, s, t, u, w, gone
<1>10. /\ w \in Seq(Writing)
       /\ \A file, old : Will(file, old, w) =
            Will(file, Will(file, Will(file, Will(file, old, r), s), t), u)
       /\ Says("boot", w) = Says("boot", r) \cup Says("boot", s)
                              \cup Says("boot", t) \cup Says("boot", u)
  BY <1>6, <1>7, FourWritten
<1>11. /\ \A old : Will("doc", old, w) = a
       /\ \A old : Will("plan", old, w) = old /\ Will("errors", old, w) = old
       /\ \A old : Will("boot", old, w) =
                     IF boot = Null THEN old ELSE [boot EXCEPT !.arch = a]
  BY <1>8, <1>9, <1>10
<1>12. Says("boot", w) = IF boot = Null THEN {} ELSE {[boot EXCEPT !.arch = a]}
  BY <1>8, <1>9, <1>10
<1>13. boot # Null => /\ [boot EXCEPT !.arch = a].status = boot.status
                      /\ [boot EXCEPT !.arch = a].arch = a
  BY <1>2 DEF Bootstrap
<1>14. OneDraft(w)
  BY <1>12, <1>13 DEF OneDraft
<1>15. Built(Will("boot", boot, w), Will("doc", doc, w))
  BY <1>3, <1>11, <1>13, NullIsNot DEF Built
<1>16. Fine(w)
  BY <1>10, <1>11, <1>14, <1>15 DEF Fine
<1>17. UndoIsPossible'
  <2> SUFFICES ASSUME gone # Null
               PROVE  /\ Will("doc", doc, w) = gone
                      /\ Will("boot", boot, w) # Null =>
                           Will("boot", boot, w).arch = gone
    BY <1>5 DEF UndoIsPossible
  <2>1. UndoIsPossible /\ \A file, old : Will(file, old, pending) = old
    BY <1>5, NothingWritten DEF IInv
  <2>2. replaced = gone /\ handler \in {"edit", "node", "edge"} /\ replaced # Null
    BY DEF gone
  <2>3. a = gone
    BY <2>1, <2>2 DEF UndoIsPossible, a
  <2> QED
    BY <1>11, <1>13, <2>3
<1>18. "undo" \in Requests
  BY DEF Requests
<1> QED
  BY <1>4, <1>5, <1>16, <1>17, <1>18, EditingKeeps

LEMMA ClearKeeps == ASSUME IInv, ClearStale PROVE IInv'
<1>1. PICK S \in SUBSET stale : Serve("clear", <<Put("stale", stale \ S)>>)
  BY DEF ClearStale
<1> DEFINE w == <<Put("stale", stale \ S)>>
<1>2. WorkOnly(w)
  BY StalePutIs DEF IInv, TypeInv
<1>3. "clear" \in Requests
  BY DEF Requests
<1> QED
  BY <1>1, <1>2, <1>3, FineWork, ServeKeeps

-----------------------------------------------------------------------------
(* Planning and the work.                                                  *)

LEMMA AskPlanKeeps ==
  ASSUME IInv, NEW kind \in {"plan", "orchestrate"}, Current # Null,
         NEW scope \in SUBSET Module, Ask(kind, boot, plan, scope, <<>>)
  PROVE  IInv'
<1>1. /\ kind \in Waits \ {"finalize", "micro"}
      /\ kind \notin {"start", "answer", "stream", "revise", "edit", "wave"}
  BY DEF Waits
<1>2. /\ boot \in Bootstrap \cup {Null} /\ plan \in GoodPlan \cup {Null}
      /\ Resolve(boot, doc) # Null
  BY CurrentType DEF Current
<1> QED
  BY <1>1, <1>2, AskOnlyKeeps

LEMMA PlanTasksKeeps == ASSUME IInv, PlanTasks PROVE IInv'
<1>1. PICK scope \in SUBSET Module : Ask("plan", boot, plan, scope, <<>>)
  BY CurrentType DEF PlanTasks
<1> QED
  BY <1>1, AskPlanKeeps DEF PlanTasks

LEMMA OrchestrateKeeps == ASSUME IInv, OrchestrateTasks PROVE IInv'
<1>1. Current \in Architecture /\ Current.mods \in SUBSET Module /\ Current # Null
  BY CurrentType DEF OrchestrateTasks
<1>2. \A m \in Current.mods : ScopeModuleIds(Current, m) \in SUBSET Module
  BY <1>1, ScopeType
<1>3. PICK scope \in SUBSET Module : Ask("orchestrate", boot, plan, scope, <<>>)
  BY <1>1, <1>2 DEF OrchestrateTasks
<1> QED
  BY <1>1, <1>3, AskPlanKeeps

LEMMA TasksPlannedKeeps == ASSUME IInv, TasksPlanned PROVE IInv'
<1> DEFINE a == Resolve(call.boot, call.doc)
           whole == call.kind = "plan" /\ call.scope = a.mods
           deps(S, chained) == [m \in Module |->
                                  IF chained THEN a.deps[m] \cap S ELSE {}]
           new(S, chained) == Planned(S, deps(S, chained))
           p(S, chained) == IF whole THEN new(S, chained)
                            ELSE Merged(call.plan, new(S, chained), call.scope)
<1>1. /\ call # Null /\ call.kind \in {"plan", "orchestrate"}
      /\ UNCHANGED replaced
  BY DEF TasksPlanned
<1>2. PICK S \in (SUBSET call.scope) \ {{}}, chained \in BOOLEAN :
        Resume(call.kind, PutPlan(p(S, chained)))
  BY DEF TasksPlanned
<1>3. /\ call.plan \in GoodPlan \cup {Null} /\ call.scope \in SUBSET Module
      /\ call.kind \in Waits
  BY <1>1 DEF IInv, TypeInv, CallShaped, Call
<1>4. S \in SUBSET Module
  BY <1>3
<1> DEFINE d == deps(S, chained)
<1>5. \A m \in Module : d[m] \in SUBSET Module
  BY <1>4
<1> HIDE DEF d
<1>6. Planned(S, d) \in GoodPlan /\ Planned(S, d) \in Plan
      /\ Planned(S, d).item[Micro] = "none"
  BY <1>4, <1>5, PlannedType, NewType DEF Planned
<1>7. Merged(call.plan, Planned(S, d), call.scope) \in GoodPlan
  BY <1>3, <1>6, MergedPlanType
<1> DEFINE q == p(S, chained)
<1>8. q \in GoodPlan
  BY <1>6, <1>7 DEF d
<1> HIDE DEF q
<1>9. Fine(PutPlan(q))
  BY <1>8, PutPlanIs, FineWork
<1>10. Resume(call.kind, PutPlan(q))
  BY <1>2 DEF q
<1> QED
  BY <1>1, <1>3, <1>9, <1>10, ResumeKeeps

\* Most requests about tasks write a plan.
LEMMA TaskKeeps ==
  ASSUME IInv, NEW p \in GoodPlan, Serve("task", PutPlan(p)) PROVE IInv'
<1>1. "task" \in Requests
  BY DEF Requests
<1>2. Fine(PutPlan(p))
  BY PutPlanIs, FineWork
<1> QED
  BY <1>1, <1>2, ServeKeeps

LEMMA ConfirmTasksKeeps == ASSUME IInv, ConfirmTasks PROVE IInv'
<1>1. plan \in GoodPlan
  BY CurrentType DEF ConfirmTasks
<1>2. [plan EXCEPT !.status = "confirmed"] \in GoodPlan
  BY <1>1, StatusType
<1> QED
  BY <1>2, TaskKeeps DEF ConfirmTasks

\* Taking up a micro task, or its end, is no failure and hides none.
LEMMA MicroAgrees ==
  /\ \A p \in GoodPlan \cup {Null} : \A m \in Module :
       (p # Null => p.item[Micro] = "none") =>
          \A nodes : Agree(p, nodes) => Agree(AppendMicro(p, m), nodes)
  /\ \A p \in GoodPlan : \A s \in {"review", "pending", "blocked"} :
       p.item[Micro] = "pending" =>
          Owners([p EXCEPT !.item[Micro] = s]) = Owners(p)
<1>1. ASSUME NEW p \in GoodPlan \cup {Null}, NEW m \in Module,
             p # Null => p.item[Micro] = "none", NEW nodes, Agree(p, nodes)
      PROVE  Agree(AppendMicro(p, m), nodes)
  <2> DEFINE old == IF p = Null THEN Planned({}, [i \in Id |-> {}]) ELSE p
             q == AppendMicro(p, m)
  <2>1. old \in Plan /\ old.item[Micro] = "none"
    <3> DEFINE deps == [i \in Id |-> {}]
    <3>1. \A n \in Module : deps[n] \in SUBSET Module
      BY DEF Id
    <3> HIDE DEF deps
    <3>2. Planned({}, deps) \in Plan /\ Planned({}, deps).item[Micro] = "none"
      BY <3>1, NewType DEF Planned
    <3> QED
      BY <1>1, <3>2 DEF deps, GoodPlan
  <2>2. Owners(old) = nodes
    <3>1. CASE p = Null
      <4>1. \A i \in Id : Planned({}, [j \in Id |-> {}]).item[i] = "none"
        BY DEF Planned, NewItems
      <4>2. Owners(old) = {}
        BY <3>1, <4>1 DEF Owners, Items
      <4> QED
        BY <1>1, <3>1, <4>2 DEF Agree
    <3>2. CASE p # Null
      BY <1>1, <3>2 DEF Agree
    <3> QED
      BY <3>1, <3>2
  <2>3. q = [old EXCEPT !.item[Micro] = "pending", !.deps[Micro] = {},
                        !.owner = m, !.status = "confirmed"]
    BY DEF AppendMicro
  <2> HIDE DEF old, q
  <2>4. /\ \A i \in Id : i # Micro => q.item[i] = old.item[i]
        /\ q.item[Micro] = "pending"
    BY <2>1, <2>3 DEF Plan, Id
  <2>5. \A i \in Id : /\ q.item[i] = "failed" <=> old.item[i] = "failed"
                      /\ i # Micro => ModuleOf(q, i) = ModuleOf(old, i)
                      /\ i = Micro => q.item[i] # "failed"
    BY <2>1, <2>4 DEF ModuleOf
  <2>6. Owners(q) = Owners(old)
    BY <2>5 DEF Owners, Items
  <2>7. q # Null
    BY <1>1, AppendType, NullIsNot DEF q
  <2> QED
    BY <2>2, <2>6, <2>7 DEF Agree, q
<1>2. ASSUME NEW p \in GoodPlan, NEW s \in {"review", "pending", "blocked"},
             p.item[Micro] = "pending"
      PROVE  Owners([p EXCEPT !.item[Micro] = s]) = Owners(p)
  <2> DEFINE q == [p EXCEPT !.item[Micro] = s]
  <2>1. /\ \A i \in Id : i # Micro => q.item[i] = p.item[i]
        /\ q.item[Micro] = s
        /\ q.owner = p.owner
    BY DEF GoodPlan, Plan, Id
  <2> HIDE DEF q
  <2>2. \A i \in Id : /\ q.item[i] = "failed" <=> p.item[i] = "failed"
                      /\ ModuleOf(q, i) = ModuleOf(p, i)
    BY <1>2, <2>1 DEF ModuleOf
  <2>3. Owners(q) = Owners(p)
    BY <2>2 DEF Owners, Items
  <2> QED
    BY <2>3 DEF q
<1> QED
  BY <1>1, <1>2

LEMMA FineMicro ==
  ASSUME NEW p \in GoodPlan,
         ~ Overlap => (Agree(plan, errors) => Agree(p, errors))
  PROVE  Fine(<<Put("plan", p)>>)
<1> DEFINE w == <<Put("plan", p)>>
<1>1. w \in Seq(Writing)
  <2>1. Put("plan", p) \in Writing
    BY DEF Put, Writing
  <2> QED
    BY <2>1
<1>2. \A file, old : Will(file, old, w) = IF "plan" = file THEN p ELSE old
  BY OneWritten
<1>3. Says("boot", w) = {}
  BY OneSays
<1> HIDE DEF w
<1>4. Fine(w)
  BY <1>1, <1>2, <1>3 DEF Fine, OneDraft
<1> QED
  BY <1>4 DEF w

LEMMA DispatchKeeps == ASSUME IInv, DispatchMicroTask PROVE IInv'
<1>1. PICK m \in Current.mods :
        Ask("micro", boot, AppendMicro(plan, m), {m},
            <<Put("plan", AppendMicro(plan, m))>>)
  BY DEF DispatchMicroTask
<1>2. /\ m \in Module /\ plan \in GoodPlan \cup {Null}
      /\ boot \in Bootstrap \cup {Null}
      /\ plan # Null => plan.item[Micro] = "none"
  BY CurrentType DEF DispatchMicroTask
<1> DEFINE p == AppendMicro(plan, m)
           w == <<Put("plan", p)>>
<1>3. p \in GoodPlan /\ p.item[Micro] = "pending"
  BY <1>2, AppendType
<1>4. Agree(plan, errors) => Agree(p, errors)
  BY <1>2, MicroAgrees
<1>5. Ask("micro", boot, p, {m}, w)
  BY <1>1
<1> HIDE DEF p
<1>6. Fine(w)
  BY <1>3, <1>4, FineMicro
<1>7. /\ call' = Wait("micro", boot, p, {m}) /\ pending' = w
      /\ plan' = plan /\ replaced' = Null
  BY <1>5 DEF Ask, Write, files
<1>8. "micro" \in Waits
  BY DEF Waits
<1>9. CallShaped' /\ call'.kind = "micro" /\ call'.plan = p
  <2>1. p \in GoodPlan \cup {Null} /\ {m} \in SUBSET Module /\ p # Null
    BY <1>2, <1>3, NullIsNot
  <2> QED
    BY <1>2, <1>3, <1>7, <1>8, <2>1, WaitShaped
<1>10. Will("plan", plan, w) = p
  BY OneWritten
<1> HIDE DEF w
<1>11. CallCurrent'
  BY <1>7, <1>9, <1>10 DEF CallCurrent
<1> QED
  BY <1>2, <1>5, <1>6, <1>8, <1>9, <1>11, AskKeeps

LEMMA MicroDoneKeeps == ASSUME IInv, MicroTaskDone PROVE IInv'
<1>1. PICK s \in {"review", "pending", "blocked"} :
        Resume("micro", <<Put("plan", [call.plan EXCEPT !.item[Micro] = s])>>)
  BY DEF MicroTaskDone
<1>2. /\ call # Null /\ UNCHANGED replaced /\ call.kind = "micro"
      /\ pending = <<>> /\ "micro" \in Waits
  BY <1>1 DEF MicroTaskDone, Resume, Waits
<1>3. call.plan \in GoodPlan /\ call.plan.item[Micro] = "pending"
  BY <1>2 DEF IInv, TypeInv, CallShaped
<1> DEFINE p == [call.plan EXCEPT !.item[Micro] = s]
<1>4. p \in GoodPlan /\ Owners(p) = Owners(call.plan)
  <2>1. s \in ItemStatus
    BY DEF ItemStatus
  <2> QED
    BY <1>3, <2>1, MicroType, MicroAgrees
<1>5. ~ Overlap => call.plan = plan
  BY <1>2, AtRest DEF CallCurrent
<1>6. Resume("micro", <<Put("plan", p)>>)
  BY <1>1
<1> HIDE DEF p
<1>7. ~ Overlap => (Agree(plan, errors) => Agree(p, errors))
  BY <1>3, <1>4, <1>5, NullIsNot DEF Agree
<1>8. Fine(<<Put("plan", p)>>)
  BY <1>4, <1>7, FineMicro
<1> QED
  BY <1>2, <1>6, <1>8, ResumeKeeps

LEMMA WaveKeeps == ASSUME IInv, StartWave PROVE IInv'
<1> DEFINE synced == SyncWorkItems(plan, Current)
           marked == MarkStale(synced, stale)
           p == SetItems(marked, Running(marked), "pending")
           begun == SetItems(p, ReadyItems(p), "running")
           v == PutSynced(plan, Current)
           done == [p EXCEPT !.status = "review"]
<1>1. /\ Current \in Architecture /\ plan \in GoodPlan \cup {Null}
      /\ boot \in Bootstrap \cup {Null}
  BY CurrentType DEF StartWave
<1>2. synced \in GoodPlan /\ WorkOnly(v)
  BY <1>1, SyncType, PutSyncedIs
<1>3. marked \in GoodPlan
  <2> HIDE DEF synced
  <2> QED BY <1>2, MarkType
<1>4. p \in GoodPlan
  <2>1. Running(marked) \in SUBSET Items(marked) /\ "pending" \in ItemStatus
    BY DEF Running, ItemStatus
  <2> HIDE DEF marked
  <2> QED BY <1>3, <2>1, SetType
<1>5. begun \in GoodPlan /\ done \in GoodPlan
  <2>1. ReadyItems(p) \in SUBSET Items(p) /\ "running" \in ItemStatus
    BY DEF ReadyItems, ItemStatus
  <2> HIDE DEF p
  <2> QED BY <1>4, <2>1, SetType, StatusType
<1>6. \/ Serve("task", v)
      \/ Serve("task", v \o PutPlan(done))
      \/ Ask("wave", boot, begun, {}, v \o PutPlan(begun))
  BY DEF StartWave
<1>7. "task" \in Requests /\ "wave" \in Waits
  BY DEF Requests, Waits
<1> HIDE DEF begun, done, v
<1>8. /\ Fine(v) /\ Fine(v \o PutPlan(done)) /\ Fine(v \o PutPlan(begun))
  BY <1>2, <1>5, PutPlanIs, MoreWork, FineWork
<1>9. CASE Serve("task", v)
  BY <1>7, <1>8, <1>9, ServeKeeps
<1>10. CASE Serve("task", v \o PutPlan(done))
  BY <1>7, <1>8, <1>10, ServeKeeps
<1>11. CASE Ask("wave", boot, begun, {}, v \o PutPlan(begun))
  <2>1. call' = Wait("wave", boot, begun, {}) /\ replaced' = Null
    BY <1>11 DEF Ask
  <2>2. /\ begun \in GoodPlan \cup {Null} /\ {} \in SUBSET Module
        /\ begun # Null
    BY <1>5, NullIsNot
  <2>3. CallShaped' /\ call'.kind = "wave"
    BY <1>1, <1>7, <2>1, <2>2, WaitShaped
  <2>4. CallCurrent'
    BY <2>1, <2>3 DEF CallCurrent
  <2> QED
    BY <1>1, <1>7, <1>8, <1>11, <2>3, <2>4, AskKeeps
<1> QED
  BY <1>6, <1>9, <1>10, <1>11

LEMMA WaveEndsKeeps == ASSUME IInv, WaveEnds PROVE IInv'
<1>1. PICK result \in [Running(call.plan) -> Outcome] :
        Resume("wave", PutPlan([call.plan EXCEPT !.item =
          [i \in Id |-> IF i \in DOMAIN result THEN result[i] ELSE @[i]]]))
  BY DEF WaveEnds
<1>2. /\ call # Null /\ call.kind = "wave" /\ UNCHANGED replaced
      /\ "wave" \in Waits
  BY DEF WaveEnds, Waits
<1>3. call.plan \in GoodPlan
  BY <1>2 DEF IInv, TypeInv, CallShaped
<1> DEFINE item == [i \in Id |-> IF i \in DOMAIN result THEN result[i]
                                ELSE call.plan.item[i]]
           p == [call.plan EXCEPT !.item = item]
<1>4. item \in [Id -> ItemStatus \cup {"none"}]
      /\ (item[Micro] # "none" => call.plan.item[Micro] # "none")
  <2>1. \A s \in Outcome : s \in ItemStatus
    BY StudioAssumption DEF ItemStatus
  <2>2. \A i \in DOMAIN result : /\ result[i] \in ItemStatus
                                 /\ call.plan.item[i] # "none"
    BY <2>1 DEF Running, Items
  <2>3. \A i \in Id : call.plan.item[i] \in ItemStatus \cup {"none"}
    BY <1>3 DEF GoodPlan, Plan
  <2> QED
    BY <2>2, <2>3 DEF Id
<1>5. Resume("wave", PutPlan(p))
  BY <1>1
<1> HIDE DEF item
<1>6. p \in GoodPlan
  BY <1>3, <1>4, ItemsType
<1> HIDE DEF p
<1>7. Fine(PutPlan(p))
  BY <1>6, PutPlanIs, FineWork
<1> QED
  BY <1>2, <1>5, <1>7, ResumeKeeps

LEMMA ApplyKeeps == ASSUME IInv, ApplyTaskPatch PROVE IInv'
<1> DEFINE p == MarkStale(plan, stale)
<1>1. plan \in GoodPlan
  BY CurrentType DEF ApplyTaskPatch
<1>2. p \in GoodPlan
  BY <1>1, MarkType
<1>3. PICK i \in Items(p) : Serve("task", PutPlan(SetItems(p, {i}, "applied")))
  BY DEF ApplyTaskPatch
<1> HIDE DEF p
<1>4. SetItems(p, {i}, "applied") \in GoodPlan
  BY <1>2, SetType DEF ItemStatus
<1> QED
  BY <1>3, <1>4, TaskKeeps

LEMMA RetryKeeps == ASSUME IInv, RetryTask PROVE IInv'
<1>1. plan \in GoodPlan
  BY CurrentType DEF RetryTask
<1>2. PICK i \in Items(plan), s \in Outcome :
        Serve("task", PutPlan(SetItems(plan, {i}, s)))
  BY DEF RetryTask
<1>3. SetItems(plan, {i}, s) \in GoodPlan
  BY <1>1, SetType, StudioAssumption DEF ItemStatus
<1> QED
  BY <1>2, <1>3, TaskKeeps

-----------------------------------------------------------------------------
(* Writing, stopping, and the whole.                                       *)

\* One write of a request's.
LEMMA WrittenNext ==
  ASSUME IInv, WriteNext
  PROVE  /\ pending' \in Seq(Writing)
         /\ boot' \in Bootstrap \cup {Null} /\ doc' \in Architecture \cup {Null}
         /\ history' \in History
         /\ stale' \in SUBSET Module /\ errors' \in SUBSET Module
         /\ plan' \in GoodPlan \cup {Null}
         /\ Will("boot", boot, pending) = Will("boot", boot', pending')
         /\ Will("doc", doc, pending) = Will("doc", doc', pending')
         /\ Will("history", history, pending) = Will("history", history', pending')
         /\ Will("plan", plan, pending) = Will("plan", plan', pending')
         /\ Will("errors", errors, pending) = Will("errors", errors', pending')
         /\ Says("boot", pending') \subseteq Says("boot", pending)
         /\ boot' = boot \/ boot' \in Says("boot", pending)
         /\ UNCHANGED <<handler, call, served, cut, replaced>>
<1> DEFINE w == Head(pending)
<1>1. /\ pending \in Seq(Writing) /\ pending # <<>> /\ pending' = Tail(pending)
      /\ boot' = (IF w.file = "boot" THEN w.value ELSE boot)
      /\ doc' = (IF w.file = "doc" THEN w.value ELSE doc)
      /\ history' = (IF w.file = "history" THEN w.value ELSE history)
      /\ stale' = (IF w.file = "stale" THEN w.value ELSE stale)
      /\ plan' = (IF w.file = "plan" THEN w.value ELSE plan)
      /\ errors' = (IF w.file = "errors" THEN w.value ELSE errors)
      /\ UNCHANGED <<handler, call, served, cut, replaced>>
  BY DEF IInv, TypeInv, WriteNext
<1>2. \A file, old : Will(file, old, pending) =
        Will(file, IF w.file = file THEN w.value ELSE old, pending')
  BY <1>1, WriteKeepsWill
<1>3. /\ w \in Writing /\ pending' \in Seq(Writing)
      /\ \A file : /\ Says(file, pending') \subseteq Says(file, pending)
                   /\ w.file = file => w.value \in Says(file, pending)
  BY <1>1, HeadSays
<1> HIDE DEF w
<1>4. /\ w.file = "boot" => w.value \in Bootstrap
      /\ w.file = "doc" => w.value \in Architecture
      /\ w.file = "history" => w.value \in History
      /\ w.file \in {"stale", "errors"} => w.value \in SUBSET Module
      /\ w.file = "plan" => w.value \in GoodPlan
  BY <1>3 DEF Writing
<1>5. /\ boot' \in Bootstrap \cup {Null} /\ doc' \in Architecture \cup {Null}
      /\ history' \in History
      /\ stale' \in SUBSET Module /\ errors' \in SUBSET Module
      /\ plan' \in GoodPlan \cup {Null}
  BY <1>1, <1>4 DEF IInv, TypeInv
<1>6. boot' = boot \/ boot' \in Says("boot", pending)
  BY <1>1, <1>3
<1>7. /\ Will("boot", boot, pending) = Will("boot", boot', pending')
      /\ Will("doc", doc, pending) = Will("doc", doc', pending')
      /\ Will("history", history, pending) = Will("history", history', pending')
      /\ Will("plan", plan, pending) = Will("plan", plan', pending')
      /\ Will("errors", errors, pending) = Will("errors", errors', pending')
  BY <1>1, <1>2
<1> QED
  BY <1>1, <1>3, <1>5, <1>6, <1>7

LEMMA WriteNextKeeps == ASSUME IInv, WriteNext PROVE IInv'
<1>1. TypeInv'
  <2>1. CallShaped'
    BY WrittenNext DEF IInv, TypeInv, CallShaped, Resolve, HasModules
  <2> QED
    BY <2>1, WrittenNext DEF IInv, TypeInv
<1>2. ASSUME ~ Overlap PROVE Settled'
  <2>1. Settled
    BY <1>2 DEF IInv
  <2>2. CallCurrent'
    BY <2>1, WrittenNext DEF Settled, CallCurrent
  <2>3. OneDraft(pending')
    <3>1. CASE boot' = boot
      BY <2>1, <3>1, WrittenNext DEF Settled, OneDraft
    <3>2. CASE boot' \in Says("boot", pending) /\ boot' # boot
      <4>1. \A v \in Says("boot", pending) : v = boot'
        BY <2>1, <3>2 DEF Settled, OneDraft
      <4> QED
        BY <4>1, WrittenNext DEF OneDraft
    <3> QED
      BY <3>1, <3>2, WrittenNext
  <2>4. /\ ~ cut' => Built(Will("boot", boot', pending'), Will("doc", doc', pending'))
        /\ ~ cut' => Agree(Will("plan", plan', pending'),
                           Will("errors", errors', pending'))
    BY <2>1, WrittenNext DEF Settled
  <2> QED
    BY <2>2, <2>3, <2>4 DEF Settled
<1>3. UndoIsPossible'
  BY WrittenNext DEF IInv, UndoIsPossible
<1> QED
  BY <1>1, <1>2, <1>3 DEF IInv

LEMMA CrashKeeps == ASSUME IInv, Crash PROVE IInv'
<1>1. /\ cut' = TRUE /\ pending' = <<>> /\ call' = Null /\ replaced' = Null
      /\ UNCHANGED <<files, handler, served>>
  BY DEF Crash
<1>2. TypeInv'
  BY <1>1 DEF IInv, TypeInv, CallShaped, files
<1>3. Says("boot", <<>>) = {}
  BY NothingSays
<1>4. Settled' /\ UndoIsPossible'
  BY <1>1, <1>3 DEF Settled, CallCurrent, OneDraft, UndoIsPossible
<1> QED
  BY <1>2, <1>4 DEF IInv

LEMMA NextKeeps == ASSUME IInv, [Next]_vars PROVE IInv'
<1>1. CASE Interview
  BY <1>1, StartBootstrapKeeps, StreamStartKeeps, AnswerKeeps,
     StreamAnswerKeeps, ReviseKeeps, TurnKeeps DEF Interview
<1>2. CASE Gate
  BY <1>2, ProvenanceKeeps, ConfirmKeeps, FinalizeKeeps, FinalizedKeeps,
     ReopenKeeps DEF Gate
<1>3. CASE Edition
  BY <1>3, EditArchitectureKeeps, EditAnsweredKeeps, RequirementKeeps,
     NodesAndEdgesKeep, UndoKeeps, ClearKeeps DEF Edition
<1>4. CASE Work
  BY <1>4, PlanTasksKeeps, OrchestrateKeeps, TasksPlannedKeeps,
     ConfirmTasksKeeps, DispatchKeeps, MicroDoneKeeps, WaveKeeps,
     WaveEndsKeeps, ApplyKeeps, RetryKeeps DEF Work
<1>5. CASE ModelFails
  BY <1>5, FailsKeeps
<1>6. CASE WriteNext
  BY <1>6, WriteNextKeeps
<1>7. CASE Crash
  BY <1>7, CrashKeeps
<1>8. CASE UNCHANGED vars
  <2>1. TypeInv'
    BY <1>8 DEF IInv, TypeInv, CallShaped, Resolve, HasModules, vars, files
  <2>2. UndoIsPossible' /\ (~ Overlap => Settled')
    BY <1>8 DEF IInv, Settled, CallCurrent, UndoIsPossible, vars, files
  <2> QED
    BY <2>1, <2>2 DEF IInv
<1> QED
  BY <1>1, <1>2, <1>3, <1>4, <1>5, <1>6, <1>7, <1>8 DEF Next, Done

\* Work derived anew has not failed.
LEMMA NewHasNotFailed ==
  ASSUME NEW a \in Architecture PROVE Owners(SyncWorkItems(Null, a)) = {}
<1> DEFINE old == [i \in Id |-> IF Null = Null THEN "none" ELSE Null.item[i]]
           item == [i \in Id |-> IF i \notin a.mods THEN "none"
                                 ELSE IF old[i] = "none" THEN "pending"
                                 ELSE old[i]]
           new == NewItems("architecture", "confirmed", a.mods,
                           [m \in Module |-> a.deps[m] \cap a.mods])
           kept == [new EXCEPT !.item = item]
           p == [kept EXCEPT !.status =
                   IF Items(kept) # {} /\ AllDone(kept) THEN "done" ELSE "confirmed"]
<1>1. \A i \in Id : item[i] \in {"none", "pending"}
  OBVIOUS
<1>2. SyncWorkItems(Null, a) = p
  BY DEF SyncWorkItems, Keeps
<1> HIDE DEF item
<1>3. kept.item = item /\ DOMAIN kept = {"source", "status", "item", "deps", "owner"}
  BY DEF NewItems
<1> HIDE DEF kept
<1>4. p.item = item
  BY <1>3
<1> HIDE DEF p
<1>5. Owners(p) = {}
  BY <1>1, <1>4 DEF Owners, Items
<1> QED
  BY <1>2, <1>5

LEMMA InitKeeps == Init => IInv
<1> SUFFICES ASSUME Init PROVE IInv
  OBVIOUS
<1>1. /\ history = <<>> /\ stale = {} /\ errors = {}
      /\ handler = "none" /\ pending = <<>> /\ call = Null
      /\ served = 0 /\ cut = FALSE /\ replaced = Null
  BY DEF Init
<1>2. /\ boot \in Bootstrap \cup {Null} /\ doc \in Architecture \cup {Null}
      /\ plan \in GoodPlan \cup {Null}
      /\ Built(boot, doc) /\ Agree(plan, {})
  <2>1. CASE boot = Null /\ plan = Null
             /\ doc \in {Null, MigrateArchitectureShape(Handmade, {})}
    <3>1. MigrateArchitectureShape(Handmade, {}) \in Architecture
      BY MigrateType, StudioAssumption
    <3> QED
      BY <2>1, <3>1 DEF Built, Agree
  <2>2. ASSUME NEW raw \in Drafts,
               LET a == [Drawn(raw) EXCEPT !.claims = "settled"]
               IN  \/ boot = Begun(a, "ready") /\ doc = Null /\ plan = Null
                   \/ /\ boot = Begun(a, "initialized") /\ doc = a
                      /\ plan = SyncWorkItems(Null, a)
        PROVE  /\ boot \in Bootstrap \cup {Null}
               /\ doc \in Architecture \cup {Null}
               /\ plan \in GoodPlan \cup {Null}
               /\ Built(boot, doc) /\ Agree(plan, {})
    <3> DEFINE a == [Drawn(raw) EXCEPT !.claims = "settled"]
    <3>1. a \in Architecture
      BY DrawnType, ClaimsType
    <3> HIDE DEF a
    <3>2. \A status \in Status : /\ Begun(a, status) \in Bootstrap
                                 /\ Begun(a, status).status = status
                                 /\ Begun(a, status).arch = a
      <4> TAKE status \in Status
      <4>1. Fresh \in Bootstrap /\ Profile \in 0..Profile
        BY FreshType, StudioAssumption
      <4>2. Begun(a, status) = [Fresh EXCEPT !.status = status,
                                  !.profile = Profile, !.arch = a]
        BY DEF Begun
      <4> QED
        BY <3>1, <4>1, <4>2 DEF Bootstrap
    <3>3. CASE boot = Begun(a, "ready") /\ doc = Null /\ plan = Null
      BY <3>2, <3>3 DEF Built, Agree, Status
    <3>4. CASE /\ boot = Begun(a, "initialized") /\ doc = a
               /\ plan = SyncWorkItems(Null, a)
      <4>1. plan \in GoodPlan /\ Owners(plan) = {}
        BY <3>1, <3>4, SyncType, NewHasNotFailed
      <4>2. boot \in Bootstrap /\ boot.arch = a
        BY <3>2, <3>4 DEF Status
      <4> QED
        BY <3>1, <3>4, <4>1, <4>2, NullIsNot DEF Built, Agree
    <3> QED
      BY <2>2, <3>3, <3>4 DEF a
  <2> QED
    BY <2>1, <2>2 DEF Init
<1>3. <<>> \in History /\ <<>> \in Seq(Writing) /\ 0 \in 0..MaxRequests
      /\ "none" \in Requests
  BY StudioAssumption DEF History, Requests
<1>4. TypeInv
  BY <1>1, <1>2, <1>3 DEF TypeInv, CallShaped
<1>5. Settled /\ UndoIsPossible
  <2>1. \A file, old : Will(file, old, <<>>) = old
    BY NothingWritten
  <2>2. Says("boot", <<>>) = {}
    BY NothingSays
  <2> QED
    BY <1>1, <1>2, <2>1, <2>2
       DEF Settled, CallCurrent, UndoIsPossible, OneDraft
<1> QED
  BY <1>4, <1>5 DEF IInv

LEMMA Inductive == Spec => []IInv
  BY InitKeeps, NextKeeps, PTL DEF Spec

-----------------------------------------------------------------------------
(* The theorems.                                                           *)

(* The six files, what is pending for them and the copies that requests    *)
(* wait with keep to their types, however the requests are served.         *)
THEOREM StudioTypeCorrect == Spec => []TypeOK
<1>1. IInv => TypeOK
  <2> SUFFICES ASSUME IInv PROVE TypeOK
    OBVIOUS
  <2>1. \A i \in DOMAIN pending : pending[i].file \in File
    <3> TAKE i \in DOMAIN pending
    <3>1. pending[i] \in Writing
      BY DEF IInv, TypeInv
    <3> QED
      BY <3>1 DEF Writing, File
  <2>2. call \in Call \cup {Null}
    BY DEF IInv, TypeInv, CallShaped
  <2>3. plan \in Plan \cup {Null}
    BY DEF IInv, TypeInv, GoodPlan
  <2> QED
    BY <2>1, <2>2, <2>3 DEF IInv, TypeInv, TypeOK, History
<1> QED
  BY <1>1, Inductive, PTL

(* While no other request waits for a model, the draft in bootstrap.json   *)
(* and architecture.json of a built project agree whenever nothing is      *)
(* being written, whichever edit, undo, answer or finalization came last:  *)
(* until a stop of the server cuts the writes of a request short.          *)
THEOREM OneArchitectureKept ==
  ASSUME ~ Overlap PROVE Spec => []OneArchitecture
<1>1. IInv => OneArchitecture
  BY AtRest DEF OneArchitecture, Quiet, Built
<1> QED
  BY <1>1, Inductive, PTL

(* What undo_architecture takes from the history is what the last edit of  *)
(* nodes, edges or text replaced, by whichever route the edit came and     *)
(* whoever else waits for a model.                                         *)
THEOREM UndoGivesBack == Spec => []UndoRestores
<1>1. IInv => UndoRestores
  BY NothingWritten DEF IInv, UndoRestores, Quiet, UndoIsPossible
<1> QED
  BY <1>1, Inductive, PTL

(* Once a writer of tasks.json is through, reconcile_task_error_nodes has  *)
(* left an active node of error_nodes.json for the failed tasks, and only  *)
(* for them: until a stop of the server falls between the two writes.      *)
THEOREM FailuresAreShown ==
  ASSUME ~ Overlap PROVE Spec => []FailedIsShown
<1>1. IInv => FailedIsShown
  BY AtRest DEF FailedIsShown, Quiet, Agree
<1> QED
  BY <1>1, Inductive, PTL

-----------------------------------------------------------------------------
LEMMA ShownType ==
  ASSUME TypeInv
  PROVE  /\ Shown \in Architecture
         /\ (IF boot = Null THEN "none" ELSE boot.status) \in
              {"none", "interviewing", "review", "ready", "initialized"}
<1>1. Current \in Architecture \cup {Null}
  BY ResolveType DEF TypeInv, Current
<1> QED
  BY <1>1, EmptyType DEF Shown, TypeInv, Bootstrap, Status

\* Only WriteNext writes.
LEMMA OthersWriteNothing ==
  ASSUME [Next]_vars, ~ WriteNext PROVE UNCHANGED <<boot, doc>>
<1>1. CASE UNCHANGED vars
  BY <1>1 DEF vars, files
<1>2. CASE Interview
  BY <1>2 DEF Interview, StartBootstrap, StreamBootstrapStart, AnswerBootstrap,
     StreamBootstrapAnswer, ReviseBootstrap, InterviewTurn, Turn, Serve, Ask,
     Resume, files
<1>3. CASE Gate
  BY <1>3 DEF Gate, UpdateProvenance, ConfirmBootstrap, FinalizeBootstrap,
     Finalized, ReopenArchitectureReview, Serve, Ask, Resume, files
<1>4. CASE Edition
  <2>1. ASSUME NEW name, NEW raw, CommitDirect(name, raw)
        PROVE  UNCHANGED <<boot, doc>>
    BY <2>1 DEF CommitDirect, Editing, files
  <2>2. CASE UpdateArchitectureNodes \/ UpdateArchitectureEdges
    BY <2>1, <2>2 DEF UpdateArchitectureNodes, UpdateArchitectureEdges,
       Touch, Rename, SetResponsibility, DeleteModule, MergeModules,
       SplitModule, RetypeEdge, DeleteEdge
  <2>3. CASE UndoArchitecture \/ UpdateModuleRequirement
    BY <2>3 DEF UndoArchitecture, UpdateModuleRequirement, Editing, files
  <2>4. CASE EditArchitecture \/ EditAnswered \/ ClearStale
    BY <2>4 DEF EditArchitecture, EditAnswered, ClearStale, Ask, Resume,
       Serve, files
  <2> QED
    BY <1>4, <2>2, <2>3, <2>4 DEF Edition
<1>5. CASE Work
  BY <1>5 DEF Work, PlanTasks, OrchestrateTasks, TasksPlanned, ConfirmTasks,
     DispatchMicroTask, MicroTaskDone, StartWave, WaveEnds, ApplyTaskPatch,
     RetryTask, Serve, Ask, Resume, files
<1>6. CASE ModelFails \/ Crash
  BY <1>6 DEF ModelFails, Crash, Resume, files
<1> QED
  BY <1>1, <1>2, <1>3, <1>4, <1>5, <1>6 DEF Next, Done

\* Writes to tasks.json and the error nodes.
OfPlan(w) ==
  \E S : w \in Seq(S) /\ \A x \in S : x.file \in {"plan", "errors"}

LEMMA PlanWritesAre ==
  /\ OfPlan(<<>>)
  /\ \A p : OfPlan(<<Put("plan", p)>>) /\ OfPlan(PutPlan(p))
  /\ \A p, a : OfPlan(PutSynced(p, a))
  /\ \A v, w : OfPlan(v) /\ OfPlan(w) => OfPlan(v \o w)
<1>1. OfPlan(<<>>)
  <2> DEFINE S == {Put("plan", 0)}
  <2>1. \A x \in S : x.file \in {"plan", "errors"}
    BY DEF Put
  <2> HIDE DEF S
  <2>2. <<>> \in Seq(S)
    OBVIOUS
  <2> QED
    BY <2>1, <2>2 DEF OfPlan
<1>2. ASSUME NEW p PROVE OfPlan(<<Put("plan", p)>>) /\ OfPlan(PutPlan(p))
  <2> DEFINE x == Put("plan", p)
             y == Put("errors", Reconcile(errors, p))
             S == {x, y}
  <2>1. x.file = "plan" /\ y.file = "errors"
    BY DEF Put
  <2>2. PutPlan(p) = <<x, y>>
    BY DEF PutPlan
  <2> HIDE DEF x, y
  <2>3. <<x>> \in Seq(S) /\ <<x, y>> \in Seq(S)
    OBVIOUS
  <2>4. \A z \in S : z.file \in {"plan", "errors"}
    BY <2>1
  <2> HIDE DEF S
  <2>5. OfPlan(<<x>>) /\ OfPlan(<<x, y>>)
    BY <2>3, <2>4 DEF OfPlan
  <2> QED
    BY <2>2, <2>5 DEF x
<1>3. \A p, a : OfPlan(PutSynced(p, a))
  BY <1>1, <1>2 DEF PutSynced
<1>4. ASSUME NEW v, NEW w, OfPlan(v), OfPlan(w) PROVE OfPlan(v \o w)
  <2>1. PICK S : v \in Seq(S) /\ \A x \in S : x.file \in {"plan", "errors"}
    BY <1>4 DEF OfPlan
  <2>2. PICK T : w \in Seq(T) /\ \A x \in T : x.file \in {"plan", "errors"}
    BY <1>4 DEF OfPlan
  <2> DEFINE U == S \cup T
  <2>3. v \in Seq(U) /\ w \in Seq(U)
    BY <2>1, <2>2
  <2>4. \A x \in U : x.file \in {"plan", "errors"}
    BY <2>1, <2>2
  <2> HIDE DEF U
  <2>5. v \o w \in Seq(U)
    BY <2>3
  <2> QED
    BY <2>4, <2>5 DEF OfPlan
<1> QED
  BY <1>1, <1>2, <1>3, <1>4

LEMMA PlanSays ==
  ASSUME NEW w, OfPlan(w)
  PROVE  \A file \in {"boot", "doc", "history", "stale"} : Says(file, w) = {}
<1>1. PICK S : w \in Seq(S) /\ \A x \in S : x.file \in {"plan", "errors"}
  BY DEF OfPlan
<1>2. \A i \in 1..Len(w) : w[i].file \in {"plan", "errors"}
  BY <1>1
<1> QED
  BY <1>2 DEF Says, At

-----------------------------------------------------------------------------
(* The life of a project: what each request may write of it.               *)

\* What a request may make of the draft b.
Part(name, b, v) ==
  \/ v = b
  \/ name \in {"begin", "start"} /\ v.status \in {"interviewing", "review"}
  \/ /\ b # Null
     /\ \/ /\ v.status \in {"interviewing", "review"}
           /\ \/ name \in {"answer", "stream"} /\ b.status = "interviewing"
              \/ name = "revise" /\ b.status = "review"
        \/ /\ name = "reopen" /\ b.status \in {"ready", "initialized"}
           /\ v.status = "review"
        \/ /\ name = "confirm" /\ b.status = "review" /\ PassesGate(b.arch)
           /\ v.status = "ready" /\ v.arch = b.arch
        \/ /\ name = "finalize" /\ b.status = "ready"
           /\ v.status = "initialized" /\ v.arch = b.arch
        \/ name \in Edits \cup {"undo"} /\ v.status = b.status
        \/ /\ name = "settle" /\ HasModules(b) /\ v.status = b.status
           /\ Unsettled(v.arch) = Unsettled(b.arch)

\* What it may make of the document d beside the draft b.
Rest(name, b, d, v, w) ==
  \/ name \in Edits \cup {"undo"}
  \/ /\ Says("boot", w) = {}
     /\ \/ name = "finalize" /\ b # Null /\ b.status = "ready" /\ v = b.arch
        \/ /\ name = "settle" /\ ~ HasModules(b) /\ d # Null /\ d.mods # {}
           /\ Unsettled(v) = Unsettled(d)

Tells(name, b, d, w) ==
  /\ \A v \in Says("boot", w) : Part(name, b, v)
  /\ \A v \in Says("doc", w) : Rest(name, b, d, v, w)

\* An interview that waits for the model is where it was.
Waiting ==
  call # Null =>
    /\ call.kind \in {"answer", "stream", "revise"} => pending = <<>> /\ boot # Null
    /\ call.kind \in {"answer", "stream"} => boot.status = "interviewing"
    /\ call.kind = "revise" => boot.status = "review"

LifeInv == Waiting /\ Tells(handler, boot, doc, pending)

LEMMA LifeServe ==
  ASSUME ~ Overlap, NEW name, NEW w, Tells(name, boot, doc, w),
         \/ Serve(name, w) \/ Resume(name, w)
         \/ \E gone : Editing(name, w, gone)
  PROVE  LifeInv'
<1>1. /\ UNCHANGED files /\ handler' = name /\ pending' = w /\ call' = Null
  BY DEF Serve, Resume, Editing, Write, Free
<1> QED
  BY <1>1 DEF LifeInv, Waiting, files

LEMMA NothingTells == ASSUME NEW name PROVE Tells(name, boot, doc, <<>>)
BY NothingSays DEF Tells

LEMMA LifeAsk ==
  ASSUME NEW kind, NEW b, NEW p, NEW scope, NEW w, Ask(kind, b, p, scope, w),
         Tells(kind, boot, doc, w),
         kind \in {"answer", "stream", "revise"} => w = <<>> /\ boot # Null,
         kind \in {"answer", "stream"} => boot.status = "interviewing",
         kind = "revise" => boot.status = "review"
  PROVE  LifeInv'
<1>1. /\ UNCHANGED files /\ handler' = kind /\ pending' = w
      /\ call'.kind = kind
  BY DEF Ask, Write, Wait
<1> QED
  BY <1>1 DEF LifeInv, Waiting, files

\* Requests that write one of the two.
LEMMA DraftTells ==
  ASSUME NEW name, NEW v, Part(name, boot, v)
  PROVE  Tells(name, boot, doc, <<Put("boot", v)>>)
<1> DEFINE w == <<Put("boot", v)>>
<1>1. Says("boot", w) = {v} /\ Says("doc", w) = {}
  BY OneSays
<1> HIDE DEF w
<1>2. Tells(name, boot, doc, w)
  BY <1>1 DEF Tells
<1> QED
  BY <1>2 DEF w

LEMMA DocumentTells ==
  ASSUME NEW name, NEW v,
         \/ name = "finalize" /\ boot # Null /\ boot.status = "ready" /\ v = boot.arch
         \/ /\ name = "settle" /\ ~ HasModules(boot) /\ doc # Null /\ doc.mods # {}
            /\ Unsettled(v) = Unsettled(doc)
  PROVE  Tells(name, boot, doc, <<Put("doc", v)>>)
<1> DEFINE w == <<Put("doc", v)>>
<1>1. Says("boot", w) = {} /\ Says("doc", w) = {v}
  BY OneSays
<1> HIDE DEF w
<1>2. Tells(name, boot, doc, w)
  BY <1>1 DEF Tells, Rest
<1> QED
  BY <1>2 DEF w

\* An edit, and an undo, write the draft where it is.
LEMMA EditTells ==
  ASSUME boot \in Bootstrap \cup {Null}, NEW name \in Edits \cup {"undo"},
         NEW new, NEW w,
         Says("boot", w) = IF boot = Null THEN {} ELSE {[boot EXCEPT !.arch = new]}
  PROVE  Tells(name, boot, doc, w)
<1>1. \A v \in Says("boot", w) : boot # Null /\ v.status = boot.status
  BY DEF Bootstrap
<1> QED
  BY <1>1 DEF Tells, Part, Rest

LEMMA PlanTells ==
  ASSUME NEW name, NEW w, OfPlan(w) PROVE Tells(name, boot, doc, w)
BY PlanSays DEF Tells

LEMMA InterviewLives ==
  ASSUME IInv, LifeInv, ~ Overlap, Interview PROVE LifeInv'
<1>1. CASE StartBootstrap
  <2> DEFINE v == [Fresh EXCEPT !.asked = "profile"]
  <2>1. v.status = "interviewing" /\ Serve("begin", <<Put("boot", v)>>)
    BY <1>1 DEF StartBootstrap, Fresh
  <2> HIDE DEF v
  <2>2. Part("begin", boot, v)
    BY <2>1 DEF Part
  <2> QED
    BY <2>1, <2>2, DraftTells, LifeServe
<1>2. CASE StreamBootstrapStart
  <2>1. Ask("start", Fresh, Null, {}, <<>>)
    BY <1>2 DEF StreamBootstrapStart
  <2> QED
    BY <2>1, NothingTells, LifeAsk
<1>3. CASE AnswerBootstrap
  <2> DEFINE profile == boot.profile + 1
             next == [boot EXCEPT !.profile = profile,
                        !.asked = IF profile < Profile THEN "profile" ELSE "none"]
  <2>1. boot # Null /\ boot \in Bootstrap /\ boot.status = "interviewing"
    BY <1>3 DEF AnswerBootstrap, Asked, IInv, TypeInv
  <2>2. next.status = "interviewing"
    BY <2>1 DEF Bootstrap
  <2>3. \/ \E b : Ask("answer", b, Null, {}, <<>>)
        \/ Serve("answer", <<Put("boot", next)>>)
    BY <1>3 DEF AnswerBootstrap
  <2> HIDE DEF next
  <2>4. Part("answer", boot, next)
    BY <2>1, <2>2 DEF Part
  <2>5. CASE Serve("answer", <<Put("boot", next)>>)
    BY <2>4, <2>5, DraftTells, LifeServe
  <2>6. CASE \E b : Ask("answer", b, Null, {}, <<>>)
    BY <2>1, <2>6, NothingTells, LifeAsk
  <2> QED
    BY <2>3, <2>5, <2>6
<1>4. CASE StreamBootstrapAnswer
  <2>1. /\ Ask("stream", boot, Null, {}, <<>>)
        /\ boot # Null /\ boot.status = "interviewing"
    BY <1>4 DEF StreamBootstrapAnswer, Asked
  <2> QED
    BY <2>1, NothingTells, LifeAsk
<1>5. CASE ReviseBootstrap
  <2>1. /\ Ask("revise", boot, Null, {}, <<>>)
        /\ boot # Null /\ boot.status = "review"
    BY <1>5 DEF ReviseBootstrap, InReview
  <2> QED
    BY <2>1, NothingTells, LifeAsk
<1>6. CASE InterviewTurn
  <2>1. PICK kind \in {"start", "answer", "stream", "revise"}, raw \in Drafts,
             ready \in BOOLEAN :
          Resume(kind, <<Put("boot", Applied(call.boot, Drawn(raw), ready))>>)
    BY <1>6 DEF InterviewTurn, Turn
  <2> DEFINE v == Applied(call.boot, Drawn(raw), ready)
  <2>2. call # Null /\ call.kind = kind
    BY <2>1 DEF Resume
  <2>3. v.status \in {"interviewing", "review"}
    <3>1. call.boot \in Bootstrap
      BY <2>2 DEF IInv, TypeInv, CallShaped, Call
    <3> QED
      BY <3>1, DrawnType, AppliedType
  <2> HIDE DEF v
  <2>4. Part(kind, boot, v)
    BY <2>2, <2>3 DEF LifeInv, Waiting, Part
  <2>5. Resume(kind, <<Put("boot", v)>>)
    BY <2>1 DEF v
  <2> QED
    BY <2>4, <2>5, DraftTells, LifeServe
<1> QED
  BY <1>1, <1>2, <1>3, <1>4, <1>5, <1>6 DEF Interview

LEMMA GateLives ==
  ASSUME IInv, LifeInv, ~ Overlap, Gate PROVE LifeInv'
<1>1. /\ boot \in Bootstrap \cup {Null} /\ doc \in Architecture \cup {Null}
      /\ plan \in GoodPlan \cup {Null}
  BY CurrentType
<1>2. CASE UpdateProvenance
  <2> DEFINE settled == [Current EXCEPT !.claims = "settled"]
  <2>1. Current # Null /\ Current \in Architecture
    BY <1>2, CurrentType DEF UpdateProvenance
  <2>2. Unsettled(settled) = Unsettled(Current)
    BY <2>1 DEF Unsettled, Architecture
  <2>3. Serve("settle", IF HasModules(boot) THEN PutBoot(boot, settled)
                        ELSE <<Put("doc", settled)>>)
    BY <1>2 DEF UpdateProvenance
  <2> HIDE DEF settled
  <2>4. CASE HasModules(boot)
    <3> DEFINE v == [boot EXCEPT !.arch = settled]
    <3>1. boot # Null /\ boot \in Bootstrap /\ Current = boot.arch
      BY <1>1, <2>4, ResolveType DEF HasModules, Current
    <3>2. /\ v.status = boot.status /\ v.arch = settled
          /\ PutBoot(boot, settled) = <<Put("boot", v)>>
      BY <3>1 DEF Bootstrap, PutBoot
    <3> HIDE DEF v
    <3>3. Part("settle", boot, v)
      BY <2>2, <2>4, <3>1, <3>2 DEF Part
    <3> QED
      BY <2>3, <2>4, <3>2, <3>3, DraftTells, LifeServe
  <2>5. CASE ~ HasModules(boot)
    <3>1. Current = doc /\ doc # Null /\ doc.mods # {}
      BY <2>1, <2>5 DEF Current, Resolve
    <3>2. Tells("settle", boot, doc, <<Put("doc", settled)>>)
      BY <2>2, <2>5, <3>1, DocumentTells
    <3> QED
      BY <2>3, <2>5, <3>2, LifeServe
  <2> QED
    BY <2>4, <2>5
<1>3. CASE ConfirmBootstrap
  <2> DEFINE v == [boot EXCEPT !.status = "ready"]
  <2>1. /\ boot # Null /\ boot.status = "review" /\ PassesGate(boot.arch)
        /\ Serve("confirm", <<Put("boot", v)>>)
    BY <1>3 DEF ConfirmBootstrap, InReview, PassesGate
  <2>2. v.arch = boot.arch /\ v.status = "ready"
    BY <1>1, <2>1 DEF Bootstrap
  <2> HIDE DEF v
  <2>3. Part("confirm", boot, v)
    BY <2>1, <2>2 DEF Part
  <2> QED
    BY <2>1, <2>3, DraftTells, LifeServe
<1>4. CASE FinalizeBootstrap
  <2>1. /\ boot # Null /\ boot.status = "ready"
        /\ Ask("finalize", boot, Null, {}, <<Put("doc", boot.arch)>>)
    BY <1>4 DEF FinalizeBootstrap
  <2>2. Tells("finalize", boot, doc, <<Put("doc", boot.arch)>>)
    BY <2>1, DocumentTells
  <2> QED
    BY <2>1, <2>2, LifeAsk
<1>5. CASE Finalized
  <2> DEFINE v == [call.boot EXCEPT !.status = "initialized"]
             w == PutSynced(plan, call.boot.arch)
             x == <<Put("boot", v)>>
  <2>1. call # Null /\ Resume("finalize", w \o x)
    BY <1>5 DEF Finalized
  <2>2. call.kind = "finalize" /\ pending = <<>>
    BY <2>1 DEF Resume
  <2>3. /\ call.boot \in Bootstrap /\ call.boot # Null
        /\ call.boot.status = "ready" /\ call.boot = boot
    BY <2>1, <2>2, AtRest DEF IInv, TypeInv, CallShaped, Call, CallCurrent
  <2>4. /\ v.arch = boot.arch /\ v.status = "initialized" /\ v \in Bootstrap
        /\ boot.arch \in Architecture
    BY <2>3 DEF Bootstrap, Status
  <2>5. /\ w \in Seq(Writing) /\ Says("boot", w) = {} /\ Says("doc", w) = {}
    BY <1>1, <2>3, <2>4, PutSyncedIs, PlanWritesAre, PlanSays DEF WorkOnly
  <2> HIDE DEF v, w
  <2>6. /\ x \in Seq(Writing) /\ Says("boot", x) = {v} /\ Says("doc", x) = {}
    <3>1. Put("boot", v) \in Writing
      BY <2>4 DEF Put, Writing
    <3>2. x \in Seq(Writing)
      BY <3>1
    <3>3. \A file : Says(file, x) = IF "boot" = file THEN {v} ELSE {}
      BY OneSays DEF Put
    <3> QED
      BY <3>2, <3>3
  <2> HIDE DEF x
  <2>7. Says("boot", w \o x) = {v} /\ Says("doc", w \o x) = {}
    <3>1. \A file : Says(file, w \o x) = Says(file, w) \cup Says(file, x)
      BY <2>5, <2>6, BothSay
    <3> QED
      BY <2>5, <2>6, <3>1
  <2>8. Part("finalize", boot, v)
    BY <2>3, <2>4 DEF Part
  <2>9. Tells("finalize", boot, doc, w \o x)
    BY <2>7, <2>8 DEF Tells
  <2> QED
    BY <2>1, <2>9, LifeServe
<1>6. CASE ReopenArchitectureReview
  <2> DEFINE a == IF doc # Null /\ doc.mods # {} THEN doc ELSE boot.arch
             v == [boot EXCEPT !.arch = a, !.asked = "none", !.status = "review"]
  <2>1. /\ boot # Null /\ boot.status \in {"ready", "initialized"}
        /\ Serve("reopen", <<Put("boot", v)>>)
    BY <1>6 DEF ReopenArchitectureReview
  <2> HIDE DEF a
  <2>2. v.status = "review"
    BY <1>1, <2>1 DEF Bootstrap
  <2> HIDE DEF v
  <2>3. Part("reopen", boot, v)
    BY <2>1, <2>2 DEF Part
  <2> QED
    BY <2>1, <2>3, DraftTells, LifeServe
<1> QED
  BY <1>2, <1>3, <1>4, <1>5, <1>6 DEF Gate

LEMMA WorkLives ==
  ASSUME IInv, LifeInv, ~ Overlap, Work PROVE LifeInv'
<1>1. ASSUME NEW name, NEW w, OfPlan(w), Serve(name, w) \/ Resume(name, w)
      PROVE  LifeInv'
  BY <1>1, PlanTells, LifeServe
<1>2. ASSUME NEW kind \in {"plan", "orchestrate", "micro", "wave"}, NEW p,
             NEW scope, NEW w, OfPlan(w), Ask(kind, boot, p, scope, w)
      PROVE  LifeInv'
  BY <1>2, PlanTells, LifeAsk
<1>3. CASE PlanTasks \/ OrchestrateTasks \/ DispatchMicroTask
  BY <1>2, <1>3, PlanWritesAre DEF PlanTasks, OrchestrateTasks, DispatchMicroTask
<1>4. CASE TasksPlanned
  <2>1. \E kind, p : Resume(kind, PutPlan(p))
    BY <1>4 DEF TasksPlanned
  <2> QED
    BY <1>1, <2>1, PlanWritesAre
<1>5. CASE MicroTaskDone \/ WaveEnds
  <2>1. \E kind, p : Resume(kind, PutPlan(p)) \/ Resume(kind, <<Put("plan", p)>>)
    BY <1>5 DEF MicroTaskDone, WaveEnds
  <2> QED
    BY <1>1, <2>1, PlanWritesAre
<1>6. CASE ConfirmTasks \/ ApplyTaskPatch \/ RetryTask
  <2>1. \E p : Serve("task", PutPlan(p))
    BY <1>6 DEF ConfirmTasks, ApplyTaskPatch, RetryTask
  <2> QED
    BY <1>1, <2>1, PlanWritesAre
<1>7. CASE StartWave
  <2>1. \/ Serve("task", PutSynced(plan, Current))
        \/ \E p : Serve("task", PutSynced(plan, Current) \o PutPlan(p))
        \/ \E p : Ask("wave", boot, p, {}, PutSynced(plan, Current) \o PutPlan(p))
    BY <1>7 DEF StartWave
  <2>2. /\ OfPlan(PutSynced(plan, Current))
        /\ \A p : OfPlan(PutSynced(plan, Current) \o PutPlan(p))
    BY PlanWritesAre
  <2> QED
    BY <1>1, <1>2, <2>1, <2>2
<1> QED
  BY <1>3, <1>4, <1>5, <1>6, <1>7 DEF Work

LEMMA EditionLives ==
  ASSUME IInv, LifeInv, ~ Overlap, Edition PROVE LifeInv'
<1>1. /\ boot \in Bootstrap \cup {Null} /\ doc \in Architecture \cup {Null}
      /\ plan \in GoodPlan \cup {Null} /\ history \in History
      /\ Current # Null => Current \in Architecture
  BY CurrentType DEF IInv, TypeInv
<1>2. ASSUME NEW name \in Edits, NEW flagged \in SUBSET Module,
             NEW previous \in Architecture, NEW new \in Architecture
      PROVE  /\ Tells(name, boot, doc, PutEdit(boot, doc, flagged, previous, new))
             /\ Tells(name, boot, doc, PutEdit(boot, doc, flagged, previous, new)
                                         \o PutSynced(plan, new))
  <2> DEFINE v == PutEdit(boot, doc, flagged, previous, new)
             w == PutSynced(plan, new)
  <2>1. EditWrites(boot, previous, new, v)
    BY <1>1, PutEditIs
  <2>2. WorkOnly(w)
    BY <1>1, PutSyncedIs
  <2> HIDE DEF v, w
  <2>3. EditWrites(boot, previous, new, v \o w)
    BY <2>1, <2>2, EditAndWork
  <2>4. Tells(name, boot, doc, v) /\ Tells(name, boot, doc, v \o w)
    BY <1>1, <2>1, <2>3, EditTells DEF EditWrites
  <2> QED
    BY <2>4 DEF v, w
<1>3. CASE EditArchitecture
  <2>1. Ask("edit", boot, Null, {}, <<>>)
    BY <1>3 DEF EditArchitecture
  <2> QED
    BY <2>1, NothingTells, LifeAsk
<1>4. CASE EditAnswered
  <2> DEFINE b == call.boot
             d == call.doc
             old == Resolve(b, d)
             previous == Previous(b, d)
  <2>1. PICK raw \in Drafts :
          Resume("edit",
            PutEdit(b, d, StaleAfterEdit(old, Revised(raw)), previous,
                    Revised(raw))
              \o PutSynced(plan, Revised(raw)))
    BY <1>4 DEF EditAnswered
  <2> DEFINE new == Revised(raw)
             flagged == StaleAfterEdit(old, new)
  <2>2. call # Null /\ call.kind = "edit" /\ pending = <<>>
    BY <2>1 DEF Resume
  <2>3. /\ b \in Bootstrap \cup {Null} /\ d \in Architecture \cup {Null}
        /\ old # Null /\ b = boot /\ d = doc
    BY <2>2, AtRest DEF IInv, TypeInv, CallShaped, Call, CallCurrent
  <2>4. /\ old \in Architecture /\ previous \in Architecture
        /\ new \in Architecture
    BY <2>3, ResolveType, PreviousType, DrawnType
  <2>5. flagged \in SUBSET Module
    BY <2>4, StaleEditType
  <2>6. "edit" \in Edits
    BY DEF Edits
  <2>7. Resume("edit", PutEdit(b, d, flagged, previous, new) \o PutSynced(plan, new))
    BY <2>1
  <2> HIDE DEF b, d, old, previous, new, flagged
  <2>8. Tells("edit", boot, doc, PutEdit(b, d, flagged, previous, new)
                                   \o PutSynced(plan, new))
    BY <1>2, <2>3, <2>4, <2>5, <2>6
  <2> QED
    BY <2>7, <2>8, LifeServe
<1>5. CASE UpdateModuleRequirement
  <2>1. PICK m \in Current.mods, t \in Text :
          LET new == [Current EXCEPT !.text[m] = t]
              previous == IF HasModules(boot) /\ doc # Null THEN doc ELSE new
          IN  Editing("requirement", PutEdit(boot, doc,
                StaleAfterModuleEdit(new, m), previous, new), Null)
    BY <1>5 DEF UpdateModuleRequirement
  <2> DEFINE new == [Current EXCEPT !.text[m] = t]
             previous == IF HasModules(boot) /\ doc # Null THEN doc ELSE new
             flagged == StaleAfterModuleEdit(new, m)
             w == PutEdit(boot, doc, flagged, previous, new)
  <2>2. Current \in Architecture /\ m \in Module
    BY <1>1, <1>5 DEF UpdateModuleRequirement, Architecture
  <2>3. new \in Architecture
    BY <2>2, TextType
  <2>4. Editing("requirement", w, Null) /\ "requirement" \in Edits
    BY <2>1 DEF Edits, Direct
  <2> HIDE DEF new
  <2>5. previous \in Architecture /\ flagged \in SUBSET Module
    BY <1>1, <2>2, <2>3, StaleType
  <2> HIDE DEF previous, flagged
  <2>6. Tells("requirement", boot, doc, w)
    BY <1>2, <2>3, <2>4, <2>5
  <2> QED
    BY <2>4, <2>6, LifeServe
<1>6. CASE UpdateArchitectureNodes \/ UpdateArchitectureEdges
  <2>1. PICK name \in {"node", "edge"}, raw \in Architecture :
          Current # Null /\ CommitDirect(name, raw)
    BY <1>6, DirectIs
  <2> DEFINE new == [NormalizeArchitecture(raw) EXCEPT !.claims = Current.claims]
             flagged == StaleAfterEdit(Current, new)
             previous == Previous(boot, doc)
  <2>2. new \in Architecture
    <3>1. Current.claims \in {"none", "inferred", "settled"}
      BY <1>1, <2>1 DEF Architecture
    <3>2. NormalizeArchitecture(raw) \in Architecture
      BY NormalizeType
    <3> QED
      BY <3>1, <3>2, ClaimsType
  <2>3. previous \in Architecture
    BY <1>1, <2>1, PreviousType DEF Current
  <2>4. \/ /\ InReview
           /\ Editing(name, <<Put("stale", flagged)>> \o PutBoot(boot, new), Null)
        \/ Editing(name, PutEdit(boot, doc, flagged, previous, new)
                           \o PutSynced(plan, new), previous)
    BY <2>1 DEF CommitDirect
  <2> HIDE DEF new
  <2>5. flagged \in SUBSET Module /\ name \in Edits
    BY <1>1, <2>1, <2>2, StaleEditType DEF Edits, Direct
  <2> HIDE DEF flagged, previous
  <2>6. Tells(name, boot, doc, <<Put("stale", flagged)>> \o PutBoot(boot, new))
    <3> DEFINE r == <<Put("stale", flagged)>>
               u == PutBoot(boot, new)
    <3>1. r \in Seq(Writing) /\ Says("boot", r) = {}
      <4>1. WorkOnly(r)
        BY <2>5, StalePutIs
      <4> QED
        BY <4>1 DEF WorkOnly
    <3>2. /\ u \in Seq(Writing)
          /\ Says("boot", u) = IF boot = Null THEN {}
                               ELSE {[boot EXCEPT !.arch = new]}
      BY <1>1, <2>2, PutBootIs
    <3> HIDE DEF r, u
    <3>3. Says("boot", r \o u) = Says("boot", r) \cup Says("boot", u)
      BY <3>1, <3>2, BothSay
    <3>4. Tells(name, boot, doc, r \o u)
      BY <1>1, <2>5, <3>1, <3>2, <3>3, EditTells
    <3> QED
      BY <3>4 DEF r, u
  <2> QED
    BY <1>2, <2>2, <2>3, <2>4, <2>5, <2>6, LifeServe
<1>7. CASE UndoArchitecture
  <2> DEFINE a == Last(history)
             h == Front(history)
             r == <<Put("history", h)>>
             s == <<Put("doc", a)>>
             t == PutBoot(boot, a)
             u == <<Put("stale", {})>>
             w == (<<Put("history", h), Put("doc", a)>> \o t) \o u
  <2>1. history # <<>> /\ \E gone : Editing("undo", w, gone)
    BY <1>7 DEF UndoArchitecture
  <2>2. a \in Architecture
    <3>1. /\ history \in Seq(Architecture) /\ Len(history) \in Nat
          /\ Len(history) >= 1
      BY <1>1, <2>1 DEF History
    <3> QED
      BY <3>1 DEF Last
  <2> HIDE DEF a, h
  <2>3. /\ Says("boot", t) = IF boot = Null THEN {} ELSE {[boot EXCEPT !.arch = a]}
        /\ t \in Seq(Writing)
    BY <1>1, <2>2, PutBootIs
  <2>4. /\ Says("boot", r) = {} /\ Says("boot", s) = {} /\ Says("boot", u) = {}
    BY OneSays
  <2> DEFINE S == Writing \cup {Put("history", h), Put("doc", a), Put("stale", {})}
  <2>5. r \in Seq(S) /\ s \in Seq(S) /\ t \in Seq(S) /\ u \in Seq(S)
    BY <2>3
  <2>6. w = ((r \o s) \o t) \o u
    OBVIOUS
  <2> HIDE DEF r, s, t, u, w, S
  <2>7. Says("boot", w) = Says("boot", r) \cup Says("boot", s)
                            \cup Says("boot", t) \cup Says("boot", u)
    BY <2>5, <2>6, FourWritten
  <2>8. Tells("undo", boot, doc, w)
    BY <1>1, <2>3, <2>4, <2>7, EditTells
  <2> QED
    BY <2>1, <2>8, LifeServe
<1>8. CASE ClearStale
  <2>1. PICK S : Serve("clear", <<Put("stale", S)>>)
    BY <1>8 DEF ClearStale
  <2>2. \A file \in {"boot", "doc"} : Says(file, <<Put("stale", S)>>) = {}
    BY OneSays
  <2>3. Tells("clear", boot, doc, <<Put("stale", S)>>)
    BY <2>2 DEF Tells
  <2> QED
    BY <2>1, <2>3, LifeServe
<1> QED
  BY <1>3, <1>4, <1>5, <1>6, <1>7, <1>8 DEF Edition

LEMMA FailureLives ==
  ASSUME IInv, LifeInv, ~ Overlap, ModelFails PROVE LifeInv'
<1> DEFINE v == [call.boot EXCEPT !.failed = TRUE]
<1>1. PICK kind \in Waits \ {"wave"} :
        Resume(kind, IF kind # "answer" THEN <<>> ELSE <<Put("boot", v)>>)
  BY DEF ModelFails
<1>2. CASE kind # "answer"
  <2>1. Resume(kind, <<>>)
    BY <1>1, <1>2
  <2> QED
    BY <2>1, NothingTells, LifeServe
<1>3. CASE kind = "answer"
  <2>1. Resume("answer", <<Put("boot", v)>>) /\ call # Null /\ call.kind = "answer"
    BY <1>1, <1>3 DEF Resume
  <2>2. call.boot \in Bootstrap /\ call.boot.status = "interviewing"
    BY <2>1 DEF IInv, TypeInv, CallShaped, Call
  <2>3. v.status = "interviewing"
    BY <2>2 DEF Bootstrap
  <2> HIDE DEF v
  <2>4. Part("answer", boot, v)
    BY <2>1, <2>3 DEF LifeInv, Waiting, Part
  <2> QED
    BY <2>1, <2>4, DraftTells, LifeServe
<1> QED
  BY <1>2, <1>3

\* One write, seen from the draft and from the document.
LEMMA WrittenLife ==
  ASSUME IInv, ~ Overlap, WriteNext
  PROVE  /\ pending # <<>> /\ handler' = handler /\ call' = call
         /\ \A file : Says(file, pending') \subseteq Says(file, pending)
         /\ \/ /\ boot' \in Says("boot", pending) /\ boot' \in Bootstrap
               /\ doc' = doc /\ \A v \in Says("boot", pending) : v = boot'
            \/ /\ doc' \in Says("doc", pending) /\ doc' \in Architecture
               /\ boot' = boot
            \/ UNCHANGED <<boot, doc>>
<1> DEFINE w == Head(pending)
<1>1. /\ pending \in Seq(Writing) /\ pending # <<>> /\ pending' = Tail(pending)
      /\ boot' = (IF w.file = "boot" THEN w.value ELSE boot)
      /\ doc' = (IF w.file = "doc" THEN w.value ELSE doc)
      /\ UNCHANGED <<handler, call>>
  BY DEF IInv, TypeInv, WriteNext
<1>2. /\ w \in Writing
      /\ \A file : /\ Says(file, pending') \subseteq Says(file, pending)
                   /\ w.file = file => w.value \in Says(file, pending)
  BY <1>1, HeadSays
<1> HIDE DEF w
<1>3. /\ w.file = "boot" => w.value \in Bootstrap
      /\ w.file = "doc" => w.value \in Architecture
  BY <1>2 DEF Writing
<1>4. \A u, v \in Says("boot", pending) : u = v
  BY DEF IInv, Settled, OneDraft
<1> QED
  BY <1>1, <1>2, <1>3, <1>4

LEMMA WriteLives ==
  ASSUME IInv, LifeInv, ~ Overlap, WriteNext PROVE LifeInv'
<1>1. /\ pending # <<>> /\ handler' = handler /\ call' = call
      /\ \A file : Says(file, pending') \subseteq Says(file, pending)
  BY WrittenLife
<1>2. Waiting'
  BY <1>1 DEF LifeInv, Waiting
<1>3. CASE /\ boot' \in Says("boot", pending) /\ doc' = doc
           /\ \A v \in Says("boot", pending) : v = boot'
  <2>1. \A v \in Says("boot", pending') : Part(handler, boot', v)
    BY <1>1, <1>3 DEF Part
  <2>2. \A v \in Says("doc", pending') : handler \in Edits \cup {"undo"}
    BY <1>1, <1>3 DEF LifeInv, Tells, Rest
  <2>3. \A v \in Says("doc", pending') : Rest(handler, boot', doc', v, pending')
    BY <2>2 DEF Rest
  <2>4. Tells(handler, boot', doc', pending')
    BY <2>1, <2>3 DEF Tells
  <2> QED
    BY <1>1, <1>2, <2>4 DEF LifeInv
<1>4. CASE doc' \in Says("doc", pending) /\ doc' \in Architecture /\ boot' = boot
  <2>1. \A v \in Says("boot", pending') : Part(handler, boot', v)
    BY <1>1, <1>4 DEF LifeInv, Tells
  <2>2. ASSUME NEW v \in Says("doc", pending')
        PROVE  Rest(handler, boot', doc', v, pending')
    <3>1. Rest(handler, boot, doc, v, pending) /\ Rest(handler, boot, doc, doc', pending)
      BY <1>1, <1>4 DEF LifeInv, Tells
    <3>2. CASE handler = "settle" /\ handler \notin Edits \cup {"undo"}
      <4>1. /\ Says("boot", pending) = {} /\ ~ HasModules(boot)
            /\ doc # Null /\ doc.mods # {}
            /\ Unsettled(v) = Unsettled(doc) /\ Unsettled(doc') = Unsettled(doc)
        BY <3>1, <3>2 DEF Rest
      <4>2. doc \in Architecture
        BY <4>1 DEF IInv, TypeInv
      <4>3. doc'.mods = doc.mods /\ doc' # Null
        <5>1. Unsettled(doc').mods = doc'.mods /\ Unsettled(doc).mods = doc.mods
          BY <1>4, <4>2 DEF Unsettled, Architecture
        <5> QED
          BY <1>4, <4>1, <5>1, NullIsNot
      <4> QED
        BY <1>1, <1>4, <3>2, <4>1, <4>3 DEF Rest
    <3>3. CASE handler # "settle" \/ handler \in Edits \cup {"undo"}
      BY <1>1, <1>4, <3>1, <3>3 DEF Rest
    <3> QED
      BY <3>2, <3>3
  <2>3. Tells(handler, boot', doc', pending')
    BY <2>1, <2>2 DEF Tells
  <2> QED
    BY <1>1, <1>2, <2>3 DEF LifeInv
<1>5. CASE UNCHANGED <<boot, doc>>
  <2>1. Tells(handler, boot, doc, pending')
    BY <1>1 DEF LifeInv, Tells, Rest
  <2> QED
    BY <1>1, <1>2, <1>5, <2>1 DEF LifeInv
<1> QED
  BY <1>3, <1>4, <1>5, WrittenLife

LEMMA LifeKeeps ==
  ASSUME IInv, LifeInv, ~ Overlap, [Next]_vars PROVE LifeInv'
<1>1. CASE Crash
  <2>1. UNCHANGED files /\ pending' = <<>> /\ call' = Null
    BY <1>1 DEF Crash
  <2> QED
    BY <2>1, NothingSays DEF LifeInv, Waiting, Tells
<1>2. CASE UNCHANGED vars
  BY <1>2 DEF vars, files, LifeInv, Waiting
<1> QED
  BY <1>1, <1>2, InterviewLives, GateLives, EditionLives, WorkLives,
     FailureLives, WriteLives DEF Next, Done

-----------------------------------------------------------------------------
\* What one write does to the phase and to what is shown.
LEMMA WriteIsAbstract ==
  ASSUME IInv, IInv', LifeInv, ~ Overlap, WriteNext
  PROVE  Lifecycle!Next
<1>1. Shown' \in Architecture
  <2>1. Resolve(boot', doc') \in Architecture \cup {Null}
    BY WrittenNext, ResolveType
  <2>2. Current' = Resolve(boot', doc')
    BY DEF Current
  <2> QED
    BY <2>1, <2>2, EmptyType DEF Shown
<1>2. handler' = handler
  BY WrittenLife
<1>3. CASE UNCHANGED <<boot, doc>>
  BY <1>3 DEF Lifecycle!Next, Lifecycle!Receive, Shown, Current, Resolve, HasModules
<1>4. CASE /\ boot' \in Says("boot", pending) /\ boot' \in Bootstrap /\ doc' = doc
           /\ boot' # boot
  <2>1. Part(handler, boot, boot') /\ boot' # Null
    BY <1>4, NullIsNot DEF LifeInv, Tells
  <2>2. boot # Null => boot \in Bootstrap
    BY DEF IInv, TypeInv
  <2>3. CASE handler \in {"begin", "start"} /\ boot'.status \in {"interviewing", "review"}
    BY <1>1, <1>2, <2>1, <2>3 DEF Lifecycle!Next, Lifecycle!Begin,
       Lifecycle!Does, Lifecycle!Interview
  <2>4. CASE /\ boot # Null /\ boot'.status \in {"interviewing", "review"}
             /\ \/ handler \in {"answer", "stream"} /\ boot.status = "interviewing"
                \/ handler = "revise" /\ boot.status = "review"
    BY <1>1, <1>2, <2>1, <2>4 DEF Lifecycle!Next, Lifecycle!Turn,
       Lifecycle!Does, Lifecycle!Interview
  <2>5. CASE /\ boot # Null /\ handler = "reopen"
             /\ boot.status \in {"ready", "initialized"} /\ boot'.status = "review"
    BY <1>1, <1>2, <2>1, <2>5 DEF Lifecycle!Next, Lifecycle!Reopen, Lifecycle!Does
  <2>6. CASE /\ boot # Null /\ handler = "confirm" /\ boot.status = "review"
             /\ PassesGate(boot.arch)
             /\ boot'.status = "ready" /\ boot'.arch = boot.arch
    <3>1. boot.arch.mods # {}
      BY <2>6 DEF PassesGate, Ready
    <3>2. Shown = boot.arch /\ Shown' = boot.arch
      <4>1. Current = boot.arch /\ Current' = boot.arch
        BY <2>1, <2>6, <3>1 DEF Current, Resolve, HasModules
      <4>2. boot.arch # Null
        BY <2>2, <2>6, NullIsNot DEF Bootstrap
      <4> QED
        BY <4>1, <4>2 DEF Shown
    <3> QED
      BY <1>2, <2>1, <2>6, <3>2 DEF Lifecycle!Next, Lifecycle!Confirm, Lifecycle!Does
  <2>7. CASE /\ boot # Null /\ handler = "finalize" /\ boot.status = "ready"
             /\ boot'.status = "initialized" /\ boot'.arch = boot.arch
    <3>1. Shown' = Shown
      BY <1>4, <2>1, <2>7 DEF Shown, Current, Resolve, HasModules
    <3> QED
      BY <1>2, <2>1, <2>7, <3>1 DEF Lifecycle!Next, Lifecycle!Build, Lifecycle!Does
  <2>8. CASE /\ boot # Null /\ handler \in Edits \cup {"undo"}
             /\ boot'.status = boot.status
    <3>1. handler \in {"edit", "node", "edge", "requirement", "undo"}
      BY <2>8 DEF Edits, Direct
    <3> QED
      BY <1>1, <1>2, <2>1, <2>8, <3>1 DEF Lifecycle!Next, Lifecycle!Edit, Lifecycle!Does
  <2>9. CASE /\ boot # Null /\ handler = "settle" /\ HasModules(boot)
             /\ boot'.status = boot.status
             /\ Unsettled(boot'.arch) = Unsettled(boot.arch)
    <3>1. boot.arch \in Architecture /\ boot'.arch \in Architecture
      BY <1>4, <2>2, <2>9 DEF Bootstrap
    <3>2. boot'.arch.mods = boot.arch.mods
      <4>1. /\ Unsettled(boot'.arch).mods = boot'.arch.mods
            /\ Unsettled(boot.arch).mods = boot.arch.mods
        BY <3>1 DEF Unsettled, Architecture
      <4> QED
        BY <2>9, <4>1
    <3>3. Current = boot.arch /\ Current' = boot'.arch
      BY <2>1, <2>9, <3>2 DEF Current, Resolve, HasModules
    <3>4. Shown = boot.arch /\ Shown' = boot'.arch
      BY <3>1, <3>3, NullIsNot DEF Shown
    <3> QED
      BY <1>1, <1>2, <2>1, <2>9, <3>4 DEF Lifecycle!Next, Lifecycle!Settle, Lifecycle!Does
  <2> QED
    BY <1>4, <2>1, <2>3, <2>4, <2>5, <2>6, <2>7, <2>8, <2>9 DEF Part
<1>5. CASE doc' \in Says("doc", pending) /\ doc' \in Architecture /\ boot' = boot
  <2>1. Rest(handler, boot, doc, doc', pending)
    BY <1>5 DEF LifeInv, Tells
  <2>2. CASE handler \in Edits \cup {"undo"}
    <3>1. handler \in {"edit", "node", "edge", "requirement", "undo"}
      BY <2>2 DEF Edits, Direct
    <3> QED
      BY <1>1, <1>2, <1>5, <3>1 DEF Lifecycle!Next, Lifecycle!Edit, Lifecycle!Does
  <2>3. CASE handler = "finalize" /\ boot # Null /\ boot.status = "ready"
             /\ doc' = boot.arch
    <3>1. CASE HasModules(boot)
      <4>1. Current' = Current
        BY <1>5, <3>1 DEF Current, Resolve, HasModules
      <4> QED
        BY <1>5, <4>1 DEF Lifecycle!Next, Lifecycle!Receive, Shown
    <3>2. CASE ~ HasModules(boot)
      <4>1. doc'.mods = {}
        BY <2>3, <3>2 DEF HasModules
      <4>2. Current' = Null
        BY <1>5, <3>2, <4>1 DEF Current, Resolve, HasModules
      <4>3. Shown' = NoArchitecture
        BY <4>2 DEF Shown
      <4> QED
        BY <1>2, <1>5, <2>3, <4>3 DEF Lifecycle!Next, Lifecycle!Discard, Lifecycle!Does
    <3> QED
      BY <3>1, <3>2
  <2>4. CASE /\ handler = "settle" /\ ~ HasModules(boot) /\ doc # Null
             /\ doc.mods # {} /\ Unsettled(doc') = Unsettled(doc)
    <3>1. doc \in Architecture
      BY <2>4 DEF IInv, TypeInv
    <3>2. doc'.mods = doc.mods /\ doc' # Null
      <4>1. Unsettled(doc').mods = doc'.mods /\ Unsettled(doc).mods = doc.mods
        BY <1>5, <3>1 DEF Unsettled, Architecture
      <4> QED
        BY <1>5, <2>4, <4>1, NullIsNot
    <3>3. Current = doc /\ Current' = doc'
      BY <1>5, <2>4, <3>2 DEF Current, Resolve, HasModules
    <3>4. Shown = doc /\ Shown' = doc'
      BY <2>4, <3>2, <3>3 DEF Shown
    <3> QED
      BY <1>1, <1>2, <1>5, <2>4, <3>4 DEF Lifecycle!Next, Lifecycle!Settle, Lifecycle!Does
  <2> QED
    BY <2>1, <2>2, <2>3, <2>4 DEF Rest
<1> QED
  BY <1>3, <1>4, <1>5, WrittenLife

LEMMA StepIsAbstract ==
  ASSUME IInv, IInv', LifeInv, ~ Overlap, [Next]_vars
  PROVE  [Lifecycle!Next]_(Lifecycle!vars)
<1>1. CASE WriteNext
  BY <1>1, WriteIsAbstract
<1>2. CASE ~ WriteNext
  <2>1. UNCHANGED <<boot, doc>>
    BY <1>2, OthersWriteNothing
  <2> QED
    BY <2>1 DEF Lifecycle!Next, Lifecycle!Receive, Shown, Current, Resolve, HasModules
<1> QED
  BY <1>1, <1>2

(* Each request does its own part of the life of a project and no other's, *)
(* whatever the model answers and wherever the server stops: an edit or an *)
(* undo, in whichever of its two files, leaves the phase where it is; a    *)
(* project that is built shows what was confirmed, or what the user's own  *)
(* edits since have made of it.                                            *)
THEOREM LifeOfAProject == ASSUME ~ Overlap PROVE Spec => ProjectSpec
<1>1. Init => Lifecycle!Init
  <2> SUFFICES ASSUME Init PROVE Lifecycle!Init
    OBVIOUS
  <2>1. TypeInv /\ handler = "none"
    BY InitKeeps DEF IInv, Init
  <2> QED
    BY <2>1, ShownType DEF Lifecycle!Init, Lifecycle!Phase
<1>2. Init => LifeInv
  BY NothingSays DEF Init, LifeInv, Waiting, Tells
<1>3. IInv /\ LifeInv /\ [Next]_vars => LifeInv'
  BY LifeKeeps
<1>4. IInv /\ IInv' /\ LifeInv /\ [Next]_vars => [Lifecycle!Next]_(Lifecycle!vars)
  BY StepIsAbstract
<1> QED
  BY <1>1, <1>2, <1>3, <1>4, Inductive, PTL DEF Spec, ProjectSpec, Lifecycle!Spec

-----------------------------------------------------------------------------
(* What an edge leads to, however indirectly.                            *)

\* A search that has not found all it can find has found another module in
\* each of its rounds.
LEMMA SearchGrows ==
  ASSUME NEW E \in SUBSET Edge, NEW S \in SUBSET Module, NEW f, Search(E, S, f)
  PROVE  \A n \in 0..Cardinality(Module) :
           Closed(E, f[n]) \/ Cardinality(f[n]) >= n
<1> DEFINE N == Cardinality(Module)
           T == {n \in 0..N : Closed(E, f[n]) \/ Cardinality(f[n]) >= n}
<1>1. /\ N \in Nat
      /\ \A X \in SUBSET Module : IsFiniteSet(X) /\ Cardinality(X) \in Nat
  BY GraphAssumption, FS_CardinalityType, FS_Subset
<1>2. \A n \in 0..N : f[n] \in SUBSET Module
  BY DEF Search
<1>3. 0 \in T
  BY <1>1, <1>2
<1>4. ASSUME NEW n \in 1..N, n - 1 \in T PROVE n \in T
  <2>1. n \in 0..N /\ n - 1 \in 0..N
    BY <1>1
  <2> DEFINE X == f[n - 1]
             Y == f[n]
  <2>2. Y = X \cup {e.to : e \in {x \in E : x.from \in X}}
    BY DEF Search
  <2>3. X \in SUBSET Module /\ Y \in SUBSET Module
    BY <1>2, <2>1
  <2>4. Closed(E, X) \/ Cardinality(X) >= n - 1
    BY <1>4
  <2> HIDE DEF X, Y
  <2>5. CASE Closed(E, X)
    <3>1. Y = X
      BY <2>2, <2>5 DEF Closed
    <3> QED
      BY <2>1, <2>5, <3>1 DEF Y
  <2>6. CASE ~ Closed(E, X) /\ Cardinality(X) >= n - 1
    <3>1. PICK x \in Y : x \notin X
      BY <2>2, <2>6 DEF Closed
    <3>2. X \cup {x} \in SUBSET Y /\ X \cup {x} \in SUBSET Module
      BY <2>2, <2>3, <3>1
    <3>3. /\ Cardinality(X \cup {x}) = Cardinality(X) + 1
          /\ Cardinality(X \cup {x}) <= Cardinality(Y)
      BY <1>1, <2>3, <3>1, <3>2, FS_AddElement, FS_Subset
    <3>4. Cardinality(Y) >= n
      BY <1>1, <2>1, <2>3, <2>6, <3>2, <3>3
    <3> QED
      BY <2>1, <3>4 DEF Y
  <2> QED
    BY <2>4, <2>5, <2>6
<1>5. \A n \in 0..N : n \in T
  <2> DEFINE u == [n \in 0..N |-> n]
  <2>1. u[0] \in T /\ \A n \in 1..N : u[n - 1] \in T => u[n] \in T
    <3> HIDE DEF T
    <3> QED BY <1>1, <1>3, <1>4
  <2>2. \A n \in 0..N : u[n] \in T
    <3> HIDE DEF T, u, N
    <3> QED BY <1>1, <2>1, StaysIn DEF N
  <2> QED
    BY <2>2
<1> QED
  BY <1>5

\* What is reached is the least set that has the start and is closed.
LEMMA ReachedIsLeast ==
  ASSUME NEW E \in SUBSET Edge, NEW S \in SUBSET Module
  PROVE  /\ S \subseteq ReachedFrom(E, S)
         /\ Closed(E, ReachedFrom(E, S))
         /\ \A T : S \subseteq T /\ Closed(E, T) => ReachedFrom(E, S) \subseteq T
<1> DEFINE N == Cardinality(Module)
<1>1. PICK f : Search(E, S, f) /\ ReachedFrom(E, S) = f[N]
  BY SearchExists
<1>2. N \in Nat /\ N \in 0..N /\ 0 \in 0..N
  BY GraphAssumption, FS_CardinalityType
<1>3. Closed(E, f[N])
  <2>1. Closed(E, f[N]) \/ Cardinality(f[N]) >= N
    BY <1>1, <1>2, SearchGrows
  <2>2. f[N] \in SUBSET Module
    BY <1>1, <1>2 DEF Search
  <2>3. CASE Cardinality(f[N]) >= N
    <3>1. /\ Cardinality(f[N]) <= Cardinality(Module)
          /\ Cardinality(Module) = Cardinality(f[N]) => Module = f[N]
          /\ Cardinality(f[N]) \in Nat
      BY <2>2, GraphAssumption, FS_Subset, FS_CardinalityType
    <3>2. f[N] = Module
      BY <1>2, <2>3, <3>1
    <3> QED
      BY <3>2 DEF Closed, Edge
  <2> QED
    BY <2>1, <2>3
<1> HIDE DEF N
<1>4. S \subseteq f[N]
  <2> DEFINE D == {X \in SUBSET Module : S \subseteq X}
  <2>1. f[0] \in D
    BY <1>1 DEF Search
  <2>2. \A n \in 1..N : f[n - 1] \in D => f[n] \in D
    <3> TAKE n \in 1..N
    <3>1. f[n] \in SUBSET Module /\ f[n - 1] \subseteq f[n]
      BY <1>1, <1>2 DEF Search, N
    <3> QED
      BY <3>1
  <2>3. f[N] \in D
    <3> HIDE DEF D
    <3> QED BY <1>2, <2>1, <2>2, StaysIn
  <2> QED
    BY <2>3
<1>5. ASSUME NEW T, S \subseteq T, Closed(E, T) PROVE f[N] \subseteq T
  <2> DEFINE D == SUBSET T
  <2>1. f[0] \in D
    BY <1>1, <1>5 DEF Search
  <2>2. \A n \in 1..N : f[n - 1] \in D => f[n] \in D
    <3> TAKE n \in 1..N
    <3> HAVE f[n - 1] \in D
    <3>1. f[n] = f[n - 1] \cup {e.to : e \in {x \in E : x.from \in f[n - 1]}}
      BY <1>1 DEF Search, N
    <3> QED
      BY <1>5, <3>1 DEF Closed
  <2>3. f[N] \in D
    <3> HIDE DEF D
    <3> QED BY <1>2, <2>1, <2>2, StaysIn
  <2> QED
    BY <2>3
<1> QED
  BY <1>1, <1>3, <1>4, <1>5

LEMMA ReachedWithin ==
  ASSUME NEW E \in SUBSET Edge, NEW F \in SUBSET Edge, NEW S \in SUBSET Module,
         \A e \in E : Reaches(F, e.from, e.to)
  PROVE  ReachedFrom(E, S) \subseteq ReachedFrom(F, S)
<1> DEFINE R == ReachedFrom(F, S)
<1>1. S \subseteq R /\ Closed(F, R)
  BY ReachedIsLeast
<1>2. Closed(E, R)
  <2> SUFFICES ASSUME NEW e \in E, e.from \in R PROVE e.to \in R
    BY DEF Closed
  <2>1. {e.from} \in SUBSET Module
    BY DEF Edge
  <2>2. ReachedFrom(F, {e.from}) \subseteq R
    <3>1. {e.from} \subseteq R
      OBVIOUS
    <3> HIDE DEF R
    <3> QED BY <1>1, <2>1, <3>1, ReachedIsLeast
  <2> QED
    BY <2>2 DEF Reaches
<1> HIDE DEF R
<1>3. ReachedFrom(E, S) \subseteq R
  BY <1>1, <1>2, ReachedIsLeast
<1> QED
  BY <1>3 DEF R

\* Paths: of no edge, of one edge, of two paths, of more edges.
LEMMA Paths ==
  ASSUME NEW E \in SUBSET Edge
  PROVE  /\ \A m \in Module : Reaches(E, m, m)
         /\ \A e \in E : Reaches(E, e.from, e.to)
         /\ \A m, n, o \in Module :
              Reaches(E, m, n) /\ Reaches(E, n, o) => Reaches(E, m, o)
         /\ \A F \in SUBSET Edge : E \subseteq F =>
              \A m, n \in Module : Reaches(E, m, n) => Reaches(F, m, n)
<1>1. ASSUME NEW m \in Module PROVE Reaches(E, m, m)
  BY ReachedIsLeast DEF Reaches
<1>2. ASSUME NEW F \in SUBSET Edge, NEW e \in F PROVE Reaches(F, e.from, e.to)
  <2>1. e.from \in Module
    BY DEF Edge
  <2>2. e.from \in ReachedFrom(F, {e.from}) /\ Closed(F, ReachedFrom(F, {e.from}))
    BY <2>1, ReachedIsLeast
  <2> QED
    BY <2>2 DEF Reaches, Closed
<1>3. ASSUME NEW m \in Module, NEW n \in Module, NEW o \in Module,
             Reaches(E, m, n), Reaches(E, n, o)
      PROVE  Reaches(E, m, o)
  <2> DEFINE R == ReachedFrom(E, {m})
  <2>1. Closed(E, R) /\ {n} \subseteq R
    BY <1>3, ReachedIsLeast DEF Reaches
  <2> HIDE DEF R
  <2>2. ReachedFrom(E, {n}) \subseteq R
    BY <2>1, ReachedIsLeast
  <2> QED
    BY <1>3, <2>2 DEF Reaches, R
<1>4. ASSUME NEW F \in SUBSET Edge, E \subseteq F,
             NEW m \in Module, NEW n \in Module, Reaches(E, m, n)
      PROVE  Reaches(F, m, n)
  <2>1. \A e \in E : Reaches(F, e.from, e.to)
    BY <1>2, <1>4
  <2>2. ReachedFrom(E, {m}) \subseteq ReachedFrom(F, {m})
    BY <2>1, ReachedWithin
  <2> QED
    BY <1>4, <2>2 DEF Reaches
<1> QED
  BY <1>1, <1>2, <1>3, <1>4

\* A path that leads anywhere begins with an edge.
LEMMA FirstEdge ==
  ASSUME NEW E \in SUBSET Edge, NEW m \in Module, NEW n \in Module, m # n,
         Reaches(E, m, n)
  PROVE  \E e \in E : e.from = m /\ Reaches(E, e.to, n)
<1> DEFINE T == {m} \cup
               UNION {ReachedFrom(E, {e.to}) : e \in {x \in E : x.from = m}}
<1>1. \A e \in E : e.to \in Module /\ e.from \in Module
  BY DEF Edge
<1>2. Closed(E, T)
  <2> SUFFICES ASSUME NEW e \in E, e.from \in T PROVE e.to \in T
    BY DEF Closed
  <2>1. CASE e.from = m
    <3>1. e.to \in ReachedFrom(E, {e.to})
      BY <1>1, ReachedIsLeast
    <3> QED
      BY <2>1, <3>1
  <2>2. ASSUME NEW f \in E, f.from = m, e.from \in ReachedFrom(E, {f.to})
        PROVE  e.to \in T
    <3>1. Closed(E, ReachedFrom(E, {f.to}))
      BY <1>1, ReachedIsLeast
    <3>2. e.to \in ReachedFrom(E, {f.to})
      BY <2>2, <3>1 DEF Closed
    <3> QED
      BY <2>2, <3>2
  <2> QED
    BY <2>1, <2>2
<1>3. {m} \subseteq T
  OBVIOUS
<1> HIDE DEF T
<1>4. n \in T
  BY <1>2, <1>3, ReachedIsLeast DEF Reaches
<1> QED
  BY <1>4 DEF T, Reaches

\* Without cycles, nobody is reached from where he leads to.
LEMMA OneWay ==
  ASSUME NEW E \in SUBSET Edge, ~ Cyclic(E), NEW m \in Module, NEW n \in Module,
         Reaches(E, m, n), Reaches(E, n, m)
  PROVE  m = n
<1> SUFFICES ASSUME m # n PROVE FALSE
  OBVIOUS
<1>1. PICK e \in E : e.from = m /\ Reaches(E, e.to, n)
  BY FirstEdge
<1>2. e.to \in Module
  BY DEF Edge
<1>3. Reaches(E, e.to, m)
  BY <1>1, <1>2, Paths
<1> QED
  BY <1>1, <1>3 DEF Cyclic

LEMMA AcyclicPart ==
  ASSUME NEW E \in SUBSET Edge, NEW F \in SUBSET E, ~ Cyclic(E)
  PROVE  ~ Cyclic(F)
<1> SUFFICES ASSUME NEW e \in F, Reaches(F, e.to, e.from) PROVE FALSE
  BY DEF Cyclic
<1>1. e.to \in Module /\ e.from \in Module /\ F \in SUBSET Edge
  BY DEF Edge
<1>2. Reaches(E, e.to, e.from)
  BY <1>1, Paths
<1> QED
  BY <1>2 DEF Cyclic

\* A path with one more edge to take either does without it, or is a path to
\* it and one from it.
LEMMA OneMoreEdge ==
  ASSUME NEW E \in SUBSET Edge, NEW e \in Edge, NEW m \in Module, NEW n \in Module,
         Reaches(E \cup {e}, m, n)
  PROVE  \/ Reaches(E, m, n)
         \/ Reaches(E, m, e.from) /\ Reaches(E, e.to, n)
<1> DEFINE A == ReachedFrom(E, {m})
           B == ReachedFrom(E, {e.to})
           F == E \cup {e}
<1>1. e.to \in Module /\ e.from \in Module /\ F \in SUBSET Edge
  BY DEF Edge
<1>2. /\ m \in A /\ Closed(E, A)
      /\ e.to \in B /\ Closed(E, B)
  BY <1>1, ReachedIsLeast
<1>3. CASE e.from \in A
  <2>1. {m} \subseteq A \cup B /\ Closed(F, A \cup B)
    BY <1>2 DEF Closed
  <2> HIDE DEF F, A, B
  <2>2. ReachedFrom(F, {m}) \subseteq A \cup B
    BY <1>1, <2>1, ReachedIsLeast
  <2> QED
    BY <1>3, <2>2 DEF F, A, B, Reaches
<1>4. CASE e.from \notin A
  <2>1. {m} \subseteq A /\ Closed(F, A)
    BY <1>2, <1>4 DEF Closed
  <2> HIDE DEF F, A, B
  <2>2. ReachedFrom(F, {m}) \subseteq A
    BY <1>1, <2>1, ReachedIsLeast
  <2> QED
    BY <2>2 DEF F, A, Reaches
<1> QED
  BY <1>3, <1>4

LEMMA EdgeWithoutCycle ==
  ASSUME NEW E \in SUBSET Edge, NEW e \in Edge, ~ Cyclic(E),
         ~ Reaches(E, e.to, e.from)
  PROVE  ~ Cyclic(E \cup {e})
<1> SUFFICES ASSUME NEW f \in E \cup {e}, Reaches(E \cup {e}, f.to, f.from)
             PROVE  FALSE
  BY DEF Cyclic
<1>1. /\ e.to \in Module /\ e.from \in Module
      /\ f.to \in Module /\ f.from \in Module
  BY DEF Edge
<1>2. \/ Reaches(E, f.to, f.from)
      \/ Reaches(E, f.to, e.from) /\ Reaches(E, e.to, f.from)
  BY <1>1, OneMoreEdge
<1>3. CASE f = e
  BY <1>2, <1>3
<1>4. CASE f \in E
  <2>1. Reaches(E, f.to, e.from) /\ Reaches(E, e.to, f.from)
    BY <1>2, <1>4 DEF Cyclic
  <2>2. Reaches(E, f.from, f.to)
    BY <1>4, Paths
  <2>3. Reaches(E, e.to, e.from)
    BY <1>1, <2>1, <2>2, Paths
  <2> QED
    BY <2>3
<1> QED
  BY <1>3, <1>4

\* Who leads to n is found from n along the edges reversed.
LEMMA BackFrom ==
  ASSUME NEW E \in SUBSET Edge, NEW S \in SUBSET Module,
         NEW m \in Module, NEW n \in S, Reaches(E, m, n)
  PROVE  m \in Dependents(E, S)
<1> DEFINE R == Dependents(E, S)
           T == Module \ R
<1>1. Reversed(E) \in SUBSET Edge
  BY ReversedIsEdges
<1>2. S \subseteq R /\ Closed(Reversed(E), R)
  BY <1>1, ReachedIsLeast DEF Dependents
<1> HIDE DEF R
<1>3. Closed(E, T)
  <2> SUFFICES ASSUME NEW e \in E, e.from \in T, e.to \notin T PROVE FALSE
    BY DEF Closed
  <2> DEFINE f == [from |-> e.to, to |-> e.from, kind |-> e.kind]
  <2>1. f \in Reversed(E) /\ f.from = e.to /\ f.to = e.from
    BY DEF Reversed
  <2> HIDE DEF f
  <2>2. e.to \in R
    BY DEF Edge
  <2> QED
    BY <1>2, <2>1, <2>2 DEF Closed
<1>4. SUFFICES ASSUME m \notin R PROVE FALSE
  BY DEF R
<1>5. {m} \subseteq T
  BY <1>4
<1> HIDE DEF T
<1>6. n \in T
  BY <1>3, <1>5, ReachedIsLeast DEF Reaches
<1> QED
  BY <1>2, <1>6 DEF T

\* What depends along E depends along F, if F leads wherever E leads.
LEMMA DependentsWithin ==
  ASSUME NEW E \in SUBSET Edge, NEW F \in SUBSET Edge, NEW S \in SUBSET Module,
         \A e \in E : Reaches(F, e.from, e.to)
  PROVE  Dependents(E, S) \subseteq Dependents(F, S)
<1>1. Reversed(E) \in SUBSET Edge /\ Reversed(F) \in SUBSET Edge
  BY ReversedIsEdges
<1>2. ASSUME NEW e \in Reversed(E)
      PROVE  Reaches(Reversed(F), e.from, e.to)
  <2>1. PICK f \in E : e = [from |-> f.to, to |-> f.from, kind |-> f.kind]
    BY <1>2 DEF Reversed
  <2>2. /\ e.from = f.to /\ e.to = f.from
        /\ f.to \in Module /\ f.from \in Module
    BY <2>1 DEF Edge
  <2>3. f.from \in Dependents(F, {f.to})
    BY <2>2, BackFrom
  <2> QED
    BY <2>2, <2>3 DEF Dependents, Reaches
<1> QED
  BY <1>1, <1>2, ReachedWithin DEF Dependents

-----------------------------------------------------------------------------
(* Breaking the cycles of a build order.                                 *)

LEMMA KindNumbers ==
  /\ \A k \in Kind : Alphabetic[k] \in Nat
  /\ \A k, l \in Kind : Alphabetic[k] = Alphabetic[l] => k = l
<1>1. Kind = {"blocks", "data", "event", "extends", "uses"}
  BY DEF Kind, Alphabetic
<1>2. /\ Alphabetic["blocks"] = 0 /\ Alphabetic["data"] = 1
      /\ Alphabetic["event"] = 2 /\ Alphabetic["extends"] = 3
      /\ Alphabetic["uses"] = 4
  BY DEF Alphabetic
<1> QED
  BY <1>1, <1>2

LEMMA EdgeNumbers ==
  /\ \A e \in Edge : /\ e.from \in Nat /\ e.to \in Nat
                     /\ Alphabetic[e.kind] \in Nat
  /\ \A e, f \in Edge :
       e.from = f.from /\ e.to = f.to /\ Alphabetic[e.kind] = Alphabetic[f.kind]
         => e = f
<1>1. \A e \in Edge : e.from \in Nat /\ e.to \in Nat /\ e.kind \in Kind
  BY GraphAssumption DEF Edge
<1>2. \A e, f \in Edge :
        e.from = f.from /\ e.to = f.to /\ e.kind = f.kind => e = f
  BY DEF Edge
<1>3. \A e \in Edge : Alphabetic[e.kind] \in Nat
  BY <1>1, KindNumbers
<1>4. ASSUME NEW e \in Edge, NEW f \in Edge, e.from = f.from, e.to = f.to,
             Alphabetic[e.kind] = Alphabetic[f.kind]
      PROVE  e = f
  <2>1. e.kind = f.kind
    BY <1>1, <1>4, KindNumbers
  <2> QED
    BY <1>2, <1>4, <2>1
<1> QED
  BY <1>1, <1>3, <1>4

\* The order of the edges is strict and total.
LEMMA EdgesAreOrdered ==
  /\ \A e \in Edge : ~ EdgeLess(e, e)
  /\ \A e, f \in Edge : ~ (EdgeLess(e, f) /\ EdgeLess(f, e))
  /\ \A e, f \in Edge : e # f => EdgeLess(e, f) \/ EdgeLess(f, e)
  /\ \A e, f, g \in Edge : EdgeLess(e, f) /\ EdgeLess(f, g) => EdgeLess(e, g)
<1>1. \A e \in Edge : /\ e.from \in Nat /\ e.to \in Nat
                      /\ Alphabetic[e.kind] \in Nat
  BY EdgeNumbers
<1>2. \A e, f \in Edge :
        e.from = f.from /\ e.to = f.to /\ Alphabetic[e.kind] = Alphabetic[f.kind]
          => e = f
  BY EdgeNumbers
<1>3. \A e \in Edge : ~ EdgeLess(e, e)
  BY <1>1 DEF EdgeLess
<1>4. \A e, f \in Edge : ~ (EdgeLess(e, f) /\ EdgeLess(f, e))
  BY <1>1 DEF EdgeLess
<1>5. ASSUME NEW e \in Edge, NEW f \in Edge, ~ EdgeLess(e, f), ~ EdgeLess(f, e)
      PROVE  e = f
  <2>1. /\ e.from = f.from /\ e.to = f.to
        /\ Alphabetic[e.kind] = Alphabetic[f.kind]
    BY <1>1, <1>5 DEF EdgeLess
  <2> QED
    BY <1>2, <2>1
<1>6. \A e, f, g \in Edge : EdgeLess(e, f) /\ EdgeLess(f, g) => EdgeLess(e, g)
  BY <1>1 DEF EdgeLess
<1> QED
  BY <1>3, <1>4, <1>5, <1>6

LEMMA FirstOfEdges ==
  ASSUME NEW E \in SUBSET Edge, E # {}
  PROVE  \E e \in E : \A f \in E : ~ EdgeLess(f, e)
<1>1. \A e \in Edge : /\ e.from \in Nat /\ e.to \in Nat
                      /\ Alphabetic[e.kind] \in Nat
  BY EdgeNumbers
<1> DEFINE From == {e.from : e \in E}
<1>2. From \in SUBSET Nat /\ From # {}
  BY <1>1
<1>3. PICK m \in From : \A n \in From : m <= n
  <2> HIDE DEF From
  <2> QED BY <1>2, Least
<1> DEFINE To == {e.to : e \in {x \in E : x.from = m}}
<1>4. To \in SUBSET Nat /\ To # {}
  BY <1>1, <1>3
<1>5. PICK n \in To : \A o \in To : n <= o
  <2> HIDE DEF To
  <2> QED BY <1>4, Least
<1> DEFINE Rank == {Alphabetic[e.kind] : e \in {x \in E : x.from = m /\ x.to = n}}
<1>6. Rank \in SUBSET Nat /\ Rank # {}
  BY <1>1, <1>5
<1>7. PICK k \in Rank : \A l \in Rank : k <= l
  <2> HIDE DEF Rank
  <2> QED BY <1>6, Least
<1>8. PICK e \in E : e.from = m /\ e.to = n /\ Alphabetic[e.kind] = k
  BY <1>7
<1>9. ASSUME NEW f \in E, EdgeLess(f, e) PROVE FALSE
  <2>1. m <= f.from /\ m \in Nat
    BY <1>1, <1>3, <1>8
  <2>2. f.from = m => n <= f.to /\ n \in Nat
    BY <1>1, <1>5, <1>8
  <2>3. f.from = m /\ f.to = n => k <= Alphabetic[f.kind] /\ k \in Nat
    BY <1>1, <1>7, <1>8
  <2> HIDE DEF From, To, Rank
  <2>4. /\ e \in Edge /\ f \in Edge
        /\ f.from \in Nat /\ f.to \in Nat /\ Alphabetic[f.kind] \in Nat
    BY <1>1
  <2> QED
    BY <1>8, <1>9, <2>1, <2>2, <2>3, <2>4 DEF EdgeLess
<1> QED
  BY <1>9

LEMMA EdgesAreFinite == ASSUME NEW E \in SUBSET Edge PROVE IsFiniteSet(E)
<1>1. IsFiniteSet(Module) /\ IsFiniteSet(Kind)
  <2>1. Kind = {"blocks", "data", "event", "extends", "uses"}
    BY DEF Kind, Alphabetic
  <2> QED
    <3> DEFINE K1 == {} \cup {"blocks"}
               K2 == K1 \cup {"data"}
               K3 == K2 \cup {"event"}
               K4 == K3 \cup {"extends"}
               K5 == K4 \cup {"uses"}
    <3>1. IsFiniteSet(K1)
      BY FS_EmptySet, FS_AddElement
    <3>2. IsFiniteSet(K2)
      <4> HIDE DEF K1
      <4> QED BY <3>1, FS_AddElement
    <3>3. IsFiniteSet(K3)
      <4> HIDE DEF K2
      <4> QED BY <3>2, FS_AddElement
    <3>4. IsFiniteSet(K4)
      <4> HIDE DEF K3
      <4> QED BY <3>3, FS_AddElement
    <3>5. IsFiniteSet(K5)
      <4> HIDE DEF K4
      <4> QED BY <3>4, FS_AddElement
    <3>6. Kind = K5
      BY <2>1
    <3> HIDE DEF K5
    <3> QED
      BY <3>5, <3>6, GraphAssumption
<1> DEFINE P == Module \X Module
           Q == P \X Kind
           r == [x \in Q |-> [from |-> x[1][1], to |-> x[1][2], kind |-> x[2]]]
<1>2. IsFiniteSet(P)
  BY <1>1, FS_Product
<1>3. IsFiniteSet(Q)
  <2> HIDE DEF P
  <2> QED BY <1>1, <1>2, FS_Product
<1>4. r \in Surjection(Q, Edge)
  <2>1. r \in [Q -> Edge]
    BY DEF Edge
  <2>2. ASSUME NEW e \in Edge PROVE \E x \in Q : r[x] = e
    <3> DEFINE x == <<<<e.from, e.to>>, e.kind>>
    <3>1. x \in Q
      BY DEF Edge
    <3>2. r[x] = [from |-> e.from, to |-> e.to, kind |-> e.kind]
      BY <3>1
    <3>3. r[x] = e
      BY <3>2 DEF Edge
    <3> QED
      BY <3>1, <3>3
  <2> HIDE DEF r, Q
  <2> QED
    BY <2>1, <2>2 DEF Surjection
<1>5. IsFiniteSet(Edge)
  <2> HIDE DEF r, Q
  <2> QED BY <1>3, <1>4, FS_Surjection
<1> QED
  BY <1>5, FS_Subset

\* K holds of D what an edge of K does not close a cycle with.
Before(K, e) == {f \in K : EdgeLess(f, e)}
Solves(K, D) ==
  /\ K \subseteq D
  /\ \A e \in D : e \in K <=> ~ Reaches(Before(K, e), e.to, e.from)

LEMMA SolutionExists ==
  ASSUME NEW B \in SUBSET Edge
  PROVE  \E K : Solves(K, B) /\ ~ Cyclic(K)
<1> DEFINE N == Cardinality(B)
           Down(D) == \A e \in D, f \in B : EdgeLess(f, e) => f \in D
           T == {n \in Nat : n <= N =>
                   \E D \in SUBSET B : /\ Down(D) /\ Cardinality(D) = n
                                       /\ \E K : Solves(K, D) /\ ~ Cyclic(K)}
<1>1. IsFiniteSet(B) /\ N \in Nat
  BY EdgesAreFinite, FS_CardinalityType
<1>2. \A D \in SUBSET B : IsFiniteSet(D) /\ Cardinality(D) \in Nat
  BY <1>1, FS_Subset, FS_CardinalityType
<1>3. 0 \in T
  <2>1. Solves({}, {}) /\ ~ Cyclic({})
    BY DEF Solves, Cyclic
  <2>2. Cardinality({}) = 0
    BY FS_EmptySet
  <2>3. Down({}) /\ {} \in SUBSET B
    OBVIOUS
  <2> HIDE DEF Down
  <2> QED
    BY <2>1, <2>2, <2>3
<1>4. ASSUME NEW n \in Nat, n \in T PROVE n + 1 \in T
  <2> SUFFICES ASSUME n + 1 <= N
               PROVE  \E D \in SUBSET B :
                        /\ Down(D) /\ Cardinality(D) = n + 1
                        /\ \E K : Solves(K, D) /\ ~ Cyclic(K)
    OBVIOUS
  <2>1. PICK D \in SUBSET B : /\ Down(D) /\ Cardinality(D) = n
                              /\ \E K : Solves(K, D) /\ ~ Cyclic(K)
    BY <1>1, <1>4
  <2>2. PICK K : Solves(K, D) /\ ~ Cyclic(K)
    BY <2>1
  <2>3. B \ D # {} /\ B \ D \in SUBSET Edge
    BY <1>1, <2>1
  <2>4. PICK e \in B \ D : \A f \in B \ D : ~ EdgeLess(f, e)
    BY <2>3, FirstOfEdges
  <2> DEFINE D2 == D \cup {e}
             K2 == IF Reaches(K, e.to, e.from) THEN K ELSE K \cup {e}
  <2>5. /\ K \subseteq D /\ K \in SUBSET Edge /\ e \in Edge /\ e \notin K
        /\ \A f \in D : f \in Edge
    BY <2>2, <2>4 DEF Solves
  <2>6. \A f \in D : EdgeLess(f, e) /\ ~ EdgeLess(e, f)
    <3> SUFFICES ASSUME NEW f \in D PROVE EdgeLess(f, e) /\ ~ EdgeLess(e, f)
      OBVIOUS
    <3>1. ~ EdgeLess(e, f)
      BY <2>1, <2>4
    <3> QED
      BY <2>4, <2>5, <3>1, EdgesAreOrdered
  <2>7. Down(D2)
    BY <2>1, <2>4, <2>5
  <2>8. Cardinality(D2) = n + 1
    BY <1>2, <2>1, <2>4, FS_AddElement
  <2>9. K2 \subseteq D2 /\ ~ Cyclic(K2)
    <3>1. CASE Reaches(K, e.to, e.from)
      BY <2>2, <2>5, <3>1
    <3>2. CASE ~ Reaches(K, e.to, e.from)
      <4>1. ~ Cyclic(K \cup {e})
        BY <2>2, <2>5, <3>2, EdgeWithoutCycle
      <4> QED
        BY <2>5, <3>2, <4>1
    <3> QED
      BY <3>1, <3>2
  <2>10. \A f \in D2 : Before(K2, f) = Before(K, f)
    <3>1. \A f \in D : Before(K2, f) = Before(K, f)
      BY <2>6 DEF Before
    <3>2. Before(K2, e) = Before(K, e)
      BY <2>5, EdgesAreOrdered DEF Before
    <3> QED
      BY <3>1, <3>2
  <2>11. Before(K, e) = K
    BY <2>5, <2>6 DEF Before
  <2>12. Solves(K2, D2)
    <3>1. \A f \in D : f \in K2 <=> f \in K
      BY <2>4
    <3>2. ASSUME NEW f \in D
          PROVE  f \in K2 <=> ~ Reaches(Before(K2, f), f.to, f.from)
      <4>1. Before(K2, f) = Before(K, f)
        BY <2>10
      <4> HIDE DEF K2
      <4> QED BY <2>2, <3>1, <4>1 DEF Solves
    <3>3. e \in K2 <=> ~ Reaches(Before(K2, e), e.to, e.from)
      <4>1. Before(K2, e) = K
        BY <2>10, <2>11
      <4>2. e \in K2 <=> ~ Reaches(K, e.to, e.from)
        BY <2>5
      <4> HIDE DEF K2
      <4> QED BY <4>1, <4>2
    <3> HIDE DEF K2
    <3> QED
      BY <2>9, <3>2, <3>3 DEF Solves
  <2> HIDE DEF K2, Down
  <2>13. D2 \in SUBSET B
    BY <2>4
  <2> HIDE DEF D2
  <2> QED
    BY <2>7, <2>8, <2>9, <2>12, <2>13
<1>5. N \in T
  <2> HIDE DEF T, N
  <2> QED BY <1>1, <1>3, <1>4, Induction
<1>6. PICK D \in SUBSET B : /\ Cardinality(D) = N
                            /\ \E K : Solves(K, D) /\ ~ Cyclic(K)
  BY <1>1, <1>5
<1>7. D = B
  BY <1>1, <1>6, FS_Subset
<1> QED
  BY <1>6, <1>7

LEMMA SolutionIsOne ==
  ASSUME NEW B \in SUBSET Edge, NEW K, NEW L, Solves(K, B), Solves(L, B)
  PROVE  K = L
<1> DEFINE D == (K \ L) \cup (L \ K)
<1> SUFFICES ASSUME D # {} PROVE FALSE
  OBVIOUS
<1>1. D \in SUBSET Edge /\ D \subseteq B
  BY DEF Solves
<1>2. PICK e \in D : \A f \in D : ~ EdgeLess(f, e)
  BY <1>1, FirstOfEdges
<1>3. Before(K, e) = Before(L, e)
  BY <1>2 DEF Before
<1>4. e \in B
  BY <1>1
<1>5. e \in K <=> e \in L
  BY <1>3, <1>4 DEF Solves
<1> QED
  BY <1>5

\* The edges that are kept are the solution.
LEMMA KeptSolves ==
  ASSUME NEW E \in SUBSET Edge
  PROVE  /\ Solves(BuildOrder(BreakBuildOrderCycles(E)), BuildOrder(E))
         /\ ~ Cyclic(BuildOrder(BreakBuildOrderCycles(E)))
         /\ E \ BuildOrder(E) \subseteq BreakBuildOrderCycles(E)
         /\ BreakBuildOrderCycles(E) \subseteq E
<1> DEFINE B == BuildOrder(E)
           R(f) == [e \in B |-> ~ Reaches({x \in B : EdgeLess(x, e) /\ f[x]},
                                          e.to, e.from)]
           Kept == CHOOSE f : f = R(f)
<1>1. B \in SUBSET Edge
  BY DEF BuildOrder
<1>2. PICK K : Solves(K, B) /\ ~ Cyclic(K)
  BY <1>1, SolutionExists
<1>3. \E f : f = R(f)
  <2> DEFINE f == [e \in B |-> e \in K]
  <2>1. \A e \in B : {x \in B : EdgeLess(x, e) /\ f[x]} = Before(K, e)
    BY <1>2 DEF Before, Solves
  <2>2. \A e \in B : f[e] = ~ Reaches(Before(K, e), e.to, e.from)
    BY <1>2 DEF Solves
  <2> DEFINE r == R(f)
  <2>3. \A e \in B : r[e] = ~ Reaches(Before(K, e), e.to, e.from)
    <3> HIDE DEF f
    <3> QED BY <2>1
  <2>4. f = [e \in B |-> f[e]] /\ r = [e \in B |-> r[e]]
    OBVIOUS
  <2>5. f = r
    <3> HIDE DEF f, r, B
    <3> QED BY <2>2, <2>3, <2>4
  <2> HIDE DEF f
  <2> QED
    BY <2>5 DEF r
<1>4. Kept = R(Kept)
  BY <1>3
<1> HIDE DEF Kept
<1> DEFINE L == {e \in B : Kept[e]}
<1>5. \A e \in B : Kept[e] = ~ Reaches({x \in B : EdgeLess(x, e) /\ Kept[x]},
                                        e.to, e.from)
  <2> HIDE DEF B
  <2> QED BY <1>4
<1>6. \A e \in B : {x \in B : EdgeLess(x, e) /\ Kept[x]} = Before(L, e)
  BY DEF Before
<1>7. Solves(L, B)
  <2> SUFFICES ASSUME NEW e \in B
               PROVE  e \in L <=> ~ Reaches(Before(L, e), e.to, e.from)
    BY DEF Solves
  <2>1. {x \in B : EdgeLess(x, e) /\ Kept[x]} = Before(L, e)
    BY <1>6
  <2>2. Kept[e] = ~ Reaches(Before(L, e), e.to, e.from)
    BY <1>5, <2>1
  <2>3. e \in L <=> Kept[e]
    OBVIOUS
  <2> HIDE DEF L, B
  <2> QED
    BY <2>2, <2>3
<1>8. L = K
  <2> HIDE DEF L
  <2> QED BY <1>1, <1>2, <1>7, SolutionIsOne
<1>9. BreakBuildOrderCycles(E) = (E \ B) \cup L
  BY DEF BreakBuildOrderCycles, Kept
<1> HIDE DEF Kept
<1>10. BuildOrder(BreakBuildOrderCycles(E)) = L
  BY <1>9 DEF BuildOrder
<1>11. L \subseteq B /\ B \subseteq E
  BY DEF BuildOrder
<1> HIDE DEF L
<1>12. Solves(BuildOrder(BreakBuildOrderCycles(E)), BuildOrder(E))
  BY <1>7, <1>10
<1>13. ~ Cyclic(BuildOrder(BreakBuildOrderCycles(E)))
  BY <1>2, <1>8, <1>10
<1> QED
  BY <1>9, <1>11, <1>12, <1>13

(* break_build_order_cycles: "Return a maximal acyclic edge set, dropping  *)
(* the edge that closes each cycle." Whatever the edges of a draft are,    *)
(* what is kept of them has no cycle in the build order, and every edge    *)
(* that is dropped would have closed one with those kept.                  *)
THEOREM BreakingLeavesNoCycle ==
  ASSUME NEW E \in SUBSET Edge
  PROVE  LET kept == BreakBuildOrderCycles(E)
         IN  /\ ~ Cyclic(BuildOrder(kept))
             /\ kept \subseteq E
             /\ \A e \in E \ kept :
                  /\ e \in BuildOrder(E)
                  /\ Reaches(BuildOrder(kept), e.to, e.from)
<1> DEFINE kept == BreakBuildOrderCycles(E)
           K == BuildOrder(kept)
           B == BuildOrder(E)
<1>1. /\ Solves(K, B) /\ ~ Cyclic(K)
      /\ E \ B \subseteq kept /\ kept \subseteq E
  BY KeptSolves
<1>2. ASSUME NEW e \in E \ kept PROVE e \in B /\ Reaches(K, e.to, e.from)
  <2>1. e \in B /\ e \notin K
    BY <1>1, <1>2 DEF BuildOrder
  <2>2. /\ K \in SUBSET Edge /\ Before(K, e) \in SUBSET Edge
        /\ Before(K, e) \subseteq K
        /\ e.to \in Module /\ e.from \in Module
    BY <1>1, <1>2 DEF Before, BuildOrder, Edge
  <2> HIDE DEF K, B
  <2>3. Reaches(Before(K, e), e.to, e.from)
    BY <1>1, <2>1 DEF Solves
  <2> QED
    BY <2>1, <2>2, <2>3, Paths
<1> HIDE DEF kept
<1> QED
  BY <1>1, <1>2 DEF kept

-----------------------------------------------------------------------------
(* Showing fewer edges.                                                  *)

LEMMA OneComposer == \A c, d \in Composer : c = d
<1> SUFFICES ASSUME NEW c \in Composer, NEW d \in Composer, c # d PROVE FALSE
  OBVIOUS
<1>1. IsFiniteSet(Composer) /\ Cardinality(Composer) \in Nat
  BY GraphAssumption, FS_Subset, FS_CardinalityType
<1> DEFINE X == {} \cup {c}
           Y == X \cup {d}
<1>2. IsFiniteSet(X) /\ Cardinality(X) = 1
  <2>1. IsFiniteSet({}) /\ Cardinality({}) = 0 /\ c \notin {}
    BY FS_EmptySet
  <2> QED
    BY <2>1, FS_AddElement
<1>3. IsFiniteSet(Y) /\ Cardinality(Y) = 2
  <2>1. d \notin X
    OBVIOUS
  <2> HIDE DEF X
  <2> QED BY <1>2, <2>1, FS_AddElement
<1>4. Y \in SUBSET Composer
  OBVIOUS
<1> HIDE DEF Y
<1>5. 2 <= Cardinality(Composer)
  BY <1>1, <1>3, <1>4, FS_Subset
<1> QED
  BY <1>1, <1>5, GraphAssumption

\* Of the edges between two modules one is the most telling.
Telling(E) ==
  {e \in E : \A f \in E : f.from = e.from /\ f.to = e.to =>
     EDGE_KIND_PRIORITY[e.kind] <= EDGE_KIND_PRIORITY[f.kind]}

LEMMA OneIsTelling ==
  ASSUME NEW E \in SUBSET Edge, NEW e \in E
  PROVE  \E f \in Telling(E) : f.from = e.from /\ f.to = e.to
<1> DEFINE S == {f \in E : f.from = e.from /\ f.to = e.to}
           T == {EDGE_KIND_PRIORITY[f.kind] : f \in S}
<1>1. \A k \in Kind : EDGE_KIND_PRIORITY[k] \in Nat
  BY DEF Kind, Alphabetic, EDGE_KIND_PRIORITY
<1>2. \A f \in E : f.kind \in Kind
  BY DEF Edge
<1>3. T \in SUBSET Nat /\ T # {}
  <2>1. e \in S
    OBVIOUS
  <2>2. \A f \in S : EDGE_KIND_PRIORITY[f.kind] \in Nat
    BY <1>1, <1>2
  <2> QED
    BY <2>1, <2>2
<1>4. PICK p \in T : \A q \in T : p <= q
  <2> HIDE DEF T
  <2> QED BY <1>3, Least
<1>5. PICK f \in S : p = EDGE_KIND_PRIORITY[f.kind]
  BY <1>4
<1>6. f \in Telling(E)
  BY <1>4, <1>5 DEF Telling
<1> QED
  BY <1>5, <1>6

(* simplify_architecture_edges takes from the canvas the "entry-shell fan- *)
(* out edges that merely duplicate a composition root's path": as long as  *)
(* no cycle of the build order runs through the edges, an edge it takes    *)
(* away leaves a path between its two modules. No module is both an entry  *)
(* and a composition root here: of one that is, the code takes away every  *)
(* load order.                                                             *)
THEOREM SimplifyingKeepsPaths ==
  ASSUME Entry \cap Composer = {},
         NEW a \in Architecture, ~ Cyclic(BuildOrder(a.edges)),
         ~ Cyclic(SimplifyEdges(a).edges)
  PROVE  \A e \in a.edges : Reaches(SimplifyEdges(a).edges, e.from, e.to)
<1> DEFINE best == Telling(a.edges)
           B == BuildOrder(best)
           Repeats(e, c) ==
             /\ e.from \in Entry /\ e.to # c /\ e.kind = "blocks"
             /\ \/ \E f \in best : f.from = e.from /\ f.to = c
                \/ Reaches(BuildOrder(best), e.from, c)
             /\ Reaches(BuildOrder(best), c, e.to)
           F == {e \in best : ~ \E c \in Composer \cap a.mods : Repeats(e, c)}
<1>1. SimplifyEdges(a).edges = F
  BY DEF SimplifyEdges, Architecture, Telling
<1>2. /\ a.edges \in SUBSET Edge /\ best \subseteq a.edges /\ F \subseteq best
      /\ B \subseteq best /\ best \in SUBSET Edge /\ F \in SUBSET Edge
      /\ B \in SUBSET Edge
      /\ \A e \in Edge : e.from \in Module /\ e.to \in Module
      /\ Composer \subseteq Module
  BY GraphAssumption DEF Architecture, Telling, BuildOrder, Edge
<1>3. ~ Cyclic(B) /\ ~ Cyclic(F)
  <2>1. /\ BuildOrder(a.edges) \in SUBSET Edge
        /\ B \in SUBSET BuildOrder(a.edges)
    BY <1>2 DEF BuildOrder
  <2> QED
    BY <1>1, <2>1, AcyclicPart
<1>4. ASSUME NEW e \in best \ F
      PROVE  \E c \in Composer : Repeats(e, c)
  BY <1>4
<1>5. ASSUME NEW e \in best \ F, NEW c \in Composer, Repeats(e, c)
      PROVE  Reaches(F, e.from, e.to)
  <2>1. ASSUME NEW f \in best, \/ f.to = c
                               \/ f \in B /\ Reaches(B, f.to, c)
        PROVE  f \in F
    <3> SUFFICES ASSUME f \notin F PROVE FALSE
      OBVIOUS
    <3>1. PICK d \in Composer : Repeats(f, d)
      BY <1>4, <2>1
    <3>2. d = c
      BY OneComposer
    <3>3. f.to # c /\ Reaches(B, c, f.to)
      BY <3>1, <3>2
    <3> HIDE DEF Repeats, F, B, best
    <3> QED
      BY <1>2, <1>3, <2>1, <3>3, OneWay
  <2> HIDE DEF F, B, best
  <2>2. ASSUME NEW m \in Module, Reaches(B, m, c) PROVE Reaches(F, m, c)
    <3> DEFINE T == {x \in Module : ~ Reaches(F, x, c) \/ ~ Reaches(B, x, c)}
    <3>1. Closed(B, T)
      <4> SUFFICES ASSUME NEW f \in B, f.from \in T, f.to \notin T PROVE FALSE
        BY DEF Closed
      <4>1. f.from \in Module /\ f.to \in Module /\ f \in best
        BY <1>2
      <4>2. Reaches(F, f.to, c) /\ Reaches(B, f.to, c)
        BY <4>1
      <4>3. f \in F
        BY <2>1, <4>1, <4>2
      <4>4. Reaches(F, f.from, f.to) /\ Reaches(B, f.from, f.to)
        BY <1>2, <4>3, Paths
      <4>5. Reaches(F, f.from, c) /\ Reaches(B, f.from, c)
        BY <1>2, <4>1, <4>2, <4>4, Paths
      <4> QED
        BY <4>5
    <3>2. c \notin T
      BY <1>2, Paths
    <3> SUFFICES ASSUME m \in T PROVE FALSE
      BY <2>2
    <3>3. {m} \subseteq T
      OBVIOUS
    <3> HIDE DEF T
    <3>4. c \in T
      BY <1>2, <2>2, <3>1, <3>3, ReachedIsLeast DEF Reaches
    <3> QED
      BY <3>2, <3>4
  <2>3. ASSUME NEW f \in best, Repeats(f, c) PROVE Reaches(F, f.from, c)
    <3>1. CASE \E g \in best : g.from = f.from /\ g.to = c
      <4>1. PICK g \in best : g.from = f.from /\ g.to = c
        BY <3>1
      <4>2. g \in F
        BY <2>1, <4>1
      <4> QED
        BY <1>2, <4>1, <4>2, Paths
    <3>2. CASE Reaches(BuildOrder(best), f.from, c)
      BY <1>2, <2>2, <3>2 DEF B
    <3> QED
      BY <2>3, <3>1, <3>2
  <2>4. Reaches(F, c, e.to)
    <3> DEFINE R == ReachedFrom(F, {c})
    <3>1. {c} \subseteq R /\ Closed(F, R)
      BY <1>2, ReachedIsLeast
    <3>2. Closed(B, R)
      <4> SUFFICES ASSUME NEW f \in B, f.from \in R, f.to \notin R PROVE FALSE
        BY DEF Closed
      <4>1. f \in best \ F /\ f.from \in Module
        BY <1>2, <3>1 DEF Closed
      <4>2. PICK d \in Composer : Repeats(f, d)
        <5> HIDE DEF Repeats
        <5> QED BY <1>4, <4>1
      <4>3. d = c
        BY OneComposer
      <4>4. Reaches(F, f.from, c) /\ Reaches(F, c, f.from)
        <5>1. Reaches(F, f.from, c)
          <6> HIDE DEF Repeats
          <6> QED BY <2>3, <4>1, <4>2, <4>3
        <5> QED
          BY <5>1 DEF Reaches
      <4>5. f.from # c
        BY <4>2
      <4> QED
        BY <1>2, <1>3, <4>1, <4>4, <4>5, OneWay
    <3>3. Reaches(B, c, e.to)
      BY <1>5 DEF B
    <3> HIDE DEF R
    <3>4. ReachedFrom(B, {c}) \subseteq R
      BY <1>2, <3>1, <3>2, ReachedIsLeast
    <3> QED
      BY <3>3, <3>4 DEF R, Reaches
  <2>5. Reaches(F, e.from, c)
    BY <1>5, <2>3
  <2> HIDE DEF Repeats
  <2> QED
    BY <1>2, <2>4, <2>5, Paths
<1>6. ASSUME NEW e \in a.edges PROVE Reaches(F, e.from, e.to)
  <2>1. PICK f \in best : f.from = e.from /\ f.to = e.to
    BY <1>2, OneIsTelling
  <2>2. CASE f \in F
    <3> HIDE DEF F
    <3> QED BY <1>2, <2>1, <2>2, Paths
  <2>3. CASE f \notin F
    <3>1. PICK c \in Composer : Repeats(f, c)
      BY <1>4, <2>3
    <3> HIDE DEF F, Repeats, best
    <3> QED BY <1>5, <2>1, <2>3, <3>1
  <2> QED
    BY <2>2, <2>3
<1> HIDE DEF F
<1> QED
  BY <1>1, <1>6

-----------------------------------------------------------------------------
(* Every architecture the server holds has, for every dependency, a path *)
(* of edges, unless the two form a cycle.                                *)

\* Neither the dependencies nor the edges of a close a cycle, alone or
\* together.
Unbroken(a) == ~ Cyclic(DependsOn(a) \cup a.edges)

\* What depends on something can be found along the edges.
Covered(a) ==
  Unbroken(a) => \A e \in DependsOn(a) : Reaches(a.edges, e.from, e.to)

LEMMA BoundEdges ==
  ASSUME NEW a \in Architecture
  PROVE  /\ a.edges \in SUBSET Edge /\ DependsOn(a) \in SUBSET Edge
         /\ DependsOn(a) \cup a.edges \in SUBSET Edge
         /\ \A e \in DependsOn(a) : e.from \in Module /\ e.to \in Module
         /\ Unbroken(a) => ~ Cyclic(a.edges)
<1>1. a.edges \in SUBSET Edge /\ DependsOn(a) \in SUBSET Edge
  BY DependsIsEdges DEF Architecture
<1>2. Unbroken(a) => ~ Cyclic(a.edges)
  <2>1. a.edges \in SUBSET (DependsOn(a) \cup a.edges)
    OBVIOUS
  <2>2. DependsOn(a) \cup a.edges \in SUBSET Edge
    BY <1>1
  <2> QED
    BY <2>1, <2>2, AcyclicPart DEF Unbroken
<1> QED
  BY <1>1, <1>2 DEF Edge

\* A way back along what the edges lead to would be a cycle.
LEMMA NoWayBack ==
  ASSUME NEW a \in Architecture, Unbroken(a), NEW E \in SUBSET Edge,
         \A f \in E : Reaches(a.edges, f.from, f.to),
         NEW e \in DependsOn(a)
  PROVE  ~ Reaches(E, e.to, e.from)
<1> SUFFICES ASSUME Reaches(E, e.to, e.from) PROVE FALSE
  OBVIOUS
<1> DEFINE A == a.edges
           D == DependsOn(a) \cup A
<1>1. /\ A \in SUBSET Edge /\ D \in SUBSET Edge /\ A \subseteq D
      /\ e.from \in Module /\ e.to \in Module
  BY BoundEdges
<1>2. Reaches(A, e.to, e.from)
  <2>1. {e.to} \in SUBSET Module
    BY <1>1
  <2>2. ReachedFrom(E, {e.to}) \subseteq ReachedFrom(A, {e.to})
    BY <1>1, <2>1, ReachedWithin
  <2> QED
    BY <2>2 DEF Reaches
<1> HIDE DEF A, D
<1>3. Reaches(D, e.to, e.from)
  BY <1>1, <1>2, Paths
<1> QED
  BY <1>3 DEF Cyclic, Unbroken, A, D

\* The edges before the cycles are broken.
LEMMA NormalizedFrom ==
  ASSUME NEW a \in Architecture
  PROVE  \E E \in SUBSET Edge :
           /\ NormalizeArchitecture(a).edges = BreakBuildOrderCycles(E)
           /\ \A e \in DependsOn(NormalizeArchitecture(a)) :
                \E f \in E : f.from = e.from /\ f.to = e.to
<1> DEFINE deps == [m \in Module |-> a.deps[m] \ {m}]
           declared == {e \in a.edges : e.from # e.to}
           b == [a EXCEPT !.deps = deps]
           derived == {e \in EdgesFromModules(b) :
                         ~ \E f \in declared : f.from = e.from /\ f.to = e.to}
           E == declared \cup derived
           n == NormalizeArchitecture(a)
<1>1. deps \in [Module -> SUBSET Module]
  BY DEF Architecture
<1>2. b \in Architecture /\ b.deps = deps /\ b.mods = a.mods
  <2> HIDE DEF deps
  <2> QED BY <1>1 DEF Architecture
<1>3. n.edges = BreakBuildOrderCycles(E) /\ n.mods = a.mods /\ n.deps = deps
  <2> HIDE DEF deps, declared, derived
  <2> QED BY DEF NormalizeArchitecture, Architecture, deps, declared, derived
<1>4. E \in SUBSET Edge
  <2> HIDE DEF b
  <2> QED BY <1>2, FromModulesIsEdges DEF Architecture
<1>5. ASSUME NEW e \in DependsOn(n) PROVE \E f \in E : f.from = e.from /\ f.to = e.to
  <2>1. /\ e.from \in a.mods /\ e.to \in deps[e.from] /\ e.kind = "uses"
        /\ e = [from |-> e.from, to |-> e.to, kind |-> "uses"]
    <3> HIDE DEF n, deps
    <3> QED BY <1>3 DEF DependsOn
  <2> HIDE DEF deps, n
  <2>2. e \in EdgesFromModules(b)
    <3> HIDE DEF b
    <3> QED BY <1>2, <2>1 DEF EdgesFromModules
  <2> HIDE DEF b
  <2> QED
    BY <2>2
<1> HIDE DEF E, n
<1>6. \A e \in DependsOn(n) : \E f \in E : f.from = e.from /\ f.to = e.to
  BY <1>5
<1> QED
  BY <1>3, <1>4, <1>6 DEF n

LEMMA NormalizedIsCovered ==
  ASSUME NEW a \in Architecture
  PROVE  /\ Covered(NormalizeArchitecture(a))
         /\ ~ Cyclic(BuildOrder(NormalizeArchitecture(a).edges))
<1> DEFINE n == NormalizeArchitecture(a)
<1>1. PICK E \in SUBSET Edge :
        /\ n.edges = BreakBuildOrderCycles(E)
        /\ \A e \in DependsOn(n) : \E f \in E : f.from = e.from /\ f.to = e.to
  BY NormalizedFrom
<1>2. n \in Architecture
  BY NormalizeType
<1> HIDE DEF n
<1>3. ASSUME Unbroken(n), NEW e \in DependsOn(n)
      PROVE  Reaches(n.edges, e.from, e.to)
  <2>1. PICK f \in E : f.from = e.from /\ f.to = e.to
    BY <1>1
  <2>2. n.edges \in SUBSET Edge
    BY <1>2, BoundEdges
  <2>3. CASE f \in n.edges
    BY <2>1, <2>2, <2>3, Paths
  <2>4. CASE f \notin n.edges
    <3> DEFINE B == BuildOrder(n.edges)
    <3>1. Reaches(B, e.to, e.from)
      BY <1>1, <2>1, <2>4, BreakingLeavesNoCycle
    <3>2. B \in SUBSET Edge /\ \A x \in B : Reaches(n.edges, x.from, x.to)
      BY <2>2, Paths DEF BuildOrder
    <3> HIDE DEF B
    <3> QED
      BY <1>2, <1>3, <3>1, <3>2, NoWayBack
  <2> QED
    BY <2>3, <2>4
<1>4. ~ Cyclic(BuildOrder(n.edges))
  BY <1>1, BreakingLeavesNoCycle
<1> QED
  BY <1>3, <1>4 DEF Covered, n

LEMMA RevisedIsCovered ==
  ASSUME Entry \cap Composer = {}, NEW a \in Architecture
  PROVE  Covered(SimplifyEdges(NormalizeArchitecture(a)))
<1> DEFINE n == NormalizeArchitecture(a)
           s == SimplifyEdges(n)
<1>1. n \in Architecture /\ s \in Architecture
  BY NormalizeType, SimplifyType
<1>2. DependsOn(s) = DependsOn(n)
  <2> HIDE DEF n
  <2>1. s.mods = n.mods /\ s.deps = n.deps
    BY <1>1 DEF SimplifyEdges, Architecture
  <2> HIDE DEF s
  <2> QED BY <2>1 DEF DependsOn
<1>3. PICK E \in SUBSET Edge :
        /\ n.edges = BreakBuildOrderCycles(E)
        /\ \A e \in DependsOn(n) : \E f \in E : f.from = e.from /\ f.to = e.to
  BY NormalizedFrom
<1>4. ~ Cyclic(BuildOrder(n.edges))
  BY NormalizedIsCovered
<1> HIDE DEF n
<1>5. ASSUME Unbroken(s), NEW e \in DependsOn(s)
      PROVE  Reaches(s.edges, e.from, e.to)
  <2>1. PICK f \in E : f.from = e.from /\ f.to = e.to
    BY <1>2, <1>3
  <2>2. \A x \in n.edges : Reaches(s.edges, x.from, x.to)
    <3>1. ~ Cyclic(s.edges)
      <4> HIDE DEF s
      <4> QED BY <1>1, <1>5, BoundEdges
    <3> QED
      BY <1>1, <1>4, <3>1, SimplifyingKeepsPaths
  <2>3. n.edges \in SUBSET Edge /\ s.edges \in SUBSET Edge
    <3> HIDE DEF s
    <3> QED BY <1>1, BoundEdges
  <2> HIDE DEF s
  <2>4. CASE f \in n.edges
    BY <2>1, <2>2, <2>4
  <2>5. CASE f \notin n.edges
    <3> DEFINE B == BuildOrder(n.edges)
    <3>1. Reaches(B, e.to, e.from)
      BY <1>3, <2>1, <2>5, BreakingLeavesNoCycle
    <3>2. B \in SUBSET Edge /\ \A x \in B : Reaches(s.edges, x.from, x.to)
      BY <2>2, <2>3 DEF BuildOrder
    <3> HIDE DEF B
    <3> QED
      BY <1>1, <1>5, <3>1, <3>2, NoWayBack
  <2> QED
    BY <2>4, <2>5
<1> HIDE DEF s
<1>6. Covered(s)
  BY <1>5 DEF Covered
<1> QED
  BY <1>6 DEF s, n

LEMMA MigratedIsCovered ==
  ASSUME NEW a \in Architecture
  PROVE  Covered(MigrateArchitectureShape(a, {}))
<1> DEFINE s == MigrateArchitectureShape(a, {})
<1>1. s \in Architecture
  BY MigrateType
<1>2. /\ s.mods = a.mods /\ s.deps = a.deps
      /\ s.edges = {e \in EdgesFromModules(a) : e.to \in a.mods}
  BY DEF MigrateArchitectureShape, Architecture
<1> HIDE DEF s
<1>3. DependsOn(s) \subseteq s.edges
  BY <1>2 DEF DependsOn, EdgesFromModules
<1>4. s.edges \in SUBSET Edge
  BY <1>1, BoundEdges
<1>5. Covered(s)
  BY <1>3, <1>4, Paths DEF Covered
<1> QED
  BY <1>5 DEF s

LEMMA SameIsCovered ==
  ASSUME NEW a, NEW b, a.mods = b.mods, a.deps = b.deps, a.edges = b.edges,
         Covered(a)
  PROVE  Covered(b)
BY DEF Covered, Unbroken, DependsOn

LEMMA NothingIsCovered == Covered(NoArchitecture)
BY DEF Covered, DependsOn, NoArchitecture

\* The architectures in an interview, in a document, in a history, in writes.
Draft(b) == IF b = Null THEN {} ELSE {b.arch}
Document(d) == {d} \ {Null}
Replaced(h) == {h[i] : i \in 1..Len(h)}
Carried(w) ==
  {v.arch : v \in Says("boot", w)} \cup Says("doc", w)
    \cup UNION {Replaced(h) : h \in Says("history", w)}

AllCovered(S) == \A a \in S : Covered(a)

CoverInv ==
  /\ AllCovered(Draft(boot)) /\ AllCovered(Document(doc))
  /\ AllCovered(Replaced(history)) /\ AllCovered(Carried(pending))
  /\ call # Null => AllCovered(Draft(call.boot)) /\ AllCovered(Document(call.doc))

LEMMA NothingCarries == Carried(<<>>) = {}
BY NothingSays DEF Carried

LEMMA OneCarries ==
  /\ \A b : Carried(<<Put("boot", b)>>) = {b.arch}
  /\ \A d : Carried(<<Put("doc", d)>>) = {d}
  /\ \A h : Carried(<<Put("history", h)>>) = Replaced(h)
  /\ \A file \in {"stale", "plan", "errors"} : \A v :
       Carried(<<Put(file, v)>>) = {}
<1>1. \A file, name, v : Says(file, <<Put(name, v)>>) =
                            IF name = file THEN {v} ELSE {}
  BY OneSays
<1>2. ASSUME NEW name, NEW v
      PROVE  Carried(<<Put(name, v)>>) =
               IF name = "boot" THEN {v.arch}
               ELSE IF name = "doc" THEN {v}
               ELSE IF name = "history" THEN Replaced(v) ELSE {}
  <2> DEFINE w == <<Put(name, v)>>
  <2>1. /\ Says("boot", w) = IF name = "boot" THEN {v} ELSE {}
        /\ Says("doc", w) = IF name = "doc" THEN {v} ELSE {}
        /\ Says("history", w) = IF name = "history" THEN {v} ELSE {}
    BY <1>1
  <2> HIDE DEF w
  <2>2. Carried(w) = IF name = "boot" THEN {v.arch}
                     ELSE IF name = "doc" THEN {v}
                     ELSE IF name = "history" THEN Replaced(v) ELSE {}
    BY <2>1 DEF Carried
  <2> QED
    BY <2>2 DEF w
<1> QED
  BY <1>2

LEMMA BothCarry ==
  ASSUME NEW S, NEW s \in Seq(S), NEW t \in Seq(S)
  PROVE  Carried(s \o t) = Carried(s) \cup Carried(t)
<1>1. \A file : Says(file, s \o t) = Says(file, s) \cup Says(file, t)
  BY BothSay
<1> QED
  BY <1>1 DEF Carried

LEMMA WorkCarries ==
  /\ \A p \in GoodPlan : /\ PutPlan(p) \in Seq(Writing)
                         /\ Carried(PutPlan(p)) = {}
                         /\ Says("stale", PutPlan(p)) = {}
  /\ \A p \in GoodPlan \cup {Null}, a \in Architecture :
       /\ PutSynced(p, a) \in Seq(Writing)
       /\ Carried(PutSynced(p, a)) = {}
       /\ Says("stale", PutSynced(p, a)) = {}
<1>1. ASSUME NEW p \in GoodPlan
      PROVE  /\ PutPlan(p) \in Seq(Writing) /\ Carried(PutPlan(p)) = {}
             /\ Says("stale", PutPlan(p)) = {}
  <2> DEFINE s == <<Put("plan", p)>>
             t == <<Put("errors", Reconcile(errors, p))>>
  <2>1. PutPlan(p) = s \o t
    BY DEF PutPlan
  <2>2. Reconcile(errors, p) \in SUBSET Module
    BY OwnersType, ReconcileIs
  <2>3. s \in Seq(Writing) /\ t \in Seq(Writing)
    BY <2>2 DEF Put, Writing
  <2>4. /\ Carried(s) = {} /\ Carried(t) = {}
        /\ Says("stale", s) = {} /\ Says("stale", t) = {}
    BY OneCarries, OneSays
  <2> HIDE DEF s, t
  <2>5. /\ Carried(s \o t) = Carried(s) \cup Carried(t)
        /\ Says("stale", s \o t) = Says("stale", s) \cup Says("stale", t)
    BY <2>3, BothCarry, BothSay
  <2>6. s \o t \in Seq(Writing)
    BY <2>3
  <2> QED
    BY <2>1, <2>4, <2>5, <2>6
<1>2. ASSUME NEW p \in GoodPlan \cup {Null}, NEW a \in Architecture
      PROVE  /\ PutSynced(p, a) \in Seq(Writing)
             /\ Carried(PutSynced(p, a)) = {}
             /\ Says("stale", PutSynced(p, a)) = {}
  <2>1. SyncWorkItems(p, a) \in GoodPlan
    BY SyncType
  <2>2. /\ <<>> \in Seq(Writing) /\ Carried(<<>>) = {}
        /\ Says("stale", <<>>) = {}
    BY NothingCarries, NothingSays
  <2> QED
    BY <1>1, <2>1, <2>2 DEF PutSynced
<1> QED
  BY <1>1, <1>2

LEMMA DraftCarries ==
  ASSUME NEW b \in Bootstrap \cup {Null}, NEW a \in Architecture
  PROVE  /\ Carried(PutBoot(b, a)) \subseteq {a}
         /\ \A file : file # "boot" => Says(file, PutBoot(b, a)) = {}
<1>1. CASE b = Null
  BY <1>1, NothingCarries, NothingSays DEF PutBoot
<1>2. CASE b # Null
  <2> DEFINE v == [b EXCEPT !.arch = a]
  <2>1. v.arch = a /\ PutBoot(b, a) = <<Put("boot", v)>>
    BY <1>2 DEF Bootstrap, PutBoot
  <2> HIDE DEF v
  <2>2. Carried(<<Put("boot", v)>>) = {v.arch}
    BY OneCarries
  <2>3. \A file : file # "boot" => Says(file, <<Put("boot", v)>>) = {}
    BY OneSays
  <2> QED
    BY <2>1, <2>2, <2>3
<1> QED
  BY <1>1, <1>2

LEMMA HistoryCarries ==
  ASSUME history \in History, NEW a \in Architecture, NEW new
  PROVE  Carried(Push(a, new)) \subseteq Replaced(history) \cup {a}
<1> DEFINE all == Append(history, a)
           h == IF Len(all) > HISTORY_MAX THEN Tail(all) ELSE all
<1>1. Push(a, new) = <<Put("history", h)>>
  BY DEF Push
<1>2. history \in Seq(Architecture) /\ Len(history) \in Nat
  BY DEF History
<1>3. Replaced(all) \subseteq Replaced(history) \cup {a}
  BY <1>2 DEF Replaced
<1>4. all \in Seq(Architecture) /\ all # <<>>
  BY <1>2
<1> HIDE DEF all
<1>5. Replaced(Tail(all)) \subseteq Replaced(all)
  <2>1. /\ Len(all) \in Nat /\ Len(Tail(all)) = Len(all) - 1
        /\ \A i \in 1..Len(Tail(all)) : Tail(all)[i] = all[i + 1]
    BY <1>4
  <2> QED
    BY <2>1 DEF Replaced
<1>6. Replaced(h) \subseteq Replaced(history) \cup {a}
  BY <1>3, <1>5
<1> HIDE DEF h
<1> QED
  BY <1>1, <1>6, OneCarries

\* What the writes of an edit carry: what was there, and the new.
LEMMA EditCarries ==
  ASSUME history \in History, NEW b \in Bootstrap \cup {Null}, NEW d,
         NEW flagged \in SUBSET Module, NEW previous \in Architecture,
         NEW new \in Architecture
  PROVE  /\ Carried(PutEdit(b, d, flagged, previous, new))
              \subseteq Replaced(history) \cup {previous, new}
         /\ PutEdit(b, d, flagged, previous, new) \in Seq(Writing)
<1> DEFINE r == <<Put("stale", flagged)>>
           s == Push(previous, new)
           t == <<Put("doc", new)>>
           u == PutBoot(b, new)
           w == ((r \o s) \o t) \o u
<1>1. PutEdit(b, d, flagged, previous, new) = w
  BY DEF PutEdit
<1>2. PICK h \in History : s = <<Put("history", h)>>
  BY PushIs
<1>3. /\ r \in Seq(Writing) /\ s \in Seq(Writing) /\ t \in Seq(Writing)
      /\ u \in Seq(Writing)
  <2>1. /\ Put("stale", flagged) \in Writing /\ Put("history", h) \in Writing
        /\ Put("doc", new) \in Writing
    BY DEF Put, Writing
  <2> QED
    BY <1>2, <2>1, PutBootIs
<1>4. /\ Carried(r) = {} /\ Carried(t) = {new} /\ Carried(u) \subseteq {new}
      /\ Carried(s) \subseteq Replaced(history) \cup {previous}
  BY OneCarries, DraftCarries, HistoryCarries
<1> HIDE DEF r, s, t, u
<1>5. w \in Seq(Writing) /\ \A file : Says(file, w) = Says(file, r) \cup Says(file, s)
                            \cup Says(file, t) \cup Says(file, u)
  BY <1>3, FourWritten
<1> HIDE DEF w
<1>6. Carried(w) = Carried(r) \cup Carried(s) \cup Carried(t) \cup Carried(u)
  BY <1>5 DEF Carried
<1> QED
  BY <1>1, <1>4, <1>5, <1>6

-----------------------------------------------------------------------------
LEMMA CoverBegin ==
  ASSUME CoverInv, UNCHANGED files, AllCovered(Carried(pending')),
         call' = call \/ call' = Null
           \/ /\ AllCovered(Draft(call'.boot)) /\ AllCovered(Document(call'.doc))
  PROVE  CoverInv'
BY DEF CoverInv, files

LEMMA CoverServe ==
  ASSUME CoverInv, NEW name, NEW w, AllCovered(Carried(w)),
         \/ Serve(name, w) \/ Resume(name, w)
         \/ \E gone : Editing(name, w, gone)
  PROVE  CoverInv'
<1>1. /\ UNCHANGED files /\ pending' = w /\ (call' = call \/ call' = Null)
  BY DEF Serve, Resume, Editing, Write
<1> QED
  BY <1>1, CoverBegin

LEMMA CoverAsk ==
  ASSUME CoverInv, NEW kind, NEW b, NEW p, NEW scope, NEW w,
         Ask(kind, b, p, scope, w),
         AllCovered(Carried(w)), AllCovered(Draft(b))
  PROVE  CoverInv'
<1>1. /\ UNCHANGED files /\ pending' = w
      /\ call'.boot = b /\ call'.doc = doc
  BY DEF Ask, Write, Wait
<1> QED
  BY <1>1, CoverBegin DEF CoverInv

\* What there is to work on is covered.
LEMMA CurrentIsCovered ==
  ASSUME NEW b, NEW d, AllCovered(Draft(b)), AllCovered(Document(d))
  PROVE  Resolve(b, d) # Null => Covered(Resolve(b, d))
BY DEF AllCovered, Draft, Document, Resolve, HasModules

LEMMA DrawnIsCovered ==
  ASSUME Entry \cap Composer = {}, NEW raw \in Drafts
  PROVE  Covered(Drawn(raw)) /\ Covered(Revised(raw))
<1>1. raw \in Architecture
  BY DrawnType
<1>2. Covered(Revised(raw))
  BY <1>1, RevisedIsCovered DEF Revised
<1>3. /\ Drawn(raw).mods = Revised(raw).mods /\ Drawn(raw).deps = Revised(raw).deps
      /\ Drawn(raw).edges = Revised(raw).edges
  BY DEF Drawn, Revised
<1> QED
  BY <1>2, <1>3, SameIsCovered

LEMMA InterviewCovers ==
  ASSUME IInv, CoverInv, Entry \cap Composer = {}, Interview PROVE CoverInv'
<1>1. AllCovered(Draft(boot)) /\ AllCovered({}) /\ Covered(Fresh.arch)
      /\ Fresh.arch = NoArchitecture /\ AllCovered(Draft(Fresh))
  BY NothingIsCovered DEF CoverInv, AllCovered, Draft, Fresh
<1>2. CASE StartBootstrap
  <2> DEFINE v == [Fresh EXCEPT !.asked = "profile"]
  <2>1. v.arch = NoArchitecture
    BY DEF Fresh
  <2>2. Serve("begin", <<Put("boot", v)>>)
    BY <1>2 DEF StartBootstrap
  <2> HIDE DEF v
  <2>3. AllCovered(Carried(<<Put("boot", v)>>))
    BY <2>1, OneCarries, NothingIsCovered DEF AllCovered
  <2> QED
    BY <2>2, <2>3, CoverServe
<1>3. CASE StreamBootstrapStart
  BY <1>1, <1>3, CoverAsk, NothingCarries DEF StreamBootstrapStart
<1>4. CASE AnswerBootstrap
  <2> DEFINE profile == boot.profile + 1
             next == [boot EXCEPT !.profile = profile,
                        !.asked = IF profile < Profile THEN "profile" ELSE "none"]
  <2>1. boot # Null /\ boot \in Bootstrap /\ next.arch = boot.arch
    BY <1>4 DEF AnswerBootstrap, Asked, IInv, TypeInv, Bootstrap
  <2>2. \/ Ask("answer", boot, Null, {}, <<>>)
        \/ Serve("answer", <<Put("boot", next)>>)
        \/ Ask("answer", next, Null, {}, <<>>)
    BY <1>4 DEF AnswerBootstrap
  <2> HIDE DEF next
  <2>3. Covered(next.arch) /\ AllCovered(Draft(next))
    BY <1>1, <2>1 DEF AllCovered, Draft
  <2>4. AllCovered(Carried(<<Put("boot", next)>>))
    BY <2>3, OneCarries DEF AllCovered
  <2> QED
    BY <1>1, <2>2, <2>3, <2>4, CoverAsk, CoverServe, NothingCarries
<1>5. CASE StreamBootstrapAnswer \/ ReviseBootstrap
  BY <1>1, <1>5, CoverAsk, NothingCarries DEF StreamBootstrapAnswer, ReviseBootstrap
<1>6. CASE InterviewTurn
  <2>1. PICK kind \in {"start", "answer", "stream", "revise"}, raw \in Drafts,
             ready \in BOOLEAN :
          Resume(kind, <<Put("boot", Applied(call.boot, Drawn(raw), ready))>>)
    BY <1>6 DEF InterviewTurn, Turn
  <2> DEFINE v == Applied(call.boot, Drawn(raw), ready)
  <2>2. v.arch = Drawn(raw)
    <3>1. call # Null /\ call.kind = kind
      BY <2>1 DEF Resume
    <3>2. call.boot \in Bootstrap
      BY <3>1 DEF IInv, TypeInv, CallShaped, Call
    <3> QED
      BY <3>2 DEF Applied, Bootstrap
  <2> HIDE DEF v
  <2>3. AllCovered(Carried(<<Put("boot", v)>>))
    BY <2>2, OneCarries, DrawnIsCovered DEF AllCovered
  <2> QED
    BY <2>1, <2>3, CoverServe DEF v
<1> QED
  BY <1>2, <1>3, <1>4, <1>5, <1>6 DEF Interview

LEMMA GateCovers == ASSUME IInv, CoverInv, Gate PROVE CoverInv'
<1>1. /\ boot \in Bootstrap \cup {Null} /\ doc \in Architecture \cup {Null}
      /\ plan \in GoodPlan \cup {Null}
  BY CurrentType
<1>2. CASE UpdateProvenance
  <2> DEFINE settled == [Current EXCEPT !.claims = "settled"]
  <2>1. Current # Null /\ Current \in Architecture /\ Covered(Current)
    BY <1>2, CurrentType, CurrentIsCovered DEF UpdateProvenance, CoverInv, Current
  <2>2. settled \in Architecture
    BY <2>1, ClaimsType
  <2>3. Covered(settled)
    <3>1. /\ settled.mods = Current.mods /\ settled.deps = Current.deps
          /\ settled.edges = Current.edges
      BY <2>1 DEF Architecture
    <3> HIDE DEF settled
    <3> QED BY <2>1, <3>1, SameIsCovered
  <2>4. \/ Serve("settle", PutBoot(boot, settled))
        \/ Serve("settle", <<Put("doc", settled)>>)
    BY <1>2 DEF UpdateProvenance
  <2> HIDE DEF settled
  <2>5. /\ AllCovered(Carried(PutBoot(boot, settled)))
        /\ AllCovered(Carried(<<Put("doc", settled)>>))
    BY <1>1, <2>2, <2>3, DraftCarries, OneCarries DEF AllCovered
  <2> QED
    BY <2>4, <2>5, CoverServe
<1>3. CASE ConfirmBootstrap
  <2> DEFINE v == [boot EXCEPT !.status = "ready"]
  <2>1. boot # Null /\ v.arch = boot.arch
    BY <1>1, <1>3 DEF ConfirmBootstrap, InReview, Bootstrap
  <2>2. Serve("confirm", <<Put("boot", v)>>)
    BY <1>3 DEF ConfirmBootstrap
  <2> HIDE DEF v
  <2>3. AllCovered(Carried(<<Put("boot", v)>>))
    BY <2>1, OneCarries DEF AllCovered, CoverInv, Draft
  <2> QED
    BY <2>2, <2>3, CoverServe
<1>4. CASE FinalizeBootstrap
  <2>1. boot # Null /\ Ask("finalize", boot, Null, {}, <<Put("doc", boot.arch)>>)
    BY <1>4 DEF FinalizeBootstrap
  <2>2. AllCovered(Draft(boot)) /\ Covered(boot.arch)
    BY <2>1 DEF CoverInv, AllCovered, Draft
  <2>3. AllCovered(Carried(<<Put("doc", boot.arch)>>))
    BY <2>2, OneCarries DEF AllCovered
  <2> QED
    BY <2>1, <2>2, <2>3, CoverAsk
<1>5. CASE Finalized
  <2> DEFINE v == [call.boot EXCEPT !.status = "initialized"]
             w == PutSynced(plan, call.boot.arch)
             x == <<Put("boot", v)>>
  <2>1. call # Null /\ Resume("finalize", w \o x)
    BY <1>5 DEF Finalized
  <2>2. call.kind = "finalize"
    BY <2>1 DEF Resume
  <2>3. call.boot \in Bootstrap /\ call.boot # Null
    BY <2>1, <2>2 DEF IInv, TypeInv, CallShaped, Call
  <2>4. v.arch = call.boot.arch /\ call.boot.arch \in Architecture
        /\ v \in Bootstrap
    BY <2>3 DEF Bootstrap, Status
  <2>5. Covered(call.boot.arch)
    BY <2>1, <2>3 DEF CoverInv, AllCovered, Draft
  <2>6. w \in Seq(Writing) /\ Carried(w) = {}
    BY <1>1, <2>4, WorkCarries
  <2> HIDE DEF v, w
  <2>7. x \in Seq(Writing)
    BY <2>4 DEF Put, Writing
  <2>8. Carried(x) = {v.arch}
    BY OneCarries
  <2> HIDE DEF x
  <2>9. Carried(w \o x) = {v.arch}
    BY <2>6, <2>7, <2>8, BothCarry
  <2>10. AllCovered(Carried(w \o x))
    BY <2>4, <2>5, <2>9 DEF AllCovered
  <2> QED
    BY <2>1, <2>10, CoverServe
<1>6. CASE ReopenArchitectureReview
  <2> DEFINE a == IF doc # Null /\ doc.mods # {} THEN doc ELSE boot.arch
             v == [boot EXCEPT !.arch = a, !.asked = "none", !.status = "review"]
  <2>1. boot # Null /\ Serve("reopen", <<Put("boot", v)>>)
    BY <1>6 DEF ReopenArchitectureReview
  <2>2. Covered(a)
    BY <2>1 DEF CoverInv, AllCovered, Draft, Document
  <2> HIDE DEF a
  <2>3. v.arch = a
    BY <1>1, <2>1 DEF Bootstrap
  <2> HIDE DEF v
  <2>4. AllCovered(Carried(<<Put("boot", v)>>))
    BY <2>2, <2>3, OneCarries DEF AllCovered
  <2> QED
    BY <2>1, <2>4, CoverServe
<1> QED
  BY <1>2, <1>3, <1>4, <1>5, <1>6 DEF Gate

LEMMA PlanWritesCarry ==
  ASSUME NEW w, OfPlan(w) PROVE AllCovered(Carried(w)) /\ Carried(w) = {}
BY PlanSays DEF Carried, AllCovered

LEMMA WorkCovers == ASSUME IInv, CoverInv, Work PROVE CoverInv'
<1>1. \A w : OfPlan(w) => AllCovered(Carried(w))
  BY PlanWritesCarry
<1>2. AllCovered(Draft(boot))
  BY DEF CoverInv
<1>3. ASSUME NEW name, NEW w, OfPlan(w), Serve(name, w) \/ Resume(name, w)
      PROVE  CoverInv'
  BY <1>1, <1>3, CoverServe
<1>4. ASSUME NEW kind, NEW p, NEW scope, NEW w, OfPlan(w),
             Ask(kind, boot, p, scope, w)
      PROVE  CoverInv'
  BY <1>1, <1>2, <1>4, CoverAsk
<1>5. CASE PlanTasks \/ OrchestrateTasks \/ DispatchMicroTask
  BY <1>4, <1>5, PlanWritesAre DEF PlanTasks, OrchestrateTasks, DispatchMicroTask
<1>6. CASE TasksPlanned
  <2>1. \E kind, p : Resume(kind, PutPlan(p))
    BY <1>6 DEF TasksPlanned
  <2> QED
    BY <1>3, <2>1, PlanWritesAre
<1>7. CASE MicroTaskDone \/ WaveEnds
  <2>1. \E kind, p : Resume(kind, PutPlan(p)) \/ Resume(kind, <<Put("plan", p)>>)
    BY <1>7 DEF MicroTaskDone, WaveEnds
  <2> QED
    BY <1>3, <2>1, PlanWritesAre
<1>8. CASE ConfirmTasks \/ ApplyTaskPatch \/ RetryTask
  <2>1. \E p : Serve("task", PutPlan(p))
    BY <1>8 DEF ConfirmTasks, ApplyTaskPatch, RetryTask
  <2> QED
    BY <1>3, <2>1, PlanWritesAre
<1>9. CASE StartWave
  <2>1. \/ Serve("task", PutSynced(plan, Current))
        \/ \E p : Serve("task", PutSynced(plan, Current) \o PutPlan(p))
        \/ \E p : Ask("wave", boot, p, {}, PutSynced(plan, Current) \o PutPlan(p))
    BY <1>9 DEF StartWave
  <2>2. /\ OfPlan(PutSynced(plan, Current))
        /\ \A p : OfPlan(PutSynced(plan, Current) \o PutPlan(p))
    BY PlanWritesAre
  <2> QED
    BY <1>3, <1>4, <2>1, <2>2
<1> QED
  BY <1>5, <1>6, <1>7, <1>8, <1>9 DEF Work

-----------------------------------------------------------------------------
\* What a direct edit of nodes or edges writes.
LEMMA DirectWrites ==
  ASSUME IInv, NEW name, NEW raw \in Architecture, Current # Null,
         CommitDirect(name, raw)
  PROVE  \E new \in Architecture :
           /\ Covered(new) /\ new.mods = raw.mods
           /\ name = "node" /\ InReview => Cardinality(new.mods) >= MinModules
           /\ LET flagged == StaleAfterEdit(Current, new)
              IN  \/ /\ InReview
                     /\ Editing(name, <<Put("stale", flagged)>>
                                        \o PutBoot(boot, new), Null)
                  \/ Editing(name, PutEdit(boot, doc, flagged,
                                           Previous(boot, doc), new)
                                     \o PutSynced(plan, new),
                             Previous(boot, doc))
<1> DEFINE n == NormalizeArchitecture(raw)
           new == [n EXCEPT !.claims = Current.claims]
<1>1. n \in Architecture /\ Covered(n) /\ n.mods = raw.mods
  BY NormalizeType, NormalizedIsCovered DEF NormalizeArchitecture, Architecture
<1> HIDE DEF n
<1>2. new \in Architecture
  <2>1. Current.claims \in {"none", "inferred", "settled"}
    BY CurrentType DEF Architecture
  <2> QED
    BY <1>1, <2>1, ClaimsType
<1>3. /\ new.mods = n.mods /\ new.deps = n.deps /\ new.edges = n.edges
  BY <1>1 DEF Architecture
<1>4. Covered(new) /\ new.mods = raw.mods
  <2> HIDE DEF new
  <2> QED BY <1>1, <1>3, SameIsCovered
<1>5. /\ name = "node" /\ InReview => Cardinality(new.mods) >= MinModules
      /\ \/ /\ InReview
            /\ Editing(name, <<Put("stale", StaleAfterEdit(Current, new))>>
                               \o PutBoot(boot, new), Null)
         \/ Editing(name, PutEdit(boot, doc, StaleAfterEdit(Current, new),
                                  Previous(boot, doc), new)
                            \o PutSynced(plan, new),
                    Previous(boot, doc))
  BY DEF CommitDirect, n
<1> HIDE DEF new
<1> QED
  BY <1>2, <1>4, <1>5

LEMMA DirectCovers ==
  ASSUME IInv, CoverInv, NEW name, NEW raw \in Architecture, Current # Null,
         CommitDirect(name, raw)
  PROVE  CoverInv'
<1>1. PICK new \in Architecture :
           /\ Covered(new)
           /\ \/ Editing(name, <<Put("stale", StaleAfterEdit(Current, new))>>
                                 \o PutBoot(boot, new), Null)
              \/ Editing(name, PutEdit(boot, doc, StaleAfterEdit(Current, new),
                                       Previous(boot, doc), new)
                                 \o PutSynced(plan, new),
                         Previous(boot, doc))
  BY DirectWrites
<1> DEFINE flagged == StaleAfterEdit(Current, new)
           previous == Previous(boot, doc)
<1>2. /\ boot \in Bootstrap \cup {Null} /\ doc \in Architecture \cup {Null}
      /\ plan \in GoodPlan \cup {Null} /\ history \in History
      /\ Current \in Architecture
  BY CurrentType DEF IInv, TypeInv
<1>3. previous \in Architecture /\ flagged \in SUBSET Module
  BY <1>2, PreviousType, StaleEditType DEF Current
<1>4. Covered(previous)
  <2>1. boot # Null \/ doc # Null
    BY <1>2, ResolveType DEF Current
  <2> QED
    BY <2>1 DEF CoverInv, AllCovered, Draft, Document, Previous
<1> HIDE DEF flagged, previous
<1>5. AllCovered(Carried(<<Put("stale", flagged)>> \o PutBoot(boot, new)))
  <2> DEFINE r == <<Put("stale", flagged)>>
             u == PutBoot(boot, new)
  <2>1. r \in Seq(Writing)
    <3>1. Put("stale", flagged) \in Writing
      BY <1>3 DEF Put, Writing
    <3> QED
      BY <3>1
  <2>2. u \in Seq(Writing)
    BY <1>2, PutBootIs
  <2>3. Carried(r) = {} /\ Carried(u) \subseteq {new}
    BY <1>2, OneCarries, DraftCarries
  <2> HIDE DEF r, u
  <2>4. Carried(r \o u) = Carried(r) \cup Carried(u)
    BY <2>1, <2>2, BothCarry
  <2>5. AllCovered(Carried(r \o u))
    BY <1>1, <2>3, <2>4 DEF AllCovered
  <2> QED
    BY <2>5 DEF r, u
<1>6. AllCovered(Carried(PutEdit(boot, doc, flagged, previous, new)
                           \o PutSynced(plan, new)))
  <2>1. /\ PutEdit(boot, doc, flagged, previous, new) \in Seq(Writing)
        /\ Carried(PutEdit(boot, doc, flagged, previous, new))
              \subseteq Replaced(history) \cup {previous, new}
    BY <1>2, <1>3, EditCarries
  <2>2. PutSynced(plan, new) \in Seq(Writing) /\ Carried(PutSynced(plan, new)) = {}
    BY <1>2, WorkCarries
  <2>3. Carried(PutEdit(boot, doc, flagged, previous, new) \o PutSynced(plan, new))
          \subseteq Replaced(history) \cup {previous, new}
    BY <2>1, <2>2, BothCarry
  <2> QED
    BY <1>1, <1>4, <2>3 DEF CoverInv, AllCovered
<1> QED
  BY <1>1, <1>5, <1>6, CoverServe DEF flagged, previous

LEMMA EditionCovers ==
  ASSUME IInv, CoverInv, Entry \cap Composer = {}, Edition PROVE CoverInv'
<1>1. /\ boot \in Bootstrap \cup {Null} /\ doc \in Architecture \cup {Null}
      /\ plan \in GoodPlan \cup {Null} /\ history \in History
      /\ Current # Null => Current \in Architecture /\ Covered(Current)
  BY CurrentType, CurrentIsCovered DEF IInv, TypeInv, CoverInv, Current
<1>2. CASE EditArchitecture
  BY <1>2, CoverAsk, NothingCarries DEF EditArchitecture, CoverInv, AllCovered
<1>3. CASE EditAnswered
  <2> DEFINE b == call.boot
             d == call.doc
             old == Resolve(b, d)
             previous == Previous(b, d)
  <2>1. PICK raw \in Drafts :
          Resume("edit",
            PutEdit(b, d, StaleAfterEdit(old, Revised(raw)), previous,
                    Revised(raw))
              \o PutSynced(plan, Revised(raw)))
    BY <1>3 DEF EditAnswered
  <2> DEFINE new == Revised(raw)
             flagged == StaleAfterEdit(old, new)
             v == PutEdit(b, d, flagged, previous, new)
             w == PutSynced(plan, new)
  <2>2. call # Null /\ call.kind = "edit"
    BY <2>1 DEF Resume
  <2>3. /\ b \in Bootstrap \cup {Null} /\ d \in Architecture \cup {Null}
        /\ old # Null /\ AllCovered(Draft(b)) /\ AllCovered(Document(d))
    BY <2>2 DEF IInv, TypeInv, CallShaped, Call, CoverInv
  <2>4. /\ old \in Architecture /\ previous \in Architecture
        /\ new \in Architecture /\ Covered(new)
    BY <2>3, ResolveType, PreviousType, DrawnType, DrawnIsCovered
  <2>5. Covered(previous)
    <3>1. b # Null \/ d # Null
      BY <2>3, ResolveType
    <3> QED
      BY <2>3, <3>1 DEF AllCovered, Draft, Document, Previous
  <2>6. flagged \in SUBSET Module
    BY <2>4, StaleEditType
  <2> HIDE DEF b, d, old, previous, new, flagged
  <2>7. /\ v \in Seq(Writing)
        /\ Carried(v) \subseteq Replaced(history) \cup {previous, new}
    BY <1>1, <2>3, <2>4, <2>6, EditCarries
  <2>8. w \in Seq(Writing) /\ Carried(w) = {}
    BY <1>1, <2>4, WorkCarries
  <2> HIDE DEF v, w
  <2>9. Carried(v \o w) = Carried(v) \cup Carried(w)
    <3>1. v \in Seq(Writing) /\ w \in Seq(Writing)
      BY <2>7, <2>8
    <3> QED
      BY <3>1, BothCarry
  <2>10. AllCovered(Carried(v \o w))
    BY <2>4, <2>5, <2>7, <2>8, <2>9 DEF CoverInv, AllCovered
  <2>11. Resume("edit", v \o w)
    BY <2>1 DEF v, w, new, flagged, old, previous, b, d
  <2> QED
    BY <2>10, <2>11, CoverServe
<1>4. CASE UpdateModuleRequirement
  <2>1. PICK m \in Current.mods, t \in Text :
          LET new == [Current EXCEPT !.text[m] = t]
              previous == IF HasModules(boot) /\ doc # Null THEN doc ELSE new
          IN  Editing("requirement", PutEdit(boot, doc,
                StaleAfterModuleEdit(new, m), previous, new), Null)
    BY <1>4 DEF UpdateModuleRequirement
  <2> DEFINE new == [Current EXCEPT !.text[m] = t]
             previous == IF HasModules(boot) /\ doc # Null THEN doc ELSE new
             flagged == StaleAfterModuleEdit(new, m)
             w == PutEdit(boot, doc, flagged, previous, new)
  <2>2. /\ Current \in Architecture /\ m \in Module /\ Covered(Current)
    BY <1>1, <1>4 DEF UpdateModuleRequirement, Architecture
  <2>3. new \in Architecture
    BY <2>2, TextType
  <2>4. Covered(new)
    <3>1. /\ new.mods = Current.mods /\ new.deps = Current.deps
          /\ new.edges = Current.edges
      BY <2>2 DEF Architecture
    <3> HIDE DEF new
    <3> QED BY <2>2, <3>1, SameIsCovered
  <2>5. Editing("requirement", w, Null)
    BY <2>1
  <2> HIDE DEF new
  <2>6. previous \in Architecture /\ flagged \in SUBSET Module
        /\ Covered(previous)
    BY <1>1, <2>2, <2>3, <2>4, StaleType DEF CoverInv, AllCovered, Document
  <2> HIDE DEF previous, flagged
  <2>7. Carried(w) \subseteq Replaced(history) \cup {previous, new}
    BY <1>1, <2>3, <2>6, EditCarries
  <2> HIDE DEF w
  <2>8. AllCovered(Carried(w))
    BY <2>4, <2>6, <2>7 DEF CoverInv, AllCovered
  <2> QED
    BY <2>5, <2>8, CoverServe
<1>5. CASE UpdateArchitectureNodes \/ UpdateArchitectureEdges
  BY <1>5, DirectIs, DirectCovers
<1>6. CASE UndoArchitecture
  <2> DEFINE a == Last(history)
             h == Front(history)
             r == <<Put("history", h)>>
             s == <<Put("doc", a)>>
             t == PutBoot(boot, a)
             u == <<Put("stale", {})>>
             w == (<<Put("history", h), Put("doc", a)>> \o t) \o u
  <2>1. history # <<>> /\ \E gone : Editing("undo", w, gone)
    BY <1>6 DEF UndoArchitecture
  <2>2. /\ history \in Seq(Architecture) /\ Len(history) \in Nat
        /\ Len(history) >= 1 /\ Len(history) <= HISTORY_MAX
        /\ HISTORY_MAX \in Nat
    BY <1>1, <2>1, StudioAssumption DEF History
  <2>3. a \in Architecture /\ a \in Replaced(history)
    BY <2>2 DEF Last, Replaced
  <2>4. h \in Seq(Architecture) /\ Len(h) <= HISTORY_MAX
        /\ Replaced(h) \subseteq Replaced(history)
    <3> DEFINE n == Len(history) - 1
               p == [i \in 1..n |-> history[i]]
    <3>1. n \in Nat /\ \A i \in 1..n : history[i] \in Architecture
      BY <2>2
    <3>2. h = SubSeq(history, 1, n)
      BY DEF Front
    <3> HIDE DEF h
    <3>3. h = p
      BY <2>2, <3>1, <3>2
    <3>4. p \in Seq(Architecture) /\ Len(p) = n
      BY <3>1
    <3>5. \A i \in 1..n : p[i] = history[i] /\ i \in 1..Len(history)
      BY <2>2
    <3> HIDE DEF p
    <3>6. Replaced(p) \subseteq Replaced(history)
      BY <3>4, <3>5 DEF Replaced
    <3> QED
      BY <2>2, <3>3, <3>4, <3>6
  <2> HIDE DEF a, h
  <2>5. /\ r \in Seq(Writing) /\ s \in Seq(Writing) /\ u \in Seq(Writing)
        /\ t \in Seq(Writing)
    <3>1. /\ Put("history", h) \in Writing /\ Put("doc", a) \in Writing
          /\ Put("stale", {}) \in Writing
      BY <2>3, <2>4 DEF Put, Writing, History
    <3> QED
      BY <1>1, <2>3, <3>1, PutBootIs
  <2>6. w = ((r \o s) \o t) \o u
    OBVIOUS
  <2>7. /\ Carried(r) = Replaced(h) /\ Carried(s) = {a} /\ Carried(u) = {}
        /\ Carried(t) \subseteq {a}
    BY <1>1, <2>3, OneCarries, DraftCarries
  <2> HIDE DEF r, s, t, u, w
  <2>8. \A file : Says(file, w) = Says(file, r) \cup Says(file, s)
                                    \cup Says(file, t) \cup Says(file, u)
    BY <2>5, <2>6, FourWritten
  <2>9. Carried(w) = Carried(r) \cup Carried(s) \cup Carried(t) \cup Carried(u)
    BY <2>8 DEF Carried
  <2>10. AllCovered(Carried(w))
    BY <2>3, <2>4, <2>7, <2>9 DEF CoverInv, AllCovered
  <2> QED
    BY <2>1, <2>10, CoverServe
<1>7. CASE ClearStale
  <2>1. PICK S : Serve("clear", <<Put("stale", S)>>)
    BY <1>7 DEF ClearStale
  <2>2. AllCovered(Carried(<<Put("stale", S)>>))
    BY OneCarries DEF AllCovered
  <2> QED
    BY <2>1, <2>2, CoverServe
<1> QED
  BY <1>2, <1>3, <1>4, <1>5, <1>6, <1>7 DEF Edition

LEMMA CoverKeeps ==
  ASSUME IInv, CoverInv, Entry \cap Composer = {}, [Next]_vars PROVE CoverInv'
<1>1. CASE Interview
  BY <1>1, InterviewCovers
<1>2. CASE Gate
  BY <1>2, GateCovers
<1>3. CASE Edition
  BY <1>3, EditionCovers
<1>4. CASE Work
  BY <1>4, WorkCovers
<1>5. CASE ModelFails
  <2> DEFINE v == [call.boot EXCEPT !.failed = TRUE]
  <2>1. PICK kind \in Waits \ {"wave"} :
          Resume(kind, IF kind # "answer" THEN <<>> ELSE <<Put("boot", v)>>)
    BY <1>5 DEF ModelFails
  <2>2. CASE kind # "answer"
    <3>1. Resume(kind, <<>>) /\ AllCovered(Carried(<<>>))
      BY <2>1, <2>2, NothingCarries DEF AllCovered
    <3> QED
      BY <3>1, CoverServe
  <2>3. CASE kind = "answer"
    <3>1. Resume(kind, <<Put("boot", v)>>)
      BY <2>1, <2>3
    <3>2. call # Null /\ call.boot \in Bootstrap /\ call.boot # Null
      BY <2>3, <3>1 DEF Resume, IInv, TypeInv, CallShaped, Call
    <3>3. v.arch = call.boot.arch
      BY <3>2 DEF Bootstrap
    <3>4. Covered(call.boot.arch)
      BY <3>2 DEF CoverInv, AllCovered, Draft
    <3> HIDE DEF v
    <3>5. AllCovered(Carried(<<Put("boot", v)>>))
      BY <3>3, <3>4, OneCarries DEF AllCovered
    <3> QED
      BY <3>1, <3>5, CoverServe
  <2> QED
    BY <2>2, <2>3
<1>6. CASE WriteNext
  <2>1. /\ pending \in Seq(Writing) /\ pending # <<>> /\ pending' = Tail(pending)
        /\ boot' = IF Head(pending).file = "boot" THEN Head(pending).value ELSE boot
        /\ doc' = IF Head(pending).file = "doc" THEN Head(pending).value ELSE doc
        /\ history' = IF Head(pending).file = "history" THEN Head(pending).value
                      ELSE history
        /\ call' = call
    BY <1>6 DEF WriteNext, IInv, TypeInv
  <2>2. \A file : /\ Says(file, pending') \subseteq Says(file, pending)
                  /\ Head(pending).file = file =>
                       Head(pending).value \in Says(file, pending)
    BY <2>1, HeadSays
  <2>3. /\ Draft(boot') \subseteq Draft(boot) \cup {v.arch : v \in Says("boot", pending)}
        /\ Document(doc') \subseteq Document(doc) \cup Says("doc", pending)
        /\ history' = history \/ history' \in Says("history", pending)
    BY <2>1, <2>2 DEF Draft, Document
  <2>4. Carried(pending') \subseteq Carried(pending)
    BY <2>2 DEF Carried
  <2>5. Replaced(history') \subseteq Replaced(history)
          \cup UNION {Replaced(h) : h \in Says("history", pending)}
    BY <2>3
  <2> QED
    BY <2>1, <2>3, <2>4, <2>5 DEF CoverInv, AllCovered, Carried
<1>7. CASE Crash
  <2>1. UNCHANGED files /\ pending' = <<>> /\ call' = Null
    BY <1>7 DEF Crash
  <2> QED
    BY <2>1, CoverBegin, NothingCarries DEF AllCovered
<1>8. CASE UNCHANGED vars
  BY <1>8 DEF vars, files, CoverInv
<1> QED
  BY <1>1, <1>2, <1>3, <1>4, <1>5, <1>6, <1>7, <1>8 DEF Next, Done

LEMMA CoverInit == ASSUME Init, Entry \cap Composer = {} PROVE CoverInv
<1>1. history = <<>> /\ pending = <<>> /\ call = Null
  BY DEF Init
<1>2. AllCovered(Draft(boot)) /\ AllCovered(Document(doc))
  <2>1. CASE boot = Null /\ plan = Null
             /\ doc \in {Null, MigrateArchitectureShape(Handmade, {})}
    BY <2>1, MigratedIsCovered, StudioAssumption DEF AllCovered, Draft, Document
  <2>2. ASSUME NEW raw \in Drafts,
               LET a == [Drawn(raw) EXCEPT !.claims = "settled"]
               IN  \/ boot = Begun(a, "ready") /\ doc = Null /\ plan = Null
                   \/ /\ boot = Begun(a, "initialized") /\ doc = a
                      /\ plan = SyncWorkItems(Null, a)
        PROVE  AllCovered(Draft(boot)) /\ AllCovered(Document(doc))
    <3> DEFINE a == [Drawn(raw) EXCEPT !.claims = "settled"]
    <3>1. Drawn(raw) \in Architecture /\ Covered(Drawn(raw))
      BY DrawnType, DrawnIsCovered
    <3>2. /\ a.mods = Drawn(raw).mods /\ a.deps = Drawn(raw).deps
          /\ a.edges = Drawn(raw).edges
      BY <3>1 DEF Architecture
    <3> HIDE DEF a
    <3>3. Covered(a)
      BY <3>1, <3>2, SameIsCovered
    <3>4. \A status : Begun(a, status).arch = a
      BY DEF Begun, Fresh
    <3>5. doc \in {Null, a}
          /\ (boot = Begun(a, "ready") \/ boot = Begun(a, "initialized"))
      BY <2>2 DEF a
    <3> QED
      BY <3>3, <3>4, <3>5 DEF AllCovered, Draft, Document
  <2> QED
    BY <2>1, <2>2 DEF Init
<1>3. AllCovered(Replaced(<<>>)) /\ AllCovered(Carried(<<>>))
  BY NothingCarries DEF AllCovered, Replaced
<1> QED
  BY <1>1, <1>2, <1>3 DEF CoverInv

-----------------------------------------------------------------------------
(* The rest of an edit: its flags before its architecture.               *)

\* Where the writes for a file stand.
LEMMA AtBoth ==
  ASSUME NEW S, NEW s \in Seq(S), NEW t \in Seq(S), NEW file
  PROVE  /\ \A i \in At(file, s \o t) :
              i \in At(file, s) \/ \E j \in At(file, t) : i = Len(s) + j
         /\ \A i \in At(file, s) : i \in At(file, s \o t)
         /\ \A j \in At(file, t) : Len(s) + j \in At(file, s \o t)
<1> DEFINE u == s \o t
           m == Len(s)
           n == Len(t)
<1>1. u \in Seq(S) /\ Len(u) = m + n /\ m \in Nat /\ n \in Nat
  OBVIOUS
<1>2. /\ \A i \in 1..m : u[i] = s[i]
      /\ \A i \in 1..n : u[m + i] = t[i]
      /\ \A i \in 1..(m + n) : i \in 1..m \/ (i - m \in 1..n /\ i = m + (i - m))
  OBVIOUS
<1> HIDE DEF u, m, n
<1>3. ASSUME NEW i \in At(file, u)
      PROVE  i \in At(file, s) \/ \E j \in At(file, t) : i = m + j
  <2>1. i \in 1..(m + n) /\ u[i].file = file
    BY <1>1 DEF At
  <2>2. CASE i \in 1..m
    BY <1>2, <2>1, <2>2 DEF At, m
  <2>3. CASE i - m \in 1..n /\ i = m + (i - m)
    <3>1. i - m \in At(file, t)
      BY <1>2, <2>1, <2>3 DEF At, n
    <3> QED
      BY <2>3, <3>1
  <2> QED
    BY <1>2, <2>1, <2>2, <2>3
<1>4. \A i \in At(file, s) : i \in At(file, u)
  BY <1>1, <1>2 DEF At, m
<1>5. \A j \in At(file, t) : m + j \in At(file, u)
  BY <1>1, <1>2 DEF At, n
<1> QED
  BY <1>3, <1>4, <1>5 DEF u, m

LEMMA AtTail ==
  ASSUME NEW S, NEW s \in Seq(S), s # <<>>, NEW file
  PROVE  /\ \A i \in At(file, Tail(s)) : i \in Nat \ {0} /\ i + 1 \in At(file, s)
         /\ \A i \in At(file, s) : i = 1 \/ i - 1 \in At(file, Tail(s))
         /\ 1 \in At(file, s) <=> Head(s).file = file
<1> DEFINE t == Tail(s)
<1>1. /\ Len(s) \in Nat /\ 1 \in 1..Len(s) /\ Head(s) = s[1]
      /\ Len(t) = Len(s) - 1 /\ \A i \in 1..Len(t) : t[i] = s[i + 1]
  OBVIOUS
<1> HIDE DEF t
<1>2. \A i \in At(file, t) : i \in Nat \ {0} /\ i + 1 \in At(file, s)
  BY <1>1 DEF At
<1>3. ASSUME NEW i \in At(file, s), i # 1 PROVE i - 1 \in At(file, t)
  <2>1. i - 1 \in 1..Len(t) /\ t[i - 1] = s[i]
    BY <1>1, <1>3 DEF At
  <2> QED
    BY <1>3, <2>1 DEF At
<1> QED
  BY <1>1, <1>2, <1>3 DEF At, t

LEMMA AtOne ==
  ASSUME NEW file, NEW name, NEW value
  PROVE  At(file, <<Put(name, value)>>) = IF name = file THEN {1} ELSE {}
<1> DEFINE s == <<Put(name, value)>>
<1>1. s \in Seq({Put(name, value)}) /\ Len(s) = 1 /\ s[1].file = name
  BY DEF Put
<1> HIDE DEF s
<1>2. At(file, s) = IF name = file THEN {1} ELSE {}
  BY <1>1 DEF At
<1> QED
  BY <1>2 DEF s

LEMMA NotSaid ==
  ASSUME NEW S, NEW s \in Seq(S), NEW file, Says(file, s) = {}
  PROVE  At(file, s) = {} /\ \A old : Will(file, old, s) = old
BY DEF Says, Will

-----------------------------------------------------------------------------
\* The writes of an edit: its flags first, the document before the draft.
DocFirst(w) == \A i \in At("boot", w), j \in At("doc", w) : j < i

FlagsThen(flagged, new, w) ==
  /\ w \in Seq(Writing) /\ w # <<>>
  /\ At("stale", w) \subseteq {1} /\ \A old : Will("stale", old, w) = flagged
  /\ \A v \in Says("doc", w) : v = new
  /\ \A v \in Says("boot", w) : v.arch = new
  /\ DocFirst(w)

LEMMA FlagsOnly ==
  ASSUME NEW flagged \in SUBSET Module, NEW new
  PROVE  /\ FlagsThen(flagged, new, <<Put("stale", flagged)>>)
         /\ Says("boot", <<Put("stale", flagged)>>) = {}
<1> DEFINE w == <<Put("stale", flagged)>>
<1>1. w \in Seq(Writing) /\ w # <<>>
  <2>1. Put("stale", flagged) \in Writing
    BY DEF Put, Writing
  <2> QED
    BY <2>1
<1>2. At("stale", w) = {1} /\ \A old : Will("stale", old, w) = flagged
  BY AtOne, OneWritten
<1>3. Says("doc", w) = {} /\ Says("boot", w) = {} /\ At("boot", w) = {}
  BY OneSays, AtOne
<1> HIDE DEF w
<1>4. FlagsThen(flagged, new, w) /\ Says("boot", w) = {}
  BY <1>1, <1>2, <1>3 DEF FlagsThen, DocFirst
<1> QED
  BY <1>4 DEF w

\* More writes after them.
LEMMA FlagsThenMore ==
  ASSUME NEW flagged, NEW new, NEW v, FlagsThen(flagged, new, v),
         NEW w \in Seq(Writing), Says("stale", w) = {},
         \A x \in Says("doc", w) : x = new,
         \A x \in Says("boot", w) : x.arch = new,
         Says("boot", v) = {} \/ Says("doc", w) = {},
         Says("boot", w) = {} \/ Says("doc", w) = {}
  PROVE  /\ FlagsThen(flagged, new, v \o w)
         /\ Says("boot", v \o w) = Says("boot", v) \cup Says("boot", w)
         /\ Says("doc", v \o w) = Says("doc", v) \cup Says("doc", w)
<1> DEFINE u == v \o w
<1>1. v \in Seq(Writing) /\ v # <<>>
  BY DEF FlagsThen
<1>2. u \in Seq(Writing) /\ u # <<>>
  BY <1>1
<1>3. \A file : Says(file, u) = Says(file, v) \cup Says(file, w)
  BY <1>1, BothSay
<1>4. \A old : Will("stale", old, u) = flagged
  <2>1. \A old : Will("stale", old, u) = Will("stale", Will("stale", old, v), w)
    BY <1>1, BothWritten
  <2> QED
    BY <2>1, NotSaid DEF FlagsThen
<1>5. \A file : /\ \A i \in At(file, u) :
                     i \in At(file, v) \/ \E j \in At(file, w) : i = Len(v) + j
  BY <1>1, AtBoth
<1>6. \A file : /\ \A i \in At(file, v) : i \in 1..Len(v)
                /\ \A j \in At(file, w) : j \in 1..Len(w)
  BY DEF At
<1>7. Len(v) \in Nat /\ Len(w) \in Nat
  BY <1>1
<1> HIDE DEF u
<1>8. At("stale", u) \subseteq {1}
  BY <1>5, NotSaid DEF FlagsThen
<1>9. DocFirst(u)
  <2> SUFFICES ASSUME NEW i \in At("boot", u), NEW j \in At("doc", u)
               PROVE  j < i
    BY DEF DocFirst
  <2>1. CASE i \in At("boot", v) /\ j \in At("doc", v)
    BY <2>1 DEF FlagsThen, DocFirst
  <2>2. CASE i \in At("boot", v) /\ j \notin At("doc", v)
    <3>1. Says("boot", v) # {} /\ Says("doc", w) # {}
      BY <1>5, <2>2 DEF Says
    <3> QED
      BY <3>1
  <2>3. CASE i \notin At("boot", v) /\ j \in At("doc", v)
    <3>1. PICK k \in At("boot", w) : i = Len(v) + k
      BY <1>5, <2>3
    <3>2. k \in 1..Len(w) /\ j \in 1..Len(v)
      BY <1>6, <2>3
    <3> QED
      BY <1>7, <3>1, <3>2
  <2>4. CASE i \notin At("boot", v) /\ j \notin At("doc", v)
    <3>1. Says("boot", w) # {} /\ Says("doc", w) # {}
      BY <1>5, <2>4 DEF Says
    <3> QED
      BY <3>1
  <2> QED
    BY <2>1, <2>2, <2>3, <2>4
<1>10. FlagsThen(flagged, new, u)
  BY <1>2, <1>3, <1>4, <1>8, <1>9 DEF FlagsThen
<1> QED
  BY <1>3, <1>10 DEF u


LEMMA EditFlagsFirst ==
  ASSUME history \in History, NEW b \in Bootstrap \cup {Null}, NEW d,
         NEW flagged \in SUBSET Module, NEW previous \in Architecture,
         NEW new \in Architecture
  PROVE  LET w == PutEdit(b, d, flagged, previous, new)
         IN  FlagsThen(flagged, new, w) /\ Says("doc", w) = {new}
<1> DEFINE r == <<Put("stale", flagged)>>
           s == Push(previous, new)
           t == <<Put("doc", new)>>
           u == PutBoot(b, new)
<1>1. PICK h \in History : s = <<Put("history", h)>>
  BY PushIs
<1>2. FlagsThen(flagged, new, r) /\ Says("boot", r) = {} /\ Says("doc", r) = {}
  BY FlagsOnly, OneSays
<1>3. /\ s \in Seq(Writing) /\ t \in Seq(Writing)
  <2>1. Put("history", h) \in Writing /\ Put("doc", new) \in Writing
    BY DEF Put, Writing
  <2> QED
    BY <1>1, <2>1
<1>4. /\ \A file \in {"stale", "doc", "boot"} : Says(file, s) = {}
      /\ Says("stale", t) = {} /\ Says("boot", t) = {} /\ Says("doc", t) = {new}
  <2>1. Says("stale", t) = {} /\ Says("boot", t) = {} /\ Says("doc", t) = {new}
    BY OneSays
  <2>2. \A file \in {"stale", "doc", "boot"} :
          Says(file, <<Put("history", h)>>) = {}
    <3> TAKE file \in {"stale", "doc", "boot"}
    <3> QED
      BY OneSays
  <2> HIDE DEF s, t
  <2> QED
    BY <1>1, <2>1, <2>2
<1>5. /\ u \in Seq(Writing) /\ Says("stale", u) = {} /\ Says("doc", u) = {}
      /\ \A x \in Says("boot", u) : x.arch = new
  <2>1. u \in Seq(Writing)
        /\ Says("boot", u) = IF b = Null THEN {} ELSE {[b EXCEPT !.arch = new]}
    BY PutBootIs
  <2>2. b # Null => [b EXCEPT !.arch = new].arch = new
    BY DEF Bootstrap
  <2>3. Says("stale", u) = {} /\ Says("doc", u) = {}
    BY DraftCarries
  <2> HIDE DEF u
  <2> QED
    BY <2>1, <2>2, <2>3
<1>6. PutEdit(b, d, flagged, previous, new) = ((r \o s) \o t) \o u
  BY DEF PutEdit
<1> HIDE DEF r, s, t, u
<1>7. FlagsThen(flagged, new, r \o s) /\ Says("boot", r \o s) = {}
      /\ Says("doc", r \o s) = {}
  BY <1>2, <1>3, <1>4, FlagsThenMore
<1>8. FlagsThen(flagged, new, (r \o s) \o t) /\ Says("doc", (r \o s) \o t) = {new}
  BY <1>3, <1>4, <1>7, FlagsThenMore
<1>9. /\ FlagsThen(flagged, new, ((r \o s) \o t) \o u)
      /\ Says("doc", ((r \o s) \o t) \o u) = {new}
  BY <1>5, <1>8, FlagsThenMore
<1> QED
  BY <1>6, <1>9

\* What the canvas shows of an architecture.
Look(a) == IF a.mods = {} THEN NoArchitecture ELSE a

\* What depends on what the user is told of an edit is in X.
Flags(old, new, X) ==
  Unbroken(new) => Dependents(DependsOn(new), Changed(old, new)) \subseteq X

\* What the rest of an edit's writes leads to: what depends on a change of
\* what is shown is flagged, or will be by the next write.
LeadsTo(new) ==
  /\ At("stale", pending) \subseteq {1}
  /\ \A v \in Says("doc", pending) : v = new
  /\ \A v \in Says("boot", pending) : v.arch = new
  /\ DocFirst(pending)
  /\ new.mods = {} => doc = Null \/ doc.mods = {} \/ Says("doc", pending) # {}
  /\ Flags(Shown, Look(new), Will("stale", stale, pending))

FlagInv ==
  handler \in Edits /\ pending # <<>> => \E new \in Architecture : LeadsTo(new)

LEMMA LookType ==
  ASSUME NEW a \in Architecture
  PROVE  /\ Look(a) \in Architecture /\ Look(a).mods = a.mods
         /\ DependsOn(Look(a)) = DependsOn(a)
         /\ \A old \in Architecture : Changed(old, Look(a)) = Changed(old, a)
<1>1. NoArchitecture.mods = {}
  BY DEF NoArchitecture
<1> QED
  BY <1>1, EmptyType DEF Look, DependsOn, Changed

\* The flags of a model's or a direct edit, and of another requirement.
LEMMA EditFlags ==
  ASSUME NEW old \in Architecture, NEW new \in Architecture, Covered(new)
  PROVE  Flags(old, Look(new), StaleAfterEdit(old, new))
<1>1. /\ new.edges \in SUBSET Edge /\ DependsOn(new) \in SUBSET Edge
  BY BoundEdges
<1>2. Changed(old, new) \in SUBSET Module
  BY DEF Changed, Architecture
<1>3. ASSUME Unbroken(Look(new))
      PROVE  \A e \in DependsOn(new) : Reaches(new.edges, e.from, e.to)
  <2>1. CASE new.mods = {}
    BY <2>1 DEF DependsOn
  <2>2. CASE new.mods # {}
    BY <1>3, <2>2 DEF Covered, Look
  <2> QED
    BY <2>1, <2>2
<1> QED
  BY <1>1, <1>2, <1>3, LookType, DependentsWithin DEF Flags, StaleAfterEdit

LEMMA RequirementFlags ==
  ASSUME NEW old \in Architecture, NEW m \in old.mods, NEW t \in Text,
         Covered(old)
  PROVE  LET new == [old EXCEPT !.text[m] = t]
         IN  Flags(old, Look(new), StaleAfterModuleEdit(new, m))
<1> DEFINE new == [old EXCEPT !.text[m] = t]
<1>1. /\ new.mods = old.mods /\ new.deps = old.deps /\ new.edges = old.edges
      /\ \A n \in Module \ {m} : new.text[n] = old.text[n]
      /\ m \in Module
  BY DEF Architecture
<1>2. new \in Architecture
  BY <1>1, TextType
<1> HIDE DEF new
<1>3. Covered(new)
  BY <1>1, SameIsCovered
<1>4. Changed(old, new) \subseteq {m}
  BY <1>1 DEF Changed, Architecture
<1>5. /\ new.edges \in SUBSET Edge /\ DependsOn(new) \in SUBSET Edge
  BY <1>2, BoundEdges
<1>6. Look(new) = new
  BY <1>1 DEF Look
<1>7. ASSUME Unbroken(new)
      PROVE  Dependents(DependsOn(new), Changed(old, new))
               \subseteq Dependents(new.edges, {m})
  <2>1. \A e \in DependsOn(new) : Reaches(new.edges, e.from, e.to)
    BY <1>3, <1>7 DEF Covered
  <2>2. {m} \in SUBSET Module /\ Changed(old, new) \in SUBSET Module
    BY <1>1, <1>4
  <2>3. Dependents(DependsOn(new), Changed(old, new))
          \subseteq Dependents(new.edges, Changed(old, new))
    BY <1>5, <2>1, <2>2, DependentsWithin
  <2>4. Dependents(new.edges, Changed(old, new)) \subseteq Dependents(new.edges, {m})
    <3> DEFINE R == Reversed(new.edges)
    <3>1. R \in SUBSET Edge
      BY <1>5, ReversedIsEdges
    <3> HIDE DEF R
    <3>2. ReachedFrom(R, Changed(old, new)) \subseteq ReachedFrom(R, {m})
      <4>1. {m} \subseteq ReachedFrom(R, {m}) /\ Closed(R, ReachedFrom(R, {m}))
        BY <2>2, <3>1, ReachedIsLeast
      <4>2. Changed(old, new) \subseteq ReachedFrom(R, {m})
        BY <1>4, <4>1
      <4> QED
        BY <2>2, <3>1, <4>1, <4>2, ReachedIsLeast
    <3> QED
      BY <3>2 DEF Dependents, R
  <2> QED
    BY <2>3, <2>4
<1>8. Flags(old, Look(new), StaleAfterModuleEdit(new, m))
  BY <1>6, <1>7 DEF Flags, StaleAfterModuleEdit
<1> QED
  BY <1>8 DEF new

\* Nothing has changed in what is shown.
LEMMA SameFlags ==
  ASSUME NEW a \in Architecture, NEW X PROVE Flags(a, a, X)
<1>1. Changed(a, a) = {}
  BY DEF Changed
<1>2. Reversed(DependsOn(a)) \in SUBSET Edge
  BY DependsIsEdges, ReversedIsEdges
<1>3. Closed(Reversed(DependsOn(a)), {})
  BY DEF Closed
<1>4. ReachedFrom(Reversed(DependsOn(a)), {}) \subseteq {}
  <2>1. {} \in SUBSET Module
    OBVIOUS
  <2> QED
    BY <1>2, <1>3, <2>1, ReachedIsLeast
<1> QED
  BY <1>1, <1>4 DEF Flags, Dependents

\* But for a name or a verification, what is told is what the flags go by.
LEMMA ToldIsChanged ==
  ASSUME NEW old \in Architecture, NEW new \in Architecture
  PROVE  LET delta == CompareArchitectures(old, new)
         IN  delta.added \cup delta.removed
               \cup (delta.changed \ delta.relabelled) = Changed(old, new)
BY DEF CompareArchitectures, Changed

LEMMA FlagBegin ==
  ASSUME TypeInv, pending = <<>>, UNCHANGED files, NEW w, pending' = w,
         NEW new \in Architecture, NEW flagged, FlagsThen(flagged, new, w),
         new.mods = {} => Says("doc", w) # {},
         Flags(Shown, Look(new), flagged)
  PROVE  FlagInv'
<1>1. Shown' = Shown /\ stale' = stale /\ doc' = doc
  BY DEF files, Shown, Current
<1>2. /\ At("stale", w) \subseteq {1} /\ DocFirst(w)
      /\ \A v \in Says("doc", w) : v = new
      /\ \A v \in Says("boot", w) : v.arch = new
      /\ Will("stale", stale, w) = flagged
  BY DEF FlagsThen
<1>3. LeadsTo(new)'
  BY <1>1, <1>2 DEF LeadsTo
<1> QED
  BY <1>3 DEF FlagInv

LEMMA NoEditFlags ==
  ASSUME handler' \notin Edits \/ pending' = <<>> PROVE FlagInv'
BY DEF FlagInv

\* Other requests edit nothing.
LEMMA OthersEditNothing ==
  ASSUME \/ Interview \/ Gate \/ Work \/ ModelFails \/ Crash
         \/ EditArchitecture \/ UndoArchitecture \/ ClearStale
  PROVE  handler' \notin Edits \/ pending' = <<>>
<1>1. CASE Interview
  BY <1>1 DEF Interview, StartBootstrap, StreamBootstrapStart, AnswerBootstrap,
     StreamBootstrapAnswer, ReviseBootstrap, InterviewTurn, Turn, Serve, Ask,
     Resume, Write, Edits, Direct
<1>2. CASE Gate
  BY <1>2 DEF Gate, UpdateProvenance, ConfirmBootstrap, FinalizeBootstrap,
     Finalized, ReopenArchitectureReview, Serve, Ask, Resume, Write, Edits, Direct
<1>3. CASE Work
  BY <1>3 DEF Work, PlanTasks, OrchestrateTasks, TasksPlanned, ConfirmTasks,
     DispatchMicroTask, MicroTaskDone, StartWave, WaveEnds, ApplyTaskPatch,
     RetryTask, Serve, Ask, Resume, Write, Edits, Direct
<1>4. CASE ModelFails
  BY <1>4 DEF ModelFails, Resume, Write, Edits, Direct
<1>5. CASE Crash
  BY <1>5 DEF Crash
<1>6. CASE EditArchitecture
  BY <1>6 DEF EditArchitecture, Ask, Write
<1>7. CASE UndoArchitecture \/ ClearStale
  BY <1>7 DEF UndoArchitecture, ClearStale, Editing, Serve, Write, Edits, Direct
<1> QED
  BY <1>1, <1>2, <1>3, <1>4, <1>5, <1>6, <1>7

\* There is always something to work on where an edit begins.
LEMMA CurrentIsShown ==
  ASSUME IInv, Current # Null
  PROVE  Current \in Architecture /\ Shown = Current /\ Current.mods # {}
<1>1. Current \in Architecture
  BY CurrentType
<1>2. Current.mods # {}
  BY DEF Current, Resolve, HasModules
<1> QED
  BY <1>1, <1>2 DEF Shown

LEMMA DirectFlags ==
  ASSUME IInv, UpdateArchitectureNodes \/ UpdateArchitectureEdges PROVE FlagInv'
<1>1. PICK name \in {"node", "edge"}, raw \in Architecture :
        /\ Current # Null
        /\ name = "edge" => raw.mods = Current.mods
        /\ CommitDirect(name, raw)
  BY DirectIs
<1>2. PICK new \in Architecture :
        /\ Covered(new) /\ new.mods = raw.mods
        /\ name = "node" /\ InReview => Cardinality(new.mods) >= MinModules
        /\ LET flagged == StaleAfterEdit(Current, new)
           IN  \/ /\ InReview
                  /\ Editing(name, <<Put("stale", flagged)>>
                                     \o PutBoot(boot, new), Null)
               \/ Editing(name, PutEdit(boot, doc, flagged,
                                        Previous(boot, doc), new)
                                  \o PutSynced(plan, new),
                          Previous(boot, doc))
  BY <1>1, DirectWrites
<1> DEFINE flagged == StaleAfterEdit(Current, new)
           previous == Previous(boot, doc)
<1>3. /\ boot \in Bootstrap \cup {Null} /\ doc \in Architecture \cup {Null}
      /\ plan \in GoodPlan \cup {Null} /\ history \in History /\ TypeInv
      /\ Current \in Architecture /\ Current.mods # {} /\ Shown = Current
  BY <1>1, CurrentType, CurrentIsShown DEF IInv, TypeInv
<1>4. previous \in Architecture /\ flagged \in SUBSET Module
  BY <1>1, <1>3, PreviousType, StaleEditType DEF Current
<1>5. Flags(Shown, Look(new), flagged)
  BY <1>2, <1>3, EditFlags
<1>6. \/ InReview /\ Editing(name, <<Put("stale", flagged)>> \o PutBoot(boot, new), Null)
      \/ Editing(name, PutEdit(boot, doc, flagged, previous, new)
                         \o PutSynced(plan, new), previous)
  BY <1>2
<1> HIDE DEF flagged, previous
<1>7. CASE InReview /\ Editing(name, <<Put("stale", flagged)>> \o PutBoot(boot, new), Null)
  <2> DEFINE r == <<Put("stale", flagged)>>
             u == PutBoot(boot, new)
  <2>1. FlagsThen(flagged, new, r) /\ Says("boot", r) = {}
    BY <1>4, FlagsOnly
  <2>2. /\ u \in Seq(Writing) /\ Says("stale", u) = {} /\ Says("doc", u) = {}
        /\ \A x \in Says("boot", u) : x.arch = new
    <3>1. u \in Seq(Writing)
          /\ Says("boot", u) = IF boot = Null THEN {} ELSE {[boot EXCEPT !.arch = new]}
      BY <1>3, PutBootIs
    <3>2. boot # Null => [boot EXCEPT !.arch = new].arch = new
      BY <1>3 DEF Bootstrap
    <3>3. Says("stale", u) = {} /\ Says("doc", u) = {}
      BY <1>3, DraftCarries
    <3> HIDE DEF u
    <3> QED
      BY <3>1, <3>2, <3>3
  <2>3. Editing(name, r \o u, Null)
    BY <1>7
  <2> HIDE DEF r, u
  <2>4. FlagsThen(flagged, new, r \o u)
    BY <2>1, <2>2, FlagsThenMore
  <2>5. new.mods # {}
    <3>1. CASE name = "edge"
      BY <1>1, <1>2, <1>3, <3>1
    <3>2. CASE name = "node"
      <4>1. Cardinality(new.mods) >= MinModules /\ MinModules \in Nat \ {0}
        BY <1>2, <1>7, <3>2, GraphAssumption
      <4>2. Cardinality({}) = 0
        BY FS_EmptySet
      <4> QED
        BY <4>1, <4>2
    <3> QED
      BY <3>1, <3>2
  <2>6. pending = <<>> /\ UNCHANGED files /\ pending' = r \o u
    BY <2>3 DEF Editing, Free, Write
  <2> QED
    BY <1>3, <1>5, <2>4, <2>5, <2>6, FlagBegin
<1>8. CASE Editing(name, PutEdit(boot, doc, flagged, previous, new)
                           \o PutSynced(plan, new), previous)
  <2> DEFINE v == PutEdit(boot, doc, flagged, previous, new)
             w == PutSynced(plan, new)
  <2>1. FlagsThen(flagged, new, v) /\ Says("doc", v) = {new}
    BY <1>3, <1>4, EditFlagsFirst
  <2>2. w \in Seq(Writing)
    BY <1>3, WorkCarries
  <2>3. \A file \in {"boot", "doc", "stale"} : Says(file, w) = {}
    BY PlanWritesAre, PlanSays
  <2>4. Editing(name, v \o w, previous)
    BY <1>8
  <2> HIDE DEF v, w
  <2>5. FlagsThen(flagged, new, v \o w) /\ Says("doc", v \o w) = {new}
    BY <2>1, <2>2, <2>3, FlagsThenMore
  <2>6. pending = <<>> /\ UNCHANGED files /\ pending' = v \o w
    BY <2>4 DEF Editing, Free, Write
  <2> QED
    BY <1>3, <1>5, <2>5, <2>6, FlagBegin
<1> QED
  BY <1>6, <1>7, <1>8

LEMMA RequirementIsFlagged ==
  ASSUME IInv, CoverInv, UpdateModuleRequirement PROVE FlagInv'
<1>1. PICK m \in Current.mods, t \in Text :
        LET new == [Current EXCEPT !.text[m] = t]
            previous == IF HasModules(boot) /\ doc # Null THEN doc ELSE new
        IN  Editing("requirement", PutEdit(boot, doc,
              StaleAfterModuleEdit(new, m), previous, new), Null)
  BY DEF UpdateModuleRequirement
<1> DEFINE new == [Current EXCEPT !.text[m] = t]
           previous == IF HasModules(boot) /\ doc # Null THEN doc ELSE new
           flagged == StaleAfterModuleEdit(new, m)
           w == PutEdit(boot, doc, flagged, previous, new)
<1>2. /\ boot \in Bootstrap \cup {Null} /\ doc \in Architecture \cup {Null}
      /\ history \in History /\ TypeInv
      /\ Current \in Architecture /\ Shown = Current /\ m \in Module
      /\ Covered(Current)
  <2>1. Current # Null
    BY DEF UpdateModuleRequirement
  <2>2. Current \in Architecture /\ Shown = Current /\ Covered(Current)
    BY <2>1, CurrentIsShown, CurrentIsCovered DEF CoverInv, Current
  <2> QED
    BY <2>2 DEF IInv, TypeInv, Architecture
<1>3. new \in Architecture
  BY <1>2, TextType
<1>4. Editing("requirement", w, Null)
  BY <1>1
<1>5. Flags(Shown, Look(new), flagged)
  BY <1>2, RequirementFlags
<1> HIDE DEF new
<1>6. previous \in Architecture /\ flagged \in SUBSET Module
  BY <1>2, <1>3, StaleType
<1> HIDE DEF previous, flagged
<1>7. FlagsThen(flagged, new, w) /\ Says("doc", w) = {new}
  BY <1>2, <1>3, <1>6, EditFlagsFirst
<1> HIDE DEF w
<1>8. pending = <<>> /\ UNCHANGED files /\ pending' = w
  BY <1>4 DEF Editing, Free, Write
<1> QED
  BY <1>2, <1>3, <1>5, <1>7, <1>8, FlagBegin

LEMMA AnswerIsFlagged ==
  ASSUME IInv, ~ Overlap, Entry \cap Composer = {}, EditAnswered PROVE FlagInv'
<1> DEFINE b == call.boot
           d == call.doc
           old == Resolve(b, d)
           previous == Previous(b, d)
<1>1. PICK raw \in Drafts :
        Resume("edit",
          PutEdit(b, d, StaleAfterEdit(old, Revised(raw)), previous,
                  Revised(raw))
            \o PutSynced(plan, Revised(raw)))
  BY DEF EditAnswered
<1> DEFINE new == Revised(raw)
           flagged == StaleAfterEdit(old, new)
           v == PutEdit(b, d, flagged, previous, new)
           w == PutSynced(plan, new)
<1>2. /\ call # Null /\ call.kind = "edit" /\ pending = <<>>
      /\ UNCHANGED files /\ pending' = v \o w
  BY <1>1 DEF Resume, Write
<1>3. /\ b \in Bootstrap \cup {Null} /\ d \in Architecture \cup {Null}
      /\ old # Null
  BY <1>2 DEF IInv, TypeInv, CallShaped, Call
<1>4. /\ old \in Architecture /\ previous \in Architecture
      /\ new \in Architecture /\ Covered(new)
  BY <1>3, ResolveType, PreviousType, DrawnType, DrawnIsCovered
<1>5. flagged \in SUBSET Module
  BY <1>4, StaleEditType
<1>6. b = boot /\ d = doc
  BY <1>2, AtRest DEF CallCurrent
<1>7. Shown = old
  BY <1>3, <1>6 DEF Shown, Current
<1>8. Flags(Shown, Look(new), flagged)
  BY <1>4, <1>7, EditFlags
<1>9. history \in History /\ plan \in GoodPlan \cup {Null} /\ TypeInv
  BY DEF IInv, TypeInv
<1> HIDE DEF b, d, old, previous, new, flagged
<1>10. FlagsThen(flagged, new, v) /\ Says("doc", v) = {new}
  BY <1>3, <1>4, <1>5, <1>9, EditFlagsFirst
<1>11. w \in Seq(Writing)
  BY <1>4, <1>9, WorkCarries
<1>12. \A file \in {"boot", "doc", "stale"} : Says(file, w) = {}
  BY PlanWritesAre, PlanSays
<1> HIDE DEF v, w
<1>13. FlagsThen(flagged, new, v \o w) /\ Says("doc", v \o w) = {new}
  BY <1>10, <1>11, <1>12, FlagsThenMore
<1> QED
  BY <1>2, <1>4, <1>8, <1>9, <1>13, FlagBegin

\* One write of an edit: the canvas shows what it did, or the new.
LEMMA WriteShows ==
  ASSUME IInv, WriteNext, NEW new \in Architecture, LeadsTo(new)
  PROVE  /\ LeadsTo(new)'
         /\ Shown' = Shown \/ Shown' = Look(new)
         /\ Flags(Shown, Look(new), stale')
<1> DEFINE h == Head(pending)
<1>1. /\ pending \in Seq(Writing) /\ pending # <<>> /\ pending' = Tail(pending)
      /\ boot' = IF h.file = "boot" THEN h.value ELSE boot
      /\ doc' = IF h.file = "doc" THEN h.value ELSE doc
      /\ stale' = IF h.file = "stale" THEN h.value ELSE stale
      /\ boot \in Bootstrap \cup {Null} /\ doc \in Architecture \cup {Null}
  BY DEF WriteNext, IInv, TypeInv
<1>2. pending' \in Seq(Writing) /\ boot' \in Bootstrap \cup {Null}
      /\ doc' \in Architecture \cup {Null}
  BY WrittenNext
<1>3. \A file : /\ \A i \in At(file, pending') : i \in Nat \ {0}
                                                 /\ i + 1 \in At(file, pending)
                /\ \A i \in At(file, pending) :
                     i = 1 \/ i - 1 \in At(file, pending')
                /\ 1 \in At(file, pending) <=> h.file = file
  BY <1>1, AtTail
<1>4. \A file : /\ Says(file, pending') \subseteq Says(file, pending)
                /\ h.file = file => h.value \in Says(file, pending)
  BY <1>1, HeadSays
<1>5. At("stale", pending') = {}
  BY <1>3 DEF LeadsTo
<1>6. Will("stale", stale, pending) = stale' /\ Will("stale", stale', pending') = stale'
  <2>1. Will("stale", stale, pending) = Will("stale", stale', Tail(pending))
    BY <1>1, WriteKeepsWill
  <2> QED
    BY <1>1, <1>5, <2>1 DEF Will
<1>7. Flags(Shown, Look(new), stale')
  BY <1>6 DEF LeadsTo
<1>8. Shown' = IF Resolve(boot', doc') = Null THEN NoArchitecture
               ELSE Resolve(boot', doc')
  BY DEF Shown, Current
<1>9. /\ h.file = "boot" => boot' # Null /\ boot'.arch = new
      /\ h.file = "doc" => doc' = new
  <2>1. CASE h.file = "boot"
    <3>1. boot' = h.value /\ h \in Writing
      BY <1>1, <2>1
    <3>2. boot' \in Bootstrap
      BY <2>1, <3>1 DEF Writing
    <3>3. boot' \in Says("boot", pending)
      BY <1>4, <2>1, <3>1
    <3> QED
      BY <2>1, <3>2, <3>3, NullIsNot DEF LeadsTo
  <2>2. CASE h.file = "doc"
    BY <1>1, <1>4, <2>2 DEF LeadsTo
  <2> QED
    BY <2>1, <2>2
<1>10. h.file = "boot" => Says("doc", pending) = {}
  <2>1. ASSUME h.file = "boot", NEW j \in At("doc", pending) PROVE FALSE
    <3>1. 1 \in At("boot", pending)
      BY <1>3, <2>1
    <3>2. j < 1 /\ j \in Nat \ {0}
      BY <3>1 DEF LeadsTo, DocFirst, At
    <3> QED
      BY <3>2
  <2> QED
    BY <2>1 DEF Says
<1>11. Shown' = Shown \/ Shown' = Look(new)
  <2>1. CASE h.file = "boot"
    <3>1. boot' # Null /\ boot'.arch = new /\ doc' = doc
      BY <1>1, <1>9, <2>1
    <3>2. CASE new.mods # {}
      BY <1>8, <3>1, <3>2, NullIsNot DEF Resolve, HasModules, Look
    <3>3. CASE new.mods = {}
      <4>1. doc = Null \/ doc.mods = {}
        BY <1>10, <2>1, <3>3 DEF LeadsTo
      <4> QED
        BY <1>8, <3>1, <3>3, <4>1 DEF Resolve, HasModules, Look
    <3> QED
      BY <3>2, <3>3
  <2>2. CASE h.file = "doc"
    <3>1. doc' = new /\ boot' = boot
      BY <1>1, <1>9, <2>2
    <3>2. CASE HasModules(boot)
      <4>1. Shown' = Shown
        BY <1>8, <3>1, <3>2 DEF Shown, Current, Resolve, HasModules
      <4> QED
        BY <4>1
    <3>3. CASE ~ HasModules(boot)
      <4>1. Resolve(boot', doc') = IF new.mods # {} THEN new ELSE Null
        BY <3>1, <3>3, NullIsNot DEF Resolve, HasModules
      <4> QED
        BY <1>8, <4>1, NullIsNot DEF Look
    <3> QED
      BY <3>2, <3>3
  <2>3. CASE h.file \notin {"boot", "doc"}
    BY <1>1, <1>8, <2>3 DEF Shown, Current
  <2> QED
    BY <2>1, <2>2, <2>3
<1>12. new.mods = {} => doc' = Null \/ doc'.mods = {} \/ Says("doc", pending') # {}
  <2>1. CASE h.file = "doc"
    BY <1>9, <2>1
  <2>2. CASE h.file # "doc"
    <3>1. doc' = doc
      BY <1>1, <2>2
    <3>2. Says("doc", pending) # {} => Says("doc", pending') # {}
      BY <1>3, <2>2 DEF Says
    <3> QED
      BY <3>1, <3>2 DEF LeadsTo
  <2> QED
    BY <2>1, <2>2
<1>13. DocFirst(pending')
  <2> SUFFICES ASSUME NEW i \in At("boot", pending'), NEW j \in At("doc", pending')
               PROVE  j < i
    BY DEF DocFirst
  <2>1. j + 1 < i + 1 /\ i \in Nat /\ j \in Nat
    BY <1>3 DEF LeadsTo, DocFirst
  <2> QED
    BY <2>1
<1>14. Flags(Shown', Look(new), stale')
  <2>1. Look(new) \in Architecture
    BY LookType
  <2> QED
    BY <1>7, <1>11, <2>1, SameFlags
<1>15. /\ \A v \in Says("doc", pending') : v = new
       /\ \A v \in Says("boot", pending') : v.arch = new
  BY <1>4 DEF LeadsTo
<1>16. LeadsTo(new)'
  BY <1>5, <1>6, <1>12, <1>13, <1>14, <1>15 DEF LeadsTo
<1> QED
  BY <1>7, <1>11, <1>16

LEMMA FlagKeeps ==
  ASSUME IInv, CoverInv, FlagInv, ~ Overlap, Entry \cap Composer = {},
         [Next]_vars
  PROVE  FlagInv'
<1>1. CASE \/ Interview \/ Gate \/ Work \/ ModelFails \/ Crash
           \/ EditArchitecture \/ UndoArchitecture \/ ClearStale
  BY <1>1, OthersEditNothing, NoEditFlags
<1>2. CASE UpdateArchitectureNodes \/ UpdateArchitectureEdges
  BY <1>2, DirectFlags
<1>3. CASE UpdateModuleRequirement
  BY <1>3, RequirementIsFlagged
<1>4. CASE EditAnswered
  BY <1>4, AnswerIsFlagged
<1>5. CASE WriteNext
  <2>1. handler' = handler /\ pending # <<>>
    BY <1>5 DEF WriteNext
  <2> QED
    BY <1>5, <2>1, WriteShows DEF FlagInv
<1>6. CASE UNCHANGED vars
  BY <1>6 DEF vars, files, FlagInv, LeadsTo, Shown, Current
<1> QED
  BY <1>1, <1>2, <1>3, <1>4, <1>5, <1>6 DEF Next, Edition, Done

\* What the property says of a step.
LEMMA StepIsFlagged ==
  ASSUME IInv, IInv', FlagInv, [Next]_vars, handler \in Edits, Shown' # Shown,
         ~ Cyclic(DependsOn(Shown') \cup (Shown').edges)
  PROVE  LET delta == CompareArchitectures(Shown, Shown')
             told == delta.added \cup delta.removed
                       \cup (delta.changed \ delta.relabelled)
         IN  Dependents(DependsOn(Shown'), told) \subseteq stale'
<1>1. WriteNext
  <2> SUFFICES ASSUME ~ WriteNext PROVE FALSE
    OBVIOUS
  <2>1. UNCHANGED <<boot, doc>>
    BY OthersWriteNothing
  <2> QED
    BY <2>1 DEF Shown, Current, Resolve, HasModules
<1>2. PICK new \in Architecture : LeadsTo(new)
  BY <1>1 DEF FlagInv, WriteNext
<1>3. Shown' = Look(new) /\ Flags(Shown, Look(new), stale')
  BY <1>1, <1>2, WriteShows
<1>4. Shown \in Architecture
  BY ShownType DEF IInv
<1>5. Look(new) \in Architecture
  BY LookType
<1> DEFINE a == Shown
           b == Look(new)
<1>6. Unbroken(b)
  BY <1>3 DEF Unbroken
<1> HIDE DEF a, b
<1>7. Dependents(DependsOn(b), Changed(a, b)) \subseteq stale'
  BY <1>3, <1>6 DEF Flags, a, b
<1>8. LET delta == CompareArchitectures(a, b)
      IN  delta.added \cup delta.removed
            \cup (delta.changed \ delta.relabelled) = Changed(a, b)
  BY <1>4, <1>5, ToldIsChanged DEF a, b
<1> QED
  BY <1>3, <1>7, <1>8 DEF a, b

(* When no request is served while another one waits for a model, no edit  *)
(* is seen without the flags on what depends on it, not even when the      *)
(* server stops between two of its writes: _stale_after_edit finds, along  *)
(* the edges, whatever depends on a module that compare_architectures      *)
(* reports as added, removed or changed -- unless only its name or its     *)
(* verification is another, which is reported and flags nothing --, and    *)
(* the flags are written before the architecture.  No module is both an    *)
(* entry and a composition root: simplify_architecture_edges takes every   *)
(* load order from one that is, and nothing would lead to what waits for   *)
(* it.                                                                     *)
THEOREM EditsAreFlagged ==
  ASSUME ~ Overlap, Entry \cap Composer = {} PROVE Spec => EditIsFlagged
<1> DEFINE Inv == IInv /\ CoverInv /\ FlagInv
           Step == /\ handler \in Edits /\ Shown' # Shown
                   /\ ~ Cyclic(DependsOn(Shown') \cup (Shown').edges)
           Told == LET delta == CompareArchitectures(Shown, Shown')
                       told == delta.added \cup delta.removed
                                 \cup (delta.changed \ delta.relabelled)
                   IN  Dependents(DependsOn(Shown'), told) \subseteq stale'
<1>1. Init => Inv
  <2> SUFFICES ASSUME Init PROVE Inv
    OBVIOUS
  <2>1. FlagInv
    BY DEF Init, FlagInv
  <2> QED
    BY <2>1, InitKeeps, CoverInit
<1>2. Inv /\ [Next]_vars => Inv'
  BY NextKeeps, CoverKeeps, FlagKeeps
<1>3. Inv /\ Inv' /\ [Next]_vars => (Step => Told)
  BY StepIsFlagged
<1> HIDE DEF Inv, Step, Told
<1>4. Spec => [][Step => Told]_vars
  BY <1>1, <1>2, <1>3, PTL DEF Spec
<1> QED
  BY <1>4 DEF EditIsFlagged, Step, Told
=============================================================================
