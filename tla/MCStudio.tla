------------------------------ MODULE MCStudio ------------------------------
EXTENDS Studio

Edges(S) == {[from |-> x[1], to |-> x[2], kind |-> x[3]] : x \in S}

(* A raw architecture over the modules 1..n.                               *)
Raw(n, deps, edges, claims) ==
  [mods |-> 1..n,
   text |-> [m \in Module |-> IF m <= n THEN 1 ELSE 0],
   label |-> [m \in Module |-> IF m <= n THEN 1 ELSE 0],
   deps |-> [m \in Module |-> IF m <= n THEN deps[m] ELSE {}],
   files |-> [m \in Module |-> IF m <= n THEN {m} ELSE {}],
   edges |-> Edges(edges), whole |-> TRUE, claims |-> claims]

(* A chain with a load order, a pair, a chain with a load order and an     *)
(* event against it and another name for one of its modules, and a draft   *)
(* that is not complete.                                                   *)
Chain == Raw(3, <<{2}, {3}, {}>>, {<<1, 3, "blocks">>, <<1, 2, "uses">>},
             "inferred")
Pair == Raw(2, <<{2}, {1}>>, {}, "none")
Against == [Raw(3, <<{}, {1}, {2}>>,
                {<<1, 2, "blocks">>, <<1, 3, "event">>, <<3, 2, "data">>}, "none")
              EXCEPT !.label[1] = 2]
Sketch == [Raw(2, <<{}, {1}>>, {}, "inferred") EXCEPT !.whole = FALSE]

MCDrafts == {Chain, Pair, Against, Sketch}
MCHandmade == Raw(3, <<{2}, {3}, {}>>, {}, "none")
=============================================================================
