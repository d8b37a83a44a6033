-------------------------- MODULE ProjectLifecycle --------------------------
(***************************************************************************)
(* What a project promises its user, whichever request is served: an       *)
(* interview draws an architecture; the user confirms what was drawn and   *)
(* nothing else; what is built was confirmed, but for what the user edited *)
(* since; and editing a project never moves it from one phase to another.  *)
(* Each request may do its own part of this only.                          *)
(***************************************************************************)
CONSTANTS Drawing,         \* architectures
          Nothing,         \* the one without modules
          Design(_),       \* one without what was said about its claims
          Confirmable(_)   \* whether one passes the gate

VARIABLES
  request,   \* the request that is served, or was served last
  phase, drawn

vars == <<request, phase, drawn>>

Phase == {"none", "interviewing", "review", "ready", "initialized"}
Interview == {"interviewing", "review"}

Init == request = "none" /\ phase \in Phase /\ drawn \in Drawing

(* Another request, of any kind, takes over.                               *)
Receive == UNCHANGED <<phase, drawn>>

Does(requests) == request \in requests /\ request' = request

(* An interview begins, also over an old project.                          *)
Begin == /\ Does({"begin", "start"})
         /\ phase' \in Interview /\ drawn' \in Drawing

Turn == /\ \/ Does({"answer", "stream"}) /\ phase = "interviewing"
           \/ Does({"revise"}) /\ phase = "review"
        /\ phase' \in Interview /\ drawn' \in Drawing

(* What was built, or is to be, is reviewed again: the document, if there  *)
(* is one, even that of the project before this one.                       *)
Reopen == /\ Does({"reopen"}) /\ phase \in {"ready", "initialized"}
          /\ phase' = "review" /\ drawn' \in Drawing

Confirm == /\ Does({"confirm"}) /\ phase = "review" /\ Confirmable(drawn)
           /\ phase' = "ready" /\ drawn' = drawn

Build == /\ Does({"finalize"}) /\ phase = "ready"
         /\ phase' = "initialized" /\ drawn' = drawn

(* A draft that was edited until no module was left is built as the        *)
(* nothing it is, even when an undo that was cut short had put an older    *)
(* document back.                                                          *)
Discard == /\ Does({"finalize"}) /\ phase = "ready"
           /\ phase' = phase /\ drawn' = Nothing

Edit == /\ Does({"edit", "node", "edge", "requirement", "undo"})
        /\ phase' = phase /\ drawn' \in Drawing

Settle == /\ Does({"settle"})
          /\ phase' = phase /\ drawn' \in Drawing
          /\ Design(drawn') = Design(drawn)

Next == Receive \/ Begin \/ Turn \/ Reopen \/ Confirm \/ Build \/ Discard
        \/ Edit \/ Settle

Spec == Init /\ [][Next]_vars
=============================================================================
