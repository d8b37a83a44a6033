--------------------------- MODULE TaskLifecycle ----------------------------
(***************************************************************************)
(* What tasks.json promises about a work item, whatever request writes it: *)
(* how it may move from one stage to another, and that a result that was   *)
(* accepted or dropped is final.  One write may move several work items.   *)
(***************************************************************************)
CONSTANT Task

VARIABLE stage

Stage == {"waiting", "working", "offered", "landed", "accepted", "failed",
          "blocked", "dropped"}

After == [
  waiting |-> {"working", "blocked", "dropped"},
  working |-> {"waiting", "offered", "accepted", "failed", "blocked"},
  offered |-> {"landed", "failed", "blocked", "dropped"},
  landed |-> {"accepted", "failed"},
  failed |-> {"working", "landed"},
  blocked |-> {"working", "dropped"},
  accepted |-> {},
  dropped |-> {}]

Init == stage = [t \in Task |-> "waiting"]

Move == /\ stage' \in [Task -> Stage]
        /\ \A t \in Task : stage'[t] # stage[t] => stage'[t] \in After[stage[t]]

Spec == Init /\ [][Move]_stage
=============================================================================
