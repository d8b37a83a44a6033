---------------------------- MODULE MCAgentLoop ----------------------------
EXTENDS AgentLoop

CONSTANTS src, new, root, sub

CallOf(tool, path, text) == [tool |-> tool, path |-> path, text |-> text]

MCChain == [p \in {src, root} |-> {root}] @@ [p \in {new, sub} |-> {root, sub}]
MCBatches ==
  {<<CallOf("read_ai_arch", new, "new")>>,
   <<CallOf("read_file", root, "new"), CallOf("read_file", src, "new")>>,
   <<CallOf("write_file", src, "base"), CallOf("task_status", src, "new")>>,
   <<CallOf("edit_file", src, "new"), CallOf("write_file", new, "new")>>}

(* Bound: in a git repository the services answer in the other format.     *)
MCInit == Init /\ (git => format = "other")
MCSpec == MCInit /\ [][Next]_vars /\ WF_vars(LoopStep /\ UNCHANGED <<format, git>>)
=============================================================================
