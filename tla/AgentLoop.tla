----------------------------- MODULE AgentLoop -----------------------------
(***************************************************************************)
(* One task's implementation agent: the tool loop (agent_tools.py), in its *)
(* native and its legacy protocol, over the sandbox it works in, and the   *)
(* checkpoint from which a stopped, failed or crashed execution is resumed *)
(* (task_verify.py, task_generate.py) while the user goes on editing the   *)
(* project.                                                                *)
(*                                                                         *)
(* A sandbox is a copy of the project or, in a git repository, a worktree  *)
(* of HEAD.  A file of it holds what it held when it was made ("base"),    *)
(* the same text written by the agent ("same") or a text of the agent's    *)
(* ("new").  Of the history of an execution three things matter: the last  *)
(* rounds, the number of rounds since a writing one and the number of      *)
(* times the last call was repeated.                                       *)
(***************************************************************************)
EXTENDS Naturals, Sequences, FiniteSets, SequencesExt

CONSTANTS
  File, Doc,       \* the sources, and the AI_ARCH.md files
  Chain,           \* Chain[p]: the documents from the root down to p
  Missing,         \* the paths the project does not have at first
  ReadScope,       \* the sources the agent may read
  WriteScope,      \* the sources the agent may write
  Batches,         \* what the model may ask for in one round
  Formats,         \* the protocols of the services: "openai" or "other"
  DETAIL_TURNS,    \* rounds kept in a checkpoint
  READ_ONLY_LIMIT, \* rounds without a write before the loop stops
  REPEAT_LIMIT,    \* repetitions of one call before the loop stops
  STATUS_RETRIES, CONNECTION_RETRIES, JSON_RETRIES,
  Steady,          \* assumption: a service that has just answered a request
                   \* with tools in prose does not reject the next one
  MaxEdits         \* bound: the user's edits

Path == File \cup Doc
Tool == {"read_ai_arch", "read_file", "write_file", "edit_file", "task_status"}
WRITE_TOOLS == {"write_file", "edit_file"}
ToolCall == [tool : Tool, path : Path, text : {"new", "base"}]

ASSUME LoopAssumption ==
  /\ File \cap Doc = {} /\ Missing \subseteq Path
  /\ Chain \in [Path -> SUBSET Doc]
  /\ ReadScope \subseteq File /\ WriteScope \subseteq File
  /\ Batches \subseteq Seq(ToolCall)
  /\ Formats \subseteq {"openai", "other"} /\ Formats # {}
  /\ {DETAIL_TURNS, READ_ONLY_LIMIT, REPEAT_LIMIT} \subseteq Nat \ {0}
  /\ {STATUS_RETRIES, CONNECTION_RETRIES, JSON_RETRIES} \subseteq Nat
  /\ Steady \in BOOLEAN /\ MaxEdits \in Nat

VARIABLES
  project,  \* the version of each path in the project, 0 if it is not there
  git,      \* the project is the root of a git repository
  head,     \* the version of each path in its HEAD
  edits,    \* the user's edits so far
  phase,    \* where the task's agent is
  base,     \* the versions the sandbox was made from
  box,      \* what became of each source in the sandbox
  exec,     \* the memory of the execution
  format,   \* the protocol of the service
  stop,     \* the user has asked to stop the task
  cp,       \* the checkpoint on disk
  call,     \* the request to the model
  seen,     \* history variable: documents and versions ever read
  kept      \* history variable: what the agent had changed when this
            \* sandbox, or the one it was restored from, was last saved

disk == <<project, head, edits, cp>>
sandbox == <<base, box>>
ghosts == <<seen, kept>>
vars == <<disk, phase, sandbox, exec, format, git, stop, call, ghosts>>

Client == INSTANCE ModelClient

Version == 0..(MaxEdits + 1)
Observed == Path \X Version
Round == [calls : Batches \cup {<<>>}, saw : SUBSET Observed]
History == {h \in Seq(Round) : Len(h) <= DETAIL_TURNS}
NoCheckpoint == [history |-> <<>>, wrote |-> FALSE, files |-> {},
                 base |-> [p \in Path |-> 0]]
NoCalls == [tool |-> "", path |-> "", text |-> ""]

Checkpoint == [
  history : History,
  wrote : BOOLEAN,
  files : SUBSET File,        \* written by the agent, with their texts
  base : [Path -> Version]]   \* the digests of what it was made from

Memory == [
  native : BOOLEAN,            \* the protocol with tools
  repair : BOOLEAN,            \* the repair round after a verification
  recent : History,
  reads : 0..READ_ONLY_LIMIT,  \* rounds since one that writes
  last : ToolCall \cup {NoCalls},
  times : 0..REPEAT_LIMIT,     \* how often it was made in a row
  nudged : BOOLEAN,            \* the reminder to write was given
  wrote : BOOLEAN,
  nav : SUBSET Doc]            \* the navigation documents read

Running == {"turn", "asking", "saving"}
Rest == {"idle", "done", "files", "handoff", "failed", "stopped", "crashed"}

TypeOK ==
  /\ {project, head, base} \subseteq [Path -> Version]
  /\ git \in BOOLEAN
  /\ edits \in 0..MaxEdits
  /\ phase \in Running \cup Rest
  /\ box \in [File -> {"base", "same", "new"}]
  /\ exec \in Memory /\ stop \in BOOLEAN
  /\ cp \in Checkpoint
  /\ call \in Client!Call
  /\ format \in Formats
  /\ phase # "asking" => call = Client!NoCall
  /\ seen \subseteq Doc \X Version
  /\ kept \subseteq File

-----------------------------------------------------------------------------
(* The history.                                                            *)

\* The rounds of h that a checkpoint keeps.
Recent(h) == SubSeq(h, Len(h) - Min({Len(h), DETAIL_TURNS}) + 1, Len(h))

\* _repeat_tool_chain: how often the last call was made in a row.
Repeat(chain, c) ==
  IF c = chain.last THEN [chain EXCEPT !.times = Min({@ + 1, REPEAT_LIMIT})]
                    ELSE [last |-> c, times |-> 1]

\* _read_only_round_count: a round without a call ends a suffix too.
ReadOnly(calls) ==
  calls # <<>> /\ \A i \in DOMAIN calls : calls[i].tool \notin WRITE_TOOLS

RepeatAll(chain, calls) ==
  LET upto[n \in 0..Len(calls)] ==
        IF n = 0 THEN chain ELSE Repeat(upto[n - 1], calls[n])
  IN upto[Len(calls)]

\* The memory e after the round r.
After(e, r) ==
  LET chain == RepeatAll([last |-> e.last, times |-> e.times], r.calls)
  IN [e EXCEPT !.recent = Recent(Append(@, r)),
               !.reads = IF ReadOnly(r.calls)
                           THEN Min({@ + 1, READ_ONLY_LIMIT}) ELSE 0,
               !.last = chain.last, !.times = chain.times]

\* The memory an execution begins with, and that of the rounds h.
Fresh(native, repair) ==
  [native |-> native, repair |-> repair, recent |-> <<>>, reads |-> 0,
   last |-> NoCalls, times |-> 0, nudged |-> FALSE, wrote |-> FALSE,
   nav |-> {}]

Replay(e, h) ==
  LET upto[n \in 0..Len(h)] ==
        IF n = 0 THEN e ELSE After(upto[n - 1], h[n])
  IN upto[Len(h)]

\* _restore_navigation_reads
DocsIn(h) ==
  {d \in Doc : \E i \in DOMAIN h : \E o \in h[i].saw : o[1] = d}

\* _history_wrote_files looks for "ok" one level too high and finds nothing,
\* so what was written is known from the checkpoint alone.
Loaded(native) ==
  [Replay(Fresh(native, FALSE), cp.history)
     EXCEPT !.wrote = cp.files # {} \/ cp.wrote,
            !.nav = DocsIn(cp.history)]

NoProgress ==
  exec.reads >= READ_ONLY_LIMIT \/ exec.times >= REPEAT_LIMIT

-----------------------------------------------------------------------------
(* The tools: what a call does to the sandbox and what it shows.           *)

There(b, f) == base[f] # 0 \/ b[f] # "base"

\* _navigation_paths_for: the documents that are there.
Required(f) == {d \in Chain[f] : base[d] # 0}

\* _ensure_navigation_read
Informed(nav, f) == Required(f) \subseteq nav

Show(e, ps) ==
  [e EXCEPT !.nav = @ \cup (ps \cap Doc),
            !.saw = @ \cup {<<p, base[p]>> : p \in ps}]

ReadAiArch(e, f) == Show(e, Required(f))

ReadFile(e, p) ==
  IF p \in Doc
    THEN IF base[p] # 0 THEN Show(e, {p}) ELSE e
    ELSE IF p \in ReadScope /\ There(e.box, p) /\ Informed(e.nav, p)
      THEN IF e.box[p] = "new" THEN e ELSE Show(e, {p})
      ELSE e

(* Mutant: nobody asks which documents the agent has read. *)
WriteUninformed(e, f, text) ==
  IF f \in WriteScope
    THEN [e EXCEPT !.box[f] = text, !.wrote = TRUE]
    ELSE e

Write(e, f, text) ==
  IF f \in WriteScope /\ Informed(e.nav, f)
    THEN [e EXCEPT !.box[f] = text, !.wrote = TRUE]
    ELSE e

WriteFile(e, c) ==
  Write(e, c.path,
        IF c.text = "base" /\ base[c.path] # 0 THEN "same" ELSE "new")

EditFile(e, c) == IF There(e.box, c.path) THEN Write(e, c.path, "new") ELSE e

\* A call that is refused or fails is an answer to the model, not an end.
ExecuteTool(e, c) ==
  CASE c.tool = "read_ai_arch" -> ReadAiArch(e, c.path)
    [] c.tool = "read_file"    -> ReadFile(e, c.path)
    [] c.tool = "write_file"   -> WriteFile(e, c)
    [] c.tool = "edit_file"    -> EditFile(e, c)
    [] OTHER                   -> e

\* The tools of one answer, one after the other.
ExecuteTools(e, calls) ==
  LET upto[n \in 0..Len(calls)] ==
        IF n = 0 THEN e ELSE ExecuteTool(upto[n - 1], calls[n])
  IN upto[Len(calls)]

-----------------------------------------------------------------------------
(* Starting and resuming.                                                  *)

Init ==
  /\ project = [p \in Path |-> IF p \in Missing THEN 0 ELSE 1]
  /\ git \in BOOLEAN
  /\ head = project
  /\ edits = 0
  /\ phase = "idle"
  /\ base = [p \in Path |-> 0]
  /\ box = [f \in File |-> "base"]
  /\ exec = Fresh(TRUE, FALSE)
  /\ format \in Formats
  /\ stop = FALSE
  /\ cp = NoCheckpoint
  /\ call = Client!NoCall
  /\ seen = {}
  /\ kept = {}

\* An edit makes a new version, or the first one.
UserEdits(p) ==
  /\ edits < MaxEdits
  /\ edits' = edits + 1
  /\ project' = [project EXCEPT ![p] = edits' + 1]
  /\ UNCHANGED <<head, cp, phase, sandbox, exec, stop, call, ghosts>>

UserCommits ==
  /\ git
  /\ head' = project
  /\ head' # head
  /\ UNCHANGED <<project, edits, cp, phase, sandbox, exec, stop, call, ghosts>>

\* create_sandbox: what a new sandbox is made from.
Source == IF git THEN head ELSE project

\* The sandbox and the execution in it are gone.
Destroyed ==
  /\ base' = [p \in Path |-> 0]
  /\ box' = [f \in File |-> "base"]
  /\ exec' = Fresh(TRUE, FALSE)

Changed == {f \in File : box[f] = "new"}

\* generate_one_task.  The checkpoint of an earlier execution stays.
Start ==
  /\ phase \in Rest
  /\ base' = Source
  /\ box' = [f \in File |-> "base"]
  /\ exec' = Fresh(TRUE, FALSE)
  /\ phase' = "turn"
  /\ kept' = {}
  /\ UNCHANGED <<disk, stop, call, seen>>

(* Mutant: the files of the checkpoint are put back unseen. *)
RestorableAny == TRUE

(* Mutant: a checkpoint without files is taken for one with them. *)
RestorableEmpty == \A p \in Path : cp.base[p] # 0 => Source[p] = cp.base[p]

\* restore_checkpoint_sandbox
Restorable ==
  /\ cp.wrote => cp.files # {}
  /\ \A p \in Path : cp.base[p] # 0 => Source[p] = cp.base[p]
  /\ \A f \in cp.files : Source[f] = cp.base[f]

(* Mutant: the sandbox is made anew without the files. *)
RestoredNothing == [f \in File |-> "base"]

Restored == [f \in File |-> IF f \in cp.files THEN "new" ELSE "base"]

\* resume_task
Resume ==
  /\ phase \in {"failed", "stopped", "crashed"}
  /\ cp.history # <<>>
  /\ IF Restorable
       THEN /\ base' = Source
            /\ box' = Restored
            /\ exec' = Loaded(TRUE)
            /\ phase' = "turn"
       ELSE Destroyed /\ phase' = "failed"
  /\ UNCHANGED <<disk, stop, call, ghosts>>

\* _repair_sandbox_once: the same sandbox, a new execution, no way to stop.
Repair ==
  /\ phase = "done" /\ ~exec.repair
  /\ exec' = Fresh(TRUE, TRUE)
  /\ phase' = "turn"
  /\ UNCHANGED <<disk, sandbox, stop, call, ghosts>>

UserStops ==
  /\ phase \in Running /\ ~stop
  /\ stop' = TRUE
  /\ UNCHANGED <<disk, phase, sandbox, exec, call, ghosts>>

Crash ==
  /\ phase \in Running
  /\ phase' = "crashed"
  /\ call' = Client!NoCall
  /\ Destroyed
  /\ stop' = FALSE
  /\ UNCHANGED <<disk, ghosts>>

-----------------------------------------------------------------------------
(* The loop.                                                               *)

\* The execution ends; a result takes the checkpoint with it, and only the
\* sandbox of an agent that is done is looked at again.
Finish(p) ==
  /\ phase' = p
  /\ cp' = IF p \in {"done", "files", "handoff"} THEN NoCheckpoint ELSE cp
  /\ IF p = "done" THEN UNCHANGED <<sandbox, exec>> ELSE Destroyed
  /\ stop' = FALSE
  /\ UNCHANGED <<project, head, edits, ghosts>>

Stopped ==
  /\ phase = "turn" /\ stop /\ ~exec.repair
  /\ Finish("stopped")
  /\ UNCHANGED call

GiveUp ==
  /\ phase = "turn" /\ ~(stop /\ ~exec.repair)
  /\ NoProgress
  /\ Finish("failed")
  /\ UNCHANGED call

Ask ==
  /\ phase = "turn" /\ ~(stop /\ ~exec.repair)
  /\ ~NoProgress
  /\ phase' = "asking"
  /\ Client!Send(exec.native, format)
  /\ UNCHANGED <<disk, sandbox, exec, stop, ghosts>>

Waiting ==
  /\ phase = "asking"
  /\ Client!ClientStep
  /\ UNCHANGED <<disk, phase, sandbox, exec, stop, ghosts>>

JustNudged == exec.recent # <<>> /\ Last(exec.recent).calls = <<>>

ServiceRejectsTools ==
  /\ phase = "asking"
  /\ ~(Steady /\ JustNudged)
  /\ Client!ToolsRejected
  /\ UNCHANGED <<disk, phase, sandbox, exec, stop, ghosts>>

Got(p) == phase = "asking" /\ call.phase = p /\ call' = Client!NoCall

ModelFails ==
  /\ Got("failed")
  /\ Finish("failed")

\* The legacy loop takes over, from the checkpoint if there was a round.
FallBack ==
  /\ Got("rejected")
  /\ exec' = IF exec.recent = <<>>
               THEN Fresh(FALSE, exec.repair)
               ELSE [Loaded(FALSE) EXCEPT !.repair = exec.repair]
  /\ phase' = "turn"
  /\ UNCHANGED <<disk, sandbox, stop, ghosts>>

CallTools(calls) ==
  LET start == [box |-> box, nav |-> exec.nav, saw |-> {},
                wrote |-> exec.wrote]
      e == ExecuteTools(start, calls)
  IN /\ Got("answered")
     /\ box' = e.box
     /\ exec' = [After(exec, [calls |-> calls, saw |-> e.saw])
                   EXCEPT !.nav = e.nav, !.wrote = e.wrote]
     /\ seen' = seen \cup {o \in e.saw : o[1] \in Doc}
     /\ phase' = "saving"
     /\ UNCHANGED <<disk, base, stop, kept>>

\* save_loop_checkpoint
Save ==
  /\ phase = "saving"
  /\ cp' = [history |-> exec.recent, wrote |-> exec.wrote,
            files |-> Changed, base |-> base]
  /\ kept' = Changed
  /\ phase' = "turn"
  /\ UNCHANGED <<project, head, edits, sandbox, exec, stop, call, seen>>

(* Mutant: the reminder to write is not remembered. *)
NudgeAlways ==
  /\ ~exec.nudged
  /\ exec' = After(exec, [calls |-> <<>>, saw |-> {}])
  /\ phase' = "turn"
  /\ UNCHANGED <<disk, sandbox, stop, ghosts>>

\* _nudge_to_write: one chance; the round is recorded but not saved.
Nudge ==
  /\ ~exec.nudged
  /\ exec' = [After(exec, [calls |-> <<>>, saw |-> {}])
                EXCEPT !.nudged = TRUE]
  /\ phase' = "turn"
  /\ UNCHANGED <<disk, sandbox, stop, ghosts>>

\* The model says that it is done.
Done ==
  \/ exec.wrote /\ Finish("done")
  \/ ~exec.wrote /\ Nudge
  \/ ~exec.wrote /\ exec.nudged /\ Finish("failed")

SaysDone ==
  /\ Got("answered")
  /\ Done

\* A native agent that has written is taken to be done.
HandsOff ==
  /\ Got("answered")
  /\ IF exec.native /\ exec.wrote THEN Done ELSE Finish("handoff")

\* Only the legacy protocol knows answers with whole files, or with nothing.
GivesFiles ==
  /\ Got("answered") /\ ~exec.native
  /\ Finish("files")

SaysNothing ==
  /\ Got("answered") /\ ~exec.native
  /\ Finish("failed")

-----------------------------------------------------------------------------
LoopStep ==
  \/ Stopped \/ GiveUp \/ Ask \/ Waiting \/ ServiceRejectsTools
  \/ ModelFails \/ FallBack \/ Save
  \/ \E calls \in Batches : CallTools(calls)
  \/ SaysDone \/ HandsOff \/ GivesFiles \/ SaysNothing

Next ==
  /\ \/ \E p \in Path : UserEdits(p)
     \/ UserCommits
     \/ Start \/ Resume \/ Repair \/ UserStops \/ Crash
     \/ LoopStep
  /\ UNCHANGED <<format, git>>

\* The thread goes on, and every request is answered or times out.
Spec == Init /\ [][Next]_vars /\ WF_vars(LoopStep /\ UNCHANGED <<format, git>>)

-----------------------------------------------------------------------------
\* An agent that is believed to be done has written into the sandbox whose
\* changes are verified and landed, in this execution or the one it resumes.
DoneMeansWritten ==
  phase = "done" => \E f \in File : box[f] # "base"

\* What the agent had changed when its last round was saved is still the
\* agent's when it goes on, whatever stopped it in between.
ResumeKeepsWork ==
  phase \in Running \cup {"done"} => \A f \in kept : box[f] # "base"

\* What the model is shown of earlier rounds is what its sandbox was made
\* from: nobody continues from reads of another version than the one its
\* sandbox has.  In a plain directory that is what the user had when the
\* sandbox was made; in a git repository it is HEAD, and what the user has
\* edited since without committing it goes unnoticed.
NoStaleReads ==
  phase \in Running =>
    \A i \in DOMAIN exec.recent :
      \A o \in exec.recent[i].saw : o[2] = base[o[1]]

\* Every source in the sandbox was written by an agent that had read the
\* navigation documents above it, in the version the sandbox holds.
WritesAreInformed ==
  phase \in Running \cup {"done"} =>
    \A f \in File : box[f] # "base" =>
      \A d \in Required(f) : <<d, base[d]>> \in seen

LastRoundWrites ==
  /\ exec.recent # <<>>
  /\ \E i \in DOMAIN Last(exec.recent).calls :
       Last(exec.recent).calls[i].tool \in WRITE_TOOLS

\* An agent that only reads, repeats itself or talks does not go on for ever.
StallEnds == phase \in Running ~> (phase \in Rest \/ LastRoundWrites)
=============================================================================
