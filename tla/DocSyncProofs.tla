---------------------------- MODULE DocSyncProofs ----------------------------
(***************************************************************************)
(* Proofs about DocSync, for every directory tree, any number of requests, *)
(* retries, changes and restarts.                                          *)
(***************************************************************************)
EXTENDS DocSync, TLAPS

(* What freshness needs: requests follow each other, the architecture is   *)
(* edited by the agent, and every directory was documented at first.       *)
Sequential == OneAtATime /\ ~DirectEdits /\ Undocumented = {}

-----------------------------------------------------------------------------
(* Types.                                                                  *)

LEMMA InitType == Init => TypeOK
  BY TreeAssumption, BoundAssumption
  DEF Init, Idle, TypeOK, NoDocumentation, Documentation, Status, Step

LEMMA RecordType ==
  ASSUME NEW s \in Documentation, NEW a \in 0..MaxRetries, NEW st \in Status
  PROVE  [s EXCEPT !.attempts = a, !.status = st] \in Documentation
  BY DEF Documentation, Status

LEMMA ResetType ==
  ASSUME NEW s \in Documentation PROVE Reset(s) \in Documentation
<1>1. 0 \in 0..MaxRetries /\ "pending" \in Status
  BY BoundAssumption DEF Status
<1> QED
  BY <1>1, RecordType DEF Reset

LEMMA AffectedType == ASSUME NEW s PROVE Affected(s) \subseteq Dir
  BY TreeAssumption DEF Affected, Tree

LEMMA OutdatedType ==
  ASSUME TypeOK, NEW S
  PROVE  /\ Outdated(S) \in [Dir -> {"none", "missing", "stale", "fresh"}]
         /\ Doubt(S) => sound' \in [Request -> SUBSET Dir]
<1>1. \A d \in Dir : doc[d] \in {"none", "missing", "stale", "fresh"}
  BY DEF TypeOK
<1>2. Outdated(S) \in [Dir -> {"none", "missing", "stale", "fresh"}]
  BY <1>1 DEF Outdated
<1>3. ASSUME Doubt(S) PROVE sound' \in [Request -> SUBSET Dir]
  <2>1. \A r \in Request : sound[r] \ WithAbove(S) \in SUBSET Dir
    BY DEF TypeOK
  <2> QED
    BY <1>3, <2>1 DEF Doubt
<1> QED
  BY <1>2, <1>3

(* A landing and an edit.                                                  *)
LEMMA ChangeType ==
  ASSUME TypeOK, NEW S, doc' = Outdated(S), Doubt(S), file' \in Documentation,
         changes < MaxChanges, changes' = changes + 1,
         UNCHANGED <<node, pc, mem, seen, attempt, todo, made, stop, restarts>>
  PROVE  TypeOK'
<1>1. /\ doc' \in [Dir -> {"none", "missing", "stale", "fresh"}]
      /\ sound' \in [Request -> SUBSET Dir]
  BY OutdatedType
<1>2. changes' \in 0..MaxChanges
  BY BoundAssumption DEF TypeOK
<1> QED
  BY <1>1, <1>2 DEF TypeOK

LEMMA NextType == TypeOK /\ [Next]_vars => TypeOK'
<1> SUFFICES ASSUME TypeOK, [Next]_vars PROVE TypeOK'
  OBVIOUS
<1>1. ASSUME NEW d \in Dir, NEW more \in BOOLEAN, Land(d, more) PROVE TypeOK'
  <2>1. file' \in Documentation
    BY <1>1, BoundAssumption DEF Land, TypeOK, Documentation, Status
  <2> QED
    BY <1>1, <2>1, ChangeType DEF Land
<1>2. ASSUME NEW S \in SUBSET Dir, NEW asks \in BOOLEAN, Edit(S, asks)
      PROVE  TypeOK'
  <2>1. file' \in Documentation
    <3>1. CASE asks
      BY <1>2, <3>1 DEF Edit, TypeOK, Documentation, Status
    <3>2. CASE ~ asks
      BY <1>2, <3>2 DEF Edit, TypeOK
    <3> QED
      BY <3>1, <3>2
  <2> QED
    BY <1>2, <2>1, ChangeType DEF Edit
<1> USE DEF TypeOK, disk, work, bounds, Goto, Leave
<1>3. CASE NewWork
  BY <1>3 DEF NewWork, Documentation
<1>4. ASSUME NEW r \in Request, StartSync(r) PROVE TypeOK'
  <2>1. Reset(file) \in Documentation
    BY ResetType
  <2> QED
    BY <1>4, <2>1, BoundAssumption DEF StartSync, Step
<1>5. ASSUME NEW r \in Request, RetryRefused(r) PROVE TypeOK'
  <2>1. Reset(file) \in Documentation
    BY ResetType
  <2> QED
    BY <1>5, <2>1 DEF RetryRefused
<1>6. ASSUME NEW r \in Request, Stop(r) PROVE TypeOK'
  BY <1>6 DEF Stop
<1>7. ASSUME NEW r \in Request, Proceed(r) PROVE TypeOK'
  <2>1. CASE Stopped(r)
    BY <2>1 DEF Stopped, Documentation, Status, Step
  <2>2. CASE Attempt(r)
    <3> DEFINE s == [mem[r] EXCEPT !.attempts = attempt[r],
                 !.status = IF attempt[r] = 0 THEN "running" ELSE "retrying"]
    <3>1. s \in Documentation
      BY DEF Documentation, Status
    <3>2. Affected(s) \subseteq Dir
      BY AffectedType
    <3> HIDE DEF s
    <3> QED
      BY <2>2, <3>1, <3>2 DEF Attempt, s, Step
  <2>3. ASSUME NEW d \in Dir, Make(r, d) PROVE TypeOK'
    BY <2>3 DEF Make
  <2>4. CASE MakeFails(r)
    BY <2>4 DEF MakeFails, Step
  <2>5. CASE Commit(r)
    BY <2>5 DEF Commit, Replaced, Step
  <2>6. ASSUME NEW S \in SUBSET Dir, CommitFails(r, S) PROVE TypeOK'
    BY <2>6 DEF CommitFails, Replaced, Step
  <2>7. ASSUME NEW ok \in BOOLEAN, Check(r, ok) PROVE TypeOK'
    BY <2>7 DEF Check, Step
  <2>8. CASE Resolve(r)
    BY <2>8 DEF Resolve, Step
  <2>9. CASE Synced(r)
    BY <2>9 DEF Synced, Documentation, Status, Step
  <2>10. CASE Failed(r)
    <3> DEFINE s == [mem[r] EXCEPT !.attempts = attempt[r] + 1,
                                   !.status = "retrying"]
    <3>1. attempt[r] + 1 \in 0..MaxRetries
      BY <2>10, BoundAssumption DEF Failed
    <3>2. s \in Documentation
      BY <3>1, RecordType DEF Status
    <3>3. /\ file' = s
          /\ mem' = [mem EXCEPT ![r] = s]
          /\ attempt' = [attempt EXCEPT ![r] = @ + 1]
          /\ pc' = [pc EXCEPT ![r] = "attempt"]
          /\ UNCHANGED <<node, doc, seen, work, stop, bounds>>
      BY <2>10 DEF Failed
    <3> HIDE DEF s
    <3>4. attempt' \in [Request -> 0..MaxRetries]
      BY <3>1, <3>3
    <3>5. mem' \in [Request -> Documentation]
      BY <3>2, <3>3
    <3> QED
      BY <3>2, <3>3, <3>4, <3>5 DEF Step
  <2>11. CASE Exhausted(r)
    BY <2>11 DEF Exhausted, Step
  <2>12. CASE Blocked(r)
    <3>1. MaxRetries \in 0..MaxRetries /\ "blocked" \in Status
      BY BoundAssumption DEF Status
    <3>2. [mem[r] EXCEPT !.attempts = MaxRetries, !.status = "blocked"]
            \in Documentation
      BY <3>1, RecordType
    <3> QED
      BY <2>12, <3>2 DEF Blocked, Step
  <2> QED
    BY <1>7, <2>1, <2>2, <2>3, <2>4, <2>5, <2>6, <2>7, <2>8, <2>9, <2>10,
       <2>11, <2>12 DEF Proceed
<1>8. CASE Restart
  BY <1>8, BoundAssumption
  DEF Restart, NoDocumentation, Documentation, Status, Step
<1>9. CASE UNCHANGED vars
  BY <1>9 DEF vars
<1> QED
  BY <1>1, <1>2, <1>3, <1>4, <1>5, <1>6, <1>7, <1>8, <1>9 DEF Next

(* The documentation task, its copies and the batches keep their types; in *)
(* particular no sync retries more often than MAX_DOCUMENTATION_AUTO_RETRIES. *)
THEOREM DocsTypeCorrect == Spec => []TypeOK
<1>1. Init => TypeOK
  BY InitType
<1>2. TypeOK /\ [Next]_vars => TypeOK'
  BY NextType
<1> QED
  BY <1>1, <1>2, PTL DEF Spec

-----------------------------------------------------------------------------
(* The inductive invariant.                                                *)

(* At most one request is at work, and tasks.json says so.                 *)
Alone ==
  /\ \A q, r \in Request : pc[q] # "idle" /\ pc[r] # "idle" => q = r
  /\ \A r \in Request :
       pc[r] # "idle" => file.status \in {"pending", "running", "retrying"}

(* Its copies name the same changes as the file.                           *)
CopiesAgree ==
  \A r \in Request :
    /\ pc[r] # "idle" => mem[r].changed = file.changed
    /\ pc[r] \in {"make", "check", "resolve", "synced"}
         => seen[r].changed = file.changed

(* A directory lies in directories of the tree.                            *)
TreeClosed == Root \in Tree /\ \A d \in Tree : Above[d] \subseteq Tree

NotFresh == { d \in Tree : doc[d] # "fresh" }

(* The recorded changes account for every document that is out of date.    *)
Covered == NotFresh \subseteq WithAbove(file.changed) \cup {Root}

(* A batch takes care of every document that is out of date, and what it   *)
(* has made so far is true.                                                *)
BatchSound ==
  \A r \in Request : pc[r] = "make" =>
    /\ todo[r] \cup made[r] \subseteq Tree
    /\ NotFresh \subseteq todo[r] \cup made[r]
    /\ made[r] \subseteq sound[r]

(* After the batch was written nothing is out of date.                     *)
BatchWritten ==
  \A r \in Request : pc[r] \in {"check", "resolve", "synced"} => NotFresh = {}

(* The error node is written before the status it goes with.               *)
NodeFirst ==
  \A r \in Request : /\ pc[r] = "synced" => node # "active"
                     /\ pc[r] = "blocked" => node = "active"

IInv ==
  /\ TypeOK
  /\ Alone
  /\ CopiesAgree
  /\ TreeClosed
  /\ Covered
  /\ BatchSound
  /\ BatchWritten
  /\ NodeFirst
  /\ SyncedIsFresh
  /\ BlockedIsShown

(* The recorded changes name the directories an attempt has to describe.   *)
LEMMA AffectedCovers ==
  ASSUME TreeClosed, Covered, NEW s, s.changed = file.changed
  PROVE  Affected(s) \subseteq Tree /\ NotFresh \subseteq Affected(s)
<1>1. NotFresh \subseteq Tree
  BY DEF NotFresh
<1>2. CASE Gaps # {}
  BY <1>1, <1>2 DEF Affected, TreeClosed
<1>3. CASE Gaps = {}
  BY <1>1, <1>3 DEF Affected, TreeClosed, Covered
<1> QED
  BY <1>2, <1>3

(* A change that is recorded keeps the tree whole and is accounted for.    *)
LEMMA ChangeCovered ==
  ASSUME TypeOK, TreeClosed, Covered, NEW S \in SUBSET Dir,
         doc' = Outdated(S), file.changed \cup S \subseteq file'.changed
  PROVE  TreeClosed' /\ Covered'
<1>1. /\ Tree' = Tree \cup (WithAbove(S) \cap Dir)
      /\ NotFresh' \subseteq NotFresh \cup WithAbove(S)
  BY DEF Tree, NotFresh, Outdated, TypeOK
<1>2. WithAbove(S) \subseteq Dir
  BY TreeAssumption DEF WithAbove
<1>3. \A d \in WithAbove(S) : Above[d] \subseteq WithAbove(S)
  BY TreeAssumption DEF WithAbove
<1>4. TreeClosed'
  BY <1>1, <1>2, <1>3 DEF TreeClosed
<1>5. /\ WithAbove(S) \subseteq WithAbove(file'.changed)
      /\ WithAbove(file.changed) \subseteq WithAbove(file'.changed)
  BY DEF WithAbove
<1> QED
  BY <1>1, <1>4, <1>5 DEF Covered

(* Writing documents of a sound batch makes them fresh.                    *)
LEMMA WriteFreshens ==
  ASSUME TypeOK, BatchSound, NEW r \in Request, pc[r] = "make",
         NEW S \in SUBSET made[r], doc' = Replaced(r, S)
  PROVE  Tree' = Tree /\ NotFresh' = NotFresh \ S
<1>1. S \subseteq Tree /\ S \subseteq sound[r]
  BY DEF BatchSound
<1>2. \A d \in Dir : doc'[d] = IF d \in S THEN "fresh" ELSE doc[d]
  BY <1>1 DEF Replaced
<1> QED
  BY <1>1, <1>2 DEF Tree, NotFresh

LEMMA InitInv == Sequential /\ Init => IInv
<1> SUFFICES ASSUME Sequential, Init PROVE IInv
  OBVIOUS
<1>1. PICK S \in SUBSET Dir :
        doc = [d \in Dir |-> IF d \in WithAbove(S) \cup {Root} THEN "fresh"
                             ELSE "none"]
  <2>1. PICK S \in SUBSET Dir, M \in SUBSET Undocumented :
          doc = [d \in Dir |-> IF d \in M THEN "missing"
                               ELSE IF d \in WithAbove(M) THEN "stale"
                               ELSE IF d \in WithAbove(S) \cup {Root}
                                 THEN "fresh" ELSE "none"]
    BY DEF Init
  <2>2. M = {} /\ WithAbove(M) = {}
    BY DEF Sequential, WithAbove
  <2>3. doc = [d \in Dir |-> IF d \in WithAbove(S) \cup {Root} THEN "fresh"
                             ELSE "none"]
    BY <2>1, <2>2
  <2> QED
    BY <2>3
<1>2. Tree = (WithAbove(S) \cap Dir) \cup {Root} /\ NotFresh = {}
  <2>1. \A d \in Dir : doc[d] = IF d \in WithAbove(S) \cup {Root}
                               THEN "fresh" ELSE "none"
    BY <1>1
  <2> QED
    BY <2>1, TreeAssumption DEF Tree, NotFresh
<1>3. TreeClosed
  BY <1>2, TreeAssumption DEF TreeClosed, WithAbove
<1>4. \A r \in Request : pc[r] = "idle"
  BY DEF Init, Idle
<1>5. Alone /\ CopiesAgree /\ BatchSound /\ BatchWritten /\ NodeFirst
  BY <1>4 DEF Alone, CopiesAgree, BatchSound, BatchWritten, NodeFirst
<1>6. Covered
  BY <1>2 DEF Covered
<1>7. file.status = "not_required"
  BY DEF Init, NoDocumentation
<1> QED
  BY <1>3, <1>5, <1>6, <1>7, InitType DEF IInv, SyncedIsFresh, BlockedIsShown

LEMMA NextInv == Sequential /\ IInv /\ [Next]_vars => IInv'
<1> SUFFICES ASSUME Sequential, IInv, [Next]_vars PROVE IInv'
  OBVIOUS
<1>1. TypeOK /\ TypeOK'
  BY NextType DEF IInv
<1> DEFINE Rest == /\ Alone /\ CopiesAgree /\ TreeClosed /\ Covered
                   /\ BatchSound /\ BatchWritten /\ NodeFirst
                   /\ SyncedIsFresh /\ BlockedIsShown
<1>2. SUFFICES Rest'
  BY <1>1 DEF IInv
<1>3. Rest
  BY DEF IInv
<1>4. ASSUME NEW d \in Dir, NEW more \in BOOLEAN, Land(d, more) PROVE Rest'
  <2>1. TreeClosed' /\ Covered'
    BY <1>1, <1>3, <1>4, ChangeCovered DEF Land
  <2>2. \A r \in Request : pc'[r] = "idle"
    BY <1>4 DEF Land, MayAct, Sequential
  <2> QED
    BY <1>4, <2>1, <2>2
    DEF Land, Alone, CopiesAgree, BatchSound, BatchWritten, NodeFirst,
        SyncedIsFresh, BlockedIsShown
<1>5. ASSUME NEW S \in SUBSET Dir, NEW asks \in BOOLEAN, Edit(S, asks)
      PROVE  Rest'
  <2>1. file' = [file EXCEPT !.status = "pending"]
    BY <1>5 DEF Edit, Sequential
  <2>2. file'.status = "pending" /\ file'.changed = file.changed
    BY <1>1, <2>1 DEF TypeOK, Documentation
  <2>3. TreeClosed' /\ Covered'
    BY <1>1, <1>3, <1>5, <2>2, ChangeCovered DEF Edit
  <2>4. \A r \in Request : pc'[r] = "idle"
    BY <1>5 DEF Edit, MayAct, Sequential
  <2> QED
    BY <2>2, <2>3, <2>4
    DEF Alone, CopiesAgree, BatchSound, BatchWritten, NodeFirst,
        SyncedIsFresh, BlockedIsShown
<1>6. ASSUME UNCHANGED doc PROVE Tree' = Tree /\ NotFresh' = NotFresh
  BY <1>6 DEF Tree, NotFresh
<1>7. CASE NewWork
  <2>1. file'.status = file.status /\ file'.changed = file.changed
    BY <1>1, <1>7 DEF NewWork, TypeOK, Documentation
  <2> QED
    BY <1>3, <1>6, <1>7, <2>1
    DEF NewWork, Alone, CopiesAgree, TreeClosed, Covered, BatchSound, work,
        BatchWritten, NodeFirst, SyncedIsFresh, BlockedIsShown
<1>8. Reset(file).status = "pending" /\ Reset(file).changed = file.changed
  BY <1>1 DEF Reset, TypeOK, Documentation
<1>9. ASSUME NEW r \in Request, StartSync(r) PROVE Rest'
  <2>1. /\ file' = Reset(file) /\ mem'[r] = Reset(file)
        /\ pc' = [pc EXCEPT ![r] = "attempt"]
        /\ \A q \in Request : pc[q] = "idle"
        /\ UNCHANGED <<node, doc>>
    BY <1>1, <1>9 DEF StartSync, Goto, MayAct, Sequential, TypeOK
  <2>2. \A q \in Request : pc'[q] # "idle" => q = r /\ pc'[q] = "attempt"
    BY <1>1, <2>1 DEF TypeOK
  <2> QED
    BY <1>3, <1>6, <1>8, <2>1, <2>2
    DEF Alone, CopiesAgree, TreeClosed, Covered, BatchSound, BatchWritten,
        NodeFirst, SyncedIsFresh, BlockedIsShown
<1>10. ASSUME NEW r \in Request, RetryRefused(r) PROVE Rest'
  <2>1. \A q \in Request : pc'[q] = "idle"
    BY <1>10 DEF RetryRefused, MayAct, Sequential
  <2> QED
    BY <1>3, <1>6, <1>8, <1>10, <2>1
    DEF RetryRefused, Alone, CopiesAgree, TreeClosed, Covered, BatchSound,
        BatchWritten, NodeFirst, SyncedIsFresh, BlockedIsShown
<1>11. CASE UNCHANGED <<file, node, doc, pc, mem, seen, work>>
  BY <1>3, <1>6, <1>11
  DEF Alone, CopiesAgree, TreeClosed, Covered, BatchSound, BatchWritten,
      NodeFirst, SyncedIsFresh, BlockedIsShown, work
<1>12. ASSUME NEW r \in Request, Stop(r) PROVE Rest'
  BY <1>11, <1>12 DEF Stop, disk
<1>13. CASE Restart
  <2>1. /\ \A r \in Request : pc'[r] = "idle"
        /\ UNCHANGED <<file, node, doc>>
    BY <1>13 DEF Restart, disk
  <2> QED
    BY <1>3, <1>6, <2>1
    DEF Alone, CopiesAgree, TreeClosed, Covered, BatchSound, BatchWritten,
        NodeFirst, SyncedIsFresh, BlockedIsShown
<1>14. ASSUME NEW r \in Request, Proceed(r) PROVE Rest'
  <2>1. /\ pc[r] # "idle"
        /\ \A q \in Request : q # r => pc[q] = "idle"
        /\ file.status \in {"pending", "running", "retrying"}
        /\ mem[r].changed = file.changed
    BY <1>3, <1>14
    DEF Proceed, Stopped, Attempt, Make, MakeFails, Commit, CommitFails,
        Check, Resolve, Synced, Failed, Exhausted, Blocked, Alone, CopiesAgree
  <2>2. ASSUME NEW step \in Step, pc' = [pc EXCEPT ![r] = step]
        PROVE  \A q \in Request : pc'[q] # "idle" => q = r /\ pc'[q] = step
    BY <1>1, <2>1, <2>2 DEF TypeOK
  (* What is left to show of a step that ends the request, or takes it to  *)
  (* one of the steps without a batch.                                     *)
  <2>3. ASSUME pc' = [pc EXCEPT ![r] = "idle"],
               file'.changed = file.changed, UNCHANGED doc,
               SyncedIsFresh', BlockedIsShown'
        PROVE  Rest'
    <3>1. \A q \in Request : pc'[q] = "idle"
      BY <2>2, <2>3 DEF Step
    <3> QED
      BY <1>3, <1>6, <2>3, <3>1
      DEF Alone, CopiesAgree, TreeClosed, Covered, BatchSound, BatchWritten,
          NodeFirst
  <2>4. CASE Stopped(r)
    <3>1. file'.status = "pending" /\ file'.changed = file.changed
      BY <1>1, <2>1, <2>4 DEF Stopped, TypeOK, Documentation
    <3> QED
      BY <2>3, <2>4, <3>1
      DEF Stopped, Leave, Goto, SyncedIsFresh, BlockedIsShown
  <2>5. CASE Attempt(r)
    <3> DEFINE s == [mem[r] EXCEPT !.attempts = attempt[r],
                 !.status = IF attempt[r] = 0 THEN "running" ELSE "retrying"]
    <3>1. s.status \in {"running", "retrying"} /\ s.changed = file.changed
      BY <1>1, <2>1 DEF TypeOK, Documentation
    <3>2. Affected(s) \subseteq Tree /\ NotFresh \subseteq Affected(s)
      BY <1>3, <3>1, AffectedCovers
    <3>3. /\ file' = s /\ mem'[r] = s /\ seen'[r] = s
          /\ todo'[r] = Affected(s) /\ made'[r] = {} /\ sound'[r] = {}
          /\ pc' = [pc EXCEPT ![r] = "make"]
          /\ UNCHANGED <<node, doc>>
      BY <1>1, <2>5 DEF Attempt, Goto, TypeOK
    <3>4. \A q \in Request : pc'[q] # "idle" => q = r /\ pc'[q] = "make"
      BY <2>2, <3>3 DEF Step
    <3> HIDE DEF s
    <3> QED
      BY <1>3, <1>6, <3>1, <3>2, <3>3, <3>4
      DEF Alone, CopiesAgree, TreeClosed, Covered, BatchSound, BatchWritten,
          NodeFirst, SyncedIsFresh, BlockedIsShown
  <2>6. ASSUME NEW d \in Dir, Make(r, d) PROVE Rest'
    <3>1. /\ pc[r] = "make" /\ d \in todo[r]
          /\ todo' = [todo EXCEPT ![r] = @ \ {d}]
          /\ made' = [made EXCEPT ![r] = @ \cup {d}]
          /\ UNCHANGED <<file, node, doc, pc, mem, seen>>
      BY <2>6 DEF Make, disk
    <3>2. ASSUME NEW e \in Below(d) PROVE Trusted(r, e)
      <4>1. e \in Tree /\ Depth[d] < Depth[e] /\ Depth[d] \in Nat
            /\ Depth[e] \in Nat
        BY <3>2, TreeAssumption DEF Below, Tree
      <4>2. e \notin todo[r]
        BY <2>6, <4>1 DEF Make
      <4>3. CASE e \in made[r]
        BY <1>3, <3>1, <4>3 DEF BatchSound, Trusted
      <4>4. CASE e \notin made[r]
        BY <1>3, <3>1, <4>1, <4>2, <4>4 DEF BatchSound, Trusted, NotFresh
      <4> QED
        BY <4>3, <4>4
    <3>3. sound' = [sound EXCEPT ![r] = @ \cup {d}]
      BY <2>6, <3>2 DEF Make
    <3>4. /\ todo'[r] \cup made'[r] = todo[r] \cup made[r]
          /\ made'[r] = made[r] \cup {d}
          /\ sound'[r] = sound[r] \cup {d}
      BY <1>1, <3>1, <3>3 DEF TypeOK
    <3>5. BatchSound'
      BY <1>3, <1>6, <2>1, <3>1, <3>4 DEF BatchSound
    <3> QED
      BY <1>3, <1>6, <3>1, <3>5
      DEF Alone, CopiesAgree, TreeClosed, Covered, BatchWritten, NodeFirst,
          SyncedIsFresh, BlockedIsShown
  <2>7. ASSUME NEW step \in {"check", "resolve", "failed"},
               pc' = [pc EXCEPT ![r] = step],
               UNCHANGED <<file, node, mem, seen>>,
               Tree' = Tree, NotFresh' \subseteq NotFresh,
               step # "failed" => /\ NotFresh' = {}
                                  /\ seen[r].changed = file.changed
        PROVE  Rest'
    <3>1. \A q \in Request : pc'[q] # "idle" => q = r /\ pc'[q] = step
      BY <2>2, <2>7 DEF Step
    <3> QED
      BY <1>3, <2>1, <2>7, <3>1
      DEF Alone, CopiesAgree, TreeClosed, Covered, BatchSound, BatchWritten,
          NodeFirst, SyncedIsFresh, BlockedIsShown
  <2>8. CASE MakeFails(r)
    BY <1>6, <2>7, <2>8 DEF MakeFails, Goto, disk
  <2>9. CASE Commit(r)
    <3>1. NotFresh \subseteq made[r] /\ seen[r].changed = file.changed
      BY <1>3, <2>9 DEF Commit, BatchSound, CopiesAgree
    <3>2. Tree' = Tree /\ NotFresh' = NotFresh \ made[r]
      BY <1>1, <1>3, <2>9, WriteFreshens DEF Commit
    <3> QED
      BY <2>7, <2>9, <3>1, <3>2 DEF Commit, Goto
  <2>10. ASSUME NEW S \in SUBSET Dir, CommitFails(r, S) PROVE Rest'
    <3>1. Tree' = Tree /\ NotFresh' = NotFresh \ S
      BY <1>1, <1>3, <2>10, WriteFreshens DEF CommitFails
    <3> QED
      BY <2>7, <2>10, <3>1 DEF CommitFails, Goto
  <2>11. ASSUME NEW ok \in BOOLEAN, Check(r, ok) PROVE Rest'
    <3>1. NotFresh = {} /\ seen[r].changed = file.changed
      BY <1>3, <2>11 DEF Check, BatchWritten, CopiesAgree
    <3>2. CASE ok
      BY <1>6, <2>7, <2>11, <3>1, <3>2 DEF Check, Goto, disk
    <3>3. CASE ~ ok
      BY <1>6, <2>7, <2>11, <3>1, <3>3 DEF Check, Goto, disk
    <3> QED
      BY <3>2, <3>3
  <2>12. CASE Resolve(r)
    <3>1. NotFresh = {} /\ seen[r].changed = file.changed
      BY <1>3, <2>12 DEF Resolve, BatchWritten, CopiesAgree
    <3>2. \A q \in Request : pc'[q] # "idle" => q = r /\ pc'[q] = "synced"
      BY <2>2, <2>12 DEF Resolve, Goto, Step
    <3>3. node' # "active" /\ UNCHANGED <<file, doc, mem, seen>>
      BY <2>12 DEF Resolve
    <3> QED
      BY <1>3, <1>6, <2>1, <3>1, <3>2, <3>3
      DEF Alone, CopiesAgree, TreeClosed, Covered, BatchSound, BatchWritten,
          NodeFirst, SyncedIsFresh, BlockedIsShown
  <2>13. CASE Synced(r)
    <3>1. /\ NotFresh = {} /\ node # "active"
          /\ seen[r].changed = file.changed
      BY <1>3, <2>13 DEF Synced, BatchWritten, NodeFirst, CopiesAgree
    <3>2. file'.status = "synced" /\ file'.changed = seen[r].changed
      BY <1>1, <2>13 DEF Synced, TypeOK, Documentation
    <3>3. UNCHANGED <<node, doc>> /\ pc' = [pc EXCEPT ![r] = "idle"]
      BY <2>13 DEF Synced, Leave, Goto
    <3>4. SyncedIsFresh' /\ BlockedIsShown'
      BY <3>1, <3>2, <3>3 DEF SyncedIsFresh, BlockedIsShown, NotFresh, Tree
    <3> QED
      BY <2>3, <3>1, <3>2, <3>3, <3>4
  <2>14. CASE Failed(r)
    <3> DEFINE s == [mem[r] EXCEPT !.attempts = attempt[r] + 1,
                                   !.status = "retrying"]
    <3>1. s.status = "retrying" /\ s.changed = file.changed
      BY <1>1, <2>1 DEF TypeOK, Documentation
    <3>2. /\ file' = s /\ mem'[r] = s
          /\ pc' = [pc EXCEPT ![r] = "attempt"]
          /\ UNCHANGED <<node, doc>>
      BY <1>1, <2>14 DEF Failed, Goto, TypeOK
    <3>3. \A q \in Request : pc'[q] # "idle" => q = r /\ pc'[q] = "attempt"
      BY <2>2, <3>2 DEF Step
    <3> HIDE DEF s
    <3> QED
      BY <1>3, <1>6, <3>1, <3>2, <3>3
      DEF Alone, CopiesAgree, TreeClosed, Covered, BatchSound, BatchWritten,
          NodeFirst, SyncedIsFresh, BlockedIsShown
  <2>15. CASE Exhausted(r)
    <3>1. \A q \in Request : pc'[q] # "idle" => q = r /\ pc'[q] = "blocked"
      BY <2>2, <2>15 DEF Exhausted, Goto, Step
    <3>2. node' = "active" /\ UNCHANGED <<file, doc, mem, seen>>
      BY <2>15 DEF Exhausted
    <3> QED
      BY <1>3, <1>6, <2>1, <3>1, <3>2
      DEF Alone, CopiesAgree, TreeClosed, Covered, BatchSound, BatchWritten,
          NodeFirst, SyncedIsFresh, BlockedIsShown
  <2>16. CASE Blocked(r)
    <3>1. file'.status = "blocked" /\ file'.changed = file.changed
      BY <1>1, <2>1, <2>16 DEF Blocked, TypeOK, Documentation
    <3>2. UNCHANGED <<node, doc>> /\ pc' = [pc EXCEPT ![r] = "idle"]
      BY <2>16 DEF Blocked, Leave, Goto
    <3>3. node = "active"
      BY <1>3, <2>16 DEF Blocked, NodeFirst
    <3> QED
      BY <2>3, <3>1, <3>2, <3>3 DEF SyncedIsFresh, BlockedIsShown
  <2> QED
    BY <1>14, <2>4, <2>5, <2>6, <2>8, <2>9, <2>10, <2>11, <2>12, <2>13, <2>14,
       <2>15, <2>16 DEF Proceed
<1> HIDE DEF Rest
<1> QED
  BY <1>4, <1>5, <1>7, <1>9, <1>10, <1>11, <1>12, <1>13, <1>14
  DEF Next, vars, disk, work

LEMMA Inv == Sequential => (Spec => []IInv)
<1> SUFFICES ASSUME Sequential PROVE Spec => []IInv
  OBVIOUS
<1>1. Init => IInv
  BY InitInv
<1>2. IInv /\ [Next]_vars => IInv'
  BY NextInv
<1> QED
  BY <1>1, <1>2, PTL DEF Spec

(* When the documentation task is synced, every directory has a document   *)
(* that is true of its code and of the documents below it: if requests     *)
(* follow each other, the architecture is edited through the agent and the *)
(* project was documented at first.                                        *)
THEOREM SyncedDocumentsAreFresh == Sequential => (Spec => []SyncedIsFresh)
<1>1. IInv => SyncedIsFresh
  BY DEF IInv
<1> QED
  BY <1>1, Inv, PTL

(* Under the same assumptions a blocked documentation task has an active   *)
(* error node and a synced one has none, wherever a crash falls.           *)
THEOREM BlockedDocumentationIsShown == Sequential => (Spec => []BlockedIsShown)
<1>1. IInv => BlockedIsShown
  BY DEF IInv
<1> QED
  BY <1>1, Inv, PTL
=============================================================================
