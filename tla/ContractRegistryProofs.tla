----------------------- MODULE ContractRegistryProofs -----------------------
(***************************************************************************)
(* For any number of writers, landings, failing reads and deaths: as long  *)
(* as no live lock file is removed, the sections of apply_deltas_          *)
(* atomically never overlap, and every write of the registry builds on     *)
(* what is on disk, but for those the code does not guard: a landing       *)
(* between somebody's read and write, and a read that fails.               *)
(***************************************************************************)
EXTENDS ContractRegistry, WellFoundedInduction, FiniteSetTheorems, TLAPS

-----------------------------------------------------------------------------
(* The inductive invariant.                                                *)

CallsShaped ==
  /\ call = [w \in Writer |-> call[w]]
  /\ \A w \in Writer :
       call[w] = [pc |-> call[w].pc, batch |-> call[w].batch,
                  expected |-> call[w].expected, view |-> call[w].view]

LockShaped == lock = Null \/ lock \in [by: Writer \cup {Null}, aged: BOOLEAN]

\* Nobody calls before there is a project.
NoneBefore == scanned = Null => \A w \in Writer : call[w].pc = "idle"

\* What a writer works from is what is on disk, and what it was told.
ReadIsCurrent ==
  ~ robbed =>
    \A w \in Writer : call[w].pc = "read" /\ w \notin misled =>
      call[w].view = OnDisk /\ call[w].expected \in {Null, OnDisk}

IInv ==
  /\ robbed \in BOOLEAN
  /\ CallsShaped
  /\ LockShaped
  /\ NoneBefore
  /\ SectionIsHeld
  /\ ReadIsCurrent

LEMMA InitInv == Init => IInv
<1> SUFFICES ASSUME Init PROVE IInv
  OBVIOUS
<1>1. \A w \in Writer : call[w] = NoCall
  BY DEF Init
<1>2. CallsShaped
  BY <1>1 DEF Init, CallsShaped, NoCall
<1>3. \A w \in Writer : call[w].pc = "idle"
  BY <1>1 DEF NoCall
<1> QED
  BY <1>2, <1>3 DEF Init, IInv, LockShaped, NoneBefore, SectionIsHeld,
                    ReadIsCurrent, InSection

-----------------------------------------------------------------------------
(* What a change of one call leaves of the others.                         *)

LEMMA GotoChanges ==
  ASSUME CallsShaped, NEW w \in Writer, NEW p, Goto(w, p)
  PROVE  /\ CallsShaped'
         /\ \A v \in Writer \ {w} : call'[v] = call[v]
         /\ call'[w].pc = p
         /\ call'[w].view = call[w].view
         /\ call'[w].batch = call[w].batch
         /\ call'[w].expected = call[w].expected
BY DEF CallsShaped, Goto

LEMMA LeaveChanges ==
  ASSUME CallsShaped, NEW w \in Writer, Leave(w)
  PROVE  /\ CallsShaped'
         /\ \A v \in Writer \ {w} : call'[v] = call[v]
         /\ call'[w].pc = "idle"
BY DEF CallsShaped, Leave, NoCall

(* Nobody but its maker is in a section.                                   *)
LEMMA OneInSection ==
  ASSUME SectionIsHeld, ~ robbed,
         NEW v \in Writer, NEW w \in Writer, InSection(v), InSection(w)
  PROVE  v = w
BY DEF SectionIsHeld

-----------------------------------------------------------------------------
(* Steps that leave the calls alone.                                       *)

LEMMA BeginInv ==
  ASSUME IInv, NEW a, Begin(a) PROVE IInv'
<1>1. \A w \in Writer : call[w].pc = "idle"
  BY DEF IInv, NoneBefore, Begin
<1>2. /\ UNCHANGED <<lock, call, robbed>>
  BY DEF Begin
<1> QED
  BY <1>1, <1>2 DEF IInv, CallsShaped, LockShaped, NoneBefore, SectionIsHeld,
                    ReadIsCurrent, InSection

(* A step of a landing leaves them alone, and who reads while it writes is *)
(* misled from then on.                                                    *)
LEMMA CallsAlone ==
  ASSUME IInv, UNCHANGED <<scanned, lock, call, robbed>>,
         \A w \in Writer : call[w].pc = "read" /\ w \notin misled' =>
           file' = file /\ w \notin misled
  PROVE  IInv'
<1>1. ReadIsCurrent'
  BY DEF IInv, ReadIsCurrent, OnDisk, EmptyRegistry
<1>2. /\ CallsShaped' /\ LockShaped' /\ NoneBefore' /\ SectionIsHeld'
  BY DEF IInv, CallsShaped, LockShaped, NoneBefore, SectionIsHeld, InSection
<1> QED
  BY <1>1, <1>2 DEF IInv

LEMMA LandingInv ==
  ASSUME IInv, NEW l \in Lander,
         \/ \E p \in Patches : CheckPatch(l, p)
         \/ MergeDelta(l)
         \/ ReadToReconcile(l)
         \/ GiveUp(l)
         \/ Deliver(l)
  PROVE  IInv'
<1>1. /\ UNCHANGED <<file, scanned, lock, call, robbed>>
      /\ misled' \in {misled, misled \ {l}}
  BY DEF CheckPatch, MergeDelta, ReadToReconcile, GiveUp, Deliver, project
<1>2. l \notin Writer
  BY RegistryAssumption
<1> QED
  BY <1>1, <1>2, CallsAlone

LEMMA WriteLandingInv ==
  ASSUME IInv, NEW l \in Lander, WriteLanding(l) PROVE IInv'
<1>1. UNCHANGED <<scanned, lock, call, robbed>>
  BY DEF WriteLanding
<1>2. misled' = (IF file' = file THEN misled
                 ELSE misled \cup (Reading \cup Merging)) \ {l}
  BY DEF WriteLanding, Ends
<1>3. l \notin Writer
  BY RegistryAssumption
<1>4. ASSUME NEW w \in Writer, call[w].pc = "read", w \notin misled'
      PROVE  file' = file /\ w \notin misled
  <2>1. w \in Reading /\ w # l
    BY <1>3, <1>4 DEF Reading
  <2> QED
    BY <1>2, <1>4, <2>1
<1> QED
  BY <1>1, <1>4, CallsAlone

LEMMA ResolveInv ==
  ASSUME IInv, NEW n, Resolve(n) PROVE IInv'
BY DEF Resolve, IInv, CallsShaped, LockShaped, NoneBefore, SectionIsHeld,
       ReadIsCurrent, InSection, OnDisk,
       EmptyRegistry

LEMMA AgeInv ==
  ASSUME IInv, Age PROVE IInv'
<1>1. UNCHANGED <<file, scanned, call, robbed, misled>>
  BY DEF Age, project
<1>2. /\ lock # Null
      /\ lock' = [lock EXCEPT !.aged = TRUE]
      /\ lock \in [by: Writer \cup {Null}, aged: BOOLEAN]
  BY DEF Age, IInv, LockShaped
<1>3. /\ lock' \in [by: Writer \cup {Null}, aged: BOOLEAN]
      /\ lock'.by = lock.by
  BY <1>2
<1>4. lock' # Null
  BY <1>3, RegistryAssumption
<1> QED
  BY <1>1, <1>2, <1>3, <1>4
  DEF IInv, CallsShaped, LockShaped, NoneBefore, SectionIsHeld,
      ReadIsCurrent, InSection, OnDisk,
       EmptyRegistry

-----------------------------------------------------------------------------
(* Steps of a call outside the section.                                    *)

LEMMA CallInv ==
  ASSUME IInv, NEW w \in Writer, NEW b, NEW o, Call(w, b, o) PROVE IInv'
<1>1. /\ UNCHANGED <<file, scanned, lock, robbed, misled>>
      /\ scanned # Null
  BY DEF Call, project
<1>2. /\ CallsShaped'
      /\ \A v \in Writer \ {w} : call'[v] = call[v]
      /\ call'[w].pc = "waiting"
  BY DEF Call, IInv, CallsShaped
<1> QED
  BY <1>1, <1>2 DEF IInv, LockShaped, NoneBefore, SectionIsHeld,
                    ReadIsCurrent, InSection, OnDisk,
       EmptyRegistry

(* A call that stays outside, or leaves, disturbs nobody, whatever becomes *)
(* of a lock that nobody in a section holds.                               *)
LEMMA OutsideStep ==
  ASSUME IInv, NEW w \in Writer, CallsShaped', LockShaped',
         UNCHANGED <<file, scanned>>, robbed' \in BOOLEAN,
         ~ robbed' => ~ robbed,
         misled \ {w} \subseteq misled',
         call[w].pc # "idle",
         \A v \in Writer \ {w} : call'[v] = call[v],
         call'[w].pc \in {"idle", "waiting", "reaping"},
         ~ robbed' => \A v \in Writer \ {w} : InSection(v) => lock' = lock
  PROVE  IInv'
<1>1. NoneBefore'
  BY DEF IInv, NoneBefore
<1>2. SectionIsHeld'
  BY DEF IInv, SectionIsHeld, InSection
<1>3. ReadIsCurrent'
  BY DEF IInv, ReadIsCurrent, OnDisk
<1> QED
  BY <1>1, <1>2, <1>3 DEF IInv

LEMMA SeeOldInv ==
  ASSUME IInv, NEW w \in Writer, SeeOld(w) PROVE IInv'
<1>1. /\ CallsShaped'
      /\ \A v \in Writer \ {w} : call'[v] = call[v]
      /\ call'[w].pc = "reaping"
  BY GotoChanges DEF SeeOld, IInv
<1> QED
  BY <1>1, OutsideStep DEF SeeOld, project, IInv, LockShaped

LEMMA TimeOutInv ==
  ASSUME IInv, NEW w \in Writer, TimeOut(w) PROVE IInv'
<1>1. /\ CallsShaped'
      /\ \A v \in Writer \ {w} : call'[v] = call[v]
      /\ call'[w].pc = "idle"
  BY LeaveChanges DEF TimeOut, IInv
<1> QED
  BY <1>1, OutsideStep DEF TimeOut, project, IInv, LockShaped

(* A lock that is removed and was not live is nobody's in a section.       *)
LEMMA ReapInv ==
  ASSUME IInv, NEW w \in Writer, Reap(w) PROVE IInv'
<1>1. /\ CallsShaped'
      /\ \A v \in Writer \ {w} : call'[v] = call[v]
      /\ call'[w].pc \in {"idle", "waiting"}
  BY GotoChanges, LeaveChanges DEF Reap, IInv
<1>2. /\ robbed' \in BOOLEAN
      /\ ~ robbed' => ~ robbed /\ ~ IsLive(lock)
  BY DEF Reap, IInv
<1>3. ~ robbed' => \A v \in Writer : ~ InSection(v)
  BY <1>2, RegistryAssumption DEF IInv, SectionIsHeld, IsLive
<1>4. LockShaped'
  BY DEF Reap, LockShaped
<1> QED
  BY <1>1, <1>2, <1>3, <1>4, OutsideStep DEF Reap, project

LEMMA ReleaseInv ==
  ASSUME IInv, NEW w \in Writer, Release(w) PROVE IInv'
<1>1. /\ CallsShaped'
      /\ \A v \in Writer \ {w} : call'[v] = call[v]
      /\ call'[w].pc = "idle"
  BY LeaveChanges DEF Release, IInv
<1>2. /\ robbed' \in BOOLEAN
      /\ ~ robbed' => ~ robbed
  BY DEF Release, IInv
<1>3. ~ robbed => \A v \in Writer \ {w} : ~ InSection(v)
  BY OneInSection DEF IInv, Release, InSection
<1>4. LockShaped'
  BY DEF Release, LockShaped
<1> QED
  BY <1>1, <1>2, <1>3, <1>4, OutsideStep DEF Release, project

LEMMA CrashInv ==
  ASSUME IInv, NEW w \in Writer, Crash(w) PROVE IInv'
<1>1. /\ CallsShaped'
      /\ \A v \in Writer \ {w} : call'[v] = call[v]
      /\ call'[w].pc = "idle"
  BY LeaveChanges DEF Crash, IInv
<1>2. ~ robbed => \A v \in Writer \ {w} : ~ InSection(v)
  BY OneInSection DEF IInv, Crash
<1>3. LockShaped'
  BY DEF Crash, IInv, LockShaped
<1> QED
  BY <1>1, <1>2, <1>3, OutsideStep DEF Crash, project, IInv, InSection

-----------------------------------------------------------------------------
(* Steps of the section.                                                   *)

LEMMA AcquireInv ==
  ASSUME IInv, NEW w \in Writer, Acquire(w) PROVE IInv'
<1>1. /\ CallsShaped'
      /\ \A v \in Writer \ {w} : call'[v] = call[v]
      /\ call'[w].pc = "locked"
  BY GotoChanges DEF Acquire, IInv
<1>2. /\ UNCHANGED <<file, scanned, robbed, misled>>
      /\ lock = Null
      /\ call[w].pc = "waiting"
  BY DEF Acquire, project
<1>3. /\ lock' \in [by: Writer \cup {Null}, aged: BOOLEAN]
      /\ lock'.by = w
  BY DEF Acquire
<1>4. lock' # Null
  BY <1>3, RegistryAssumption
<1>5. NoneBefore'
  BY <1>1, <1>2 DEF IInv, NoneBefore
<1>6. SectionIsHeld'
  BY <1>1, <1>2, <1>3, <1>4 DEF IInv, SectionIsHeld, InSection
<1>7. ReadIsCurrent'
  BY <1>1, <1>2 DEF IInv, ReadIsCurrent, OnDisk
<1> QED
  BY <1>1, <1>2, <1>3, <1>5, <1>6, <1>7 DEF IInv, LockShaped

(* A step inside the section.                                              *)
LEMMA InsideStep ==
  ASSUME IInv, NEW w \in Writer, CallsShaped', InSection(w),
         UNCHANGED <<scanned, lock, robbed>>,
         \A v \in Writer \ {w} : call'[v] = call[v],
         call'[w].pc \in {"read", "leaving"},
         ReadIsCurrent'
  PROVE  IInv'
<1>1. NoneBefore'
  BY DEF IInv, NoneBefore, InSection
<1>2. SectionIsHeld'
  BY DEF IInv, SectionIsHeld, InSection
<1> QED
  BY <1>1, <1>2 DEF IInv, LockShaped

(* What a writer that sees a registry comes to.                            *)
LEMMA SeesChanges ==
  ASSUME CallsShaped, NEW w \in Writer, NEW r, Sees(w, r)
  PROVE  /\ CallsShaped'
         /\ \A v \in Writer \ {w} : call'[v] = call[v]
         /\ call'[w].pc \in {"read", "leaving"}
         /\ call'[w].batch = call[w].batch
         /\ call'[w].pc = "read" =>
              /\ call'[w].view = r
              /\ call'[w].expected \in {Null, r}
         /\ call'[w].view \in {r, call[w].view}
<1>1. CASE call[w].expected \in {Null, r}
  <2>1. call' = [call EXCEPT ![w].pc = "read", ![w].view = r]
    BY <1>1 DEF Sees
  <2>2. call'[w] = [call[w] EXCEPT !.pc = "read", !.view = r]
    BY <2>1 DEF CallsShaped
  <2>3. call[w] = [pc |-> call[w].pc, batch |-> call[w].batch,
                   expected |-> call[w].expected, view |-> call[w].view]
    BY DEF CallsShaped
  <2>4. /\ call'[w].pc = "read" /\ call'[w].view = r
        /\ call'[w].expected = call[w].expected
        /\ call'[w].batch = call[w].batch
    BY <2>2, <2>3
  <2>5. CallsShaped'
    BY <2>1 DEF CallsShaped
  <2> QED
    BY <2>1, <2>4, <2>5, <1>1 DEF CallsShaped
<1>2. CASE call[w].expected \notin {Null, r}
  BY <1>2, GotoChanges DEF Sees
<1> QED
  BY <1>1, <1>2

LEMMA ReadInv ==
  ASSUME IInv, NEW w \in Writer, Read(w) PROVE IInv'
<1>1. /\ UNCHANGED <<file, scanned, lock, robbed, misled>>
      /\ InSection(w)
  BY DEF Read, project, InSection
<1>2. /\ CallsShaped'
      /\ \A v \in Writer \ {w} : call'[v] = call[v]
      /\ call'[w].pc \in {"read", "leaving"}
      /\ call'[w].pc = "read" =>
           /\ call'[w].view = OnDisk
           /\ call'[w].expected \in {Null, OnDisk}
  BY SeesChanges DEF Read, IInv
<1>3. ReadIsCurrent'
  BY <1>1, <1>2 DEF IInv, ReadIsCurrent, OnDisk, EmptyRegistry
<1> QED
  BY <1>1, <1>2, <1>3, InsideStep DEF IInv

LEMMA ReadFailsInv ==
  ASSUME IInv, NEW w \in Writer, ReadFails(w) PROVE IInv'
<1>1. /\ UNCHANGED <<file, scanned, lock, robbed>>
      /\ misled' = misled \cup (Reading' \ Reading)
      /\ call[w].pc = "locked"
  BY DEF ReadFails, project
<1>2. /\ CallsShaped'
      /\ \A v \in Writer \ {w} : call'[v] = call[v]
      /\ call'[w].pc \in {"read", "leaving"}
  BY SeesChanges DEF ReadFails, IInv
<1>3. call'[w].pc = "read" => w \in misled'
  BY <1>1 DEF Reading
<1>4. ReadIsCurrent'
  BY <1>1, <1>2, <1>3 DEF IInv, ReadIsCurrent, OnDisk, EmptyRegistry
<1> QED
  BY <1>1, <1>2, <1>4, InsideStep DEF IInv, InSection

(* Only one writer is there to commit.                                     *)
LEMMA CommitAlone ==
  ASSUME IInv, NEW w \in Writer, Commit(w), ~ robbed
  PROVE  \A v \in Writer \ {w} : call[v].pc # "read"
BY OneInSection DEF IInv, Commit, InSection

LEMMA CommitInv ==
  ASSUME IInv, NEW w \in Writer, Commit(w) PROVE IInv'
<1>1. /\ CallsShaped'
      /\ \A v \in Writer \ {w} : call'[v] = call[v]
      /\ call'[w].pc = "leaving"
  BY GotoChanges DEF Commit, IInv
<1>2. /\ UNCHANGED <<scanned, lock, robbed>>
      /\ InSection(w)
  BY DEF Commit, project, InSection
<1>3. ReadIsCurrent'
  BY <1>1, <1>2, CommitAlone DEF ReadIsCurrent
<1> QED
  BY <1>1, <1>2, <1>3, InsideStep

-----------------------------------------------------------------------------

LEMMA NextInv == IInv /\ [Next]_vars => IInv'
<1> SUFFICES ASSUME IInv, [Next]_vars PROVE IInv'
  OBVIOUS
<1>1. ASSUME NEW a \in Architectures, Begin(a) PROVE IInv'
  BY <1>1, BeginInv
<1>2. ASSUME NEW l \in Lander,
             \/ \E p \in Patches : CheckPatch(l, p)
             \/ MergeDelta(l)
             \/ ReadToReconcile(l)
             \/ GiveUp(l)
             \/ Deliver(l)
      PROVE IInv'
  BY <1>2, LandingInv
<1>3. ASSUME NEW n \in notes, Resolve(n) PROVE IInv'
  BY <1>3, ResolveInv
<1>4. ASSUME NEW l \in Lander, WriteLanding(l) PROVE IInv'
  BY <1>4, WriteLandingInv
<1>5. ASSUME NEW w \in Writer, NEW b \in Batches, NEW o \in BOOLEAN,
             Call(w, b, o)
      PROVE IInv'
  BY <1>5, CallInv
<1>6. ASSUME NEW w \in Writer, Proceed(w) PROVE IInv'
  BY <1>6, AcquireInv, SeeOldInv, ReapInv, TimeOutInv, ReadInv, ReadFailsInv,
     CommitInv, ReleaseInv
  DEF Proceed
<1>7. ASSUME NEW w \in Writer, Crash(w) PROVE IInv'
  BY <1>7, CrashInv
<1>8. CASE Age
  BY <1>8, AgeInv
<1>9. CASE UNCHANGED vars
  BY <1>9 DEF vars, project, IInv, CallsShaped, LockShaped, NoneBefore,
              SectionIsHeld, ReadIsCurrent, InSection, OnDisk,
       EmptyRegistry
<1> QED
  BY <1>1, <1>2, <1>3, <1>4, <1>5, <1>6, <1>7, <1>8, <1>9 DEF Next

(* The section of apply_deltas_atomically is held by the maker of the lock *)
(* file that is there, unless a live lock was removed: sections do not     *)
(* overlap, whoever dies and however the reaping of dead locks interleaves.*)
THEOREM SectionsAreHeld == Spec => []SectionIsHeld
<1>1. IInv => SectionIsHeld
  BY DEF IInv
<1> QED
  BY InitInv, NextInv, <1>1, PTL DEF Spec

LEMMA CommitBuildsOnDisk ==
  ASSUME IInv, NEW w \in Writer, Commit(w), ~ robbed, w \notin misled
  PROVE  /\ ~ robbed'
         /\ misled' \cap Writer \subseteq misled
         /\ file # Null /\ file' # file => Batched
<1>1. ~ robbed'
  BY DEF Commit
<1>2. misled' \cap Writer \subseteq misled
  BY RegistryAssumption DEF Commit, Ends, Merging
<1>3. ASSUME file # Null, file' # file PROVE Batched
  <2>1. /\ call[w].pc = "read"
        /\ call[w].view = file
        /\ call[w].expected \in {Null, file}
    BY <1>3 DEF Commit, IInv, ReadIsCurrent, OnDisk
  <2>2. file' = ApplyBatch(file, call[w].batch)
    BY <1>3, <2>1 DEF Commit
  <2>3. call'[w].pc = "leaving"
    BY GotoChanges DEF Commit, IInv
  <2> QED
    BY <2>1, <2>2, <2>3 DEF Batched
<1> QED
  BY <1>1, <1>2, <1>3

(* A batch that is written was applied, as a whole, to the registry that   *)
(* is on disk at that moment and that its agent expected, and misleads no  *)
(* other batch; unless a live lock was removed, a landing wrote since the  *)
(* writer read, or its read failed and it took the file for none.          *)
THEOREM BatchesBuildOnDisk ==
  Spec => [][\A w \in Writer : Commit(w) /\ ~ robbed /\ w \notin misled =>
               /\ ~ robbed'
               /\ misled' \cap Writer \subseteq misled
               /\ file # Null /\ file' # file => Batched]_vars
<1>1. IInv /\ [Next]_vars =>
        [\A w \in Writer : Commit(w) /\ ~ robbed /\ w \notin misled =>
           /\ ~ robbed'
           /\ misled' \cap Writer \subseteq misled
           /\ file # Null /\ file' # file => Batched]_vars
  BY CommitBuildsOnDisk
<1> QED
  BY <1>1, InitInv, NextInv, PTL DEF Spec

-----------------------------------------------------------------------------
(* Registries as they are written: an id says the type of its entry and,   *)
(* for an export, all of its key; and who exports is a module.             *)

Depends == UNION {[S -> SUBSET Module] : S \in SUBSET Module}

Fits(e) ==
  e.id # Null =>
    e.id[1] = e.type /\ (e.type = "public_api" => e.id = Id(e))

Sound ==
  {r \in Registry : \A e \in r.entries :
     Fits(e) /\ (e.type = "public_api" => e.owner \in Modules(r))}

\* An entry as normalize_contracts leaves it.
Full(e) ==
  [e EXCEPT !.owner = OwnerOf(e),
            !.id = IF @ = Null THEN Id(e) ELSE @,
            !.status = IF @ = Null THEN "active" ELSE @]

LEMMA OwnerIs ==
  ASSUME NEW e \in Entry
  PROVE  /\ OwnerOf(e) \in Owner /\ e.owner \in {OwnerOf(e), Null}
         /\ e.type # "shared_kernel" => OwnerOf(e) = e.owner
         /\ \A n : n.type = e.type /\ n.owner = OwnerOf(e) =>
              OwnerOf(n) = OwnerOf(e)
BY DEF OwnerOf, Owner, Entry

LEMMA RegistryIs ==
  ASSUME NEW D \in Depends, NEW E \in SUBSET Entry
  PROVE  [depends_on |-> D, entries |-> E] \in Registry
BY DEF Registry, Depends

LEMMA RegistryHas ==
  ASSUME NEW r \in Registry
  PROVE  /\ r.depends_on \in Depends /\ r.entries \in SUBSET Entry
         /\ r = [depends_on |-> r.depends_on, entries |-> r.entries]
BY DEF Registry, Depends

LEMMA WithEntries ==
  ASSUME NEW r \in Registry, NEW E \in SUBSET Entry
  PROVE  /\ [r EXCEPT !.entries = E] \in Registry
         /\ [r EXCEPT !.entries = E].entries = E
         /\ [r EXCEPT !.entries = E].depends_on = r.depends_on
<1> DEFINE x == [depends_on |-> r.depends_on, entries |-> E]
<1>1. [r EXCEPT !.entries = E] = x
  BY DEF Registry
<1>2. x \in Registry
  BY RegistryHas, RegistryIs
<1> QED
  BY <1>1, <1>2

LEMMA DependsHas ==
  ASSUME NEW D \in Depends
  PROVE  /\ DOMAIN D \subseteq Module
         /\ \A m \in DOMAIN D : D[m] \subseteq Module
         /\ D = [m \in DOMAIN D |-> D[m]]
BY DEF Depends

LEMMA FullType ==
  ASSUME NEW e \in Entry
  PROVE  /\ Full(e) \in Entry
         /\ Full(e).id = (IF e.id = Null THEN Id(e) ELSE e.id)
         /\ Full(e).status = (IF e.status = Null THEN "active" ELSE e.status)
         /\ Full(e).type = e.type /\ Full(e).owner = OwnerOf(e)
         /\ Full(e).name = e.name /\ Full(e).content = e.content
         /\ Full(e).consumers = e.consumers
         /\ Full(e).ref = e.ref /\ Full(e).seen = e.seen
         /\ OwnerOf(Full(e)) = OwnerOf(e)
         /\ Id(Full(e)) = Id(e)
         /\ Full(Full(e)) = Full(e)
         /\ Full(e).id # Null
         /\ Fits(e) => Fits(Full(e))
<1> DEFINE o == OwnerOf(e)
           i == IF e.id = Null THEN Id(e) ELSE e.id
           s == IF e.status = Null THEN "active" ELSE e.status
<1>0. o \in Owner
  BY OwnerIs
<1>1. Id(e) \in RegistryType \X Owner \X Symbol
  BY <1>0 DEF Id, Entry
<1>2. /\ i \in (RegistryType \X Owner \X Symbol) \cup {Null}
      /\ s \in RegistryStatus \cup {Null}
  BY <1>1 DEF RegistryStatus, Entry
<1>3. Full(e) = [e EXCEPT !.owner = o, !.id = i, !.status = s]
  BY DEF Full, Entry
<1> HIDE DEF o, i, s
<1>4. /\ Full(e).id = (IF e.id = Null THEN Id(e) ELSE e.id)
      /\ Full(e).status = (IF e.status = Null THEN "active" ELSE e.status)
      /\ Full(e).type = e.type /\ Full(e).owner = OwnerOf(e)
      /\ Full(e).name = e.name /\ Full(e).content = e.content
      /\ Full(e).consumers = e.consumers
      /\ Full(e).ref = e.ref /\ Full(e).seen = e.seen
      /\ Full(e) \in Entry
  <2>1. /\ Full(e).id = i /\ Full(e).status = s
        /\ Full(e).type = e.type /\ Full(e).owner = o
        /\ Full(e).name = e.name /\ Full(e).content = e.content
        /\ Full(e).consumers = e.consumers
        /\ Full(e).ref = e.ref /\ Full(e).seen = e.seen
        /\ Full(e) \in Entry
    BY <1>0, <1>2, <1>3 DEF Entry
  <2> QED
    BY <2>1 DEF o, i, s
<1>5. OwnerOf(Full(e)) = OwnerOf(e) /\ Id(Full(e)) = Id(e)
  BY <1>4, OwnerIs DEF Id
<1>6. Full(e).id # Null
  BY <1>1, <1>4, ContractsAssumption
<1>7. Full(Full(e)) = Full(e)
  <2> DEFINE n == Full(e)
             j == IF n.id = Null THEN Id(n) ELSE n.id
             t == IF n.status = Null THEN "active" ELSE n.status
  <2>1. j = n.id /\ t = n.status /\ OwnerOf(n) = n.owner
    BY <1>4, <1>5, <1>6
  <2>2. n \in Entry
    BY <1>4
  <2>3. Full(n) = [n EXCEPT !.owner = OwnerOf(n), !.id = j, !.status = t]
    <3> HIDE DEF n
    <3> QED
      BY <2>2 DEF Full, Entry
  <2> HIDE DEF n, j, t
  <2>4. [n EXCEPT !.owner = n.owner, !.id = n.id, !.status = n.status] = n
    BY <2>2 DEF Entry
  <2> QED
    BY <2>1, <2>3, <2>4 DEF n
<1>8. Fits(e) => Fits(Full(e))
  BY <1>1, <1>4, <1>5 DEF Fits, Id
<1> QED
  BY <1>4, <1>5, <1>6, <1>7, <1>8

LEMMA NormalisedHas ==
  ASSUME NEW r \in Registry
  PROVE  /\ Normalised(r) \in Registry
         /\ Normalised(r).depends_on = r.depends_on
         /\ Normalised(r).entries = {Full(e) : e \in r.entries}
         /\ Normalised(Normalised(r)) = Normalised(r)
         /\ r \in Sound => Normalised(r) \in Sound
<1> DEFINE E == {Full(e) : e \in r.entries}
<1>1. r.entries \in SUBSET Entry
  BY RegistryHas
<1>2. E \in SUBSET Entry
  BY <1>1, FullType
<1>3. Normalised(r) = [r EXCEPT !.entries = E]
  BY DEF Normalised, Full, Registry
<1> HIDE DEF E
<1> DEFINE n == Normalised(r)
<1>4. n \in Registry /\ n.depends_on = r.depends_on /\ n.entries = E
  BY <1>2, <1>3, WithEntries
<1> HIDE DEF n
<1>5. {Full(e) : e \in E} = E
  <2>1. \A e \in E : Full(e) = e
    BY <1>1, FullType DEF E
  <2> QED
    BY <2>1
<1>6. Normalised(n) = n
  <2>1. Normalised(n) = [n EXCEPT !.entries = {Full(e) : e \in n.entries}]
    BY <1>4 DEF Normalised, Full, Registry
  <2>2. Normalised(n) = [n EXCEPT !.entries = n.entries]
    BY <1>4, <1>5, <2>1
  <2> QED
    BY <1>4, <2>2, RegistryHas
<1>7. r \in Sound => n \in Sound
  BY <1>1, <1>4, FullType, OwnerIs DEF Sound, E, Modules
<1> QED
  BY <1>4, <1>6, <1>7 DEF n, E

-----------------------------------------------------------------------------
(* The first registries, and the deltas.                                   *)

\* An entry that is new has no id yet.
LEMMA NewEntryIs ==
  ASSUME NEW type \in RegistryType, NEW owner \in Owner, NEW name \in Symbol,
         NEW status \in RegistryStatus \cup {Null},
         NEW content \in Content \cup {Null}
  PROVE  /\ NewEntry(type, owner, name, status, content) \in Entry
         /\ NewEntry(type, owner, name, status, content).type = type
         /\ NewEntry(type, owner, name, status, content).owner = owner
         /\ NewEntry(type, owner, name, status, content).name = name
         /\ NewEntry(type, owner, name, status, content).status = status
         /\ Fits(NewEntry(type, owner, name, status, content))
BY DEF NewEntry, Entry, Fits

LEMMA PublicNamesAre ==
  ASSUME NEW text \in Text PROVE PublicNames(text) \subseteq Symbol
BY DEF PublicNames, Text

LEMMA FirstEntries ==
  ASSUME NEW D \in Depends, NEW E,
         \A e \in E : \E m \in DOMAIN D, s \in Symbol,
                         status \in {Null, "proposed"}, c \in Content :
           e = NewEntry("public_api", m, s, status, c)
  PROVE  [depends_on |-> D, entries |-> E] \in Sound
<1>1. \A e \in E : e \in Entry /\ Fits(e) /\ e.owner \in DOMAIN D
  <2> TAKE e \in E
  <2>1. PICK m \in DOMAIN D, s \in Symbol, status \in {Null, "proposed"},
             c \in Content : e = NewEntry("public_api", m, s, status, c)
    OBVIOUS
  <2>2. /\ "public_api" \in RegistryType /\ m \in Owner
        /\ status \in RegistryStatus \cup {Null}
    BY DependsHas DEF RegistryType, RegistryStatus, Owner
  <2> QED
    BY <2>1, <2>2, NewEntryIs
<1> QED
  BY <1>1, RegistryIs DEF Sound, Modules

LEMMA DraftsAreSound ==
  ASSUME NEW a \in Architectures
  PROVE  /\ MinimalContracts(a) \in Sound
         /\ DraftFromScan(a, a.sources) \in Sound
<1>1. a.depends_on \in Depends
  BY RegistryAssumption DEF Depends
<1>2. \A m \in DOMAIN a.depends_on : a.declared_exports[m] \subseteq Symbol
  BY RegistryAssumption
<1>3. MinimalContracts(a) \in Sound
  <2> DEFINE E == UNION
     {{NewEntry("public_api", m, s, "proposed", "declared")
         : s \in a.declared_exports[m] \ Private}
        : m \in DOMAIN a.depends_on}
  <2>1. \A e \in E : \E m \in DOMAIN a.depends_on, s \in Symbol,
                        status \in {Null, "proposed"}, c \in Content :
          e = NewEntry("public_api", m, s, status, c)
    <3> TAKE e \in E
    <3>1. PICK m \in DOMAIN a.depends_on :
            \E s \in a.declared_exports[m] :
              e = NewEntry("public_api", m, s, "proposed", "declared")
      OBVIOUS
    <3> PICK s \in a.declared_exports[m] :
          e = NewEntry("public_api", m, s, "proposed", "declared")
      BY <3>1
    <3>2. s \in Symbol /\ "declared" \in Content
      BY <1>2, ContractsAssumption
    <3> QED
      BY <3>1, <3>2
  <2> HIDE DEF E
  <2>2. [depends_on |-> a.depends_on, entries |-> E] \in Sound
    BY <1>1, <2>1, FirstEntries
  <2> QED
    BY <2>2 DEF MinimalContracts, E
<1>4. DraftFromScan(a, a.sources) \in Sound
  <2> DEFINE F == {x \in Scan(a.sources) : Home[x] \in DOMAIN a.depends_on}
             E == UNION
     {{NewEntry("public_api", Home[f], s, Null, f)
         : s \in ScanSymbols(a.sources[f])} : f \in F}
  <2>1. \A f \in F : /\ f \in File /\ Home[f] \in DOMAIN a.depends_on
                     /\ a.sources[f] \in Text
    BY RegistryAssumption DEF Scan
  <2>2. \A e \in E : \E m \in DOMAIN a.depends_on, s \in Symbol,
                        status \in {Null, "proposed"}, c \in Content :
          e = NewEntry("public_api", m, s, status, c)
    <3> TAKE e \in E
    <3>1. PICK f \in F : \E s \in ScanSymbols(a.sources[f]) :
            e = NewEntry("public_api", Home[f], s, Null, f)
      OBVIOUS
    <3> PICK s \in ScanSymbols(a.sources[f]) :
          e = NewEntry("public_api", Home[f], s, Null, f)
      BY <3>1
    <3>2. s \in Symbol /\ f \in Content
      BY <2>1, PublicNamesAre, ContractsAssumption DEF ScanSymbols
    <3> QED
      BY <2>1, <3>1, <3>2
  <2> HIDE DEF E, F
  <2>3. [depends_on |-> a.depends_on, entries |-> E] \in Sound
    BY <1>1, <2>2, FirstEntries
  <2> QED
    BY <2>3 DEF DraftFromScan, E, F
<1> QED
  BY <1>3, <1>4

LEMMA EnsureModuleHas ==
  ASSUME NEW r \in Sound, NEW owner
  PROVE  /\ EnsureModule(r, owner) \in Sound
         /\ EnsureModule(r, owner).entries = r.entries
         /\ owner \in Module => owner \in Modules(EnsureModule(r, owner))
         /\ Modules(r) \subseteq Modules(EnsureModule(r, owner))
         /\ \A m \in Modules(r) :
              EnsureModule(r, owner).depends_on[m] = r.depends_on[m]
<1> DEFINE S == Modules(r) \cup {owner}
           D == [m \in S |-> IF m = owner THEN {} ELSE r.depends_on[m]]
           x == [depends_on |-> D, entries |-> r.entries]
<1>1. r \in Registry
  BY DEF Sound
<1>2. CASE owner \in Module \ Modules(r)
  <2>1. S \in SUBSET Module /\ D \in [S -> SUBSET Module]
    BY <1>1, <1>2, RegistryHas, DependsHas DEF Modules
  <2>2. D \in Depends
    BY <2>1 DEF Depends
  <2>3. EnsureModule(r, owner) = x
    BY <1>1, <1>2 DEF EnsureModule, Registry
  <2>4. x \in Registry
    <3> HIDE DEF D
    <3> QED BY <1>1, <2>2, RegistryHas, RegistryIs
  <2>5. Modules(x) = S
    BY DEF Modules
  <2>6. \A m \in Modules(r) : x.depends_on[m] = r.depends_on[m]
    BY <1>2
  <2> HIDE DEF S, D
  <2>7. \A e \in r.entries :
          Fits(e) /\ (e.type = "public_api" => e.owner \in S)
    BY DEF Sound, S
  <2> QED
    BY <2>3, <2>4, <2>5, <2>6, <2>7 DEF Sound, S
<1>3. CASE owner \notin Module \ Modules(r)
  BY <1>3 DEF EnsureModule
<1> QED
  BY <1>2, <1>3

LEMMA EditedHas ==
  ASSUME NEW r \in Sound, NEW d \in Delta,
         d.type = "public_api" => d.owner \in Modules(r)
  PROVE  \A e \in Edited(r, d) :
           /\ e \in Entry /\ Fits(e)
           /\ e.type = "public_api" => e.owner \in Modules(r)
<1>1. r.entries \in SUBSET Entry
  BY RegistryHas DEF Sound
<1>2. \A e \in r.entries :
        Fits(e) /\ (e.type = "public_api" => e.owner \in Modules(r))
  BY DEF Sound
<1>3. ASSUME NEW e \in Existing(r, d)
      PROVE  LET m == Merged(e, d)
             IN  /\ m \in Entry /\ Fits(m)
                 /\ m.type = "public_api" => m.owner \in Modules(r)
  <2> DEFINE m == Merged(e, d)
  <2>1. /\ e \in Entry /\ e.type = d.type /\ Fits(e)
        /\ e.type = "public_api" => e.owner = d.owner
    BY <1>1, <1>2 DEF Existing, Of
  <2> DEFINE c == IF d.content = Null THEN e.content ELSE d.content
             s == IF d.status = Null THEN e.status ELSE d.status
             u == IF d.consumers = {} THEN e.consumers ELSE d.consumers
  <2>2. m = [e EXCEPT !.owner = d.owner, !.content = c, !.status = s,
                      !.consumers = u]
    BY <2>1 DEF Merged, Entry
  <2>3. /\ d.owner \in Owner /\ c \in Content \cup {Null}
        /\ s \in RegistryStatus \cup {Null} /\ u \in SUBSET Module
    BY <2>1 DEF Entry, Delta
  <2> HIDE DEF m, c, s, u
  <2>4. /\ m \in Entry /\ m.type = e.type /\ m.name = e.name /\ m.id = e.id
        /\ m.owner = d.owner
    BY <2>1, <2>2, <2>3 DEF Entry
  <2>5. Fits(m)
    BY <2>1, <2>4 DEF Fits, Id, OwnerOf
  <2> QED
    BY <2>1, <2>4, <2>5 DEF m
<1>4. Added(d) \in Entry /\ Fits(Added(d)) /\ Added(d).type = d.type
      /\ Added(d).owner = d.owner
  BY DEF Added, NewEntry, Entry, Delta, Fits
<1>5. \A e \in Edited(r, d) :
        \/ e \in r.entries \/ e = Added(d)
        \/ \E o \in Existing(r, d) : e = Merged(o, d)
  BY DEF Edited
<1> QED
  BY <1>1, <1>2, <1>3, <1>4, <1>5

LEMMA DeltaIsSound ==
  ASSUME NEW r \in Sound, NEW d \in Delta
  PROVE  ApplyContractDelta(r, d) \in Sound \cup {Null}
<1> DEFINE u == EnsureModule(r, d.owner)
           x == [u EXCEPT !.entries = Edited(u, d)]
<1>1. SUFFICES ASSUME d.type = "public_api" => d.owner \in Module
               PROVE  Normalised(x) \in Sound
  BY DEF ApplyContractDelta
<1>2. u \in Sound /\ (d.owner \in Module => d.owner \in Modules(u))
  BY EnsureModuleHas
<1>3. \A e \in Edited(u, d) :
        /\ e \in Entry /\ Fits(e)
        /\ e.type = "public_api" => e.owner \in Modules(u)
  BY <1>1, <1>2, EditedHas
<1> HIDE DEF u
<1>4. x \in Registry /\ x.entries = Edited(u, d) /\ x.depends_on = u.depends_on
  BY <1>2, <1>3, WithEntries DEF Sound
<1> HIDE DEF x
<1>5. x \in Sound
  BY <1>3, <1>4 DEF Sound, Modules
<1> QED
  BY <1>4, <1>5, NormalisedHas

-----------------------------------------------------------------------------
(* Induction over the numbers without an operator parameter: the set T     *)
(* takes the place of the predicate.                                       *)
LEMMA Least ==
  ASSUME NEW T \in SUBSET Nat, T # {}
  PROVE  \E m \in T : \A n \in T : m <= n
<1> DEFINE R == OpToRel(<, Nat)
<1>1. IsWellFoundedOn(R, Nat)
  BY NatLessThanWellFounded
<1>2. \A x, y \in Nat : x < y => <<x, y>> \in R
  BY DEF OpToRel
<1> HIDE DEF R
<1>3. PICK m \in T : \A n \in T : ~ (<<n, m>> \in R)
  BY <1>1, WFMin
<1>4. \A n \in T : ~ (n < m)
  BY <1>2, <1>3
<1> QED
  BY <1>4

LEMMA Induction ==
  ASSUME NEW T, 0 \in T, \A n \in Nat : n \in T => n + 1 \in T
  PROVE  Nat \subseteq T
<1> DEFINE Out == Nat \ T
<1>1. SUFFICES ASSUME Out # {} PROVE FALSE
  OBVIOUS
<1>2. PICK m \in Out : \A n \in Out : m <= n
  BY <1>1, Least
<1>3. m # 0 /\ m - 1 \in Nat /\ m - 1 \notin Out
  BY <1>2
<1> QED
  BY <1>2, <1>3

(* A function that goes on from x step by step, as g says.                 *)
Steps(f, N, x, g) ==
  f = [n \in 0..N |-> IF n = 0 THEN x ELSE g[<<f[n - 1], n>>]]

LEMMA StepsExist ==
  ASSUME NEW D, NEW x \in D, NEW N \in Nat, NEW g \in [D \X (1..N) -> D]
  PROVE  \E f \in [0..N -> D] : Steps(f, N, x, g)
<1> DEFINE T == { k \in Nat : k <= N => \E f \in [0..k -> D] : Steps(f, k, x, g) }
<1>1. 0 \in T
  <2> DEFINE f == [n \in 0..0 |-> x]
  <2>1. f \in [0..0 -> D] /\ Steps(f, 0, x, g)
    BY DEF Steps
  <2> QED
    BY <2>1
<1>2. ASSUME NEW k \in Nat, k \in T PROVE k + 1 \in T
  <2> SUFFICES ASSUME k + 1 <= N
               PROVE  \E h \in [0..(k + 1) -> D] : Steps(h, k + 1, x, g)
    OBVIOUS
  <2>1. PICK f \in [0..k -> D] : Steps(f, k, x, g)
    BY <1>2
  <2> DEFINE y == g[<<f[k], k + 1>>]
             h == [n \in 0..(k + 1) |-> IF n <= k THEN f[n] ELSE y]
  <2>2. f[k] \in D /\ k + 1 \in 1..N
    BY <2>1
  <2>3. y \in D
    BY <2>2
  <2>4. h \in [0..(k + 1) -> D]
    <3> HIDE DEF y
    <3> QED BY <2>1, <2>3
  <2>5. h[k + 1] = g[<<h[k], k + 1>>]
    OBVIOUS
  <2>6. \A n \in 0..k : h[n] = f[n]
    OBVIOUS
  <2>7. \A n \in 0..k : f[n] = IF n = 0 THEN x ELSE g[<<f[n - 1], n>>]
    BY <2>1 DEF Steps
  <2> HIDE DEF h, y
  <2>8. \A n \in 0..(k + 1) : h[n] = IF n = 0 THEN x ELSE g[<<h[n - 1], n>>]
    <3> TAKE n \in 0..(k + 1)
    <3>1. CASE n \in 0..k
      <4>1. n # 0 => n - 1 \in 0..k
        BY <3>1
      <4> QED
        BY <2>6, <2>7, <3>1, <4>1
    <3>2. CASE n = k + 1
      BY <2>5, <3>2
    <3> QED
      BY <3>1, <3>2
  <2> DEFINE w == [n \in 0..(k + 1) |-> IF n = 0 THEN x ELSE g[<<h[n - 1], n>>]]
  <2>9. h = w
    <3>1. w \in [0..(k + 1) -> D]
      BY <2>4, <2>8
    <3>2. \A n \in 0..(k + 1) : h[n] = w[n]
      BY <2>8
    <3> HIDE DEF w
    <3> QED
      BY <2>4, <3>1, <3>2
  <2> QED
    BY <2>4, <2>9 DEF Steps
<1>3. Nat \subseteq T
  BY <1>1, <1>2, Induction
<1> QED
  BY <1>3


\* What every step keeps in D is in D at the end.
LEMMA StaysIn ==
  ASSUME NEW D, NEW N \in Nat, NEW u, u[0] \in D,
         \A n \in 1..N : u[n - 1] \in D => u[n] \in D
  PROVE  \A n \in 0..N : u[n] \in D
<1> DEFINE T == { k \in Nat : k <= N => u[k] \in D }
<1>1. 0 \in T
  OBVIOUS
<1>2. ASSUME NEW k \in Nat, k \in T PROVE k + 1 \in T
  <2>1. SUFFICES ASSUME k + 1 <= N PROVE u[k + 1] \in D
    OBVIOUS
  <2>2. u[k] \in D /\ k + 1 \in 1..N /\ (k + 1) - 1 = k
    BY <1>2, <2>1
  <2> QED
    BY <2>2
<1>3. Nat \subseteq T
  BY <1>1, <1>2, Induction
<1> QED
  BY <1>3

LEMMA BatchIsSound ==
  ASSUME NEW r \in Sound, NEW batch \in Seq(Delta)
  PROVE  ApplyBatch(r, batch) \in Sound \cup {Null}
<1> DEFINE D == Sound \cup {Null}
           N == Len(batch)
           upto[n \in 0 .. N] ==
             IF n = 0 THEN r
             ELSE IF upto[n - 1] = Null THEN Null
             ELSE ApplyContractDelta(upto[n - 1], batch[n])
           Go(a, n) ==
             IF a = Null THEN Null ELSE ApplyContractDelta(a, batch[n])
           g == [q \in D \X (1..N) |-> Go(q[1], q[2])]
<1>1. N \in Nat /\ \A n \in 1..N : batch[n] \in Delta
  OBVIOUS
<1>2. \A a \in D, n \in 1..N : Go(a, n) \in D
  BY <1>1, DeltaIsSound
<1>3. g \in [D \X (1..N) -> D]
  <2> HIDE DEF D, Go, N
  <2> QED
    BY <1>2
<1>4. PICK f \in [0..N -> D] : Steps(f, N, r, g)
  <2>1. r \in D
    OBVIOUS
  <2> HIDE DEF D, N, g
  <2> QED
    BY <1>1, <1>3, <2>1, StepsExist
<1>5. f = [n \in 0..N |-> IF n = 0 THEN r ELSE Go(f[n - 1], n)]
  <2>1. \A n \in 0..N : f[n] = IF n = 0 THEN r ELSE g[<<f[n - 1], n>>]
    <3> HIDE DEF g, N, D
    <3> QED BY <1>4 DEF Steps
  <2>2. \A n \in 1..N : f[n - 1] \in D
    <3> HIDE DEF D, N
    <3> QED BY <1>1
  <2> HIDE DEF D, Go, N
  <2>3. \A n \in 1..N : g[<<f[n - 1], n>>] = Go(f[n - 1], n)
    BY <2>2
  <2> HIDE DEF g
  <2> QED
    BY <1>1, <2>1, <2>3
<1>6. upto = [n \in 0..N |-> IF n = 0 THEN r ELSE Go(upto[n - 1], n)]
  <2> HIDE DEF D, g, N
  <2> QED
    BY <1>5
<1> HIDE DEF upto
<1>7. upto[0] = r /\ \A n \in 1..N : upto[n] = Go(upto[n - 1], n)
  <2> HIDE DEF Go, N
  <2> QED
    BY <1>1, <1>6
<1>8. \A n \in 0..N : upto[n] \in D
  <2> HIDE DEF Go, N
  <2>1. \A n \in 1..N : upto[n - 1] \in D => upto[n] \in D
    BY <1>2, <1>7
  <2>2. upto[0] \in D
    BY <1>7
  <2> HIDE DEF D
  <2> QED
    BY <1>1, <2>1, <2>2, StaysIn
<1>9. ApplyBatch(r, batch) = upto[N]
  BY DEF ApplyBatch, upto
<1> QED
  BY <1>1, <1>8, <1>9

-----------------------------------------------------------------------------
(* What a landing and a reconciliation make of a registry.                 *)

LEMMA ModuleOfFile ==
  ASSUME NEW r \in Registry, NEW f \in File, ModuleForFile(r, f) # Null
  PROVE  ModuleForFile(r, f) = Home[f] /\ Home[f] \in Modules(r)
         /\ Home[f] \in Module
BY RegistryHas, DependsHas DEF ModuleForFile, Modules

LEMMA ContractDeltaHas ==
  ASSUME NEW r \in Registry, NEW f \in File, NEW text \in Text
  PROVE  /\ ContractDelta(r, f, text) \in SUBSET Symbol
         /\ ContractDelta(r, f, text) # {} => Home[f] \in Module
BY ModuleOfFile, PublicNamesAre DEF ContractDelta

\* The entries a landing adds, and the module it may add them to.
LEMMA WithDeltaHas ==
  ASSUME NEW r \in Sound, NEW m, NEW names \in SUBSET Symbol,
         names # {} => m \in Module
  PROVE  /\ WithDelta(r, m, names) \in Sound
         /\ Modules(r) \subseteq Modules(WithDelta(r, m, names))
         /\ \A x \in Modules(r) :
              WithDelta(r, m, names).depends_on[x] = r.depends_on[x]
         /\ r.entries \subseteq WithDelta(r, m, names).entries
         /\ \A e \in WithDelta(r, m, names).entries \ r.entries :
              /\ e.type = "public_api" /\ e.id = Null /\ e.status = Null
              /\ e.name \notin Exports(r, e.owner)
<1>1. CASE names = {}
  BY <1>1 DEF WithDelta
<1>2. CASE names # {}
  <2> DEFINE u == EnsureModule(r, m)
             S == names \ Exports(r, m)
             N == {NewEntry("public_api", m, s, Null, "code") : s \in S}
             E == r.entries \cup N
             x == WithDelta(r, m, names)
  <2>1. /\ u \in Sound /\ u.entries = r.entries /\ m \in Modules(u)
        /\ Modules(r) \subseteq Modules(u)
        /\ \A k \in Modules(r) : u.depends_on[k] = r.depends_on[k]
    BY <1>2, EnsureModuleHas
  <2>2. x = [u EXCEPT !.entries = @ \cup N]
    BY <1>2 DEF WithDelta
  <2> HIDE DEF u, x
  <2>3. m \in Module /\ \A s \in S : s \in Symbol /\ s \notin Exports(r, m)
    BY <1>2
  <2> HIDE DEF S
  <2>4. \A e \in N : /\ e \in Entry /\ Fits(e) /\ e.type = "public_api"
                     /\ e.owner \in Modules(u) /\ e.id = Null
                     /\ e.status = Null
                     /\ e.name \notin Exports(r, e.owner)
    <3> TAKE e \in N
    <3>1. PICK s \in S : e = NewEntry("public_api", m, s, Null, "code")
      OBVIOUS
    <3>2. /\ "public_api" \in RegistryType /\ m \in Owner
          /\ "code" \in Content
      BY <2>3, ContractsAssumption DEF RegistryType, Owner
    <3>3. e.id = Null
      BY <3>1 DEF NewEntry
    <3> QED
      BY <2>1, <2>3, <3>1, <3>2, <3>3, NewEntryIs
  <2> HIDE DEF N
  <2>5. E \in SUBSET Entry
    BY <2>4, RegistryHas DEF Sound
  <2>6. u \in Registry
    BY <2>1 DEF Sound
  <2>7. x = [u EXCEPT !.entries = E]
    BY <2>1, <2>2, <2>6 DEF Registry
  <2>8. x \in Registry /\ x.entries = E /\ x.depends_on = u.depends_on
    BY <2>5, <2>6, <2>7, WithEntries
  <2>9. Modules(x) = Modules(u)
    BY <2>8 DEF Modules
  <2>10. x \in Sound
    BY <2>1, <2>4, <2>8, <2>9 DEF Sound
  <2> QED
    BY <2>1, <2>4, <2>8, <2>9, <2>10 DEF x
<1> QED
  BY <1>1, <1>2

\* n is e, and what was promised is kept.
Promise(e, n) ==
  /\ n.type = e.type /\ n.owner = e.owner /\ n.name = e.name /\ n.id = e.id
  /\ n.content = e.content /\ n.consumers = e.consumers
  /\ n.ref = e.ref /\ n.seen = e.seen
  /\ n.status = e.status \/ (e.status = "proposed" /\ n.status = "active")

LEMMA PromotedHas ==
  ASSUME NEW r \in Sound, NEW d, NEW candidates
  PROVE  /\ Promoted(r, d, candidates) \in Sound
         /\ Promoted(r, d, candidates).depends_on = r.depends_on
         /\ \A e \in r.entries :
              \E n \in Promoted(r, d, candidates).entries : Promise(e, n)
         /\ \A n \in Promoted(r, d, candidates).entries :
              \E e \in r.entries : Promise(e, n)
<1> DEFINE Kept(e) == e.type = "public_api" /\ e.status = "proposed"
                        /\ Referenced(r, e, d, candidates)
           To(e) == [e EXCEPT !.status = IF Kept(e) THEN "active" ELSE e.status]
           E == {To(e) : e \in r.entries}
           x == Promoted(r, d, candidates)
<1>1. r \in Registry /\ r.entries \in SUBSET Entry
  BY RegistryHas DEF Sound
<1>2. \A e \in r.entries : To(e) \in Entry /\ Promise(e, To(e))
  <2> TAKE e \in r.entries
  <2> DEFINE s == IF Kept(e) THEN "active" ELSE e.status
  <2>1. /\ s \in RegistryStatus \cup {Null}
        /\ s = e.status \/ (e.status = "proposed" /\ s = "active")
    BY <1>1 DEF RegistryStatus, Entry
  <2>2. To(e) = [e EXCEPT !.status = s]
    OBVIOUS
  <2> HIDE DEF s, To
  <2> QED
    BY <1>1, <2>1, <2>2 DEF Entry, Promise
<1>3. x = [r EXCEPT !.entries = E]
  <2>1. \A e \in r.entries :
          To(e) = [e EXCEPT !.status =
             IF /\ e.type = "public_api" /\ @ = "proposed"
                /\ Referenced(r, e, d, candidates)
             THEN "active" ELSE @]
    BY <1>1 DEF Entry
  <2>2. E = {[e EXCEPT !.status =
             IF /\ e.type = "public_api" /\ @ = "proposed"
                /\ Referenced(r, e, d, candidates)
             THEN "active" ELSE @] : e \in r.entries}
    BY <2>1
  <2> HIDE DEF E
  <2> QED
    BY <1>1, <2>2 DEF Promoted, Registry
<1> HIDE DEF To
<1>4. E \in SUBSET Entry
  BY <1>2
<1>5. x \in Registry /\ x.entries = E /\ x.depends_on = r.depends_on
  <2> HIDE DEF E, x
  <2> QED
    BY <1>1, <1>3, <1>4, WithEntries
<1> HIDE DEF x
<1>6. x \in Sound
  <2>1. \A e \in r.entries :
          Fits(e) /\ (e.type = "public_api" => e.owner \in Modules(r))
    BY DEF Sound
  <2>2. \A n \in E : Fits(n) /\ (n.type = "public_api" => n.owner \in Modules(r))
    BY <1>2, <2>1 DEF Fits, Id, OwnerOf, Promise
  <2> QED
    BY <1>5, <2>2 DEF Sound, Modules
<1> QED
  BY <1>2, <1>5, <1>6 DEF x

\* n is e, found somewhere else.
Stamp(e, n) ==
  /\ n.type = e.type /\ n.owner = e.owner /\ n.name = e.name /\ n.id = e.id
  /\ n.content = e.content /\ n.consumers = e.consumers
  /\ n.status = e.status

DistinctIds(r) == \A d, e \in r.entries : d.id = e.id => d = e

\* Stamps are brought back by id, and an id is one entry.
LEMMA ReconciledHas ==
  ASSUME NEW r \in Sound, NEW d, Normalised(r) = r, DistinctIds(r)
  PROVE  LET x == ApplyReconcile(r, ReconcileRegistry(r, d))
         IN  /\ x \in Sound /\ x.depends_on = r.depends_on
             /\ \A e \in r.entries : \E n \in x.entries : Stamp(e, n)
             /\ \A n \in x.entries : \E e \in r.entries : Stamp(e, n)
<1> DEFINE There(e) == Holding(d, e.name)
           To(e) == IF HasName(e) /\ There(e) # {}
                    THEN [e EXCEPT !.seen = CHOOSE f \in There(e) : TRUE]
                    ELSE e
           R == ReconcileRegistry(r, d)
           same(e) == {n \in R : n.id = e.id}
           Of1(e) == CHOOSE n \in same(e) : TRUE
           Back(e) == IF same(e) = {} THEN e
                      ELSE [e EXCEPT !.seen = Of1(e).seen,
                                     !.status = Of1(e).status]
           E == {Back(e) : e \in r.entries}
           x == ApplyReconcile(r, R)
<1>1. r \in Registry /\ r.entries \in SUBSET Entry
  BY RegistryHas DEF Sound
<1>2. R = {To(e) : e \in r.entries}
  BY DEF ReconcileRegistry
<1>3. \A e \in r.entries :
        To(e) \in Entry /\ To(e).id = e.id /\ To(e).status = e.status
  <2> TAKE e \in r.entries
  <2>1. CASE HasName(e) /\ There(e) # {}
    <3> DEFINE f == CHOOSE f \in There(e) : TRUE
    <3>1. f \in File
      BY <2>1 DEF Holding
    <3>2. To(e) = [e EXCEPT !.seen = f]
      BY <2>1
    <3> HIDE DEF f, To
    <3> QED
      BY <1>1, <3>1, <3>2 DEF Entry
  <2>2. CASE ~ (HasName(e) /\ There(e) # {})
    BY <1>1, <2>2
  <2> QED
    BY <2>1, <2>2
<1> HIDE DEF To, R
<1>4. \A e \in r.entries : Of1(e) = To(e) /\ same(e) # {}
  <2> TAKE e \in r.entries
  <2>1. To(e) \in same(e)
    BY <1>2, <1>3
  <2>2. \A n \in same(e) : n = To(e)
    BY <1>2, <1>3 DEF DistinctIds
  <2> HIDE DEF same
  <2> QED
    BY <2>1, <2>2
<1> HIDE DEF Of1
<1>5. \A e \in r.entries : Back(e) \in Entry /\ Stamp(e, Back(e))
  <2> TAKE e \in r.entries
  <2> DEFINE f == Of1(e).seen
             s == Of1(e).status
  <2>1. f \in File \cup {Null} /\ s = e.status
    BY <1>3, <1>4 DEF Entry
  <2>2. Back(e) = [e EXCEPT !.seen = f, !.status = s]
    BY <1>4
  <2> HIDE DEF f, s, Back
  <2> QED
    BY <1>1, <2>1, <2>2 DEF Entry, Stamp
<1>6. x = [r EXCEPT !.entries = E]
  <2>1. E = {LET match == {n \in R : n.id = e.id}
             IN  IF match = {} THEN e
                 ELSE LET new == CHOOSE n \in match : TRUE
                      IN  [e EXCEPT !.seen = new.seen, !.status = new.status]
               : e \in r.entries}
    BY DEF Of1
  <2> HIDE DEF E
  <2> QED
    BY <1>1, <2>1 DEF ApplyReconcile, Registry
<1> HIDE DEF Back
<1>7. E \in SUBSET Entry
  BY <1>5
<1>8. x \in Registry /\ x.entries = E /\ x.depends_on = r.depends_on
  <2> HIDE DEF E, x
  <2> QED
    BY <1>1, <1>6, <1>7, WithEntries
<1> HIDE DEF x
<1>9. x \in Sound
  <2>1. \A e \in r.entries :
          Fits(e) /\ (e.type = "public_api" => e.owner \in Modules(r))
    BY DEF Sound
  <2>2. \A n \in E : Fits(n) /\ (n.type = "public_api" => n.owner \in Modules(r))
    BY <1>5, <2>1 DEF Fits, Id, OwnerOf, Stamp
  <2> QED
    BY <1>8, <2>2 DEF Sound, Modules
<1> QED
  BY <1>5, <1>8, <1>9 DEF x, R

\* The entries that contracts_delta compares: known by the same id, and the
\* id of no more than one entry before.
LEMMA Compared ==
  ASSUME NEW b, NEW a, DistinctIds(b), NEW K,
         \A p \in K : p[1].id = p[2].id,
         \A n \in a.entries :
           \/ \E e \in b.entries : <<e, n>> \in K
           \/ \A e \in b.entries : e.id # n.id
  PROVE  \A i \in DOMAIN ById(b) \cap DOMAIN ById(a) :
           <<ById(b)[i], ById(a)[i]>> \in K
<1> TAKE i \in DOMAIN ById(b) \cap DOMAIN ById(a)
<1> DEFINE e == CHOOSE e \in b.entries : e.id = i
           n == CHOOSE n \in a.entries : n.id = i
<1>1. ById(b)[i] = e /\ ById(a)[i] = n
  BY DEF ById
<1>2. (\E x \in b.entries : x.id = i) /\ (\E x \in a.entries : x.id = i)
  BY DEF ById
<1>3. e \in b.entries /\ e.id = i /\ n \in a.entries /\ n.id = i
  BY <1>2
<1> HIDE DEF e, n
<1>4. PICK o \in b.entries : <<o, n>> \in K
  BY <1>3
<1>5. o.id = n.id
  <2>1. <<o, n>>[1].id = <<o, n>>[2].id
    BY <1>4
  <2> QED
    BY <2>1
<1>6. o = e
  BY <1>3, <1>5 DEF DistinctIds
<1> QED
  BY <1>1, <1>4, <1>6

LEMMA ReadableIds ==
  ASSUME NEW r \in Registry, Readable(r)
  PROVE  DistinctIds(Normalised(r))
BY DEF Readable, NamesAreUnique, IsInjective, Ids, DistinctIds

\* The registry a landing finds, and the one it leaves.
LEMMA Landed ==
  ASSUME NEW r \in Sound, NEW m, NEW names \in SUBSET Symbol,
         names # {} => m \in Module, NEW d, NEW c,
         Normalised(r) = r, DistinctIds(r)
  PROVE  LET w == Promoted(WithDelta(r, m, names), d, c)
             delta == ContractsDelta(r, Normalised(w))
         IN  /\ w \in Sound
             /\ delta.removed = {} /\ delta.moved = {}
             /\ \A i \in delta.changed :
                  /\ i \in DOMAIN ById(r)
                  /\ ById(r)[i].status = "proposed"
                  /\ ById(Normalised(w))[i].status = "active"
<1> DEFINE v == WithDelta(r, m, names)
           w == Promoted(v, d, c)
           n == Normalised(w)
           K == {p \in Entry \X Entry :
                   /\ p[1].id = p[2].id
                   /\ p[2].content = p[1].content
                   /\ p[2].consumers = p[1].consumers
                   /\ p[2].ref = p[1].ref /\ p[2].seen = p[1].seen
                   /\ \/ p[2].status = p[1].status
                      \/ p[1].status = "proposed" /\ p[2].status = "active"}
<1>1. /\ v \in Sound /\ Modules(r) \subseteq Modules(v)
      /\ \A k \in Modules(r) : v.depends_on[k] = r.depends_on[k]
      /\ r.entries \subseteq v.entries
      /\ \A e \in v.entries \ r.entries :
           /\ e.type = "public_api" /\ e.id = Null
           /\ e.name \notin Exports(r, e.owner)
  BY WithDeltaHas
<1> HIDE DEF v
<1>2. /\ w \in Sound /\ w.depends_on = v.depends_on
      /\ \A e \in v.entries : \E x \in w.entries : Promise(e, x)
      /\ \A x \in w.entries : \E e \in v.entries : Promise(e, x)
  BY <1>1, PromotedHas
<1> HIDE DEF w
<1>3. /\ n \in Sound /\ n.depends_on = v.depends_on
      /\ n.entries = {Full(e) : e \in w.entries}
  BY <1>1, <1>2, NormalisedHas DEF Sound
<1> HIDE DEF n
<1>4. r.entries \in SUBSET Entry /\ v.entries \in SUBSET Entry
      /\ w.entries \in SUBSET Entry /\ n.entries \in SUBSET Entry
  BY <1>1, <1>2, <1>3, RegistryHas DEF Sound
<1>5. \A e \in r.entries : Full(e) = e /\ e.id # Null
  <2>1. r.entries = {Full(e) : e \in r.entries}
    BY NormalisedHas DEF Sound
  <2> QED
    BY <1>4, <2>1, FullType
\* An entry that was there, and what it has become.
<1>6. ASSUME NEW e \in r.entries, NEW x \in w.entries, Promise(e, x)
      PROVE  <<e, Full(x)>> \in K
  <2>1. e \in Entry /\ x \in Entry /\ Full(x) \in Entry
    BY <1>4, FullType
  <2>2. e.id # Null /\ e.status = IF e.status = Null THEN "active" ELSE e.status
    BY <1>5, <2>1, FullType
  <2>3. Full(x).id = e.id /\ Full(x).content = e.content
        /\ Full(x).consumers = e.consumers
        /\ Full(x).ref = e.ref /\ Full(x).seen = e.seen
    BY <1>6, <2>1, <2>2, FullType DEF Promise
  <2>4. \/ Full(x).status = e.status
        \/ e.status = "proposed" /\ Full(x).status = "active"
    BY <1>6, <2>1, <2>2, FullType DEF Promise
  <2> QED
    BY <2>1, <2>3, <2>4
\* An entry that is new, and its id.
<1>7. ASSUME NEW e \in v.entries \ r.entries, NEW x \in w.entries, Promise(e, x)
      PROVE  \A o \in r.entries : o.id # Full(x).id
  <2>1. e \in Entry /\ x \in Entry
    BY <1>4
  <2>2. x.id = Null /\ x.type = "public_api" /\ Id(x) = Id(e) /\ Id(x)[1] = x.type
    BY <1>1, <1>7 DEF Promise, Id, OwnerOf
  <2>3. Full(x).id = Id(e)
    BY <2>1, <2>2, FullType
  <2>4. SUFFICES ASSUME NEW o \in r.entries, o.id = Id(e) PROVE FALSE
    BY <2>3
  <2>5. o.id # Null /\ Fits(o)
    BY <1>5 DEF Sound
  <2>6. o.type = "public_api" /\ Id(o) = Id(e)
    BY <1>1, <2>4, <2>5 DEF Fits, Id
  <2>7. o.owner = e.owner /\ o.name = e.name
    BY <1>1, <2>6 DEF Id, OwnerOf
  <2>8. o.name \in Exports(r, e.owner)
    BY <2>6, <2>7 DEF Exports, Of
  <2> QED
    BY <1>1, <2>7, <2>8
<1>8. \A y \in n.entries : \/ \E e \in r.entries : <<e, y>> \in K
                           \/ \A e \in r.entries : e.id # y.id
  <2> TAKE y \in n.entries
  <2>1. PICK x \in w.entries : y = Full(x)
    BY <1>3
  <2>2. PICK e \in v.entries : Promise(e, x)
    BY <1>2
  <2> HIDE DEF K
  <2> QED
    BY <1>6, <1>7, <2>1, <2>2
<1>9. \A e \in r.entries : \E y \in n.entries : y.id = e.id
  <2> TAKE e \in r.entries
  <2>1. PICK x \in w.entries : Promise(e, x)
    BY <1>1, <1>2
  <2>2. <<e, Full(x)>> \in K /\ Full(x) \in n.entries
    BY <1>3, <1>6, <2>1
  <2> QED
    BY <2>2
<1>10. \A i \in DOMAIN ById(r) \cap DOMAIN ById(n) :
         <<ById(r)[i], ById(n)[i]>> \in K
  <2>1. \A p \in K : p[1].id = p[2].id
    OBVIOUS
  <2> HIDE DEF K
  <2> QED
    BY <1>8, <2>1, Compared
<1> DEFINE delta == ContractsDelta(r, n)
<1>11. /\ DOMAIN ById(r) \subseteq DOMAIN ById(n)
       /\ Modules(r) \subseteq Modules(n)
       /\ \A k \in Modules(r) : n.depends_on[k] = r.depends_on[k]
  BY <1>1, <1>3, <1>9 DEF ById, Modules
<1>12. delta.removed = {}
  BY <1>11 DEF ContractsDelta
<1>13. delta.moved = {}
  <2>1. \A i \in DOMAIN ById(r) \cap DOMAIN ById(n) :
          Presentation(ById(n)[i]) = Presentation(ById(r)[i])
    BY <1>10 DEF Presentation
  <2> QED
    BY <2>1 DEF ContractsDelta
<1>14. \A i \in delta.changed :
         /\ i \in DOMAIN ById(r)
         /\ ById(r)[i].status = "proposed" /\ ById(n)[i].status = "active"
  <2> TAKE i \in delta.changed
  <2>1. i \in DOMAIN ById(r) \cap DOMAIN ById(n)
        /\ Semantic(ById(r)[i]) # Semantic(ById(n)[i])
    BY <1>11 DEF ContractsDelta
  <2> QED
    BY <1>10, <2>1 DEF Semantic
<1> QED
  BY <1>2, <1>12, <1>13, <1>14 DEF w, n, v

LEMMA Reconciled ==
  ASSUME NEW r \in Sound, NEW d, Normalised(r) = r, DistinctIds(r)
  PROVE  LET x == ApplyReconcile(r, ReconcileRegistry(r, d))
             delta == ContractsDelta(r, Normalised(x))
         IN  /\ x \in Sound
             /\ delta.added \cup delta.removed \cup delta.changed = {}
<1> DEFINE x == ApplyReconcile(r, ReconcileRegistry(r, d))
           n == Normalised(x)
           K == {p \in Entry \X Entry :
                   /\ p[1].id = p[2].id /\ p[2].content = p[1].content
                   /\ p[2].consumers = p[1].consumers
                   /\ p[2].status = p[1].status}
<1>1. /\ x \in Sound /\ x.depends_on = r.depends_on
      /\ \A e \in r.entries : \E y \in x.entries : Stamp(e, y)
      /\ \A y \in x.entries : \E e \in r.entries : Stamp(e, y)
  BY ReconciledHas
<1> HIDE DEF x
<1>2. /\ n \in Sound /\ n.depends_on = r.depends_on
      /\ n.entries = {Full(e) : e \in x.entries}
  BY <1>1, NormalisedHas DEF Sound
<1> HIDE DEF n
<1>3. /\ r.entries \in SUBSET Entry /\ x.entries \in SUBSET Entry
      /\ n.entries \in SUBSET Entry
  BY <1>1, <1>2, RegistryHas DEF Sound
<1>4. \A e \in r.entries : Full(e) = e /\ e.id # Null
  <2>1. r.entries = {Full(e) : e \in r.entries}
    BY NormalisedHas DEF Sound
  <2> QED
    BY <1>3, <2>1, FullType
<1>5. ASSUME NEW e \in r.entries, NEW y \in x.entries, Stamp(e, y)
      PROVE  <<e, Full(y)>> \in K
  <2>1. e \in Entry /\ y \in Entry /\ Full(y) \in Entry
    BY <1>3, FullType
  <2>2. e.id # Null /\ e.status = IF e.status = Null THEN "active" ELSE e.status
    BY <1>4, <2>1, FullType
  <2>3. Full(y).id = e.id /\ Full(y).content = e.content
        /\ Full(y).consumers = e.consumers /\ Full(y).status = e.status
    BY <1>5, <2>1, <2>2, FullType DEF Stamp
  <2> QED
    BY <2>1, <2>3
<1>6. \A y \in n.entries : \E e \in r.entries : <<e, y>> \in K
  <2> HIDE DEF K
  <2> QED
    BY <1>1, <1>2, <1>5
<1>7. \A e \in r.entries : \E y \in n.entries : y.id = e.id
  <2> TAKE e \in r.entries
  <2>1. PICK y \in x.entries : Stamp(e, y)
    BY <1>1
  <2>2. <<e, Full(y)>> \in K /\ Full(y) \in n.entries
    BY <1>2, <1>5, <2>1
  <2> QED
    BY <2>2
<1>8. \A i \in DOMAIN ById(r) \cap DOMAIN ById(n) :
        <<ById(r)[i], ById(n)[i]>> \in K
  <2>1. \A p \in K : p[1].id = p[2].id
    OBVIOUS
  <2> HIDE DEF K
  <2> QED
    BY <1>6, <2>1, Compared
<1>9. DOMAIN ById(r) = DOMAIN ById(n) /\ Modules(r) = Modules(n)
  <2>1. \A y \in n.entries : \E e \in r.entries : e.id = y.id
    BY <1>6
  <2> QED
    BY <1>2, <1>7, <2>1 DEF ById, Modules
<1> DEFINE delta == ContractsDelta(r, n)
<1>10. delta.added = {} /\ delta.removed = {}
  BY <1>9 DEF ContractsDelta
<1>11. delta.changed = {}
  BY <1>2, <1>8 DEF ContractsDelta, Semantic
<1> QED
  BY <1>1, <1>10, <1>11 DEF n, x

-----------------------------------------------------------------------------
(* The types, with what they rest on: every registry there ever is, on     *)
(* disk, read, or about to be written, is sound.                           *)

CallTyped(c) ==
  /\ c.pc \in {"idle", "waiting", "reaping", "locked", "read", "leaving"}
  /\ c.batch \in Batches \cup {<<>>} /\ c.view \in Sound \cup {Null}
  /\ c.pc # "idle" => c.batch \in Batches
  /\ c.pc = "read" => c.view \in Sound

LandingTyped(g) ==
  /\ g.pc \in {"idle", "checked", "merged", "over"}
  /\ g.patch \in Patches \cup {Null} /\ g.names \in SUBSET Symbol
  /\ g.out \in Sound \cup {Null}
  /\ g.pc = "checked" =>
       /\ g.patch \in Patches
       /\ g.names # {} => Home[g.patch.file] \in Module

FilesTyped ==
  /\ disk \in [File -> Text \cup {Null}]
  /\ scanned = Null \/ scanned \in SUBSET File
  /\ \A n \in notes : n.to \in Module /\ n.names \subseteq Symbol

LandingsShaped == landing = [l \in Lander |-> landing[l]]

\* Who is misled is at work.
MisledWork == misled \subseteq Reading \cup Merging

DataInv ==
  /\ FilesTyped
  /\ file \in Sound \cup {Null}
  /\ scanned = Null => file = Null /\ \A l \in Lander : landing[l].pc = "idle"
  /\ \A w \in Writer : CallTyped(call[w])
  /\ \A l \in Lander : LandingTyped(landing[l])
  /\ LandingsShaped
  /\ MisledWork

LEMMA DataInit == Init => DataInv
<1> SUFFICES ASSUME Init PROVE DataInv
  OBVIOUS
<1>1. FilesTyped
  BY DEF Init, FilesTyped
<1>2. \A w \in Writer : CallTyped(call[w])
  BY DEF Init, CallTyped, NoCall
<1>3. \A l \in Lander : LandingTyped(landing[l]) /\ landing[l].pc = "idle"
  BY DEF Init, LandingTyped, NoLanding
<1>4. LandingsShaped /\ MisledWork
  BY DEF Init, LandingsShaped, MisledWork
<1> QED
  BY <1>1, <1>2, <1>3, <1>4 DEF Init, DataInv

LEMMA EmptyIsSound == EmptyRegistry \in Sound
<1> DEFINE D == [m \in {} |-> {}]
<1>1. D \in Depends
  <2>1. D \in [{} -> SUBSET Module] /\ {} \in SUBSET Module
    OBVIOUS
  <2> QED
    BY <2>1 DEF Depends
<1> HIDE DEF D
<1>2. [depends_on |-> D, entries |-> {}] \in Sound
  BY <1>1, RegistryIs DEF Sound
<1> QED
  BY <1>2 DEF EmptyRegistry, D

LEMMA OnDiskIsSound == ASSUME DataInv PROVE OnDisk \in Sound
BY EmptyIsSound DEF OnDisk, DataInv

\* What read_contracts returns.
LEMMA KnownHas ==
  ASSUME DataInv
  PROVE  /\ Known \in Sound /\ Known \in Registry /\ Normalised(Known) = Known
         /\ CanRead => DistinctIds(Known)
BY OnDiskIsSound, NormalisedHas, ReadableIds DEF Sound, Known, CanRead

-----------------------------------------------------------------------------
(* Steps of a landing.                                                     *)

LEMMA LandChanges ==
  ASSUME LandingsShaped, NEW l \in Lander,
         NEW pc, NEW p, NEW names, NEW out, Land(l, pc, p, names, out)
  PROVE  /\ LandingsShaped'
         /\ \A k \in Lander \ {l} : landing'[k] = landing[k]
         /\ landing'[l].pc = pc /\ landing'[l].patch = p
         /\ landing'[l].names = names /\ landing'[l].out = out
<1> DEFINE g == [pc |-> pc, patch |-> p, names |-> names, out |-> out]
<1>1. landing' = [landing EXCEPT ![l] = g]
  BY DEF Land
<1>2. g.pc = pc /\ g.patch = p /\ g.names = names /\ g.out = out
  OBVIOUS
<1> HIDE DEF g
<1> QED
  BY <1>1, <1>2 DEF LandingsShaped

LEMMA LanderMisled ==
  ASSUME MisledWork, call' = call, NEW l \in Lander,
         \A k \in Lander \ {l} : landing'[k] = landing[k],
         misled' \subseteq Reading \cup Merging,
         l \in misled' => landing'[l].pc = "merged"
  PROVE  MisledWork'
BY DEF MisledWork, Reading, Merging

\* A step of one landing.
LEMMA LanderStep ==
  ASSUME DataInv, NEW l \in Lander, UNCHANGED <<scanned, call>>,
         scanned # Null, file' \in Sound \cup {Null},
         disk' \in [File -> Text \cup {Null}],
         \A n \in notes' : n.to \in Module /\ n.names \subseteq Symbol,
         LandingsShaped', \A k \in Lander \ {l} : landing'[k] = landing[k],
         LandingTyped(landing'[l]),
         misled' \subseteq Reading \cup Merging,
         l \in misled' => landing'[l].pc = "merged"
  PROVE  DataInv'
<1>1. MisledWork'
  BY LanderMisled DEF DataInv
<1>2. FilesTyped'
  BY DEF DataInv, FilesTyped
<1>3. \A k \in Lander : LandingTyped(landing'[k])
  BY DEF DataInv
<1>4. \A w \in Writer : CallTyped(call'[w])
  BY DEF DataInv
<1> QED
  BY <1>1, <1>2, <1>3, <1>4 DEF DataInv

\* One that is misled, and does not read, merges.
LEMMA MisledLander ==
  ASSUME MisledWork, NEW l \in Lander, l \in misled
  PROVE  landing[l].pc = "merged"
BY RegistryAssumption DEF MisledWork, Reading, Merging

LEMMA CheckPatchTyped ==
  ASSUME DataInv, NEW l \in Lander, NEW p \in Patches, CheckPatch(l, p)
  PROVE  DataInv'
<1>1. p.file \in File /\ p.text \in Text
  BY RegistryAssumption
<1> DEFINE S == ContractDelta(Known, p.file, p.text)
<1>2. S \in SUBSET Symbol /\ (S # {} => Home[p.file] \in Module)
  BY <1>1, KnownHas, ContractDeltaHas
<1> HIDE DEF S
<1>3. Land(l, "checked", p, S, Null) \/ Land(l, "over", p, {}, Null)
  BY DEF CheckPatch, S
<1>4. /\ LandingsShaped' /\ \A k \in Lander \ {l} : landing'[k] = landing[k]
      /\ landing'[l].pc \in {"checked", "over"} /\ landing'[l].patch = p
      /\ landing'[l].names \in {S, {}} /\ landing'[l].out = Null
  BY <1>3, LandChanges DEF DataInv
<1>5. LandingTyped(landing'[l])
  BY <1>2, <1>4 DEF LandingTyped
<1>6. /\ UNCHANGED <<file, scanned, disk, notes, call, misled>>
      /\ scanned # Null /\ landing[l].pc = "idle"
  BY DEF CheckPatch, project
<1>7. l \notin misled' /\ misled' \subseteq Reading \cup Merging
  BY <1>6, MisledLander DEF DataInv, MisledWork
<1> QED
  BY <1>4, <1>5, <1>6, <1>7, LanderStep DEF DataInv, FilesTyped

\* A landing under way has a project.
LEMMA UnderWay ==
  ASSUME DataInv, NEW l \in Lander, landing[l].pc # "idle"
  PROVE  scanned # Null
BY DEF DataInv

LEMMA MergeDeltaTyped ==
  ASSUME DataInv, NEW l \in Lander, MergeDelta(l) PROVE DataInv'
<1> DEFINE p == landing[l].patch
           after == [disk EXCEPT ![p.file] = p.text]
           v == WithDelta(Known, Home[p.file], landing[l].names)
           out == IF file = Null THEN Null
                  ELSE Promoted(v, after, scanned \cup {p.file})
<1>1. /\ landing[l].pc = "checked" /\ Land(l, "merged", p, {}, out)
      /\ UNCHANGED <<file, scanned, disk, notes, call, misled>>
  BY DEF MergeDelta, project
<1>2. /\ p \in Patches /\ landing[l].names \in SUBSET Symbol
      /\ landing[l].names # {} => Home[p.file] \in Module
  BY <1>1 DEF DataInv, LandingTyped
<1>3. v \in Sound
  BY <1>2, KnownHas, WithDeltaHas
<1> HIDE DEF after, v
<1>4. out \in Sound \cup {Null}
  BY <1>3, PromotedHas
<1> HIDE DEF p, out
<1>5. /\ LandingsShaped' /\ \A k \in Lander \ {l} : landing'[k] = landing[k]
      /\ landing'[l].pc = "merged" /\ landing'[l].patch = p
      /\ landing'[l].names = {} /\ landing'[l].out = out
  BY <1>1, LandChanges DEF DataInv
<1>6. LandingTyped(landing'[l])
  BY <1>2, <1>4, <1>5 DEF LandingTyped
<1>7. misled' \subseteq Reading \cup Merging
  BY <1>1 DEF DataInv, MisledWork
<1> QED
  BY <1>1, <1>5, <1>6, <1>7, UnderWay, LanderStep DEF DataInv, FilesTyped

LEMMA ReadToReconcileTyped ==
  ASSUME DataInv, NEW l \in Lander, ReadToReconcile(l) PROVE DataInv'
<1> DEFINE x == ApplyReconcile(Known, ReconcileRegistry(Known, disk))
           out == Normalised(x)
<1>1. /\ landing[l].pc = "idle" /\ Land(l, "merged", Null, {}, out)
      /\ file # Null /\ CanRead
      /\ UNCHANGED <<file, scanned, disk, notes, call, misled>>
  BY DEF ReadToReconcile, project
<1>2. x \in Sound
  BY <1>1, KnownHas, ReconciledHas
<1> HIDE DEF x
<1>3. out \in Sound
  BY <1>2, NormalisedHas DEF Sound
<1> HIDE DEF out
<1>4. /\ LandingsShaped' /\ \A k \in Lander \ {l} : landing'[k] = landing[k]
      /\ landing'[l].pc = "merged" /\ landing'[l].patch = Null
      /\ landing'[l].names = {} /\ landing'[l].out = out
  BY <1>1, LandChanges DEF DataInv
<1>5. LandingTyped(landing'[l])
  BY <1>3, <1>4 DEF LandingTyped
<1>6. scanned # Null /\ misled' \subseteq Reading \cup Merging
  BY <1>1 DEF DataInv, MisledWork
<1> QED
  BY <1>1, <1>4, <1>5, <1>6, LanderStep DEF DataInv, FilesTyped

LEMMA WriteLandingTyped ==
  ASSUME DataInv, NEW l \in Lander, WriteLanding(l) PROVE DataInv'
<1> DEFINE p == landing[l].patch
<1>1. /\ landing[l].pc = "merged" /\ Land(l, "over", p, {}, Null)
      /\ UNCHANGED <<scanned, notes, call>>
      /\ file' = IF landing[l].out = Null THEN file ELSE landing[l].out
      /\ disk' = IF p = Null THEN disk ELSE [disk EXCEPT ![p.file] = p.text]
      /\ Ends(l, Reading \cup Merging)
  BY DEF WriteLanding
<1>2. LandingTyped(landing[l]) /\ disk \in [File -> Text \cup {Null}]
      /\ file \in Sound \cup {Null}
  BY DEF DataInv, FilesTyped
<1>3. p \in Patches \cup {Null} /\ file' \in Sound \cup {Null}
  BY <1>1, <1>2 DEF LandingTyped
<1> HIDE DEF p
<1>4. disk' \in [File -> Text \cup {Null}]
  BY <1>1, <1>2, <1>3, RegistryAssumption
<1>5. /\ LandingsShaped' /\ \A k \in Lander \ {l} : landing'[k] = landing[k]
      /\ landing'[l].pc = "over" /\ landing'[l].patch = p
      /\ landing'[l].names = {} /\ landing'[l].out = Null
  BY <1>1, LandChanges DEF DataInv
<1>6. LandingTyped(landing'[l])
  BY <1>3, <1>5 DEF LandingTyped
<1>7. misled' \subseteq Reading \cup Merging /\ l \notin misled'
  BY <1>1 DEF Ends, DataInv, MisledWork
<1> QED
  BY <1>1, <1>3, <1>4, <1>5, <1>6, <1>7, UnderWay, LanderStep
  DEF DataInv, FilesTyped

LEMMA GiveUpTyped ==
  ASSUME DataInv, NEW l \in Lander, GiveUp(l) PROVE DataInv'
<1> DEFINE p == landing[l].patch
<1>1. /\ landing[l].pc \in {"checked", "merged"}
      /\ Land(l, "over", p, {}, Null)
      /\ UNCHANGED <<file, scanned, disk, notes, call>>
      /\ misled' = misled \ {l}
  BY DEF GiveUp, project
<1>2. p \in Patches \cup {Null}
  BY DEF DataInv, LandingTyped
<1> HIDE DEF p
<1>3. /\ LandingsShaped' /\ \A k \in Lander \ {l} : landing'[k] = landing[k]
      /\ landing'[l].pc = "over" /\ landing'[l].patch = p
      /\ landing'[l].names = {} /\ landing'[l].out = Null
  BY <1>1, LandChanges DEF DataInv
<1>4. LandingTyped(landing'[l])
  BY <1>2, <1>3 DEF LandingTyped
<1>5. misled' \subseteq Reading \cup Merging /\ l \notin misled'
  BY <1>1 DEF DataInv, MisledWork
<1> QED
  BY <1>1, <1>3, <1>4, <1>5, UnderWay, LanderStep DEF DataInv, FilesTyped

LEMMA NoticeTyped ==
  ASSUME NEW r \in Registry, NEW m \in Module
  PROVE  /\ UpstreamNotice(r, m).to \in Module
         /\ UpstreamNotice(r, m).names \subseteq Symbol
BY RegistryHas DEF UpstreamNotice, Entry

LEMMA DeliverTyped ==
  ASSUME DataInv, NEW l \in Lander, Deliver(l) PROVE DataInv'
<1> DEFINE p == landing[l].patch
           m == IF p = Null THEN Null ELSE Home[p.file]
           n == UpstreamNotice(Known, m)
<1>1. m = Null \/ m \in Module
  BY RegistryAssumption, ContractsAssumption DEF DataInv, LandingTyped
<1>2. /\ landing[l].pc = "over" /\ landing' = [landing EXCEPT ![l] = NoLanding]
      /\ UNCHANGED <<file, scanned, disk, call, misled>>
      /\ notes' = notes \/ (m # Null /\ notes' = notes \cup {n})
  BY DEF Deliver
<1>3. m \in Module => n.to \in Module /\ n.names \subseteq Symbol
  <2> HIDE DEF m
  <2> QED
    BY KnownHas, NoticeTyped
<1> HIDE DEF m, n
<1>4. \A x \in notes' : x.to \in Module /\ x.names \subseteq Symbol
  BY <1>1, <1>2, <1>3 DEF DataInv, FilesTyped
<1>5. /\ LandingsShaped' /\ \A k \in Lander \ {l} : landing'[k] = landing[k]
      /\ landing'[l] = NoLanding
  BY <1>2 DEF DataInv, LandingsShaped
<1>6. LandingTyped(landing'[l])
  BY <1>5 DEF LandingTyped, NoLanding
<1>7. misled' \subseteq Reading \cup Merging /\ l \notin misled'
  BY <1>2, MisledLander DEF DataInv, MisledWork
<1> QED
  BY <1>2, <1>4, <1>5, <1>6, <1>7, UnderWay, LanderStep DEF DataInv, FilesTyped

LEMMA BeginTyped ==
  ASSUME IInv, DataInv, NEW a \in Architectures, Begin(a) PROVE DataInv'
<1> DEFINE r == IF a.imported THEN DraftFromScan(a, a.sources)
                ELSE MinimalContracts(a)
<1>1. r \in Sound /\ r \in Registry
  BY DraftsAreSound DEF Sound
<1>2. file' = (IF Readable(r) THEN Normalised(r) ELSE file)
  BY DEF Begin, Write
<1> HIDE DEF r
<1>3. file' \in Sound \cup {Null}
  BY <1>1, <1>2, NormalisedHas DEF DataInv
<1>4. scanned' \in SUBSET File /\ scanned' # Null
  BY RegistryAssumption DEF Begin, Scan
<1>5. disk' \in [File -> Text \cup {Null}]
  BY RegistryAssumption DEF Begin, CreateScaffold
<1>6. UNCHANGED <<notes, call, landing, misled>>
  BY DEF Begin
<1>7. FilesTyped'
  BY <1>4, <1>5, <1>6 DEF DataInv, FilesTyped
<1>8. MisledWork' /\ LandingsShaped'
  BY <1>6 DEF DataInv, MisledWork, Reading, Merging, LandingsShaped
<1> QED
  BY <1>3, <1>4, <1>6, <1>7, <1>8 DEF DataInv

-----------------------------------------------------------------------------
(* Steps of a call.                                                        *)

\* A step of one call.
LEMMA CallStep ==
  ASSUME DataInv, NEW w \in Writer, UNCHANGED <<project, landing>>,
         file' \in Sound \cup {Null}, scanned # Null \/ file' = file,
         \A v \in Writer \ {w} : call'[v] = call[v],
         CallTyped(call'[w]),
         misled' \ {w} \subseteq Reading \cup Merging,
         w \in misled' => call'[w].pc = "read"
  PROVE  DataInv'
<1>1. \A v \in Writer : CallTyped(call'[v])
  BY DEF DataInv
<1>2. MisledWork'
  BY DEF MisledWork, Reading, Merging
<1>3. LandingsShaped'
  BY DEF DataInv, LandingsShaped
<1>4. \A l \in Lander : LandingTyped(landing'[l])
  BY DEF DataInv
<1>5. FilesTyped'
  BY DEF DataInv, FilesTyped, project
<1> QED
  BY <1>1, <1>2, <1>3, <1>4, <1>5 DEF DataInv, project

\* One that is misled, and does not land, reads.
LEMMA MisledWriter ==
  ASSUME MisledWork, NEW w \in Writer, w \in misled
  PROVE  call[w].pc = "read"
BY RegistryAssumption DEF MisledWork, Reading, Merging

\* A step of one call that writes nothing and reads nothing.
LEMMA PlainCallStep ==
  ASSUME IInv, DataInv, NEW w \in Writer, UNCHANGED <<file, project, landing>>,
         \/ \E p \in {"waiting", "reaping", "locked", "leaving"} : Goto(w, p)
         \/ Leave(w),
         call[w].pc # "idle",
         misled' = misled \ {w} \/ (misled' = misled /\ call[w].pc # "read")
  PROVE  DataInv'
<1>1. CallsShaped /\ CallTyped(call[w]) /\ file \in Sound \cup {Null}
  BY DEF IInv, DataInv
<1>2. misled' \ {w} \subseteq Reading \cup Merging /\ w \notin misled'
  BY MisledWriter DEF DataInv, MisledWork
<1>3. CASE Leave(w)
  <2>1. call'[w] = NoCall
    BY <1>1, <1>3 DEF CallsShaped, Leave
  <2>2. CallTyped(NoCall)
    BY DEF CallTyped, NoCall
  <2> QED
    BY <1>1, <1>2, <1>3, <2>1, <2>2, CallStep, LeaveChanges
<1>4. ASSUME NEW p \in {"waiting", "reaping", "locked", "leaving"}, Goto(w, p)
      PROVE  DataInv'
  <2>1. CallTyped(call'[w])
    BY <1>1, <1>4, GotoChanges DEF CallTyped
  <2> QED
    BY <1>1, <1>2, <1>4, <2>1, CallStep, GotoChanges
<1> QED
  BY <1>3, <1>4

\* A writer that sees a sound registry.
LEMMA SeesTyped ==
  ASSUME IInv, DataInv, NEW w \in Writer, UNCHANGED <<file, project, landing>>,
         call[w].pc = "locked", NEW r \in Sound, Sees(w, r),
         misled' \ {w} \subseteq Reading \cup Merging,
         w \in misled' => call'[w].pc = "read"
  PROVE  DataInv'
<1>1. CallsShaped /\ CallTyped(call[w]) /\ file \in Sound \cup {Null}
  BY DEF IInv, DataInv
<1>2. /\ \A v \in Writer \ {w} : call'[v] = call[v]
      /\ call'[w].pc \in {"read", "leaving"}
      /\ call'[w].batch = call[w].batch
      /\ call'[w].pc = "read" => call'[w].view = r
      /\ call'[w].view \in {r, call[w].view}
  BY <1>1, SeesChanges
<1>3. CallTyped(call'[w])
  BY <1>1, <1>2 DEF CallTyped
<1> QED
  BY <1>1, <1>2, <1>3, CallStep

LEMMA ProceedTyped ==
  ASSUME IInv, DataInv, NEW w \in Writer, Proceed(w) \/ Crash(w) PROVE DataInv'
<1>1. CallsShaped /\ CallTyped(call[w]) /\ file \in Sound \cup {Null}
  BY DEF IInv, DataInv
<1>3. CASE Acquire(w)
  BY <1>3, PlainCallStep DEF Acquire
<1>4. CASE SeeOld(w)
  BY <1>4, PlainCallStep DEF SeeOld
<1>5. CASE Reap(w)
  BY <1>5, PlainCallStep DEF Reap
<1>6. CASE TimeOut(w)
  BY <1>6, PlainCallStep DEF TimeOut
<1>7. CASE Read(w)
  <2>1. /\ UNCHANGED <<file, project, landing, misled>>
        /\ call[w].pc = "locked" /\ Sees(w, OnDisk)
    BY <1>7 DEF Read
  <2>2. w \notin misled' /\ misled' \ {w} \subseteq Reading \cup Merging
    BY <2>1, MisledWriter DEF DataInv, MisledWork
  <2> QED
    BY <2>1, <2>2, OnDiskIsSound, SeesTyped
<1>8. CASE ReadFails(w)
  <2>1. /\ UNCHANGED <<file, project, landing>>
        /\ call[w].pc = "locked" /\ Sees(w, EmptyRegistry)
        /\ misled' = misled \cup (Reading' \ Reading)
    BY <1>8 DEF ReadFails
  <2>2. \A v \in Writer \ {w} : call'[v] = call[v]
    BY <1>1, <2>1, SeesChanges
  <2>3. misled' \ {w} \subseteq Reading \cup Merging
    BY <2>1, <2>2 DEF DataInv, MisledWork, Reading
  <2>4. w \in misled' => call'[w].pc = "read"
    BY <2>1, MisledWriter DEF DataInv, Reading
  <2> QED
    BY <2>1, <2>3, <2>4, EmptyIsSound, SeesTyped
<1>9. CASE Commit(w)
  <2> DEFINE r == ApplyBatch(call[w].view, call[w].batch)
  <2>1. /\ call[w].pc = "read" /\ UNCHANGED <<project, landing>>
        /\ Goto(w, "leaving") /\ Ends(w, Merging)
        /\ file' = IF r = Null THEN file ELSE r
    BY <1>9 DEF Commit
  <2>2. call[w].view \in Sound /\ call[w].batch \in Seq(Delta)
    BY <1>1, <2>1, RegistryAssumption DEF CallTyped
  <2>3. r \in Sound \cup {Null}
    BY <2>2, BatchIsSound
  <2> HIDE DEF r
  <2>4. file' \in Sound \cup {Null}
    BY <1>1, <2>1, <2>3
  <2>5. scanned # Null
    BY <2>1 DEF IInv, NoneBefore
  <2>6. CallTyped(call'[w]) /\ \A v \in Writer \ {w} : call'[v] = call[v]
    BY <1>1, <2>1, GotoChanges DEF CallTyped
  <2>7. w \notin misled' /\ misled' \ {w} \subseteq Reading \cup Merging
    BY <2>1 DEF Ends, DataInv, MisledWork
  <2> QED
    BY <2>1, <2>4, <2>5, <2>6, <2>7, CallStep
<1>10. CASE Release(w)
  BY <1>10, PlainCallStep DEF Release
<1>11. CASE Crash(w)
  BY <1>11, PlainCallStep DEF Crash, InSection
<1> QED
  BY <1>3, <1>4, <1>5, <1>6, <1>7, <1>8, <1>9, <1>10, <1>11 DEF Proceed

LEMMA CallActionTyped ==
  ASSUME IInv, DataInv, NEW w \in Writer, NEW b \in Batches,
         NEW o \in BOOLEAN, Call(w, b, o)
  PROVE  DataInv'
<1> DEFINE c == [pc |-> "waiting", batch |-> b, view |-> Null,
                 expected |-> IF o THEN OnDisk ELSE Null]
<1>1. CallTyped(c)
  BY DEF CallTyped
<1>2. call'[w] = c /\ \A v \in Writer \ {w} : call'[v] = call[v]
  BY DEF Call, IInv, CallsShaped
<1>3. /\ UNCHANGED <<file, project, landing, misled>>
      /\ call[w].pc = "idle"
  BY DEF Call
<1>4. w \notin misled' /\ misled' \ {w} \subseteq Reading \cup Merging
  BY <1>3, MisledWriter DEF DataInv, MisledWork
<1> HIDE DEF c
<1> QED
  BY <1>1, <1>2, <1>3, <1>4, CallStep DEF DataInv

LEMMA DataNext == IInv /\ DataInv /\ [Next]_vars => DataInv'
<1> SUFFICES ASSUME IInv, DataInv, [Next]_vars PROVE DataInv'
  OBVIOUS
<1>1. ASSUME NEW n \in notes, Resolve(n) PROVE DataInv'
  BY <1>1 DEF Resolve, DataInv, FilesTyped, LandingsShaped, MisledWork,
              Reading, Merging
<1>2. CASE Age \/ UNCHANGED vars
  BY <1>2 DEF Age, vars, project, DataInv, FilesTyped, LandingsShaped,
              MisledWork, Reading, Merging
<1> QED
  BY <1>1, <1>2, BeginTyped, CheckPatchTyped, MergeDeltaTyped,
     ReadToReconcileTyped, WriteLandingTyped, GiveUpTyped, DeliverTyped,
     CallActionTyped, ProceedTyped
  DEF Next

(* Everything the registry of a project is made of keeps its type, for any *)
(* architectures, patches and batches: what is on disk is a registry, and  *)
(* so is what a writer works from and what a landing is about to write.    *)
THEOREM RegistryTypeCorrect == Spec => []TypeOK
<1>1. IInv /\ DataInv => TypeOK
  <2> SUFFICES ASSUME IInv, DataInv PROVE TypeOK
    OBVIOUS
  <2>1. \A w \in Writer :
          /\ call[w].pc \in {"idle", "waiting", "reaping", "locked", "read",
                             "leaving"}
          /\ call[w].batch \in Batches \cup {<<>>}
          /\ call[w].view \in Registry \cup {Null}
    BY DEF DataInv, CallTyped, Sound
  <2>2. \A l \in Lander :
          /\ landing[l].pc \in {"idle", "checked", "merged", "over"}
          /\ landing[l].patch \in Patches \cup {Null}
          /\ landing[l].names \subseteq Symbol
          /\ landing[l].out \in Registry \cup {Null}
    BY DEF DataInv, LandingTyped, Sound
  <2>3. /\ file \in Registry \cup {Null}
        /\ disk \in [File -> Text \cup {Null}]
        /\ scanned = Null \/ scanned \in SUBSET File
        /\ \A n \in notes : n.to \in Module /\ n.names \subseteq Symbol
    BY DEF DataInv, FilesTyped, Sound
  <2>4. /\ robbed \in BOOLEAN /\ misled \subseteq Reading \cup Merging
        /\ lock = Null \/ lock \in [by: Writer \cup {Null}, aged: BOOLEAN]
    BY DEF IInv, DataInv, LockShaped, MisledWork
  <2> QED
    BY <2>1, <2>2, <2>3, <2>4 DEF TypeOK
<1> QED
  BY InitInv, NextInv, DataInit, DataNext, <1>1, PTL DEF Spec

-----------------------------------------------------------------------------
(* What a landing is about to write, against what is on disk.              *)

Adds(before, after) ==
  LET b == ById(Normalised(before))
      a == ById(Normalised(after))
      delta == ContractsDelta(Normalised(before), Normalised(after))
  IN  /\ delta.removed = {} /\ delta.moved = {}
      /\ \A i \in delta.changed :
           i \in DOMAIN b /\ b[i].status = "proposed" /\ a[i].status = "active"

Moves(before, after) ==
  LET delta == ContractsDelta(Normalised(before), Normalised(after))
  IN  delta.added \cup delta.removed \cup delta.changed = {}

\* Nobody but who is misled works from anything else.
MergeIsCurrent ==
  \A l \in Lander : landing[l].pc = "merged" /\ l \notin misled =>
    \/ landing[l].out = Null
    \/ Adds(file, landing[l].out) \/ Moves(file, landing[l].out)

\* A step that leaves the others to what they merged, or misleads them.
LEMMA MergeStep ==
  ASSUME MergeIsCurrent, NEW l,
         \A k \in Lander \ {l} : landing'[k] = landing[k],
         misled \ {l} \subseteq misled',
         file' = file \/ Merging \ {l} \subseteq misled',
         l \in Lander /\ landing'[l].pc = "merged" /\ l \notin misled' =>
           \/ landing'[l].out = Null
           \/ Adds(file', landing'[l].out) \/ Moves(file', landing'[l].out)
  PROVE  MergeIsCurrent'
<1> SUFFICES ASSUME NEW k \in Lander, landing'[k].pc = "merged", k \notin misled'
             PROVE  \/ landing'[k].out = Null
                    \/ Adds(file', landing'[k].out)
                    \/ Moves(file', landing'[k].out)
  BY DEF MergeIsCurrent, Adds, Moves
<1>1. CASE k = l
  BY <1>1
<1>2. CASE k # l
  <2>1. landing'[k] = landing[k] /\ k \notin misled /\ k \in Merging
    BY <1>2 DEF Merging
  <2>2. file' = file
    BY <1>2, <2>1
  <2> QED
    BY <2>1, <2>2 DEF MergeIsCurrent, Merging
<1> QED
  BY <1>1, <1>2

LEMMA MergeDeltaCurrent ==
  ASSUME DataInv, NEW l \in Lander, MergeDelta(l), file # Null
  PROVE  Adds(file, landing'[l].out)
<1> DEFINE p == landing[l].patch
           m == Home[p.file]
           names == landing[l].names
           after == [disk EXCEPT ![p.file] = p.text]
           c == scanned \cup {p.file}
           out == Promoted(WithDelta(Known, m, names), after, c)
<1>1. landing[l].pc = "checked" /\ Land(l, "merged", p, {}, out) /\ CanRead
  BY DEF MergeDelta
<1>2. names \in SUBSET Symbol /\ (names # {} => m \in Module)
  BY <1>1 DEF DataInv, LandingTyped
<1>3. Known \in Sound /\ Normalised(Known) = Known /\ DistinctIds(Known)
  BY <1>1, KnownHas
<1>4. Known = Normalised(file)
  BY DEF Known, OnDisk
<1>5. landing'[l].out = out
  <2> HIDE DEF out
  <2> QED
    BY <1>1, LandChanges DEF DataInv
<1> HIDE DEF p, m, names, after, c
<1>6. LET delta == ContractsDelta(Known, Normalised(out))
      IN  /\ delta.removed = {} /\ delta.moved = {}
          /\ \A i \in delta.changed :
               /\ i \in DOMAIN ById(Known)
               /\ ById(Known)[i].status = "proposed"
               /\ ById(Normalised(out))[i].status = "active"
  BY <1>2, <1>3, Landed
<1> HIDE DEF out
<1> QED
  BY <1>4, <1>5, <1>6 DEF Adds

LEMMA ReconcileCurrent ==
  ASSUME DataInv, NEW l \in Lander, ReadToReconcile(l)
  PROVE  Moves(file, landing'[l].out)
<1> DEFINE x == ApplyReconcile(Known, ReconcileRegistry(Known, disk))
           out == Normalised(x)
<1>1. Land(l, "merged", Null, {}, out) /\ file # Null /\ CanRead
  BY DEF ReadToReconcile
<1>2. Known \in Sound /\ Normalised(Known) = Known /\ DistinctIds(Known)
  BY <1>1, KnownHas
<1>3. Known = Normalised(file)
  BY <1>1 DEF Known, OnDisk
<1>4. LET delta == ContractsDelta(Known, out)
      IN  delta.added \cup delta.removed \cup delta.changed = {}
  BY <1>2, Reconciled
<1>5. x \in Registry
  BY <1>2, Reconciled DEF Sound
<1> HIDE DEF x
<1>6. Normalised(out) = out
  BY <1>5, NormalisedHas
<1> HIDE DEF out
<1>7. landing'[l].out = out
  BY <1>1, LandChanges DEF DataInv
<1> QED
  BY <1>3, <1>4, <1>6, <1>7 DEF Moves

LEMMA MergeInit == Init => MergeIsCurrent
BY DEF Init, MergeIsCurrent, NoLanding

LEMMA MergeNext ==
  IInv /\ DataInv /\ MergeIsCurrent /\ [Next]_vars => MergeIsCurrent'
<1> SUFFICES ASSUME IInv, DataInv, MergeIsCurrent, [Next]_vars
             PROVE  MergeIsCurrent'
  OBVIOUS
<1> LandingsShaped
  BY DEF DataInv
<1>1. ASSUME NEW a \in Architectures, Begin(a) PROVE MergeIsCurrent'
  <2>1. \A l \in Lander : landing[l].pc = "idle" /\ landing' = landing
    BY <1>1 DEF Begin, DataInv
  <2> QED
    BY <2>1 DEF MergeIsCurrent
<1>2. ASSUME NEW l \in Lander, NEW p \in Patches, CheckPatch(l, p)
      PROVE  MergeIsCurrent'
  <2>1. /\ \A k \in Lander \ {l} : landing'[k] = landing[k]
        /\ landing'[l].pc \in {"checked", "over"}
    BY <1>2, LandChanges DEF CheckPatch
  <2>2. UNCHANGED <<file, misled>>
    BY <1>2 DEF CheckPatch
  <2> QED
    BY <2>1, <2>2, MergeStep
<1>3. ASSUME NEW l \in Lander, MergeDelta(l) PROVE MergeIsCurrent'
  <2>1. /\ \A k \in Lander \ {l} : landing'[k] = landing[k]
        /\ file = Null => landing'[l].out = Null
    BY <1>3, LandChanges DEF MergeDelta
  <2>2. UNCHANGED <<file, misled>>
    BY <1>3 DEF MergeDelta
  <2>3. file # Null => Adds(file', landing'[l].out)
    BY <1>3, <2>2, MergeDeltaCurrent
  <2> QED
    BY <2>1, <2>2, <2>3, MergeStep
<1>4. ASSUME NEW l \in Lander, ReadToReconcile(l) PROVE MergeIsCurrent'
  <2>1. \A k \in Lander \ {l} : landing'[k] = landing[k]
    BY <1>4, LandChanges DEF ReadToReconcile
  <2>2. UNCHANGED <<file, misled>>
    BY <1>4 DEF ReadToReconcile
  <2>3. Moves(file', landing'[l].out)
    BY <1>4, <2>2, ReconcileCurrent
  <2> QED
    BY <2>1, <2>2, <2>3, MergeStep
<1>5. ASSUME NEW l \in Lander, WriteLanding(l) PROVE MergeIsCurrent'
  <2>1. /\ \A k \in Lander \ {l} : landing'[k] = landing[k]
        /\ landing'[l].pc = "over"
    BY <1>5, LandChanges DEF WriteLanding
  <2>2. misled' = (IF file' = file THEN misled
                   ELSE misled \cup (Reading \cup Merging)) \ {l}
    BY <1>5 DEF WriteLanding, Ends
  <2>3. misled \ {l} \subseteq misled'
        /\ (file' = file \/ Merging \ {l} \subseteq misled')
    BY <2>2
  <2> QED
    BY <2>1, <2>3, MergeStep
<1>6. ASSUME NEW l \in Lander, GiveUp(l) PROVE MergeIsCurrent'
  <2>1. /\ \A k \in Lander \ {l} : landing'[k] = landing[k]
        /\ landing'[l].pc = "over"
    BY <1>6, LandChanges DEF GiveUp
  <2>2. file' = file /\ misled' = misled \ {l}
    BY <1>6 DEF GiveUp
  <2> QED
    BY <2>1, <2>2, MergeStep
<1>7. ASSUME NEW l \in Lander, Deliver(l) PROVE MergeIsCurrent'
  <2>1. /\ \A k \in Lander \ {l} : landing'[k] = landing[k]
        /\ landing'[l] = NoLanding
    BY <1>7 DEF Deliver, LandingsShaped
  <2>2. UNCHANGED <<file, misled>> /\ NoLanding.pc # "merged"
    BY <1>7 DEF Deliver, NoLanding
  <2> QED
    BY <2>1, <2>2, MergeStep
<1>8. ASSUME NEW w \in Writer, Proceed(w) \/ Crash(w) PROVE MergeIsCurrent'
  <2>1. w \notin Lander /\ landing' = landing
    BY <1>8, RegistryAssumption
    DEF Proceed, Acquire, SeeOld, Reap, TimeOut, Read, ReadFails, Commit,
        Release, Crash
  <2>2. misled \ {w} \subseteq misled'
        /\ (file' = file \/ Merging \ {w} \subseteq misled')
    <3>1. CASE Commit(w)
      BY <3>1 DEF Commit, Ends
    <3>2. CASE ~ Commit(w)
      BY <1>8, <3>2
      DEF Proceed, Acquire, SeeOld, Reap, TimeOut, Read, ReadFails, Release,
          Crash
    <3> QED
      BY <3>1, <3>2
  <2> QED
    BY <2>1, <2>2, MergeStep
<1>9. ASSUME \/ \E n \in notes : Resolve(n)
             \/ \E w \in Writer, b \in Batches, o \in BOOLEAN : Call(w, b, o)
             \/ Age
             \/ UNCHANGED vars
      PROVE  MergeIsCurrent'
  <2>1. UNCHANGED <<file, landing, misled>>
    BY <1>9 DEF Resolve, Call, Age, vars
  <2> QED
    BY <2>1 DEF MergeIsCurrent, Adds, Moves
<1> QED
  BY <1>1, <1>2, <1>3, <1>4, <1>5, <1>6, <1>7, <1>8, <1>9 DEF Next

LEMMA LandingBuildsOnDisk ==
  ASSUME DataInv, MergeIsCurrent, NEW l \in Lander, WriteLanding(l),
         file' # file
  PROVE  MisledWrites \/ Grown \/ OnlyMoved
<1>1. /\ landing[l].pc = "merged" /\ call' = call
      /\ landing[l].out # Null /\ file' = landing[l].out
  BY DEF WriteLanding
<1>2. CASE l \in misled
  <2>1. l \in Merging /\ l \notin Writer
    BY <1>1, RegistryAssumption DEF Merging
  <2>2. landing'[l].pc = "over"
    BY LandChanges DEF WriteLanding, DataInv
  <2>3. l \notin (Reading \cup Merging)'
    BY <2>1, <2>2 DEF Reading, Merging
  <2> QED
    BY <1>2, <2>1, <2>3 DEF MisledWrites
<1>3. CASE l \notin misled
  <2>1. Adds(file, file') \/ Moves(file, file')
    BY <1>1, <1>3 DEF MergeIsCurrent
  <2>2. Adds(file, file') => Grown
    BY <1>1 DEF Adds, Grown
  <2>3. Moves(file, file') => OnlyMoved
    BY <1>1 DEF Moves, OnlyMoved
  <2> QED
    BY <2>1, <2>2, <2>3
<1> QED
  BY <1>2, <1>3

(* As long as no live lock is removed, whatever rewrites contracts.json    *)
(* builds on what is there: a whole batch that its agent meant for it      *)
(* (apply_deltas_atomically), a landing that only adds exports and keeps   *)
(* promises, or a reconciliation that changes nothing by contracts_delta;  *)
(* unless who writes was misled since it read: by a landing, by a read     *)
(* that failed or, when it lands itself, by a batch.                       *)
THEOREM WritesBuildOnDisk == Spec => RegistrySteps
<1>1. ASSUME IInv, DataInv, MergeIsCurrent, [Next]_vars,
             file # Null, file' # file, ~ robbed'
      PROVE  MisledWrites \/ Batched \/ Grown \/ OnlyMoved
  <2>1. scanned # Null
    BY <1>1 DEF DataInv
  <2>2. ASSUME NEW l \in Lander, WriteLanding(l)
        PROVE  MisledWrites \/ Grown \/ OnlyMoved
    BY <1>1, <2>2, LandingBuildsOnDisk
  <2>3. ASSUME NEW w \in Writer, Commit(w) PROVE MisledWrites \/ Batched
    <3>1. ~ robbed
      BY <1>1, <2>3 DEF Commit
    <3>2. CASE w \notin misled
      BY <1>1, <2>3, <3>1, <3>2, CommitBuildsOnDisk
    <3>3. CASE w \in misled
      <4>1. w \in Reading /\ w \notin Lander
        BY <2>3, RegistryAssumption DEF Commit, Reading
      <4>2. call'[w].pc = "leaving"
        BY <1>1, <2>3, GotoChanges DEF Commit, IInv
      <4>3. w \notin (Reading \cup Merging)'
        BY <4>1, <4>2 DEF Reading, Merging
      <4> QED
        BY <3>3, <4>1, <4>3 DEF MisledWrites
    <3> QED
      BY <3>2, <3>3
  <2>4. ASSUME NEW a \in Architectures, Begin(a) PROVE FALSE
    BY <2>1, <2>4 DEF Begin
  <2>5. ASSUME NEW l \in Lander,
               \/ \E p \in Patches : CheckPatch(l, p)
               \/ MergeDelta(l)
               \/ ReadToReconcile(l)
               \/ GiveUp(l)
               \/ Deliver(l)
        PROVE  FALSE
    BY <1>1, <2>5 DEF CheckPatch, MergeDelta, ReadToReconcile, GiveUp, Deliver
  <2>6. ASSUME NEW n \in notes, Resolve(n) PROVE FALSE
    BY <1>1, <2>6 DEF Resolve
  <2>7. ASSUME NEW w \in Writer, NEW b \in Batches, NEW o \in BOOLEAN,
               Call(w, b, o)
        PROVE  FALSE
    BY <1>1, <2>7 DEF Call
  <2>8. ASSUME NEW w \in Writer, Proceed(w) PROVE Commit(w)
    BY <1>1, <2>8
    DEF Proceed, Acquire, SeeOld, Reap, TimeOut, Read, ReadFails, Release
  <2>9. ASSUME NEW w \in Writer, Crash(w) PROVE FALSE
    BY <1>1, <2>9 DEF Crash
  <2>10. CASE Age \/ UNCHANGED vars
    BY <1>1, <2>10 DEF Age, vars
  <2> QED
    BY <1>1, <2>2, <2>3, <2>4, <2>5, <2>6, <2>7, <2>8, <2>9, <2>10 DEF Next
<1>2. IInv /\ DataInv /\ MergeIsCurrent /\ [Next]_vars =>
        [file # Null /\ file' # file /\ ~ robbed' =>
           MisledWrites \/ Batched \/ Grown \/ OnlyMoved]_vars
  BY <1>1
<1> QED
  BY <1>2, InitInv, NextInv, DataInit, DataNext, MergeInit, MergeNext, PTL
  DEF Spec, RegistrySteps

-----------------------------------------------------------------------------
(* The search of impact_for_roots: how far the neighbours of the stale     *)
(* owners' neighbours are away.                                            *)

Nodes(r) == Modules(r) \cup {Shared}

Searchable(r) ==
  /\ Modules(r) \subseteq Module
  /\ StaleOwners(r) \subseteq Nodes(r)
  /\ \A m \in Nodes(r) : DependentsOf(r, m) \subseteq Modules(r)

Far == Cardinality(Module)
Fronts(r) == [new: SUBSET Nodes(r), seen: SUBSET Nodes(r)]

Further(r, last) ==
  LET new == (UNION {DependentsOf(r, m) : m \in last.new}) \ last.seen
  IN  [new |-> new, seen |-> last.seen \cup new]

Search(f, r) ==
  f = [n \in 0..Far |->
         IF n = 0 THEN [new |-> StaleOwners(r), seen |-> StaleOwners(r)]
         ELSE Further(r, f[n - 1])]

LEMMA FarIs == Far \in Nat
BY FS_CardinalityType, ContractsAssumption DEF Far

LEMMA FurtherHas ==
  ASSUME NEW r, Searchable(r), NEW p \in Fronts(r)
  PROVE  /\ Further(r, p) \in Fronts(r)
         /\ Further(r, p).new =
              (UNION {DependentsOf(r, x) : x \in p.new}) \ p.seen
         /\ Further(r, p).seen = p.seen \cup Further(r, p).new
<1> DEFINE new == (UNION {DependentsOf(r, x) : x \in p.new}) \ p.seen
<1>1. new \in SUBSET Nodes(r)
  BY DEF Fronts, Searchable, Nodes
<1>2. Further(r, p) = [new |-> new, seen |-> p.seen \cup new]
  BY DEF Further
<1> HIDE DEF new
<1> QED
  BY <1>1, <1>2 DEF Fronts, new

LEMMA SearchExists ==
  ASSUME NEW r, Searchable(r)
  PROVE  \E f : Search(f, r)
<1> DEFINE D == Fronts(r)
           x == [new |-> StaleOwners(r), seen |-> StaleOwners(r)]
           g == [q \in D \X (1..Far) |-> Further(r, q[1])]
<1> Far \in Nat
  BY FarIs
<1>1. x \in D
  BY DEF Fronts, Searchable
<1>2. g \in [D \X (1..Far) -> D]
  <2>1. \A p \in D : Further(r, p) \in D
    BY FurtherHas
  <2> HIDE DEF D
  <2> QED
    BY <2>1
<1> HIDE DEF D, x
<1>3. PICK f \in [0..Far -> D] : Steps(f, Far, x, g)
  <2> HIDE DEF g
  <2> QED
    BY <1>1, <1>2, StepsExist
<1>4. f = [n \in 0..Far |-> IF n = 0 THEN x ELSE Further(r, f[n - 1])]
  <2>1. \A n \in 0..Far : f[n] = IF n = 0 THEN x ELSE g[<<f[n - 1], n>>]
    <3> HIDE DEF g
    <3> QED BY <1>3 DEF Steps
  <2>2. \A n \in 1..Far : f[n - 1] \in D
    BY <1>3
  <2>3. \A n \in 1..Far : g[<<f[n - 1], n>>] = Further(r, f[n - 1])
    BY <2>2
  <2> HIDE DEF g
  <2>4. \A n \in 0..Far : f[n] = IF n = 0 THEN x ELSE Further(r, f[n - 1])
    <3> TAKE n \in 0..Far
    <3>1. CASE n = 0
      BY <2>1, <3>1
    <3>2. CASE n \in 1..Far
      BY <2>1, <2>3, <3>2
    <3> QED
      BY <3>1, <3>2
  <2> QED
    BY <1>3, <2>4
<1> QED
  BY <1>4 DEF Search, x, D

LEMMA SearchSteps ==
  ASSUME NEW r, Searchable(r), NEW f, Search(f, r)
  PROVE  /\ f[0].new = StaleOwners(r) /\ f[0].seen = StaleOwners(r)
         /\ \A n \in 0..Far : f[n] \in Fronts(r)
         /\ \A n \in 1..Far :
              /\ n - 1 \in 0..Far
              /\ f[n].new = (UNION {DependentsOf(r, x) : x \in f[n - 1].new})
                             \ f[n - 1].seen
              /\ f[n].seen = f[n - 1].seen \cup f[n].new
<1> Far \in Nat
  BY FarIs
<1>1. f[0] = [new |-> StaleOwners(r), seen |-> StaleOwners(r)]
  BY DEF Search
<1>2. \A n \in 1..Far : f[n] = Further(r, f[n - 1]) /\ n - 1 \in 0..Far
  BY DEF Search
<1>3. f[0] \in Fronts(r)
  BY <1>1 DEF Fronts, Searchable
<1>4. \A n \in 1..Far : f[n - 1] \in Fronts(r) => f[n] \in Fronts(r)
  BY <1>2, FurtherHas
<1>5. \A n \in 0..Far : f[n] \in Fronts(r)
  <2> DEFINE D == Fronts(r)
  <2> HIDE DEF D
  <2>1. f[0] \in D /\ \A n \in 1..Far : f[n - 1] \in D => f[n] \in D
    BY <1>3, <1>4 DEF D
  <2>2. \A n \in 0..Far : f[n] \in D
    BY <2>1, StaysIn
  <2> QED
    BY <2>2 DEF D
<1> QED
  BY <1>1, <1>2, <1>5, FurtherHas

\* What is seen stays seen, and was new once, and once only.
LEMMA SearchHas ==
  ASSUME NEW r, Searchable(r), NEW f, Search(f, r)
  PROVE  /\ \A n \in 0..Far, k \in 0..Far : k <= n => f[k].seen \subseteq f[n].seen
         /\ \A n \in 0..Far : f[n].new \subseteq f[n].seen
         /\ \A n \in 0..Far : \A x \in f[n].seen : \E k \in 0..n : x \in f[k].new
         /\ \A n \in 0..Far, k \in 0..Far : k < n => f[n].new \cap f[k].seen = {}
<1> DEFINE Fine(n) ==
             /\ \A k \in 0..n : f[k].seen \subseteq f[n].seen
             /\ f[n].new \subseteq f[n].seen
             /\ \A x \in f[n].seen : \E k \in 0..n : x \in f[k].new
           T == {n \in Nat : n <= Far => Fine(n)}
<1> Far \in Nat
  BY FarIs
<1>1. 0 \in T
  <2>1. f[0].new = f[0].seen
    BY SearchSteps
  <2> QED
    BY <2>1
<1>2. ASSUME NEW n \in Nat, n \in T PROVE n + 1 \in T
  <2> SUFFICES ASSUME n + 1 <= Far PROVE Fine(n + 1)
    OBVIOUS
  <2>1. n + 1 \in 1..Far /\ (n + 1) - 1 = n
    OBVIOUS
  <2>2. f[n + 1].seen = f[n].seen \cup f[n + 1].new
    BY <2>1, SearchSteps
  <2>3. Fine(n)
    BY <1>2
  <2>4. \A k \in 0..(n + 1) : k = n + 1 \/ k \in 0..n
    OBVIOUS
  <2>5. \A k \in 0..(n + 1) : f[k].seen \subseteq f[n + 1].seen
    BY <2>2, <2>3, <2>4
  <2>6. \A x \in f[n + 1].seen : \E k \in 0..(n + 1) : x \in f[k].new
    <3> TAKE x \in f[n + 1].seen
    <3>1. CASE x \in f[n + 1].new
      BY <3>1
    <3>2. CASE x \in f[n].seen
      <4>1. PICK k \in 0..n : x \in f[k].new
        BY <2>3, <3>2
      <4> QED
        BY <4>1
    <3> QED
      BY <2>2, <3>1, <3>2
  <2> QED
    BY <2>2, <2>5, <2>6
<1>3. Nat \subseteq T
  BY <1>1, <1>2, Induction
<1>4. \A n \in 0..Far : Fine(n)
  BY <1>3
<1>5. \A n \in 0..Far, k \in 0..Far : k <= n => f[k].seen \subseteq f[n].seen
  BY <1>4
<1>6. \A n \in 0..Far, k \in 0..Far : k < n => f[n].new \cap f[k].seen = {}
  <2> TAKE n \in 0..Far, k \in 0..Far
  <2> HAVE k < n
  <2>1. n \in 1..Far /\ n - 1 \in 0..Far /\ k <= n - 1
    OBVIOUS
  <2>2. f[n].new \cap f[n - 1].seen = {}
    BY <2>1, SearchSteps
  <2>3. f[k].seen \subseteq f[n - 1].seen
    BY <1>5, <2>1
  <2> QED
    BY <2>2, <2>3
<1> HIDE DEF T
<1> QED
  BY <1>4, <1>5, <1>6

\* Each distance takes a neighbour of its own.
LEMMA SearchGrows ==
  ASSUME NEW r, Searchable(r), NEW f, Search(f, r)
  PROVE  \A n \in 0..Far :
           /\ f[n].seen \ StaleOwners(r) \in SUBSET Modules(r)
           /\ f[n].new # {} => Cardinality(f[n].seen \ StaleOwners(r)) >= n
<1> DEFINE W(n) == f[n].seen \ StaleOwners(r)
           T == {n \in Nat : n <= Far =>
                   /\ W(n) \in SUBSET Modules(r)
                   /\ f[n].new # {} => Cardinality(W(n)) >= n}
<1> /\ Far \in Nat
    /\ \A x \in Nodes(r) : DependentsOf(r, x) \subseteq Modules(r)
    /\ IsFiniteSet(Modules(r)) /\ Cardinality(Modules(r)) <= Far
  BY FarIs, FS_Subset, ContractsAssumption DEF Searchable, Far
<1>2. 0 \in T
  <2>1. W(0) = {}
    BY SearchSteps
  <2>2. Cardinality(W(0)) = 0
    BY <2>1, FS_EmptySet, Zenon
  <2> QED
    BY <2>1, <2>2
<1>3. ASSUME NEW n \in Nat, n \in T PROVE n + 1 \in T
  <2> SUFFICES ASSUME n + 1 <= Far
               PROVE  /\ W(n + 1) \in SUBSET Modules(r)
                      /\ f[n + 1].new # {} => Cardinality(W(n + 1)) >= n + 1
    OBVIOUS
  <2>1. n + 1 \in 1..Far /\ (n + 1) - 1 = n /\ n \in 0..Far
    OBVIOUS
  <2>2. /\ f[n + 1].new = (UNION {DependentsOf(r, x) : x \in f[n].new})
                            \ f[n].seen
        /\ f[n + 1].seen = f[n].seen \cup f[n + 1].new
        /\ f[n] \in Fronts(r)
    BY <2>1, SearchSteps
  <2>3. f[n].new \subseteq Nodes(r) /\ StaleOwners(r) \subseteq f[n].seen
    <3>1. StaleOwners(r) \subseteq f[n].seen
      <4>1. f[0].seen = StaleOwners(r) /\ 0 \in 0..Far /\ 0 <= n
        BY SearchSteps
      <4> QED
        BY <2>1, <4>1, SearchHas
    <3> QED
      BY <2>2, <3>1 DEF Fronts
  <2>4. f[n + 1].new \subseteq Modules(r)
    BY <2>2, <2>3
  <2>5. W(n) \in SUBSET Modules(r) /\ (f[n].new # {} => Cardinality(W(n)) >= n)
    BY <1>3
  <2>6. W(n + 1) \in SUBSET Modules(r)
    BY <2>2, <2>4, <2>5
  <2>7. ASSUME f[n + 1].new # {} PROVE Cardinality(W(n + 1)) >= n + 1
    <3>1. PICK x \in f[n + 1].new : x \notin W(n) /\ x \notin StaleOwners(r)
      BY <2>2, <2>3, <2>7
    <3>2. f[n].new # {}
      BY <2>2, <2>7
    <3> DEFINE A == W(n)
               B == W(n + 1)
    <3>3. A \cup {x} \in SUBSET B /\ B \in SUBSET Modules(r)
      BY <2>2, <2>6, <3>1
    <3>4. A \in SUBSET Modules(r) /\ Cardinality(A) >= n /\ x \notin A
      BY <2>5, <3>1, <3>2
    <3> HIDE DEF A, B
    <3>5. IsFiniteSet(A) /\ IsFiniteSet(B)
      BY <3>3, <3>4, FS_Subset
    <3>6. /\ Cardinality(A) \in Nat /\ Cardinality(B) \in Nat
          /\ Cardinality(A \cup {x}) = Cardinality(A) + 1
          /\ Cardinality(A \cup {x}) <= Cardinality(B)
      BY <3>3, <3>4, <3>5, FS_CardinalityType, FS_AddElement, FS_Subset
    <3> QED
      BY <3>4, <3>6 DEF B
  <2> QED
    BY <2>6, <2>7
<1>4. Nat \subseteq T
  BY <1>2, <1>3, Induction
<1> QED
  BY <1>4

\* All has been reached by then: the end is closed under the neighbours.
LEMMA SearchEnds ==
  ASSUME NEW r, Searchable(r), NEW f, Search(f, r)
  PROVE  \A x \in f[Far].seen :
           x \in Nodes(r) /\ DependentsOf(r, x) \subseteq f[Far].seen
<1> /\ Far \in Nat
    /\ \A x \in Nodes(r) : DependentsOf(r, x) \subseteq Modules(r)
    /\ IsFiniteSet(Modules(r)) /\ Cardinality(Modules(r)) <= Far
  BY FarIs, FS_Subset, ContractsAssumption DEF Searchable, Far
<1>2. Cardinality(Modules(r)) \in Nat
  BY FS_CardinalityType
<1>3. ASSUME NEW n \in 0..Far, f[n].new # {}
      PROVE  /\ n <= Cardinality(Modules(r))
             /\ n = Cardinality(Modules(r)) =>
                  f[n].seen \ StaleOwners(r) = Modules(r)
  <2> DEFINE A == f[n].seen \ StaleOwners(r)
  <2>1. \A k \in 0..Far :
          /\ f[k].seen \ StaleOwners(r) \in SUBSET Modules(r)
          /\ f[k].new # {} => Cardinality(f[k].seen \ StaleOwners(r)) >= k
    BY SearchGrows
  <2>2. A \in SUBSET Modules(r) /\ Cardinality(A) >= n
    BY <1>3, <2>1
  <2> HIDE DEF A
  <2>3. /\ Cardinality(A) <= Cardinality(Modules(r)) /\ Cardinality(A) \in Nat
        /\ Cardinality(Modules(r)) = Cardinality(A) => Modules(r) = A
    BY <2>2, FS_Subset, FS_CardinalityType
  <2> QED
    BY <1>2, <2>2, <2>3 DEF A
<1>4. ASSUME NEW x \in f[Far].seen
      PROVE  x \in Nodes(r) /\ DependentsOf(r, x) \subseteq f[Far].seen
  <2>1. x \in Nodes(r)
    BY SearchSteps DEF Fronts
  <2>2. PICK k \in 0..Far : x \in f[k].new
    BY SearchHas
  <2>3. CASE k < Far
    <3>1. k + 1 \in 1..Far /\ (k + 1) - 1 = k
      BY <2>3
    <3>2. /\ f[k + 1].new = (UNION {DependentsOf(r, y) : y \in f[k].new})
                              \ f[k].seen
          /\ f[k + 1].seen = f[k].seen \cup f[k + 1].new
      BY <3>1, SearchSteps
    <3>3. DependentsOf(r, x) \subseteq f[k + 1].seen
      BY <2>2, <3>2
    <3>4. f[k + 1].seen \subseteq f[Far].seen
      BY <3>1, SearchHas
    <3> QED
      BY <2>1, <3>3, <3>4
  <2>4. CASE k = Far
    <3>1. f[Far].seen \ StaleOwners(r) = Modules(r)
      BY <1>2, <1>3, <2>2, <2>4
    <3> QED
      BY <2>1, <3>1
  <2> QED
    BY <2>3, <2>4
<1> QED
  BY <1>4

-----------------------------------------------------------------------------
(* A registry that normalises can be searched, and the edges of the search *)
(* are those of BuildsOn.                                                  *)

LEMMA NormalisedKnows ==
  ASSUME NEW r \in Registry, Readable(r)
  PROVE  /\ DataOwnersAreKnown(Normalised(r))
         /\ OwnersAreKnown(Normalised(r))
         /\ DependenciesAreKnown(Normalised(r))
<1> DEFINE n == Normalised(r)
<1>1. n.depends_on = r.depends_on /\ Modules(n) = Modules(r)
  BY NormalisedHas DEF Modules
<1>2. \A e \in n.entries : \E o \in r.entries :
        /\ e.type = o.type /\ e.consumers = o.consumers
        /\ OwnerOf(e) = OwnerOf(o)
        /\ e.type # "shared_kernel" => e.owner = o.owner
  <2>1. n.entries = {Full(o) : o \in r.entries} /\ r.entries \in SUBSET Entry
    BY NormalisedHas, RegistryHas
  <2> QED
    BY <2>1, FullType, OwnerIs
<1> HIDE DEF n
<1>3. DataOwnersAreKnown(n)
  BY <1>1, <1>2 DEF Readable, DataOwnersAreKnown, Of
<1>4. OwnersAreKnown(n)
  BY <1>1, <1>2 DEF Readable, OwnersAreKnown, Of
<1>5. DependenciesAreKnown(n)
  BY <1>1 DEF Readable, DependenciesAreKnown
<1> QED
  BY <1>3, <1>4, <1>5 DEF n

LEMMA KnownOwners ==
  ASSUME NEW r \in Sound, DataOwnersAreKnown(r), OwnersAreKnown(r)
  PROVE  /\ Modules(r) \subseteq Module
         /\ \A e \in r.entries : e.owner \in Nodes(r) \cup {Null}
         /\ \A e \in Of(r, "public_api") : e.owner \in Modules(r)
<1>1. Modules(r) \subseteq Module
  BY RegistryHas, DependsHas DEF Sound, Modules
<1>2. \A e \in Of(r, "public_api") : e.owner \in Modules(r)
  BY DEF Sound, Of
<1>3. \A e \in r.entries : e.owner \in Nodes(r) \cup {Null}
  <2> TAKE e \in r.entries
  <2>1. e.type \in RegistryType /\ e.owner \in {OwnerOf(e), Null}
    BY RegistryHas, OwnerIs DEF Sound, Entry
  <2>2. CASE e.type \in {"vocabulary", "shared_kernel"}
    BY <2>1, <2>2 DEF OwnersAreKnown, Of, Nodes
  <2> QED
    BY <1>2, <2>1, <2>2
    DEF RegistryType, DataOwnersAreKnown, OwnersAreKnown, Of, Nodes
<1> QED
  BY <1>1, <1>2, <1>3

LEMMA IsSearchable ==
  ASSUME NEW r \in Sound, DataOwnersAreKnown(r), OwnersAreKnown(r)
  PROVE  Searchable(r)
<1>1. StaleOwners(r) \subseteq Nodes(r)
  BY KnownOwners DEF StaleOwners
<1>2. ASSUME NEW m \in Nodes(r) PROVE DependentsOf(r, m) \subseteq Modules(r)
  <2>1. \A x \in DependsOnEdges(r) : x[1].owner \in Modules(r)
    BY KnownOwners DEF DependsOnEdges
  <2>2. \A x \in UsesEdges(r) : x[2] \in Modules(r)
    BY DEF UsesEdges
  <2> QED
    BY <2>1, <2>2 DEF DependentsOf
<1> QED
  BY <1>1, <1>2, KnownOwners DEF Searchable

\* The modules whose dependencies are projected.
Exporting(r) == {m \in Modules(r) : Exports(r, m) # {}}

LEMMA EdgesAreBuilt ==
  ASSUME NEW r \in Sound, OwnersAreKnown(r), DependenciesAreKnown(r),
         NEW a, NEW b \in Nodes(r)
  PROVE  <<a, b>> \in BuildsOn(r, Exporting(r)) <=> a \in DependentsOf(r, b)
<1> DEFINE Uses(x, y) ==
             \E e \in Of(r, "shared_kernel") : e.owner = y /\ x \in e.consumers
           Depending(x, y) ==
             /\ \E e \in Of(r, "public_api") : e.owner = x
             /\ y \in r.depends_on[x] /\ y \in Modules(r)
<1>1. \A e \in Of(r, "public_api") : e.owner \in Modules(r)
  BY DEF Sound, Of
<1>2. \A m \in Modules(r) : r.depends_on[m] \subseteq Modules(r)
  BY DEF DependenciesAreKnown
<1>3. \A m \in Modules(r) :
        m \in Exporting(r) <=> \E e \in Of(r, "public_api") : e.owner = m
  BY DEF Exporting, Exports
<1>4. a \in DependentsOf(r, b) <=>
        a # b /\ (Depending(a, b) \/ (Uses(a, b) /\ a \in Modules(r)))
  <2>1. (\E x \in DependsOnEdges(r) : x[2] = b /\ x[1].owner = a)
          <=> Depending(a, b)
    <3>1. \A x : x \in DependsOnEdges(r) <=>
            \E e \in Of(r, "public_api") :
              \E m \in r.depends_on[e.owner] \cap Modules(r) : x = <<e, m>>
      BY DEF DependsOnEdges
    <3>2. ASSUME Depending(a, b)
          PROVE  \E x \in DependsOnEdges(r) : x[2] = b /\ x[1].owner = a
      <4>1. PICK e \in Of(r, "public_api") : e.owner = a
        BY <3>2
      <4>2. <<e, b>> \in DependsOnEdges(r)
        BY <3>1, <3>2, <4>1
      <4> QED
        BY <4>1, <4>2
    <3> QED
      BY <3>1, <3>2
  <2>2. (\E x \in UsesEdges(r) : x[1].owner = b /\ x[2] = a)
          <=> Uses(a, b) /\ a \in Modules(r)
    <3>1. \A x : x \in UsesEdges(r) <=>
            \E e \in Of(r, "shared_kernel") :
              \E m \in e.consumers \cap Modules(r) : x = <<e, m>>
      BY DEF UsesEdges
    <3>2. ASSUME Uses(a, b), a \in Modules(r)
          PROVE  \E x \in UsesEdges(r) : x[1].owner = b /\ x[2] = a
      <4>1. PICK e \in Of(r, "shared_kernel") : e.owner = b /\ a \in e.consumers
        BY <3>2
      <4>2. <<e, a>> \in UsesEdges(r)
        BY <3>1, <3>2, <4>1
      <4> QED
        BY <4>1, <4>2
    <3> QED
      BY <3>1, <3>2
  <2>3. a \in DependentsOf(r, b) <=>
          /\ a # b
          /\ \/ \E x \in DependsOnEdges(r) : x[2] = b /\ x[1].owner = a
             \/ \E x \in UsesEdges(r) : x[1].owner = b /\ x[2] = a
    BY DEF DependentsOf
  <2> QED
    BY <2>1, <2>2, <2>3
<1>5. <<a, b>> \in BuildsOn(r, Exporting(r)) <=>
        /\ a \in Modules(r) /\ a # b
        /\ (a \in Exporting(r) /\ b \in r.depends_on[a]) \/ Uses(a, b)
  <2> DEFINE On(x) ==
               (IF x \in Exporting(r) THEN r.depends_on[x] ELSE {}) \cup
               {e.owner : e \in {e \in Of(r, "shared_kernel") :
                                   x \in e.consumers}}
  <2>1. BuildsOn(r, Exporting(r)) =
          UNION {{<<x, y>> : y \in (On(x) \cap Nodes(r)) \ {x}}
                   : x \in Modules(r)}
    BY DEF BuildsOn, Nodes
  <2>2. b \in On(a) <=>
          (a \in Exporting(r) /\ b \in r.depends_on[a]) \/ Uses(a, b)
    OBVIOUS
  <2> HIDE DEF On
  <2>3. <<a, b>> \in BuildsOn(r, Exporting(r)) <=>
          a \in Modules(r) /\ b \in On(a) /\ a # b
    BY <2>1
  <2> QED
    BY <2>2, <2>3
<1> HIDE DEF Uses
<1> QED
  BY <1>1, <1>2, <1>3, <1>4, <1>5

\* Both ends of an edge are known.
LEMMA BuiltEnds ==
  ASSUME NEW r, NEW p \in BuildsOn(r, Exporting(r))
  PROVE  p = <<p[1], p[2]>> /\ p[1] \in Modules(r) /\ p[2] \in Nodes(r)
BY DEF BuildsOn, Nodes

-----------------------------------------------------------------------------
(* Who is told is whom the search reached.                                 *)

LEMMA ImpactHas ==
  ASSUME NEW r, Searchable(r)
  PROVE  \E f : Search(f, r) /\ Impact(r) = [n \in 1..Far |-> f[n].new]
<1> DEFINE front[n \in 0 .. Far] ==
             IF n = 0 THEN [new |-> StaleOwners(r), seen |-> StaleOwners(r)]
             ELSE Further(r, front[n - 1])
<1>1. Search(front, r)
  <2>1. PICK f : Search(f, r)
    BY SearchExists
  <2> QED
    BY <2>1 DEF Search
<1>2. Impact(r) = [n \in 1..Far |-> front[n].new]
  BY DEF Impact, Further, Far
<1> QED
  BY <1>1, <1>2

LEMMA UpstreamIs ==
  ASSUME NEW r \in Sound, Normalised(r) = r, Searchable(r),
         NEW f, Search(f, r), Impact(r) = [n \in 1..Far |-> f[n].new],
         NEW m \in Modules(r)
  PROVE  /\ UpstreamChanges(r, m) # Null <=> m \in f[Far].seen
         /\ m \in f[Far].seen \ StaleOwners(r) =>
              (UpstreamChanges(r, m).depth = 1 <=> m \in f[1].new)
<1> DEFINE at == {n \in 1..Far : m \in f[n].new}
           depth == IF at = {} THEN 0 ELSE CHOOSE n \in at : TRUE
           changed == {e.id : e \in {x \in r.entries : x.status = "stale"}}
           answer == [depth |-> depth, changed |-> changed]
<1>1. Far \in Nat /\ 1 <= Far
  <2>1. IsFiniteSet(Modules(r)) /\ Cardinality(Modules(r)) <= Far
    BY FS_Subset, ContractsAssumption DEF Searchable, Far
  <2>2. Cardinality(Modules(r)) \in Nat /\ Cardinality(Modules(r)) # 0
    BY <2>1, FS_CardinalityType, FS_EmptySet
  <2> QED
    BY <2>1, <2>2, FarIs
<1>2. UpstreamChanges(r, m) =
        IF at = {} /\ m \notin StaleOwners(r) THEN Null ELSE answer
  BY DEF UpstreamChanges
<1>3. answer # Null
  <2>1. depth \in Nat
    BY <1>1
  <2>2. changed \in SUBSET (RegistryType \X Owner \X Symbol)
    <3>1. \A e \in r.entries : e.id \in RegistryType \X Owner \X Symbol
      <4>1. r.entries = {Full(e) : e \in r.entries}
            /\ r.entries \in SUBSET Entry
        BY NormalisedHas, RegistryHas DEF Sound
      <4>2. \A e \in r.entries : e.id # Null
        BY <4>1, FullType
      <4> QED
        BY <4>1, <4>2 DEF Entry
    <3> QED
      BY <3>1
  <2> HIDE DEF depth, changed
  <2> QED
    BY <2>1, <2>2, ContractsAssumption
<1> HIDE DEF answer
<1>4. at # {} \/ m \in StaleOwners(r) <=> m \in f[Far].seen
  <2>1. ASSUME m \in f[Far].seen PROVE at # {} \/ m \in StaleOwners(r)
    <3>1. PICK k \in 0..Far : m \in f[k].new
      BY <1>1, <2>1, SearchHas
    <3>2. CASE k = 0
      BY <3>1, <3>2, SearchSteps
    <3>3. CASE k \in 1..Far
      BY <3>1, <3>3
    <3> QED
      BY <1>1, <3>2, <3>3
  <2>2. ASSUME NEW n \in at PROVE m \in f[Far].seen
    <3>1. f[n].new \subseteq f[n].seen /\ f[n].seen \subseteq f[Far].seen
      BY <1>1, SearchHas
    <3> QED
      BY <3>1
  <2>3. StaleOwners(r) \subseteq f[Far].seen
    <3>1. f[0].seen \subseteq f[Far].seen
      BY <1>1, SearchHas
    <3> QED
      BY <3>1, SearchSteps
  <2> QED
    BY <2>1, <2>2, <2>3
<1>5. ASSUME m \in f[Far].seen, m \notin StaleOwners(r)
      PROVE  UpstreamChanges(r, m).depth = 1 <=> m \in f[1].new
  <2>1. at # {}
    BY <1>4, <1>5
  <2>2. UpstreamChanges(r, m).depth = depth /\ depth \in at
    BY <1>2, <2>1 DEF answer
  <2>3. \A j, k \in at : ~ (j < k)
    <3> SUFFICES ASSUME NEW j \in at, NEW k \in at, j < k PROVE FALSE
      OBVIOUS
    <3>1. j \in 0..Far /\ k \in 0..Far /\ m \in f[j].new /\ m \in f[k].new
      BY <1>1
    <3>2. f[k].new \cap f[j].seen = {} /\ f[j].new \subseteq f[j].seen
      BY <3>1, SearchHas
    <3> QED
      BY <3>1, <3>2
  <2>4. 1 \in at <=> m \in f[1].new
    BY <1>1
  <2>5. \A n \in at : n \in Nat
    BY <1>1
  <2> HIDE DEF at, depth
  <2> QED
    BY <2>2, <2>3, <2>4, <2>5
<1> HIDE DEF at
<1> QED
  BY <1>2, <1>3, <1>4, <1>5

LEMMA ConcernedIs ==
  ASSUME NEW r \in Sound, OwnersAreKnown(r), DependenciesAreKnown(r),
         Searchable(r), NEW f, Search(f, r)
  PROVE  Concerned(r, Exporting(r)) = Modules(r) \cap f[Far].seen
<1> DEFINE direct == BuildsOn(r, Exporting(r))
           Closed(T) ==
             /\ StaleOwners(r) \subseteq T
             /\ \A p \in direct : p[2] \in T => p[1] \in T
<1>1. Far \in Nat
  BY FarIs
<1>2. f[Far].seen \in SUBSET Nodes(r) /\ Closed(f[Far].seen)
  <2>1. f[Far].seen \in SUBSET Nodes(r)
    BY <1>1, SearchSteps DEF Fronts
  <2>2. StaleOwners(r) \subseteq f[Far].seen
    <3>1. f[0].seen \subseteq f[Far].seen
      BY <1>1, SearchHas
    <3> QED
      BY <3>1, SearchSteps
  <2>3. ASSUME NEW p \in direct, p[2] \in f[Far].seen
        PROVE  p[1] \in f[Far].seen
    <3>1. p[1] \in DependentsOf(r, p[2])
      BY BuiltEnds, EdgesAreBuilt
    <3> QED
      BY <2>3, <3>1, SearchEnds
  <2> QED
    BY <2>1, <2>2, <2>3
<1>3. \A n \in 1..Far :
        /\ f[n] \in Fronts(r)
        /\ f[n].new = (UNION {DependentsOf(r, x) : x \in f[n - 1].new})
                        \ f[n - 1].seen
        /\ f[n].seen = f[n - 1].seen \cup f[n].new
  <2>1. \A n \in 1..Far : n \in 0..Far
    BY <1>1
  <2> HIDE DEF Closed, direct
  <2> QED
    BY <2>1, SearchSteps
<1>4. ASSUME NEW T \in SUBSET Nodes(r), Closed(T)
      PROVE  f[Far].seen \subseteq T
  <2> DEFINE D == {q \in Fronts(r) : q.new \subseteq T /\ q.seen \subseteq T}
  <2>1. f[0] \in D
    BY <1>1, <1>4, SearchSteps
  <2>2. ASSUME NEW n \in 1..Far, f[n - 1] \in D PROVE f[n] \in D
    <3>1. /\ f[n] \in Fronts(r)
          /\ f[n].new = (UNION {DependentsOf(r, x) : x \in f[n - 1].new})
                          \ f[n - 1].seen
          /\ f[n].seen = f[n - 1].seen \cup f[n].new
      BY <1>3
    <3>2. ASSUME NEW x \in f[n - 1].new, NEW y \in DependentsOf(r, x)
          PROVE  y \in T
      <4>1. x \in T /\ x \in Nodes(r)
        BY <2>2
      <4>2. <<y, x>> \in direct
        BY <4>1, EdgesAreBuilt
      <4> QED
        BY <1>4, <4>1, <4>2
    <3> QED
      BY <2>2, <3>1, <3>2
  <2>3. f[Far] \in D
    <3> HIDE DEF D
    <3> QED
      BY <1>1, <2>1, <2>2, StaysIn
  <2> QED
    BY <2>3
<1>5. Concerned(r, Exporting(r)) =
        {m \in Modules(r) : \A T \in SUBSET Nodes(r) : Closed(T) => m \in T}
  BY DEF Concerned, Nodes
<1> HIDE DEF Closed
<1> QED
  BY <1>2, <1>4, <1>5

(* For any registry that is persisted and can be read, whatever the chains *)
(* and cycles of its dependencies: the modules told of a stale interface   *)
(* (upstream_changes_for_module) are its owner and those who build on it,  *)
(* directly or through others, as far as the modules in between, and the   *)
(* one that is told, export something or use a shared entry; and the       *)
(* distance 1 is told to direct dependents only.                           *)
THEOREM UpstreamIsTold == Spec => []UpstreamTold
<1>1. ASSUME DataInv, file # Null, Readable(file)
      PROVE  LET r == Normalised(file)
                 exporting == {m \in Modules(r) : Exports(r, m) # {}}
                 direct == BuildsOn(r, exporting)
                 told == Told(r)
             IN  /\ told = Concerned(r, exporting)
                 /\ \A m \in told \ StaleOwners(r) :
                      UpstreamChanges(r, m).depth = 1 <=>
                        \E o \in StaleOwners(r) : <<m, o>> \in direct
  <2> DEFINE r == Normalised(file)
  <2>1. file \in Registry /\ r \in Sound /\ Normalised(r) = r
    BY <1>1, NormalisedHas DEF DataInv, Sound
  <2>2. OwnersAreKnown(r) /\ DataOwnersAreKnown(r) /\ DependenciesAreKnown(r)
    BY <1>1, <2>1, NormalisedKnows
  <2> HIDE DEF r
  <2>3. Searchable(r)
    BY <2>1, <2>2, IsSearchable
  <2>4. PICK f : Search(f, r) /\ Impact(r) = [n \in 1..Far |-> f[n].new]
    BY <2>3, ImpactHas
  <2>5. Concerned(r, Exporting(r)) = Modules(r) \cap f[Far].seen
    BY <2>1, <2>2, <2>3, <2>4, ConcernedIs
  <2>6. Told(r) = Modules(r) \cap f[Far].seen
    BY <2>1, <2>3, <2>4, UpstreamIs DEF Told
  <2>7. ASSUME NEW m \in Told(r) \ StaleOwners(r)
        PROVE  UpstreamChanges(r, m).depth = 1 <=>
                 \E o \in StaleOwners(r) : <<m, o>> \in BuildsOn(r, Exporting(r))
    <3>1. m \in Modules(r) /\ m \in f[Far].seen
      BY <2>6
    <3>2. UpstreamChanges(r, m).depth = 1 <=> m \in f[1].new
      BY <2>1, <2>3, <2>4, <3>1, UpstreamIs
    <3>3. f[1].new = (UNION {DependentsOf(r, x) : x \in StaleOwners(r)})
                       \ StaleOwners(r)
      <4>1. 1 \in 1..Far
        <5>1. m \in Module /\ IsFiniteSet(Module)
          BY <2>3, <3>1, ContractsAssumption DEF Searchable
        <5>2. Far # 0 /\ Far \in Nat
          BY <5>1, FS_EmptySet, FarIs DEF Far
        <5> QED
          BY <5>2
      <4> QED
        BY <2>3, <2>4, <4>1, SearchSteps
    <3>4. \A o \in StaleOwners(r) : o \in Nodes(r)
      BY <2>3 DEF Searchable
    <3>5. \A o \in StaleOwners(r) :
            <<m, o>> \in BuildsOn(r, Exporting(r)) <=> m \in DependentsOf(r, o)
      BY <2>1, <2>2, <3>4, EdgesAreBuilt
    <3> QED
      BY <3>2, <3>3, <3>5
  <2> QED
    BY <2>5, <2>6, <2>7 DEF r, Exporting
<1>2. DataInv => UpstreamTold
  BY <1>1 DEF UpstreamTold
<1> QED
  BY InitInv, NextInv, DataInit, DataNext, <1>2, PTL DEF Spec
=============================================================================
