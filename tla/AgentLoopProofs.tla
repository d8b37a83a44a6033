-------------------------- MODULE AgentLoopProofs --------------------------
(***************************************************************************)
(* Proofs about AgentLoop, for any tree of documents, batches of calls,    *)
(* limits, services and edits of the user.                                 *)
(***************************************************************************)
EXTENDS AgentLoop, WellFoundedInduction, TLAPS

-----------------------------------------------------------------------------
(* Induction over the numbers without an operator parameter: the set T     *)
(* takes the place of the predicate.                                       *)
LEMMA Least ==
  ASSUME NEW T \in SUBSET Nat, T # {}
  PROVE  \E m \in T : \A n \in T : m <= n
<1> DEFINE R == OpToRel(<, Nat)
<1>1. IsWellFoundedOn(R, Nat)
  BY NatLessThanWellFounded
<1>2. \A x, y \in Nat : x < y => <<x, y>> \in R
  BY DEF OpToRel
<1> HIDE DEF R
<1>3. PICK m \in T : \A n \in T : ~ (<<n, m>> \in R)
  BY <1>1, WFMin
<1>4. \A n \in T : ~ (n < m)
  BY <1>2, <1>3
<1> QED
  BY <1>4

LEMMA Induction ==
  ASSUME NEW T, 0 \in T, \A n \in Nat : n \in T => n + 1 \in T
  PROVE  Nat \subseteq T
<1> DEFINE Out == Nat \ T
<1>1. SUFFICES ASSUME Out # {} PROVE FALSE
  OBVIOUS
<1>2. PICK m \in Out : \A n \in Out : m <= n
  BY <1>1, Least
<1>3. m # 0 /\ m - 1 \in Nat /\ m - 1 \notin Out
  BY <1>2
<1> QED
  BY <1>2, <1>3

(* A function that goes on from x step by step, as g says.                 *)
Steps(f, N, x, g) ==
  f = [n \in 0..N |-> IF n = 0 THEN x ELSE g[<<f[n - 1], n>>]]

LEMMA StepsExist ==
  ASSUME NEW D, NEW x \in D, NEW N \in Nat, NEW g \in [D \X (1..N) -> D]
  PROVE  \E f \in [0..N -> D] : Steps(f, N, x, g)
<1> DEFINE T == { k \in Nat : k <= N => \E f \in [0..k -> D] : Steps(f, k, x, g) }
<1>1. 0 \in T
  <2> DEFINE f == [n \in 0..0 |-> x]
  <2>1. f \in [0..0 -> D] /\ Steps(f, 0, x, g)
    BY DEF Steps
  <2> QED
    BY <2>1
<1>2. ASSUME NEW k \in Nat, k \in T PROVE k + 1 \in T
  <2> SUFFICES ASSUME k + 1 <= N
               PROVE  \E h \in [0..(k + 1) -> D] : Steps(h, k + 1, x, g)
    OBVIOUS
  <2>1. PICK f \in [0..k -> D] : Steps(f, k, x, g)
    BY <1>2
  <2> DEFINE y == g[<<f[k], k + 1>>]
             h == [n \in 0..(k + 1) |-> IF n <= k THEN f[n] ELSE y]
  <2>2. f[k] \in D /\ k + 1 \in 1..N
    BY <2>1
  <2>3. y \in D
    BY <2>2
  <2>4. h \in [0..(k + 1) -> D]
    <3> HIDE DEF y
    <3> QED BY <2>1, <2>3
  <2>5. h[k + 1] = g[<<h[k], k + 1>>]
    OBVIOUS
  <2>6. \A n \in 0..k : h[n] = f[n]
    OBVIOUS
  <2>7. \A n \in 0..k : f[n] = IF n = 0 THEN x ELSE g[<<f[n - 1], n>>]
    BY <2>1 DEF Steps
  <2> HIDE DEF h, y
  <2>8. \A n \in 0..(k + 1) : h[n] = IF n = 0 THEN x ELSE g[<<h[n - 1], n>>]
    <3> TAKE n \in 0..(k + 1)
    <3>1. CASE n \in 0..k
      <4>1. n # 0 => n - 1 \in 0..k
        BY <3>1
      <4> QED
        BY <2>6, <2>7, <3>1, <4>1
    <3>2. CASE n = k + 1
      BY <2>5, <3>2
    <3> QED
      BY <3>1, <3>2
  <2> DEFINE w == [n \in 0..(k + 1) |-> IF n = 0 THEN x ELSE g[<<h[n - 1], n>>]]
  <2>9. h = w
    <3>1. w \in [0..(k + 1) -> D]
      BY <2>4, <2>8
    <3>2. \A n \in 0..(k + 1) : h[n] = w[n]
      BY <2>8
    <3> HIDE DEF w
    <3> QED
      BY <2>4, <3>1, <3>2
  <2> QED
    BY <2>4, <2>9 DEF Steps
<1>3. Nat \subseteq T
  BY <1>1, <1>2, Induction
<1> QED
  BY <1>3


\* What every step keeps in D is in D at the end.
LEMMA StaysIn ==
  ASSUME NEW D, NEW N \in Nat, NEW u, u[0] \in D,
         \A n \in 1..N : u[n - 1] \in D => u[n] \in D
  PROVE  \A n \in 0..N : u[n] \in D
<1> DEFINE T == { k \in Nat : k <= N => u[k] \in D }
<1>1. 0 \in T
  OBVIOUS
<1>2. ASSUME NEW k \in Nat, k \in T PROVE k + 1 \in T
  <2>1. SUFFICES ASSUME k + 1 <= N PROVE u[k + 1] \in D
    OBVIOUS
  <2>2. u[k] \in D /\ k + 1 \in 1..N /\ (k + 1) - 1 = k
    BY <1>2, <2>1
  <2> QED
    BY <2>2
<1>3. Nat \subseteq T
  BY <1>1, <1>2, Induction
<1> QED
  BY <1>3

LEMMA MinOfTwo ==
  ASSUME NEW a \in Nat, NEW b \in Nat
  PROVE  Min({a, b}) = IF a <= b THEN a ELSE b
BY DEF Min

-----------------------------------------------------------------------------
(* The memory.                                                             *)
RepeatChain == [last : ToolCall \cup {NoCalls}, times : 0..REPEAT_LIMIT]

LEMMA RepeatType ==
  ASSUME NEW chain \in RepeatChain, NEW c \in ToolCall
  PROVE  Repeat(chain, c) \in RepeatChain
<1>1. REPEAT_LIMIT \in Nat \ {0}
  BY LoopAssumption
<1>2. CASE c = chain.last
  <2>1. chain.times + 1 \in Nat
    BY <1>1 DEF RepeatChain
  <2>2. Min({chain.times + 1, REPEAT_LIMIT}) \in 0..REPEAT_LIMIT
    BY <1>1, <2>1, MinOfTwo
  <2> QED
    BY <1>2, <2>2 DEF Repeat, RepeatChain
<1>3. CASE c # chain.last
  BY <1>1, <1>3 DEF Repeat, RepeatChain
<1> QED
  BY <1>2, <1>3

LEMMA RepeatAllType ==
  ASSUME NEW chain \in RepeatChain, NEW calls \in Seq(ToolCall)
  PROVE  RepeatAll(chain, calls) \in RepeatChain
<1> DEFINE N == Len(calls)
           upto[n \in 0..N] ==
             IF n = 0 THEN chain ELSE Repeat(upto[n - 1], calls[n])
           g == [q \in RepeatChain \X (1..N) |-> Repeat(q[1], calls[q[2]])]
<1>1. N \in Nat /\ \A n \in 1..N : calls[n] \in ToolCall
  OBVIOUS
<1>2. g \in [RepeatChain \X (1..N) -> RepeatChain]
  <2>1. \A q \in RepeatChain \X (1..N) : Repeat(q[1], calls[q[2]]) \in RepeatChain
    BY <1>1, RepeatType
  <2> QED
    BY <2>1
<1>3. PICK f \in [0..N -> RepeatChain] : Steps(f, N, chain, g)
  <2> HIDE DEF N, g
  <2> QED
    BY <1>1, <1>2, StepsExist
<1>4. f = [n \in 0..N |-> IF n = 0 THEN chain ELSE Repeat(f[n - 1], calls[n])]
  <2>1. \A n \in 0..N : f[n] = IF n = 0 THEN chain ELSE g[<<f[n - 1], n>>]
    <3> HIDE DEF g, N
    <3> QED BY <1>3 DEF Steps
  <2>2. \A n \in 1..N : f[n - 1] \in RepeatChain
    BY <1>1
  <2>3. \A n \in 1..N : g[<<f[n - 1], n>>] = Repeat(f[n - 1], calls[n])
    BY <2>2
  <2> QED
    BY <1>1, <2>1, <2>3
<1>5. upto = [n \in 0..N |-> IF n = 0 THEN chain ELSE Repeat(upto[n - 1], calls[n])]
  <2> HIDE DEF g
  <2> QED
    BY <1>4
<1> HIDE DEF upto
<1>6. upto[0] = chain /\ \A n \in 1..N : upto[n] = Repeat(upto[n - 1], calls[n])
  BY <1>1, <1>5
<1>7. \A n \in 0..N : upto[n] \in RepeatChain
  <2>1. \A n \in 1..N : upto[n - 1] \in RepeatChain => upto[n] \in RepeatChain
    BY <1>1, <1>6, RepeatType
  <2> HIDE DEF N
  <2> QED
    BY <1>1, <1>6, <2>1, StaysIn
<1>8. RepeatAll(chain, calls) = upto[N]
  BY DEF RepeatAll, upto
<1> QED
  BY <1>1, <1>7, <1>8


\* No more rounds than are kept, from those there were, the last one last.
LEMMA RecentRounds ==
  ASSUME NEW h \in Seq(Round)
  PROVE  /\ Recent(h) \in History
         /\ \A i \in DOMAIN Recent(h) : \E j \in DOMAIN h : Recent(h)[i] = h[j]
         /\ Len(h) <= DETAIL_TURNS => Recent(h) = h
         /\ h # <<>> => Recent(h) # <<>> /\ Last(Recent(h)) = Last(h)
<1> DEFINE n == Len(h)
           k == Min({n, DETAIL_TURNS})
           s == SubSeq(h, n - k + 1, n)
<1>1. DETAIL_TURNS \in Nat \ {0} /\ n \in Nat
  BY LoopAssumption
<1>2. k \in 0..n /\ k <= DETAIL_TURNS /\ (n <= DETAIL_TURNS => k = n)
      /\ (n # 0 => k # 0)
  BY <1>1, MinOfTwo
<1>3. Recent(h) = s
  BY DEF Recent
<1> HIDE DEF k
<1>4. /\ s \in Seq(Round) /\ Len(s) = k
      /\ \A i \in 1..k : s[i] = h[i + (n - k)] /\ i + (n - k) \in 1..n
  BY <1>1, <1>2
<1> HIDE DEF s
<1>5. s \in History
  BY <1>2, <1>4 DEF History
<1>6. \A i \in DOMAIN s : \E j \in DOMAIN h : s[i] = h[j]
  BY <1>4
<1>7. n <= DETAIL_TURNS => s = h
  BY <1>2, <1>4
<1>8. h # <<>> => s # <<>> /\ Last(s) = Last(h)
  <2> SUFFICES ASSUME h # <<>> PROVE s # <<>> /\ Last(s) = Last(h)
    OBVIOUS
  <2>1. n # 0 /\ k # 0
    BY <1>2
  <2>2. s[k] = h[n]
    BY <1>2, <1>4, <2>1
  <2> QED
    BY <1>4, <2>1, <2>2 DEF Last
<1> QED
  BY <1>3, <1>5, <1>6, <1>7, <1>8

\* The rounds of a history after one more.
LEMMA RecentAfter ==
  ASSUME NEW h \in History, NEW r \in Round
  PROVE  LET s == Recent(Append(h, r)) IN
         /\ s \in History /\ s # <<>> /\ Last(s) = r
         /\ \A i \in DOMAIN s : s[i] = r \/ \E j \in DOMAIN h : s[i] = h[j]
         /\ Len(h) < DETAIL_TURNS => s = Append(h, r)
<1> DEFINE a == Append(h, r)
<1>1. h \in Seq(Round) /\ Len(h) \in Nat
  BY DEF History
<1>2. /\ a \in Seq(Round) /\ a # <<>> /\ Last(a) = r /\ Len(a) = Len(h) + 1
      /\ \A j \in DOMAIN a : a[j] = r \/ (j \in DOMAIN h /\ a[j] = h[j])
  <2>1. a \in Seq(Round) /\ Len(a) = Len(h) + 1 /\ a[Len(h) + 1] = r
    BY <1>1
  <2>2. \A j \in 1..Len(h) : a[j] = h[j]
    BY <1>1
  <2> HIDE DEF a
  <2>3. \A j \in 1..(Len(h) + 1) : a[j] = r \/ (j \in DOMAIN h /\ a[j] = h[j])
    BY <1>1, <2>1, <2>2
  <2> QED
    BY <1>1, <2>1, <2>3 DEF Last
<1>3. Len(h) < DETAIL_TURNS => Len(a) <= DETAIL_TURNS
  BY <1>1, <1>2, LoopAssumption
<1> HIDE DEF a
<1>4. /\ Recent(a) \in History /\ Recent(a) # <<>> /\ Last(Recent(a)) = r
      /\ \A i \in DOMAIN Recent(a) : \E j \in DOMAIN a : Recent(a)[i] = a[j]
      /\ Len(h) < DETAIL_TURNS => Recent(a) = a
  BY <1>2, <1>3, RecentRounds
<1>5. \A i \in DOMAIN Recent(a) :
        Recent(a)[i] = r \/ \E j \in DOMAIN h : Recent(a)[i] = h[j]
  BY <1>2, <1>4
<1> QED
  BY <1>4, <1>5 DEF a

LEMMA AfterType ==
  ASSUME NEW e \in Memory, NEW r \in Round
  PROVE  /\ After(e, r) \in Memory
         /\ After(e, r).recent = Recent(Append(e.recent, r))
         /\ After(e, r).nav = e.nav /\ After(e, r).wrote = e.wrote
<1> DEFINE chain == RepeatAll([last |-> e.last, times |-> e.times], r.calls)
           reads == IF ReadOnly(r.calls) THEN Min({e.reads + 1, READ_ONLY_LIMIT})
                                         ELSE 0
<1>1. r.calls \in Seq(ToolCall)
  <2>1. r.calls \in Batches \cup {<<>>}
    BY DEF Round
  <2>2. Batches \subseteq Seq(ToolCall) /\ <<>> \in Seq(ToolCall)
    BY LoopAssumption
  <2> QED
    BY <2>1, <2>2
<1>2. [last |-> e.last, times |-> e.times] \in RepeatChain
  BY DEF Memory, RepeatChain
<1>3. chain \in RepeatChain
  BY <1>1, <1>2, RepeatAllType
<1>4. reads \in 0..READ_ONLY_LIMIT
  <2>1. READ_ONLY_LIMIT \in Nat /\ e.reads \in 0..READ_ONLY_LIMIT
    BY LoopAssumption DEF Memory
  <2>2. Min({e.reads + 1, READ_ONLY_LIMIT}) \in 0..READ_ONLY_LIMIT
    BY <2>1, MinOfTwo
  <2> QED
    BY <2>1, <2>2
<1>5. Recent(Append(e.recent, r)) \in History
  <2>1. e.recent \in History
    BY DEF Memory
  <2> QED
    BY <2>1, RecentAfter
<1>6. After(e, r) = [e EXCEPT !.recent = Recent(Append(@, r)), !.reads = reads,
                              !.last = chain.last, !.times = chain.times]
  BY DEF After, Memory
<1> HIDE DEF chain, reads
<1> QED
  BY <1>3, <1>4, <1>5, <1>6 DEF Memory, RepeatChain

LEMMA ReplayType ==
  ASSUME NEW e \in Memory, NEW h \in History, e.recent = <<>>
  PROVE  Replay(e, h) \in Memory /\ Replay(e, h).recent = h
<1> DEFINE N == Len(h)
           upto[n \in 0..N] == IF n = 0 THEN e ELSE After(upto[n - 1], h[n])
           g == [q \in Memory \X (1..N) |-> After(q[1], h[q[2]])]
<1>1. N \in Nat /\ \A n \in 1..N : h[n] \in Round
  BY DEF History
<1>2. g \in [Memory \X (1..N) -> Memory]
  <2>1. \A q \in Memory \X (1..N) : After(q[1], h[q[2]]) \in Memory
    BY <1>1, AfterType
  <2> QED
    BY <2>1
<1>3. PICK f \in [0..N -> Memory] : Steps(f, N, e, g)
  <2> HIDE DEF N, g
  <2> QED
    BY <1>1, <1>2, StepsExist
<1>4. f = [n \in 0..N |-> IF n = 0 THEN e ELSE After(f[n - 1], h[n])]
  <2>1. \A n \in 0..N : f[n] = IF n = 0 THEN e ELSE g[<<f[n - 1], n>>]
    <3> HIDE DEF g, N
    <3> QED BY <1>3 DEF Steps
  <2>2. \A n \in 1..N : f[n - 1] \in Memory
    BY <1>1
  <2>3. \A n \in 1..N : g[<<f[n - 1], n>>] = After(f[n - 1], h[n])
    BY <2>2
  <2>4. \A n \in 0..N : f[n] = IF n = 0 THEN e ELSE After(f[n - 1], h[n])
    <3> TAKE n \in 0..N
    <3>1. CASE n = 0
      BY <2>1, <3>1
    <3>2. CASE n \in 1..N
      BY <2>1, <2>3, <3>2
    <3> QED
      BY <1>1, <3>1, <3>2
  <2> HIDE DEF g, N, upto
  <2> QED
    BY <2>4
<1>5. upto = [n \in 0..N |-> IF n = 0 THEN e ELSE After(upto[n - 1], h[n])]
  <2> HIDE DEF g
  <2> QED
    BY <1>4
<1> HIDE DEF upto
<1>6. upto[0] = e /\ \A n \in 1..N : upto[n] = After(upto[n - 1], h[n])
  BY <1>1, <1>5
<1>7. \A n \in 0..N : upto[n] \in Memory
  <2>1. \A n \in 1..N : upto[n - 1] \in Memory => upto[n] \in Memory
    BY <1>1, <1>6, AfterType
  <2> HIDE DEF N
  <2> QED
    BY <1>1, <1>6, <2>1, StaysIn
<1> DEFINE T == { k \in Nat : k <= N => /\ Len(upto[k].recent) = k
                                        /\ \A i \in 1..k : upto[k].recent[i] = h[i] }
<1>8. 0 \in T
  BY <1>6
<1>9. ASSUME NEW k \in Nat, k \in T PROVE k + 1 \in T
  <2> SUFFICES ASSUME k + 1 <= N
               PROVE  /\ Len(upto[k + 1].recent) = k + 1
                      /\ \A i \in 1..(k + 1) : upto[k + 1].recent[i] = h[i]
    OBVIOUS
  <2> DEFINE a == upto[k].recent
  <2>1. /\ k + 1 \in 1..N /\ k \in 0..N /\ (k + 1) - 1 = k
    BY <1>1
  <2>2. Len(a) = k /\ \A i \in 1..k : a[i] = h[i]
    BY <1>9, <2>1
  <2>3. upto[k] \in Memory /\ h[k + 1] \in Round
    BY <1>1, <1>7, <2>1
  <2>4. a \in History
    BY <2>3 DEF Memory
  <2>5. k < DETAIL_TURNS
    BY <1>1, <2>1, LoopAssumption DEF History
  <2>6. upto[k + 1].recent = Recent(Append(a, h[k + 1]))
    BY <1>6, <2>1, <2>3, AfterType
  <2> HIDE DEF a, N
  <2>7. upto[k + 1].recent = Append(a, h[k + 1])
    BY <2>2, <2>3, <2>4, <2>5, <2>6, RecentAfter
  <2>8. a \in Seq(Round)
    BY <2>4 DEF History
  <2> QED
    BY <2>2, <2>7, <2>8
<1>10. N \in T
  BY <1>1, <1>8, <1>9, Induction
<1>11. upto[N] \in Memory /\ upto[N].recent \in Seq(Round)
  BY <1>1, <1>7, SMTT(30) DEF Memory, History
<1>12. upto[N].recent = h
  <2>1. h \in Seq(Round) /\ Len(upto[N].recent) = N
        /\ \A i \in 1..N : upto[N].recent[i] = h[i]
    BY <1>1, <1>10 DEF History
  <2> QED
    BY <1>11, <2>1
<1>13. Replay(e, h) = upto[N]
  BY DEF Replay, upto
<1> QED
  BY <1>11, <1>12, <1>13


-----------------------------------------------------------------------------
(* The tools.                                                              *)
Env == [box : [File -> {"base", "same", "new"}], nav : SUBSET Doc,
        saw : SUBSET Observed, wrote : BOOLEAN]

\* What the tools of a round, begun with s, may have made of it.
Outcome(s) == { e \in Env :
  /\ \A f \in File : s.box[f] # "base" => e.box[f] # "base"
  /\ \A f \in File : e.box[f] = "same" => base[f] # 0
  /\ \A o \in e.saw : base[o[1]] = o[2] /\ o[2] # 0
  /\ \A d \in e.nav : d \in s.nav \/ <<d, base[d]>> \in e.saw
  /\ e.wrote => s.wrote \/ \E f \in File : e.box[f] # "base"
  /\ \A f \in File : e.box[f] # "base" =>
       s.box[f] # "base" \/ Required(f) \subseteq e.nav }

LEMMA ShowOutcome ==
  ASSUME base \in [Path -> Version], NEW s, NEW e \in Env,
         NEW ps \in SUBSET Path
  PROVE  /\ Show(e, ps) \in Env
         /\ (e \in Outcome(s) /\ \A p \in ps : base[p] # 0)
              => Show(e, ps) \in Outcome(s)
<1> DEFINE t == Show(e, ps)
           new == {<<p, base[p]>> : p \in ps}
<1>1. /\ t.box = e.box /\ t.wrote = e.wrote
      /\ t.nav = e.nav \cup (ps \cap Doc)
      /\ t.saw = e.saw \cup new
  BY DEF Show, Env
<1>2. new \subseteq Observed
  BY DEF Observed
<1>3. t \in Env
  <2>1. t = [e EXCEPT !.nav = @ \cup (ps \cap Doc), !.saw = @ \cup new]
    BY DEF Show
  <2>2. e.nav \cup (ps \cap Doc) \in SUBSET Doc
        /\ e.saw \cup new \in SUBSET Observed
    BY <1>2 DEF Env
  <2> HIDE DEF t, new
  <2> QED
    BY <2>1, <2>2 DEF Env
<1>4. ASSUME e \in Outcome(s), \A p \in ps : base[p] # 0
      PROVE  t \in Outcome(s)
  <2>1. \A o \in t.saw : base[o[1]] = o[2] /\ o[2] # 0
    <3>1. \A o \in new : base[o[1]] = o[2] /\ o[2] # 0
      BY <1>4
    <3> HIDE DEF t, new
    <3> QED
      BY <1>1, <1>4, <3>1 DEF Outcome
  <2>2. \A d \in t.nav : d \in s.nav \/ <<d, base[d]>> \in t.saw
    <3>1. \A d \in ps : <<d, base[d]>> \in new
      OBVIOUS
    <3> HIDE DEF t, new
    <3> QED
      BY <1>1, <1>4, <3>1 DEF Outcome
  <2> HIDE DEF t, new
  <2> QED
    BY <1>1, <1>3, <1>4, <2>1, <2>2 DEF Outcome
<1> QED
  BY <1>3, <1>4

LEMMA WriteOutcome ==
  ASSUME base \in [Path -> Version], NEW s, NEW e \in Env, NEW f,
         NEW text \in {"same", "new"}
  PROVE  /\ Write(e, f, text) \in Env
         /\ (e \in Outcome(s) /\ (text = "same" => base[f] # 0))
              => Write(e, f, text) \in Outcome(s)
<1> DEFINE t == Write(e, f, text)
<1>1. SUFFICES ASSUME f \in File, Informed(e.nav, f),
                      t = [e EXCEPT !.box[f] = text, !.wrote = TRUE]
               PROVE  /\ t \in Env
                      /\ (e \in Outcome(s) /\ (text = "same" => base[f] # 0))
                           => t \in Outcome(s)
  BY LoopAssumption DEF Write
<1>2. /\ t.box = [e.box EXCEPT ![f] = text] /\ t.wrote = TRUE
      /\ t.nav = e.nav /\ t.saw = e.saw
  BY <1>1 DEF Env
<1>3. t \in Env
  <2>1. [e.box EXCEPT ![f] = text] \in [File -> {"base", "same", "new"}]
    BY DEF Env
  <2> HIDE DEF t
  <2> QED
    BY <1>1, <2>1 DEF Env
<1> HIDE DEF t
<1>4. /\ \A x \in File : t.box[x] = IF x = f THEN text ELSE e.box[x]
  BY <1>2 DEF Env
<1>5. ASSUME e \in Outcome(s), text = "same" => base[f] # 0
      PROVE  t \in Outcome(s)
  <2>1. Required(f) \subseteq t.nav
    BY <1>1, <1>2 DEF Informed
  <2>2. t.box[f] = text /\ text # "base"
    BY <1>1, <1>4
  <2>3. \A x \in File : s.box[x] # "base" => t.box[x] # "base"
    BY <1>4, <1>5, <2>2 DEF Outcome
  <2>4. \A x \in File : t.box[x] = "same" => base[x] # 0
    BY <1>4, <1>5, <2>2 DEF Outcome
  <2>5. \A x \in File : t.box[x] # "base" =>
          s.box[x] # "base" \/ Required(x) \subseteq t.nav
    BY <1>2, <1>4, <1>5, <2>1 DEF Outcome
  <2>6. /\ \A o \in t.saw : base[o[1]] = o[2] /\ o[2] # 0
        /\ \A d \in t.nav : d \in s.nav \/ <<d, base[d]>> \in t.saw
    BY <1>2, <1>5 DEF Outcome
  <2>7. \E x \in File : t.box[x] # "base"
    BY <1>1, <2>2
  <2> QED
    BY <1>3, <2>3, <2>4, <2>5, <2>6, <2>7 DEF Outcome
<1> QED
  BY <1>3, <1>5

LEMMA ToolOutcome ==
  ASSUME base \in [Path -> Version], NEW s, NEW e \in Env, NEW c \in ToolCall
  PROVE  /\ ExecuteTool(e, c) \in Env
         /\ e \in Outcome(s) => ExecuteTool(e, c) \in Outcome(s)
<1> DEFINE Kept(t) == t \in Env /\ (e \in Outcome(s) => t \in Outcome(s))
<1> USE DEF ToolCall
<1>1. Kept(e)
  OBVIOUS
<1>2. Kept(ReadAiArch(e, c.path))
  <2>1. /\ Required(c.path) \subseteq Path
        /\ \A d \in Required(c.path) : base[d] # 0
    BY LoopAssumption DEF Required, Path
  <2> QED
    BY <2>1, ShowOutcome DEF ReadAiArch
<1>3. Kept(ReadFile(e, c.path))
  <2> DEFINE p == c.path
  <2>1. p \in Path /\ {p} \subseteq Path
    OBVIOUS
  <2>2. Kept(Show(e, {p})) \/ (base[p] = 0 /\ e \in Outcome(s))
        \/ (e \notin Outcome(s) /\ Show(e, {p}) \in Env)
    BY <2>1, ShowOutcome
  <2>3. Show(e, {p}) \in Env /\ (base[p] # 0 => Kept(Show(e, {p})))
    BY <2>1, <2>2, ShowOutcome
  <2>4. CASE p \in Doc
    BY <1>1, <2>3, <2>4 DEF ReadFile
  <2>5. CASE p \notin Doc
    <3>1. SUFFICES ASSUME There(e.box, p), e.box[p] # "new"
                   PROVE  Kept(Show(e, {p}))
      BY <1>1, <2>5 DEF ReadFile
    <3>2. p \in File
      BY <2>1, <2>5 DEF Path
    <3>3. e.box[p] \in {"base", "same"}
      BY <3>1, <3>2 DEF Env
    <3>4. e \in Outcome(s) => base[p] # 0
      BY <3>1, <3>2, <3>3 DEF Outcome, There
    <3> QED
      BY <2>3, <3>4
  <2> QED
    BY <2>4, <2>5
<1>4. Kept(WriteFile(e, c))
  BY WriteOutcome DEF WriteFile
<1>5. Kept(EditFile(e, c))
  BY <1>1, WriteOutcome DEF EditFile
<1> HIDE DEF Kept
<1>6. Kept(ExecuteTool(e, c))
  BY <1>1, <1>2, <1>3, <1>4, <1>5 DEF ExecuteTool
<1> QED
  BY <1>6 DEF Kept


LEMMA ToolsOutcome ==
  ASSUME base \in [Path -> Version], NEW s, s \in Outcome(s),
         NEW calls \in Seq(ToolCall)
  PROVE  ExecuteTools(s, calls) \in Outcome(s)
<1> DEFINE N == Len(calls)
           D == Outcome(s)
           upto[n \in 0..N] ==
             IF n = 0 THEN s ELSE ExecuteTool(upto[n - 1], calls[n])
           g == [q \in D \X (1..N) |-> ExecuteTool(q[1], calls[q[2]])]
<1>1. N \in Nat /\ \A n \in 1..N : calls[n] \in ToolCall
  OBVIOUS
<1>2. \A e \in D : \A c \in ToolCall : ExecuteTool(e, c) \in D
  BY ToolOutcome DEF Outcome
<1> HIDE DEF D
<1>3. g \in [D \X (1..N) -> D]
  <2>1. \A q \in D \X (1..N) : ExecuteTool(q[1], calls[q[2]]) \in D
    BY <1>1, <1>2
  <2> QED
    BY <2>1
<1>4. PICK f \in [0..N -> D] : Steps(f, N, s, g)
  <2>1. s \in D
    BY DEF D
  <2> HIDE DEF N, g
  <2> QED
    BY <1>1, <1>3, <2>1, StepsExist
<1>5. \A n \in 0..N :
        f[n] = IF n = 0 THEN s ELSE ExecuteTool(f[n - 1], calls[n])
  <2>1. \A n \in 0..N : f[n] = IF n = 0 THEN s ELSE g[<<f[n - 1], n>>]
    <3> HIDE DEF g, N
    <3> QED BY <1>4 DEF Steps
  <2>2. \A n \in 1..N : f[n - 1] \in D
    BY <1>1
  <2>3. \A n \in 1..N : g[<<f[n - 1], n>>] = ExecuteTool(f[n - 1], calls[n])
    BY <2>2
  <2> TAKE n \in 0..N
  <2>4. CASE n = 0
    BY <2>1, <2>4
  <2>5. CASE n \in 1..N
    BY <2>1, <2>3, <2>5
  <2> QED
    BY <1>1, <2>4, <2>5
<1>6. f = [n \in 0..N |-> IF n = 0 THEN s ELSE ExecuteTool(f[n - 1], calls[n])]
  <2> HIDE DEF N, g
  <2> QED
    BY <1>5
<1>7. upto = [n \in 0..N |->
                IF n = 0 THEN s ELSE ExecuteTool(upto[n - 1], calls[n])]
  <2> HIDE DEF g
  <2> QED
    BY <1>6
<1> HIDE DEF upto
<1>8. /\ upto[0] = s
      /\ \A n \in 1..N : upto[n] = ExecuteTool(upto[n - 1], calls[n])
  BY <1>1, <1>7
<1>9. \A n \in 0..N : upto[n] \in D
  <2>1. \A n \in 1..N : upto[n - 1] \in D => upto[n] \in D
    BY <1>1, <1>2, <1>8
  <2>2. upto[0] \in D
    BY <1>8 DEF D
  <2> HIDE DEF N
  <2> QED
    BY <1>1, <2>1, <2>2, StaysIn
<1>10. ExecuteTools(s, calls) = upto[N]
  BY DEF ExecuteTools, upto
<1> QED
  BY <1>1, <1>9, <1>10 DEF D


-----------------------------------------------------------------------------
(* The steps, sorted by what they do to the sandbox and the checkpoint.    *)
LEMMA ConstantsType ==
  /\ File \cap Doc = {} /\ Missing \subseteq Path
  /\ DETAIL_TURNS \in Nat \ {0} /\ READ_ONLY_LIMIT \in Nat \ {0}
  /\ REPEAT_LIMIT \in Nat \ {0} /\ MaxEdits \in Nat
  /\ STATUS_RETRIES \in Nat /\ CONNECTION_RETRIES \in Nat
  /\ JSON_RETRIES \in Nat
BY LoopAssumption

LEMMA FreshType ==
  ASSUME NEW n \in BOOLEAN, NEW r \in BOOLEAN
  PROVE  /\ Fresh(n, r) \in Memory
         /\ Fresh(n, r).recent = <<>> /\ Fresh(n, r).nav = {}
         /\ ~ Fresh(n, r).wrote
<1>1. <<>> \in History
  BY ConstantsType DEF History
<1> QED
  BY <1>1, ConstantsType DEF Fresh, Memory

LEMMA LoadedType ==
  ASSUME cp \in Checkpoint, NEW n \in BOOLEAN
  PROVE  /\ Loaded(n) \in Memory
         /\ Loaded(n).recent = cp.history
         /\ Loaded(n).nav = DocsIn(cp.history)
         /\ Loaded(n).wrote = (cp.files # {} \/ cp.wrote)
<1> DEFINE e == Replay(Fresh(n, FALSE), cp.history)
<1>1. cp.history \in History /\ cp.wrote \in BOOLEAN
  BY DEF Checkpoint
<1>2. e \in Memory /\ e.recent = cp.history
  BY <1>1, FreshType, ReplayType
<1>3. DocsIn(cp.history) \in SUBSET Doc
  BY DEF DocsIn
<1>4. Loaded(n) = [e EXCEPT !.wrote = cp.files # {} \/ cp.wrote,
                            !.nav = DocsIn(cp.history)]
  BY DEF Loaded
<1>5. (cp.files # {} \/ cp.wrote) \in BOOLEAN
  OBVIOUS
<1> HIDE DEF e
<1> QED
  BY <1>2, <1>3, <1>4, <1>5 DEF Memory

Alive == phase \in Running \cup {"done"}

\* The execution ends, for a reason that the loop knows.
Ends(p) ==
  /\ phase \in {"turn", "asking"} /\ p \in Rest /\ Finish(p)
  /\ p = "done" => exec.wrote
  /\ call' = Client!NoCall

\* The user or the service acts, and the sandbox does not.
Talks ==
  /\ UNCHANGED <<disk, sandbox, exec, ghosts>>
  /\ phase' = phase \/ (phase = "turn" /\ phase' = "asking")
  /\ phase' # "asking" => call' = Client!NoCall
  /\ call' \in Client!Call /\ stop' \in BOOLEAN
  /\ call'.phase = "rejected" =>
       (phase = "asking" /\ call.phase = "rejected") \/ ~ (Steady /\ JustNudged)

Nudges ==
  /\ phase = "asking" /\ call' = Client!NoCall
  /\ exec' = [After(exec, [calls |-> <<>>, saw |-> {}]) EXCEPT !.nudged = TRUE]
  /\ phase' = "turn"
  /\ UNCHANGED <<disk, sandbox, stop, ghosts>>

LEMMA Calls ==
  ASSUME call \in Client!Call, NEW n \in BOOLEAN
  PROVE  /\ Client!NoCall \in Client!Call
         /\ Client!Send(n, format) =>
              call' \in Client!Call /\ call'.phase = "sent"
         /\ Client!ClientStep =>
              call' \in Client!Call /\ call'.phase # "rejected"
         /\ Client!ToolsRejected => call' \in Client!Call
<1> USE DEF Client!Call, Client!NoCall
<1>1. Client!NoCall \in Client!Call
  BY ConstantsType
<1> HIDE DEF Client!NoCall
<1>11. call.how \in {"chat", "json"}
  OBVIOUS
<1>12. ASSUME NEW p \in {"sent", "answered", "rejected", "failed"},
             NEW h \in {"chat", "json"},
             call' = [Client!NoCall EXCEPT !.phase = p, !.how = h]
      PROVE  call' \in Client!Call /\ call'.phase = p
  BY <1>1, <1>12
<1>2. Client!Send(n, format) => call' \in Client!Call /\ call'.phase = "sent"
  <2>1. Client!Protocol(n, format) \in {"chat", "json"}
    BY DEF Client!Protocol
  <2> HIDE DEF Client!Call
  <2> QED
    BY <1>12, <2>1 DEF Client!Send
<1>3. \A p \in {"answered", "rejected", "failed"} :
        Client!End(p) => call' \in Client!Call /\ call'.phase = p
  <2> HIDE DEF Client!Call
  <2> QED
    BY <1>11, <1>12 DEF Client!End
<1>4. Client!TransientStatus => call' \in Client!Call /\ call'.phase # "rejected"
  BY <1>3, ConstantsType DEF Client!TransientStatus, Client!Sent
<1>5. Client!NoConnection => call' \in Client!Call /\ call'.phase # "rejected"
  BY <1>3, ConstantsType DEF Client!NoConnection, Client!Sent
<1>6. Client!NotJson => call' \in Client!Call /\ call'.phase # "rejected"
  <2>1. call.parse + 1 \in Nat
    OBVIOUS
  <2>2. CASE call.parse < JSON_RETRIES
    <3>1. call.parse + 1 \in 0..JSON_RETRIES /\ 0 \in 0..STATUS_RETRIES
          /\ 0 \in 0..CONNECTION_RETRIES
      BY <2>2, ConstantsType
    <3> QED
    BY <3>1, <2>2, ConstantsType DEF Client!NotJson, Client!Sent
  <2>3. CASE ~ (call.parse < JSON_RETRIES)
    BY <1>3, <2>3 DEF Client!NotJson
  <2> QED
    BY <2>2, <2>3
<1>7. Client!HardFailure \/ Client!Answered =>
        call' \in Client!Call /\ call'.phase # "rejected"
  BY <1>3 DEF Client!HardFailure, Client!Answered
<1>8. Client!ToolsRejected => call' \in Client!Call
  BY <1>3 DEF Client!ToolsRejected
<1> HIDE DEF Client!Call, Client!NoCall
<1> QED
  BY <1>1, <1>2, <1>4, <1>5, <1>6, <1>7, <1>8 DEF Client!ClientStep

LEMMA StepKinds ==
  ASSUME TypeOK, Next
  PROVE  /\ format' = format /\ git' = git
         /\ \/ \E p \in Path : UserEdits(p)
            \/ UserCommits \/ Start \/ Resume \/ Repair \/ Crash \/ FallBack \/ Save
            \/ \E calls \in Batches : CallTools(calls)
            \/ Talks \/ Nudges
            \/ \E p \in Rest : Ends(p)
<1>1. /\ call \in Client!Call /\ stop \in BOOLEAN
      /\ phase # "asking" => call = Client!NoCall
      /\ exec.native \in BOOLEAN
  BY DEF TypeOK, Memory
<1>2. Client!NoCall.phase = "idle"
  BY DEF Client!NoCall
<1>3. UserStops => Talks
  BY <1>1, <1>2 DEF UserStops, Talks, Running
<1>4. Stopped \/ GiveUp => \E p \in Rest : Ends(p)
  BY <1>1 DEF Stopped, GiveUp, Ends, Rest
<1>5. Ask => Talks
  <2> SUFFICES ASSUME Ask PROVE Talks
    OBVIOUS
  <2>1. call' \in Client!Call /\ call'.phase = "sent"
    BY <1>1, Calls DEF Ask
  <2> QED
    BY <1>1, <2>1 DEF Ask, Talks
<1>6. Waiting => Talks
  <2> SUFFICES ASSUME Waiting PROVE Talks
    OBVIOUS
  <2>1. call' \in Client!Call /\ call'.phase # "rejected"
    BY <1>1, Calls DEF Waiting
  <2> QED
    BY <1>1, <2>1 DEF Waiting, Talks
<1>7. ServiceRejectsTools => Talks
  <2> SUFFICES ASSUME ServiceRejectsTools PROVE Talks
    OBVIOUS
  <2>1. call' \in Client!Call
    BY <1>1, Calls DEF ServiceRejectsTools
  <2> QED
    BY <1>1, <2>1 DEF ServiceRejectsTools, Talks
<1>8. ModelFails \/ GivesFiles \/ SaysNothing => \E p \in Rest : Ends(p)
  BY DEF ModelFails, GivesFiles, SaysNothing, Got, Ends, Rest
<1>9. Got("answered") /\ Done => Nudges \/ \E p \in Rest : Ends(p)
  BY DEF Done, Nudge, Nudges, Got, Ends, Rest
<1>10. SaysDone \/ HandsOff => Nudges \/ \E p \in Rest : Ends(p)
  BY <1>9 DEF SaysDone, HandsOff, Got, Ends, Rest
<1> QED
  BY <1>3, <1>4, <1>5, <1>6, <1>7, <1>8, <1>10 DEF Next, LoopStep


-----------------------------------------------------------------------------
(* Types, and what is kept, whatever stops the agent.                      *)

\* The same text can only be written over a text that was there.
SameIsThere == Alive => \A f \in File : box[f] = "same" => base[f] # 0

\* What was changed at the last save is in the checkpoint, if there is one.
KeptSaved == cp.history # <<>> => kept \subseteq cp.files

KeepInv == TypeOK /\ SameIsThere /\ KeptSaved /\ ResumeKeepsWork

\* The round that the tools of an answer make.
Tools(calls) == ExecuteTools([box |-> box, nav |-> exec.nav, saw |-> {},
                              wrote |-> exec.wrote], calls)

LEMMA RoundOutcome ==
  ASSUME TypeOK, SameIsThere, phase = "asking", NEW calls \in Batches
  PROVE  LET e == Tools(calls) IN
         /\ e \in Outcome([box |-> box, nav |-> exec.nav, saw |-> {},
                           wrote |-> exec.wrote])
         /\ [calls |-> calls, saw |-> e.saw] \in Round
<1> DEFINE s == [box |-> box, nav |-> exec.nav, saw |-> {},
                 wrote |-> exec.wrote]
<1>1. /\ base \in [Path -> Version] /\ exec.nav \in SUBSET Doc
      /\ exec.wrote \in BOOLEAN /\ box \in [File -> {"base", "same", "new"}]
  BY DEF TypeOK, Memory
<1>2. s \in Env
  BY <1>1 DEF Env
<1>3. \A f \in File : s.box[f] = "same" => base[f] # 0
  BY DEF SameIsThere, Alive, Running
<1>4. s \in Outcome(s)
  BY <1>2, <1>3 DEF Outcome
<1>5. calls \in Seq(ToolCall)
  BY LoopAssumption
<1>6. Tools(calls) \in Outcome(s)
  <2> HIDE DEF s
  <2>1. ExecuteTools(s, calls) \in Outcome(s)
    BY <1>1, <1>4, <1>5, ToolsOutcome
  <2> QED
    BY <2>1 DEF Tools, s
<1>7. Tools(calls).saw \in SUBSET Observed
  <2> HIDE DEF s
  <2> QED
    BY <1>6 DEF Outcome, Env
<1>8. [calls |-> calls, saw |-> Tools(calls).saw] \in Round
  BY <1>7 DEF Round
<1> QED
  BY <1>6, <1>8

LEMMA NudgeRound == [calls |-> <<>>, saw |-> {}] \in Round
BY DEF Round

LEMMA NoCheckpointType == NoCheckpoint \in Checkpoint
<1>1. <<>> \in History
  BY ConstantsType DEF History
<1>2. [p \in Path |-> 0] \in [Path -> Version]
  BY ConstantsType DEF Version
<1> QED
  BY <1>1, <1>2 DEF NoCheckpoint, Checkpoint

LEMMA KeepInit == Init => KeepInv
<1> SUFFICES ASSUME Init PROVE KeepInv
  OBVIOUS
<1>1. TypeOK
  <2>1. exec \in Memory
    BY FreshType DEF Init
  <2>2. cp \in Checkpoint
    BY NoCheckpointType DEF Init
  <2>3. call \in Client!Call /\ call = Client!NoCall
    BY ConstantsType DEF Init, Client!Call, Client!NoCall
  <2>4. /\ project \in [Path -> Version] /\ base \in [Path -> Version]
        /\ head = project
    BY ConstantsType DEF Init, Version
  <2>5. /\ edits \in 0..MaxEdits /\ phase \in Running \cup Rest
        /\ box \in [File -> {"base", "same", "new"}]
    BY ConstantsType DEF Init, Rest
  <2>6. stop \in BOOLEAN /\ format \in Formats /\ git \in BOOLEAN
    BY DEF Init
  <2>7. seen \subseteq Doc \X Version /\ kept \subseteq File
    BY DEF Init
  <2> QED
    BY <2>1, <2>2, <2>3, <2>4, <2>5, <2>6, <2>7 DEF TypeOK
<1>2. phase = "idle" /\ cp.history = <<>> /\ kept = {}
  BY DEF Init, NoCheckpoint
<1> QED
  BY <1>1, <1>2
     DEF KeepInv, SameIsThere, KeptSaved, ResumeKeepsWork, Alive, Running

\* What a step leaves of the types.
LEMMA TypeStep ==
  ASSUME TypeOK, SameIsThere, Next
  PROVE  TypeOK'
<1> USE ConstantsType
<1>1. /\ project \in [Path -> Version] /\ base \in [Path -> Version]
      /\ head \in [Path -> Version] /\ Source \in [Path -> Version]
      /\ edits \in 0..MaxEdits /\ phase \in Running \cup Rest
      /\ box \in [File -> {"base", "same", "new"}]
      /\ exec \in Memory /\ stop \in BOOLEAN /\ cp \in Checkpoint
      /\ call \in Client!Call /\ format \in Formats
      /\ phase # "asking" => call = Client!NoCall
      /\ seen \subseteq Doc \X Version /\ kept \subseteq File
  BY DEF TypeOK, Source
<1>2. format' \in Formats /\ git' \in BOOLEAN
  BY <1>1, StepKinds DEF TypeOK
<1>3. /\ [p \in Path |-> 0] \in [Path -> Version]
      /\ [f \in File |-> "base"] \in [File -> {"base", "same", "new"}]
      /\ Fresh(TRUE, FALSE) \in Memory
  <2>1. [p \in Path |-> 0] \in [Path -> Version]
    BY DEF Version
  <2>2. Fresh(TRUE, FALSE) \in Memory
    BY FreshType
  <2> QED
    BY <2>1, <2>2
<1>4. Client!NoCall \in Client!Call
  BY <1>1, Calls
<1>5. CASE \E p \in Path : UserEdits(p)
  <2> SUFFICES ASSUME NEW p \in Path, UserEdits(p) PROVE TypeOK'
    BY <1>5
  <2>1. edits' \in 0..MaxEdits /\ edits' + 1 \in Version
    BY <1>1 DEF UserEdits, Version
  <2>2. project' \in [Path -> Version]
    BY <1>1, <2>1 DEF UserEdits
  <2> QED
    BY <1>1, <1>2, <2>1, <2>2 DEF UserEdits, TypeOK, sandbox, ghosts
<1>20. CASE UserCommits
  BY <1>1, <1>2, <1>20 DEF UserCommits, TypeOK, sandbox, ghosts
<1>6. CASE Start
  BY <1>1, <1>2, <1>3, <1>6 DEF Start, TypeOK, disk, Rest, Running
<1>7. CASE Resume
  <2>1. Loaded(TRUE) \in Memory
    BY <1>1, LoadedType
  <2>2. Restored \in [File -> {"base", "same", "new"}]
    BY DEF Restored
  <2> QED
    BY <1>1, <1>2, <1>3, <1>7, <2>1, <2>2
       DEF Resume, Destroyed, TypeOK, disk, ghosts, Rest, Running
<1>8. CASE Repair
  <2>1. Fresh(TRUE, TRUE) \in Memory
    BY FreshType
  <2> QED
    BY <1>1, <1>2, <1>8, <2>1
       DEF Repair, TypeOK, disk, sandbox, ghosts, Rest, Running
<1>9. CASE Crash
  BY <1>1, <1>2, <1>3, <1>4, <1>9
     DEF Crash, Destroyed, TypeOK, disk, ghosts, Rest, Running
<1>10. CASE FallBack
  <2>1. exec.repair \in BOOLEAN
    BY <1>1 DEF Memory
  <2>2. Fresh(FALSE, exec.repair) \in Memory
    BY <2>1, FreshType
  <2>3. [Loaded(FALSE) EXCEPT !.repair = exec.repair] \in Memory
    <3>1. Loaded(FALSE) \in Memory
      BY <1>1, LoadedType
    <3> QED
      BY <2>1, <3>1 DEF Memory
  <2> QED
    BY <1>1, <1>2, <1>4, <1>10, <2>2, <2>3
       DEF FallBack, Got, TypeOK, disk, sandbox, ghosts, Running
<1>11. CASE Save
  <2>1. /\ exec.recent \in History /\ exec.wrote \in BOOLEAN
        /\ Changed \in SUBSET File
    BY <1>1 DEF Memory, Changed
  <2>2. cp' \in Checkpoint
    BY <1>1, <1>11, <2>1 DEF Save, Checkpoint
  <2> QED
    BY <1>1, <1>2, <1>11, <2>1, <2>2 DEF Save, TypeOK, sandbox, Running
<1>12. CASE \E calls \in Batches : CallTools(calls)
  <2> SUFFICES ASSUME NEW calls \in Batches, CallTools(calls) PROVE TypeOK'
    BY <1>12
  <2> DEFINE e == Tools(calls)
             r == [calls |-> calls, saw |-> e.saw]
  <2>1. phase = "asking"
    BY DEF CallTools, Got
  <2>2. e \in Env /\ r \in Round
    BY <2>1, RoundOutcome DEF Outcome
  <2>3. /\ box' = e.box /\ phase' = "saving" /\ call' = Client!NoCall
        /\ exec' = [After(exec, r) EXCEPT !.nav = e.nav, !.wrote = e.wrote]
        /\ seen' = seen \cup {o \in e.saw : o[1] \in Doc}
        /\ UNCHANGED <<disk, base, stop, kept>>
    BY DEF CallTools, Got, Tools
  <2> HIDE DEF r
  <2>4. After(exec, r) \in Memory
    BY <1>1, <2>2, AfterType
  <2> HIDE DEF e
  <2>5. /\ e.box \in [File -> {"base", "same", "new"}]
        /\ e.nav \in SUBSET Doc /\ e.wrote \in BOOLEAN
        /\ e.saw \in SUBSET Observed
    BY <2>2 DEF Env
  <2>6. exec' \in Memory
    BY <2>3, <2>4, <2>5 DEF Memory
  <2>7. seen' \subseteq Doc \X Version
    BY <1>1, <2>3, <2>5 DEF Observed
  <2> QED
    BY <1>1, <1>2, <1>4, <2>3, <2>5, <2>6, <2>7 DEF TypeOK, disk, Running
<1>13. CASE Talks
  BY <1>1, <1>2, <1>13
     DEF Talks, TypeOK, disk, sandbox, ghosts, Running
<1>14. CASE Nudges
  <2>1. After(exec, [calls |-> <<>>, saw |-> {}]) \in Memory
    BY <1>1, NudgeRound, AfterType
  <2>2. exec' \in Memory
    BY <1>14, <2>1 DEF Nudges, Memory
  <2> QED
    BY <1>1, <1>2, <1>4, <1>14, <2>2
       DEF Nudges, TypeOK, disk, sandbox, ghosts, Running
<1>15. CASE \E p \in Rest : Ends(p)
  <2> SUFFICES ASSUME NEW p \in Rest, Ends(p) PROVE TypeOK'
    BY <1>15
  <2>1. cp' \in Checkpoint
    BY <1>1, NoCheckpointType DEF Ends, Finish
  <2> QED
    BY <1>1, <1>2, <1>3, <1>4, <2>1
       DEF Ends, Finish, Destroyed, TypeOK, sandbox, ghosts, Rest
<1> QED
  BY <1>5, <1>6, <1>7, <1>8, <1>9, <1>10, <1>11, <1>12, <1>13, <1>14, <1>15, <1>20,
     StepKinds


\* What the tools of an answer do to the sandbox and to what is known of it.
LEMMA RoundEffect ==
  ASSUME TypeOK, SameIsThere, NEW calls \in Batches, CallTools(calls)
  PROVE  /\ phase = "asking" /\ phase' = "saving" /\ call' = Client!NoCall
         /\ UNCHANGED <<disk, base, stop, kept>> /\ seen \subseteq seen'
         /\ \A f \in File : box[f] # "base" => box'[f] # "base"
         /\ \A f \in File : box'[f] = "same" => base[f] # 0
         /\ \A i \in DOMAIN exec'.recent : \A o \in exec'.recent[i].saw :
              \/ base[o[1]] = o[2] /\ o[2] # 0 /\ (o[1] \in Doc => o \in seen')
              \/ \E j \in DOMAIN exec.recent : o \in exec.recent[j].saw
         /\ \A d \in exec'.nav : d \in exec.nav \/ <<d, base[d]>> \in seen'
         /\ exec'.wrote => exec.wrote \/ \E f \in File : box'[f] # "base"
         /\ \A f \in File : box'[f] # "base" =>
              box[f] # "base" \/ Required(f) \subseteq exec'.nav
<1> DEFINE e == Tools(calls)
           s == [box |-> box, nav |-> exec.nav, saw |-> {},
                 wrote |-> exec.wrote]
           r == [calls |-> calls, saw |-> e.saw]
<1>1. /\ phase = "asking" /\ phase' = "saving" /\ call' = Client!NoCall
      /\ UNCHANGED <<disk, base, stop, kept>>
      /\ box' = e.box
      /\ exec' = [After(exec, r) EXCEPT !.nav = e.nav, !.wrote = e.wrote]
      /\ seen' = seen \cup {o \in e.saw : o[1] \in Doc}
  BY DEF CallTools, Got, Tools
<1>2. e \in Outcome(s) /\ r \in Round /\ r.saw = e.saw
  BY <1>1, RoundOutcome
<1>3. s.box = box /\ s.nav = exec.nav /\ s.wrote = exec.wrote
  OBVIOUS
<1> HIDE DEF e, s, r
<1>4. exec \in Memory /\ exec.recent \in History
  BY DEF TypeOK, Memory
<1>5. /\ exec'.nav = e.nav /\ exec'.wrote = e.wrote
      /\ exec'.recent = Recent(Append(exec.recent, r))
  <2>1. After(exec, r) \in Memory
        /\ After(exec, r).recent = Recent(Append(exec.recent, r))
    BY <1>2, <1>4, AfterType
  <2> QED
    BY <1>1, <2>1 DEF Memory
<1>6. \A i \in DOMAIN exec'.recent : \A o \in exec'.recent[i].saw :
        o \in e.saw \/ \E j \in DOMAIN exec.recent : o \in exec.recent[j].saw
  <2>1. \A i \in DOMAIN exec'.recent :
          exec'.recent[i] = r
          \/ \E j \in DOMAIN exec.recent : exec'.recent[i] = exec.recent[j]
    BY <1>2, <1>4, <1>5, RecentAfter
  <2> QED
    BY <1>2, <2>1
<1>7. \A o \in e.saw : base[o[1]] = o[2] /\ o[2] # 0 /\ (o[1] \in Doc => o \in seen')
  BY <1>1, <1>2 DEF Outcome
<1>8. \A d \in exec'.nav : d \in exec.nav \/ <<d, base[d]>> \in seen'
  <2>1. \A d \in e.nav : d \in exec.nav \/ (d \in Doc /\ <<d, base[d]>> \in e.saw)
    BY <1>2, <1>3 DEF Outcome, Env
  <2> QED
    BY <1>1, <1>5, <2>1
<1>9. /\ \A f \in File : box[f] # "base" => box'[f] # "base"
      /\ \A f \in File : box'[f] = "same" => base[f] # 0
      /\ exec'.wrote => exec.wrote \/ \E f \in File : box'[f] # "base"
      /\ \A f \in File : box'[f] # "base" =>
           box[f] # "base" \/ Required(f) \subseteq exec'.nav
  BY <1>1, <1>2, <1>3, <1>5 DEF Outcome
<1>10. seen \subseteq seen'
  BY <1>1
<1> QED
  BY <1>1, <1>6, <1>7, <1>8, <1>9, <1>10

LEMMA NudgeEffect ==
  ASSUME TypeOK, Nudges
  PROVE  /\ exec'.nav = exec.nav /\ exec'.wrote = exec.wrote
         /\ exec'.recent # <<>> /\ Last(exec'.recent).calls = <<>>
         /\ \A i \in DOMAIN exec'.recent : \A o \in exec'.recent[i].saw :
              \E j \in DOMAIN exec.recent : o \in exec.recent[j].saw
<1> DEFINE r == [calls |-> <<>>, saw |-> {}]
<1>1. exec \in Memory /\ exec.recent \in History
  BY DEF TypeOK, Memory
<1>2. r \in Round /\ r.calls = <<>> /\ r.saw = {}
  BY NudgeRound
<1>3. exec' = [After(exec, r) EXCEPT !.nudged = TRUE]
  BY DEF Nudges
<1> HIDE DEF r
<1>4. /\ After(exec, r) \in Memory
      /\ After(exec, r).recent = Recent(Append(exec.recent, r))
      /\ After(exec, r).nav = exec.nav /\ After(exec, r).wrote = exec.wrote
  BY <1>1, <1>2, AfterType
<1>5. /\ exec'.recent = Recent(Append(exec.recent, r))
      /\ exec'.nav = exec.nav /\ exec'.wrote = exec.wrote
  BY <1>3, <1>4 DEF Memory
<1>6. /\ exec'.recent # <<>> /\ Last(exec'.recent) = r
      /\ \A i \in DOMAIN exec'.recent :
           exec'.recent[i] = r
           \/ \E j \in DOMAIN exec.recent : exec'.recent[i] = exec.recent[j]
  BY <1>1, <1>2, <1>5, RecentAfter
<1> QED
  BY <1>2, <1>5, <1>6

LEMMA KeepStep ==
  ASSUME KeepInv, Next
  PROVE  KeepInv'
<1>1. TypeOK /\ SameIsThere /\ KeptSaved /\ ResumeKeepsWork
  BY DEF KeepInv
<1>2. TypeOK'
  BY <1>1, TypeStep
<1> USE DEF SameIsThere, KeptSaved, ResumeKeepsWork, Alive, Running, Rest
<1>3. SameIsThere' /\ KeptSaved' /\ ResumeKeepsWork'
  <2>1. CASE \E p \in Path : UserEdits(p)
    BY <1>1, <2>1 DEF UserEdits, sandbox, ghosts
  <2>20. CASE UserCommits
    BY <1>1, <2>20 DEF UserCommits, sandbox, ghosts
  <2>2. CASE Start
    BY <1>1, <2>2 DEF Start, disk
  <2>3. CASE Resume
    <3>1. kept \subseteq File
      BY <1>1 DEF TypeOK
    <3>2. CASE Restorable
      <4>1. /\ cp.history # <<>> /\ UNCHANGED <<cp, kept>>
            /\ \A f \in File : box'[f] = IF f \in cp.files THEN "new" ELSE "base"
        BY <2>3, <3>2 DEF Resume, Restored, disk, ghosts
      <4> QED
        BY <1>1, <3>1, <4>1
    <3>3. CASE ~ Restorable
      BY <1>1, <2>3, <3>3 DEF Resume, disk, ghosts
    <3> QED
      BY <3>2, <3>3
  <2>4. CASE Repair
    BY <1>1, <2>4 DEF Repair, disk, sandbox, ghosts
  <2>5. CASE Crash
    BY <1>1, <2>5 DEF Crash, disk, ghosts
  <2>6. CASE FallBack
    BY <1>1, <2>6 DEF FallBack, Got, disk, sandbox, ghosts
  <2>7. CASE Save
    BY <1>1, <2>7 DEF Save, Changed, sandbox
  <2>8. CASE \E calls \in Batches : CallTools(calls)
    <3> SUFFICES ASSUME NEW calls \in Batches, CallTools(calls)
                 PROVE  SameIsThere' /\ KeptSaved' /\ ResumeKeepsWork'
      BY <2>8
    <3>1. /\ phase = "asking" /\ phase' = "saving"
          /\ UNCHANGED <<base, kept, cp>>
          /\ \A f \in File : box[f] # "base" => box'[f] # "base"
          /\ \A f \in File : box'[f] = "same" => base[f] # 0
      BY <1>1, RoundEffect DEF disk
    <3>2. kept \subseteq File
      BY <1>1 DEF TypeOK
    <3> QED
      BY <1>1, <3>1, <3>2
  <2>9. CASE Talks
    BY <1>1, <2>9 DEF Talks, disk, sandbox, ghosts
  <2>10. CASE Nudges
    BY <1>1, <2>10 DEF Nudges, disk, sandbox, ghosts
  <2>11. CASE \E p \in Rest : Ends(p)
    BY <1>1, <2>11 DEF Ends, Finish, NoCheckpoint, sandbox, ghosts
  <2> HIDE DEF SameIsThere, KeptSaved, ResumeKeepsWork
  <2> QED
    BY <1>1, <2>1, <2>2, <2>3, <2>4, <2>5, <2>6, <2>7, <2>8, <2>9, <2>10,
       <2>11, <2>20, StepKinds
<1> HIDE DEF SameIsThere, KeptSaved, ResumeKeepsWork
<1> QED
  BY <1>2, <1>3 DEF KeepInv

LEMMA KeepStutter ==
  ASSUME KeepInv, UNCHANGED vars
  PROVE  KeepInv'
BY DEF KeepInv, TypeOK, SameIsThere, KeptSaved, ResumeKeepsWork, Alive, vars,
       disk, sandbox, ghosts

LEMMA Keeps == Spec => []KeepInv
<1>1. KeepInv /\ [Next]_vars => KeepInv'
  BY KeepStep, KeepStutter
<1> QED
  BY <1>1, KeepInit, PTL DEF Spec

(* The records of the loop, the sandbox and the checkpoint have their      *)
(* types, the counters within the limits of agent_tools.py, in every       *)
(* protocol, however often the task is stopped, crashes and is resumed.    *)
THEOREM AgentTypeCorrect == Spec => []TypeOK
<1>1. KeepInv => TypeOK
  BY DEF KeepInv
<1> QED
  BY <1>1, Keeps, PTL

(* Whatever stopped the agent - the user, a failure, a crash, a service    *)
(* that knows no tools -, it goes on with the files it had written when    *)
(* its last round was saved: restore_checkpoint_sandbox puts them back.    *)
THEOREM WorkSurvives == Spec => []ResumeKeepsWork
<1>1. KeepInv => ResumeKeepsWork
  BY DEF KeepInv
<1> QED
  BY <1>1, Keeps, PTL


-----------------------------------------------------------------------------
(* What the model is shown, and what is believed of an agent that is done. *)
Touched == \E f \in File : box[f] # "base"

\* All that the rounds h have shown was there, and is what b has.
FitTo(h, b) ==
  \A i \in DOMAIN h : \A o \in h[i].saw : b[o[1]] = o[2] /\ o[2] # 0

\* The checkpoint is one of this sandbox.
Fits ==
  /\ FitTo(cp.history, base)
  /\ cp.wrote \/ cp.files # {} => Touched

\* A native execution falls back on the checkpoint: with a round of its own
\* behind it, and not the reminder, the checkpoint is its own.
OwnCheckpoint ==
  phase \in {"turn", "asking"} /\ exec.recent # <<>> /\ ~ JustNudged => Fits

FitInv ==
  /\ phase \in Running => FitTo(exec.recent, base)
  /\ FitTo(cp.history, cp.base)
  /\ OwnCheckpoint
  /\ call.phase = "rejected" => ~ JustNudged
  /\ Alive /\ exec.wrote => Touched
  /\ phase = "done" => Touched

LEMMA HistoryType ==
  ASSUME NEW h \in History, NEW i \in DOMAIN h, NEW o \in h[i].saw
  PROVE  o[1] \in Path /\ o[2] \in Version /\ o = <<o[1], o[2]>>
<1>1. h[i] \in Round
  BY DEF History
<1> QED
  BY <1>1 DEF Round, Observed

LEMMA FitInit == Init => FitInv
<1> SUFFICES ASSUME Init PROVE FitInv
  OBVIOUS
<1>1. phase = "idle" /\ cp.history = <<>>
  BY DEF Init, NoCheckpoint
<1>2. exec.recent = <<>> /\ call.phase = "idle"
  BY FreshType DEF Init, Client!NoCall
<1> QED
  BY <1>1, <1>2 DEF FitInv, FitTo, OwnCheckpoint, Alive, Running

\* A checkpoint that may be resumed fits the sandbox made from it.
LEMMA ResumeFits ==
  ASSUME TypeOK, FitInv, Resume, Restorable
  PROVE  /\ phase' = "turn" /\ base' = Source /\ UNCHANGED <<cp, seen>>
         /\ exec'.recent = cp.history /\ exec'.nav = DocsIn(cp.history)
         /\ exec'.wrote = (cp.files # {} \/ cp.wrote)
         /\ \A f \in File : box'[f] # "base" <=> f \in cp.files
         /\ FitTo(cp.history, base')
         /\ cp.files # {} \/ cp.wrote => Touched'
<1>1. /\ cp \in Checkpoint /\ cp.history \in History /\ cp.files \in SUBSET File
  BY DEF TypeOK, Checkpoint
<1>2. /\ phase' = "turn" /\ base' = Source /\ UNCHANGED <<cp, seen>>
      /\ box' = Restored /\ exec' = Loaded(TRUE)
  BY DEF Resume, disk, ghosts
<1>3. /\ exec'.recent = cp.history /\ exec'.nav = DocsIn(cp.history)
      /\ exec'.wrote = (cp.files # {} \/ cp.wrote)
  BY <1>1, <1>2, LoadedType
<1>4. \A f \in File : box'[f] # "base" <=> f \in cp.files
  BY <1>2 DEF Restored
<1>5. FitTo(cp.history, base')
  <2> SUFFICES ASSUME NEW i \in DOMAIN cp.history, NEW o \in cp.history[i].saw
               PROVE  base'[o[1]] = o[2] /\ o[2] # 0
    BY DEF FitTo
  <2>1. o[1] \in Path
    BY <1>1, HistoryType
  <2>2. cp.base[o[1]] = o[2] /\ o[2] # 0
    BY DEF FitInv, FitTo
  <2> QED
    BY <1>2, <2>1, <2>2 DEF Restorable
<1>6. cp.files # {} \/ cp.wrote => Touched'
  BY <1>1, <1>4 DEF Restorable, Touched
<1> QED
  BY <1>2, <1>3, <1>4, <1>5, <1>6

\* The legacy loop begins with nothing, or with a checkpoint of its sandbox.
LEMMA FallBackFits ==
  ASSUME TypeOK, FitInv, FallBack
  PROVE  /\ phase = "asking" /\ phase' = "turn"
         /\ UNCHANGED <<disk, sandbox, ghosts>>
         /\ \/ exec'.recent = <<>> /\ exec'.nav = {} /\ ~ exec'.wrote
            \/ /\ Fits
               /\ exec'.recent = cp.history /\ exec'.nav = DocsIn(cp.history)
               /\ exec'.wrote = (cp.files # {} \/ cp.wrote)
<1>1. /\ cp \in Checkpoint /\ exec \in Memory /\ exec.repair \in BOOLEAN
  BY DEF TypeOK, Memory
<1>2. /\ phase = "asking" /\ phase' = "turn" /\ call.phase = "rejected"
      /\ UNCHANGED <<disk, sandbox, ghosts>>
      /\ exec' = IF exec.recent = <<>>
                   THEN Fresh(FALSE, exec.repair)
                   ELSE [Loaded(FALSE) EXCEPT !.repair = exec.repair]
  BY DEF FallBack, Got
<1>3. CASE exec.recent = <<>>
  <2>1. exec' = Fresh(FALSE, exec.repair)
    BY <1>2, <1>3
  <2> QED
    BY <1>1, <1>2, <2>1, FreshType
<1>4. CASE exec.recent # <<>>
  <2>1. Fits
    BY <1>2, <1>4 DEF FitInv, OwnCheckpoint
  <2>2. /\ Loaded(FALSE) \in Memory /\ Loaded(FALSE).recent = cp.history
        /\ Loaded(FALSE).nav = DocsIn(cp.history)
        /\ Loaded(FALSE).wrote = (cp.files # {} \/ cp.wrote)
    BY <1>1, LoadedType
  <2>3. exec' = [Loaded(FALSE) EXCEPT !.repair = exec.repair]
    BY <1>2, <1>4
  <2>4. /\ exec'.recent = cp.history /\ exec'.nav = DocsIn(cp.history)
        /\ exec'.wrote = (cp.files # {} \/ cp.wrote)
    BY <2>2, <2>3 DEF Memory
  <2> QED
    BY <1>2, <2>1, <2>4
<1> QED
  BY <1>3, <1>4


LEMMA FitStep ==
  ASSUME Steady, KeepInv, FitInv, Next
  PROVE  FitInv'
<1>1. TypeOK /\ SameIsThere /\ TypeOK'
  BY TypeStep DEF KeepInv
<1>2. phase' # "asking" => call'.phase = "idle"
  BY <1>1 DEF TypeOK, Client!NoCall
<1> USE DEF Alive, Running, Rest
<1>3. CASE \E p \in Path : UserEdits(p)
  BY <1>3 DEF UserEdits, sandbox, ghosts, FitInv, FitTo, OwnCheckpoint, Fits,
              Touched, JustNudged
<1>20. CASE UserCommits
  BY <1>20 DEF UserCommits, sandbox, ghosts, FitInv, FitTo, OwnCheckpoint,
               Fits, Touched, JustNudged
<1>4. CASE Start
  <2>1. /\ phase' = "turn" /\ UNCHANGED cp
        /\ exec'.recent = <<>> /\ ~ exec'.wrote
    BY <1>4, FreshType DEF Start, disk
  <2> QED
    BY <1>2, <2>1 DEF FitInv, FitTo, OwnCheckpoint
<1>5. CASE Resume /\ Restorable
  <2>1. /\ phase' = "turn" /\ UNCHANGED cp /\ exec'.recent = cp.history
        /\ exec'.wrote = (cp.files # {} \/ cp.wrote)
        /\ FitTo(cp.history, base')
        /\ cp.files # {} \/ cp.wrote => Touched'
    BY <1>1, <1>5, ResumeFits
  <2>2. FitTo(exec'.recent, base') /\ FitTo(cp'.history, cp'.base)
    BY <2>1 DEF FitInv
  <2>3. Fits'
    BY <2>1 DEF Fits
  <2> QED
    BY <1>2, <2>1, <2>2, <2>3 DEF FitInv, OwnCheckpoint
<1>6. CASE Resume /\ ~ Restorable
  BY <1>2, <1>6 DEF Resume, FitInv, FitTo, OwnCheckpoint, disk
<1>7. CASE Repair
  <2>1. /\ phase' = "turn" /\ UNCHANGED <<cp, base, box>>
        /\ exec'.recent = <<>> /\ ~ exec'.wrote
    BY <1>7, FreshType DEF Repair, disk, sandbox
  <2> QED
    BY <1>2, <2>1 DEF FitInv, FitTo, OwnCheckpoint
<1>8. CASE Crash
  BY <1>2, <1>8 DEF Crash, FitInv, FitTo, OwnCheckpoint, disk
<1>9. CASE FallBack
  <2>1. /\ phase = "asking" /\ phase' = "turn" /\ UNCHANGED <<cp, base, box>>
        /\ \/ exec'.recent = <<>> /\ ~ exec'.wrote
           \/ /\ Fits /\ exec'.recent = cp.history
              /\ exec'.wrote = (cp.files # {} \/ cp.wrote)
    BY <1>1, <1>9, FallBackFits DEF disk, sandbox
  <2>2. Touched' = Touched /\ Fits' = Fits
    BY <2>1 DEF Touched, Fits
  <2>3. FitTo(cp'.history, cp'.base)
    BY <2>1 DEF FitInv
  <2>4. CASE exec'.recent = <<>> /\ ~ exec'.wrote
    BY <1>2, <2>1, <2>3, <2>4 DEF FitInv, FitTo, OwnCheckpoint
  <2>5. CASE /\ Fits /\ exec'.recent = cp.history
             /\ exec'.wrote = (cp.files # {} \/ cp.wrote)
    <3>1. FitTo(exec'.recent, base') /\ (exec'.wrote => Touched')
      BY <2>1, <2>2, <2>5 DEF Fits
    <3> QED
      BY <1>2, <2>1, <2>2, <2>3, <2>5, <3>1 DEF FitInv, OwnCheckpoint
  <2> QED
    BY <2>1, <2>4, <2>5
<1>10. CASE Save
  <2>1. /\ phase = "saving" /\ phase' = "turn" /\ UNCHANGED <<base, box, exec>>
        /\ cp'.history = exec.recent /\ cp'.wrote = exec.wrote
        /\ cp'.files = Changed /\ cp'.base = base
    BY <1>10 DEF Save, sandbox
  <2>2. FitTo(exec.recent, base) /\ (exec.wrote => Touched)
    BY <2>1 DEF FitInv
  <2>3. Changed # {} => Touched
    BY DEF Changed, Touched
  <2>4. Touched' = Touched
    BY <2>1 DEF Touched
  <2>5. Fits'
    BY <2>1, <2>2, <2>3, <2>4 DEF Fits
  <2> QED
    BY <1>2, <2>1, <2>2, <2>4, <2>5 DEF FitInv, OwnCheckpoint
<1>11. CASE \E calls \in Batches : CallTools(calls)
  <2> SUFFICES ASSUME NEW calls \in Batches, CallTools(calls) PROVE FitInv'
    BY <1>11
  <2>1. /\ phase = "asking" /\ phase' = "saving" /\ UNCHANGED <<cp, base>>
        /\ \A f \in File : box[f] # "base" => box'[f] # "base"
        /\ \A i \in DOMAIN exec'.recent : \A o \in exec'.recent[i].saw :
             \/ base[o[1]] = o[2] /\ o[2] # 0
             \/ \E j \in DOMAIN exec.recent : o \in exec.recent[j].saw
        /\ exec'.wrote => exec.wrote \/ \E f \in File : box'[f] # "base"
    BY <1>1, RoundEffect DEF disk
  <2>2. FitTo(exec'.recent, base')
    BY <2>1 DEF FitInv, FitTo
  <2>3. exec'.wrote => Touched'
    BY <2>1 DEF FitInv, Touched
  <2> QED
    BY <1>2, <2>1, <2>2, <2>3 DEF FitInv, OwnCheckpoint
<1>12. CASE Talks
  <2>1. /\ UNCHANGED <<cp, base, box, exec>>
        /\ phase' = phase \/ (phase = "turn" /\ phase' = "asking")
        /\ call'.phase = "rejected" => call.phase = "rejected" \/ ~ JustNudged
    BY <1>12 DEF Talks, disk, sandbox
  <2>2. /\ Touched' = Touched /\ Fits' = Fits /\ JustNudged' = JustNudged
    BY <2>1 DEF Touched, Fits, JustNudged
  <2> QED
    BY <2>1, <2>2 DEF FitInv, OwnCheckpoint
<1>13. CASE Nudges
  <2>1. /\ phase = "asking" /\ phase' = "turn" /\ UNCHANGED <<cp, base, box>>
    BY <1>13 DEF Nudges, disk, sandbox
  <2>2. /\ exec'.wrote = exec.wrote /\ JustNudged'
        /\ \A i \in DOMAIN exec'.recent : \A o \in exec'.recent[i].saw :
              \E j \in DOMAIN exec.recent : o \in exec.recent[j].saw
    BY <1>1, <1>13, NudgeEffect DEF JustNudged
  <2>3. FitTo(exec'.recent, base')
    BY <2>1, <2>2 DEF FitInv, FitTo
  <2>4. Touched' = Touched
    BY <2>1 DEF Touched
  <2> QED
    BY <1>2, <2>1, <2>2, <2>3, <2>4 DEF FitInv, OwnCheckpoint
<1>14. CASE \E p \in Rest : Ends(p)
  <2> SUFFICES ASSUME NEW p \in Rest, Ends(p) PROVE FitInv'
    BY <1>14
  <2>1. /\ phase \in {"turn", "asking"} /\ phase' = p
        /\ cp' = cp \/ cp' = NoCheckpoint
        /\ p = "done" => exec.wrote /\ UNCHANGED <<box, exec>>
    BY DEF Ends, Finish, sandbox
  <2>2. FitTo(cp'.history, cp'.base)
    BY <2>1 DEF FitInv, FitTo, NoCheckpoint
  <2>3. p = "done" => Touched'
    BY <2>1 DEF FitInv, Touched
  <2> QED
    BY <1>2, <2>1, <2>2, <2>3 DEF FitInv, OwnCheckpoint
<1> QED
  BY <1>1, <1>3, <1>4, <1>5, <1>6, <1>7, <1>8, <1>9, <1>10, <1>11, <1>12,
     <1>13, <1>14, <1>20, StepKinds

LEMMA FitStutter ==
  ASSUME FitInv, UNCHANGED vars
  PROVE  FitInv'
BY DEF FitInv, FitTo, OwnCheckpoint, Fits, Touched, JustNudged, Alive, vars,
       disk, sandbox, ghosts

LEMMA FitHolds ==
  ASSUME Steady
  PROVE  Spec => [](KeepInv /\ FitInv)
<1>1. Init => KeepInv /\ FitInv
  BY KeepInit, FitInit
<1>2. KeepInv /\ FitInv /\ [Next]_vars => (KeepInv /\ FitInv)'
  BY KeepStep, KeepStutter, FitStep, FitStutter
<1> QED
  BY <1>1, <1>2, PTL DEF Spec

(* With a service that keeps to the protocol it has once taken: an agent   *)
(* whose word is believed has put something into the sandbox, though       *)
(* "wrote" is taken from a checkpoint after a resume and after a change of *)
(* the protocol.                                                           *)
THEOREM BelievedAgentsHaveWritten ==
  ASSUME Steady
  PROVE  Spec => []DoneMeansWritten
<1>1. FitInv => DoneMeansWritten
  BY DEF FitInv, DoneMeansWritten, Touched
<1> QED
  BY <1>1, FitHolds, PTL

(* With such a service nobody goes on from rounds that show another        *)
(* version than the sandbox has: the digests of the checkpoint are         *)
(* compared with what the new sandbox is made from, the project or, in a   *)
(* git repository, its HEAD (where edits nobody committed are not seen),   *)
(* and the legacy loop replays the checkpoint of its own sandbox.          *)
THEOREM ReadsAreOfTheSandbox ==
  ASSUME Steady
  PROVE  Spec => []NoStaleReads
<1>1. FitInv => NoStaleReads
  BY DEF FitInv, NoStaleReads, FitTo
<1> QED
  BY <1>1, FitHolds, PTL


-----------------------------------------------------------------------------
(* Nothing is written unread.                                              *)

\* Every directory is documented from the start: a document the user adds
\* between a checkpoint and its resumption has been read by nobody.
Documented == Doc \cap Missing = {}

SeenIn(h) == \A i \in DOMAIN h : \A o \in h[i].saw : o[1] \in Doc => o \in seen

InformedInv ==
  /\ \A d \in Doc : project[d] # 0 /\ head[d] # 0
  /\ cp.history # <<>> => \A d \in Doc : cp.base[d] # 0
  /\ phase \in Running => SeenIn(exec.recent)
  /\ SeenIn(cp.history)
  /\ Alive => \A d \in Doc : base[d] # 0
  /\ Alive => \A d \in exec.nav : <<d, base[d]>> \in seen
  /\ cp.history # <<>> =>
       \A f \in cp.files : \A d \in Chain[f] : <<d, cp.base[d]>> \in seen
  /\ WritesAreInformed

LEMMA RequiredType ==
  ASSUME NEW f \in File
  PROVE  /\ Required(f) \subseteq Doc /\ Required(f) \subseteq Chain[f]
         /\ Chain[f] \subseteq Doc /\ Doc \subseteq Path
BY LoopAssumption DEF Required, Path

LEMMA DocsOfRounds ==
  ASSUME NEW h \in History, NEW b, FitTo(h, b), SeenIn(h), NEW d \in DocsIn(h)
  PROVE  d \in Doc /\ <<d, b[d]>> \in seen
<1>1. d \in Doc /\ \E i \in DOMAIN h : \E o \in h[i].saw : o[1] = d
  BY DEF DocsIn
<1>2. PICK i \in DOMAIN h : \E o \in h[i].saw : o[1] = d
  BY <1>1
<1>3. PICK o \in h[i].saw : o[1] = d
  BY <1>2
<1>4. o = <<o[1], o[2]>>
  BY HistoryType
<1> QED
  BY <1>1, <1>3, <1>4 DEF FitTo, SeenIn

LEMMA InformedInit ==
  ASSUME Documented
  PROVE  Init => InformedInv
<1> SUFFICES ASSUME Init PROVE InformedInv
  OBVIOUS
<1>1. phase = "idle" /\ cp.history = <<>>
  BY DEF Init, NoCheckpoint
<1>2. \A d \in Doc : project[d] # 0 /\ head[d] # 0
  BY DEF Init, Documented, Path
<1> QED
  BY <1>1, <1>2 DEF InformedInv, SeenIn, WritesAreInformed, Alive, Running

LEMMA InformedStep ==
  ASSUME Steady, KeepInv, FitInv, InformedInv, Next
  PROVE  InformedInv'
<1>1. /\ TypeOK /\ SameIsThere /\ cp.history \in History /\ exec \in Memory
      /\ cp.files \in SUBSET File /\ exec.nav \in SUBSET Doc
  BY DEF KeepInv, TypeOK, Checkpoint, Memory
<1> USE DEF Alive, Running, Rest
<1>2. CASE \E p \in Path : UserEdits(p)
  <2> SUFFICES ASSUME NEW p \in Path, UserEdits(p) PROVE InformedInv'
    BY <1>2
  <2>1. /\ project' = [project EXCEPT ![p] = edits' + 1] /\ edits' = edits + 1
        /\ UNCHANGED <<head, cp, phase, base, box, exec, seen>>
    BY DEF UserEdits, sandbox, ghosts
  <2>2. project \in [Path -> Version] /\ edits \in Nat
    BY <1>1, ConstantsType DEF TypeOK
  <2>3. \A d \in Doc : project'[d] # 0
    BY <2>1, <2>2 DEF InformedInv, Path
  <2> QED
    BY <2>1, <2>3 DEF InformedInv, SeenIn, WritesAreInformed, Required
<1>20. CASE UserCommits
  <2>1. /\ UNCHANGED <<project, cp, phase, base, box, exec, seen>>
        /\ head' = project
    BY <1>20 DEF UserCommits, sandbox, ghosts
  <2> QED
    BY <2>1 DEF InformedInv, SeenIn, WritesAreInformed, Required
<1>21. \A d \in Doc : Source[d] # 0
  BY DEF InformedInv, Source
<1>3. CASE Start
  <2>1. /\ phase' = "turn" /\ UNCHANGED <<cp, project, head, seen>>
        /\ base' = Source /\ exec'.recent = <<>> /\ exec'.nav = {}
        /\ \A f \in File : box'[f] = "base"
    BY <1>3, FreshType DEF Start, disk
  <2> QED
    BY <1>21, <2>1 DEF InformedInv, SeenIn, WritesAreInformed
<1>4. CASE Resume /\ Restorable
  <2>1. /\ phase' = "turn" /\ base' = Source
        /\ UNCHANGED <<cp, project, head, seen>>
        /\ exec'.recent = cp.history /\ exec'.nav = DocsIn(cp.history)
        /\ \A f \in File : box'[f] # "base" <=> f \in cp.files
        /\ FitTo(cp.history, base') /\ cp.history # <<>>
    BY <1>1, <1>4, ResumeFits DEF Resume, disk
  <2>2. SeenIn(cp.history)
    BY DEF InformedInv
  <2>3. \A d \in exec'.nav : <<d, base'[d]>> \in seen
    BY <1>1, <2>1, <2>2, DocsOfRounds
  <2>4. \A d \in Doc : cp.base[d] = base'[d]
    <3>1. Doc \subseteq Path
      BY DEF Path
    <3> QED
      BY <1>4, <2>1, <3>1 DEF InformedInv, Restorable
  <2>5. \A f \in File : box'[f] # "base" =>
          \A d \in Chain[f] : <<d, base'[d]>> \in seen
    BY <2>1, <2>4, RequiredType DEF InformedInv
  <2>6. WritesAreInformed'
    BY <2>1, <2>5 DEF WritesAreInformed, Required
  <2> QED
    BY <1>21, <2>1, <2>2, <2>3, <2>6 DEF InformedInv, SeenIn
<1>5. CASE Resume /\ ~ Restorable
  BY <1>5 DEF Resume, InformedInv, SeenIn, WritesAreInformed, disk, ghosts
<1>6. CASE Repair
  <2>1. /\ phase = "done" /\ phase' = "turn"
        /\ UNCHANGED <<project, head, cp, base, box, seen>>
        /\ exec'.recent = <<>> /\ exec'.nav = {}
    BY <1>6, FreshType DEF Repair, disk, sandbox, ghosts
  <2> QED
    BY <2>1 DEF InformedInv, SeenIn, WritesAreInformed, Required
<1>7. CASE Crash
  BY <1>7 DEF Crash, InformedInv, SeenIn, WritesAreInformed, disk, ghosts
<1>8. CASE FallBack
  <2>1. /\ phase = "asking" /\ phase' = "turn"
        /\ UNCHANGED <<project, head, cp, base, box, seen>>
        /\ \/ exec'.recent = <<>> /\ exec'.nav = {}
           \/ /\ Fits /\ exec'.recent = cp.history
              /\ exec'.nav = DocsIn(cp.history)
    BY <1>1, <1>8, FallBackFits DEF disk, sandbox, ghosts
  <2>2. SeenIn(cp.history)
    BY DEF InformedInv
  <2>3. SeenIn(exec'.recent)
    BY <2>1, <2>2 DEF SeenIn
  <2>4. \A d \in exec'.nav : <<d, base[d]>> \in seen
    BY <1>1, <2>1, <2>2, DocsOfRounds DEF Fits
  <2> QED
    BY <2>1, <2>3, <2>4 DEF InformedInv, SeenIn, WritesAreInformed, Required
<1>9. CASE Save
  <2>1. /\ phase = "saving" /\ phase' = "turn"
        /\ UNCHANGED <<project, head, base, box, exec, seen>>
        /\ cp'.history = exec.recent /\ cp'.base = base
        /\ cp'.files = Changed
    BY <1>9 DEF Save, sandbox
  <2>2. \A f \in Changed : f \in File /\ box[f] # "base"
    BY DEF Changed
  <2>3. \A f \in Changed : \A d \in Chain[f] : <<d, base[d]>> \in seen
    <3> SUFFICES ASSUME NEW f \in Changed, NEW d \in Chain[f]
                 PROVE  <<d, base[d]>> \in seen
      OBVIOUS
    <3>1. d \in Required(f)
      BY <2>1, <2>2, RequiredType DEF InformedInv, Required
    <3> QED
      BY <2>1, <2>2, <3>1 DEF InformedInv, WritesAreInformed
  <2> QED
    BY <2>1, <2>3 DEF InformedInv, SeenIn, WritesAreInformed, Required
<1>10. CASE \E calls \in Batches : CallTools(calls)
  <2> SUFFICES ASSUME NEW calls \in Batches, CallTools(calls) PROVE InformedInv'
    BY <1>10
  <2>1. /\ phase = "asking" /\ phase' = "saving"
        /\ UNCHANGED <<project, head, cp, base>>
        /\ seen \subseteq seen'
        /\ \A i \in DOMAIN exec'.recent : \A o \in exec'.recent[i].saw :
             \/ o[1] \in Doc => o \in seen'
             \/ \E j \in DOMAIN exec.recent : o \in exec.recent[j].saw
        /\ \A d \in exec'.nav : d \in exec.nav \/ <<d, base[d]>> \in seen'
        /\ \A f \in File : box'[f] # "base" =>
              box[f] # "base" \/ Required(f) \subseteq exec'.nav
    BY <1>1, RoundEffect DEF disk
  <2>2. \A i \in DOMAIN exec'.recent : \A o \in exec'.recent[i].saw :
          o[1] \in Doc => o \in seen'
    BY <2>1 DEF InformedInv, SeenIn
  <2>3. \A d \in exec'.nav : <<d, base[d]>> \in seen'
    BY <2>1 DEF InformedInv
  <2>4. WritesAreInformed'
    <3> SUFFICES ASSUME NEW f \in File, box'[f] # "base", NEW d \in Required(f)
                 PROVE  <<d, base[d]>> \in seen'
      BY <2>1 DEF WritesAreInformed, Required
    <3> QED
      BY <2>1, <2>3 DEF InformedInv, WritesAreInformed
  <2>5. \A i \in DOMAIN cp.history : \A o \in cp.history[i].saw :
          o[1] \in Doc => o \in seen'
    BY <2>1 DEF InformedInv, SeenIn
  <2>6. cp.history # <<>> =>
          \A f \in cp.files : \A d \in Chain[f] : <<d, cp.base[d]>> \in seen'
    BY <2>1 DEF InformedInv
  <2> QED
    BY <2>1, <2>2, <2>3, <2>4, <2>5, <2>6 DEF InformedInv, SeenIn
<1>11. CASE Talks
  <2>1. /\ UNCHANGED <<project, head, cp, base, box, exec, seen>>
        /\ phase' = phase \/ (phase = "turn" /\ phase' = "asking")
    BY <1>11 DEF Talks, disk, sandbox, ghosts
  <2> QED
    BY <2>1 DEF InformedInv, SeenIn, WritesAreInformed, Required
<1>12. CASE Nudges
  <2>1. /\ phase = "asking" /\ phase' = "turn"
        /\ UNCHANGED <<project, head, cp, base, box, seen>>
    BY <1>12 DEF Nudges, disk, sandbox, ghosts
  <2>2. /\ exec'.nav = exec.nav
        /\ \A i \in DOMAIN exec'.recent : \A o \in exec'.recent[i].saw :
              \E j \in DOMAIN exec.recent : o \in exec.recent[j].saw
    BY <1>1, <1>12, NudgeEffect
  <2>3. SeenIn(exec'.recent)
    BY <2>1, <2>2 DEF InformedInv, SeenIn
  <2> QED
    BY <2>1, <2>2, <2>3 DEF InformedInv, SeenIn, WritesAreInformed, Required
<1>13. CASE \E p \in Rest : Ends(p)
  <2> SUFFICES ASSUME NEW p \in Rest, Ends(p) PROVE InformedInv'
    BY <1>13
  <2>1. /\ phase \in {"turn", "asking"} /\ phase' = p
        /\ UNCHANGED <<project, head, seen>>
        /\ cp' = cp \/ cp' = NoCheckpoint
        /\ p = "done" => UNCHANGED <<base, box, exec>>
    BY DEF Ends, Finish, sandbox, ghosts
  <2>2. /\ SeenIn(cp'.history)
        /\ cp'.history # <<>> => cp' = cp
    BY <2>1 DEF InformedInv, SeenIn, NoCheckpoint
  <2>3. CASE p = "done"
    BY <2>1, <2>2, <2>3 DEF InformedInv, SeenIn, WritesAreInformed, Required
  <2>4. CASE p # "done"
    BY <2>1, <2>2, <2>4 DEF InformedInv, SeenIn, WritesAreInformed
  <2> QED
    BY <2>3, <2>4
<1> QED
  BY <1>1, <1>2, <1>3, <1>4, <1>5, <1>6, <1>7, <1>8, <1>9, <1>10, <1>11,
     <1>12, <1>13, <1>20, StepKinds

LEMMA InformedStutter ==
  ASSUME InformedInv, UNCHANGED vars
  PROVE  InformedInv'
BY DEF InformedInv, SeenIn, WritesAreInformed, Required, Alive, vars, disk,
       sandbox, ghosts

(* Where every directory has its document, and with such a service, every  *)
(* source in the sandbox was written by an agent that had read the         *)
(* documents above it (_ensure_navigation_read), in the versions the       *)
(* sandbox holds: after a resume and a change of the protocol too.         *)
THEOREM NothingIsWrittenUnread ==
  ASSUME Steady, Documented
  PROVE  Spec => []WritesAreInformed
<1>1. Init => KeepInv /\ FitInv /\ InformedInv
  BY KeepInit, FitInit, InformedInit
<1>2. KeepInv /\ FitInv /\ InformedInv /\ [Next]_vars
        => (KeepInv /\ FitInv /\ InformedInv)'
  BY KeepStep, KeepStutter, FitStep, FitStutter, InformedStep, InformedStutter
<1>3. InformedInv => WritesAreInformed
  BY DEF InformedInv
<1> QED
  BY <1>1, <1>2, <1>3, PTL DEF Spec
=============================================================================
