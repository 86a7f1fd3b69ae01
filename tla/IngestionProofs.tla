-------------------------- MODULE IngestionProofs --------------------------
(***************************************************************************)
(* The ingestion task and the process around it, for every source, every   *)
(* window and every length of the restart ladder.                          *)
(***************************************************************************)
EXTENDS Lifecycle, ChainLemmas

-----------------------------------------------------------------------------
(* get_fork_base.                                                          *)

(* A non-empty set of naturals with an upper bound has a greatest element, *)
(* and Max is it.                                                          *)
LEMMA MaxOfBounded ==
  ASSUME NEW n \in Nat, NEW S \in SUBSET (0 .. n), S # {}
  PROVE  Max(S) \in S /\ \A y \in S : y <= Max(S)
<1> DEFINE Bounded == {m \in Nat : \A T \in SUBSET (0 .. m) :
                         T # {} => \E x \in T : \A y \in T : x >= y}
<1>1. 0 \in Bounded
  <2> SUFFICES ASSUME NEW T \in SUBSET (0 .. 0), T # {}
               PROVE  \E x \in T : \A y \in T : x >= y
    OBVIOUS
  <2>1. \A y \in T : y = 0
    OBVIOUS
  <2>2. 0 \in T
    BY <2>1
  <2> QED BY <2>1, <2>2
<1>2. ASSUME NEW m \in Nat, m \in Bounded PROVE m + 1 \in Bounded
  <2> SUFFICES ASSUME NEW T \in SUBSET (0 .. m + 1), T # {}
               PROVE  \E x \in T : \A y \in T : x >= y
    OBVIOUS
  <2>1. CASE m + 1 \in T
    BY <2>1
  <2>2. CASE m + 1 \notin T
    <3>1. T \in SUBSET (0 .. m)
      BY <2>2
    <3> QED BY <1>2, <3>1
  <2> QED BY <2>1, <2>2
<1>3. n \in Bounded
  <2> HIDE DEF Bounded
  <2> QED BY <1>1, <1>2, SetInduction
<1>4. \E x \in S : \A y \in S : x >= y
  BY <1>3
<1>5. Max(S) \in S /\ \A y \in S : Max(S) >= y
  BY <1>4 DEF Max
<1> QED BY <1>5

(* What popping leaves: the last of the first k refs not above height n.   *)
LEMMA PopAboveIs ==
  ASSUME NEW prev \in Seq(BlockRef), NEW k \in 0 .. Len(prev), NEW n \in Nat
  PROVE  LET fh == PopAbove(prev, k, n)
         IN  /\ fh \in 0 .. k
             /\ fh # 0 => prev[fh].number <= n
             /\ \A j \in fh + 1 .. k : prev[j].number > n
<1> DEFINE fh == PopAbove(prev, k, n)
           S == {0} \cup {j \in 1 .. k : prev[j].number <= n}
<1>0. k \in Nat /\ Len(prev) \in Nat /\ \A j \in 1 .. k : prev[j].number \in Nat
  <2>1. k \in Nat /\ Len(prev) \in Nat /\ \A j \in 1 .. k : prev[j] \in BlockRef
    OBVIOUS
  <2> QED BY <2>1 DEF BlockRef
<1>1. S \in SUBSET (0 .. k) /\ S # {}
  BY <1>0
<1>2. fh = Max(S)
  BY DEF PopAbove
<1>3. fh \in S /\ \A y \in S : y <= fh
  <2> HIDE DEF S, fh
  <2> QED BY <1>0, <1>1, <1>2, MaxOfBounded
<1> HIDE DEF fh
<1>4. \A j \in fh + 1 .. k : prev[j].number > n
  <2> TAKE j \in fh + 1 .. k
  <2>1. j \in 1 .. k /\ j > fh
    BY <1>0, <1>3
  <2> QED BY <1>0, <1>3, <2>1
<1> QED BY <1>0, <1>3, <1>4 DEF fh

(* One step of the walk: what is returned at position top with the first k *)
(* refs left, when `below` is the walk one position further down.          *)
WalkStep(c, prev, top, below) ==
  [k \in 0 .. Len(prev) |->
     IF top < ForkFloor(c) THEN NoRef
     ELSE LET head == Ref(c.blocks[top])
              fh   == PopAbove(prev, k, head.number)
          IN  IF fh = 0 \/ prev[fh] = head THEN head ELSE below[fh]]

(* The walk of get_fork_base exists and is computed step by step.          *)
LEMMA WalkUnfolds ==
  ASSUME NEW c, WellFormedChain(c), NEW prev \in Seq(BlockRef)
  PROVE  \E walk : /\ \A top \in 0 .. Len(c.blocks) :
                        walk[top] = WalkStep(c, prev, top, walk[top - 1])
                   /\ GetForkBase(c, prev) = walk[Len(c.blocks)][Len(prev)]
<1> DEFINE N == Len(c.blocks)
           Is(f, n) == f = [top \in 0 .. n |-> WalkStep(c, prev, top, f[top - 1])]
           Good == {n \in Nat : \E f : Is(f, n)}
<1>0. N \in Nat
  BY ChainFields DEF WellFormedChain
<1>1. ForkFloor(c) \in Nat /\ ForkFloor(c) >= 1
  BY ChainFields DEF WellFormedChain, ForkFloor
<1>2. ASSUME NEW b1, NEW b2, NEW top \in Nat, top >= ForkFloor(c) => b1 = b2
      PROVE  WalkStep(c, prev, top, b1) = WalkStep(c, prev, top, b2)
  <2>1. CASE top < ForkFloor(c)
    BY <2>1 DEF WalkStep
  <2>2. CASE ~(top < ForkFloor(c))
    BY <1>1, <1>2, <2>2
  <2> QED BY <2>1, <2>2
<1>3. 0 \in Good
  <2> DEFINE f == [top \in 0 .. 0 |-> WalkStep(c, prev, top, << >>)]
  <2>1. \A top \in 0 .. 0 : WalkStep(c, prev, top, << >>) = WalkStep(c, prev, top, f[top - 1])
    BY <1>1, <1>2
  <2>2. Is(f, 0)
    BY <2>1
  <2> QED BY <2>2
<1>4. ASSUME NEW n \in Nat, n \in Good PROVE n + 1 \in Good
  <2>1. PICK f : Is(f, n)
    BY <1>4
  <2> DEFINE g == [top \in 0 .. n + 1 |-> WalkStep(c, prev, top, f[top - 1])]
  <2>2. \A top \in 0 .. n : f[top] = WalkStep(c, prev, top, f[top - 1])
    BY <2>1
  <2>3. \A top \in 0 .. n : g[top] = f[top]
    BY <2>2
  <2>4. ASSUME NEW top \in 0 .. n + 1
        PROVE  WalkStep(c, prev, top, f[top - 1]) = WalkStep(c, prev, top, g[top - 1])
    <3>1. top >= ForkFloor(c) => top - 1 \in 0 .. n
      BY <1>1
    <3>2. top >= ForkFloor(c) => f[top - 1] = g[top - 1]
      BY <2>3, <3>1
    <3> HIDE DEF g
    <3> QED BY <1>2, <3>2
  <2>5. Is(g, n + 1)
    <3> DEFINE h == [top \in 0 .. n + 1 |-> WalkStep(c, prev, top, g[top - 1])]
    <3>1. g = h
      BY <2>4
    <3> QED BY <3>1
  <2>6. n + 1 \in Nat
    OBVIOUS
  <2> HIDE DEF Is, g
  <2> QED BY <2>5, <2>6
<1>5. \E f : Is(f, N)
  <2>1. N \in Good
    <3> HIDE DEF Good, N
    <3> QED BY <1>0, <1>3, <1>4, SetInduction
  <2> QED BY <2>1
<1> DEFINE walk == CHOOSE f : Is(f, N)
<1>6. Is(walk, N)
  BY <1>5
<1>7. GetForkBase(c, prev) = walk[N][Len(prev)]
  BY DEF GetForkBase, WalkStep
<1> HIDE DEF walk
<1>8. \A top \in 0 .. N : walk[top] = WalkStep(c, prev, top, walk[top - 1])
  BY <1>6
<1> QED BY <1>7, <1>8

(* WP-10 for every well-formed buffer and every ascending fork signal: the *)
(* walk that pops refs and descends blocks finds the newest signalled      *)
(* block, else the newest below every ref, else that there is none.        *)
THEOREM WalkFindsTarget ==
  ASSUME NEW c, WellFormedChain(c), NEW prev \in Seq(BlockRef), AscendingRefs(prev)
  PROVE  GetForkBase(c, prev) = RebaseTarget(c, prev)
<1> DEFINE bs == c.blocks
           N == Len(bs)
           M == Len(prev)
           fl == c.finalized_head
           target == RebaseTarget(c, prev)
           Chosen(i) == bs[i] \in Signalled(c, prev) \/ bs[i] \in BelowEveryRef(c, prev)
           Settled(top, k) == /\ \A i \in 1 .. top : \A j \in k + 1 .. M : prev[j].number > bs[i].number
                              /\ \A i \in fl .. N : i > top => ~Chosen(i)
<1>0. /\ N \in Nat /\ M \in Nat /\ fl \in 1 .. N /\ bs \in Seq(Block) /\ Linked(bs)
      /\ \A i \in 1 .. N : bs[i] \in Block
      /\ \A j \in 1 .. M : prev[j] \in BlockRef
  BY ChainFields DEF WellFormedChain
<1>1. /\ \A i \in 1 .. N : bs[i].number \in Nat
      /\ \A j \in 1 .. M : prev[j].number \in Nat
  BY <1>0 DEF Block, BlockRef
<1>2. \A i, j \in 1 .. N : i < j => bs[i].number < bs[j].number
  BY <1>0 DEF Linked
<1>3. \A i, j \in 1 .. M : i < j => prev[i].number < prev[j].number
  BY <1>0 DEF AscendingRefs
<1>4. /\ \A b : b \in Signalled(c, prev) <=>
                \E i \in fl .. N : b = bs[i] /\ \E j \in 1 .. M : prev[j] = Ref(bs[i])
      /\ \A b : b \in BelowEveryRef(c, prev) <=>
                \E i \in fl .. N : b = bs[i] /\ \A j \in 1 .. M : bs[i].number < prev[j].number
  <2>1. \A b : b \in Unfinalized(c) <=> \E i \in fl .. N : b = bs[i]
    BY DEF Unfinalized
  <2>2. DOMAIN prev = 1 .. M
    OBVIOUS
  <2> QED BY <2>1, <2>2 DEF Signalled, BelowEveryRef
<1>5. \A i \in 1 .. N : Ref(bs[i]).number = bs[i].number
  BY DEF Ref
(* The newest of a set of unfinalized blocks, none of them above position  *)
(* top, is the one at top.                                                 *)
<1>6. ASSUME NEW top \in fl .. N, NEW S, bs[top] \in S,
             \A b \in S : \E i \in fl .. N : b = bs[i] /\ ~(i > top)
      PROVE  Newest(S) = bs[top]
  <2>1. \A b \in S : b.number <= bs[top].number
    <3> SUFFICES ASSUME NEW b \in S PROVE b.number <= bs[top].number
      OBVIOUS
    <3>1. PICK i \in fl .. N : b = bs[i] /\ ~(i > top)
      BY <1>6
    <3>2. i \in 1 .. N /\ top \in 1 .. N /\ (i < top \/ i = top)
      BY <1>0, <3>1
    <3> QED BY <1>1, <1>2, <3>1, <3>2
  <2>2. Newest(S) \in S /\ \A x \in S : x.number <= Newest(S).number
    BY <1>6, <2>1 DEF Newest
  <2>3. PICK i \in fl .. N : Newest(S) = bs[i] /\ ~(i > top)
    BY <1>6, <2>2
  <2>4. i \in 1 .. N /\ top \in 1 .. N /\ (i < top \/ i = top)
    BY <1>0, <2>3
  <2>5. ~(i < top)
    <3>1. bs[top].number <= bs[i].number
      BY <1>6, <2>2, <2>3
    <3>2. i < top => bs[i].number < bs[top].number
      BY <1>2, <2>4
    <3> QED BY <1>1, <2>4, <3>1, <3>2
  <2> QED BY <2>3, <2>4, <2>5
<1>7. PICK walk : /\ \A top \in 0 .. N : walk[top] = WalkStep(c, prev, top, walk[top - 1])
                  /\ GetForkBase(c, prev) = walk[N][M]
  BY WalkUnfolds
<1> DEFINE Right == {top \in Nat : top <= N =>
                       \A k \in 0 .. M : Settled(top, k) => walk[top][k] = target}
<1>8. ASSUME NEW top \in 0 .. N, NEW k \in 0 .. M, Settled(top, k), top < fl
      PROVE  walk[top][k] = target
  <2>1. Signalled(c, prev) = {} /\ BelowEveryRef(c, prev) = {}
    <3>1. \A i \in fl .. N : ~Chosen(i)
      BY <1>0, <1>8
    <3> QED BY <1>4, <3>1
  <2>2. target = NoRef
    BY <2>1 DEF RebaseTarget
  <2>3. walk[top][k] = NoRef
    BY <1>7, <1>8 DEF WalkStep, ForkFloor
  <2> QED BY <2>2, <2>3
<1>9. ASSUME NEW top \in 0 .. N, NEW k \in 0 .. M, Settled(top, k), top >= fl,
             top \in 1 .. N => \A m \in 0 .. M : Settled(top - 1, m) => walk[top - 1][m] = target
      PROVE  walk[top][k] = target
  <2> DEFINE head == Ref(bs[top])
             fh == PopAbove(prev, k, bs[top].number)
  <2>0. top \in 1 .. N /\ top \in fl .. N /\ k \in Nat /\ top \in Nat
    BY <1>0, <1>9
  <2>1. walk[top][k] = IF fh = 0 \/ prev[fh] = head THEN head ELSE walk[top - 1][fh]
    <3>1. walk[top] = WalkStep(c, prev, top, walk[top - 1])
      BY <1>7
    <3>2. ~(top < ForkFloor(c)) /\ Ref(bs[top]).number = bs[top].number
      BY <1>0, <1>5, <1>9, <2>0 DEF ForkFloor
    <3> QED BY <3>1, <3>2 DEF WalkStep
  <2>2. /\ fh \in 0 .. k
        /\ fh # 0 => prev[fh].number <= bs[top].number
        /\ \A j \in fh + 1 .. k : prev[j].number > bs[top].number
    BY <1>1, <2>0, PopAboveIs
  <2> HIDE DEF fh
  <2>3. \A j \in fh + 1 .. M : prev[j].number > bs[top].number
    <3> TAKE j \in fh + 1 .. M
    <3>1. CASE j <= k
      BY <2>0, <2>2, <3>1
    <3>2. CASE ~(j <= k)
      <4>1. j \in k + 1 .. M
        BY <1>0, <2>0, <2>2, <3>2
      <4> QED BY <1>9, <2>0, <4>1
    <3> QED BY <3>1, <3>2
  <2>4. \A b : b \in Signalled(c, prev) \/ b \in BelowEveryRef(c, prev) =>
              \E i \in fl .. N : b = bs[i] /\ ~(i > top)
    <3> SUFFICES ASSUME NEW b, b \in Signalled(c, prev) \/ b \in BelowEveryRef(c, prev)
                 PROVE  \E i \in fl .. N : b = bs[i] /\ ~(i > top)
      OBVIOUS
    <3>1. PICK i \in fl .. N : b = bs[i]
      BY <1>4
    <3>2. Chosen(i)
      BY <3>1
    <3> QED BY <1>9, <3>1, <3>2
  <2>5. CASE fh = 0
    <3>1. \A j \in 1 .. M : prev[j].number > bs[top].number
      BY <2>3, <2>5
    <3>2. bs[top] \in BelowEveryRef(c, prev)
      BY <1>0, <1>1, <1>4, <2>0, <3>1
    <3>3. Signalled(c, prev) = {}
      <4> SUFFICES ASSUME NEW b, b \in Signalled(c, prev) PROVE FALSE
        OBVIOUS
      <4>1. PICK i \in fl .. N : b = bs[i] /\ \E j \in 1 .. M : prev[j] = Ref(bs[i])
        BY <1>4
      <4>2. PICK j \in 1 .. M : prev[j] = Ref(bs[i])
        BY <4>1
      <4>3. i \in 1 .. N /\ Chosen(i)
        BY <1>0, <4>1
      <4>4. ~(i > top)
        BY <1>9, <4>1, <4>3
      <4>5. bs[i].number <= bs[top].number
        BY <1>1, <1>2, <2>0, <4>3, <4>4
      <4>6. prev[j].number = bs[i].number
        BY <1>5, <4>2, <4>3
      <4> QED BY <1>1, <2>0, <3>1, <4>2, <4>3, <4>5, <4>6
    <3>4. Newest(BelowEveryRef(c, prev)) = bs[top]
      BY <1>6, <2>0, <2>4, <3>2
    <3>5. target = Ref(bs[top])
      BY <3>2, <3>3, <3>4 DEF RebaseTarget
    <3> QED BY <2>1, <2>5, <3>5
  <2>6. CASE fh # 0 /\ prev[fh] = head
    <3>1. bs[top] \in Signalled(c, prev)
      BY <1>0, <1>4, <2>0, <2>2, <2>6
    <3>2. Newest(Signalled(c, prev)) = bs[top]
      BY <1>6, <2>0, <2>4, <3>1
    <3>3. target = Ref(bs[top])
      BY <3>1, <3>2 DEF RebaseTarget
    <3> QED BY <2>1, <2>6, <3>3
  <2>7. CASE fh # 0 /\ prev[fh] # head
    <3>1. fh \in 1 .. M /\ fh \in Nat
      BY <1>0, <2>0, <2>2, <2>7
    <3>2. bs[top] \notin BelowEveryRef(c, prev)
      <4> SUFFICES ASSUME bs[top] \in BelowEveryRef(c, prev) PROVE FALSE
        OBVIOUS
      <4>1. \A j \in 1 .. M : bs[top].number < prev[j].number
        BY <1>4
      <4> QED BY <1>1, <2>0, <2>2, <3>1, <4>1
    <3>3. bs[top] \notin Signalled(c, prev)
      <4> SUFFICES ASSUME NEW j \in 1 .. M, prev[j] = Ref(bs[top]) PROVE FALSE
        BY <1>4
      <4>1. prev[j].number = bs[top].number
        BY <1>5, <2>0
      <4>2. j < fh \/ j = fh \/ j \in fh + 1 .. M
        BY <1>0, <3>1
      <4>3. ~(j < fh)
        BY <1>1, <1>3, <2>0, <2>2, <2>7, <3>1, <4>1
      <4>4. ~(j \in fh + 1 .. M)
        BY <1>1, <2>0, <2>3, <4>1
      <4> QED BY <2>7, <4>2, <4>3, <4>4
    <3>4. Settled(top - 1, fh)
      <4>1. ASSUME NEW i \in 1 .. top - 1, NEW j \in fh + 1 .. M
            PROVE  prev[j].number > bs[i].number
        <5>1. i \in 1 .. N /\ j \in 1 .. M /\ i < top
          BY <1>0, <2>0, <3>1
        <5>2. prev[j].number > bs[top].number /\ bs[i].number < bs[top].number
          BY <1>2, <2>0, <2>3, <5>1
        <5> QED BY <1>1, <2>0, <5>1, <5>2
      <4>2. ASSUME NEW i \in fl .. N, i > top - 1 PROVE ~Chosen(i)
        <5>1. i > top \/ i = top
          BY <1>0, <2>0, <4>2
        <5> QED BY <1>9, <3>2, <3>3, <5>1
      <4> QED BY <4>1, <4>2
    <3> QED BY <1>9, <2>0, <2>1, <2>7, <3>1, <3>4
  <2> QED BY <2>5, <2>6, <2>7
<1> HIDE DEF Settled, target
<1>10. 0 \in Right
  <2> SUFFICES ASSUME NEW k \in 0 .. M, Settled(0, k) PROVE walk[0][k] = target
    BY <1>0
  <2> QED BY <1>0, <1>8
<1>11. ASSUME NEW n \in Nat, n \in Right PROVE n + 1 \in Right
  <2> SUFFICES ASSUME n + 1 <= N, NEW k \in 0 .. M, Settled(n + 1, k)
               PROVE  walk[n + 1][k] = target
    OBVIOUS
  <2>1. n <= N /\ n + 1 \in 0 .. N /\ (n + 1) - 1 = n
    BY <1>0
  <2>2. \A m \in 0 .. M : Settled((n + 1) - 1, m) => walk[(n + 1) - 1][m] = target
    BY <1>11, <2>1
  <2>3. n + 1 < fl \/ n + 1 >= fl
    BY <1>0
  <2> QED BY <1>8, <1>9, <2>1, <2>2, <2>3
<1>12. N \in Right
  <2> HIDE DEF Right, N
  <2> QED BY <1>0, <1>10, <1>11, SetInduction
<1>13. Settled(N, M)
  BY <1>0 DEF Settled
<1>14. walk[N][M] = target
  BY <1>0, <1>12, <1>13
<1> QED BY <1>7, <1>14 DEF target

-----------------------------------------------------------------------------
(* apply_batch_locked.                                                     *)

(* The loop over a batch's blocks stays within every set of progress       *)
(* values that a single push does not leave.                               *)
LEMMA PushAllStays ==
  ASSUME NEW G, NEW p \in G, NEW bs \in Seq(Block),
         \A q \in G : \A b \in Block : PushOne(q, b) \in G
  PROVE  PushAll(p, bs) \in G
<1> DEFINE N == Len(bs)
           Body(f, s) == IF s = {} THEN p ELSE PushOne(f[s \ {Max(s)}], bs[Max(s)])
           Is(f, n) == f = [s \in SUBSET (1 .. n) |-> Body(f, s)]
           Good == {n \in Nat : \E f : Is(f, n)}
<1>0. N \in Nat /\ DOMAIN bs = 1 .. N /\ \A i \in 1 .. N : bs[i] \in Block
  OBVIOUS
<1>1. 0 \in Good
  <2> DEFINE f == [s \in SUBSET (1 .. 0) |-> p]
  <2>1. SUBSET (1 .. 0) = {{}}
    OBVIOUS
  <2>2. Is(f, 0)
    BY <2>1
  <2> QED BY <2>2
<1>2. ASSUME NEW n \in Nat, n \in Good PROVE n + 1 \in Good
  <2>1. PICK f : Is(f, n)
    <3> HIDE DEF Is
    <3> QED BY <1>2
  <2> DEFINE g == [s \in SUBSET (1 .. n + 1) |->
                     IF n + 1 \in s THEN PushOne(f[s \ {n + 1}], bs[n + 1]) ELSE f[s]]
  <2>0. \A s \in SUBSET (1 .. n) : n + 1 \notin s /\ s \in SUBSET (1 .. n + 1)
    OBVIOUS
  <2>2. \A s \in SUBSET (1 .. n) : f[s] = Body(f, s) /\ g[s] = f[s]
    BY <2>0, <2>1
  <2>3. ASSUME NEW s \in SUBSET (1 .. n + 1) PROVE g[s] = Body(g, s)
    <3>0. s # {} => Max(s) \in s /\ \A y \in s : y <= Max(s)
      <4>1. s \in SUBSET (0 .. n + 1) /\ n + 1 \in Nat
        OBVIOUS
      <4> QED BY <4>1, MaxOfBounded
    <3>1. CASE n + 1 \in s
      <4>1. Max(s) = n + 1
        <5>1. Max(s) \in 1 .. n + 1 /\ n + 1 <= Max(s)
          BY <3>0, <3>1
        <5> QED BY <5>1
      <4>2. s \ {n + 1} \in SUBSET (1 .. n)
        OBVIOUS
      <4>3. g[s \ {n + 1}] = f[s \ {n + 1}]
        BY <2>2, <4>2
      <4>4. g[s] = PushOne(f[s \ {n + 1}], bs[n + 1])
        BY <3>1
      <4> HIDE DEF g
      <4> QED BY <3>1, <4>1, <4>3, <4>4
    <3>2. CASE n + 1 \notin s
      <4>1. s \in SUBSET (1 .. n) /\ s \ {Max(s)} \in SUBSET (1 .. n)
        <5>1. \A x \in s : x \in 1 .. n
          BY <3>2
        <5> QED BY <5>1
      <4>2. g[s] = Body(f, s) /\ g[s \ {Max(s)}] = f[s \ {Max(s)}]
        BY <2>2, <4>1
      <4> HIDE DEF g
      <4> QED BY <4>2
    <3> QED BY <3>1, <3>2
  <2>4. g = [s \in SUBSET (1 .. n + 1) |-> Body(g, s)]
    <3> DEFINE h == [s \in SUBSET (1 .. n + 1) |-> Body(g, s)]
    <3>1. \A s \in SUBSET (1 .. n + 1) : g[s] = h[s]
      BY <2>3
    <3>2. DOMAIN g = SUBSET (1 .. n + 1) /\ DOMAIN h = SUBSET (1 .. n + 1)
      OBVIOUS
    <3>3. g = [s \in DOMAIN g |-> g[s]] /\ h = [s \in DOMAIN h |-> h[s]]
      OBVIOUS
    <3> HIDE DEF g, h
    <3>4. g = h
      BY <3>1, <3>2, <3>3
    <3> QED BY <3>4 DEF h
  <2>5. n + 1 \in Nat
    OBVIOUS
  <2> HIDE DEF g
  <2>6. Is(g, n + 1)
    BY <2>4, Zenon
  <2> HIDE DEF Is
  <2> QED BY <2>5, <2>6
<1>3. N \in Good
  <2> HIDE DEF Good, N
  <2> QED BY <1>0, <1>1, <1>2, SetInduction
<1> DEFINE iter == CHOOSE f : Is(f, N)
<1>4. Is(iter, N)
  <2>1. \E f : Is(f, N)
    <3> HIDE DEF Is, N
    <3> QED BY <1>3
  <2> HIDE DEF Is
  <2> QED BY <2>1
<1>5. PushAll(p, bs) = iter[1 .. N]
  BY <1>0 DEF PushAll, FoldLeft, MapThenFoldSet
<1> HIDE DEF iter
<1>6. \A s \in SUBSET (1 .. N) : iter[s] = Body(iter, s)
  BY <1>4
<1> DEFINE In == {m \in Nat : m <= N => iter[1 .. m] \in G}
<1>7. 0 \in In
  <2>1. 1 .. 0 = {} /\ {} \in SUBSET (1 .. N)
    OBVIOUS
  <2>2. iter[{}] = p
    BY <1>6, <2>1
  <2> QED BY <2>1, <2>2
<1>8. ASSUME NEW m \in Nat, m \in In PROVE m + 1 \in In
  <2> SUFFICES ASSUME m + 1 <= N PROVE iter[1 .. m + 1] \in G
    OBVIOUS
  <2> DEFINE s == 1 .. m + 1
  <2>1. s \in SUBSET (1 .. N) /\ s # {} /\ m + 1 \in s /\ s \in SUBSET (0 .. m + 1) /\ m + 1 \in Nat
    <3>1. m + 1 \in s /\ m + 1 \in Nat /\ \A x \in s : x \in 1 .. N /\ x \in 0 .. m + 1
      BY <1>0
    <3> HIDE DEF s
    <3> QED BY <3>1
  <2>2. Max(s) \in s /\ \A y \in s : y <= Max(s)
    <3> HIDE DEF s
    <3> QED BY <2>1, MaxOfBounded
  <2>3. Max(s) = m + 1 /\ s \ {m + 1} = 1 .. m
    BY <2>1, <2>2
  <2>4. iter[1 .. m] \in G
    BY <1>0, <1>8
  <2>5. iter[s] = PushOne(iter[1 .. m], bs[m + 1])
    <3> HIDE DEF s
    <3> QED BY <1>6, <2>1, <2>3
  <2>6. bs[m + 1] \in Block
    BY <1>0
  <2> QED BY <2>4, <2>5, <2>6
<1>9. N \in In
  <2> HIDE DEF In, N
  <2> QED BY <1>0, <1>7, <1>8, SetInduction
<1> QED BY <1>0, <1>5, <1>9

(* An obligation m the chain c meets: above the head, with everything      *)
(* finalized meanwhile, or reached by finality and contradicted by nothing.*)
Honours(c, m) ==
  m # NoRef =>
    \/ /\ m.number > GetHead(c).number
       /\ c.finalized_head = Len(c.blocks)
    \/ /\ m.number <= GetFinalizedHead(c).number
       /\ \A i \in DOMAIN c.blocks : c.blocks[i].number = m.number => Ref(c.blocks[i]) = m

(* What the stages of apply_batch_locked hand on.                          *)
Progress ==
  [ok : BOOLEAN, chain : ChainState, finalized_max : BlockRef \cup {NoRef}, inserted : BOOLEAN]

(* Progress p of a batch that began with the chain c: in shape, able to    *)
(* roll back to c, and with everything that was finalized in place.        *)
Tracks(p, c) ==
  /\ p \in Progress
  /\ WellFormedChain(p.chain)
  /\ UndoLeadsTo(p.chain, c.blocks, c.finalized_head)
  /\ p.chain.finalized_head >= c.finalized_head
  /\ \A i \in 1 .. c.finalized_head : p.chain.blocks[i] = c.blocks[i]

(* The typed parts of a well-formed chain the lemmas below keep needing.   *)
LEMMA ChainParts ==
  ASSUME NEW c, WellFormedChain(c)
  PROVE  /\ c \in ChainState /\ c.blocks \in Seq(Block) /\ Len(c.blocks) \in Nat
         /\ c.finalized_head \in 1 .. Len(c.blocks) /\ c.finalized_head \in Nat
         /\ Linked(c.blocks) /\ DOMAIN c.blocks = 1 .. Len(c.blocks)
         /\ \A i \in 1 .. Len(c.blocks) : c.blocks[i] \in Block /\ c.blocks[i].number \in Nat
         /\ \A i, j \in 1 .. Len(c.blocks) : i < j => c.blocks[i].number < c.blocks[j].number
<1>1. /\ c \in ChainState /\ c.blocks \in Seq(Block) /\ Len(c.blocks) \in Nat
      /\ c.finalized_head \in 1 .. Len(c.blocks) /\ c.finalized_head \in Nat
      /\ Linked(c.blocks)
  BY ChainFields DEF WellFormedChain
<1>2. /\ DOMAIN c.blocks = 1 .. Len(c.blocks)
      /\ \A i \in 1 .. Len(c.blocks) : c.blocks[i] \in Block
  BY <1>1
<1>3. \A b \in Block : b.number \in Nat
  BY DEF Block
<1> QED BY <1>1, <1>2, <1>3 DEF Linked

(* A push, accepted or not, keeps the progress and moves no finality.      *)
LEMMA PushOneTracks ==
  ASSUME NEW c, WellFormedChain(c), NEW p, Tracks(p, c), p.chain.finalized_head = c.finalized_head,
         NEW b \in Block
  PROVE  LET q == PushOne(p, b)
         IN  /\ Tracks(q, c) /\ q.chain.finalized_head = c.finalized_head
             /\ q.finalized_max = p.finalized_max
<1> DEFINE q == PushOne(p, b)
           d == Push(p.chain, b)
           f == c.finalized_head
<1>0. c.finalized_head \in Nat /\ c.finalized_head >= 1
  BY ChainParts
<1>1. /\ WellFormedChain(d) /\ d \in ChainState
      /\ d.finalized_head = f
      /\ \A i \in 1 .. f : d.blocks[i] = c.blocks[i]
      /\ UndoLeadsTo(d, c.blocks, f)
  <2>1. f \in 1 .. p.chain.finalized_head
    BY <1>0
  <2>2. WellFormedChain(p.chain)
    BY DEF Tracks
  <2>3. /\ WellFormedChain(d)
        /\ d.finalized_head = p.chain.finalized_head
        /\ \A i \in 1 .. p.chain.finalized_head : d.blocks[i] = p.chain.blocks[i]
        /\ UndoLeadsTo(p.chain, c.blocks, f) => UndoLeadsTo(d, c.blocks, f)
    BY <2>1, <2>2, PushKeeps
  <2> QED BY <2>3, ChainParts DEF Tracks
<1>2. p \in Progress
  BY DEF Tracks
<1>3. CASE q = p
  BY <1>3
<1>4. CASE q = Failed(p)
  <2>1. q \in Progress /\ q.chain = p.chain /\ q.finalized_max = p.finalized_max
    BY <1>2, <1>4 DEF Failed, Progress
  <2> QED BY <2>1 DEF Tracks
<1>5. CASE q = [p EXCEPT !.chain = d, !.inserted = @ \/ PushOutcome(p.chain, b) \in Inserted]
  <2> DEFINE ins == p.inserted \/ PushOutcome(p.chain, b) \in Inserted
  <2>1. q = [p EXCEPT !.chain = d, !.inserted = ins]
    BY <1>5
  <2>2. ins \in BOOLEAN
    OBVIOUS
  <2> HIDE DEF q, d, ins
  <2>3. q \in Progress /\ q.chain = d /\ q.finalized_max = p.finalized_max
    BY <1>1, <1>2, <2>1, <2>2 DEF Progress
  <2>4. Tracks(q, c)
    BY <1>0, <1>1, <2>3 DEF Tracks
  <2> QED BY <1>1, <2>3, <2>4 DEF q
<1>6. q = p \/ q = Failed(p)
      \/ q = [p EXCEPT !.chain = d, !.inserted = @ \/ PushOutcome(p.chain, b) \in Inserted]
  BY DEF PushOne
<1> QED BY <1>3, <1>4, <1>5, <1>6

(* The whole loop over the blocks of a batch does the same.                *)
LEMMA PushAllTracks ==
  ASSUME NEW c, WellFormedChain(c), NEW p, Tracks(p, c), p.chain.finalized_head = c.finalized_head,
         NEW bs \in Seq(Block)
  PROVE  LET q == PushAll(p, bs)
         IN  /\ Tracks(q, c) /\ q.chain.finalized_head = c.finalized_head
             /\ q.finalized_max = p.finalized_max
<1> DEFINE G == {q \in Progress : /\ Tracks(q, c) /\ q.chain.finalized_head = c.finalized_head
                                  /\ q.finalized_max = p.finalized_max}
<1>1. p \in G
  BY DEF Tracks
<1>2. ASSUME NEW q \in G, NEW b \in Block PROVE PushOne(q, b) \in G
  <2>1. /\ Tracks(PushOne(q, b), c) /\ PushOne(q, b).chain.finalized_head = c.finalized_head
        /\ PushOne(q, b).finalized_max = p.finalized_max
    BY PushOneTracks
  <2> QED BY <2>1 DEF Tracks
<1>3. PushAll(p, bs) \in G
  <2> HIDE DEF G
  <2> QED BY <1>1, <1>2, PushAllStays
<1> QED BY <1>3

(* finalize settles a report it accepts at or above finality: the report   *)
(* is then honoured.                                                       *)
LEMMA FinalizeHonours ==
  ASSUME NEW c, WellFormedChain(c), NEW r \in BlockRef,
         FinalizeOutcome(c, r) \in {"WholeBuffer", "Buffered"}
  PROVE  Honours(Finalize(c, r), r)
<1> DEFINE d == Finalize(c, r)
           pos == BisectPos(c.blocks, r.number)
           bs == c.blocks
<1>0. /\ bs \in Seq(Block) /\ Len(bs) \in Nat /\ c \in ChainState
      /\ c.finalized_head \in 1 .. Len(bs)
      /\ DOMAIN bs = 1 .. Len(bs) /\ \A i \in 1 .. Len(bs) : bs[i].number \in Nat
      /\ \A i, j \in 1 .. Len(bs) : i < j => bs[i].number < bs[j].number
  BY ChainParts
<1>1. r.number \in Nat /\ r = [number |-> r.number, hash |-> r.hash]
  BY DEF BlockRef
<1>2. CASE FinalizeOutcome(c, r) = "WholeBuffer"
  <2>1. d = [c EXCEPT !.finalized_head = Len(bs)]
    BY <1>2 DEF Finalize
  <2>2. d.blocks = bs /\ d.finalized_head = Len(bs)
    BY <1>0, <2>1 DEF ChainState
  <2>3. r.number > bs[Len(bs)].number
    BY <1>2 DEF FinalizeOutcome, LastBlock
  <2> HIDE DEF d
  <2>4. r.number > GetHead(d).number
    BY <2>2, <2>3 DEF GetHead, LastBlock, Ref
  <2> QED BY <2>2, <2>4 DEF Honours, d
<1>3. CASE FinalizeOutcome(c, r) = "Buffered"
  <2>1. pos \in 1 .. Len(bs) /\ bs[pos].number = r.number /\ bs[pos].hash = r.hash
    BY <1>0, <1>3 DEF FinalizeOutcome, HeldAt
  <2>2. d = [c EXCEPT !.finalized_head = IF pos > c.finalized_head THEN pos ELSE c.finalized_head]
    BY <1>3 DEF Finalize
  <2> HIDE DEF d, pos
  <2>3. /\ d.blocks = bs /\ d.finalized_head \in 1 .. Len(bs)
        /\ d.finalized_head = pos \/ pos < d.finalized_head
    BY <1>0, <2>1, <2>2 DEF ChainState
  <2>4. r.number <= bs[d.finalized_head].number
    BY <1>0, <2>1, <2>3
  <2>5. \A i \in DOMAIN bs : bs[i].number = r.number => Ref(bs[i]) = r
    <3> SUFFICES ASSUME NEW i \in 1 .. Len(bs), bs[i].number = r.number PROVE Ref(bs[i]) = r
      BY <1>0
    <3>1. i = pos
      BY <1>0, <2>1
    <3> QED BY <1>1, <2>1, <3>1 DEF Ref
  <2>6. r.number <= GetFinalizedHead(d).number
    BY <2>3, <2>4 DEF GetFinalizedHead, Ref
  <2> QED BY <2>3, <2>5, <2>6 DEF Honours, d
<1> QED BY <1>2, <1>3

(* An obligation honoured when the batch began and behind the finality of  *)
(* the chain it has built is honoured by that chain: what is finalized did *)
(* not change, and nothing above it is at the obligation's height.         *)
LEMMA PrefixHonours ==
  ASSUME NEW c, WellFormedChain(c), NEW d, WellFormedChain(d), NEW m \in BlockRef,
         Honours(c, m), m # NoRef, d.finalized_head = c.finalized_head,
         \A i \in 1 .. c.finalized_head : d.blocks[i] = c.blocks[i],
         m.number < d.blocks[d.finalized_head].number
  PROVE  Honours(d, m)
<1> DEFINE f == c.finalized_head
<1>0. /\ f \in 1 .. Len(c.blocks) /\ f \in 1 .. Len(d.blocks)
      /\ Len(c.blocks) \in Nat /\ Len(d.blocks) \in Nat
      /\ DOMAIN c.blocks = 1 .. Len(c.blocks) /\ DOMAIN d.blocks = 1 .. Len(d.blocks)
      /\ \A i \in 1 .. Len(c.blocks) : c.blocks[i].number \in Nat
      /\ \A i \in 1 .. Len(d.blocks) : d.blocks[i].number \in Nat
      /\ \A i, j \in 1 .. Len(c.blocks) : i < j => c.blocks[i].number < c.blocks[j].number
      /\ \A i, j \in 1 .. Len(d.blocks) : i < j => d.blocks[i].number < d.blocks[j].number
  BY ChainParts
<1>1. m.number \in Nat /\ c.blocks[f].number \in Nat /\ m.number < c.blocks[f].number
  BY <1>0 DEF BlockRef
<1>2. ~(m.number > GetHead(c).number)
  <2>1. GetHead(c).number = c.blocks[Len(c.blocks)].number
    BY DEF GetHead, LastBlock, Ref
  <2>2. f = Len(c.blocks) \/ f < Len(c.blocks)
    BY <1>0
  <2>3. c.blocks[f].number <= c.blocks[Len(c.blocks)].number
    BY <1>0, <2>2
  <2> QED BY <1>0, <1>1, <2>1, <2>3
<1>3. \A i \in 1 .. Len(c.blocks) : c.blocks[i].number = m.number => Ref(c.blocks[i]) = m
  BY <1>0, <1>2 DEF Honours
<1>4. \A i \in 1 .. Len(d.blocks) : d.blocks[i].number = m.number => Ref(d.blocks[i]) = m
  <2> SUFFICES ASSUME NEW i \in 1 .. Len(d.blocks), d.blocks[i].number = m.number
               PROVE  Ref(d.blocks[i]) = m
    OBVIOUS
  <2>1. i < f
    BY <1>0, <1>1
  <2>2. i \in 1 .. Len(c.blocks) /\ i \in 1 .. f
    BY <1>0, <2>1
  <2> QED BY <1>3, <2>2
<1>5. m.number <= GetFinalizedHead(d).number
  BY <1>0, <1>1 DEF GetFinalizedHead, Ref
<1> QED BY <1>0, <1>4, <1>5 DEF Honours

(* compact forgets no obligation: it drops blocks at the old end only, and *)
(* a buffer that was finalized as a whole stays so.                        *)
LEMMA CompactHonours ==
  ASSUME NEW c, WellFormedChain(c), ~c.undo.open, NEW m \in BlockRef \cup {NoRef}, Honours(c, m)
  PROVE  Honours(Compact(c), m)
<1> DEFINE d == Compact(c)
<1> SUFFICES ASSUME m # NoRef PROVE Honours(d, m)
  BY DEF Honours
<1>0. /\ Len(c.blocks) \in Nat /\ c.finalized_head \in 1 .. Len(c.blocks)
      /\ DOMAIN c.blocks = 1 .. Len(c.blocks)
      /\ \A i \in 1 .. Len(c.blocks) : c.blocks[i].number \in Nat
  BY ChainParts
<1>1. WellFormedChain(d)
  BY CompactKeeps
<1>2. KeepsFinalized(c.blocks, c.finalized_head, d.blocks, d.finalized_head)
  <2>1. c.finalized_head \in 1 .. c.finalized_head
    BY <1>0
  <2> QED BY <2>1, CompactKeeps
<1>3. c.finalized_head = Len(c.blocks) => d.finalized_head = Len(d.blocks)
  BY CompactKeeps
<1>4. PICK trim \in 0 .. Len(c.blocks) - 1 :
        /\ Len(d.blocks) = Len(c.blocks) - trim
        /\ \A i \in 1 .. Len(c.blocks) - trim : d.blocks[i] = c.blocks[trim + i]
  BY CompactKeeps
<1> HIDE DEF d
<1>5. DOMAIN d.blocks = 1 .. Len(d.blocks) /\ d.finalized_head \in 1 .. Len(d.blocks)
      /\ \A i \in 1 .. Len(d.blocks) : d.blocks[i].number \in Nat
  BY <1>1, ChainParts
<1>6. GetHead(d) = GetHead(c)
  <2>1. Len(d.blocks) \in 1 .. Len(c.blocks) - trim /\ trim + Len(d.blocks) = Len(c.blocks)
    BY <1>0, <1>4
  <2> QED BY <1>4, <2>1 DEF GetHead, LastBlock
<1>7. m \in BlockRef /\ m.number \in Nat
  BY DEF BlockRef
<1>8. CASE m.number > GetHead(c).number /\ c.finalized_head = Len(c.blocks)
  BY <1>3, <1>6, <1>8 DEF Honours
<1>9. CASE /\ m.number <= GetFinalizedHead(c).number
           /\ \A i \in DOMAIN c.blocks : c.blocks[i].number = m.number => Ref(c.blocks[i]) = m
  <2>1. c.blocks[c.finalized_head].number <= d.blocks[d.finalized_head].number
    BY <1>0, <1>2, <1>5 DEF KeepsFinalized
  <2>2. m.number <= GetFinalizedHead(d).number
    BY <1>0, <1>5, <1>7, <1>9, <2>1 DEF GetFinalizedHead, Ref
  <2>3. ASSUME NEW i \in 1 .. Len(d.blocks), d.blocks[i].number = m.number
        PROVE  Ref(d.blocks[i]) = m
    <3>1. trim + i \in 1 .. Len(c.blocks) /\ i \in 1 .. Len(c.blocks) - trim
      BY <1>0, <1>4
    <3>2. d.blocks[i] = c.blocks[trim + i]
      BY <1>4, <3>1
    <3> QED BY <1>0, <1>9, <2>3, <3>1, <3>2
  <2> QED BY <1>5, <2>2, <2>3 DEF Honours
<1> QED BY <1>8, <1>9 DEF Honours

(* settle_obligation keeps the progress of the batch, and when it accepts  *)
(* at or above finality the obligation is honoured.                        *)
LEMMA SettleTracks ==
  ASSUME NEW c, WellFormedChain(c), NEW p, Tracks(p, c)
  PROVE  LET q == SettleObligation(p)
         IN  /\ Tracks(q, c) /\ q.finalized_max = p.finalized_max
             /\ q.ok /\ p.finalized_max # NoRef =>
                  /\ p.ok /\ q.chain = Finalize(p.chain, p.finalized_max)
                  /\ FinalizeOutcome(p.chain, p.finalized_max) \in FinalizeAccepted
             /\ p.finalized_max = NoRef => q = p
<1> DEFINE q == SettleObligation(p)
           m == p.finalized_max
           d == Finalize(p.chain, m)
<1>1. p \in Progress /\ WellFormedChain(p.chain) /\ m \in BlockRef \cup {NoRef} /\ p.ok \in BOOLEAN
  BY DEF Tracks, Progress
<1>2. CASE ~p.ok \/ m = NoRef
  BY <1>2 DEF SettleObligation
<1>3. CASE p.ok /\ m # NoRef /\ FinalizeOutcome(p.chain, m) \notin FinalizeAccepted
  <2>1. q = Failed(p)
    BY <1>3 DEF SettleObligation
  <2>2. q \in Progress /\ q.chain = p.chain /\ q.finalized_max = m /\ ~q.ok
    BY <1>1, <2>1 DEF Failed, Progress
  <2> HIDE DEF q
  <2>3. Tracks(q, c)
    BY <2>2 DEF Tracks
  <2> QED BY <1>3, <2>2, <2>3 DEF q
<1>4. CASE p.ok /\ m # NoRef /\ FinalizeOutcome(p.chain, m) \in FinalizeAccepted
  <2>1. q = [p EXCEPT !.chain = d]
    BY <1>4 DEF SettleObligation
  <2>2. m \in BlockRef
    BY <1>1, <1>4
  <2>3. /\ WellFormedChain(d) /\ d.blocks = p.chain.blocks /\ d.undo = p.chain.undo
        /\ d.finalized_head >= p.chain.finalized_head
    BY <1>1, <2>2, FinalizeKeeps
  <2> HIDE DEF q, d
  <2>4. d \in ChainState /\ d.finalized_head \in Nat /\ p.chain.finalized_head \in Nat
        /\ c.finalized_head \in Nat
    BY <1>1, <2>3, ChainParts
  <2>5. q \in Progress /\ q.chain = d /\ q.finalized_max = m /\ q.ok
    BY <1>1, <1>4, <2>1, <2>4 DEF Progress
  <2>6. UndoLeadsTo(d, c.blocks, c.finalized_head)
    BY <2>3 DEF Tracks, UndoLeadsTo
  <2>7. Tracks(q, c)
    BY <2>3, <2>4, <2>5, <2>6 DEF Tracks
  <2> QED BY <1>4, <2>5, <2>7 DEF q, d
<1> QED BY <1>1, <1>2, <1>3, <1>4

(* apply_batch_locked, from a chain that honours the session's obligation: *)
(* the progress can be rolled back to the start, and an accepted batch     *)
(* leaves the obligation, raised or not, honoured.                         *)
LEMMA ApplyTracks ==
  ASSUME NEW c, WellFormedChain(c), NEW b, WellFormedChain(b),
         b.blocks = c.blocks, b.finalized_head = c.finalized_head,
         UndoLeadsTo(b, c.blocks, c.finalized_head),
         NEW m \in BlockRef \cup {NoRef}, Honours(c, m), NEW batch \in BlockBatch
  PROVE  LET p == ApplyBatchLocked(b, m, batch)
         IN  Tracks(p, c) /\ (p.ok => Honours(p.chain, p.finalized_max))
<1> DEFINE report == batch.finalized_head
           start == [ok |-> TRUE, chain |-> b, finalized_max |-> m, inserted |-> FALSE]
           noted == NoteReport(start, report)
           pushed == PushAll(noted, batch.blocks)
           settled == SettleObligation(pushed)
           raised == RaiseAndSettle(settled, report)
           f == c.finalized_head
<1>0. /\ batch.blocks \in Seq(Block) /\ report \in BlockRef \cup {NoRef}
      /\ f \in Nat /\ b \in ChainState
  BY ChainParts DEF BlockBatch
<1>1. ApplyBatchLocked(b, m, batch) = raised
  BY DEF ApplyBatchLocked
<1>2. Tracks(start, c) /\ start.chain = b /\ start.finalized_max = m
  <2>1. start \in Progress /\ start.chain = b /\ start.finalized_max = m
    BY <1>0 DEF Progress
  <2> HIDE DEF start
  <2> QED BY <1>0, <2>1 DEF Tracks
<1> HIDE DEF start
<1>3. Tracks(noted, c) /\ noted.chain = b /\ noted.finalized_max = m
  <2>1. CASE noted = start
    BY <1>2, <2>1
  <2>2. CASE noted = Failed(start)
    <3>1. start \in Progress
      BY <1>2 DEF Tracks
    <3> HIDE DEF noted
    <3>2. noted \in Progress /\ noted.chain = start.chain /\ noted.finalized_max = start.finalized_max
      BY <2>2, <3>1 DEF Failed, Progress
    <3> QED BY <1>2, <3>2 DEF Tracks
  <2> QED BY <2>1, <2>2 DEF NoteReport
<1> HIDE DEF noted
<1>4. Tracks(pushed, c) /\ pushed.chain.finalized_head = f /\ pushed.finalized_max = m
  BY <1>0, <1>3, PushAllTracks
<1> HIDE DEF pushed
<1>5. /\ Tracks(settled, c) /\ settled.finalized_max = m
      /\ settled.ok /\ m # NoRef =>
           /\ pushed.ok /\ settled.chain = Finalize(pushed.chain, m)
           /\ FinalizeOutcome(pushed.chain, m) \in FinalizeAccepted
  BY <1>4, SettleTracks
<1> HIDE DEF settled
<1>6. settled.ok => Honours(settled.chain, m)
  <2> SUFFICES ASSUME settled.ok, m # NoRef PROVE Honours(settled.chain, m)
    BY DEF Honours
  <2>1. m \in BlockRef /\ WellFormedChain(pushed.chain)
    BY <1>4 DEF Tracks
  <2>2. /\ settled.chain = Finalize(pushed.chain, m)
        /\ FinalizeOutcome(pushed.chain, m) \in FinalizeAccepted
    BY <1>5
  <2>3. CASE FinalizeOutcome(pushed.chain, m) \in {"WholeBuffer", "Buffered"}
    BY <2>1, <2>2, <2>3, FinalizeHonours
  <2>4. CASE FinalizeOutcome(pushed.chain, m) = "Regressive"
    <3>1. settled.chain = pushed.chain
      BY <2>2, <2>4 DEF Finalize
    <3>2. m.number < pushed.chain.blocks[pushed.chain.finalized_head].number
      BY <2>4 DEF FinalizeOutcome
    <3>3. \A i \in 1 .. f : pushed.chain.blocks[i] = c.blocks[i]
      BY <1>4 DEF Tracks
    <3> QED BY <1>4, <2>1, <3>1, <3>2, <3>3, PrefixHonours
  <2> QED BY <2>2, <2>3, <2>4 DEF FinalizeAccepted
<1>7. CASE ~RaisesMaximum(settled, report)
  BY <1>1, <1>5, <1>6, <1>7 DEF RaiseAndSettle
<1>8. CASE RaisesMaximum(settled, report)
  <2> DEFINE p == [settled EXCEPT !.finalized_max = report]
  <2>1. /\ report # NoRef /\ report \in BlockRef
        /\ report.number >= GetFinalizedHead(settled.chain).number
    BY <1>0, <1>8 DEF RaisesMaximum
  <2>2. settled \in Progress
    BY <1>5 DEF Tracks
  <2>3. p \in Progress /\ p.chain = settled.chain /\ p.finalized_max = report
    BY <1>0, <2>2 DEF Progress
  <2>4. raised = SettleObligation(p)
    BY <1>8 DEF RaiseAndSettle
  <2> HIDE DEF p
  <2>5. Tracks(p, c) /\ WellFormedChain(p.chain)
    BY <1>5, <2>3 DEF Tracks
  <2>6. /\ Tracks(raised, c) /\ raised.finalized_max = report
        /\ raised.ok => /\ raised.chain = Finalize(p.chain, report)
                        /\ FinalizeOutcome(p.chain, report) \in FinalizeAccepted
    BY <2>1, <2>3, <2>4, <2>5, SettleTracks
  <2> HIDE DEF raised
  <2>7. FinalizeOutcome(p.chain, report) # "Regressive"
    <3>1. /\ p.chain.finalized_head \in 1 .. Len(p.chain.blocks)
          /\ p.chain.blocks[p.chain.finalized_head].number \in Nat
      BY <2>5, ChainParts
    <3>2. report.number \in Nat /\ GetFinalizedHead(p.chain).number = p.chain.blocks[p.chain.finalized_head].number
      BY <2>1 DEF BlockRef, GetFinalizedHead, Ref
    <3>3. ~(report.number < p.chain.blocks[p.chain.finalized_head].number)
      BY <2>1, <2>3, <3>1, <3>2
    <3> QED BY <3>3 DEF FinalizeOutcome
  <2>8. raised.ok => Honours(raised.chain, report)
    BY <2>1, <2>5, <2>6, <2>7, FinalizeHonours DEF FinalizeAccepted
  <2> QED BY <1>1, <2>6, <2>8 DEF raised
<1> QED BY <1>7, <1>8

(* The batch scope as a whole: an accepted batch publishes a chain within  *)
(* its window that keeps what was finalized and honours the obligation; a  *)
(* rejected one leaves the chain exactly as it was.                        *)
LEMMA IngestBatchKeeps ==
  ASSUME NEW c, WellFormedChain(c), c.undo = NoUndo,
         NEW m \in BlockRef \cup {NoRef}, Honours(c, m), NEW batch \in BlockBatch
  PROVE  LET r == IngestBatch(c, m, batch)
         IN  /\ WellFormedChain(r.chain) /\ r.chain.undo = NoUndo
             /\ r.finalized_max \in BlockRef \cup {NoRef} /\ r.ok \in BOOLEAN
             /\ ~r.ok => r.chain = c
             /\ r.ok => /\ WithinWindow(r.chain.blocks, r.chain.finalized_head)
                        /\ KeepsFinalized(c.blocks, c.finalized_head,
                                          r.chain.blocks, r.chain.finalized_head)
                        /\ Honours(r.chain, r.finalized_max)
<1> DEFINE b == BeginBatch(c)
           p == ApplyBatchLocked(b, m, batch)
           r == IngestBatch(c, m, batch)
           f == c.finalized_head
<1>0. /\ c \in ChainState /\ c.blocks \in Seq(Block) /\ Len(c.blocks) \in Nat
      /\ f \in Nat /\ f \in 1 .. Len(c.blocks) /\ Linked(c.blocks)
  BY ChainParts
<1>1. /\ b \in ChainState /\ b.blocks = c.blocks /\ b.finalized_head = f
      /\ b.undo.open = TRUE /\ b.undo.intact = Len(c.blocks)
      /\ b.undo.removed = << >> /\ b.undo.finalized_head = f
  BY <1>0, BatchScope
<1> HIDE DEF b
<1>2. WellFormedChain(b)
  BY <1>0, <1>1 DEF WellFormedChain
<1>3. UndoLeadsTo(b, c.blocks, f)
  <2>1. SubSeq(c.blocks, 1, Len(c.blocks)) = c.blocks /\ c.blocks \o << >> = c.blocks
    BY <1>0
  <2> QED BY <1>0, <1>1, <2>1 DEF UndoLeadsTo
<1>4. Tracks(p, c) /\ (p.ok => Honours(p.chain, p.finalized_max))
  BY <1>1, <1>2, <1>3, ApplyTracks
<1> HIDE DEF p
<1>5. /\ p \in Progress /\ p.chain \in ChainState /\ WellFormedChain(p.chain)
      /\ p.ok \in BOOLEAN /\ p.finalized_max \in BlockRef \cup {NoRef}
  BY <1>4 DEF Tracks, Progress
<1>6. CASE ~p.ok
  <2> DEFINE d == RollbackBatch(p.chain)
  <2>1. r = [p EXCEPT !.chain = d]
    BY <1>6 DEF IngestBatch, p, b
  <2>2. d \in ChainState /\ d.blocks = c.blocks /\ d.finalized_head = f /\ d.undo = NoUndo
    <3>1. UndoLeadsTo(p.chain, c.blocks, f)
      BY <1>4 DEF Tracks
    <3>2. p.chain \in ChainState /\ c.blocks \in Seq(Block) /\ c.finalized_head \in Nat
      BY <1>0, <1>5
    <3>3. UndoLeadsTo(p.chain, c.blocks, c.finalized_head) =>
            /\ d \in ChainState /\ d.blocks = c.blocks
            /\ d.finalized_head = c.finalized_head /\ d.undo = NoUndo
      BY ONLY <3>2, BatchScope
    <3> QED BY <3>1, <3>3
  <2> HIDE DEF d
  <2>3. d = c
    BY <1>0, <2>2, SameChain
  <2>4. r.chain = c /\ ~r.ok /\ r.ok \in BOOLEAN /\ r.finalized_max = p.finalized_max
    <3> HIDE DEF r
    <3> QED BY <1>5, <1>6, <2>1, <2>3 DEF Progress
  <2> HIDE DEF r
  <2> QED BY <1>5, <2>4 DEF r
<1>7. CASE p.ok
  <2> DEFINE e == CommitBatch(p.chain)
             d == Compact(e)
  <2>1. r = [p EXCEPT !.chain = d]
    BY <1>7 DEF IngestBatch, p, b
  <2>2. /\ e \in ChainState /\ e.blocks = p.chain.blocks
        /\ e.finalized_head = p.chain.finalized_head /\ e.undo = NoUndo
    BY <1>5, BatchScope
  <2> HIDE DEF e
  <2>3. WellFormedChain(e) /\ ~e.undo.open
    BY <1>5, <2>2 DEF WellFormedChain, NoUndo
  <2>4. Honours(e, p.finalized_max)
    BY <1>4, <1>7, <2>2 DEF Honours, GetHead, LastBlock, GetFinalizedHead
  <2>5. f \in 1 .. e.finalized_head /\ \A i \in 1 .. f : e.blocks[i] = c.blocks[i]
    <3>1. p.chain.finalized_head \in Nat /\ p.chain.finalized_head >= f
      BY <1>4, <1>5, ChainParts DEF Tracks
    <3> QED BY <1>0, <1>4, <2>2, <3>1 DEF Tracks
  <2>6. /\ WellFormedChain(d) /\ d.undo = NoUndo
        /\ WithinWindow(d.blocks, d.finalized_head)
        /\ KeepsFinalized(e.blocks, f, d.blocks, d.finalized_head)
    BY <2>2, <2>3, <2>5, CompactKeeps
  <2>7. Honours(d, p.finalized_max)
    BY <1>5, <2>3, <2>4, CompactHonours
  <2> HIDE DEF d
  <2>8. KeepsFinalized(c.blocks, f, d.blocks, d.finalized_head)
    BY <1>0, <2>5, <2>6 DEF KeepsFinalized
  <2>9. r.chain = d /\ r.ok /\ r.ok \in BOOLEAN /\ r.finalized_max = p.finalized_max
    <3> HIDE DEF r
    <3>1. d \in ChainState
      BY <2>6 DEF WellFormedChain
    <3> QED BY <1>5, <1>7, <2>1, <3>1 DEF Progress
  <2> HIDE DEF r
  <2> QED BY <1>5, <2>6, <2>7, <2>8, <2>9 DEF r
<1> QED BY <1>5, <1>6, <1>7

-----------------------------------------------------------------------------
(* The task.                                                               *)

(* Between batches the published chain is in shape with no batch open; an  *)
(* obligation of a session that may go on is honoured, and none survives   *)
(* into a pause or a re-init, where the buffer may be replaced under it.   *)
IngestionInvariant ==
  /\ WellFormedChain(chain) /\ chain.undo = NoUndo
  /\ finalized_max \in BlockRef \cup {NoRef}
  /\ fork_refs \in Seq(BlockRef)
  /\ pc \in {"reinit", "pause"} => finalized_max = NoRef
  /\ session_result = "fork" => pc = "resolve"
  /\ ObligationHonoured

(* The states in which an obligation is still owed.                        *)
Owed == pc \in {"loop", "session"} \/ session_result = "fork"

(* ObligationHonoured, said with the words of the lemmas above.            *)
LEMMA OwedIsHonoured == ObligationHonoured <=> (Owed => Honours(chain, finalized_max))
BY DEF ObligationHonoured, Owed, Honours

(* A step that leaves the chain alone and may drop the obligation.         *)
LEMMA ChainUntouched ==
  ASSUME IngestionInvariant, chain' = chain, fork_refs' \in Seq(BlockRef),
         finalized_max' = finalized_max \/ finalized_max' = NoRef,
         pc' \in {"reinit", "pause"} => finalized_max' = NoRef,
         session_result' = "fork" => pc' = "resolve",
         Owed' => Owed \/ finalized_max' = NoRef
  PROVE  IngestionInvariant'
<1>1. Owed => Honours(chain, finalized_max)
  BY OwedIsHonoured DEF IngestionInvariant
<1>2. Honours(chain, NoRef)
  BY DEF Honours
<1>3. Owed' => Honours(chain', finalized_max')
  BY <1>1, <1>2
<1>4. ObligationHonoured'
  BY <1>3 DEF ObligationHonoured, Owed, Honours
<1> QED BY <1>4 DEF IngestionInvariant

(* A delivered batch, accepted or rejected.                                *)
LEMMA DeliverKeeps ==
  ASSUME IngestionInvariant, NEW batch \in Batches, Deliver(batch)
  PROVE  /\ IngestionInvariant'
         /\ \/ chain' = chain
            \/ /\ WithinWindow(chain'.blocks, chain'.finalized_head)
               /\ KeepsFinalized(chain.blocks, chain.finalized_head,
                                 chain'.blocks, chain'.finalized_head)
<1> DEFINE r == IngestBatch(chain, finalized_max, batch)
<1>1. /\ pc = "session" /\ chain' = r.chain /\ finalized_max' = r.finalized_max
      /\ r.ok => pc' = pc /\ session_result' = session_result /\ fork_refs' = fork_refs
      /\ ~r.ok => pc' = "resolve" /\ session_result' = "error" /\ fork_refs' = << >>
  BY DEF Deliver, Streaming, SessionEnds
<1>2. batch \in BlockBatch /\ Honours(chain, finalized_max)
  BY <1>1, BatchesAssumption, OwedIsHonoured DEF IngestionInvariant, Owed
<1>3. /\ WellFormedChain(r.chain) /\ r.chain.undo = NoUndo
      /\ r.finalized_max \in BlockRef \cup {NoRef} /\ r.ok \in BOOLEAN
      /\ ~r.ok => r.chain = chain
      /\ r.ok => /\ WithinWindow(r.chain.blocks, r.chain.finalized_head)
                 /\ KeepsFinalized(chain.blocks, chain.finalized_head,
                                   r.chain.blocks, r.chain.finalized_head)
                 /\ Honours(r.chain, r.finalized_max)
  BY <1>2, IngestBatchKeeps DEF IngestionInvariant
<1> HIDE DEF r
<1>4. Owed' => Honours(chain', finalized_max')
  BY <1>1, <1>3 DEF Owed
<1>5. ObligationHonoured'
  BY <1>4 DEF ObligationHonoured, Owed, Honours
<1>6. IngestionInvariant'
  <2>1. fork_refs' \in Seq(BlockRef)
    <3>1. << >> \in Seq(BlockRef) /\ fork_refs \in Seq(BlockRef)
      BY DEF IngestionInvariant
    <3>2. fork_refs' = << >> \/ fork_refs' = fork_refs
      BY <1>1, <1>3
    <3> QED BY <3>1, <3>2
  <2>2. pc' \notin {"reinit", "pause"} /\ session_result' # "fork"
    BY <1>1, <1>3 DEF IngestionInvariant
  <2> QED BY <1>1, <1>3, <1>5, <2>1, <2>2 DEF IngestionInvariant
<1> QED BY <1>1, <1>3, <1>6

(* What init accepts as a seed is a block.                                 *)
LEMMA SeedIsBlock ==
  ASSUME NEW h \in SeedRefs, NEW batch \in SeedBatches, SeedDelivered(h, batch)
  PROVE  batch.blocks[1] \in Block
<1>1. batch \in BlockBatch
  BY SeedBatchesAssumption
<1>2. batch.blocks \in Seq(Block) /\ Len(batch.blocks) = 1
  BY <1>1 DEF BlockBatch, SeedDelivered
<1> QED BY <1>2

(* A re-init that was answered: the buffer is replaced or the run ends.    *)
LEMMA ReseedKeeps ==
  ASSUME IngestionInvariant, NEW h \in SeedRefs, NEW batch \in SeedBatches, Reseed(h, batch)
  PROVE  /\ IngestionInvariant'
         /\ \/ chain' = chain
            \/ /\ Len(chain'.blocks) = 1 /\ chain'.finalized_head = 1
               /\ Agrees(chain.blocks, chain'.blocks[1])
<1> DEFINE seed == batch.blocks[1]
<1>1. /\ pc = "reinit" /\ finalized_max = NoRef /\ finalized_max' = NoRef /\ seed \in Block
      /\ session_result # "fork"
  BY SeedIsBlock DEF Reseed, IngestionInvariant
<1> HIDE DEF seed
<1>2. CASE Reseeded(seed)
  <2>1. /\ chain' = NewChain(seed) /\ ~Contradicts(chain, seed)
        /\ pc' = "session" /\ session_result' = session_result /\ fork_refs' = fork_refs
    BY <1>2 DEF Reseeded
  <2>2. /\ WellFormedChain(chain') /\ chain'.undo = NoUndo
        /\ chain'.finalized_head = 1 /\ Len(chain'.blocks) = 1 /\ chain'.blocks[1] = seed
    BY <1>1, <2>1, NewChainCommitted
  <2>3. ObligationHonoured'
    BY <1>1 DEF ObligationHonoured
  <2>4. IngestionInvariant'
    BY <1>1, <2>1, <2>2, <2>3 DEF IngestionInvariant
  <2>5. Agrees(chain.blocks, seed)
    BY <1>1, <2>1, SeedAgrees DEF IngestionInvariant
  <2> QED BY <2>2, <2>4, <2>5
<1>3. CASE DivergentReseed(seed)
  <2>1. /\ chain' = chain /\ pc' = "ended" /\ session_result' = "none" /\ fork_refs' = << >>
    BY <1>3 DEF DivergentReseed, EndRun
  <2>2. IngestionInvariant'
    BY <1>1, <2>1, ChainUntouched DEF Owed
  <2> QED BY <2>1, <2>2
<1> QED BY <1>2, <1>3 DEF Reseed, seed

(* Every other step of the task leaves the chain alone.                    *)
LEMMA OtherStepsKeep ==
  ASSUME IngestionInvariant,
         \/ Halt \/ OpenSession \/ BeginReseed
         \/ \E h \in SeedRefs, b \in SeedBatches : ReseedFails(h, b)
         \/ \E b \in Batches : DeliverMalformed(b)
         \/ StreamFails \/ StreamEnds \/ DeliverStopped \/ CancelSession
         \/ \E refs \in ForkSignals : SignalFork(refs)
         \/ Resolve \/ PauseOver \/ Stop \/ Shutdown \/ Abort \/ TaskPanics
  PROVE  IngestionInvariant' /\ chain' = chain
<1> USE DEF Owed
<1>0. /\ fork_refs \in Seq(BlockRef) /\ << >> \in Seq(BlockRef)
      /\ pc \in {"reinit", "pause"} => finalized_max = NoRef
      /\ session_result = "fork" => pc = "resolve"
  BY DEF IngestionInvariant
<1>1. CASE Halt
  BY <1>0, <1>1, ChainUntouched DEF Halt, EndRun, loopVars
<1>2. CASE OpenSession
  BY <1>0, <1>2, ChainUntouched DEF OpenSession, loopVars
<1>3. CASE BeginReseed
  BY <1>0, <1>3, ChainUntouched DEF BeginReseed
<1>4. ASSUME NEW h \in SeedRefs, NEW b \in SeedBatches, ReseedFails(h, b)
      PROVE  IngestionInvariant' /\ chain' = chain
  BY <1>0, <1>4, ChainUntouched DEF ReseedFails, loopVars
<1>5. ASSUME NEW how \in {"ok", "error"}, pc = "session", SessionOver(how)
      PROVE  IngestionInvariant' /\ chain' = chain
  BY <1>0, <1>5, ChainUntouched DEF SessionOver, SessionEnds, loopVars
<1>6. CASE StreamFails \/ StreamEnds \/ DeliverStopped \/ CancelSession
  BY <1>5, <1>6 DEF StreamFails, StreamEnds, DeliverStopped, CancelSession, Streaming
<1>7. ASSUME NEW b \in Batches, DeliverMalformed(b) PROVE IngestionInvariant' /\ chain' = chain
  BY <1>5, <1>7 DEF DeliverMalformed, Streaming
<1>8. ASSUME NEW refs \in ForkSignals, SignalFork(refs) PROVE IngestionInvariant' /\ chain' = chain
  <2>1. refs \in Seq(BlockRef)
    BY ForkSignalsAssumption
  <2>2. /\ pc = "session" /\ pc' = "resolve" /\ fork_refs' = refs /\ chain' = chain
        /\ finalized_max' = finalized_max
    BY <1>8 DEF SignalFork, SessionEnds, Streaming, loopVars
  <2> QED BY <1>0, <2>1, <2>2, ChainUntouched
<1>9. CASE StartupFails
  BY <1>0, <1>9, ChainUntouched DEF StartupFails, EndRun
<1>10. CASE RestartSession
  <2>1. finalized_max' = NoRef /\ chain' = chain /\ session_result' = "none"
        /\ fork_refs' = fork_refs
    BY <1>10 DEF RestartSession, Resolving, NextObligation
  <2> QED BY <1>0, <2>1, ChainUntouched
<1>11. CASE Rebase
  <2>1. /\ session_result = "fork" /\ finalized_max' = finalized_max /\ chain' = chain
        /\ session_result' = "none" /\ fork_refs' = << >> /\ pc' = "loop"
    BY <1>11 DEF Rebase, Resolving, NextObligation
  <2> QED BY <1>0, <2>1, ChainUntouched
<1>12. CASE DivergentFork
  BY <1>0, <1>12, ChainUntouched DEF DivergentFork, EndRun
<1>13. CASE PauseOver
  BY <1>0, <1>13, ChainUntouched DEF PauseOver, loopVars
<1>14. CASE Stop \/ Shutdown
  BY <1>0, <1>14, ChainUntouched DEF Stop, Shutdown, loopVars
<1>15. CASE Abort \/ TaskPanics
  BY <1>0, <1>15, ChainUntouched DEF Abort, TaskPanics, EndRun, loopVars
<1> QED BY <1>1, <1>2, <1>3, <1>4, <1>6, <1>7, <1>8, <1>9, <1>10, <1>11, <1>12, <1>13, <1>14, <1>15
        DEF Resolve

(* What a step of the process does to the task: nothing, one of its own    *)
(* steps, a shutdown or a panic.                                           *)
LEMMA ProcessSteps ==
  ASSUME [ProcessNext]_allVars
  PROVE  TaskStep \/ Shutdown \/ TaskPanics \/ UNCHANGED vars
<1>1. CASE Serve \/ StartFails \/ Signal \/ Respond \/ Drained \/ GraceOver \/ SecondSignal
  BY <1>1 DEF Serve, StartFails, Signal, Respond, Drained, GraceOver, SecondSignal
<1>2. CASE Ingest \/ TaskPanics
  BY <1>2 DEF Ingest
<1>3. ASSUME NEW why, LeaveServing(why) PROVE Shutdown \/ UNCHANGED vars
  BY <1>3 DEF LeaveServing
<1>4. CASE TakeSignal \/ TakeStarted \/ TakeEnded
  <2>1. (\E why : LeaveServing(why)) \/ UNCHANGED vars
    BY <1>4 DEF TakeSignal, TakeStarted, TakeEnded
  <2> QED BY <1>3, <2>1
<1>5. CASE Gone \/ UNCHANGED allVars
  BY <1>5 DEF Gone, allVars
<1> QED BY <1>1, <1>2, <1>4, <1>5 DEF ProcessNext

(* A step of the process keeps the invariant, and what it does to the      *)
(* chain is nothing, a publication or a re-seed.                           *)
LEMMA ProcessStepKeeps ==
  ASSUME IngestionInvariant, [ProcessNext]_allVars
  PROVE  /\ IngestionInvariant'
         /\ \/ chain' = chain
            \/ /\ WithinWindow(chain'.blocks, chain'.finalized_head)
               /\ KeepsFinalized(chain.blocks, chain.finalized_head,
                                 chain'.blocks, chain'.finalized_head)
            \/ /\ Len(chain'.blocks) = 1 /\ chain'.finalized_head = 1
               /\ Agrees(chain.blocks, chain'.blocks[1])
<1>1. CASE \E h \in SeedRefs, b \in SeedBatches : Reseed(h, b)
  BY <1>1, ReseedKeeps
<1>2. CASE \E b \in Batches : Deliver(b)
  BY <1>2, DeliverKeeps
<1>3. CASE UNCHANGED vars
  BY <1>3, ChainUntouched DEF vars, loopVars, IngestionInvariant, Owed
<1>4. CASE \/ Halt \/ OpenSession \/ BeginReseed
           \/ \E h \in SeedRefs, b \in SeedBatches : ReseedFails(h, b)
           \/ \E b \in Batches : DeliverMalformed(b)
           \/ StreamFails \/ StreamEnds \/ DeliverStopped \/ CancelSession
           \/ \E refs \in ForkSignals : SignalFork(refs)
           \/ Resolve \/ PauseOver \/ Stop \/ Shutdown \/ Abort \/ TaskPanics
  BY <1>4, OtherStepsKeep
<1>5. TaskStep \/ Shutdown \/ TaskPanics \/ UNCHANGED vars
  BY ProcessSteps
<1> QED BY <1>1, <1>2, <1>3, <1>4, <1>5 DEF TaskStep, AnyReseed

(* Every behaviour of the process keeps the invariant of its task.         *)
THEOREM IngestionInvariantHolds == ProcessSpec => []IngestionInvariant
<1>1. ProcessInit => IngestionInvariant
  <2> SUFFICES ASSUME ProcessInit PROVE IngestionInvariant
    OBVIOUS
  <2>1. PICK seed \in Seeds : chain = NewChain(seed)
    BY DEF ProcessInit, Init
  <2>2. WellFormedChain(chain) /\ chain.undo = NoUndo
    BY <2>1, IngestionSeedsAssumption, NewChainCommitted
  <2>3. finalized_max = NoRef /\ fork_refs = << >> /\ pc = "loop" /\ session_result = "none"
    BY DEF ProcessInit, Init
  <2> QED BY <2>2, <2>3 DEF IngestionInvariant, ObligationHonoured
<1>2. IngestionInvariant /\ [ProcessNext]_allVars => IngestionInvariant'
  BY ProcessStepKeeps
<1> QED BY <1>1, <1>2, PTL DEF ProcessSpec

(* WP-12/WP-23: an accepted finality obligation is never forgotten or      *)
(* contradicted while the session, or the fork rebase after it, goes on.   *)
THEOREM ObligationKept == ProcessSpec => []ObligationHonoured
<1>1. IngestionInvariant => ObligationHonoured
  BY DEF IngestionInvariant
<1> QED BY <1>1, IngestionInvariantHolds, PTL

(* WP-10: whatever the buffer and the ascending refs of a fork signal, the *)
(* session is sent back to the block the rule names.                       *)
THEOREM ForkBaseRight == ProcessSpec => []ForkBaseIsTarget
<1>1. IngestionInvariant => ForkBaseIsTarget
  BY WalkFindsTarget DEF IngestionInvariant, ForkBaseIsTarget
<1> QED BY <1>1, IngestionInvariantHolds, PTL

(* The task, with its sessions, rebases, re-seeds and rejected batches,    *)
(* shows readers only the chains PublishedChain promises (INV-1..4, 11,    *)
(* 12, 14).                                                                *)
THEOREM IngestionRefinement == ProcessSpec => ImplementsPublished
<1>1. ProcessInit => Abstract!Init
  <2> SUFFICES ASSUME ProcessInit PROVE Abstract!Init
    OBVIOUS
  <2>1. PICK seed \in Seeds : chain = NewChain(seed)
    BY DEF ProcessInit, Init
  <2>2. Len(chain.blocks) = 1 /\ chain.finalized_head = 1
    BY <2>1, IngestionSeedsAssumption, NewChainCommitted
  <2> QED BY <2>2 DEF Abstract!Init
<1>2. IngestionInvariant /\ [ProcessNext]_allVars => [Abstract!Next]_(Abstract!vars)
  <2> SUFFICES ASSUME IngestionInvariant, [ProcessNext]_allVars
               PROVE  [Abstract!Next]_(Abstract!vars)
    OBVIOUS
  <2>0. WellFormedChain(chain')
    BY ProcessStepKeeps DEF IngestionInvariant
  <2>1. CASE chain' = chain
    BY <2>1 DEF Abstract!vars
  <2>2. CASE /\ WithinWindow(chain'.blocks, chain'.finalized_head)
             /\ KeepsFinalized(chain.blocks, chain.finalized_head,
                               chain'.blocks, chain'.finalized_head)
    <3>1. Abstract!WellFormed(chain'.blocks, chain'.finalized_head)
      BY <2>0, <2>2 DEF Abstract!WellFormed, WellFormedChain, Abstract!Linked, Linked,
                        Abstract!IsChain, IsChain, Abstract!Ref, Ref, Abstract!ParentRef,
                        ParentRef, Abstract!WithinWindow, WithinWindow
    <3>2. Abstract!KeepsFinalized(chain.blocks, chain.finalized_head,
                                  chain'.blocks, chain'.finalized_head)
      BY <2>2 DEF Abstract!KeepsFinalized, KeepsFinalized
    <3> QED BY <3>1, <3>2 DEF Abstract!Publish, Abstract!Next
  <2>3. CASE /\ Len(chain'.blocks) = 1 /\ chain'.finalized_head = 1
             /\ Agrees(chain.blocks, chain'.blocks[1])
    BY <2>3 DEF Abstract!Reseed, Abstract!Next, Abstract!Agrees, Agrees
  <2> QED BY <2>1, <2>2, <2>3, ProcessStepKeeps
<1> QED BY <1>1, <1>2, IngestionInvariantHolds, PTL DEF ProcessSpec, ImplementsPublished, Abstract!Spec

-----------------------------------------------------------------------------
(* The process.                                                            *)

(* A shutdown is called clean only with a cause: a signal was sent, or the *)
(* run had already ended by a stop.  The code 0 is given only to a process *)
(* that is gone, whose run has ended and whose responses are finished.     *)
ExitInvariant ==
  /\ sent \in Nat /\ signals \in 0 .. sent
  /\ reason = "Clean" => sent > 0 \/ (pc = "ended" /\ run_end = "Stopped")
  /\ exit = 0 => main = "exited" /\ pc = "ended" /\ ~responses /\ reason = "Clean"

(* The end of the run is final: no step of the task starts from it.        *)
LEMMA EndIsFinal ==
  ASSUME TaskStep \/ Shutdown \/ TaskPanics \/ UNCHANGED vars, pc = "ended"
  PROVE  pc' = pc /\ run_end' = run_end
<1>1. ~Streaming
  BY DEF Streaming
<1>2. CASE UNCHANGED vars
  BY <1>2 DEF vars
<1> QED BY <1>1, <1>2 DEF TaskStep, Halt, OpenSession, BeginReseed, AnyReseed, Reseed, ReseedFails,
        Deliver, DeliverMalformed, StreamFails, StreamEnds, DeliverStopped, CancelSession,
        SignalFork, Resolve, Resolving, StartupFails, RestartSession, Rebase, DivergentFork,
        PauseOver, Stop, Abort, Shutdown, TaskPanics

(* IB-11: an exit code of 0 was asked for, and nothing was left undone.    *)
THEOREM CleanExit == ProcessSpec => []ExitZeroIsClean
<1>1. ProcessInit => ExitInvariant
  BY DEF ProcessInit, ExitInvariant
<1>2. ExitInvariant /\ [ProcessNext]_allVars => ExitInvariant'
  <2> SUFFICES ASSUME ExitInvariant, [ProcessNext]_allVars PROVE ExitInvariant'
    OBVIOUS
  <2>0. pc = "ended" => pc' = pc /\ run_end' = run_end
    BY EndIsFinal, ProcessSteps
  <2>1. CASE Serve \/ StartFails \/ Respond \/ Gone
    BY <2>0, <2>1 DEF Serve, StartFails, Respond, Gone, Exit, allVars, lifeVars, ExitInvariant
  <2>2. CASE Ingest \/ TaskPanics
    BY <2>0, <2>2 DEF Ingest, TaskPanics, lifeVars, ExitInvariant
  <2>3. CASE Signal
    BY <2>0, <2>3 DEF Signal, ExitInvariant
  <2>4. CASE TakeSignal
    BY <2>0, <2>4 DEF TakeSignal, LeaveServing, ExitInvariant
  <2>5. CASE TakeStarted
    BY <2>0, <2>5 DEF TakeStarted, LeaveServing, ExitInvariant
  <2>6. CASE TakeEnded
    BY <2>0, <2>6 DEF TakeEnded, LeaveServing, ClassifyRunEnd, ExitInvariant
  <2>7. CASE Drained \/ GraceOver
    BY <2>0, <2>7 DEF Drained, GraceOver, Exit, ExitCode, ExitInvariant
  <2>8. CASE SecondSignal
    BY <2>0, <2>8 DEF SecondSignal, Exit, ExitInvariant
  <2>9. CASE UNCHANGED allVars
    BY <2>0, <2>9 DEF allVars, lifeVars, ExitInvariant
  <2> QED BY <2>1, <2>2, <2>3, <2>4, <2>5, <2>6, <2>7, <2>8, <2>9 DEF ProcessNext
<1>3. ExitInvariant => ExitZeroIsClean
  BY DEF ExitInvariant, ExitZeroIsClean
<1> QED BY <1>1, <1>2, <1>3, PTL DEF ProcessSpec
=============================================================================
