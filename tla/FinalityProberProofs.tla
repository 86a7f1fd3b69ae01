------------------------ MODULE FinalityProberProofs ------------------------
(***************************************************************************)
(* Proofs about the finality prober of source.rs, for every height of the  *)
(* stream, capacity of the channels and size of a round.                   *)
(***************************************************************************)
EXTENDS FinalityProber, SequenceTheorems, FiniteSetTheorems, WellFoundedInduction, TLAPS

-----------------------------------------------------------------------------
(* The inductive invariant.                                                *)

(* A height a watermark may name: of a block delivered, among the blocks   *)
(* d, and final, with the upstream at u.                                   *)
Watermark(n, d, u) == n = 0 \/ (n \in 1 .. Len(d) /\ d[n] /\ n <= u)

Message == [kind : {"candidate", "settled"}, number : Nat]

TypeOK ==
  /\ delivered \in Seq(BOOLEAN)
  /\ {current_finalized, confirmed, report, upstream} \subseteq Nat
  /\ ingress \in Seq(Message)
  /\ results \in Seq(Nat) /\ queue \in Seq(Nat) /\ probes \in Seq(Nat)

(* Heights in order, of the first `top` blocks of the stream.              *)
Climbing(s, top) == Ascending(s) /\ \A i \in DOMAIN s : s[i] \in 1 .. top

(* All of one list is below all of the next.                               *)
Before(s, t) == \A i \in DOMAIN s : \A j \in DOMAIN t : s[i] < t[j]

Numbers(msgs) == [i \in DOMAIN msgs |-> msgs[i].number]

(* What makes the answer to a round one to a prefix of it: the heights     *)
(* under way to be confirmed ascend from the probes of the round through   *)
(* the queue to the channel that feeds it.                                 *)
Ordered ==
  /\ Climbing(probes, Len(delivered)) /\ Climbing(queue, Len(delivered))
  /\ Climbing(Numbers(ingress), Len(delivered))
  /\ Before(probes, queue)
  /\ Before(probes, Numbers(ingress)) /\ Before(queue, Numbers(ingress))

(* Every watermark, also one still in a channel, is of a final block.      *)
Truthful ==
  /\ \A n \in {current_finalized, confirmed, report} : Watermark(n, delivered, upstream)
  /\ \A i \in DOMAIN results : Watermark(results[i], delivered, upstream)
  /\ \A i \in DOMAIN ingress :
       ingress[i].kind = "settled" => Watermark(ingress[i].number, delivered, upstream)

(* The inductive invariant behind WatermarkTrue.  The order is needed:     *)
(* answers are counted, not named, so a probe out of order would be        *)
(* confirmed by the answer to another.                                     *)
ProberInvariant == TypeOK /\ Ordered /\ Truthful

-----------------------------------------------------------------------------
(* Greatest elements and counts.                                           *)

(* A set of naturals that is not empty has a least element.                *)
LEMMA LeastExists ==
  ASSUME NEW S \in SUBSET Nat, S # {}
  PROVE  Min(S) \in S /\ \A y \in S : Min(S) <= y
<1> DEFINE R == OpToRel(<, Nat)
<1>1. PICK x \in S : \A y \in S : ~(<<y, x>> \in R)
  <2>1. IsWellFoundedOn(R, Nat)
    BY NatLessThanWellFounded
  <2> HIDE DEF R
  <2> QED BY <2>1, WFMin
<1>2. \A y \in S : x <= y
  <2> TAKE y \in S
  <2>1. x \in Nat /\ y \in Nat
    OBVIOUS
  <2>2. y < x => <<y, x>> \in R
    BY <2>1 DEF OpToRel
  <2>3. ~(<<y, x>> \in R)
    BY <1>1
  <2> HIDE DEF R
  <2>4. ~(y < x)
    BY <2>2, <2>3
  <2> QED BY <2>1, <2>4
<1> QED BY <1>2 DEF Min

(* A set of naturals with a bound has a greatest element.                  *)
LEMMA MaxIs ==
  ASSUME NEW n \in Nat, NEW S \in SUBSET (0 .. n), S # {}
  PROVE  Max(S) \in S /\ \A y \in S : y <= Max(S)
<1> DEFINE U == {u \in Nat : \A y \in S : y <= u}
<1>1. U \in SUBSET Nat /\ n \in U
  OBVIOUS
<1>2. PICK m \in U : \A u \in U : m <= u
  BY <1>1, LeastExists
<1>3. m \in S
  <2> SUFFICES ASSUME m \notin S PROVE FALSE
    OBVIOUS
  <2>1. m \in Nat /\ \A y \in S : y \in Nat /\ y < m
    OBVIOUS
  <2>2. m > 0
    <3>1. PICK y \in S : TRUE
      OBVIOUS
    <3> QED BY <2>1, <3>1
  <2>3. m - 1 \in U
    BY <2>1, <2>2
  <2> QED BY <1>2, <2>1, <2>3
<1> QED BY <1>2, <1>3 DEF Max

(* The smaller of two lengths.                                             *)
LEMMA MinIs ==
  ASSUME NEW a \in Nat, NEW b \in Nat
  PROVE  Min({a, b}) = IF a <= b THEN a ELSE b
BY DEF Min

(* In an ascending list the heights not above a bound are a prefix, as     *)
(* long as there are such heights: so an answer of that length is, height  *)
(* by height, to probes not above the bound.                               *)
LEMMA CountIsPrefix ==
  ASSUME NEW s \in Seq(Nat), Ascending(s), NEW known \in Nat,
         NEW i \in 1 .. Cardinality({j \in DOMAIN s : s[j] <= known})
  PROVE  i \in DOMAIN s /\ s[i] <= known
<1> DEFINE D == {j \in DOMAIN s : s[j] <= known}
<1>0. DOMAIN s = 1 .. Len(s) /\ Len(s) \in Nat /\ \A j \in 1 .. Len(s) : s[j] \in Nat
  OBVIOUS
<1>1. CASE D = {}
  <2>1. Cardinality(D) = 0
    BY <1>1, FS_EmptySet
  <2> QED BY <2>1
<1>2. CASE D # {}
  <2> DEFINE m == Max(D)
  <2>1. m \in D /\ \A y \in D : m >= y
    <3>1. D \in SUBSET (0 .. Len(s))
      BY <1>0
    <3> HIDE DEF D
    <3> QED BY <1>0, <1>2, <3>1, MaxIs
  <2> HIDE DEF m
  <2>2. m \in 1 .. Len(s) /\ s[m] <= known
    BY <1>0, <2>1
  <2>3. ASSUME NEW j \in 1 .. m PROVE j \in 1 .. Len(s) /\ s[j] <= known
    <3>1. j \in 1 .. Len(s)
      BY <2>2
    <3>2. CASE j = m
      BY <2>2, <3>2
    <3>3. CASE j < m
      <4>1. j \in DOMAIN s /\ m \in DOMAIN s
        BY <1>0, <2>2, <3>1
      <4>2. s[j] < s[m]
        BY <3>3, <4>1 DEF Ascending
      <4>3. s[j] \in Nat /\ s[m] \in Nat /\ s[m] <= known
        BY <1>0, <2>2, <3>1
      <4> QED BY <3>1, <4>2, <4>3
    <3>4. j = m \/ j < m
      BY <2>2, <3>1
    <3> QED BY <3>2, <3>3, <3>4
  <2>4. D = 1 .. m
    BY <1>0, <2>1, <2>2, <2>3
  <2>5. Cardinality(D) = m
    <3>1. Cardinality(1 .. m) = IF 1 > m THEN 0 ELSE m - 1 + 1
      BY <2>2, FS_Interval
    <3>2. m \in Nat /\ m >= 1
      BY <1>0, <2>2
    <3> HIDE DEF D
    <3> QED BY <2>4, <3>1, <3>2
  <2> QED BY <1>0, <2>3, <2>5
<1> QED BY <1>1, <1>2

-----------------------------------------------------------------------------
(* Lists of heights.                                                       *)

(* Every height of s is one of t, and s ascends.                           *)
Thins(s, t) ==
  /\ s \in Seq(Nat) /\ Ascending(s)
  /\ \A i \in DOMAIN s : \E j \in DOMAIN t : s[i] = t[j]

(* A thinned list is as climbing, and as far below or above another.       *)
LEMMA ThinnedKeeps ==
  ASSUME NEW t \in Seq(Nat), NEW s, Thins(s, t)
  PROVE  /\ \A top : Climbing(t, top) => Climbing(s, top)
         /\ \A u : Before(t, u) => Before(s, u)
         /\ \A u : Before(u, t) => Before(u, s)
BY DEF Thins, Climbing, Before

(* Part of an ascending list is a thinned list.                            *)
LEMMA PartThins ==
  ASSUME NEW t \in Seq(Nat), Ascending(t), NEW a \in 1 .. Len(t) + 1, NEW b \in 0 .. Len(t)
  PROVE  Thins(SubSeq(t, a, b), t)
<1> DEFINE s == SubSeq(t, a, b)
<1>1. /\ s \in Seq(Nat) /\ Len(s) = IF a <= b THEN b - a + 1 ELSE 0
      /\ \A i \in 1 .. Len(s) : s[i] = t[a + i - 1] /\ a + i - 1 \in 1 .. Len(t)
  <2>1. s \in Seq(Nat) /\ Len(s) = IF a <= b THEN b - a + 1 ELSE 0
    OBVIOUS
  <2>2. \A i \in 1 .. Len(s) : a + i - 1 \in 1 .. Len(t)
    BY <2>1
  <2>3. \A i \in 1 .. Len(s) : s[i] = t[a + i - 1]
    BY <2>1
  <2> QED BY <2>1, <2>2, <2>3
<1>2. DOMAIN s = 1 .. Len(s) /\ DOMAIN t = 1 .. Len(t) /\ Len(t) \in Nat /\ Len(s) \in Nat
  BY <1>1
<1> HIDE DEF s
<1>3. Ascending(s)
  <2> SUFFICES ASSUME NEW i \in 1 .. Len(s), NEW j \in 1 .. Len(s), i < j PROVE s[i] < s[j]
    BY <1>2 DEF Ascending
  <2>1. a + i - 1 < a + j - 1
    BY <1>2
  <2> QED BY <1>1, <1>2, <2>1 DEF Ascending
<1>4. ASSUME NEW i \in DOMAIN s PROVE \E j \in DOMAIN t : s[i] = t[j]
  BY <1>1, <1>2
<1> QED BY <1>1, <1>3, <1>4 DEF Thins, s

(* Two climbing lists, one below the other, make one.                      *)
LEMMA JoinClimbs ==
  ASSUME NEW s \in Seq(Nat), NEW t \in Seq(Nat), NEW top,
         Climbing(s, top), Climbing(t, top), Before(s, t)
  PROVE  Climbing(s \o t, top) /\ s \o t \in Seq(Nat)
<1> DEFINE w == s \o t
<1>1. /\ Len(s) \in Nat /\ Len(t) \in Nat /\ w \in Seq(Nat) /\ Len(w) = Len(s) + Len(t)
      /\ DOMAIN s = 1 .. Len(s) /\ DOMAIN t = 1 .. Len(t) /\ DOMAIN w = 1 .. Len(w)
  OBVIOUS
<1>2. \A i \in 1 .. Len(w) : w[i] = IF i <= Len(s) THEN s[i] ELSE t[i - Len(s)]
  OBVIOUS
<1> HIDE DEF w
<1>3. \A i \in 1 .. Len(w) : w[i] \in 1 .. top
  <2> TAKE i \in 1 .. Len(w)
  <2>1. i <= Len(s) => i \in DOMAIN s
    BY <1>1
  <2>2. ~(i <= Len(s)) => i - Len(s) \in DOMAIN t
    BY <1>1
  <2> QED BY <1>2, <2>1, <2>2 DEF Climbing
<1>4. ASSUME NEW i \in 1 .. Len(w), NEW j \in 1 .. Len(w), i < j PROVE w[i] < w[j]
  <2>1. CASE j <= Len(s)
    <3>1. i \in DOMAIN s /\ j \in DOMAIN s
      BY <1>1, <1>4, <2>1
    <3>2. i <= Len(s)
      BY <1>1, <3>1
    <3> QED BY <1>2, <1>4, <2>1, <3>1, <3>2 DEF Climbing, Ascending
  <2>2. CASE i <= Len(s) /\ ~(j <= Len(s))
    <3>1. i \in DOMAIN s /\ j - Len(s) \in DOMAIN t
      BY <1>1, <2>2
    <3> QED BY <1>2, <2>2, <3>1 DEF Before
  <2>3. CASE ~(i <= Len(s))
    <3>1. i - Len(s) \in DOMAIN t /\ j - Len(s) \in DOMAIN t /\ i - Len(s) < j - Len(s)
      BY <1>1, <1>4, <2>3
    <3>2. ~(j <= Len(s))
      BY <1>1, <1>4, <2>3
    <3> QED BY <1>2, <2>3, <3>1, <3>2 DEF Climbing, Ascending
  <2> QED BY <1>1, <2>1, <2>2, <2>3
<1> QED BY <1>1, <1>3, <1>4 DEF Climbing, Ascending, w

(* What both lists are below, or above, their join is below, or above.     *)
LEMMA JoinBefore ==
  ASSUME NEW s \in Seq(Nat), NEW t \in Seq(Nat), NEW u
  PROVE  /\ Before(s, u) /\ Before(t, u) => Before(s \o t, u)
         /\ Before(u, s) /\ Before(u, t) => Before(u, s \o t)
<1> DEFINE w == s \o t
<1>1. /\ Len(s) \in Nat /\ Len(t) \in Nat /\ Len(w) = Len(s) + Len(t)
      /\ DOMAIN s = 1 .. Len(s) /\ DOMAIN t = 1 .. Len(t) /\ DOMAIN w = 1 .. Len(w)
  OBVIOUS
<1>2. \A i \in 1 .. Len(w) : w[i] = IF i <= Len(s) THEN s[i] ELSE t[i - Len(s)]
  OBVIOUS
<1> HIDE DEF w
<1>3. \A i \in DOMAIN w : \/ i \in DOMAIN s /\ w[i] = s[i]
                          \/ i - Len(s) \in DOMAIN t /\ w[i] = t[i - Len(s)]
  <2> TAKE i \in DOMAIN w
  <2>1. CASE i <= Len(s)
    BY <1>1, <1>2, <2>1
  <2>2. CASE ~(i <= Len(s))
    BY <1>1, <1>2, <2>2
  <2> QED BY <2>1, <2>2
<1>4. Before(s, u) /\ Before(t, u) => Before(w, u)
  BY <1>3 DEF Before
<1>5. Before(u, s) /\ Before(u, t) => Before(u, w)
  BY <1>3 DEF Before
<1> QED BY <1>4, <1>5 DEF w

-----------------------------------------------------------------------------
(* What the prober does to its queue.                                      *)

(* Settling takes heights off the front of the queue.                      *)
LEMMA AfterThins ==
  ASSUME TypeOK, Ascending(queue), NEW n \in Nat
  PROVE  Thins(After(n), queue)
<1> DEFINE S == {i \in 0 .. Len(queue) : \A j \in 1 .. i : queue[j] <= n}
<1>1. queue \in Seq(Nat) /\ Len(queue) \in Nat
  BY DEF TypeOK
<1>2. S \in SUBSET (0 .. Len(queue)) /\ 0 \in S
  BY <1>1
<1>3. Max(S) \in 0 .. Len(queue)
  <2>1. Max(S) \in S
    <3> HIDE DEF S
    <3> QED BY <1>1, <1>2, MaxIs
  <2> QED BY <2>1
<1>4. After(n) = SubSeq(queue, Max(S) + 1, Len(queue))
  BY DEF After
<1> HIDE DEF S
<1>5. Max(S) + 1 \in 1 .. Len(queue) + 1 /\ Len(queue) \in 0 .. Len(queue)
  BY <1>1, <1>3
<1> QED BY <1>1, <1>4, <1>5, PartThins

(* One turn of the walk over the probes: what goes back of the first i,    *)
(* when `below` are the turns before.                                      *)
BackStep(infos, i, below) ==
  IF i <= WalkStop(infos) THEN << >>
  ELSE IF Refutes(infos, i) THEN below[i - 1]
  ELSE Append(below[i - 1], probes[i])

(* Induction over the naturals, as a statement about sets.                 *)
LEMMA SetInduction ==
  ASSUME NEW S, 0 \in S, \A n \in Nat : n \in S => n + 1 \in S
  PROVE  Nat \subseteq S
<1> DEFINE T == Nat \ S
<1> SUFFICES ASSUME T # {} PROVE FALSE
  OBVIOUS
<1>1. Min(T) \in T /\ \A y \in T : Min(T) <= y
  BY LeastExists
<1> DEFINE x == Min(T)
<1> HIDE DEF x
<1>2. x \in Nat /\ x # 0 /\ x \notin S
  BY <1>1 DEF x
<1>3. x - 1 \in Nat /\ x - 1 < x /\ (x - 1) + 1 = x
  BY <1>2
<1>4. x - 1 \in T
  BY <1>2, <1>3
<1> QED BY <1>1, <1>3, <1>4 DEF x

(* The walk exists and is computed turn by turn.                           *)
LEMMA BackUnfolds ==
  ASSUME TypeOK, NEW infos, WalkStop(infos) \in Nat
  PROVE  \E back : /\ \A i \in 0 .. Len(probes) : back[i] = BackStep(infos, i, back)
                   /\ Returned(infos) = back[Len(probes)]
<1> DEFINE N == Len(probes)
           Is(f, n) == f = [i \in 0 .. n |-> BackStep(infos, i, f)]
           Good == {n \in Nat : \E f : Is(f, n)}
<1>0. N \in Nat
  BY DEF TypeOK
<1>1. ASSUME NEW i \in Nat, NEW f, NEW g, \A j \in 0 .. i - 1 : f[j] = g[j]
      PROVE  BackStep(infos, i, f) = BackStep(infos, i, g)
  <2>1. CASE i = 0
    BY <2>1 DEF BackStep
  <2>2. CASE i # 0
    <3>1. f[i - 1] = g[i - 1]
      BY <1>1, <2>2
    <3> QED BY <3>1 DEF BackStep
  <2> QED BY <2>1, <2>2
<1>2. 0 \in Good
  <2> DEFINE f == [i \in 0 .. 0 |-> BackStep(infos, i, << >>)]
  <2>1. \A i \in 0 .. 0 : BackStep(infos, i, << >>) = BackStep(infos, i, f)
    <3> TAKE i \in 0 .. 0
    <3>1. i \in Nat /\ \A j \in 0 .. i - 1 : << >>[j] = f[j]
      OBVIOUS
    <3> HIDE DEF f
    <3> QED BY <1>1, <3>1
  <2>2. Is(f, 0)
    BY <2>1
  <2> QED BY <2>2
<1>3. ASSUME NEW n \in Nat, n \in Good PROVE n + 1 \in Good
  <2>1. PICK f : Is(f, n)
    BY <1>3
  <2> DEFINE g == [i \in 0 .. n + 1 |-> BackStep(infos, i, f)]
  <2>2. \A i \in 0 .. n : f[i] = BackStep(infos, i, f)
    BY <2>1
  <2>3. \A i \in 0 .. n : g[i] = f[i]
    BY <2>2
  <2>4. ASSUME NEW i \in 0 .. n + 1
        PROVE  BackStep(infos, i, f) = BackStep(infos, i, g)
    <3>1. i \in Nat /\ \A j \in 0 .. i - 1 : f[j] = g[j]
      BY <2>3
    <3> HIDE DEF g
    <3> QED BY <1>1, <3>1
  <2>5. Is(g, n + 1)
    <3> DEFINE h == [i \in 0 .. n + 1 |-> BackStep(infos, i, g)]
    <3>1. g = h
      BY <2>4
    <3> QED BY <3>1
  <2>6. n + 1 \in Nat
    OBVIOUS
  <2> HIDE DEF Is, g
  <2> QED BY <2>5, <2>6
<1>4. \E f : Is(f, N)
  <2>1. N \in Good
    <3> HIDE DEF Good, N
    <3> QED BY <1>0, <1>2, <1>3, SetInduction
  <2> QED BY <2>1
<1> DEFINE back == CHOOSE f : Is(f, N)
<1>5. Is(back, N)
  BY <1>4
<1>6. Returned(infos) = back[N]
  BY DEF Returned, BackStep
<1> HIDE DEF back
<1>7. \A i \in 0 .. N : back[i] = BackStep(infos, i, back)
  BY <1>5
<1> QED BY <1>6, <1>7

(* What goes back to the queue is a thinned list of the probes.            *)
LEMMA ReturnedThins ==
  ASSUME TypeOK, Ascending(probes), NEW infos, WalkStop(infos) \in Nat
  PROVE  Thins(Returned(infos), probes)
<1> DEFINE N == Len(probes)
<1>0. N \in Nat /\ DOMAIN probes = 1 .. N /\ \A i \in 1 .. N : probes[i] \in Nat
  BY DEF TypeOK
<1>1. PICK back : /\ \A i \in 0 .. N : back[i] = BackStep(infos, i, back)
                  /\ Returned(infos) = back[N]
  BY BackUnfolds
<1> DEFINE Upto(s, i) == /\ s \in Seq(Nat) /\ Ascending(s)
                         /\ \A a \in DOMAIN s : \E j \in 1 .. i : s[a] = probes[j]
           Good == {n \in Nat : n <= N => Upto(back[n], n)}
<1>2. << >> \in Seq(Nat) /\ DOMAIN << >> = {} /\ \A i : Upto(<< >>, i)
  BY DEF Ascending
<1>3. 0 \in Good
  <2>1. back[0] = << >>
    BY <1>0, <1>1 DEF BackStep
  <2> HIDE DEF Upto
  <2> QED BY <1>2, <2>1
<1>4. ASSUME NEW n \in Nat, n \in Good PROVE n + 1 \in Good
  <2> SUFFICES ASSUME n + 1 <= N PROVE Upto(back[n + 1], n + 1)
    OBVIOUS
  <2>0. n + 1 \in 1 .. N /\ n \in 0 .. N /\ (n + 1) - 1 = n
    BY <1>0
  <2>1. Upto(back[n], n)
    BY <1>4, <2>0
  <2>2. back[n + 1] \in {<< >>, back[n], Append(back[n], probes[n + 1])}
    <3>1. back[n + 1] = BackStep(infos, n + 1, back)
      BY <1>1, <2>0
    <3> QED BY <2>0, <3>1 DEF BackStep
  <2>3. CASE back[n + 1] = << >>
    <3> HIDE DEF Upto
    <3> QED BY <1>2, <2>3
  <2>4. CASE back[n + 1] = back[n]
    BY <2>0, <2>1, <2>4
  <2>5. CASE back[n + 1] = Append(back[n], probes[n + 1])
    <3> DEFINE s == back[n]
               x == probes[n + 1]
               t == Append(s, x)
    <3>1. s \in Seq(Nat) /\ x \in Nat /\ Len(s) \in Nat /\ DOMAIN s = 1 .. Len(s)
      BY <1>0, <2>0, <2>1
    <3>2. \A a \in DOMAIN s : s[a] < x
      <4> TAKE a \in DOMAIN s
      <4>1. PICK j \in 1 .. n : s[a] = probes[j]
        BY <2>1
      <4>2. j \in 1 .. N /\ j < n + 1
        BY <1>0, <2>0
      <4> QED BY <1>0, <2>0, <4>1, <4>2 DEF Ascending
    <3>3. Ascending(s) /\ \A a \in DOMAIN s : \E j \in 1 .. n : s[a] = probes[j]
      BY <2>1
    <3> HIDE DEF s, x
    <3>4. /\ t \in Seq(Nat) /\ DOMAIN t = 1 .. Len(s) + 1
          /\ t[Len(s) + 1] = x /\ \A a \in DOMAIN s : t[a] = s[a]
      BY <3>1
    <3> HIDE DEF t
    <3>5. \A a \in DOMAIN t : a \in DOMAIN s \/ a = Len(s) + 1
      BY <3>1, <3>4
    <3>6. ASSUME NEW a \in DOMAIN t, NEW b \in DOMAIN t, a < b PROVE t[a] < t[b]
      <4>1. a \in DOMAIN s
        BY <3>1, <3>4, <3>5, <3>6
      <4>2. CASE b \in DOMAIN s
        BY <3>3, <3>4, <3>6, <4>1, <4>2 DEF Ascending
      <4>3. CASE b = Len(s) + 1
        BY <3>2, <3>4, <4>1, <4>3
      <4> QED BY <3>5, <4>2, <4>3
    <3>7. ASSUME NEW a \in DOMAIN t PROVE \E j \in 1 .. n + 1 : t[a] = probes[j]
      <4>1. CASE a \in DOMAIN s
        <5>1. PICK j \in 1 .. n : s[a] = probes[j]
          BY <3>3, <4>1
        <5>2. j \in 1 .. n + 1
          OBVIOUS
        <5> QED BY <3>4, <4>1, <5>1, <5>2
      <4>2. CASE a = Len(s) + 1
        <5>1. n + 1 \in 1 .. n + 1
          OBVIOUS
        <5> QED BY <3>4, <4>2, <5>1 DEF x
      <4> QED BY <3>5, <4>1, <4>2
    <3>8. back[n + 1] = t
      BY <2>5 DEF t, s, x
    <3> QED BY <3>4, <3>6, <3>7, <3>8 DEF Ascending
  <2> HIDE DEF Upto
  <2> QED BY <2>2, <2>3, <2>4, <2>5
<1>5. N \in Good
  <2> HIDE DEF Good, N
  <2> QED BY <1>0, <1>3, <1>4, SetInduction
<1>6. Upto(Returned(infos), N)
  BY <1>0, <1>1, <1>5
<1> QED BY <1>0, <1>6 DEF Thins

-----------------------------------------------------------------------------
(* The steps.                                                              *)

(* What is final stays final while blocks are added and finality rises.    *)
LEMMA WatermarkStays ==
  ASSUME NEW d \in Seq(BOOLEAN), NEW e \in Seq(BOOLEAN), NEW u \in Nat, NEW v \in Nat,
         NEW n \in Nat, Watermark(n, d, u),
         Len(d) <= Len(e), \A i \in 1 .. Len(d) : e[i] = d[i], u <= v
  PROVE  Watermark(n, e, v)
<1>1. CASE n = 0
  BY <1>1 DEF Watermark
<1>2. CASE n # 0
  <2>1. n \in 1 .. Len(d) /\ d[n] /\ n <= u
    BY <1>2 DEF Watermark
  <2>2. e[n] = d[n]
    BY <2>1, Zenon
  <2>3. n \in 1 .. Len(e) /\ n <= v
    <3>1. Len(d) \in Nat /\ Len(e) \in Nat
      OBVIOUS
    <3> QED BY <2>1, <3>1
  <2> QED BY <2>1, <2>2, <2>3 DEF Watermark
<1> QED BY <1>1, <1>2

(* The later of two watermarks is one.                                     *)
LEMMA LaterIs ==
  ASSUME NEW a \in Nat, NEW b \in Nat
  PROVE  Later(a, b) \in {a, b} /\ Later(a, b) \in Nat
BY DEF Later

(* A fresh stream and its prober hold nothing.                             *)
LEMMA InitHolds == Init => ProberInvariant
<1> SUFFICES ASSUME Init PROVE ProberInvariant
  OBVIOUS
<1>1. << >> \in Seq(Nat) /\ << >> \in Seq(BOOLEAN) /\ << >> \in Seq(Message) /\ DOMAIN << >> = {}
  OBVIOUS
<1>2. DOMAIN Numbers(<< >>) = {}
  BY DEF Numbers
<1>3. TypeOK
  BY <1>1 DEF Init, TypeOK
<1>4. Ordered
  BY <1>1, <1>2 DEF Init, Ordered, Climbing, Ascending, Before
<1>5. Truthful
  BY <1>1 DEF Init, Truthful, Watermark
<1> QED BY <1>3, <1>4, <1>5 DEF ProberInvariant

(* The channel after offers: what was in it, and the first of them that    *)
(* fit.                                                                    *)
LEMMA OfferIs ==
  ASSUME NEW ch \in Seq(Message), NEW msgs \in Seq(Message)
  PROVE  \E n \in 0 .. Len(msgs) :
           /\ Offer(ch, msgs) \in Seq(Message) /\ Len(Offer(ch, msgs)) = Len(ch) + n
           /\ \A i \in 1 .. Len(ch) : Offer(ch, msgs)[i] = ch[i]
           /\ \A i \in 1 .. n : Offer(ch, msgs)[Len(ch) + i] = msgs[i]
<1> DEFINE room == QueueCap - Len(ch)
<1>0. Len(ch) \in Nat /\ Len(msgs) \in Nat /\ QueueCap \in Nat /\ room \in Int
  BY CapsAssumption
<1>1. CASE Len(msgs) <= room
  <2>1. Offer(ch, msgs) = ch \o msgs
    BY <1>1 DEF Offer
  <2>2. Len(msgs) \in 0 .. Len(msgs)
    BY <1>0
  <2>3. \A i \in 1 .. Len(msgs) : (ch \o msgs)[Len(ch) + i] = msgs[i]
    BY <1>0
  <2>4. /\ ch \o msgs \in Seq(Message) /\ Len(ch \o msgs) = Len(ch) + Len(msgs)
        /\ \A i \in 1 .. Len(ch) : (ch \o msgs)[i] = ch[i]
    BY <1>0
  <2> QED BY <2>1, <2>2, <2>3, <2>4
<1>2. CASE ~(Len(msgs) <= room)
  <2> DEFINE t == SubSeq(msgs, 1, room)
             n == IF room < 0 THEN 0 ELSE room
  <2>1. Offer(ch, msgs) = ch \o t
    BY <1>2 DEF Offer
  <2>2. n \in 0 .. Len(msgs)
    BY <1>0, <1>2
  <2>3. t \in Seq(Message) /\ Len(t) = n /\ \A i \in 1 .. n : t[i] = msgs[i]
    BY <1>0, <1>2
  <2> HIDE DEF t, n
  <2>4. \A i \in 1 .. n : (ch \o t)[Len(ch) + i] = t[i]
    BY <1>0, <2>2, <2>3
  <2>5. /\ ch \o t \in Seq(Message) /\ Len(ch \o t) = Len(ch) + n
        /\ \A i \in 1 .. Len(ch) : (ch \o t)[i] = ch[i]
    BY <1>0, <2>2, <2>3
  <2> QED BY <2>1, <2>2, <2>3, <2>4, <2>5
<1> QED BY <1>1, <1>2

(* A position past the first a is one of those that follow.                *)
LEMMA PastTheEnd ==
  ASSUME NEW a \in Nat, NEW m \in Nat, NEW n \in 0 .. m, NEW i \in 1 .. a + n, ~(i <= a)
  PROVE  i - a \in 1 .. n /\ i - a \in 1 .. m /\ i = a + (i - a)
OBVIOUS

(* A delivery: blocks are added, and what is offered of them lies above    *)
(* everything under way.                                                   *)
LEMMA DeliveryKeeps ==
  ASSUME ProberInvariant, NEW msgs \in Seq(Message),
         delivered' \in Seq(BOOLEAN), Len(delivered) <= Len(delivered'),
         \A i \in 1 .. Len(delivered) : delivered'[i] = delivered[i],
         Ascending(Numbers(msgs)),
         \A i \in 1 .. Len(msgs) : msgs[i].number \in Len(delivered) + 1 .. Len(delivered'),
         \A i \in 1 .. Len(msgs) :
           msgs[i].kind = "settled" => Watermark(msgs[i].number, delivered', upstream),
         ingress' = Offer(ingress, msgs),
         current_finalized' \in Nat, Watermark(current_finalized', delivered', upstream),
         report' \in {report, current_finalized},
         UNCHANGED <<results, proberVars, upstream>>
  PROVE  ProberInvariant'
<1> DEFINE len == Len(delivered)
           len2 == Len(delivered')
           num == Numbers(ingress)
           num2 == Numbers(ingress')
<1>0. /\ delivered \in Seq(BOOLEAN) /\ ingress \in Seq(Message) /\ len \in Nat /\ len2 \in Nat
      /\ queue \in Seq(Nat) /\ probes \in Seq(Nat) /\ results \in Seq(Nat)
      /\ {current_finalized, confirmed, report, upstream} \subseteq Nat
      /\ Len(ingress) \in Nat /\ Len(msgs) \in Nat /\ len <= len2
  BY DEF ProberInvariant, TypeOK
<1>1. PICK n \in 0 .. Len(msgs) :
        /\ ingress' \in Seq(Message) /\ Len(ingress') = Len(ingress) + n
        /\ \A i \in 1 .. Len(ingress) : ingress'[i] = ingress[i]
        /\ \A i \in 1 .. n : ingress'[Len(ingress) + i] = msgs[i]
  BY <1>0, OfferIs
<1>2. /\ DOMAIN num2 = 1 .. Len(ingress) + n /\ DOMAIN num = 1 .. Len(ingress)
      /\ DOMAIN ingress' = 1 .. Len(ingress) + n /\ DOMAIN ingress = 1 .. Len(ingress)
      /\ \A i \in 1 .. Len(ingress) + n : num2[i] = ingress'[i].number
      /\ \A i \in 1 .. Len(ingress) : num[i] = ingress[i].number
      /\ DOMAIN Numbers(msgs) = 1 .. Len(msgs)
      /\ \A i \in 1 .. Len(msgs) : Numbers(msgs)[i] = msgs[i].number
  BY <1>0, <1>1 DEF Numbers
<1>3. Climbing(num, len) /\ Climbing(probes, len) /\ Climbing(queue, len)
  BY DEF ProberInvariant, Ordered
<1> HIDE DEF num, num2, len, len2
<1>4. \A i \in DOMAIN num2 :
        \/ i \in DOMAIN num /\ num2[i] = num[i]
        \/ /\ i - Len(ingress) \in 1 .. n /\ i - Len(ingress) \in DOMAIN Numbers(msgs)
           /\ num2[i] = Numbers(msgs)[i - Len(ingress)]
           /\ num2[i] \in len + 1 .. len2
  <2> TAKE i \in DOMAIN num2
  <2>1. CASE i <= Len(ingress)
    <3>1. i \in 1 .. Len(ingress) /\ i \in 1 .. Len(ingress) + n
      BY <1>0, <1>2, <2>1
    <3>2. ingress'[i] = ingress[i]
      BY <1>1, <3>1
    <3> QED BY <1>2, <3>1, <3>2
  <2>2. CASE ~(i <= Len(ingress))
    <3>1. i - Len(ingress) \in 1 .. n /\ i - Len(ingress) \in 1 .. Len(msgs)
          /\ i = Len(ingress) + (i - Len(ingress))
      <4>1. i \in 1 .. Len(ingress) + n
        BY <1>2
      <4>2. Len(ingress) \in Nat /\ Len(msgs) \in Nat
        BY <1>0
      <4> QED BY <2>2, <4>1, <4>2, PastTheEnd
    <3>2. ingress'[i] = msgs[i - Len(ingress)]
      BY <1>1, <3>1
    <3> QED BY <1>2, <3>1, <3>2 DEF len, len2
  <2> QED BY <2>1, <2>2
<1>5. Climbing(num2, len2)
  <2>0. len \in Nat /\ len2 \in Nat /\ len <= len2
    BY <1>0
  <2>1. ASSUME NEW i \in DOMAIN num2 PROVE num2[i] \in 1 .. len2
    <3>1. CASE i \in DOMAIN num /\ num2[i] = num[i]
      <4>1. num[i] \in 1 .. len
        BY <1>3, <3>1 DEF Climbing
      <4> QED BY <2>0, <3>1, <4>1
    <3>2. CASE num2[i] \in len + 1 .. len2
      BY <2>0, <3>2
    <3> QED BY <1>4, <3>1, <3>2
  <2>2. ASSUME NEW i \in DOMAIN num2, NEW j \in DOMAIN num2, i < j PROVE num2[i] < num2[j]
    <3>1. CASE j \in DOMAIN num /\ num2[j] = num[j]
      <4>0. Len(ingress) \in Nat /\ i \in 1 .. Len(ingress) + n /\ j \in 1 .. Len(ingress)
        BY <1>0, <1>2, <3>1
      <4>1. i \in 1 .. Len(ingress) /\ i \in DOMAIN num
        <5>1. i \in 1 .. Len(ingress)
          BY <2>2, <4>0
        <5> QED BY <1>2, <5>1
      <4>2. num2[i] = num[i]
        <5>1. ~(i - Len(ingress) \in 1 .. n)
          BY <4>0, <4>1
        <5> QED BY <1>4, <5>1
      <4> QED BY <1>3, <2>2, <3>1, <4>1, <4>2 DEF Climbing, Ascending
    <3>2. CASE /\ j - Len(ingress) \in 1 .. n /\ j - Len(ingress) \in DOMAIN Numbers(msgs)
               /\ num2[j] = Numbers(msgs)[j - Len(ingress)]
               /\ num2[j] \in len + 1 .. len2
      <4>1. CASE i \in DOMAIN num /\ num2[i] = num[i]
        <5>1. num[i] \in 1 .. len
          BY <1>3, <4>1 DEF Climbing
        <5> QED BY <2>0, <3>2, <4>1, <5>1
      <4>2. CASE /\ i - Len(ingress) \in DOMAIN Numbers(msgs)
                 /\ num2[i] = Numbers(msgs)[i - Len(ingress)]
        <5>1. i - Len(ingress) < j - Len(ingress)
          <6>1. Len(ingress) \in Nat /\ i \in Int /\ j \in Int
            BY <1>0, <1>2
          <6> QED BY <2>2, <6>1
        <5> QED BY <3>2, <4>2, <5>1 DEF Ascending
      <4> QED BY <1>4, <4>1, <4>2
    <3> QED BY <1>4, <3>1, <3>2
  <2> QED BY <2>1, <2>2 DEF Climbing, Ascending
<1>6. ASSUME NEW s, Climbing(s, len), Before(s, num) PROVE Climbing(s, len2) /\ Before(s, num2)
  <2>1. Climbing(s, len2)
    BY <1>0, <1>6 DEF Climbing
  <2>2. ASSUME NEW i \in DOMAIN s, NEW j \in DOMAIN num2 PROVE s[i] < num2[j]
    <3>1. s[i] \in 1 .. len
      BY <1>6 DEF Climbing
    <3>2. CASE j \in DOMAIN num /\ num2[j] = num[j]
      BY <1>6, <3>2 DEF Before
    <3>3. CASE num2[j] \in len + 1 .. len2
      BY <1>0, <3>1, <3>3
    <3> QED BY <1>4, <3>2, <3>3
  <2> QED BY <2>1, <2>2 DEF Before
<1>7. Ordered'
  <2>1. Before(probes, num) /\ Before(queue, num) /\ Before(probes, queue)
    BY DEF ProberInvariant, Ordered, num
  <2>2. probes' = probes /\ queue' = queue
    BY DEF proberVars
  <2>3. Climbing(probes, len2) /\ Before(probes, num2) /\ Climbing(queue, len2) /\ Before(queue, num2)
    BY <1>3, <1>6, <2>1
  <2> QED BY <1>5, <2>1, <2>2, <2>3 DEF Ordered, num2, len2
<1>8. ASSUME NEW m \in Nat, Watermark(m, delivered, upstream)
      PROVE  Watermark(m, delivered', upstream)
  BY <1>0, <1>8, WatermarkStays DEF len, len2
<1>9. Truthful'
  <2>1. /\ \A m \in {current_finalized, confirmed, report} : Watermark(m, delivered, upstream)
        /\ \A i \in DOMAIN results : Watermark(results[i], delivered, upstream)
        /\ \A i \in DOMAIN ingress :
             ingress[i].kind = "settled" => Watermark(ingress[i].number, delivered, upstream)
    BY DEF ProberInvariant, Truthful
  <2>2. \A m \in {current_finalized', confirmed, report'} : Watermark(m, delivered', upstream)
    BY <1>0, <1>8, <2>1
  <2>3. \A i \in DOMAIN results : Watermark(results[i], delivered', upstream)
    BY <1>0, <1>8, <2>1
  <2>4. ASSUME NEW i \in DOMAIN ingress', ingress'[i].kind = "settled"
        PROVE  Watermark(ingress'[i].number, delivered', upstream)
    <3>1. CASE i \in DOMAIN ingress
      <4>1. ingress'[i] = ingress[i] /\ ingress[i].number \in Nat
        <5>1. i \in 1 .. Len(ingress)
          BY <1>2, <3>1
        <5>2. ingress'[i] = ingress[i]
          BY <1>1, <5>1
        <5>3. ingress[i] \in Message
          BY <1>0, <5>1
        <5> QED BY <5>2, <5>3 DEF Message
      <4> QED BY <1>8, <2>1, <2>4, <3>1, <4>1
    <3>2. CASE i \notin DOMAIN ingress
      <4>1. i - Len(ingress) \in 1 .. n /\ i - Len(ingress) \in 1 .. Len(msgs)
            /\ i = Len(ingress) + (i - Len(ingress))
        <5>1. i \in 1 .. Len(ingress) + n /\ ~(i \in 1 .. Len(ingress))
          BY <1>2, <3>2
        <5>2. Len(ingress) \in Nat /\ Len(msgs) \in Nat /\ i \in Int
          BY <1>0, <5>1
        <5>3. ~(i <= Len(ingress))
          BY <5>1, <5>2
        <5> QED BY <5>1, <5>2, <5>3, PastTheEnd
      <4>2. ingress'[i] = msgs[i - Len(ingress)]
        BY <1>1, <4>1
      <4> QED BY <2>4, <4>1, <4>2
    <3> QED BY <3>1, <3>2
  <2>5. confirmed' = confirmed /\ results' = results /\ upstream' = upstream
    BY DEF proberVars
  <2> QED BY <2>2, <2>3, <2>4, <2>5 DEF Truthful
<1>10. TypeOK'
  <2>1. report' \in Nat
    BY <1>0
  <2> QED BY <1>0, <1>1, <2>1 DEF TypeOK, proberVars
<1> QED BY <1>7, <1>9, <1>10 DEF ProberInvariant

(* k more blocks at the end of the stream.                                 *)
LEMMA MoreBlocks ==
  ASSUME NEW d \in Seq(BOOLEAN), NEW k \in {1, 2}, NEW x \in BOOLEAN
  PROVE  LET e == d \o [i \in 1 .. k |-> x]
         IN  /\ e \in Seq(BOOLEAN) /\ Len(e) = Len(d) + k
             /\ \A i \in 1 .. Len(d) : e[i] = d[i]
             /\ e[Len(d) + k] = x
<1> DEFINE t == [i \in 1 .. k |-> x]
<1>1. t \in Seq(BOOLEAN) /\ Len(t) = k /\ t[k] = x /\ k \in Nat /\ k >= 1
  OBVIOUS
<1> HIDE DEF t
<1>2. /\ d \o t \in Seq(BOOLEAN) /\ Len(d \o t) = Len(d) + k
      /\ \A i \in 1 .. Len(d) : (d \o t)[i] = d[i]
  BY <1>1
<1>3. (d \o t)[Len(d) + k] = t[k]
  BY <1>1
<1> QED BY <1>1, <1>2, <1>3 DEF t

(* A batch of the head: its blocks are candidates, above all before them.  *)
LEMMA DeliverHeadKeeps ==
  ASSUME ProberInvariant, NEW k \in {1, 2}, NEW canonical \in BOOLEAN, DeliverHead(k, canonical)
  PROVE  ProberInvariant'
<1> DEFINE msgs == [i \in 1 .. k |-> Candidate(Len(delivered) + i)]
<1>0. delivered \in Seq(BOOLEAN) /\ Len(delivered) \in Nat /\ k \in Nat
  BY DEF ProberInvariant, TypeOK
<1>1. msgs \in Seq(Message) /\ Len(msgs) = k
  <2>1. \A i \in 1 .. k : Candidate(Len(delivered) + i) \in Message
    BY <1>0 DEF Candidate, Message
  <2> QED BY <1>0, <2>1, IsASeq
<1>2. \A i \in 1 .. k : msgs[i].number = Len(delivered) + i /\ msgs[i].kind = "candidate"
  BY DEF Candidate
<1>3. ingress' = Offer(ingress, msgs)
  BY DEF DeliverHead
<1>4. /\ delivered' \in Seq(BOOLEAN) /\ Len(delivered') = Len(delivered) + k
      /\ \A i \in 1 .. Len(delivered) : delivered'[i] = delivered[i]
  BY <1>0, MoreBlocks DEF DeliverHead
<1> HIDE DEF msgs
<1>5. Ascending(Numbers(msgs))
  <2>1. DOMAIN Numbers(msgs) = 1 .. k /\ \A i \in 1 .. k : Numbers(msgs)[i] = Len(delivered) + i
    BY <1>1, <1>2 DEF Numbers
  <2> QED BY <1>0, <2>1 DEF Ascending
<1>6. \A i \in 1 .. Len(msgs) : msgs[i].number \in Len(delivered) + 1 .. Len(delivered')
  BY <1>0, <1>1, <1>2, <1>4
<1>7. \A i \in 1 .. Len(msgs) : ~(msgs[i].kind = "settled")
  BY <1>1, <1>2
<1>8. Len(delivered) <= Len(delivered')
  BY <1>0, <1>4
<1>9. /\ report' = current_finalized /\ current_finalized' = current_finalized
      /\ UNCHANGED <<results, proberVars, upstream>>
  BY DEF DeliverHead
<1>10. current_finalized' \in Nat /\ Watermark(current_finalized', delivered', upstream)
  <2>1. /\ current_finalized \in Nat /\ upstream \in Nat
        /\ Watermark(current_finalized, delivered, upstream)
    BY DEF ProberInvariant, TypeOK, Truthful
  <2>2. upstream <= upstream
    BY <2>1
  <2> QED BY <1>0, <1>4, <1>8, <1>9, <2>1, <2>2, WatermarkStays
<1> QED BY <1>1, <1>3, <1>4, <1>5, <1>6, <1>7, <1>8, <1>9, <1>10, DeliveryKeeps

(* A batch of a final range: its last block settles all up to it.          *)
LEMMA DeliverFinalKeeps ==
  ASSUME ProberInvariant, NEW k \in {1, 2}, DeliverFinal(k)
  PROVE  ProberInvariant'
<1> DEFINE last == Len(delivered) + k
           msgs == <<Settled(last)>>
<1>0. delivered \in Seq(BOOLEAN) /\ Len(delivered) \in Nat /\ k \in Nat /\ k >= 1 /\ last \in Nat
  BY DEF ProberInvariant, TypeOK
<1>1. msgs \in Seq(Message) /\ Len(msgs) = 1 /\ msgs[1] = Settled(last)
  BY <1>0 DEF Settled, Message
<1>2. Settled(last).number = last
  BY DEF Settled
<1>3. ingress' = Offer(ingress, msgs) /\ last <= upstream
  BY DEF DeliverFinal
<1>4. /\ delivered' \in Seq(BOOLEAN) /\ Len(delivered') = last
      /\ \A i \in 1 .. Len(delivered) : delivered'[i] = delivered[i]
      /\ delivered'[last]
  <2>1. delivered' = delivered \o [i \in 1 .. k |-> TRUE] /\ TRUE \in BOOLEAN
    BY DEF DeliverFinal
  <2> QED BY <1>0, <2>1, MoreBlocks
<1>5. Watermark(last, delivered', upstream)
  BY <1>0, <1>3, <1>4 DEF Watermark
<1> HIDE DEF msgs, last
<1>6. Ascending(Numbers(msgs))
  <2>1. DOMAIN Numbers(msgs) = 1 .. 1
    BY <1>1 DEF Numbers
  <2> QED BY <2>1 DEF Ascending
<1>7. \A i \in 1 .. Len(msgs) : msgs[i].number = last
  BY <1>1, <1>2
<1>8. last \in Len(delivered) + 1 .. Len(delivered') /\ Len(delivered) <= Len(delivered')
  BY <1>0, <1>4 DEF last
<1>9. /\ report' = report /\ current_finalized' = Later(current_finalized, last)
      /\ UNCHANGED <<results, proberVars, upstream>>
  BY DEF DeliverFinal, last
<1>10. current_finalized' \in Nat /\ Watermark(current_finalized', delivered', upstream)
  <2>1. /\ current_finalized \in Nat /\ upstream \in Nat
        /\ Watermark(current_finalized, delivered, upstream)
    BY DEF ProberInvariant, TypeOK, Truthful
  <2>2. upstream <= upstream
    BY <2>1
  <2>3. Watermark(current_finalized, delivered', upstream)
    BY <1>0, <1>4, <1>8, <2>1, <2>2, WatermarkStays
  <2> QED BY <1>0, <1>5, <1>9, <2>1, <2>3, LaterIs
<1>11. \A i \in 1 .. Len(msgs) : /\ msgs[i].number \in Len(delivered) + 1 .. Len(delivered')
                                 /\ Watermark(msgs[i].number, delivered', upstream)
  BY <1>5, <1>7, <1>8
<1> QED BY <1>1, <1>3, <1>4, <1>6, <1>8, <1>9, <1>10, <1>11, DeliveryKeeps

(* A step that leaves the stream's blocks and the ingress alone, and of    *)
(* the lists of heights too, keeps the invariant if the watermarks it sets *)
(* are of final blocks.                                                    *)
LEMMA WatermarkStepKeeps ==
  ASSUME ProberInvariant, UNCHANGED <<delivered, ingress, queue, probes, upstream>>,
         current_finalized' \in Nat, confirmed' \in Nat, report' = report,
         results' \in Seq(Nat),
         Watermark(current_finalized', delivered, upstream),
         Watermark(confirmed', delivered, upstream),
         \A i \in DOMAIN results' : Watermark(results'[i], delivered, upstream)
  PROVE  ProberInvariant'
<1>1. TypeOK'
  BY DEF ProberInvariant, TypeOK
<1>2. Ordered'
  BY DEF ProberInvariant, Ordered
<1>3. Truthful'
  BY DEF ProberInvariant, Truthful
<1> QED BY <1>1, <1>2, <1>3 DEF ProberInvariant

(* What the invariant says of the watermarks.                              *)
LEMMA Watermarks ==
  ASSUME ProberInvariant
  PROVE  /\ current_finalized \in Nat /\ confirmed \in Nat /\ upstream \in Nat
         /\ Watermark(current_finalized, delivered, upstream)
         /\ Watermark(confirmed, delivered, upstream)
         /\ results \in Seq(Nat)
         /\ \A i \in DOMAIN results : Watermark(results[i], delivered, upstream)
BY DEF ProberInvariant, TypeOK, Truthful

(* The stream records what the prober confirmed.                           *)
LEMMA RecordResultKeeps ==
  ASSUME ProberInvariant, RecordResult
  PROVE  ProberInvariant'
<1>1. /\ results # << >> /\ current_finalized' = Later(current_finalized, Head(results))
      /\ results' = Tail(results)
      /\ UNCHANGED <<delivered, ingress, queue, probes, upstream, report, confirmed>>
  BY DEF RecordResult, proberVars
<1>2. Head(results) \in Nat /\ Watermark(Head(results), delivered, upstream)
  <2>1. 1 \in DOMAIN results /\ Head(results) = results[1]
    BY <1>1, Watermarks
  <2> QED BY <2>1, Watermarks
<1>3. Tail(results) \in Seq(Nat) /\ \A i \in DOMAIN Tail(results) : Watermark(Tail(results)[i], delivered, upstream)
  <2>1. Tail(results) \in Seq(Nat) /\ \A i \in DOMAIN Tail(results) :
          i + 1 \in DOMAIN results /\ Tail(results)[i] = results[i + 1]
    BY <1>1, Watermarks
  <2> QED BY <2>1, Watermarks
<1> QED BY <1>1, <1>2, <1>3, Watermarks, LaterIs, WatermarkStepKeeps

(* The stream ends and its channel is dropped with it.                     *)
LEMMA StreamOverKeeps ==
  ASSUME ProberInvariant, StreamOver
  PROVE  ProberInvariant'
<1>1. results' = << >> /\ UNCHANGED <<delivered, ingress, queue, probes, upstream, report,
                                      confirmed, current_finalized>>
  BY DEF StreamOver, proberVars
<1>2. << >> \in Seq(Nat) /\ DOMAIN << >> = {}
  OBVIOUS
<1> QED BY <1>1, <1>2, Watermarks, WatermarkStepKeeps

(* The prober sends what it confirmed.                                     *)
LEMMA SendResultKeeps ==
  ASSUME ProberInvariant, SendResult
  PROVE  ProberInvariant'
<1>1. /\ results' = Append(results, confirmed)
      /\ UNCHANGED <<delivered, ingress, queue, probes, upstream, report, confirmed, current_finalized>>
  BY DEF SendResult, streamVars
<1>2. results' \in Seq(Nat) /\ \A i \in DOMAIN results' :
        results'[i] = confirmed \/ (i \in DOMAIN results /\ results'[i] = results[i])
  BY <1>1, Watermarks
<1>3. \A i \in DOMAIN results' : Watermark(results'[i], delivered, upstream)
  BY <1>2, Watermarks
<1> QED BY <1>1, <1>2, <1>3, Watermarks, WatermarkStepKeeps

(* A step that moves heights between the lists, and may confirm one.       *)
LEMMA QueueStepKeeps ==
  ASSUME ProberInvariant, UNCHANGED <<delivered, upstream, current_finalized, report, results>>,
         ingress' \in Seq(Message), queue' \in Seq(Nat), probes' \in Seq(Nat), confirmed' \in Nat,
         Ordered', Watermark(confirmed', delivered, upstream),
         \A i \in DOMAIN ingress' :
           ingress'[i].kind = "settled" => Watermark(ingress'[i].number, delivered, upstream)
  PROVE  ProberInvariant'
<1>1. TypeOK'
  BY DEF ProberInvariant, TypeOK
<1>2. Truthful'
  BY DEF ProberInvariant, Truthful
<1> QED BY <1>1, <1>2 DEF ProberInvariant

(* What the invariant says of the lists.                                   *)
LEMMA Lists ==
  ASSUME ProberInvariant
  PROVE  /\ TypeOK
         /\ queue \in Seq(Nat) /\ probes \in Seq(Nat) /\ ingress \in Seq(Message)
         /\ Len(queue) \in Nat /\ Len(probes) \in Nat /\ Len(ingress) \in Nat
         /\ DOMAIN queue = 1 .. Len(queue) /\ DOMAIN probes = 1 .. Len(probes)
         /\ DOMAIN ingress = 1 .. Len(ingress)
         /\ Climbing(probes, Len(delivered)) /\ Climbing(queue, Len(delivered))
         /\ Climbing(Numbers(ingress), Len(delivered))
         /\ Ascending(probes) /\ Ascending(queue) /\ Before(probes, queue)
         /\ Before(probes, Numbers(ingress)) /\ Before(queue, Numbers(ingress))
         /\ \A i \in DOMAIN ingress :
              ingress[i].kind = "settled" => Watermark(ingress[i].number, delivered, upstream)
BY DEF ProberInvariant, TypeOK, Ordered, Truthful, Climbing

(* A round takes the front of the queue.                                   *)
LEMMA BeginRoundKeeps ==
  ASSUME ProberInvariant, BeginRound
  PROVE  ProberInvariant'
<1> DEFINE k == Min({Len(queue), ProbeBatch})
<1>0. /\ probes' = SubSeq(queue, 1, k) /\ queue' = SubSeq(queue, k + 1, Len(queue))
      /\ UNCHANGED <<delivered, upstream, current_finalized, report, results, ingress, confirmed>>
  BY DEF BeginRound, streamVars
<1>1. k \in 0 .. Len(queue)
  <2>1. ProbeBatch \in Nat /\ Len(queue) \in Nat
    BY CapsAssumption, Lists
  <2> QED BY <2>1, MinIs
<1> HIDE DEF k
<1>2. Thins(probes', queue)
  <2>1. 1 \in 1 .. Len(queue) + 1
    BY Lists
  <2> QED BY <1>0, <1>1, <2>1, Lists, PartThins
<1>3. Thins(queue', queue)
  <2>1. k + 1 \in 1 .. Len(queue) + 1 /\ Len(queue) \in 0 .. Len(queue)
    BY <1>1, Lists
  <2> QED BY <1>0, <2>1, Lists, PartThins
<1>4. Before(probes', queue')
  <2> SUFFICES ASSUME NEW i \in DOMAIN probes', NEW j \in DOMAIN queue' PROVE probes'[i] < queue'[j]
    BY DEF Before
  <2>1. i \in 1 .. k /\ probes'[i] = queue[i]
    BY <1>0, <1>1, Lists
  <2>2. j \in 1 .. Len(queue) - k /\ queue'[j] = queue[k + j]
    <3> DEFINE t == SubSeq(queue, k + 1, Len(queue))
    <3>1. queue \in Seq(Nat) /\ Len(queue) \in Nat
      BY Lists
    <3>2. DOMAIN t = 1 .. Len(queue) - k
      BY <1>1, <3>1
    <3>3. \A x \in 1 .. Len(queue) - k : t[x] = queue[(k + 1) + x - 1]
      BY <1>1, <3>1
    <3>4. j \in 1 .. Len(queue) - k
      BY <1>0, <3>2
    <3>5. (k + 1) + j - 1 = k + j
      BY <1>1, <3>1, <3>4
    <3> HIDE DEF t
    <3> QED BY <1>0, <3>3, <3>4, <3>5 DEF t
  <2>3. i \in DOMAIN queue /\ k + j \in DOMAIN queue /\ i < k + j
    BY <1>1, <2>1, <2>2, Lists
  <2> QED BY <2>1, <2>2, <2>3, Lists DEF Ascending
<1>5. Ordered'
  <2>1. /\ Climbing(probes', Len(delivered)) /\ Climbing(queue', Len(delivered))
        /\ Before(probes', Numbers(ingress)) /\ Before(queue', Numbers(ingress))
    BY <1>2, <1>3, Lists, ThinnedKeeps
  <2> QED BY <1>0, <1>4, <2>1, Lists DEF Ordered
<1> QED BY <1>0, <1>2, <1>3, <1>5, Lists, Watermarks, QueueStepKeeps DEF Thins

(* Probes go back in front of the queue, all or thinned, and none is left. *)
LEMMA GiveBackKeeps ==
  ASSUME ProberInvariant, NEW back, Thins(back, probes),
         queue' = back \o queue, probes' = << >>,
         confirmed' \in Nat, Watermark(confirmed', delivered, upstream),
         UNCHANGED <<delivered, upstream, current_finalized, report, results, ingress>>
  PROVE  ProberInvariant'
<1>1. /\ back \in Seq(Nat) /\ Climbing(back, Len(delivered)) /\ Before(back, queue)
      /\ Before(back, Numbers(ingress))
  BY Lists, ThinnedKeeps DEF Thins
<1>2. queue' \in Seq(Nat) /\ Climbing(queue', Len(delivered))
  BY <1>1, Lists, JoinClimbs
<1>3. Before(queue', Numbers(ingress))
  BY <1>1, Lists, JoinBefore
<1>4. << >> \in Seq(Nat) /\ DOMAIN << >> = {}
  OBVIOUS
<1>5. Climbing(probes', Len(delivered)) /\ \A u : Before(probes', u)
  BY <1>4 DEF Climbing, Ascending, Before
<1>6. Ordered'
  BY <1>2, <1>3, <1>5, Lists DEF Ordered
<1> QED BY <1>2, <1>4, <1>6, Lists, QueueStepKeeps

(* A failed round gives all its probes back.                               *)
LEMMA RoundFailsKeeps ==
  ASSUME ProberInvariant, RoundFails
  PROVE  ProberInvariant'
<1>1. Thins(probes, probes)
  BY Lists DEF Thins
<1>2. /\ queue' = probes \o queue /\ probes' = << >> /\ confirmed' = confirmed
      /\ UNCHANGED <<delivered, upstream, current_finalized, report, results, ingress>>
  BY DEF RoundFails, streamVars
<1> QED BY <1>1, <1>2, Watermarks, GiveBackKeeps

(* Where the walk stops, and what a hit there means: the answers are to a  *)
(* prefix of the probes, at heights the upstream has finalized.            *)
LEMMA StopIs ==
  ASSUME ProberInvariant, NEW infos \in Answers
  PROVE  /\ WalkStop(infos) \in 0 .. Len(probes)
         /\ WalkStop(infos) > 0 /\ confirmed < probes[WalkStop(infos)] =>
              Watermark(probes[WalkStop(infos)], delivered, upstream)
<1>1. PICK known \in 0 .. upstream :
        infos \in [1 .. Cardinality({i \in DOMAIN probes : probes[i] <= known}) -> {"final", "none"}]
  BY DEF Answers
<1> DEFINE m == Cardinality({i \in DOMAIN probes : probes[i] <= known})
<1>2. upstream \in Nat /\ known \in Nat /\ known <= upstream
  BY Watermarks
<1>3. \A i \in 1 .. m : i \in DOMAIN probes /\ probes[i] <= known
  BY <1>2, Lists, CountIsPrefix
<1>4. DOMAIN infos = 1 .. m
  BY <1>1
<1> HIDE DEF m
<1> DEFINE S == {0} \cup {i \in DOMAIN infos : confirmed >= probes[i] \/ Confirms(infos, i)}
<1>5. S \in SUBSET (0 .. Len(probes)) /\ S # {}
  BY <1>3, <1>4, Lists
<1>6. Max(S) \in S
  <2> HIDE DEF S
  <2> QED BY <1>5, Lists, MaxIs
<1>7. WalkStop(infos) = Max(S)
  BY DEF WalkStop
<1>8. ASSUME Max(S) > 0, confirmed < probes[Max(S)]
      PROVE  Watermark(probes[Max(S)], delivered, upstream)
  <2> DEFINE i == Max(S)
  <2>1. i \in DOMAIN infos /\ (confirmed >= probes[i] \/ Confirms(infos, i))
    BY <1>6, <1>8
  <2> HIDE DEF i, S
  <2>2. i \in DOMAIN probes /\ probes[i] <= known
    BY <1>3, <1>4, <2>1
  <2>3. probes[i] \in Nat /\ probes[i] \in 1 .. Len(delivered)
    BY <2>2, Lists DEF Climbing
  <2>4. delivered[probes[i]]
    BY <1>8, <2>1, <2>3, Watermarks DEF Confirms, i
  <2>5. probes[i] <= upstream
    BY <1>2, <2>2, <2>3
  <2> QED BY <2>3, <2>4, <2>5 DEF Watermark, i
<1> QED BY <1>5, <1>6, <1>7, <1>8

(* An answered round confirms at most the probe the walk stopped at.       *)
LEMMA RoundAnswersKeeps ==
  ASSUME ProberInvariant, NEW infos \in Answers, RoundAnswers(infos)
  PROVE  ProberInvariant'
<1> DEFINE stop == WalkStop(infos)
<1>1. /\ stop \in 0 .. Len(probes)
      /\ stop > 0 /\ confirmed < probes[stop] => Watermark(probes[stop], delivered, upstream)
  BY StopIs
<1>2. stop \in Nat /\ Thins(Returned(infos), probes)
  <2>1. stop \in Nat
    BY <1>1, Lists
  <2> QED BY <2>1, Lists, ReturnedThins
<1>3. /\ queue' = Returned(infos) \o queue /\ probes' = << >>
      /\ confirmed' = IF stop > 0 /\ confirmed < probes[stop] THEN probes[stop] ELSE confirmed
      /\ UNCHANGED <<delivered, upstream, current_finalized, report, results, ingress>>
  BY DEF RoundAnswers, streamVars
<1> HIDE DEF stop
<1>4. confirmed' \in Nat /\ Watermark(confirmed', delivered, upstream)
  <2>1. CASE stop > 0 /\ confirmed < probes[stop]
    <3>1. stop \in DOMAIN probes
      BY <1>1, <2>1, Lists
    <3> QED BY <1>1, <1>3, <2>1, <3>1, Lists
  <2>2. CASE ~(stop > 0 /\ confirmed < probes[stop])
    BY <1>3, <2>2, Watermarks
  <2> QED BY <2>1, <2>2
<1> QED BY <1>2, <1>3, <1>4, GiveBackKeeps

(* A candidate joins the queue at its end, or takes the place of the last. *)
LEMMA JoinQueueKeeps ==
  ASSUME ProberInvariant, NEW x \in 1 .. Len(delivered),
         \A i \in DOMAIN queue : queue[i] < x, \A i \in DOMAIN probes : probes[i] < x,
         NEW q, q = Append(queue, x) \/ (Len(queue) > 0 /\ q = [queue EXCEPT ![Len(queue)] = x])
  PROVE  /\ q \in Seq(Nat) /\ Climbing(q, Len(delivered)) /\ Before(probes, q)
         /\ \A i \in DOMAIN q : q[i] = x \/ (i \in DOMAIN queue /\ q[i] = queue[i])
<1>0. x \in Nat /\ Len(delivered) \in Nat /\ queue \in Seq(Nat) /\ Len(queue) \in Nat
  BY Lists DEF TypeOK
<1>1. q \in Seq(Nat)
  <2>1. CASE q = Append(queue, x)
    BY <1>0, <2>1
  <2>2. CASE Len(queue) > 0 /\ q = [queue EXCEPT ![Len(queue)] = x]
    BY <1>0, <2>2
  <2> QED BY <2>1, <2>2
<1>2. /\ \A i \in DOMAIN q : q[i] = x \/ (i \in DOMAIN queue /\ q[i] = queue[i])
      /\ \A i, j \in DOMAIN q : i < j => i \in DOMAIN queue /\ q[i] = queue[i]
  <2>1. CASE q = Append(queue, x)
    BY <1>0, <2>1
  <2>2. CASE Len(queue) > 0 /\ q = [queue EXCEPT ![Len(queue)] = x]
    BY <1>0, <2>2
  <2> QED BY <2>1, <2>2
<1>3. Ascending(q)
  <2> SUFFICES ASSUME NEW i \in DOMAIN q, NEW j \in DOMAIN q, i < j PROVE q[i] < q[j]
    BY DEF Ascending
  <2>1. i \in DOMAIN queue /\ q[i] = queue[i]
    BY <1>2
  <2>2. CASE q[j] = x
    BY <2>1, <2>2
  <2>3. CASE j \in DOMAIN queue /\ q[j] = queue[j]
    BY <2>1, <2>3, Lists DEF Ascending
  <2> QED BY <1>2, <2>2, <2>3
<1>4. Climbing(q, Len(delivered))
  BY <1>2, <1>3, Lists DEF Climbing
<1>5. Before(probes, q)
  BY <1>2, Lists DEF Before
<1> QED BY <1>1, <1>2, <1>4, <1>5

(* absorb keeps the queue ascending, also when it is full.                 *)
LEMMA TakeMessageKeeps ==
  ASSUME ProberInvariant, TakeMessage
  PROVE  ProberInvariant'
<1> DEFINE msg == Head(ingress)
           num == Numbers(ingress)
           num2 == Numbers(ingress')
<1>0. /\ ingress # << >> /\ queue' = Absorb(msg) /\ ingress' = Tail(ingress)
      /\ confirmed' = IF msg.kind = "settled" THEN Later(confirmed, msg.number) ELSE confirmed
      /\ UNCHANGED <<delivered, upstream, current_finalized, report, results, probes>>
  BY DEF TakeMessage, streamVars
<1>1. /\ 1 \in DOMAIN ingress /\ msg = ingress[1] /\ msg \in Message
      /\ ingress' \in Seq(Message)
      /\ \A i \in DOMAIN ingress' : i + 1 \in DOMAIN ingress /\ 1 < i + 1 /\ ingress'[i] = ingress[i + 1]
  BY <1>0, Lists
<1>2. /\ msg.number \in Nat /\ msg.number \in 1 .. Len(delivered)
      /\ num[1] = msg.number /\ 1 \in DOMAIN num
  <2>1. 1 \in DOMAIN num /\ num[1] = msg.number
    BY <1>1 DEF Numbers
  <2> QED BY <1>1, <2>1, Lists DEF Climbing, Message
<1>3. \A i \in DOMAIN num2 :
        /\ i + 1 \in DOMAIN num /\ num2[i] = num[i + 1] /\ num[1] < num[i + 1]
  <2> TAKE i \in DOMAIN num2
  <2>1. i \in DOMAIN ingress' /\ num2[i] = ingress'[i].number
    BY DEF Numbers
  <2>2. i + 1 \in DOMAIN num /\ num[i + 1] = ingress[i + 1].number /\ 1 < i + 1
    BY <1>1, <2>1 DEF Numbers
  <2>3. num[1] < num[i + 1]
    BY <1>2, <2>2, Lists DEF Climbing, Ascending
  <2> QED BY <1>1, <2>1, <2>2, <2>3
<1>4. Climbing(num, Len(delivered)) /\ Before(probes, num) /\ Before(queue, num)
  BY Lists
<1>5. DOMAIN num2 = DOMAIN ingress' /\ \A i, j \in DOMAIN ingress' : i < j => i + 1 < j + 1
  BY <1>1 DEF Numbers
<1> HIDE DEF num, num2, msg
<1>6. Climbing(num2, Len(delivered)) /\ \A u : Before(u, num) => Before(u, num2)
  BY <1>3, <1>4, <1>5 DEF Climbing, Ascending, Before
<1>7. /\ queue' \in Seq(Nat) /\ Climbing(queue', Len(delivered)) /\ Before(probes, queue')
      /\ Before(queue', num2)
  <2>1. CASE msg.kind = "settled"
    <3>1. queue' = After(msg.number)
      BY <1>0, <2>1 DEF Absorb
    <3>2. Thins(queue', queue)
      BY <1>2, <3>1, Lists, AfterThins
    <3> QED BY <1>4, <1>6, <3>2, Lists, ThinnedKeeps DEF Thins
  <2>2. CASE msg.kind # "settled" /\ confirmed >= msg.number
    <3>1. queue' = queue
      BY <1>0, <2>2 DEF Absorb
    <3> QED BY <1>4, <1>6, <3>1, Lists
  <2>3. CASE msg.kind # "settled" /\ ~(confirmed >= msg.number)
    <3>1. \/ queue' = Append(queue, msg.number)
          \/ Len(queue) > 0 /\ queue' = [queue EXCEPT ![Len(queue)] = msg.number]
      <4>1. CASE Len(queue) >= QueueCap
        <5>1. Len(queue) > 0
          BY <4>1, Lists, CapsAssumption
        <5> QED BY <1>0, <2>3, <4>1, <5>1 DEF Absorb
      <4>2. CASE ~(Len(queue) >= QueueCap)
        BY <1>0, <2>3, <4>2 DEF Absorb
      <4> QED BY <4>1, <4>2
    <3>2. (\A i \in DOMAIN queue : queue[i] < msg.number) /\ \A i \in DOMAIN probes : probes[i] < msg.number
      BY <1>2, <1>4 DEF Before
    <3>3. /\ queue' \in Seq(Nat) /\ Climbing(queue', Len(delivered)) /\ Before(probes, queue')
          /\ \A i \in DOMAIN queue' : queue'[i] = msg.number \/ (i \in DOMAIN queue /\ queue'[i] = queue[i])
      BY <1>2, <3>1, <3>2, JoinQueueKeeps
    <3>4. Before(queue', num2)
      <4> SUFFICES ASSUME NEW i \in DOMAIN queue', NEW j \in DOMAIN num2 PROVE queue'[i] < num2[j]
        BY DEF Before
      <4>1. CASE queue'[i] = msg.number
        BY <1>2, <1>3, <4>1
      <4>2. CASE i \in DOMAIN queue /\ queue'[i] = queue[i]
        BY <1>3, <1>4, <4>2 DEF Before
      <4> QED BY <3>3, <4>1, <4>2
    <3> QED BY <3>3, <3>4
  <2> QED BY <2>1, <2>2, <2>3
<1>8. Ordered'
  BY <1>0, <1>4, <1>6, <1>7, Lists DEF Ordered, num2
<1>9. confirmed' \in Nat /\ Watermark(confirmed', delivered, upstream)
  <2>1. CASE msg.kind = "settled"
    <3>1. Watermark(msg.number, delivered, upstream)
      BY <1>1, <2>1, Lists
    <3> QED BY <1>0, <1>2, <2>1, <3>1, Watermarks, LaterIs
  <2>2. CASE msg.kind # "settled"
    BY <1>0, <2>2, Watermarks
  <2> QED BY <2>1, <2>2
<1>10. \A i \in DOMAIN ingress' :
         ingress'[i].kind = "settled" => Watermark(ingress'[i].number, delivered, upstream)
  BY <1>1, Lists
<1>11. probes' \in Seq(Nat)
  BY <1>0, Lists
<1> QED BY <1>0, <1>1, <1>7, <1>8, <1>9, <1>10, <1>11, QueueStepKeeps

(* The upstream's finality rises.                                          *)
LEMMA UpstreamKeeps ==
  ASSUME ProberInvariant, UpstreamFinalizes
  PROVE  ProberInvariant'
<1>1. upstream' = upstream + 1 /\ UNCHANGED <<streamVars, ingress, results, proberVars>>
  BY DEF UpstreamFinalizes
<1>2. delivered \in Seq(BOOLEAN) /\ upstream \in Nat /\ upstream' \in Nat
  BY <1>1 DEF ProberInvariant, TypeOK
<1>3. ASSUME NEW n, n = 0 \/ n \in Nat, Watermark(n, delivered, upstream)
      PROVE  Watermark(n, delivered, upstream')
  BY <1>1, <1>2, <1>3 DEF Watermark
<1>4. TypeOK'
  BY <1>1, <1>2 DEF ProberInvariant, TypeOK, streamVars, proberVars
<1>5. Ordered'
  BY <1>1 DEF ProberInvariant, Ordered, streamVars, proberVars
<1>6. Truthful'
  <2>1. \A i \in DOMAIN results : Watermark(results[i], delivered, upstream')
    BY <1>3, Watermarks
  <2>2. \A i \in DOMAIN ingress :
          ingress[i].kind = "settled" => Watermark(ingress[i].number, delivered, upstream')
    <3> TAKE i \in DOMAIN ingress
    <3>1. ingress[i] \in Message
      BY Lists
    <3>2. ingress[i].number \in Nat
      BY <3>1 DEF Message
    <3> QED BY <1>3, <3>2, Lists
  <2>3. \A n \in {current_finalized, confirmed, report} : Watermark(n, delivered, upstream')
    BY <1>3 DEF ProberInvariant, TypeOK, Truthful
  <2> QED BY <1>1, <2>1, <2>2, <2>3 DEF Truthful, streamVars, proberVars
<1> QED BY <1>4, <1>5, <1>6 DEF ProberInvariant

(* A step of the tasks' control alone.                                     *)
LEMMA QuietKeeps ==
  ASSUME ProberInvariant,
         UNCHANGED <<delivered, current_finalized, report, ingress, results, queue, probes, confirmed, upstream>>
  PROVE  ProberInvariant'
BY DEF ProberInvariant, TypeOK, Ordered, Truthful

-----------------------------------------------------------------------------
(* The theorems.                                                           *)

(* Every step keeps the invariant, one case for each action.               *)
LEMMA ProberStepKeeps == ProberInvariant /\ [Next]_vars => ProberInvariant'
<1> SUFFICES ASSUME ProberInvariant, [Next]_vars PROVE ProberInvariant'
  OBVIOUS
<1>1. CASE \E k \in {1, 2}, canonical \in BOOLEAN : DeliverHead(k, canonical)
  BY <1>1, DeliverHeadKeeps
<1>2. CASE \E k \in {1, 2} : DeliverFinal(k)
  BY <1>2, DeliverFinalKeeps
<1>3. CASE RecordResult
  BY <1>3, RecordResultKeeps
<1>4. CASE StreamOver
  BY <1>4, StreamOverKeeps
<1>5. CASE TakeMessage
  BY <1>5, TakeMessageKeeps
<1>6. CASE Quit \/ Pace \/ SendFails
  <2>1. UNCHANGED <<streamVars, ingress, results, queue, probes, confirmed, upstream>>
    BY <1>6 DEF Quit, Pace, SendFails
  <2> QED BY <2>1, QuietKeeps DEF streamVars
<1>7. CASE BeginRound
  BY <1>7, BeginRoundKeeps
<1>8. CASE RoundFails
  BY <1>8, RoundFailsKeeps
<1>9. CASE \E infos \in Answers : RoundAnswers(infos)
  BY <1>9, RoundAnswersKeeps
<1>10. CASE SendResult
  BY <1>10, SendResultKeeps
<1>11. CASE UpstreamFinalizes
  BY <1>11, UpstreamKeeps
<1>12. CASE Finished \/ UNCHANGED vars
  <2>1. UNCHANGED vars
    BY <1>12 DEF Finished
  <2> QED BY <2>1, QuietKeeps DEF vars, streamVars, proberVars
<1> QED BY <1>1, <1>2, <1>3, <1>4, <1>5, <1>6, <1>7, <1>8, <1>9, <1>10, <1>11, <1>12
        DEF Next, ProberSteps

(* The inductive invariant holds in every state: the heights under way     *)
(* ascend, and every watermark is of a final block.                        *)
THEOREM ProberInvariantHolds == Spec => []ProberInvariant
<1>1. Init => ProberInvariant
  BY InitHolds
<1>2. ProberInvariant /\ [Next]_vars => ProberInvariant'
  BY ProberStepKeeps
<1> QED BY <1>1, <1>2, PTL DEF Spec

(* WP-11.6, for streams, channels and rounds of any size: whatever is      *)
(* dropped from a full channel, delayed or answered late, every watermark  *)
(* of finalize_stream names a block this stream delivered and that is      *)
(* final.                                                                  *)
THEOREM WatermarksTrue == Spec => []WatermarkTrue
<1>1. ProberInvariant => WatermarkTrue
  <2> SUFFICES ASSUME ProberInvariant, NEW n \in {current_finalized, confirmed, report}, n # 0
               PROVE  n \in DOMAIN delivered /\ delivered[n] /\ n <= upstream
    BY DEF WatermarkTrue
  <2>1. Watermark(n, delivered, upstream) /\ DOMAIN delivered = 1 .. Len(delivered)
    BY DEF ProberInvariant, TypeOK, Truthful
  <2> QED BY <2>1 DEF Watermark
<1> QED BY <1>1, ProberInvariantHolds, PTL
=============================================================================
