--------------------------- MODULE ServingProofs ---------------------------
(***************************************************************************)
(* What a client is told.  First the verdict of a /stream request against  *)
(* a writer that may publish between any two of its reads, for every set   *)
(* of buffers and every request.  Then what the service says of itself,    *)
(* for every bound and every number of evaluators: a stall is alarmed and  *)
(* only a stall is, and ready is claimed only of a head that was heard.    *)
(***************************************************************************)
EXTENDS QueryService, Readiness, ChainLemmas

(* A buffer as published.                                                  *)
Published(bs) ==
  /\ bs \in Seq(Block) /\ Len(bs) >= 1 /\ Linked(bs)
  /\ bs[1].parent_number <= bs[1].number

(* What a published buffer looks like, position by position.               *)
LEMMA PublishedIs ==
  ASSUME NEW bs, Published(bs)
  PROVE  /\ Len(bs) \in Nat \ {0} /\ DOMAIN bs = 1 .. Len(bs)
         /\ \A i \in 1 .. Len(bs) : /\ bs[i] \in Block
                                    /\ bs[i].number \in Nat /\ bs[i].parent_number \in Nat
                                    /\ bs[i].hash \in Hash /\ bs[i].parent_hash \in Hash
                                    /\ ParentRef(bs[i]).number <= bs[i].number
         /\ \A i, j \in 1 .. Len(bs) : i < j => bs[i].number < bs[j].number
         /\ \A i \in 2 .. Len(bs) : /\ bs[i].parent_number = bs[i - 1].number
                                    /\ bs[i].parent_hash = bs[i - 1].hash
                                    /\ ~IsRoot(bs[i])
<1>1. Len(bs) \in Nat \ {0} /\ DOMAIN bs = 1 .. Len(bs) /\ \A i \in 1 .. Len(bs) : bs[i] \in Block
  BY DEF Published
<1>2. \A i \in 1 .. Len(bs) : /\ bs[i].number \in Nat /\ bs[i].parent_number \in Nat
                              /\ bs[i].hash \in Hash /\ bs[i].parent_hash \in Hash
  BY <1>1 DEF Block
<1>3. \A i, j \in 1 .. Len(bs) : i < j => bs[i].number < bs[j].number
  BY <1>1 DEF Published, Linked
<1>4. ASSUME NEW i \in 2 .. Len(bs)
      PROVE  bs[i].parent_number = bs[i - 1].number /\ bs[i].parent_hash = bs[i - 1].hash /\ ~IsRoot(bs[i])
  <2>1. i - 1 \in 1 .. Len(bs) - 1 /\ (i - 1) + 1 = i /\ i - 1 \in 1 .. Len(bs) /\ i \in 1 .. Len(bs) /\ i - 1 < i
    BY <1>1
  <2>2. IsChain(bs[i - 1], bs[i])
    BY <2>1 DEF Published, Linked
  <2>3. bs[i].parent_number = bs[i - 1].number /\ bs[i].parent_hash = bs[i - 1].hash
    BY <2>2 DEF IsChain, Ref, ParentRef
  <2>4. bs[i - 1].number < bs[i].number
    BY <1>3, <2>1
  <2> QED BY <1>2, <2>1, <2>3, <2>4 DEF IsRoot
<1>5. ASSUME NEW i \in 1 .. Len(bs) PROVE ParentRef(bs[i]).number <= bs[i].number
  <2>1. CASE i = 1
    BY <2>1 DEF Published, ParentRef
  <2>2. CASE i \in 2 .. Len(bs)
    <3>1. i - 1 \in 1 .. Len(bs) /\ i - 1 < i
      BY <1>1, <2>2
    <3>2. bs[i - 1].number < bs[i].number
      BY <1>3, <3>1
    <3> QED BY <1>2, <1>4, <2>2, <3>1, <3>2 DEF ParentRef
  <2> QED BY <1>1, <2>1, <2>2
<1> QED BY <1>1, <1>2, <1>3, <1>4, <1>5

(* The block the specification of a request names is the one bisect finds. *)
LEMMA LowestIs ==
  ASSUME NEW c, Published(c.blocks), NEW k \in 1 .. Len(c.blocks), NEW f \in Nat,
         c.blocks[k].number >= f, \A i \in 1 .. k - 1 : c.blocks[i].number < f
  PROVE  LowestFrom(c, f) = c.blocks[k]
<1> DEFINE bs == c.blocks
           P(b) == b.number >= f /\ \A x \in Range(bs) : x.number >= f => b.number <= x.number
<1>1. Len(bs) \in Nat \ {0} /\ DOMAIN bs = 1 .. Len(bs)
      /\ \A i \in 1 .. Len(bs) : bs[i].number \in Nat
  BY PublishedIs
<1>2. \A i, j \in 1 .. Len(bs) : i < j => bs[i].number < bs[j].number
  BY PublishedIs
<1>3. \A x \in Range(bs) : \E i \in 1 .. Len(bs) : x = bs[i]
  BY <1>1 DEF Range
<1>4. bs[k] \in Range(bs)
  BY <1>1 DEF Range
<1>5. ASSUME NEW i \in 1 .. Len(bs), bs[i].number >= f PROVE i = k \/ bs[k].number < bs[i].number
  <2>1. ~(i < k)
    BY <1>1, <1>5
  <2> QED BY <1>1, <1>2, <2>1
<1>6. P(bs[k])
  BY <1>1, <1>3, <1>5
<1>7. ASSUME NEW b \in Range(bs), P(b) PROVE b = bs[k]
  <2>1. PICK i \in 1 .. Len(bs) : b = bs[i]
    BY <1>3
  <2>2. bs[i].number <= bs[k].number
    BY <1>4, <1>7, <2>1
  <2> QED BY <1>1, <1>5, <1>7, <2>1, <2>2
<1>8. LowestFrom(c, f) = CHOOSE b \in Range(bs) : P(b)
  BY DEF LowestFrom
<1> HIDE DEF P, bs
<1>9. LowestFrom(c, f) = bs[k]
  BY <1>4, <1>6, <1>7, <1>8
<1> QED BY <1>9 DEF bs
(* What a request for a height meets in a published buffer.                *)
LEMMA Resolves ==
  ASSUME NEW c, Published(c.blocks), NEW f \in Nat
  PROVE  LET pos == BisectPos(c.blocks, f)
         IN  /\ pos \in DOMAIN c.blocks <=> f <= LastBlock(c).number
             /\ pos \in DOMAIN c.blocks => LowestFrom(c, f) = c.blocks[pos]
             /\ InWindow(c, f) <=> ~BelowWindow(c, f) /\ pos \in DOMAIN c.blocks
             /\ BelowWindow(c, f) => f < LastBlock(c).number
<1> DEFINE bs == c.blocks
           n == Len(bs)
           pos == BisectPos(bs, f)
<1>1. n \in Nat \ {0} /\ DOMAIN bs = 1 .. n /\ bs \in Seq(Block) /\ Linked(bs)
      /\ \A i \in 1 .. n : bs[i].number \in Nat /\ bs[i].parent_number \in Nat
  BY PublishedIs DEF Published
<1>2. /\ pos \in 1 .. n + 1
      /\ \A i \in 1 .. pos - 1 : bs[i].number < f
      /\ \A i \in pos .. n : bs[i].number >= f
  BY <1>1, BisectFinds
<1>3. \A i, j \in 1 .. n : i < j => bs[i].number < bs[j].number
  BY PublishedIs
<1>4. LastBlock(c) = bs[n] /\ FirstBlock(c) = bs[1]
  BY DEF LastBlock, FirstBlock
<1>5. bs[1].parent_number <= bs[1].number
  BY DEF Published
<1> HIDE DEF pos, n
<1>6. pos \in 1 .. n <=> f <= bs[n].number
  <2>1. CASE pos \in 1 .. n
    BY <1>1, <1>2, <2>1
  <2>2. CASE pos = n + 1
    <3>1. n \in 1 .. pos - 1
      BY <1>1, <2>2
    <3>2. bs[n].number < f
      BY <1>2, <3>1
    <3> QED BY <1>1, <2>2, <3>2
  <2> QED BY <1>1, <1>2, <2>1, <2>2
<1>7. pos \in 1 .. n => LowestFrom(c, f) = bs[pos]
  <2> SUFFICES ASSUME pos \in 1 .. n PROVE LowestFrom(c, f) = bs[pos]
    OBVIOUS
  <2>1. bs[pos].number >= f
    BY <1>1, <1>2
  <2> QED BY <1>2, <2>1, LowestIs DEF n
<1>8. ASSUME BelowWindow(c, f) PROVE f < bs[n].number
  <2>1. f <= bs[1].parent_number /\ bs[1].parent_number # bs[1].number
    BY <1>4, <1>8 DEF BelowWindow, IsRoot
  <2>2. 1 \in 1 .. n /\ n \in 1 .. n /\ (n = 1 \/ 1 < n)
    BY <1>1
  <2>3. bs[1].number <= bs[n].number /\ bs[1].number \in Nat /\ bs[n].number \in Nat /\ bs[1].parent_number \in Nat
    BY <1>1, <1>3, <2>2
  <2> QED BY <1>5, <2>1, <2>3
<1>9. InWindow(c, f) <=> ~BelowWindow(c, f) /\ f <= bs[n].number
  <2>1. 1 \in 1 .. n /\ bs[1].parent_number \in Nat
    BY <1>1
  <2> QED BY <1>4, <2>1 DEF InWindow, BelowWindow
<1>10. /\ pos \in DOMAIN bs <=> f <= LastBlock(c).number
       /\ pos \in DOMAIN bs => LowestFrom(c, f) = bs[pos]
       /\ InWindow(c, f) <=> ~BelowWindow(c, f) /\ pos \in DOMAIN bs
       /\ BelowWindow(c, f) => f < LastBlock(c).number
  BY <1>1, <1>4, <1>6, <1>7, <1>8, <1>9
<1> QED BY <1>10 DEF pos

(* The rest of a list from a position on is a suffix of it.                *)
LEMMA TailIsSuffix ==
  ASSUME NEW c, c.blocks \in Seq(Block), NEW pos \in 1 .. Len(c.blocks)
  PROVE  LET t == TailFrom(c, pos)
         IN  t # << >> /\ t[1] = c.blocks[pos] /\ IsSuffix(t, c.blocks)
<1> DEFINE s == c.blocks
           n == Len(s)
           t == TailFrom(c, pos)
           m == n - pos + 1
<1>1. n \in Nat /\ pos \in Nat /\ m \in Nat /\ m <= n /\ m >= 1
  OBVIOUS
<1>2. t = SubSeq(s, pos, n)
  BY DEF TailFrom
<1>3. t \in Seq(Block) /\ Len(t) = m /\ \A i \in 1 .. m : t[i] = s[pos + i - 1]
  BY <1>1, <1>2
<1> HIDE DEF t, m
<1>4. t # << >> /\ t[1] = s[pos]
  BY <1>1, <1>3
<1>5. ASSUME NEW w \in Seq(Block)
      PROVE  /\ Reverse(w) \in Seq(Block) /\ Len(Reverse(w)) = Len(w)
             /\ \A i \in 1 .. Len(w) : Reverse(w)[i] = w[(Len(w) - i) + 1]
  <2> DEFINE r == [i \in 1 .. Len(w) |-> w[(Len(w) - i) + 1]]
  <2>1. \A i \in 1 .. Len(w) : (Len(w) - i) + 1 \in 1 .. Len(w)
    OBVIOUS
  <2>2. \A i \in 1 .. Len(w) : w[(Len(w) - i) + 1] \in Block
    BY <2>1
  <2>3. r \in Seq(Block) /\ Len(r) = Len(w) /\ \A i \in 1 .. Len(w) : r[i] = w[(Len(w) - i) + 1]
    BY <2>2
  <2> QED BY <2>3 DEF Reverse
<1> DEFINE rt == Reverse(t)
           rs == Reverse(s)
<1>6. /\ rt \in Seq(Block) /\ Len(rt) = m /\ \A i \in 1 .. m : rt[i] = t[(m - i) + 1]
      /\ rs \in Seq(Block) /\ Len(rs) = n /\ \A i \in 1 .. n : rs[i] = s[(n - i) + 1]
  BY <1>3, <1>5
<1> HIDE DEF rt, rs
<1>7. \A i \in 1 .. m : rt[i] = rs[i]
  <2> TAKE i \in 1 .. m
  <2>1. (m - i) + 1 \in 1 .. m /\ i \in 1 .. n /\ pos + ((m - i) + 1) - 1 = (n - i) + 1
    BY <1>1 DEF m
  <2>2. rt[i] = t[(m - i) + 1] /\ rs[i] = s[(n - i) + 1]
    BY <1>6, <2>1
  <2>3. t[(m - i) + 1] = s[pos + ((m - i) + 1) - 1]
    BY <1>3, <2>1
  <2> QED BY <2>1, <2>2, <2>3
<1>8. SubSeq(rt, 1, Len(rt)) = SubSeq(rs, 1, Len(rt))
  BY <1>1, <1>6, <1>7, SamePrefix
<1>9. IsSuffix(t, s)
  BY <1>1, <1>6, <1>8 DEF IsSuffix, IsPrefix, rt, rs
<1> QED BY <1>4, <1>9 DEF t
(* One read of a published buffer answers a request as it is specified to: *)
(* VerdictOfTheMoment, of Chain::query.                                    *)
LEMMA QueryVerdict ==
  ASSUME NEW c, Published(c.blocks), NEW f \in Nat, NEW h
  PROVE  LET a == Query(c, f, h)
         IN  /\ a.kind = "Conflict" <=> BaseFails(c, f, h)
             /\ a.kind = "Window" => InWindow(c, f)
             /\ InWindow(c, f) /\ ~BaseFails(c, f, h) =>
                  /\ a.kind = "Window"
                  /\ a.tail # << >> /\ IsSuffix(a.tail, c.blocks)
                  /\ a.tail[1] = LowestFrom(c, f)
                  /\ a.finalized_head = GetFinalizedHead(c)
<1> DEFINE bs == c.blocks
           pos == BisectPos(bs, f)
           a == Query(c, f, h)
           last == LastBlock(c)
<1>1. /\ pos \in DOMAIN bs <=> f <= last.number
      /\ pos \in DOMAIN bs => LowestFrom(c, f) = bs[pos]
      /\ InWindow(c, f) <=> ~BelowWindow(c, f) /\ pos \in DOMAIN bs
      /\ BelowWindow(c, f) => f < last.number
  BY Resolves
<1>2. last.number \in Nat /\ DOMAIN bs = 1 .. Len(bs) /\ bs \in Seq(Block)
  BY PublishedIs DEF LastBlock, Published
<1>3. a = IF BelowWindow(c, f) THEN Answer("Empty", NoRef, << >>, << >>)
          ELSE IF pos \in DOMAIN bs
            THEN IF h # NoHash /\ bs[pos].parent_hash # h
                   THEN Answer("Conflict", NoRef, << >>, ParentRefs(c, pos))
                   ELSE Answer("Window", GetFinalizedHead(c), TailFrom(c, pos), << >>)
          ELSE IF HeadRejects(c, f, h) THEN Answer("Conflict", NoRef, << >>, HeadRefs(c))
          ELSE Answer("Empty", GetFinalizedHead(c), << >>, << >>)
  BY DEF Query
<1> DEFINE Goal == /\ a.kind = "Conflict" <=> BaseFails(c, f, h)
                   /\ a.kind = "Window" => InWindow(c, f)
                   /\ InWindow(c, f) /\ ~BaseFails(c, f, h) =>
                        /\ a.kind = "Window"
                        /\ a.tail # << >> /\ IsSuffix(a.tail, bs)
                        /\ a.tail[1] = LowestFrom(c, f)
                        /\ a.finalized_head = GetFinalizedHead(c)
<1> SUFFICES Goal
  OBVIOUS
<1> HIDE DEF a, pos
<1>4. CASE BelowWindow(c, f)
  <2>1. a.kind = "Empty" /\ ~InWindow(c, f) /\ f # last.number + 1
    BY <1>1, <1>2, <1>3, <1>4 DEF Answer
  <2>2. ~BaseFails(c, f, h)
    BY <2>1 DEF BaseFails
  <2> QED BY <2>1, <2>2
<1>5. CASE ~BelowWindow(c, f) /\ pos \in DOMAIN bs
  <2>1. InWindow(c, f) /\ LowestFrom(c, f) = bs[pos] /\ f # last.number + 1
    BY <1>1, <1>2, <1>5
  <2>2. BaseFails(c, f, h) <=> h # NoHash /\ bs[pos].parent_hash # h
    BY <2>1 DEF BaseFails
  <2>3. CASE h # NoHash /\ bs[pos].parent_hash # h
    <3>1. a.kind = "Conflict"
      BY <1>3, <1>5, <2>3 DEF Answer
    <3> QED BY <2>2, <2>3, <3>1
  <2>4. CASE ~(h # NoHash /\ bs[pos].parent_hash # h)
    <3>1. a.kind = "Window" /\ a.tail = TailFrom(c, pos) /\ a.finalized_head = GetFinalizedHead(c)
      BY <1>3, <1>5, <2>4 DEF Answer
    <3>2. pos \in 1 .. Len(c.blocks)
      BY <1>2, <1>5
    <3>3. a.tail # << >> /\ a.tail[1] = bs[pos] /\ IsSuffix(a.tail, bs)
      BY <1>2, <3>1, <3>2, TailIsSuffix
    <3> QED BY <2>1, <2>2, <2>4, <3>1, <3>3
  <2> QED BY <2>3, <2>4
<1>6. CASE ~BelowWindow(c, f) /\ pos \notin DOMAIN bs
  <2>1. ~InWindow(c, f)
    BY <1>1, <1>6
  <2>2. BaseFails(c, f, h) <=> HeadRejects(c, f, h)
    BY <2>1 DEF BaseFails, HeadRejects
  <2>3. a.kind = IF HeadRejects(c, f, h) THEN "Conflict" ELSE "Empty"
    BY <1>3, <1>6 DEF Answer
  <2> QED BY <2>1, <2>2, <2>3
<1> QED BY <1>4, <1>5, <1>6

-----------------------------------------------------------------------------
(* The refs of a conflict.                                                 *)

(* One block of the walk that collects the refs of parents.                *)
RefsStep(bs, first, n, f) ==
  IF n < first THEN << >>
  ELSE IF IsRoot(bs[n]) THEN f[n - 1]
  ELSE Append(f[n - 1], ParentRef(bs[n]))

(* The walk exists and is computed block by block.                         *)
LEMMA RefsUnfold ==
  ASSUME NEW c, NEW pos \in Nat, Back(pos, RefSpan) \in Nat \ {0}
  PROVE  \E refs : /\ \A n \in 0 .. pos : refs[n] = RefsStep(c.blocks, Back(pos, RefSpan), n, refs)
                   /\ ParentRefs(c, pos) = IF refs[pos] = << >> THEN <<Ref(FirstBlock(c))>> ELSE refs[pos]
<1> DEFINE first == Back(pos, RefSpan)
           bs == c.blocks
           Is(f, n) == f = [w \in 0 .. n |-> RefsStep(bs, first, w, f)]
           Good == {n \in Nat : \E f : Is(f, n)}
<1>1. ASSUME NEW w \in Nat, NEW f, NEW g, \A v \in 0 .. w - 1 : f[v] = g[v]
      PROVE  RefsStep(bs, first, w, f) = RefsStep(bs, first, w, g)
  <2>1. CASE w < first
    BY <2>1 DEF RefsStep
  <2>2. CASE ~(w < first)
    <3>1. w - 1 \in 0 .. w - 1
      BY <2>2
    <3>2. f[w - 1] = g[w - 1]
      BY <1>1, <3>1
    <3> QED BY <3>2 DEF RefsStep
  <2> QED BY <2>1, <2>2
<1> HIDE DEF first
<1>2. 0 \in Good
  <2> DEFINE f == [w \in 0 .. 0 |-> RefsStep(bs, first, w, << >>)]
  <2>1. \A w \in 0 .. 0 : RefsStep(bs, first, w, << >>) = RefsStep(bs, first, w, f)
    <3> TAKE w \in 0 .. 0
    <3>1. w \in Nat /\ \A v \in 0 .. w - 1 : << >>[v] = f[v]
      OBVIOUS
    <3> HIDE DEF f
    <3> QED BY <1>1, <3>1
  <2>2. Is(f, 0)
    BY <2>1
  <2> QED BY <2>2
<1>3. ASSUME NEW n \in Nat, n \in Good PROVE n + 1 \in Good
  <2>1. PICK f : Is(f, n)
    BY <1>3
  <2> DEFINE g == [w \in 0 .. n + 1 |-> RefsStep(bs, first, w, f)]
  <2>2. \A w \in 0 .. n : f[w] = RefsStep(bs, first, w, f)
    BY <2>1
  <2>3. \A w \in 0 .. n : g[w] = f[w]
    BY <2>2
  <2>4. ASSUME NEW w \in 0 .. n + 1
        PROVE  RefsStep(bs, first, w, f) = RefsStep(bs, first, w, g)
    <3>1. w \in Nat /\ \A v \in 0 .. w - 1 : f[v] = g[v]
      BY <2>3
    <3> HIDE DEF g
    <3> QED BY <1>1, <3>1
  <2>5. Is(g, n + 1)
    <3> DEFINE k == [w \in 0 .. n + 1 |-> RefsStep(bs, first, w, g)]
    <3>1. g = k
      BY <2>4
    <3> QED BY <3>1
  <2>6. n + 1 \in Nat
    OBVIOUS
  <2> HIDE DEF Is, g
  <2> QED BY <2>5, <2>6
<1>4. \E f : Is(f, pos)
  <2>1. pos \in Good
    <3> HIDE DEF Good
    <3> QED BY <1>2, <1>3, SetInduction
  <2> QED BY <2>1
<1> DEFINE refs == CHOOSE f : Is(f, pos)
<1>5. Is(refs, pos)
  BY <1>4
<1>6. ParentRefs(c, pos) = IF refs[pos] = << >> THEN <<Ref(FirstBlock(c))>> ELSE refs[pos]
  BY DEF ParentRefs, RefsStep, first
<1> HIDE DEF refs
<1>7. \A n \in 0 .. pos : refs[n] = RefsStep(bs, first, n, refs)
  BY <1>5
<1> QED BY <1>6, <1>7 DEF first
(* The refs of parents are those of a stretch of blocks that ends at pos   *)
(* and holds no root, or the root's own.                                   *)
LEMMA ParentRefsAre ==
  ASSUME NEW c, Published(c.blocks), NEW pos \in 1 .. Len(c.blocks)
  PROVE  \/ ParentRefs(c, pos) = <<Ref(c.blocks[1])>>
         \/ \E s \in 1 .. pos :
              /\ pos - s <= RefSpan /\ ~IsRoot(c.blocks[s])
              /\ ParentRefs(c, pos) \in Seq(BlockRef) /\ Len(ParentRefs(c, pos)) = pos - s + 1
              /\ \A i \in 1 .. pos - s + 1 : ParentRefs(c, pos)[i] = ParentRef(c.blocks[s + i - 1])
<1> DEFINE bs == c.blocks
           first == Back(pos, RefSpan)
           s == IF IsRoot(bs[first]) THEN first + 1 ELSE first
<1> USE RefSpanAssumption
<1>0. Len(bs) \in Nat /\ pos \in Nat \ {0}
      /\ (\A i \in 1 .. Len(bs) : bs[i] \in Block)
      /\ \A i \in 2 .. Len(bs) : ~IsRoot(bs[i])
  BY PublishedIs
<1>1. first \in 1 .. pos /\ pos - first <= RefSpan
  BY <1>0 DEF Back
<1>2. PICK refs : /\ \A n \in 0 .. pos : refs[n] = RefsStep(bs, first, n, refs)
                  /\ ParentRefs(c, pos) = IF refs[pos] = << >> THEN <<Ref(FirstBlock(c))>> ELSE refs[pos]
  BY <1>0, <1>1, RefsUnfold
<1> HIDE DEF first
<1>3. s \in Nat \ {0} /\ (s = first \/ s = first + 1)
  BY <1>1
<1>4. \A b \in Block : ParentRef(b) \in BlockRef
  BY DEF Block, BlockRef, ParentRef
<1> DEFINE Walked(n) == /\ refs[n] \in Seq(BlockRef) /\ Len(refs[n]) = n - s + 1
                        /\ \A i \in 1 .. n - s + 1 : refs[n][i] = ParentRef(bs[s + i - 1])
           Good == {m \in Nat : first + m <= pos => Walked(first + m)}
<1>5. Walked(first)
  <2>1. refs[first - 1] = << >>
    <3>1. first - 1 \in 0 .. pos /\ first - 1 < first
      BY <1>1
    <3> QED BY <1>2, <3>1 DEF RefsStep
  <2>2. refs[first] = IF IsRoot(bs[first]) THEN << >> ELSE Append(<< >>, ParentRef(bs[first]))
    <3>1. first \in 0 .. pos /\ ~(first < first)
      BY <1>1
    <3> QED BY <1>2, <2>1, <3>1 DEF RefsStep
  <2>3. CASE IsRoot(bs[first])
    <3>1. refs[first] = << >> /\ first - s + 1 = 0
      BY <1>1, <2>2, <2>3
    <3> HIDE DEF s
    <3> QED BY <3>1
  <2>4. CASE ~IsRoot(bs[first])
    <3>1. refs[first] = <<ParentRef(bs[first])>> /\ first - s + 1 = 1 /\ s + 1 - 1 = first
      BY <1>1, <2>2, <2>4
    <3>2. ParentRef(bs[first]) \in BlockRef
      BY <1>0, <1>1, <1>4
    <3> HIDE DEF s
    <3> QED BY <3>1, <3>2
  <2> QED BY <2>3, <2>4
<1> HIDE DEF s
<1>6. 0 \in Good
  <2>1. first + 0 = first
    BY <1>1
  <2> QED BY <1>5, <2>1
<1>7. ASSUME NEW m \in Nat, m \in Good PROVE m + 1 \in Good
  <2> SUFFICES ASSUME first + (m + 1) <= pos PROVE Walked(first + (m + 1))
    OBVIOUS
  <2> DEFINE n == first + m
  <2>1. n \in 1 .. pos - 1 /\ first + (m + 1) = n + 1 /\ n >= first /\ n + 1 \in 2 .. Len(bs)
    BY <1>0, <1>1
  <2>2. Walked(n)
    BY <1>7, <2>1
  <2> HIDE DEF n
  <2>3. refs[n + 1] = Append(refs[n], ParentRef(bs[n + 1]))
    <3>1. n + 1 \in 0 .. pos /\ ~(n + 1 < first) /\ (n + 1) - 1 = n
      BY <1>1, <2>1
    <3>2. ~IsRoot(bs[n + 1])
      BY <1>0, <2>1
    <3> QED BY <1>2, <3>1, <3>2 DEF RefsStep
  <2>4. ParentRef(bs[n + 1]) \in BlockRef
    BY <1>0, <1>4, <2>1
  <2>5. n - s + 1 \in Nat /\ (n + 1) - s + 1 = (n - s + 1) + 1 /\ s + ((n - s + 1) + 1) - 1 = n + 1
    BY <1>1, <1>3, <2>1
  <2> DEFINE k == n - s + 1
  <2>6. k \in Nat /\ refs[n] \in Seq(BlockRef) /\ Len(refs[n]) = k
        /\ \A i \in 1 .. k : refs[n][i] = ParentRef(bs[s + i - 1])
    BY <2>2, <2>5
  <2>7. (n + 1) - s + 1 = k + 1 /\ s + (k + 1) - 1 = n + 1
    BY <2>5
  <2> HIDE DEF k
  <2>8. /\ refs[n + 1] \in Seq(BlockRef) /\ Len(refs[n + 1]) = k + 1
        /\ \A i \in 1 .. k : refs[n + 1][i] = refs[n][i]
        /\ refs[n + 1][k + 1] = ParentRef(bs[n + 1])
    BY <2>3, <2>4, <2>6
  <2>9. ASSUME NEW i \in 1 .. k + 1 PROVE refs[n + 1][i] = ParentRef(bs[s + i - 1])
    <3>1. i \in 1 .. k \/ i = k + 1
      BY <2>6
    <3> QED BY <2>6, <2>7, <2>8, <3>1
  <2> QED BY <2>1, <2>7, <2>8, <2>9
<1>8. Walked(pos)
  <2>1. pos - first \in Nat /\ first + (pos - first) = pos
    BY <1>0, <1>1
  <2>2. pos - first \in Good
    <3> HIDE DEF Good
    <3> QED BY <1>6, <1>7, <2>1, SetInduction
  <2>3. first + (pos - first) <= pos => Walked(first + (pos - first))
    BY <2>2
  <2> HIDE DEF Walked
  <2> QED BY <1>0, <2>1, <2>3
<1>9. CASE refs[pos] = << >>
  BY <1>2, <1>9 DEF FirstBlock
<1>10. CASE refs[pos] # << >>
  <2>1. Len(refs[pos]) # 0
    BY <1>8, <1>10
  <2>2. s \in 1 .. pos /\ pos - s <= RefSpan
    BY <1>0, <1>1, <1>3, <1>8, <2>1
  <2>3. ~IsRoot(bs[s])
    <3>1. CASE s = first
      BY <1>1, <3>1 DEF s
    <3>2. CASE s = first + 1
      <4>1. s \in 2 .. Len(bs)
        BY <1>0, <1>1, <2>2, <3>2
      <4> QED BY <1>0, <4>1
    <3> QED BY <1>3, <3>1, <3>2
  <2>4. ParentRefs(c, pos) = refs[pos]
    BY <1>2, <1>10
  <2> QED BY <1>8, <2>2, <2>3, <2>4
<1> QED BY <1>9, <1>10

(* A client may resume above the ref: the buffer knows it, can serve the   *)
(* height above it (or the ref is its head), and does not refuse its hash. *)
Resumable(c, r) ==
  /\ \E b \in Range(c.blocks) : r \in {Ref(b), ParentRef(b)}
  /\ InWindow(c, r.number + 1) \/ r = GetHead(c)
  /\ ~BaseFails(c, r.number + 1, r.hash)

(* A client may resume above any buffered block.                           *)
LEMMA BlockResumable ==
  ASSUME NEW c, Published(c.blocks), NEW k \in 1 .. Len(c.blocks)
  PROVE  Resumable(c, Ref(c.blocks[k]))
<1> DEFINE bs == c.blocks
           n == Len(bs)
           r == Ref(bs[k])
<1>1. /\ n \in Nat \ {0} /\ DOMAIN bs = 1 .. n
      /\ \A i \in 1 .. n : bs[i].number \in Nat /\ bs[i].parent_number \in Nat
      /\ \A i, j \in 1 .. n : i < j => bs[i].number < bs[j].number
  BY PublishedIs
<1>2. r.number = bs[k].number /\ r.hash = bs[k].hash
  BY DEF Ref
<1>3. bs[k] \in Range(bs) /\ r \in {Ref(bs[k]), ParentRef(bs[k])}
  BY <1>1 DEF Range
<1>4. LastBlock(c) = bs[n] /\ FirstBlock(c) = bs[1] /\ bs[1].parent_number <= bs[1].number
  BY DEF LastBlock, FirstBlock, Published
<1>5. CASE k = n
  <2>1. r = GetHead(c)
    BY <1>4, <1>5 DEF GetHead
  <2>2. ~(bs[n].number + 1 <= bs[n].number)
    BY <1>1
  <2>3. ~InWindow(c, r.number + 1)
    BY <1>2, <1>4, <1>5, <2>2 DEF InWindow
  <2>4. ~BaseFails(c, r.number + 1, r.hash)
    BY <1>2, <1>4, <1>5, <2>3 DEF BaseFails
  <2> QED BY <1>3, <2>1, <2>4 DEF Resumable
<1>6. CASE k < n
  <2>1. k + 1 \in 1 .. n /\ k \in 1 .. n /\ k < k + 1 /\ n \in 1 .. n /\ 1 \in 1 .. n
    BY <1>1, <1>6
  <2>2. bs[k].number < bs[k + 1].number /\ bs[k].number < bs[n].number /\ bs[1].number <= bs[k].number
    <3>1. bs[k].number < bs[k + 1].number /\ bs[k].number < bs[n].number
      BY <1>1, <1>6, <2>1
    <3>2. k = 1 \/ 1 < k
      BY <1>1
    <3>3. bs[1].number <= bs[k].number
      BY <1>1, <2>1, <3>2
    <3> QED BY <3>1, <3>3
  <2>3. /\ bs[k].number \in Nat /\ bs[k + 1].number \in Nat /\ bs[n].number \in Nat
        /\ bs[1].number \in Nat /\ bs[1].parent_number \in Nat
    BY <1>1, <2>1
  <2> DEFINE x == bs[k].number
             y == bs[k + 1].number
             z == bs[n].number
  <2>a. x \in Nat /\ y \in Nat /\ z \in Nat /\ x < y /\ x < z
    BY <2>2, <2>3
  <2>b. bs[1].number <= x /\ bs[1].parent_number <= bs[1].number
        /\ bs[1].number \in Nat /\ bs[1].parent_number \in Nat
    BY <1>4, <2>2, <2>3
  <2>c. x + 1 <= z /\ x + 1 > bs[1].parent_number /\ y >= x + 1 /\ x + 1 \in Nat
    <3> HIDE DEF x, y, z
    <3> QED BY <2>a, <2>b
  <2>4. InWindow(c, r.number + 1)
    BY <1>2, <1>4, <2>c DEF InWindow
  <2>5. LowestFrom(c, r.number + 1) = bs[k + 1]
    <3>1. bs[k].number + 1 \in Nat /\ bs[k + 1].number >= bs[k].number + 1
      BY <2>c
    <3>2. ASSUME NEW i \in 1 .. (k + 1) - 1 PROVE bs[i].number < bs[k].number + 1
      <4>1. i \in 1 .. n /\ (i = k \/ i < k)
        BY <1>1, <1>6
      <4>2. bs[i].number <= bs[k].number /\ bs[i].number \in Nat
        BY <1>1, <2>1, <4>1
      <4> QED BY <2>3, <4>2
    <3> QED BY <1>2, <2>1, <3>1, <3>2, LowestIs
  <2>6. bs[k + 1].parent_hash = bs[k].hash
    <3>1. k + 1 \in 2 .. n /\ (k + 1) - 1 = k
      BY <1>1, <2>1
    <3> QED BY <3>1, PublishedIs
  <2>7. r.number + 1 # LastBlock(c).number + 1
    BY <1>2, <1>4, <2>2, <2>3
  <2>8. ~BaseFails(c, r.number + 1, r.hash)
    BY <1>2, <2>5, <2>6, <2>7 DEF BaseFails
  <2> QED BY <1>3, <2>4, <2>8 DEF Resumable
<1> QED BY <1>1, <1>5, <1>6

(* And above the parent of any buffered block that has one.                *)
LEMMA ParentResumable ==
  ASSUME NEW c, Published(c.blocks), NEW k \in 1 .. Len(c.blocks), ~IsRoot(c.blocks[k])
  PROVE  Resumable(c, ParentRef(c.blocks[k]))
<1> DEFINE bs == c.blocks
           n == Len(bs)
           r == ParentRef(bs[k])
<1>1. /\ n \in Nat \ {0} /\ DOMAIN bs = 1 .. n
      /\ \A i \in 1 .. n : bs[i].number \in Nat /\ bs[i].parent_number \in Nat
      /\ \A i, j \in 1 .. n : i < j => bs[i].number < bs[j].number
  BY PublishedIs
<1>2. CASE k \in 2 .. n
  <2>1. k - 1 \in 1 .. n
    BY <1>1, <1>2
  <2>2. r = Ref(bs[k - 1])
    BY <1>2, PublishedIs DEF ParentRef, Ref
  <2> QED BY <2>1, <2>2, BlockResumable
<1>3. CASE k = 1
  <2>1. r.number = bs[1].parent_number /\ r.hash = bs[1].parent_hash
    BY <1>3 DEF ParentRef
  <2>2. bs[1] \in Range(bs) /\ r \in {Ref(bs[1]), ParentRef(bs[1])}
    BY <1>1, <1>3 DEF Range
  <2>3. LastBlock(c) = bs[n] /\ FirstBlock(c) = bs[1] /\ bs[1].parent_number <= bs[1].number
    BY DEF LastBlock, FirstBlock, Published
  <2>4. 1 \in 1 .. n /\ n \in 1 .. n /\ (n = 1 \/ 1 < n)
    <3> HIDE DEF n
    <3> QED BY <1>1
  <2>5. /\ bs[1].number \in Nat /\ bs[1].parent_number \in Nat /\ bs[n].number \in Nat
        /\ bs[1].number <= bs[n].number
    BY <1>1, <2>4
  <2>6. bs[1].parent_number < bs[1].number
    BY <1>3, <2>3, <2>5 DEF IsRoot
  <2>7. InWindow(c, r.number + 1)
    BY <2>1, <2>3, <2>5, <2>6 DEF InWindow
  <2>8. LowestFrom(c, r.number + 1) = bs[1]
    <3>1. bs[1].parent_number + 1 \in Nat /\ bs[1].number >= bs[1].parent_number + 1
      BY <2>5, <2>6
    <3>2. \A i \in 1 .. 1 - 1 : bs[i].number < bs[1].parent_number + 1
      OBVIOUS
    <3> QED BY <2>1, <2>4, <3>1, <3>2, LowestIs
  <2>9. r.number + 1 # LastBlock(c).number + 1
    BY <2>1, <2>3, <2>5, <2>6
  <2>10. ~BaseFails(c, r.number + 1, r.hash)
    BY <2>1, <2>8, <2>9 DEF BaseFails
  <2> QED BY <2>2, <2>7, <2>10 DEF Resumable
<1> QED BY <1>1, <1>2, <1>3
(* A list of refs a client may recover with.                               *)
Recovers(c, prev) ==
  /\ prev # << >> /\ Len(prev) <= RefSpan + 1
  /\ \A i, j \in DOMAIN prev : i < j => prev[i].number < prev[j].number
  /\ \A i \in DOMAIN prev : Resumable(c, prev[i])

(* The refs of parents are such a list.                                    *)
LEMMA ParentRefsRecover ==
  ASSUME NEW c, Published(c.blocks), NEW pos \in 1 .. Len(c.blocks)
  PROVE  Recovers(c, ParentRefs(c, pos))
<1> DEFINE bs == c.blocks
           prev == ParentRefs(c, pos)
<1> USE RefSpanAssumption
<1>1. /\ Len(bs) \in Nat \ {0}
      /\ \A i \in 1 .. Len(bs) : bs[i].number \in Nat /\ bs[i].parent_number \in Nat
                                 /\ ParentRef(bs[i]).number <= bs[i].number
      /\ \A i, j \in 1 .. Len(bs) : i < j => bs[i].number < bs[j].number
      /\ \A i \in 2 .. Len(bs) : bs[i].parent_number = bs[i - 1].number /\ ~IsRoot(bs[i])
  BY PublishedIs
<1>2. CASE prev = <<Ref(bs[1])>>
  <2>1. 1 \in 1 .. Len(c.blocks)
    BY <1>1
  <2>2. Resumable(c, Ref(bs[1]))
    BY <2>1, BlockResumable
  <2>3. prev # << >> /\ Len(prev) = 1 /\ DOMAIN prev = {1} /\ prev[1] = Ref(bs[1])
    BY <1>2
  <2> HIDE DEF prev
  <2>4. \A i, j \in DOMAIN prev : i < j => prev[i].number < prev[j].number
    BY <2>3
  <2> QED BY <2>2, <2>3, <2>4 DEF Recovers, prev
<1>3. ASSUME NEW s \in 1 .. pos, pos - s <= RefSpan, ~IsRoot(bs[s]),
             prev \in Seq(BlockRef), Len(prev) = pos - s + 1,
             \A i \in 1 .. pos - s + 1 : prev[i] = ParentRef(bs[s + i - 1])
      PROVE  Recovers(c, prev)
  <2> HIDE DEF prev
  <2>1. DOMAIN prev = 1 .. pos - s + 1 /\ pos - s + 1 \in Nat \ {0} /\ prev # << >> /\ Len(prev) <= RefSpan + 1
    BY <1>1, <1>3
  <2>2. \A i \in 1 .. pos - s + 1 : s + i - 1 \in s .. pos /\ s + i - 1 \in 1 .. Len(bs)
    BY <1>1
  <2>3. \A k \in s .. pos : ~IsRoot(bs[k])
    <3> TAKE k \in s .. pos
    <3>1. k = s \/ k \in 2 .. Len(bs)
      BY <1>1
    <3> QED BY <1>1, <1>3, <3>1
  <2>4. \A k, l \in 1 .. Len(bs) : k < l /\ ~IsRoot(bs[k]) => ParentRef(bs[k]).number < ParentRef(bs[l]).number
    <3> SUFFICES ASSUME NEW k \in 1 .. Len(bs), NEW l \in 1 .. Len(bs), k < l, ~IsRoot(bs[k])
                 PROVE  bs[k].parent_number < bs[l].parent_number
      BY DEF ParentRef
    <3>1. l \in 2 .. Len(bs) /\ l - 1 \in 1 .. Len(bs) /\ (k = l - 1 \/ k < l - 1)
      BY <1>1
    <3>2. bs[l].parent_number = bs[l - 1].number
      BY <1>1, <3>1
    <3>3. bs[k].parent_number < bs[k].number
      <4>1. bs[k].number \in Nat /\ bs[k].parent_number \in Nat /\ ParentRef(bs[k]).number <= bs[k].number
        BY <1>1
      <4>2. ParentRef(bs[k]).number = bs[k].parent_number
        BY DEF ParentRef
      <4>3. bs[k].parent_number # bs[k].number
        BY DEF IsRoot
      <4> QED BY <4>1, <4>2, <4>3
    <3>4. bs[k].number <= bs[l - 1].number /\ bs[k].number \in Nat /\ bs[l - 1].number \in Nat
          /\ bs[k].parent_number \in Nat
      BY <1>1, <3>1
    <3> QED BY <3>2, <3>3, <3>4
  <2>5. ASSUME NEW i \in DOMAIN prev, NEW j \in DOMAIN prev, i < j PROVE prev[i].number < prev[j].number
    <3> DEFINE k == s + i - 1
               l == s + j - 1
    <3>1. k \in 1 .. Len(bs) /\ l \in 1 .. Len(bs) /\ k < l /\ k \in s .. pos
      BY <2>1, <2>2, <2>5
    <3>2. prev[i] = ParentRef(bs[k]) /\ prev[j] = ParentRef(bs[l])
      BY <1>3, <2>1
    <3> HIDE DEF k, l
    <3> QED BY <2>3, <2>4, <3>1, <3>2
  <2>6. ASSUME NEW i \in DOMAIN prev PROVE Resumable(c, prev[i])
    <3>1. s + i - 1 \in 1 .. Len(c.blocks) /\ ~IsRoot(bs[s + i - 1]) /\ prev[i] = ParentRef(bs[s + i - 1])
      BY <1>3, <2>1, <2>2, <2>3
    <3> QED BY <3>1, ParentResumable
  <2> QED BY <2>1, <2>5, <2>6 DEF Recovers
<1> HIDE DEF prev
<1>4. \/ prev = <<Ref(bs[1])>>
      \/ \E s \in 1 .. pos :
           /\ pos - s <= RefSpan /\ ~IsRoot(bs[s])
           /\ prev \in Seq(BlockRef) /\ Len(prev) = pos - s + 1
           /\ \A i \in 1 .. pos - s + 1 : prev[i] = ParentRef(bs[s + i - 1])
  BY ParentRefsAre DEF prev
<1>5. Recovers(c, prev)
  BY <1>2, <1>3, <1>4 DEF prev
<1> QED BY <1>5 DEF prev

(* So are the refs of the newest blocks.                                   *)
LEMMA HeadRefsRecover ==
  ASSUME NEW c, Published(c.blocks)
  PROVE  Recovers(c, HeadRefs(c))
<1> DEFINE bs == c.blocks
           n == Len(bs)
           start == Back(n + 1, RefSpan)
           span == SubSeq(bs, start, n)
           prev == HeadRefs(c)
<1> USE RefSpanAssumption
<1>1. n \in Nat \ {0} /\ bs \in Seq(Block)
      /\ \A i, j \in 1 .. n : i < j => bs[i].number < bs[j].number
  BY PublishedIs DEF Published
<1>2. start \in 1 .. n /\ n - start + 1 <= RefSpan
  BY <1>1 DEF Back
<1>3. span \in Seq(Block) /\ Len(span) = n - start + 1 /\ DOMAIN span = 1 .. n - start + 1
      /\ \A i \in 1 .. n - start + 1 : span[i] = bs[start + i - 1]
  <2> HIDE DEF start
  <2> QED BY <1>1, <1>2
<1>4. prev = [i \in DOMAIN span |-> Ref(span[i])]
  BY DEF HeadRefs
<1> HIDE DEF start, span, prev, n
<1>5. n - start + 1 \in Nat \ {0}
  BY <1>1, <1>2
<1>6. prev # << >> /\ Len(prev) <= RefSpan + 1 /\ DOMAIN prev = 1 .. n - start + 1
  BY <1>2, <1>3, <1>4, <1>5
<1>7. \A i \in 1 .. n - start + 1 : prev[i] = Ref(bs[start + i - 1]) /\ start + i - 1 \in 1 .. n
  BY <1>1, <1>2, <1>3, <1>4
<1>8. ASSUME NEW i \in DOMAIN prev, NEW j \in DOMAIN prev, i < j PROVE prev[i].number < prev[j].number
  <2>1. /\ prev[i] = Ref(bs[start + i - 1]) /\ prev[j] = Ref(bs[start + j - 1])
        /\ start + i - 1 \in 1 .. n /\ start + j - 1 \in 1 .. n
    BY <1>6, <1>7
  <2>2. start + i - 1 < start + j - 1
    BY <1>2, <1>6, <1>8
  <2> QED BY <1>1, <2>1, <2>2 DEF Ref
<1>9. ASSUME NEW i \in DOMAIN prev PROVE Resumable(c, prev[i])
  <2>1. prev[i] = Ref(bs[start + i - 1]) /\ start + i - 1 \in 1 .. Len(c.blocks)
    BY <1>6, <1>7 DEF n
  <2> QED BY <2>1, BlockResumable
<1> QED BY <1>6, <1>8, <1>9 DEF Recovers, prev

(* Every conflict carries refs a client may recover with: RecoveryConverges*)
(* of Chain::query.                                                        *)
LEMMA ConflictRecovers ==
  ASSUME NEW c, Published(c.blocks), NEW f \in Nat, NEW h, Query(c, f, h).kind = "Conflict"
  PROVE  Recovers(c, Query(c, f, h).prev)
<1> DEFINE bs == c.blocks
           pos == BisectPos(bs, f)
           a == Query(c, f, h)
<1>1. a = IF BelowWindow(c, f) THEN Answer("Empty", NoRef, << >>, << >>)
          ELSE IF pos \in DOMAIN bs
            THEN IF h # NoHash /\ bs[pos].parent_hash # h
                   THEN Answer("Conflict", NoRef, << >>, ParentRefs(c, pos))
                   ELSE Answer("Window", GetFinalizedHead(c), TailFrom(c, pos), << >>)
          ELSE IF HeadRejects(c, f, h) THEN Answer("Conflict", NoRef, << >>, HeadRefs(c))
          ELSE Answer("Empty", GetFinalizedHead(c), << >>, << >>)
  BY DEF Query
<1>2. a.kind = "Conflict"
  OBVIOUS
<1>3. pos \in DOMAIN bs => pos \in 1 .. Len(c.blocks)
  BY PublishedIs
<1> HIDE DEF a, pos
<1>4. (a.prev = ParentRefs(c, pos) /\ pos \in DOMAIN bs) \/ a.prev = HeadRefs(c)
  BY <1>1, <1>2 DEF Answer
<1>5. Recovers(c, a.prev)
  BY <1>3, <1>4, ParentRefsRecover, HeadRefsRecover
<1> QED BY <1>5 DEF a

-----------------------------------------------------------------------------
(* The request against the writer.                                         *)

QueryInv == Published(blocks) /\ finalized \in 1 .. Len(blocks) /\ from \in Nat

(* What a step that publishes publishes.                                   *)
LEMMA PublishesPublished ==
  ASSUME NEW c \in Buffers
  PROVE  Published(c.blocks) /\ c.finalized_head \in 1 .. Len(c.blocks)
<1>1. c.blocks \in Seq(Block) /\ Linked(c.blocks) /\ c.finalized_head \in DOMAIN c.blocks
      /\ c.blocks[1].parent_number <= c.blocks[1].number
  BY BuffersAssumption
<1>2. DOMAIN c.blocks = 1 .. Len(c.blocks) /\ Len(c.blocks) \in Nat
  BY <1>1
<1>3. Len(c.blocks) >= 1
  BY <1>1, <1>2
<1> QED BY <1>1, <1>2, <1>3 DEF Published

(* Readers only meet published buffers.                                    *)
THEOREM QueryInvariant == Spec => []QueryInv
<1>1. Init => QueryInv
  BY PublishesPublished DEF Init, QueryInv
<1>2. QueryInv /\ [Next]_vars => QueryInv'
  <2> SUFFICES ASSUME QueryInv, [Next]_vars PROVE QueryInv'
    OBVIOUS
  <2>1. ASSUME NEW c \in Buffers, PublishBatch(c) \/ ReseedBuffer(c) PROVE QueryInv'
    <3>1. blocks' = c.blocks /\ finalized' = c.finalized_head /\ from' = from
      BY <2>1 DEF PublishBatch, ReseedBuffer, Publishes
    <3>2. Published(c.blocks) /\ c.finalized_head \in 1 .. Len(c.blocks)
      BY PublishesPublished
    <3> QED BY <3>1, <3>2 DEF QueryInv, Published
  <2>2. ASSUME NEW f \in Froms, NEW h \in BaseHashes, Arrive(f, h) PROVE QueryInv'
    <3>1. blocks' = blocks /\ finalized' = finalized /\ from' \in Nat
      BY <2>2, FromsAssumption DEF Arrive
    <3> QED BY <3>1 DEF QueryInv, Published
  <2>3. CASE Close
    BY <2>3 DEF Close, QueryInv, Published
  <2>4. Classify \/ SnapshotBelow \/ QueryCache \/ Requery \/ Wake \/ Expire \/ BudgetSpent \/ UNCHANGED vars
          => UNCHANGED <<blocks, finalized, from>>
    BY DEF Classify, SnapshotBelow, QueryCache, Requery, Wake, Expire, BudgetSpent, Moves, vars
  <2>5. CASE UNCHANGED <<blocks, finalized, from>>
    BY <2>5 DEF QueryInv, Published
  <2> QED BY <2>1, <2>2, <2>3, <2>4, <2>5 DEF Next
<1> QED BY <1>1, <1>2, PTL DEF Spec

(* A request that is answered is answered by one read of the buffer.       *)
LEMMA AnsweringQueries ==
  ASSUME [Next]_vars, Answering
  PROVE  response' = Query(Now, from, base_hash)
<1>1. pc \in {"cached", "requery"} /\ pc' = "answered" /\ pc # pc'
  BY DEF Answering
<1>2. QueryCache \/ Requery
  BY <1>1 DEF Next, vars, PublishBatch, ReseedBuffer, Publishes, Arrive, Classify, SnapshotBelow, Wake, Expire,
              BudgetSpent, Close, Moves
<1>3. CASE QueryCache
  <2> DEFINE answer == Query(Now, from, base_hash)
  <2>1. /\ response' = IF answer.kind = "Empty" THEN NoResponse ELSE answer
        /\ pc' = IF answer.kind = "Empty" THEN "waiting" ELSE "answered"
    BY <1>3 DEF QueryCache, Moves
  <2> QED BY <1>1, <2>1
<1>4. CASE Requery
  BY <1>4 DEF Requery
<1> QED BY <1>2, <1>3, <1>4

(* The verdict of a request is that of the one buffer published at the     *)
(* moment of the answer, for every buffer the writer may publish and every *)
(* request: INV-20..22, RP-3 (handle_stream, Chain::query).                *)
THEOREM VerdictIsOfTheMoment == Spec => VerdictOfTheMoment
<1> DEFINE Verdict ==
      Answering =>
        /\ response'.kind = "Conflict" <=> BaseFails(Now, from, base_hash)
        /\ response'.kind = "Window" => InWindow(Now, from)
        /\ InWindow(Now, from) /\ ~BaseFails(Now, from, base_hash) =>
             /\ response'.kind = "Window"
             /\ response'.tail # << >> /\ IsSuffix(response'.tail, blocks)
             /\ response'.tail[1] = LowestFrom(Now, from)
             /\ response'.finalized_head = GetFinalizedHead(Now)
<1>1. QueryInv /\ [Next]_vars => [Verdict]_vars
  <2> SUFFICES ASSUME QueryInv, [Next]_vars, Answering PROVE Verdict
    OBVIOUS
  <2>1. response' = Query(Now, from, base_hash)
    BY AnsweringQueries
  <2>2. Published(Now.blocks) /\ Now.blocks = blocks /\ from \in Nat
    BY DEF QueryInv, Now
  <2> QED BY <2>1, <2>2, QueryVerdict
<1>2. [][Verdict]_vars => VerdictOfTheMoment
  BY DEF VerdictOfTheMoment
<1> QED BY <1>1, <1>2, QueryInvariant, PTL DEF Spec

(* The refs of a conflict ascend, are known to the buffer and are each     *)
(* accepted by it when a client resumes above them, for every buffer and   *)
(* every reach of the refs: RP-7 (Chain::query).                           *)
THEOREM ConflictsConverge == Spec => RecoveryConverges
<1> DEFINE Converges ==
      Answering /\ response'.kind = "Conflict" =>
        LET prev == response'.prev
        IN  /\ prev # << >> /\ Len(prev) <= RefSpan + 1
            /\ \A i, j \in DOMAIN prev : i < j => prev[i].number < prev[j].number
            /\ \A i \in DOMAIN prev :
                 /\ \E b \in Range(blocks) : prev[i] \in {Ref(b), ParentRef(b)}
                 /\ InWindow(Now, prev[i].number + 1) \/ prev[i] = GetHead(Now)
                 /\ ~BaseFails(Now, prev[i].number + 1, prev[i].hash)
<1>1. QueryInv /\ [Next]_vars => [Converges]_vars
  <2> SUFFICES ASSUME QueryInv, [Next]_vars, Answering, response'.kind = "Conflict" PROVE Converges
    OBVIOUS
  <2>1. response' = Query(Now, from, base_hash)
    BY AnsweringQueries
  <2>2. Published(Now.blocks) /\ Now.blocks = blocks /\ from \in Nat
    BY DEF QueryInv, Now
  <2>3. Recovers(Now, response'.prev)
    BY <2>1, <2>2, ConflictRecovers
  <2> QED BY <2>2, <2>3 DEF Recovers, Resumable
<1>2. [][Converges]_vars => RecoveryConverges
  BY DEF RecoveryConverges
<1> QED BY <1>1, <1>2, QueryInvariant, PTL DEF Spec

----------------------------------------------------------------------------
(* Readiness and the stall alarm.                                          *)

(* The types of the view, of what was heard and of what an evaluation of   *)
(* the levels has in hand.                                                 *)
AgeOrNone == Ages \cup {None}

View == [number : Nat, numberAge : Ages, readAge : AgeOrNone]

Heard == [number : Nat, age : 0 .. StallAfter - 1]

Sample == [at : {"sampled"}, observed : AgeOrNone]

Verdict == [at : {"decided"}, stalled : BOOLEAN, overtaken : BOOLEAN]

Task == {Idle} \cup Sample \cup Verdict

HeadOrNone == Nat \cup {None}

(* The type invariant.                                                     *)
ReadinessTypeOK ==
  /\ upstream \in Nat /\ head \in Nat /\ last_block \in Nat
  /\ committing \in {"no", "pushed", "recorded"}
  /\ observation \in {None} \cup View
  /\ clock \in [committed : Ages, behind : AgeOrNone]
  /\ stall_alarm \in BOOLEAN
  /\ refresh \in [Refreshers -> Task]
  /\ levelled \in BOOLEAN
  /\ observer \in [reading : BOOLEAN, spent : Nat, due : Nat]
  /\ probe \in {Idle} \cup [at : {"sampled"}, head : HeadOrNone, heard : HeadOrNone]
  /\ ready \in BOOLEAN
  /\ quiet \in Ages /\ seeded \in BOOLEAN
  /\ watched \in 0 .. StallAfter + 2
  /\ heard \in {None} \cup Heard

(* The smaller of two numbers.                                             *)
LEMMA MinOfTwo ==
  ASSUME NEW a \in Int, NEW b \in Int
  PROVE  Min({a, b}) = IF a <= b THEN a ELSE b
<1> DEFINE m == IF a <= b THEN a ELSE b
<1>1. m \in {a, b} /\ \A y \in {a, b} : m <= y
  OBVIOUS
<1>2. \A x \in {a, b} : (\A y \in {a, b} : x <= y) => x = m
  OBVIOUS
<1> HIDE DEF m
<1>3. Min({a, b}) = m
  BY <1>1, <1>2 DEF Min
<1> QED
  BY <1>3 DEF m

(* What a time unit makes of an age.                                       *)
LEMMA OlderIs ==
  ASSUME NEW age \in AgeOrNone
  PROVE  /\ Older(age) \in AgeOrNone
         /\ age = None => Older(age) = None
         /\ age # None => /\ Older(age) \in Ages
                          /\ Older(age) # None
                          /\ Older(age) = IF age < StallAfter THEN age + 1 ELSE StallAfter
<1> USE StallAfterAssumption, NoneAssumption
<1>1. CASE age = None
  BY <1>1 DEF Older, AgeOrNone
<1>2. CASE age # None
  <2>1. age \in Int /\ age + 1 \in Int /\ StallAfter \in Int /\ age >= 0 /\ age <= StallAfter
    BY <1>2 DEF AgeOrNone, Ages
  <2>2. Older(age) = IF age + 1 <= StallAfter THEN age + 1 ELSE StallAfter
    BY <1>2, <2>1, MinOfTwo DEF Older
  <2> QED
    BY <1>2, <2>1, <2>2 DEF AgeOrNone, Ages
<1> QED
  BY <1>1, <1>2

(* A commit marks the verdicts in hand and nothing else.                   *)
LEMMA OvertakeIs ==
  ASSUME NEW task \in Task
  PROVE  /\ Overtake(task) \in Task
         /\ task.at # "decided" => Overtake(task) = task
         /\ task.at = "decided" => /\ Overtake(task).at = "decided" /\ Overtake(task).overtaken
                                   /\ Overtake(task).stalled = task.stalled
<1>1. CASE task.at = "decided"
  <2>1. task \in Verdict
    BY <1>1 DEF Task, Sample, Idle
  <2> QED BY <1>1, <2>1 DEF Overtake, Verdict, Task
<1>2. CASE task.at # "decided"
  BY <1>2 DEF Overtake
<1> QED BY <1>1, <1>2

(* The time to the observer's next read.                                   *)
LEMMA IntervalIsNat == RefreshInterval \in Nat
BY StallAfterAssumption DEF RefreshInterval

(* What an observation leaves of the time the view has been watched.       *)
LEMMA WatchingIs ==
  ASSUME ReadinessTypeOK, NEW view, NEW level, Watching(view, level)
  PROVE  /\ watched' \in 0 .. StallAfter + 2
         /\ watched' \in {watched, 0}
         /\ watched' > 0 => Ahead(view, level)
BY StallAfterAssumption DEF ReadinessTypeOK, Watching

(* The view after a read of the head, or a batch, that gave height n.      *)
LEMMA ProgressIs ==
  ASSUME ReadinessTypeOK, NEW n \in Nat
  PROVE  /\ ProgressView(n) \in View \cup {None}
         /\ observation # None /\ observation.number >= n => ProgressView(n) = observation
         /\ ~(observation # None /\ observation.number >= n) =>
              /\ ProgressView(n) \in View
              /\ ProgressView(n).number = n
              /\ ProgressView(n).numberAge = 0
              /\ ProgressView(n).readAge = IF observation = None THEN None ELSE observation.readAge
BY StallAfterAssumption DEF ReadinessTypeOK, ProgressView, View, AgeOrNone, Ages

(* What a time unit does to the view and to what was heard.                *)
LEMMA TickIs ==
  ASSUME ReadinessTypeOK, Tick
  PROVE  /\ clock' = [committed |-> Older(clock.committed), behind |-> Older(clock.behind)]
         /\ clock.committed \in Ages /\ clock.committed \in AgeOrNone /\ clock.committed # None
         /\ clock.behind \in AgeOrNone
         /\ quiet' = Older(quiet) /\ quiet \in Ages /\ quiet \in AgeOrNone /\ quiet # None
         /\ observation = None => observation' = None
         /\ observation # None =>
              /\ observation \in View /\ observation.numberAge \in AgeOrNone
              /\ observation.numberAge # None /\ observation.readAge \in AgeOrNone
              /\ observation' = [number |-> observation.number,
                                 numberAge |-> Older(observation.numberAge),
                                 readAge |-> Older(observation.readAge)]
<1> USE StallAfterAssumption, NoneAssumption DEF Ages, AgeOrNone
<1>1. clock' = [committed |-> Older(clock.committed), behind |-> Older(clock.behind)] /\ quiet' = Older(quiet)
  BY DEF Tick
<1>2. /\ clock.committed \in Ages /\ clock.committed \in AgeOrNone /\ clock.committed # None
      /\ clock.behind \in AgeOrNone
      /\ quiet \in Ages /\ quiet \in AgeOrNone /\ quiet # None
  BY DEF ReadinessTypeOK
<1>3. observation = None => observation' = None
  BY DEF Tick
<1>4. ASSUME observation # None
      PROVE  /\ observation \in View /\ observation.numberAge \in AgeOrNone
             /\ observation.numberAge # None /\ observation.readAge \in AgeOrNone
             /\ observation' = [number |-> observation.number,
                                numberAge |-> Older(observation.numberAge),
                                readAge |-> Older(observation.readAge)]
  <2>1. observation \in View
    BY <1>4 DEF ReadinessTypeOK
  <2>2. observation.numberAge \in AgeOrNone /\ observation.numberAge # None /\ observation.readAge \in AgeOrNone
    BY <2>1 DEF View
  <2>3. observation' = [observation EXCEPT !.numberAge = Older(@), !.readAge = Older(@)]
    BY <1>4 DEF Tick
  <2> QED BY <2>1, <2>2, <2>3 DEF View
<1> QED BY <1>1, <1>2, <1>3, <1>4

(* Every step keeps the types.                                             *)
LEMMA ReadinessTypeStep == ReadinessTypeOK /\ [ReadinessNext]_readinessVars => ReadinessTypeOK'
<1> SUFFICES ASSUME ReadinessTypeOK, [ReadinessNext]_readinessVars PROVE ReadinessTypeOK'
  OBVIOUS
<1> USE StallAfterAssumption, MaxHeightAssumption, NoneAssumption
<1>1. CASE Produce
  BY <1>1 DEF Produce, ReadinessTypeOK, Ages, commitVars, viewVars, alarmVars, probeVars
<1>2. ASSUME Observes PROVE /\ observation' \in {None} \cup View /\ heard' \in {None} \cup Heard
                            /\ watched' \in 0 .. StallAfter + 2
  <2>1. PICK n \in 0 .. upstream : ObserveUpstreamHead(n)
    BY <1>2 DEF Observes
  <2>2. n \in Nat
    BY DEF ReadinessTypeOK
  <2>3. watched' \in 0 .. StallAfter + 2
    BY <2>1, WatchingIs DEF ObserveUpstreamHead
  <2> QED BY <2>1, <2>2, <2>3 DEF ObserveUpstreamHead, View, Heard, Ages, AgeOrNone
<1>3. CASE SourceObserves
  BY <1>2, <1>3 DEF SourceObserves, ReadinessTypeOK, commitVars, alarmVars, probeVars, quietVars
<1>4. CASE BeginRead
  BY <1>4, IntervalIsNat DEF BeginRead, ReadinessTypeOK, commitVars, viewVars, alarmVars, probeVars, quietVars
<1>5. CASE ReadAnswered
  BY <1>2, <1>5 DEF ReadAnswered, ReadinessTypeOK, commitVars, alarmVars, probeVars, quietVars
<1>6. CASE ReadFails
  BY <1>6 DEF ReadFails, ReadinessTypeOK, commitVars, viewVars, alarmVars, probeVars, quietVars
<1>7. CASE PushBatch
  <2>1. PICK n \in 1 .. upstream : head' \in {n} \cup {h \in {head} : n <= h} /\ ObserveUpstreamProgress(n)
    BY <1>7 DEF PushBatch
  <2>2. n \in Nat
    BY DEF ReadinessTypeOK
  <2>3. head' \in Nat
    BY <2>1, <2>2 DEF ReadinessTypeOK
  <2>4. observation' \in View \cup {None} /\ watched' \in 0 .. StallAfter + 2 /\ heard' = heard
    BY <2>1, <2>2, ProgressIs, WatchingIs DEF ObserveUpstreamProgress
  <2> QED BY <1>7, <2>3, <2>4 DEF PushBatch, ReadinessTypeOK, alarmVars, probeVars, quietVars
<1>8. CASE RecordCommit
  <2>1. clock' \in [committed : Ages, behind : AgeOrNone] /\ quiet' \in Ages
    BY <1>8 DEF RecordCommit, ReadinessTypeOK, Ages
  <2>2. committing' = "recorded" /\ seeded' = FALSE /\ watched' \in 0 .. StallAfter + 2
    BY <1>8 DEF RecordCommit
  <2>3. UNCHANGED <<upstream, head, last_block, observation, heard, stall_alarm, levelled, observer, probe, ready>>
    BY <1>8 DEF RecordCommit, viewVars, probeVars
  <2>4. refresh' \in [Refreshers -> Task]
    BY <1>8, OvertakeIs DEF RecordCommit, ReadinessTypeOK
  <2> QED BY <2>1, <2>2, <2>3, <2>4 DEF ReadinessTypeOK
<1>9. CASE TriggerUpdate
  <2>1. watched' \in 0 .. StallAfter + 2
    BY <1>9, WatchingIs DEF TriggerUpdate
  <2> QED BY <1>9, <2>1 DEF TriggerUpdate, ReadinessTypeOK, viewVars, alarmVars, probeVars, quietVars
<1>10. CASE Reseed
  <2>1. watched' \in 0 .. StallAfter + 2
    BY <1>10, WatchingIs DEF Reseed
  <2>2. head' \in Nat
    BY <1>10 DEF Reseed, ReadinessTypeOK
  <2> QED BY <1>10, <2>1, <2>2 DEF Reseed, ReadinessTypeOK, viewVars, alarmVars, probeVars
<1>11. ASSUME NEW r \in Refreshers, SampleView(r) PROVE ReadinessTypeOK'
  <2> DEFINE o == IF Ahead(observation, last_block) THEN observation.numberAge ELSE None
  <2>1. o \in AgeOrNone
    BY DEF Ahead, ReadinessTypeOK, View, AgeOrNone
  <2>2. refresh' = [refresh EXCEPT ![r] = [at |-> "sampled", observed |-> o]]
    BY <1>11 DEF SampleView
  <2> HIDE DEF o
  <2>3. refresh' \in [Refreshers -> Task]
    BY <2>1, <2>2 DEF ReadinessTypeOK, Task, Sample
  <2> QED BY <1>11, <2>3 DEF SampleView, ReadinessTypeOK, commitVars, viewVars, probeVars, quietVars
<1>12. ASSUME NEW r \in Refreshers, Decide(r) PROVE ReadinessTypeOK'
  <2> DEFINE b == BehindSince(refresh[r].observed)
  <2>1. refresh[r].at = "sampled" /\ refresh[r].observed \in AgeOrNone
    BY <1>12 DEF Decide, ReadinessTypeOK, Task, Idle, Sample, Verdict
  <2>2. b \in AgeOrNone /\ Stalled(b) \in BOOLEAN
    BY <2>1 DEF BehindSince, Stalled, ReadinessTypeOK, AgeOrNone
  <2>3. /\ clock' = [clock EXCEPT !.behind = b]
        /\ refresh' = [refresh EXCEPT ![r] = [at |-> "decided", stalled |-> Stalled(b), overtaken |-> FALSE]]
    BY <1>12 DEF Decide
  <2> HIDE DEF b
  <2>4. clock' \in [committed : Ages, behind : AgeOrNone]
    BY <2>2, <2>3 DEF ReadinessTypeOK
  <2>5. refresh' \in [Refreshers -> Task]
    BY <2>2, <2>3 DEF ReadinessTypeOK, Task, Verdict
  <2> QED BY <1>12, <2>4, <2>5 DEF Decide, ReadinessTypeOK, commitVars, viewVars, probeVars, quietVars
<1>17. ASSUME NEW r \in Refreshers, Publish(r) PROVE ReadinessTypeOK'
  <2>1. stall_alarm' \in BOOLEAN
    BY <1>17 DEF Publish, ReadinessTypeOK, Task, Idle, Sample, Verdict
  <2>2. refresh' \in [Refreshers -> Task]
    BY <1>17 DEF Publish, ReadinessTypeOK, Task
  <2> QED BY <1>17, <2>1, <2>2 DEF Publish, ReadinessTypeOK, commitVars, viewVars, probeVars, quietVars
<1>13. CASE SampleHead
  <2>1. FreshUpstreamHead \in HeadOrNone /\ (IF heard = None THEN None ELSE heard.number) \in HeadOrNone
    BY DEF FreshUpstreamHead, HeadOrNone, ReadinessTypeOK, View, Heard
  <2> QED BY <1>13, <2>1 DEF SampleHead, ReadinessTypeOK, commitVars, viewVars, alarmVars, quietVars
<1>14. CASE AnswerProbe
  BY <1>14 DEF AnswerProbe, ReadinessTypeOK, commitVars, viewVars, alarmVars, quietVars
<1>15. CASE Tick
  <2>1. clock' \in [committed : Ages, behind : AgeOrNone] /\ quiet' \in Ages
    BY <1>15, TickIs, OlderIs
  <2>2. observation' \in {None} \cup View
    <3>1. CASE observation = None
      BY <1>15, <3>1, TickIs
    <3>2. CASE observation # None
      <4>1. Older(observation.numberAge) \in Ages /\ Older(observation.readAge) \in AgeOrNone
        BY <1>15, <3>2, TickIs, OlderIs
      <4> QED BY <1>15, <3>2, <4>1, TickIs DEF View
    <3> QED BY <3>1, <3>2
  <2>3. heard' \in {None} \cup Heard
    <3>1. CASE heard = None \/ heard.age + 1 >= StallAfter
      BY <1>15, <3>1 DEF Tick
    <3>2. CASE ~(heard = None \/ heard.age + 1 >= StallAfter)
      BY <1>15, <3>2 DEF Tick, ReadinessTypeOK, Heard
    <3> QED BY <3>1, <3>2
  <2>4. watched' \in 0 .. StallAfter + 2
    <3> DEFINE m == Min({watched + 1, StallAfter + 2})
    <3>1. watched + 1 \in Int /\ StallAfter + 2 \in Int /\ watched >= 0
      BY DEF ReadinessTypeOK
    <3>2. m = IF watched + 1 <= StallAfter + 2 THEN watched + 1 ELSE StallAfter + 2
      BY <3>1, MinOfTwo
    <3>3. watched' = m \/ watched' = 0
      BY <1>15 DEF Tick
    <3> HIDE DEF m
    <3>4. watched \in Int
      BY DEF ReadinessTypeOK
    <3> QED BY <3>1, <3>2, <3>3, <3>4
  <2>5. observer' \in [reading : BOOLEAN, spent : Nat, due : Nat]
    <3>1. observer.due - 1 \in Nat /\ (IF observer.reading THEN observer.spent + 1 ELSE observer.spent) \in Nat
      BY <1>15 DEF Tick, ReadinessTypeOK
    <3>2. observer' = [observer EXCEPT !.due = @ - 1, !.spent = IF observer.reading THEN @ + 1 ELSE @]
      BY <1>15 DEF Tick
    <3> QED BY <3>1, <3>2 DEF ReadinessTypeOK
  <2> QED BY <1>15, <2>1, <2>2, <2>3, <2>4, <2>5 DEF Tick, ReadinessTypeOK, commitVars, probeVars
<1>16. CASE UNCHANGED readinessVars
  BY <1>16 DEF readinessVars, ReadinessTypeOK, commitVars, viewVars, alarmVars, probeVars, quietVars
<1> QED BY <1>1, <1>3, <1>4, <1>5, <1>6, <1>7, <1>8, <1>9, <1>10, <1>11, <1>12, <1>13, <1>14, <1>15, <1>16, <1>17
        DEF ReadinessNext

----------------------------------------------------------------------------
(* Readiness is earned.                                                    *)

(* A view that is fresh was heard: the last answer of the upstream is as   *)
(* old as the view's read, and batches have only raised the number since.  *)
FreshIsHeard ==
  observation # None /\ observation.readAge # None /\ observation.readAge < StallAfter =>
    heard # None /\ heard.age = observation.readAge /\ heard.number <= observation.number

(* What a probe has in hand was heard when it sampled.                     *)
ProbeHeard ==
  probe.at = "sampled" /\ probe.head # None => probe.heard # None /\ probe.heard <= probe.head

(* A fresh view stays heard.                                               *)
LEMMA FreshIsHeardStep ==
  ASSUME ReadinessTypeOK, FreshIsHeard, [ReadinessNext]_readinessVars
  PROVE  FreshIsHeard'
<1> USE StallAfterAssumption, NoneAssumption
<1>1. CASE UNCHANGED <<observation, heard>>
  BY <1>1 DEF FreshIsHeard
<1>2. CASE Observes
  <2>1. PICK n \in 0 .. upstream : /\ observation' = [number |-> n, numberAge |-> 0, readAge |-> 0]
                                   /\ heard' = [number |-> n, age |-> 0]
    BY <1>2 DEF Observes, ObserveUpstreamHead
  <2>2. n \in Nat
    BY DEF ReadinessTypeOK
  <2>3. heard' # None
    BY <2>1, <2>2
  <2> QED BY <2>1, <2>2, <2>3 DEF FreshIsHeard
<1>3. CASE PushBatch
  <2>1. PICK n \in 1 .. upstream : ObserveUpstreamProgress(n)
    BY <1>3 DEF PushBatch
  <2>2. n \in Nat
    BY DEF ReadinessTypeOK
  <2>3. observation' = ProgressView(n) /\ heard' = heard
    BY <2>1 DEF ObserveUpstreamProgress
  <2>4. CASE observation # None /\ observation.number >= n
    BY <2>2, <2>3, <2>4, ProgressIs DEF FreshIsHeard
  <2>5. CASE observation = None
    BY <2>2, <2>3, <2>5, ProgressIs DEF FreshIsHeard
  <2>6. CASE observation # None /\ ~(observation.number >= n)
    <3>1. observation'.number = n /\ observation'.readAge = observation.readAge
      BY <2>2, <2>3, <2>6, ProgressIs
    <3>2. observation.number < n /\ observation.number \in Nat
      BY <2>2, <2>6 DEF ReadinessTypeOK, View
    <3>3. heard # None => heard.number \in Nat
      BY DEF ReadinessTypeOK, Heard
    <3> QED BY <2>2, <2>3, <2>6, <3>1, <3>2, <3>3 DEF FreshIsHeard
  <2> QED BY <2>4, <2>5, <2>6
<1>4. CASE Tick
  <2> SUFFICES ASSUME observation' # None, observation'.readAge # None, observation'.readAge < StallAfter
               PROVE  heard' # None /\ heard'.age = observation'.readAge /\ heard'.number <= observation'.number
    BY DEF FreshIsHeard
  <2>1. /\ observation # None /\ observation.readAge \in AgeOrNone
        /\ observation'.readAge = Older(observation.readAge) /\ observation'.number = observation.number
    BY <1>4, TickIs
  <2>2. observation.readAge # None
    BY <2>1, OlderIs
  <2>3. observation.readAge + 1 < StallAfter /\ observation'.readAge = observation.readAge + 1 /\ observation.readAge \in Nat
    <3>1. observation.readAge \in 0 .. StallAfter
      BY <2>1, <2>2 DEF AgeOrNone, Ages
    <3>2. Older(observation.readAge) = IF observation.readAge < StallAfter THEN observation.readAge + 1 ELSE StallAfter
      BY <2>1, <2>2, OlderIs
    <3> QED BY <2>1, <3>1, <3>2
  <2>4. heard # None /\ heard.age = observation.readAge /\ heard.number <= observation.number
    BY <2>1, <2>2, <2>3 DEF FreshIsHeard
  <2>5. heard \in [number : Nat, age : Nat]
    BY <2>4 DEF ReadinessTypeOK, Heard
  <2>6. heard' = [heard EXCEPT !.age = @ + 1]
    BY <1>4, <2>3, <2>4 DEF Tick
  <2>7. heard' \in [number : Nat, age : Nat] /\ heard'.age = heard.age + 1 /\ heard'.number = heard.number
    BY <2>5, <2>6
  <2> QED BY <2>1, <2>3, <2>4, <2>7
<1>5. ReadinessNext => UNCHANGED <<observation, heard>> \/ Observes \/ PushBatch \/ Tick
  BY DEF ReadinessNext, Produce, SourceObserves, BeginRead, ReadAnswered, ReadFails, RecordCommit, TriggerUpdate,
         Reseed, SampleView, Decide, Publish, SampleHead, AnswerProbe, viewVars
<1>6. UNCHANGED readinessVars => UNCHANGED <<observation, heard>>
  BY DEF readinessVars, viewVars
<1> QED BY <1>1, <1>2, <1>3, <1>4, <1>5, <1>6

(* A probe in hand stays one that was heard.                               *)
LEMMA ProbeHeardStep ==
  ASSUME ReadinessTypeOK, FreshIsHeard, ProbeHeard, [ReadinessNext]_readinessVars
  PROVE  ProbeHeard'
<1> USE NoneAssumption
<1>1. CASE UNCHANGED probe
  BY <1>1 DEF ProbeHeard
<1>2. CASE SampleHead
  <2>1. /\ probe'.head = FreshUpstreamHead
        /\ probe'.heard = IF heard = None THEN None ELSE heard.number
    BY <1>2 DEF SampleHead
  <2>2. ASSUME FreshUpstreamHead # None
        PROVE  heard # None /\ heard.number <= FreshUpstreamHead
    BY <2>2 DEF FreshUpstreamHead, FreshIsHeard
  <2>3. heard # None => heard.number \in Nat
    BY DEF ReadinessTypeOK, Heard
  <2> QED BY <2>1, <2>2, <2>3 DEF ProbeHeard
<1>3. CASE AnswerProbe
  BY <1>3 DEF AnswerProbe, ProbeHeard, Idle
<1>4. ReadinessNext => UNCHANGED probe \/ SampleHead \/ AnswerProbe
  BY DEF ReadinessNext, Produce, SourceObserves, BeginRead, ReadAnswered, ReadFails, PushBatch, RecordCommit,
         TriggerUpdate, Reseed, SampleView, Decide, Publish, Tick, probeVars
<1>5. UNCHANGED readinessVars => UNCHANGED probe
  BY DEF readinessVars, probeVars
<1> QED BY <1>1, <1>2, <1>3, <1>4, <1>5

-----------------------------------------------------------------------------
(* The alarm is earned.                                                    *)

(* No time passes between the record of a commit and its publication.      *)
Recorded == committing = "recorded" => clock.committed = 0

(* What the view says the upstream has.                                    *)
ViewReal == observation # None => observation.number <= upstream

(* An age that would count as being behind is at most a time unit above    *)
(* the quiet the alarm has to earn, or the last commit is.                 *)
Excused(age) == age # None => clock.committed <= quiet + 1 \/ age <= quiet + 1

Sampled(r) == refresh[r].at = "sampled"
Decided(r) == refresh[r].at = "decided"

(* The clock was consulted in this time unit.                              *)
Judged == levelled \/ \E r \in Refreshers : Decided(r)

BehindIsReal ==
  ~seeded =>
    /\ Excused(clock.behind)
    /\ \A r \in Refreshers : Sampled(r) => Excused(refresh[r].observed)
    /\ Ahead(observation, last_block) => Excused(observation.numberAge)

(* When the buffer has all there is, a clock or a sample that still says   *)
(* it is behind is left from before a commit: of this time unit, or, when  *)
(* the clock has not been consulted in it, of the one before.              *)
LevelIsReal ==
  ~seeded /\ upstream <= last_block =>
    /\ clock.behind # None => clock.committed = 0 \/ (~Judged /\ clock.committed = 1)
    /\ \A r \in Refreshers : Sampled(r) /\ refresh[r].observed # None => clock.committed = 0

AlarmInv == Recorded /\ ViewReal /\ BehindIsReal /\ LevelIsReal

(* The parts of AlarmInv survive every step.                               *)
LEMMA AlarmInvStep ==
  ASSUME ReadinessTypeOK, AlarmInv, [ReadinessNext]_readinessVars
  PROVE  AlarmInv'
<1> USE StallAfterAssumption, NoneAssumption
<1> DEFINE Clocks == UNCHANGED <<clock, quiet, seeded, refresh>>
<1>0. /\ upstream \in Nat /\ last_block \in Nat /\ clock.committed \in 0 .. StallAfter /\ quiet \in 0 .. StallAfter
      /\ clock.behind # None => clock.behind \in 0 .. StallAfter
  BY DEF ReadinessTypeOK, Ages, AgeOrNone
<1>1. CASE UNCHANGED <<upstream, last_block, committing, observation, clock, quiet, seeded, refresh, levelled>>
  BY <1>1 DEF AlarmInv, Recorded, ViewReal, BehindIsReal, LevelIsReal, Excused, Sampled, Decided, Judged, Ahead
<1>2. CASE Produce
  <2>1. /\ upstream' = upstream + 1 /\ quiet' = (IF upstream <= last_block THEN 0 ELSE quiet)
        /\ UNCHANGED <<last_block, committing, observation, clock, seeded, refresh, levelled>>
    BY <1>2 DEF Produce, commitVars, viewVars, alarmVars
  <2>2. Recorded' /\ ViewReal'
    <3>1. observation # None => observation.number \in Nat
      BY DEF ReadinessTypeOK, View
    <3> QED BY <1>0, <2>1, <3>1 DEF AlarmInv, Recorded, ViewReal
  <2>3. LevelIsReal'
    <3>1. upstream' <= last_block' => upstream <= last_block
      BY <1>0, <2>1
    <3> QED BY <2>1, <3>1 DEF AlarmInv, LevelIsReal, Sampled, Decided, Judged
  <2>4. BehindIsReal'
    <3>1. CASE ~(upstream <= last_block)
      BY <2>1, <3>1 DEF AlarmInv, BehindIsReal, Excused, Sampled, Ahead
    <3>2. CASE upstream <= last_block /\ ~seeded
      <4>1. ~Ahead(observation, last_block)
        <5>1. observation # None => observation.number \in Nat
          BY DEF ReadinessTypeOK, View
        <5> QED BY <1>0, <3>2, <5>1 DEF AlarmInv, ViewReal, Ahead
      <4>2. clock.behind # None => clock.committed <= 1
        BY <3>2 DEF AlarmInv, LevelIsReal
      <4>3. \A r \in Refreshers : Sampled(r) /\ refresh[r].observed # None => clock.committed <= 1
        BY <3>2 DEF AlarmInv, LevelIsReal
      <4>4. quiet' + 1 = 1
        BY <2>1, <3>2
      <4> QED BY <2>1, <4>1, <4>2, <4>3, <4>4 DEF BehindIsReal, Excused, Sampled, Ahead
    <3> QED BY <2>1, <3>1, <3>2 DEF BehindIsReal
  <2> QED BY <2>2, <2>3, <2>4 DEF AlarmInv
<1>3. ASSUME Clocks, UNCHANGED <<upstream, last_block, levelled>>,
             Recorded', ViewReal',
             observation' # None => observation'.numberAge = 0 \/ observation' = observation
      PROVE  AlarmInv'
  <2>1. LevelIsReal'
    BY <1>3 DEF AlarmInv, LevelIsReal, Sampled, Decided, Judged
  <2>2. BehindIsReal'
    <3>1. ASSUME ~seeded, Ahead(observation', last_block) PROVE Excused(observation'.numberAge)
      <4>1. CASE observation'.numberAge = 0
        BY <1>0, <4>1 DEF Excused
      <4>2. CASE observation' = observation
        BY <3>1, <4>2 DEF AlarmInv, BehindIsReal
      <4> QED BY <1>3, <3>1, <4>1, <4>2 DEF Ahead
    <3> QED BY <1>3, <3>1 DEF AlarmInv, BehindIsReal, Excused, Sampled, Ahead
  <2> QED BY <1>3, <2>1, <2>2 DEF AlarmInv
<1>4. CASE Observes /\ Clocks /\ UNCHANGED <<upstream, last_block, levelled, committing>>
  <2>1. PICK n \in 0 .. upstream : observation' = [number |-> n, numberAge |-> 0, readAge |-> 0]
    BY <1>4 DEF Observes, ObserveUpstreamHead
  <2>2. Recorded' /\ ViewReal'
    BY <1>0, <1>4, <2>1 DEF AlarmInv, Recorded, ViewReal
  <2> QED BY <1>3, <1>4, <2>1, <2>2
<1>5. CASE PushBatch
  <2>1. Clocks /\ UNCHANGED <<upstream, last_block, levelled>> /\ committing' = "pushed"
    BY <1>5 DEF PushBatch, alarmVars, quietVars
  <2>2. PICK n \in 1 .. upstream : observation' = ProgressView(n)
    BY <1>5 DEF PushBatch, ObserveUpstreamProgress
  <2>3. n \in Nat
    BY <1>0
  <2>4. /\ observation' = observation \/ (observation'.numberAge = 0 /\ observation'.number = n)
    BY <2>2, <2>3, ProgressIs
  <2>5. Recorded' /\ ViewReal'
    BY <1>0, <2>1, <2>4 DEF AlarmInv, Recorded, ViewReal
  <2> QED BY <1>3, <2>1, <2>4, <2>5
<1>6. CASE RecordCommit
  <2>1. /\ clock'.committed = 0 /\ quiet' = 0 /\ seeded' = FALSE
        /\ UNCHANGED <<upstream, observation>>
    BY <1>6 DEF RecordCommit, viewVars, ReadinessTypeOK
  <2> QED BY <2>1 DEF AlarmInv, Recorded, ViewReal, BehindIsReal, LevelIsReal, Excused
<1>7. CASE TriggerUpdate
  <2>1. /\ clock.committed = 0 /\ committing' = "no"
        /\ Clocks /\ UNCHANGED <<upstream, observation>>
    BY <1>7 DEF TriggerUpdate, AlarmInv, Recorded, viewVars, alarmVars, quietVars
  <2>2. quiet' + 1 >= 0
    BY <1>0, <2>1
  <2> QED BY <2>1, <2>2 DEF AlarmInv, Recorded, ViewReal, BehindIsReal, LevelIsReal, Excused
<1>8. CASE Reseed
  <2>1. seeded' = TRUE /\ UNCHANGED <<upstream, observation, committing, clock>>
    BY <1>8 DEF Reseed, viewVars, alarmVars
  <2> QED BY <2>1 DEF AlarmInv, Recorded, ViewReal, BehindIsReal, LevelIsReal
<1>9. ASSUME NEW r \in Refreshers, SampleView(r) PROVE AlarmInv'
  <2> DEFINE o == IF Ahead(observation, last_block) THEN observation.numberAge ELSE None
  <2>1. /\ refresh' = [refresh EXCEPT ![r] = [at |-> "sampled", observed |-> o]]
        /\ UNCHANGED <<upstream, last_block, committing, observation, clock, quiet, seeded, levelled>>
    BY <1>9 DEF SampleView, commitVars, viewVars, quietVars
  <2>2. ~seeded => Excused(o)
    BY DEF AlarmInv, BehindIsReal, Excused
  <2>3. upstream <= last_block => o = None
    <3>1. observation # None => observation.number \in Nat
      BY DEF ReadinessTypeOK, View
    <3> QED BY <1>0, <3>1 DEF AlarmInv, ViewReal, Ahead
  <2> HIDE DEF o
  <2>4. /\ refresh'[r].observed = o
        /\ \A q \in Refreshers : q # r => refresh'[q] = refresh[q]
    BY <2>1 DEF ReadinessTypeOK
  <2>5. \A q \in Refreshers : ~seeded' /\ Sampled(q)' => Excused(refresh[q].observed)'
    BY <2>1, <2>2, <2>4 DEF AlarmInv, BehindIsReal, Excused, Sampled
  <2>6. \A q \in Refreshers : ~seeded' /\ upstream' <= last_block' /\ Sampled(q)' /\ refresh'[q].observed # None
          => clock'.committed = 0
    BY <2>1, <2>3, <2>4 DEF AlarmInv, LevelIsReal, Sampled
  <2>7. BehindIsReal'
    BY <2>1, <2>5 DEF AlarmInv, BehindIsReal, Excused, Ahead
  <2>8. LevelIsReal'
    <3>1. Judged' => Judged
      <4>1. ~Decided(r)'
        BY <2>1 DEF Decided, ReadinessTypeOK
      <4> QED BY <2>1, <2>4, <4>1 DEF Judged, Decided
    <3> QED BY <2>1, <2>6, <3>1 DEF AlarmInv, LevelIsReal
  <2> QED BY <2>1, <2>7, <2>8 DEF AlarmInv, Recorded, ViewReal
<1>10. ASSUME NEW r \in Refreshers, Decide(r) PROVE AlarmInv'
  <2> DEFINE b == BehindSince(refresh[r].observed)
  <2>1. /\ Sampled(r) /\ clock' = [clock EXCEPT !.behind = b]
        /\ \E v : v.at = "decided" /\ refresh' = [refresh EXCEPT ![r] = v]
        /\ UNCHANGED <<upstream, last_block, committing, observation, quiet, seeded>>
    BY <1>10 DEF Decide, Sampled, commitVars, viewVars, quietVars
  <2>2. ~seeded => Excused(b)
    BY <2>1 DEF AlarmInv, BehindIsReal, BehindSince, Excused
  <2>3. ~seeded /\ upstream <= last_block /\ b # None => clock.committed = 0
    BY <2>1 DEF AlarmInv, LevelIsReal, BehindSince
  <2> HIDE DEF b
  <2>4. clock'.committed = clock.committed /\ clock'.behind = b
    BY <2>1 DEF ReadinessTypeOK
  <2>5. \A q \in Refreshers : Sampled(q)' => Sampled(q) /\ refresh'[q] = refresh[q]
    BY <2>1 DEF Sampled, ReadinessTypeOK
  <2>6. BehindIsReal'
    BY <2>1, <2>2, <2>4, <2>5 DEF AlarmInv, BehindIsReal, Excused, Ahead
  <2>7. LevelIsReal'
    BY <2>1, <2>3, <2>4, <2>5 DEF AlarmInv, LevelIsReal
  <2> QED BY <2>1, <2>4, <2>6, <2>7 DEF AlarmInv, Recorded, ViewReal
<1>14. ASSUME NEW r \in Refreshers, Publish(r) PROVE AlarmInv'
  <2>1. /\ Decided(r) /\ refresh' = [refresh EXCEPT ![r] = Idle]
        /\ UNCHANGED <<upstream, last_block, committing, observation, clock, quiet, seeded>>
    BY <1>14 DEF Publish, Decided, commitVars, viewVars, quietVars
  <2>2. \A q \in Refreshers : Sampled(q)' => Sampled(q) /\ refresh'[q] = refresh[q]
    BY <2>1 DEF Sampled, Idle, ReadinessTypeOK
  <2>3. BehindIsReal'
    BY <2>1, <2>2 DEF AlarmInv, BehindIsReal, Excused, Ahead
  <2>4. LevelIsReal'
    BY <2>1, <2>2 DEF AlarmInv, LevelIsReal, Judged
  <2> QED BY <2>1, <2>3, <2>4 DEF AlarmInv, Recorded, ViewReal
<1>11. CASE Tick
  <2>1. /\ committing = "no" /\ levelled /\ levelled' = FALSE
        /\ \A r \in Refreshers : refresh[r] = Idle
        /\ UNCHANGED <<upstream, last_block, committing, seeded, refresh>>
    BY <1>11 DEF Tick, commitVars
  <2>2. \A r \in Refreshers : ~Sampled(r)'
    BY <2>1 DEF Sampled, Idle
  <2>3. clock'.committed = (IF clock.committed < StallAfter THEN clock.committed + 1 ELSE StallAfter)
    BY <1>11, TickIs, OlderIs
  <2>4. quiet' = (IF quiet < StallAfter THEN quiet + 1 ELSE StallAfter)
    BY <1>11, TickIs, OlderIs
  <2>5. ASSUME NEW age \in AgeOrNone, ~seeded => Excused(age)
        PROVE  ~seeded /\ Older(age) # None => clock'.committed <= quiet' + 1 \/ Older(age) <= quiet' + 1
    <3> SUFFICES ASSUME ~seeded, Older(age) # None
                 PROVE  clock'.committed <= quiet' + 1 \/ Older(age) <= quiet' + 1
      OBVIOUS
    <3>1. age # None
      BY OlderIs
    <3>2. Older(age) = (IF age < StallAfter THEN age + 1 ELSE StallAfter) /\ age \in 0 .. StallAfter
      BY <3>1, OlderIs DEF AgeOrNone, Ages
    <3>3. clock.committed <= quiet + 1 \/ age <= quiet + 1
      BY <2>5, <3>1 DEF Excused
    <3> QED BY <1>0, <2>3, <2>4, <3>2, <3>3
  <2>6. clock'.behind = Older(clock.behind) /\ clock.behind \in AgeOrNone
    BY <1>11, TickIs
  <2>7. ~seeded => Excused(clock.behind)'
    BY <2>5, <2>6 DEF Excused, AlarmInv, BehindIsReal
  <2>8. ASSUME ~seeded, Ahead(observation, last_block)' PROVE Excused(observation.numberAge)'
    <3>1. observation # None
      BY <1>11, <2>8, TickIs DEF Ahead
    <3>2. observation.numberAge \in AgeOrNone /\ observation'.numberAge = Older(observation.numberAge)
          /\ observation'.number = observation.number
      BY <1>11, <3>1, TickIs
    <3>3. Excused(observation.numberAge)
      BY <2>1, <2>8, <3>1, <3>2 DEF Ahead, AlarmInv, BehindIsReal
    <3> QED BY <2>5, <2>8, <3>2, <3>3 DEF Excused
  <2>9. BehindIsReal'
    BY <2>1, <2>2, <2>7, <2>8 DEF BehindIsReal
  <2>10. LevelIsReal'
    <3>1. ASSUME ~seeded, upstream <= last_block, clock'.behind # None PROVE clock'.committed = 1
      <4>1. clock.behind # None
        BY <2>6, <3>1, OlderIs
      <4>2. clock.committed = 0
        BY <2>1, <3>1, <4>1 DEF AlarmInv, LevelIsReal, Judged
      <4> QED BY <2>3, <4>2
    <3>2. ~Judged'
      BY <2>1 DEF Judged, Decided, Idle
    <3> QED BY <2>1, <2>2, <3>1, <3>2 DEF LevelIsReal
  <2>11. Recorded' /\ ViewReal'
    <3>1. observation' # None => observation # None /\ observation'.number = observation.number
      BY <1>11, TickIs
    <3> QED BY <2>1, <3>1 DEF AlarmInv, Recorded, ViewReal
  <2> QED BY <2>9, <2>10, <2>11 DEF AlarmInv
<1>12. BeginRead \/ ReadFails \/ SampleHead \/ AnswerProbe \/ UNCHANGED readinessVars =>
         UNCHANGED <<upstream, last_block, committing, observation, clock, quiet, seeded, refresh, levelled>>
  BY DEF BeginRead, ReadFails, SampleHead, AnswerProbe, readinessVars, commitVars, viewVars, alarmVars, quietVars
<1>13. SourceObserves \/ ReadAnswered =>
         Observes /\ Clocks /\ UNCHANGED <<upstream, last_block, levelled, committing>>
  BY DEF SourceObserves, ReadAnswered, commitVars, alarmVars, quietVars
<1> QED BY <1>1, <1>2, <1>4, <1>5, <1>6, <1>7, <1>8, <1>9, <1>10, <1>11, <1>12, <1>13, <1>14 DEF ReadinessNext

----------------------------------------------------------------------------
(* What a verdict waiting to be published is worth.                        *)

(* What a verdict of stall rests on when it is given.                      *)
Earned ==
  clock.committed = StallAfter /\ (seeded \/ (quiet >= StallAfter - 1 /\ upstream > last_block))

(* It rests on that still, or a commit of this time unit overtook it.      *)
VerdictsEarned ==
  \A r \in Refreshers : Decided(r) =>
    /\ refresh[r].overtaken => clock.committed = 0
    /\ ~refresh[r].overtaken /\ refresh[r].stalled => Earned

(* AlarmSilenced, and the evaluation that ends the second time unit.       *)
AlarmFades ==
  stall_alarm => clock.committed \in {0, StallAfter} \/ (clock.committed = 1 /\ ~levelled)

VerdictInv == VerdictsEarned /\ AlarmFades

(* A verdict of stall is earned when it is given.                          *)
LEMMA StalledIsEarned ==
  ASSUME ReadinessTypeOK, AlarmInv, NEW r \in Refreshers, Sampled(r), Stalled(BehindSince(refresh[r].observed))
  PROVE  Earned
<1> USE StallAfterAssumption, NoneAssumption
<1> DEFINE b == BehindSince(refresh[r].observed)
<1>1. refresh[r].observed \in AgeOrNone /\ clock.behind \in AgeOrNone
      /\ clock.committed \in 0 .. StallAfter /\ quiet \in 0 .. StallAfter
  BY DEF ReadinessTypeOK, Task, Sample, Verdict, Sampled, Idle, Ages
<1>2. b \in AgeOrNone /\ (~seeded => Excused(b))
  BY <1>1 DEF BehindSince, AgeOrNone, AlarmInv, BehindIsReal, Excused
<1>3. ~seeded /\ upstream <= last_block /\ b # None => clock.committed = 0
  BY DEF AlarmInv, LevelIsReal, BehindSince
<1>4. Stalled(b)
  OBVIOUS
<1> HIDE DEF b
<1>5. b # None /\ b \in 0 .. StallAfter
  BY <1>2, <1>4 DEF Stalled, AgeOrNone, Ages
<1>6. Min({clock.committed, b}) = IF clock.committed <= b THEN clock.committed ELSE b
  BY <1>1, <1>5, MinOfTwo
<1>7. clock.committed >= StallAfter /\ b >= StallAfter
  BY <1>1, <1>4, <1>5, <1>6 DEF Stalled
<1>8. upstream \in Nat /\ last_block \in Nat
  BY DEF ReadinessTypeOK
<1> QED BY <1>1, <1>2, <1>3, <1>5, <1>7, <1>8 DEF Excused, Earned

(* The parts of VerdictInv survive every step.                             *)
LEMMA VerdictInvStep ==
  ASSUME ReadinessTypeOK, AlarmInv, VerdictInv, [ReadinessNext]_readinessVars
  PROVE  VerdictInv'
<1> USE StallAfterAssumption
<1>0. /\ upstream \in Nat /\ last_block \in Nat /\ clock.committed \in 0 .. StallAfter
      /\ \A r \in Refreshers : refresh[r] \in Task
  BY DEF ReadinessTypeOK, Ages
<1>1. CASE UNCHANGED <<clock, stall_alarm, refresh, levelled>> /\ (Earned => Earned')
  BY <1>1 DEF VerdictInv, VerdictsEarned, AlarmFades, Decided
<1>2. CASE UNCHANGED <<upstream, last_block, clock, quiet, seeded, stall_alarm, refresh, levelled>>
  BY <1>1, <1>2 DEF Earned
<1>3. CASE Produce
  <2>1. /\ upstream' = upstream + 1 /\ quiet' = (IF upstream <= last_block THEN 0 ELSE quiet)
        /\ UNCHANGED <<last_block, clock, seeded, stall_alarm, refresh, levelled>>
    BY <1>3 DEF Produce, commitVars, alarmVars
  <2>2. CASE upstream <= last_block
    <3>1. Earned => seeded
      BY <1>0, <2>2 DEF Earned
    <3> QED BY <1>1, <2>1, <3>1 DEF Earned
  <2>3. CASE upstream > last_block
    <3>1. quiet' = quiet /\ upstream' > last_block'
      BY <1>0, <2>1, <2>3
    <3> QED BY <1>1, <2>1, <3>1 DEF Earned
  <2> QED BY <1>0, <2>2, <2>3
<1>4. CASE RecordCommit
  <2>1. /\ clock'.committed = 0
        /\ refresh' = [r \in Refreshers |-> Overtake(refresh[r])]
    BY <1>4 DEF RecordCommit, ReadinessTypeOK
  <2>2. \A r \in Refreshers : Decided(r)' => refresh'[r].overtaken
    BY <1>0, <2>1, OvertakeIs DEF Decided
  <2> QED BY <2>1, <2>2 DEF VerdictInv, VerdictsEarned, AlarmFades
<1>5. CASE TriggerUpdate
  <2>1. clock.committed = 0 /\ UNCHANGED <<clock, stall_alarm, refresh, levelled>>
    BY <1>5 DEF TriggerUpdate, AlarmInv, Recorded, alarmVars
  <2>2. ~Earned
    BY <2>1 DEF Earned
  <2> QED BY <1>1, <2>1, <2>2
<1>6. CASE Reseed
  BY <1>1, <1>6 DEF Reseed, Earned, alarmVars
<1>7. ASSUME NEW r \in Refreshers, SampleView(r) PROVE VerdictInv'
  <2> DEFINE o == IF Ahead(observation, last_block) THEN observation.numberAge ELSE None
  <2>1. /\ refresh' = [refresh EXCEPT ![r] = [at |-> "sampled", observed |-> o]]
        /\ UNCHANGED <<upstream, last_block, clock, quiet, seeded, stall_alarm, levelled>>
    BY <1>7 DEF SampleView, commitVars, quietVars
  <2>2. \A q \in Refreshers : Decided(q)' => Decided(q) /\ refresh'[q] = refresh[q]
    BY <2>1 DEF Decided, ReadinessTypeOK
  <2> QED BY <2>1, <2>2 DEF VerdictInv, VerdictsEarned, AlarmFades, Earned
<1>8. ASSUME NEW r \in Refreshers, Decide(r) PROVE VerdictInv'
  <2> DEFINE b == BehindSince(refresh[r].observed)
             v == [at |-> "decided", stalled |-> Stalled(b), overtaken |-> FALSE]
  <2>1. /\ Sampled(r) /\ clock'.committed = clock.committed
        /\ refresh' = [refresh EXCEPT ![r] = v]
        /\ UNCHANGED <<upstream, last_block, quiet, seeded, stall_alarm, levelled>>
    BY <1>8 DEF Decide, Sampled, ReadinessTypeOK, commitVars, quietVars
  <2>2. v.stalled => Earned
    BY <2>1, StalledIsEarned
  <2>3. v.overtaken = FALSE
    OBVIOUS
  <2> HIDE DEF v
  <2>4. refresh'[r] = v /\ \A q \in Refreshers : q # r => refresh'[q] = refresh[q]
    BY <2>1 DEF ReadinessTypeOK
  <2>5. Earned => Earned'
    BY <2>1 DEF Earned
  <2>6. VerdictsEarned'
    BY <2>1, <2>2, <2>3, <2>4, <2>5 DEF VerdictInv, VerdictsEarned, Decided
  <2> QED BY <2>1, <2>6 DEF VerdictInv, AlarmFades
<1>9. ASSUME NEW r \in Refreshers, Publish(r) PROVE VerdictInv'
  <2>1. /\ Decided(r) /\ refresh' = [refresh EXCEPT ![r] = Idle] /\ stall_alarm' = refresh[r].stalled
        /\ UNCHANGED <<upstream, last_block, clock, quiet, seeded>>
    BY <1>9 DEF Publish, Decided, commitVars, quietVars
  <2>2. \A q \in Refreshers : Decided(q)' => Decided(q) /\ refresh'[q] = refresh[q]
    BY <2>1 DEF Decided, Idle, ReadinessTypeOK
  <2>3. VerdictsEarned'
    BY <2>1, <2>2 DEF VerdictInv, VerdictsEarned, Earned
  <2>4. stall_alarm' => clock.committed \in {0, StallAfter}
    BY <2>1 DEF VerdictInv, VerdictsEarned, Earned
  <2> QED BY <2>1, <2>3, <2>4 DEF VerdictInv, AlarmFades
<1>10. CASE Tick
  <2>1. levelled /\ (\A r \in Refreshers : refresh[r] = Idle) /\ UNCHANGED <<refresh, stall_alarm>> /\ levelled' = FALSE
    BY <1>10 DEF Tick
  <2>2. clock'.committed = (IF clock.committed < StallAfter THEN clock.committed + 1 ELSE StallAfter)
    BY <1>10, TickIs, OlderIs
  <2>3. \A r \in Refreshers : ~Decided(r)'
    BY <2>1 DEF Decided, Idle
  <2> QED BY <1>0, <2>1, <2>2, <2>3 DEF VerdictInv, VerdictsEarned, AlarmFades
<1>11. SourceObserves \/ BeginRead \/ ReadAnswered \/ ReadFails \/ PushBatch \/ SampleHead \/ AnswerProbe
       \/ UNCHANGED readinessVars =>
         UNCHANGED <<upstream, last_block, clock, quiet, seeded, stall_alarm, refresh, levelled>>
  BY DEF SourceObserves, BeginRead, ReadAnswered, ReadFails, PushBatch, SampleHead, AnswerProbe, readinessVars,
         commitVars, alarmVars, quietVars
<1> QED BY <1>2, <1>3, <1>4, <1>5, <1>6, <1>7, <1>8, <1>9, <1>10, <1>11 DEF ReadinessNext

----------------------------------------------------------------------------
(* A stall is alarmed.                                                     *)

(* While time is counted the view is ahead, and no sample of this time     *)
(* unit says otherwise.                                                    *)
WatchIsAhead ==
  watched > 0 =>
    /\ Ahead(observation, last_block)
    /\ \A r \in Refreshers : Sampled(r) => refresh[r].observed # None

(* The clock has seen as much: the last commit is as old as the watch, and *)
(* the clock got behind in its first time unit at the latest.              *)
WatchedAges ==
  /\ clock.committed >= watched \/ clock.committed = StallAfter
  /\ watched > 1 \/ (watched = 1 /\ Judged) => clock.behind # None
  /\ watched > 0 /\ clock.behind # None => clock.behind >= watched - 1 \/ clock.behind = StallAfter

(* The last verdict before the alarm is due, while it is not published.    *)
VerdictsWatched ==
  watched >= StallAfter + 1 => \A r \in Refreshers : Decided(r) => refresh[r].stalled

(* StallAlarmed, and its last evaluation.                                  *)
WatchedAlarms ==
  watched > StallAfter + 1 \/ (watched = StallAfter + 1 /\ levelled) => stall_alarm

WatchInv == WatchIsAhead /\ WatchedAges /\ VerdictsWatched /\ WatchedAlarms

(* The parts of WatchInv survive every step.                               *)
LEMMA WatchInvStep ==
  ASSUME ReadinessTypeOK, WatchInv, [ReadinessNext]_readinessVars
  PROVE  WatchInv'
<1> USE StallAfterAssumption, NoneAssumption
<1>0. /\ clock.committed \in 0 .. StallAfter /\ watched \in 0 .. StallAfter + 2
      /\ clock.behind # None => clock.behind \in 0 .. StallAfter
  BY DEF ReadinessTypeOK, Ages, AgeOrNone
<1>1. CASE UNCHANGED <<last_block, observation, clock, refresh, levelled, watched, stall_alarm>>
  BY <1>1 DEF WatchInv, WatchIsAhead, WatchedAges, VerdictsWatched, WatchedAlarms, Sampled, Decided, Judged, Ahead
<1>2. ASSUME UNCHANGED <<clock, refresh, levelled, stall_alarm>>, watched' \in {watched, 0},
             watched' > 0 => Ahead(observation', last_block')
      PROVE  WatchInv'
  <2>1. CASE watched' = 0
    BY <1>0, <1>2, <2>1 DEF WatchInv, WatchIsAhead, WatchedAges, VerdictsWatched, WatchedAlarms
  <2>2. CASE watched' = watched
    BY <1>2, <2>2 DEF WatchInv, WatchIsAhead, WatchedAges, VerdictsWatched, WatchedAlarms, Sampled, Decided, Judged,
                      Ahead
  <2> QED BY <1>2, <2>1, <2>2
<1>3. CASE Observes /\ UNCHANGED <<clock, refresh, levelled, stall_alarm, last_block>>
  <2>1. Watching(observation', last_block)
    BY <1>3 DEF Observes, ObserveUpstreamHead
  <2> QED BY <1>2, <1>3, <2>1, WatchingIs
<1>4. CASE PushBatch
  <2>1. Watching(observation', last_block) /\ UNCHANGED <<clock, refresh, levelled, stall_alarm, last_block>>
    BY <1>4 DEF PushBatch, ObserveUpstreamProgress, alarmVars
  <2> QED BY <1>2, <2>1, WatchingIs
<1>5. CASE RecordCommit
  <2>1. watched' = 0 /\ clock'.committed \in Int /\ clock'.committed >= 0
    BY <1>5 DEF RecordCommit, ReadinessTypeOK
  <2> QED BY <2>1 DEF WatchInv, WatchIsAhead, WatchedAges, VerdictsWatched, WatchedAlarms
<1>6. CASE TriggerUpdate
  <2>1. Watching(observation, head) /\ last_block' = head /\ observation' = observation
        /\ UNCHANGED <<clock, refresh, levelled, stall_alarm>>
    BY <1>6 DEF TriggerUpdate, viewVars, alarmVars
  <2> QED BY <1>2, <2>1, WatchingIs
<1>7. CASE Reseed
  <2>1. Watching(observation, head') /\ last_block' = head' /\ observation' = observation
        /\ UNCHANGED <<clock, refresh, levelled, stall_alarm>>
    BY <1>7 DEF Reseed, viewVars, alarmVars
  <2> QED BY <1>2, <2>1, WatchingIs
<1>8. ASSUME NEW r \in Refreshers, SampleView(r) PROVE WatchInv'
  <2> DEFINE o == IF Ahead(observation, last_block) THEN observation.numberAge ELSE None
  <2>1. /\ refresh' = [refresh EXCEPT ![r] = [at |-> "sampled", observed |-> o]]
        /\ UNCHANGED <<last_block, observation, clock, levelled, watched, stall_alarm>>
    BY <1>8 DEF SampleView, commitVars, viewVars
  <2>2. Ahead(observation, last_block) => o # None
    BY DEF Ahead, ReadinessTypeOK, View, Ages
  <2> HIDE DEF o
  <2>3. refresh'[r].observed = o /\ \A q \in Refreshers : q # r => refresh'[q] = refresh[q]
    BY <2>1 DEF ReadinessTypeOK
  <2>4. WatchIsAhead'
    BY <2>1, <2>2, <2>3 DEF WatchInv, WatchIsAhead, Sampled, Ahead
  <2>5. \A q \in Refreshers : Decided(q)' => Decided(q) /\ refresh'[q] = refresh[q]
    BY <2>1 DEF Decided, ReadinessTypeOK
  <2>6. WatchedAges'
    BY <2>1, <2>5 DEF WatchInv, WatchedAges, Judged
  <2> QED BY <2>1, <2>4, <2>5, <2>6 DEF WatchInv, VerdictsWatched, WatchedAlarms
<1>9. ASSUME NEW r \in Refreshers, Decide(r) PROVE WatchInv'
  <2> DEFINE o == refresh[r].observed
             b == BehindSince(o)
             v == [at |-> "decided", stalled |-> Stalled(b), overtaken |-> FALSE]
  <2>1. /\ Sampled(r) /\ refresh' = [refresh EXCEPT ![r] = v]
        /\ clock' = [clock EXCEPT !.behind = b]
        /\ UNCHANGED <<last_block, observation, watched, levelled, stall_alarm>>
    BY <1>9 DEF Decide, Sampled, commitVars, viewVars
  <2>2. o \in AgeOrNone /\ (watched > 0 => o # None)
    <3>1. o \in AgeOrNone
      BY <2>1 DEF ReadinessTypeOK, Task, Sample, Verdict, Sampled, Idle
    <3> QED BY <2>1, <3>1 DEF WatchInv, WatchIsAhead
  <2>3. b = IF o = None THEN None ELSE IF clock.behind = None THEN o ELSE clock.behind
    BY DEF BehindSince
  <2>4. v.at = "decided" /\ v.stalled = Stalled(b)
    OBVIOUS
  <2> HIDE DEF o, b, v
  <2>5. clock'.committed = clock.committed /\ clock'.behind = b
    BY <2>1 DEF ReadinessTypeOK
  <2>6. refresh'[r] = v /\ \A q \in Refreshers : q # r => refresh'[q] = refresh[q]
    BY <2>1 DEF ReadinessTypeOK
  <2>7. WatchIsAhead'
    BY <2>1, <2>4, <2>6 DEF WatchInv, WatchIsAhead, Ahead, Sampled
  <2>8. ASSUME watched > 0 PROVE b # None /\ b \in 0 .. StallAfter /\ (b >= watched - 1 \/ b = StallAfter)
    <3>1. o # None /\ o \in 0 .. StallAfter
      BY <2>2, <2>8 DEF AgeOrNone, Ages
    <3>2. CASE clock.behind = None
      <4>1. watched = 1 /\ b = o
        BY <1>0, <2>3, <2>8, <3>1, <3>2 DEF WatchInv, WatchedAges
      <4> QED BY <3>1, <4>1
    <3>3. CASE clock.behind # None
      BY <1>0, <2>3, <2>8, <3>1, <3>3 DEF WatchInv, WatchedAges
    <3> QED BY <3>2, <3>3
  <2>9. WatchedAges'
    BY <1>0, <2>1, <2>5, <2>8 DEF WatchInv, WatchedAges
  <2>10. VerdictsWatched'
    <3>1. ASSUME watched >= StallAfter + 1 PROVE v.stalled
      <4>1. b # None /\ b = StallAfter /\ clock.committed = StallAfter
        BY <1>0, <2>8, <3>1 DEF WatchInv, WatchedAges
      <4>2. Min({clock.committed, b}) = StallAfter
        BY <4>1, MinOfTwo
      <4>3. Stalled(b)
        BY <4>1, <4>2 DEF Stalled
      <4> QED BY <2>4, <4>3
    <3> QED BY <2>1, <2>6, <3>1 DEF WatchInv, VerdictsWatched, Decided
  <2> QED BY <2>1, <2>7, <2>9, <2>10 DEF WatchInv, WatchedAlarms
<1>13. ASSUME NEW r \in Refreshers, Publish(r) PROVE WatchInv'
  <2>1. /\ Decided(r) /\ refresh' = [refresh EXCEPT ![r] = Idle] /\ stall_alarm' = refresh[r].stalled
        /\ UNCHANGED <<last_block, observation, clock, watched>>
    BY <1>13 DEF Publish, Decided, commitVars, viewVars
  <2>2. \A q \in Refreshers : Sampled(q)' => Sampled(q) /\ refresh'[q] = refresh[q]
    BY <2>1 DEF Sampled, Idle, ReadinessTypeOK
  <2>7. \A q \in Refreshers : Decided(q)' => Decided(q) /\ refresh'[q] = refresh[q]
    BY <2>1 DEF Decided, Idle, ReadinessTypeOK
  <2>3. WatchIsAhead'
    BY <2>1, <2>2 DEF WatchInv, WatchIsAhead, Ahead
  <2>6. VerdictsWatched'
    BY <2>1, <2>7 DEF WatchInv, VerdictsWatched
  <2>4. WatchedAges'
    BY <2>1 DEF WatchInv, WatchedAges, Judged
  <2>5. WatchedAlarms'
    <3>1. watched >= StallAfter + 1 => refresh[r].stalled
      BY <2>1 DEF WatchInv, VerdictsWatched
    <3> QED BY <1>0, <2>1, <3>1 DEF WatchedAlarms
  <2> QED BY <2>3, <2>4, <2>5, <2>6 DEF WatchInv
<1>10. CASE Tick
  <2> DEFINE m == Min({watched + 1, StallAfter + 2})
  <2>1. /\ levelled /\ levelled' = FALSE
        /\ \A r \in Refreshers : refresh[r] = Idle
        /\ watched' = (IF Ahead(observation, last_block) THEN m ELSE 0)
        /\ UNCHANGED <<last_block, refresh, stall_alarm>>
    BY <1>10 DEF Tick, commitVars
  <2>2. m = IF watched + 1 <= StallAfter + 2 THEN watched + 1 ELSE StallAfter + 2
    <3>1. watched + 1 \in Int /\ StallAfter + 2 \in Int
      BY <1>0
    <3> QED BY <3>1, MinOfTwo
  <2> HIDE DEF m
  <2>3. watched' \in {m, 0} /\ (watched' > 0 => Ahead(observation, last_block) /\ watched' = m)
    BY <2>1
  <2>4. WatchIsAhead'
    <3>1. \A r \in Refreshers : ~Sampled(r)'
      BY <2>1 DEF Sampled, Idle
    <3>2. Ahead(observation, last_block) => Ahead(observation', last_block')
      <4>1. CASE observation # None
        <5>1. observation'.number = observation.number /\ observation' \in View
          <6>2. Older(observation.numberAge) \in Ages /\ Older(observation.readAge) \in AgeOrNone
            BY <1>10, <4>1, TickIs, OlderIs
          <6> QED BY <1>10, <4>1, <6>2, TickIs DEF View
        <5>2. observation' # None
          BY <5>1 DEF View, Ages, AgeOrNone
        <5> QED BY <2>1, <5>1, <5>2 DEF Ahead
      <4> QED BY <4>1 DEF Ahead
    <3> QED BY <2>3, <3>1, <3>2 DEF WatchIsAhead
  <2>5. clock'.committed = (IF clock.committed < StallAfter THEN clock.committed + 1 ELSE StallAfter)
    BY <1>10, TickIs, OlderIs
  <2>6. clock'.behind = Older(clock.behind) /\ clock.behind \in AgeOrNone
    BY <1>10, TickIs
  <2>7. /\ clock.behind # None => /\ clock'.behind # None
                                  /\ clock'.behind = IF clock.behind < StallAfter THEN clock.behind + 1 ELSE StallAfter
        /\ clock.behind = None => clock'.behind = None
    BY <2>6, OlderIs
  <2>8. clock'.committed >= watched' \/ clock'.committed = StallAfter
    BY <1>0, <2>2, <2>3, <2>5 DEF WatchInv, WatchedAges
  <2>9. watched' > 1 => clock'.behind # None
    <3>1. watched' > 1 => watched >= 1
      BY <1>0, <2>2, <2>3
    <3> QED BY <1>0, <2>1, <2>7, <3>1 DEF WatchInv, WatchedAges, Judged
  <2>10. watched' > 0 /\ clock'.behind # None => clock'.behind >= watched' - 1 \/ clock'.behind = StallAfter
    BY <1>0, <2>2, <2>3, <2>7 DEF WatchInv, WatchedAges
  <2>11. WatchedAges' /\ VerdictsWatched'
    <3>1. \A r \in Refreshers : ~Decided(r)'
      BY <2>1 DEF Decided, Idle
    <3>2. ~Judged'
      BY <2>1, <3>1 DEF Judged
    <3> QED BY <2>8, <2>9, <2>10, <3>1, <3>2 DEF WatchedAges, VerdictsWatched
  <2>12. WatchedAlarms'
    <3> SUFFICES ASSUME watched' > StallAfter + 1 PROVE stall_alarm
      BY <2>1 DEF WatchedAlarms
    <3>1. watched >= StallAfter + 1
      BY <1>0, <2>2, <2>3
    <3> QED BY <1>0, <2>1, <3>1 DEF WatchInv, WatchedAlarms
  <2> QED BY <2>4, <2>11, <2>12 DEF WatchInv
<1>11. Produce \/ BeginRead \/ ReadFails \/ SampleHead \/ AnswerProbe \/ UNCHANGED readinessVars =>
         UNCHANGED <<last_block, observation, clock, refresh, levelled, watched, stall_alarm>>
  BY DEF Produce, BeginRead, ReadFails, SampleHead, AnswerProbe, readinessVars, commitVars, viewVars, alarmVars
<1>12. SourceObserves \/ ReadAnswered =>
         Observes /\ UNCHANGED <<clock, refresh, levelled, stall_alarm, last_block>>
  BY DEF SourceObserves, ReadAnswered, commitVars, alarmVars
<1> QED BY <1>1, <1>3, <1>4, <1>5, <1>6, <1>7, <1>8, <1>9, <1>10, <1>11, <1>12, <1>13 DEF ReadinessNext

-----------------------------------------------------------------------------
(* The theorems.                                                           *)

ReadinessInv == ReadinessTypeOK /\ FreshIsHeard /\ ProbeHeard /\ AlarmInv /\ VerdictInv /\ WatchInv

(* Every reachable state of the readiness module is one of ReadinessInv.   *)
THEOREM ReadinessInvariant == ReadinessSpec => []ReadinessInv
<1>1. ReadinessInit => ReadinessInv
  <2> SUFFICES ASSUME ReadinessInit PROVE ReadinessInv
    OBVIOUS
  <2> USE StallAfterAssumption, MaxHeightAssumption, NoneAssumption
  <2>1. ReadinessTypeOK
    <3>1. upstream \in Nat
      BY DEF ReadinessInit, Heights
    <3>2. /\ clock \in [committed : Ages, behind : AgeOrNone] /\ quiet \in Ages
          /\ watched \in 0 .. StallAfter + 2
      BY DEF ReadinessInit, Ages, AgeOrNone
    <3>3. refresh \in [Refreshers -> Task]
      BY DEF ReadinessInit, Task
    <3> QED BY <3>1, <3>2, <3>3 DEF ReadinessInit, ReadinessTypeOK
  <2>2. FreshIsHeard /\ ProbeHeard
    BY DEF ReadinessInit, FreshIsHeard, ProbeHeard, Idle
  <2>3. AlarmInv
    BY DEF ReadinessInit, AlarmInv, Recorded, ViewReal, BehindIsReal, LevelIsReal, Excused, Sampled, Idle, Ahead,
           Decided, Judged
  <2>4. WatchInv
    BY DEF ReadinessInit, WatchInv, WatchIsAhead, WatchedAges, VerdictsWatched, WatchedAlarms
  <2>5. VerdictInv
    BY DEF ReadinessInit, VerdictInv, VerdictsEarned, AlarmFades, Decided, Idle
  <2> QED BY <2>1, <2>2, <2>3, <2>4, <2>5 DEF ReadinessInv
<1>2. ReadinessInv /\ [ReadinessNext]_readinessVars => ReadinessInv'
  BY ReadinessTypeStep, FreshIsHeardStep, ProbeHeardStep, AlarmInvStep, VerdictInvStep, WatchInvStep DEF ReadinessInv
<1> QED BY <1>1, <1>2, PTL DEF ReadinessSpec

(* Once the view has been ahead of the buffer for StallAfter without a     *)
(* commit the alarm is on, for every bound, however many evaluate the      *)
(* levels and however their samples interleave with commits and reads      *)
(* (refresh_stall_alarm, levels ticker).                                   *)
THEOREM AlarmNotMissed == ReadinessSpec => []StallAlarmed
<1>1. ReadinessInv => StallAlarmed
  BY DEF ReadinessInv, WatchInv, WatchedAlarms, StallAlarmed
<1> QED BY <1>1, ReadinessInvariant, PTL

(* The alarm is raised only over a stall: nothing committed for StallAfter *)
(* and, unless a re-seed came since, the upstream ahead for as long, less  *)
(* one time unit; or by a verdict a commit overtook before it could be     *)
(* published, for any number of concurrent evaluations                     *)
(* (refresh_stall_alarm, record_commit).                                   *)
THEOREM AlarmIsEarned == ReadinessSpec => AlarmEarned
<1> DEFINE Rises ==
      ~stall_alarm /\ stall_alarm' =>
        \/ clock.committed = StallAfter /\ (seeded \/ quiet >= StallAfter - 1)
        \/ \E r \in Refreshers : refresh[r].at = "decided" /\ refresh[r].overtaken /\ refresh'[r] = Idle
<1>1. ReadinessInv /\ [ReadinessNext]_readinessVars => [Rises]_readinessVars
  <2> SUFFICES ASSUME ReadinessInv, [ReadinessNext]_readinessVars PROVE Rises
    OBVIOUS
  <2>1. CASE UNCHANGED stall_alarm
    BY <2>1
  <2>2. ASSUME NEW r \in Refreshers, Publish(r) PROVE Rises
    <3>1. Decided(r) /\ stall_alarm' = refresh[r].stalled /\ refresh'[r] = Idle
      BY <2>2 DEF Publish, Decided, ReadinessInv, ReadinessTypeOK
    <3>2. CASE refresh[r].overtaken
      BY <3>1, <3>2 DEF Decided
    <3>3. CASE ~refresh[r].overtaken
      BY <3>1, <3>3 DEF ReadinessInv, VerdictInv, VerdictsEarned, Earned
    <3> QED BY <3>2, <3>3
  <2>3. ReadinessNext => UNCHANGED stall_alarm \/ \E r \in Refreshers : Publish(r)
    BY DEF ReadinessNext, Produce, SourceObserves, BeginRead, ReadAnswered, ReadFails, PushBatch, RecordCommit,
           TriggerUpdate, Reseed, SampleView, Decide, SampleHead, AnswerProbe, Tick, alarmVars
  <2>4. UNCHANGED readinessVars => UNCHANGED stall_alarm
    BY DEF readinessVars, alarmVars
  <2> QED BY <2>1, <2>2, <2>3, <2>4
<1>2. [][Rises]_readinessVars => AlarmEarned
  BY DEF AlarmEarned
<1> QED BY <1>1, <1>2, ReadinessInvariant, PTL DEF ReadinessSpec

(* A commit silences the alarm within the next time unit, though a verdict *)
(* of before the commit may be published after one of after it             *)
(* (refresh_stall_alarm, record_commit, levels ticker).                    *)
THEOREM AlarmGoesSilent == ReadinessSpec => []AlarmSilenced
<1>1. ReadinessInv => AlarmSilenced
  BY DEF ReadinessInv, VerdictInv, AlarmFades, AlarmSilenced
<1> QED BY <1>1, ReadinessInvariant, PTL

(* A probe answers ready only if, when it looked, the upstream had         *)
(* answered within StallAfter, and the buffer has reached what it said     *)
(* (is_ready, fresh_upstream_head, observe_upstream_progress).             *)
THEOREM ReadyNotClaimed == ReadinessSpec => ReadyIsEarned
<1> DEFINE Claimed == ready' /\ ~ready => probe.heard # None /\ probe.heard <= head
<1>1. ReadinessInv /\ [ReadinessNext]_readinessVars => [Claimed]_readinessVars
  <2> SUFFICES ASSUME ReadinessInv, [ReadinessNext]_readinessVars, ready', ~ready
               PROVE  probe.heard # None /\ probe.heard <= head
    OBVIOUS
  <2>1. ReadinessNext => UNCHANGED ready \/ ready' = FALSE \/ AnswerProbe
    BY DEF ReadinessNext, Produce, SourceObserves, BeginRead, ReadAnswered, ReadFails, PushBatch, RecordCommit,
           TriggerUpdate, Reseed, SampleView, Decide, Publish, SampleHead, Tick, probeVars
  <2>2. AnswerProbe
    BY <2>1 DEF readinessVars, probeVars
  <2>3. probe.at = "sampled" /\ probe.head # None /\ probe.head <= head
    BY <2>2 DEF AnswerProbe
  <2>4. probe.heard # None /\ probe.heard <= probe.head
    BY <2>3 DEF ReadinessInv, ProbeHeard
  <2>5. probe.head \in Nat /\ probe.heard \in Nat /\ head \in Nat
    BY <2>3, <2>4 DEF ReadinessInv, ReadinessTypeOK, Idle, HeadOrNone
  <2> QED BY <2>3, <2>4, <2>5
<1>2. [][Claimed]_readinessVars => ReadyIsEarned
  BY DEF ReadyIsEarned
<1> QED BY <1>1, <1>2, ReadinessInvariant, PTL DEF ReadinessSpec
=============================================================================
