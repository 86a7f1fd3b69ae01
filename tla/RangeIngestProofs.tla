------------------------- MODULE RangeIngestProofs -------------------------
(***************************************************************************)
(* The stream of ingest_range and the finalized view beside it, for every  *)
(* range, stride size, concurrency and pipeline depth, any number of tasks *)
(* and any answers of the upstream.                                        *)
(***************************************************************************)
EXTENDS RangeIngest, SequenceTheorems, WellFoundedInduction, TLAPS

-----------------------------------------------------------------------------
(* The view of the finalized head.                                         *)

(* What is stored is a view of the epoch it was stored in, if the one      *)
(* before was.                                                             *)
LEMMA StoreKeepsEpoch ==
  ASSUME NEW e \in Nat, NEW h \in Heads, TypeOK, ViewIsOfEpoch
  PROVE  /\ Store(e, h) \in View \cup {NoView}
         /\ Store(e, h) # NoView => Store(e, h).asked = epoch
BY DEF TypeOK, ViewIsOfEpoch, Store, View

(* What is stored replaces a view only by a higher head.                   *)
LEMMA StoreClimbs ==
  ASSUME NEW e \in Nat, NEW h \in Heads, TypeOK, observed # NoView
  PROVE  /\ Store(e, h) # NoView
         /\ \/ Store(e, h).head = observed.head
            \/ Store(e, h).head.number > observed.head.number
<1>1. observed \in View /\ h.number \in Nat /\ observed.head.number \in Nat
  BY HeadsAssumption DEF TypeOK, View
<1>2. CASE e # epoch
  BY <1>2 DEF Store
<1>3. CASE e = epoch /\ observed.head.number >= h.number
  <2>1. Store(e, h) = [observed EXCEPT !.fresh = TRUE]
    BY <1>3 DEF Store
  <2>2. Store(e, h) \in View /\ Store(e, h).head = observed.head
    BY <1>1, <2>1 DEF View
  <2> QED BY <2>2, NoViewAssumption
<1>4. CASE e = epoch /\ ~(observed.head.number >= h.number)
  <2>1. Store(e, h) = [head |-> h, fresh |-> TRUE, asked |-> e]
    BY <1>4 DEF Store
  <2>2. Store(e, h) \in View /\ Store(e, h).head = h
    BY <2>1 DEF View
  <2> QED BY <1>1, <1>4, <2>2, NoViewAssumption
<1> QED BY <1>2, <1>3, <1>4

ViewInvariant ==
  /\ TypeOK
  /\ ViewIsOfEpoch
  /\ FlagRaised
  /\ OneRefresh
  /\ LandedHolds

(* Every step of the view's tasks keeps the invariant.                     *)
LEMMA ViewStepKeeps == ViewInvariant /\ [Next]_vars => ViewInvariant'
<1> SUFFICES ASSUME ViewInvariant, [Next]_vars PROVE ViewInvariant'
  OBVIOUS
<1> USE DEF ViewInvariant
<1>1. ASSUME NEW t \in Tasks, BeginResync(t) PROVE ViewInvariant'
  BY <1>1 DEF BeginResync, Goes, TypeOK, ViewIsOfEpoch, FlagRaised, OneRefresh, LandedHolds,
              Runs, Kinds
<1>2. ASSUME NEW t \in Tasks, CacheMiss(t) PROVE ViewInvariant'
  BY <1>2 DEF CacheMiss, Goes, TypeOK, ViewIsOfEpoch, FlagRaised, OneRefresh, LandedHolds,
              Runs, Kinds
<1>3. ASSUME NEW t \in Tasks, AskForHead(t) PROVE ViewInvariant'
  BY <1>3 DEF AskForHead, Goes, TypeOK, ViewIsOfEpoch, FlagRaised, OneRefresh, LandedHolds,
              Runs, Kinds
<1>4. ASSUME NEW t \in Tasks, BeginRefresh(t) PROVE ViewInvariant'
  BY <1>4 DEF BeginRefresh, Goes, TypeOK, ViewIsOfEpoch, FlagRaised, OneRefresh, LandedHolds,
              Runs, Kinds
<1>5. ASSUME NEW t \in Tasks, RefreshStored(t) PROVE ViewInvariant'
  <2>1. task[t].epoch \in Nat /\ task[t].head \in Heads
    BY <1>5 DEF RefreshStored, Runs, TypeOK, LandedHolds
  <2>2. observed' \in View \cup {NoView} /\ (observed' # NoView => observed'.asked = epoch)
    BY <1>5, <2>1, StoreKeepsEpoch DEF RefreshStored
  <2> QED BY <1>5, <2>2 DEF RefreshStored, Ends, Idle, TypeOK, ViewIsOfEpoch, FlagRaised,
                            OneRefresh, LandedHolds, Runs, Kinds
<1>6. ASSUME NEW t \in Tasks, FetchFails(t) PROVE ViewInvariant'
  BY <1>6 DEF FetchFails, Ends, Idle, TypeOK, ViewIsOfEpoch, FlagRaised, OneRefresh,
              LandedHolds, Runs, Kinds
<1>7. ASSUME NEW t \in Tasks, NEW h \in Heads, ResyncDone(t, h) PROVE ViewInvariant'
  BY <1>7 DEF ResyncDone, Ends, Idle, TypeOK, View, ViewIsOfEpoch, FlagRaised, OneRefresh,
              LandedHolds, Runs, Kinds
<1>8. ASSUME NEW t \in Tasks, NEW h \in Heads, CachedDone(t, h) PROVE ViewInvariant'
  <2>1. task[t].epoch \in Nat
    BY DEF TypeOK
  <2>2. observed' \in View \cup {NoView} /\ (observed' # NoView => observed'.asked = epoch)
    BY <1>8, <2>1, StoreKeepsEpoch DEF CachedDone
  <2> QED BY <1>8, <2>2 DEF CachedDone, Ends, Idle, TypeOK, ViewIsOfEpoch, FlagRaised,
                            OneRefresh, LandedHolds, Runs, Kinds
<1>9. ASSUME NEW t \in Tasks, NEW h \in Heads, RefreshLands(t, h) PROVE ViewInvariant'
  BY <1>9 DEF RefreshLands, TypeOK, ViewIsOfEpoch, FlagRaised, OneRefresh, LandedHolds,
              Runs, Kinds
<1>10. CASE TtlPasses
  BY <1>10, NoViewAssumption DEF TtlPasses, Fresh, TypeOK, View, ViewIsOfEpoch, FlagRaised,
               OneRefresh, LandedHolds, Runs
<1>11. CASE UNCHANGED vars
  BY <1>11 DEF vars, TypeOK, ViewIsOfEpoch, FlagRaised, OneRefresh, LandedHolds, Runs
<1> QED BY <1>1, <1>2, <1>3, <1>4, <1>5, <1>6, <1>7, <1>8, <1>9, <1>10, <1>11
        DEF Next, FetchEnds

(* The four facts and the type invariant hold together in every state.     *)
THEOREM ViewInvariantHolds == Spec => []ViewInvariant
<1>1. Init => ViewInvariant
  <2> SUFFICES ASSUME Init PROVE ViewInvariant
    OBVIOUS
  <2>1. TypeOK
    BY DEF Init, Idle, TypeOK, Kinds
  <2>2. \A t \in Tasks : task[t].kind = "none" /\ task[t].pc = "idle"
    BY DEF Init, Idle
  <2> QED BY <2>1, <2>2 DEF Init, ViewInvariant, ViewIsOfEpoch, FlagRaised, OneRefresh,
                            LandedHolds, Runs
<1> QED BY <1>1, ViewStepKeeps, PTL DEF Spec

(* However late an answer lands, the hint range acquisition reads was asked*)
(* for in the present epoch.                                               *)
THEOREM EpochKept == Spec => []ViewIsOfEpoch
BY ViewInvariantHolds, PTL DEF ViewInvariant

(* refresh_finalized_head never has two fetches in flight.                 *)
THEOREM RefreshIsSingle == Spec => []OneRefresh
BY ViewInvariantHolds, PTL DEF ViewInvariant

(* What ViewClimbs says of one step.                                       *)
Climbs ==
  epoch' = epoch /\ observed # NoView
    => /\ observed' # NoView
       /\ \/ observed'.head = observed.head
          \/ observed'.head.number > observed.head.number

(* No step of the view's tasks lowers the view within an epoch.            *)
LEMMA StepClimbs == ViewInvariant /\ [Next]_vars => [Climbs]_vars
<1> SUFFICES ASSUME ViewInvariant, Next, epoch' = epoch, observed # NoView PROVE Climbs
  BY DEF vars, Climbs
<1>1. TypeOK /\ LandedHolds
  BY DEF ViewInvariant
<1>2. CASE observed' = observed
  BY <1>2 DEF Climbs
<1>3. ASSUME NEW t \in Tasks, RefreshStored(t) PROVE Climbs
  <2>1. task[t].epoch \in Nat /\ task[t].head \in Heads
    BY <1>1, <1>3 DEF RefreshStored, Runs, TypeOK, LandedHolds
  <2> QED BY <1>1, <1>3, <2>1, StoreClimbs DEF Climbs, RefreshStored
<1>4. ASSUME NEW t \in Tasks, NEW h \in Heads, CachedDone(t, h) PROVE Climbs
  <2>1. task[t].epoch \in Nat
    BY <1>1 DEF TypeOK
  <2> QED BY <1>1, <1>4, <2>1, StoreClimbs DEF Climbs, CachedDone
<1>5. ASSUME NEW t \in Tasks, NEW h \in Heads, ResyncDone(t, h) PROVE Climbs
  BY <1>1, <1>5 DEF ResyncDone, TypeOK
<1>6. CASE TtlPasses
  <2>1. observed \in View /\ observed' = [observed EXCEPT !.fresh = FALSE]
    BY <1>1, <1>6 DEF TtlPasses, TypeOK
  <2>2. observed' \in View /\ observed'.head = observed.head
    BY <2>1 DEF View
  <2> QED BY <2>2, NoViewAssumption DEF Climbs
<1> QED BY <1>2, <1>3, <1>4, <1>5, <1>6
        DEF Next, FetchEnds, BeginResync, CacheMiss, AskForHead, BeginRefresh, FetchFails,
            RefreshLands

(* Within an epoch no answer, of any caller in any order, lowers the view. *)
THEOREM ViewRises == Spec => ViewClimbs
BY StepClimbs, ViewInvariantHolds, PTL DEF Spec, ViewClimbs, Climbs

-----------------------------------------------------------------------------
(* The inductive invariant of the stream.                                  *)

(* The blocks of the range, on either branch.                              *)
RangeBlock == {Block(n, b) : n \in From .. To, b \in Branches}
RangeCandidate == [blk : RangeBlock, is_invalid : BOOLEAN]

(* Consecutive heights from n on.                                          *)
RunFrom(blocks, n) == \A i \in DOMAIN blocks : blocks[i].number = n + i - 1

(* A stride holds a run of its own heights from its lowest on, the answers *)
(* it has not looked at are of its heights, and it is done when the run is *)
(* whole.                                                                  *)
StrideType ==
  [lo : Int, hi : Int, pc : {"asked", "refetch", "ok", "failed"},
   complete : Seq(RangeBlock), initial : Seq(RangeCandidate), retries : Nat]

StrideHolds(s) ==
  /\ s \in StrideType
  /\ From <= s.lo /\ s.hi <= To
  /\ RunFrom(s.complete, s.lo)
  /\ \A i \in DOMAIN s.complete : s.complete[i].number <= s.hi
  /\ \A i \in DOMAIN s.initial : s.initial[i].blk.number <= s.hi
  /\ s.pc = "asked" => s.complete = << >>
  /\ s.pc = "refetch" => Wanted(s) <= s.hi
  /\ s.pc = "ok" => Wanted(s) > s.hi

Positions == {"top", "backfill", "head", "poll"}
Pipelined == {"latest", "failing"}

SessionType ==
  [commitment : {"none", "latest", "finalized"},
   at : Positions \cup Pipelined \cup Ends_ \cup {"closed"},
   beg : Int, next : Int \cup {NoNum}, hot_streak : Nat, incoherent : Nat,
   poll_head : Int \cup {NoNum}, poll_last_read : Int \cup {NoNum}, fault : Int \cup {NoNum}]

PipelineSlot == [pc : {"runs", "ok", "failed"}, blk : RangeBlock]

StreamTypes ==
  /\ session \in SessionType
  /\ ranges \in [from : Int, top : Int] /\ ranges.top <= To
  /\ strides \in Seq(StrideType)
  /\ enriching \in Seq(PipelineSlot)
  /\ delivered \in Seq(RangeBlock)

(* The height the stream yields next.                                      *)
Due == From + Len(delivered)

(* ensure_continuity compares with the block last yielded.                 *)
ExpectsLast == delivered # << >> => expected = delivered[Len(delivered)].hash

(* The strides in flight cut what follows into adjacent ranges, and the    *)
(* next one spawned goes on where the last of them ends.                   *)
StridesAdjoin ==
  session.at = "backfill" /\ strides # << >> =>
    /\ strides[1].lo = session.beg
    /\ \A i \in DOMAIN strides :
         /\ strides[i].hi = StrideEnd(strides[i].lo, ranges.top)
         /\ strides[i].lo <= ranges.top
    /\ \A i \in 1 .. Len(strides) - 1 : strides[i + 1].lo = strides[i].lo + StrideSize
    /\ ranges.from = strides[Len(strides)].lo + StrideSize

(* Wherever the loop stands, what it acquires next is what is due.         *)
InPlace ==
  /\ session.at \in Positions => session.beg = Due /\ enriching = << >>
  /\ session.at = "poll" => Len(strides) = 1 /\ strides[1].lo = session.beg
  /\ session.at \in Pipelined =>
       /\ session.next = Due + Len(enriching)
       /\ \A i \in DOMAIN enriching : enriching[i].blk.number = Due + i - 1

StreamInvariant ==
  /\ StreamTypes
  /\ \A i \in DOMAIN strides : StrideHolds(strides[i])
  /\ ExpectsLast
  /\ StridesAdjoin
  /\ InPlace
  /\ StreamIsChain
  /\ ForkIsReal
  /\ FaultLeavesNoGap

-----------------------------------------------------------------------------
(* Facts about the operators.                                              *)

(* A set of naturals that is not empty has a least element.                *)
LEMMA LeastExists ==
  ASSUME NEW S \in SUBSET Nat, S # {}
  PROVE  Min(S) \in S /\ \A y \in S : Min(S) <= y
<1> DEFINE R == OpToRel(<, Nat)
<1>1. PICK x \in S : \A y \in S : ~(<<y, x>> \in R)
  <2>1. IsWellFoundedOn(R, Nat)
    BY NatLessThanWellFounded
  <2> HIDE DEF R
  <2> QED BY <2>1, WFMin
<1>2. \A y \in S : x <= y
  <2> TAKE y \in S
  <2>1. x \in Nat /\ y \in Nat
    OBVIOUS
  <2>2. y < x => <<y, x>> \in R
    BY <2>1 DEF OpToRel
  <2>3. ~(<<y, x>> \in R)
    BY <1>1
  <2> HIDE DEF R
  <2>4. ~(y < x)
    BY <2>2, <2>3
  <2> QED BY <2>1, <2>4
<1> QED BY <1>2 DEF Min

(* A set of naturals with a bound has a greatest element.                  *)
LEMMA GreatestExists ==
  ASSUME NEW n \in Nat, NEW S \in SUBSET (0 .. n), S # {}
  PROVE  Max(S) \in S /\ \A y \in S : y <= Max(S)
<1> DEFINE U == {u \in Nat : \A y \in S : y <= u}
<1>1. U \in SUBSET Nat /\ n \in U
  OBVIOUS
<1>2. PICK m \in U : \A u \in U : m <= u
  BY <1>1, LeastExists
<1>3. m \in S
  <2> SUFFICES ASSUME m \notin S PROVE FALSE
    OBVIOUS
  <2>1. m \in Nat /\ \A y \in S : y \in Nat /\ y < m
    OBVIOUS
  <2>2. m > 0
    <3>1. PICK y \in S : TRUE
      OBVIOUS
    <3> QED BY <2>1, <3>1
  <2>3. m - 1 \in U
    BY <2>1, <2>2
  <2> QED BY <1>2, <2>1, <2>3
<1> QED BY <1>2, <1>3 DEF Max

(* A block of the range has a height of the range and a hash to compare.   *)
LEMMA RangeBlockIs ==
  ASSUME NEW x \in RangeBlock
  PROVE  x.number \in From .. To /\ x.number \in Int /\ x.hash # NoHash
<1>1. PICK n \in From .. To, b \in Branches : x = Block(n, b)
  BY DEF RangeBlock
<1>2. n \in From - 1 .. To
  BY RangeAssumption
<1> QED BY <1>1, <1>2, RangeAssumption, NoHashAssumption DEF Block

(* What a node answers at a height of the range is a block of that height. *)
LEMMA AnswerInRange ==
  ASSUME NEW n \in From .. To, NEW x \in BlocksAt(n)
  PROVE  x \in RangeBlock /\ x.number = n
BY DEF BlocksAt, RangeBlock, Block

(* Yield: of a batch that begins at the height due, the stream delivers    *)
(* the part that links, and stops with the height below the first block    *)
(* that does not.                                                          *)
LEMMA YieldKeeps ==
  ASSUME NEW blocks \in Seq(RangeBlock), RunFrom(blocks, Due), NEW s \in SessionType,
         delivered \in Seq(RangeBlock), ExpectsLast, StreamIsChain,
         Yield(blocks, s)
  PROVE  /\ delivered' \in Seq(RangeBlock)
         /\ ExpectsLast'
         /\ StreamIsChain'
         /\ \/ session' = s /\ Len(delivered') = Len(delivered) + Len(blocks)
            \/ /\ session' \in SessionType
               /\ session'.at = "fork" /\ session'.fault = From + Len(delivered') - 1
<1> DEFINE bad == {i \in DOMAIN blocks : ~Linked(PrevHash(blocks, i), blocks[i])}
           k == ForkPos(blocks) - 1
           d == delivered
<1>0. From \in Nat /\ From >= 1
  BY RangeAssumption
<1>1. Len(blocks) \in Nat /\ Len(d) \in Nat /\ DOMAIN blocks = 1 .. Len(blocks) /\ DOMAIN d = 1 .. Len(d)
  OBVIOUS
<1>2. k \in 0 .. Len(blocks) /\ (\A i \in 1 .. k : i \notin bad)
  <2> DEFINE S == bad \cup {Len(blocks) + 1}
  <2>1. S \in SUBSET Nat /\ S # {}
    BY <1>1
  <2>2. Min(S) \in S /\ \A y \in S : Min(S) <= y
    BY <2>1, LeastExists
  <2>3. k = Min(S) - 1
    BY DEF ForkPos
  <2>4. Min(S) \in 1 .. Len(blocks) + 1
    BY <2>2, <1>1
  <2> HIDE DEF S, k
  <2>5. k \in 0 .. Len(blocks)
    BY <2>3, <2>4, <1>1
  <2>6. \A i \in 1 .. k : i \notin S
    <3> TAKE i \in 1 .. k
    <3>1. i \in Int /\ Min(S) \in Int /\ i < Min(S)
      BY <2>3, <2>4, <2>5, <1>1
    <3>2. i \in S => Min(S) <= i
      BY <2>2
    <3> QED BY <3>1, <3>2
  <2> QED BY <2>5, <2>6 DEF S
<1>3. delivered' = d \o SubSeq(blocks, 1, k)
  BY DEF Yield
<1>4. expected' = IF k = 0 THEN expected ELSE blocks[k].hash
  BY DEF Yield
<1>5. session' = IF k = Len(blocks) THEN s ELSE [s EXCEPT !.at = "fork", !.fault = blocks[k + 1].number - 1]
  BY DEF Yield
<1> HIDE DEF k
<1>6. SubSeq(blocks, 1, k) \in Seq(RangeBlock) /\ Len(SubSeq(blocks, 1, k)) = k
      /\ \A i \in 1 .. k : SubSeq(blocks, 1, k)[i] = blocks[i]
  BY <1>1, <1>2
<1>7. delivered' \in Seq(RangeBlock) /\ Len(delivered') = Len(d) + k
      /\ (\A i \in 1 .. Len(d) : delivered'[i] = d[i])
      /\ (\A i \in 1 .. k : delivered'[Len(d) + i] = blocks[i])
  BY <1>1, <1>2, <1>3, <1>6
<1>8. ExpectsLast'
  <2>1. CASE k = 0
    BY <2>1, <1>1, <1>4, <1>7 DEF ExpectsLast
  <2>2. CASE k # 0
    <3>1. Len(delivered') = Len(d) + k /\ k \in 1 .. k
      BY <2>2, <1>2, <1>7
    <3> QED BY <3>1, <2>2, <1>4, <1>7 DEF ExpectsLast
  <2> QED BY <2>1, <2>2
<1>9. StreamIsChain'
  <2> SUFFICES ASSUME NEW i \in DOMAIN delivered'
               PROVE  /\ delivered'[i].number = From + i - 1
                      /\ i > 1 => delivered'[i].parent = delivered'[i - 1].hash
    BY DEF StreamIsChain
  <2>0. i \in 1 .. Len(d) + k
    BY <1>7
  <2>1. CASE i <= Len(d)
    <3>1. i \in DOMAIN d /\ delivered'[i] = d[i] /\ (i > 1 => delivered'[i - 1] = d[i - 1])
      BY <2>0, <2>1, <1>1, <1>7
    <3> QED BY <3>1 DEF StreamIsChain
  <2>2. CASE i > Len(d)
    <3> DEFINE j == i - Len(d)
    <3>1. j \in 1 .. k /\ j \in DOMAIN blocks /\ i = Len(d) + j
      BY <2>0, <2>2, <1>1, <1>2
    <3> HIDE DEF j
    <3>2. delivered'[i] = blocks[j]
      BY <3>1, <1>7
    <3>3. blocks[j].number = From + i - 1
      <4>1. blocks[j].number = From + Len(d) + j - 1
        BY <3>1 DEF RunFrom, Due
      <4>2. j \in Int
        BY <3>1, <1>2
      <4> QED BY <3>1, <4>1, <4>2, <1>0, <1>1
    <3>4. Linked(PrevHash(blocks, j), blocks[j])
      BY <3>1, <1>2
    <3>5. CASE j = 1
      <4>1. i > 1 => d # << >> /\ Len(d) \in DOMAIN d /\ delivered'[i - 1] = d[Len(d)] /\ d[Len(d)] \in RangeBlock
        BY <3>1, <3>5, <1>1, <1>7
      <4>2. i > 1 => expected = d[Len(d)].hash /\ expected # NoHash
        BY <4>1, RangeBlockIs DEF ExpectsLast
      <4>3. i > 1 => expected = blocks[j].parent
        BY <4>2, <3>4, <3>5 DEF Linked, PrevHash
      <4> QED BY <3>2, <3>3, <4>1, <4>2, <4>3
    <3>6. CASE j # 1
      <4>1. j - 1 \in 1 .. k /\ j - 1 \in DOMAIN blocks /\ blocks[j - 1] \in RangeBlock
        BY <3>1, <3>6, <1>1, <1>2
      <4>2. i - 1 = Len(d) + (j - 1)
        BY <3>1, <1>1, <1>2
      <4>3. delivered'[i - 1] = blocks[j - 1]
        BY <4>1, <4>2, <1>7
      <4>4. blocks[j - 1].hash # NoHash
        BY <4>1, RangeBlockIs
      <4> QED BY <3>2, <3>3, <3>4, <3>6, <4>3, <4>4 DEF Linked, PrevHash
    <3> QED BY <3>5, <3>6
  <2> QED BY <2>0, <2>1, <2>2, <1>1, <1>2
<1>10. CASE k = Len(blocks)
  BY <1>5, <1>7, <1>8, <1>9, <1>10
<1>11. CASE k # Len(blocks)
  <2>0. k \in Nat /\ k + 1 \in DOMAIN blocks
    <3>0. k \in 0 .. Len(blocks) /\ Len(blocks) \in Nat /\ k # Len(blocks)
      BY <1>1, <1>2, <1>11
    <3>1. k \in Nat /\ k + 1 \in 1 .. Len(blocks)
      BY <3>0
    <3> QED BY <3>1, <1>1
  <2>a. blocks[k + 1].number = From + Len(d) + (k + 1) - 1
    BY <2>0 DEF RunFrom, Due
  <2>1. blocks[k + 1].number = From + Len(d) + k /\ blocks[k + 1].number \in Int
    BY <2>0, <2>a, <1>0, <1>1
  <2>2. session' = [s EXCEPT !.at = "fork", !.fault = blocks[k + 1].number - 1]
    BY <1>5, <1>11
  <2>3. session' \in SessionType /\ session'.at = "fork" /\ session'.fault = blocks[k + 1].number - 1
    <3>1. blocks[k + 1].number - 1 \in Int \cup {NoNum}
      BY <2>1
    <3> QED BY <2>2, <3>1 DEF SessionType, Ends_
  <2>4. session'.fault = From + Len(delivered') - 1
    BY <2>1, <2>3, <1>0, <1>1, <1>2, <1>7
  <2> QED BY <1>7, <1>8, <1>9, <2>3, <2>4
<1> QED BY <1>10, <1>11

(* A stretch of a sequence, empty ones included, holds its elements.       *)
LEMMA Stretch ==
  ASSUME NEW S, NEW q \in Seq(S), NEW m \in 1 .. Len(q) + 2
  PROVE  /\ SubSeq(q, m, Len(q)) \in Seq(S)
         /\ \A i \in DOMAIN SubSeq(q, m, Len(q)) : \E j \in DOMAIN q : SubSeq(q, m, Len(q))[i] = q[j]
<1>1. CASE m <= Len(q)
  <2>1. Len(SubSeq(q, m, Len(q))) = Len(q) - m + 1
    BY <1>1
  <2>2. \A i \in 1 .. Len(q) - m + 1 : SubSeq(q, m, Len(q))[i] = q[m + i - 1] /\ m + i - 1 \in DOMAIN q
    BY <1>1
  <2> QED BY <1>1, <2>1, <2>2
<1>2. CASE ~(m <= Len(q))
  <2>1. SubSeq(q, m, Len(q)) = << >>
    BY <1>2
  <2> QED BY <2>1
<1> QED BY <1>1, <1>2

(* range_candidate_issue passes a run of the initial answers at the        *)
(* heights wanted.                                                         *)
LEMMA CoherentPrefixIs ==
  ASSUME NEW s \in StrideType
  PROVE  /\ CoherentPrefix(s) \in 0 .. Len(s.initial)
         /\ \A i \in 1 .. CoherentPrefix(s) : s.initial[i].blk.number = Wanted(s) + i - 1
<1> DEFINE fits(k) == \A i \in 1 .. k :
             Coherent(s.initial[i], Wanted(s) + i - 1, s.complete \o BlocksOf(SubSeq(s.initial, 1, i - 1)))
           S == {k \in 0 .. Len(s.initial) : fits(k)}
<1>1. Len(s.initial) \in Nat
  BY DEF StrideType
<1>2. 0 \in S
  BY <1>1
<1>3. S \in SUBSET (0 .. Len(s.initial)) /\ S # {}
  BY <1>2
<1>4. CoherentPrefix(s) = Max(S)
  BY DEF CoherentPrefix
<1> HIDE DEF S
<1>5. CoherentPrefix(s) \in S
  BY <1>1, <1>3, <1>4, GreatestExists
<1>6. CoherentPrefix(s) \in 0 .. Len(s.initial) /\ fits(CoherentPrefix(s))
  BY <1>5 DEF S
<1> QED BY <1>6 DEF Coherent

(* What one task's step relies on.                                         *)
StrideSound(s) ==
  /\ s \in StrideType
  /\ From <= s.lo /\ s.hi <= To
  /\ RunFrom(s.complete, s.lo)
  /\ \A i \in DOMAIN s.complete : s.complete[i].number <= s.hi
  /\ \A i \in DOMAIN s.initial : s.initial[i].blk.number <= s.hi

(* Giving up keeps what is complete.                                       *)
LEMMA FailedHolds ==
  ASSUME NEW s, StrideSound(s)
  PROVE  StrideHolds(Failed(s)) /\ Failed(s).lo = s.lo /\ Failed(s).hi = s.hi
<1> DEFINE t == Failed(s)
<1>1. t \in StrideType /\ t.lo = s.lo /\ t.hi = s.hi /\ t.complete = s.complete /\ t.initial = << >>
      /\ t.pc = "failed"
  <2>1. s \in StrideType /\ << >> \in Seq(RangeCandidate)
    BY DEF StrideSound
  <2> QED BY <2>1 DEF StrideType, Failed
<1> HIDE DEF t
<1> QED BY <1>1 DEF StrideSound, StrideHolds, t

(* A retry of a height the stride still wants keeps what is complete.      *)
LEMMA ReacquireHolds ==
  ASSUME NEW s, StrideSound(s), Wanted(s) <= s.hi
  PROVE  StrideHolds(Reacquire(s)) /\ Reacquire(s).lo = s.lo /\ Reacquire(s).hi = s.hi
<1> DEFINE t == [s EXCEPT !.pc = "refetch", !.retries = @ + 1]
<1>1. t \in StrideType /\ t.lo = s.lo /\ t.hi = s.hi /\ t.complete = s.complete
      /\ t.initial = s.initial /\ t.pc = "refetch"
  <2>1. s \in StrideType
    BY DEF StrideSound
  <2>2. s.retries + 1 \in Nat
    BY <2>1 DEF StrideType
  <2> QED BY <2>1, <2>2 DEF StrideType
<1> HIDE DEF t
<1>2. StrideHolds(t)
  BY <1>1 DEF StrideSound, StrideHolds, Wanted
<1>3. Reacquire(s) = t \/ Reacquire(s) = Failed(s)
  BY DEF Reacquire, t
<1> QED BY <1>1, <1>2, <1>3, FailedHolds

(* Taking what is coherent of the answers extends the run, within the      *)
(* stride.                                                                 *)
LEMMA ProceedHolds ==
  ASSUME NEW s, StrideSound(s)
  PROVE  StrideHolds(Proceed(s)) /\ Proceed(s).lo = s.lo /\ Proceed(s).hi = s.hi
<1> DEFINE k == CoherentPrefix(s)
           n == Len(s.complete)
           more == BlocksOf(SubSeq(s.initial, 1, k))
           C == s.complete \o more
           I == SubSeq(s.initial, k + 2, Len(s.initial))
           t == [s EXCEPT !.complete = C, !.initial = I, !.retries = 0]
<1>0. s.complete \in Seq(RangeBlock) /\ s.initial \in Seq(RangeCandidate) /\ s.lo \in Int /\ s.hi \in Int
      /\ s \in StrideType
  BY DEF StrideSound, StrideType
<1>1. k \in 0 .. Len(s.initial) /\ (\A i \in 1 .. k : s.initial[i].blk.number = s.lo + n + i - 1)
      /\ Len(s.initial) \in Nat /\ n \in Nat
  BY <1>0, CoherentPrefixIs DEF StrideSound, Wanted
<1> HIDE DEF k, n
<1>2. more \in Seq(RangeBlock) /\ Len(more) = k /\ \A i \in 1 .. k : more[i] = s.initial[i].blk
  <2>1. SubSeq(s.initial, 1, k) \in Seq(RangeCandidate) /\ Len(SubSeq(s.initial, 1, k)) = k
        /\ \A i \in 1 .. k : SubSeq(s.initial, 1, k)[i] = s.initial[i]
    BY <1>0, <1>1
  <2> DEFINE q == SubSeq(s.initial, 1, k)
  <2> HIDE DEF q
  <2>2. q \in Seq(RangeCandidate) /\ Len(q) = k /\ (\A i \in 1 .. k : q[i] = s.initial[i])
    BY <2>1 DEF q
  <2>3. more = [i \in 1 .. k |-> q[i].blk]
    BY <2>2 DEF BlocksOf, q
  <2>4. \A i \in 1 .. k : q[i] \in RangeCandidate
    BY <2>2
  <2>5. \A i \in 1 .. k : q[i].blk \in RangeBlock
    BY <2>4 DEF RangeCandidate
  <2>6. k \in Nat
    BY <1>1
  <2> HIDE DEF more
  <2> QED BY <2>2, <2>3, <2>5, <2>6
<1> HIDE DEF more
<1>3. C \in Seq(RangeBlock) /\ Len(C) = n + k /\ (\A i \in 1 .. n : C[i] = s.complete[i])
      /\ (\A i \in 1 .. k : C[n + i] = s.initial[i].blk)
  <2>1. C \in Seq(RangeBlock) /\ Len(C) = n + k
        /\ \A i \in 1 .. n + k : C[i] = IF i <= n THEN s.complete[i] ELSE more[i - n]
    BY <1>0, <1>2, ConcatProperties DEF n
  <2> HIDE DEF C
  <2>2. \A i \in 1 .. n : C[i] = s.complete[i]
    BY <2>1, <1>1
  <2>3. \A i \in 1 .. k : C[n + i] = s.initial[i].blk
    <3> TAKE i \in 1 .. k
    <3>1. n + i \in 1 .. n + k /\ ~(n + i <= n) /\ (n + i) - n = i
      BY <1>1
    <3> QED BY <3>1, <2>1, <1>2
  <2> QED BY <2>1, <2>2, <2>3
<1>4. I \in Seq(RangeCandidate) /\ \A i \in DOMAIN I : I[i].blk.number <= s.hi
  BY <1>0, <1>1, Stretch DEF StrideSound
<1> HIDE DEF C, I
<1>5. RunFrom(C, s.lo) /\ \A i \in DOMAIN C : C[i].number <= s.hi
  <2> SUFFICES ASSUME NEW i \in 1 .. n + k PROVE C[i].number = s.lo + i - 1 /\ C[i].number <= s.hi
    BY <1>3 DEF RunFrom
  <2>1. CASE i <= n
    <3>1. i \in 1 .. n /\ i \in DOMAIN s.complete
      BY <2>1, <1>0, <1>1 DEF n
    <3> QED BY <3>1, <1>3 DEF StrideSound, RunFrom
  <2>2. CASE i > n
    <3> DEFINE j == i - n
    <3>1. j \in 1 .. k /\ i = n + j /\ j \in DOMAIN s.initial
      BY <2>2, <1>0, <1>1
    <3> HIDE DEF j
    <3>2. C[i] = s.initial[j].blk /\ C[i].number = s.lo + n + j - 1
      BY <3>1, <1>1, <1>3
    <3>3. C[i].number <= s.hi
      BY <3>1, <3>2 DEF StrideSound
    <3>4. j \in Int /\ n \in Int /\ s.lo \in Int
      BY <1>0, <1>1, <3>1
    <3> QED BY <3>1, <3>2, <3>3, <3>4
  <2> QED BY <2>1, <2>2, <1>1
<1>6. t \in StrideType /\ t.lo = s.lo /\ t.hi = s.hi /\ t.complete = C /\ t.initial = I
  BY <1>0, <1>3, <1>4 DEF StrideType
<1>7. Proceed(s) = IF Wanted(t) > s.hi THEN [t EXCEPT !.pc = "ok"] ELSE Reacquire(t)
  BY DEF Proceed, k, C, I, more
<1> HIDE DEF t
<1>8. StrideSound(t)
  BY <1>4, <1>5, <1>6 DEF StrideSound
<1>9. CASE Wanted(t) > s.hi
  <2> DEFINE u == [t EXCEPT !.pc = "ok"]
  <2>1. u \in StrideType /\ u.lo = t.lo /\ u.hi = t.hi /\ u.complete = t.complete /\ u.initial = t.initial
        /\ u.pc = "ok"
    BY <1>6 DEF StrideType
  <2>2. Proceed(s) = u
    BY <1>7, <1>9
  <2> HIDE DEF u
  <2> QED BY <2>1, <2>2, <1>6, <1>8, <1>9 DEF StrideSound, StrideHolds, Wanted
<1>10. CASE ~(Wanted(t) > s.hi)
  <2>1. Wanted(t) \in Int
    BY <1>6 DEF Wanted, StrideType
  <2>2. Wanted(t) <= t.hi
    BY <2>1, <1>0, <1>6, <1>10
  <2> QED BY <2>2, <1>6, <1>7, <1>8, <1>10, ReacquireHolds
<1> QED BY <1>9, <1>10

(* get_block_batch answers with blocks of the heights asked for.           *)
LEMMA BatchAnswersAre ==
  ASSUME NEW lo \in Int, NEW hi \in Int, From <= lo, hi <= To, NEW ans \in BatchAnswers(lo, hi)
  PROVE  ans \in Seq(RangeCandidate) /\ \A i \in DOMAIN ans : ans[i].blk.number <= hi
<1>1. CASE ans = << >>
  BY <1>1
<1>2. ASSUME NEW k \in 1 .. hi - lo + 1, NEW b \in Branches, NEW bad \in 0 .. hi - lo + 1,
             ans = [i \in 1 .. k |-> Candidate(Block(lo + i - 1, b), i = bad)]
      PROVE  ans \in Seq(RangeCandidate) /\ \A i \in DOMAIN ans : ans[i].blk.number <= hi
  <2>1. k \in Nat /\ DOMAIN ans = 1 .. k
    BY <1>2
  <2>2. ASSUME NEW i \in 1 .. k PROVE ans[i] \in RangeCandidate /\ ans[i].blk.number <= hi
    <3>1. lo + i - 1 \in From .. To /\ lo + i - 1 <= hi
      BY RangeAssumption
    <3>2. Block(lo + i - 1, b) \in RangeBlock /\ Block(lo + i - 1, b).number = lo + i - 1
      BY <3>1 DEF RangeBlock, Block
    <3>3. (i = bad) \in BOOLEAN
      OBVIOUS
    <3> QED BY <1>2, <3>1, <3>2, <3>3 DEF Candidate, RangeCandidate
  <2>3. ans \in [1 .. k -> RangeCandidate]
    BY <1>2, <2>2
  <2>4. ans \in Seq(RangeCandidate)
    BY <2>1, <2>3
  <2> QED BY <2>1, <2>2, <2>4
<1>3. ans # << >> => \E k \in 1 .. hi - lo + 1, b \in Branches, bad \in 0 .. hi - lo + 1 :
        ans = [i \in 1 .. k |-> Candidate(Block(lo + i - 1, b), i = bad)]
  <2>1. ans # << >> =>
          ans \in {[i \in 1 .. k |-> Candidate(Block(lo + i - 1, b), i = bad)] :
                    k \in 1 .. hi - lo + 1, b \in Branches, bad \in 0 .. hi - lo + 1}
    BY DEF BatchAnswers
  <2> QED BY <2>1
<1> QED BY <1>1, <1>2, <1>3

(* Whatever is answered, a stride's task keeps to its own heights.         *)
LEMMA StepsHold ==
  ASSUME NEW s, StrideHolds(s), NEW t \in Steps(s)
  PROVE  StrideHolds(t) /\ t.lo = s.lo /\ t.hi = s.hi
<1>1. StrideSound(s) /\ s \in StrideType
  BY DEF StrideHolds, StrideSound
<1>2. s.lo \in Int /\ s.hi \in Int /\ s.complete \in Seq(RangeBlock)
  BY <1>1 DEF StrideType
<1>3. CASE t = Failed(s)
  BY <1>1, <1>3, FailedHolds
<1>4. CASE s.pc = "asked" /\ t # Failed(s)
  <2>1. PICK ans \in BatchAnswers(s.lo, s.hi) : t = Proceed([s EXCEPT !.initial = ans])
    BY <1>4 DEF Steps, Answered
  <2> DEFINE u == [s EXCEPT !.initial = ans]
  <2>2. ans \in Seq(RangeCandidate) /\ \A i \in DOMAIN ans : ans[i].blk.number <= s.hi
    BY <1>1, <1>2, BatchAnswersAre DEF StrideSound
  <2>3. u \in StrideType /\ u.lo = s.lo /\ u.hi = s.hi /\ u.complete = s.complete /\ u.initial = ans
    BY <1>1, <2>2 DEF StrideType
  <2> HIDE DEF u
  <2>4. StrideSound(u)
    BY <1>1, <2>2, <2>3 DEF StrideSound
  <2> QED BY <2>1, <2>3, <2>4, ProceedHolds DEF u
<1>5. CASE s.pc = "refetch" /\ t # Failed(s)
  <2>1. Wanted(s) <= s.hi /\ Wanted(s) = s.lo + Len(s.complete) /\ Len(s.complete) \in Nat
    BY <1>2, <1>5 DEF StrideHolds, Wanted
  <2>2. CASE t = Reacquire(s)
    BY <2>1, <2>2, <1>1, ReacquireHolds
  <2>3. CASE t # Reacquire(s)
    <3>1. PICK c \in CandidatesAt(Wanted(s)) : t = Proceed([s EXCEPT !.complete = Append(@, c.blk)])
      BY <1>5, <2>3 DEF Steps, Refetched
    <3> DEFINE C == Append(s.complete, c.blk)
               u == [s EXCEPT !.complete = C]
    <3>2. Wanted(s) \in From .. To
      BY <2>1, <1>1, <1>2, RangeAssumption DEF StrideSound
    <3>3. c.blk \in BlocksAt(Wanted(s))
      BY DEF CandidatesAt, Candidate
    <3>4. c.blk \in RangeBlock /\ c.blk.number = Wanted(s)
      BY <3>2, <3>3, AnswerInRange
    <3>5. C \in Seq(RangeBlock) /\ Len(C) = Len(s.complete) + 1
          /\ (\A i \in 1 .. Len(s.complete) : C[i] = s.complete[i]) /\ C[Len(s.complete) + 1] = c.blk
      BY <1>2, <3>4
    <3>6. u \in StrideType /\ u.lo = s.lo /\ u.hi = s.hi /\ u.complete = C /\ u.initial = s.initial
      BY <1>1, <3>5 DEF StrideType
    <3>7. t = Proceed(u)
      BY <3>1
    <3> HIDE DEF C, u
    <3>8. \A i \in DOMAIN C : C[i].number = s.lo + i - 1 /\ C[i].number <= s.hi
      <4> SUFFICES ASSUME NEW i \in 1 .. Len(s.complete) + 1
                   PROVE  C[i].number = s.lo + i - 1 /\ C[i].number <= s.hi
        BY <3>5
      <4>1. CASE i = Len(s.complete) + 1
        BY <4>1, <3>4, <3>5, <2>1, <1>2
      <4>2. CASE i # Len(s.complete) + 1
        <5>1. i \in 1 .. Len(s.complete) /\ i \in DOMAIN s.complete
          BY <4>2, <2>1, <1>2
        <5> QED BY <5>1, <3>5, <1>1 DEF StrideSound, RunFrom
      <4> QED BY <4>1, <4>2
    <3>9. StrideSound(u)
      BY <1>1, <3>6, <3>8 DEF StrideSound, RunFrom
    <3> QED BY <3>6, <3>7, <3>9, ProceedHolds
  <2> QED BY <2>2, <2>3
<1>6. s.pc \in {"asked", "refetch"}
  BY <1>1 DEF Steps, StrideType
<1> QED BY <1>3, <1>4, <1>5, <1>6

(* A stride not yet answered.                                              *)
LEMMA NewStrideHolds ==
  ASSUME NEW lo \in Int, NEW hi \in Int, From <= lo, hi <= To
  PROVE  StrideHolds(Stride(lo, hi)) /\ Stride(lo, hi).lo = lo /\ Stride(lo, hi).hi = hi
<1> DEFINE t == Stride(lo, hi)
<1>0. << >> \in Seq(RangeBlock) /\ << >> \in Seq(RangeCandidate)
  OBVIOUS
<1>1. t \in StrideType /\ t.lo = lo /\ t.hi = hi /\ t.complete = << >> /\ t.initial = << >> /\ t.pc = "asked"
  BY <1>0 DEF Stride, StrideType
<1> HIDE DEF t
<1> QED BY <1>1 DEF StrideHolds, RunFrom, t

(* The sizes are at least one.                                             *)
LEMMA Sizes == /\ StrideSize \in Nat /\ StrideSize >= 1
               /\ StrideConcurrency \in Nat /\ StrideConcurrency >= 1
               /\ PipelineDepth \in Nat /\ PipelineDepth >= 1
BY SizesAssumption

(* The end of a stride lies within the range.                              *)
LEMMA StrideEndIs ==
  ASSUME NEW lo \in Int, NEW top \in Int
  PROVE  StrideEnd(lo, top) \in Int /\ StrideEnd(lo, top) <= top
         /\ StrideEnd(lo, top) <= lo + StrideSize - 1
         /\ (lo + StrideSize <= top => StrideEnd(lo, top) = lo + StrideSize - 1)
BY Sizes DEF StrideEnd, Lower

(* The strides spawned adjoin, from the first height not yet spawned on,   *)
(* and the next one begins where they end.                                 *)
LEMMA SpawnIs ==
  ASSUME NEW r \in [from : Int, top : Int], From <= r.from, r.top <= To, NEW room \in Nat
  PROVE  LET q == Spawn(r, room)
         IN /\ q \in Seq(StrideType) /\ Len(q) <= room
            /\ AfterSpawn(r, Len(q)) \in [from : Int, top : Int]
            /\ AfterSpawn(r, Len(q)).top = r.top
            /\ AfterSpawn(r, Len(q)).from = r.from + Len(q) * StrideSize
            /\ \A i \in DOMAIN q :
                 /\ StrideHolds(q[i])
                 /\ q[i].lo = r.from + (i - 1) * StrideSize /\ q[i].lo <= r.top
                 /\ q[i].hi = StrideEnd(q[i].lo, r.top)
<1> DEFINE start(i) == r.from + (i - 1) * StrideSize
           D == {j \in 1 .. room : start(j) <= r.top}
           n == Max(D \cup {0})
           q == Spawn(r, room)
<1>0. r.from \in Int /\ r.top \in Int /\ StrideSize \in Nat /\ StrideSize >= 1
  BY Sizes
<1>1. D \cup {0} \in SUBSET (0 .. room) /\ D \cup {0} # {}
  OBVIOUS
<1>2. n \in D \cup {0} /\ \A y \in D \cup {0} : y <= n
  BY <1>1, GreatestExists
<1>3. n \in 0 .. room
  BY <1>1, <1>2
<1>4. \A i, j \in Nat : i <= j => i * StrideSize <= j * StrideSize
  <2> TAKE i, j \in Nat
  <2> HAVE i <= j
  <2>1. j - i \in Nat
    OBVIOUS
  <2>2. (j - i) * StrideSize >= 0
    BY <2>1, <1>0
  <2>3. (j - i) * StrideSize = j * StrideSize - i * StrideSize
    BY <1>0
  <2> QED BY <2>2, <2>3, <1>0
<1>5. \A i \in 1 .. room : start(i) \in Int
  BY <1>0
<1>6. D = 1 .. n
  <2>1. ASSUME NEW i \in 1 .. n PROVE i \in D
    <3>1. n \in D /\ i - 1 \in Nat /\ n - 1 \in Nat /\ i - 1 <= n - 1 /\ i \in 1 .. room
      BY <2>1, <1>2, <1>3
    <3>2. (i - 1) * StrideSize <= (n - 1) * StrideSize
      BY <1>4, <3>1
    <3>3. start(n) <= r.top
      BY <3>1
    <3>4. (i - 1) * StrideSize \in Int /\ (n - 1) * StrideSize \in Int
      BY <3>1, <1>0
    <3> QED BY <3>1, <3>2, <3>3, <3>4, <1>0
  <2>2. ASSUME NEW i \in D PROVE i \in 1 .. n
    BY <1>2, <1>3
  <2> HIDE DEF D, n
  <2> QED BY <2>1, <2>2
<1>7. q = [i \in 1 .. n |-> Stride(start(i), StrideEnd(start(i), r.top))]
  BY <1>6 DEF Spawn
<1>8. \A i \in 1 .. n : start(i) \in Int /\ From <= start(i) /\ start(i) <= r.top
  <2> TAKE i \in 1 .. n
  <2>1. i \in D /\ i \in 1 .. room
    BY <1>6
  <2>2. start(i) <= r.top
    BY <2>1
  <2>3. (i - 1) \in Nat /\ (i - 1) * StrideSize \in Int /\ 0 * StrideSize <= (i - 1) * StrideSize
    BY <2>1, <1>0, <1>4
  <2> QED BY <2>2, <2>3, <1>0, RangeAssumption
<1> HIDE DEF D, n, q
<1>9. n \in Nat /\ Len(q) = n /\ DOMAIN q = 1 .. n
  BY <1>3, <1>7
<1>10. ASSUME NEW i \in 1 .. n
       PROVE  /\ StrideHolds(q[i]) /\ q[i] \in StrideType
              /\ q[i].lo = start(i) /\ q[i].lo <= r.top
              /\ q[i].hi = StrideEnd(q[i].lo, r.top)
  <2>1. q[i] = Stride(start(i), StrideEnd(start(i), r.top))
    BY <1>7
  <2>2. start(i) \in Int /\ From <= start(i) /\ start(i) <= r.top
    BY <1>8
  <2> HIDE DEF start
  <2>3. StrideEnd(start(i), r.top) \in Int /\ StrideEnd(start(i), r.top) <= To
    <3>1. StrideEnd(start(i), r.top) \in Int /\ StrideEnd(start(i), r.top) <= r.top
      BY <2>2, <1>0, StrideEndIs
    <3> QED BY <3>1, <1>0, RangeAssumption
  <2>4. StrideHolds(q[i]) /\ q[i].lo = start(i) /\ q[i].hi = StrideEnd(start(i), r.top)
    BY <2>1, <2>2, <2>3, NewStrideHolds
  <2> QED BY <2>2, <2>4 DEF StrideHolds
<1>11. q \in Seq(StrideType)
  BY <1>7, <1>9, <1>10
<1>12. AfterSpawn(r, n) \in [from : Int, top : Int] /\ AfterSpawn(r, n).top = r.top
       /\ AfterSpawn(r, n).from = r.from + n * StrideSize
  <2>1. n * StrideSize \in Int
    BY <1>0, <1>9
  <2> QED BY <2>1, <1>0 DEF AfterSpawn
<1> QED BY <1>3, <1>9, <1>10, <1>11, <1>12 DEF q

-----------------------------------------------------------------------------
(* Every step of the stream keeps the invariant.                           *)

(* No stream is open, or it is about to read its first block.              *)
LEMMA StreamStarts == IngestInit => StreamInvariant
<1> SUFFICES ASSUME IngestInit PROVE StreamInvariant
  OBVIOUS
<1>1. From \in Int /\ To \in Nat
  BY RangeAssumption
<1>2. session \in SessionType /\ session.at \in {"top", "closed"} /\ session.beg = From
  BY <1>1 DEF IngestInit, Opened, NoSession, SessionType, Positions, Ends_, Pipelined
<1>3. ranges \in [from : Int, top : Int] /\ ranges.top <= To
  BY <1>1 DEF IngestInit, NoRanges
<1>4. strides = << >> /\ enriching = << >> /\ delivered = << >>
  BY DEF IngestInit
<1>5. StreamTypes
  BY <1>2, <1>3, <1>4 DEF StreamTypes
<1> QED BY <1>1, <1>2, <1>4, <1>5
        DEF StreamInvariant, ExpectsLast, StridesAdjoin, InPlace, Due, Positions, Pipelined,
            StreamIsChain, ForkIsReal, FaultLeavesNoGap

(* Where nothing is yielded, what was yielded stays a chain.               *)
LEMMA Unyielded ==
  ASSUME StreamInvariant, UNCHANGED <<expected, delivered>>
  PROVE  ExpectsLast' /\ StreamIsChain' /\ Due' = Due /\ delivered' \in Seq(RangeBlock)
BY DEF StreamInvariant, StreamTypes, ExpectsLast, StreamIsChain, Due

(* The height due is a number, not below the range.                        *)
LEMMA DueIs ==
  ASSUME StreamInvariant
  PROVE  Due \in Int /\ From <= Due /\ Len(delivered) \in Nat /\ From \in Int
BY RangeAssumption DEF StreamInvariant, StreamTypes, Due

(* A stream that has ended owes nothing about what is in flight.           *)
LEMMA EndedOwesNothing ==
  ASSUME session'.at \in Ends_ \cup {"closed"}
  PROVE  StridesAdjoin' /\ InPlace'
BY DEF Ends_, StridesAdjoin, InPlace, Positions, Pipelined

(* Fails: the stream ends where it stands.                                 *)
LEMMA FailsKeeps ==
  ASSUME StreamInvariant, NEW how \in {"fault", "error"}, NEW n \in Int \cup {NoNum}, Fails(how, n),
         how = "fault" => n = Due
  PROVE  /\ session' \in SessionType /\ session'.at \in Ends_
         /\ delivered' \in Seq(RangeBlock) /\ ExpectsLast' /\ StreamIsChain'
         /\ ForkIsReal' /\ FaultLeavesNoGap'
<1>1. session \in SessionType
  BY DEF StreamInvariant, StreamTypes
<1>2. session' = [session EXCEPT !.at = how, !.fault = n] /\ UNCHANGED <<expected, delivered>>
  BY DEF Fails
<1>3. session' \in SessionType /\ session'.at = how /\ session'.fault = n
  BY <1>1, <1>2 DEF SessionType, Ends_
<1>4. ExpectsLast' /\ StreamIsChain' /\ Due' = Due /\ delivered' \in Seq(RangeBlock)
  BY <1>2, Unyielded
<1> QED BY <1>3, <1>4 DEF ForkIsReal, FaultLeavesNoGap, Ends_, Due

(* Acquired: a settled stride that began at the height due is yielded up   *)
(* to a fault or a fork; only a whole one lets the stream go on, with the  *)
(* height after it.                                                        *)
LEMMA AcquiredKeeps ==
  ASSUME StreamInvariant, NEW s, StrideHolds(s), Settled(s), s.lo = Due,
         NEW then \in SessionType, then.at \in Positions, Acquired(s, then)
  PROVE  /\ session' \in SessionType
         /\ delivered' \in Seq(RangeBlock) /\ ExpectsLast' /\ StreamIsChain'
         /\ ForkIsReal' /\ FaultLeavesNoGap'
         /\ \/ session'.at \in Ends_
            \/ session' = [then EXCEPT !.beg = s.hi + 1] /\ s.hi + 1 = Due'
<1> DEFINE n == Len(s.complete)
           last == Last(s.complete).number
           advanced == [then EXCEPT !.beg = last + 1]
           faulted == [advanced EXCEPT !.at = "fault", !.fault = last + 1]
<1>0. s \in StrideType /\ RunFrom(s.complete, s.lo) /\ s.complete \in Seq(RangeBlock)
      /\ s.lo \in Int /\ s.hi \in Int /\ n \in Nat
  BY DEF StrideHolds, StrideType
<1>1. Due \in Int /\ From \in Int /\ Len(delivered) \in Nat /\ Due = From + Len(delivered)
      /\ Due' = From + Len(delivered')
  BY DueIs DEF Due
<1>2. CASE s.complete = << >>
  <2>1. Fails("fault", s.lo)
    BY <1>2 DEF Acquired
  <2> QED BY <2>1, <1>0, FailsKeeps
<1>3. CASE Fails("error", NoNum)
  BY <1>3, FailsKeeps
<1>4. CASE s.complete # << >> /\ ~Fails("error", NoNum)
  <2>1. Yield(s.complete, IF s.pc = "failed" THEN faulted ELSE advanced)
    BY <1>4 DEF Acquired
  <2>2. last = Due + n - 1 /\ last <= s.hi /\ last \in Int
    <3>1. n \in DOMAIN s.complete /\ Last(s.complete) = s.complete[n]
      BY <1>0, <1>4 DEF Last
    <3>2. last = s.lo + n - 1 /\ last <= s.hi
      BY <3>1, <1>0 DEF RunFrom, StrideHolds
    <3>3. n \in Nat /\ Due \in Int
      BY <1>0, <1>1
    <3> HIDE DEF n, last
    <3> QED BY <3>2, <3>3
  <2> HIDE DEF last
  <2>3. advanced \in SessionType /\ advanced.at = then.at
    <3>1. last + 1 \in Int
      BY <2>2
    <3>2. advanced \in SessionType
      BY <3>1 DEF SessionType
    <3>3. advanced.at = then.at
      BY DEF SessionType
    <3> QED BY <3>2, <3>3
  <2> HIDE DEF advanced
  <2>4. faulted \in SessionType /\ faulted.at = "fault" /\ faulted.fault = last + 1
    <3>1. last + 1 \in Int \cup {NoNum}
      BY <2>2
    <3> QED BY <2>3, <3>1 DEF SessionType, Ends_
  <2>5. delivered \in Seq(RangeBlock) /\ ExpectsLast /\ StreamIsChain
    BY DEF StreamInvariant, StreamTypes
  <2>6. RunFrom(s.complete, Due)
    BY <1>0
  <2> HIDE DEF faulted
  <2>7. CASE s.pc = "failed"
    <3>1. Yield(s.complete, faulted)
      BY <2>1, <2>7
    <3>2. /\ delivered' \in Seq(RangeBlock) /\ ExpectsLast' /\ StreamIsChain'
          /\ \/ session' = faulted /\ Len(delivered') = Len(delivered) + n
             \/ /\ session' \in SessionType
                /\ session'.at = "fork" /\ session'.fault = From + Len(delivered') - 1
      BY <3>1, <1>0, <2>4, <2>5, <2>6, YieldKeeps
    <3>3. session' = faulted /\ Len(delivered') = Len(delivered) + n
            => session'.fault = From + Len(delivered')
      <4> HAVE session' = faulted /\ Len(delivered') = Len(delivered) + n
      <4>1. session'.fault = Due + n - 1 + 1
        BY <2>2, <2>4
      <4>2. n \in Nat /\ Len(delivered) \in Nat /\ From \in Int
        BY <1>0, <1>1
      <4> HIDE DEF n
      <4> QED BY <4>1, <4>2, <1>1
    <3> QED BY <3>2, <3>3, <2>4 DEF ForkIsReal, FaultLeavesNoGap, Ends_
  <2>8. CASE s.pc # "failed"
    <3>1. Yield(s.complete, advanced)
      BY <2>1, <2>8
    <3>2. /\ delivered' \in Seq(RangeBlock) /\ ExpectsLast' /\ StreamIsChain'
          /\ \/ session' = advanced /\ Len(delivered') = Len(delivered) + n
             \/ /\ session' \in SessionType
                /\ session'.at = "fork" /\ session'.fault = From + Len(delivered') - 1
      BY <3>1, <1>0, <2>3, <2>5, <2>6, YieldKeeps
    <3>3. s.pc = "ok" /\ Wanted(s) > s.hi
      BY <2>8 DEF Settled, StrideHolds
    <3>4. last = s.hi
      <4>1. s.lo + n > s.hi /\ n \in Nat /\ s.hi \in Int /\ Due \in Int
        BY <3>3, <1>0, <1>1 DEF Wanted
      <4> HIDE DEF n
      <4> QED BY <4>1, <2>2
    <3>5. CASE session' = advanced /\ Len(delivered') = Len(delivered) + n
      <4>1. Due' = Due + n
        <5>1. n \in Nat /\ Len(delivered) \in Nat /\ From \in Int
          BY <1>0, <1>1
        <5> HIDE DEF n
        <5> QED BY <3>5, <5>1, <1>1
      <4>2. s.hi + 1 = Due'
        BY <4>1, <3>4, <2>2, <1>0, <1>1
      <4>3. session' = [then EXCEPT !.beg = s.hi + 1] /\ session'.at \in Positions
        BY <3>4, <3>5, <2>3 DEF advanced
      <4> QED BY <3>2, <3>5, <4>2, <4>3, <2>3 DEF ForkIsReal, FaultLeavesNoGap, Positions
    <3>6. CASE session' \in SessionType /\ session'.at = "fork"
               /\ session'.fault = From + Len(delivered') - 1
      BY <3>2, <3>6 DEF ForkIsReal, FaultLeavesNoGap, Ends_
    <3> QED BY <3>2, <3>5, <3>6
  <2> QED BY <2>7, <2>8
<1> QED BY <1>2, <1>3, <1>4

(* A sequence that is not empty and no longer than one.                    *)
LEMMA AtMostOne ==
  ASSUME NEW S, NEW q \in Seq(S), q # << >>, Len(q) <= 1
  PROVE  Len(q) = 1
<1>1. Len(q) \in Nat /\ Len(q) # 0
  BY EmptySeq
<1> QED BY <1>1

(* Adjacent strides from `from` on, cut out of the heights up to top.      *)
Adjoining(q, from, top) ==
  /\ q[1].lo = from
  /\ \A i \in DOMAIN q : q[i].hi = StrideEnd(q[i].lo, top) /\ q[i].lo <= top
  /\ \A i \in 1 .. Len(q) - 1 : q[i + 1].lo = q[i].lo + StrideSize

(* What is spawned first adjoins.                                          *)
LEMMA SpawnAdjoins ==
  ASSUME NEW r \in [from : Int, top : Int], From <= r.from, r.top <= To, NEW room \in Nat,
         Spawn(r, room) # << >>
  PROVE  LET q == Spawn(r, room)
         IN /\ Adjoining(q, r.from, r.top)
            /\ AfterSpawn(r, Len(q)).from = q[Len(q)].lo + StrideSize
<1> DEFINE q == Spawn(r, room)
<1>1. /\ q \in Seq(StrideType)
      /\ AfterSpawn(r, Len(q)).from = r.from + Len(q) * StrideSize
      /\ \A i \in DOMAIN q : /\ q[i].lo = r.from + (i - 1) * StrideSize /\ q[i].lo <= r.top
                             /\ q[i].hi = StrideEnd(q[i].lo, r.top)
  BY SpawnIs
<1>2. q # << >>
  OBVIOUS
<1> HIDE DEF q
<1>3. Len(q) \in Nat /\ Len(q) >= 1 /\ DOMAIN q = 1 .. Len(q) /\ StrideSize \in Nat /\ r.from \in Int
  BY <1>1, <1>2, Sizes
<1>4. \A k \in Nat : /\ r.from + ((k + 1) - 1) * StrideSize = (r.from + (k - 1) * StrideSize) + StrideSize
                     /\ r.from + k * StrideSize = (r.from + (k - 1) * StrideSize) + StrideSize
  BY <1>3
<1>5. r.from + (1 - 1) * StrideSize = r.from
  BY <1>3
<1>6. \A i \in 1 .. Len(q) - 1 : q[i + 1].lo = q[i].lo + StrideSize
  <2> TAKE i \in 1 .. Len(q) - 1
  <2>1. i \in DOMAIN q /\ i + 1 \in DOMAIN q /\ i \in Nat
    BY <1>3
  <2>2. q[i].lo = r.from + (i - 1) * StrideSize /\ q[i + 1].lo = r.from + ((i + 1) - 1) * StrideSize
    BY <2>1, <1>1
  <2> QED BY <2>1, <2>2, <1>4
<1>7. q[1].lo = r.from
  <2>0. 1 \in DOMAIN q
    BY <1>3
  <2>1. q[1].lo = r.from + (1 - 1) * StrideSize
    BY <2>0, <1>1
  <2> QED BY <2>1, <1>5
<1>8. AfterSpawn(r, Len(q)).from = q[Len(q)].lo + StrideSize
  <2>1. q[Len(q)].lo = r.from + (Len(q) - 1) * StrideSize
    BY <1>1, <1>3
  <2> QED BY <2>1, <1>1, <1>3, <1>4
<1> QED BY <1>1, <1>6, <1>7, <1>8 DEF Adjoining, q

(* The loop's top decides for a backfill up to the finalized hint.         *)
LEMMA StartBackfillKeeps ==
  ASSUME StreamInvariant, TypeOK, StartBackfill
  PROVE  StreamInvariant'
<1> DEFINE r == [from |-> session.beg, top |-> Top]
           q == Spawn(r, StrideConcurrency)
<1>1. session \in SessionType /\ session.at = "top" /\ session.beg = Due /\ enriching = << >>
  BY DEF StartBackfill, AtTop, StreamInvariant, StreamTypes, InPlace, Positions
<1>2. Due \in Int /\ From <= Due /\ To \in Nat
  BY DueIs, RangeAssumption
<1>3. Top \in Int /\ Top <= To
  <2>1. Hint # NoNum
    BY <1>1, <1>2 DEF StartBackfill, Far, Top
  <2>2. Hint \in Nat
    BY <2>1, HeadsAssumption DEF Hint, TypeOK, View
  <2> QED BY <2>1, <2>2, <1>2 DEF Top, Lower
<1>4. r \in [from : Int, top : Int] /\ r.from = Due /\ r.top = Top
  BY <1>1, <1>2, <1>3
<1>5. strides' = q /\ ranges' = AfterSpawn(r, Len(q))
  BY DEF StartBackfill
<1>6. session' = [session EXCEPT !.at = "backfill", !.next = NoNum,
                                 !.poll_head = NoNum, !.poll_last_read = NoNum]
  BY DEF StartBackfill
<1>7. session' \in SessionType /\ session'.at = "backfill" /\ session'.beg = Due
  BY <1>1, <1>6 DEF SessionType, Positions
<1>8. UNCHANGED <<enriching, expected, delivered>>
  BY DEF StartBackfill
<1>9. ExpectsLast' /\ StreamIsChain' /\ Due' = Due /\ delivered' \in Seq(RangeBlock)
  BY <1>8, Unyielded
<1> HIDE DEF r
<1>10. /\ strides' \in Seq(StrideType)
       /\ ranges' \in [from : Int, top : Int] /\ ranges'.top = Top
       /\ \A i \in DOMAIN strides' : StrideHolds(strides'[i])
  BY <1>2, <1>3, <1>4, <1>5, Sizes, SpawnIs
<1>11. StreamTypes'
  BY <1>3, <1>7, <1>8, <1>9, <1>10 DEF StreamTypes, StreamInvariant
<1>12. StridesAdjoin'
  <2> SUFFICES ASSUME strides' # << >>
               PROVE  /\ Adjoining(strides', Due, Top)
                      /\ ranges'.from = strides'[Len(strides')].lo + StrideSize
    BY <1>7, <1>10 DEF StridesAdjoin, Adjoining
  <2> QED BY <1>2, <1>3, <1>4, <1>5, Sizes, SpawnAdjoins
<1>13. InPlace'
  BY <1>1, <1>7, <1>8, <1>9 DEF InPlace, Pipelined
<1> QED BY <1>7, <1>9, <1>10, <1>11, <1>12, <1>13 DEF StreamInvariant, ForkIsReal, FaultLeavesNoGap

(* The front stride is yielded; the ones behind it, and the next one       *)
(* spawned, go on where it ends.                                           *)
LEMMA TakeStrideKeeps ==
  ASSUME StreamInvariant, TakeStride
  PROVE  StreamInvariant'
<1> DEFINE more == Spawn(ranges, 1)
           m == Len(strides) - 1
           first == strides[1]
<1>1. session \in SessionType /\ session.at = "backfill" /\ session.beg = Due /\ enriching = << >>
  BY DEF TakeStride, StreamInvariant, StreamTypes, InPlace, Positions
<1>2. strides \in Seq(StrideType) /\ strides # << >> /\ Len(strides) \in Nat /\ m \in Nat
      /\ DOMAIN strides = 1 .. Len(strides) /\ 1 \in DOMAIN strides /\ Len(strides) \in DOMAIN strides
  BY DEF TakeStride, StreamInvariant, StreamTypes
<1>3. Head(strides) = first /\ StrideHolds(first) /\ Settled(first)
  BY <1>2 DEF TakeStride, StreamInvariant
<1>4. Adjoining(strides, Due, ranges.top) /\ ranges.from = strides[Len(strides)].lo + StrideSize
  BY <1>1, <1>2 DEF StreamInvariant, StridesAdjoin, Adjoining
<1>5. ranges \in [from : Int, top : Int] /\ ranges.top <= To /\ ranges.from \in Int /\ ranges.top \in Int
  BY DEF StreamInvariant, StreamTypes
<1>6. \A i \in DOMAIN strides : strides[i].lo \in Int /\ From <= strides[i].lo
  BY DEF StreamInvariant, StrideHolds, StrideType
<1>7. From <= ranges.from
  <2>1. strides[Len(strides)].lo \in Int /\ From <= strides[Len(strides)].lo
    BY <1>2, <1>6
  <2> QED BY <2>1, <1>4, Sizes, RangeAssumption
<1>8. /\ session' \in SessionType
      /\ delivered' \in Seq(RangeBlock) /\ ExpectsLast' /\ StreamIsChain'
      /\ ForkIsReal' /\ FaultLeavesNoGap'
      /\ \/ session'.at \in Ends_
         \/ session' = [session EXCEPT !.beg = first.hi + 1] /\ first.hi + 1 = Due'
  <2>1. first.lo = Due
    BY <1>4 DEF Adjoining
  <2>2. Acquired(first, session)
    BY <1>3 DEF TakeStride
  <2> HIDE DEF first
  <2> QED BY <2>1, <2>2, <1>1, <1>3, AcquiredKeeps DEF Positions
<1>9. strides' = Tail(strides) \o more /\ ranges' = AfterSpawn(ranges, Len(more)) /\ enriching' = enriching
  BY DEF TakeStride
<1>10. /\ more \in Seq(StrideType) /\ Len(more) <= 1 /\ Len(more) \in Nat
       /\ ranges' \in [from : Int, top : Int] /\ ranges'.top = ranges.top
       /\ \A i \in DOMAIN more : StrideHolds(more[i])
  BY <1>5, <1>7, <1>9, SpawnIs
<1>11. more # << >> => /\ Len(more) = 1 /\ Adjoining(more, ranges.from, ranges.top)
                       /\ ranges'.from = more[1].lo + StrideSize
  <2> HAVE more # << >>
  <2>1. Len(more) = 1
    BY <1>10, AtMostOne
  <2>2. Adjoining(more, ranges.from, ranges.top) /\ AfterSpawn(ranges, Len(more)).from = more[Len(more)].lo + StrideSize
    BY <1>5, <1>7, SpawnAdjoins
  <2> QED BY <2>1, <2>2, <1>9
<1>12. more = << >> => ranges'.from = ranges.from
  <2>1. ranges.from + 0 * StrideSize = ranges.from
    BY <1>5, Sizes
  <2>2. ranges'.from = ranges.from + Len(more) * StrideSize
    BY <1>5, <1>7, <1>9, SpawnIs
  <2> QED BY <2>1, <2>2
<1> HIDE DEF more, m, first
<1>13. Tail(strides) \in Seq(StrideType) /\ Len(Tail(strides)) = m
       /\ \A i \in 1 .. m : Tail(strides)[i] = strides[i + 1]
  BY <1>2, HeadTailProperties DEF m
<1>14. /\ strides' \in Seq(StrideType) /\ Len(strides') = m + Len(more)
       /\ \A i \in 1 .. m : strides'[i] = strides[i + 1]
       /\ more # << >> => strides'[m + 1] = more[1]
  <2>1. /\ strides' \in Seq(StrideType) /\ Len(strides') = m + Len(more)
        /\ \A i \in 1 .. m + Len(more) : strides'[i] = IF i <= m THEN Tail(strides)[i] ELSE more[i - m]
    BY <1>9, <1>10, <1>13, ConcatProperties
  <2>2. \A i \in 1 .. m : i \in 1 .. m + Len(more) /\ i <= m
    BY <1>2, <1>10
  <2>3. more # << >> => m + 1 \in 1 .. m + Len(more) /\ ~(m + 1 <= m) /\ (m + 1) - m = 1
    BY <1>2, <1>11
  <2> QED BY <2>1, <2>2, <2>3, <1>13
<1>15. \A i \in DOMAIN strides' : (i \in 1 .. m /\ i + 1 \in DOMAIN strides) \/ (i = m + 1 /\ more # << >>)
  <2> TAKE i \in DOMAIN strides'
  <2>1. i \in 1 .. m + Len(more)
    BY <1>14
  <2>2. Len(strides) = m + 1
    BY <1>2 DEF m
  <2>3. more = << >> => Len(more) = 0
    OBVIOUS
  <2> QED BY <2>1, <2>2, <2>3, <1>2, <1>10, <1>11
<1>16. \A i \in DOMAIN strides' : StrideHolds(strides'[i])
  <2> TAKE i \in DOMAIN strides'
  <2>1. \A j \in DOMAIN strides : StrideHolds(strides[j])
    BY DEF StreamInvariant
  <2>2. more # << >> => 1 \in DOMAIN more
    BY <1>10, <1>11
  <2> QED BY <2>1, <2>2, <1>10, <1>14, <1>15
<1>17. StreamTypes'
  BY <1>5, <1>8, <1>9, <1>10, <1>14 DEF StreamTypes, StreamInvariant
<1>18. CASE session'.at \in Ends_
  BY <1>8, <1>16, <1>17, <1>18, EndedOwesNothing DEF StreamInvariant
<1>19. CASE session' = [session EXCEPT !.beg = first.hi + 1] /\ first.hi + 1 = Due'
  <2>1. session'.at = "backfill" /\ session'.beg = Due'
    BY <1>1, <1>19 DEF SessionType
  <2>2. InPlace'
    BY <2>1, <1>1, <1>9 DEF InPlace, Pipelined
  <2>3. StridesAdjoin'
    <3> SUFFICES ASSUME strides' # << >>
                 PROVE  /\ Adjoining(strides', Due', ranges.top)
                        /\ ranges'.from = strides'[Len(strides')].lo + StrideSize
      BY <2>1, <1>10 DEF StridesAdjoin, Adjoining
    <3>0. Len(strides) = m + 1 /\ m \in Nat
      BY <1>2 DEF m
    <3>1. first.lo + StrideSize <= ranges.top /\ strides'[1].lo = first.lo + StrideSize
      <4>1. CASE m = 0
        <5>1. more # << >> /\ strides'[1] = more[1]
          BY <4>1, <1>2, <1>10, <1>14
        <5>2. 1 \in DOMAIN more /\ strides'[1].lo = ranges.from /\ strides'[1].lo <= ranges.top
          BY <5>1, <1>10, <1>11 DEF Adjoining
        <5> QED BY <5>2, <4>1, <3>0, <1>4 DEF first
      <4>2. CASE m # 0
        <5>1. 1 \in 1 .. m /\ strides'[1] = strides[1 + 1] /\ 2 \in DOMAIN strides /\ 1 \in 1 .. Len(strides) - 1
          BY <4>2, <3>0, <1>2, <1>14
        <5> QED BY <5>1, <1>4 DEF Adjoining, first
      <4> QED BY <4>1, <4>2
    <3>2. first.hi = first.lo + StrideSize - 1 /\ first.lo \in Int
      <4>1. first.lo \in Int /\ first.hi = StrideEnd(first.lo, ranges.top)
        BY <1>2, <1>4, <1>6 DEF Adjoining, first
      <4> QED BY <4>1, <3>1, <1>5, StrideEndIs
    <3>3. strides'[1].lo = Due'
      BY <3>1, <3>2, <1>19, Sizes
    <3>4. \A i \in DOMAIN strides' : strides'[i].hi = StrideEnd(strides'[i].lo, ranges.top)
                                     /\ strides'[i].lo <= ranges.top
      <4> TAKE i \in DOMAIN strides'
      <4>1. CASE i \in 1 .. m /\ i + 1 \in DOMAIN strides
        BY <4>1, <1>4, <1>14 DEF Adjoining
      <4>2. CASE i = m + 1 /\ more # << >>
        <5>1. 1 \in DOMAIN more
          BY <4>2, <1>10, <1>11
        <5> QED BY <5>1, <4>2, <1>11, <1>14 DEF Adjoining
      <4> QED BY <4>1, <4>2, <1>15
    <3>5. m >= 1 => strides'[m] = strides[Len(strides)]
      BY <3>0, <1>14
    <3>6. \A i \in 1 .. Len(strides') - 1 : strides'[i + 1].lo = strides'[i].lo + StrideSize
      <4> TAKE i \in 1 .. Len(strides') - 1
      <4>0. i \in 1 .. m
        BY <3>0, <1>10, <1>14
      <4>1. CASE i + 1 <= m
        <5>1. i + 1 \in 1 .. m /\ i + 1 \in 1 .. Len(strides) - 1
          BY <4>0, <4>1, <3>0
        <5>2. strides'[i + 1] = strides[(i + 1) + 1] /\ strides'[i] = strides[i + 1]
          BY <5>1, <4>0, <1>14
        <5> QED BY <5>1, <5>2, <1>4 DEF Adjoining
      <4>2. CASE i = m
        <5>1. more # << >>
          <6>1. more = << >> => Len(more) = 0
            OBVIOUS
          <6> QED BY <6>1, <4>0, <4>2, <3>0, <1>14
        <5>2. strides'[m + 1].lo = ranges.from
          BY <5>1, <1>11, <1>14 DEF Adjoining
        <5> QED BY <5>2, <4>0, <4>2, <3>0, <3>5, <1>4
      <4> QED BY <4>0, <4>1, <4>2, <3>0
    <3>7. ranges'.from = strides'[Len(strides')].lo + StrideSize
      <4>1. CASE more # << >>
        BY <4>1, <1>11, <1>14, <3>0
      <4>2. CASE more = << >>
        <5>1. Len(more) = 0 /\ Len(strides') = m /\ m >= 1
          <6>1. Len(more) = 0
            BY <4>2
          <6>2. Len(strides') = m /\ Len(strides') # 0
            BY <6>1, <1>14, <3>0
          <6> QED BY <6>1, <6>2, <3>0
        <5> QED BY <5>1, <4>2, <3>5, <1>4, <1>12
      <4> QED BY <4>1, <4>2
    <3> QED BY <3>3, <3>4, <3>6, <3>7 DEF Adjoining
  <2> QED BY <2>2, <2>3, <1>8, <1>16, <1>17 DEF StreamInvariant
<1> QED BY <1>8, <1>18, <1>19

(* The task of one stride takes a step, whether or not it is awaited.      *)
LEMMA StrideStepKeeps ==
  ASSUME StreamInvariant, NEW i, StrideStep(i)
  PROVE  StreamInvariant'
<1>1. i \in DOMAIN strides /\ strides \in Seq(StrideType) /\ StrideHolds(strides[i])
  BY DEF StrideStep, StreamInvariant, StreamTypes
<1>2. PICK s \in Steps(strides[i]) : strides' = [strides EXCEPT ![i] = s]
  BY DEF StrideStep
<1>3. StrideHolds(s) /\ s.lo = strides[i].lo /\ s.hi = strides[i].hi /\ s \in StrideType
  BY <1>1, StepsHold DEF StrideHolds
<1>4. strides' \in Seq(StrideType) /\ Len(strides') = Len(strides) /\ DOMAIN strides' = DOMAIN strides
      /\ strides'[i] = s /\ \A j \in DOMAIN strides : j # i => strides'[j] = strides[j]
  BY <1>1, <1>2, <1>3
<1>5. \A j \in DOMAIN strides : StrideHolds(strides'[j]) /\ strides'[j].lo = strides[j].lo
                                 /\ strides'[j].hi = strides[j].hi
  BY <1>3, <1>4 DEF StreamInvariant
<1>6. UNCHANGED <<session, ranges, enriching, expected, delivered>>
  BY DEF StrideStep
<1>7. ExpectsLast' /\ StreamIsChain' /\ Due' = Due /\ delivered' \in Seq(RangeBlock)
  BY <1>6, Unyielded
<1>8. StreamTypes'
  BY <1>4, <1>6, <1>7 DEF StreamInvariant, StreamTypes
<1>9. strides # << >> /\ Len(strides) \in Nat /\ 1 \in DOMAIN strides /\ Len(strides) \in DOMAIN strides
      /\ DOMAIN strides = 1 .. Len(strides)
  BY <1>1
<1>10. StridesAdjoin'
  <2> SUFFICES ASSUME session.at = "backfill"
               PROVE  /\ strides'[1].lo = session.beg
                      /\ \A j \in DOMAIN strides :
                           /\ strides'[j].hi = StrideEnd(strides'[j].lo, ranges.top)
                           /\ strides'[j].lo <= ranges.top
                      /\ \A j \in 1 .. Len(strides) - 1 : strides'[j + 1].lo = strides'[j].lo + StrideSize
                      /\ ranges.from = strides'[Len(strides)].lo + StrideSize
    BY <1>4, <1>6 DEF StridesAdjoin
  <2>1. /\ strides[1].lo = session.beg
        /\ \A j \in DOMAIN strides :
             strides[j].hi = StrideEnd(strides[j].lo, ranges.top) /\ strides[j].lo <= ranges.top
        /\ \A j \in 1 .. Len(strides) - 1 : strides[j + 1].lo = strides[j].lo + StrideSize
        /\ ranges.from = strides[Len(strides)].lo + StrideSize
    BY <1>9 DEF StreamInvariant, StridesAdjoin
  <2>2. \A j \in 1 .. Len(strides) - 1 : j \in DOMAIN strides /\ j + 1 \in DOMAIN strides
    BY <1>9
  <2> QED BY <2>1, <2>2, <1>5, <1>9
<1>11. InPlace'
  BY <1>4, <1>5, <1>6, <1>7, <1>9 DEF StreamInvariant, InPlace
<1> QED BY <1>4, <1>5, <1>6, <1>7, <1>8, <1>10, <1>11
        DEF StreamInvariant, ForkIsReal, FaultLeavesNoGap

(* A step that moves the loop's position, and neither yields nor touches   *)
(* what is in flight.                                                      *)
LEMMA MoveKeeps ==
  ASSUME StreamInvariant, session' \in SessionType, UNCHANGED <<enriching, expected, delivered>>,
         strides' \in Seq(StrideType), \A i \in DOMAIN strides' : StrideHolds(strides'[i]),
         ranges' \in [from : Int, top : Int], ranges'.top <= To,
         session'.at \notin {"backfill", "fork", "fault"}, InPlace'
  PROVE  StreamInvariant'
<1>1. ExpectsLast' /\ StreamIsChain' /\ Due' = Due /\ delivered' \in Seq(RangeBlock)
  BY Unyielded
<1>2. StreamTypes'
  BY <1>1 DEF StreamInvariant, StreamTypes
<1> QED BY <1>1, <1>2 DEF StreamInvariant, StridesAdjoin, ForkIsReal, FaultLeavesNoGap

(* What the invariant says where nothing of the strides changes.           *)
LEMMA StridesStay ==
  ASSUME StreamInvariant, UNCHANGED <<ranges, strides>>
  PROVE  /\ strides' \in Seq(StrideType) /\ \A i \in DOMAIN strides' : StrideHolds(strides'[i])
         /\ ranges' \in [from : Int, top : Int] /\ ranges'.top <= To
BY DEF StreamInvariant, StreamTypes

(* The stride of the finalized stream's poll begins at the height due.     *)
LEMMA PollStrideIs ==
  ASSUME StreamInvariant, session.at \in Positions, NEW h \in Int
  PROVE  LET q == PollStride(session, h)
         IN /\ q \in Seq(StrideType) /\ Len(q) = 1 /\ q[1].lo = Due
            /\ \A i \in DOMAIN q : StrideHolds(q[i])
<1> DEFINE hi == Lower(session.beg + StrideSize, Lower(h, To))
<1>1. session.beg = Due
  BY DEF StreamInvariant, InPlace
<1>2. Due \in Int /\ From <= Due /\ To \in Nat /\ StrideSize \in Nat
  BY DueIs, RangeAssumption, Sizes
<1>3. hi \in Int /\ hi <= To
  BY <1>1, <1>2 DEF Lower
<1> HIDE DEF hi
<1>4. StrideHolds(Stride(Due, hi)) /\ Stride(Due, hi).lo = Due
  BY <1>2, <1>3, NewStrideHolds
<1>5. PollStride(session, h) = <<Stride(Due, hi)>>
  BY <1>1 DEF PollStride, hi
<1> QED BY <1>4, <1>5 DEF StrideHolds

(* The steps of the finalized stream above the hint.                       *)
LEMMA PollKeeps ==
  ASSUME StreamInvariant, TypeOK
  PROVE  /\ PollFinalized => StreamInvariant'
         /\ \A h \in Heads : HeadAnswer(h.number) => StreamInvariant'
         /\ BackfillOver => StreamInvariant'
         /\ RangeDone => StreamInvariant'
<1>0. session \in SessionType
  BY DEF StreamInvariant, StreamTypes
<1>1. ASSUME session.at \in Positions, session' \in SessionType, session'.beg = session.beg,
             UNCHANGED <<ranges, enriching, expected, delivered>>,
             \/ session'.at \in {"top", "head", "done"} /\ UNCHANGED strides
             \/ session'.at = "poll" /\ \E h \in Int : strides' = PollStride(session, h)
      PROVE  StreamInvariant'
  <2>1. session.beg = Due /\ enriching = << >> /\ Due' = Due
    BY <1>1, Unyielded DEF StreamInvariant, InPlace
  <2>2. ranges' \in [from : Int, top : Int] /\ ranges'.top <= To
    BY <1>1 DEF StreamInvariant, StreamTypes
  <2>3. CASE session'.at \in {"top", "head", "done"} /\ UNCHANGED strides
    <3>1. InPlace'
      BY <2>1, <2>3, <1>1 DEF InPlace, Pipelined
    <3> QED BY <3>1, <2>3, <1>1, StridesStay, MoveKeeps
  <2>4. ASSUME NEW h \in Int, session'.at = "poll", strides' = PollStride(session, h)
        PROVE  StreamInvariant'
    <3>1. /\ strides' \in Seq(StrideType) /\ Len(strides') = 1 /\ strides'[1].lo = Due
          /\ \A i \in DOMAIN strides' : StrideHolds(strides'[i])
      BY <1>1, <2>4, PollStrideIs
    <3>2. InPlace'
      BY <2>1, <2>4, <1>1, <3>1 DEF InPlace, Pipelined
    <3> QED BY <3>1, <3>2, <2>2, <2>4, <1>1, MoveKeeps
  <2> QED BY <1>1, <2>3, <2>4
<1>2. ASSUME PollFinalized PROVE StreamInvariant'
  <2>1. session.at \in Positions /\ UNCHANGED <<ranges, enriching, expected, delivered>>
    BY <1>2 DEF PollFinalized, AtTop, Positions
  <2>2. CASE HeadKnown
    <3>1. session' = [session EXCEPT !.at = "poll"] /\ strides' = PollStride(session, session.poll_head)
      BY <1>2, <2>2 DEF PollFinalized
    <3>2. session.poll_head \in Int
      BY <1>0, <2>2 DEF HeadKnown, SessionType
    <3>3. session' \in SessionType /\ session'.beg = session.beg /\ session'.at = "poll"
      BY <1>0, <3>1 DEF SessionType, Positions
    <3> QED BY <3>1, <3>2, <3>3, <2>1, <1>1
  <2>3. CASE ~HeadKnown
    <3>1. session' = [session EXCEPT !.at = "head"] /\ UNCHANGED strides
      BY <1>2, <2>3 DEF PollFinalized
    <3>2. session' \in SessionType /\ session'.beg = session.beg /\ session'.at = "head"
      BY <1>0, <3>1 DEF SessionType, Positions
    <3> QED BY <3>1, <3>2, <2>1, <1>1
  <2> QED BY <2>2, <2>3
<1>3. ASSUME NEW h \in Heads, HeadAnswer(h.number) PROVE StreamInvariant'
  <2>0. h.number \in Int
    BY HeadsAssumption
  <2>1. session.at \in Positions /\ UNCHANGED <<ranges, enriching, expected, delivered>>
    BY <1>3 DEF HeadAnswer, Positions
  <2>2. \/ session' = [session EXCEPT !.at = "top"] /\ UNCHANGED strides
        \/ session' = [session EXCEPT !.at = "top", !.poll_head = h.number] /\ UNCHANGED strides
        \/ session' = [session EXCEPT !.at = "poll", !.poll_head = h.number]
             /\ strides' = PollStride(session, h.number)
    BY <1>3 DEF HeadAnswer
  <2>3. session' \in SessionType /\ session'.beg = session.beg
        /\ \/ session'.at = "top" /\ UNCHANGED strides
           \/ session'.at = "poll" /\ strides' = PollStride(session, h.number)
    BY <2>0, <2>2, <1>0 DEF SessionType, Positions
  <2> QED BY <2>0, <2>1, <2>3, <1>1
<1>4. ASSUME BackfillOver PROVE StreamInvariant'
  <2>1. session.at \in Positions /\ UNCHANGED <<strides, enriching, expected, delivered>>
        /\ session' = [session EXCEPT !.at = "top"] /\ ranges' = NoRanges
    BY <1>4 DEF BackfillOver, Positions
  <2>2. session' \in SessionType /\ session'.at = "top" /\ session'.beg = session.beg
    BY <2>1, <1>0 DEF SessionType, Positions
  <2>3. InPlace'
    BY <2>1, <2>2, Unyielded DEF StreamInvariant, InPlace, Pipelined
  <2>4. ranges' \in [from : Int, top : Int] /\ ranges'.top <= To
    BY <2>1, RangeAssumption DEF NoRanges
  <2>5. strides' \in Seq(StrideType) /\ \A i \in DOMAIN strides' : StrideHolds(strides'[i])
    BY <2>1 DEF StreamInvariant, StreamTypes
  <2> QED BY <2>1, <2>2, <2>3, <2>4, <2>5, MoveKeeps
<1>5. ASSUME RangeDone PROVE StreamInvariant'
  <2>1. session.at \in Positions /\ UNCHANGED <<ranges, strides, enriching, expected, delivered>>
        /\ session' = [session EXCEPT !.at = "done"]
    BY <1>5 DEF RangeDone, Positions
  <2>2. session' \in SessionType /\ session'.at = "done" /\ session'.beg = session.beg
    BY <2>1, <1>0 DEF SessionType, Ends_
  <2> QED BY <2>1, <2>2, <1>1
<1> QED BY <1>2, <1>3, <1>4, <1>5

(* The finalized stream joins the stride it polled for.                    *)
LEMMA TakePolledKeeps ==
  ASSUME StreamInvariant, TakePolled
  PROVE  StreamInvariant'
<1> DEFINE s == strides[1]
           then == [session EXCEPT !.at = "top",
                      !.poll_last_read = IF s.complete = << >> THEN @ ELSE Last(s.complete).number]
<1>1. session \in SessionType /\ session.at = "poll" /\ session.beg = Due /\ enriching = << >>
      /\ strides \in Seq(StrideType) /\ Len(strides) = 1 /\ s.lo = session.beg
  BY DEF TakePolled, StreamInvariant, StreamTypes, InPlace, Positions
<1>2. Head(strides) = s /\ 1 \in DOMAIN strides
  BY <1>1
<1>3. StrideHolds(s) /\ Settled(s)
  BY <1>2 DEF TakePolled, StreamInvariant
<1>4. s.complete # << >> => Last(s.complete).number \in Int
  <2> HAVE s.complete # << >>
  <2>1. s.complete \in Seq(RangeBlock)
    BY <1>3 DEF StrideHolds, StrideType
  <2>2. s.complete[Len(s.complete)] \in RangeBlock
    BY <2>1
  <2> QED BY <2>2, RangeBlockIs DEF Last
<1>5. then \in SessionType /\ then.at = "top" /\ then.at \in Positions
  BY <1>1, <1>4 DEF SessionType, Positions
<1>6. Acquired(s, then) /\ strides' = << >> /\ UNCHANGED <<ranges, enriching>>
  BY <1>2 DEF TakePolled
<1> HIDE DEF s, then
<1>7. /\ session' \in SessionType
      /\ delivered' \in Seq(RangeBlock) /\ ExpectsLast' /\ StreamIsChain'
      /\ ForkIsReal' /\ FaultLeavesNoGap'
      /\ \/ session'.at \in Ends_
         \/ session' = [then EXCEPT !.beg = s.hi + 1] /\ s.hi + 1 = Due'
  BY <1>1, <1>3, <1>5, <1>6, AcquiredKeeps
<1>8. StreamTypes' /\ \A i \in DOMAIN strides' : StrideHolds(strides'[i])
  BY <1>6, <1>7 DEF StreamInvariant, StreamTypes
<1>9. CASE session'.at \in Ends_
  BY <1>7, <1>8, <1>9, EndedOwesNothing DEF StreamInvariant
<1>10. CASE session' = [then EXCEPT !.beg = s.hi + 1] /\ s.hi + 1 = Due'
  <2>1. session'.at = "top" /\ session'.beg = Due'
    BY <1>5, <1>10 DEF SessionType
  <2>2. StridesAdjoin' /\ InPlace'
    BY <2>1, <1>1, <1>6 DEF StridesAdjoin, InPlace, Pipelined
  <2> QED BY <2>2, <1>7, <1>8 DEF StreamInvariant
<1> QED BY <1>7, <1>9, <1>10

(* Drain: the front of the pipeline, a block of the height due, is         *)
(* yielded, and what is behind it is due next.                             *)
LEMMA DrainKeeps ==
  ASSUME StreamInvariant, session.at \in Pipelined,
         NEW s \in SessionType, s.at = session.at, s.next = session.next, Drain(s),
         UNCHANGED <<ranges, strides>>
  PROVE  StreamInvariant'
<1> DEFINE front == enriching[1]
<1>1. enriching # << >> /\ Head(enriching).pc # "runs" /\ enriching' = Tail(enriching)
  BY DEF Drain
<1>2. enriching \in Seq(PipelineSlot)
  BY DEF StreamInvariant, StreamTypes
<1>3. Len(enriching) \in Nat /\ Len(enriching) # 0 /\ 1 \in DOMAIN enriching /\ Head(enriching) = front
  BY <1>1, <1>2, EmptySeq
<1>4. front.blk \in RangeBlock
  <2>1. front \in PipelineSlot
    BY <1>2, <1>3
  <2> HIDE DEF front
  <2> QED BY <2>1 DEF PipelineSlot
<1>5. session.next = Due + Len(enriching) /\ \A i \in DOMAIN enriching : enriching[i].blk.number = Due + i - 1
  BY DEF StreamInvariant, InPlace
<1>6. Due \in Int /\ From \in Int /\ Len(delivered) \in Nat
  BY DueIs
<1>7. /\ enriching' \in Seq(PipelineSlot)
      /\ Len(enriching') = Len(enriching) - 1
      /\ \A i \in 1 .. Len(enriching') : enriching'[i] = enriching[i + 1]
  BY <1>1, <1>2, HeadTailProperties
<1>8. /\ strides' \in Seq(StrideType) /\ (\A i \in DOMAIN strides' : StrideHolds(strides'[i]))
      /\ ranges' \in [from : Int, top : Int] /\ ranges'.top <= To
  BY StridesStay
<1>9. CASE Fails("error", NoNum)
  <2>1. /\ session' \in SessionType /\ session'.at \in Ends_
        /\ delivered' \in Seq(RangeBlock) /\ ExpectsLast' /\ StreamIsChain'
        /\ ForkIsReal' /\ FaultLeavesNoGap'
    BY <1>9, FailsKeeps
  <2> QED BY <2>1, <1>7, <1>8, EndedOwesNothing DEF StreamInvariant, StreamTypes
<1>10. CASE Yield(<<front.blk>>, s)
  <2> DEFINE one == <<front.blk>>
  <2>1. one \in Seq(RangeBlock) /\ Len(one) = 1 /\ one[1] = front.blk
    BY <1>4
  <2>2. front.blk.number = Due + 1 - 1
    BY <1>3, <1>5
  <2>3. Yield(one, s)
    BY <1>10
  <2> HIDE DEF one
  <2>4. RunFrom(one, Due)
    BY <2>1, <2>2 DEF RunFrom
  <2>5. delivered \in Seq(RangeBlock) /\ ExpectsLast /\ StreamIsChain
    BY DEF StreamInvariant, StreamTypes
  <2>6. /\ delivered' \in Seq(RangeBlock) /\ ExpectsLast' /\ StreamIsChain'
        /\ \/ session' = s /\ Len(delivered') = Len(delivered) + 1
           \/ /\ session' \in SessionType
              /\ session'.at = "fork" /\ session'.fault = From + Len(delivered') - 1
    <3>1. /\ delivered' \in Seq(RangeBlock) /\ ExpectsLast' /\ StreamIsChain'
          /\ \/ session' = s /\ Len(delivered') = Len(delivered) + Len(one)
             \/ /\ session' \in SessionType
                /\ session'.at = "fork" /\ session'.fault = From + Len(delivered') - 1
      BY <2>1, <2>3, <2>4, <2>5, YieldKeeps
    <3> QED BY <3>1, <2>1
  <2>7. session' \in SessionType
    BY <2>6
  <2>8. StreamTypes'
    BY <2>6, <2>7, <1>7, <1>8 DEF StreamTypes
  <2>9. CASE session' = s /\ Len(delivered') = Len(delivered) + 1
    <3>1. Due' = Due + 1
      BY <2>9, <1>6 DEF Due
    <3>2. session'.at \in Pipelined /\ session'.next = Due + Len(enriching)
      BY <2>9, <1>5
    <3>3. session'.next = Due' + Len(enriching')
      BY <3>1, <3>2, <1>3, <1>6, <1>7
    <3>4. ASSUME NEW i \in DOMAIN enriching' PROVE enriching'[i].blk.number = Due' + i - 1
      <4>1. i \in 1 .. Len(enriching') /\ i + 1 \in DOMAIN enriching /\ i \in Int
        BY <1>2, <1>3, <1>7
      <4>2. enriching'[i].blk.number = Due + (i + 1) - 1
        BY <4>1, <1>5, <1>7
      <4> QED BY <4>1, <4>2, <3>1, <1>6
    <3>5. InPlace' /\ StridesAdjoin'
      BY <3>2, <3>3, <3>4 DEF InPlace, StridesAdjoin, Pipelined, Positions
    <3>6. ForkIsReal' /\ FaultLeavesNoGap'
      BY <3>2 DEF ForkIsReal, FaultLeavesNoGap, Pipelined
    <3> QED BY <3>5, <3>6, <2>6, <2>8, <1>8 DEF StreamInvariant
  <2>10. CASE session'.at = "fork" /\ session'.fault = From + Len(delivered') - 1
    <3>1. ForkIsReal' /\ FaultLeavesNoGap' /\ session'.at \in Ends_
      BY <2>10 DEF ForkIsReal, FaultLeavesNoGap, Ends_
    <3> QED BY <3>1, <2>6, <2>8, <1>8, EndedOwesNothing DEF StreamInvariant
  <2> QED BY <2>6, <2>9, <2>10
<1> QED BY <1>3, <1>9, <1>10 DEF Drain

(* The steps that read the head of the chain.                              *)
LEMMA PipelineKeeps ==
  ASSUME StreamInvariant
  PROVE  /\ StartPolling => StreamInvariant'
         /\ DrainFront \/ DrainFailing => StreamInvariant'
         /\ LeavePolling => StreamInvariant'
         /\ \A b \in Branches : PollHit(b) => StreamInvariant'
         /\ PollNull => StreamInvariant'
         /\ PollIncoherent => StreamInvariant'
<1>0. session \in SessionType /\ enriching \in Seq(PipelineSlot)
  BY DEF StreamInvariant, StreamTypes
<1>1. Due \in Int /\ From <= Due /\ From \in Int /\ Len(enriching) \in Nat
  BY <1>0, DueIs
<1>2. session.at \in Pipelined =>
        /\ session.next = Due + Len(enriching) /\ session.next \in Int
        /\ \A i \in DOMAIN enriching : enriching[i].blk.number = Due + i - 1
  <2>1. session.at \in Pipelined =>
          /\ session.next = Due + Len(enriching)
          /\ \A i \in DOMAIN enriching : enriching[i].blk.number = Due + i - 1
    BY DEF StreamInvariant, InPlace
  <2> QED BY <2>1, <1>1
<1>3. ASSUME StartPolling PROVE StreamInvariant'
  <2>1. session.at \in Positions /\ session.beg = Due /\ enriching = << >>
        /\ UNCHANGED <<ranges, strides, enriching, expected, delivered>>
        /\ session' = [session EXCEPT !.at = "latest", !.next = session.beg,
                                      !.hot_streak = 0, !.incoherent = 0]
    BY <1>3 DEF StartPolling, AtTop, StreamInvariant, InPlace, Positions
  <2>2. session' \in SessionType /\ session'.at = "latest" /\ session'.next = Due
    BY <2>1, <1>0, <1>1 DEF SessionType, Pipelined
  <2>3. Due' = Due
    BY <2>1, Unyielded
  <2>4. InPlace'
    BY <2>1, <2>2, <2>3, <1>1 DEF InPlace, Positions
  <2> QED BY <2>1, <2>2, <2>4, StridesStay, MoveKeeps
<1>4. ASSUME DrainFront \/ DrainFailing PROVE StreamInvariant'
  <2>1. session.at \in Pipelined /\ Drain(session) /\ UNCHANGED <<ranges, strides>>
    BY <1>4 DEF DrainFront, DrainFailing, Polling, Pipelined
  <2> QED BY <2>1, <1>0, DrainKeeps
<1>5. ASSUME LeavePolling PROVE StreamInvariant'
  <2>1. session.at \in Pipelined /\ enriching = << >>
        /\ UNCHANGED <<ranges, strides, enriching, expected, delivered>>
        /\ session' = [session EXCEPT !.at = "top", !.beg = session.next]
    BY <1>5 DEF LeavePolling, Polling, Pipelined
  <2>2. session.next = Due
    <3>1. Len(enriching) = 0
      BY <2>1
    <3> QED BY <3>1, <2>1, <1>1, <1>2
  <2>3. session' \in SessionType /\ session'.at = "top" /\ session'.beg = Due
    BY <2>1, <2>2, <1>0, <1>1 DEF SessionType, Positions
  <2>4. InPlace'
    BY <2>1, <2>3, Unyielded DEF InPlace, Pipelined
  <2> QED BY <2>1, <2>3, <2>4, StridesStay, MoveKeeps
<1>6. ASSUME NEW b \in Branches, PollHit(b) PROVE StreamInvariant'
  <2> DEFINE e == [pc |-> "runs", blk |-> Block(session.next, b)]
  <2>1. session.at = "latest" /\ session.at \in Pipelined /\ ~(session.next > To)
    BY <1>6 DEF PollHit, MayPoll, Polling, MustDrain, Exhausted, Pipelined
  <2>2. session.next \in From .. To
    BY <2>1, <1>1, <1>2, RangeAssumption
  <2>3. Block(session.next, b) \in RangeBlock /\ Block(session.next, b).number = session.next
    BY <2>2 DEF RangeBlock, Block
  <2>4. enriching' = Append(enriching, e)
        /\ session' = [session EXCEPT !.next = @ + 1, !.hot_streak = @ + 1, !.incoherent = 0]
        /\ UNCHANGED <<ranges, strides, expected, delivered>>
    BY <1>6 DEF PollHit
  <2>5. session' \in SessionType /\ session'.at = "latest" /\ session'.next = session.next + 1
    <3>1. session.next + 1 \in Int /\ session.hot_streak + 1 \in Nat
      BY <2>2, <1>0 DEF SessionType
    <3> QED BY <3>1, <2>1, <2>4, <1>0 DEF SessionType
  <2>6. e \in PipelineSlot /\ e.blk.number = session.next
    BY <2>3 DEF PipelineSlot
  <2> HIDE DEF e
  <2>7. /\ enriching' \in Seq(PipelineSlot)
        /\ Len(enriching') = Len(enriching) + 1
        /\ (\A i \in 1 .. Len(enriching) : enriching'[i] = enriching[i])
        /\ enriching'[Len(enriching) + 1] = e
    BY <2>4, <2>6, <1>0
  <2>8. ExpectsLast' /\ StreamIsChain' /\ Due' = Due /\ delivered' \in Seq(RangeBlock)
    BY <2>4, Unyielded
  <2>9. /\ strides' \in Seq(StrideType) /\ (\A i \in DOMAIN strides' : StrideHolds(strides'[i]))
        /\ ranges' \in [from : Int, top : Int] /\ ranges'.top <= To
    BY <2>4, StridesStay
  <2>10. StreamTypes'
    BY <2>5, <2>7, <2>8, <2>9 DEF StreamTypes
  <2>11. session'.next = Due + Len(enriching')
    BY <2>1, <2>5, <2>7, <1>1, <1>2
  <2>12. \A i \in DOMAIN enriching' : enriching'[i].blk.number = Due + i - 1
    <3> TAKE i \in DOMAIN enriching'
    <3>0. i \in 1 .. Len(enriching) + 1
      BY <2>7
    <3>1. CASE i \in 1 .. Len(enriching)
      BY <3>1, <2>1, <2>7, <1>0, <1>2
    <3>2. CASE i = Len(enriching) + 1
      BY <3>2, <2>1, <2>6, <2>7, <1>1, <1>2
    <3> QED BY <3>0, <3>1, <3>2, <1>1
  <2>13. InPlace' /\ StridesAdjoin' /\ ForkIsReal' /\ FaultLeavesNoGap'
    BY <2>5, <2>8, <2>11, <2>12 DEF InPlace, StridesAdjoin, ForkIsReal, FaultLeavesNoGap, Positions
  <2> QED BY <2>8, <2>9, <2>10, <2>13 DEF StreamInvariant
<1>7. ASSUME session.at \in Pipelined, session' \in SessionType, session'.at \in Pipelined,
             session'.next = session.next, UNCHANGED <<ranges, strides, enriching, expected, delivered>>
      PROVE  StreamInvariant'
  <2>1. Due' = Due
    BY <1>7, Unyielded
  <2>2. InPlace'
    BY <2>1, <1>2, <1>7 DEF InPlace, Pipelined, Positions
  <2>3. session'.at \notin {"backfill", "fork", "fault"}
    BY <1>7 DEF Pipelined
  <2> QED BY <2>2, <2>3, <1>7, StridesStay, MoveKeeps
<1>8. ASSUME PollNull PROVE StreamInvariant'
  <2> DEFINE s == [session EXCEPT !.hot_streak = 0]
  <2>1. session.at \in Pipelined /\ UNCHANGED <<ranges, strides>>
    BY <1>8 DEF PollNull, MayPoll, Polling, Pipelined
  <2>2. s \in SessionType /\ s.at = session.at /\ s.next = session.next
    BY <1>0 DEF SessionType
  <2>3. Drain(s) \/ (session' = s /\ UNCHANGED <<enriching, expected, delivered>>)
    BY <1>8 DEF PollNull
  <2> HIDE DEF s
  <2> QED BY <2>1, <2>2, <2>3, <1>7, DrainKeeps
<1>9. ASSUME PollIncoherent PROVE StreamInvariant'
  <2>1. session.at = "latest" /\ UNCHANGED <<ranges, strides, enriching, expected, delivered>>
    BY <1>9 DEF PollIncoherent, MayPoll, Polling
  <2>2. \/ session' = [session EXCEPT !.at = "failing", !.hot_streak = 0]
        \/ session' = [session EXCEPT !.incoherent = @ + 1, !.hot_streak = 0]
    BY <1>9 DEF PollIncoherent
  <2>3. session' \in SessionType /\ session'.next = session.next /\ session'.at \in Pipelined
    <3>1. session.incoherent + 1 \in Nat
      BY <1>0 DEF SessionType
    <3>2. "failing" \in Pipelined /\ session.at \in Pipelined
      BY <2>1 DEF Pipelined
    <3>3. CASE session' = [session EXCEPT !.at = "failing", !.hot_streak = 0]
      BY <3>2, <3>3, <1>0 DEF SessionType
    <3>4. CASE session' = [session EXCEPT !.incoherent = @ + 1, !.hot_streak = 0]
      BY <3>1, <3>2, <3>4, <1>0 DEF SessionType
    <3> QED BY <2>2, <3>3, <3>4
  <2> QED BY <2>1, <2>3, <1>7 DEF Pipelined
<1> QED BY <1>3, <1>4, <1>5, <1>6, <1>8, <1>9

(* What is left: an enrichment ends, the stream fails or is dropped, or    *)
(* only the view moves.                                                    *)
LEMMA OtherStepsKeep ==
  ASSUME StreamInvariant
  PROVE  /\ \A i : EnrichEnds(i) => StreamInvariant'
         /\ FailIncoherent \/ HeadFails \/ PollFails => StreamInvariant'
         /\ Close => StreamInvariant'
         /\ UNCHANGED sessionVars => StreamInvariant'
<1>0. session \in SessionType /\ enriching \in Seq(PipelineSlot)
  BY DEF StreamInvariant, StreamTypes
<1>1. ASSUME NEW i, EnrichEnds(i) PROVE StreamInvariant'
  <2>1. i \in DOMAIN enriching /\ UNCHANGED <<session, ranges, strides, expected, delivered>>
    BY <1>1 DEF EnrichEnds
  <2>2. enriching[i] \in PipelineSlot
    BY <1>0, <2>1
  <2>3. PICK e : enriching' = [enriching EXCEPT ![i] = e]
                 /\ e \in PipelineSlot
                 /\ e.blk.number = enriching[i].blk.number
    <3>1. ASSUME NEW blk \in BlocksAt(enriching[i].blk.number),
                 enriching' = [enriching EXCEPT ![i] = [pc |-> "ok", blk |-> blk]]
          PROVE  \E e : enriching' = [enriching EXCEPT ![i] = e]
                        /\ e \in PipelineSlot
                        /\ e.blk.number = enriching[i].blk.number
      <4>1. enriching[i].blk.number \in From .. To
        BY <2>2, RangeBlockIs DEF PipelineSlot
      <4>2. blk \in RangeBlock /\ blk.number = enriching[i].blk.number
        BY <4>1, <3>1, AnswerInRange
      <4> DEFINE x == [pc |-> "ok", blk |-> blk]
      <4>3. x \in PipelineSlot /\ x.blk = blk /\ enriching' = [enriching EXCEPT ![i] = x]
        BY <4>2, <3>1 DEF PipelineSlot
      <4> HIDE DEF x
      <4> QED BY <4>2, <4>3
    <3>2. ASSUME enriching' = [enriching EXCEPT ![i].pc = "failed"]
          PROVE  \E e : enriching' = [enriching EXCEPT ![i] = e]
                        /\ e \in PipelineSlot
                        /\ e.blk.number = enriching[i].blk.number
      <4>1. enriching' = [enriching EXCEPT ![i] = [enriching[i] EXCEPT !.pc = "failed"]]
        BY <3>2
      <4>2. [enriching[i] EXCEPT !.pc = "failed"] \in PipelineSlot
            /\ [enriching[i] EXCEPT !.pc = "failed"].blk = enriching[i].blk
        BY <2>2 DEF PipelineSlot
      <4> QED BY <4>1, <4>2
    <3> QED BY <1>1, <3>1, <3>2 DEF EnrichEnds
  <2>4. /\ enriching' \in Seq(PipelineSlot)
        /\ Len(enriching') = Len(enriching) /\ DOMAIN enriching' = DOMAIN enriching
        /\ \A j \in DOMAIN enriching : enriching'[j] = IF j = i THEN e ELSE enriching[j]
    BY <1>0, <2>1, <2>3
  <2>5. \A j \in DOMAIN enriching : enriching'[j].blk.number = enriching[j].blk.number
    BY <2>3, <2>4
  <2>6. ExpectsLast' /\ StreamIsChain' /\ Due' = Due /\ delivered' \in Seq(RangeBlock)
    BY <2>1, Unyielded
  <2>7. StreamTypes'
    BY <2>1, <2>4, <2>6 DEF StreamInvariant, StreamTypes
  <2>8. enriching = << >> => enriching' = << >>
    BY <2>1
  <2>9. InPlace'
    BY <2>1, <2>4, <2>5, <2>6, <2>8 DEF StreamInvariant, InPlace
  <2> QED BY <2>1, <2>6, <2>7, <2>9 DEF StreamInvariant, StridesAdjoin, ForkIsReal, FaultLeavesNoGap
<1>2. ASSUME FailIncoherent \/ HeadFails \/ PollFails PROVE StreamInvariant'
  <2>1. PICK how \in {"fault", "error"}, n \in Int \cup {NoNum} :
          Fails(how, n) /\ (how = "fault" => n = Due)
    <3>1. CASE FailIncoherent
      <4>1. session.at \in Pipelined /\ Len(enriching) = 0 /\ Fails("fault", session.next)
        BY <3>1 DEF FailIncoherent, Pipelined
      <4>2. session.next = Due /\ Due \in Int
        BY <4>1, DueIs DEF StreamInvariant, InPlace
      <4> QED BY <4>1, <4>2
    <3>2. CASE HeadFails \/ PollFails
      BY <3>2 DEF HeadFails, PollFails
    <3> QED BY <1>2, <3>1, <3>2
  <2>2. UNCHANGED <<ranges, strides, enriching>>
    BY <1>2 DEF FailIncoherent, HeadFails, PollFails
  <2>3. /\ session' \in SessionType /\ session'.at \in Ends_
        /\ delivered' \in Seq(RangeBlock) /\ ExpectsLast' /\ StreamIsChain'
        /\ ForkIsReal' /\ FaultLeavesNoGap'
    BY <2>1, FailsKeeps
  <2>4. StreamTypes'
    BY <2>2, <2>3 DEF StreamInvariant, StreamTypes
  <2> QED BY <2>2, <2>3, <2>4, EndedOwesNothing DEF StreamInvariant
<1>3. ASSUME Close PROVE StreamInvariant'
  <2>1. session' = NoSession /\ ranges' = NoRanges /\ strides' = << >> /\ enriching' = << >>
        /\ delivered' = << >>
    BY <1>3 DEF Close
  <2>2. session' \in SessionType /\ session'.at = "closed"
    BY <2>1, RangeAssumption DEF NoSession, Opened, SessionType
  <2>3. ranges' \in [from : Int, top : Int] /\ ranges'.top <= To
    BY <2>1, RangeAssumption DEF NoRanges
  <2>4. StreamTypes'
    BY <2>1, <2>2, <2>3 DEF StreamTypes
  <2> QED BY <2>1, <2>2, <2>4, EndedOwesNothing
          DEF StreamInvariant, ExpectsLast, StreamIsChain, ForkIsReal, FaultLeavesNoGap
<1>4. ASSUME UNCHANGED sessionVars PROVE StreamInvariant'
  BY <1>4 DEF sessionVars, StreamInvariant, StreamTypes, ExpectsLast, StridesAdjoin, InPlace, Due,
              StreamIsChain, ForkIsReal, FaultLeavesNoGap
<1> QED BY <1>1, <1>2, <1>3, <1>4

(* Beside the stream the view takes only the steps of its own tasks.       *)
LEMMA ViewBeside == [IngestNext]_allVars => [Next]_vars
<1> SUFFICES ASSUME [IngestNext]_allVars PROVE [Next]_vars
  OBVIOUS
<1>1. CASE UNCHANGED allVars
  BY <1>1 DEF allVars
<1>2. ASSUME RefreshBeside PROVE [Next]_vars
  BY <1>2 DEF RefreshBeside, Next
<1>3. CASE Loop
  <2>1. CASE StartBackfill \/ StartPolling \/ PollFinalized
    BY <2>1, <1>2 DEF StartBackfill, StartPolling, PollFinalized
  <2>2. CASE RangeDone \/ TakeStride \/ BackfillOver \/ TakePolled \/ DrainFront \/ LeavePolling
             \/ DrainFailing \/ FailIncoherent
    BY <2>2 DEF RangeDone, TakeStride, BackfillOver, TakePolled, DrainFront, LeavePolling,
                DrainFailing, FailIncoherent
  <2> QED BY <1>3, <2>1, <2>2 DEF Loop
<1>4. CASE ViewStep
  BY <1>4 DEF ViewStep, Next
<1>5. CASE (\E i \in 1 .. StrideConcurrency : StrideStep(i)) \/ (\E i \in 1 .. PipelineDepth : EnrichEnds(i))
  BY <1>5 DEF StrideStep, EnrichEnds
<1>6. CASE HeadPolled \/ HeadFails \/ PolledHit \/ PollNull \/ PollIncoherent \/ PollFails \/ Close
  BY <1>6 DEF HeadPolled, HeadAnswer, HeadFails, PolledHit, PollHit, PollNull, PollIncoherent,
              PollFails, Close
<1> QED BY <1>1, <1>3, <1>4, <1>5, <1>6 DEF IngestNext

(* The view's invariant holds when a stream opens.                         *)
LEMMA ViewStarts == IngestInit => ViewInvariant
<1> SUFFICES ASSUME IngestInit PROVE ViewInvariant
  OBVIOUS
<1>1. observed \in View \cup {NoView} /\ (observed # NoView => observed.asked = 0)
  <2>1. ASSUME NEW h \in Heads, observed = [head |-> h, fresh |-> TRUE, asked |-> 0]
        PROVE  observed \in View /\ observed.asked = 0
    BY <2>1 DEF View
  <2>2. observed = NoView \/ \E h \in Heads : observed = [head |-> h, fresh |-> TRUE, asked |-> 0]
    BY DEF IngestInit
  <2> QED BY <2>1, <2>2
<1>2. task = [t \in Tasks |-> Idle] /\ refreshing = FALSE /\ epoch = 0
  BY DEF IngestInit
<1>3. TypeOK
  BY <1>1, <1>2 DEF TypeOK, Idle, Kinds
<1>4. \A t \in Tasks : task[t].kind = "none" /\ task[t].pc = "idle"
  BY <1>2 DEF Idle
<1> QED BY <1>1, <1>2, <1>3, <1>4 DEF ViewInvariant, ViewIsOfEpoch, FlagRaised, OneRefresh, LandedHolds, Runs

(* However strides and enrichments complete, whatever is answered and      *)
(* wherever the stream is dropped, what it acquires next is what is due    *)
(* (ingest_range), and the view beside it keeps its own invariant.         *)
THEOREM StreamInvariantHolds == IngestSpec => [](ViewInvariant /\ StreamInvariant)
<1>1. IngestInit => ViewInvariant /\ StreamInvariant
  BY ViewStarts, StreamStarts
<1>2. ViewInvariant /\ StreamInvariant /\ [IngestNext]_allVars => (ViewInvariant /\ StreamInvariant)'
  <2> SUFFICES ASSUME ViewInvariant, StreamInvariant, [IngestNext]_allVars
               PROVE  StreamInvariant'
    BY ViewBeside, ViewStepKeeps
  <2>1. TypeOK
    BY DEF ViewInvariant
  <2>2. CASE Loop
    BY <2>1, <2>2, StartBackfillKeeps, TakeStrideKeeps, PollKeeps, TakePolledKeeps, PipelineKeeps,
       OtherStepsKeep DEF Loop
  <2>3. CASE \E i \in 1 .. StrideConcurrency : StrideStep(i)
    BY <2>3, StrideStepKeeps
  <2>4. CASE \E i \in 1 .. PipelineDepth : EnrichEnds(i)
    BY <2>4, OtherStepsKeep
  <2>5. CASE HeadPolled \/ HeadFails \/ PolledHit \/ PollNull \/ PollIncoherent \/ PollFails \/ Close
    BY <2>1, <2>5, PollKeeps, PipelineKeeps, OtherStepsKeep DEF HeadPolled, PolledHit
  <2>6. CASE ViewStep \/ UNCHANGED allVars
    BY <2>6, OtherStepsKeep DEF ViewStep, allVars
  <2> QED BY <2>2, <2>3, <2>4, <2>5, <2>6 DEF IngestNext
<1> QED BY <1>1, <1>2, PTL DEF IngestSpec

(* Whatever order strides and enrichments complete in, the stream yields   *)
(* consecutive heights from From on, each block on the one before          *)
(* (ingest_range under ensure_continuity).                                 *)
THEOREM StreamChained == IngestSpec => []StreamIsChain
<1>1. StreamInvariant => StreamIsChain
  BY DEF StreamInvariant
<1> QED BY <1>1, StreamInvariantHolds, PTL

(* ensure_continuity reports a fork only at the height last delivered: the *)
(* strides and the pipeline never hand it a gap or a repeat.               *)
THEOREM ForksReal == IngestSpec => []ForkIsReal
<1>1. StreamInvariant => ForkIsReal
  BY DEF StreamInvariant
<1> QED BY <1>1, StreamInvariantHolds, PTL

(* A block that exhausts its retries ends the stream right above what was  *)
(* delivered (WP-11.5).                                                    *)
THEOREM FaultsAdjoin == IngestSpec => []FaultLeavesNoGap
<1>1. StreamInvariant => FaultLeavesNoGap
  BY DEF StreamInvariant
<1> QED BY <1>1, StreamInvariantHolds, PTL

(* Beside a stream too, the hint was asked for in the present epoch        *)
(* (finalized_head_hint).                                                  *)
THEOREM HintIsOfEpoch == IngestSpec => []ViewIsOfEpoch
<1>1. ViewInvariant => ViewIsOfEpoch
  BY DEF ViewInvariant
<1> QED BY <1>1, StreamInvariantHolds, PTL

(* Beside a stream too, the hint only climbs within an epoch               *)
(* (store_finalized_head).                                                 *)
THEOREM HintClimbs == IngestSpec => ViewClimbs
<1>1. ViewInvariant /\ [IngestNext]_allVars => [Climbs]_vars
  BY ViewBeside, StepClimbs
<1> QED BY <1>1, StreamInvariantHolds, PTL DEF IngestSpec, ViewClimbs, Climbs
=============================================================================
