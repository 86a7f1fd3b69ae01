--------------------------- MODULE BackfillProofs ---------------------------
(***************************************************************************)
(* The body of a response below the window is one chain, whole when it is  *)
(* complete: for every source, base, snapshot and channel size.            *)
(***************************************************************************)
EXTENDS Backfill, SequenceTheorems, TLAPS

(* check_chain_continuity against the base hash h.                         *)
ContinuesOn(h, p, next) ==
  IF p # NoBlock THEN IsChain(p, next) ELSE h # NoHash => next.parent_hash = h

(* Every block of bs continues the one before it, the first one p.         *)
ChainFrom(h, p, bs) ==
  \A i \in 1 .. Len(bs) : ContinuesOn(h, IF i = 1 THEN p ELSE bs[i - 1], bs[i])

Item == [ok : BOOLEAN, blocks : Seq(Block)]

(* What the producer checks is what the lemmas below speak of.             *)
LEMMA CheckIsChainFrom ==
  ASSUME NEW bs \in Seq(Block)
  PROVE  BatchContinues(bs) <=> ChainFrom(base_hash, prev, bs)
<1>1. DOMAIN bs = 1 .. Len(bs)
  OBVIOUS
<1>2. \A p, next : Continues(p, next) <=> ContinuesOn(base_hash, p, next)
  BY DEF Continues, ContinuesOn
<1> QED BY <1>1, <1>2 DEF BatchContinues, ChainFrom

(* The last block of two pieces in a row.                                  *)
LEMMA LastOfBoth ==
  ASSUME NEW s \in Seq(Block), NEW t \in Seq(Block), NEW p
  PROVE  LastOr(p, s \o t) = LastOr(LastOr(p, s), t)
<1>1. /\ Len(s) \in Nat /\ Len(t) \in Nat /\ Len(s \o t) = Len(s) + Len(t)
      /\ s \o t \in Seq(Block)
      /\ \A i \in 1 .. Len(t) : (s \o t)[Len(s) + i] = t[i]
  OBVIOUS
<1>2. CASE t = << >>
  <2>1. s \o t = s
    BY <1>2
  <2> QED BY <1>2, <2>1 DEF LastOr
<1>3. CASE t # << >>
  <2>1. Len(t) \in 1 .. Len(t) /\ s \o t # << >>
    BY <1>1, <1>3
  <2> QED BY <1>1, <1>3, <2>1 DEF LastOr
<1> QED BY <1>2, <1>3

(* Two pieces, the second continuing the first, are one chain.             *)
LEMMA ChainJoins ==
  ASSUME NEW h, NEW p, NEW s \in Seq(Block), NEW t \in Seq(Block),
         ChainFrom(h, p, s), ChainFrom(h, LastOr(p, s), t)
  PROVE  ChainFrom(h, p, s \o t)
<1>1. /\ Len(s) \in Nat /\ Len(t) \in Nat /\ Len(s \o t) = Len(s) + Len(t)
      /\ \A i \in 1 .. Len(t) : (s \o t)[Len(s) + i] = t[i]
      /\ \A i \in 1 .. Len(s) : (s \o t)[i] = s[i]
      /\ s = << >> <=> Len(s) = 0
  OBVIOUS
<1> DEFINE u == s \o t
<1> SUFFICES ASSUME NEW i \in 1 .. Len(u)
             PROVE  ContinuesOn(h, IF i = 1 THEN p ELSE u[i - 1], u[i])
  BY DEF ChainFrom
<1> HIDE DEF u
<1>2. CASE i <= Len(s)
  <2>1. i \in 1 .. Len(s) /\ (i # 1 => i - 1 \in 1 .. Len(s))
    BY <1>1, <1>2 DEF u
  <2>2. u[i] = s[i] /\ (i # 1 => u[i - 1] = s[i - 1])
    BY <1>1, <2>1 DEF u
  <2> QED BY <2>1, <2>2 DEF ChainFrom
<1>3. CASE i > Len(s)
  <2> DEFINE j == i - Len(s)
  <2>1. j \in 1 .. Len(t) /\ Len(s) + j = i /\ (j # 1 => j - 1 \in 1 .. Len(t)) /\ i \in Nat
    BY <1>1, <1>3 DEF u
  <2>2. u[i] = t[j]
    BY <1>1, <2>1 DEF u
  <2>3. ContinuesOn(h, IF j = 1 THEN LastOr(p, s) ELSE t[j - 1], t[j])
    BY <2>1 DEF ChainFrom
  <2>4. CASE j # 1
    <3>1. Len(s) + (j - 1) = i - 1 /\ i # 1
      BY <1>1, <2>1, <2>4
    <3>2. u[i - 1] = t[j - 1]
      BY <1>1, <2>1, <2>4, <3>1 DEF u
    <3> QED BY <2>2, <2>3, <2>4, <3>1, <3>2
  <2>5. CASE j = 1 /\ s # << >>
    <3>1. i - 1 = Len(s) /\ i # 1 /\ Len(s) \in 1 .. Len(s)
      BY <1>1, <2>1, <2>5
    <3>2. u[i - 1] = s[Len(s)] /\ LastOr(p, s) = s[Len(s)]
      BY <1>1, <2>5, <3>1 DEF u, LastOr
    <3> QED BY <2>2, <2>3, <2>5, <3>1, <3>2
  <2>6. CASE j = 1 /\ s = << >>
    <3>1. i = 1 /\ LastOr(p, s) = p
      BY <1>1, <2>1, <2>6 DEF LastOr
    <3> QED BY <2>2, <2>3, <2>6, <3>1
  <2> QED BY <2>4, <2>5, <2>6
<1> QED BY <1>1, <1>2, <1>3 DEF u

(* The beginning of a chain is one.                                        *)
LEMMA ChainBegins ==
  ASSUME NEW h, NEW p, NEW s \in Seq(Block), NEW t \in Seq(Block), ChainFrom(h, p, s \o t)
  PROVE  ChainFrom(h, p, s)
<1>1. /\ Len(s) \in Nat /\ Len(t) \in Nat /\ Len(s \o t) = Len(s) + Len(t)
      /\ \A i \in 1 .. Len(s) : (s \o t)[i] = s[i]
  OBVIOUS
<1> SUFFICES ASSUME NEW i \in 1 .. Len(s)
             PROVE  ContinuesOn(h, IF i = 1 THEN p ELSE s[i - 1], s[i])
  BY DEF ChainFrom
<1>2. i \in 1 .. Len(s \o t) /\ (i # 1 => i - 1 \in 1 .. Len(s))
  BY <1>1
<1>3. (s \o t)[i] = s[i] /\ (i # 1 => (s \o t)[i - 1] = s[i - 1])
  BY <1>1, <1>2
<1>4. ContinuesOn(h, IF i = 1 THEN p ELSE (s \o t)[i - 1], (s \o t)[i])
  BY <1>2 DEF ChainFrom
<1> QED BY <1>3, <1>4

(* A linked snapshot is a chain from a block its first block continues.    *)
LEMMA TailIsChain ==
  ASSUME NEW h, NEW p, NEW t \in Seq(Block), t # << >>, Linked(t), ContinuesOn(h, p, t[1])
  PROVE  ChainFrom(h, p, t)
<1> SUFFICES ASSUME NEW i \in 1 .. Len(t)
             PROVE  ContinuesOn(h, IF i = 1 THEN p ELSE t[i - 1], t[i])
  BY DEF ChainFrom
<1>1. CASE i = 1
  BY <1>1
<1>2. CASE i # 1
  <2> DEFINE j == i - 1
  <2>1. j \in 1 .. Len(t) - 1 /\ j + 1 = i /\ j \in 1 .. Len(t) /\ t[j] \in Block
    BY <1>2
  <2>2. IsChain(t[j], t[j + 1])
    BY <2>1 DEF Linked
  <2>3. t[j] # NoBlock
    BY <2>1, NoBlockAssumption
  <2> QED BY <1>2, <2>1, <2>2, <2>3 DEF ContinuesOn
<1> QED BY <1>1, <1>2

(* A whole snapshot at the end of a sequence is its suffix.                *)
LEMMA SuffixOf ==
  ASSUME NEW s \in Seq(Block), NEW t \in Seq(Block)
  PROVE  IsSuffix(t, s \o t)
<1> DEFINE u == s \o t
           rt == Reverse(t)
           ru == Reverse(u)
<1>1. /\ Len(s) \in Nat /\ Len(t) \in Nat /\ Len(u) = Len(s) + Len(t)
      /\ \A i \in 1 .. Len(t) : u[Len(s) + i] = t[i]
      /\ u \in Seq(Block)
  OBVIOUS
<1> HIDE DEF u
<1>2. /\ rt \in Seq(Block) /\ ru \in Seq(Block) /\ Len(rt) = Len(t) /\ Len(ru) = Len(u)
      /\ \A i \in 1 .. Len(t) : rt[i] = t[(Len(t) - i) + 1]
      /\ \A i \in 1 .. Len(u) : ru[i] = u[(Len(u) - i) + 1]
  <2>1. ASSUME NEW w \in Seq(Block)
        PROVE  /\ Reverse(w) \in Seq(Block) /\ Len(Reverse(w)) = Len(w)
               /\ \A i \in 1 .. Len(w) : Reverse(w)[i] = w[(Len(w) - i) + 1]
    <3> DEFINE r == [i \in 1 .. Len(w) |-> w[(Len(w) - i) + 1]]
    <3>1. \A i \in 1 .. Len(w) : (Len(w) - i) + 1 \in 1 .. Len(w)
      OBVIOUS
    <3>2. r \in [1 .. Len(w) -> Block] /\ Len(w) \in Nat
      BY <3>1
    <3>3. r \in Seq(Block) /\ Len(r) = Len(w)
      BY <3>2
    <3> QED BY <3>3 DEF Reverse
  <2> QED BY <1>1, <2>1
<1> HIDE DEF rt, ru
<1>3. \A i \in 1 .. Len(t) : ru[i] = rt[i]
  <2> TAKE i \in 1 .. Len(t)
  <2> DEFINE j == (Len(t) - i) + 1
  <2>1. j \in 1 .. Len(t) /\ (Len(u) - i) + 1 = Len(s) + j /\ i \in 1 .. Len(u)
    BY <1>1
  <2> QED BY <1>1, <1>2, <2>1
<1>4. SubSeq(rt, 1, Len(rt)) = SubSeq(ru, 1, Len(rt))
  <2>1. /\ Len(SubSeq(rt, 1, Len(rt))) = Len(t) /\ Len(SubSeq(ru, 1, Len(rt))) = Len(t)
        /\ SubSeq(rt, 1, Len(rt)) \in Seq(Block) /\ SubSeq(ru, 1, Len(rt)) \in Seq(Block)
        /\ \A i \in 1 .. Len(t) : SubSeq(rt, 1, Len(rt))[i] = rt[i] /\ SubSeq(ru, 1, Len(rt))[i] = ru[i]
    BY <1>1, <1>2
  <2> QED BY <1>1, <1>3, <2>1, SeqEqual
<1> QED BY <1>1, <1>2, <1>4 DEF IsSuffix, IsPrefix, rt, ru, u

-----------------------------------------------------------------------------
(* The invariant.                                                          *)

(* The pieces on their way: from what the response has taken, through the  *)
(* channel, to what the producer is sending, every piece continues the last*)
(* block before it, and the last block of all is the producer's prev.  The *)
(* ends e are the last blocks after each piece; empty batches and errors   *)
(* leave them where they are.                                              *)
FlowEnds(e, taken) ==
  /\ e[0] = LastOr(NoBlock, taken)
  /\ \A k \in 1 .. Len(channel) :
       /\ ChainFrom(base_hash, e[k - 1], channel[k].blocks)
       /\ e[k] = LastOr(e[k - 1], channel[k].blocks)
  /\ IF producer = "sending"
       THEN /\ ChainFrom(base_hash, e[Len(channel)], item.blocks)
            /\ prev = LastOr(e[Len(channel)], item.blocks)
       ELSE prev = e[Len(channel)]

Flow == \E e \in [0 .. Len(channel) -> Block \cup {NoBlock}] : FlowEnds(e, body \o ready)

(* Blocks before the snapshot, at least one, and then the snapshot.        *)
EndsWithTail(s) == \E first \in Seq(Block) : first # << >> /\ s = first \o tail

BackfillTypes ==
  /\ tail \in Seq(Block) /\ tail # << >> /\ Linked(tail)
  /\ body \in Seq(Block) /\ ready \in Seq(Block)
  /\ channel \in Seq(Item) /\ item \in Item
  /\ prev \in Block \cup {NoBlock}
  /\ receiver_open = (reading # "ended")

(* A producer that has ended under a reading response has either checked   *)
(* the splice or left an error in the channel.                             *)
SpliceChecked ==
  producer = "ended" /\ reading = "head" => SpliceHolds \/ \E k \in 1 .. Len(channel) : ~channel[k].ok

BackfillInvariant ==
  /\ BackfillTypes
  /\ ChainFrom(base_hash, NoBlock, body \o ready)
  /\ reading \in {"opening", "head"} => Flow
  /\ reading = "opening" => producer = "not_started"
  /\ SpliceChecked
  /\ reading = "tail" => EndsWithTail(body \o ready)
  /\ outcome = "complete" => reading = "ended" /\ EndsWithTail(body)

(* The invariant implies both properties.                                  *)
LEMMA InvariantIsEnough == BackfillInvariant => BodyIsChain /\ CompleteIsWhole
<1> SUFFICES ASSUME BackfillInvariant PROVE BodyIsChain /\ CompleteIsWhole
  OBVIOUS
<1>1. body \in Seq(Block) /\ tail \in Seq(Block) /\ ready \in Seq(Block)
  BY DEF BackfillInvariant, BackfillTypes
<1>2. ChainFrom(base_hash, NoBlock, body)
  BY <1>1, ChainBegins DEF BackfillInvariant
<1>3. ASSUME NEW i \in 1 .. Len(body) - 1 PROVE IsChain(body[i], body[i + 1])
  <2>1. i + 1 \in 1 .. Len(body) /\ i + 1 # 1 /\ (i + 1) - 1 = i /\ body[i] \in Block
    BY <1>1
  <2>2. ContinuesOn(base_hash, IF i + 1 = 1 THEN NoBlock ELSE body[(i + 1) - 1], body[i + 1])
    BY <1>2, <2>1 DEF ChainFrom
  <2>3. ContinuesOn(base_hash, body[i], body[i + 1])
    BY <2>1, <2>2
  <2> QED BY <2>1, <2>3, NoBlockAssumption DEF ContinuesOn
<1>4. ASSUME body # << >>, base_hash # NoHash PROVE body[1].parent_hash = base_hash
  <2>1. 1 \in 1 .. Len(body)
    BY <1>1, <1>4
  <2>2. ContinuesOn(base_hash, NoBlock, body[1])
    BY <1>2, <2>1 DEF ChainFrom
  <2> QED BY <1>4, <2>2 DEF ContinuesOn
<1>5. ASSUME outcome = "complete" PROVE IsSuffix(tail, body) /\ Len(body) > Len(tail)
  <2>1. PICK first \in Seq(Block) : first # << >> /\ body = first \o tail
    BY <1>5 DEF BackfillInvariant, EndsWithTail
  <2>2. Len(first \o tail) = Len(first) + Len(tail) /\ Len(first) \in Nat /\ Len(first) # 0
        /\ Len(tail) \in Nat
    BY <1>1, <2>1
  <2> QED BY <1>1, <2>1, <2>2, SuffixOf
<1> QED BY <1>3, <1>4, <1>5 DEF BodyIsChain, CompleteIsWhole

(* The end of the response keeps it, whatever the producer does meanwhile. *)
LEMMA ResponseOver ==
  ASSUME BackfillInvariant, NEW how, Over(how), how = "complete" => EndsWithTail(body),
         UNCHANGED <<base_hash, tail>>,
         prev' = prev, item' = item, channel' \in Seq(Item)
  PROVE  BackfillInvariant'
<1>1. /\ reading' = "ended" /\ outcome' = how /\ ready' = << >> /\ body' = body
      /\ receiver_open' = FALSE
  BY DEF Over
<1>2. body \in Seq(Block) /\ ready \in Seq(Block)
  BY DEF BackfillInvariant, BackfillTypes
<1>3. body' \o ready' = body
  BY <1>1, <1>2
<1>4. ChainFrom(base_hash, NoBlock, body)
  BY <1>2, ChainBegins DEF BackfillInvariant
<1>5. << >> \in Seq(Block)
  OBVIOUS
<1>6. BackfillTypes'
  BY <1>1, <1>5 DEF BackfillInvariant, BackfillTypes
<1> QED BY <1>1, <1>3, <1>4, <1>6 DEF BackfillInvariant, SpliceChecked, EndsWithTail

(* A step of the producer after the response is over.                      *)
LEMMA ProducerAlone ==
  ASSUME BackfillInvariant, UNCHANGED <<base_hash, tail, readerVars, channel, item, prev>>,
         reading = "ended"
  PROVE  BackfillInvariant'
BY DEF BackfillInvariant, BackfillTypes, readerVars, SpliceChecked, EndsWithTail

(* A step of the producer that the response does not see.                  *)
LEMMA ProducerStep ==
  ASSUME BackfillInvariant, UNCHANGED <<base_hash, tail, readerVars>>,
         channel' \in Seq(Item), item' \in Item, prev' \in Block \cup {NoBlock},
         reading = "head" => Flow', reading # "opening", SpliceChecked'
  PROVE  BackfillInvariant'
BY DEF BackfillInvariant, BackfillTypes, readerVars, EndsWithTail

(* The producer takes a batch, an error or nothing in hand to send.        *)
LEMMA TakeInHand ==
  ASSUME BackfillInvariant, producer = "pulling", UNCHANGED <<base_hash, tail, readerVars, channel>>,
         producer' = "sending", item' \in Item,
         ChainFrom(base_hash, prev, item'.blocks), prev' = LastOr(prev, item'.blocks)
  PROVE  BackfillInvariant'
<1>1. prev \in Block \cup {NoBlock} /\ item'.blocks \in Seq(Block) /\ channel \in Seq(Item)
  BY DEF BackfillInvariant, BackfillTypes, Item
<1>2. prev' \in Block \cup {NoBlock}
  <2>1. CASE item'.blocks = << >>
    BY <1>1, <2>1 DEF LastOr
  <2>2. CASE item'.blocks # << >>
    <3>1. Len(item'.blocks) \in 1 .. Len(item'.blocks)
      BY <1>1, <2>2
    <3> QED BY <1>1, <2>2, <3>1 DEF LastOr
  <2> QED BY <2>1, <2>2
<1>3. reading # "opening"
  BY DEF BackfillInvariant
<1>4. reading = "head" => Flow'
  <2> SUFFICES ASSUME reading = "head" PROVE Flow'
    OBVIOUS
  <2>1. PICK e \in [0 .. Len(channel) -> Block \cup {NoBlock}] : FlowEnds(e, body \o ready)
    BY DEF BackfillInvariant, Flow
  <2>2. prev = e[Len(channel)]
    BY <2>1 DEF FlowEnds
  <2>3. FlowEnds(e, body \o ready)'
    BY <2>1, <2>2 DEF FlowEnds, readerVars
  <2> QED BY <2>1, <2>3 DEF Flow
<1>5. SpliceChecked'
  BY DEF SpliceChecked
<1> QED BY <1>1, <1>2, <1>3, <1>4, <1>5, ProducerStep

(* Pulling: a batch that continues, one that does not, an error.           *)
LEMMA PullKeeps ==
  ASSUME BackfillInvariant, NEW blocks \in SourceBatches, Pull(blocks)
  PROVE  BackfillInvariant'
<1>1. /\ producer = "pulling" /\ producer' = "sending"
      /\ UNCHANGED <<base_hash, tail, readerVars, channel>>
  BY DEF Pull, Pulling, Sends
<1>2. blocks \in Seq(Block)
  BY SourceBatchesAssumption
<1>3. CASE BatchContinues(blocks)
  <2>1. item' = BatchItem(blocks) /\ prev' = LastOr(prev, blocks)
    BY <1>3 DEF Pull, Sends
  <2>2. item' \in Item /\ item'.blocks = blocks
    BY <1>2, <2>1 DEF BatchItem, Item
  <2>3. ChainFrom(base_hash, prev, blocks)
    BY <1>2, <1>3, CheckIsChainFrom
  <2> QED BY <1>1, <2>1, <2>2, <2>3, TakeInHand
<1>4. CASE ~BatchContinues(blocks)
  <2>1. item' = ErrorItem /\ prev' = prev
    BY <1>4 DEF Pull, Sends
  <2>2. item' \in Item /\ item'.blocks = << >>
    BY <2>1 DEF ErrorItem, Item
  <2>3. ChainFrom(base_hash, prev, << >>) /\ LastOr(prev, << >>) = prev
    BY DEF ChainFrom, LastOr
  <2> QED BY <1>1, <2>1, <2>2, <2>3, TakeInHand
<1> QED BY <1>3, <1>4

(* An error in hand stands for an empty piece.                             *)
LEMMA ErrorInHand ==
  ASSUME BackfillInvariant, producer = "pulling", UNCHANGED <<base_hash, tail, readerVars, channel, prev>>,
         Sends(ErrorItem)
  PROVE  BackfillInvariant'
<1>1. item' \in Item /\ item'.blocks = << >> /\ producer' = "sending"
  BY DEF Sends, ErrorItem, Item
<1>2. ChainFrom(base_hash, prev, << >>) /\ LastOr(prev, << >>) = prev
  BY DEF ChainFrom, LastOr
<1> QED BY <1>1, <1>2, TakeInHand

(* The source ends, or the splice holds: the flow is as it was.            *)
LEMMA FlowAsItWas ==
  ASSUME BackfillInvariant, producer = "pulling", producer' # "sending",
         UNCHANGED <<base_hash, tail, readerVars, channel, item, prev>>, SpliceChecked'
  PROVE  BackfillInvariant'
<1>1. channel \in Seq(Item) /\ item \in Item /\ prev \in Block \cup {NoBlock} /\ reading # "opening"
  BY DEF BackfillInvariant, BackfillTypes
<1>2. reading = "head" => Flow'
  <2> SUFFICES ASSUME reading = "head" PROVE Flow'
    OBVIOUS
  <2>1. PICK e \in [0 .. Len(channel) -> Block \cup {NoBlock}] : FlowEnds(e, body \o ready)
    BY DEF BackfillInvariant, Flow
  <2>2. FlowEnds(e, body \o ready)'
    BY <2>1 DEF FlowEnds, readerVars
  <2> QED BY <2>1, <2>2 DEF Flow
<1> QED BY <1>1, <1>2, ProducerStep

(* What was in hand is in the channel: its end becomes the last one.       *)
LEMMA DeliverKeeps ==
  ASSUME BackfillInvariant, Deliver
  PROVE  BackfillInvariant'
<1> DEFINE n == Len(channel)
<1>1. /\ producer = "sending" /\ channel' = Append(channel, item) /\ receiver_open
      /\ producer' = IF item.ok THEN "pulling" ELSE "ended"
      /\ UNCHANGED <<base_hash, tail, prev, item, readerVars>>
  BY DEF Deliver, sourceVars
<1>2. channel \in Seq(Item) /\ item \in Item /\ prev \in Block \cup {NoBlock} /\ n \in Nat
      /\ reading # "opening"
  BY <1>1 DEF BackfillInvariant, BackfillTypes
<1>3. /\ channel' \in Seq(Item) /\ Len(channel') = n + 1 /\ channel'[n + 1] = item
      /\ \A k \in 1 .. n : channel'[k] = channel[k]
  BY <1>1, <1>2
<1>4. reading = "head" => Flow'
  <2> SUFFICES ASSUME reading = "head" PROVE Flow'
    OBVIOUS
  <2>1. PICK e \in [0 .. n -> Block \cup {NoBlock}] : FlowEnds(e, body \o ready)
    BY DEF BackfillInvariant, Flow
  <2>2. PICK g \in [0 .. n + 1 -> Block \cup {NoBlock}] :
          g[n + 1] = prev /\ \A k \in 0 .. n : g[k] = e[k]
    <3> DEFINE g == [k \in 0 .. n + 1 |-> IF k = n + 1 THEN prev ELSE e[k]]
    <3>1. /\ g \in [0 .. n + 1 -> Block \cup {NoBlock}] /\ g[n + 1] = prev
          /\ \A k \in 0 .. n : g[k] = e[k]
      BY <1>2, <2>1
    <3> QED BY <3>1
  <2>3. ChainFrom(base_hash, e[n], item.blocks) /\ prev = LastOr(e[n], item.blocks)
    BY <1>1, <2>1 DEF FlowEnds
  <2>4. g[0] = LastOr(NoBlock, body \o ready)
    BY <1>2, <2>1, <2>2 DEF FlowEnds
  <2>5. ASSUME NEW k \in 1 .. n + 1
        PROVE  /\ ChainFrom(base_hash, g[k - 1], channel'[k].blocks)
               /\ g[k] = LastOr(g[k - 1], channel'[k].blocks)
    <3>1. CASE k = n + 1
      <4>1. k - 1 = n /\ g[k - 1] = e[n]
        BY <1>2, <2>2, <3>1
      <4> QED BY <1>3, <2>2, <2>3, <3>1, <4>1
    <3>2. CASE k # n + 1
      <4>1. k \in 1 .. n /\ k - 1 \in 0 .. n /\ k \in 0 .. n
        BY <1>2, <3>2
      <4> QED BY <1>3, <2>1, <2>2, <4>1 DEF FlowEnds
    <3> QED BY <3>1, <3>2
  <2>6. FlowEnds(g, body \o ready)'
    <3>1. producer' # "sending"
      BY <1>1
    <3> QED BY <1>1, <1>3, <2>2, <2>4, <2>5, <3>1 DEF FlowEnds, readerVars
  <2> QED BY <1>3, <2>2, <2>6 DEF Flow
<1>5. SpliceChecked'
  <2> SUFFICES ASSUME producer' = "ended" PROVE \E k \in 1 .. Len(channel') : ~channel'[k].ok
    BY DEF SpliceChecked
  <2>1. ~item.ok /\ n + 1 \in 1 .. Len(channel')
    BY <1>1, <1>2, <1>3
  <2> QED BY <1>3, <2>1
<1> QED BY <1>1, <1>2, <1>3, <1>4, <1>5, ProducerStep

(* A piece leaves the channel for the response.                            *)
LEMMA ReceiveKeeps ==
  ASSUME BackfillInvariant, Receive
  PROVE  BackfillInvariant'
<1> DEFINE n == Len(channel)
           piece == channel[1].blocks
<1>1. /\ reading = "head" /\ ready = << >> /\ channel # << >> /\ channel' = Tail(channel)
      /\ UNCHANGED <<base_hash, tail, producer, prev, item>>
  BY DEF Receive, sourceVars
<1>2. /\ channel \in Seq(Item) /\ item \in Item /\ prev \in Block \cup {NoBlock} /\ n \in Nat
      /\ body \in Seq(Block)
  BY DEF BackfillInvariant, BackfillTypes
<1>3. /\ n >= 1 /\ Head(channel) = channel[1] /\ channel[1] \in Item
      /\ channel' \in Seq(Item) /\ Len(channel') = n - 1
      /\ \A k \in 1 .. n - 1 : channel'[k] = channel[k + 1]
  BY <1>1, <1>2
<1>4. CASE ~channel[1].ok
  <2>1. \E how \in {"internal", "truncated"} : Over(how)
    BY <1>3, <1>4 DEF Receive
  <2> QED BY <1>1, <1>3, <2>1, ResponseOver
<1>5. CASE channel[1].ok
  <2>1. /\ ready' = piece
        /\ UNCHANGED <<reading, body, outcome, receiver_open>>
    BY <1>3, <1>5 DEF Receive
  <2>2. piece \in Seq(Block)
    BY <1>3 DEF Item
  <2>3. PICK e \in [0 .. n -> Block \cup {NoBlock}] : FlowEnds(e, body \o ready)
    BY <1>1 DEF BackfillInvariant, Flow
  <2>4. body \o ready = body /\ e[0] = LastOr(NoBlock, body)
    BY <1>1, <1>2, <2>3 DEF FlowEnds
  <2>5. ChainFrom(base_hash, e[0], piece) /\ e[1] = LastOr(e[0], piece)
    <3>1. 1 \in 1 .. n /\ 1 - 1 = 0
      BY <1>2, <1>3
    <3> QED BY <2>3, <3>1 DEF FlowEnds
  <2> HIDE DEF piece
  <2>6. ChainFrom(base_hash, NoBlock, body \o piece)
    BY <1>2, <2>2, <2>4, <2>5, ChainJoins DEF BackfillInvariant
  <2>7. PICK g \in [0 .. n - 1 -> Block \cup {NoBlock}] : \A k \in 0 .. n - 1 : g[k] = e[k + 1]
    <3> DEFINE g == [k \in 0 .. n - 1 |-> e[k + 1]]
    <3>1. /\ g \in [0 .. n - 1 -> Block \cup {NoBlock}]
          /\ \A k \in 0 .. n - 1 : g[k] = e[k + 1]
      BY <1>2, <1>3, <2>3
    <3> QED BY <3>1
  <2>8. g[0] = LastOr(NoBlock, body \o piece)
    <3>1. g[0] = e[1]
      BY <1>2, <1>3, <2>7
    <3> QED BY <1>2, <2>2, <2>4, <2>5, <3>1, LastOfBoth
  <2>9. ASSUME NEW k \in 1 .. n - 1
        PROVE  /\ ChainFrom(base_hash, g[k - 1], channel'[k].blocks)
               /\ g[k] = LastOr(g[k - 1], channel'[k].blocks)
    <3>1. k + 1 \in 1 .. n /\ (k + 1) - 1 = k /\ k - 1 \in 0 .. n - 1 /\ (k - 1) + 1 = k /\ k \in 0 .. n - 1
      BY <1>2
    <3>2. g[k - 1] = e[k] /\ g[k] = e[k + 1] /\ channel'[k] = channel[k + 1]
      BY <1>3, <2>7, <3>1
    <3>3. /\ ChainFrom(base_hash, e[(k + 1) - 1], channel[k + 1].blocks)
          /\ e[k + 1] = LastOr(e[(k + 1) - 1], channel[k + 1].blocks)
      BY <2>3, <3>1 DEF FlowEnds
    <3> QED BY <3>1, <3>2, <3>3
  <2>10. g[Len(channel')] = e[n]
    <3>1. n - 1 \in 0 .. n - 1 /\ (n - 1) + 1 = n
      BY <1>2, <1>3
    <3> QED BY <1>3, <2>7, <3>1
  <2>11. FlowEnds(g, body \o ready)'
    BY <1>1, <1>3, <2>1, <2>3, <2>8, <2>9, <2>10 DEF FlowEnds
  <2>12. Flow'
    BY <1>3, <2>7, <2>11 DEF Flow
  <2>13. SpliceChecked'
    <3> SUFFICES ASSUME producer = "ended" PROVE SpliceHolds' \/ \E k \in 1 .. n - 1 : ~channel'[k].ok
      BY <1>1, <1>3 DEF SpliceChecked
    <3>1. CASE SpliceHolds
      BY <1>1, <3>1 DEF SpliceHolds, Continues
    <3>2. ASSUME NEW k \in 1 .. n, ~channel[k].ok PROVE \E j \in 1 .. n - 1 : ~channel'[j].ok
      <4>1. k # 1
        BY <1>5, <3>2
      <4>2. k - 1 \in 1 .. n - 1 /\ (k - 1) + 1 = k
        BY <1>2, <4>1
      <4>3. ~channel'[k - 1].ok
        BY <1>3, <3>2, <4>2
      <4> QED BY <4>2, <4>3
    <3> QED BY <1>1, <3>1, <3>2 DEF BackfillInvariant, SpliceChecked
  <2>14. BackfillTypes'
    BY <1>1, <1>3, <2>1, <2>2 DEF BackfillInvariant, BackfillTypes
  <2> QED BY <1>1, <2>1, <2>6, <2>12, <2>13, <2>14 DEF BackfillInvariant
<1> QED BY <1>4, <1>5

(* On to the snapshot: the producer has checked that it splices.           *)
LEMMA HeadDoneKeeps ==
  ASSUME BackfillInvariant, HeadDone
  PROVE  BackfillInvariant'
<1>1. /\ reading = "head" /\ ready = << >> /\ channel = << >> /\ producer = "ended"
      /\ reading' = "tail" /\ ready' = tail /\ body' = body
      /\ UNCHANGED <<base_hash, tail, producer, prev, item, channel, outcome, receiver_open>>
  BY DEF HeadDone, sourceVars
<1>2. /\ body \in Seq(Block) /\ tail \in Seq(Block) /\ tail # << >> /\ Linked(tail)
      /\ outcome # "complete" /\ Len(channel) = 0
  BY <1>1 DEF BackfillInvariant, BackfillTypes
<1>3. SpliceHolds
  <2>1. SpliceHolds \/ \E k \in 1 .. Len(channel) : ~channel[k].ok
    BY <1>1 DEF BackfillInvariant, SpliceChecked
  <2> QED BY <1>2, <2>1
<1>4. PICK e \in [0 .. Len(channel) -> Block \cup {NoBlock}] : FlowEnds(e, body \o ready)
  BY <1>1 DEF BackfillInvariant, Flow
<1>5. body \o ready = body
  BY <1>1, <1>2
<1>6. prev = LastOr(NoBlock, body)
  BY <1>1, <1>2, <1>4, <1>5 DEF FlowEnds
<1>7. body # << >> /\ ContinuesOn(base_hash, LastOr(NoBlock, body), tail[1])
  BY <1>3, <1>6 DEF SpliceHolds, LastOr, Continues, ContinuesOn
<1>8. ChainFrom(base_hash, LastOr(NoBlock, body), tail)
  BY <1>2, <1>7, TailIsChain
<1>9. ChainFrom(base_hash, NoBlock, body \o tail)
  BY <1>2, <1>5, <1>8, ChainJoins DEF BackfillInvariant
<1>10. EndsWithTail(body \o tail)
  BY <1>2, <1>7 DEF EndsWithTail
<1>11. BackfillTypes'
  BY <1>1, <1>2 DEF BackfillInvariant, BackfillTypes
<1> QED BY <1>1, <1>2, <1>9, <1>10, <1>11 DEF BackfillInvariant, SpliceChecked, EndsWithTail

(* Writing a record moves it from what is ready to the body.               *)
LEMMA WriteKeeps ==
  ASSUME BackfillInvariant, Write
  PROVE  BackfillInvariant'
<1>1. /\ reading \in {"head", "tail"} /\ ready # << >>
      /\ body' = Append(body, Head(ready)) /\ ready' = Tail(ready)
      /\ UNCHANGED <<base_hash, tail, producer, prev, item, channel, reading, outcome, receiver_open>>
  BY DEF Write, sourceVars
<1>2. body \in Seq(Block) /\ ready \in Seq(Block)
  BY DEF BackfillInvariant, BackfillTypes
<1>3. body' \in Seq(Block) /\ ready' \in Seq(Block)
  BY <1>1, <1>2
<1>4. body' \o ready' = body \o ready
  <2>1. /\ Len(ready) \in Nat /\ Len(ready) >= 1 /\ Len(body) \in Nat
        /\ Len(body') = Len(body) + 1 /\ Len(ready') = Len(ready) - 1
        /\ \A i \in 1 .. Len(body) : body'[i] = body[i]
        /\ body'[Len(body) + 1] = ready[1]
        /\ \A i \in 1 .. Len(ready) - 1 : ready'[i] = ready[i + 1]
    BY <1>1, <1>2
  <2> DEFINE u == body \o ready
             v == body' \o ready'
  <2>2. /\ u \in Seq(Block) /\ Len(u) = Len(body) + Len(ready)
        /\ \A i \in 1 .. Len(body) : u[i] = body[i]
        /\ \A i \in 1 .. Len(ready) : u[Len(body) + i] = ready[i]
    BY <1>2
  <2>3. /\ v \in Seq(Block) /\ Len(v) = Len(body') + Len(ready')
        /\ \A i \in 1 .. Len(body') : v[i] = body'[i]
        /\ \A i \in 1 .. Len(ready') : v[Len(body') + i] = ready'[i]
    BY <1>3
  <2> HIDE DEF u, v
  <2>4. ASSUME NEW i \in 1 .. Len(u) PROVE v[i] = u[i]
    <3>1. CASE i <= Len(body)
      BY <2>1, <2>2, <2>3, <3>1
    <3>2. CASE i = Len(body) + 1
      BY <2>1, <2>2, <2>3, <3>2
    <3>3. CASE i > Len(body) + 1
      <4> DEFINE j == i - Len(body)
      <4>1. /\ j \in 1 .. Len(ready) /\ Len(body) + j = i
            /\ j - 1 \in 1 .. Len(ready') /\ Len(body') + (j - 1) = i /\ (j - 1) + 1 = j
            /\ j - 1 \in 1 .. Len(ready) - 1
        BY <2>1, <2>2, <3>3
      <4>2. u[i] = ready[j] /\ v[i] = ready'[j - 1] /\ ready'[j - 1] = ready[j]
        BY <2>1, <2>2, <2>3, <4>1
      <4> QED BY <4>2
    <3> QED BY <2>1, <2>2, <3>1, <3>2, <3>3
  <2>5. Len(u) = Len(v)
    BY <2>1, <2>2, <2>3
  <2>6. u = v
    BY <2>2, <2>3, <2>4, <2>5, SeqEqual
  <2> QED BY <2>6 DEF u, v
<1>5. Flow => Flow'
  BY <1>1, <1>4 DEF Flow, FlowEnds
<1>6. outcome # "complete"
  BY <1>1 DEF BackfillInvariant
<1>7. BackfillTypes'
  BY <1>1, <1>3 DEF BackfillInvariant, BackfillTypes
<1>8. SpliceChecked'
  BY <1>1 DEF BackfillInvariant, SpliceChecked, SpliceHolds, Continues
<1>9. ChainFrom(base_hash, NoBlock, body \o ready)'
  BY <1>1, <1>4 DEF BackfillInvariant
<1>10. reading' = "tail" => EndsWithTail(body \o ready)'
  BY <1>1, <1>4 DEF BackfillInvariant, EndsWithTail
<1> QED BY <1>1, <1>5, <1>6, <1>7, <1>8, <1>9, <1>10 DEF BackfillInvariant

(* Every behaviour keeps the invariant.                                    *)
THEOREM BackfillInvariantHolds == Spec => []BackfillInvariant
<1>1. Init => BackfillInvariant
  <2> SUFFICES ASSUME Init PROVE BackfillInvariant
    OBVIOUS
  <2>1. BackfillTypes
    <3>1. ErrorItem \in Item
      BY DEF ErrorItem, Item
    <3>2. tail \in Seq(Block) /\ tail # << >> /\ Linked(tail)
      BY TailsAssumption DEF Init
    <3>3. << >> \in Seq(Block) /\ << >> \in Seq(Item)
      OBVIOUS
    <3>4. receiver_open = TRUE /\ (reading # "ended") = TRUE
      BY DEF Init
    <3> QED BY <3>1, <3>2, <3>3, <3>4 DEF Init, BackfillTypes
  <2>2. /\ body = << >> /\ ready = << >> /\ channel = << >> /\ prev = NoBlock
        /\ producer = "not_started" /\ reading = "opening" /\ outcome = "none"
    BY DEF Init
  <2>3. body \o ready = << >> /\ Len(channel) = 0
    BY <2>2
  <2>4. ChainFrom(base_hash, NoBlock, << >>)
    BY DEF ChainFrom
  <2>5. Flow
    <3> DEFINE e == [k \in 0 .. 0 |-> NoBlock]
    <3>1. e \in [0 .. Len(channel) -> Block \cup {NoBlock}] /\ e[0] = NoBlock
      BY <2>3
    <3> HIDE DEF e
    <3>2. FlowEnds(e, body \o ready)
      BY <2>2, <2>3, <3>1 DEF FlowEnds, LastOr
    <3> QED BY <3>1, <3>2 DEF Flow
  <2> QED BY <2>1, <2>2, <2>3, <2>4, <2>5 DEF BackfillInvariant, SpliceChecked
<1>2. BackfillInvariant /\ [Next]_vars => BackfillInvariant'
  <2> SUFFICES ASSUME BackfillInvariant, [Next]_vars PROVE BackfillInvariant'
    OBVIOUS
  <2>0. channel \in Seq(Item) /\ item \in Item /\ (receiver_open <=> reading # "ended")
    BY DEF BackfillInvariant, BackfillTypes
  <2>1. ASSUME NEW how \in {"internal", "conflict", "empty", "disconnected"}, OpeningFails(how)
        PROVE  BackfillInvariant'
    <3>1. Over(how) /\ UNCHANGED <<base_hash, tail, prev, item, channel>>
      BY <2>1 DEF OpeningFails
    <3>2. how # "complete"
      OBVIOUS
    <3> QED BY <2>0, <3>1, <3>2, ResponseOver
  <2>2. ASSUME NEW blocks \in SourceBatches, OpenWithBatch(blocks) PROVE BackfillInvariant'
    <3>1. /\ reading = "opening" /\ producer = "not_started" /\ producer' = "pulling" /\ reading' = "head"
          /\ UNCHANGED <<base_hash, tail, prev, item, channel, ready, body, outcome, receiver_open>>
      BY <2>2 DEF OpenWithBatch, BackfillInvariant
    <3>2. Flow => Flow'
      BY <3>1 DEF Flow, FlowEnds
    <3>3. BackfillTypes'
      BY <3>1 DEF BackfillInvariant, BackfillTypes
    <3> QED BY <3>1, <3>2, <3>3 DEF BackfillInvariant, SpliceChecked
  <2>3. ASSUME NEW blocks \in SourceBatches, Pull(blocks) PROVE BackfillInvariant'
    BY <2>3, PullKeeps
  <2>4. CASE SourceFails
    BY <2>4, ErrorInHand DEF SourceFails, Pulling
  <2>5. CASE SourceEnds
    <3>1. /\ producer = "pulling" /\ producer' = "pulling"
          /\ UNCHANGED <<base_hash, tail, readerVars, channel, item, prev>>
      BY <2>5 DEF SourceEnds, Pulling
    <3>2. SpliceChecked'
      BY <3>1 DEF SpliceChecked
    <3> QED BY <3>1, <3>2, FlowAsItWas
  <2>6. CASE Reap \/ SendFails
    BY <2>0, <2>6, ProducerAlone DEF Reap, SendFails
  <2>7. CASE Deliver
    BY <2>7, DeliverKeeps
  <2>8. CASE Splice
    <3>1. /\ producer = "pulling"
          /\ UNCHANGED <<base_hash, tail, readerVars, channel, prev>>
      BY <2>8 DEF Splice, sourceVars
    <3>2. CASE SpliceHolds
      <4>1. producer' = "ended" /\ item' = item
        BY <2>8, <3>2 DEF Splice
      <4>2. SpliceChecked'
        BY <3>1, <3>2 DEF SpliceChecked, SpliceHolds, Continues
      <4> QED BY <3>1, <4>1, <4>2, FlowAsItWas
    <3>3. CASE ~SpliceHolds
      <4>1. Sends(ErrorItem)
        BY <2>8, <3>3 DEF Splice
      <4> QED BY <3>1, <4>1, ErrorInHand
    <3> QED BY <3>2, <3>3
  <2>9. CASE Receive
    BY <2>9, ReceiveKeeps
  <2>10. CASE HeadDone
    BY <2>10, HeadDoneKeeps
  <2>11. CASE Write
    BY <2>11, WriteKeeps
  <2>12. CASE Complete
    <3>1. /\ reading = "tail" /\ ready = << >> /\ Over("complete")
          /\ UNCHANGED <<base_hash, tail, prev, item, channel>>
      BY <2>12 DEF Complete, sourceVars
    <3>2. body \o ready = body
      BY <3>1 DEF BackfillInvariant, BackfillTypes
    <3>3. EndsWithTail(body)
      BY <3>1, <3>2 DEF BackfillInvariant
    <3> QED BY <2>0, <3>1, <3>3, ResponseOver
  <2>13. ASSUME NEW how \in {"empty", "disconnected", "internal"}, CutShort(how)
         PROVE  BackfillInvariant'
    <3>1. PICK end \in {"empty", "disconnected", "internal", "truncated"} : Over(end)
      BY <2>13 DEF CutShort
    <3>2. UNCHANGED <<base_hash, tail, prev, item, channel>> /\ end # "complete"
      BY <2>13 DEF CutShort, sourceVars
    <3> QED BY <2>0, <3>1, <3>2, ResponseOver
  <2>14. CASE UNCHANGED vars
    BY <2>14 DEF vars, sourceVars, readerVars, BackfillInvariant, BackfillTypes, Flow, FlowEnds,
                 SpliceChecked, SpliceHolds, Continues, EndsWithTail
  <2> QED BY <2>1, <2>2, <2>3, <2>4, <2>5, <2>6, <2>7, <2>8, <2>9, <2>10, <2>11, <2>12, <2>13, <2>14
          DEF Next
<1> QED BY <1>1, <1>2, PTL DEF Spec

(* INV-20: the records written are one chain on the base the client named. *)
THEOREM BodyChained == Spec => []BodyIsChain
BY InvariantIsEnough, BackfillInvariantHolds, PTL

(* RP-8/INV-27: a complete body ends with the whole snapshot, after at     *)
(* least one block below it.                                               *)
THEOREM CompleteWhole == Spec => []CompleteIsWhole
BY InvariantIsEnough, BackfillInvariantHolds, PTL
=============================================================================
