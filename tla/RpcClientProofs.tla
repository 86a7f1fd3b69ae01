-------------------------- MODULE RpcClientProofs --------------------------
(***************************************************************************)
(* A request that succeeds answers every call with its own answer, for     *)
(* every number of calls, batch size, number of permits and of retries,    *)
(* every pattern of failures and every order of the server's answers.      *)
(***************************************************************************)
EXTENDS RpcClient, WsTransport, FiniteSetTheorems, WellFoundedInduction, TLAPS

Settled(i) == results[i] \in {i, CallFailed}

(* The calls of chunk k.                                                   *)
InChunk(i, k) == (k - 1) * config.max_batch < i /\ i <= k * config.max_batch

JobState ==
  [chunk : Nat, lo : Int, hi : Int, attempt : Nat, pc : {"rate", "permit", "sent"}]

(* A job is a part of a chunk that was begun and not yet collected.        *)
JobsInChunks ==
  \A j \in jobs :
    /\ j.chunk > taken /\ j.chunk <= started
    /\ (j.chunk - 1) * config.max_batch < j.lo /\ j.hi <= j.chunk * config.max_batch

TypeOK ==
  /\ config \in [capacity : Nat, max_batch : Nat \ {0}, per_window : Nat, internal : BOOLEAN]
  /\ started \in Nat /\ taken \in 0 .. started /\ broken \subseteq Nat
  /\ jobs \subseteq JobState
  /\ DOMAIN results = Indices
  /\ outcome \in {"none", "ok", "failed", "dropped"}

(* While the request lives no call is lost: each call of a chunk that was  *)
(* begun is settled, in some job, or in a chunk that failed as a whole.    *)
NoCallLost ==
  \A i \in Indices :
    i <= started * config.max_batch =>
      \/ Settled(i)
      \/ \E j \in jobs : j.lo <= i /\ i <= j.hi
      \/ \E k \in broken : InChunk(i, k)

(* The inductive invariant behind OwnAnswers.                              *)
Coverage ==
  /\ TypeOK /\ JobsInChunks /\ started <= ChunkCount
  /\ \A k \in broken : k > taken
  /\ \A i \in Indices : i <= taken * config.max_batch => Settled(i)
  /\ outcome = "none" => NoCallLost
  /\ outcome = "ok" => taken = ChunkCount
  /\ outcome # "none" => jobs = {}

-----------------------------------------------------------------------------
(* The arithmetic of chunks.                                               *)

(* Products by the batch size are in the order of their factors.           *)
LEMMA ProductsOrdered ==
  ASSUME NEW a \in Int, NEW b \in Int, NEW m \in Nat, a <= b
  PROVE  a * m <= b * m
<1>1. PICK d \in Nat : b = a + d
  <2>1. b - a \in Nat /\ b = a + (b - a)
    OBVIOUS
  <2> QED BY <2>1
<1>2. b * m = a * m + d * m
  BY <1>1
<1>3. d * m \in Nat
  OBVIOUS
<1>4. a * m \in Int
  OBVIOUS
<1> QED BY <1>2, <1>3, <1>4

(* A call is in one chunk only.                                            *)
LEMMA OneChunk ==
  ASSUME TypeOK, NEW i \in Int, NEW k \in Nat, NEW l \in Nat, InChunk(i, k), InChunk(i, l)
  PROVE  k = l
<1> DEFINE m == config.max_batch
<1>1. m \in Nat
  BY DEF TypeOK
<1>2. /\ (k - 1) * m < i /\ i <= k * m /\ (l - 1) * m < i /\ i <= l * m
  BY DEF InChunk
<1> HIDE DEF m
<1>3. /\ k * m \in Int /\ l * m \in Int /\ (k - 1) * m \in Int /\ (l - 1) * m \in Int
  BY <1>1
<1>4. k <= l - 1 => k * m <= (l - 1) * m
  BY <1>1, ProductsOrdered
<1>5. l <= k - 1 => l * m <= (k - 1) * m
  BY <1>1, ProductsOrdered
<1> QED BY <1>2, <1>3, <1>4, <1>5

(* The chunks of split_calls hold all the calls.                           *)
LEMMA ChunksHoldAll ==
  ASSUME TypeOK
  PROVE  ChunkCount \in Nat /\ CallCount <= ChunkCount * config.max_batch
<1> DEFINE m == config.max_batch
           n == CallCount + m - 1
<1>1. m \in Nat /\ m > 0 /\ CallCount \in Nat /\ CallCount > 0
  BY RequestAssumption DEF TypeOK
<1>2. n \in Nat /\ n = CallCount + m - 1
  BY <1>1
<1>q. ChunkCount = n \div m
  BY DEF ChunkCount
<1> HIDE DEF m, n
<1>3. n \div m \in Nat /\ n = m * (n \div m) + (n % m) /\ n % m < m /\ n % m \in Nat
  BY <1>1, <1>2
<1>4. m * (n \div m) = (n \div m) * m
  BY <1>1, <1>3
<1> QED BY <1>1, <1>2, <1>q, <1>3, <1>4 DEF m

-----------------------------------------------------------------------------
(* A job is replaced by jobs within it, and each of its calls is settled,  *)
(* in one of those, or lost with the whole chunk.                          *)
LEMMA ReplaceJob ==
  ASSUME Coverage, NEW j \in jobs, NEW new \in SUBSET JobState,
         jobs' = (jobs \ {j}) \cup new,
         \A n \in new : n.chunk = j.chunk /\ j.lo <= n.lo /\ n.hi <= j.hi,
         DOMAIN results' = Indices,
         \A i \in Indices : results'[i] = results[i] \/ Settled(i)',
         broken' = broken \/ broken' = broken \cup {j.chunk},
         \A i \in Indices : j.lo <= i /\ i <= j.hi =>
           \/ Settled(i)'
           \/ \E n \in new : n.lo <= i /\ i <= n.hi
           \/ j.chunk \in broken',
         UNCHANGED <<config, started, taken, outcome>>
  PROVE  Coverage'
<1> DEFINE m == config.max_batch
<1>1. /\ TypeOK /\ JobsInChunks /\ outcome = "none" /\ NoCallLost /\ started <= ChunkCount
      /\ \A k \in broken : k > taken
      /\ \A i \in Indices : i <= taken * m => Settled(i)
  BY DEF Coverage
<1>2. /\ j \in JobState /\ m \in Nat /\ started \in Nat /\ taken \in Nat /\ config' = config
      /\ j.chunk \in Nat /\ j.lo \in Int /\ j.hi \in Int /\ j.chunk > taken /\ j.chunk <= started
      /\ (j.chunk - 1) * m < j.lo /\ j.hi <= j.chunk * m
      /\ (j.chunk - 1) * m \in Int /\ j.chunk * m \in Int
  BY <1>1 DEF TypeOK, JobsInChunks, JobState
<1>3. TypeOK'
  BY <1>1, <1>2 DEF TypeOK, Indices
<1>4. JobsInChunks'
  <2> SUFFICES ASSUME NEW n \in jobs'
               PROVE  n.chunk > taken /\ n.chunk <= started /\ (n.chunk - 1) * m < n.lo /\ n.hi <= n.chunk * m
    BY <1>2 DEF JobsInChunks
  <2> HIDE DEF m
  <2>1. CASE n \in jobs
    BY <1>1, <2>1 DEF JobsInChunks, m
  <2>2. CASE n \in new
    <3>1. n.chunk = j.chunk /\ n.lo \in Int /\ n.hi \in Int /\ j.lo <= n.lo /\ n.hi <= j.hi
      BY <2>2 DEF JobState
    <3> QED BY <1>2, <3>1
  <2> QED BY <2>1, <2>2
<1>5. \A i \in Indices : Settled(i) => Settled(i)'
  BY DEF Settled
<1>6. \A k \in broken' : k > taken
  BY <1>1, <1>2
<1>7. NoCallLost'
  <2> SUFFICES ASSUME NEW i \in Indices, i <= started * m
               PROVE  \/ Settled(i)' \/ \E n \in jobs' : n.lo <= i /\ i <= n.hi
                      \/ \E k \in broken' : InChunk(i, k)
    BY DEF NoCallLost, InChunk, Indices
  <2>0. i \in Int
    BY DEF Indices
  <2>1. CASE Settled(i) \/ \E k \in broken : InChunk(i, k)
    BY <1>5, <2>1
  <2>2. ASSUME NEW n \in jobs, n # j, n.lo <= i, i <= n.hi PROVE \E x \in jobs' : x.lo <= i /\ i <= x.hi
    BY <2>2
  <2>3. CASE j.lo <= i /\ i <= j.hi
    <3>1. CASE j.chunk \in broken'
      <4>1. InChunk(i, j.chunk)
        <5> HIDE DEF m
        <5>1. (j.chunk - 1) * m < i /\ i <= j.chunk * m
          BY <1>2, <2>0, <2>3
        <5> QED BY <5>1 DEF InChunk, m
      <4> QED BY <3>1, <4>1
    <3> QED BY <2>3, <3>1
  <2> QED BY <1>1, <2>1, <2>2, <2>3 DEF NoCallLost
<1>8. ChunkCount' = ChunkCount
  BY <1>2 DEF ChunkCount
<1> QED BY <1>1, <1>2, <1>3, <1>4, <1>5, <1>6, <1>7, <1>8 DEF Coverage, Indices

(* A job that only moves on keeps its calls.                               *)
LEMMA MoveJob ==
  ASSUME Coverage, NEW j \in jobs, NEW n \in JobState,
         n.chunk = j.chunk, n.lo = j.lo, n.hi = j.hi,
         jobs' = (jobs \ {j}) \cup {n},
         UNCHANGED <<config, started, taken, results, broken, outcome>>
  PROVE  Coverage'
<1>1. j \in JobState /\ DOMAIN results = Indices
  BY DEF Coverage, TypeOK
<1>2. j.lo <= n.lo /\ n.hi <= j.hi
  BY <1>1 DEF JobState
<1>3. /\ {n} \in SUBSET JobState
      /\ \A x \in {n} : x.chunk = j.chunk /\ j.lo <= x.lo /\ x.hi <= j.hi
  BY <1>2
<1>4. DOMAIN results' = Indices /\ \A i \in Indices : results'[i] = results[i] \/ Settled(i)'
  BY <1>1
<1>5. \A i \in Indices : j.lo <= i /\ i <= j.hi => \E x \in {n} : x.lo <= i /\ i <= x.hi
  OBVIOUS
<1>6. broken' = broken
  OBVIOUS
<1> HIDE DEF Coverage
<1> QED BY <1>3, <1>4, <1>5, <1>6, ReplaceJob

(* A job whose calls are all answered is gone.                             *)
LEMMA EndJob ==
  ASSUME Coverage, NEW j \in jobs, jobs' = jobs \ {j}, DOMAIN results' = Indices,
         \A i \in Indices : results'[i] = results[i] \/ Settled(i)',
         \A i \in Indices : j.lo <= i /\ i <= j.hi => Settled(i)',
         UNCHANGED <<config, started, taken, broken, outcome>>
  PROVE  Coverage'
<1> DEFINE new == {}
<1>1. jobs' = (jobs \ {j}) \cup new /\ new \in SUBSET JobState
  OBVIOUS
<1>2. \A n \in new : n.chunk = j.chunk /\ j.lo <= n.lo /\ n.hi <= j.hi
  OBVIOUS
<1>3. broken' = broken
  OBVIOUS
<1> HIDE DEF new
<1> QED BY <1>1, <1>2, <1>3, ReplaceJob

(* No call is lost by splitting a batch in two.                            *)
LEMMA HalvesCover ==
  ASSUME NEW j \in JobState, Size(j) > 1
  PROVE  /\ Halves(j) \in SUBSET JobState
         /\ \A n \in Halves(j) : n.chunk = j.chunk /\ j.lo <= n.lo /\ n.hi <= j.hi
         /\ \A i \in Int : j.lo <= i /\ i <= j.hi => \E n \in Halves(j) : n.lo <= i /\ i <= n.hi
<1> DEFINE a == Job(j.chunk, j.lo, Mid(j))
           b == Job(j.chunk, Mid(j) + 1, j.hi)
<1>1. j.chunk \in Nat /\ j.lo \in Int /\ j.hi \in Int /\ j.hi > j.lo
  BY DEF JobState, Size
<1>2. Mid(j) \in Int /\ j.lo <= Mid(j) /\ Mid(j) < j.hi
  BY <1>1 DEF Mid, Size
<1>3. /\ a \in JobState /\ a.chunk = j.chunk /\ a.lo = j.lo /\ a.hi = Mid(j)
      /\ b \in JobState /\ b.chunk = j.chunk /\ b.lo = Mid(j) + 1 /\ b.hi = j.hi
  BY <1>1, <1>2 DEF Job, JobState
<1>4. Halves(j) = {a, b}
  BY DEF Halves
<1> HIDE DEF a, b
<1>5. \A n \in {a, b} : n.chunk = j.chunk /\ j.lo <= n.lo /\ n.hi <= j.hi
  BY <1>1, <1>2, <1>3
<1>6. ASSUME NEW i \in Int, j.lo <= i, i <= j.hi PROVE \E n \in {a, b} : n.lo <= i /\ i <= n.hi
  <2>1. CASE i <= Mid(j)
    BY <1>3, <1>6, <2>1
  <2>2. CASE ~(i <= Mid(j))
    <3>1. b.lo <= i /\ i <= b.hi
      BY <1>2, <1>3, <1>6, <2>2
    <3> QED BY <3>1
  <2> QED BY <2>1, <2>2
<1> QED BY <1>3, <1>4, <1>5, <1>6

-----------------------------------------------------------------------------
(* Every behaviour keeps every call accounted for.                         *)
THEOREM CoverageHolds == Spec => []Coverage
<1>1. Init => Coverage
  <2> SUFFICES ASSUME Init PROVE Coverage
    OBVIOUS
  <2>1. TypeOK
    BY ConfigsAssumption DEF Init, TypeOK, TryNew, Indices
  <2>2. started * config.max_batch = 0 /\ taken * config.max_batch = 0
    BY <2>1 DEF Init, TypeOK
  <2>3. \A i \in Indices : ~(i <= 0)
    BY RequestAssumption DEF Indices
  <2>4. started <= ChunkCount
    BY <2>1, ChunksHoldAll DEF Init
  <2> QED BY <2>1, <2>2, <2>3, <2>4 DEF Init, Coverage, JobsInChunks, NoCallLost
<1>2. Coverage /\ [Next]_vars => Coverage'
  <2> SUFFICES ASSUME Coverage, [Next]_vars PROVE Coverage'
    OBVIOUS
  <2> DEFINE m == config.max_batch
  <2>0. /\ TypeOK /\ jobs \subseteq JobState /\ m \in Nat /\ m > 0
        /\ started \in Nat /\ taken \in Nat /\ CallCount \in Nat
    BY RequestAssumption DEF Coverage, TypeOK
  <2>1. ASSUME StartChunk PROVE Coverage'
    <3> DEFINE n == Job(started + 1, started * m + 1, ChunkEnd(started + 1))
    <3>1. /\ outcome = "none" /\ started' = started + 1 /\ jobs' = jobs \cup {n}
          /\ UNCHANGED <<config, taken, results, broken, outcome>>
          /\ started < ChunkCount
      BY <2>1 DEF StartChunk
    <3>2. /\ started * m \in Int /\ (started + 1) * m = started * m + m
          /\ started + 1 - 1 = started /\ taken * m \in Int
      BY <2>0
    <3>3. /\ ChunkEnd(started + 1) \in Int /\ ChunkEnd(started + 1) <= (started + 1) * m
          /\ \A i \in Indices : i <= (started + 1) * m => i <= ChunkEnd(started + 1)
      BY <2>0, <3>2 DEF ChunkEnd, Indices
    <3>4. /\ n \in JobState /\ n.chunk = started + 1 /\ n.lo = started * m + 1
          /\ n.hi = ChunkEnd(started + 1)
      BY <2>0, <3>2, <3>3 DEF Job, JobState
    <3> HIDE DEF n
    <3>5. TypeOK'
      BY <2>0, <3>1, <3>4 DEF TypeOK
    <3>6. JobsInChunks'
      <4> SUFFICES ASSUME NEW j \in jobs'
                   PROVE  j.chunk > taken /\ j.chunk <= started + 1 /\ (j.chunk - 1) * m < j.lo /\ j.hi <= j.chunk * m
        BY <3>1 DEF JobsInChunks
      <4>1. CASE j \in jobs
        BY <2>0, <4>1 DEF Coverage, JobsInChunks, JobState
      <4>2. CASE j = n
        <5> HIDE DEF m
        <5>1. taken <= started
          BY <2>0 DEF TypeOK
        <5> QED BY <2>0, <3>2, <3>3, <3>4, <4>2, <5>1
      <4> QED BY <3>1, <4>1, <4>2
    <3>7. NoCallLost'
      <4> SUFFICES ASSUME NEW i \in Indices, i <= (started + 1) * m
                   PROVE  \/ Settled(i) \/ \E j \in jobs' : j.lo <= i /\ i <= j.hi
                          \/ \E k \in broken : InChunk(i, k)
        BY <3>1 DEF NoCallLost, InChunk, Indices, Settled
      <4>1. CASE i <= started * m
        BY <3>1, <4>1 DEF Coverage, NoCallLost
      <4>2. CASE ~(i <= started * m)
        <5>1. n.lo <= i /\ i <= n.hi
          <6> HIDE DEF m
          <6>1. i \in Int
            BY DEF Indices
          <6> QED BY <3>2, <3>3, <3>4, <4>2, <6>1
        <5> QED BY <3>1, <5>1
      <4> QED BY <4>1, <4>2
    <3>8. started' <= ChunkCount'
      BY <2>0, <3>1, ChunksHoldAll DEF ChunkCount
    <3> QED BY <2>0, <3>1, <3>5, <3>6, <3>7, <3>8 DEF Coverage, Settled, Indices
  <2>2. ASSUME NEW j \in jobs, NEW pc \in {"rate", "permit", "sent"}, Advance(j, pc),
               UNCHANGED <<config, started, taken, results, broken, outcome>>
        PROVE  Coverage'
    <3> DEFINE n == [j EXCEPT !.pc = pc]
    <3>1. n \in JobState /\ n.chunk = j.chunk /\ n.lo = j.lo /\ n.hi = j.hi
      BY <2>0 DEF JobState
    <3>2. jobs' = (jobs \ {j}) \cup {n}
      BY <2>2 DEF Advance
    <3> HIDE DEF n
    <3> QED BY <2>2, <3>1, <3>2, MoveJob
  <2>3. ASSUME NEW j \in jobs, Reserve(j) \/ AcquirePermit(j) PROVE Coverage'
    BY <2>2, <2>3 DEF Reserve, AcquirePermit
  <2>4. ASSUME NEW j \in jobs, AnswerSingle(j) PROVE Coverage'
    <3>1. j.lo = j.hi /\ j.lo \in Int /\ j.hi \in Int
      BY <2>0, <2>4 DEF AnswerSingle, Size, JobState
    <3>2. /\ results' = [results EXCEPT ![j.lo] = j.lo] /\ jobs' = jobs \ {j}
          /\ UNCHANGED <<config, started, taken, broken, outcome>>
      BY <2>4 DEF AnswerSingle
    <3>3. /\ DOMAIN results' = Indices
          /\ \A i \in Indices : results'[i] = results[i] \/ Settled(i)'
          /\ \A i \in Indices : j.lo <= i /\ i <= j.hi => Settled(i)'
      BY <2>0, <3>1, <3>2 DEF TypeOK, Settled, Indices
    <3> QED BY <3>2, <3>3, EndJob
  <2>5. ASSUME NEW j \in jobs, NEW ids, AnswerBatch(j, ids) PROVE Coverage'
    <3>1. /\ results' = [i \in Indices |-> IF i \in j.lo .. j.hi THEN Ordered(j, ids)[i] ELSE results[i]]
          /\ jobs' = jobs \ {j} /\ Complete(j, ids)
          /\ UNCHANGED <<config, started, taken, broken, outcome>>
      BY <2>5 DEF AnswerBatch
    <3>2. ASSUME NEW i \in j.lo .. j.hi PROVE Ordered(j, ids)[i] = i
      <4>1. \E x \in {ids[k] : k \in DOMAIN ids} : x = i
        BY <3>1 DEF Complete
      <4>2. (CHOOSE x \in {ids[k] : k \in DOMAIN ids} : x = i) = i
        BY <4>1
      <4> QED BY <4>2 DEF Ordered
    <3>3. /\ DOMAIN results' = Indices
          /\ \A i \in Indices : results'[i] = results[i] \/ Settled(i)'
      BY <3>1, <3>2 DEF Settled
    <3>4. ASSUME NEW i \in Indices, j.lo <= i, i <= j.hi PROVE Settled(i)'
      <4>1. i \in j.lo .. j.hi
        BY <2>0, <3>4 DEF JobState, Indices
      <4> QED BY <3>1, <3>2, <4>1 DEF Settled
    <3> QED BY <3>1, <3>3, <3>4, EndJob
  <2>6. ASSUME NEW j \in jobs, jobs' = (jobs \ {j}) \cup {Again(j)},
               UNCHANGED <<config, started, taken, results, broken, outcome>>
        PROVE  Coverage'
    <3>1. /\ Again(j) \in JobState /\ Again(j).chunk = j.chunk
          /\ Again(j).lo = j.lo /\ Again(j).hi = j.hi
      <4>1. j \in JobState /\ j.attempt + 1 \in Nat
        BY <2>0 DEF JobState
      <4> QED BY <4>1 DEF Again, JobState
    <3> QED BY <2>6, <3>1, MoveJob
  <2>7. ASSUME NEW j \in jobs, NEW e \in Errors, FailSingle(j, e) PROVE Coverage'
    <3>1. CASE Retries(j, e)
      BY <2>6, <2>7, <3>1 DEF FailSingle
    <3>2. CASE ~Retries(j, e)
      <4>1. j.lo = j.hi /\ j.lo \in Int /\ j.hi \in Int
        BY <2>0, <2>7 DEF FailSingle, Size, JobState
      <4>2. /\ results' = [results EXCEPT ![j.lo] = CallFailed] /\ jobs' = jobs \ {j}
            /\ UNCHANGED <<config, started, taken, broken, outcome>>
        BY <2>7, <3>2 DEF FailSingle
      <4>3. /\ DOMAIN results' = Indices
            /\ \A i \in Indices : results'[i] = results[i] \/ Settled(i)'
            /\ \A i \in Indices : j.lo <= i /\ i <= j.hi => Settled(i)'
        BY <2>0, <4>1, <4>2 DEF TypeOK, Settled, Indices
      <4> QED BY <4>2, <4>3, EndJob
    <3> QED BY <3>1, <3>2
  <2>8. ASSUME NEW j \in jobs, NEW e \in Errors, FailBatch(j, e) PROVE Coverage'
    <3> DEFINE splits == IsBatchShape(e) \/ (~Retries(j, e) /\ IsRetryableBatchOnly(e))
    <3>0. /\ Size(j) > 1 /\ j \in JobState /\ UNCHANGED <<config, started, taken, results, outcome>>
          /\ jobs' = (jobs \ {j}) \cup (IF splits THEN Halves(j) ELSE IF Retries(j, e) THEN {Again(j)} ELSE {})
          /\ broken' = IF splits \/ Retries(j, e) THEN broken ELSE broken \cup {j.chunk}
      BY <2>0, <2>8 DEF FailBatch
    <3> HIDE DEF splits
    <3>1. DOMAIN results' = Indices /\ \A i \in Indices : results'[i] = results[i] \/ Settled(i)'
      BY <2>0, <3>0 DEF TypeOK
    <3>2. CASE splits
      <4>1. jobs' = (jobs \ {j}) \cup Halves(j) /\ broken' = broken
        BY <3>0, <3>2
      <4>2. \A i \in Indices : j.lo <= i /\ i <= j.hi => \E n \in Halves(j) : n.lo <= i /\ i <= n.hi
        BY <3>0, HalvesCover DEF Indices
      <4> QED BY <3>0, <3>1, <4>1, <4>2, HalvesCover, ReplaceJob
    <3>3. CASE ~splits /\ Retries(j, e)
      BY <2>6, <3>0, <3>3
    <3>4. CASE ~splits /\ ~Retries(j, e)
      <4> DEFINE new == {}
      <4>1. jobs' = (jobs \ {j}) \cup new /\ broken' = broken \cup {j.chunk} /\ j.chunk \in broken'
        BY <3>0, <3>4
      <4>2. /\ new \in SUBSET JobState
            /\ \A n \in new : n.chunk = j.chunk /\ j.lo <= n.lo /\ n.hi <= j.hi
        OBVIOUS
      <4> HIDE DEF new
      <4> QED BY <3>0, <3>1, <4>1, <4>2, ReplaceJob
    <3> QED BY <3>2, <3>3, <3>4
  <2>9. ASSUME CollectChunk PROVE Coverage'
    <3>0. /\ outcome = "none" /\ taken < ChunkCount /\ Finished(taken + 1)
          /\ UNCHANGED <<config, started, results, broken>>
      BY <2>9 DEF CollectChunk
    <3>1. CASE taken + 1 \in broken
      <4>1. outcome' = "failed" /\ jobs' = {} /\ taken' = taken
        BY <2>9, <3>1 DEF CollectChunk
      <4> QED BY <2>0, <3>0, <4>1 DEF Coverage, TypeOK, JobsInChunks, Settled, Indices, ChunkCount
    <3>2. CASE taken + 1 \notin broken
      <4>1. /\ taken' = taken + 1 /\ jobs' = jobs
            /\ outcome' = IF taken + 1 = ChunkCount THEN "ok" ELSE outcome
        BY <2>9, <3>2 DEF CollectChunk
      <4>2. taken + 1 <= started /\ \A j \in jobs : j.chunk # taken + 1
        BY <3>0 DEF Finished
      <4>3. TypeOK'
        BY <2>0, <3>0, <4>1, <4>2 DEF TypeOK
      <4>4. /\ \A j \in jobs : j.chunk > taken + 1
            /\ \A k \in broken : k > taken + 1
        BY <2>0, <3>2, <4>2 DEF Coverage, TypeOK, JobsInChunks, JobState
      <4>5. JobsInChunks'
        BY <3>0, <4>1, <4>4 DEF Coverage, JobsInChunks
      <4>6. ASSUME NEW i \in Indices, i <= (taken + 1) * m PROVE Settled(i)
        <5>1. CASE i <= taken * m
          BY <5>1 DEF Coverage
        <5>2. CASE ~(i <= taken * m)
          <6>0. i \in Int /\ taken * m \in Int /\ (taken + 1) * m \in Int /\ started * m \in Int
            BY <2>0 DEF Indices
          <6>1. InChunk(i, taken + 1)
            <7>1. PICK k \in Nat : k = taken + 1
              BY <2>0
            <7>2. (k - 1) * m < i /\ i <= k * m
              <8>1. k - 1 = taken
                BY <2>0, <7>1
              <8> HIDE DEF m
              <8> QED BY <4>6, <5>2, <6>0, <7>1, <8>1
            <7>3. InChunk(i, k)
              BY <7>2 DEF InChunk
            <7> QED BY <7>1, <7>3
          <6>2. (taken + 1) * m <= started * m
            BY <2>0, <4>2, ProductsOrdered
          <6>3. i <= started * m
            <7> HIDE DEF m
            <7> QED BY <4>6, <6>0, <6>2
          <6>4. ASSUME NEW j \in jobs, j.lo <= i, i <= j.hi PROVE FALSE
            <7>1. /\ j.chunk \in Nat /\ j.lo \in Int /\ j.hi \in Int
                  /\ (j.chunk - 1) * m < j.lo /\ j.hi <= j.chunk * m
                  /\ (j.chunk - 1) * m \in Int /\ j.chunk * m \in Int
              BY <2>0 DEF Coverage, JobsInChunks, JobState
            <7>2. InChunk(i, j.chunk)
              <8> HIDE DEF m
              <8>1. (j.chunk - 1) * m < i /\ i <= j.chunk * m
                BY <6>0, <6>4, <7>1
              <8> QED BY <8>1 DEF InChunk, m
            <7>3. j.chunk = taken + 1
              BY <2>0, <6>0, <6>1, <7>1, <7>2, OneChunk
            <7> QED BY <4>2, <7>3
          <6>5. ASSUME NEW k \in broken, InChunk(i, k) PROVE FALSE
            <7>1. k \in Nat
              BY <2>0 DEF TypeOK
            <7>2. k = taken + 1
              BY <2>0, <6>0, <6>1, <6>5, <7>1, OneChunk
            <7> QED BY <3>2, <7>2
          <6> QED BY <3>0, <6>3, <6>4, <6>5 DEF Coverage, NoCallLost
        <5> QED BY <5>1, <5>2
      <4>7. outcome' = "ok" => jobs = {}
        <5> SUFFICES ASSUME outcome' = "ok", NEW j \in jobs PROVE FALSE
          OBVIOUS
        <5>1. taken + 1 = ChunkCount
          BY <3>0, <4>1
        <5>2. j.chunk > taken + 1 /\ j.chunk <= started /\ started <= ChunkCount /\ j.chunk \in Nat
          BY <2>0, <4>4 DEF Coverage, JobsInChunks, JobState
        <5> QED BY <2>0, <5>1, <5>2
      <4> QED BY <3>0, <4>1, <4>3, <4>4, <4>5, <4>6, <4>7 DEF Coverage, NoCallLost, Settled, Indices, InChunk, ChunkCount
    <3> QED BY <3>1, <3>2
  <2>10. ASSUME DropRequest PROVE Coverage'
    BY <2>0, <2>10 DEF DropRequest, Coverage, TypeOK, JobsInChunks, Settled, Indices, ChunkCount
  <2>11. ASSUME Tick \/ UNCHANGED vars PROVE Coverage'
    BY <2>11 DEF Tick, vars, Coverage, TypeOK, JobsInChunks, NoCallLost, Settled, Indices, InChunk, ChunkCount
  <2>12. ASSUME NEW j \in jobs, Server(j) PROVE Coverage'
    BY <2>4, <2>5, <2>7, <2>8, <2>12 DEF Server
  <2> QED BY <2>1, <2>3, <2>9, <2>10, <2>11, <2>12 DEF Next, Client
<1> QED BY <1>1, <1>2, PTL DEF Spec

(* Whatever was cut, split and retried, and however the answers came, a    *)
(* request that succeeds has settled each call with its own answer.        *)
THEOREM AnswersAreOwn == Spec => []OwnAnswers
<1>1. Coverage => OwnAnswers
  <2> SUFFICES ASSUME Coverage, outcome = "ok", NEW i \in Indices PROVE Settled(i)
    BY DEF OwnAnswers, Settled
  <2>1. TypeOK /\ taken = ChunkCount
    BY DEF Coverage
  <2>2. CallCount <= taken * config.max_batch
    BY <2>1, ChunksHoldAll
  <2>3. i <= taken * config.max_batch
    BY <2>1, <2>2, RequestAssumption DEF Indices, TypeOK
  <2> QED BY <2>3 DEF Coverage
<1> QED BY <1>1, CoverageHolds, PTL

-----------------------------------------------------------------------------
(* Sums over sets.                                                         *)

(* Induction over the naturals, by a set that holds them.                  *)
LEMMA SetInduction ==
  ASSUME NEW S, 0 \in S, \A n \in Nat : n \in S => n + 1 \in S
  PROVE  Nat \subseteq S
<1> DEFINE T == Nat \ S
           R == OpToRel(<, Nat)
<1> SUFFICES ASSUME T # {} PROVE FALSE
  OBVIOUS
<1>1. PICK x \in T : \A y \in T : ~(<<y, x>> \in R)
  <2>1. IsWellFoundedOn(R, Nat)
    BY NatLessThanWellFounded
  <2>2. T \subseteq Nat
    OBVIOUS
  <2> HIDE DEF T, R
  <2> QED BY <2>1, <2>2, WFMin
<1>2. x \in Nat /\ x # 0
  OBVIOUS
<1>3. x - 1 \in Nat /\ x - 1 < x /\ (x - 1) + 1 = x
  BY <1>2
<1>4. x - 1 \in T => <<x - 1, x>> \in R
  BY <1>2, <1>3 DEF OpToRel
<1> QED BY <1>1, <1>3, <1>4

(* The sum of F over a set, and the iteration by which it is defined.      *)
Total(F, S) == MapThenSumSet(LAMBDA x : F[x], S)
Pick(s) == CHOOSE x \in s : TRUE
Sums(F, S, g) == g = [s \in SUBSET S |-> IF s = {} THEN 0 ELSE F[Pick(s)] + g[s \ {Pick(s)}]]

(* Induction over the subsets of a finite set.                             *)
LEMMA SubsetInduction ==
  ASSUME NEW S, IsFiniteSet(S), NEW Good, {} \in Good,
         \A T \in SUBSET S : T # {} /\ (\A x \in T : T \ {x} \in Good) => T \in Good
  PROVE  \A T \in SUBSET S : T \in Good
<1> DEFINE Upto == {n \in Nat : \A T \in SUBSET S : Cardinality(T) <= n => T \in Good}
<1>1. \A T \in SUBSET S : IsFiniteSet(T) /\ Cardinality(T) \in Nat
  BY FS_Subset, FS_CardinalityType
<1>2. 0 \in Upto
  <2> SUFFICES ASSUME NEW T \in SUBSET S, Cardinality(T) <= 0 PROVE T \in Good
    OBVIOUS
  <2>1. Cardinality(T) = 0
    BY <1>1
  <2> QED BY <1>1, <2>1, FS_EmptySet
<1>3. ASSUME NEW n \in Nat, n \in Upto PROVE n + 1 \in Upto
  <2> SUFFICES ASSUME NEW T \in SUBSET S, Cardinality(T) <= n + 1 PROVE T \in Good
    OBVIOUS
  <2>1. ASSUME NEW x \in T PROVE T \ {x} \in Good
    <3>1. Cardinality(T \ {x}) = Cardinality(T) - 1
      BY <1>1, FS_RemoveElement
    <3>2. Cardinality(T \ {x}) <= n
      BY <1>1, <3>1
    <3> QED BY <1>3, <3>2
  <2> QED BY <2>1
<1>4. Nat \subseteq Upto
  <2> HIDE DEF Upto
  <2> QED BY <1>2, <1>3, SetInduction
<1> SUFFICES ASSUME NEW T \in SUBSET S PROVE T \in Good
  OBVIOUS
<1>5. Cardinality(T) \in Upto
  BY <1>1, <1>4
<1> QED BY <1>1, <1>5

(* The choice in a set that has elements is one of them.                   *)
LEMMA PickIn == ASSUME NEW s, s # {} PROVE Pick(s) \in s
  BY DEF Pick

(* The iteration exists.                                                   *)
LEMMA SumsExist ==
  ASSUME NEW F, NEW S, IsFiniteSet(S)
  PROVE  \E g : Sums(F, S, g)
<1> DEFINE Body(g, s) == IF s = {} THEN 0 ELSE F[Pick(s)] + g[s \ {Pick(s)}]
           Good == {n \in Nat : \E g : /\ g = [s \in SUBSET S |-> g[s]]
                                       /\ \A s \in SUBSET S : Cardinality(s) <= n => g[s] = Body(g, s)}
<1>1. \A s \in SUBSET S : IsFiniteSet(s) /\ Cardinality(s) \in Nat /\ (Cardinality(s) = 0 <=> s = {})
  BY FS_Subset, FS_CardinalityType, FS_EmptySet
<1>2. \A s \in SUBSET S : s # {} => s \ {Pick(s)} \in SUBSET S /\ Cardinality(s \ {Pick(s)}) = Cardinality(s) - 1
  BY <1>1, PickIn, FS_RemoveElement
<1>3. 0 \in Good
  <2> DEFINE g == [s \in SUBSET S |-> 0]
  <2>1. g = [s \in SUBSET S |-> g[s]]
    OBVIOUS
  <2>2. ASSUME NEW s \in SUBSET S, Cardinality(s) <= 0 PROVE g[s] = Body(g, s)
    BY <1>1, <2>2
  <2> HIDE DEF g, Body
  <2> QED BY <2>1, <2>2
<1>4. ASSUME NEW n \in Nat, n \in Good PROVE n + 1 \in Good
  <2>1. PICK g : /\ g = [s \in SUBSET S |-> g[s]]
                 /\ \A s \in SUBSET S : Cardinality(s) <= n => g[s] = Body(g, s)
    BY <1>4
  <2> DEFINE h == [s \in SUBSET S |-> Body(g, s)]
  <2>2. h = [s \in SUBSET S |-> h[s]]
    OBVIOUS
  <2>3. ASSUME NEW s \in SUBSET S, Cardinality(s) <= n + 1 PROVE h[s] = Body(h, s)
    <3>1. CASE s = {}
      BY <3>1
    <3>2. CASE s # {}
      <4> DEFINE r == s \ {Pick(s)}
      <4>1. r \in SUBSET S /\ Cardinality(r) <= n
        BY <1>1, <1>2, <2>3, <3>2
      <4>2. g[r] = h[r]
        <5>1. g[r] = Body(g, r)
          <6> HIDE DEF r, Body, h
          <6> QED BY <2>1, <4>1
        <5>2. h[r] = Body(g, r)
          <6> HIDE DEF r, Body
          <6> QED BY <4>1
        <5> HIDE DEF r, h, Body
        <5> QED BY <5>1, <5>2
      <4>3. h[s] = F[Pick(s)] + g[r]
        BY <3>2
      <4>4. Body(h, s) = F[Pick(s)] + h[r]
        BY <3>2
      <4> HIDE DEF h, r, Body
      <4> QED BY <4>2, <4>3, <4>4
    <3> QED BY <3>1, <3>2
  <2>4. n + 1 \in Nat
    OBVIOUS
  <2>5. \E f : /\ f = [s \in SUBSET S |-> f[s]]
               /\ \A s \in SUBSET S : Cardinality(s) <= n + 1 => f[s] = Body(f, s)
    <3> HIDE DEF h, Body
    <3> QED BY <2>2, <2>3
  <2> HIDE DEF Body
  <2> QED BY <2>4, <2>5
<1>5. Cardinality(S) \in Good
  <2>1. Nat \subseteq Good
    <3> HIDE DEF Good
    <3> QED BY <1>3, <1>4, SetInduction
  <2> HIDE DEF Good
  <2> QED BY <1>1, <2>1
<1>6. PICK g : /\ g = [s \in SUBSET S |-> g[s]]
               /\ \A s \in SUBSET S : Cardinality(s) <= Cardinality(S) => g[s] = Body(g, s)
  BY <1>5
<1>7. \A s \in SUBSET S : g[s] = Body(g, s)
  <2> HIDE DEF Body
  <2> QED BY <1>6, FS_Subset
<1>8. g = [s \in SUBSET S |-> Body(g, s)]
  <2> HIDE DEF Body
  <2> QED BY <1>6, <1>7
<1> QED BY <1>8 DEF Sums

(* Two iterations agree on the subsets they share.                         *)
LEMMA SumsAgree ==
  ASSUME NEW F, NEW S, NEW T, IsFiniteSet(T), T \subseteq S, NEW g, NEW h, Sums(F, S, g), Sums(F, T, h)
  PROVE  \A s \in SUBSET T : g[s] = h[s]
<1> DEFINE Good == {s \in SUBSET T : g[s] = h[s]}
<1>1. \A s \in SUBSET S : g[s] = IF s = {} THEN 0 ELSE F[Pick(s)] + g[s \ {Pick(s)}]
  BY DEF Sums
<1>2. \A s \in SUBSET T : h[s] = IF s = {} THEN 0 ELSE F[Pick(s)] + h[s \ {Pick(s)}]
  BY DEF Sums
<1>3. {} \in Good
  BY <1>1, <1>2
<1>4. ASSUME NEW s \in SUBSET T, s # {}, \A x \in s : s \ {x} \in Good PROVE s \in Good
  <2>1. s \ {Pick(s)} \in Good
    BY <1>4, PickIn
  <2>2. g[s] = F[Pick(s)] + g[s \ {Pick(s)}] /\ h[s] = F[Pick(s)] + h[s \ {Pick(s)}]
    BY <1>1, <1>2, <1>4
  <2> QED BY <2>1, <2>2
<1>5. \A s \in SUBSET T : s \in Good
  <2> HIDE DEF Good
  <2> QED BY <1>3, <1>4, SubsetInduction
<1> QED BY <1>5

(* The sum is what any such iteration gives.                               *)
LEMMA TotalIs ==
  ASSUME NEW F, NEW S, IsFiniteSet(S), NEW g, Sums(F, S, g)
  PROVE  \A s \in SUBSET S : Total(F, s) = g[s]
<1> SUFFICES ASSUME NEW T \in SUBSET S PROVE Total(F, T) = g[T]
  OBVIOUS
<1>1. IsFiniteSet(T)
  BY FS_Subset
<1> DEFINE iter == CHOOSE h : h = [s \in SUBSET T |-> IF s = {} THEN 0 ELSE F[CHOOSE x \in s : TRUE] + h[s \ {CHOOSE x \in s : TRUE}]]
<1>2. Sums(F, T, iter)
  <2>1. \E h : h = [s \in SUBSET T |-> IF s = {} THEN 0 ELSE F[CHOOSE x \in s : TRUE] + h[s \ {CHOOSE x \in s : TRUE}]]
    <3>1. \E h : Sums(F, T, h)
      BY <1>1, SumsExist
    <3> QED BY <3>1 DEF Sums, Pick
  <2>2. iter = [s \in SUBSET T |-> IF s = {} THEN 0 ELSE F[CHOOSE x \in s : TRUE] + iter[s \ {CHOOSE x \in s : TRUE}]]
    BY <2>1
  <2> HIDE DEF iter
  <2> QED BY <2>2 DEF Sums, Pick
<1>3. Total(F, T) = iter[T]
  BY DEF Total, MapThenSumSet, MapThenFoldSet
<1> HIDE DEF iter
<1> QED BY <1>1, <1>2, <1>3, SumsAgree

(* The sum over no element is 0, and over some it is that of the choice    *)
(* and of the others.                                                      *)
LEMMA TotalUnfolds ==
  ASSUME NEW F, NEW S, IsFiniteSet(S)
  PROVE  /\ Total(F, {}) = 0
         /\ S # {} => Total(F, S) = F[Pick(S)] + Total(F, S \ {Pick(S)})
<1>1. PICK g : Sums(F, S, g)
  BY SumsExist
<1>2. \A s \in SUBSET S : g[s] = IF s = {} THEN 0 ELSE F[Pick(s)] + g[s \ {Pick(s)}]
  BY <1>1 DEF Sums
<1>3. \A s \in SUBSET S : Total(F, s) = g[s]
  BY <1>1, TotalIs
<1>4. {} \in SUBSET S /\ S \in SUBSET S /\ S \ {Pick(S)} \in SUBSET S
  OBVIOUS
<1> QED BY <1>2, <1>3, <1>4

(* Naturals sum up to a natural.                                           *)
LEMMA TotalIsNat ==
  ASSUME NEW D, NEW F \in [D -> Nat], NEW S, IsFiniteSet(S), S \subseteq D
  PROVE  Total(F, S) \in Nat
<1> DEFINE Good == {T \in SUBSET S : Total(F, T) \in Nat}
<1>1. \A T \in SUBSET S : IsFiniteSet(T)
  BY FS_Subset
<1>2. {} \in Good
  <2>1. Total(F, {}) = 0
    BY TotalUnfolds
  <2> QED BY <2>1
<1>3. ASSUME NEW T \in SUBSET S, T # {}, \A x \in T : T \ {x} \in Good PROVE T \in Good
  <2>1. Pick(T) \in T
    BY <1>3, PickIn
  <2>2. Total(F, T) = F[Pick(T)] + Total(F, T \ {Pick(T)})
    BY <1>1, <1>3, TotalUnfolds
  <2>3. F[Pick(T)] \in Nat /\ Total(F, T \ {Pick(T)}) \in Nat
    BY <1>3, <2>1
  <2> QED BY <2>2, <2>3
<1>4. \A T \in SUBSET S : T \in Good
  <2> HIDE DEF Good
  <2> QED BY <1>2, <1>3, SubsetInduction
<1> QED BY <1>4

(* The order of summation does not matter.                                 *)
LEMMA TotalRemoves ==
  ASSUME NEW D, NEW F \in [D -> Nat], NEW S, IsFiniteSet(S), S \subseteq D
  PROVE  /\ Total(F, S) \in Nat
         /\ \A x \in S : Total(F, S) = F[x] + Total(F, S \ {x})
<1> DEFINE P(T) == /\ Total(F, T) \in Nat
                   /\ \A x \in T : Total(F, T) = F[x] + Total(F, T \ {x})
           Good == {T \in SUBSET S : P(T)}
<1>1. \A T \in SUBSET S : IsFiniteSet(T) /\ \A x \in T : F[x] \in Nat
  BY FS_Subset
<1>2. {} \in Good
  <2>1. Total(F, {}) = 0
    BY TotalUnfolds
  <2> QED BY <2>1
<1>3. ASSUME NEW T \in SUBSET S, T # {}, \A x \in T : T \ {x} \in Good PROVE T \in Good
  <2> DEFINE y == Pick(T)
  <2>1. y \in T
    BY <1>3, PickIn
  <2>2. Total(F, T) = F[y] + Total(F, T \ {y})
    BY <1>1, <1>3, TotalUnfolds
  <2> HIDE DEF y
  <2>3. \A x \in T : /\ Total(F, T \ {x}) \in Nat
                     /\ \A z \in T \ {x} : Total(F, T \ {x}) = F[z] + Total(F, (T \ {x}) \ {z})
    BY <1>3
  <2>4. Total(F, T) \in Nat
    BY <1>1, <2>1, <2>2, <2>3
  <2>5. ASSUME NEW x \in T PROVE Total(F, T) = F[x] + Total(F, T \ {x})
    <3>1. CASE x = y
      BY <2>2, <3>1
    <3>2. CASE x # y
      <4>1. Total(F, T \ {y}) = F[x] + Total(F, (T \ {y}) \ {x})
        BY <2>1, <2>3, <3>2
      <4>2. Total(F, T \ {x}) = F[y] + Total(F, (T \ {x}) \ {y})
        BY <2>1, <2>3, <3>2
      <4>3. (T \ {y}) \ {x} = (T \ {x}) \ {y}
        OBVIOUS
      <4>4. Total(F, (T \ {y}) \ {x}) \in Nat
        <5>1. (T \ {y}) \ {x} \in SUBSET S
          OBVIOUS
        <5> QED BY <1>1, <5>1, TotalIsNat
      <4>5. F[x] \in Nat /\ F[y] \in Nat
        BY <1>1, <2>1
      <4> QED BY <2>2, <4>1, <4>2, <4>3, <4>4, <4>5
    <3> QED BY <3>1, <3>2
  <2> QED BY <2>4, <2>5
<1>4. \A T \in SUBSET S : T \in Good
  <2> HIDE DEF Good
  <2> QED BY <1>2, <1>3, SubsetInduction
<1> QED BY <1>4

(* A sum over more elements, each with as much or more, is as much or more.*)
LEMMA TotalMonotone ==
  ASSUME NEW D, NEW F \in [D -> Nat], NEW E, NEW G \in [E -> Nat],
         NEW S, IsFiniteSet(S), S \subseteq E, NEW T \in SUBSET S, T \subseteq D,
         \A x \in T : F[x] <= G[x]
  PROVE  Total(F, T) <= Total(G, S)
<1> DEFINE Good == {U \in SUBSET S : Total(F, T \cap U) <= Total(G, U)}
<1>1. \A U \in SUBSET S : IsFiniteSet(U) /\ IsFiniteSet(T \cap U)
  <2>1. ASSUME NEW U \in SUBSET S PROVE T \cap U \in SUBSET S
    OBVIOUS
  <2> QED BY <2>1, FS_Subset
<1>2. {} \in Good
  <2>1. T \cap {} = {}
    OBVIOUS
  <2>2. Total(F, {}) = 0
    BY TotalUnfolds
  <2>3. Total(G, {}) = 0
    BY TotalUnfolds
  <2> QED BY <2>1, <2>2, <2>3
<1>3. ASSUME NEW U \in SUBSET S, U # {}, \A x \in U : U \ {x} \in Good PROVE U \in Good
  <2>1. PICK x \in U : TRUE
    BY <1>3
  <2>2. Total(F, T \cap (U \ {x})) <= Total(G, U \ {x})
    BY <1>3
  <2>3. Total(G, U) = G[x] + Total(G, U \ {x})
    <3>1. U \subseteq E /\ IsFiniteSet(U)
      BY <1>1
    <3> QED BY <3>1, TotalRemoves
  <2>4. Total(G, U \ {x}) \in Nat /\ G[x] \in Nat
    <3>1. U \ {x} \in SUBSET S
      OBVIOUS
    <3> QED BY <1>1, <3>1, TotalIsNat
  <2>5. CASE x \in T
    <3>1. x \in T \cap U /\ (T \cap U) \ {x} = T \cap (U \ {x})
      BY <2>5
    <3>2. Total(F, T \cap U) = F[x] + Total(F, (T \cap U) \ {x})
      BY <1>1, <3>1, TotalRemoves
    <3>3. Total(F, T \cap (U \ {x})) \in Nat /\ F[x] \in Nat /\ F[x] <= G[x]
      <4>1. U \ {x} \in SUBSET S /\ T \cap (U \ {x}) \subseteq D
        OBVIOUS
      <4>2. Total(F, T \cap (U \ {x})) \in Nat
        BY <1>1, <4>1, TotalIsNat
      <4> QED BY <2>5, <4>2
    <3>4. Total(F, T \cap U) <= Total(G, U)
      <4>1. Total(F, T \cap U) = F[x] + Total(F, T \cap (U \ {x}))
        BY <3>1, <3>2
      <4> HIDE DEF Good
      <4> QED BY <2>2, <2>3, <2>4, <3>3, <4>1
    <3> QED BY <3>4
  <2>6. CASE x \notin T
    <3>1. T \cap U = T \cap (U \ {x})
      BY <2>6
    <3>2. Total(F, T \cap U) \in Nat
      BY <1>1, TotalIsNat
    <3>3. Total(F, T \cap U) <= Total(G, U)
      <4> HIDE DEF Good
      <4> QED BY <2>2, <2>3, <2>4, <3>1, <3>2
    <3> QED BY <3>3
  <2> QED BY <2>5, <2>6
<1>4. \A U \in SUBSET S : U \in Good
  <2> HIDE DEF Good
  <2> QED BY <1>2, <1>3, SubsetInduction
<1>5. S \in Good /\ T \cap S = T
  BY <1>4
<1> QED BY <1>5

(* The last element of an interval, apart.                                 *)
LEMMA TotalOfInterval ==
  ASSUME NEW D, NEW F \in [D -> Nat], NEW a \in Int, NEW b \in Int, a .. b \subseteq D
  PROVE  /\ Total(F, a .. b) \in Nat
         /\ a > b => Total(F, a .. b) = 0
         /\ a <= b => Total(F, a .. b) = F[b] + Total(F, a .. b - 1) /\ F[b] \in Nat
<1>1. IsFiniteSet(a .. b)
  BY FS_Interval
<1>2. Total(F, a .. b) \in Nat
  BY <1>1, TotalIsNat
<1>3. ASSUME a > b PROVE Total(F, a .. b) = 0
  <2>1. a .. b = {}
    BY <1>3
  <2> QED BY <1>1, <2>1, TotalUnfolds
<1>4. ASSUME a <= b PROVE Total(F, a .. b) = F[b] + Total(F, a .. b - 1) /\ F[b] \in Nat
  <2>1. b \in a .. b /\ (a .. b) \ {b} = a .. b - 1
    BY <1>4
  <2> QED BY <1>1, <2>1, TotalRemoves
<1> QED BY <1>2, <1>3, <1>4

(* What a meter's ring says of each slot, and what it holds from slot a on.*)
Ring(m) == [t \in Int |-> m.window[t % WinLen]]
Held(m, a) == Total(Ring(m), a .. m.time)

(* get_rate is the sum over the slots not older than the window.           *)
LEMMA RateIsHeld ==
  ASSUME NEW m, m.time \in Int, NEW now, ToTime(m, now) \in Int
  PROVE  GetRate(m, now) = Held(m, ToTime(m, now) - WinLen + 1)
<1> DEFINE S == (ToTime(m, now) - WinLen + 1) .. m.time
           F == Ring(m)
           Is(h) == h = [s \in SUBSET S |-> IF s = {} THEN 0
                                            ELSE m.window[(CHOOSE x \in s : TRUE) % WinLen] + h[s \ {CHOOSE x \in s : TRUE}]]
           iter == CHOOSE h : Is(h)
<1>1. IsFiniteSet(S) /\ S \subseteq Int
  <2>1. ToTime(m, now) - WinLen + 1 \in Int
    BY MeterAssumption DEF WinLen
  <2> HIDE DEF WinLen
  <2> QED BY <2>1, FS_Interval
<1>2. \A h : Is(h) <=> Sums(F, S, h)
  <2> HIDE DEF S
  <2> SUFFICES ASSUME NEW h PROVE Is(h) <=> Sums(F, S, h)
    OBVIOUS
  <2>1. \A s \in SUBSET S : s # {} => F[Pick(s)] = m.window[Pick(s) % WinLen]
    BY <1>1, PickIn DEF Ring
  <2>2. Is(h) <=> h = [s \in SUBSET S |-> IF s = {} THEN 0 ELSE m.window[Pick(s) % WinLen] + h[s \ {Pick(s)}]]
    BY DEF Pick
  <2> HIDE DEF F, Is
  <2>3. [s \in SUBSET S |-> IF s = {} THEN 0 ELSE m.window[Pick(s) % WinLen] + h[s \ {Pick(s)}]]
      = [s \in SUBSET S |-> IF s = {} THEN 0 ELSE F[Pick(s)] + h[s \ {Pick(s)}]]
    BY <2>1
  <2> QED BY <2>2, <2>3 DEF Sums
<1>3. GetRate(m, now) = iter[S]
  BY DEF GetRate, MapThenSumSet, MapThenFoldSet
<1> HIDE DEF S, F, Is
<1>4. \E h : Is(h)
  BY <1>1, <1>2, SumsExist
<1>5. Is(iter)
  BY <1>4
<1> HIDE DEF iter
<1>6. Total(F, S) = iter[S]
  <2>1. S \in SUBSET S
    OBVIOUS
  <2> QED BY <1>1, <1>2, <1>5, <2>1, TotalIs
<1> QED BY <1>3, <1>6 DEF Held, F, S

(* Division with remainder.                                                *)
LEMMA Divided ==
  ASSUME NEW a \in Int, NEW n \in Nat, n > 0
  PROVE  a \div n \in Int /\ a = (a \div n) * n + (a % n) /\ a % n < n /\ a % n \in Nat
<1>1. a \div n \in Int /\ a = n * (a \div n) + (a % n) /\ a % n < n /\ a % n \in Nat
  OBVIOUS
<1>2. n * (a \div n) = (a \div n) * n
  BY <1>1
<1> QED BY <1>1, <1>2

(* Numbers less than n apart have different residues.                      *)
LEMMA ResiduesDiffer ==
  ASSUME NEW n \in Nat, n > 0, NEW a \in Int, NEW b \in Int, a < b, b < a + n
  PROVE  a % n # b % n
<1> SUFFICES ASSUME a % n = b % n PROVE FALSE
  OBVIOUS
<1> DEFINE p == a \div n
           q == b \div n
<1>1. p \in Int /\ q \in Int /\ a = p * n + (a % n) /\ b = q * n + (b % n) /\ a % n \in Nat
  BY Divided
<1> HIDE DEF p, q
<1>2. p * n \in Int /\ q * n \in Int /\ (p + 1) * n \in Int
  BY <1>1
<1>3. p * n < q * n /\ q * n < p * n + n
  BY <1>1, <1>2
<1>4. (p + 1) * n = p * n + n
  BY <1>1
<1>5. q <= p => q * n <= p * n
  BY <1>1, ProductsOrdered
<1>6. p + 1 <= q => (p + 1) * n <= q * n
  BY <1>1, ProductsOrdered
<1>7. q <= p \/ p + 1 <= q
  BY <1>1
<1> QED BY <1>2, <1>3, <1>4, <1>5, <1>6, <1>7

(* The slot a tick of the clock falls into, and the ticks of a window.     *)
Slot(tick) == (tick + SlotTime - 1) \div SlotTime
Ticks == WindowSize * SlotTime

(* The sizes are positive.                                                 *)
LEMMA MeterSizes ==
  /\ WindowSize \in Nat /\ WindowSize > 0 /\ SlotTime \in Nat /\ SlotTime > 0
  /\ Ticks \in Nat /\ Ticks > 0 /\ WinLen \in Nat /\ WinLen > 0 /\ WinLen = WindowSize + 1
<1>1. WindowSize \in Nat /\ WindowSize > 0 /\ SlotTime \in Nat /\ SlotTime > 0
  BY MeterAssumption
<1>2. 1 * SlotTime <= Ticks /\ Ticks \in Nat
  BY <1>1, ProductsOrdered DEF Ticks
<1> QED BY <1>1, <1>2 DEF WinLen

(* Later ticks fall into later slots.                                      *)
LEMMA SlotsOrdered ==
  ASSUME NEW a \in Int, NEW b \in Int, a <= b
  PROVE  Slot(a) \in Int /\ Slot(b) \in Int /\ Slot(a) <= Slot(b)
<1> DEFINE s == SlotTime
           p == Slot(a)
           q == Slot(b)
           c == a + s - 1
           d == b + s - 1
<1>1. s \in Nat /\ s > 0
  BY MeterSizes
<1>2. c \in Int /\ d \in Int /\ c <= d
  BY <1>1
<1>3. p = c \div s /\ q = d \div s
  BY DEF Slot
<1> HIDE DEF c, d, s, p, q
<1>4. p \in Int /\ c = p * s + (c % s) /\ c % s \in Nat
  BY <1>1, <1>2, <1>3, Divided
<1>5. q \in Int /\ d = q * s + (d % s) /\ d % s \in Nat /\ d % s < s
  BY <1>1, <1>2, <1>3, Divided
<1>6. q + 1 <= p => (q + 1) * s <= p * s
  BY <1>1, <1>4, <1>5, ProductsOrdered
<1>7. (q + 1) * s = q * s + s /\ q * s \in Int /\ p * s \in Int
  BY <1>1, <1>4, <1>5
<1>8. ~(q + 1 <= p)
  BY <1>1, <1>2, <1>4, <1>5, <1>6, <1>7
<1>9. p <= q
  BY <1>4, <1>5, <1>8
<1> QED BY <1>4, <1>5, <1>9 DEF p, q

(* The oldest tick of a window falls into a slot the meter still counts.   *)
LEMMA OldestSlot ==
  ASSUME NEW now \in Int
  PROVE  Slot(now) - WindowSize <= Slot(now - Ticks + 1)
<1> DEFINE s == SlotTime
           w == WindowSize
           p == Slot(now - Ticks + 1)
           q == Slot(now)
           c == now - w * s + s
           d == now + s - 1
<1>1. s \in Nat /\ s > 0 /\ w \in Nat
  BY MeterSizes
<1>2. c \in Int /\ d \in Int /\ w * s \in Int /\ c = d + 1 - w * s
  BY <1>1
<1>3. p = c \div s /\ q = d \div s
  <2>1. now - Ticks + 1 + s - 1 = c
    BY <1>1, <1>2 DEF Ticks
  <2> QED BY <2>1 DEF Slot
<1> HIDE DEF c, d, s, p, q, w
<1>4. p \in Int /\ c = p * s + (c % s) /\ c % s \in Nat /\ c % s < s
  BY <1>1, <1>2, <1>3, Divided
<1>5. q \in Int /\ d = q * s + (d % s) /\ d % s \in Nat
  BY <1>1, <1>2, <1>3, Divided
<1>6. (p + 1) + w <= q => ((p + 1) + w) * s <= q * s
  BY <1>1, <1>4, <1>5, ProductsOrdered
<1>7. ((p + 1) + w) * s = p * s + s + w * s /\ q * s \in Int /\ p * s \in Int
  BY <1>1, <1>4, <1>5
<1>8. ~((p + 1) + w <= q)
  BY <1>1, <1>2, <1>4, <1>5, <1>6, <1>7
<1>9. q - w <= p
  BY <1>1, <1>4, <1>5, <1>8
<1> QED BY <1>9 DEF p, q, w

(* A tick moves every count one place on.                                  *)
LEMMA ShiftedTotals ==
  ASSUME NEW N \in Nat, NEW F \in [1 .. N -> Nat], NEW G \in [1 .. N -> Nat], N > 0,
         G[1] = 0, \A i \in 2 .. N : G[i] = F[i - 1]
  PROVE  \A k \in 1 .. N : Total(G, 1 .. k) = Total(F, 1 .. k - 1)
<1>1. ASSUME NEW H \in [1 .. N -> Nat]
      PROVE  /\ Total(H, 1 .. 0) = 0
             /\ \A k \in 1 .. N : Total(H, 1 .. k) = H[k] + Total(H, 1 .. k - 1) /\ H[k] \in Nat
             /\ \A k \in 0 .. N : Total(H, 1 .. k) \in Nat
  <2>1. \A k \in 0 .. N : 1 .. k \subseteq 1 .. N /\ k \in Int
    OBVIOUS
  <2>2. \A k \in 0 .. N : /\ Total(H, 1 .. k) \in Nat
                          /\ 1 > k => Total(H, 1 .. k) = 0
                          /\ 1 <= k => Total(H, 1 .. k) = H[k] + Total(H, 1 .. k - 1) /\ H[k] \in Nat
    <3> TAKE k \in 0 .. N
    <3>1. 1 .. k \subseteq 1 .. N /\ k \in Int /\ 1 \in Int
      BY <2>1
    <3> HIDE DEF Total
    <3> QED BY <3>1, TotalOfInterval
  <2> QED BY <2>2
<1> DEFINE Good == {k \in Nat : k + 1 <= N => Total(G, 1 .. k + 1) = Total(F, 1 .. k)}
<1>2. 0 \in Good
  <2>1. 1 \in 1 .. N
    OBVIOUS
  <2>2. Total(G, 1 .. 1) = G[1] + Total(G, 1 .. 1 - 1) /\ Total(G, 1 .. 0) = 0 /\ Total(F, 1 .. 0) = 0
    BY <1>1, <2>1
  <2>3. 1 - 1 = 0 /\ 0 + 1 = 1
    OBVIOUS
  <2> QED BY <2>2, <2>3
<1>3. ASSUME NEW k \in Nat, k \in Good PROVE k + 1 \in Good
  <2> SUFFICES ASSUME (k + 1) + 1 <= N PROVE Total(G, 1 .. (k + 1) + 1) = Total(F, 1 .. k + 1)
    OBVIOUS
  <2> DEFINE a == k + 1
             b == a + 1
  <2>1. a \in 1 .. N /\ b \in 1 .. N /\ b \in 2 .. N /\ a - 1 = k /\ b - 1 = a /\ a <= N
    OBVIOUS
  <2>2. Total(G, 1 .. a) = Total(F, 1 .. k)
    BY <1>3, <2>1
  <2> HIDE DEF a, b
  <2>3. Total(G, 1 .. b) = G[b] + Total(G, 1 .. b - 1) /\ Total(F, 1 .. a) = F[a] + Total(F, 1 .. a - 1)
    BY <1>1, <2>1
  <2>4. G[b] = F[a]
    BY <2>1
  <2>5. Total(G, 1 .. b) = Total(F, 1 .. a)
    BY <2>1, <2>2, <2>3, <2>4
  <2> QED BY <2>5 DEF a, b
<1>4. Nat \subseteq Good
  <2> HIDE DEF Good
  <2> QED BY <1>2, <1>3, SetInduction
<1> SUFFICES ASSUME NEW k \in 1 .. N PROVE Total(G, 1 .. k) = Total(F, 1 .. k - 1)
  OBVIOUS
<1>5. k - 1 \in Good /\ (k - 1) + 1 = k
  BY <1>4
<1> QED BY <1>5

(* A reservation counts in every stretch that ends now.                    *)
LEMMA RaisedTotals ==
  ASSUME NEW D, NEW F \in [D -> Nat], NEW G \in [D -> Nat], NEW c \in Nat, 1 \in D, G[1] = F[1] + c,
         \A i \in D : i # 1 => G[i] = F[i], NEW k \in Nat, k > 0, 1 .. k \subseteq D
  PROVE  Total(G, 1 .. k) = Total(F, 1 .. k) + c
<1> DEFINE S == 1 .. k
           R == S \ {1}
<1>1. F[1] \in Nat /\ \A i \in R : G[i] = F[i] /\ F[i] \in Nat
  OBVIOUS
<1>2. IsFiniteSet(S) /\ IsFiniteSet(R) /\ S \subseteq D /\ R \subseteq D /\ 1 \in S
  <2>1. IsFiniteSet(S)
    BY FS_Interval
  <2> QED BY <2>1, FS_Subset
<1> HIDE DEF S, R
<1>3. R \in SUBSET R /\ \A i \in R : F[i] <= G[i] /\ G[i] <= F[i]
  BY <1>1
<1>4. Total(F, R) <= Total(G, R)
  BY <1>1, <1>2, <1>3, TotalMonotone
<1>5. Total(G, R) <= Total(F, R)
  BY <1>1, <1>2, <1>3, TotalMonotone
<1>6. Total(F, R) \in Nat /\ Total(F, S) = F[1] + Total(F, S \ {1})
  <2>1. Total(F, R) \in Nat
    BY <1>1, <1>2, TotalIsNat
  <2>2. \A x \in S : Total(F, S) = F[x] + Total(F, S \ {x})
    <3>1. F \in [D -> Nat] /\ IsFiniteSet(S) /\ S \subseteq D
      BY <1>1, <1>2
    <3> QED BY <3>1, TotalRemoves
  <2> QED BY <1>2, <2>1, <2>2
<1>7. Total(G, R) \in Nat /\ Total(G, S) = G[1] + Total(G, S \ {1})
  <2>1. Total(G, R) \in Nat
    BY <1>1, <1>2, TotalIsNat
  <2>2. \A x \in S : Total(G, S) = G[x] + Total(G, S \ {x})
    <3>1. G \in [D -> Nat] /\ IsFiniteSet(S) /\ S \subseteq D
      BY <1>1, <1>2
    <3> QED BY <3>1, TotalRemoves
  <2> QED BY <1>2, <2>1, <2>2
<1>8. Total(G, R) = Total(F, R)
  BY <1>4, <1>5, <1>6, <1>7
<1>9. Total(G, S) = Total(F, S) + c
  BY <1>1, <1>6, <1>7, <1>8 DEF R
<1> QED BY <1>9 DEF S

(* A meter of its type.                                                    *)
IsMeter(m) == m.time \in Int /\ m.window \in [0 .. WindowSize -> Nat]

(* What its ring holds is a number.                                        *)
LEMMA RingCounts ==
  ASSUME NEW m, IsMeter(m)
  PROVE  /\ Ring(m) \in [Int -> Nat]
         /\ \A a \in Int : Held(m, a) \in Nat
         /\ \A a \in Int, b \in Int : a <= b => Held(m, b) <= Held(m, a)
<1>1. Ring(m) \in [Int -> Nat]
  <2>1. \A t \in Int : t % WinLen \in 0 .. WindowSize
    BY MeterSizes, Divided
  <2> QED BY <2>1 DEF Ring, IsMeter
<1>2. \A a \in Int : IsFiniteSet(a .. m.time) /\ a .. m.time \subseteq Int
  BY FS_Interval DEF IsMeter
<1>3. \A a \in Int : Held(m, a) \in Nat
  BY <1>1, <1>2, TotalIsNat DEF Held
<1>4. ASSUME NEW a \in Int, NEW b \in Int, a <= b PROVE Held(m, b) <= Held(m, a)
  <2> DEFINE F == Ring(m)
             S == a .. m.time
             T == b .. m.time
  <2>1. T \in SUBSET S /\ T \subseteq Int /\ S \subseteq Int
    BY <1>4 DEF IsMeter
  <2>2. \A x \in T : F[x] <= F[x]
    BY <1>1, <2>1
  <2>3. F \in [Int -> Nat] /\ IsFiniteSet(S)
    BY <1>1, <1>2
  <2> HIDE DEF F, S, T
  <2>4. Total(F, T) <= Total(F, S)
    BY <2>1, <2>2, <2>3, TotalMonotone
  <2> QED BY <2>4 DEF Held, F, S, T
<1> QED BY <1>1, <1>3, <1>4

(* A reservation keeps what every slot of the window holds and adds to     *)
(* the present one: the slots it empties are older.                        *)
LEMMA ReservationCounts ==
  ASSUME NEW m, IsMeter(m), NEW now \in Int, m.time <= Slot(now), NEW c \in Nat
  PROVE  LET n == Inc(m, c, now)
         IN /\ IsMeter(n) /\ n.time = Slot(now)
            /\ \A u \in Int : Slot(now) - WindowSize <= u /\ u <= Slot(now) => Held(m, u) + c <= Held(n, u)
<1> DEFINE n == Inc(m, c, now)
           t == Slot(now)
           F == Ring(m)
           G == Ring(n)
           cleared == Cleared(m, t)
<1>1. t \in Int /\ m.time \in Int /\ m.window \in [0 .. WindowSize -> Nat] /\ m.time <= t
  BY SlotsOrdered DEF IsMeter
<1>2. ToTime(m, now) = t
  BY <1>1 DEF ToTime, Slot
<1>3. n.time = t /\ n.window = [cleared EXCEPT ![t % WinLen] = @ + c]
  BY <1>2 DEF Inc
<1>4. cleared \in [0 .. WindowSize -> Nat]
  BY <1>1 DEF Cleared, NewMeter
<1>5. \A v \in Int : v % WinLen \in 0 .. WindowSize
  BY MeterSizes, Divided
<1>6. ASSUME NEW v \in Int, t - WindowSize <= v, v <= m.time
      PROVE  cleared[v % WinLen] = m.window[v % WinLen]
  <2>1. m.time > t - WinLen
    BY <1>1, <1>6, MeterSizes
  <2>2. ASSUME NEW d \in (m.time - WinLen + 1) .. (t - WinLen) PROVE d % WinLen # v % WinLen
    <3>1. d \in Int /\ d < v /\ v < d + WinLen /\ WinLen \in Nat /\ WinLen > 0
      BY <1>1, <1>6, MeterSizes
    <3> QED BY <3>1, ResiduesDiffer
  <2>3. v % WinLen \in DOMAIN m.window
    BY <1>1, <1>5
  <2> QED BY <2>1, <2>2, <2>3 DEF Cleared
<1> HIDE DEF cleared, n
<1>7. IsMeter(n)
  <2>1. t % WinLen \in 0 .. WindowSize
    BY <1>1, <1>5
  <2>2. cleared[t % WinLen] + c \in Nat
    BY <1>4, <2>1
  <2>3. n.window \in [0 .. WindowSize -> Nat]
    BY <1>3, <1>4, <2>1, <2>2
  <2> QED BY <1>1, <1>3, <2>3 DEF IsMeter
<1>8. F \in [Int -> Nat] /\ G \in [Int -> Nat]
  BY <1>7, RingCounts
<1>9. G[t] = cleared[t % WinLen] + c /\ cleared[t % WinLen] \in Nat
  BY <1>1, <1>3, <1>4, <1>5 DEF Ring
<1>10. ASSUME NEW v \in Int, t - WindowSize <= v, v <= m.time
       PROVE  /\ F[v] <= G[v]
              /\ v = t => F[v] + c = G[v]
  <2>1. F[v] = cleared[v % WinLen] /\ F[v] \in Nat
    BY <1>6, <1>8, <1>10 DEF Ring
  <2>2. G[v] = IF v % WinLen = t % WinLen THEN cleared[v % WinLen] + c ELSE cleared[v % WinLen]
    BY <1>3, <1>4, <1>5 DEF Ring
  <2> QED BY <2>1, <2>2
<1> HIDE DEF F, G, t
<1>11. ASSUME NEW u \in Int, t - WindowSize <= u, u <= t
       PROVE  Held(m, u) + c <= Held(n, u)
  <2> DEFINE rest == u .. t - 1
  <2>1. Total(G, u .. t) = G[t] + Total(G, rest) /\ Total(G, rest) \in Nat /\ G[t] \in Nat
    <3>1. u .. t \subseteq Int /\ rest \subseteq Int /\ t - 1 \in Int
      BY <1>1
    <3>2. Total(G, u .. t) = G[t] + Total(G, u .. t - 1) /\ G[t] \in Nat
      BY <1>1, <1>8, <1>11, <3>1, TotalOfInterval
    <3>3. Total(G, rest) \in Nat
      BY <1>8, <3>1, TotalOfInterval
    <3> QED BY <3>2, <3>3
  <2>2. IsFiniteSet(rest) /\ rest \subseteq Int
    BY <1>1, FS_Interval
  <2>3. CASE m.time = t
    <3>1. Total(F, u .. t) = F[t] + Total(F, rest) /\ F[t] \in Nat
      <4>1. u .. t \subseteq Int
        BY <1>1
      <4> QED BY <1>1, <1>8, <1>11, <4>1, TotalOfInterval
    <3>2. \A v \in rest : F[v] <= G[v]
      <4> TAKE v \in rest
      <4>1. v \in Int /\ t - WindowSize <= v /\ v <= m.time
        BY <1>1, <1>11, <2>3, MeterSizes
      <4> QED BY <1>10, <4>1
    <3>3. Total(F, rest) <= Total(G, rest)
      <4>1. rest \in SUBSET rest
        OBVIOUS
      <4> HIDE DEF rest
      <4> QED BY <1>8, <2>2, <3>2, <4>1, TotalMonotone
    <3>4. F[t] + c = G[t]
      BY <1>1, <1>10, <2>3, MeterSizes
    <3>5. Total(F, rest) \in Nat
      <4> HIDE DEF rest
      <4> QED BY <1>8, <2>2, TotalIsNat
    <3>6. Total(F, u .. t) + c <= Total(G, u .. t)
      <4> HIDE DEF rest
      <4> QED BY <2>1, <3>1, <3>3, <3>4, <3>5
    <3> QED BY <1>3, <2>3, <3>6 DEF Held, F, G
  <2>4. CASE m.time < t
    <3> DEFINE held == u .. m.time
    <3>1. held \in SUBSET rest /\ held \subseteq Int
      BY <1>1, <2>4
    <3>2. \A v \in held : F[v] <= G[v]
      <4> TAKE v \in held
      <4>1. v \in Int /\ t - WindowSize <= v /\ v <= m.time
        BY <1>1, <1>11, MeterSizes
      <4> QED BY <1>10, <4>1
    <3>3. IsFiniteSet(held)
      BY <1>1, FS_Interval
    <3> HIDE DEF held, rest
    <3>4. Total(F, held) <= Total(G, rest)
      BY <1>8, <2>2, <3>1, <3>2, TotalMonotone
    <3>5. Total(F, held) \in Nat
      BY <1>8, <3>1, <3>3, TotalIsNat
    <3>6. Total(F, held) + c <= Total(G, u .. t)
      BY <1>9, <2>1, <3>4, <3>5
    <3> QED BY <1>3, <3>6 DEF Held, F, G, held
  <2> QED BY <1>1, <2>3, <2>4
<1> QED BY <1>3, <1>7, <1>11 DEF n, t

-----------------------------------------------------------------------------
(* What the code keeps by slots bounds what is let through by ticks.       *)

(* No job is without calls.                                                *)
JobsHaveCalls == \A j \in jobs : j.lo <= j.hi

(* In every stretch of k ticks that ends now and is not longer than the    *)
(* window, no more was let through than the ring holds from the slot of    *)
(* its first tick on; and in the longest no more than the limit.           *)
Metered ==
  /\ clock \in Nat /\ IsMeter(meter) /\ meter.time <= Slot(clock)
  /\ recent \in [1 .. Ticks -> Nat]
  /\ \A k \in 0 .. Ticks : Total(recent, 1 .. k) <= Held(meter, Slot(clock - k + 1))
  /\ Total(recent, 1 .. Ticks) <= config.per_window

(* What a chunk begins with and a batch is split into has calls.           *)
LEMMA JobsHaveCallsStep ==
  ASSUME Coverage, JobsHaveCalls, [Next]_vars
  PROVE  JobsHaveCalls'
<1> DEFINE m == config.max_batch
<1>0. /\ TypeOK /\ jobs \subseteq JobState /\ m \in Nat /\ m > 0
      /\ started \in Nat /\ CallCount \in Nat
  BY RequestAssumption DEF Coverage, TypeOK
<1>1. ASSUME StartChunk PROVE JobsHaveCalls'
  <2> DEFINE n == Job(started + 1, started * m + 1, ChunkEnd(started + 1))
             all == CallCount + m - 1
  <2>1. jobs' = jobs \cup {n} /\ started < all \div m
    BY <1>1 DEF StartChunk, ChunkCount
  <2>2. n.lo = started * m + 1 /\ n.hi = ChunkEnd(started + 1)
    BY DEF Job
  <2>3. /\ all \div m \in Int /\ all = (all \div m) * m + (all % m) /\ all % m < m /\ all % m \in Nat
    <3>1. all \in Int
      BY <1>0
    <3> HIDE DEF all, m
    <3> QED BY <1>0, <3>1, Divided
  <2>4. started + 1 <= all \div m
    <3> HIDE DEF all, m
    <3> QED BY <1>0, <2>1, <2>3
  <2>5. (started + 1) * m <= (all \div m) * m /\ (started + 1) * m = started * m + m /\ started * m \in Int
    <3> HIDE DEF all, m
    <3>1. (started + 1) * m <= (all \div m) * m
      <4> DEFINE a == started + 1
                 q == all \div m
      <4>1. a \in Int /\ q \in Int /\ a <= q
        BY <1>0, <2>3, <2>4
      <4> HIDE DEF a, q
      <4>2. a * m <= q * m
        BY <1>0, <4>1, ProductsOrdered
      <4> QED BY <4>2 DEF a, q
    <3>2. (started + 1) * m = started * m + m /\ started * m \in Int
      BY <1>0
    <3> QED BY <3>1, <3>2
  <2>6. started * m + m <= all
    <3> HIDE DEF all, m
    <3> DEFINE whole == (all \div m) * m
    <3>1. whole \in Int
      BY <1>0, <2>3
    <3>2. all = whole + (all % m) /\ all % m \in Nat /\ started * m + m <= whole /\ started * m + m \in Int
      BY <1>0, <2>3, <2>5
    <3> HIDE DEF whole
    <3> QED BY <3>1, <3>2
  <2>7. n.lo <= n.hi
    <3>1. started * m + 1 <= CallCount /\ started * m + 1 <= (started + 1) * m
      <4> HIDE DEF m
      <4> QED BY <1>0, <2>5, <2>6 DEF all
    <3> QED BY <2>2, <3>1 DEF ChunkEnd
  <2> HIDE DEF n
  <2> QED BY <2>1, <2>7 DEF JobsHaveCalls
<1>2. ASSUME NEW j \in jobs, NEW N, jobs' \subseteq (jobs \ {j}) \cup N, \A n \in N : n.lo <= n.hi
      PROVE  JobsHaveCalls'
  BY <1>2 DEF JobsHaveCalls
<1>3. \A j \in jobs : /\ j.lo <= j.hi
                      /\ \A pc : [j EXCEPT !.pc = pc].lo = j.lo /\ [j EXCEPT !.pc = pc].hi = j.hi
                      /\ Again(j).lo = j.lo /\ Again(j).hi = j.hi
  BY <1>0 DEF JobsHaveCalls, JobState, Again
<1>4. \A j \in jobs : Size(j) > 1 => \A n \in Halves(j) : n.lo <= n.hi
  <2> TAKE j \in jobs
  <2> HAVE Size(j) > 1
  <2>1. j.lo \in Int /\ j.hi \in Int /\ j.hi > j.lo
    BY <1>0 DEF JobState, Size
  <2>2. Mid(j) \in Int /\ j.lo <= Mid(j) /\ Mid(j) < j.hi
    BY <2>1 DEF Mid, Size
  <2> QED BY <2>1, <2>2 DEF Halves, Job
<1>5. ASSUME NEW j \in jobs, Reserve(j) \/ AcquirePermit(j) PROVE JobsHaveCalls'
  <2>1. PICK pc : jobs' = (jobs \ {j}) \cup {[j EXCEPT !.pc = pc]}
    BY <1>5 DEF Reserve, AcquirePermit, Advance
  <2> DEFINE n == [j EXCEPT !.pc = pc]
  <2>2. n.lo <= n.hi
    BY <1>3
  <2> HIDE DEF n
  <2>3. \A x \in {n} : x.lo <= x.hi
    BY <2>2
  <2>4. jobs' \subseteq (jobs \ {j}) \cup {n}
    BY <2>1 DEF n
  <2> QED BY <1>2, <2>3, <2>4
<1>6. ASSUME NEW j \in jobs, Server(j) PROVE JobsHaveCalls'
  <2>1. ASSUME jobs' = jobs \ {j} PROVE JobsHaveCalls'
    BY <2>1 DEF JobsHaveCalls
  <2>2. ASSUME jobs' = (jobs \ {j}) \cup {Again(j)} PROVE JobsHaveCalls'
    BY <1>2, <1>3, <2>2
  <2>3. ASSUME jobs' = (jobs \ {j}) \cup Halves(j), Size(j) > 1 PROVE JobsHaveCalls'
    BY <1>2, <1>4, <2>3
  <2>4. \/ jobs' = jobs \ {j}
        \/ jobs' = (jobs \ {j}) \cup {Again(j)}
        \/ jobs' = (jobs \ {j}) \cup Halves(j) /\ Size(j) > 1
    <3>1. ASSUME NEW e, FailBatch(j, e)
          PROVE  \/ jobs' = jobs \ {j}
                 \/ jobs' = (jobs \ {j}) \cup {Again(j)}
                 \/ jobs' = (jobs \ {j}) \cup Halves(j) /\ Size(j) > 1
      BY <3>1 DEF FailBatch
    <3>2. ASSUME NEW e, FailSingle(j, e)
          PROVE  \/ jobs' = jobs \ {j}
                 \/ jobs' = (jobs \ {j}) \cup {Again(j)}
      BY <3>2 DEF FailSingle
    <3> QED BY <1>6, <3>1, <3>2 DEF Server, AnswerSingle, AnswerBatch
  <2> QED BY <2>1, <2>2, <2>3, <2>4
<1>7. ASSUME CollectChunk \/ DropRequest \/ Tick \/ UNCHANGED vars PROVE JobsHaveCalls'
  <2>1. jobs' = {} \/ jobs' = jobs
    BY <1>7 DEF CollectChunk, DropRequest, Tick, vars
  <2> QED BY <2>1 DEF JobsHaveCalls
<1> QED BY <1>1, <1>5, <1>6, <1>7 DEF Next, Client

(* A reservation that the meter admits keeps the limit.                    *)
LEMMA ReserveMetered ==
  ASSUME Coverage, JobsHaveCalls, Metered, NEW j \in jobs, Reserve(j)
  PROVE  Metered'
<1> DEFINE c == Size(j)
           t == Slot(clock)
           n == Inc(meter, c, clock)
<1>1. c \in Nat
  BY DEF Coverage, TypeOK, JobState, JobsHaveCalls, Size
<1>2. /\ clock \in Nat /\ IsMeter(meter) /\ meter.time <= t /\ recent \in [1 .. Ticks -> Nat]
      /\ config.per_window \in Nat /\ t \in Int
  <2>1. clock \in Nat /\ IsMeter(meter) /\ meter.time <= t /\ recent \in [1 .. Ticks -> Nat]
    BY DEF Metered
  <2>2. config.per_window \in Nat
    BY DEF Coverage, TypeOK
  <2>3. clock \in Int /\ clock <= clock
    BY <2>1
  <2>4. t \in Int
    BY <2>3, SlotsOrdered
  <2> QED BY <2>1, <2>2, <2>4
<1>3. /\ clock' = clock /\ config' = config /\ meter' = n
      /\ recent' = [recent EXCEPT ![1] = @ + c] /\ GetRate(meter, clock) + c <= config.per_window
  BY DEF Reserve, Admits
<1>4. ToTime(meter, clock) = t
  BY <1>2 DEF ToTime, Slot, IsMeter
<1> HIDE DEF c
<1>5. /\ IsMeter(n) /\ n.time = t
      /\ \A u \in Int : t - WindowSize <= u /\ u <= t => Held(meter, u) + c <= Held(n, u)
  BY <1>1, <1>2, ReservationCounts
<1>6. recent' \in [1 .. Ticks -> Nat]
  <2>1. 1 \in 1 .. Ticks
    BY MeterSizes
  <2>2. recent[1] + c \in Nat
    BY <1>1, <1>2, <2>1
  <2> QED BY <1>2, <1>3, <2>1, <2>2
<1>7. ASSUME NEW k \in 1 .. Ticks
      PROVE  /\ Slot(clock - k + 1) \in Int /\ t - WindowSize <= Slot(clock - k + 1) /\ Slot(clock - k + 1) <= t
             /\ Total(recent', 1 .. k) = Total(recent, 1 .. k) + c /\ Total(recent, 1 .. k) \in Nat
             /\ Total(recent, 1 .. k) <= Held(meter, Slot(clock - k + 1))
  <2>1. /\ k \in Nat /\ k > 0 /\ 1 .. k \subseteq 1 .. Ticks /\ k \in 0 .. Ticks
        /\ clock - k + 1 \in Int /\ clock - k + 1 <= clock /\ clock - Ticks + 1 \in Int
        /\ clock - Ticks + 1 <= clock - k + 1
    BY <1>2, MeterSizes
  <2>2. /\ Slot(clock - k + 1) \in Int /\ Slot(clock - k + 1) <= t
        /\ Slot(clock - Ticks + 1) \in Int /\ Slot(clock - Ticks + 1) <= Slot(clock - k + 1)
    <3>1. Slot(clock - k + 1) \in Int /\ Slot(clock - k + 1) <= t
      BY <1>2, <2>1, SlotsOrdered
    <3>2. Slot(clock - Ticks + 1) \in Int /\ Slot(clock - Ticks + 1) <= Slot(clock - k + 1)
      BY <2>1, SlotsOrdered
    <3> QED BY <3>1, <3>2
  <2>3. t - WindowSize <= Slot(clock - Ticks + 1)
    BY <1>2, OldestSlot
  <2>4. Total(recent', 1 .. k) = Total(recent, 1 .. k) + c
    <3> DEFINE D == 1 .. Ticks
    <3>1. /\ recent \in [D -> Nat] /\ recent' \in [D -> Nat] /\ 1 .. k \subseteq D /\ 1 \in D
          /\ recent'[1] = recent[1] + c /\ \A i \in D : i # 1 => recent'[i] = recent[i]
      BY <1>2, <1>3, <1>6, <2>1, MeterSizes
    <3> HIDE DEF D
    <3> QED BY <1>1, <2>1, <3>1, RaisedTotals
  <2>5. Total(recent, 1 .. k) \in Nat
    <3>1. IsFiniteSet(1 .. k)
      BY <2>1, FS_Interval
    <3> QED BY <1>2, <2>1, <3>1, TotalIsNat
  <2>6. Total(recent, 1 .. k) <= Held(meter, Slot(clock - k + 1))
    BY <2>1 DEF Metered
  <2> QED BY <1>2, <1>3, <2>2, <2>3, <2>4, <2>5, <2>6, MeterSizes
<1>8. ASSUME NEW k \in 0 .. Ticks
      PROVE  Total(recent', 1 .. k) <= Held(n, Slot(clock - k + 1))
  <2>1. CASE k = 0
    <3>1. Total(recent', 1 .. 0) = 0
      <4>1. 1 .. 0 = {}
        OBVIOUS
      <4>2. Total(recent', {}) = 0
        BY FS_EmptySet, TotalUnfolds
      <4> QED BY <4>1, <4>2
    <3>2. Slot(clock - k + 1) \in Int
      BY <1>2, <2>1, SlotsOrdered
    <3>3. Held(n, Slot(clock - k + 1)) \in Nat
      BY <1>5, <3>2, RingCounts
    <3> QED BY <2>1, <3>1, <3>3
  <2>2. CASE k # 0
    <3> DEFINE u == Slot(clock - k + 1)
    <3>1. k \in 1 .. Ticks
      BY <2>2
    <3>2. /\ u \in Int /\ t - WindowSize <= u /\ u <= t
          /\ Total(recent', 1 .. k) = Total(recent, 1 .. k) + c /\ Total(recent, 1 .. k) \in Nat
          /\ Total(recent, 1 .. k) <= Held(meter, u)
      BY <1>7, <3>1
    <3> HIDE DEF u, t, n
    <3>3. Held(meter, u) + c <= Held(n, u) /\ Held(meter, u) \in Nat /\ Held(n, u) \in Nat
      BY <1>2, <1>5, <3>2, RingCounts
    <3>4. Total(recent', 1 .. k) <= Held(n, u)
      BY <1>1, <3>2, <3>3
    <3> QED BY <3>4 DEF u
  <2> QED BY <2>1, <2>2
<1>9. Total(recent', 1 .. Ticks) <= config.per_window
  <2> DEFINE u == Slot(clock - Ticks + 1)
             a == t - WinLen + 1
  <2>1. Ticks \in 1 .. Ticks /\ a = t - WindowSize /\ a \in Int
    BY <1>2, MeterSizes
  <2>2. /\ u \in Int /\ t - WindowSize <= u
        /\ Total(recent', 1 .. Ticks) = Total(recent, 1 .. Ticks) + c /\ Total(recent, 1 .. Ticks) \in Nat
        /\ Total(recent, 1 .. Ticks) <= Held(meter, u)
    BY <1>7, <2>1
  <2>3. GetRate(meter, clock) = Held(meter, a)
    BY <1>2, <1>4, RateIsHeld DEF IsMeter
  <2> HIDE DEF u, a, t
  <2>4. Held(meter, u) <= Held(meter, a) /\ Held(meter, u) \in Nat /\ Held(meter, a) \in Nat
    BY <1>2, <2>1, <2>2, RingCounts
  <2> QED BY <1>1, <1>2, <1>3, <2>2, <2>3, <2>4
<1> HIDE DEF n
<1>10. /\ clock' \in Nat /\ IsMeter(meter') /\ meter.time' <= Slot(clock')
  BY <1>2, <1>3, <1>5
<1>11. ASSUME NEW k \in 0 .. Ticks PROVE Total(recent', 1 .. k) <= Held(meter', Slot(clock' - k + 1))
  BY <1>3, <1>8
<1> QED BY <1>3, <1>6, <1>9, <1>10, <1>11 DEF Metered

(* A tick moves the stretches with it.                                     *)
LEMMA TickMetered ==
  ASSUME Coverage, Metered, Tick
  PROVE  Metered'
<1>1. /\ clock \in Nat /\ IsMeter(meter) /\ meter.time <= Slot(clock) /\ recent \in [1 .. Ticks -> Nat]
      /\ config.per_window \in Nat /\ clock + 1 \in Nat /\ meter.time \in Int
  BY DEF Metered, Coverage, TypeOK, IsMeter
<1>2. /\ clock' = clock + 1 /\ UNCHANGED <<config, meter>>
      /\ recent' = [i \in 1 .. Ticks |-> IF i = 1 THEN 0 ELSE recent[i - 1]]
  BY <1>1 DEF Tick
<1>3. recent' \in [1 .. Ticks -> Nat] /\ recent'[1] = 0 /\ \A i \in 2 .. Ticks : recent'[i] = recent[i - 1]
  BY <1>1, <1>2, MeterSizes
<1>4. \A k \in 1 .. Ticks : Total(recent', 1 .. k) = Total(recent, 1 .. k - 1)
  <2>1. Ticks \in Nat /\ Ticks > 0 /\ recent \in [1 .. Ticks -> Nat]
    BY <1>1, MeterSizes
  <2> QED BY <1>3, <2>1, ShiftedTotals
<1>5. Slot(clock) <= Slot(clock') /\ Slot(clock) \in Int /\ Slot(clock') \in Int
  <2>1. clock \in Int /\ clock' \in Int /\ clock <= clock'
    BY <1>1, <1>2
  <2> QED BY <2>1, SlotsOrdered
<1>6. ASSUME NEW k \in 0 .. Ticks
      PROVE  Total(recent', 1 .. k) <= Held(meter, Slot(clock' - k + 1))
  <2>1. CASE k = 0
    <3>1. Total(recent', 1 .. 0) = 0
      <4>1. 1 .. 0 = {}
        OBVIOUS
      <4>2. Total(recent', {}) = 0
        BY FS_EmptySet, TotalUnfolds
      <4> QED BY <4>1, <4>2
    <3>2. Slot(clock' - k + 1) \in Int
      BY <1>1, <1>2, <2>1, SlotsOrdered
    <3>3. Held(meter, Slot(clock' - k + 1)) \in Nat
      BY <1>1, <3>2, RingCounts
    <3> QED BY <2>1, <3>1, <3>3
  <2>2. CASE k # 0
    <3>1. k \in 1 .. Ticks /\ k - 1 \in 0 .. Ticks /\ clock' - k + 1 = clock - (k - 1) + 1
      <4>1. k \in Int /\ 0 <= k /\ k <= Ticks /\ Ticks \in Int
        BY MeterSizes
      <4>2. clock' = clock + 1 /\ clock \in Int
        BY <1>1, <1>2
      <4> QED BY <2>2, <4>1, <4>2
    <3>2. Total(recent, 1 .. k - 1) <= Held(meter, Slot(clock - (k - 1) + 1))
      BY <3>1 DEF Metered
    <3> QED BY <1>4, <3>1, <3>2
  <2> QED BY <2>1, <2>2
<1>7. Total(recent', 1 .. Ticks) <= config.per_window
  <2> DEFINE D == 1 .. Ticks
             T == 1 .. Ticks - 1
  <2>1. Ticks \in 1 .. Ticks /\ T \in SUBSET D
    BY MeterSizes
  <2>2. IsFiniteSet(D) /\ IsFiniteSet(T)
    BY <2>1, MeterSizes, FS_Interval, FS_Subset
  <2>3. recent \in [D -> Nat] /\ T \subseteq D /\ \A x \in T : recent[x] <= recent[x]
    BY <1>1, <2>1
  <2>4. Total(recent', D) = Total(recent, T)
    BY <1>4, <2>1
  <2>5. Total(recent, D) <= config.per_window
    BY DEF Metered
  <2> HIDE DEF D, T
  <2>6. Total(recent, T) <= Total(recent, D)
    BY <2>1, <2>2, <2>3, TotalMonotone
  <2>7. Total(recent, T) \in Nat
    BY <2>2, <2>3, TotalIsNat
  <2>8. Total(recent, D) \in Nat
    BY <2>2, <2>3, TotalIsNat
  <2>9. Total(recent', D) <= config.per_window
    BY <1>1, <2>4, <2>5, <2>6, <2>7, <2>8
  <2> QED BY <2>9 DEF D
<1> QED BY <1>1, <1>2, <1>3, <1>5, <1>6, <1>7 DEF Metered

(* Every behaviour keeps the meter and the exact counts in step.           *)
THEOREM MeteredHolds == Spec => [](JobsHaveCalls /\ Metered)
<1>1. Init => JobsHaveCalls /\ Metered
  <2> SUFFICES ASSUME Init PROVE JobsHaveCalls /\ Metered
    OBVIOUS
  <2>1. /\ clock = 0 /\ meter = NewMeter /\ jobs = {} /\ config \in Configs
        /\ recent = [i \in 1 .. Ticks |-> 0]
    BY DEF Init, Ticks
  <2>2. config.per_window \in Nat
    BY <2>1, ConfigsAssumption
  <2>3. IsMeter(meter) /\ meter.time = 0
    BY <2>1 DEF IsMeter, NewMeter
  <2>4. Slot(0) \in Int /\ 0 <= Slot(0)
    <3>1. SlotTime - 1 \in Int /\ SlotTime \in Nat /\ SlotTime > 0 /\ 0 <= SlotTime - 1 /\ SlotTime - 1 < SlotTime
      BY MeterSizes
    <3>2. Slot(0) = (SlotTime - 1) \div SlotTime
      <4>1. 0 + SlotTime - 1 = SlotTime - 1
        BY <3>1
      <4> QED BY <4>1 DEF Slot
    <3> QED BY <3>1, <3>2
  <2>5. recent \in [1 .. Ticks -> Nat] /\ \A i \in 1 .. Ticks : recent[i] = 0
    BY <2>1
  <2>6. ASSUME NEW k \in 0 .. Ticks PROVE Total(recent, 1 .. k) = 0
    <3> DEFINE Good == {i \in Nat : i <= Ticks => Total(recent, 1 .. i) = 0}
    <3>1. 0 \in Good
      <4>1. 1 .. 0 = {}
        OBVIOUS
      <4>2. Total(recent, {}) = 0
        BY FS_EmptySet, TotalUnfolds
      <4> QED BY <4>1, <4>2
    <3>2. ASSUME NEW i \in Nat, i \in Good PROVE i + 1 \in Good
      <4> SUFFICES ASSUME i + 1 <= Ticks PROVE Total(recent, 1 .. i + 1) = 0
        OBVIOUS
      <4> DEFINE b == i + 1
      <4>1. b \in Int /\ 1 .. b \subseteq 1 .. Ticks /\ 1 <= b /\ b - 1 = i /\ b \in 1 .. Ticks
        BY MeterSizes
      <4>2. Total(recent, 1 .. i) = 0
        BY <3>2, MeterSizes
      <4> HIDE DEF b
      <4>3. Total(recent, 1 .. b) = recent[b] + Total(recent, 1 .. b - 1)
        <5> DEFINE D == 1 .. Ticks
        <5>1. recent \in [D -> Nat] /\ 1 .. b \subseteq D /\ 1 \in Int
          BY <2>5, <4>1
        <5> HIDE DEF D
        <5> QED BY <4>1, <5>1, TotalOfInterval
      <4>4. Total(recent, 1 .. b) = 0
        BY <2>5, <4>1, <4>2, <4>3
      <4> QED BY <4>4 DEF b
    <3>3. Nat \subseteq Good
      <4> HIDE DEF Good
      <4> QED BY <3>1, <3>2, SetInduction
    <3> QED BY <3>3, MeterSizes
  <2>7. ASSUME NEW k \in 0 .. Ticks PROVE Total(recent, 1 .. k) <= Held(meter, Slot(clock - k + 1))
    <3>1. clock - k + 1 \in Int
      BY <2>1
    <3>2. Slot(clock - k + 1) \in Int
      BY <3>1, SlotsOrdered
    <3>3. Held(meter, Slot(clock - k + 1)) \in Nat
      BY <2>3, <3>2, RingCounts
    <3> QED BY <2>6, <3>3
  <2>8. Total(recent, 1 .. Ticks) <= config.per_window
    BY <2>2, <2>6, MeterSizes
  <2> QED BY <2>1, <2>3, <2>4, <2>5, <2>7, <2>8 DEF Metered, JobsHaveCalls
<1>2. Coverage /\ JobsHaveCalls /\ Metered /\ [Next]_vars => (JobsHaveCalls /\ Metered)'
  <2> SUFFICES ASSUME Coverage, JobsHaveCalls, Metered, [Next]_vars PROVE (JobsHaveCalls /\ Metered)'
    OBVIOUS
  <2>1. JobsHaveCalls'
    BY JobsHaveCallsStep
  <2>2. ASSUME UNCHANGED <<config, meter, clock, recent>> PROVE Metered'
    BY <2>2 DEF Metered, IsMeter
  <2>3. \/ Tick \/ \E j \in jobs : Reserve(j)
        \/ UNCHANGED <<config, meter, clock, recent>>
    BY DEF Next, Client, Server, StartChunk, CollectChunk, AcquirePermit, AnswerSingle, AnswerBatch,
           FailSingle, FailBatch, DropRequest, vars
  <2> QED BY <2>1, <2>2, <2>3, ReserveMetered, TickMetered
<1> QED BY <1>1, <1>2, CoverageHolds, PTL DEF Spec

(* In no stretch of one window's length are more calls let through than    *)
(* the limit allows, for every width of the slots, length of the window,   *)
(* limit and pattern of batches, splits and retries, wherever in its slot  *)
(* each reservation fell (wait_for_rate, RateMeter).                       *)
THEOREM RateKept == Spec => []WindowNeverExceeded
<1>1. Metered => WindowNeverExceeded
  <2> SUFFICES ASSUME Metered PROVE WindowNeverExceeded
    OBVIOUS
  <2>1. DOMAIN recent = 1 .. Ticks /\ Total(recent, 1 .. Ticks) <= config.per_window
    BY DEF Metered
  <2> QED BY <2>1 DEF WindowNeverExceeded, Total
<1> QED BY <1>1, MeteredHolds, PTL

-----------------------------------------------------------------------------
(* The WebSocket transport, beneath other requests.                        *)

AllIds == UNION {Ids(c) : c \in Calls}

CallState ==
  [pc : {"idle", "joining", "holding", "sampled", "waiting", "resetting", "taking", "done"},
   on : Dials \cup {None}, gen : Nat, error : {None, "retryable", "protocol"}]

WsTypeOK ==
  /\ generation \in Nat
  /\ active \in Dials \cup {None} /\ dialing \in Dials \cup {None}
  /\ gen \in [Dials -> Nat]
  /\ reader \in [Dials -> {"none", "up", "lost", "unknown", "taking", "gone"}]
  /\ responders \in [Dials -> SUBSET AllIds]
  /\ batches \in [Dials -> SUBSET SUBSET AllIds]
  /\ owed \in [Dials -> SUBSET AllIds]
  /\ call \in [Calls -> CallState]
  /\ got \in [Calls -> SUBSET AllIds]
  /\ shorted \subseteq Calls /\ drained \subseteq Dials

Connected == {"joining", "holding", "sampled", "waiting"}

(* A call that has a connection, or waits for one, knows which.            *)
CallsHaveDials == \A c \in Calls : call[c].pc \in Connected => call[c].on \in Dials

(* What a batch still expects are ids of one call.                         *)
GroupsAreCalls == \A d \in Dials : \A g \in batches[d] : \E c \in Calls : g \subseteq Ids(c)

(* On a handle no reset has drained, every id the server owes an answer to *)
(* has its sender, and so has every id a waiting call is still without.    *)
Accounted(d) ==
  /\ reader[d] # "unknown"
  /\ owed[d] \subseteq responders[d]
  /\ \A c \in Calls : At(c, "waiting") /\ call[c].on = d => Ids(c) \subseteq got[c] \cup responders[d]

(* The inductive invariant behind SiblingsUndisturbed.                     *)
Accounting ==
  /\ WsTypeOK /\ CallsHaveDials /\ GroupsAreCalls
  /\ shorted = {} => \A d \in Dials \ drained : Accounted(d)

(* With no call made yet, nothing is owed and nothing is registered.       *)
LEMMA AccountingInit == WsInit => Accounting
<1> SUFFICES ASSUME WsInit PROVE Accounting
  OBVIOUS
<1>1. [Over(None) EXCEPT !.pc = "idle"] \in CallState
  BY DEF Over, CallState
<1>2. \A c \in Calls : call[c].pc = "idle"
  BY DEF WsInit, Over
<1>3. WsTypeOK
  BY <1>1 DEF WsInit, WsTypeOK
<1> QED BY <1>2, <1>3 DEF WsInit, Accounting, CallsHaveDials, Connected, GroupsAreCalls, Accounted, At

(* A step of one caller that registers nothing and starts no wait.         *)
LEMMA QuietStep ==
  ASSUME Accounting, NEW c \in Calls, NEW r \in CallState,
         r.pc # "waiting", r.pc \in Connected => r.on \in Dials,
         call' = [call EXCEPT ![c] = r],
         got' = got \/ got' = [got EXCEPT ![c] = {}],
         generation' \in Nat, active' \in Dials \cup {None}, dialing' \in Dials \cup {None},
         UNCHANGED <<gen, reader, pendingVars, shorted, drained>>
  PROVE  Accounting'
<1>1. WsTypeOK'
  BY DEF Accounting, WsTypeOK, pendingVars
<1>2. /\ \A e \in Calls \ {c} : call'[e] = call[e] /\ got'[e] = got[e]
      /\ call'[c] = r
  BY DEF Accounting, WsTypeOK
<1>3. CallsHaveDials'
  BY <1>2 DEF Accounting, CallsHaveDials
<1>4. GroupsAreCalls'
  BY DEF Accounting, GroupsAreCalls, pendingVars
<1>5. ASSUME NEW d \in Dials, Accounted(d) PROVE Accounted(d)'
  BY <1>2, <1>5 DEF Accounted, At, pendingVars
<1> QED BY <1>1, <1>3, <1>4, <1>5 DEF Accounting

(* A reset drops the senders of the handle it takes.                       *)
LEMMA TakeStep ==
  ASSUME Accounting, TakeActive, UNCHANGED <<gen, got, shorted>>,
         call' \in [Calls -> CallState],
         \A c \in Calls : call'[c] = call[c] \/ call'[c].pc = "done",
         reader' \in [Dials -> {"none", "up", "lost", "unknown", "taking", "gone"}],
         \A d \in Dials : reader'[d] = reader[d] \/ reader'[d] = "gone"
  PROVE  Accounting'
<1>1. WsTypeOK'
  BY DEF Accounting, WsTypeOK, TakeActive
<1>2. CallsHaveDials'
  BY DEF Accounting, CallsHaveDials, Connected
<1>3. GroupsAreCalls'
  BY DEF Accounting, WsTypeOK, GroupsAreCalls, TakeActive
<1>4. ASSUME NEW d \in Dials \ drained' PROVE d \in Dials \ drained /\ responders'[d] = responders[d]
  BY <1>4 DEF Accounting, WsTypeOK, TakeActive
<1>5. ASSUME NEW d \in Dials \ drained', Accounted(d) PROVE Accounted(d)'
  BY <1>4, <1>5 DEF Accounted, At, TakeActive
<1> QED BY <1>1, <1>2, <1>3, <1>4, <1>5 DEF Accounting

(* A step of the tasks of a handle that routes nothing.                    *)
LEMMA TaskStep ==
  ASSUME Accounting, NEW d \in Dials,
         generation' \in Nat, gen' \in [Dials -> Nat],
         reader' \in [Dials -> {"none", "up", "lost", "unknown", "taking", "gone"}],
         \A e \in Dials : reader'[e] = reader[e] \/ reader'[e] # "unknown",
         owed' \in [Dials -> SUBSET AllIds], \A e \in Dials : owed'[e] \subseteq owed[e],
         UNCHANGED <<active, dialing, responders, batches, callVars>>
  PROVE  Accounting'
BY DEF Accounting, WsTypeOK, CallsHaveDials, GroupsAreCalls, Accounted, At, callVars

(* Taking ids out of a handle leaves the groups parts of calls.            *)
LEMMA UnregisterTypes ==
  ASSUME Accounting, NEW d \in Dials, NEW ids, Unregister(d, ids)
  PROVE  /\ responders' \in [Dials -> SUBSET AllIds]
         /\ batches' \in [Dials -> SUBSET SUBSET AllIds]
         /\ \A e \in Dials \ {d} : responders'[e] = responders[e]
         /\ responders'[d] = responders[d] \ ids
         /\ GroupsAreCalls'
<1>1. /\ \A e \in Dials \ {d} : responders'[e] = responders[e] /\ batches'[e] = batches[e]
      /\ responders'[d] = responders[d] \ ids /\ batches'[d] = Without(batches[d], ids)
  BY DEF Accounting, WsTypeOK, Unregister
<1>2. \A g \in Without(batches[d], ids) : \E h \in batches[d] : g \subseteq h
  BY DEF Without
<1>3. GroupsAreCalls'
  <2> SUFFICES ASSUME NEW e \in Dials, NEW g \in batches'[e] PROVE \E c \in Calls : g \subseteq Ids(c)
    BY DEF GroupsAreCalls
  <2>1. \E h \in batches[e] : g \subseteq h
    BY <1>1, <1>2
  <2> QED BY <2>1 DEF Accounting, GroupsAreCalls
<1>4. responders' \in [Dials -> SUBSET AllIds] 
  BY DEF Accounting, WsTypeOK, Unregister
<1>5. Without(batches[d], ids) \in SUBSET SUBSET AllIds
  BY <1>2 DEF Accounting, WsTypeOK
<1>6. batches' \in [Dials -> SUBSET SUBSET AllIds]
  BY <1>5 DEF Accounting, WsTypeOK, Unregister
<1> QED BY <1>1, <1>3, <1>4, <1>6

(* An answer adds to what calls received, for those waiting on its socket. *)
LEMMA ReceivedTypes ==
  ASSUME Accounting, NEW d, NEW ids
  PROVE  /\ Received(d, ids) \in [Calls -> SUBSET AllIds]
         /\ \A c \in Calls : got[c] \subseteq Received(d, ids)[c]
         /\ \A c \in Calls : At(c, "waiting") /\ call[c].on = d =>
              Received(d, ids)[c] = got[c] \cup (ids \cap Ids(c))
BY DEF Accounting, WsTypeOK, Received, AllIds

(* Answers taken off a handle, none of them unknown to it: got rises by    *)
(* what responders lose, unless the answer was short.                      *)
LEMMA RouteStep ==
  ASSUME Accounting, NEW d \in Dials, NEW ids, NEW lost,
         got' = Received(d, ids), Unregister(d, ids \cup lost),
         owed' \in [Dials -> SUBSET AllIds],
         \A e \in Dials : owed'[e] \subseteq owed[e], owed'[d] \cap ids = {},
         shorted \subseteq shorted', shorted' \subseteq Calls, shorted' = {} => lost = {},
         reader' \in [Dials -> {"none", "up", "lost", "unknown", "taking", "gone"}],
         \A e \in Dials \ {d} : reader'[e] = reader[e],
         shorted = {} /\ d \notin drained => reader'[d] = reader[d],
         UNCHANGED <<connVars, gen, call, drained>>
  PROVE  Accounting'
<1> USE UnregisterTypes, ReceivedTypes
<1>1. WsTypeOK'
  BY DEF Accounting, WsTypeOK, connVars
<1>2. CallsHaveDials'
  BY DEF Accounting, CallsHaveDials
<1>3. ASSUME shorted' = {}, NEW e \in Dials \ drained PROVE Accounted(e)'
  <2>1. shorted = {} /\ lost = {} /\ Accounted(e)
    BY <1>3 DEF Accounting
  <2>2. CASE e = d
    <3>1. /\ responders'[d] = responders[d] \ ids /\ owed'[d] \subseteq responders[d] \ ids
          /\ reader'[d] # "unknown"
      BY <1>3, <2>1, <2>2 DEF Accounted
    <3>2. ASSUME NEW c \in Calls, At(c, "waiting"), call[c].on = d
          PROVE  Ids(c) \subseteq Received(d, ids)[c] \cup responders'[d]
      <4>1. Ids(c) \subseteq got[c] \cup responders[d]
        BY <2>1, <2>2, <3>2 DEF Accounted
      <4>2. Received(d, ids)[c] = got[c] \cup (ids \cap Ids(c))
        BY <3>2
      <4> QED BY <3>1, <4>1, <4>2
    <3> QED BY <2>2, <3>1, <3>2 DEF Accounted, At
  <2>3. CASE e # d
    <3>1. responders'[e] = responders[e] /\ reader'[e] = reader[e] /\ owed'[e] \subseteq owed[e]
      BY <1>3, <2>3
    <3>2. \A c \in Calls : got[c] \subseteq got'[c]
      OBVIOUS
    <3> QED BY <2>1, <3>1, <3>2 DEF Accounted, At
  <2> QED BY <2>2, <2>3
<1> QED BY <1>1, <1>2, <1>3 DEF Accounting

(* Every behaviour keeps the accounts.                                     *)
THEOREM AccountingHolds == WsSpec => []Accounting
<1>1. WsInit => Accounting
  BY AccountingInit
<1>2. Accounting /\ [WsNext]_wsVars => Accounting'
  <2> SUFFICES ASSUME Accounting, [WsNext]_wsVars PROVE Accounting'
    OBVIOUS
  <2>0. WsTypeOK /\ CallsHaveDials
    BY DEF Accounting
  <2>q. \A e \in {None, "retryable", "protocol"} : Over(e) \in CallState /\ Over(e).pc = "done"
    BY DEF Over, CallState
  <2>1. ASSUME NEW c \in Calls, UseActive(c) PROVE Accounting'
    <3> DEFINE r == [call[c] EXCEPT !.pc = "holding", !.on = active]
    <3>1. call[c] \in CallState /\ active \in Dials
      BY <2>0, <2>1 DEF WsTypeOK, UseActive
    <3>2. r \in CallState /\ r.pc = "holding" /\ r.on = active
      BY <3>1 DEF CallState
    <3>3. call' = [call EXCEPT ![c] = r]
      BY <2>0, <2>1 DEF UseActive, WsTypeOK
    <3> HIDE DEF r
    <3> QED BY <2>0, <2>1, <3>1, <3>2, <3>3, QuietStep
            DEF UseActive, WsTypeOK, connVars, handleVars
  <2>2. ASSUME NEW c \in Calls, JoinDial(c) PROVE Accounting'
    <3> DEFINE r == [call[c] EXCEPT !.pc = "joining", !.on = dialing]
    <3>1. call[c] \in CallState /\ dialing \in Dials
      BY <2>0, <2>2 DEF WsTypeOK, JoinDial
    <3>2. r \in CallState /\ r.pc = "joining" /\ r.on = dialing
      BY <3>1 DEF CallState
    <3>3. call' = [call EXCEPT ![c] = r]
      BY <2>0, <2>2 DEF JoinDial, WsTypeOK
    <3> HIDE DEF r
    <3> QED BY <2>0, <2>2, <3>1, <3>2, <3>3, QuietStep
            DEF JoinDial, WsTypeOK, connVars, handleVars
  <2>3. ASSUME NEW c \in Calls, StartDial(c) PROVE Accounting'
    <3>0. PICK d \in Dials : dialing' = d /\ call' = [call EXCEPT ![c].pc = "joining", ![c].on = d]
      BY <2>3 DEF StartDial
    <3> DEFINE r == [call[c] EXCEPT !.pc = "joining", !.on = d]
    <3>1. call[c] \in CallState
      BY <2>0 DEF WsTypeOK
    <3>2. r \in CallState /\ r.pc = "joining" /\ r.on = d
      BY <3>1 DEF CallState
    <3>3. call' = [call EXCEPT ![c] = r]
      BY <2>0, <3>0 DEF WsTypeOK
    <3> HIDE DEF r
    <3> QED BY <2>0, <2>3, <3>0, <3>2, <3>3, QuietStep DEF StartDial, WsTypeOK
  <2>4. ASSUME NEW c \in Calls, SettleDial(c) PROVE Accounting'
    <3>1. call[c] \in CallState /\ call[c].pc = "joining" /\ call[c].on \in Dials
      BY <2>0, <2>4 DEF WsTypeOK, SettleDial, At, CallsHaveDials, Connected
    <3> DEFINE r == [call[c] EXCEPT !.pc = "holding"]
    <3>2. r \in CallState /\ r.pc = "holding" /\ r.on = call[c].on
      BY <3>1 DEF CallState
    <3>3. CASE active' = call[c].on /\ call' = [call EXCEPT ![c].pc = "holding"]
      <4>1. call' = [call EXCEPT ![c] = r]
        BY <2>0, <3>3 DEF WsTypeOK
      <4> HIDE DEF r
      <4> QED BY <2>0, <2>4, <3>1, <3>2, <3>3, <4>1, QuietStep DEF SettleDial, WsTypeOK, handleVars
    <3>4. CASE active' = active /\ call' = [call EXCEPT ![c] = Over("retryable")]
      BY <2>0, <2>4, <2>q, <3>4, QuietStep DEF SettleDial, WsTypeOK, handleVars, Connected
    <3> QED BY <2>4, <3>3, <3>4 DEF SettleDial
  <2>5. ASSUME NEW c \in Calls, SampleGeneration(c) PROVE Accounting'
    <3> DEFINE r == [call[c] EXCEPT !.pc = "sampled", !.gen = generation]
    <3>1. call[c] \in CallState /\ call[c].on \in Dials
      BY <2>0, <2>5 DEF WsTypeOK, SampleGeneration, At, CallsHaveDials, Connected
    <3>2. r \in CallState /\ r.pc = "sampled" /\ r.on = call[c].on
      BY <2>0, <3>1 DEF CallState, WsTypeOK
    <3>3. call' = [call EXCEPT ![c] = r]
      BY <2>0, <2>5 DEF SampleGeneration, WsTypeOK
    <3> HIDE DEF r
    <3> QED BY <2>0, <2>5, <3>1, <3>2, <3>3, QuietStep
            DEF SampleGeneration, WsTypeOK, connVars, handleVars
  <2>6. ASSUME NEW c \in Calls, Register(c) PROVE Accounting'
    <3> DEFINE d == call[c].on
    <3>1. call[c] \in CallState /\ d \in Dials /\ Ids(c) \subseteq AllIds
      BY <2>0, <2>6 DEF WsTypeOK, Register, Ready, At, CallsHaveDials, Connected, AllIds
    <3>2. /\ responders' = [responders EXCEPT ![d] = @ \cup Ids(c)]
          /\ batches' = [batches EXCEPT ![d] = IF IsBatch(c) THEN @ \cup {Ids(c)} ELSE @]
          /\ owed' = [owed EXCEPT ![d] = IF reader[d] = "up" THEN @ \cup Ids(c) ELSE @]
          /\ call' = [call EXCEPT ![c].pc = "waiting"]
          /\ UNCHANGED <<connVars, handleVars, got, shorted, drained>>
      BY <2>6 DEF Register
    <3>3. /\ call' \in [Calls -> CallState] /\ call'[c].on = d
          /\ \A e \in Calls \ {c} : call'[e] = call[e]
      BY <2>0, <3>1, <3>2 DEF WsTypeOK, CallState
    <3> HIDE DEF d
    <3>4. WsTypeOK'
      BY <2>0, <3>1, <3>2, <3>3 DEF WsTypeOK, connVars, handleVars
    <3>5. CallsHaveDials'
      BY <2>0, <3>1, <3>3 DEF CallsHaveDials
    <3>6. GroupsAreCalls'
      BY <2>0, <3>1, <3>2 DEF Accounting, WsTypeOK, GroupsAreCalls
    <3>7. ASSUME NEW e \in Dials, Accounted(e) PROVE Accounted(e)'
      <4>1. responders[e] \subseteq responders'[e] /\ (e = d => Ids(c) \subseteq responders'[e])
        BY <2>0, <3>1, <3>2 DEF WsTypeOK
      <4>2. owed'[e] \subseteq responders'[e]
        BY <2>0, <3>1, <3>2, <3>7 DEF WsTypeOK, Accounted
      <4> QED BY <3>2, <3>3, <3>7, <4>1, <4>2 DEF Accounted, At, handleVars
    <3> QED BY <3>2, <3>4, <3>5, <3>6, <3>7 DEF Accounting
  <2>t. ASSUME NEW c \in Calls, ResetCurrent(c), UNCHANGED <<connVars, handleVars, pendingVars, shorted, drained>>
        PROVE Accounting'
    <3> DEFINE r == [Over("retryable") EXCEPT !.pc = "resetting", !.gen = generation]
    <3>1. r \in CallState /\ r.pc = "resetting"
      BY <2>0 DEF Over, CallState, WsTypeOK
    <3>2. call' = [call EXCEPT ![c] = r] /\ UNCHANGED connVars /\ got' = [got EXCEPT ![c] = {}]
      BY <2>t DEF ResetCurrent
    <3> HIDE DEF r
    <3> QED BY <2>0, <2>t, <3>1, <3>2, QuietStep DEF WsTypeOK, connVars, handleVars, Connected
  <2>7. ASSUME NEW c \in Calls, SendFails(c) \/ TimesOut(c) PROVE Accounting'
    BY <2>7, <2>t DEF SendFails, TimesOut
  <2>r. ASSUME NEW c \in Calls, CallResets(c) PROVE Accounting'
    <3>1. PICK pc \in {"taking", "done"} : call' = [call EXCEPT ![c].pc = pc]
      BY <2>r DEF CallResets
    <3> DEFINE r == [call[c] EXCEPT !.pc = pc]
    <3>2. r \in CallState /\ r.pc \notin Connected
      BY <2>0 DEF CallState, Connected, WsTypeOK
    <3>3. call' = [call EXCEPT ![c] = r]
      BY <3>1
    <3>4. /\ generation' \in Nat
          /\ UNCHANGED <<active, dialing, gen, reader, got, pendingVars, shorted, drained>>
      BY <2>0, <2>r DEF CallResets, WsTypeOK, handleVars
    <3> HIDE DEF r
    <3> QED BY <2>0, <3>2, <3>3, <3>4, QuietStep DEF WsTypeOK, Connected
  <2>8. ASSUME NEW c \in Calls, NEW e \in {None, "retryable", "protocol"}, Done(c, e),
               UNCHANGED <<connVars, handleVars, pendingVars, shorted, drained>>
        PROVE  Accounting'
    BY <2>0, <2>8, <2>q, QuietStep DEF Done, WsTypeOK, connVars, handleVars, Connected
  <2>9. ASSUME NEW c \in Calls, ReceiveAll(c) \/ Cancel(c) PROVE Accounting'
    BY <2>8, <2>9 DEF ReceiveAll, Cancel
  <2>10. ASSUME NEW c \in Calls, ReceiveError(c) PROVE Accounting'
    <3> DEFINE d == call[c].on
    <3>1. CASE ~IsBatch(c)
      BY <2>8, <2>10, <3>1 DEF ReceiveError, pendingVars
    <3>2. CASE IsBatch(c)
      <4>1. /\ d \in Dials /\ \E id \in Ids(c) : id \notin got[c] \cup responders[d]
            /\ At(c, "waiting")
        BY <2>0, <2>10 DEF ReceiveError, Dropped, At, CallsHaveDials, Connected
      <4>2. PICK e \in {None, "retryable", "protocol"} : Done(c, e)
        BY <2>10, <3>2 DEF ReceiveError
      <4>3. /\ Unregister(d, Ids(c))
            /\ UNCHANGED <<connVars, handleVars, owed, shorted, drained>>
        BY <2>10, <3>2 DEF ReceiveError
      <4>4. shorted # {} \/ d \in drained
        BY <4>1 DEF Accounting, Accounted
      <4>5. /\ call' = [call EXCEPT ![c] = Over(e)] /\ got' = [got EXCEPT ![c] = {}]
            /\ call' \in [Calls -> CallState] /\ got' \in [Calls -> SUBSET AllIds]
        BY <2>0, <2>q, <4>2 DEF Done, WsTypeOK
      <4> HIDE DEF d
      <4>6. WsTypeOK' /\ GroupsAreCalls'
        BY <2>0, <4>1, <4>3, <4>5, UnregisterTypes DEF WsTypeOK, connVars, handleVars
      <4>7. CallsHaveDials'
        BY <2>0, <2>q, <4>5 DEF WsTypeOK, CallsHaveDials, Connected
      <4>8. ASSUME NEW f \in Dials \ drained, f # d, Accounted(f) PROVE Accounted(f)'
        <5>1. responders'[f] = responders[f] /\ owed'[f] = owed[f] /\ reader'[f] = reader[f]
          BY <4>1, <4>3, <4>8, UnregisterTypes DEF handleVars
        <5>2. \A x \in Calls : At(x, "waiting")' => At(x, "waiting") /\ call'[x] = call[x] /\ got'[x] = got[x]
          BY <2>0, <2>q, <4>5 DEF WsTypeOK, At
        <5> QED BY <4>8, <5>1, <5>2 DEF Accounted
      <4> QED BY <4>3, <4>4, <4>6, <4>7, <4>8 DEF Accounting
    <3> QED BY <3>1, <3>2
  <2>11. ASSUME NEW c \in Calls, CallTakes(c) PROVE Accounting'
    <3>1. /\ call' \in [Calls -> CallState]
          /\ \A e \in Calls : call'[e] = call[e] \/ call'[e].pc = "done"
      BY <2>0, <2>11 DEF CallTakes, WsTypeOK, CallState
    <3> QED BY <2>0, <2>11, <3>1, TakeStep DEF CallTakes, WsTypeOK, handleVars
  <2>12. ASSUME NEW d \in Dials, DialEnds(d) PROVE Accounting'
    BY <2>0, <2>12, TaskStep
       DEF DialEnds, DialConnects, DialFails, WsTypeOK, connVars, pendingVars
  <2>13. ASSUME NEW d \in Dials, ReaderResets(d) PROVE Accounting'
    BY <2>0, <2>13, TaskStep DEF ReaderResets, WsTypeOK, pendingVars
  <2>14. ASSUME NEW d \in Dials, ReaderTakes(d) PROVE Accounting'
    BY <2>0, <2>14, TakeStep DEF ReaderTakes, WsTypeOK
  <2>15. ASSUME NEW d \in Dials, SocketLost(d) PROVE Accounting'
    BY <2>0, <2>15, TaskStep DEF SocketLost, WsTypeOK, connVars
  <2>16. ASSUME NEW d \in Dials, WriterEnds(d) PROVE Accounting'
    BY <2>0, <2>16, TaskStep DEF WriterEnds, WsTypeOK, connVars, pendingVars
  <2>17. ASSUME NEW d \in Dials, NEW c \in Calls, NEW ids \in SUBSET Ids(c), RouteArray(d, ids)
         PROVE  Accounting'
    <3> DEFINE owning == {g \in batches[d] : g \cap ids # {}}
               missing == UNION owning \ ids
    <3>1. CASE ids \subseteq responders[d]
      <4>1. /\ got' = Received(d, ids) /\ Unregister(d, ids \cup missing)
            /\ owed' = [owed EXCEPT ![d] = @ \ ids]
            /\ shorted' = shorted \cup {x \in Calls : Ids(x) \cap missing # {}}
            /\ UNCHANGED <<connVars, gen, reader, call, drained>>
        BY <2>17, <3>1 DEF RouteArray
      <4>2. shorted' = {} => missing = {}
        <5> SUFFICES ASSUME NEW m \in missing PROVE shorted' # {}
          OBVIOUS
        <5>1. PICK g \in batches[d] : m \in g
          OBVIOUS
        <5>2. PICK x \in Calls : g \subseteq Ids(x)
          BY DEF Accounting, GroupsAreCalls
        <5> HIDE DEF missing
        <5> QED BY <4>1, <5>1, <5>2
      <4>3. /\ owed' \in [Dials -> SUBSET AllIds]
            /\ \A e \in Dials : owed'[e] \subseteq owed[e]
            /\ owed'[d] \cap ids = {}
        BY <2>0, <4>1 DEF WsTypeOK
      <4>4. shorted \subseteq shorted' /\ shorted' \subseteq Calls
        BY <2>0, <4>1 DEF WsTypeOK
      <4> HIDE DEF missing
      <4> QED BY <2>0, <4>1, <4>2, <4>3, <4>4, RouteStep DEF WsTypeOK
    <3>2. CASE ~(ids \subseteq responders[d])
      <4>1. PICK routed \in SUBSET (ids \cap responders[d]) :
              got' = Received(d, routed) /\ Unregister(d, routed)
        BY <2>17, <3>2 DEF RouteArray
      <4>2. /\ owed' = [owed EXCEPT ![d] = {}] /\ reader' = [reader EXCEPT ![d] = "unknown"]
            /\ UNCHANGED <<connVars, gen, call, shorted, drained>>
            /\ ids \subseteq owed[d]
        BY <2>17, <3>2 DEF RouteArray
      <4>3. ~(shorted = {} /\ d \notin drained)
        BY <3>2, <4>2 DEF Accounting, Accounted
      <4>4. Unregister(d, routed \cup {})
        <5>1. routed \cup {} = routed
          OBVIOUS
        <5> QED BY <4>1, <5>1
      <4>5. /\ owed' \in [Dials -> SUBSET AllIds] /\ owed'[d] = {}
            /\ \A e \in Dials : owed'[e] \subseteq owed[e]
            /\ reader' \in [Dials -> {"none", "up", "lost", "unknown", "taking", "gone"}]
            /\ \A e \in Dials \ {d} : reader'[e] = reader[e]
        BY <2>0, <4>2 DEF WsTypeOK
      <4> QED BY <2>0, <4>1, <4>2, <4>3, <4>4, <4>5, RouteStep DEF WsTypeOK
    <3> QED BY <3>1, <3>2
  <2>18. ASSUME NEW d \in Dials, NEW c \in Calls, NEW id \in Ids(c), RouteOne(d, id)
         PROVE  Accounting'
    <3>1. CASE id \in responders[d]
      <4>1. /\ got' = Received(d, {id}) /\ Unregister(d, {id} \cup {})
            /\ owed' = [owed EXCEPT ![d] = @ \ {id}]
            /\ UNCHANGED <<connVars, gen, reader, call, shorted, drained>>
        <5>1. {id} \cup {} = {id}
          OBVIOUS
        <5> QED BY <2>18, <3>1, <5>1 DEF RouteOne
      <4>2. /\ owed' \in [Dials -> SUBSET AllIds] /\ owed'[d] \cap {id} = {}
            /\ \A e \in Dials : owed'[e] \subseteq owed[e]
        BY <2>0, <4>1 DEF WsTypeOK
      <4> QED BY <2>0, <4>1, <4>2, RouteStep DEF WsTypeOK
    <3>2. CASE id \notin responders[d]
      <4>1. /\ Unregister(d, {id}) /\ id \in owed[d]
            /\ owed' = [owed EXCEPT ![d] = {}] /\ reader' = [reader EXCEPT ![d] = "unknown"]
            /\ UNCHANGED <<connVars, gen, call, got, shorted, drained>>
        BY <2>18, <3>2 DEF RouteOne
      <4>2. ~(shorted = {} /\ d \notin drained)
        BY <3>2, <4>1 DEF Accounting, Accounted
      <4>3. WsTypeOK' /\ GroupsAreCalls'
        BY <2>0, <4>1, UnregisterTypes DEF WsTypeOK, connVars
      <4>4. CallsHaveDials'
        BY <2>0, <4>1 DEF CallsHaveDials
      <4>5. ASSUME NEW e \in Dials \ {d}, Accounted(e) PROVE Accounted(e)'
        <5>1. responders'[e] = responders[e] /\ owed'[e] = owed[e] /\ reader'[e] = reader[e]
          BY <2>0, <4>1, UnregisterTypes DEF WsTypeOK
        <5> QED BY <4>1, <4>5, <5>1 DEF Accounted, At
      <4> QED BY <4>1, <4>2, <4>3, <4>4, <4>5 DEF Accounting
    <3> QED BY <3>1, <3>2
  <2>19. ASSUME UNCHANGED wsVars PROVE Accounting'
    BY <2>19 DEF wsVars, connVars, handleVars, pendingVars, callVars, Accounting, WsTypeOK, CallsHaveDials,
                 GroupsAreCalls, Accounted, At
  <2> QED BY <2>1, <2>2, <2>3, <2>4, <2>5, <2>6, <2>7, <2>r, <2>9, <2>10, <2>11, <2>12, <2>13, <2>14,
             <2>15, <2>16, <2>17, <2>18, <2>19 DEF WsNext, CallStep
<1> QED BY <1>1, <1>2, PTL DEF WsSpec

(* A server that answers what it was asked is never taken for a corrupt    *)
(* one by route_one or route_array, unless a reset drained the handle.     *)
THEOREM SiblingsKept == WsSpec => []SiblingsUndisturbed
<1>1. Accounting => SiblingsUndisturbed
  BY DEF Accounting, Accounted, SiblingsUndisturbed
<1> QED BY <1>1, AccountingHolds, PTL
=============================================================================
