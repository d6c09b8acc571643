------------------------- MODULE PredictorDRCProofs -------------------------
(* Proofs about PredictorDRC: a request from above is in one place of the  *)
(* cache or of main memory until it is answered, and in none afterwards.   *)
EXTENDS PredictorDRC, FiniteSetTheorems, SequenceTheorems, WellFoundedInduction, TLAPS

(***************************************************************************)
(* Numbers and sequences.                                                  *)
(***************************************************************************)

\* A set of numbers that is not empty has a least element: what Min chooses.
LEMMA LeastExists ==
  ASSUME NEW T \in SUBSET Nat, T # {}
  PROVE  \E x \in T : \A y \in T : x <= y
<1> DEFINE R == OpToRel(<, Nat)
<1>1. IsWellFoundedOn(R, Nat)
  BY NatLessThanWellFounded
<1>2. \A x, y \in T : <<y, x>> \in R <=> y < x
  BY DEF OpToRel
<1> HIDE DEF R
<1>3. PICK x \in T : \A y \in T : ~ (<<y, x>> \in R)
  BY <1>1, WFMin
<1>4. \A y \in T : ~ y < x
  BY <1>2, <1>3
<1> QED
  BY <1>4

\* RemoveFirst takes one element out of a sequence that has it.
LEMMA RemoveFirstShortens ==
  ASSUME NEW S, NEW s \in Seq(S), NEW e \in ToSet(s)
  PROVE  /\ RemoveFirst(s, e) \in Seq(S)
         /\ Len(RemoveFirst(s, e)) <= Len(s)
<1> DEFINE I == {i \in 1 .. Len(s) : s[i] = e}
           i == SelectInSeq(s, LAMBDA v : v = e)
<1>1. I \in SUBSET Nat /\ I # {}
  BY DEF ToSet
<1>2. PICK x \in I : \A y \in I : x <= y
  BY <1>1, LeastExists
<1>3. i \in 1 .. Len(s)
  BY <1>1, <1>2 DEF SelectInSeq, Min
<1>4. RemoveFirst(s, e) = RemoveAt(s, i)
  BY <1>3 DEF RemoveFirst, RemoveFirstMatch
<1> HIDE DEF i
<1>5. /\ SubSeq(s, 1, i - 1) \in Seq(S) /\ Len(SubSeq(s, 1, i - 1)) = i - 1
      /\ SubSeq(s, i + 1, Len(s)) \in Seq(S) /\ Len(SubSeq(s, i + 1, Len(s))) = Len(s) - i
  BY <1>3, SubSeqProperties
<1>6. \A a, b \in Seq(S) : a \o b \in Seq(S) /\ Len(a \o b) = Len(a) + Len(b)
  BY ConcatProperties
<1>7. RemoveFirst(s, e) = SubSeq(s, 1, i - 1) \o SubSeq(s, i + 1, Len(s))
  BY <1>4 DEF RemoveAt
<1>8. Len(s) \in Nat
  OBVIOUS
<1>9. Len(SubSeq(s, 1, i - 1)) + Len(SubSeq(s, i + 1, Len(s))) <= Len(s)
  <2>1. \A l \in Nat : \A j \in 1 .. l : \A a, b : a = j - 1 /\ b = l - j => a + b <= l
    OBVIOUS
  <2> HIDE DEF I
  <2> QED
    BY <1>3, <1>5, <1>8, <2>1, Zenon
<1> QED
  BY <1>5, <1>6, <1>7, <1>9

(***************************************************************************)
(* Main memory, as a record.                                               *)
(***************************************************************************)

MemoryType ==
  [queue : SUBSET MemName, banks : SUBSET MemName, responses : SUBSET MemName,
   prefetchBuffer : Seq(Line), pendingMemoryRequests : Seq(MemName)]

\* What its buffers hold, and that they hold no more than fits.
MemoryOK(m) ==
  /\ m \in MemoryType
  /\ IsFiniteSet(m.queue) /\ Cardinality(m.queue) <= QueueSize
  /\ Len(m.prefetchBuffer) <= PrefetchBufferSize

\* The request q is the one that r left under the tag t.
Mine(q, r, t) == q.id = r /\ q.tag = t

NoneIn(S, r, t) == \A q \in S : ~ Mine(q, r, t)
OneIn(S, r, t) == \E q \in S : Mine(q, r, t) /\ \A p \in S : Mine(p, r, t) => p = q
NoneAt(s, r, t) == \A i \in DOMAIN s : ~ Mine(s[i], r, t)
OneAt(s, r, t) ==
  \E i \in DOMAIN s : Mine(s[i], r, t) /\ \A j \in DOMAIN s : Mine(s[j], r, t) => j = i

\* Main memory has nothing of r under t, or one request in one of its places.
None(m, r, t) ==
  /\ NoneIn(m.queue, r, t) /\ NoneIn(m.banks, r, t) /\ NoneIn(m.responses, r, t)
  /\ NoneAt(m.pendingMemoryRequests, r, t)
One(m, r, t) ==
  \/ /\ OneIn(m.queue, r, t) /\ NoneIn(m.banks, r, t) /\ NoneIn(m.responses, r, t)
     /\ NoneAt(m.pendingMemoryRequests, r, t)
  \/ /\ NoneIn(m.queue, r, t) /\ OneIn(m.banks, r, t) /\ NoneIn(m.responses, r, t)
     /\ NoneAt(m.pendingMemoryRequests, r, t)
  \/ /\ NoneIn(m.queue, r, t) /\ NoneIn(m.banks, r, t) /\ OneIn(m.responses, r, t)
     /\ NoneAt(m.pendingMemoryRequests, r, t)
  \/ /\ NoneIn(m.queue, r, t) /\ NoneIn(m.banks, r, t) /\ NoneIn(m.responses, r, t)
     /\ OneAt(m.pendingMemoryRequests, r, t)

\* The tags of the requests that somebody above waits for.
Awaited == {"MEMREAD", "BYPASS"}

\* From m to n nothing of r under t comes or goes.
Same(m, n, r, t) == (None(m, r, t) => None(n, r, t)) /\ (One(m, r, t) => One(n, r, t))

\* req comes on top of what m has.
Comes(m, n, req) ==
  \A r \in Request, t \in Awaited :
    IF Mine(req, r, t) THEN None(m, r, t) => One(n, r, t) ELSE Same(m, n, r, t)

\* req goes, the others stay.
Goes(m, n, req) ==
  \A r \in Request, t \in Awaited :
    IF Mine(req, r, t) THEN One(m, r, t) => None(n, r, t) ELSE Same(m, n, r, t)

Stays(m, n) == \A r \in Request, t \in Awaited : Same(m, n, r, t)

-----------------------------------------------------------------------------
\* A prefetch is a request of nobody's.
LEMMA PrefetchName ==
  ASSUME NEW req \in MemName, NEW i \in DoPrefetch(req)
  PROVE  PrefetchOf(req, i) \in MemName /\ PrefetchOf(req, i).tag = "PREFETCH"
  BY NVMainAssumption DEF PrefetchOf, DoPrefetch, MemName, Line

\* Prefetches fit into what the queue has left.
LEMMA GeneratePrefetchesKeeps ==
  ASSUME NEW m, MemoryOK(m), NEW req \in MemName
  PROVE  MemoryOK(GeneratePrefetches(m, req)) /\ Stays(m, GeneratePrefetches(m, req))
<1> DEFINE room == QueueSize - Cardinality(m.queue)
           I == DoPrefetch(req) \cap 1 .. room
           new == {PrefetchOf(req, i) : i \in I}
           n == GeneratePrefetches(m, req)
<1>1. m \in MemoryType /\ IsFiniteSet(m.queue) /\ Cardinality(m.queue) <= QueueSize
      /\ Len(m.prefetchBuffer) <= PrefetchBufferSize
  BY DEF MemoryOK
<1>2. room \in Nat /\ Cardinality(m.queue) \in Nat /\ QueueSize \in Nat
  BY <1>1, FS_CardinalityType, NVMainAssumption
<1>3. IsFiniteSet(1 .. room) /\ Cardinality(1 .. room) = room
  BY <1>2, FS_Interval
<1>4. IsFiniteSet(I) /\ Cardinality(I) <= room
  BY <1>3, FS_Subset
<1>5. IsFiniteSet(new) /\ Cardinality(new) <= Cardinality(I)
  <2> DEFINE f == [i \in I |-> PrefetchOf(req, i)]
  <2>1. f \in Surjection(I, new)
    BY DEF Surjection
  <2> HIDE DEF f, new, I
  <2> QED
    BY <1>4, <2>1, FS_Surjection
<1>6. IsFiniteSet(m.queue \cup new)
      /\ Cardinality(m.queue \cup new) <= Cardinality(m.queue) + Cardinality(new)
  <2>1. Cardinality(m.queue \cup new)
          = Cardinality(m.queue) + Cardinality(new) - Cardinality(m.queue \cap new)
    BY <1>1, <1>5, FS_Union
  <2>2. Cardinality(m.queue \cap new) \in Nat /\ Cardinality(new) \in Nat
    BY <1>1, <1>5, FS_Intersection, FS_CardinalityType
  <2> QED
    BY <1>1, <1>2, <1>5, <2>1, <2>2, FS_Union
<1>7. Cardinality(m.queue \cup new) <= QueueSize
  <2>1. Cardinality(m.queue \cup new) \in Nat /\ Cardinality(new) \in Nat /\ Cardinality(I) \in Nat
    BY <1>4, <1>5, <1>6, FS_CardinalityType
  <2> QED
    BY <1>2, <1>4, <1>5, <1>6, <2>1
<1>8. \A q \in new : q \in MemName /\ q.tag = "PREFETCH"
  BY PrefetchName
<1>9. /\ n.queue = m.queue \cup new /\ n.banks = m.banks /\ n.responses = m.responses
      /\ n.prefetchBuffer = m.prefetchBuffer
      /\ n.pendingMemoryRequests = m.pendingMemoryRequests
  BY <1>1 DEF MemoryType, GeneratePrefetches
<1> HIDE DEF new, I, room
<1>10. n \in MemoryType
  <2>1. m.queue \cup new \in SUBSET MemName
    BY <1>1, <1>8 DEF MemoryType
  <2>2. n = [m EXCEPT !.queue = m.queue \cup new]
    BY DEF GeneratePrefetches, new, I, room
  <2> HIDE DEF n
  <2> QED
    BY <1>1, <2>1, <2>2 DEF MemoryType
<1> HIDE DEF n
<1>11. MemoryOK(n)
  BY <1>1, <1>6, <1>7, <1>9, <1>10 DEF MemoryOK
<1>12. ASSUME NEW r \in Request, NEW t \in Awaited
       PROVE  Same(m, n, r, t)
  <2>1. /\ NoneIn(m.queue, r, t) => NoneIn(n.queue, r, t)
        /\ OneIn(m.queue, r, t) => OneIn(n.queue, r, t)
    BY <1>8, <1>9 DEF NoneIn, OneIn, Mine, Awaited
  <2> QED
    BY <1>9, <2>1 DEF Same, None, One
<1> QED
  BY <1>11, <1>12 DEF Stays, n

\* Elements that come to a set, or leave it.
LEMMA SetPlaces ==
  ASSUME NEW S, NEW q, NEW r, NEW t
  PROVE  /\ Mine(q, r, t) => /\ NoneIn(S, r, t) => OneIn(S \cup {q}, r, t)
                             /\ OneIn(S, r, t) /\ q \in S => NoneIn(S \ {q}, r, t)
         /\ ~ Mine(q, r, t) => /\ NoneIn(S, r, t) => NoneIn(S \cup {q}, r, t) /\ NoneIn(S \ {q}, r, t)
                               /\ OneIn(S, r, t) => OneIn(S \cup {q}, r, t) /\ OneIn(S \ {q}, r, t)
         /\ NoneIn(S, r, t) => NoneIn(S \ {q}, r, t)
  BY DEF NoneIn, OneIn

\* An element that is appended, or the first one that leaves.
LEMMA Appending ==
  ASSUME NEW s \in Seq(MemName), NEW q \in MemName, NEW r, NEW t
  PROVE  /\ Mine(q, r, t) /\ NoneAt(s, r, t) => OneAt(Append(s, q), r, t)
         /\ ~ Mine(q, r, t) => /\ NoneAt(s, r, t) => NoneAt(Append(s, q), r, t)
                               /\ OneAt(s, r, t) => OneAt(Append(s, q), r, t)
<1>1. /\ DOMAIN s = 1 .. Len(s) /\ Len(s) \in Nat
      /\ DOMAIN Append(s, q) = 1 .. Len(s) + 1
      /\ \A i \in 1 .. Len(s) : Append(s, q)[i] = s[i]
      /\ Append(s, q)[Len(s) + 1] = q
  BY AppendProperties
<1> DEFINE u == Append(s, q)
<1> HIDE DEF u
<1>2. ASSUME Mine(q, r, t), NoneAt(s, r, t)
      PROVE  OneAt(u, r, t)
  BY <1>1, <1>2 DEF NoneAt, OneAt, u
<1>3. ASSUME ~ Mine(q, r, t), NoneAt(s, r, t)
      PROVE  NoneAt(u, r, t)
  BY <1>1, <1>3 DEF NoneAt, u
<1>4. ASSUME ~ Mine(q, r, t), OneAt(s, r, t)
      PROVE  OneAt(u, r, t)
  <2>1. PICK i \in DOMAIN s : Mine(s[i], r, t) /\ \A j \in DOMAIN s : Mine(s[j], r, t) => j = i
    BY <1>4 DEF OneAt
  <2>2. i \in DOMAIN u /\ Mine(u[i], r, t)
    BY <1>1, <2>1 DEF u
  <2>3. ASSUME NEW j \in DOMAIN u, Mine(u[j], r, t)
        PROVE  j = i
    BY <1>1, <1>4, <2>1, <2>3 DEF u
  <2> QED
    BY <2>2, <2>3 DEF OneAt
<1> QED
  BY <1>2, <1>3, <1>4 DEF u

LEMMA TakingTheFirst ==
  ASSUME NEW s \in Seq(MemName), s # <<>>, NEW r, NEW t
  PROVE  /\ Head(s) \in MemName /\ Tail(s) \in Seq(MemName)
         /\ NoneAt(s, r, t) => NoneAt(Tail(s), r, t) /\ ~ Mine(Head(s), r, t)
         /\ OneAt(s, r, t) => IF Mine(Head(s), r, t) THEN NoneAt(Tail(s), r, t)
                                                     ELSE OneAt(Tail(s), r, t)
<1>1. /\ DOMAIN s = 1 .. Len(s) /\ Len(s) \in Nat /\ Len(s) # 0
      /\ Head(s) = s[1] /\ Tail(s) \in Seq(MemName)
      /\ Len(Tail(s)) = Len(s) - 1
      /\ \A i \in 1 .. Len(s) - 1 : Tail(s)[i] = s[i + 1]
  BY HeadTailProperties, EmptySeq
<1>2. DOMAIN Tail(s) = 1 .. Len(s) - 1
  BY <1>1
<1> DEFINE u == Tail(s)
<1> HIDE DEF u
<1>3. ASSUME NoneAt(s, r, t)
      PROVE  NoneAt(u, r, t) /\ ~ Mine(s[1], r, t)
  BY <1>1, <1>2, <1>3 DEF NoneAt, u
<1>4. ASSUME OneAt(s, r, t), Mine(s[1], r, t)
      PROVE  NoneAt(u, r, t)
  <2>1. \A j \in 1 .. Len(s) : Mine(s[j], r, t) => j = 1
    BY <1>1, <1>4 DEF OneAt
  <2> QED
    BY <1>1, <1>2, <2>1 DEF NoneAt, u
<1>5. ASSUME OneAt(s, r, t), ~ Mine(s[1], r, t)
      PROVE  OneAt(u, r, t)
  <2>1. PICK i \in 1 .. Len(s) : Mine(s[i], r, t) /\ \A j \in 1 .. Len(s) : Mine(s[j], r, t) => j = i
    BY <1>1, <1>5 DEF OneAt
  <2>2. i # 1
    BY <1>5, <2>1
  <2>3. i - 1 \in DOMAIN u /\ u[i - 1] = s[i]
    BY <1>1, <1>2, <2>2 DEF u
  <2>4. ASSUME NEW j \in DOMAIN u, Mine(u[j], r, t)
        PROVE  j = i - 1
    <3>1. j + 1 \in 1 .. Len(s) /\ u[j] = s[j + 1] /\ j \in Nat
      BY <1>1, <1>2 DEF u
    <3> QED
      BY <2>1, <2>4, <3>1
  <2> QED
    BY <2>1, <2>3, <2>4 DEF OneAt
<1>6. Head(s) \in MemName
  BY <1>1
<1> QED
  BY <1>1, <1>3, <1>4, <1>5, <1>6 DEF u
-----------------------------------------------------------------------------
\* A request that the controller has room for is in main memory afterwards, in
\* its queue or among its responses.
LEMMA IssueCommandKeeps ==
  ASSUME NEW m, MemoryOK(m), NEW req \in MemName, IsIssuable(m)
  PROVE  MemoryOK(IssueCommand(m, req)) /\ Comes(m, IssueCommand(m, req), req)
<1>1. m \in MemoryType /\ IsFiniteSet(m.queue) /\ Cardinality(m.queue) <= QueueSize
      /\ Len(m.prefetchBuffer) <= PrefetchBufferSize
  BY DEF MemoryOK
<1>2. CASE Prefetched(m, req)
  <2> DEFINE n == IssueCommand(m, req)
             f == RemoveFirst(m.prefetchBuffer, req.line)
  <2>1. f \in Seq(Line) /\ Len(f) <= PrefetchBufferSize
    <3>1. m.prefetchBuffer \in Seq(Line) /\ req.line \in ToSet(m.prefetchBuffer)
      BY <1>1, <1>2 DEF MemoryType, Prefetched
    <3>2. f \in Seq(Line) /\ Len(f) <= Len(m.prefetchBuffer)
      BY <3>1, RemoveFirstShortens
    <3>3. Len(f) \in Nat /\ Len(m.prefetchBuffer) \in Nat
      BY <3>1, <3>2, LenProperties
    <3> QED
      BY <1>1, <3>2, <3>3, NVMainAssumption
  <2>2. n = [m EXCEPT !.prefetchBuffer = f, !.responses = m.responses \cup {req}]
    BY <1>2 DEF IssueCommand
  <2> HIDE DEF n, f
  <2>3. /\ n \in MemoryType
        /\ n.queue = m.queue /\ n.banks = m.banks /\ n.responses = m.responses \cup {req}
        /\ n.prefetchBuffer = f /\ n.pendingMemoryRequests = m.pendingMemoryRequests
    BY <1>1, <2>1, <2>2 DEF MemoryType
  <2>4. MemoryOK(n)
    BY <1>1, <2>1, <2>3 DEF MemoryOK
  <2>5. ASSUME NEW r \in Request, NEW t \in Awaited
        PROVE  IF Mine(req, r, t) THEN None(m, r, t) => One(n, r, t) ELSE Same(m, n, r, t)
    <3>1. /\ Mine(req, r, t) /\ NoneIn(m.responses, r, t) => OneIn(m.responses \cup {req}, r, t)
          /\ ~ Mine(req, r, t) =>
               /\ NoneIn(m.responses, r, t) => NoneIn(m.responses \cup {req}, r, t)
               /\ OneIn(m.responses, r, t) => OneIn(m.responses \cup {req}, r, t)
      BY SetPlaces
    <3> QED
      BY <2>3, <3>1 DEF Same, None, One
  <2> QED
    BY <2>4, <2>5 DEF Comes, n
<1>3. CASE ~ Prefetched(m, req)
  <2> DEFINE k == ToController(m, req)
             n == IssuePrefetch(k, req)
  <2>1. k = [m EXCEPT !.queue = m.queue \cup {req}]
    BY DEF ToController
  <2> HIDE DEF k
  <2>2. /\ k \in MemoryType
        /\ k.queue = m.queue \cup {req} /\ k.banks = m.banks /\ k.responses = m.responses
        /\ k.prefetchBuffer = m.prefetchBuffer
        /\ k.pendingMemoryRequests = m.pendingMemoryRequests
    BY <1>1, <2>1 DEF MemoryType
  <2>3. IsFiniteSet(k.queue) /\ Cardinality(k.queue) <= QueueSize
    <3>1. Cardinality(m.queue) < QueueSize /\ Cardinality(m.queue) \in Nat
      BY <1>1, FS_CardinalityType DEF IsIssuable
    <3>2. /\ IsFiniteSet(m.queue \cup {req})
          /\ Cardinality(m.queue \cup {req})
               = IF req \in m.queue THEN Cardinality(m.queue) ELSE Cardinality(m.queue) + 1
      BY <1>1, FS_AddElement
    <3> QED
      BY <2>2, <3>1, <3>2, NVMainAssumption
  <2>4. MemoryOK(k)
    BY <1>1, <2>2, <2>3 DEF MemoryOK
  <2>5. MemoryOK(n) /\ Stays(k, n)
    <3>1. CASE req.type = "READ"
      BY <2>4, <3>1, GeneratePrefetchesKeeps DEF IssuePrefetch
    <3>2. CASE req.type # "READ"
      BY <2>4, <3>2 DEF IssuePrefetch, Stays, Same
    <3> QED
      BY <3>1, <3>2
  <2>6. n = IssueCommand(m, req)
    BY <1>3 DEF IssueCommand, k
  <2> HIDE DEF n
  <2>7. ASSUME NEW r \in Request, NEW t \in Awaited
        PROVE  IF Mine(req, r, t) THEN None(m, r, t) => One(n, r, t) ELSE Same(m, n, r, t)
    <3>1. /\ Mine(req, r, t) /\ NoneIn(m.queue, r, t) => OneIn(m.queue \cup {req}, r, t)
          /\ ~ Mine(req, r, t) =>
               /\ NoneIn(m.queue, r, t) => NoneIn(m.queue \cup {req}, r, t)
               /\ OneIn(m.queue, r, t) => OneIn(m.queue \cup {req}, r, t)
      BY SetPlaces
    <3>2. IF Mine(req, r, t) THEN None(m, r, t) => One(k, r, t) ELSE Same(m, k, r, t)
      BY <2>2, <3>1 DEF Same, None, One
    <3>3. Same(k, n, r, t)
      BY <2>5 DEF Stays
    <3> QED
      BY <3>2, <3>3 DEF Same
  <2> QED
    BY <2>5, <2>6, <2>7 DEF Comes
<1> QED
  BY <1>2, <1>3

\* One that finds no room waits.
LEMMA IssueOrWaitKeeps ==
  ASSUME NEW m, MemoryOK(m), NEW req \in MemName
  PROVE  MemoryOK(IssueOrWait(m, req)) /\ Comes(m, IssueOrWait(m, req), req)
<1>1. CASE IsIssuable(m)
  BY <1>1, IssueCommandKeeps DEF IssueOrWait
<1>2. CASE ~ IsIssuable(m)
  <2> DEFINE n == IssueOrWait(m, req)
             p == Append(m.pendingMemoryRequests, req)
  <2>1. m \in MemoryType /\ m.pendingMemoryRequests \in Seq(MemName)
    BY DEF MemoryOK, MemoryType
  <2>2. p \in Seq(MemName)
    BY <2>1
  <2>3. n = [m EXCEPT !.pendingMemoryRequests = p]
    BY <1>2 DEF IssueOrWait
  <2> HIDE DEF n, p
  <2>4. /\ n \in MemoryType
        /\ n.queue = m.queue /\ n.banks = m.banks /\ n.responses = m.responses
        /\ n.prefetchBuffer = m.prefetchBuffer /\ n.pendingMemoryRequests = p
    BY <2>1, <2>2, <2>3 DEF MemoryType
  <2>5. ASSUME NEW r \in Request, NEW t \in Awaited
        PROVE  IF Mine(req, r, t) THEN None(m, r, t) => One(n, r, t) ELSE Same(m, n, r, t)
    <3>1. /\ Mine(req, r, t) /\ NoneAt(m.pendingMemoryRequests, r, t) => OneAt(p, r, t)
          /\ ~ Mine(req, r, t) =>
               /\ NoneAt(m.pendingMemoryRequests, r, t) => NoneAt(p, r, t)
               /\ OneAt(m.pendingMemoryRequests, r, t) => OneAt(p, r, t)
      BY <2>1, Appending DEF p
    <3> QED
      BY <2>4, <3>1 DEF Same, None, One
  <2> QED
    BY <2>4, <2>5 DEF Comes, MemoryOK, n
<1> QED
  BY <1>1, <1>2

\* A completion moves the first one that waits into the queue, and loses none.
LEMMA RetryPendingKeeps ==
  ASSUME NEW m, MemoryOK(m)
  PROVE  MemoryOK(RetryPending(m)) /\ Stays(m, RetryPending(m))
<1>1. CASE m.pendingMemoryRequests = <<>> \/ ~ IsIssuable(m)
  BY <1>1 DEF RetryPending, Stays, Same
<1>2. CASE m.pendingMemoryRequests # <<>> /\ IsIssuable(m)
  <2> DEFINE s == m.pendingMemoryRequests
             k == [m EXCEPT !.pendingMemoryRequests = Tail(s)]
             n == IssueCommand(k, Head(s))
  <2>1. m \in MemoryType /\ s \in Seq(MemName) /\ s # <<>>
    BY <1>2 DEF MemoryOK, MemoryType
  <2>2. Head(s) \in MemName /\ Tail(s) \in Seq(MemName)
    BY <2>1, TakingTheFirst
  <2>3. /\ k \in MemoryType
        /\ k.queue = m.queue /\ k.banks = m.banks /\ k.responses = m.responses
        /\ k.prefetchBuffer = m.prefetchBuffer /\ k.pendingMemoryRequests = Tail(s)
    BY <2>1, <2>2 DEF MemoryType
  <2>4. n = RetryPending(m)
    BY <1>2 DEF RetryPending
  <2> HIDE DEF k, n
  <2>5. MemoryOK(k) /\ IsIssuable(k)
    BY <1>2, <2>3 DEF MemoryOK, IsIssuable
  <2>6. MemoryOK(n) /\ Comes(k, n, Head(s))
    BY <2>2, <2>5, IssueCommandKeeps DEF n
  <2>7. ASSUME NEW r \in Request, NEW t \in Awaited
        PROVE  Same(m, n, r, t)
    <3>1. /\ NoneAt(s, r, t) => NoneAt(Tail(s), r, t) /\ ~ Mine(Head(s), r, t)
          /\ OneAt(s, r, t) => IF Mine(Head(s), r, t) THEN NoneAt(Tail(s), r, t)
                                                      ELSE OneAt(Tail(s), r, t)
      BY <2>1, TakingTheFirst
    <3>2. IF Mine(Head(s), r, t) THEN None(k, r, t) => One(n, r, t) ELSE Same(k, n, r, t)
      BY <2>6 DEF Comes
    <3> HIDE DEF s
    <3>3. None(m, r, t) => None(k, r, t) /\ ~ Mine(Head(s), r, t)
      BY <2>3, <3>1 DEF None, s
    <3>4. One(m, r, t) => IF Mine(Head(s), r, t) THEN OneAt(s, r, t) => None(k, r, t) ELSE One(k, r, t)
      BY <2>3, <3>1 DEF None, One, s
    <3>5. NoneAt(s, r, t) => ~ Mine(Head(s), r, t)
      BY <3>1
    <3>6. One(m, r, t) => NoneAt(s, r, t) \/ OneAt(s, r, t)
      BY DEF One, s
    <3> QED
      BY <3>2, <3>3, <3>4, <3>5, <3>6 DEF Same
  <2> QED
    BY <2>4, <2>6, <2>7 DEF Stays
<1> QED
  BY <1>1, <1>2

\* Its commands are issued: from the queue to the banks.
LEMMA LeavesQueueKeeps ==
  ASSUME NEW m, MemoryOK(m), NEW q \in m.queue
  PROVE  MemoryOK(LeavesQueue(m, q)) /\ Stays(m, LeavesQueue(m, q))
<1> DEFINE n == LeavesQueue(m, q)
<1>1. m \in MemoryType /\ IsFiniteSet(m.queue) /\ Cardinality(m.queue) <= QueueSize
      /\ Len(m.prefetchBuffer) <= PrefetchBufferSize
  BY DEF MemoryOK
<1>2. n = [m EXCEPT !.queue = m.queue \ {q}, !.banks = m.banks \cup {q}]
  BY DEF LeavesQueue
<1> HIDE DEF n
<1>3. /\ n \in MemoryType
      /\ n.queue = m.queue \ {q} /\ n.banks = m.banks \cup {q} /\ n.responses = m.responses
      /\ n.prefetchBuffer = m.prefetchBuffer /\ n.pendingMemoryRequests = m.pendingMemoryRequests
  BY <1>1, <1>2 DEF MemoryType
<1>4. IsFiniteSet(n.queue) /\ Cardinality(n.queue) <= QueueSize
  <2>1. /\ IsFiniteSet(m.queue \ {q})
        /\ Cardinality(m.queue \ {q})
             = IF q \in m.queue THEN Cardinality(m.queue) - 1 ELSE Cardinality(m.queue)
    BY <1>1, FS_RemoveElement
  <2>2. Cardinality(m.queue) \in Nat
    BY <1>1, FS_CardinalityType
  <2> QED
    BY <1>1, <1>3, <2>1, <2>2, NVMainAssumption
<1>5. ASSUME NEW r \in Request, NEW t \in Awaited
      PROVE  Same(m, n, r, t)
  <2>1. CASE Mine(q, r, t)
    <3>1. /\ OneIn(m.queue, r, t) => NoneIn(m.queue \ {q}, r, t)
          /\ NoneIn(m.banks, r, t) => OneIn(m.banks \cup {q}, r, t)
      BY <2>1, SetPlaces
    <3>2. ~ NoneIn(m.queue, r, t)
      BY <2>1 DEF NoneIn
    <3> QED
      BY <1>3, <3>1, <3>2 DEF Same, None, One
  <2>2. CASE ~ Mine(q, r, t)
    <3>1. /\ NoneIn(m.queue, r, t) => NoneIn(m.queue \ {q}, r, t)
          /\ OneIn(m.queue, r, t) => OneIn(m.queue \ {q}, r, t)
      BY <2>2, SetPlaces
    <3>2. /\ NoneIn(m.banks, r, t) => NoneIn(m.banks \cup {q}, r, t)
          /\ OneIn(m.banks, r, t) => OneIn(m.banks \cup {q}, r, t)
      BY <2>2, SetPlaces
    <3> QED
      BY <1>3, <3>1, <3>2 DEF Same, None, One
  <2> QED
    BY <2>1, <2>2
<1> QED
  BY <1>1, <1>3, <1>4, <1>5 DEF MemoryOK, Stays, n

\* What the banks, or the prefetch buffer, have done is nowhere any more.
LEMMA CompletedGoes ==
  ASSUME NEW m, MemoryOK(m), NEW q \in m.banks \cup m.responses
  PROVE  MemoryOK(Completed(m, q)) /\ Goes(m, Completed(m, q), q)
<1> DEFINE n == Completed(m, q)
<1>1. m \in MemoryType
  BY DEF MemoryOK
<1>2. n = [m EXCEPT !.banks = m.banks \ {q}, !.responses = m.responses \ {q}]
  BY DEF Completed
<1> HIDE DEF n
<1>3. /\ n \in MemoryType
      /\ n.queue = m.queue /\ n.banks = m.banks \ {q} /\ n.responses = m.responses \ {q}
      /\ n.prefetchBuffer = m.prefetchBuffer /\ n.pendingMemoryRequests = m.pendingMemoryRequests
  BY <1>1, <1>2 DEF MemoryType
<1>4. MemoryOK(n)
  BY <1>3 DEF MemoryOK
<1>5. ASSUME NEW r \in Request, NEW t \in Awaited
      PROVE  IF Mine(q, r, t) THEN One(m, r, t) => None(n, r, t) ELSE Same(m, n, r, t)
  <2>1. CASE Mine(q, r, t)
    <3>1. /\ OneIn(m.banks, r, t) /\ q \in m.banks => NoneIn(m.banks \ {q}, r, t)
          /\ OneIn(m.responses, r, t) /\ q \in m.responses => NoneIn(m.responses \ {q}, r, t)
          /\ NoneIn(m.banks, r, t) => NoneIn(m.banks \ {q}, r, t)
          /\ NoneIn(m.responses, r, t) => NoneIn(m.responses \ {q}, r, t)
      BY <2>1, SetPlaces
    <3>2. /\ q \in m.banks => ~ NoneIn(m.banks, r, t)
          /\ q \in m.responses => ~ NoneIn(m.responses, r, t)
      BY <2>1 DEF NoneIn
    <3> QED
      BY <1>3, <2>1, <3>1, <3>2 DEF None, One
  <2>2. CASE ~ Mine(q, r, t)
    <3>1. /\ NoneIn(m.banks, r, t) => NoneIn(m.banks \ {q}, r, t)
          /\ OneIn(m.banks, r, t) => OneIn(m.banks \ {q}, r, t)
      BY <2>2, SetPlaces
    <3>2. /\ NoneIn(m.responses, r, t) => NoneIn(m.responses \ {q}, r, t)
          /\ OneIn(m.responses, r, t) => OneIn(m.responses \ {q}, r, t)
      BY <2>2, SetPlaces
    <3> QED
      BY <1>3, <2>2, <3>1, <3>2 DEF Same, None, One
  <2> QED
    BY <2>1, <2>2
<1> QED
  BY <1>4, <1>5 DEF Goes, n

\* The oldest line makes room for the newest.
LEMMA IntoPrefetchBufferKeeps ==
  ASSUME NEW m, MemoryOK(m), NEW q \in MemName
  PROVE  MemoryOK(IntoPrefetchBuffer(m, q)) /\ Stays(m, IntoPrefetchBuffer(m, q))
<1> DEFINE n == IntoPrefetchBuffer(m, q)
           s == m.prefetchBuffer
           kept == IF Len(s) >= PrefetchBufferSize THEN Tail(s) ELSE s
           f == Append(kept, q.line)
<1>1. m \in MemoryType /\ s \in Seq(Line) /\ Len(s) <= PrefetchBufferSize /\ q.line \in Line
      /\ Len(s) \in Nat
  BY DEF MemoryOK, MemoryType, MemName
<1>2. kept \in Seq(Line) /\ Len(kept) < PrefetchBufferSize
  <2>1. CASE Len(s) >= PrefetchBufferSize
    <3>1. s # <<>>
      BY <1>1, <2>1, NVMainAssumption
    <3>2. Tail(s) \in Seq(Line) /\ Len(Tail(s)) = Len(s) - 1
      BY <1>1, <3>1, HeadTailProperties
    <3> QED
      BY <1>1, <2>1, <3>2, NVMainAssumption
  <2>2. CASE ~ Len(s) >= PrefetchBufferSize
    BY <1>1, <2>2, NVMainAssumption
  <2> QED
    BY <2>1, <2>2
<1>3. n = [m EXCEPT !.prefetchBuffer = f]
  BY DEF IntoPrefetchBuffer
<1> HIDE DEF kept, n
<1>4. f \in Seq(Line) /\ Len(f) <= PrefetchBufferSize
  <2>1. f \in Seq(Line) /\ Len(f) = Len(kept) + 1 /\ Len(kept) \in Nat
    BY <1>1, <1>2, AppendProperties
  <2> QED
    BY <1>2, <2>1, NVMainAssumption
<1> HIDE DEF f, s
<1>5. /\ n \in MemoryType
      /\ n.queue = m.queue /\ n.banks = m.banks /\ n.responses = m.responses
      /\ n.prefetchBuffer = f /\ n.pendingMemoryRequests = m.pendingMemoryRequests
  BY <1>1, <1>3, <1>4 DEF MemoryType
<1> QED
  BY <1>4, <1>5 DEF MemoryOK, Stays, Same, None, One, n

(***************************************************************************)
(* The sets of the cache.                                                  *)
(***************************************************************************)

\* A set is empty or holds one line.
SetType == {Cleared(1)} \cup {<<[line |-> l, dirty |-> d]>> : l \in Line, d \in BOOLEAN}

LEMMA ColumnsHaveSets ==
  ASSUME NEW line \in Line
  PROVE  SetID(line) \in CacheSets
  BY CacheBankAssumption, NVMainAssumption DEF SetID, CacheSets, Line

LEMMA OneWay ==
  ASSUME NEW s \in SetType
  PROVE  /\ DOMAIN s = {1}
         /\ s = Cleared(1) \/ \E l \in Line, d \in BOOLEAN : s = <<[line |-> l, dirty |-> d]>>
         /\ SetFull(s) <=> s[1] # Invalid
<1>1. s = Cleared(1) \/ \E l \in Line, d \in BOOLEAN : s = <<[line |-> l, dirty |-> d]>>
  BY DEF SetType
<1>2. DOMAIN s = {1}
  BY <1>1 DEF Cleared
<1> QED
  BY <1>1, <1>2 DEF SetFull, ToSet

LEMMA HasOneLine ==
  ASSUME NEW s, \E l \in Line, d \in BOOLEAN : s = <<[line |-> l, dirty |-> d]>>
  PROVE  s \in SetType
  BY DEF SetType

LEMMA EntryIsALine ==
  ASSUME NEW line \in Line
  PROVE  <<Entry(line)>> \in SetType
<1>1. FALSE \in BOOLEAN /\ Entry(line) = [line |-> line, dirty |-> FALSE]
  BY DEF Entry
<1>2. \E l \in Line, d \in BOOLEAN : <<Entry(line)>> = <<[line |-> l, dirty |-> d]>>
  BY <1>1, Zenon
<1> QED
  BY <1>2, HasOneLine

LEMMA InstallsOneLine ==
  ASSUME NEW s \in SetType, NEW line \in Line
  PROVE  Install(s, line) \in SetType /\ MakeRoom(s, line) \in SetType
<1>1. <<Entry(line)>> \in SetType
  BY EntryIsALine
<1>2. Install(s, line) \in SetType
  <2>1. CASE SetFull(s)
    BY <2>1 DEF Install
  <2>2. CASE ~ SetFull(s)
    <3> DEFINE P(i) == s[i] = Invalid /\ \A j \in 1 .. i - 1 : s[j] # Invalid
               free == CHOOSE i \in DOMAIN s : P(i)
    <3>1. DOMAIN s = {1} /\ s[1] = Invalid
      BY <2>2, OneWay
    <3>2. free = 1
      BY <3>1
    <3>3. Install(s, line) = [s EXCEPT ![free] = Entry(line)]
      BY <2>2 DEF Install
    <3>4. s \in [{1} -> {s[1]}]
      <4>1. CASE s = Cleared(1)
        BY <4>1 DEF Cleared
      <4>2. CASE \E l \in Line, d \in BOOLEAN : s = <<[line |-> l, dirty |-> d]>>
        BY <4>2
      <4> QED
        BY <4>1, <4>2, OneWay
    <3> HIDE DEF free
    <3>5. Install(s, line) = <<Entry(line)>>
      BY <3>1, <3>2, <3>3, <3>4
    <3> QED
      BY <1>1, <3>5
  <2> QED
    BY <2>1, <2>2
<1>3. MakeRoom(s, line) \in SetType
  <2>1. CASE SetFull(s) /\ ~ Present(s, line)
    <3> DEFINE v == ChooseVictim(s)
               e == Evict(s, v)
    <3> HIDE DEF v
    <3>1. MakeRoom(s, line) = e
      BY <2>1 DEF MakeRoom, v
    <3>2. e = [i \in DOMAIN s |-> IF Holds(s[i], v) THEN Invalid ELSE s[i]]
      BY DEF Evict
    <3>3. CASE Holds(s[1], v)
      <4>1. e = Cleared(1)
        BY <3>2, <3>3, OneWay DEF Cleared
      <4> QED
        BY <3>1, <4>1 DEF SetType
    <3>4. CASE ~ Holds(s[1], v)
      <4>1. s = [i \in DOMAIN s |-> s[i]]
        <5>1. CASE s = Cleared(1)
          BY <5>1 DEF Cleared
        <5>2. CASE \E l \in Line, d \in BOOLEAN : s = <<[line |-> l, dirty |-> d]>>
          BY <5>2
        <5> QED
          BY <5>1, <5>2, OneWay
      <4>2. e = s
        BY <3>2, <3>4, <4>1, OneWay
      <4> QED
        BY <3>1, <4>2
    <3> QED
      BY <3>3, <3>4
  <2>2. CASE ~ (SetFull(s) /\ ~ Present(s, line))
    BY <2>2 DEF MakeRoom
  <2> QED
    BY <2>1, <2>2
<1> QED
  BY <1>2, <1>3

LEMMA VictimIsALine ==
  ASSUME NEW s \in SetType, SetFull(s), EvictsDirty(s, ChooseVictim(s))
  PROVE  ChooseVictim(s) \in Line
<1>1. DOMAIN s = {1} /\ s[1] # Invalid
  BY OneWay
<1>2. s # Cleared(1)
  BY <1>1 DEF Cleared
<1>3. PICK l \in Line, d \in BOOLEAN : s = <<[line |-> l, dirty |-> d]>>
  BY <1>2, OneWay
<1>4. Len(s) = 1 /\ s[1].line = l
  BY <1>3
<1> QED
  BY <1>4 DEF ChooseVictim, Last

(***************************************************************************)
(* The inductive invariant.                                                *)
(***************************************************************************)

AccessType == [type : {"none", "READ", "WRITE"}, line : Line, answered : BOOLEAN]

CacheOK ==
  /\ perfectFills \in BOOLEAN /\ predictor \in Predictors
  /\ access \in [Request -> AccessType]
  /\ drcQueue \in SUBSET DRCName /\ drcBanks \in SUBSET DRCName
  /\ functionalCache \in [CacheSets -> SetType]
  /\ outstandingFills \in SUBSET Request

\* The cache has nothing of r that is not a fill, or one request of it.
CacheNone(r) == NoneIn(drcQueue, r, "NONE") /\ NoneIn(drcBanks, r, "NONE")
CacheOne(r) ==
  \/ OneIn(drcQueue, r, "NONE") /\ NoneIn(drcBanks, r, "NONE")
  \/ NoneIn(drcQueue, r, "NONE") /\ OneIn(drcBanks, r, "NONE")

Unanswered(r) == access[r] # Idle /\ ~ access[r].answered

Nowhere(r) ==
  /\ CacheNone(r) /\ None(mainMemory, r, "MEMREAD") /\ None(mainMemory, r, "BYPASS")
  /\ r \notin outstandingFills
InTheCache(r) ==
  /\ CacheOne(r) /\ None(mainMemory, r, "MEMREAD") /\ None(mainMemory, r, "BYPASS")
  /\ r \notin outstandingFills
Missed(r) ==
  /\ CacheNone(r) /\ One(mainMemory, r, "MEMREAD") /\ None(mainMemory, r, "BYPASS")
  /\ r \in outstandingFills
Bypassing(r) ==
  /\ CacheNone(r) /\ None(mainMemory, r, "MEMREAD") /\ One(mainMemory, r, "BYPASS")
  /\ r \notin outstandingFills

\* Where r is: in one place, which of them depends on the way it took.
InOnePlace(r) == IF Unanswered(r) THEN InTheCache(r) \/ Missed(r) \/ Bypassing(r) ELSE Nowhere(r)

IInv == CacheOK /\ MemoryOK(mainMemory) /\ \A r \in Request : InOnePlace(r)

LEMMA EmptyMemory ==
  /\ MemoryOK(Empty)
  /\ \A r \in Request, t \in Awaited : None(Empty, r, t)
<1>1. Empty \in MemoryType
  BY DEF Empty, MemoryType
<1>2. IsFiniteSet(Empty.queue) /\ Cardinality(Empty.queue) <= QueueSize
  BY FS_EmptySet, NVMainAssumption DEF Empty
<1>3. Len(Empty.prefetchBuffer) <= PrefetchBufferSize
  BY NVMainAssumption DEF Empty
<1> QED
  BY <1>1, <1>2, <1>3 DEF MemoryOK, None, NoneIn, NoneAt, Empty

LEMMA InitIInv == PredictorInit => IInv
<1> SUFFICES ASSUME PredictorInit PROVE IInv
  OBVIOUS
<1> USE DEF PredictorInit, Init
<1>1. Idle \in AccessType
  BY NVMainAssumption DEF Idle, AccessType, Line
<1>2. CacheOK
  BY <1>1, LO_CacheAssumption DEF CacheOK, NothingUnderWay, ChannelInit, EmptyCache, SetType
<1>3. \A r \in Request : InOnePlace(r)
  BY EmptyMemory DEF InOnePlace, Unanswered, Nowhere, CacheNone, NoneIn, NothingUnderWay, Awaited
<1> QED
  BY <1>2, <1>3, EmptyMemory DEF IInv

-----------------------------------------------------------------------------
(* A request of the cache's queue or banks, or of main memory.             *)

LEMMA Names ==
  ASSUME CacheOK, NEW r \in Request, NEW line \in Line
  PROVE  /\ \A type \in {"READ", "WRITE"}, tag \in {"MEMREAD", "EVICT", "BYPASS"} :
              MemRequest(tag, type, r, line) \in MemName
         /\ [tag |-> "NONE", id |-> r, line |-> line] \in DRCName
         /\ DRCRequest("FILL", r) \in DRCName /\ DRCRequest("FILL", r).tag = "FILL"
<1>1. access[r].line \in Line
  BY DEF CacheOK, AccessType
<1> QED
  BY <1>1 DEF MemRequest, MemName, DRCRequest, DRCName

\* A request that is accepted is in one place: the cache's queue or its banks.
LEMMA IssueCommandToStep ==
  ASSUME IInv, NEW r \in Request, NEW type \in {"READ", "WRITE"}, NEW line \in Line,
         IssueCommandTo(r, type, line), UNCHANGED predictor
  PROVE  IInv'
<1> DEFINE req == [tag |-> "NONE", id |-> r, line |-> line]
           new == [type |-> type, line |-> line, answered |-> FALSE]
<1>1. /\ CacheOK /\ access[r] = Idle /\ access' = [access EXCEPT ![r] = new]
      /\ UNCHANGED <<perfectFills, outstandingFills, mainMemory, predictor>>
  BY DEF IInv, IssueCommandTo, Unused
<1>2. \/ drcBanks' = drcBanks \cup {req} /\ InstallAtOnce(line) /\ drcQueue' = drcQueue
      \/ drcQueue' = drcQueue \cup {req} /\ drcBanks' = drcBanks /\ functionalCache' = functionalCache
  BY DEF IssueCommandTo
<1>3. req \in DRCName
  BY <1>1, Names
<1>4. functionalCache' \in [CacheSets -> SetType]
  <2>1. <<Entry(line)>> \in SetType
    BY EntryIsALine
  <2> QED
    BY <1>1, <1>2, <2>1 DEF InstallAtOnce, CacheOK
<1>5. new \in AccessType /\ new # Idle
  BY DEF AccessType, Idle
<1>6. CacheOK'
  BY <1>1, <1>2, <1>3, <1>4, <1>5 DEF CacheOK
<1>7. Nowhere(r)
  BY DEF IInv, InOnePlace, Unanswered, IssueCommandTo, Unused
<1>8. InTheCache(r)'
  <2>1. Mine(req, r, "NONE")
    BY DEF Mine
  <2>2. /\ NoneIn(drcQueue, r, "NONE") => OneIn(drcQueue \cup {req}, r, "NONE")
        /\ NoneIn(drcBanks, r, "NONE") => OneIn(drcBanks \cup {req}, r, "NONE")
    BY <2>1, SetPlaces
  <2> QED
    BY <1>1, <1>2, <1>7, <2>2 DEF Nowhere, InTheCache, CacheNone, CacheOne
<1>9. InOnePlace(r)'
  <2>1. access'[r] = new
    BY <1>1 DEF CacheOK
  <2> QED
    BY <1>5, <1>8, <2>1 DEF InOnePlace, Unanswered
<1>10. ASSUME NEW o \in Request, o # r
       PROVE  InOnePlace(o)'
  <2>1. access'[o] = access[o]
    BY <1>1, <1>10 DEF CacheOK
  <2>2. ~ Mine(req, o, "NONE")
    BY <1>10 DEF Mine
  <2>3. /\ NoneIn(drcQueue, o, "NONE") => NoneIn(drcQueue \cup {req}, o, "NONE")
        /\ OneIn(drcQueue, o, "NONE") => OneIn(drcQueue \cup {req}, o, "NONE")
        /\ NoneIn(drcBanks, o, "NONE") => NoneIn(drcBanks \cup {req}, o, "NONE")
        /\ OneIn(drcBanks, o, "NONE") => OneIn(drcBanks \cup {req}, o, "NONE")
    BY <2>2, SetPlaces
  <2>4. (CacheNone(o) => CacheNone(o)') /\ (CacheOne(o) => CacheOne(o)')
    BY <1>2, <2>3 DEF CacheNone, CacheOne
  <2>5. InOnePlace(o)
    BY DEF IInv
  <2> QED
    BY <1>1, <2>1, <2>4, <2>5
       DEF InOnePlace, Unanswered, Nowhere, InTheCache, Missed, Bypassing
<1> QED
  BY <1>1, <1>6, <1>9, <1>10 DEF IInv


\* One that bypasses the cache is in main memory: both destinations had room.
LEMMA BypassStep ==
  ASSUME IInv, NEW r \in Request, NEW type \in {"READ", "WRITE"}, NEW line \in Line,
         IsIssuable(mainMemory), Bypass(r, type, line), UNCHANGED predictor
  PROVE  IInv'
<1> DEFINE req == MemRequest("BYPASS", type, r, line)
           new == [type |-> type, line |-> line, answered |-> FALSE]
<1>1. /\ CacheOK /\ MemoryOK(mainMemory)
      /\ access[r] = Idle /\ access' = [access EXCEPT ![r] = new]
      /\ mainMemory' = IssueCommand(mainMemory, req)
      /\ UNCHANGED <<perfectFills, drcQueue, drcBanks, functionalCache, outstandingFills, predictor>>
  BY DEF IInv, Bypass, Unused
<1>2. req \in MemName /\ req.id = r /\ req.tag = "BYPASS"
  BY <1>1, Names DEF MemRequest
<1> HIDE DEF req
<1>3. MemoryOK(mainMemory') /\ Comes(mainMemory, mainMemory', req)
  BY <1>1, <1>2, IssueCommandKeeps
<1>4. new \in AccessType /\ new # Idle
  BY DEF AccessType, Idle
<1>5. CacheOK'
  BY <1>1, <1>4 DEF CacheOK
<1>6. ASSUME NEW o \in Request
      PROVE  InOnePlace(o)'
  <2>1. (CacheNone(o) => CacheNone(o)') /\ (CacheOne(o) => CacheOne(o)')
    BY <1>1 DEF CacheNone, CacheOne
  <2>2. /\ IF Mine(req, o, "MEMREAD") THEN None(mainMemory, o, "MEMREAD") => One(mainMemory', o, "MEMREAD")
                                      ELSE Same(mainMemory, mainMemory', o, "MEMREAD")
        /\ IF Mine(req, o, "BYPASS") THEN None(mainMemory, o, "BYPASS") => One(mainMemory', o, "BYPASS")
                                     ELSE Same(mainMemory, mainMemory', o, "BYPASS")
    BY <1>3 DEF Comes, Awaited
  <2>3. InOnePlace(o)
    BY DEF IInv
  <2>4. CASE o = r
    <3>1. Nowhere(r)
      BY <1>1, <2>3, <2>4 DEF InOnePlace, Unanswered
    <3>2. Mine(req, r, "BYPASS") /\ ~ Mine(req, r, "MEMREAD")
      BY <1>2 DEF Mine
    <3>3. Bypassing(r)'
      BY <1>1, <2>1, <2>2, <2>4, <3>1, <3>2 DEF Nowhere, Bypassing, Same
    <3>4. access'[r] = new
      BY <1>1 DEF CacheOK
    <3> QED
      BY <1>4, <2>4, <3>3, <3>4 DEF InOnePlace, Unanswered
  <2>5. CASE o # r
    <3>1. access'[o] = access[o]
      BY <1>1, <2>5 DEF CacheOK
    <3>2. ~ Mine(req, o, "BYPASS") /\ ~ Mine(req, o, "MEMREAD")
      BY <1>2, <2>5 DEF Mine
    <3> QED
      BY <1>1, <2>1, <2>2, <2>3, <3>1, <3>2
         DEF InOnePlace, Unanswered, Nowhere, InTheCache, Missed, Bypassing, Same
  <2> QED
    BY <2>4, <2>5
<1> QED
  BY <1>3, <1>5, <1>6 DEF IInv

\* IssueCommand of the predictor: whatever it expects, nothing is lost.
LEMMA PredictorIssueCommandStep ==
  ASSUME IInv, NEW r \in Request, NEW type \in {"READ", "WRITE"}, NEW line \in Line,
         PredictorIssueCommand(r, type, line), UNCHANGED predictor
  PROVE  IInv'
<1>1. PICK hit \in Translate(type, line) :
        IF hit THEN IssueCommandTo(r, type, line) ELSE Bypass(r, type, line)
  BY DEF PredictorIssueCommand
<1>2. CASE hit
  BY <1>1, <1>2, IssueCommandToStep
<1>3. CASE ~ hit
  <2>1. predictor # "none"
    BY <1>3 DEF Translate
  <2>2. IsIssuable(mainMemory)
    BY <2>1 DEF PredictorIssueCommand, PredictorIsIssuable
  <2> QED
    BY <1>1, <1>3, <2>2, BypassStep
<1> QED
  BY <1>2, <1>3

\* An atomic access is answered at once, and leaves at most prefetches.
LEMMA PredictorIssueAtomicStep ==
  ASSUME IInv, NEW r \in Request, NEW type \in {"READ", "WRITE"}, NEW line \in Line,
         PredictorIssueAtomic(r, type, line)
  PROVE  IInv'
<1> DEFINE req == MemRequest("BYPASS", type, r, line)
           new == [type |-> type, line |-> line, answered |-> TRUE]
<1>1. /\ CacheOK /\ MemoryOK(mainMemory)
      /\ access[r] = Idle /\ access' = [access EXCEPT ![r] = new]
      /\ UNCHANGED <<perfectFills, drcQueue, drcBanks, outstandingFills, predictor>>
      /\ \/ IssueAtomic(type, line) /\ mainMemory' = mainMemory
         \/ mainMemory' = IssueAtomicTo(mainMemory, req) /\ functionalCache' = functionalCache
  BY DEF IInv, PredictorIssueAtomic, Unused
<1>2. functionalCache' \in [CacheSets -> SetType]
  <2>1. functionalCache \in [CacheSets -> SetType] /\ SetID(line) \in CacheSets
    BY <1>1, ColumnsHaveSets DEF CacheOK
  <2>2. CASE FillSet(line)
    <3>1. Install(Room(line), line) \in SetType
      BY <2>1, InstallsOneLine DEF Room
    <3> QED
      BY <2>1, <2>2, <3>1 DEF FillSet
  <2> QED
    BY <1>1, <2>1, <2>2 DEF IssueAtomic
<1>3. new \in AccessType
  BY DEF AccessType
<1>4. CacheOK'
  BY <1>1, <1>2, <1>3 DEF CacheOK
<1>5. MemoryOK(mainMemory') /\ Stays(mainMemory, mainMemory')
  <2>1. CASE mainMemory' = mainMemory
    BY <1>1, <2>1 DEF Stays, Same
  <2>2. CASE mainMemory' = IssueAtomicTo(mainMemory, req)
    <3>1. req \in MemName
      BY <1>1, Names
    <3> HIDE DEF req
    <3>2. CASE req.type = "READ"
      BY <1>1, <2>2, <3>1, <3>2, GeneratePrefetchesKeeps DEF IssueAtomicTo, IssuePrefetch
    <3>3. CASE req.type # "READ"
      BY <1>1, <2>2, <3>3 DEF IssueAtomicTo, IssuePrefetch, Stays, Same
    <3> QED
      BY <3>2, <3>3
  <2> QED
    BY <1>1, <2>1, <2>2
<1>6. ASSUME NEW o \in Request
      PROVE  InOnePlace(o)'
  <2>1. (CacheNone(o) => CacheNone(o)') /\ (CacheOne(o) => CacheOne(o)')
    BY <1>1 DEF CacheNone, CacheOne
  <2>2. Same(mainMemory, mainMemory', o, "MEMREAD") /\ Same(mainMemory, mainMemory', o, "BYPASS")
    BY <1>5 DEF Stays, Awaited
  <2>3. InOnePlace(o)
    BY DEF IInv
  <2>4. Unanswered(o)' <=> Unanswered(o)
    BY <1>1 DEF CacheOK, Unanswered
  <2> QED
    BY <1>1, <2>1, <2>2, <2>3, <2>4
       DEF InOnePlace, Nowhere, InTheCache, Missed, Bypassing, Same
<1> QED
  BY <1>4, <1>5, <1>6 DEF IInv

\* Nothing is under way when a checkpoint is taken, but fills and prefetches.
LEMMA RestartStep ==
  ASSUME IInv, Restart
  PROVE  IInv'
<1>1. /\ CacheOK /\ functionalCache' \in {functionalCache, EmptyCache}
      /\ drcQueue' = {} /\ drcBanks' = {} /\ outstandingFills' = {} /\ mainMemory' = Empty
      /\ UNCHANGED <<perfectFills, access, predictor>>
  BY DEF IInv, Restart, RestoreCheckpoint, CreateCheckpoint
<1>2. CacheOK'
  BY <1>1 DEF CacheOK, EmptyCache, SetType
<1>3. ASSUME NEW r \in Request
      PROVE  InOnePlace(r)'
  <2>1. ~ Unanswered(r)'
    BY <1>1 DEF Restart, Drained, Unanswered
  <2>2. Nowhere(r)'
    BY <1>1, EmptyMemory DEF Nowhere, CacheNone, NoneIn, Awaited
  <2> QED
    BY <2>1, <2>2 DEF InOnePlace
<1> QED
  BY <1>1, <1>2, <1>3, EmptyMemory DEF IInv

\* From the cache's queue to its banks.
LEMMA StartStep ==
  ASSUME IInv, NEW q \in drcQueue, Start(q)
  PROVE  IInv'
<1>1. /\ CacheOK /\ drcQueue' = drcQueue \ {q} /\ drcBanks' = drcBanks \cup {q}
      /\ UNCHANGED <<perfectFills, access, functionalCache, outstandingFills, mainMemory, predictor>>
  BY DEF IInv, Start, Cycle
<1>2. CacheOK'
  BY <1>1 DEF CacheOK
<1>3. ASSUME NEW r \in Request
      PROVE  InOnePlace(r)'
  <2>1. (CacheNone(r) => CacheNone(r)') /\ (CacheOne(r) => CacheOne(r)')
    <3>1. CASE Mine(q, r, "NONE")
      <4>1. /\ OneIn(drcQueue, r, "NONE") => NoneIn(drcQueue \ {q}, r, "NONE")
            /\ NoneIn(drcBanks, r, "NONE") => OneIn(drcBanks \cup {q}, r, "NONE")
        BY <3>1, SetPlaces
      <4>2. ~ NoneIn(drcQueue, r, "NONE")
        BY <3>1 DEF NoneIn
      <4> QED
        BY <1>1, <4>1, <4>2 DEF CacheNone, CacheOne
    <3>2. CASE ~ Mine(q, r, "NONE")
      <4>1. /\ NoneIn(drcQueue, r, "NONE") => NoneIn(drcQueue \ {q}, r, "NONE")
            /\ OneIn(drcQueue, r, "NONE") => OneIn(drcQueue \ {q}, r, "NONE")
        BY <3>2, SetPlaces
      <4>2. /\ NoneIn(drcBanks, r, "NONE") => NoneIn(drcBanks \cup {q}, r, "NONE")
            /\ OneIn(drcBanks, r, "NONE") => OneIn(drcBanks \cup {q}, r, "NONE")
        BY <3>2, SetPlaces
      <4> QED
        BY <1>1, <4>1, <4>2 DEF CacheNone, CacheOne
    <3> QED
      BY <3>1, <3>2
  <2>2. InOnePlace(r)
    BY DEF IInv
  <2> QED
    BY <1>1, <2>1, <2>2 DEF InOnePlace, Unanswered, Nowhere, InTheCache, Missed, Bypassing
<1> QED
  BY <1>1, <1>2, <1>3 DEF IInv
-----------------------------------------------------------------------------
(* What the cache's banks have done.                                       *)

LEMMA ServedLeaves ==
  ASSUME CacheOK, NEW q \in drcBanks, drcBanks' = drcBanks \ {q}, drcQueue' = drcQueue,
         NEW r \in Request
  PROVE  IF Mine(q, r, "NONE")
         THEN ~ CacheNone(r) /\ (CacheOne(r) => CacheNone(r)')
         ELSE (CacheNone(r) => CacheNone(r)') /\ (CacheOne(r) => CacheOne(r)')
<1>1. CASE Mine(q, r, "NONE")
  <2>1. OneIn(drcBanks, r, "NONE") => NoneIn(drcBanks \ {q}, r, "NONE")
    BY <1>1, SetPlaces
  <2>2. ~ NoneIn(drcBanks, r, "NONE")
    BY <1>1 DEF NoneIn
  <2> QED
    BY <1>1, <2>1, <2>2 DEF CacheNone, CacheOne
<1>2. CASE ~ Mine(q, r, "NONE")
  <2>1. /\ NoneIn(drcBanks, r, "NONE") => NoneIn(drcBanks \ {q}, r, "NONE")
        /\ OneIn(drcBanks, r, "NONE") => OneIn(drcBanks \ {q}, r, "NONE")
    BY <1>2, SetPlaces
  <2> QED
    BY <1>2, <2>1 DEF CacheNone, CacheOne
<1> QED
  BY <1>1, <1>2

\* A line is filled in and its victim written back: nobody waits for that.
LEMMA FillingStays ==
  ASSUME CacheOK, MemoryOK(mainMemory), NEW q \in DRCName, FillSet(q.line), WriteBack(q)
  PROVE  /\ functionalCache' \in [CacheSets -> SetType]
         /\ MemoryOK(mainMemory') /\ Stays(mainMemory, mainMemory')
<1> DEFINE set == functionalCache[SetID(q.line)]
           victim == ChooseVictim(set)
           req == MemRequest("EVICT", "WRITE", q.id, victim)
<1>1. q.id \in Request /\ q.line \in Line
  BY DEF DRCName
<1>2. functionalCache \in [CacheSets -> SetType] /\ SetID(q.line) \in CacheSets /\ set \in SetType
  BY <1>1, ColumnsHaveSets DEF CacheOK
<1>3. functionalCache' \in [CacheSets -> SetType]
  <2>1. Install(Room(q.line), q.line) \in SetType
    BY <1>1, <1>2, InstallsOneLine DEF Room
  <2> QED
    BY <1>2, <2>1 DEF FillSet
<1>4. CASE mainMemory' = mainMemory
  BY <1>3, <1>4 DEF Stays, Same
<1>5. CASE SetFull(set) /\ EvictsDirty(set, victim) /\ mainMemory' = IssueOrWait(mainMemory, req)
  <2>1. victim \in Line
    BY <1>2, <1>5, VictimIsALine
  <2>2. req \in MemName /\ req.tag = "EVICT"
    BY <1>1, <2>1, Names DEF MemRequest
  <2> HIDE DEF req, victim, set
  <2>3. MemoryOK(mainMemory') /\ Comes(mainMemory, mainMemory', req)
    BY <1>5, <2>2, IssueOrWaitKeeps
  <2>4. \A r \in Request, t \in Awaited : ~ Mine(req, r, t)
    BY <2>2 DEF Mine, Awaited
  <2> QED
    BY <1>3, <2>3, <2>4 DEF Comes, Stays
<1>6. \/ mainMemory' = mainMemory
      \/ SetFull(set) /\ EvictsDirty(set, victim) /\ mainMemory' = IssueOrWait(mainMemory, req)
  BY DEF WriteBack
<1> QED
  BY <1>4, <1>5, <1>6

LEMMA CompleteFillStep ==
  ASSUME IInv, NEW q \in drcBanks, CompleteFill(q), UNCHANGED predictor
  PROVE  IInv'
<1>1. /\ CacheOK /\ MemoryOK(mainMemory) /\ q \in DRCName /\ q.tag = "FILL"
      /\ drcBanks' = drcBanks \ {q} /\ FillSet(q.line) /\ WriteBack(q)
      /\ UNCHANGED <<perfectFills, access, drcQueue, outstandingFills, predictor>>
  BY DEF IInv, CompleteFill, CacheOK
<1>2. /\ functionalCache' \in [CacheSets -> SetType]
      /\ MemoryOK(mainMemory') /\ Stays(mainMemory, mainMemory')
  BY <1>1, FillingStays
<1>3. CacheOK'
  BY <1>1, <1>2 DEF CacheOK
<1>4. ASSUME NEW r \in Request
      PROVE  InOnePlace(r)'
  <2>1. (CacheNone(r) => CacheNone(r)') /\ (CacheOne(r) => CacheOne(r)')
    BY <1>1, ServedLeaves DEF Mine
  <2>2. Same(mainMemory, mainMemory', r, "MEMREAD") /\ Same(mainMemory, mainMemory', r, "BYPASS")
    BY <1>2 DEF Stays, Awaited
  <2>3. InOnePlace(r)
    BY DEF IInv
  <2> QED
    BY <1>1, <2>1, <2>2, <2>3
       DEF InOnePlace, Unanswered, Nowhere, InTheCache, Missed, Bypassing, Same
<1> QED
  BY <1>2, <1>3, <1>4 DEF IInv

\* A write, or a read that hits, is answered when it leaves the cache.
LEMMA AnsweredStep ==
  ASSUME IInv, NEW q \in drcBanks, q.tag = "NONE",
         drcBanks' = drcBanks \ {q}, Answer(q.id),
         functionalCache' \in [CacheSets -> SetType],
         MemoryOK(mainMemory'), Stays(mainMemory, mainMemory'),
         UNCHANGED <<perfectFills, drcQueue, outstandingFills, predictor>>
  PROVE  IInv'
<1>1. /\ CacheOK /\ access \in [Request -> AccessType] /\ q.id \in Request
      /\ access' = [access EXCEPT ![q.id].answered = TRUE]
  BY DEF IInv, CacheOK, DRCName, Answer
<1>2. access' \in [Request -> AccessType] /\ access'[q.id].answered
  BY <1>1 DEF AccessType
<1>3. CacheOK'
  BY <1>1, <1>2 DEF CacheOK
<1>4. ASSUME NEW r \in Request
      PROVE  InOnePlace(r)'
  <2>1. IF Mine(q, r, "NONE")
        THEN ~ CacheNone(r) /\ (CacheOne(r) => CacheNone(r)')
        ELSE (CacheNone(r) => CacheNone(r)') /\ (CacheOne(r) => CacheOne(r)')
    BY <1>1, ServedLeaves
  <2>2. Same(mainMemory, mainMemory', r, "MEMREAD") /\ Same(mainMemory, mainMemory', r, "BYPASS")
    BY DEF Stays, Awaited
  <2>3. InOnePlace(r)
    BY DEF IInv
  <2>4. CASE r = q.id
    <3>1. Mine(q, r, "NONE")
      BY <2>4 DEF Mine
    <3>2. InTheCache(r)
      BY <2>1, <2>3, <3>1 DEF InOnePlace, Nowhere, Missed, Bypassing
    <3>3. Nowhere(r)'
      BY <2>1, <2>2, <3>1, <3>2 DEF InTheCache, Nowhere, Same
    <3> QED
      BY <1>2, <2>4, <3>3 DEF InOnePlace, Unanswered
  <2>5. CASE r # q.id
    <3>1. access'[r] = access[r]
      BY <1>1, <2>5
    <3>2. ~ Mine(q, r, "NONE")
      BY <2>5 DEF Mine
    <3> QED
      BY <2>1, <2>2, <2>3, <3>1, <3>2
         DEF InOnePlace, Unanswered, Nowhere, InTheCache, Missed, Bypassing, Same
  <2> QED
    BY <2>4, <2>5
<1> QED
  BY <1>3, <1>4 DEF IInv

LEMMA CompleteWriteStep ==
  ASSUME IInv, NEW q \in drcBanks, CompleteWrite(q), UNCHANGED predictor
  PROVE  IInv'
<1>1. CacheOK /\ MemoryOK(mainMemory) /\ q \in DRCName /\ FillSet(q.line) /\ WriteBack(q)
  BY DEF IInv, CompleteWrite, CacheOK
<1>2. /\ functionalCache' \in [CacheSets -> SetType]
      /\ MemoryOK(mainMemory') /\ Stays(mainMemory, mainMemory')
  BY <1>1, FillingStays
<1> QED
  BY <1>2, AnsweredStep DEF CompleteWrite

LEMMA CompleteReadHitStep ==
  ASSUME IInv, NEW q \in drcBanks, CompleteReadHit(q), UNCHANGED predictor
  PROVE  IInv'
<1>1. /\ functionalCache' \in [CacheSets -> SetType]
      /\ MemoryOK(mainMemory') /\ Stays(mainMemory, mainMemory')
  BY DEF IInv, CacheOK, CompleteReadHit, Stays, Same
<1> QED
  BY <1>1, AnsweredStep DEF CompleteReadHit

\* A read that misses goes on to main memory: its queue, or those that wait.
LEMMA CompleteReadMissStep ==
  ASSUME IInv, NEW q \in drcBanks, CompleteReadMiss(q), UNCHANGED predictor
  PROVE  IInv'
<1> DEFINE req == MemRequest("MEMREAD", "READ", q.id, q.line)
<1>1. /\ CacheOK /\ MemoryOK(mainMemory) /\ q.tag = "NONE" /\ q.id \in Request /\ q.line \in Line
      /\ drcBanks' = drcBanks \ {q} /\ outstandingFills' = outstandingFills \cup {q.id}
      /\ mainMemory' = IssueOrWait(mainMemory, req)
      /\ UNCHANGED <<perfectFills, access, drcQueue, functionalCache, predictor>>
  BY DEF IInv, CompleteReadMiss, CacheOK, DRCName
<1>2. req \in MemName /\ req.id = q.id /\ req.tag = "MEMREAD"
  BY <1>1, Names DEF MemRequest
<1> HIDE DEF req
<1>3. MemoryOK(mainMemory') /\ Comes(mainMemory, mainMemory', req)
  BY <1>1, <1>2, IssueOrWaitKeeps
<1>4. CacheOK'
  BY <1>1 DEF CacheOK
<1>5. ASSUME NEW r \in Request
      PROVE  InOnePlace(r)'
  <2>1. IF Mine(q, r, "NONE")
        THEN ~ CacheNone(r) /\ (CacheOne(r) => CacheNone(r)')
        ELSE (CacheNone(r) => CacheNone(r)') /\ (CacheOne(r) => CacheOne(r)')
    BY <1>1, ServedLeaves
  <2>2. /\ IF Mine(req, r, "MEMREAD") THEN None(mainMemory, r, "MEMREAD") => One(mainMemory', r, "MEMREAD")
                                      ELSE Same(mainMemory, mainMemory', r, "MEMREAD")
        /\ IF Mine(req, r, "BYPASS") THEN None(mainMemory, r, "BYPASS") => One(mainMemory', r, "BYPASS")
                                     ELSE Same(mainMemory, mainMemory', r, "BYPASS")
    BY <1>3 DEF Comes, Awaited
  <2>3. InOnePlace(r)
    BY DEF IInv
  <2>4. CASE r = q.id
    <3>1. Mine(q, r, "NONE") /\ Mine(req, r, "MEMREAD") /\ ~ Mine(req, r, "BYPASS")
      BY <1>1, <1>2, <2>4 DEF Mine
    <3>2. InTheCache(r) /\ Unanswered(r)
      BY <2>1, <2>3, <3>1 DEF InOnePlace, Nowhere, Missed, Bypassing
    <3>3. Missed(r)'
      BY <1>1, <2>1, <2>2, <2>4, <3>1, <3>2 DEF InTheCache, Missed, Same
    <3> QED
      BY <1>1, <3>2, <3>3 DEF InOnePlace, Unanswered
  <2>5. CASE r # q.id
    <3>1. ~ Mine(q, r, "NONE") /\ ~ Mine(req, r, "MEMREAD") /\ ~ Mine(req, r, "BYPASS")
      BY <1>2, <2>5 DEF Mine
    <3>2. r \in outstandingFills' <=> r \in outstandingFills
      BY <1>1, <2>5
    <3> QED
      BY <1>1, <2>1, <2>2, <2>3, <3>1, <3>2
         DEF InOnePlace, Unanswered, Nowhere, InTheCache, Missed, Bypassing, Same
  <2> QED
    BY <2>4, <2>5
<1> QED
  BY <1>3, <1>4, <1>5 DEF IInv

LEMMA ServeStep ==
  ASSUME IInv, NEW q \in drcBanks, Serve(q)
  PROVE  IInv'
  BY CompleteFillStep, CompleteWriteStep, CompleteReadHitStep, CompleteReadMissStep
     DEF Serve, CompleteDRC
-----------------------------------------------------------------------------
(* What main memory does.                                                  *)

LEMMA MemoryStartStep ==
  ASSUME IInv, NEW q \in mainMemory.queue, MemoryStart(q)
  PROVE  IInv'
<1>1. /\ CacheOK /\ MemoryOK(mainMemory) /\ mainMemory' = LeavesQueue(mainMemory, q)
      /\ UNCHANGED <<perfectFills, access, drcQueue, drcBanks, functionalCache, outstandingFills, predictor>>
  BY DEF IInv, MemoryStart, MemoryCycle
<1>2. MemoryOK(mainMemory') /\ Stays(mainMemory, mainMemory')
  BY <1>1, LeavesQueueKeeps
<1>3. CacheOK'
  BY <1>1 DEF CacheOK
<1>4. ASSUME NEW r \in Request
      PROVE  InOnePlace(r)'
  <2>1. (CacheNone(r) => CacheNone(r)') /\ (CacheOne(r) => CacheOne(r)')
    BY <1>1 DEF CacheNone, CacheOne
  <2>2. Same(mainMemory, mainMemory', r, "MEMREAD") /\ Same(mainMemory, mainMemory', r, "BYPASS")
    BY <1>2 DEF Stays, Awaited
  <2>3. InOnePlace(r)
    BY DEF IInv
  <2> QED
    BY <1>1, <2>1, <2>2, <2>3
       DEF InOnePlace, Unanswered, Nowhere, InTheCache, Missed, Bypassing, Same
<1> QED
  BY <1>2, <1>3, <1>4 DEF IInv

\* What main memory has done is gone, whatever the retry then moves.
LEMMA MemoryLosesOnlyIt ==
  ASSUME IInv, NEW q \in mainMemory.banks \cup mainMemory.responses, MemoryServe(q)
  PROVE  /\ q \in MemName
         /\ MemoryOK(mainMemory') /\ Goes(mainMemory, mainMemory', q)
<1> DEFINE done == Completed(mainMemory, q)
           m == IF q.tag = "PREFETCH" THEN IntoPrefetchBuffer(done, q) ELSE done
<1>1. MemoryOK(mainMemory) /\ mainMemory' = RetryPending(m)
  BY DEF IInv, MemoryServe, MemoryRequestComplete
<1>2. q \in MemName
  BY <1>1 DEF MemoryOK, MemoryType
<1>3. MemoryOK(done) /\ Goes(mainMemory, done, q)
  BY <1>1, CompletedGoes
<1> HIDE DEF done
<1>4. MemoryOK(m) /\ Stays(done, m)
  BY <1>2, <1>3, IntoPrefetchBufferKeeps DEF Stays, Same
<1> HIDE DEF m
<1>5. MemoryOK(mainMemory') /\ Stays(m, mainMemory')
  BY <1>1, <1>4, RetryPendingKeeps
<1>6. Goes(mainMemory, mainMemory', q)
  BY <1>3, <1>4, <1>5 DEF Goes, Stays, Same
<1> QED
  BY <1>2, <1>5, <1>6

\* The answer of main memory to a read that missed is the requestor's, and the
\* fill that it becomes is nobody's.
LEMMA MemReadReturned ==
  ASSUME IInv, NEW q \in mainMemory.banks \cup mainMemory.responses, MemoryServe(q),
         q.tag = "MEMREAD"
  PROVE  IInv'
<1> DEFINE fill == DRCRequest("FILL", q.id)
<1>1. /\ CacheOK /\ q.id \in Request /\ q.line \in Line
      /\ access \in [Request -> AccessType]
      /\ MemoryOK(mainMemory') /\ Goes(mainMemory, mainMemory', q)
  BY MemoryLosesOnlyIt DEF IInv, CacheOK, MemName
<1>2. /\ Fill(q) /\ outstandingFills' = outstandingFills \ {q.id}
      /\ access' = [access EXCEPT ![q.id].answered = TRUE]
      /\ UNCHANGED <<perfectFills, predictor>>
  BY DEF MemoryServe, MemoryRequestComplete, Returned, Answer
<1>3. \/ drcBanks' = drcBanks \cup {fill} /\ drcQueue' = drcQueue /\ InstallAtOnce(q.line)
      \/ drcQueue' = drcQueue \cup {fill} /\ drcBanks' = drcBanks /\ functionalCache' = functionalCache
  BY <1>2 DEF Fill
<1>4. fill \in DRCName /\ fill.tag = "FILL"
  BY <1>1, Names
<1> HIDE DEF fill
<1>5. functionalCache' \in [CacheSets -> SetType]
  <2>1. <<Entry(q.line)>> \in SetType
    BY <1>1, EntryIsALine
  <2> QED
    BY <1>1, <1>3, <2>1 DEF InstallAtOnce, CacheOK
<1>6. access' \in [Request -> AccessType] /\ access'[q.id].answered
  BY <1>1, <1>2 DEF AccessType
<1>7. CacheOK'
  BY <1>1, <1>2, <1>3, <1>4, <1>5, <1>6 DEF CacheOK
<1>8. ASSUME NEW r \in Request
      PROVE  InOnePlace(r)'
  <2>1. (CacheNone(r) => CacheNone(r)') /\ (CacheOne(r) => CacheOne(r)')
    <3>1. ~ Mine(fill, r, "NONE")
      BY <1>4 DEF Mine
    <3>2. /\ NoneIn(drcQueue, r, "NONE") => NoneIn(drcQueue \cup {fill}, r, "NONE")
          /\ OneIn(drcQueue, r, "NONE") => OneIn(drcQueue \cup {fill}, r, "NONE")
      BY <3>1, SetPlaces
    <3>3. /\ NoneIn(drcBanks, r, "NONE") => NoneIn(drcBanks \cup {fill}, r, "NONE")
          /\ OneIn(drcBanks, r, "NONE") => OneIn(drcBanks \cup {fill}, r, "NONE")
      BY <3>1, SetPlaces
    <3> QED
      BY <1>3, <3>2, <3>3 DEF CacheNone, CacheOne
  <2>2. /\ IF Mine(q, r, "MEMREAD") THEN One(mainMemory, r, "MEMREAD") => None(mainMemory', r, "MEMREAD")
                                    ELSE Same(mainMemory, mainMemory', r, "MEMREAD")
        /\ IF Mine(q, r, "BYPASS") THEN One(mainMemory, r, "BYPASS") => None(mainMemory', r, "BYPASS")
                                   ELSE Same(mainMemory, mainMemory', r, "BYPASS")
    BY <1>1 DEF Goes, Awaited
  <2>3. InOnePlace(r)
    BY DEF IInv
  <2>4. CASE r = q.id
    <3>1. Mine(q, r, "MEMREAD") /\ ~ Mine(q, r, "BYPASS")
      BY <2>4 DEF Mine
    <3>2. ~ None(mainMemory, r, "MEMREAD")
      BY <3>1 DEF None, NoneIn
    <3>3. Missed(r)
      BY <2>3, <3>2 DEF InOnePlace, Nowhere, InTheCache, Bypassing
    <3>4. Nowhere(r)'
      BY <1>2, <2>1, <2>2, <2>4, <3>1, <3>3 DEF Missed, Nowhere, Same
    <3> QED
      BY <1>6, <2>4, <3>4 DEF InOnePlace, Unanswered
  <2>5. CASE r # q.id
    <3>1. ~ Mine(q, r, "MEMREAD") /\ ~ Mine(q, r, "BYPASS")
      BY <2>5 DEF Mine
    <3>2. access'[r] = access[r] /\ (r \in outstandingFills' <=> r \in outstandingFills)
      BY <1>1, <1>2, <2>5
    <3> QED
      BY <2>1, <2>2, <2>3, <3>1, <3>2
         DEF InOnePlace, Unanswered, Nowhere, InTheCache, Missed, Bypassing, Same
  <2> QED
    BY <2>4, <2>5
<1> QED
  BY <1>1, <1>7, <1>8 DEF IInv

\* What bypassed the cache goes up past it.
LEMMA BypassReturned ==
  ASSUME IInv, NEW q \in mainMemory.banks \cup mainMemory.responses, MemoryServe(q),
         q.tag = "BYPASS"
  PROVE  IInv'
<1>1. /\ CacheOK /\ q.id \in Request /\ access \in [Request -> AccessType]
      /\ MemoryOK(mainMemory') /\ Goes(mainMemory, mainMemory', q)
  BY MemoryLosesOnlyIt DEF IInv, CacheOK, MemName
<1>2. /\ access' = [access EXCEPT ![q.id].answered = TRUE]
      /\ UNCHANGED <<perfectFills, predictor, drcQueue, drcBanks, functionalCache, outstandingFills>>
  BY DEF MemoryServe, MemoryRequestComplete, Returned, Answer
<1>3. access' \in [Request -> AccessType] /\ access'[q.id].answered
  BY <1>1, <1>2 DEF AccessType
<1>4. CacheOK'
  BY <1>1, <1>2, <1>3 DEF CacheOK
<1>5. ASSUME NEW r \in Request
      PROVE  InOnePlace(r)'
  <2>1. (CacheNone(r) => CacheNone(r)') /\ (CacheOne(r) => CacheOne(r)')
    BY <1>2 DEF CacheNone, CacheOne
  <2>2. /\ IF Mine(q, r, "MEMREAD") THEN One(mainMemory, r, "MEMREAD") => None(mainMemory', r, "MEMREAD")
                                    ELSE Same(mainMemory, mainMemory', r, "MEMREAD")
        /\ IF Mine(q, r, "BYPASS") THEN One(mainMemory, r, "BYPASS") => None(mainMemory', r, "BYPASS")
                                   ELSE Same(mainMemory, mainMemory', r, "BYPASS")
    BY <1>1 DEF Goes, Awaited
  <2>3. InOnePlace(r)
    BY DEF IInv
  <2>4. CASE r = q.id
    <3>1. Mine(q, r, "BYPASS") /\ ~ Mine(q, r, "MEMREAD")
      BY <2>4 DEF Mine
    <3>2. ~ None(mainMemory, r, "BYPASS")
      BY <3>1 DEF None, NoneIn
    <3>3. Bypassing(r)
      BY <2>3, <3>2 DEF InOnePlace, Nowhere, InTheCache, Missed
    <3>4. Nowhere(r)'
      BY <1>2, <2>1, <2>2, <3>1, <3>3 DEF Bypassing, Nowhere, Same
    <3> QED
      BY <1>3, <2>4, <3>4 DEF InOnePlace, Unanswered
  <2>5. CASE r # q.id
    <3>1. ~ Mine(q, r, "MEMREAD") /\ ~ Mine(q, r, "BYPASS")
      BY <2>5 DEF Mine
    <3>2. access'[r] = access[r]
      BY <1>1, <1>2, <2>5
    <3> QED
      BY <1>2, <2>1, <2>2, <2>3, <3>1, <3>2
         DEF InOnePlace, Unanswered, Nowhere, InTheCache, Missed, Bypassing, Same
  <2> QED
    BY <2>4, <2>5
<1> QED
  BY <1>1, <1>4, <1>5 DEF IInv

\* Nobody above waits for a write back or a prefetch.
LEMMA OtherReturned ==
  ASSUME IInv, NEW q \in mainMemory.banks \cup mainMemory.responses, MemoryServe(q),
         q.tag # "MEMREAD", q.tag # "BYPASS"
  PROVE  IInv'
<1>1. CacheOK /\ MemoryOK(mainMemory') /\ Goes(mainMemory, mainMemory', q)
  BY MemoryLosesOnlyIt DEF IInv
<1>2. UNCHANGED <<perfectFills, predictor, access, drcQueue, drcBanks, functionalCache, outstandingFills>>
  BY DEF MemoryServe, MemoryRequestComplete, Returned
<1>3. CacheOK'
  BY <1>1, <1>2 DEF CacheOK
<1>4. ASSUME NEW r \in Request
      PROVE  InOnePlace(r)'
  <2>1. (CacheNone(r) => CacheNone(r)') /\ (CacheOne(r) => CacheOne(r)')
    BY <1>2 DEF CacheNone, CacheOne
  <2>2. Same(mainMemory, mainMemory', r, "MEMREAD") /\ Same(mainMemory, mainMemory', r, "BYPASS")
    BY <1>1 DEF Goes, Awaited, Mine
  <2>3. InOnePlace(r)
    BY DEF IInv
  <2> QED
    BY <1>2, <2>1, <2>2, <2>3
       DEF InOnePlace, Unanswered, Nowhere, InTheCache, Missed, Bypassing, Same
<1> QED
  BY <1>1, <1>3, <1>4 DEF IInv

LEMMA NextIInv == IInv /\ [Next]_allVars => IInv'
<1> SUFFICES ASSUME IInv, [Next]_allVars PROVE IInv'
  OBVIOUS
<1>1. ASSUME NEW r \in Request, NEW type \in {"READ", "WRITE"}, NEW line \in Line,
             PredictorIssueCommand(r, type, line), UNCHANGED predictor
      PROVE  IInv'
  BY <1>1, PredictorIssueCommandStep
<1>2. ASSUME NEW r \in Request, NEW type \in {"READ", "WRITE"}, NEW line \in Line,
             PredictorIssueAtomic(r, type, line)
      PROVE  IInv'
  BY <1>2, PredictorIssueAtomicStep
<1>3. CASE Restart
  BY <1>3, RestartStep
<1>4. ASSUME NEW q \in drcQueue, Start(q)
      PROVE  IInv'
  BY <1>4, StartStep
<1>5. ASSUME NEW q \in drcBanks, Serve(q)
      PROVE  IInv'
  BY <1>5, ServeStep
<1>6. ASSUME NEW q \in mainMemory.queue, MemoryStart(q)
      PROVE  IInv'
  BY <1>6, MemoryStartStep
<1>7. ASSUME NEW q \in mainMemory.banks \cup mainMemory.responses, MemoryServe(q)
      PROVE  IInv'
  BY <1>7, MemReadReturned, BypassReturned, OtherReturned
<1>8. CASE UNCHANGED allVars
  <2>1. CacheOK' /\ MemoryOK(mainMemory')
    BY <1>8 DEF allVars, vars, IInv, CacheOK
  <2>2. ASSUME NEW r \in Request
        PROVE  InOnePlace(r)'
    BY <1>8 DEF allVars, vars, IInv, InOnePlace, Unanswered, Nowhere, InTheCache, Missed,
                Bypassing, CacheNone, CacheOne
  <2> QED
    BY <2>1, <2>2 DEF IInv
<1> QED
  BY <1>1, <1>2, <1>3, <1>4, <1>5, <1>6, <1>7, <1>8 DEF Next

\* The cache, its channels and main memory keep it, whatever the order in which
\* requests come, are served and are retried.
THEOREM Invariance == Spec => []IInv
  BY InitIInv, NextIInv, PTL DEF Spec
-----------------------------------------------------------------------------
(* What the invariant says of the properties that the run checks.          *)


Waiting == {"NONE", "MEMREAD", "BYPASS"}
Theirs(S, r) == {q \in S : q.id = r /\ q.tag \in Waiting}
TheirPlaces(s, r) == {i \in DOMAIN s : s[i].id = r /\ s[i].tag \in Waiting}

\* As many as r waits for: none, or one under one of the tags.
LEMMA Counting ==
  ASSUME NEW S, NEW r
  PROVE  /\ (\A t \in Waiting : NoneIn(S, r, t)) => Cardinality(Theirs(S, r)) = 0
         /\ \A t \in Waiting :
              OneIn(S, r, t) /\ (\A u \in Waiting \ {t} : NoneIn(S, r, u))
                => Cardinality(Theirs(S, r)) = 1
<1>1. ASSUME \A t \in Waiting : NoneIn(S, r, t)
      PROVE  Theirs(S, r) = {}
  BY <1>1 DEF NoneIn, Mine, Theirs
<1>2. ASSUME NEW t \in Waiting, OneIn(S, r, t), \A u \in Waiting \ {t} : NoneIn(S, r, u)
      PROVE  Cardinality(Theirs(S, r)) = 1
  <2>1. PICK q \in S : Mine(q, r, t) /\ \A p \in S : Mine(p, r, t) => p = q
    BY <1>2 DEF OneIn
  <2>2. \A p \in S : p.id = r /\ p.tag \in Waiting <=> p = q
    BY <1>2, <2>1 DEF NoneIn, Mine
  <2>3. Theirs(S, r) = {q}
    BY <2>2 DEF Theirs
  <2> QED
    BY <2>3, FS_Singleton
<1> QED
  BY <1>1, <1>2, FS_EmptySet

LEMMA CountingPlaces ==
  ASSUME NEW s, NEW r
  PROVE  /\ (\A t \in Waiting : NoneAt(s, r, t)) => Cardinality(TheirPlaces(s, r)) = 0
         /\ \A t \in Waiting :
              OneAt(s, r, t) /\ (\A u \in Waiting \ {t} : NoneAt(s, r, u))
                => Cardinality(TheirPlaces(s, r)) = 1
<1>1. ASSUME \A t \in Waiting : NoneAt(s, r, t)
      PROVE  TheirPlaces(s, r) = {}
  BY <1>1 DEF NoneAt, Mine, TheirPlaces
<1>2. ASSUME NEW t \in Waiting, OneAt(s, r, t), \A u \in Waiting \ {t} : NoneAt(s, r, u)
      PROVE  Cardinality(TheirPlaces(s, r)) = 1
  <2>1. PICK i \in DOMAIN s : Mine(s[i], r, t) /\ \A j \in DOMAIN s : Mine(s[j], r, t) => j = i
    BY <1>2 DEF OneAt
  <2>2. \A j \in DOMAIN s : s[j].id = r /\ s[j].tag \in Waiting <=> j = i
    BY <1>2, <2>1 DEF NoneAt, Mine
  <2>3. TheirPlaces(s, r) = {i}
    BY <2>2 DEF TheirPlaces
  <2> QED
    BY <2>3, FS_Singleton
<1> QED
  BY <1>1, <1>2, FS_EmptySet

\* The cache's own requests and those of main memory have tags of their own.
LEMMA TagsApart ==
  ASSUME CacheOK, MemoryOK(mainMemory), NEW r
  PROVE  /\ \A t \in Awaited : NoneIn(drcQueue, r, t) /\ NoneIn(drcBanks, r, t)
         /\ None(mainMemory, r, "NONE")
<1>1. ASSUME NEW t \in Awaited
      PROVE  NoneIn(drcQueue, r, t) /\ NoneIn(drcBanks, r, t)
  BY DEF CacheOK, DRCName, NoneIn, Mine, Awaited
<1>2. /\ \A q \in mainMemory.queue \cup mainMemory.banks \cup mainMemory.responses : q.tag # "NONE"
      /\ \A i \in DOMAIN mainMemory.pendingMemoryRequests :
           mainMemory.pendingMemoryRequests[i].tag # "NONE"
  <2>1. /\ mainMemory.queue \cup mainMemory.banks \cup mainMemory.responses \subseteq MemName
        /\ mainMemory.pendingMemoryRequests \in Seq(MemName)
    BY DEF MemoryOK, MemoryType
  <2>2. \A i \in DOMAIN mainMemory.pendingMemoryRequests :
          mainMemory.pendingMemoryRequests[i] \in MemName
    BY <2>1, ElementOfSeq
  <2>3. \A q \in MemName : q.tag # "NONE"
    BY DEF MemName
  <2> QED
    BY <2>1, <2>2, <2>3
<1> QED
  BY <1>1, <1>2 DEF None, NoneIn, NoneAt, Mine

\* The six places together have as many requests of r as it waits for.
LEMMA OnePlaceCounts ==
  ASSUME IInv, NEW r \in Request
  PROVE  Cardinality(Theirs(drcQueue, r)) + Cardinality(Theirs(drcBanks, r))
           + Cardinality(Theirs(mainMemory.queue, r)) + Cardinality(Theirs(mainMemory.banks, r))
           + Cardinality(Theirs(mainMemory.responses, r))
           + Cardinality(TheirPlaces(mainMemory.pendingMemoryRequests, r))
         = IF Unanswered(r) THEN 1 ELSE 0
<1> DEFINE m == mainMemory
           N(S) == \A t \in Waiting : NoneIn(S, r, t)
           O(S) == \E t \in Waiting : OneIn(S, r, t) /\ \A u \in Waiting \ {t} : NoneIn(S, r, u)
           NP == \A t \in Waiting : NoneAt(m.pendingMemoryRequests, r, t)
           OP == \E t \in Waiting : /\ OneAt(m.pendingMemoryRequests, r, t)
                                    /\ \A u \in Waiting \ {t} : NoneAt(m.pendingMemoryRequests, r, u)
<1>1. /\ NoneIn(drcQueue, r, "MEMREAD") /\ NoneIn(drcBanks, r, "MEMREAD")
      /\ NoneIn(drcQueue, r, "BYPASS") /\ NoneIn(drcBanks, r, "BYPASS")
      /\ None(m, r, "NONE")
  BY TagsApart DEF IInv, Awaited
<1>2. InOnePlace(r)
  BY DEF IInv
<1>3. \A S : (N(S) => Cardinality(Theirs(S, r)) = 0) /\ (O(S) => Cardinality(Theirs(S, r)) = 1)
  BY Counting
<1>4. /\ NP => Cardinality(TheirPlaces(m.pendingMemoryRequests, r)) = 0
      /\ OP => Cardinality(TheirPlaces(m.pendingMemoryRequests, r)) = 1
  BY CountingPlaces
<1>5. CASE Unanswered(r) /\ InTheCache(r)
  <2>1. N(m.queue) /\ N(m.banks) /\ N(m.responses) /\ NP
    BY <1>1, <1>5 DEF InTheCache, None, Waiting
  <2>2. \/ O(drcQueue) /\ N(drcBanks)
        \/ N(drcQueue) /\ O(drcBanks)
    BY <1>1, <1>5 DEF InTheCache, CacheOne, Waiting
  <2> HIDE DEF N, O, NP, OP
  <2> QED
    BY <1>3, <1>4, <1>5, <2>1, <2>2
<1>6. CASE Unanswered(r) /\ (Missed(r) \/ Bypassing(r))
  <2>1. N(drcQueue) /\ N(drcBanks)
    BY <1>1, <1>6 DEF Missed, Bypassing, CacheNone, Waiting
  <2>2. PICK t \in Waiting : One(m, r, t) /\ \A u \in Waiting \ {t} : None(m, r, u)
    BY <1>1, <1>6 DEF Missed, Bypassing, Waiting
  <2>3. \/ O(m.queue) /\ N(m.banks) /\ N(m.responses) /\ NP
        \/ N(m.queue) /\ O(m.banks) /\ N(m.responses) /\ NP
        \/ N(m.queue) /\ N(m.banks) /\ O(m.responses) /\ NP
        \/ N(m.queue) /\ N(m.banks) /\ N(m.responses) /\ OP
    BY <2>2 DEF None, One
  <2> HIDE DEF N, O, NP, OP
  <2> QED
    BY <1>3, <1>4, <1>6, <2>1, <2>3
<1>7. CASE ~ Unanswered(r) /\ Nowhere(r)
  <2>1. N(drcQueue) /\ N(drcBanks) /\ N(m.queue) /\ N(m.banks) /\ N(m.responses) /\ NP
    BY <1>1, <1>7 DEF Nowhere, CacheNone, None, Waiting
  <2> HIDE DEF N, O, NP, OP
  <2> QED
    BY <1>3, <1>4, <1>7, <2>1
<1> QED
  BY <1>2, <1>5, <1>6, <1>7 DEF InOnePlace

\* outstandingFills are the misses that main memory has.
LEMMA FillsAreOutstanding ==
  ASSUME IInv, NEW r \in Request
  PROVE  r \in outstandingFills <=> \E q \in InMainMemory : q.id = r /\ q.tag = "MEMREAD"
<1>1. (\E q \in InMainMemory : q.id = r /\ q.tag = "MEMREAD") <=> ~ None(mainMemory, r, "MEMREAD")
  BY DEF InMainMemory, ToSet, None, NoneIn, NoneAt, Mine
<1>2. One(mainMemory, r, "MEMREAD") => ~ None(mainMemory, r, "MEMREAD")
  BY DEF One, None, OneIn, NoneIn, OneAt, NoneAt
<1>3. InOnePlace(r)
  BY DEF IInv
<1> QED
  BY <1>1, <1>2, <1>3 DEF InOnePlace, Nowhere, InTheCache, Missed, Bypassing

LEMMA IInvImplies == IInv => TypeOK /\ UnansweredRequestsAreInOnePlace
<1> SUFFICES ASSUME IInv PROVE TypeOK /\ UnansweredRequestsAreInOnePlace
  OBVIOUS
<1>1. TypeOK
  <2>1. InMainMemory \subseteq MemName
    <3>1. /\ mainMemory.queue \cup mainMemory.banks \cup mainMemory.responses \subseteq MemName
          /\ mainMemory.pendingMemoryRequests \in Seq(MemName)
      BY DEF IInv, MemoryOK, MemoryType
    <3>2. ToSet(mainMemory.pendingMemoryRequests) \subseteq MemName
      BY <3>1, ElementOfSeq DEF ToSet
    <3> QED
      BY <3>1, <3>2 DEF InMainMemory
  <2>2. \A s \in CacheSets :
          functionalCache[s] \in {Cleared(1)} \cup {<<[line |-> l, dirty |-> d]>> : l \in Line, d \in BOOLEAN}
    BY DEF IInv, CacheOK, SetType
  <2> QED
    BY <2>1, <2>2 DEF TypeOK, IInv, CacheOK, MemoryOK, AccessType
<1>2. ASSUME NEW r \in Request
      PROVE  LET mine(q) == q.id = r /\ q.tag \in {"NONE", "MEMREAD", "BYPASS"}
             IN  /\ Cardinality({q \in drcQueue : mine(q)}) + Cardinality({q \in drcBanks : mine(q)})
                    + Cardinality({q \in mainMemory.queue : mine(q)})
                    + Cardinality({q \in mainMemory.banks : mine(q)})
                    + Cardinality({q \in mainMemory.responses : mine(q)})
                    + Cardinality({i \in DOMAIN mainMemory.pendingMemoryRequests :
                                     mine(mainMemory.pendingMemoryRequests[i])})
                    = IF access[r] # Idle /\ ~ access[r].answered THEN 1 ELSE 0
                 /\ r \in outstandingFills <=> \E q \in InMainMemory : q.id = r /\ q.tag = "MEMREAD"
  BY OnePlaceCounts, FillsAreOutstanding DEF Theirs, TheirPlaces, Waiting, Unanswered
<1> QED
  BY <1>1, <1>2 DEF UnansweredRequestsAreInOnePlace

\* The cache, main memory and their buffers hold what they are meant to hold,
\* and no more than fits: GeneratePrefetches and the prefetch buffer of nvmain.cpp
\* stay within their bounds whatever the degree of the prefetcher.
THEOREM PredictorDRCType == Spec => []TypeOK
  BY Invariance, IInvImplies, PTL

\* Every request that DRAMCache accepts is in exactly one place until it is
\* answered, over any number of requests, sizes of queues and predictions.
THEOREM RequestsAreInOnePlace == Spec => []UnansweredRequestsAreInOnePlace
  BY Invariance, IInvImplies, PTL
=============================================================================
