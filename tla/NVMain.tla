------------------------------- MODULE NVMain -------------------------------
(* NVM/nvmain: the head of a memory system.  It hands a request to the     *)
(* controller of its channel, generates prefetches, answers requests from  *)
(* the prefetch buffer and retries those that its user left with it.  One  *)
(* channel; its state is a record m, so that a handler is a function of it.*)
EXTENDS Naturals, FiniteSets, Sequences, SequencesExt

CONSTANTS
  QueueSize,            \* transactions that fit in the controller's queue
  PrefetchBufferSize,
  PrefetchDegree,       \* NaivePrefetcher: 3; 0 without a prefetcher
  LastLine              \* the lines of the memory are 0 .. LastLine

ASSUME NVMainAssumption ==
  /\ QueueSize \in Nat \ {0} /\ PrefetchBufferSize \in Nat \ {0}
  /\ PrefetchDegree \in Nat /\ LastLine \in Nat

Line == 0 .. LastLine

\* A prefetch is marked by its tag, which stands for owner = this and isPrefetch.
Empty == [queue |-> {}, banks |-> {}, responses |-> {}, prefetchBuffer |-> <<>>,
          pendingMemoryRequests |-> <<>>]
-----------------------------------------------------------------------------
(* The controller below: a queue, and the banks that work on what left it. *)

IsIssuable(m) == Cardinality(m.queue) < QueueSize

ToController(m, req) == IF IsIssuable(m) THEN [m EXCEPT !.queue = @ \cup {req}] ELSE m

LeavesQueue(m, req) == [m EXCEPT !.queue = @ \ {req}, !.banks = @ \cup {req}]
-----------------------------------------------------------------------------
(* Prefetching.                                                            *)

\* Translated to the place of the request that triggered it.
PrefetchOf(req, i) ==
  [tag |-> "PREFETCH", type |-> "READ", id |-> req.id, line |-> req.line + i, place |-> req.place]

\* NaivePrefetcher: the lines that follow, as far as there are any.  (STeMS never
\* names one.)
DoPrefetch(req) == {i \in 1 .. PrefetchDegree : req.line + i \in Line}

\* Mutant: the queue takes what it has no room for.
GeneratePrefetchesAlways(m, req) ==
  [m EXCEPT !.queue = @ \cup {PrefetchOf(req, i) : i \in DoPrefetch(req)}]

\* One prefetch after the other, each dropped if the queue is full: the first ones
\* are issued.
GeneratePrefetches(m, req) ==
  LET room == QueueSize - Cardinality(m.queue)
  IN  [m EXCEPT !.queue = @ \cup {PrefetchOf(req, i) : i \in DoPrefetch(req) \cap 1 .. room}]

IssuePrefetch(m, req) ==
  IF req.type = "READ" THEN GeneratePrefetches(m, req) ELSE m

Prefetched(m, req) == req.line \in ToSet(m.prefetchBuffer)

\* Mutant: one too many.
IntoPrefetchBufferOneMore(m, req) ==
  LET full == Len(m.prefetchBuffer) > PrefetchBufferSize
  IN  [m EXCEPT !.prefetchBuffer = Append(IF full THEN Tail(@) ELSE @, req.line)]

IntoPrefetchBuffer(m, req) ==
  LET full == Len(m.prefetchBuffer) >= PrefetchBufferSize
  IN  [m EXCEPT !.prefetchBuffer = Append(IF full THEN Tail(@) ELSE @, req.line)]
-----------------------------------------------------------------------------
\* CheckPrefetch answers in the next cycle; otherwise the controller decides.
IssueCommand(m, req) ==
  IF Prefetched(m, req)
  THEN [m EXCEPT !.prefetchBuffer = RemoveFirst(@, req.line),
                 !.responses = @ \cup {req}]
  ELSE IF IsIssuable(m) THEN IssuePrefetch(ToController(m, req), req) ELSE m

\* The controller has nothing to do for an atomic access, but prefetches go to it.
IssueAtomicTo(m, req) == IssuePrefetch(m, req)

\* A user that is refused leaves its request with NVMain.
IssueOrWait(m, req) ==
  IF IsIssuable(m) THEN IssueCommand(m, req)
  ELSE [m EXCEPT !.pendingMemoryRequests = Append(@, req)]

\* Mutant: the request is taken from the queue and then found not to fit.
RetryPendingFirst(m) ==
  IF m.pendingMemoryRequests = <<>> THEN m
  ELSE IssueCommand([m EXCEPT !.pendingMemoryRequests = Tail(@)], Head(m.pendingMemoryRequests))

\* One request per completion.
RetryPending(m) ==
  IF m.pendingMemoryRequests = <<>> \/ ~ IsIssuable(m) THEN m
  ELSE IssueCommand([m EXCEPT !.pendingMemoryRequests = Tail(@)], Head(m.pendingMemoryRequests))

Completed(m, req) == [m EXCEPT !.banks = @ \ {req}, !.responses = @ \ {req}]
=============================================================================
