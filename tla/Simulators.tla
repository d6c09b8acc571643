----------------------------- MODULE Simulators -----------------------------
(* The two programs that drive NVMain, one behind the other's back: a run  *)
(* is a run of the trace simulator or of gem5.                             *)
EXTENDS TraceMain, NVMainMemory

VARIABLE simulator
vars == <<simulator, queueVars, traceVars, memoryVars>>

Init ==
  /\ simulator \in {"trace", "gem5"}
  /\ QueueInit /\ TraceInit /\ MemoryInit
  /\ simulator = "gem5" => simulateCycles = 0         \* not in use

TraceRuns == simulator = "trace" /\ TraceStep /\ UNCHANGED <<simulator, memoryVars>>
Gem5Runs == simulator = "gem5" /\ MemoryStep /\ UNCHANGED <<simulator, traceVars>>

Next == TraceRuns \/ Gem5Runs

InGem5(step) == simulator = "gem5" /\ step /\ UNCHANGED <<simulator, traceVars>>

\* The trace simulator is a loop.  gem5 runs its events and goes on to the tick
\* of an event that is scheduled, senders resend what was retried, and a peer
\* that is offered a response again and again takes it.
Fairness ==
  /\ WF_vars(TraceRuns \/ InGem5(gem5Step \/ NextTick))
  /\ \A p \in Request : WF_vars(InGem5(packets[p].state = "retried" /\ \E i \in Instance : recvTimingReq(p, i)))
  /\ \A i \in Instance : SF_vars(InGem5(recvRetry(i) /\ Taken(i)))

Spec == Init /\ [][Next]_vars /\ Fairness
-----------------------------------------------------------------------------
TypeOK == QueueTypeOK /\ TraceTypeOK /\ MemoryTypeOK

\* The queues are in step, and the simulator agrees with them on the time and on
\* the requests in flight, but for one that was refused at the simulation's end.
TraceAgreesWithMemory ==
  /\ QueuesAreInStep
  /\ simulator = "trace" /\ at \notin {"waited", "stalled"} /\ QueuesIdle =>
       /\ traceCycle = currentCycle
       /\ \/ outstandingRequests = Cardinality(Pending)
          \/ at = "done" /\ Limited /\ outstandingRequests = Cardinality(Pending) + 1

\* Whoever is owed something will be called: a refused packet's instance owes a
\* retry and a request that is still in the memory will bring it; a response in
\* a queue has an event or waits for the peer; NVMain's events have the clock
\* event, whichever instance issued the request.
WaitersAreWoken ==
  simulator = "gem5" =>
  /\ \A p \in In("waiting") : packets[p].instance \in retry
  /\ retry # {} => Pending # {}
  /\ \A i \in Instance : responseQueue[i] # <<>> => respondEvent[i] # Never \/ i \in retryResp
  /\ QueuesIdle /\ Pending # {} => clockEvent # Never

\* Every request in the memory is in the map when it completes (asserted there),
\* and the map points to no packet that was answered or deleted before.
PacketsOutliveTheirRequests ==
  simulator = "gem5" =>
  /\ Pending = DOMAIN requestMap
  /\ \A p \in DOMAIN requestMap : requestMap[p] <=> packets[p].state = "issued"
  /\ \A i \in Instance : \A k \in DOMAIN responseQueue[i] :
       LET p == responseQueue[i][k] IN packets[p].state = "responding" /\ packets[p].instance = i

\* In the end nothing is left to do: the trace simulator is done, and when it was
\* for want of accesses all of them have been served; each packet that came to
\* gem5's memory is answered, or is one that nobody waits for.
WorkEnds ==
  <>[] /\ simulator = "trace" => at = "done" /\ (~ Limited => line = Len(Trace) /\ Pending = {})
       /\ \A p \in Request : packets[p].state \in {"new", "answered", "pendingDelete", "deleted"}
=============================================================================
