------------------------------ MODULE TraceMain ------------------------------
(* traceSim/traceMain: reads a trace, waits for the cycle of each access   *)
(* and for room in the memory system, and drains the memory in the end.    *)
(* Its control flow is one loop; "at" is where it is in it, and each step  *)
(* ends at the next call of GlobalEventQueue::Cycle.                       *)
EXTENDS GlobalEventQueue, Sequences

CONSTANTS
  Trace,            \* the cycles of the accesses, the requests in their order
  SimulateCycles    \* the limits to be checked, 0 for none

ASSUME TraceMainAssumption == Trace \in Seq(Nat) /\ Len(Trace) <= Requests /\ SimulateCycles \subseteq Nat

VARIABLES
  at,
  simulateCycles,
  traceCycle,          \* its own currentCycle
  line,                \* the accesses that were read
  outstandingRequests
traceVars == <<at, simulateCycles, traceCycle, line, outstandingRequests>>

TraceInit ==
  /\ at = "read"
  /\ simulateCycles \in SimulateCycles
  /\ traceCycle = 0 /\ line = 0 /\ outstandingRequests = 0

Limited == simulateCycles # 0
Goes(place) == at' = place
\* The time is up, or the loop goes on at place.
GoesUnlessOver(cycle, place) ==
  Goes(IF Limited /\ cycle >= simulateCycles THEN "done" ELSE place)
-----------------------------------------------------------------------------
MoreTime == Limited => traceCycle <= simulateCycles

GetNextAccess ==
  /\ at = "read" /\ QueuesIdle /\ MoreTime /\ line < Len(Trace)
  /\ line' = line + 1
  /\ Goes("wait")
  /\ UNCHANGED <<simulateCycles, traceCycle, outstandingRequests, queueVars>>

EndOfTrace ==
  /\ at = "read" /\ QueuesIdle
  /\ MoreTime => line = Len(Trace)
  /\ Goes(IF MoreTime THEN "drain" ELSE "done")
  /\ UNCHANGED <<simulateCycles, traceCycle, line, outstandingRequests, queueVars>>

\* The access is beyond the end of the simulation.
SimulateTheRest ==
  /\ at = "wait" /\ QueuesIdle
  /\ Limited /\ Trace[line] > simulateCycles
  /\ Cycle(simulateCycles - traceCycle)
  /\ traceCycle' = simulateCycles
  /\ Goes("done")
  /\ UNCHANGED <<simulateCycles, line, outstandingRequests, currentCycle, localCycle, due>>

WaitForItsCycle ==
  /\ at = "wait" /\ QueuesIdle
  /\ Limited => Trace[line] <= simulateCycles
  /\ IF Trace[line] > traceCycle
     THEN Cycle(Trace[line] - traceCycle) /\ Goes("waited")
     ELSE Goes("issue") /\ UNCHANGED call
  /\ UNCHANGED <<simulateCycles, traceCycle, line, outstandingRequests, currentCycle, localCycle, due>>

Waited ==
  /\ at = "waited" /\ QueuesIdle
  /\ traceCycle' = currentCycle
  /\ GoesUnlessOver(currentCycle, "issue")
  /\ UNCHANGED <<simulateCycles, line, outstandingRequests, queueVars>>

\* The trace reader stalls until the memory controller has room.
Stall ==
  /\ at = "issue" /\ QueuesIdle /\ ~ HasRoom
  /\ Limited => traceCycle < simulateCycles
  /\ Cycle(1)
  /\ Goes("stalled")
  /\ UNCHANGED <<simulateCycles, traceCycle, line, outstandingRequests, currentCycle, localCycle, due>>

Stalled ==
  /\ at = "stalled" /\ QueuesIdle
  /\ traceCycle' = currentCycle
  /\ Goes("issue")
  /\ UNCHANGED <<simulateCycles, line, outstandingRequests, queueVars>>

\* Mutant: a request is counted only when the memory has taken it.
IssueUncounted ==
  /\ at = "issue" /\ QueuesIdle /\ HasRoom
  /\ \E latency \in Latency : due' = Entering(line, 1, latency)
  /\ GoesUnlessOver(traceCycle, "read")
  /\ UNCHANGED <<simulateCycles, traceCycle, line, outstandingRequests, currentCycle, localCycle, call>>

\* A request is issued, and counted, also when the wait for room was given up.
Issue ==
  /\ at = "issue" /\ QueuesIdle
  /\ HasRoom \/ (Limited /\ traceCycle >= simulateCycles)
  /\ outstandingRequests' = outstandingRequests + 1
  /\ IF HasRoom THEN \E latency \in Latency : due' = Entering(line, 1, latency)
     ELSE UNCHANGED due
  /\ GoesUnlessOver(traceCycle, "read")
  /\ UNCHANGED <<simulateCycles, traceCycle, line, currentCycle, localCycle, call>>

DrainOrEnd ==
  /\ at = "drain" /\ QueuesIdle
  /\ IF outstandingRequests > 0
     THEN Cycle(1) /\ traceCycle' = traceCycle + 1 /\ UNCHANGED at
     ELSE Goes("done") /\ UNCHANGED <<call, traceCycle>>
  /\ UNCHANGED <<simulateCycles, line, outstandingRequests, currentCycle, localCycle, due>>

\* RequestComplete.
RequestComplete(r) ==
  /\ Completes(r)
  /\ outstandingRequests' = outstandingRequests - 1
  /\ UNCHANGED <<at, simulateCycles, traceCycle, line>>

TraceStep ==
  GetNextAccess \/ EndOfTrace \/ SimulateTheRest \/ WaitForItsCycle \/ Waited
  \/ Stall \/ Stalled \/ Issue \/ DrainOrEnd
  \/ ((QueueStep \/ CycleReturns) /\ UNCHANGED traceVars)
  \/ \E r \in Request : RequestComplete(r)
-----------------------------------------------------------------------------
TraceTypeOK ==
  /\ at \in {"read", "wait", "waited", "issue", "stalled", "drain", "done"}
  /\ simulateCycles \in SimulateCycles
  /\ traceCycle \in Nat /\ line \in 0 .. Len(Trace) /\ outstandingRequests \in Nat
=============================================================================
