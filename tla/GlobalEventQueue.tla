-------------------------- MODULE GlobalEventQueue --------------------------
(* GlobalEventQueue (src/EventQueue.cpp): keeps the event queues of the    *)
(* memory systems, each with a clock of its own, in step with the clock of *)
(* the simulator.  The systems are reduced to what they owe the simulator: *)
(* a request enters the first system, may miss there and enter the next    *)
(* one (a DRAM cache in front of its main memory), and is complete when    *)
(* the last event made for it has run.                                     *)
EXTENDS Integers, FiniteSets, FiniteSetsExt

CONSTANTS
  Requests,       \* how many there are, numbered as they come
  Systems,        \* the systems are 1 .. Systems, the first one on top
  Period,         \* Period[q] = <<a, b>>: b cycles of q take a global cycles
  Latency,        \* the local cycles an access can take
  QueueSize,      \* the requests that the systems take
  Never           \* the cycle that no clock reaches: no event

Request == 1 .. Requests
Queue == 1 .. Systems

\* AddSystem asserts that no system is faster than the simulator.
ASSUME GlobalEventQueueAssumption ==
  /\ Requests \in Nat /\ Systems \in Nat \ {0} /\ QueueSize \in Nat \ {0} /\ Never \notin Int
  /\ \A q \in Queue : Period[q] \in (Nat \ {0}) \X (Nat \ {0}) /\ Period[q][1] >= Period[q][2]
  /\ Latency \subseteq Nat \ {0} /\ Latency # {}

VARIABLES
  currentCycle,   \* of the simulator
  localCycle,     \* the clock of each system's queue
  due,            \* the system and local cycle of a request's event
  call            \* where Cycle( steps ) is: [at, left, step, queue, goal]
queueVars == <<currentCycle, localCycle, due, call>>

NotDue == [queue |-> 0, cycle |-> Never]
Pending == {r \in Request : due[r] # NotDue}
Due(q, c) == [queue |-> q, cycle |-> c]

ToGlobal(q, c) == (c * Period[q][1]) \div Period[q][2]
ToLocal(q, c) == (c * Period[q][2]) \div Period[q][1]

Earliest(cycles) == IF cycles = {} THEN Never ELSE Min(cycles)
Until(next, cycle) == next # Never /\ next <= cycle

\* GetNextEvent, and the queues whose event that is (the code takes the first
\* in the order of their addresses).
NextEventOf(d) == Earliest({ToGlobal(d[r].queue, d[r].cycle) : r \in {p \in Request : d[p] # NotDue}})
GetNextEvent == NextEventOf(due)
NextOf(q) == Earliest({due[r].cycle : r \in {p \in Request : due[p].queue = q}})
NextEventQueues == {q \in Queue : NextOf(q) # Never /\ ToGlobal(q, NextOf(q)) = GetNextEvent}

Idle == [at |-> "none", left |-> 0, step |-> 0, queue |-> 1, goal |-> 0]
QueuesIdle == call = Idle

QueueInit ==
  /\ currentCycle = 0
  /\ localCycle = [q \in Queue |-> 0]
  /\ due = [r \in Request |-> NotDue]
  /\ call = Idle
-----------------------------------------------------------------------------
(* The systems.                                                            *)

HasRoom == Cardinality(Pending) < QueueSize

\* due with a new event for r: a latency after what the queue's clock shows.
Entering(r, q, latency) == [due EXCEPT ![r] = Due(q, localCycle[q] + latency)]
-----------------------------------------------------------------------------
(* Cycle( steps ).                                                         *)

Cycle(steps) ==
  /\ QueuesIdle
  /\ call' = [Idle EXCEPT !.at = "choose", !.left = steps]

\* Mutant: an event in the cycle after the last one is taken in as well.
MoreEventsOneTooFar == Until(GetNextEvent, currentCycle + call.left + 1)
MoreEvents == Until(GetNextEvent, currentCycle + call.left)
Distance == IF GetNextEvent > currentCycle THEN GetNextEvent - currentCycle ELSE 0

\* Mutant: Cycle returns without the last Sync.
NoMoreEventsUnsynced ==
  /\ call.at = "choose" /\ ~ MoreEvents
  /\ currentCycle' = currentCycle + call.left
  /\ call' = Idle
  /\ UNCHANGED <<localCycle, due>>

\* The next event is too far away: the clock moves by what is left of the steps.
NoMoreEvents ==
  /\ call.at = "choose" /\ ~ MoreEvents
  /\ currentCycle' = currentCycle + call.left
  /\ call' = [call EXCEPT !.at = "last sync", !.left = 0]
  /\ UNCHANGED <<localCycle, due>>

\* Its queue runs up to the event, before the global clock moves.
ChooseQueue ==
  /\ call.at = "choose" /\ MoreEvents
  /\ \E q \in NextEventQueues :
       call' = [call EXCEPT !.at = "loop", !.step = Distance, !.queue = q, !.goal = NextOf(q)]
  /\ UNCHANGED <<currentCycle, localCycle, due>>

\* EventQueue::Loop, up to the cycle "goal": the next event there is.
EventOf(r) ==
  /\ call.at \in {"loop", "sync loop", "last loop"}
  /\ due[r].queue = call.queue
  /\ due[r].cycle = NextOf(call.queue) /\ due[r].cycle <= call.goal
  /\ localCycle' = [localCycle EXCEPT ![call.queue] = due[r].cycle]
  /\ UNCHANGED <<currentCycle, call>>

\* The event finds that r is not in this system and hands it on to the next.
GoesOn(r) ==
  /\ EventOf(r)
  /\ due[r].queue < Systems
  /\ \E latency \in Latency : due' = Entering(r, due[r].queue + 1, latency)

\* The event completes r.
Completes(r) ==
  /\ EventOf(r)
  /\ due' = [due EXCEPT ![r] = NotDue]

\* Loop returns.  After the chosen queue's, the global clock follows.
LoopReturns ==
  /\ call.at \in {"loop", "sync loop", "last loop"}
  /\ ~ Until(NextOf(call.queue), call.goal)
  /\ localCycle' = [localCycle EXCEPT ![call.queue] = call.goal]
  /\ IF call.at = "loop"
     THEN /\ currentCycle' = currentCycle + call.step
          /\ call' = [call EXCEPT !.at = "sync", !.left = @ - call.step, !.step = 0]
     ELSE /\ call' = [call EXCEPT !.at = IF @ = "sync loop" THEN "sync" ELSE "last sync"]
          /\ UNCHANGED currentCycle
  /\ UNCHANGED due

\* Sync: the other queues catch up, one after the other.
Behind == {q \in Queue : ToLocal(q, currentCycle) > localCycle[q]}
Sync ==
  /\ call.at \in {"sync", "last sync"} /\ Behind # {}
  /\ \E q \in Behind :
       call' = [call EXCEPT !.at = IF @ = "sync" THEN "sync loop" ELSE "last loop",
                            !.queue = q, !.goal = ToLocal(q, currentCycle)]
  /\ UNCHANGED <<currentCycle, localCycle, due>>

SyncEnds ==
  /\ call.at \in {"sync", "last sync"} /\ Behind = {}
  /\ call' = IF call.at = "sync" THEN [call EXCEPT !.at = "choose"] ELSE Idle
  /\ UNCHANGED <<currentCycle, localCycle, due>>

\* The steps in which no request completes, but for the return of Cycle.
QueueStep ==
  NoMoreEvents \/ ChooseQueue \/ LoopReturns \/ Sync
  \/ (call.at = "sync" /\ SyncEnds) \/ \E r \in Request : GoesOn(r)

CycleReturns == call.at = "last sync" /\ SyncEnds
-----------------------------------------------------------------------------
DueEvent == [queue : Queue, cycle : Nat] \cup {NotDue}
CallState ==
  [at : {"none", "choose", "loop", "sync", "sync loop", "last sync", "last loop"},
   left : Nat, step : Nat, queue : Queue, goal : Nat]

QueueTypeOK ==
  /\ currentCycle \in Nat
  /\ localCycle \in [Queue -> Nat]
  /\ due \in [Request -> DueEvent]
  /\ call \in CallState

\* Outside Cycle no queue is behind the global clock, none is ahead of it by a
\* whole cycle of its own, and no event waits in the past, which gem5's tick
\* asserts (nvmain_mem.cc:927).
QueuesAreInStep ==
  QueuesIdle =>
    /\ GetNextEvent # Never => GetNextEvent >= currentCycle
    /\ \A q \in Queue :
         /\ localCycle[q] >= ToLocal(q, currentCycle)
         /\ (localCycle[q] - 1) * Period[q][1] < currentCycle * Period[q][2]
=============================================================================
