---------------------------- MODULE NVMainMemory ----------------------------
(* Simulators/gem5/nvmain_mem: gem5's memory object around NVMain.  Its    *)
(* instances (channels to gem5) share the NVMain of the first one, the     *)
(* master.  gem5 runs events at ticks: clockEvent lets NVMain catch up,    *)
(* respondEvent sends a response.  A packet that NVMain has no room for is *)
(* refused, and its sender waits for the retry it was promised.            *)
(*                                                                         *)
(* gem5 is external: senders resend a packet some time after the retry, in *)
(* the call that sends it or later, and may refuse a response for a while. *)
(* A tick is the clock period of the memory.                               *)
EXTENDS GlobalEventQueue, Sequences

CONSTANTS
  Instance, Master,
  Packets,        \* the assignments of a kind to each packet to be checked
  LastArrival,    \* no packet comes to an idle memory, and no dump, after it
  MaxDumps        \* the statistics dumps that are explored

\* WRITEBACK wants no response; OTHER is neither read nor write; SNOOPED is
\* answered by a cache.
Kinds == {"READ", "WRITE", "WRITEBACK", "OTHER", "SNOOPED"}

ASSUME NVMainMemoryAssumption ==
  /\ Master \in Instance /\ LastArrival \in Nat /\ MaxDumps \in Nat
  /\ \A kinds \in Packets : kinds \in [Request -> Kinds]

VARIABLES
  curTick, lastWakeup,
  clockEvent,      \* the tick it is scheduled for, or Never
  nextEventCycle,  \* per instance
  waker,           \* who runs Cycle: the clock event or a statistics dump
  packets,         \* the kind, the state and the instance of each packet
  requestMap,      \* m_request_map: request -> has it its packet?
  retry,           \* the instances with retryRead or retryWrite
  retryResp,       \* those whose response was refused
  responseQueue, respondEvent,
  dumps
clockVars == <<curTick, lastWakeup, dumps>>
wakeVars == <<clockEvent, nextEventCycle, waker>>
responseVars == <<responseQueue, respondEvent, retryResp>>
memoryVars == <<clockVars, wakeVars, responseVars, packets, requestMap, retry>>

PacketStates == {"new", "waiting", "retried", "issued", "responding", "answered", "pendingDelete", "deleted"}

MemoryInit ==
  /\ curTick = 0 /\ lastWakeup = 0 /\ dumps = 0
  /\ clockEvent = 1                                  \* startup
  /\ nextEventCycle = [i \in Instance |-> 0]
  /\ waker = "tick"
  /\ \E kinds \in Packets :
       packets = [p \in Request |-> [kind |-> kinds[p], state |-> "new", instance |-> Master]]
  /\ requestMap = [p \in {} |-> TRUE]
  /\ retry = {} /\ retryResp = {}
  /\ responseQueue = [i \in Instance |-> <<>>]
  /\ respondEvent = [i \in Instance |-> Never]

In(state) == {p \in Request : packets[p].state = state}
-----------------------------------------------------------------------------
(* Parts of the handlers, as functions of the packets ps.                  *)

\* recvTimingReq first frees what the instance has kept for deletion.
Freed(ps, i) ==
  [p \in Request |-> IF ps[p].instance = i /\ ps[p].state = "pendingDelete"
                     THEN [ps[p] EXCEPT !.state = "deleted"] ELSE ps[p]]
Becomes(ps, p, i, state) == [ps EXCEPT ![p] = [@ EXCEPT !.state = state, !.instance = i]]

\* The senders that wait at one of the instances get their retry.
Retried(ps, instances) ==
  [p \in Request |-> IF ps[p].instance \in instances /\ ps[p].state = "waiting"
                     THEN [ps[p] EXCEPT !.state = "retried"] ELSE ps[p]]

ScheduleResponse(i) ==
  respondEvent' = [respondEvent EXCEPT ![i] = IF @ = Never THEN curTick + 1 ELSE @]
Respond(p, i) ==
  /\ responseQueue' = [responseQueue EXCEPT ![i] = Append(@, p)]
  /\ ScheduleResponse(i)
  /\ UNCHANGED retryResp

\* The wake-up for an event at cycle next; at once is the next tick.
WakeUpFor(next) == curTick + (IF next > currentCycle THEN next - currentCycle ELSE 1)

\* After an issue: is the next event before the one this INSTANCE knows of?
RescheduleClockEvent(i, next) ==
  IF clockEvent = Never \/ next < nextEventCycle[i]
  THEN /\ clockEvent' = WakeUpFor(next)
       /\ nextEventCycle' = [nextEventCycle EXCEPT ![i] = next]
  ELSE UNCHANGED <<clockEvent, nextEventCycle>>

Entry(p, packet) == [q \in DOMAIN requestMap \cup {p} |-> IF q = p THEN packet ELSE requestMap[q]]
-----------------------------------------------------------------------------
(* recvTimingReq.                                                          *)

\* Outside of events a packet may come at any time; while Cycle runs only from
\* a sender that was just sent a retry.
Arrives(p, i) ==
  \/ QueuesIdle /\ packets[p].state = "new" /\ \A q \in 1 .. p - 1 : packets[q].state # "new"
  \/ packets[p].state = "retried" /\ packets[p].instance = i

\* What is no access of the memory is responded to, or forgotten.
ReceiveOther(p, i) ==
  /\ Arrives(p, i) /\ packets[p].kind \in {"OTHER", "SNOOPED"}
  /\ IF packets[p].kind = "OTHER"
     THEN Respond(p, i) /\ packets' = Becomes(Freed(packets, i), p, i, "responding")
     ELSE packets' = Becomes(Freed(packets, i), p, i, "pendingDelete") /\ UNCHANGED responseVars
  /\ UNCHANGED <<clockVars, wakeVars, requestMap, retry, queueVars>>

IsAccess(p) == packets[p].kind \in {"READ", "WRITE", "WRITEBACK"}

\* Mutant: the sender of a writeback is refused without a promise.
RefusePromisesSome(p, i) ==
  /\ Arrives(p, i) /\ IsAccess(p)
  /\ i \in retry \/ ~ HasRoom
  /\ retry' = IF packets[p].kind = "WRITEBACK" THEN retry ELSE retry \cup {i}
  /\ packets' = Becomes(Freed(packets, i), p, i, "waiting")
  /\ UNCHANGED <<clockVars, wakeVars, responseVars, requestMap, queueVars>>

\* Refused, also while the instance owes somebody a retry.
Refuse(p, i) ==
  /\ Arrives(p, i) /\ IsAccess(p)
  /\ i \in retry \/ ~ HasRoom
  /\ retry' = retry \cup {i}
  /\ packets' = Becomes(Freed(packets, i), p, i, "waiting")
  /\ UNCHANGED <<clockVars, wakeVars, responseVars, requestMap, queueVars>>

Issues(p, i) ==
  /\ Arrives(p, i) /\ IsAccess(p)
  /\ i \notin retry /\ HasRoom
  /\ \E latency \in Latency : due' = Entering(p, 1, latency)
  /\ RescheduleClockEvent(i, NextEventOf(due'))
  /\ UNCHANGED <<clockVars, waker, currentCycle, localCycle, call>>

AcceptRead(p, i) ==
  /\ packets[p].kind = "READ" /\ Issues(p, i)
  /\ requestMap' = Entry(p, TRUE)
  /\ packets' = Becomes(Freed(packets, i), p, i, "issued")
  /\ UNCHANGED <<responseVars, retry>>

\* Mutant: the request in the memory keeps the packet.
AcceptWriteKeepsPacket(p, i) ==
  /\ packets[p].kind \in {"WRITE", "WRITEBACK"} /\ Issues(p, i)
  /\ requestMap' = Entry(p, TRUE)
  /\ retry' = {}
  /\ LET retried == Retried(Freed(packets, i), retry)
     IN  IF packets[p].kind = "WRITE"
         THEN Respond(p, i) /\ packets' = Becomes(retried, p, i, "responding")
         ELSE packets' = Becomes(retried, p, i, "pendingDelete") /\ UNCHANGED responseVars

\* The request that the memory has is parted from its packet, which is complete
\* at once, in a copy of the request that enters the map and leaves it again.
AcceptWrite(p, i) ==
  /\ packets[p].kind \in {"WRITE", "WRITEBACK"} /\ Issues(p, i)
  /\ requestMap' = Entry(p, FALSE)
  /\ retry' = {}
  /\ LET retried == Retried(Freed(packets, i), retry)
     IN  IF packets[p].kind = "WRITE"
         THEN Respond(p, i) /\ packets' = Becomes(retried, p, i, "responding")
         ELSE packets' = Becomes(retried, p, i, "pendingDelete") /\ UNCHANGED responseVars

recvTimingReq(p, i) == ReceiveOther(p, i) \/ Refuse(p, i) \/ AcceptRead(p, i) \/ AcceptWrite(p, i)
-----------------------------------------------------------------------------
(* RequestComplete, from NVMain.                                           *)

RequestCompletes(p) ==
  /\ Completes(p)
  /\ retry' = {}
  /\ LET retried == Retried(packets, retry)
         i == packets[p].instance
     IN  IF requestMap[p]
         THEN Respond(p, i) /\ packets' = Becomes(retried, p, i, "responding")
         ELSE packets' = retried /\ UNCHANGED responseVars
  /\ requestMap' = [q \in DOMAIN requestMap \ {p} |-> requestMap[q]]
  /\ UNCHANGED <<clockVars, wakeVars>>
-----------------------------------------------------------------------------
(* Responses.                                                              *)

\* Mutant: the responses behind the one that is taken get no event.
TakenForgets(i) ==
  /\ packets' = [packets EXCEPT ![Head(responseQueue[i])].state = "answered"]
  /\ responseQueue' = [responseQueue EXCEPT ![i] = Tail(@)]
  /\ respondEvent' = [respondEvent EXCEPT ![i] = IF @ = curTick THEN Never ELSE @]
  /\ retryResp' = retryResp \ {i}

\* sendTimingResp takes the first response; the next one gets an event.
Taken(i) ==
  /\ packets' = [packets EXCEPT ![Head(responseQueue[i])].state = "answered"]
  /\ responseQueue' = [responseQueue EXCEPT ![i] = Tail(@)]
  /\ respondEvent' =
       [respondEvent EXCEPT ![i] = IF @ \in {curTick, Never}
                                   THEN IF Len(responseQueue[i]) > 1 THEN curTick + 1 ELSE Never
                                   ELSE @]
  /\ retryResp' = retryResp \ {i}

\* It is refused: recvRetry will come.
NotTaken(i) ==
  /\ respondEvent' = [respondEvent EXCEPT ![i] = IF @ = curTick THEN Never ELSE @]
  /\ retryResp' = retryResp \cup {i}
  /\ UNCHANGED <<packets, responseQueue>>

SendResponses(i) ==
  /\ QueuesIdle /\ respondEvent[i] = curTick
  /\ IF responseQueue[i] = <<>> \/ i \in retryResp
     THEN respondEvent' = [respondEvent EXCEPT ![i] = Never]
            /\ UNCHANGED <<packets, responseQueue, retryResp>>
     ELSE Taken(i) \/ NotTaken(i)
  /\ UNCHANGED <<clockVars, wakeVars, requestMap, retry, queueVars>>

\* The peer asks for the response again, and may refuse it again.
recvRetry(i) ==
  /\ QueuesIdle /\ i \in retryResp /\ respondEvent[i] # curTick
  /\ Taken(i) \/ NotTaken(i)
  /\ UNCHANGED <<clockVars, wakeVars, requestMap, retry, queueVars>>
-----------------------------------------------------------------------------
(* Time.                                                                   *)

Tick ==
  /\ clockEvent = curTick
  /\ Cycle(curTick - lastWakeup)
  /\ clockEvent' = Never /\ waker' = "tick"
  /\ UNCHANGED <<clockVars, nextEventCycle, responseVars, packets, requestMap, retry,
                 currentCycle, localCycle, due>>

\* A dump of the statistics lets NVMain catch up too, but does not note it in
\* lastWakeup: the next tick steps through the same cycles again.
Dump ==
  /\ dumps < MaxDumps /\ curTick <= LastArrival
  /\ dumps' = dumps + 1
  /\ Cycle(curTick - lastWakeup)
  /\ waker' = "dump"
  /\ UNCHANGED <<curTick, lastWakeup, clockEvent, nextEventCycle, responseVars, packets,
                 requestMap, retry, currentCycle, localCycle, due>>

\* The end of tick: the clock event is scheduled for the next event, if any.
TickEnds ==
  /\ CycleReturns /\ waker = "tick"
  /\ lastWakeup' = curTick
  /\ IF GetNextEvent = Never THEN UNCHANGED <<clockEvent, nextEventCycle>>
     ELSE /\ clockEvent' = curTick + (GetNextEvent - currentCycle)
          /\ nextEventCycle' = [nextEventCycle EXCEPT ![Master] = GetNextEvent]
  /\ UNCHANGED <<curTick, dumps, waker, responseVars, packets, requestMap, retry>>

DumpEnds ==
  /\ CycleReturns /\ waker = "dump"
  /\ UNCHANGED memoryVars

Later(event) == event # Never => event > curTick

\* gem5 runs all the events of a tick before it goes on to the next.
NextTick ==
  /\ QueuesIdle
  /\ Later(clockEvent) /\ \A i \in Instance : Later(respondEvent[i])
  /\ curTick < LastArrival \/ clockEvent # Never \/ \E i \in Instance : respondEvent[i] # Never
  /\ curTick' = curTick + 1
  /\ UNCHANGED <<lastWakeup, dumps, wakeVars, responseVars, packets, requestMap, retry, queueVars>>

gem5Step ==
  \/ Tick \/ TickEnds \/ DumpEnds
  \/ (QueueStep /\ UNCHANGED memoryVars)
  \/ \E p \in Request : RequestCompletes(p)
  \/ \E i \in Instance : SendResponses(i)

MemoryStep ==
  \/ gem5Step \/ Dump \/ NextTick
  \/ \E i \in Instance : recvRetry(i) \/ \E p \in Request : recvTimingReq(p, i)
-----------------------------------------------------------------------------
MemoryTypeOK ==
  /\ curTick \in Nat /\ lastWakeup \in 0 .. curTick /\ dumps \in 0 .. MaxDumps
  /\ clockEvent \in Nat \cup {Never} /\ nextEventCycle \in [Instance -> Nat] /\ waker \in {"tick", "dump"}
  /\ packets \in [Request -> [kind : Kinds, state : PacketStates, instance : Instance]]
  /\ DOMAIN requestMap \subseteq Request
  /\ retry \subseteq Instance /\ retryResp \subseteq Instance
  /\ responseQueue \in [Instance -> Seq(Request)]
  /\ respondEvent \in [Instance -> Nat \cup {Never}]
=============================================================================
