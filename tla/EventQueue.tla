----------------------------- MODULE EventQueue -----------------------------
(***************************************************************************)
(* The event queue that drives a memory system (src/EventQueue.cpp).       *)
(*                                                                         *)
(* eventMap maps a cycle to the list of the events due at it.  A list      *)
(* holds POINTERS: Process deletes every event it has run but erases the   *)
(* list only at its end, so a handler that inserts into the list being     *)
(* processed walks over pointers to freed memory, which `new' may already  *)
(* have handed out again.  The heap is therefore part of the model: object *)
(* is the memory of each Event, and a free object keeps its last contents  *)
(* (the allocator's free list overwrites its type, not its priority).      *)
(*                                                                         *)
(* The users of the queue (controllers, banks, subarrays, the simulator    *)
(* front end) are an environment that, from outside the queue or from a    *)
(* running handler, inserts, removes and looks for events the way the      *)
(* calls in the source do.                                                 *)
(***************************************************************************)
EXTENDS Integers, Sequences, SequencesExt

CONSTANTS Event,       \* Event objects the heap can hold
          Kind,        \* the kinds of event in use
          Never,       \* numeric_limits<ncycle_t>::max( )
          Horizon,     \* the last cycle explored
          MaxSteps,    \* the largest argument of Loop
          EnqueueFrom  \* kinds of handler that may call MemoryController::Enqueue

AllKinds == {"response", "cycle", "command", "refresh", "cleanup"}

ASSUME EventQueueAssumption ==
  /\ Kind \subseteq AllKinds /\ "response" \in Kind
  /\ Never \in Nat /\ Horizon \in Nat /\ MaxSteps \in Nat
  /\ Horizon < Never
  /\ EnqueueFrom \subseteq Kind

Cycle == 0 .. Never

\* The priority argument of the insertion, which decides the place in the list.
ListPriority == [response |-> 0, cycle |-> 30, command |-> 40, refresh |-> 20,
                 cleanup |-> -10]

\* Event::priority.  Only InsertCallback sets it; an event inserted by type
\* keeps the constructor's 0 wherever it stands.
StoredPriority == [ListPriority EXCEPT !["cycle"] = 0]

VARIABLES
  eventMap,       \* cycle -> list of pointers, for the cycles that have one
  nextEventCycle,
  lastEventCycle,
  currentCycle,
  object,         \* object[e]: the memory of event e
  phase,          \* where Loop and Process are
  stepCycles,     \* Loop's local variable
  it              \* Process's iterator as an index, 0 outside Process

vars == <<eventMap, nextEventCycle, lastEventCycle, currentCycle, object,
          phase, stepCycles, it>>
clockVars == <<lastEventCycle, currentCycle>>
loopVars == <<phase, stepCycles>>

Phase == {"outside", "loop", "fetch", "handler"}
Object == [state : {"free", "pending", "running"}, kind : Kind, cycle : Cycle]

\* delete: the memory keeps what InsertEvent can still read through a pointer.
Freed(o) == [state |-> "free", kind |-> o.kind, cycle |-> 0]

Keys == DOMAIN eventMap
Free == {e \in Event : object[e].state = "free"}
Pending == {e \in Event : object[e].state = "pending"}

EventList(c) == IF c \in Keys THEN eventMap[c] ELSE <<>>

\* c is eventMap.begin( )->first, or the maximum when the map m is empty.
IsFirstKey(m, c) ==
  \/ DOMAIN m = {} /\ c = Never
  \/ c \in DOMAIN m /\ \A d \in DOMAIN m : c <= d
-----------------------------------------------------------------------------
(* The operations of the queue's users.                                    *)

\* p is the first cell whose event has a larger priority, read through the
\* pointer in the heap mem, or the end of the list when there is none.
IsInsertionPoint(list, priority, mem, p) ==
  /\ p <= Len(list) => StoredPriority[mem[list[p]].kind] > priority
  /\ \A q \in 1 .. p - 1 : StoredPriority[mem[list[q]].kind] <= priority

\* Writing and erasing an entry of eventMap.  Where a list changes under the
\* iterator of Process, the iterator stays at its cell.
SetList(c, list) ==
  eventMap' = [d \in Keys \cup {c} |-> IF d = c THEN list ELSE eventMap[d]]
EraseList(c) == eventMap' = [d \in Keys \ {c} |-> eventMap[d]]

\* Mutant: an insertion before the next event does not lower nextEventCycle.
InsertEventKeepsNext(e, kind, when) ==
  /\ object[e].state = "free"
  /\ object' = [object EXCEPT ![e] = [state |-> "pending", kind |-> kind, cycle |-> when]]
  /\ SetList(when, Append(EventList(when), e))
  /\ nextEventCycle' = IF Keys = {} THEN when ELSE nextEventCycle
  /\ UNCHANGED <<clockVars, loopVars, it>>

InsertEvent(e, kind, when) ==
  /\ object[e].state = "free"
  /\ object' = [object EXCEPT ![e] = [state |-> "pending", kind |-> kind, cycle |-> when]]
  /\ \E p \in 1 .. Len(EventList(when)) + 1 :
       /\ IsInsertionPoint(EventList(when), ListPriority[kind], object', p)
       /\ SetList(when, InsertAt(EventList(when), p, e))
       /\ it' = IF it > 0 /\ when = nextEventCycle /\ p <= it THEN it + 1 ELSE it
  /\ nextEventCycle' = IF when < nextEventCycle THEN when ELSE nextEventCycle
  /\ UNCHANGED <<clockVars, loopVars>>

\* FindEvent for a typed event: freed memory does not match, reused memory does.
FindEvent(kind, when) ==
  \E p \in 1 .. Len(EventList(when)) :
    LET o == object[EventList(when)[p]] IN o.state # "free" /\ o.kind = kind

\* Mutant: the whole list is erased with the event.
RemoveEventErasesList(e) ==
  /\ object[e].state = "pending"
  /\ EraseList(object[e].cycle)
  /\ nextEventCycle' \in Cycle /\ IsFirstKey(eventMap', nextEventCycle')
  /\ object' = [object EXCEPT ![e] = Freed(@)]
  /\ UNCHANGED <<clockVars, loopVars, it>>

\* RemoveEvent(event, when) and the delete that follows it in its only caller,
\* SubArray::CheckWritePausing, which cancels a response it scheduled itself.
RemoveEvent(e) ==
  LET when == object[e].cycle
      list == EventList(when)
  IN  /\ object[e].state = "pending"
      /\ \E p \in 1 .. Len(list) :
           /\ list[p] = e /\ \A q \in 1 .. p - 1 : list[q] # e
           /\ IF Len(list) > 1 THEN SetList(when, RemoveAt(list, p)) ELSE EraseList(when)
           /\ it' = IF it > 0 /\ when = nextEventCycle /\ p < it THEN it - 1 ELSE it
      /\ nextEventCycle' \in Cycle /\ IsFirstKey(eventMap', nextEventCycle')
      /\ object' = [object EXCEPT ![e] = Freed(@)]
      /\ UNCHANGED <<clockVars, loopVars>>

UserMayRun == phase \in {"outside", "handler"}
Running == EventList(nextEventCycle)[it]

\* What the code reached from each kind of handler, or from the front end, puts
\* into the queue for a later cycle.
Schedules == [outside  |-> {"response", "refresh"},
              response |-> {"response"},
              cycle    |-> {"response", "cycle", "command", "cleanup"},
              command  |-> {"response", "cycle", "command", "cleanup"},
              refresh  |-> {"command", "refresh"},
              cleanup  |-> {}]

User == IF phase = "outside" THEN "outside" ELSE object[Running].kind

\* A timer, a response or a wake-up for a later cycle (every insertion but the
\* one of Enqueue adds a latency to the current cycle).  NextIssuable( ) may
\* also answer the maximum, and ScheduleCommandWake inserts that.
ScheduleLater(e, kind, when) ==
  /\ UserMayRun
  /\ kind \in Schedules[User]
  /\ when > currentCycle
  /\ when <= Horizon \/ (when = Never /\ kind = "command")
  /\ InsertEvent(e, kind, when)

\* MemoryController::Enqueue wakes the controller in the current cycle, unless
\* it finds that wake-up in the queue.
EnqueueWakeup(e) ==
  /\ "cycle" \in Kind
  /\ UserMayRun
  /\ User \in EnqueueFrom \cup {"outside"}
  /\ ~ FindEvent("cycle", currentCycle)
  /\ InsertEvent(e, "cycle", currentCycle)

\* Mutant: the event is deleted but its pointer stays in the list.
CancelResponseDangling(e) ==
  /\ UserMayRun
  /\ object[e].kind = "response" /\ object[e].state = "pending"
  /\ object' = [object EXCEPT ![e] = Freed(@)]
  /\ UNCHANGED <<eventMap, nextEventCycle, clockVars, loopVars, it>>

CancelResponse(e) ==
  /\ UserMayRun
  /\ object[e].kind = "response"
  /\ RemoveEvent(e)
-----------------------------------------------------------------------------
(* Loop and Process.                                                       *)

BeginProcess == phase' = "fetch" /\ it' = 1

Loop(steps) ==
  /\ phase = "outside"
  /\ currentCycle + steps <= Horizon
  /\ stepCycles' = steps
  /\ IF steps = 0 /\ nextEventCycle = currentCycle
     THEN BeginProcess
     ELSE phase' = "loop" /\ UNCHANGED it
  /\ UNCHANGED <<eventMap, nextEventCycle, clockVars, object>>

LoopReturn ==
  /\ phase = "loop"
  /\ stepCycles = 0
  /\ phase' = "outside"
  /\ UNCHANGED <<eventMap, nextEventCycle, clockVars, object, stepCycles, it>>

\* Mutant: the clock is moved without looking for an event on the way.
LoopSkipBlindly ==
  /\ phase = "loop" /\ stepCycles > 0
  /\ currentCycle' = currentCycle + stepCycles
  /\ stepCycles' = 0
  /\ phase' = "outside"
  /\ UNCHANGED <<eventMap, nextEventCycle, lastEventCycle, object, it>>

LoopSkip ==
  /\ phase = "loop"
  /\ stepCycles > 0
  /\ nextEventCycle > currentCycle + stepCycles
  /\ currentCycle' = currentCycle + stepCycles
  /\ stepCycles' = 0
  /\ phase' = "outside"
  /\ UNCHANGED <<eventMap, nextEventCycle, lastEventCycle, object, it>>

\* Mutants: the remaining steps are not compared with the distance to the event,
\* the clock is moved by all the remaining steps.
LoopToEventTooFar ==
  /\ phase = "loop" /\ stepCycles > 0 /\ Keys # {}
  /\ currentCycle' = nextEventCycle
  /\ stepCycles' = stepCycles - (nextEventCycle - currentCycle)
  /\ BeginProcess
  /\ UNCHANGED <<eventMap, nextEventCycle, lastEventCycle, object>>
LoopToEventOvershoots ==
  /\ phase = "loop" /\ stepCycles > 0 /\ nextEventCycle <= currentCycle + stepCycles
  /\ currentCycle' = currentCycle + stepCycles
  /\ stepCycles' = 0
  /\ BeginProcess
  /\ UNCHANGED <<eventMap, nextEventCycle, lastEventCycle, object>>

LoopToEvent ==
  LET currentSteps == nextEventCycle - currentCycle
  IN  /\ phase = "loop"
      /\ stepCycles > 0
      /\ nextEventCycle <= currentCycle + stepCycles
      /\ currentCycle' = currentCycle + currentSteps
      /\ stepCycles' = stepCycles - currentSteps
      /\ BeginProcess
      /\ UNCHANGED <<eventMap, nextEventCycle, lastEventCycle, object>>

StartHandler ==
  /\ phase = "fetch"
  /\ it <= Len(EventList(nextEventCycle))
  /\ object' = [object EXCEPT ![Running].state = "running"]
  /\ phase' = "handler"
  /\ UNCHANGED <<eventMap, nextEventCycle, clockVars, stepCycles, it>>

\* Mutant: the iterator moves past the next event too.
EndHandlerSkips ==
  /\ phase = "handler"
  /\ object' = [object EXCEPT ![Running] = Freed(@)]
  /\ it' = it + 2
  /\ phase' = "fetch"
  /\ UNCHANGED <<eventMap, nextEventCycle, clockVars, stepCycles>>

\* The handler returns, the event is deleted, the iterator moves on.
EndHandler ==
  /\ phase = "handler"
  /\ object' = [object EXCEPT ![Running] = Freed(@)]
  /\ it' = it + 1
  /\ phase' = "fetch"
  /\ UNCHANGED <<eventMap, nextEventCycle, clockVars, stepCycles>>

EndProcess ==
  /\ phase = "fetch"
  /\ it > Len(EventList(nextEventCycle))
  /\ EraseList(nextEventCycle)
  /\ lastEventCycle' = nextEventCycle
  /\ nextEventCycle' \in Cycle /\ IsFirstKey(eventMap', nextEventCycle')
  /\ it' = 0
  /\ phase' = "loop"
  /\ UNCHANGED <<currentCycle, object, stepCycles>>
-----------------------------------------------------------------------------
Init ==
  /\ eventMap = [c \in {} |-> <<>>]
  /\ nextEventCycle = Never
  /\ lastEventCycle = 0
  /\ currentCycle = 0
  /\ object \in [Event -> [state : {"free"}, kind : {"response"}, cycle : {0}]]
  /\ phase = "outside"
  /\ stepCycles = 0
  /\ it = 0

Advancing == LoopReturn \/ LoopSkip \/ LoopToEvent \/ StartHandler \/ EndHandler \/ EndProcess

Next ==
  \/ \E e \in Event, kind \in Kind, when \in Cycle : ScheduleLater(e, kind, when)
  \/ \E e \in Event : EnqueueWakeup(e) \/ CancelResponse(e)
  \/ \E steps \in 0 .. MaxSteps : Loop(steps)
  \/ Advancing

Spec == Init /\ [][Next]_vars

\* Handlers return, and the front end keeps calling Loop until the horizon: with
\* none when an event is due now, and with some in the end, since the front end
\* asks GlobalEventQueue::Cycle for at least one step (hence SF: it may enqueue
\* and be served in the current cycle for a while, but not forever).
FairSpec ==
  /\ Spec
  /\ WF_vars(Advancing)
  /\ SF_vars(\E steps \in 1 .. MaxSteps : Loop(steps))
  /\ WF_vars(nextEventCycle = currentCycle /\ Loop(0))
-----------------------------------------------------------------------------
(* Properties.                                                             *)

TypeOK ==
  /\ Keys \subseteq Cycle
  /\ \A c \in Keys : eventMap[c] \in Seq(Event)
  /\ nextEventCycle \in Cycle
  /\ lastEventCycle \in Cycle
  /\ currentCycle \in 0 .. Horizon
  /\ object \in [Event -> Object]
  /\ phase \in Phase
  /\ stepCycles \in 0 .. MaxSteps
  /\ it \in Nat

\* nextEventCycle, which Loop jumps to and Process asserts to have a list, is
\* the earliest cycle that has one, after every insertion, removal and erasure,
\* also the ones made while that list is being processed.
NextEventIsEarliest == IsFirstKey(eventMap, nextEventCycle)

\* The clock never moves past a cycle that still has a list, so Loop's unsigned
\* subtraction nextEventCycle - currentCycle cannot wrap; and a handler always
\* runs with the clock at the cycle of its list.
ClockNeverPassesAnEvent ==
  /\ currentCycle <= nextEventCycle
  /\ phase \in {"fetch", "handler"} => currentCycle = nextEventCycle

\* Loop may jump to nextEventCycle: it skips no event and subtracts no later clock.
LoopMayJump == NextEventIsEarliest /\ ClockNeverPassesAnEvent

\* Cell p of list c is one the iterator has yet to reach.
IsAhead(c, p) ==
  \/ c # nextEventCycle
  \/ it = 0
  \/ p > it
  \/ p = it /\ phase = "fetch"

\* Every event that has not run is still ahead of the iterator, or in the list
\* of a later cycle: erasing a processed list forgets nothing.
NoEventIsLost ==
  \A e \in Pending :
    LET c == object[e].cycle IN
    /\ c \in Keys
    /\ \E p \in 1 .. Len(eventMap[c]) : eventMap[c][p] = e /\ IsAhead(c, p)

\* Process never dereferences a freed event, and runs each event exactly in the
\* cycle it was scheduled for, whatever the handlers before it have done to the
\* list.
RunsEventsOnTime ==
  [][StartHandler => /\ object[Running].state = "pending"
                     /\ object[Running].cycle = currentCycle]_vars

\* An event that was scheduled within the horizon is run or cancelled in the end.
EveryEventFires ==
  \A e \in Event : (object[e].state = "pending" /\ object[e].cycle <= Horizon)
                     ~> object[e].state # "pending"

\* The queue implements the agenda.
AgendaRefinement == INSTANCE Agenda WITH
  now  <- currentCycle,
  None <- Never + 1,
  due  <- [e \in Event |-> IF object[e].state = "pending" THEN object[e].cycle ELSE Never + 1]
ImplementsAgenda == AgendaRefinement!AgendaSpec
=============================================================================
