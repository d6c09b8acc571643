-------------------------- MODULE SimulatorsProofs --------------------------
(***************************************************************************)
(* Theorems about GlobalEventQueue and the two programs around it, for any *)
(* number of systems and requests, any clock ratios, latencies, traces,    *)
(* packets and instances, and without a bound on time.                     *)
(***************************************************************************)
EXTENDS Simulators, FiniteSetTheorems, SequenceTheorems, WellFoundedInduction, TLAPS

InLoop == call.at \in {"loop", "sync loop", "last loop"}

\* A queue is never told to run beyond the global cycle it is to be in step with.
GoalIsInStep == (call.goal - 1) * Period[call.queue][1] < (currentCycle + call.step) * Period[call.queue][2]

\* What Cycle has been asked for is what it still does.
CallOK ==
  /\ call.at = "none" => call = Idle
  /\ call.at # "loop" => call.step = 0
  /\ call.step <= call.left
  /\ call.at \in {"last sync", "last loop"} => call.left = 0
  /\ InLoop => GoalIsInStep

\* No event is behind its queue's clock; one that is due runs now.
EventsAreAhead ==
  \A r \in Pending :
    /\ due[r].cycle >= localCycle[due[r].queue]
    /\ due[r].cycle = localCycle[due[r].queue] => InLoop /\ due[r].queue = call.queue

\* No queue is ahead of the global cycle it is to be in step with, and none is
\* behind before the global clock moves.
Towards(q) == currentCycle + (IF q = call.queue THEN call.step ELSE 0)
NoQueueIsBehind ==
  call.at \in {"none", "choose", "loop"} => \A q \in Queue : localCycle[q] >= ToLocal(q, currentCycle)
ClocksInStep ==
  /\ \A q \in Queue : (localCycle[q] - 1) * Period[q][1] < Towards(q) * Period[q][2]
  /\ NoQueueIsBehind

QueueInv == QueueTypeOK /\ CallOK /\ EventsAreAhead /\ ClocksInStep

\* The trace simulator: it knows the time, no line is beyond the limit, the
\* requests are lines that were read, and it counts them.
ClockAgrees == at \notin {"waited", "stalled"} => traceCycle = currentCycle + call.left
LimitIsAhead == at = "wait" /\ Limited => traceCycle <= simulateCycles
LinesWereRead ==
  /\ Pending \subseteq 1 .. line
  /\ at \in {"wait", "waited", "issue", "stalled"} => line > 0 /\ line \notin Pending
CountAgrees ==
  \/ outstandingRequests = Cardinality(Pending)
  \/ at = "done" /\ Limited /\ outstandingRequests = Cardinality(Pending) + 1

TraceInv == ClockAgrees /\ LimitIsAhead /\ LinesWereRead /\ CountAgrees

\* gem5's memory: who waits was promised a retry, a response that is queued has
\* an event or was refused, the clock event is set but while tick runs, the map
\* fits the requests, and a queue holds each of its responses once.
RetriesAreOwed ==
  /\ \A p \in Request : packets[p].state = "waiting" => packets[p].instance \in retry
  /\ retry # {} => Pending # {}
ResponsesAreSent ==
  \A i \in Instance :
    /\ responseQueue[i] # <<>> => respondEvent[i] # Never \/ i \in retryResp
    /\ i \in retryResp => responseQueue[i] # <<>>
ClockEventIsSet == (QueuesIdle \/ waker = "dump") /\ Pending # {} => clockEvent # Never
MapFits ==
  /\ Pending = DOMAIN requestMap
  /\ \A p \in Pending : requestMap[p] <=> packets[p].state = "issued"
QueuesHold ==
  \A i \in Instance : \A k \in 1 .. Len(responseQueue[i]) :
    /\ packets[responseQueue[i][k]].state = "responding"
    /\ packets[responseQueue[i][k]].instance = i
    /\ \A l \in 1 .. Len(responseQueue[i]) : responseQueue[i][l] = responseQueue[i][k] => l = k

MemoryInv == RetriesAreOwed /\ ResponsesAreSent /\ ClockEventIsSet /\ MapFits /\ QueuesHold

IInv ==
  /\ TypeOK /\ QueueInv
  /\ simulator = "trace" => TraceInv
  /\ simulator = "gem5" => MemoryInv
  /\ simulator \in {"trace", "gem5"}
-----------------------------------------------------------------------------
(* Arithmetic of the clock ratios.                                         *)

LEMMA Division ==
  ASSUME NEW x \in Nat, NEW y \in Nat \ {0}
  PROVE  x \div y \in Nat /\ (x \div y) * y <= x /\ x < (x \div y + 1) * y
OBVIOUS

LEMMA Products ==
  ASSUME NEW x \in Int, NEW y \in Int, NEW z \in Nat, x <= y
  PROVE  x * z \in Int /\ y * z \in Int /\ x * z <= y * z
OBVIOUS

\* b cycles of a queue take a global cycles.  A cycle the queue has still to
\* come to is not over for the simulator ...
LEMMA LaterInGlobalCycles ==
  ASSUME NEW a \in Nat \ {0}, NEW b \in Nat \ {0}, NEW c \in Nat, NEW g \in Nat,
         c > (g * b) \div a
  PROVE  (c * a) \div b >= g
<1>1. g * b \in Nat /\ c * a \in Nat
  OBVIOUS
<1>2. (g * b) \div a \in Nat /\ (c * a) \div b \in Nat
  BY <1>1, Division
<1>3. g * b < ((g * b) \div a + 1) * a
  BY <1>1, Division
<1>4. ((g * b) \div a + 1) * a <= c * a
  BY <1>2, Products
<1>5. c * a < ((c * a) \div b + 1) * b
  BY <1>1, Division
<1>6. ASSUME (c * a) \div b + 1 <= g PROVE FALSE
  <2>1. ((c * a) \div b + 1) * b <= g * b
    BY <1>2, <1>6, Products
  <2>2. QED
    BY <1>1, <1>2, <1>3, <1>4, <1>5, <2>1
<1>7. QED
  BY <1>2, <1>6

\* ... the cycle of an event does not begin after the global cycle it is due at,
\* as no queue is faster than the simulator ...
LEMMA BeginsByGlobalCycle ==
  ASSUME NEW a \in Nat \ {0}, NEW b \in Nat \ {0}, a >= b, NEW c \in Nat, NEW g \in Nat,
         (c * a) \div b = g
  PROVE  (c - 1) * a < g * b
<1>1. c * a \in Nat /\ g * b \in Nat
  OBVIOUS
<1>2. c * a < (g + 1) * b
  BY <1>1, Division
<1>3. (c - 1) * a = c * a - a /\ (g + 1) * b = g * b + b
  OBVIOUS
<1>4. QED
  BY <1>1, <1>2, <1>3

\* ... and neither does the cycle that Sync lets a queue come to.
LEMMA BeginsBySync ==
  ASSUME NEW a \in Nat \ {0}, NEW b \in Nat \ {0}, NEW g \in Nat
  PROVE  (g * b) \div a \in Nat /\ ((g * b) \div a - 1) * a < g * b
<1>1. g * b \in Nat
  OBVIOUS
<1>2. (g * b) \div a \in Nat /\ ((g * b) \div a) * a <= g * b
  BY <1>1, Division
<1>3. ((g * b) \div a - 1) * a = ((g * b) \div a) * a - a
  BY <1>2
<1>4. ((g * b) \div a) * a \in Int
  BY <1>2
<1>5. QED
  BY <1>1, <1>2, <1>3, <1>4
-----------------------------------------------------------------------------
(* The earliest of the events.                                             *)

LEMMA LeastExists ==
  ASSUME NEW S, S \subseteq Nat, S # {}
  PROVE  \E x \in S : \A y \in S : x <= y
<1> DEFINE R == OpToRel(<, Nat)
<1>1. IsWellFoundedOn(R, Nat)
  BY NatLessThanWellFounded
<1>2. \A x, y \in Nat : y < x => <<y, x>> \in R
  BY DEF OpToRel
<1> HIDE DEF R
<1>3. PICK x \in S : \A y \in S : ~ (<<y, x>> \in R)
  BY <1>1, WFMin
<1>4. ASSUME NEW y \in S PROVE x <= y
  <2>1. x \in Nat /\ y \in Nat /\ ~ (y < x)
    BY <1>2, <1>3
  <2>2. QED
    BY <2>1
<1>5. QED
  BY <1>4

LEMMA EarliestProperties ==
  ASSUME NEW S, S \subseteq Nat
  PROVE  /\ Earliest(S) = Never <=> S = {}
         /\ S # {} => Earliest(S) \in S /\ \A y \in S : Earliest(S) <= y
<1>1. S # {} => Min(S) \in S /\ \A y \in S : Min(S) <= y
  BY LeastExists DEF Min
<1>2. Never \notin Nat
  BY GlobalEventQueueAssumption
<1>3. QED
  BY <1>1, <1>2 DEF Earliest

LEMMA PeriodFacts ==
  ASSUME NEW q \in Queue
  PROVE  /\ Period[q][1] \in Nat \ {0} /\ Period[q][2] \in Nat \ {0}
         /\ Period[q][1] >= Period[q][2]
BY GlobalEventQueueAssumption

LEMMA CallFacts ==
  ASSUME QueueTypeOK
  PROVE  /\ currentCycle \in Nat
         /\ call.left \in Nat /\ call.step \in Nat /\ call.goal \in Nat /\ call.queue \in Queue
         /\ localCycle[call.queue] \in Nat
BY DEF QueueTypeOK, CallState

LEMMA IdleIsACall == Idle \in CallState
BY GlobalEventQueueAssumption DEF Idle, CallState, Queue

LEMMA DueFacts ==
  ASSUME QueueTypeOK, NEW r \in Request
  PROVE  /\ r \in Pending <=> due[r].queue \in Queue
         /\ r \in Pending => due[r].cycle \in Nat
         /\ r \notin Pending => due[r] = NotDue /\ due[r].queue = 0
<1>1. due[r] \in [queue : Queue, cycle : Nat] \cup {NotDue}
  BY DEF QueueTypeOK, DueEvent
<1>2. 0 \notin Queue
  BY GlobalEventQueueAssumption DEF Queue
<1>3. QED
  BY <1>1, <1>2 DEF Pending, NotDue

\* NextOf is the first event of a queue ...
LEMMA NextOfProperties ==
  ASSUME QueueTypeOK, NEW q \in Queue
  PROVE  /\ NextOf(q) # Never =>
              NextOf(q) \in Nat /\ \E r \in Pending : due[r].queue = q /\ due[r].cycle = NextOf(q)
         /\ \A r \in Pending : due[r].queue = q => NextOf(q) # Never /\ NextOf(q) <= due[r].cycle
<1> DEFINE S == {due[r].cycle : r \in {p \in Request : due[p].queue = q}}
<1>1. \A r \in Request : due[r].queue = q => r \in Pending /\ due[r].cycle \in Nat
  BY DueFacts
<1>2. S \subseteq Nat
  BY <1>1
<1>3. NextOf(q) = Earliest(S)
  BY DEF NextOf
<1>4. /\ \A c \in S : \E r \in Pending : due[r].queue = q /\ due[r].cycle = c
      /\ \A r \in Pending : due[r].queue = q => due[r].cycle \in S
  BY <1>1 DEF Pending
<1> HIDE DEF S
<1>5. /\ Earliest(S) = Never <=> S = {}
      /\ S # {} => Earliest(S) \in S /\ \A y \in S : Earliest(S) <= y
  BY <1>2, EarliestProperties
<1>6. QED
  BY <1>2, <1>3, <1>4, <1>5

\* ... and GetNextEvent is the first of all, for the simulator.
LEMMA NextEventProperties ==
  ASSUME NEW d, \A r \in Request : d[r] # NotDue => d[r].queue \in Queue /\ d[r].cycle \in Nat
  PROVE  /\ NextEventOf(d) = Never <=> \A r \in Request : d[r] = NotDue
         /\ NextEventOf(d) # Never =>
              /\ NextEventOf(d) \in Nat
              /\ \E r \in Request : d[r] # NotDue /\ NextEventOf(d) = ToGlobal(d[r].queue, d[r].cycle)
         /\ \A r \in Request : d[r] # NotDue =>
              NextEventOf(d) # Never /\ NextEventOf(d) <= ToGlobal(d[r].queue, d[r].cycle)
<1> DEFINE P == {p \in Request : d[p] # NotDue}
           S == {ToGlobal(d[r].queue, d[r].cycle) : r \in P}
<1>1. \A r \in P : ToGlobal(d[r].queue, d[r].cycle) \in Nat
  <2> TAKE r \in P
  <2>1. d[r].queue \in Queue /\ d[r].cycle \in Nat
    OBVIOUS
  <2>2. d[r].cycle * Period[d[r].queue][1] \in Nat
    BY <2>1, PeriodFacts
  <2>3. QED
    BY <2>1, <2>2, PeriodFacts, Division DEF ToGlobal
<1>2. S \subseteq Nat
  BY <1>1
<1>3. NextEventOf(d) = Earliest(S)
  BY DEF NextEventOf
<1>4. /\ \A c \in S : \E r \in Request : d[r] # NotDue /\ c = ToGlobal(d[r].queue, d[r].cycle)
      /\ \A r \in Request : d[r] # NotDue => ToGlobal(d[r].queue, d[r].cycle) \in S
  OBVIOUS
<1> HIDE DEF S
<1>5. /\ Earliest(S) = Never <=> S = {}
      /\ S # {} => Earliest(S) \in S /\ \A y \in S : Earliest(S) <= y
  BY <1>2, EarliestProperties
<1>6. QED
  BY <1>2, <1>3, <1>4, <1>5

LEMMA GetNextEventProperties ==
  ASSUME QueueTypeOK
  PROVE  /\ GetNextEvent = Never <=> Pending = {}
         /\ GetNextEvent # Never => GetNextEvent \in Nat
         /\ \A r \in Pending :
              GetNextEvent # Never /\ GetNextEvent <= ToGlobal(due[r].queue, due[r].cycle)
<1>1. \A r \in Request : due[r] # NotDue => due[r].queue \in Queue /\ due[r].cycle \in Nat
  BY DueFacts DEF Pending
<1>2. QED
  BY <1>1, NextEventProperties DEF GetNextEvent, Pending

\* Between the runs of the queues no event waits in the simulator's past.
LEMMA NoEventInThePast ==
  ASSUME QueueInv, ~ InLoop,
         \A q \in Queue : localCycle[q] >= ToLocal(q, currentCycle)
  PROVE  GetNextEvent # Never => GetNextEvent >= currentCycle
<1> SUFFICES ASSUME GetNextEvent # Never PROVE GetNextEvent >= currentCycle
  OBVIOUS
<1>1. QueueTypeOK /\ EventsAreAhead
  BY DEF QueueInv
<1>2. PICK r \in Pending : GetNextEvent = ToGlobal(due[r].queue, due[r].cycle)
  <2>1. \A r \in Request : due[r] # NotDue => due[r].queue \in Queue /\ due[r].cycle \in Nat
    BY <1>1, DueFacts DEF Pending
  <2>2. QED
    BY <2>1, NextEventProperties DEF GetNextEvent, Pending
<1> DEFINE q == due[r].queue
<1>3. q \in Queue /\ due[r].cycle \in Nat /\ localCycle[q] \in Nat /\ currentCycle \in Nat
  BY <1>1, DueFacts DEF QueueTypeOK, Pending
<1>4. due[r].cycle > localCycle[q]
  BY <1>1, <1>3 DEF EventsAreAhead
<1>5. localCycle[q] >= ToLocal(q, currentCycle) /\ ToLocal(q, currentCycle) \in Nat
  BY <1>3, PeriodFacts, BeginsBySync DEF ToLocal
<1>6. due[r].cycle > (currentCycle * Period[q][2]) \div Period[q][1]
  BY <1>3, <1>4, <1>5 DEF ToLocal
<1>7. QED
  BY <1>2, <1>3, <1>6, PeriodFacts, LaterInGlobalCycles DEF ToGlobal
-----------------------------------------------------------------------------
(* The queues are kept in step.                                            *)

LEMMA QueueInvInitially == QueueInit => QueueInv
<1> SUFFICES ASSUME QueueInit PROVE QueueInv
  OBVIOUS
<1>1. Pending = {} /\ call.at = "none" /\ call.step = 0 /\ call.left = 0
  BY DEF QueueInit, Pending, Idle
<1>2. QueueTypeOK
  <2>1. NotDue \in DueEvent
    BY DEF DueEvent
  <2>2. QED
    BY <2>1, IdleIsACall DEF QueueInit, QueueTypeOK
<1>3. ClocksInStep
  <2> SUFFICES ASSUME NEW q \in Queue
               PROVE  /\ (localCycle[q] - 1) * Period[q][1] < Towards(q) * Period[q][2]
                      /\ localCycle[q] >= ToLocal(q, currentCycle)
    BY DEF ClocksInStep, NoQueueIsBehind
  <2>1. localCycle[q] = 0 /\ currentCycle = 0 /\ Towards(q) = 0
    BY <1>1 DEF QueueInit, Towards
  <2>2. 0 * Period[q][2] = 0 /\ (0 - 1) * Period[q][1] < 0
    BY PeriodFacts
  <2>3. 0 \div Period[q][1] = 0
    <3>1. /\ 0 \div Period[q][1] \in Nat
          /\ (0 \div Period[q][1]) * Period[q][1] <= 0
      BY PeriodFacts, Division
    <3>2. 0 \div Period[q][1] >= 1 => (0 \div Period[q][1]) * Period[q][1] >= 1 * Period[q][1]
      BY <3>1, PeriodFacts, Products
    <3>3. QED
      BY <3>1, <3>2, PeriodFacts
  <2>4. QED
    BY <2>1, <2>2, <2>3 DEF ToLocal
<1>4. QED
  BY <1>1, <1>2, <1>3 DEF QueueInv, CallOK, EventsAreAhead, InLoop, QueueInit

LEMMA CycleBegins ==
  ASSUME QueueInv, NEW steps \in Nat, Cycle(steps),
         UNCHANGED <<currentCycle, localCycle, due>>
  PROVE  QueueInv' /\ call'.left = steps /\ call.left = 0 /\ Pending' = Pending
<1>1. QueueTypeOK /\ EventsAreAhead /\ ClocksInStep
  BY DEF QueueInv
<1>2. /\ call = Idle
      /\ call' = [at |-> "choose", left |-> steps, step |-> 0, queue |-> 1, goal |-> 0]
  BY DEF Cycle, QueuesIdle, Idle
<1>3. QueueTypeOK'
  <2>1. 1 \in Queue
    BY GlobalEventQueueAssumption DEF Queue
  <2>2. call' \in CallState
    BY <1>2, <2>1 DEF CallState
  <2>3. QED
    BY <1>1, <2>2 DEF QueueTypeOK
<1>4. CallOK' /\ EventsAreAhead'
  BY <1>1, <1>2 DEF CallOK, EventsAreAhead, InLoop, Pending, Idle, QueueTypeOK
<1>5. ClocksInStep'
  BY <1>1, <1>2 DEF ClocksInStep, NoQueueIsBehind, Towards, ToLocal, Idle, QueueTypeOK
<1>6. QED
  BY <1>2, <1>3, <1>4, <1>5 DEF QueueInv, Idle, Pending

\* An event is made for later, whatever its queue does.
LEMMA EventEnters ==
  ASSUME QueueInv, NEW r \in Request, NEW latency \in Latency,
         due' = Entering(r, 1, latency), UNCHANGED <<currentCycle, localCycle, call>>
  PROVE  QueueInv' /\ Pending' = Pending \cup {r}
<1>1. QueueTypeOK /\ CallOK /\ EventsAreAhead /\ ClocksInStep
  BY DEF QueueInv
<1>2. 1 \in Queue /\ latency \in Nat /\ latency > 0 /\ localCycle[1] \in Nat
  <2>1. 1 \in Queue /\ latency \in Nat /\ latency > 0
    BY GlobalEventQueueAssumption DEF Queue
  <2>2. QED
    BY <1>1, <2>1 DEF QueueTypeOK
<1> DEFINE event == [queue |-> 1, cycle |-> localCycle[1] + latency]
<1>3. due' = [due EXCEPT ![r] = [queue |-> 1, cycle |-> localCycle[1] + latency]]
  BY DEF Entering, Due
<1>4. event \in DueEvent /\ event # NotDue /\ event.queue = 1 /\ event.cycle > localCycle[1]
  BY <1>2 DEF DueEvent, NotDue
<1> HIDE DEF event
<1>5. /\ due' \in [Request -> DueEvent]
      /\ due'[r] = event /\ \A p \in Request \ {r} : due'[p] = due[p]
  BY <1>1, <1>3, <1>4 DEF QueueTypeOK, event
<1>50. QueueTypeOK' /\ Pending' = Pending \cup {r}
  BY <1>1, <1>4, <1>5 DEF QueueTypeOK, Pending
<1>6. EventsAreAhead'
  <2> SUFFICES ASSUME NEW p \in Pending'
               PROVE  /\ due'[p].cycle >= localCycle[due'[p].queue]
                      /\ due'[p].cycle = localCycle[due'[p].queue] => InLoop /\ due'[p].queue = call.queue
    BY DEF EventsAreAhead, InLoop
  <2>1. CASE p = r
    <3>1. due'[p].queue = 1 /\ due'[p].cycle = event.cycle
      BY <1>4, <1>5, <2>1
    <3>2. event.cycle \in Nat
      BY <1>2 DEF event
    <3>3. QED
      BY <1>2, <1>4, <3>1, <3>2
  <2>2. CASE p # r
    <3>1. p \in Pending /\ p \in Request
      BY <1>50, <2>2 DEF Pending
    <3>2. due'[p] = due[p]
      BY <1>5, <2>2, <3>1
    <3>3. QED
      BY <1>1, <3>1, <3>2 DEF EventsAreAhead
  <2>3. QED
    BY <2>1, <2>2
<1>7. CallOK' /\ ClocksInStep'
  BY <1>1 DEF CallOK, GoalIsInStep, ClocksInStep, NoQueueIsBehind, InLoop, Towards, ToLocal, Idle
<1>8. QED
  BY <1>50, <1>6, <1>7 DEF QueueInv

\* An event is run: its queue's clock comes to it, and it is gone or made again
\* in the next queue.
LEMMA EventRuns ==
  ASSUME QueueInv, NEW r \in Request, GoesOn(r) \/ Completes(r)
  PROVE  /\ QueueInv'
         /\ UNCHANGED <<currentCycle, call>>
         /\ r \in Pending
         /\ GoesOn(r) => Pending' = Pending
         /\ Completes(r) => Pending' = Pending \ {r}
<1>1. QueueTypeOK /\ CallOK /\ EventsAreAhead /\ ClocksInStep
  BY DEF QueueInv
<1> DEFINE q == call.queue
<1>2. /\ InLoop /\ UNCHANGED <<currentCycle, call>>
      /\ due[r].queue = q /\ due[r].cycle = NextOf(q) /\ due[r].cycle <= call.goal
      /\ localCycle' = [localCycle EXCEPT ![q] = due[r].cycle]
  BY DEF GoesOn, Completes, EventOf, InLoop
<1>3. q \in Queue /\ call.goal \in Nat
  BY <1>1, CallFacts
<1>4. r \in Pending /\ due[r].cycle \in Nat /\ due[r].cycle >= localCycle[q]
  BY <1>1, <1>2, <1>3, DueFacts DEF EventsAreAhead
<1> HIDE DEF q
<1>5. \A p \in Pending : due[p].queue = q => due[p].cycle >= localCycle'[q]
  BY <1>1, <1>2, <1>3, NextOfProperties DEF QueueTypeOK
<1>6. /\ localCycle' \in [Queue -> Nat]
      /\ localCycle'[q] = due[r].cycle /\ \A k \in Queue \ {q} : localCycle'[k] = localCycle[k]
      /\ \A k \in Queue : localCycle'[k] >= localCycle[k]
  BY <1>1, <1>2, <1>3, <1>4 DEF QueueTypeOK
<1>50. \A p \in Pending :
         /\ due[p].cycle >= localCycle'[due[p].queue]
         /\ due[p].cycle = localCycle'[due[p].queue] => due[p].queue = q
  <2> TAKE p \in Pending
  <2>1. due[p].queue \in Queue /\ due[p].cycle \in Nat
    BY <1>1, DueFacts DEF Pending
  <2>2. CASE due[p].queue = q
    BY <1>5, <2>2
  <2>3. CASE due[p].queue # q
    <3>1. localCycle'[due[p].queue] = localCycle[due[p].queue]
      BY <1>6, <2>1, <2>3
    <3>2. QED
      BY <1>1, <2>3, <3>1 DEF EventsAreAhead, q
  <2>4. QED
    BY <2>2, <2>3
<1>7. QueueTypeOK' /\ EventsAreAhead'
      /\ (GoesOn(r) => Pending' = Pending) /\ (Completes(r) => Pending' = Pending \ {r})
  <2>1. CASE Completes(r)
    <3>1. due' = [due EXCEPT ![r] = NotDue]
      BY <2>1 DEF Completes
    <3>2. QueueTypeOK'
      <4>1. NotDue \in DueEvent
        BY DEF DueEvent
      <4>2. QED
        BY <1>1, <1>2, <1>6, <3>1, <4>1 DEF QueueTypeOK
    <3>3. Pending' = Pending \ {r} /\ \A p \in Request \ {r} : due'[p] = due[p]
      BY <1>1, <3>1 DEF Pending, QueueTypeOK
    <3>4. EventsAreAhead'
      <4> SUFFICES ASSUME NEW p \in Pending'
                   PROVE  /\ due'[p].cycle >= localCycle'[due'[p].queue]
                          /\ due'[p].cycle = localCycle'[due'[p].queue] => due'[p].queue = q
        BY <1>2 DEF EventsAreAhead, InLoop, q
      <4>1. p \in Pending /\ due'[p] = due[p]
        BY <3>3 DEF Pending
      <4>2. QED
        BY <1>50, <4>1
    <3>5. ~ GoesOn(r)
      <4> SUFFICES ASSUME GoesOn(r) PROVE FALSE
        OBVIOUS
      <4>1. PICK latency \in Latency : due' = Entering(r, q + 1, latency)
        BY <1>2 DEF GoesOn
      <4>2. due'[r] = NotDue /\ due'[r] = Due(q + 1, localCycle[q + 1] + latency)
        BY <1>1, <3>1, <4>1 DEF Entering, QueueTypeOK
      <4>3. due'[r].queue = q + 1 /\ due'[r].queue = 0
        BY <4>2 DEF Due, NotDue
      <4>4. QED
        BY <1>3, <4>3 DEF Queue
    <3>6. QED
      BY <2>1, <3>2, <3>3, <3>4, <3>5
  <2>2. CASE GoesOn(r)
    <3>1. PICK latency \in Latency : due' = Entering(r, q + 1, latency)
      BY <1>2, <2>2 DEF GoesOn
    <3>2. q + 1 \in Queue /\ latency \in Nat /\ latency > 0 /\ q # q + 1
      BY <1>2, <1>3, <2>2, GlobalEventQueueAssumption DEF GoesOn, Queue
    <3>3. localCycle'[q + 1] = localCycle[q + 1] /\ localCycle[q + 1] \in Nat
      BY <1>1, <1>6, <3>2 DEF QueueTypeOK
    <3> DEFINE event == [queue |-> q + 1, cycle |-> localCycle[q + 1] + latency]
    <3>4. /\ event \in DueEvent /\ event # NotDue
          /\ event.queue = q + 1 /\ event.cycle > localCycle'[q + 1]
      BY <3>2, <3>3 DEF DueEvent, NotDue, Queue
    <3> HIDE DEF event
    <3>5. /\ due' \in [Request -> DueEvent]
          /\ due'[r] = event /\ \A p \in Request \ {r} : due'[p] = due[p]
      BY <1>1, <3>1, <3>4 DEF QueueTypeOK, Entering, Due, event
    <3>6. QueueTypeOK' /\ Pending' = Pending
      BY <1>1, <1>2, <1>4, <1>6, <3>4, <3>5 DEF QueueTypeOK, Pending
    <3>7. EventsAreAhead'
      <4> SUFFICES ASSUME NEW p \in Pending'
                   PROVE  /\ due'[p].cycle >= localCycle'[due'[p].queue]
                          /\ due'[p].cycle = localCycle'[due'[p].queue] => due'[p].queue = q
        BY <1>2 DEF EventsAreAhead, InLoop, q
      <4>1. CASE p = r
        BY <3>2, <3>3, <3>4, <3>5, <4>1 DEF event
      <4>2. CASE p # r
        <5>1. p \in Pending /\ due'[p] = due[p]
          BY <3>5, <3>6, <4>2 DEF Pending
        <5>2. QED
          BY <1>50, <5>1
      <4>3. QED
        BY <4>1, <4>2
    <3>8. ~ Completes(r)
      <4>1. Completes(r) => due'[r] = NotDue
        BY <1>1 DEF Completes, QueueTypeOK
      <4>2. QED
        BY <1>4, <3>6, <4>1 DEF Pending
    <3>9. QED
      BY <2>2, <3>6, <3>7, <3>8
  <2>3. QED
    BY <2>1, <2>2
<1>8. ClocksInStep'
  <2>1. NoQueueIsBehind'
    <3> SUFFICES ASSUME call.at \in {"none", "choose", "loop"}, NEW k \in Queue
                 PROVE  localCycle'[k] >= ToLocal(k, currentCycle)
      BY <1>2 DEF NoQueueIsBehind, ToLocal
    <3>1. localCycle[k] >= ToLocal(k, currentCycle) /\ localCycle'[k] >= localCycle[k]
      BY <1>1, <1>6 DEF ClocksInStep, NoQueueIsBehind
    <3>2. ToLocal(k, currentCycle) \in Nat /\ localCycle[k] \in Nat /\ localCycle'[k] \in Nat
      BY <1>1, <1>6, PeriodFacts, BeginsBySync DEF ToLocal, QueueTypeOK
    <3>3. QED
      BY <3>1, <3>2
  <2> SUFFICES ASSUME NEW k \in Queue
               PROVE  (localCycle'[k] - 1) * Period[k][1] < Towards(k) * Period[k][2]
    BY <1>2, <2>1 DEF ClocksInStep, Towards
  <2>2. CASE k # q
    BY <1>1, <1>6, <2>2 DEF ClocksInStep
  <2>3. CASE k = q
    <3>1. (localCycle'[q] - 1) * Period[q][1] <= (call.goal - 1) * Period[q][1]
      <4>1. localCycle'[q] - 1 \in Int /\ call.goal - 1 \in Int /\ localCycle'[q] - 1 <= call.goal - 1
        BY <1>2, <1>3, <1>4, <1>6
      <4>2. QED
        BY <4>1, <1>3, PeriodFacts, Products
    <3>2. (call.goal - 1) * Period[q][1] < Towards(q) * Period[q][2]
      BY <1>1, <1>2 DEF CallOK, GoalIsInStep, Towards, q
    <3>3. /\ (localCycle'[q] - 1) * Period[q][1] \in Int /\ (call.goal - 1) * Period[q][1] \in Int
          /\ Towards(q) * Period[q][2] \in Int
      BY <1>1, <1>3, <1>4, <1>6, CallFacts, PeriodFacts DEF Towards
    <3>4. QED
      BY <2>3, <3>1, <3>2, <3>3
  <2>4. QED
    BY <2>2, <2>3
<1>9. CallOK'
  BY <1>1, <1>2 DEF CallOK, GoalIsInStep, InLoop, Idle
<1>10. QED
  BY <1>2, <1>4, <1>7, <1>8, <1>9 DEF QueueInv

\* The steps of Cycle between the runs of the queues.
LEMMA CallProceeds ==
  ASSUME QueueInv, ~ InLoop, UNCHANGED <<localCycle, due>>,
         call' \in CallState, CallOK', currentCycle' \in Nat, currentCycle' >= currentCycle,
         NoQueueIsBehind'
  PROVE  QueueInv' /\ Pending' = Pending
<1>1. QueueTypeOK /\ CallOK /\ EventsAreAhead /\ ClocksInStep
  BY DEF QueueInv
<1>2. QueueTypeOK' /\ Pending' = Pending
  BY <1>1 DEF QueueTypeOK, Pending
<1>3. EventsAreAhead'
  <2> SUFFICES ASSUME NEW p \in Pending
               PROVE  /\ due[p].cycle >= localCycle[due[p].queue]
                      /\ due[p].cycle # localCycle[due[p].queue]
    BY <1>2 DEF EventsAreAhead
  <2>1. QED
    BY <1>1 DEF EventsAreAhead
<1>4. ClocksInStep'
  <2> SUFFICES ASSUME NEW q \in Queue
               PROVE  (localCycle[q] - 1) * Period[q][1] < Towards(q)' * Period[q][2]
    BY DEF ClocksInStep, ToLocal
  <2>1. call.step = 0 /\ Towards(q) = currentCycle /\ Towards(q) \in Nat
    <3>1. call.step = 0
      BY DEF QueueInv, CallOK, InLoop
    <3>2. QED
      BY <1>1, <3>1, CallFacts DEF Towards
  <2>2. Towards(q)' \in Nat /\ Towards(q)' >= Towards(q)
    <3>1. call'.step \in Nat
      BY DEF CallState
    <3>2. Towards(q)' = currentCycle' + call'.step \/ Towards(q)' = currentCycle' + 0
      BY Zenon DEF Towards
    <3>3. QED
      <4>1. currentCycle \in Nat
        BY <1>1, CallFacts
      <4>2. QED
        BY <2>1, <3>1, <3>2, <4>1
  <2>3. Towards(q) * Period[q][2] <= Towards(q)' * Period[q][2]
    BY <2>1, <2>2, PeriodFacts, Products
  <2>4. (localCycle[q] - 1) * Period[q][1] < Towards(q) * Period[q][2]
    BY <1>1 DEF ClocksInStep
  <2>5. /\ (localCycle[q] - 1) * Period[q][1] \in Int
        /\ Towards(q) * Period[q][2] \in Int /\ Towards(q)' * Period[q][2] \in Int
    BY <1>1, <2>1, <2>2, PeriodFacts DEF QueueTypeOK
  <2>6. QED
    BY <2>3, <2>4, <2>5
<1>5. QED
  BY <1>2, <1>3, <1>4 DEF QueueInv

LEMMA NatsAreNotNegative == \A n \in Nat : 0 <= n
OBVIOUS

LEMMA CallIsOK ==
  ASSUME call' \in CallState, call'.step = 0,
         call'.at = "none" => call' = Idle,
         call'.at \in {"last sync", "last loop"} => call'.left = 0,
         InLoop' => GoalIsInStep'
  PROVE  CallOK'
<1>1. call'.left \in Nat
  BY DEF CallState
<1>2. call'.step <= call'.left
  BY <1>1, NatsAreNotNegative, Zenon
<1>3. QED
  BY <1>2, Zenon DEF CallOK

LEMMA CycleProceeds ==
  ASSUME QueueInv, NoMoreEvents \/ ChooseQueue \/ Sync \/ SyncEnds
  PROVE  /\ QueueInv' /\ Pending' = Pending
         /\ currentCycle' + call'.left = currentCycle + call.left
<1>1. QueueTypeOK /\ CallOK /\ EventsAreAhead /\ ClocksInStep
  BY DEF QueueInv
<1>2. ~ InLoop /\ UNCHANGED <<localCycle, due>>
  BY DEF NoMoreEvents, ChooseQueue, Sync, SyncEnds, InLoop
<1>3. call.step = 0
  BY <1>1, <1>2, Zenon DEF CallOK, InLoop
<1>4. call \in CallState
  BY <1>1 DEF QueueTypeOK
<1>5. currentCycle \in Nat /\ call.left \in Nat /\ call.goal \in Nat /\ call.queue \in Queue
  BY <1>1, CallFacts
<1>6. CASE NoMoreEvents
  <2>1. /\ call' = [call EXCEPT !.at = "last sync", !.left = 0]
        /\ currentCycle' = currentCycle + call.left
    BY <1>6 DEF NoMoreEvents
  <2>2. call'.at = "last sync"
    BY <1>4, <2>1 DEF CallState
  <2>3. call'.left = 0 /\ call'.step = 0
    BY <1>3, <1>4, <2>1 DEF CallState
  <2>4. call' \in CallState
    BY <1>4, <2>1 DEF CallState
  <2>5. ~ InLoop' /\ call'.at # "none" /\ NoQueueIsBehind'
    BY <2>2 DEF InLoop, NoQueueIsBehind
  <2>6. CallOK'
    BY <2>3, <2>4, <2>5, CallIsOK, Zenon
  <2>7. currentCycle' \in Nat /\ currentCycle' >= currentCycle
        /\ currentCycle' + call'.left = currentCycle + call.left
    BY <1>5, <2>1, <2>3
  <2>8. QueueInv' /\ Pending' = Pending
    BY <1>2, <2>4, <2>5, <2>6, <2>7, CallProceeds
  <2>9. QED
    BY <2>7, <2>8
<1>7. CASE ChooseQueue
  <2>1. PICK q \in NextEventQueues :
          call' = [call EXCEPT !.at = "loop", !.step = Distance, !.queue = q, !.goal = NextOf(q)]
    BY <1>7 DEF ChooseQueue
  <2>2. call.at = "choose"
    BY <1>7 DEF ChooseQueue
  <2>3. UNCHANGED currentCycle /\ GetNextEvent # Never /\ GetNextEvent <= currentCycle + call.left
    BY <1>7 DEF ChooseQueue, MoreEvents, Until
  <2>4. \A k \in Queue : localCycle[k] >= ToLocal(k, currentCycle)
    BY <1>1, <2>2 DEF ClocksInStep, NoQueueIsBehind
  <2>5. GetNextEvent \in Nat /\ GetNextEvent >= currentCycle
    BY <1>1, <1>2, <2>3, <2>4, GetNextEventProperties, NoEventInThePast
  <2>6. Distance \in Nat /\ Distance <= call.left /\ currentCycle + Distance = GetNextEvent
    BY <1>5, <2>3, <2>5 DEF Distance
  <2>7. q \in Queue /\ NextOf(q) \in Nat /\ ToGlobal(q, NextOf(q)) = GetNextEvent
    BY <1>1, <2>1, NextOfProperties DEF NextEventQueues
  <2>8. call'.at = "loop"
    BY <1>4, <2>1 DEF CallState
  <2>9. /\ call'.left = call.left /\ call'.step = Distance
        /\ call'.queue = q /\ call'.goal = NextOf(q)
    BY <1>4, <2>1 DEF CallState
  <2>10. call' \in CallState
    BY <1>4, <2>1, <2>6, <2>7 DEF CallState
  <2>11. CallOK'
    <3>1. (NextOf(q) - 1) * Period[q][1] < GetNextEvent * Period[q][2]
      BY <2>5, <2>7, PeriodFacts, BeginsByGlobalCycle DEF ToGlobal
    <3>2. currentCycle' + call'.step = GetNextEvent
      BY <2>3, <2>6, <2>9
    <3>3. GoalIsInStep'
      BY <2>9, <3>1, <3>2, Zenon DEF GoalIsInStep
    <3>4. call'.step <= call'.left
      BY <2>6, <2>9
    <3>5. call'.at # "none" /\ call'.at \notin {"last sync", "last loop"}
      BY <2>8
    <3>6. QED
      BY <2>8, <3>3, <3>4, <3>5, Zenon DEF CallOK
  <2>12. NoQueueIsBehind'
    BY <1>2, <2>3, <2>4 DEF NoQueueIsBehind, ToLocal
  <2>13. QueueInv' /\ Pending' = Pending
    BY <1>2, <1>5, <2>3, <2>10, <2>11, <2>12, CallProceeds
  <2>14. QED
    BY <2>3, <2>9, <2>13
<1>8. CASE Sync
  <2>1. PICK q \in Behind :
          call' = [call EXCEPT !.at = IF @ = "sync" THEN "sync loop" ELSE "last loop",
                               !.queue = q, !.goal = ToLocal(q, currentCycle)]
    BY <1>8 DEF Sync
  <2>2. call.at \in {"sync", "last sync"}
    BY <1>8 DEF Sync
  <2>3. UNCHANGED currentCycle /\ q \in Queue
    BY <1>8 DEF Sync, Behind
  <2>4. /\ ToLocal(q, currentCycle) \in Nat
        /\ (ToLocal(q, currentCycle) - 1) * Period[q][1] < currentCycle * Period[q][2]
    BY <1>5, <2>3, PeriodFacts, BeginsBySync DEF ToLocal
  <2>5. call'.at = IF call.at = "sync" THEN "sync loop" ELSE "last loop"
    BY <1>4, <2>1 DEF CallState
  <2>6. /\ call'.left = call.left /\ call'.step = 0
        /\ call'.queue = q /\ call'.goal = ToLocal(q, currentCycle)
    BY <1>3, <1>4, <2>1 DEF CallState
  <2>7. call' \in CallState
    BY <1>4, <2>1, <2>3, <2>4 DEF CallState
  <2>8. CallOK'
    <3>1. currentCycle' + call'.step = currentCycle
      BY <1>5, <2>3, <2>6
    <3>2. GoalIsInStep'
      BY <2>4, <2>6, <3>1, Zenon DEF GoalIsInStep
    <3>3. call'.at \in {"last sync", "last loop"} => call.at = "last sync"
      BY <2>2, <2>5
    <3>4. call.at = "last sync" => call.left = 0
      BY <1>1, Zenon DEF CallOK
    <3>5. call'.at # "none"
      BY <2>5
    <3>6. QED
      BY <2>6, <2>7, <3>2, <3>3, <3>4, <3>5, CallIsOK, Zenon
  <2>9. NoQueueIsBehind'
    BY <2>5 DEF NoQueueIsBehind
  <2>10. QueueInv' /\ Pending' = Pending
    BY <1>2, <1>5, <2>3, <2>7, <2>8, <2>9, CallProceeds
  <2>11. QED
    BY <2>3, <2>6, <2>10
<1>9. CASE SyncEnds
  <2>1. call.at \in {"sync", "last sync"}
    BY <1>9 DEF SyncEnds
  <2>2. /\ UNCHANGED currentCycle
        /\ call' = IF call.at = "sync" THEN [call EXCEPT !.at = "choose"] ELSE Idle
    BY <1>9 DEF SyncEnds
  <2>3. \A q \in Queue : localCycle[q] >= ToLocal(q, currentCycle)
    <3> TAKE q \in Queue
    <3>1. ~ (ToLocal(q, currentCycle) > localCycle[q])
      BY <1>9 DEF SyncEnds, Behind
    <3>2. ToLocal(q, currentCycle) \in Nat /\ localCycle[q] \in Nat
      BY <1>1, <1>5, PeriodFacts, BeginsBySync DEF ToLocal, QueueTypeOK
    <3>3. QED
      BY <3>1, <3>2
  <2>4. CASE call.at = "sync"
    <3>1. call' = [call EXCEPT !.at = "choose"]
      BY <2>2, <2>4
    <3>2. call' \in CallState
      BY <1>4, <3>1 DEF CallState
    <3>3. call'.at = "choose"
      BY <1>4, <3>1 DEF CallState
    <3>4. call'.left = call.left /\ call'.step = 0
      BY <1>3, <1>4, <3>1 DEF CallState
    <3>5. ~ InLoop' /\ call'.at \notin {"none", "last sync", "last loop"}
      BY <3>3 DEF InLoop
    <3>6. CallOK'
      BY <3>2, <3>4, <3>5, CallIsOK, Zenon
    <3>7. NoQueueIsBehind'
      BY <1>2, <2>2, <2>3 DEF NoQueueIsBehind, ToLocal
    <3>8. QueueInv' /\ Pending' = Pending
      BY <1>2, <1>5, <2>2, <3>2, <3>6, <3>7, CallProceeds
    <3>9. QED
      BY <2>2, <3>4, <3>8
  <2>5. CASE call.at = "last sync"
    <3>1. call' = Idle
      BY <2>2, <2>5
    <3>2. call' \in CallState
      BY <3>1, IdleIsACall
    <3>3. call'.at = "none"
      BY <3>1 DEF Idle
    <3>4. call'.left = 0 /\ call'.step = 0
      BY <3>1 DEF Idle
    <3>5. call.left = 0
      BY <1>1, <2>5, Zenon DEF CallOK
    <3>6. ~ InLoop' /\ call'.at \notin {"last sync", "last loop"}
      BY <3>3 DEF InLoop
    <3>7. CallOK'
      BY <3>1, <3>2, <3>4, <3>6, CallIsOK, Zenon
    <3>8. NoQueueIsBehind'
      BY <1>2, <2>2, <2>3 DEF NoQueueIsBehind, ToLocal
    <3>9. QueueInv' /\ Pending' = Pending
      BY <1>2, <1>5, <2>2, <3>2, <3>7, <3>8, CallProceeds
    <3>10. QED
      BY <2>2, <3>4, <3>5, <3>9
  <2>6. QED
    BY <2>1, <2>4, <2>5
<1>10. QED
  BY <1>6, <1>7, <1>8, <1>9

\* A queue has run to its goal: what it has left comes later.
LEMMA QueueHasRun ==
  ASSUME QueueInv, LoopReturns
  PROVE  /\ QueueInv' /\ Pending' = Pending
         /\ currentCycle' + call'.left = currentCycle + call.left
<1>1. QueueTypeOK /\ CallOK /\ EventsAreAhead /\ ClocksInStep
  BY DEF QueueInv
<1> DEFINE q == call.queue
<1>2. /\ q \in Queue /\ call.goal \in Nat /\ call.left \in Nat /\ call.step \in Nat
      /\ currentCycle \in Nat
  BY <1>1, CallFacts
<1>3. InLoop
  BY DEF LoopReturns, InLoop
<1>4. /\ ~ Until(NextOf(q), call.goal) /\ UNCHANGED due
      /\ localCycle' = [localCycle EXCEPT ![q] = call.goal]
  BY DEF LoopReturns
<1>5. /\ localCycle' \in [Queue -> Nat] /\ localCycle'[q] = call.goal
      /\ \A k \in Queue \ {q} : localCycle'[k] = localCycle[k]
  BY <1>1, <1>2, <1>4 DEF QueueTypeOK
<1>6. call \in CallState
  BY <1>1 DEF QueueTypeOK
<1>7. /\ currentCycle' = currentCycle + call.step
      /\ call'.left = call.left - call.step /\ call'.step = 0
  <2>1. CASE call.at = "loop"
    <3>1. /\ currentCycle' = currentCycle + call.step
          /\ call' = [call EXCEPT !.at = "sync", !.left = @ - call.step, !.step = 0]
      BY <2>1 DEF LoopReturns
    <3>2. QED
      BY <1>6, <3>1 DEF CallState
  <2>2. CASE call.at # "loop"
    <3>1. /\ call' = [call EXCEPT !.at = IF @ = "sync loop" THEN "sync" ELSE "last sync"]
          /\ UNCHANGED currentCycle
      BY <2>2 DEF LoopReturns
    <3>2. call.step = 0
      BY <1>1, <2>2, Zenon DEF CallOK
    <3>3. call'.left = call.left /\ call'.step = call.step
      BY <1>6, <3>1 DEF CallState
    <3>4. UNCHANGED currentCycle
      BY <3>1
    <3>5. QED
      BY <1>2, <3>2, <3>3, <3>4
  <2>3. QED
    BY <2>1, <2>2
<1>8. call'.at = IF call.at = "last loop" THEN "last sync" ELSE "sync"
  BY <1>3, <1>6 DEF LoopReturns, InLoop, CallState
<1>9. call.left - call.step \in Nat
  <2>1. call.step <= call.left
    BY <1>1, Zenon DEF CallOK
  <2>2. QED
    BY <1>2, <2>1
<1>10. call' \in CallState
  <2>1. CASE call.at = "loop"
    <3>1. call' = [call EXCEPT !.at = "sync", !.left = @ - call.step, !.step = 0]
      BY <2>1 DEF LoopReturns
    <3>2. QED
      BY <1>6, <1>9, <3>1 DEF CallState
  <2>2. CASE call.at # "loop"
    <3>1. call' = [call EXCEPT !.at = IF @ = "sync loop" THEN "sync" ELSE "last sync"]
      BY <2>2 DEF LoopReturns
    <3>2. QED
      BY <1>6, <3>1 DEF CallState
  <2>3. QED
    BY <2>1, <2>2
<1>11. currentCycle' \in Nat
  BY <1>2, <1>7
<1>12. QueueTypeOK' /\ Pending' = Pending
  BY <1>1, <1>4, <1>5, <1>10, <1>11 DEF QueueTypeOK, Pending
<1>13. CallOK'
  <2>1. CASE call.at = "last loop"
    <3>1. call.left = 0 /\ call.step = 0
      BY <1>1, <2>1, Zenon DEF CallOK
    <3>2. call'.left = 0 /\ call'.step = 0
      BY <1>7, <3>1
    <3>3. call'.at # "none" /\ ~ InLoop'
      BY <1>8, <2>1 DEF InLoop
    <3>4. QED
      BY <1>10, <3>2, <3>3, CallIsOK, Zenon
  <2>2. CASE call.at # "last loop"
    <3>1. call'.at \notin {"none", "last sync", "last loop"} /\ ~ InLoop'
      BY <1>8, <2>2 DEF InLoop
    <3>2. QED
      BY <1>7, <1>10, <3>1, CallIsOK, Zenon
  <2>3. QED
    BY <2>1, <2>2
<1>14. EventsAreAhead'
  <2> SUFFICES ASSUME NEW p \in Pending
               PROVE  /\ due[p].cycle >= localCycle'[due[p].queue]
                      /\ due[p].cycle # localCycle'[due[p].queue]
    BY <1>4, <1>12 DEF EventsAreAhead
  <2>1. due[p].queue \in Queue /\ due[p].cycle \in Nat
    BY <1>1, DueFacts DEF Pending
  <2>2. CASE due[p].queue = q
    <3>1. NextOf(q) # Never /\ NextOf(q) <= due[p].cycle /\ NextOf(q) \in Nat
      BY <1>1, <1>2, <2>2, NextOfProperties
    <3>2. ~ (NextOf(q) <= call.goal)
      BY <1>4, <3>1 DEF Until
    <3>3. QED
      BY <1>2, <1>5, <2>1, <2>2, <3>1, <3>2
  <2>3. CASE due[p].queue # q
    <3>1. localCycle'[due[p].queue] = localCycle[due[p].queue]
      BY <1>5, <2>1, <2>3
    <3>2. QED
      BY <1>1, <2>3, <3>1 DEF EventsAreAhead
  <2>4. QED
    BY <2>2, <2>3
<1>15. ClocksInStep'
  <2>1. NoQueueIsBehind'
    BY <1>8 DEF NoQueueIsBehind
  <2>2. \A k \in Queue : Towards(k)' = currentCycle + call.step
    BY <1>2, <1>7 DEF Towards
  <2> SUFFICES ASSUME NEW k \in Queue
               PROVE  (localCycle'[k] - 1) * Period[k][1] < (currentCycle + call.step) * Period[k][2]
    BY <2>1, <2>2 DEF ClocksInStep
  <2>3. CASE k = q
    <3>1. GoalIsInStep
      BY <1>1, <1>3, Zenon DEF CallOK
    <3>2. QED
      BY <1>5, <2>3, <3>1 DEF GoalIsInStep
  <2>4. CASE k # q
    <3>1. (localCycle'[k] - 1) * Period[k][1] < currentCycle * Period[k][2]
      <4>1. localCycle'[k] = localCycle[k] /\ Towards(k) = currentCycle
        BY <1>2, <1>5, <2>4 DEF Towards
      <4>2. QED
        BY <1>1, <4>1 DEF ClocksInStep
    <3>2. currentCycle * Period[k][2] <= (currentCycle + call.step) * Period[k][2]
      BY <1>2, PeriodFacts, Products
    <3>3. /\ (localCycle'[k] - 1) * Period[k][1] \in Int
          /\ currentCycle * Period[k][2] \in Int /\ (currentCycle + call.step) * Period[k][2] \in Int
      BY <1>2, <1>5, PeriodFacts
    <3>4. QED
      BY <3>1, <3>2, <3>3
  <2>5. QED
    BY <2>3, <2>4
<1>16. currentCycle' + call'.left = currentCycle + call.left
  BY <1>2, <1>7
<1>17. QED
  BY <1>12, <1>13, <1>14, <1>15, <1>16 DEF QueueInv

\* What the steps of Cycle do to the requests and to the cycles still to come.
LEMMA QueueSteps ==
  ASSUME QueueInv, QueueStep \/ CycleReturns
  PROVE  /\ QueueInv' /\ Pending' = Pending
         /\ currentCycle' + call'.left = currentCycle + call.left
         /\ CycleReturns => call' = Idle /\ UNCHANGED <<currentCycle, localCycle, due>>
<1>1. CycleReturns => call' = Idle /\ UNCHANGED <<currentCycle, localCycle, due>>
  BY DEF CycleReturns, SyncEnds
<1>2. CASE NoMoreEvents \/ ChooseQueue \/ Sync \/ SyncEnds
  BY <1>1, <1>2, CycleProceeds
<1>3. CASE LoopReturns
  BY <1>1, <1>3, QueueHasRun
<1>4. CASE \E r \in Request : GoesOn(r)
  BY <1>1, <1>4, EventRuns
<1>5. QED
  BY <1>2, <1>3, <1>4 DEF QueueStep, CycleReturns

LEMMA QueuesRest ==
  ASSUME QueueInv, UNCHANGED queueVars
  PROVE  QueueInv' /\ Pending' = Pending
<1>1. UNCHANGED currentCycle /\ UNCHANGED localCycle /\ UNCHANGED due /\ UNCHANGED call
  BY DEF queueVars
<1>2. QueueTypeOK' /\ Pending' = Pending
  BY <1>1 DEF QueueInv, QueueTypeOK, Pending
<1>3. EventsAreAhead' /\ CallOK'
  BY <1>1 DEF QueueInv, EventsAreAhead, CallOK, GoalIsInStep, InLoop, Pending, Idle
<1>4. ClocksInStep'
  BY <1>1 DEF QueueInv, ClocksInStep, NoQueueIsBehind, Towards, ToLocal
<1>5. QED
  BY <1>2, <1>3, <1>4 DEF QueueInv

LEMMA InStepOutsideCycle == QueueInv => QueuesAreInStep
<1> SUFFICES ASSUME QueueInv, QueuesIdle
             PROVE  /\ GetNextEvent # Never => GetNextEvent >= currentCycle
                    /\ \A q \in Queue :
                         /\ localCycle[q] >= ToLocal(q, currentCycle)
                         /\ (localCycle[q] - 1) * Period[q][1] < currentCycle * Period[q][2]
  BY DEF QueuesAreInStep
<1>1. call.at = "none"
  BY DEF QueuesIdle, Idle
<1>2. call.step = 0
  BY DEF QueuesIdle, Idle
<1>3. ~ InLoop /\ \A q \in Queue : localCycle[q] >= ToLocal(q, currentCycle)
  BY <1>1 DEF QueueInv, ClocksInStep, NoQueueIsBehind, InLoop
<1>4. GetNextEvent # Never => GetNextEvent >= currentCycle
  BY <1>3, NoEventInThePast
<1>5. currentCycle \in Nat
  BY CallFacts DEF QueueInv
<1>6. \A q \in Queue : Towards(q) = currentCycle
  BY <1>2, <1>5 DEF Towards
<1>7. QED
  BY <1>3, <1>4, <1>6 DEF QueueInv, ClocksInStep
-----------------------------------------------------------------------------
(* The trace simulator agrees with the memory.                             *)

LEMMA PendingIsFinite ==
  /\ Pending \subseteq Request /\ IsFiniteSet(Request)
  /\ IsFiniteSet(Pending) /\ Cardinality(Pending) \in Nat
<1>1. Pending \subseteq Request
  BY DEF Pending
<1>2. IsFiniteSet(Request)
  BY GlobalEventQueueAssumption, FS_Interval DEF Request
<1>3. QED
  BY <1>1, <1>2, FS_Subset, FS_CardinalityType

\* The counts that follow when a request enters or leaves.
LEMMA PendingCounts ==
  ASSUME NEW r
  PROVE  /\ r \notin Pending => Cardinality(Pending \cup {r}) = Cardinality(Pending) + 1
         /\ r \in Pending => Cardinality(Pending) = Cardinality(Pending \ {r}) + 1
         /\ Cardinality(Pending \ {r}) \in Nat
<1>1. IsFiniteSet(Pending) /\ Cardinality(Pending) \in Nat
  BY PendingIsFinite
<1>2. IsFiniteSet(Pending \ {r})
  BY <1>1, FS_RemoveElement
<1>3. Cardinality(Pending \ {r}) \in Nat
  BY <1>2, FS_CardinalityType
<1>4. Cardinality(Pending \cup {r}) = IF r \in Pending THEN Cardinality(Pending) ELSE Cardinality(Pending) + 1
  BY <1>1, FS_AddElement, Zenon
<1>5. Cardinality(Pending \ {r}) = IF r \in Pending THEN Cardinality(Pending) - 1 ELSE Cardinality(Pending)
  BY <1>1, FS_RemoveElement, Zenon
<1>6. QED
  BY <1>1, <1>3, <1>4, <1>5

LEMMA TraceSteps ==
  ASSUME QueueInv, TraceTypeOK, TraceInv, TraceStep
  PROVE  QueueInv' /\ TraceTypeOK' /\ TraceInv'
<1>. SUFFICES ASSUME ClockAgrees, LimitIsAhead, LinesWereRead, CountAgrees
              PROVE  QueueInv' /\ TraceTypeOK' /\ ClockAgrees' /\ LimitIsAhead' /\ LinesWereRead' /\ CountAgrees'
  BY DEF TraceInv
<1>1. /\ simulateCycles \in SimulateCycles /\ simulateCycles \in Nat
      /\ traceCycle \in Nat /\ line \in Nat /\ line <= Len(Trace) /\ Len(Trace) \in Nat
      /\ outstandingRequests \in Nat
  BY TraceMainAssumption DEF TraceTypeOK
<1>2. at \in {"read", "wait", "waited", "issue", "stalled", "drain", "done"}
  BY DEF TraceTypeOK
<1>3. currentCycle \in Nat
  BY CallFacts DEF QueueInv
<1>4. QueuesIdle => call.left = 0
  BY DEF QueuesIdle, Idle
<1>5. Cardinality(Pending) \in Nat
  BY PendingIsFinite
<1>6. CASE GetNextAccess
  <2>1. /\ at = "read" /\ at' = "wait" /\ line' = line + 1 /\ MoreTime /\ line < Len(Trace)
        /\ UNCHANGED <<simulateCycles, traceCycle, outstandingRequests>>
    BY <1>6 DEF GetNextAccess, Goes
  <2>2. QueueInv' /\ Pending' = Pending /\ UNCHANGED <<currentCycle, call>>
    BY <1>6, QueuesRest DEF GetNextAccess, queueVars
  <2>3. TraceTypeOK' /\ LimitIsAhead'
    BY <1>1, <2>1 DEF TraceTypeOK, LimitIsAhead, MoreTime, Limited
  <2>4. ClockAgrees' /\ CountAgrees'
    BY <2>1, <2>2 DEF ClockAgrees, CountAgrees
  <2>5. LinesWereRead'
    BY <1>1, <2>1, <2>2 DEF LinesWereRead
  <2>6. QED
    BY <2>2, <2>3, <2>4, <2>5
<1>7. CASE EndOfTrace
  <2>1. /\ at = "read" /\ at' \in {"drain", "done"}
        /\ UNCHANGED <<simulateCycles, traceCycle, line, outstandingRequests>>
    BY <1>7 DEF EndOfTrace, Goes
  <2>2. QueueInv' /\ Pending' = Pending /\ UNCHANGED <<currentCycle, call>>
    BY <1>7, QueuesRest DEF EndOfTrace, queueVars
  <2>3. TraceTypeOK' /\ LimitIsAhead' /\ ClockAgrees' /\ CountAgrees' /\ LinesWereRead'
    BY <1>1, <2>1, <2>2 DEF TraceTypeOK, LimitIsAhead, ClockAgrees, CountAgrees, LinesWereRead
  <2>4. QED
    BY <2>2, <2>3
<1>8. CASE SimulateTheRest
  <2>1. /\ at = "wait" /\ at' = "done" /\ Limited /\ QueuesIdle
        /\ traceCycle' = simulateCycles /\ Cycle(simulateCycles - traceCycle)
        /\ UNCHANGED <<simulateCycles, line, outstandingRequests>>
        /\ UNCHANGED <<currentCycle, localCycle, due>>
    BY <1>8 DEF SimulateTheRest, Goes
  <2>2. simulateCycles - traceCycle \in Nat /\ traceCycle = currentCycle
    BY <1>1, <1>3, <1>4, <2>1 DEF LimitIsAhead, ClockAgrees
  <2>3. QueueInv' /\ call'.left = simulateCycles - traceCycle /\ Pending' = Pending
    BY <2>1, <2>2, CycleBegins
  <2>4. ClockAgrees'
    BY <1>1, <2>1, <2>2, <2>3 DEF ClockAgrees
  <2>5. TraceTypeOK' /\ LimitIsAhead' /\ CountAgrees' /\ LinesWereRead'
    BY <1>1, <2>1, <2>3 DEF TraceTypeOK, LimitIsAhead, CountAgrees, LinesWereRead
  <2>6. QED
    BY <2>3, <2>4, <2>5
<1>9. CASE WaitForItsCycle
  <2>1. /\ at = "wait" /\ QueuesIdle
        /\ UNCHANGED <<simulateCycles, traceCycle, line, outstandingRequests>>
        /\ UNCHANGED <<currentCycle, localCycle, due>>
    BY <1>9 DEF WaitForItsCycle
  <2>2. Trace[line] \in Nat
    BY <1>1, <2>1, TraceMainAssumption DEF LinesWereRead
  <2>3. QueueInv' /\ Pending' = Pending
        /\ \/ at' = "waited"
           \/ at' = "issue" /\ UNCHANGED call
    <3>1. CASE Trace[line] > traceCycle
      <4>1. Cycle(Trace[line] - traceCycle) /\ at' = "waited"
        BY <1>9, <3>1 DEF WaitForItsCycle, Goes
      <4>2. Trace[line] - traceCycle \in Nat
        BY <1>1, <2>2, <3>1
      <4>3. QED
        BY <2>1, <4>1, <4>2, CycleBegins
    <3>2. CASE ~ (Trace[line] > traceCycle)
      <4>1. at' = "issue" /\ UNCHANGED call
        BY <1>9, <3>2 DEF WaitForItsCycle, Goes
      <4>2. QED
        BY <2>1, <4>1, QueuesRest DEF queueVars
    <3>3. QED
      BY <3>1, <3>2
  <2>4. ClockAgrees'
    BY <2>1, <2>3 DEF ClockAgrees
  <2>5. TraceTypeOK' /\ LimitIsAhead' /\ CountAgrees' /\ LinesWereRead'
    BY <1>1, <2>1, <2>3 DEF TraceTypeOK, LimitIsAhead, CountAgrees, LinesWereRead
  <2>6. QED
    BY <2>3, <2>4, <2>5
<1>10. CASE Waited \/ Stalled
  <2>1. /\ at \in {"waited", "stalled"} /\ at' \in {"issue", "done"} /\ QueuesIdle
        /\ traceCycle' = currentCycle
        /\ UNCHANGED <<simulateCycles, line, outstandingRequests>>
    BY <1>10 DEF Waited, Stalled, Goes, GoesUnlessOver
  <2>2. QueueInv' /\ Pending' = Pending /\ UNCHANGED <<currentCycle, call>>
    BY <1>10, QueuesRest DEF Waited, Stalled, queueVars
  <2>3. ClockAgrees'
    BY <1>3, <1>4, <2>1, <2>2 DEF ClockAgrees
  <2>4. TraceTypeOK' /\ LimitIsAhead' /\ CountAgrees' /\ LinesWereRead'
    BY <1>1, <1>3, <2>1, <2>2 DEF TraceTypeOK, LimitIsAhead, CountAgrees, LinesWereRead
  <2>5. QED
    BY <2>2, <2>3, <2>4
<1>11. CASE Stall
  <2>1. /\ at = "issue" /\ at' = "stalled" /\ Cycle(1)
        /\ UNCHANGED <<simulateCycles, traceCycle, line, outstandingRequests>>
        /\ UNCHANGED <<currentCycle, localCycle, due>>
    BY <1>11 DEF Stall, Goes
  <2>2. QueueInv' /\ Pending' = Pending
    BY <2>1, CycleBegins
  <2>3. TraceTypeOK' /\ LimitIsAhead' /\ ClockAgrees' /\ CountAgrees' /\ LinesWereRead'
    BY <1>1, <2>1, <2>2 DEF TraceTypeOK, LimitIsAhead, ClockAgrees, CountAgrees, LinesWereRead
  <2>4. QED
    BY <2>2, <2>3
<1>12. CASE Issue
  <2>1. /\ at = "issue" /\ at' \in {"read", "done"}
        /\ Limited /\ traceCycle >= simulateCycles => at' = "done"
        /\ outstandingRequests' = outstandingRequests + 1
        /\ UNCHANGED <<simulateCycles, traceCycle, line>>
        /\ UNCHANGED <<currentCycle, localCycle, call>>
    BY <1>12 DEF Issue, Goes, GoesUnlessOver
  <2>2. line \in Request /\ line \in 1 .. line /\ line \notin Pending
    BY <1>1, <2>1, TraceMainAssumption, GlobalEventQueueAssumption DEF LinesWereRead, Request
  <2>3. outstandingRequests = Cardinality(Pending)
    BY <2>1 DEF CountAgrees
  <2>4. CASE HasRoom
    <3>1. \E latency \in Latency : due' = Entering(line, 1, latency)
      BY <1>12, <2>4 DEF Issue
    <3>2. QueueInv' /\ Pending' = Pending \cup {line}
      BY <2>1, <2>2, <3>1, EventEnters
    <3>3. CountAgrees'
      BY <2>1, <2>2, <2>3, <3>2, PendingCounts DEF CountAgrees
    <3>4. TraceTypeOK' /\ LimitIsAhead' /\ ClockAgrees' /\ LinesWereRead'
      BY <1>1, <2>1, <2>2, <3>2 DEF TraceTypeOK, LimitIsAhead, ClockAgrees, LinesWereRead
    <3>5. QED
      BY <3>2, <3>3, <3>4
  <2>5. CASE ~ HasRoom
    <3>1. UNCHANGED due /\ Limited /\ traceCycle >= simulateCycles
      BY <1>12, <2>5 DEF Issue
    <3>2. QueueInv' /\ Pending' = Pending
      BY <2>1, <3>1, QueuesRest DEF queueVars
    <3>3. CountAgrees'
      BY <2>1, <2>3, <3>1, <3>2 DEF CountAgrees, Limited
    <3>4. TraceTypeOK' /\ LimitIsAhead' /\ ClockAgrees' /\ LinesWereRead'
      BY <1>1, <2>1, <2>2, <3>2 DEF TraceTypeOK, LimitIsAhead, ClockAgrees, LinesWereRead
    <3>5. QED
      BY <3>2, <3>3, <3>4
  <2>6. QED
    BY <2>4, <2>5
<1>13. CASE DrainOrEnd
  <2>1. /\ at = "drain" /\ QueuesIdle
        /\ UNCHANGED <<simulateCycles, line, outstandingRequests>>
        /\ UNCHANGED <<currentCycle, localCycle, due>>
    BY <1>13 DEF DrainOrEnd
  <2>2. CASE outstandingRequests > 0
    <3>1. Cycle(1) /\ traceCycle' = traceCycle + 1 /\ UNCHANGED at
      BY <1>13, <2>2 DEF DrainOrEnd
    <3>2. QueueInv' /\ call'.left = 1 /\ Pending' = Pending
      BY <2>1, <3>1, CycleBegins
    <3>3. ClockAgrees'
      BY <1>3, <1>4, <2>1, <3>1, <3>2 DEF ClockAgrees
    <3>4. TraceTypeOK' /\ LimitIsAhead' /\ CountAgrees' /\ LinesWereRead'
      BY <1>1, <2>1, <3>1, <3>2 DEF TraceTypeOK, LimitIsAhead, CountAgrees, LinesWereRead
    <3>5. QED
      BY <3>2, <3>3, <3>4
  <2>3. CASE ~ (outstandingRequests > 0)
    <3>1. at' = "done" /\ UNCHANGED call /\ UNCHANGED traceCycle
      BY <1>13, <2>3 DEF DrainOrEnd, Goes
    <3>2. QueueInv' /\ Pending' = Pending
      BY <2>1, <3>1, QueuesRest DEF queueVars
    <3>3. TraceTypeOK' /\ LimitIsAhead' /\ ClockAgrees' /\ CountAgrees' /\ LinesWereRead'
      BY <1>1, <2>1, <3>1, <3>2 DEF TraceTypeOK, LimitIsAhead, ClockAgrees, CountAgrees, LinesWereRead
    <3>4. QED
      BY <3>2, <3>3
  <2>4. QED
    BY <2>2, <2>3
<1>14. CASE (QueueStep \/ CycleReturns) /\ UNCHANGED traceVars
  <2>1. /\ QueueInv' /\ Pending' = Pending
        /\ currentCycle' + call'.left = currentCycle + call.left
    BY <1>14, QueueSteps
  <2>2. UNCHANGED at /\ UNCHANGED <<simulateCycles, traceCycle, line, outstandingRequests>>
    BY <1>14 DEF traceVars
  <2>3. TraceTypeOK' /\ LimitIsAhead' /\ ClockAgrees' /\ CountAgrees' /\ LinesWereRead'
    BY <2>1, <2>2 DEF TraceTypeOK, LimitIsAhead, ClockAgrees, CountAgrees, LinesWereRead, Limited
  <2>4. QED
    BY <2>1, <2>3
<1>15. CASE \E r \in Request : RequestComplete(r)
  <2>1. PICK r \in Request : RequestComplete(r)
    BY <1>15
  <2>2. /\ UNCHANGED at /\ UNCHANGED <<simulateCycles, traceCycle, line>>
        /\ outstandingRequests' = outstandingRequests - 1 /\ Completes(r)
    BY <2>1 DEF RequestComplete
  <2>3. /\ QueueInv' /\ UNCHANGED <<currentCycle, call>>
        /\ r \in Pending /\ Pending' = Pending \ {r}
    BY <2>2, EventRuns
  <2>4. Cardinality(Pending) = Cardinality(Pending') + 1 /\ Cardinality(Pending') \in Nat
    BY <2>3, PendingCounts
  <2>5. CountAgrees' /\ outstandingRequests' \in Nat
    BY <1>1, <2>2, <2>4 DEF CountAgrees, Limited
  <2>6. TraceTypeOK' /\ LimitIsAhead' /\ ClockAgrees' /\ LinesWereRead'
    BY <2>2, <2>3, <2>5 DEF TraceTypeOK, LimitIsAhead, ClockAgrees, LinesWereRead, Limited
  <2>7. QED
    BY <2>3, <2>5, <2>6
<1>16. QED
  BY <1>6, <1>7, <1>8, <1>9, <1>10, <1>11, <1>12, <1>13, <1>14, <1>15 DEF TraceStep
-----------------------------------------------------------------------------
(* gem5's memory: the packets.                                             *)

Packet == [kind : Kinds, state : PacketStates, instance : Instance]

LEMMA FreedFacts ==
  ASSUME NEW ps \in [Request -> Packet], NEW i
  PROVE  /\ Freed(ps, i) \in [Request -> Packet]
         /\ \A q \in Request :
              /\ Freed(ps, i)[q].instance = ps[q].instance
              /\ \A s \in {"waiting", "responding", "issued"} : Freed(ps, i)[q].state = s <=> ps[q].state = s
BY DEF Freed, Packet, PacketStates

LEMMA RetriedFacts ==
  ASSUME NEW ps \in [Request -> Packet], NEW R
  PROVE  /\ Retried(ps, R) \in [Request -> Packet]
         /\ \A q \in Request :
              /\ Retried(ps, R)[q].instance = ps[q].instance
              /\ \A s \in {"responding", "issued"} : Retried(ps, R)[q].state = s <=> ps[q].state = s
              /\ Retried(ps, R)[q].state = "waiting" => ps[q].state = "waiting" /\ ps[q].instance \notin R
BY DEF Retried, Packet, PacketStates

LEMMA BecomesFacts ==
  ASSUME NEW ps \in [Request -> Packet], NEW p \in Request, NEW i \in Instance, NEW state \in PacketStates
  PROVE  /\ Becomes(ps, p, i, state) \in [Request -> Packet]
         /\ Becomes(ps, p, i, state)[p].state = state
         /\ Becomes(ps, p, i, state)[p].instance = i
         /\ \A q \in Request \ {p} : Becomes(ps, p, i, state)[q] = ps[q]
BY DEF Becomes, Packet

\* A step leaves a packet where it is, for the response queues and for the map.
Stays(q) ==
  /\ packets'[q].instance = packets[q].instance
  /\ packets'[q].state = "responding" <=> packets[q].state = "responding"
  /\ packets'[q].state = "issued" <=> packets[q].state = "issued"

\* The packets after p was received ...
LEMMA ReceivedFacts ==
  ASSUME packets \in [Request -> Packet], NEW p \in Request, NEW i \in Instance, NEW state \in PacketStates,
         packets' = Becomes(Freed(packets, i), p, i, state)
  PROVE  /\ packets' \in [Request -> Packet]
         /\ packets'[p].state = state /\ packets'[p].instance = i
         /\ \A q \in Request \ {p} : Stays(q) /\ (packets'[q].state = "waiting" <=> packets[q].state = "waiting")
<1>1. Freed(packets, i) \in [Request -> Packet]
  BY FreedFacts
<1>2. /\ packets' \in [Request -> Packet]
      /\ packets'[p].state = state /\ packets'[p].instance = i
      /\ \A q \in Request \ {p} : packets'[q] = Freed(packets, i)[q]
  BY <1>1, BecomesFacts
<1>3. \A q \in Request \ {p} : Stays(q) /\ (packets'[q].state = "waiting" <=> packets[q].state = "waiting")
  BY <1>2, FreedFacts DEF Stays
<1>4. QED
  BY <1>2, <1>3

\* ... and when a retry was sent to everybody who was promised one.
LEMMA ReceivedAndRetriedFacts ==
  ASSUME packets \in [Request -> Packet], NEW p \in Request, NEW i \in Instance, NEW state \in PacketStates,
         RetriesAreOwed, packets' = Becomes(Retried(Freed(packets, i), retry), p, i, state)
  PROVE  /\ packets' \in [Request -> Packet]
         /\ packets'[p].state = state /\ packets'[p].instance = i
         /\ \A q \in Request \ {p} : Stays(q) /\ packets'[q].state # "waiting"
<1> DEFINE freed == Freed(packets, i)
           retried == Retried(freed, retry)
<1>1. /\ freed \in [Request -> Packet]
      /\ \A q \in Request :
           /\ freed[q].instance = packets[q].instance
           /\ \A s \in {"waiting", "responding", "issued"} : freed[q].state = s <=> packets[q].state = s
  BY FreedFacts
<1> HIDE DEF freed
<1>2. /\ retried \in [Request -> Packet]
      /\ \A q \in Request :
           /\ retried[q].instance = freed[q].instance
           /\ \A s \in {"responding", "issued"} : retried[q].state = s <=> freed[q].state = s
           /\ retried[q].state = "waiting" => freed[q].state = "waiting" /\ freed[q].instance \notin retry
  BY <1>1, RetriedFacts
<1>3. packets' = Becomes(retried, p, i, state)
  BY DEF freed
<1> HIDE DEF retried
<1>4. /\ packets' \in [Request -> Packet]
      /\ packets'[p].state = state /\ packets'[p].instance = i
      /\ \A q \in Request \ {p} : packets'[q] = retried[q]
  BY <1>2, <1>3, BecomesFacts
<1>5. \A q \in Request \ {p} : Stays(q)
  BY <1>1, <1>2, <1>4 DEF Stays
<1>6. \A q \in Request \ {p} : packets'[q].state # "waiting"
  BY <1>1, <1>2, <1>4 DEF RetriesAreOwed
<1>7. QED
  BY <1>4, <1>5, <1>6
-----------------------------------------------------------------------------
(* gem5's memory: the responses.                                           *)

ResponseTypeOK ==
  /\ retryResp \subseteq Instance
  /\ responseQueue \in [Instance -> Seq(Request)]
  /\ respondEvent \in [Instance -> Nat \cup {Never}]

LEMMA NeverIsNoTick == Never \notin Nat
BY GlobalEventQueueAssumption

LEMMA ResponsesRest ==
  ASSUME ResponseTypeOK, ResponsesAreSent, QueuesHold, UNCHANGED responseVars,
         \A q \in Request : packets[q].state = "responding" => Stays(q)
  PROVE  ResponseTypeOK' /\ ResponsesAreSent' /\ QueuesHold'
<1>1. UNCHANGED responseQueue /\ UNCHANGED respondEvent /\ UNCHANGED retryResp
  BY DEF responseVars
<1>2. ResponseTypeOK' /\ ResponsesAreSent'
  BY <1>1 DEF ResponseTypeOK, ResponsesAreSent
<1>3. \A i \in Instance : \A k \in 1 .. Len(responseQueue[i]) : responseQueue[i][k] \in Request
  BY DEF ResponseTypeOK
<1>4. QueuesHold'
  BY <1>1, <1>3 DEF QueuesHold, Stays
<1>5. QED
  BY <1>2, <1>4

\* A response enters the queue of its instance.
LEMMA ResponseEnters ==
  ASSUME ResponseTypeOK, ResponsesAreSent, QueuesHold, curTick \in Nat,
         NEW p \in Request, NEW i \in Instance, Respond(p, i),
         packets[p].state # "responding", packets'[p].state = "responding", packets'[p].instance = i,
         \A q \in Request \ {p} : Stays(q)
  PROVE  ResponseTypeOK' /\ ResponsesAreSent' /\ QueuesHold'
<1>1. /\ responseQueue' = [responseQueue EXCEPT ![i] = Append(@, p)] /\ UNCHANGED retryResp
      /\ respondEvent' = [respondEvent EXCEPT ![i] = IF @ = Never THEN curTick + 1 ELSE @]
  BY DEF Respond, ScheduleResponse
<1>2. /\ responseQueue[i] \in Seq(Request) /\ Len(responseQueue[i]) \in Nat
      /\ responseQueue'[i] = Append(responseQueue[i], p) /\ responseQueue'[i] \in Seq(Request)
      /\ responseQueue' \in [Instance -> Seq(Request)]
      /\ \A j \in Instance \ {i} : responseQueue'[j] = responseQueue[j]
  BY <1>1 DEF ResponseTypeOK
<1>3. /\ respondEvent' \in [Instance -> Nat \cup {Never}]
      /\ respondEvent'[i] # Never
      /\ \A j \in Instance \ {i} : respondEvent'[j] = respondEvent[j]
  BY <1>1, NeverIsNoTick DEF ResponseTypeOK
<1>4. Append(responseQueue[i], p) # <<>>
  BY <1>2
<1>5. ResponseTypeOK' /\ ResponsesAreSent'
  BY <1>1, <1>2, <1>3, <1>4 DEF ResponseTypeOK, ResponsesAreSent
<1>6. \A j \in Instance : \A k \in 1 .. Len(responseQueue[j]) :
        responseQueue[j][k] \in Request /\ responseQueue[j][k] # p
  BY DEF ResponseTypeOK, QueuesHold
<1>7. ASSUME NEW j \in Instance, NEW k \in 1 .. Len(responseQueue'[j])
      PROVE  /\ packets'[responseQueue'[j][k]].state = "responding"
             /\ packets'[responseQueue'[j][k]].instance = j
             /\ \A l \in 1 .. Len(responseQueue'[j]) : responseQueue'[j][l] = responseQueue'[j][k] => l = k
  <2>1. CASE j # i
    <3>1. responseQueue'[j] = responseQueue[j]
      BY <1>2, <2>1
    <3>2. k \in 1 .. Len(responseQueue[j])
      BY <3>1
    <3>3. responseQueue[j][k] \in Request \ {p}
      BY <1>6, <3>2
    <3>4. Stays(responseQueue[j][k])
      BY <3>3
    <3>5. /\ packets[responseQueue[j][k]].state = "responding"
          /\ packets[responseQueue[j][k]].instance = j
          /\ \A l \in 1 .. Len(responseQueue[j]) : responseQueue[j][l] = responseQueue[j][k] => l = k
      BY <3>2 DEF QueuesHold
    <3>6. QED
      BY <3>1, <3>4, <3>5 DEF Stays
  <2>2. CASE j = i
    <3> DEFINE n == Len(responseQueue[i])
    <3>1. /\ n \in Nat /\ Len(responseQueue'[i]) = n + 1 /\ responseQueue'[i][n + 1] = p
          /\ \A l \in 1 .. n : responseQueue'[i][l] = responseQueue[i][l]
      BY <1>2
    <3> HIDE DEF n
    <3>2. \A l \in 1 .. n :
            /\ responseQueue[i][l] # p /\ responseQueue[i][l] \in Request
            /\ packets[responseQueue[i][l]].state = "responding"
            /\ packets[responseQueue[i][l]].instance = i
            /\ \A m \in 1 .. n : responseQueue[i][m] = responseQueue[i][l] => m = l
      BY <1>6 DEF QueuesHold, n
    <3>3. \A l \in 1 .. n + 1 : l = n + 1 \/ l \in 1 .. n
      BY <3>1
    <3>4. k \in 1 .. n + 1
      BY <2>2, <3>1
    <3>5. CASE k = n + 1
      BY <2>2, <3>1, <3>2, <3>3, <3>5
    <3>6. CASE k \in 1 .. n
      BY <2>2, <3>1, <3>2, <3>3, <3>6 DEF Stays
    <3>7. QED
      BY <3>3, <3>4, <3>5, <3>6
  <2>3. QED
    BY <2>1, <2>2
<1>8. QueuesHold'
  BY <1>7 DEF QueuesHold
<1>9. QED
  BY <1>5, <1>8

LEMMA HeadAndTail ==
  ASSUME NEW S, NEW s \in Seq(S), s # <<>>
  PROVE  /\ Len(s) \in Nat /\ Len(s) > 0 /\ Head(s) \in S /\ Head(s) = s[1]
         /\ Tail(s) \in Seq(S) /\ Len(Tail(s)) = Len(s) - 1
         /\ \A k \in 1 .. Len(s) - 1 : Tail(s)[k] = s[k + 1]
         /\ Len(s) > 1 <=> Tail(s) # <<>>
<1>1. Len(s) \in Nat /\ Len(s) > 0
  OBVIOUS
<1>2. Head(s) \in S /\ Head(s) = s[1]
  BY <1>1
<1>3. Tail(s) \in Seq(S) /\ Len(Tail(s)) = Len(s) - 1
  BY <1>1
<1>4. \A k \in 1 .. Len(s) - 1 : Tail(s)[k] = s[k + 1]
  BY <1>1
<1>5. Len(s) > 1 <=> Tail(s) # <<>>
  <2>1. Tail(s) = <<>> <=> Len(Tail(s)) = 0
    BY <1>3, EmptySeq
  <2> DEFINE t == Tail(s)
             n == Len(s)
             m == Len(t)
  <2>2. n \in Nat /\ n > 0 /\ m = n - 1 /\ (t = <<>> <=> m = 0)
    BY <1>1, <1>3, <2>1
  <2> HIDE DEF t, n, m
  <2>3. n > 1 <=> m # 0
    BY <2>2
  <2>4. n > 1 <=> t # <<>>
    BY <2>2, <2>3, Zenon
  <2>5. QED
    BY <2>4 DEF n, t
<1>6. QED
  BY <1>1, <1>2, <1>3, <1>4, <1>5

\* The peer takes the first response.
LEMMA ResponseIsTaken ==
  ASSUME ResponseTypeOK, ResponsesAreSent, QueuesHold, curTick \in Nat, packets \in [Request -> Packet],
         NEW i \in Instance, responseQueue[i] # <<>>, Taken(i)
  PROVE  /\ ResponseTypeOK' /\ ResponsesAreSent' /\ QueuesHold'
         /\ packets' \in [Request -> Packet]
         /\ \A q \in Request :
              /\ packets'[q].instance = packets[q].instance
              /\ \A s \in {"waiting", "issued"} : packets'[q].state = s <=> packets[q].state = s
<1> DEFINE h == Head(responseQueue[i])
           n == Len(responseQueue[i])
<1>1. responseQueue[i] \in Seq(Request)
  BY DEF ResponseTypeOK
<1>2. /\ n \in Nat /\ n > 0 /\ h \in Request /\ h = responseQueue[i][1]
      /\ Tail(responseQueue[i]) \in Seq(Request) /\ Len(Tail(responseQueue[i])) = n - 1
      /\ \A k \in 1 .. n - 1 : Tail(responseQueue[i])[k] = responseQueue[i][k + 1]
      /\ n > 1 <=> Tail(responseQueue[i]) # <<>>
  BY <1>1, HeadAndTail, Zenon
<1>3. /\ packets' = [packets EXCEPT ![h].state = "answered"]
      /\ responseQueue' = [responseQueue EXCEPT ![i] = Tail(@)]
      /\ respondEvent' = [respondEvent EXCEPT ![i] =
                            IF @ \in {curTick, Never} THEN IF n > 1 THEN curTick + 1 ELSE Never ELSE @]
      /\ retryResp' = retryResp \ {i}
  BY DEF Taken
<1> HIDE DEF h, n
<1>4. /\ responseQueue' \in [Instance -> Seq(Request)]
      /\ responseQueue'[i] = Tail(responseQueue[i])
      /\ \A j \in Instance \ {i} : responseQueue'[j] = responseQueue[j]
  BY <1>2, <1>3 DEF ResponseTypeOK
<1>5. /\ respondEvent' \in [Instance -> Nat \cup {Never}]
      /\ n > 1 => respondEvent'[i] # Never
      /\ \A j \in Instance \ {i} : respondEvent'[j] = respondEvent[j]
  BY <1>3, NeverIsNoTick DEF ResponseTypeOK
<1>6. ResponseTypeOK' /\ ResponsesAreSent'
  BY <1>2, <1>3, <1>4, <1>5 DEF ResponseTypeOK, ResponsesAreSent
<1>7. /\ packets' \in [Request -> Packet] /\ packets'[h].state = "answered"
      /\ packets'[h].instance = packets[h].instance
      /\ \A q \in Request \ {h} : packets'[q] = packets[q]
  BY <1>2, <1>3 DEF Packet, PacketStates
<1>8. packets[h].state = "responding" /\ packets[h].instance = i
  BY <1>2 DEF QueuesHold, n
<1>9. ASSUME NEW j \in Instance, NEW k \in 1 .. Len(responseQueue'[j])
      PROVE  /\ packets'[responseQueue'[j][k]].state = "responding"
             /\ packets'[responseQueue'[j][k]].instance = j
             /\ \A l \in 1 .. Len(responseQueue'[j]) : responseQueue'[j][l] = responseQueue'[j][k] => l = k
  <2>1. CASE j # i
    <3>1. responseQueue[j][k] \in Request /\ packets[responseQueue[j][k]].instance = j
      BY <1>4, <2>1 DEF QueuesHold, ResponseTypeOK
    <3>2. responseQueue[j][k] # h
      BY <1>8, <2>1, <3>1
    <3>3. QED
      BY <1>4, <1>7, <2>1, <3>1, <3>2 DEF QueuesHold
  <2>2. CASE j = i
    <3>1. k \in 1 .. n - 1 /\ Len(responseQueue'[i]) = n - 1
      BY <1>2, <1>4, <2>2
    <3>2. \A l \in 1 .. n - 1 : l + 1 \in 1 .. n /\ l + 1 # 1
      BY <1>2
    <3>3. \A l \in 1 .. n - 1 : responseQueue'[i][l] = responseQueue[i][l + 1]
      BY <1>2, <1>4
    <3>4. \A l \in 1 .. n : \A m \in 1 .. n : responseQueue[i][m] = responseQueue[i][l] => m = l
      BY DEF QueuesHold, n
    <3>5. \A l \in 1 .. n - 1 :
            /\ responseQueue[i][l + 1] # h /\ responseQueue[i][l + 1] \in Request
            /\ packets[responseQueue[i][l + 1]].state = "responding"
            /\ packets[responseQueue[i][l + 1]].instance = i
      BY <1>1, <1>2, <3>2, <3>4 DEF QueuesHold, n
    <3>6. \A l \in 1 .. n - 1 : responseQueue'[i][l] = responseQueue'[i][k] => l = k
      BY <3>1, <3>2, <3>3, <3>4
    <3>7. QED
      BY <1>7, <2>2, <3>1, <3>3, <3>5, <3>6
  <2>3. QED
    BY <2>1, <2>2
<1>10. QueuesHold'
  BY <1>9 DEF QueuesHold
<1>11. \A q \in Request :
         /\ packets'[q].instance = packets[q].instance
         /\ \A s \in {"waiting", "issued"} : packets'[q].state = s <=> packets[q].state = s
  BY <1>7, <1>8
<1>12. QED
  BY <1>6, <1>7, <1>10, <1>11

LEMMA ResponseIsNotTaken ==
  ASSUME ResponseTypeOK, ResponsesAreSent, QueuesHold,
         NEW i \in Instance, responseQueue[i] # <<>>, NotTaken(i)
  PROVE  ResponseTypeOK' /\ ResponsesAreSent' /\ QueuesHold' /\ UNCHANGED packets
<1>1. /\ respondEvent' = [respondEvent EXCEPT ![i] = IF @ = curTick THEN Never ELSE @]
      /\ retryResp' = retryResp \cup {i}
      /\ UNCHANGED packets /\ UNCHANGED responseQueue
  BY DEF NotTaken
<1>2. /\ respondEvent' \in [Instance -> Nat \cup {Never}]
      /\ \A j \in Instance \ {i} : respondEvent'[j] = respondEvent[j]
  BY <1>1 DEF ResponseTypeOK
<1>3. ResponseTypeOK' /\ ResponsesAreSent'
  BY <1>1, <1>2 DEF ResponseTypeOK, ResponsesAreSent
<1>4. QueuesHold'
  BY <1>1 DEF QueuesHold
<1>5. QED
  BY <1>1, <1>3, <1>4
-----------------------------------------------------------------------------
(* gem5's memory: its steps.                                               *)

TimeTypeOK == curTick \in Nat /\ lastWakeup \in 0 .. curTick /\ dumps \in 0 .. MaxDumps
WakeTypeOK ==
  clockEvent \in Nat \cup {Never} /\ nextEventCycle \in [Instance -> Nat] /\ waker \in {"tick", "dump"}
PacketsTypeOK ==
  packets \in [Request -> Packet] /\ DOMAIN requestMap \subseteq Request /\ retry \subseteq Instance

LEMMA MemoryTypes == MemoryTypeOK <=> TimeTypeOK /\ WakeTypeOK /\ PacketsTypeOK /\ ResponseTypeOK
BY DEF MemoryTypeOK, TimeTypeOK, WakeTypeOK, PacketsTypeOK, ResponseTypeOK, Packet

\* What holds of the packets, their responses and their requests.
PacketsInv == PacketsTypeOK /\ ResponseTypeOK /\ RetriesAreOwed /\ ResponsesAreSent /\ MapFits /\ QueuesHold

LEMMA MemoryInvParts ==
  MemoryTypeOK /\ MemoryInv <=> TimeTypeOK /\ WakeTypeOK /\ ClockEventIsSet /\ PacketsInv
BY MemoryTypes DEF MemoryInv, PacketsInv

\* Steps that do not concern packets.
LEMMA PacketsRest ==
  ASSUME PacketsInv, UNCHANGED <<packets, requestMap, retry>>, UNCHANGED responseVars, Pending' = Pending
  PROVE  PacketsInv'
<1>1. UNCHANGED packets /\ UNCHANGED requestMap /\ UNCHANGED retry
  OBVIOUS
<1>2. \A q \in Request : Stays(q)
  BY <1>1 DEF Stays
<1>3. ResponseTypeOK' /\ ResponsesAreSent' /\ QueuesHold'
  BY <1>2, ResponsesRest DEF PacketsInv
<1>4. PacketsTypeOK' /\ RetriesAreOwed' /\ MapFits'
  BY <1>1 DEF PacketsInv, PacketsTypeOK, RetriesAreOwed, MapFits
<1>5. QED
  BY <1>3, <1>4 DEF PacketsInv

\* Steps that make p a member of the map, which the packet of p fits.
LEMMA MapGrows ==
  ASSUME MapFits, NEW p \in Request, NEW packet \in BOOLEAN, requestMap' = Entry(p, packet),
         Pending' = Pending \cup {p}, packet <=> packets'[p].state = "issued",
         \A q \in Request \ {p} : Stays(q)
  PROVE  MapFits' /\ DOMAIN requestMap' = Pending'
<1>1. /\ DOMAIN requestMap' = DOMAIN requestMap \cup {p} /\ requestMap'[p] = packet
      /\ \A q \in DOMAIN requestMap \ {p} : requestMap'[q] = requestMap[q]
  BY DEF Entry
<1>2. DOMAIN requestMap' = Pending'
  BY <1>1 DEF MapFits
<1>3. ASSUME NEW q \in Pending' PROVE requestMap'[q] <=> packets'[q].state = "issued"
  <2>1. CASE q = p
    BY <1>1, <2>1
  <2>2. CASE q # p
    BY <1>1, <2>2, PendingIsFinite DEF MapFits, Stays
  <2>3. QED
    BY <2>1, <2>2
<1>4. QED
  BY <1>2, <1>3 DEF MapFits

LEMMA ReceivesOther ==
  ASSUME PacketsInv, curTick \in Nat, NEW p \in Request, NEW i \in Instance, ReceiveOther(p, i),
         Pending' = Pending
  PROVE  PacketsInv'
<1>1. /\ PacketsTypeOK /\ ResponseTypeOK /\ RetriesAreOwed /\ ResponsesAreSent /\ MapFits /\ QueuesHold
      /\ packets \in [Request -> Packet]
  BY DEF PacketsInv, PacketsTypeOK
<1>2. packets[p].state \in {"new", "retried"} /\ UNCHANGED requestMap /\ UNCHANGED retry
  BY DEF ReceiveOther, Arrives
<1>3. PICK state \in {"responding", "pendingDelete"} :
        /\ packets' = Becomes(Freed(packets, i), p, i, state)
        /\ \/ state = "responding" /\ Respond(p, i)
           \/ state = "pendingDelete" /\ UNCHANGED responseVars
  BY DEF ReceiveOther
<1>4. /\ packets' \in [Request -> Packet]
      /\ packets'[p].state = state /\ packets'[p].instance = i
      /\ \A q \in Request \ {p} : Stays(q) /\ (packets'[q].state = "waiting" <=> packets[q].state = "waiting")
  BY <1>1, <1>3, ReceivedFacts DEF PacketStates
<1>5. ResponseTypeOK' /\ ResponsesAreSent' /\ QueuesHold'
  <2>1. CASE state = "responding" /\ Respond(p, i)
    BY <1>1, <1>2, <1>4, <2>1, ResponseEnters
  <2>2. CASE UNCHANGED responseVars
    BY <1>1, <1>2, <1>4, <2>2, ResponsesRest
  <2>3. QED
    BY <1>3, <2>1, <2>2
<1>6. PacketsTypeOK' /\ RetriesAreOwed' /\ MapFits'
  BY <1>1, <1>2, <1>4, PendingIsFinite DEF PacketsTypeOK, RetriesAreOwed, MapFits, Stays
<1>7. QED
  BY <1>5, <1>6 DEF PacketsInv

LEMMA Refuses ==
  ASSUME PacketsInv, NEW p \in Request, NEW i \in Instance, Refuse(p, i), Pending' = Pending
  PROVE  PacketsInv'
<1>1. /\ PacketsTypeOK /\ ResponseTypeOK /\ RetriesAreOwed /\ ResponsesAreSent /\ MapFits /\ QueuesHold
      /\ packets \in [Request -> Packet]
  BY DEF PacketsInv, PacketsTypeOK
<1>2. /\ packets[p].state \in {"new", "retried"} /\ UNCHANGED requestMap /\ UNCHANGED responseVars
      /\ retry' = retry \cup {i} /\ packets' = Becomes(Freed(packets, i), p, i, "waiting")
      /\ i \in retry \/ ~ HasRoom
  BY DEF Refuse, Arrives
<1>3. /\ packets' \in [Request -> Packet]
      /\ packets'[p].state = "waiting" /\ packets'[p].instance = i
      /\ \A q \in Request \ {p} : Stays(q) /\ (packets'[q].state = "waiting" <=> packets[q].state = "waiting")
  BY <1>1, <1>2, ReceivedFacts DEF PacketStates
<1>4. ResponseTypeOK' /\ ResponsesAreSent' /\ QueuesHold'
  BY <1>1, <1>2, <1>3, ResponsesRest
<1>5. Pending # {}
  <2>1. CASE i \in retry
    BY <1>1, <2>1 DEF RetriesAreOwed
  <2>2. CASE ~ HasRoom
    <3>1. QueueSize \in Nat \ {0} /\ Cardinality({}) = 0
      BY GlobalEventQueueAssumption, FS_EmptySet
    <3>2. QED
      BY <2>2, <3>1 DEF HasRoom
  <2>3. QED
    BY <1>2, <2>1, <2>2
<1>6. PacketsTypeOK' /\ MapFits'
  BY <1>1, <1>2, <1>3, PendingIsFinite DEF PacketsTypeOK, MapFits, Stays
<1>7. RetriesAreOwed'
  <2>1. \A q \in Request : packets'[q].state = "waiting" => packets'[q].instance \in retry'
    BY <1>1, <1>2, <1>3 DEF RetriesAreOwed, Stays
  <2>2. QED
    BY <1>5, <2>1 DEF RetriesAreOwed
<1>8. QED
  BY <1>4, <1>6, <1>7 DEF PacketsInv

LEMMA AcceptsRead ==
  ASSUME PacketsInv, NEW p \in Request, NEW i \in Instance, AcceptRead(p, i), Pending' = Pending \cup {p}
  PROVE  PacketsInv'
<1>1. /\ PacketsTypeOK /\ ResponseTypeOK /\ RetriesAreOwed /\ ResponsesAreSent /\ MapFits /\ QueuesHold
      /\ packets \in [Request -> Packet]
  BY DEF PacketsInv, PacketsTypeOK
<1>2. /\ packets[p].state \in {"new", "retried"} /\ requestMap' = Entry(p, TRUE)
      /\ UNCHANGED responseVars /\ UNCHANGED retry
      /\ packets' = Becomes(Freed(packets, i), p, i, "issued")
  BY DEF AcceptRead, Issues, Arrives
<1>3. /\ packets' \in [Request -> Packet]
      /\ packets'[p].state = "issued" /\ packets'[p].instance = i
      /\ \A q \in Request \ {p} : Stays(q) /\ (packets'[q].state = "waiting" <=> packets[q].state = "waiting")
  BY <1>1, <1>2, ReceivedFacts DEF PacketStates
<1>4. ResponseTypeOK' /\ ResponsesAreSent' /\ QueuesHold'
  BY <1>1, <1>2, <1>3, ResponsesRest
<1>5. MapFits' /\ DOMAIN requestMap' = Pending'
  BY <1>1, <1>2, <1>3, MapGrows
<1>6. PacketsTypeOK' /\ RetriesAreOwed'
  BY <1>1, <1>2, <1>3, <1>5, PendingIsFinite DEF PacketsTypeOK, RetriesAreOwed, Stays
<1>7. QED
  BY <1>4, <1>5, <1>6 DEF PacketsInv

LEMMA AcceptsWrite ==
  ASSUME PacketsInv, curTick \in Nat, NEW p \in Request, NEW i \in Instance, AcceptWrite(p, i),
         Pending' = Pending \cup {p}
  PROVE  PacketsInv'
<1>1. /\ PacketsTypeOK /\ ResponseTypeOK /\ RetriesAreOwed /\ ResponsesAreSent /\ MapFits /\ QueuesHold
      /\ packets \in [Request -> Packet]
  BY DEF PacketsInv, PacketsTypeOK
<1>2. packets[p].state \in {"new", "retried"} /\ requestMap' = Entry(p, FALSE) /\ retry' = {}
  BY DEF AcceptWrite, Issues, Arrives
<1>3. PICK state \in {"responding", "pendingDelete"} :
        /\ packets' = Becomes(Retried(Freed(packets, i), retry), p, i, state)
        /\ \/ state = "responding" /\ Respond(p, i)
           \/ state = "pendingDelete" /\ UNCHANGED responseVars
  BY DEF AcceptWrite
<1>4. /\ packets' \in [Request -> Packet]
      /\ packets'[p].state = state /\ packets'[p].instance = i
      /\ \A q \in Request \ {p} : Stays(q) /\ packets'[q].state # "waiting"
  BY <1>1, <1>3, ReceivedAndRetriedFacts DEF PacketStates
<1>5. ResponseTypeOK' /\ ResponsesAreSent' /\ QueuesHold'
  <2>1. CASE state = "responding" /\ Respond(p, i)
    BY <1>1, <1>2, <1>4, <2>1, ResponseEnters
  <2>2. CASE UNCHANGED responseVars
    BY <1>1, <1>2, <1>4, <2>2, ResponsesRest
  <2>3. QED
    BY <1>3, <2>1, <2>2
<1>6. MapFits' /\ DOMAIN requestMap' = Pending'
  BY <1>1, <1>2, <1>4, MapGrows
<1>7. PacketsTypeOK' /\ RetriesAreOwed'
  BY <1>1, <1>2, <1>4, <1>6, PendingIsFinite DEF PacketsTypeOK, RetriesAreOwed
<1>8. QED
  BY <1>5, <1>6, <1>7 DEF PacketsInv

LEMMA RequestCompletion ==
  ASSUME PacketsInv, curTick \in Nat, NEW p \in Request, RequestCompletes(p),
         p \in Pending, Pending' = Pending \ {p}
  PROVE  PacketsInv'
<1>1. /\ PacketsTypeOK /\ ResponseTypeOK /\ RetriesAreOwed /\ ResponsesAreSent /\ MapFits /\ QueuesHold
      /\ packets \in [Request -> Packet]
  BY DEF PacketsInv, PacketsTypeOK
<1> DEFINE i == packets[p].instance
           retried == Retried(packets, retry)
<1>2. i \in Instance
  BY <1>1 DEF Packet
<1>3. /\ retry' = {} /\ requestMap' = [q \in DOMAIN requestMap \ {p} |-> requestMap[q]]
      /\ \/ requestMap[p] /\ Respond(p, i) /\ packets' = Becomes(retried, p, i, "responding")
         \/ ~ requestMap[p] /\ packets' = retried /\ UNCHANGED responseVars
  BY DEF RequestCompletes
<1>4. /\ retried \in [Request -> Packet]
      /\ \A q \in Request :
           /\ retried[q].instance = packets[q].instance
           /\ \A s \in {"responding", "issued"} : retried[q].state = s <=> packets[q].state = s
           /\ retried[q].state # "waiting"
  BY <1>1, RetriedFacts DEF RetriesAreOwed
<1> HIDE DEF i, retried
<1>5. /\ packets' \in [Request -> Packet]
      /\ \A q \in Request : packets'[q].state # "waiting"
      /\ \A q \in Request \ {p} : Stays(q)
      /\ ResponseTypeOK' /\ ResponsesAreSent' /\ QueuesHold'
  <2>1. CASE requestMap[p]
    <3>1. packets[p].state = "issued"
      BY <1>1, <2>1 DEF MapFits
    <3>2. Respond(p, i) /\ packets' = Becomes(retried, p, i, "responding")
      BY <1>3, <2>1
    <3>3. /\ packets' \in [Request -> Packet]
          /\ packets'[p].state = "responding" /\ packets'[p].instance = i
          /\ \A q \in Request \ {p} : packets'[q] = retried[q]
      BY <1>2, <1>4, <3>2, BecomesFacts DEF PacketStates
    <3>4. /\ \A q \in Request : packets'[q].state # "waiting"
          /\ \A q \in Request \ {p} : Stays(q)
      BY <1>4, <3>3 DEF Stays
    <3>5. QED
      BY <1>1, <1>2, <3>1, <3>2, <3>3, <3>4, ResponseEnters
  <2>2. CASE ~ requestMap[p]
    <3>1. packets' = retried /\ UNCHANGED responseVars
      BY <1>3, <2>2
    <3>2. /\ \A q \in Request : packets'[q].state # "waiting"
          /\ \A q \in Request : Stays(q)
      BY <1>4, <3>1 DEF Stays
    <3>3. QED
      BY <1>1, <1>4, <3>1, <3>2, ResponsesRest
  <2>3. QED
    BY <2>1, <2>2
<1>6. DOMAIN requestMap' = Pending' /\ \A q \in Pending' : requestMap'[q] = requestMap[q]
  BY <1>1, <1>3 DEF MapFits
<1>7. PacketsTypeOK' /\ RetriesAreOwed' /\ MapFits'
  BY <1>1, <1>3, <1>5, <1>6, PendingIsFinite DEF PacketsTypeOK, RetriesAreOwed, MapFits, Stays
<1>8. QED
  BY <1>5, <1>7 DEF PacketsInv

LEMMA TakesOrNot ==
  ASSUME PacketsInv, curTick \in Nat, NEW i \in Instance, responseQueue[i] # <<>>,
         Taken(i) \/ NotTaken(i), UNCHANGED requestMap, UNCHANGED retry, Pending' = Pending
  PROVE  PacketsInv'
<1>1. /\ PacketsTypeOK /\ ResponseTypeOK /\ RetriesAreOwed /\ ResponsesAreSent /\ MapFits /\ QueuesHold
      /\ packets \in [Request -> Packet]
  BY DEF PacketsInv, PacketsTypeOK
<1>2. /\ ResponseTypeOK' /\ ResponsesAreSent' /\ QueuesHold'
      /\ packets' \in [Request -> Packet]
      /\ \A q \in Request :
           /\ packets'[q].instance = packets[q].instance
           /\ \A s \in {"waiting", "issued"} : packets'[q].state = s <=> packets[q].state = s
  <2>1. CASE Taken(i)
    BY <1>1, <2>1, ResponseIsTaken
  <2>2. CASE NotTaken(i)
    BY <1>1, <2>2, ResponseIsNotTaken
  <2>3. QED
    BY <2>1, <2>2
<1>3. PacketsTypeOK' /\ RetriesAreOwed' /\ MapFits'
  BY <1>1, <1>2, PendingIsFinite DEF PacketsTypeOK, RetriesAreOwed, MapFits
<1>4. QED
  BY <1>2, <1>3 DEF PacketsInv

LEMMA ResponseIsSent ==
  ASSUME PacketsInv, curTick \in Nat, NEW i \in Instance, SendResponses(i) \/ recvRetry(i), Pending' = Pending
  PROVE  PacketsInv'
<1>1. /\ PacketsTypeOK /\ ResponseTypeOK /\ RetriesAreOwed /\ ResponsesAreSent /\ MapFits /\ QueuesHold
      /\ packets \in [Request -> Packet]
  BY DEF PacketsInv, PacketsTypeOK
<1>2. UNCHANGED requestMap /\ UNCHANGED retry
  BY DEF SendResponses, recvRetry
<1>3. CASE SendResponses(i) /\ (responseQueue[i] = <<>> \/ i \in retryResp)
  <2>1. /\ respondEvent' = [respondEvent EXCEPT ![i] = Never]
        /\ UNCHANGED packets /\ UNCHANGED responseQueue /\ UNCHANGED retryResp
    BY <1>3 DEF SendResponses
  <2>2. /\ respondEvent' \in [Instance -> Nat \cup {Never}]
        /\ \A j \in Instance \ {i} : respondEvent'[j] = respondEvent[j]
    BY <1>1, <2>1 DEF ResponseTypeOK
  <2>3. ResponseTypeOK' /\ ResponsesAreSent' /\ QueuesHold'
    BY <1>1, <1>3, <2>1, <2>2 DEF ResponseTypeOK, ResponsesAreSent, QueuesHold
  <2>4. PacketsTypeOK' /\ RetriesAreOwed' /\ MapFits'
    BY <1>1, <1>2, <2>1 DEF PacketsTypeOK, RetriesAreOwed, MapFits
  <2>5. QED
    BY <2>3, <2>4 DEF PacketsInv
<1>4. CASE SendResponses(i) /\ ~ (responseQueue[i] = <<>> \/ i \in retryResp)
  <2>1. responseQueue[i] # <<>> /\ (Taken(i) \/ NotTaken(i))
    BY <1>4 DEF SendResponses
  <2>2. QED
    BY <1>2, <2>1, TakesOrNot
<1>5. CASE recvRetry(i)
  <2>1. responseQueue[i] # <<>> /\ (Taken(i) \/ NotTaken(i))
    BY <1>1, <1>5 DEF recvRetry, ResponsesAreSent
  <2>2. QED
    BY <1>2, <2>1, TakesOrNot
<1>6. QED
  BY <1>3, <1>4, <1>5

LEMMA CycleRuns ==
  /\ QueueInv /\ QueueStep => ~ QueuesIdle'
  /\ \A steps \in Nat : Cycle(steps) => QueuesIdle /\ ~ QueuesIdle'
  /\ \A r \in Request : Completes(r) => ~ QueuesIdle'
<1>1. call'.at # "none" => ~ QueuesIdle'
  BY DEF QueuesIdle, Idle
<1>2. ASSUME QueueInv, QueueStep PROVE call'.at # "none"
  <2>1. call \in CallState
    BY <1>2 DEF QueueInv, QueueTypeOK
  <2>2. CASE NoMoreEvents
    BY <2>1, <2>2 DEF NoMoreEvents, CallState
  <2>3. CASE ChooseQueue
    <3>1. PICK q \in NextEventQueues :
            call' = [call EXCEPT !.at = "loop", !.step = Distance, !.queue = q, !.goal = NextOf(q)]
      BY <2>3 DEF ChooseQueue
    <3>2. QED
      BY <2>1, <3>1 DEF CallState
  <2>4. CASE LoopReturns
    <3>1. \/ call' = [call EXCEPT !.at = "sync", !.left = @ - call.step, !.step = 0]
          \/ call' = [call EXCEPT !.at = IF @ = "sync loop" THEN "sync" ELSE "last sync"]
      BY <2>4 DEF LoopReturns
    <3>2. QED
      BY <2>1, <3>1 DEF CallState
  <2>5. CASE Sync
    <3>1. PICK q \in Behind :
            call' = [call EXCEPT !.at = IF @ = "sync" THEN "sync loop" ELSE "last loop",
                                 !.queue = q, !.goal = ToLocal(q, currentCycle)]
      BY <2>5 DEF Sync
    <3>2. QED
      BY <2>1, <3>1 DEF CallState
  <2>6. CASE call.at = "sync" /\ SyncEnds
    <3>1. call' = [call EXCEPT !.at = "choose"]
      BY <2>6 DEF SyncEnds
    <3>2. QED
      BY <2>1, <3>1 DEF CallState
  <2>7. CASE \E r \in Request : GoesOn(r)
    BY <2>7 DEF GoesOn, EventOf
  <2>8. QED
    BY <1>2, <2>2, <2>3, <2>4, <2>5, <2>6, <2>7 DEF QueueStep
<1>3. \A steps \in Nat : Cycle(steps) => QueuesIdle /\ ~ QueuesIdle'
  <2> SUFFICES ASSUME NEW steps \in Nat, Cycle(steps) PROVE QueuesIdle /\ call'.at # "none"
    BY <1>1
  <2>1. call'.at = "choose"
    BY DEF Cycle, Idle
  <2>2. QED
    BY <2>1 DEF Cycle
<1>4. \A r \in Request : Completes(r) => call'.at # "none"
  BY DEF Completes, EventOf
<1>5. QED
  BY <1>1, <1>2, <1>3, <1>4

\* The clock event is rescheduled, and never to no event.
LEMMA Rescheduling ==
  ASSUME WakeTypeOK, TimeTypeOK, currentCycle \in Nat, NEW i \in Instance, NEW next \in Nat,
         RescheduleClockEvent(i, next), UNCHANGED waker
  PROVE  WakeTypeOK' /\ clockEvent' # Never
<1>1. curTick \in Nat /\ WakeUpFor(next) \in Nat
  BY DEF TimeTypeOK, WakeUpFor
<1>2. CASE clockEvent = Never \/ next < nextEventCycle[i]
  <2>1. /\ clockEvent' = WakeUpFor(next)
        /\ nextEventCycle' = [nextEventCycle EXCEPT ![i] = next]
    BY <1>2 DEF RescheduleClockEvent
  <2>2. QED
    BY <1>1, <2>1, NeverIsNoTick DEF WakeTypeOK
<1>3. CASE ~ (clockEvent = Never \/ next < nextEventCycle[i])
  BY <1>3 DEF RescheduleClockEvent, WakeTypeOK
<1>4. QED
  BY <1>2, <1>3

\* Accepting a request puts its event into the first system and sets the clock.
LEMMA Issuing ==
  ASSUME QueueInv, TimeTypeOK, WakeTypeOK, NEW p \in Request, NEW i \in Instance, Issues(p, i)
  PROVE  /\ QueueInv' /\ Pending' = Pending \cup {p}
         /\ TimeTypeOK' /\ WakeTypeOK' /\ ClockEventIsSet'
<1>1. /\ UNCHANGED <<currentCycle, localCycle, call>> /\ UNCHANGED <<curTick, lastWakeup, dumps>> /\ UNCHANGED waker
      /\ RescheduleClockEvent(i, NextEventOf(due'))
  BY DEF Issues, clockVars
<1>2. QueueInv' /\ Pending' = Pending \cup {p}
  <2>1. PICK latency \in Latency : due' = Entering(p, 1, latency)
    BY DEF Issues
  <2>2. QED
    BY <1>1, <2>1, EventEnters
<1>3. NextEventOf(due') \in Nat
  <2>1. \A r \in Request : due'[r] # NotDue => due'[r].queue \in Queue /\ due'[r].cycle \in Nat
    <3>1. due' \in [Request -> DueEvent]
      BY <1>2 DEF QueueInv, QueueTypeOK
    <3>2. QED
      BY <3>1 DEF DueEvent
  <2>2. due'[p] # NotDue
    BY <1>2 DEF Pending
  <2>3. QED
    BY <2>1, <2>2, NextEventProperties
<1>4. WakeTypeOK' /\ clockEvent' # Never
  BY <1>1, <1>3, Rescheduling, CallFacts DEF QueueInv
<1>5. QED
  BY <1>1, <1>2, <1>4 DEF TimeTypeOK, ClockEventIsSet

LEMMA MemorySteps ==
  ASSUME QueueInv, MemoryTypeOK, MemoryInv, MemoryStep
  PROVE  QueueInv' /\ MemoryTypeOK' /\ MemoryInv'
<1>1. TimeTypeOK /\ WakeTypeOK /\ ClockEventIsSet /\ PacketsInv
  BY MemoryInvParts
<1> SUFFICES QueueInv' /\ TimeTypeOK' /\ WakeTypeOK' /\ ClockEventIsSet' /\ PacketsInv'
  <2>1. MemoryTypeOK' /\ MemoryInv' <=> TimeTypeOK' /\ WakeTypeOK' /\ ClockEventIsSet' /\ PacketsInv'
    BY MemoryInvParts, PTL
  <2>2. QED
    BY <2>1
<1>2. /\ curTick \in Nat /\ lastWakeup \in Nat /\ lastWakeup <= curTick
      /\ dumps \in Nat /\ dumps <= MaxDumps /\ MaxDumps \in Nat
  BY <1>1, NVMainMemoryAssumption DEF TimeTypeOK
<1>3. currentCycle \in Nat
  BY CallFacts DEF QueueInv
<1>4. CASE Tick
  <2>1. /\ Cycle(curTick - lastWakeup) /\ clockEvent' = Never /\ waker' = "tick"
        /\ UNCHANGED <<curTick, lastWakeup, dumps>> /\ UNCHANGED nextEventCycle
        /\ UNCHANGED responseVars /\ UNCHANGED <<packets, requestMap, retry>>
        /\ UNCHANGED <<currentCycle, localCycle, due>>
    BY <1>4 DEF Tick, clockVars
  <2>2. curTick - lastWakeup \in Nat
    BY <1>2
  <2>3. QueueInv' /\ Pending' = Pending /\ ~ QueuesIdle'
    BY <2>1, <2>2, CycleBegins, CycleRuns
  <2>4. TimeTypeOK' /\ WakeTypeOK' /\ ClockEventIsSet'
    BY <1>1, <2>1, <2>3 DEF TimeTypeOK, WakeTypeOK, ClockEventIsSet
  <2>5. QED
    BY <1>1, <2>1, <2>3, <2>4, PacketsRest
<1>5. CASE Dump
  <2>1. /\ Cycle(curTick - lastWakeup) /\ dumps < MaxDumps /\ dumps' = dumps + 1 /\ waker' = "dump"
        /\ UNCHANGED <<curTick, lastWakeup>> /\ UNCHANGED <<clockEvent, nextEventCycle>>
        /\ UNCHANGED responseVars /\ UNCHANGED <<packets, requestMap, retry>>
        /\ UNCHANGED <<currentCycle, localCycle, due>>
    BY <1>5 DEF Dump
  <2>2. curTick - lastWakeup \in Nat
    BY <1>2
  <2>3. QueueInv' /\ Pending' = Pending /\ QueuesIdle
    BY <2>1, <2>2, CycleBegins, CycleRuns
  <2>4. TimeTypeOK' /\ WakeTypeOK' /\ ClockEventIsSet'
    BY <1>1, <1>2, <2>1, <2>3 DEF TimeTypeOK, WakeTypeOK, ClockEventIsSet
  <2>5. QED
    BY <1>1, <2>1, <2>3, <2>4, PacketsRest
<1>6. CASE TickEnds
  <2>1. /\ CycleReturns /\ lastWakeup' = curTick
        /\ UNCHANGED <<curTick, dumps>> /\ UNCHANGED waker
        /\ UNCHANGED responseVars /\ UNCHANGED <<packets, requestMap, retry>>
    BY <1>6 DEF TickEnds
  <2>2. QueueInv' /\ Pending' = Pending /\ QueuesIdle' /\ UNCHANGED <<currentCycle, localCycle, due>>
    BY <2>1, QueueSteps DEF QueuesIdle
  <2>3. GetNextEvent # Never => GetNextEvent \in Nat /\ GetNextEvent >= currentCycle
    <3>1. QueuesAreInStep'
      BY <2>2, InStepOutsideCycle, PTL
    <3>2. GetNextEvent' = GetNextEvent
      BY <2>2 DEF GetNextEvent, NextEventOf, ToGlobal
    <3>3. GetNextEvent # Never => GetNextEvent >= currentCycle
      BY <2>2, <3>1, <3>2 DEF QueuesAreInStep
    <3>4. QED
      BY <3>3, GetNextEventProperties DEF QueueInv
  <2>4. WakeTypeOK' /\ ClockEventIsSet'
    <3>1. CASE GetNextEvent = Never
      <4>1. UNCHANGED <<clockEvent, nextEventCycle>> /\ Pending = {}
        BY <1>6, <3>1, GetNextEventProperties DEF TickEnds, QueueInv
      <4>2. QED
        BY <1>1, <2>1, <2>2, <4>1 DEF WakeTypeOK, ClockEventIsSet
    <3>2. CASE GetNextEvent # Never
      <4>1. /\ clockEvent' = curTick + (GetNextEvent - currentCycle)
            /\ nextEventCycle' = [nextEventCycle EXCEPT ![Master] = GetNextEvent]
        BY <1>6, <3>2 DEF TickEnds
      <4>2. clockEvent' \in Nat
        BY <1>2, <1>3, <2>3, <3>2, <4>1
      <4>3. QED
        BY <1>1, <2>1, <2>3, <3>2, <4>1, <4>2, NeverIsNoTick, NVMainMemoryAssumption DEF WakeTypeOK, ClockEventIsSet
    <3>3. QED
      BY <3>1, <3>2
  <2>5. TimeTypeOK'
    BY <1>1, <1>2, <2>1 DEF TimeTypeOK
  <2>6. QED
    BY <1>1, <2>1, <2>2, <2>4, <2>5, PacketsRest
<1>7. CASE DumpEnds
  <2>1. /\ CycleReturns /\ waker = "dump"
        /\ UNCHANGED clockVars /\ UNCHANGED wakeVars
        /\ UNCHANGED responseVars /\ UNCHANGED <<packets, requestMap, retry>>
    BY <1>7 DEF DumpEnds, memoryVars
  <2>2. QueueInv' /\ Pending' = Pending
    BY <2>1, QueueSteps
  <2>3. TimeTypeOK' /\ WakeTypeOK' /\ ClockEventIsSet'
    BY <1>1, <2>1, <2>2 DEF TimeTypeOK, WakeTypeOK, ClockEventIsSet, clockVars, wakeVars
  <2>4. QED
    BY <1>1, <2>1, <2>2, <2>3, PacketsRest
<1>8. CASE QueueStep /\ UNCHANGED memoryVars
  <2>1. /\ UNCHANGED clockVars /\ UNCHANGED wakeVars
        /\ UNCHANGED responseVars /\ UNCHANGED <<packets, requestMap, retry>>
    BY <1>8 DEF memoryVars
  <2>2. QueueInv' /\ Pending' = Pending /\ ~ QueuesIdle'
    BY <1>8, QueueSteps, CycleRuns
  <2>3. TimeTypeOK' /\ WakeTypeOK' /\ ClockEventIsSet'
    BY <1>1, <2>1, <2>2 DEF TimeTypeOK, WakeTypeOK, ClockEventIsSet, clockVars, wakeVars
  <2>4. QED
    BY <1>1, <2>1, <2>2, <2>3, PacketsRest
<1>9. CASE \E p \in Request : RequestCompletes(p)
  <2>1. PICK p \in Request : RequestCompletes(p)
    BY <1>9
  <2>2. Completes(p) /\ UNCHANGED clockVars /\ UNCHANGED wakeVars
    BY <2>1 DEF RequestCompletes
  <2>3. QueueInv' /\ p \in Pending /\ Pending' = Pending \ {p} /\ ~ QueuesIdle'
    BY <2>2, EventRuns, CycleRuns
  <2>4. TimeTypeOK' /\ WakeTypeOK' /\ ClockEventIsSet'
    BY <1>1, <2>2, <2>3 DEF TimeTypeOK, WakeTypeOK, ClockEventIsSet, clockVars, wakeVars
  <2>5. QED
    BY <1>1, <1>2, <2>1, <2>3, <2>4, RequestCompletion
<1>10. CASE \E i \in Instance : SendResponses(i) \/ recvRetry(i)
  <2>1. PICK i \in Instance : SendResponses(i) \/ recvRetry(i)
    BY <1>10
  <2>2. UNCHANGED clockVars /\ UNCHANGED wakeVars /\ UNCHANGED queueVars
    BY <2>1 DEF SendResponses, recvRetry
  <2>3. QueueInv' /\ Pending' = Pending /\ QueuesIdle' = QueuesIdle
    BY <2>2, QueuesRest DEF QueuesIdle, queueVars
  <2>4. TimeTypeOK' /\ WakeTypeOK' /\ ClockEventIsSet'
    BY <1>1, <2>2, <2>3 DEF TimeTypeOK, WakeTypeOK, ClockEventIsSet, clockVars, wakeVars
  <2>5. QED
    BY <1>1, <1>2, <2>1, <2>3, <2>4, ResponseIsSent
<1>11. CASE NextTick
  <2>1. /\ curTick' = curTick + 1 /\ UNCHANGED <<lastWakeup, dumps>> /\ UNCHANGED wakeVars
        /\ UNCHANGED responseVars /\ UNCHANGED <<packets, requestMap, retry>> /\ UNCHANGED queueVars
    BY <1>11 DEF NextTick
  <2>2. QueueInv' /\ Pending' = Pending /\ QueuesIdle' = QueuesIdle
    BY <2>1, QueuesRest DEF QueuesIdle, queueVars
  <2>3. TimeTypeOK' /\ WakeTypeOK' /\ ClockEventIsSet'
    BY <1>1, <1>2, <2>1, <2>2 DEF TimeTypeOK, WakeTypeOK, ClockEventIsSet, wakeVars
  <2>4. QED
    BY <1>1, <2>1, <2>2, <2>3, PacketsRest
<1>12. CASE \E i \in Instance : \E p \in Request : recvTimingReq(p, i)
  <2>1. PICK i \in Instance, p \in Request : recvTimingReq(p, i)
    BY <1>12
  <2>2. CASE ReceiveOther(p, i) \/ Refuse(p, i)
    <3>1. UNCHANGED clockVars /\ UNCHANGED wakeVars /\ UNCHANGED queueVars
      BY <2>2 DEF ReceiveOther, Refuse
    <3>2. QueueInv' /\ Pending' = Pending /\ QueuesIdle' = QueuesIdle
      BY <3>1, QueuesRest DEF QueuesIdle, queueVars
    <3>3. TimeTypeOK' /\ WakeTypeOK' /\ ClockEventIsSet'
      BY <1>1, <3>1, <3>2 DEF TimeTypeOK, WakeTypeOK, ClockEventIsSet, clockVars, wakeVars
    <3>4. QED
      BY <1>1, <1>2, <2>2, <3>2, <3>3, ReceivesOther, Refuses
  <2>3. CASE AcceptRead(p, i) \/ AcceptWrite(p, i)
    <3>1. Issues(p, i)
      BY <2>3 DEF AcceptRead, AcceptWrite
    <3>2. QueueInv' /\ Pending' = Pending \cup {p} /\ TimeTypeOK' /\ WakeTypeOK' /\ ClockEventIsSet'
      BY <1>1, <3>1, Issuing
    <3>3. QED
      BY <1>1, <1>2, <2>3, <3>2, AcceptsRead, AcceptsWrite
  <2>4. QED
    BY <2>1, <2>2, <2>3 DEF recvTimingReq
<1>13. QED
  BY <1>4, <1>5, <1>6, <1>7, <1>8, <1>9, <1>10, <1>11, <1>12 DEF MemoryStep, gem5Step
-----------------------------------------------------------------------------
(* The theorems.                                                           *)

LEMMA Initially == Init => IInv
<1> SUFFICES ASSUME Init PROVE IInv
  OBVIOUS
<1>1. QueueInit /\ TraceInit /\ MemoryInit /\ simulator \in {"trace", "gem5"}
  BY DEF Init
<1>2. QueueInv
  BY <1>1, QueueInvInitially
<1>3. Pending = {} /\ currentCycle = 0
  BY <1>1 DEF QueueInit, Pending
<1>4. call.left = 0
  BY <1>1 DEF QueueInit, Idle
<1>5. Len(Trace) \in Nat
  BY TraceMainAssumption
<1>6. /\ at = "read" /\ simulateCycles \in SimulateCycles
      /\ traceCycle = 0 /\ line = 0 /\ outstandingRequests = 0
  BY <1>1 DEF TraceInit
<1>7. Cardinality({}) = 0
  BY FS_EmptySet
<1>8. TraceTypeOK /\ TraceInv
  BY <1>3, <1>4, <1>5, <1>6, <1>7 DEF TraceTypeOK, TraceInv, ClockAgrees, LimitIsAhead, LinesWereRead, CountAgrees
<1>9. TimeTypeOK /\ WakeTypeOK
  BY <1>1, NVMainMemoryAssumption DEF MemoryInit, TimeTypeOK, WakeTypeOK
<1>10. PICK kinds \in Packets :
         packets = [p \in Request |-> [kind |-> kinds[p], state |-> "new", instance |-> Master]]
  BY <1>1 DEF MemoryInit
<1>11. packets \in [Request -> Packet] /\ \A p \in Request : packets[p].state = "new"
  BY <1>10, NVMainMemoryAssumption DEF Packet, PacketStates
<1>12. DOMAIN requestMap = {} /\ retry = {} /\ retryResp = {}
  BY <1>1 DEF MemoryInit
<1>13. PacketsTypeOK
  BY <1>11, <1>12 DEF PacketsTypeOK
<1>14. responseQueue = [i \in Instance |-> <<>>] /\ respondEvent = [i \in Instance |-> Never]
  BY <1>1 DEF MemoryInit
<1>15. ResponseTypeOK /\ \A i \in Instance : responseQueue[i] = <<>>
  BY <1>12, <1>14, EmptySeq DEF ResponseTypeOK
<1>16. Len(<<>>) = 0
  BY EmptySeq
<1>17. RetriesAreOwed /\ ResponsesAreSent /\ ClockEventIsSet /\ MapFits
  BY <1>3, <1>11, <1>12, <1>15 DEF RetriesAreOwed, ResponsesAreSent, ClockEventIsSet, MapFits
<1>18. QueuesHold
  BY <1>15, <1>16 DEF QueuesHold
<1>19. MemoryTypeOK /\ MemoryInv
  BY <1>9, <1>13, <1>15, <1>17, <1>18, MemoryInvParts DEF PacketsInv
<1>20. QED
  BY <1>1, <1>2, <1>8, <1>19 DEF IInv, TypeOK, QueueInv

LEMMA Inductive == IInv /\ [Next]_vars => IInv'
<1> SUFFICES ASSUME IInv, [Next]_vars PROVE IInv'
  OBVIOUS
<1>1. QueueInv /\ TraceTypeOK /\ MemoryTypeOK /\ simulator \in {"trace", "gem5"}
  BY DEF IInv, TypeOK
<1>2. CASE TraceRuns
  <2>1. /\ simulator = "trace" /\ TraceStep /\ UNCHANGED simulator
        /\ UNCHANGED clockVars /\ UNCHANGED wakeVars /\ UNCHANGED responseVars
        /\ UNCHANGED <<packets, requestMap, retry>>
    BY <1>2 DEF TraceRuns, memoryVars
  <2>2. QueueInv' /\ TraceTypeOK' /\ TraceInv'
    BY <1>1, <2>1, TraceSteps DEF IInv
  <2>3. MemoryTypeOK'
    BY <1>1, <2>1 DEF MemoryTypeOK, clockVars, wakeVars, responseVars
  <2>4. QED
    BY <2>1, <2>2, <2>3 DEF IInv, TypeOK, QueueInv
<1>3. CASE Gem5Runs
  <2>1. simulator = "gem5" /\ MemoryStep /\ UNCHANGED simulator /\ UNCHANGED traceVars
    BY <1>3 DEF Gem5Runs
  <2>2. QueueInv' /\ MemoryTypeOK' /\ MemoryInv'
    BY <1>1, <2>1, MemorySteps DEF IInv
  <2>3. TraceTypeOK'
    BY <1>1, <2>1 DEF TraceTypeOK, traceVars
  <2>4. QED
    BY <2>1, <2>2, <2>3 DEF IInv, TypeOK, QueueInv
<1>4. CASE UNCHANGED vars
  <2>1. /\ UNCHANGED simulator /\ UNCHANGED queueVars /\ UNCHANGED traceVars
        /\ UNCHANGED clockVars /\ UNCHANGED wakeVars /\ UNCHANGED responseVars
        /\ UNCHANGED <<packets, requestMap, retry>>
    BY <1>4 DEF vars, memoryVars
  <2>2. QueueInv' /\ Pending' = Pending /\ UNCHANGED currentCycle /\ UNCHANGED call
    BY <1>1, <2>1, QueuesRest DEF queueVars
  <2>3. TraceTypeOK' /\ (TraceInv => TraceInv')
    BY <1>1, <2>1, <2>2
       DEF TraceTypeOK, TraceInv, ClockAgrees, LimitIsAhead, LinesWereRead, CountAgrees, Limited, traceVars
  <2>4. MemoryTypeOK'
    BY <1>1, <2>1 DEF MemoryTypeOK, clockVars, wakeVars, responseVars
  <2>5. MemoryInv => MemoryInv'
    <3> SUFFICES ASSUME MemoryInv PROVE MemoryInv'
      OBVIOUS
    <3>1. PacketsInv /\ ClockEventIsSet
      BY <1>1, MemoryInvParts
    <3>2. PacketsInv'
      BY <2>1, <2>2, <3>1, PacketsRest
    <3>3. ClockEventIsSet'
      BY <2>1, <2>2, <3>1 DEF ClockEventIsSet, QueuesIdle, wakeVars
    <3>4. QED
      BY <3>2, <3>3 DEF PacketsInv, MemoryInv
  <2>6. QED
    BY <1>1, <2>1, <2>2, <2>3, <2>4, <2>5 DEF IInv, TypeOK, QueueInv
<1>5. QED
  BY <1>2, <1>3, <1>4 DEF Next

LEMMA AlwaysIInv == Spec => []IInv
BY Initially, Inductive, PTL DEF Spec

\* Every value of the queues, the trace simulator and gem5's memory is of its
\* type: no clock, no count of what is outstanding and no wake-up is negative.
THEOREM SimulatorsType == Spec => []TypeOK
<1>1. IInv => TypeOK
  BY DEF IInv
<1>2. QED
  BY <1>1, AlwaysIInv, PTL

\* Whatever the clock ratios, outside Cycle the queues are in step, no event is
\* in the past, and the trace simulator's time and count are the memory's.
THEOREM SimulatorAndMemoryAgree == Spec => []TraceAgreesWithMemory
<1>1. ASSUME IInv PROVE TraceAgreesWithMemory
  <2>1. QueueInv /\ QueuesAreInStep
    BY <1>1, InStepOutsideCycle DEF IInv
  <2> SUFFICES ASSUME simulator = "trace", at \notin {"waited", "stalled"}, QueuesIdle
               PROVE  traceCycle = currentCycle /\ CountAgrees
    BY <2>1 DEF TraceAgreesWithMemory, CountAgrees
  <2>2. ClockAgrees /\ CountAgrees
    BY <1>1 DEF IInv, TraceInv
  <2>3. call.left = 0 /\ currentCycle \in Nat
    BY <2>1, CallFacts DEF QueuesIdle, Idle, QueueInv
  <2>4. QED
    BY <2>2, <2>3 DEF ClockAgrees
<1>2. QED
  BY <1>1, AlwaysIInv, PTL

\* However many instances, packets and retries there are: nobody who waits for a
\* retry, a response or an event of NVMain is forgotten.
THEOREM NobodyIsForgotten == Spec => []WaitersAreWoken
<1>1. IInv => WaitersAreWoken
  BY DEF IInv, MemoryInv, WaitersAreWoken, RetriesAreOwed, ResponsesAreSent, ClockEventIsSet, In
<1>2. QED
  BY <1>1, AlwaysIInv, PTL

\* The request map and the response queues only lead to packets that still are
\* what they were when they entered.
THEOREM PacketsOutliveRequests == Spec => []PacketsOutliveTheirRequests
<1>1. ASSUME IInv PROVE PacketsOutliveTheirRequests
  <2> SUFFICES ASSUME simulator = "gem5"
               PROVE  /\ Pending = DOMAIN requestMap
                      /\ \A p \in DOMAIN requestMap : requestMap[p] <=> packets[p].state = "issued"
                      /\ \A i \in Instance : \A k \in DOMAIN responseQueue[i] :
                           /\ packets[responseQueue[i][k]].state = "responding"
                           /\ packets[responseQueue[i][k]].instance = i
    BY DEF PacketsOutliveTheirRequests
  <2>1. MapFits /\ QueuesHold
    BY <1>1 DEF IInv, MemoryInv
  <2>2. \A i \in Instance : DOMAIN responseQueue[i] = 1 .. Len(responseQueue[i])
    <3>1. responseQueue \in [Instance -> Seq(Request)]
      BY <1>1 DEF IInv, TypeOK, MemoryTypeOK
    <3>2. QED
      BY <3>1
  <2>3. QED
    BY <2>1, <2>2 DEF MapFits, QueuesHold
<1>2. QED
  BY <1>1, AlwaysIInv, PTL
=============================================================================
