--------------------------- MODULE SubArrayProofs ---------------------------
(***************************************************************************)
(* Theorems about a subarray, for any rows, writes and timing parameters,  *)
(* and for every configuration of precharging and of write pausing.        *)
(***************************************************************************)
EXTENDS SubArrayHistory, FiniteSetTheorems, WellFoundedInduction, TLAPS

Waits == [Constraint -> Nat]
WriteResponses == {"write", "returned"}
ClosingResponses == {"implicit", "precharge", "refresh"}
EventType == [kind : WriteResponses \cup ClosingResponses, when : Nat, req : Request \cup {NoRequest}]

RequestType ==
  [row : Row, where : {"controller", "subarray", "done"}, paused : BOOLEAN, cancelled : BOOLEAN,
   forced : BOOLEAN, cancellations : Nat, progress : Nat]

\* Responses of commands other than writes.
ClosingEvent == [kind : ClosingResponses, when : Nat, req : {NoRequest}]
Closings == {more \in SUBSET ClosingEvent : \A e \in more : e.when >= currentCycle}

\* What a step does to the writes: a command may interrupt one, ...
MayInterrupt ==
  \E more \in Closings :
    Issues /\ ~ Forced /\ CheckWritePausing /\ events' = Rescheduled \cup more
\* ... start one ...
StartsAWrite ==
  \E w \in Request, more \in Closings :
    StartWrite(w) /\ events' = (events \cup {Completion(w)}) \cup more
\* ... or leave them alone;
LeavesWrites ==
  \E more \in Closings :
    Issues /\ UNCHANGED writeVars /\ events' = events \cup more
\* a response takes a write to the controller or completes it, or is not a write's.
TakesBack ==
  \E e \in events, place \in {"controller", "done"} :
    /\ e.kind \in WriteResponses /\ e.when = currentCycle
    /\ events' = events \ {e}
    /\ isWriting' = (isWriting /\ writeRequest # e.req)
    /\ request' = [request EXCEPT ![e.req].where = place]
    /\ KeepsWriting /\ UNCHANGED <<currentCycle, commandIssued>>
Closes ==
  \E e \in events, more \in Closings :
    /\ e.kind \in ClosingResponses
    /\ events' = (events \ {e}) \cup more
    /\ UNCHANGED <<writeVars, currentCycle, commandIssued>>

(* The inductive invariant: first the writes.                              *)

EventsAreTyped == events \subseteq EventType
EventsAreAhead == \A e \in events : e.when >= currentCycle

IsResponseOf(e, w) == e.kind \in WriteResponses /\ e.req = w
\* A write is at the subarray exactly if a response of its own is under way, and
\* there is only one.
WritesHaveResponses ==
  /\ \A e \in events : e.kind \in WriteResponses => e.req \in Request
  /\ \A w \in Request :
       /\ request[w].where = "subarray" => \E e \in events : IsResponseOf(e, w)
       /\ \A e \in events : IsResponseOf(e, w) => request[w].where = "subarray"
       /\ \A e, f \in events : IsResponseOf(e, w) /\ IsResponseOf(f, w) => e = f

\* The write that is going on has the progress it started with, and a write that
\* has used up its cancellations is forced.
ProgressOK ==
  /\ isWriting /\ writeEvent => request[writeRequest].progress = writeEnd - writeStart
  /\ \A w \in Request : request[w].forced \/ request[w].cancellations < MaxCancellations

WriteInv ==
  EventsAreTyped /\ EventsAreAhead /\ WritesHaveResponses /\ PausesALiveWrite /\ ProgressOK

(* Then the row.                                                           *)

NothingCloses == \A e \in events : e.kind \notin ClosingResponses
\* At most one precharge or refresh is under way; the row is in the state of it,
\* and the next activation waits for its end, and for nothing else.
ClosingOK ==
  /\ \A e, f \in events : e.kind \in ClosingResponses /\ f.kind \in ClosingResponses => e = f
  /\ \A e \in events :
       /\ e.kind = "implicit" => /\ UsePrecharge /\ state = "OPEN"
                                 /\ next["activate"] <= e.when + tRP
                                 /\ \A c \in Constraint \ {"activate"} : next[c] >= e.when + tRP
       /\ e.kind = "precharge" => UsePrecharge /\ state = "PRECHARGING" /\ next["activate"] <= e.when
       /\ e.kind = "refresh" => state = "REFRESHING" /\ next["activate"] = e.when
  /\ NothingCloses => next["activate"] <= currentCycle
  /\ nextPreWrite["activate"] <= currentCycle

IInv == TypeOK /\ WriteInv /\ ClosingOK

\* The types of the row's variables.
RowTypes ==
  /\ p \in Configurations /\ currentCycle \in 0 .. Horizon /\ commandIssued \in BOOLEAN
  /\ state \in State /\ openRow \in Row \cup {NoRow}
  /\ next \in Waits /\ nextPreWrite \in Waits

\* The types of what the steps of a write change.
WriteTypes ==
  /\ isWriting \in BOOLEAN /\ writeEvent \in BOOLEAN
  /\ writeRequest \in Request \cup {NoRequest}
  /\ writeStart \in Nat /\ writeEnd \in Nat
  /\ writeIterationStarts \subseteq Nat
  /\ request \in [Request -> RequestType]

USE SubArrayAssumption
-----------------------------------------------------------------------------
LEMMA DelaysAreNatural ==
  {tRCD, tRAS, tRP, tAL, tCAS, tCWD, tBURST, tCCD, tWTR, tWR, tRTP, tRTRS, tRFC, tWP} \subseteq Nat
BY DEF Delays

LEMMA LaterIsNatural ==
  ASSUME NEW a \in Nat, NEW b \in Nat
  PROVE  Later(a, b) \in Nat /\ Later(a, b) >= a /\ Later(a, b) >= b /\ Later(a, b) \in {a, b}
BY DEF Later

\* A command moves some of the constraints, and none of them to an earlier cycle.
LEMMA NotBeforeProperties ==
  ASSUME NEW n \in Waits, NEW b, \A c \in DOMAIN b : b[c] \in Nat
  PROVE  /\ NotBefore(n, b) \in Waits
         /\ \A c \in Constraint \ DOMAIN b : NotBefore(n, b)[c] = n[c]
         /\ \A c \in Constraint \cap DOMAIN b : NotBefore(n, b)[c] = Later(n[c], b[c])
<1>1. \A c \in Constraint : n[c] \in Nat
  BY DEF Waits
<1>2. \A c \in Constraint : c \in DOMAIN b => Later(n[c], b[c]) \in Nat
  BY <1>1, LaterIsNatural
<1>3. QED
  BY <1>1, <1>2 DEF NotBefore, Waits

\* After an implicit precharge an activation comes first, and it waits for the
\* precharge to end.
LEMMA ClosedUntilProperties ==
  ASSUME NEW n \in Waits, NEW when \in Nat
  PROVE  /\ ClosedUntil(n, when) \in Waits
         /\ \A c \in Constraint : ClosedUntil(n, when)[c] >= when
         /\ n["activate"] <= when => ClosedUntil(n, when)["activate"] = when
<1> DEFINE a == Later(n["activate"], when)
           b == [activate |-> a, precharge |-> a, read |-> a, write |-> a]
<1>1. n["activate"] \in Nat
  BY DEF Waits, Constraint
<1>2. a \in Nat /\ a >= when /\ (n["activate"] <= when => a = when)
  BY <1>1 DEF Later
<1>3. DOMAIN b = Constraint /\ \A c \in Constraint : b[c] = a
  BY DEF Constraint
<1>4. ClosedUntil(n, when) = NotBefore(n, b)
  BY DEF ClosedUntil
<1> HIDE DEF b, a
<1>5. /\ NotBefore(n, b) \in Waits
      /\ \A c \in Constraint : NotBefore(n, b)[c] = Later(n[c], a)
  BY <1>2, <1>3, NotBeforeProperties
<1>6. \A c \in Constraint : Later(n[c], a) >= a
  BY <1>2, LaterIsNatural DEF Waits
<1>7. n["activate"] <= when => Later(n["activate"], a) = when
  BY <1>1, <1>2 DEF Later
<1>8. \A c \in Constraint : n[c] \in Nat /\ Later(n[c], a) \in Nat
  BY <1>2, LaterIsNatural DEF Waits
<1>9. QED
  BY <1>2, <1>4, <1>5, <1>6, <1>7, <1>8 DEF Constraint

LEMMA GreatestExists ==
  ASSUME NEW S, S \subseteq Nat, S # {}, NEW n \in Nat, \A x \in S : x <= n
  PROVE  \E x \in S : \A y \in S : y <= x
<1> DEFINE R == OpToRel(<, Nat)
           T == {n - x : x \in S}
<1>1. IsWellFoundedOn(R, Nat)
  BY NatLessThanWellFounded
<1>2. \A x, y \in Nat : y < x => <<y, x>> \in R
  BY DEF OpToRel
<1>3. T \subseteq Nat /\ T # {} /\ \A t \in T : n - t \in S
  OBVIOUS
<1>4. \A x \in S : n - x \in T
  OBVIOUS
<1> HIDE DEF R, T
<1>5. PICK t \in T : \A u \in T : ~ (<<u, t>> \in R)
  BY <1>1, <1>3, WFMin
<1>6. ASSUME NEW y \in S PROVE y <= n - t
  <2>1. n - y \in Nat /\ t \in Nat /\ ~ (n - y < t)
    BY <1>2, <1>3, <1>4, <1>5
  <2>2. QED
    BY <2>1
<1>7. QED
  BY <1>3, <1>5, <1>6

LEMMA CycleFacts ==
  ASSUME TypeOK
  PROVE  /\ currentCycle \in Nat /\ currentCycle <= Horizon
         /\ writeStart \in Nat /\ writeEnd \in Nat /\ writeIterationStarts \subseteq Nat
<1>1. currentCycle \in 0 .. Horizon
  BY Zenon DEF TypeOK
<1>2. writeStart \in Nat /\ writeEnd \in Nat /\ writeIterationStarts \subseteq Nat
  BY Zenon DEF TypeOK
<1>3. QED
  BY <1>1, <1>2

\* The iteration that an interruption loses has started.
LEMMA IterationStartIsNatural ==
  ASSUME TypeOK
  PROVE  IterationStart \in Nat
<1> DEFINE started == {s \in writeIterationStarts : s <= currentCycle}
<1>1. started \subseteq Nat /\ currentCycle \in Nat /\ writeStart \in Nat
  BY CycleFacts
<1>2. \A s \in started : s <= currentCycle
  OBVIOUS
<1> HIDE DEF started
<1>3. CASE started # {}
  <2>1. \E s \in started : \A r \in started : r <= s
    BY <1>1, <1>2, <1>3, GreatestExists
  <2>2. (CHOOSE s \in started : \A r \in started : r <= s) \in started
    BY <2>1
  <2>3. QED
    BY <1>1, <1>3, <2>2 DEF IterationStart, started
<1>4. CASE started = {}
  BY <1>1, <1>4 DEF IterationStart, started
<1>5. QED
  BY <1>3, <1>4

LEMMA Remainder ==
  ASSUME NEW a \in Int, NEW b \in Nat \ {0}
  PROVE  a % b \in Nat
OBVIOUS

LEMMA WriteProgressIsNatural ==
  ASSUME TypeOK
  PROVE  WriteProgress \in Nat
<1> DEFINE from == IF p.PauseMode = "Optimal" THEN currentCycle ELSE IterationStart
<1>1. from \in Nat /\ writeEnd \in Nat
  BY IterationStartIsNatural, CycleFacts
<1>2. CycleModulus \in Nat \ {0}
  BY DelaysAreNatural
<1>3. WriteProgress = (writeEnd - from) % CycleModulus
  BY DEF WriteProgress
<1> HIDE DEF from
<1>4. QED
  BY <1>1, <1>2, <1>3, Remainder

LEMMA InterruptedProperties ==
  ASSUME TypeOK, NEW r \in RequestType
  PROVE  /\ Interrupted(r) \in RequestType
         /\ Interrupted(r).where = r.where
         /\ r.forced \/ r.cancellations < MaxCancellations
              => Interrupted(r).forced \/ Interrupted(r).cancellations < MaxCancellations
         /\ r.progress = writeEnd - writeStart => Less(Left(Interrupted(r)), Left(r))
<1>1. WriteProgress \in Nat /\ writeEnd \in Nat /\ writeStart \in Nat
  BY WriteProgressIsNatural, CycleFacts
<1>2. CASE FarEnough
  <2>1. Interrupted(r) = [r EXCEPT !.progress = WriteProgress,
                                   !.paused = r.paused \/ WriteProgress # writeEnd]
    BY <1>2 DEF Interrupted
  <2>2. Interrupted(r) \in RequestType
    BY <2>1, <1>1 DEF RequestType
  <2>3. /\ Interrupted(r).where = r.where /\ Interrupted(r).forced = r.forced
        /\ Interrupted(r).cancellations = r.cancellations
        /\ Interrupted(r).progress = WriteProgress
    BY <2>1 DEF RequestType
  <2>4. r.progress = writeEnd - writeStart => WriteProgress < r.progress
    <3>1. /\ writeEnd - writeStart > 0
          /\ 10 * (writeEnd - writeStart - WriteProgress) > PauseThreshold * (writeEnd - writeStart)
      BY <1>2 DEF FarEnough
    <3>2. PauseThreshold * (writeEnd - writeStart) >= 0
      BY <1>1, <3>1
    <3>3. PauseThreshold * (writeEnd - writeStart) \in Int
      BY <1>1
    <3>4. writeEnd - writeStart - WriteProgress > 0
      BY <1>1, <3>1, <3>2, <3>3
    <3>5. QED
      BY <1>1, <3>4
  <2>5. r.progress = writeEnd - writeStart => Less(Left(Interrupted(r)), Left(r))
    BY <2>3, <2>4 DEF Less, Left
  <2>6. QED
    BY <2>2, <2>3, <2>5
<1>3. CASE ~ FarEnough
  <2> DEFINE cancellations == r.cancellations + 1
             forced == r.forced \/ cancellations >= MaxCancellations
  <2>1. Interrupted(r) = [r EXCEPT !.progress = WriteProgress, !.cancelled = TRUE,
                                   !.cancellations = cancellations, !.forced = forced]
    BY <1>3 DEF Interrupted
  <2>2. r.cancellations \in Nat /\ cancellations \in Nat /\ forced \in BOOLEAN
    BY DEF RequestType
  <2>3. cancellations >= MaxCancellations \/ cancellations < MaxCancellations
    BY <2>2
  <2>4. forced \/ cancellations < MaxCancellations
    BY <2>3, Zenon
  <2>5. MaxCancellations - cancellations < MaxCancellations - r.cancellations
    BY <2>2
  <2> HIDE DEF cancellations, forced
  <2>6. Interrupted(r) \in RequestType
    BY <2>1, <2>2, <1>1 DEF RequestType
  <2>7. /\ Interrupted(r).where = r.where
        /\ Interrupted(r).cancellations = cancellations
        /\ Interrupted(r).forced = forced
    BY <2>1 DEF RequestType
  <2>8. Less(Left(Interrupted(r)), Left(r))
    BY <2>5, <2>7 DEF Less, Left
  <2>9. QED
    BY <2>4, <2>6, <2>7, <2>8, Zenon
<1>4. QED
  BY <1>2, <1>3

LEMMA RequestFacts ==
  ASSUME TypeOK
  PROVE  request \in [Request -> RequestType]
BY Zenon DEF TypeOK, RequestType

LEMMA WriteTimerIsNatural ==
  ASSUME TypeOK, NEW w \in Request
  PROVE  WriteTimer(w) \in Nat
<1>1. request[w].progress \in Nat
  BY RequestFacts DEF RequestType
<1>2. tWP \in Nat
  BY DelaysAreNatural
<1>3. QED
  BY <1>1, <1>2 DEF WriteTimer

LEMMA IterationsAreNatural ==
  ASSUME NEW start \in Nat
  PROVE  IterationsFrom(start) \subseteq Nat
<1>1. tWP \div WriteIterations \in Nat
  BY DelaysAreNatural
<1>2. \A i \in 0 .. WriteIterations - 1 : i * (tWP \div WriteIterations) \in Nat
  BY <1>1
<1>3. QED
  BY <1>2 DEF IterationsFrom
-----------------------------------------------------------------------------
LEMMA ClosingIsTyped ==
  ASSUME TypeOK, NEW kind \in ClosingResponses, NEW when \in Nat, when >= currentCycle
  PROVE  {Response(kind, when, NoRequest)} \in Closings
BY DEF Response, ClosingEvent, Closings

LEMMA WritesStart ==
  ASSUME TypeOK, NEW w \in Request, Write(w) \/ WritePrecharge(w)
  PROVE  StartsAWrite
<1>1. CASE Write(w)
  <2>1. {} \in Closings
    BY DEF Closings
  <2>2. QED
    BY <1>1, <2>1 DEF Write, StartsAWrite
<1>2. CASE WritePrecharge(w)
  <2> DEFINE closing == currentCycle + tAL + tCWD + tBURST + WriteTimer(w) + tWR
  <2>1. {Response("implicit", closing, NoRequest)} \in Closings
    <3>1. closing \in Nat /\ closing >= currentCycle /\ "implicit" \in ClosingResponses
      BY CycleFacts, DelaysAreNatural, WriteTimerIsNatural DEF ClosingResponses
    <3>2. QED
      BY <3>1, ClosingIsTyped
  <2>2. StartWrite(w) /\ events' = events \cup {Completion(w), Response("implicit", closing, NoRequest)}
    BY <1>2 DEF WritePrecharge
  <2> HIDE DEF closing
  <2>3. QED
    BY <2>1, <2>2 DEF StartsAWrite
<1>3. QED
  BY <1>1, <1>2

LEMMA WritesAreTakenBack ==
  ASSUME WriteComplete \/ WriteReturned
  PROVE  TakesBack
<1>1. CASE WriteComplete
  BY <1>1 DEF WriteComplete, TakesBack, Due, WriteResponses, Responds
<1>2. CASE WriteReturned
  BY <1>2 DEF WriteReturned, TakesBack, Due, WriteResponses, Responds
<1>3. QED
  BY <1>1, <1>2

\* Every step is of one of these kinds.
LEMMA StepKinds ==
  ASSUME TypeOK, Next
  PROVE  \/ MayInterrupt \/ StartsAWrite \/ LeavesWrites \/ Closes \/ Cycle
         \/ WriteComplete \/ WriteReturned
<1>1. currentCycle \in Nat
  BY CycleFacts
<1>2. {} \in Closings
  BY DEF Closings
<1>3. ASSUME NEW row \in Row, NEW priority, Activate(row, priority) PROVE MayInterrupt
  BY <1>2, <1>3 DEF Activate, MayInterrupt
<1>4. ASSUME NEW row \in Row, Read(row) PROVE MayInterrupt
  BY <1>2, <1>4 DEF Read, StartRead, MayInterrupt
<1>5. ASSUME NEW row \in Row, ReadPrecharge(row) PROVE MayInterrupt
  <2>1. {Response("implicit", currentCycle + tAL + tRTP, NoRequest)} \in Closings
    <3>1. /\ currentCycle + tAL + tRTP \in Nat /\ currentCycle + tAL + tRTP >= currentCycle
          /\ "implicit" \in ClosingResponses
      BY <1>1, DelaysAreNatural DEF ClosingResponses
    <3>2. QED
      BY <3>1, ClosingIsTyped
  <2>2. QED
    BY <1>5, <2>1 DEF ReadPrecharge, StartRead, MayInterrupt
<1>6. ASSUME NEW w \in Request, Write(w) \/ WritePrecharge(w) PROVE StartsAWrite
  BY <1>6, WritesStart
<1>8. ASSUME Precharge PROVE LeavesWrites
  <2>1. {Response("precharge", currentCycle + tRP, NoRequest)} \in Closings
    <3>1. /\ currentCycle + tRP \in Nat /\ currentCycle + tRP >= currentCycle
          /\ "precharge" \in ClosingResponses
      BY <1>1, DelaysAreNatural DEF ClosingResponses
    <3>2. QED
      BY <3>1, ClosingIsTyped
  <2>2. QED
    BY <1>8, <2>1 DEF Precharge, LeavesWrites
<1>9. ASSUME Refresh PROVE LeavesWrites
  <2>1. {Response("refresh", currentCycle + tRFC, NoRequest)} \in Closings
    <3>1. /\ currentCycle + tRFC \in Nat /\ currentCycle + tRFC >= currentCycle
          /\ "refresh" \in ClosingResponses
      BY <1>1, DelaysAreNatural DEF ClosingResponses
    <3>2. QED
      BY <3>1, ClosingIsTyped
  <2>2. QED
    BY <1>9, <2>1 DEF Refresh, LeavesWrites
<1>10. ASSUME ImplicitPrecharge PROVE Closes
  <2>1. {Response("precharge", currentCycle + tRP, NoRequest)} \in Closings
    <3>1. /\ currentCycle + tRP \in Nat /\ currentCycle + tRP >= currentCycle
          /\ "precharge" \in ClosingResponses
      BY <1>1, DelaysAreNatural DEF ClosingResponses
    <3>2. QED
      BY <3>1, ClosingIsTyped
  <2>2. QED
    BY <1>10, <2>1 DEF ImplicitPrecharge, Closes, Due, ClosingResponses, Responds
<1>11. ASSUME PrechargeComplete PROVE Closes
  BY <1>2, <1>11 DEF PrechargeComplete, Closes, Due, ClosingResponses, Responds
<1>12. ASSUME RefreshComplete PROVE Closes
  BY <1>2, <1>12 DEF RefreshComplete, Closes, Due, ClosingResponses, Responds
<1>13. QED
  BY <1>3, <1>4, <1>5, <1>6, <1>8, <1>9, <1>10, <1>11, <1>12
  DEF Next, Command, RequestComplete
-----------------------------------------------------------------------------
(* The writes.                                                             *)

LEMMA WriteTypeFacts ==
  ASSUME TypeOK
  PROVE  WriteTypes
BY Zenon DEF TypeOK, WriteTypes, RequestType

LEMMA ResponsesOfClosings ==
  ASSUME NEW more \in Closings
  PROVE  /\ more \subseteq EventType
         /\ \A e \in more : e.kind \notin WriteResponses /\ e.when \in Nat /\ e.when >= currentCycle
BY DEF Closings, ClosingEvent, EventType, ClosingResponses, WriteResponses

\* A write that the subarray has started is the subarray's, ...
LEMMA WritingFacts ==
  ASSUME TypeOK, WriteInv, isWriting
  PROVE  writeRequest \in Request /\ request[writeRequest].where = "subarray"
<1>1. PICK e \in events : e.kind \in WriteResponses /\ e.req = writeRequest
  BY DEF WriteInv, PausesALiveWrite, WriteResponses
<1>2. QED
  BY <1>1 DEF WriteInv, WritesHaveResponses, IsResponseOf

\* ... and when a command is issued its completion is still to come: a return
\* would have been due in this cycle at the latest.
LEMMA LiveWhenIssuing ==
  ASSUME TypeOK, WriteInv, Issues, isWriting
  PROVE  writeEvent /\ \E e \in events : e.kind = "write" /\ e.req = writeRequest
<1>1. ~ commandIssued /\ currentCycle \in Nat
  BY CycleFacts DEF Issues
<1>2. ASSUME ~ writeEvent PROVE FALSE
  <2>1. PICK e \in events : e.when <= currentCycle + (IF commandIssued THEN 1 ELSE 0)
    BY <1>2 DEF WriteInv, PausesALiveWrite
  <2>2. e.when \in Nat /\ e.when >= currentCycle /\ e.when # currentCycle
    BY DEF WriteInv, EventsAreTyped, EventsAreAhead, EventType, Issues, Quiet
  <2>3. QED
    BY <1>1, <2>1, <2>2
<1>3. QED
  BY <1>2 DEF WriteInv, PausesALiveWrite

LEMMA LeavesWritesKeeps ==
  ASSUME TypeOK, WriteInv, LeavesWrites
  PROVE  WriteInv' /\ WriteTypes'
<1>1. PICK more \in Closings : Issues /\ UNCHANGED writeVars /\ events' = events \cup more
  BY DEF LeavesWrites
<1>2. /\ more \subseteq EventType
      /\ \A e \in more : e.kind \notin WriteResponses /\ e.when >= currentCycle
  BY ResponsesOfClosings
<1>3. /\ currentCycle' = currentCycle /\ currentCycle \in Nat
      /\ commandIssued' = TRUE /\ commandIssued = FALSE
      /\ UNCHANGED <<request, isWriting, writeEvent, writeRequest, writeStart, writeEnd,
                     writeIterationStarts>>
  BY <1>1, CycleFacts DEF Issues, writeVars, TypeOK
<1>4. EventsAreTyped' /\ EventsAreAhead'
  BY <1>1, <1>2, <1>3 DEF WriteInv, EventsAreTyped, EventsAreAhead
<1>5. WritesHaveResponses'
  BY <1>1, <1>2, <1>3 DEF WriteInv, WritesHaveResponses, IsResponseOf
<1>6. PausesALiveWrite'
  BY <1>1, <1>3, LiveWhenIssuing DEF WriteInv, PausesALiveWrite
<1>7. ProgressOK'
  BY <1>3 DEF WriteInv, ProgressOK
<1>8. WriteTypes'
  BY <1>3, WriteTypeFacts DEF WriteTypes
<1>9. QED
  BY <1>4, <1>5, <1>6, <1>7, <1>8 DEF WriteInv

LEMMA MayInterruptKeeps ==
  ASSUME TypeOK, WriteInv, MayInterrupt
  PROVE  WriteInv' /\ WriteTypes'
<1>1. PICK more \in Closings :
        Issues /\ ~ Forced /\ CheckWritePausing /\ events' = Rescheduled \cup more
  BY DEF MayInterrupt
<1>2. CASE ~ Pausing
  BY <1>1, <1>2, LeavesWritesKeeps DEF LeavesWrites, Rescheduled, CheckWritePausing, writeVars
<1>3. CASE Pausing
  <2> DEFINE w == writeRequest
             back == Response("returned", currentCycle + 1, w)
             stay == {e \in events : ~ (e.kind = "write" /\ e.req = w)}
  <2>1. isWriting /\ w \in Request /\ request[w].where = "subarray"
    BY <1>3, WritingFacts DEF Pausing
  <2>2. PICK completion \in events : completion.kind = "write" /\ completion.req = w
    BY <1>1, <2>1, LiveWhenIssuing
  <2>3. /\ request' = [request EXCEPT ![w] = Interrupted(request[w])] /\ writeEvent' = FALSE
        /\ UNCHANGED <<isWriting, writeRequest, writeStart, writeEnd, writeIterationStarts>>
        /\ events' = (stay \cup {back}) \cup more
    BY <1>1, <1>3 DEF CheckWritePausing, Rescheduled
  <2>4. /\ currentCycle' = currentCycle /\ currentCycle \in Nat /\ commandIssued' = TRUE
    BY <1>1, CycleFacts DEF Issues
  <2>5. /\ more \subseteq EventType
        /\ \A e \in more : e.kind \notin WriteResponses /\ e.when >= currentCycle
    BY <1>1, ResponsesOfClosings
  <2>6. /\ back \in EventType /\ back.kind = "returned" /\ back.req = w
        /\ back.when = currentCycle + 1
    BY <2>1, <2>4 DEF Response, EventType, WriteResponses
  <2>7. \A e \in stay : ~ IsResponseOf(e, w)
    <3>1. \A e \in events : IsResponseOf(e, w) => e = completion
      BY <2>1, <2>2 DEF WriteInv, WritesHaveResponses, IsResponseOf, WriteResponses
    <3>2. QED
      BY <2>2, <3>1
  <2>8. \A e \in events : ~ IsResponseOf(e, w) => e \in stay
    BY DEF IsResponseOf, WriteResponses
  <2>9. stay \subseteq events
    OBVIOUS
  <2> HIDE DEF back, stay, w
  <2>10. request \in [Request -> RequestType]
    BY RequestFacts
  <2>11. /\ Interrupted(request[w]) \in RequestType
         /\ Interrupted(request[w]).where = request[w].where
         /\ request[w].forced \/ request[w].cancellations < MaxCancellations
              => Interrupted(request[w]).forced
                   \/ Interrupted(request[w]).cancellations < MaxCancellations
    BY <2>1, <2>10, InterruptedProperties
  <2>12. EventsAreTyped' /\ EventsAreAhead'
    BY <2>3, <2>4, <2>5, <2>6, <2>9 DEF WriteInv, EventsAreTyped, EventsAreAhead
  <2>13. \A v \in Request : request'[v].where = request[v].where
    BY <2>1, <2>3, <2>10, <2>11
  <2>14. /\ \A e \in events' : IsResponseOf(e, w) <=> e = back
         /\ back \in events'
    BY <2>3, <2>5, <2>6, <2>7 DEF IsResponseOf, WriteResponses
  <2>15. \A v \in Request : \A e :
           v # w => (e \in events' /\ IsResponseOf(e, v) <=> e \in events /\ IsResponseOf(e, v))
    BY <2>3, <2>5, <2>6, <2>8, <2>9 DEF IsResponseOf, WriteResponses
  <2>16. \A e \in events' : e.kind \in WriteResponses => e.req \in Request
    BY <2>1, <2>3, <2>5, <2>6, <2>9 DEF WriteInv, WritesHaveResponses
  <2>17. WritesHaveResponses'
    <3>1. ASSUME NEW v \in Request
          PROVE  /\ request'[v].where = "subarray" => \E e \in events' : IsResponseOf(e, v)
                 /\ \A e \in events' : IsResponseOf(e, v) => request'[v].where = "subarray"
                 /\ \A e, f \in events' : IsResponseOf(e, v) /\ IsResponseOf(f, v) => e = f
      <4>1. CASE v = w
        BY <4>1, <2>1, <2>13, <2>14
      <4>2. CASE v # w
        BY <4>2, <2>13, <2>15 DEF WriteInv, WritesHaveResponses
      <4>3. QED
        BY <4>1, <4>2
    <3>2. QED
      BY <2>16, <3>1 DEF WritesHaveResponses, IsResponseOf
  <2>18. PausesALiveWrite'
    <3>1. back.when <= currentCycle' + (IF commandIssued' THEN 1 ELSE 0)
      BY <2>4, <2>6
    <3>2. writeRequest' = w /\ writeEvent' = FALSE
      BY <2>3 DEF w
    <3>3. QED
      BY <2>6, <2>14, <3>1, <3>2 DEF PausesALiveWrite
  <2>19. ProgressOK'
    BY <2>1, <2>3, <2>10, <2>11 DEF WriteInv, ProgressOK
  <2>20. WriteTypes'
    BY <2>1, <2>3, <2>10, <2>11, WriteTypeFacts DEF WriteTypes
  <2>21. QED
    BY <2>12, <2>17, <2>18, <2>19, <2>20 DEF WriteInv
<1>4. QED
  BY <1>2, <1>3

LEMMA StartsAWriteKeeps ==
  ASSUME TypeOK, WriteInv, StartsAWrite
  PROVE  WriteInv' /\ WriteTypes'
<1>1. PICK w \in Request, more \in Closings :
        StartWrite(w) /\ events' = (events \cup {Completion(w)}) \cup more
  BY DEF StartsAWrite
<1> DEFINE timer == WriteTimer(w)
           done == Completion(w)
<1>2. /\ currentCycle' = currentCycle /\ currentCycle \in Nat
  BY <1>1, CycleFacts DEF StartWrite, Issues
<1>3. timer \in Nat
  BY WriteTimerIsNatural
<1>4. /\ done \in EventType /\ done.kind = "write" /\ done.req = w
      /\ done.when >= currentCycle
  <2>1. Later(tBURST, tCCD) \in Nat
    BY DelaysAreNatural, LaterIsNatural
  <2>2. /\ currentCycle + tCWD + Later(tBURST, tCCD) + timer \in Nat
        /\ currentCycle + tCWD + Later(tBURST, tCCD) + timer >= currentCycle
    BY <1>2, <1>3, <2>1, DelaysAreNatural
  <2>3. QED
    BY <2>2 DEF Completion, Response, EventType, WriteResponses
<1>5. /\ request[w].where = "controller"
      /\ request' = [request EXCEPT ![w] = [request[w] EXCEPT !.where = "subarray", !.progress = timer,
                                                    !.paused = FALSE, !.cancelled = FALSE]]
      /\ isWriting' = TRUE /\ writeRequest' = w /\ writeStart' = currentCycle
      /\ writeEnd' = currentCycle + timer /\ writeEvent' = TRUE
      /\ writeIterationStarts' = IterationsFrom(currentCycle)
  BY <1>1 DEF StartWrite
<1> HIDE DEF timer, done
<1>6. /\ more \subseteq EventType
      /\ \A e \in more : e.kind \notin WriteResponses /\ e.when >= currentCycle
  BY <1>1, ResponsesOfClosings
<1>7. events' = (events \cup {done}) \cup more
  BY <1>1 DEF done
<1>8. request \in [Request -> RequestType]
  BY RequestFacts
<1>9. /\ request' \in [Request -> RequestType]
      /\ request'[w].where = "subarray" /\ request'[w].progress = timer
      /\ request'[w].forced = request[w].forced
      /\ request'[w].cancellations = request[w].cancellations
      /\ \A v \in Request : v # w => request'[v] = request[v]
  <2> DEFINE r == [request[w] EXCEPT !.where = "subarray", !.progress = timer,
                                     !.paused = FALSE, !.cancelled = FALSE]
  <2>1. /\ r \in RequestType /\ r.where = "subarray" /\ r.progress = timer
        /\ r.forced = request[w].forced /\ r.cancellations = request[w].cancellations
    BY <1>3, <1>8 DEF RequestType
  <2>2. request' = [request EXCEPT ![w] = r]
    BY <1>5
  <2> HIDE DEF r
  <2>3. QED
    BY <1>8, <2>1, <2>2
<1>10. EventsAreTyped' /\ EventsAreAhead'
  BY <1>2, <1>4, <1>6, <1>7 DEF WriteInv, EventsAreTyped, EventsAreAhead
<1>11. \A e \in events : ~ IsResponseOf(e, w)
  BY <1>5 DEF WriteInv, WritesHaveResponses
<1>12. /\ \A e \in events' : IsResponseOf(e, w) <=> e = done
       /\ done \in events'
  BY <1>4, <1>6, <1>7, <1>11 DEF IsResponseOf, WriteResponses
<1>13. \A v \in Request : \A e :
         v # w => (e \in events' /\ IsResponseOf(e, v) <=> e \in events /\ IsResponseOf(e, v))
  BY <1>4, <1>6, <1>7 DEF IsResponseOf, WriteResponses
<1>14. \A e \in events' : e.kind \in WriteResponses => e.req \in Request
  BY <1>4, <1>6, <1>7 DEF WriteInv, WritesHaveResponses
<1>15. WritesHaveResponses'
  <2>1. ASSUME NEW v \in Request
        PROVE  /\ request'[v].where = "subarray" => \E e \in events' : IsResponseOf(e, v)
               /\ \A e \in events' : IsResponseOf(e, v) => request'[v].where = "subarray"
               /\ \A e, f \in events' : IsResponseOf(e, v) /\ IsResponseOf(f, v) => e = f
    <3>1. CASE v = w
      BY <3>1, <1>9, <1>12
    <3>2. CASE v # w
      BY <3>2, <1>9, <1>13 DEF WriteInv, WritesHaveResponses
    <3>3. QED
      BY <3>1, <3>2
  <2>2. QED
    BY <1>14, <2>1 DEF WritesHaveResponses, IsResponseOf
<1>16. PausesALiveWrite'
  BY <1>2, <1>4, <1>5, <1>12 DEF PausesALiveWrite
<1>17. ProgressOK'
  <2>1. writeEnd' - writeStart' = timer
    BY <1>2, <1>3, <1>5
  <2>2. QED
    BY <1>5, <1>9, <2>1 DEF WriteInv, ProgressOK
<1>18. WriteTypes'
  <2>1. writeStart' \in Nat /\ writeEnd' \in Nat /\ writeIterationStarts' \subseteq Nat
    BY <1>2, <1>3, <1>5, IterationsAreNatural
  <2>2. QED
    BY <1>5, <1>9, <2>1 DEF WriteTypes
<1>19. QED
  BY <1>10, <1>15, <1>16, <1>17, <1>18 DEF WriteInv

LEMMA TakesBackKeeps ==
  ASSUME TypeOK, WriteInv, TakesBack
  PROVE  WriteInv' /\ WriteTypes'
<1>1. PICK e \in events, place \in {"controller", "done"} :
        /\ e.kind \in WriteResponses
        /\ events' = events \ {e}
        /\ isWriting' = (isWriting /\ writeRequest # e.req)
        /\ request' = [request EXCEPT ![e.req].where = place]
        /\ KeepsWriting /\ UNCHANGED <<currentCycle, commandIssued>>
  BY DEF TakesBack
<1> DEFINE w == e.req
<1>2. w \in Request /\ IsResponseOf(e, w)
  BY <1>1 DEF WriteInv, WritesHaveResponses, IsResponseOf
<1>3. /\ UNCHANGED <<writeStart, writeEnd, writeRequest, writeEvent, writeIterationStarts>>
      /\ currentCycle' = currentCycle /\ commandIssued' = commandIssued
  BY <1>1 DEF KeepsWriting
<1>4. isWriting' => isWriting /\ writeRequest # w
  BY <1>1
<1>5. \A f \in events : IsResponseOf(f, w) => f = e
  BY <1>1, <1>2 DEF WriteInv, WritesHaveResponses
<1>6. request \in [Request -> RequestType]
  BY RequestFacts
<1>7. /\ request' \in [Request -> RequestType]
      /\ request'[w].where = place
      /\ \A v \in Request : /\ v # w => request'[v] = request[v]
                            /\ request'[v].forced = request[v].forced
                            /\ request'[v].cancellations = request[v].cancellations
  <2> DEFINE r == [request[w] EXCEPT !.where = place]
  <2>1. /\ r \in RequestType /\ r.where = place
        /\ r.forced = request[w].forced /\ r.cancellations = request[w].cancellations
    BY <1>2, <1>6 DEF RequestType
  <2>2. request' = [request EXCEPT ![w] = r]
    BY <1>1
  <2> HIDE DEF r, w
  <2>3. QED
    BY <1>2, <1>6, <2>1, <2>2
<1>8. place # "subarray"
  OBVIOUS
<1>9. events' = events \ {e}
  BY <1>1
<1>10. w # writeRequest => \A f \in events : f.req = writeRequest => f \in events'
  BY <1>9
<1>11. isWriting' \in BOOLEAN
  BY <1>1
<1> HIDE DEF w
<1>12. EventsAreTyped' /\ EventsAreAhead'
  BY <1>3, <1>9 DEF WriteInv, EventsAreTyped, EventsAreAhead
<1>13. WritesHaveResponses'
  <2>1. ASSUME NEW v \in Request
        PROVE  /\ request'[v].where = "subarray" => \E f \in events' : IsResponseOf(f, v)
               /\ \A f \in events' : IsResponseOf(f, v) => request'[v].where = "subarray"
               /\ \A f, g \in events' : IsResponseOf(f, v) /\ IsResponseOf(g, v) => f = g
    <3>1. CASE v = w
      BY <3>1, <1>5, <1>7, <1>8, <1>9
    <3>2. CASE v # w
      <4>1. \A f : IsResponseOf(f, v) => f # e
        BY <3>2, <1>2 DEF IsResponseOf
      <4>2. request'[v].where = request[v].where
        BY <3>2, <1>7
      <4>3. QED
        BY <4>1, <4>2, <1>9 DEF WriteInv, WritesHaveResponses
    <3>3. QED
      BY <3>1, <3>2
  <2>2. \A f \in events' : f.kind \in WriteResponses => f.req \in Request
    BY <1>9 DEF WriteInv, WritesHaveResponses
  <2>3. QED
    BY <2>1, <2>2 DEF WritesHaveResponses, IsResponseOf
<1>14. PausesALiveWrite'
  BY <1>3, <1>4, <1>10 DEF WriteInv, PausesALiveWrite
<1>15. ProgressOK'
  <2>1. isWriting' => request'[writeRequest] = request[writeRequest]
    BY <1>4, <1>7, WritingFacts
  <2>2. QED
    BY <1>3, <1>4, <1>7, <2>1 DEF WriteInv, ProgressOK
<1>16. WriteTypes'
  BY <1>3, <1>7, <1>11, WriteTypeFacts DEF WriteTypes
<1>17. QED
  BY <1>12, <1>13, <1>14, <1>15, <1>16 DEF WriteInv

LEMMA ClosesKeeps ==
  ASSUME TypeOK, WriteInv, Closes
  PROVE  WriteInv' /\ WriteTypes'
<1>1. PICK e \in events, more \in Closings :
        /\ e.kind \in ClosingResponses
        /\ events' = (events \ {e}) \cup more
        /\ UNCHANGED <<writeVars, currentCycle, commandIssued>>
  BY DEF Closes
<1>2. /\ more \subseteq EventType
      /\ \A f \in more : f.kind \notin WriteResponses /\ f.when >= currentCycle
  BY ResponsesOfClosings
<1>3. e.kind \notin WriteResponses
  BY <1>1 DEF ClosingResponses, WriteResponses
<1>4. UNCHANGED <<request, isWriting, writeEvent, writeRequest, writeStart, writeEnd,
                  writeIterationStarts, currentCycle, commandIssued>>
  BY <1>1 DEF writeVars
<1>5. \A f : f.kind \in WriteResponses => (f \in events' <=> f \in events)
  BY <1>1, <1>2, <1>3
<1>6. EventsAreTyped' /\ EventsAreAhead'
  BY <1>1, <1>2, <1>4 DEF WriteInv, EventsAreTyped, EventsAreAhead
<1>7. WritesHaveResponses'
  BY <1>4, <1>5 DEF WriteInv, WritesHaveResponses, IsResponseOf
<1>8. PausesALiveWrite'
  BY <1>4, <1>5 DEF WriteInv, PausesALiveWrite, WriteResponses
<1>9. ProgressOK' /\ WriteTypes'
  BY <1>4, WriteTypeFacts DEF WriteInv, ProgressOK, WriteTypes
<1>10. QED
  BY <1>6, <1>7, <1>8, <1>9 DEF WriteInv

LEMMA CycleKeeps ==
  ASSUME TypeOK, WriteInv, Cycle
  PROVE  WriteInv' /\ WriteTypes'
<1>1. /\ currentCycle' = currentCycle + 1 /\ commandIssued' = FALSE
      /\ UNCHANGED <<request, isWriting, writeEvent, writeRequest, writeStart, writeEnd,
                     writeIterationStarts, events>>
  BY DEF Cycle, writeVars
<1>2. currentCycle \in Nat
  BY CycleFacts
<1>3. EventsAreAhead'
  <2>1. ASSUME NEW e \in events PROVE e.when >= currentCycle + 1
    <3>1. e.when \in Nat /\ e.when >= currentCycle /\ e.when # currentCycle
      BY DEF WriteInv, EventsAreTyped, EventsAreAhead, EventType, Cycle, Quiet
    <3>2. QED
      BY <1>2, <3>1
  <2>2. QED
    BY <1>1, <2>1 DEF EventsAreAhead
<1>4. PausesALiveWrite'
  <2>1. \A e \in events : e.when \in Nat
    BY DEF WriteInv, EventsAreTyped, EventType
  <2>2. CASE writeEvent
    BY <2>2, <1>1, <1>3 DEF WriteInv, PausesALiveWrite, EventsAreAhead
  <2>3. CASE ~ writeEvent
    BY <2>1, <2>3, <1>1, <1>2 DEF WriteInv, PausesALiveWrite
  <2>4. QED
    BY <2>2, <2>3
<1>5. EventsAreTyped' /\ WritesHaveResponses' /\ ProgressOK' /\ WriteTypes'
  BY <1>1, WriteTypeFacts
  DEF WriteInv, EventsAreTyped, WritesHaveResponses, IsResponseOf, ProgressOK, WriteTypes
<1>6. QED
  BY <1>3, <1>4, <1>5 DEF WriteInv

LEMMA WritesStep ==
  ASSUME TypeOK, WriteInv, Next
  PROVE  WriteInv' /\ WriteTypes'
BY StepKinds, MayInterruptKeeps, StartsAWriteKeeps, LeavesWritesKeeps, WritesAreTakenBack,
   TakesBackKeeps, ClosesKeeps, CycleKeeps
-----------------------------------------------------------------------------
(* The row.                                                                *)

LEMMA RowTypeFacts ==
  ASSUME TypeOK
  PROVE  RowTypes
BY Zenon DEF TypeOK, RowTypes, Waits

LEMMA WaitFacts ==
  ASSUME TypeOK
  PROVE  /\ next \in Waits /\ nextPreWrite \in Waits /\ currentCycle \in Nat
         /\ \A c \in Constraint : next[c] \in Nat /\ nextPreWrite[c] \in Nat
         /\ next.activate = next["activate"] /\ next.read = next["read"]
         /\ next.write = next["write"] /\ next.precharge = next["precharge"]
BY RowTypeFacts, CycleFacts DEF RowTypes, Waits, Constraint

\* IsIssuable's tests, one for each kind of command.
MayOpen == next["activate"] <= currentCycle /\ (UsePrecharge => state = "CLOSED")
MayRead == next["read"] <= currentCycle /\ state = "OPEN"
MayWrite == next["write"] <= currentCycle /\ state = "OPEN"
MayPrecharge == UsePrecharge /\ next["precharge"] <= currentCycle /\ state \in {"OPEN", "CLOSED"}

\* While the row closes no command is issued.
LEMMA CommandsFindNothingClosing ==
  ASSUME IInv, Issues, MayOpen \/ MayRead \/ MayWrite \/ MayPrecharge
  PROVE  /\ NothingCloses /\ next["activate"] <= currentCycle
         /\ Restored \in Waits /\ Restored["activate"] <= currentCycle
<1>1. NothingCloses
  <2>1. SUFFICES ASSUME NEW e \in events, e.kind \in ClosingResponses
                 PROVE  FALSE
    BY DEF NothingCloses
  <2>2. e.when \in Nat /\ currentCycle \in Nat /\ e.when > currentCycle /\ tRP \in Nat
    <3>1. e.when \in Nat /\ e.when >= currentCycle /\ e.when # currentCycle
      BY DEF IInv, WriteInv, EventsAreTyped, EventsAreAhead, EventType, Issues, Quiet
    <3>2. currentCycle \in Nat /\ tRP \in Nat
      BY CycleFacts, DelaysAreNatural DEF IInv
    <3>3. QED
      BY <3>1, <3>2
  <2>3. \A c \in Constraint : next[c] \in Nat
    BY WaitFacts DEF IInv
  <2>4. CASE e.kind = "implicit"
    <3>1. /\ UsePrecharge /\ state = "OPEN"
          /\ \A c \in {"precharge", "read", "write"} : next[c] >= e.when + tRP
      BY <2>4 DEF IInv, ClosingOK, Constraint
    <3>2. QED
      BY <2>2, <2>3, <3>1 DEF MayOpen, MayRead, MayWrite, MayPrecharge, Constraint
  <2>5. CASE e.kind = "precharge"
    BY <2>5 DEF IInv, ClosingOK, MayOpen, MayRead, MayWrite, MayPrecharge
  <2>6. CASE e.kind = "refresh"
    <3>1. state = "REFRESHING" /\ next["activate"] = e.when
      BY <2>6 DEF IInv, ClosingOK
    <3>2. QED
      BY <2>2, <3>1 DEF MayOpen, MayRead, MayWrite, MayPrecharge
  <2>7. QED
    BY <2>1, <2>4, <2>5, <2>6 DEF ClosingResponses
<1>2. next["activate"] <= currentCycle /\ nextPreWrite["activate"] <= currentCycle
  BY <1>1 DEF IInv, ClosingOK
<1>3. QED
  BY <1>1, <1>2, WaitFacts DEF IInv, Restored

\* What a step leaves under way when it starts no precharge and no refresh, ...
LEMMA StillNothingCloses ==
  ASSUME NothingCloses, \A e \in events' : e.kind \in ClosingResponses => e \in events,
         next'["activate"] <= currentCycle', nextPreWrite'["activate"] <= currentCycle'
  PROVE  ClosingOK'
<1>1. \A e \in events' : e.kind \notin ClosingResponses
  BY DEF NothingCloses
<1>2. QED
  BY <1>1 DEF ClosingOK, NothingCloses, ClosingResponses

\* ... and when it starts one.
LEMMA StartsToClose ==
  ASSUME NEW new, new.kind \in ClosingResponses, new \in events',
         \A e \in events' : e.kind \in ClosingResponses => e = new,
         new.kind = "implicit" =>
           /\ UsePrecharge' /\ state' = "OPEN" /\ next'["activate"] <= new.when + tRP
           /\ \A c \in Constraint \ {"activate"} : next'[c] >= new.when + tRP,
         new.kind = "precharge" =>
           UsePrecharge' /\ state' = "PRECHARGING" /\ next'["activate"] <= new.when,
         new.kind = "refresh" => state' = "REFRESHING" /\ next'["activate"] = new.when,
         nextPreWrite'["activate"] <= currentCycle'
  PROVE  ClosingOK'
<1>1. ~ NothingCloses'
  BY DEF NothingCloses
<1>2. QED
  BY <1>1 DEF ClosingOK, ClosingResponses

\* An interrupted write has no closing response.
LEMMA RescheduledClosesNothing ==
  ASSUME NEW e \in Rescheduled, e.kind \in ClosingResponses
  PROVE  e \in events
BY DEF Rescheduled, Response, ClosingResponses

\* An activation or a read: the columns and the precharge have to wait.
LEMMA ColumnsWait ==
  ASSUME IInv, UNCHANGED p, Issues, MayOpen \/ MayRead, nextPreWrite' = nextPreWrite,
         events' = Rescheduled, openRow' \in Row \cup {NoRow}, state' \in State,
         NEW b, DOMAIN b = {"precharge", "read", "write"}, \A c \in DOMAIN b : b[c] \in Nat,
         next' = NotBefore(Restored, b)
  PROVE  RowTypes' /\ ClosingOK'
<1>1. NothingCloses /\ Restored \in Waits /\ Restored["activate"] <= currentCycle
  BY CommandsFindNothingClosing
<1>2. currentCycle' = currentCycle /\ currentCycle \in Nat /\ commandIssued' = TRUE
  BY CycleFacts DEF Issues, IInv
<1>3. next' \in Waits /\ next'["activate"] = Restored["activate"]
  BY <1>1, NotBeforeProperties DEF Constraint
<1>4. RowTypes'
  BY <1>2, <1>3, RowTypeFacts DEF RowTypes, IInv
<1>5. nextPreWrite'["activate"] <= currentCycle'
  BY <1>2 DEF IInv, ClosingOK
<1>6. ClosingOK'
  BY <1>1, <1>2, <1>3, <1>5, StillNothingCloses, RescheduledClosesNothing
<1>7. QED
  BY <1>4, <1>6

LEMMA ActivateKeeps ==
  ASSUME IInv, UNCHANGED p, NEW row \in Row, NEW priority, Activate(row, priority)
  PROVE  RowTypes' /\ ClosingOK'
<1> DEFINE b == [precharge |-> currentCycle + Later(tRCD, tRAS),
                 read      |-> currentCycle + tRCD - tAL,
                 write     |-> currentCycle + tRCD - tAL]
<1>1. /\ Issues /\ MayOpen /\ nextPreWrite' = nextPreWrite
      /\ next' = NotBefore(Restored, b) /\ events' = Rescheduled
      /\ openRow' \in Row \cup {NoRow} /\ state' \in State
  BY WaitFacts DEF Activate, MayOpen, CheckWritePausing, State, IInv
<1>2. currentCycle + Later(tRCD, tRAS) \in Nat /\ currentCycle + tRCD - tAL \in Nat
  BY CycleFacts, DelaysAreNatural DEF Later, IInv
<1>3. DOMAIN b = {"precharge", "read", "write"} /\ \A c \in DOMAIN b : b[c] \in Nat
  BY <1>2
<1> HIDE DEF b
<1>4. QED
  BY <1>1, <1>3, ColumnsWait

LEMMA ReadKeeps ==
  ASSUME IInv, UNCHANGED p, NEW row \in Row, Read(row)
  PROVE  RowTypes' /\ ClosingOK'
<1> DEFINE b == [precharge |-> currentCycle + tAL + tBURST + tRTP - tCCD,
                 read      |-> currentCycle + Later(tBURST, tCCD),
                 write     |-> currentCycle + tCAS + tBURST + tRTRS - tCWD]
<1>1. /\ Issues /\ MayRead /\ nextPreWrite' = nextPreWrite
      /\ next' = NotBefore(Restored, b) /\ events' = Rescheduled
      /\ openRow' \in Row \cup {NoRow} /\ state' \in State
  BY WaitFacts, RowTypeFacts DEF Read, StartRead, MayRead, CheckWritePausing, RowTypes, IInv
<1>2. /\ currentCycle + tAL + tBURST + tRTP - tCCD \in Nat
      /\ currentCycle + Later(tBURST, tCCD) \in Nat
      /\ currentCycle + tCAS + tBURST + tRTRS - tCWD \in Nat
  BY CycleFacts, DelaysAreNatural DEF Later, IInv
<1>3. DOMAIN b = {"precharge", "read", "write"} /\ \A c \in DOMAIN b : b[c] \in Nat
  BY <1>2
<1> HIDE DEF b
<1>4. QED
  BY <1>1, <1>3, ColumnsWait

LEMMA ReadPrechargeKeeps ==
  ASSUME IInv, UNCHANGED p, NEW row \in Row, ReadPrecharge(row)
  PROVE  RowTypes' /\ ClosingOK'
<1> DEFINE closing == currentCycle + tAL + tRTP
           new == Response("implicit", closing, NoRequest)
<1>1. /\ Issues /\ MayRead /\ UsePrecharge /\ nextPreWrite' = nextPreWrite
      /\ next' = ClosedUntil(Restored, currentCycle + tAL + tRTP + tRP)
      /\ events' = Rescheduled \cup {new}
      /\ openRow' = openRow /\ state' = state
  BY WaitFacts DEF ReadPrecharge, StartRead, MayRead, CheckWritePausing, IInv
<1>2. NothingCloses /\ Restored \in Waits /\ Restored["activate"] <= currentCycle
  BY <1>1, CommandsFindNothingClosing
<1>3. currentCycle' = currentCycle /\ currentCycle \in Nat /\ commandIssued' = TRUE
  BY <1>1, CycleFacts DEF Issues, IInv
<1>4. /\ closing + tRP \in Nat /\ closing \in Nat
      /\ currentCycle <= closing + tRP /\ currentCycle + tAL + tRTP + tRP = closing + tRP
  BY <1>3, DelaysAreNatural
<1>5. /\ new.kind = "implicit" /\ new.when = closing
  BY DEF Response
<1> HIDE DEF closing, new
<1>6. Restored["activate"] <= closing + tRP
  BY <1>2, <1>3, <1>4 DEF Waits, Constraint
<1>7. /\ next' \in Waits /\ next'["activate"] = closing + tRP
      /\ \A c \in Constraint : next'[c] >= closing + tRP
  BY <1>1, <1>2, <1>4, <1>6, ClosedUntilProperties
<1>8. next'["activate"] <= closing + tRP
  BY <1>4, <1>7
<1>9. RowTypes'
  BY <1>1, <1>3, <1>7, RowTypeFacts DEF RowTypes, State, IInv
<1>10. nextPreWrite'["activate"] <= currentCycle'
  BY <1>1, <1>3 DEF IInv, ClosingOK
<1>11. \A e \in events' : e.kind \in ClosingResponses => e = new
  BY <1>1, <1>2, RescheduledClosesNothing DEF NothingCloses
<1>12. new.kind \in ClosingResponses /\ new \in events'
  BY <1>1, <1>5 DEF ClosingResponses
<1>13. UsePrecharge' /\ state' = "OPEN"
  BY <1>1 DEF UsePrecharge, MayRead
<1>14. ClosingOK'
  BY <1>5, <1>7, <1>8, <1>10, <1>11, <1>12, <1>13, StartsToClose
<1>15. QED
  BY <1>9, <1>14

LEMMA WriteKeeps ==
  ASSUME IInv, UNCHANGED p, NEW w \in Request, Write(w)
  PROVE  RowTypes' /\ ClosingOK'
<1> DEFINE b == [precharge |-> currentCycle + tAL + tCWD + tBURST + WriteTimer(w) + tWR,
                 read      |-> currentCycle + tCWD + tBURST + tWTR + WriteTimer(w),
                 write     |-> currentCycle + Later(tBURST, tCCD) + WriteTimer(w)]
<1>1. /\ Issues /\ MayWrite /\ nextPreWrite' = next
      /\ next' = NotBefore(next, b) /\ events' = events \cup {Completion(w)}
      /\ openRow' = openRow /\ state' = state
  BY WaitFacts DEF Write, StartWrite, MayWrite, IInv
<1>2. NothingCloses /\ next["activate"] <= currentCycle
  BY <1>1, CommandsFindNothingClosing
<1>3. currentCycle' = currentCycle /\ currentCycle \in Nat /\ commandIssued' = TRUE
  BY <1>1, CycleFacts DEF Issues, IInv
<1>4. DOMAIN b = {"precharge", "read", "write"} /\ \A c \in DOMAIN b : b[c] \in Nat
  <2>1. WriteTimer(w) \in Nat /\ Later(tBURST, tCCD) \in Nat
    BY WriteTimerIsNatural, DelaysAreNatural, LaterIsNatural DEF IInv
  <2>2. /\ currentCycle + tAL + tCWD + tBURST + WriteTimer(w) + tWR \in Nat
        /\ currentCycle + tCWD + tBURST + tWTR + WriteTimer(w) \in Nat
        /\ currentCycle + Later(tBURST, tCCD) + WriteTimer(w) \in Nat
    BY <1>3, <2>1, DelaysAreNatural
  <2>3. QED
    BY <2>2
<1> HIDE DEF b
<1>5. next \in Waits
  BY WaitFacts DEF IInv
<1>6. next' \in Waits /\ next'["activate"] = next["activate"]
  BY <1>1, <1>4, <1>5, NotBeforeProperties DEF Constraint
<1>7. RowTypes'
  BY <1>1, <1>3, <1>5, <1>6, RowTypeFacts DEF RowTypes, IInv
<1>8. \A e \in events' : e.kind \in ClosingResponses => e \in events
  BY <1>1 DEF Completion, Response, ClosingResponses
<1>9. ClosingOK'
  BY <1>1, <1>2, <1>3, <1>6, <1>8, StillNothingCloses
<1>10. QED
  BY <1>7, <1>9

LEMMA WritePrechargeKeeps ==
  ASSUME IInv, UNCHANGED p, NEW w \in Request, WritePrecharge(w)
  PROVE  RowTypes' /\ ClosingOK'
<1> DEFINE closing == currentCycle + tAL + tCWD + tBURST + WriteTimer(w) + tWR
           new == Response("implicit", closing, NoRequest)
<1>1. /\ Issues /\ MayWrite /\ UsePrecharge /\ nextPreWrite' = next
      /\ next' = ClosedUntil(next, closing + tRP)
      /\ events' = events \cup {Completion(w), new}
      /\ openRow' = openRow /\ state' = state
  BY WaitFacts DEF WritePrecharge, StartWrite, MayWrite, IInv
<1>2. NothingCloses /\ next["activate"] <= currentCycle
  BY <1>1, CommandsFindNothingClosing
<1>3. currentCycle' = currentCycle /\ currentCycle \in Nat /\ commandIssued' = TRUE
  BY <1>1, CycleFacts DEF Issues, IInv
<1>4. closing + tRP \in Nat /\ closing \in Nat /\ currentCycle <= closing + tRP
  BY <1>3, DelaysAreNatural, WriteTimerIsNatural DEF IInv
<1>5. /\ new.kind = "implicit" /\ new.when = closing
  BY DEF Response
<1> HIDE DEF closing, new
<1>6. next \in Waits /\ next["activate"] <= closing + tRP
  BY <1>2, <1>3, <1>4, WaitFacts DEF IInv, Waits, Constraint
<1>7. /\ next' \in Waits /\ next'["activate"] = closing + tRP
      /\ \A c \in Constraint : next'[c] >= closing + tRP
  BY <1>1, <1>4, <1>6, ClosedUntilProperties
<1>8. next'["activate"] <= closing + tRP
  BY <1>4, <1>7
<1>9. RowTypes'
  BY <1>1, <1>3, <1>6, <1>7, RowTypeFacts DEF RowTypes, IInv
<1>10. nextPreWrite'["activate"] <= currentCycle'
  BY <1>1, <1>2, <1>3
<1>11. \A e \in events' : e.kind \in ClosingResponses => e = new
  BY <1>1, <1>2 DEF NothingCloses, Completion, Response, ClosingResponses
<1>12. new.kind \in ClosingResponses /\ new \in events'
  BY <1>1, <1>5 DEF ClosingResponses
<1>13. UsePrecharge' /\ state' = "OPEN"
  BY <1>1 DEF UsePrecharge, MayWrite
<1>14. ClosingOK'
  BY <1>5, <1>7, <1>8, <1>10, <1>11, <1>12, <1>13, StartsToClose
<1>15. QED
  BY <1>9, <1>14

\* A precharge or a refresh: only the next activation has to wait, for its end.
LEMMA ActivationWaits ==
  ASSUME IInv, UNCHANGED p, Issues, MayOpen \/ MayPrecharge, NEW delay \in Nat,
         NEW kind \in {"precharge", "refresh"},
         next' = NotBefore(next, [activate |-> currentCycle + delay]),
         events' = events \cup {Response(kind, currentCycle + delay, NoRequest)},
         kind = "precharge" => UsePrecharge /\ state' = "PRECHARGING",
         kind = "refresh" => state' = "REFRESHING",
         UNCHANGED <<openRow, writeVars>>
  PROVE  RowTypes' /\ ClosingOK'
<1> DEFINE when == currentCycle + delay
           b == [activate |-> when]
           new == Response(kind, when, NoRequest)
<1>1. NothingCloses /\ next["activate"] <= currentCycle
  BY CommandsFindNothingClosing
<1>2. /\ currentCycle' = currentCycle /\ currentCycle \in Nat /\ commandIssued' = TRUE
      /\ openRow' = openRow /\ nextPreWrite' = nextPreWrite
  BY CycleFacts DEF Issues, IInv, writeVars
<1>3. when \in Nat /\ currentCycle <= when
  BY <1>2
<1>4. /\ DOMAIN b = {"activate"} /\ b["activate"] = when
      /\ next' = NotBefore(next, b) /\ events' = events \cup {new}
      /\ new.kind = kind /\ new.when = when
  BY DEF Response
<1> HIDE DEF when, b, new
<1>5. next \in Waits /\ next["activate"] \in Nat
  BY WaitFacts DEF IInv, Constraint
<1>6. Later(next["activate"], when) = when
  BY <1>1, <1>2, <1>3, <1>5 DEF Later
<1>7. next' \in Waits /\ next'["activate"] = when
  BY <1>3, <1>4, <1>5, <1>6, NotBeforeProperties DEF Constraint
<1>8. next'["activate"] <= when
  BY <1>3, <1>7
<1>9. RowTypes'
  BY <1>2, <1>7, RowTypeFacts DEF RowTypes, State, IInv
<1>10. nextPreWrite'["activate"] <= currentCycle'
  BY <1>2 DEF IInv, ClosingOK
<1>11. /\ \A e \in events' : e.kind \in ClosingResponses => e = new
       /\ new.kind \in ClosingResponses /\ new \in events'
  BY <1>1, <1>4 DEF NothingCloses, ClosingResponses
<1>12. UsePrecharge' = UsePrecharge
  BY DEF UsePrecharge
<1>13. ClosingOK'
  BY <1>4, <1>7, <1>8, <1>10, <1>11, <1>12, StartsToClose
<1>14. QED
  BY <1>9, <1>13

LEMMA PrechargeKeeps ==
  ASSUME IInv, UNCHANGED p, Precharge
  PROVE  RowTypes' /\ ClosingOK'
<1>1. MayPrecharge /\ tRP \in Nat
  BY WaitFacts, DelaysAreNatural DEF Precharge, MayPrecharge, IInv
<1>2. QED
  BY <1>1, ActivationWaits DEF Precharge

LEMMA RefreshKeeps ==
  ASSUME IInv, UNCHANGED p, Refresh
  PROVE  RowTypes' /\ ClosingOK'
<1>1. MayOpen /\ tRFC \in Nat
  BY WaitFacts, DelaysAreNatural DEF Refresh, MayOpen, IInv
<1>2. QED
  BY <1>1, ActivationWaits DEF Refresh

LEMMA EventFacts ==
  ASSUME IInv, NEW e \in events
  PROVE  e.when \in Nat /\ e.kind \in WriteResponses \cup ClosingResponses
BY DEF IInv, WriteInv, EventsAreTyped, EventType

LEMMA TakesBackKeepsRow ==
  ASSUME IInv, UNCHANGED p, WriteComplete \/ WriteReturned
  PROVE  RowTypes' /\ ClosingOK'
<1>1. PICK e \in events : e.kind \in WriteResponses /\ events' = events \ {e}
  BY DEF WriteComplete, WriteReturned, Due, WriteResponses
<1>2. UNCHANGED <<p, currentCycle, commandIssued, next, nextPreWrite, state, openRow>>
  BY DEF WriteComplete, WriteReturned, Responds, KeepsWriting
<1>3. RowTypes'
  BY <1>2, RowTypeFacts DEF RowTypes, IInv
<1>4. \A f : f.kind \in ClosingResponses => (f \in events' <=> f \in events)
  BY <1>1 DEF WriteResponses, ClosingResponses
<1>5. NothingCloses' <=> NothingCloses
  BY <1>4 DEF NothingCloses
<1>6. ClosingOK'
  BY <1>2, <1>4, <1>5 DEF IInv, ClosingOK, UsePrecharge, ClosingResponses
<1>7. QED
  BY <1>3, <1>6

LEMMA ImplicitPrechargeKeeps ==
  ASSUME IInv, UNCHANGED p, ImplicitPrecharge
  PROVE  RowTypes' /\ ClosingOK'
<1> DEFINE when == currentCycle + tRP
           new == Response("precharge", when, NoRequest)
<1>1. PICK e \in events : /\ e.kind = "implicit" /\ e.when = currentCycle
                          /\ events' = (events \ {e}) \cup {new}
  BY DEF ImplicitPrecharge, Due
<1>2. /\ UNCHANGED <<currentCycle, commandIssued, next, nextPreWrite, openRow>>
      /\ state' = "PRECHARGING"
  BY DEF ImplicitPrecharge, Responds, writeVars
<1>3. /\ new.kind = "precharge" /\ new.when = when
  BY DEF Response
<1> HIDE DEF new
<1>4. /\ UsePrecharge /\ next["activate"] <= when
      /\ \A f \in events : f.kind \in ClosingResponses => f = e
  BY <1>1 DEF IInv, ClosingOK, ClosingResponses
<1>5. RowTypes'
  BY <1>2, RowTypeFacts DEF RowTypes, State, IInv
<1>6. /\ \A f \in events' : f.kind \in ClosingResponses => f = new
      /\ new.kind \in ClosingResponses /\ new \in events'
  BY <1>1, <1>3, <1>4 DEF ClosingResponses
<1>7. UsePrecharge' /\ nextPreWrite'["activate"] <= currentCycle'
  BY <1>2, <1>4 DEF IInv, ClosingOK, UsePrecharge
<1>8. next'["activate"] <= new.when
  BY <1>2, <1>3, <1>4
<1>9. new.kind # "implicit" /\ new.kind # "refresh"
  BY <1>3
<1>10. ClosingOK'
  BY <1>2, <1>6, <1>7, <1>8, <1>9, StartsToClose
<1>11. QED
  BY <1>5, <1>10

\* The end of a precharge or of a refresh.
LEMMA ClosingEnds ==
  ASSUME IInv, UNCHANGED p, NEW e \in events, e.kind \in {"precharge", "refresh"},
         e.when = currentCycle, events' = events \ {e},
         Responds, UNCHANGED writeVars, state' \in State, openRow' \in Row \cup {NoRow}
  PROVE  RowTypes' /\ ClosingOK'
<1>1. UNCHANGED <<currentCycle, commandIssued, next, nextPreWrite>>
  BY DEF Responds, writeVars
<1>2. /\ \A f \in events : f.kind \in ClosingResponses => f = e
      /\ next["activate"] <= e.when \/ next["activate"] = e.when
      /\ nextPreWrite["activate"] <= currentCycle
  BY DEF IInv, ClosingOK, ClosingResponses
<1>3. next["activate"] <= currentCycle
  BY <1>2, WaitFacts DEF IInv, Constraint
<1>4. \A f \in events' : f.kind \notin ClosingResponses
  BY <1>2
<1>5. ClosingOK'
  BY <1>1, <1>2, <1>3, <1>4 DEF ClosingOK, NothingCloses, ClosingResponses
<1>6. RowTypes'
  BY <1>1, RowTypeFacts DEF RowTypes, IInv
<1>7. QED
  BY <1>5, <1>6

LEMMA PrechargeCompleteKeeps ==
  ASSUME IInv, UNCHANGED p, PrechargeComplete
  PROVE  RowTypes' /\ ClosingOK'
<1>1. PICK e \in events : e.kind = "precharge" /\ e.when = currentCycle /\ events' = events \ {e}
  BY DEF PrechargeComplete, Due
<1>2. /\ Responds /\ UNCHANGED writeVars
      /\ state' \in State /\ openRow' \in Row \cup {NoRow}
  BY DEF PrechargeComplete, State
<1>3. QED
  BY <1>1, <1>2, ClosingEnds

LEMMA RefreshCompleteKeeps ==
  ASSUME IInv, UNCHANGED p, RefreshComplete
  PROVE  RowTypes' /\ ClosingOK'
<1>1. PICK e \in events : e.kind = "refresh" /\ e.when = currentCycle /\ events' = events \ {e}
  BY DEF RefreshComplete, Due
<1>2. /\ Responds /\ UNCHANGED writeVars
      /\ state' \in State /\ openRow' \in Row \cup {NoRow}
  BY RowTypeFacts DEF RefreshComplete, State, RowTypes, IInv
<1>3. QED
  BY <1>1, <1>2, ClosingEnds

LEMMA CycleKeepsRow ==
  ASSUME IInv, UNCHANGED p, Cycle
  PROVE  RowTypes' /\ ClosingOK'
<1>1. /\ currentCycle' = currentCycle + 1 /\ commandIssued' = FALSE /\ currentCycle < Horizon
      /\ UNCHANGED <<state, openRow, next, events, nextPreWrite>>
  BY DEF Cycle, writeVars
<1>2. currentCycle \in 0 .. Horizon /\ currentCycle \in Nat
  BY RowTypeFacts, CycleFacts DEF RowTypes, IInv
<1>3. \A c \in Constraint : next[c] \in Nat /\ nextPreWrite[c] \in Nat
  BY WaitFacts DEF IInv
<1>4. currentCycle' \in 0 .. Horizon
  BY <1>1, <1>2
<1>5. RowTypes'
  BY <1>1, <1>4, RowTypeFacts DEF RowTypes, IInv
<1>6. /\ next["activate"] <= currentCycle => next["activate"] <= currentCycle'
      /\ nextPreWrite["activate"] <= currentCycle => nextPreWrite["activate"] <= currentCycle'
  BY <1>1, <1>2, <1>3 DEF Constraint
<1>7. ClosingOK'
  BY <1>1, <1>6 DEF IInv, ClosingOK, NothingCloses, UsePrecharge
<1>8. QED
  BY <1>5, <1>7

LEMMA RowStep ==
  ASSUME IInv, Next
  PROVE  RowTypes' /\ ClosingOK'
BY ActivateKeeps, ReadKeeps, ReadPrechargeKeeps, WriteKeeps, WritePrechargeKeeps, PrechargeKeeps,
   RefreshKeeps, TakesBackKeepsRow, ImplicitPrechargeKeeps, PrechargeCompleteKeeps,
   RefreshCompleteKeeps, CycleKeepsRow
DEF Next, Command, RequestComplete
-----------------------------------------------------------------------------
(* The inductive invariant and the theorems.                               *)

LEMMA TypesTogether ==
  RowTypes /\ WriteTypes /\ EventsAreTyped => TypeOK
<1> SUFFICES ASSUME RowTypes, WriteTypes, EventsAreTyped PROVE TypeOK
  OBVIOUS
<1>1. \A e \in events : /\ e.kind \in {"write", "returned", "implicit", "precharge", "refresh"}
                         /\ e.when \in Nat /\ e.req \in Request \cup {NoRequest}
  BY DEF EventsAreTyped, EventType, WriteResponses, ClosingResponses
<1>2. QED
  BY <1>1, Zenon DEF RowTypes, WriteTypes, TypeOK, Waits, RequestType

LEMMA InitIInv ==
  ASSUME Init
  PROVE  IInv
<1>1. next \in Waits /\ nextPreWrite \in Waits
  BY DEF Init, Waits
<1>2. /\ request \in [Request -> RequestType]
      /\ \A w \in Request : request[w].where = "controller" /\ request[w].cancellations = 0
  <2>1. \A row \in Row : /\ NewRequest(row) \in RequestType
                         /\ NewRequest(row).where = "controller" /\ NewRequest(row).cancellations = 0
    BY DEF NewRequest, RequestType
  <2>2. request \in [Request -> {NewRequest(row) : row \in Row}]
    BY DEF Init
  <2>3. QED
    BY <2>1, <2>2
<1>3. currentCycle \in 0 .. Horizon
  BY DEF Init
<1>4. RowTypes
  BY <1>1, <1>3 DEF Init, RowTypes, State
<1>5. WriteTypes
  BY <1>2 DEF Init, WriteTypes
<1>6. WriteInv
  BY <1>2 DEF Init, WriteInv, EventsAreTyped, EventsAreAhead, WritesHaveResponses, PausesALiveWrite,
              ProgressOK
<1>7. ClosingOK
  BY DEF Init, ClosingOK, NothingCloses, Constraint
<1>8. QED
  BY <1>4, <1>5, <1>6, <1>7, TypesTogether DEF IInv, WriteInv

LEMMA NextIInv ==
  ASSUME IInv, [Next]_vars
  PROVE  IInv'
<1>1. CASE Next
  <2>1. WriteInv' /\ WriteTypes'
    BY <1>1, WritesStep DEF IInv
  <2>2. RowTypes' /\ ClosingOK'
    BY <1>1, RowStep
  <2>3. TypeOK'
    <3>1. EventsAreTyped'
      BY <2>1 DEF WriteInv
    <3>2. QED
      BY <2>1, <2>2, <3>1, TypesTogether, PTL
  <2>4. QED
    BY <2>1, <2>2, <2>3 DEF IInv
<1>2. CASE UNCHANGED vars
  BY <1>2
  DEF vars, writeVars, IInv, TypeOK, WriteInv, EventsAreTyped, EventsAreAhead, WritesHaveResponses,
      IsResponseOf, PausesALiveWrite, ProgressOK, ClosingOK, NothingCloses, UsePrecharge
<1>3. QED
  BY <1>1, <1>2

LEMMA Invariance == Spec => []IInv
BY InitIInv, NextIInv, PTL DEF Spec

\* Whatever is issued, paused, cancelled and completed, every variable keeps its
\* type: the progress of an interrupted write stays a number of cycles.
THEOREM SubArrayType == Spec => []TypeOK
<1>1. IInv => TypeOK
  BY DEF IInv
<1>2. QED
  BY <1>1, Invariance, PTL

\* RequestComplete neither loses a write nor completes it twice, and a pause
\* takes back a completion that is still in the queue.
THEOREM EveryWriteIsAnsweredOnce == Spec => []OneResponsePerWrite
<1>1. ASSUME IInv PROVE OneResponsePerWrite
  <2> DEFINE Responses(w) == {e \in events : e.kind \in {"write", "returned"} /\ e.req = w}
  <2>1. ASSUME NEW w \in Request
        PROVE  Cardinality(Responses(w)) = IF request[w].where = "subarray" THEN 1 ELSE 0
    <3>1. CASE request[w].where = "subarray"
      <4>1. PICK e \in events : IsResponseOf(e, w)
        BY <1>1, <3>1 DEF IInv, WriteInv, WritesHaveResponses
      <4>2. Responses(w) = {e}
        BY <1>1, <4>1 DEF IInv, WriteInv, WritesHaveResponses, IsResponseOf, WriteResponses
      <4>3. QED
        BY <3>1, <4>2, FS_Singleton
    <3>2. CASE request[w].where # "subarray"
      <4>1. Responses(w) = {}
        BY <1>1, <3>2 DEF IInv, WriteInv, WritesHaveResponses, IsResponseOf, WriteResponses
      <4>2. QED
        BY <3>2, <4>1, FS_EmptySet
    <3>3. QED
      BY <3>1, <3>2
  <2>2. QED
    BY <1>1, <2>1 DEF OneResponsePerWrite, IInv, WriteInv
<1>2. QED
  BY <1>1, Invariance, PTL

\* The end of a precharge or of a refresh finds the subarray where its command
\* left it, and an implicit precharge closes an open row.
THEOREM ResponsesFit == Spec => ResponsesFindTheirState
<1>1. ASSUME IInv
      PROVE  /\ ImplicitPrecharge => state = "OPEN"
             /\ PrechargeComplete => state = "PRECHARGING" /\ next.activate <= currentCycle
             /\ RefreshComplete => state = "REFRESHING"
  <2>1. ASSUME ImplicitPrecharge PROVE state = "OPEN"
    BY <1>1, <2>1 DEF ImplicitPrecharge, Due, IInv, ClosingOK
  <2>2. ASSUME PrechargeComplete PROVE state = "PRECHARGING" /\ next.activate <= currentCycle
    <3>1. PICK e \in events : e.kind = "precharge" /\ e.when = currentCycle
      BY <2>2 DEF PrechargeComplete, Due
    <3>2. QED
      BY <1>1, <3>1, WaitFacts DEF IInv, ClosingOK
  <2>3. ASSUME RefreshComplete PROVE state = "REFRESHING"
    BY <1>1, <2>3 DEF RefreshComplete, Due, IInv, ClosingOK
  <2>4. QED
    BY <2>1, <2>2, <2>3
<1>2. QED
  BY <1>1, Invariance, PTL DEF ResponsesFindTheirState

\* An interruption is paid for with a cancellation or with pulses that are left.
THEOREM InterruptionsEnd == Spec => InterruptionsRunOut
<1>1. ASSUME IInv, Next, NEW w \in Request, Pausing, writeRequest = w, Command, request'[w] # request[w]
      PROVE  request[w].cancellations < MaxCancellations /\ Less(Left(request'[w]), Left(request[w]))
  <2>1. isWriting /\ request[w].where = "subarray" /\ request \in [Request -> RequestType]
    BY <1>1, WritingFacts, RequestFacts DEF Pausing, IInv
  <2>2. ASSUME NEW v \in Request, StartWrite(v) PROVE FALSE
    <3>1. /\ request[v].where = "controller"
          /\ \A u \in Request : u # v => request'[u] = request[u]
      BY <2>1, <2>2 DEF StartWrite
    <3>2. QED
      BY <1>1, <2>1, <3>1
  <2>3. ~ UNCHANGED writeVars
    BY <1>1 DEF writeVars
  <2>4. Issues /\ ~ Forced /\ CheckWritePausing
    BY <1>1, <2>2, <2>3
    DEF Command, Activate, Read, ReadPrecharge, StartRead, Write, WritePrecharge, Precharge, Refresh
  <2>5. request[w].progress = writeEnd - writeStart
    BY <1>1, <2>1, <2>4, LiveWhenIssuing DEF IInv, WriteInv, ProgressOK
  <2>6. request'[w] = Interrupted(request[w])
    BY <1>1, <2>1, <2>4 DEF CheckWritePausing
  <2>7. ~ request[w].forced
    BY <1>1, <2>4 DEF Forced, Pausing
  <2>8. request[w].cancellations < MaxCancellations
    BY <1>1, <2>7 DEF IInv, WriteInv, ProgressOK
  <2>9. QED
    BY <1>1, <2>1, <2>5, <2>6, <2>8, InterruptedProperties DEF IInv
<1> DEFINE Paid ==
             \A w \in Request :
               Pausing /\ writeRequest = w /\ Command /\ request'[w] # request[w]
                 => request[w].cancellations < MaxCancellations /\ Less(Left(request'[w]), Left(request[w]))
<1>2. IInv /\ [Next]_vars => [Paid]_vars
  BY <1>1
<1> HIDE DEF Paid
<1>3. Spec => [][Paid]_vars
  BY <1>2, Invariance, PTL DEF Spec
<1>4. QED
  BY <1>3 DEF InterruptionsRunOut, Paid
-----------------------------------------------------------------------------
(* What an interrupted write must not lose.                                *)

\* A write that goes on has been started after cycle 0, and its iterations since;
\* it has at most the pulses of a whole write to go.
TimesInv ==
  /\ state = "OPEN" => currentCycle > 0 \/ commandIssued
  /\ \A e \in events : e.kind = "refresh" => e.when > 0
  /\ isWriting =>
       /\ 0 < writeStart /\ writeStart <= currentCycle
       /\ writeStart <= writeEnd /\ writeEnd <= writeStart + tWP
       /\ \A s \in writeIterationStarts : s >= writeStart

\* A write has been given, or is owed, the pulses of a whole one.
Resumes(w) ==
  /\ request[w].paused /\ request[w].progress <= tWP
  /\ written[w] + request[w].progress >= tWP
Restarts(w) == ~ request[w].paused /\ written[w] = 0
PulsesOK(w) ==
  /\ request[w].where = "controller" => Resumes(w) \/ Restarts(w)
  /\ request[w].where = "done" => written[w] >= tWP
  /\ \A e \in events :
       e.req = w =>
         /\ e.kind = "write" => /\ ~ request[w].paused /\ ~ request[w].cancelled
                                /\ written[w] >= tWP
         /\ e.kind = "returned" => Resumes(w) \/ (Restarts(w) /\ request[w].cancelled)
PulsesInv == written \in [Request -> Int] /\ \A w \in Request : PulsesOK(w)

\* The completion of a write is due only after its pulses, and so is whatever may
\* close its row.
OwnRowInv ==
  /\ isWriting /\ writeEvent =>
       /\ next["precharge"] >= writeEnd /\ next["read"] >= writeEnd
       /\ \A e \in events : e.kind = "implicit" => e.when >= writeEnd
  /\ UsePrecharge \/ WritePausing => WritesIntoItsOwnRow

\* Since a write that may be paused has started, nothing but an activation has
\* been put off, by a precharge or a refresh.
SavedInv ==
  /\ others \in Waits
  /\ WritePausing /\ isWriting /\ writeEvent =>
       /\ \A c \in Constraint \ {"activate"} : others[c] = nextPreWrite[c]
       /\ others["activate"] <= next["activate"]

HistoryInv == TimesInv /\ PulsesInv /\ OwnRowInv /\ SavedInv

LEMMA SmallRemainder ==
  ASSUME NEW a \in Int, NEW b \in Nat \ {0}, a < b, 0 - b < a
  PROVE  a % b = IF a >= 0 THEN a ELSE a + b
OBVIOUS

LEMMA IterationStartIsRecent ==
  ASSUME TypeOK, isWriting, TimesInv
  PROVE  writeStart <= IterationStart /\ IterationStart <= currentCycle
<1> DEFINE started == {s \in writeIterationStarts : s <= currentCycle}
<1>1. /\ started \subseteq Nat /\ currentCycle \in Nat /\ writeStart \in Nat
      /\ writeStart <= currentCycle
  BY CycleFacts DEF TimesInv
<1>2. \A s \in started : s <= currentCycle /\ writeStart <= s
  BY CycleFacts DEF TimesInv
<1> HIDE DEF started
<1>3. CASE started # {}
  <2>1. \E s \in started : \A r \in started : r <= s
    BY <1>1, <1>2, <1>3, GreatestExists
  <2>2. (CHOOSE s \in started : \A r \in started : r <= s) \in started
    BY <2>1
  <2>3. QED
    BY <1>2, <1>3, <2>2 DEF IterationStart, started
<1>4. CASE started = {}
  BY <1>1, <1>4 DEF IterationStart, started
<1>5. QED
  BY <1>3, <1>4

\* An interrupted write has at least the pulses to go that it has not had, or
\* starts over.
LEMMA InterruptedOwesItsPulses ==
  ASSUME TypeOK, isWriting, TimesInv, NEW r \in RequestType, ~ r.paused, ~ r.cancelled
  PROVE  LET i == Interrupted(r)
         IN  \/ /\ i.paused /\ ~ i.cancelled /\ i.progress <= tWP
                /\ i.progress >= Later(0, writeEnd - currentCycle)
             \/ i.cancelled /\ ~ i.paused
<1> DEFINE from == IF p.PauseMode = "Optimal" THEN currentCycle ELSE IterationStart
<1>1. /\ currentCycle \in Nat /\ currentCycle <= Horizon
      /\ writeStart \in Nat /\ writeEnd \in Nat /\ WriteProgress \in Nat
      /\ IterationStart \in Nat /\ CycleModulus \in Nat \ {0} /\ tWP \in Nat
  BY CycleFacts, WriteProgressIsNatural, IterationStartIsNatural, DelaysAreNatural
<1>2. /\ from \in Nat /\ 0 < from /\ from <= currentCycle
      /\ writeEnd <= writeStart + tWP /\ writeStart <= currentCycle
  BY <1>1, IterationStartIsRecent DEF TimesInv
<1>3. WriteProgress = (writeEnd - from) % CycleModulus
  BY DEF WriteProgress
<1> HIDE DEF from
<1>4. WriteProgress = IF writeEnd - from >= 0 THEN writeEnd - from ELSE writeEnd - from + CycleModulus
  <2>1. writeEnd - from < CycleModulus /\ 0 - CycleModulus < writeEnd - from /\ writeEnd - from \in Int
    BY <1>1, <1>2
  <2>2. QED
    BY <1>1, <1>3, <2>1, SmallRemainder
<1>5. CASE FarEnough
  <2>1. WriteProgress < writeEnd - writeStart
    <3>1. /\ writeEnd - writeStart > 0
          /\ 10 * (writeEnd - writeStart - WriteProgress) > PauseThreshold * (writeEnd - writeStart)
      BY <1>5 DEF FarEnough
    <3>2. /\ PauseThreshold * (writeEnd - writeStart) >= 0
          /\ PauseThreshold * (writeEnd - writeStart) \in Int
      BY <1>1, <3>1
    <3>3. QED
      BY <1>1, <3>1, <3>2
  <2>2. writeEnd - from >= 0 /\ WriteProgress = writeEnd - from
    BY <1>1, <1>2, <1>4, <2>1
  <2>3. /\ WriteProgress # writeEnd /\ WriteProgress <= tWP
        /\ WriteProgress >= Later(0, writeEnd - currentCycle)
    BY <1>1, <1>2, <2>1, <2>2 DEF Later
  <2>4. Interrupted(r) = [r EXCEPT !.progress = WriteProgress, !.paused = TRUE]
    BY <1>5, <2>3 DEF Interrupted
  <2>5. /\ Interrupted(r).paused = TRUE /\ Interrupted(r).cancelled = r.cancelled
        /\ Interrupted(r).progress = WriteProgress
    BY <2>4 DEF RequestType
  <2>6. QED
    BY <2>3, <2>5
<1>6. CASE ~ FarEnough
  <2>1. Interrupted(r).cancelled = TRUE /\ Interrupted(r).paused = r.paused
    BY <1>6 DEF Interrupted, RequestType
  <2>2. QED
    BY <2>1
<1>7. QED
  BY <1>5, <1>6
-----------------------------------------------------------------------------
(* What the history records of each kind of step.                          *)

LEMMA HistoryOfAStart ==
  ASSUME IInv, HistoryNext, NEW w \in Request, StartWrite(w)
  PROVE  /\ others' = next
         /\ written' = [v \in Request |-> IF v = w THEN written[v] + WriteTimer(v) ELSE written[v]]
<1>1. /\ request[w].where = "controller" /\ request'[w].where = "subarray" /\ writeEvent' = TRUE
      /\ \A v \in Request : v # w => request'[v] = request[v]
  BY RequestFacts DEF StartWrite, IInv, RequestType
<1>2. \A v \in Request : (Starts(v) <=> v = w) /\ ~ Interrupts(v)
  BY <1>1 DEF Starts, Interrupts
<1>3. QED
  BY <1>2 DEF HistoryNext, RecordPulses, RecordConstraints

LEMMA HistoryOfAnInterruption ==
  ASSUME IInv, HistoryNext, Issues, CheckWritePausing, Pausing
  PROVE  /\ others' = next'
         /\ written' = [v \in Request |->
                          IF v # writeRequest THEN written[v]
                          ELSE IF request'[v].cancelled THEN 0
                          ELSE written[v] - Later(0, writeEnd - currentCycle)]
<1>1. /\ writeRequest \in Request /\ request[writeRequest].where = "subarray"
      /\ writeEvent /\ isWriting
  BY WritingFacts, LiveWhenIssuing DEF Pausing, IInv
<1>2. /\ ~ writeEvent'
      /\ \A v \in Request : v # writeRequest => request'[v] = request[v]
  BY <1>1, RequestFacts DEF CheckWritePausing, IInv
<1>3. \A v \in Request : ~ Starts(v) /\ (Interrupts(v) <=> v = writeRequest)
  BY <1>1, <1>2 DEF Starts, Interrupts
<1>4. QED
  BY <1>1, <1>3 DEF HistoryNext, RecordPulses, RecordConstraints

\* No write starts and none is interrupted.
LEMMA HistoryOfOtherSteps ==
  ASSUME IInv, HistoryNext, writeEvent' = writeEvent, written \in [Request -> Int],
         \A w \in Request : request'[w].where = "subarray" => request[w].where # "controller"
  PROVE  /\ others' = [c \in Constraint |-> IF next'[c] = next[c] THEN others[c]
                                            ELSE Later(others[c], next'[c])]
         /\ written' = written
<1>1. \A w \in Request : ~ Starts(w) /\ ~ Interrupts(w)
  BY DEF Starts, Interrupts
<1>2. QED
  BY <1>1 DEF HistoryNext, RecordPulses, RecordConstraints

\* A command that could pause a write and finds none leaves the writes alone.
LEMMA PausesNothing ==
  ASSUME CheckWritePausing, ~ Pausing
  PROVE  UNCHANGED writeVars /\ Rescheduled = events /\ Restored = next
BY DEF CheckWritePausing, Rescheduled, Restored, writeVars
-----------------------------------------------------------------------------
(* The pulses.                                                             *)

LEMMA WriteTimerIsBounded ==
  ASSUME IInv, PulsesInv, NEW w \in Request, request[w].where = "controller"
  PROVE  /\ WriteTimer(w) \in Nat /\ WriteTimer(w) <= tWP
         /\ written[w] + WriteTimer(w) >= tWP
<1>1. /\ Resumes(w) \/ Restarts(w)
      /\ request[w].progress \in Nat /\ tWP \in Nat
  BY RequestFacts, DelaysAreNatural DEF PulsesInv, PulsesOK, IInv, RequestType
<1>2. CASE Resumes(w)
  BY <1>1, <1>2 DEF Resumes, WriteTimer
<1>3. CASE Restarts(w)
  BY <1>1, <1>3 DEF Restarts, WriteTimer
<1>4. QED
  BY <1>1, <1>2, <1>3

\* A response of an event that is new is no write's.
LEMMA SamePulses ==
  ASSUME PulsesInv, request' = request, written' = written,
         \A e \in events' : e.kind \in WriteResponses => e \in events
  PROVE  PulsesInv'
<1>1. ASSUME NEW w \in Request PROVE PulsesOK(w)'
  BY DEF PulsesInv, PulsesOK, Resumes, Restarts, WriteResponses
<1>2. QED
  BY <1>1 DEF PulsesInv

LEMMA StartKeepsPulses ==
  ASSUME IInv, HistoryInv, HistoryNext, StartsAWrite
  PROVE  PulsesInv'
<1>1. PICK w \in Request, more \in Closings :
        StartWrite(w) /\ events' = (events \cup {Completion(w)}) \cup more
  BY DEF StartsAWrite
<1>2. written' = [v \in Request |-> IF v = w THEN written[v] + WriteTimer(v) ELSE written[v]]
  BY <1>1, HistoryOfAStart
<1>3. /\ request[w].where = "controller"
      /\ request'[w].where = "subarray" /\ ~ request'[w].paused /\ ~ request'[w].cancelled
      /\ \A v \in Request : v # w => request'[v] = request[v]
  BY <1>1, RequestFacts DEF StartWrite, IInv, RequestType
<1>4. /\ WriteTimer(w) \in Nat /\ written[w] + WriteTimer(w) >= tWP
      /\ written \in [Request -> Int]
  BY <1>3, WriteTimerIsBounded DEF HistoryInv, PulsesInv
<1>5. written' \in [Request -> Int] /\ written'[w] >= tWP
  BY <1>2, <1>4
<1>6. \A e \in events' : e.kind \in WriteResponses /\ e \notin events =>
                           e.kind = "write" /\ e.req = w
  BY <1>1, ResponsesOfClosings DEF Completion, Response
<1>7. \A e \in events : e.kind \in WriteResponses => e.req # w
  BY <1>3 DEF IInv, WriteInv, WritesHaveResponses, IsResponseOf
<1>8. ASSUME NEW v \in Request PROVE PulsesOK(v)'
  <2>1. CASE v = w
    BY <2>1, <1>3, <1>5, <1>6, <1>7 DEF PulsesOK, WriteResponses
  <2>2. CASE v # w
    <3>1. PulsesOK(v) /\ request'[v] = request[v] /\ written'[v] = written[v]
      BY <2>2, <1>2, <1>3 DEF HistoryInv, PulsesInv
    <3>2. \A e \in events' : e.req = v /\ e.kind \in WriteResponses => e \in events
      BY <2>2, <1>6
    <3>3. QED
      BY <3>1, <3>2 DEF PulsesOK, Resumes, Restarts, WriteResponses
  <2>3. QED
    BY <2>1, <2>2
<1>9. QED
  BY <1>5, <1>8 DEF PulsesInv

LEMMA InterruptionKeepsPulses ==
  ASSUME IInv, HistoryInv, HistoryNext, MayInterrupt
  PROVE  PulsesInv'
<1>1. PICK more \in Closings :
        Issues /\ CheckWritePausing /\ events' = Rescheduled \cup more
  BY DEF MayInterrupt
<1>2. CASE ~ Pausing
  <2>1. request' = request /\ writeEvent' = writeEvent /\ Rescheduled = events
    BY <1>1, <1>2, PausesNothing DEF writeVars
  <2>2. written' = written
    BY <2>1, HistoryOfOtherSteps DEF HistoryInv, PulsesInv
  <2>3. \A e \in events' : e.kind \in WriteResponses => e \in events
    BY <1>1, <2>1, ResponsesOfClosings
  <2>4. QED
    BY <2>1, <2>2, <2>3, SamePulses DEF HistoryInv
<1>3. CASE Pausing
  <2>0. PICK w \in Request : w = writeRequest
    BY <1>3, WritingFacts DEF Pausing, IInv
  <2> DEFINE i == Interrupted(request[w])
             taken == Later(0, writeEnd - currentCycle)
  <2>1. /\ isWriting /\ request[w].where = "subarray"
        /\ request \in [Request -> RequestType] /\ written \in [Request -> Int]
    BY <1>3, <2>0, WritingFacts, RequestFacts DEF Pausing, IInv, HistoryInv, PulsesInv
  <2>2. PICK completion \in events : completion.kind = "write" /\ completion.req = w
    BY <1>1, <2>0, <2>1, LiveWhenIssuing DEF IInv
  <2>3. PulsesOK(w) /\ ~ request[w].paused /\ ~ request[w].cancelled /\ written[w] >= tWP
    BY <2>1, <2>2 DEF HistoryInv, PulsesInv, PulsesOK
  <2>4. /\ i \in RequestType /\ i.where = "subarray"
        /\ \/ i.paused /\ ~ i.cancelled /\ i.progress <= tWP /\ i.progress >= taken
           \/ i.cancelled /\ ~ i.paused
    BY <2>1, <2>3, InterruptedOwesItsPulses, InterruptedProperties DEF IInv, HistoryInv
  <2>5. /\ request'[w] = i /\ \A v \in Request : v # w => request'[v] = request[v]
    BY <1>1, <1>3, <2>0, <2>1 DEF CheckWritePausing
  <2>6. written' = [v \in Request |-> IF v # w THEN written[v]
                                      ELSE IF request'[v].cancelled THEN 0 ELSE written[v] - taken]
    BY <1>1, <1>3, <2>0, HistoryOfAnInterruption
  <2>7. taken \in Int /\ tWP \in Nat
    <3>1. writeEnd \in Nat /\ currentCycle \in Nat
      BY CycleFacts DEF IInv
    <3>2. QED
      BY <3>1, DelaysAreNatural DEF Later
  <2>8. \A e \in events' : e.kind \in WriteResponses =>
          \/ e.kind = "returned" /\ e.req = w
          \/ e \in events /\ ~ (e.kind = "write" /\ e.req = w)
    BY <1>1, <1>3, <2>0, ResponsesOfClosings DEF Rescheduled, Response
  <2> HIDE DEF i, taken
  <2>9. written' \in [Request -> Int]
    BY <2>1, <2>6, <2>7
  <2>10. PulsesOK(w)'
    <3>1. i.cancelled => written'[w] = 0
      BY <2>1, <2>5, <2>6
    <3>2. ~ i.cancelled => written'[w] = written[w] - taken
      BY <2>1, <2>5, <2>6
    <3>3. i.progress \in Nat /\ written[w] \in Int
      BY <2>1, <2>4 DEF RequestType
    <3>4. (Resumes(w) \/ (Restarts(w) /\ request[w].cancelled))'
      <4>1. CASE i.paused /\ ~ i.cancelled /\ i.progress <= tWP /\ i.progress >= taken
        <5>1. written'[w] + i.progress >= tWP
          BY <4>1, <2>3, <2>7, <3>2, <3>3
        <5>2. QED
          BY <4>1, <5>1, <2>5 DEF Resumes
      <4>2. CASE i.cancelled /\ ~ i.paused
        BY <4>2, <2>5, <3>1 DEF Restarts
      <4>3. QED
        BY <2>4, <4>1, <4>2
    <3>5. request'[w].where = "subarray"
      BY <2>4, <2>5
    <3>6. QED
      BY <2>8, <3>4, <3>5 DEF PulsesOK, WriteResponses
  <2>11. ASSUME NEW v \in Request, v # w PROVE PulsesOK(v)'
    <3>1. PulsesOK(v) /\ request'[v] = request[v] /\ written'[v] = written[v]
      BY <2>5, <2>6, <2>11 DEF HistoryInv, PulsesInv
    <3>2. \A e \in events' : e.req = v /\ e.kind \in WriteResponses => e \in events
      BY <2>8, <2>11
    <3>3. QED
      BY <3>1, <3>2 DEF PulsesOK, Resumes, Restarts, WriteResponses
  <2>12. QED
    BY <2>9, <2>10, <2>11 DEF PulsesInv
<1>4. QED
  BY <1>2, <1>3

\* A write is taken back once: completed with all its pulses, or interrupted.
LEMMA TakesBackKeepsPulses ==
  ASSUME IInv, HistoryInv, HistoryNext, WriteComplete \/ WriteReturned
  PROVE  PulsesInv' /\ written' = written
<1>1. PICK e \in events, place \in {"controller", "done"} :
        /\ e.kind \in WriteResponses /\ events' = events \ {e} /\ writeEvent' = writeEvent
        /\ request' = [request EXCEPT ![e.req].where = place]
        /\ place = "controller" => request[e.req].paused \/ request[e.req].cancelled
        /\ place = "done" => \/ e.kind = "write"
                             \/ ~ request[e.req].paused /\ ~ request[e.req].cancelled
  <2>1. CASE WriteComplete
    BY <2>1 DEF WriteComplete, Due, WriteResponses, KeepsWriting
  <2>2. CASE WriteReturned
    <3>1. PICK e \in Due("returned") :
            /\ events' = events \ {e} /\ KeepsWriting
            /\ request' = [request EXCEPT ![e.req].where =
                             IF request[e.req].paused \/ request[e.req].cancelled
                             THEN "controller" ELSE "done"]
      BY <2>2 DEF WriteReturned
    <3>2. CASE request[e.req].paused \/ request[e.req].cancelled
      BY <3>1, <3>2 DEF Due, WriteResponses, KeepsWriting
    <3>3. CASE ~ (request[e.req].paused \/ request[e.req].cancelled)
      BY <3>1, <3>3 DEF Due, WriteResponses, KeepsWriting
    <3>4. QED
      BY <3>2, <3>3
  <2>3. QED
    BY <2>1, <2>2
<1>2. PICK w \in Request : w = e.req
  BY <1>1 DEF IInv, WriteInv, WritesHaveResponses
<1>3. /\ request \in [Request -> RequestType] /\ written \in [Request -> Int]
      /\ PulsesOK(w)
  BY RequestFacts DEF IInv, HistoryInv, PulsesInv
<1>4. /\ request'[w].where = place
      /\ request'[w].paused = request[w].paused /\ request'[w].progress = request[w].progress
      /\ \A v \in Request : v # w => request'[v] = request[v]
  BY <1>1, <1>2, <1>3 DEF RequestType
<1>5. request[w].where = "subarray" /\ \A f \in events' : f.kind \in WriteResponses => f.req # w
  BY <1>1, <1>2 DEF IInv, WriteInv, WritesHaveResponses, IsResponseOf
<1>6. written' = written
  <2>1. \A v \in Request : request'[v].where = "subarray" => request[v].where # "controller"
    BY <1>4, <1>5
  <2>2. QED
    BY <1>1, <1>3, <2>1, HistoryOfOtherSteps
<1>7. PulsesOK(w)'
  <2>1. CASE place = "controller"
    <3>1. e.kind = "returned"
      BY <1>1, <1>2, <1>3, <2>1 DEF PulsesOK, WriteResponses
    <3>2. Resumes(w) \/ Restarts(w)
      BY <1>2, <1>3, <3>1 DEF PulsesOK
    <3>3. (Resumes(w) \/ Restarts(w))'
      BY <1>4, <1>6, <3>2 DEF Resumes, Restarts
    <3>4. QED
      BY <1>4, <1>5, <2>1, <3>3 DEF PulsesOK, WriteResponses
  <2>2. CASE place = "done"
    <3>1. e.kind = "write"
      BY <1>1, <1>2, <1>3, <2>2 DEF PulsesOK, WriteResponses, Resumes
    <3>2. written[w] >= tWP
      BY <1>2, <1>3, <3>1 DEF PulsesOK
    <3>3. QED
      BY <1>4, <1>5, <1>6, <2>2, <3>2 DEF PulsesOK, WriteResponses
  <2>3. QED
    BY <2>1, <2>2
<1>8. ASSUME NEW v \in Request, v # w PROVE PulsesOK(v)'
  <2>1. PulsesOK(v) /\ request'[v] = request[v] /\ written'[v] = written[v]
    BY <1>4, <1>6, <1>8 DEF HistoryInv, PulsesInv
  <2>2. events' \subseteq events
    BY <1>1
  <2>3. QED
    BY <2>1, <2>2 DEF PulsesOK, Resumes, Restarts
<1>9. QED
  BY <1>3, <1>6, <1>7, <1>8 DEF PulsesInv

LEMMA OthersKeepPulses ==
  ASSUME IInv, HistoryInv, HistoryNext, LeavesWrites \/ Closes \/ Cycle
  PROVE  PulsesInv'
<1>1. /\ request' = request /\ writeEvent' = writeEvent
      /\ \A e \in events' : e.kind \in WriteResponses => e \in events
  BY ResponsesOfClosings DEF LeavesWrites, Closes, Cycle, writeVars
<1>2. written' = written
  BY <1>1, HistoryOfOtherSteps DEF HistoryInv, PulsesInv
<1>3. QED
  BY <1>1, <1>2, SamePulses DEF HistoryInv

LEMMA PulsesStep ==
  ASSUME IInv, HistoryInv, HistoryNext
  PROVE  PulsesInv'
BY StepKinds, StartKeepsPulses, InterruptionKeepsPulses, TakesBackKeepsPulses, OthersKeepPulses
DEF HistoryNext, IInv
-----------------------------------------------------------------------------
(* The times of a write.                                                   *)

LEMMA TimesFacts ==
  ASSUME IInv
  PROVE  /\ currentCycle \in Nat /\ commandIssued \in BOOLEAN
         /\ writeStart \in Nat /\ writeEnd \in Nat /\ tWP \in Nat /\ tRFC \in Nat
BY CycleFacts, RowTypeFacts, DelaysAreNatural DEF IInv, RowTypes

\* A command that leaves the write alone, or interrupts it.
LEMMA CommandKeepsTimes ==
  ASSUME IInv, TimesInv, Issues, state' = "OPEN" => state = "OPEN" \/ commandIssued',
         \A e \in events' : e.kind = "refresh" => e \in events \/ e.when > 0,
         UNCHANGED <<isWriting, writeStart, writeEnd, writeIterationStarts>>
  PROVE  TimesInv'
<1>1. currentCycle' = currentCycle /\ commandIssued' = TRUE
  BY DEF Issues
<1>2. QED
  BY <1>1 DEF TimesInv

LEMMA StartKeepsTimes ==
  ASSUME IInv, HistoryInv, StartsAWrite
  PROVE  TimesInv'
<1>1. PICK w \in Request, more \in Closings :
        StartWrite(w) /\ events' = (events \cup {Completion(w)}) \cup more
  BY DEF StartsAWrite
<1>2. /\ request[w].where = "controller" /\ state = "OPEN"
      /\ currentCycle' = currentCycle /\ commandIssued' = TRUE /\ ~ commandIssued
      /\ writeStart' = currentCycle /\ writeEnd' = currentCycle + WriteTimer(w)
      /\ writeIterationStarts' = IterationsFrom(currentCycle)
  BY <1>1 DEF StartWrite, Issues
<1>3. 0 < currentCycle
  BY <1>2, TimesFacts DEF HistoryInv, TimesInv
<1>4. WriteTimer(w) \in Nat /\ WriteTimer(w) <= tWP
  BY <1>2, WriteTimerIsBounded DEF HistoryInv
<1>5. \A s \in IterationsFrom(currentCycle) : s >= currentCycle
  <2>1. tWP \div WriteIterations \in Nat
    BY DelaysAreNatural
  <2>2. \A i \in 0 .. WriteIterations - 1 : i * (tWP \div WriteIterations) \in Nat
    BY <2>1
  <2>3. QED
    BY <2>2, TimesFacts DEF IterationsFrom
<1>6. \A e \in events' : e.kind = "refresh" => e \in events \/ e \in more
  BY <1>1 DEF Completion, Response
<1>7. \A e \in more : e.when > 0
  BY <1>3, ResponsesOfClosings, TimesFacts
<1>8. \A e \in events' : e.kind = "refresh" => e.when > 0
  BY <1>6, <1>7 DEF HistoryInv, TimesInv
<1>9. QED
  BY <1>2, <1>3, <1>4, <1>5, <1>8, TimesFacts DEF TimesInv

LEMMA TimesStep ==
  ASSUME IInv, HistoryInv, Next
  PROVE  TimesInv'
<1>1. TimesInv
  BY DEF HistoryInv
<1>2. ASSUME NEW row \in Row, NEW priority, Activate(row, priority) PROVE TimesInv'
  <2>1. /\ Issues /\ commandIssued' = TRUE /\ events' = Rescheduled
        /\ UNCHANGED <<isWriting, writeStart, writeEnd, writeIterationStarts>>
    BY <1>2 DEF Activate, CheckWritePausing, Issues
  <2>2. \A e \in events' : e.kind = "refresh" => e \in events
    BY <2>1, RescheduledClosesNothing DEF ClosingResponses
  <2>3. QED
    BY <1>1, <2>1, <2>2, CommandKeepsTimes
<1>3. ASSUME NEW row \in Row, Read(row) \/ ReadPrecharge(row) PROVE TimesInv'
  <2>1. /\ Issues /\ commandIssued' = TRUE
        /\ UNCHANGED <<isWriting, writeStart, writeEnd, writeIterationStarts>>
    BY <1>3 DEF Read, ReadPrecharge, StartRead, CheckWritePausing, Issues
  <2>2. \A e \in events' : e.kind = "refresh" => e \in Rescheduled
    BY <1>3 DEF Read, ReadPrecharge, Response
  <2>3. \A e \in events' : e.kind = "refresh" => e \in events
    BY <2>2, RescheduledClosesNothing DEF ClosingResponses
  <2>4. QED
    BY <1>1, <2>1, <2>3, CommandKeepsTimes
<1>4. ASSUME Precharge PROVE TimesInv'
  <2>1. /\ Issues /\ state' = "PRECHARGING"
        /\ UNCHANGED <<isWriting, writeStart, writeEnd, writeIterationStarts>>
    BY <1>4 DEF Precharge, writeVars
  <2>2. \A e \in events' : e.kind = "refresh" => e \in events
    BY <1>4 DEF Precharge, Response
  <2>3. QED
    BY <1>1, <2>1, <2>2, CommandKeepsTimes
<1>5. ASSUME Refresh PROVE TimesInv'
  <2>1. /\ Issues /\ state' = "REFRESHING"
        /\ UNCHANGED <<isWriting, writeStart, writeEnd, writeIterationStarts>>
    BY <1>5 DEF Refresh, writeVars
  <2>2. currentCycle + tRFC > 0
    BY TimesFacts
  <2>3. \A e \in events' : e.kind = "refresh" => e \in events \/ e.when > 0
    BY <1>5, <2>2 DEF Refresh, Response
  <2>4. QED
    BY <1>1, <2>1, <2>3, CommandKeepsTimes
<1>6. ASSUME WriteComplete \/ WriteReturned \/ ImplicitPrecharge \/ PrechargeComplete PROVE TimesInv'
  <2>1. /\ UNCHANGED <<currentCycle, commandIssued, writeStart, writeEnd, writeIterationStarts>>
        /\ isWriting' => isWriting
        /\ state' = "OPEN" => state = "OPEN"
        /\ \A e \in events' : e.kind = "refresh" => e \in events
    <3>1. CASE WriteComplete
      BY <3>1 DEF WriteComplete, Responds, KeepsWriting
    <3>2. CASE WriteReturned
      BY <3>2 DEF WriteReturned, Responds, KeepsWriting
    <3>3. CASE ImplicitPrecharge
      BY <3>3 DEF ImplicitPrecharge, Responds, writeVars, Response
    <3>4. CASE PrechargeComplete
      BY <3>4 DEF PrechargeComplete, Responds, writeVars
    <3>5. QED
      BY <1>6, <3>1, <3>2, <3>3, <3>4
  <2>2. QED
    BY <1>1, <2>1 DEF TimesInv
<1>7. ASSUME RefreshComplete PROVE TimesInv'
  <2>1. PICK e \in events : e.kind = "refresh" /\ e.when = currentCycle
    BY <1>7 DEF RefreshComplete, Due
  <2>2. currentCycle > 0
    BY <1>1, <2>1 DEF TimesInv
  <2>3. /\ UNCHANGED <<currentCycle, commandIssued, isWriting, writeStart, writeEnd,
                       writeIterationStarts>>
        /\ events' \subseteq events
    BY <1>7 DEF RefreshComplete, Responds, writeVars
  <2>4. QED
    BY <1>1, <2>2, <2>3 DEF TimesInv
<1>8. ASSUME Cycle PROVE TimesInv'
  <2>1. /\ UNCHANGED <<isWriting, writeStart, writeEnd, writeIterationStarts, state, events>>
        /\ currentCycle' = currentCycle + 1
    BY <1>8 DEF Cycle, writeVars
  <2>2. currentCycle' > 0 /\ (isWriting => writeStart <= currentCycle')
    BY <1>1, <2>1, TimesFacts DEF TimesInv
  <2>3. QED
    BY <1>1, <2>1, <2>2 DEF TimesInv
<1>9. ASSUME NEW w \in Request, Write(w) \/ WritePrecharge(w) PROVE TimesInv'
  <2>1. StartsAWrite
    BY <1>9, WritesStart DEF IInv
  <2>2. QED
    BY <2>1, StartKeepsTimes
<1>10. QED
  BY <1>2, <1>3, <1>4, <1>5, <1>6, <1>7, <1>8, <1>9 DEF Next, Command, RequestComplete
-----------------------------------------------------------------------------
(* The constraints that a pause restores.                                  *)

\* A step that is recorded as neither a start nor an interruption.
LEMMA OthersSaved ==
  ASSUME SavedInv, next \in Waits, next' \in Waits, UNCHANGED <<p, nextPreWrite>>,
         isWriting' => isWriting, writeEvent' = writeEvent,
         others' = [c \in Constraint |-> IF next'[c] = next[c] THEN others[c]
                                        ELSE Later(others[c], next'[c])],
         \/ ~ (WritePausing /\ isWriting)
         \/ /\ \A c \in Constraint \ {"activate"} : next'[c] = next[c]
            /\ next'["activate"] >= next["activate"]
  PROVE  SavedInv'
<1>1. \A c \in Constraint : /\ others[c] \in Nat /\ next[c] \in Nat /\ next'[c] \in Nat
                           /\ Later(others[c], next'[c]) \in Nat
  BY LaterIsNatural DEF SavedInv, Waits
<1>2. others' \in Waits
  BY <1>1 DEF Waits
<1>3. ASSUME WritePausing', isWriting', writeEvent'
      PROVE  /\ \A c \in Constraint \ {"activate"} : others'[c] = nextPreWrite'[c]
             /\ others'["activate"] <= next'["activate"]
  <2>1. /\ \A c \in Constraint \ {"activate"} : others[c] = nextPreWrite[c] /\ next'[c] = next[c]
        /\ others["activate"] <= next["activate"] /\ next'["activate"] >= next["activate"]
    BY <1>3 DEF SavedInv, WritePausing
  <2>2. \A c \in Constraint \ {"activate"} : others'[c] = nextPreWrite'[c]
    BY <2>1
  <2>3. others'["activate"] <= next'["activate"]
    BY <1>1, <2>1 DEF Constraint, Later
  <2>4. QED
    BY <2>2, <2>3
<1>4. QED
  BY <1>2, <1>3 DEF SavedInv

\* A precharge or a refresh puts off the next activation.
LEMMA ActivationIsPutOff ==
  ASSUME IInv, Precharge \/ Refresh
  PROVE  /\ \A c \in Constraint \ {"activate"} : next'[c] = next[c]
         /\ next'["activate"] >= next["activate"]
<1>1. PICK when \in Nat : next' = NotBefore(next, [activate |-> when])
  <2>1. currentCycle + tRP \in Nat /\ currentCycle + tRFC \in Nat
    BY CycleFacts, DelaysAreNatural DEF IInv
  <2>2. QED
    BY <2>1 DEF Precharge, Refresh
<1>2. next \in Waits /\ next["activate"] \in Nat
  BY WaitFacts DEF IInv, Constraint
<1>3. /\ \A c \in Constraint \ {"activate"} : next'[c] = next[c]
      /\ next'["activate"] = Later(next["activate"], when)
  BY <1>1, <1>2, NotBeforeProperties DEF Constraint
<1>4. Later(next["activate"], when) >= next["activate"]
  BY <1>2, LaterIsNatural
<1>5. QED
  BY <1>3, <1>4

LEMMA SavedStep ==
  ASSUME IInv, HistoryInv, HistoryNext
  PROVE  SavedInv'
<1>1. /\ SavedInv /\ Next /\ next \in Waits /\ next' \in Waits /\ UNCHANGED p
      /\ written \in [Request -> Int]
  BY WaitFacts, RowStep DEF HistoryInv, PulsesInv, HistoryNext, Next, IInv, RowTypes
<1>2. ASSUME NEW w \in Request, Write(w) \/ WritePrecharge(w) PROVE SavedInv'
  <2>1. StartWrite(w)
    BY <1>2 DEF Write, WritePrecharge
  <2>2. others' = next /\ nextPreWrite' = next
    BY <2>1, HistoryOfAStart DEF StartWrite
  <2>3. next'["activate"] >= next["activate"]
    <3>1. StartsAWrite
      BY <1>2, WritesStart DEF IInv
    <3>2. CASE Write(w)
      <4> DEFINE b == [precharge |-> currentCycle + tAL + tCWD + tBURST + WriteTimer(w) + tWR,
                       read      |-> currentCycle + tCWD + tBURST + tWTR + WriteTimer(w),
                       write     |-> currentCycle + Later(tBURST, tCCD) + WriteTimer(w)]
      <4>1. next' = NotBefore(next, b) /\ DOMAIN b = {"precharge", "read", "write"}
        BY <3>2 DEF Write
      <4> HIDE DEF b
      <4>2. next'["activate"] = next["activate"]
        BY <1>1, <4>1 DEF NotBefore, Constraint, Waits
      <4>3. QED
        BY <1>1, <4>2 DEF Waits, Constraint
    <3>3. CASE WritePrecharge(w)
      <4>1. PICK when \in Nat : next' = ClosedUntil(next, when) /\ when >= currentCycle
        <5>1. /\ currentCycle + tAL + tCWD + tBURST + WriteTimer(w) + tWR + tRP \in Nat
              /\ currentCycle + tAL + tCWD + tBURST + WriteTimer(w) + tWR + tRP >= currentCycle
          BY CycleFacts, WriteTimerIsNatural, DelaysAreNatural DEF IInv
        <5>2. QED
          BY <3>3, <5>1 DEF WritePrecharge
      <4>2. next["activate"] <= currentCycle
        BY <2>1, CommandsFindNothingClosing, WaitFacts DEF StartWrite, MayWrite, IInv
      <4>3. next'["activate"] >= when
        BY <1>1, <4>1, ClosedUntilProperties DEF Constraint
      <4>4. QED
        BY <1>1, <4>1, <4>2, <4>3, CycleFacts DEF IInv, Waits, Constraint
    <3>4. QED
      BY <1>2, <3>2, <3>3
  <2>4. QED
    BY <1>1, <2>2, <2>3 DEF SavedInv
<1>3. ASSUME NEW row \in Row,
             (\E priority \in BOOLEAN : Activate(row, priority)) \/ Read(row) \/ ReadPrecharge(row)
      PROVE  SavedInv'
  <2>1. Issues /\ CheckWritePausing
    BY <1>3 DEF Activate, Read, ReadPrecharge, StartRead
  <2>2. CASE Pausing
    BY <1>1, <2>1, <2>2, HistoryOfAnInterruption DEF CheckWritePausing, SavedInv
  <2>3. CASE ~ Pausing
    <3>1. UNCHANGED <<request, writeEvent, isWriting, nextPreWrite>>
      BY <2>1, <2>3, PausesNothing DEF writeVars
    <3>2. others' = [c \in Constraint |-> IF next'[c] = next[c] THEN others[c]
                                         ELSE Later(others[c], next'[c])]
      BY <1>1, <3>1, HistoryOfOtherSteps
    <3>3. QED
      BY <1>1, <2>3, <3>1, <3>2, OthersSaved DEF Pausing
  <2>4. QED
    BY <2>2, <2>3
<1>4. ASSUME Precharge \/ Refresh PROVE SavedInv'
  <2>1. UNCHANGED <<request, writeEvent, isWriting, nextPreWrite>>
    BY <1>4 DEF Precharge, Refresh, writeVars
  <2>2. others' = [c \in Constraint |-> IF next'[c] = next[c] THEN others[c]
                                       ELSE Later(others[c], next'[c])]
    BY <1>1, <2>1, HistoryOfOtherSteps
  <2>3. QED
    BY <1>1, <1>4, <2>1, <2>2, OthersSaved, ActivationIsPutOff
<1>5. ASSUME RequestComplete \/ Cycle PROVE SavedInv'
  <2>1. next' = next /\ nextPreWrite' = nextPreWrite /\ writeEvent' = writeEvent /\ (isWriting' => isWriting)
    <3>1. CASE WriteComplete
      BY <3>1 DEF WriteComplete, Responds, KeepsWriting
    <3>2. CASE WriteReturned
      BY <3>2 DEF WriteReturned, Responds, KeepsWriting
    <3>3. CASE ~ WriteComplete /\ ~ WriteReturned
      BY <1>5, <3>3 DEF RequestComplete, ImplicitPrecharge, PrechargeComplete, RefreshComplete, Cycle,
                        Responds, writeVars
    <3>4. QED
      BY <3>1, <3>2, <3>3
  <2>2. \A w \in Request : request'[w].where = "subarray" => request[w].where # "controller"
    <3>1. CASE WriteComplete \/ WriteReturned
      <4>1. PICK e \in events, place \in {"controller", "done"} :
              request' = [request EXCEPT ![e.req].where = place]
        BY <3>1, WritesAreTakenBack DEF TakesBack
      <4>2. QED
        BY <4>1, RequestFacts DEF IInv, RequestType
    <3>2. CASE ~ WriteComplete /\ ~ WriteReturned
      BY <1>5, <3>2 DEF RequestComplete, ImplicitPrecharge, PrechargeComplete, RefreshComplete, Cycle,
                        writeVars
    <3>3. QED
      BY <3>1, <3>2
  <2>3. others' = [c \in Constraint |-> IF next'[c] = next[c] THEN others[c]
                                       ELSE Later(others[c], next'[c])]
    BY <1>1, <2>1, <2>2, HistoryOfOtherSteps
  <2>4. next'["activate"] >= next["activate"]
    BY <1>1, <2>1 DEF Waits, Constraint
  <2>5. QED
    BY <1>1, <2>1, <2>3, <2>4, OthersSaved
<1>6. QED
  BY <1>1, <1>2, <1>3, <1>4, <1>5 DEF Next, Command
-----------------------------------------------------------------------------
(* The row under a write.                                                  *)

LEMMA OnlyMovedLater ==
  ASSUME IInv, NEW b, \A c \in DOMAIN b : b[c] \in Nat
  PROVE  \A c \in Constraint : NotBefore(next, b)[c] >= next[c]
<1>1. next \in Waits
  BY WaitFacts DEF IInv
<1>2. ASSUME NEW c \in Constraint PROVE NotBefore(next, b)[c] >= next[c]
  <2>1. next[c] \in Nat
    BY <1>1 DEF Waits
  <2>2. CASE c \in DOMAIN b
    <3>1. NotBefore(next, b)[c] = Later(next[c], b[c])
      BY <1>1, <2>2, NotBeforeProperties
    <3>2. Later(next[c], b[c]) >= next[c]
      BY <2>1, <2>2, LaterIsNatural
    <3>3. QED
      BY <3>1, <3>2
  <2>3. CASE c \notin DOMAIN b
    <3>1. NotBefore(next, b)[c] = next[c]
      BY <1>1, <2>3, NotBeforeProperties
    <3>2. QED
      BY <2>1, <3>1
  <2>4. QED
    BY <2>2, <2>3
<1>3. QED
  BY <1>2

LEMMA ClosedOnlyMovesLater ==
  ASSUME IInv, NEW when \in Nat
  PROVE  \A c \in Constraint : ClosedUntil(next, when)[c] >= next[c]
<1> DEFINE a == Later(next["activate"], when)
           b == [activate |-> a, precharge |-> a, read |-> a, write |-> a]
<1>1. a \in Nat
  BY WaitFacts, LaterIsNatural DEF IInv, Constraint
<1>2. /\ \A c \in DOMAIN b : b[c] \in Nat
      /\ ClosedUntil(next, when) = NotBefore(next, b)
  BY <1>1, WaitFacts DEF ClosedUntil, IInv
<1> HIDE DEF b
<1>3. QED
  BY <1>2, OnlyMovedLater

Going == isWriting /\ writeEvent

\* A step under which a write goes on.
LEMMA OwnRowKept ==
  ASSUME IInv, OwnRowInv, UNCHANGED p,
         Going' => /\ Going /\ UNCHANGED <<writeEnd, writeRequest>>
                   /\ request'[writeRequest].row = request[writeRequest].row,
         currentCycle' \in Nat, currentCycle' >= currentCycle, next' \in Waits,
         next'["precharge"] >= next["precharge"], next'["read"] >= next["read"],
         Going => \A e \in events' : e.kind = "implicit" => e \in events \/ e.when >= writeEnd,
         Going /\ currentCycle < writeEnd /\ (UsePrecharge \/ WritePausing) =>
           openRow' = openRow /\ (UsePrecharge => state' = "OPEN")
  PROVE  OwnRowInv'
<1>1. SUFFICES ASSUME Going' PROVE OwnRowInv'
  BY DEF OwnRowInv, WritesIntoItsOwnRow, Going
<1>2. /\ Going /\ writeEnd' = writeEnd /\ writeRequest' = writeRequest
      /\ UsePrecharge' = UsePrecharge /\ WritePausing' = WritePausing
      /\ RowOf(writeRequest)' = RowOf(writeRequest)
  BY <1>1 DEF UsePrecharge, WritePausing, RowOf
<1>3. /\ next["precharge"] >= writeEnd /\ next["read"] >= writeEnd
      /\ \A e \in events : e.kind = "implicit" => e.when >= writeEnd
  BY <1>2 DEF OwnRowInv, Going
<1>4. /\ writeEnd \in Nat /\ currentCycle \in Nat
      /\ next["precharge"] \in Nat /\ next["read"] \in Nat
      /\ next'["precharge"] \in Nat /\ next'["read"] \in Nat
  BY CycleFacts, WaitFacts DEF IInv, Waits, Constraint
<1>5. next'["precharge"] >= writeEnd' /\ next'["read"] >= writeEnd'
  BY <1>2, <1>3, <1>4
<1>6. \A e \in events' : e.kind = "implicit" => e.when >= writeEnd'
  BY <1>2, <1>3
<1>7. ASSUME UsePrecharge \/ WritePausing, currentCycle' < writeEnd'
      PROVE  openRow' = RowOf(writeRequest)' /\ (UsePrecharge => state' = "OPEN")
  <2>1. currentCycle < writeEnd
    BY <1>2, <1>4, <1>7
  <2>2. openRow = RowOf(writeRequest)
    BY <1>2, <1>7, <2>1 DEF OwnRowInv, WritesIntoItsOwnRow, Going
  <2>3. QED
    BY <1>2, <1>7, <2>1, <2>2
<1>8. QED
  BY <1>2, <1>5, <1>6, <1>7 DEF OwnRowInv, WritesIntoItsOwnRow

LEMMA StartKeepsOwnRow ==
  ASSUME IInv, next' \in Waits, NEW w \in Request, Write(w) \/ WritePrecharge(w)
  PROVE  OwnRowInv'
<1> DEFINE timer == WriteTimer(w)
<1>1. /\ timer \in Nat /\ currentCycle \in Nat /\ next \in Waits
  BY WriteTimerIsNatural, CycleFacts, WaitFacts DEF IInv
<1>2. /\ StartWrite(w) /\ writeEnd' = currentCycle + timer /\ writeRequest' = w
      /\ state' = "OPEN" /\ openRow' = request'[w].row
  BY RequestFacts DEF Write, WritePrecharge, StartWrite, RowOf, IInv, RequestType
<1>3. NothingCloses
  BY <1>2, CommandsFindNothingClosing, WaitFacts DEF StartWrite, MayWrite, IInv
<1>4. /\ next'["precharge"] >= currentCycle + timer /\ next'["read"] >= currentCycle + timer
      /\ \A e \in events' : e.kind = "implicit" => e.when >= currentCycle + timer
  <2>1. CASE Write(w)
    <3> DEFINE pre == currentCycle + tAL + tCWD + tBURST + timer + tWR
               rd == currentCycle + tCWD + tBURST + tWTR + timer
               wr == currentCycle + Later(tBURST, tCCD) + timer
               b == [precharge |-> pre, read |-> rd, write |-> wr]
    <3>1. next' = NotBefore(next, b)
      BY <2>1 DEF Write
    <3>2. Later(tBURST, tCCD) \in Nat
      BY DelaysAreNatural, LaterIsNatural
    <3>3. /\ pre \in Nat /\ rd \in Nat /\ wr \in Nat
          /\ pre >= currentCycle + timer /\ rd >= currentCycle + timer
      BY <1>1, <3>2, DelaysAreNatural
    <3> HIDE DEF pre, rd, wr, timer
    <3>4. \A c \in DOMAIN b : b[c] \in Nat
      BY <3>3
    <3>5. /\ next'["precharge"] = Later(next["precharge"], pre)
          /\ next'["read"] = Later(next["read"], rd)
      BY <1>1, <3>1, <3>4, NotBeforeProperties DEF Constraint
    <3>6. next["precharge"] \in Nat /\ next["read"] \in Nat
      BY <1>1 DEF Waits, Constraint
    <3>7. next'["precharge"] >= currentCycle + timer /\ next'["read"] >= currentCycle + timer
      BY <1>1, <3>3, <3>5, <3>6 DEF Later
    <3>8. \A e \in events' : e.kind # "implicit"
      BY <1>3, <2>1 DEF Write, NothingCloses, Completion, Response, ClosingResponses
    <3>9. QED
      BY <3>7, <3>8
  <2>2. CASE WritePrecharge(w)
    <3> DEFINE closing == currentCycle + tAL + tCWD + tBURST + timer + tWR
    <3>1. /\ next' = ClosedUntil(next, closing + tRP)
          /\ events' = events \cup {Completion(w), Response("implicit", closing, NoRequest)}
      BY <2>2 DEF WritePrecharge
    <3>2. /\ closing \in Nat /\ closing + tRP \in Nat /\ closing >= currentCycle + timer
          /\ closing + tRP >= currentCycle + timer
      BY <1>1, DelaysAreNatural
    <3> HIDE DEF closing, timer
    <3>3. next'["precharge"] >= closing + tRP /\ next'["read"] >= closing + tRP
      BY <1>1, <3>1, <3>2, ClosedUntilProperties DEF Constraint
    <3>4. next'["precharge"] \in Nat /\ next'["read"] \in Nat
      BY DEF Waits, Constraint
    <3>5. next'["precharge"] >= currentCycle + timer /\ next'["read"] >= currentCycle + timer
      BY <1>1, <3>2, <3>3, <3>4
    <3>6. \A e \in events' : e.kind = "implicit" => e.when = closing
      BY <1>3, <3>1 DEF NothingCloses, Completion, Response, ClosingResponses
    <3>7. QED
      BY <3>2, <3>5, <3>6
  <2>3. QED
    BY <2>1, <2>2
<1>5. QED
  BY <1>2, <1>4 DEF OwnRowInv, WritesIntoItsOwnRow, RowOf

\* A command that finds no write to pause, in a memory that does not pause.
LEMMA QuietCommandKeepsOwnRow ==
  ASSUME IInv, OwnRowInv, UNCHANGED p, next' \in Waits, NEW row \in Row,
         (\E priority \in BOOLEAN : Activate(row, priority)) \/ Read(row) \/ ReadPrecharge(row)
  PROVE  OwnRowInv'
<1>1. Issues /\ CheckWritePausing
  BY DEF Activate, Read, ReadPrecharge, StartRead
<1>2. currentCycle' = currentCycle /\ currentCycle \in Nat
  BY <1>1, CycleFacts DEF Issues, IInv
<1>3. CASE Pausing
  BY <1>1, <1>3 DEF CheckWritePausing, OwnRowInv, WritesIntoItsOwnRow
<1>4. CASE ~ Pausing
  <2>1. /\ UNCHANGED <<isWriting, writeEvent, writeEnd, writeRequest, request>>
        /\ Rescheduled = events /\ Restored = next
    BY <1>1, <1>4, PausesNothing DEF writeVars
  <2>2. Going => /\ ~ WritePausing /\ next["read"] >= writeEnd
                 /\ UsePrecharge /\ currentCycle < writeEnd => state = "OPEN"
    BY <1>4 DEF Going, Pausing, OwnRowInv, WritesIntoItsOwnRow
  <2>3. CASE \E priority \in BOOLEAN : Activate(row, priority)
    <3> DEFINE b == [precharge |-> currentCycle + Later(tRCD, tRAS),
                     read      |-> currentCycle + tRCD - tAL,
                     write     |-> currentCycle + tRCD - tAL]
    <3>1. /\ next' = NotBefore(next, b) /\ events' = events /\ (UsePrecharge => state = "CLOSED")
      BY <2>1, <2>3 DEF Activate
    <3>2. currentCycle + Later(tRCD, tRAS) \in Nat /\ currentCycle + tRCD - tAL \in Nat
      BY <1>2, DelaysAreNatural DEF Later
    <3>3. \A c \in DOMAIN b : b[c] \in Nat
      BY <3>2
    <3> HIDE DEF b
    <3>4. next'["precharge"] >= next["precharge"] /\ next'["read"] >= next["read"]
      BY <3>1, <3>3, OnlyMovedLater DEF Constraint
    <3>5. Going /\ currentCycle < writeEnd => ~ UsePrecharge /\ ~ WritePausing
      BY <2>2, <3>1
    <3>6. currentCycle' \in Nat /\ currentCycle' >= currentCycle
      BY <1>2
    <3>7. Going' => Going
      BY <2>1 DEF Going
    <3>8. QED
      BY <2>1, <3>1, <3>4, <3>5, <3>6, <3>7, OwnRowKept
  <2>4. CASE Read(row)
    <3> DEFINE b == [precharge |-> currentCycle + tAL + tBURST + tRTP - tCCD,
                     read      |-> currentCycle + Later(tBURST, tCCD),
                     write     |-> currentCycle + tCAS + tBURST + tRTRS - tCWD]
    <3>1. /\ next' = NotBefore(next, b) /\ events' = events
          /\ state' = "OPEN" /\ openRow' = openRow
      BY <2>1, <2>4 DEF Read, StartRead
    <3>2. /\ currentCycle + tAL + tBURST + tRTP - tCCD \in Nat
          /\ currentCycle + Later(tBURST, tCCD) \in Nat
          /\ currentCycle + tCAS + tBURST + tRTRS - tCWD \in Nat
      BY <1>2, DelaysAreNatural DEF Later
    <3>3. \A c \in DOMAIN b : b[c] \in Nat
      BY <3>2
    <3> HIDE DEF b
    <3>4. next'["precharge"] >= next["precharge"] /\ next'["read"] >= next["read"]
      BY <3>1, <3>3, OnlyMovedLater DEF Constraint
    <3>5. currentCycle' \in Nat /\ currentCycle' >= currentCycle
      BY <1>2
    <3>6. Going' => Going
      BY <2>1 DEF Going
    <3>7. QED
      BY <2>1, <3>1, <3>4, <3>5, <3>6, OwnRowKept
  <2>5. CASE ReadPrecharge(row)
    <3> DEFINE closing == currentCycle + tAL + tRTP
               new == Response("implicit", closing, NoRequest)
    <3>1. /\ next' = ClosedUntil(next, currentCycle + tAL + tRTP + tRP)
          /\ events' = events \cup {new} /\ next["read"] <= currentCycle
          /\ state' = "OPEN" /\ openRow' = openRow
      BY <2>1, <2>5, WaitFacts DEF ReadPrecharge, StartRead, IInv
    <3>2. /\ currentCycle + tAL + tRTP + tRP \in Nat
          /\ closing \in Nat /\ closing >= currentCycle /\ new.when = closing
      BY <1>2, DelaysAreNatural DEF Response
    <3> HIDE DEF closing, new
    <3>3. next'["precharge"] >= next["precharge"] /\ next'["read"] >= next["read"]
      BY <3>1, <3>2, ClosedOnlyMovesLater DEF Constraint
    <3>4. Going => new.when >= writeEnd
      <4>1. next["read"] \in Nat /\ writeEnd \in Nat
        BY WaitFacts, CycleFacts DEF IInv, Constraint
      <4>2. QED
        BY <1>2, <2>2, <3>1, <3>2, <4>1
    <3>5. currentCycle' \in Nat /\ currentCycle' >= currentCycle
      BY <1>2
    <3>6. Going' => Going
      BY <2>1 DEF Going
    <3>7. QED
      BY <2>1, <3>1, <3>3, <3>4, <3>5, <3>6, OwnRowKept
  <2>6. QED
    BY <2>3, <2>4, <2>5
<1>5. QED
  BY <1>3, <1>4

LEMMA OwnRowStep ==
  ASSUME IInv, OwnRowInv, Next
  PROVE  OwnRowInv'
<1>1. /\ next \in Waits /\ next' \in Waits /\ UNCHANGED p
      /\ currentCycle \in Nat /\ writeEnd \in Nat
      /\ next["precharge"] \in Nat /\ next["read"] \in Nat
  BY WaitFacts, RowStep, CycleFacts DEF Next, IInv, RowTypes, Constraint
<1>2. next' = next => next'["precharge"] >= next["precharge"] /\ next'["read"] >= next["read"]
  BY <1>1
<1>3. currentCycle' = currentCycle => currentCycle' \in Nat /\ currentCycle' >= currentCycle
  BY <1>1
<1>4. ASSUME Going, currentCycle < writeEnd, UsePrecharge PROVE state = "OPEN"
  BY <1>4 DEF Going, OwnRowInv, WritesIntoItsOwnRow
<1>5. CASE Precharge
  <2>1. /\ UNCHANGED <<writeVars, openRow, currentCycle>>
        /\ next["precharge"] <= currentCycle
    BY <1>5, WaitFacts DEF Precharge, Issues, IInv
  <2>2. Going => next["precharge"] >= writeEnd
    BY DEF Going, OwnRowInv
  <2>3. ~ (Going /\ currentCycle < writeEnd)
    BY <1>1, <2>1, <2>2
  <2>4. next'["precharge"] >= next["precharge"] /\ next'["read"] >= next["read"]
    BY <1>1, <1>5, ActivationIsPutOff DEF Constraint
  <2>5. \A e \in events' : e.kind = "implicit" => e \in events
    BY <1>5 DEF Precharge, Response
  <2>6. Going' => Going
    BY <2>1 DEF Going, writeVars
  <2>7. QED
    BY <1>1, <1>3, <2>1, <2>3, <2>4, <2>5, <2>6, OwnRowKept DEF writeVars
<1>6. CASE Refresh
  <2>1. UNCHANGED <<writeVars, openRow, currentCycle>> /\ (UsePrecharge => state = "CLOSED")
    BY <1>6 DEF Refresh, Issues
  <2>2. next'["precharge"] >= next["precharge"] /\ next'["read"] >= next["read"]
    BY <1>1, <1>6, ActivationIsPutOff DEF Constraint
  <2>3. \A e \in events' : e.kind = "implicit" => e \in events
    BY <1>6 DEF Refresh, Response
  <2>4. Going' => Going
    BY <2>1 DEF Going, writeVars
  <2>5. Going /\ currentCycle < writeEnd => ~ UsePrecharge
    BY <1>4, <2>1
  <2>6. QED
    BY <1>1, <1>3, <2>1, <2>2, <2>3, <2>4, <2>5, OwnRowKept DEF writeVars
<1>7. CASE WriteComplete \/ WriteReturned
  <2>1. PICK e \in events, place \in {"controller", "done"} :
          /\ e.kind \in WriteResponses /\ events' = events \ {e}
          /\ isWriting' = (isWriting /\ writeRequest # e.req)
          /\ request' = [request EXCEPT ![e.req].where = place]
          /\ UNCHANGED <<writeEnd, writeRequest, writeEvent, currentCycle>>
    BY <1>7, WritesAreTakenBack DEF TakesBack, KeepsWriting
  <2>2. UNCHANGED <<next, state, openRow>>
    BY <1>7 DEF WriteComplete, WriteReturned, Responds
  <2>3. Going' => Going /\ request'[writeRequest].row = request[writeRequest].row
    <3>1. Going' => Going /\ writeRequest # e.req
      BY <2>1 DEF Going
    <3>2. isWriting => writeRequest \in Request
      BY WritingFacts DEF IInv
    <3>3. QED
      BY <2>1, <3>1, <3>2, RequestFacts DEF Going, IInv
  <2>4. QED
    BY <1>1, <1>2, <1>3, <1>4, <2>1, <2>2, <2>3, OwnRowKept
<1>8. CASE ImplicitPrecharge
  <2>1. PICK e \in events :
          /\ e.kind = "implicit" /\ e.when = currentCycle
          /\ events' = (events \ {e}) \cup {Response("precharge", currentCycle + tRP, NoRequest)}
    BY <1>8 DEF ImplicitPrecharge, Due
  <2>2. UNCHANGED <<writeVars, next, openRow, currentCycle>>
    BY <1>8 DEF ImplicitPrecharge, Responds
  <2>3. Going => currentCycle >= writeEnd
    BY <2>1 DEF Going, OwnRowInv
  <2>4. ~ (Going /\ currentCycle < writeEnd)
    BY <1>1, <2>3
  <2>5. \A f \in events' : f.kind = "implicit" => f \in events
    BY <2>1 DEF Response
  <2>6. Going' => Going
    BY <2>2 DEF Going, writeVars
  <2>7. QED
    BY <1>1, <1>2, <1>3, <2>2, <2>4, <2>5, <2>6, OwnRowKept DEF writeVars
<1>9. CASE PrechargeComplete
  <2>1. PICK e \in events : e.kind = "precharge" /\ events' = events \ {e}
    BY <1>9 DEF PrechargeComplete, Due
  <2>2. UsePrecharge /\ state = "PRECHARGING"
    BY <2>1 DEF IInv, ClosingOK
  <2>3. UNCHANGED <<writeVars, next, currentCycle>>
    BY <1>9 DEF PrechargeComplete, Responds
  <2>4. ~ (Going /\ currentCycle < writeEnd)
    BY <1>4, <2>2
  <2>5. Going' => Going
    BY <2>3 DEF Going, writeVars
  <2>6. QED
    BY <1>1, <1>2, <1>3, <2>1, <2>3, <2>4, <2>5, OwnRowKept DEF writeVars
<1>10. CASE RefreshComplete
  <2>1. PICK e \in events : e.kind = "refresh" /\ events' = events \ {e}
    BY <1>10 DEF RefreshComplete, Due
  <2>2. state = "REFRESHING"
    BY <2>1 DEF IInv, ClosingOK
  <2>3. UNCHANGED <<writeVars, next, currentCycle>> /\ (~ UsePrecharge => openRow' = openRow)
    BY <1>10 DEF RefreshComplete, Responds
  <2>4. Going /\ currentCycle < writeEnd => ~ UsePrecharge
    BY <1>4, <2>2
  <2>5. Going' => Going
    BY <2>3 DEF Going, writeVars
  <2>6. QED
    BY <1>1, <1>2, <1>3, <2>1, <2>3, <2>4, <2>5, OwnRowKept DEF writeVars
<1>11. CASE Cycle
  <2>1. /\ UNCHANGED <<writeVars, next, openRow, state, events>>
        /\ currentCycle' \in Nat /\ currentCycle' >= currentCycle
    BY <1>1, <1>11 DEF Cycle
  <2>2. Going' => Going
    BY <2>1 DEF Going, writeVars
  <2>3. QED
    BY <1>1, <1>2, <1>4, <2>1, <2>2, OwnRowKept DEF writeVars
<1>12. QED
  BY <1>1, <1>5, <1>6, <1>7, <1>8, <1>9, <1>10, <1>11, StartKeepsOwnRow, QuietCommandKeepsOwnRow
  DEF Next, Command, RequestComplete
-----------------------------------------------------------------------------
LEMMA HistoryStart ==
  ASSUME HistoryInit
  PROVE  IInv /\ HistoryInv
<1>1. IInv /\ Init /\ others = next /\ written = [w \in Request |-> 0]
  BY InitIInv DEF HistoryInit
<1>2. TimesInv
  BY <1>1 DEF Init, TimesInv
<1>3. PulsesInv
  <2>1. \A w \in Request : request[w].where = "controller" /\ request[w].paused = FALSE
    <3>1. \A row \in Row : NewRequest(row).where = "controller" /\ NewRequest(row).paused = FALSE
      BY DEF NewRequest
    <3>2. request \in [Request -> {NewRequest(row) : row \in Row}]
      BY <1>1 DEF Init
    <3>3. QED
      BY <3>1, <3>2
  <2>2. events = {}
    BY <1>1 DEF Init
  <2>3. QED
    BY <1>1, <2>1, <2>2 DEF PulsesInv, PulsesOK, Restarts
<1>4. OwnRowInv
  BY <1>1 DEF Init, OwnRowInv, WritesIntoItsOwnRow
<1>5. SavedInv
  BY <1>1, WaitFacts DEF Init, SavedInv, IInv
<1>6. QED
  BY <1>1, <1>2, <1>3, <1>4, <1>5 DEF HistoryInv

LEMMA HistoryStep ==
  ASSUME IInv, HistoryInv, [HistoryNext]_historyVars
  PROVE  IInv' /\ HistoryInv'
<1>1. CASE HistoryNext
  <2>1. Next
    BY <1>1 DEF HistoryNext
  <2>2. QED
    BY <1>1, <2>1, NextIInv, TimesStep, PulsesStep, OwnRowStep, SavedStep DEF HistoryInv
<1>2. CASE UNCHANGED historyVars
  <2>1. IInv'
    BY <1>2, NextIInv DEF historyVars
  <2>2. HistoryInv'
    BY <1>2
    DEF historyVars, vars, writeVars, HistoryInv, TimesInv, PulsesInv, PulsesOK, Resumes, Restarts,
        OwnRowInv, WritesIntoItsOwnRow, RowOf, UsePrecharge, WritePausing, SavedInv
  <2>3. QED
    BY <2>1, <2>2
<1>3. QED
  BY <1>1, <1>2

LEMMA HistoryInvariance == HistorySpec => [](IInv /\ HistoryInv)
BY HistoryStart, HistoryStep, PTL DEF HistorySpec

\* Where rows are precharged or writes pause, a write that completes has had the
\* pulses of a whole write, into its own row, however often it was interrupted.
\* (Otherwise an activation may take the row from under the pulses of a write.)
THEOREM InterruptedWritesAreWhole ==
  HistorySpec => [](UsePrecharge \/ WritePausing => CompletedWriteIsWritten)
<1>1. IInv /\ HistoryInv => (UsePrecharge \/ WritePausing => CompletedWriteIsWritten)
  BY DEF HistoryInv, PulsesInv, PulsesOK, OwnRowInv, CompletedWriteIsWritten
<1>2. QED
  BY <1>1, HistoryInvariance, PTL

\* ... and in every memory it has had its pulses.
THEOREM WritesHaveTheirPulses ==
  HistorySpec => [](\A w \in Request : request[w].where = "done" => written[w] >= tWP)
<1>1. IInv /\ HistoryInv => \A w \in Request : request[w].where = "done" => written[w] >= tWP
  BY DEF HistoryInv, PulsesInv, PulsesOK
<1>2. QED
  BY <1>1, HistoryInvariance, PTL

\* A pause restores the constraints that were saved when the write started, and
\* no constraint that is still in force is forgotten.
THEOREM NoConstraintIsForgotten == HistorySpec => PauseForgetsNoConstraint
<1> DEFINE Restores ==
             (\E w \in Request : Interrupts(w)) =>
               \A c \in Constraint :
                 Later(nextPreWrite[c], currentCycle) = Later(others[c], currentCycle)
<1>1. ASSUME IInv, HistoryInv, HistoryNext, NEW w \in Request, Interrupts(w), NEW c \in Constraint
      PROVE  Later(nextPreWrite[c], currentCycle) = Later(others[c], currentCycle)
  <2>1. PICK row \in Row :
          (\E priority \in BOOLEAN : Activate(row, priority)) \/ Read(row) \/ ReadPrecharge(row)
    <3>1. writeEvent' # writeEvent
      BY <1>1 DEF Interrupts
    <3>2. ~ (WriteComplete \/ WriteReturned)
      BY <3>1 DEF WriteComplete, WriteReturned, KeepsWriting
    <3>3. ~ (\E v \in Request : Write(v) \/ WritePrecharge(v))
      BY <1>1 DEF Write, WritePrecharge, StartWrite, Interrupts
    <3>4. QED
      BY <1>1, <3>1, <3>2, <3>3
      DEF HistoryNext, Next, Command, RequestComplete, Precharge, Refresh, ImplicitPrecharge,
          PrechargeComplete, RefreshComplete, Cycle, writeVars
  <2>2. Issues /\ CheckWritePausing /\ (MayOpen \/ MayRead)
    BY <1>1, <2>1, WaitFacts DEF Activate, Read, ReadPrecharge, StartRead, MayOpen, MayRead, IInv
  <2>3. Pausing /\ writeEvent
    BY <1>1, <2>2 DEF CheckWritePausing, Interrupts
  <2>4. /\ next["activate"] <= currentCycle /\ nextPreWrite["activate"] <= currentCycle
    BY <1>1, <2>2, CommandsFindNothingClosing DEF IInv, ClosingOK
  <2>5. /\ \A d \in Constraint \ {"activate"} : others[d] = nextPreWrite[d]
        /\ others["activate"] <= next["activate"] /\ others \in Waits
    BY <1>1, <2>3 DEF HistoryInv, SavedInv, Pausing
  <2>6. CASE c # "activate"
    BY <2>5, <2>6
  <2>7. CASE c = "activate"
    <3>1. /\ others["activate"] \in Nat /\ nextPreWrite["activate"] \in Nat
          /\ next["activate"] \in Nat /\ currentCycle \in Nat
      BY <1>1, <2>5, WaitFacts DEF IInv, Waits, Constraint
    <3>2. /\ Later(others["activate"], currentCycle) = currentCycle
          /\ Later(nextPreWrite["activate"], currentCycle) = currentCycle
      BY <2>4, <2>5, <3>1 DEF Later
    <3>3. QED
      BY <2>7, <3>2
  <2>8. QED
    BY <2>6, <2>7
<1>2. IInv /\ HistoryInv /\ [HistoryNext]_historyVars => [Restores]_historyVars
  BY <1>1
<1> HIDE DEF Restores
<1>3. HistorySpec => [][Restores]_historyVars
  BY <1>2, HistoryInvariance, PTL DEF HistorySpec
<1>4. QED
  BY <1>3 DEF PauseForgetsNoConstraint, Restores
=============================================================================
