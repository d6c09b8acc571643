------------------------------ MODULE SubArray ------------------------------
(***************************************************************************)
(* One subarray of a bank (src/SubArray.cpp): the row state machine, its   *)
(* timing constraints, and the pausing and cancelling of writes.           *)
(*                                                                         *)
(* The subarray acts when a command is issued to it and when one of the    *)
(* responses it has put into the event queue comes back.  Responses have   *)
(* priority 0 and commands priority 40, so in a cycle every response comes *)
(* first; the controller issues at most one command in a cycle.            *)
(*                                                                         *)
(* Left out: the energy and the statistics, the requests for the data bus  *)
(* (RequestComplete only deletes them), write-back mode and power-down,    *)
(* which the subarray accepts but has no state for.  burstCount is 1.      *)
(***************************************************************************)
EXTENDS Integers, FiniteSets

CONSTANTS Row, NoRow,          \* the rows, and p->ROWS: no row
          Request, NoRequest,  \* the write requests, and NULL
          Configurations,      \* the configurations explored, see p below
          PauseThreshold,      \* in tenths
          MaxCancellations,
          tRCD, tRAS, tRP, tAL, tCAS, tCWD, tBURST, tCCD, tWTR, tWR, tRTP, tRTRS, tRFC,
          tWP,                 \* the duration of a write's pulses
          WriteIterations,     \* and their number
          CycleModulus,        \* 2^64, the width of ncycle_t
          Horizon              \* the last cycle explored

Delays == {tRCD, tRAS, tRP, tAL, tCAS, tCWD, tBURST, tCCD, tWTR, tWR, tRTP, tRTRS, tRFC, tWP}

ASSUME SubArrayAssumption ==
  /\ NoRow \notin Row /\ NoRequest \notin Request
  /\ Configurations \subseteq [UsePrecharge : BOOLEAN, WritePausing : BOOLEAN,
                               PauseMode : {"Normal", "IIWC", "Optimal"}]
  /\ Delays \subseteq Nat /\ tRCD > 0 /\ tRP > 0 /\ tRFC > 0 /\ tBURST > 0
  /\ tAL <= tRCD /\ tCCD <= tRTP + tBURST /\ tCWD <= tCAS + tBURST + tRTRS
  /\ PauseThreshold \in 0 .. 10
  /\ MaxCancellations \in Nat \ {0} /\ WriteIterations \in Nat \ {0}
  /\ Horizon \in Nat /\ CycleModulus \in Nat /\ CycleModulus > 20 * (Horizon + tWP)

VARIABLES
  p,               \* the parameters, read once from the configuration
  currentCycle,
  commandIssued,   \* the controller has used its command slot of this cycle
  state,
  openRow,
  next,            \* nextActivate, nextPrecharge, nextRead, nextWrite
  nextPreWrite,    \* the same, saved by the last write
  isWriting, writeRequest, writeStart, writeEnd,
  writeEvent,      \* the write's completion is in the event queue
  writeIterationStarts,
  events,          \* the subarray's responses in the event queue
  request          \* request[w]: a write, here and at the controller

writeVars == <<nextPreWrite, isWriting, writeRequest, writeStart, writeEnd, writeEvent,
               writeIterationStarts, request>>
vars == <<p, currentCycle, commandIssued, state, openRow, next, events, writeVars>>

UsePrecharge == p.UsePrecharge
WritePausing == p.WritePausing
RowOf(w) == request[w].row

State == {"OPEN", "CLOSED", "PRECHARGING", "REFRESHING"}
Constraint == {"activate", "precharge", "read", "write"}

\* A response: what it completes, when, and the write it is about.
Response(kind, when, w) == [kind |-> kind, when |-> when, req |-> w]
Due(kind) == {e \in events : e.kind = kind /\ e.when = currentCycle}

Later(a, b) == IF a > b THEN a ELSE b
NotBefore(constraints, bound) ==
  [c \in Constraint |-> IF c \in DOMAIN bound THEN Later(constraints[c], bound[c])
                                              ELSE constraints[c]]
\* Nothing but an activation once the row has closed itself.
ClosedUntil(constraints, when) ==
  LET a == Later(constraints.activate, when)
  IN  NotBefore(constraints, [activate |-> a, precharge |-> a, read |-> a, write |-> a])

Quiet == \A e \in events : e.when # currentCycle
Issues == Quiet /\ ~ commandIssued /\ commandIssued' = TRUE /\ UNCHANGED currentCycle
Forced == WritePausing /\ isWriting /\ request[writeRequest].forced
-----------------------------------------------------------------------------
(* CheckWritePausing.                                                      *)

\* The start of the iteration that is lost: the write goes back to it.
IterationStart ==
  LET started == {s \in writeIterationStarts : s <= currentCycle}
  IN  IF started = {} THEN writeStart
      ELSE CHOOSE s \in started : \A r \in started : r <= s

\* Mutant: the operands swapped.
WriteProgressSwapped == IterationStart - writeEnd

\* The time the write still needs, in the unsigned arithmetic of ncycle_t.
WriteProgress ==
  (writeEnd - (IF p.PauseMode = "Optimal" THEN currentCycle ELSE IterationStart)) % CycleModulus

\* writePercent > PauseThreshold; a write of no duration divides zero by zero,
\* and no comparison with the result is true.
FarEnough ==
  LET writeTimer == writeEnd - writeStart
  IN  writeTimer > 0 /\ 10 * (writeTimer - WriteProgress) > PauseThreshold * writeTimer

\* Mutant: a write is never forced.
InterruptedNeverForced(r) ==
  IF FarEnough
  THEN [r EXCEPT !.progress = WriteProgress, !.paused = r.paused \/ WriteProgress # writeEnd]
  ELSE [r EXCEPT !.progress = WriteProgress, !.cancelled = TRUE, !.cancellations = @ + 1]

Interrupted(r) ==
  IF FarEnough
  THEN [r EXCEPT !.progress = WriteProgress, !.paused = r.paused \/ WriteProgress # writeEnd]
  ELSE [r EXCEPT !.progress = WriteProgress, !.cancelled = TRUE,
                 !.cancellations = @ + 1,
                 !.forced = @ \/ r.cancellations + 1 >= MaxCancellations]

\* The constraints after CheckWritePausing, and the responses.
Pausing == WritePausing /\ isWriting
Restored == IF Pausing THEN nextPreWrite ELSE next
\* Mutant: the completion stays in the queue.
RescheduledKeepsCompletion ==
  IF Pausing THEN events \cup {Response("returned", currentCycle + 1, writeRequest)} ELSE events

\* RemoveEvent finds the completion by its address; the write itself goes back.
Rescheduled ==
  IF Pausing
  THEN {e \in events : ~ (e.kind = "write" /\ e.req = writeRequest)}
         \cup {Response("returned", currentCycle + 1, writeRequest)}
  ELSE events

CheckWritePausing ==
  /\ IF Pausing
     THEN /\ request' = [request EXCEPT ![writeRequest] = Interrupted(@)]
          /\ writeEvent' = FALSE
     ELSE UNCHANGED <<request, writeEvent>>
  /\ UNCHANGED <<nextPreWrite, isWriting, writeRequest, writeStart, writeEnd, writeIterationStarts>>
-----------------------------------------------------------------------------
(* The commands.  IsIssuable's tests are the first conjuncts of each.      *)

\* The controller sets FLAG_PRIORITY on an activation whose transaction found
\* the subarray writing.
Activate(row, priority) ==
  /\ Issues
  /\ next.activate <= currentCycle
  /\ UsePrecharge => state = "CLOSED"
  /\ ~ Forced
  /\ WritePausing /\ isWriting => priority
  /\ CheckWritePausing
  /\ next' = NotBefore(Restored, [precharge |-> currentCycle + Later(tRCD, tRAS),
                                  read      |-> currentCycle + tRCD - tAL,
                                  write     |-> currentCycle + tRCD - tAL])
  /\ events' = Rescheduled
  /\ openRow' = row
  /\ state' = "OPEN"

\* What READ and READ_PRECHARGE share.
StartRead(row) ==
  /\ Issues
  /\ next.read <= currentCycle /\ state = "OPEN" /\ row = openRow /\ ~ Forced
  /\ CheckWritePausing
  /\ UNCHANGED <<state, openRow>>

Read(row) ==
  /\ StartRead(row)
  /\ next' = NotBefore(Restored,
               [precharge |-> currentCycle + tAL + tBURST + tRTP - tCCD,
                read      |-> currentCycle + Later(tBURST, tCCD),
                write     |-> currentCycle + tCAS + tBURST + tRTRS - tCWD])
  /\ events' = Rescheduled

\* The implicit precharge of a READ_PRECHARGE or a WRITE_PRECHARGE: the
\* controller asks for it only when UsePrecharge is set.
ReadPrecharge(row) ==
  /\ UsePrecharge
  /\ StartRead(row)
  /\ next' = ClosedUntil(Restored, currentCycle + tAL + tRTP + tRP)
  /\ events' = Rescheduled \cup {Response("implicit", currentCycle + tAL + tRTP, NoRequest)}

\* WriteCellData: the pulses always start over, whatever is left of the write.
IterationsFrom(start) == {start + i * (tWP \div WriteIterations) : i \in 0 .. WriteIterations - 1}

\* Mutant: a cancelled write goes on where it was, too.
WriteTimerResumes(w) ==
  IF request[w].paused \/ request[w].cancelled THEN request[w].progress ELSE tWP

WriteTimer(w) == IF request[w].paused THEN request[w].progress ELSE tWP

\* Mutant: the constraints saved are those of the write before.
StartWriteSavesNothing(w) ==
  /\ Issues
  /\ request[w].where = "controller"
  /\ next.write <= currentCycle /\ state = "OPEN" /\ RowOf(w) = openRow
  /\ nextPreWrite' = nextPreWrite
  /\ request' = [request EXCEPT ![w] = [@ EXCEPT !.where = "subarray", !.progress = WriteTimer(w),
                                                 !.paused = FALSE, !.cancelled = FALSE]]
  /\ isWriting' = TRUE
  /\ writeRequest' = w
  /\ writeStart' = currentCycle
  /\ writeEnd' = currentCycle + WriteTimer(w)
  /\ writeEvent' = TRUE
  /\ writeIterationStarts' = IterationsFrom(currentCycle)
  /\ UNCHANGED <<state, openRow>>

\* What WRITE and WRITE_PRECHARGE share.
StartWrite(w) ==
  /\ Issues
  /\ request[w].where = "controller"
  /\ next.write <= currentCycle /\ state = "OPEN" /\ RowOf(w) = openRow
  /\ nextPreWrite' = next
  /\ request' = [request EXCEPT ![w] = [@ EXCEPT !.where = "subarray", !.progress = WriteTimer(w),
                                                 !.paused = FALSE, !.cancelled = FALSE]]
  /\ isWriting' = TRUE
  /\ writeRequest' = w
  /\ writeStart' = currentCycle
  /\ writeEnd' = currentCycle + WriteTimer(w)
  /\ writeEvent' = TRUE
  /\ writeIterationStarts' = IterationsFrom(currentCycle)
  /\ UNCHANGED <<state, openRow>>

Completion(w) ==
  Response("write", currentCycle + tCWD + Later(tBURST, tCCD) + WriteTimer(w), w)

Write(w) ==
  /\ StartWrite(w)
  /\ next' = NotBefore(next,
               [precharge |-> currentCycle + tAL + tCWD + tBURST + WriteTimer(w) + tWR,
                read      |-> currentCycle + tCWD + tBURST + tWTR + WriteTimer(w),
                write     |-> currentCycle + Later(tBURST, tCCD) + WriteTimer(w)])
  /\ events' = events \cup {Completion(w)}

\* Mutant: the row closes when the burst is over.
WritePrechargeAfterBurst(w) ==
  LET closing == currentCycle + tAL + tCWD + tBURST + tWR
  IN  /\ UsePrecharge
      /\ StartWrite(w)
      /\ next' = ClosedUntil(next, closing + tRP)
      /\ events' = events \cup {Completion(w), Response("implicit", closing, NoRequest)}

WritePrecharge(w) ==
  LET closing == currentCycle + tAL + tCWD + tBURST + WriteTimer(w) + tWR
  IN  /\ UsePrecharge
      /\ StartWrite(w)
      /\ next' = ClosedUntil(next, closing + tRP)
      /\ events' = events \cup {Completion(w), Response("implicit", closing, NoRequest)}

\* The controller precharges only when UsePrecharge is set.
Precharge ==
  /\ UsePrecharge
  /\ Issues
  /\ next.precharge <= currentCycle /\ state \in {"OPEN", "CLOSED"}
  /\ next' = NotBefore(next, [activate |-> currentCycle + tRP])
  /\ events' = events \cup {Response("precharge", currentCycle + tRP, NoRequest)}
  /\ state' = "PRECHARGING"
  /\ UNCHANGED <<openRow, writeVars>>

\* Mutant: an activation need not wait for the refresh.
RefreshConstrainsNothing ==
  /\ Issues
  /\ next.activate <= currentCycle /\ (UsePrecharge => state = "CLOSED")
  /\ next' = next
  /\ events' = events \cup {Response("refresh", currentCycle + tRFC, NoRequest)}
  /\ state' = "REFRESHING"
  /\ UNCHANGED <<openRow, writeVars>>

Refresh ==
  /\ Issues
  /\ next.activate <= currentCycle /\ (UsePrecharge => state = "CLOSED")
  /\ next' = NotBefore(next, [activate |-> currentCycle + tRFC])
  /\ events' = events \cup {Response("refresh", currentCycle + tRFC, NoRequest)}
  /\ state' = "REFRESHING"
  /\ UNCHANGED <<openRow, writeVars>>
-----------------------------------------------------------------------------
(* RequestComplete, one action for each kind of response.                  *)

Responds == UNCHANGED <<currentCycle, commandIssued, next>>
KeepsWriting == UNCHANGED <<nextPreWrite, writeStart, writeEnd, writeRequest, writeEvent,
                            writeIterationStarts>>

\* Mutant: isWriting is not reset.
WriteCompleteKeepsWriting ==
  \E e \in Due("write") :
    /\ events' = events \ {e}
    /\ isWriting' = isWriting
    /\ request' = [request EXCEPT ![e.req].where = "done"]
    /\ Responds /\ KeepsWriting /\ UNCHANGED <<state, openRow>>

WriteComplete ==
  \E e \in Due("write") :
    /\ events' = events \ {e}
    /\ isWriting' = (isWriting /\ writeRequest # e.req)
    /\ request' = [request EXCEPT ![e.req].where = "done"]
    /\ Responds /\ KeepsWriting /\ UNCHANGED <<state, openRow>>

\* The controller puts an interrupted write back into its queue; one that is
\* not flagged is complete.
WriteReturned ==
  \E e \in Due("returned") :
    LET interrupted == request[e.req].paused \/ request[e.req].cancelled
    IN  /\ events' = events \ {e}
        /\ isWriting' = (isWriting /\ writeRequest # e.req)
        /\ request' = [request EXCEPT ![e.req].where = IF interrupted THEN "controller" ELSE "done"]
        /\ Responds /\ KeepsWriting /\ UNCHANGED <<state, openRow>>

ImplicitPrecharge ==
  \E e \in Due("implicit") :
    /\ events' = (events \ {e}) \cup {Response("precharge", currentCycle + tRP, NoRequest)}
    /\ state' = "PRECHARGING"
    /\ Responds /\ UNCHANGED <<openRow, writeVars>>

PrechargeComplete ==
  \E e \in Due("precharge") :
    /\ events' = events \ {e}
    /\ state' = "CLOSED"
    /\ openRow' = NoRow
    /\ Responds /\ UNCHANGED writeVars

RefreshComplete ==
  \E e \in Due("refresh") :
    /\ events' = events \ {e}
    /\ state' = IF UsePrecharge THEN "CLOSED" ELSE "OPEN"
    /\ openRow' = IF UsePrecharge THEN NoRow ELSE openRow
    /\ Responds /\ UNCHANGED writeVars

Cycle ==
  /\ currentCycle < Horizon
  /\ Quiet
  /\ currentCycle' = currentCycle + 1
  /\ commandIssued' = FALSE
  /\ UNCHANGED <<state, openRow, next, events, writeVars>>
-----------------------------------------------------------------------------
NewRequest(row) ==
  [row |-> row, where |-> "controller", paused |-> FALSE, cancelled |-> FALSE,
   forced |-> FALSE, cancellations |-> 0, progress |-> 0]

Init ==
  /\ p \in Configurations
  /\ currentCycle = 0
  /\ commandIssued = FALSE
  /\ state = "CLOSED"
  /\ openRow \in Row   \* the constructor sets it to row 0
  /\ next = [c \in Constraint |-> 0]
  /\ nextPreWrite = next
  /\ isWriting = FALSE
  /\ writeRequest = NoRequest
  /\ writeStart = 0
  /\ writeEnd = 0
  /\ writeEvent = FALSE
  /\ writeIterationStarts = {}
  /\ events = {}
  /\ request \in [Request -> {NewRequest(row) : row \in Row}]

Command ==
  \/ \E row \in Row, priority \in BOOLEAN : Activate(row, priority)
  \/ \E row \in Row : Read(row) \/ ReadPrecharge(row)
  \/ \E w \in Request : Write(w) \/ WritePrecharge(w)
  \/ Precharge
  \/ Refresh

RequestComplete ==
  WriteComplete \/ WriteReturned \/ ImplicitPrecharge \/ PrechargeComplete \/ RefreshComplete

Next == UNCHANGED p /\ (Command \/ RequestComplete \/ Cycle)

Spec == Init /\ [][Next]_vars
-----------------------------------------------------------------------------
(* Properties.                                                             *)

TypeOK ==
  /\ p \in Configurations
  /\ currentCycle \in 0 .. Horizon
  /\ commandIssued \in BOOLEAN
  /\ state \in State
  /\ openRow \in Row \cup {NoRow}
  /\ next \in [Constraint -> Nat] /\ nextPreWrite \in [Constraint -> Nat]
  /\ isWriting \in BOOLEAN /\ writeEvent \in BOOLEAN
  /\ writeRequest \in Request \cup {NoRequest}
  /\ writeStart \in Nat /\ writeEnd \in Nat
  /\ writeIterationStarts \subseteq Nat
  /\ \A e \in events : /\ e.kind \in {"write", "returned", "implicit", "precharge", "refresh"}
                       /\ e.when \in Nat
                       /\ e.req \in Request \cup {NoRequest}
  /\ request \in [Request ->
       [row : Row, where : {"controller", "subarray", "done"}, paused : BOOLEAN, cancelled : BOOLEAN,
        forced : BOOLEAN, cancellations : Nat, progress : Nat]]

\* CheckWritePausing only ever deletes a completion that is in the queue: while
\* isWriting, either writeEvent is that completion, or the write is on its way
\* back and returns before the next command.
PausesALiveWrite ==
  isWriting =>
    IF writeEvent
    THEN \E e \in events : e.kind = "write" /\ e.req = writeRequest /\ e.when >= currentCycle
    ELSE \E e \in events : /\ e.kind = "returned" /\ e.req = writeRequest
                           /\ e.when <= currentCycle + (IF commandIssued THEN 1 ELSE 0)

\* A write at the subarray has exactly one response under way, its completion
\* or its return, and a write elsewhere has none: RequestComplete neither loses
\* a write nor completes it twice, however often it was interrupted and
\* overtaken by the next write; and pauses take back live completions only.
OneResponsePerWrite ==
  /\ \A w \in Request :
       Cardinality({e \in events : e.kind \in {"write", "returned"} /\ e.req = w})
         = IF request[w].where = "subarray" THEN 1 ELSE 0
  /\ PausesALiveWrite

\* While the pulses of a write go on, the row under them is the write's row, and
\* with precharging the subarray stays open.
WritesIntoItsOwnRow ==
  isWriting /\ writeEvent /\ currentCycle < writeEnd =>
    openRow = RowOf(writeRequest) /\ (UsePrecharge => state = "OPEN")

\* A response finds the subarray in the state its command left it in: the
\* implicit precharge closes an open row, a precharge or a refresh that ends is
\* the one that is going on, so none closes a row opened after it.
ResponsesFindTheirState ==
  [][/\ ImplicitPrecharge => state = "OPEN"
     /\ PrechargeComplete => state = "PRECHARGING" /\ next.activate <= currentCycle
     /\ RefreshComplete => state = "REFRESHING"]_vars

\* What is left to interrupt: cancellations first, then the pulses to come.
Left(r) == <<MaxCancellations - r.cancellations, r.progress>>
Less(a, b) == a[1] < b[1] \/ (a[1] = b[1] /\ a[2] < b[2])

\* Interruptions cannot go on for ever: each one either uses up one of the
\* MaxCancellations of the write or leaves less of it to be done than before,
\* and a write that has none left is not interrupted.
InterruptionsRunOut ==
  [][\A w \in Request :
       Pausing /\ writeRequest = w /\ Command /\ request'[w] # request[w]
         => request[w].cancellations < MaxCancellations /\ Less(Left(request'[w]), Left(request[w]))]_vars
=============================================================================
