-------------------------- MODULE MemoryController --------------------------
(***************************************************************************)
(* The base class of the memory controllers (src/MemoryController.cpp):    *)
(* the transaction queue, the command queues, the controller's own view of *)
(* the rows, refresh, and the events that wake the controller up.  The     *)
(* module has the handlers as operators; a controller such as FRFCFS       *)
(* composes them into its Cycle.                                           *)
(*                                                                         *)
(* One rank; a row stands for a row and the mux level of its columns.      *)
(* Write pausing (see SubArray) and power-down (its call is commented out) *)
(* are left out.  Within a cycle the events come in the order of their     *)
(* priorities: cleanup, responses, refresh, transactions, commands.  A     *)
(* command waits for its timing for a time that is left open, so curQueue, *)
(* the queue that is asked first, makes no difference.                     *)
(***************************************************************************)
EXTENDS CachedDDR3Bank, FiniteSets

CONSTANTS Transaction, NoTransaction,
          queueSize,                   \* of a controller with one queue
          StarvationThreshold, NoQueue,
          MaxPulses                    \* the refresh pulses explored

ASSUME MemoryControllerAssumption ==
  \* PerSubArrayQueues is queueModel: one queue per subarray, or per bank.  The
  \* addresses of the transactions and whether Drain is ever called are part of a
  \* configuration, too.
  /\ Configurations \subseteq
       [scheduler : {"FCFS", "FRFCFS", "FRFCFS_WQF"}, UsePrecharge : BOOLEAN,
        PerSubArrayQueues : BOOLEAN, ClosePage : 0 .. 2,
        UseRefresh : BOOLEAN, DelayedRefreshThreshold : Nat \ {0},
        HighWaterMark : Nat, LowWaterMark : Nat, drains : BOOLEAN,
        rowBuffers : Nat, readOnlyBuffers : BOOLEAN,
        address : [Transaction -> [type : {"READ", "WRITE"}, bank : Bank, sub : SubArray, row : Row]]]
  /\ NoTransaction \notin Transaction /\ NoQueue \notin Place
  /\ {queueSize, StarvationThreshold, MaxPulses} \subseteq Nat

VARIABLES
  transactionQueues,
  arrivedNow,      \* the transactions with arrivalCycle = now
  commandQueues,
  issued,          \* the queue whose head was issued in this cycle, if any
  view,            \* activateQueued, activeSubArray, effectiveRow, starvationCounter
  delayedRefreshCounter,
  refreshQueued,
  refreshHandled,  \* handledRefresh = now
  pulses,          \* refresh pulses so far
  early,           \* no transaction or command event of this cycle has run
  cycles, cyclesNext,   \* EventCycles in this cycle and in the next
  wake, wakeLater,      \* a CommandQueueCallback is due now, or in a later cycle
  device,          \* the rows of the device and their copies
  burst            \* the data bus is taken by the access of the last cycle

refreshVars == <<delayedRefreshCounter, refreshQueued, refreshHandled, pulses>>
vars == <<p, transactionQueues, arrivedNow, commandQueues, issued, view, refreshVars, early,
          cycles, cyclesNext, wake, wakeLater, device, burst>>

BankOf(t) == p.address[t].bank
SubArrayOf(t) == p.address[t].sub
RowOf(t) == p.address[t].row

Queue == IF p.PerSubArrayQueues THEN Place ELSE Bank \X {FirstSubArray}
QueueOf(b, s) == IF p.PerSubArrayQueues THEN <<b, s>> ELSE <<b, FirstSubArray>>
QueueFor(t) == QueueOf(BankOf(t), SubArrayOf(t))
PlaceFor(t) == <<BankOf(t), SubArrayOf(t)>>

\* EffectivelyEmpty: what is in the queue has been issued.
Unissued(q) == IF issued = q THEN Tail(commandQueues[q]) ELSE commandQueues[q]
EffectivelyEmpty(q) == Unissued(q) = <<>>

\* The transactions that wait in some queue.  A queue is a list, in the order of
\* arrival; the scheduler decides which of them a transaction goes into.
QueueNumber == IF p.scheduler = "FRFCFS_WQF" THEN {0, 1} ELSE {0}
In(queues) == UNION {ToSet(queues[n]) : n \in QueueNumber}
Waiting == In(transactionQueues)
TransactionAvailable(q, waiting) == \E t \in waiting : QueueFor(t) = q

CommandFor(type, t) == Command(type, BankOf(t), SubArrayOf(t), RowOf(t), t)
-----------------------------------------------------------------------------
(* Finding a transaction: the conditions all the Find functions share, and *)
(* those that tell them apart.  A refresh is needed only inside the        *)
(* refresh handler, so bankNeedRefresh is false here.                      *)

Schedulable(t) == commandQueues[QueueFor(t)] = <<>> /\ t \notin arrivedNow
Eligible(t) == Schedulable(t) /\ ~ refreshQueued[BankOf(t)]

BankActive(t) == view.activateQueued[BankOf(t)]
RowHit(t) ==
  BankActive(t) /\ view.activeSubArray[PlaceFor(t)] /\ view.effectiveRow[PlaceFor(t)] = RowOf(t)

Starved(t) ==
  BankActive(t) /\ ~ RowHit(t) /\ view.starvationCounter[PlaceFor(t)] >= StarvationThreshold

\* The device answers from a row buffer.
Cached(t) == DeviceAccepts(device, CommandFor("CACHED", t))

\* Mutant: the one nearest to the back.
FirstFromTheBack(n, those) ==
  LET queue == transactionQueues[n]
      at == {i \in DOMAIN queue : queue[i] \in those}
  IN  {queue[i] : i \in {j \in at : \A k \in at : j >= k}}

\* The transaction nearest to the front of queue n among those, as a set.
First(n, those) ==
  LET queue == transactionQueues[n]
      at == {i \in DOMAIN queue : queue[i] \in those}
  IN  {queue[i] : i \in {j \in at : \A k \in at : j <= k}}

FindStarvedRequest(n) == First(n, {t \in Waiting : Eligible(t) /\ Starved(t)})
FindRowBufferHit(n) == First(n, {t \in Waiting : Eligible(t) /\ RowHit(t)})
FindCachedAddress(n) == First(n, {t \in Waiting : Schedulable(t) /\ Cached(t)})
FindOldestReadyRequest(n) == First(n, {t \in Waiting : Eligible(t) /\ BankActive(t)})
FindClosedBankRequest(n) == First(n, {t \in Waiting : Eligible(t) /\ ~ BankActive(t)})

\* The first search that finds something; the set is empty if none does.
FirstIn(searches) ==
  IF \A i \in DOMAIN searches : searches[i] = {} THEN {}
  ELSE searches[CHOOSE i \in DOMAIN searches :
                  searches[i] # {} /\ \A j \in 1 .. i - 1 : searches[j] = {}]

\* The iterator that found a transaction erases it; no transaction is queued twice.
Without(queue, t) ==
  IF t \in ToSet(queue) THEN RemoveAt(queue, CHOOSE i \in DOMAIN queue : queue[i] = t) ELSE queue

\* The requests that wait in the same queue and hit the row of t.
HitsBehind(t) ==
  LET n == CHOOSE m \in QueueNumber : t \in ToSet(transactionQueues[m])
  IN  {u \in ToSet(transactionQueues[n]) \ {t} : PlaceFor(u) = PlaceFor(t) /\ RowOf(u) = RowOf(t)}

\* IsLastRequest; ClosePage 2 makes every request the last one.
IsLastRequest(t) ==
  p.ClosePage = 2 \/ (p.ClosePage = 1 /\ HitsBehind(t) = {})
-----------------------------------------------------------------------------
(* IssueMemoryCommands: the commands of a transaction, and the view of the *)
(* rows once they are carried out.                                         *)

Activation(t) == Command("ACTIVATE", BankOf(t), SubArrayOf(t), RowOf(t), NoTransaction)
PrechargeFor(t) ==
  Command("PRECHARGE", BankOf(t), SubArrayOf(t), view.effectiveRow[PlaceFor(t)], NoTransaction)

\* An access from a row buffer changes nothing in the view.
FromRDB(t) == Cached(t) /\ ~ RowHit(t)

\* A row miss in an active bank ignores FLAG_LAST_REQUEST.
Closes(t) == IsLastRequest(t) /\ UsePrecharge /\ (RowHit(t) \/ ~ BankActive(t))
Access(t) == CommandFor(IF Closes(t) THEN "READ_PRECHARGE" ELSE "READ", t)

MemoryCommands(t) ==
  IF FromRDB(t) THEN <<CommandFor("READ", t)>>
  ELSE IF RowHit(t) THEN <<Access(t)>>
  ELSE (IF BankActive(t) /\ view.activeSubArray[PlaceFor(t)] /\ UsePrecharge
        THEN <<PrechargeFor(t)>> ELSE <<>>) \o <<Activation(t), Access(t)>>

OpenView(v, t) ==
  [v EXCEPT !.activateQueued[BankOf(t)] = TRUE,
            !.activeSubArray[PlaceFor(t)] = TRUE,
            !.effectiveRow[PlaceFor(t)] = RowOf(t)]

ClosedView(v, t) ==
  LET others == \E s \in SubArray \ {SubArrayOf(t)} : v.activeSubArray[<<BankOf(t), s>>]
  IN  [v EXCEPT !.activateQueued[BankOf(t)] = RowHit(t) /\ others,
                !.activeSubArray[PlaceFor(t)] = FALSE,
                !.effectiveRow[PlaceFor(t)] = NoRow]

\* Counted only as far as it is compared.
Bypassed(n) == IF n < StarvationThreshold THEN n + 1 ELSE n

ViewAfter(t) ==
  LET counted == [view EXCEPT !.starvationCounter[PlaceFor(t)] =
                    IF RowHit(t) THEN Bypassed(@) ELSE 0]
  IN  IF FromRDB(t) THEN view
      ELSE IF Closes(t) THEN ClosedView(counted, t) ELSE OpenView(counted, t)
-----------------------------------------------------------------------------
(* The wake-ups.                                                           *)

\* NextIssuable asks only the queues of the first subarrays.
NextIssuable(queues) == \E b \in Bank : queues[QueueOf(b, FirstSubArray)] # <<>>

\* Mutant: the transactions are not looked at again.
WakesNextWithoutRecheck(queues, waiting, emptied, rechecks) ==
  cyclesNext' =
    LET woken == cyclesNext + (IF \E q \in emptied : TransactionAvailable(q, waiting) THEN 1 ELSE 0)
    IN  woken

\* CycleCommandQueues and then, in a Cycle, MemoryController::Cycle.  The queues
\* and transactions are those the handler has come to.
WakesNext(queues, waiting, emptied, rechecks) ==
  cyclesNext' =
    LET woken == cyclesNext + (IF \E q \in emptied : TransactionAvailable(q, waiting) THEN 1 ELSE 0)
        empty(q) == queues[q] = <<>> \/ (issued' = q /\ Len(queues[q]) = 1)
    IN  IF /\ rechecks /\ woken = 0
           /\ \E q \in Queue : empty(q) /\ TransactionAvailable(q, waiting)
        THEN 1 ELSE woken

NothingIssued(queues, waiting, rechecks) ==
  /\ UNCHANGED <<issued, device, refreshQueued, burst>>
  /\ WakesNext(queues, waiting, {}, rechecks)

\* At least one cycle lies between two accesses: tBURST and tCCD exceed 1.
BusFree(cmd) == cmd.type \in ColumnAccesses => ~ burst

\* Mutant: only the flag of the group's head is reset.
IssueHeadResetsOneBank(q, queues, waiting, rechecks) ==
  LET cmd == Head(queues[q])
  IN  /\ DeviceAccepts(device, cmd) /\ BusFree(cmd)
      /\ issued' = q
      /\ device' = DeviceAfter(device, cmd)
      /\ refreshQueued' = [b \in Bank |-> /\ refreshQueued[b]
                                          /\ ~ (cmd.type = "REFRESH" /\ b = cmd.bank)]
      /\ burst' = (burst \/ cmd.type \in ColumnAccesses)
      /\ WakesNext(queues, waiting, IF Len(queues[q]) = 1 THEN {q} ELSE {}, rechecks)

IssueHead(q, queues, waiting, rechecks) ==
  LET cmd == Head(queues[q])
  IN  /\ DeviceAccepts(device, cmd) /\ BusFree(cmd)
      /\ issued' = q
      /\ device' = DeviceAfter(device, cmd)
      /\ refreshQueued' = [b \in Bank |-> /\ refreshQueued[b]
                                          /\ ~ (cmd.type = "REFRESH" /\ b \in Group(cmd.bank))]
      /\ burst' = (burst \/ cmd.type \in ColumnAccesses)
      /\ WakesNext(queues, waiting, IF Len(queues[q]) = 1 THEN {q} ELSE {}, rechecks)

\* One command in a cycle, and none in a cycle that has handled a refresh.
CycleCommandQueues(queues, waiting, rechecks) ==
  \/ NothingIssued(queues, waiting, rechecks)   \* as far as the timing is concerned
  \/ /\ ~ refreshHandled /\ issued = NoQueue
     /\ \E q \in Queue : queues[q] # <<>> /\ IssueHead(q, queues, waiting, rechecks)
-----------------------------------------------------------------------------
(* The handlers of the base class.                                         *)

\* Mutant: FindEvent is not asked.
EnqueueWithoutFind(n, t) ==
  /\ transactionQueues' = [transactionQueues EXCEPT ![n] = Append(@, t)]
  /\ cycles' = IF EffectivelyEmpty(QueueFor(t)) THEN cycles + 1 ELSE cycles
  /\ UNCHANGED <<p, commandQueues, issued, view, refreshVars, early, cyclesNext, wake, wakeLater,
                 device, burst>>

\* Enqueue; the controller says whether arrivalCycle is set.
Enqueue(n, t) ==
  /\ transactionQueues' = [transactionQueues EXCEPT ![n] = Append(@, t)]
  /\ cycles' = IF EffectivelyEmpty(QueueFor(t)) /\ cycles = 0 THEN 1 ELSE cycles
  /\ UNCHANGED <<p, commandQueues, issued, view, refreshVars, early, cyclesNext, wake, wakeLater,
                 device, burst>>

\* A transaction may come again once its access has been issued.
Away(t) ==
  /\ t \notin Waiting
  /\ \A q \in Queue : \A i \in DOMAIN commandQueues[q] : commandQueues[q][i].txn # t

\* What every scheduler does in its Cycle with the transaction it has found, if any:
\* IssueMemoryCommands, CycleCommandQueues and MemoryController::Cycle.  A
\* transaction served from a row buffer does not schedule a command wake-up.
CycleWith(next) ==
  /\ cycles > 0
  /\ cycles' = cycles - 1
  /\ early' = FALSE
  /\ IF next = {}
     THEN /\ UNCHANGED <<transactionQueues, commandQueues, view, wakeLater>>
          /\ CycleCommandQueues(commandQueues, Waiting, TRUE)
     ELSE \E t \in next :
            LET queues == [commandQueues EXCEPT ![QueueFor(t)] = @ \o MemoryCommands(t)]
            IN  /\ transactionQueues' = [n \in QueueNumber |->
                                           Without(transactionQueues[n], t)]
                /\ commandQueues' = queues
                /\ view' = ViewAfter(t)
                /\ wakeLater' = (wakeLater \/ (~ FromRDB(t) /\ NextIssuable(queues)))
                /\ CycleCommandQueues(queues, Waiting \ {t}, TRUE)
  /\ UNCHANGED <<p, arrivedNow, delayedRefreshCounter, refreshHandled, pulses, wake>>

\* Mutant: the next wake-up is not scheduled.
CommandQueueCallbackSleeps ==
  /\ wake /\ cycles = 0
  /\ early' = FALSE
  /\ wake' = FALSE
  /\ wakeLater' = wakeLater
  /\ CycleCommandQueues(commandQueues, Waiting, FALSE)
  /\ UNCHANGED <<p, transactionQueues, arrivedNow, commandQueues, view, delayedRefreshCounter,
                 refreshHandled, pulses, cycles>>

CommandQueueCallback ==
  /\ wake /\ cycles = 0
  /\ early' = FALSE
  /\ wake' = FALSE
  /\ wakeLater' = (wakeLater \/ NextIssuable(commandQueues))
  /\ CycleCommandQueues(commandQueues, Waiting, FALSE)
  /\ UNCHANGED <<p, transactionQueues, arrivedNow, commandQueues, view, delayedRefreshCounter,
                 refreshHandled, pulses, cycles>>

\* Mutant: the view keeps the rows that are precharged.
WithRefreshKeepsView(j) ==
  LET precharged == {b \in Group(j) : UsePrecharge /\ view.activateQueued[b]}
      all(b) == Command("PRECHARGE_ALL", b, FirstSubArray, NoRow, NoTransaction)
      refresh == Command("REFRESH", j, FirstSubArray, NoRow, NoTransaction)
  IN  /\ commandQueues' = [q \in Queue |->
           commandQueues[q]
             \o (IF \E b \in precharged : QueueOf(b, FirstSubArray) = q THEN <<all(q[1])>> ELSE <<>>)
             \o (IF QueueOf(j, FirstSubArray) = q THEN <<refresh>> ELSE <<>>)]
      /\ UNCHANGED view
      /\ refreshQueued' = [b \in Bank |-> refreshQueued[b] \/ b \in Group(j)]

\* HandleRefresh for the group of bank j: its active banks are precharged and
\* the refresh goes into the queue of the group's head.
WithRefresh(j) ==
  LET precharged == {b \in Group(j) : UsePrecharge /\ view.activateQueued[b]}
      all(b) == Command("PRECHARGE_ALL", b, FirstSubArray, NoRow, NoTransaction)
      refresh == Command("REFRESH", j, FirstSubArray, NoRow, NoTransaction)
  IN  /\ commandQueues' = [q \in Queue |->
           commandQueues[q]
             \o (IF \E b \in precharged : QueueOf(b, FirstSubArray) = q THEN <<all(q[1])>> ELSE <<>>)
             \o (IF QueueOf(j, FirstSubArray) = q THEN <<refresh>> ELSE <<>>)]
      /\ view' = [view EXCEPT
           !.activateQueued = [b \in Bank |-> @[b] /\ b \notin precharged],
           !.activeSubArray = [at \in Place |-> @[at] /\ at[1] \notin precharged],
           !.effectiveRow = [at \in Place |-> IF at[1] \in precharged THEN NoRow ELSE @[at]]]
      /\ refreshQueued' = [b \in Bank |-> refreshQueued[b] \/ b \in Group(j)]

\* RefreshCallback: ProcessRefreshPulse counts the pulse of a group, and unless the
\* refresh can be delayed further HandleRefresh handles it at once: no other group
\* needs one, so the round robin finds this group, and the counter is below the
\* threshold again.  The refresh interval is taken to be long enough for the
\* refresh before to have been issued.
NeedRefresh(counter) == counter >= p.DelayedRefreshThreshold

RefreshCallback(j) ==
  /\ p.UseRefresh /\ GroupHead(j) = j
  /\ early
  /\ pulses < MaxPulses + p.DelayedRefreshThreshold - 1
  /\ \A b \in Group(j) : ~ refreshQueued[b]
  /\ pulses' = pulses + 1
  /\ IF NeedRefresh(delayedRefreshCounter[j] + 1)
     THEN /\ WithRefresh(j)
          /\ refreshHandled' = TRUE
          /\ wakeLater' = TRUE   \* ScheduleCommandWake
          /\ UNCHANGED delayedRefreshCounter
     ELSE /\ delayedRefreshCounter' = [delayedRefreshCounter EXCEPT ![j] = @ + 1]
          /\ UNCHANGED <<commandQueues, view, refreshQueued, refreshHandled, wakeLater>>
  /\ UNCHANGED <<p, transactionQueues, arrivedNow, issued, early, cycles, cyclesNext, wake, device, burst>>

\* The responses of precharges and refreshes.
RequestComplete(at) ==
  /\ early
  /\ device.rows[at].state \in {"CLOSING", "REFRESHING"}
  /\ device' = [device EXCEPT !.rows[at] = Settled(@)]
  /\ UNCHANGED <<p, transactionQueues, arrivedNow, commandQueues, issued, view, refreshVars, early,
                 cycles, cyclesNext, wake, wakeLater, burst>>

\* The next cycle begins; its first event is CleanupCallback.  Of the command
\* wake-ups that are scheduled one may be due.
NextCycle(due) ==
  /\ cycles = 0 /\ ~ wake
  /\ commandQueues' = [q \in Queue |-> Unissued(q)]
  /\ issued' = NoQueue
  /\ arrivedNow' = {}
  /\ refreshHandled' = FALSE
  /\ early' = TRUE
  /\ cycles' = cyclesNext
  /\ cyclesNext' = 0
  /\ due => wakeLater
  /\ wake' = due
  /\ wakeLater' \in (IF due THEN BOOLEAN ELSE {wakeLater})
  /\ burst' = (burst /\ issued # NoQueue /\ commandQueues[issued][1].type \in ColumnAccesses)
  /\ UNCHANGED <<p, transactionQueues, view, delayedRefreshCounter, refreshQueued,
                 pulses, device>>

NothingToDo ==
  /\ transactionQueues = [n \in QueueNumber |-> <<>>]
  /\ arrivedNow = {}
  /\ issued = NoQueue
  /\ cycles = 0 /\ cyclesNext = 0
  /\ wake = FALSE /\ wakeLater = FALSE

NoRefreshes ==
  /\ delayedRefreshCounter = [b \in Bank |-> 0]
  /\ refreshHandled = FALSE
  /\ pulses = 0

InitController ==
  /\ p \in Configurations
  /\ NothingToDo /\ NoRefreshes
  /\ commandQueues = [q \in Queue |-> <<>>]
  /\ view = [activateQueued    |-> [b \in Bank |-> FALSE],
             activeSubArray    |-> [at \in Place |-> FALSE],
             effectiveRow      |-> [at \in Place |-> NoRow],
             starvationCounter |-> [at \in Place |-> 0]]
  /\ refreshQueued = [b \in Bank |-> FALSE]
  /\ early = TRUE
  /\ device = InitDevice
  /\ burst = FALSE
=============================================================================
