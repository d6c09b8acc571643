---------------------------- MODULE Controllers ----------------------------
(***************************************************************************)
(* The memory controllers over one rank: whichever scheduler the           *)
(* configuration names, with the handlers of the base class, the requests  *)
(* of a front end and the answers of the device.                           *)
(***************************************************************************)
EXTENDS Schedulers

allVars == <<vars, drainVars>>

Scheduler(name) == p.scheduler = name

IssueCommand(t) ==
  /\ Away(t)
  /\ \/ Scheduler("FCFS") /\ FCFS_IssueCommand(t) /\ UNCHANGED drainVars
     \/ Scheduler("FRFCFS") /\ FRFCFS_IssueCommand(t) /\ UNCHANGED drainVars
     \/ Scheduler("FRFCFS_WQF") /\ WQF_IssueCommand(t)

Cycle ==
  \/ Scheduler("FCFS") /\ FCFS_Cycle /\ UNCHANGED drainVars
  \/ Scheduler("FRFCFS") /\ FRFCFS_Cycle /\ UNCHANGED drainVars
  \/ Scheduler("FRFCFS_WQF") /\ WQF_Cycle

Wakes == CommandQueueCallback /\ UNCHANGED drainVars
Refreshes(j) == RefreshCallback(j) /\ UNCHANGED drainVars
Answers(at) == RequestComplete(at) /\ UNCHANGED drainVars
TimePasses(due) == NextCycle(due) /\ UNCHANGED drainVars

Init == InitController /\ WQF_Init

Next ==
  \/ \E t \in Transaction : IssueCommand(t)
  \/ Cycle
  \/ Wakes
  \/ \E j \in Bank : Refreshes(j)
  \/ \E at \in Place : Answers(at)
  \/ \E due \in BOOLEAN : TimePasses(due)
  \/ Scheduler("FRFCFS_WQF") /\ ~ force_drain /\ Drain

Spec == Init /\ [][Next]_allVars

\* The events run, time goes on, wake-ups come due, and what a command waits for
\* passes: its own timing, the responses of the device, its turn.
Fairness ==
  /\ WF_allVars(Cycle) /\ WF_allVars(Wakes)
  /\ SF_allVars(TimePasses(TRUE)) /\ WF_allVars(\E due \in BOOLEAN : TimePasses(due))
  /\ \A at \in Place : SF_allVars(Answers(at))
  /\ \A q \in Place : SF_allVars((Cycle \/ Wakes) /\ issued' = q)

FairSpec == Spec /\ Fairness
-----------------------------------------------------------------------------
TypeOK ==
  /\ p \in Configurations
  /\ transactionQueues \in [QueueNumber -> Seq(Transaction)]
  /\ arrivedNow \subseteq Transaction
  /\ \A q \in Queue : \A i \in DOMAIN commandQueues[q] :
       commandQueues[q][i].type \in {"ACTIVATE", "READ", "READ_PRECHARGE", "PRECHARGE",
                                     "PRECHARGE_ALL", "REFRESH"}
  /\ issued \in Queue \cup {NoQueue}
  /\ view \in [activateQueued : [Bank -> BOOLEAN], activeSubArray : [Place -> BOOLEAN],
               effectiveRow : [Place -> Row \cup {NoRow}],
               starvationCounter : [Place -> 0 .. StarvationThreshold]]
  /\ refreshQueued \in [Bank -> BOOLEAN]
  /\ pulses \in Nat /\ delayedRefreshCounter \in [Bank -> 0 .. p.DelayedRefreshThreshold - 1]
  /\ cycles \in 0 .. 2 /\ cyclesNext \in 0 .. 2
  /\ {refreshHandled, early, wake, wakeLater, burst} \subseteq BOOLEAN
  /\ device \in DeviceType
  /\ {m_draining, force_drain} \subseteq BOOLEAN

\* What the device comes to, command by command, if it carries out those of a queue
\* one after the other and the responses under way are back before each of them.
Settle(dev) == [dev EXCEPT !.rows = AllSettled(@)]
CarriedOut(cmds) ==
  LET run[i \in 0 .. Len(cmds)] ==
        IF i = 0 THEN Settle(device) ELSE Settle(DeviceAfter(run[i - 1], cmds[i]))
  IN  run

\* Every command in the queues finds its row as it needs it: an activation of a
\* subarray that is closed, an access to the row that was opened for it or to its
\* copy, which nothing evicts before.  A command that did not would stay at the
\* head of its queue until DeadlockTimer ends the simulation.  And the controller's
\* view is where the device will be once the queued commands are carried out: the
\* rows it takes for open are, and with precharging no other.
CommandsFindTheirRows ==
  \A q \in Queue :
    LET cmds == Unissued(q)
        run == CarriedOut(cmds)
        end == run[Len(cmds)].rows
    IN  /\ \A i \in DOMAIN cmds : cmds[i].type = "REFRESH" \/ DeviceAccepts(run[i - 1], cmds[i])
        /\ \A at \in Place : QueueOf(at[1], at[2]) = q =>
             /\ view.activeSubArray[at] =>
                  end[at] = [state |-> "OPEN", row |-> view.effectiveRow[at]]
             /\ UsePrecharge /\ ~ view.activeSubArray[at] => end[at].state = "CLOSED"

\* A bank is kept from new transactions exactly as long as a refresh of its group
\* is in a queue: the assertion of ResetRefreshQueued, and no bank is kept for ever
\* by a flag nothing resets.
RefreshFlagsMatchTheQueues ==
  \A b \in Bank :
    refreshQueued[b] <=>
      \E i \in DOMAIN Unissued(QueueOf(GroupHead(b), FirstSubArray)) :
        Unissued(QueueOf(GroupHead(b), FirstSubArray))[i].type = "REFRESH"

\* The controller does not sleep while there is work: as long as a command is
\* queued that is not an access to a row buffer (which is queued without one) a
\* wake-up is scheduled, and as long as a transaction has no commands before it a
\* Cycle is, except in what is left of the cycle in which it arrived.
WorkHasAWakeUp ==
  /\ (\E q \in Queue : ~ EffectivelyEmpty(q) /\ ~ ServedByRDB(device, Head(Unissued(q)))) =>
       wake \/ wakeLater
  /\ \A t \in Waiting : EffectivelyEmpty(QueueFor(t)) => cycles > 0 \/ cyclesNext > 0

\* Requests to one row are served in the order in which they came, whatever else
\* the scheduler reorders: no read overtakes a write to its own row, as far as both
\* wait in one queue and a read cannot be served from a copy the write bypasses.
RowsAreServedInOrder ==
  [][~ (p.rowBuffers > 0 /\ p.readOnlyBuffers) =>
     \A n \in QueueNumber :
       LET queue == transactionQueues[n]
       IN  \A i, j \in DOMAIN queue :
             /\ i < j /\ PlaceFor(queue[i]) = PlaceFor(queue[j]) /\ RowOf(queue[i]) = RowOf(queue[j])
             /\ queue[j] \notin Waiting'
             => queue[i] \notin Waiting'
    ]_allVars

\* Every transaction is scheduled: row hits that keep coming do not starve it.
\* Writes may wait below the high watermark for ever.
NoStarvation ==
  \A t \in Transaction : (t \in Waiting /\ ~ (Scheduler("FRFCFS_WQF") /\ IsWrite(t))) ~> t \notin Waiting

\* Every queued command is issued in the end, a refresh among them.
HasCommands(q) == q \in Queue /\ commandQueues[q] # <<>>
CommandsGetIssued == \A q \in Place : HasCommands(q) ~> ~ HasCommands(q)

\* What was accepted is done: no transaction starves and every command is issued.
WorkIsDone == NoStarvation /\ CommandsGetIssued

\* A drain ends once it has come down to the low watermark ("the write drain will
\* stop as the number of write is lower than the low watermark").
DrainsStop ==
  (Scheduler("FRFCFS_WQF") /\ m_draining /\ Len(writeQueue) <= LowWaterMark) ~> ~ m_draining
=============================================================================
