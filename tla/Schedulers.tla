------------------------------ MODULE Schedulers ------------------------------
(***************************************************************************)
(* The controllers proper, which decide what is scheduled next: first      *)
(* ready, first come, first served (src/MemControl/FRFCFS/FRFCFS.cpp); the *)
(* one without the searches that look ahead (src/MemControl/FCFS/FCFS.cpp);*)
(* and the one with a write queue that is drained between two watermarks   *)
(* (src/MemControl/FRFCFS-WQF/FRFCFS-WQF.cpp).                             *)
(***************************************************************************)
EXTENDS MemoryController

FRFCFS_IsIssuable == Len(transactionQueues[0]) < queueSize

FRFCFS_IssueCommand(t) ==
  /\ FRFCFS_IsIssuable
  /\ arrivedNow' = arrivedNow \cup {t}
  /\ Enqueue(0, t)

\* The transaction to schedule: a starved one, a row hit, one in a row buffer, the
\* oldest of an active bank or the oldest of a closed bank.  (FRFCFS_WQF has the
\* same order for each of its queues.)
NextRequest(n) ==
  FirstIn(<<FindStarvedRequest(n), FindRowBufferHit(n), FindCachedAddress(n),
            FindOldestReadyRequest(n), FindClosedBankRequest(n)>>)

FRFCFS_Cycle == CycleWith(NextRequest(0))
-----------------------------------------------------------------------------
(* FCFS does not set arrivalCycle, so a transaction can be scheduled in    *)
(* the cycle in which it arrives.                                          *)

FCFS_IsIssuable == Len(transactionQueues[0]) < queueSize

FCFS_IssueCommand(t) ==
  /\ FCFS_IsIssuable
  /\ Enqueue(0, t)
  /\ UNCHANGED arrivedNow

FCFS_Cycle == CycleWith(FirstIn(<<FindOldestReadyRequest(0), FindClosedBankRequest(0)>>))
-----------------------------------------------------------------------------
(* FRFCFS_WQF: queue 0 holds the reads, queue 1 the writes.                *)

CONSTANTS readQueueSize, writeQueueSize

ASSUME FRFCFS_WQFAssumption == {readQueueSize, writeQueueSize} \subseteq Nat

VARIABLES m_draining,    \* a drain between the watermarks is under way
          force_drain    \* Drain has been called

drainVars == <<m_draining, force_drain>>

readQueue == transactionQueues[0]
writeQueue == transactionQueues[1]

IsWrite(t) == p.address[t].type = "WRITE"

\* The sanity check of SetConfig.
HighWaterMark == IF p.HighWaterMark > writeQueueSize THEN writeQueueSize ELSE p.HighWaterMark
LowWaterMark ==
  IF p.HighWaterMark <= writeQueueSize /\ p.LowWaterMark > p.HighWaterMark THEN 0 ELSE p.LowWaterMark

\* Mutant: writes enter during a drain.
WQF_IsIssuableWhileDraining(t) ==
  IF IsWrite(t) THEN Len(writeQueue) < writeQueueSize ELSE Len(readQueue) < readQueueSize

WQF_IsIssuable(t) ==
  IF IsWrite(t)
  THEN Len(writeQueue) < writeQueueSize /\ ~ m_draining /\ ~ force_drain
  ELSE Len(readQueue) < readQueueSize

WQF_IssueCommand(t) ==
  /\ WQF_IsIssuable(t)
  /\ arrivedNow' = arrivedNow \cup {t}
  /\ Enqueue(IF IsWrite(t) THEN 1 ELSE 0, t)
  /\ UNCHANGED drainVars

\* Whether a drain is under way once Cycle has compared with the watermarks.
Draining ==
  IF force_drain THEN m_draining
  ELSE IF m_draining THEN Len(writeQueue) > LowWaterMark
  ELSE Len(writeQueue) >= HighWaterMark

\* While it drains only the write queue is looked at.
WQF_Cycle ==
  /\ m_draining' = Draining
  /\ CycleWith(NextRequest(IF Draining \/ (force_drain /\ readQueue = <<>>) THEN 1 ELSE 0))
  /\ UNCHANGED force_drain

\* Drain, called by a simulator at its end.
Drain ==
  /\ p.drains
  /\ force_drain' = TRUE
  /\ UNCHANGED <<vars, m_draining>>

WQF_Init == m_draining = FALSE /\ force_drain = FALSE
=============================================================================
