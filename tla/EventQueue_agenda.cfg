\* Transactions are enqueued only from outside the queue.
SPECIFICATION FairSpec
CONSTANTS
  Event = {e1, e2, e3}
  Kind = {"response", "cycle", "command", "cleanup"}
  Never = 4
  Horizon = 3
  MaxSteps = 2
  EnqueueFrom = {}
INVARIANTS TypeOK LoopMayJump NoEventIsLost
PROPERTIES RunsEventsOnTime ImplementsAgenda EveryEventFires
CHECK_DEADLOCK FALSE
