---------------------------- MODULE HookedMigrator ----------------------------
(* The migrator at work: a hook of every object, it acts when the hooks of *)
(* NVMain are called after a command.  The command is in the queue of its  *)
(* channel by then: what it makes the migrator move only later ones see.   *)
(* A call, with what it calls in turn, is one step.                        *)
EXTENDS CoinHistory, NVMObject

\* Neither simulator hands requests to anything but NVMain, the banks are below the
\* controller's queues, and no layer comes twice; the two hooks say themselves when
\* they want to be called.
ASSUME HookedAssumption ==
  /\ Layers \in Seq(STRING) /\ IsInjective(Layers)
  /\ Layers[2] = "NVMain" /\ \E layer \in 4 .. Len(Layers) : Layers[layer] = "DDR3Bank"
  /\ HookList \in Seq(STRING) /\ {"CoinMigrator", "PostTrace"} \subseteq ToSet(HookList)
  /\ HookType["CoinMigrator"] = "BOTHISSUE" /\ HookType["PostTrace"] = "PREISSUE"

VARIABLES
  manual,     \* does the simulator call its own hooks?  gem5's does
  request     \* the request that is followed: where it is, and the hooks it met last
hookedVars == <<historyVars, manual, request>>

HookedInit ==
  /\ HistoryInit
  /\ manual \in BOOLEAN
  /\ request = [state |-> "none", calls |-> <<>>]

\* Mutant: whenever a hook of NVMain is called.
TrainsOnBothSides(call) ==
  call.hook = "CoinMigrator" /\ call.layer = "NVMain" /\ call.event = "issue"

Trains(call) ==
  /\ call.hook = "CoinMigrator" /\ call.event = "issue"
  /\ call.layer = "NVMain" /\ call.side = "POSTISSUE"
TimesTrained == Cardinality({i \in DOMAIN request.calls : Trains(request.calls[i])})

\* PostTrace records every command that a bank is given.
Records(call) == call.hook = "PostTrace" /\ call.event = "issue" /\ call.layer = "DDR3Bank"
TimesRecorded == Cardinality({i \in DOMAIN request.calls : Records(request.calls[i])})

\* What the hooks are called for on the three parts of the way.
IssueCalls == [own \in BOOLEAN |-> IssueCommandCalls(IF own THEN 1 ELSE 2, 3)]
ServeCalls == IssueCommandCalls(4, Len(Layers))
CompleteCalls == RequestCompleteCalls(Len(Layers) - 1)

\* Down to the queue of the controller; the decoder is asked before the hook.
IssueCommand(p, write) ==
  /\ request.state \in {"none", "complete"}
  /\ request' = [state |-> "queued", calls |-> IssueCalls[manual]]
  /\ IF TimesTrained' > 0 THEN Access(p, write) ELSE UNCHANGED historyVars
  /\ UNCHANGED manual

\* The controller issues the command that does what was asked.
Serve ==
  /\ request.state = "queued"
  /\ request' = [state |-> "served", calls |-> ServeCalls]
  /\ UNCHANGED <<historyVars, manual>>

\* From the subarray to the simulator.
Complete ==
  /\ request.state = "served"
  /\ request' = [state |-> "complete", calls |-> CompleteCalls]
  /\ UNCHANGED <<historyVars, manual>>

\* Checkpoints are taken when nothing is under way.
HookedRestart ==
  /\ request.state = "complete"
  /\ HistoryRestart
  /\ request' = [state |-> "none", calls |-> <<>>]
  /\ UNCHANGED manual

HookedNext ==
  \/ \E p \in Page, write \in BOOLEAN : IssueCommand(p, write)
  \/ Serve \/ Complete \/ HookedRestart
HookedSpec == HookedInit /\ [][HookedNext]_hookedVars
-----------------------------------------------------------------------------
\* Each hook meets a request once on each of its sides, at each layer that the
\* request passes, down and up, although AddChild copies a hook that has both
\* sides twice; and the migrator counts the access once, PostTrace records it once.
HooksMeetARequestOnce ==
  LET passes == CASE request.state = "none" -> {}
                  [] request.state = "queued" -> (IF manual THEN 1 ELSE 2) .. 3
                  [] request.state = "served" -> 4 .. Len(Layers)
                  [] request.state = "complete" -> 1 .. Len(Layers) - 1
      met(h, layer) == {i \in DOMAIN request.calls :
                          request.calls[i].hook = h /\ request.calls[i].layer = Layers[layer]}
  IN  /\ TimesTrained = IF request.state = "queued" THEN 1 ELSE 0
      /\ TimesRecorded = IF request.state = "served" THEN 1 ELSE 0
      /\ \A h \in ToSet(HookList), layer \in 1 .. Len(Layers) :
           Cardinality(met(h, layer)) = IF layer \in passes THEN Cardinality(SidesOf(h)) ELSE 0
=============================================================================
