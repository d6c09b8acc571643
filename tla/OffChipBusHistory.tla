------------------------- MODULE OffChipBusHistory -------------------------
(* OffChipBus with what has happened on the channel, for properties only.  *)
EXTENDS OffChipBus

VARIABLES
  bursts,        \* the data bursts: who has the data pins, and from when (cycles from now)
  activations    \* for each rank, how long ago it activated or refreshed, up to tRAW
historyVars == <<vars, bursts, activations>>

HistoryInit ==
  /\ Init
  /\ bursts = {}
  /\ activations = [r \in Rank |-> {}]

Burst(cmd) ==
  CASE cmd.type \in Reads -> {[in |-> tCAS, rank |-> cmd.rank, write |-> FALSE]}
    [] cmd.type \in Writes -> {[in |-> tCWD, rank |-> cmd.rank, write |-> TRUE]}
    [] OTHER -> {}

\* The pins are idle between two ranks: for tRTRS, or tOST between two writes.
Gap(a, b) == IF a.rank = b.rank THEN 0 ELSE IF a.write /\ b.write THEN tOST ELSE tRTRS

HistoryNext ==
  \/ /\ Cycle
     /\ bursts' = {b \in {[c EXCEPT !.in = @ - 1] : c \in bursts} :
                     b.in + tBURST + Later(tRTRS, tOST) > 0}
     /\ activations' = [r \in Rank |-> {ago + 1 : ago \in activations[r]} \cap 0 .. tRAW - 1]
  \/ RequestComplete /\ UNCHANGED <<bursts, activations>>
  \/ \E cmd \in Commands :
       /\ IssueCommand(cmd)
       /\ bursts' = bursts \cup Burst(cmd)
       /\ activations' = [r \in Rank |-> IF r = cmd.rank /\ Activates(cmd)
                                         THEN activations[r] \cup {0} ELSE activations[r]]

HistorySpec == HistoryInit /\ [][HistoryNext]_historyVars
-----------------------------------------------------------------------------
\* No two bursts are on the data pins at once, and there is time to switch from
\* one rank to another: what the constraints of subarrays, banks and ranks and the
\* notices between ranks are for, in every order of reads and writes, whether
\* they close their row or not.
BurstsNeverCollide ==
  \A a, b \in bursts :
    a # b /\ a.in <= b.in => a.in + tBURST + Gap(a, b) <= b.in

\* A rank never activates more than RAW times in tRAW cycles, and never twice in
\* less than tRRD; a refresh counts as an activation (StandardRank::Activate,
\* Refresh and the ring lastActivate).
ActivationsAreSpread ==
  \A r \in Rank :
    /\ Cardinality(activations[r]) <= RAW
    /\ \A a, b \in activations[r] : a < b => b - a >= tRRDR
=============================================================================
