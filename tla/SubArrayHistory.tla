-------------------------- MODULE SubArrayHistory --------------------------
(***************************************************************************)
(* SubArray with two history variables, which the code does not have, to   *)
(* state what an interrupted write must not lose.                          *)
(***************************************************************************)
EXTENDS SubArray

VARIABLES others,  \* the constraints of every command but the last write
          written  \* the cycles of pulses a request has had and kept

historyVars == <<vars, others, written>>

HistoryInit ==
  /\ Init
  /\ others = next
  /\ written = [w \in Request |-> 0]

Starts(w) == request[w].where = "controller" /\ request'[w].where = "subarray"
Interrupts(w) == writeEvent /\ ~ writeEvent' /\ writeRequest = w

\* A write is credited with all its pulses when it starts; an interruption takes
\* back those that were still to come, a cancellation takes back all.
RecordPulses ==
  written' = [w \in Request |->
                IF Starts(w) THEN written[w] + WriteTimer(w)
                ELSE IF ~ Interrupts(w) THEN written[w]
                ELSE IF request'[w].cancelled THEN 0
                ELSE written[w] - Later(0, writeEnd - currentCycle)]

RecordConstraints ==
  others' = IF \E w \in Request : Starts(w) THEN next
            ELSE IF \E w \in Request : Interrupts(w) THEN next'
            ELSE [c \in Constraint |-> IF next'[c] = next[c] THEN others[c]
                                       ELSE Later(others[c], next'[c])]

HistoryNext == Next /\ RecordPulses /\ RecordConstraints

HistorySpec == HistoryInit /\ [][HistoryNext]_historyVars

\* A write that completes has had at least the pulses of a whole write, however
\* it was paused, resumed, cancelled and restarted (CheckWritePausing, Write), and
\* each of them into the row it was for.
CompletedWriteIsWritten ==
  /\ \A w \in Request : request[w].where = "done" => written[w] >= tWP
  /\ WritesIntoItsOwnRow

\* Restoring the constraints a write has saved takes back the write's own and no
\* other that is still in force, such as those of a refresh started meanwhile.
PauseForgetsNoConstraint ==
  [][(\E w \in Request : Interrupts(w)) =>
       \A c \in Constraint :
         Later(nextPreWrite[c], currentCycle) = Later(others[c], currentCycle)]_historyVars
=============================================================================
