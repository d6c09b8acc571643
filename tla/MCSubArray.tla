----------------------------- MODULE MCSubArray -----------------------------
(* TLC instances of SubArray: two rows and two writes, to different rows or *)
(* to the same one, with timing in the proportions of a memory whose write  *)
(* pulses dominate.                                                         *)
EXTENDS SubArrayHistory, TLC

\* A DRAM that precharges, and a non-volatile memory that does not and pauses
\* its writes.
Precharging == [UsePrecharge |-> TRUE, WritePausing |-> FALSE, PauseMode |-> "Normal"]
Pauses == [UsePrecharge |-> FALSE, WritePausing |-> TRUE, PauseMode |-> "Normal"]
PausesOptimally == [Pauses EXCEPT !.PauseMode = "Optimal"]

Modes == {Precharging, Pauses, PausesOptimally}

Symmetry == Permutations(Row) \cup Permutations(Request)
=============================================================================
