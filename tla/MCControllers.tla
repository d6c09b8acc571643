---------------------------- MODULE MCControllers ----------------------------
(* TLC instances of Controllers: three transactions that hit and miss each     *)
(* other's rows, placed on one or two banks with one or two subarrays.         *)
EXTENDS Controllers

CONSTANTS r1, r2, t1, t2, t3, s0, s1

At(type, bank, sub, row) == [type |-> type, bank |-> bank, sub |-> sub, row |-> row]
Addresses(a1, a2, a3) == t1 :> a1 @@ t2 :> a2 @@ t3 :> a3

\* A conflict in one bank and a transaction in another; row hits in one subarray
\* and a transaction in another; row hits and a conflict in one subarray; the
\* same with writes; a write to the row of a read.
Conflict == Addresses(At("READ", 0, s0, r1), At("READ", 0, s0, r2), At("READ", 1, s0, r1))
TwoSubArrays == Addresses(At("READ", 0, s0, r1), At("READ", 0, s0, r1), At("READ", 0, s1, r2))
OneRowMisses == Addresses(At("READ", 0, s0, r1), At("READ", 0, s0, r1), At("READ", 0, s0, r2))
TwoWrites == Addresses(At("READ", 0, s0, r1), At("WRITE", 0, s0, r2), At("WRITE", 1, s0, r1))
HitsAndWrite == Addresses(At("READ", 0, s0, r1), At("WRITE", 0, s0, r1), At("WRITE", 0, s0, r2))
OneWrite == Addresses(At("READ", 0, s0, r1), At("READ", 0, s0, r2), At("WRITE", 0, s0, r1))

Configuration(scheduler, closePage, address) ==
  [scheduler |-> scheduler, UsePrecharge |-> TRUE, PerSubArrayQueues |-> FALSE,
   ClosePage |-> closePage, UseRefresh |-> TRUE, DelayedRefreshThreshold |-> 1,
   HighWaterMark |-> 2, LowWaterMark |-> 0, drains |-> FALSE,
   rowBuffers |-> 0, readOnlyBuffers |-> TRUE, address |-> address]
WithoutRefresh(c) == [c EXCEPT !.UseRefresh = FALSE]
WithRowBuffers(c, n) == [c EXCEPT !.rowBuffers = n]

Policies ==
  {Configuration("FRFCFS", 0, Conflict), Configuration("FRFCFS", 1, TwoSubArrays),
   Configuration("FRFCFS", 2, TwoSubArrays),
   [Configuration("FRFCFS", 0, Conflict) EXCEPT !.UsePrecharge = FALSE],
   [Configuration("FCFS", 1, HitsAndWrite) EXCEPT !.DelayedRefreshThreshold = 2],
   [WithoutRefresh(Configuration("FRFCFS_WQF", 1, TwoWrites)) EXCEPT !.drains = TRUE],
   WithRowBuffers(Configuration("FRFCFS", 0, OneWrite), 1),
   [WithRowBuffers(Configuration("FCFS", 0, HitsAndWrite), 2) EXCEPT !.readOnlyBuffers = FALSE]}
LiveConfigurations ==
  {Configuration("FRFCFS", 0, OneRowMisses),
   WithoutRefresh(Configuration("FRFCFS_WQF", 0, HitsAndWrite))}
WriteQueues == {WithoutRefresh(Configuration("FRFCFS_WQF", 0, HitsAndWrite))}
=============================================================================
