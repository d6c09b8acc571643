---------------------------- MODULE MCOffChipBus ----------------------------
(* Three channels: two ranks that share the data pins, a rank whose banks   *)
(* share its activations and refreshes, and a bank with two subarrays; DRAM, *)
(* and memories with write pulses.                                         *)
EXTENDS OffChipBusHistory

Channel(ranks, banks, subarrays, banksPerRefresh, pulses) ==
  [RANKS |-> ranks, BANKS |-> banks, SUBARRAYS |-> subarrays,
   BanksPerRefresh |-> banksPerRefresh, tWP |-> pulses]

Channels == {Channel(2, 1, 1, 1, 0), Channel(2, 1, 1, 1, 2),
             Channel(1, 2, 1, 2, 0), Channel(1, 2, 1, 1, 0), Channel(1, 2, 1, 2, 2),
             Channel(1, 1, 2, 1, 0), Channel(1, 1, 2, 1, 2)}
=============================================================================
