--------------------------- MODULE MCCoinMigrator ---------------------------
(* Two fast and two slow pages, one STC set with two ways, a weight that    *)
(* all of them share; the migrator, and a hook that has one side.          *)
EXTENDS HookedMigrator

CONSTANTS f1, f2, s1, s2

MCInitialWeight == {-2, 0, 2}
MCVictimOrder == <<f1, f2>>
MCSetOf == [p \in Page |-> 1]
MCLayers == <<"simulator", "NVMain", "FRFCFS", "OffChipBus", "StandardRank", "DDR3Bank", "SubArray">>
MCHookList == <<"CoinMigrator", "PostTrace">>
MCHookType == [CoinMigrator |-> "BOTHISSUE", PostTrace |-> "PREISSUE"]
MCHashOf == [p \in Page |-> 1]
=============================================================================
