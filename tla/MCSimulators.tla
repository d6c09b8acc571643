---------------------------- MODULE MCSimulators ----------------------------
(* Three accesses, two instances of gem5's memory, two systems the second  *)
(* of which runs at two thirds of the simulator's frequency.               *)
EXTENDS Simulators

MCPeriod == <<<<1, 1>>, <<3, 2>>>>
MCTrace == <<0, 2, 2>>
MCPackets == {<<"READ", "WRITE", "READ">>, <<"READ", "WRITEBACK", "OTHER">>,
              <<"SNOOPED", "WRITE", "READ">>}
=============================================================================
