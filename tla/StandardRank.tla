---------------------------- MODULE StandardRank ----------------------------
(***************************************************************************)
(* A rank of banks (Ranks/StandardRank/StandardRank.cpp): the constraints  *)
(* between banks, the window that limits its activations, the notice that  *)
(* it takes of the other ranks' bursts, and its state, which the code uses *)
(* for power and energy.                                                   *)
(***************************************************************************)
EXTENDS DDR3Bank

Bank == 0 .. p.BANKS - 1
BanksPerRefresh == p.BanksPerRefresh

\* raw stands for lastActivate and RAWindex: for each of the last RAW
\* activations, the oldest first, the cycles until it is tRAW ago.
InitRank == [state |-> "CLOSED",
             wait |-> [c \in Constraint |-> tCMD],
             raw |-> [i \in 1 .. RAW |-> tRAW],
             bank |-> [b \in Bank |-> InitBank]]

\* A refresh goes to the banks of its group, the others to one bank.
Banks(cmd) ==
  IF cmd.type = "REFRESH" THEN [i \in 1 .. BanksPerRefresh |-> cmd.bank + i - 1] ELSE <<cmd.bank>>

\* What counts as an activation.
Activates(cmd) == cmd.type \in {"ACTIVATE", "REFRESH"}

RankAccepts(rank, cmd) ==
  /\ rank.wait[ConstraintOf(cmd.type)] = 0
  /\ Activates(cmd) => Head(rank.raw) = 0
  /\ \A b \in ToSet(Banks(cmd)) : BankAccepts(rank.bank[b], cmd)

RankWaits(wait, type) ==
  CASE type \in {"ACTIVATE", "REFRESH"} -> NotBefore(wait, [activate |-> tRRDR])
    [] type \in {"PRECHARGE", "PRECHARGE_ALL"} -> NotBefore(wait, [precharge |-> tPPD])
    [] OTHER -> BankWaits(wait, type)

RankIdle(banks) == \A b \in Bank : BankIdle(banks[b])

RankStateAfter(state, banks, type) ==
  CASE type = "ACTIVATE" /\ state = "CLOSED" -> "OPEN"
    [] type \in {"PRECHARGE", "PRECHARGE_ALL"} /\ RankIdle(banks) -> "CLOSED"
    [] type = "REFRESH" -> "REFRESHING"
    [] OTHER -> state

\* Mutant: a refresh does not advance the window.
RankAfterRefreshUncounted(rank, cmd) ==
  LET touched == ToSet(Banks(cmd))
      banks == [b \in Bank |-> IF b \in touched THEN BankAfter(rank.bank[b], cmd)
                               ELSE rank.bank[b]]
  IN  [state |-> RankStateAfter(rank.state, banks, cmd.type),
       wait |-> RankWaits(rank.wait, cmd.type),
       raw |-> IF cmd.type = "ACTIVATE" THEN Append(Tail(rank.raw), tRAW) ELSE rank.raw,
       bank |-> banks]

RankAfter(rank, cmd) ==
  LET touched == ToSet(Banks(cmd))
      banks == [b \in Bank |-> IF b \in touched THEN BankAfter(rank.bank[b], cmd)
                               ELSE rank.bank[b]]
  IN  [state |-> RankStateAfter(rank.state, banks, cmd.type),
       wait |-> RankWaits(rank.wait, cmd.type),
       raw |-> IF Activates(cmd) THEN Append(Tail(rank.raw), tRAW) ELSE rank.raw,
       bank |-> banks]

\* The subarrays that a command reaches, in the order in which they get it.
Reached(rank, cmd) ==
  IF cmd.type = "REFRESH"
  THEN [i \in DOMAIN Banks(cmd) |-> [bank |-> Banks(cmd)[i], sub |-> cmd.sub]]
  ELSE LET subs == Addressed(rank.bank[cmd.bank], cmd)
       IN  [i \in DOMAIN subs |-> [bank |-> cmd.bank, sub |-> subs[i]]]

\* What a command puts in the event queue, and after how many cycles.
BankResponses(rank, cmd) ==
  LET response == SubArrayResponse(cmd.type)
      reached == Reached(rank, cmd)
  IN  [in |-> response.in,
       list |-> IF response.kind = "none" THEN <<>>
                ELSE [i \in DOMAIN reached |->
                        Response(response.kind, cmd.rank, reached[i].bank, reached[i].sub)]]

\* When the rank looks; the pulses of a write are not part of it.
RankResponses(cmd) ==
  LET look(cycles) == [in |-> cycles, list |-> <<Response("rank", cmd.rank, cmd.bank, cmd.sub)>>]
  IN  CASE cmd.type = "READ_PRECHARGE" -> look(tAL + tRTP)
        [] cmd.type = "WRITE_PRECHARGE" -> look(tAL + tCWD + tBURST + tWR)
        [] cmd.type = "REFRESH" -> look(tRFC)
        [] OTHER -> [in |-> 0, list |-> <<>>]

\* Mutant: the rank puts its own response in the queue before it issues.
ResponsesRankFirst(rank, cmd) == <<RankResponses(cmd), BankResponses(rank, cmd)>>

\* Those of the subarrays, then the rank's own, to look at its state when the rows
\* are closed.
Responses(rank, cmd) == <<BankResponses(rank, cmd), RankResponses(cmd)>>

\* Mutant: a rank takes no notice of another's writes.
NotifiedOfReads(rank, type) ==
  [rank EXCEPT !.wait =
     IF type \in Reads
     THEN NotBefore(@, [read  |-> tBURST + tRTRS,
                        write |-> tCAS + tBURST + tRTRS - tCWD])
     ELSE @]

\* Another rank reads or writes on the same channel.
Notified(rank, type) ==
  [rank EXCEPT !.wait =
     CASE type \in Reads -> NotBefore(@, [read  |-> tBURST + tRTRS,
                                          write |-> tCAS + tBURST + tRTRS - tCWD])
       [] type \in Writes -> NotBefore(@, [read  |-> tBURST + tCWD + tRTRS - tCAS,
                                           write |-> tBURST + tOST])
       [] OTHER -> @]

\* RequestComplete of the rank and of its subarrays.
RankAfterResponse(rank, r) ==
  IF r.kind = "rank"
  THEN [rank EXCEPT !.state = IF RankIdle(rank.bank) THEN "CLOSED" ELSE @]
  ELSE [rank EXCEPT !.bank[r.bank].sub[r.sub] = AfterResponse(@, r.kind)]

RankElapsed(rank) ==
  [rank EXCEPT !.wait = Elapsed(@),
               !.raw = [i \in DOMAIN @ |-> Later(0, @[i] - 1)],
               !.bank = [b \in Bank |-> BankElapsed(@[b])]]

RankType ==
  [state : {"OPEN", "CLOSED", "REFRESHING"}, wait : [Constraint -> Nat],
   raw : [1 .. RAW -> Nat], bank : [Bank -> BankType]]
=============================================================================
