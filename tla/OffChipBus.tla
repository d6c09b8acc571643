----------------------------- MODULE OffChipBus -----------------------------
(***************************************************************************)
(* One channel: the ranks behind the off-chip bus                          *)
(* (Interconnect/OffChipBus/OffChipBus.cpp), their responses in the event  *)
(* queue, and a controller that may issue, in each cycle, any one command  *)
(* the device accepts.  Responses have priority 0 and commands priority    *)
(* 40, so all responses of a cycle come first.                             *)
(*                                                                         *)
(* Of what goes up to the controller nothing is kept: MemoryController     *)
(* models who waits for it.                                                *)
(***************************************************************************)
EXTENDS StandardRank, FiniteSets

CONSTANTS Configurations   \* the channels explored: RANKS, BANKS, SUBARRAYS, BanksPerRefresh, tWP

ASSUME OffChipBusAssumption ==
  \A c \in Configurations :
    /\ {c.RANKS, c.BANKS, c.SUBARRAYS, c.BanksPerRefresh} \subseteq Nat \ {0}
    /\ c.BANKS % c.BanksPerRefresh = 0
    /\ c.tWP \in Nat

VARIABLES rank,            \* the ranks with all that is below them
          responses,       \* eventMap: for each cycle from now, the responses in order
          commandIssued    \* the controller has used its command slot of this cycle

vars == <<p, rank, responses, commandIssued>>

\* The ranks are the children of the bus.
Rank == 0 .. p.RANKS - 1

\* What the controller makes: a refresh is for the first bank of a group, and
\* commands for a whole bank name its first subarray.
Commands ==
  {cmd \in [type : CommandType, rank : Rank, bank : Bank, sub : SubArray] :
     /\ cmd.type = "REFRESH" => cmd.bank % BanksPerRefresh = 0
     /\ cmd.type \in {"REFRESH", "PRECHARGE_ALL"} => cmd.sub = 0}

\* The latest that a response may come.
Latest == Later(Later(tRP, tRFC), Later(ImplicitPrecharge("READ_PRECHARGE"),
                                        ImplicitPrecharge("WRITE_PRECHARGE")))

\* InsertEvent, for each of a list: behind the responses of the same cycle.
InsertEvent(queue, new) == [queue EXCEPT ![new.in] = @ \o new.list]

Due == responses[0] # <<>>

IsIssuable(cmd) == RankAccepts(rank[cmd.rank], cmd)

\* The addressed rank executes a command, the others are notified of it.
RanksAfter(cmd) ==
  [r \in Rank |-> IF r = cmd.rank THEN RankAfter(rank[r], cmd) ELSE Notified(rank[r], cmd.type)]

IssueCommand(cmd) ==
  /\ ~ Due /\ ~ commandIssued
  /\ IsIssuable(cmd)
  /\ rank' = RanksAfter(cmd)
  /\ LET new == Responses(rank[cmd.rank], cmd)
     IN  responses' = InsertEvent(InsertEvent(responses, new[1]), new[2])
  /\ commandIssued' = TRUE
  /\ UNCHANGED p

RequestComplete ==
  /\ Due
  /\ LET r == Head(responses[0])
         rest == [responses EXCEPT ![0] = Tail(@)]
     IN  /\ rank' = [rank EXCEPT ![r.rank] = RankAfterResponse(@, r)]
         /\ responses' = IF r.kind = "implicit precharge"
                         THEN InsertEvent(rest, [in |-> tRP, list |-> <<[r EXCEPT !.kind = "precharge"]>>])
                         ELSE rest
  /\ UNCHANGED <<p, commandIssued>>

Cycle ==
  /\ ~ Due
  /\ rank' = [r \in Rank |-> RankElapsed(rank[r])]
  /\ responses' = [c \in 0 .. Latest |-> IF c = Latest THEN <<>> ELSE responses[c + 1]]
  /\ commandIssued' = FALSE
  /\ UNCHANGED p

Init ==
  /\ p \in Configurations
  /\ rank = [r \in Rank |-> InitRank]
  /\ responses = [c \in 0 .. Latest |-> <<>>]
  /\ commandIssued = FALSE

Next == (\E cmd \in Commands : IssueCommand(cmd)) \/ RequestComplete \/ Cycle

Spec == Init /\ [][Next]_vars
-----------------------------------------------------------------------------
(* Properties.                                                             *)

ResponseType ==
  [kind : {"implicit precharge", "precharge", "refresh", "rank"},
   rank : Rank, bank : Bank, sub : SubArray]

TypeOK ==
  /\ p \in Configurations
  /\ rank \in [Rank -> RankType]
  /\ responses \in [0 .. Latest -> Seq(ResponseType)]
  /\ commandIssued \in BOOLEAN

\* A bank knows which of its subarrays are open: those in its queue are, once
\* each, the others are closed or about to close themselves, and the bank is open
\* as long as there is one (DDR3Bank's activeSubArrayQueue, erased from by
\* PRECHARGE, PRECHARGE_ALL and the column accesses that close their row).
ClosesItself(r, b, s) ==
  \E c \in DOMAIN responses :
    Response("implicit precharge", r, b, s) \in ToSet(responses[c])

BanksKnowTheirOpenRows ==
  \A r \in Rank, b \in Bank :
    LET bank == rank[r].bank[b]
    IN  /\ \A i, j \in DOMAIN bank.active : bank.active[i] = bank.active[j] => i = j
        /\ \A s \in SubArray :
             s \in ToSet(bank.active) <=> bank.sub[s].state = "OPEN" /\ ~ ClosesItself(r, b, s)
        /\ bank.state = "OPEN" <=> bank.active # <<>>

\* A rank in standby has only idle banks, and without write pulses it is in
\* standby whenever they are, although it learns of rows that close themselves
\* from an event of its own (StandardRank's state, read by the energy
\* accounting).  With tWP > 0 a WRITE_PRECHARGE closes its row after the rank has
\* looked.
StandbyMeansIdle ==
  ~ Due => \A r \in Rank :
             /\ rank[r].state = "CLOSED" => RankIdle(rank[r].bank)
             /\ tWP = 0 /\ RankIdle(rank[r].bank) => rank[r].state = "CLOSED"
=============================================================================
