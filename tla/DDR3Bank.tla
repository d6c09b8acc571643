------------------------------ MODULE DDR3Bank ------------------------------
(***************************************************************************)
(* A bank of subarrays (Banks/DDR3Bank/DDR3Bank.cpp): whether it is open,  *)
(* the subarrays that are, and the constraints between their columns.      *)
(* nextActivate and nextPrecharge are left out: only power-up moves them.  *)
(***************************************************************************)
EXTENDS DeviceSubArray, SequencesExt

SubArray == 0 .. p.SUBARRAYS - 1

InitBank == [state |-> "CLOSED",
             active |-> <<>>,   \* activeSubArrayQueue
             wait |-> [c \in {"read", "write"} |-> 0],
             sub |-> [s \in SubArray |-> InitSubArray]]

\* The subarrays a command goes to, in the order in which they get it.
Addressed(bank, cmd) == IF cmd.type = "PRECHARGE_ALL" THEN bank.active ELSE <<cmd.sub>>

BankAccepts(bank, cmd) ==
  /\ cmd.type \in Reads \cup Writes =>
       bank.state = "OPEN" /\ bank.wait[ConstraintOf(cmd.type)] = 0
  /\ \A s \in ToSet(Addressed(bank, cmd)) : SubArrayAccepts(bank.sub[s], cmd.type)

BankWaits(wait, type) ==
  CASE type \in Reads -> NotBefore(wait, [read  |-> Later(tBURST, tCCD),
                                          write |-> tCAS + tBURST + tRTRS - tCWD])
    [] type \in Writes -> NotBefore(wait, [read  |-> tCWD + tBURST + tWTR,
                                           write |-> Later(tBURST, tCCD)])
    [] OTHER -> wait

\* Mutant: a column access that closes its row leaves the subarray in the queue.
ActiveAfterExplicit(bank, cmd) ==
  CASE cmd.type = "ACTIVATE" -> <<cmd.sub>> \o bank.active
    [] cmd.type = "PRECHARGE" -> RemoveFirst(bank.active, cmd.sub)
    [] cmd.type = "PRECHARGE_ALL" -> <<>>
    [] OTHER -> bank.active

ActiveAfter(bank, cmd) ==
  CASE cmd.type = "ACTIVATE" -> <<cmd.sub>> \o bank.active
    [] cmd.type \in {"PRECHARGE", "READ_PRECHARGE", "WRITE_PRECHARGE"} ->
         RemoveFirst(bank.active, cmd.sub)
    [] cmd.type = "PRECHARGE_ALL" -> <<>>
    [] OTHER -> bank.active

BankAfter(bank, cmd) ==
  LET touched == ToSet(Addressed(bank, cmd))
      active == ActiveAfter(bank, cmd)
      closes == cmd.type \in {"PRECHARGE", "PRECHARGE_ALL", "READ_PRECHARGE", "WRITE_PRECHARGE"}
  IN  [state |-> IF cmd.type = "ACTIVATE" THEN "OPEN"
                 ELSE IF closes /\ active = <<>> THEN "CLOSED"
                 ELSE bank.state,
       active |-> active,
       wait |-> BankWaits(bank.wait, cmd.type),
       sub |-> [s \in SubArray |-> IF s \in touched THEN AfterCommand(bank.sub[s], cmd.type)
                                   ELSE bank.sub[s]]]

BankIdle(bank) == \A s \in SubArray : SubArrayIdle(bank.sub[s])

BankElapsed(bank) ==
  [bank EXCEPT !.wait = Elapsed(@),
               !.sub = [s \in SubArray |-> [bank.sub[s] EXCEPT !.wait = Elapsed(@)]]]

BankType ==
  [state : {"OPEN", "CLOSED"}, active : Seq(SubArray),
   wait : [{"read", "write"} -> Nat], sub : [SubArray -> SubArrayType]]
=============================================================================
