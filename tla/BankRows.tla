------------------------------ MODULE BankRows ------------------------------
(***************************************************************************)
(* What the memory controller can rely on below it: the rows of the banks  *)
(* of one rank (StandardRank, DDR3Bank, SubArray) and which command they   *)
(* accept.  Of the timing only the order is kept: a command that is        *)
(* accepted here may still have to wait for as long as the timing asks.    *)
(*                                                                         *)
(* READ stands for READ and WRITE, READ_PRECHARGE for both that close the  *)
(* row; the transaction says which it is.  Power-down and write pausing    *)
(* are left out.                                                           *)
(***************************************************************************)
EXTENDS Integers

CONSTANTS BANKS, SubArray, FirstSubArray,   \* subarray 0
          Row, NoRow,                       \* p->ROWS: no row
          BanksPerRefresh,
          Configurations                    \* the configurations explored, see p

ASSUME BankRowsAssumption ==
  /\ BANKS \in Nat \ {0} /\ BanksPerRefresh \in Nat \ {0}
  /\ BANKS % BanksPerRefresh = 0
  /\ FirstSubArray \in SubArray /\ Row # {} /\ NoRow \notin Row

VARIABLE p   \* the parameters, read once from the configuration

UsePrecharge == p.UsePrecharge

Bank == 0 .. BANKS - 1
Place == Bank \X SubArray

\* The refresh groups, named by their first bank.
GroupHead(b) == (b \div BanksPerRefresh) * BanksPerRefresh
Group(b) == {c \in Bank : GroupHead(c) = GroupHead(b)}

\* A command; txn is the transaction of a column access.
Command(type, bank, subarray, row, txn) ==
  [type |-> type, bank |-> bank, sub |-> subarray, row |-> row, txn |-> txn]

PlaceOf(cmd) == <<cmd.bank, cmd.sub>>

\* The subarrays of the bank with an open row: DDR3Bank's activeSubArrayQueue.
ActiveSubArrays(rows, b) == {s \in SubArray : rows[<<b, s>>].state = "OPEN"}

\* IsIssuable of the rank, the bank and the subarray.
Accepts(rows, cmd) ==
  LET at == rows[PlaceOf(cmd)]
  IN  CASE cmd.type = "ACTIVATE" ->
             IF UsePrecharge THEN at.state = "CLOSED" ELSE at.state \in {"CLOSED", "OPEN"}
        [] cmd.type \in {"READ", "READ_PRECHARGE"} -> at.state = "OPEN" /\ at.row = cmd.row
        [] cmd.type = "PRECHARGE" -> at.state \in {"OPEN", "CLOSED"}
        [] cmd.type = "PRECHARGE_ALL" -> TRUE   \* each active subarray is open
        [] cmd.type = "REFRESH" ->
             \A b \in Group(cmd.bank) :
               rows[<<b, FirstSubArray>>].state \in
                 (IF UsePrecharge THEN {"CLOSED"} ELSE {"CLOSED", "OPEN"})

\* The subarrays a command touches.
Touched(rows, cmd) ==
  CASE cmd.type = "PRECHARGE_ALL" -> {cmd.bank} \X ActiveSubArrays(rows, cmd.bank)
    [] cmd.type = "REFRESH" -> Group(cmd.bank) \X {FirstSubArray}
    [] OTHER -> {PlaceOf(cmd)}

\* What a subarray becomes; CLOSING and REFRESHING last until the response of
\* the command comes back.
Becomes(at, cmd) ==
  CASE cmd.type = "ACTIVATE" -> [state |-> "OPEN", row |-> cmd.row]
    [] cmd.type = "READ" -> at
    [] cmd.type = "REFRESH" -> [at EXCEPT !.state = "REFRESHING"]
    [] OTHER -> [at EXCEPT !.state = "CLOSING"]

After(rows, cmd) ==
  [at \in Place |-> IF at \in Touched(rows, cmd) THEN Becomes(rows[at], cmd) ELSE rows[at]]

\* Mutant: a refresh closes the row even when nothing is precharged.
SettledAfterRefresh(at) ==
  IF at.state \in {"CLOSING", "REFRESHING"} THEN [state |-> "CLOSED", row |-> NoRow] ELSE at

\* SubArray::RequestComplete of a precharge and of a refresh.
Settled(at) ==
  IF at.state = "CLOSING" \/ (at.state = "REFRESHING" /\ UsePrecharge)
  THEN [state |-> "CLOSED", row |-> NoRow]
  ELSE IF at.state = "REFRESHING" THEN [at EXCEPT !.state = "OPEN"]
  ELSE at

AllSettled(rows) == [at \in Place |-> Settled(rows[at])]

\* The constructor of a subarray sets openRow to row 0.
InitRows == [at \in Place |-> [state |-> "CLOSED", row |-> CHOOSE r \in Row : TRUE]]

RowsType ==
  [Place -> [state : {"CLOSED", "OPEN", "CLOSING", "REFRESHING"}, row : Row \cup {NoRow}]]
=============================================================================
