--------------------------- MODULE CachedDDR3Bank ---------------------------
(***************************************************************************)
(* A bank with copies of its last rows in row buffers (RDB), kept in LRU   *)
(* order (src/Banks/CachedDDR3Bank).  An access that finds its row in a    *)
(* buffer never reaches the subarray.  Only the number of the row is       *)
(* compared.  A buffer holds a whole row (CachedRowSize unset), so only    *)
(* the time a write-back of dirty columns takes depends on them.           *)
(*                                                                         *)
(* The device is a record: the rows of BankRows and the buffers per bank.  *)
(* p.rowBuffers = 0 is a plain DDR3Bank.                                   *)
(***************************************************************************)
EXTENDS BankRows, Sequences, SequencesExt

ColumnAccesses == {"READ", "READ_PRECHARGE"}

InRDB(device, cmd) == cmd.row \in ToSet(device.buffers[cmd.bank])

\* CACHED is CACHED_READ or CACHED_WRITE, the question of the controller.
Cacheable(cmd) ==
  /\ cmd.type \in ColumnAccesses \cup {"CACHED"}
  /\ p.readOnlyBuffers => p.address[cmd.txn].type = "READ"

ServedByRDB(device, cmd) == InRDB(device, cmd) /\ Cacheable(cmd)

DeviceAccepts(device, cmd) ==
  ServedByRDB(device, cmd) \/ (cmd.type # "CACHED" /\ Accepts(device.rows, cmd))

\* Activate: the row has a buffer, takes an unused one, or that of the LRU row.
Allocated(buffers, row) ==
  IF row \in ToSet(buffers) THEN buffers
  ELSE IF Len(buffers) < p.rowBuffers THEN Append(buffers, row)
  ELSE IF buffers = <<>> THEN buffers
  ELSE [buffers EXCEPT ![Len(buffers)] = row]

\* The buffers before the row's move back by one.
MovedToFront(buffers, row) ==
  LET at == CHOOSE i \in DOMAIN buffers : buffers[i] = row
  IN  [i \in DOMAIN buffers |-> IF i = 1 THEN row ELSE buffers[IF i <= at THEN i - 1 ELSE i]]

DeviceAfter(device, cmd) ==
  IF ServedByRDB(device, cmd)
  THEN [device EXCEPT !.buffers[cmd.bank] = MovedToFront(@, cmd.row)]
  ELSE [rows    |-> After(device.rows, cmd),
        buffers |-> IF cmd.type = "ACTIVATE"
                    THEN [device.buffers EXCEPT ![cmd.bank] = Allocated(@, cmd.row)]
                    ELSE device.buffers]

InitDevice == [rows |-> InitRows, buffers |-> [b \in Bank |-> <<>>]]

DeviceType == [rows : RowsType, buffers : [Bank -> Seq(Row)]]
=============================================================================
