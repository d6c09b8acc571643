--------------------------- MODULE ControllersProofs ---------------------------
(***************************************************************************)
(* Theorems about the memory controllers, for every scheduler and page     *)
(* policy, any numbers of banks, subarrays and transactions, any queue     *)
(* sizes and any refresh groups.                                           *)
(***************************************************************************)
EXTENDS Controllers, SequenceTheorems, WellFoundedInduction, TLAPS

\* The commands that a controller makes.
CommandKind == {"ACTIVATE", "READ", "READ_PRECHARGE", "PRECHARGE", "PRECHARGE_ALL", "REFRESH"}
CommandType ==
  {c \in [type : CommandKind, bank : Bank, sub : SubArray, row : Row \cup {NoRow},
          txn : Transaction \cup {NoTransaction}] :
     /\ c.type \in ColumnAccesses => c.row \in Row /\ c.txn \in Transaction
     /\ c.type = "ACTIVATE" => c.row \in Row}
CommandQueues == [Queue -> Seq(CommandType)]
ViewType ==
  [activateQueued : [Bank -> BOOLEAN], activeSubArray : [Place -> BOOLEAN],
   effectiveRow : [Place -> Row \cup {NoRow}],
   starvationCounter : [Place -> 0 .. StarvationThreshold]]

TransactionsOK ==
  /\ transactionQueues \in [QueueNumber -> Seq(Transaction)]
  /\ arrivedNow \subseteq Transaction
QueuesOK ==
  /\ commandQueues \in CommandQueues
  /\ issued \in Queue \cup {NoQueue}
  /\ issued # NoQueue => commandQueues[issued] # <<>>
  /\ early => issued = NoQueue
RefreshOK ==
  /\ refreshQueued \in [Bank -> BOOLEAN]
  /\ pulses \in Nat /\ delayedRefreshCounter \in [Bank -> 0 .. p.DelayedRefreshThreshold - 1]
  /\ refreshHandled \in BOOLEAN
EventsOK ==
  /\ cycles \in 0 .. 2 /\ cyclesNext \in 0 .. 2
  /\ issued = NoQueue => cyclesNext < 2
  /\ {early, wake, wakeLater, burst} \subseteq BOOLEAN
DrainsOK == {m_draining, force_drain} \subseteq BOOLEAN
BuffersFit(dev) == \A b \in Bank : Len(dev.buffers[b]) <= p.rowBuffers
TypesOK ==
  /\ p \in Configurations
  /\ TransactionsOK /\ QueuesOK /\ view \in ViewType /\ RefreshOK /\ EventsOK
  /\ device \in DeviceType /\ BuffersFit(device) /\ DrainsOK

\* A transaction waits once.
WaitsOnce(queues) ==
  /\ \A n \in QueueNumber : \A i, j \in DOMAIN queues[n] : queues[n][i] = queues[n][j] => i = j
  /\ \A n, m \in QueueNumber : n # m => ToSet(queues[n]) \cap ToSet(queues[m]) = {}

\* Nothing is older than what has arrived in this cycle.
YoungestLast ==
  /\ \A n \in QueueNumber : \A i, j \in DOMAIN transactionQueues[n] :
       i < j /\ transactionQueues[n][i] \in arrivedNow => transactionQueues[n][j] \in arrivedNow
  /\ Scheduler("FCFS") => arrivedNow = {}
OrderInv == WaitsOnce(transactionQueues) /\ YoungestLast

\* A refresh is in the queue of its group's head, and there is only one.
HasRefresh(queue) == \E i \in DOMAIN queue : queue[i].type = "REFRESH"
OneRefresh(q, queue) ==
  \A i \in DOMAIN queue :
    queue[i].type = "REFRESH" =>
      /\ q = QueueOf(queue[i].bank, FirstSubArray)
      /\ GroupHead(queue[i].bank) = queue[i].bank
      /\ \A j \in DOMAIN queue : queue[j].type = "REFRESH" => i = j
FlagsMatch(flags, left) == \A b \in Bank : flags[b] <=> HasRefresh(left[QueueOf(GroupHead(b), FirstSubArray)])
RefreshesMatch(flags, left) == (\A q \in Queue : OneRefresh(q, left[q])) /\ FlagsMatch(flags, left)

\* What is left of the queues once one of them has issued.
Left(queues, at) == [q \in Queue |-> IF at = q THEN Tail(queues[q]) ELSE queues[q]]
RefreshInv == RefreshesMatch(refreshQueued, Left(commandQueues, issued))

\* Without a command wake-up nothing but an access to a row buffer is left in the
\* queues; and no transaction waits for nothing.
OnlyFromRDB(dev, queue) == queue = <<>> \/ (Len(queue) = 1 /\ ServedByRDB(dev, Head(queue)))
Asleep == ~ p.PerSubArrayQueues /\ ~ wake /\ ~ wakeLater
CyclesLeft == cycles > 0 \/ cyclesNext > 0
WakesMatch(dev, left, asleep, waiting, cyclesLeft) ==
  /\ asleep => \A q \in Queue : OnlyFromRDB(dev, left[q])
  /\ \A t \in waiting : left[QueueFor(t)] = <<>> => cyclesLeft
WakesInv == WakesMatch(device, Left(commandQueues, issued), Asleep, Waiting, CyclesLeft)

IInv == TypesOK /\ OrderInv /\ RefreshInv /\ WakesInv

-----------------------------------------------------------------------------
(* Sequences.                                                              *)

LEMMA RemovedAt ==
  ASSUME NEW S, NEW s \in Seq(S), NEW i \in 1 .. Len(s)
  PROVE  /\ RemoveAt(s, i) \in Seq(S)
         /\ Len(RemoveAt(s, i)) = Len(s) - 1
         /\ \A k \in 1 .. Len(s) - 1 :
              RemoveAt(s, i)[k] = IF k < i THEN s[k] ELSE s[k + 1]
<1> DEFINE a == SubSeq(s, 1, i - 1)
           b == SubSeq(s, i + 1, Len(s))
<1>1. \A k \in 1 .. Len(s) : s[k] \in S
  BY ElementOfSeq
<1>2. a \in Seq(S) /\ Len(a) = i - 1 /\ \A k \in 1 .. i - 1 : a[k] = s[k]
  BY <1>1, SubSeqProperties
<1>3. b \in Seq(S) /\ Len(b) = Len(s) - i /\ \A k \in 1 .. Len(s) - i : b[k] = s[i + k]
  BY <1>1, SubSeqProperties
<1> HIDE DEF a, b
<1>4. /\ a \o b \in Seq(S) /\ Len(a \o b) = Len(s) - 1
      /\ \A k \in 1 .. Len(s) - 1 : (a \o b)[k] = IF k <= i - 1 THEN a[k] ELSE b[k - (i - 1)]
  <2>1. \A k \in 1 .. Len(a) + Len(b) : (a \o b)[k] = IF k <= Len(a) THEN a[k] ELSE b[k - Len(a)]
    BY <1>2, <1>3, ConcatProperties
  <2>2. Len(a) + Len(b) = Len(s) - 1
    BY <1>2, <1>3
  <2>3. a \o b \in Seq(S) /\ Len(a \o b) = Len(s) - 1
    BY <1>2, <1>3, <2>2, ConcatProperties
  <2>4. QED
    BY <1>2, <2>1, <2>2, <2>3
<1>5. \A k \in 1 .. Len(s) - 1 : k >= i => b[k - (i - 1)] = s[k + 1]
  BY <1>3
<1>6. RemoveAt(s, i) = a \o b
  BY DEF RemoveAt, a, b
<1>7. QED
  BY <1>2, <1>4, <1>5, <1>6
-----------------------------------------------------------------------------

LEMMA ShortSequences ==
  ASSUME NEW S, NEW x \in S, NEW y \in S
  PROVE  /\ <<x>> \in Seq(S) /\ <<>> \o <<x>> = <<x>> /\ <<x>> \o <<>> = <<x>>
         /\ <<x>> \o <<y>> = <<x, y>>
<1>1. <<x>> \in Seq(S)
  OBVIOUS
<1>2. Append(<<x>>, y) = <<x, y>>
  <2> DEFINE a == Append(<<x>>, y)
             b == <<x, y>>
  <2>1. b \in Seq(S) /\ Len(b) = 2 /\ b[1] = x /\ b[2] = y
    OBVIOUS
  <2>2. Len(<<x>>) = 1 /\ <<x>>[1] = x
    OBVIOUS
  <2>3. a \in Seq(S) /\ Len(a) = 2 /\ a[1] = x /\ a[2] = y
    BY <1>1, <2>2, AppendProperties
  <2> HIDE DEF a, b
  <2>4. Len(a) = Len(b) /\ \A i \in 1 .. Len(a) : a[i] = b[i]
    BY <2>1, <2>3
  <2>5. a = b
    BY <2>1, <2>3, <2>4, SeqEqual
  <2>6. QED
    BY <2>5 DEF a, b
<1>3. Append(<<x>>, y) = <<x>> \o <<y>>
  BY <1>1, AppendIsConcat
<1>4. QED
  BY <1>1, <1>2, <1>3, ConcatEmptySeq

\* A queue without one of its transactions.
LEMMA Removed ==
  ASSUME NEW queue \in Seq(Transaction), NEW t \in ToSet(queue),
         \A i, j \in DOMAIN queue : queue[i] = queue[j] => i = j
  PROVE  /\ Without(queue, t) \in Seq(Transaction)
         /\ ToSet(Without(queue, t)) = ToSet(queue) \ {t}
         /\ \A k, l \in DOMAIN Without(queue, t) :
              \E i, j \in DOMAIN queue : /\ Without(queue, t)[k] = queue[i]
                                         /\ Without(queue, t)[l] = queue[j]
                                         /\ k < l <=> i < j
<1> DEFINE at == CHOOSE i \in DOMAIN queue : queue[i] = t
           after == Without(queue, t)
<1>1. at \in DOMAIN queue /\ queue[at] = t
  BY DEF ToSet
<1>2. after = RemoveAt(queue, at)
  BY DEF Without
<1> HIDE DEF at, after
<1>3. /\ after \in Seq(Transaction) /\ Len(after) = Len(queue) - 1
      /\ \A k \in 1 .. Len(queue) - 1 : after[k] = IF k < at THEN queue[k] ELSE queue[k + 1]
  <2>1. at \in 1 .. Len(queue)
    BY <1>1, LenProperties
  <2>2. QED
    BY <1>2, <2>1, RemovedAt
<1>4. DOMAIN after = 1 .. Len(queue) - 1 /\ DOMAIN queue = 1 .. Len(queue) /\ Len(queue) \in Nat
  BY <1>3, LenProperties
<1>5. ToSet(after) \subseteq ToSet(queue) \ {t}
  <2> SUFFICES ASSUME NEW k \in DOMAIN after
               PROVE  after[k] \in ToSet(queue) \ {t}
    BY DEF ToSet
  <2>1. PICK i \in DOMAIN queue : after[k] = queue[i] /\ i # at
    BY <1>1, <1>3, <1>4
  <2>2. QED
    BY <1>1, <2>1 DEF ToSet
<1>6. ToSet(queue) \ {t} \subseteq ToSet(after)
  <2> SUFFICES ASSUME NEW i \in DOMAIN queue, queue[i] # t
               PROVE  queue[i] \in ToSet(after)
    BY DEF ToSet
  <2>1. i # at
    BY <1>1
  <2>2. CASE i < at
    <3>1. i \in 1 .. Len(queue) - 1 /\ after[i] = queue[i]
      BY <1>1, <1>3, <1>4, <2>2
    <3>2. QED
      BY <1>4, <3>1 DEF ToSet
  <2>3. CASE i > at
    <3>1. i - 1 \in 1 .. Len(queue) - 1 /\ after[i - 1] = queue[i]
      BY <1>1, <1>3, <1>4, <2>3
    <3>2. QED
      BY <1>4, <3>1 DEF ToSet
  <2>4. QED
    BY <1>1, <1>4, <2>1, <2>2, <2>3
<1>7. ASSUME NEW k \in DOMAIN after, NEW l \in DOMAIN after
      PROVE  \E i, j \in DOMAIN queue : after[k] = queue[i] /\ after[l] = queue[j] /\ (k < l <=> i < j)
  <2> DEFINE from(m) == IF m < at THEN m ELSE m + 1
  <2>1. from(k) \in DOMAIN queue /\ from(l) \in DOMAIN queue /\ (k < l <=> from(k) < from(l))
    BY <1>1, <1>4
  <2>2. after[k] = queue[from(k)] /\ after[l] = queue[from(l)]
    BY <1>3, <1>4
  <2>3. QED
    BY <2>1, <2>2
<1>8. QED
  BY <1>3, <1>5, <1>6, <1>7 DEF after

\* The row buffers of a bank after a read from one of them.
LEMMA BuffersAreKept ==
  ASSUME NEW buffers \in Seq(Row), NEW row \in ToSet(buffers)
  PROVE  /\ MovedToFront(buffers, row) \in Seq(Row)
         /\ Len(MovedToFront(buffers, row)) = Len(buffers)
         /\ ToSet(MovedToFront(buffers, row)) = ToSet(buffers)
<1> DEFINE at == CHOOSE i \in DOMAIN buffers : buffers[i] = row
           after == MovedToFront(buffers, row)
<1>1. at \in DOMAIN buffers /\ buffers[at] = row
  BY DEF ToSet
<1>2. DOMAIN buffers = 1 .. Len(buffers) /\ Len(buffers) \in Nat
  BY LenProperties
<1>3. after = [i \in DOMAIN buffers |->
                 IF i = 1 THEN row ELSE buffers[IF i <= at THEN i - 1 ELSE i]]
  BY DEF MovedToFront
<1> HIDE DEF at, after
<1>4. \A i \in DOMAIN buffers : \E j \in DOMAIN buffers : after[i] = buffers[j]
  BY <1>1, <1>2, <1>3
<1>5. \A j \in DOMAIN buffers : \E i \in DOMAIN buffers : after[i] = buffers[j]
  <2> SUFFICES ASSUME NEW j \in DOMAIN buffers
               PROVE  \E i \in DOMAIN buffers : after[i] = buffers[j]
    OBVIOUS
  <2>1. CASE j = at
    <3>1. 1 \in DOMAIN buffers /\ after[1] = buffers[j]
      BY <1>1, <1>2, <1>3, <2>1
    <3>2. QED
      BY <3>1
  <2>2. CASE j < at
    <3>1. j + 1 \in DOMAIN buffers /\ after[j + 1] = buffers[j]
      BY <1>1, <1>2, <1>3, <2>2
    <3>2. QED
      BY <3>1
  <2>3. CASE j > at
    <3>1. after[j] = buffers[j]
      BY <1>1, <1>2, <1>3, <2>3
    <3>2. QED
      BY <3>1
  <2>4. QED
    BY <1>1, <1>2, <2>1, <2>2, <2>3
<1>6. DOMAIN after = 1 .. Len(buffers) /\ \A i \in 1 .. Len(buffers) : after[i] \in Row
  <2>1. \A j \in DOMAIN buffers : buffers[j] \in Row
    BY ElementOfSeq, <1>2
  <2>2. QED
    BY <1>2, <1>3, <1>4, <2>1
<1>7. after \in Seq(Row)
  <2>1. after \in [1 .. Len(buffers) -> Row]
    BY <1>2, <1>3, <1>6
  <2>2. QED
    BY <1>2, <2>1
<1>8. ToSet(after) = ToSet(buffers)
  <2>1. /\ \A x : x \in ToSet(after) <=> \E i \in DOMAIN buffers : x = after[i]
        /\ \A x : x \in ToSet(buffers) <=> \E i \in DOMAIN buffers : x = buffers[i]
    BY <1>2, <1>6 DEF ToSet
  <2>2. QED
    BY <1>4, <1>5, <2>1
<1>9. Len(after) = Len(buffers)
  BY <1>2, <1>6, <1>7, LenProperties
<1>10. QED
  BY <1>7, <1>8, <1>9 DEF after
-----------------------------------------------------------------------------
(* What a configuration and the commands of a transaction are.             *)

LEMMA Configured ==
  ASSUME p \in Configurations
  PROVE  /\ {p.UsePrecharge, p.PerSubArrayQueues, p.readOnlyBuffers} \subseteq BOOLEAN
         /\ p.DelayedRefreshThreshold \in Nat \ {0} /\ p.rowBuffers \in Nat
         /\ \A t \in Transaction : /\ BankOf(t) \in Bank /\ SubArrayOf(t) \in SubArray
                                   /\ RowOf(t) \in Row /\ PlaceFor(t) \in Place
                                   /\ QueueFor(t) \in Queue /\ QueueFor(t)[1] = BankOf(t)
         /\ \A b \in Bank : QueueOf(b, FirstSubArray) \in Queue /\ QueueOf(b, FirstSubArray)[1] = b
         /\ Queue \subseteq Place /\ NoQueue \notin Queue
<1>1. p \in [scheduler : {"FCFS", "FRFCFS", "FRFCFS_WQF"}, UsePrecharge : BOOLEAN,
             PerSubArrayQueues : BOOLEAN, ClosePage : 0 .. 2,
             UseRefresh : BOOLEAN, DelayedRefreshThreshold : Nat \ {0},
             HighWaterMark : Nat, LowWaterMark : Nat, drains : BOOLEAN,
             rowBuffers : Nat, readOnlyBuffers : BOOLEAN,
             address : [Transaction -> [type : {"READ", "WRITE"}, bank : Bank, sub : SubArray, row : Row]]]
  BY MemoryControllerAssumption
<1>2. /\ {p.UsePrecharge, p.PerSubArrayQueues, p.readOnlyBuffers} \subseteq BOOLEAN
      /\ p.DelayedRefreshThreshold \in Nat \ {0} /\ p.rowBuffers \in Nat
  BY <1>1
<1>3. \A t \in Transaction : p.address[t] \in [type : {"READ", "WRITE"}, bank : Bank, sub : SubArray, row : Row]
  BY <1>1
<1>4. \A t \in Transaction : BankOf(t) \in Bank /\ SubArrayOf(t) \in SubArray /\ RowOf(t) \in Row
  BY <1>3 DEF BankOf, SubArrayOf, RowOf
<1>5. FirstSubArray \in SubArray
  BY BankRowsAssumption
<1>6. \A b \in Bank, s \in SubArray : QueueOf(b, s) \in Queue /\ QueueOf(b, s)[1] = b
  BY <1>5 DEF Queue, QueueOf, Place
<1>7. Queue \subseteq Place /\ NoQueue \notin Queue
  BY <1>5, MemoryControllerAssumption DEF Queue, Place
<1>8. QED
  BY <1>2, <1>4, <1>5, <1>6, <1>7 DEF PlaceFor, QueueFor, Place

LEMMA CommandsAreTyped ==
  ASSUME TypesOK, NEW t \in Transaction
  PROVE  /\ MemoryCommands(t) \in Seq(CommandType) /\ Len(MemoryCommands(t)) > 0
         /\ \A i \in DOMAIN MemoryCommands(t) : MemoryCommands(t)[i].type # "REFRESH"
         /\ FromRDB(t) => /\ Len(MemoryCommands(t)) = 1
                          /\ Head(MemoryCommands(t)) = CommandFor("READ", t)
<1>1. BankOf(t) \in Bank /\ SubArrayOf(t) \in SubArray /\ RowOf(t) \in Row /\ PlaceFor(t) \in Place
  BY Configured DEF TypesOK
<1>2. view.effectiveRow[PlaceFor(t)] \in Row \cup {NoRow}
  BY <1>1 DEF TypesOK, ViewType
<1>3. \A type \in ColumnAccesses : CommandFor(type, t) \in CommandType /\ CommandFor(type, t).type = type
  BY <1>1 DEF CommandFor, Command, CommandType, CommandKind, ColumnAccesses
<1>4. Activation(t) \in CommandType /\ Activation(t).type = "ACTIVATE"
  BY <1>1 DEF Activation, Command, CommandType, CommandKind, ColumnAccesses
<1>5. PrechargeFor(t) \in CommandType /\ PrechargeFor(t).type = "PRECHARGE"
  BY <1>1, <1>2 DEF PrechargeFor, Command, CommandType, CommandKind, ColumnAccesses
<1>6. Access(t) \in CommandType /\ Access(t).type \in ColumnAccesses
  BY <1>3 DEF Access, ColumnAccesses
<1> HIDE DEF Activation, PrechargeFor, Access, CommandFor
<1>7. CASE FromRDB(t)
  <2>1. MemoryCommands(t) = <<CommandFor("READ", t)>>
    BY <1>7 DEF MemoryCommands
  <2>2. QED
    BY <2>1, <1>3 DEF ColumnAccesses
<1>8. CASE ~ FromRDB(t) /\ RowHit(t)
  <2>1. MemoryCommands(t) = <<Access(t)>>
    BY <1>8 DEF MemoryCommands
  <2>2. QED
    BY <1>8, <2>1, <1>6 DEF ColumnAccesses
<1>9. CASE ~ FromRDB(t) /\ ~ RowHit(t)
  <2>1. MemoryCommands(t) \in {<<PrechargeFor(t)>> \o <<Activation(t), Access(t)>>,
                              <<>> \o <<Activation(t), Access(t)>>}
    BY <1>9 DEF MemoryCommands
  <2>2. MemoryCommands(t) \in {<<PrechargeFor(t), Activation(t), Access(t)>>, <<Activation(t), Access(t)>>}
    BY <2>1
  <2>3. \A a, b, c \in CommandType :
          /\ <<a, b, c>> \in Seq(CommandType) /\ Len(<<a, b, c>>) = 3
          /\ <<b, c>> \in Seq(CommandType) /\ Len(<<b, c>>) = 2
    OBVIOUS
  <2>4. CASE MemoryCommands(t) = <<PrechargeFor(t), Activation(t), Access(t)>>
    BY <1>9, <2>3, <2>4, <1>4, <1>5, <1>6 DEF ColumnAccesses
  <2>5. CASE MemoryCommands(t) = <<Activation(t), Access(t)>>
    BY <1>9, <2>3, <2>5, <1>4, <1>6 DEF ColumnAccesses
  <2>6. QED
    BY <2>2, <2>4, <2>5
<1>10. QED
  BY <1>7, <1>8, <1>9

LEMMA ViewsAreTyped ==
  ASSUME TypesOK, NEW t \in Transaction
  PROVE  ViewAfter(t) \in ViewType
<1>1. BankOf(t) \in Bank /\ RowOf(t) \in Row /\ PlaceFor(t) \in Place
  BY Configured DEF TypesOK
<1>2. \A n \in 0 .. StarvationThreshold : Bypassed(n) \in 0 .. StarvationThreshold
  BY MemoryControllerAssumption DEF Bypassed
<1> DEFINE counted == [view EXCEPT !.starvationCounter[PlaceFor(t)] =
                         IF RowHit(t) THEN Bypassed(@) ELSE 0]
<1>3. 0 \in 0 .. StarvationThreshold
  BY MemoryControllerAssumption
<1>4. view \in ViewType
  BY DEF TypesOK
<1>5. counted \in ViewType
  <2> DEFINE old == view.starvationCounter
             new == [old EXCEPT ![PlaceFor(t)] = IF RowHit(t) THEN Bypassed(old[PlaceFor(t)]) ELSE 0]
  <2>1. counted = [view EXCEPT !.starvationCounter = new]
    BY <1>4 DEF ViewType
  <2>2. new \in [Place -> 0 .. StarvationThreshold]
    BY <1>1, <1>2, <1>3, <1>4 DEF ViewType
  <2> HIDE DEF new, counted
  <2>3. QED
    BY <1>4, <2>1, <2>2 DEF ViewType
<1> HIDE DEF counted
<1>6. OpenView(counted, t) \in ViewType
  BY <1>1, <1>5 DEF OpenView, ViewType
<1>7. ClosedView(counted, t) \in ViewType
  <2>1. \A v \in ViewType, x \in BOOLEAN :
          [v EXCEPT !.activateQueued[BankOf(t)] = x,
                    !.activeSubArray[PlaceFor(t)] = FALSE,
                    !.effectiveRow[PlaceFor(t)] = NoRow] \in ViewType
    BY <1>1 DEF ViewType
  <2>2. QED
    BY <1>5, <2>1 DEF ClosedView
<1>8. ViewAfter(t) \in {view, ClosedView(counted, t), OpenView(counted, t)}
  BY DEF ViewAfter, counted
<1>9. QED
  BY <1>4, <1>6, <1>7, <1>8

\* What the device does with a command: its types, and copies that a read from a
\* row buffer leaves in place.
LEMMA DevicesAreTyped ==
  ASSUME p \in Configurations, NEW dev \in DeviceType, NEW cmd \in CommandType
  PROVE  /\ DeviceAfter(dev, cmd) \in DeviceType
         /\ BuffersFit(dev) => BuffersFit(DeviceAfter(dev, cmd))
         /\ ServedByRDB(dev, cmd) =>
              \A c \in CommandType : ServedByRDB(DeviceAfter(dev, cmd), c) <=> ServedByRDB(dev, c)
<1>1. cmd.bank \in Bank /\ cmd.row \in Row \cup {NoRow} /\ (cmd.type = "ACTIVATE" => cmd.row \in Row)
  BY DEF CommandType
<1>2. dev.rows \in RowsType /\ dev.buffers \in [Bank -> Seq(Row)]
  BY DEF DeviceType
<1> DEFINE dev2 == DeviceAfter(dev, cmd)
           moved == MovedToFront(dev.buffers[cmd.bank], cmd.row)
<1>3. CASE ServedByRDB(dev, cmd)
  <2>1. /\ moved \in Seq(Row) /\ Len(moved) = Len(dev.buffers[cmd.bank])
        /\ ToSet(moved) = ToSet(dev.buffers[cmd.bank])
    BY <1>1, <1>2, <1>3, BuffersAreKept DEF ServedByRDB, InRDB
  <2>2. dev2 = [dev EXCEPT !.buffers = [dev.buffers EXCEPT ![cmd.bank] = moved]]
    BY <1>1, <1>2, <1>3 DEF DeviceAfter, DeviceType
  <2> HIDE DEF dev2, moved
  <2>3. dev2 \in DeviceType /\ dev2.buffers = [dev.buffers EXCEPT ![cmd.bank] = moved]
    BY <1>1, <1>2, <2>1, <2>2 DEF DeviceType
  <2>4. \A b \in Bank : ToSet(dev2.buffers[b]) = ToSet(dev.buffers[b])
    BY <1>1, <1>2, <2>1, <2>3
  <2>5. \A c \in CommandType : c.bank \in Bank
    BY DEF CommandType
  <2>6. \A c \in CommandType : ServedByRDB(dev2, c) <=> ServedByRDB(dev, c)
    BY <2>4, <2>5 DEF ServedByRDB, InRDB
  <2>7. BuffersFit(dev) => BuffersFit(dev2)
    BY <1>1, <1>2, <2>1, <2>3 DEF BuffersFit
  <2>8. QED
    BY <2>3, <2>6, <2>7 DEF dev2
<1>4. CASE ~ ServedByRDB(dev, cmd)
  <2>1. After(dev.rows, cmd) \in RowsType
    <3>1. \A at \in [state : {"CLOSED", "OPEN", "CLOSING", "REFRESHING"}, row : Row \cup {NoRow}] :
            Becomes(at, cmd) \in [state : {"CLOSED", "OPEN", "CLOSING", "REFRESHING"}, row : Row \cup {NoRow}]
      <4> SUFFICES ASSUME NEW at \in [state : {"CLOSED", "OPEN", "CLOSING", "REFRESHING"}, row : Row \cup {NoRow}]
                   PROVE  Becomes(at, cmd) \in [state : {"CLOSED", "OPEN", "CLOSING", "REFRESHING"},
                                                row : Row \cup {NoRow}]
        OBVIOUS
      <4>1. CASE cmd.type = "ACTIVATE"
        BY <1>1, <4>1 DEF Becomes
      <4>2. CASE cmd.type = "READ"
        BY <4>2 DEF Becomes
      <4>3. CASE cmd.type = "REFRESH"
        BY <4>3 DEF Becomes
      <4>4. CASE cmd.type \notin {"ACTIVATE", "READ", "REFRESH"}
        BY <4>4 DEF Becomes
      <4>5. QED
        BY <4>1, <4>2, <4>3, <4>4
    <3>2. QED
      BY <1>2, <3>1 DEF After, RowsType
  <2>2. p.rowBuffers \in Nat
    BY Configured
  <2>3. \A buffers \in Seq(Row), row \in Row :
          /\ Allocated(buffers, row) \in Seq(Row)
          /\ Len(buffers) <= p.rowBuffers => Len(Allocated(buffers, row)) <= p.rowBuffers
    <3> SUFFICES ASSUME NEW buffers \in Seq(Row), NEW row \in Row
                 PROVE  /\ Allocated(buffers, row) \in Seq(Row)
                        /\ Len(buffers) <= p.rowBuffers => Len(Allocated(buffers, row)) <= p.rowBuffers
      OBVIOUS
    <3>1. Append(buffers, row) \in Seq(Row) /\ Len(Append(buffers, row)) = Len(buffers) + 1
      BY AppendProperties
    <3>2. buffers # <<>> => /\ [buffers EXCEPT ![Len(buffers)] = row] \in Seq(Row)
                            /\ Len([buffers EXCEPT ![Len(buffers)] = row]) = Len(buffers)
      <4>1. buffers # <<>> => Len(buffers) \in 1 .. Len(buffers)
        BY EmptySeq, LenProperties
      <4>2. QED
        BY <4>1, ExceptSeq
    <3>3. Len(buffers) \in Nat
      BY LenProperties
    <3>4. QED
      BY <2>2, <3>1, <3>2, <3>3 DEF Allocated
  <2>4. /\ dev2.rows = After(dev.rows, cmd)
        /\ dev2.buffers = IF cmd.type = "ACTIVATE"
                          THEN [dev.buffers EXCEPT ![cmd.bank] = Allocated(@, cmd.row)]
                          ELSE dev.buffers
        /\ dev2 = [rows |-> dev2.rows, buffers |-> dev2.buffers]
    BY <1>4 DEF DeviceAfter
  <2>5. dev2.buffers \in [Bank -> Seq(Row)]
    BY <1>1, <1>2, <2>3, <2>4
  <2>6. BuffersFit(dev) => BuffersFit(dev2)
    BY <1>1, <1>2, <2>3, <2>4 DEF BuffersFit
  <2>7. QED
    BY <1>4, <2>1, <2>4, <2>5, <2>6 DEF DeviceType
<1>5. QED
  BY <1>3, <1>4

LEMMA SettledRows ==
  ASSUME NEW dev \in DeviceType, NEW at \in Place
  PROVE  /\ [dev EXCEPT !.rows[at] = Settled(@)] \in DeviceType
         /\ [dev EXCEPT !.rows[at] = Settled(@)].buffers = dev.buffers
<1> DEFINE R == [state : {"CLOSED", "OPEN", "CLOSING", "REFRESHING"}, row : Row \cup {NoRow}]
<1>1. \A k \in R : Settled(k) \in R
  BY DEF Settled
<1>2. dev.rows \in [Place -> R]
  BY DEF DeviceType, RowsType
<1> HIDE DEF R
<1>3. [dev.rows EXCEPT ![at] = Settled(@)] \in [Place -> R]
  BY <1>1, <1>2
<1>4. QED
  BY <1>3 DEF DeviceType, RowsType, R
-----------------------------------------------------------------------------
(* What the command queues do in a handler.                                *)

LEMMA CommandsRun ==
  ASSUME TypesOK, NEW queues \in CommandQueues, \A q \in Queue : issued = q => queues[q] # <<>>,
         NEW waiting, NEW rechecks \in BOOLEAN, CycleCommandQueues(queues, waiting, rechecks)
  PROVE  /\ issued' \in Queue \cup {NoQueue} /\ (issued' # NoQueue => queues[issued'] # <<>>)
         /\ device' \in DeviceType /\ BuffersFit(device')
         /\ refreshQueued' \in [Bank -> BOOLEAN] /\ burst' \in BOOLEAN
         /\ cyclesNext' \in 0 .. 2 /\ (issued' = NoQueue => cyclesNext' < 2)
<1>1. CASE NothingIssued(queues, waiting, rechecks)
  <2>1. UNCHANGED <<issued, device, refreshQueued, burst>>
    BY <1>1 DEF NothingIssued
  <2>2. cyclesNext' \in {cyclesNext, 1}
    BY <1>1 DEF NothingIssued, WakesNext, TypesOK, EventsOK
  <2>3. QED
    BY <2>1, <2>2 DEF TypesOK, QueuesOK, EventsOK, RefreshOK
<1>2. ASSUME issued = NoQueue, NEW q \in Queue, queues[q] # <<>>, IssueHead(q, queues, waiting, rechecks)
      PROVE  /\ issued' = q /\ device' \in DeviceType /\ BuffersFit(device')
             /\ refreshQueued' \in [Bank -> BOOLEAN] /\ burst' \in BOOLEAN
             /\ cyclesNext' \in 0 .. 2
  <2>1. Head(queues[q]) \in CommandType
    BY <1>2, HeadTailProperties DEF CommandQueues
  <2>2. issued' = q /\ device' = DeviceAfter(device, Head(queues[q]))
    BY <1>2 DEF IssueHead
  <2>3. device' \in DeviceType /\ BuffersFit(device')
    BY <2>1, <2>2, DevicesAreTyped DEF TypesOK
  <2>4. refreshQueued' \in [Bank -> BOOLEAN] /\ burst' \in BOOLEAN
    BY <1>2 DEF IssueHead, TypesOK, EventsOK, RefreshOK
  <2>5. cyclesNext' \in {cyclesNext, cyclesNext + 1, 1}
    BY <1>2 DEF IssueHead, WakesNext, TypesOK, EventsOK
  <2>6. cyclesNext \in 0 .. 1
    BY <1>2 DEF TypesOK, EventsOK
  <2>7. QED
    BY <2>2, <2>3, <2>4, <2>5, <2>6
<1>3. NoQueue \notin Queue
  BY Configured DEF TypesOK
<1>4. QED
  BY <1>1, <1>2, <1>3 DEF CycleCommandQueues
-----------------------------------------------------------------------------
(* The steps of all controllers.                                           *)

LEMMA SameParameters ==
  ASSUME p' = p
  PROVE  /\ Queue' = Queue /\ QueueNumber' = QueueNumber /\ CommandQueues' = CommandQueues
         /\ \A t : /\ QueueFor(t)' = QueueFor(t) /\ PlaceFor(t)' = PlaceFor(t)
                  /\ RowOf(t)' = RowOf(t) /\ BankOf(t)' = BankOf(t)
         /\ \A b, s : QueueOf(b, s)' = QueueOf(b, s)
         /\ \A dev, c : ServedByRDB(dev, c)' <=> ServedByRDB(dev, c)
         /\ \A name : Scheduler(name)' <=> Scheduler(name)
BY DEF Queue, QueueNumber, CommandQueues, QueueFor, PlaceFor, RowOf, BankOf, SubArrayOf, QueueOf,
       ServedByRDB, Cacheable, Scheduler

\* What a controller looks for in its queues.
Searches ==
  {{t \in Waiting : Eligible(t) /\ Starved(t)}, {t \in Waiting : Eligible(t) /\ RowHit(t)},
   {t \in Waiting : Schedulable(t) /\ Cached(t)}, {t \in Waiting : Eligible(t) /\ BankActive(t)},
   {t \in Waiting : Eligible(t) /\ ~ BankActive(t)}}
IsFound(n, t) == \E those \in Searches : t \in First(n, those)

Arrives(n, t) ==
  /\ Away(t) /\ Enqueue(n, t)
  /\ arrivedNow' = IF Scheduler("FCFS") THEN arrivedNow ELSE arrivedNow \cup {t}
Schedules(n, next) == (\A t \in next : IsFound(n, t)) /\ CycleWith(next)

LEMMA OneOfFive ==
  ASSUME NEW a, NEW b, NEW c, NEW d, NEW e, NEW t \in FirstIn(<<a, b, c, d, e>>)
  PROVE  t \in a \/ t \in b \/ t \in c \/ t \in d \/ t \in e
<1> DEFINE s == <<a, b, c, d, e>>
           IsFirst(i) == s[i] # {} /\ \A j \in 1 .. i - 1 : s[j] = {}
           first == CHOOSE i \in DOMAIN s : IsFirst(i)
<1>1. DOMAIN s = 1 .. 5 /\ s[1] = a /\ s[2] = b /\ s[3] = c /\ s[4] = d /\ s[5] = e
  OBVIOUS
<1> HIDE DEF s
<1>2. ~ \A i \in DOMAIN s : s[i] = {}
  BY DEF FirstIn, s
<1>3. IsFirst(1) \/ IsFirst(2) \/ IsFirst(3) \/ IsFirst(4) \/ IsFirst(5)
  BY <1>1, <1>2
<1>4. \E i \in DOMAIN s : IsFirst(i)
  BY <1>1, <1>3
<1>5. first \in DOMAIN s
  <2> HIDE DEF IsFirst
  <2>1. QED
    BY <1>4
<1>6. t \in s[first]
  BY <1>2 DEF FirstIn, s
<1>7. QED
  <2> HIDE DEF first
  <2>1. QED
    BY <1>1, <1>5, <1>6

LEMMA OneOfTwo ==
  ASSUME NEW a, NEW b, NEW t \in FirstIn(<<a, b>>)
  PROVE  t \in a \/ t \in b
<1> DEFINE s == <<a, b>>
           IsFirst(i) == s[i] # {} /\ \A j \in 1 .. i - 1 : s[j] = {}
           first == CHOOSE i \in DOMAIN s : IsFirst(i)
<1>1. DOMAIN s = 1 .. 2 /\ s[1] = a /\ s[2] = b
  OBVIOUS
<1> HIDE DEF s
<1>2. ~ \A i \in DOMAIN s : s[i] = {}
  BY DEF FirstIn, s
<1>3. IsFirst(1) \/ IsFirst(2)
  BY <1>1, <1>2
<1>4. \E i \in DOMAIN s : IsFirst(i)
  BY <1>1, <1>3
<1>5. first \in DOMAIN s
  <2> HIDE DEF IsFirst
  <2>1. QED
    BY <1>4
<1>6. t \in s[first]
  BY <1>2 DEF FirstIn, s
<1>7. QED
  <2> HIDE DEF first
  <2>1. QED
    BY <1>1, <1>5, <1>6

LEMMA ControllerSteps ==
  ASSUME TypesOK, [Next]_allVars
  PROVE  /\ \/ \E n \in QueueNumber, t \in Transaction : Arrives(n, t)
            \/ \E n \in QueueNumber, next \in SUBSET Waiting : Schedules(n, next)
            \/ CommandQueueCallback
            \/ \E j \in Bank : RefreshCallback(j)
            \/ \E at \in Place : RequestComplete(at)
            \/ \E due \in BOOLEAN : NextCycle(due)
            \/ UNCHANGED vars
         /\ DrainsOK'
<1>1. 0 \in QueueNumber /\ (Scheduler("FRFCFS_WQF") => 1 \in QueueNumber)
  BY DEF QueueNumber, Scheduler
<1>2. DrainsOK /\ (UNCHANGED drainVars => DrainsOK')
  BY DEF TypesOK, DrainsOK, drainVars
<1>3. \A n : \A t \in NextRequest(n) : IsFound(n, t)
  BY OneOfFive DEF NextRequest, IsFound, Searches, FindStarvedRequest, FindRowBufferHit,
       FindCachedAddress, FindOldestReadyRequest, FindClosedBankRequest
<1>4. \A t \in FirstIn(<<FindOldestReadyRequest(0), FindClosedBankRequest(0)>>) : IsFound(0, t)
  BY OneOfTwo DEF IsFound, Searches, FindOldestReadyRequest, FindClosedBankRequest
<1>5. \A n, t : IsFound(n, t) => t \in Waiting
  BY DEF IsFound, Searches, First
<1>6. ASSUME NEW t \in Transaction, IssueCommand(t)
      PROVE  (\E n \in QueueNumber : Arrives(n, t)) /\ DrainsOK'
  <2>1. CASE Scheduler("FCFS") /\ FCFS_IssueCommand(t) /\ UNCHANGED drainVars
    BY <1>1, <1>2, <1>6, <2>1 DEF IssueCommand, FCFS_IssueCommand, Arrives
  <2>2. CASE Scheduler("FRFCFS") /\ FRFCFS_IssueCommand(t) /\ UNCHANGED drainVars
    BY <1>1, <1>2, <1>6, <2>2 DEF IssueCommand, FRFCFS_IssueCommand, Arrives, Scheduler
  <2>3. CASE Scheduler("FRFCFS_WQF") /\ WQF_IssueCommand(t)
    BY <1>1, <1>2, <1>6, <2>3 DEF IssueCommand, WQF_IssueCommand, Arrives, Scheduler
  <2>4. QED
    BY <1>6, <2>1, <2>2, <2>3 DEF IssueCommand
<1>7. ASSUME Cycle
      PROVE  (\E n \in QueueNumber, next \in SUBSET Waiting : Schedules(n, next)) /\ DrainsOK'
  <2>1. CASE Scheduler("FCFS") /\ FCFS_Cycle /\ UNCHANGED drainVars
    BY <1>1, <1>2, <1>4, <1>5, <2>1 DEF FCFS_Cycle, Schedules
  <2>2. CASE Scheduler("FRFCFS") /\ FRFCFS_Cycle /\ UNCHANGED drainVars
    BY <1>1, <1>2, <1>3, <1>5, <2>2 DEF FRFCFS_Cycle, Schedules
  <2>3. CASE Scheduler("FRFCFS_WQF") /\ WQF_Cycle
    <3>1. \E n \in QueueNumber : CycleWith(NextRequest(n))
      BY <1>1, <2>3 DEF WQF_Cycle
    <3>2. Draining \in BOOLEAN
      <4>1. writeQueue \in Seq(Transaction)
        BY <1>1, <2>3 DEF TypesOK, TransactionsOK, writeQueue
      <4>2. p.HighWaterMark \in Nat /\ p.LowWaterMark \in Nat
        BY MemoryControllerAssumption DEF TypesOK
      <4>3. Len(writeQueue) \in Nat /\ LowWaterMark \in Nat /\ HighWaterMark \in Nat
        BY <4>1, <4>2, FRFCFS_WQFAssumption, LenProperties DEF LowWaterMark, HighWaterMark
      <4>4. (Len(writeQueue) > LowWaterMark) \in BOOLEAN /\ (Len(writeQueue) >= HighWaterMark) \in BOOLEAN
        BY <4>3
      <4>5. QED
        BY <4>4 DEF TypesOK, DrainsOK, Draining
    <3>3. DrainsOK'
      BY <1>2, <2>3, <3>2 DEF WQF_Cycle, DrainsOK
    <3>4. QED
      BY <1>3, <1>5, <3>1, <3>3 DEF Schedules
  <2>4. QED
    BY <1>7, <2>1, <2>2, <2>3 DEF Cycle
<1>8. ASSUME Drain
      PROVE  UNCHANGED vars /\ DrainsOK'
  BY <1>2, <1>8 DEF Drain, DrainsOK
<1>9. CASE UNCHANGED allVars
  BY <1>2, <1>9 DEF allVars
<1>10. QED
  BY <1>2, <1>6, <1>7, <1>8, <1>9 DEF Next, Wakes, Refreshes, Answers, TimePasses
-----------------------------------------------------------------------------
(* Types.                                                                  *)

LEMMA WaitingIsTyped ==
  ASSUME TypesOK
  PROVE  Waiting \subseteq Transaction /\ \A n \in QueueNumber : ToSet(transactionQueues[n]) \subseteq Waiting
<1>1. \A n \in QueueNumber : ToSet(transactionQueues[n]) \subseteq Transaction
  <2> SUFFICES ASSUME NEW n \in QueueNumber
               PROVE  ToSet(transactionQueues[n]) \subseteq Transaction
    OBVIOUS
  <2>1. transactionQueues[n] \in Seq(Transaction)
    BY DEF TypesOK, TransactionsOK
  <2>2. QED
    BY <2>1, LenProperties, ElementOfSeq DEF ToSet
<1>2. QED
  BY <1>1 DEF Waiting, In

LEMMA ArrivalKeepsTypes ==
  ASSUME TypesOK, NEW n \in QueueNumber, NEW t \in Transaction, Arrives(n, t), DrainsOK'
  PROVE  TypesOK'
<1>1. /\ transactionQueues' = [transactionQueues EXCEPT ![n] = Append(@, t)]
      /\ cycles' \in {cycles, 1}
      /\ arrivedNow' \in {arrivedNow, arrivedNow \cup {t}}
      /\ UNCHANGED <<p, commandQueues, issued, view, refreshVars, early, cyclesNext, wake, wakeLater,
                     device, burst>>
  BY DEF Arrives, Enqueue
<1>2. Queue' = Queue /\ QueueNumber' = QueueNumber /\ CommandQueues' = CommandQueues
  BY <1>1, SameParameters
<1>3. Append(transactionQueues[n], t) \in Seq(Transaction)
  BY AppendProperties DEF TypesOK, TransactionsOK
<1>4. TransactionsOK'
  BY <1>1, <1>2, <1>3 DEF TypesOK, TransactionsOK
<1>5. QueuesOK' /\ RefreshOK' /\ EventsOK'
  BY <1>1, <1>2 DEF TypesOK, QueuesOK, RefreshOK, EventsOK, refreshVars
<1>6. QED
  BY <1>1, <1>4, <1>5 DEF TypesOK, BuffersFit

LEMMA ScheduledIsTyped ==
  ASSUME TypesOK, NEW t \in Waiting
  PROVE  LET queues == [commandQueues EXCEPT ![QueueFor(t)] = @ \o MemoryCommands(t)]
         IN  /\ queues \in CommandQueues
             /\ \A q \in Queue : commandQueues[q] # <<>> => queues[q] # <<>>
             /\ \A q \in Queue \ {QueueFor(t)} : queues[q] = commandQueues[q]
             /\ queues[QueueFor(t)] = commandQueues[QueueFor(t)] \o MemoryCommands(t)
             /\ queues[QueueFor(t)] # <<>>
<1> DEFINE queues == [commandQueues EXCEPT ![QueueFor(t)] = @ \o MemoryCommands(t)]
           to == commandQueues[QueueFor(t)] \o MemoryCommands(t)
<1>1. t \in Transaction /\ QueueFor(t) \in Queue
  BY WaitingIsTyped, Configured DEF TypesOK
<1>2. commandQueues[QueueFor(t)] \in Seq(CommandType) /\ commandQueues \in CommandQueues
  BY <1>1 DEF TypesOK, QueuesOK, CommandQueues
<1>3. MemoryCommands(t) \in Seq(CommandType) /\ Len(MemoryCommands(t)) > 0
  BY <1>1, CommandsAreTyped
<1>4. to \in Seq(CommandType) /\ to # <<>>
  <2>1. to \in Seq(CommandType) /\ Len(to) = Len(commandQueues[QueueFor(t)]) + Len(MemoryCommands(t))
    BY <1>2, <1>3, ConcatProperties
  <2>2. QED
    BY <1>2, <1>3, <2>1, LenProperties
<1>5. queues = [commandQueues EXCEPT ![QueueFor(t)] = to]
  OBVIOUS
<1> HIDE DEF to
<1>6. QED
  BY <1>1, <1>2, <1>4, <1>5 DEF CommandQueues, to

LEMMA SchedulingKeepsTypes ==
  ASSUME TypesOK, NEW n \in QueueNumber, NEW next \in SUBSET Waiting, Schedules(n, next),
         WaitsOnce(transactionQueues), DrainsOK'
  PROVE  TypesOK'
<1> USE DEF TypesOK
<1>1. /\ cycles > 0 /\ cycles' = cycles - 1 /\ early' = FALSE
      /\ UNCHANGED <<p, arrivedNow, delayedRefreshCounter, refreshHandled, pulses, wake>>
  BY DEF Schedules, CycleWith
<1>2. Queue' = Queue /\ QueueNumber' = QueueNumber /\ CommandQueues' = CommandQueues
  BY <1>1, SameParameters
<1>3. /\ transactionQueues' \in [QueueNumber -> Seq(Transaction)]
      /\ commandQueues' \in CommandQueues /\ view' \in ViewType /\ wakeLater' \in BOOLEAN
      /\ issued' \in Queue \cup {NoQueue} /\ (issued' # NoQueue => commandQueues'[issued'] # <<>>)
      /\ device' \in DeviceType /\ BuffersFit(device')
      /\ refreshQueued' \in [Bank -> BOOLEAN] /\ burst' \in BOOLEAN
      /\ cyclesNext' \in 0 .. 2 /\ (issued' = NoQueue => cyclesNext' < 2)
  <2>1. CASE next = {}
    <3>1. /\ UNCHANGED <<transactionQueues, commandQueues, view, wakeLater>>
          /\ CycleCommandQueues(commandQueues, Waiting, TRUE)
      BY <2>1 DEF Schedules, CycleWith
    <3>2. commandQueues \in CommandQueues /\ \A q \in Queue : issued = q => commandQueues[q] # <<>>
      <4>1. NoQueue \notin Queue
        BY Configured
      <4>2. QED
        BY <4>1 DEF QueuesOK
    <3>3. QED
      BY <3>1, <3>2, CommandsRun DEF TransactionsOK, EventsOK
  <2>2. CASE next # {}
    <3> DEFINE queues(t) == [commandQueues EXCEPT ![QueueFor(t)] = @ \o MemoryCommands(t)]
    <3>1. PICK t \in next :
            /\ transactionQueues' = [m \in QueueNumber |-> Without(transactionQueues[m], t)]
            /\ commandQueues' = queues(t)
            /\ view' = ViewAfter(t)
            /\ wakeLater' = (wakeLater \/ (~ FromRDB(t) /\ NextIssuable(queues(t))))
            /\ CycleCommandQueues(queues(t), Waiting \ {t}, TRUE)
      BY <2>2 DEF Schedules, CycleWith
    <3>2. t \in Waiting /\ t \in Transaction
      BY WaitingIsTyped
    <3>3. transactionQueues' \in [QueueNumber -> Seq(Transaction)]
      <4>1. \A m \in QueueNumber : Without(transactionQueues[m], t) \in Seq(Transaction)
        <5> SUFFICES ASSUME NEW m \in QueueNumber
                     PROVE  Without(transactionQueues[m], t) \in Seq(Transaction)
          OBVIOUS
        <5>1. transactionQueues[m] \in Seq(Transaction)
          BY DEF TransactionsOK
        <5>2. CASE t \in ToSet(transactionQueues[m])
          BY <5>1, <5>2, Removed DEF WaitsOnce
        <5>3. CASE t \notin ToSet(transactionQueues[m])
          BY <5>1, <5>3 DEF Without
        <5>4. QED
          BY <5>2, <5>3
      <4>2. QED
        BY <3>1, <4>1
    <3>4. queues(t) \in CommandQueues /\ \A q \in Queue : commandQueues[q] # <<>> => queues(t)[q] # <<>>
      BY <3>2, ScheduledIsTyped
    <3>5. view' \in ViewType
      BY <3>1, <3>2, ViewsAreTyped
    <3>6. wakeLater' \in BOOLEAN
      BY <3>1 DEF EventsOK, NextIssuable
    <3> HIDE DEF queues
    <3>7. \A q \in Queue : issued = q => queues(t)[q] # <<>>
      <4>1. NoQueue \notin Queue
        BY Configured
      <4>2. QED
        BY <3>4, <4>1 DEF QueuesOK
    <3>8. QED
      BY <3>1, <3>3, <3>4, <3>5, <3>6, <3>7, CommandsRun
  <2>3. QED
    BY <2>1, <2>2
<1>4. TransactionsOK' /\ QueuesOK'
  BY <1>1, <1>2, <1>3 DEF TransactionsOK, QueuesOK
<1>5. RefreshOK'
  BY <1>1, <1>3 DEF RefreshOK
<1>6. EventsOK'
  <2>1. cycles' \in 0 .. 2
    BY <1>1 DEF EventsOK
  <2>2. QED
    BY <1>1, <1>3, <2>1 DEF EventsOK
<1>7. QED
  BY <1>1, <1>3, <1>4, <1>5, <1>6 DEF BuffersFit

LEMMA CallbackKeepsTypes ==
  ASSUME TypesOK, CommandQueueCallback, DrainsOK'
  PROVE  TypesOK'
<1> USE DEF TypesOK
<1>1. /\ wake' = FALSE /\ early' = FALSE /\ wakeLater' = (wakeLater \/ NextIssuable(commandQueues))
      /\ UNCHANGED <<p, transactionQueues, arrivedNow, commandQueues, view, delayedRefreshCounter,
                     refreshHandled, pulses, cycles>>
  BY DEF CommandQueueCallback
<1>2. Queue' = Queue /\ QueueNumber' = QueueNumber /\ CommandQueues' = CommandQueues
  BY <1>1, SameParameters
<1>3. /\ issued' \in Queue \cup {NoQueue} /\ (issued' # NoQueue => commandQueues[issued'] # <<>>)
      /\ device' \in DeviceType /\ BuffersFit(device')
      /\ refreshQueued' \in [Bank -> BOOLEAN] /\ burst' \in BOOLEAN
      /\ cyclesNext' \in 0 .. 2 /\ (issued' = NoQueue => cyclesNext' < 2)
  <2>1. NoQueue \notin Queue
    BY Configured
  <2>2. commandQueues \in CommandQueues /\ \A q \in Queue : issued = q => commandQueues[q] # <<>>
    BY <2>1 DEF QueuesOK
  <2>3. CycleCommandQueues(commandQueues, Waiting, FALSE)
    BY DEF CommandQueueCallback
  <2>4. QED
    BY <2>2, <2>3, CommandsRun
<1>4. TransactionsOK' /\ QueuesOK'
  BY <1>1, <1>2, <1>3 DEF TransactionsOK, QueuesOK
<1>5. RefreshOK' /\ EventsOK'
  BY <1>1, <1>3 DEF RefreshOK, EventsOK, NextIssuable
<1>6. QED
  BY <1>1, <1>3, <1>4, <1>5 DEF BuffersFit

\* What a refresh adds to a queue.
AllOf(q) == Command("PRECHARGE_ALL", q[1], FirstSubArray, NoRow, NoTransaction)
RefreshOf(j) == Command("REFRESH", j, FirstSubArray, NoRow, NoTransaction)
IsPrecharged(j, q) ==
  \E b \in Group(j) : UsePrecharge /\ view.activateQueued[b] /\ QueueOf(b, FirstSubArray) = q
RefreshFor(j, q) ==
  IF QueueOf(j, FirstSubArray) = q
  THEN IF IsPrecharged(j, q) THEN <<AllOf(q), RefreshOf(j)>> ELSE <<RefreshOf(j)>>
  ELSE IF IsPrecharged(j, q) THEN <<AllOf(q)>> ELSE <<>>

LEMMA RefreshIsTyped ==
  ASSUME TypesOK, NEW j \in Bank, WithRefresh(j)
  PROVE  /\ commandQueues' \in CommandQueues
         /\ \A q \in Queue :
              /\ RefreshFor(j, q) \in Seq(CommandType)
              /\ commandQueues'[q] = commandQueues[q] \o RefreshFor(j, q)
              /\ \A i \in DOMAIN RefreshFor(j, q) : RefreshFor(j, q)[i].bank = q[1]
              /\ q # QueueOf(j, FirstSubArray) =>
                   \A i \in DOMAIN RefreshFor(j, q) : RefreshFor(j, q)[i].type # "REFRESH"
              /\ q = QueueOf(j, FirstSubArray) =>
                   /\ Len(RefreshFor(j, q)) > 0
                   /\ \A i \in DOMAIN RefreshFor(j, q) :
                        RefreshFor(j, q)[i].type = "REFRESH" <=> i = Len(RefreshFor(j, q))
         /\ view' \in ViewType
         /\ refreshQueued' = [b \in Bank |-> refreshQueued[b] \/ b \in Group(j)]
<1> DEFINE precharged == {b \in Group(j) : UsePrecharge /\ view.activateQueued[b]}
           first(q) == IF \E b \in precharged : QueueOf(b, FirstSubArray) = q THEN <<AllOf(q)>> ELSE <<>>
           second(q) == IF QueueOf(j, FirstSubArray) = q THEN <<RefreshOf(j)>> ELSE <<>>
<1>1. FirstSubArray \in SubArray
  BY BankRowsAssumption
<1>2. RefreshOf(j) \in CommandType /\ RefreshOf(j).type = "REFRESH" /\ RefreshOf(j).bank = j
  BY <1>1 DEF RefreshOf, Command, CommandType, CommandKind, ColumnAccesses
<1>3. \A q \in Queue : /\ AllOf(q) \in CommandType /\ AllOf(q).type = "PRECHARGE_ALL"
                         /\ AllOf(q).bank = q[1]
  <2>1. \A q \in Queue : q[1] \in Bank
    BY Configured DEF TypesOK, Place
  <2>2. QED
    BY <1>1, <2>1 DEF AllOf, Command, CommandType, CommandKind, ColumnAccesses
<1>4. QueueOf(j, FirstSubArray)[1] = j
  BY Configured DEF TypesOK
<1>5. ASSUME NEW q \in Queue
      PROVE  /\ RefreshFor(j, q) \in Seq(CommandType)
             /\ \A i \in DOMAIN RefreshFor(j, q) : RefreshFor(j, q)[i].bank = q[1]
             /\ q # QueueOf(j, FirstSubArray) =>
                  \A i \in DOMAIN RefreshFor(j, q) : RefreshFor(j, q)[i].type # "REFRESH"
             /\ q = QueueOf(j, FirstSubArray) =>
                  /\ Len(RefreshFor(j, q)) > 0
                  /\ \A i \in DOMAIN RefreshFor(j, q) :
                       RefreshFor(j, q)[i].type = "REFRESH" <=> i = Len(RefreshFor(j, q))
  <2>1. CASE RefreshFor(j, q) = <<>> /\ q # QueueOf(j, FirstSubArray)
    BY <2>1
  <2>2. CASE RefreshFor(j, q) = <<AllOf(q)>> /\ q # QueueOf(j, FirstSubArray)
    BY <1>3, <2>2
  <2>3. CASE RefreshFor(j, q) = <<RefreshOf(j)>> /\ q = QueueOf(j, FirstSubArray)
    BY <1>2, <1>4, <2>3
  <2>4. CASE RefreshFor(j, q) = <<AllOf(q), RefreshOf(j)>> /\ q = QueueOf(j, FirstSubArray)
    BY <1>2, <1>3, <1>4, <2>4
  <2>5. QED
    BY <2>1, <2>2, <2>3, <2>4 DEF RefreshFor
<1>6. ASSUME NEW q \in Queue
      PROVE  commandQueues'[q] = commandQueues[q] \o RefreshFor(j, q)
  <2>1. commandQueues'[q] = commandQueues[q] \o first(q) \o second(q)
    BY DEF WithRefresh, AllOf, RefreshOf
  <2>2. first(q) = IF IsPrecharged(j, q) THEN <<AllOf(q)>> ELSE <<>>
    BY DEF IsPrecharged
  <2>3. second(q) = IF QueueOf(j, FirstSubArray) = q THEN <<RefreshOf(j)>> ELSE <<>>
    OBVIOUS
  <2> HIDE DEF first, second
  <2>5. \A x, y \in CommandType : /\ <<>> \o <<x>> = <<x>> /\ <<x>> \o <<>> = <<x>>
                                 /\ <<x>> \o <<y>> = <<x, y>>
                                 /\ <<x>> \in Seq(CommandType)
    BY ShortSequences
  <2>6. AllOf(q) \in CommandType /\ RefreshOf(j) \in CommandType
    BY <1>2, <1>3
  <2>7. commandQueues[q] \in Seq(CommandType)
    BY DEF TypesOK, QueuesOK, CommandQueues
  <2>8. first(q) \in Seq(CommandType) /\ second(q) \in Seq(CommandType)
    BY <2>2, <2>3, <2>5, <2>6
  <2>9. first(q) \o second(q) = RefreshFor(j, q)
    <3>1. <<>> \o <<>> = <<>>
      OBVIOUS
    <3>2. QED
      BY <2>2, <2>3, <2>5, <2>6, <3>1 DEF RefreshFor
  <2>10. commandQueues[q] \o first(q) \o second(q) = commandQueues[q] \o (first(q) \o second(q))
    <3>1. \A x, y, z \in Seq(CommandType) : x \o y \o z = x \o (y \o z)
      BY ConcatAssociative
    <3>2. QED
      BY <2>7, <2>8, <3>1, Zenon
  <2>11. QED
    BY <2>1, <2>9, <2>10
<1>7. commandQueues' \in CommandQueues
  <2>1. \A q \in Queue : commandQueues[q] \o RefreshFor(j, q) \in Seq(CommandType)
    BY <1>5, ConcatProperties DEF TypesOK, QueuesOK, CommandQueues
  <2>2. commandQueues' = [q \in Queue |-> commandQueues'[q]]
    BY DEF WithRefresh
  <2>3. QED
    BY <1>6, <2>1, <2>2 DEF CommandQueues
<1>8. view' \in ViewType
  <2>1. view' = [view EXCEPT
           !.activateQueued = [b \in Bank |-> view.activateQueued[b] /\ b \notin precharged],
           !.activeSubArray = [at \in Place |-> view.activeSubArray[at] /\ at[1] \notin precharged],
           !.effectiveRow = [at \in Place |-> IF at[1] \in precharged THEN NoRow ELSE view.effectiveRow[at]]]
    BY DEF WithRefresh
  <2> HIDE DEF precharged
  <2>2. view \in ViewType
    BY DEF TypesOK
  <2>3. QED
    BY <2>1, <2>2 DEF ViewType
<1>9. refreshQueued' = [b \in Bank |-> refreshQueued[b] \/ b \in Group(j)]
  BY DEF WithRefresh
<1>10. QED
  BY <1>5, <1>6, <1>7, <1>8, <1>9

LEMMA RefreshKeepsTypes ==
  ASSUME TypesOK, NEW j \in Bank, RefreshCallback(j), DrainsOK'
  PROVE  TypesOK'
<1> USE DEF TypesOK
<1>1. /\ early /\ pulses' = pulses + 1
      /\ UNCHANGED <<p, transactionQueues, arrivedNow, issued, early, cycles, cyclesNext, wake, device, burst>>
  BY DEF RefreshCallback
<1>2. Queue' = Queue /\ QueueNumber' = QueueNumber /\ CommandQueues' = CommandQueues
  BY <1>1, SameParameters
<1>3. issued = NoQueue
  BY <1>1 DEF QueuesOK
<1>4. /\ commandQueues' \in CommandQueues /\ view' \in ViewType /\ refreshQueued' \in [Bank -> BOOLEAN]
      /\ refreshHandled' \in BOOLEAN /\ wakeLater' \in BOOLEAN
      /\ delayedRefreshCounter' \in [Bank -> 0 .. p.DelayedRefreshThreshold - 1]
  <2>1. CASE NeedRefresh(delayedRefreshCounter[j] + 1)
    <3>1. WithRefresh(j) /\ refreshHandled' = TRUE /\ wakeLater' = TRUE /\ UNCHANGED delayedRefreshCounter
      BY <2>1 DEF RefreshCallback
    <3>2. QED
      BY <3>1, RefreshIsTyped DEF RefreshOK
  <2>2. CASE ~ NeedRefresh(delayedRefreshCounter[j] + 1)
    <3>1. /\ delayedRefreshCounter' = [delayedRefreshCounter EXCEPT ![j] = @ + 1]
          /\ UNCHANGED <<commandQueues, view, refreshQueued, refreshHandled, wakeLater>>
      BY <2>2 DEF RefreshCallback
    <3>2. p.DelayedRefreshThreshold \in Nat
      BY Configured
    <3>3. delayedRefreshCounter' \in [Bank -> 0 .. p.DelayedRefreshThreshold - 1]
      BY <2>2, <3>1, <3>2 DEF RefreshOK, NeedRefresh
    <3>4. QED
      BY <3>1, <3>3 DEF RefreshOK, EventsOK, QueuesOK
  <2>3. QED
    BY <2>1, <2>2
<1>5. TransactionsOK' /\ QueuesOK'
  <2>1. NoQueue \notin Queue
    BY Configured
  <2>2. QED
    BY <1>1, <1>2, <1>3, <1>4, <2>1 DEF TransactionsOK, QueuesOK
<1>6. RefreshOK'
  BY <1>1, <1>4 DEF RefreshOK
<1>7. EventsOK'
  BY <1>1, <1>4 DEF EventsOK
<1>8. QED
  BY <1>1, <1>4, <1>5, <1>6, <1>7 DEF BuffersFit

LEMMA ResponseKeepsTypes ==
  ASSUME TypesOK, NEW at \in Place, RequestComplete(at), DrainsOK'
  PROVE  TypesOK'
<1> USE DEF TypesOK
<1>1. /\ device' = [device EXCEPT !.rows[at] = Settled(@)]
      /\ UNCHANGED <<p, transactionQueues, arrivedNow, commandQueues, issued, view, refreshVars, early,
                     cycles, cyclesNext, wake, wakeLater, burst>>
  BY DEF RequestComplete
<1>2. Queue' = Queue /\ QueueNumber' = QueueNumber /\ CommandQueues' = CommandQueues
  BY <1>1, SameParameters
<1>3. device' \in DeviceType
  BY <1>1, SettledRows
<1>4. TransactionsOK' /\ QueuesOK'
  BY <1>1, <1>2 DEF TransactionsOK, QueuesOK
<1>5. RefreshOK' /\ EventsOK'
  BY <1>1 DEF RefreshOK, EventsOK, refreshVars
<1>6. QED
  BY <1>1, <1>3, <1>4, <1>5 DEF BuffersFit

LEMMA UnissuedIsTyped ==
  ASSUME TypesOK, NEW q \in Queue
  PROVE  Unissued(q) \in Seq(CommandType)
<1>1. NoQueue \notin Queue
  BY Configured DEF TypesOK
<1>2. commandQueues[q] \in Seq(CommandType)
  BY DEF TypesOK, QueuesOK, CommandQueues
<1>3. CASE issued = q
  BY <1>1, <1>2, <1>3, HeadTailProperties DEF TypesOK, QueuesOK, Unissued
<1>4. QED
  BY <1>2, <1>3 DEF Unissued

LEMMA NextCycleKeepsTypes ==
  ASSUME TypesOK, NEW due \in BOOLEAN, NextCycle(due), DrainsOK'
  PROVE  TypesOK'
<1> USE DEF TypesOK
<1>1. /\ commandQueues' = [q \in Queue |-> Unissued(q)] /\ issued' = NoQueue /\ arrivedNow' = {}
      /\ refreshHandled' = FALSE /\ early' = TRUE /\ cycles' = cyclesNext /\ cyclesNext' = 0
      /\ wake' = due /\ wakeLater' \in BOOLEAN
      /\ burst' = (burst /\ issued # NoQueue /\ commandQueues[issued][1].type \in ColumnAccesses)
      /\ UNCHANGED <<p, transactionQueues, view, delayedRefreshCounter, refreshQueued, pulses, device>>
  BY DEF NextCycle, EventsOK
<1>2. Queue' = Queue /\ QueueNumber' = QueueNumber /\ CommandQueues' = CommandQueues
  BY <1>1, SameParameters
<1>3. commandQueues' \in CommandQueues
  BY <1>1, UnissuedIsTyped DEF CommandQueues
<1>4. TransactionsOK' /\ QueuesOK'
  BY <1>1, <1>2, <1>3 DEF TransactionsOK, QueuesOK
<1>5. RefreshOK'
  BY <1>1 DEF RefreshOK
<1>6. EventsOK'
  <2>1. cyclesNext \in 0 .. 2 /\ burst' \in BOOLEAN
    BY <1>1 DEF EventsOK
  <2>2. QED
    BY <1>1, <2>1 DEF EventsOK
<1>7. QED
  BY <1>1, <1>3, <1>4, <1>5, <1>6 DEF BuffersFit
-----------------------------------------------------------------------------
(* The order of the transactions.                                          *)

LEMMA Appended ==
  ASSUME NEW queue \in Seq(Transaction), NEW t \in Transaction
  PROVE  /\ Append(queue, t) \in Seq(Transaction)
         /\ DOMAIN Append(queue, t) = 1 .. Len(queue) + 1 /\ DOMAIN queue = 1 .. Len(queue)
         /\ \A i \in 1 .. Len(queue) : Append(queue, t)[i] = queue[i]
         /\ Append(queue, t)[Len(queue) + 1] = t
         /\ ToSet(Append(queue, t)) = ToSet(queue) \cup {t}
<1> DEFINE after == Append(queue, t)
<1>1. /\ after \in Seq(Transaction) /\ Len(after) = Len(queue) + 1
      /\ \A i \in 1 .. Len(queue) : after[i] = queue[i]
      /\ after[Len(queue) + 1] = t
  BY AppendProperties
<1>2. DOMAIN after = 1 .. Len(queue) + 1 /\ DOMAIN queue = 1 .. Len(queue) /\ Len(queue) \in Nat
  BY <1>1, LenProperties
<1> HIDE DEF after
<1>3. \A x : x \in ToSet(after) <=> x \in ToSet(queue) \/ x = t
  <2>1. \A x : x \in ToSet(after) <=> \E i \in 1 .. Len(queue) + 1 : x = after[i]
    BY <1>2 DEF ToSet
  <2>2. \A x : x \in ToSet(queue) <=> \E i \in 1 .. Len(queue) : x = queue[i]
    BY <1>2 DEF ToSet
  <2>3. \A i : i \in 1 .. Len(queue) + 1 <=> i \in 1 .. Len(queue) \/ i = Len(queue) + 1
    BY <1>2
  <2>4. QED
    BY <1>1, <2>1, <2>2, <2>3
<1>4. QED
  BY <1>1, <1>2, <1>3 DEF after

LEMMA ArrivalKeepsOrder ==
  ASSUME TypesOK, OrderInv, NEW n \in QueueNumber, NEW t \in Transaction, Arrives(n, t)
  PROVE  /\ OrderInv'
         /\ Waiting' = Waiting \cup {t}
<1> DEFINE Q == transactionQueues
<1>1. /\ t \notin Waiting /\ Q' = [Q EXCEPT ![n] = Append(@, t)] /\ UNCHANGED p
      /\ arrivedNow' = IF Scheduler("FCFS") THEN arrivedNow ELSE arrivedNow \cup {t}
  BY DEF Arrives, Away, Enqueue
<1>2. QueueNumber' = QueueNumber /\ (Scheduler("FCFS")' <=> Scheduler("FCFS"))
  BY <1>1, SameParameters
<1>3. Q \in [QueueNumber -> Seq(Transaction)]
  BY DEF TypesOK, TransactionsOK
<1>4. \A m \in QueueNumber : t \notin ToSet(Q[m])
  BY <1>1, WaitingIsTyped
<1> HIDE DEF Q
<1>5. \A m \in QueueNumber \ {n} : Q'[m] = Q[m]
  BY <1>1, <1>3
<1>6. /\ DOMAIN Q'[n] = 1 .. Len(Q[n]) + 1 /\ DOMAIN Q[n] = 1 .. Len(Q[n]) /\ Len(Q[n]) \in Nat
      /\ \A i \in 1 .. Len(Q[n]) : Q'[n][i] = Q[n][i]
      /\ Q'[n][Len(Q[n]) + 1] = t
      /\ ToSet(Q'[n]) = ToSet(Q[n]) \cup {t}
  <2>1. Q[n] \in Seq(Transaction) /\ Q'[n] = Append(Q[n], t)
    BY <1>1, <1>3
  <2>2. QED
    BY <2>1, Appended, LenProperties
<1>7. \A i \in 1 .. Len(Q[n]) : Q[n][i] \in ToSet(Q[n]) /\ Q[n][i] # t
  BY <1>4, <1>6 DEF ToSet
<1>8. WaitsOnce(Q')
  <2>1. WaitsOnce(Q)
    BY DEF OrderInv, Q
  <2>2. ASSUME NEW m \in QueueNumber, NEW i \in DOMAIN Q'[m], NEW k \in DOMAIN Q'[m], Q'[m][i] = Q'[m][k]
        PROVE  i = k
    <3>1. CASE m # n
      BY <1>5, <2>1, <2>2, <3>1 DEF WaitsOnce
    <3>2. CASE m = n
      <4>1. /\ i \in 1 .. Len(Q[n]) \/ i = Len(Q[n]) + 1
            /\ k \in 1 .. Len(Q[n]) \/ k = Len(Q[n]) + 1
        BY <1>6, <3>2
      <4>2. CASE i \in 1 .. Len(Q[n]) /\ k \in 1 .. Len(Q[n])
        BY <1>6, <2>1, <2>2, <3>2, <4>2 DEF WaitsOnce
      <4>3. CASE i = Len(Q[n]) + 1 \/ k = Len(Q[n]) + 1
        BY <1>6, <1>7, <2>2, <3>2, <4>1, <4>3
      <4>4. QED
        BY <4>1, <4>2, <4>3
    <3>3. QED
      BY <3>1, <3>2
  <2>3. ASSUME NEW m \in QueueNumber, NEW k \in QueueNumber, m # k
        PROVE  ToSet(Q'[m]) \cap ToSet(Q'[k]) = {}
    BY <1>4, <1>5, <1>6, <2>1, <2>3 DEF WaitsOnce
  <2>4. QED
    BY <2>2, <2>3, <1>2 DEF WaitsOnce
<1>9. YoungestLast'
  <2>1. YoungestLast
    BY DEF OrderInv
  <2>2. CASE Scheduler("FCFS")
    BY <1>1, <1>2, <2>1, <2>2 DEF YoungestLast
  <2>3. CASE ~ Scheduler("FCFS")
    <3>1. arrivedNow' = arrivedNow \cup {t}
      BY <1>1, <2>3
    <3>2. ASSUME NEW m \in QueueNumber, NEW i \in DOMAIN Q'[m], NEW k \in DOMAIN Q'[m],
                 i < k, Q'[m][i] \in arrivedNow'
          PROVE  Q'[m][k] \in arrivedNow'
      <4>1. CASE m # n
        <5>1. Q'[m][i] \in ToSet(Q[m])
          BY <1>5, <4>1 DEF ToSet
        <5>2. Q'[m][i] \in arrivedNow
          BY <1>4, <3>1, <3>2, <5>1
        <5>3. QED
          BY <1>5, <2>1, <3>1, <3>2, <4>1, <5>2 DEF YoungestLast, Q
      <4>2. CASE m = n /\ k = Len(Q[n]) + 1
        BY <1>6, <3>1, <4>2
      <4>3. CASE m = n /\ k # Len(Q[n]) + 1
        <5>1. i \in 1 .. Len(Q[n]) /\ k \in 1 .. Len(Q[n])
          BY <1>6, <3>2, <4>3
        <5>2. Q[n][i] \in arrivedNow /\ Q'[n][k] = Q[n][k]
          BY <1>6, <1>7, <3>1, <3>2, <4>3, <5>1
        <5>3. QED
          BY <1>6, <2>1, <3>1, <3>2, <4>3, <5>1, <5>2 DEF YoungestLast, Q
      <4>4. QED
        BY <4>1, <4>2, <4>3
    <3>3. QED
      BY <1>2, <2>3, <3>2 DEF YoungestLast, Q
  <2>4. QED
    BY <2>2, <2>3
<1>10. Waiting' = Waiting \cup {t}
  <2>1. /\ \A x : x \in Waiting <=> \E m \in QueueNumber : x \in ToSet(Q[m])
        /\ \A x : x \in Waiting' <=> \E m \in QueueNumber : x \in ToSet(Q'[m])
    BY <1>2 DEF Waiting, In, Q
  <2>2. QED
    BY <1>5, <1>6, <2>1
<1>11. QED
  BY <1>8, <1>9, <1>10, <1>2 DEF OrderInv, WaitsOnce, Q

\* What a scheduled transaction leaves behind.
LEMMA RemovalKeepsOrder ==
  ASSUME TypesOK, OrderInv, NEW t \in Waiting, UNCHANGED <<p, arrivedNow>>,
         transactionQueues' = [m \in QueueNumber |-> Without(transactionQueues[m], t)]
  PROVE  OrderInv' /\ Waiting' = Waiting \ {t}
<1> DEFINE Q == transactionQueues
<1>1. QueueNumber' = QueueNumber /\ (Scheduler("FCFS")' <=> Scheduler("FCFS"))
  BY SameParameters
<1>2. Q \in [QueueNumber -> Seq(Transaction)] /\ WaitsOnce(Q) /\ YoungestLast
  BY DEF TypesOK, TransactionsOK, OrderInv
<1>3. ASSUME NEW m \in QueueNumber
      PROVE  /\ \A x : x \in ToSet(Q'[m]) <=> x \in ToSet(Q[m]) /\ x # t
             /\ \A k, l \in DOMAIN Q'[m] :
                  \E i, j \in DOMAIN Q[m] : /\ Q'[m][k] = Q[m][i] /\ Q'[m][l] = Q[m][j]
                                            /\ k < l <=> i < j
             /\ DOMAIN Q'[m] \subseteq Nat /\ DOMAIN Q[m] \subseteq Nat
  <2>1. Q'[m] = Without(Q[m], t) /\ Q[m] \in Seq(Transaction)
    BY <1>2
  <2>2. CASE t \in ToSet(Q[m])
    <3>1. Q'[m] \in Seq(Transaction)
      BY <1>2, <2>1, <2>2, Removed DEF WaitsOnce
    <3>2. DOMAIN Q'[m] \subseteq Nat /\ DOMAIN Q[m] \subseteq Nat
      BY <2>1, <3>1, LenProperties
    <3>3. QED
      BY <1>2, <2>1, <2>2, <3>2, Removed DEF WaitsOnce
  <2>3. CASE t \notin ToSet(Q[m])
    <3>1. Q'[m] = Q[m] /\ DOMAIN Q[m] \subseteq Nat
      BY <2>1, <2>3, LenProperties DEF Without
    <3>2. QED
      BY <2>3, <3>1
  <2>4. QED
    BY <2>2, <2>3
<1> HIDE DEF Q
<1>4. WaitsOnce(Q')
  <2>1. ASSUME NEW m \in QueueNumber, NEW k \in DOMAIN Q'[m], NEW l \in DOMAIN Q'[m], Q'[m][k] = Q'[m][l]
        PROVE  k = l
    <3>1. PICK i \in DOMAIN Q[m], j \in DOMAIN Q[m] :
            Q'[m][k] = Q[m][i] /\ Q'[m][l] = Q[m][j] /\ (k < l <=> i < j)
      BY <1>3
    <3>2. PICK j2 \in DOMAIN Q[m], i2 \in DOMAIN Q[m] :
            Q'[m][l] = Q[m][j2] /\ Q'[m][k] = Q[m][i2] /\ (l < k <=> j2 < i2)
      BY <1>3
    <3>3. i = j /\ i2 = j2
      BY <1>2, <2>1, <3>1, <3>2 DEF WaitsOnce
    <3>4. k \in Nat /\ l \in Nat /\ i \in Nat /\ i2 \in Nat
      BY <1>3
    <3>5. ~ (k < l) /\ ~ (l < k)
      BY <3>1, <3>2, <3>3, <3>4
    <3>6. QED
      BY <3>4, <3>5
  <2>2. ASSUME NEW m \in QueueNumber, NEW k \in QueueNumber, m # k
        PROVE  ToSet(Q'[m]) \cap ToSet(Q'[k]) = {}
    <3>1. \A x : ~ (x \in ToSet(Q[m]) /\ x \in ToSet(Q[k]))
      BY <1>2, <2>2 DEF WaitsOnce
    <3>2. \A x : ~ (x \in ToSet(Q'[m]) /\ x \in ToSet(Q'[k]))
      BY <1>3, <3>1
    <3>3. QED
      BY <3>2
  <2>3. QED
    BY <2>1, <2>2 DEF WaitsOnce
<1>5. YoungestLast'
  <2>1. ASSUME NEW m \in QueueNumber, NEW k \in DOMAIN Q'[m], NEW l \in DOMAIN Q'[m],
               k < l, Q'[m][k] \in arrivedNow
        PROVE  Q'[m][l] \in arrivedNow
    <3>1. PICK i \in DOMAIN Q[m], j \in DOMAIN Q[m] :
            Q'[m][k] = Q[m][i] /\ Q'[m][l] = Q[m][j] /\ (k < l <=> i < j)
      BY <1>3
    <3>2. QED
      BY <1>2, <2>1, <3>1 DEF YoungestLast, Q
  <2>2. QED
    BY <1>1, <1>2, <2>1 DEF YoungestLast, Q
<1>6. Waiting' = Waiting \ {t}
  <2>1. /\ \A x : x \in Waiting <=> \E m \in QueueNumber : x \in ToSet(Q[m])
        /\ \A x : x \in Waiting' <=> \E m \in QueueNumber : x \in ToSet(Q'[m])
    BY <1>1 DEF Waiting, In, Q
  <2>2. \A m \in QueueNumber : \A x : x \in ToSet(Q'[m]) <=> x \in ToSet(Q[m]) /\ x # t
    BY <1>3
  <2>3. QED
    BY <2>1, <2>2
<1>7. QED
  BY <1>1, <1>4, <1>5, <1>6 DEF OrderInv, WaitsOnce, Q

\* The one that is found is the first of those of its kind, so one before it to the
\* same row, which is of the same kind, is not there.
SameRow(t, u) == PlaceFor(t) = PlaceFor(u) /\ RowOf(t) = RowOf(u)

LEMMA FirstOfItsRow ==
  ASSUME TypesOK, OrderInv, NEW n \in QueueNumber, NEW m \in QueueNumber, NEW t, IsFound(m, t),
         ~ (p.rowBuffers > 0 /\ p.readOnlyBuffers),
         NEW i \in DOMAIN transactionQueues[n], NEW j \in DOMAIN transactionQueues[n], i < j,
         SameRow(transactionQueues[n][i], transactionQueues[n][j])
  PROVE  transactionQueues[n][j] # t
<1> DEFINE u == transactionQueues[n][i]
           v == transactionQueues[n][j]
<1> SUFFICES ASSUME v = t
             PROVE  FALSE
  OBVIOUS
<1>1. PICK those \in Searches : t \in First(m, those)
  BY DEF IsFound
<1>2. PICK k \in DOMAIN transactionQueues[m] :
        /\ transactionQueues[m][k] = t /\ t \in those
        /\ \A l \in DOMAIN transactionQueues[m] : transactionQueues[m][l] \in those => k <= l
  BY <1>1 DEF First
<1>3. u \in Waiting /\ v \in Waiting /\ u \in Transaction /\ v \in Transaction
  <2>1. u \in ToSet(transactionQueues[n]) /\ v \in ToSet(transactionQueues[n])
    BY DEF ToSet
  <2>2. QED
    BY <2>1, WaitingIsTyped
<1>4. m = n /\ k = j
  <2>1. t \in ToSet(transactionQueues[m]) /\ t \in ToSet(transactionQueues[n])
    BY <1>2 DEF ToSet
  <2>2. m = n
    BY <2>1 DEF OrderInv, WaitsOnce
  <2>3. QED
    BY <1>2, <2>2 DEF OrderInv, WaitsOnce
<1>5. i \in Nat /\ j \in Nat
  BY LenProperties DEF TypesOK, TransactionsOK
<1>6. u \notin those
  BY <1>2, <1>4, <1>5
<1>7. v \notin arrivedNow => u \notin arrivedNow
  BY DEF OrderInv, YoungestLast
<1>8. /\ QueueFor(u) = QueueFor(v) /\ BankOf(u) = BankOf(v) /\ RowOf(u) = RowOf(v)
      /\ PlaceFor(u) = PlaceFor(v) /\ SubArrayOf(u) = SubArrayOf(v)
  <2>1. BankOf(u) = BankOf(v) /\ SubArrayOf(u) = SubArrayOf(v) /\ RowOf(u) = RowOf(v)
    BY DEF SameRow, PlaceFor
  <2>2. QED
    BY <2>1 DEF QueueFor, PlaceFor
<1>9. /\ Schedulable(v) => Schedulable(u)
      /\ Eligible(v) => Eligible(u)
      /\ RowHit(v) <=> RowHit(u)
      /\ Starved(v) <=> Starved(u)
      /\ BankActive(v) <=> BankActive(u)
  BY <1>7, <1>8 DEF Schedulable, Eligible, RowHit, Starved, BankActive
<1>10. Cached(v) => Cached(u)
  <2>1. CASE ~ p.readOnlyBuffers
    <3>1. \A x : CommandFor("CACHED", x).type = "CACHED" /\ CommandFor("CACHED", x).row = RowOf(x)
                 /\ CommandFor("CACHED", x).bank = BankOf(x)
      BY DEF CommandFor, Command
    <3>2. QED
      BY <1>8, <2>1, <3>1 DEF Cached, DeviceAccepts, ServedByRDB, InRDB, Cacheable
  <2>2. CASE p.rowBuffers = 0
    <3>1. BankOf(u) \in Bank /\ BankOf(v) \in Bank
      BY <1>3, Configured DEF TypesOK
    <3>2. \A b \in Bank : device.buffers[b] \in Seq(Row) /\ Len(device.buffers[b]) <= 0
      BY <2>2 DEF TypesOK, DeviceType, BuffersFit
    <3>3. \A b \in Bank : device.buffers[b] = <<>>
      BY <3>2, EmptySeq, LenProperties
    <3>4. \A x \in {u, v} : ~ InRDB(device, CommandFor("CACHED", x))
      BY <3>1, <3>3 DEF InRDB, CommandFor, Command, ToSet
    <3>5. QED
      BY <3>4 DEF Cached, DeviceAccepts, ServedByRDB, CommandFor, Command
  <2>3. p.rowBuffers \in Nat /\ p.readOnlyBuffers \in BOOLEAN
    BY Configured DEF TypesOK
  <2>4. QED
    BY <2>1, <2>2, <2>3
<1>11. u \in those
  BY <1>2, <1>3, <1>9, <1>10 DEF Searches
<1>12. QED
  BY <1>6, <1>11
-----------------------------------------------------------------------------
(* Refreshes and their flags.                                              *)

LEMMA HeadIsBank ==
  ASSUME NEW b \in Bank
  PROVE  GroupHead(b) \in Bank
<1>1. b \in Nat /\ b < BANKS /\ BANKS \in Nat /\ BanksPerRefresh \in Nat \ {0}
  BY BankRowsAssumption DEF Bank
<1>2. /\ b \div BanksPerRefresh \in Nat
      /\ (b \div BanksPerRefresh) * BanksPerRefresh \in Nat
      /\ (b \div BanksPerRefresh) * BanksPerRefresh <= b
  BY <1>1
<1>3. QED
  BY <1>1, <1>2 DEF GroupHead, Bank

LEMMA UnissuedIsLeft ==
  ASSUME NEW q \in Queue
  PROVE  Left(commandQueues, issued)[q] = Unissued(q)
BY DEF Left, Unissued

LEMMA OthersKeepRefreshes ==
  ASSUME p \in Configurations, NEW q \in Queue, NEW s \in Seq(CommandType), NEW r \in Seq(CommandType),
         \A i \in DOMAIN r : r[i].type # "REFRESH"
  PROVE  (HasRefresh(s \o r) <=> HasRefresh(s)) /\ (OneRefresh(q, s) => OneRefresh(q, s \o r))
<1> DEFINE c == s \o r
<1>1. /\ c \in Seq(CommandType) /\ Len(c) = Len(s) + Len(r)
      /\ \A i \in 1 .. Len(s) + Len(r) : c[i] = IF i <= Len(s) THEN s[i] ELSE r[i - Len(s)]
  BY ConcatProperties
<1>2. /\ Len(s) \in Nat /\ Len(r) \in Nat
      /\ DOMAIN c = 1 .. Len(s) + Len(r) /\ DOMAIN s = 1 .. Len(s) /\ DOMAIN r = 1 .. Len(r)
  BY <1>1, LenProperties
<1> HIDE DEF c
<1>3. \A i \in DOMAIN c : c[i].type = "REFRESH" => i \in DOMAIN s /\ c[i] = s[i]
  <2> SUFFICES ASSUME NEW i \in DOMAIN c, i > Len(s)
               PROVE  c[i].type # "REFRESH"
    BY <1>1, <1>2
  <2>1. i - Len(s) \in DOMAIN r /\ c[i] = r[i - Len(s)]
    BY <1>1, <1>2
  <2>2. QED
    BY <2>1
<1>4. \A i \in DOMAIN s : i \in DOMAIN c /\ c[i] = s[i]
  BY <1>1, <1>2
<1>5. HasRefresh(c) <=> HasRefresh(s)
  BY <1>3, <1>4 DEF HasRefresh
<1>6. OneRefresh(q, s) => OneRefresh(q, c)
  BY <1>3, <1>4 DEF OneRefresh
<1>7. QED
  BY <1>5, <1>6 DEF c

LEMMA RefreshIsAdded ==
  ASSUME NEW q \in Queue, NEW s \in Seq(CommandType), NEW r \in Seq(CommandType), ~ HasRefresh(s),
         Len(r) > 0, \A i \in DOMAIN r : r[i].type = "REFRESH" <=> i = Len(r),
         q = QueueOf(r[Len(r)].bank, FirstSubArray), GroupHead(r[Len(r)].bank) = r[Len(r)].bank
  PROVE  HasRefresh(s \o r) /\ OneRefresh(q, s \o r)
<1> DEFINE c == s \o r
           last == Len(s) + Len(r)
<1>1. /\ c \in Seq(CommandType) /\ Len(c) = Len(s) + Len(r)
      /\ \A i \in 1 .. Len(s) + Len(r) : c[i] = IF i <= Len(s) THEN s[i] ELSE r[i - Len(s)]
  BY ConcatProperties
<1>2. /\ Len(s) \in Nat /\ Len(r) \in Nat
      /\ DOMAIN c = 1 .. Len(s) + Len(r) /\ DOMAIN s = 1 .. Len(s) /\ DOMAIN r = 1 .. Len(r)
  BY <1>1, LenProperties
<1> HIDE DEF c
<1>3. last \in DOMAIN c /\ c[last] = r[Len(r)] /\ r[Len(r)].type = "REFRESH"
  BY <1>1, <1>2
<1>4. \A i \in DOMAIN c : c[i].type = "REFRESH" => i = last
  <2> SUFFICES ASSUME NEW i \in DOMAIN c, c[i].type = "REFRESH"
               PROVE  i = last
    OBVIOUS
  <2>1. i > Len(s)
    BY <1>1, <1>2 DEF HasRefresh
  <2>2. i - Len(s) \in DOMAIN r /\ c[i] = r[i - Len(s)]
    BY <1>1, <1>2, <2>1
  <2>3. i - Len(s) = Len(r)
    BY <2>2
  <2>4. QED
    BY <1>2, <2>3
<1> HIDE DEF last
<1>5. HasRefresh(c)
  BY <1>3 DEF HasRefresh
<1>6. OneRefresh(q, c)
  BY <1>3, <1>4 DEF OneRefresh
<1>7. QED
  BY <1>5, <1>6 DEF c

LEMMA HeadIsIssued ==
  ASSUME NEW q \in Queue, NEW s \in Seq(CommandType), s # <<>>, OneRefresh(q, s)
  PROVE  /\ OneRefresh(q, Tail(s))
         /\ Head(s).type = "REFRESH" => ~ HasRefresh(Tail(s))
         /\ Head(s).type # "REFRESH" => (HasRefresh(Tail(s)) <=> HasRefresh(s))
<1> DEFINE u == Tail(s)
<1>1. /\ Len(s) \in Nat /\ Len(s) > 0 /\ DOMAIN s = 1 .. Len(s) /\ DOMAIN u = 1 .. Len(s) - 1
      /\ \A i \in 1 .. Len(s) - 1 : u[i] = s[i + 1]
      /\ Head(s) = s[1]
  BY EmptySeq, LenProperties, HeadTailProperties
<1> HIDE DEF u
<1>2. \A i \in DOMAIN u : i + 1 \in DOMAIN s /\ u[i] = s[i + 1] /\ i \in Int
  BY <1>1
<1>3. \A i \in DOMAIN s : i = 1 \/ (i - 1 \in DOMAIN u /\ u[i - 1] = s[i])
  BY <1>1
<1>4. OneRefresh(q, u)
  BY <1>2 DEF OneRefresh
<1>5. Head(s).type = "REFRESH" => ~ HasRefresh(u)
  BY <1>1, <1>2 DEF OneRefresh, HasRefresh
<1>6. Head(s).type # "REFRESH" => (HasRefresh(u) <=> HasRefresh(s))
  BY <1>1, <1>2, <1>3 DEF HasRefresh
<1>7. QED
  BY <1>4, <1>5, <1>6 DEF u

LEMMA CommandsKeepRefreshes ==
  ASSUME TypesOK, NEW queues \in CommandQueues, NEW waiting, NEW rechecks,
         CycleCommandQueues(queues, waiting, rechecks),
         RefreshesMatch(refreshQueued, Left(queues, issued))
  PROVE  RefreshesMatch(refreshQueued', Left(queues, issued'))
<1>1. CASE NothingIssued(queues, waiting, rechecks)
  BY <1>1 DEF NothingIssued, Left
<1>2. ASSUME issued = NoQueue, NEW q \in Queue, queues[q] # <<>>, IssueHead(q, queues, waiting, rechecks)
      PROVE  RefreshesMatch(refreshQueued', Left(queues, issued'))
  <2> DEFINE cmd == Head(queues[q])
             left == Left(queues, issued)
             left2 == Left(queues, issued')
  <2>1. /\ issued' = q
        /\ refreshQueued' = [b \in Bank |-> refreshQueued[b] /\ ~ (cmd.type = "REFRESH" /\ b \in Group(cmd.bank))]
    BY <1>2 DEF IssueHead
  <2>2. NoQueue \notin Queue
    BY Configured DEF TypesOK
  <2>3. \A r \in Queue : left[r] = queues[r] /\ (r # q => left2[r] = queues[r])
    BY <1>2, <2>1, <2>2 DEF Left
  <2>4. left2[q] = Tail(queues[q]) /\ queues[q] \in Seq(CommandType)
    BY <2>1 DEF Left, CommandQueues
  <2>5. (\A r \in Queue : OneRefresh(r, queues[r])) /\ FlagsMatch(refreshQueued, left)
    BY <2>3 DEF RefreshesMatch
  <2> HIDE DEF left, left2
  <2>6. /\ OneRefresh(q, left2[q])
        /\ cmd.type = "REFRESH" => ~ HasRefresh(left2[q])
        /\ cmd.type # "REFRESH" => (HasRefresh(left2[q]) <=> HasRefresh(queues[q]))
    BY <1>2, <2>4, <2>5, HeadIsIssued
  <2>7. cmd.type = "REFRESH" => q = QueueOf(cmd.bank, FirstSubArray) /\ GroupHead(cmd.bank) = cmd.bank
    <3>1. 1 \in DOMAIN queues[q] /\ queues[q][1] = cmd
      BY <1>2, <2>4, EmptySeq, LenProperties, HeadTailProperties
    <3>2. QED
      BY <2>5, <3>1 DEF OneRefresh
  <2> HIDE DEF cmd
  <2>8. ASSUME NEW b \in Bank
        PROVE  refreshQueued'[b] <=> HasRefresh(left2[QueueOf(GroupHead(b), FirstSubArray)])
    <3> DEFINE at == QueueOf(GroupHead(b), FirstSubArray)
    <3>1. GroupHead(b) \in Bank /\ at \in Queue /\ at[1] = GroupHead(b)
      BY HeadIsBank, Configured DEF TypesOK
    <3>2. refreshQueued[b] <=> HasRefresh(queues[at])
      BY <2>3, <2>5, <3>1 DEF FlagsMatch
    <3>3. CASE cmd.type = "REFRESH" /\ b \in Group(cmd.bank)
      <4>1. at = q
        BY <2>7, <3>3 DEF Group
      <4>2. ~ refreshQueued'[b]
        BY <2>1, <3>3
      <4>3. QED
        BY <2>6, <3>3, <4>1, <4>2
    <3>4. CASE cmd.type = "REFRESH" /\ b \notin Group(cmd.bank)
      <4>1. GroupHead(b) # cmd.bank
        BY <2>7, <3>4 DEF Group
      <4>2. cmd.bank \in Bank
        BY <1>2, <2>4, HeadTailProperties DEF CommandType, cmd
      <4>3. at # q
        BY <2>7, <3>1, <3>4, <4>1, <4>2, Configured DEF TypesOK
      <4>4. refreshQueued'[b] <=> refreshQueued[b]
        BY <2>1, <3>4
      <4>5. QED
        BY <2>3, <3>1, <3>2, <4>3, <4>4
    <3>5. CASE cmd.type # "REFRESH"
      <4>1. refreshQueued'[b] <=> refreshQueued[b]
        BY <2>1, <3>5
      <4>2. CASE at = q
        BY <2>6, <3>2, <3>5, <4>1, <4>2
      <4>3. CASE at # q
        BY <2>3, <3>1, <3>2, <4>1, <4>3
      <4>4. QED
        BY <4>2, <4>3
    <3>6. QED
      BY <3>3, <3>4, <3>5
  <2>9. \A r \in Queue : OneRefresh(r, left2[r])
    BY <2>3, <2>5, <2>6
  <2>10. QED
    BY <2>8, <2>9 DEF RefreshesMatch, FlagsMatch, left2
<1>3. QED
  BY <1>1, <1>2 DEF CycleCommandQueues

\* The queues and flags stand for themselves as long as the parameters do.
LEMMA RefreshesStand ==
  ASSUME p' = p
  PROVE  RefreshInv' <=> RefreshesMatch(refreshQueued', Left(commandQueues', issued'))
<1>1. Queue' = Queue /\ \A b, s : QueueOf(b, s)' = QueueOf(b, s)
  BY SameParameters
<1>2. Left(commandQueues, issued)' = Left(commandQueues', issued')
  BY <1>1 DEF Left
<1>3. \A q, queue : OneRefresh(q, queue)' <=> OneRefresh(q, queue)
  BY <1>1 DEF OneRefresh
<1>4. \A flags, left : FlagsMatch(flags, left)' <=> FlagsMatch(flags, left)
  BY <1>1 DEF FlagsMatch, HasRefresh
<1>5. QED
  BY <1>1, <1>2, <1>3, <1>4 DEF RefreshInv, RefreshesMatch

LEMMA FoundIsReady ==
  ASSUME NEW n, NEW t, IsFound(n, t)
  PROVE  commandQueues[QueueFor(t)] = <<>>
BY DEF IsFound, Searches, First, Eligible, Schedulable

LEMMA SchedulingKeepsRefreshes ==
  ASSUME TypesOK, RefreshInv, NEW n \in QueueNumber, NEW next \in SUBSET Waiting, Schedules(n, next)
  PROVE  RefreshInv'
<1>1. p' = p
  BY DEF Schedules, CycleWith
<1>2. CASE next = {}
  <2>1. commandQueues' = commandQueues /\ CycleCommandQueues(commandQueues, Waiting, TRUE)
    BY <1>2 DEF Schedules, CycleWith
  <2>2. commandQueues \in CommandQueues
    BY DEF TypesOK, QueuesOK
  <2>3. RefreshesMatch(refreshQueued', Left(commandQueues, issued'))
    BY <2>1, <2>2, CommandsKeepRefreshes DEF RefreshInv
  <2>4. QED
    BY <1>1, <2>1, <2>3, RefreshesStand
<1>3. CASE next # {}
  <2> DEFINE queues(t) == [commandQueues EXCEPT ![QueueFor(t)] = @ \o MemoryCommands(t)]
             old == Left(commandQueues, issued)
  <2>1. PICK t \in next : /\ commandQueues' = queues(t)
                          /\ CycleCommandQueues(queues(t), Waiting \ {t}, TRUE)
    BY <1>3 DEF Schedules, CycleWith
  <2> DEFINE new == Left(queues(t), issued)
  <2>2. t \in Waiting /\ t \in Transaction /\ commandQueues[QueueFor(t)] = <<>>
    BY WaitingIsTyped, FoundIsReady DEF Schedules
  <2>3. /\ queues(t) \in CommandQueues
        /\ \A q \in Queue \ {QueueFor(t)} : queues(t)[q] = commandQueues[q]
        /\ queues(t)[QueueFor(t)] = commandQueues[QueueFor(t)] \o MemoryCommands(t)
    BY <2>2, ScheduledIsTyped
  <2>4. QueueFor(t) \in Queue /\ issued # QueueFor(t)
    BY <2>2, Configured DEF TypesOK, QueuesOK
  <2> HIDE DEF queues
  <2>5. /\ \A q \in Queue \ {QueueFor(t)} : new[q] = old[q]
        /\ old[QueueFor(t)] = <<>> /\ new[QueueFor(t)] = <<>> \o MemoryCommands(t)
    BY <2>2, <2>3, <2>4 DEF Left
  <2> HIDE DEF old, new
  <2>6. /\ MemoryCommands(t) \in Seq(CommandType)
        /\ \A i \in DOMAIN MemoryCommands(t) : MemoryCommands(t)[i].type # "REFRESH"
    BY <2>2, CommandsAreTyped
  <2>7. \A q \in Queue : /\ HasRefresh(new[q]) <=> HasRefresh(old[q])
                         /\ OneRefresh(q, old[q]) => OneRefresh(q, new[q])
    <3>1. <<>> \in Seq(CommandType)
      OBVIOUS
    <3>2. /\ HasRefresh(<<>> \o MemoryCommands(t)) <=> HasRefresh(<<>>)
          /\ OneRefresh(QueueFor(t), <<>>) => OneRefresh(QueueFor(t), <<>> \o MemoryCommands(t))
      BY <2>4, <2>6, <3>1, OthersKeepRefreshes DEF TypesOK
    <3>3. QED
      BY <2>5, <3>2
  <2>8. \A b \in Bank : QueueOf(GroupHead(b), FirstSubArray) \in Queue
    BY HeadIsBank, Configured DEF TypesOK
  <2>9. RefreshesMatch(refreshQueued, new)
    BY <2>7, <2>8 DEF RefreshInv, RefreshesMatch, FlagsMatch, old
  <2>10. RefreshesMatch(refreshQueued', Left(queues(t), issued'))
    BY <2>1, <2>3, <2>9, CommandsKeepRefreshes DEF new
  <2>11. QED
    BY <1>1, <2>1, <2>10, RefreshesStand
<1>4. QED
  BY <1>2, <1>3

LEMMA CallbackKeepsRefreshes ==
  ASSUME TypesOK, RefreshInv, CommandQueueCallback
  PROVE  RefreshInv'
<1>1. /\ UNCHANGED <<p, commandQueues>>
      /\ CycleCommandQueues(commandQueues, Waiting, FALSE)
  BY DEF CommandQueueCallback
<1>2. RefreshesMatch(refreshQueued', Left(commandQueues, issued'))
  BY <1>1, CommandsKeepRefreshes DEF RefreshInv, TypesOK, QueuesOK
<1>3. QED
  BY <1>1, <1>2, RefreshesStand

LEMMA RefreshKeepsRefreshes ==
  ASSUME TypesOK, RefreshInv, NEW j \in Bank, RefreshCallback(j)
  PROVE  RefreshInv'
<1>1. /\ early /\ GroupHead(j) = j /\ (\A b \in Group(j) : ~ refreshQueued[b])
      /\ UNCHANGED <<p, issued>>
  BY DEF RefreshCallback
<1>2. issued = NoQueue /\ NoQueue \notin Queue
  BY <1>1, Configured DEF TypesOK, QueuesOK
<1>3. CASE ~ NeedRefresh(delayedRefreshCounter[j] + 1)
  <2>1. UNCHANGED <<commandQueues, refreshQueued>>
    BY <1>3 DEF RefreshCallback
  <2>2. QED
    BY <1>1, <2>1, RefreshesStand DEF RefreshInv
<1>4. CASE NeedRefresh(delayedRefreshCounter[j] + 1)
  <2> DEFINE at == QueueOf(j, FirstSubArray)
  <2>1. WithRefresh(j)
    BY <1>4 DEF RefreshCallback
  <2>2. /\ commandQueues' \in CommandQueues
        /\ \A q \in Queue :
             /\ RefreshFor(j, q) \in Seq(CommandType)
             /\ commandQueues'[q] = commandQueues[q] \o RefreshFor(j, q)
             /\ \A i \in DOMAIN RefreshFor(j, q) : RefreshFor(j, q)[i].bank = q[1]
             /\ q # at => \A i \in DOMAIN RefreshFor(j, q) : RefreshFor(j, q)[i].type # "REFRESH"
             /\ q = at => /\ Len(RefreshFor(j, q)) > 0
                          /\ \A i \in DOMAIN RefreshFor(j, q) :
                               RefreshFor(j, q)[i].type = "REFRESH" <=> i = Len(RefreshFor(j, q))
        /\ refreshQueued' = [b \in Bank |-> refreshQueued[b] \/ b \in Group(j)]
    BY <2>1, RefreshIsTyped
  <2>3. at \in Queue /\ at[1] = j
    BY Configured DEF TypesOK
  <2>4. \A q \in Queue : /\ Left(commandQueues, issued)[q] = commandQueues[q]
                         /\ Left(commandQueues', issued')[q] = commandQueues'[q]
                         /\ commandQueues[q] \in Seq(CommandType)
    BY <1>1, <1>2 DEF Left, TypesOK, QueuesOK, CommandQueues
  <2>5. \A q \in Queue : OneRefresh(q, commandQueues[q])
    BY <2>4 DEF RefreshInv, RefreshesMatch
  <2>6. \A b \in Bank : /\ GroupHead(b) \in Bank /\ QueueOf(GroupHead(b), FirstSubArray) \in Queue
                        /\ QueueOf(GroupHead(b), FirstSubArray)[1] = GroupHead(b)
    BY HeadIsBank, Configured DEF TypesOK
  <2>7. \A b \in Bank : refreshQueued[b] <=> HasRefresh(commandQueues[QueueOf(GroupHead(b), FirstSubArray)])
    BY <2>4, <2>6 DEF RefreshInv, RefreshesMatch, FlagsMatch
  <2>8. ~ HasRefresh(commandQueues[at])
    BY <1>1, <2>7 DEF Group
  <2> HIDE DEF at
  <2>9. HasRefresh(commandQueues'[at]) /\ OneRefresh(at, commandQueues'[at])
    <3> DEFINE r == RefreshFor(j, at)
    <3>1. /\ r \in Seq(CommandType) /\ Len(r) > 0 /\ commandQueues'[at] = commandQueues[at] \o r
          /\ \A i \in DOMAIN r : r[i].bank = j /\ (r[i].type = "REFRESH" <=> i = Len(r))
      BY <2>2, <2>3
    <3> HIDE DEF r
    <3>2. r[Len(r)].bank = j
      BY <3>1, LenProperties
    <3>3. at = QueueOf(r[Len(r)].bank, FirstSubArray) /\ GroupHead(r[Len(r)].bank) = r[Len(r)].bank
      BY <1>1, <3>2 DEF at
    <3>4. QED
      BY <2>3, <2>4, <2>8, <3>1, <3>3, RefreshIsAdded
  <2>10. \A q \in Queue \ {at} : /\ HasRefresh(commandQueues'[q]) <=> HasRefresh(commandQueues[q])
                                 /\ OneRefresh(q, commandQueues'[q])
    <3> SUFFICES ASSUME NEW q \in Queue \ {at}
                 PROVE  /\ HasRefresh(commandQueues'[q]) <=> HasRefresh(commandQueues[q])
                        /\ OneRefresh(q, commandQueues'[q])
      OBVIOUS
    <3> DEFINE r == RefreshFor(j, q)
               s == commandQueues[q]
    <3>1. /\ q \in Queue /\ s \in Seq(CommandType) /\ r \in Seq(CommandType)
          /\ commandQueues'[q] = s \o r
          /\ (\A i \in DOMAIN r : r[i].type # "REFRESH") /\ OneRefresh(q, s)
      BY <2>2, <2>4, <2>5
    <3>2. p \in Configurations
      BY DEF TypesOK
    <3> HIDE DEF r, s
    <3>3. (HasRefresh(s \o r) <=> HasRefresh(s)) /\ OneRefresh(q, s \o r)
      BY <3>1, <3>2, OthersKeepRefreshes
    <3>4. QED
      BY <3>1, <3>3 DEF s
  <2>11. ASSUME NEW b \in Bank
         PROVE  refreshQueued'[b] <=> HasRefresh(commandQueues'[QueueOf(GroupHead(b), FirstSubArray)])
    <3>1. CASE b \in Group(j)
      BY <1>1, <2>2, <2>9, <3>1 DEF Group, at
    <3>2. CASE b \notin Group(j)
      <4>1. QueueOf(GroupHead(b), FirstSubArray) # at
        BY <1>1, <2>3, <2>6, <3>2 DEF Group
      <4>2. QED
        BY <2>2, <2>6, <2>7, <2>10, <3>2, <4>1
    <3>3. QED
      BY <3>1, <3>2
  <2>12. RefreshesMatch(refreshQueued', Left(commandQueues', issued'))
    BY <2>4, <2>6, <2>9, <2>10, <2>11 DEF RefreshesMatch, FlagsMatch
  <2>13. QED
    BY <1>1, <2>12, RefreshesStand
<1>5. QED
  BY <1>3, <1>4

LEMMA NextCycleKeepsRefreshes ==
  ASSUME TypesOK, RefreshInv, NEW due \in BOOLEAN, NextCycle(due)
  PROVE  RefreshInv'
<1>1. /\ commandQueues' = [q \in Queue |-> Unissued(q)] /\ issued' = NoQueue
      /\ UNCHANGED <<p, refreshQueued>>
  BY DEF NextCycle
<1>2. NoQueue \notin Queue
  BY Configured DEF TypesOK
<1>3. \A q \in Queue : Left(commandQueues', issued')[q] = Left(commandQueues, issued)[q]
  BY <1>1, <1>2, UnissuedIsLeft DEF Left
<1>4. Left(commandQueues', issued') = Left(commandQueues, issued)
  BY <1>3 DEF Left
<1>5. QED
  BY <1>1, <1>4, RefreshesStand DEF RefreshInv
-----------------------------------------------------------------------------
(* The wake-ups.                                                           *)

\* An access that is served from a row buffer leaves the others what they are.
LEMMA CommandsKeepWakes ==
  ASSUME TypesOK, NEW queues \in CommandQueues, NEW waiting, NEW rechecks,
         CycleCommandQueues(queues, waiting, rechecks),
         \A q \in Queue : OnlyFromRDB(device, Left(queues, issued)[q])
  PROVE  \A q \in Queue : OnlyFromRDB(device', Left(queues, issued')[q])
<1>1. CASE NothingIssued(queues, waiting, rechecks)
  BY <1>1 DEF NothingIssued, Left
<1>2. ASSUME issued = NoQueue, NEW q \in Queue, queues[q] # <<>>, IssueHead(q, queues, waiting, rechecks)
      PROVE  \A r \in Queue : OnlyFromRDB(device', Left(queues, issued')[r])
  <2> DEFINE cmd == Head(queues[q])
  <2>1. issued' = q /\ device' = DeviceAfter(device, cmd)
    BY <1>2 DEF IssueHead
  <2>2. NoQueue \notin Queue
    BY Configured DEF TypesOK
  <2>3. \A r \in Queue : /\ Left(queues, issued)[r] = queues[r]
                         /\ r # q => Left(queues, issued')[r] = queues[r]
                         /\ queues[r] \in Seq(CommandType)
    BY <1>2, <2>1, <2>2 DEF Left, CommandQueues
  <2>4. Left(queues, issued')[q] = Tail(queues[q])
    BY <2>1 DEF Left
  <2>5. Len(queues[q]) = 1 /\ ServedByRDB(device, cmd) /\ cmd \in CommandType
    BY <1>2, <2>3, HeadTailProperties DEF OnlyFromRDB
  <2> HIDE DEF cmd
  <2>6. \A c \in CommandType : ServedByRDB(device', c) <=> ServedByRDB(device, c)
    BY <2>1, <2>5, DevicesAreTyped DEF TypesOK
  <2>7. Left(queues, issued')[q] = <<>>
    <3>1. Len(Tail(queues[q])) = 0 /\ Tail(queues[q]) \in Seq(CommandType)
      BY <1>2, <2>3, <2>5, HeadTailProperties
    <3>2. QED
      BY <2>4, <3>1, EmptySeq
  <2>8. ASSUME NEW r \in Queue, r # q
        PROVE  OnlyFromRDB(device', Left(queues, issued')[r])
    <3>1. OnlyFromRDB(device, queues[r]) /\ queues[r] \in Seq(CommandType)
      BY <2>3
    <3>2. queues[r] # <<>> => Head(queues[r]) \in CommandType
      BY <3>1, HeadTailProperties
    <3>3. OnlyFromRDB(device', queues[r])
      BY <2>6, <3>1, <3>2 DEF OnlyFromRDB
    <3>4. QED
      BY <2>3, <2>8, <3>3
  <2>9. QED
    BY <2>7, <2>8 DEF OnlyFromRDB
<1>3. QED
  BY <1>1, <1>2 DEF CycleCommandQueues

\* Whoever empties a queue looks whether a transaction waits for it.
LEMMA CommandsWakeTransactions ==
  ASSUME TypesOK, NEW queues \in CommandQueues, \A r \in Queue : issued = r => queues[r] # <<>>,
         NEW waiting, NEW rechecks \in BOOLEAN, CycleCommandQueues(queues, waiting, rechecks),
         NEW q \in Queue, TransactionAvailable(q, waiting), Left(queues, issued')[q] = <<>>,
         ~ rechecks /\ Left(queues, issued)[q] = <<>> => cyclesNext > 0
  PROVE  cyclesNext' > 0
<1>1. cyclesNext \in Nat /\ queues[q] \in Seq(CommandType)
  BY DEF TypesOK, EventsOK, CommandQueues
<1>2. issued' = q => queues[q] # <<>>
  <2>1. issued' # NoQueue => queues[issued'] # <<>>
    BY CommandsRun
  <2>2. NoQueue \notin Queue
    BY Configured DEF TypesOK
  <2>3. QED
    BY <2>1, <2>2
<1>3. queues[q] = <<>> \/ (issued' = q /\ Len(queues[q]) = 1)
  <2>1. CASE issued' # q
    BY <2>1 DEF Left
  <2>2. CASE issued' = q
    <3>1. Tail(queues[q]) = <<>>
      BY <2>2 DEF Left
    <3>2. Len(Tail(queues[q])) = Len(queues[q]) - 1 /\ Len(queues[q]) \in Nat
      BY <1>1, <1>2, <2>2, HeadTailProperties, LenProperties
    <3>3. Len(queues[q]) = 1
      <4>1. Len(Tail(queues[q])) = 0
        <5>1. Tail(queues[q]) \in Seq(CommandType)
          BY <1>1, <1>2, <2>2, HeadTailProperties
        <5> DEFINE u == Tail(queues[q])
        <5>2. u = <<>> /\ u \in Seq(CommandType)
          BY <3>1, <5>1
        <5> HIDE DEF u
        <5>3. Len(u) = 0
          BY <5>2, EmptySeq
        <5>4. QED
          BY <5>3 DEF u
      <4> DEFINE m == Len(Tail(queues[q]))
                 n == Len(queues[q])
      <4>2. m = n - 1 /\ n \in Nat /\ m = 0
        BY <3>2, <4>1
      <4> HIDE DEF m, n
      <4>3. n = 1
        BY <4>2
      <4>4. QED
        BY <4>3 DEF n
    <3>4. QED
      BY <2>2, <3>3
  <2>3. QED
    BY <2>1, <2>2
<1>4. ASSUME NEW emptied, WakesNext(queues, waiting, emptied, rechecks),
             rechecks \/ cyclesNext > 0 \/ q \in emptied
      PROVE  cyclesNext' > 0
  <2>1. PICK more \in {0, 1} :
          /\ q \in emptied => more = 1
          /\ cyclesNext' = IF /\ rechecks /\ cyclesNext + more = 0
                              /\ \E r \in Queue : /\ queues[r] = <<>> \/ (issued' = r /\ Len(queues[r]) = 1)
                                                  /\ TransactionAvailable(r, waiting)
                           THEN 1 ELSE cyclesNext + more
    <3> WITNESS (IF \E r \in emptied : TransactionAvailable(r, waiting) THEN 1 ELSE 0) \in {0, 1}
    <3>1. QED
      BY <1>4 DEF WakesNext
  <2>2. \E r \in Queue : /\ queues[r] = <<>> \/ (issued' = r /\ Len(queues[r]) = 1)
                         /\ TransactionAvailable(r, waiting)
    BY <1>3
  <2>3. QED
    BY <1>1, <1>4, <2>1, <2>2
<1>5. CASE NothingIssued(queues, waiting, rechecks)
  <2>1. issued' = issued /\ WakesNext(queues, waiting, {}, rechecks)
    BY <1>5 DEF NothingIssued
  <2>2. rechecks \/ cyclesNext > 0
    BY <2>1
  <2>3. QED
    BY <1>4, <2>1, <2>2
<1>6. ASSUME issued = NoQueue, NEW r \in Queue, queues[r] # <<>>, IssueHead(r, queues, waiting, rechecks)
      PROVE  cyclesNext' > 0
  <2>1. issued' = r /\ WakesNext(queues, waiting, IF Len(queues[r]) = 1 THEN {r} ELSE {}, rechecks)
    BY <1>6 DEF IssueHead
  <2>2. NoQueue \notin Queue
    BY Configured DEF TypesOK
  <2>3. CASE q = r
    BY <1>3, <1>4, <1>6, <2>1, <2>3
  <2>4. CASE q # r
    <3>1. Left(queues, issued)[q] = <<>>
      BY <1>6, <2>1, <2>2, <2>4 DEF Left
    <3>2. QED
      BY <1>4, <2>1, <3>1
  <2>5. QED
    BY <2>3, <2>4
<1>7. QED
  BY <1>5, <1>6 DEF CycleCommandQueues

LEMMA WakesStand ==
  ASSUME p' = p
  PROVE  WakesInv' <=> WakesMatch(device', Left(commandQueues', issued'), Asleep', Waiting', CyclesLeft')
<1>1. /\ Queue' = Queue /\ \A t : QueueFor(t)' = QueueFor(t)
      /\ \A dev, c : ServedByRDB(dev, c)' <=> ServedByRDB(dev, c)
  BY SameParameters
<1>2. Left(commandQueues, issued)' = Left(commandQueues', issued')
  BY <1>1 DEF Left
<1>3. \A dev, queue : OnlyFromRDB(dev, queue)' <=> OnlyFromRDB(dev, queue)
  BY <1>1 DEF OnlyFromRDB
<1>4. \A dev, left, asleep, waiting, some :
        WakesMatch(dev, left, asleep, waiting, some)' <=> WakesMatch(dev, left, asleep, waiting, some)
  BY <1>1, <1>3 DEF WakesMatch
<1>5. QED
  BY <1>2, <1>4 DEF WakesInv

LEMMA ArrivalKeepsWakes ==
  ASSUME TypesOK, OrderInv, WakesInv, NEW n \in QueueNumber, NEW t \in Transaction, Arrives(n, t)
  PROVE  WakesInv'
<1>1. /\ cycles' = IF EffectivelyEmpty(QueueFor(t)) /\ cycles = 0 THEN 1 ELSE cycles
      /\ UNCHANGED <<p, commandQueues, issued, cyclesNext, wake, wakeLater, device>>
  BY DEF Arrives, Enqueue
<1>2. Waiting' = Waiting \cup {t}
  BY ArrivalKeepsOrder
<1>3. cycles \in Nat /\ cyclesNext \in Nat
  BY DEF TypesOK, EventsOK
<1>4. (CyclesLeft => CyclesLeft') /\ (EffectivelyEmpty(QueueFor(t)) => CyclesLeft')
  BY <1>1, <1>3 DEF CyclesLeft
<1>5. Asleep' <=> Asleep
  BY <1>1 DEF Asleep
<1>6. Left(commandQueues, issued)[QueueFor(t)] = <<>> => CyclesLeft'
  BY <1>4, Configured, UnissuedIsLeft DEF TypesOK, EffectivelyEmpty
<1>7. WakesMatch(device', Left(commandQueues', issued'), Asleep', Waiting', CyclesLeft')
  BY <1>1, <1>2, <1>4, <1>5, <1>6 DEF WakesInv, WakesMatch
<1>8. QED
  BY <1>1, <1>7, WakesStand

\* What a handler makes of the wake-ups once it has come to these queues.
LEMMA HandlerKeepsWakes ==
  ASSUME TypesOK, NEW queues \in CommandQueues, \A r \in Queue : issued = r => queues[r] # <<>>,
         NEW waiting \in SUBSET Transaction, NEW rechecks \in BOOLEAN,
         CycleCommandQueues(queues, waiting, rechecks), p' = p,
         Asleep' => \A q \in Queue : OnlyFromRDB(device, Left(queues, issued)[q]),
         ~ rechecks => \A t \in waiting : Left(queues, issued)[QueueFor(t)] = <<>> => cyclesNext > 0
  PROVE  WakesMatch(device', Left(queues, issued'), Asleep', waiting, CyclesLeft')
<1>1. Asleep' => \A q \in Queue : OnlyFromRDB(device', Left(queues, issued')[q])
  BY CommandsKeepWakes
<1>2. ASSUME NEW t \in waiting, Left(queues, issued')[QueueFor(t)] = <<>>
      PROVE  CyclesLeft'
  <2>1. QueueFor(t) \in Queue
    BY Configured DEF TypesOK
  <2>2. TransactionAvailable(QueueFor(t), waiting)
    BY DEF TransactionAvailable
  <2>3. ~ rechecks /\ Left(queues, issued)[QueueFor(t)] = <<>> => cyclesNext > 0
    OBVIOUS
  <2>4. cyclesNext' > 0
    BY <1>2, <2>1, <2>2, <2>3, CommandsWakeTransactions
  <2>5. QED
    BY <2>4 DEF CyclesLeft
<1>3. QED
  BY <1>1, <1>2 DEF WakesMatch

LEMMA SchedulingKeepsWakes ==
  ASSUME TypesOK, OrderInv, WakesInv, NEW n \in QueueNumber, NEW next \in SUBSET Waiting, Schedules(n, next)
  PROVE  WakesInv'
<1>1. UNCHANGED <<p, wake, arrivedNow>> /\ Waiting \subseteq Transaction
  BY WaitingIsTyped DEF Schedules, CycleWith
<1>2. NoQueue \notin Queue /\ issued \in Queue \cup {NoQueue}
  BY Configured DEF TypesOK, QueuesOK
<1>3. CASE next = {}
  <2>1. /\ UNCHANGED <<transactionQueues, commandQueues, wakeLater>>
        /\ CycleCommandQueues(commandQueues, Waiting, TRUE)
    BY <1>3 DEF Schedules, CycleWith
  <2>2. commandQueues \in CommandQueues /\ \A r \in Queue : issued = r => commandQueues[r] # <<>>
    BY <1>2 DEF TypesOK, QueuesOK
  <2>3. Asleep' => \A q \in Queue : OnlyFromRDB(device, Left(commandQueues, issued)[q])
    BY <1>1, <2>1 DEF Asleep, WakesInv, WakesMatch
  <2>4. WakesMatch(device', Left(commandQueues, issued'), Asleep', Waiting, CyclesLeft')
    BY <1>1, <2>1, <2>2, <2>3, HandlerKeepsWakes
  <2>5. Waiting' = Waiting
    <3>1. QueueNumber' = QueueNumber
      BY <1>1, SameParameters
    <3>2. QED
      BY <2>1, <3>1 DEF Waiting, In
  <2>6. QED
    BY <1>1, <2>1, <2>4, <2>5, WakesStand
<1>4. CASE next # {}
  <2> DEFINE queues(t) == [commandQueues EXCEPT ![QueueFor(t)] = @ \o MemoryCommands(t)]
  <2>1. PICK t \in next :
          /\ transactionQueues' = [m \in QueueNumber |-> Without(transactionQueues[m], t)]
          /\ commandQueues' = queues(t)
          /\ wakeLater' = (wakeLater \/ (~ FromRDB(t) /\ NextIssuable(queues(t))))
          /\ CycleCommandQueues(queues(t), Waiting \ {t}, TRUE)
    BY <1>4 DEF Schedules, CycleWith
  <2>2. t \in Waiting /\ t \in Transaction /\ commandQueues[QueueFor(t)] = <<>>
    BY WaitingIsTyped, FoundIsReady DEF Schedules
  <2>3. /\ queues(t) \in CommandQueues
        /\ \A q \in Queue : commandQueues[q] # <<>> => queues(t)[q] # <<>>
        /\ \A q \in Queue \ {QueueFor(t)} : queues(t)[q] = commandQueues[q]
        /\ queues(t)[QueueFor(t)] = commandQueues[QueueFor(t)] \o MemoryCommands(t)
        /\ queues(t)[QueueFor(t)] # <<>>
    BY <2>2, ScheduledIsTyped
  <2> HIDE DEF queues
  <2>4. /\ QueueFor(t) \in Queue /\ issued # QueueFor(t)
        /\ \A r \in Queue : issued = r => queues(t)[r] # <<>>
    BY <1>2, <2>2, <2>3, Configured DEF TypesOK, QueuesOK
  <2>5. \A q \in Queue \ {QueueFor(t)} : Left(queues(t), issued)[q] = Left(commandQueues, issued)[q]
    BY <2>3 DEF Left
  <2>6. Left(queues(t), issued)[QueueFor(t)] = <<>> \o MemoryCommands(t)
    BY <2>2, <2>3, <2>4 DEF Left
  <2>7. ASSUME Asleep', NEW q \in Queue
        PROVE  OnlyFromRDB(device, Left(queues(t), issued)[q])
    <3>1. ~ p.PerSubArrayQueues /\ ~ wake /\ ~ wakeLater'
      BY <1>1, <2>7 DEF Asleep
    <3>2. Asleep /\ (FromRDB(t) \/ ~ NextIssuable(queues(t)))
      BY <2>1, <3>1 DEF Asleep
    <3>3. NextIssuable(queues(t))
      <4>1. QueueFor(t) = QueueOf(BankOf(t), FirstSubArray) /\ BankOf(t) \in Bank
        BY <2>2, <3>1, Configured DEF TypesOK, QueueFor, QueueOf
      <4>2. QED
        BY <2>3, <4>1 DEF NextIssuable
    <3>4. FromRDB(t)
      BY <3>2, <3>3
    <3>5. MemoryCommands(t) \in Seq(CommandType) /\ Len(MemoryCommands(t)) = 1
          /\ Head(MemoryCommands(t)) = CommandFor("READ", t)
      BY <2>2, <3>4, CommandsAreTyped
    <3>6. <<>> \o MemoryCommands(t) = MemoryCommands(t)
      BY <3>5, ConcatEmptySeq
    <3>7. ServedByRDB(device, CommandFor("READ", t))
      BY <3>4 DEF FromRDB, Cached, DeviceAccepts, ServedByRDB, InRDB, Cacheable, CommandFor, Command,
                  ColumnAccesses
    <3>8. CASE q = QueueFor(t)
      BY <2>6, <3>5, <3>6, <3>7, <3>8 DEF OnlyFromRDB
    <3>9. CASE q # QueueFor(t)
      BY <2>5, <3>2, <3>9 DEF WakesInv, WakesMatch
    <3>10. QED
      BY <3>8, <3>9
  <2>8. WakesMatch(device', Left(queues(t), issued'), Asleep', Waiting \ {t}, CyclesLeft')
    <3>1. Waiting \ {t} \in SUBSET Transaction
      BY <1>1
    <3>2. QED
      BY <1>1, <2>1, <2>3, <2>4, <2>7, <3>1, HandlerKeepsWakes
  <2>9. Waiting' = Waiting \ {t}
    BY <1>1, <2>1, <2>2, RemovalKeepsOrder
  <2>10. QED
    BY <1>1, <2>1, <2>8, <2>9, WakesStand
<1>5. QED
  BY <1>3, <1>4

LEMMA CallbackKeepsWakes ==
  ASSUME TypesOK, WakesInv, CommandQueueCallback
  PROVE  WakesInv'
<1>1. /\ cycles = 0 /\ wakeLater' = (wakeLater \/ NextIssuable(commandQueues))
      /\ UNCHANGED <<p, transactionQueues, commandQueues>>
      /\ CycleCommandQueues(commandQueues, Waiting, FALSE)
  BY DEF CommandQueueCallback
<1>2. NoQueue \notin Queue /\ issued \in Queue \cup {NoQueue} /\ commandQueues \in CommandQueues
  BY Configured DEF TypesOK, QueuesOK
<1>3. \A r \in Queue : issued = r => commandQueues[r] # <<>>
  BY <1>2 DEF TypesOK, QueuesOK
<1>4. ASSUME Asleep', NEW q \in Queue
      PROVE  OnlyFromRDB(device, Left(commandQueues, issued)[q])
  <2>1. ~ p.PerSubArrayQueues /\ ~ NextIssuable(commandQueues)
    BY <1>1, <1>4 DEF Asleep
  <2>2. PICK b \in Bank : q = QueueOf(b, FirstSubArray)
    BY <2>1 DEF Queue, QueueOf
  <2>3. commandQueues[q] = <<>>
    BY <2>1, <2>2 DEF NextIssuable
  <2>4. Left(commandQueues, issued)[q] = <<>>
    BY <1>3, <2>3 DEF Left
  <2>5. QED
    BY <2>4 DEF OnlyFromRDB
<1>5. \A t \in Waiting : Left(commandQueues, issued)[QueueFor(t)] = <<>> => cyclesNext > 0
  BY <1>1 DEF WakesInv, WakesMatch, CyclesLeft
<1>6. WakesMatch(device', Left(commandQueues, issued'), Asleep', Waiting, CyclesLeft')
  <2>1. Waiting \in SUBSET Transaction
    BY WaitingIsTyped
  <2>2. QED
    BY <1>1, <1>2, <1>3, <1>4, <1>5, <2>1, HandlerKeepsWakes
<1>7. Waiting' = Waiting
  BY <1>1, SameParameters DEF Waiting, In
<1>8. QED
  BY <1>1, <1>6, <1>7, WakesStand

LEMMA RefreshKeepsWakes ==
  ASSUME TypesOK, WakesInv, NEW j \in Bank, RefreshCallback(j)
  PROVE  WakesInv'
<1>1. early /\ UNCHANGED <<p, transactionQueues, issued, cycles, cyclesNext, wake, device>>
  BY DEF RefreshCallback
<1>2. issued = NoQueue /\ NoQueue \notin Queue
  BY <1>1, Configured DEF TypesOK, QueuesOK
<1>3. Waiting' = Waiting /\ (CyclesLeft' <=> CyclesLeft)
  BY <1>1, SameParameters DEF Waiting, In, CyclesLeft
<1>4. CASE ~ NeedRefresh(delayedRefreshCounter[j] + 1)
  <2>1. UNCHANGED <<commandQueues, wakeLater>>
    BY <1>4 DEF RefreshCallback
  <2>2. Asleep' <=> Asleep
    BY <1>1, <2>1 DEF Asleep
  <2>3. WakesMatch(device', Left(commandQueues', issued'), Asleep', Waiting', CyclesLeft')
    BY <1>1, <1>3, <2>1, <2>2 DEF WakesInv, WakesMatch
  <2>4. QED
    BY <1>1, <2>3, WakesStand
<1>5. CASE NeedRefresh(delayedRefreshCounter[j] + 1)
  <2>1. WithRefresh(j) /\ wakeLater' = TRUE
    BY <1>5 DEF RefreshCallback
  <2>2. ~ Asleep'
    BY <2>1 DEF Asleep
  <2>3. ASSUME NEW t \in Waiting', Left(commandQueues', issued')[QueueFor(t)] = <<>>
        PROVE  CyclesLeft'
    <3> DEFINE q == QueueFor(t)
    <3>1. q \in Queue
      BY <1>3, WaitingIsTyped, Configured DEF TypesOK
    <3> HIDE DEF q
    <3>2. /\ Left(commandQueues, issued)[q] = commandQueues[q]
          /\ Left(commandQueues', issued')[q] = commandQueues'[q]
          /\ commandQueues[q] \in Seq(CommandType)
      BY <1>1, <1>2, <3>1 DEF Left, TypesOK, QueuesOK, CommandQueues
    <3>3. RefreshFor(j, q) \in Seq(CommandType) /\ commandQueues'[q] = commandQueues[q] \o RefreshFor(j, q)
      BY <2>1, <3>1, RefreshIsTyped
    <3>4. commandQueues'[q] = <<>>
      BY <2>3, <3>2 DEF q
    <3> DEFINE r == RefreshFor(j, q)
               s == commandQueues[q]
    <3> HIDE DEF r, s
    <3>5. s \in Seq(CommandType) /\ r \in Seq(CommandType) /\ s \o r = <<>>
      BY <3>2, <3>3, <3>4 DEF r, s
    <3>6. s = <<>>
      <4>1. Len(s \o r) = Len(s) + Len(r) /\ Len(s) \in Nat /\ Len(r) \in Nat /\ s \o r \in Seq(CommandType)
        BY <3>5, ConcatProperties, LenProperties
      <4>2. Len(s \o r) = 0
        BY <3>5, <4>1, EmptySeq
      <4>3. Len(s) = 0
        BY <4>1, <4>2
      <4>4. QED
        BY <3>5, <4>3, EmptySeq
    <3>7. QED
      BY <1>3, <3>2, <3>6 DEF WakesInv, WakesMatch, q, s
  <2>4. WakesMatch(device', Left(commandQueues', issued'), Asleep', Waiting', CyclesLeft')
    BY <2>2, <2>3 DEF WakesMatch
  <2>5. QED
    BY <1>1, <2>4, WakesStand
<1>6. QED
  BY <1>4, <1>5

LEMMA ResponseKeepsWakes ==
  ASSUME TypesOK, WakesInv, NEW at \in Place, RequestComplete(at)
  PROVE  WakesInv'
<1>1. /\ device' = [device EXCEPT !.rows[at] = Settled(@)]
      /\ UNCHANGED <<p, transactionQueues, commandQueues, issued, cycles, cyclesNext, wake, wakeLater>>
  BY DEF RequestComplete
<1>2. device'.buffers = device.buffers
  BY <1>1, SettledRows DEF TypesOK
<1>3. \A q \in Queue : OnlyFromRDB(device, Left(commandQueues, issued)[q])
                         => OnlyFromRDB(device', Left(commandQueues, issued)[q])
  BY <1>2 DEF OnlyFromRDB, ServedByRDB, InRDB
<1>4. Waiting' = Waiting /\ (CyclesLeft' <=> CyclesLeft) /\ (Asleep' <=> Asleep)
  BY <1>1, SameParameters DEF Waiting, In, CyclesLeft, Asleep
<1>5. WakesMatch(device', Left(commandQueues', issued'), Asleep', Waiting', CyclesLeft')
  BY <1>1, <1>3, <1>4 DEF WakesInv, WakesMatch
<1>6. QED
  BY <1>1, <1>5, WakesStand

LEMMA NextCycleKeepsWakes ==
  ASSUME TypesOK, WakesInv, NEW due \in BOOLEAN, NextCycle(due)
  PROVE  WakesInv'
<1>1. /\ cycles = 0 /\ ~ wake
      /\ commandQueues' = [q \in Queue |-> Unissued(q)] /\ issued' = NoQueue
      /\ cycles' = cyclesNext /\ wake' = due /\ (~ due => wakeLater' = wakeLater)
      /\ UNCHANGED <<p, transactionQueues, device>>
  BY DEF NextCycle
<1>2. NoQueue \notin Queue
  BY Configured DEF TypesOK
<1>3. Left(commandQueues', issued') = Left(commandQueues, issued)
  <2>1. \A q \in Queue : Left(commandQueues', issued')[q] = Left(commandQueues, issued)[q]
    BY <1>1, <1>2, UnissuedIsLeft DEF Left
  <2>2. QED
    BY <2>1 DEF Left
<1>4. Asleep' => Asleep
  BY <1>1 DEF Asleep
<1>5. CyclesLeft => CyclesLeft'
  BY <1>1 DEF CyclesLeft
<1>6. Waiting' = Waiting
  BY <1>1, SameParameters DEF Waiting, In
<1>7. WakesMatch(device', Left(commandQueues', issued'), Asleep', Waiting', CyclesLeft')
  BY <1>1, <1>3, <1>4, <1>5, <1>6 DEF WakesInv, WakesMatch
<1>8. QED
  BY <1>1, <1>7, WakesStand
-----------------------------------------------------------------------------
(* The invariant.                                                          *)

\* Whatever leaves these queues alone leaves their order alone.
LEMMA OrderStands ==
  ASSUME TypesOK, OrderInv, UNCHANGED <<p, transactionQueues>>, arrivedNow' \in {{}, arrivedNow}
  PROVE  OrderInv' /\ Waiting' = Waiting
<1>1. QueueNumber' = QueueNumber /\ (Scheduler("FCFS")' <=> Scheduler("FCFS"))
  BY SameParameters
<1>2. QED
  BY <1>1 DEF OrderInv, WaitsOnce, YoungestLast, Waiting, In

LEMMA InitIsFine ==
  ASSUME Init
  PROVE  IInv
<1>1. /\ p \in Configurations
      /\ transactionQueues = [n \in QueueNumber |-> <<>>] /\ arrivedNow = {}
      /\ issued = NoQueue /\ cycles = 0 /\ cyclesNext = 0 /\ wake = FALSE /\ wakeLater = FALSE
      /\ delayedRefreshCounter = [b \in Bank |-> 0] /\ refreshHandled = FALSE /\ pulses = 0
      /\ commandQueues = [q \in Queue |-> <<>>]
      /\ refreshQueued = [b \in Bank |-> FALSE] /\ early = TRUE /\ device = InitDevice /\ burst = FALSE
      /\ m_draining = FALSE /\ force_drain = FALSE
  BY DEF Init, InitController, NothingToDo, NoRefreshes, WQF_Init
<1>2. /\ p.DelayedRefreshThreshold \in Nat \ {0} /\ p.rowBuffers \in Nat /\ NoQueue \notin Queue
      /\ \A b \in Bank : QueueOf(b, FirstSubArray) \in Queue
  BY <1>1, Configured
<1>3. TransactionsOK /\ QueuesOK /\ EventsOK /\ DrainsOK
  <2>1. <<>> \in Seq(Transaction) /\ <<>> \in Seq(CommandType)
    OBVIOUS
  <2>2. TransactionsOK
    BY <1>1, <2>1 DEF TransactionsOK
  <2>3. QueuesOK
    BY <1>1, <1>2, <2>1 DEF QueuesOK, CommandQueues
  <2>4. EventsOK
    <3>1. cycles \in 0 .. 2 /\ cyclesNext \in 0 .. 2 /\ cyclesNext < 2
      BY <1>1
    <3>2. early \in BOOLEAN /\ wake \in BOOLEAN /\ wakeLater \in BOOLEAN /\ burst \in BOOLEAN
      BY <1>1, Zenon
    <3>3. QED
      BY <3>1, <3>2 DEF EventsOK
  <2>5. QED
    BY <1>1, <2>2, <2>3, <2>4 DEF DrainsOK
<1>4. RefreshOK
  <2>1. 0 \in 0 .. p.DelayedRefreshThreshold - 1
    BY <1>2
  <2>2. delayedRefreshCounter \in [Bank -> 0 .. p.DelayedRefreshThreshold - 1]
    BY <1>1, <2>1
  <2>3. QED
    BY <1>1, <2>2 DEF RefreshOK
<1>5. view \in ViewType
  <2>1. 0 \in 0 .. StarvationThreshold
    BY MemoryControllerAssumption
  <2>2. view = [activateQueued    |-> [b \in Bank |-> FALSE],
                activeSubArray    |-> [at \in Place |-> FALSE],
                effectiveRow      |-> [at \in Place |-> NoRow],
                starvationCounter |-> [at \in Place |-> 0]]
    BY DEF Init, InitController
  <2>3. QED
    BY <2>1, <2>2 DEF ViewType
<1>6. device \in DeviceType /\ BuffersFit(device)
  <2>1. InitRows \in RowsType
    <3>1. (CHOOSE r \in Row : TRUE) \in Row
      BY BankRowsAssumption
    <3>2. QED
      BY <3>1 DEF InitRows, RowsType
  <2>2. device.rows = InitRows /\ device.buffers = [b \in Bank |-> <<>>]
        /\ device = [rows |-> device.rows, buffers |-> device.buffers]
    BY <1>1 DEF InitDevice
  <2>3. \A b \in Bank : device.buffers[b] \in Seq(Row) /\ Len(device.buffers[b]) = 0
    BY <2>2
  <2>4. device \in DeviceType
    <3>1. device.buffers \in [Bank -> Seq(Row)]
      BY <2>2, <2>3
    <3>2. QED
      BY <2>1, <2>2, <3>1 DEF DeviceType
  <2>5. QED
    BY <1>2, <2>3, <2>4 DEF BuffersFit
<1>7. TypesOK
  BY <1>1, <1>3, <1>4, <1>5, <1>6 DEF TypesOK
<1>8. Waiting = {} /\ OrderInv
  <2>1. \A n \in QueueNumber : DOMAIN transactionQueues[n] = {}
    BY <1>1
  <2>2. \A n \in QueueNumber : ToSet(transactionQueues[n]) = {}
    BY <2>1 DEF ToSet
  <2>3. Waiting = {}
    BY <2>2 DEF Waiting, In
  <2>4. OrderInv
    BY <1>1, <2>1, <2>2 DEF OrderInv, WaitsOnce, YoungestLast
  <2>5. QED
    BY <2>3, <2>4
<1>9. \A q \in Queue : Left(commandQueues, issued)[q] = <<>>
  BY <1>1, <1>2 DEF Left
<1>10. RefreshInv
  <2>1. \A b \in Bank : QueueOf(GroupHead(b), FirstSubArray) \in Queue
    BY <1>2, HeadIsBank
  <2>2. QED
    BY <1>1, <1>9, <2>1 DEF RefreshInv, RefreshesMatch, FlagsMatch, HasRefresh, OneRefresh
<1>11. WakesInv
  BY <1>8, <1>9 DEF WakesInv, WakesMatch, OnlyFromRDB
<1>12. QED
  BY <1>7, <1>8, <1>10, <1>11 DEF IInv

LEMMA UnchangedKeepsInv ==
  ASSUME IInv, UNCHANGED vars, DrainsOK'
  PROVE  IInv'
<1>1. UNCHANGED <<p, transactionQueues, arrivedNow, commandQueues, issued, view, early, cycles, cyclesNext,
                  wake, wakeLater, device, burst, delayedRefreshCounter, refreshQueued, refreshHandled, pulses>>
  BY DEF vars, refreshVars
<1>2. Queue' = Queue /\ QueueNumber' = QueueNumber /\ CommandQueues' = CommandQueues
  BY <1>1, SameParameters
<1>3. TypesOK'
  <2>1. TransactionsOK' /\ QueuesOK'
    BY <1>1, <1>2 DEF IInv, TypesOK, TransactionsOK, QueuesOK
  <2>2. RefreshOK' /\ EventsOK'
    BY <1>1 DEF IInv, TypesOK, RefreshOK, EventsOK
  <2>3. QED
    BY <1>1, <2>1, <2>2 DEF IInv, TypesOK, BuffersFit
<1>4. OrderInv' /\ Waiting' = Waiting
  BY <1>1, OrderStands DEF IInv
<1>5. RefreshInv'
  BY <1>1, RefreshesStand DEF IInv, RefreshInv
<1>6. WakesInv'
  <2>1. (Asleep' <=> Asleep) /\ (CyclesLeft' <=> CyclesLeft)
    BY <1>1 DEF Asleep, CyclesLeft
  <2>2. WakesMatch(device', Left(commandQueues', issued'), Asleep', Waiting', CyclesLeft')
    BY <1>1, <1>4, <2>1 DEF IInv, WakesInv, WakesMatch
  <2>3. QED
    BY <1>1, <2>2, WakesStand
<1>7. QED
  BY <1>3, <1>4, <1>5, <1>6 DEF IInv

\* The transaction that is scheduled is the only one that leaves.
LEMMA SchedulingKeepsOrder ==
  ASSUME TypesOK, OrderInv, NEW n \in QueueNumber, NEW next \in SUBSET Waiting, Schedules(n, next)
  PROVE  OrderInv' /\ (Waiting' = Waiting \/ \E t \in next : IsFound(n, t) /\ Waiting' = Waiting \ {t})
<1>1. UNCHANGED <<p, arrivedNow>> /\ \A t \in next : IsFound(n, t)
  BY DEF Schedules, CycleWith
<1>2. CASE next = {}
  <2>1. UNCHANGED transactionQueues
    BY <1>2 DEF Schedules, CycleWith
  <2>2. QED
    BY <1>1, <2>1, OrderStands
<1>3. CASE next # {}
  <2>1. PICK t \in next : transactionQueues' = [m \in QueueNumber |-> Without(transactionQueues[m], t)]
    BY <1>3 DEF Schedules, CycleWith
  <2>2. OrderInv' /\ Waiting' = Waiting \ {t}
    BY <1>1, <2>1, RemovalKeepsOrder
  <2>3. QED
    BY <1>1, <2>2
<1>4. QED
  BY <1>2, <1>3

LEMMA NextKeepsInv ==
  ASSUME IInv, [Next]_allVars
  PROVE  IInv'
<1>1. TypesOK /\ OrderInv /\ RefreshInv /\ WakesInv
  BY DEF IInv
<1>2. DrainsOK'
  BY <1>1, ControllerSteps
<1>3. ASSUME NEW n \in QueueNumber, NEW t \in Transaction, Arrives(n, t)
      PROVE  IInv'
  <2>1. TypesOK'
    BY <1>1, <1>2, <1>3, ArrivalKeepsTypes
  <2>2. OrderInv'
    BY <1>1, <1>3, ArrivalKeepsOrder
  <2>3. RefreshInv'
    BY <1>1, <1>3, RefreshesStand DEF Arrives, Enqueue, refreshVars, RefreshInv
  <2>4. WakesInv'
    BY <1>1, <1>3, ArrivalKeepsWakes
  <2>5. QED
    BY <2>1, <2>2, <2>3, <2>4 DEF IInv
<1>4. ASSUME NEW n \in QueueNumber, NEW next \in SUBSET Waiting, Schedules(n, next)
      PROVE  IInv'
  <2>1. TypesOK'
    BY <1>1, <1>2, <1>4, SchedulingKeepsTypes DEF OrderInv
  <2>2. OrderInv'
    BY <1>1, <1>4, SchedulingKeepsOrder
  <2>3. RefreshInv'
    BY <1>1, <1>4, SchedulingKeepsRefreshes
  <2>4. WakesInv'
    BY <1>1, <1>4, SchedulingKeepsWakes
  <2>5. QED
    BY <2>1, <2>2, <2>3, <2>4 DEF IInv
<1>5. ASSUME CommandQueueCallback
      PROVE  IInv'
  <2>1. TypesOK'
    BY <1>1, <1>2, <1>5, CallbackKeepsTypes
  <2>2. OrderInv'
    BY <1>1, <1>5, OrderStands DEF CommandQueueCallback
  <2>3. RefreshInv'
    BY <1>1, <1>5, CallbackKeepsRefreshes
  <2>4. WakesInv'
    BY <1>1, <1>5, CallbackKeepsWakes
  <2>5. QED
    BY <2>1, <2>2, <2>3, <2>4 DEF IInv
<1>6. ASSUME NEW j \in Bank, RefreshCallback(j)
      PROVE  IInv'
  <2>1. TypesOK'
    BY <1>1, <1>2, <1>6, RefreshKeepsTypes
  <2>2. OrderInv'
    BY <1>1, <1>6, OrderStands DEF RefreshCallback
  <2>3. RefreshInv'
    BY <1>1, <1>6, RefreshKeepsRefreshes
  <2>4. WakesInv'
    BY <1>1, <1>6, RefreshKeepsWakes
  <2>5. QED
    BY <2>1, <2>2, <2>3, <2>4 DEF IInv
<1>7. ASSUME NEW at \in Place, RequestComplete(at)
      PROVE  IInv'
  <2>1. TypesOK'
    BY <1>1, <1>2, <1>7, ResponseKeepsTypes
  <2>2. OrderInv'
    BY <1>1, <1>7, OrderStands DEF RequestComplete
  <2>3. RefreshInv'
    BY <1>1, <1>7, RefreshesStand DEF RequestComplete, refreshVars, RefreshInv
  <2>4. WakesInv'
    BY <1>1, <1>7, ResponseKeepsWakes
  <2>5. QED
    BY <2>1, <2>2, <2>3, <2>4 DEF IInv
<1>8. ASSUME NEW due \in BOOLEAN, NextCycle(due)
      PROVE  IInv'
  <2>1. TypesOK'
    BY <1>1, <1>2, <1>8, NextCycleKeepsTypes
  <2>2. OrderInv'
    BY <1>1, <1>8, OrderStands DEF NextCycle
  <2>3. RefreshInv'
    BY <1>1, <1>8, NextCycleKeepsRefreshes
  <2>4. WakesInv'
    BY <1>1, <1>8, NextCycleKeepsWakes
  <2>5. QED
    BY <2>1, <2>2, <2>3, <2>4 DEF IInv
<1>9. CASE UNCHANGED vars
  BY <1>2, <1>9, UnchangedKeepsInv
<1>10. QED
  BY <1>1, <1>3, <1>4, <1>5, <1>6, <1>7, <1>8, <1>9, ControllerSteps

LEMMA AlwaysIInv == Spec => []IInv
BY InitIsFine, NextKeepsInv, PTL DEF Spec
-----------------------------------------------------------------------------
(* Carrying out the commands of a queue, one after the other.              *)

\* A device with no response under way, and what a command makes of it.
IsSettled(dev) ==
  /\ dev \in DeviceType /\ BuffersFit(dev)
  /\ \A at \in Place : dev.rows[at].state \in {"CLOSED", "OPEN"}
Step(dev, cmd) == Settle(DeviceAfter(dev, cmd))
IsRun(run, first, cmds) ==
  /\ run = [i \in 0 .. Len(cmds) |-> run[i]]
  /\ run[0] = first
  /\ \A i \in 1 .. Len(cmds) : run[i] = Step(run[i - 1], cmds[i])

LEMMA LeastExists ==
  ASSUME NEW T \in SUBSET Nat, T # {}
  PROVE  \E x \in T : \A y \in T : x <= y
<1> DEFINE R == OpToRel(<, Nat)
<1>1. IsWellFoundedOn(R, Nat)
  BY NatLessThanWellFounded
<1>2. \A x, y \in T : <<y, x>> \in R <=> y < x
  BY DEF OpToRel
<1> HIDE DEF R
<1>3. PICK x \in T : \A y \in T : ~ (<<y, x>> \in R)
  BY <1>1, WFMin
<1>4. \A y \in T : ~ y < x
  BY <1>2, <1>3
<1> QED
  BY <1>4

RowType == [state : {"CLOSED", "OPEN", "CLOSING", "REFRESHING"}, row : Row \cup {NoRow}]

\* Settling, place by place.
LEMMA SettleFacts ==
  ASSUME NEW dev \in DeviceType
  PROVE  /\ Settle(dev) \in DeviceType
         /\ Settle(dev).buffers = dev.buffers
         /\ \A at \in Place : /\ Settle(dev).rows[at] = Settled(dev.rows[at])
                              /\ Settle(dev).rows[at].state \in {"CLOSED", "OPEN"}
                              /\ dev.rows[at] \in RowType
                              /\ dev.rows[at].state \in {"CLOSED", "OPEN"} =>
                                   Settle(dev).rows[at] = dev.rows[at]
         /\ BuffersFit(dev) => IsSettled(Settle(dev))
<1>1. \A k \in RowType : /\ Settled(k) \in RowType /\ Settled(k).state \in {"CLOSED", "OPEN"}
                         /\ k.state \in {"CLOSED", "OPEN"} => Settled(k) = k
  BY DEF Settled, RowType
<1>2. dev.rows \in [Place -> RowType] /\ dev = [rows |-> dev.rows, buffers |-> dev.buffers]
      /\ dev.buffers \in [Bank -> Seq(Row)]
  BY DEF DeviceType, RowsType, RowType
<1>3. AllSettled(dev.rows) \in [Place -> RowType]
      /\ \A at \in Place : AllSettled(dev.rows)[at] = Settled(dev.rows[at])
  BY <1>1, <1>2 DEF AllSettled
<1>4. Settle(dev) = [rows |-> AllSettled(dev.rows), buffers |-> dev.buffers]
  BY <1>2 DEF Settle
<1>5. Settle(dev) \in DeviceType
  BY <1>2, <1>3, <1>4 DEF DeviceType, RowsType, RowType
<1>6. Settle(dev).rows = AllSettled(dev.rows) /\ Settle(dev).buffers = dev.buffers
  BY <1>4
<1>7. BuffersFit(dev) => BuffersFit(Settle(dev))
  BY <1>6 DEF BuffersFit
<1>8. \A at \in Place : /\ Settle(dev).rows[at] = Settled(dev.rows[at])
                        /\ Settle(dev).rows[at].state \in {"CLOSED", "OPEN"}
                        /\ dev.rows[at] \in RowType
                        /\ dev.rows[at].state \in {"CLOSED", "OPEN"} =>
                             Settle(dev).rows[at] = dev.rows[at]
  BY <1>1, <1>2, <1>3, <1>6
<1>9. QED
  BY <1>5, <1>6, <1>7, <1>8 DEF IsSettled

LEMMA StepIsSettled ==
  ASSUME p \in Configurations, NEW dev, IsSettled(dev), NEW cmd \in CommandType
  PROVE  IsSettled(Step(dev, cmd))
BY DevicesAreTyped, SettleFacts DEF IsSettled, Step

\* The device of the run up to some command is settled: there is no first that is not.
LEMMA RunIsSettled ==
  ASSUME p \in Configurations, NEW first, IsSettled(first), NEW cmds \in Seq(CommandType),
         NEW run, IsRun(run, first, cmds)
  PROVE  \A i \in 0 .. Len(cmds) : IsSettled(run[i])
<1> DEFINE T == {i \in 0 .. Len(cmds) : ~ IsSettled(run[i])}
<1>1. Len(cmds) \in Nat /\ \A i \in 1 .. Len(cmds) : cmds[i] \in CommandType
  BY LenProperties, ElementOfSeq
<1> SUFFICES ASSUME T # {}
             PROVE  FALSE
  OBVIOUS
<1>2. PICK x \in T : \A y \in T : x <= y
  <2>1. T \in SUBSET Nat
    BY <1>1
  <2> HIDE DEF T
  <2>2. QED
    BY <2>1, LeastExists
<1>3. x # 0
  BY <1>2 DEF IsRun
<1>4. x - 1 \in 0 .. Len(cmds) /\ x \in 1 .. Len(cmds) /\ x - 1 \notin T
  BY <1>1, <1>2, <1>3
<1>5. IsSettled(run[x - 1]) /\ run[x] = Step(run[x - 1], cmds[x])
  BY <1>4 DEF IsRun
<1>6. IsSettled(run[x])
  BY <1>1, <1>4, <1>5, StepIsSettled
<1>7. QED
  BY <1>2, <1>6

LEMMA RunsExist ==
  ASSUME p \in Configurations, NEW first, NEW cmds \in Seq(CommandType)
  PROVE  \E run : IsRun(run, first, cmds)
<1> DEFINE IsPart(f, n) == /\ f = [i \in 0 .. n |-> f[i]] /\ f[0] = first
                           /\ \A i \in 1 .. n : f[i] = Step(f[i - 1], cmds[i])
           T == {n \in 0 .. Len(cmds) : ~ \E f : IsPart(f, n)}
<1>1. Len(cmds) \in Nat
  BY LenProperties
<1>2. T = {}
  <2> SUFFICES ASSUME T # {}
               PROVE  FALSE
    OBVIOUS
  <2>1. PICK x \in T : \A y \in T : x <= y
    <3>1. T \in SUBSET Nat
      BY <1>1
    <3> HIDE DEF T
    <3>2. QED
      BY <3>1, LeastExists
  <2>2. x # 0
    <3>1. IsPart([i \in 0 .. 0 |-> first], 0)
      OBVIOUS
    <3>2. QED
      BY <2>1, <3>1
  <2>3. x - 1 \in 0 .. Len(cmds) /\ x \in 1 .. Len(cmds) /\ x - 1 \notin T
    BY <1>1, <2>1, <2>2
  <2>4. PICK f : IsPart(f, x - 1)
    BY <2>3
  <2> DEFINE g == [i \in 0 .. x |-> IF i = x THEN Step(f[x - 1], cmds[x]) ELSE f[i]]
  <2>5. \A i \in 0 .. x : g[i] = IF i = x THEN Step(f[x - 1], cmds[x]) ELSE f[i]
    OBVIOUS
  <2>6. g = [i \in 0 .. x |-> g[i]]
    OBVIOUS
  <2> HIDE DEF g
  <2>7. \A i \in 1 .. x : g[i] = Step(g[i - 1], cmds[i])
    <3> SUFFICES ASSUME NEW i \in 1 .. x
                 PROVE  g[i] = Step(g[i - 1], cmds[i])
      OBVIOUS
    <3>1. x \in Nat /\ i - 1 \in 0 .. x /\ i - 1 # x /\ i \in 0 .. x
      BY <2>3
    <3>2. g[i - 1] = f[i - 1]
      BY <2>5, <3>1
    <3>3. CASE i = x
      BY <2>5, <3>1, <3>2, <3>3
    <3>4. CASE i # x
      <4>1. i \in 1 .. x - 1
        BY <2>3, <3>1, <3>4
      <4>2. QED
        BY <2>4, <2>5, <3>1, <3>2, <3>4, <4>1
    <3>5. QED
      BY <3>3, <3>4
  <2>8. g[0] = first
    <3>1. 0 \in 0 .. x /\ 0 # x
      BY <2>2, <2>3
    <3>2. QED
      BY <2>4, <2>5, <3>1
  <2>9. IsPart(g, x)
    BY <2>6, <2>7, <2>8
  <2>10. QED
    BY <2>1, <2>9
<1>3. \E f : IsPart(f, Len(cmds))
  <2> HIDE DEF IsPart
  <2>1. Len(cmds) \in 0 .. Len(cmds)
    BY <1>1
  <2>2. QED
    BY <1>2, <2>1
<1>4. QED
  BY <1>3 DEF IsRun

\* So the recursive function of CarriedOut is a run.
LEMMA CarriedOutIsARun ==
  ASSUME p \in Configurations, NEW cmds \in Seq(CommandType)
  PROVE  IsRun(CarriedOut(cmds), Settle(device), cmds)
<1> DEFINE IsIt(run) == run = [i \in 0 .. Len(cmds) |->
                           IF i = 0 THEN Settle(device) ELSE Settle(DeviceAfter(run[i - 1], cmds[i]))]
<1>1. Len(cmds) \in Nat
  BY LenProperties
<1>2. PICK f : IsRun(f, Settle(device), cmds)
  BY RunsExist
<1>3. IsIt(f)
  <2>1. \A i \in 0 .. Len(cmds) :
          f[i] = IF i = 0 THEN Settle(device) ELSE Settle(DeviceAfter(f[i - 1], cmds[i]))
    <3> SUFFICES ASSUME NEW i \in 0 .. Len(cmds)
                 PROVE  f[i] = IF i = 0 THEN Settle(device) ELSE Settle(DeviceAfter(f[i - 1], cmds[i]))
      OBVIOUS
    <3>1. i # 0 => i \in 1 .. Len(cmds)
      BY <1>1
    <3>2. QED
      BY <1>2, <3>1 DEF IsRun, Step
  <2>2. f = [i \in 0 .. Len(cmds) |-> f[i]]
    BY <1>2 DEF IsRun
  <2>3. QED
    BY <2>1, <2>2
<1>4. CarriedOut(cmds) = CHOOSE run : IsIt(run)
  BY DEF CarriedOut
<1>5. IsIt(CarriedOut(cmds))
  BY <1>3, <1>4
<1> DEFINE g == CarriedOut(cmds)
<1> HIDE DEF g
<1>6. IsIt(g)
  BY <1>5 DEF g
<1>7. \A i \in 0 .. Len(cmds) :
        g[i] = IF i = 0 THEN Settle(device) ELSE Settle(DeviceAfter(g[i - 1], cmds[i]))
  BY <1>6
<1>8. g = [i \in 0 .. Len(cmds) |-> g[i]]
  BY <1>6, <1>7
<1>9. g[0] = Settle(device) /\ \A i \in 1 .. Len(cmds) : g[i] = Step(g[i - 1], cmds[i])
  BY <1>1, <1>7 DEF Step
<1>10. QED
  BY <1>8, <1>9 DEF IsRun, g
-----------------------------------------------------------------------------
(* What a command makes of the subarrays of its bank and of others.        *)

\* The commands that are queued for a bank.
IsFor(b, cmd) ==
  /\ cmd \in CommandType /\ cmd.bank = b
  /\ cmd.type \in {"PRECHARGE", "PRECHARGE_ALL", "READ_PRECHARGE"} => UsePrecharge
  /\ cmd.type = "READ_PRECHARGE" => p.rowBuffers = 0
  /\ cmd.type = "REFRESH" => GroupHead(b) = b

\* What becomes of a settled subarray of the bank of a command the subarrays get.
ClosedRow == [state |-> "CLOSED", row |-> NoRow]
Outcome(at, cmd, s) ==
  IF cmd.type = "ACTIVATE" /\ s = cmd.sub THEN [state |-> "OPEN", row |-> cmd.row]
  ELSE IF \/ cmd.type \in {"READ_PRECHARGE", "PRECHARGE"} /\ s = cmd.sub
          \/ cmd.type = "PRECHARGE_ALL" /\ at.state = "OPEN"
          \/ cmd.type = "REFRESH" /\ s = FirstSubArray /\ UsePrecharge
       THEN ClosedRow
  ELSE IF cmd.type = "REFRESH" /\ s = FirstSubArray THEN [at EXCEPT !.state = "OPEN"]
  ELSE at

LEMMA AfterAt ==
  ASSUME NEW dev \in DeviceType, NEW cmd \in CommandType, NEW at \in Place
  PROVE  DeviceAfter(dev, cmd).rows[at] =
           IF ~ ServedByRDB(dev, cmd) /\ at \in Touched(dev.rows, cmd)
           THEN Becomes(dev.rows[at], cmd) ELSE dev.rows[at]
BY DEF DeviceAfter, After, DeviceType

\* The copies of a bank decide alone what a command makes of them.
LEMMA CopiesOfABank ==
  ASSUME NEW one \in DeviceType, NEW other \in DeviceType, NEW cmd \in CommandType
  PROVE  /\ \A c \in Bank \ {cmd.bank} : DeviceAfter(one, cmd).buffers[c] = one.buffers[c]
         /\ one.buffers[cmd.bank] = other.buffers[cmd.bank] =>
              /\ ServedByRDB(one, cmd) <=> ServedByRDB(other, cmd)
              /\ DeviceAfter(one, cmd).buffers[cmd.bank] = DeviceAfter(other, cmd).buffers[cmd.bank]
<1>1. cmd.bank \in Bank
  BY DEF CommandType
<1>2. \A dev \in DeviceType : dev.buffers \in [Bank -> Seq(Row)]
  BY DEF DeviceType
<1>3. \A dev \in DeviceType :
        DeviceAfter(dev, cmd).buffers =
          IF ServedByRDB(dev, cmd)
          THEN [dev.buffers EXCEPT ![cmd.bank] = MovedToFront(dev.buffers[cmd.bank], cmd.row)]
          ELSE IF cmd.type = "ACTIVATE"
          THEN [dev.buffers EXCEPT ![cmd.bank] = Allocated(dev.buffers[cmd.bank], cmd.row)]
          ELSE dev.buffers
  BY DEF DeviceAfter, DeviceType
<1>4. one.buffers[cmd.bank] = other.buffers[cmd.bank] =>
        (ServedByRDB(one, cmd) <=> ServedByRDB(other, cmd))
  BY DEF ServedByRDB, InRDB
<1>5. \A dev \in DeviceType, c \in Bank :
        DeviceAfter(dev, cmd).buffers[c] =
          IF c # cmd.bank THEN dev.buffers[c]
          ELSE IF ServedByRDB(dev, cmd) THEN MovedToFront(dev.buffers[c], cmd.row)
          ELSE IF cmd.type = "ACTIVATE" THEN Allocated(dev.buffers[c], cmd.row)
          ELSE dev.buffers[c]
  <2> SUFFICES ASSUME NEW dev \in DeviceType, NEW c \in Bank
               PROVE  DeviceAfter(dev, cmd).buffers[c] =
                        IF c # cmd.bank THEN dev.buffers[c]
                        ELSE IF ServedByRDB(dev, cmd) THEN MovedToFront(dev.buffers[c], cmd.row)
                        ELSE IF cmd.type = "ACTIVATE" THEN Allocated(dev.buffers[c], cmd.row)
                        ELSE dev.buffers[c]
    OBVIOUS
  <2>1. \A x : [dev.buffers EXCEPT ![cmd.bank] = x][c] = IF c = cmd.bank THEN x ELSE dev.buffers[c]
    BY <1>1, <1>2
  <2>2. CASE c = cmd.bank
    BY <1>3, <2>1, <2>2
  <2>3. CASE c # cmd.bank
    BY <1>3, <2>1, <2>3
  <2>4. QED
    BY <2>2, <2>3
<1>6. QED
  BY <1>1, <1>4, <1>5

LEMMA BankIsOfItsGroup ==
  ASSUME NEW b \in Bank
  PROVE  b \in Group(b)
BY DEF Group

\* What a command makes of the subarrays of its bank once the responses are back, be
\* they back before it or not: it is not accepted where one is still under way.
LEMMA StepAt ==
  ASSUME p \in Configurations, NEW dev \in DeviceType, NEW b \in Bank, NEW cmd, IsFor(b, cmd),
         IsSettled(dev) \/ DeviceAccepts(dev, cmd), NEW s \in SubArray
  PROVE  Step(dev, cmd).rows[<<b, s>>] =
           IF ServedByRDB(dev, cmd) THEN Settled(dev.rows[<<b, s>>])
           ELSE Outcome(Settled(dev.rows[<<b, s>>]), cmd, s)
<1> DEFINE at == <<b, s>>
           r == dev.rows[at]
<1>1. at \in Place /\ cmd \in CommandType /\ cmd.bank = b /\ UsePrecharge \in BOOLEAN
  BY Configured DEF IsFor, Place, UsePrecharge
<1>2. DeviceAfter(dev, cmd) \in DeviceType
  BY <1>1, DevicesAreTyped
<1>3. Step(dev, cmd).rows[at] = Settled(DeviceAfter(dev, cmd).rows[at])
  BY <1>1, <1>2, SettleFacts DEF Step
<1>4. r \in RowType
  BY <1>1, SettleFacts
<1>5. CASE ServedByRDB(dev, cmd)
  BY <1>1, <1>3, <1>5, AfterAt
<1>6. CASE ~ ServedByRDB(dev, cmd)
  <2>1. Step(dev, cmd).rows[at] =
          Settled(IF at \in Touched(dev.rows, cmd) THEN Becomes(r, cmd) ELSE r)
    BY <1>1, <1>3, <1>6, AfterAt
  <2>2. \A x : x \in {PlaceOf(cmd)} <=> x = <<b, cmd.sub>>
    BY <1>1 DEF PlaceOf
  <2> HIDE DEF r
  <2>3. CASE cmd.type = "ACTIVATE"
    <3>1. at \in Touched(dev.rows, cmd) <=> s = cmd.sub
      BY <2>2, <2>3 DEF Touched
    <3>2. Settled(Becomes(r, cmd)) = [state |-> "OPEN", row |-> cmd.row]
      BY <2>3 DEF Becomes, Settled
    <3>3. QED
      BY <1>6, <2>1, <2>3, <3>1, <3>2 DEF Outcome, r
  <2>4. CASE cmd.type = "READ"
    BY <1>6, <2>1, <2>4 DEF Becomes, Outcome, r
  <2>5. CASE cmd.type \in {"READ_PRECHARGE", "PRECHARGE"}
    <3>1. at \in Touched(dev.rows, cmd) <=> s = cmd.sub
      BY <2>2, <2>5 DEF Touched
    <3>2. Settled(Becomes(r, cmd)) = ClosedRow
      BY <1>4, <2>5 DEF Becomes, Settled, ClosedRow, RowType
    <3>3. QED
      BY <1>6, <2>1, <2>5, <3>1, <3>2 DEF Outcome, r
  <2>6. CASE cmd.type = "PRECHARGE_ALL"
    <3>1. at \in Touched(dev.rows, cmd) <=> r.state = "OPEN"
      BY <1>1, <2>6 DEF Touched, ActiveSubArrays, r
    <3>2. UsePrecharge
      BY <2>6 DEF IsFor
    <3>3. Settled(Becomes(r, cmd)) = ClosedRow
      BY <1>4, <2>6 DEF Becomes, Settled, ClosedRow, RowType
    <3>4. Settled(r).state = "OPEN" <=> r.state = "OPEN"
      BY <1>4, <3>2 DEF Settled, RowType
    <3>5. QED
      BY <1>6, <2>1, <2>6, <3>1, <3>3, <3>4 DEF Outcome, r
  <2>7. CASE cmd.type = "REFRESH"
    <3>1. at \in Touched(dev.rows, cmd) <=> s = FirstSubArray
      BY <1>1, <2>7, BankIsOfItsGroup DEF Touched
    <3>2. s = FirstSubArray => r.state \in {"CLOSED", "OPEN"}
      <4>1. CASE IsSettled(dev)
        BY <1>1, <4>1 DEF IsSettled, r
      <4>2. CASE DeviceAccepts(dev, cmd)
        <5>1. Accepts(dev.rows, cmd)
          BY <1>6, <4>2 DEF DeviceAccepts
        <5>2. QED
          BY <1>1, <2>7, <5>1, BankIsOfItsGroup DEF Accepts, r
      <4>3. QED
        BY <4>1, <4>2
    <3>3. r.state \in {"CLOSED", "OPEN"} =>
            /\ Settled(r) = r
            /\ Settled(Becomes(r, cmd)) = IF UsePrecharge THEN ClosedRow ELSE [r EXCEPT !.state = "OPEN"]
      BY <1>1, <1>4, <2>7 DEF Becomes, Settled, ClosedRow, RowType
    <3>4. QED
      BY <1>6, <2>1, <2>7, <3>1, <3>2, <3>3 DEF Outcome, r
  <2>8. cmd.type \in CommandKind
    BY <1>1 DEF CommandType
  <2>9. QED
    BY <2>3, <2>4, <2>5, <2>6, <2>7, <2>8 DEF CommandKind
<1>7. QED
  BY <1>5, <1>6

\* And of the subarrays of another bank: nothing, unless it refreshes both.
LEMMA StepElsewhere ==
  ASSUME p \in Configurations, NEW dev \in DeviceType, NEW cmd \in CommandType, DeviceAccepts(dev, cmd),
         NEW c \in Bank \ {cmd.bank}, NEW s \in SubArray
  PROVE  LET before == Settled(dev.rows[<<c, s>>])
             after == Step(dev, cmd).rows[<<c, s>>]
         IN  \/ after = before
             \/ /\ cmd.type = "REFRESH" /\ c \in Group(cmd.bank) /\ before.state = "CLOSED"
                /\ UsePrecharge => after.state = "CLOSED"
<1> DEFINE at == <<c, s>>
           r == dev.rows[at]
<1>1. at \in Place /\ UsePrecharge \in BOOLEAN
  BY Configured DEF Place, UsePrecharge
<1>2. DeviceAfter(dev, cmd) \in DeviceType
  BY DevicesAreTyped
<1>3. Step(dev, cmd).rows[at] = Settled(DeviceAfter(dev, cmd).rows[at])
  BY <1>1, <1>2, SettleFacts DEF Step
<1>4. r \in RowType
  BY <1>1, SettleFacts
<1>5. CASE ServedByRDB(dev, cmd) \/ at \notin Touched(dev.rows, cmd)
  BY <1>1, <1>3, <1>5, AfterAt
<1>6. CASE ~ ServedByRDB(dev, cmd) /\ at \in Touched(dev.rows, cmd)
  <2>1. cmd.type = "REFRESH" /\ c \in Group(cmd.bank) /\ s = FirstSubArray
    <3>1. at # PlaceOf(cmd) /\ at \notin {cmd.bank} \X ActiveSubArrays(dev.rows, cmd.bank)
      BY DEF PlaceOf
    <3>2. cmd.type = "REFRESH"
      BY <1>6, <3>1 DEF Touched
    <3>3. QED
      BY <1>6, <3>2 DEF Touched
  <2>2. r.state \in (IF UsePrecharge THEN {"CLOSED"} ELSE {"CLOSED", "OPEN"})
    <3>1. Accepts(dev.rows, cmd)
      BY <1>6 DEF DeviceAccepts
    <3>2. QED
      BY <2>1, <3>1 DEF Accepts
  <2>3. Step(dev, cmd).rows[at] = Settled(Becomes(r, cmd))
    BY <1>1, <1>3, <1>6, AfterAt
  <2> HIDE DEF r
  <2>4. CASE UsePrecharge
    <3>1. Settled(Becomes(r, cmd)).state = "CLOSED" /\ Settled(r).state = "CLOSED"
      BY <1>4, <2>1, <2>2, <2>4 DEF Becomes, Settled, RowType
    <3>2. QED
      BY <2>1, <2>3, <3>1 DEF r
  <2>5. CASE ~ UsePrecharge
    <3>1. /\ Settled(Becomes(r, cmd)) = [r EXCEPT !.state = "OPEN"] /\ Settled(r) = r
          /\ r.state = "OPEN" => [r EXCEPT !.state = "OPEN"] = r
      BY <1>4, <2>1, <2>2, <2>5 DEF Becomes, Settled, RowType
    <3>2. QED
      BY <2>1, <2>2, <2>3, <2>5, <3>1 DEF r
  <2>6. QED
    BY <1>1, <2>4, <2>5
<1>7. QED
  BY <1>5, <1>6
-----------------------------------------------------------------------------
(* Two devices that the commands of a bank cannot tell apart.              *)

\* Two devices that a queue of commands cannot tell apart, exactly or unless a row is
\* closed in the first: then it does not matter which one the subarray held.
Agrees(exact, one, other, b) ==
  /\ one.buffers[b] = other.buffers[b]
  /\ \A s \in SubArray :
       \/ one.rows[<<b, s>>] = other.rows[<<b, s>>]
       \/ /\ ~ exact /\ one.rows[<<b, s>>].state = "CLOSED"
          /\ UsePrecharge => other.rows[<<b, s>>].state = "CLOSED"

LEMMA AgreeingDevicesAccept ==
  ASSUME p \in Configurations, NEW b \in Bank, NEW cmd, IsFor(b, cmd), NEW exact \in BOOLEAN,
         NEW one, IsSettled(one), NEW other, IsSettled(other), Agrees(exact, one, other, b),
         cmd.type # "REFRESH", DeviceAccepts(one, cmd)
  PROVE  DeviceAccepts(other, cmd)
<1> DEFINE at == PlaceOf(cmd)
<1>1. cmd \in CommandType /\ cmd.bank = b /\ cmd.sub \in SubArray /\ cmd.type \in CommandKind
  BY DEF IsFor, CommandType
<1>2. at \in Place /\ at = <<b, cmd.sub>>
  BY <1>1 DEF PlaceOf, Place
<1>3. ServedByRDB(one, cmd) <=> ServedByRDB(other, cmd)
  BY <1>1, CopiesOfABank DEF Agrees, IsSettled
<1>4. other.rows[at].state \in {"CLOSED", "OPEN"}
  BY <1>2 DEF IsSettled
<1>5. \/ one.rows[at] = other.rows[at]
      \/ one.rows[at].state = "CLOSED" /\ (UsePrecharge => other.rows[at].state = "CLOSED")
  BY <1>1, <1>2 DEF Agrees
<1> HIDE DEF at
<1>6. CASE ServedByRDB(one, cmd)
  BY <1>3, <1>6 DEF DeviceAccepts
<1>7. CASE ~ ServedByRDB(one, cmd)
  <2>1. Accepts(one.rows, cmd)
    BY <1>7 DEF DeviceAccepts
  <2>2. Accepts(other.rows, cmd)
    BY <1>1, <1>4, <1>5, <2>1 DEF Accepts, at, CommandKind
  <2>3. QED
    BY <1>1, <2>2 DEF DeviceAccepts, CommandKind
<1>8. QED
  BY <1>6, <1>7

LEMMA AgreementIsKept ==
  ASSUME p \in Configurations, NEW b \in Bank, NEW cmd, IsFor(b, cmd), NEW exact \in BOOLEAN,
         NEW one, IsSettled(one), NEW other, IsSettled(other), Agrees(exact, one, other, b),
         cmd.type = "REFRESH" => exact,
         cmd.type = "REFRESH" \/ DeviceAccepts(one, cmd)
  PROVE  Agrees(exact, Step(one, cmd), Step(other, cmd), b)
<1>1. /\ cmd \in CommandType /\ cmd.bank = b /\ cmd.type \in CommandKind
      /\ one \in DeviceType /\ other \in DeviceType
  BY DEF IsFor, CommandType, IsSettled
<1>2. /\ ServedByRDB(one, cmd) <=> ServedByRDB(other, cmd)
      /\ DeviceAfter(one, cmd).buffers[b] = DeviceAfter(other, cmd).buffers[b]
  BY <1>1, CopiesOfABank DEF Agrees
<1>3. Step(one, cmd).buffers[b] = Step(other, cmd).buffers[b]
  <2>1. DeviceAfter(one, cmd) \in DeviceType /\ DeviceAfter(other, cmd) \in DeviceType
    BY <1>1, DevicesAreTyped
  <2>2. QED
    BY <1>2, <2>1, SettleFacts DEF Step
<1>4. ASSUME NEW s \in SubArray
      PROVE  \/ Step(one, cmd).rows[<<b, s>>] = Step(other, cmd).rows[<<b, s>>]
             \/ /\ ~ exact /\ Step(one, cmd).rows[<<b, s>>].state = "CLOSED"
                /\ UsePrecharge => Step(other, cmd).rows[<<b, s>>].state = "CLOSED"
  <2> DEFINE r == one.rows[<<b, s>>]
             u == other.rows[<<b, s>>]
  <2>1. <<b, s>> \in Place
    BY DEF Place
  <2>2. /\ Settled(r) = r /\ Settled(u) = u /\ r \in RowType /\ u \in RowType
        /\ r.state \in {"CLOSED", "OPEN"} /\ u.state \in {"CLOSED", "OPEN"}
    <3>1. \A k \in RowType : k.state \in {"CLOSED", "OPEN"} => Settled(k) = k
      BY DEF Settled
    <3>2. QED
      BY <1>1, <2>1, <3>1, SettleFacts DEF IsSettled
  <2>3. Step(one, cmd).rows[<<b, s>>] = IF ServedByRDB(one, cmd) THEN r ELSE Outcome(r, cmd, s)
    BY <1>1, <2>2, StepAt
  <2>4. Step(other, cmd).rows[<<b, s>>] = IF ServedByRDB(other, cmd) THEN u ELSE Outcome(u, cmd, s)
    BY <1>1, <2>2, StepAt
  <2>5. r = u \/ (~ exact /\ r.state = "CLOSED" /\ (UsePrecharge => u.state = "CLOSED"))
    BY DEF Agrees
  <2> HIDE DEF r, u
  <2>6. CASE ServedByRDB(one, cmd) \/ r = u
    BY <1>2, <2>3, <2>4, <2>5, <2>6
  <2>7. CASE ~ ServedByRDB(one, cmd) /\ r # u
    <3>1. ~ exact /\ cmd.type # "REFRESH" /\ r.state = "CLOSED" /\ (UsePrecharge => u.state = "CLOSED")
      BY <2>5, <2>7
    <3>2. cmd.type \in {"PRECHARGE", "PRECHARGE_ALL", "READ_PRECHARGE"} => UsePrecharge
      BY DEF IsFor
    <3>3. \/ Outcome(r, cmd, s) = Outcome(u, cmd, s)
          \/ Outcome(r, cmd, s) = r /\ Outcome(u, cmd, s) = u
      BY <1>1, <3>1, <3>2 DEF Outcome, CommandKind
    <3>4. QED
      BY <1>2, <2>3, <2>4, <2>7, <3>1, <3>3
  <2>8. QED
    BY <2>6, <2>7
<1>5. QED
  BY <1>3, <1>4 DEF Agrees

\* What is asked of a run for a bank: each command is accepted, and in the end the
\* view is right.
ViewHolds(dev, v, b) ==
  \A s \in SubArray :
    /\ v.activeSubArray[<<b, s>>] =>
         dev.rows[<<b, s>>] = [state |-> "OPEN", row |-> v.effectiveRow[<<b, s>>]]
    /\ UsePrecharge /\ ~ v.activeSubArray[<<b, s>>] => dev.rows[<<b, s>>].state = "CLOSED"
AllAccepted(run, cmds) ==
  \A i \in 1 .. Len(cmds) : cmds[i].type = "REFRESH" \/ DeviceAccepts(run[i - 1], cmds[i])
Finds(run, cmds, v, b) == AllAccepted(run, cmds) /\ ViewHolds(run[Len(cmds)], v, b)

LEMMA AgreeingRuns ==
  ASSUME p \in Configurations, NEW b \in Bank, NEW cmds \in Seq(CommandType),
         \A i \in 1 .. Len(cmds) : IsFor(b, cmds[i]), NEW exact \in BOOLEAN,
         exact \/ \A i \in 1 .. Len(cmds) : cmds[i].type # "REFRESH",
         NEW one, IsSettled(one), NEW other, IsSettled(other), Agrees(exact, one, other, b),
         NEW r, IsRun(r, one, cmds), NEW u, IsRun(u, other, cmds), NEW v, Finds(r, cmds, v, b)
  PROVE  Finds(u, cmds, v, b)
<1> DEFINE T == {i \in 0 .. Len(cmds) : ~ Agrees(exact, r[i], u[i], b)}
<1>1. Len(cmds) \in Nat
  BY LenProperties
<1>2. \A i \in 0 .. Len(cmds) : IsSettled(r[i]) /\ IsSettled(u[i])
  BY RunIsSettled
<1>3. T = {}
  <2> SUFFICES ASSUME T # {}
               PROVE  FALSE
    OBVIOUS
  <2>1. PICK x \in T : \A y \in T : x <= y
    <3>1. T \in SUBSET Nat
      BY <1>1
    <3> HIDE DEF T
    <3>2. QED
      BY <3>1, LeastExists
  <2>2. x # 0
    BY <2>1 DEF IsRun
  <2>3. x - 1 \in 0 .. Len(cmds) /\ x \in 1 .. Len(cmds) /\ x - 1 \notin T
    BY <1>1, <2>1, <2>2
  <2>4. Agrees(exact, r[x - 1], u[x - 1], b)
    BY <2>3
  <2>5. r[x] = Step(r[x - 1], cmds[x]) /\ u[x] = Step(u[x - 1], cmds[x])
    BY <2>3 DEF IsRun
  <2>6. cmds[x].type = "REFRESH" \/ DeviceAccepts(r[x - 1], cmds[x])
    BY <2>3 DEF Finds, AllAccepted
  <2>7. Agrees(exact, r[x], u[x], b)
    <3>1. IsFor(b, cmds[x]) /\ (cmds[x].type = "REFRESH" => exact)
      BY <2>3
    <3>2. IsSettled(r[x - 1]) /\ IsSettled(u[x - 1])
      BY <1>2, <2>3
    <3>3. QED
      BY <2>4, <2>5, <2>6, <3>1, <3>2, AgreementIsKept
  <2>8. QED
    BY <2>1, <2>7
<1>4. \A i \in 0 .. Len(cmds) : Agrees(exact, r[i], u[i], b)
  BY <1>3
<1>5. AllAccepted(u, cmds)
  <2> SUFFICES ASSUME NEW i \in 1 .. Len(cmds), cmds[i].type # "REFRESH"
               PROVE  DeviceAccepts(u[i - 1], cmds[i])
    BY DEF AllAccepted
  <2>1. i - 1 \in 0 .. Len(cmds)
    BY <1>1
  <2>2. DeviceAccepts(r[i - 1], cmds[i])
    BY DEF Finds, AllAccepted
  <2>3. QED
    BY <1>2, <1>4, <2>1, <2>2, AgreeingDevicesAccept
<1>6. ViewHolds(u[Len(cmds)], v, b)
  <2>1. ViewHolds(r[Len(cmds)], v, b) /\ Agrees(exact, r[Len(cmds)], u[Len(cmds)], b)
    BY <1>1, <1>4 DEF Finds
  <2>2. QED
    BY <2>1 DEF ViewHolds, Agrees
<1>7. QED
  BY <1>5, <1>6 DEF Finds
-----------------------------------------------------------------------------
(* Runs put together, and queues whose head is carried out.                *)

\* The same of every run, which is of the only one.
FindAll(first, cmds, v, b) == \A run : IsRun(run, first, cmds) => Finds(run, cmds, v, b)

LEMMA LongerRuns ==
  ASSUME NEW first, NEW a \in Seq(CommandType), NEW c \in Seq(CommandType), NEW v, NEW w, NEW b,
         p \in Configurations, IsSettled(first), FindAll(first, a, v, b),
         \A mid : IsSettled(mid) /\ ViewHolds(mid, v, b) => FindAll(mid, c, w, b)
  PROVE  FindAll(first, a \o c, w, b)
<1> SUFFICES ASSUME NEW run, IsRun(run, first, a \o c)
             PROVE  Finds(run, a \o c, w, b)
  BY DEF FindAll
<1> DEFINE all == a \o c
           m == Len(a)
           n == Len(c)
           x == [i \in 0 .. m |-> run[i]]
           y == [i \in 0 .. n |-> run[m + i]]
<1>1. /\ all \in Seq(CommandType) /\ Len(all) = m + n /\ m \in Nat /\ n \in Nat
      /\ \A i \in 1 .. m + n : all[i] = IF i <= m THEN a[i] ELSE c[i - m]
  BY ConcatProperties, LenProperties
<1> HIDE DEF all
<1>2. IsRun(run, first, all)
  BY DEF all
<1>3. (\A i \in 0 .. m : x[i] = run[i]) /\ (\A i \in 0 .. n : y[i] = run[m + i])
  OBVIOUS
<1>4. x = [i \in 0 .. m |-> x[i]] /\ y = [i \in 0 .. n |-> y[i]]
  OBVIOUS
<1> HIDE DEF x, y, m, n
<1>5. \A i \in 1 .. m + n : run[i] = Step(run[i - 1], all[i])
  BY <1>1, <1>2 DEF IsRun
<1>6. IsRun(x, first, a)
  <2>1. \A i \in 1 .. m : x[i] = Step(x[i - 1], a[i])
    <3> SUFFICES ASSUME NEW i \in 1 .. m
                 PROVE  x[i] = Step(x[i - 1], a[i])
      OBVIOUS
    <3>1. i \in 1 .. m + n /\ i - 1 \in 0 .. m /\ i \in 0 .. m /\ i <= m
      BY <1>1
    <3>2. QED
      BY <1>1, <1>3, <1>5, <3>1
  <2>2. x[0] = first
    <3>1. 0 \in 0 .. m
      BY <1>1
    <3>2. QED
      BY <1>2, <1>3, <3>1 DEF IsRun
  <2>3. QED
    BY <1>4, <2>1, <2>2 DEF IsRun, m
<1>7. IsRun(y, run[m], c)
  <2>1. \A i \in 1 .. n : y[i] = Step(y[i - 1], c[i])
    <3> SUFFICES ASSUME NEW i \in 1 .. n
                 PROVE  y[i] = Step(y[i - 1], c[i])
      OBVIOUS
    <3>1. /\ m + i \in 1 .. m + n /\ i - 1 \in 0 .. n /\ i \in 0 .. n /\ ~ m + i <= m
          /\ (m + i) - 1 = m + (i - 1) /\ (m + i) - m = i
      BY <1>1
    <3>2. run[m + i] = Step(run[(m + i) - 1], all[m + i])
      <4> DEFINE k == m + i
      <4>1. k \in 1 .. m + n
        BY <3>1
      <4> HIDE DEF k
      <4>2. run[k] = Step(run[k - 1], all[k])
        BY <1>5, <4>1
      <4>3. QED
        BY <4>2 DEF k
    <3>3. all[m + i] = c[i]
      BY <1>1, <3>1
    <3>4. QED
      BY <1>3, <3>1, <3>2, <3>3
  <2>2. y[0] = run[m]
    BY <1>1, <1>3
  <2>3. QED
    BY <1>4, <2>1, <2>2 DEF IsRun, n
<1>8. Finds(x, a, v, b)
  BY <1>6 DEF FindAll
<1>9. IsSettled(run[m]) /\ ViewHolds(run[m], v, b)
  <2>1. x[m] = run[m] /\ m \in 0 .. m
    BY <1>1, <1>3
  <2>2. IsSettled(x[m])
    BY <1>6, <2>1, RunIsSettled DEF m
  <2>3. QED
    BY <1>8, <2>1, <2>2 DEF Finds, m
<1>10. Finds(y, c, w, b)
  BY <1>7, <1>9 DEF FindAll
<1>11. AllAccepted(run, all)
  <2> SUFFICES ASSUME NEW i \in 1 .. m + n
               PROVE  all[i].type = "REFRESH" \/ DeviceAccepts(run[i - 1], all[i])
    BY <1>1 DEF AllAccepted
  <2>1. CASE i <= m
    <3>1. i \in 1 .. m /\ i - 1 \in 0 .. m
      BY <1>1, <2>1
    <3>2. QED
      BY <1>1, <1>3, <1>8, <2>1, <3>1 DEF Finds, AllAccepted, m
  <2>2. CASE i > m
    <3>1. i - m \in 1 .. n /\ i - m - 1 \in 0 .. n /\ m + (i - m - 1) = i - 1 /\ ~ i <= m
      BY <1>1, <2>2
    <3>2. y[i - m - 1] = run[i - 1] /\ all[i] = c[i - m]
      BY <1>1, <1>3, <3>1
    <3>3. QED
      BY <1>10, <3>1, <3>2 DEF Finds, AllAccepted, n
  <2>3. QED
    BY <1>1, <2>1, <2>2
<1>12. ViewHolds(run[Len(all)], w, b)
  BY <1>1, <1>3, <1>10 DEF Finds, n
<1>13. QED
  BY <1>11, <1>12 DEF Finds, all

LEMMA OneCommand ==
  ASSUME NEW first, NEW cmd \in CommandType, NEW v, NEW b,
         cmd.type = "REFRESH" \/ DeviceAccepts(first, cmd), ViewHolds(Step(first, cmd), v, b)
  PROVE  FindAll(first, <<cmd>>, v, b)
<1> SUFFICES ASSUME NEW run, IsRun(run, first, <<cmd>>)
             PROVE  Finds(run, <<cmd>>, v, b)
  BY DEF FindAll
<1>1. Len(<<cmd>>) = 1 /\ <<cmd>>[1] = cmd
  OBVIOUS
<1>2. run[0] = first /\ run[1] = Step(first, cmd)
  BY <1>1 DEF IsRun
<1>3. QED
  BY <1>1, <1>2 DEF Finds, AllAccepted

LEMMA NoCommand ==
  ASSUME NEW first, NEW v, NEW b
  PROVE  FindAll(first, <<>>, v, b) <=> ViewHolds(first, v, b)
<1>1. Len(<<>>) = 0
  OBVIOUS
<1>2. \A run : IsRun(run, first, <<>>) => run[0] = first
  BY DEF IsRun
<1>3. IsRun([i \in 0 .. 0 |-> first], first, <<>>)
  BY <1>1 DEF IsRun
<1>4. QED
  BY <1>1, <1>2, <1>3 DEF FindAll, Finds, AllAccepted

\* The queue of a bank whose head is issued.
LEMMA HeadIsCarriedOut ==
  ASSUME p \in Configurations, NEW dev \in DeviceType, BuffersFit(dev), NEW b \in Bank,
         NEW cmds \in Seq(CommandType), cmds # <<>>, \A i \in 1 .. Len(cmds) : IsFor(b, cmds[i]),
         NEW v, FindAll(Settle(dev), cmds, v, b), DeviceAccepts(dev, Head(cmds))
  PROVE  FindAll(Step(dev, Head(cmds)), Tail(cmds), v, b)
<1> DEFINE cmd == Head(cmds)
           rest == Tail(cmds)
           n == Len(rest)
<1>1. /\ cmd \in CommandType /\ cmd = cmds[1] /\ IsFor(b, cmd)
      /\ rest \in Seq(CommandType) /\ n \in Nat /\ Len(cmds) = n + 1
      /\ \A i \in 1 .. n : rest[i] = cmds[i + 1]
  <2>1. /\ cmd \in CommandType /\ rest \in Seq(CommandType) /\ Len(rest) = Len(cmds) - 1
        /\ \A i \in 1 .. Len(rest) : rest[i] = cmds[i + 1]
    BY HeadTailProperties
  <2>2. Len(cmds) \in Nat /\ Len(rest) \in Nat /\ cmd = cmds[1]
    BY <2>1, LenProperties
  <2> HIDE DEF rest, cmd
  <2>3. 1 \in 1 .. Len(cmds)
    BY <2>1, <2>2
  <2>4. QED
    BY <2>1, <2>2, <2>3
<1> SUFFICES ASSUME NEW u, IsRun(u, Step(dev, cmd), rest)
             PROVE  Finds(u, rest, v, b)
  BY DEF FindAll
<1> HIDE DEF cmd, rest, n
<1>2. PICK r : IsRun(r, Settle(dev), cmds)
  BY RunsExist
<1>3. Finds(r, cmds, v, b) /\ r[0] = Settle(dev) /\ r[1] = Step(Settle(dev), cmd)
  <2>1. 1 \in 1 .. Len(cmds) /\ 1 - 1 = 0
    BY <1>1
  <2>2. r[0] = Settle(dev) /\ \A i \in 1 .. Len(cmds) : r[i] = Step(r[i - 1], cmds[i])
    BY <1>2 DEF IsRun
  <2>3. r[1] = Step(r[1 - 1], cmds[1])
    BY <2>1, <2>2
  <2>4. Finds(r, cmds, v, b)
    BY <1>2 DEF FindAll
  <2>5. QED
    BY <1>1, <2>1, <2>2, <2>3, <2>4
<1> DEFINE x == [i \in 0 .. n |-> r[i + 1]]
<1>4. (\A i \in 0 .. n : x[i] = r[i + 1]) /\ x = [i \in 0 .. n |-> x[i]]
  OBVIOUS
<1> HIDE DEF x
<1>5. \A i \in 1 .. n : i + 1 \in 1 .. Len(cmds) /\ i \in 0 .. n /\ i - 1 \in 0 .. n /\ (i - 1) + 1 = i
                       /\ (i + 1) - 1 = i
  BY <1>1
<1>6. IsRun(x, r[1], rest)
  <2>1. \A i \in 1 .. n : x[i] = Step(x[i - 1], rest[i])
    <3> SUFFICES ASSUME NEW i \in 1 .. n
                 PROVE  x[i] = Step(x[i - 1], rest[i])
      OBVIOUS
    <3> DEFINE k == i + 1
    <3>1. k \in 1 .. Len(cmds) /\ k - 1 = i
      BY <1>5
    <3>2. x[i] = r[k] /\ x[i - 1] = r[i] /\ rest[i] = cmds[k]
      BY <1>1, <1>4, <1>5
    <3> HIDE DEF k
    <3>3. r[k] = Step(r[k - 1], cmds[k])
      BY <1>2, <3>1 DEF IsRun
    <3>4. QED
      BY <3>1, <3>2, <3>3
  <2>2. x[0] = r[1]
    BY <1>1, <1>4
  <2>3. QED
    BY <1>4, <2>1, <2>2 DEF IsRun, n
<1>7. Finds(x, rest, v, b)
  <2>1. AllAccepted(x, rest)
    BY <1>1, <1>3, <1>4, <1>5 DEF Finds, AllAccepted, n
  <2>2. x[n] = r[Len(cmds)]
    BY <1>1, <1>4
  <2>3. QED
    BY <1>3, <2>1, <2>2 DEF Finds, n
<1>8. IsSettled(Settle(dev)) /\ Settle(dev) \in DeviceType
  BY SettleFacts
<1>9. IsSettled(r[1]) /\ IsSettled(Step(dev, cmd)) /\ DeviceAfter(dev, cmd) \in DeviceType
  BY <1>1, <1>3, <1>8, StepIsSettled, DevicesAreTyped, SettleFacts DEF Step
<1>10. Agrees(TRUE, r[1], Step(dev, cmd), b)
  <2>1. cmd.bank = b
    BY <1>1 DEF IsFor
  <2>2. /\ ServedByRDB(Settle(dev), cmd) <=> ServedByRDB(dev, cmd)
        /\ DeviceAfter(Settle(dev), cmd).buffers[b] = DeviceAfter(dev, cmd).buffers[b]
    BY <1>1, <1>8, <2>1, SettleFacts, CopiesOfABank
  <2>3. r[1].buffers[b] = Step(dev, cmd).buffers[b]
    BY <1>1, <1>3, <1>8, <1>9, <2>2, SettleFacts, DevicesAreTyped DEF Step
  <2>4. ASSUME NEW s \in SubArray
        PROVE  r[1].rows[<<b, s>>] = Step(dev, cmd).rows[<<b, s>>]
    <3>1. <<b, s>> \in Place
      BY DEF Place
    <3>2. Settle(dev).rows[<<b, s>>] = Settled(dev.rows[<<b, s>>])
      BY <3>1, SettleFacts
    <3>3. Settled(Settled(dev.rows[<<b, s>>])) = Settled(dev.rows[<<b, s>>])
      <4>1. dev.rows[<<b, s>>] \in RowType
        BY <3>1, SettleFacts
      <4>2. QED
        BY <4>1 DEF Settled, RowType
    <3>4. /\ r[1].rows[<<b, s>>] = IF ServedByRDB(Settle(dev), cmd)
                                   THEN Settled(Settle(dev).rows[<<b, s>>])
                                   ELSE Outcome(Settled(Settle(dev).rows[<<b, s>>]), cmd, s)
          /\ Step(dev, cmd).rows[<<b, s>>] = IF ServedByRDB(dev, cmd)
                                             THEN Settled(dev.rows[<<b, s>>])
                                             ELSE Outcome(Settled(dev.rows[<<b, s>>]), cmd, s)
      BY <1>1, <1>3, <1>8, StepAt DEF cmd
    <3>5. QED
      BY <2>2, <3>2, <3>3, <3>4
  <2>5. QED
    BY <2>3, <2>4 DEF Agrees
<1>11. \A i \in 1 .. Len(rest) : IsFor(b, rest[i])
  BY <1>1, <1>5 DEF n
<1>12. QED
  BY <1>1, <1>6, <1>7, <1>9, <1>10, <1>11, AgreeingRuns

\* The queue of a bank while the head of another queue is issued.
LEMMA OthersStayFound ==
  ASSUME p \in Configurations, NEW dev \in DeviceType, BuffersFit(dev), NEW b \in Bank,
         NEW cmds \in Seq(CommandType), \A i \in 1 .. Len(cmds) : IsFor(b, cmds[i]),
         NEW v, FindAll(Settle(dev), cmds, v, b),
         NEW c \in Bank, c # b, NEW cmd, IsFor(c, cmd), DeviceAccepts(dev, cmd)
  PROVE  FindAll(Step(dev, cmd), cmds, v, b)
<1> DEFINE exact == ~ (cmd.type = "REFRESH" /\ b \in Group(c))
<1> SUFFICES ASSUME NEW u, IsRun(u, Step(dev, cmd), cmds)
             PROVE  Finds(u, cmds, v, b)
  BY DEF FindAll
<1>1. PICK r : IsRun(r, Settle(dev), cmds)
  BY RunsExist
<1>2. Finds(r, cmds, v, b)
  BY <1>1 DEF FindAll
<1>3. cmd \in CommandType /\ cmd.bank = c
  BY DEF IsFor
<1>4. /\ IsSettled(Settle(dev)) /\ IsSettled(Step(dev, cmd)) /\ Settle(dev) \in DeviceType
      /\ DeviceAfter(dev, cmd) \in DeviceType
  BY <1>3, DevicesAreTyped, SettleFacts DEF Step
<1>5. Agrees(exact, Settle(dev), Step(dev, cmd), b)
  <2>1. Settle(dev).buffers[b] = Step(dev, cmd).buffers[b]
    BY <1>3, <1>4, CopiesOfABank, SettleFacts DEF Step
  <2>2. ASSUME NEW s \in SubArray
        PROVE  \/ Settle(dev).rows[<<b, s>>] = Step(dev, cmd).rows[<<b, s>>]
               \/ /\ ~ exact /\ Settle(dev).rows[<<b, s>>].state = "CLOSED"
                  /\ UsePrecharge => Step(dev, cmd).rows[<<b, s>>].state = "CLOSED"
    <3>1. <<b, s>> \in Place
      BY DEF Place
    <3>2. Settle(dev).rows[<<b, s>>] = Settled(dev.rows[<<b, s>>])
      BY <3>1, SettleFacts
    <3>3. QED
      BY <1>3, <3>2, StepElsewhere
  <2>3. QED
    BY <2>1, <2>2 DEF Agrees
<1>6. exact \in BOOLEAN /\ (exact \/ \A i \in 1 .. Len(cmds) : cmds[i].type # "REFRESH")
  <2>1. ASSUME ~ exact, NEW i \in 1 .. Len(cmds), cmds[i].type = "REFRESH"
        PROVE  FALSE
    <3>1. GroupHead(b) = b /\ GroupHead(c) = c
      BY <2>1 DEF IsFor
    <3>2. QED
      BY <2>1, <3>1 DEF Group
  <2>2. QED
    BY <2>1
<1> HIDE DEF exact
<1>7. QED
  BY <1>1, <1>2, <1>4, <1>5, <1>6, AgreeingRuns
-----------------------------------------------------------------------------
(* What the commands find, kind by kind.                                   *)

\* The configurations in which the view is right: with a queue per subarray the
\* PRECHARGE_ALL of a refresh overtakes the commands of other queues, and a read that
\* is to close its row leaves it open if a row buffer serves it.
RowsAreKnown ==
  ~ p.PerSubArrayQueues /\ (p.rowBuffers > 0 /\ UsePrecharge => p.ClosePage = 0)

\* A view that differs from another in one subarray at most.
SameElsewhere(v, w, b, s) ==
  \A r \in SubArray \ {s} : /\ w.activeSubArray[<<b, r>>] = v.activeSubArray[<<b, r>>]
                            /\ w.effectiveRow[<<b, r>>] = v.effectiveRow[<<b, r>>]

LEMMA NoRowBuffers ==
  ASSUME p.rowBuffers = 0, NEW dev \in DeviceType, BuffersFit(dev), NEW cmd \in CommandType
  PROVE  ~ ServedByRDB(dev, cmd)
<1>1. cmd.bank \in Bank
  BY DEF CommandType
<1>2. dev.buffers[cmd.bank] \in Seq(Row) /\ Len(dev.buffers[cmd.bank]) <= 0
  BY <1>1 DEF DeviceType, BuffersFit
<1>3. dev.buffers[cmd.bank] = <<>>
  BY <1>2, EmptySeq, LenProperties
<1>4. ToSet(dev.buffers[cmd.bank]) = {}
  BY <1>3 DEF ToSet
<1>5. QED
  BY <1>4 DEF ServedByRDB, InRDB

\* A command that no row buffer serves, on a settled device.
LEMMA StepOfSettled ==
  ASSUME p \in Configurations, NEW b \in Bank, NEW cmd, IsFor(b, cmd), NEW mid, IsSettled(mid),
         NEW s \in SubArray
  PROVE  /\ mid.rows[<<b, s>>] \in RowType /\ mid.rows[<<b, s>>].state \in {"CLOSED", "OPEN"}
         /\ Step(mid, cmd).rows[<<b, s>>] =
              IF ServedByRDB(mid, cmd) THEN mid.rows[<<b, s>>]
              ELSE Outcome(mid.rows[<<b, s>>], cmd, s)
         /\ cmd \in CommandType /\ cmd.bank = b /\ cmd.sub \in SubArray /\ PlaceOf(cmd) = <<b, cmd.sub>>
         /\ mid \in DeviceType /\ UsePrecharge \in BOOLEAN
<1>1. <<b, s>> \in Place /\ UsePrecharge \in BOOLEAN
  BY Configured DEF Place, UsePrecharge
<1>2. mid \in DeviceType /\ mid.rows[<<b, s>>].state \in {"CLOSED", "OPEN"}
  BY <1>1 DEF IsSettled
<1>3. mid.rows[<<b, s>>] \in RowType
  BY <1>1, <1>2, SettleFacts
<1>4. Settled(mid.rows[<<b, s>>]) = mid.rows[<<b, s>>]
  BY <1>2, <1>3 DEF Settled
<1>5. Step(mid, cmd).rows[<<b, s>>] =
        IF ServedByRDB(mid, cmd) THEN mid.rows[<<b, s>>] ELSE Outcome(mid.rows[<<b, s>>], cmd, s)
  BY <1>2, <1>4, StepAt
<1>6. cmd \in CommandType /\ cmd.bank = b /\ cmd.sub \in SubArray /\ PlaceOf(cmd) = <<b, cmd.sub>>
  BY DEF IsFor, CommandType, PlaceOf
<1>7. QED
  BY <1>1, <1>2, <1>3, <1>5, <1>6

LEMMA ActivationFinds ==
  ASSUME p \in Configurations, NEW b \in Bank, NEW cmd, IsFor(b, cmd), cmd.type = "ACTIVATE",
         NEW mid, IsSettled(mid), NEW v, ViewHolds(mid, v, b), NEW w,
         UsePrecharge => ~ v.activeSubArray[<<b, cmd.sub>>],
         SameElsewhere(v, w, b, cmd.sub),
         w.activeSubArray[<<b, cmd.sub>>], w.effectiveRow[<<b, cmd.sub>>] = cmd.row
  PROVE  FindAll(mid, <<cmd>>, w, b)
<1>1. cmd \in CommandType /\ cmd.sub \in SubArray /\ PlaceOf(cmd) = <<b, cmd.sub>>
  BY DEF IsFor, CommandType, PlaceOf
<1>2. ~ ServedByRDB(mid, cmd)
  BY DEF ServedByRDB, Cacheable, ColumnAccesses
<1>3. DeviceAccepts(mid, cmd)
  <2>1. mid.rows[<<b, cmd.sub>>].state \in {"CLOSED", "OPEN"}
    BY <1>1, StepOfSettled
  <2>2. UsePrecharge => mid.rows[<<b, cmd.sub>>].state = "CLOSED"
    BY <1>1 DEF ViewHolds
  <2>3. Accepts(mid.rows, cmd)
    BY <1>1, <2>1, <2>2 DEF Accepts
  <2>4. QED
    BY <2>3 DEF DeviceAccepts
<1>4. ViewHolds(Step(mid, cmd), w, b)
  <2> SUFFICES ASSUME NEW s \in SubArray
               PROVE  /\ w.activeSubArray[<<b, s>>] =>
                           Step(mid, cmd).rows[<<b, s>>] = [state |-> "OPEN", row |-> w.effectiveRow[<<b, s>>]]
                      /\ UsePrecharge /\ ~ w.activeSubArray[<<b, s>>] =>
                           Step(mid, cmd).rows[<<b, s>>].state = "CLOSED"
    BY DEF ViewHolds
  <2>1. Step(mid, cmd).rows[<<b, s>>] =
          IF s = cmd.sub THEN [state |-> "OPEN", row |-> cmd.row] ELSE mid.rows[<<b, s>>]
    <3>1. Step(mid, cmd).rows[<<b, s>>] = Outcome(mid.rows[<<b, s>>], cmd, s)
      BY <1>2, StepOfSettled
    <3>2. QED
      BY <3>1 DEF Outcome
  <2>2. CASE s = cmd.sub
    BY <2>1, <2>2
  <2>3. CASE s # cmd.sub
    BY <2>1, <2>3 DEF ViewHolds, SameElsewhere
  <2>4. QED
    BY <2>2, <2>3
<1>5. QED
  BY <1>1, <1>3, <1>4, OneCommand

LEMMA PrechargeFinds ==
  ASSUME p \in Configurations, NEW b \in Bank, NEW cmd, IsFor(b, cmd), cmd.type = "PRECHARGE",
         NEW mid, IsSettled(mid), NEW v, ViewHolds(mid, v, b), NEW w,
         SameElsewhere(v, w, b, cmd.sub), ~ w.activeSubArray[<<b, cmd.sub>>]
  PROVE  FindAll(mid, <<cmd>>, w, b)
<1>1. cmd \in CommandType /\ cmd.sub \in SubArray /\ PlaceOf(cmd) = <<b, cmd.sub>>
  BY DEF IsFor, CommandType, PlaceOf
<1>2. ~ ServedByRDB(mid, cmd)
  BY DEF ServedByRDB, Cacheable, ColumnAccesses
<1>3. DeviceAccepts(mid, cmd)
  <2>1. mid.rows[<<b, cmd.sub>>].state \in {"CLOSED", "OPEN"}
    BY <1>1, StepOfSettled
  <2>2. Accepts(mid.rows, cmd)
    BY <1>1, <2>1 DEF Accepts
  <2>3. QED
    BY <2>2 DEF DeviceAccepts
<1>4. ViewHolds(Step(mid, cmd), w, b)
  <2> SUFFICES ASSUME NEW s \in SubArray
               PROVE  /\ w.activeSubArray[<<b, s>>] =>
                           Step(mid, cmd).rows[<<b, s>>] = [state |-> "OPEN", row |-> w.effectiveRow[<<b, s>>]]
                      /\ UsePrecharge /\ ~ w.activeSubArray[<<b, s>>] =>
                           Step(mid, cmd).rows[<<b, s>>].state = "CLOSED"
    BY DEF ViewHolds
  <2>1. Step(mid, cmd).rows[<<b, s>>] = IF s = cmd.sub THEN ClosedRow ELSE mid.rows[<<b, s>>]
    <3>1. Step(mid, cmd).rows[<<b, s>>] = Outcome(mid.rows[<<b, s>>], cmd, s)
      BY <1>2, StepOfSettled
    <3>2. QED
      BY <3>1 DEF Outcome
  <2>2. CASE s = cmd.sub
    BY <2>1, <2>2 DEF ClosedRow
  <2>3. CASE s # cmd.sub
    BY <2>1, <2>3 DEF ViewHolds, SameElsewhere
  <2>4. QED
    BY <2>2, <2>3
<1>5. QED
  BY <1>1, <1>3, <1>4, OneCommand

LEMMA AccessFinds ==
  ASSUME p \in Configurations, NEW b \in Bank, NEW cmd, IsFor(b, cmd), cmd.type \in ColumnAccesses,
         NEW mid, IsSettled(mid), NEW v, ViewHolds(mid, v, b), NEW w,
         v.activeSubArray[<<b, cmd.sub>>], v.effectiveRow[<<b, cmd.sub>>] = cmd.row,
         SameElsewhere(v, w, b, cmd.sub),
         cmd.type = "READ" => /\ w.activeSubArray[<<b, cmd.sub>>]
                              /\ w.effectiveRow[<<b, cmd.sub>>] = cmd.row,
         cmd.type = "READ_PRECHARGE" => ~ w.activeSubArray[<<b, cmd.sub>>]
  PROVE  FindAll(mid, <<cmd>>, w, b)
<1>1. cmd \in CommandType /\ cmd.sub \in SubArray /\ PlaceOf(cmd) = <<b, cmd.sub>>
  BY DEF IsFor, CommandType, PlaceOf
<1>2. mid \in DeviceType /\ BuffersFit(mid)
  BY DEF IsSettled
<1>3. mid.rows[<<b, cmd.sub>>] = [state |-> "OPEN", row |-> cmd.row]
  BY <1>1 DEF ViewHolds
<1>4. DeviceAccepts(mid, cmd)
  <2> DEFINE r == mid.rows[PlaceOf(cmd)]
  <2>0. r.state = "OPEN" /\ r.row = cmd.row
    BY <1>1, <1>3
  <2> HIDE DEF r
  <2>1. Accepts(mid.rows, cmd)
    BY <2>0 DEF Accepts, ColumnAccesses, r
  <2>2. QED
    BY <2>1 DEF DeviceAccepts, ColumnAccesses
<1>5. ASSUME NEW s \in SubArray
      PROVE  Step(mid, cmd).rows[<<b, s>>] =
               IF s = cmd.sub /\ cmd.type = "READ_PRECHARGE" THEN ClosedRow ELSE mid.rows[<<b, s>>]
  <2>1. CASE cmd.type = "READ"
    <3>1. Outcome(mid.rows[<<b, s>>], cmd, s) = mid.rows[<<b, s>>]
      BY <2>1 DEF Outcome
    <3>2. QED
      BY <2>1, <3>1, StepOfSettled
  <2>2. CASE cmd.type = "READ_PRECHARGE"
    <3>1. p.rowBuffers = 0
      BY <2>2 DEF IsFor
    <3>2. ~ ServedByRDB(mid, cmd)
      BY <1>1, <1>2, <3>1, NoRowBuffers
    <3>3. Step(mid, cmd).rows[<<b, s>>] = Outcome(mid.rows[<<b, s>>], cmd, s)
      BY <3>2, StepOfSettled
    <3>4. QED
      BY <2>2, <3>3 DEF Outcome
  <2>3. QED
    BY <2>1, <2>2 DEF ColumnAccesses
<1>6. ViewHolds(Step(mid, cmd), w, b)
  <2> SUFFICES ASSUME NEW s \in SubArray
               PROVE  /\ w.activeSubArray[<<b, s>>] =>
                           Step(mid, cmd).rows[<<b, s>>] = [state |-> "OPEN", row |-> w.effectiveRow[<<b, s>>]]
                      /\ UsePrecharge /\ ~ w.activeSubArray[<<b, s>>] =>
                           Step(mid, cmd).rows[<<b, s>>].state = "CLOSED"
    BY DEF ViewHolds
  <2>1. CASE s = cmd.sub /\ cmd.type = "READ_PRECHARGE"
    BY <1>5, <2>1 DEF ClosedRow
  <2>2. CASE s = cmd.sub /\ cmd.type # "READ_PRECHARGE"
    BY <1>3, <1>5, <2>2 DEF ColumnAccesses
  <2>3. CASE s # cmd.sub
    BY <1>5, <2>3 DEF ViewHolds, SameElsewhere
  <2>4. QED
    BY <2>1, <2>2, <2>3
<1>7. QED
  BY <1>1, <1>4, <1>6, OneCommand

LEMMA BufferedReadFinds ==
  ASSUME p \in Configurations, NEW b \in Bank, NEW cmd, IsFor(b, cmd), cmd.type = "READ",
         NEW mid, IsSettled(mid), NEW v, ViewHolds(mid, v, b), ServedByRDB(mid, cmd)
  PROVE  FindAll(mid, <<cmd>>, v, b)
<1>1. cmd \in CommandType
  BY DEF IsFor
<1>2. ViewHolds(Step(mid, cmd), v, b)
  BY StepOfSettled DEF ViewHolds
<1>3. QED
  BY <1>1, <1>2, OneCommand DEF DeviceAccepts

\* A refresh and the precharge before it: afterwards nothing is taken for open, or
\* nothing is precharged and the rows are left as they are.
LEMMA PrechargeAllFinds ==
  ASSUME p \in Configurations, NEW b \in Bank, NEW cmd, IsFor(b, cmd), cmd.type = "PRECHARGE_ALL",
         NEW mid, IsSettled(mid), NEW w, \A s \in SubArray : ~ w.activeSubArray[<<b, s>>]
  PROVE  FindAll(mid, <<cmd>>, w, b)
<1>1. cmd \in CommandType
  BY DEF IsFor
<1>2. DeviceAccepts(mid, cmd)
  BY DEF DeviceAccepts, Accepts
<1>3. ~ ServedByRDB(mid, cmd)
  BY DEF ServedByRDB, Cacheable, ColumnAccesses
<1>4. \A s \in SubArray : Step(mid, cmd).rows[<<b, s>>].state = "CLOSED"
  <2> SUFFICES ASSUME NEW s \in SubArray
               PROVE  Step(mid, cmd).rows[<<b, s>>].state = "CLOSED"
    OBVIOUS
  <2>1. mid.rows[<<b, s>>].state \in {"CLOSED", "OPEN"}
    BY StepOfSettled
  <2>2. Step(mid, cmd).rows[<<b, s>>] = Outcome(mid.rows[<<b, s>>], cmd, s)
    BY <1>3, StepOfSettled
  <2>3. QED
    BY <2>1, <2>2 DEF Outcome, ClosedRow
<1>5. QED
  BY <1>1, <1>2, <1>4, OneCommand DEF ViewHolds

LEMMA RefreshFinds ==
  ASSUME p \in Configurations, NEW b \in Bank, NEW cmd, IsFor(b, cmd), cmd.type = "REFRESH",
         NEW mid, IsSettled(mid), NEW v, ViewHolds(mid, v, b),
         UsePrecharge => \A s \in SubArray : ~ v.activeSubArray[<<b, s>>]
  PROVE  FindAll(mid, <<cmd>>, v, b)
<1>1. cmd \in CommandType
  BY DEF IsFor
<1>2. ~ ServedByRDB(mid, cmd)
  BY DEF ServedByRDB, Cacheable, ColumnAccesses
<1>3. ASSUME NEW s \in SubArray
      PROVE  /\ v.activeSubArray[<<b, s>>] =>
                  Step(mid, cmd).rows[<<b, s>>] = [state |-> "OPEN", row |-> v.effectiveRow[<<b, s>>]]
             /\ UsePrecharge /\ ~ v.activeSubArray[<<b, s>>] => Step(mid, cmd).rows[<<b, s>>].state = "CLOSED"
  <2> DEFINE r == mid.rows[<<b, s>>]
  <2>1. Step(mid, cmd).rows[<<b, s>>] = Outcome(r, cmd, s)
    BY <1>2, StepOfSettled
  <2>2. /\ v.activeSubArray[<<b, s>>] => r = [state |-> "OPEN", row |-> v.effectiveRow[<<b, s>>]]
        /\ UsePrecharge /\ ~ v.activeSubArray[<<b, s>>] => r.state = "CLOSED"
    BY DEF ViewHolds
  <2> HIDE DEF r
  <2>3. CASE UsePrecharge
    BY <2>1, <2>2, <2>3 DEF Outcome, ClosedRow
  <2>4. CASE ~ UsePrecharge
    BY <2>1, <2>2, <2>4 DEF Outcome
  <2>5. QED
    BY <2>3, <2>4
<1>4. QED
  BY <1>1, <1>3, OneCommand DEF ViewHolds
-----------------------------------------------------------------------------
(* The view after the commands of a transaction, and what those find.      *)

\* A bank with a row that is taken for open counts as active.
ActiveIsQueued(v, b) == \A s \in SubArray : v.activeSubArray[<<b, s>>] => v.activateQueued[b]

\* The view of the places and banks that a transaction does not go to.
SameBank(v, w, c) ==
  /\ w.activateQueued[c] = v.activateQueued[c]
  /\ \A s \in SubArray : /\ w.activeSubArray[<<c, s>>] = v.activeSubArray[<<c, s>>]
                         /\ w.effectiveRow[<<c, s>>] = v.effectiveRow[<<c, s>>]

LEMMA ViewOfAnAccess ==
  ASSUME TypesOK, NEW t \in Transaction, ~ FromRDB(t)
  PROVE  /\ \A c \in Bank \ {BankOf(t)} : SameBank(view, ViewAfter(t), c)
         /\ SameElsewhere(view, ViewAfter(t), BankOf(t), SubArrayOf(t))
         /\ ViewAfter(t).activeSubArray[PlaceFor(t)] <=> ~ Closes(t)
         /\ ~ Closes(t) => /\ ViewAfter(t).effectiveRow[PlaceFor(t)] = RowOf(t)
                           /\ ViewAfter(t).activateQueued[BankOf(t)]
         /\ Closes(t) =>
              (ViewAfter(t).activateQueued[BankOf(t)] <=>
                 /\ RowHit(t)
                 /\ \E s \in SubArray \ {SubArrayOf(t)} : view.activeSubArray[<<BankOf(t), s>>])
<1> DEFINE b == BankOf(t)
           at == PlaceFor(t)
           count == [view.starvationCounter EXCEPT ![at] =
                       IF RowHit(t) THEN Bypassed(view.starvationCounter[at]) ELSE 0]
           counted == [view EXCEPT !.starvationCounter = count]
           others == \E s \in SubArray \ {SubArrayOf(t)} : view.activeSubArray[<<b, s>>]
           w == ViewAfter(t)
<1>1. b \in Bank /\ SubArrayOf(t) \in SubArray /\ RowOf(t) \in Row /\ at \in Place /\ at = <<b, SubArrayOf(t)>>
  BY Configured DEF TypesOK, PlaceFor
<1>2. /\ view \in ViewType /\ view.activateQueued \in [Bank -> BOOLEAN]
      /\ view.activeSubArray \in [Place -> BOOLEAN] /\ view.effectiveRow \in [Place -> Row \cup {NoRow}]
  BY DEF TypesOK, ViewType
<1>3. [view EXCEPT !.starvationCounter[at] = IF RowHit(t) THEN Bypassed(@) ELSE 0] = counted
  BY <1>2 DEF ViewType
<1>4. /\ counted.activateQueued = view.activateQueued /\ counted.activeSubArray = view.activeSubArray
      /\ counted.effectiveRow = view.effectiveRow
      /\ counted = [activateQueued |-> view.activateQueued, activeSubArray |-> view.activeSubArray,
                    effectiveRow |-> view.effectiveRow, starvationCounter |-> counted.starvationCounter]
  BY <1>2 DEF ViewType
<1>5. w = IF Closes(t) THEN ClosedView(counted, t) ELSE OpenView(counted, t)
  BY <1>3 DEF ViewAfter
<1> HIDE DEF counted
<1>6. /\ w.activateQueued = [view.activateQueued EXCEPT ![b] = IF Closes(t) THEN RowHit(t) /\ others ELSE TRUE]
      /\ w.activeSubArray = [view.activeSubArray EXCEPT ![at] = IF Closes(t) THEN FALSE ELSE TRUE]
      /\ w.effectiveRow = [view.effectiveRow EXCEPT ![at] = IF Closes(t) THEN NoRow ELSE RowOf(t)]
  <2>1. CASE Closes(t)
    <3>1. w = [counted EXCEPT !.activateQueued = [counted.activateQueued EXCEPT ![b] = RowHit(t) /\ others],
                              !.activeSubArray = [counted.activeSubArray EXCEPT ![at] = FALSE],
                              !.effectiveRow = [counted.effectiveRow EXCEPT ![at] = NoRow]]
      BY <1>4, <1>5, <2>1 DEF ClosedView
    <3> HIDE DEF w, others
    <3>2. QED
      BY <1>4, <2>1, <3>1
  <2>2. CASE ~ Closes(t)
    <3>1. w = [counted EXCEPT !.activateQueued = [counted.activateQueued EXCEPT ![b] = TRUE],
                              !.activeSubArray = [counted.activeSubArray EXCEPT ![at] = TRUE],
                              !.effectiveRow = [counted.effectiveRow EXCEPT ![at] = RowOf(t)]]
      BY <1>4, <1>5, <2>2 DEF OpenView
    <3> HIDE DEF w, others
    <3>2. QED
      BY <1>4, <2>2, <3>1
  <2>3. QED
    BY <2>1, <2>2
<1> HIDE DEF w, at
<1>7. \A c \in Bank \ {b} : SameBank(view, w, c)
  <2> SUFFICES ASSUME NEW c \in Bank \ {b}
               PROVE  SameBank(view, w, c)
    OBVIOUS
  <2>1. \A s \in SubArray : <<c, s>> \in Place /\ <<c, s>> # at
    BY <1>1 DEF Place
  <2>2. QED
    BY <1>1, <1>2, <1>6, <2>1 DEF SameBank
<1>8. SameElsewhere(view, w, b, SubArrayOf(t))
  <2>1. \A s \in SubArray \ {SubArrayOf(t)} : <<b, s>> \in Place /\ <<b, s>> # at
    BY <1>1 DEF Place
  <2>2. QED
    BY <1>1, <1>2, <1>6, <2>1 DEF SameElsewhere
<1> HIDE DEF others
<1>9. /\ w.activeSubArray[at] = IF Closes(t) THEN FALSE ELSE TRUE
      /\ w.effectiveRow[at] = IF Closes(t) THEN NoRow ELSE RowOf(t)
      /\ w.activateQueued[b] = IF Closes(t) THEN RowHit(t) /\ others ELSE TRUE
  BY <1>1, <1>2, <1>6
<1> HIDE DEF b
<1>10. /\ w.activeSubArray[at] <=> ~ Closes(t)
       /\ ~ Closes(t) => w.effectiveRow[at] = RowOf(t) /\ w.activateQueued[b]
       /\ Closes(t) => (w.activateQueued[b] <=> RowHit(t) /\ others)
  BY <1>9, Zenon
<1>11. QED
  BY <1>7, <1>8, <1>10 DEF w, at, b, others

LEMMA CommandsAreForTheBank ==
  ASSUME TypesOK, RowsAreKnown, NEW t \in Transaction
  PROVE  /\ IsFor(BankOf(t), CommandFor("READ", t)) /\ IsFor(BankOf(t), Activation(t))
         /\ UsePrecharge => IsFor(BankOf(t), PrechargeFor(t))
         /\ IsFor(BankOf(t), Access(t))
         /\ Access(t).type = IF Closes(t) THEN "READ_PRECHARGE" ELSE "READ"
<1>1. /\ BankOf(t) \in Bank /\ SubArrayOf(t) \in SubArray /\ RowOf(t) \in Row /\ PlaceFor(t) \in Place
      /\ p.rowBuffers \in Nat
  BY Configured DEF TypesOK
<1>2. view.effectiveRow[PlaceFor(t)] \in Row \cup {NoRow}
  BY <1>1 DEF TypesOK, ViewType
<1>3. IsFor(BankOf(t), CommandFor("READ", t))
  BY <1>1 DEF CommandFor, Command, CommandType, CommandKind, ColumnAccesses, IsFor
<1>4. IsFor(BankOf(t), Activation(t))
  BY <1>1 DEF Activation, Command, CommandType, CommandKind, ColumnAccesses, IsFor
<1>5. UsePrecharge => IsFor(BankOf(t), PrechargeFor(t))
  BY <1>1, <1>2 DEF PrechargeFor, Command, CommandType, CommandKind, ColumnAccesses, IsFor
<1>6. Closes(t) => UsePrecharge /\ p.rowBuffers = 0
  <2>1. Closes(t) => UsePrecharge /\ p.ClosePage # 0
    BY DEF Closes, IsLastRequest
  <2>2. QED
    BY <1>1, <2>1 DEF RowsAreKnown
<1>7. IsFor(BankOf(t), Access(t)) /\ Access(t).type = IF Closes(t) THEN "READ_PRECHARGE" ELSE "READ"
  <2>1. CASE Closes(t)
    <3>1. Access(t) = CommandFor("READ_PRECHARGE", t)
      BY <2>1 DEF Access
    <3>2. QED
      BY <1>1, <1>6, <2>1, <3>1 DEF CommandFor, Command, CommandType, CommandKind, ColumnAccesses, IsFor
  <2>2. CASE ~ Closes(t)
    <3>1. Access(t) = CommandFor("READ", t)
      BY <2>2 DEF Access
    <3>2. QED
      BY <1>3, <2>2, <3>1 DEF CommandFor, Command
  <2>3. QED
    BY <2>1, <2>2
<1>8. QED
  BY <1>3, <1>4, <1>5, <1>7

\* A view with a row open or closed in one subarray.
SeenOpen(v, at, row) ==
  [activeSubArray |-> [v.activeSubArray EXCEPT ![at] = TRUE],
   effectiveRow   |-> [v.effectiveRow EXCEPT ![at] = row]]
SeenClosed(v, at) ==
  [activeSubArray |-> [v.activeSubArray EXCEPT ![at] = FALSE], effectiveRow |-> v.effectiveRow]

LEMMA SeenAt ==
  ASSUME NEW v \in ViewType, NEW b \in Bank, NEW s \in SubArray, NEW row
  PROVE  /\ SameElsewhere(v, SeenOpen(v, <<b, s>>, row), b, s)
         /\ SeenOpen(v, <<b, s>>, row).activeSubArray[<<b, s>>]
         /\ SeenOpen(v, <<b, s>>, row).effectiveRow[<<b, s>>] = row
         /\ SameElsewhere(v, SeenClosed(v, <<b, s>>), b, s)
         /\ ~ SeenClosed(v, <<b, s>>).activeSubArray[<<b, s>>]
<1>1. <<b, s>> \in Place /\ \A r \in SubArray \ {s} : <<b, r>> \in Place /\ <<b, r>> # <<b, s>>
  BY DEF Place
<1>2. v.activeSubArray \in [Place -> BOOLEAN] /\ v.effectiveRow \in [Place -> Row \cup {NoRow}]
  BY DEF ViewType
<1>3. /\ SeenOpen(v, <<b, s>>, row).activeSubArray = [v.activeSubArray EXCEPT ![<<b, s>>] = TRUE]
      /\ SeenOpen(v, <<b, s>>, row).effectiveRow = [v.effectiveRow EXCEPT ![<<b, s>>] = row]
      /\ SeenClosed(v, <<b, s>>).activeSubArray = [v.activeSubArray EXCEPT ![<<b, s>>] = FALSE]
      /\ SeenClosed(v, <<b, s>>).effectiveRow = v.effectiveRow
  BY DEF SeenOpen, SeenClosed
<1>4. QED
  BY <1>1, <1>2, <1>3 DEF SameElsewhere

LEMMA SameElsewhereIsTransitive ==
  ASSUME NEW u, NEW v, NEW w, NEW b, NEW s, SameElsewhere(u, v, b, s), SameElsewhere(u, w, b, s)
  PROVE  SameElsewhere(v, w, b, s)
BY DEF SameElsewhere

\* The commands of a transaction find their rows where the view is right.
LEMMA MemoryCommandsFind ==
  ASSUME TypesOK, RowsAreKnown, NEW t \in Transaction,
         NEW dev, dev = Settle(device), ViewHolds(dev, view, BankOf(t)), ActiveIsQueued(view, BankOf(t))
  PROVE  FindAll(dev, MemoryCommands(t), ViewAfter(t), BankOf(t))
<1> DEFINE b == BankOf(t)
           s == SubArrayOf(t)
           w == ViewAfter(t)
<1>1. /\ b \in Bank /\ s \in SubArray /\ RowOf(t) \in Row /\ PlaceFor(t) = <<b, s>> /\ <<b, s>> \in Place
      /\ UsePrecharge \in BOOLEAN /\ p \in Configurations
  BY Configured DEF TypesOK, PlaceFor, UsePrecharge
<1>2. IsSettled(dev) /\ dev.buffers = device.buffers
  BY SettleFacts DEF TypesOK
<1>3. /\ IsFor(b, CommandFor("READ", t)) /\ IsFor(b, Activation(t)) /\ IsFor(b, Access(t))
      /\ UsePrecharge => IsFor(b, PrechargeFor(t))
      /\ Access(t).type = IF Closes(t) THEN "READ_PRECHARGE" ELSE "READ"
  BY CommandsAreForTheBank
<1>4. view \in ViewType
  BY DEF TypesOK
<1>5. \A c \in {CommandFor("READ", t), Activation(t), PrechargeFor(t), Access(t)} : c.sub = s
  BY DEF CommandFor, Activation, PrechargeFor, Access, Command
<1>6. /\ Activation(t).type = "ACTIVATE" /\ Activation(t).row = RowOf(t)
      /\ PrechargeFor(t).type = "PRECHARGE" /\ Access(t).row = RowOf(t)
      /\ CommandFor("READ", t).type = "READ"
  BY DEF CommandFor, Activation, PrechargeFor, Access, Command
<1>7. ~ FromRDB(t) => /\ SameElsewhere(view, w, b, s)
                      /\ w.activeSubArray[<<b, s>>] <=> ~ Closes(t)
                      /\ ~ Closes(t) => w.effectiveRow[<<b, s>>] = RowOf(t)
  BY <1>1, ViewOfAnAccess
<1>8. \A c : IsFor(b, c) => c \in CommandType
  BY DEF IsFor
<1>9. CASE FromRDB(t)
  <2>1. MemoryCommands(t) = <<CommandFor("READ", t)>> /\ w = view
    BY <1>9 DEF MemoryCommands, ViewAfter
  <2>2. ServedByRDB(dev, CommandFor("READ", t))
    <3>1. DeviceAccepts(device, CommandFor("CACHED", t)) /\ CommandFor("CACHED", t).type = "CACHED"
      BY <1>9 DEF FromRDB, Cached, CommandFor, Command
    <3>2. ServedByRDB(device, CommandFor("CACHED", t))
      BY <3>1 DEF DeviceAccepts
    <3>3. /\ CommandFor("READ", t).bank = CommandFor("CACHED", t).bank
          /\ CommandFor("READ", t).row = CommandFor("CACHED", t).row
          /\ CommandFor("READ", t).txn = CommandFor("CACHED", t).txn
      BY DEF CommandFor, Command
    <3>4. QED
      BY <1>2, <1>6, <3>2, <3>3 DEF ServedByRDB, InRDB, Cacheable, ColumnAccesses
  <2>3. FindAll(dev, <<CommandFor("READ", t)>>, view, b)
    BY <1>1, <1>2, <1>3, <1>6, <2>2, BufferedReadFinds
  <2>4. QED
    BY <2>1, <2>3
<1>10. ASSUME ~ FromRDB(t), NEW v, SameElsewhere(view, v, b, s), v.activeSubArray[<<b, s>>],
              v.effectiveRow[<<b, s>>] = RowOf(t), NEW mid, IsSettled(mid), ViewHolds(mid, v, b)
       PROVE  FindAll(mid, <<Access(t)>>, w, b)
  <2>1. SameElsewhere(v, w, b, s)
    BY <1>7, <1>10, SameElsewhereIsTransitive
  <2>2. Access(t).type \in ColumnAccesses
    BY <1>3 DEF ColumnAccesses
  <2>3. /\ Access(t).type = "READ" => w.activeSubArray[<<b, s>>] /\ w.effectiveRow[<<b, s>>] = RowOf(t)
        /\ Access(t).type = "READ_PRECHARGE" => ~ w.activeSubArray[<<b, s>>]
    BY <1>3, <1>7, <1>10
  <2> HIDE DEF w, b, s
  <2>4. QED
    BY <1>1, <1>3, <1>5, <1>6, <1>10, <2>1, <2>2, <2>3, AccessFinds
<1>11. CASE ~ FromRDB(t) /\ RowHit(t)
  <2>1. MemoryCommands(t) = <<Access(t)>>
    BY <1>11 DEF MemoryCommands
  <2>2. view.activeSubArray[<<b, s>>] /\ view.effectiveRow[<<b, s>>] = RowOf(t)
    BY <1>1, <1>11 DEF RowHit
  <2>3. SameElsewhere(view, view, b, s)
    BY DEF SameElsewhere
  <2>4. FindAll(dev, <<Access(t)>>, w, b)
    BY <1>2, <1>10, <1>11, <2>2, <2>3
  <2>5. QED
    BY <2>1, <2>4
<1>12. CASE ~ FromRDB(t) /\ ~ RowHit(t)
  <2> DEFINE opened == SeenOpen(view, <<b, s>>, RowOf(t))
             closed == SeenClosed(view, <<b, s>>)
             both == <<Activation(t), Access(t)>>
  <2>1. /\ SameElsewhere(view, opened, b, s) /\ SameElsewhere(view, closed, b, s)
        /\ opened.activeSubArray[<<b, s>>] /\ opened.effectiveRow[<<b, s>>] = RowOf(t)
        /\ ~ closed.activeSubArray[<<b, s>>]
    BY <1>1, <1>4, SeenAt
  <2>2. /\ <<PrechargeFor(t)>> \in Seq(CommandType) \/ ~ UsePrecharge
        /\ <<Activation(t)>> \in Seq(CommandType) /\ <<Access(t)>> \in Seq(CommandType)
        /\ both \in Seq(CommandType) /\ both = <<Activation(t)>> \o <<Access(t)>>
        /\ <<>> \o both = both
    <3>1. Activation(t) \in CommandType /\ Access(t) \in CommandType
          /\ (UsePrecharge => PrechargeFor(t) \in CommandType)
      BY <1>3, <1>8
    <3> HIDE DEF both
    <3>2. both \in Seq(CommandType)
      BY <3>1 DEF both
    <3>3. <<>> \o both = both
      BY <3>2, ConcatEmptySeq
    <3>4. both = <<Activation(t)>> \o <<Access(t)>>
      BY <3>1, ShortSequences DEF both
    <3>5. QED
      BY <3>1, <3>2, <3>3, <3>4, ShortSequences
  <2> HIDE DEF opened, closed, w, b, s, both
  <2>3. ASSUME NEW v, SameElsewhere(view, v, b, s), NEW mid, IsSettled(mid), ViewHolds(mid, v, b),
               UsePrecharge => ~ v.activeSubArray[<<b, s>>]
        PROVE  FindAll(mid, both, w, b)
    <3>1. SameElsewhere(v, opened, b, s)
      BY <2>1, <2>3, SameElsewhereIsTransitive
    <3>2. FindAll(mid, <<Activation(t)>>, opened, b)
      BY <1>1, <1>3, <1>5, <1>6, <2>1, <2>3, <3>1, ActivationFinds
    <3>3. \A m : IsSettled(m) /\ ViewHolds(m, opened, b) => FindAll(m, <<Access(t)>>, w, b)
      BY <1>10, <1>12, <2>1
    <3>4. FindAll(mid, <<Activation(t)>> \o <<Access(t)>>, w, b)
      BY <1>1, <2>2, <2>3, <3>2, <3>3, LongerRuns
    <3>5. QED
      BY <2>2, <3>4
  <2>4. CASE BankActive(t) /\ view.activeSubArray[<<b, s>>] /\ UsePrecharge
    <3>1. MemoryCommands(t) = <<PrechargeFor(t)>> \o both
      BY <1>1, <1>12, <2>4 DEF MemoryCommands, both, b, s
    <3>2. FindAll(dev, <<PrechargeFor(t)>>, closed, b)
      BY <1>1, <1>2, <1>3, <1>5, <1>6, <2>1, <2>4, PrechargeFinds DEF b
    <3>3. \A m : IsSettled(m) /\ ViewHolds(m, closed, b) => FindAll(m, both, w, b)
      BY <2>1, <2>3
    <3>4. FindAll(dev, <<PrechargeFor(t)>> \o both, w, b)
      BY <1>1, <1>2, <2>2, <2>4, <3>2, <3>3, LongerRuns
    <3>5. QED
      BY <3>1, <3>4 DEF w, b
  <2>5. CASE ~ (BankActive(t) /\ view.activeSubArray[<<b, s>>] /\ UsePrecharge)
    <3>1. MemoryCommands(t) = both
      <4>1. MemoryCommands(t) = <<>> \o both
        BY <1>1, <1>12, <2>5 DEF MemoryCommands, both, b, s
      <4>2. QED
        BY <2>2, <4>1
    <3>2. UsePrecharge => ~ view.activeSubArray[<<b, s>>]
      BY <1>1, <2>5 DEF ActiveIsQueued, BankActive, b
    <3>3. SameElsewhere(view, view, b, s)
      BY DEF SameElsewhere
    <3>4. FindAll(dev, both, w, b)
      BY <1>2, <2>3, <3>2, <3>3 DEF b
    <3>5. QED
      BY <3>1, <3>4 DEF w, b
  <2>6. QED
    BY <2>4, <2>5
<1>13. QED
  BY <1>9, <1>11, <1>12

\* And they are for the bank of the transaction.
LEMMA MemoryCommandsAreFor ==
  ASSUME TypesOK, RowsAreKnown, NEW t \in Transaction
  PROVE  \A i \in 1 .. Len(MemoryCommands(t)) : IsFor(BankOf(t), MemoryCommands(t)[i])
<1>1. /\ IsFor(BankOf(t), CommandFor("READ", t)) /\ IsFor(BankOf(t), Activation(t))
      /\ IsFor(BankOf(t), Access(t))
      /\ UsePrecharge => IsFor(BankOf(t), PrechargeFor(t))
  BY CommandsAreForTheBank
<1>2. \/ MemoryCommands(t) = <<CommandFor("READ", t)>>
      \/ MemoryCommands(t) = <<Access(t)>>
      \/ MemoryCommands(t) = <<Activation(t), Access(t)>>
      \/ MemoryCommands(t) = <<PrechargeFor(t), Activation(t), Access(t)>> /\ UsePrecharge
  <2> DEFINE both == <<Activation(t), Access(t)>>
             three == <<PrechargeFor(t), Activation(t), Access(t)>>
  <2>1. \A m : /\ m = <<>> \o both => m = both
               /\ m = <<PrechargeFor(t)>> \o both => m = three
    OBVIOUS
  <2> HIDE DEF three
  <2>2. \/ MemoryCommands(t) \in {<<CommandFor("READ", t)>>, <<Access(t)>>, <<>> \o both}
        \/ MemoryCommands(t) = <<PrechargeFor(t)>> \o both /\ UsePrecharge
    <3> HIDE DEF both
    <3>1. QED
      BY DEF MemoryCommands, both
  <2>3. QED
    BY <2>1, <2>2 DEF three
<1>3. QED
  BY <1>1, <1>2
-----------------------------------------------------------------------------
(* The commands of every bank find their rows, step by step.               *)

\* The commands left for each bank find their rows and bring the device to the view.
FoundAt(dev, cmds, v, b) ==
  /\ \A i \in 1 .. Len(cmds) : IsFor(b, cmds[i])
  /\ FindAll(Settle(dev), cmds, v, b)
  /\ ActiveIsQueued(v, b)
FoundMatch(dev, left, v) == \A b \in Bank : FoundAt(dev, left[QueueOf(b, FirstSubArray)], v, b)
FoundInv == RowsAreKnown => FoundMatch(device, Left(commandQueues, issued), view)

LEMMA FoundStands ==
  ASSUME p' = p
  PROVE  FoundInv' <=> (RowsAreKnown => FoundMatch(device', Left(commandQueues', issued'), view'))
<1>1. /\ Queue' = Queue /\ \A b, s : QueueOf(b, s)' = QueueOf(b, s)
      /\ \A dev, c : ServedByRDB(dev, c)' <=> ServedByRDB(dev, c)
  BY SameParameters
<1>2. Left(commandQueues, issued)' = Left(commandQueues', issued')
  BY <1>1 DEF Left
<1>3. (UsePrecharge' <=> UsePrecharge) /\ (RowsAreKnown' <=> RowsAreKnown)
  BY DEF RowsAreKnown, UsePrecharge
<1>4. \A b, cmd : IsFor(b, cmd)' <=> IsFor(b, cmd)
  BY <1>3 DEF IsFor
<1>5. \A dev : Settle(dev)' = Settle(dev)
  <2>1. \A at : Settled(at)' = Settled(at)
    BY <1>3 DEF Settled
  <2>2. \A rows : AllSettled(rows)' = AllSettled(rows)
    BY <2>1 DEF AllSettled
  <2>3. QED
    BY <2>2 DEF Settle
<1>6. \A dev, cmd : DeviceAfter(dev, cmd)' = DeviceAfter(dev, cmd)
  <2>1. \A rows, cmd : After(rows, cmd)' = After(rows, cmd)
    BY DEF After
  <2>2. \A buffers, row : Allocated(buffers, row)' = Allocated(buffers, row)
    BY DEF Allocated
  <2>3. QED
    BY <1>1, <2>1, <2>2 DEF DeviceAfter
<1>7. \A dev, cmd : DeviceAccepts(dev, cmd)' <=> DeviceAccepts(dev, cmd)
  <2>1. \A rows, cmd : Accepts(rows, cmd)' <=> Accepts(rows, cmd)
    BY <1>3 DEF Accepts
  <2>2. QED
    BY <1>1, <2>1 DEF DeviceAccepts
<1>8. \A dev, cmd : Step(dev, cmd)' = Step(dev, cmd)
  BY <1>5, <1>6 DEF Step
<1>9. \A run, first, cmds : IsRun(run, first, cmds)' <=> IsRun(run, first, cmds)
  BY <1>8 DEF IsRun
<1>10. \A run, cmds, v, b : Finds(run, cmds, v, b)' <=> Finds(run, cmds, v, b)
  <2>1. \A dev, v, b : ViewHolds(dev, v, b)' <=> ViewHolds(dev, v, b)
    BY <1>3 DEF ViewHolds
  <2>2. \A run, cmds : AllAccepted(run, cmds)' <=> AllAccepted(run, cmds)
    BY <1>7 DEF AllAccepted
  <2>3. QED
    BY <2>1, <2>2 DEF Finds
<1>11. \A first, cmds, v, b : FindAll(first, cmds, v, b)' <=> FindAll(first, cmds, v, b)
  BY <1>9, <1>10 DEF FindAll
<1>12. \A dev, cmds, v, b : FoundAt(dev, cmds, v, b)' <=> FoundAt(dev, cmds, v, b)
  BY <1>4, <1>5, <1>11 DEF FoundAt, ActiveIsQueued
<1>13. \A dev, left, v : FoundMatch(dev, left, v)' <=> FoundMatch(dev, left, v)
  BY <1>1, <1>12 DEF FoundMatch
<1>14. QED
  BY <1>2, <1>3, <1>13 DEF FoundInv

\* With a queue per bank.
LEMMA QueuesOfBanks ==
  ASSUME TypesOK, RowsAreKnown
  PROVE  /\ \A b, s : QueueOf(b, s) = <<b, FirstSubArray>>
         /\ \A b \in Bank : <<b, FirstSubArray>> \in Queue
         /\ \A q \in Queue : q[1] \in Bank /\ q = <<q[1], FirstSubArray>>
BY DEF RowsAreKnown, QueueOf, Queue

LEMMA CommandsKeepFound ==
  ASSUME TypesOK, RowsAreKnown, NEW queues \in CommandQueues, NEW waiting, NEW rechecks,
         CycleCommandQueues(queues, waiting, rechecks), NEW v,
         FoundMatch(device, Left(queues, issued), v)
  PROVE  FoundMatch(device', Left(queues, issued'), v)
<1>1. CASE NothingIssued(queues, waiting, rechecks)
  BY <1>1 DEF NothingIssued, Left
<1>2. ASSUME issued = NoQueue, NEW q \in Queue, queues[q] # <<>>, IssueHead(q, queues, waiting, rechecks)
      PROVE  FoundMatch(device', Left(queues, issued'), v)
  <2> DEFINE cmd == Head(queues[q])
             left == Left(queues, issued)
             left2 == Left(queues, issued')
             c == q[1]
  <2>1. issued' = q /\ device' = DeviceAfter(device, cmd) /\ DeviceAccepts(device, cmd)
    BY <1>2 DEF IssueHead
  <2>2. NoQueue \notin Queue
    BY Configured DEF TypesOK
  <2>3. \A r \in Queue : left[r] = queues[r] /\ (r # q => left2[r] = queues[r])
    BY <1>2, <2>1, <2>2 DEF Left
  <2>4. left2[q] = Tail(queues[q]) /\ \A r \in Queue : queues[r] \in Seq(CommandType)
    BY <2>1 DEF Left, CommandQueues
  <2> HIDE DEF left, left2
  <2>5. /\ \A b \in Bank : QueueOf(b, FirstSubArray) = <<b, FirstSubArray>> /\ <<b, FirstSubArray>> \in Queue
        /\ c \in Bank /\ q = <<c, FirstSubArray>>
    BY QueuesOfBanks
  <2>6. \A b \in Bank : FoundAt(device, queues[<<b, FirstSubArray>>], v, b)
    BY <2>3, <2>5 DEF FoundMatch, left
  <2>7. /\ IsFor(c, cmd) /\ cmd \in CommandType
        /\ Tail(queues[q]) \in Seq(CommandType)
        /\ \A i \in 1 .. Len(Tail(queues[q])) : IsFor(c, Tail(queues[q])[i])
    <3>1. \A i \in 1 .. Len(queues[q]) : IsFor(c, queues[q][i])
      BY <2>5, <2>6 DEF FoundAt
    <3>2. /\ Tail(queues[q]) \in Seq(CommandType) /\ cmd = queues[q][1] /\ Len(queues[q]) \in Nat
          /\ Len(queues[q]) > 0 /\ Len(Tail(queues[q])) = Len(queues[q]) - 1
          /\ \A i \in 1 .. Len(queues[q]) - 1 : Tail(queues[q])[i] = queues[q][i + 1]
      BY <1>2, <2>4, EmptySeq, LenProperties, HeadTailProperties
    <3>3. IsFor(c, cmd)
      BY <3>1, <3>2
    <3>4. \A i \in 1 .. Len(queues[q]) - 1 : i + 1 \in 1 .. Len(queues[q])
      BY <3>2
    <3>5. \A i \in 1 .. Len(queues[q]) - 1 : IsFor(c, Tail(queues[q])[i])
      BY <3>1, <3>2, <3>4
    <3>6. QED
      BY <3>2, <3>3, <3>5 DEF IsFor
  <2>8. Settle(device') = Step(device, cmd)
    BY <2>1 DEF Step
  <2>9. device \in DeviceType /\ BuffersFit(device) /\ p \in Configurations
    BY DEF TypesOK
  <2> HIDE DEF cmd
  <2>10. FoundAt(device', left2[<<c, FirstSubArray>>], v, c)
    <3>1. FindAll(Step(device, cmd), Tail(queues[q]), v, c)
      <4>1. FindAll(Settle(device), queues[q], v, c) /\ \A i \in 1 .. Len(queues[q]) : IsFor(c, queues[q][i])
        BY <2>5, <2>6 DEF FoundAt
      <4>2. queues[q] \in Seq(CommandType) /\ queues[q] # <<>>
        BY <1>2, <2>4
      <4>3. QED
        BY <2>1, <2>5, <2>9, <4>1, <4>2, HeadIsCarriedOut DEF cmd
    <3>2. left2[<<c, FirstSubArray>>] = Tail(queues[q]) /\ ActiveIsQueued(v, c)
      BY <2>4, <2>5, <2>6 DEF FoundAt
    <3>3. QED
      BY <2>7, <2>8, <3>1, <3>2 DEF FoundAt
  <2>11. ASSUME NEW b \in Bank, b # c
         PROVE  FoundAt(device', left2[<<b, FirstSubArray>>], v, b)
    <3> DEFINE r == <<b, FirstSubArray>>
    <3>1. r \in Queue /\ r # q /\ left2[r] = queues[r] /\ queues[r] \in Seq(CommandType)
      BY <2>3, <2>4, <2>5, <2>11
    <3>2. /\ FindAll(Settle(device), queues[r], v, b) /\ ActiveIsQueued(v, b)
          /\ \A i \in 1 .. Len(queues[r]) : IsFor(b, queues[r][i])
      BY <2>6 DEF FoundAt
    <3> HIDE DEF r
    <3>3. FindAll(Step(device, cmd), queues[r], v, b)
      BY <2>1, <2>5, <2>7, <2>9, <2>11, <3>1, <3>2, OthersStayFound
    <3>4. QED
      BY <2>8, <3>1, <3>2, <3>3 DEF FoundAt, r
  <2>12. QED
    BY <2>5, <2>10, <2>11 DEF FoundMatch, left2
<1>3. QED
  BY <1>1, <1>2 DEF CycleCommandQueues

\* What a run finds for a bank depends on what the view says of that bank only.
LEMMA SameViewOfABank ==
  ASSUME NEW v, NEW w, NEW b, SameBank(v, w, b), NEW dev, NEW cmds, FoundAt(dev, cmds, v, b)
  PROVE  FoundAt(dev, cmds, w, b)
BY DEF SameBank, FoundAt, FindAll, Finds, ViewHolds, ActiveIsQueued

LEMMA SchedulingKeepsFound ==
  ASSUME TypesOK, FoundInv, NEW n \in QueueNumber, NEW next \in SUBSET Waiting, Schedules(n, next)
  PROVE  FoundInv'
<1>1. p' = p
  BY DEF Schedules, CycleWith
<1> SUFFICES ASSUME RowsAreKnown
             PROVE  FoundMatch(device', Left(commandQueues', issued'), view')
  BY <1>1, FoundStands
<1>2. FoundMatch(device, Left(commandQueues, issued), view)
  BY DEF FoundInv
<1>3. CASE next = {}
  <2>1. UNCHANGED <<commandQueues, view>> /\ CycleCommandQueues(commandQueues, Waiting, TRUE)
    BY <1>3 DEF Schedules, CycleWith
  <2>2. commandQueues \in CommandQueues
    BY DEF TypesOK, QueuesOK
  <2>3. QED
    BY <1>2, <2>1, <2>2, CommandsKeepFound
<1>4. CASE next # {}
  <2> DEFINE queues(t) == [commandQueues EXCEPT ![QueueFor(t)] = @ \o MemoryCommands(t)]
             old == Left(commandQueues, issued)
  <2>1. PICK t \in next : /\ commandQueues' = queues(t) /\ view' = ViewAfter(t)
                          /\ CycleCommandQueues(queues(t), Waiting \ {t}, TRUE)
    BY <1>4 DEF Schedules, CycleWith
  <2> DEFINE new == Left(queues(t), issued)
             b == BankOf(t)
             q == <<b, FirstSubArray>>
  <2>2. t \in Transaction /\ commandQueues[QueueFor(t)] = <<>>
    BY WaitingIsTyped, FoundIsReady DEF Schedules
  <2>3. /\ \A c \in Bank : QueueOf(c, FirstSubArray) = <<c, FirstSubArray>> /\ <<c, FirstSubArray>> \in Queue
        /\ QueueFor(t) = q /\ b \in Bank /\ q \in Queue
    BY <2>2, QueuesOfBanks, Configured DEF QueueFor, TypesOK
  <2>4. /\ queues(t) \in CommandQueues
        /\ \A r \in Queue \ {q} : queues(t)[r] = commandQueues[r]
        /\ queues(t)[q] = commandQueues[q] \o MemoryCommands(t)
    <3>1. t \in Waiting
      OBVIOUS
    <3> HIDE DEF q, b
    <3>2. QED
      BY <2>3, <3>1, ScheduledIsTyped
  <2>5. issued # q
    BY <2>2, <2>3, Configured DEF TypesOK, QueuesOK
  <2> HIDE DEF queues
  <2>6. MemoryCommands(t) \in Seq(CommandType)
    BY <2>2, CommandsAreTyped
  <2>7. /\ \A r \in Queue \ {q} : new[r] = old[r]
        /\ old[q] = <<>> /\ new[q] = MemoryCommands(t)
    <3>1. <<>> \o MemoryCommands(t) = MemoryCommands(t)
      BY <2>6, ConcatEmptySeq
    <3>2. QED
      BY <2>2, <2>3, <2>4, <2>5, <3>1 DEF Left
  <2> HIDE DEF old, new
  <2>8. \A c \in Bank : FoundAt(device, old[<<c, FirstSubArray>>], view, c)
    BY <1>2, <2>3 DEF FoundMatch, old
  <2>9. ViewHolds(Settle(device), view, b) /\ ActiveIsQueued(view, b)
    <3>1. FoundAt(device, <<>>, view, b)
      BY <2>3, <2>7, <2>8
    <3>2. QED
      BY <3>1, NoCommand DEF FoundAt
  <2>10. FoundAt(device, new[q], ViewAfter(t), b)
    <3>1. FindAll(Settle(device), MemoryCommands(t), ViewAfter(t), b)
      BY <2>2, <2>9, MemoryCommandsFind
    <3>2. \A i \in 1 .. Len(MemoryCommands(t)) : IsFor(b, MemoryCommands(t)[i])
      BY <2>2, MemoryCommandsAreFor
    <3>3. ActiveIsQueued(ViewAfter(t), b)
      <4>1. CASE FromRDB(t)
        BY <2>9, <4>1 DEF ViewAfter
      <4>2. CASE ~ FromRDB(t) /\ ~ Closes(t)
        BY <2>2, <4>2, ViewOfAnAccess DEF ActiveIsQueued
      <4>3. CASE ~ FromRDB(t) /\ Closes(t)
        <5> SUFFICES ASSUME NEW s \in SubArray, ViewAfter(t).activeSubArray[<<b, s>>]
                     PROVE  ViewAfter(t).activateQueued[b]
          BY DEF ActiveIsQueued
        <5>1. s # SubArrayOf(t)
          BY <2>2, <4>3, ViewOfAnAccess DEF PlaceFor
        <5>2. view.activeSubArray[<<b, s>>]
          BY <2>2, <4>3, <5>1, ViewOfAnAccess DEF SameElsewhere
        <5>3. RowHit(t)
          BY <2>9, <4>3, <5>2 DEF ActiveIsQueued, Closes, BankActive
        <5>4. QED
          BY <2>2, <4>3, <5>1, <5>2, <5>3, ViewOfAnAccess
      <4>4. QED
        BY <4>1, <4>2, <4>3
    <3>4. QED
      BY <2>7, <3>1, <3>2, <3>3 DEF FoundAt
  <2>11. ASSUME NEW c \in Bank, c # b
         PROVE  FoundAt(device, new[<<c, FirstSubArray>>], ViewAfter(t), c)
    <3>1. new[<<c, FirstSubArray>>] = old[<<c, FirstSubArray>>]
      BY <2>3, <2>7, <2>11
    <3>2. SameBank(view, ViewAfter(t), c)
      <4>1. CASE FromRDB(t)
        BY <4>1 DEF ViewAfter, SameBank
      <4>2. CASE ~ FromRDB(t)
        BY <2>2, <2>11, <4>2, ViewOfAnAccess
      <4>3. QED
        BY <4>1, <4>2
    <3>3. QED
      BY <2>8, <3>1, <3>2, SameViewOfABank
  <2>12. FoundMatch(device, new, ViewAfter(t))
    BY <2>3, <2>10, <2>11 DEF FoundMatch
  <2>13. FoundMatch(device', Left(queues(t), issued'), ViewAfter(t))
    BY <2>1, <2>4, <2>12, CommandsKeepFound DEF new
  <2>14. QED
    BY <2>1, <2>13
<1>5. QED
  BY <1>3, <1>4

LEMMA AllAreFor ==
  ASSUME NEW b, NEW s \in Seq(CommandType), NEW r \in Seq(CommandType),
         \A i \in 1 .. Len(s) : IsFor(b, s[i]), \A i \in 1 .. Len(r) : IsFor(b, r[i])
  PROVE  \A i \in 1 .. Len(s \o r) : IsFor(b, (s \o r)[i])
<1> DEFINE c == s \o r
<1>1. /\ Len(s) \in Nat /\ Len(r) \in Nat /\ Len(c) = Len(s) + Len(r)
      /\ \A i \in 1 .. Len(s) + Len(r) : c[i] = IF i <= Len(s) THEN s[i] ELSE r[i - Len(s)]
  BY ConcatProperties, LenProperties
<1> SUFFICES ASSUME NEW i \in 1 .. Len(c)
             PROVE  IsFor(b, c[i])
  OBVIOUS
<1> HIDE DEF c
<1>2. CASE i <= Len(s)
  <2>1. i \in 1 .. Len(s) /\ c[i] = s[i]
    BY <1>1, <1>2
  <2>2. QED
    BY <2>1
<1>3. CASE ~ i <= Len(s)
  <2>1. i - Len(s) \in 1 .. Len(r) /\ c[i] = r[i - Len(s)]
    BY <1>1, <1>3
  <2>2. QED
    BY <2>1
<1>4. QED
  BY <1>2, <1>3

LEMMA RefreshKeepsFound ==
  ASSUME TypesOK, FoundInv, NEW j \in Bank, RefreshCallback(j)
  PROVE  FoundInv'
<1>1. early /\ GroupHead(j) = j /\ UNCHANGED <<p, issued, device>>
  BY DEF RefreshCallback
<1>2. issued = NoQueue /\ NoQueue \notin Queue /\ p \in Configurations /\ UsePrecharge \in BOOLEAN
  BY <1>1, Configured DEF TypesOK, QueuesOK, UsePrecharge
<1> SUFFICES ASSUME RowsAreKnown
             PROVE  FoundMatch(device', Left(commandQueues', issued'), view')
  BY <1>1, FoundStands
<1>3. FoundMatch(device, Left(commandQueues, issued), view)
  BY DEF FoundInv
<1>4. CASE ~ NeedRefresh(delayedRefreshCounter[j] + 1)
  <2>1. UNCHANGED <<commandQueues, view>>
    BY <1>4 DEF RefreshCallback
  <2>2. QED
    BY <1>1, <1>3, <2>1
<1>5. CASE NeedRefresh(delayedRefreshCounter[j] + 1)
  <2>1. WithRefresh(j)
    BY <1>5 DEF RefreshCallback
  <2>2. \A b \in Bank : QueueOf(b, FirstSubArray) = <<b, FirstSubArray>> /\ <<b, FirstSubArray>> \in Queue
    BY QueuesOfBanks
  <2>3. \A q \in Queue : /\ RefreshFor(j, q) \in Seq(CommandType)
                         /\ commandQueues'[q] = commandQueues[q] \o RefreshFor(j, q)
                         /\ commandQueues[q] \in Seq(CommandType)
    BY <2>1, RefreshIsTyped DEF TypesOK, QueuesOK, CommandQueues
  <2>4. \A q \in Queue : /\ Left(commandQueues, issued)[q] = commandQueues[q]
                         /\ Left(commandQueues', issued')[q] = commandQueues'[q]
    BY <1>1, <1>2 DEF Left
  <2> DEFINE precharged == {b \in Group(j) : UsePrecharge /\ view.activateQueued[b]}
  <2>5. /\ \A b \in Bank \ precharged : SameBank(view, view', b)
        /\ \A b \in precharged : /\ ~ view'.activateQueued[b]
                                 /\ \A s \in SubArray : ~ view'.activeSubArray[<<b, s>>]
    <3>1. view' = [view EXCEPT
             !.activateQueued = [b \in Bank |-> view.activateQueued[b] /\ b \notin precharged],
             !.activeSubArray = [at \in Place |-> view.activeSubArray[at] /\ at[1] \notin precharged],
             !.effectiveRow = [at \in Place |-> IF at[1] \in precharged THEN NoRow ELSE view.effectiveRow[at]]]
      BY <2>1 DEF WithRefresh
    <3>2. precharged \subseteq Bank
      BY DEF Group
    <3> HIDE DEF precharged
    <3>3. view \in ViewType
      BY DEF TypesOK
    <3>4. /\ view'.activateQueued = [b \in Bank |-> view.activateQueued[b] /\ b \notin precharged]
          /\ view'.activeSubArray = [at \in Place |-> view.activeSubArray[at] /\ at[1] \notin precharged]
          /\ view'.effectiveRow =
               [at \in Place |-> IF at[1] \in precharged THEN NoRow ELSE view.effectiveRow[at]]
      BY <3>1, <3>3 DEF ViewType
    <3>5. \A b \in Bank, s \in SubArray : <<b, s>> \in Place /\ <<b, s>>[1] = b
      BY DEF Place
    <3>6. /\ view.activateQueued \in [Bank -> BOOLEAN] /\ view.activeSubArray \in [Place -> BOOLEAN]
      BY <3>3 DEF ViewType
    <3>7. \A b \in Bank \ precharged : SameBank(view, view', b)
      <4> SUFFICES ASSUME NEW b \in Bank \ precharged
                   PROVE  SameBank(view, view', b)
        OBVIOUS
      <4>1. view'.activateQueued[b] = view.activateQueued[b]
        BY <3>4, <3>6
      <4>2. ASSUME NEW s \in SubArray
            PROVE  /\ view'.activeSubArray[<<b, s>>] = view.activeSubArray[<<b, s>>]
                   /\ view'.effectiveRow[<<b, s>>] = view.effectiveRow[<<b, s>>]
        <5>1. <<b, s>> \in Place /\ <<b, s>>[1] = b /\ view.activeSubArray[<<b, s>>] \in BOOLEAN
          BY <3>5, <3>6
        <5>2. QED
          BY <3>4, <5>1
      <4>3. QED
        BY <4>1, <4>2 DEF SameBank
    <3>8. QED
      BY <3>2, <3>4, <3>5, <3>7
  <2> HIDE DEF precharged
  <2>6. ASSUME NEW b \in Bank
        PROVE  FoundAt(device, commandQueues'[<<b, FirstSubArray>>], view', b)
    <3> DEFINE q == <<b, FirstSubArray>>
               s == commandQueues[q]
               all == AllOf(q)
               refresh == RefreshOf(j)
    <3>1. FoundAt(device, s, view, b)
      BY <1>3, <2>2, <2>4 DEF FoundMatch
    <3>2. /\ q \in Queue /\ s \in Seq(CommandType) /\ commandQueues'[q] = s \o RefreshFor(j, q)
          /\ RefreshFor(j, q) \in Seq(CommandType)
      BY <2>2, <2>3
    <3>0. \A c \in Bank : QueueOf(c, FirstSubArray) = q <=> c = b
      <4>1. \A c : <<c, FirstSubArray>> = q <=> c = b
        OBVIOUS
      <4> HIDE DEF q
      <4>2. QED
        BY <2>2, <4>1
    <3>3. FirstSubArray \in SubArray /\ j \in Group(j) /\ (b = j <=> QueueOf(j, FirstSubArray) = q)
      BY <3>0, BankRowsAssumption, BankIsOfItsGroup
    <3>4. IsPrecharged(j, q) <=> b \in precharged
      <4>1. \A c \in Group(j) : c \in Bank /\ (QueueOf(c, FirstSubArray) = q <=> c = b)
        BY <3>0 DEF Group
      <4>2. QED
        BY <4>1 DEF IsPrecharged, precharged
    <3>5. /\ all.bank = b /\ all.type = "PRECHARGE_ALL" /\ refresh.bank = j /\ refresh.type = "REFRESH"
          /\ all \in CommandType /\ refresh \in CommandType
      BY <3>3 DEF AllOf, RefreshOf, Command, CommandType, CommandKind, ColumnAccesses
    <3>6. (b \in precharged => IsFor(b, all)) /\ (b = j => IsFor(b, refresh))
      BY <1>1, <3>5 DEF IsFor, precharged
    <3>7. IsSettled(Settle(device))
      BY SettleFacts DEF TypesOK
    <3>8. /\ \A i \in 1 .. Len(s) : IsFor(b, s[i])
          /\ FindAll(Settle(device), s, view, b) /\ ActiveIsQueued(view, b)
      BY <3>1 DEF FoundAt
    <3>9. <<all>> \in Seq(CommandType) /\ <<refresh>> \in Seq(CommandType)
          /\ <<all, refresh>> = <<all>> \o <<refresh>>
      BY <3>5, ShortSequences
    <3> HIDE DEF s, all, refresh
    <3>10. b \in precharged =>
             /\ ActiveIsQueued(view', b)
             /\ \A mid : IsSettled(mid) => FindAll(mid, <<all>>, view', b)
             /\ \A t \in SubArray : ~ view'.activeSubArray[<<b, t>>]
      BY <1>2, <2>5, <3>5, <3>6, PrechargeAllFinds DEF ActiveIsQueued
    <3>11. b \notin precharged => FoundAt(device, s, view', b)
      BY <2>5, <3>1, SameViewOfABank
    <3>12. b = j =>
             \A mid : IsSettled(mid) /\ ViewHolds(mid, view', b) => FindAll(mid, <<refresh>>, view', b)
      <4> SUFFICES ASSUME b = j, NEW mid, IsSettled(mid), ViewHolds(mid, view', b)
                   PROVE  FindAll(mid, <<refresh>>, view', b)
        OBVIOUS
      <4>1. UsePrecharge => \A t \in SubArray : ~ view'.activeSubArray[<<b, t>>]
        <5>1. CASE b \in precharged
          BY <3>10, <5>1
        <5>2. CASE b \notin precharged /\ UsePrecharge
          <6>1. ~ view.activateQueued[b]
            BY <3>3, <5>2 DEF precharged
          <6>2. QED
            BY <2>5, <3>8, <5>2, <6>1 DEF SameBank, ActiveIsQueued
        <5>3. QED
          BY <5>1, <5>2
      <4> HIDE DEF q
      <4>2. QED
        BY <1>2, <3>5, <3>6, <4>1, RefreshFinds
    <3>13. CASE b \in precharged
      <4>1. FindAll(Settle(device), s \o <<all>>, view', b)
        BY <1>2, <3>2, <3>7, <3>8, <3>9, <3>10, <3>13, LongerRuns
      <4>2. CASE b # j
        <5>1. RefreshFor(j, q) = <<all>>
          BY <3>3, <3>4, <3>13, <4>2 DEF RefreshFor, all
        <5>2. \A i \in 1 .. Len(<<all>>) : IsFor(b, <<all>>[i])
          BY <3>6, <3>13
        <5>3. \A i \in 1 .. Len(s \o <<all>>) : IsFor(b, (s \o <<all>>)[i])
          BY <3>2, <3>8, <3>9, <5>2, AllAreFor
        <5>4. QED
          BY <3>2, <3>10, <3>13, <4>1, <5>1, <5>3 DEF FoundAt
      <4>3. CASE b = j
        <5>1. RefreshFor(j, q) = <<all, refresh>>
          BY <3>3, <3>4, <3>13, <4>3 DEF RefreshFor, all, refresh
        <5>2. \A i \in 1 .. Len(<<all, refresh>>) : IsFor(b, <<all, refresh>>[i])
          BY <3>6, <3>13, <4>3
        <5>3. \A i \in 1 .. Len(s \o <<all, refresh>>) : IsFor(b, (s \o <<all, refresh>>)[i])
          BY <3>2, <3>8, <5>1, <5>2, AllAreFor
        <5>4. s \o <<all>> \in Seq(CommandType) /\ s \o <<all, refresh>> = (s \o <<all>>) \o <<refresh>>
          BY <3>2, <3>9, ConcatProperties, ConcatAssociative
        <5>5. FindAll(Settle(device), (s \o <<all>>) \o <<refresh>>, view', b)
          BY <1>2, <3>7, <3>9, <3>12, <4>1, <4>3, <5>4, LongerRuns
        <5>6. QED
          BY <3>2, <3>10, <3>13, <5>1, <5>3, <5>4, <5>5 DEF FoundAt
      <4>4. QED
        BY <4>2, <4>3
    <3>14. CASE b \notin precharged
      <4>1. CASE b # j
        <5>1. RefreshFor(j, q) = <<>>
          BY <3>3, <3>4, <3>14, <4>1 DEF RefreshFor
        <5>2. s \o <<>> = s
          BY <3>2, ConcatEmptySeq
        <5>3. QED
          BY <3>2, <3>11, <3>14, <5>1, <5>2
      <4>2. CASE b = j
        <5>1. RefreshFor(j, q) = <<refresh>>
          BY <3>3, <3>4, <3>14, <4>2 DEF RefreshFor, refresh
        <5>2. \A i \in 1 .. Len(<<refresh>>) : IsFor(b, <<refresh>>[i])
          BY <3>6, <4>2
        <5>3. \A i \in 1 .. Len(s \o <<refresh>>) : IsFor(b, (s \o <<refresh>>)[i])
          BY <3>2, <3>8, <3>9, <5>2, AllAreFor
        <5>4. FindAll(Settle(device), s, view', b) /\ ActiveIsQueued(view', b)
          BY <3>11, <3>14 DEF FoundAt
        <5>5. FindAll(Settle(device), s \o <<refresh>>, view', b)
          BY <1>2, <3>2, <3>7, <3>9, <3>12, <4>2, <5>4, LongerRuns
        <5>6. QED
          BY <3>2, <5>1, <5>3, <5>4, <5>5 DEF FoundAt
      <4>3. QED
        BY <4>1, <4>2
    <3>15. QED
      BY <3>13, <3>14
  <2>7. QED
    BY <1>1, <2>2, <2>4, <2>6 DEF FoundMatch
<1>6. QED
  BY <1>4, <1>5

\* A response that is back is one under way less.
LEMMA ResponseKeepsFound ==
  ASSUME TypesOK, FoundInv, NEW at \in Place, RequestComplete(at)
  PROVE  FoundInv'
<1>1. device' = [device EXCEPT !.rows[at] = Settled(@)] /\ UNCHANGED <<p, commandQueues, issued, view>>
  BY DEF RequestComplete
<1>2. Settle(device') = Settle(device)
  <2> DEFINE one == device.rows
             two == [one EXCEPT ![at] = Settled(one[at])]
  <2>1. one \in [Place -> RowType] /\ device = [rows |-> one, buffers |-> device.buffers]
    BY DEF TypesOK, DeviceType, RowsType, RowType
  <2>2. device' = [rows |-> two, buffers |-> device.buffers]
    BY <1>1, <2>1
  <2>3. \A k \in RowType : Settled(Settled(k)) = Settled(k)
    BY DEF Settled, RowType
  <2> HIDE DEF one
  <2>4. \A x \in Place : Settled(two[x]) = Settled(one[x])
    BY <2>1, <2>3
  <2> HIDE DEF two
  <2>5. AllSettled(two) = AllSettled(one)
    BY <2>4 DEF AllSettled
  <2>6. \A rows : Settle([rows |-> rows, buffers |-> device.buffers]) =
                    [rows |-> AllSettled(rows), buffers |-> device.buffers]
    BY DEF Settle
  <2>7. QED
    BY <2>1, <2>2, <2>5, <2>6
<1>3. \A cmds, v, b : FoundAt(device', cmds, v, b) <=> FoundAt(device, cmds, v, b)
  BY <1>2 DEF FoundAt
<1>4. QED
  BY <1>1, <1>3, FoundStands DEF FoundInv, FoundMatch

LEMMA NextCycleKeepsFound ==
  ASSUME TypesOK, FoundInv, NEW due \in BOOLEAN, NextCycle(due)
  PROVE  FoundInv'
<1>1. /\ commandQueues' = [q \in Queue |-> Unissued(q)] /\ issued' = NoQueue
      /\ UNCHANGED <<p, view, device>>
  BY DEF NextCycle
<1>2. NoQueue \notin Queue
  BY Configured DEF TypesOK
<1>3. Left(commandQueues', issued') = Left(commandQueues, issued)
  BY <1>1, <1>2 DEF Left, Unissued
<1>4. QED
  BY <1>1, <1>3, FoundStands DEF FoundInv

LEMMA CallbackKeepsFound ==
  ASSUME TypesOK, FoundInv, CommandQueueCallback
  PROVE  FoundInv'
<1>1. UNCHANGED <<p, commandQueues, view>> /\ CycleCommandQueues(commandQueues, Waiting, FALSE)
  BY DEF CommandQueueCallback
<1>2. commandQueues \in CommandQueues
  BY DEF TypesOK, QueuesOK
<1>3. RowsAreKnown => FoundMatch(device', Left(commandQueues', issued'), view')
  BY <1>1, <1>2, CommandsKeepFound DEF FoundInv
<1>4. QED
  BY <1>1, <1>3, FoundStands

LEMMA NextKeepsFound ==
  ASSUME IInv, FoundInv, [Next]_allVars
  PROVE  FoundInv'
<1>1. TypesOK
  BY DEF IInv
<1>2. ASSUME UNCHANGED <<p, commandQueues, issued, view, device>>
      PROVE  FoundInv'
  BY <1>2, FoundStands DEF FoundInv
<1>3. ASSUME NEW n \in QueueNumber, NEW t \in Transaction, Arrives(n, t)
      PROVE  FoundInv'
  BY <1>2, <1>3 DEF Arrives, Enqueue
<1>4. CASE UNCHANGED vars
  BY <1>2, <1>4 DEF vars
<1>5. QED
  BY <1>1, <1>3, <1>4, ControllerSteps, SchedulingKeepsFound, CallbackKeepsFound, RefreshKeepsFound,
     ResponseKeepsFound, NextCycleKeepsFound

LEMMA NothingToFind ==
  ASSUME Init
  PROVE  FoundInv
<1>1. /\ p \in Configurations /\ issued = NoQueue /\ commandQueues = [q \in Queue |-> <<>>]
      /\ device = InitDevice
      /\ view.activeSubArray = [at \in Place |-> FALSE]
  BY DEF Init, InitController, NothingToDo
<1>2. \A b \in Bank : Left(commandQueues, issued)[QueueOf(b, FirstSubArray)] = <<>>
  BY <1>1, Configured DEF Left
<1>3. \A b \in Bank, s \in SubArray : ~ view.activeSubArray[<<b, s>>]
  BY <1>1 DEF Place
<1>4. ASSUME NEW b \in Bank, NEW s \in SubArray
      PROVE  Settle(device).rows[<<b, s>>].state = "CLOSED"
  <2>1. device \in DeviceType
    BY InitIsFine DEF IInv, TypesOK
  <2>2. <<b, s>> \in Place /\ device.rows[<<b, s>>].state = "CLOSED"
    BY <1>1 DEF InitDevice, InitRows, Place
  <2>3. QED
    BY <2>1, <2>2, SettleFacts
<1>5. \A b \in Bank : FoundAt(device, <<>>, view, b)
  <2> SUFFICES ASSUME NEW b \in Bank
               PROVE  FoundAt(device, <<>>, view, b)
    OBVIOUS
  <2>1. ViewHolds(Settle(device), view, b) /\ ActiveIsQueued(view, b)
    BY <1>3, <1>4 DEF ViewHolds, ActiveIsQueued
  <2>2. FindAll(Settle(device), <<>>, view, b)
    BY <2>1, NoCommand
  <2>3. \A i \in 1 .. Len(<<>>) : IsFor(b, <<>>[i])
    OBVIOUS
  <2>4. QED
    BY <2>1, <2>2, <2>3 DEF FoundAt
<1>6. QED
  BY <1>2, <1>5 DEF FoundInv, FoundMatch

LEMMA AlwaysFoundInv == Spec => []FoundInv
BY NothingToFind, NextKeepsFound, AlwaysIInv, PTL DEF Spec
-----------------------------------------------------------------------------
(* The theorems.                                                           *)

\* Every queue, counter, flag and row buffer keeps its type, and the event count of
\* a cycle never passes two.
THEOREM ControllersType == Spec => []TypeOK
<1>1. IInv => TypeOK
  <2> SUFFICES ASSUME IInv
               PROVE  TypeOK
    OBVIOUS
  <2>1. TypesOK
    BY DEF IInv
  <2>2. ASSUME NEW q \in Queue, NEW i \in DOMAIN commandQueues[q]
        PROVE  commandQueues[q][i].type \in CommandKind
    <3>1. commandQueues[q] \in Seq(CommandType)
      BY <2>1 DEF TypesOK, QueuesOK, CommandQueues
    <3>2. commandQueues[q][i] \in CommandType
      BY <3>1, LenProperties, ElementOfSeq
    <3>3. QED
      BY <3>2 DEF CommandType
  <2>3. p \in Configurations /\ TransactionsOK /\ view \in ViewType /\ device \in DeviceType /\ DrainsOK
    BY <2>1 DEF TypesOK
  <2>4. issued \in Queue \cup {NoQueue} /\ RefreshOK /\ EventsOK
    BY <2>1 DEF TypesOK, QueuesOK
  <2>5. QED
    BY <2>2, <2>3, <2>4 DEF TypeOK, TransactionsOK, ViewType, DrainsOK, RefreshOK, EventsOK, CommandKind
<1>2. QED
  BY <1>1, AlwaysIInv, PTL

\* HandleRefresh flags the banks of a group and queues one refresh at its head; the
\* flags are reset when that refresh is issued: no bank is flagged without its refresh
\* and no refresh is queued for a bank that takes transactions.
THEOREM RefreshFlags == Spec => []RefreshFlagsMatchTheQueues
<1>1. IInv => RefreshFlagsMatchTheQueues
  <2> SUFFICES ASSUME IInv, NEW b \in Bank
               PROVE  refreshQueued[b] <=> HasRefresh(Unissued(QueueOf(GroupHead(b), FirstSubArray)))
    BY DEF RefreshFlagsMatchTheQueues, HasRefresh
  <2>1. QueueOf(GroupHead(b), FirstSubArray) \in Queue
    BY HeadIsBank, Configured DEF IInv, TypesOK
  <2>2. QED
    BY <2>1, UnissuedIsLeft DEF IInv, RefreshInv, RefreshesMatch, FlagsMatch
<1>2. QED
  BY <1>1, AlwaysIInv, PTL

\* With a command queue per bank the controller never sleeps while it has work:
\* ScheduleCommandWake, the wake-up for an emptied queue and the one of Enqueue leave
\* none out.  With a queue per subarray NextIssuable asks only the queues of the first
\* subarrays, and a command in another one can be left without a wake-up.
THEOREM NobodySleeps == Spec => [](~ p.PerSubArrayQueues => WorkHasAWakeUp)
<1>1. IInv => (~ p.PerSubArrayQueues => WorkHasAWakeUp)
  <2> SUFFICES ASSUME IInv, ~ p.PerSubArrayQueues
               PROVE  WorkHasAWakeUp
    OBVIOUS
  <2>1. \A q \in Queue : Left(commandQueues, issued)[q] = Unissued(q)
    BY UnissuedIsLeft
  <2>2. \A t \in Waiting : QueueFor(t) \in Queue
    BY WaitingIsTyped, Configured DEF IInv, TypesOK
  <2>3. ASSUME NEW q \in Queue, ~ EffectivelyEmpty(q), ~ ServedByRDB(device, Head(Unissued(q)))
        PROVE  wake \/ wakeLater
    BY <2>1, <2>3 DEF IInv, WakesInv, WakesMatch, OnlyFromRDB, Asleep, EffectivelyEmpty
  <2>4. ASSUME NEW t \in Waiting, EffectivelyEmpty(QueueFor(t))
        PROVE  cycles > 0 \/ cyclesNext > 0
    BY <2>1, <2>2, <2>4 DEF IInv, WakesInv, WakesMatch, CyclesLeft, EffectivelyEmpty
  <2>5. QED
    BY <2>3, <2>4 DEF WorkHasAWakeUp
<1>2. QED
  BY <1>1, AlwaysIInv, PTL

\* A scheduler reorders rows and banks but never two requests to one row that wait in
\* one queue: each search takes the first of its kind, requests to one row are of the
\* same kind, and what has arrived in this cycle is behind everything else.
THEOREM RowOrder == Spec => RowsAreServedInOrder
<1> DEFINE InOrder ==
      \A n \in QueueNumber :
        LET queue == transactionQueues[n]
        IN  \A i, j \in DOMAIN queue :
              /\ i < j /\ PlaceFor(queue[i]) = PlaceFor(queue[j]) /\ RowOf(queue[i]) = RowOf(queue[j])
              /\ queue[j] \notin Waiting'
              => queue[i] \notin Waiting'
<1>1. ASSUME IInv, [Next]_allVars, ~ (p.rowBuffers > 0 /\ p.readOnlyBuffers),
             NEW n \in QueueNumber, NEW i \in DOMAIN transactionQueues[n],
             NEW j \in DOMAIN transactionQueues[n], i < j,
             SameRow(transactionQueues[n][i], transactionQueues[n][j]),
             transactionQueues[n][j] \notin Waiting'
      PROVE  FALSE
  <2>1. TypesOK /\ OrderInv
    BY <1>1 DEF IInv
  <2>2. transactionQueues[n][j] \in Waiting
    <3>1. transactionQueues[n][j] \in ToSet(transactionQueues[n])
      BY DEF ToSet
    <3>2. QED
      BY <2>1, <3>1, WaitingIsTyped
  <2>3. ASSUME Waiting' = Waiting \/ \E t : Waiting' = Waiting \cup {t}
        PROVE  FALSE
    BY <1>1, <2>2, <2>3
  <2>4. ASSUME NEW m \in QueueNumber, NEW t \in Transaction, Arrives(m, t)
        PROVE  FALSE
    BY <2>1, <2>3, <2>4, ArrivalKeepsOrder
  <2>5. ASSUME NEW m \in QueueNumber, NEW next \in SUBSET Waiting, Schedules(m, next)
        PROVE  FALSE
    <3>1. PICK t \in next : IsFound(m, t) /\ Waiting' = Waiting \ {t}
      BY <2>1, <2>3, <2>5, SchedulingKeepsOrder
    <3>2. transactionQueues[n][j] = t
      BY <1>1, <2>2, <3>1
    <3>3. QED
      BY <1>1, <2>1, <3>1, <3>2, FirstOfItsRow
  <2>6. CASE CommandQueueCallback
    BY <2>1, <2>3, <2>6, OrderStands DEF CommandQueueCallback
  <2>7. ASSUME NEW b \in Bank, RefreshCallback(b)
        PROVE  FALSE
    BY <2>1, <2>3, <2>7, OrderStands DEF RefreshCallback
  <2>8. ASSUME NEW at \in Place, RequestComplete(at)
        PROVE  FALSE
    BY <2>1, <2>3, <2>8, OrderStands DEF RequestComplete
  <2>9. ASSUME NEW due \in BOOLEAN, NextCycle(due)
        PROVE  FALSE
    BY <2>1, <2>3, <2>9, OrderStands DEF NextCycle
  <2>10. CASE UNCHANGED vars
    BY <2>1, <2>3, <2>10, OrderStands DEF vars
  <2>11. QED
    BY <1>1, <2>1, <2>4, <2>5, <2>6, <2>7, <2>8, <2>9, <2>10, ControllerSteps
<1>2. IInv /\ [Next]_allVars => [~ (p.rowBuffers > 0 /\ p.readOnlyBuffers) => InOrder]_allVars
  BY <1>1 DEF SameRow
<1>3. QED
  BY <1>2, AlwaysIInv, PTL DEF Spec, RowsAreServedInOrder

\* The commands that wait find their rows as they need them, in whatever order the
\* queues of different banks come to be issued.
THEOREM RowsAreFound == Spec => [](RowsAreKnown => CommandsFindTheirRows)
<1>1. IInv /\ FoundInv => (RowsAreKnown => CommandsFindTheirRows)
  <2> SUFFICES ASSUME IInv, FoundInv, RowsAreKnown, NEW q \in Queue
               PROVE  LET cmds == Unissued(q)
                          run == CarriedOut(cmds)
                          end == run[Len(cmds)].rows
                      IN  /\ \A i \in DOMAIN cmds : cmds[i].type = "REFRESH" \/ DeviceAccepts(run[i - 1], cmds[i])
                          /\ \A at \in Place : QueueOf(at[1], at[2]) = q =>
                               /\ view.activeSubArray[at] =>
                                    end[at] = [state |-> "OPEN", row |-> view.effectiveRow[at]]
                               /\ UsePrecharge /\ ~ view.activeSubArray[at] => end[at].state = "CLOSED"
    BY DEF CommandsFindTheirRows
  <2> DEFINE b == q[1]
             cmds == Unissued(q)
             run == CarriedOut(cmds)
  <2>1. TypesOK /\ p \in Configurations
    BY DEF IInv, TypesOK
  <2>2. /\ b \in Bank /\ q = <<b, FirstSubArray>> /\ QueueOf(b, FirstSubArray) = q
        /\ \A c, s : QueueOf(c, s) = q => c = b
    <3>1. \A c, s : QueueOf(c, s) = <<c, FirstSubArray>>
      BY <2>1, QueuesOfBanks
    <3>2. b \in Bank /\ q = <<b, FirstSubArray>>
      BY <2>1, QueuesOfBanks
    <3>3. QED
      BY <3>1, <3>2
  <2>3. cmds \in Seq(CommandType)
    BY <2>1, UnissuedIsTyped
  <2>4. FindAll(Settle(device), cmds, view, b)
    <3>1. Left(commandQueues, issued)[q] = cmds
      BY UnissuedIsLeft
    <3>2. FoundAt(device, cmds, view, b)
      BY <2>2, <3>1 DEF FoundInv, FoundMatch
    <3>3. QED
      BY <3>2 DEF FoundAt
  <2> HIDE DEF cmds
  <2>5. IsRun(run, Settle(device), cmds)
    BY <2>1, <2>3, CarriedOutIsARun
  <2> HIDE DEF run, b
  <2>6. AllAccepted(run, cmds) /\ ViewHolds(run[Len(cmds)], view, b)
    BY <2>4, <2>5 DEF FindAll, Finds
  <2>7. DOMAIN cmds = 1 .. Len(cmds)
    BY <2>3, LenProperties
  <2>8. \A i \in DOMAIN cmds : cmds[i].type = "REFRESH" \/ DeviceAccepts(run[i - 1], cmds[i])
    BY <2>6, <2>7 DEF AllAccepted
  <2>9. ASSUME NEW at \in Place, QueueOf(at[1], at[2]) = q
        PROVE  /\ view.activeSubArray[at] =>
                    run[Len(cmds)].rows[at] = [state |-> "OPEN", row |-> view.effectiveRow[at]]
               /\ UsePrecharge /\ ~ view.activeSubArray[at] => run[Len(cmds)].rows[at].state = "CLOSED"
    <3>1. at = <<b, at[2]>> /\ at[2] \in SubArray
      BY <2>2, <2>9 DEF Place
    <3>2. QED
      BY <2>6, <3>1 DEF ViewHolds
  <2>10. QED
    BY <2>8, <2>9 DEF run, cmds
<1>2. QED
  BY <1>1, AlwaysIInv, AlwaysFoundInv, PTL
=============================================================================
