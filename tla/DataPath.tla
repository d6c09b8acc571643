------------------------------- MODULE DataPath -------------------------------
(* The data of a write on its way into the cells: the address is           *)
(* translated, the subarray's encoder may invert the data, its endurance   *)
(* model is charged for what changes, and the simulator's interface keeps  *)
(* what was written.  A write that was paused or cancelled comes again.    *)
EXTENDS AddressTranslator, EnduranceModel, NVMainTrace

CONSTANTS
  Address,          \* the physical addresses accessed
  Data,             \* the words written
  NoData,
  Configurations,   \* the configurations explored, see p below
  MaxWrites         \* bounds the writes explored

\* A scheme names no part twice, and there is room for the rows of a subarray in a bank.
Configured(c) ==
  /\ {c.ROWS, c.COLS, c.BANKS, c.RANKS, c.CHANNELS} \subseteq Nat \ {0}
  /\ c.COLS = COLS /\ c.MATHeight \in 0 .. c.ROWS
  /\ c.scheme \in Seq(Part) /\ IsInjective(c.scheme)
  /\ c.decoder \in {"AddressTranslator", "DRCDecoder"} /\ c.ignoreBits \in Nat
  /\ c.model \in {"RowModel", "WordModel", "ByteModel", "BitModel"}

\* An address begins what the decoder takes for one, and is in the memory: the parts
\* leave nothing of it.
IsDecoded(c, a) ==
  LET m == Method(c)
      unit == IF c.decoder = "DRCDecoder" THEN DRCUnit(c.ignoreBits) ELSE Burst
      parts == IF c.decoder = "DRCDecoder" THEN DRCLowToHigh(m) ELSE LowToHigh(m)
  IN  a % unit = 0 /\ RefAddress(m, parts, a \div unit)[Len(parts)] = 0

ASSUME DataPathAssumption ==
  /\ Address \subseteq Nat /\ MaxWrites \in Nat
  /\ Data \subseteq [Bit -> {0, 1}] /\ NoData \notin Address \cup [Bit -> {0, 1}]
  /\ \A c \in Configurations : Configured(c) /\ \A a \in Address : IsDecoded(c, a)

VARIABLES
  p,            \* the sizes and the scheme, see Method, decoder, ignoreBits, encoder,
                \* model, source: "gem5" or a trace of version "NVMV1" or older, "NVMV0",
                \* pausing: may writes be paused or cancelled?
  method,       \* the translation method that NVMain has set up
  place,        \* the places of the addresses, once they are translated
  program,      \* what the program has in its memory: the data of the trace
  memoryData,   \* SimInterface's copy, as it was written to the cells
  flippedAddresses,   \* subarray and partition
  life,         \* subarray and key -> writes left
  request,      \* the write in the subarray: address, data and oldData
  writes,       \* counts the writes
  wear          \* history: subarray and unit -> how often it was really written
vars == <<p, method, place, program, memoryData, flippedAddresses, life, request, writes, wear>>

\* The decoders from NVMain to the bank, and the subarray they lead to.
Fields == <<"CH", "NO_FIELD", "RK", "BK", "SA">>
SubArrayOf(a) == [i \in DOMAIN Fields |-> FieldOf(place[a], Fields[i])]
Row(a) == place[a]["R"]
Col(a) == place[a]["C"]

\* The content of the cells of an address: zero until something is written.
Cells(a) == IF memoryData[a] = NoData THEN Zero ELSE memoryData[a]

\* FlipNWrite's key for a partition of a word of a row.
FlipKey(a, i) == <<SubArrayOf(a), Row(a) * COLS * flipPartitions + Col(a) * flipPartitions + i>>
Flipped(a) == {i \in Partition : FlipKey(a, i) \in flippedAddresses}

NoRequest == [address |-> NoData, data |-> Zero, oldData |-> Zero]

\* The decoder and its method are set up by NVMain, for a cache by DRAMCache.
PlaceOf(a) ==
  IF p.decoder = "DRCDecoder" THEN DRCTranslate(method, p.ignoreBits, a)
  ELSE Translate(method, a)

Init ==
  /\ p \in Configurations /\ method = Method(p)
  /\ place = [a \in Address |-> PlaceOf(a)]
  /\ program = [a \in Address |-> Zero]
  /\ memoryData = [a \in Address |-> NoData]
  /\ flippedAddresses = {}
  /\ life = [k \in {} |-> 0] /\ wear = [k \in {} |-> 0]
  /\ request = NoRequest /\ writes = 0
-----------------------------------------------------------------------------
\* Mutant: the old data is taken as the program knows it.
CurrentlyInMemoryRaw(req) == req.oldData

\* The old data as it is in the cells.
CurrentlyInMemory(req) ==
  IF p.encoder = "FlipNWrite" THEN InvertPartitions(req.oldData, Flipped(req.address)) ELSE req.oldData

\* Mutant: a partition that is not inverted any more stays marked.
MarksNeverErased(a, inverted) == flippedAddresses \cup {FlipKey(a, i) : i \in inverted}

\* Exactly the partitions that are inverted are marked.
Marks(a, inverted) ==
  (flippedAddresses \ {FlipKey(a, i) : i \in Partition}) \cup {FlipKey(a, i) : i \in inverted}

\* DataEncoder::Write: the request's data become those that go to the cells.
Encode(req) ==
  LET old == CurrentlyInMemory(req)
      inverted == IF p.encoder = "FlipNWrite" THEN ToInvert(old, req.data) ELSE {}
  IN  /\ request' = [req EXCEPT !.data = InvertPartitions(@, inverted), !.oldData = old]
      /\ flippedAddresses' = Marks(req.address, inverted)

\* EnduranceModel::Write.
ChargeLife(a, old, new) ==
  LET units == Units(p.model, Row(a), Col(a), Changed(old, new))
  IN  life' = DecrementLife(life, {<<SubArrayOf(a), Key(p.model, u)>> : u \in units})

\* The wear there really is.
CountWear(a, new) ==
  LET worn == {<<SubArrayOf(a), u>> : u \in Units(p.model, Row(a), Col(a), Changed(Cells(a), new))}
  IN  wear' = [k \in DOMAIN wear \cup worn |->
                 (IF k \in DOMAIN wear THEN wear[k] ELSE 0) + (IF k \in worn THEN 1 ELSE 0)]

\* SubArray::Write: encode, store and charge.
IntoTheCells(req) ==
  /\ Encode(req)
  /\ memoryData' = [memoryData EXCEPT ![req.address] = request'.data]
  /\ ChargeLife(req.address, request'.oldData, request'.data)
  /\ CountWear(req.address, request'.data)
-----------------------------------------------------------------------------
\* What a run before has recorded of the program.
NextAccess(a, d) ==
  GetNextAccess(p.source,
                PrintPreTrace(p.source, [address |-> a, data |-> d, oldData |-> program[a]]))

\* gem5's memory is read before it is written.
SetRequestData(a, d) == [address |-> a, data |-> d, oldData |-> program[a]]

Write(a, d) ==
  /\ writes < MaxWrites /\ writes' = writes + 1
  /\ program' = [program EXCEPT ![a] = d]
  /\ IntoTheCells(IF p.source = "gem5" THEN SetRequestData(a, d) ELSE NextAccess(a, d))
  /\ UNCHANGED <<p, method, place>>

\* A paused or cancelled write is issued again, as the first time left it.
WriteAgain ==
  /\ p.pausing /\ request # NoRequest
  /\ writes < MaxWrites /\ writes' = writes + 1
  /\ IntoTheCells(request)
  /\ UNCHANGED <<p, method, place, program>>

\* A read of what was never written is the first the interface hears of it.
Read(a) ==
  /\ memoryData[a] = NoData
  /\ memoryData' = [memoryData EXCEPT ![a] = program[a]]
  /\ UNCHANGED <<p, method, place, program, flippedAddresses, life, request, writes, wear>>

Next ==
  \/ \E a \in Address, d \in Data : Write(a, d)
  \/ WriteAgain
  \/ \E a \in Address : Read(a)

Spec == Init /\ [][Next]_vars
-----------------------------------------------------------------------------
\* SubArray::CalculateStats, for a subarray that was written.
CalculateStats(s) ==
  LET lives == [k \in {l \in DOMAIN life : l[1] = s} |-> life[k]]
  IN  [worstCaseEndurance |-> GetWorstLife(lives), averageEndurance |-> GetAverageLife(lives)]

RowOf(a) == <<SubArrayOf(a), Row(a)>>

\* No two addresses share a place, under any scheme, a partial one too, and with
\* DRCDecoder; and the place leads back to the address, so that a command the
\* controller makes up (MemoryController.cpp, MakePrechargeRequest and the others
\* go through ReverseTranslate) is about the line that was meant, or with
\* DRCDecoder about its row.
PlacesAreDistinct ==
  /\ \A a, b \in Address : SubArrayOf(a) = SubArrayOf(b) /\ Row(a) = Row(b) /\ Col(a) = Col(b) => a = b
  /\ p.decoder = "AddressTranslator" =>
       \A a \in Address : ReverseTranslate(method, place[a]) = a
  /\ p.decoder = "DRCDecoder" =>
       LET made(a) == DRCReverseTranslate(method, p.ignoreBits, place[a])
       IN  \A a, b \in Address : made(a) = made(b) <=> RowOf(a) = RowOf(b)

\* Whatever was inverted when it was written, the marks say how to read it back:
\* the cells hold the program's data.
DataSurvivesEncoding ==
  \A a \in Address : InvertPartitions(Cells(a), Flipped(a)) = program[a]

\* The life left is that of the first write less one for every further time the
\* cells themselves changed, encoded or not; units do not share a life, except
\* that ByteModel's do.  Zeros for old data are no base for bits and bytes, and a
\* write that comes again is compared with its old data again.  What is reported
\* of a subarray is the life of its most worn unit, and an average above it.
LifeCountsTheWear ==
  (p.model \in {"RowModel", "WordModel"} \/ (p.source # "NVMV0" /\ ~ p.pausing)) =>
    /\ DOMAIN life = {<<k[1], Key(p.model, k[2])>> : k \in DOMAIN wear}
    /\ \A k \in DOMAIN wear :
         LET key == <<k[1], Key(p.model, k[2])>>
             sharing == {u \in DOMAIN wear : <<u[1], Key(p.model, u[2])>> = key}
             written == IF p.model = "ByteModel" THEN MapThenSumSet(LAMBDA u : wear[u], sharing)
                        ELSE wear[k]
         IN  life[key] = IF written > Mean THEN 0 ELSE Mean - (written - 1)
    /\ \A s \in {k[1] : k \in DOMAIN wear} :
         LET stats == CalculateStats(s)
             most == Max({wear[k] : k \in {l \in DOMAIN wear : l[1] = s}})
         IN  /\ p.model # "ByteModel" =>
                  stats.worstCaseEndurance = IF most > Mean THEN 0 ELSE Mean - (most - 1)
             /\ stats.worstCaseEndurance <= stats.averageEndurance /\ stats.averageEndurance <= Mean
=============================================================================
