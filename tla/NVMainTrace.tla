------------------------------ MODULE NVMainTrace ------------------------------
(* traceWriter and traceReader/NVMainTrace: the accesses that NVMain has   *)
(* recorded, a line each, and the trace simulator reads back.  A field of  *)
(* data is printed byte by byte and read by the word.  Traces of before    *)
(* the first version hold no old data, and lose their first line.          *)
EXTENDS FlipNWrite, Sequences, SequencesExt

CONSTANT GroupBytes    \* the bytes read as one number, 4

ASSUME NVMainTraceAssumption == GroupBytes \in Nat \ {0} /\ WordBytes % GroupBytes = 0

Zero == [b \in Bit |-> 0]
-----------------------------------------------------------------------------
(* Writing.                                                                *)

Byte(data, i) == [b \in 0 .. ByteBits - 1 |-> data[i * ByteBits + b]]

\* NVMDataBlock::Print, from the first byte to the last.
PrintData(data) == [i \in 1 .. WordBytes |-> Byte(data, i - 1)]

WriteTraceLine(version, req) ==
  <<req.address, PrintData(req.data)>> \o (IF version = "NVMV0" THEN <<>> ELSE <<PrintData(req.oldData)>>)

\* An access is recorded once the controller has taken it; one that is answered
\* from the prefetch buffer is not.
PrintPreTrace(version, req) == WriteTraceLine(version, req)
-----------------------------------------------------------------------------
(* Reading, on a host that keeps the lowest byte of a number first.        *)

\* The digits printed first are the highest of the number.
Number(group) == Reverse(group)
htonl(bytes) == Reverse(bytes)

\* Mutant: the bytes of a number stay as the host has them.
RawDataOfTheHost(field) ==
  FlattenSeq([w \in 1 .. WordBytes \div GroupBytes |->
                Number(SubSeq(field, (w - 1) * GroupBytes + 1, w * GroupBytes))])

RawData(field) ==
  FlattenSeq([w \in 1 .. WordBytes \div GroupBytes |->
                htonl(Number(SubSeq(field, (w - 1) * GroupBytes + 1, w * GroupBytes)))])

DataOf(field) == [b \in Bit |-> RawData(field)[(b \div ByteBits) + 1][b % ByteBits]]

GetNextAccess(version, line) ==
  [address |-> line[1], data |-> DataOf(line[2]),
   oldData |-> IF version = "NVMV0" THEN Zero ELSE DataOf(line[3])]
=============================================================================
