------------------------------ MODULE FlipNWrite ------------------------------
(* DataEncoders/FlipNWrite: a partition of a word of which more than half  *)
(* the bits would change is written inverted, and remembered as such.      *)
EXTENDS Naturals, FiniteSets, FiniteSetsExt

CONSTANTS
  WordBytes, ByteBits,   \* the word of one burst; ByteBits stands for 8
  fpSize                 \* FlipNWriteGranularity

WordBits == WordBytes * ByteBits
Bit == 0 .. WordBits - 1

\* A partition is made of whole bytes: InvertData drops the other bits of one.
ASSUME FlipNWriteAssumption ==
  /\ WordBytes \in Nat \ {0} /\ ByteBits \in Nat \ {0}
  /\ fpSize \in Nat \ {0} /\ fpSize % ByteBits = 0 /\ WordBits % fpSize = 0

flipPartitions == WordBits \div fpSize
Partition == 0 .. flipPartitions - 1
PartitionBits(i) == i * fpSize .. (i + 1) * fpSize - 1

\* The byte's bits come out in the opposite order.
Mirror(b) == (b \div ByteBits) * ByteBits + (ByteBits - 1 - (b % ByteBits))

InvertData(data, i) ==
  [b \in Bit |-> IF b \in PartitionBits(i) THEN 1 - data[Mirror(b)] ELSE data[b]]

InvertPartitions(data, partitions) ==
  FoldSet(LAMBDA i, acc : InvertData(acc, i), data, partitions)

Changed(old, new) == {b \in Bit : old[b] # new[b]}
modifyCount(old, new, i) == Cardinality(Changed(old, new) \cap PartitionBits(i))

\* The partitions that are to be written inverted.
ToInvert(old, new) == {i \in Partition : modifyCount(old, new, i) > fpSize \div 2}
=============================================================================
