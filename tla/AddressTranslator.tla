--------------------------- MODULE AddressTranslator ---------------------------
(* src/AddressTranslator and TranslationMethod: the place of a physical    *)
(* address.  A scheme names the parts of an address from the highest to    *)
(* the lowest; every part takes its bits from what the lower ones left.    *)
EXTENDS Naturals, FiniteSets, Sequences, SequencesExt

CONSTANT OffsetBits    \* bus offset and burst: the bits below all parts

Part == {"R", "C", "BK", "RK", "CH", "SA"}

ASSUME AddressTranslatorAssumption == OffsetBits \in Nat
-----------------------------------------------------------------------------
(* The translation method of a configuration c: how many there are of each *)
(* part, how many bits tell them apart, and in which order.                *)

TwoTo(bits) ==
  LET power[k \in 0 .. bits] == IF k = 0 THEN 1 ELSE 2 * power[k - 1]
  IN  power[bits]

mlog2(num) ==
  IF num < 2 THEN 0 ELSE CHOOSE k \in 0 .. num : TwoTo(k) <= num /\ num < TwoTo(k + 1)

\* With a MATHeight the rows of a bank are divided up between its subarrays.
Counts(c) ==
  [R  |-> IF c.MATHeight > 0 THEN c.MATHeight ELSE c.ROWS,
   SA |-> IF c.MATHeight > 0 THEN c.ROWS \div c.MATHeight ELSE 1,
   C |-> c.COLS, BK |-> c.BANKS, RK |-> c.RANKS, CH |-> c.CHANNELS]

\* What the scheme leaves out comes below what it names, in this order.
Unset == <<"SA", "CH", "RK", "BK", "R", "C">>
UnsetBefore(scheme, part) ==
  {q \in Part \ ToSet(scheme) : \E i, j \in DOMAIN Unset : i < j /\ Unset[i] = q /\ Unset[j] = part}

\* The order of each part, 1 for the lowest.
SetAddressMappingScheme(scheme) ==
  [part \in Part |->
     IF part \in ToSet(scheme) THEN 7 - (CHOOSE i \in DOMAIN scheme : scheme[i] = part)
     ELSE 6 - Len(scheme) - Cardinality(UnsetBefore(scheme, part))]

\* NVMain and its controllers make theirs in the same way.
Method(c) ==
  [count     |-> Counts(c),
   bitWidths |-> [part \in Part |-> mlog2(Counts(c)[part])],
   order     |-> SetAddressMappingScheme(c.scheme)]

FindOrder(method, i) == CHOOSE part \in Part : method.order[part] = i
LowToHigh(method) == [i \in 1 .. 6 |-> FindOrder(method, i)]
-----------------------------------------------------------------------------
Modulo(method, address, part) == address % TwoTo(method.bitWidths[part])

\* Mutant: the low column bits, cut off before, are not part of the column.
DivideLowColumn(method, address, part) ==
  LET bits == method.bitWidths[part]
  IN  address \div TwoTo(IF part = "C" /\ bits > 0 THEN bits - 1 ELSE bits)
Divide(method, address, part) == address \div TwoTo(method.bitWidths[part])

\* What is left of an address when the first parts have taken their bits.
RefAddress(method, parts, address) ==
  LET ref[i \in 0 .. Len(parts)] ==
        IF i = 0 THEN address ELSE Divide(method, ref[i - 1], parts[i])
  IN  ref

\* What each part takes.
Taken(method, parts, address) ==
  LET ref == RefAddress(method, parts, address)
  IN  [part \in Part |->
         IF part \notin ToSet(parts) THEN 0
         ELSE LET i == CHOOSE j \in DOMAIN parts : parts[j] = part
              IN  Modulo(method, ref[i - 1], part)]

\* The other way: an address made of the first parts, and the unit of the next.
PutTogether(sizes, parts, unit, place) ==
  LET unitAddr[i \in 0 .. Len(parts)] ==
        IF i = 0 THEN unit ELSE unitAddr[i - 1] * sizes[parts[i]]
      phyAddr[i \in 0 .. Len(parts)] ==
        IF i = 0 THEN 0 ELSE phyAddr[i - 1] + place[parts[i]] * unitAddr[i - 1]
  IN  [unit |-> unitAddr[Len(parts)], phy |-> phyAddr[Len(parts)]]

Burst == TwoTo(OffsetBits)
Translate(method, address) == Taken(method, LowToHigh(method), address \div Burst)

ReverseTranslate(method, place) ==
  PutTogether([part \in Part |-> TwoTo(method.bitWidths[part])], LowToHigh(method), Burst, place).phy

\* The child a layer hands a request to: each decoder looks at one field of the
\* place that NVMain has given the request, or at none if there is one child.
FieldOf(place, field) == IF field = "NO_FIELD" THEN 0 ELSE place[field]
-----------------------------------------------------------------------------
(* DRCDecoder, in front of a DRAM cache: lines that follow each other      *)
(* share a row, so the column is lowest and the row highest whatever the   *)
(* scheme says, and there are no subarrays.                                *)

BetweenColumnAndRow(method) ==
  CHOOSE parts \in [1 .. 3 -> {"CH", "RK", "BK"}] :
    \A i, j \in 1 .. 3 : i < j => method.order[parts[i]] < method.order[parts[j]]

DRCLowToHigh(method) == <<"C">> \o BetweenColumnAndRow(method) \o <<"R">>
DRCUnit(ignoreBits) == Burst * TwoTo(ignoreBits)

DRCTranslate(method, ignoreBits, address) ==
  Taken(method, DRCLowToHigh(method), address \div DRCUnit(ignoreBits))

\* The columns are left out: not the address of a line, only one of its own for
\* every row, which is all that a command to the row needs.
DRCReverseTranslate(method, ignoreBits, place) ==
  LET above == PutTogether(method.count, BetweenColumnAndRow(method), DRCUnit(ignoreBits), place)
  IN  above.phy + place["R"] * above.unit
=============================================================================
