---------------------------- MODULE EnduranceModel ----------------------------
(* src/EnduranceModel and the models under Endurance: how often each unit  *)
(* of a subarray can still be written, kept in a map from a key.           *)
EXTENDS Naturals, FlipNWrite

CONSTANTS COLS, Mean    \* words in a row; the life given out by Uniform

ASSUME EnduranceAssumption == COLS \in Nat \ {0} /\ Mean \in Nat

\* What a write wears out, by model.  Bytes and bits wear if they change.
RowUnits(row, col, changed) == {<<row>>}
WordUnits(row, col, changed) == {<<row, col>>}
ByteUnits(row, col, changed) == {<<row, col, b \div ByteBits>> : b \in changed}
BitUnits(row, col, changed) == {<<row, col, b>> : b \in changed}

Units(model, row, col, changed) ==
  CASE model = "RowModel"  -> RowUnits(row, col, changed)
    [] model = "WordModel" -> WordUnits(row, col, changed)
    [] model = "ByteModel" -> ByteUnits(row, col, changed)
    [] model = "BitModel"  -> BitUnits(row, col, changed)

\* The keys.  ByteModel takes COLS * WordBytes for bits: its keys overlap.
RowKey(unit) == unit[1]
WordKey(unit) == unit[1] * COLS + unit[2]
ByteKey(unit) == unit[1] * ((COLS * WordBytes) \div ByteBits) + unit[2] * WordBytes + unit[3]
BitKey(unit) == unit[1] * COLS * WordBits + unit[2] * WordBits + unit[3]

Key(model, unit) ==
  CASE model = "RowModel"  -> RowKey(unit)
    [] model = "WordModel" -> WordKey(unit)
    [] model = "ByteModel" -> ByteKey(unit)
    [] model = "BitModel"  -> BitKey(unit)

\* The first write sets the life, every other takes one until none is left.
DecrementLife(life, keys) ==
  [k \in DOMAIN life \cup keys |->
     IF k \notin DOMAIN life THEN Mean
     ELSE IF k \in keys /\ life[k] > 0 THEN life[k] - 1 ELSE life[k]]

\* What is reported of the lives that were given out.
GetWorstLife(lives) == Min({lives[k] : k \in DOMAIN lives})
GetAverageLife(lives) == MapThenSumSet(LAMBDA k : lives[k], DOMAIN lives) \div Cardinality(DOMAIN lives)
=============================================================================
