------------------------------ MODULE MCDataPath ------------------------------
(* Eight lines or sixteen; words of two bytes of two bits.                 *)
EXTENDS DataPath

Word(a, b, c, d) == [i \in Bit |-> <<a, b, c, d>>[i + 1]]
MCData == {Word(0, 1, 0, 0), Word(1, 1, 0, 1), Word(1, 1, 1, 1), Word(0, 0, 1, 0), Word(0, 0, 0, 0)}

Full == <<"SA", "R", "RK", "BK", "CH", "C">>
Interleaved == <<"R", "RK", "C", "BK", "CH">>
Partial == <<"C", "R">>

Configuration(scheme, encoder, model) ==
  [ROWS |-> 2, COLS |-> 2, BANKS |-> 2, RANKS |-> 1, CHANNELS |-> 1, MATHeight |-> 0,
   scheme |-> scheme, decoder |-> "AddressTranslator", ignoreBits |-> 0,
   encoder |-> encoder, model |-> model, source |-> "NVMV1", pausing |-> FALSE]

MCConfigurations ==
  {Configuration(Full, "FlipNWrite", "BitModel"),
   [Configuration(Partial, "FlipNWrite", "WordModel") EXCEPT !.source = "NVMV0", !.MATHeight = 1],
   [Configuration(Full, "none", "ByteModel") EXCEPT !.decoder = "DRCDecoder", !.CHANNELS = 2],
   [Configuration(Interleaved, "none", "RowModel") EXCEPT !.pausing = TRUE, !.BANKS = 1,
                                                          !.RANKS = 2],
   [Configuration(Partial, "none", "BitModel") EXCEPT !.source = "gem5"]}

MCResumed == {[Configuration(Full, "FlipNWrite", "BitModel") EXCEPT !.pausing = TRUE]}
=============================================================================
