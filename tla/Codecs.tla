--------------------------------- MODULE Codecs ---------------------------------
(***************************************************************************)
(* The codecs that are pure functions, each given every input of a bounded *)
(* set: what a codec packs is unpacked again.  A state is one input; the   *)
(* one step from it applies the codec.                                     *)
(***************************************************************************)
EXTENDS Integers, Sequences, FiniteSets, SequencesExt, Bitwise

VARIABLES codec, input, out
vars == <<codec, input, out>>

Nothing == [none |-> TRUE]

SeqsOf(S, lengths) == UNION {[1..n -> S] : n \in lengths}

\* LZJB: bytes of two bits, groups of three items.  dLen is the room given by
\* LZJB_MAX_COMPRESSED_SIZE and what is less or more than that.
Lzjb == INSTANCE Lzjb WITH NBBY <- 3, Bits <- 2, LEMPEL_SIZE <- 16

LzjbInputs ==
    [src : SeqsOf({0, 1}, 0..11) \cup SeqsOf({3}, 20..30), addr : {0, 1, 2},
     room : {-6, 0, 6}]
LzjbStreams == [stream : SeqsOf(0..3, 0..6), dLen : {0, 5, 9}]

PackLzjb ==
    /\ codec = "LZJB"
    /\ LET dLen == Lzjb!MaxCompressedSize(Len(input.src)) + input.room
           c == Lzjb!lzjb_compress(input.src, input.addr, dLen)
       IN  out' = [dLen |-> dLen, coded |-> c,
                   back |-> Lzjb!lzjb_decompress(IF c.full THEN <<>> ELSE c.dst, Len(input.src))]

UnpackLzjb ==
    /\ codec = "LZJB stream"
    /\ out' = Lzjb!lzjb_decompress(input.stream, input.dLen)

\* LZSSE: vectors of five bytes, blocks of four controls.
Lzsse2 == [L |-> 2, min |-> 3, bias |-> -1, init |-> 3]
Lzsse4 == [L |-> 2, min |-> 2, bias |-> 0, init |-> 2]
Lzsse8 == [L |-> 3, min |-> 2, bias |-> 1, init |-> 3]
Lzsse == INSTANCE Lzsse WITH Bound <- 4, Controls <- 4, Window <- 16, SkipLength <- 8,
                             V2 <- Lzsse2, V4 <- Lzsse4, V8 <- Lzsse8

\* A pattern again and again, with one byte changed.
Repeated(pattern, n, flip, byte) ==
    [k \in 1..n |-> IF k = flip THEN byte ELSE pattern[((k - 1) % Len(pattern)) + 1]]
NoTwoEqual == [k \in 1..38 |-> k]
LzsseInputs ==
    [pattern : {<<0>>, <<0, 1>>, <<0, 0, 1>>, <<0, 0, 1, 0, 0>>, <<0, 1, 1, 0, 1>>, NoTwoEqual},
     n : {9} \cup 30..38, flip : {2, 5, 8, 11, 15, 18, 22}, v : {Lzsse2, Lzsse4, Lzsse8},
     cutOff : {1, 2}]
LzsseSource ==
    LET same == Repeated(input.pattern, input.n, 0, 0)
    IN  Repeated(input.pattern, input.n, input.flip, IF same[input.flip] = 0 THEN 1 ELSE 0)

\* With the cut-off the room for the output is another: as long as the input,
\* or with as much again as CompressFast is seen to write beyond its end.
OutputLength == Len(LzsseSource) + (IF input.cutOff = 1 THEN 0 ELSE 7)

\* The first offset of a stream, with some bits turned over, leads elsewhere.
Elsewhere(packed, first) ==
    IF first = 0 THEN packed ELSE [packed EXCEPT ![first] = @ ^^ 13]

\* LZSSE2 has no fast parse.
LzsseWith(optimal, fast, src, Back(_, _)) ==
    LET back == Back(optimal.dst, Len(src))
    IN  [src |-> src, optimal |-> optimal, fast |-> fast, back |-> back,
         fastBack |-> Back(fast.dst, Len(src)),
         harmed |-> Back(Elsewhere(optimal.dst, back.first), Len(src))]

PackLzsse ==
    LET src == LzsseSource
    IN  /\ codec = "LZSSE"
        /\ \/ /\ input.v = Lzsse2
              /\ out' = LzsseWith(Lzsse!LZSSE2_CompressOptimalParse(src, input.cutOff),
                                  Lzsse!Compressed(src, 0),
                                  src, Lzsse!LZSSE2_Decompress)
           \/ /\ input.v = Lzsse4
              /\ out' = LzsseWith(Lzsse!LZSSE4_CompressOptimalParse(src, input.cutOff),
                                  Lzsse!LZSSE4_CompressFast(src, OutputLength),
                                  src, Lzsse!LZSSE4_Decompress)
           \/ /\ input.v = Lzsse8
              /\ out' = LzsseWith(Lzsse!LZSSE8_CompressOptimalParse(src, input.cutOff),
                                  Lzsse!LZSSE8_CompressFast(src, OutputLength),
                                  src, Lzsse!LZSSE8_Decompress)

\* LZP: words of two bytes, one slot of the table (as 1 << 0x400 makes it) or
\* three, one block or two.
Lzp == INSTANCE Lzp WITH Word <- 2, Margin <- 16, Flag <- 2, Most <- 4, Limits <- <<80>>

LzpPatterns == {<<0>>, <<2>>, <<0, 2, 1>>, <<2, 2, 0, 1, 2, 0>>, <<0, 0, 0, 3, 0, 0, 3>>,
                <<0, 1, 0, 0, 2, 1, 0, 0, 1, 1, 0>>, <<0, 1, 0, 0, 1, 2, 0, 1, 0, 0, 1, 3, 0>>}
LzpInputs ==
    [pattern : LzpPatterns, n : {19} \cup 30..36 \cup {40, 83}, flip : {7, 12, 17},
     byte : {2, 3, 5}, minLen : {2, 3, 4, 6, 8, 10}, slots : {1, 3},
     build : {"aligned", "unaligned", "openmp"}]

LzpWith(src, packed) ==
    [src |-> src, packed |-> packed,
     back |-> IF packed.res \in Lzp!Errors THEN [res |-> 0, out |-> <<>>, reach |-> <<>>]
              ELSE Lzp!bsc_lzp_decompress(packed.out, input.minLen, input.slots,
                                          input.build # "aligned")]

PackLzp ==
    /\ codec = "LZP"
    /\ LET src == Repeated(input.pattern, input.n, input.flip, input.byte)
       IN  out' = LzpWith(src, Lzp!bsc_lzp_compress(src, input.minLen, input.slots,
                                                    input.build # "aligned",
                                                    input.build = "openmp"))

Init ==
    /\ out = Nothing
    /\ \/ codec = "LZSSE" /\ input \in LzsseInputs /\ input.flip <= input.n
       \/ codec = "LZP" /\ input \in LzpInputs
       \/ codec = "LZJB" /\ input \in LzjbInputs
       \/ codec = "LZJB stream" /\ input \in LzjbStreams

Next ==
    /\ out = Nothing
    /\ UNCHANGED <<codec, input>>
    /\ \/ PackLzjb
       \/ UnpackLzjb
       \/ PackLzsse
       \/ PackLzp

Spec == Init /\ [][Next]_vars

Done(c) == codec = c /\ out # Nothing

-----------------------------------------------------------------------------

\* What LZJB packed comes back exactly, unless one of three things happened to
\* a match: its fourth byte differs, which nobody compared (line 121), its flag
\* did not fit the byte of flags (line 120), or its length did not fit the bits
\* kept for it (line 124).
LzjbLosesOnlySo ==
    Done("LZJB") /\ out.coded.damages = {} /\ ~ out.coded.full =>
        out.back.res = "OK" /\ out.back.dst = input.src

\* lzjb_compress writes no more than it was given room for, also when it gives
\* up; lzjb_decompress writes and reads no more, whatever it is given.
LzjbStaysInside ==
    /\ Done("LZJB") => Len(out.coded.dst) <= out.dLen \/ Len(input.src) = 0
    /\ Done("LZJB stream") =>
           Len(out.dst) <= input.dLen /\ out.p <= Len(input.stream)
\* What LZSSE4, the codec in use, has packed comes back, and so it does from
\* LZSSE8 with an optimal parse.  The others lose the end of some inputs, and
\* always so that the size tells: LZSSE2 where its decoder takes a control that
\* is not there (lzsse2.cpp:744), LZSSE8's fast parse where it keeps a block for
\* a lone zero control (lzsse8.cpp:852).
LzsseRoundTrip ==
    Done("LZSSE") =>
        /\ out.back.out = out.src \/ (input.v = Lzsse2 /\ Len(out.back.out) # Len(out.src))
        /\ out.fastBack.out = out.src \/ (input.v = Lzsse8 /\ Len(out.fastBack.out) # Len(out.src))

\* Only what was not packed is as long as before: that is how it is told.
LzsseSmaller ==
    Done("LZSSE") =>
        \A packed \in {out.optimal.dst, out.fast.dst} : Len(packed) < Len(out.src) \/ packed = out.src

\* The decoders stay inside also when an offset of the stream leads elsewhere,
\* and if it leads to before the output, they come back with less than was
\* asked for (lzsse4.h:105).  The optimal parse stays inside of a buffer as long
\* as the input.  CompressFast clears a vector behind a new control block before
\* it looks at the end, and so may write a block and an offset beyond it.
LzsseStaysInside ==
    Done("LZSSE") =>
        /\ \A d \in {out.back, out.fastBack, out.harmed} : ~ d.outside
        /\ out.harmed.underflow => Len(out.harmed.out) < Len(out.src)
        /\ out.optimal.most <= Len(out.src)
        /\ out.fast.most <= OutputLength + Lzsse!Block + Lzsse!OffsetBytes

\* `This should be at least inputLength' (lzsse4.h:83) is all that is asked of the
\* room for the output: with as much, LZSSE4_CompressFast writes inside of it.
FastStaysInside ==
    Done("LZSSE") /\ input.v = Lzsse4 /\ OutputLength >= Len(out.src) =>
        out.fast.most <= OutputLength

\* What bsc_lzp_compress did not give up is smaller than before and comes back,
\* with the sizes that were told.
LzpRoundTrip ==
    Done("LZP") /\ out.packed.res \notin Lzp!Errors =>
        /\ out.packed.res = Len(out.packed.out) /\ out.packed.res < Len(out.src)
        /\ out.back.out = out.src /\ out.back.res = Len(out.src)

\* The output of bsc_lzp_compress is as large as its input.  The decoder is
\* not told how large its output is: of what the encoder has made it writes no
\* block beyond its place, though its fast loop stores a word ahead.
LzpStaysInside ==
    Done("LZP") =>
        /\ out.packed.most <= Len(out.src)
        /\ \A k \in DOMAIN out.back.reach : out.back.reach[k] <= Lzp!BlockSize(Len(out.src), k - 1)

\* What a codec made comes back, exactly or with the losses that are named; and
\* where equal sizes mean that nothing was done, nothing was.
ComesBack == LzjbLosesOnlySo /\ LzsseRoundTrip /\ LzsseSmaller /\ LzpRoundTrip

\* The codecs read and write inside of the buffers that they are given: LZJB
\* with any room and of any stream, LZSSE also of a stream of which an offset is
\* damaged, LZP of its own streams; all but CompressFast, which may go beyond its
\* end, though no farther than is told.
StaysInside == LzjbStaysInside /\ LzsseStaysInside /\ LzpStaysInside
=============================================================================
