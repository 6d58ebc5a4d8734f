------------------------------- MODULE FastAri -------------------------------
(***************************************************************************)
(* The bitwise arithmetic coder (DCA/compressionTypes/fastari/FastAri.cpp) *)
(* in its three variants: `plain' (fa_compress, fa_decompress), `2013',    *)
(* the one AssetBundle uses, and `safe', the one of MTAri, which codes an  *)
(* end of file.  A message is compressed, and what comes out decompressed. *)
(*                                                                         *)
(* The words of the code are four bytes of Base values each, and its       *)
(* probabilities are half a word; Base is 256 there.  Coder and decoder    *)
(* narrow the same interval low..high of words.                            *)
(***************************************************************************)
EXTENDS Integers, Sequences

CONSTANTS Base,        \* values of a byte
          Half,        \* 1 << 16: scale of the probabilities
          Top,         \* 1 << 24: weight of the top byte of a word
          Adapt,       \* 1 << ADAPT: how slowly probabilities adapt
          Contexts,    \* 1 << ORDER: mask + 1
          Inputs,      \* the messages a caller may compress
          Variants     \* the variants of the coder in use

ASSUME WordAssumption ==
    /\ Base \in Nat /\ Base >= 2
    /\ Half = Base * Base
    /\ Top = Base * Half
ASSUME ModelAssumption ==
    Adapt \in Nat \ {0, 1} /\ Contexts \in Nat \ {0}
ASSUME InputsAssumption ==
    Inputs \subseteq Seq(0..(Base - 1)) /\ Variants \subseteq {"plain", "2013", "safe"}

Word == Top * Base

VARIABLES variant,
          input,
          mode,           \* "encode", "flushed", "decode" or "done"
          pc,             \* before a "byte", before a "bit" or about to "shift"
          low, high,      \* the interval
          mdl, ctx,       \* probabilities of a set bit, and which one is next
          bv, weight,     \* the byte in work and the weight of its next bit
          pos,            \* bytes of the input encoded
          obuf,           \* what the coder has written
          rd, cur,        \* bytes of it the decoder has taken, the last four of them
          output,
          rc              \* what the decoder returned

callVars == <<variant, input>>
coderVars == <<low, high, mdl, ctx>>
byteVars == <<bv, weight>>
decoderVars == <<rd, cur, output, rc>>
vars == <<callVars, mode, pc, coderVars, byteVars, pos, obuf, decoderVars>>

Init ==
    /\ variant \in Variants
    /\ input \in Inputs
    /\ mode = "encode"
    /\ pc = "byte"
    /\ low = 0 /\ high = Word - 1
    /\ mdl = [x \in 0..(Contexts - 1) |-> Half \div 2]
    /\ ctx = 0
    /\ bv = 0 /\ weight = 1
    /\ pos = 0
    /\ obuf = <<>>
    /\ rd = 0 /\ cur = 0
    /\ output = <<>>
    /\ rc = 0

-----------------------------------------------------------------------------
(* What coder and decoder have in common. *)

TopByte(x) == x \div Top

\* (high ^ low) < 1 << 24
SameTop(l, h) == TopByte(l) = TopByte(h)

\* Wrong: the bits shifted into high are zeros.
RaisedByZeros(h) == (h % Top) * Base

\* Wrong: the top byte stays in the word.
RaisedKeepingTop(h) == h * Base + (Base - 1)

\* low <<= 8 and high = (high << 8) | 0xFF: the top byte falls out.
Lowered(l) == (l % Top) * Base
Raised(h) == (h % Top) * Base + (Base - 1)

\* Wrong: the width is rounded up, so that it is never none.
midRoundedUp == low + ((high - low) \div Half + 1) * mdl[ctx]

mid == low + ((high - low) \div Half) * mdl[ctx]

\* Wrong: a bit that is clear leaves mid in the interval.
NarrowTouching(bit) ==
    /\ low' = IF bit = 1 THEN low ELSE mid
    /\ high' = IF bit = 1 THEN mid ELSE high
    /\ mdl' = [mdl EXCEPT ![ctx] = IF bit = 1 THEN @ + ((Half - 1 - @) \div Adapt)
                                   ELSE @ - (@ \div Adapt)]
    /\ ctx' = (2 * ctx + bit) % Contexts

\* The interval of a bit, and what the model learns from it.
Narrow(bit) ==
    /\ low' = IF bit = 1 THEN low ELSE mid + 1
    /\ high' = IF bit = 1 THEN mid ELSE high
    /\ mdl' = [mdl EXCEPT ![ctx] = IF bit = 1 THEN @ + ((Half - 1 - @) \div Adapt)
                                   ELSE @ - (@ \div Adapt)]
    /\ ctx' = (2 * ctx + bit) % Contexts

Shift ==
    /\ low' = Lowered(low)
    /\ high' = Raised(high)
    /\ UNCHANGED <<mdl, ctx>>

\* The safe variant gives up the lowest value of the interval before every
\* byte, for the end of the file, and then shifts once if it must.
PassEnd ==
    IF SameTop(low + 1, high)
    THEN low' = Lowered(low + 1) /\ high' = Raised(high)
    ELSE low' = low + 1 /\ high' = high

BitsDone == weight = Base

-----------------------------------------------------------------------------
(* The coder. *)

EncodeByte ==
    /\ mode = "encode" /\ pc = "byte" /\ pos < Len(input)
    /\ \/ /\ variant = "safe" /\ PassEnd
          /\ obuf' = IF SameTop(low + 1, high) THEN Append(obuf, TopByte(high)) ELSE obuf
       \/ variant # "safe" /\ UNCHANGED <<low, high, obuf>>
    /\ bv' = input[pos + 1]
    /\ weight' = 1
    /\ pos' = pos + 1
    /\ pc' = "bit"
    /\ UNCHANGED <<callVars, mode, mdl, ctx, decoderVars>>

EncodeBit ==
    /\ mode = "encode" /\ pc = "bit"
    /\ Narrow(bv % 2)
    /\ bv' = bv \div 2
    /\ weight' = 2 * weight
    /\ pc' = "shift"
    /\ UNCHANGED <<callVars, mode, pos, obuf, decoderVars>>

EncodeShift ==
    /\ mode = "encode" /\ pc = "shift" /\ SameTop(low, high)
    /\ obuf' = Append(obuf, TopByte(high))
    /\ Shift
    /\ UNCHANGED <<callVars, mode, pc, byteVars, pos, decoderVars>>

EncodeShifted ==
    /\ mode = "encode" /\ pc = "shift" /\ ~ SameTop(low, high)
    /\ pc' = IF BitsDone THEN "byte" ELSE "bit"
    /\ UNCHANGED <<callVars, mode, coderVars, byteVars, pos, obuf, decoderVars>>

BytesOf(x) == <<TopByte(x), (x \div Half) % Base, (x \div Base) % Base, x % Base>>

\* Wrong: only three bytes of the interval are written out.
FlushedShort == SubSeq(BytesOf(IF variant = "2013" THEN high ELSE low), 1, 3)

Flushed ==
    CASE variant = "plain" -> BytesOf(low)
      [] variant = "2013" -> BytesOf(high)
      [] variant = "safe" -> BytesOf(low) \o <<0>>

Flush ==
    /\ mode = "encode" /\ pc = "byte" /\ pos = Len(input)
    /\ obuf' = obuf \o Flushed
    /\ mode' = "flushed"
    /\ UNCHANGED <<callVars, pc, coderVars, byteVars, pos, decoderVars>>

-----------------------------------------------------------------------------
(* The decoder: it is given obuf and the length of the input. *)

\* What a read past the end of obuf gives is not the decoder's to know.
Taken(n) == IF n <= Len(obuf) THEN obuf[n] ELSE 0

BeginDecoding ==
    /\ mode = "flushed"
    /\ mode' = "decode"
    /\ low' = 0 /\ high' = Word - 1
    /\ mdl' = [x \in 0..(Contexts - 1) |-> Half \div 2]
    /\ ctx' = 0
    /\ rd' = 4
    /\ cur' = Taken(1) * Top + Taken(2) * Half + Taken(3) * Base + Taken(4)
    /\ UNCHANGED <<callVars, pc, byteVars, pos, obuf, output, rc>>

Return(code) == mode' = "done" /\ rc' = code

\* Wrong: the decoder does not take the value the coder gave up for the end.
AtEndStrictly == variant = "safe" /\ cur < low

\* The end of the file, or all the bytes there are to come.
AtEnd == variant = "safe" /\ cur <= low

Full == Len(output) >= Len(input)

DecodeEnd ==
    /\ mode = "decode" /\ pc = "byte"
    /\ AtEnd \/ (variant # "safe" /\ Full)
    /\ Return(0)
    /\ UNCHANGED <<callVars, pc, coderVars, byteVars, pos, obuf, rd, cur, output>>

\* cur = (cur << 8) | *ibuf++
TakeByte ==
    /\ rd' = rd + 1
    /\ cur' = (cur % Top) * Base + Taken(rd + 1)

\* The safe decoder returns as soon as it has taken the last byte there is.
Exhausted == variant = "safe" /\ rd + 1 >= Len(obuf)

DecodeByte ==
    /\ mode = "decode" /\ pc = "byte" /\ ~ AtEnd
    /\ \/ /\ variant = "safe" /\ PassEnd
          /\ IF SameTop(low + 1, high) THEN TakeByte ELSE UNCHANGED <<rd, cur>>
          /\ IF SameTop(low + 1, high) /\ Exhausted THEN Return(0)
             ELSE IF Full THEN Return(IF rd' = Len(obuf) THEN 0 ELSE 2)
             ELSE UNCHANGED <<mode, rc>>
       \/ variant # "safe" /\ ~ Full /\ UNCHANGED <<low, high, rd, cur, mode, rc>>
    /\ bv' = 0
    /\ weight' = 1
    /\ pc' = "bit"
    /\ UNCHANGED <<callVars, mdl, ctx, pos, obuf, output>>

DecodeBit ==
    /\ mode = "decode" /\ pc = "bit"
    /\ LET bit == IF cur <= mid THEN 1 ELSE 0
       IN  Narrow(bit) /\ bv' = bv + bit * weight
    /\ weight' = 2 * weight
    /\ pc' = "shift"
    /\ UNCHANGED <<callVars, mode, pos, obuf, decoderVars>>

DecodeShift ==
    /\ mode = "decode" /\ pc = "shift" /\ SameTop(low, high)
    /\ Shift
    /\ TakeByte
    /\ IF Exhausted THEN Return(0) ELSE UNCHANGED <<mode, rc>>
    /\ UNCHANGED <<callVars, pc, byteVars, pos, obuf, output>>

DecodeShifted ==
    /\ mode = "decode" /\ pc = "shift" /\ ~ SameTop(low, high)
    /\ pc' = IF BitsDone THEN "byte" ELSE "bit"
    /\ output' = IF BitsDone THEN Append(output, bv) ELSE output
    /\ UNCHANGED <<callVars, mode, coderVars, byteVars, pos, obuf, rd, cur, rc>>

Finished == mode = "done" /\ UNCHANGED vars

Next ==
    \/ EncodeByte \/ EncodeBit \/ EncodeShift \/ EncodeShifted \/ Flush
    \/ BeginDecoding \/ DecodeEnd \/ DecodeByte \/ DecodeBit \/ DecodeShift \/ DecodeShifted
    \/ Finished

Spec == Init /\ [][Next]_vars

-----------------------------------------------------------------------------
(* Properties. *)

Byte == 0..(Base - 1)

\* Every variable has its type: the words stay words, which no part of the
\* arithmetic checks, and no probability becomes none or a whole.
TypeOK ==
    /\ variant \in {"plain", "2013", "safe"}
    /\ input \in Seq(Byte)
    /\ mode \in {"encode", "flushed", "decode", "done"}
    /\ pc \in {"byte", "bit", "shift"}
    /\ low \in 0..(Word - 1) /\ high \in 0..(Word - 1)
    /\ mdl \in [0..(Contexts - 1) -> 1..(Half - 1)]
    /\ ctx \in 0..(Contexts - 1)
    /\ bv \in Nat /\ weight \in Nat
    /\ pos \in Nat /\ rd \in Nat /\ cur \in Nat
    /\ obuf \in Seq(Nat) /\ output \in Seq(Nat)
    /\ rc \in {0, 2}

\* The interval never runs empty: before every bit it has at least two
\* values, so that each of the two bits has one, however narrow it became
\* and however far the probability went.
Splittable ==
    /\ low <= high
    /\ mode \in {"encode", "decode"} /\ pc \in {"byte", "bit"} => low < high /\ mid < high

\* The decoder's word stays in the interval of the decoder, and the bytes it
\* has made out are those of the input, in order.
InStep ==
    mode = "decode" =>
      /\ low <= cur /\ cur <= high
      /\ Len(output) <= Len(input)
      /\ \A k \in DOMAIN output : output[k] = input[k]

\* A decoder that comes to its end returns 0 and the whole input.
RoundTrip == mode = "done" => output = input /\ rc = 0

\* The decoder follows a bare pointer: it never takes a byte past the last
\* one that was written, and the unchecked variants take all of them.
NoOverread ==
    /\ rd <= Len(obuf)
    /\ mode = "done" /\ variant # "safe" => rd = Len(obuf)

\* Every turn of a loop that shifts the interval makes it wider, so the loop
\* comes to its end even where low and high have met: what it rests on is
\* that ones are shifted into high.
ShiftWidens == [][pc = "shift" /\ pc' = "shift" => high' - low' > high - low]_vars
=============================================================================
