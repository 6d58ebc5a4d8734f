----------------------------- MODULE LzmaModel -----------------------------
(***************************************************************************)
(* What the LZMA encoder and decoder agree on: the widths of the codes,    *)
(* the probabilities and the state machine.  A byte has ByteBits bits, the *)
(* range four bytes.  The probabilities are a function of the places that  *)
(* are no longer what they were in the beginning; a place is the name of   *)
(* an array and two indices.                                               *)
(***************************************************************************)
EXTENDS Integers, Sequences, TLC

CONSTANTS ByteBits,         \* 8
          TotalBits,        \* kNumBitModelTotalBits, 11
          MoveBits,         \* kNumMoveBits, 5
          LenLowBits,       \* kLenNumLowBits, 3
          LenHighBits,      \* kLenNumHighBits, 8
          PosSlotBits,      \* kNumPosSlotBits, 6
          EndPosModelIndex, \* kEndPosModelIndex, 14
          AlignBits         \* kNumAlignBits, 4

Byte == 2^ByteBits
Range0 == Byte^4 - 1
kTopValue == Byte^3
kBitModelTotal == 2^TotalBits

kNumLitStates == 7
kNumLenToPosStates == 4
kStartPosModelIndex == 4
kMatchMinLen == 2
LenLowSymbols == 2^LenLowBits
kMatchSpecLenStart == kMatchMinLen + 2 * LenLowSymbols + 2^LenHighBits
MatchLenMax == kMatchSpecLenStart - 1

LiteralNext(s) == IF s < 4 THEN 0 ELSE IF s < 10 THEN s - 3 ELSE s - 6
MatchNext(s) == IF s < kNumLitStates THEN 7 ELSE 10
RepNext(s) == IF s < kNumLitStates THEN 8 ELSE 11
ShortRepNext(s) == IF s < kNumLitStates THEN 9 ELSE 11

NoneMoved == [place \in {} |-> 0]
ProbOf(probs, place) == IF place \in DOMAIN probs THEN probs[place] ELSE kBitModelTotal \div 2

Moved(probs, place, bit) ==
    LET p == ProbOf(probs, place)
        q == IF bit = 0 THEN p + ((kBitModelTotal - p) \div 2^MoveBits)
             ELSE p - (p \div 2^MoveBits)
    IN  (place :> q) @@ probs

BitOf(n, k) == (n \div 2^k) % 2

\* The literal's table: the low lp bits of the position, the high lc bits of
\* the byte before.
LiteralTable(prop, pos, prev) ==
    (((pos % 2^prop.lp) * Byte + prev) - (prev % 2^(ByteBits - prop.lc))) * 2^prop.lc

NewReps == <<1, 1, 1, 1>>
\* A repeated distance moves to the front.
RepsWith(reps, k) ==
    [j \in 1..4 |-> IF j = 1 THEN reps[k + 1] ELSE IF j <= k + 1 THEN reps[j - 1] ELSE reps[j]]
RepsAfter(reps, dist) == <<dist, reps[1], reps[2], reps[3]>>
=============================================================================
