------------------------------ MODULE LzmaEnc ------------------------------
(***************************************************************************)
(* The LZMA encoder (LzmaEnc.c).  An encoder is                            *)
(*   [low, range, cache, cacheSize, out, probs, state, reps].              *)
(* What it is to say is given: a literal, a match, or one of the last four *)
(* distances again; [back, len] as GetOptimum returns it.                  *)
(***************************************************************************)
EXTENDS LzmaModel, FiniteSets, FiniteSetsExt

CONSTANTS NumFastBytes,     \* numFastBytes, 32: a match as long as this is taken
          FarBits           \* 7: how much farther is too far for one byte more

Reps == 4
MARK_LIT == -1

LzmaEnc_Init ==
    [low |-> 0, range |-> Range0, cache |-> 0, cacheSize |-> 0, out |-> <<>>,
     probs |-> NoneMoved, state |-> 0, reps |-> NewReps]

\* RangeEnc_Init, for a new chunk with the old probabilities.
RangeEnc_Init(e) ==
    [e EXCEPT !.low = 0, !.range = Range0, !.cache = 0, !.cacheSize = 0, !.out = <<>>]

\* A byte waits in cache, and behind it cacheSize bytes that a carry would turn.
RangeEnc_ShiftLow(e) ==
    LET low == e.low % Byte^4
        high == e.low \div Byte^4
        next == [e EXCEPT !.low = (low * Byte) % Byte^4]
    IN  IF low < (Byte - 1) * kTopValue \/ high # 0
        THEN [next EXCEPT !.cache = low \div kTopValue, !.cacheSize = 0,
                          !.out = Append(@, (e.cache + high) % Byte)
                                  \o [k \in 1..e.cacheSize |-> (high + Byte - 1) % Byte]]
        ELSE [next EXCEPT !.cacheSize = @ + 1]

RangeEnc_FlushData(e) ==
    RangeEnc_ShiftLow(RangeEnc_ShiftLow(RangeEnc_ShiftLow(RangeEnc_ShiftLow(
        RangeEnc_ShiftLow(e)))))

RcNorm(e) ==
    IF e.range < kTopValue THEN RangeEnc_ShiftLow([e EXCEPT !.range = @ * Byte]) ELSE e

RcBit(e, place, bit) ==
    LET newBound == (e.range \div kBitModelTotal) * ProbOf(e.probs, place)
        probs == Moved(e.probs, place, bit)
    IN  RcNorm(IF bit = 0 THEN [e EXCEPT !.range = newBound, !.probs = probs]
               ELSE [e EXCEPT !.range = @ - newBound, !.low = @ + newBound, !.probs = probs])

\* A bit that no probability is kept for.
DirectBit(e, bit) ==
    LET half == e.range \div 2
    IN  RcNorm([e EXCEPT !.range = half, !.low = @ + half * bit])

-----------------------------------------------------------------------------
(* Codes of several bits.  m is the way down the tree.                      *)

RECURSIVE TreeFrom(_, _, _, _, _, _)
TreeFrom(e, name, base, numBits, sym, m) ==
    IF numBits = 0 THEN e
    ELSE LET bit == BitOf(sym, numBits - 1)
         IN  TreeFrom(RcBit(e, <<name, base, m>>, bit), name, base, numBits - 1, sym, 2 * m + bit)

\* LitEnc_Encode is such a tree, RcTree_ReverseEncode one from the low bit up.
TreeEncode(e, name, base, numBits, sym) == TreeFrom(e, name, base, numBits, sym, 1)

RECURSIVE ReverseFrom(_, _, _, _, _, _)
ReverseFrom(e, name, base, numBits, sym, m) ==
    IF numBits = 0 THEN e
    ELSE LET bit == sym % 2
         IN  ReverseFrom(RcBit(e, <<name, base + m, 0>>, bit), name, base, numBits - 1,
                         sym \div 2, 2 * m + bit)

RcTree_ReverseEncode(e, name, base, numBits, sym) == ReverseFrom(e, name, base, numBits, sym, 1)

\* The literal after a match: offs stays while the bits are those of the byte
\* the match would have gone on with.
RECURSIVE MatchedFrom(_, _, _, _, _, _, _)
MatchedFrom(e, base, numBits, sym, matchByte, offs, m) ==
    IF numBits = 0 THEN e
    ELSE LET bit == BitOf(sym, numBits - 1)
             mbit == BitOf(matchByte, numBits - 1)
             place == <<"Literal", base, offs + mbit * offs + m>>
         IN  MatchedFrom(RcBit(e, place, bit), base, numBits - 1, sym, matchByte,
                         IF bit = mbit THEN offs ELSE 0, 2 * m + bit)

LitEnc_EncodeMatched(e, base, sym, matchByte) ==
    MatchedFrom(e, base, ByteBits, sym, matchByte, Byte, 1)

LenEnc_Encode(e, name, sym, posState) ==
    LET base == posState * 2 * LenLowSymbols
        More(bit) == RcBit(RcBit(e, <<name, 0, 0>>, 1), <<name, 0, LenLowSymbols>>, bit)
    IN  IF sym < LenLowSymbols
        THEN TreeFrom(RcBit(e, <<name, 0, 0>>, 0), name, base, LenLowBits, sym, 1)
        ELSE IF sym < 2 * LenLowSymbols
        THEN TreeFrom(More(0), name, base + LenLowSymbols, LenLowBits, sym - LenLowSymbols, 1)
        ELSE TreeEncode(More(1), name, -1, LenHighBits,
                        sym - 2 * LenLowSymbols)

-----------------------------------------------------------------------------
(* LzmaEnc_CodeOneBlock.  data is all there is, pos where the encoder is.   *)

Slots == 0..(2^PosSlotBits - 1)
FooterBits(slot) == (slot \div 2) - 1
SlotBase(slot) == (2 + (slot % 2)) * 2^FooterBits(slot)
GetPosSlot(dist) ==
    IF dist < kStartPosModelIndex THEN dist
    ELSE CHOOSE slot \in Slots :
             /\ slot >= kStartPosModelIndex
             /\ SlotBase(slot) <= dist
             /\ dist < SlotBase(slot) + 2^FooterBits(slot)

RECURSIVE DirectBits(_, _, _)
DirectBits(e, sym, numBits) ==
    IF numBits = 0 THEN e ELSE DirectBits(DirectBit(e, BitOf(sym, numBits - 1)), sym, numBits - 1)

GetLenToPosState(len) ==
    LET k == len - kMatchMinLen
    IN  IF k < kNumLenToPosStates - 1 THEN k ELSE kNumLenToPosStates - 1

\* What the slot leaves open of a distance.
EncodeFooter(e, dist, slot) ==
    IF dist < kStartPosModelIndex THEN e
    ELSE IF slot < EndPosModelIndex
    THEN RcTree_ReverseEncode(e, "SpecPos", SlotBase(slot), FooterBits(slot), dist)
    ELSE RcTree_ReverseEncode(DirectBits(e, dist \div 2^AlignBits, FooterBits(slot) - AlignBits),
                              "Align", 0, AlignBits, dist)

EncodeDistance(e, dist, len) ==
    LET slot == GetPosSlot(dist)
    IN  EncodeFooter(TreeEncode(e, "PosSlot", GetLenToPosState(len), PosSlotBits, slot),
                     dist, slot)

\* The first byte: its table is the first one, whatever the properties.
EncodeFirst(e, data) ==
    TreeEncode(RcBit(e, <<"IsMatch", 0, 0>>, 0), "Literal", 0, ByteBits, data[1])

EncodeLiteral(e, prop, data, pos) ==
    LET base == LiteralTable(prop, pos, data[pos])
        byte == data[pos + 1]
        said == [e EXCEPT !.state = LiteralNext(@)]
    IN  IF e.state < kNumLitStates THEN TreeEncode(said, "Literal", base, ByteBits, byte)
        ELSE LitEnc_EncodeMatched(said, base, byte, data[pos + 1 - e.reps[1]])

\* Which of the last distances: 0, 10, 110 or 111.
EncodeRepIndex(e, k, len, posState) ==
    LET G0(bit) == RcBit(e, <<"IsRepG0", e.state, 0>>, bit)
        G1(bit) == RcBit(G0(1), <<"IsRepG1", e.state, 0>>, bit)
        G2(bit) == RcBit(G1(1), <<"IsRepG2", e.state, 0>>, bit)
    IN  CASE k = 0 -> RcBit(G0(0), <<"IsRep0Long", e.state, posState>>, IF len = 1 THEN 0 ELSE 1)
          [] k = 1 -> G1(0)
          [] OTHER -> G2(k - 2)

EncodeRepLen(e, len, posState) ==
    IF len = 1 THEN [e EXCEPT !.state = ShortRepNext(@)]
    ELSE [LenEnc_Encode(e, "RepLen", len - kMatchMinLen, posState) EXCEPT !.state = RepNext(@)]

EncodeRep(e, k, len, posState) ==
    EncodeRepLen([EncodeRepIndex(e, k, len, posState) EXCEPT !.reps = RepsWith(@, k)],
                 len, posState)

EncodeMatch(e, dist, len, posState) ==
    EncodeDistance([LenEnc_Encode(e, "Len", len - kMatchMinLen, posState)
                      EXCEPT !.state = MatchNext(@), !.reps = RepsAfter(@, dist + 1)],
                   dist, len)

EncodeSymbol(e, prop, data, pos, s) ==
    LET posState == pos % 2^prop.pb
        IsMatch(bit) == RcBit(e, <<"IsMatch", e.state, posState>>, bit)
        IsRep(bit) == RcBit(IsMatch(1), <<"IsRep", e.state, 0>>, bit)
    IN  CASE s.back = MARK_LIT -> EncodeLiteral(IsMatch(0), prop, data, pos)
          [] s.back \in 0..(Reps - 1) -> EncodeRep(IsRep(1), s.back, s.len, posState)
          [] OTHER -> EncodeMatch(IsRep(0), s.back - Reps, s.len, posState)

\* A match of the least length whose distance is all ones.
WriteEndMarker(e, posState) ==
    LET last == 2^PosSlotBits - 1
        len == LenEnc_Encode([RcBit(RcBit(e, <<"IsMatch", e.state, posState>>, 1),
                                    <<"IsRep", e.state, 0>>, 0) EXCEPT !.state = MatchNext(@)],
                             "Len", 0, posState)
        slot == TreeEncode(len, "PosSlot", 0, PosSlotBits, last)
        direct == DirectBits(slot, 2^(FooterBits(last) - AlignBits) - 1,
                             FooterBits(last) - AlignBits)
    IN  RcTree_ReverseEncode(direct, "Align", 0, AlignBits, 2^AlignBits - 1)

Flush(e, prop, pos, writeEndMark) ==
    RangeEnc_FlushData(IF writeEndMark THEN WriteEndMarker(e, pos % 2^prop.pb) ELSE e)

-----------------------------------------------------------------------------
(* What the encoder says next.  The match finder gives the nearest place of *)
(* every length.  GetOptimum takes a parse that is cheap: here it may take  *)
(* any that is true.                                                        *)

RECURSIVE SameFrom(_, _, _, _)
SameFrom(data, pos, dist, n) ==
    IF n < MatchLenMax /\ pos + n < Len(data) /\ data[pos + n + 1] = data[pos + n + 1 - dist]
    THEN SameFrom(data, pos, dist, n + 1) ELSE n

\* How long the data at pos is that of dist bytes before.
Common(data, pos, dist) == SameFrom(data, pos, dist, 0)

Distances(pos, dictSize) == 1..(IF pos < dictSize THEN pos ELSE dictSize)

Sayable(e, data, pos, dictSize) ==
    LET Said(back, dist) == {[back |-> back, len |-> n] : n \in 2..Common(data, pos, dist)}
    IN  {[back |-> MARK_LIT, len |-> 1]}
        \cup {s \in {[back |-> 0, len |-> 1]} : Common(data, pos, e.reps[1]) >= 1}
        \cup UNION {Said(k - 1, e.reps[k]) : k \in 1..Reps}
        \cup UNION {Said(d - 1 + Reps, d) : d \in Distances(pos, dictSize)}

\* The matches at pos, the longer the farther; the longest goes on beyond what
\* the match finder looks at.
ReadMatchDistances(data, pos, dictSize) ==
    LET Length(d) == IF Common(data, pos, d) > NumFastBytes THEN NumFastBytes
                     ELSE Common(data, pos, d)
        best == {d \in Distances(pos, dictSize) :
                    Length(d) >= 2 /\ \A d2 \in 1..(d - 1) : Length(d2) < Length(d)}
        Nth(k) == CHOOSE d \in best : Cardinality({d2 \in best : d2 < d}) = k - 1
        pairs == [k \in 1..Cardinality(best) |-> [len |-> Length(Nth(k)), dist |-> Nth(k) - 1]]
        last == pairs[Len(pairs)]
    IN  [pairs |-> pairs,
         len |-> IF pairs = <<>> THEN 0
                 ELSE IF last.len # NumFastBytes THEN last.len
                 ELSE Common(data, pos, last.dist + 1)]

ChangePair(small, big) == big \div 2^FarBits > small

\* A byte more is not worth a distance that is so much longer.
RECURSIVE Nearer(_, _)
Nearer(len, pairs) ==
    LET n == Len(pairs)
    IN  IF n > 1 /\ len = pairs[n - 1].len + 1 /\ ChangePair(pairs[n - 1].dist, pairs[n].dist)
        THEN Nearer(len - 1, SubSeq(pairs, 1, n - 1))
        ELSE IF len < 2 THEN [len |-> len, dist |-> 0]
        ELSE [len |-> IF len = 2 /\ pairs[n].dist >= 2^FarBits THEN 1 ELSE len,
              dist |-> pairs[n].dist]

NotAhead == [pairs |-> <<>>, len |-> -1]

Say(back, len) == [s |-> [back |-> back, len |-> len], ahead |-> NotAhead]
SayLiteral(kept) == [s |-> [back |-> MARK_LIT, len |-> 1], ahead |-> kept]

\* What begins at the next byte is better than near.
NextBetter(next, near) ==
    LET newDist == next.pairs[Len(next.pairs)].dist
    IN  /\ next.len >= 2
        /\ \/ next.len >= near.len /\ newDist < near.dist
           \/ next.len = near.len + 1 /\ ~ ChangePair(near.dist, newDist)
           \/ next.len > near.len + 1
           \/ next.len + 1 >= near.len /\ near.len >= 3 /\ ChangePair(newDist, near.dist)

NextRep(e, data, pos, near) ==
    \E k \in 1..Reps : Common(data, pos + 1, e.reps[k]) >= Max({2, near.len - 1})

MatchOrNext(e, data, pos, near, next) ==
    IF NextBetter(next, near) \/ NextRep(e, data, pos, near) THEN SayLiteral(next)
    ELSE Say(near.dist + Reps, near.len)

RepGood(repLen, near) ==
    /\ repLen >= 2
    /\ \/ repLen + 1 >= near.len
       \/ repLen + 2 >= near.len /\ near.dist >= 2^(FarBits + 2)
       \/ repLen + 3 >= near.len /\ near.dist >= 2^(FarBits + 8)

\* rep is the longest of the last distances.
RepOrMatch(e, data, pos, dictSize, rep, repLen, near) ==
    IF RepGood(repLen, near) THEN Say(rep - 1, repLen)
    ELSE IF near.len < 2 \/ Len(data) - pos <= 2 THEN SayLiteral(NotAhead)
    ELSE MatchOrNext(e, data, pos, near, ReadMatchDistances(data, pos + 1, dictSize))

BestOf(e, data, pos, dictSize, main) ==
    LET RepLen(k) == LET n == Common(data, pos, e.reps[k]) IN IF n < 2 THEN 0 ELSE n
        taken == {k \in 1..Reps : RepLen(k) >= NumFastBytes}
        first == Min(taken)
        rep == CHOOSE k \in 1..Reps : \A j \in 1..Reps :
                   RepLen(j) < RepLen(k) \/ (RepLen(j) = RepLen(k) /\ k <= j)
    IN  IF Len(data) - pos < 2 THEN SayLiteral(NotAhead)
        ELSE IF taken # {} THEN Say(first - 1, RepLen(first))
        ELSE IF main.len >= NumFastBytes
        THEN Say(main.pairs[Len(main.pairs)].dist + Reps, main.len)
        ELSE RepOrMatch(e, data, pos, dictSize, rep, RepLen(rep), Nearer(main.len, main.pairs))

\* A match is put off if the next byte begins a better one; what was read for
\* that is kept in ahead.
GetOptimumFast(e, data, pos, dictSize, ahead) ==
    BestOf(e, data, pos, dictSize,
           IF ahead = NotAhead THEN ReadMatchDistances(data, pos, dictSize) ELSE ahead)
=============================================================================
