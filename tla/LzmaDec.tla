------------------------------ MODULE LzmaDec ------------------------------
(***************************************************************************)
(* The LZMA decoder (LzmaDec.c), which may be given its input and its room *)
(* in pieces: a symbol is decoded only when all of its bytes are there,    *)
(* and the bytes of the last, incomplete symbol wait in tempBuf.           *)
(*                                                                         *)
(* A decoder p is the CLzmaDec of the code.  An rc is the range coder in   *)
(* the middle of a symbol: at is how much of buf it has read.  dry is a    *)
(* run that only looks whether the symbol is all there.                    *)
(***************************************************************************)
EXTENDS LzmaModel

CONSTANTS InputMax          \* LZMA_REQUIRED_INPUT_MAX, 20: no symbol takes more

RC_INIT_SIZE == 5
NotWritten == -1

NeedRc == kMatchSpecLenStart + 1
NeedRcAndState == kMatchSpecLenStart + 2
ErrorFail == kMatchSpecLenStart + 3
ErrorData == kMatchSpecLenStart + 4

Bound0 == (Range0 \div kBitModelTotal) * (kBitModelTotal \div 2)
kBadRepCode == Bound0 + ((Range0 - Bound0) \div kBitModelTotal) * (kBitModelTotal \div 2)

LeastOf(a, b) == IF a < b THEN a ELSE b

\* ready: the probabilities were set; faults: what must not happen is told here.
NewDec(prop, dicBufSize) ==
    [prop |-> prop, probs |-> NoneMoved, reps |-> NewReps, state |-> 0, range |-> 0, code |-> 0,
     dic |-> [k \in 0..(dicBufSize - 1) |-> NotWritten], dicBufSize |-> dicBufSize, dicPos |-> 0,
     processedPos |-> 0, checkDicSize |-> 0, remainLen |-> NeedRcAndState, tempBuf |-> <<>>,
     ready |-> FALSE, faults |-> {}]

LzmaDec_InitDicAndState(p, initDic, initState) ==
    LET q == [p EXCEPT !.tempBuf = <<>>,
                       !.remainLen = IF initDic \/ initState THEN NeedRcAndState ELSE NeedRc]
    IN  IF initDic THEN [q EXCEPT !.processedPos = 0, !.checkDicSize = 0] ELSE q

\* The byte dist before dicPos, in the dictionary that goes round.
DicAt(p, dist) == p.dic[p.dicPos - dist + (IF p.dicPos < dist THEN p.dicBufSize ELSE 0)]
Unwritten(p, byte) == IF byte = NotWritten THEN p.faults \cup {"dictionary"} ELSE p.faults
PutByte(p, byte) ==
    [p EXCEPT !.dic[p.dicPos] = byte, !.dicPos = @ + 1, !.faults = Unwritten(p, byte)]

-----------------------------------------------------------------------------
(* The range coder.                                                         *)

RcOf(p, buf, dry) ==
    [range |-> p.range, code |-> p.code, probs |-> p.probs, buf |-> buf, at |-> 0, dry |-> dry,
     eof |-> FALSE, over |-> FALSE]

\* NORMALIZE reads without looking, NORMALIZE_CHECK gives up at the end.
Normalize(rc) ==
    IF rc.range >= kTopValue \/ rc.eof THEN rc
    ELSE IF rc.at >= Len(rc.buf)
    THEN IF rc.dry THEN [rc EXCEPT !.eof = TRUE]
         ELSE [rc EXCEPT !.over = TRUE, !.range = @ * Byte, !.code = (@ * Byte) % Byte^4,
                          !.at = @ + 1]
    ELSE [rc EXCEPT !.range = @ * Byte, !.at = @ + 1,
                    !.code = (@ * Byte + (rc.buf[rc.at + 1] % Byte)) % Byte^4]

\* UPDATE_0 and UPDATE_1, of n normalised.
Taken(n, place, bit, bound) ==
    [bit |-> bit,
     rc |-> [n EXCEPT !.range = IF bit = 0 THEN bound ELSE @ - bound,
                      !.code = IF bit = 0 THEN @ ELSE @ - bound,
                      !.probs = IF n.dry THEN @ ELSE Moved(@, place, bit)]]

Below(n, place, bound) ==
    IF n.eof THEN [rc |-> n, bit |-> 0]
    ELSE Taken(n, place, IF n.code < bound THEN 0 ELSE 1, bound)

NextBit(n, place) == Below(n, place, (n.range \div kBitModelTotal) * ProbOf(n.probs, place))
BitAt(rc, place) == NextBit(Normalize(rc), place)

NextDirect(n, half) ==
    IF n.eof THEN [rc |-> n, bit |-> 0]
    ELSE IF n.code - half \in 0..(Range0 \div 2)
    THEN [rc |-> [n EXCEPT !.range = half, !.code = @ - half], bit |-> 1]
    ELSE [rc |-> [n EXCEPT !.range = half], bit |-> 0]

BitDirect(rc) == LET n == Normalize(rc) IN NextDirect(n, n.range \div 2)

RECURSIVE TreeDown(_, _, _, _, _)
TreeDown(rc, name, base, numBits, m) ==
    IF numBits = 0 THEN [rc |-> rc, m |-> m]
    ELSE LET b == BitAt(rc, <<name, base, m>>)
         IN  TreeDown(b.rc, name, base, numBits - 1, 2 * m + b.bit)

TreeDecode(rc, name, base, numBits) ==
    LET t == TreeDown(rc, name, base, numBits, 1)
    IN  [rc |-> t.rc, sym |-> t.m - 2^numBits]

\* REV_BIT: the low bit first; i goes on by m or by twice that.
RECURSIVE ReverseDown(_, _, _, _, _, _)
ReverseDown(rc, name, base, numBits, m, i) ==
    IF numBits = 0 THEN [rc |-> rc, sym |-> i - m]
    ELSE LET b == BitAt(rc, <<name, base + i, 0>>)
         IN  ReverseDown(b.rc, name, base, numBits - 1, 2 * m, i + m * (1 + b.bit))

ReverseDecode(rc, name, base, numBits) == ReverseDown(rc, name, base, numBits, 1, 1)

\* MATCHED_LITER_DEC.
RECURSIVE MatchedDown(_, _, _, _, _, _)
MatchedDown(rc, base, numBits, matchByte, offs, m) ==
    IF numBits = 0 THEN [rc |-> rc, sym |-> m - Byte]
    ELSE LET taken == offs * BitOf(matchByte, numBits - 1)
             b == BitAt(rc, <<"Literal", base, taken + offs + m>>)
         IN  MatchedDown(b.rc, base, numBits - 1, matchByte,
                         IF b.bit = 0 THEN offs - taken ELSE taken, 2 * m + b.bit)

LenAfter2(choice2, name, base) ==
    IF choice2.bit = 0
    THEN [TreeDecode(choice2.rc, name, base + LenLowSymbols, LenLowBits)
            EXCEPT !.sym = @ + LenLowSymbols]
    ELSE [TreeDecode(choice2.rc, name, -1, LenHighBits) EXCEPT !.sym = @ + 2 * LenLowSymbols]

LenAfter(choice, name, base) ==
    IF choice.bit = 0 THEN TreeDecode(choice.rc, name, base, LenLowBits)
    ELSE LenAfter2(BitAt(choice.rc, <<name, 0, LenLowSymbols>>), name, base)

LenDecode(rc, name, posState) ==
    LenAfter(BitAt(rc, <<name, 0, 0>>), name, posState * 2 * LenLowSymbols)

RECURSIVE DirectDown(_, _, _)
DirectDown(rc, numBits, n) ==
    IF numBits = 0 THEN [rc |-> rc, sym |-> n]
    ELSE LET b == BitDirect(rc) IN DirectDown(b.rc, numBits - 1, 2 * n + b.bit)

-----------------------------------------------------------------------------
(* One symbol: [rc, kind, ...].                                             *)

LiteralOf(p, t, faults) ==
    [kind |-> "literal", rc |-> t.rc, sym |-> t.sym, state |-> LiteralNext(p.state),
     faults |-> faults]

LiteralSymbol(rc, p, table) ==
    LET matchByte == DicAt(p, p.reps[1])
    IN  IF p.state < kNumLitStates
        THEN LiteralOf(p, TreeDecode(rc, "Literal", table, ByteBits), {})
        ELSE LiteralOf(p, MatchedDown(rc, table, ByteBits, matchByte, Byte, 1),
                       Unwritten(p, matchByte))

\* All ones, farther than any distance: the end.
EndMark == 2^((2^PosSlotBits - 1) \div 2 + 1) - 1

\* The rest of a distance, added to what is before it.
Plus(t, n) == [rc |-> t.rc, dist |-> n + t.sym]
Aligned(direct) == Plus(ReverseDecode(direct.rc, "Align", 0, AlignBits), direct.sym * 2^AlignBits)

DistanceAfter(s, bits, start) ==
    IF s.sym < kStartPosModelIndex THEN Plus(s, 0)
    ELSE IF s.sym < EndPosModelIndex
    THEN Plus(ReverseDecode(s.rc, "SpecPos", start * 2^bits, bits), start * 2^bits)
    ELSE Aligned(DirectDown(s.rc, bits - AlignBits, start))

DistanceOf(s) == DistanceAfter(s, (s.sym \div 2) - 1, 2 + (s.sym % 2))
DistanceDecode(rc, len) ==
    DistanceOf(TreeDecode(rc, "PosSlot",
                          IF len < kNumLenToPosStates THEN len ELSE kNumLenToPosStates - 1,
                          PosSlotBits))

MatchOf(p, len, d) ==
    IF d.dist = EndMark THEN [kind |-> "end", rc |-> d.rc]
    ELSE [kind |-> "match", rc |-> d.rc, len |-> len, dist |-> d.dist,
          reps |-> RepsAfter(p.reps, d.dist + 1), state |-> MatchNext(p.state)]
MatchAfter(p, l) == MatchOf(p, l.sym, DistanceDecode(l.rc, l.sym))
MatchSymbol(rc, p, posState) == MatchAfter(p, LenDecode(rc, "Len", posState))

\* Which distance it is: 0 (and then whether it is one byte), 10, 110 or 111.
One == -1
OneOr0(long) == [rc |-> long.rc, k |-> IF long.bit = 0 THEN One ELSE 0]
Rep2Or3(g2) == [rc |-> g2.rc, k |-> 2 + g2.bit]
Rep1OrMore(g1, state) ==
    IF g1.bit = 0 THEN [rc |-> g1.rc, k |-> 1] ELSE Rep2Or3(BitAt(g1.rc, <<"IsRepG2", state, 0>>))
RepIndex(g0, state, posState) ==
    IF g0.bit = 0 THEN OneOr0(BitAt(g0.rc, <<"IsRep0Long", state, posState>>))
    ELSE Rep1OrMore(BitAt(g0.rc, <<"IsRepG1", state, 0>>), state)

RepOf(p, k, l) ==
    [kind |-> "rep", rc |-> l.rc, len |-> l.sym, reps |-> RepsWith(p.reps, k),
     state |-> RepNext(p.state)]
RepWith(p, r, posState) ==
    IF r.k = One THEN [kind |-> "short", rc |-> r.rc, state |-> ShortRepNext(p.state)]
    ELSE RepOf(p, r.k, LenDecode(r.rc, "RepLen", posState))
RepSymbol(rc, p, posState) ==
    RepWith(p, RepIndex(BitAt(rc, <<"IsRepG0", p.state, 0>>), p.state, posState), posState)

Symbol(rc, p, table) ==
    LET posState == p.processedPos % 2^p.prop.pb
        AfterRep(isRep) == IF isRep.bit = 0 THEN MatchSymbol(isRep.rc, p, posState)
                           ELSE RepSymbol(isRep.rc, p, posState)
        AfterMatch(isMatch) ==
            IF isMatch.bit = 0 THEN LiteralSymbol(isMatch.rc, p, table)
            ELSE AfterRep(BitAt(isMatch.rc, <<"IsRep", p.state, 0>>))
    IN  AfterMatch(BitAt(rc, <<"IsMatch", p.state, posState>>))

\* The first byte of all has no byte before it.
HasBefore(p) == p.processedPos # 0 \/ p.checkDicSize # 0
ByteBefore(p) == p.dic[(IF p.dicPos = 0 THEN p.dicBufSize ELSE p.dicPos) - 1]
TableOf(p) == IF HasBefore(p) THEN LiteralTable(p.prop, p.processedPos, ByteBefore(p)) ELSE 0

\* The same of the dry run, put another way.
DryTableOf(p) ==
    IF HasBefore(p)
    THEN Byte * ((p.processedPos % 2^p.prop.lp) * 2^p.prop.lc
                   + (ByteBefore(p) \div 2^(ByteBits - p.prop.lc)))
    ELSE 0

-----------------------------------------------------------------------------
(* LZMA_DECODE_REAL: symbols until the room or the input is used up.        *)

RECURSIVE CopyMatch(_, _)
CopyMatch(p, n) == IF n = 0 THEN p ELSE CopyMatch(PutByte(p, DicAt(p, p.reps[1])), n - 1)

\* As much of the match as there is room for; the rest is remainLen.
Copied(p, len, limit) ==
    LET n == LeastOf(len, limit - p.dicPos)
    IN  [CopyMatch(p, n) EXCEPT !.processedPos = @ + n, !.remainLen = len - n]

TooFarByOne(p, dist) == dist > (IF p.checkDicSize = 0 THEN p.processedPos ELSE p.checkDicSize)
TooFar(p, dist) == dist >= (IF p.checkDicSize = 0 THEN p.processedPos ELSE p.checkDicSize)

\* What a symbol does; stop is a break out of the loop.
Done(p, s, limit) ==
    CASE s.kind = "literal" ->
           [stop |-> FALSE, res |-> "OK",
            p |-> [PutByte(p, s.sym) EXCEPT !.processedPos = @ + 1, !.state = s.state,
                                            !.faults = @ \cup s.faults]]
      [] s.kind = "short" ->
           [stop |-> FALSE, res |-> "OK",
            p |-> [PutByte(p, DicAt(p, p.reps[1])) EXCEPT !.processedPos = @ + 1,
                                                          !.state = s.state]]
      [] s.kind = "end" ->
           [stop |-> TRUE, res |-> "OK", p |-> [p EXCEPT !.remainLen = kMatchSpecLenStart]]
      [] s.kind = "match" /\ TooFar(p, s.dist) ->
           [stop |-> TRUE, res |-> "DATA",
            p |-> [p EXCEPT !.remainLen = ErrorData, !.reps = s.reps, !.state = s.state]]
      [] s.kind = "rep" \/ (s.kind = "match" /\ ~ TooFar(p, s.dist)) ->
           LET q == [p EXCEPT !.reps = s.reps, !.state = s.state]
               len == s.len + kMatchMinLen
           IN  [stop |-> limit = p.dicPos, res |-> "OK", p |-> Copied(q, len, limit)]

\* The range coder's state n goes back to p when the loop is left.
Real(p, n, res) ==
    [processed |-> n.at, res |-> res,
     p |-> [p EXCEPT !.range = n.range, !.code = n.code, !.probs = n.probs,
                     !.faults = IF n.over THEN @ \cup {"input"} ELSE @]]

RECURSIVE DecodeReal(_, _, _, _)
GoOn(rc, d, limit, bufLimit) ==
    IF d.stop \/ d.p.dicPos >= limit \/ rc.at >= bufLimit THEN Real(d.p, Normalize(rc), d.res)
    ELSE DecodeReal(d.p, rc, limit, bufLimit)
AfterSymbol(p, s, limit, bufLimit) == GoOn(s.rc, Done(p, s, limit), limit, bufLimit)
DecodeReal(p, rc, limit, bufLimit) ==
    AfterSymbol(p, Symbol(rc, p, TableOf(p)), limit, bufLimit)

CheckDic(p) ==
    IF p.checkDicSize = 0 /\ p.processedPos >= p.prop.dicSize
    THEN [p EXCEPT !.checkDicSize = p.prop.dicSize] ELSE p

\* Not beyond the place from where a distance may be as long as the dictionary.
LzmaDec_DecodeReal2(p, buf, limit, bufLimit) ==
    LET rem == p.prop.dicSize - p.processedPos
        most == IF p.checkDicSize = 0 THEN LeastOf(limit, p.dicPos + rem) ELSE limit
    IN  [DecodeReal([p EXCEPT !.remainLen = 0], RcOf(p, buf, FALSE), most, bufLimit)
           EXCEPT !.p = CheckDic(@)]

\* The rest of a match there was no room for.
LzmaDec_WriteRem(p, limit) ==
    LET n == LeastOf(p.remainLen, limit - p.dicPos)
        q == IF p.checkDicSize = 0 /\ p.prop.dicSize - p.processedPos <= n
             THEN [p EXCEPT !.checkDicSize = p.prop.dicSize] ELSE p
    IN  IF n = 0 THEN p
        ELSE [CopyMatch(q, n) EXCEPT !.processedPos = @ + n, !.remainLen = @ - n]

Dummy(kind, n) ==
    [eof |-> n.eof, processed |-> n.at, endPossible |-> kind \in {"match", "end"}]
DummyOf(s) == Dummy(s.kind, Normalize(s.rc))
LzmaDec_TryDummy(p, buf) == DummyOf(Symbol(RcOf(p, buf, TRUE), p, DryTableOf(p)))

-----------------------------------------------------------------------------
(* LzmaDec_DecodeToDic.  A call is [p, src, taken]: what is left of the     *)
(* input, how much was taken; it returns [p, taken, status, res].           *)

Return(p, taken, status, res) == [p |-> p, taken |-> taken, status |-> status, res |-> res]
Fail(p, taken) == Return([p EXCEPT !.remainLen = ErrorFail], taken, "NOT_SPECIFIED", "FAIL")
NeedsMore(p, taken) == Return(p, taken, "NEEDS_MORE_INPUT", "OK")

\* The range coder's first five bytes; the first is 0, and the first symbol
\* cannot be a match that is repeated.
StartRc(p, src) ==
    LET n == LeastOf(RC_INIT_SIZE - Len(p.tempBuf), Len(src))
        temp == p.tempBuf \o SubSeq(src, 1, n)
        q == [p EXCEPT !.tempBuf = temp]
        Digit(k) == temp[k] % Byte
        code == Digit(2) * Byte^3 + Digit(3) * Byte^2 + Digit(4) * Byte + Digit(5)
        ready == [p EXCEPT !.tempBuf = <<>>, !.code = code, !.range = Range0, !.remainLen = 0]
    IN  IF temp # <<>> /\ temp[1] # 0 THEN Return(q, n, "NOT_SPECIFIED", "DATA")
        ELSE IF Len(temp) < RC_INIT_SIZE THEN NeedsMore(q, n)
        ELSE IF p.checkDicSize = 0 /\ p.processedPos = 0 /\ code >= kBadRepCode
        THEN Return([q EXCEPT !.code = code], n, "NOT_SPECIFIED", "DATA")
        ELSE Return(IF p.remainLen = NeedRc
                    THEN [ready EXCEPT !.faults = IF p.ready THEN @ ELSE @ \cup {"probs"}]
                    ELSE [ready EXCEPT !.probs = NoneMoved, !.reps = NewReps, !.state = 0,
                                       !.ready = TRUE],
                    n, "STARTED", "OK")

RECURSIVE Symbols(_, _, _, _, _)

\* What lies before src in tempBuf is old; buf is all that is looked at.  A dry
\* run goes first where one symbol is all there may be.
NoDry == [eof |-> FALSE, processed |-> -1, endPossible |-> TRUE]

AfterReal(r, dry, old, buf, src, taken, dicLimit, finish) ==
    LET all == taken + r.processed - old
        amiss == IF dry # NoDry THEN r.processed # dry.processed
                 ELSE r.processed > (IF old = 0 THEN Len(buf) ELSE InputMax) \/ r.processed < old
    IN  IF amiss THEN Fail(r.p, taken)
        ELSE IF r.res # "OK"
        THEN Return([r.p EXCEPT !.remainLen = ErrorData, !.tempBuf = <<>>], all,
                    "NOT_SPECIFIED", "DATA")
        ELSE Symbols([r.p EXCEPT !.tempBuf = <<>>], SubSeq(src, r.processed - old + 1, Len(src)),
                     all, dicLimit, finish)

AfterDry(dry, p, old, buf, src, taken, dicLimit, finish, checkEnd) ==
    IF dry.eof
    THEN IF Len(buf) >= InputMax THEN Fail(p, taken)
         ELSE NeedsMore([p EXCEPT !.tempBuf = buf], taken + Len(buf) - old)
    ELSE IF dry # NoDry /\ (dry.processed > InputMax \/ dry.processed < old) THEN Fail(p, taken)
    ELSE IF checkEnd /\ ~ dry.endPossible
    THEN Return([p EXCEPT !.tempBuf = SubSeq(buf, 1, dry.processed)],
                taken + dry.processed - old, "NOT_FINISHED", "DATA")
    ELSE AfterReal(LzmaDec_DecodeReal2(p, buf, dicLimit,
                                       IF dry = NoDry /\ old = 0 THEN Len(buf) - InputMax ELSE 0),
                   dry, old, buf, src, taken, dicLimit, finish)

\* One symbol, or from the input all that are surely there.
FromBuf(p, old, buf, src, taken, dicLimit, finish, checkEnd) ==
    AfterDry(IF Len(buf) < InputMax \/ checkEnd THEN LzmaDec_TryDummy(p, buf) ELSE NoDry,
             p, old, buf, src, taken, dicLimit, finish, checkEnd)

\* Before a symbol that began in an earlier piece there are no more than its bytes.
FromInput(p, src, taken, dicLimit, finish, checkEnd) ==
    LET old == Len(p.tempBuf)
        ahead == IF old = 0 THEN Len(src) ELSE LeastOf(InputMax - old, Len(src))
    IN  FromBuf(p, old, p.tempBuf \o SubSeq(src, 1, ahead), src, taken, dicLimit, finish,
                checkEnd)

NextSymbol(p, src, taken, dicLimit, finish, full) ==
    IF full /\ p.remainLen = 0 /\ p.code = 0
    THEN Return(p, taken, "MAYBE_FINISHED_WITHOUT_MARK", "OK")
    ELSE IF full /\ finish = "ANY" THEN Return(p, taken, "NOT_FINISHED", "OK")
    ELSE IF full /\ p.remainLen # 0 THEN Return(p, taken, "NOT_FINISHED", "DATA")
    ELSE FromInput(p, src, taken, dicLimit, finish, full)

AfterRem(p, src, taken, dicLimit, finish) ==
    NextSymbol(p, src, taken, dicLimit, finish, p.dicPos >= dicLimit)

Symbols(p, src, taken, dicLimit, finish) ==
    IF p.remainLen # kMatchSpecLenStart
    THEN AfterRem(LzmaDec_WriteRem(p, dicLimit), src, taken, dicLimit, finish)
    ELSE IF p.code # 0 THEN Return(p, taken, "NOT_SPECIFIED", "DATA")
    ELSE Return(p, taken, "FINISHED_WITH_MARK", "OK")

Started(start, dicLimit, src, finish) ==
    IF start.status # "STARTED" THEN start
    ELSE Symbols(start.p, SubSeq(src, start.taken + 1, Len(src)), start.taken, dicLimit, finish)

LzmaDec_DecodeToDic(p, dicLimit, src, finish) ==
    IF p.remainLen = ErrorFail THEN Return(p, 0, "NOT_SPECIFIED", "FAIL")
    ELSE IF p.remainLen = ErrorData THEN Return(p, 0, "NOT_SPECIFIED", "DATA")
    ELSE IF p.remainLen \in {NeedRc, NeedRcAndState}
    THEN Started(StartRc(p, src), dicLimit, src, finish)
    ELSE Symbols(p, src, 0, dicLimit, finish)

\* LzmaDec_DecodeToBuf: the dictionary begins again when it is full.  dest is
\* what has come out.
RECURSIVE ToBuf(_, _, _, _, _, _)
AfterDic(r, from, src, taken, dest, outSize, finish) ==
    LET n == r.p.dicPos - from
        out == dest \o [k \in 1..n |-> r.p.dic[from + k - 1]]
    IN  IF r.res # "OK" \/ n = 0 \/ outSize = n
        THEN [p |-> r.p, taken |-> taken + r.taken, dest |-> out, status |-> r.status,
              res |-> r.res]
        ELSE ToBuf(r.p, SubSeq(src, r.taken + 1, Len(src)), taken + r.taken, out, outSize - n,
                   finish)
ToBuf(p, src, taken, dest, outSize, finish) ==
    LET q == IF p.dicPos = p.dicBufSize THEN [p EXCEPT !.dicPos = 0] ELSE p
        wraps == outSize > q.dicBufSize - q.dicPos
    IN  AfterDic(LzmaDec_DecodeToDic(q, IF wraps THEN q.dicBufSize ELSE q.dicPos + outSize, src,
                                     IF wraps THEN "ANY" ELSE finish),
                 q.dicPos, src, taken, dest, outSize, finish)

LzmaDec_DecodeToBuf(p, outSize, src, finish) == ToBuf(p, src, 0, <<>>, outSize, finish)

\* All at once, the output being the dictionary: that is all the input there is.
WholeInput(r) ==
    IF r.res = "OK" /\ r.status = "NEEDS_MORE_INPUT" THEN [r EXCEPT !.res = "INPUT_EOF"] ELSE r
LzmaDecode(prop, outSize, src, finish) ==
    IF Len(src) < RC_INIT_SIZE THEN Return(NewDec(prop, outSize), 0, "NOT_SPECIFIED", "INPUT_EOF")
    ELSE WholeInput(LzmaDec_DecodeToDic(NewDec(prop, outSize), outSize, src, finish))
=============================================================================
