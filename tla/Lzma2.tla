------------------------------- MODULE Lzma2 -------------------------------
(***************************************************************************)
(* LZMA2 (Lzma2Enc.c, Lzma2Dec.c): data as chunks of LZMA, or as it is     *)
(* where LZMA does not make it shorter.  A decoder d is a CLzma2Dec.       *)
(*                                                                         *)
(* A control byte is 0 (the end), 1 or 2 (bytes as they are, with a new    *)
(* dictionary or not), or 4 + mode for LZMA; a size is two bytes, the      *)
(* properties are one.                                                     *)
(***************************************************************************)
EXTENDS LzmaEnc, LzmaDec

CONSTANTS CopyMargin,       \* 2: so much is saved at least by a chunk of LZMA
          CopyChunk,        \* LZMA2_COPY_CHUNK_SIZE, 1 << 16
          PropsOf           \* what a byte of properties says

CopyResetDic == 1
CopyNoReset == 2
ControlLzma == 4
SizeBytes(n) == <<(n - 1) \div Byte, (n - 1) % Byte>>

\* Lzma2EncInt_InitBlock: what the encoder has to tell first.
NewBlock == [srcPos |-> 0, needInitState |-> TRUE, needInitProp |-> TRUE]

\* Lzma2EncInt_EncodeSubblock, the end.  bytes is what the chunk is of, packed
\* what LZMA made of it, overflow whether that was too much.
UseCopyBlock(bytes, packed, overflow) ==
    overflow \/ Len(packed) + CopyMargin >= Len(bytes)

RECURSIVE CopyChunks(_, _)
CopyChunks(bytes, first) ==
    LET u == LeastOf(Len(bytes), CopyChunk)
    IN  IF bytes = <<>> THEN <<>>
        ELSE <<IF first THEN CopyResetDic ELSE CopyNoReset>> \o SizeBytes(u)
               \o SubSeq(bytes, 1, u) \o CopyChunks(SubSeq(bytes, u + 1, Len(bytes)), FALSE)

LzmaMode(b) ==
    IF b.srcPos = 0 THEN 3
    ELSE IF ~ b.needInitState THEN 0
    ELSE IF b.needInitProp THEN 2 ELSE 1

LzmaChunk(b, bytes, packed, propsByte) ==
    <<ControlLzma + LzmaMode(b)>> \o SizeBytes(Len(bytes)) \o SizeBytes(Len(packed))
      \o (IF b.needInitProp THEN <<propsByte>> ELSE <<>>) \o packed

-----------------------------------------------------------------------------
(* The decoder.                                                             *)

\* needInitLevel, as control bytes: 0xE0 and 0xC0.
NeedsDic == ControlLzma + 3
NeedsProp == ControlLzma + 2

NewDec2(dicBufSize, dicSize) ==
    [state |-> "CONTROL", needInitLevel |-> NeedsDic, control |-> 0, unpackSize |-> 0,
     packSize |-> 0,
     decoder |-> NewDec([lc |-> 0, lp |-> 0, pb |-> 0, dicSize |-> dicSize], dicBufSize)]

IsUncompressed(d) == d.control < ControlLzma

Lzma2Dec_UpdateState(d, b) ==
    CASE d.state = "CONTROL" ->
           LET c == [d EXCEPT !.control = b]
           IN  IF b = 0 THEN [c EXCEPT !.state = "FINISHED"]
               ELSE IF b = CopyResetDic
               THEN [c EXCEPT !.state = "UNPACK0", !.needInitLevel = NeedsProp]
               ELSE IF b < ControlLzma
               THEN [c EXCEPT !.state = IF b > CopyNoReset \/ d.needInitLevel = NeedsDic
                                        THEN "ERROR" ELSE "UNPACK0"]
               ELSE IF b < d.needInitLevel THEN [c EXCEPT !.state = "ERROR"]
               ELSE [c EXCEPT !.state = "UNPACK0", !.needInitLevel = 0]
      [] d.state = "UNPACK0" ->
           [d EXCEPT !.unpackSize = (b % Byte) * Byte, !.state = "UNPACK1"]
      [] d.state = "UNPACK1" ->
           [d EXCEPT !.unpackSize = @ + (b % Byte) + 1,
                     !.state = IF IsUncompressed(d) THEN "DATA" ELSE "PACK0"]
      [] d.state = "PACK0" -> [d EXCEPT !.packSize = (b % Byte) * Byte, !.state = "PACK1"]
      [] d.state = "PACK1" ->
           [d EXCEPT !.packSize = @ + (b % Byte) + 1,
                     !.state = IF d.control >= NeedsProp THEN "PROP" ELSE "DATA"]
      [] d.state = "PROP" ->
           IF b \notin DOMAIN PropsOf THEN [d EXCEPT !.state = "ERROR"]
           ELSE [d EXCEPT !.state = "DATA",
                          !.decoder.prop = [PropsOf[b] EXCEPT !.dicSize = d.decoder.prop.dicSize]]

RECURSIVE PutAll(_, _)
PutAll(p, bytes) ==
    IF bytes = <<>> THEN p ELSE PutAll(PutByte(p, Head(bytes) % Byte), Tail(bytes))

LzmaDec_UpdateWithUncompressed(p, bytes) ==
    LET q == PutAll(p, bytes)
    IN  [q EXCEPT !.processedPos = @ + Len(bytes),
                  !.checkDicSize = IF @ = 0 /\ p.prop.dicSize - p.processedPos <= Len(bytes)
                                   THEN p.prop.dicSize ELSE @]

RECURSIVE Lzma2Chunks(_, _, _, _, _)
Broken(d, taken) == Return([d EXCEPT !.state = "ERROR"], taken, "NOT_SPECIFIED", "DATA")

\* Bytes as they are.
CopyData(d, dicLimit, src, taken, finish) ==
    LET room == LeastOf(dicLimit - d.decoder.dicPos, d.unpackSize)
        n == LeastOf(Len(src), room)
        p == IF d.state = "DATA"
             THEN LzmaDec_InitDicAndState(d.decoder, d.control = CopyResetDic, FALSE)
             ELSE d.decoder
        left == d.unpackSize - n
    IN  IF src = <<>> THEN Return(d, taken, "NEEDS_MORE_INPUT", "OK")
        ELSE IF n = 0 THEN Broken([d EXCEPT !.decoder = p], taken)
        ELSE Lzma2Chunks([d EXCEPT !.decoder = LzmaDec_UpdateWithUncompressed(p, SubSeq(src, 1, n)),
                                   !.unpackSize = left,
                                   !.state = IF left = 0 THEN "CONTROL" ELSE "DATA_CONT"],
                         dicLimit, SubSeq(src, n + 1, Len(src)), taken + n, finish)

\* It is over when neither input nor output is left of it.
LzmaDone(e, r, idle, dicLimit, src, taken, finish) ==
    LET over == /\ r.status = "MAYBE_FINISHED_WITHOUT_MARK"
                /\ e.unpackSize = 0
                /\ e.packSize = 0
    IN  IF r.res # "OK" THEN Broken(e, taken + r.taken)
        ELSE IF r.status = "NEEDS_MORE_INPUT"
        THEN IF e.packSize = 0 THEN Broken(e, taken + r.taken)
             ELSE Return(e, taken + r.taken, "NEEDS_MORE_INPUT", "OK")
        ELSE IF idle /\ ~ over THEN Broken(e, taken)
        ELSE Lzma2Chunks(IF idle THEN [e EXCEPT !.state = "CONTROL"] ELSE e, dicLimit,
                         SubSeq(src, r.taken + 1, Len(src)), taken + r.taken, finish)

AfterLzma(d, r, dicLimit, src, taken, finish) ==
    LET out == r.p.dicPos - d.decoder.dicPos
    IN  LzmaDone([d EXCEPT !.state = "DATA_CONT", !.decoder = r.p, !.packSize = @ - r.taken,
                           !.unpackSize = @ - out],
                 r, r.taken = 0 /\ out = 0, dicLimit, src, taken, finish)

\* A chunk of LZMA.
LzmaData(d, dicLimit, src, taken, finish) ==
    LET p == IF d.state = "DATA"
             THEN LzmaDec_InitDicAndState(d.decoder, d.control >= NeedsDic,
                                          d.control >= ControlLzma + 1)
             ELSE d.decoder
        whole == dicLimit - p.dicPos >= d.unpackSize
        inCur == SubSeq(src, 1, LeastOf(Len(src), d.packSize))
    IN  AfterLzma([d EXCEPT !.decoder = p],
                  LzmaDec_DecodeToDic(p, IF whole THEN p.dicPos + d.unpackSize ELSE dicLimit,
                                      inCur, IF whole THEN "END" ELSE "ANY"),
                  dicLimit, src, taken, finish)

Lzma2Chunks(d, dicLimit, src, taken, finish) ==
    LET full == d.decoder.dicPos = dicLimit
        read == Lzma2Dec_UpdateState(d, Head(src))
    IN  IF d.state = "ERROR" THEN Broken(d, taken)
        ELSE IF d.state = "FINISHED" THEN Return(d, taken, "FINISHED_WITH_MARK", "OK")
        ELSE IF full /\ finish = "ANY" THEN Return(d, taken, "NOT_FINISHED", "OK")
        ELSE IF d.state \in {"DATA", "DATA_CONT"}
        THEN IF IsUncompressed(d) THEN CopyData(d, dicLimit, src, taken, finish)
             ELSE LzmaData(d, dicLimit, src, taken, finish)
        ELSE IF src = <<>> THEN Return(d, taken, "NEEDS_MORE_INPUT", "OK")
        ELSE IF full /\ read.state # "FINISHED" THEN Broken(read, taken + 1)
        ELSE Lzma2Chunks(read, dicLimit, Tail(src), taken + 1, finish)

Lzma2Dec_DecodeToDic(d, dicLimit, src, finish) == Lzma2Chunks(d, dicLimit, src, 0, finish)

RECURSIVE ToBuf2(_, _, _, _, _, _)
AfterDic2(r, from, src, taken, dest, outSize, finish) ==
    LET n == r.p.decoder.dicPos - from
        out == dest \o [k \in 1..n |-> r.p.decoder.dic[from + k - 1]]
    IN  IF r.res # "OK" \/ n = 0 \/ outSize = n
        THEN [p |-> r.p, taken |-> taken + r.taken, dest |-> out, status |-> r.status,
              res |-> r.res]
        ELSE ToBuf2(r.p, SubSeq(src, r.taken + 1, Len(src)), taken + r.taken, out, outSize - n,
                    finish)
ToBuf2(d, src, taken, dest, outSize, finish) ==
    LET p == d.decoder
        q == IF p.dicPos = p.dicBufSize THEN [p EXCEPT !.dicPos = 0] ELSE p
        wraps == outSize > q.dicBufSize - q.dicPos
    IN  AfterDic2(Lzma2Dec_DecodeToDic([d EXCEPT !.decoder = q],
                                       IF wraps THEN q.dicBufSize ELSE q.dicPos + outSize, src,
                                       IF wraps THEN "ANY" ELSE finish),
                  q.dicPos, src, taken, dest, outSize, finish)

Lzma2Dec_DecodeToBuf(d, outSize, src, finish) == ToBuf2(d, src, 0, <<>>, outSize, finish)

Lzma2Decode(dicSize, outSize, src, finish) ==
    WholeInput(Lzma2Dec_DecodeToDic(NewDec2(outSize, dicSize), outSize, src, finish))
=============================================================================
