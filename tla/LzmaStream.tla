----------------------------- MODULE LzmaStream -----------------------------
(***************************************************************************)
(* Data on its way through LZMA or LZMA2: packed symbol by symbol, perhaps *)
(* damaged, and unpacked by somebody who gives the decoder its input and   *)
(* its room in pieces of any size.                                         *)
(***************************************************************************)
EXTENDS Lzma2

CONSTANTS Jobs,     \* [data, format, prop, fast, endMark, known, dicSize, dicBufSize, blockSize,
                    \*  chunkSize, harm]
          Pieces    \* how much input and how much room is given at a time

VARIABLES phase,    \* "pack", "sent", "unpack" or "done"
          job,      \* what is done
          pos,      \* how much of the block is encoded
          enc,      \* the encoder of LZMA
          ahead,    \* what the fast parse has read ahead
          block,    \* the encoder of LZMA2, where its chunk began, and SaveState
          stream,   \* what is packed
          dec,      \* the decoder
          taken,    \* how much of the stream it has taken
          received, \* what came out
          told,     \* what it said last
          atOnce    \* what it would say of the whole stream
vars == <<phase, job, pos, enc, ahead, block, stream, dec, taken, received, told, atOnce>>

Lzma2Used == job.format = "lzma2"
Prop == [PropsOf[job.prop] EXCEPT !.dicSize = job.dicSize]
\* A block of LZMA2 begins with nothing known of what came before.
BlockData == SubSeq(job.data, block.start + 1, LeastOf(Len(job.data), block.start + job.blockSize))
\* A chunk ends when it is long enough and nothing is read ahead.
ChunkFull ==
    Lzma2Used /\ pos > block.chunk
      /\ (pos = Len(BlockData) \/ (pos - block.chunk >= job.chunkSize /\ ahead = NotAhead))
NothingTold == [status |-> "NOT_SPECIFIED", res |-> "OK", idle |-> FALSE]

Init ==
    /\ job \in Jobs
    /\ phase = "pack" /\ pos = 0 /\ enc = LzmaEnc_Init /\ ahead = NotAhead
    /\ block = [start |-> 0, chunk |-> 0, saved |-> LzmaEnc_Init, is |-> NewBlock]
    /\ stream = <<>>
    /\ dec = NoneMoved /\ taken = 0 /\ received = <<>> /\ told = NothingTold /\ atOnce = NoneMoved

EncodeFirstByte ==
    /\ phase = "pack" /\ pos = 0 /\ BlockData # <<>>
    /\ enc' = EncodeFirst(enc, BlockData)
    /\ pos' = 1
    /\ UNCHANGED <<phase, job, ahead, block, stream, dec, taken, received, told, atOnce>>

EncodeNext ==
    /\ phase = "pack" /\ pos > 0 /\ pos < Len(BlockData) /\ ~ ChunkFull
    /\ \/ /\ job.fast
          /\ \E o \in {GetOptimumFast(enc, BlockData, pos, job.dicSize, ahead)} :
                 /\ enc' = EncodeSymbol(enc, Prop, BlockData, pos, o.s)
                 /\ pos' = pos + o.s.len
                 /\ ahead' = o.ahead
       \/ /\ ~ job.fast
          /\ \E s \in Sayable(enc, BlockData, pos, job.dicSize) :
                 /\ enc' = EncodeSymbol(enc, Prop, BlockData, pos, s)
                 /\ pos' = pos + s.len
          /\ UNCHANGED ahead
    /\ UNCHANGED <<phase, job, block, stream, dec, taken, received, told, atOnce>>

\* The end of LZMA data.
EncodeEnd ==
    /\ phase = "pack" /\ ~ Lzma2Used /\ pos = Len(BlockData)
    /\ stream' = Flush(enc, Prop, pos, job.endMark).out
    /\ phase' = "sent"
    /\ UNCHANGED <<job, pos, enc, ahead, block, dec, taken, received, told, atOnce>>

\* Lzma2EncInt_EncodeSubblock.
EncodeSubblock ==
    /\ phase = "pack" /\ ChunkFull
    /\ LET is == block.is
           bytes == SubSeq(BlockData, block.chunk + 1, pos)
           told1 == [srcPos |-> is.srcPos + Len(bytes), needInitState |-> FALSE,
                     needInitProp |-> FALSE]
       IN  \E e \in {Flush(enc, Prop, pos, FALSE)} :
           \/ /\ UseCopyBlock(bytes, e.out, FALSE)
              /\ stream' = stream \o CopyChunks(bytes, is.srcPos = 0)
              /\ block' = [block EXCEPT !.chunk = pos, !.is.srcPos = @ + Len(bytes)]
              /\ enc' = IF is.needInitState THEN LzmaEnc_Init ELSE block.saved
           \/ /\ ~ UseCopyBlock(bytes, e.out, FALSE)
              /\ stream' = stream \o LzmaChunk(is, bytes, e.out, job.prop)
              /\ block' = [block EXCEPT !.chunk = pos, !.is = told1, !.saved = RangeEnc_Init(e)]
              /\ enc' = RangeEnc_Init(e)
    /\ UNCHANGED <<phase, job, pos, ahead, dec, taken, received, told, atOnce>>

\* Lzma2Enc_EncodeMt1: the next block, or the end mark.
EncodeBlockEnd ==
    /\ phase = "pack" /\ Lzma2Used /\ block.chunk = Len(BlockData)
    /\ LET start == block.start + Len(BlockData)
       IN  \/ /\ start < Len(job.data)
              /\ block' = [start |-> start, chunk |-> 0, saved |-> LzmaEnc_Init, is |-> NewBlock]
              /\ enc' = LzmaEnc_Init /\ pos' = 0
              /\ UNCHANGED <<stream, phase>>
           \/ /\ start = Len(job.data)
              /\ stream' = Append(stream, 0)
              /\ phase' = "sent"
              /\ UNCHANGED <<block, enc, pos>>
    /\ UNCHANGED <<job, ahead, dec, taken, received, told, atOnce>>

-----------------------------------------------------------------------------
\* Who knows the size wants the end there; who does not, gives more room.
AllRoom == Len(job.data) + (IF job.known THEN 0 ELSE 1)
AtTheEnd == IF job.known THEN "END" ELSE "ANY"

DecodeAll(s) ==
    IF Lzma2Used THEN Lzma2Decode(job.dicSize, AllRoom, s, AtTheEnd)
    ELSE LzmaDecode(Prop, AllRoom, s, AtTheEnd)
DecOf(p) == IF Lzma2Used THEN p.decoder ELSE p
OutputOf(r) == LET p == DecOf(r.p) IN [k \in 1..p.dicPos |-> p.dic[k - 1]]

\* A control byte may become any other; the first bytes of all decide most.
Harmed(k) ==
    IF stream[k] >= Byte THEN 0..(ControlLzma + 3)
    ELSE {(stream[k] + by) % Byte : by \in 1..(IF k <= 6 THEN Byte - 1 ELSE 1)}

\* On the way a byte may change, or the end get lost.
Send ==
    /\ phase = "sent"
    /\ \/ stream' = stream
       \/ /\ job.harm
          /\ \/ \E k \in 1..Len(stream) : stream' = SubSeq(stream, 1, k - 1)
             \/ \E k \in 1..Len(stream) : \E b \in Harmed(k) : stream' = [stream EXCEPT ![k] = b]
    /\ phase' = "unpack"
    /\ \E r \in {DecodeAll(stream')} :
           atOnce' = [res |-> r.res, status |-> r.status, taken |-> r.taken, out |-> OutputOf(r),
                      faults |-> DecOf(r.p).faults, whole |-> stream' = stream]
    /\ dec' = IF Lzma2Used THEN NewDec2(job.dicBufSize, job.dicSize)
              ELSE NewDec(Prop, job.dicBufSize)
    /\ enc' = NoneMoved /\ block' = NoneMoved /\ pos' = 0
    /\ UNCHANGED <<job, ahead, taken, received, told>>

Some(rest) == {n \in Pieces : n < rest} \cup {rest}

Over(r, n) ==
    \/ r.res # "OK"
    \/ r.status = "FINISHED_WITH_MARK"
    \/ r.status = "MAYBE_FINISHED_WITHOUT_MARK" /\ n = AllRoom

Decode ==
    /\ phase = "unpack"
    /\ \E give \in Some(Len(stream) - taken), room \in Some(AllRoom - Len(received)) :
       LET src == SubSeq(stream, taken + 1, taken + give)
           last == room = AllRoom - Len(received)
           finish == IF last THEN AtTheEnd ELSE "ANY"
       IN  \E r \in {IF Lzma2Used THEN Lzma2Dec_DecodeToBuf(dec, room, src, finish)
                     ELSE LzmaDec_DecodeToBuf(dec, room, src, finish)} :
              /\ dec' = r.p
              /\ taken' = taken + r.taken
              /\ received' = received \o r.dest
              /\ told' = [status |-> r.status, res |-> r.res,
                          idle |-> r.taken = 0 /\ r.dest = <<>> /\ last
                                     /\ taken + give = Len(stream)]
              /\ phase' = IF Over(r, Len(received')) \/ told'.idle THEN "done" ELSE "unpack"
    /\ UNCHANGED <<job, pos, enc, ahead, block, stream, atOnce>>

Next ==
    \/ EncodeFirstByte \/ EncodeNext \/ EncodeEnd \/ EncodeSubblock \/ EncodeBlockEnd
    \/ Send \/ Decode

Spec == Init /\ [][Next]_vars

-----------------------------------------------------------------------------
IsPartOf(s, t) == Len(s) <= Len(t) /\ s = SubSeq(t, 1, Len(s))
Unpacking == phase \in {"unpack", "done"}

\* Nothing is read that is not there, and the code does not find itself wrong
\* (LzmaDec.c:1193), whatever the stream is.
NothingAmiss ==
    Unpacking => /\ DecOf(dec).faults = {} /\ atOnce.faults = {}
                 /\ told.res # "FAIL" /\ atOnce.res # "FAIL"

\* In pieces the decoder gives what it gives at once, and no more.
PiecesAgree == Unpacking => IsPartOf(received, atOnce.out)

\* What was packed is unpacked: at once, and in the end in pieces.
Delivers ==
    Unpacking /\ atOnce.whole =>
        /\ atOnce.res = "OK" /\ atOnce.out = job.data
        /\ told.res = "OK"
        /\ phase = "done" =>
             /\ received = job.data
             /\ \/ told.status = "FINISHED_WITH_MARK" /\ taken = Len(stream)
                \/ told.status = "MAYBE_FINISHED_WITHOUT_MARK" /\ job.known
=============================================================================
