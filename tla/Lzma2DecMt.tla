----------------------------- MODULE Lzma2DecMt -----------------------------
(***************************************************************************)
(* The multi-threaded LZMA2 decoder (lzmasdk/MtDec.c, Lzma2DecMt.c).  The  *)
(* threads pass on the right to read (canRead) and, in the same order, the *)
(* right to write (canWrite): each parses its input into one block, hands  *)
(* the reading on, decodes, waits for its turn and writes.  When memory or *)
(* threads run out, or a block is too large, the decoder goes on with one  *)
(* thread, which takes over what the others had read.                      *)
(*                                                                         *)
(* Thread 0 is the caller of MtDec_Code itself.  finishMode is 1 and the   *)
(* size of the output is given, as LzmaUtil.cpp calls it; there is no      *)
(* progress callback, and the system calls on events succeed.  In-data is  *)
(* a sequence of places in the stream; see Lzma2Stream.                    *)
(***************************************************************************)
EXTENDS Lzma2Stream, FiniteSets

CONSTANTS NumThreads,     \* props.numThreads, more than one
          Streams,        \* what the input can be
          SizeErrors,     \* by how much the given output size may be wrong
          InBufSize,      \* props.inBufSize_MT: places in a link
          InBufSize_ST,
          OutStep,        \* props.outStep_ST
          Faults          \* of "link", "cross", "out", "thread", "write", "read", "st"

ASSUME Lzma2DecMtAssumption ==
    /\ NumThreads \in Nat /\ NumThreads > 1
    /\ \A s \in Streams : s \in Seq({"n", "c", "d", "x", "e"})
    /\ SizeErrors \subseteq Int
    /\ {InBufSize, InBufSize_ST, OutStep, OutBlockMax, MinBlock} \subseteq Nat \ {0}
    /\ Faults \subseteq {"link", "cross", "out", "thread", "write", "read", "st"}

Threads == 0..(NumThreads - 1)
OK == "OK"

VARIABLES stream, outSize,                    \* the call
          held,                               \* what one decoder makes of it (for the properties)
          readProcessed, readWasFinished, readRes,
          crossBlock,                         \* data between crossStart and crossEnd
          blockIndex, numStartedThreads, limit_, \* limit_: numStartedThreads_Limit
          exitThread, needInterrupt, interruptIndex,
          wasInterrupted, codeRes, isAllocError, threadingError, overflow,
          filledThreadStart, numFilledThreads,
          outProcessed_Parse,
          threads,                            \* CMtDecThread
          coders,                             \* CLzma2DecMtThread
          pc, me,                             \* the threads and their locals
          main, st, result, out

callVars == <<stream, outSize, held>>
readVars == <<readProcessed, readWasFinished, readRes, crossBlock, outProcessed_Parse>>
startVars == <<numStartedThreads, limit_>>
interruptVars == <<needInterrupt, interruptIndex>>
switchVars == <<wasInterrupted, codeRes, isAllocError, threadingError, overflow>>
filledVars == <<filledThreadStart, numFilledThreads>>
vars == <<callVars, readVars, blockIndex, startVars, exitThread, interruptVars, switchVars,
          filledVars, threads, coders, pc, me, main, st, result, out>>

NoLocals == [blockIndex |-> 0, interrupted |-> FALSE, finish |-> FALSE, needCode |-> FALSE,
             needWrite |-> FALSE, allocError |-> FALSE, overflow |-> FALSE,
             threading |-> FALSE, codeRes |-> OK, link |-> 1, start |-> 0, size |-> 0,
             inCodePos |-> 0, next |-> 0]
NewCoder == [dec |-> NewDecoder, dicPos |-> 0, parseStatus |-> "more", state |-> "CONTINUE",
             inPreSize |-> 0, outPreSize |-> 0, inCodeSize |-> 0, outCodeSize |-> 0,
             codeRes |-> OK, outBuf |-> <<>>, outBufSize |-> 0]
NoSt == [dec |-> NewDecoder, tMode |-> FALSE, data |-> <<>>, inLim |-> 0, dic |-> <<>>,
         outProcessed |-> 0]

Place(from, n) == [k \in 1..n |-> from + k]

\* How many units of output the whole stream has.
Units(s) == Cardinality({k \in DOMAIN s : s[k] = "d"})

\* Lzma2DecMt_Decode up to MtDec_Code, and MtDec_Code up to its thread 0.
Init ==
    /\ stream \in Streams
    /\ outSize \in {Units(stream) + n : n \in SizeErrors} /\ outSize >= 0
    /\ held = Decode(NewDecoder, Place(0, Len(stream)), stream, outSize, TRUE)
    /\ readProcessed = 0 /\ readWasFinished = FALSE /\ readRes = OK /\ crossBlock = <<>>
    /\ outProcessed_Parse = 0
    /\ blockIndex = 1
    /\ numStartedThreads = 1 /\ limit_ = NumThreads
    /\ exitThread = FALSE
    /\ needInterrupt = FALSE /\ interruptIndex = 0
    /\ wasInterrupted = FALSE /\ codeRes = OK /\ isAllocError = FALSE
    /\ threadingError = FALSE /\ overflow = FALSE
    /\ filledThreadStart = 0 /\ numFilledThreads = 0
    /\ threads = [t \in Threads |-> [canRead |-> t = 0, canWrite |-> t = 0, inBuf |-> <<>>,
                                     inDataSize_Start |-> 0, inDataSize |-> 0]]
    /\ coders = [t \in Threads |-> NewCoder]
    /\ pc = [t \in Threads |-> IF t = 0 THEN "idle" ELSE "none"]
    /\ me = [t \in Threads |-> NoLocals]
    /\ main = "mt" /\ st = NoSt /\ result = OK /\ out = <<>>

-----------------------------------------------------------------------------

Goto(t, l) == pc' = [pc EXCEPT ![t] = l]

\* memcpy to the start of a link, whatever else it holds
Overwrite(link, data) == data \o SubSeq(link, Len(data) + 1, Len(link))

\* The data that a thread has in its links, of which the first was filled
\* with start places.
LinkSize(k, start, size) ==
    IF k = 1 THEN start
    ELSE LET rem == size - start - (k - 2) * InBufSize
         IN  IF rem < InBufSize THEN rem ELSE InBufSize

\* MtDec_GetError_Spec: only blocks after the one that failed are interrupted.
InterruptedAt(index) == needInterrupt /\ index > interruptIndex

\* MtDec_Interrupt
Interrupt(index) ==
    /\ needInterrupt' = TRUE
    /\ interruptIndex' = IF ~ needInterrupt \/ index < interruptIndex THEN index
                         ELSE interruptIndex

-----------------------------------------------------------------------------
(* ThreadFunc2: a block is begun, read and parsed. *)

\* exitThread, or the right to read the next block.
BeginBlock(t) ==
    /\ pc[t] = "idle" /\ threads[t].canRead
    /\ threads' = [threads EXCEPT ![t].canRead = FALSE]
    /\ IF exitThread
       THEN Goto(t, "ended") /\ UNCHANGED <<blockIndex, me>>
       ELSE /\ blockIndex' = blockIndex + 1
            /\ me' = [me EXCEPT ![t] = [NoLocals EXCEPT
                        !.blockIndex = blockIndex,
                        !.interrupted = InterruptedAt(blockIndex),
                        !.finish = readWasFinished \/ InterruptedAt(blockIndex)]]
            /\ Goto(t, IF InterruptedAt(blockIndex) THEN "pass" ELSE "link")
    /\ UNCHANGED <<callVars, readVars, startVars, exitThread, interruptVars, switchVars,
                   filledVars, coders, main, st, result, out>>

HasLink(t) == me[t].link <= Len(threads[t].inBuf)

HasCross(t) == me[t].link = 1 /\ crossBlock # <<>>

\* The next link cannot be allocated.
LinkFails(t) ==
    /\ pc[t] = "link" /\ "link" \in Faults /\ ~ HasLink(t)
    /\ me' = [me EXCEPT ![t].finish = TRUE, ![t].allocError = TRUE]
    /\ Goto(t, "pass")
    /\ UNCHANGED <<callVars, readVars, blockIndex, startVars, exitThread, interruptVars,
                   switchVars, filledVars, threads, coders, main, st, result, out>>

\* Lzma2DecMt_MtCallback_Parse: what the coder of t makes of data, and what is
\* left of it.
ParseCall(t, data) ==
    LET c == IF me[t].link = 1
             THEN [NewCoder EXCEPT !.outBuf = coders[t].outBuf, !.outBufSize = coders[t].outBufSize]
             ELSE coders[t]
        rem == outSize - outProcessed_Parse
        limit == IF OutBlockMax >= rem THEN rem ELSE OutBlockMax
        r == Parse(c.dec, c.dicPos, [k \in DOMAIN data |-> stream[data[k]]], limit)
        state == CASE r.status = "full" -> "OVERFLOW"
                   [] r.status = "more" -> "CONTINUE"
                   [] r.status = "block" -> "NEW"
                   [] OTHER -> "END"
    IN  [used |-> r.used, dicPos |-> r.dicPos,
         coder |-> [c EXCEPT !.dec = r.dec, !.dicPos = r.dicPos, !.parseStatus = r.status,
                             !.state = state, !.inPreSize = @ + r.used,
                             !.outPreSize = IF state = "OVERFLOW" THEN @ ELSE r.dicPos]]

\* One turn of the loop over the links: take what crossed over from the block
\* before, or read; parse it; and go on, or leave the loop.
\*   n: how much is read before an error, error: whether there is one,
\*   cross: whether the buffer for what crosses over can be allocated.
ReadLinkWith(t, n, error, cross) ==
    LET l == me[t]
        fromCross == HasCross(t)
        data == IF fromCross THEN crossBlock ELSE Place(readProcessed, n)
        size == Len(data)
        finish == IF fromCross THEN l.finish ELSE error \/ size # InBufSize
        all == IF fromCross THEN size ELSE l.size + size
        start == IF l.link = 1 THEN size ELSE l.start
        stopped == ~ fromCross /\ InterruptedAt(l.blockIndex)
        p == ParseCall(t, data)
        rest == SubSeq(data, p.used + 1, size)
        ends == p.coder.state # "CONTINUE" \/ finish
        partial == ends /\ rest # <<>> /\ p.coder.state # "OVERFLOW"
        old == IF HasLink(t) THEN threads[t].inBuf[l.link] ELSE <<>>
        kept == IF p.coder.state = "OVERFLOW" \/ ~ fromCross THEN data
                ELSE SubSeq(data, 1, p.used)
        link == Overwrite(old, IF stopped THEN data ELSE kept)
        read == [l EXCEPT !.size = all, !.start = start, !.finish = finish]
        parsed == [read EXCEPT !.needWrite = TRUE]
        lost == partial /\ ~ fromCross /\ p.coder.state # "END" /\ ~ cross
    IN  /\ threads' = [threads EXCEPT ![t].inBuf =
                         IF HasLink(t) THEN [@ EXCEPT ![l.link] = link] ELSE Append(@, link)]
        /\ IF fromCross THEN UNCHANGED <<readProcessed, readWasFinished, readRes>>
           ELSE /\ readProcessed' = readProcessed + size
                /\ readWasFinished' = (readWasFinished \/ finish)
                /\ readRes' = IF error THEN "READ" ELSE readRes
        /\ IF stopped THEN UNCHANGED <<coders, outProcessed_Parse>>
           ELSE /\ coders' = [coders EXCEPT ![t] = p.coder]
                /\ outProcessed_Parse' = outProcessed_Parse
                     + (IF p.coder.state \in {"NEW", "END"} THEN p.dicPos ELSE 0)
        /\ crossBlock' =
             CASE stopped -> crossBlock
               [] ~ stopped /\ partial /\ p.coder.state = "END" /\ fromCross -> rest
               [] ~ stopped /\ partial /\ p.coder.state # "END" /\ ~ lost -> rest
               [] OTHER -> <<>>
        /\ Goto(t, IF stopped \/ ends THEN "pass" ELSE "link")
        /\ me' = [me EXCEPT ![t] =
             CASE stopped -> [read EXCEPT !.interrupted = TRUE, !.finish = TRUE]
               [] ~ stopped /\ p.coder.state = "OVERFLOW" ->
                    [parsed EXCEPT !.finish = TRUE, !.overflow = TRUE]
               [] ~ stopped /\ ~ ends -> [parsed EXCEPT !.link = @ + 1]
               [] ~ stopped /\ p.coder.state # "OVERFLOW" /\ ends /\ ~ partial ->
                    [parsed EXCEPT !.needCode = TRUE,
                                   !.finish = @ \/ p.coder.state = "END"]
               [] ~ stopped /\ partial /\ p.coder.state = "END" ->
                    [parsed EXCEPT !.needCode = TRUE, !.finish = TRUE,
                                   !.size = @ - Len(rest),
                                   !.start = IF l.link = 1 THEN p.used ELSE @]
               [] ~ stopped /\ partial /\ p.coder.state # "END" /\ lost ->
                    [parsed EXCEPT !.needCode = TRUE, !.finish = TRUE, !.allocError = TRUE]
               [] OTHER ->
                    [parsed EXCEPT !.needCode = TRUE, !.finish = FALSE,
                                   !.size = @ - Len(rest),
                                   !.start = IF l.link = 1 THEN p.used ELSE @]]

ToRead == LET rem == Len(stream) - readProcessed IN IF rem < InBufSize THEN rem ELSE InBufSize

ReadLink(t) ==
    /\ pc[t] = "link" /\ (readRes = OK \/ HasCross(t))
    /\ \E cross \in {TRUE} \cup (IF "cross" \in Faults THEN {FALSE} ELSE {}) :
         ReadLinkWith(t, ToRead, FALSE, cross)
    /\ UNCHANGED <<callVars, blockIndex, startVars, exitThread, interruptVars, switchVars,
                   filledVars, main, st, result, out>>

\* FullRead fails after n places, and does so ever after; what was read is
\* parsed and decoded all the same.
ReadFails(t) ==
    /\ pc[t] = "link" /\ "read" \in Faults /\ ~ HasCross(t)
    /\ \E n \in IF readRes = OK THEN 0..ToRead ELSE {0} : ReadLinkWith(t, n, TRUE, TRUE)
    /\ UNCHANGED <<callVars, blockIndex, startVars, exitThread, interruptVars, switchVars,
                   filledVars, main, st, result, out>>

-----------------------------------------------------------------------------
(* ThreadFunc2: the reading is passed on. *)

\* Wrong: the last thread is followed by one that there is not.
NextUnwrapped(t, started) == t + 1

NextThread(t, started) == IF t + 1 >= started THEN 0 ELSE t + 1

WantsThread == numStartedThreads < limit_

\* Lzma2DecMt_MtCallback_PreCode: the output of a block is allocated.
PreCode(t, memory) ==
    LET c == coders[t]
        fits == c.outBufSize >= c.outPreSize
    IN  CASE c.inPreSize = 0 -> [res |-> "DATA", coder |-> [c EXCEPT !.codeRes = "DATA"]]
          [] c.inPreSize # 0 /\ fits ->
               [res |-> OK, coder |-> [c EXCEPT !.dec = NewDecoder, !.dicPos = 0]]
          [] c.inPreSize # 0 /\ ~ fits /\ memory ->
               [res |-> OK, coder |-> [c EXCEPT !.dec = NewDecoder, !.dicPos = 0,
                                                !.outBufSize = c.outPreSize]]
          [] OTHER -> [res |-> "MEM", coder |-> [c EXCEPT !.outBufSize = 0]]

\* An error of another thread, memory for the output, and one more thread if
\* there may be one; then the next thread may read, unless this block is the last.
PassOn(t, memory, created) ==
    LET l == me[t]
        seen == l.interrupted \/ InterruptedAt(l.blockIndex)
        precode == PreCode(t, memory)
        codes == l.needCode /\ ~ seen
        res == IF codes THEN precode.res ELSE OK
        finish == l.finish \/ res # OK \/ seen
        asks == ~ finish /\ WantsThread
        alone == asks /\ ~ created /\ numStartedThreads = 1
        more == asks /\ created
        started == numStartedThreads + (IF more THEN 1 ELSE 0)
        goesOn == ~ finish /\ ~ alone
        next == NextThread(t, started)
    IN  /\ coders' = IF codes THEN [coders EXCEPT ![t] = precode.coder] ELSE coders
        /\ numStartedThreads' = started
        /\ limit_' = IF asks /\ ~ created /\ ~ alone THEN numStartedThreads ELSE limit_
        /\ threads' = IF goesOn THEN [threads EXCEPT ![next].canRead = TRUE] ELSE threads
        /\ pc' = [u \in Threads |->
                    CASE u = t -> IF codes /\ res = OK /\ ~ alone THEN "code" ELSE "write"
                      [] u # t /\ more /\ u = numStartedThreads -> "idle"
                      [] OTHER -> pc[u]]
        /\ me' = [me EXCEPT ![t] = [l EXCEPT
                     !.interrupted = seen, !.codeRes = res,
                     !.needCode = @ /\ res = OK /\ ~ alone,
                     !.finish = ~ goesOn, !.threading = alone, !.next = next,
                     !.link = 1, !.inCodePos = 0]]
        /\ UNCHANGED <<callVars, readVars, blockIndex, exitThread, interruptVars, switchVars,
                       filledVars, main, st, result, out>>

Pass(t) == pc[t] = "pass" /\ PassOn(t, TRUE, TRUE)

NoMemory(t) ==
    /\ pc[t] = "pass" /\ "out" \in Faults
    /\ me[t].needCode /\ coders[t].inPreSize # 0 /\ coders[t].outBufSize < coders[t].outPreSize
    /\ PassOn(t, FALSE, TRUE)

NoThread(t) ==
    /\ pc[t] = "pass" /\ "thread" \in Faults /\ WantsThread /\ ~ me[t].finish
    /\ PassOn(t, TRUE, FALSE)

-----------------------------------------------------------------------------
(* ThreadFunc2: the block is decoded. *)

\* Lzma2DecMt_MtCallback_Code for the next link, and whether this was the last.
Code(t) ==
    /\ pc[t] = "code"
    /\ LET l == me[t]
           c == coders[t]
           n == LinkSize(l.link, l.start, l.size)
           finished == c.parseStatus \in {"mark", "block"}
           r == Decode(c.dec, SubSeq(threads[t].inBuf[l.link], 1, n), stream,
                       c.outPreSize - c.dicPos, finished)
           dicPos == c.dicPos + Len(r.out)
           inCodeSize == c.inCodeSize + r.used
           short == finished /\ (n # r.used \/ (c.inPreSize = inCodeSize /\ c.outPreSize # dicPos))
           res == IF r.res # OK THEN r.res ELSE IF short THEN "FAIL" ELSE OK
           stop == IF finished THEN c.inPreSize = inCodeSize
                   ELSE r.used # n \/ c.outPreSize = dicPos
           over == res # OK \/ stop \/ inCodeSize = l.size \/ InterruptedAt(l.blockIndex)
       IN  /\ coders' = [coders EXCEPT ![t] = [c EXCEPT
                            !.dec = r.dec, !.dicPos = dicPos, !.inCodeSize = inCodeSize,
                            !.outCodeSize = dicPos, !.codeRes = r.res,
                            !.outBuf = Overwrite(@, SubSeq(@, 1, c.dicPos) \o r.out)]]
           /\ IF res # OK THEN Interrupt(l.blockIndex) ELSE UNCHANGED interruptVars
           /\ me' = [me EXCEPT ![t] = [l EXCEPT
                        !.codeRes = res, !.inCodePos = inCodeSize,
                        !.link = IF over THEN @ ELSE @ + 1,
                        !.interrupted = res = OK /\ ~ stop /\ inCodeSize # l.size
                                          /\ InterruptedAt(l.blockIndex)]]
           /\ Goto(t, IF over THEN "write" ELSE "code")
    /\ UNCHANGED <<callVars, readVars, blockIndex, startVars, exitThread, switchVars,
                   filledVars, threads, main, st, result, out>>

-----------------------------------------------------------------------------
(* ThreadFunc2: the block is written. *)

\* What the block says about going on with one thread.
Troubled(t) ==
    LET l == me[t]
        memory == l.allocError \/ l.codeRes = "MEM"
    IN  IF wasInterrupted THEN UNCHANGED switchVars
        ELSE /\ wasInterrupted' = (l.codeRes # OK \/ l.threading \/ memory \/ l.overflow)
             /\ codeRes' = l.codeRes
             /\ threadingError' = l.threading
             /\ isAllocError' = memory
             /\ overflow' = l.overflow

\* Wrong: a block that was interrupted is written as far as it got.
MayWriteMore(t) ==
    LET l == me[t]
    IN  ~ l.threading /\ ~ l.allocError /\ ~ l.overflow /\ l.codeRes # "MEM"

MayWrite(t) ==
    LET l == me[t]
    IN  /\ ~ wasInterrupted /\ ~ l.interrupted
        /\ ~ l.threading /\ ~ l.allocError /\ ~ l.overflow /\ l.codeRes # "MEM"

\* Lzma2DecMt_MtCallback_Write: a block that did not come out as it was parsed
\* is an error (AsParsed says that there is none, so that no action has it).
Mismatched(t) ==
    LET c == coders[t]
    IN  /\ c.codeRes = OK /\ c.parseStatus \in {"mark", "block"}
        /\ c.outPreSize # c.outCodeSize \/ c.inPreSize # c.inCodeSize

\* The end of an iteration: the block is kept for a single thread to decode
\* if it was not written, and the right to write is passed on; or decoding
\* begins anew with thread 0; or it ends.
Leave(t, written, res, needContinue) ==
    LET l == me[t]
        recode == ~ written
            /\ (~ l.needCode \/ res # OK \/ wasInterrupted' \/ l.codeRes # OK
                   \/ l.interrupted \/ wasInterrupted \/ numFilledThreads # 0)
        filled == recode /\ (l.size # 0 \/ ~ l.finish)
        kept == IF filled THEN [threads EXCEPT ![t].inDataSize_Start = l.start,
                                               ![t].inDataSize = l.size,
                                               ![t].canWrite = FALSE]
                ELSE [threads EXCEPT ![t].canWrite = FALSE]
    IN  /\ filledThreadStart' = IF recode /\ numFilledThreads = 0 THEN t ELSE filledThreadStart
        /\ numFilledThreads' = numFilledThreads + (IF filled THEN 1 ELSE 0)
        /\ IF res # OK \/ (l.needWrite /\ ~ needContinue /\ ~ l.finish)
           THEN Interrupt(l.blockIndex)
           ELSE UNCHANGED interruptVars
        /\ CASE ~ l.finish ->
                  /\ threads' = [kept EXCEPT ![l.next].canWrite = TRUE]
                  /\ Goto(t, "idle") /\ UNCHANGED exitThread
             [] l.finish /\ needContinue ->
                  /\ threads' = [kept EXCEPT ![0].canWrite = TRUE, ![0].canRead = TRUE]
                  /\ Goto(t, "idle") /\ UNCHANGED exitThread
             [] l.finish /\ ~ needContinue /\ t # 0 ->
                  /\ threads' = [kept EXCEPT ![0].canRead = TRUE]
                  /\ exitThread' = TRUE
                  /\ Goto(t, "idle")
             [] OTHER -> threads' = kept /\ Goto(t, "ended") /\ UNCHANGED exitThread

\* That exitThread is found set here "is never executed in normal cases": no
\* action has it.
HasTurn(t) == pc[t] = "write" /\ threads[t].canWrite /\ ~ exitThread

Ending(t) == coders[t].state \in {"OVERFLOW", "END"}

\* The block is written to the output ...
Write(t) ==
    /\ HasTurn(t) /\ me[t].needWrite /\ MayWrite(t) /\ ~ Mismatched(t)
    /\ Troubled(t)
    /\ out' = out \o SubSeq(coders[t].outBuf, 1, coders[t].outCodeSize)
    /\ Leave(t, TRUE, OK, ~ Ending(t))
    /\ UNCHANGED <<callVars, readVars, blockIndex, startVars, coders, me, main, st, result>>

\* ... or the output takes a part of it only, ...
WriteFails(t) ==
    /\ HasTurn(t) /\ me[t].needWrite /\ MayWrite(t) /\ ~ Mismatched(t)
    /\ "write" \in Faults /\ coders[t].outCodeSize > 0
    /\ UNCHANGED <<isAllocError, threadingError, overflow>>
    /\ wasInterrupted' = TRUE
    /\ codeRes' = me[t].codeRes
    /\ \E n \in 0..(coders[t].outCodeSize - 1) : out' = out \o SubSeq(coders[t].outBuf, 1, n)
    /\ Leave(t, TRUE, "WRITE", FALSE)
    /\ UNCHANGED <<callVars, readVars, blockIndex, startVars, coders, me, main, st, result>>

\* ... or it is not to be written.
WriteNothing(t) ==
    /\ HasTurn(t) /\ ~ (me[t].needWrite /\ MayWrite(t))
    /\ Troubled(t)
    /\ Leave(t, FALSE, OK, IF me[t].needWrite THEN FALSE ELSE ~ me[t].finish)
    /\ UNCHANGED <<callVars, readVars, blockIndex, startVars, coders, me, main, st, result, out>>

-----------------------------------------------------------------------------
(* The caller of MtDec_Code, and the decoder with one thread. *)

\* Lzma2DecMt_Decode after MtDec_Code: only a lack of memory or of threads and
\* a block that is too large make it go on; what codeRes says is not asked.
NeedContinue == isAllocError \/ threadingError \/ overflow

MtEnds ==
    /\ main = "mt" /\ pc[0] = "ended" /\ ~ NeedContinue
    /\ result' = readRes
    /\ main' = "close"
    /\ UNCHANGED <<callVars, readVars, blockIndex, startVars, exitThread, interruptVars,
                   switchVars, filledVars, threads, coders, pc, me, st, out>>

\* Wrong: the last thread that still has something to give is forgotten.
IsFilledBefore(t) ==
    t < numStartedThreads /\
    numFilledThreads - 1 > IF t >= filledThreadStart THEN t - filledThreadStart
                           ELSE t + numStartedThreads - filledThreadStart

\* MtDec_PrepareRead: only what the threads in a row still have to give is kept.
IsFilled(t) ==
    t < numStartedThreads /\
    numFilledThreads > IF t >= filledThreadStart THEN t - filledThreadStart
                       ELSE t + numStartedThreads - filledThreadStart

Switch ==
    /\ main = "mt" /\ pc[0] = "ended" /\ NeedContinue
    /\ threads' = [t \in Threads |-> IF IsFilled(t) THEN threads[t]
                                     ELSE [threads[t] EXCEPT !.inBuf = <<>>]]
    /\ st' = [NoSt EXCEPT !.tMode = numFilledThreads # 0 \/ crossBlock # <<>>,
                          !.outProcessed = Len(out)]
    /\ \/ main' = "fetch" /\ UNCHANGED result
       \/ "st" \in Faults /\ main' = "close" /\ result' = "MEM"
    /\ UNCHANGED <<callVars, readVars, blockIndex, startVars, exitThread, interruptVars,
                   switchVars, filledVars, coders, pc, me, out>>

\* MtDec_Read: the next link of the threads in their order ...
Filled(t, inLim) ==
    LET th == threads[t]
    IN  IF inLim = 0 THEN th ELSE [th EXCEPT !.inBuf = Tail(@)]

NextFilled(t) == IF t + 1 = numStartedThreads THEN 0 ELSE t + 1

\* a link of thread t with lim places of data
TakeFrom(t, th) ==
    LET rem == IF th.inDataSize < InBufSize THEN th.inDataSize ELSE InBufSize
        lim == IF th.inDataSize_Start # 0 THEN th.inDataSize_Start ELSE rem
    IN  /\ threads' = [threads EXCEPT ![t] = [th EXCEPT !.inDataSize_Start = 0,
                                                        !.inDataSize = @ - lim]]
        /\ st' = [st EXCEPT !.data = SubSeq(th.inBuf[1], 1, lim), !.inLim = lim]
        /\ main' = IF lim = 0 THEN "fetch" ELSE "decode"

FetchFilled ==
    /\ main = "fetch" /\ st.tMode /\ numFilledThreads # 0
    /\ LET t == filledThreadStart
           th == Filled(t, st.inLim)
           u == NextFilled(t)
       IN  IF st.inLim = 0 \/ th.inDataSize # 0
           THEN TakeFrom(t, th) /\ UNCHANGED filledVars
           ELSE /\ numFilledThreads' = numFilledThreads - 1
                /\ IF numFilledThreads = 1
                   THEN /\ threads' = [threads EXCEPT ![t] = [th EXCEPT !.inBuf = <<>>]]
                        /\ UNCHANGED <<filledThreadStart, st, main>>
                   ELSE /\ filledThreadStart' = u
                        /\ TakeFrom(u, threads[u])
    /\ UNCHANGED <<callVars, readVars, blockIndex, startVars, exitThread, interruptVars,
                   switchVars, coders, pc, me, result, out>>

\* ... and then what crossed over from the last block.
FetchCross ==
    /\ main = "fetch" /\ st.tMode /\ numFilledThreads = 0 /\ crossBlock # <<>>
    /\ st' = [st EXCEPT !.data = crossBlock, !.inLim = Len(crossBlock)]
    /\ crossBlock' = <<>>
    /\ main' = "decode"
    /\ UNCHANGED <<callVars, readProcessed, readWasFinished, readRes, outProcessed_Parse,
                   blockIndex, startVars, exitThread, interruptVars, switchVars, filledVars,
                   threads, coders, pc, me, result, out>>

\* When all of that is decoded the stream is read again, unless it has ended.
FetchStream ==
    /\ main = "fetch" /\ (st.tMode => numFilledThreads = 0 /\ crossBlock = <<>>)
    /\ LET rem == Len(stream) - readProcessed
           n == IF rem < InBufSize_ST THEN rem ELSE InBufSize_ST
           Read(k, res) ==
             /\ st' = [st EXCEPT !.tMode = FALSE, !.data = Place(readProcessed, k), !.inLim = k]
             /\ readProcessed' = readProcessed + k
             /\ readRes' = res
             /\ readWasFinished' = (readWasFinished \/ k = 0 \/ res # OK)
       IN  IF readWasFinished
           THEN /\ st' = [st EXCEPT !.tMode = FALSE, !.data = <<>>, !.inLim = 0]
                /\ UNCHANGED <<readProcessed, readRes, readWasFinished>>
           ELSE Read(n, OK) \/ ("read" \in Faults /\ Read(0, "READ"))
    /\ main' = "decode"
    /\ UNCHANGED <<callVars, crossBlock, outProcessed_Parse, blockIndex, startVars, exitThread,
                   interruptVars, switchVars, filledVars, threads, coders, pc, me, result, out>>

\* Lzma2DecMt_Decode makes of the decoder's answer its own.
StResult(res) == IF res \in {OK, "INPUT_EOF"} /\ readRes # OK THEN readRes ELSE res

\* Wrong: a decoder that gets nothing any more is not noticed.
NothingComesUnnoticed(r) == FALSE

NothingComes(r) == r.used = 0

\* One turn of the loop of Lzma2Dec_Decode_ST: decode into the window, and
\* write when a step of it is full or nothing more comes.
DecodeSt ==
    /\ main = "decode"
    /\ LET room == OutStep - Len(st.dic)
           rem == outSize - st.outProcessed
           size == IF room >= rem THEN rem ELSE room
           r == Decode(st.dec, st.data, stream, size, room >= rem)
           outProcessed == st.outProcessed + Len(r.out)
           finished == r.res = OK /\ r.dec.state = "FINISHED"
           stops == r.res # OK \/ NothingComes(r) \/ finished
           dic == st.dic \o r.out
           flush == stops \/ Len(r.out) >= size
           data == SubSeq(st.data, r.used + 1, Len(st.data))
           res == CASE r.res # OK -> r.res
                    [] r.res = OK /\ finished -> IF outProcessed # outSize THEN "DATA" ELSE OK
                    [] OTHER -> "INPUT_EOF"
       IN  /\ st' = [st EXCEPT !.dec = r.dec, !.data = data, !.outProcessed = outProcessed,
                               !.dic = IF flush THEN <<>> ELSE dic]
           /\ \/ /\ out' = IF flush THEN out \o dic ELSE out
                 /\ main' = IF stops THEN "close" ELSE IF data = <<>> THEN "fetch" ELSE "decode"
                 /\ result' = IF stops THEN StResult(res) ELSE result
              \/ /\ flush /\ dic # <<>> /\ "write" \in Faults
                 /\ UNCHANGED out
                 /\ main' = "close"
                 /\ result' = "WRITE"
    /\ UNCHANGED <<callVars, readVars, blockIndex, startVars, exitThread, interruptVars,
                   switchVars, filledVars, threads, coders, pc, me>>

\* Lzma2DecMt_Destroy: the threads are told to exit, and waited for.
Close(t) ==
    /\ main = "close" /\ pc[t] = "idle" /\ ~ threads[t].canRead
    /\ \A u \in Threads : u < t => pc[u] \in {"none", "ended"}
    /\ exitThread' = TRUE
    /\ threads' = [threads EXCEPT ![t].canRead = TRUE, ![t].canWrite = TRUE]
    /\ UNCHANGED <<callVars, readVars, blockIndex, startVars, interruptVars, switchVars,
                   filledVars, coders, pc, me, main, st, result, out>>

Closed ==
    /\ main = "close" /\ \A t \in Threads : pc[t] \in {"none", "ended"}
    /\ main' = "done"
    /\ UNCHANGED <<callVars, readVars, blockIndex, startVars, exitThread, interruptVars,
                   switchVars, filledVars, threads, coders, pc, me, st, result, out>>

-----------------------------------------------------------------------------

Thread(t) ==
    \/ BeginBlock(t) \/ LinkFails(t) \/ ReadLink(t) \/ ReadFails(t)
    \/ Pass(t) \/ NoMemory(t) \/ NoThread(t) \/ Code(t)
    \/ Write(t) \/ WriteFails(t) \/ WriteNothing(t)

Main == MtEnds \/ Switch \/ FetchFilled \/ FetchCross \/ FetchStream \/ DecodeSt
           \/ (\E t \in Threads : Close(t)) \/ Closed

Next == Main \/ (\E t \in Threads : Thread(t))

\* As long as any thread can run, the operating system lets one of them run.
Fairness == WF_vars(Main \/ \E t \in Threads : Thread(t))

Spec == Init /\ [][Next]_vars
FairSpec == Spec /\ Fairness

-----------------------------------------------------------------------------
(* Properties. *)

\* The stream is complete and of the size that the caller gives.
Sound == held.res = OK /\ held.dec.state = "FINISHED" /\ Len(held.out) = outSize

Results == {OK, "MEM", "DATA", "FAIL", "READ", "WRITE", "INPUT_EOF"}
Places == Seq(1..Len(stream))

\* Every variable has its type.
TypeOK ==
    /\ readProcessed \in 0..Len(stream) /\ readWasFinished \in BOOLEAN
    /\ {readRes, codeRes, result} \subseteq Results
    /\ {crossBlock, out} \subseteq Places
    /\ blockIndex \in Nat /\ outProcessed_Parse \in Nat /\ interruptIndex \in 0..blockIndex
    /\ numStartedThreads \in 1..NumThreads /\ limit_ \in 1..NumThreads
    /\ {exitThread, needInterrupt, wasInterrupted, isAllocError, threadingError, overflow}
          \subseteq BOOLEAN
    /\ filledThreadStart \in Threads /\ numFilledThreads \in 0..NumThreads
    /\ \A t \in Threads :
         /\ threads[t] \in [canRead : BOOLEAN, canWrite : BOOLEAN, inBuf : Seq(Places),
                            inDataSize_Start : 0..InBufSize, inDataSize : Nat]
         /\ coders[t].outBuf \in Places /\ coders[t].codeRes \in Results
         /\ coders[t].state \in {"CONTINUE", "NEW", "END", "OVERFLOW"}
         /\ me[t].next \in Threads /\ me[t].codeRes \in Results
    /\ pc \in [Threads -> {"none", "idle", "link", "pass", "code", "write", "ended"}]
    /\ main \in {"mt", "fetch", "decode", "close", "done"}
    /\ st.data \in Places /\ st.dic \in Places /\ st.outProcessed \in Nat

\* The rules by which the threads work together.
Reading(t) == pc[t] \in {"link", "pass"}
Busy(t) == pc[t] \in {"link", "pass", "code", "write"}
Runs(t) == pc[t] \notin {"none", "ended"}

\* One thread at most reads, and no event is set while it does; one thread at
\* most has its turn to write.
OneAtATime ==
    main = "mt" =>
       /\ \A t, u \in Threads : Reading(t) /\ (Reading(u) \/ threads[u].canRead) => t = u
       /\ \A t, u \in Threads : threads[t].canRead /\ threads[u].canRead => t = u
       /\ \A t, u \in Threads : threads[t].canWrite /\ threads[u].canWrite => t = u
       /\ \A t \in Threads : Reading(t) => ~ threads[t].canRead

\* The turn to write is that of the block which was read first of those that
\* the threads have.
FirstReadWrites ==
    main = "mt" =>
       \A t, u \in Threads : threads[t].canWrite /\ Busy(t) /\ Busy(u) =>
          me[t].blockIndex <= me[u].blockIndex

\* Until decoding ends, both rights are with somebody who will use them: the
\* next block is read or may be, unless a thread has the last one, and the
\* turn to write is with a block, or with the thread that may read when there
\* is none.
RightsAreKept ==
    main = "mt" /\ ~ exitThread /\ pc[0] # "ended" =>
       /\ \E t \in Threads : \/ Reading(t)
                             \/ threads[t].canRead /\ Runs(t)
                             \/ Busy(t) /\ me[t].finish
       /\ \E t \in Threads : threads[t].canWrite /\ (Busy(t) \/ (threads[t].canRead /\ Runs(t)))

\* When a thread ends decoding for all of them no other has a block ("never
\* executed in normal cases" says MtDec.c of a thread that is told to exit
\* while it waits for its turn), and when MtDec_Code has returned none has.
NobodyWorks == main # "mt" \/ exitThread => \A t \in Threads : ~ Busy(t)

\* The threads take turns at reading and at writing, and no right is lost.
InTurn == OneAtATime /\ FirstReadWrites /\ RightsAreKept /\ NobodyWorks

\* What may be written has come out as it was parsed, so that the check of
\* Lzma2DecMt_MtCallback_Write is never needed.
AsParsed == \A t \in Threads : HasTurn(t) /\ me[t].needWrite /\ MayWrite(t) => ~ Mismatched(t)

\* When one thread takes over, nothing that was read and not written is lost
\* or comes twice: the links it gets, what crossed over and what the stream
\* still has are the places after those that were written.
LinksOf(t) ==
    LET th == threads[t]
    IN  FlattenSeq([k \in DOMAIN th.inBuf |->
          LET n == LinkSize(k, th.inDataSize_Start, th.inDataSize)
          IN  SubSeq(th.inBuf[k], 1, IF n < 0 THEN 0 ELSE n)])
Row == [k \in 1..numFilledThreads |-> (filledThreadStart + k - 1) % numStartedThreads]
Kept == FlattenSeq([k \in DOMAIN Row |-> LinksOf(Row[k])]) \o crossBlock
          \o (IF readWasFinished THEN <<>> ELSE Place(readProcessed, Len(stream) - readProcessed))
HandedOver ==
    main = "fetch" /\ st = [NoSt EXCEPT !.tMode = st.tMode, !.outProcessed = Len(out)]
        /\ readRes = OK /\ codeRes \in {OK, "MEM"} =>
      Decode(NewDecoder, Kept, stream, outSize - Len(out), TRUE).out
        = SubSeq(held.out, Len(out) + 1, Len(held.out))

\* What the threads read ahead agrees with what is made of it, by the decoder
\* of a block and by the one thread that takes over.
AheadAgrees == AsParsed /\ HandedOver

\* A write that failed while there were several threads leaves nothing but this.
WriteHasFailed == wasInterrupted /\ codeRes = OK /\ ~ NeedContinue

Verdict == IF main \notin {"close", "done"} THEN "none"
           ELSE IF result \in {"READ", "WRITE", "MEM"} \/ WriteHasFailed THEN "fault"
           ELSE IF result = OK THEN "ok" ELSE "refused"

Promised == INSTANCE Delivery WITH wanted <- held.out, sound <- Sound, delivered <- out,
                                   verdict <- Verdict

\* However the blocks are spread over threads, whatever cannot be allocated or
\* started and wherever one thread takes over: the decoder delivers what a
\* decoder with one thread would, in order, and calls sound input sound.
Delivers == Promised!Spec

\* SZ_OK says that the stream was finished and had the size that was asked for.
OKMeansFinished == main = "done" /\ result = OK => Sound /\ out = held.out

\* Whatever fails, Lzma2DecMt_Decode returns and its threads end.
Ends == <>(main = "done")
=============================================================================
