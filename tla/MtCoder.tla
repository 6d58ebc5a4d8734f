------------------------------- MODULE MtCoder -------------------------------
(***************************************************************************)
(* The multi-threaded block coder (DCA/compressionTypes/lzmasdk/MtCoder.c) *)
(* with the two callbacks Lzma2Enc.c gives it: the threads pass a baton    *)
(* (readEvent) to read the blocks one after the other, encode them in      *)
(* parallel into output buffers, and whoever holds the block that is next  *)
(* to be written writes it and all the ready ones behind it.               *)
(*                                                                         *)
(* A block is what was read for it: where it begins, its size and whether  *)
(* it is the last.  The system calls on events and semaphores succeed;     *)
(* everything else that can fail is a member of Faults.                    *)
(***************************************************************************)
EXTENDS Integers, Sequences, FiniteSets

CONSTANTS NumThreads,    \* numThreadsMax, at most MTCODER__THREADS_MAX
          ExtraBlocks,   \* what small blocks add to the number of blocks
          BlockSize,
          DataSizes,     \* sizes of the inputs
          Modes,         \* "stream": inStream is given, "memory": inData is
          Expected,      \* expectedDataSize: "none" or "exact"
          Faults         \* of "alloc", "read", "thread", "code" and "write"

ASSUME MtCoderAssumption ==
    /\ NumThreads \in Nat \ {0}
    /\ ExtraBlocks \in 0..3
    /\ BlockSize \in Nat \ {0}
    /\ DataSizes \subseteq Nat
    /\ Modes \subseteq {"stream", "memory"}
    /\ Expected \subseteq {"none", "exact"}
    /\ Faults \subseteq {"alloc", "read", "thread", "code", "write"}

Threads == 0..(NumThreads - 1)

\* MTCODER__GET_NUM_BLOCKS_FROM_THREADS
numBlocksMax == NumThreads + NumThreads \div 8 + 1 + ExtraBlocks
Blocks == 0..(numBlocksMax - 1)

OK == "OK"
NoBlock == -1           \* (unsigned)(int)-1

VARIABLES dataSize, mode, expected,
          main, result,                      \* MtCoder_Code and its caller
          pc, me,                            \* the threads and their locals
          startEvent, stop, inBuf,           \* CMtCoderThread
          readEvent, stopReading, readRes, readProcessed, blockIndex,
          blocksSemaphore,
          numStartedThreads, numFinishedThreads, finishedEvent,
          writeIndex, writeRes, ReadyBlocks, blocks,
          freeBlocks,                        \* the list at freeBlockHead
          progressRes,                       \* mtProgress.res
          outBufs, written

callVars == <<dataSize, mode, expected>>
threadVars == <<startEvent, stop, inBuf>>
readVars == <<readEvent, stopReading, readRes, readProcessed, blockIndex>>
countVars == <<numStartedThreads, numFinishedThreads, finishedEvent>>
writeVars == <<writeIndex, writeRes, ReadyBlocks>>
vars == <<callVars, main, result, pc, me, threadVars, readVars, blocksSemaphore,
          countVars, writeVars, blocks, freeBlocks, progressRes, outBufs, written>>

NoData == [from |-> 0, size |-> 0, finished |-> FALSE]
NoLocals == [bi |-> 0, wi |-> 0, res |-> OK, bufIndex |-> NoBlock, finished |-> FALSE,
             data |-> NoData, numFinished |-> 0]

Init ==
    /\ dataSize \in DataSizes /\ mode \in Modes /\ expected \in Expected
    /\ main = "start" /\ result = OK
    /\ pc = [t \in Threads |-> "none"]
    /\ me = [t \in Threads |-> NoLocals]
    /\ startEvent = [t \in Threads |-> FALSE]
    /\ stop = [t \in Threads |-> FALSE]
    /\ inBuf = [t \in Threads |-> FALSE]
    /\ readEvent = FALSE /\ stopReading = FALSE
    /\ readRes = OK /\ readProcessed = 0 /\ blockIndex = 0
    /\ blocksSemaphore = numBlocksMax
    /\ numStartedThreads = 0 /\ numFinishedThreads = 0 /\ finishedEvent = FALSE
    /\ writeIndex = 0 /\ writeRes = OK /\ ReadyBlocks = {}
    /\ blocks = [b \in Blocks |-> [res |-> OK, bufIndex |-> NoBlock, finished |-> FALSE]]
    /\ freeBlocks = [k \in 1..numBlocksMax |-> k - 1]
    /\ progressRes = OK
    /\ outBufs = [b \in Blocks |-> NoData]
    /\ written = <<>>

-----------------------------------------------------------------------------

Goto(t, l) == pc' = [pc EXCEPT ![t] = l]

\* Wrong: nobody is told of an error.
SetNoError(r) == UNCHANGED progressRes

\* MtProgress_SetError: the first error stays.
SetError(r) == progressRes' = IF progressRes = OK THEN r ELSE progressRes

NextBlock(b) == IF b + 1 >= numBlocksMax THEN 0 ELSE b + 1

-----------------------------------------------------------------------------
(* MtCoder_Code, and what its caller does with the threads afterwards. *)

\* MtCoderThread_CreateAndStart of the first thread; if it cannot be created
\* the error is returned at once.
StartFirst ==
    /\ main = "start"
    /\ numStartedThreads' = 1
    /\ startEvent' = [startEvent EXCEPT ![0] = TRUE]
    /\ Goto(0, "idle")
    /\ main' = "signal"
    /\ UNCHANGED <<callVars, result, me, stop, inBuf, readVars, blocksSemaphore,
                   numFinishedThreads, finishedEvent, writeVars, blocks, freeBlocks,
                   progressRes, outBufs, written>>

StartFirstFails ==
    /\ main = "start" /\ "thread" \in Faults
    /\ numStartedThreads' = 1
    /\ result' = "THREAD"
    /\ main' = "free"
    /\ UNCHANGED <<callVars, pc, me, threadVars, readVars, blocksSemaphore,
                   numFinishedThreads, finishedEvent, writeVars, blocks, freeBlocks,
                   progressRes, outBufs, written>>

SignalRead ==
    /\ main = "signal"
    /\ readEvent' = TRUE
    /\ main' = "wait"
    /\ UNCHANGED <<callVars, result, pc, me, threadVars, stopReading, readRes, readProcessed,
                   blockIndex, blocksSemaphore, countVars, writeVars, blocks, freeBlocks,
                   progressRes, outBufs, written>>

\* Wrong: only the reader and the writer are asked.
ResultOfEnds == IF readRes # OK THEN readRes ELSE writeRes

Result == IF readRes # OK THEN readRes
          ELSE IF progressRes # OK THEN progressRes ELSE writeRes

WaitFinished ==
    /\ main = "wait" /\ finishedEvent
    /\ finishedEvent' = FALSE
    /\ result' = Result
    /\ main' = "free"
    /\ UNCHANGED <<callVars, pc, me, threadVars, readVars, blocksSemaphore, numStartedThreads,
                   numFinishedThreads, writeVars, blocks, freeBlocks, progressRes, outBufs,
                   written>>

\* MtCoderThread_Destruct, by MtCoder_Code after an error or by the
\* destructor: a thread that was created is told to stop and waited for.
Stop(t) ==
    /\ main = "free" /\ pc[t] # "none" /\ ~ stop[t]
    /\ \A u \in Threads : u < t => pc[u] \in {"none", "ended"}
    /\ stop' = [stop EXCEPT ![t] = TRUE]
    /\ startEvent' = [startEvent EXCEPT ![t] = TRUE]
    /\ UNCHANGED <<callVars, main, result, pc, me, inBuf, readVars, blocksSemaphore,
                   countVars, writeVars, blocks, freeBlocks, progressRes, outBufs, written>>

Joined ==
    /\ main = "free"
    /\ \A t \in Threads : pc[t] \in {"none", "ended"}
    /\ main' = "done"
    /\ UNCHANGED <<callVars, result, pc, me, threadVars, readVars, blocksSemaphore, countVars,
                   writeVars, blocks, freeBlocks, progressRes, outBufs, written>>

-----------------------------------------------------------------------------
(* ThreadFunc: wait to be started, run ThreadFunc2, count oneself out. *)

Wake(t) ==
    /\ pc[t] = "idle" /\ startEvent[t]
    /\ startEvent' = [startEvent EXCEPT ![t] = FALSE]
    /\ Goto(t, IF stop[t] THEN "ended" ELSE "read")
    /\ UNCHANGED <<callVars, main, result, me, stop, inBuf, readVars, blocksSemaphore,
                   countVars, writeVars, blocks, freeBlocks, progressRes, outBufs, written>>

CountOut(t) ==
    /\ pc[t] = "return"
    /\ numFinishedThreads' = numFinishedThreads + 1
    /\ me' = [me EXCEPT ![t].numFinished = numFinishedThreads + 1]
    /\ Goto(t, "compare")
    /\ UNCHANGED <<callVars, main, result, threadVars, readVars, blocksSemaphore,
                   numStartedThreads, finishedEvent, writeVars, blocks, freeBlocks,
                   progressRes, outBufs, written>>

\* numStartedThreads is read after the increment, without a lock.
Compare(t) ==
    /\ pc[t] = "compare"
    /\ finishedEvent' = (finishedEvent \/ me[t].numFinished = numStartedThreads)
    /\ Goto(t, "idle")
    /\ UNCHANGED <<callVars, main, result, me, threadVars, readVars, blocksSemaphore,
                   numStartedThreads, numFinishedThreads, writeVars, blocks, freeBlocks,
                   progressRes, outBufs, written>>

-----------------------------------------------------------------------------
(* ThreadFunc2: with the baton. *)

\* The baton is taken and passed on at once.
StopReading(t) ==
    /\ pc[t] = "read" /\ readEvent /\ stopReading
    /\ Goto(t, "return")
    /\ UNCHANGED <<callVars, main, result, me, threadVars, readVars, blocksSemaphore,
                   countVars, writeVars, blocks, freeBlocks, progressRes, outBufs, written>>

TakeBaton(t) ==
    /\ pc[t] = "read" /\ readEvent /\ ~ stopReading
    /\ readEvent' = FALSE
    /\ Goto(t, "take")

\* What there is to read for the next block, and whether it is the last one:
\* a stream ends with a read that comes up short, memory at its last byte.
ReadSize == IF dataSize - readProcessed < BlockSize THEN dataSize - readProcessed ELSE BlockSize

LastRead == IF mode = "stream" THEN ReadSize # BlockSize
            ELSE dataSize = readProcessed + ReadSize

\* An error of another thread is there: nothing is read.
ReadNothing(t) ==
    /\ TakeBaton(t)
    /\ progressRes # OK
    /\ me' = [me EXCEPT ![t] = [NoLocals EXCEPT !.res = progressRes, !.finished = TRUE]]
    /\ UNCHANGED <<callVars, main, result, threadVars, stopReading, readRes, readProcessed,
                   blockIndex, blocksSemaphore, countVars, writeVars, blocks, freeBlocks,
                   progressRes, outBufs, written>>

ReadBlock(t) ==
    /\ TakeBaton(t)
    /\ progressRes = OK
    /\ inBuf' = [inBuf EXCEPT ![t] = @ \/ mode = "stream"]
    /\ readProcessed' = readProcessed + ReadSize
    /\ me' = [me EXCEPT ![t] = [NoLocals EXCEPT !.finished = LastRead,
                !.data = [from |-> readProcessed, size |-> ReadSize, finished |-> FALSE]]]
    /\ UNCHANGED <<callVars, main, result, startEvent, stop, stopReading, readRes, blockIndex,
                   blocksSemaphore, countVars, writeVars, blocks, freeBlocks, progressRes,
                   outBufs, written>>

\* The buffer cannot be allocated, or FullRead fails after n bytes.
ReadFails(t) ==
    /\ TakeBaton(t)
    /\ progressRes = OK /\ mode = "stream"
    /\ \/ /\ "alloc" \in Faults /\ ~ inBuf[t]
          /\ readRes' = "MEM"
          /\ UNCHANGED <<inBuf, readProcessed>>
       \/ /\ "read" \in Faults
          /\ readRes' = "READ"
          /\ inBuf' = [inBuf EXCEPT ![t] = TRUE]
          /\ \E n \in {0, ReadSize} : readProcessed' = readProcessed + n
    /\ SetError(readRes')
    /\ me' = [me EXCEPT ![t] = [NoLocals EXCEPT !.res = readRes', !.finished = TRUE]]
    /\ UNCHANGED <<callVars, main, result, startEvent, stop, stopReading, blockIndex,
                   blocksSemaphore, countVars, writeVars, blocks, freeBlocks, outBufs, written>>

\* Where a thread goes that has its place among the blocks: an error is
\* published without any output buffer.
ToBuffer(t, res, finished) ==
    /\ me' = [me EXCEPT ![t].bi = blockIndex, ![t].res = res, ![t].finished = finished]
    /\ IF res = OK
       THEN Goto(t, "buffer") /\ UNCHANGED blocks
       ELSE /\ Goto(t, "turn")
            /\ blocks' = [blocks EXCEPT ![blockIndex] =
                            [res |-> res, bufIndex |-> NoBlock, finished |-> finished]]

MoreThreads(finished) ==
    /\ ~ finished
    /\ numStartedThreads < NumThreads
    /\ ~ (expected = "exact" /\ dataSize = readProcessed)

\* A place among the blocks is taken before the baton is passed on, so the
\* places are in the order of the data.
TakeBlock(t) ==
    /\ pc[t] = "take" /\ blocksSemaphore > 0
    /\ blocksSemaphore' = blocksSemaphore - 1
    /\ blockIndex' = NextBlock(blockIndex)
    /\ LET res == IF me[t].res = OK THEN progressRes ELSE me[t].res
           finished == me[t].finished \/ res # OK
       IN  IF MoreThreads(finished)
           THEN /\ me' = [me EXCEPT ![t].bi = blockIndex]
                /\ Goto(t, "start")
                /\ UNCHANGED <<readEvent, stopReading, blocks>>
           ELSE /\ ToBuffer(t, res, finished)
                /\ stopReading' = (stopReading \/ finished)
                /\ readEvent' = TRUE
    /\ UNCHANGED <<callVars, main, result, threadVars, readRes, readProcessed, countVars,
                   writeVars, freeBlocks, progressRes, outBufs, written>>

\* Wrong: the baton is passed on before the new thread is counted.
StartThreadPassing(t) ==
    /\ pc[t] = "start"
    /\ startEvent' = [startEvent EXCEPT ![numStartedThreads] = TRUE]
    /\ pc' = [pc EXCEPT ![numStartedThreads] = "idle", ![t] = "count"]
    /\ readEvent' = TRUE
    /\ UNCHANGED <<callVars, main, result, me, stop, inBuf, stopReading, readRes,
                   readProcessed, blockIndex, blocksSemaphore, countVars, writeVars, blocks,
                   freeBlocks, progressRes, outBufs, written>>

\* MtCoderThread_CreateAndStart of one more thread ...
StartThread(t) ==
    /\ pc[t] = "start"
    /\ startEvent' = [startEvent EXCEPT ![numStartedThreads] = TRUE]
    /\ pc' = [pc EXCEPT ![numStartedThreads] = "idle", ![t] = "count"]
    /\ UNCHANGED <<callVars, main, result, me, stop, inBuf, readVars, blocksSemaphore,
                   countVars, writeVars, blocks, freeBlocks, progressRes, outBufs, written>>

\* ... which is counted after it was started, ...
CountThread(t) ==
    /\ pc[t] = "count"
    /\ numStartedThreads' = numStartedThreads + 1
    /\ readEvent' = TRUE
    /\ Goto(t, "buffer")
    /\ UNCHANGED <<callVars, main, result, me, threadVars, stopReading, readRes,
                   readProcessed, blockIndex, blocksSemaphore, numFinishedThreads,
                   finishedEvent, writeVars, blocks, freeBlocks, progressRes, outBufs, written>>

\* ... or cannot be created.
StartThreadFails(t) ==
    /\ pc[t] = "start" /\ "thread" \in Faults
    /\ SetError("THREAD")
    /\ me' = [me EXCEPT ![t].res = "THREAD", ![t].finished = TRUE]
    /\ blocks' = [blocks EXCEPT ![me[t].bi] =
                    [res |-> "THREAD", bufIndex |-> NoBlock, finished |-> TRUE]]
    /\ stopReading' = TRUE
    /\ readEvent' = TRUE
    /\ Goto(t, "turn")
    /\ UNCHANGED <<callVars, main, result, threadVars, readRes, readProcessed, blockIndex,
                   blocksSemaphore, countVars, writeVars, freeBlocks, outBufs, written>>

-----------------------------------------------------------------------------
(* ThreadFunc2: the block is encoded. *)

TakeBuffer(t) ==
    /\ pc[t] = "buffer"
    /\ me' = [me EXCEPT ![t].bufIndex = Head(freeBlocks)]
    /\ freeBlocks' = Tail(freeBlocks)
    /\ Goto(t, "code")
    /\ UNCHANGED <<callVars, main, result, threadVars, readVars, blocksSemaphore, countVars,
                   writeVars, blocks, progressRes, outBufs, written>>

Publish(t, res) ==
    blocks' = [blocks EXCEPT ![me[t].bi] =
                 [res |-> res, bufIndex |-> me[t].bufIndex, finished |-> me[t].finished]]

\* Lzma2Enc_MtCallback_Code: the end marker goes with the last block.
Code(t) ==
    /\ pc[t] = "code"
    /\ outBufs' = [outBufs EXCEPT ![me[t].bufIndex] =
                     [me[t].data EXCEPT !.finished = me[t].finished]]
    /\ Publish(t, OK)
    /\ Goto(t, "turn")
    /\ UNCHANGED <<callVars, main, result, me, threadVars, readVars, blocksSemaphore,
                   countVars, writeVars, freeBlocks, progressRes, written>>

CodeFails(t) ==
    /\ pc[t] = "code" /\ "code" \in Faults
    /\ outBufs' = [outBufs EXCEPT ![me[t].bufIndex] = NoData]
    /\ me' = [me EXCEPT ![t].res = "CODE"]
    /\ SetError("CODE")
    /\ Publish(t, "CODE")
    /\ Goto(t, "turn")
    /\ UNCHANGED <<callVars, main, result, threadVars, readVars, blocksSemaphore, countVars,
                   writeVars, freeBlocks, written>>

-----------------------------------------------------------------------------
(* ThreadFunc2: the blocks are written. *)

Leaving(l) == l.res # OK \/ l.finished

\* Wrong: the turn is looked at, and taken, without marking it as taken.
TurnKept(t) ==
    /\ pc[t] = "turn"
    /\ IF writeIndex = me[t].bi
       THEN /\ me' = [me EXCEPT ![t].wi = writeIndex,
                                ![t].res = IF writeRes # OK THEN writeRes ELSE @]
            /\ Goto(t, "write")
            /\ UNCHANGED <<writeIndex, ReadyBlocks>>
       ELSE /\ ReadyBlocks' = ReadyBlocks \cup {me[t].bi}
            /\ Goto(t, IF Leaving(me[t]) THEN "return" ELSE "read")
            /\ UNCHANGED <<me, writeIndex>>
    /\ UNCHANGED <<callVars, main, result, threadVars, readVars, blocksSemaphore, countVars,
                   writeRes, blocks, freeBlocks, progressRes, outBufs, written>>

\* The thread whose block is the next one to be written becomes the writer;
\* any other leaves its block as ready.
Turn(t) ==
    /\ pc[t] = "turn"
    /\ IF writeIndex = me[t].bi
       THEN /\ writeIndex' = NoBlock
            /\ me' = [me EXCEPT ![t].wi = writeIndex,
                                ![t].res = IF writeRes # OK THEN writeRes ELSE @]
            /\ Goto(t, "write")
            /\ UNCHANGED ReadyBlocks
       ELSE /\ ReadyBlocks' = ReadyBlocks \cup {me[t].bi}
            /\ Goto(t, IF Leaving(me[t]) THEN "return" ELSE "read")
            /\ UNCHANGED <<me, writeIndex>>
    /\ UNCHANGED <<callVars, main, result, threadVars, readVars, blocksSemaphore, countVars,
                   writeRes, blocks, freeBlocks, progressRes, outBufs, written>>

ToWrite(l) == l.res = OK /\ l.bufIndex # NoBlock

\* Lzma2Enc_MtCallback_Write
Write(t) ==
    /\ pc[t] = "write"
    /\ written' = IF ToWrite(me[t]) THEN Append(written, outBufs[me[t].bufIndex]) ELSE written
    /\ Goto(t, "release")
    /\ UNCHANGED <<callVars, main, result, me, threadVars, readVars, blocksSemaphore,
                   countVars, writeVars, blocks, freeBlocks, progressRes, outBufs>>

WriteFails(t) ==
    /\ pc[t] = "write" /\ "write" \in Faults /\ ToWrite(me[t])
    /\ writeRes' = "WRITE"
    /\ me' = [me EXCEPT ![t].res = "WRITE"]
    /\ SetError("WRITE")
    /\ Goto(t, "release")
    /\ UNCHANGED <<callVars, main, result, threadVars, readVars, blocksSemaphore, countVars,
                   writeIndex, ReadyBlocks, blocks, freeBlocks, outBufs, written>>

\* Wrong: the buffer is given back although the block has none.
ReleaseEarly(t) == freeBlocks' = <<me[t].wi>> \o freeBlocks

GiveBuffer(t) ==
    freeBlocks' = IF me[t].bufIndex # NoBlock THEN <<me[t].bufIndex>> \o freeBlocks
                  ELSE freeBlocks

\* The buffer goes back, and the writer takes the next block if it is ready
\* or else leaves the turn to whoever comes with it.
Release(t) ==
    /\ pc[t] = "release"
    /\ GiveBuffer(t)
    /\ LET wi == NextBlock(me[t].wi)
       IN  /\ me' = [me EXCEPT ![t].wi = wi]
           /\ IF wi \in ReadyBlocks
              THEN /\ ReadyBlocks' = ReadyBlocks \ {wi}
                   /\ Goto(t, "next")
                   /\ UNCHANGED writeIndex
              ELSE /\ writeIndex' = wi
                   /\ Goto(t, "last")
                   /\ UNCHANGED ReadyBlocks
    /\ UNCHANGED <<callVars, main, result, threadVars, readVars, blocksSemaphore, countVars,
                   writeRes, blocks, progressRes, outBufs, written>>

\* Wrong: the place of a block that was written is not given back.
KeepPlace == UNCHANGED blocksSemaphore

\* Semaphore_Release1
FreePlace == blocksSemaphore' = blocksSemaphore + 1

\* The place of the block that was written is free, and the next is the one that
\* was ready.
WriteNext(t) ==
    /\ pc[t] = "next"
    /\ FreePlace
    /\ LET block == blocks[me[t].wi]
       IN  me' = [me EXCEPT ![t].res = IF @ = OK THEN block.res ELSE @,
                            ![t].bufIndex = block.bufIndex,
                            ![t].finished = block.finished]
    /\ Goto(t, "write")
    /\ UNCHANGED <<callVars, main, result, threadVars, readVars, countVars, writeVars, blocks,
                   freeBlocks, progressRes, outBufs, written>>

WriteLast(t) ==
    /\ pc[t] = "last"
    /\ FreePlace
    /\ Goto(t, IF Leaving(me[t]) THEN "return" ELSE "read")
    /\ UNCHANGED <<callVars, main, result, me, threadVars, readVars, countVars, writeVars,
                   blocks, freeBlocks, progressRes, outBufs, written>>

-----------------------------------------------------------------------------

Main == StartFirst \/ StartFirstFails \/ SignalRead \/ WaitFinished
           \/ (\E t \in Threads : Stop(t)) \/ Joined

Thread(t) ==
    \/ Wake(t) \/ CountOut(t) \/ Compare(t)
    \/ StopReading(t) \/ ReadNothing(t) \/ ReadBlock(t) \/ ReadFails(t)
    \/ TakeBlock(t) \/ StartThread(t) \/ CountThread(t) \/ StartThreadFails(t)
    \/ TakeBuffer(t) \/ Code(t) \/ CodeFails(t)
    \/ Turn(t) \/ Write(t) \/ WriteFails(t) \/ Release(t) \/ WriteNext(t) \/ WriteLast(t)

Next == Main \/ (\E t \in Threads : Thread(t))

\* The operating system schedules every thread, and codecs and streams return.
Fairness == WF_vars(Main) /\ \A t \in Threads : WF_vars(Thread(t))

Spec == Init /\ [][Next]_vars
FairSpec == Spec /\ Fairness

-----------------------------------------------------------------------------
(* Properties. *)

Result0 == {OK, "MEM", "READ", "THREAD", "CODE", "WRITE"}
Index == Blocks \cup {NoBlock}
Data == [from : Nat, size : 0..BlockSize, finished : BOOLEAN]

\* Every variable has its type.
TypeOK ==
    /\ dataSize \in Nat /\ mode \in {"stream", "memory"} /\ expected \in {"none", "exact"}
    /\ main \in {"start", "signal", "wait", "free", "done"}
    /\ pc \in [Threads -> {"none", "idle", "read", "take", "start", "count", "buffer", "code",
                           "turn", "write", "release", "next", "last", "return", "compare",
                           "ended"}]
    /\ me \in [Threads -> [bi : Blocks, wi : Blocks, res : Result0, bufIndex : Index,
                           finished : BOOLEAN, data : Data, numFinished : Nat]]
    /\ {startEvent, stop, inBuf} \subseteq [Threads -> BOOLEAN]
    /\ {readEvent, stopReading, finishedEvent} \subseteq BOOLEAN
    /\ {result, readRes, progressRes, writeRes} \subseteq Result0
    /\ readProcessed \in 0..dataSize
    /\ blockIndex \in Blocks
    /\ blocksSemaphore \in 0..numBlocksMax
    /\ numStartedThreads \in 0..NumThreads /\ numFinishedThreads \in 0..NumThreads
    /\ writeIndex \in Index
    /\ ReadyBlocks \subseteq Blocks
    /\ blocks \in [Blocks -> [res : Result0, bufIndex : Index, finished : BOOLEAN]]
    /\ freeBlocks \in Seq(Blocks)
    /\ outBufs \in [Blocks -> Data] /\ written \in Seq(Data)

\* One thread at most has the baton, and it is nowhere else then.
HasBaton(t) == pc[t] \in {"take", "start", "count"}
OneReader ==
    /\ \A t, u \in Threads : HasBaton(t) /\ HasBaton(u) => t = u
    /\ readEvent => \A t \in Threads : ~ HasBaton(t)

\* One thread at most writes, and while it does nobody can get the turn.
Writing(t) == pc[t] \in {"write", "release", "next"}
OneWriter ==
    /\ \A t, u \in Threads : Writing(t) /\ Writing(u) => t = u
    /\ (writeIndex = NoBlock) = (\E t \in Threads : Writing(t))

\* An output buffer is in one place only: free, with a thread that encodes
\* into it or writes it, or with one block that waits to be written; and one
\* is free whenever a thread takes one, although nothing counts them.
Holding(t) == pc[t] \in {"code", "turn", "write", "release"} /\ me[t].bufIndex # NoBlock
Waiting(b) == b \in ReadyBlocks /\ blocks[b].bufIndex # NoBlock
BuffersApart ==
    /\ \A i, j \in DOMAIN freeBlocks : freeBlocks[i] = freeBlocks[j] => i = j
    /\ \A t, u \in Threads : Holding(t) /\ Holding(u) /\ t # u => me[t].bufIndex # me[u].bufIndex
    /\ \A b, c \in Blocks : Waiting(b) /\ Waiting(c) /\ b # c => blocks[b].bufIndex # blocks[c].bufIndex
    /\ \A t \in Threads, b \in Blocks : Holding(t) /\ Waiting(b) => me[t].bufIndex # blocks[b].bufIndex
    /\ \A i \in DOMAIN freeBlocks :
         /\ \A t \in Threads : Holding(t) => me[t].bufIndex # freeBlocks[i]
         /\ \A b \in Blocks : Waiting(b) => blocks[b].bufIndex # freeBlocks[i]
    /\ \A t \in Threads : pc[t] = "buffer" => freeBlocks # <<>>

\* The blocks of the whole input, the last of them with the end marker.
NumBlocks == IF mode = "stream" \/ dataSize = 0 THEN dataSize \div BlockSize + 1
             ELSE (dataSize + BlockSize - 1) \div BlockSize
Whole == [k \in 1..NumBlocks |->
            [from |-> (k - 1) * BlockSize,
             size |-> IF k < NumBlocks THEN BlockSize ELSE dataSize - (k - 1) * BlockSize,
             finished |-> k = NumBlocks]]

\* As long as there was no error, what is written is a beginning of the whole;
\* after one a block may be missing, but none comes twice or too early.
WrittenInOrder ==
    /\ progressRes = OK => \E n \in 0..NumBlocks : written = SubSeq(Whole, 1, n)
    /\ \A i, j \in DOMAIN written : i < j => written[i].from < written[j].from

\* MtCoder_Code returns SZ_OK exactly when all of the input has been written:
\* no error of any thread is lost and none is made up.
OKMeansWhole == main \in {"free", "done"} => (result = OK <=> written = Whole)

\* When MtCoder_Code goes on, no thread is at work any more.
NobodyWorks ==
    main \in {"free", "done"} => \A t \in Threads : pc[t] \in {"none", "idle", "compare", "ended"}

\* Whatever fails, MtCoder_Code returns and all of its threads end.
Ends == <>(main = "done")
=============================================================================
