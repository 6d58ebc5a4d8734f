----------------------------- MODULE MtCoderProofs -----------------------------
(***************************************************************************)
(* What TLAPS proves of MtCoder, for every number of threads and blocks,   *)
(* every block size, every input and every set of faults.                  *)
(***************************************************************************)
EXTENDS MtCoder, FiniteSetTheorems, SequenceTheorems, TLAPS

(* The threads.  Nobody is told to stop before MtCoder_Code is through;    *)
(* a thread that is created and not counted yet waits for the baton, which *)
(* its creator holds; and numFinishedThreads counts the ones that left.    *)
Counting(t) == pc[t] = "count"
AtWork(t) == pc[t] \notin {"none", "idle", "compare", "ended"}
Asleep(t) == pc[t] = "idle" /\ startEvent[t] /\ ~ stop[t]
Out(t) == pc[t] \in {"compare", "ended"} \/ (pc[t] = "idle" /\ ~ Asleep(t))
Left == {t \in Threads : Out(t)}
Beginning ==
    /\ main = "start" => numStartedThreads = 0 /\ written = <<>>
                          /\ \A t \in Threads : pc[t] = "none"
    /\ main \in {"start", "signal"} =>
         ~ readEvent /\ ~ finishedEvent /\ \A t \in Threads : pc[t] \in {"none", "idle", "read"}
NotYetStopped ==
    \A t \in Threads :
      /\ stop[t] => main \in {"free", "done"}
      /\ AtWork(t) => ~ startEvent[t]
      /\ pc[t] = "compare" /\ startEvent[t] => stop[t]
Created ==
    \A t \in Threads :
      t >= numStartedThreads /\ pc[t] # "none" =>
        /\ t = numStartedThreads
        /\ pc[t] = "read" \/ Asleep(t)
        /\ \E u \in Threads : Counting(u)
LeftCounted ==
    /\ numFinishedThreads = Cardinality(Left)
    /\ \A t \in Threads : pc[t] = "compare" => me[t].numFinished <= numFinishedThreads
AllLeft ==
    finishedEvent \/ main \in {"free", "done"} => \A t \in Threads : pc[t] = "none" \/ Out(t)

(* What a thread has in its locals at each place. *)
NothingHeld(t) == me[t].bufIndex = NoBlock
LocalOK(t) ==
    /\ pc[t] \in {"take", "start", "count", "buffer"} => NothingHeld(t)
    /\ pc[t] \in {"start", "count", "buffer", "code"} => me[t].res = OK
    /\ pc[t] \in {"start", "count"} => numStartedThreads < NumThreads /\ ~ me[t].finished
    /\ pc[t] = "code" => ~ NothingHeld(t)
    /\ pc[t] \in {"turn", "write"} /\ me[t].res = OK => ~ NothingHeld(t)
    /\ pc[t] = "turn" => blocks[me[t].bi] = [res |-> me[t].res, bufIndex |-> me[t].bufIndex,
                                             finished |-> me[t].finished]
    /\ pc[t] = "next" /\ blocks[me[t].wi].res = OK => blocks[me[t].wi].bufIndex # NoBlock
LocalInv == \A t \in Threads : LocalOK(t)
ReadyHold == \A b \in ReadyBlocks : blocks[b].res = OK => blocks[b].bufIndex # NoBlock

(* The places among the blocks.  They are a window of the ring: it begins  *)
(* with the place whose turn it is to be written and ends before           *)
(* blockIndex, and the semaphore counts the rest but for the places that   *)
(* were written and not given back yet.                                    *)
AtBlock(t, b) == pc[t] \in {"start", "count", "buffer", "code", "turn"} /\ me[t].bi = b
AtWrite(t, b) == Writing(t) /\ me[t].wi = b
Taken(b) == b \in ReadyBlocks \/ \E t \in Threads : AtBlock(t, b) \/ AtWrite(t, b)
IsTurn(b) == writeIndex = b \/ \E t \in Threads : AtWrite(t, b)
GivingBack == {t \in Threads : pc[t] \in {"next", "last"}}
Size == numBlocksMax - blocksSemaphore - Cardinality(GivingBack)
Dist(a, b) == IF a <= b THEN b - a ELSE b - a + numBlocksMax
PlacesApart ==
    /\ \A t, u \in Threads : \A b \in Blocks : AtBlock(t, b) /\ AtBlock(u, b) => t = u
    /\ \A t, u \in Threads : \A b \in Blocks : ~ (AtBlock(t, b) /\ AtWrite(u, b))
    /\ \A t \in Threads : \A b \in ReadyBlocks : ~ AtBlock(t, b) /\ ~ AtWrite(t, b)
    /\ writeIndex \notin ReadyBlocks
Window ==
    /\ Size \in 0..numBlocksMax
    /\ \A a \in Blocks : IsTurn(a) =>
         /\ \A b \in Blocks : Taken(b) <=> Dist(a, b) < Size
         /\ blockIndex = IF a + Size >= numBlocksMax THEN a + Size - numBlocksMax ELSE a + Size

(* The output buffers: each is free or belongs to one place. *)
HoldsAt(t, b, f) ==
    \/ AtBlock(t, b) /\ pc[t] \in {"code", "turn"} /\ me[t].bufIndex = f
    \/ AtWrite(t, b) /\ pc[t] \in {"write", "release"} /\ me[t].bufIndex = f
    \/ AtWrite(t, b) /\ pc[t] = "next" /\ blocks[b].bufIndex = f
HoldsReady(b, f) == b \in ReadyBlocks /\ blocks[b].bufIndex = f
Holds(b, f) == HoldsReady(b, f) \/ \E t \in Threads : HoldsAt(t, b, f)
Free(f) == \E i \in DOMAIN freeBlocks : freeBlocks[i] = f
BufferInv ==
    /\ \A i, j \in DOMAIN freeBlocks : freeBlocks[i] = freeBlocks[j] => i = j
    /\ \A f \in Blocks : Free(f) \/ \E b \in Blocks : Holds(b, f)
    /\ \A f \in Blocks, b \in Blocks : Holds(b, f) => ~ Free(f)
    /\ \A f \in Blocks, b, c \in Blocks : Holds(b, f) /\ Holds(c, f) => b = c

(* The data.  What a place carries will be written if nothing fails: it is *)
(* the block of the whole input that has as many before it as were passed  *)
(* already and are before it in the window.                                *)
Piece(t) == [me[t].data EXCEPT !.finished = me[t].finished]
CarriesReady(b, d) == b \in ReadyBlocks /\ blocks[b].res = OK /\ d = outBufs[blocks[b].bufIndex]
CarriesAt(t, b, d) ==
    \/ AtBlock(t, b) /\ pc[t] # "turn" /\ d = Piece(t)
    \/ AtBlock(t, b) /\ pc[t] = "turn" /\ me[t].res = OK /\ d = outBufs[me[t].bufIndex]
    \/ AtWrite(t, b) /\ pc[t] = "write" /\ me[t].res = OK /\ d = outBufs[me[t].bufIndex]
    \/ /\ AtWrite(t, b) /\ pc[t] = "next" /\ me[t].res = OK /\ blocks[b].res = OK
       /\ d = outBufs[blocks[b].bufIndex]
Carries(b, d) == CarriesReady(b, d) \/ \E t \in Threads : CarriesAt(t, b, d)
Reading(t) == pc[t] = "take"
Passed(n) == IF \E t \in Threads : pc[t] = "release" THEN n + 1 ELSE n
CarriedNumbered(n) ==
    \A a, b \in Blocks : \A d \in Data : IsTurn(a) /\ Carries(b, d) =>
      n + Dist(a, b) + 1 <= NumBlocks /\ d = Whole[n + Dist(a, b) + 1]
WrittenNumbered(n) ==
    /\ \A i \in DOMAIN written : \E k \in 1..NumBlocks : k <= Passed(n) /\ written[i] = Whole[k]
    /\ \A i, j \in DOMAIN written : i < j => written[i].from < written[j].from
AllWritten(n) ==
    /\ Len(written) = Passed(n) /\ Passed(n) <= NumBlocks
    /\ \A i \in 1..Passed(n) : written[i] = Whole[i]
ReadNumbered(n) ==
    /\ \A t \in Threads : Reading(t) =>
         /\ n + Size + 1 <= NumBlocks /\ Piece(t) = Whole[n + Size + 1]
         /\ ~ stopReading
         /\ readProcessed = IF n + Size + 1 = NumBlocks THEN dataSize
                            ELSE (n + Size + 1) * BlockSize
    /\ \A t \in Threads : pc[t] \in {"start", "count"} => n + Size < NumBlocks /\ ~ stopReading
    /\ ~ stopReading /\ (\A t \in Threads : ~ Reading(t)) =>
         n + Size < NumBlocks /\ readProcessed = (n + Size) * BlockSize
    /\ stopReading => n + Size = NumBlocks
Numbered(n) ==
    /\ CarriedNumbered(n) /\ WrittenNumbered(n)
    /\ progressRes = OK => AllWritten(n) /\ ReadNumbered(n)
Lost(k) ==
    /\ \A i \in DOMAIN written : written[i] # Whole[k]
    /\ \A b \in Blocks : \A d \in Data : Carries(b, d) => d # Whole[k]
SomethingLost == progressRes # OK => \E k \in 1..NumBlocks : Lost(k)
ErrorsTold ==
    /\ readRes # OK \/ writeRes # OK => progressRes # OK
    /\ \A t \in Threads :
         pc[t] \in {"take", "turn", "write", "release", "next", "last"} /\ me[t].res # OK =>
           progressRes # OK
    /\ \A t \in Threads : pc[t] = "next" /\ blocks[me[t].wi].res # OK => progressRes # OK
    /\ \A b \in ReadyBlocks : blocks[b].res # OK => progressRes # OK
    /\ \A t \in Threads : pc[t] \in {"return", "compare"} => stopReading \/ progressRes # OK
    /\ \A t \in Threads : pc[t] \in {"turn", "buffer", "code", "write", "release", "last"} /\ me[t].finished => stopReading
    /\ \A t \in Threads : pc[t] = "next" /\ blocks[me[t].wi].finished => stopReading
    /\ \A b \in ReadyBlocks : blocks[b].finished => stopReading
    /\ finishedEvent => stopReading \/ progressRes # OK
IInv ==
    /\ TypeOK /\ OneReader /\ OneWriter
    /\ Beginning /\ NotYetStopped /\ Created /\ LeftCounted /\ AllLeft
    /\ LocalInv /\ ReadyHold
    /\ PlacesApart /\ Window /\ BufferInv
    /\ (\E n \in Nat : Numbered(n)) /\ SomethingLost /\ ErrorsTold /\ OKMeansWhole

-----------------------------------------------------------------------------
(* The constants. *)

LEMMA Parameters ==
    /\ NumThreads \in Nat \ {0} /\ BlockSize \in Nat \ {0}
    /\ numBlocksMax \in Nat /\ numBlocksMax >= 2
    /\ Threads = 0..(NumThreads - 1) /\ 0 \in Threads
    /\ Blocks = 0..(numBlocksMax - 1) /\ 0 \in Blocks /\ NoBlock \notin Blocks
BY MtCoderAssumption DEF numBlocksMax, Threads, Blocks, NoBlock

LEMMA FiniteThings ==
    /\ IsFiniteSet(Threads) /\ Cardinality(Threads) = NumThreads
    /\ IsFiniteSet(Blocks) /\ Cardinality(Blocks) = numBlocksMax
BY Parameters, FS_Interval

LEMMA NextBlockTyped ==
  ASSUME NEW b \in Blocks
  PROVE  NextBlock(b) \in Blocks
BY Parameters DEF NextBlock

LEMMA ReadTyped ==
  ASSUME TypeOK
  PROVE  /\ ReadSize \in 0..BlockSize /\ readProcessed + ReadSize \in 0..dataSize
         /\ LastRead \in BOOLEAN
<1>1. ReadSize \in 0..BlockSize /\ readProcessed + ReadSize \in 0..dataSize
  BY Parameters DEF TypeOK, ReadSize
<1>2. LastRead \in BOOLEAN
  BY Zenon DEF LastRead
<1> QED
  BY <1>1, <1>2

Locals == [bi : Blocks, wi : Blocks, res : Result0, bufIndex : Index,
           finished : BOOLEAN, data : Data, numFinished : Nat]

LEMMA NoLocalsTyped == NoLocals \in Locals
BY Parameters DEF NoLocals, NoData, Locals, Index, Data, Result0, OK, NoBlock

LEMMA SetLocal ==
  ASSUME NEW m \in [Threads -> Locals], NEW t \in Threads
  PROVE  /\ \A x \in Blocks : [m EXCEPT ![t].bi = x] \in [Threads -> Locals]
         /\ \A x \in Blocks : [m EXCEPT ![t].wi = x] \in [Threads -> Locals]
         /\ \A x \in Result0 : [m EXCEPT ![t].res = x] \in [Threads -> Locals]
         /\ \A x \in Index : [m EXCEPT ![t].bufIndex = x] \in [Threads -> Locals]
         /\ \A x \in BOOLEAN : [m EXCEPT ![t].finished = x] \in [Threads -> Locals]
         /\ \A x \in Nat : [m EXCEPT ![t].numFinished = x] \in [Threads -> Locals]
BY DEF Locals

LEMMA LocalsOf ==
  ASSUME TypeOK, NEW t \in Threads
  PROVE  /\ me \in [Threads -> Locals]
         /\ me[t].bi \in Blocks /\ me[t].wi \in Blocks /\ me[t].res \in Result0
         /\ me[t].bufIndex \in Index /\ me[t].finished \in BOOLEAN /\ me[t].data \in Data
         /\ me[t].numFinished \in Nat
         /\ Piece(t) \in Data
<1>1. me \in [Threads -> Locals]
  BY DEF TypeOK, Locals
<1>2. me[t] \in Locals
  BY <1>1
<1>3. /\ me[t].bi \in Blocks /\ me[t].wi \in Blocks /\ me[t].res \in Result0
      /\ me[t].bufIndex \in Index /\ me[t].finished \in BOOLEAN /\ me[t].data \in Data
      /\ me[t].numFinished \in Nat
  BY <1>2 DEF Locals
<1>4. Piece(t) \in Data
  BY <1>3 DEF Piece, Data
<1> QED
  BY <1>1, <1>3, <1>4

LEMMA SetErrorTyped ==
  ASSUME NEW r \in Result0, TypeOK, SetError(r)
  PROVE  progressRes' \in Result0 /\ (progressRes # OK => progressRes' # OK)
           /\ (r # OK => progressRes' # OK)
BY DEF SetError, TypeOK

-----------------------------------------------------------------------------
(* Type correctness. *)

LEMMA TypeOfMain ==
  ASSUME TypeOK, Main
  PROVE  TypeOK'
<1> USE DEF TypeOK, callVars, threadVars, readVars, countVars, writeVars, Goto, Result0
<1>1. CASE StartFirst
  <2>1. startEvent' \in [Threads -> BOOLEAN] /\ numStartedThreads' \in 0..NumThreads
    BY <1>1, Parameters DEF StartFirst
  <2> QED
    BY <1>1, <2>1 DEF StartFirst
<1>2. CASE StartFirstFails
  BY <1>2, Parameters, SMTT(30) DEF StartFirstFails
<1>3. CASE SignalRead
  BY <1>3 DEF SignalRead
<1>4. CASE WaitFinished
  BY <1>4 DEF WaitFinished, Result
<1>5. ASSUME NEW t \in Threads, Stop(t) PROVE TypeOK'
  BY <1>5 DEF Stop
<1>6. CASE Joined
  BY <1>6 DEF Joined
<1> QED
  BY <1>1, <1>2, <1>3, <1>4, <1>5, <1>6 DEF Main

LEMMA TypeOfRead ==
  ASSUME TypeOK, LocalInv, NEW t \in Threads,
         \/ Wake(t) \/ Compare(t) \/ StopReading(t) \/ ReadNothing(t) \/ ReadBlock(t)
         \/ ReadFails(t)
  PROVE  TypeOK'
<1> USE DEF TypeOK, callVars, threadVars, readVars, countVars, writeVars, Goto, Result0
<1>1. CASE Wake(t)
  BY <1>1 DEF Wake
<1>2. CASE Compare(t)
  BY <1>2 DEF Compare
<1>3. CASE StopReading(t)
  BY <1>3 DEF StopReading
<1>4. CASE ReadNothing(t)
  <2>1. [NoLocals EXCEPT !.res = progressRes, !.finished = TRUE] \in Locals
    BY NoLocalsTyped DEF Locals
  <2>2. me' \in [Threads -> Locals]
    BY <1>4, <2>1 DEF ReadNothing, Locals
  <2> QED
    BY <1>4, <2>2 DEF ReadNothing, TakeBaton, Locals
<1>5. CASE ReadBlock(t)
  <2>1. [NoLocals EXCEPT !.finished = LastRead,
           !.data = [from |-> readProcessed, size |-> ReadSize, finished |-> FALSE]] \in Locals
    <3>0. readProcessed \in Nat /\ ReadSize \in 0..BlockSize
      BY ReadTyped
    <3>1. [from |-> readProcessed, size |-> ReadSize, finished |-> FALSE] \in Data
      BY <3>0 DEF Data
    <3> QED
      BY <3>1, NoLocalsTyped, ReadTyped DEF Locals
  <2>2. me' \in [Threads -> Locals]
    BY <1>5, <2>1 DEF ReadBlock, Locals
  <2>3. inBuf' \in [Threads -> BOOLEAN]
    BY <1>5 DEF ReadBlock
  <2>4. readProcessed' \in 0..dataSize
    BY <1>5, ReadTyped DEF ReadBlock
  <2> QED
    BY <1>5, <2>2, <2>3, <2>4, ZenonT(30) DEF ReadBlock, TakeBaton, Locals
<1>6. CASE ReadFails(t)
  <2>1. readRes' \in Result0 /\ inBuf' \in [Threads -> BOOLEAN]
    BY <1>6 DEF ReadFails
  <2>5. readProcessed' \in 0..dataSize
    BY <1>6, ReadTyped DEF ReadFails
  <2>2. [NoLocals EXCEPT !.res = readRes', !.finished = TRUE] \in Locals
    BY <2>1, NoLocalsTyped DEF Locals
  <2>3. me' \in [Threads -> Locals]
    BY <1>6, <2>2 DEF ReadFails, Locals
  <2>4. progressRes' \in Result0
    BY <1>6, <2>1, SetErrorTyped DEF ReadFails
  <2> QED
    BY <1>6, <2>1, <2>3, <2>4, <2>5, ZenonT(30) DEF ReadFails, TakeBaton, Locals
<1> QED
  BY <1>1, <1>2, <1>3, <1>4, <1>5, <1>6

LEMMA TypeOfTakeBlock ==
  ASSUME TypeOK, NEW t \in Threads, TakeBlock(t)
  PROVE  TypeOK'
<1> DEFINE r == IF me[t].res = OK THEN progressRes ELSE me[t].res
           f == me[t].finished \/ r # OK
<1>1. r \in Result0 /\ f \in BOOLEAN /\ blockIndex \in Blocks /\ blockIndex' \in Blocks
  BY NextBlockTyped DEF TypeOK, TakeBlock
<1>2. blocksSemaphore' \in 0..numBlocksMax
  BY Parameters, SMTT(30) DEF TypeOK, TakeBlock
<1>3. /\ me' \in [Threads -> Locals]
      /\ blocks' \in [Blocks -> [res : Result0, bufIndex : Index, finished : BOOLEAN]]
      /\ {readEvent, stopReading}' \subseteq BOOLEAN
      /\ UNCHANGED numStartedThreads
  <2>1. CASE MoreThreads(f)
    <3>1. me' = [me EXCEPT ![t].bi = blockIndex] /\ UNCHANGED <<readEvent, stopReading, blocks>>
            /\ UNCHANGED numStartedThreads
      BY <2>1 DEF TakeBlock, countVars
    <3> QED
      BY <1>1, <3>1, ZenonT(30) DEF TypeOK, Locals
  <2>2. CASE ~ MoreThreads(f)
    <3>1. ToBuffer(t, r, f) /\ stopReading' = (stopReading \/ f) /\ readEvent' = TRUE
      BY <2>2 DEF TakeBlock
    <3> HIDE DEF r, f
    <3>2. me' \in [Threads -> Locals]
      <4> DEFINE m1 == [me EXCEPT ![t].bi = blockIndex]
                 m2 == [m1 EXCEPT ![t].res = r]
      <4>0. me' = [m2 EXCEPT ![t].finished = f]
        BY <3>1 DEF ToBuffer, TypeOK
      <4>1. m1 \in [Threads -> Locals]
        BY <1>1, LocalsOf, SetLocal
      <4> HIDE DEF m1
      <4>2. m2 \in [Threads -> Locals]
        BY <1>1, <4>1, SetLocal
      <4> HIDE DEF m2
      <4>3. [m2 EXCEPT ![t].finished = f] \in [Threads -> Locals]
        BY <1>1, <4>2, SetLocal
      <4> QED
        BY <4>0, <4>3
    <3>3. [res |-> r, bufIndex |-> NoBlock, finished |-> f]
            \in [res : Result0, bufIndex : Index, finished : BOOLEAN]
      BY <1>1 DEF Index
    <3>4. blocks' \in [Blocks -> [res : Result0, bufIndex : Index, finished : BOOLEAN]]
      BY <1>1, <3>1, <3>3 DEF ToBuffer, TypeOK
    <3> QED
      BY <1>1, <3>1, <3>2, <3>4 DEF TypeOK, TakeBlock, countVars
  <2> QED
    BY <2>1, <2>2
<1>4. pc' \in [Threads -> {"none", "idle", "read", "take", "start", "count", "buffer", "code",
                          "turn", "write", "release", "next", "last", "return", "compare",
                          "ended"}]
  BY DEF TakeBlock, ToBuffer, Goto, TypeOK
<1> QED
  BY <1>1, <1>2, <1>3, <1>4
    DEF TakeBlock, TypeOK, Locals, callVars, threadVars, countVars, writeVars

LEMMA TypeOfThreads ==
  ASSUME TypeOK, LocalInv, NEW t \in Threads,
         CountOut(t) \/ StartThread(t) \/ CountThread(t) \/ StartThreadFails(t),
         pc[t] = "return" => numFinishedThreads < NumThreads
  PROVE  TypeOK'
<1> USE Parameters DEF callVars, threadVars, readVars, countVars, writeVars, Goto
<1>1. CASE CountOut(t)
  <2>1. numFinishedThreads' \in 0..NumThreads /\ numFinishedThreads + 1 \in Nat
    BY <1>1, SMTT(30) DEF CountOut, TypeOK
  <2>2. me' \in [Threads -> Locals]
    BY <1>1, <2>1, LocalsOf, SetLocal DEF CountOut
  <2> QED
    BY <1>1, <2>1, <2>2 DEF CountOut, TypeOK, Locals
<1>2. CASE StartThread(t)
  <2>1. startEvent' \in [Threads -> BOOLEAN]
    BY <1>2 DEF StartThread, TypeOK
  <2> QED
    BY <1>2, <2>1, ZenonT(30) DEF StartThread, TypeOK
<1>3. CASE CountThread(t)
  <2>1. numStartedThreads' \in 0..NumThreads
    <3>1. numStartedThreads < NumThreads /\ numStartedThreads \in 0..NumThreads
      BY <1>3 DEF CountThread, TypeOK, LocalInv, LocalOK
    <3> QED
      BY <1>3, <3>1 DEF CountThread
  <2> QED
    BY <1>3, <2>1 DEF CountThread, TypeOK
<1>4. CASE StartThreadFails(t)
  <2> DEFINE m1 == [me EXCEPT ![t].res = "THREAD"]
  <2>1. me' = [m1 EXCEPT ![t].finished = TRUE] /\ "THREAD" \in Result0
    BY <1>4 DEF StartThreadFails, Result0
  <2>2. m1 \in [Threads -> Locals]
    BY <2>1, LocalsOf, SetLocal
  <2> HIDE DEF m1
  <2>3. me' \in [Threads -> Locals]
    BY <2>1, <2>2, SetLocal
  <2>4. progressRes' \in Result0
    BY <1>4, <2>1, SetErrorTyped DEF StartThreadFails
  <2>5. [res |-> "THREAD", bufIndex |-> NoBlock, finished |-> TRUE]
           \in [res : Result0, bufIndex : Index, finished : BOOLEAN]
    BY <2>1 DEF Index
  <2>6. blocks' \in [Blocks -> [res : Result0, bufIndex : Index, finished : BOOLEAN]]
    BY <1>4, <2>5 DEF StartThreadFails, TypeOK
  <2> QED
    BY <1>4, <2>3, <2>4, <2>6, ZenonT(30) DEF StartThreadFails, TypeOK, Locals
<1> QED
  BY <1>1, <1>2, <1>3, <1>4

LEMMA TypeOfCode ==
  ASSUME TypeOK, LocalInv, NEW t \in Threads,
         TakeBuffer(t) \/ Code(t) \/ CodeFails(t),
         pc[t] = "buffer" => freeBlocks # <<>>
  PROVE  TypeOK'
<1> USE Parameters DEF callVars, threadVars, readVars, countVars, writeVars, Goto
<1> DEFINE Block == [res : Result0, bufIndex : Index, finished : BOOLEAN]
<1>1. CASE TakeBuffer(t)
  <2>1. Head(freeBlocks) \in Index /\ Tail(freeBlocks) \in Seq(Blocks)
    BY <1>1, HeadTailProperties DEF TakeBuffer, TypeOK, Index
  <2>2. me' \in [Threads -> Locals]
    BY <1>1, <2>1, LocalsOf, SetLocal DEF TakeBuffer
  <2> QED
    BY <1>1, <2>1, <2>2 DEF TakeBuffer, TypeOK, Locals
<1>2. ASSUME NEW r \in Result0, Publish(t, r)
      PROVE  blocks' \in [Blocks -> Block]
  <2>1. [res |-> r, bufIndex |-> me[t].bufIndex, finished |-> me[t].finished] \in Block
    BY <1>2 DEF TypeOK
  <2> QED
    BY <1>2, <2>1 DEF TypeOK, Publish
<1>3. OK \in Result0 /\ "CODE" \in Result0
  BY DEF Result0
<1>4. CASE Code(t)
  <2>1. [me[t].data EXCEPT !.finished = me[t].finished] \in Data
    BY LocalsOf DEF Piece
  <2>2. outBufs' \in [Blocks -> Data]
    BY <1>4, <2>1 DEF Code, TypeOK
  <2>3. blocks' \in [Blocks -> Block]
    BY <1>2, <1>3, <1>4 DEF Code
  <2> QED
    BY <1>4, <2>2, <2>3 DEF Code, TypeOK
<1>5. CASE CodeFails(t)
  <2>1. NoData \in Data
    BY DEF NoData, Data
  <2>2. outBufs' \in [Blocks -> Data]
    BY <1>5, <2>1 DEF CodeFails, TypeOK
  <2>3. blocks' \in [Blocks -> Block]
    BY <1>2, <1>3, <1>5 DEF CodeFails
  <2>4. me' \in [Threads -> Locals]
    BY <1>3, <1>5, LocalsOf, SetLocal DEF CodeFails
  <2>5. progressRes' \in Result0
    BY <1>3, <1>5, SetErrorTyped DEF CodeFails
  <2> QED
    BY <1>5, <2>2, <2>3, <2>4, <2>5 DEF CodeFails, TypeOK, Locals
<1> QED
  BY <1>1, <1>4, <1>5

LEMMA TypeOfWrite ==
  ASSUME TypeOK, LocalInv, NEW t \in Threads,
         Turn(t) \/ Write(t) \/ WriteFails(t) \/ Release(t) \/ WriteNext(t) \/ WriteLast(t),
         pc[t] \in {"next", "last"} => blocksSemaphore < numBlocksMax
  PROVE  TypeOK'
<1> USE Parameters DEF callVars, threadVars, readVars, countVars, writeVars, Goto
<1>1. CASE Turn(t)
  <2>1. CASE writeIndex = me[t].bi
    <3> DEFINE m1 == [me EXCEPT ![t].wi = writeIndex]
               r == IF writeRes # OK THEN writeRes ELSE me[t].res
    <3>1. writeIndex \in Blocks /\ r \in Result0
      BY <2>1 DEF TypeOK
    <3>2. m1 \in [Threads -> Locals]
      BY <3>1, LocalsOf, SetLocal
    <3>3. me' = [m1 EXCEPT ![t].res = r]
      BY <1>1, <2>1 DEF Turn, TypeOK
    <3>4. me' \in [Threads -> Locals]
      <4> HIDE DEF m1, r
      <4> QED
        BY <3>1, <3>2, <3>3, SetLocal
    <3> QED
      BY <1>1, <2>1, <3>4 DEF Turn, TypeOK, Index, Locals
  <2>2. CASE writeIndex # me[t].bi
    <3>1. ReadyBlocks' \subseteq Blocks
      <4>1. me[t].bi \in Blocks /\ ReadyBlocks \subseteq Blocks
        BY LocalsOf DEF TypeOK
      <4>2. ReadyBlocks' = ReadyBlocks \cup {me[t].bi}
        BY <1>1, <2>2 DEF Turn
      <4> QED
        BY <4>1, <4>2
    <3> QED
      BY <1>1, <2>2, <3>1 DEF Turn, TypeOK
  <2> QED
    BY <2>1, <2>2
<1>2. CASE Write(t)
  <2>1. written' \in Seq(Data)
    <3>1. CASE ToWrite(me[t])
      <4>1. outBufs[me[t].bufIndex] \in Data
        BY <3>1 DEF ToWrite, TypeOK, Index
      <4> QED
        BY <1>2, <3>1, <4>1, AppendProperties DEF Write, TypeOK
    <3> QED
      BY <1>2, <3>1 DEF Write, TypeOK
  <2> QED
    BY <1>2, <2>1 DEF Write, TypeOK
<1>3. CASE WriteFails(t)
  <2>1. "WRITE" \in Result0
    BY DEF Result0
  <2>2. me' \in [Threads -> Locals]
    BY <1>3, <2>1, LocalsOf, SetLocal DEF WriteFails
  <2>3. progressRes' \in Result0
    BY <1>3, <2>1, SetErrorTyped DEF WriteFails
  <2> QED
    BY <1>3, <2>1, <2>2, <2>3 DEF WriteFails, TypeOK, Locals
<1>4. CASE Release(t)
  <2>1. freeBlocks' \in Seq(Blocks)
    <3>1. CASE me[t].bufIndex # NoBlock
      <4>1. <<me[t].bufIndex>> \in Seq(Blocks)
        BY <3>1 DEF TypeOK, Index
      <4> QED
        BY <1>4, <3>1, <4>1, ConcatProperties DEF Release, GiveBuffer, TypeOK
    <3> QED
      BY <1>4, <3>1 DEF Release, GiveBuffer, TypeOK
  <2>2. NextBlock(me[t].wi) \in Blocks
    BY NextBlockTyped DEF TypeOK
  <2>3. me' \in [Threads -> Locals]
    BY <1>4, <2>2, LocalsOf, SetLocal DEF Release
  <2>4. writeIndex' \in Index /\ ReadyBlocks' \subseteq Blocks
    BY <1>4, <2>2 DEF Release, TypeOK, Index
  <2> QED
    BY <1>4, <2>1, <2>3, <2>4, ZenonT(30) DEF Release, TypeOK, Locals
<1>5. CASE WriteNext(t)
  <2> DEFINE block == blocks[me[t].wi]
             r == IF me[t].res = OK THEN block.res ELSE me[t].res
             m1 == [me EXCEPT ![t].res = r]
             m2 == [m1 EXCEPT ![t].bufIndex = block.bufIndex]
  <2>1. block \in [res : Result0, bufIndex : Index, finished : BOOLEAN] /\ r \in Result0
    BY DEF TypeOK
  <2>2. me' = [m2 EXCEPT ![t].finished = block.finished]
    BY <1>5 DEF WriteNext, TypeOK
  <2> HIDE DEF r, block
  <2>3. m1 \in [Threads -> Locals]
    BY <2>1, LocalsOf, SetLocal
  <2> HIDE DEF m1
  <2>4. m2 \in [Threads -> Locals]
    BY <2>1, <2>3, SetLocal
  <2> HIDE DEF m2
  <2>5. me' \in [Threads -> Locals]
    BY <2>1, <2>2, <2>4, SetLocal
  <2>6. blocksSemaphore' \in 0..numBlocksMax
    BY <1>5, SMTT(30) DEF WriteNext, FreePlace, TypeOK
  <2> QED
    BY <1>5, <2>5, <2>6 DEF WriteNext, FreePlace, TypeOK, Locals
<1>6. CASE WriteLast(t)
  BY <1>6 DEF WriteLast, FreePlace, TypeOK
<1> QED
  BY <1>1, <1>2, <1>3, <1>4, <1>5, <1>6

-----------------------------------------------------------------------------
(* The baton and the turn to write. *)

LEMMA Domains ==
  ASSUME TypeOK
  PROVE  /\ DOMAIN pc = Threads /\ DOMAIN me = Threads
         /\ DOMAIN startEvent = Threads /\ DOMAIN stop = Threads /\ DOMAIN inBuf = Threads
         /\ DOMAIN blocks = Blocks /\ DOMAIN outBufs = Blocks
         /\ pc = [u \in Threads |-> pc[u]] /\ me = [u \in Threads |-> me[u]]
         /\ readEvent \in BOOLEAN /\ stopReading \in BOOLEAN /\ finishedEvent \in BOOLEAN
         /\ \A t \in Threads : startEvent[t] \in BOOLEAN /\ stop[t] \in BOOLEAN
         /\ numStartedThreads \in 0..NumThreads /\ numFinishedThreads \in 0..NumThreads
         /\ blocksSemaphore \in 0..numBlocksMax /\ blockIndex \in Blocks
         /\ writeIndex \in Blocks \cup {NoBlock} /\ ReadyBlocks \subseteq Blocks
BY DEF TypeOK, Index

\* A thread moves no other, except that it creates one.
LEMMA OthersStay ==
  ASSUME TypeOK, NEW t \in Threads, Thread(t)
  PROVE  /\ \A u \in Threads \ {t} :
              /\ me'[u] = me[u]
              /\ pc'[u] = pc[u] \/ (StartThread(t) /\ u = numStartedThreads /\ pc'[u] = "idle")
         /\ UNCHANGED <<main, result, dataSize, mode, expected>>
<1> USE Domains DEF Goto, threadVars, readVars, countVars, writeVars, callVars
<1>1. CASE Wake(t) \/ CountOut(t) \/ Compare(t) \/ StopReading(t)
  BY <1>1 DEF Wake, CountOut, Compare, StopReading
<1>2. CASE ReadNothing(t) \/ ReadBlock(t) \/ ReadFails(t)
  BY <1>2 DEF ReadNothing, ReadBlock, ReadFails, TakeBaton
<1>3. CASE TakeBlock(t)
  BY <1>3 DEF TakeBlock, ToBuffer
<1>4. CASE StartThread(t) \/ CountThread(t) \/ StartThreadFails(t)
  BY <1>4 DEF StartThread, CountThread, StartThreadFails
<1>5. CASE TakeBuffer(t) \/ Code(t) \/ CodeFails(t)
  BY <1>5 DEF TakeBuffer, Code, CodeFails
<1>6. CASE Turn(t) \/ Write(t) \/ WriteFails(t)
  BY <1>6 DEF Turn, Write, WriteFails
<1>7. CASE Release(t) \/ WriteNext(t) \/ WriteLast(t)
  BY <1>7 DEF Release, WriteNext, WriteLast
<1> QED
  BY <1>1, <1>2, <1>3, <1>4, <1>5, <1>6, <1>7 DEF Thread

\* Where each step takes its thread.
LEMMA Moves ==
  ASSUME TypeOK, NEW t \in Threads
  PROVE  /\ Wake(t) => pc[t] = "idle" /\ startEvent[t] /\ pc'[t] = IF stop[t] THEN "ended" ELSE "read"
         /\ CountOut(t) => pc[t] = "return" /\ pc'[t] = "compare"
         /\ Compare(t) => pc[t] = "compare" /\ pc'[t] = "idle"
         /\ StopReading(t) => pc[t] = "read" /\ pc'[t] = "return"
         /\ ReadNothing(t) \/ ReadBlock(t) \/ ReadFails(t) => pc[t] = "read" /\ pc'[t] = "take"
         /\ TakeBlock(t) => pc[t] = "take" /\ pc'[t] \in {"start", "buffer", "turn"}
         /\ StartThread(t) /\ t # numStartedThreads => pc[t] = "start" /\ pc'[t] = "count"
         /\ CountThread(t) => pc[t] = "count" /\ pc'[t] = "buffer"
         /\ StartThreadFails(t) => pc[t] = "start" /\ pc'[t] = "turn"
         /\ TakeBuffer(t) => pc[t] = "buffer" /\ pc'[t] = "code"
         /\ Code(t) \/ CodeFails(t) => pc[t] = "code" /\ pc'[t] = "turn"
         /\ Turn(t) => pc[t] = "turn" /\ pc'[t] \in {"write", "read", "return"}
         /\ Write(t) \/ WriteFails(t) => pc[t] = "write" /\ pc'[t] = "release"
         /\ Release(t) => pc[t] = "release" /\ pc'[t] \in {"next", "last"}
         /\ WriteNext(t) => pc[t] = "next" /\ pc'[t] = "write"
         /\ WriteLast(t) => pc[t] = "last" /\ pc'[t] \in {"read", "return"}
<1> USE Domains DEF Goto
<1>1. Wake(t) => pc[t] = "idle" /\ startEvent[t] /\ pc'[t] = IF stop[t] THEN "ended" ELSE "read"
  BY DEF Wake
<1>2. /\ CountOut(t) => pc[t] = "return" /\ pc'[t] = "compare"
      /\ Compare(t) => pc[t] = "compare" /\ pc'[t] = "idle"
      /\ StopReading(t) => pc[t] = "read" /\ pc'[t] = "return"
  BY DEF CountOut, Compare, StopReading
<1>3. ReadNothing(t) \/ ReadBlock(t) \/ ReadFails(t) => pc[t] = "read" /\ pc'[t] = "take"
  BY DEF ReadNothing, ReadBlock, ReadFails, TakeBaton
<1>4. TakeBlock(t) => pc[t] = "take" /\ pc'[t] \in {"start", "buffer", "turn"}
  BY DEF TakeBlock, ToBuffer
<1>5. /\ StartThread(t) /\ t # numStartedThreads => pc[t] = "start" /\ pc'[t] = "count"
      /\ CountThread(t) => pc[t] = "count" /\ pc'[t] = "buffer"
      /\ StartThreadFails(t) => pc[t] = "start" /\ pc'[t] = "turn"
  BY DEF StartThread, CountThread, StartThreadFails
<1>6. /\ TakeBuffer(t) => pc[t] = "buffer" /\ pc'[t] = "code"
      /\ Code(t) \/ CodeFails(t) => pc[t] = "code" /\ pc'[t] = "turn"
  BY DEF TakeBuffer, Code, CodeFails
<1>7. /\ Turn(t) => pc[t] = "turn" /\ pc'[t] \in {"write", "read", "return"}
      /\ Write(t) \/ WriteFails(t) => pc[t] = "write" /\ pc'[t] = "release"
  BY DEF Turn, Write, WriteFails
<1>8. /\ Release(t) => pc[t] = "release" /\ pc'[t] \in {"next", "last"}
      /\ WriteNext(t) => pc[t] = "next" /\ pc'[t] = "write"
      /\ WriteLast(t) => pc[t] = "last" /\ pc'[t] \in {"read", "return"}
  BY DEF Release, WriteNext, WriteLast
<1> QED
  BY <1>1, <1>2, <1>3, <1>4, <1>5, <1>6, <1>7, <1>8

\* The thread that is created is not at work, and it is not the creator.
LEMMA CreatedIsNew ==
  ASSUME TypeOK, OneReader, LocalInv, Created, NEW t \in Threads, pc[t] \in {"start", "count"}
  PROVE  /\ numStartedThreads \in Threads /\ t < numStartedThreads
         /\ pc[t] = "start" => pc[numStartedThreads] = "none"
<1>1. numStartedThreads \in Threads
  <2>1. numStartedThreads < NumThreads
    BY DEF LocalInv, LocalOK
  <2> QED
    BY <2>1, Parameters, Domains
<1>2. t < numStartedThreads
  BY Parameters, Domains, SMTT(30) DEF Created, Asleep
<1>3. ASSUME pc[t] = "start", pc[numStartedThreads] # "none" PROVE FALSE
  <2>1. PICK u \in Threads : Counting(u)
    BY <1>1, <1>3, Parameters DEF Created
  <2>2. u = t
    BY <1>3, <2>1 DEF OneReader, HasBaton, Counting
  <2> QED
    BY <1>3, <2>1, <2>2 DEF Counting
<1> QED
  BY <1>1, <1>2, <1>3

LEMMA BatonOfThread ==
  ASSUME IInv, NEW t \in Threads, Thread(t)
  PROVE  OneReader'
<1> USE DEF IInv
<1> USE DEF threadVars, readVars, countVars, writeVars, HasBaton
<1>1. CASE /\ UNCHANGED readEvent
           /\ \A u \in Threads : HasBaton(u)' => HasBaton(u)
  BY <1>1 DEF OneReader
<1>2. CASE /\ readEvent /\ ~ readEvent'
           /\ \A u \in Threads \ {t} : HasBaton(u)' => HasBaton(u)
  BY <1>2 DEF OneReader
<1>3. CASE /\ HasBaton(t) /\ ~ HasBaton(t)'
           /\ \A u \in Threads \ {t} : HasBaton(u)' => HasBaton(u)
  BY <1>3 DEF OneReader
<1>4. CASE Wake(t) \/ CountOut(t) \/ Compare(t) \/ StopReading(t)
  BY <1>1, <1>4, OthersStay, Moves DEF Wake, CountOut, Compare, StopReading
<1>5. CASE ReadNothing(t) \/ ReadBlock(t) \/ ReadFails(t)
  BY <1>2, <1>5, OthersStay, Moves, Domains DEF ReadNothing, ReadBlock, ReadFails, TakeBaton
<1>6. CASE TakeBlock(t)
  <2>1. CASE pc'[t] = "start"
    <3>1. UNCHANGED readEvent
      BY <1>6, <2>1, Domains DEF TakeBlock, ToBuffer, Goto
    <3> QED
      BY <1>1, <1>6, <2>1, <3>1, OthersStay, Moves
  <2>2. CASE pc'[t] # "start"
    BY <1>3, <1>6, <2>2, OthersStay, Moves
  <2> QED
    BY <2>1, <2>2
<1>7. CASE StartThread(t)
  <2>1. pc[t] = "start" /\ numStartedThreads # t /\ UNCHANGED readEvent
    BY <1>7, CreatedIsNew, Parameters DEF StartThread
  <2> QED
    BY <1>1, <1>7, <2>1, OthersStay, Moves
<1>8. CASE CountThread(t) \/ StartThreadFails(t)
  BY <1>3, <1>8, OthersStay, Moves
<1>9. CASE TakeBuffer(t) \/ Code(t) \/ CodeFails(t)
  BY <1>1, <1>9, OthersStay, Moves DEF TakeBuffer, Code, CodeFails
<1>10. CASE Turn(t) \/ Write(t) \/ WriteFails(t)
  BY <1>1, <1>10, OthersStay, Moves DEF Turn, Write, WriteFails
<1>11. CASE Release(t) \/ WriteNext(t) \/ WriteLast(t)
  BY <1>1, <1>11, OthersStay, Moves DEF Release, WriteNext, WriteLast
<1> QED
  BY <1>4, <1>5, <1>6, <1>7, <1>8, <1>9, <1>10, <1>11 DEF Thread

LEMMA WriterOfThread ==
  ASSUME IInv, NEW t \in Threads, Thread(t)
  PROVE  OneWriter'
<1> USE DEF IInv
<1> USE DEF threadVars, readVars, countVars, writeVars, Writing
<1>1. CASE /\ UNCHANGED writeIndex
           /\ \A u \in Threads : Writing(u)' <=> Writing(u)
  BY <1>1 DEF OneWriter
<1>2. CASE /\ writeIndex # NoBlock /\ writeIndex' = NoBlock /\ Writing(t)'
           /\ \A u \in Threads \ {t} : Writing(u)' <=> Writing(u)
  BY <1>2 DEF OneWriter
<1>3. CASE /\ writeIndex' # NoBlock /\ Writing(t) /\ ~ Writing(t)'
           /\ \A u \in Threads \ {t} : Writing(u)' <=> Writing(u)
  BY <1>3 DEF OneWriter
<1>4. CASE Wake(t) \/ CountOut(t) \/ Compare(t) \/ StopReading(t)
  BY <1>1, <1>4, OthersStay, Moves DEF Wake, CountOut, Compare, StopReading
<1>5. CASE ReadNothing(t) \/ ReadBlock(t) \/ ReadFails(t)
  BY <1>1, <1>5, OthersStay, Moves, Domains DEF ReadNothing, ReadBlock, ReadFails
<1>6. CASE TakeBlock(t)
  BY <1>1, <1>6, OthersStay, Moves DEF TakeBlock
<1>7. CASE StartThread(t)
  <2>1. pc[t] = "start" /\ numStartedThreads # t /\ UNCHANGED writeIndex
    BY <1>7, CreatedIsNew, Parameters DEF StartThread
  <2>2. pc[numStartedThreads] = "none"
    BY <2>1, CreatedIsNew
  <2> QED
    BY <1>1, <1>7, <2>1, <2>2, OthersStay, Moves
<1>8. CASE CountThread(t) \/ StartThreadFails(t)
  BY <1>1, <1>8, OthersStay, Moves DEF CountThread, StartThreadFails
<1>9. CASE TakeBuffer(t) \/ Code(t) \/ CodeFails(t)
  BY <1>1, <1>9, OthersStay, Moves DEF TakeBuffer, Code, CodeFails
<1>10. CASE Turn(t)
  <2>1. CASE writeIndex = me[t].bi
    <3>1. writeIndex # NoBlock /\ writeIndex' = NoBlock /\ pc'[t] = "write"
      BY <1>10, <2>1, Domains, LocalsOf, Parameters DEF Turn, Goto
    <3> QED
      BY <1>2, <1>10, <3>1, OthersStay, Moves
  <2>2. CASE writeIndex # me[t].bi
    <3>1. UNCHANGED writeIndex /\ pc'[t] # "write"
      BY <1>10, <2>2, Domains DEF Turn, Goto
    <3> QED
      BY <1>1, <1>10, <3>1, OthersStay, Moves
  <2> QED
    BY <2>1, <2>2
<1>11. CASE Write(t) \/ WriteFails(t)
  BY <1>1, <1>11, OthersStay, Moves DEF Write, WriteFails
<1>12. CASE Release(t)
  <2>1. CASE pc'[t] = "next"
    <3>1. UNCHANGED writeIndex
      BY <1>12, <2>1, Domains DEF Release, Goto
    <3> QED
      BY <1>1, <1>12, <2>1, <3>1, OthersStay, Moves
  <2>2. CASE pc'[t] # "next"
    <3>1. writeIndex' \in Blocks
      BY <1>12, <2>2, Domains, LocalsOf, NextBlockTyped DEF Release, Goto
    <3> QED
      BY <1>3, <1>12, <2>2, <3>1, OthersStay, Moves, Parameters
  <2> QED
    BY <2>1, <2>2
<1>13. CASE WriteNext(t) \/ WriteLast(t)
  BY <1>1, <1>13, OthersStay, Moves DEF WriteNext, WriteLast
<1> QED
  BY <1>4, <1>5, <1>6, <1>7, <1>8, <1>9, <1>10, <1>11, <1>12, <1>13 DEF Thread

-----------------------------------------------------------------------------
(* What a step does to the locals of its thread. *)

LEMMA SameLocals ==
  ASSUME TypeOK, NEW t \in Threads,
         \/ Wake(t) \/ Compare(t) \/ StopReading(t) \/ StartThread(t) \/ CountThread(t)
         \/ Code(t) \/ Write(t) \/ WriteLast(t)
  PROVE  UNCHANGED me
BY DEF Wake, Compare, StopReading, StartThread, CountThread, Code, Write, WriteLast

LEMMA LocalsRead ==
  ASSUME TypeOK, NEW t \in Threads
  PROVE  /\ CountOut(t) => me'[t].numFinished = numFinishedThreads + 1
         /\ ReadNothing(t) => me'[t].res = progressRes /\ me'[t].finished = TRUE /\ me'[t].bufIndex = NoBlock
         /\ ReadBlock(t) => /\ me'[t].res = OK /\ me'[t].finished = LastRead
                             /\ me'[t].bufIndex = NoBlock
                             /\ me'[t].data = [from |-> readProcessed, size |-> ReadSize, finished |-> FALSE]
         /\ ReadFails(t) => me'[t].res = readRes' /\ readRes' # OK /\ me'[t].finished = TRUE
                             /\ me'[t].bufIndex = NoBlock
<1> USE Domains
<1>1. CountOut(t) => me'[t].numFinished = numFinishedThreads + 1
  BY LocalsOf DEF CountOut, Locals
<1>2. ReadNothing(t) => me'[t].res = progressRes /\ me'[t].finished = TRUE /\ me'[t].bufIndex = NoBlock
  BY DEF ReadNothing, NoLocals
<1>3. ReadBlock(t) => /\ me'[t].res = OK /\ me'[t].finished = LastRead
                      /\ me'[t].bufIndex = NoBlock
                      /\ me'[t].data = [from |-> readProcessed, size |-> ReadSize, finished |-> FALSE]
  BY DEF ReadBlock, NoLocals
<1>4. ReadFails(t) => me'[t].res = readRes' /\ readRes' # OK /\ me'[t].finished = TRUE
                      /\ me'[t].bufIndex = NoBlock
  BY DEF ReadFails, NoLocals, OK
<1> QED
  BY <1>1, <1>2, <1>3, <1>4

TakenRes(t) == IF me[t].res = OK THEN progressRes ELSE me[t].res
TakenFinished(t) == me[t].finished \/ TakenRes(t) # OK
FailedBlock(r, f) == [res |-> r, bufIndex |-> NoBlock, finished |-> f]

LEMMA LocalsTake ==
  ASSUME TypeOK, NEW t \in Threads, TakeBlock(t)
  PROVE  /\ me'[t].bi = blockIndex /\ me'[t].bufIndex = me[t].bufIndex /\ me'[t].data = me[t].data
         /\ MoreThreads(TakenFinished(t)) =>
              /\ pc'[t] = "start" /\ me'[t].res = me[t].res /\ me'[t].finished = me[t].finished
              /\ UNCHANGED <<readEvent, stopReading, blocks>>
         /\ ~ MoreThreads(TakenFinished(t)) =>
              /\ me'[t].res = TakenRes(t) /\ me'[t].finished = TakenFinished(t)
              /\ readEvent' = TRUE /\ stopReading' = (stopReading \/ TakenFinished(t))
              /\ TakenRes(t) = OK => pc'[t] = "buffer" /\ UNCHANGED blocks
              /\ TakenRes(t) # OK => pc'[t] = "turn" /\ blocks' =
                   [blocks EXCEPT ![blockIndex] = FailedBlock(TakenRes(t), TakenFinished(t))]
<1> USE Domains
<1> DEFINE r == TakenRes(t)
           f == TakenFinished(t)
<1>1. me[t] \in Locals
  BY LocalsOf
<1>2. CASE MoreThreads(f)
  <2>1. /\ me' = [me EXCEPT ![t].bi = blockIndex]
        /\ pc' = [pc EXCEPT ![t] = "start"]
        /\ UNCHANGED <<readEvent, stopReading, blocks>>
    BY <1>2 DEF TakeBlock, TakenRes, TakenFinished, Goto
  <2> QED
    BY <1>1, <1>2, <2>1 DEF Locals
<1>3. CASE ~ MoreThreads(f)
  <2>1. /\ ToBuffer(t, r, f) /\ readEvent' = TRUE /\ stopReading' = (stopReading \/ f)
    BY <1>3 DEF TakeBlock, TakenRes, TakenFinished
  <2> HIDE DEF r, f
  <2>2. /\ me'[t].bi = blockIndex /\ me'[t].res = r /\ me'[t].finished = f
        /\ me'[t].bufIndex = me[t].bufIndex /\ me'[t].data = me[t].data
    BY <1>1, <2>1 DEF ToBuffer, Locals
  <2>3. /\ r = OK => pc'[t] = "buffer" /\ UNCHANGED blocks
        /\ r # OK => pc'[t] = "turn" /\ blocks' = [blocks EXCEPT ![blockIndex] = FailedBlock(r, f)]
    BY <2>1 DEF ToBuffer, Goto, FailedBlock
  <2> QED
    BY <1>3, <2>1, <2>2, <2>3 DEF r, f
<1> QED
  BY <1>2, <1>3

LEMMA LocalsCode ==
  ASSUME TypeOK, NEW t \in Threads
  PROVE  /\ StartThreadFails(t) => /\ me'[t].bi = me[t].bi /\ me'[t].bufIndex = me[t].bufIndex
                                    /\ me'[t].res = "THREAD" /\ me'[t].finished = TRUE
                                    /\ blocks' = [blocks EXCEPT ![me[t].bi] = FailedBlock("THREAD", TRUE)]
         /\ TakeBuffer(t) => /\ me'[t].bufIndex = Head(freeBlocks) /\ me'[t].bi = me[t].bi
                              /\ me'[t].res = me[t].res /\ me'[t].finished = me[t].finished
                              /\ me'[t].data = me[t].data
         /\ CodeFails(t) => /\ me'[t].res = "CODE" /\ me'[t].bi = me[t].bi
                             /\ me'[t].bufIndex = me[t].bufIndex /\ me'[t].finished = me[t].finished
<1> USE Domains
<1>1. me[t] \in Locals
  BY LocalsOf
<1>2. StartThreadFails(t) => /\ me'[t].bi = me[t].bi /\ me'[t].bufIndex = me[t].bufIndex
                             /\ me'[t].res = "THREAD" /\ me'[t].finished = TRUE
                             /\ blocks' = [blocks EXCEPT ![me[t].bi] = FailedBlock("THREAD", TRUE)]
  BY <1>1 DEF StartThreadFails, Locals, FailedBlock
<1>3. TakeBuffer(t) => /\ me'[t].bufIndex = Head(freeBlocks) /\ me'[t].bi = me[t].bi
                       /\ me'[t].res = me[t].res /\ me'[t].finished = me[t].finished
                       /\ me'[t].data = me[t].data
  BY <1>1 DEF TakeBuffer, Locals
<1>4. CodeFails(t) => /\ me'[t].res = "CODE" /\ me'[t].bi = me[t].bi
                      /\ me'[t].bufIndex = me[t].bufIndex /\ me'[t].finished = me[t].finished
  BY <1>1 DEF CodeFails, Locals
<1> QED
  BY <1>2, <1>3, <1>4

LEMMA LocalsWrite ==
  ASSUME TypeOK, NEW t \in Threads
  PROVE  /\ Turn(t) /\ writeIndex = me[t].bi =>
              /\ me'[t].wi = me[t].bi /\ me'[t].bufIndex = me[t].bufIndex
              /\ me'[t].finished = me[t].finished
              /\ me'[t].res = IF writeRes # OK THEN writeRes ELSE me[t].res
         /\ Turn(t) /\ writeIndex # me[t].bi => UNCHANGED me
         /\ WriteFails(t) => /\ me'[t].res = "WRITE" /\ me'[t].wi = me[t].wi
                              /\ me'[t].bufIndex = me[t].bufIndex /\ me'[t].finished = me[t].finished
         /\ Release(t) => /\ me'[t].wi = NextBlock(me[t].wi) /\ me'[t].res = me[t].res
                           /\ me'[t].finished = me[t].finished
         /\ WriteNext(t) => /\ me'[t].wi = me[t].wi
                             /\ me'[t].bufIndex = blocks[me[t].wi].bufIndex
                             /\ me'[t].finished = blocks[me[t].wi].finished
                             /\ me'[t].res = IF me[t].res = OK THEN blocks[me[t].wi].res ELSE me[t].res
<1> USE Domains
<1>1. me[t] \in Locals
  BY LocalsOf
<1>2. Turn(t) /\ writeIndex = me[t].bi =>
              /\ me'[t].wi = me[t].bi /\ me'[t].bufIndex = me[t].bufIndex
              /\ me'[t].finished = me[t].finished
              /\ me'[t].res = IF writeRes # OK THEN writeRes ELSE me[t].res
  BY <1>1 DEF Turn, Locals
<1>3. Turn(t) /\ writeIndex # me[t].bi => UNCHANGED me
  BY DEF Turn
<1>4. WriteFails(t) => /\ me'[t].res = "WRITE" /\ me'[t].wi = me[t].wi
                       /\ me'[t].bufIndex = me[t].bufIndex /\ me'[t].finished = me[t].finished
  BY <1>1 DEF WriteFails, Locals
<1>5. Release(t) => /\ me'[t].wi = NextBlock(me[t].wi) /\ me'[t].res = me[t].res
                    /\ me'[t].finished = me[t].finished
  BY <1>1 DEF Release, Locals
<1>6. WriteNext(t) => /\ me'[t].wi = me[t].wi
                      /\ me'[t].bufIndex = blocks[me[t].wi].bufIndex
                      /\ me'[t].finished = blocks[me[t].wi].finished
                      /\ me'[t].res = IF me[t].res = OK THEN blocks[me[t].wi].res ELSE me[t].res
  BY <1>1 DEF WriteNext, Locals
<1> QED
  BY <1>2, <1>3, <1>4, <1>5, <1>6

-----------------------------------------------------------------------------
(* The places among the blocks. *)

LEMMA TurnExists ==
  ASSUME TypeOK, OneWriter
  PROVE  /\ \E a \in Blocks : IsTurn(a)
         /\ \A a, b \in Blocks : IsTurn(a) /\ IsTurn(b) => a = b
<1>1. CASE writeIndex # NoBlock
  BY <1>1, Domains, Parameters DEF IsTurn, OneWriter, AtWrite
<1>2. CASE writeIndex = NoBlock
  <2>1. PICK t \in Threads : Writing(t)
    BY <1>2 DEF OneWriter
  <2>2. IsTurn(me[t].wi) /\ me[t].wi \in Blocks
    BY <2>1, LocalsOf DEF IsTurn, AtWrite
  <2> QED
    BY <1>2, <2>2, Parameters DEF IsTurn, OneWriter, AtWrite
<1> QED
  BY <1>1, <1>2

LEMMA GivingCounted ==
  ASSUME TypeOK
  PROVE  IsFiniteSet(GivingBack) /\ Cardinality(GivingBack) \in Nat
<1>1. GivingBack \subseteq Threads
  BY DEF GivingBack
<1> QED
  BY <1>1, FiniteThings, FS_Subset, FS_CardinalityType

LEMMA FreshPlace ==
  ASSUME IInv, blocksSemaphore > 0
  PROVE  ~ Taken(blockIndex) /\ Size < numBlocksMax
<1> USE DEF IInv
<1>1. Size < numBlocksMax /\ Size \in Nat
  BY GivingCounted, Domains, Parameters DEF Size, Window
<1>2. PICK a \in Blocks : IsTurn(a)
  BY TurnExists
<1>3. /\ Taken(blockIndex) <=> Dist(a, blockIndex) < Size
      /\ blockIndex = IF a + Size >= numBlocksMax THEN a + Size - numBlocksMax ELSE a + Size
  BY <1>2, Domains DEF Window
<1>4. Dist(a, blockIndex) = Size
  BY <1>1, <1>3, Parameters DEF Dist
<1> QED
  BY <1>1, <1>3, <1>4

LEMMA SemaphoreRoom ==
  ASSUME IInv, NEW t \in Threads, pc[t] \in {"next", "last"}
  PROVE  blocksSemaphore < numBlocksMax
<1> USE DEF IInv
<1>1. t \in GivingBack
  BY DEF GivingBack
<1>2. Cardinality(GivingBack) # 0
  BY <1>1, GivingCounted, FS_EmptySet
<1>3. Size >= 0 /\ Size = numBlocksMax - blocksSemaphore - Cardinality(GivingBack)
  BY DEF Window, Size
<1> QED
  BY <1>2, <1>3, GivingCounted, Domains, Parameters

\* A step changes the entry of a block only at the place of its thread.
LEMMA OtherBlocksStay ==
  ASSUME IInv, NEW t \in Threads, Thread(t), NEW b \in Blocks
  PROVE  \/ blocks'[b] = blocks[b]
         \/ pc[t] \in {"start", "code"} /\ AtBlock(t, b)
         \/ TakeBlock(t) /\ b = blockIndex /\ ~ Taken(b)
<1> USE DEF IInv
<1>1. CASE TakeBlock(t)
  <2>1. b # blockIndex => blocks'[b] = blocks[b]
    BY <1>1, LocalsTake, Domains
  <2>2. blocksSemaphore > 0
    BY <1>1 DEF TakeBlock
  <2> QED
    BY <1>1, <2>1, <2>2, FreshPlace
<1>2. CASE StartThreadFails(t) \/ Code(t) \/ CodeFails(t)
  <2>1. pc[t] \in {"start", "code"}
    BY <1>2 DEF StartThreadFails, Code, CodeFails
  <2>2. b # me[t].bi => blocks'[b] = blocks[b]
    BY <1>2, Domains DEF StartThreadFails, Code, CodeFails, Publish
  <2> QED
    BY <2>1, <2>2 DEF AtBlock
<1>3. CASE ~ (TakeBlock(t) \/ StartThreadFails(t) \/ Code(t) \/ CodeFails(t))
  <2>1. UNCHANGED blocks
    BY <1>3 DEF Thread, Wake, CountOut, Compare, StopReading, ReadNothing, ReadBlock, ReadFails,
                StartThread, CountThread, TakeBuffer, Turn, Write, WriteFails, Release, WriteNext,
                WriteLast
  <2> QED
    BY <2>1
<1> QED
  BY <1>1, <1>2, <1>3

LEMMA OwnerIsOne ==
  ASSUME IInv, NEW b \in Blocks, NEW t \in Threads, AtBlock(t, b) \/ AtWrite(t, b),
         NEW u \in Threads, AtBlock(u, b) \/ AtWrite(u, b)
  PROVE  t = u /\ b \notin ReadyBlocks
BY DEF IInv, PlacesApart, AtWrite, OneWriter

LEMMA HoldsOne ==
  ASSUME IInv, NEW b \in Blocks, NEW f, NEW g, Holds(b, f), Holds(b, g)
  PROVE  f = g
BY OwnerIsOne DEF Holds, HoldsAt, HoldsReady

LEMMA BufferThere ==
  ASSUME IInv, NEW t \in Threads, pc[t] = "buffer"
  PROVE  freeBlocks # <<>> /\ Head(freeBlocks) \in Blocks
<1> USE DEF IInv
<1>1. me[t].bi \in Blocks /\ AtBlock(t, me[t].bi)
  BY LocalsOf DEF AtBlock
<1>2. ASSUME freeBlocks = <<>> PROVE FALSE
  <2> DEFINE Holder(f) == CHOOSE b \in Blocks : Holds(b, f)
             Others == Blocks \ {me[t].bi}
             H == [f \in Blocks |-> Holder(f)]
  <2>1. ASSUME NEW f \in Blocks PROVE Holder(f) \in Others /\ Holds(Holder(f), f)
    <3>1. \E b \in Blocks : Holds(b, f)
      BY <1>2 DEF BufferInv, Free
    <3>2. Holder(f) \in Blocks /\ Holds(Holder(f), f)
      BY <3>1
    <3>3. ~ Holds(me[t].bi, f)
      BY <1>1, OwnerIsOne DEF Holds, HoldsAt, HoldsReady, AtBlock, AtWrite, Writing
    <3> QED
      BY <3>2, <3>3
  <2>2. H \in [Blocks -> Others]
    BY <2>1
  <2>3. IsFiniteSet(Others) /\ Cardinality(Others) = numBlocksMax - 1
    BY <1>1, FiniteThings, FS_RemoveElement
  <2>4. Cardinality(Others) < Cardinality(Blocks)
    BY <2>3, FiniteThings, Parameters
  <2> HIDE DEF H
  <2>5. PICK f \in Blocks, g \in Blocks : f # g /\ H[f] = H[g]
    BY <2>2, <2>3, <2>4, FiniteThings, FS_PigeonHole
  <2>6. Holds(H[f], f) /\ Holds(H[f], g) /\ H[f] \in Blocks
    BY <2>1, <2>5 DEF H
  <2> QED
    BY <2>5, <2>6, HoldsOne
<1>3. freeBlocks \in Seq(Blocks)
  BY DEF TypeOK
<1> QED
  BY <1>2, <1>3, HeadTailProperties

-----------------------------------------------------------------------------
(* The locals. *)

LEMMA LocalOfOthers ==
  ASSUME IInv, NEW t \in Threads, Thread(t), NEW u \in Threads \ {t}
  PROVE  LocalOK(u)'
<1> USE DEF IInv
<1>1. LocalOK(u) /\ LocalOK(t)
  BY DEF LocalInv
<1>2. me'[u] = me[u]
  BY OthersStay
<1>3. CASE pc'[u] # pc[u]
  <2>1. pc'[u] = "idle"
    BY <1>3, OthersStay
  <2> QED
    BY <2>1 DEF LocalOK
<1>4. CASE pc'[u] = pc[u]
  <2>1. pc[u] \in {"start", "count"} => UNCHANGED numStartedThreads
    <3>1. CASE CountThread(t)
      BY <3>1 DEF CountThread, OneReader, HasBaton
    <3>2. CASE ~ CountThread(t)
      BY <3>2 DEF Thread, Wake, CountOut, Compare, StopReading, ReadNothing, ReadBlock, ReadFails,
                StartThread, StartThreadFails, TakeBlock, TakeBuffer, Code, CodeFails, Turn, Write,
                WriteFails, Release, WriteNext, WriteLast, countVars
    <3> QED
      BY <3>1, <3>2
  <2>2. me[u].bi \in Blocks /\ me[u].wi \in Blocks
    BY LocalsOf
  <2>3. pc[u] = "turn" => blocks'[me[u].bi] = blocks[me[u].bi]
    BY <2>2, OtherBlocksStay DEF AtBlock, PlacesApart, Taken
  <2>4. pc[u] = "next" => blocks'[me[u].wi] = blocks[me[u].wi]
    BY <2>2, OtherBlocksStay DEF AtBlock, AtWrite, Writing, PlacesApart, Taken
  <2> QED
    BY <1>1, <1>2, <1>4, <2>1, <2>3, <2>4 DEF LocalOK, NothingHeld
<1> QED
  BY <1>3, <1>4

LEMMA LocalOfItself ==
  ASSUME IInv, NEW t \in Threads, Thread(t)
  PROVE  LocalOK(t)'
<1> USE DEF IInv
<1>0. LocalOK(t) /\ me[t].bi \in Blocks /\ me[t].wi \in Blocks
  BY LocalsOf DEF LocalInv
<1>1. CASE Wake(t) \/ CountOut(t) \/ Compare(t) \/ StopReading(t)
  BY <1>1, Moves DEF LocalOK
<1>2. CASE ReadNothing(t) \/ ReadBlock(t) \/ ReadFails(t)
  BY <1>2, Moves, LocalsRead DEF LocalOK, NothingHeld
<1>3. CASE TakeBlock(t)
  <2>1. /\ pc[t] = "take" /\ me'[t].bi = blockIndex /\ me'[t].bufIndex = NoBlock
        /\ UNCHANGED numStartedThreads
    BY <1>0, <1>3, LocalsTake, Moves DEF LocalOK, NothingHeld, TakeBlock, countVars
  <2>2. CASE MoreThreads(TakenFinished(t))
    <3>1. pc'[t] = "start" /\ me'[t].res = me[t].res /\ me'[t].finished = me[t].finished
      BY <1>3, <2>2, LocalsTake
    <3>2. numStartedThreads < NumThreads /\ ~ me[t].finished /\ me[t].res = OK
      BY <2>2, LocalsOf DEF MoreThreads, TakenFinished, TakenRes
    <3> QED
      BY <2>1, <3>1, <3>2 DEF LocalOK, NothingHeld
  <2>3. CASE ~ MoreThreads(TakenFinished(t))
    <3>1. CASE TakenRes(t) = OK
      BY <1>3, <2>1, <2>3, <3>1, LocalsTake DEF LocalOK, NothingHeld
    <3>2. CASE TakenRes(t) # OK
      <4>1. /\ pc'[t] = "turn" /\ me'[t].res = TakenRes(t) /\ me'[t].finished = TakenFinished(t)
            /\ blocks'[blockIndex] = FailedBlock(TakenRes(t), TakenFinished(t))
        BY <1>3, <2>3, <3>2, LocalsTake, Domains
      <4> QED
        BY <2>1, <3>2, <4>1 DEF LocalOK, NothingHeld, FailedBlock
    <3> QED
      BY <3>1, <3>2
  <2> QED
    BY <2>2, <2>3
<1>4. CASE StartThread(t)
  <2>1. pc[t] = "start" /\ numStartedThreads # t /\ UNCHANGED <<numStartedThreads, me>>
    BY <1>4, CreatedIsNew, Parameters DEF StartThread, countVars
  <2> QED
    BY <1>0, <1>4, <2>1, Moves DEF LocalOK, NothingHeld
<1>5. CASE CountThread(t)
  BY <1>0, <1>5, Moves, SameLocals DEF LocalOK, NothingHeld
<1>6. CASE StartThreadFails(t)
  <2>1. pc'[t] = "turn" /\ me'[t].bi = me[t].bi /\ me'[t].bufIndex = NoBlock
          /\ me'[t].res = "THREAD" /\ me'[t].finished = TRUE
    BY <1>0, <1>6, Moves, LocalsCode DEF LocalOK, NothingHeld
  <2>2. blocks'[me[t].bi] = FailedBlock("THREAD", TRUE)
    BY <1>0, <1>6, LocalsCode, Domains
  <2> QED
    BY <2>1, <2>2 DEF LocalOK, NothingHeld, FailedBlock, OK
<1>7. CASE TakeBuffer(t)
  <2>1. Head(freeBlocks) # NoBlock
    BY <1>7, BufferThere, Parameters DEF TakeBuffer
  <2> QED
    BY <1>0, <1>7, <2>1, Moves, LocalsCode DEF LocalOK, NothingHeld
<1>8. CASE Code(t)
  <2>1. blocks'[me[t].bi] = [res |-> OK, bufIndex |-> me[t].bufIndex, finished |-> me[t].finished]
    BY <1>0, <1>8, Domains DEF Code, Publish
  <2> QED
    BY <1>0, <1>8, <2>1, Moves, SameLocals DEF LocalOK, NothingHeld
<1>9. CASE CodeFails(t)
  <2>1. blocks'[me[t].bi] = [res |-> "CODE", bufIndex |-> me[t].bufIndex, finished |-> me[t].finished]
    BY <1>0, <1>9, Domains DEF CodeFails, Publish
  <2> QED
    BY <1>0, <1>9, <2>1, Moves, LocalsCode DEF LocalOK, NothingHeld, OK
<1>10. CASE Turn(t)
  <2>1. CASE pc'[t] = "write"
    <3>1. writeIndex = me[t].bi
      BY <1>10, <2>1, Domains DEF Turn, Goto
    <3>2. me'[t].bufIndex = me[t].bufIndex /\ (me'[t].res = OK => me[t].res = OK)
      BY <1>10, <3>1, LocalsWrite
    <3> QED
      BY <1>0, <1>10, <2>1, <3>2, Moves DEF LocalOK, NothingHeld
  <2>2. CASE pc'[t] # "write"
    BY <1>10, <2>2, Moves DEF LocalOK
  <2> QED
    BY <2>1, <2>2
<1>11. CASE Write(t) \/ WriteFails(t) \/ WriteLast(t)
  BY <1>11, Moves DEF LocalOK
<1>12. CASE Release(t)
  <2>1. CASE pc'[t] = "next"
    <3>1. me'[t].wi \in ReadyBlocks /\ UNCHANGED blocks
      BY <1>12, <2>1, Domains, LocalsWrite DEF Release, Goto
    <3> QED
      BY <2>1, <3>1 DEF LocalOK, ReadyHold
  <2>2. CASE pc'[t] # "next"
    BY <1>12, <2>2, Moves DEF LocalOK
  <2> QED
    BY <2>1, <2>2
<1>13. CASE WriteNext(t)
  <2>1. me'[t].res = OK => me'[t].bufIndex # NoBlock
    BY <1>0, <1>13, LocalsWrite, Moves DEF LocalOK
  <2> QED
    BY <1>13, <2>1, Moves DEF LocalOK, NothingHeld
<1> QED
  BY <1>1, <1>2, <1>3, <1>4, <1>5, <1>6, <1>7, <1>8, <1>9, <1>10, <1>11, <1>12, <1>13 DEF Thread

LEMMA LocalOfThread ==
  ASSUME IInv, NEW t \in Threads, Thread(t)
  PROVE  LocalInv'
BY LocalOfOthers, LocalOfItself DEF LocalInv

LEMMA ReadyOfThread ==
  ASSUME IInv, NEW t \in Threads, Thread(t)
  PROVE  ReadyHold'
<1> USE DEF IInv
<1>1. \A b \in ReadyBlocks : blocks'[b] = blocks[b]
  BY OtherBlocksStay, Domains DEF PlacesApart, Taken
<1>2. CASE Turn(t) /\ writeIndex # me[t].bi
  <2>1. ReadyBlocks' = ReadyBlocks \cup {me[t].bi} /\ UNCHANGED blocks
    BY <1>2 DEF Turn
  <2>2. blocks[me[t].bi].res = OK => blocks[me[t].bi].bufIndex # NoBlock
    <3>1. pc[t] = "turn" /\ LocalOK(t)
      BY <1>2 DEF LocalInv, Turn
    <3> QED
      BY <3>1 DEF LocalOK, NothingHeld
  <2> QED
    BY <2>1, <2>2 DEF ReadyHold
<1>3. CASE ~ (Turn(t) /\ writeIndex # me[t].bi)
  <2>1. ReadyBlocks' \subseteq ReadyBlocks
    BY <1>3 DEF Thread, Wake, CountOut, Compare, StopReading, ReadNothing, ReadBlock, ReadFails,
                StartThread, CountThread, StartThreadFails, TakeBlock, TakeBuffer, Code, CodeFails,
                Turn, Write, WriteFails, Release, WriteNext, WriteLast, writeVars
  <2> QED
    BY <1>1, <2>1 DEF ReadyHold
<1> QED
  BY <1>2, <1>3

-----------------------------------------------------------------------------
(* The life of the threads. *)

LEMMA EventsMove ==
  ASSUME TypeOK, NEW t \in Threads, Thread(t)
  PROVE  /\ UNCHANGED <<stop, main>>
         /\ \A u \in Threads : startEvent'[u] = startEvent[u] \/ (Wake(t) /\ u = t /\ ~ startEvent'[t])
                                \/ (StartThread(t) /\ u = numStartedThreads /\ startEvent'[u])
         /\ ~ CountThread(t) => UNCHANGED numStartedThreads
         /\ CountThread(t) => numStartedThreads' = numStartedThreads + 1
         /\ ~ CountOut(t) => UNCHANGED numFinishedThreads
         /\ CountOut(t) => numFinishedThreads' = numFinishedThreads + 1
         /\ ~ Compare(t) => UNCHANGED finishedEvent
         /\ Compare(t) => finishedEvent' = (finishedEvent \/ me[t].numFinished = numStartedThreads)
<1> USE Domains DEF threadVars, countVars
<1>1. CASE Wake(t)
  BY <1>1, Moves DEF Wake, CountThread, CountOut, Compare
<1>2. CASE CountOut(t) \/ Compare(t)
  BY <1>2, Moves DEF CountOut, Compare, CountThread
<1>3. CASE StopReading(t) \/ ReadNothing(t) \/ ReadBlock(t) \/ ReadFails(t)
  BY <1>3, Moves DEF StopReading, ReadNothing, ReadBlock, ReadFails, CountThread, CountOut, Compare
<1>4. CASE TakeBlock(t) \/ StartThreadFails(t)
  BY <1>4, Moves DEF TakeBlock, StartThreadFails, CountThread, CountOut, Compare
<1>5. CASE StartThread(t)
  BY <1>5 DEF StartThread, CountThread, CountOut, Compare
<1>6. CASE CountThread(t)
  BY <1>6, Moves DEF CountThread, CountOut, Compare
<1>7. CASE TakeBuffer(t) \/ Code(t) \/ CodeFails(t)
  BY <1>7, Moves DEF TakeBuffer, Code, CodeFails, CountThread, CountOut, Compare
<1>8. CASE Turn(t) \/ Write(t) \/ WriteFails(t)
  BY <1>8, Moves DEF Turn, Write, WriteFails, CountThread, CountOut, Compare
<1>9. CASE Release(t) \/ WriteNext(t) \/ WriteLast(t)
  BY <1>9, Moves DEF Release, WriteNext, WriteLast, CountThread, CountOut, Compare
<1> QED
  BY <1>1, <1>2, <1>3, <1>4, <1>5, <1>6, <1>7, <1>8, <1>9 DEF Thread

LEMMA AtWorkNotThrough ==
  ASSUME IInv, NEW t \in Threads, AtWork(t)
  PROVE  main \in {"signal", "wait"} /\ ~ finishedEvent /\ \A u \in Threads : ~ stop[u]
<1> USE DEF IInv
<1>1. main \in {"start", "signal", "wait", "free", "done"}
  BY DEF TypeOK
<1> QED
  BY <1>1 DEF AtWork, AllLeft, Out, Beginning, NotYetStopped, Asleep

LEMMA LifeOfThread ==
  ASSUME IInv, NEW t \in Threads, Thread(t)
  PROVE  Beginning' /\ NotYetStopped' /\ Created'
<1> USE DEF IInv
<1>1. CASE Wake(t)
  <2>1. /\ pc[t] = "idle" /\ startEvent[t] /\ pc'[t] = (IF stop[t] THEN "ended" ELSE "read")
        /\ UNCHANGED <<main, stop, readEvent, finishedEvent, numStartedThreads, written>>
        /\ ~ startEvent'[t]
    BY <1>1, Moves, Domains DEF Wake, countVars, readVars
  <2>2. \A u \in Threads \ {t} : pc'[u] = pc[u] /\ startEvent'[u] = startEvent[u]
    BY <1>1, Domains DEF Wake, Goto
  <2>3. Beginning'
    BY <2>1, <2>2 DEF Beginning, NotYetStopped
  <2>4. NotYetStopped'
    BY <2>1, <2>2 DEF NotYetStopped, AtWork
  <2>5. Created'
    BY <2>1, <2>2 DEF Created, Asleep, Counting
  <2> QED
    BY <2>3, <2>4, <2>5
<1>2. CASE ~ Wake(t)
  <2>1. CASE Compare(t)
    <3>1. pc[t] = "compare" /\ pc'[t] = "idle" /\ UNCHANGED <<main, stop, startEvent, readEvent, numStartedThreads, written>>
      BY <2>1, Moves DEF Compare, threadVars, readVars
    <3>2. \A u \in Threads \ {t} : pc'[u] = pc[u]
      BY <2>1, Domains DEF Compare, Goto
    <3>3. Beginning'
      BY <3>1, <3>2 DEF Beginning
    <3>4. NotYetStopped'
      BY <3>1, <3>2 DEF NotYetStopped, AtWork
    <3>5. Created'
      BY <3>1, <3>2 DEF Created, Asleep, Counting
    <3> QED
      BY <3>3, <3>4, <3>5
  <2>2. CASE StartThread(t)
    <3>1. /\ pc[t] = "start" /\ numStartedThreads \in Threads /\ t < numStartedThreads
          /\ pc[numStartedThreads] = "none"
          /\ UNCHANGED <<main, stop, readEvent, finishedEvent, numStartedThreads, written>>
      BY <2>2, CreatedIsNew, EventsMove DEF StartThread, readVars, countVars
    <3>2. numStartedThreads # t
      BY <3>1, Parameters
    <3>3. /\ pc'[t] = "count" /\ pc'[numStartedThreads] = "idle" /\ startEvent'[numStartedThreads]
          /\ \A u \in Threads \ {t, numStartedThreads} : pc'[u] = pc[u]
          /\ \A u \in Threads \ {numStartedThreads} : startEvent'[u] = startEvent[u]
      BY <2>2, <3>1, <3>2, Domains DEF StartThread
    <3>4. main \in {"signal", "wait"} /\ ~ finishedEvent /\ \A u \in Threads : ~ stop[u]
      BY <3>1, AtWorkNotThrough DEF AtWork
    <3>5. main = "wait"
      BY <3>1, <3>4 DEF Beginning
    <3>6. Beginning'
      BY <3>1, <3>5 DEF Beginning
    <3>7. NotYetStopped'
      BY <3>1, <3>2, <3>3, <3>4 DEF NotYetStopped, AtWork
    <3>8. Created'
      BY <3>1, <3>2, <3>3, <3>4 DEF Created, Asleep, Counting
    <3> QED
      BY <3>6, <3>7, <3>8
  <2>3. CASE CountThread(t)
    <3>1. /\ pc[t] = "count" /\ pc'[t] = "buffer" /\ numStartedThreads' = numStartedThreads + 1
          /\ UNCHANGED <<main, stop, startEvent, finishedEvent>> /\ t < numStartedThreads
      BY <2>3, CreatedIsNew, EventsMove, Moves DEF CountThread, threadVars
    <3>2. \A u \in Threads \ {t} : pc'[u] = pc[u]
      BY <2>3, Domains DEF CountThread, Goto
    <3>3. main = "wait"
      BY <3>1, AtWorkNotThrough DEF AtWork, Beginning
    <3>4. Beginning'
      BY <3>1, <3>3 DEF Beginning
    <3>5. NotYetStopped'
      BY <3>1, <3>2 DEF NotYetStopped, AtWork
    <3>6. Created'
      BY <3>1, <3>2, Domains, Parameters DEF Created, Asleep, Counting
    <3> QED
      BY <3>4, <3>5, <3>6
  <2>4. CASE ~ Wake(t) /\ ~ Compare(t) /\ ~ StartThread(t) /\ ~ CountThread(t)
    <3>1. AtWork(t) /\ pc'[t] \notin {"none", "idle", "ended", "count"} /\ pc[t] # "count"
      BY <2>4, Moves DEF AtWork, Thread
    <3>2. /\ \A u \in Threads \ {t} : pc'[u] = pc[u]
          /\ UNCHANGED <<stop, startEvent, main, numStartedThreads, finishedEvent>>
      <4>1. UNCHANGED startEvent
        BY <2>4 DEF Thread, CountOut, StopReading, ReadNothing, ReadBlock, ReadFails,
                TakeBlock, StartThreadFails, TakeBuffer, Code, CodeFails, Turn, Write,
                WriteFails, Release, WriteNext, WriteLast, threadVars
      <4> QED
        BY <2>4, <4>1, OthersStay, EventsMove
    <3>3. main = "wait" \/ pc[t] = "read"
      BY <3>1, AtWorkNotThrough DEF AtWork, Beginning
    <3>4. CASE main = "wait"
      <4>1. Beginning'
        BY <3>2, <3>4 DEF Beginning
      <4>2. NotYetStopped'
        BY <3>1, <3>2 DEF NotYetStopped, AtWork
      <4>3. Created'
        <5>1. CASE t < numStartedThreads
          BY <3>1, <3>2, <5>1, Domains, Parameters, SMTT(30) DEF Created, Asleep, Counting
        <5>2. CASE t >= numStartedThreads
          <6>1. pc[t] = "read" /\ \E u \in Threads : Counting(u)
            BY <3>1, <5>2 DEF Created, AtWork, Asleep
          <6>2. ~ readEvent
            BY <6>1 DEF OneReader, HasBaton, Counting
          <6> QED
            BY <2>4, <6>1, <6>2, Moves DEF Thread, StopReading, ReadNothing, ReadBlock, ReadFails, TakeBaton
        <5> QED
          BY <5>1, <5>2, Domains, Parameters
      <4> QED
        BY <4>1, <4>2, <4>3
    <3>5. CASE main # "wait"
      <4>1. ~ readEvent /\ pc[t] = "read"
        BY <3>1, <3>3, <3>5, AtWorkNotThrough DEF Beginning
      <4> QED
        BY <2>4, <4>1, Moves DEF Thread, StopReading, ReadNothing, ReadBlock, ReadFails, TakeBaton
    <3> QED
      BY <3>4, <3>5
  <2> QED
    BY <1>2, <2>1, <2>2, <2>3, <2>4
<1> QED
  BY <1>1, <1>2

\* Whoever left had been counted before.
LEMMA LeftAreStarted ==
  ASSUME IInv
  PROVE  /\ IsFiniteSet(Left) /\ Cardinality(Left) \in Nat
         /\ Left \subseteq 0..(numStartedThreads - 1) /\ Left \subseteq Threads
<1> USE DEF IInv
<1>1. Left \subseteq Threads
  BY DEF Left
<1>2. IsFiniteSet(Left) /\ Cardinality(Left) \in Nat
  BY <1>1, FiniteThings, FS_Subset, FS_CardinalityType
<1>3. ASSUME NEW u \in Left PROVE u \in 0..(numStartedThreads - 1)
  <2>1. u \in Threads /\ Out(u)
    BY <1>3 DEF Left
  <2>2. ~ (u >= numStartedThreads)
    BY <2>1 DEF Out, Created, Asleep
  <2> QED
    BY <2>1, <2>2, Parameters, Domains
<1> QED
  BY <1>1, <1>2, <1>3

LEMMA CountOfThread ==
  ASSUME IInv, NEW t \in Threads, Thread(t)
  PROVE  LeftCounted' /\ numFinishedThreads' \in 0..NumThreads
<1> USE DEF IInv
<1>1. CASE CountOut(t)
  <2>1. /\ pc[t] = "return" /\ pc'[t] = "compare" /\ me'[t].numFinished = numFinishedThreads + 1
        /\ numFinishedThreads' = numFinishedThreads + 1 /\ UNCHANGED <<startEvent, stop>>
    BY <1>1, Moves, LocalsRead DEF CountOut, threadVars
  <2>2. \A u \in Threads \ {t} : pc'[u] = pc[u] /\ me'[u] = me[u]
    BY <1>1, Domains DEF CountOut, Goto
  <2>3. Left' = Left \cup {t} /\ t \notin Left
    BY <2>1, <2>2 DEF Left, Out, Asleep
  <2>4. Cardinality(Left') = Cardinality(Left) + 1
    BY <2>3, LeftAreStarted, FS_AddElement
  <2>5. LeftCounted'
    <3>1. numFinishedThreads' = Cardinality(Left')
      BY <2>1, <2>4 DEF LeftCounted
    <3>2. ASSUME NEW u \in Threads, pc'[u] = "compare"
          PROVE  me'[u].numFinished <= numFinishedThreads'
      <4>1. CASE u = t
        BY <2>1, <4>1, Domains
      <4>2. CASE u # t
        <5>1. me[u].numFinished <= numFinishedThreads /\ me'[u] = me[u]
          BY <2>2, <3>2, <4>2 DEF LeftCounted
        <5> QED
          BY <2>1, <5>1, Domains, LocalsOf
      <4> QED
        BY <4>1, <4>2
    <3> QED
      BY <3>1, <3>2 DEF LeftCounted
  <2>6. Left' \subseteq Threads
    BY <2>3, LeftAreStarted
  <2>7. numFinishedThreads' <= NumThreads
    BY <2>1, <2>4, <2>6, FiniteThings, FS_Subset DEF LeftCounted
  <2> QED
    BY <2>1, <2>5, <2>7, Domains, Parameters
<1>2. CASE ~ CountOut(t)
  <2>1. UNCHANGED numFinishedThreads
    BY <1>2, EventsMove
  <2>2. \A u \in Threads : Out(u)' <=> Out(u)
    <3>1. CASE Wake(t)
      <4>1. /\ pc[t] = "idle" /\ startEvent[t] /\ pc'[t] = (IF stop[t] THEN "ended" ELSE "read")
            /\ UNCHANGED stop
        BY <3>1, Moves, EventsMove
      <4>2. \A u \in Threads \ {t} : pc'[u] = pc[u] /\ startEvent'[u] = startEvent[u]
        BY <3>1, Domains DEF Wake, Goto
      <4> QED
        BY <4>1, <4>2 DEF Out, Asleep
    <3>2. CASE StartThread(t)
      <4>1. pc[t] = "start" /\ pc[numStartedThreads] = "none" /\ numStartedThreads \in Threads
              /\ \A u \in Threads : ~ stop[u]
        BY <3>2, CreatedIsNew, AtWorkNotThrough DEF StartThread, AtWork
      <4>2. /\ pc'[t] = "count" /\ pc'[numStartedThreads] = "idle" /\ startEvent'[numStartedThreads]
            /\ UNCHANGED stop
            /\ \A u \in Threads \ {t, numStartedThreads} : pc'[u] = pc[u] /\ startEvent'[u] = startEvent[u]
        BY <3>2, <4>1, Domains DEF StartThread
      <4> QED
        BY <4>1, <4>2 DEF Out, Asleep
    <3>3. CASE Compare(t)
      <4>1. pc[t] = "compare" /\ pc'[t] = "idle" /\ UNCHANGED <<stop, startEvent>>
        BY <3>3, Moves DEF Compare, threadVars
      <4>2. \A u \in Threads \ {t} : pc'[u] = pc[u]
        BY <3>3, Domains DEF Compare, Goto
      <4> QED
        BY <4>1, <4>2 DEF Out, Asleep, NotYetStopped
    <3>4. CASE ~ Wake(t) /\ ~ StartThread(t) /\ ~ Compare(t)
      <4>1. AtWork(t) /\ pc'[t] \notin {"none", "idle", "compare", "ended"}
        BY <1>2, <3>4, Moves DEF AtWork, Thread
      <4>2. /\ \A u \in Threads \ {t} : pc'[u] = pc[u] /\ startEvent'[u] = startEvent[u]
            /\ UNCHANGED stop
        BY <3>4, OthersStay, EventsMove
      <4> QED
        BY <4>1, <4>2 DEF Out, Asleep, AtWork
    <3> QED
      BY <3>1, <3>2, <3>3, <3>4
  <2>3. Left' = Left
    BY <2>2 DEF Left
  <2>4. \A u \in Threads : pc'[u] = "compare" => pc[u] = "compare" /\ me'[u] = me[u]
    <3>1. \A u \in Threads \ {t} : pc'[u] = "compare" => pc[u] = "compare" /\ me'[u] = me[u]
      BY OthersStay
    <3>2. pc'[t] # "compare"
      <4>1. CASE StartThread(t)
        BY <4>1, CreatedIsNew, Parameters, Moves DEF StartThread
      <4>2. CASE ~ StartThread(t)
        BY <1>2, <4>2, Moves DEF Thread
      <4> QED
        BY <4>1, <4>2
    <3> QED
      BY <3>1, <3>2
  <2> QED
    BY <2>1, <2>3, <2>4, Domains DEF LeftCounted
<1> QED
  BY <1>1, <1>2

LEMMA AllLeftOfThread ==
  ASSUME IInv, NEW t \in Threads, Thread(t)
  PROVE  AllLeft'
<1> USE DEF IInv
<1>1. CASE AtWork(t) /\ ~ Compare(t)
  <2>1. ~ finishedEvent' /\ main' \notin {"free", "done"}
    BY <1>1, AtWorkNotThrough, EventsMove
  <2> QED
    BY <2>1 DEF AllLeft
<1>2. CASE Wake(t)
  <2>1. /\ pc[t] = "idle" /\ startEvent[t] /\ pc'[t] = (IF stop[t] THEN "ended" ELSE "read")
        /\ UNCHANGED <<stop, finishedEvent, main>>
    BY <1>2, Moves, EventsMove DEF Compare
  <2>2. \A u \in Threads \ {t} : pc'[u] = pc[u] /\ startEvent'[u] = startEvent[u]
    BY <1>2, Domains DEF Wake, Goto
  <2> QED
    BY <2>1, <2>2 DEF AllLeft, Out, Asleep
<1>3. CASE Compare(t)
  <2>1. /\ pc[t] = "compare" /\ pc'[t] = "idle" /\ UNCHANGED <<stop, startEvent, main>>
        /\ finishedEvent' = (finishedEvent \/ me[t].numFinished = numStartedThreads)
    BY <1>3, Moves DEF Compare, threadVars
  <2>2. \A u \in Threads \ {t} : pc'[u] = pc[u]
    BY <1>3, Domains DEF Compare, Goto
  <2>3. \A u \in Threads : pc[u] = "none" \/ Out(u) => pc'[u] = "none" \/ Out(u)'
    BY <2>1, <2>2 DEF Out, Asleep, NotYetStopped
  <2>4. CASE me[t].numFinished = numStartedThreads
    <3> DEFINE Started == 0..(numStartedThreads - 1)
    <3>1. numStartedThreads <= Cardinality(Left)
      BY <2>1, <2>4, Domains, Parameters DEF LeftCounted
    <3>2. IsFiniteSet(Started) /\ Cardinality(Started) = numStartedThreads
      <4>1. numStartedThreads \in Nat /\ numStartedThreads - 1 \in Int /\ 0 \in Int
        BY Domains, Parameters
      <4> QED
        BY <4>1, FS_Interval
    <3>3. Left = Started
      <4>1. Left \subseteq Started /\ Cardinality(Left) \in Nat
        BY LeftAreStarted
      <4> HIDE DEF Started
      <4>2. Cardinality(Left) <= Cardinality(Started)
              /\ (Cardinality(Left) = Cardinality(Started) => Left = Started)
        BY <3>2, <4>1, FS_Subset
      <4> QED
        BY <3>1, <3>2, <4>1, <4>2, Domains, Parameters
    <3>4. \A u \in Threads : u < numStartedThreads => Out(u)
      BY <3>3, Parameters, Domains DEF Left
    <3>5. ASSUME NEW u \in Threads, u >= numStartedThreads, pc[u] # "none" PROVE FALSE
      <4>1. PICK v \in Threads : Counting(v)
        BY <3>5 DEF Created
      <4>2. ~ (v < numStartedThreads)
        BY <3>4, <4>1 DEF Out, Counting
      <4>3. ~ (v >= numStartedThreads)
        BY <4>1 DEF Created, Counting, Asleep
      <4> QED
        BY <4>2, <4>3, Parameters, Domains
    <3>6. \A u \in Threads : pc[u] = "none" \/ Out(u)
      BY <3>4, <3>5, Parameters, Domains
    <3> QED
      BY <2>3, <3>6 DEF AllLeft
  <2>5. CASE me[t].numFinished # numStartedThreads
    BY <2>1, <2>3, <2>5 DEF AllLeft
  <2> QED
    BY <2>4, <2>5
<1> QED
  BY <1>1, <1>2, <1>3, Moves DEF Thread, AtWork, StartThread

-----------------------------------------------------------------------------
(* The window of places. *)

\* The steps that leave every block at its place.
Stays(t) ==
    \/ Wake(t) \/ CountOut(t) \/ Compare(t) \/ StopReading(t)
    \/ ReadNothing(t) \/ ReadBlock(t) \/ ReadFails(t)
    \/ StartThread(t) \/ CountThread(t) \/ StartThreadFails(t)
    \/ TakeBuffer(t) \/ Code(t) \/ CodeFails(t) \/ Write(t) \/ WriteFails(t)
    \/ WriteNext(t) \/ WriteLast(t)

LEMMA StartNotItself ==
  ASSUME IInv, NEW t \in Threads, StartThread(t)
  PROVE  /\ pc[t] = "start" /\ pc'[t] = "count" /\ t # numStartedThreads
         /\ numStartedThreads \in Threads
         /\ pc[numStartedThreads] = "none" /\ pc'[numStartedThreads] = "idle"
         /\ UNCHANGED me
         /\ \A u \in Threads \ {t, numStartedThreads} : pc'[u] = pc[u]
<1> USE DEF IInv
<1>1. pc[t] = "start"
  BY DEF StartThread
<1>2. pc[numStartedThreads] = "none" /\ t # numStartedThreads /\ numStartedThreads \in Threads
  BY <1>1, CreatedIsNew, Parameters
<1> QED
  BY <1>1, <1>2, Domains DEF StartThread

LEMMA StayersStay ==
  ASSUME IInv, NEW t \in Threads, Stays(t)
  PROVE  /\ \A u \in Threads : \A b \in Blocks : AtBlock(u, b)' <=> AtBlock(u, b)
         /\ \A u \in Threads : \A b \in Blocks : AtWrite(u, b)' <=> AtWrite(u, b)
         /\ UNCHANGED <<ReadyBlocks, writeIndex, blockIndex>>
<1> USE DEF IInv, AtBlock, AtWrite, Writing, writeVars, readVars
<1>1. CASE Wake(t) \/ CountOut(t) \/ Compare(t) \/ StopReading(t)
  BY <1>1, Moves, OthersStay DEF Wake, CountOut, Compare, StopReading, Thread
<1>2. CASE ReadNothing(t) \/ ReadBlock(t) \/ ReadFails(t)
  <2>1. UNCHANGED <<ReadyBlocks, writeIndex, blockIndex>>
    BY <1>2 DEF ReadNothing, ReadBlock, ReadFails
  <2> QED
    BY <1>2, <2>1, Moves, OthersStay DEF Thread
<1>3. CASE StartThread(t)
  <2>1. UNCHANGED <<ReadyBlocks, writeIndex, blockIndex>>
    BY <1>3 DEF StartThread
  <2> QED
    BY <1>3, <2>1, StartNotItself
<1>4. CASE CountThread(t)
  BY <1>4, Moves, OthersStay, SameLocals DEF CountThread, Thread
<1>5. CASE StartThreadFails(t) \/ TakeBuffer(t)
  <2>1. me'[t].bi = me[t].bi
    BY <1>5, LocalsCode
  <2>2. \A u \in Threads \ {t} : pc'[u] = pc[u] /\ me'[u] = me[u]
    BY <1>5, Domains DEF StartThreadFails, TakeBuffer, Goto
  <2>3. UNCHANGED <<ReadyBlocks, writeIndex, blockIndex>>
    BY <1>5 DEF StartThreadFails, TakeBuffer
  <2>4. pc[t] \in {"start", "buffer"} /\ pc'[t] \in {"turn", "code"}
    BY <1>5, Moves
  <2> QED
    BY <2>1, <2>2, <2>3, <2>4
<1>6. CASE Code(t) \/ CodeFails(t)
  <2>1. me'[t].bi = me[t].bi
    BY <1>6, LocalsCode, SameLocals
  <2> QED
    BY <1>6, <2>1, Moves, OthersStay DEF Code, CodeFails, Thread
<1>7. CASE Write(t) \/ WriteFails(t)
  <2>1. me'[t].wi = me[t].wi
    BY <1>7, LocalsWrite, SameLocals
  <2> QED
    BY <1>7, <2>1, Moves, OthersStay DEF Write, WriteFails, Thread
<1>8. CASE WriteNext(t)
  <2>1. me'[t].wi = me[t].wi /\ pc[t] = "next" /\ pc'[t] = "write"
    BY <1>8, LocalsWrite, Moves
  <2>2. \A u \in Threads \ {t} : pc'[u] = pc[u] /\ me'[u] = me[u]
    BY <1>8, Domains DEF WriteNext, Goto
  <2>3. UNCHANGED <<ReadyBlocks, writeIndex, blockIndex>>
    BY <1>8 DEF WriteNext
  <2> QED
    BY <2>1, <2>2, <2>3
<1>9. CASE WriteLast(t)
  BY <1>9, Moves, OthersStay, SameLocals DEF WriteLast, Thread
<1> QED
  BY <1>1, <1>2, <1>3, <1>4, <1>5, <1>6, <1>7, <1>8, <1>9 DEF Stays

LEMMA GivingBackMoves ==
  ASSUME IInv, NEW t \in Threads, Thread(t)
  PROVE  /\ WriteNext(t) \/ WriteLast(t) =>
              Cardinality(GivingBack') = Cardinality(GivingBack) - 1
                /\ blocksSemaphore' = blocksSemaphore + 1
         /\ Release(t) =>
              Cardinality(GivingBack') = Cardinality(GivingBack) + 1
                /\ UNCHANGED blocksSemaphore
         /\ ~ WriteNext(t) /\ ~ WriteLast(t) /\ ~ Release(t) =>
              GivingBack' = GivingBack
                /\ blocksSemaphore' = IF TakeBlock(t) THEN blocksSemaphore - 1 ELSE blocksSemaphore
<1> USE DEF IInv
<1>1. CASE WriteNext(t) \/ WriteLast(t)
  <2>1. GivingBack' = GivingBack \ {t} /\ t \in GivingBack
    BY <1>1, Moves, OthersStay DEF GivingBack, StartThread, WriteNext, WriteLast
  <2>2. Cardinality(GivingBack') = Cardinality(GivingBack) - 1
    BY <2>1, GivingCounted, FS_RemoveElement
  <2> QED
    BY <1>1, <2>2 DEF WriteNext, WriteLast, Release, FreePlace
<1>2. CASE Release(t)
  <2>1. GivingBack' = GivingBack \cup {t} /\ t \notin GivingBack
    BY <1>2, Moves, OthersStay DEF GivingBack, StartThread
  <2>2. Cardinality(GivingBack') = Cardinality(GivingBack) + 1
    BY <2>1, GivingCounted, FS_AddElement
  <2> QED
    BY <1>2, <2>2 DEF WriteNext, WriteLast, Release
<1>3. CASE ~ WriteNext(t) /\ ~ WriteLast(t) /\ ~ Release(t)
  <2>1. CASE StartThread(t)
    <3>1. GivingBack' = GivingBack
      BY <2>1, StartNotItself DEF GivingBack
    <3> QED
      BY <1>3, <2>1, <3>1, Moves, StartNotItself DEF StartThread, TakeBlock
  <2>2. CASE ~ StartThread(t)
    <3>1. pc[t] \notin {"next", "last"} /\ pc'[t] \notin {"next", "last"}
      BY <1>3, <2>2, Moves DEF Thread
    <3>2. GivingBack' = GivingBack
      BY <2>2, <3>1, OthersStay DEF GivingBack
    <3>3. blocksSemaphore' = IF TakeBlock(t) THEN blocksSemaphore - 1 ELSE blocksSemaphore
      <4>1. CASE TakeBlock(t)
        BY <4>1 DEF TakeBlock
      <4>2. CASE ~ TakeBlock(t)
        BY <1>3, <2>2, <4>2 DEF Thread, Wake, CountOut, Compare, StopReading, ReadNothing, ReadBlock,
             ReadFails, CountThread, StartThreadFails, TakeBuffer, Code, CodeFails, Turn, Write,
             WriteFails
      <4> QED
        BY <4>1, <4>2
    <3> QED
      BY <1>3, <3>2, <3>3
  <2> QED
    BY <2>1, <2>2
<1> QED
  BY <1>1, <1>2, <1>3

LEMMA PlacesOfStays ==
  ASSUME IInv, NEW t \in Threads, Stays(t)
  PROVE  PlacesApart' /\ Window'
<1> USE DEF IInv
<1>1. Thread(t) /\ ~ Release(t) /\ ~ TakeBlock(t)
  BY Moves, StartNotItself DEF Stays, Thread
<1>2. PlacesApart'
  BY StayersStay, Domains DEF PlacesApart
<1>3. Size' = Size
  BY <1>1, GivingBackMoves, GivingCounted, Domains, Parameters, SMTT(30) DEF Size
<1>4. \A b \in Blocks : (Taken(b)' <=> Taken(b)) /\ (IsTurn(b)' <=> IsTurn(b))
  BY StayersStay DEF Taken, IsTurn
<1>5. UNCHANGED blockIndex
  BY StayersStay
<1> QED
  BY <1>2, <1>3, <1>4, <1>5 DEF Window, Dist

LEMMA PlacesOfTakeBlock ==
  ASSUME IInv, NEW t \in Threads, TakeBlock(t)
  PROVE  PlacesApart' /\ Window'
<1> USE DEF IInv
<1>1. blocksSemaphore > 0 /\ blockIndex' = NextBlock(blockIndex) /\ UNCHANGED <<ReadyBlocks, writeIndex>>
  BY DEF TakeBlock, writeVars
<1>2. ~ Taken(blockIndex) /\ Size < numBlocksMax /\ Size \in Nat
  BY <1>1, FreshPlace, Parameters DEF Window
<1>3. /\ \A u \in Threads : \A b \in Blocks :
            AtBlock(u, b)' <=> AtBlock(u, b) \/ (u = t /\ b = blockIndex)
      /\ \A u \in Threads : \A b \in Blocks : AtWrite(u, b)' <=> AtWrite(u, b)
  <2>1. \A u \in Threads \ {t} : pc'[u] = pc[u] /\ me'[u] = me[u]
    BY Domains DEF TakeBlock, ToBuffer, Goto
  <2>2. pc[t] = "take" /\ pc'[t] \in {"start", "buffer", "turn"} /\ me'[t].bi = blockIndex
    BY Moves, LocalsTake
  <2> QED
    BY <2>1, <2>2 DEF AtBlock, AtWrite, Writing
<1>4. PlacesApart'
  BY <1>1, <1>2, <1>3, Domains DEF PlacesApart, Taken
<1>5. Size' = Size + 1
  <2>1. GivingBack' = GivingBack /\ blocksSemaphore' = blocksSemaphore - 1
    BY GivingBackMoves, Moves DEF Thread, WriteNext, WriteLast, Release
  <2> QED
    BY <2>1, GivingCounted, Domains, Parameters DEF Size
<1>6. \A b \in Blocks : (Taken(b)' <=> Taken(b) \/ b = blockIndex) /\ (IsTurn(b)' <=> IsTurn(b))
  BY <1>1, <1>3 DEF Taken, IsTurn
<1>7. ASSUME NEW a \in Blocks, IsTurn(a)'
      PROVE  /\ \A b \in Blocks : Taken(b)' <=> Dist(a, b) < Size'
             /\ blockIndex' = IF a + Size' >= numBlocksMax THEN a + Size' - numBlocksMax ELSE a + Size'
  <2>1. /\ \A b \in Blocks : Taken(b) <=> Dist(a, b) < Size
        /\ blockIndex = IF a + Size >= numBlocksMax THEN a + Size - numBlocksMax ELSE a + Size
    BY <1>6, <1>7 DEF Window
  <2>2. \A b \in Blocks : Dist(a, b) = Size <=> b = blockIndex
    BY <1>2, <2>1, Parameters DEF Dist
  <2>3. \A b \in Blocks : Dist(a, b) \in Nat
    BY Parameters DEF Dist
  <2>4. blockIndex' = IF a + Size' >= numBlocksMax THEN a + Size' - numBlocksMax ELSE a + Size'
    BY <1>1, <1>2, <1>5, <2>1, Parameters DEF NextBlock
  <2> QED
    BY <1>2, <1>5, <1>6, <2>1, <2>2, <2>3, <2>4
<1> QED
  BY <1>2, <1>4, <1>5, <1>7, Parameters DEF Window, Dist

\* A thread leaves its block as ready: the place stays taken.
LEMMA PlacesOfReady ==
  ASSUME IInv, NEW t \in Threads, Turn(t), writeIndex # me[t].bi
  PROVE  /\ PlacesApart' /\ Window'
         /\ \A u \in Threads : \A b \in Blocks : AtBlock(u, b)' <=> AtBlock(u, b) /\ u # t
         /\ \A u \in Threads : \A b \in Blocks : AtWrite(u, b)' <=> AtWrite(u, b)
         /\ ReadyBlocks' = ReadyBlocks \cup {me[t].bi} /\ UNCHANGED <<writeIndex, blocks>>
         /\ AtBlock(t, me[t].bi) /\ me[t].bi \in Blocks
         /\ \A a \in Blocks : IsTurn(a)' <=> IsTurn(a)
         /\ Size' = Size
<1> USE DEF IInv
<1>1. /\ ReadyBlocks' = ReadyBlocks \cup {me[t].bi} /\ UNCHANGED <<writeIndex, me, blocks, blockIndex>>
      /\ pc[t] = "turn" /\ pc'[t] \in {"read", "return"}
      /\ \A u \in Threads \ {t} : pc'[u] = pc[u]
  BY Domains DEF Turn, Goto, readVars
<1>2. /\ \A u \in Threads : \A b \in Blocks : AtBlock(u, b)' <=> AtBlock(u, b) /\ u # t
      /\ \A u \in Threads : \A b \in Blocks : AtWrite(u, b)' <=> AtWrite(u, b)
  BY <1>1 DEF AtBlock, AtWrite, Writing
<1>3. AtBlock(t, me[t].bi) /\ me[t].bi \in Blocks
  BY <1>1, LocalsOf DEF AtBlock
<1>4. PlacesApart'
  BY <1>1, <1>2, <1>3, Domains DEF PlacesApart
<1>5. Size' = Size
  BY <1>1, GivingBackMoves, Moves DEF Size, Thread, WriteNext, WriteLast, Release, TakeBlock
<1>6. \A b \in Blocks : (Taken(b)' <=> Taken(b)) /\ (IsTurn(b)' <=> IsTurn(b))
  <2>1. \A b \in Blocks : AtBlock(t, b) <=> b = me[t].bi
    BY <1>1 DEF AtBlock
  <2> QED
    BY <1>1, <1>2, <1>3, <2>1 DEF Taken, IsTurn
<1>7. Window'
  BY <1>1, <1>5, <1>6 DEF Window, Dist
<1> QED
  BY <1>1, <1>2, <1>3, <1>4, <1>5, <1>6, <1>7

\* A thread becomes the writer of its own block.
LEMMA PlacesOfWriter ==
  ASSUME IInv, NEW t \in Threads, Turn(t), writeIndex = me[t].bi
  PROVE  /\ PlacesApart' /\ Window'
         /\ \A u \in Threads : \A b \in Blocks : AtBlock(u, b)' <=> AtBlock(u, b) /\ u # t
         /\ \A u \in Threads : \A b \in Blocks :
              AtWrite(u, b)' <=> AtWrite(u, b) \/ (u = t /\ b = me[t].bi)
         /\ UNCHANGED <<ReadyBlocks, blocks>>
         /\ AtBlock(t, me[t].bi) /\ me[t].bi \in Blocks
         /\ \A a \in Blocks : IsTurn(a)' <=> IsTurn(a)
         /\ Size' = Size
<1> USE DEF IInv
<1>1. /\ UNCHANGED <<ReadyBlocks, blocks, blockIndex>> /\ writeIndex' = NoBlock
      /\ pc[t] = "turn" /\ pc'[t] = "write" /\ me'[t].wi = me[t].bi
      /\ \A u \in Threads \ {t} : pc'[u] = pc[u] /\ me'[u] = me[u]
  BY Domains, LocalsWrite DEF Turn, Goto, readVars
<1>2. /\ \A u \in Threads : \A b \in Blocks : AtBlock(u, b)' <=> AtBlock(u, b) /\ u # t
      /\ \A u \in Threads : \A b \in Blocks :
              AtWrite(u, b)' <=> AtWrite(u, b) \/ (u = t /\ b = me[t].bi)
  BY <1>1 DEF AtBlock, AtWrite, Writing
<1>3. AtBlock(t, me[t].bi) /\ me[t].bi \in Blocks
  BY <1>1, LocalsOf DEF AtBlock
<1>4. PlacesApart'
  BY <1>1, <1>2, <1>3, Domains, Parameters, SMTT(30) DEF PlacesApart
<1>5. Size' = Size
  BY <1>1, GivingBackMoves, Moves DEF Size, Thread, WriteNext, WriteLast, Release, TakeBlock
<1>6. \A b \in Blocks : (Taken(b)' <=> Taken(b))
  <2>1. \A b \in Blocks : AtBlock(t, b) <=> b = me[t].bi
    BY <1>1 DEF AtBlock
  <2> QED
    BY <1>1, <1>2, <1>3, <2>1 DEF Taken
<1>7. \A b \in Blocks : IsTurn(b)' <=> IsTurn(b)
  <2>1. writeIndex # NoBlock
    BY <1>3, Parameters
  <2>2. \A u \in Threads, b \in Blocks : ~ AtWrite(u, b)
    BY <2>1 DEF OneWriter, AtWrite
  <2> QED
    BY <1>1, <1>2, <1>3, <2>2, Parameters DEF IsTurn
<1>8. Window'
  BY <1>1, <1>5, <1>6, <1>7 DEF Window, Dist
<1> QED
  BY <1>1, <1>2, <1>3, <1>4, <1>5, <1>6, <1>7, <1>8

LEMMA DistOfNext ==
  ASSUME NEW a \in Blocks
  PROVE  /\ \A b \in Blocks \ {a} : Dist(NextBlock(a), b) = Dist(a, b) - 1
         /\ Dist(NextBlock(a), a) = numBlocksMax - 1
<1>1. CASE a + 1 >= numBlocksMax
  BY <1>1, Parameters DEF Dist, NextBlock
<1>2. CASE ~ (a + 1 >= numBlocksMax)
  BY <1>2, Parameters DEF Dist, NextBlock
<1> QED
  BY <1>1, <1>2

\* The writer gives back its place, and the turn moves on to the next one.
LEMMA PlacesOfRelease ==
  ASSUME IInv, NEW t \in Threads, Release(t)
  PROVE  /\ PlacesApart' /\ Window'
         /\ \A u \in Threads : \A b \in Blocks : AtBlock(u, b)' <=> AtBlock(u, b)
         /\ \A u \in Threads : \A b \in Blocks :
              AtWrite(u, b)' <=> u = t /\ b = NextBlock(me[t].wi) /\ b \in ReadyBlocks
         /\ ReadyBlocks' = ReadyBlocks \ {NextBlock(me[t].wi)} /\ UNCHANGED blocks
         /\ IsTurn(me[t].wi) /\ me[t].wi \in Blocks /\ NextBlock(me[t].wi) \in Blocks
         /\ \A a \in Blocks : IsTurn(a)' <=> a = NextBlock(me[t].wi)
         /\ Size' = Size - 1
         /\ \A b \in Blocks : Taken(b)' <=> Taken(b) /\ b # me[t].wi
         /\ \A b \in Blocks \ {me[t].wi} : Dist(NextBlock(me[t].wi), b) = Dist(me[t].wi, b) - 1
<1> USE DEF IInv
<1> DEFINE wi == me[t].wi
           next == NextBlock(me[t].wi)
<1>1. /\ UNCHANGED <<blocks, blockIndex>> /\ me'[t].wi = next
      /\ pc[t] = "release" /\ wi \in Blocks /\ next \in Blocks
      /\ \A u \in Threads \ {t} : pc'[u] = pc[u] /\ me'[u] = me[u]
  BY Domains, LocalsWrite, LocalsOf, NextBlockTyped DEF Release, Goto, readVars
<1>2. AtWrite(t, wi) /\ IsTurn(wi) /\ writeIndex = NoBlock
        /\ \A u \in Threads \ {t} : ~ Writing(u)
  BY <1>1 DEF AtWrite, IsTurn, Writing, OneWriter
<1>3. /\ next \in ReadyBlocks => pc'[t] = "next" /\ writeIndex' = NoBlock
      /\ next \notin ReadyBlocks => pc'[t] = "last" /\ writeIndex' = next
      /\ ReadyBlocks' = ReadyBlocks \ {next}
  BY <1>2, Domains DEF Release, Goto
<1> HIDE DEF next
<1>4. /\ \A u \in Threads : \A b \in Blocks : AtBlock(u, b)' <=> AtBlock(u, b)
      /\ \A u \in Threads : \A b \in Blocks : AtWrite(u, b)' <=> u = t /\ b = next /\ b \in ReadyBlocks
  BY <1>1, <1>2, <1>3 DEF AtBlock, AtWrite, Writing
<1>5. PlacesApart'
  BY <1>1, <1>3, <1>4, Domains, Parameters, SMTT(30) DEF PlacesApart
<1>6. \A a \in Blocks : IsTurn(a)' <=> a = next
  BY <1>1, <1>3, <1>4, Parameters DEF IsTurn
<1>7. Size' = Size - 1
  BY GivingBackMoves, GivingCounted, Domains, Parameters DEF Size, Thread
<1>8. \A b \in Blocks : Taken(b)' <=> Taken(b) /\ b # wi
  <2>1. ASSUME NEW b \in Blocks, b = wi PROVE ~ Taken(b)'
    <3>1. b # next
      BY <1>1, <2>1, Parameters DEF next, NextBlock
    <3>2. \A u \in Threads : ~ AtBlock(u, b)' /\ ~ AtWrite(u, b)'
      BY <1>1, <1>2, <1>4, <2>1, <3>1 DEF PlacesApart
    <3>3. b \notin ReadyBlocks'
      BY <1>2, <1>3, <2>1 DEF PlacesApart
    <3> QED
      BY <3>2, <3>3 DEF Taken
  <2>2. ASSUME NEW b \in Blocks, b # wi PROVE Taken(b)' <=> Taken(b)
    <3>1. \A u \in Threads : ~ AtWrite(u, b)
      BY <1>2, <2>2 DEF AtWrite, Writing
    <3> QED
      BY <1>3, <1>4, <2>2, <3>1 DEF Taken
  <2> QED
    BY <2>1, <2>2, <1>2 DEF Taken
<1>9. \A b \in Blocks \ {wi} : Dist(next, b) = Dist(wi, b) - 1
  BY <1>1, DistOfNext DEF next
<1>10. Window'
  <2>1. /\ \A b \in Blocks : Taken(b) <=> Dist(wi, b) < Size
        /\ blockIndex = IF wi + Size >= numBlocksMax THEN wi + Size - numBlocksMax ELSE wi + Size
        /\ Size \in 0..numBlocksMax
    BY <1>1, <1>2 DEF Window
  <2>2. Size >= 1
    <3>1. Taken(wi)
      BY <1>2 DEF Taken
    <3>2. Dist(wi, wi) = 0
      BY <1>1, Parameters DEF Dist
    <3> QED
      BY <1>1, <2>1, <3>1, <3>2
  <2>3. Dist(next, wi) = numBlocksMax - 1
    BY <1>1, DistOfNext DEF next
  <2>4. \A b \in Blocks : Dist(wi, b) \in Nat
    BY <1>1, Parameters DEF Dist
  <2>5. \A b \in Blocks : Taken(b)' <=> Dist(next, b) < Size'
    BY <1>1, <1>7, <1>8, <1>9, <2>1, <2>3, <2>4, Parameters, SMTT(30)
  <2>6. blockIndex' = IF next + Size' >= numBlocksMax THEN next + Size' - numBlocksMax ELSE next + Size'
    BY <1>1, <1>7, <2>1, <2>2, Parameters, SMTT(30) DEF next, NextBlock
  <2>7. Size' \in 0..numBlocksMax
    BY <1>7, <2>1, <2>2, Parameters
  <2> QED
    BY <1>6, <2>5, <2>6, <2>7 DEF Window, Dist
<1> QED
  BY <1>1, <1>2, <1>3, <1>4, <1>5, <1>6, <1>7, <1>8, <1>9, <1>10 DEF next

LEMMA PlacesOfThread ==
  ASSUME IInv, NEW t \in Threads, Thread(t)
  PROVE  PlacesApart' /\ Window'
BY PlacesOfStays, PlacesOfTakeBlock, PlacesOfReady, PlacesOfWriter, PlacesOfRelease
   DEF Thread, Stays

-----------------------------------------------------------------------------
(* The output buffers. *)

LEMMA HoldsOfOthers ==
  ASSUME IInv, NEW t \in Threads, Thread(t), NEW u \in Threads \ {t},
         NEW b \in Blocks, NEW f \in Blocks
  PROVE  HoldsAt(u, b, f)' <=> HoldsAt(u, b, f)
<1> USE DEF IInv
<1>1. me'[u] = me[u]
  BY OthersStay
<1>2. CASE pc'[u] = pc[u]
  <2>1. (AtBlock(u, b)' <=> AtBlock(u, b)) /\ (AtWrite(u, b)' <=> AtWrite(u, b))
    BY <1>1, <1>2 DEF AtBlock, AtWrite, Writing
  <2>2. AtWrite(u, b) => blocks'[b] = blocks[b]
    BY OtherBlocksStay, OwnerIsOne DEF Taken
  <2> QED
    BY <1>1, <1>2, <2>1, <2>2 DEF HoldsAt
<1>3. CASE pc'[u] # pc[u]
  <2>1. pc'[u] = "idle" /\ StartThread(t) /\ u = numStartedThreads
    BY <1>3, OthersStay
  <2>2. pc[u] = "none"
    BY <2>1, StartNotItself
  <2> QED
    BY <2>1, <2>2 DEF HoldsAt, AtBlock, AtWrite, Writing
<1> QED
  BY <1>2, <1>3

LEMMA ReadyStays ==
  ASSUME IInv, NEW t \in Threads, Thread(t), NEW b \in ReadyBlocks
  PROVE  blocks'[b] = blocks[b]
<1> USE DEF IInv
<1> QED
  BY OtherBlocksStay, Domains DEF PlacesApart, Taken

LEMMA HoldsOfThread ==
  ASSUME IInv, NEW t \in Threads, Thread(t), ~ TakeBuffer(t), ~ Release(t),
         NEW b \in Blocks, NEW f \in Blocks
  PROVE  Holds(b, f)' <=> Holds(b, f)
<1> USE DEF IInv
<1>0. LocalOK(t) /\ me[t].bi \in Blocks /\ me[t].wi \in Blocks /\ f # NoBlock
  BY LocalsOf, Parameters DEF LocalInv
<1>1. CASE /\ HoldsAt(t, b, f)' <=> HoldsAt(t, b, f)
           /\ UNCHANGED ReadyBlocks
  <2>1. HoldsReady(b, f)' <=> HoldsReady(b, f)
    BY <1>1, ReadyStays DEF HoldsReady
  <2> QED
    BY <1>1, <2>1, HoldsOfOthers DEF Holds
<1>2. CASE Wake(t) \/ CountOut(t) \/ Compare(t) \/ StopReading(t)
  <2>1. UNCHANGED ReadyBlocks
    BY <1>2, StayersStay DEF Stays
  <2> QED
    BY <1>1, <1>2, <2>1, Moves DEF HoldsAt, AtBlock, AtWrite, Writing
<1>3. CASE ReadNothing(t) \/ ReadBlock(t) \/ ReadFails(t)
  <2>1. UNCHANGED ReadyBlocks
    BY <1>3, StayersStay DEF Stays
  <2> QED
    BY <1>1, <1>3, <2>1, Moves DEF HoldsAt, AtBlock, AtWrite, Writing
<1>4. CASE TakeBlock(t)
  <2>1. UNCHANGED ReadyBlocks /\ pc[t] = "take" /\ me'[t].bufIndex = NoBlock
          /\ pc'[t] \in {"start", "buffer", "turn"}
    BY <1>0, <1>4, Moves, LocalsTake DEF TakeBlock, writeVars, LocalOK, NothingHeld
  <2> QED
    BY <1>0, <1>1, <2>1 DEF HoldsAt, AtBlock, AtWrite, Writing
<1>5. CASE StartThread(t) \/ CountThread(t)
  <2>1. UNCHANGED ReadyBlocks /\ pc[t] \in {"start", "count"} /\ pc'[t] \in {"count", "buffer"}
    BY <1>5, StayersStay, Moves, StartNotItself DEF Stays
  <2> QED
    BY <1>1, <2>1 DEF HoldsAt, AtBlock, AtWrite, Writing
<1>6. CASE StartThreadFails(t)
  <2>1. UNCHANGED ReadyBlocks /\ pc[t] = "start" /\ pc'[t] = "turn" /\ me'[t].bufIndex = NoBlock
    BY <1>0, <1>6, StayersStay, Moves, LocalsCode DEF Stays, LocalOK, NothingHeld
  <2> QED
    BY <1>0, <1>1, <2>1 DEF HoldsAt, AtBlock, AtWrite, Writing
<1>7. CASE Code(t) \/ CodeFails(t)
  <2>1. UNCHANGED ReadyBlocks /\ pc[t] = "code" /\ pc'[t] = "turn" /\ me'[t].bufIndex = me[t].bufIndex
          /\ me'[t].bi = me[t].bi
    BY <1>7, StayersStay, Moves, LocalsCode, SameLocals DEF Stays
  <2> QED
    BY <1>1, <2>1 DEF HoldsAt, AtBlock, AtWrite, Writing
<1>8. CASE Turn(t) /\ writeIndex # me[t].bi
  <2>1. pc[t] = "turn" /\ pc'[t] \in {"read", "return"} /\ blocks[me[t].bi].bufIndex = me[t].bufIndex
    BY <1>0, <1>8, Domains DEF Turn, Goto, LocalOK
  <2>2. ReadyBlocks' = ReadyBlocks \cup {me[t].bi} /\ UNCHANGED blocks /\ me[t].bi \notin ReadyBlocks
    BY <1>8, PlacesOfReady DEF PlacesApart
  <2>3. ~ HoldsAt(t, b, f)'
    BY <2>1 DEF HoldsAt, AtBlock, AtWrite, Writing
  <2>4. HoldsAt(t, b, f) <=> b = me[t].bi /\ me[t].bufIndex = f
    BY <2>1 DEF HoldsAt, AtBlock, AtWrite, Writing
  <2>5. HoldsReady(b, f)' <=> HoldsReady(b, f) \/ (b = me[t].bi /\ me[t].bufIndex = f)
    BY <2>1, <2>2 DEF HoldsReady
  <2> QED
    BY <2>3, <2>4, <2>5, HoldsOfOthers DEF Holds
<1>9. CASE Turn(t) /\ writeIndex = me[t].bi
  <2>1. pc[t] = "turn" /\ pc'[t] = "write" /\ me'[t].bufIndex = me[t].bufIndex /\ me'[t].wi = me[t].bi
          /\ UNCHANGED ReadyBlocks
    BY <1>9, Domains, LocalsWrite DEF Turn, Goto
  <2> QED
    BY <1>1, <2>1 DEF HoldsAt, AtBlock, AtWrite, Writing
<1>10. CASE Write(t) \/ WriteFails(t)
  <2>1. pc[t] = "write" /\ pc'[t] = "release" /\ me'[t].bufIndex = me[t].bufIndex /\ me'[t].wi = me[t].wi
          /\ UNCHANGED ReadyBlocks
    BY <1>10, Moves, LocalsWrite, SameLocals, StayersStay DEF Stays
  <2> QED
    BY <1>1, <2>1 DEF HoldsAt, AtBlock, AtWrite, Writing
<1>11. CASE WriteNext(t)
  <2>1. pc[t] = "next" /\ pc'[t] = "write" /\ me'[t].bufIndex = blocks[me[t].wi].bufIndex
          /\ me'[t].wi = me[t].wi /\ UNCHANGED ReadyBlocks
    BY <1>11, Moves, LocalsWrite, StayersStay DEF Stays
  <2> QED
    BY <1>1, <2>1 DEF HoldsAt, AtBlock, AtWrite, Writing
<1>12. CASE WriteLast(t)
  <2>1. pc[t] = "last" /\ pc'[t] \in {"read", "return"} /\ UNCHANGED ReadyBlocks
    BY <1>12, Moves, StayersStay DEF Stays
  <2> QED
    BY <1>1, <2>1 DEF HoldsAt, AtBlock, AtWrite, Writing
<1> QED
  BY <1>2, <1>3, <1>4, <1>5, <1>6, <1>7, <1>8, <1>9, <1>10, <1>11, <1>12 DEF Thread

LEMMA BuffersOfTake ==
  ASSUME IInv, NEW t \in Threads, TakeBuffer(t)
  PROVE  BufferInv'
<1> USE DEF IInv
<1>1. pc[t] = "buffer" /\ pc'[t] = "code" /\ me'[t].bufIndex = Head(freeBlocks) /\ me'[t].bi = me[t].bi
        /\ UNCHANGED <<ReadyBlocks, blocks>> /\ Thread(t) /\ me[t].bi \in Blocks
  BY Moves, LocalsCode, LocalsOf DEF TakeBuffer, writeVars, Thread
<1>2. freeBlocks # <<>> /\ Head(freeBlocks) \in Blocks /\ freeBlocks \in Seq(Blocks)
        /\ freeBlocks' = Tail(freeBlocks)
  BY <1>1, BufferThere DEF TakeBuffer, TypeOK
<1>3. /\ Len(freeBlocks) \in Nat \ {0} /\ DOMAIN freeBlocks = 1..Len(freeBlocks)
      /\ DOMAIN freeBlocks' = 1..(Len(freeBlocks) - 1)
      /\ \A i \in DOMAIN freeBlocks' : freeBlocks'[i] = freeBlocks[i + 1]
      /\ Head(freeBlocks) = freeBlocks[1]
  BY <1>2
<1>4. \A f \in Blocks : Free(f)' <=> Free(f) /\ f # Head(freeBlocks)
  <2>1. ASSUME NEW f \in Blocks, Free(f)' PROVE Free(f) /\ f # Head(freeBlocks)
    <3>1. PICK i \in DOMAIN freeBlocks' : freeBlocks'[i] = f
      BY <2>1 DEF Free
    <3>2. i + 1 \in DOMAIN freeBlocks /\ 1 \in DOMAIN freeBlocks /\ i + 1 # 1 /\ freeBlocks[i + 1] = f
      BY <1>3, <3>1
    <3> QED
      BY <1>3, <3>2 DEF Free, BufferInv
  <2>2. ASSUME NEW f \in Blocks, Free(f), f # Head(freeBlocks) PROVE Free(f)'
    <3>1. PICK i \in DOMAIN freeBlocks : freeBlocks[i] = f
      BY <2>2 DEF Free
    <3>2. i - 1 \in DOMAIN freeBlocks' /\ freeBlocks'[i - 1] = f
      BY <1>3, <2>2, <3>1
    <3> QED
      BY <3>2 DEF Free
  <2> QED
    BY <2>1, <2>2
<1>5. \A b, f \in Blocks : Holds(b, f)' <=> Holds(b, f) \/ (b = me[t].bi /\ f = Head(freeBlocks))
  <2> TAKE b \in Blocks, f \in Blocks
  <2>1. HoldsAt(t, b, f)' <=> b = me[t].bi /\ f = Head(freeBlocks)
    BY <1>1 DEF HoldsAt, AtBlock, AtWrite, Writing
  <2>2. ~ HoldsAt(t, b, f)
    BY <1>1 DEF HoldsAt, AtBlock, AtWrite, Writing
  <2>3. HoldsReady(b, f)' <=> HoldsReady(b, f)
    BY <1>1 DEF HoldsReady
  <2> QED
    BY <1>1, <2>1, <2>2, <2>3, HoldsOfOthers DEF Holds
<1>6. Free(Head(freeBlocks))
  BY <1>3 DEF Free
<1>7. \A i, j \in DOMAIN freeBlocks' : freeBlocks'[i] = freeBlocks'[j] => i = j
  <2> SUFFICES ASSUME NEW i \in DOMAIN freeBlocks', NEW j \in DOMAIN freeBlocks',
                      freeBlocks'[i] = freeBlocks'[j]
               PROVE  i = j
    OBVIOUS
  <2>1. i + 1 \in DOMAIN freeBlocks /\ j + 1 \in DOMAIN freeBlocks
          /\ freeBlocks[i + 1] = freeBlocks[j + 1] /\ i \in Int /\ j \in Int
    BY <1>3
  <2>2. i + 1 = j + 1
    BY <2>1 DEF BufferInv
  <2> QED
    BY <2>1, <2>2
<1>8. /\ \A f \in Blocks : Free(f)' \/ \E b \in Blocks : Holds(b, f)'
      /\ \A f \in Blocks, b \in Blocks : Holds(b, f)' => ~ Free(f)'
      /\ \A f \in Blocks, b, c \in Blocks : Holds(b, f)' /\ Holds(c, f)' => b = c
  BY <1>1, <1>2, <1>4, <1>5, <1>6 DEF BufferInv
<1> QED
  BY <1>7, <1>8 DEF BufferInv
\* The writer gives back the buffer of the block it wrote; the next one keeps its.
LEMMA BuffersOfRelease ==
  ASSUME IInv, NEW t \in Threads, Release(t)
  PROVE  BufferInv'
<1> USE DEF IInv
<1> DEFINE wi == me[t].wi
           next == NextBlock(me[t].wi)
           given == me[t].bufIndex
<1>1. /\ pc[t] = "release" /\ pc'[t] \in {"next", "last"} /\ Thread(t)
      /\ UNCHANGED blocks /\ ReadyBlocks' = ReadyBlocks \ {next}
      /\ wi \in Blocks /\ next \in Blocks /\ given \in Index
      /\ AtWrite(t, wi)
  BY Moves, PlacesOfRelease, LocalsOf DEF Thread, AtWrite, Writing
<1>2. \A u \in Threads : \A b \in Blocks :
         /\ AtBlock(u, b)' <=> AtBlock(u, b)
         /\ AtWrite(u, b)' <=> u = t /\ b = next /\ b \in ReadyBlocks
  BY PlacesOfRelease
<1>3. freeBlocks' = IF given # NoBlock THEN <<given>> \o freeBlocks ELSE freeBlocks
  BY DEF Release, GiveBuffer
<1> HIDE DEF next, wi
<1>4. \A b, f \in Blocks : Holds(b, f)' <=> Holds(b, f) /\ b # wi
  <2> TAKE b \in Blocks, f \in Blocks
  <2>1. HoldsAt(t, b, f) <=> b = wi /\ given = f
    BY <1>1 DEF HoldsAt, AtBlock, AtWrite, Writing, wi
  <2>2. HoldsAt(t, b, f)' <=> b = next /\ HoldsReady(b, f)
    <3>1. ~ (AtBlock(t, b)' /\ pc'[t] \in {"code", "turn"})
      BY <1>1
    <3>2. AtWrite(t, b)' => pc'[t] = "next"
      BY <1>1 DEF AtWrite, Writing
    <3> QED
      BY <1>1, <1>2, <3>1, <3>2 DEF HoldsAt, HoldsReady
  <2>3. HoldsReady(b, f)' <=> HoldsReady(b, f) /\ b # next
    BY <1>1 DEF HoldsReady
  <2>4. b = wi => ~ HoldsReady(b, f) /\ \A u \in Threads \ {t} : ~ HoldsAt(u, b, f)
    <3>1. b = wi => b \notin ReadyBlocks /\ \A u \in Threads : ~ AtBlock(u, b)
      BY <1>1 DEF PlacesApart
    <3>2. \A u \in Threads \ {t} : ~ Writing(u)
      BY <1>1 DEF OneWriter, Writing
    <3> QED
      BY <3>1, <3>2 DEF HoldsReady, HoldsAt, AtWrite
  <2> QED
    BY <1>1, <2>1, <2>2, <2>3, <2>4, HoldsOfOthers DEF Holds
<1>5. \A f \in Blocks : Holds(wi, f) <=> f = given
  <2> TAKE f \in Blocks
  <2>1. HoldsAt(t, wi, given)
    BY <1>1 DEF HoldsAt
  <2>2. wi \notin ReadyBlocks /\ \A u \in Threads : ~ AtBlock(u, wi)
    BY <1>1 DEF PlacesApart
  <2>3. \A u \in Threads \ {t} : ~ Writing(u)
    BY <1>1 DEF OneWriter, Writing
  <2>4. ~ HoldsReady(wi, f) /\ \A u \in Threads \ {t} : ~ HoldsAt(u, wi, f)
    BY <2>2, <2>3 DEF HoldsReady, HoldsAt, AtWrite
  <2>5. HoldsAt(t, wi, f) => f = given
    BY <1>1 DEF HoldsAt, AtBlock, AtWrite, Writing, wi
  <2> QED
    BY <2>1, <2>4, <2>5 DEF Holds
<1>6. CASE given = NoBlock
  <2>1. freeBlocks' = freeBlocks /\ \A f \in Blocks : f # given
    BY <1>3, <1>6, Parameters
  <2>2. \A f \in Blocks : Free(f)' <=> Free(f)
    BY <2>1 DEF Free
  <2>3. \A b, f \in Blocks : Holds(b, f)' <=> Holds(b, f)
    BY <1>4, <1>5, <2>1
  <2> QED
    BY <2>1, <2>2, <2>3 DEF BufferInv
<1>7. CASE given # NoBlock
  <2>1. given \in Blocks /\ freeBlocks \in Seq(Blocks) /\ freeBlocks' = <<given>> \o freeBlocks
    BY <1>1, <1>3, <1>7 DEF Index, TypeOK
  <2>2. /\ Len(freeBlocks) \in Nat /\ DOMAIN freeBlocks = 1..Len(freeBlocks)
        /\ DOMAIN freeBlocks' = 1..(Len(freeBlocks) + 1)
        /\ freeBlocks'[1] = given
        /\ \A i \in DOMAIN freeBlocks' : i # 1 => freeBlocks'[i] = freeBlocks[i - 1]
    BY <2>1
  <2>3. \A f \in Blocks : Free(f)' <=> Free(f) \/ f = given
    <3>1. ASSUME NEW f \in Blocks, Free(f)' PROVE Free(f) \/ f = given
      <4>1. PICK i \in DOMAIN freeBlocks' : freeBlocks'[i] = f
        BY <3>1 DEF Free
      <4>2. CASE i = 1
        BY <2>2, <4>1, <4>2
      <4>3. CASE i # 1
        <5>1. i - 1 \in DOMAIN freeBlocks /\ freeBlocks[i - 1] = f
          BY <2>2, <4>1, <4>3
        <5> QED
          BY <5>1 DEF Free
      <4> QED
        BY <4>2, <4>3
    <3>2. ASSUME NEW f \in Blocks, Free(f) PROVE Free(f)'
      <4>1. PICK i \in DOMAIN freeBlocks : freeBlocks[i] = f
        BY <3>2 DEF Free
      <4>2. i + 1 \in DOMAIN freeBlocks' /\ freeBlocks'[i + 1] = f
        BY <2>2, <4>1
      <4> QED
        BY <4>2 DEF Free
    <3>3. ASSUME NEW f \in Blocks, f = given PROVE Free(f)'
      <4>1. 1 \in DOMAIN freeBlocks' /\ freeBlocks'[1] = f
        BY <2>2, <3>3
      <4> QED
        BY <4>1 DEF Free
    <3> QED
      BY <3>1, <3>2, <3>3
  <2>4. ~ Free(given)
    BY <1>1, <1>5, <2>1 DEF BufferInv
  <2>5. \A i, j \in DOMAIN freeBlocks' : freeBlocks'[i] = freeBlocks'[j] => i = j
    <3> SUFFICES ASSUME NEW i \in DOMAIN freeBlocks', NEW j \in DOMAIN freeBlocks',
                        freeBlocks'[i] = freeBlocks'[j]
                 PROVE  i = j
      OBVIOUS
    <3>1. \A k \in DOMAIN freeBlocks' : k # 1 => freeBlocks'[k] # given
      <4> SUFFICES ASSUME NEW k \in DOMAIN freeBlocks', k # 1, freeBlocks'[k] = given PROVE FALSE
        OBVIOUS
      <4>1. k - 1 \in DOMAIN freeBlocks /\ freeBlocks[k - 1] = given
        BY <2>2
      <4> QED
        BY <2>4, <4>1 DEF Free
    <3>2. CASE i = 1 \/ j = 1
      BY <2>2, <3>1, <3>2
    <3>3. CASE i # 1 /\ j # 1
      <4>1. i - 1 \in DOMAIN freeBlocks /\ j - 1 \in DOMAIN freeBlocks
              /\ freeBlocks[i - 1] = freeBlocks[j - 1] /\ i \in Int /\ j \in Int
        BY <2>2, <3>3
      <4>2. i - 1 = j - 1
        BY <4>1 DEF BufferInv
      <4> QED
        BY <4>1, <4>2
    <3> QED
      BY <3>2, <3>3
  <2>6. /\ \A f \in Blocks : Free(f)' \/ \E b \in Blocks : Holds(b, f)'
        /\ \A f \in Blocks, b \in Blocks : Holds(b, f)' => ~ Free(f)'
        /\ \A f \in Blocks, b, c \in Blocks : Holds(b, f)' /\ Holds(c, f)' => b = c
    BY <1>1, <1>4, <1>5, <2>3 DEF BufferInv
  <2> QED
    BY <2>5, <2>6 DEF BufferInv
<1> QED
  BY <1>6, <1>7

LEMMA BuffersOfThread ==
  ASSUME IInv, NEW t \in Threads, Thread(t)
  PROVE  BufferInv'
<1> USE DEF IInv
<1>1. CASE TakeBuffer(t)
  BY <1>1, BuffersOfTake
<1>2. CASE Release(t)
  BY <1>2, BuffersOfRelease
<1>3. CASE ~ TakeBuffer(t) /\ ~ Release(t)
  <2>1. UNCHANGED freeBlocks
    BY <1>3 DEF Thread, Wake, CountOut, Compare, StopReading, ReadNothing, ReadBlock, ReadFails,
         TakeBlock, StartThread, CountThread, StartThreadFails, Code, CodeFails, Turn, Write,
         WriteFails, WriteNext, WriteLast
  <2>2. \A b, f \in Blocks : Holds(b, f)' <=> Holds(b, f)
    BY <1>3, HoldsOfThread
  <2>3. \A f \in Blocks : Free(f)' <=> Free(f)
    BY <2>1 DEF Free
  <2> QED
    BY <2>1, <2>2, <2>3 DEF BufferInv
<1> QED
  BY <1>1, <1>2, <1>3
-----------------------------------------------------------------------------
(* The blocks of the whole input. *)

\* Multiplication by the block size is strictly increasing.
LEMMA Increasing ==
  ASSUME NEW i \in Nat, NEW j \in Nat, i < j
  PROVE  i * BlockSize + BlockSize <= j * BlockSize /\ i * BlockSize < j * BlockSize
<1>1. BlockSize \in Nat /\ BlockSize > 0 /\ j - i - 1 \in Nat
  BY Parameters
<1>2. j * BlockSize = i * BlockSize + BlockSize + (j - i - 1) * BlockSize
  BY <1>1
<1>3. (j - i - 1) * BlockSize >= 0 /\ i * BlockSize \in Int /\ j * BlockSize \in Int
  BY <1>1
<1> QED
  BY <1>1, <1>2, <1>3

LEMMA Quotient ==
  ASSUME NEW n \in Nat
  PROVE  /\ n \div BlockSize \in Nat
         /\ (n \div BlockSize) * BlockSize <= n
         /\ n < (n \div BlockSize) * BlockSize + BlockSize
<1>1. BlockSize \in Nat /\ BlockSize > 0
  BY Parameters
<1> QED
  BY <1>1, Z3

LEMMA BlocksOfData ==
  ASSUME TypeOK
  PROVE  /\ NumBlocks \in Nat \ {0}
         /\ (NumBlocks - 1) * BlockSize <= dataSize
         /\ dataSize <= (NumBlocks - 1) * BlockSize + BlockSize
         /\ mode = "stream" => dataSize < (NumBlocks - 1) * BlockSize + BlockSize
         /\ mode = "memory" /\ NumBlocks > 1 => (NumBlocks - 1) * BlockSize < dataSize
<1>1. BlockSize \in Nat /\ BlockSize > 0 /\ dataSize \in Nat /\ mode \in {"stream", "memory"}
  BY Parameters DEF TypeOK
<1>2. CASE mode = "stream" \/ dataSize = 0
  <2> DEFINE q == dataSize \div BlockSize
  <2>1. NumBlocks = q + 1
    BY <1>2 DEF NumBlocks
  <2>2. q \in Nat /\ q * BlockSize <= dataSize /\ dataSize < q * BlockSize + BlockSize
    BY <1>1, Quotient
  <2> HIDE DEF q
  <2>3. dataSize = 0 => q = 0
    <3>1. q >= 1 => 0 * BlockSize < q * BlockSize
      BY <1>1, <2>2, Increasing
    <3> QED
      BY <1>1, <2>2, <3>1
  <2>4. NumBlocks - 1 = q
    BY <2>1, <2>2
  <2> QED
    BY <1>1, <1>2, <2>1, <2>2, <2>3, <2>4
<1>3. CASE ~ (mode = "stream" \/ dataSize = 0)
  <2> DEFINE m == dataSize + BlockSize - 1
             q == m \div BlockSize
  <2>1. NumBlocks = q /\ m \in Nat
    BY <1>1, <1>3 DEF NumBlocks
  <2>2. q \in Nat /\ q * BlockSize <= m /\ m < q * BlockSize + BlockSize
    BY <2>1, Quotient
  <2> HIDE DEF q
  <2>3. q # 0
    <3>1. q = 0 => q * BlockSize = 0
      BY <1>1
    <3> QED
      BY <1>1, <1>3, <2>2, <3>1
  <2>4. q * BlockSize = (q - 1) * BlockSize + BlockSize /\ (q - 1) * BlockSize \in Int
    BY <1>1, <2>2
  <2> QED
    BY <1>1, <1>3, <2>1, <2>2, <2>3, <2>4
<1> QED
  BY <1>2, <1>3

LEMMA WholeIs ==
  ASSUME TypeOK, NEW k \in 1..NumBlocks
  PROVE  /\ Whole[k].from = (k - 1) * BlockSize
         /\ Whole[k].size = IF k < NumBlocks THEN BlockSize ELSE dataSize - (k - 1) * BlockSize
         /\ Whole[k].finished = (k = NumBlocks)
         /\ Whole[k] = [from |-> (k - 1) * BlockSize, size |-> Whole[k].size,
                        finished |-> (k = NumBlocks)]
         /\ Whole[k] \in Data
<1>1. /\ Whole[k].from = (k - 1) * BlockSize
      /\ Whole[k].size = IF k < NumBlocks THEN BlockSize ELSE dataSize - (k - 1) * BlockSize
      /\ Whole[k].finished = (k = NumBlocks)
      /\ Whole[k] = [from |-> (k - 1) * BlockSize, size |-> Whole[k].size,
                     finished |-> (k = NumBlocks)]
  BY DEF Whole
<1>2. BlockSize \in Nat /\ NumBlocks \in Nat /\ k - 1 \in Nat /\ k \in Nat /\ k <= NumBlocks
        /\ dataSize \in Nat
  BY Parameters, BlocksOfData DEF TypeOK
<1>3. (k - 1) * BlockSize \in Nat
  BY <1>2
<1>4. Whole[k].size \in 0..BlockSize
  <2>1. CASE k < NumBlocks
    BY <1>1, <1>2, <2>1
  <2>2. CASE k = NumBlocks
    BY <1>1, <1>2, <1>3, <2>2, BlocksOfData
  <2> QED
    BY <1>2, <2>1, <2>2
<1>5. Whole[k] \in Data
  BY <1>1, <1>3, <1>4, Zenon DEF Data
<1> QED
  BY <1>1, <1>5

LEMMA WholeInOrder ==
  ASSUME TypeOK, NEW i \in 1..NumBlocks, NEW j \in 1..NumBlocks
  PROVE  /\ i < j => Whole[i].from < Whole[j].from
         /\ Whole[i] = Whole[j] => i = j
<1>1. NumBlocks \in Nat /\ BlockSize \in Nat
  BY BlocksOfData, Parameters
<1>2. ASSUME NEW x \in 1..NumBlocks, NEW y \in 1..NumBlocks, x < y
      PROVE  Whole[x].from < Whole[y].from
  <2>1. (x - 1) * BlockSize < (y - 1) * BlockSize
    BY <1>1, <1>2, Increasing
  <2> QED
    BY <2>1, WholeIs
<1>3. Whole[i].from \in Int /\ Whole[j].from \in Int
  <2>1. i - 1 \in Int /\ j - 1 \in Int
    BY <1>1
  <2>2. (i - 1) * BlockSize \in Int /\ (j - 1) * BlockSize \in Int
    BY <1>1, <2>1
  <2>3. Whole[i].from = (i - 1) * BlockSize /\ Whole[j].from = (j - 1) * BlockSize
    BY WholeIs
  <2> QED
    BY <2>2, <2>3
<1>4. Whole[i] = Whole[j] => i = j
  BY <1>1, <1>2, <1>3
<1> QED
  BY <1>2, <1>4

\* What is read when k - 1 blocks were read is the next block of the whole.
LEMMA ReadIsNext ==
  ASSUME TypeOK, NEW k \in 1..NumBlocks, readProcessed = (k - 1) * BlockSize
  PROVE  /\ ReadSize = Whole[k].size
         /\ LastRead <=> k = NumBlocks
         /\ readProcessed + ReadSize = IF k = NumBlocks THEN dataSize ELSE k * BlockSize
<1> DEFINE p == (k - 1) * BlockSize
           l == (NumBlocks - 1) * BlockSize
<1>1. BlockSize \in Nat /\ BlockSize > 0 /\ NumBlocks \in Nat /\ k \in Nat /\ k <= NumBlocks
        /\ dataSize \in Nat /\ mode \in {"stream", "memory"} /\ k - 1 \in Nat
  BY Parameters, BlocksOfData DEF TypeOK
<1>2. p \in Nat /\ l \in Int /\ k * BlockSize = p + BlockSize
  BY <1>1, BlocksOfData
<1>3. /\ l <= dataSize /\ dataSize <= l + BlockSize
      /\ mode = "stream" => dataSize < l + BlockSize
      /\ mode = "memory" /\ NumBlocks > 1 => l < dataSize
  BY BlocksOfData
<1>4. k < NumBlocks => p + BlockSize <= l
  <2>1. k < NumBlocks => k - 1 < NumBlocks - 1 /\ NumBlocks - 1 \in Nat
    BY <1>1
  <2> QED
    BY <1>1, <2>1, Increasing
<1>5. k = NumBlocks => p = l
  OBVIOUS
<1>6. Whole[k].size = IF k < NumBlocks THEN BlockSize ELSE dataSize - p
  BY WholeIs
<1> HIDE DEF p, l
<1>7. readProcessed = p
  BY DEF p
<1>8. CASE k < NumBlocks
  <2>1. ReadSize = BlockSize
    BY <1>1, <1>2, <1>3, <1>4, <1>7, <1>8 DEF ReadSize
  <2>2. mode = "memory" => dataSize # p + BlockSize
    BY <1>1, <1>2, <1>3, <1>4, <1>8
  <2>3. ~ LastRead
    BY <1>1, <1>7, <2>1, <2>2 DEF LastRead
  <2> QED
    BY <1>1, <1>2, <1>6, <1>7, <1>8, <2>1, <2>3
<1>9. CASE k = NumBlocks
  <2>1. ReadSize = dataSize - p
    BY <1>1, <1>2, <1>3, <1>5, <1>7, <1>9 DEF ReadSize
  <2>2. mode = "stream" => ReadSize # BlockSize
    BY <1>1, <1>2, <1>3, <1>5, <1>9, <2>1
  <2>3. dataSize = p + ReadSize
    BY <1>1, <1>2, <2>1
  <2>4. LastRead
    BY <1>1, <1>7, <2>2, <2>3 DEF LastRead
  <2> QED
    BY <1>1, <1>2, <1>6, <1>7, <1>9, <2>1, <2>3, <2>4
<1> QED
  BY <1>1, <1>8, <1>9
-----------------------------------------------------------------------------
(* What the places carry. *)

\* Only the encoder writes into an output buffer, and only into its own.
LEMMA OutBufsStay ==
  ASSUME IInv, NEW t \in Threads, Thread(t), NEW b \in Blocks, NEW f \in Blocks, Holds(b, f)
  PROVE  outBufs'[f] = outBufs[f] \/ (pc[t] = "code" /\ AtBlock(t, b))
<1> USE DEF IInv
<1>1. CASE Code(t) \/ CodeFails(t)
  <2>1. pc[t] = "code" /\ AtBlock(t, me[t].bi) /\ me[t].bi \in Blocks
    BY <1>1, LocalsOf DEF Code, CodeFails, AtBlock
  <2>2. CASE f = me[t].bufIndex
    <3>1. HoldsAt(t, me[t].bi, f)
      BY <2>1, <2>2 DEF HoldsAt
    <3>2. b = me[t].bi
      BY <2>1, <3>1 DEF BufferInv, Holds
    <3> QED
      BY <2>1, <3>2
  <2>3. CASE f # me[t].bufIndex
    BY <1>1, <2>3, Domains DEF Code, CodeFails
  <2> QED
    BY <2>2, <2>3
<1>2. CASE ~ Code(t) /\ ~ CodeFails(t)
  <2>1. UNCHANGED outBufs
    BY <1>2 DEF Thread, Wake, CountOut, Compare, StopReading, ReadNothing, ReadBlock, ReadFails,
         TakeBlock, StartThread, CountThread, StartThreadFails, TakeBuffer, Turn, Write,
         WriteFails, Release, WriteNext, WriteLast
  <2> QED
    BY <2>1
<1> QED
  BY <1>1, <1>2

\* The buffer of what is carried, and that it is held.
LEMMA CarriedIsHeld ==
  ASSUME IInv, NEW b \in Blocks
  PROVE  /\ b \in ReadyBlocks /\ blocks[b].res = OK =>
              blocks[b].bufIndex \in Blocks /\ Holds(b, blocks[b].bufIndex)
         /\ \A t \in Threads : AtBlock(t, b) /\ pc[t] = "turn" /\ me[t].res = OK =>
              me[t].bufIndex \in Blocks /\ Holds(b, me[t].bufIndex)
         /\ \A t \in Threads : AtWrite(t, b) /\ pc[t] = "write" /\ me[t].res = OK =>
              me[t].bufIndex \in Blocks /\ Holds(b, me[t].bufIndex)
         /\ \A t \in Threads : AtWrite(t, b) /\ pc[t] = "next" /\ blocks[b].res = OK =>
              blocks[b].bufIndex \in Blocks /\ Holds(b, blocks[b].bufIndex)
<1> USE DEF IInv
<1>1. blocks[b].bufIndex \in Index
  BY DEF TypeOK
<1>2. b \in ReadyBlocks /\ blocks[b].res = OK =>
              blocks[b].bufIndex \in Blocks /\ Holds(b, blocks[b].bufIndex)
  BY <1>1 DEF ReadyHold, Index, Holds, HoldsReady
<1>3. ASSUME NEW t \in Threads
      PROVE  /\ AtBlock(t, b) /\ pc[t] = "turn" /\ me[t].res = OK =>
                  me[t].bufIndex \in Blocks /\ Holds(b, me[t].bufIndex)
             /\ AtWrite(t, b) /\ pc[t] = "write" /\ me[t].res = OK =>
                  me[t].bufIndex \in Blocks /\ Holds(b, me[t].bufIndex)
             /\ AtWrite(t, b) /\ pc[t] = "next" /\ blocks[b].res = OK =>
                  blocks[b].bufIndex \in Blocks /\ Holds(b, blocks[b].bufIndex)
  <2>1. me[t].bufIndex \in Index
    BY LocalsOf
  <2>2. pc[t] \in {"turn", "write"} /\ me[t].res = OK => me[t].bufIndex # NoBlock
    BY DEF LocalInv, LocalOK, NothingHeld
  <2>3. AtWrite(t, b) /\ pc[t] = "next" /\ blocks[b].res = OK => blocks[b].bufIndex # NoBlock
    BY DEF LocalInv, LocalOK, AtWrite
  <2> QED
    BY <1>1, <2>1, <2>2, <2>3 DEF Index, Holds, HoldsAt
<1> QED
  BY <1>2, <1>3

LEMMA CarriesOfOthers ==
  ASSUME IInv, NEW t \in Threads, Thread(t), NEW u \in Threads \ {t}, NEW b \in Blocks, NEW d,
         CarriesAt(u, b, d)'
  PROVE  CarriesAt(u, b, d)
<1> USE DEF IInv
<1>1. me'[u] = me[u]
  BY OthersStay
<1>2. pc'[u] = pc[u]
  <2>1. pc'[u] # "idle"
    BY DEF CarriesAt, AtBlock, AtWrite, Writing
  <2> QED
    BY <2>1, OthersStay
<1>3. (AtBlock(u, b)' <=> AtBlock(u, b)) /\ (AtWrite(u, b)' <=> AtWrite(u, b))
  BY <1>1, <1>2 DEF AtBlock, AtWrite, Writing
<1>4. AtBlock(u, b) \/ AtWrite(u, b)
  BY <1>3 DEF CarriesAt
<1>5. ~ AtBlock(t, b) /\ blocks'[b] = blocks[b]
  BY <1>4, OtherBlocksStay, OwnerIsOne DEF Taken
<1>6. \A f \in Blocks : Holds(b, f) => outBufs'[f] = outBufs[f]
  BY <1>5, OutBufsStay
<1>7. Piece(u)' = Piece(u)
  BY <1>1 DEF Piece
<1>8. CASE AtBlock(u, b) /\ pc[u] # "turn" /\ d = Piece(u)
  BY <1>8 DEF CarriesAt
<1>9. CASE AtBlock(u, b) /\ pc[u] = "turn" /\ me[u].res = OK /\ d = outBufs'[me[u].bufIndex]
  BY <1>6, <1>9, CarriedIsHeld DEF CarriesAt
<1>10. CASE AtWrite(u, b) /\ pc[u] = "write" /\ me[u].res = OK /\ d = outBufs'[me[u].bufIndex]
  BY <1>6, <1>10, CarriedIsHeld DEF CarriesAt
<1>11. CASE AtWrite(u, b) /\ pc[u] = "next" /\ me[u].res = OK /\ blocks[b].res = OK
              /\ d = outBufs'[blocks[b].bufIndex]
  BY <1>6, <1>11, CarriedIsHeld DEF CarriesAt
<1>12. \/ AtBlock(u, b)' /\ pc'[u] # "turn" /\ d = Piece(u)'
       \/ AtBlock(u, b)' /\ pc'[u] = "turn" /\ me'[u].res = OK /\ d = outBufs'[me'[u].bufIndex]
       \/ AtWrite(u, b)' /\ pc'[u] = "write" /\ me'[u].res = OK /\ d = outBufs'[me'[u].bufIndex]
       \/ /\ AtWrite(u, b)' /\ pc'[u] = "next" /\ me'[u].res = OK /\ blocks'[b].res = OK
          /\ d = outBufs'[blocks'[b].bufIndex]
  BY DEF CarriesAt, OK
<1> QED
  BY <1>1, <1>2, <1>3, <1>5, <1>7, <1>8, <1>9, <1>10, <1>11, <1>12

LEMMA CarriesOfReady ==
  ASSUME IInv, NEW t \in Threads, Thread(t), NEW b \in ReadyBlocks, NEW d, CarriesReady(b, d)'
  PROVE  CarriesReady(b, d)
<1> USE DEF IInv
<1>1. b \in Blocks /\ blocks'[b] = blocks[b] /\ ~ AtBlock(t, b)
  BY ReadyStays, Domains DEF PlacesApart
<1>2. \A f \in Blocks : Holds(b, f) => outBufs'[f] = outBufs[f]
  BY <1>1, OutBufsStay
<1> QED
  BY <1>1, <1>2, CarriedIsHeld DEF CarriesReady
\* A place is given something to carry with its block only; what is written,
\* or fails, is carried no more.
LEMMA CarriesOfThread ==
  ASSUME IInv, NEW t \in Threads, Thread(t), NEW b \in Blocks, NEW d, Carries(b, d)'
  PROVE  /\ \/ Carries(b, d)
            \/ TakeBlock(t) /\ b = blockIndex /\ progressRes = OK /\ me[t].res = OK /\ d = Piece(t)
         /\ CodeFails(t) \/ StartThreadFails(t) => b # me[t].bi
         /\ Write(t) \/ WriteFails(t) => b # me[t].wi
<1> USE DEF IInv
<1>0. /\ LocalOK(t) /\ me[t].bi \in Blocks /\ me[t].wi \in Blocks
      /\ \A u \in Threads : Piece(u)' = [me'[u].data EXCEPT !.finished = me'[u].finished]
  BY LocalsOf DEF LocalInv, Piece
<1> DEFINE Goal == /\ \/ Carries(b, d)
                      \/ /\ TakeBlock(t) /\ b = blockIndex /\ progressRes = OK /\ me[t].res = OK
                         /\ d = Piece(t)
                   /\ CodeFails(t) \/ StartThreadFails(t) => b # me[t].bi
                   /\ Write(t) \/ WriteFails(t) => b # me[t].wi
\* Somebody else carries it.
<1>1. CASE (\E u \in Threads \ {t} : CarriesAt(u, b, d)') \/ (b \in ReadyBlocks /\ CarriesReady(b, d)')
  <2>1. Carries(b, d)
    BY <1>1, CarriesOfOthers, CarriesOfReady DEF Carries
  <2>2. \A u \in Threads : AtBlock(u, b) \/ AtWrite(u, b) => ~ (CarriesReady(b, d)' /\ b \in ReadyBlocks)
    BY DEF PlacesApart
  <2>3. \A u \in Threads \ {t} : CarriesAt(u, b, d)' => AtBlock(u, b) \/ AtWrite(u, b)
    BY CarriesOfOthers DEF CarriesAt
  <2>4. \A u \in Threads \ {t} : AtBlock(u, b) \/ AtWrite(u, b) => ~ AtBlock(t, b) /\ ~ AtWrite(t, b)
    BY OwnerIsOne
  <2>5. CodeFails(t) \/ StartThreadFails(t) => AtBlock(t, me[t].bi)
    BY Moves DEF AtBlock
  <2>6. Write(t) \/ WriteFails(t) => AtWrite(t, me[t].wi)
    BY Moves DEF AtWrite, Writing
  <2> QED
    BY <1>1, <2>1, <2>2, <2>3, <2>4, <2>5, <2>6
\* The thread leaves it as ready.
<1>2. CASE b \notin ReadyBlocks /\ CarriesReady(b, d)'
  <2>1. b \in ReadyBlocks' /\ blocks'[b].res = OK /\ d = outBufs'[blocks'[b].bufIndex]
    BY <1>2 DEF CarriesReady, OK
  <2>2. ~ Stays(t) /\ ~ TakeBlock(t) /\ ~ Release(t)
    BY <1>2, <2>1, StayersStay, PlacesOfRelease DEF TakeBlock, writeVars
  <2>3. Turn(t) /\ writeIndex # me[t].bi
    <3>1. Turn(t)
      BY <2>2 DEF Thread, Stays
    <3> QED
      BY <1>2, <2>1, <3>1, PlacesOfWriter
  <2>4. b = me[t].bi /\ UNCHANGED blocks /\ AtBlock(t, b) /\ pc[t] = "turn"
    BY <1>2, <2>1, <2>3, PlacesOfReady, Moves
  <2>5. blocks[b] = [res |-> me[t].res, bufIndex |-> me[t].bufIndex, finished |-> me[t].finished]
    BY <1>0, <2>4 DEF LocalOK
  <2>6. UNCHANGED outBufs
    BY <2>3 DEF Turn
  <2>7. CarriesAt(t, b, d)
    BY <2>1, <2>4, <2>5, <2>6 DEF CarriesAt
  <2> QED
    BY <2>3, <2>7, Moves DEF Carries
\* The thread carries it on.
<1>3. CASE CarriesAt(t, b, d)'
  <2>0. \/ AtBlock(t, b)' /\ pc'[t] # "turn" /\ d = Piece(t)'
        \/ AtBlock(t, b)' /\ pc'[t] = "turn" /\ me'[t].res = OK /\ d = outBufs'[me'[t].bufIndex]
        \/ AtWrite(t, b)' /\ pc'[t] = "write" /\ me'[t].res = OK /\ d = outBufs'[me'[t].bufIndex]
        \/ /\ AtWrite(t, b)' /\ pc'[t] = "next" /\ me'[t].res = OK /\ blocks'[b].res = OK
           /\ d = outBufs'[blocks'[b].bufIndex]
    BY <1>3 DEF CarriesAt, OK
  <2>1. CASE Wake(t) \/ CountOut(t) \/ Compare(t) \/ StopReading(t) \/ ReadNothing(t)
             \/ ReadBlock(t) \/ ReadFails(t) \/ Write(t) \/ WriteFails(t) \/ WriteLast(t)
    BY <2>0, <2>1, Moves DEF AtBlock, AtWrite, Writing
  <2>2. CASE TakeBlock(t)
    <3>1. pc'[t] \in {"start", "buffer", "turn"} /\ me'[t].bi = blockIndex /\ me'[t].data = me[t].data
      BY <2>2, Moves, LocalsTake
    <3>2. \/ b = blockIndex /\ pc'[t] # "turn"
          \/ me'[t].res = OK
      BY <2>0, <3>1 DEF AtBlock, AtWrite, Writing
    <3>3. b = blockIndex
      BY <2>0, <3>1 DEF AtBlock, AtWrite, Writing
    <3>4. TakenRes(t) = OK /\ me'[t].finished = me[t].finished /\ pc'[t] # "turn"
      <4>1. CASE MoreThreads(TakenFinished(t))
        BY <2>2, <4>1, LocalsTake DEF MoreThreads, TakenFinished
      <4>2. CASE ~ MoreThreads(TakenFinished(t))
        <5>1. TakenRes(t) = OK
          BY <2>2, <3>2, <4>2, LocalsTake
        <5>2. me'[t].finished = TakenFinished(t) /\ pc'[t] = "buffer"
          BY <2>2, <4>2, <5>1, LocalsTake
        <5>3. TakenFinished(t) = me[t].finished
          BY <5>1, LocalsOf DEF TakenFinished
        <5> QED
          BY <5>1, <5>2, <5>3
      <4> QED
        BY <4>1, <4>2
    <3>5. d = Piece(t)'
      BY <2>0, <3>1, <3>4 DEF AtWrite, Writing
    <3>6. d = Piece(t) /\ me[t].res = OK /\ progressRes = OK
      BY <1>0, <3>1, <3>4, <3>5 DEF Piece, TakenRes
    <3> QED
      BY <2>2, <3>3, <3>6, Moves
  <2>3. CASE StartThread(t) \/ CountThread(t) \/ TakeBuffer(t)
    <3>1. /\ pc[t] \in {"start", "count", "buffer"} /\ pc'[t] \in {"count", "buffer", "code"}
          /\ me'[t].bi = me[t].bi /\ me'[t].data = me[t].data /\ me'[t].finished = me[t].finished
      BY <2>3, Moves, StartNotItself, SameLocals, LocalsCode
    <3>2. CarriesAt(t, b, d)
      BY <1>0, <2>0, <3>1 DEF CarriesAt, AtBlock, AtWrite, Writing, Piece
    <3> QED
      BY <2>3, <3>1, <3>2, Moves DEF Carries
  <2>4. CASE StartThreadFails(t) \/ CodeFails(t)
    <3>1. pc'[t] = "turn" /\ me'[t].res # OK
      BY <2>4, Moves, LocalsCode DEF OK
    <3> QED
      BY <2>0, <3>1 DEF AtWrite, Writing
  <2>5. CASE Code(t)
    <3>1. /\ pc[t] = "code" /\ pc'[t] = "turn" /\ UNCHANGED me
          /\ outBufs' = [outBufs EXCEPT ![me[t].bufIndex] = Piece(t)]
      BY <2>5, Moves, SameLocals DEF Code, Piece
    <3>2. me[t].bufIndex \in Blocks
      BY <1>0, <3>1, LocalsOf DEF LocalOK, NothingHeld, Index
    <3>3. d = Piece(t) /\ AtBlock(t, b)
      BY <2>0, <3>1, <3>2, Domains DEF AtBlock, AtWrite, Writing
    <3>4. CarriesAt(t, b, d)
      BY <3>1, <3>3 DEF CarriesAt
    <3>5. ~ CodeFails(t)
      BY <1>0, <3>1, LocalsCode DEF LocalOK, OK
    <3> QED
      BY <2>5, <3>1, <3>4, <3>5, Moves DEF Carries
  <2>6. CASE Turn(t)
    <3>1. UNCHANGED outBufs /\ pc[t] = "turn" /\ pc'[t] \in {"write", "read", "return"}
      BY <2>6, Moves DEF Turn
    <3>2. pc'[t] = "write" /\ me'[t].res = OK /\ d = outBufs[me'[t].bufIndex] /\ AtWrite(t, b)'
      BY <2>0, <3>1 DEF AtBlock, AtWrite, Writing
    <3>3. writeIndex = me[t].bi
      BY <2>6, <3>2, Domains DEF Turn, Goto
    <3>4. me'[t].wi = me[t].bi /\ me'[t].bufIndex = me[t].bufIndex /\ me[t].res = OK
      BY <2>6, <3>2, <3>3, LocalsWrite
    <3>5. CarriesAt(t, b, d)
      BY <3>1, <3>2, <3>4 DEF CarriesAt, AtBlock, AtWrite
    <3> QED
      BY <2>6, <3>1, <3>5, Moves DEF Carries
  <2>7. CASE Release(t)
    <3>1. UNCHANGED <<outBufs, blocks>> /\ pc'[t] \in {"next", "last"} /\ pc[t] = "release"
      BY <2>7, Moves DEF Release
    <3>2. AtWrite(t, b)' /\ blocks[b].res = OK /\ d = outBufs[blocks[b].bufIndex]
      BY <2>0, <3>1 DEF AtBlock, AtWrite, Writing
    <3>3. b \in ReadyBlocks
      BY <2>7, <3>2, PlacesOfRelease
    <3>4. CarriesReady(b, d)
      BY <3>2, <3>3 DEF CarriesReady
    <3> QED
      BY <2>7, <3>1, <3>4, Moves DEF Carries
  <2>8. CASE WriteNext(t)
    <3>1. /\ UNCHANGED <<outBufs, blocks>> /\ pc'[t] = "write" /\ pc[t] = "next"
          /\ me'[t].wi = me[t].wi /\ me'[t].bufIndex = blocks[me[t].wi].bufIndex
          /\ me'[t].res = IF me[t].res = OK THEN blocks[me[t].wi].res ELSE me[t].res
      BY <2>8, Moves, LocalsWrite DEF WriteNext
    <3>2. AtWrite(t, b) /\ me[t].res = OK /\ blocks[b].res = OK /\ d = outBufs[blocks[b].bufIndex]
      BY <2>0, <3>1 DEF AtBlock, AtWrite, Writing
    <3>3. CarriesAt(t, b, d)
      BY <3>1, <3>2 DEF CarriesAt
    <3> QED
      BY <2>8, <3>1, <3>3, Moves DEF Carries
  <2> QED
    BY <2>1, <2>2, <2>3, <2>4, <2>5, <2>6, <2>7, <2>8 DEF Thread
<1>4. CarriesReady(b, d)' \/ \E u \in Threads : CarriesAt(u, b, d)'
  BY DEF Carries
<1> QED
  BY <1>1, <1>2, <1>3, <1>4
-----------------------------------------------------------------------------
(* The numbers of the blocks. *)

LEMMA TurnMoves ==
  ASSUME IInv, NEW t \in Threads, Thread(t)
  PROVE  /\ ~ Release(t) => \A a \in Blocks : IsTurn(a)' <=> IsTurn(a)
         /\ ~ Release(t) /\ ~ TakeBlock(t) => Size' = Size
         /\ TakeBlock(t) => Size' = Size + 1 /\ ~ Release(t)
         /\ Release(t) => Size' = Size - 1
         /\ Size \in 0..numBlocksMax
<1> USE DEF IInv
<1>1. Size \in 0..numBlocksMax
  BY DEF Window
<1>2. CASE Release(t)
  BY <1>1, <1>2, PlacesOfRelease, Moves
<1>3. CASE TakeBlock(t)
  <2>1. GivingBack' = GivingBack /\ blocksSemaphore' = blocksSemaphore - 1
    BY <1>3, GivingBackMoves, Moves DEF WriteNext, WriteLast, Release
  <2>2. Size' = Size + 1
    BY <2>1, GivingCounted, Domains, Parameters DEF Size
  <2>3. UNCHANGED writeIndex /\ \A u \in Threads : Writing(u)' <=> Writing(u)
    BY <1>3, Moves, OthersStay DEF TakeBlock, writeVars, Writing, StartThread
  <2>4. \A u \in Threads : Writing(u) => me'[u] = me[u]
    BY <1>3, Moves, OthersStay DEF Writing
  <2>5. \A a \in Blocks : IsTurn(a)' <=> IsTurn(a)
    BY <2>3, <2>4 DEF IsTurn, AtWrite
  <2> QED
    BY <1>1, <1>3, <2>2, <2>5, Moves
<1>4. CASE Turn(t)
  BY <1>1, <1>4, PlacesOfReady, PlacesOfWriter, Moves
<1>5. CASE Stays(t)
  <2>1. ~ Release(t) /\ ~ TakeBlock(t)
    BY <1>5, Moves, StartNotItself DEF Stays
  <2>2. Size' = Size
    BY <2>1, GivingBackMoves, GivingCounted, Domains, Parameters DEF Size
  <2> QED
    BY <1>1, <1>5, <2>1, <2>2, StayersStay DEF IsTurn
<1> QED
  BY <1>2, <1>3, <1>4, <1>5 DEF Thread, Stays

LEMMA PassedMoves ==
  ASSUME IInv, NEW t \in Threads, Thread(t), NEW n \in Nat
  PROVE  /\ Write(t) \/ WriteFails(t) => Passed(n) = n /\ Passed(n)' = n + 1
         /\ Release(t) => Passed(n) = n + 1 /\ Passed(n + 1)' = n + 1
         /\ ~ Write(t) /\ ~ WriteFails(t) /\ ~ Release(t) => Passed(n)' = Passed(n)
<1> USE DEF IInv
<1>1. CASE Write(t) \/ WriteFails(t)
  BY <1>1, Moves DEF Passed, OneWriter, Writing
<1>2. CASE Release(t)
  <2>1. \A u \in Threads : pc'[u] # "release"
    BY <1>2, Moves, OthersStay DEF OneWriter, Writing
  <2> QED
    BY <1>2, <2>1, Moves DEF Passed
<1>3. CASE ~ Write(t) /\ ~ WriteFails(t) /\ ~ Release(t)
  <2>1. \A u \in Threads : pc'[u] = "release" <=> pc[u] = "release"
    <3>1. CASE StartThread(t)
      BY <3>1, StartNotItself
    <3>2. CASE ~ StartThread(t)
      BY <1>3, <3>2, Moves, OthersStay DEF Thread
    <3> QED
      BY <3>1, <3>2
  <2> QED
    BY <1>3, <2>1 DEF Passed
<1> QED
  BY <1>1, <1>2, <1>3

LEMMA CarriedIsTaken ==
  ASSUME IInv, NEW a \in Blocks, IsTurn(a), NEW b \in Blocks, NEW d, Carries(b, d)
  PROVE  Taken(b) /\ Dist(a, b) \in Nat /\ Dist(a, b) < Size
<1> USE DEF IInv
<1>1. Taken(b)
  BY DEF Carries, CarriesReady, CarriesAt, Taken
<1>2. Dist(a, b) \in Nat
  BY Parameters DEF Dist
<1> QED
  BY <1>1, <1>2 DEF Window

LEMMA FreshDist ==
  ASSUME IInv, NEW a \in Blocks, IsTurn(a), blocksSemaphore > 0
  PROVE  Dist(a, blockIndex) = Size
<1> USE DEF IInv
<1>1. Size < numBlocksMax /\ Size \in Nat
  BY FreshPlace, Parameters DEF Window
<1>2. blockIndex = IF a + Size >= numBlocksMax THEN a + Size - numBlocksMax ELSE a + Size
  BY DEF Window
<1> QED
  BY <1>1, <1>2, Parameters DEF Dist

\* A thread that comes to its turn with a block takes part in the window.
LEMMA WriterAtTurn ==
  ASSUME IInv, NEW t \in Threads, Writing(t)
  PROVE  /\ me[t].wi \in Blocks /\ IsTurn(me[t].wi) /\ Dist(me[t].wi, me[t].wi) = 0
         /\ Size >= 1 /\ AtWrite(t, me[t].wi)
<1> USE DEF IInv
<1>1. me[t].wi \in Blocks /\ AtWrite(t, me[t].wi) /\ IsTurn(me[t].wi)
  BY LocalsOf DEF IsTurn, AtWrite
<1>2. Taken(me[t].wi)
  BY <1>1 DEF Taken
<1>3. Dist(me[t].wi, me[t].wi) = 0
  BY <1>1, Parameters DEF Dist
<1>4. Size >= 1
  BY <1>1, <1>2, <1>3, Parameters DEF Window
<1> QED
  BY <1>1, <1>3, <1>4

LEMMA PassedBelow ==
  ASSUME IInv, NEW n \in Nat
  PROVE  Passed(n) \in Nat /\ n <= Passed(n) /\ Passed(n) <= n + Size /\ Passed(n) <= n + 1
<1> USE DEF IInv
<1>1. Size \in Nat
  BY Parameters DEF Window
<1>2. (\E t \in Threads : pc[t] = "release") => Size >= 1
  BY WriterAtTurn DEF Writing
<1> QED
  BY <1>1, <1>2 DEF Passed

\* The data and its blocks stay the same.
LEMMA WholeStays ==
  ASSUME IInv, NEW t \in Threads, Thread(t)
  PROVE  UNCHANGED <<NumBlocks, Whole, dataSize>>
BY OthersStay DEF IInv, NumBlocks, Whole

LEMMA CarriedOfThread ==
  ASSUME IInv, NEW t \in Threads, Thread(t), NEW n \in Nat, Numbered(n),
         NEW m \in Nat, m = IF Release(t) THEN n + 1 ELSE n
  PROVE  CarriedNumbered(m)'
<1> USE DEF IInv
<1> SUFFICES ASSUME NEW a \in Blocks, NEW b \in Blocks, NEW d \in Data, IsTurn(a)', Carries(b, d)'
             PROVE  m + Dist(a, b) + 1 <= NumBlocks /\ d = Whole[m + Dist(a, b) + 1]
  <2>1. \A a, b \in Blocks : Dist(a, b)' = Dist(a, b)
    BY DEF Dist
  <2> QED
    BY <2>1, WholeStays DEF CarriedNumbered
<1>1. CASE Release(t)
  <2>1. a = NextBlock(me[t].wi) /\ Carries(b, d) /\ me[t].wi \in Blocks /\ IsTurn(me[t].wi)
    BY <1>1, PlacesOfRelease, CarriesOfThread, Moves
  <2>2. b # me[t].wi
    <3>1. Taken(b)'
      BY DEF Carries, CarriesReady, CarriesAt, Taken
    <3> QED
      BY <1>1, <3>1, PlacesOfRelease
  <2>3. Dist(a, b) = Dist(me[t].wi, b) - 1 /\ Dist(me[t].wi, b) \in Nat
    BY <1>1, <2>1, <2>2, PlacesOfRelease, CarriedIsTaken
  <2>4. n + Dist(me[t].wi, b) + 1 <= NumBlocks /\ d = Whole[n + Dist(me[t].wi, b) + 1]
    BY <2>1 DEF Numbered, CarriedNumbered
  <2>5. m + Dist(a, b) + 1 = n + Dist(me[t].wi, b) + 1
    BY <1>1, <2>3
  <2> QED
    BY <2>4, <2>5
<1>2. CASE ~ Release(t)
  <2>1. IsTurn(a) /\ m = n
    BY <1>2, TurnMoves
  <2>2. CASE Carries(b, d)
    BY <2>1, <2>2 DEF Numbered, CarriedNumbered
  <2>3. CASE TakeBlock(t) /\ b = blockIndex /\ progressRes = OK /\ me[t].res = OK /\ d = Piece(t)
    <3>1. Dist(a, b) = Size
      BY <2>1, <2>3, FreshDist DEF TakeBlock
    <3>2. n + Size + 1 <= NumBlocks /\ Piece(t) = Whole[n + Size + 1]
      BY <2>3, Moves DEF Numbered, ReadNumbered, Reading
    <3> QED
      BY <2>1, <2>3, <3>1, <3>2
  <2> QED
    BY <2>2, <2>3, CarriesOfThread
<1> QED
  BY <1>1, <1>2
\* What a thread writes is the block whose number is next.
LEMMA WriteIsNext ==
  ASSUME IInv, NEW t \in Threads, pc[t] = "write", me[t].res = OK, NEW n \in Nat, Numbered(n)
  PROVE  /\ ToWrite(me[t]) /\ n + 1 \in 1..NumBlocks
         /\ me[t].bufIndex \in Blocks /\ outBufs[me[t].bufIndex] = Whole[n + 1]
<1> USE DEF IInv
<1> DEFINE d == outBufs[me[t].bufIndex]
           a == me[t].wi
<1>1. a \in Blocks /\ IsTurn(a) /\ Dist(a, a) = 0 /\ AtWrite(t, a)
  BY WriterAtTurn DEF Writing
<1>2. me[t].bufIndex \in Blocks
  BY <1>1, CarriedIsHeld
<1>3. d \in Data
  BY <1>2 DEF TypeOK
<1>4. Carries(a, d)
  BY <1>1 DEF Carries, CarriesAt
<1> HIDE DEF d, a
<1>5. n + Dist(a, a) + 1 <= NumBlocks /\ d = Whole[n + Dist(a, a) + 1]
  BY <1>1, <1>3, <1>4 DEF Numbered, CarriedNumbered
<1>6. n + 1 <= NumBlocks /\ d = Whole[n + 1]
  BY <1>1, <1>5
<1>7. ToWrite(me[t])
  BY <1>2, Parameters DEF ToWrite
<1> QED
  BY <1>2, <1>6, <1>7, BlocksOfData DEF d

LEMMA WrittenStays ==
  ASSUME IInv, NEW t \in Threads, Thread(t)
  PROVE  /\ written' = IF Write(t) /\ ToWrite(me[t])
                       THEN Append(written, outBufs[me[t].bufIndex]) ELSE written
         /\ WriteFails(t) => progressRes' # OK /\ progressRes' \in Result0
<1>1. CASE Write(t)
  BY <1>1, Moves, LocalsWrite DEF IInv, Write, WriteFails
<1>2. CASE ~ Write(t)
  BY <1>2, SetErrorTyped DEF IInv, Thread, Wake, CountOut, Compare, StopReading, ReadNothing, ReadBlock,
     ReadFails, TakeBlock, StartThread, CountThread, StartThreadFails, TakeBuffer, Code, CodeFails,
     Turn, WriteFails, Release, WriteNext, WriteLast, Result0, OK
<1> QED
  BY <1>1, <1>2

LEMMA AppendIs ==
  ASSUME TypeOK, NEW d \in Data
  PROVE  /\ Len(written) \in Nat /\ DOMAIN written = 1..Len(written)
         /\ DOMAIN Append(written, d) = 1..(Len(written) + 1)
         /\ Len(Append(written, d)) = Len(written) + 1
         /\ \A i \in 1..Len(written) : Append(written, d)[i] = written[i]
         /\ Append(written, d)[Len(written) + 1] = d
BY DEF TypeOK

LEMMA WrittenOfThread ==
  ASSUME IInv, NEW t \in Threads, Thread(t), NEW n \in Nat, Numbered(n),
         NEW m \in Nat, m = IF Release(t) THEN n + 1 ELSE n
  PROVE  WrittenNumbered(m)'
<1> USE DEF IInv
<1>1. Passed(n) \in Nat /\ Passed(m)' \in Nat /\ Passed(n) <= Passed(m)'
  BY PassedBelow, PassedMoves
<1>2. \A i \in DOMAIN written : \E k \in 1..NumBlocks : k <= Passed(n) /\ written[i] = Whole[k]
  BY DEF Numbered, WrittenNumbered
<1>3. \A i, j \in DOMAIN written : i < j => written[i].from < written[j].from
  BY DEF Numbered, WrittenNumbered
<1>4. NumBlocks \in Nat
  BY BlocksOfData
<1>5. CASE UNCHANGED written
  BY <1>1, <1>2, <1>3, <1>4, <1>5, WholeStays DEF WrittenNumbered
<1>6. CASE Write(t) /\ ToWrite(me[t])
  <2> DEFINE d == outBufs[me[t].bufIndex]
  <2>1. pc[t] = "write" /\ me[t].res = OK /\ m = n
    BY <1>6, Moves DEF ToWrite, Release
  <2>2. n + 1 \in 1..NumBlocks /\ d = Whole[n + 1] /\ d \in Data
    BY <2>1, WriteIsNext, WholeIs
  <2>3. Passed(n) = n /\ Passed(m)' = n + 1
    BY <1>6, <2>1, PassedMoves
  <2>4. written' = Append(written, d)
    BY <1>6, WrittenStays
  <2> HIDE DEF d
  <2>5. /\ DOMAIN written = 1..Len(written) /\ Len(written) \in Nat
        /\ DOMAIN written' = 1..(Len(written) + 1)
        /\ \A i \in 1..Len(written) : written'[i] = written[i]
        /\ written'[Len(written) + 1] = d
    BY <2>2, <2>4, AppendIs
  <2>6. \A i \in DOMAIN written' : \E k \in 1..NumBlocks : k <= Passed(m)' /\ written'[i] = Whole[k]
    <3> TAKE i \in DOMAIN written'
    <3>1. CASE i = Len(written) + 1
      BY <2>2, <2>3, <2>5, <3>1
    <3>2. CASE i # Len(written) + 1
      <4>1. i \in DOMAIN written /\ written'[i] = written[i]
        BY <2>5, <3>2
      <4>2. PICK k \in 1..NumBlocks : k <= Passed(n) /\ written[i] = Whole[k]
        BY <1>2, <4>1
      <4> QED
        BY <1>1, <1>4, <4>1, <4>2
    <3> QED
      BY <3>1, <3>2
  <2>7. \A i, j \in DOMAIN written' : i < j => written'[i].from < written'[j].from
    <3> SUFFICES ASSUME NEW i \in DOMAIN written', NEW j \in DOMAIN written', i < j
                 PROVE  written'[i].from < written'[j].from
      OBVIOUS
    <3>1. i \in DOMAIN written /\ written'[i] = written[i]
      BY <2>5
    <3>2. CASE j = Len(written) + 1
      <4>1. PICK k \in 1..NumBlocks : k <= n /\ written[i] = Whole[k]
        BY <1>2, <2>3, <3>1
      <4>2. Whole[k].from < Whole[n + 1].from
        BY <2>2, <4>1, WholeInOrder, BlocksOfData
      <4> QED
        BY <2>2, <2>5, <3>1, <3>2, <4>1, <4>2
    <3>3. CASE j # Len(written) + 1
      <4>1. j \in DOMAIN written /\ written'[j] = written[j]
        BY <2>5, <3>3
      <4> QED
        BY <1>3, <3>1, <4>1
    <3> QED
      BY <3>2, <3>3
  <2> QED
    BY <2>6, <2>7, WholeStays DEF WrittenNumbered
<1> QED
  BY <1>5, <1>6, WrittenStays

LEMMA FirstErrorStays ==
  ASSUME IInv, NEW t \in Threads, Thread(t)
  PROVE  /\ progressRes' = OK => progressRes = OK
         /\ progressRes # OK => progressRes' # OK
         /\ CodeFails(t) \/ StartThreadFails(t) \/ WriteFails(t) \/ ReadFails(t) => progressRes' # OK
         /\ progressRes = OK /\ progressRes' # OK =>
              CodeFails(t) \/ StartThreadFails(t) \/ WriteFails(t) \/ ReadFails(t)
<1> USE DEF IInv, Result0
<1>1. CASE CodeFails(t) \/ StartThreadFails(t) \/ WriteFails(t)
  <2>1. \E r \in {"CODE", "THREAD", "WRITE"} : SetError(r)
    BY <1>1 DEF CodeFails, StartThreadFails, WriteFails
  <2> QED
    BY <1>1, <2>1, SetErrorTyped DEF OK
<1>2. CASE ReadFails(t)
  <2>1. SetError(readRes') /\ readRes' \in {"MEM", "READ"}
    BY <1>2 DEF ReadFails
  <2> QED
    BY <1>2, <2>1, SetErrorTyped DEF OK
<1>3. CASE ~ CodeFails(t) /\ ~ StartThreadFails(t) /\ ~ WriteFails(t) /\ ~ ReadFails(t)
  <2>1. UNCHANGED progressRes
    BY <1>3 DEF Thread, Wake, CountOut, Compare, StopReading, ReadNothing, ReadBlock,
       TakeBlock, StartThread, CountThread, TakeBuffer, Code, Turn, Write, Release, WriteNext,
       WriteLast
  <2> QED
    BY <1>3, <2>1
<1> QED
  BY <1>1, <1>2, <1>3

LEMMA AllWrittenOfThread ==
  ASSUME IInv, NEW t \in Threads, Thread(t), NEW n \in Nat, Numbered(n),
         NEW m \in Nat, m = IF Release(t) THEN n + 1 ELSE n, progressRes' = OK
  PROVE  AllWritten(m)'
<1> USE DEF IInv
<1>1. progressRes = OK /\ AllWritten(n)
  BY FirstErrorStays DEF Numbered
<1>2. CASE Write(t)
  <2> DEFINE d == outBufs[me[t].bufIndex]
  <2>1. pc[t] = "write" /\ me[t].res = OK /\ m = n
    BY <1>1, <1>2, Moves DEF ErrorsTold, Release
  <2>2. n + 1 \in 1..NumBlocks /\ d = Whole[n + 1] /\ d \in Data /\ ToWrite(me[t])
    BY <2>1, WriteIsNext, WholeIs
  <2>3. Passed(n) = n /\ Passed(m)' = n + 1
    BY <1>2, <2>1, PassedMoves
  <2>4. written' = Append(written, d)
    BY <1>2, <2>2, WrittenStays
  <2> HIDE DEF d
  <2>5. /\ Len(written) = n /\ Len(written') = n + 1
        /\ \A i \in 1..n : written'[i] = written[i]
        /\ written'[n + 1] = d
    BY <1>1, <2>2, <2>3, <2>4, AppendIs DEF AllWritten
  <2>6. \A i \in 1..(n + 1) : written'[i] = Whole[i]
    <3> TAKE i \in 1..(n + 1)
    <3>1. CASE i = n + 1
      BY <2>2, <2>5, <3>1
    <3>2. CASE i # n + 1
      BY <1>1, <2>3, <2>5, <3>2 DEF AllWritten
    <3> QED
      BY <3>1, <3>2
  <2> QED
    BY <2>2, <2>3, <2>5, <2>6, WholeStays, BlocksOfData DEF AllWritten
<1>3. CASE ~ Write(t)
  <2>1. ~ WriteFails(t) /\ UNCHANGED written
    BY <1>3, WrittenStays
  <2>2. Passed(m)' = Passed(n)
    BY <1>3, <2>1, PassedMoves
  <2> QED
    BY <1>1, <2>1, <2>2, WholeStays DEF AllWritten
<1> QED
  BY <1>2, <1>3
\* The baton is given to one reader only, and nobody else takes a place.
LEMMA ReadOfThread ==
  ASSUME IInv, NEW t \in Threads, Thread(t), NEW n \in Nat, Numbered(n),
         NEW m \in Nat, m = IF Release(t) THEN n + 1 ELSE n, progressRes' = OK
  PROVE  ReadNumbered(m)'
<1> USE DEF IInv
<1>1. progressRes = OK /\ ReadNumbered(n)
  BY FirstErrorStays DEF Numbered
<1>2. Size \in Nat /\ NumBlocks \in Nat \ {0} /\ UNCHANGED <<NumBlocks, Whole, dataSize>>
  BY TurnMoves, BlocksOfData, WholeStays, Parameters
<1>3. CASE ReadBlock(t)
  <2>1. readEvent /\ ~ stopReading /\ UNCHANGED stopReading /\ readProcessed' = readProcessed + ReadSize
          /\ m = n /\ Size' = Size /\ ~ TakeBlock(t)
    BY <1>3, TurnMoves, Moves DEF ReadBlock, TakeBaton, Release
  <2>2. \A u \in Threads : ~ HasBaton(u)
    BY <2>1 DEF OneReader
  <2>3. n + Size < NumBlocks /\ readProcessed = (n + Size) * BlockSize
    BY <1>1, <2>1, <2>2 DEF ReadNumbered, Reading, HasBaton
  <2> DEFINE k == n + Size + 1
  <2>4. k \in 1..NumBlocks /\ readProcessed = (k - 1) * BlockSize
    BY <1>2, <2>3
  <2>5. /\ ReadSize = Whole[k].size /\ (LastRead <=> k = NumBlocks)
        /\ readProcessed + ReadSize = IF k = NumBlocks THEN dataSize ELSE k * BlockSize
    BY <2>4, ReadIsNext
  <2>6. Whole[k] = [from |-> (k - 1) * BlockSize, size |-> Whole[k].size, finished |-> (k = NumBlocks)]
    BY <2>4, WholeIs
  <2>7. Piece(t)' = Whole[k]
    <3>1. /\ me'[t].finished = LastRead
          /\ me'[t].data = [from |-> readProcessed, size |-> ReadSize, finished |-> FALSE]
      BY <1>3, LocalsRead
    <3>2. LastRead = (k = NumBlocks)
      BY <2>5, ReadTyped
    <3>3. Piece(t)' = [from |-> readProcessed, size |-> ReadSize, finished |-> LastRead]
      BY <3>1 DEF Piece
    <3> QED
      BY <2>4, <2>5, <2>6, <3>2, <3>3
  <2>8. pc'[t] = "take" /\ \A u \in Threads \ {t} : pc'[u] \notin {"take", "start", "count"}
    BY <1>3, <2>2, Moves, OthersStay DEF HasBaton, StartThread
  <2> QED
    BY <1>2, <2>1, <2>4, <2>5, <2>7, <2>8 DEF ReadNumbered, Reading
<1>4. CASE TakeBlock(t)
  <2>1. pc[t] = "take" /\ pc'[t] \in {"start", "buffer", "turn"} /\ m = n /\ Size' = Size + 1
          /\ UNCHANGED readProcessed
    BY <1>4, TurnMoves, Moves DEF TakeBlock
  <2>2. \A u \in Threads \ {t} : pc'[u] \notin {"take", "start", "count"}
    BY <1>4, <2>1, OthersStay, Moves DEF OneReader, HasBaton, StartThread
  <2> DEFINE k == n + Size + 1
  <2>3. /\ k <= NumBlocks /\ Piece(t) = Whole[k] /\ ~ stopReading
        /\ readProcessed = IF k = NumBlocks THEN dataSize ELSE k * BlockSize
    BY <1>1, <2>1 DEF ReadNumbered, Reading
  <2>4. TakenRes(t) = OK /\ TakenFinished(t) = me[t].finished
    BY <1>1, <2>1, LocalsOf DEF ErrorsTold, TakenRes, TakenFinished
  <2>5. me[t].finished <=> k = NumBlocks
    <3>1. Piece(t).finished = me[t].finished
      BY LocalsOf DEF Piece, Data
    <3>2. k \in 1..NumBlocks
      BY <1>2, <2>3
    <3>3. Whole[k].finished = (k = NumBlocks)
      BY <3>2, WholeIs
    <3> QED
      BY <2>3, <3>1, <3>3
  <2>6. n + Size' = k /\ k \in Nat
    BY <1>2, <2>1
  <2> HIDE DEF k
  <2>7. CASE MoreThreads(TakenFinished(t))
    <3>1. pc'[t] = "start" /\ ~ stopReading' /\ k # NumBlocks
      BY <1>4, <2>3, <2>4, <2>5, <2>7, LocalsTake DEF MoreThreads
    <3> QED
      BY <1>2, <2>1, <2>2, <2>3, <2>6, <3>1 DEF ReadNumbered, Reading
  <2>8. CASE ~ MoreThreads(TakenFinished(t))
    <3>1. pc'[t] = "buffer" /\ stopReading' = (stopReading \/ me[t].finished)
      BY <1>4, <2>4, <2>8, LocalsTake
    <3>2. stopReading' <=> k = NumBlocks
      BY <2>3, <2>5, <3>1
    <3> QED
      BY <1>2, <2>1, <2>2, <2>3, <2>6, <3>1, <3>2 DEF ReadNumbered, Reading
  <2> QED
    BY <2>7, <2>8
<1>5. CASE ~ ReadBlock(t) /\ ~ TakeBlock(t)
  <2>1. ~ ReadFails(t) /\ ~ StartThreadFails(t) /\ ~ CodeFails(t) /\ ~ WriteFails(t) /\ ~ ReadNothing(t)
    BY <1>1, FirstErrorStays DEF ReadNothing
  <2>2. UNCHANGED <<stopReading, readProcessed>>
    BY <1>5, <2>1 DEF Thread, Wake, CountOut, Compare, StopReading, StartThread, CountThread,
       TakeBuffer, Code, Turn, Write, Release, WriteNext, WriteLast, readVars
  <2>3. m + Size' = n + Size
    BY <1>2, <1>5, TurnMoves
  <2>4. \A u \in Threads : /\ Reading(u)' <=> Reading(u)
                           /\ Reading(u) => me'[u] = me[u]
                           /\ pc'[u] \in {"start", "count"} => pc[u] \in {"start", "count"}
    <3>1. CASE StartThread(t)
      BY <3>1, StartNotItself, SameLocals DEF Reading
    <3>2. CASE ~ StartThread(t)
      <4>1. pc[t] # "take" /\ pc'[t] # "take" /\ pc'[t] \notin {"start", "count"}
        BY <1>5, <2>1, <3>2, Moves DEF Thread
      <4> QED
        BY <3>2, <4>1, OthersStay DEF Reading
    <3> QED
      BY <3>1, <3>2
  <2>5. \A u \in Threads : Reading(u) => Piece(u)' = Piece(u)
    BY <2>4 DEF Piece
  <2> DEFINE s == n + Size
  <2>6. \A u \in Threads : Reading(u) =>
             /\ s + 1 <= NumBlocks /\ Piece(u) = Whole[s + 1]
             /\ ~ stopReading
             /\ readProcessed = IF s + 1 = NumBlocks THEN dataSize ELSE (s + 1) * BlockSize
    BY <1>1 DEF ReadNumbered
  <2>7. /\ \A u \in Threads : pc[u] \in {"start", "count"} => s < NumBlocks /\ ~ stopReading
        /\ ~ stopReading /\ (\A u \in Threads : ~ Reading(u)) =>
              s < NumBlocks /\ readProcessed = s * BlockSize
        /\ stopReading => s = NumBlocks
    BY <1>1 DEF ReadNumbered
  <2>8. m + Size' = s
    BY <2>3
  <2> HIDE DEF s
  <2> QED
    BY <1>2, <2>2, <2>4, <2>5, <2>6, <2>7, <2>8 DEF ReadNumbered
<1> QED
  BY <1>3, <1>4, <1>5

LEMMA NumberedOfThread ==
  ASSUME IInv, NEW t \in Threads, Thread(t)
  PROVE  \E m \in Nat : Numbered(m)'
<1>1. PICK n \in Nat : Numbered(n)
  BY DEF IInv
<1>2. PICK m \in Nat : m = IF Release(t) THEN n + 1 ELSE n
  OBVIOUS
<1>3. CarriedNumbered(m)' /\ WrittenNumbered(m)'
  BY <1>1, <1>2, CarriedOfThread, WrittenOfThread
<1>4. progressRes' = OK => AllWritten(m)' /\ ReadNumbered(m)'
  BY <1>1, <1>2, AllWrittenOfThread, ReadOfThread
<1>5. Numbered(m)'
  BY <1>3, <1>4 DEF Numbered, OK
<1> QED
  BY <1>5
-----------------------------------------------------------------------------
(* Errors. *)

\* A block whose number is not passed yet and that nobody carries is lost.
LEMMA LostIfNotCarried ==
  ASSUME IInv, NEW t \in Threads, Thread(t), NEW n \in Nat, Numbered(n),
         NEW k \in 1..NumBlocks, k > Passed(n), UNCHANGED written,
         \A b \in Blocks : \A d \in Data : Carries(b, d)' => d # Whole[k]
  PROVE  Lost(k)'
<1> USE DEF IInv
<1>1. ASSUME NEW i \in DOMAIN written PROVE written[i] # Whole[k]
  <2>1. PICK j \in 1..NumBlocks : j <= Passed(n) /\ written[i] = Whole[j]
    BY DEF Numbered, WrittenNumbered
  <2>2. j # k
    BY <2>1, PassedBelow, BlocksOfData
  <2> QED
    BY <2>1, <2>2, WholeInOrder
<1> QED
  BY <1>1, WholeStays DEF Lost

\* The block of a place is lost when the place stops carrying it.
LEMMA LostWithPlace ==
  ASSUME IInv, NEW t \in Threads, Thread(t), NEW n \in Nat, Numbered(n),
         NEW a \in Blocks, IsTurn(a), NEW c \in Blocks, NEW e \in Data, Carries(c, e),
         \A b \in Blocks : \A d \in Data : Carries(b, d)' => Carries(b, d) /\ b # c,
         UNCHANGED written, n + Dist(a, c) + 1 > Passed(n)
  PROVE  \E k \in 1..NumBlocks : Lost(k)'
<1> USE DEF IInv
<1> DEFINE k == n + Dist(a, c) + 1
<1>1. k \in 1..NumBlocks
  BY CarriedIsTaken, BlocksOfData DEF Numbered, CarriedNumbered
<1>2. ASSUME NEW b \in Blocks, NEW d \in Data, Carries(b, d)' PROVE d # Whole[k]
  <2>1. Carries(b, d) /\ b # c
    BY <1>2
  <2>2. n + Dist(a, b) + 1 <= NumBlocks /\ d = Whole[n + Dist(a, b) + 1] /\ Dist(a, b) \in Nat
    BY <2>1, CarriedIsTaken DEF Numbered, CarriedNumbered
  <2>3. Dist(a, b) # Dist(a, c)
    BY <2>1, Parameters DEF Dist
  <2>4. n + Dist(a, b) + 1 \in 1..NumBlocks /\ n + Dist(a, b) + 1 # k
    BY <2>2, <2>3, CarriedIsTaken, BlocksOfData
  <2> QED
    BY <1>1, <2>2, <2>4, WholeInOrder
<1> HIDE DEF k
<1>3. k > Passed(n)
  BY DEF k
<1> QED
  BY <1>1, <1>2, <1>3, LostIfNotCarried

LEMMA LostOfThread ==
  ASSUME IInv, NEW t \in Threads, Thread(t)
  PROVE  SomethingLost'
<1> USE DEF IInv
<1>1. CASE progressRes # OK
  <2>1. PICK k \in 1..NumBlocks : Lost(k)
    BY <1>1 DEF SomethingLost
  <2>2. ASSUME NEW b \in Blocks, NEW d \in Data, Carries(b, d)' PROVE d # Whole[k]
    BY <1>1, <2>1, <2>2, CarriesOfThread DEF Lost
  <2>3. ASSUME NEW i \in DOMAIN written' PROVE written'[i] # Whole[k]
    <3>1. CASE UNCHANGED written
      BY <2>1, <3>1 DEF Lost
    <3>2. CASE Write(t) /\ ToWrite(me[t])
      <4> DEFINE d == outBufs[me[t].bufIndex]
      <4>1. pc[t] = "write" /\ me[t].res = OK
        BY <3>2, Moves DEF ToWrite
      <4>2. me[t].wi \in Blocks /\ AtWrite(t, me[t].wi)
        BY <4>1, WriterAtTurn DEF Writing
      <4>3. Carries(me[t].wi, d) /\ d \in Data
        <5>1. me[t].bufIndex \in Blocks
          BY <4>1, <4>2, CarriedIsHeld
        <5> QED
          BY <4>1, <4>2, <5>1 DEF Carries, CarriesAt, TypeOK
      <4>4. d # Whole[k]
        BY <2>1, <4>2, <4>3 DEF Lost
      <4>5. written' = Append(written, d)
        BY <3>2, WrittenStays
      <4> HIDE DEF d
      <4>6. /\ Len(written) \in Nat /\ DOMAIN written = 1..Len(written)
            /\ DOMAIN written' = 1..(Len(written) + 1) /\ written'[Len(written) + 1] = d
            /\ \A j \in 1..Len(written) : written'[j] = written[j]
        BY <4>3, <4>5, AppendIs
      <4>7. i = Len(written) + 1 \/ i \in DOMAIN written
        BY <4>6
      <4> QED
        BY <2>1, <4>4, <4>6, <4>7 DEF Lost
    <3> QED
      BY <3>1, <3>2, WrittenStays
  <2> QED
    BY <2>1, <2>2, <2>3, WholeStays DEF SomethingLost, Lost
<1>2. CASE progressRes = OK /\ progressRes' # OK
  <2>0. PICK n \in Nat : Numbered(n)
    OBVIOUS
  <2>1. UNCHANGED written
    BY <1>2, WrittenStays, FirstErrorStays DEF Write
  <2>2. CASE CodeFails(t) \/ StartThreadFails(t)
    <3> DEFINE c == me[t].bi
               e == Piece(t)
    <3>1. AtBlock(t, c) /\ c \in Blocks /\ e \in Data /\ pc[t] # "turn"
      BY <2>2, Moves, LocalsOf DEF AtBlock
    <3>2. Carries(c, e)
      BY <3>1 DEF Carries, CarriesAt
    <3>3. PICK a \in Blocks : IsTurn(a)
      BY TurnExists
    <3>4. \A b \in Blocks : \A d \in Data : Carries(b, d)' => Carries(b, d) /\ b # c
      BY <2>2, CarriesOfThread, Moves
    <3>5. n + Dist(a, c) + 1 > Passed(n)
      <4>1. Dist(a, c) \in Nat
        BY <3>1, <3>2, <3>3, CarriedIsTaken
      <4>2. ASSUME NEW u \in Threads, pc[u] = "release" PROVE Dist(a, c) # 0
        <5>1. me[u].wi \in Blocks /\ AtWrite(u, me[u].wi) /\ IsTurn(me[u].wi)
          BY <4>2, WriterAtTurn DEF Writing
        <5>2. a = me[u].wi
          BY <3>3, <5>1, TurnExists
        <5>3. a # c
          BY <3>1, <5>1, <5>2 DEF PlacesApart
        <5> QED
          BY <3>1, <3>3, <5>3, Parameters DEF Dist
      <4> QED
        BY <4>1, <4>2 DEF Passed
    <3> HIDE DEF c, e
    <3>6. \E k \in 1..NumBlocks : Lost(k)'
      BY <2>0, <2>1, <3>1, <3>2, <3>3, <3>4, <3>5, LostWithPlace
    <3> QED
      BY <3>6, WholeStays DEF SomethingLost
  <2>3. CASE WriteFails(t)
    <3> DEFINE c == me[t].wi
               e == outBufs[me[t].bufIndex]
    <3>1. pc[t] = "write" /\ me[t].res = OK
      BY <2>3, Moves DEF WriteFails, ToWrite
    <3>2. c \in Blocks /\ AtWrite(t, c) /\ IsTurn(c) /\ Dist(c, c) = 0
      BY <3>1, WriterAtTurn DEF Writing
    <3>3. e \in Data
      <4>1. me[t].bufIndex \in Blocks
        BY <3>1, <3>2, CarriedIsHeld
      <4> QED
        BY <4>1 DEF TypeOK
    <3>4. Carries(c, e)
      BY <3>1, <3>2 DEF Carries, CarriesAt
    <3>5. \A b \in Blocks : \A d \in Data : Carries(b, d)' => Carries(b, d) /\ b # c
      BY <2>3, CarriesOfThread, Moves
    <3>6. n + Dist(c, c) + 1 > Passed(n)
      BY <2>3, <3>2, PassedMoves
    <3> HIDE DEF c, e
    <3>7. \E k \in 1..NumBlocks : Lost(k)'
      BY <2>0, <2>1, <3>2, <3>3, <3>4, <3>5, <3>6, LostWithPlace
    <3> QED
      BY <3>7, WholeStays DEF SomethingLost
  <2>4. CASE ReadFails(t)
    <3>1. readEvent /\ ~ stopReading /\ ~ TakeBlock(t)
      BY <2>4, Moves DEF ReadFails, TakeBaton
    <3>2. \A u \in Threads : ~ Reading(u)
      BY <3>1 DEF OneReader, HasBaton, Reading
    <3>3. n + Size < NumBlocks /\ Size \in Nat
      BY <1>2, <2>0, <3>1, <3>2, TurnMoves, Parameters DEF Numbered, ReadNumbered
    <3>4. PICK k \in 1..NumBlocks : k = n + Size + 1
      BY <3>3, BlocksOfData
    <3>5. PICK a \in Blocks : IsTurn(a)
      BY TurnExists
    <3>6. ASSUME NEW b \in Blocks, NEW d \in Data, Carries(b, d)' PROVE d # Whole[k]
      <4>1. Carries(b, d)
        BY <3>1, <3>6, CarriesOfThread
      <4>2. Dist(a, b) \in Nat /\ Dist(a, b) < Size
        BY <3>5, <4>1, CarriedIsTaken
      <4>3. n + Dist(a, b) + 1 <= NumBlocks /\ d = Whole[n + Dist(a, b) + 1]
        BY <2>0, <3>5, <4>1 DEF Numbered, CarriedNumbered
      <4>4. n + Dist(a, b) + 1 \in 1..NumBlocks /\ n + Dist(a, b) + 1 # k
        BY <3>3, <3>4, <4>2, <4>3, BlocksOfData
      <4> QED
        BY <3>4, <4>3, <4>4, WholeInOrder
    <3> k > Passed(n)
      BY <3>3, <3>4, PassedBelow
    <3>7. Lost(k)'
      BY <2>0, <2>1, <3>4, <3>6, LostIfNotCarried
    <3> QED
      BY <3>4, <3>7, WholeStays DEF SomethingLost
  <2> QED
    BY <1>2, <2>2, <2>3, <2>4, FirstErrorStays
<1>3. CASE progressRes' = OK
  BY <1>3 DEF SomethingLost, OK
<1> QED
  BY <1>1, <1>2, <1>3
\* What is marked as the end of reading stays, and an error too.
LEMMA TellingOfThread ==
  ASSUME IInv, NEW t \in Threads, Thread(t)
  PROVE  stopReading => stopReading'
<1> USE DEF IInv
<1>1. CASE TakeBlock(t)
  BY <1>1, LocalsTake, Domains
<1>2. CASE StartThreadFails(t)
  BY <1>2 DEF StartThreadFails
<1>3. CASE ~ TakeBlock(t) /\ ~ StartThreadFails(t)
  <2>1. UNCHANGED stopReading
    BY <1>3 DEF Thread, Wake, CountOut, Compare, StopReading, ReadNothing, ReadBlock, ReadFails,
       StartThread, CountThread, TakeBuffer, Code, CodeFails, Turn, Write, WriteFails, Release,
       WriteNext, WriteLast, readVars
  <2> QED
    BY <2>1
<1> QED
  BY <1>1, <1>2, <1>3

LEMMA ReadyTold ==
  ASSUME IInv, NEW t \in Threads, Thread(t), NEW b \in ReadyBlocks'
  PROVE  /\ blocks'[b].res # OK => progressRes' # OK
         /\ blocks'[b].finished => stopReading'
<1> USE DEF IInv
<1>1. CASE b \in ReadyBlocks
  BY <1>1, ReadyStays, TellingOfThread, FirstErrorStays DEF ErrorsTold
<1>2. CASE b \notin ReadyBlocks
  <2>1. Turn(t) /\ writeIndex # me[t].bi
    <3>1. ~ Stays(t) /\ ~ TakeBlock(t) /\ ~ Release(t)
      BY <1>2, StayersStay, PlacesOfRelease DEF TakeBlock, writeVars
    <3>2. Turn(t)
      BY <3>1 DEF Thread, Stays
    <3> QED
      BY <1>2, <3>2, PlacesOfWriter
  <2>2. b = me[t].bi /\ UNCHANGED blocks /\ pc[t] = "turn"
    BY <1>2, <2>1, PlacesOfReady, Moves
  <2>3. blocks[b].res = me[t].res /\ blocks[b].finished = me[t].finished
    <3>1. blocks[me[t].bi] = [res |-> me[t].res, bufIndex |-> me[t].bufIndex,
                              finished |-> me[t].finished]
      BY <2>2 DEF LocalInv, LocalOK
    <3> QED
      BY <2>2, <3>1
  <2> QED
    BY <2>2, <2>3, TellingOfThread, FirstErrorStays DEF ErrorsTold
<1> QED
  BY <1>1, <1>2

\* What the error clauses say of one thread.
Told(t) ==
    /\ pc[t] \in {"take", "turn", "write", "release", "next", "last"} /\ me[t].res # OK =>
           progressRes # OK
    /\ pc[t] = "next" /\ blocks[me[t].wi].res # OK => progressRes # OK
    /\ pc[t] \in {"return", "compare"} => stopReading \/ progressRes # OK
    /\ pc[t] \in {"turn", "buffer", "code", "write", "release", "last"} /\ me[t].finished => stopReading
    /\ pc[t] = "next" /\ blocks[me[t].wi].finished => stopReading

LEMMA ToldOfOthers ==
  ASSUME IInv, NEW t \in Threads, Thread(t), NEW u \in Threads \ {t}
  PROVE  Told(u)'
<1> USE DEF IInv
<1>1. me'[u] = me[u]
  BY OthersStay
<1>2. CASE pc'[u] # pc[u]
  <2>1. pc'[u] = "idle"
    BY <1>2, OthersStay
  <2> QED
    BY <2>1 DEF Told
<1>3. CASE pc'[u] = pc[u]
  <2>1. Told(u)
    BY DEF Told, ErrorsTold
  <2>2. pc[u] = "next" => blocks'[me[u].wi] = blocks[me[u].wi]
    <3>1. pc[u] = "next" => AtWrite(u, me[u].wi) /\ me[u].wi \in Blocks
      BY LocalsOf DEF AtWrite, Writing
    <3> QED
      BY <3>1, OtherBlocksStay, OwnerIsOne DEF Taken
  <2> QED
    BY <1>1, <1>3, <2>1, <2>2, TellingOfThread, FirstErrorStays DEF Told, OK
<1> QED
  BY <1>2, <1>3

LEMMA ToldOfItself ==
  ASSUME IInv, NEW t \in Threads, Thread(t)
  PROVE  Told(t)'
<1> USE DEF IInv
<1>0. /\ Told(t) /\ LocalOK(t) /\ (stopReading => stopReading')
      /\ (progressRes # OK => progressRes' # OK) /\ me[t].finished \in BOOLEAN
      /\ (readRes # OK \/ writeRes # OK => progressRes # OK)
      /\ pc'[t] = "next" => me'[t].wi \in Blocks
  <2>1. Told(t)
    BY DEF Told, ErrorsTold
  <2>2. pc'[t] = "next" => me'[t].wi \in Blocks
    <3>1. pc'[t] = "next" => Release(t)
      <4>1. CASE StartThread(t)
        BY <4>1, StartNotItself
      <4> QED
        BY <4>1, Moves DEF Thread
    <3> QED
      BY <3>1, LocalsWrite, PlacesOfRelease
  <2> QED
    BY <2>1, <2>2, TellingOfThread, FirstErrorStays, LocalsOf DEF LocalInv, ErrorsTold
<1>1. CASE Wake(t) \/ CountOut(t) \/ Compare(t) \/ StopReading(t)
  <2>1. StopReading(t) => stopReading
    BY DEF StopReading
  <2> QED
    BY <1>0, <1>1, <2>1, Moves DEF Told
<1>2. CASE ReadNothing(t)
  <2>1. pc'[t] = "take" /\ progressRes' # OK
    BY <1>0, <1>2, Moves DEF ReadNothing
  <2> QED
    BY <2>1 DEF Told, OK
<1>3. CASE ReadBlock(t)
  <2>1. pc'[t] = "take" /\ me'[t].res = OK
    BY <1>3, Moves, LocalsRead
  <2> QED
    BY <2>1 DEF Told, OK
<1>4. CASE ReadFails(t)
  <2>1. pc'[t] = "take" /\ progressRes' # OK
    BY <1>4, Moves, FirstErrorStays
  <2> QED
    BY <2>1 DEF Told, OK
<1>5. CASE TakeBlock(t)
  <2>1. pc[t] = "take"
    BY <1>5, Moves
  <2>2. TakenRes(t) # OK => progressRes' # OK
    BY <1>0, <2>1 DEF TakenRes, Told
  <2>3. CASE MoreThreads(TakenFinished(t))
    <3>1. pc'[t] = "start"
      BY <1>5, <2>3, LocalsTake
    <3> QED
      BY <3>1 DEF Told
  <2>4. CASE ~ MoreThreads(TakenFinished(t))
    <3>1. /\ pc'[t] \in {"buffer", "turn"} /\ me'[t].res = TakenRes(t)
          /\ me'[t].finished = TakenFinished(t)
          /\ stopReading' = (stopReading \/ TakenFinished(t))
      BY <1>5, <2>4, LocalsTake
    <3> QED
      BY <2>2, <3>1 DEF Told, OK
  <2> QED
    BY <2>3, <2>4
<1>6. CASE StartThread(t) \/ CountThread(t)
  <2>1. pc[t] \in {"start", "count"} /\ pc'[t] \in {"count", "buffer"} /\ UNCHANGED me
    BY <1>6, Moves, StartNotItself, SameLocals
  <2> QED
    BY <1>0, <2>1 DEF Told, LocalOK
<1>7. CASE StartThreadFails(t)
  <2>1. pc'[t] = "turn" /\ progressRes' # OK /\ stopReading'
    BY <1>7, Moves, FirstErrorStays DEF StartThreadFails
  <2> QED
    BY <2>1 DEF Told, OK
<1>8. CASE TakeBuffer(t) \/ Code(t)
  <2>1. /\ pc[t] \in {"buffer", "code"} /\ pc'[t] \in {"code", "turn"}
        /\ me'[t].res = me[t].res /\ me'[t].finished = me[t].finished
    BY <1>8, Moves, LocalsCode, SameLocals
  <2> QED
    BY <1>0, <2>1 DEF Told, LocalOK, OK
<1>9. CASE CodeFails(t)
  <2>1. pc[t] = "code" /\ pc'[t] = "turn" /\ progressRes' # OK /\ me'[t].finished = me[t].finished
    BY <1>9, Moves, FirstErrorStays, LocalsCode
  <2> QED
    BY <1>0, <2>1 DEF Told, OK
<1>10. CASE Turn(t)
  <2>1. CASE writeIndex = me[t].bi
    <3>1. /\ pc[t] = "turn" /\ pc'[t] = "write" /\ me'[t].finished = me[t].finished
          /\ me'[t].res = IF writeRes # OK THEN writeRes ELSE me[t].res
      BY <1>10, <2>1, LocalsWrite, Domains DEF Turn, Goto
    <3> QED
      BY <1>0, <3>1 DEF Told, OK
  <2>2. CASE writeIndex # me[t].bi
    <3>1. pc[t] = "turn" /\ pc'[t] = IF Leaving(me[t]) THEN "return" ELSE "read"
      BY <1>10, <2>2, Domains DEF Turn, Goto
    <3> QED
      BY <1>0, <3>1 DEF Told, OK, Leaving
  <2> QED
    BY <2>1, <2>2
<1>11. CASE Write(t)
  <2>1. pc[t] = "write" /\ pc'[t] = "release" /\ UNCHANGED me
    BY <1>11, Moves, SameLocals
  <2> QED
    BY <1>0, <2>1 DEF Told, OK
<1>12. CASE WriteFails(t)
  <2>1. pc[t] = "write" /\ pc'[t] = "release" /\ progressRes' # OK /\ me'[t].finished = me[t].finished
    BY <1>12, Moves, FirstErrorStays, LocalsWrite
  <2> QED
    BY <1>0, <2>1 DEF Told, OK
<1>13. CASE Release(t)
  <2>1. /\ pc[t] = "release" /\ pc'[t] \in {"next", "last"} /\ UNCHANGED blocks
        /\ me'[t].res = me[t].res /\ me'[t].finished = me[t].finished
        /\ me'[t].wi = NextBlock(me[t].wi)
    BY <1>13, Moves, LocalsWrite, PlacesOfRelease
  <2>2. pc'[t] = "next" => me'[t].wi \in ReadyBlocks
    BY <1>13, <2>1, Domains DEF Release, Goto
  <2>3. pc'[t] = "next" => /\ blocks[me'[t].wi].res # OK => progressRes # OK
                           /\ blocks[me'[t].wi].finished => stopReading
    BY <2>2 DEF ErrorsTold
  <2> QED
    BY <1>0, <2>1, <2>3 DEF Told, OK
<1>14. CASE WriteNext(t)
  <2>1. /\ pc[t] = "next" /\ pc'[t] = "write"
        /\ me'[t].finished = blocks[me[t].wi].finished
        /\ me'[t].res = IF me[t].res = OK THEN blocks[me[t].wi].res ELSE me[t].res
    BY <1>14, Moves, LocalsWrite
  <2> QED
    BY <1>0, <2>1 DEF Told, OK
<1>15. CASE WriteLast(t)
  <2>1. pc[t] = "last" /\ pc'[t] = IF Leaving(me[t]) THEN "return" ELSE "read"
    BY <1>15, Domains DEF WriteLast, Goto
  <2> QED
    BY <1>0, <2>1 DEF Told, OK, Leaving
<1> QED
  BY <1>1, <1>2, <1>3, <1>4, <1>5, <1>6, <1>7, <1>8, <1>9, <1>10, <1>11, <1>12, <1>13, <1>14,
     <1>15 DEF Thread

LEMMA ErrorsOfThread ==
  ASSUME IInv, NEW t \in Threads, Thread(t)
  PROVE  ErrorsTold'
<1> USE DEF IInv
<1>1. readRes' # OK \/ writeRes' # OK => progressRes' # OK
  <2>1. CASE ReadFails(t) \/ WriteFails(t)
    BY <2>1, FirstErrorStays
  <2>2. CASE ~ ReadFails(t) /\ ~ WriteFails(t)
    <3>1. UNCHANGED <<readRes, writeRes>>
      BY <2>2 DEF Thread, Wake, CountOut, Compare, StopReading, ReadNothing, ReadBlock, TakeBlock,
         StartThread, CountThread, StartThreadFails, TakeBuffer, Code, CodeFails, Turn, Write,
         Release, WriteNext, WriteLast, readVars, writeVars
    <3> QED
      BY <3>1, FirstErrorStays DEF ErrorsTold
  <2> QED
    BY <2>1, <2>2
<1>2. \A u \in Threads : Told(u)'
  BY ToldOfOthers, ToldOfItself
<1>3. finishedEvent' => stopReading' \/ progressRes' # OK
  <2>1. CASE UNCHANGED finishedEvent
    BY <2>1, TellingOfThread, FirstErrorStays DEF ErrorsTold
  <2>2. CASE Compare(t)
    BY <2>2, Moves, TellingOfThread, FirstErrorStays DEF ErrorsTold
  <2>3. UNCHANGED finishedEvent \/ Compare(t)
    BY DEF Thread, Wake, CountOut, StopReading, ReadNothing, ReadBlock, ReadFails, TakeBlock,
       StartThread, CountThread, StartThreadFails, TakeBuffer, Code, CodeFails, Turn, Write,
       WriteFails, Release, WriteNext, WriteLast, countVars
  <2> QED
    BY <2>1, <2>2, <2>3
<1> QED
  BY <1>1, <1>2, <1>3, ReadyTold DEF ErrorsTold, Told, OK

\* When MtCoder_Code is through, no thread writes.
LEMMA OutcomeOfThread ==
  ASSUME IInv, NEW t \in Threads, Thread(t)
  PROVE  OKMeansWhole'
<1> USE DEF IInv
<1>1. main' = main /\ result' = result
  BY OthersStay
<1>2. CASE main \in {"free", "done"}
  <2>1. pc[t] # "write"
    BY <1>2 DEF AllLeft, Out
  <2>2. UNCHANGED written
    BY <2>1, WrittenStays, Moves
  <2> QED
    BY <1>1, <2>2, WholeStays DEF OKMeansWhole, OK
<1>3. CASE main \notin {"free", "done"}
  BY <1>1, <1>3 DEF OKMeansWhole
<1> QED
  BY <1>2, <1>3
LEMMA IInvOfThread ==
  ASSUME IInv, NEW t \in Threads, Thread(t)
  PROVE  IInv'
<1>1. TypeOK'
  <2> USE DEF IInv
  <2>1. pc[t] = "return" => CountOut(t)
    BY Moves, StartNotItself DEF Thread
  <2>2. pc[t] = "return" => numFinishedThreads < NumThreads
    <3>1. CountOut(t) => numFinishedThreads' = numFinishedThreads + 1
      BY DEF CountOut
    <3> QED
      BY <2>1, <3>1, CountOfThread, Domains, Parameters
  <2> QED
    BY <2>2, TypeOfRead, TypeOfTakeBlock, TypeOfThreads, TypeOfCode, TypeOfWrite, BufferThere,
       SemaphoreRoom DEF Thread
<1>2. OneReader' /\ OneWriter'
  BY BatonOfThread, WriterOfThread
<1>3. Beginning' /\ NotYetStopped' /\ Created' /\ LeftCounted' /\ AllLeft'
  BY LifeOfThread, CountOfThread, AllLeftOfThread
<1>4. LocalInv' /\ ReadyHold' /\ PlacesApart' /\ Window' /\ BufferInv'
  BY LocalOfThread, ReadyOfThread, PlacesOfThread, BuffersOfThread
<1>5. (\E n \in Nat : Numbered(n)') /\ SomethingLost' /\ ErrorsTold' /\ OKMeansWhole'
  BY NumberedOfThread, LostOfThread, ErrorsOfThread, OutcomeOfThread
<1> QED
  BY <1>1, <1>2, <1>3, <1>4, <1>5 DEF IInv

-----------------------------------------------------------------------------
(* MtCoder_Code and its caller. *)

\* What the threads share is left alone; a thread may be created.
SharedStays ==
    /\ UNCHANGED <<callVars, me, stopReading, readRes, readProcessed, blockIndex, blocksSemaphore,
                   numFinishedThreads, writeVars, blocks, freeBlocks, progressRes, outBufs, written>>
    /\ \A u \in Threads : pc'[u] = pc[u] \/ (pc[u] = "none" /\ pc'[u] = "idle")
    /\ UNCHANGED numStartedThreads \/ \A u \in Threads : pc[u] = "none"
    /\ finishedEvent' => finishedEvent

LEMMA PlacesOfShared ==
  ASSUME IInv, SharedStays
  PROVE  /\ OneWriter' /\ LocalInv' /\ ReadyHold' /\ PlacesApart' /\ Window' /\ BufferInv'
         /\ ErrorsTold'
<1> USE DEF IInv
<1>0. /\ UNCHANGED <<me, blockIndex, blocksSemaphore, writeIndex, ReadyBlocks, blocks, freeBlocks>>
      /\ UNCHANGED <<progressRes, stopReading, readRes, writeRes>>
      /\ \A u \in Threads : pc'[u] = pc[u] \/ (pc[u] = "none" /\ pc'[u] = "idle")
      /\ finishedEvent' => finishedEvent
  BY DEF SharedStays, writeVars
<1>1. \A u \in Threads : Writing(u)' <=> Writing(u)
  BY <1>0 DEF Writing
<1>2. \A u \in Threads : \A b \in Blocks :
         (AtBlock(u, b)' <=> AtBlock(u, b)) /\ (AtWrite(u, b)' <=> AtWrite(u, b))
  BY <1>0 DEF AtBlock, AtWrite, Writing
<1>3. OneWriter'
  BY <1>0, <1>1 DEF OneWriter
<1>4. LocalInv'
  <2> SUFFICES ASSUME NEW u \in Threads PROVE LocalOK(u)'
    BY DEF LocalInv
  <2>1. LocalOK(u)
    BY DEF LocalInv
  <2>2. CASE pc'[u] = pc[u] /\ UNCHANGED numStartedThreads
    BY <1>0, <2>1, <2>2 DEF LocalOK, NothingHeld, OK
  <2>3. CASE pc'[u] \in {"none", "idle"}
    BY <2>3 DEF LocalOK
  <2> QED
    BY <1>0, <2>2, <2>3 DEF SharedStays
<1>5. ReadyHold'
  BY <1>0 DEF ReadyHold, OK
<1>6. PlacesApart'
  BY <1>0, <1>2, Domains DEF PlacesApart
<1>7. Window'
  <2>1. GivingBack' = GivingBack
    BY <1>0 DEF GivingBack
  <2>2. Size' = Size
    BY <1>0, <2>1 DEF Size
  <2>3. \A b \in Blocks : (Taken(b)' <=> Taken(b)) /\ (IsTurn(b)' <=> IsTurn(b))
    BY <1>0, <1>2 DEF Taken, IsTurn
  <2> QED
    BY <1>0, <2>2, <2>3 DEF Window, Dist
<1>8. BufferInv'
  <2>1. \A b, f \in Blocks : Holds(b, f)' <=> Holds(b, f)
    <3> TAKE b \in Blocks, f \in Blocks
    <3>1. ASSUME NEW u \in Threads PROVE HoldsAt(u, b, f)' <=> HoldsAt(u, b, f)
      BY <1>0, <1>2 DEF HoldsAt
    <3>2. HoldsReady(b, f)' <=> HoldsReady(b, f)
      BY <1>0 DEF HoldsReady
    <3> QED
      BY <3>1, <3>2 DEF Holds
  <2>2. \A f \in Blocks : Free(f)' <=> Free(f)
    BY <1>0 DEF Free
  <2> QED
    BY <1>0, <2>1, <2>2 DEF BufferInv
<1>9. ErrorsTold'
  <2>1. ASSUME NEW u \in Threads PROVE Told(u)'
    <3>1. Told(u)
      BY DEF Told, ErrorsTold
    <3> QED
      BY <1>0, <3>1 DEF Told, OK
  <2> QED
    BY <1>0, <2>1 DEF Told, ErrorsTold, OK
<1> QED
  BY <1>3, <1>4, <1>5, <1>6, <1>7, <1>8, <1>9

LEMMA NumbersOfShared ==
  ASSUME IInv, SharedStays
  PROVE  (\E n \in Nat : Numbered(n)') /\ SomethingLost'
<1> USE DEF IInv
<1>0. /\ UNCHANGED <<me, blockIndex, blocksSemaphore, writeIndex, ReadyBlocks, blocks, outBufs>>
      /\ UNCHANGED <<progressRes, stopReading, readProcessed, written, dataSize, mode>>
      /\ \A u \in Threads : pc'[u] = pc[u] \/ (pc[u] = "none" /\ pc'[u] = "idle")
  BY DEF SharedStays, writeVars, callVars
<1>1. UNCHANGED <<NumBlocks, Whole>>
  BY <1>0 DEF NumBlocks, Whole
<1>2. \A u \in Threads : \A b \in Blocks :
         (AtBlock(u, b)' <=> AtBlock(u, b)) /\ (AtWrite(u, b)' <=> AtWrite(u, b))
  BY <1>0 DEF AtBlock, AtWrite, Writing
<1>3. Size' = Size
  <2>1. GivingBack' = GivingBack
    BY <1>0 DEF GivingBack
  <2> QED
    BY <1>0, <2>1 DEF Size
<1>4. \A b \in Blocks : IsTurn(b)' <=> IsTurn(b)
  BY <1>0, <1>2 DEF IsTurn
<1>5. \A b \in Blocks : \A d \in Data : Carries(b, d)' <=> Carries(b, d)
  <2> TAKE b \in Blocks
  <2> TAKE d \in Data
  <2>1. ASSUME NEW u \in Threads PROVE CarriesAt(u, b, d)' <=> CarriesAt(u, b, d)
    BY <1>0, <1>2 DEF CarriesAt, Piece, OK
  <2>2. CarriesReady(b, d)' <=> CarriesReady(b, d)
    BY <1>0 DEF CarriesReady, OK
  <2> QED
    BY <2>1, <2>2 DEF Carries
<1>6. SomethingLost'
  BY <1>0, <1>1, <1>5 DEF SomethingLost, Lost, OK
<1>7. PICK n \in Nat : Numbered(n)
  OBVIOUS
<1>8. Passed(n)' = Passed(n)
  BY <1>0 DEF Passed
<1>9. CarriedNumbered(n)'
  BY <1>1, <1>4, <1>5, <1>7 DEF Numbered, CarriedNumbered, Dist
<1>10. WrittenNumbered(n)'
  BY <1>0, <1>1, <1>7, <1>8 DEF Numbered, WrittenNumbered
<1>11. AllWritten(n) => AllWritten(n)'
  BY <1>0, <1>1, <1>8 DEF AllWritten
<1>12. ReadNumbered(n) => ReadNumbered(n)'
  <2>1. \A u \in Threads : /\ Reading(u)' <=> Reading(u)
                           /\ Piece(u)' = Piece(u)
                           /\ pc'[u] \in {"start", "count"} => pc[u] \in {"start", "count"}
    BY <1>0 DEF Reading, Piece
  <2> QED
    BY <1>0, <1>1, <1>3, <2>1 DEF ReadNumbered
<1>13. Numbered(n)'
  BY <1>0, <1>7, <1>9, <1>10, <1>11, <1>12 DEF Numbered, OK
<1> QED
  BY <1>6, <1>13

LEMMA MainShares ==
  ASSUME IInv, Main \/ UNCHANGED vars
  PROVE  SharedStays
<1> USE DEF IInv, SharedStays, callVars, threadVars, readVars, countVars, writeVars
<1>1. CASE StartFirst
  BY <1>1, Domains, Parameters DEF StartFirst, Beginning, Goto
<1>2. CASE StartFirstFails
  BY <1>2 DEF StartFirstFails, Beginning
<1>3. CASE SignalRead
  BY <1>3 DEF SignalRead
<1>4. CASE WaitFinished
  BY <1>4 DEF WaitFinished
<1>5. ASSUME NEW t \in Threads, Stop(t) PROVE SharedStays
  BY <1>5 DEF Stop
<1>6. CASE Joined
  BY <1>6 DEF Joined
<1>7. CASE UNCHANGED vars
  BY <1>7 DEF vars
<1> QED
  BY <1>1, <1>2, <1>3, <1>4, <1>5, <1>6, <1>7 DEF Main

\* When the last thread has left, the whole is written, or there was an error.
LEMMA AllWrittenWhenLeft ==
  ASSUME IInv, finishedEvent
  PROVE  Result = OK <=> written = Whole
<1> USE DEF IInv
<1>1. \A t \in Threads : pc[t] \in {"none", "compare", "ended", "idle"}
  BY DEF AllLeft, Out
<1>2. Result = OK <=> progressRes = OK
  BY DEF Result, ErrorsTold
<1>3. NumBlocks \in Nat /\ written \in Seq(Data) /\ DOMAIN Whole = 1..NumBlocks
  BY BlocksOfData DEF TypeOK, Whole
<1>4. ASSUME progressRes # OK, written = Whole PROVE FALSE
  <2>1. PICK k \in 1..NumBlocks : Lost(k)
    BY <1>4 DEF SomethingLost
  <2> QED
    BY <1>3, <1>4, <2>1 DEF Lost
<1>5. ASSUME progressRes = OK PROVE written = Whole
  <2>1. PICK n \in Nat : Numbered(n)
    OBVIOUS
  <2>2. n + Size = NumBlocks
    BY <1>5, <2>1 DEF ErrorsTold, Numbered, ReadNumbered
  <2>3. Size = 0
    <3>1. PICK a \in Blocks : IsTurn(a)
      BY TurnExists
    <3>2. \A t \in Threads : ~ AtBlock(t, a) /\ ~ AtWrite(t, a)
      BY <1>1 DEF AtBlock, AtWrite, Writing
    <3>3. ~ Taken(a)
      BY <3>1, <3>2 DEF Taken, IsTurn, PlacesApart
    <3>4. Dist(a, a) = 0
      BY <3>1, Parameters DEF Dist
    <3>5. ~ (0 < Size) /\ Size \in 0..numBlocksMax
      BY <3>1, <3>3, <3>4 DEF Window
    <3> QED
      BY <3>5, Parameters
  <2>4. Passed(n) = n
    BY <1>1 DEF Passed
  <2>5. Len(written) = NumBlocks /\ \A i \in 1..NumBlocks : written[i] = Whole[i]
    BY <1>3, <1>5, <2>1, <2>2, <2>3, <2>4 DEF Numbered, AllWritten
  <2>6. written = [i \in 1..NumBlocks |-> written[i]]
    BY <1>3, <2>5
  <2>7. Whole = [i \in 1..NumBlocks |-> Whole[i]]
    BY DEF Whole
  <2> QED
    BY <2>5, <2>6, <2>7
<1> QED
  BY <1>2, <1>4, <1>5

LEMMA LifeOfMain ==
  ASSUME IInv, Main
  PROVE  OneReader' /\ Beginning' /\ NotYetStopped' /\ Created' /\ LeftCounted' /\ AllLeft'
           /\ OKMeansWhole'
<1> USE DEF IInv, callVars, threadVars, readVars, countVars, writeVars
<1>0. UNCHANGED <<Whole, NumBlocks, written, me>> /\ NumBlocks \in Nat \ {0}
  BY MainShares, BlocksOfData DEF SharedStays, Whole, NumBlocks
<1>1. CASE StartFirst
  <2>1. /\ main = "start" /\ main' = "signal" /\ numStartedThreads' = 1
        /\ startEvent'[0] /\ pc'[0] = "idle" /\ 0 \in Threads
        /\ \A t \in Threads : pc[t] = "none" /\ ~ stop[t]
        /\ \A t \in Threads \ {0} : pc'[t] = "none"
        /\ UNCHANGED <<stop, readEvent, finishedEvent, numFinishedThreads>>
        /\ ~ readEvent /\ ~ finishedEvent
    BY <1>1, Domains, Parameters DEF StartFirst, Beginning, NotYetStopped, Goto
  <2>2. OneReader' /\ Beginning' /\ NotYetStopped' /\ AllLeft' /\ OKMeansWhole'
    BY <2>1 DEF OneReader, HasBaton, Beginning, NotYetStopped, AtWork, AllLeft, OKMeansWhole
  <2>3. Created'
    BY <2>1, Parameters DEF Created
  <2>4. Left' = Left
    BY <2>1 DEF Left, Out, Asleep
  <2>5. LeftCounted'
    BY <2>1, <2>4 DEF LeftCounted
  <2> QED
    BY <2>2, <2>3, <2>5
<1>2. CASE StartFirstFails
  <2>1. /\ main = "start" /\ main' = "free" /\ result' = "THREAD"
        /\ \A t \in Threads : pc[t] = "none" /\ ~ stop[t]
        /\ written = <<>>
        /\ UNCHANGED <<pc, stop, startEvent, readEvent, finishedEvent, numFinishedThreads>>
    BY <1>2 DEF StartFirstFails, Beginning, NotYetStopped
  <2>2. OneReader' /\ Beginning' /\ NotYetStopped' /\ AllLeft' /\ Created'
    BY <2>1 DEF OneReader, HasBaton, Beginning, NotYetStopped, AtWork, AllLeft, Created
  <2>3. LeftCounted'
    BY <2>1, <1>0 DEF LeftCounted, Left, Out, Asleep
  <2>4. Whole # <<>>
    <3>1. DOMAIN Whole = 1..NumBlocks
      BY DEF Whole
    <3> QED
      BY <1>0, <3>1
  <2>5. OKMeansWhole'
    BY <1>0, <2>1, <2>4 DEF OKMeansWhole, OK
  <2> QED
    BY <2>2, <2>3, <2>5
<1>3. CASE SignalRead
  <2>1. /\ main = "signal" /\ main' = "wait"
        /\ \A t \in Threads : pc[t] \in {"none", "idle", "read"}
        /\ ~ finishedEvent
        /\ UNCHANGED <<pc, stop, startEvent, finishedEvent, numFinishedThreads, numStartedThreads>>
    BY <1>3 DEF SignalRead, Beginning
  <2>2. OneReader' /\ Beginning' /\ AllLeft' /\ OKMeansWhole'
    BY <2>1 DEF OneReader, HasBaton, Beginning, AllLeft, OKMeansWhole
  <2>3. NotYetStopped' /\ Created' /\ LeftCounted'
    BY <1>0, <2>1 DEF NotYetStopped, AtWork, Created, Asleep, Counting, LeftCounted, Left, Out
  <2> QED
    BY <2>2, <2>3
<1>4. CASE WaitFinished
  <2>1. /\ main = "wait" /\ main' = "free" /\ finishedEvent /\ result' = Result
        /\ UNCHANGED <<pc, stop, startEvent, readEvent, numFinishedThreads, numStartedThreads>>
    BY <1>4 DEF WaitFinished
  <2>2. OneReader' /\ Beginning' /\ AllLeft'
    BY <2>1 DEF OneReader, HasBaton, Beginning, AllLeft, Out, Asleep
  <2>3. NotYetStopped' /\ Created' /\ LeftCounted'
    BY <1>0, <2>1 DEF NotYetStopped, AtWork, Created, Asleep, Counting, LeftCounted, Left, Out
  <2>4. OKMeansWhole'
    BY <1>0, <2>1, AllWrittenWhenLeft DEF OKMeansWhole, OK
  <2> QED
    BY <2>2, <2>3, <2>4
<1>5. ASSUME NEW t \in Threads, Stop(t)
      PROVE  OneReader' /\ Beginning' /\ NotYetStopped' /\ Created' /\ LeftCounted' /\ AllLeft'
               /\ OKMeansWhole'
  <2>1. /\ main = "free" /\ main' = "free" /\ pc[t] # "none" /\ stop'[t]
        /\ \A u \in Threads \ {t} : stop'[u] = stop[u] /\ startEvent'[u] = startEvent[u]
        /\ UNCHANGED <<pc, result, readEvent, finishedEvent, numFinishedThreads, numStartedThreads>>
    BY <1>5, Domains DEF Stop
  <2>2. \A u \in Threads : pc[u] = "none" \/ Out(u)
    BY <2>1 DEF AllLeft
  <2>3. \A u \in Threads : Out(u)' <=> Out(u)
    BY <2>1, <2>2 DEF Out, Asleep
  <2>4. OneReader' /\ Beginning' /\ AllLeft' /\ OKMeansWhole'
    BY <1>0, <2>1, <2>2, <2>3 DEF OneReader, HasBaton, Beginning, AllLeft, OKMeansWhole, OK
  <2>5. NotYetStopped'
    BY <2>1, <2>2 DEF NotYetStopped, AtWork, Out
  <2>6. Created'
    <3>1. ASSUME NEW u \in Threads, u >= numStartedThreads, pc[u] # "none" PROVE FALSE
      <4>1. pc[u] = "read" \/ Asleep(u)
        BY <3>1 DEF Created
      <4>2. ~ Asleep(u) /\ pc[u] # "read"
        BY <2>2, <3>1 DEF Out, Asleep
      <4> QED
        BY <4>1, <4>2
    <3> QED
      BY <2>1, <3>1 DEF Created
  <2>7. LeftCounted'
    BY <1>0, <2>1, <2>3 DEF LeftCounted, Left
  <2> QED
    BY <2>4, <2>5, <2>6, <2>7
<1>6. CASE Joined
  <2>1. /\ main = "free" /\ main' = "done"
        /\ UNCHANGED <<pc, stop, startEvent, result, readEvent, finishedEvent, numFinishedThreads,
                       numStartedThreads>>
    BY <1>6 DEF Joined
  <2>2. OneReader' /\ Beginning' /\ AllLeft' /\ OKMeansWhole'
    BY <1>0, <2>1 DEF OneReader, HasBaton, Beginning, AllLeft, Out, Asleep, OKMeansWhole, OK
  <2>3. NotYetStopped' /\ Created' /\ LeftCounted'
    BY <1>0, <2>1 DEF NotYetStopped, AtWork, Created, Asleep, Counting, LeftCounted, Left, Out
  <2> QED
    BY <2>2, <2>3
<1> QED
  BY <1>1, <1>2, <1>3, <1>4, <1>5, <1>6 DEF Main
LEMMA IInvOfMain ==
  ASSUME IInv, Main
  PROVE  IInv'
<1>1. TypeOK'
  BY TypeOfMain DEF IInv
<1>2. SharedStays
  BY MainShares
<1> QED
  BY <1>1, <1>2, PlacesOfShared, NumbersOfShared, LifeOfMain DEF IInv

LEMMA IInvStutters ==
  ASSUME IInv, UNCHANGED vars
  PROVE  IInv'
<1> USE DEF IInv
<1>0. UNCHANGED <<main, result, pc, me, startEvent, stop, inBuf, readEvent, stopReading, readRes,
        readProcessed, blockIndex, blocksSemaphore, numStartedThreads, numFinishedThreads,
        finishedEvent, writeIndex, writeRes, ReadyBlocks, blocks, freeBlocks, progressRes, outBufs,
        written, dataSize, mode, expected>>
  BY DEF vars, callVars, threadVars, readVars, countVars, writeVars
<1>1. TypeOK'
  BY <1>0 DEF TypeOK
<1>2. SharedStays
  BY MainShares
<1>3. OneReader' /\ Beginning' /\ NotYetStopped'
  BY <1>0 DEF OneReader, HasBaton, Beginning, NotYetStopped, AtWork
<1>4. Created' /\ LeftCounted' /\ AllLeft'
  BY <1>0 DEF Created, Asleep, Counting, LeftCounted, Left, Out, AllLeft
<1>5. OKMeansWhole'
  BY <1>0 DEF OKMeansWhole, Whole, NumBlocks, OK
<1> QED
  BY <1>1, <1>2, <1>3, <1>4, <1>5, PlacesOfShared, NumbersOfShared DEF IInv

LEMMA IInvAtInit ==
  ASSUME Init
  PROVE  IInv
<1> USE Parameters
<1>0. /\ dataSize \in Nat /\ mode \in {"stream", "memory"} /\ expected \in {"none", "exact"}
      /\ \A t \in Threads : pc[t] = "none" /\ me[t] = NoLocals /\ ~ stop[t]
      /\ main = "start" /\ readEvent = FALSE /\ finishedEvent = FALSE /\ stopReading = FALSE
      /\ readRes = OK /\ writeRes = OK /\ progressRes = OK
      /\ numStartedThreads = 0 /\ numFinishedThreads = 0 /\ readProcessed = 0
      /\ ReadyBlocks = {} /\ writeIndex = 0 /\ blockIndex = 0 /\ blocksSemaphore = numBlocksMax
      /\ written = <<>> /\ freeBlocks = [k \in 1..numBlocksMax |-> k - 1]
  BY MtCoderAssumption DEF Init
<1>1. TypeOK
  <2>1. me \in [Threads -> Locals]
    BY NoLocalsTyped DEF Init
  <2>2. blocks \in [Blocks -> [res : Result0, bufIndex : Index, finished : BOOLEAN]]
    BY DEF Init, Result0, Index, OK
  <2>3. outBufs \in [Blocks -> Data] /\ written \in Seq(Data)
    BY DEF Init, Data, NoData
  <2>4. freeBlocks \in Seq(Blocks)
    BY <1>0
  <2>5. pc \in [Threads -> {"none", "idle", "read", "take", "start", "count", "buffer", "code",
                           "turn", "write", "release", "next", "last", "return", "compare",
                           "ended"}]
    BY DEF Init
  <2>6. {startEvent, stop, inBuf} \subseteq [Threads -> BOOLEAN]
    BY DEF Init
  <2>7. {result, readRes, progressRes, writeRes} \subseteq Result0 /\ writeIndex \in Index
    BY DEF Init, Result0, Index
  <2>8. /\ readProcessed \in 0..dataSize /\ blocksSemaphore \in 0..numBlocksMax
        /\ numStartedThreads \in 0..NumThreads /\ numFinishedThreads \in 0..NumThreads
        /\ blockIndex \in Blocks /\ ReadyBlocks \subseteq Blocks
    BY <1>0
  <2>9. /\ main \in {"start", "signal", "wait", "free", "done"}
        /\ {readEvent, stopReading, finishedEvent} \subseteq BOOLEAN
    BY <1>0
  <2> QED
    BY <1>0, <2>1, <2>2, <2>3, <2>4, <2>5, <2>6, <2>7, <2>8, <2>9 DEF TypeOK, Locals
<1>2. \A t \in Threads : \A b \in Blocks : ~ AtBlock(t, b) /\ ~ AtWrite(t, b) /\ ~ Writing(t)
  BY <1>0 DEF AtBlock, AtWrite, Writing
<1>3. OneReader /\ OneWriter
  BY <1>0, <1>2 DEF OneReader, OneWriter, HasBaton, Writing
<1>4. Beginning /\ NotYetStopped /\ Created /\ AllLeft
  BY <1>0 DEF Beginning, NotYetStopped, AtWork, Created, AllLeft
<1>5. LeftCounted
  <2>1. Left = {}
    BY <1>0 DEF Left, Out
  <2> QED
    BY <1>0, <2>1, FS_EmptySet DEF LeftCounted
<1>6. LocalInv /\ ReadyHold
  BY <1>0 DEF LocalInv, LocalOK, ReadyHold
<1>7. PlacesApart
  BY <1>0, <1>2 DEF PlacesApart
<1>8. Size = 0
  <2>1. GivingBack = {}
    BY <1>0 DEF GivingBack
  <2> QED
    BY <1>0, <2>1, FS_EmptySet DEF Size
<1>9. Window
  <2>1. \A a \in Blocks : IsTurn(a) => a = 0
    BY <1>0, <1>2 DEF IsTurn
  <2>2. \A b \in Blocks : ~ Taken(b) /\ Dist(0, b) \in Nat
    BY <1>0, <1>2 DEF Taken, Dist
  <2> QED
    BY <1>0, <1>8, <2>1, <2>2 DEF Window
<1>10. BufferInv
  <2>1. \A f, b \in Blocks : ~ Holds(b, f)
    BY <1>0, <1>2 DEF Holds, HoldsAt, HoldsReady
  <2>2. \A f \in Blocks : Free(f)
    <3> TAKE f \in Blocks
    <3>1. f + 1 \in DOMAIN freeBlocks /\ freeBlocks[f + 1] = f
      BY <1>0
    <3> QED
      BY <3>1 DEF Free
  <2>3. \A i, j \in DOMAIN freeBlocks : freeBlocks[i] = freeBlocks[j] => i = j
    BY <1>0
  <2> QED
    BY <2>1, <2>2, <2>3 DEF BufferInv
<1>11. Numbered(0)
  <2>1. \A b \in Blocks : \A d \in Data : ~ Carries(b, d)
    BY <1>0, <1>2 DEF Carries, CarriesReady, CarriesAt
  <2>2. Passed(0) = 0
    BY <1>0 DEF Passed
  <2>3. NumBlocks \in Nat \ {0} /\ 0 * BlockSize = 0
    BY <1>1, BlocksOfData
  <2>4. CarriedNumbered(0) /\ WrittenNumbered(0) /\ AllWritten(0)
    BY <1>0, <2>1, <2>2, <2>3 DEF CarriedNumbered, WrittenNumbered, AllWritten
  <2>5. ReadNumbered(0)
    BY <1>0, <1>8, <2>3 DEF ReadNumbered, Reading
  <2> QED
    BY <2>4, <2>5 DEF Numbered
<1>12. SomethingLost /\ ErrorsTold /\ OKMeansWhole
  BY <1>0 DEF SomethingLost, ErrorsTold, OKMeansWhole
<1> QED
  BY <1>1, <1>3, <1>4, <1>5, <1>6, <1>7, <1>9, <1>10, <1>11, <1>12 DEF IInv

-----------------------------------------------------------------------------
(* The results. *)

\* The inductive invariant: where every thread may be and what it has in its
\* locals, the window of the places in the ring, the buffer each of them holds
\* and the number of the block each of them carries.
THEOREM Invariance == Spec => []IInv
<1>1. Init => IInv
  BY IInvAtInit
<1>2. IInv /\ [Next]_vars => IInv'
  BY IInvOfThread, IInvOfMain, IInvStutters DEF Next
<1> QED
  BY <1>1, <1>2, PTL DEF Spec

\* Every variable of MtCoder has its type: in particular the semaphore of the
\* blocks stays within its maximum and no index leaves the ring.
THEOREM TypeCorrect == Spec => []TypeOK
<1>1. IInv => TypeOK
  BY DEF IInv
<1> QED
  BY <1>1, Invariance, PTL

\* The baton is a lock: one thread at most reads, starts threads or takes a
\* place among the blocks (readEvent, MtCoder.c).
THEOREM OneReads == Spec => []OneReader
<1>1. IInv => OneReader
  BY DEF IInv
<1> QED
  BY <1>1, Invariance, PTL

\* One thread at most writes, and writeIndex is (unsigned)(int)-1 exactly
\* while it does.
THEOREM OneWrites == Spec => []OneWriter
<1>1. IInv => OneWriter
  BY DEF IInv
<1> QED
  BY <1>1, Invariance, PTL

\* Every output buffer is in one place, and whoever takes one finds one, though
\* nothing counts the buffers: the semaphore of the blocks does.
THEOREM BuffersAreApart == Spec => []BuffersApart
<1>1. ASSUME IInv PROVE BuffersApart
  <2> USE <1>1 DEF IInv
  <2>1. ASSUME NEW t \in Threads, Holding(t)
        PROVE  \E b \in Blocks : /\ HoldsAt(t, b, me[t].bufIndex) /\ me[t].bufIndex \in Blocks
                                 /\ AtBlock(t, b) \/ AtWrite(t, b)
    <3>1. me[t].bi \in Blocks /\ me[t].wi \in Blocks /\ me[t].bufIndex \in Blocks
      BY <2>1, LocalsOf DEF Holding, Index
    <3>2. CASE pc[t] \in {"code", "turn"}
      BY <3>1, <3>2 DEF HoldsAt, AtBlock
    <3>3. CASE pc[t] \in {"write", "release"}
      BY <3>1, <3>3 DEF HoldsAt, AtWrite, Writing
    <3> QED
      BY <2>1, <3>2, <3>3 DEF Holding
  <2>2. ASSUME NEW b \in Blocks, Waiting(b)
        PROVE  HoldsReady(b, blocks[b].bufIndex) /\ blocks[b].bufIndex \in Blocks
    BY <2>2 DEF Waiting, HoldsReady, Index, TypeOK
  <2>3. ASSUME NEW f \in Blocks, NEW b \in Blocks, NEW c \in Blocks, Holds(b, f), Holds(c, f)
        PROVE  b = c /\ \A i \in DOMAIN freeBlocks : freeBlocks[i] # f
    BY <2>3 DEF BufferInv, Free
  <2>4. \A i, j \in DOMAIN freeBlocks : freeBlocks[i] = freeBlocks[j] => i = j
    BY DEF BufferInv
  <2>5. ASSUME NEW t \in Threads, NEW u \in Threads, Holding(t), Holding(u), t # u,
               me[t].bufIndex = me[u].bufIndex
        PROVE  FALSE
    <3>1. PICK b \in Blocks : /\ HoldsAt(t, b, me[t].bufIndex) /\ me[t].bufIndex \in Blocks
                              /\ AtBlock(t, b) \/ AtWrite(t, b)
      BY <2>1, <2>5
    <3>2. PICK c \in Blocks : /\ HoldsAt(u, c, me[t].bufIndex)
                              /\ AtBlock(u, c) \/ AtWrite(u, c)
      BY <2>1, <2>5
    <3>3. b = c
      BY <2>3, <3>1, <3>2 DEF Holds
    <3> QED
      BY <2>5, <3>1, <3>2, <3>3, OwnerIsOne
  <2>6. \A b, c \in Blocks : Waiting(b) /\ Waiting(c) /\ b # c => blocks[b].bufIndex # blocks[c].bufIndex
    BY <2>2, <2>3 DEF Holds
  <2>7. ASSUME NEW t \in Threads, NEW b \in Blocks, Holding(t), Waiting(b),
               me[t].bufIndex = blocks[b].bufIndex
        PROVE  FALSE
    <3>1. PICK c \in Blocks : /\ HoldsAt(t, c, me[t].bufIndex) /\ me[t].bufIndex \in Blocks
                              /\ AtBlock(t, c) \/ AtWrite(t, c)
      BY <2>1, <2>7
    <3>2. HoldsReady(b, me[t].bufIndex)
      BY <2>2, <2>7
    <3>3. b = c
      BY <2>3, <3>1, <3>2 DEF Holds
    <3> QED
      BY <2>7, <3>1, <3>3 DEF PlacesApart, Waiting
  <2>8. ASSUME NEW i \in DOMAIN freeBlocks
        PROVE  /\ \A t \in Threads : Holding(t) => me[t].bufIndex # freeBlocks[i]
               /\ \A b \in Blocks : Waiting(b) => blocks[b].bufIndex # freeBlocks[i]
    BY <2>1, <2>2, <2>3 DEF Holds
  <2>9. \A t \in Threads : pc[t] = "buffer" => freeBlocks # <<>>
    BY BufferThere
  <2> QED
    BY <2>4, <2>5, <2>6, <2>7, <2>8, <2>9 DEF BuffersApart
<1> QED
  BY <1>1, Invariance, PTL

\* What is written is a beginning of the whole as long as there was no error,
\* and in the order of the data always.
THEOREM InOrderOfData == Spec => []WrittenInOrder
<1>1. ASSUME IInv PROVE WrittenInOrder
  <2> USE <1>1 DEF IInv
  <2>1. PICK n \in Nat : Numbered(n)
    OBVIOUS
  <2>2. \A i, j \in DOMAIN written : i < j => written[i].from < written[j].from
    BY <2>1 DEF Numbered, WrittenNumbered
  <2>3. ASSUME progressRes = OK PROVE written = SubSeq(Whole, 1, Passed(n)) /\ Passed(n) \in 0..NumBlocks
    <3>1. /\ Len(written) = Passed(n) /\ Passed(n) <= NumBlocks
          /\ \A i \in 1..Passed(n) : written[i] = Whole[i]
      BY <2>1, <2>3 DEF Numbered, AllWritten
    <3>2. Passed(n) \in Nat /\ NumBlocks \in Nat /\ written \in Seq(Data)
      BY PassedBelow, BlocksOfData DEF TypeOK
    <3>3. written = [i \in 1..Passed(n) |-> Whole[i]]
      BY <3>1, <3>2
    <3>4. SubSeq(Whole, 1, Passed(n)) = [i \in 1..Passed(n) |-> Whole[i]]
      <4>1. Whole \in Seq(Data) /\ Len(Whole) = NumBlocks
        <5>1. \A k \in 1..NumBlocks : Whole[k] \in Data
          BY WholeIs
        <5>2. Whole = [k \in 1..NumBlocks |-> Whole[k]]
          BY DEF Whole
        <5> QED
          BY <3>2, <5>1, <5>2
      <4> QED
        BY <3>1, <3>2, <4>1
    <3> QED
      BY <3>1, <3>2, <3>3, <3>4
  <2> QED
    BY <2>2, <2>3 DEF WrittenInOrder
<1> QED
  BY <1>1, Invariance, PTL

\* SZ_OK is returned exactly when the whole has been written.
THEOREM OKIsWhole == Spec => []OKMeansWhole
<1>1. IInv => OKMeansWhole
  BY DEF IInv
<1> QED
  BY <1>1, Invariance, PTL

\* When MtCoder_Code goes on, every thread has counted itself out.
THEOREM NobodyIsAtWork == Spec => []NobodyWorks
<1>1. IInv => NobodyWorks
  BY DEF IInv, AllLeft, Out, NobodyWorks
<1> QED
  BY <1>1, Invariance, PTL

================================================================================
