--------------------------- MODULE Lzma2DecMtProofs ---------------------------
(***************************************************************************)
(* What TLAPS proves of Lzma2DecMt, for every number of threads, every     *)
(* stream and every set of faults. Here: the threads take turns, and what  *)
(* a block holds from when it is begun until it has been parsed.           *)
(* Lzma2DeliveryProofs goes on with how it is decoded and written.         *)
(*                                                                         *)
(* The turns. The blocks that the threads have are the last ones that      *)
(* were begun, one to a thread. Each thread that has passed the reading    *)
(* on is followed by the one that has the next block, or may begin it;     *)
(* the turn to write is with the first of them, and follows the same way.  *)
(*                                                                         *)
(* The data. Walk goes through the stream symbol by symbol, whatever is    *)
(* damaged and however much comes out; what Parse and Decode do to any     *)
(* part of it is said in its terms, so that the two need not be compared   *)
(* with each other. The invariant, DataInv, gives every block a place in   *)
(* the stream where it begins: its links hold the places after that, and   *)
(* the coder of its thread is as far as Walk is there, by what the thread  *)
(* is doing. Each block begins where the one before ended.                 *)
(***************************************************************************)
EXTENDS Lzma2DecMt, Recursions, FiniteSetTheorems, TLAPS

Pcs == {"none", "idle", "link", "pass", "code", "write", "ended"}
Passed(t) == pc[t] \in {"code", "write"}
NobodyBusy == \A t \in Threads : ~ Busy(t)
NobodyMayRead == \A t \in Threads : ~ threads[t].canRead
Over == exitThread \/ pc[0] = "ended"

Shape ==
    /\ pc \in [Threads -> Pcs]
    /\ DOMAIN threads = Threads /\ DOMAIN me = Threads
    /\ \A t \in Threads :
         /\ DOMAIN threads[t] = {"canRead", "canWrite", "inBuf", "inDataSize_Start", "inDataSize"}
         /\ threads[t].canRead \in BOOLEAN /\ threads[t].canWrite \in BOOLEAN
         /\ DOMAIN me[t] = DOMAIN NoLocals
    /\ blockIndex \in Nat /\ exitThread \in BOOLEAN
    /\ numStartedThreads \in 1..NumThreads /\ limit_ \in 1..NumThreads
    /\ \A t \in Threads : pc[t] = "none" <=> t >= numStartedThreads

(* The blocks, by their numbers. *)
Blocks ==
    /\ \A t \in Threads : Busy(t) => me[t].blockIndex \in Nat /\ me[t].blockIndex < blockIndex
    /\ \A t, u \in Threads : Busy(t) /\ Busy(u) /\ me[t].blockIndex = me[u].blockIndex => t = u

(* Who has the last block: it is being read, or the reading was passed on, *)
(* or the thread that has it will decide how decoding goes on.             *)
IsLast(t) == me[t].blockIndex + 1 = blockIndex
Readers ==
    /\ \A t, u \in Threads : threads[t].canRead /\ threads[u].canRead => t = u
    /\ \A t \in Threads : Reading(t) => IsLast(t) /\ NobodyMayRead
    /\ \A t \in Threads : Passed(t) /\ me[t].finish => IsLast(t) /\ NobodyMayRead
Followed ==
    \A t \in Threads : Passed(t) /\ ~ me[t].finish =>
      /\ me[t].next \in Threads /\ me[t].next < numStartedThreads
      /\ IsLast(t) => threads[me[t].next].canRead
      /\ ~ IsLast(t) => /\ Busy(me[t].next)
                        /\ me[me[t].next].blockIndex = me[t].blockIndex + 1

(* Who may write. *)
First(t) == Busy(t) /\ \A u \in Threads : Busy(u) => me[t].blockIndex <= me[u].blockIndex
Writers ==
    /\ \A t, u \in Threads : threads[t].canWrite /\ threads[u].canWrite => t = u
    /\ ~ Over => \E t \in Threads : threads[t].canWrite /\ (First(t) \/ (NobodyBusy /\ threads[t].canRead))
Someone ==
    /\ \A t \in Threads : threads[t].canRead => t < numStartedThreads
    /\ ~ Over => \E t \in Threads : \/ Reading(t) \/ threads[t].canRead
                                    \/ Busy(t) /\ me[t].finish

(* How it ends. *)
TheEnd ==
    /\ Over => NobodyBusy
    /\ \A t \in Threads : pc[t] = "ended" => t = 0
    /\ exitThread => \A t \in Threads : threads[t].canRead => t = 0
    /\ pc[0] = "ended" => NobodyMayRead
Together == Blocks /\ Readers /\ Followed /\ Writers /\ Someone /\ TheEnd

(* When MtDec_Code has returned nobody gets a block any more. *)
Apart == NobodyBusy /\ (NobodyMayRead \/ exitThread)

TurnsInv == Shape /\ (main = "mt" => Together) /\ (main # "mt" => Apart)-----------------------------------------------------------------------------
(* What each step does to the rights and to the blocks. *)

SameFor(u) ==
    /\ pc'[u] = pc[u] /\ me'[u].blockIndex = me[u].blockIndex
    /\ me'[u].finish = me[u].finish /\ me'[u].next = me[u].next
SameRights(u) == threads'[u].canRead = threads[u].canRead /\ threads'[u].canWrite = threads[u].canWrite

\* A block is begun.
Begins(t) ==
    /\ pc[t] = "idle" /\ threads[t].canRead /\ ~ exitThread
    /\ ~ threads'[t].canRead /\ threads'[t].canWrite = threads[t].canWrite
    /\ pc'[t] \in {"pass", "link"} /\ me'[t].blockIndex = blockIndex
    /\ blockIndex' = blockIndex + 1
    /\ \A u \in Threads : u # t => SameFor(u) /\ SameRights(u)
    /\ UNCHANGED <<exitThread, numStartedThreads, main>>

\* A thread ends because it is told to.
IsToldToEnd(t) ==
    /\ pc[t] = "idle" /\ threads[t].canRead /\ exitThread
    /\ ~ threads'[t].canRead /\ threads'[t].canWrite = threads[t].canWrite
    /\ pc'[t] = "ended" /\ me'[t] = me[t]
    /\ \A u \in Threads : u # t => SameFor(u) /\ SameRights(u)
    /\ UNCHANGED <<blockIndex, exitThread, numStartedThreads, main>>

\* A link is read, or cannot be.
Reads(t) ==
    /\ pc[t] = "link" /\ pc'[t] \in {"link", "pass"}
    /\ me'[t].blockIndex = me[t].blockIndex
    /\ \A u \in Threads : SameRights(u) /\ (u # t => SameFor(u))
    /\ UNCHANGED <<blockIndex, exitThread, numStartedThreads, main>>

\* The reading is passed on, unless the block is the last, and a thread
\* may be started.
PassesOn(t, next, goesOn, started) ==
    /\ pc[t] = "pass" /\ pc'[t] \in {"code", "write"}
    /\ me'[t].blockIndex = me[t].blockIndex /\ me'[t].finish = ~ goesOn /\ me'[t].next = next
    /\ started \in {numStartedThreads, numStartedThreads + 1} /\ started \in 1..NumThreads
    /\ numStartedThreads' = started
    /\ next = NextThread(t, started)
    /\ \A u \in Threads :
         /\ u # t => me'[u] = me[u]
         /\ u # t /\ (started = numStartedThreads \/ u # numStartedThreads) => pc'[u] = pc[u]
         /\ u # t /\ started # numStartedThreads /\ u = numStartedThreads => pc'[u] = "idle"
         /\ threads'[u].canWrite = threads[u].canWrite
         /\ threads'[u].canRead = IF goesOn /\ u = next THEN TRUE ELSE threads[u].canRead
    /\ UNCHANGED <<blockIndex, exitThread, main>>

\* A link is decoded.
Codes(t) ==
    /\ pc[t] = "code" /\ pc'[t] \in {"code", "write"}
    /\ me'[t].blockIndex = me[t].blockIndex /\ me'[t].finish = me[t].finish
    /\ me'[t].next = me[t].next
    /\ \A u \in Threads : SameRights(u) /\ (u # t => SameFor(u))
    /\ UNCHANGED <<blockIndex, exitThread, numStartedThreads, main>>

\* A block is written or kept, and the turn goes on ...
HandsOn(t) ==
    /\ ~ me[t].finish
    /\ \A u \in Threads :
         /\ threads'[u].canRead = threads[u].canRead
         /\ threads'[u].canWrite = IF u = me[t].next THEN TRUE
                                   ELSE IF u = t THEN FALSE ELSE threads[u].canWrite
    /\ pc'[t] = "idle" /\ UNCHANGED exitThread

\* ... or decoding begins anew with thread 0 ...
BeginsAnew(t) ==
    /\ me[t].finish
    /\ \A u \in Threads :
         /\ threads'[u].canRead = IF u = 0 THEN TRUE ELSE threads[u].canRead
         /\ threads'[u].canWrite = IF u = 0 THEN TRUE
                                   ELSE IF u = t THEN FALSE ELSE threads[u].canWrite
    /\ pc'[t] = "idle" /\ UNCHANGED exitThread

\* ... or it ends.
EndsAll(t) ==
    /\ me[t].finish
    /\ \A u \in Threads :
         /\ threads'[u].canRead = IF u = 0 /\ t # 0 THEN TRUE ELSE threads[u].canRead
         /\ threads'[u].canWrite = IF u = t THEN FALSE ELSE threads[u].canWrite
    /\ \/ t # 0 /\ exitThread' = TRUE /\ pc'[t] = "idle"
       \/ t = 0 /\ exitThread' = exitThread /\ pc'[t] = "ended"

Leaves(t) ==
    /\ pc[t] = "write" /\ threads[t].canWrite /\ ~ exitThread
    /\ HandsOn(t) \/ BeginsAnew(t) \/ EndsAll(t)
    /\ me' = me
    /\ \A u \in Threads : u # t => pc'[u] = pc[u]
    /\ UNCHANGED <<blockIndex, numStartedThreads, main>>

LocalsAreThere == DOMAIN NoLocals = {"blockIndex", "interrupted", "finish", "needCode",
    "needWrite", "allocError", "overflow", "threading", "codeRes", "link", "start", "size",
    "inCodePos", "next"}

LEMMA Locals == LocalsAreThere
  BY DEF LocalsAreThere, NoLocals

LEMMA ThreadsAre == 0 \in Threads /\ NumThreads \in Nat /\ NumThreads > 1
                     /\ \A t \in Threads : t \in Nat /\ t < NumThreads
  BY Lzma2DecMtAssumption DEF Threads

\* A block is begun, or a thread sees that it is to end.
LEMMA BeginEffect ==
    ASSUME Shape, NEW t \in Threads, BeginBlock(t)
    PROVE  Shape' /\ (Begins(t) \/ IsToldToEnd(t))
<1>1. CASE exitThread
  <2>1. /\ threads' = [threads EXCEPT ![t].canRead = FALSE] /\ pc' = [pc EXCEPT ![t] = "ended"]
        /\ UNCHANGED <<blockIndex, me, exitThread, numStartedThreads, limit_, main>>
        /\ pc[t] = "idle" /\ threads[t].canRead
    BY <1>1 DEF BeginBlock, Goto, startVars
  <2>2. IsToldToEnd(t)
    BY <1>1, <2>1 DEF IsToldToEnd, Shape, SameFor, SameRights
  <2>3. Shape'
    BY <2>1, ThreadsAre DEF Shape, Pcs
  <2> QED  BY <2>2, <2>3
<1>2. CASE ~ exitThread
  <2>1. /\ threads' = [threads EXCEPT ![t].canRead = FALSE]
        /\ pc' = [pc EXCEPT ![t] = IF InterruptedAt(blockIndex) THEN "pass" ELSE "link"]
        /\ me' = [me EXCEPT ![t] = [NoLocals EXCEPT
                        !.blockIndex = blockIndex,
                        !.interrupted = InterruptedAt(blockIndex),
                        !.finish = readWasFinished \/ InterruptedAt(blockIndex)]]
        /\ blockIndex' = blockIndex + 1
        /\ UNCHANGED <<exitThread, numStartedThreads, limit_, main>>
        /\ pc[t] = "idle" /\ threads[t].canRead
    BY <1>2 DEF BeginBlock, Goto, startVars
  <2>2. Begins(t)
    BY <1>2, <2>1, Locals DEF Begins, Shape, SameFor, SameRights, LocalsAreThere
  <2>3. DOMAIN [NoLocals EXCEPT !.blockIndex = blockIndex,
                                !.interrupted = InterruptedAt(blockIndex),
                                !.finish = readWasFinished \/ InterruptedAt(blockIndex)]
          = DOMAIN NoLocals
    BY Zenon
  <2>4. PICK r : me' = [me EXCEPT ![t] = r] /\ DOMAIN r = DOMAIN NoLocals
    BY <2>1, <2>3, Zenon
  <2>5. PICK l \in {"pass", "link"} : pc' = [pc EXCEPT ![t] = l]
    BY <2>1
  <2>6. /\ threads' = [threads EXCEPT ![t].canRead = FALSE] /\ blockIndex' = blockIndex + 1
        /\ UNCHANGED <<exitThread, numStartedThreads, limit_>> /\ pc[t] = "idle"
    BY <2>1
  <2>7. Shape'
    <3>1. pc' \in [Threads -> Pcs] /\ (\A u \in Threads : pc'[u] = "none" <=> u >= numStartedThreads')
      BY <2>5, <2>6 DEF Shape, Pcs
    <3>2. DOMAIN threads' = Threads
      BY <2>6 DEF Shape
    <3>3. DOMAIN me' = Threads
      BY <2>4 DEF Shape
    <3>4. \A u \in Threads : DOMAIN me'[u] = DOMAIN NoLocals
      BY <2>4 DEF Shape
    <3>5. \A u \in Threads :
            /\ DOMAIN threads'[u] = {"canRead", "canWrite", "inBuf", "inDataSize_Start", "inDataSize"}
            /\ threads'[u].canRead \in BOOLEAN /\ threads'[u].canWrite \in BOOLEAN
      BY <2>6 DEF Shape
    <3>6. /\ blockIndex' \in Nat /\ exitThread' \in BOOLEAN
          /\ numStartedThreads' \in 1..NumThreads /\ limit_' \in 1..NumThreads
      BY <2>6 DEF Shape
    <3> QED  BY <3>1, <3>2, <3>3, <3>4, <3>5, <3>6, Zenon DEF Shape
  <2> QED  BY <2>2, <2>7
<1> QED  BY <1>1, <1>2

\* No more memory for a link.
LEMMA LinkFailsEffect ==
    ASSUME Shape, NEW t \in Threads, LinkFails(t)
    PROVE  Shape' /\ Reads(t)
<1>1. /\ pc[t] = "link" /\ pc' = [pc EXCEPT ![t] = "pass"]
      /\ me' = [me EXCEPT ![t].finish = TRUE, ![t].allocError = TRUE]
      /\ UNCHANGED <<threads, blockIndex, exitThread, numStartedThreads, limit_, main>>
  BY DEF LinkFails, Goto, startVars
<1>2. Reads(t)
  BY <1>1, Locals DEF Reads, Shape, SameFor, SameRights, LocalsAreThere
<1>3. Shape'
  BY <1>1, ThreadsAre, Locals DEF Shape, Pcs, LocalsAreThere
<1> QED  BY <1>2, <1>3
\* A link is read, whatever is in it.
LEMMA ReadEffect ==
    ASSUME Shape, NEW t \in Threads, ReadLink(t) \/ ReadFails(t)
    PROVE  Shape' /\ Reads(t)
<1>1. PICK n, error, cross : ReadLinkWith(t, n, error, cross)
  BY Zenon DEF ReadLink, ReadFails
<1>2. /\ pc[t] = "link"
      /\ UNCHANGED <<blockIndex, exitThread, numStartedThreads, limit_, main>>
  BY DEF ReadLink, ReadFails, startVars
<1>3. \E b : threads' = [threads EXCEPT ![t].inBuf = b]
  BY <1>1 DEF ReadLinkWith
<1>4. \E l \in {"pass", "link"} : pc' = [pc EXCEPT ![t] = l]
  BY <1>1 DEF ReadLinkWith, Goto
<1>5. \E r : me' = [me EXCEPT ![t] = r]
  BY <1>1, ZenonT(40) DEF ReadLinkWith
<1>51. DOMAIN me'[t] = DOMAIN me[t]
  BY <1>1, Locals DEF ReadLinkWith, Shape, LocalsAreThere
<1>52. me'[t].blockIndex = me[t].blockIndex
  BY <1>1, Locals DEF ReadLinkWith, Shape, LocalsAreThere
<1>6. PICK b : threads' = [threads EXCEPT ![t].inBuf = b]
  BY <1>3
<1>7. PICK l \in {"pass", "link"} : pc' = [pc EXCEPT ![t] = l]
  BY <1>4
<1>8. Reads(t)
  BY <1>2, <1>5, <1>51, <1>52, <1>6, <1>7 DEF Reads, Shape, SameFor, SameRights
<1>9. Shape'
  BY <1>2, <1>5, <1>51, <1>52, <1>6, <1>7, ThreadsAre DEF Shape, Pcs
<1> QED  BY <1>8, <1>9
\* The reading is passed on, or is not.
LEMMA PassOnEffect ==
    ASSUME Shape, NEW t \in Threads, NEW memory \in BOOLEAN, NEW created \in BOOLEAN,
           pc[t] = "pass", PassOn(t, memory, created)
    PROVE  /\ Shape'
           /\ \E next \in Threads, goesOn \in BOOLEAN, started \in 1..NumThreads :
                PassesOn(t, next, goesOn, started)
<1> DEFINE seen == me[t].interrupted \/ InterruptedAt(me[t].blockIndex)
           codes == me[t].needCode /\ ~ seen
           res == IF codes THEN PreCode(t, memory).res ELSE OK
           finish == me[t].finish \/ res # OK \/ seen
           asks == ~ finish /\ WantsThread
           alone == asks /\ ~ created /\ numStartedThreads = 1
           more == asks /\ created
           started == numStartedThreads + (IF more THEN 1 ELSE 0)
           goesOn == ~ finish /\ ~ alone
           next == NextThread(t, started)
           l == [me[t] EXCEPT
                     !.interrupted = seen, !.codeRes = res,
                     !.needCode = @ /\ res = OK /\ ~ alone,
                     !.finish = ~ goesOn, !.threading = alone, !.next = next,
                     !.link = 1, !.inCodePos = 0]
<1>1. /\ numStartedThreads' = started
      /\ limit_' = IF asks /\ ~ created /\ ~ alone THEN numStartedThreads ELSE limit_
      /\ threads' = IF goesOn THEN [threads EXCEPT ![next].canRead = TRUE] ELSE threads
      /\ pc' = [u \in Threads |->
                    CASE u = t -> IF codes /\ res = OK /\ ~ alone THEN "code" ELSE "write"
                      [] u # t /\ more /\ u = numStartedThreads -> "idle"
                      [] OTHER -> pc[u]]
      /\ me' = [me EXCEPT ![t] = l]
      /\ UNCHANGED <<blockIndex, exitThread, main>>
  BY DEF PassOn
<1>2. DOMAIN l = DOMAIN NoLocals /\ l.blockIndex = me[t].blockIndex
      /\ l.finish = ~ goesOn /\ l.next = next
  <2> HIDE DEF seen, res, goesOn, next, alone
  <2> QED  BY Locals DEF Shape, LocalsAreThere
<1>3. /\ started \in 1..NumThreads
      /\ started = (IF more THEN numStartedThreads + 1 ELSE numStartedThreads)
  <2>1. more => numStartedThreads < limit_
    BY DEF WantsThread
  <2> HIDE DEF more
  <2> QED  BY <2>1, ThreadsAre DEF Shape
<1>4. next \in Threads
  <2> HIDE DEF started
  <2> QED  BY <1>3, ThreadsAre DEF NextThread, Threads
<1>5. goesOn \in BOOLEAN
  OBVIOUS
<1>6. pc[t] # "none" /\ t # numStartedThreads
  BY ThreadsAre DEF Shape
<1> HIDE DEF seen, codes, res, finish, asks, alone, more, started, goesOn, next, l
<1>7. /\ \A u \in Threads : u # t => me'[u] = me[u]
      /\ me'[t] = l
      /\ DOMAIN me' = Threads
  BY <1>1 DEF Shape
<1>8. /\ \A u \in Threads :
           /\ threads'[u].canWrite = threads[u].canWrite
           /\ threads'[u].canRead = IF goesOn /\ u = next THEN TRUE ELSE threads[u].canRead
           /\ DOMAIN threads'[u] = DOMAIN threads[u]
      /\ DOMAIN threads' = Threads
  BY <1>1, <1>4 DEF Shape
<1>9. /\ pc' \in [Threads -> Pcs]
      /\ pc'[t] \in {"code", "write"}
      /\ \A u \in Threads :
           /\ u # t /\ (~ more \/ u # numStartedThreads) => pc'[u] = pc[u]
           /\ u # t /\ more /\ u = numStartedThreads => pc'[u] = "idle"
  BY <1>1 DEF Shape, Pcs
<1>10. PassesOn(t, next, goesOn, started)
  <2>1. started = numStartedThreads <=> ~ more
    BY <1>3 DEF Shape
  <2>2. /\ me'[t].blockIndex = me[t].blockIndex /\ me'[t].finish = ~ goesOn
        /\ me'[t].next = next
    BY <1>2, <1>7
  <2>3. started \in {numStartedThreads, numStartedThreads + 1}
    BY <1>3
  <2> QED  BY <1>1, <1>3, <1>7, <1>8, <1>9, <2>1, <2>2, <2>3 DEF PassesOn, next
<1>11. Shape'
  <2>1. \A u \in Threads : pc'[u] = "none" <=> u >= numStartedThreads'
    BY <1>1, <1>3, <1>6, <1>9, ThreadsAre DEF Shape
  <2>2. /\ blockIndex' \in Nat /\ exitThread' \in BOOLEAN
        /\ numStartedThreads' \in 1..NumThreads /\ limit_' \in 1..NumThreads
    BY <1>1, <1>3 DEF Shape
  <2>3. \A u \in Threads :
          /\ DOMAIN threads'[u] = {"canRead", "canWrite", "inBuf", "inDataSize_Start", "inDataSize"}
          /\ threads'[u].canRead \in BOOLEAN /\ threads'[u].canWrite \in BOOLEAN
          /\ DOMAIN me'[u] = DOMAIN NoLocals
    BY <1>2, <1>7, <1>8 DEF Shape
  <2> QED  BY <1>7, <1>8, <1>9, <2>1, <2>2, <2>3, Zenon DEF Shape
<1> QED  BY <1>3, <1>4, <1>5, <1>10, <1>11, Zenon

LEMMA PassEffect ==
    ASSUME Shape, NEW t \in Threads, Pass(t) \/ NoMemory(t) \/ NoThread(t)
    PROVE  /\ Shape'
           /\ \E next \in Threads, goesOn \in BOOLEAN, started \in 1..NumThreads :
                PassesOn(t, next, goesOn, started)
<1>1. PICK memory \in BOOLEAN, created \in BOOLEAN : PassOn(t, memory, created)
  BY Zenon DEF Pass, NoMemory, NoThread
<1>2. pc[t] = "pass"
  BY DEF Pass, NoMemory, NoThread
<1> QED  BY <1>1, <1>2, PassOnEffect

\* A link is decoded.
LEMMA CodeEffect ==
    ASSUME Shape, NEW t \in Threads, Code(t)
    PROVE  Shape' /\ Codes(t)
<1>1. /\ pc[t] = "code"
      /\ UNCHANGED <<threads, blockIndex, exitThread, numStartedThreads, limit_, main>>
  BY DEF Code, startVars
<1>2. \E l \in {"write", "code"} : pc' = [pc EXCEPT ![t] = l]
  BY DEF Code, Goto
<1>3. \E r : me' = [me EXCEPT ![t] = r]
  BY Zenon DEF Code
<1>4. DOMAIN me'[t] = DOMAIN me[t]
  BY Locals DEF Code, Shape, LocalsAreThere
<1>5. /\ me'[t].blockIndex = me[t].blockIndex /\ me'[t].finish = me[t].finish
      /\ me'[t].next = me[t].next
  BY Locals DEF Code, Shape, LocalsAreThere
<1>6. PICK l \in {"write", "code"} : pc' = [pc EXCEPT ![t] = l]
  BY <1>2
<1>7. Codes(t)
  BY <1>1, <1>3, <1>5, <1>6 DEF Codes, Shape, SameFor, SameRights
<1>8. Shape'
  BY <1>1, <1>3, <1>4, <1>6, ThreadsAre DEF Shape, Pcs
<1> QED  BY <1>7, <1>8
LEMMA TurnGiven ==
    ASSUME NEW kept, NEW n, NEW u \in Threads, DOMAIN kept = Threads,
           "canWrite" \in DOMAIN kept[u]
    PROVE  LET th == [kept EXCEPT ![n].canWrite = TRUE]
           IN  /\ DOMAIN th = Threads
               /\ DOMAIN th[u] = DOMAIN kept[u] /\ th[u].canRead = kept[u].canRead
               /\ th[u].canWrite = IF u = n THEN TRUE ELSE kept[u].canWrite
<1>1. CASE u = n
  BY <1>1
<1>2. CASE u # n
  BY <1>2
<1> QED  BY <1>1, <1>2

\* An iteration ends.
LEMMA LeaveEffect ==
    ASSUME Shape, NEW t \in Threads, NEW written \in BOOLEAN, NEW res, NEW needContinue \in BOOLEAN,
           HasTurn(t), Leave(t, written, res, needContinue),
           UNCHANGED <<me, blockIndex, numStartedThreads, limit_, main>>
    PROVE  Shape' /\ Leaves(t)
<1> DEFINE Withdrawn(th) ==
             /\ DOMAIN th = Threads
             /\ \A u \in Threads :
                  /\ DOMAIN th[u] = DOMAIN threads[u]
                  /\ th[u].canRead = threads[u].canRead
                  /\ th[u].canWrite = IF u = t THEN FALSE ELSE threads[u].canWrite
<1>1. \E kept : Withdrawn(kept) /\
        (CASE ~ me[t].finish ->
                  /\ threads' = [kept EXCEPT ![me[t].next].canWrite = TRUE]
                  /\ Goto(t, "idle") /\ UNCHANGED exitThread
             [] me[t].finish /\ needContinue ->
                  /\ threads' = [kept EXCEPT ![0].canWrite = TRUE, ![0].canRead = TRUE]
                  /\ Goto(t, "idle") /\ UNCHANGED exitThread
             [] me[t].finish /\ ~ needContinue /\ t # 0 ->
                  /\ threads' = [kept EXCEPT ![0].canRead = TRUE]
                  /\ exitThread' = TRUE
                  /\ Goto(t, "idle")
             [] OTHER -> threads' = kept /\ Goto(t, "ended") /\ UNCHANGED exitThread)
  <2> DEFINE kept1 == [threads EXCEPT ![t].inDataSize_Start = me[t].start,
                                      ![t].inDataSize = me[t].size, ![t].canWrite = FALSE]
             kept2 == [threads EXCEPT ![t].canWrite = FALSE]
  <2>1. Withdrawn(kept1) /\ Withdrawn(kept2)
    BY DEF Shape
  <2> HIDE DEF Withdrawn
  <2> QED  BY <2>1, ZenonT(40) DEF Leave
<1>2. PICK kept : Withdrawn(kept) /\
        (CASE ~ me[t].finish ->
                  /\ threads' = [kept EXCEPT ![me[t].next].canWrite = TRUE]
                  /\ Goto(t, "idle") /\ UNCHANGED exitThread
             [] me[t].finish /\ needContinue ->
                  /\ threads' = [kept EXCEPT ![0].canWrite = TRUE, ![0].canRead = TRUE]
                  /\ Goto(t, "idle") /\ UNCHANGED exitThread
             [] me[t].finish /\ ~ needContinue /\ t # 0 ->
                  /\ threads' = [kept EXCEPT ![0].canRead = TRUE]
                  /\ exitThread' = TRUE
                  /\ Goto(t, "idle")
             [] OTHER -> threads' = kept /\ Goto(t, "ended") /\ UNCHANGED exitThread)
  BY <1>1
<1>3. /\ pc[t] = "write" /\ threads[t].canWrite /\ ~ exitThread
      /\ UNCHANGED <<me, blockIndex, numStartedThreads, limit_, main>>
  BY DEF HasTurn
<1>4. \/ /\ ~ me[t].finish /\ threads' = [kept EXCEPT ![me[t].next].canWrite = TRUE]
         /\ pc' = [pc EXCEPT ![t] = "idle"] /\ exitThread' = exitThread
      \/ /\ me[t].finish /\ threads' = [kept EXCEPT ![0].canWrite = TRUE, ![0].canRead = TRUE]
         /\ pc' = [pc EXCEPT ![t] = "idle"] /\ exitThread' = exitThread
      \/ /\ me[t].finish /\ t # 0 /\ threads' = [kept EXCEPT ![0].canRead = TRUE]
         /\ pc' = [pc EXCEPT ![t] = "idle"] /\ exitThread' = TRUE
      \/ /\ me[t].finish /\ t = 0 /\ threads' = kept
         /\ pc' = [pc EXCEPT ![t] = "ended"] /\ exitThread' = exitThread
  BY <1>2 DEF Goto
<1>5. \A u \in Threads : /\ DOMAIN threads'[u] = DOMAIN threads[u]
                         /\ threads'[u].canRead \in BOOLEAN /\ threads'[u].canWrite \in BOOLEAN
  <2> SUFFICES ASSUME NEW u \in Threads
               PROVE  /\ DOMAIN threads'[u] = DOMAIN threads[u]
                      /\ threads'[u].canRead \in BOOLEAN /\ threads'[u].canWrite \in BOOLEAN
    OBVIOUS
  <2>1. /\ "canWrite" \in DOMAIN kept[u] /\ "canRead" \in DOMAIN kept[u] /\ DOMAIN kept = Threads
        /\ DOMAIN kept[u] = DOMAIN threads[u]
        /\ kept[u].canRead \in BOOLEAN /\ kept[u].canWrite \in BOOLEAN
    BY <1>2 DEF Shape
  <2>2. CASE threads' = [kept EXCEPT ![me[t].next].canWrite = TRUE]
    <3>1. PICK n : threads' = [kept EXCEPT ![n].canWrite = TRUE]
      BY <2>2
    <3> QED  BY <2>1, <3>1, TurnGiven
  <2>3. CASE threads' = [kept EXCEPT ![0].canWrite = TRUE, ![0].canRead = TRUE]
    BY <2>1, <2>3, ThreadsAre
  <2>4. CASE threads' = [kept EXCEPT ![0].canRead = TRUE]
    BY <2>1, <2>4, ThreadsAre
  <2>5. CASE threads' = kept
    BY <2>1, <2>5
  <2> QED  BY <1>4, <2>2, <2>3, <2>4, <2>5
<1>6. /\ DOMAIN threads' = Threads /\ pc' \in [Threads -> Pcs] /\ pc'[t] \in {"idle", "ended"}
      /\ \A u \in Threads : u # t => pc'[u] = pc[u]
      /\ exitThread' \in BOOLEAN
  <2>1. PICK l \in {"idle", "ended"} : pc' = [pc EXCEPT ![t] = l]
    BY <1>4
  <2>2. exitThread' \in BOOLEAN
    BY <1>4 DEF Shape
  <2>3. DOMAIN threads' = Threads
    BY <1>2, <1>4
  <2> QED  BY <2>1, <2>2, <2>3 DEF Shape, Pcs
<1>7. Shape'
  <2>1. \A u \in Threads : pc'[u] = "none" <=> u >= numStartedThreads'
    BY <1>3, <1>6 DEF Shape
  <2>2. /\ blockIndex' \in Nat /\ numStartedThreads' \in 1..NumThreads
        /\ limit_' \in 1..NumThreads
    BY <1>3 DEF Shape
  <2>3. \A u \in Threads :
          /\ DOMAIN threads'[u] = {"canRead", "canWrite", "inBuf", "inDataSize_Start", "inDataSize"}
          /\ threads'[u].canRead \in BOOLEAN /\ threads'[u].canWrite \in BOOLEAN
          /\ DOMAIN me'[u] = DOMAIN NoLocals
    BY <1>3, <1>5 DEF Shape
  <2>4. DOMAIN me' = Threads
    BY <1>3 DEF Shape
  <2> QED  BY <1>6, <2>1, <2>2, <2>3, <2>4, Zenon DEF Shape
<1>8. HandsOn(t) \/ BeginsAnew(t) \/ EndsAll(t)
  <2>1. CASE ~ me[t].finish
    <3>1. /\ threads' = [kept EXCEPT ![me[t].next].canWrite = TRUE]
          /\ pc' = [pc EXCEPT ![t] = "idle"] /\ exitThread' = exitThread
      BY <1>4, <2>1
    <3>2. \A u \in Threads : "canWrite" \in DOMAIN kept[u] /\ DOMAIN kept = Threads
      BY <1>2 DEF Shape
    <3>3. PICK n : n = me[t].next
      OBVIOUS
    <3>4. threads' = [kept EXCEPT ![n].canWrite = TRUE]
      BY <3>1, <3>3
    <3>5. \A u \in Threads :
             /\ threads'[u].canRead = kept[u].canRead
             /\ threads'[u].canWrite = IF u = n THEN TRUE ELSE kept[u].canWrite
      BY <3>2, <3>4, TurnGiven
    <3>6. pc'[t] = "idle"
      BY <3>1 DEF Shape
    <3> QED  BY <1>2, <2>1, <3>1, <3>3, <3>5, <3>6 DEF HandsOn
  <2>2. CASE me[t].finish /\ pc' = [pc EXCEPT ![t] = "idle"] /\ exitThread' = exitThread
             /\ threads' = [kept EXCEPT ![0].canWrite = TRUE, ![0].canRead = TRUE]
    BY <1>2, <2>2, ThreadsAre DEF Shape, BeginsAnew
  <2>3. CASE /\ me[t].finish /\ t # 0 /\ threads' = [kept EXCEPT ![0].canRead = TRUE]
             /\ pc' = [pc EXCEPT ![t] = "idle"] /\ exitThread' = TRUE
    BY <1>2, <2>3, ThreadsAre DEF Shape, EndsAll
  <2>4. CASE /\ me[t].finish /\ t = 0 /\ threads' = kept
             /\ pc' = [pc EXCEPT ![t] = "ended"] /\ exitThread' = exitThread
    BY <1>2, <2>4, ThreadsAre DEF Shape, EndsAll
  <2> QED  BY <1>4, <2>1, <2>2, <2>3, <2>4
<1>9. Leaves(t)
  BY <1>3, <1>6, <1>8 DEF Leaves
<1> QED  BY <1>7, <1>9

LEMMA WriteEffect ==
    ASSUME Shape, NEW t \in Threads, Write(t) \/ WriteFails(t) \/ WriteNothing(t)
    PROVE  Shape' /\ Leaves(t)
<1>1. /\ HasTurn(t)
      /\ UNCHANGED <<me, blockIndex, numStartedThreads, limit_, main>>
  BY DEF Write, WriteFails, WriteNothing, startVars
<1>2. CASE Write(t)
  <2> DEFINE goes == ~ Ending(t)
  <2>1. Leave(t, TRUE, OK, goes) /\ goes \in BOOLEAN
    BY <1>2 DEF Write
  <2> HIDE DEF goes
  <2> QED  BY <1>1, <2>1, LeaveEffect
<1>3. CASE WriteFails(t)
  BY <1>1, <1>3, LeaveEffect DEF WriteFails
<1>4. CASE WriteNothing(t)
  <2> DEFINE goes == IF me[t].needWrite THEN FALSE ELSE ~ me[t].finish
  <2>1. Leave(t, FALSE, OK, goes) /\ goes \in BOOLEAN
    BY <1>4 DEF WriteNothing
  <2> HIDE DEF goes
  <2> QED  BY <1>1, <2>1, LeaveEffect
<1> QED  BY <1>2, <1>3, <1>4
-----------------------------------------------------------------------------
(* The threads stay together. *)

LEMMA BeginsTogether ==
    ASSUME Shape, Shape', Together, NEW t \in Threads, Begins(t)
    PROVE  Together'
<1>1. /\ ~ Busy(t) /\ Busy(t)' /\ Reading(t)' /\ ~ Passed(t)'
      /\ \A u \in Threads : u # t => /\ Busy(u)' <=> Busy(u)
                                     /\ Reading(u)' <=> Reading(u)
                                     /\ Passed(u)' <=> Passed(u)
  BY DEF Begins, Busy, Reading, Passed, SameFor
<1>2. ~ Over /\ ~ Over'
  BY ThreadsAre DEF Begins, Over, Together, TheEnd, Readers, NobodyMayRead, SameFor, Shape
<1>3. Blocks'
  BY <1>1 DEF Together, Blocks, Begins, SameFor, Shape
<1>4. /\ \A u \in Threads : ~ Reading(u) /\ ~ (Passed(u) /\ me[u].finish)
      /\ NobodyMayRead'
  BY DEF Together, Readers, NobodyMayRead, Begins, SameRights
<1>5. Readers'
  BY <1>1, <1>4 DEF Together, Readers, NobodyMayRead, Begins, SameFor, SameRights, IsLast, Shape
<1>6. Followed'
  <2> SUFFICES ASSUME NEW u \in Threads, Passed(u)', ~ me'[u].finish
               PROVE  /\ me'[u].next \in Threads /\ me'[u].next < numStartedThreads'
                      /\ IsLast(u)' => threads'[me'[u].next].canRead
                      /\ ~ IsLast(u)' => /\ Busy(me[u].next)'
                                         /\ me'[me'[u].next].blockIndex = me'[u].blockIndex + 1
    BY DEF Followed
  <2>1. u # t /\ Passed(u) /\ ~ me[u].finish /\ me'[u].next = me[u].next
        /\ me'[u].blockIndex = me[u].blockIndex
    BY <1>1 DEF Begins, SameFor
  <2>2. Busy(u) /\ me[u].blockIndex \in Nat /\ me[u].blockIndex < blockIndex
    BY <2>1 DEF Busy, Passed, Together, Blocks
  <2>3. me[u].next \in Threads /\ me[u].next < numStartedThreads
    BY <2>1 DEF Together, Followed
  <2>4. CASE IsLast(u)
    <3>1. me[u].next = t
      BY <2>1, <2>3, <2>4 DEF Together, Followed, Readers, Begins
    <3> QED  BY <1>1, <2>1, <2>2, <2>3, <2>4, <3>1 DEF IsLast, Begins, Shape
  <2>5. CASE ~ IsLast(u)
    <3>1. Busy(me[u].next) /\ me[me[u].next].blockIndex = me[u].blockIndex + 1
      BY <2>1, <2>5 DEF Together, Followed
    <3>2. me[u].next # t
      BY <1>1, <3>1
    <3> QED  BY <1>1, <2>1, <2>2, <2>3, <2>5, <3>1, <3>2 DEF IsLast, Begins, SameFor, Shape
  <2> QED  BY <2>4, <2>5
<1>7. Writers'
  <2>1. \A u, v \in Threads : threads'[u].canWrite /\ threads'[v].canWrite => u = v
    BY DEF Together, Writers, Begins, SameRights
  <2>2. PICK u \in Threads : threads[u].canWrite /\ (First(u) \/ (NobodyBusy /\ threads[u].canRead))
    BY <1>2 DEF Together, Writers
  <2>3. threads'[u].canWrite
    BY <2>2 DEF Begins, SameRights
  <2>4. First(u)'
    <3>1. CASE First(u)
      BY <1>1, <3>1 DEF First, Begins, SameFor, Together, Blocks, Shape
    <3>2. CASE NobodyBusy /\ threads[u].canRead
      <4>1. u = t
        BY <3>2 DEF Together, Readers, Begins
      <4> QED  BY <1>1, <3>2, <4>1 DEF First, NobodyBusy, Begins, Shape
    <3> QED  BY <2>2, <3>1, <3>2
  <2> QED  BY <2>1, <2>3, <2>4 DEF Writers
<1>8. Someone'
  BY <1>1 DEF Together, Someone, Begins, SameRights, Shape
<1>9. TheEnd'
  BY <1>1, <1>2 DEF Together, TheEnd, Begins, SameFor, SameRights, Over
<1> QED  BY <1>3, <1>5, <1>6, <1>7, <1>8, <1>9 DEF Together

LEMMA ToldTogether ==
    ASSUME Shape, Shape', Together, NEW t \in Threads, IsToldToEnd(t)
    PROVE  Together'
<1>1. t = 0 /\ Over /\ NobodyBusy
  BY DEF IsToldToEnd, Together, TheEnd, Over
<1>2. NobodyBusy'
  BY <1>1 DEF IsToldToEnd, NobodyBusy, Busy, SameFor
<1>3. NobodyMayRead' /\ Over'
  BY <1>1 DEF IsToldToEnd, NobodyMayRead, Together, Readers, SameRights, Over
<1>4. Blocks' /\ Readers' /\ Followed'
  BY <1>2, <1>3 DEF Blocks, Readers, Followed, NobodyBusy, NobodyMayRead, Busy, Passed, Reading
<1>5. Writers'
  BY <1>3 DEF Together, Writers, IsToldToEnd, SameRights
<1>6. Someone' /\ TheEnd'
  BY <1>1, <1>2, <1>3 DEF Together, Someone, TheEnd, IsToldToEnd, SameFor, SameRights, NobodyMayRead
<1> QED  BY <1>4, <1>5, <1>6 DEF Together

LEMMA ReadsTogether ==
    ASSUME Shape, Shape', Together, NEW t \in Threads, Reads(t)
    PROVE  Together'
<1>1. /\ Reading(t) /\ Reading(t)' /\ Busy(t) /\ ~ Passed(t)'
      /\ \A u \in Threads : /\ Busy(u)' <=> Busy(u)
                            /\ Reading(u)' <=> Reading(u)
                            /\ Passed(u)' <=> Passed(u)
                            /\ me'[u].blockIndex = me[u].blockIndex
                            /\ IsLast(u)' <=> IsLast(u)
                            /\ Passed(u) => me'[u].finish = me[u].finish /\ me'[u].next = me[u].next
  BY DEF Reads, Busy, Reading, Passed, SameFor, IsLast
<1>2. Over' <=> Over
  BY ThreadsAre DEF Reads, Over, SameFor
<1>3. Blocks'
  BY <1>1 DEF Together, Blocks, Reads
<1>4. NobodyMayRead' <=> NobodyMayRead
  BY DEF NobodyMayRead, Reads, SameRights
<1>5. Readers'
  BY <1>1, <1>4 DEF Together, Readers, Reads, SameRights
<1>6. Followed'
  <2> SUFFICES ASSUME NEW u \in Threads, Passed(u)', ~ me'[u].finish
               PROVE  /\ me'[u].next \in Threads /\ me'[u].next < numStartedThreads'
                      /\ IsLast(u)' => threads'[me'[u].next].canRead
                      /\ ~ IsLast(u)' => /\ Busy(me[u].next)'
                                         /\ me'[me'[u].next].blockIndex = me'[u].blockIndex + 1
    BY DEF Followed
  <2>1. Passed(u) /\ ~ me[u].finish /\ me'[u].next = me[u].next
    BY <1>1
  <2>2. me[u].next \in Threads
    BY <2>1 DEF Together, Followed
  <2> QED  BY <1>1, <2>1, <2>2 DEF Together, Followed, Reads, SameRights
<1>7. Writers'
  BY <1>1, <1>2 DEF Together, Writers, First, NobodyBusy, Reads, SameRights
<1>8. Someone'
  BY <1>1 DEF Together, Someone, Reads, SameRights
<1>9. TheEnd'
  BY <1>1, <1>2, <1>4, ThreadsAre DEF Together, TheEnd, NobodyBusy, Reads, SameFor, SameRights, Over
<1> QED  BY <1>3, <1>5, <1>6, <1>7, <1>8, <1>9 DEF Together

LEMMA CodesTogether ==
    ASSUME Shape, Shape', Together, NEW t \in Threads, Codes(t)
    PROVE  Together'
<1>1. /\ \A u \in Threads : /\ Busy(u)' <=> Busy(u)
                            /\ Reading(u)' <=> Reading(u)
                            /\ Passed(u)' <=> Passed(u)
                            /\ me'[u].blockIndex = me[u].blockIndex
                            /\ IsLast(u)' <=> IsLast(u)
                            /\ me'[u].finish = me[u].finish /\ me'[u].next = me[u].next
  BY DEF Codes, Busy, Reading, Passed, SameFor, IsLast
<1>2. Over' <=> Over
  BY ThreadsAre DEF Codes, Over, SameFor
<1>3. Blocks'
  BY <1>1 DEF Together, Blocks, Codes
<1>4. NobodyMayRead' <=> NobodyMayRead
  BY DEF NobodyMayRead, Codes, SameRights
<1>5. Readers'
  BY <1>1, <1>4 DEF Together, Readers, Codes, SameRights
<1>6. Followed'
  BY <1>1 DEF Together, Followed, Codes, SameRights
<1>7. Writers'
  BY <1>1, <1>2 DEF Together, Writers, First, NobodyBusy, Codes, SameRights
<1>8. Someone'
  BY <1>1, <1>2 DEF Together, Someone, Codes, SameRights
<1>9. TheEnd'
  BY <1>1, <1>2, <1>4, ThreadsAre DEF Together, TheEnd, NobodyBusy, Codes, SameFor, SameRights, Over
<1> QED  BY <1>3, <1>5, <1>6, <1>7, <1>8, <1>9 DEF Together
LEMMA PassesTogether ==
    ASSUME Shape, Shape', Together, NEW t \in Threads,
           NEW next \in Threads, NEW goesOn \in BOOLEAN, NEW started \in 1..NumThreads,
           PassesOn(t, next, goesOn, started)
    PROVE  Together'
<1>1. \A u \in Threads : pc'[u] = pc[u] \/ u = t \/ (pc[u] = "none" /\ pc'[u] = "idle")
  <2>1. \A u \in Threads : u = numStartedThreads => pc[u] = "none"
    BY ThreadsAre DEF Shape
  <2> QED  BY <2>1 DEF PassesOn
<1>2. /\ Reading(t) /\ Busy(t) /\ Busy(t)' /\ Passed(t)' /\ ~ Passed(t) /\ ~ Reading(t)'
      /\ \A u \in Threads : u # t => /\ Busy(u)' <=> Busy(u)
                                     /\ Reading(u)' <=> Reading(u)
                                     /\ Passed(u)' <=> Passed(u)
                                     /\ me'[u] = me[u]
      /\ \A u \in Threads : /\ Busy(u)' <=> Busy(u)
                            /\ me'[u].blockIndex = me[u].blockIndex
                            /\ IsLast(u)' <=> IsLast(u)
  BY <1>1 DEF PassesOn, Busy, Reading, Passed, IsLast
<1>3. /\ IsLast(t) /\ NobodyMayRead
      /\ \A u \in Threads : u # t => ~ Reading(u) /\ ~ (Busy(u) /\ IsLast(u))
  <2>1. IsLast(t) /\ NobodyMayRead /\ \A u \in Threads : Reading(u) => IsLast(u) /\ Busy(u)
    BY <1>2 DEF Together, Readers, Reading, Busy
  <2>2. ASSUME NEW u \in Threads, Busy(u), IsLast(u)
        PROVE  u = t
    <3>1. me[u].blockIndex \in Nat /\ me[t].blockIndex \in Nat
      BY <1>2, <2>2 DEF Together, Blocks
    <3>2. me[u].blockIndex + 1 = blockIndex /\ me[t].blockIndex + 1 = blockIndex
      BY <2>1, <2>2 DEF IsLast
    <3>3. me[u].blockIndex = me[t].blockIndex
      BY <3>1, <3>2
    <3> QED  BY <1>2, <2>2, <3>3 DEF Together, Blocks
  <2> QED  BY <2>1, <2>2
<1>4. ~ Over /\ ~ Over'
  BY <1>1, <1>2, ThreadsAre DEF Together, TheEnd, Over, NobodyBusy, Busy, PassesOn
<1>5. Blocks'
  BY <1>2 DEF Together, Blocks, PassesOn
<1>6. Readers'
  <2>1. \A u \in Threads : threads'[u].canRead => u = next
    BY <1>3 DEF PassesOn, NobodyMayRead
  <2>2. \A u \in Threads : ~ Reading(u)'
    BY <1>2, <1>3
  <2>3. \A u \in Threads : Passed(u)' /\ me'[u].finish => u = t
    <3> SUFFICES ASSUME NEW u \in Threads, Passed(u)', me'[u].finish, u # t
                 PROVE  FALSE
      OBVIOUS
    <3>1. Passed(u) /\ Busy(u) /\ me[u].finish
      BY <1>2 DEF Passed, Busy
    <3> QED  BY <1>3, <3>1 DEF Together, Readers
  <2>4. me'[t].finish => NobodyMayRead'
    BY <1>3 DEF PassesOn, NobodyMayRead
  <2> QED  BY <1>2, <1>3, <2>1, <2>2, <2>3, <2>4 DEF Readers
<1>7. Followed'
  <2> SUFFICES ASSUME NEW u \in Threads, Passed(u)', ~ me'[u].finish
               PROVE  /\ me'[u].next \in Threads /\ me'[u].next < numStartedThreads'
                      /\ IsLast(u)' => threads'[me'[u].next].canRead
                      /\ ~ IsLast(u)' => /\ Busy(me[u].next)'
                                         /\ me'[me'[u].next].blockIndex = me'[u].blockIndex + 1
    BY DEF Followed
  <2>1. CASE u = t
    <3>1. me'[t].next = next /\ goesOn
      BY <2>1 DEF PassesOn
    <3>2. next < started
      BY ThreadsAre DEF PassesOn, NextThread, Shape
    <3> QED  BY <1>2, <1>3, <2>1, <3>1, <3>2 DEF PassesOn
  <2>2. CASE u # t
    <3>1. Passed(u) /\ ~ me[u].finish /\ me'[u].next = me[u].next /\ ~ IsLast(u)
      BY <1>2, <1>3, <2>2 DEF Passed, Busy
    <3>2. /\ me[u].next \in Threads /\ me[u].next < numStartedThreads
          /\ Busy(me[u].next) /\ me[me[u].next].blockIndex = me[u].blockIndex + 1
      BY <3>1 DEF Together, Followed
    <3>3. me[u].next < numStartedThreads'
      BY <3>2, ThreadsAre DEF PassesOn, Shape
    <3> QED  BY <1>2, <3>1, <3>2, <3>3
  <2> QED  BY <2>1, <2>2
<1>8. Writers'
  <2>1. \A u \in Threads : threads'[u].canWrite = threads[u].canWrite
    BY DEF PassesOn
  <2>2. PICK u \in Threads : threads[u].canWrite /\ First(u)
    BY <1>2, <1>4 DEF Together, Writers, NobodyBusy
  <2>3. First(u)'
    BY <1>2, <2>2 DEF First
  <2> QED  BY <2>1, <2>2, <2>3 DEF Together, Writers
<1>9. Someone'
  <2>1. \A u \in Threads : threads'[u].canRead => u < numStartedThreads'
    <3>1. \A u \in Threads : threads'[u].canRead => u = next
      BY <1>3 DEF PassesOn, NobodyMayRead
    <3>2. next < numStartedThreads'
      BY ThreadsAre DEF PassesOn, NextThread, Shape
    <3> QED  BY <3>1, <3>2
  <2>2. goesOn => threads'[next].canRead
    BY DEF PassesOn
  <2>3. ~ goesOn => Busy(t)' /\ me'[t].finish
    BY <1>2 DEF PassesOn
  <2> QED  BY <2>1, <2>2, <2>3 DEF Someone
<1>10. TheEnd'
  BY <1>1, <1>2, <1>4 DEF Together, TheEnd, PassesOn, Over
<1> QED  BY <1>5, <1>6, <1>7, <1>8, <1>9, <1>10 DEF Together

\* The thread that leaves has the first block of those there are; if it is the
\* last one too, no other has any.
LEMMA LeavesTogether ==
    ASSUME Shape, Shape', Together, NEW t \in Threads, Leaves(t)
    PROVE  Together'
<1>1. /\ Passed(t) /\ Busy(t) /\ ~ Busy(t)' /\ ~ Reading(t)' /\ ~ Passed(t)'
      /\ \A u \in Threads : u # t => /\ Busy(u)' <=> Busy(u)
                                     /\ Reading(u)' <=> Reading(u)
                                     /\ Passed(u)' <=> Passed(u)
      /\ \A u \in Threads : me'[u] = me[u] /\ (IsLast(u)' <=> IsLast(u))
  BY DEF Leaves, HandsOn, BeginsAnew, EndsAll, Busy, Reading, Passed, IsLast
<1>2. ~ Over
  BY <1>1 DEF Together, TheEnd, NobodyBusy
<1>3. First(t)
  BY <1>1, <1>2 DEF Together, Writers, Leaves, NobodyBusy
<1>4. \A u \in Threads : Busy(u) => /\ me[u].blockIndex \in Nat /\ me[u].blockIndex < blockIndex
                                    /\ me[t].blockIndex <= me[u].blockIndex
                                    /\ me[u].blockIndex = me[t].blockIndex => u = t
  BY <1>1, <1>3 DEF First, Together, Blocks
<1>5. IsLast(t) => \A u \in Threads : Busy(u) => u = t
  BY <1>1, <1>4 DEF IsLast, Shape
<1>6. \A u \in Threads : threads[u].canWrite => u = t
  BY DEF Together, Writers, Leaves
<1>7. Blocks'
  BY <1>1 DEF Together, Blocks, Leaves
<1>8. CASE HandsOn(t)
  <2>1. /\ me[t].next \in Threads /\ me[t].next < numStartedThreads
        /\ IsLast(t) => threads[me[t].next].canRead
        /\ ~ IsLast(t) => /\ Busy(me[t].next)
                          /\ me[me[t].next].blockIndex = me[t].blockIndex + 1
    BY <1>1, <1>8 DEF HandsOn, Together, Followed
  <2>2. \A u \in Threads : threads'[u].canRead = threads[u].canRead
    BY <1>8 DEF HandsOn
  <2>3. NobodyMayRead' <=> NobodyMayRead
    BY <2>2 DEF NobodyMayRead
  <2>4. Readers'
    BY <1>1, <2>2, <2>3 DEF Together, Readers
  <2>5. Followed'
    <3> SUFFICES ASSUME NEW u \in Threads, Passed(u)', ~ me'[u].finish
                 PROVE  /\ me'[u].next \in Threads /\ me'[u].next < numStartedThreads'
                        /\ IsLast(u)' => threads'[me'[u].next].canRead
                        /\ ~ IsLast(u)' => /\ Busy(me[u].next)'
                                           /\ me'[me'[u].next].blockIndex = me'[u].blockIndex + 1
      BY DEF Followed
    <3>1. u # t /\ Passed(u) /\ Busy(u) /\ ~ me[u].finish /\ me' = me
      BY <1>1 DEF Leaves, Passed, Busy
    <3>2. /\ me[u].next \in Threads /\ me[u].next < numStartedThreads
          /\ IsLast(u) => threads[me[u].next].canRead
          /\ ~ IsLast(u) => /\ Busy(me[u].next)
                            /\ me[me[u].next].blockIndex = me[u].blockIndex + 1
      BY <3>1 DEF Together, Followed
    <3>3. ~ IsLast(u) => me[u].next # t
      BY <1>1, <1>4, <3>1, <3>2
    <3> QED  BY <1>1, <2>2, <3>1, <3>2, <3>3 DEF Leaves
  <2>6. Writers'
    <3>1. PICK n \in Threads : n = me[t].next
      BY <2>1
    <3>2. /\ threads'[n].canWrite /\ \A u \in Threads : threads'[u].canWrite => u = n
      BY <1>6, <1>8, <3>1 DEF HandsOn
    <3>3. First(n)' \/ (NobodyBusy' /\ threads'[n].canRead)
      <4>1. CASE IsLast(t)
        BY <1>1, <1>5, <2>1, <2>2, <3>1, <4>1 DEF NobodyBusy
      <4>2. CASE ~ IsLast(t)
        <5>1. Busy(n) /\ me[n].blockIndex = me[t].blockIndex + 1
          BY <2>1, <3>1, <4>2
        <5>2. n # t
          BY <1>4, <1>1, <5>1
        <5>3. \A u \in Threads : Busy(u)' => me[n].blockIndex <= me[u].blockIndex
          BY <1>1, <1>4, <5>1
        <5> QED  BY <1>1, <5>1, <5>2, <5>3 DEF First
      <4> QED  BY <4>1, <4>2
    <3> QED  BY <3>2, <3>3 DEF Writers
  <2>7. Someone'
    <3>1. PICK u \in Threads : Reading(u) \/ threads[u].canRead \/ (Busy(u) /\ me[u].finish)
      BY <1>2 DEF Together, Someone
    <3>2. Reading(u)' \/ threads'[u].canRead \/ (Busy(u)' /\ me'[u].finish)
      <4>1. u # t \/ threads[u].canRead
        BY <1>8, <3>1 DEF HandsOn, Leaves, Reading
      <4> QED  BY <1>1, <2>2, <3>1, <4>1
    <3> QED  BY <2>2, <3>2 DEF Together, Someone, Leaves
  <2>8. TheEnd'
    BY <1>1, <1>2, <1>8, ThreadsAre DEF Together, TheEnd, Over, HandsOn, Leaves
  <2> QED  BY <1>7, <2>4, <2>5, <2>6, <2>7, <2>8 DEF Together
<1>9. CASE me[t].finish
  <2>1. IsLast(t) /\ NobodyMayRead
    BY <1>1, <1>9 DEF Together, Readers
  <2>2. NobodyBusy'
    BY <1>1, <1>5, <2>1 DEF NobodyBusy
  <2>3. \A u \in Threads : threads'[u].canRead => u = 0
    BY <1>9, <2>1 DEF Leaves, HandsOn, BeginsAnew, EndsAll, NobodyMayRead
  <2>4. Readers' /\ Followed'
    BY <2>2, <2>3 DEF Readers, Followed, NobodyBusy, Busy, Reading, Passed
  <2>5. CASE BeginsAnew(t)
    <3>1. threads'[0].canRead /\ threads'[0].canWrite
      BY <2>5, ThreadsAre DEF BeginsAnew
    <3>2. \A u \in Threads : threads'[u].canWrite => u = 0
      BY <1>6, <2>5 DEF BeginsAnew
    <3>3. Writers' /\ Someone'
      BY <2>2, <2>3, <3>1, <3>2, ThreadsAre DEF Writers, Someone, Shape
    <3>4. TheEnd'
      BY <1>1, <1>2, <2>2, <2>5, ThreadsAre DEF Together, TheEnd, Over, BeginsAnew, Leaves
    <3> QED  BY <1>7, <2>4, <3>3, <3>4 DEF Together
  <2>6. CASE EndsAll(t)
    <3>1. Over'
      BY <2>6 DEF Over, EndsAll
    <3>2. \A u \in Threads : ~ threads'[u].canWrite
      BY <1>6, <2>6 DEF EndsAll
    <3>3. Writers' /\ Someone'
      BY <2>3, <3>1, <3>2, ThreadsAre DEF Writers, Someone, Shape
    <3>4. TheEnd'
      BY <1>1, <1>2, <2>1, <2>2, <2>3, <2>6, ThreadsAre
         DEF Together, TheEnd, Over, EndsAll, Leaves, NobodyMayRead
    <3> QED  BY <1>7, <2>4, <3>3, <3>4 DEF Together
  <2> QED  BY <1>9, <2>5, <2>6 DEF Leaves, HandsOn
<1> QED  BY <1>8, <1>9 DEF Leaves, BeginsAnew, EndsAll
LEMMA ThreadTogether ==
    ASSUME Shape, Together, NEW t \in Threads, Thread(t)
    PROVE  Shape' /\ Together' /\ main' = main
<1>1. CASE BeginBlock(t)
  BY <1>1, BeginEffect, BeginsTogether, ToldTogether DEF Begins, IsToldToEnd
<1>2. CASE LinkFails(t) \/ ReadLink(t) \/ ReadFails(t)
  BY <1>2, LinkFailsEffect, ReadEffect, ReadsTogether DEF Reads
<1>3. CASE Pass(t) \/ NoMemory(t) \/ NoThread(t)
  <2>1. Shape'
    BY <1>3, PassEffect
  <2>2. PICK next \in Threads, goesOn \in BOOLEAN, started \in 1..NumThreads :
          PassesOn(t, next, goesOn, started)
    BY <1>3, PassEffect
  <2>3. Together'
    BY <2>1, <2>2, PassesTogether
  <2>4. main' = main
    BY <2>2 DEF PassesOn
  <2> QED  BY <2>1, <2>3, <2>4
<1>4. CASE Code(t)
  BY <1>4, CodeEffect, CodesTogether DEF Codes
<1>5. CASE Write(t) \/ WriteFails(t) \/ WriteNothing(t)
  BY <1>5, WriteEffect, LeavesTogether DEF Leaves
<1> QED  BY <1>1, <1>2, <1>3, <1>4, <1>5 DEF Thread

\* When MtDec_Code has returned a thread can only see that it is to end.
LEMMA ThreadApart ==
    ASSUME Shape, Apart, NEW t \in Threads, Thread(t)
    PROVE  Shape' /\ Apart' /\ main' = main
<1>1. pc[t] = "idle" /\ BeginBlock(t) /\ threads[t].canRead
  BY DEF Thread, BeginBlock, LinkFails, ReadLink, ReadFails, Pass, NoMemory, NoThread, Code,
         Write, WriteFails, WriteNothing, HasTurn, Apart, NobodyBusy, Busy
<1>2. exitThread
  BY <1>1 DEF Apart, NobodyMayRead
<1>3. Shape' /\ IsToldToEnd(t)
  BY <1>1, <1>2, BeginEffect DEF Begins
<1>4. NobodyBusy'
  BY <1>3 DEF Apart, NobodyBusy, Busy, IsToldToEnd, SameFor
<1> QED  BY <1>2, <1>3, <1>4 DEF Apart, IsToldToEnd

\* Taking a link from a thread leaves its rights alone.
Like(r, t) ==
    DOMAIN r = DOMAIN threads[t] /\ r.canRead = threads[t].canRead /\ r.canWrite = threads[t].canWrite

LEMMA TakeFromKeeps ==
    ASSUME Shape, NEW t, NEW th, t \in Threads => Like(th, t), TakeFrom(t, th)
    PROVE  DOMAIN threads' = Threads /\ \A v \in Threads : Like(threads'[v], v)
<1>1. PICK r : threads' = [threads EXCEPT ![t] = r] /\ (t \in Threads => Like(r, t))
  <2>1. PICK lim : threads' = [threads EXCEPT ![t] = [th EXCEPT !.inDataSize_Start = 0,
                                                                !.inDataSize = @ - lim]]
    BY Zenon DEF TakeFrom
  <2>2. t \in Threads => Like([th EXCEPT !.inDataSize_Start = 0, !.inDataSize = @ - lim], t)
    BY DEF Like, Shape
  <2> QED  BY <2>1, <2>2, Zenon
<1> QED  BY <1>1 DEF Like, Shape

\* The caller touches no right before the end.
LEMMA MainKeeps ==
    ASSUME Shape, Main
    PROVE  /\ Shape'
           /\ main' # "mt" /\ pc' = pc
           /\ main = "mt" => pc[0] = "ended"
           /\ exitThread' \/ (~ exitThread /\ \A t \in Threads : threads'[t].canRead = threads[t].canRead)
<1> DEFINE RightsKept ==
             /\ DOMAIN threads' = Threads
             /\ \A t \in Threads : DOMAIN threads'[t] = DOMAIN threads[t] /\ SameRights(t)
<1>1. /\ UNCHANGED <<pc, me, blockIndex, numStartedThreads, limit_>>
      /\ main' # "mt"
      /\ main = "mt" => pc[0] = "ended"
  BY DEF Main, MtEnds, Switch, FetchFilled, FetchCross, FetchStream, DecodeSt, Close, Closed,
         startVars, TakeFrom
<1>2. CASE MtEnds \/ FetchCross \/ FetchStream \/ DecodeSt \/ Closed
  <2>1. UNCHANGED <<threads, exitThread>>
    BY <1>2 DEF MtEnds, FetchCross, FetchStream, DecodeSt, Closed
  <2> QED  BY <1>1, <2>1 DEF Shape
<1>3. CASE Switch
  <2>1. exitThread' = exitThread
    BY <1>3 DEF Switch
  <2>2. RightsKept
    BY <1>3 DEF Switch, Shape, SameRights
  <2> QED  BY <1>1, <2>1, <2>2 DEF Shape, SameRights
<1>4. CASE FetchFilled
  <2>1. exitThread' = exitThread
    BY <1>4 DEF FetchFilled
  <2>2. RightsKept
    <3> DEFINE t == filledThreadStart
               th == Filled(t, st.inLim)
    <3>1. t \in Threads => Like(th, t) /\ Like([th EXCEPT !.inBuf = <<>>], t)
      BY DEF Filled, Like, Shape
    <3>2. \/ TakeFrom(t, th) \/ TakeFrom(NextFilled(t), threads[NextFilled(t)])
          \/ threads' = [threads EXCEPT ![t] = [th EXCEPT !.inBuf = <<>>]]
      BY <1>4, Zenon DEF FetchFilled
    <3> HIDE DEF t, th
    <3>3. CASE TakeFrom(t, th)
      BY <3>1, <3>3, TakeFromKeeps DEF Like, SameRights
    <3>4. CASE TakeFrom(NextFilled(t), threads[NextFilled(t)])
      <4>1. PICK n : TakeFrom(n, threads[n])
        BY <3>4
      <4> QED  BY <4>1, TakeFromKeeps DEF Like, SameRights
    <3>5. CASE threads' = [threads EXCEPT ![t] = [th EXCEPT !.inBuf = <<>>]]
      <4>1. PICK r : threads' = [threads EXCEPT ![t] = r] /\ (t \in Threads => Like(r, t))
        BY <3>1, <3>5
      <4> QED  BY <4>1 DEF Like, SameRights, Shape
    <3> QED  BY <3>2, <3>3, <3>4, <3>5
  <2> QED  BY <1>1, <2>1, <2>2 DEF Shape, SameRights
<1>5. CASE \E t \in Threads : Close(t)
  <2>1. PICK t \in Threads : Close(t)
    BY <1>5
  <2>2. /\ exitThread' = TRUE
        /\ threads' = [threads EXCEPT ![t].canRead = TRUE, ![t].canWrite = TRUE]
    BY <2>1 DEF Close
  <2> QED  BY <1>1, <2>2 DEF Shape
<1> QED  BY <1>2, <1>3, <1>4, <1>5 DEF Main
-----------------------------------------------------------------------------
(* The invariant. *)

LEMMA TurnsInit == Init => TurnsInv
<1> SUFFICES ASSUME Init
             PROVE  TurnsInv
  OBVIOUS
<1>1. Shape
  <2>1. /\ pc \in [Threads -> Pcs]
        /\ \A t \in Threads : pc[t] = "none" <=> t >= numStartedThreads
    BY ThreadsAre DEF Init, Pcs
  <2>2. DOMAIN me = Threads /\ \A t \in Threads : DOMAIN me[t] = DOMAIN NoLocals
    BY DEF Init
  <2>3. /\ DOMAIN threads = Threads
        /\ \A t \in Threads :
             /\ DOMAIN threads[t] = {"canRead", "canWrite", "inBuf", "inDataSize_Start", "inDataSize"}
             /\ threads[t].canRead \in BOOLEAN /\ threads[t].canWrite \in BOOLEAN
    BY DEF Init
  <2>4. /\ blockIndex \in Nat /\ exitThread \in BOOLEAN
        /\ numStartedThreads \in 1..NumThreads /\ limit_ \in 1..NumThreads
    <3>1. blockIndex = 1 /\ numStartedThreads = 1 /\ limit_ = NumThreads
      BY Zenon DEF Init
    <3>2. exitThread \in BOOLEAN
      BY Zenon DEF Init
    <3>3. blockIndex \in Nat /\ numStartedThreads \in 1..NumThreads /\ limit_ \in 1..NumThreads
      BY <3>1, ThreadsAre
    <3> QED  BY <3>2, <3>3
  <2> QED  BY <2>1, <2>2, <2>3, <2>4, Zenon DEF Shape
<1>2. NobodyBusy
  BY DEF Init, NobodyBusy, Busy
<1>3. /\ \A t \in Threads : threads[t].canRead <=> t = 0
      /\ \A t \in Threads : threads[t].canWrite <=> t = 0
      /\ ~ Over /\ \A t \in Threads : pc[t] # "ended"
      /\ main = "mt" /\ numStartedThreads = 1
  BY ThreadsAre DEF Init, Over
<1>4. Together
  <2>1. Blocks /\ Readers /\ Followed
    BY <1>2, <1>3 DEF Blocks, Readers, Followed, NobodyBusy, Busy, Reading, Passed
  <2>2. Writers /\ Someone /\ TheEnd
    BY <1>2, <1>3, ThreadsAre DEF Writers, Someone, TheEnd, Over
  <2> QED  BY <2>1, <2>2 DEF Together
<1> QED  BY <1>1, <1>3, <1>4 DEF TurnsInv

LEMMA TurnsNext == TurnsInv /\ [Next]_vars => TurnsInv'
<1> SUFFICES ASSUME TurnsInv, [Next]_vars
             PROVE  TurnsInv'
  OBVIOUS
<1>1. CASE UNCHANGED vars
  <2>1. UNCHANGED <<pc, me, threads, blockIndex, exitThread, numStartedThreads, limit_, main>>
    BY <1>1 DEF vars, startVars
  <2>2. /\ Shape' <=> Shape
        /\ Together' <=> Together
        /\ Apart' <=> Apart
    BY <2>1 DEF Shape, Together, Apart, Blocks, Readers, Followed, Writers, Someone, TheEnd,
                Over, NobodyBusy, NobodyMayRead, First, Busy, Reading, Passed, IsLast
  <2> QED  BY <2>1, <2>2 DEF TurnsInv
<1>2. CASE \E t \in Threads : Thread(t)
  BY <1>2, ThreadTogether, ThreadApart DEF TurnsInv
<1>3. CASE Main
  <2>1. /\ Shape' /\ main' # "mt" /\ pc' = pc
        /\ exitThread' \/ (~ exitThread /\ \A t \in Threads : threads'[t].canRead = threads[t].canRead)
        /\ main = "mt" => pc[0] = "ended"
    BY <1>3, MainKeeps DEF TurnsInv
  <2>2. NobodyBusy /\ (NobodyMayRead \/ exitThread)
    BY <2>1 DEF TurnsInv, Together, TheEnd, Over, Apart
  <2>3. Apart'
    BY <2>1, <2>2 DEF Apart, NobodyBusy, NobodyMayRead, Busy
  <2> QED  BY <2>1, <2>3 DEF TurnsInv
<1> QED  BY <1>1, <1>2, <1>3 DEF Next

LEMMA TurnsImply == TurnsInv => InTurn
<1> SUFFICES ASSUME TurnsInv
             PROVE  InTurn
  OBVIOUS
<1>1. OneAtATime
  BY DEF TurnsInv, OneAtATime, Together, Readers, Blocks, Writers, NobodyMayRead, IsLast,
         Reading, Busy, Shape
<1>2. FirstReadWrites
  <2> SUFFICES ASSUME main = "mt", NEW t \in Threads, NEW u \in Threads,
                      threads[t].canWrite, Busy(t), Busy(u)
               PROVE  me[t].blockIndex <= me[u].blockIndex
    BY DEF FirstReadWrites
  <2>1. ~ Over
    BY DEF TurnsInv, Together, TheEnd, NobodyBusy
  <2>2. First(t)
    BY <2>1 DEF TurnsInv, Together, Writers, NobodyBusy
  <2> QED  BY <2>2 DEF First
<1>3. RightsAreKept
  <2> SUFFICES ASSUME main = "mt", ~ exitThread, pc[0] # "ended"
               PROVE  /\ \E t \in Threads : \/ Reading(t)
                                            \/ threads[t].canRead /\ Runs(t)
                                            \/ Busy(t) /\ me[t].finish
                      /\ \E t \in Threads : /\ threads[t].canWrite
                                            /\ Busy(t) \/ (threads[t].canRead /\ Runs(t))
    BY DEF RightsAreKept
  <2>1. ~ Over /\ Together
    BY DEF Over, TurnsInv
  <2>2. \A t \in Threads : threads[t].canRead => Runs(t)
    BY <2>1, ThreadsAre DEF TurnsInv, Shape, Together, Someone, TheEnd, Runs
  <2>3. PICK t \in Threads : Reading(t) \/ threads[t].canRead \/ (Busy(t) /\ me[t].finish)
    BY <2>1 DEF Together, Someone
  <2>4. PICK u \in Threads : threads[u].canWrite /\ (First(u) \/ (NobodyBusy /\ threads[u].canRead))
    BY <2>1 DEF Together, Writers
  <2> QED  BY <2>2, <2>3, <2>4 DEF First
<1>4. NobodyWorks
  BY DEF TurnsInv, NobodyWorks, Together, TheEnd, Over, Apart, NobodyBusy
<1> QED  BY <1>1, <1>2, <1>3, <1>4 DEF InTurn

\* For every number of threads, every stream and whatever fails: one thread at
\* most reads and one at most has the turn to write, which is that of the
\* block read first; neither right is lost before decoding ends (each
\* Event_Set of canRead in MtDec.c is followed by one of canWrite, as its
\* comment asks); and when it ends no thread has a block any more.
THEOREM TurnsAreTaken == Spec => []InTurn
<1>1. Init => TurnsInv
  BY TurnsInit
<1>2. TurnsInv /\ [Next]_vars => TurnsInv'
  BY TurnsNext
<1>3. TurnsInv => InTurn
  BY TurnsImply
<1> QED  BY <1>1, <1>2, <1>3, PTL DEF Spec

(* The stream as it is gone through, whatever is damaged and however much  *)
(* comes out: the decoder's state after k places, and the places whose     *)
(* data came out.                                                          *)

Symbols == {"n", "c", "d", "x", "e"}
States == {"CONTROL", "DATA", "FINISHED", "ERROR"}
Decs == [state : States, hasDic : BOOLEAN]
Stages == [dec : Decs, out : Seq(Nat)]

WalkOn(w, x, k) ==
    IF w.dec.state = "DATA"
    THEN [dec |-> [w.dec EXCEPT !.state = "CONTROL"], out |-> Append(w.out, k)]
    ELSE [dec |-> UpdateState(w.dec, x), out |-> w.out]
FirstStage == [dec |-> NewDecoder, out |-> <<>>]
Walk(s) == CHOOSE w : w \in [0..Len(s) -> Stages] /\ w[0] = FirstStage
                      /\ \A k \in 1..Len(s) : w[k] = WalkOn(w[k - 1], s[k], k)

State(s, k) == Walk(s)[k].dec.state
Out(s, k) == Walk(s)[k].out
Count(s, k) == Len(Out(s, k))
Live(s, k) == State(s, k) \in {"CONTROL", "DATA"}

LEMMA UpdateStateIs ==
    ASSUME NEW dec \in Decs, NEW x \in Symbols
    PROVE  /\ UpdateState(dec, x) \in Decs
           /\ x = "n" => UpdateState(dec, x) = [state |-> "DATA", hasDic |-> TRUE]
           /\ x = "n" => UpdateState(dec, x) = UpdateState(NewDecoder, x)
           /\ UpdateState(dec, x).state # "CONTROL"
           /\ UpdateState(dec, x).state = "FINISHED" <=> x = "e"
           /\ UpdateState(dec, x).state = "DATA" => x \in {"n", "c"}
           /\ NewDecoder \in Decs /\ NewDecoder.state = "CONTROL"
  BY DEF UpdateState, Decs, States, Symbols, NewDecoder

LEMMA WalkOnIs ==
    ASSUME NEW w \in Stages, NEW x \in Symbols, NEW k \in Nat
    PROVE  WalkOn(w, x, k) \in Stages
<1>1. w.dec \in Decs /\ w.out \in Seq(Nat)
  BY DEF Stages
<1>2. Append(w.out, k) \in Seq(Nat) /\ UpdateState(w.dec, x) \in Decs
  BY <1>1, AppendProperties, UpdateStateIs
<1>3. [w.dec EXCEPT !.state = "CONTROL"] \in Decs
  BY <1>1 DEF Decs, States
<1> QED  BY <1>1, <1>2, <1>3 DEF WalkOn, Stages

LEMMA WalkExists ==
    ASSUME NEW s \in Seq(Symbols)
    PROVE  /\ Walk(s) \in [0..Len(s) -> Stages] /\ Walk(s)[0] = FirstStage
           /\ \A k \in 1..Len(s) : Walk(s)[k] = WalkOn(Walk(s)[k - 1], s[k], k)
<1>1. Len(s) \in Nat /\ \A k \in 1..Len(s) : s[k] \in Symbols
  BY LenProperties, ElementOfSeq
<1>2. FirstStage \in Stages
  <2>1. <<>> \in Seq(Nat)
    BY EmptySeq
  <2> QED  BY <2>1 DEF FirstStage, Stages, NewDecoder, Decs, States
<1> DEFINE step == [k \in 1..Len(s) |-> [w \in Stages |-> WalkOn(w, s[k], k)]]
<1>3. \A k \in 1..Len(s) : step[k] \in [Stages -> Stages]
  BY <1>1, WalkOnIs
<1>4. PICK f \in [0..Len(s) -> Stages] :
        f[0] = FirstStage /\ \A k \in 1..Len(s) : f[k] = step[k][f[k - 1]]
  <2>1. PICK n \in Nat : n = Len(s)
    BY <1>1
  <2>2. \A k \in 1..n : step[k] \in [Stages -> Stages]
    BY <1>3, <2>1
  <2> HIDE DEF step
  <2>3. \E f \in [0..n -> Stages] : Succeeds(f, n, FirstStage, step)
    BY <1>2, <2>2, Succession, Zenon
  <2> QED  BY <2>1, <2>3, Zenon DEF Succeeds
<1>5. \A k \in 1..Len(s) : f[k] = WalkOn(f[k - 1], s[k], k)
  <2> TAKE k \in 1..Len(s)
  <2>1. f[k - 1] \in Stages
    BY <1>1
  <2> QED  BY <1>4, <2>1
<1> QED  BY <1>4, <1>5, Zenon DEF Walk

Dec(s, k) == Walk(s)[k].dec

LEMMA WalkStart ==
    ASSUME NEW s \in Seq(Symbols)
    PROVE  /\ Len(s) \in Nat /\ \A k \in 1..Len(s) : s[k] \in Symbols
           /\ Dec(s, 0) = NewDecoder /\ State(s, 0) = "CONTROL" /\ Out(s, 0) = <<>>
           /\ Count(s, 0) = 0
<1>1. Len(s) \in Nat /\ \A k \in 1..Len(s) : s[k] \in Symbols
  BY LenProperties, ElementOfSeq
<1>2. Walk(s)[0] = FirstStage
  BY WalkExists
<1>3. Dec(s, 0) = NewDecoder /\ Out(s, 0) = <<>>
  BY <1>2 DEF FirstStage, Dec, Out
<1>4. Dec(s, 0).state = "CONTROL"
  BY <1>3 DEF NewDecoder
<1> QED  BY <1>1, <1>3, <1>4, EmptySeq DEF State, Dec, Count

LEMMA WalkTypes ==
    ASSUME NEW s \in Seq(Symbols), NEW k \in 0..Len(s)
    PROVE  /\ Dec(s, k) \in Decs /\ State(s, k) \in States /\ Dec(s, k).state = State(s, k)
           /\ Out(s, k) \in Seq(Nat) /\ Count(s, k) \in Nat
<1>1. Walk(s)[k] \in Stages
  BY WalkExists
<1>2. Dec(s, k) \in Decs /\ Out(s, k) \in Seq(Nat)
  BY <1>1 DEF Stages, Dec, Out
<1> QED  BY <1>2, LenProperties DEF State, Dec, Decs, Count

LEMMA WalkStep ==
    ASSUME NEW s \in Seq(Symbols), NEW k \in 1..Len(s)
    PROVE  /\ State(s, k - 1) = "DATA" =>
                /\ Dec(s, k) = [Dec(s, k - 1) EXCEPT !.state = "CONTROL"]
                /\ State(s, k) = "CONTROL" /\ Out(s, k) = Append(Out(s, k - 1), k)
                /\ Count(s, k) = Count(s, k - 1) + 1
           /\ State(s, k - 1) # "DATA" =>
                /\ Dec(s, k) = UpdateState(Dec(s, k - 1), s[k])
                /\ State(s, k) = UpdateState(Dec(s, k - 1), s[k]).state
                /\ State(s, k) # "CONTROL"
                /\ Out(s, k) = Out(s, k - 1) /\ Count(s, k) = Count(s, k - 1)
<1>1. Walk(s)[k] = WalkOn(Walk(s)[k - 1], s[k], k)
  BY WalkExists, Zenon
<1>2. k - 1 \in 0..Len(s) /\ k \in Nat
  BY WalkStart
<1>3. Dec(s, k - 1) \in Decs /\ Out(s, k - 1) \in Seq(Nat) /\ s[k] \in Symbols
  BY <1>2, WalkTypes, WalkStart
<1>4. Len(Append(Out(s, k - 1), k)) = Len(Out(s, k - 1)) + 1
  BY <1>2, <1>3, AppendProperties
<1>5. ASSUME State(s, k - 1) = "DATA"
      PROVE  /\ Dec(s, k) = [Dec(s, k - 1) EXCEPT !.state = "CONTROL"]
             /\ Out(s, k) = Append(Out(s, k - 1), k)
  BY <1>1, <1>5, <1>3 DEF WalkOn, Dec, Out, State
<1>6. ASSUME State(s, k - 1) # "DATA"
      PROVE  /\ Dec(s, k) = UpdateState(Dec(s, k - 1), s[k])
             /\ Out(s, k) = Out(s, k - 1)
  BY <1>1, <1>6, <1>3 DEF WalkOn, Dec, Out, State
<1>7. State(s, k) = Dec(s, k).state
  BY DEF State, Dec
<1>8. ASSUME State(s, k - 1) = "DATA" PROVE State(s, k) = "CONTROL"
  BY <1>5, <1>7, <1>8, <1>3 DEF Decs
<1>9. UpdateState(Dec(s, k - 1), s[k]).state # "CONTROL"
  BY <1>3, UpdateStateIs
<1> QED  BY <1>4, <1>5, <1>6, <1>7, <1>8, <1>9 DEF Count

\* What has come out stays.
LEMMA OutGrows ==
    ASSUME NEW s \in Seq(Symbols), NEW j \in 0..Len(s), NEW k \in j..Len(s)
    PROVE  /\ Count(s, j) <= Count(s, k)
           /\ \A i \in 1..Count(s, j) : Out(s, k)[i] = Out(s, j)[i]
<1> DEFINE Grown(n) == /\ Count(s, j) <= Count(s, j + n)
                       /\ \A i \in 1..Count(s, j) : Out(s, j + n)[i] = Out(s, j)[i]
           P == {n \in 0..(k - j) : Grown(n)}
<1>1. k - j \in Nat /\ Len(s) \in Nat
  BY WalkStart
<1>2. 0 \in P
  <2>1. j + 0 = j /\ Count(s, j) \in Nat
    BY WalkTypes
  <2> QED  BY <1>1, <2>1
<1>3. ASSUME NEW n \in 0..((k - j) - 1), n \in P PROVE n + 1 \in P
  <2>1. /\ j + n + 1 \in 1..Len(s) /\ (j + n + 1) - 1 = j + n /\ j + (n + 1) = j + n + 1
        /\ j + n \in 0..Len(s) /\ n + 1 \in 0..(k - j)
    BY <1>1
  <2>2. PICK m \in 1..Len(s) : m = j + n + 1 /\ m - 1 = j + n /\ m - 1 \in 0..Len(s) /\ m \in Nat
    BY <2>1
  <2>3. /\ Count(s, j) \in Nat /\ Count(s, m - 1) \in Nat /\ Out(s, m - 1) \in Seq(Nat)
    BY <2>2, WalkTypes
  <2>4. Count(s, j) <= Count(s, m - 1) /\ \A i \in 1..Count(s, j) : Out(s, m - 1)[i] = Out(s, j)[i]
    BY <1>3, <2>2
  <2>5. /\ Count(s, m - 1) <= Count(s, m)
        /\ \A i \in 1..Count(s, m - 1) : Out(s, m)[i] = Out(s, m - 1)[i]
    <3>1. CASE State(s, m - 1) = "DATA"
      <4>1. Out(s, m) = Append(Out(s, m - 1), m) /\ Count(s, m) = Count(s, m - 1) + 1
        BY <3>1, WalkStep
      <4>2. \A i \in 1..Len(Out(s, m - 1)) : Append(Out(s, m - 1), m)[i] = Out(s, m - 1)[i]
        BY <2>2, <2>3, AppendProperties
      <4> QED  BY <2>3, <4>1, <4>2 DEF Count
    <3>2. CASE State(s, m - 1) # "DATA"
      BY <2>3, <3>2, WalkStep
    <3> QED  BY <3>1, <3>2
  <2>6. Count(s, m) \in Nat
    BY <2>2, WalkTypes
  <2>7. \A i \in 1..Count(s, j) : Out(s, m)[i] = Out(s, j)[i]
    BY <2>3, <2>4, <2>5, <2>6
  <2>8. Count(s, j) <= Count(s, m)
    BY <2>3, <2>4, <2>5, <2>6
  <2>9. Grown(n + 1)
    BY <2>1, <2>2, <2>7, <2>8
  <2> QED  BY <2>1, <2>9
<1> HIDE DEF P
<1>4. \A n \in 0..(k - j) : n \in P
  BY <1>1, <1>2, <1>3, UpwardInduction, Zenon
<1>5. k - j \in P /\ j + (k - j) = k
  BY <1>1, <1>4
<1> QED  BY <1>5 DEF P

-----------------------------------------------------------------------------
(* What one decoder makes of the stream. *)

\* The symbol at place j is accepted where n units may come out.
Accepted(s, j, n, finish) ==
    /\ Live(s, j - 1)
    /\ State(s, j - 1) = "DATA" => Count(s, j - 1) < n /\ s[j] # "x"
    /\ State(s, j - 1) = "CONTROL" =>
         /\ State(s, j) # "ERROR"
         /\ Count(s, j - 1) < n \/ (finish /\ State(s, j) = "FINISHED")

AllAccepted(s, a, b, n, finish) == \A j \in (a + 1)..b : Accepted(s, j, n, finish)

\* All of the places after a up to b are.
Good(s, n, a, b) == AllAccepted(s, a, b, n, TRUE)

\* The symbol after place q is not, although it is asked for.
Refused(s, n, q) == q < Len(s) /\ Live(s, q) /\ ~ Accepted(s, q + 1, n, TRUE)

LiveFrom(s, a, b) == \A j \in a..(b - 1) : Live(s, j)

\* A block may begin after place a.
Proper(s, a) == State(s, a) = "CONTROL" /\ (a = 0 \/ (a < Len(s) /\ s[a + 1] = "n"))

\* As long as the stream goes on the places are those after p.
Leads(s, places, p) ==
    \A i \in 1..Len(places) :
       LiveFrom(s, p, p + i) => places[i] = p + i /\ p + i <= Len(s)

\* What came out of the places after p up to q.
Comes(s, o, p, q) ==
    /\ o \in Seq(Nat) /\ Len(o) = Count(s, q) - Count(s, p)
    /\ \A i \in 1..Len(o) : o[i] = Out(s, q)[Count(s, p) + i]

-----------------------------------------------------------------------------
(* Decode, symbol after symbol. *)

DecodeAccs == [dec : Decs, out : Seq(Nat), used : Nat, res : {"OK", "DATA"}]
DecodeStart(dec) == [dec |-> dec, out |-> <<>>, used |-> 0, res |-> "OK"]

DecodeSteps(f, dec, places, s, limit, finish) ==
    /\ f[0] = DecodeStart(dec)
    /\ \A k \in 1..Len(places) : f[k] = DecodeOne(f[k - 1], places[k], s[places[k]], limit, finish)

LEMMA UpdateStateTypes ==
    ASSUME NEW dec \in Decs, NEW x
    PROVE  UpdateState(dec, x) \in Decs
  BY DEF UpdateState, Decs, States

LEMMA DecodeOneTypes ==
    ASSUME NEW acc \in DecodeAccs, NEW k \in Nat, NEW x, NEW limit, NEW finish
    PROVE  DecodeOne(acc, k, x, limit, finish) \in DecodeAccs
<1>1. /\ acc.dec \in Decs /\ acc.out \in Seq(Nat) /\ acc.used \in Nat /\ acc.res \in {"OK", "DATA"}
      /\ acc = [dec |-> acc.dec, out |-> acc.out, used |-> acc.used, res |-> acc.res]
  BY DEF DecodeAccs
<1>2. PICK next : next = UpdateState(acc.dec, x) /\ next \in Decs
  BY <1>1, UpdateStateTypes
<1>3. PICK more : more = Append(acc.out, k) /\ more \in Seq(Nat)
  BY <1>1, AppendProperties
<1>4. PICK used : used = acc.used + 1 /\ used \in Nat
  BY <1>1
<1>5. [acc.dec EXCEPT !.state = "ERROR"] \in Decs /\ [acc.dec EXCEPT !.state = "CONTROL"] \in Decs
  BY <1>1 DEF Decs, States
<1>6. PICK full : full = (Len(acc.out) = limit)
  OBVIOUS
<1>7. DecodeOne(acc, k, x, limit, finish) =
        IF acc.res # "OK" \/ acc.dec.state = "FINISHED" \/ (full /\ ~ finish) THEN acc
        ELSE IF acc.dec.state = "DATA"
        THEN IF full \/ x = "x"
             THEN [acc EXCEPT !.res = "DATA", !.dec.state = "ERROR"]
             ELSE [acc EXCEPT !.dec.state = "CONTROL", !.used = used, !.out = more]
        ELSE IF next.state = "ERROR" \/ (full /\ next.state # "FINISHED")
        THEN [acc EXCEPT !.res = "DATA", !.dec.state = "ERROR", !.used = used]
        ELSE [acc EXCEPT !.dec = next, !.used = used]
  BY <1>2, <1>3, <1>4, <1>6 DEF DecodeOne
<1>8. [acc EXCEPT !.res = "DATA", !.dec.state = "ERROR"] \in DecodeAccs
  BY <1>1, <1>5 DEF DecodeAccs
<1>9. [acc EXCEPT !.dec.state = "CONTROL", !.used = used, !.out = more] \in DecodeAccs
  BY <1>1, <1>3, <1>4, <1>5 DEF DecodeAccs
<1>10. [acc EXCEPT !.res = "DATA", !.dec.state = "ERROR", !.used = used] \in DecodeAccs
  BY <1>1, <1>4, <1>5 DEF DecodeAccs
<1>11. [acc EXCEPT !.dec = next, !.used = used] \in DecodeAccs
  BY <1>1, <1>2, <1>4 DEF DecodeAccs
<1> QED  BY <1>7, <1>8, <1>9, <1>10, <1>11, Zenon

LEMMA DecodeFold ==
    ASSUME NEW dec \in Decs, NEW places \in Seq(Nat), NEW s, NEW limit, NEW finish
    PROVE  \E f : /\ DecodeSteps(f, dec, places, s, limit, finish)
                  /\ f[Len(places)] = Decode(dec, places, s, limit, finish)
                  /\ f \in [0..Len(places) -> DecodeAccs]
<1>1. PICK n \in Nat : n = Len(places)
  BY LenProperties
<1>2. \A k \in 1..n : places[k] \in Nat
  BY <1>1, ElementOfSeq
<1>3. PICK start : start = DecodeStart(dec) /\ start \in DecodeAccs
  <2>1. PICK e : e = <<>> /\ e \in Seq(Nat)
    BY EmptySeq
  <2>2. [dec |-> dec, out |-> e, used |-> 0, res |-> "OK"] \in DecodeAccs
    BY <2>1 DEF DecodeAccs
  <2> QED  BY <2>1, <2>2 DEF DecodeStart
<1> DEFINE step == [k \in 1..n |-> [w \in DecodeAccs |-> DecodeOne(w, places[k], s[places[k]], limit, finish)]]
           Rec(f) == [k \in 0..Len(places) |->
                        IF k = 0 THEN [dec |-> dec, out |-> <<>>, used |-> 0, res |-> "OK"]
                        ELSE DecodeOne(f[k - 1], places[k], s[places[k]], limit, finish)]
<1>4. \A k \in 1..n : step[k] \in [DecodeAccs -> DecodeAccs]
  BY <1>2, DecodeOneTypes
<1> HIDE DEF step
<1>5. PICK f \in [0..n -> DecodeAccs] : Succeeds(f, n, start, step)
  BY <1>3, <1>4, Succession, Zenon
<1>6. \A k \in 0..n : f[k] = IF k = 0 THEN start
                             ELSE DecodeOne(f[k - 1], places[k], s[places[k]], limit, finish)
  <2> SUFFICES ASSUME NEW k \in 1..n
               PROVE  f[k] = DecodeOne(f[k - 1], places[k], s[places[k]], limit, finish)
    BY <1>5 DEF Succeeds
  <2>1. f[k] = step[k][f[k - 1]] /\ f[k - 1] \in DecodeAccs
    BY <1>5 DEF Succeeds
  <2> QED  BY <2>1 DEF step
<1>7. f = Rec(f)
  <2>1. start = [dec |-> dec, out |-> <<>>, used |-> 0, res |-> "OK"]
    BY <1>3, Zenon DEF DecodeStart
  <2>2. Rec(f) = [k \in 0..n |-> f[k]]
    BY <1>1, <1>6, <2>1
  <2> QED  BY <1>5, <2>2
<1>8. PICK g : g = Rec(g) /\ Decode(dec, places, s, limit, finish) = g[Len(places)]
  BY <1>7, Zenon DEF Decode, Folded
<1>9. \A k \in 0..n : g[k] = IF k = 0 THEN start
                             ELSE DecodeOne(g[k - 1], places[k], s[places[k]], limit, finish)
  <2>1. start = [dec |-> dec, out |-> <<>>, used |-> 0, res |-> "OK"]
    BY <1>3, Zenon DEF DecodeStart
  <2>2. \A k \in 0..Len(places) : g[k] =
          IF k = 0 THEN [dec |-> dec, out |-> <<>>, used |-> 0, res |-> "OK"]
          ELSE DecodeOne(g[k - 1], places[k], s[places[k]], limit, finish)
    BY <1>8, Zenon
  <2> QED  BY <1>1, <2>1, <2>2, Zenon
<1>10. g[0] = start /\ \A k \in 1..n : g[k] = DecodeOne(g[k - 1], places[k], s[places[k]], limit, finish)
  BY <1>9
<1>11. \A k \in 0..n : g[k] \in DecodeAccs
  <2> DEFINE P == {k \in 0..n : g[k] \in DecodeAccs}
  <2>1. 0 \in P
    BY <1>3, <1>10
  <2>2. ASSUME NEW k \in 0..(n - 1), k \in P PROVE k + 1 \in P
    <3>1. k + 1 \in 1..n /\ (k + 1) - 1 = k /\ k + 1 \in 0..n
      OBVIOUS
    <3>2. g[k + 1] = DecodeOne(g[k], places[k + 1], s[places[k + 1]], limit, finish)
      BY <1>10, <3>1
    <3>3. g[k] \in DecodeAccs /\ places[k + 1] \in Nat
      BY <1>2, <2>2, <3>1
    <3> QED  BY <3>1, <3>2, <3>3, DecodeOneTypes
  <2> HIDE DEF P
  <2>3. \A k \in 0..n : k \in P
    BY <2>1, <2>2, UpwardInduction, Zenon
  <2> QED  BY <2>3 DEF P
<1>12. DecodeSteps(g, dec, places, s, limit, finish)
  BY <1>1, <1>3, <1>10, Zenon DEF DecodeSteps
<1>13. DOMAIN g = 0..n /\ g = [k \in DOMAIN g |-> g[k]]
  <2>1. DOMAIN g = 0..Len(places) /\ g = [k \in DOMAIN g |-> g[k]]
    BY <1>8, Zenon
  <2> QED  BY <1>1, <2>1
<1>14. g \in [0..n -> DecodeAccs]
  BY <1>11, <1>13, Zenon
<1> QED  BY <1>1, <1>8, <1>12, <1>14

\* A decoder that may go on after place p.
LikeDec(s, dec, p) == dec = Dec(s, p) \/ (dec = NewDecoder /\ Proper(s, p))

LEMMA LikeDecIs ==
    ASSUME NEW s \in Seq(Symbols), NEW p \in 0..Len(s), NEW dec, LikeDec(s, dec, p)
    PROVE  /\ dec \in Decs /\ dec.state = State(s, p)
           /\ State(s, p) = "DATA" => dec = Dec(s, p)
           /\ p < Len(s) => UpdateState(dec, s[p + 1]) = UpdateState(Dec(s, p), s[p + 1])
<1>1. CASE dec = Dec(s, p)
  BY <1>1, WalkTypes
<1>2. CASE dec = NewDecoder /\ Proper(s, p) /\ p = 0
  <2>1. dec = Dec(s, p)
    BY <1>2, WalkStart
  <2> QED  BY <2>1, WalkTypes
<1>3. CASE dec = NewDecoder /\ Proper(s, p) /\ p # 0
  <2>1. State(s, p) = "CONTROL" /\ s[p + 1] = "n" /\ "n" \in Symbols
    BY <1>3 DEF Proper, Symbols
  <2>2. Dec(s, p) \in Decs /\ dec \in Decs /\ dec.state = "CONTROL"
    BY <1>3, WalkTypes DEF NewDecoder, Decs, States
  <2>3. UpdateState(dec, "n") = UpdateState(Dec(s, p), "n")
    BY <2>1, <2>2, UpdateStateIs
  <2> QED  BY <2>1, <2>2, <2>3
<1> QED  BY <1>1, <1>2, <1>3 DEF LikeDec

\* The decoder after i of the places: it got to place q, with limit units out
\* of all of the stream as the most.
DecodedTo(acc, s, dec, p, limit, finish, q, i) ==
    /\ q \in p..Len(s) /\ q <= p + i
    /\ Comes(s, acc.out, p, q)
    /\ AllAccepted(s, p, q, limit, finish)
    /\ Count(s, q) <= limit
    /\ acc.res = "OK" =>
         /\ acc.used = q - p
         /\ acc.dec = IF q = p THEN dec ELSE Dec(s, q)
         /\ q = p + i \/ acc.dec.state = "FINISHED" \/ (Count(s, q) = limit /\ ~ finish)
    /\ acc.res = "DATA" =>
         /\ q < p + i /\ q < Len(s) /\ Live(s, q) /\ ~ Accepted(s, q + 1, limit, finish)
         /\ finish \/ Count(s, q) < limit

LEMMA AcceptedOn ==
    ASSUME NEW s \in Seq(Symbols), NEW p \in Nat, NEW q \in Nat, NEW n, NEW finish,
           AllAccepted(s, p, q, n, finish), Accepted(s, q + 1, n, finish)
    PROVE  AllAccepted(s, p, q + 1, n, finish)
<1> SUFFICES ASSUME NEW j \in (p + 1)..(q + 1) PROVE Accepted(s, j, n, finish)
  BY DEF AllAccepted
<1>1. CASE j = q + 1
  BY <1>1
<1>2. CASE j # q + 1
  <2>1. j \in (p + 1)..q
    BY <1>2
  <2> QED  BY <2>1 DEF AllAccepted
<1> QED  BY <1>1, <1>2

\* What was accepted was live before, and is not in error after.
LEMMA AcceptedLive ==
    ASSUME NEW s \in Seq(Symbols), NEW p \in 0..Len(s), NEW q \in p..Len(s), NEW n, NEW finish,
           AllAccepted(s, p, q, n, finish)
    PROVE  /\ LiveFrom(s, p, q)
           /\ p < q \/ State(s, p) # "ERROR" => State(s, q) # "ERROR"
<1>0. Len(s) \in Nat
  BY WalkStart
<1>1. LiveFrom(s, p, q)
  <2> SUFFICES ASSUME NEW j \in p..(q - 1) PROVE Live(s, j)
    BY DEF LiveFrom
  <2>1. j + 1 \in (p + 1)..q /\ (j + 1) - 1 = j
    BY <1>0
  <2> QED  BY <2>1 DEF AllAccepted, Accepted
<1>2. ASSUME p < q PROVE State(s, q) # "ERROR"
  <2>1. q \in (p + 1)..q /\ q \in 1..Len(s) /\ q - 1 \in 0..Len(s)
    BY <1>0, <1>2
  <2>2. Accepted(s, q, n, finish)
    BY <2>1 DEF AllAccepted
  <2>3. CASE State(s, q - 1) = "DATA"
    BY <2>1, <2>3, WalkStep
  <2>4. CASE State(s, q - 1) = "CONTROL"
    BY <2>2, <2>4 DEF Accepted
  <2> QED  BY <2>2, <2>3, <2>4 DEF Accepted, Live
<1>3. ASSUME State(s, p) # "ERROR", ~ (p < q) PROVE State(s, q) # "ERROR"
  <2>1. p = q
    BY <1>0, <1>3
  <2> QED  BY <1>3, <2>1
<1> QED  BY <1>1, <1>2, <1>3

LEMMA LiveOn ==
    ASSUME NEW s, NEW p \in Nat, NEW q \in Nat, LiveFrom(s, p, q), Live(s, q)
    PROVE  LiveFrom(s, p, q + 1)
  BY DEF LiveFrom

LEMMA ComesOn ==
    ASSUME NEW s \in Seq(Symbols), NEW p \in 0..Len(s), NEW q \in p..Len(s), q < Len(s), NEW o,
           Comes(s, o, p, q)
    PROVE  /\ State(s, q) = "DATA" => Comes(s, Append(o, q + 1), p, q + 1)
           /\ State(s, q) # "DATA" => Comes(s, o, p, q + 1)
<1>0. /\ Len(s) \in Nat /\ q + 1 \in 1..Len(s) /\ (q + 1) - 1 = q /\ q + 1 \in Nat
      /\ q \in 0..Len(s)
  BY WalkStart
<1>1. o \in Seq(Nat) /\ Len(o) \in Nat /\ Count(s, p) \in Nat /\ Count(s, q) \in Nat
      /\ Len(o) = Count(s, q) - Count(s, p) /\ Out(s, q) \in Seq(Nat)
  BY <1>0, WalkTypes, LenProperties DEF Comes
<1>2. ASSUME State(s, q) # "DATA" PROVE Comes(s, o, p, q + 1)
  <2>1. Out(s, q + 1) = Out(s, q) /\ Count(s, q + 1) = Count(s, q)
    BY <1>0, <1>2, WalkStep
  <2> QED  BY <2>1 DEF Comes
<1>3. ASSUME State(s, q) = "DATA" PROVE Comes(s, Append(o, q + 1), p, q + 1)
  <2>1. Out(s, q + 1) = Append(Out(s, q), q + 1) /\ Count(s, q + 1) = Count(s, q) + 1
    BY <1>0, <1>3, WalkStep
  <2>2. PICK new : new = Append(o, q + 1)
    OBVIOUS
  <2>21. PICK m \in Nat : m = q + 1
    BY <1>0
  <2>22. /\ new \in Seq(Nat) /\ Len(new) = Len(o) + 1
         /\ new[Len(o) + 1] = q + 1 /\ \A i \in 1..Len(o) : new[i] = o[i]
    BY <1>1, <2>2, <2>21, AppendProperties
  <2>23. PICK before : before = Out(s, q) /\ Len(before) = Count(s, q) /\ before \in Seq(Nat)
    BY <1>1 DEF Count
  <2>24. PICK all : all = Out(s, q + 1)
    OBVIOUS
  <2>3. all[Count(s, q) + 1] = q + 1 /\ \A i \in 1..Count(s, q) : all[i] = before[i]
    <3>1. all = Append(before, m)
      BY <2>1, <2>21, <2>23, <2>24
    <3>2. Append(before, m)[Len(before) + 1] = m
          /\ \A i \in 1..Len(before) : Append(before, m)[i] = before[i]
      BY <2>21, <2>23, AppendProperties
    <3> QED  BY <2>21, <2>23, <3>1, <3>2
  <2>4. ASSUME NEW i \in 1..Len(new) PROVE new[i] = all[Count(s, p) + i]
    <3>1. CASE i = Len(o) + 1
      <4>1. Count(s, p) + i = Count(s, q) + 1
        BY <1>1, <3>1
      <4> QED  BY <2>22, <2>3, <3>1, <4>1
    <3>2. CASE i # Len(o) + 1
      <4>1. i \in 1..Len(o)
        BY <1>1, <2>22, <3>2
      <4>2. o[i] = before[Count(s, p) + i]
        BY <2>23, <4>1 DEF Comes
      <4>3. Count(s, p) + i \in 1..Count(s, q)
        BY <1>1, <4>1
      <4> QED  BY <2>22, <2>3, <4>1, <4>2, <4>3
    <3> QED  BY <3>1, <3>2
  <2>5. Len(new) = Count(s, q + 1) - Count(s, p)
    BY <1>1, <2>1, <2>22
  <2> QED  BY <2>2, <2>22, <2>24, <2>4, <2>5 DEF Comes
<1> QED  BY <1>2, <1>3

\* One symbol, by cases.
DecodeOneCases(acc, k, x, limit, finish, next, r) ==
    LET full == Len(acc.out) = limit
        stops == acc.res # "OK" \/ acc.dec.state = "FINISHED" \/ (full /\ ~ finish)
        data == acc.dec.state = "DATA"
        bad == next.state = "ERROR" \/ (full /\ next.state # "FINISHED")
    IN  /\ stops => r = acc
        /\ ~ stops /\ data /\ (full \/ x = "x") => r.out = acc.out /\ r.res = "DATA"
        /\ ~ stops /\ data /\ ~ (full \/ x = "x") =>
             /\ r.out = Append(acc.out, k) /\ r.res = "OK" /\ r.used = acc.used + 1
             /\ r.dec = [acc.dec EXCEPT !.state = "CONTROL"]
        /\ ~ stops /\ ~ data /\ bad => r.out = acc.out /\ r.res = "DATA"
        /\ ~ stops /\ ~ data /\ ~ bad =>
             /\ r.out = acc.out /\ r.res = "OK" /\ r.used = acc.used + 1 /\ r.dec = next

LEMMA DecodeOneIs ==
    ASSUME NEW acc \in DecodeAccs, NEW k, NEW x, NEW limit, NEW finish \in BOOLEAN,
           NEW next, next = UpdateState(acc.dec, x),
           NEW r, r = DecodeOne(acc, k, x, limit, finish)
    PROVE  DecodeOneCases(acc, k, x, limit, finish, next, r)
<1>1. /\ acc.dec \in Decs /\ acc.out \in Seq(Nat) /\ acc.used \in Nat /\ acc.res \in {"OK", "DATA"}
      /\ acc = [dec |-> acc.dec, out |-> acc.out, used |-> acc.used, res |-> acc.res]
  BY DEF DecodeAccs
<1>2. PICK more : more = Append(acc.out, k)
  OBVIOUS
<1> DEFINE full == Len(acc.out) = limit
<1>3. r = IF acc.res # "OK" \/ acc.dec.state = "FINISHED" \/ (full /\ ~ finish) THEN acc
          ELSE IF acc.dec.state = "DATA"
          THEN IF full \/ x = "x"
               THEN [acc EXCEPT !.res = "DATA", !.dec.state = "ERROR"]
               ELSE [acc EXCEPT !.dec.state = "CONTROL", !.used = @ + 1, !.out = more]
          ELSE IF next.state = "ERROR" \/ (full /\ next.state # "FINISHED")
          THEN [acc EXCEPT !.res = "DATA", !.dec.state = "ERROR", !.used = @ + 1]
          ELSE [acc EXCEPT !.dec = next, !.used = @ + 1]
  BY <1>2, Zenon DEF DecodeOne
<1> QED  BY <1>1, <1>2, <1>3 DEF DecodeOneCases

\* The decoder before its next symbol.
DecodingAt(s, p, dec, places, limit, finish, i, acc, q) ==
    /\ s \in Seq(Symbols) /\ p \in 0..Len(s) /\ LikeDec(s, dec, p) /\ Live(s, p)
    /\ Leads(s, places, p) /\ limit \in Nat /\ limit >= Count(s, p) /\ finish \in BOOLEAN
    /\ i \in Nat /\ i < Len(places) /\ Len(places) \in Nat
    /\ acc \in DecodeAccs /\ DecodedTo(acc, s, dec, p, limit, finish, q, i)

DecodesOne(s, p, places, limit, finish, i, acc, new) ==
    new = DecodeOne(acc, places[i + 1], s[places[i + 1]], limit - Count(s, p), finish)

LEMMA DecodedOn ==
    ASSUME NEW s, NEW p, NEW dec, NEW places, NEW limit, NEW finish, NEW i, NEW acc, NEW q,
           DecodingAt(s, p, dec, places, limit, finish, i, acc, q),
           NEW new, DecodesOne(s, p, places, limit, finish, i, acc, new)
    PROVE  \E r : DecodedTo(new, s, dec, p, limit, finish, r, i + 1)
<1>s. s \in Seq(Symbols) /\ p \in 0..Len(s)
  BY DEF DecodingAt
<1>f. finish \in BOOLEAN /\ limit \in Nat /\ limit >= Count(s, p)
  BY DEF DecodingAt
<1>g. LikeDec(s, dec, p) /\ Live(s, p) /\ Leads(s, places, p)
  BY DEF DecodingAt
<1>i. i \in Nat /\ i < Len(places) /\ Len(places) \in Nat
  BY DEF DecodingAt
<1>a. acc \in DecodeAccs
  BY DEF DecodingAt
<1>d. DecodedTo(acc, s, dec, p, limit, finish, q, i)
  BY DEF DecodingAt
<1>0. /\ Len(s) \in Nat /\ q \in p..Len(s) /\ q <= p + i /\ q \in 0..Len(s) /\ q \in Nat
      /\ p \in Nat
  BY <1>s, <1>d, WalkStart DEF DecodedTo
<1>00. Count(s, p) \in Nat /\ Count(s, q) \in Nat /\ Count(s, q) <= limit
  BY <1>s, <1>d, <1>0, WalkTypes DEF DecodedTo
<1>01. Comes(s, acc.out, p, q) /\ AllAccepted(s, p, q, limit, finish)
  BY <1>d, Zenon DEF DecodedTo
<1>1. acc.out \in Seq(Nat) /\ Len(acc.out) = Count(s, q) - Count(s, p)
  BY <1>01, Zenon DEF Comes
<1>10. acc.dec \in Decs /\ acc.used \in Nat /\ acc.res \in {"OK", "DATA"}
  BY <1>a DEF DecodeAccs
<1>2. Count(s, q) = limit <=> Len(acc.out) = limit - Count(s, p)
  BY <1>00, <1>1, <1>f
<1>21. PICK k, x, next : k = places[i + 1] /\ x = s[k] /\ next = UpdateState(acc.dec, x)
  OBVIOUS
<1> DEFINE full == Count(s, q) = limit
           stops == acc.res # "OK" \/ acc.dec.state = "FINISHED" \/ (full /\ ~ finish)
           data == acc.dec.state = "DATA"
           bad == next.state = "ERROR" \/ (full /\ next.state # "FINISHED")
<1>22. new = DecodeOne(acc, k, x, limit - Count(s, p), finish)
  BY <1>21 DEF DecodesOne
<1>23. /\ stops => new = acc
       /\ ~ stops /\ data /\ (full \/ x = "x") => new.out = acc.out /\ new.res = "DATA"
       /\ ~ stops /\ data /\ ~ (full \/ x = "x") =>
            /\ new.out = Append(acc.out, k) /\ new.res = "OK" /\ new.used = acc.used + 1
            /\ new.dec = [acc.dec EXCEPT !.state = "CONTROL"]
       /\ ~ stops /\ ~ data /\ bad => new.out = acc.out /\ new.res = "DATA"
       /\ ~ stops /\ ~ data /\ ~ bad =>
            /\ new.out = acc.out /\ new.res = "OK" /\ new.used = acc.used + 1 /\ new.dec = next
  <2>1. PICK room : room = limit - Count(s, p)
    OBVIOUS
  <2>2. DecodeOneCases(acc, k, x, room, finish, next, new)
    BY <1>a, <1>f, <1>21, <1>22, <2>1, DecodeOneIs, Zenon
  <2>3. Count(s, q) = limit <=> Len(acc.out) = room
    BY <1>2, <2>1
  <2> QED  BY <2>2, <2>3, Zenon DEF DecodeOneCases
<1>3. CASE stops
  <2>1. new = acc
    BY <1>3, <1>23
  <2>2. DecodedTo(acc, s, dec, p, limit, finish, q, i + 1)
    <3>1. q \in p..Len(s) /\ q <= p + (i + 1)
      BY <1>0, <1>i
    <3>2. acc.res = "OK" => acc.dec.state = "FINISHED" \/ (Count(s, q) = limit /\ ~ finish)
      BY <1>3, Zenon
    <3>3. acc.res = "DATA" => q < p + (i + 1)
      BY <1>0, <1>i, <1>d, <3>1 DEF DecodedTo
    <3> QED  BY <1>d, <3>1, <3>2, <3>3, Zenon DEF DecodedTo
  <2> QED  BY <2>1, <2>2
<1>4. CASE ~ stops
  <2>0. acc.res = "OK" /\ acc.dec.state # "FINISHED" /\ (finish \/ Count(s, q) < limit)
    <3>1. acc.res = "OK" /\ acc.dec.state # "FINISHED" /\ ~ (full /\ ~ finish)
      BY <1>4, Zenon
    <3>2. Count(s, q) # limit => Count(s, q) < limit
      BY <1>00, <1>f
    <3> QED  BY <3>1, <3>2, Zenon
  <2>1. q = p + i /\ acc.used = q - p /\ acc.dec = IF q = p THEN dec ELSE Dec(s, q)
    <3>1. q = p + i \/ acc.dec.state = "FINISHED" \/ (Count(s, q) = limit /\ ~ finish)
      BY <1>d, <2>0, Zenon DEF DecodedTo
    <3>2. ~ (Count(s, q) = limit /\ Count(s, q) < limit)
      BY <1>00
    <3>3. q = p + i
      BY <2>0, <3>1, <3>2, Zenon
    <3> QED  BY <1>d, <2>0, <3>3, Zenon DEF DecodedTo
  <2>2. LikeDec(s, acc.dec, q)
    BY <1>g, <2>1 DEF LikeDec
  <2>3. /\ acc.dec.state = State(s, q)
        /\ State(s, q) = "DATA" => acc.dec = Dec(s, q)
        /\ q < Len(s) => UpdateState(acc.dec, s[q + 1]) = UpdateState(Dec(s, q), s[q + 1])
    BY <1>s, <1>0, <2>2, LikeDecIs
  <2>4. Live(s, q) /\ LiveFrom(s, p, q + 1)
    <3>1. State(s, q) # "ERROR" /\ State(s, q) # "FINISHED" /\ State(s, q) \in States
      <4>1. State(s, p) # "ERROR"
        BY <1>g DEF Live
      <4>2. State(s, q) # "ERROR"
        BY <1>s, <1>0, <1>01, <4>1, AcceptedLive
      <4>3. State(s, q) \in States
        BY <1>s, <1>0, WalkTypes
      <4>4. acc.dec.state = State(s, q)
        BY <2>3
      <4> QED  BY <2>0, <4>2, <4>3, <4>4, Zenon
    <3>2. Live(s, q)
      BY <3>1 DEF Live, States
    <3>3. LiveFrom(s, p, q)
      BY <1>s, <1>0, <1>01, AcceptedLive
    <3> QED  BY <1>0, <3>2, <3>3, LiveOn
  <2>5. k = q + 1 /\ q + 1 <= Len(s) /\ x = s[q + 1]
    <3>1. i + 1 \in 1..Len(places) /\ p + (i + 1) = q + 1
      BY <1>i, <1>0, <2>1
    <3> QED  BY <1>g, <1>21, <2>4, <3>1 DEF Leads
  <2>6. q + 1 \in 1..Len(s) /\ (q + 1) - 1 = q /\ q + 1 \in p..Len(s) /\ q < Len(s)
    BY <1>0, <2>5
  <2>7. /\ State(s, q) = "DATA" => /\ Dec(s, q + 1) = [Dec(s, q) EXCEPT !.state = "CONTROL"]
                                   /\ State(s, q + 1) = "CONTROL" /\ Count(s, q + 1) = Count(s, q) + 1
        /\ State(s, q) # "DATA" => /\ Dec(s, q + 1) = UpdateState(Dec(s, q), s[q + 1])
                                   /\ State(s, q + 1) = UpdateState(Dec(s, q), s[q + 1]).state
                                   /\ Count(s, q + 1) = Count(s, q)
    <3>1. PICK m \in 1..Len(s) : m = q + 1 /\ m - 1 = q
      BY <2>6
    <3>2. /\ State(s, m - 1) = "DATA" => /\ Dec(s, m) = [Dec(s, m - 1) EXCEPT !.state = "CONTROL"]
                                          /\ State(s, m) = "CONTROL" /\ Count(s, m) = Count(s, m - 1) + 1
          /\ State(s, m - 1) # "DATA" => /\ Dec(s, m) = UpdateState(Dec(s, m - 1), s[m])
                                          /\ State(s, m) = UpdateState(Dec(s, m - 1), s[m]).state
                                          /\ Count(s, m) = Count(s, m - 1)
      BY <1>s, WalkStep
    <3> QED  BY <3>1, <3>2, Zenon
  <2>30. acc.dec.state = State(s, q)
    BY <2>3
  <2>8. CASE State(s, q) = "DATA"
    <3>0. data
      BY <2>8, <2>30, Zenon
    <3>1. CASE full \/ x = "x"
      <4>2. new.out = acc.out /\ new.res = "DATA"
        BY <1>23, <1>4, <3>0, <3>1, Zenon
      <4>3. ~ Accepted(s, q + 1, limit, finish)
        <5>1. Count(s, q) < limit => ~ full
          BY <1>00, <1>f
        <5> QED  BY <2>5, <2>6, <2>8, <3>1, <5>1, Zenon DEF Accepted
      <4>5. DecodedTo(new, s, dec, p, limit, finish, q, i + 1)
        <5>1. q <= p + (i + 1) /\ q < p + (i + 1)
          BY <1>i, <1>0, <2>1
        <5>2. new.res # "OK"
          BY <4>2
        <5> QED  BY <1>0, <1>00, <1>01, <2>0, <2>4, <2>6, <4>2, <4>3, <5>1, <5>2, Zenon DEF DecodedTo
      <4> QED  BY <4>5
    <3>2. CASE ~ (full \/ x = "x")
      <4>2. new.out = Append(acc.out, q + 1) /\ new.res = "OK" /\ new.used = acc.used + 1
            /\ new.dec = [acc.dec EXCEPT !.state = "CONTROL"]
        BY <1>23, <1>4, <2>5, <3>0, <3>2, Zenon
      <4>3. Accepted(s, q + 1, limit, finish)
        <5>1. Count(s, q) < limit
          BY <1>00, <1>f, <3>2
        <5>2. State(s, q) # "CONTROL"
          BY <2>8
        <5> QED  BY <2>4, <2>5, <2>6, <2>8, <3>2, <5>1, <5>2, Zenon DEF Accepted
      <4>4. AllAccepted(s, p, q + 1, limit, finish)
        BY <1>s, <1>0, <1>01, <4>3, AcceptedOn
      <4>5. Comes(s, new.out, p, q + 1)
        <5>1. Comes(s, Append(acc.out, q + 1), p, q + 1)
          BY <1>s, <1>0, <1>01, <2>6, <2>8, ComesOn
        <5> QED  BY <4>2, <5>1, Zenon
      <4>6. new.dec = Dec(s, q + 1)
        BY <2>3, <2>7, <2>8, <4>2, Zenon
      <4>7. Count(s, q + 1) <= limit
        BY <1>00, <1>f, <2>7, <2>8, <3>2
      <4>80. new.used = acc.used + 1
        BY <4>2, Zenon
      <4>8. q + 1 # p /\ q + 1 = p + (i + 1) /\ new.used = (q + 1) - p /\ q + 1 <= p + (i + 1)
        BY <1>i, <1>0, <2>1, <4>80
      <4>9. DecodedTo(new, s, dec, p, limit, finish, q + 1, i + 1)
        <5>1. new.res = "OK" /\ new.res # "DATA"
          BY <4>2
        <5> QED  BY <2>6, <4>4, <4>5, <4>6, <4>7, <4>8, <5>1, Zenon DEF DecodedTo
      <4> QED  BY <4>9
    <3> QED  BY <3>1, <3>2
  <2>9. CASE State(s, q) # "DATA"
    <3>00. next = Dec(s, q + 1) /\ next.state = State(s, q + 1)
      BY <1>21, <2>3, <2>5, <2>6, <2>7, <2>9
    <3>0. ~ data
      BY <2>9, <2>30, Zenon
    <3>01. State(s, q) = "CONTROL"
      BY <2>4, <2>9 DEF Live
    <3>1. CASE bad
      <4>2. new.out = acc.out /\ new.res = "DATA"
        BY <1>23, <1>4, <3>0, <3>1, Zenon
      <4>3. ~ Accepted(s, q + 1, limit, finish)
        <5>1. Count(s, q) < limit => ~ full
          BY <1>00, <1>f
        <5> QED  BY <2>6, <3>00, <3>01, <3>1, <5>1, Zenon DEF Accepted
      <4>5. DecodedTo(new, s, dec, p, limit, finish, q, i + 1)
        <5>1. q <= p + (i + 1) /\ q < p + (i + 1)
          BY <1>i, <1>0, <2>1
        <5>2. new.res # "OK"
          BY <4>2
        <5> QED  BY <1>0, <1>00, <1>01, <2>0, <2>4, <2>6, <4>2, <4>3, <5>1, <5>2, Zenon DEF DecodedTo
      <4> QED  BY <4>5
    <3>2. CASE ~ bad
      <4>2. new.out = acc.out /\ new.res = "OK" /\ new.used = acc.used + 1 /\ new.dec = next
        BY <1>23, <1>4, <3>0, <3>2, Zenon
      <4>3. Accepted(s, q + 1, limit, finish)
        <5>1. Count(s, q) < limit \/ full
          BY <1>00, <1>f
        <5>2. full => Count(s, q) = limit /\ ~ (Count(s, q) < limit)
          BY <1>00, <1>f
        <5> QED  BY <2>0, <2>4, <2>6, <2>9, <3>00, <3>01, <3>2, <5>1, <5>2, Zenon DEF Accepted
      <4>4. AllAccepted(s, p, q + 1, limit, finish)
        BY <1>s, <1>0, <1>01, <4>3, AcceptedOn
      <4>5. Comes(s, new.out, p, q + 1)
        <5>1. Comes(s, acc.out, p, q + 1)
          BY <1>s, <1>0, <1>01, <2>6, <2>9, ComesOn
        <5> QED  BY <4>2, <5>1, Zenon
      <4>7. Count(s, q + 1) <= limit
        BY <1>00, <2>7, <2>9
      <4>80. new.used = acc.used + 1
        BY <4>2, Zenon
      <4>8. q + 1 # p /\ q + 1 = p + (i + 1) /\ new.used = (q + 1) - p /\ q + 1 <= p + (i + 1)
        BY <1>i, <1>0, <2>1, <4>80
      <4>9. DecodedTo(new, s, dec, p, limit, finish, q + 1, i + 1)
        <5>1. new.res = "OK" /\ new.res # "DATA" /\ new.dec = Dec(s, q + 1)
          BY <3>00, <4>2, Zenon
        <5> QED  BY <2>6, <4>4, <4>5, <4>7, <4>8, <5>1, Zenon DEF DecodedTo
      <4> QED  BY <4>9
    <3> QED  BY <3>1, <3>2
  <2> QED  BY <2>8, <2>9
<1> QED  BY <1>3, <1>4

DecodesFrom(s, p, dec, places, limit, finish) ==
    /\ s \in Seq(Symbols) /\ p \in 0..Len(s) /\ Live(s, p)
    /\ dec \in Decs /\ (Len(places) > 0 => LikeDec(s, dec, p))
    /\ places \in Seq(Nat) /\ Leads(s, places, p)
    /\ limit \in Nat /\ limit >= Count(s, p) /\ finish \in BOOLEAN

\* What Decode makes of the places after p.
LEMMA DecodeWalk ==
    ASSUME NEW s, NEW p, NEW dec, NEW places, NEW limit, NEW finish,
           DecodesFrom(s, p, dec, places, limit, finish)
    PROVE  LET r == Decode(dec, places, s, limit - Count(s, p), finish)
           IN  /\ r \in DecodeAccs
               /\ \E q : DecodedTo(r, s, dec, p, limit, finish, q, Len(places))
<1>s. s \in Seq(Symbols) /\ p \in 0..Len(s)
  BY DEF DecodesFrom
<1>f. finish \in BOOLEAN /\ limit \in Nat /\ limit >= Count(s, p)
  BY DEF DecodesFrom
<1>g. Live(s, p) /\ Leads(s, places, p) /\ (Len(places) > 0 => LikeDec(s, dec, p))
  BY DEF DecodesFrom
<1>i. places \in Seq(Nat) /\ Len(places) \in Nat
  BY LenProperties DEF DecodesFrom
<1>d. dec \in Decs
  BY DEF DecodesFrom
<1>1. PICK room : room = limit - Count(s, p)
  OBVIOUS
<1>2. PICK f : /\ DecodeSteps(f, dec, places, s, room, finish)
               /\ f[Len(places)] = Decode(dec, places, s, room, finish)
               /\ f \in [0..Len(places) -> DecodeAccs]
  BY <1>i, <1>d, DecodeFold, Zenon
<1> DEFINE P == {k \in 0..Len(places) : \E q : DecodedTo(f[k], s, dec, p, limit, finish, q, k)}
<1>3. 0 \in P
  <2>1. f[0] = DecodeStart(dec)
    BY <1>2, Zenon DEF DecodeSteps
  <2>2. PICK e : e = <<>> /\ e \in Seq(Nat) /\ Len(e) = 0
    BY EmptySeq
  <2>3. f[0] = [dec |-> dec, out |-> e, used |-> 0, res |-> "OK"]
    BY <2>1, <2>2, Zenon DEF DecodeStart
  <2>4. f[0].dec = dec /\ f[0].out = e /\ f[0].used = 0 /\ f[0].res = "OK"
    BY <2>3
  <2>5. Count(s, p) \in Nat /\ Len(s) \in Nat
    BY <1>s, WalkTypes, WalkStart
  <2>6. Comes(s, e, p, p)
    BY <2>2, <2>5 DEF Comes
  <2>7. AllAccepted(s, p, p, limit, finish)
    BY <1>s DEF AllAccepted
  <2>8. p \in p..Len(s) /\ p <= p + 0 /\ p - p = 0 /\ p = p + 0
    BY <1>s, <2>5
  <2>9. Count(s, p) <= limit
    BY <1>f, <2>5
  <2>10. DecodedTo(f[0], s, dec, p, limit, finish, p, 0)
    BY <2>4, <2>6, <2>7, <2>8, <2>9 DEF DecodedTo
  <2>11. 0 \in 0..Len(places)
    BY <1>i
  <2> QED  BY <2>10, <2>11
<1>4. ASSUME NEW i \in 0..(Len(places) - 1), i \in P PROVE i + 1 \in P
  <2>1. PICK q : DecodedTo(f[i], s, dec, p, limit, finish, q, i)
    BY <1>4
  <2>2. i \in Nat /\ i < Len(places) /\ i \in 0..Len(places) /\ i + 1 \in 0..Len(places)
    BY <1>i, <1>4
  <2>3. f[i] \in DecodeAccs
    BY <1>2, <2>2, Zenon
  <2>4. DecodingAt(s, p, dec, places, limit, finish, i, f[i], q)
    <3>1. Len(places) > 0
      BY <1>i, <2>2
    <3> QED  BY <1>s, <1>f, <1>g, <1>i, <2>1, <2>2, <2>3, <3>1, Zenon DEF DecodingAt
  <2>5. i + 1 \in 1..Len(places) /\ (i + 1) - 1 = i
    BY <1>i, <1>4
  <2>6. f[i + 1] = DecodeOne(f[i], places[i + 1], s[places[i + 1]], room, finish)
    <3>1. PICK j \in 1..Len(places) : j = i + 1 /\ j - 1 = i
      BY <2>5
    <3>2. f[j] = DecodeOne(f[j - 1], places[j], s[places[j]], room, finish)
      BY <1>2, Zenon DEF DecodeSteps
    <3> QED  BY <3>1, <3>2, Zenon
  <2>7. DecodesOne(s, p, places, limit, finish, i, f[i], f[i + 1])
    BY <1>1, <2>6, Zenon DEF DecodesOne
  <2>8. \E r : DecodedTo(f[i + 1], s, dec, p, limit, finish, r, i + 1)
    BY <2>4, <2>7, DecodedOn, Zenon
  <2> QED  BY <2>2, <2>8, Zenon
<1> HIDE DEF P
<1>5. Len(places) \in P
  <2>1. \A k \in 0..Len(places) : k \in P
    BY <1>i, <1>3, <1>4, UpwardInduction, Zenon
  <2>2. Len(places) \in 0..Len(places)
    BY <1>i
  <2> QED  BY <2>1, <2>2, Zenon
<1>6. \E q : DecodedTo(f[Len(places)], s, dec, p, limit, finish, q, Len(places))
  BY <1>5, Zenon DEF P
<1>7. f[Len(places)] \in DecodeAccs
  BY <1>2, <1>i
<1> QED  BY <1>1, <1>2, <1>6, <1>7, Zenon

-----------------------------------------------------------------------------
(* Parse, symbol after symbol. *)

Statuses == {"more", "full", "block", "mark", "error"}
Points == [used : Nat, dicPos : Nat]
ParseAccs == [dec : Decs, dicPos : Nat, used : Nat, point : Points, status : Statuses]
ParseStart(dec, dicPos) ==
    [dec |-> dec, dicPos |-> dicPos, used |-> 0, point |-> NoPoint, status |-> "more"]

ParseSteps(f, dec, dicPos, symbols, limit) ==
    /\ f[0] = ParseStart(dec, dicPos)
    /\ \A k \in 1..Len(symbols) : f[k] = ParseOne(f[k - 1], symbols[k], limit)

\* One symbol, by cases.
ParseOneCases(acc, x, limit, next, r) ==
    /\ acc.status # "more" => r = acc
    /\ acc.status = "more" /\ acc.dec.state = "DATA" =>
         /\ r.dec = [acc.dec EXCEPT !.state = "CONTROL"] /\ r.used = acc.used + 1
         /\ r.dicPos = acc.dicPos + 1 /\ r.point = acc.point /\ r.status = "more"
    /\ acc.status = "more" /\ acc.dec.state # "DATA" =>
         /\ r.dec = next /\ r.used = acc.used + 1 /\ r.dicPos = acc.dicPos
         /\ next.state = "FINISHED" <=> r.status = "mark"
         /\ next.state = "ERROR" <=> r.status = "error"
         /\ r.status = "block" => x = "n" /\ acc.dicPos > 0
         /\ r.status = "more" => acc.dicPos < limit
         /\ r.status \in Statuses
         /\ \/ r.point = acc.point
            \/ /\ x = "n" /\ acc.dicPos > 0
               /\ r.point = [used |-> acc.used + 1, dicPos |-> acc.dicPos]

LEMMA HeaderRead ==
    ASSUME NEW acc, NEW dec, NEW pos, NEW used, NEW point, NEW status, NEW next, NEW more, NEW r,
           acc = [dec |-> dec, dicPos |-> pos, used |-> used, point |-> point, status |-> status],
           r = [acc EXCEPT !.dec = next, !.used = more]
    PROVE  r = [dec |-> next, dicPos |-> pos, used |-> more, point |-> point, status |-> status]
<1>1. DOMAIN acc = {"dec", "dicPos", "used", "point", "status"}
  OBVIOUS
<1>2. r = [k \in {"dec", "dicPos", "used", "point", "status"} |-> r[k]]
  BY <1>1
<1>3. r.dec = next /\ r.used = more /\ r.dicPos = pos /\ r.point = point /\ r.status = status
  BY <1>1
<1>4. DOMAIN r = DOMAIN [dec |-> next, dicPos |-> pos, used |-> more, point |-> point, status |-> status]
  BY <1>2
<1> QED  BY <1>2, <1>3, <1>4

LEMMA ParseOneIs ==
    ASSUME NEW acc \in ParseAccs, NEW x, NEW limit \in Nat,
           NEW next, next = UpdateState(acc.dec, x),
           NEW r, r = ParseOne(acc, x, limit)
    PROVE  ParseOneCases(acc, x, limit, next, r) /\ r \in ParseAccs
<1>1. /\ acc.dec \in Decs /\ acc.dicPos \in Nat /\ acc.used \in Nat /\ acc.point \in Points
      /\ acc.status \in Statuses
      /\ acc = [dec |-> acc.dec, dicPos |-> acc.dicPos, used |-> acc.used, point |-> acc.point,
                status |-> acc.status]
  BY DEF ParseAccs
<1>2. next \in Decs /\ [acc.dec EXCEPT !.state = "CONTROL"] \in Decs
  BY <1>1, UpdateStateTypes DEF Decs, States
<1>3. CASE acc.status # "more"
  <2>1. r = acc
    BY <1>3, Zenon DEF ParseOne
  <2> QED  BY <1>3, <2>1 DEF ParseOneCases
<1>4. CASE acc.status = "more" /\ acc.dec.state = "DATA"
  <2>1. r = [acc EXCEPT !.dec.state = "CONTROL", !.used = @ + 1, !.dicPos = @ + 1]
    BY <1>4, Zenon DEF ParseOne, ParseData
  <2>2. r = [dec |-> [acc.dec EXCEPT !.state = "CONTROL"], dicPos |-> acc.dicPos + 1,
             used |-> acc.used + 1, point |-> acc.point, status |-> acc.status]
    BY <1>1, <2>1
  <2>3. r \in ParseAccs
    BY <1>1, <1>2, <2>2 DEF ParseAccs
  <2>4. /\ r.dec = [acc.dec EXCEPT !.state = "CONTROL"] /\ r.used = acc.used + 1
        /\ r.dicPos = acc.dicPos + 1 /\ r.point = acc.point /\ r.status = "more"
    BY <1>4, <2>2
  <2> QED  BY <1>4, <2>3, <2>4, Zenon DEF ParseOneCases
<1>5. CASE acc.status = "more" /\ acc.dec.state # "DATA"
  <2>1. r = ParseHeader(acc, x, limit)
    BY <1>5, Zenon DEF ParseOne
  <2>2. PICK used \in Nat : used = acc.used + 1
    BY <1>1
  <2>3. PICK read : read = [dec |-> next, dicPos |-> acc.dicPos, used |-> used, point |-> acc.point,
                            status |-> acc.status]
    OBVIOUS
  <2>4. [acc EXCEPT !.dec = next, !.used = used] = read
    <3>1. PICK r0 : r0 = [acc EXCEPT !.dec = next, !.used = used]
      OBVIOUS
    <3>2. PICK d, pos, u, point, status :
            /\ acc = [dec |-> d, dicPos |-> pos, used |-> u, point |-> point, status |-> status]
            /\ pos = acc.dicPos /\ point = acc.point /\ status = acc.status
      BY <1>1, Zenon
    <3>3. r0 = [dec |-> next, dicPos |-> pos, used |-> used, point |-> point, status |-> status]
      BY <3>1, <3>2, HeaderRead
    <3> QED  BY <2>3, <3>1, <3>2, <3>3, Zenon
  <2> DEFINE grown == IF NoRoom(acc, limit) THEN "full" ELSE "more"
  <2>5. r = CASE next.state = "FINISHED" -> [read EXCEPT !.status = "mark"]
              [] next.state = "ERROR" -> [read EXCEPT !.status = "error"]
              [] x = "n" /\ acc.dicPos > 0 /\ AtNewBlock(acc) -> [read EXCEPT !.status = "block"]
              [] x = "n" /\ acc.dicPos > 0 /\ ~ AtNewBlock(acc) ->
                   [read EXCEPT !.point = [used |-> used, dicPos |-> acc.dicPos], !.status = grown]
              [] OTHER -> [read EXCEPT !.status = grown]
    BY <2>1, <2>2, <2>4, Zenon DEF ParseHeader
  <2>6. grown \in {"full", "more"} /\ (grown = "more" => acc.dicPos < limit)
    BY <1>1 DEF NoRoom
  <2>60. x = "n" => next.state = "DATA"
    BY <1>1, UpdateStateIs DEF Symbols
  <2> HIDE DEF grown
  <2>7. PICK status \in Statuses, point \in Points :
          /\ r = [dec |-> next, dicPos |-> acc.dicPos, used |-> used, point |-> point, status |-> status]
          /\ next.state = "FINISHED" <=> status = "mark"
          /\ next.state = "ERROR" <=> status = "error"
          /\ status = "block" => x = "n" /\ acc.dicPos > 0
          /\ status = "more" => status = grown
          /\ \/ point = acc.point
             \/ /\ x = "n" /\ acc.dicPos > 0
                /\ point = [used |-> used, dicPos |-> acc.dicPos]
    <3>0. Statuses = {"more", "full", "block", "mark", "error"}
      BY DEF Statuses
    <3>1. CASE next.state = "FINISHED"
      <4>1. r = [dec |-> next, dicPos |-> acc.dicPos, used |-> used, point |-> acc.point, status |-> "mark"]
        BY <2>3, <2>5, <2>60, <3>1
      <4> QED  BY <1>1, <3>0, <3>1, <4>1
    <3>2. CASE next.state = "ERROR"
      <4>1. r = [dec |-> next, dicPos |-> acc.dicPos, used |-> used, point |-> acc.point, status |-> "error"]
        BY <2>3, <2>5, <2>60, <3>2
      <4> QED  BY <1>1, <3>0, <3>2, <4>1
    <3>3. CASE x = "n" /\ acc.dicPos > 0 /\ AtNewBlock(acc)
      <4>1. r = [dec |-> next, dicPos |-> acc.dicPos, used |-> used, point |-> acc.point, status |-> "block"]
        BY <2>3, <2>5, <2>60, <3>3
      <4> QED  BY <1>1, <2>60, <3>0, <3>3, <4>1
    <3>4. CASE x = "n" /\ acc.dicPos > 0 /\ ~ AtNewBlock(acc)
      <4>1. r = [dec |-> next, dicPos |-> acc.dicPos, used |-> used,
                 point |-> [used |-> used, dicPos |-> acc.dicPos], status |-> grown]
        BY <2>3, <2>5, <2>60, <3>4
      <4>2. [used |-> used, dicPos |-> acc.dicPos] \in Points
        BY <1>1 DEF Points
      <4> QED  BY <2>6, <2>60, <3>0, <3>4, <4>1, <4>2
    <3>5. CASE next.state \notin {"FINISHED", "ERROR"} /\ ~ (x = "n" /\ acc.dicPos > 0)
      <4>1. r = [dec |-> next, dicPos |-> acc.dicPos, used |-> used, point |-> acc.point, status |-> grown]
        BY <2>3, <2>5, <3>5
      <4> QED  BY <1>1, <2>6, <3>0, <3>5, <4>1
    <3> QED  BY <3>1, <3>2, <3>3, <3>4, <3>5
  <2>8. r \in ParseAccs
    BY <1>1, <1>2, <2>7 DEF ParseAccs
  <2>9. /\ r.dec = next /\ r.used = used /\ r.dicPos = acc.dicPos /\ r.status = status /\ r.point = point
    BY <2>7
  <2>10. status = "more" => acc.dicPos < limit
    BY <2>6, <2>7
  <2> QED  BY <1>5, <2>2, <2>7, <2>8, <2>9, <2>10, Zenon DEF ParseOneCases
<1> QED  BY <1>3, <1>4, <1>5

LEMMA ParseFold ==
    ASSUME NEW dec \in Decs, NEW dicPos \in Nat, NEW symbols, Len(symbols) \in Nat, NEW limit \in Nat
    PROVE  \E f : /\ ParseSteps(f, dec, dicPos, symbols, limit)
                  /\ WithoutNextHeader(Reverted(f[Len(symbols)])) = Parse(dec, dicPos, symbols, limit)
                  /\ f \in [0..Len(symbols) -> ParseAccs]
<1>1. PICK n \in Nat : n = Len(symbols)
  OBVIOUS
<1>3. PICK start : start = ParseStart(dec, dicPos) /\ start \in ParseAccs
  <2>1. NoPoint \in Points
    BY DEF NoPoint, Points
  <2>2. [dec |-> dec, dicPos |-> dicPos, used |-> 0, point |-> NoPoint, status |-> "more"] \in ParseAccs
    BY <2>1 DEF ParseAccs, Statuses
  <2> QED  BY <2>2 DEF ParseStart
<1> DEFINE step == [k \in 1..n |-> [w \in ParseAccs |-> ParseOne(w, symbols[k], limit)]]
           Rec(f) == [k \in 0..Len(symbols) |->
                        IF k = 0 THEN [dec |-> dec, dicPos |-> dicPos, used |-> 0, point |-> NoPoint, status |-> "more"]
                        ELSE ParseOne(f[k - 1], symbols[k], limit)]
<1>4. \A k \in 1..n : step[k] \in [ParseAccs -> ParseAccs]
  BY ParseOneIs
<1> HIDE DEF step
<1>5. PICK f \in [0..n -> ParseAccs] : Succeeds(f, n, start, step)
  BY <1>3, <1>4, Succession, Zenon
<1>6. \A k \in 0..n : f[k] = IF k = 0 THEN start ELSE ParseOne(f[k - 1], symbols[k], limit)
  <2> SUFFICES ASSUME NEW k \in 1..n
               PROVE  f[k] = ParseOne(f[k - 1], symbols[k], limit)
    BY <1>5 DEF Succeeds
  <2>1. f[k] = step[k][f[k - 1]] /\ f[k - 1] \in ParseAccs
    BY <1>5 DEF Succeeds
  <2> QED  BY <2>1 DEF step
<1>7. f = Rec(f)
  <2>1. start = [dec |-> dec, dicPos |-> dicPos, used |-> 0, point |-> NoPoint, status |-> "more"]
    BY <1>3, Zenon DEF ParseStart
  <2>2. Rec(f) = [k \in 0..n |-> f[k]]
    BY <1>1, <1>6, <2>1
  <2> QED  BY <1>5, <2>2
<1>8. PICK g : g = Rec(g) /\ Parse(dec, dicPos, symbols, limit) = WithoutNextHeader(Reverted(g[Len(symbols)]))
  BY <1>7, Zenon DEF Parse, Folded
<1>9. \A k \in 0..n : g[k] = IF k = 0 THEN start ELSE ParseOne(g[k - 1], symbols[k], limit)
  <2>1. start = [dec |-> dec, dicPos |-> dicPos, used |-> 0, point |-> NoPoint, status |-> "more"]
    BY <1>3, Zenon DEF ParseStart
  <2>2. \A k \in 0..Len(symbols) : g[k] =
          IF k = 0 THEN [dec |-> dec, dicPos |-> dicPos, used |-> 0, point |-> NoPoint, status |-> "more"]
          ELSE ParseOne(g[k - 1], symbols[k], limit)
    BY <1>8, Zenon
  <2> QED  BY <1>1, <2>1, <2>2, Zenon
<1>10. g[0] = start /\ \A k \in 1..n : g[k] = ParseOne(g[k - 1], symbols[k], limit)
  BY <1>9
<1>11. \A k \in 0..n : g[k] \in ParseAccs
  <2> DEFINE P == {k \in 0..n : g[k] \in ParseAccs}
  <2>1. 0 \in P
    BY <1>3, <1>10
  <2>2. ASSUME NEW k \in 0..(n - 1), k \in P PROVE k + 1 \in P
    <3>1. k + 1 \in 1..n /\ (k + 1) - 1 = k /\ k + 1 \in 0..n
      OBVIOUS
    <3>2. g[k + 1] = ParseOne(g[k], symbols[k + 1], limit)
      BY <1>10, <3>1
    <3>3. g[k] \in ParseAccs
      BY <2>2, <3>1
    <3> QED  BY <3>1, <3>2, <3>3, ParseOneIs
  <2> HIDE DEF P
  <2>3. \A k \in 0..n : k \in P
    BY <2>1, <2>2, UpwardInduction, Zenon
  <2> QED  BY <2>3 DEF P
<1>12. ParseSteps(g, dec, dicPos, symbols, limit)
  BY <1>1, <1>3, <1>10, Zenon DEF ParseSteps
<1>13. DOMAIN g = 0..n /\ g = [k \in DOMAIN g |-> g[k]]
  <2>1. DOMAIN g = 0..Len(symbols) /\ g = [k \in DOMAIN g |-> g[k]]
    BY <1>8, Zenon
  <2> QED  BY <1>1, <2>1
<1>14. g \in [0..n -> ParseAccs]
  BY <1>11, <1>13, Zenon
<1> QED  BY <1>1, <1>8, <1>12, <1>14

-----------------------------------------------------------------------------
(* What the parser makes of the places after b in a block that began after *)
(* a, of which at most L units may come out.                               *)

\* The next block may begin after q.
CutAt(s, a, b, L, q, dicPos) ==
    /\ q \in b..Len(s) /\ q < Len(s) /\ State(s, q) = "CONTROL" /\ s[q + 1] = "n"
    /\ LiveFrom(s, b, q + 1)
    /\ dicPos = Count(s, q) - Count(s, a) /\ dicPos > 0 /\ dicPos <= L

EndsAt(s, a, b, L, q, dicPos, state) ==
    /\ q \in b..Len(s) /\ q > b /\ State(s, q) = state /\ LiveFrom(s, b, q)
    /\ dicPos = Count(s, q) - Count(s, a) /\ dicPos <= L

GoesOn(s, a, b, L, q, dicPos) ==
    /\ q \in b..Len(s) /\ LiveFrom(s, b, q + 1)
    /\ dicPos = Count(s, q) - Count(s, a) /\ dicPos <= L
    /\ State(s, q) = "DATA" => dicPos < L

PointIs(acc, s, a, b, L) ==
    \/ acc.point = NoPoint
    \/ /\ acc.point.used \in 1..acc.used
       /\ CutAt(s, a, b, L, b + acc.point.used - 1, acc.point.dicPos)

ParsedTo(acc, s, a, b, dec, L, i) ==
    /\ acc.used <= i
    /\ PointIs(acc, s, a, b, L)
    /\ acc.status = "more" => /\ acc.used = i /\ acc.dec = IF i = 0 THEN dec ELSE Dec(s, b + i)
                              /\ GoesOn(s, a, b, L, b + i, acc.dicPos)
    /\ acc.status = "block" => acc.used > 0 /\ CutAt(s, a, b, L, b + acc.used - 1, acc.dicPos)
    /\ acc.status = "mark" => EndsAt(s, a, b, L, b + acc.used, acc.dicPos, "FINISHED")
    /\ acc.status = "error" => EndsAt(s, a, b, L, b + acc.used, acc.dicPos, "ERROR")

ParsesFrom(s, a, b, dec, dicPos, symbols, L) ==
    /\ s \in Seq(Symbols) /\ b \in 0..Len(s) /\ a \in 0..b /\ dec \in Decs
    /\ Len(symbols) \in Nat
    /\ Len(symbols) > 0 => LikeDec(s, dec, b)
    /\ b + Len(symbols) <= Len(s)
    /\ \A k \in 1..Len(symbols) : symbols[k] = s[b + k]
    /\ L \in Nat /\ dicPos \in Nat /\ Live(s, b) /\ GoesOn(s, a, b, L, b, dicPos)

ParsingAt(s, a, b, dec, dicPos, symbols, L, i, acc) ==
    /\ ParsesFrom(s, a, b, dec, dicPos, symbols, L)
    /\ i \in Nat /\ i < Len(symbols)
    /\ acc \in ParseAccs /\ ParsedTo(acc, s, a, b, dec, L, i)

LEMMA ParsedOn ==
    ASSUME NEW s, NEW a, NEW b, NEW dec, NEW dicPos, NEW symbols, NEW L, NEW i, NEW acc,
           ParsingAt(s, a, b, dec, dicPos, symbols, L, i, acc),
           NEW new, new = ParseOne(acc, symbols[i + 1], L)
    PROVE  ParsedTo(new, s, a, b, dec, L, i + 1)
<1>h. ParsesFrom(s, a, b, dec, dicPos, symbols, L)
  BY DEF ParsingAt
<1>i. i \in Nat /\ i < Len(symbols) /\ Len(symbols) \in Nat /\ L \in Nat
  BY DEF ParsingAt, ParsesFrom
<1>s. s \in Seq(Symbols) /\ b \in 0..Len(s) /\ a \in 0..b /\ dec \in Decs
  BY <1>h DEF ParsesFrom
<1>0. Len(s) \in Nat /\ b \in Nat /\ b + Len(symbols) <= Len(s)
  BY <1>s, <1>h, WalkStart DEF ParsesFrom
<1>a. acc \in ParseAccs /\ ParsedTo(acc, s, a, b, dec, L, i)
  BY DEF ParsingAt
<1>t. acc.used \in Nat /\ acc.dicPos \in Nat /\ acc.dec \in Decs /\ acc.point \in Points /\ acc.used <= i
  BY <1>a DEF ParseAccs, ParsedTo
<1>u. PointIs(acc, s, a, b, L)
  BY <1>a, Zenon DEF ParsedTo
<1>v. acc.point # NoPoint => acc.point.used \in 1..acc.used
  BY <1>u, Zenon DEF PointIs
<1>1. PICK x, next : x = symbols[i + 1] /\ next = UpdateState(acc.dec, x)
  OBVIOUS
<1>2. ParseOneCases(acc, x, L, next, new) /\ new \in ParseAccs
  BY <1>1, <1>a, <1>i, ParseOneIs, Zenon
<1>3. CASE acc.status # "more"
  <2>1. new = acc
    BY <1>2, <1>3, Zenon DEF ParseOneCases
  <2>2. acc.used <= i + 1
    BY <1>t, <1>i
  <2> QED  BY <1>3, <1>a, <2>1, <2>2, Zenon DEF ParsedTo
<1>4. CASE acc.status = "more"
  <2>1. PICK q : q = b + i
    OBVIOUS
  <2>2. acc.used = i /\ acc.dec = IF i = 0 THEN dec ELSE Dec(s, q)
    BY <1>4, <1>a, <2>1, Zenon DEF ParsedTo
  <2>20. GoesOn(s, a, b, L, q, acc.dicPos)
    BY <1>4, <1>a, <2>1, Zenon DEF ParsedTo
  <2>3. /\ q \in Nat /\ q \in b..Len(s) /\ q < Len(s) /\ q + 1 \in 1..Len(s) /\ (q + 1) - 1 = q
        /\ q \in 0..Len(s) /\ b + (i + 1) = q + 1 /\ q + 1 \in b..Len(s) /\ q + 1 > b
        /\ q + 1 \in 0..Len(s) /\ i + 1 \in 1..Len(symbols) /\ i + 1 # 0
    BY <1>0, <1>i, <2>1
  <2>4. x = s[q + 1]
    <3>1. \A k \in 1..Len(symbols) : symbols[k] = s[b + k]
      BY <1>h, Zenon DEF ParsesFrom
    <3>2. symbols[i + 1] = s[b + (i + 1)]
      BY <2>3, <3>1
    <3> QED  BY <1>1, <2>3, <3>2, Zenon
  <2>5. LikeDec(s, acc.dec, q)
    <3>1. CASE i = 0
      <4>1. LikeDec(s, dec, b) /\ q = b
        BY <1>h, <1>i, <1>0, <2>1, <3>1 DEF ParsesFrom
      <4> QED  BY <2>2, <3>1, <4>1
    <3>2. CASE i # 0
      BY <2>2, <3>2 DEF LikeDec
    <3> QED  BY <3>1, <3>2
  <2>6. /\ acc.dec.state = State(s, q)
        /\ State(s, q) = "DATA" => acc.dec = Dec(s, q)
        /\ q < Len(s) => UpdateState(acc.dec, s[q + 1]) = UpdateState(Dec(s, q), s[q + 1])
    BY <1>s, <2>3, <2>5, LikeDecIs
  <2>7. PICK m \in 1..Len(s) : m = q + 1 /\ m - 1 = q
    BY <2>3
  <2>8. /\ State(s, q) = "DATA" => /\ Dec(s, m) = [Dec(s, q) EXCEPT !.state = "CONTROL"]
                                   /\ State(s, m) = "CONTROL" /\ Count(s, m) = Count(s, q) + 1
        /\ State(s, q) # "DATA" => /\ Dec(s, m) = UpdateState(Dec(s, q), s[m])
                                   /\ State(s, m) = UpdateState(Dec(s, q), s[m]).state
                                   /\ Count(s, m) = Count(s, q) /\ State(s, m) # "CONTROL"
    <3>1. /\ State(s, m - 1) = "DATA" => /\ Dec(s, m) = [Dec(s, m - 1) EXCEPT !.state = "CONTROL"]
                                          /\ State(s, m) = "CONTROL" /\ Count(s, m) = Count(s, m - 1) + 1
          /\ State(s, m - 1) # "DATA" => /\ Dec(s, m) = UpdateState(Dec(s, m - 1), s[m])
                                          /\ State(s, m) = UpdateState(Dec(s, m - 1), s[m]).state
                                          /\ Count(s, m) = Count(s, m - 1) /\ State(s, m) # "CONTROL"
      BY <1>s, WalkStep
    <3> QED  BY <2>7, <3>1, Zenon
  <2>80. acc.dec.state = State(s, q)
    BY <2>6
  <2>9. /\ LiveFrom(s, b, q + 1) /\ acc.dicPos = Count(s, q) - Count(s, a) /\ acc.dicPos <= L
        /\ State(s, q) = "DATA" => acc.dicPos < L
    BY <2>20, Zenon DEF GoesOn
  <2>10. Live(s, q) /\ Count(s, q) \in Nat /\ Count(s, m) \in Nat /\ Count(s, a) \in Nat
    <3>1. q \in b..((q + 1) - 1) /\ a \in 0..Len(s) /\ m \in 0..Len(s)
      BY <1>s, <1>0, <2>3, <2>7
    <3>2. Live(s, q)
      BY <2>9, <3>1 DEF LiveFrom
    <3> QED  BY <1>s, <2>3, <3>1, <3>2, WalkTypes
  <2>11. Live(s, m) => LiveFrom(s, b, m + 1)
    <3>1. LiveFrom(s, b, m) /\ m \in Nat
      BY <2>3, <2>7, <2>9
    <3> QED  BY <1>0, <3>1, LiveOn, Zenon
  <2>12. m \in b..Len(s) /\ m > b /\ m = b + (i + 1) /\ b + i + 1 - 1 = q
    BY <1>0, <1>i, <2>1, <2>3, <2>7
  <2>13. CASE State(s, q) = "DATA"
    <3>1. /\ new.dec = [acc.dec EXCEPT !.state = "CONTROL"] /\ new.used = acc.used + 1
          /\ new.dicPos = acc.dicPos + 1 /\ new.point = acc.point /\ new.status = "more"
      BY <1>2, <1>4, <2>13, <2>80, Zenon DEF ParseOneCases
    <3>2. new.dec = Dec(s, m)
      BY <2>6, <2>8, <2>13, <3>1, Zenon
    <3>3. new.used = i + 1 /\ acc.used <= new.used
      BY <1>t, <2>2, <3>1
    <3>4. Live(s, m) /\ State(s, m) # "DATA"
      BY <2>8, <2>13 DEF Live
    <3>5. new.dicPos = Count(s, m) - Count(s, a) /\ new.dicPos <= L
      BY <1>t, <1>i, <2>8, <2>9, <2>10, <2>13, <3>1
    <3>6. GoesOn(s, a, b, L, m, new.dicPos)
      BY <2>11, <2>12, <3>4, <3>5, Zenon DEF GoesOn
    <3>7. acc.point # NoPoint => acc.point.used \in 1..new.used
      BY <1>v, <1>t, <1>i, <3>3
    <3>8. new.used <= i + 1
      BY <3>3, <1>i
    <3>9. new.dec = IF i + 1 = 0 THEN dec ELSE Dec(s, b + (i + 1))
      BY <2>3, <2>12, <3>2
    <3>10. GoesOn(s, a, b, L, b + (i + 1), new.dicPos)
      BY <2>12, <3>6
    <3>11. PointIs(new, s, a, b, L)
      <4>1. new.point = acc.point
        BY <3>1
      <4>2. CASE acc.point = NoPoint
        BY <4>1, <4>2, Zenon DEF PointIs
      <4>3. CASE acc.point # NoPoint
        <5>1. new.point.used \in 1..new.used
          BY <3>7, <4>1, <4>3, Zenon
        <5>2. CutAt(s, a, b, L, b + new.point.used - 1, new.point.dicPos)
          BY <1>u, <4>1, <4>3, Zenon DEF PointIs
        <5> QED  BY <5>1, <5>2, Zenon DEF PointIs
      <4> QED  BY <4>2, <4>3, Zenon
    <3>12. new.status # "block" /\ new.status # "mark" /\ new.status # "error"
      BY <3>1
    <3> QED  BY <3>3, <3>8, <3>9, <3>10, <3>11, <3>12, Zenon DEF ParsedTo
  <2>14. CASE State(s, q) # "DATA"
    <3>1. /\ new.dec = next /\ new.used = acc.used + 1 /\ new.dicPos = acc.dicPos
          /\ next.state = "FINISHED" <=> new.status = "mark"
          /\ next.state = "ERROR" <=> new.status = "error"
          /\ new.status = "block" => x = "n" /\ acc.dicPos > 0
          /\ new.status = "more" => acc.dicPos < L
          /\ new.status \in Statuses
          /\ \/ new.point = acc.point
             \/ /\ x = "n" /\ acc.dicPos > 0
                /\ new.point = [used |-> acc.used + 1, dicPos |-> acc.dicPos]
      BY <1>2, <1>4, <2>14, <2>80, Zenon DEF ParseOneCases
    <3>2. next = Dec(s, m) /\ next.state = State(s, m) /\ Count(s, m) = Count(s, q)
      BY <1>1, <2>3, <2>4, <2>6, <2>7, <2>8, <2>14
    <3>3. new.used = i + 1 /\ acc.used <= new.used /\ new.used <= i + 1 /\ b + new.used = m
          /\ b + new.used - 1 = q /\ acc.used + 1 = i + 1 /\ new.used > 0
      BY <1>t, <1>0, <1>i, <2>2, <2>12, <3>1
    <3>4. State(s, q) = "CONTROL"
      BY <2>10, <2>14 DEF Live
    <3>5. x = "n" /\ acc.dicPos > 0 => CutAt(s, a, b, L, q, acc.dicPos)
      BY <2>3, <2>4, <2>9, <3>4, Zenon DEF CutAt
    <3>6. PointIs(new, s, a, b, L)
      <4>1. CASE new.point = acc.point
        <5>1. acc.point # NoPoint => acc.point.used \in 1..new.used
          BY <1>v, <1>t, <1>i, <3>3
        <5> QED  BY <1>u, <4>1, <5>1, Zenon DEF PointIs
      <4>2. CASE x = "n" /\ acc.dicPos > 0 /\ new.point = [used |-> acc.used + 1, dicPos |-> acc.dicPos]
        <5>1. new.point.used = new.used /\ new.point.dicPos = acc.dicPos
          BY <3>3, <4>2
        <5>2. new.used \in 1..new.used
          BY <3>3, <1>i
        <5> QED  BY <3>3, <3>5, <4>2, <5>1, <5>2, Zenon DEF PointIs
      <4> QED  BY <3>1, <4>1, <4>2, Zenon
    <3>7. new.status = "more" => GoesOn(s, a, b, L, m, new.dicPos)
      <4> SUFFICES ASSUME new.status = "more" PROVE GoesOn(s, a, b, L, m, new.dicPos)
        OBVIOUS
      <4>1. State(s, m) # "FINISHED" /\ State(s, m) # "ERROR" /\ State(s, m) \in States
        <5>1. State(s, m) \in States
          BY <1>s, <2>7, WalkTypes
        <5>2. new.status # "mark" /\ new.status # "error"
          OBVIOUS
        <5> QED  BY <3>1, <3>2, <5>1, <5>2, Zenon
      <4>2. Live(s, m)
        BY <4>1 DEF Live, States
      <4>3. new.dicPos = Count(s, m) - Count(s, a) /\ new.dicPos < L
        BY <2>9, <3>1, <3>2
      <4>4. new.dicPos <= L
        BY <2>9, <3>1
      <4> QED  BY <2>11, <2>12, <4>2, <4>3, <4>4, Zenon DEF GoesOn
    <3>8. new.status = "block" => CutAt(s, a, b, L, q, new.dicPos)
      BY <3>1, <3>5, Zenon
    <3>9. ASSUME NEW state, State(s, m) = state
          PROVE  EndsAt(s, a, b, L, m, new.dicPos, state)
      <4>1. LiveFrom(s, b, m)
        BY <2>7, <2>9
      <4>2. new.dicPos = Count(s, m) - Count(s, a) /\ new.dicPos <= L
        BY <2>9, <3>1, <3>2
      <4> QED  BY <2>12, <3>9, <4>1, <4>2, Zenon DEF EndsAt
    <3>10. new.status = "mark" => EndsAt(s, a, b, L, m, new.dicPos, "FINISHED")
      BY <3>1, <3>2, <3>9, Zenon
    <3>11. new.status = "error" => EndsAt(s, a, b, L, m, new.dicPos, "ERROR")
      BY <3>1, <3>2, <3>9, Zenon
    <3>12. new.dec = Dec(s, m)
      BY <3>1, <3>2, Zenon
    <3>13. new.dec = IF i + 1 = 0 THEN dec ELSE Dec(s, b + (i + 1))
      BY <2>3, <2>12, <3>12
    <3>14. new.status = "more" => GoesOn(s, a, b, L, b + (i + 1), new.dicPos)
      BY <2>12, <3>7
    <3>15. new.status = "block" => new.used > 0 /\ CutAt(s, a, b, L, b + new.used - 1, new.dicPos)
      BY <3>3, <3>8
    <3>16. new.status = "mark" => EndsAt(s, a, b, L, b + new.used, new.dicPos, "FINISHED")
      BY <3>3, <3>10
    <3>17. new.status = "error" => EndsAt(s, a, b, L, b + new.used, new.dicPos, "ERROR")
      BY <3>3, <3>11
    <3>18. new.used <= i + 1 /\ new.used = i + 1
      BY <3>3
    <3> QED  BY <3>6, <3>13, <3>14, <3>15, <3>16, <3>17, <3>18 DEF ParsedTo
  <2> QED  BY <2>13, <2>14
<1> QED  BY <1>3, <1>4

\* What Parse makes of all of them.
ParseGives(r, s, a, b, dec, L, n) ==
    /\ r \in ParseAccs /\ r.used <= n
    /\ r.status = "more" => /\ r.used = n /\ r.dec = IF n = 0 THEN dec ELSE Dec(s, b + n)
                            /\ GoesOn(s, a, b, L, b + n, r.dicPos)
    /\ r.status = "block" => r.used < n /\ CutAt(s, a, b, L, b + r.used, r.dicPos)
    /\ r.status = "mark" => EndsAt(s, a, b, L, b + r.used, r.dicPos, "FINISHED")
    /\ r.status = "error" => EndsAt(s, a, b, L, b + r.used, r.dicPos, "ERROR")

LEMMA ParseWalk ==
    ASSUME NEW s, NEW a, NEW b, NEW dec, NEW dicPos, NEW symbols, NEW L,
           ParsesFrom(s, a, b, dec, dicPos, symbols, L)
    PROVE  ParseGives(Parse(dec, dicPos, symbols, L), s, a, b, dec, L, Len(symbols))
<1>i. Len(symbols) \in Nat /\ L \in Nat /\ dicPos \in Nat /\ dec \in Decs
      /\ GoesOn(s, a, b, L, b, dicPos)
  BY DEF ParsesFrom
<1>s. s \in Seq(Symbols) /\ b \in 0..Len(s) /\ a \in 0..b /\ b + Len(symbols) <= Len(s)
  BY DEF ParsesFrom
<1>0. Len(s) \in Nat /\ b \in Nat
  BY <1>s, WalkStart
<1>1. PICK f : /\ ParseSteps(f, dec, dicPos, symbols, L)
               /\ WithoutNextHeader(Reverted(f[Len(symbols)])) = Parse(dec, dicPos, symbols, L)
               /\ f \in [0..Len(symbols) -> ParseAccs]
  BY <1>i, ParseFold, Zenon
<1> DEFINE P == {k \in 0..Len(symbols) : ParsedTo(f[k], s, a, b, dec, L, k)}
<1>2. 0 \in P
  <2>1. f[0] = ParseStart(dec, dicPos)
    BY <1>1, Zenon DEF ParseSteps
  <2>2. f[0].dec = dec /\ f[0].dicPos = dicPos /\ f[0].used = 0 /\ f[0].point = NoPoint /\ f[0].status = "more"
    BY <2>1 DEF ParseStart
  <2>3. b + 0 = b /\ 0 <= 0 /\ 0 \in 0..Len(symbols)
    BY <1>0, <1>i
  <2>4. GoesOn(s, a, b, L, b + 0, dicPos)
    BY <1>i, <2>3
  <2>5. f[0].status # "block" /\ f[0].status # "mark" /\ f[0].status # "error" /\ f[0].used <= 0
    BY <2>2
  <2>6. ParsedTo(f[0], s, a, b, dec, L, 0)
    <3>1. f[0].dec = IF 0 = 0 THEN dec ELSE Dec(s, b + 0)
      BY <2>2
    <3>2. GoesOn(s, a, b, L, b + 0, f[0].dicPos)
      BY <2>2, <2>4
    <3> QED  BY <2>2, <2>5, <3>1, <3>2, Zenon DEF ParsedTo, PointIs
  <2> QED  BY <2>3, <2>6
<1>3. ASSUME NEW i \in 0..(Len(symbols) - 1), i \in P PROVE i + 1 \in P
  <2>1. ParsedTo(f[i], s, a, b, dec, L, i)
    BY <1>3
  <2>2. i \in Nat /\ i < Len(symbols) /\ i \in 0..Len(symbols) /\ i + 1 \in 0..Len(symbols)
    BY <1>i, <1>3
  <2>3. f[i] \in ParseAccs
    BY <1>1, <2>2, Zenon
  <2>4. ParsingAt(s, a, b, dec, dicPos, symbols, L, i, f[i])
    BY <2>1, <2>2, <2>3, Zenon DEF ParsingAt
  <2>5. i + 1 \in 1..Len(symbols) /\ (i + 1) - 1 = i
    BY <1>i, <1>3
  <2>6. f[i + 1] = ParseOne(f[i], symbols[i + 1], L)
    <3>1. PICK j \in 1..Len(symbols) : j = i + 1 /\ j - 1 = i
      BY <2>5
    <3>2. f[j] = ParseOne(f[j - 1], symbols[j], L)
      BY <1>1, Zenon DEF ParseSteps
    <3> QED  BY <3>1, <3>2, Zenon
  <2>7. ParsedTo(f[i + 1], s, a, b, dec, L, i + 1)
    BY <2>4, <2>6, ParsedOn, Zenon
  <2> QED  BY <2>2, <2>7, Zenon
<1> HIDE DEF P
<1>4. PICK n \in Nat, acc \in ParseAccs : n = Len(symbols) /\ acc = f[n] /\ ParsedTo(acc, s, a, b, dec, L, n)
  <2>1. \A k \in 0..Len(symbols) : k \in P
    BY <1>i, <1>2, <1>3, UpwardInduction, Zenon
  <2>2. Len(symbols) \in 0..Len(symbols)
    BY <1>i
  <2>3. ParsedTo(f[Len(symbols)], s, a, b, dec, L, Len(symbols))
    BY <2>1, <2>2, Zenon DEF P
  <2>4. f[Len(symbols)] \in ParseAccs
    BY <1>1, <2>2, Zenon
  <2> QED  BY <1>i, <2>3, <2>4
<1>5. /\ acc.dec \in Decs /\ acc.dicPos \in Nat /\ acc.used \in Nat /\ acc.point \in Points
      /\ acc.status \in Statuses
      /\ acc = [dec |-> acc.dec, dicPos |-> acc.dicPos, used |-> acc.used, point |-> acc.point,
                status |-> acc.status]
  BY DEF ParseAccs
<1>6. acc.used <= n
  BY <1>4 DEF ParsedTo
<1>7. PICK r : r = Parse(dec, dicPos, symbols, L) /\ r = WithoutNextHeader(Reverted(acc))
  BY <1>1, <1>4
<1>8. CASE acc.point # NoPoint /\ acc.status \in {"more", "full"}
  <2>1. acc.point.used \in 1..acc.used /\ CutAt(s, a, b, L, b + acc.point.used - 1, acc.point.dicPos)
    BY <1>4, <1>8, Zenon DEF ParsedTo, PointIs
  <2>2. PICK used, pos \in Nat : used = acc.point.used /\ pos = acc.point.dicPos /\ used \in 1..acc.used
    BY <1>5, <2>1 DEF Points
  <2>3. Reverted(acc) = [acc EXCEPT !.status = "block", !.dicPos = pos, !.used = used]
    BY <1>8, <2>2, Zenon DEF Reverted
  <2>4. Reverted(acc) = [dec |-> acc.dec, dicPos |-> pos, used |-> used, point |-> acc.point, status |-> "block"]
    BY <1>5, <2>3
  <2>5. r = [Reverted(acc) EXCEPT !.used = used - 1]
    <3>1. Reverted(acc).status = "block" /\ Reverted(acc).used = used
      BY <2>4
    <3>2. r = [Reverted(acc) EXCEPT !.used = @ - 1]
      BY <1>7, <3>1, Zenon DEF WithoutNextHeader
    <3> QED  BY <2>4, <3>1, <3>2
  <2>6. r = [dec |-> acc.dec, dicPos |-> pos, used |-> used - 1, point |-> acc.point, status |-> "block"]
    BY <2>4, <2>5
  <2>7. used - 1 \in Nat /\ used - 1 < n /\ used - 1 <= n /\ b + used - 1 = b + (used - 1)
    BY <1>0, <1>5, <1>6, <2>2
  <2>8. r \in ParseAccs
    BY <1>5, <2>2, <2>6, <2>7 DEF ParseAccs, Statuses
  <2>9. r.used = used - 1 /\ r.dicPos = pos /\ r.status = "block"
    BY <2>6
  <2>10. CutAt(s, a, b, L, b + r.used, r.dicPos)
    BY <2>1, <2>2, <2>7, <2>9
  <2>11. r.used <= n /\ r.used < n
    BY <2>7, <2>9
  <2>12. r.status # "more" /\ r.status # "mark" /\ r.status # "error"
    BY <2>9
  <2> QED  BY <1>4, <1>7, <2>8, <2>10, <2>11, <2>12, Zenon DEF ParseGives
<1>9. CASE ~ (acc.point # NoPoint /\ acc.status \in {"more", "full"})
  <2>1. Reverted(acc) = acc
    BY <1>9, Zenon DEF Reverted
  <2>2. CASE acc.status = "block"
    <3>1. acc.used > 0 /\ CutAt(s, a, b, L, b + acc.used - 1, acc.dicPos)
      BY <1>4, <2>2, Zenon DEF ParsedTo
    <3>2. PICK used \in Nat : used = acc.used /\ used > 0 /\ used <= n
      BY <1>5, <1>6, <3>1
    <3>3. r = [acc EXCEPT !.used = @ - 1]
      BY <1>7, <2>1, <2>2, Zenon DEF WithoutNextHeader
    <3>4. r = [dec |-> acc.dec, dicPos |-> acc.dicPos, used |-> used - 1, point |-> acc.point,
               status |-> acc.status]
      BY <1>5, <3>2, <3>3
    <3>5. used - 1 \in Nat /\ used - 1 < n /\ used - 1 <= n /\ b + used - 1 = b + (used - 1)
      BY <1>0, <3>2
    <3>6. r \in ParseAccs
      BY <1>5, <3>4, <3>5 DEF ParseAccs
    <3>7. r.used = used - 1 /\ r.dicPos = acc.dicPos /\ r.status = "block"
      BY <2>2, <3>4
    <3>8. CutAt(s, a, b, L, b + r.used, r.dicPos)
      BY <3>1, <3>2, <3>5, <3>7
    <3>9. r.used <= n /\ r.used < n
      BY <3>5, <3>7
    <3>10. r.status # "more" /\ r.status # "mark" /\ r.status # "error"
      BY <3>7
    <3> QED  BY <1>4, <1>7, <3>6, <3>8, <3>9, <3>10, Zenon DEF ParseGives
  <2>3. CASE acc.status # "block"
    <3>1. r = acc
      BY <1>7, <2>1, <2>3, Zenon DEF WithoutNextHeader
    <3>2. ParseGives(acc, s, a, b, dec, L, n)
      BY <1>4, <1>6, <2>3, Zenon DEF ParseGives, ParsedTo
    <3> QED  BY <1>4, <1>7, <3>1, <3>2
  <2> QED  BY <2>2, <2>3
<1> QED  BY <1>8, <1>9

-----------------------------------------------------------------------------
(* What holds of the data while the threads work, block by block.          *)

Where == 0..Len(stream)
CallInv ==
    /\ stream \in Seq(Symbols) /\ outSize \in Nat
    /\ held = Decode(NewDecoder, Place(0, Len(stream)), stream, outSize, TRUE)

ReadInv ==
    /\ readProcessed \in Where /\ readWasFinished \in BOOLEAN /\ readRes \in {OK, "READ"}
    /\ readWasFinished /\ readRes = OK => readProcessed = Len(stream)

\* Everything up to p came out and was written.
OutAt(p) == Good(stream, outSize, 0, p) /\ out = Out(stream, p)
Agrees == IsPrefix(out, held.out)

\* Where the links of a block begin, and what they hold: the size places after a.
Off(start, k) == IF k = 1 THEN 0 ELSE start + (k - 2) * InBufSize

LinksHold(inBuf, start, size, a) ==
    /\ inBuf \in Seq(Seq(Nat)) /\ size \in Nat
    /\ \A k \in DOMAIN inBuf : \A j \in 1..LinkSize(k, start, size) :
         j <= Len(inBuf[k]) /\ inBuf[k][j] = a + Off(start, k) + j
    /\ size = 0 \/ size <= Off(start, Len(inBuf) + 1)
Linked(inBuf, start, size, a) ==
    LinksHold(inBuf, start, size, a) /\ start \in 0..size /\ (size > 0 => start > 0)

\* What crossed over is what was read after z.
Contiguous(z) == \E n \in 0..readProcessed : crossBlock = Place(z, n) /\ z + n = readProcessed

NothingLeft == readWasFinished /\ crossBlock = <<>>

Room(p) ==
    /\ Live(stream, p) /\ Count(stream, p) <= outSize
    /\ State(stream, p) = "DATA" => Count(stream, p) < outSize

\* The next block begins after z, or nothing comes any more.
Fresh(z) ==
    /\ Room(z) /\ Contiguous(z)
    /\ (Proper(stream, z) /\ outProcessed_Parse = Count(stream, z)) \/ NothingLeft

BlockLimit(a) ==
    IF OutBlockMax >= outSize - Count(stream, a) THEN outSize - Count(stream, a) ELSE OutBlockMax

Fields(c) ==
    /\ DOMAIN c = DOMAIN NewCoder
    /\ c.outBuf \in Seq(Nat) /\ c.outBufSize \in Nat

\* A coder that parsed size places after a, and goes on.
Parsing(c, a, size) ==
    LET b == a + size
    IN  /\ c.inPreSize = size /\ c.dec = Dec(stream, b)
        /\ GoesOn(stream, a, a, BlockLimit(a), b, c.dicPos)
        /\ c.codeRes = OK /\ c.inCodeSize = 0 /\ c.outCodeSize = 0

\* A coder that parsed a block of size places after a, by how it ends.
Parsed(c, a, size) ==
    LET b == a + size
    IN  /\ b <= Len(stream) /\ LiveFrom(stream, a, b)
        /\ c.inPreSize = size /\ c.outPreSize = Count(stream, b) - Count(stream, a)
        /\ Count(stream, b) <= outSize
        /\ \/ c.parseStatus = "block" /\ c.state = "NEW" /\ Proper(stream, b) /\ size > 0
           \/ c.parseStatus = "mark" /\ c.state = "END" /\ State(stream, b) = "FINISHED"
           \/ c.parseStatus = "error" /\ c.state = "END" /\ State(stream, b) = "ERROR"
           \/ c.parseStatus = "more" /\ c.state = "CONTINUE" /\ Room(b)
        /\ size > 0 => Proper(stream, a)

\* What came out of the first m places after a.
CameOut(c, a, m) ==
    /\ c.outCodeSize = Count(stream, a + m) - Count(stream, a)
    /\ c.outCodeSize <= Len(c.outBuf)
    /\ \A i \in 1..c.outCodeSize : c.outBuf[i] = Out(stream, a + m)[Count(stream, a) + i]

\* The block is decoded up to its next link ...
Coding(c, l, a) ==
    LET m == Off(l.start, l.link)
    IN  /\ l.codeRes = OK /\ l.link \in Nat \ {0} /\ m < l.size
        /\ c.inCodeSize = m /\ c.dicPos = c.outCodeSize
        /\ c.dec = IF m = 0 THEN NewDecoder ELSE Dec(stream, a + m)
        /\ CameOut(c, a, m)
        /\ Good(stream, outSize, a, a + m)

\* ... or all of it was, or as far as it could be.
CodedWhole(c, l, a) ==
    /\ l.codeRes = OK /\ c.codeRes = OK
    /\ CameOut(c, a, l.size)
    /\ Good(stream, outSize, a, IF c.parseStatus = "error" THEN a + l.size - 1 ELSE a + l.size)
    /\ c.parseStatus \in {"mark", "block"} => c.inCodeSize = c.inPreSize
CodedInPart(c, l, a) ==
    /\ l.codeRes = "DATA" /\ c.codeRes = "DATA"
    /\ \E q \in a..(a + l.size) : /\ Good(stream, outSize, a, q) /\ CameOut(c, a, q - a)
                                  /\ Refused(stream, outSize, q) \/ l.size = 0

Troublesome(l) == l.allocError \/ l.overflow \/ l.threading \/ l.codeRes = "MEM"

\* A block that is being read.
ReadNothing(l, a) ==
    /\ l.link = 1 /\ l.size = 0 /\ l.start = 0 /\ ~ l.needWrite
    /\ l.finish = readWasFinished /\ Fresh(a)
ReadSome(inBuf, l, c, a) ==
    /\ l.link \in Nat /\ l.link > 1 /\ l.link <= Len(inBuf) + 1
    /\ l.size > 0 /\ l.size = Off(l.start, l.link) /\ l.needWrite
    /\ ~ l.finish /\ ~ readWasFinished /\ crossBlock = <<>>
    /\ a + l.size = readProcessed
    /\ Parsing(c, a, l.size)
    /\ Room(a) /\ Proper(stream, a) /\ outProcessed_Parse = Count(stream, a)
BlockRead(inBuf, l, c, a) ==
    /\ Linked(inBuf, l.start, l.size, a)
    /\ ~ l.interrupted /\ ~ l.needCode /\ ~ Troublesome(l) /\ l.codeRes = OK
    /\ Fields(c)
    /\ ReadNothing(l, a) \/ ReadSome(inBuf, l, c, a)

\* A block that was read.
BlockHeld(p, inBuf, l, c, a) ==
    /\ Linked(inBuf, l.start, l.size, a) /\ Room(a)
    /\ Troublesome(l) => l.finish
    /\ p = "pass" => ~ l.threading
    /\ p \in {"pass", "code"} => l.codeRes = OK
    /\ ~ Troublesome(l) =>
         /\ Fields(c) /\ l.needWrite
         /\ Parsed(c, a, l.size)
         /\ l.finish <=> c.parseStatus # "block"
         /\ p = "pass" => /\ l.needCode /\ c.codeRes = OK
                          /\ c.inCodeSize = 0 /\ c.outCodeSize = 0
         /\ p = "code" => Coding(c, l, a)
         /\ p = "write" => CodedWhole(c, l, a) \/ CodedInPart(c, l, a)

\* What is there after the block that was read last, up to z.
Ahead(l, c, a, z) ==
    /\ z = a + l.size
    /\ Live(stream, z) => Contiguous(z)
    /\ Troublesome(l) => Proper(stream, a) \/ (l.size = 0 /\ NothingLeft)
    /\ ~ Troublesome(l) /\ c.parseStatus \in {"block", "more"} => Fresh(z)
    /\ ~ Troublesome(l) /\ c.parseStatus = "more" => NothingLeft

Held(t) == pc[t] \in {"pass", "code", "write"}

Placed(t, A, z) ==
    /\ threads[t].inBuf \in Seq(Seq(Nat))
    /\ pc[t] = "link" => BlockRead(threads[t].inBuf, me[t], coders[t], A[t])
    /\ Held(t) /\ ~ me[t].interrupted =>
         /\ BlockHeld(pc[t], threads[t].inBuf, me[t], coders[t], A[t])
         /\ IsLast(t) => Ahead(me[t], coders[t], A[t], z)
         /\ Passed(t) /\ ~ me[t].finish /\ ~ IsLast(t) => A[me[t].next] = A[t] + me[t].size
    /\ ~ Busy(t) => Fields(coders[t])
    /\ First(t) => OutAt(A[t])
    /\ Busy(t) /\ me[t].interrupted => InterruptedAt(me[t].blockIndex)
    /\ pc[t] = "code" => ~ me[t].interrupted

\* Somebody who can not go on made the blocks after his be interrupted.
Interrupts ==
    needInterrupt => \E t \in Threads : /\ pc[t] = "write" /\ me[t].blockIndex = interruptIndex
                                        /\ me[t].codeRes # OK

InBlocks(A, z) ==
    /\ A \in [Threads -> Where] /\ z \in Where /\ DOMAIN coders = Threads
    /\ \A t \in Threads : Placed(t, A, z)
    /\ NobodyBusy => Fresh(z) /\ OutAt(z)
    /\ Interrupts

Working == \E A \in [Threads -> Where], z \in Where : InBlocks(A, z)

\* What one thread takes over: the places after p, of which those up to z are
\* still in the links of one of the threads.
TakesOver(p, z) ==
    /\ OutAt(p) /\ Room(p)
    /\ \/ numFilledThreads = 0 /\ p = z
       \/ /\ numFilledThreads = 1
          /\ filledThreadStart \in Threads /\ filledThreadStart < numStartedThreads
          /\ LET th == threads[filledThreadStart]
             IN  /\ Linked(th.inBuf, th.inDataSize_Start, th.inDataSize, p)
                 /\ th.inDataSize > 0 /\ z = p + th.inDataSize
    /\ Live(stream, z) => Contiguous(z)
    /\ Proper(stream, p) \/ (numFilledThreads = 0 /\ NothingLeft)

\* Why a block that was written was the last.
BadEnd == Sound => readRes # OK
GoodEnd == Sound => out = held.out

MtInv ==
    /\ Agrees
    /\ ~ wasInterrupted => ~ NeedContinue /\ codeRes = OK /\ numFilledThreads = 0
    /\ ~ NeedContinue /\ codeRes # OK => BadEnd
    /\ NeedContinue => Over /\ \E p, z \in Where : TakesOver(p, z)
    /\ ~ wasInterrupted /\ Over => GoodEnd
    /\ ~ wasInterrupted /\ ~ Over => Working

\* One thread decoded all up to p; the data it has is up to q, the links that
\* it took over up to z.
RestOf(q, z) ==
    \/ numFilledThreads = 0 /\ q = z
    \/ /\ numFilledThreads = 1 /\ st.tMode
       /\ filledThreadStart \in Threads /\ filledThreadStart < numStartedThreads
       /\ LET th == threads[filledThreadStart]
          IN  /\ z = q + th.inDataSize
              /\ IF st.inLim = 0
                 THEN Linked(th.inBuf, th.inDataSize_Start, th.inDataSize, q) /\ th.inDataSize > 0
                 ELSE /\ LinksHold(th.inBuf, 0, th.inDataSize, q)
                      /\ th.inDataSize_Start = 0 /\ th.inBuf # <<>>
\* One thread decoded all up to p, ...
StOut(p) ==
    /\ Good(stream, outSize, 0, p) /\ Room(p) /\ DOMAIN st = DOMAIN NoSt
    /\ out \in Seq(Nat) /\ st.dic \in Seq(Nat) /\ out \o st.dic = Out(stream, p)
    /\ st.outProcessed = Count(stream, p) /\ Len(st.dic) < OutStep
\* ... has the n places after it, and will get those up to z from the links
\* that it took over ...
StData(p, n, z) ==
    /\ st.data = Place(p, n) /\ p + n <= z /\ RestOf(p + n, z)
    /\ main = "fetch" => n = 0
    /\ Live(stream, z) => Contiguous(z)
    /\ ~ st.tMode => numFilledThreads = 0 /\ crossBlock = <<>>
    /\ main = "decode" /\ n = 0 => numFilledThreads = 0 /\ NothingLeft
\* ... and may go on, or gets nothing any more.
StDec(p, n) ==
    \/ LikeDec(stream, st.dec, p)
    \/ st.dec = NewDecoder /\ numFilledThreads = 0 /\ NothingLeft /\ n = 0
StAt(p, n, z) == StOut(p) /\ StData(p, n, z) /\ StDec(p, n)
StInv == NeedContinue /\ Agrees /\ \E p, n, z \in Where : StAt(p, n, z)

DataInv ==
    /\ CallInv /\ ReadInv
    /\ main = "mt" => MtInv
    /\ main \in {"fetch", "decode"} => StInv
    /\ main \in {"close", "done"} => Agrees

\* for TLC

-----------------------------------------------------------------------------
(* Sequences of places. *)

LEMMA PlaceIs ==
    ASSUME NEW p \in Nat, NEW n \in Nat
    PROVE  /\ Place(p, n) \in Seq(Nat) /\ Len(Place(p, n)) = n /\ DOMAIN Place(p, n) = 1..n
           /\ \A i \in 1..n : Place(p, n)[i] = p + i
<1>1. Place(p, n) \in [1..n -> Nat]
  BY DEF Place
<1>2. Place(p, n) \in Seq(Nat)
  BY <1>1, SeqDef
<1> QED  BY <1>1, <1>2, LenProperties DEF Place

LEMMA NoPlace == Place(0, 0) = <<>> /\ \A p : Place(p, 0) = <<>>
<1>1. \A p : Place(p, 0) = [k \in {} |-> 0]
  <2> SUFFICES ASSUME NEW p PROVE Place(p, 0) = [k \in {} |-> 0]
    OBVIOUS
  <2>1. 1..0 = {}
    OBVIOUS
  <2> QED  BY <2>1 DEF Place
<1>2. Place(0, 0) = <<>>
  BY PlaceIs, EmptySeq
<1> QED  BY <1>1, <1>2

LEMMA EmptyPlace ==
    ASSUME NEW p \in Nat, NEW n \in Nat, Place(p, n) = <<>>
    PROVE  n = 0
  BY PlaceIs, EmptySeq

LEMMA PrefixIs ==
    ASSUME NEW s \in Seq(Nat), NEW t \in Seq(Nat)
    PROVE  IsPrefix(s, t) <=> Len(s) <= Len(t) /\ \A i \in 1..Len(s) : s[i] = t[i]
<1>1. Len(s) \in Nat /\ Len(t) \in Nat /\ (\A i \in 1..Len(s) : s[i] \in Nat) /\ (\A i \in 1..Len(t) : t[i] \in Nat)
  BY LenProperties, ElementOfSeq
<1>2. SubSeq(s, 1, Len(s)) = s
  BY SubSeqFull
<1>3. ASSUME Len(s) <= Len(t)
      PROVE  /\ SubSeq(t, 1, Len(s)) \in Seq(Nat) /\ Len(SubSeq(t, 1, Len(s))) = Len(s)
             /\ \A i \in 1..Len(s) : SubSeq(t, 1, Len(s))[i] = t[i]
  <2>1. PICK n \in Nat : n = Len(s) /\ n <= Len(t)
    BY <1>1, <1>3
  <2>2. \A i \in 1..n : t[i] \in Nat
    BY <1>1, <2>1
  <2>3. /\ SubSeq(t, 1, n) \in Seq(Nat) /\ Len(SubSeq(t, 1, n)) = (IF 1 <= n THEN n - 1 + 1 ELSE 0)
        /\ \A i \in 1..(n - 1 + 1) : SubSeq(t, 1, n)[i] = t[1 + i - 1]
    BY <2>2, SubSeqProperties
  <2>4. (IF 1 <= n THEN n - 1 + 1 ELSE 0) = n /\ n - 1 + 1 = n /\ \A i \in 1..n : 1 + i - 1 = i
    BY <2>1
  <2> QED  BY <2>1, <2>3, <2>4
<1>4. ASSUME IsPrefix(s, t) PROVE Len(s) <= Len(t) /\ \A i \in 1..Len(s) : s[i] = t[i]
  <2>1. Len(s) <= Len(t) /\ s = SubSeq(t, 1, Len(s))
    BY <1>2, <1>4 DEF IsPrefix
  <2> QED  BY <1>3, <2>1
<1>5. ASSUME Len(s) <= Len(t), \A i \in 1..Len(s) : s[i] = t[i] PROVE IsPrefix(s, t)
  <2>1. s = SubSeq(t, 1, Len(s))
    BY <1>3, <1>5, SeqEqual
  <2> QED  BY <1>2, <1>5, <2>1 DEF IsPrefix
<1> QED  BY <1>4, <1>5

LEMMA PrefixOf ==
    ASSUME NEW s \in Seq(Nat), NEW t \in Seq(Nat), NEW u \in Seq(Nat), IsPrefix(s, t), IsPrefix(t, u)
    PROVE  IsPrefix(s, u)
<1>1. Len(s) \in Nat /\ Len(t) \in Nat /\ Len(u) \in Nat
  BY LenProperties
<1>2. Len(s) <= Len(t) /\ Len(t) <= Len(u) /\ (\A i \in 1..Len(s) : s[i] = t[i]) /\ (\A i \in 1..Len(t) : t[i] = u[i])
  BY PrefixIs
<1>3. Len(s) <= Len(u)
  BY <1>1, <1>2
<1>4. \A i \in 1..Len(s) : s[i] = u[i]
  BY <1>1, <1>2
<1> QED  BY <1>3, <1>4, PrefixIs

-----------------------------------------------------------------------------
(* What one decoder makes of the stream. *)

HeldTo(h, s, n, e) ==
    /\ e \in 0..Len(s) /\ h.out = Out(s, e) /\ Good(s, n, 0, e) /\ Count(s, e) <= n
    /\ h.res \in {"OK", "DATA"}
    /\ h.res = "OK" => h.dec.state = State(s, e) /\ (e = Len(s) \/ State(s, e) = "FINISHED")
    /\ h.res = "DATA" => Refused(s, n, e)

LEMMA ComesAll ==
    ASSUME NEW s \in Seq(Symbols), NEW e \in 0..Len(s), NEW o, Comes(s, o, 0, e)
    PROVE  o = Out(s, e)
<1>1. Count(s, 0) = 0 /\ Len(s) \in Nat
  BY WalkStart
<1>2. Out(s, e) \in Seq(Nat) /\ Count(s, e) \in Nat
  BY WalkTypes
<1>3. o \in Seq(Nat) /\ Len(o) = Count(s, e) /\ \A i \in 1..Len(o) : o[i] = Out(s, e)[i]
  <2>1. o \in Seq(Nat) /\ Len(o) = Count(s, e) - Count(s, 0) /\ \A i \in 1..Len(o) : o[i] = Out(s, e)[Count(s, 0) + i]
    BY DEF Comes
  <2>2. Len(o) \in Nat
    BY <2>1, LenProperties
  <2> QED  BY <1>1, <1>2, <2>1, <2>2
<1> QED  BY <1>2, <1>3, SeqEqual DEF Count

LEMMA LeadsOn ==
    ASSUME NEW s \in Seq(Symbols), NEW p \in Nat, NEW n \in Nat, p + n <= Len(s)
    PROVE  Leads(s, Place(p, n), p)
<1>1. Len(s) \in Nat
  BY WalkStart
<1>2. Len(Place(p, n)) = n /\ \A i \in 1..n : Place(p, n)[i] = p + i
  BY PlaceIs
<1> QED  BY <1>1, <1>2 DEF Leads

LEMMA HeldIs ==
    ASSUME NEW s \in Seq(Symbols), NEW n \in Nat
    PROVE  \E e : HeldTo(Decode(NewDecoder, Place(0, Len(s)), s, n, TRUE), s, n, e)
<1>1. /\ Len(s) \in Nat /\ Dec(s, 0) = NewDecoder /\ State(s, 0) = "CONTROL" /\ Count(s, 0) = 0
      /\ NewDecoder \in Decs /\ n - 0 = n /\ 0 \in 0..Len(s)
  BY WalkStart, WalkTypes
<1>2. Place(0, Len(s)) \in Seq(Nat) /\ Leads(s, Place(0, Len(s)), 0) /\ Len(Place(0, Len(s))) = Len(s)
  BY <1>1, PlaceIs, LeadsOn
<1>3. DecodesFrom(s, 0, NewDecoder, Place(0, Len(s)), n, TRUE)
  BY <1>1, <1>2 DEF DecodesFrom, LikeDec, Live
<1>4. PICK r : r = Decode(NewDecoder, Place(0, Len(s)), s, n, TRUE)
  OBVIOUS
<1>5. PICK q : r \in DecodeAccs /\ DecodedTo(r, s, NewDecoder, 0, n, TRUE, q, Len(s))
  BY <1>1, <1>2, <1>3, <1>4, DecodeWalk
<1>6. q \in 0..Len(s) /\ r.out = Out(s, q) /\ Good(s, n, 0, q) /\ Count(s, q) <= n
  BY <1>5, ComesAll DEF DecodedTo, Good
<1>7. r.res \in {"OK", "DATA"}
  BY <1>5 DEF DecodeAccs
<1>8. r.res = "OK" => r.dec.state = State(s, q) /\ (q = Len(s) \/ State(s, q) = "FINISHED")
  <2> HAVE r.res = "OK"
  <2>1. r.dec = IF q = 0 THEN NewDecoder ELSE Dec(s, q)
    BY <1>5 DEF DecodedTo
  <2>2. r.dec = Dec(s, q)
    BY <1>1, <2>1
  <2>3. r.dec.state = State(s, q)
    BY <1>6, <2>2, WalkTypes
  <2>4. q = 0 + Len(s) \/ r.dec.state = "FINISHED" \/ (Count(s, q) = n /\ ~ TRUE)
    BY <1>5 DEF DecodedTo
  <2> QED  BY <1>1, <2>3, <2>4
<1>9. r.res = "DATA" => Refused(s, n, q)
  BY <1>5 DEF DecodedTo, Refused
<1> QED  BY <1>4, <1>6, <1>7, <1>8, <1>9 DEF HeldTo

\* What was accepted came out of that decoder too.
LEMMA GoodWithin ==
    ASSUME NEW h, NEW s \in Seq(Symbols), NEW n \in Nat, NEW e, HeldTo(h, s, n, e),
           NEW p \in 0..Len(s), Good(s, n, 0, p)
    PROVE  p <= e /\ e \in p..Len(s) /\ h.out \in Seq(Nat) /\ IsPrefix(Out(s, p), h.out)
<1>1. Len(s) \in Nat /\ e \in 0..Len(s) /\ h.out = Out(s, e)
  BY WalkStart DEF HeldTo
<1>2. ASSUME p > e PROVE FALSE
  <2>1. e + 1 \in (0 + 1)..p /\ (e + 1) - 1 = e /\ e # Len(s)
    BY <1>1, <1>2
  <2>2. Accepted(s, e + 1, n, TRUE)
    BY <2>1 DEF Good, AllAccepted
  <2>3. Live(s, e)
    BY <2>1, <2>2 DEF Accepted
  <2> QED  BY <2>1, <2>2, <2>3 DEF HeldTo, Refused, Live
<1>3. p <= e /\ e \in p..Len(s) /\ p \in Nat
  BY <1>1, <1>2
<1>4. Out(s, p) \in Seq(Nat) /\ Out(s, e) \in Seq(Nat)
  BY <1>1, WalkTypes
<1>5. Count(s, p) <= Count(s, e) /\ \A i \in 1..Count(s, p) : Out(s, e)[i] = Out(s, p)[i]
  BY <1>3, OutGrows
<1>6. IsPrefix(Out(s, p), Out(s, e))
  BY <1>4, <1>5, PrefixIs DEF Count
<1> QED  BY <1>1, <1>3, <1>4, <1>6

LEMMA FinishedAt ==
    ASSUME NEW h, NEW s \in Seq(Symbols), NEW n \in Nat, NEW e, HeldTo(h, s, n, e),
           NEW p \in 0..Len(s), Good(s, n, 0, p), State(s, p) = "FINISHED"
    PROVE  h.out = Out(s, p)
<1>1. p <= e /\ e \in p..Len(s) /\ Len(s) \in Nat
  BY GoodWithin, WalkStart
<1>2. ASSUME p # e PROVE FALSE
  <2>1. p + 1 \in (0 + 1)..e /\ (p + 1) - 1 = p
    BY <1>1, <1>2
  <2>2. Live(s, p)
    BY <2>1 DEF HeldTo, Good, AllAccepted, Accepted
  <2> QED  BY <2>2 DEF Live
<1> QED  BY <1>2 DEF HeldTo

LEMMA RefusedAt ==
    ASSUME NEW h, NEW s \in Seq(Symbols), NEW n \in Nat, NEW e, HeldTo(h, s, n, e),
           NEW p \in 0..Len(s), Good(s, n, 0, p), Refused(s, n, p)
    PROVE  h.res = "DATA"
<1>1. p <= e /\ e \in p..Len(s) /\ Len(s) \in Nat
  BY GoodWithin, WalkStart
<1>2. ASSUME p # e PROVE FALSE
  <2>1. p + 1 \in (0 + 1)..e
    BY <1>1, <1>2
  <2> QED  BY <2>1 DEF HeldTo, Good, AllAccepted, Refused
<1>3. p < Len(s) /\ Live(s, p)
  BY DEF Refused
<1> QED  BY <1>1, <1>2, <1>3 DEF HeldTo, Live

LEMMA EndsOpen ==
    ASSUME NEW h, NEW s \in Seq(Symbols), NEW n \in Nat, NEW e, HeldTo(h, s, n, e),
           Good(s, n, 0, Len(s)), Live(s, Len(s))
    PROVE  h.res # "OK" \/ h.dec.state # "FINISHED"
<1>1. Len(s) \in 0..Len(s) /\ Len(s) \in Nat
  BY WalkStart
<1>2. PICK p \in 0..Len(s) : p = Len(s) /\ Good(s, n, 0, p)
  BY <1>1
<1>3. e \in p..Len(s)
  BY <1>2, GoodWithin
<1>4. e = Len(s)
  BY <1>1, <1>2, <1>3
<1> QED  BY <1>4 DEF HeldTo, Live

LEMMA ErrorAt ==
    ASSUME NEW s \in Seq(Symbols), NEW n \in Nat, NEW p \in 1..Len(s), State(s, p) = "ERROR", Live(s, p - 1)
    PROVE  Refused(s, n, p - 1)
<1>1. State(s, p - 1) # "DATA"
  BY WalkStep
<1>2. State(s, p - 1) = "CONTROL" /\ (p - 1) + 1 = p /\ p - 1 < Len(s)
  BY <1>1, WalkStart DEF Live
<1> QED  BY <1>2 DEF Refused, Accepted

-----------------------------------------------------------------------------
(* What is accepted, and what comes out, in parts. *)

LEMMA GoodOf ==
    ASSUME NEW s \in Seq(Symbols), NEW a \in 0..Len(s), NEW b \in a..Len(s), NEW m \in Nat, NEW n \in Nat,
           m <= n, NEW finish, AllAccepted(s, a, b, m, finish)
    PROVE  Good(s, n, a, b)
<1> SUFFICES ASSUME NEW j \in (a + 1)..b PROVE Accepted(s, j, n, TRUE)
  BY DEF Good, AllAccepted
<1>1. Accepted(s, j, m, finish)
  BY DEF AllAccepted
<1>2. j - 1 \in 0..Len(s)
  BY WalkStart
<1>3. Count(s, j - 1) \in Nat
  BY <1>2, WalkTypes
<1>4. Count(s, j - 1) < m => Count(s, j - 1) < n
  BY <1>3
<1> QED  BY <1>1, <1>4 DEF Accepted

LEMMA GoodJoins ==
    ASSUME NEW s, NEW n, NEW a \in Nat, NEW b \in Nat, NEW c \in Nat, Good(s, n, a, b), Good(s, n, b, c)
    PROVE  Good(s, n, a, c)
<1> SUFFICES ASSUME NEW j \in (a + 1)..c PROVE Accepted(s, j, n, TRUE)
  BY DEF Good, AllAccepted
<1>1. CASE j <= b
  <2>1. j \in (a + 1)..b
    BY <1>1
  <2> QED  BY <2>1 DEF Good, AllAccepted
<1>2. CASE ~ (j <= b)
  <2>1. j \in (b + 1)..c
    BY <1>2
  <2> QED  BY <2>1 DEF Good, AllAccepted
<1> QED  BY <1>1, <1>2

LEMMA GoodPart ==
    ASSUME NEW s, NEW n, NEW a \in Nat, NEW b \in Nat, NEW c \in Nat, Good(s, n, a, c), b <= c
    PROVE  Good(s, n, a, b)
<1> SUFFICES ASSUME NEW j \in (a + 1)..b PROVE Accepted(s, j, n, TRUE)
  BY DEF Good, AllAccepted
<1>1. j \in (a + 1)..c
  OBVIOUS
<1> QED  BY <1>1 DEF Good, AllAccepted

\* What came out of the first places, and then of the next.
LEMMA OutJoins ==
    ASSUME NEW s \in Seq(Symbols), NEW a \in 0..Len(s), NEW b \in a..Len(s), NEW o, Comes(s, o, a, b)
    PROVE  Out(s, a) \o o = Out(s, b)
<1>1. Len(s) \in Nat /\ b \in 0..Len(s)
  BY WalkStart
<1>2. Out(s, a) \in Seq(Nat) /\ Count(s, a) \in Nat /\ Out(s, b) \in Seq(Nat) /\ Count(s, b) \in Nat
  BY <1>1, WalkTypes
<1>3. Count(s, a) <= Count(s, b) /\ \A i \in 1..Count(s, a) : Out(s, b)[i] = Out(s, a)[i]
  BY OutGrows
<1>4. o \in Seq(Nat) /\ Len(o) = Count(s, b) - Count(s, a) /\ \A i \in 1..Len(o) : o[i] = Out(s, b)[Count(s, a) + i]
  BY DEF Comes
<1>5. /\ Out(s, a) \o o \in Seq(Nat) /\ Len(Out(s, a) \o o) = Count(s, a) + Len(o)
      /\ \A i \in 1..(Count(s, a) + Len(o)) :
           (Out(s, a) \o o)[i] = IF i <= Count(s, a) THEN Out(s, a)[i] ELSE o[i - Count(s, a)]
  BY <1>2, <1>4, ConcatProperties DEF Count
<1>6. Count(s, a) + Len(o) = Count(s, b) /\ Len(Out(s, b)) = Count(s, b)
  BY <1>2, <1>4 DEF Count
<1>7. \A i \in 1..Count(s, b) : (Out(s, a) \o o)[i] = Out(s, b)[i]
  <2> TAKE i \in 1..Count(s, b)
  <2>1. CASE i <= Count(s, a)
    BY <1>2, <1>3, <1>5, <1>6, <2>1
  <2>2. CASE ~ (i <= Count(s, a))
    <3>1. i - Count(s, a) \in 1..Len(o) /\ Count(s, a) + (i - Count(s, a)) = i
      BY <1>2, <1>6, <2>2, <1>4
    <3> QED  BY <1>4, <1>5, <1>6, <2>2, <3>1
  <2> QED  BY <2>1, <2>2
<1> QED  BY <1>2, <1>5, <1>6, <1>7, SeqEqual

\* The parts of what is in the buffer of a coder.
LEMMA BufferHas ==
    ASSUME NEW s \in Seq(Symbols), NEW a \in 0..Len(s), NEW b \in a..Len(s), NEW buf \in Seq(Nat), NEW n,
           n = Count(s, b) - Count(s, a), n <= Len(buf),
           \A i \in 1..n : buf[i] = Out(s, b)[Count(s, a) + i]
    PROVE  Comes(s, SubSeq(buf, 1, n), a, b) /\ n \in Nat
<1>1. Len(s) \in Nat /\ b \in 0..Len(s)
  BY WalkStart
<1>2. Count(s, a) \in Nat /\ Count(s, b) \in Nat /\ Count(s, a) <= Count(s, b)
  BY <1>1, WalkTypes, OutGrows
<1>3. n \in Nat /\ Len(buf) \in Nat
  BY <1>2, LenProperties
<1>4. \A i \in 1..n : buf[i] \in Nat
  BY <1>3, ElementOfSeq
<1>5. /\ SubSeq(buf, 1, n) \in Seq(Nat) /\ Len(SubSeq(buf, 1, n)) = (IF 1 <= n THEN n - 1 + 1 ELSE 0)
      /\ \A i \in 1..(n - 1 + 1) : SubSeq(buf, 1, n)[i] = buf[1 + i - 1]
  BY <1>3, <1>4, SubSeqProperties
<1>6. (IF 1 <= n THEN n - 1 + 1 ELSE 0) = n /\ n - 1 + 1 = n /\ \A i \in 1..n : 1 + i - 1 = i
  BY <1>3
<1> QED  BY <1>3, <1>5, <1>6 DEF Comes

-----------------------------------------------------------------------------
(* The links of a block. *)

LEMMA Sizes ==
    /\ InBufSize \in Nat /\ InBufSize > 0 /\ OutBlockMax \in Nat /\ OutBlockMax > 0
    /\ MinBlock \in Nat /\ MinBlock > 0 /\ InBufSize_ST \in Nat /\ InBufSize_ST > 0
    /\ OutStep \in Nat /\ OutStep > 0
  BY Lzma2DecMtAssumption

LEMMA Multiples ==
    ASSUME NEW i \in Nat, NEW j \in Nat, NEW size \in Nat
    PROVE  /\ i * size \in Nat /\ (i + 1) * size = i * size + size /\ 0 * size = 0
           /\ i <= j => i * size <= j * size
<1>1. i * size \in Nat /\ (i + 1) * size = i * size + size /\ 0 * size = 0
  OBVIOUS
<1>2. ASSUME i <= j PROVE i * size <= j * size
  <2>1. PICK d \in Nat : j = i + d
    BY <1>2
  <2>2. (i + d) * size = i * size + d * size /\ d * size \in Nat
    OBVIOUS
  <2> QED  BY <1>1, <2>1, <2>2
<1> QED  BY <1>1, <1>2

\* Where the links begin.
LEMMA OffIs ==
    ASSUME NEW start \in Nat, NEW k \in Nat, k > 0
    PROVE  /\ Off(start, 1) = 0 /\ Off(start, 2) = start /\ Off(start, k) \in Nat
           /\ k > 1 => Off(start, k) >= start
           /\ k > 1 => Off(start, k + 1) = Off(start, k) + InBufSize
<1>1. CASE k = 1
  <2>1. 0 * InBufSize = 0
    BY Sizes, Multiples
  <2> QED  BY <1>1, <2>1 DEF Off
<1>2. CASE k # 1
  <2>1. PICK i \in Nat : k = i + 2 /\ k - 2 = i /\ (k + 1) - 2 = i + 1 /\ k + 1 # 1 /\ 2 - 2 = 0
    <3>1. k - 2 \in Nat /\ k = (k - 2) + 2
      BY <1>2
    <3> QED  BY <3>1
  <2>2. i * InBufSize \in Nat /\ (i + 1) * InBufSize = i * InBufSize + InBufSize /\ 0 * InBufSize = 0
    BY Sizes, Multiples
  <2>3. Off(start, k) = start + i * InBufSize /\ Off(start, k + 1) = start + (i + 1) * InBufSize
    BY <1>2, <2>1 DEF Off
  <2>4. Off(start, 2) = start + 0 * InBufSize /\ Off(start, 1) = 0
    BY <2>1 DEF Off
  <2> QED  BY <2>2, <2>3, <2>4, Sizes
<1> QED  BY <1>1, <1>2

LEMMA OffGrows ==
    ASSUME NEW start \in Nat, NEW k \in Nat, NEW m \in Nat, k > 0, k <= m
    PROVE  Off(start, k) <= Off(start, m)
<1>1. CASE k = 1
  BY <1>1, OffIs
<1>2. CASE k # 1
  <2>1. PICK i \in Nat, j \in Nat : k - 2 = i /\ m - 2 = j /\ i <= j
    <3>1. k - 2 \in Nat /\ m - 2 \in Nat /\ k - 2 <= m - 2
      BY <1>2
    <3> QED  BY <3>1
  <2>2. i * InBufSize <= j * InBufSize /\ i * InBufSize \in Nat /\ j * InBufSize \in Nat
    BY <2>1, Sizes, Multiples
  <2>3. Off(start, k) = start + i * InBufSize /\ Off(start, m) = start + j * InBufSize
    BY <1>2, <2>1 DEF Off
  <2> QED  BY <2>2, <2>3
<1> QED  BY <1>1, <1>2

LEMMA LinkSizeIs ==
    ASSUME NEW start \in Nat, NEW size \in Nat, NEW k \in Nat, k > 0
    PROVE  /\ LinkSize(1, start, size) = start
           /\ k > 1 => LinkSize(k, start, size) =
                         IF size - Off(start, k) < InBufSize THEN size - Off(start, k) ELSE InBufSize
           /\ LinkSize(k, start, size) \in Int
<1>1. LinkSize(1, start, size) = start
  BY DEF LinkSize
<1>2. ASSUME k > 1
      PROVE LinkSize(k, start, size) =
              IF size - Off(start, k) < InBufSize THEN size - Off(start, k) ELSE InBufSize
  <2>1. PICK m \in Nat : m = (k - 2) * InBufSize
    <3>1. k - 2 \in Nat
      BY <1>2
    <3> QED  BY <3>1, Sizes, Multiples
  <2>2. Off(start, k) = start + m /\ size - start - m = size - (start + m)
    BY <1>2, <2>1 DEF Off
  <2> QED  BY <1>2, <2>1, <2>2 DEF LinkSize
<1>3. Off(start, k) \in Nat
  BY OffIs
<1>4. LinkSize(k, start, size) \in Int
  <2>1. CASE k = 1
    BY <1>1, <2>1
  <2>2. CASE k # 1
    BY <1>2, <1>3, <2>2, Sizes
  <2> QED  BY <2>1, <2>2
<1> QED  BY <1>1, <1>2, <1>4

\* A link is put in its place.
PutLink(inBuf, k, w) == IF k <= Len(inBuf) THEN [inBuf EXCEPT ![k] = w] ELSE Append(inBuf, w)

IsPut(new, inBuf, k, w) ==
    /\ new \in Seq(Seq(Nat)) /\ Len(new) \in Nat /\ Len(new) >= k /\ Len(new) >= Len(inBuf)
    /\ DOMAIN new = 1..Len(new)
    /\ new[k] = w /\ \A i \in 1..Len(new) : i # k => i \in 1..Len(inBuf) /\ new[i] = inBuf[i]
LEMMA PutLinkIs ==
    ASSUME NEW inBuf \in Seq(Seq(Nat)), NEW k \in Nat, k > 0, k <= Len(inBuf) + 1, NEW w \in Seq(Nat),
           NEW new, new = PutLink(inBuf, k, w)
    PROVE  IsPut(new, inBuf, k, w)
<1>1. Len(inBuf) \in Nat
  BY LenProperties
<1>2. CASE k <= Len(inBuf)
  <2>1. new = [inBuf EXCEPT ![k] = w] /\ k \in 1..Len(inBuf)
    BY <1>1, <1>2 DEF PutLink
  <2>2. /\ [inBuf EXCEPT ![k] = w] \in Seq(Seq(Nat)) /\ Len([inBuf EXCEPT ![k] = w]) = Len(inBuf)
        /\ \A j \in 1 .. Len(inBuf) : [inBuf EXCEPT ![k] = w][j] = IF j = k THEN w ELSE inBuf[j]
    BY <2>1, ExceptSeq
  <2>3. DOMAIN new = 1..Len(new)
    BY LenProperties
  <2> QED  BY <1>1, <1>2, <2>1, <2>2, <2>3 DEF IsPut
<1>3. CASE ~ (k <= Len(inBuf))
  <2>1. new = Append(inBuf, w) /\ k = Len(inBuf) + 1
    BY <1>1, <1>3 DEF PutLink
  <2>2. /\ new \in Seq(Seq(Nat)) /\ Len(new) = Len(inBuf) + 1 /\ new[Len(inBuf) + 1] = w
        /\ \A j \in 1 .. Len(inBuf) : new[j] = inBuf[j]
    BY <2>1, AppendProperties
  <2>3. DOMAIN new = 1..Len(new)
    BY LenProperties
  <2> QED  BY <1>1, <1>3, <2>1, <2>2, <2>3 DEF IsPut
<1> QED  BY <1>2, <1>3

HoldsPlaces(w, n, b) == w \in Seq(Nat) /\ n <= Len(w) /\ \A j \in 1..n : w[j] = b + j

\* The first link of a block, whatever the others were.
LEMMA FirstLink ==
    ASSUME NEW inBuf \in Seq(Seq(Nat)), NEW w, NEW n \in Nat, NEW a \in Nat, HoldsPlaces(w, n, a)
    PROVE  Linked(PutLink(inBuf, 1, w), n, n, a)
<1>1. PICK new : new = PutLink(inBuf, 1, w)
  OBVIOUS
<1>2. /\ new \in Seq(Seq(Nat)) /\ Len(new) \in Nat /\ Len(new) >= 1 /\ new[1] = w
      /\ DOMAIN new = 1..Len(new)
  <2>1. Len(inBuf) \in Nat /\ w \in Seq(Nat)
    BY LenProperties DEF HoldsPlaces
  <2>2. PICK k \in Nat : k = 1 /\ k > 0 /\ k <= Len(inBuf) + 1
    BY <2>1
  <2>3. new = PutLink(inBuf, k, w)
    BY <1>1, <2>2
  <2>4. /\ new \in Seq(Seq(Nat)) /\ Len(new) \in Nat /\ Len(new) >= k /\ new[k] = w
        /\ DOMAIN new = 1..Len(new)
    BY <2>1, <2>2, <2>3, PutLinkIs, SMTT(30) DEF IsPut
  <2> QED  BY <2>2, <2>4
<1>3. ASSUME NEW k \in 1..Len(new), NEW j \in 1..LinkSize(k, n, n)
      PROVE  j <= Len(new[k]) /\ new[k][j] = a + Off(n, k) + j
  <2>1. CASE k = 1
    <3>1. j \in 1..n /\ Off(n, k) = 0
      BY <2>1, LinkSizeIs, OffIs
    <3>2. n <= Len(w) /\ w[j] = a + j /\ Len(w) \in Nat
      BY <3>1, LenProperties DEF HoldsPlaces
    <3> QED  BY <1>2, <2>1, <3>1, <3>2
  <2>2. CASE k # 1
    <3>1. k \in Nat /\ k > 1
      BY <1>2, <2>2
    <3>2. Off(n, k) \in Nat /\ Off(n, k) >= n
      BY <3>1, OffIs
    <3>3. LinkSize(k, n, n) = IF n - Off(n, k) < InBufSize THEN n - Off(n, k) ELSE InBufSize
      BY <3>1, LinkSizeIs
    <3> QED  BY <3>2, <3>3, Sizes
  <2> QED  BY <2>1, <2>2
<1>4. n <= Off(n, Len(new) + 1)
  <2>1. Len(new) + 1 \in Nat /\ Len(new) + 1 > 1
    BY <1>2
  <2> QED  BY <2>1, OffIs
<1>5. LinksHold(new, n, n, a)
  BY <1>2, <1>3, <1>4 DEF LinksHold
<1>6. n \in 0..n
  OBVIOUS
<1> QED  BY <1>1, <1>5, <1>6, Zenon DEF Linked

\* One more link, after others that are full.
OneMore(inBuf, start, size, a, k, w, n) ==
    /\ a \in Nat /\ Linked(inBuf, start, size, a)
    /\ k \in Nat /\ k > 1 /\ k <= Len(inBuf) + 1 /\ size = Off(start, k) /\ size > 0
    /\ n \in Nat /\ n <= InBufSize /\ HoldsPlaces(w, n, a + size)
LEMMA NextLink ==
    ASSUME NEW inBuf \in Seq(Seq(Nat)), NEW start \in Nat, NEW size \in Nat, NEW a \in Nat, NEW k \in Nat,
           NEW w \in Seq(Nat), NEW n \in Nat,
           OneMore(inBuf, start, size, a, k, w, n)
    PROVE  Linked(PutLink(inBuf, k, w), start, size + n, a)
<1>l. Linked(inBuf, start, size, a)
  BY DEF OneMore
<1>w. HoldsPlaces(w, n, a + size)
  BY DEF OneMore
<1>k. k \in Nat /\ k > 1 /\ k > 0 /\ k <= Len(inBuf) + 1
  BY DEF OneMore
<1>n. a \in Nat /\ n \in Nat /\ n <= InBufSize
  BY DEF OneMore
<1>e. size = Off(start, k)
  BY DEF OneMore
<1>0. inBuf \in Seq(Seq(Nat)) /\ size \in Nat /\ start \in Nat /\ start <= size /\ start > 0
  <2>1. inBuf \in Seq(Seq(Nat)) /\ size \in Nat /\ start \in 0..size /\ (size > 0 => start > 0)
    BY <1>l DEF Linked, LinksHold
  <2>2. size > 0
    BY DEF OneMore
  <2> QED  BY <2>1, <2>2
<1>t. PICK total \in Nat : total = size + n
  OBVIOUS
<1>1. PICK new : new = PutLink(inBuf, k, w)
  OBVIOUS
<1>2. /\ new \in Seq(Seq(Nat)) /\ Len(new) \in Nat /\ Len(new) >= k /\ new[k] = w
      /\ DOMAIN new = 1..Len(new)
      /\ \A i \in 1..Len(new) : i # k => i \in 1..Len(inBuf) /\ new[i] = inBuf[i]
  <2>1. Len(inBuf) \in Nat /\ w \in Seq(Nat) /\ k > 0
    BY <1>0, <1>k, <1>w, LenProperties DEF HoldsPlaces
  <2>2. inBuf \in Seq(Seq(Nat)) /\ w \in Seq(Nat)
    BY <1>0, <2>1
  <2>3. k > 0 /\ k <= Len(inBuf) + 1
    BY <1>k
  <2>4. IsPut(new, inBuf, k, w)
    BY <1>1, <2>3, PutLinkIs
  <2> QED  BY <2>4, Zenon DEF IsPut
<1>3. ASSUME NEW i \in 1..Len(new), NEW j \in 1..LinkSize(i, start, total)
      PROVE  j <= Len(new[i]) /\ new[i][j] = a + Off(start, i) + j
  <2>00. i \in Nat /\ i > 0
    BY <1>2
  <2>0. i \in Nat /\ i > 0 /\ Off(start, i) \in Nat
    BY <1>0, <1>n, <2>00, OffIs
  <2>1. CASE i < k
    <3>1. i \in 1..Len(inBuf) /\ new[i] = inBuf[i]
      BY <1>2, <1>k, <2>1
    <3>2. j \in 1..LinkSize(i, start, size)
      <4>1. CASE i = 1
        BY <1>0, <2>0, <4>1, LinkSizeIs
      <4>2. CASE i # 1
        <5>1. i > 1 /\ i + 1 <= k /\ i + 1 > 0 /\ i + 1 \in Nat
          BY <1>k, <2>0, <2>1, <4>2
        <5>2. Off(start, i + 1) = Off(start, i) + InBufSize /\ Off(start, i + 1) <= Off(start, k)
          BY <1>0, <1>k, <2>0, <5>1, OffIs, OffGrows
        <5>3. size - Off(start, i) >= InBufSize
          BY <1>0, <1>e, <2>0, <5>2, Sizes, SMTT(30)
        <5>4. /\ LinkSize(i, start, size) =
                   IF size - Off(start, i) < InBufSize THEN size - Off(start, i) ELSE InBufSize
              /\ LinkSize(i, start, total) =
                   IF total - Off(start, i) < InBufSize THEN total - Off(start, i) ELSE InBufSize
          BY <5>1, LinkSizeIs
        <5> QED  BY <1>0, <1>n, <1>t, <2>0, <5>3, <5>4, Sizes
      <4> QED  BY <4>1, <4>2
    <3>3. DOMAIN inBuf = 1..Len(inBuf)
      BY <1>0, LenProperties
    <3> QED  BY <1>l, <3>1, <3>2, <3>3 DEF Linked, LinksHold
  <2>2. CASE i = k
    <3>1. LinkSize(i, start, total) = n
      <4>1. LinkSize(k, start, total) =
              IF total - Off(start, k) < InBufSize THEN total - Off(start, k) ELSE InBufSize
        BY <1>k, LinkSizeIs
      <4>2. total - Off(start, k) = n
        BY <1>0, <1>n, <1>t, <1>e, <2>0, <2>2
      <4> QED  BY <1>n, <2>2, <4>1, <4>2, Sizes
    <3>2. j \in 1..n
      BY <3>1
    <3>3. j <= Len(w) /\ w[j] = a + size + j
      <4>1. n <= Len(w) /\ w[j] = (a + size) + j /\ Len(w) \in Nat
        BY <1>w, <3>2, LenProperties DEF HoldsPlaces
      <4> QED  BY <1>0, <1>n, <3>2, <4>1
    <3> QED  BY <1>2, <1>e, <2>2, <3>3
  <2>3. CASE i > k
    <3>1. k + 1 \in Nat /\ k + 1 > 0 /\ k + 1 <= i /\ i > 1
      BY <1>k, <2>0, <2>3
    <3>2. Off(start, k + 1) = Off(start, k) + InBufSize /\ Off(start, k + 1) <= Off(start, i)
      BY <1>0, <1>k, <2>0, <3>1, OffIs, OffGrows
    <3>3. LinkSize(i, start, total) =
             IF total - Off(start, i) < InBufSize THEN total - Off(start, i) ELSE InBufSize
      BY <3>1, LinkSizeIs
    <3>4. PICK o \in Nat : o = Off(start, i) /\ size + InBufSize <= o
      BY <1>0, <1>e, <2>0, <3>2, Sizes
    <3>5. total - o <= 0 /\ total - o < InBufSize
      BY <1>0, <1>n, <1>t, <3>4, Sizes
    <3>6. LinkSize(i, start, total) = total - o
      BY <3>3, <3>4, <3>5
    <3> QED  BY <3>4, <3>5, <3>6
  <2> QED  BY <1>k, <2>0, <2>1, <2>2, <2>3
<1>4. total <= Off(start, Len(new) + 1)
  <2>1. k + 1 \in Nat /\ k + 1 > 0 /\ k + 1 <= Len(new) + 1 /\ Len(new) + 1 \in Nat
    BY <1>2, <1>k
  <2>2. Off(start, k + 1) = Off(start, k) + InBufSize /\ Off(start, k + 1) <= Off(start, Len(new) + 1)
    BY <1>0, <1>k, <2>1, OffIs, OffGrows
  <2>3. Off(start, Len(new) + 1) \in Nat
    BY <1>0, <1>k, <2>1, OffIs
  <2> QED  BY <1>0, <1>n, <1>t, <1>e, <2>2, <2>3, Sizes
<1>5. start \in 0..total /\ total \in Nat
  BY <1>0, <1>n, <1>t
<1>6. LinksHold(new, start, total, a)
  BY <1>2, <1>3, <1>4, <1>5 DEF LinksHold
<1>7. (total > 0 => start > 0) /\ total = size + n
  BY <1>0, <1>t
<1> QED  BY <1>0, <1>1, <1>5, <1>6, <1>7, Zenon DEF Linked

\* The link from which a block is decoded next.
IsNext(inBuf, start, size, a, k) ==
    /\ a \in Nat /\ Linked(inBuf, start, size, a) /\ k \in Nat /\ k > 0 /\ Off(start, k) < size
NextHolds(inBuf, start, size, a, k, n) ==
    /\ n \in Nat /\ n > 0 /\ Off(start, k) \in Nat /\ Off(start, k) + n <= size
    /\ Off(start, k) + n # size => Off(start, k) + n = Off(start, k + 1)
    /\ SubSeq(inBuf[k], 1, n) = Place(a + Off(start, k), n)
LEMMA LinkIs ==
    ASSUME NEW inBuf, NEW start \in Nat, NEW size \in Nat, NEW a \in Nat, NEW k \in Nat,
           IsNext(inBuf, start, size, a, k), NEW n, n = LinkSize(k, start, size)
    PROVE  NextHolds(inBuf, start, size, a, k, n)
<1>l. Linked(inBuf, start, size, a)
  BY DEF IsNext
<1>k. k \in Nat /\ k > 0 /\ Off(start, k) < size /\ a \in Nat
  BY DEF IsNext
<1>n. n = LinkSize(k, start, size)
  OBVIOUS
<1>0. inBuf \in Seq(Seq(Nat)) /\ size \in Nat /\ start \in Nat /\ start <= size /\ start > 0
  <2>1. inBuf \in Seq(Seq(Nat)) /\ size \in Nat /\ start \in 0..size /\ (size > 0 => start > 0)
    BY <1>l DEF Linked, LinksHold
  <2>2. start \in Nat
    BY <2>1
  <2>3. Off(start, k) \in Nat
    BY <1>k, <2>2, OffIs
  <2>4. size > 0
    BY <1>k, <2>1, <2>3
  <2> QED  BY <2>1, <2>4
<1>1. Len(inBuf) \in Nat /\ DOMAIN inBuf = 1..Len(inBuf) /\ Off(start, k) \in Nat
  BY <1>0, <1>k, LenProperties, OffIs
<1>2. k \in 1..Len(inBuf)
  <2>1. CASE k > Len(inBuf)
    <3>1. Off(start, Len(inBuf) + 1) <= Off(start, k) /\ Off(start, Len(inBuf) + 1) \in Nat
      <4>1. Len(inBuf) + 1 \in Nat /\ Len(inBuf) + 1 > 0 /\ Len(inBuf) + 1 <= k
        BY <1>1, <1>k, <2>1
      <4> QED  BY <1>0, <1>k, <4>1, OffGrows, OffIs
    <3>2. size <= Off(start, Len(inBuf) + 1)
      BY <1>l, <1>0, <1>1, <1>k DEF Linked, LinksHold
    <3> QED  BY <1>0, <1>1, <1>k, <3>1, <3>2
  <2> QED  BY <1>1, <1>k, <2>1
<1>4. /\ n \in Nat /\ n > 0 /\ Off(start, k) + n <= size
      /\ Off(start, k) + n # size => Off(start, k) + n = Off(start, k + 1)
  <2>1. CASE k = 1
    <3>1. n = start /\ Off(start, k) = 0 /\ Off(start, k + 1) = start
      BY <1>n, <2>1, LinkSizeIs, OffIs
    <3> QED  BY <1>0, <3>1
  <2>2. CASE k # 1
    <3>1. n = IF size - Off(start, k) < InBufSize THEN size - Off(start, k) ELSE InBufSize
      <4>1. k > 1
        BY <1>k, <2>2
      <4> QED  BY <1>n, <4>1, LinkSizeIs
    <3>2. Off(start, k + 1) = Off(start, k) + InBufSize
      BY <1>0, <1>k, <2>2, OffIs
    <3> QED  BY <1>0, <1>1, <1>k, <3>1, <3>2, Sizes
  <2> QED  BY <2>1, <2>2
<1>5. \A j \in 1..n : j <= Len(inBuf[k]) /\ inBuf[k][j] = a + Off(start, k) + j
  BY <1>l, <1>1, <1>2, <1>n DEF Linked, LinksHold
<1>6. inBuf[k] \in Seq(Nat) /\ Len(inBuf[k]) \in Nat
  BY <1>0, <1>2, ElementOfSeq, LenProperties
<1>7. SubSeq(inBuf[k], 1, n) = Place(a + Off(start, k), n)
  <2>1. PICK b \in Nat : b = a + Off(start, k)
    BY <1>1, <1>k
  <2>2. \A j \in 1..n : inBuf[k][j] = b + j /\ inBuf[k][j] \in Nat
    BY <1>4, <1>5, <2>1
  <2>3. /\ SubSeq(inBuf[k], 1, n) \in Seq(Nat) /\ Len(SubSeq(inBuf[k], 1, n)) = (IF 1 <= n THEN n - 1 + 1 ELSE 0)
        /\ \A i \in 1..(n - 1 + 1) : SubSeq(inBuf[k], 1, n)[i] = inBuf[k][1 + i - 1]
    BY <1>4, <2>2, SubSeqProperties
  <2>4. (IF 1 <= n THEN n - 1 + 1 ELSE 0) = n /\ n - 1 + 1 = n /\ \A i \in 1..n : 1 + i - 1 = i
    BY <1>4
  <2>5. Place(b, n) \in Seq(Nat) /\ Len(Place(b, n)) = n /\ \A i \in 1..n : Place(b, n)[i] = b + i
    BY <1>4, PlaceIs
  <2>6. Len(SubSeq(inBuf[k], 1, n)) = n /\ \A i \in 1..n : SubSeq(inBuf[k], 1, n)[i] = Place(b, n)[i]
    BY <2>2, <2>3, <2>4, <2>5
  <2>7. SubSeq(inBuf[k], 1, n) = Place(b, n)
    BY <2>3, <2>5, <2>6, SeqEqual
  <2> QED  BY <2>1, <2>7
<1> QED  BY <1>1, <1>4, <1>7 DEF NextHolds

-----------------------------------------------------------------------------
(* A link is read: what is in it. *)

ReadingAt(t, a) ==
    /\ t \in Threads /\ a \in Where /\ CallInv /\ ReadInv
    /\ BlockRead(threads[t].inBuf, me[t], coders[t], a)

ReadArgs(t, n, error) ==
    \/ (readRes = OK \/ HasCross(t)) /\ n = ToRead /\ error = FALSE
    \/ ~ HasCross(t) /\ n \in (IF readRes = OK THEN 0..ToRead ELSE {0}) /\ error = TRUE

ReadData(t, n) == IF HasCross(t) THEN crossBlock ELSE Place(readProcessed, n)

\* The data is the N places after b; finish says that they are the last.
DataIs(t, b, N, data, finish, error) ==
    /\ N \in Nat /\ b \in Nat /\ b + N <= Len(stream) /\ data = Place(b, N)
    /\ HasCross(t) => /\ me[t].link = 1 /\ b + N = readProcessed /\ N > 0
                      /\ finish = readWasFinished
    /\ ~ HasCross(t) => /\ b = readProcessed /\ N <= InBufSize
                        /\ finish <=> error \/ N # InBufSize
                        /\ readWasFinished => N = 0
                        /\ ~ error /\ N # InBufSize => b + N = Len(stream)
                        /\ me[t].link = 1 => crossBlock = <<>>

LEMMA CallIs ==
    ASSUME CallInv
    PROVE  stream \in Seq(Symbols) /\ Len(stream) \in Nat /\ outSize \in Nat
  BY WalkStart DEF CallInv

LEMMA ToReadIs ==
    ASSUME CallInv, ReadInv
    PROVE  /\ readProcessed \in Nat /\ readProcessed <= Len(stream)
           /\ ToRead \in Nat /\ ToRead <= InBufSize /\ readProcessed + ToRead <= Len(stream)
           /\ ToRead # InBufSize => readProcessed + ToRead = Len(stream)
           /\ readProcessed = Len(stream) => ToRead = 0
  BY CallIs, Sizes DEF ToRead, ReadInv, Where

LEMMA ReadsPlaces ==
    ASSUME NEW t, NEW a, ReadingAt(t, a), NEW n, NEW error, ReadArgs(t, n, error),
           NEW b, b = a + me[t].size, NEW data, data = ReadData(t, n),
           NEW finish, finish = IF HasCross(t) THEN me[t].finish ELSE error \/ Len(data) # InBufSize
    PROVE  \E N : DataIs(t, b, N, data, finish, error)
<1>a. a \in Nat /\ CallInv /\ ReadInv /\ me[t].size \in Nat
  <2>1. CallInv /\ ReadInv /\ a \in Where /\ BlockRead(threads[t].inBuf, me[t], coders[t], a)
    BY DEF ReadingAt
  <2>2. me[t].size \in Nat
    BY <2>1 DEF BlockRead, Linked, LinksHold
  <2> QED  BY <2>1, <2>2, CallIs DEF Where
<1>r. ReadNothing(me[t], a) \/ ReadSome(threads[t].inBuf, me[t], coders[t], a)
  BY DEF ReadingAt, BlockRead
<1>n. ReadArgs(t, n, error)
  OBVIOUS
<1>d. data = ReadData(t, n)
  OBVIOUS
<1>f. finish = IF HasCross(t) THEN me[t].finish ELSE error \/ Len(data) # InBufSize
  OBVIOUS
<1>b. b = a + me[t].size
  OBVIOUS
<1>t. /\ readProcessed \in Nat /\ readProcessed <= Len(stream)
      /\ ToRead \in Nat /\ ToRead <= InBufSize /\ readProcessed + ToRead <= Len(stream)
      /\ ToRead # InBufSize => readProcessed + ToRead = Len(stream)
      /\ readProcessed = Len(stream) => ToRead = 0
      /\ Len(stream) \in Nat
  BY <1>a, ToReadIs, CallIs
<1>1. CASE HasCross(t)
  <2>1. me[t].link = 1 /\ crossBlock # <<>>
    BY <1>1 DEF HasCross
  <2>2. ReadNothing(me[t], a)
    BY <1>r, <2>1 DEF ReadSome
  <2>3. me[t].size = 0 /\ me[t].finish = readWasFinished /\ Contiguous(a)
    BY <2>2 DEF ReadNothing, Fresh
  <2>4. PICK m \in 0..readProcessed : crossBlock = Place(a, m) /\ a + m = readProcessed
    BY <2>3 DEF Contiguous
  <2>5. m \in Nat /\ m # 0
    <3>1. m \in Nat
      BY <2>4, <1>t
    <3> QED  BY <2>1, <2>4, <3>1, NoPlace
  <2>6. b = a /\ data = Place(b, m) /\ finish = readWasFinished
    BY <1>1, <1>a, <1>b, <1>d, <1>f, <2>3, <2>4 DEF ReadData
  <2>7. DataIs(t, b, m, data, finish, error)
    BY <1>1, <1>a, <1>t, <2>1, <2>4, <2>5, <2>6 DEF DataIs
  <2> QED  BY <2>7
<1>2. CASE ~ HasCross(t)
  <2>1. data = Place(readProcessed, n)
    BY <1>2, <1>d DEF ReadData
  <2>2. /\ n \in Nat /\ n <= ToRead
        /\ readWasFinished => n = 0
        /\ ~ error => n = ToRead
    <3>1. CASE readRes = OK /\ n = ToRead /\ error = FALSE
      <4>1. readWasFinished => readProcessed = Len(stream)
        BY <1>a, <3>1 DEF ReadInv
      <4> QED  BY <1>t, <3>1, <4>1
    <3>2. CASE readRes = OK /\ n \in 0..ToRead /\ error = TRUE
      <4>1. readWasFinished => readProcessed = Len(stream)
        BY <1>a, <3>2 DEF ReadInv
      <4> QED  BY <1>t, <3>2, <4>1
    <3>3. CASE n = 0 /\ error = TRUE
      BY <1>t, <3>3
    <3> QED  BY <1>2, <1>n, <3>1, <3>2, <3>3 DEF ReadArgs
  <2>3. b = readProcessed /\ (me[t].link = 1 => crossBlock = <<>>)
    <3>1. CASE ReadNothing(me[t], a)
      <4>1. me[t].link = 1 /\ me[t].size = 0 /\ Contiguous(a)
        BY <3>1 DEF ReadNothing, Fresh
      <4>2. crossBlock = <<>>
        BY <1>2, <4>1 DEF HasCross
      <4>3. PICK m \in 0..readProcessed : crossBlock = Place(a, m) /\ a + m = readProcessed
        BY <4>1 DEF Contiguous
      <4>4. m \in Nat
        BY <4>3, <1>t
      <4>5. m = 0
        BY <1>a, <4>2, <4>3, <4>4, EmptyPlace
      <4> QED  BY <1>a, <1>b, <4>1, <4>2, <4>3, <4>5
    <3>2. CASE ReadSome(threads[t].inBuf, me[t], coders[t], a)
      <4>1. a + me[t].size = readProcessed /\ me[t].link > 1 /\ me[t].link \in Nat
        BY <3>2 DEF ReadSome
      <4> QED  BY <1>b, <4>1
    <3> QED  BY <1>r, <3>1, <3>2
  <2>4. Len(data) = n
    BY <1>t, <2>1, <2>2, PlaceIs
  <2>5. finish <=> error \/ n # InBufSize
    BY <1>2, <1>f, <2>4
  <2>6. n <= InBufSize /\ b + n <= Len(stream) /\ (~ error /\ n # InBufSize => b + n = Len(stream))
    BY <1>t, <2>2, <2>3, Sizes
  <2>7. b \in Nat /\ data = Place(b, n)
    BY <1>t, <2>1, <2>3
  <2>8. DataIs(t, b, n, data, finish, error)
    BY <1>2, <2>2, <2>3, <2>5, <2>6, <2>7, Zenon DEF DataIs
  <2> QED  BY <2>8
<1> QED  BY <1>1, <1>2

LEMMA PlaceParts ==
    ASSUME NEW b \in Nat, NEW n \in Nat, NEW used \in Nat, used <= n
    PROVE  /\ SubSeq(Place(b, n), 1, used) = Place(b, used)
           /\ SubSeq(Place(b, n), used + 1, n) = Place(b + used, n - used)
<1>1. \A i \in 1..n : Place(b, n)[i] = b + i /\ Place(b, n)[i] \in Nat
  <2>1. \A i \in 1..n : Place(b, n)[i] = b + i
    BY PlaceIs
  <2>2. \A i \in 1..n : b + i \in Nat
    OBVIOUS
  <2> QED  BY <2>1, <2>2
<1>2. SubSeq(Place(b, n), 1, used) = Place(b, used)
  <2>1. \A i \in 1..used : Place(b, n)[i] \in Nat
    BY <1>1
  <2>2. /\ SubSeq(Place(b, n), 1, used) \in Seq(Nat)
        /\ Len(SubSeq(Place(b, n), 1, used)) = (IF 1 <= used THEN used - 1 + 1 ELSE 0)
        /\ \A i \in 1..(used - 1 + 1) : SubSeq(Place(b, n), 1, used)[i] = Place(b, n)[1 + i - 1]
    BY <2>1, SubSeqProperties
  <2>3. (IF 1 <= used THEN used - 1 + 1 ELSE 0) = used /\ used - 1 + 1 = used /\ \A i \in 1..used : 1 + i - 1 = i
    OBVIOUS
  <2>4. Place(b, used) \in Seq(Nat) /\ Len(Place(b, used)) = used /\ \A i \in 1..used : Place(b, used)[i] = b + i
    BY PlaceIs
  <2>5. \A i \in 1..used : SubSeq(Place(b, n), 1, used)[i] = Place(b, used)[i]
    BY <1>1, <2>2, <2>3, <2>4
  <2>6. Len(SubSeq(Place(b, n), 1, used)) = Len(Place(b, used)) /\ Len(SubSeq(Place(b, n), 1, used)) = used
    BY <2>2, <2>3, <2>4
  <2> QED  BY <2>2, <2>4, <2>5, <2>6, SeqEqual
<1>3. SubSeq(Place(b, n), used + 1, n) = Place(b + used, n - used)
  <2>0. PICK m \in Nat, c \in Nat : m = n - used /\ c = b + used /\ n = used + m
    <3>1. n - used \in Nat /\ b + used \in Nat /\ n = used + (n - used)
      OBVIOUS
    <3> QED  BY <3>1
  <2>1. \A i \in (used + 1)..n : Place(b, n)[i] \in Nat
    BY <1>1
  <2>2. /\ SubSeq(Place(b, n), used + 1, n) \in Seq(Nat)
        /\ Len(SubSeq(Place(b, n), used + 1, n)) = (IF used + 1 <= n THEN n - (used + 1) + 1 ELSE 0)
        /\ \A i \in 1..(n - (used + 1) + 1) : SubSeq(Place(b, n), used + 1, n)[i] = Place(b, n)[(used + 1) + i - 1]
    BY <2>1, SubSeqProperties
  <2>3. (IF used + 1 <= n THEN n - (used + 1) + 1 ELSE 0) = m /\ n - (used + 1) + 1 = m
        /\ \A i \in 1..m : (used + 1) + i - 1 = used + i /\ used + i \in 1..n
    BY <2>0
  <2>4. Place(c, m) \in Seq(Nat) /\ Len(Place(c, m)) = m /\ \A i \in 1..m : Place(c, m)[i] = c + i
    BY PlaceIs
  <2>5. \A i \in 1..m : SubSeq(Place(b, n), used + 1, n)[i] = Place(c, m)[i]
    <3> TAKE i \in 1..m
    <3>1. SubSeq(Place(b, n), used + 1, n)[i] = Place(b, n)[used + i] /\ used + i \in 1..n
      BY <2>2, <2>3
    <3>2. Place(b, n)[used + i] = b + (used + i)
      BY <1>1, <3>1
    <3>3. Place(c, m)[i] = c + i
      BY <2>4
    <3> QED  BY <2>0, <3>1, <3>2, <3>3
  <2>6. Len(SubSeq(Place(b, n), used + 1, n)) = Len(Place(c, m)) /\ Len(SubSeq(Place(b, n), used + 1, n)) = m
    BY <2>2, <2>3, <2>4
  <2>7. SubSeq(Place(b, n), used + 1, n) = Place(c, m)
    BY <2>2, <2>4, <2>5, <2>6, SeqEqual
  <2> QED  BY <2>0, <2>7
<1> QED  BY <1>2, <1>3

LEMMA Overwritten ==
    ASSUME NEW old \in Seq(Nat), NEW b \in Nat, NEW k \in Nat, NEW m \in Nat, m <= k
    PROVE  HoldsPlaces(Overwrite(old, Place(b, k)), m, b) /\ Overwrite(old, Place(b, k)) \in Seq(Nat)
<1>1. Place(b, k) \in Seq(Nat) /\ Len(Place(b, k)) = k /\ \A i \in 1..k : Place(b, k)[i] = b + i
  BY PlaceIs
<1>2. PICK rest : rest = SubSeq(old, k + 1, Len(old))
  OBVIOUS
<1>3. rest \in Seq(Nat) /\ Len(rest) \in Nat
  <2>1. Len(old) \in Nat /\ \A i \in 1..Len(old) : old[i] \in Nat
    BY LenProperties, ElementOfSeq
  <2>2. \A i \in (k + 1)..Len(old) : old[i] \in Nat
    BY <2>1
  <2>3. rest \in Seq(Nat)
    BY <1>2, <2>1, <2>2, SubSeqProperties
  <2> QED  BY <2>3, LenProperties
<1>4. Overwrite(old, Place(b, k)) = Place(b, k) \o rest
  BY <1>1, <1>2 DEF Overwrite
<1>5. PICK s : s \in Seq(Nat) /\ s = Place(b, k) /\ Len(s) = k
  BY <1>1
<1>6. /\ s \o rest \in Seq(Nat) /\ Len(s \o rest) = k + Len(rest)
      /\ \A i \in 1..(k + Len(rest)) : (s \o rest)[i] = IF i <= k THEN s[i] ELSE rest[i - k]
  <2>1. s \in Seq(Nat) /\ rest \in Seq(Nat) /\ Len(s) = k
    BY <1>3, <1>5
  <2> QED  BY <2>1, ConcatProperties
<1>7. m <= Len(s \o rest) /\ \A j \in 1..m : (s \o rest)[j] = b + j
  BY <1>1, <1>3, <1>5, <1>6
<1> QED  BY <1>4, <1>5, <1>6, <1>7 DEF HoldsPlaces

\* What the thread has in its links then.
LinkPut(t, w) == IF HasLink(t) THEN [threads[t].inBuf EXCEPT ![me[t].link] = w]
                 ELSE Append(threads[t].inBuf, w)
OldLink(t) == IF HasLink(t) THEN threads[t].inBuf[me[t].link] ELSE <<>>

LEMMA LinkRead ==
    ASSUME NEW t, NEW a, ReadingAt(t, a), NEW b, b = a + me[t].size,
           NEW N, NEW data, NEW finish, NEW error, DataIs(t, b, N, data, finish, error),
           NEW k \in Nat, NEW m \in Nat, m <= k, m <= N,
           NEW w, w = Overwrite(OldLink(t), Place(b, k))
    PROVE  /\ Linked(LinkPut(t, w), IF me[t].link = 1 THEN m ELSE me[t].start, me[t].size + m, a)
           /\ me[t].link \in Nat /\ me[t].link > 0 /\ me[t].link <= Len(LinkPut(t, w))
           /\ Len(LinkPut(t, w)) \in Nat
           /\ me[t].link > 1 => me[t].size = Off(me[t].start, me[t].link)
<1>r. BlockRead(threads[t].inBuf, me[t], coders[t], a) /\ a \in Where /\ CallInv
  BY DEF ReadingAt
<1>l. Linked(threads[t].inBuf, me[t].start, me[t].size, a)
  BY <1>r DEF BlockRead
<1>d. N \in Nat /\ b \in Nat /\ (HasCross(t) => me[t].link = 1) /\ (~ HasCross(t) => N <= InBufSize)
  BY DEF DataIs
<1>m. m <= N /\ m <= k /\ w = Overwrite(OldLink(t), Place(b, k)) /\ b = a + me[t].size
  OBVIOUS
<1>1. PICK inBuf \in Seq(Seq(Nat)) : inBuf = threads[t].inBuf
  BY <1>l DEF Linked, LinksHold
<1>2. PICK size \in Nat, start \in Nat : size = me[t].size /\ start = me[t].start /\ (size > 0 => start > 0)
  <2>1. me[t].size \in Nat /\ me[t].start \in 0..me[t].size /\ (me[t].size > 0 => me[t].start > 0)
    BY <1>l DEF Linked, LinksHold
  <2> QED  BY <2>1
<1>3. a \in Nat
  BY <1>r, CallIs DEF Where
<1>4. PICK link \in Nat : /\ link = me[t].link /\ link > 0 /\ link <= Len(inBuf) + 1
                          /\ link = 1 => size = 0
                          /\ link > 1 => size = Off(start, link) /\ size > 0
  <2>0. Len(inBuf) \in Nat
    BY LenProperties
  <2>1. CASE ReadNothing(me[t], a)
    BY <1>2, <2>0, <2>1 DEF ReadNothing
  <2>2. CASE ReadSome(threads[t].inBuf, me[t], coders[t], a)
    <3>1. /\ me[t].link \in Nat /\ me[t].link > 1 /\ me[t].link <= Len(threads[t].inBuf) + 1
          /\ me[t].size > 0 /\ me[t].size = Off(me[t].start, me[t].link)
      BY <2>2 DEF ReadSome
    <3> QED  BY <1>1, <1>2, <3>1
  <2> QED  BY <1>r, <2>1, <2>2 DEF BlockRead
<1>5. OldLink(t) \in Seq(Nat)
  <2>1. CASE HasLink(t)
    <3>1. link \in 1..Len(inBuf) /\ OldLink(t) = inBuf[link]
      BY <1>1, <1>4, <2>1 DEF HasLink, OldLink
    <3> QED  BY <3>1, ElementOfSeq
  <2>2. CASE ~ HasLink(t)
    BY <2>2, EmptySeq DEF OldLink
  <2> QED  BY <2>1, <2>2
<1>6. HoldsPlaces(w, m, b) /\ w \in Seq(Nat)
  BY <1>5, <1>d, <1>m, Overwritten
<1>7. LinkPut(t, w) = PutLink(inBuf, link, w)
  BY <1>1, <1>4 DEF LinkPut, PutLink, HasLink
<1>p. link <= Len(LinkPut(t, w)) /\ Len(LinkPut(t, w)) \in Nat
  <2>1. PICK new : new = PutLink(inBuf, link, w)
    OBVIOUS
  <2>2. IsPut(new, inBuf, link, w)
    BY <1>4, <1>6, <2>1, PutLinkIs
  <2> QED  BY <1>7, <2>1, <2>2 DEF IsPut
<1>8. CASE link = 1
  <2>1. b = a
    BY <1>2, <1>3, <1>4, <1>8, <1>m
  <2>2. Linked(PutLink(inBuf, 1, w), m, m, a)
    BY <1>3, <1>6, <2>1, FirstLink
  <2>3. me[t].size + m = m
    BY <1>2, <1>4, <1>8
  <2> QED  BY <1>4, <1>7, <1>8, <1>p, <2>2, <2>3
<1>9. CASE link # 1
  <2>1. m <= InBufSize
    BY <1>4, <1>9, <1>d, <1>m, Sizes
  <2>2. link > 1 /\ size = Off(start, link) /\ size > 0
    BY <1>4, <1>9
  <2>3. HoldsPlaces(w, m, a + size)
    BY <1>2, <1>6, <1>m
  <2>4. OneMore(inBuf, start, size, a, link, w, m)
    BY <1>1, <1>2, <1>3, <1>4, <1>l, <2>1, <2>2, <2>3, Zenon DEF OneMore
  <2>5. Linked(PutLink(inBuf, link, w), start, size + m, a)
    BY <1>3, <1>6, <2>4, NextLink
  <2> QED  BY <1>2, <1>4, <1>7, <1>9, <1>p, <2>2, <2>5
<1> QED  BY <1>8, <1>9

-----------------------------------------------------------------------------
(* What the parser makes of a link. *)

\* Of nothing it makes nothing, whatever may come out.
LEMMA ParseNothing ==
    ASSUME NEW dec \in Decs, NEW dicPos \in Nat, NEW symbols, Len(symbols) = 0, NEW limit
    PROVE  Parse(dec, dicPos, symbols, limit) = ParseStart(dec, dicPos)
<1> DEFINE start == [dec |-> dec, dicPos |-> dicPos, used |-> 0, point |-> NoPoint, status |-> "more"]
           Rec(f) == [k \in 0..Len(symbols) |->
                        IF k = 0 THEN [dec |-> dec, dicPos |-> dicPos, used |-> 0, point |-> NoPoint, status |-> "more"]
                        ELSE ParseOne(f[k - 1], symbols[k], limit)]
<1>1. PICK f : f = [k \in 0..0 |-> start]
  OBVIOUS
<1>2. f = Rec(f)
  BY <1>1
<1>3. PICK g : g = Rec(g) /\ Parse(dec, dicPos, symbols, limit) = WithoutNextHeader(Reverted(g[Len(symbols)]))
  BY <1>2, Zenon DEF Parse, Folded
<1>4. g[0] = start
  BY <1>3
<1>5. WithoutNextHeader(Reverted(start)) = start
  BY DEF WithoutNextHeader, Reverted
<1>6. Parse(dec, dicPos, symbols, limit) = WithoutNextHeader(Reverted(start))
  BY <1>3, <1>4
<1> QED  BY <1>5, <1>6 DEF ParseStart

\* The coder of the thread as the parser finds it.
BaseCoder(t) ==
    IF me[t].link = 1
    THEN [NewCoder EXCEPT !.outBuf = coders[t].outBuf, !.outBufSize = coders[t].outBufSize]
    ELSE coders[t]
CallLimit ==
    LET rem == outSize - outProcessed_Parse IN IF OutBlockMax >= rem THEN rem ELSE OutBlockMax
SymbolsOf(data) == [k \in DOMAIN data |-> stream[data[k]]]
ParseResult(t, data) == Parse(BaseCoder(t).dec, BaseCoder(t).dicPos, SymbolsOf(data), CallLimit)

StateOf(status) ==
    CASE status = "full" -> "OVERFLOW"
      [] status = "more" -> "CONTINUE"
      [] status = "block" -> "NEW"
      [] OTHER -> "END"

\* The coder after the parser: r is what it found, size what was parsed before.
CoderIs(c, r, size) ==
    /\ Fields(c) /\ c.dec = r.dec /\ c.dicPos = r.dicPos /\ c.parseStatus = r.status
    /\ c.state = StateOf(r.status) /\ c.inPreSize = size + r.used
    /\ r.status # "full" => c.outPreSize = r.dicPos
    /\ c.codeRes = OK /\ c.inCodeSize = 0 /\ c.outCodeSize = 0

\* What was found in the N places after b, in a block that begins after a.
ParseIs(r, dec, a, b, N) ==
    /\ r \in ParseAccs /\ r.used <= N
    /\ \/ N = 0 /\ r = ParseStart(dec, 0) /\ NothingLeft /\ a = b
       \/ /\ Proper(stream, a) /\ outProcessed_Parse = Count(stream, a)
          /\ LiveFrom(stream, a, b + 1) /\ Room(a) /\ BlockLimit(a) \in Nat
          /\ ParseGives(r, stream, a, b, dec, BlockLimit(a), N)

LEMMA Symbols1 ==
    ASSUME CallInv, NEW b \in Nat, NEW N \in Nat, b + N <= Len(stream)
    PROVE  /\ Len(SymbolsOf(Place(b, N))) = N
           /\ \A k \in 1..N : SymbolsOf(Place(b, N))[k] = stream[b + k]
<1>1. DOMAIN Place(b, N) = 1..N /\ \A k \in 1..N : Place(b, N)[k] = b + k
  BY PlaceIs
<1>2. SymbolsOf(Place(b, N)) = [k \in 1..N |-> stream[b + k]]
  BY <1>1 DEF SymbolsOf
<1>3. \A k \in 1..N : stream[b + k] \in Symbols
  <2>1. \A k \in 1..N : b + k \in 1..Len(stream)
    BY CallIs
  <2> QED  BY <2>1, CallIs, WalkStart
<1>4. SymbolsOf(Place(b, N)) \in [1..N -> Symbols]
  BY <1>2, <1>3
<1>5. SymbolsOf(Place(b, N)) \in Seq(Symbols)
  BY <1>4, SeqDef
<1> QED  BY <1>2, <1>4, <1>5, LenProperties

LEMMA LimitIs ==
    ASSUME CallInv, NEW a \in Where, Room(a), outProcessed_Parse = Count(stream, a)
    PROVE  CallLimit = BlockLimit(a) /\ BlockLimit(a) \in Nat
<1>1. outSize \in Nat /\ Count(stream, a) \in Nat /\ Count(stream, a) <= outSize
  BY CallIs, WalkTypes DEF Room, Where
<1> QED  BY <1>1, Sizes DEF CallLimit, BlockLimit

BaseIs(t, size) ==
    LET c == BaseCoder(t)
    IN  /\ Fields(c) /\ c.dec \in Decs /\ c.dicPos \in Nat /\ c.inPreSize = size
        /\ c.codeRes = OK /\ c.inCodeSize = 0 /\ c.outCodeSize = 0

LEMMA NewCoderIs ==
    ASSUME NEW buf \in Seq(Nat), NEW n \in Nat,
           NEW c, c = [NewCoder EXCEPT !.outBuf = buf, !.outBufSize = n]
    PROVE  /\ Fields(c) /\ c.dec = NewDecoder /\ c.dicPos = 0 /\ c.inPreSize = 0
           /\ c.codeRes = OK /\ c.inCodeSize = 0 /\ c.outCodeSize = 0
<1>1. PICK e \in Seq(Nat) : e = <<>>
  BY EmptySeq
<1>2. NewCoder = [dec |-> NewDecoder, dicPos |-> 0, parseStatus |-> "more", state |-> "CONTINUE",
             inPreSize |-> 0, outPreSize |-> 0, inCodeSize |-> 0, outCodeSize |-> 0,
             codeRes |-> OK, outBuf |-> e, outBufSize |-> 0]
  BY <1>1 DEF NewCoder
<1> QED  BY <1>2 DEF Fields

LEMMA ParsesNothing ==
    ASSUME NEW t, NEW a, ReadingAt(t, a), NEW N, NEW data, NEW finish, NEW error,
           DataIs(t, a, N, data, finish, error), ReadNothing(me[t], a)
    PROVE  /\ BaseCoder(t).dec = NewDecoder /\ BaseIs(t, 0)
           /\ ParseIs(ParseResult(t, data), NewDecoder, a, a, N)
<1>r. CallInv /\ a \in Where /\ Fields(coders[t])
  BY DEF ReadingAt, BlockRead
<1>d. N \in Nat /\ a \in Nat /\ data = Place(a, N) /\ a + N <= Len(stream)
  BY DEF DataIs
<1>n. me[t].link = 1 /\ Fresh(a)
  BY DEF ReadNothing
<1>s. stream \in Seq(Symbols) /\ Len(stream) \in Nat /\ outSize \in Nat /\ a \in 0..Len(stream)
  BY <1>r, CallIs DEF Where
<1>c. /\ BaseCoder(t).dec = NewDecoder /\ BaseCoder(t).dicPos = 0 /\ NewDecoder \in Decs
      /\ BaseIs(t, 0)
  <2>1. coders[t].outBuf \in Seq(Nat) /\ coders[t].outBufSize \in Nat
    BY <1>r DEF Fields
  <2>2. BaseCoder(t) = [NewCoder EXCEPT !.outBuf = coders[t].outBuf, !.outBufSize = coders[t].outBufSize]
    BY <1>n DEF BaseCoder
  <2>3. NewDecoder \in Decs
    BY DEF NewDecoder, Decs, States
  <2>4. PICK buf \in Seq(Nat), m \in Nat : buf = coders[t].outBuf /\ m = coders[t].outBufSize
    BY <2>1
  <2>5. PICK c : c = [NewCoder EXCEPT !.outBuf = buf, !.outBufSize = m]
    OBVIOUS
  <2>6. BaseCoder(t) = c
    BY <2>2, <2>4, <2>5
  <2>7. /\ Fields(c) /\ c.dec = NewDecoder /\ c.dicPos = 0 /\ c.inPreSize = 0
        /\ c.codeRes = OK /\ c.inCodeSize = 0 /\ c.outCodeSize = 0
    BY <2>5, NewCoderIs
  <2> QED  BY <2>3, <2>6, <2>7 DEF BaseIs
<1>y. Len(SymbolsOf(data)) = N /\ \A k \in 1..N : SymbolsOf(data)[k] = stream[a + k]
  BY <1>r, <1>d, Symbols1
<1>p. ParseResult(t, data) = Parse(NewDecoder, 0, SymbolsOf(data), CallLimit)
  BY <1>c DEF ParseResult
<1>1. CASE Proper(stream, a) /\ outProcessed_Parse = Count(stream, a)
  <2>1. Room(a)
    BY <1>n DEF Fresh
  <2>2. CallLimit = BlockLimit(a) /\ BlockLimit(a) \in Nat
    BY <1>1, <1>r, <2>1, LimitIs
  <2>3. State(stream, a) = "CONTROL" /\ Count(stream, a) \in Nat
    BY <1>1, <1>s, WalkTypes DEF Proper
  <2>4. LiveFrom(stream, a, a + 1)
    BY <1>d, <2>3 DEF LiveFrom, Live
  <2>5. GoesOn(stream, a, a, BlockLimit(a), a, 0)
    BY <1>s, <2>2, <2>3, <2>4 DEF GoesOn
  <2>6. LikeDec(stream, NewDecoder, a)
    BY <1>1 DEF LikeDec
  <2>7. ParsesFrom(stream, a, a, NewDecoder, 0, SymbolsOf(data), BlockLimit(a))
    BY <1>c, <1>d, <1>s, <1>y, <2>2, <2>3, <2>5, <2>6 DEF ParsesFrom, Live
  <2>8. ParseGives(ParseResult(t, data), stream, a, a, NewDecoder, BlockLimit(a), N)
    BY <1>p, <1>y, <2>2, <2>7, ParseWalk
  <2>9. ParseResult(t, data) \in ParseAccs /\ ParseResult(t, data).used <= N
    BY <2>8 DEF ParseGives
  <2> QED  BY <1>1, <1>c, <2>1, <2>2, <2>4, <2>8, <2>9 DEF ParseIs
<1>2. CASE NothingLeft
  <2>1. ~ HasCross(t) /\ readWasFinished
    BY <1>2 DEF NothingLeft, HasCross
  <2>2. N = 0
    BY <2>1 DEF DataIs
  <2>3. ParseResult(t, data) = ParseStart(NewDecoder, 0)
    BY <1>c, <1>p, <1>y, <2>2, ParseNothing
  <2>4. ParseStart(NewDecoder, 0) \in ParseAccs /\ ParseStart(NewDecoder, 0).used = 0
    BY <1>c DEF ParseStart, ParseAccs, Statuses, NoPoint, Points
  <2> QED  BY <1>2, <1>c, <2>2, <2>3, <2>4 DEF ParseIs
<1> QED  BY <1>1, <1>2, <1>n DEF Fresh

LEMMA ParsesMore ==
    ASSUME NEW t, NEW a, ReadingAt(t, a), NEW b, b = a + me[t].size,
           NEW N, NEW data, NEW finish, NEW error,
           DataIs(t, b, N, data, finish, error), ReadSome(threads[t].inBuf, me[t], coders[t], a)
    PROVE  BaseIs(t, me[t].size) /\ ParseIs(ParseResult(t, data), BaseCoder(t).dec, a, b, N)
<1>r. CallInv /\ a \in Where /\ Fields(coders[t])
  BY DEF ReadingAt, BlockRead
<1>d. N \in Nat /\ b \in Nat /\ data = Place(b, N) /\ b + N <= Len(stream)
  BY DEF DataIs
<1>n. /\ me[t].link > 1 /\ me[t].link \in Nat /\ Parsing(coders[t], a, me[t].size)
      /\ Room(a) /\ Proper(stream, a) /\ outProcessed_Parse = Count(stream, a)
  BY DEF ReadSome
<1>b. b = a + me[t].size
  OBVIOUS
<1>s. stream \in Seq(Symbols) /\ Len(stream) \in Nat /\ outSize \in Nat /\ a \in 0..Len(stream)
  BY <1>r, CallIs DEF Where
<1>g. /\ GoesOn(stream, a, a, BlockLimit(a), b, coders[t].dicPos) /\ coders[t].dec = Dec(stream, b)
      /\ coders[t].inPreSize = me[t].size
      /\ coders[t].codeRes = OK /\ coders[t].inCodeSize = 0 /\ coders[t].outCodeSize = 0
  BY <1>n, <1>b DEF Parsing
<1>y. Len(SymbolsOf(data)) = N /\ \A k \in 1..N : SymbolsOf(data)[k] = stream[b + k]
  BY <1>r, <1>d, Symbols1
<1>1. CallLimit = BlockLimit(a) /\ BlockLimit(a) \in Nat
  BY <1>n, <1>r, LimitIs
<1>2. /\ b \in a..Len(stream) /\ LiveFrom(stream, a, b + 1) /\ b \in 0..Len(stream)
      /\ coders[t].dicPos = Count(stream, b) - Count(stream, a) /\ coders[t].dicPos <= BlockLimit(a)
      /\ State(stream, b) = "DATA" => coders[t].dicPos < BlockLimit(a)
  BY <1>g, <1>s DEF GoesOn
<1>3. Dec(stream, b) \in Decs /\ coders[t].dicPos \in Nat
  <2>1. Count(stream, a) \in Nat /\ Count(stream, b) \in Nat /\ Count(stream, a) <= Count(stream, b)
        /\ Dec(stream, b) \in Decs
    BY <1>2, <1>s, WalkTypes, OutGrows
  <2> QED  BY <1>2, <2>1
<1>4. Live(stream, b) /\ LiveFrom(stream, b, b + 1)
  BY <1>2, <1>d, <1>s DEF LiveFrom
<1>5. GoesOn(stream, a, b, BlockLimit(a), b, coders[t].dicPos)
  BY <1>2, <1>4, <1>s DEF GoesOn
<1>6. LikeDec(stream, Dec(stream, b), b)
  BY DEF LikeDec
<1>7. a \in 0..b
  BY <1>2, <1>s
<1>8. ParsesFrom(stream, a, b, Dec(stream, b), coders[t].dicPos, SymbolsOf(data), BlockLimit(a))
  BY <1>d, <1>s, <1>y, <1>1, <1>2, <1>3, <1>4, <1>5, <1>6, <1>7 DEF ParsesFrom
<1>c. BaseCoder(t) = coders[t]
  BY <1>n DEF BaseCoder
<1>9. ParseResult(t, data) = Parse(Dec(stream, b), coders[t].dicPos, SymbolsOf(data), BlockLimit(a))
  BY <1>1, <1>c, <1>g DEF ParseResult
<1>10. ParseGives(ParseResult(t, data), stream, a, b, Dec(stream, b), BlockLimit(a), N)
  BY <1>9, <1>y, <1>8, ParseWalk
<1>11. ParseResult(t, data) \in ParseAccs /\ ParseResult(t, data).used <= N
  BY <1>10 DEF ParseGives
<1>12. ParseIs(ParseResult(t, data), BaseCoder(t).dec, a, b, N)
  BY <1>1, <1>2, <1>10, <1>11, <1>c, <1>g, <1>n DEF ParseIs
<1> QED  BY <1>3, <1>12, <1>c, <1>g, <1>r DEF BaseIs

-----------------------------------------------------------------------------
(* One turn of the loop over the links. *)

LEMMA CallGives ==
    ASSUME NEW t, NEW data, NEW size \in Nat, BaseIs(t, size),
           NEW r \in ParseAccs, r = ParseResult(t, data), NEW p, p = ParseCall(t, data)
    PROVE  p.used = r.used /\ p.dicPos = r.dicPos /\ CoderIs(p.coder, r, size)
<1>1. PICK base : base = BaseCoder(t)
  OBVIOUS
<1>2. /\ Fields(base) /\ base.inPreSize = size
      /\ base.codeRes = OK /\ base.inCodeSize = 0 /\ base.outCodeSize = 0
  BY <1>1 DEF BaseIs
<1> DEFINE coder == [base EXCEPT !.dec = r.dec, !.dicPos = r.dicPos, !.parseStatus = r.status,
                                 !.state = StateOf(r.status), !.inPreSize = @ + r.used,
                                 !.outPreSize = IF StateOf(r.status) = "OVERFLOW" THEN @ ELSE r.dicPos]
<1>3. p = [used |-> r.used, dicPos |-> r.dicPos, coder |-> coder]
  BY <1>1 DEF ParseCall, BaseCoder, ParseResult, SymbolsOf, CallLimit, StateOf
<1>4. r.status \in Statuses /\ r.used \in Nat
  BY DEF ParseAccs
<1>5. DOMAIN base = {"dec", "dicPos", "parseStatus", "state", "inPreSize", "outPreSize", "inCodeSize",
                     "outCodeSize", "codeRes", "outBuf", "outBufSize"}
  BY <1>2 DEF Fields, NewCoder
<1>6. DOMAIN coder = DOMAIN NewCoder /\ coder.outBuf \in Seq(Nat) /\ coder.outBufSize \in Nat
  BY <1>2, <1>5 DEF Fields
<1>7. /\ coder.dec = r.dec /\ coder.dicPos = r.dicPos /\ coder.parseStatus = r.status
      /\ coder.state = StateOf(r.status) /\ coder.inPreSize = size + r.used
      /\ coder.codeRes = OK /\ coder.inCodeSize = 0 /\ coder.outCodeSize = 0
  BY <1>2, <1>5
<1>8. r.status # "full" => StateOf(r.status) # "OVERFLOW"
  BY <1>4 DEF Statuses, StateOf
<1>9. r.status # "full" => coder.outPreSize = r.dicPos
  BY <1>5, <1>8
<1>10. CoderIs(coder, r, size)
  BY <1>6, <1>7, <1>9 DEF CoderIs, Fields
<1>11. p.coder = coder /\ p.used = r.used /\ p.dicPos = r.dicPos
  BY <1>3
<1> QED  BY <1>10, <1>11

FinishOf(t, n, error) == IF HasCross(t) THEN me[t].finish ELSE error \/ Len(ReadData(t, n)) # InBufSize

\* A thread that reads N places after b, those of its block being after a, of
\* which r is made.
TurnAt(t, a, b, size, n, N, finish, error, r) ==
    /\ ReadingAt(t, a) /\ DataIs(t, b, N, ReadData(t, n), finish, error)
    /\ size \in Nat /\ size = me[t].size /\ a \in Nat /\ b = a + size /\ N \in Nat /\ b \in Nat
    /\ finish = FinishOf(t, n, error) /\ finish \in BOOLEAN
    /\ r = ParseResult(t, ReadData(t, n)) /\ BaseIs(t, size)
    /\ ParseIs(r, BaseCoder(t).dec, a, b, N)

LEMMA TurnIsAt ==
    ASSUME NEW t, NEW a, ReadingAt(t, a), NEW n, NEW error \in BOOLEAN, ReadArgs(t, n, error)
    PROVE  \E b, size, N, finish, r : TurnAt(t, a, b, size, n, N, finish, error, r)
<1>r. /\ CallInv /\ a \in Where /\ BlockRead(threads[t].inBuf, me[t], coders[t], a)
      /\ ReadNothing(me[t], a) \/ ReadSome(threads[t].inBuf, me[t], coders[t], a)
      /\ ReadInv
  BY DEF ReadingAt, BlockRead
<1>1. a \in Nat /\ me[t].size \in Nat
  BY <1>r, CallIs DEF BlockRead, Linked, LinksHold, Where
<1>2. PICK size \in Nat, b \in Nat : size = me[t].size /\ b = a + size
  <2>1. a + me[t].size \in Nat
    BY <1>1
  <2> QED  BY <1>1, <2>1
<1>3. PICK data, finish : data = ReadData(t, n) /\ finish = FinishOf(t, n, error)
  OBVIOUS
<1>f. finish = IF HasCross(t) THEN me[t].finish ELSE error \/ Len(data) # InBufSize
  BY <1>3 DEF FinishOf
<1>4. PICK N : DataIs(t, b, N, data, finish, error)
  <2>1. b = a + me[t].size
    BY <1>2
  <2> QED  BY <1>3, <1>f, <2>1, ReadsPlaces
<1>5. N \in Nat
  BY <1>4 DEF DataIs
<1>6. finish \in BOOLEAN
  BY <1>4, <1>r, <1>f DEF DataIs, ReadInv
<1>7. BaseIs(t, size) /\ ParseIs(ParseResult(t, data), BaseCoder(t).dec, a, b, N)
  <2>1. CASE ReadNothing(me[t], a)
    <3>1. size = 0 /\ b = a
      BY <1>1, <1>2, <2>1 DEF ReadNothing
    <3> QED  BY <1>4, <2>1, <3>1, ParsesNothing
  <2>2. CASE ReadSome(threads[t].inBuf, me[t], coders[t], a)
    <3>1. b = a + me[t].size
      BY <1>2
    <3> QED  BY <1>2, <1>4, <2>2, <3>1, ParsesMore
  <2> QED  BY <1>r, <2>1, <2>2
<1>8. TurnAt(t, a, b, size, n, N, finish, error, ParseResult(t, data))
  BY <1>1, <1>2, <1>3, <1>4, <1>5, <1>6, <1>7 DEF TurnAt
<1> QED  BY <1>8

-----------------------------------------------------------------------------
(* How a turn ends. *)

ReadOn(t, N, finish, error) ==
    IF HasCross(t) THEN readProcessed' = readProcessed /\ readWasFinished' = readWasFinished /\ readRes' = readRes
    ELSE /\ readProcessed' = readProcessed + N
         /\ readWasFinished' = (readWasFinished \/ finish)
         /\ readRes' = IF error THEN "READ" ELSE readRes

\* The block was interrupted.
TurnStops(t) ==
    /\ ~ HasCross(t) /\ InterruptedAt(me[t].blockIndex)
    /\ pc' = [pc EXCEPT ![t] = "pass"] /\ coders' = coders /\ outProcessed_Parse' = outProcessed_Parse
    /\ crossBlock' = crossBlock
    /\ me'[t].interrupted = TRUE /\ me'[t].finish = TRUE

\* m places more are of the block, which the thread ...
TurnParses(t, c, m, l, l2) ==
    /\ coders' = [coders EXCEPT ![t] = c]
    /\ l2.needWrite = TRUE /\ l2.interrupted = l.interrupted /\ l2.threading = l.threading
    /\ l2.codeRes = l.codeRes /\ l2.size = l.size + m /\ l2.start = IF l.link = 1 THEN m ELSE l.start

\* ... goes on to read, ...
TurnGoesOn(r, N, finish, m, l, l2) ==
    /\ r.status = "more" /\ ~ finish /\ m = N
    /\ l2.link = l.link + 1 /\ l2.finish = FALSE /\ l2.needCode = l.needCode
    /\ l2.allocError = l.allocError /\ l2.overflow = l.overflow
    /\ crossBlock' = <<>>
\* ... or which is too large, ...
TurnOverflows(r, N, m, l2) ==
    /\ r.status = "full" /\ m = N /\ l2.finish = TRUE /\ l2.overflow = TRUE /\ crossBlock' = <<>>
\* ... or has no memory for what is left, ...
TurnLoses(t, r, N, m, l2) ==
    /\ r.status \in {"block", "more"} /\ m = N /\ r.used < N /\ ~ HasCross(t)
    /\ l2.finish = TRUE /\ l2.allocError = TRUE /\ crossBlock' = <<>>
\* ... or which is read, with or without something left.
TurnReads(t, b, r, N, finish, m, l, l2) ==
    /\ r.status = "more" => finish
    /\ r.status # "full" /\ m = r.used
    /\ l2.needCode = TRUE /\ l2.allocError = l.allocError /\ l2.overflow = l.overflow
    /\ IF m = N THEN /\ crossBlock' = <<>>
                     /\ l2.finish = (finish \/ r.status \in {"mark", "error"})
       ELSE /\ l2.finish = (r.status \in {"mark", "error"})
            /\ crossBlock' = IF r.status \in {"mark", "error"} /\ ~ HasCross(t) THEN <<>>
                             ELSE Place(b + m, N - m)

TurnEnds(t, b, r, N, finish, c, m, l, l2) ==
    /\ TurnParses(t, c, m, l, l2)
    /\ pc' = [pc EXCEPT ![t] = IF TurnGoesOn(r, N, finish, m, l, l2) THEN "link" ELSE "pass"]
    /\ outProcessed_Parse' =
         outProcessed_Parse + (IF r.status \in {"block", "mark", "error"} THEN r.dicPos ELSE 0)
    /\ \/ TurnGoesOn(r, N, finish, m, l, l2)
       \/ TurnOverflows(r, N, m, l2)
       \/ TurnLoses(t, r, N, m, l2)
       \/ TurnReads(t, b, r, N, finish, m, l, l2)

LinksGoOn(l, inBuf) ==
    /\ l.link \in Nat /\ l.link > 0 /\ l.link <= Len(inBuf) /\ Len(inBuf) \in Nat
    /\ l.link > 1 => l.size = Off(l.start, l.link)
Turned(t, a, b, size, N, finish, error, r, c, m) ==
    /\ ReadOn(t, N, finish, error)
    /\ me'[t].blockIndex = me[t].blockIndex
    /\ \A u \in Threads : u # t => me'[u] = me[u] /\ threads'[u] = threads[u]
    /\ threads'[t].inBuf \in Seq(Seq(Nat))
    /\ \/ TurnStops(t)
       \/ /\ TurnEnds(t, b, r, N, finish, c, m, me[t], me'[t])
          /\ CoderIs(c, r, size) /\ m \in Nat /\ m <= N
          /\ Linked(threads'[t].inBuf, me'[t].start, me'[t].size, a)
          /\ LinksGoOn(me[t], threads'[t].inBuf)

\* What ReadLinkWith does, with names for its parts.
TurnBody(t, error, cross, data, size, finish, used, dicPos, coder, state) ==
    LET l == me[t]
        fromCross == HasCross(t)
        all == IF fromCross THEN size ELSE l.size + size
        start == IF l.link = 1 THEN size ELSE l.start
        stopped == ~ fromCross /\ InterruptedAt(l.blockIndex)
        rest == SubSeq(data, used + 1, size)
        ends == state # "CONTINUE" \/ finish
        partial == ends /\ rest # <<>> /\ state # "OVERFLOW"
        kept == IF state = "OVERFLOW" \/ ~ fromCross THEN data ELSE SubSeq(data, 1, used)
        read == [l EXCEPT !.size = all, !.start = start, !.finish = finish]
        parsed == [read EXCEPT !.needWrite = TRUE]
        lost == partial /\ ~ fromCross /\ state # "END" /\ ~ cross
    IN  /\ threads' = [threads EXCEPT ![t].inBuf =
                         LinkPut(t, Overwrite(OldLink(t), IF stopped THEN data ELSE kept))]
        /\ IF fromCross THEN UNCHANGED <<readProcessed, readWasFinished, readRes>>
           ELSE /\ readProcessed' = readProcessed + size
                /\ readWasFinished' = (readWasFinished \/ finish)
                /\ readRes' = IF error THEN "READ" ELSE readRes
        /\ IF stopped THEN UNCHANGED <<coders, outProcessed_Parse>>
           ELSE /\ coders' = [coders EXCEPT ![t] = coder]
                /\ outProcessed_Parse' = outProcessed_Parse + (IF state \in {"NEW", "END"} THEN dicPos ELSE 0)
        /\ crossBlock' =
             CASE stopped -> crossBlock
               [] ~ stopped /\ partial /\ state = "END" /\ fromCross -> rest
               [] ~ stopped /\ partial /\ state # "END" /\ ~ lost -> rest
               [] OTHER -> <<>>
        /\ Goto(t, IF stopped \/ ends THEN "pass" ELSE "link")
        /\ me' = [me EXCEPT ![t] =
             CASE stopped -> [read EXCEPT !.interrupted = TRUE, !.finish = TRUE]
               [] ~ stopped /\ state = "OVERFLOW" ->
                    [parsed EXCEPT !.finish = TRUE, !.overflow = TRUE]
               [] ~ stopped /\ ~ ends -> [parsed EXCEPT !.link = @ + 1]
               [] ~ stopped /\ state # "OVERFLOW" /\ ends /\ ~ partial ->
                    [parsed EXCEPT !.needCode = TRUE, !.finish = @ \/ state = "END"]
               [] ~ stopped /\ partial /\ state = "END" ->
                    [parsed EXCEPT !.needCode = TRUE, !.finish = TRUE,
                                   !.size = @ - Len(rest),
                                   !.start = IF l.link = 1 THEN used ELSE @]
               [] ~ stopped /\ partial /\ state # "END" /\ lost ->
                    [parsed EXCEPT !.needCode = TRUE, !.finish = TRUE, !.allocError = TRUE]
               [] OTHER ->
                    [parsed EXCEPT !.needCode = TRUE, !.finish = FALSE,
                                   !.size = @ - Len(rest),
                                   !.start = IF l.link = 1 THEN used ELSE @]]

LEMMA TurnUnfolds ==
    ASSUME NEW t, NEW a, NEW b, NEW size, NEW n, NEW N, NEW finish, NEW error, NEW r,
           TurnAt(t, a, b, size, n, N, finish, error, r), NEW cross, ReadLinkWith(t, n, error, cross)
    PROVE  \E c : /\ CoderIs(c, r, size) /\ r \in ParseAccs /\ r.used <= N
                  /\ TurnBody(t, error, cross, Place(b, N), N, finish, r.used, r.dicPos, c, StateOf(r.status))
<1>1. /\ size \in Nat /\ BaseIs(t, size) /\ r = ParseResult(t, ReadData(t, n)) /\ N \in Nat /\ b \in Nat
      /\ finish = FinishOf(t, n, error) /\ DataIs(t, b, N, ReadData(t, n), finish, error)
      /\ ParseIs(r, BaseCoder(t).dec, a, b, N)
  BY Zenon DEF TurnAt
<1>2. r \in ParseAccs /\ r.used <= N
  BY <1>1 DEF ParseIs
<1>d. PICK data : data = ReadData(t, n)
  OBVIOUS
<1>p. PICK p : p = ParseCall(t, data)
  OBVIOUS
<1>3. p.used = r.used /\ p.dicPos = r.dicPos /\ CoderIs(p.coder, r, size)
  BY <1>1, <1>2, <1>d, <1>p, CallGives
<1>4. data = Place(b, N) /\ Len(data) = N
  BY <1>1, <1>d, PlaceIs DEF DataIs
<1>5. p.coder.state = StateOf(r.status)
  BY <1>3 DEF CoderIs
<1> DEFINE read == IF HasCross(t) THEN crossBlock ELSE Place(readProcessed, n)
           call == ParseCall(t, read)
<1>6. TurnBody(t, error, cross, read, Len(read),
               IF HasCross(t) THEN me[t].finish ELSE error \/ Len(read) # InBufSize,
               call.used, call.dicPos, call.coder, call.coder.state)
  BY Zenon DEF ReadLinkWith, TurnBody, LinkPut, OldLink
<1>7. read = data /\ call = p
  BY <1>d, <1>p DEF ReadData
<1>8. finish = IF HasCross(t) THEN me[t].finish ELSE error \/ Len(data) # InBufSize
  BY <1>1, <1>d, Zenon DEF FinishOf
<1> HIDE DEF read, call
<1>9. TurnBody(t, error, cross, data, Len(data),
               IF HasCross(t) THEN me[t].finish ELSE error \/ Len(data) # InBufSize,
               p.used, p.dicPos, p.coder, p.coder.state)
  BY <1>6, <1>7, Zenon
<1>10. TurnBody(t, error, cross, data, Len(data), finish, p.used, p.dicPos, p.coder, p.coder.state)
  BY <1>8, <1>9, Zenon
<1> QED  BY <1>2, <1>3, <1>4, <1>5, <1>10, Zenon

-----------------------------------------------------------------------------

LEMMA TurnLink ==
    ASSUME NEW t, NEW a, NEW b, NEW size, NEW n, NEW N, NEW finish, NEW error, NEW r,
           TurnAt(t, a, b, size, n, N, finish, error, r),
           NEW k \in Nat, NEW m \in Nat, m <= k, m <= N
    PROVE  /\ Linked(LinkPut(t, Overwrite(OldLink(t), Place(b, k))),
                     IF me[t].link = 1 THEN m ELSE me[t].start, me[t].size + m, a)
           /\ LinkPut(t, Overwrite(OldLink(t), Place(b, k))) \in Seq(Seq(Nat))
           /\ LinksGoOn(me[t], LinkPut(t, Overwrite(OldLink(t), Place(b, k))))
<1>1. ReadingAt(t, a) /\ DataIs(t, b, N, ReadData(t, n), finish, error) /\ b = a + me[t].size
  BY Zenon DEF TurnAt
<1>2. PICK w : w = Overwrite(OldLink(t), Place(b, k))
  OBVIOUS
<1>3. /\ Linked(LinkPut(t, w), IF me[t].link = 1 THEN m ELSE me[t].start, me[t].size + m, a)
      /\ me[t].link \in Nat /\ me[t].link > 0 /\ me[t].link <= Len(LinkPut(t, w))
      /\ Len(LinkPut(t, w)) \in Nat
      /\ me[t].link > 1 => me[t].size = Off(me[t].start, me[t].link)
  BY <1>1, <1>2, LinkRead
<1> QED  BY <1>2, <1>3 DEF Linked, LinksHold, LinksGoOn

\* The locals that a turn changes.
LocalsOf(l2, interrupted, finish, needCode, needWrite, allocError, over, link, start, size, l) ==
    /\ l2.interrupted = interrupted /\ l2.finish = finish /\ l2.needCode = needCode
    /\ l2.needWrite = needWrite /\ l2.allocError = allocError /\ l2.overflow = over
    /\ l2.link = link /\ l2.start = start /\ l2.size = size
    /\ l2.blockIndex = l.blockIndex /\ l2.threading = l.threading /\ l2.codeRes = l.codeRes

LEMMA LocalsRead ==
    ASSUME NEW l, DOMAIN l = DOMAIN NoLocals, NEW size, NEW start, NEW finish, NEW x, NEW y, NEW v,
           NEW read, read = [l EXCEPT !.size = size, !.start = start, !.finish = finish],
           NEW parsed, parsed = [read EXCEPT !.needWrite = TRUE]
    PROVE  /\ LocalsOf([read EXCEPT !.interrupted = TRUE, !.finish = TRUE],
                       TRUE, TRUE, l.needCode, l.needWrite, l.allocError, l.overflow, l.link, start, size, l)
           /\ LocalsOf([parsed EXCEPT !.finish = TRUE, !.overflow = TRUE],
                       l.interrupted, TRUE, l.needCode, TRUE, l.allocError, TRUE, l.link, start, size, l)
           /\ LocalsOf([parsed EXCEPT !.link = @ + 1],
                       l.interrupted, finish, l.needCode, TRUE, l.allocError, l.overflow, l.link + 1, start, size, l)
           /\ LocalsOf([parsed EXCEPT !.needCode = TRUE, !.finish = x],
                       l.interrupted, x, TRUE, TRUE, l.allocError, l.overflow, l.link, start, size, l)
           /\ LocalsOf([parsed EXCEPT !.needCode = TRUE, !.finish = x, !.size = @ - y,
                                      !.start = IF l.link = 1 THEN v ELSE @],
                       l.interrupted, x, TRUE, TRUE, l.allocError, l.overflow, l.link,
                       IF l.link = 1 THEN v ELSE start, size - y, l)
           /\ LocalsOf([parsed EXCEPT !.needCode = TRUE, !.finish = TRUE, !.allocError = TRUE],
                       l.interrupted, TRUE, TRUE, TRUE, TRUE, l.overflow, l.link, start, size, l)
<1>1. DOMAIN l = {"blockIndex", "interrupted", "finish", "needCode",
    "needWrite", "allocError", "overflow", "threading", "codeRes", "link", "start", "size",
    "inCodePos", "next"}
  BY Locals DEF LocalsAreThere
<1> QED  BY <1>1 DEF LocalsOf

\* What a turn does to the links and to what crosses over.
TurnPuts(t, data, cross) ==
    /\ threads' = [threads EXCEPT ![t].inBuf = LinkPut(t, Overwrite(OldLink(t), data))]
    /\ crossBlock' = cross
TurnTakes(t, c, dicPos, state, pcl, l2) ==
    /\ coders' = [coders EXCEPT ![t] = c]
    /\ outProcessed_Parse' = outProcessed_Parse + (IF state \in {"NEW", "END"} THEN dicPos ELSE 0)
    /\ pc' = [pc EXCEPT ![t] = pcl]
    /\ me' = [me EXCEPT ![t] = l2]

TurnRest(t, data, size, finish, used, state, cross, c, dicPos, l, read, parsed, rest) ==
    /\ state = "OVERFLOW" =>
         /\ TurnPuts(t, data, <<>>)
         /\ TurnTakes(t, c, dicPos, state, "pass", [parsed EXCEPT !.finish = TRUE, !.overflow = TRUE])
    /\ state = "CONTINUE" /\ ~ finish =>
         /\ TurnPuts(t, IF HasCross(t) THEN SubSeq(data, 1, used) ELSE data, <<>>)
         /\ TurnTakes(t, c, dicPos, state, "link", [parsed EXCEPT !.link = @ + 1])
    /\ state # "OVERFLOW" /\ (state # "CONTINUE" \/ finish) /\ rest = <<>> =>
         /\ TurnPuts(t, IF HasCross(t) THEN SubSeq(data, 1, used) ELSE data, <<>>)
         /\ TurnTakes(t, c, dicPos, state, "pass",
                      [parsed EXCEPT !.needCode = TRUE, !.finish = finish \/ state = "END"])
    /\ state = "END" /\ rest # <<>> =>
         /\ TurnPuts(t, IF HasCross(t) THEN SubSeq(data, 1, used) ELSE data,
                     IF HasCross(t) THEN rest ELSE <<>>)
         /\ TurnTakes(t, c, dicPos, state, "pass",
                      [parsed EXCEPT !.needCode = TRUE, !.finish = TRUE, !.size = @ - Len(rest),
                                     !.start = IF l.link = 1 THEN used ELSE @])
    /\ state \notin {"END", "OVERFLOW"} /\ (state # "CONTINUE" \/ finish) /\ rest # <<>>
         /\ ~ HasCross(t) /\ ~ cross =>
         /\ TurnPuts(t, data, <<>>)
         /\ TurnTakes(t, c, dicPos, state, "pass",
                      [parsed EXCEPT !.needCode = TRUE, !.finish = TRUE, !.allocError = TRUE])
    /\ state \notin {"END", "OVERFLOW"} /\ (state # "CONTINUE" \/ finish) /\ rest # <<>>
         /\ (HasCross(t) \/ cross) =>
         /\ TurnPuts(t, IF HasCross(t) THEN SubSeq(data, 1, used) ELSE data, rest)
         /\ TurnTakes(t, c, dicPos, state, "pass",
                      [parsed EXCEPT !.needCode = TRUE, !.finish = FALSE, !.size = @ - Len(rest),
                                     !.start = IF l.link = 1 THEN used ELSE @])

TurnSteps(t, error, cross, data, size, finish, used, dicPos, coder, state, l, rest, read, parsed) ==
    LET stopped == ~ HasCross(t) /\ InterruptedAt(l.blockIndex)
        ends == state # "CONTINUE" \/ finish
        partial == ends /\ rest # <<>> /\ state # "OVERFLOW"
        lost == partial /\ ~ HasCross(t) /\ state # "END" /\ ~ cross
        kept == IF state = "OVERFLOW" \/ ~ HasCross(t) THEN data ELSE SubSeq(data, 1, used)
    IN
        /\ threads' = [threads EXCEPT ![t].inBuf =
                           LinkPut(t, Overwrite(OldLink(t), IF stopped THEN data ELSE kept))]
        /\ IF HasCross(t) THEN UNCHANGED <<readProcessed, readWasFinished, readRes>>
             ELSE /\ readProcessed' = readProcessed + size
                  /\ readWasFinished' = (readWasFinished \/ finish)
                  /\ readRes' = IF error THEN "READ" ELSE readRes
        /\ IF stopped THEN UNCHANGED <<coders, outProcessed_Parse>>
             ELSE /\ coders' = [coders EXCEPT ![t] = coder]
                  /\ outProcessed_Parse' = outProcessed_Parse + (IF state \in {"NEW", "END"} THEN dicPos ELSE 0)
        /\ crossBlock' =
               CASE stopped -> crossBlock
                 [] ~ stopped /\ partial /\ state = "END" /\ HasCross(t) -> rest
                 [] ~ stopped /\ partial /\ state # "END" /\ ~ lost -> rest
                 [] OTHER -> <<>>
        /\ pc' = [pc EXCEPT ![t] = IF stopped \/ ends THEN "pass" ELSE "link"]
        /\ me' = [me EXCEPT ![t] =
               CASE stopped -> [read EXCEPT !.interrupted = TRUE, !.finish = TRUE]
                 [] ~ stopped /\ state = "OVERFLOW" ->
                      [parsed EXCEPT !.finish = TRUE, !.overflow = TRUE]
                 [] ~ stopped /\ ~ ends -> [parsed EXCEPT !.link = @ + 1]
                 [] ~ stopped /\ state # "OVERFLOW" /\ ends /\ ~ partial ->
                      [parsed EXCEPT !.needCode = TRUE, !.finish = @ \/ state = "END"]
                 [] ~ stopped /\ partial /\ state = "END" ->
                      [parsed EXCEPT !.needCode = TRUE, !.finish = TRUE,
                                     !.size = @ - Len(rest),
                                     !.start = IF l.link = 1 THEN used ELSE @]
                 [] ~ stopped /\ partial /\ state # "END" /\ lost ->
                      [parsed EXCEPT !.needCode = TRUE, !.finish = TRUE, !.allocError = TRUE]
                 [] OTHER ->
                      [parsed EXCEPT !.needCode = TRUE, !.finish = FALSE,
                                     !.size = @ - Len(rest),
                                     !.start = IF l.link = 1 THEN used ELSE @]]

TurnNames(t, data, size, finish, used, l, rest, all, start, read, parsed) ==
    /\ l = me[t] /\ rest = SubSeq(data, used + 1, size)
    /\ all = (IF HasCross(t) THEN size ELSE l.size + size)
    /\ start = (IF l.link = 1 THEN size ELSE l.start)
    /\ read = [l EXCEPT !.size = all, !.start = start, !.finish = finish]
    /\ parsed = [read EXCEPT !.needWrite = TRUE]
TurnGives(t, data, size, finish, error, used, state, cross, coder, dicPos, l, read, parsed, rest) ==
    /\ ~ HasCross(t) /\ InterruptedAt(l.blockIndex) =>
         /\ TurnPuts(t, data, crossBlock)
         /\ coders' = coders /\ outProcessed_Parse' = outProcessed_Parse
         /\ pc' = [pc EXCEPT ![t] = "pass"]
         /\ me' = [me EXCEPT ![t] = [read EXCEPT !.interrupted = TRUE, !.finish = TRUE]]
    /\ ~ (~ HasCross(t) /\ InterruptedAt(l.blockIndex)) =>
         TurnRest(t, data, size, finish, used, state, cross, coder, dicPos, l, read, parsed, rest)
    /\ ReadOn(t, size, finish, error)

LEMMA TurnCases ==
    ASSUME DOMAIN me = Threads, NEW t \in Threads, DOMAIN me[t] = DOMAIN NoLocals,
           NEW error, NEW cross \in BOOLEAN, NEW data, NEW size, NEW finish \in BOOLEAN, NEW used,
           NEW dicPos, NEW coder, NEW state,
           TurnBody(t, error, cross, data, size, finish, used, dicPos, coder, state),
           NEW l, NEW rest, NEW all, NEW start, NEW read, NEW parsed,
           TurnNames(t, data, size, finish, used, l, rest, all, start, read, parsed)
    PROVE  TurnGives(t, data, size, finish, error, used, state, cross, coder, dicPos, l, read, parsed, rest)
<1>n. /\ l = me[t] /\ rest = SubSeq(data, used + 1, size)
      /\ all = (IF HasCross(t) THEN size ELSE l.size + size)
      /\ start = (IF l.link = 1 THEN size ELSE l.start)
      /\ read = [l EXCEPT !.size = all, !.start = start, !.finish = finish]
      /\ parsed = [read EXCEPT !.needWrite = TRUE]
  BY DEF TurnNames
<1> DEFINE stopped == ~ HasCross(t) /\ InterruptedAt(l.blockIndex)
           ends == state # "CONTINUE" \/ finish
           partial == ends /\ rest # <<>> /\ state # "OVERFLOW"
           lost == partial /\ ~ HasCross(t) /\ state # "END" /\ ~ cross
           kept == IF state = "OVERFLOW" \/ ~ HasCross(t) THEN data ELSE SubSeq(data, 1, used)
<1>0. TurnSteps(t, error, cross, data, size, finish, used, dicPos, coder, state, l, rest, read, parsed)
  <2> DEFINE read0 == [me[t] EXCEPT !.size = IF HasCross(t) THEN size ELSE me[t].size + size,
                                    !.start = IF me[t].link = 1 THEN size ELSE me[t].start,
                                    !.finish = finish]
             parsed0 == [read0 EXCEPT !.needWrite = TRUE]
  <2>1. TurnSteps(t, error, cross, data, size, finish, used, dicPos, coder, state, me[t],
                  SubSeq(data, used + 1, size), read0, parsed0)
    BY Zenon DEF TurnBody, TurnSteps, Goto
  <2>2. read0 = read
    BY <1>n
  <2>3. parsed0 = parsed
    BY <1>n, <2>2
  <2> HIDE DEF read0, parsed0
  <2> QED  BY <1>n, <2>1, <2>2, <2>3, Zenon
<1>1. /\ threads' = [threads EXCEPT ![t].inBuf =
                         LinkPut(t, Overwrite(OldLink(t), IF stopped THEN data ELSE kept))]
      /\ IF HasCross(t) THEN UNCHANGED <<readProcessed, readWasFinished, readRes>>
           ELSE /\ readProcessed' = readProcessed + size
                /\ readWasFinished' = (readWasFinished \/ finish)
                /\ readRes' = IF error THEN "READ" ELSE readRes
      /\ IF stopped THEN UNCHANGED <<coders, outProcessed_Parse>>
           ELSE /\ coders' = [coders EXCEPT ![t] = coder]
                /\ outProcessed_Parse' = outProcessed_Parse + (IF state \in {"NEW", "END"} THEN dicPos ELSE 0)
      /\ crossBlock' =
             CASE stopped -> crossBlock
               [] ~ stopped /\ partial /\ state = "END" /\ HasCross(t) -> rest
               [] ~ stopped /\ partial /\ state # "END" /\ ~ lost -> rest
               [] OTHER -> <<>>
      /\ pc' = [pc EXCEPT ![t] = IF stopped \/ ends THEN "pass" ELSE "link"]
      /\ me' = [me EXCEPT ![t] =
             CASE stopped -> [read EXCEPT !.interrupted = TRUE, !.finish = TRUE]
               [] ~ stopped /\ state = "OVERFLOW" ->
                    [parsed EXCEPT !.finish = TRUE, !.overflow = TRUE]
               [] ~ stopped /\ ~ ends -> [parsed EXCEPT !.link = @ + 1]
               [] ~ stopped /\ state # "OVERFLOW" /\ ends /\ ~ partial ->
                    [parsed EXCEPT !.needCode = TRUE, !.finish = @ \/ state = "END"]
               [] ~ stopped /\ partial /\ state = "END" ->
                    [parsed EXCEPT !.needCode = TRUE, !.finish = TRUE,
                                   !.size = @ - Len(rest),
                                   !.start = IF l.link = 1 THEN used ELSE @]
               [] ~ stopped /\ partial /\ state # "END" /\ lost ->
                    [parsed EXCEPT !.needCode = TRUE, !.finish = TRUE, !.allocError = TRUE]
               [] OTHER ->
                    [parsed EXCEPT !.needCode = TRUE, !.finish = FALSE,
                                   !.size = @ - Len(rest),
                                   !.start = IF l.link = 1 THEN used ELSE @]]
  BY <1>0, Zenon DEF TurnSteps
<1>2. parsed.finish = finish
  <2>1. DOMAIN l = {"blockIndex", "interrupted", "finish", "needCode",
    "needWrite", "allocError", "overflow", "threading", "codeRes", "link", "start", "size",
    "inCodePos", "next"}
    BY <1>n, Locals DEF LocalsAreThere
  <2> QED  BY <1>n, <2>1
<1>3. ASSUME stopped
      PROVE  /\ TurnPuts(t, data, crossBlock)
             /\ coders' = coders /\ outProcessed_Parse' = outProcessed_Parse
             /\ pc' = [pc EXCEPT ![t] = "pass"]
             /\ me' = [me EXCEPT ![t] = [read EXCEPT !.interrupted = TRUE, !.finish = TRUE]]
  BY <1>1, <1>3 DEF TurnPuts
<1>4. ASSUME ~ stopped
      PROVE  TurnRest(t, data, size, finish, used, state, cross, coder, dicPos, l, read, parsed, rest)
  <2>1. ASSUME state = "OVERFLOW"
        PROVE  /\ TurnPuts(t, data, <<>>)
               /\ TurnTakes(t, coder, dicPos, state, "pass", [parsed EXCEPT !.finish = TRUE, !.overflow = TRUE])
    BY <1>1, <1>4, <2>1 DEF TurnPuts, TurnTakes
  <2>2. ASSUME state = "CONTINUE" /\ ~ finish
        PROVE  /\ TurnPuts(t, IF HasCross(t) THEN SubSeq(data, 1, used) ELSE data, <<>>)
               /\ TurnTakes(t, coder, dicPos, state, "link", [parsed EXCEPT !.link = @ + 1])
    BY <1>1, <1>4, <2>2 DEF TurnPuts, TurnTakes
  <2>3. ASSUME state # "OVERFLOW" /\ (state # "CONTINUE" \/ finish) /\ rest = <<>>
        PROVE  /\ TurnPuts(t, IF HasCross(t) THEN SubSeq(data, 1, used) ELSE data, <<>>)
               /\ TurnTakes(t, coder, dicPos, state, "pass",
                      [parsed EXCEPT !.needCode = TRUE, !.finish = finish \/ state = "END"])
    BY <1>1, <1>2, <1>4, <2>3 DEF TurnPuts, TurnTakes
  <2>4. ASSUME state = "END" /\ rest # <<>>
        PROVE  /\ TurnPuts(t, IF HasCross(t) THEN SubSeq(data, 1, used) ELSE data,
                     IF HasCross(t) THEN rest ELSE <<>>)
               /\ TurnTakes(t, coder, dicPos, state, "pass",
                      [parsed EXCEPT !.needCode = TRUE, !.finish = TRUE, !.size = @ - Len(rest),
                                     !.start = IF l.link = 1 THEN used ELSE @])
    BY <1>1, <1>4, <2>4 DEF TurnPuts, TurnTakes
  <2>5. ASSUME state \notin {"END", "OVERFLOW"} /\ (state # "CONTINUE" \/ finish) /\ rest # <<>>
                 /\ ~ HasCross(t) /\ ~ cross
        PROVE  /\ TurnPuts(t, data, <<>>)
               /\ TurnTakes(t, coder, dicPos, state, "pass",
                      [parsed EXCEPT !.needCode = TRUE, !.finish = TRUE, !.allocError = TRUE])
    BY <1>1, <1>4, <2>5 DEF TurnPuts, TurnTakes
  <2>6. ASSUME state \notin {"END", "OVERFLOW"} /\ (state # "CONTINUE" \/ finish) /\ rest # <<>>
                 /\ (HasCross(t) \/ cross)
        PROVE  /\ TurnPuts(t, IF HasCross(t) THEN SubSeq(data, 1, used) ELSE data, rest)
               /\ TurnTakes(t, coder, dicPos, state, "pass",
                      [parsed EXCEPT !.needCode = TRUE, !.finish = FALSE, !.size = @ - Len(rest),
                                     !.start = IF l.link = 1 THEN used ELSE @])
    BY <1>1, <1>4, <2>6 DEF TurnPuts, TurnTakes
  <2> QED  BY <2>1, <2>2, <2>3, <2>4, <2>5, <2>6, Zenon DEF TurnRest
<1>5. ReadOn(t, size, finish, error)
  BY <1>1 DEF ReadOn
<1> QED  BY <1>3, <1>4, <1>5 DEF TurnGives

-----------------------------------------------------------------------------

LEMMA StateOfIs ==
    ASSUME NEW status \in Statuses
    PROVE  /\ StateOf(status) = "OVERFLOW" <=> status = "full"
           /\ StateOf(status) = "CONTINUE" <=> status = "more"
           /\ StateOf(status) = "NEW" <=> status = "block"
           /\ StateOf(status) = "END" <=> status \in {"mark", "error"}
           /\ StateOf(status) \in {"NEW", "END"} <=> status \in {"block", "mark", "error"}
  BY DEF StateOf, Statuses

LEMMA TurnIs ==
    ASSUME Shape, NEW t \in Threads, NEW a, NEW b, NEW size, NEW n, NEW N, NEW finish, NEW error, NEW r,
           TurnAt(t, a, b, size, n, N, finish, error, r), NEW cross \in BOOLEAN,
           ReadLinkWith(t, n, error, cross)
    PROVE  \E c, m : Turned(t, a, b, size, N, finish, error, r, c, m)
<1>0. PICK c : /\ CoderIs(c, r, size) /\ r \in ParseAccs /\ r.used <= N
               /\ TurnBody(t, error, cross, Place(b, N), N, finish, r.used, r.dicPos, c, StateOf(r.status))
  BY TurnUnfolds
<1>at. TurnAt(t, a, b, size, n, N, finish, error, r)
  OBVIOUS
<1>1. /\ N \in Nat /\ b \in Nat /\ finish \in BOOLEAN /\ size \in Nat /\ size = me[t].size
      /\ DataIs(t, b, N, ReadData(t, n), finish, error) /\ ReadingAt(t, a)
  BY <1>at, Zenon DEF TurnAt
<1>2. DOMAIN me = Threads /\ DOMAIN me[t] = DOMAIN NoLocals /\ pc \in [Threads -> Pcs]
      /\ DOMAIN threads = Threads
      /\ DOMAIN threads[t] = {"canRead", "canWrite", "inBuf", "inDataSize_Start", "inDataSize"}
  BY DEF Shape
<1>3. PICK used \in Nat, status \in Statuses : used = r.used /\ status = r.status
  BY <1>0 DEF ParseAccs
<1>4. used <= N
  BY <1>0, <1>3
<1>5. PICK rest : rest = SubSeq(Place(b, N), used + 1, N)
  OBVIOUS
<1>6. PICK left \in Nat : left = N - used
  <2>1. N - used \in Nat
    BY <1>1, <1>4
  <2> QED  BY <2>1
<1>7. /\ SubSeq(Place(b, N), 1, used) = Place(b, used) /\ rest = Place(b + used, left)
      /\ Len(rest) = left /\ (rest = <<>> <=> left = 0)
  <2>1. SubSeq(Place(b, N), 1, used) = Place(b, used) /\ rest = Place(b + used, left)
    <3>1. PICK M \in Nat, d \in Nat : M = N /\ d = b
      BY <1>1
    <3>2. used <= M
      BY <1>4, <3>1
    <3>3. /\ SubSeq(Place(d, M), 1, used) = Place(d, used)
          /\ SubSeq(Place(d, M), used + 1, M) = Place(d + used, M - used)
      BY <3>2, PlaceParts
    <3> QED  BY <1>5, <1>6, <3>1, <3>3
  <2>2. PICK c0 \in Nat : c0 = b + used
    BY <1>1
  <2>3. Len(Place(c0, left)) = left
    BY PlaceIs
  <2>4. Place(c0, left) = <<>> <=> left = 0
    BY EmptyPlace, NoPlace
  <2> QED  BY <2>1, <2>2, <2>3, <2>4
<1>8. HasCross(t) => me[t].link = 1 /\ size = 0
  <2>1. ASSUME HasCross(t) PROVE me[t].link = 1 /\ size = 0
    <3>1. me[t].link = 1
      BY <2>1 DEF HasCross
    <3>2. ReadNothing(me[t], a) \/ ReadSome(threads[t].inBuf, me[t], coders[t], a)
      BY <1>1 DEF ReadingAt, BlockRead
    <3>3. ReadNothing(me[t], a)
      BY <3>1, <3>2 DEF ReadSome
    <3> QED  BY <1>1, <3>1, <3>3 DEF ReadNothing
  <2> QED  BY <2>1
<1>9. PICK l, all, start, read, parsed :
        /\ l = me[t]
        /\ all = (IF HasCross(t) THEN N ELSE l.size + N)
        /\ start = (IF l.link = 1 THEN N ELSE l.start)
        /\ read = [l EXCEPT !.size = all, !.start = start, !.finish = finish]
        /\ parsed = [read EXCEPT !.needWrite = TRUE]
  OBVIOUS
<1>10. all = size + N /\ l.size = size
  BY <1>1, <1>8, <1>9
<1>11. PICK data, state : data = Place(b, N) /\ state = StateOf(r.status)
  OBVIOUS
<1>12. /\ ~ HasCross(t) /\ InterruptedAt(l.blockIndex) =>
            /\ TurnPuts(t, data, crossBlock)
            /\ coders' = coders /\ outProcessed_Parse' = outProcessed_Parse
            /\ pc' = [pc EXCEPT ![t] = "pass"]
            /\ me' = [me EXCEPT ![t] = [read EXCEPT !.interrupted = TRUE, !.finish = TRUE]]
       /\ ~ (~ HasCross(t) /\ InterruptedAt(l.blockIndex)) =>
            TurnRest(t, data, N, finish, used, state, cross, c, r.dicPos, l, read, parsed, rest)
       /\ ReadOn(t, N, finish, error)
  <2>1. TurnBody(t, error, cross, data, N, finish, used, r.dicPos, c, state)
    BY <1>0, <1>3, <1>11
  <2>2. rest = SubSeq(data, used + 1, N)
    BY <1>5, <1>11
  <2>3. DOMAIN me = Threads /\ DOMAIN me[t] = DOMAIN NoLocals /\ finish \in BOOLEAN
    BY <1>1, <1>2
  <2>4. TurnNames(t, data, N, finish, used, l, rest, all, start, read, parsed)
    BY <1>9, <2>2, Zenon DEF TurnNames
  <2>5. TurnGives(t, data, N, finish, error, used, state, cross, c, r.dicPos, l, read, parsed, rest)
    BY <2>1, <2>3, <2>4, TurnCases, Zenon
  <2> QED  BY <2>5, Zenon DEF TurnGives
\* what is in the links
<1>13. ASSUME NEW k \in Nat, NEW m \in Nat, m <= k, m <= N, NEW x, TurnPuts(t, Place(b, k), x)
       PROVE  /\ Linked(threads'[t].inBuf, IF l.link = 1 THEN m ELSE l.start, size + m, a)
              /\ threads'[t].inBuf \in Seq(Seq(Nat)) /\ LinksGoOn(l, threads'[t].inBuf)
              /\ crossBlock' = x
  <2>1. threads'[t].inBuf = LinkPut(t, Overwrite(OldLink(t), Place(b, k)))
    BY <1>2, <1>13 DEF TurnPuts
  <2>2. /\ Linked(LinkPut(t, Overwrite(OldLink(t), Place(b, k))),
                  IF me[t].link = 1 THEN m ELSE me[t].start, me[t].size + m, a)
        /\ LinkPut(t, Overwrite(OldLink(t), Place(b, k))) \in Seq(Seq(Nat))
        /\ LinksGoOn(me[t], LinkPut(t, Overwrite(OldLink(t), Place(b, k))))
    BY <1>at, <1>13, TurnLink
  <2> QED  BY <1>1, <1>9, <1>13, <2>1, <2>2 DEF TurnPuts
<1>14. ASSUME NEW x, NEW y, TurnPuts(t, x, y), NEW l2, me' = [me EXCEPT ![t] = l2]
       PROVE  me'[t] = l2 /\ \A u \in Threads : u # t => me'[u] = me[u] /\ threads'[u] = threads[u]
  BY <1>2, <1>14 DEF TurnPuts
<1>d. DOMAIN l = {"blockIndex", "interrupted", "finish", "needCode",
    "needWrite", "allocError", "overflow", "threading", "codeRes", "link", "start", "size",
    "inCodePos", "next"}
  BY <1>2, <1>9, Locals DEF LocalsAreThere
<1>s. /\ state = "OVERFLOW" <=> status = "full"
      /\ state = "CONTINUE" <=> status = "more"
      /\ state = "NEW" <=> status = "block"
      /\ state = "END" <=> status \in {"mark", "error"}
      /\ state \in {"NEW", "END"} <=> status \in {"block", "mark", "error"}
  BY <1>3, <1>11, StateOfIs
<1>c. CoderIs(c, r, size)
  BY <1>0
<1>e. ASSUME NEW k \in Nat, NEW m \in Nat, m <= k, m <= N, NEW x, TurnPuts(t, Place(b, k), x),
             NEW l2, NEW fin, NEW code, NEW alloc, NEW over, NEW link, NEW pcl,
             TurnTakes(t, c, r.dicPos, state, pcl, l2),
             LocalsOf(l2, l.interrupted, fin, code, TRUE, alloc, over, link,
                      IF l.link = 1 THEN m ELSE l.start, size + m, l),
             pcl = IF TurnGoesOn(r, N, finish, m, l, l2) THEN "link" ELSE "pass",
             \/ TurnGoesOn(r, N, finish, m, l, l2)
             \/ TurnOverflows(r, N, m, l2)
             \/ TurnLoses(t, r, N, m, l2)
             \/ TurnReads(t, b, r, N, finish, m, l, l2)
      PROVE  Turned(t, a, b, size, N, finish, error, r, c, m)
  <2>1. /\ coders' = [coders EXCEPT ![t] = c] /\ pc' = [pc EXCEPT ![t] = pcl]
        /\ me' = [me EXCEPT ![t] = l2]
        /\ outProcessed_Parse' = outProcessed_Parse + (IF status \in {"block", "mark", "error"} THEN r.dicPos ELSE 0)
    BY <1>e, <1>s DEF TurnTakes
  <2>2. me'[t] = l2 /\ \A u \in Threads : u # t => me'[u] = me[u] /\ threads'[u] = threads[u]
    BY <1>14, <1>e, <2>1
  <2>3. /\ Linked(threads'[t].inBuf, IF l.link = 1 THEN m ELSE l.start, size + m, a)
        /\ threads'[t].inBuf \in Seq(Seq(Nat)) /\ LinksGoOn(l, threads'[t].inBuf)
    BY <1>13, <1>e
  <2>4. /\ l2.blockIndex = l.blockIndex /\ l2.start = (IF l.link = 1 THEN m ELSE l.start) /\ l2.size = size + m
    BY <1>e DEF LocalsOf
  <2>5. TurnParses(t, c, m, l, l2)
    BY <1>10, <1>e, <2>1 DEF TurnParses, LocalsOf
  <2>6. TurnEnds(t, b, r, N, finish, c, m, l, l2)
    BY <1>3, <1>e, <2>1, <2>5, Zenon DEF TurnEnds
  <2>7. Linked(threads'[t].inBuf, l2.start, l2.size, a)
    BY <2>3, <2>4
  <2> QED  BY <1>9, <1>12, <1>c, <1>e, <2>2, <2>3, <2>4, <2>6, <2>7 DEF Turned
<1>p. /\ HasCross(t) => (IF HasCross(t) THEN SubSeq(data, 1, used) ELSE data) = Place(b, used)
      /\ ~ HasCross(t) => (IF HasCross(t) THEN SubSeq(data, 1, used) ELSE data) = Place(b, N)
  BY <1>7, <1>11
<1>k. PICK k \in Nat : /\ used <= k /\ (used = N => N <= k)
                       /\ (IF HasCross(t) THEN SubSeq(data, 1, used) ELSE data) = Place(b, k)
  <2>1. CASE HasCross(t)
    BY <1>4, <1>p, <2>1
  <2>2. CASE ~ HasCross(t)
    BY <1>1, <1>4, <1>p, <2>2
  <2> QED  BY <2>1, <2>2
<1>21. CASE ~ HasCross(t) /\ InterruptedAt(l.blockIndex)
  <2>1. PICK l2 : l2 = [read EXCEPT !.interrupted = TRUE, !.finish = TRUE]
    OBVIOUS
  <2>2. /\ TurnPuts(t, data, crossBlock)
        /\ coders' = coders /\ outProcessed_Parse' = outProcessed_Parse
        /\ pc' = [pc EXCEPT ![t] = "pass"] /\ me' = [me EXCEPT ![t] = l2]
    BY <1>12, <1>21, <2>1
  <2>3. l2.interrupted = TRUE /\ l2.finish = TRUE /\ l2.blockIndex = l.blockIndex
    BY <1>9, <1>d, <2>1
  <2>4. me'[t] = l2 /\ \A u \in Threads : u # t => me'[u] = me[u] /\ threads'[u] = threads[u]
    BY <1>14, <2>2
  <2>5. threads'[t].inBuf \in Seq(Seq(Nat)) /\ crossBlock' = crossBlock
    <3>1. N <= N
      BY <1>1
    <3> QED  BY <1>1, <1>11, <1>13, <2>2, <3>1
  <2>6. TurnStops(t)
    BY <1>9, <1>21, <2>2, <2>3, <2>4, <2>5 DEF TurnStops
  <2> QED  BY <1>9, <1>12, <2>3, <2>4, <2>5, <2>6 DEF Turned
<1>22. CASE ~ (~ HasCross(t) /\ InterruptedAt(l.blockIndex))
  <2>0. TurnRest(t, data, N, finish, used, state, cross, c, r.dicPos, l, read, parsed, rest)
    BY <1>12, <1>22
  <2>1. CASE status = "full"
    <3>1. PICK l2 : l2 = [parsed EXCEPT !.finish = TRUE, !.overflow = TRUE]
      OBVIOUS
    <3>2. TurnPuts(t, Place(b, N), <<>>) /\ TurnTakes(t, c, r.dicPos, state, "pass", l2)
      BY <1>11, <1>s, <2>0, <2>1, <3>1 DEF TurnRest
    <3>3. LocalsOf(l2, l.interrupted, TRUE, l.needCode, TRUE, l.allocError, TRUE, l.link,
                   IF l.link = 1 THEN N ELSE l.start, size + N, l)
      BY <1>9, <1>10, <1>d, <3>1 DEF LocalsOf
    <3>4. crossBlock' = <<>>
      BY <3>2 DEF TurnPuts
    <3>5. TurnOverflows(r, N, N, l2)
      BY <1>3, <2>1, <3>3, <3>4 DEF TurnOverflows, LocalsOf
    <3>6. "pass" = IF TurnGoesOn(r, N, finish, N, l, l2) THEN "link" ELSE "pass"
      BY <1>3, <2>1 DEF TurnGoesOn
    <3>7. N <= N
      BY <1>1
    <3> QED  BY <1>1, <1>e, <3>2, <3>3, <3>5, <3>6, <3>7
  <2>2. CASE status = "more" /\ ~ finish
    <3>1. PICK l2 : l2 = [parsed EXCEPT !.link = @ + 1]
      OBVIOUS
    <3>2. TurnPuts(t, Place(b, k), <<>>) /\ TurnTakes(t, c, r.dicPos, state, "link", l2)
      BY <1>k, <1>s, <2>0, <2>2, <3>1 DEF TurnRest
    <3>3. LocalsOf(l2, l.interrupted, FALSE, l.needCode, TRUE, l.allocError, l.overflow, l.link + 1,
                   IF l.link = 1 THEN N ELSE l.start, size + N, l)
      BY <1>9, <1>10, <1>d, <2>2, <3>1 DEF LocalsOf
    <3>4. crossBlock' = <<>>
      BY <3>2 DEF TurnPuts
    <3>5. TurnGoesOn(r, N, finish, N, l, l2)
      BY <1>3, <2>2, <3>3, <3>4 DEF TurnGoesOn, LocalsOf
    <3>6. "link" = IF TurnGoesOn(r, N, finish, N, l, l2) THEN "link" ELSE "pass"
      BY <3>5
    <3>7. used = N
      <4>1. ParseIs(r, BaseCoder(t).dec, a, b, N)
        BY <1>at, Zenon DEF TurnAt
      <4>2. N = 0 \/ ParseGives(r, stream, a, b, BaseCoder(t).dec, BlockLimit(a), N)
        BY <4>1 DEF ParseIs
      <4>3. CASE N = 0
        BY <1>4, <4>3
      <4>4. CASE ParseGives(r, stream, a, b, BaseCoder(t).dec, BlockLimit(a), N)
        BY <1>3, <2>2, <4>4 DEF ParseGives
      <4> QED  BY <4>2, <4>3, <4>4
    <3>8. N <= k /\ N <= N
      BY <1>1, <1>k, <3>7
    <3> QED  BY <1>1, <1>e, <1>k, <3>2, <3>3, <3>5, <3>6, <3>8
  <2>r. ASSUME status # "full", status = "more" => finish
        PROVE  /\ state # "OVERFLOW" /\ (state # "CONTINUE" \/ finish)
               /\ \A m, l2 : ~ TurnGoesOn(r, N, finish, m, l, l2)
    BY <1>3, <1>s, <2>r DEF TurnGoesOn
  <2>3. CASE status # "full" /\ (status = "more" => finish) /\ rest = <<>>
    <3>1. PICK l2 : l2 = [parsed EXCEPT !.needCode = TRUE, !.finish = finish \/ state = "END"]
      OBVIOUS
    <3>2. TurnPuts(t, Place(b, k), <<>>) /\ TurnTakes(t, c, r.dicPos, state, "pass", l2)
      BY <1>k, <2>0, <2>3, <2>r, <3>1 DEF TurnRest
    <3>3. LocalsOf(l2, l.interrupted, finish \/ state = "END", TRUE, TRUE, l.allocError, l.overflow, l.link,
                   IF l.link = 1 THEN N ELSE l.start, size + N, l)
      BY <1>9, <1>10, <1>d, <3>1 DEF LocalsOf
    <3>4. crossBlock' = <<>>
      BY <3>2 DEF TurnPuts
    <3>5. used = N
      BY <1>1, <1>6, <1>7, <2>3
    <3>6. l2.finish = (finish \/ status \in {"mark", "error"})
      BY <1>s, <3>3 DEF LocalsOf
    <3>7. TurnReads(t, b, r, N, finish, N, l, l2)
      BY <1>3, <2>3, <3>3, <3>4, <3>5, <3>6 DEF TurnReads, LocalsOf
    <3>8. "pass" = IF TurnGoesOn(r, N, finish, N, l, l2) THEN "link" ELSE "pass"
      BY <2>3, <2>r
    <3>9. N <= k /\ N <= N
      BY <1>1, <1>k, <3>5
    <3>10. PICK fin : fin = (finish \/ state = "END")
      OBVIOUS
    <3>11. LocalsOf(l2, l.interrupted, fin, TRUE, TRUE, l.allocError, l.overflow, l.link,
                   IF l.link = 1 THEN N ELSE l.start, size + N, l)
      BY <3>3, <3>10
    <3> QED  BY <1>1, <1>e, <1>k, <3>2, <3>7, <3>8, <3>9, <3>11
  <2>4. CASE status \in {"mark", "error"} /\ rest # <<>>
    <3>1. PICK l2 : l2 = [parsed EXCEPT !.needCode = TRUE, !.finish = TRUE, !.size = @ - Len(rest),
                                        !.start = IF l.link = 1 THEN used ELSE @]
      OBVIOUS
    <3>2. PICK x : x = IF HasCross(t) THEN rest ELSE <<>>
      OBVIOUS
    <3>3. TurnPuts(t, Place(b, k), x) /\ TurnTakes(t, c, r.dicPos, state, "pass", l2)
      BY <1>k, <1>s, <2>0, <2>4, <3>1, <3>2 DEF TurnRest
    <3>4. all - Len(rest) = size + used /\ used # N
      BY <1>1, <1>4, <1>6, <1>7, <1>10, <2>4
    <3>5. LocalsOf(l2, l.interrupted, TRUE, TRUE, TRUE, l.allocError, l.overflow, l.link,
                   IF l.link = 1 THEN used ELSE l.start, size + used, l)
      BY <1>9, <1>d, <3>1, <3>4 DEF LocalsOf
    <3>6. crossBlock' = x
      BY <3>3 DEF TurnPuts
    <3>7. crossBlock' = IF status \in {"mark", "error"} /\ ~ HasCross(t) THEN <<>> ELSE Place(b + used, N - used)
      BY <1>6, <1>7, <2>4, <3>2, <3>6
    <3>8. TurnReads(t, b, r, N, finish, used, l, l2)
      BY <1>3, <2>4, <3>4, <3>5, <3>7 DEF TurnReads, LocalsOf
    <3>9. "pass" = IF TurnGoesOn(r, N, finish, used, l, l2) THEN "link" ELSE "pass"
      BY <1>3, <2>4 DEF TurnGoesOn
    <3> QED  BY <1>4, <1>e, <1>k, <3>3, <3>5, <3>8, <3>9
  <2>5. CASE status \in {"block", "more"} /\ (status = "more" => finish) /\ rest # <<>> /\ ~ HasCross(t) /\ ~ cross
    <3>1. PICK l2 : l2 = [parsed EXCEPT !.needCode = TRUE, !.finish = TRUE, !.allocError = TRUE]
      OBVIOUS
    <3>2. state \notin {"END", "OVERFLOW"} /\ (state # "CONTINUE" \/ finish)
      BY <1>s, <2>5
    <3>3. TurnPuts(t, Place(b, N), <<>>) /\ TurnTakes(t, c, r.dicPos, state, "pass", l2)
      BY <1>11, <2>0, <2>5, <3>1, <3>2 DEF TurnRest
    <3>4. used # N
      BY <1>1, <1>4, <1>6, <1>7, <2>5
    <3>5. LocalsOf(l2, l.interrupted, TRUE, TRUE, TRUE, TRUE, l.overflow, l.link,
                   IF l.link = 1 THEN N ELSE l.start, size + N, l)
      BY <1>9, <1>10, <1>d, <3>1 DEF LocalsOf
    <3>6. crossBlock' = <<>>
      BY <3>3 DEF TurnPuts
    <3>7. TurnLoses(t, r, N, N, l2)
      BY <1>1, <1>3, <1>4, <2>5, <3>4, <3>5, <3>6 DEF TurnLoses, LocalsOf
    <3>8. "pass" = IF TurnGoesOn(r, N, finish, N, l, l2) THEN "link" ELSE "pass"
      BY <2>5, <2>r
    <3>9. N <= N
      BY <1>1
    <3> QED  BY <1>1, <1>e, <3>3, <3>5, <3>7, <3>8, <3>9
  <2>6. CASE status \in {"block", "more"} /\ (status = "more" => finish) /\ rest # <<>> /\ (HasCross(t) \/ cross)
    <3>1. PICK l2 : l2 = [parsed EXCEPT !.needCode = TRUE, !.finish = FALSE, !.size = @ - Len(rest),
                                        !.start = IF l.link = 1 THEN used ELSE @]
      OBVIOUS
    <3>2. state \notin {"END", "OVERFLOW"} /\ (state # "CONTINUE" \/ finish)
      BY <1>s, <2>6
    <3>3. TurnPuts(t, Place(b, k), rest) /\ TurnTakes(t, c, r.dicPos, state, "pass", l2)
      BY <1>k, <2>0, <2>6, <3>1, <3>2 DEF TurnRest
    <3>4. all - Len(rest) = size + used /\ used # N
      BY <1>1, <1>4, <1>6, <1>7, <1>10, <2>6
    <3>5. LocalsOf(l2, l.interrupted, FALSE, TRUE, TRUE, l.allocError, l.overflow, l.link,
                   IF l.link = 1 THEN used ELSE l.start, size + used, l)
      BY <1>9, <1>d, <3>1, <3>4 DEF LocalsOf
    <3>6. crossBlock' = Place(b + used, N - used)
      BY <1>6, <1>7, <3>3 DEF TurnPuts
    <3>7. (status \in {"mark", "error"}) = FALSE
      BY <2>6
    <3>8. TurnReads(t, b, r, N, finish, used, l, l2)
      BY <1>3, <2>6, <3>4, <3>5, <3>6, <3>7 DEF TurnReads, LocalsOf
    <3>9. "pass" = IF TurnGoesOn(r, N, finish, used, l, l2) THEN "link" ELSE "pass"
      BY <2>6, <2>r
    <3> QED  BY <1>4, <1>e, <1>k, <3>3, <3>5, <3>8, <3>9
  <2> QED  BY <1>3, <2>1, <2>2, <2>3, <2>4, <2>5, <2>6 DEF Statuses
<1> QED  BY <1>21, <1>22

-----------------------------------------------------------------------------
(* What holds after a turn. *)

SameCall == stream' = stream /\ outSize' = outSize /\ held' = held

LEMMA ReadInvAfter ==
    ASSUME CallInv, ReadInv, SameCall, NEW t, NEW b, NEW N, NEW data, NEW finish \in BOOLEAN, NEW error \in BOOLEAN,
           DataIs(t, b, N, data, finish, error), ReadOn(t, N, finish, error)
    PROVE  ReadInv' /\ readProcessed' = b + N /\ readProcessed' \in Nat
<1>1. /\ readProcessed \in Nat /\ readProcessed <= Len(stream) /\ Len(stream) \in Nat
      /\ readWasFinished \in BOOLEAN /\ readRes \in {OK, "READ"}
      /\ (readWasFinished /\ readRes = OK => readProcessed = Len(stream))
  BY CallIs, ToReadIs DEF ReadInv
<1>2. N \in Nat /\ b \in Nat /\ b + N <= Len(stream)
  BY DEF DataIs
<1>3. CASE HasCross(t)
  <2>1. readProcessed' = readProcessed /\ readWasFinished' = readWasFinished /\ readRes' = readRes
    BY <1>3 DEF ReadOn
  <2>2. b + N = readProcessed
    BY <1>3 DEF DataIs
  <2> QED  BY <1>1, <2>1, <2>2 DEF ReadInv, Where, SameCall
<1>4. CASE ~ HasCross(t)
  <2>1. /\ readProcessed' = readProcessed + N
        /\ readWasFinished' = (readWasFinished \/ finish)
        /\ readRes' = IF error THEN "READ" ELSE readRes
    BY <1>4 DEF ReadOn
  <2>2. /\ b = readProcessed /\ (readWasFinished => N = 0)
        /\ (~ error /\ N # InBufSize => b + N = Len(stream))
        /\ (finish <=> error \/ N # InBufSize)
    BY <1>4 DEF DataIs
  <2>3. readProcessed' = b + N /\ readProcessed' \in Nat /\ readProcessed' \in 0..Len(stream)
    BY <1>1, <1>2, <2>1, <2>2
  <2>4. readWasFinished' \in BOOLEAN /\ readRes' \in {OK, "READ"}
    BY <1>1, <2>1
  <2>5. ASSUME readWasFinished', readRes' = OK PROVE readProcessed' = Len(stream)
    <3>1. ~ error /\ readRes = OK
      BY <2>1, <2>5 DEF OK
    <3>2. CASE finish
      BY <2>2, <2>3, <3>1, <3>2
    <3>3. CASE ~ finish
      <4>1. readWasFinished
        BY <2>1, <2>5, <3>3
      <4> QED  BY <1>1, <1>2, <2>2, <2>3, <3>1, <4>1
    <3> QED  BY <3>2, <3>3
  <2> QED  BY <2>3, <2>4, <2>5 DEF ReadInv, Where, SameCall
<1> QED  BY <1>3, <1>4

LEMMA ContiguousAfter ==
    ASSUME NEW z \in Nat, NEW k \in Nat, crossBlock' = Place(z, k), z + k = readProcessed'
    PROVE  Contiguous(z)'
<1>1. k \in 0..readProcessed'
  OBVIOUS
<1> QED  BY <1>1 DEF Contiguous

LEMMA NothingAfter ==
    ASSUME NEW z \in Nat, crossBlock' = <<>>, z = readProcessed'
    PROVE  Contiguous(z)'
<1>1. Place(z, 0) = <<>>
  BY NoPlace
<1>2. crossBlock' = Place(z, 0)
  BY <1>1, Zenon
<1>3. \A y \in Nat : y + 0 = y /\ 0 \in 0..y
  OBVIOUS
<1>4. z + 0 = readProcessed'
  BY <1>3, Zenon
<1>5. readProcessed' \in Nat
  BY Zenon
<1>6. 0 \in 0..readProcessed'
  BY <1>3, <1>5, Zenon
<1> QED  BY <1>2, <1>4, <1>6, Zenon DEF Contiguous

\* A turn of a thread t that has its block after a.
Turning(t, a, b, size, n, N, finish, error, r, c, m) ==
    /\ TurnAt(t, a, b, size, n, N, finish, error, r) /\ SameCall
    /\ error \in BOOLEAN
    /\ Turned(t, a, b, size, N, finish, error, r, c, m)

\* ... and of which something is parsed.
TurnFacts(t, a, b, size, n, N, finish, error, r, c, m) ==
    /\ stream \in Seq(Symbols) /\ Len(stream) \in Nat /\ outSize \in Nat
    /\ a \in 0..Len(stream) /\ a \in Nat /\ b \in Nat /\ N \in Nat /\ size \in Nat /\ b = a + size
    /\ b + N <= Len(stream) /\ finish \in BOOLEAN /\ r.used \in Nat /\ r.used <= N /\ r.status \in Statuses
    /\ m \in Nat /\ m <= N
    /\ ReadInv' /\ readProcessed' = b + N /\ readProcessed' \in Nat
    /\ Room(a)
    /\ ~ me[t].interrupted /\ ~ me[t].needCode /\ ~ Troublesome(me[t]) /\ me[t].codeRes = OK
    /\ me[t].size = size
    /\ CoderIs(c, r, size)
    /\ Linked(threads'[t].inBuf, me'[t].start, me'[t].size, a)
    /\ me'[t].size = size + m
    /\ N > 0 => /\ Proper(stream, a) /\ outProcessed_Parse = Count(stream, a)
                /\ LiveFrom(stream, a, b + 1) /\ BlockLimit(a) \in Nat

LEMMA TurnFactsHold ==
    ASSUME NEW t, NEW a, NEW b, NEW size, NEW n, NEW N, NEW finish, NEW error, NEW r, NEW c, NEW m,
           Turning(t, a, b, size, n, N, finish, error, r, c, m), ~ TurnStops(t)
    PROVE  /\ TurnFacts(t, a, b, size, n, N, finish, error, r, c, m)
           /\ TurnEnds(t, b, r, N, finish, c, m, me[t], me'[t])
<1>1. /\ TurnAt(t, a, b, size, n, N, finish, error, r) /\ SameCall /\ error \in BOOLEAN
      /\ Turned(t, a, b, size, N, finish, error, r, c, m)
  BY DEF Turning
<1>2. /\ ReadingAt(t, a) /\ DataIs(t, b, N, ReadData(t, n), finish, error)
      /\ size \in Nat /\ size = me[t].size /\ a \in Nat /\ b = a + size /\ N \in Nat /\ b \in Nat
      /\ finish \in BOOLEAN
      /\ ParseIs(r, BaseCoder(t).dec, a, b, N)
  BY <1>1, Zenon DEF TurnAt
<1>3. /\ ReadOn(t, N, finish, error)
      /\ TurnEnds(t, b, r, N, finish, c, m, me[t], me'[t])
      /\ CoderIs(c, r, size) /\ m \in Nat /\ m <= N
      /\ Linked(threads'[t].inBuf, me'[t].start, me'[t].size, a)
  BY <1>1, Zenon DEF Turned
<1>4. /\ CallInv /\ ReadInv /\ a \in Where /\ BlockRead(threads[t].inBuf, me[t], coders[t], a)
  BY <1>2 DEF ReadingAt
<1>5. ReadInv' /\ readProcessed' = b + N /\ readProcessed' \in Nat
  BY <1>1, <1>2, <1>3, <1>4, ReadInvAfter
<1>6. /\ ~ me[t].interrupted /\ ~ me[t].needCode /\ ~ Troublesome(me[t]) /\ me[t].codeRes = OK
      /\ Room(a)
  BY <1>4 DEF BlockRead, ReadNothing, ReadSome, Fresh
<1>7. b + N <= Len(stream)
  BY <1>2 DEF DataIs
<1>8. r \in ParseAccs /\ r.used <= N
  BY <1>2 DEF ParseIs
<1>9. me'[t].size = size + m
  BY <1>2, <1>3 DEF TurnEnds, TurnParses
<1>10. N > 0 => /\ Proper(stream, a) /\ outProcessed_Parse = Count(stream, a)
                /\ LiveFrom(stream, a, b + 1) /\ BlockLimit(a) \in Nat
  BY <1>2 DEF ParseIs
<1>11. stream \in Seq(Symbols) /\ Len(stream) \in Nat /\ outSize \in Nat /\ a \in 0..Len(stream)
  BY <1>4, CallIs DEF Where
<1>12. r.used \in Nat /\ r.status \in Statuses
  BY <1>8 DEF ParseAccs
<1> QED  BY <1>2, <1>3, <1>5, <1>6, <1>7, <1>8, <1>9, <1>10, <1>11, <1>12 DEF TurnFacts

\* As long as the call stays the same, so does what is said of it.
LEMMA CallStays ==
    ASSUME SameCall, NEW p, NEW q
    PROVE  /\ Room(p)' <=> Room(p)
           /\ BlockLimit(p)' = BlockLimit(p)
           /\ Proper(stream, p)' <=> Proper(stream, p)
           /\ Live(stream, p)' <=> Live(stream, p)
           /\ Where' = Where
  BY DEF SameCall, Room, BlockLimit, Where

LEMMA ParsingStays ==
    ASSUME SameCall, NEW c, NEW a, NEW size
    PROVE  /\ Parsing(c, a, size)' <=> Parsing(c, a, size)
           /\ Parsed(c, a, size)' <=> Parsed(c, a, size)
<1>1. BlockLimit(a)' = BlockLimit(a) /\ (Room(a + size)' <=> Room(a + size)) /\ stream' = stream /\ outSize' = outSize
  BY CallStays DEF SameCall
<1>2. Parsing(c, a, size)' <=> Parsing(c, a, size)
  BY <1>1 DEF Parsing
<1>3. Parsed(c, a, size)' <=> Parsed(c, a, size)
  BY <1>1 DEF Parsed
<1> QED  BY <1>2, <1>3

LEMMA CodedStays ==
    ASSUME SameCall, NEW c, NEW l, NEW a
    PROVE  /\ Coding(c, l, a)' <=> Coding(c, l, a)
           /\ CodedWhole(c, l, a)' <=> CodedWhole(c, l, a)
           /\ CodedInPart(c, l, a)' <=> CodedInPart(c, l, a)
<1>1. stream' = stream /\ outSize' = outSize
  BY DEF SameCall
<1>2. \A m : CameOut(c, a, m)' <=> CameOut(c, a, m)
  BY <1>1 DEF CameOut
<1>3. Coding(c, l, a)' <=> Coding(c, l, a)
  BY <1>1, <1>2 DEF Coding
<1>4. CodedWhole(c, l, a)' <=> CodedWhole(c, l, a)
  BY <1>1, <1>2 DEF CodedWhole
<1>5. CodedInPart(c, l, a)' <=> CodedInPart(c, l, a)
  BY <1>1, <1>2 DEF CodedInPart
<1> QED  BY <1>3, <1>4, <1>5

LEMMA HeldStays ==
    ASSUME SameCall, NEW p, NEW inBuf, NEW l, NEW c, NEW a
    PROVE  BlockHeld(p, inBuf, l, c, a)' <=> BlockHeld(p, inBuf, l, c, a)
<1>1. /\ Room(a)' <=> Room(a)
      /\ Parsed(c, a, l.size)' <=> Parsed(c, a, l.size)
      /\ Coding(c, l, a)' <=> Coding(c, l, a)
      /\ CodedWhole(c, l, a)' <=> CodedWhole(c, l, a)
      /\ CodedInPart(c, l, a)' <=> CodedInPart(c, l, a)
  BY CallStays, ParsingStays, CodedStays
<1> QED  BY <1>1 DEF BlockHeld

LEMMA LiveJoins ==
    ASSUME NEW s, NEW a \in Nat, NEW b \in Nat, NEW q \in Nat, LiveFrom(s, a, b + 1), LiveFrom(s, b, q)
    PROVE  LiveFrom(s, a, q)
<1> SUFFICES ASSUME NEW j \in a..(q - 1) PROVE Live(s, j)
  BY DEF LiveFrom
<1>1. CASE j <= b
  <2>1. j \in a..((b + 1) - 1)
    BY <1>1
  <2> QED  BY <2>1 DEF LiveFrom
<1>2. CASE j > b
  <2>1. j \in b..(q - 1)
    BY <1>2
  <2> QED  BY <2>1 DEF LiveFrom
<1> QED  BY <1>1, <1>2

-----------------------------------------------------------------------------
\* The thread goes on to read.
LEMMA AfterGoesOn ==
    ASSUME NEW t, NEW a, NEW b, NEW size, NEW n, NEW N, NEW finish, NEW error, NEW r, NEW c, NEW m,
           Turning(t, a, b, size, n, N, finish, error, r, c, m), ~ TurnStops(t),
           TurnGoesOn(r, N, finish, m, me[t], me'[t]), coders'[t] = c
    PROVE  BlockRead(threads[t].inBuf, me[t], coders[t], a)'
<1>0. /\ TurnFacts(t, a, b, size, n, N, finish, error, r, c, m)
      /\ TurnEnds(t, b, r, N, finish, c, m, me[t], me'[t])
  BY TurnFactsHold
<1>1. /\ TurnAt(t, a, b, size, n, N, finish, error, r) /\ SameCall
      /\ Turned(t, a, b, size, N, finish, error, r, c, m)
  BY DEF Turning
<1>2. /\ DataIs(t, b, N, ReadData(t, n), finish, error)
      /\ ParseIs(r, BaseCoder(t).dec, a, b, N)
  BY <1>1, Zenon DEF TurnAt
<1>3. ReadOn(t, N, finish, error) /\ LinksGoOn(me[t], threads'[t].inBuf)
  BY <1>0, <1>1, Zenon DEF Turned
<1>g. /\ r.status = "more" /\ ~ finish /\ m = N
      /\ me'[t].link = me[t].link + 1 /\ me'[t].finish = FALSE /\ me'[t].needCode = me[t].needCode
      /\ me'[t].allocError = me[t].allocError /\ me'[t].overflow = me[t].overflow
      /\ crossBlock' = <<>>
  BY DEF TurnGoesOn
<1>f. /\ stream \in Seq(Symbols) /\ Len(stream) \in Nat /\ outSize \in Nat
      /\ a \in 0..Len(stream) /\ a \in Nat /\ b \in Nat /\ N \in Nat /\ size \in Nat /\ b = a + size
      /\ b + N <= Len(stream) /\ finish \in BOOLEAN
      /\ readProcessed' = b + N
      /\ ~ me[t].interrupted /\ ~ me[t].needCode /\ ~ Troublesome(me[t]) /\ me[t].codeRes = OK
      /\ me[t].size = size /\ me'[t].size = size + m /\ CoderIs(c, r, size) /\ Room(a)
      /\ Linked(threads'[t].inBuf, me'[t].start, me'[t].size, a)
  BY <1>0 DEF TurnFacts
<1>4. N > 0
  <2>1. CASE HasCross(t)
    BY <1>2, <2>1 DEF DataIs
  <2>2. CASE ~ HasCross(t)
    BY <1>2, <1>g, <2>2, Sizes DEF DataIs
  <2> QED  BY <2>1, <2>2
<1>5. readWasFinished' = FALSE
  <2>1. CASE HasCross(t)
    <3>1. finish = readWasFinished /\ readWasFinished' = readWasFinished
      BY <1>2, <1>3, <2>1 DEF DataIs, ReadOn
    <3> QED  BY <1>f, <1>g, <3>1
  <2>2. CASE ~ HasCross(t)
    <3>1. ~ readWasFinished /\ readWasFinished' = (readWasFinished \/ finish)
      BY <1>2, <1>3, <1>4, <2>2 DEF DataIs, ReadOn
    <3> QED  BY <1>g, <3>1
  <2> QED  BY <2>1, <2>2
<1>6. ParseGives(r, stream, a, b, BaseCoder(t).dec, BlockLimit(a), N)
  BY <1>2, <1>4, <1>f DEF ParseIs
<1>7. r.used = N /\ r.dec = Dec(stream, b + N) /\ GoesOn(stream, a, b, BlockLimit(a), b + N, r.dicPos)
  BY <1>4, <1>6, <1>g, <1>f DEF ParseGives
<1>8. Proper(stream, a) /\ outProcessed_Parse = Count(stream, a) /\ LiveFrom(stream, a, b + 1)
  BY <1>0, <1>4 DEF TurnFacts
<1>9. GoesOn(stream, a, a, BlockLimit(a), b + N, r.dicPos)
  <2>1. LiveFrom(stream, b, (b + N) + 1)
    BY <1>7 DEF GoesOn
  <2>2. PICK e \in Nat : e = (b + N) + 1
    BY <1>f
  <2>3. LiveFrom(stream, a, (b + N) + 1)
    BY <1>8, <1>f, <2>1, <2>2, LiveJoins
  <2>4. b + N \in a..Len(stream)
    BY <1>f
  <2> QED  BY <1>7, <2>3, <2>4 DEF GoesOn
<1>10. me'[t].size = size + N /\ a + (size + N) = b + N
  BY <1>f, <1>g
<1>11. Parsing(c, a, size + N)
  <2>1. /\ c.dec = r.dec /\ c.dicPos = r.dicPos /\ c.inPreSize = size + r.used
        /\ c.codeRes = OK /\ c.inCodeSize = 0 /\ c.outCodeSize = 0
    BY <1>f DEF CoderIs
  <2> QED  BY <1>7, <1>9, <1>10, <2>1 DEF Parsing
<1>12. /\ me'[t].link \in Nat /\ me'[t].link > 1 /\ me'[t].link <= Len(threads'[t].inBuf) + 1
       /\ size + N > 0 /\ size + N = Off(me'[t].start, me'[t].link)
  <2>1. /\ me[t].link \in Nat /\ me[t].link > 0 /\ me[t].link <= Len(threads'[t].inBuf)
        /\ Len(threads'[t].inBuf) \in Nat
        /\ me[t].link > 1 => me[t].size = Off(me[t].start, me[t].link)
    BY <1>3 DEF LinksGoOn
  <2>2. me'[t].start = IF me[t].link = 1 THEN N ELSE me[t].start
    BY <1>0, <1>g DEF TurnEnds, TurnParses
  <2>3. PICK link \in Nat : link = me[t].link /\ me'[t].link = link + 1
    BY <1>g, <2>1
  <2>4. CASE link = 1
    <3>1. me'[t].start = N /\ me'[t].link = 2
      BY <2>2, <2>3, <2>4
    <3>2. Off(N, 2) = N
      BY <1>f, OffIs
    <3>3. size = 0
      <4>1. BlockRead(threads[t].inBuf, me[t], coders[t], a)
        BY <1>1, Zenon DEF TurnAt, ReadingAt
      <4>2. ReadNothing(me[t], a) \/ ReadSome(threads[t].inBuf, me[t], coders[t], a)
        BY <4>1 DEF BlockRead
      <4>3. ReadNothing(me[t], a)
        BY <2>3, <2>4, <4>2 DEF ReadSome
      <4> QED  BY <1>f, <4>3 DEF ReadNothing
    <3> QED  BY <1>4, <1>f, <2>1, <2>3, <2>4, <3>1, <3>2, <3>3
  <2>5. CASE link # 1
    <3>1. link > 1 /\ size = Off(me[t].start, link)
      BY <1>f, <2>1, <2>3, <2>5
    <3>2. me'[t].start = me[t].start
      BY <2>2, <2>3, <2>5
    <3>3. PICK start \in Nat : start = me[t].start
      <4>1. me'[t].start \in Nat
        BY <1>f DEF Linked, LinksHold
      <4> QED  BY <3>2, <4>1
    <3>4. Off(start, link + 1) = Off(start, link) + InBufSize
      BY <3>1, OffIs
    <3>5. N = InBufSize
      <4>1. ~ HasCross(t)
        BY <2>3, <2>5 DEF HasCross
      <4> QED  BY <1>2, <1>g, <4>1 DEF DataIs
    <3>6. me'[t].link = link + 1 /\ me'[t].start = start
      BY <2>3, <3>2, <3>3
    <3>7. size + N = Off(start, link + 1)
      BY <3>1, <3>3, <3>4, <3>5
    <3>8. size + N = Off(me'[t].start, me'[t].link)
      BY <3>6, <3>7
    <3>9. PICK k \in Nat : k = Len(threads'[t].inBuf)
      BY <2>1
    <3>10. link <= k
      BY <2>1, <2>3, <3>9
    <3>11. link + 1 \in Nat /\ link + 1 > 1 /\ link + 1 <= k + 1
      BY <3>1, <3>10
    <3>12. size + N > 0
      BY <1>4, <1>f
    <3> QED  BY <3>6, <3>8, <3>9, <3>11, <3>12
  <2> QED  BY <2>4, <2>5
<1>13. /\ me'[t].needWrite = TRUE /\ me'[t].interrupted = me[t].interrupted
       /\ me'[t].threading = me[t].threading /\ me'[t].codeRes = me[t].codeRes
  BY <1>0 DEF TurnEnds, TurnParses
<1>14. outProcessed_Parse' = outProcessed_Parse
  <2>1. outProcessed_Parse' = outProcessed_Parse + 0
    BY <1>0, <1>g DEF TurnEnds
  <2>2. Count(stream, a) \in Nat
    BY <1>f, WalkTypes
  <2> QED  BY <1>8, <2>1, <2>2
<1>15. /\ Parsing(c, a, size + N)' /\ Room(a)' /\ Proper(stream, a)' /\ stream' = stream
  BY <1>1, <1>8, <1>11, <1>f, ParsingStays, CallStays DEF SameCall
<1>16. ReadSome(threads[t].inBuf, me[t], coders[t], a)'
  BY <1>5, <1>8, <1>10, <1>12, <1>13, <1>14, <1>15, <1>f, <1>g DEF ReadSome
<1>17. ~ me'[t].interrupted /\ ~ me'[t].needCode /\ ~ Troublesome(me'[t]) /\ me'[t].codeRes = OK
  BY <1>13, <1>f, <1>g DEF Troublesome
<1>18. Fields(c)
  BY <1>f DEF CoderIs
<1> QED  BY <1>16, <1>17, <1>18, <1>f DEF BlockRead

-----------------------------------------------------------------------------
\* What is left of it when the thread has read its block.
AfterRead(t, a, z) ==
    /\ z \in Where /\ z = a + me[t].size
    /\ BlockHeld("pass", threads[t].inBuf, me[t], coders[t], a)
    /\ Ahead(me[t], coders[t], a, z)

LEMMA AfterTrouble ==
    ASSUME NEW t, NEW a, NEW b, NEW size, NEW n, NEW N, NEW finish, NEW error, NEW r, NEW c, NEW m,
           Turning(t, a, b, size, n, N, finish, error, r, c, m), ~ TurnStops(t),
           TurnOverflows(r, N, m, me'[t]) \/ TurnLoses(t, r, N, m, me'[t])
    PROVE  \E z \in Nat : AfterRead(t, a, z)'
<1>0. /\ TurnFacts(t, a, b, size, n, N, finish, error, r, c, m)
  BY TurnFactsHold
<1>1. SameCall
  BY DEF Turning
<1>2. ParseIs(r, BaseCoder(t).dec, a, b, N)
  BY Zenon DEF TurnAt, Turning
<1>f. /\ Len(stream) \in Nat /\ a \in Nat /\ b \in Nat /\ N \in Nat /\ size \in Nat /\ b = a + size
      /\ b + N <= Len(stream)
      /\ readProcessed' = b + N /\ readProcessed' \in Nat
      /\ me'[t].size = size + m /\ Room(a)
      /\ Linked(threads'[t].inBuf, me'[t].start, me'[t].size, a)
  BY <1>0 DEF TurnFacts
<1>3. m = N /\ me'[t].finish = TRUE /\ crossBlock' = <<>> /\ Troublesome(me'[t])
      /\ (r.status = "full" \/ r.used < N)
  BY DEF TurnOverflows, TurnLoses, Troublesome
<1>4. Proper(stream, a)
  <2>1. CASE N = 0 /\ r = ParseStart(BaseCoder(t).dec, 0)
    <3>1. r.status = "more" /\ r.used = 0
      BY <2>1, Zenon DEF ParseStart
    <3> QED  BY <1>3, <2>1, <3>1
  <2> QED  BY <1>2, <2>1 DEF ParseIs
<1>5. PICK z \in Nat : z = b + N
  BY <1>f
<1>6. z = a + me'[t].size
  BY <1>3, <1>5, <1>f
<1>7. Contiguous(z)'
  BY <1>3, <1>5, <1>f, NothingAfter
<1>8. Proper(stream, a)' /\ Room(a)' /\ stream' = stream
  BY <1>1, <1>4, <1>f, CallStays DEF SameCall
<1>t. me'[t].threading = me[t].threading /\ me'[t].codeRes = me[t].codeRes
  <2>1. TurnEnds(t, b, r, N, finish, c, m, me[t], me'[t])
    BY TurnFactsHold
  <2> QED  BY <2>1 DEF TurnEnds, TurnParses
<1>u. ~ me'[t].threading /\ me'[t].codeRes = OK
  BY <1>0, <1>t DEF TurnFacts, Troublesome
<1>9. BlockHeld("pass", threads[t].inBuf, me[t], coders[t], a)'
  BY <1>3, <1>8, <1>u, <1>f DEF BlockHeld
<1>10. Ahead(me[t], coders[t], a, z)'
  BY <1>3, <1>6, <1>7, <1>8 DEF Ahead
<1>11. z \in Where'
  BY <1>5, <1>8, <1>f DEF Where
<1> QED  BY <1>6, <1>9, <1>10, <1>11 DEF AfterRead

\* A block that is read is what the parser found.
ReadAs(r, a, b, N, finish, m) ==
    /\ stream \in Seq(Symbols) /\ Len(stream) \in Nat /\ outSize \in Nat
    /\ a \in Nat /\ b \in Nat /\ N \in Nat /\ a <= b /\ b + N <= Len(stream)
    /\ m = r.used /\ m \in Nat
    /\ r.status # "full" /\ r.status \in Statuses /\ (r.status = "more" => finish)

LEMMA BlockLimitIs ==
    ASSUME stream \in Seq(Symbols), outSize \in Nat, NEW a \in 0..Len(stream), Room(a)
    PROVE  BlockLimit(a) <= outSize - Count(stream, a)
<1>1. Count(stream, a) \in Nat
  BY WalkTypes
<1>2. OutBlockMax \in Nat
  BY Sizes
<1>3. PICK x \in Nat : x = Count(stream, a)
  BY <1>1
<1> QED  BY <1>2, <1>3 DEF BlockLimit

LEMMA ReadParsed ==
    ASSUME NEW r, NEW dec, NEW a, NEW b, NEW N, NEW finish, NEW m, ReadAs(r, a, b, N, finish, m),
           Proper(stream, a), LiveFrom(stream, a, b + 1), Room(a), BlockLimit(a) \in Nat,
           ParseGives(r, stream, a, b, dec, BlockLimit(a), N)
    PROVE  /\ LiveFrom(stream, a, b + m)
           /\ r.dicPos = Count(stream, b + m) - Count(stream, a) /\ Count(stream, b + m) <= outSize
           /\ m <= N /\ b + m \in 0..Len(stream)
           /\ r.status = "block" => m < N /\ Proper(stream, b + m) /\ Room(b + m) /\ b + m > a
           /\ r.status = "mark" => State(stream, b + m) = "FINISHED"
           /\ r.status = "error" => State(stream, b + m) = "ERROR"
           /\ r.status = "more" => m = N /\ Room(b + m)
<1>1. /\ stream \in Seq(Symbols) /\ Len(stream) \in Nat /\ outSize \in Nat
      /\ a \in Nat /\ b \in Nat /\ N \in Nat /\ a <= b /\ b + N <= Len(stream)
      /\ m = r.used /\ m \in Nat
      /\ r.status # "full" /\ r.status \in Statuses /\ (r.status = "more" => finish)
  BY DEF ReadAs
<1>2. m <= N /\ b + m \in 0..Len(stream) /\ a \in 0..Len(stream)
  BY <1>1 DEF ParseGives
<1>3. PICK e \in Nat : e = b + m
  BY <1>1
<1>4. Count(stream, a) \in Nat /\ Count(stream, e) \in Nat
  BY <1>1, <1>2, <1>3, WalkTypes
<1>5. BlockLimit(a) <= outSize - Count(stream, a)
  BY <1>1, <1>2, BlockLimitIs
<1>6. PICK L \in Nat : L = BlockLimit(a)
  OBVIOUS
<1>7. PICK x \in Nat, y \in Nat : x = Count(stream, a) /\ y = Count(stream, e)
  BY <1>4
<1>8. r.dicPos <= L /\ r.dicPos = y - x => y <= outSize
  BY <1>1, <1>5, <1>6, <1>7
<1>9. r.dicPos <= L /\ r.dicPos < L /\ r.dicPos = y - x => y < outSize
  BY <1>1, <1>5, <1>6, <1>7
<1>10. CASE r.status = "block"
  <2>1. CutAt(stream, a, b, L, e, r.dicPos) /\ m < N
    BY <1>1, <1>3, <1>6, <1>10 DEF ParseGives
  <2>2. /\ e < Len(stream) /\ State(stream, e) = "CONTROL" /\ stream[e + 1] = "n"
        /\ LiveFrom(stream, b, e + 1) /\ r.dicPos = y - x /\ r.dicPos <= L
    BY <1>7, <2>1 DEF CutAt
  <2>3. LiveFrom(stream, a, e)
    BY <1>1, <1>3, <2>2, LiveJoins, SMTT(30) DEF LiveFrom
  <2>4. Proper(stream, e)
    BY <2>2 DEF Proper
  <2>5. Room(e)
    BY <1>7, <1>8, <2>2 DEF Room, Live
  <2>6. r.dicPos > 0
    BY <2>1 DEF CutAt
  <2>7. e # a
    BY <1>7, <2>2, <2>6
  <2>8. e > a
    BY <1>1, <1>3, <2>7
  <2> QED  BY <1>2, <1>3, <1>7, <1>8, <1>10, <2>1, <2>2, <2>3, <2>4, <2>5, <2>8
<1>11. CASE r.status \in {"mark", "error"}
  <2>1. EndsAt(stream, a, b, L, e, r.dicPos, IF r.status = "mark" THEN "FINISHED" ELSE "ERROR")
    BY <1>1, <1>3, <1>6, <1>11 DEF ParseGives
  <2>2. /\ State(stream, e) = IF r.status = "mark" THEN "FINISHED" ELSE "ERROR"
        /\ LiveFrom(stream, b, e) /\ r.dicPos = y - x /\ r.dicPos <= L
    BY <1>7, <2>1 DEF EndsAt
  <2>3. LiveFrom(stream, a, e)
    BY <1>1, <1>3, <2>2, LiveJoins
  <2> QED  BY <1>2, <1>3, <1>7, <1>8, <1>11, <2>2, <2>3
<1>12. CASE r.status = "more"
  <2>1. GoesOn(stream, a, b, L, e, r.dicPos) /\ m = N
    BY <1>1, <1>3, <1>6, <1>12 DEF ParseGives
  <2>2. /\ LiveFrom(stream, b, e + 1) /\ r.dicPos = y - x /\ r.dicPos <= L
        /\ State(stream, e) = "DATA" => r.dicPos < L
    BY <1>7, <2>1 DEF GoesOn
  <2>3. LiveFrom(stream, a, e) /\ Live(stream, e)
    <3>1. PICK f \in Nat : f = e + 1
      OBVIOUS
    <3>2. LiveFrom(stream, a, f)
      BY <1>1, <2>2, <3>1, LiveJoins
    <3>3. a <= e
      BY <1>1, <1>3
    <3> QED  BY <1>1, <3>1, <3>2, <3>3 DEF LiveFrom
  <2>4. Room(e)
    BY <1>7, <1>8, <1>9, <2>2, <2>3 DEF Room
  <2> QED  BY <1>2, <1>3, <1>7, <1>8, <1>12, <2>1, <2>2, <2>3, <2>4
<1> QED  BY <1>1, <1>10, <1>11, <1>12 DEF Statuses

-----------------------------------------------------------------------------
\* What is there then: what crosses over, and what the parser counts.
LEMMA ReadLeaves ==
    ASSUME NEW t, NEW a, NEW b, NEW size, NEW n, NEW N, NEW finish, NEW error, NEW r, NEW c, NEW m,
           Turning(t, a, b, size, n, N, finish, error, r, c, m), ~ TurnStops(t),
           TurnReads(t, b, r, N, finish, m, me[t], me'[t])
    PROVE  /\ r.status \in {"block", "more"} => Contiguous(b + m)'
           /\ m = N => Contiguous(b + m)'
           /\ m # N => (r.status = "block" => ~ me'[t].finish) /\ (me'[t].finish <=> r.status \in {"mark", "error"})
           /\ m = N => (me'[t].finish <=> finish \/ r.status \in {"mark", "error"})
           /\ outProcessed_Parse' = outProcessed_Parse + (IF r.status \in {"block", "mark", "error"} THEN r.dicPos ELSE 0)
           /\ m = N => crossBlock' = <<>>
<1>0. /\ TurnFacts(t, a, b, size, n, N, finish, error, r, c, m)
      /\ TurnEnds(t, b, r, N, finish, c, m, me[t], me'[t])
  BY TurnFactsHold
<1>1. outProcessed_Parse' = outProcessed_Parse + (IF r.status \in {"block", "mark", "error"} THEN r.dicPos ELSE 0)
  BY <1>0 DEF TurnEnds
<1>2. /\ m = N => crossBlock' = <<>> /\ me'[t].finish = (finish \/ r.status \in {"mark", "error"})
      /\ m # N => /\ me'[t].finish = (r.status \in {"mark", "error"})
                  /\ r.status \notin {"mark", "error"} => crossBlock' = Place(b + m, N - m)
  BY DEF TurnReads
<1>f. b \in Nat /\ N \in Nat /\ m \in Nat /\ m <= N /\ readProcessed' = b + N /\ readProcessed' \in Nat
  BY <1>0 DEF TurnFacts
<1>3. PICK z \in Nat : z = b + m
  BY <1>f
<1>4. ASSUME m = N PROVE Contiguous(z)'
  <2>1. z = readProcessed' /\ crossBlock' = <<>>
    BY <1>2, <1>3, <1>4, <1>f
  <2> QED  BY <2>1, NothingAfter
<1>5. ASSUME m # N, r.status \in {"block", "more"} PROVE Contiguous(z)'
  <2>1. PICK k \in Nat : k = N - m
    BY <1>f
  <2>2. crossBlock' = Place(z, k)
    BY <1>2, <1>3, <1>5, <2>1
  <2>3. z + k = readProcessed'
    BY <1>3, <1>f, <2>1
  <2> QED  BY <2>2, <2>3, ContiguousAfter
<1> QED  BY <1>1, <1>2, <1>3, <1>4, <1>5

LEMMA FinishStays ==
    ASSUME ReadInv, NEW t, NEW b, NEW N, NEW data, NEW finish, NEW error, DataIs(t, b, N, data, finish, error),
           ReadOn(t, N, finish, error), finish = TRUE
    PROVE  readWasFinished' = TRUE
<1>1. CASE HasCross(t)
  BY <1>1 DEF DataIs, ReadOn
<1>2. CASE ~ HasCross(t)
  BY <1>2 DEF ReadOn
<1> QED  BY <1>1, <1>2

LEMMA AfterReads ==
    ASSUME NEW t, NEW a, NEW b, NEW size, NEW n, NEW N, NEW finish, NEW error, NEW r, NEW c, NEW m,
           Turning(t, a, b, size, n, N, finish, error, r, c, m), ~ TurnStops(t),
           TurnReads(t, b, r, N, finish, m, me[t], me'[t]), coders'[t] = c
    PROVE  \E z \in Nat : AfterRead(t, a, z)'
<1>0. /\ TurnFacts(t, a, b, size, n, N, finish, error, r, c, m)
      /\ TurnEnds(t, b, r, N, finish, c, m, me[t], me'[t])
  BY TurnFactsHold
<1>1. SameCall
  BY DEF Turning
<1>2. /\ ParseIs(r, BaseCoder(t).dec, a, b, N)
      /\ DataIs(t, b, N, ReadData(t, n), finish, error)
  BY Zenon DEF TurnAt, Turning
<1>3. ReadOn(t, N, finish, error) /\ ReadInv /\ CallInv
  BY <1>0, Zenon DEF Turned, Turning, TurnAt, ReadingAt
<1>f. /\ stream \in Seq(Symbols) /\ Len(stream) \in Nat /\ outSize \in Nat
      /\ a \in 0..Len(stream) /\ a \in Nat /\ b \in Nat /\ N \in Nat /\ size \in Nat /\ b = a + size
      /\ b + N <= Len(stream) /\ finish \in BOOLEAN /\ r.used \in Nat /\ r.used <= N /\ r.status \in Statuses
      /\ readProcessed' = b + N /\ readProcessed' \in Nat
      /\ me'[t].size = size + m /\ Room(a) /\ CoderIs(c, r, size)
      /\ ~ me[t].interrupted /\ ~ Troublesome(me[t]) /\ me[t].codeRes = OK
      /\ Linked(threads'[t].inBuf, me'[t].start, me'[t].size, a)
  BY <1>0 DEF TurnFacts
<1>4. /\ r.status = "more" => finish
      /\ r.status # "full" /\ m = r.used
      /\ me'[t].needCode = TRUE /\ me'[t].allocError = me[t].allocError /\ me'[t].overflow = me[t].overflow
  BY DEF TurnReads
<1>5. /\ me'[t].needWrite = TRUE /\ me'[t].interrupted = me[t].interrupted
      /\ me'[t].threading = me[t].threading /\ me'[t].codeRes = me[t].codeRes
  BY <1>0 DEF TurnEnds, TurnParses
<1>6. ~ Troublesome(me'[t]) /\ me'[t].codeRes = OK
  BY <1>4, <1>5, <1>f DEF Troublesome
<1>7. ReadAs(r, a, b, N, finish, m)
  BY <1>4, <1>f DEF ReadAs
<1>8. PICK z \in Nat : z = b + m
  BY <1>4, <1>f
<1>9. z = a + me'[t].size
  BY <1>4, <1>8, <1>f
<1>10. /\ Fields(c) /\ c.parseStatus = r.status /\ c.state = StateOf(r.status) /\ c.inPreSize = size + r.used
       /\ c.outPreSize = r.dicPos /\ c.codeRes = OK /\ c.inCodeSize = 0 /\ c.outCodeSize = 0
  BY <1>4, <1>f DEF CoderIs
<1>11. /\ r.status = "block" => c.state = "NEW"
       /\ r.status \in {"mark", "error"} => c.state = "END"
       /\ r.status = "more" => c.state = "CONTINUE"
  BY <1>10, <1>f, StateOfIs
<1>l. /\ r.status \in {"block", "more"} => Contiguous(z)'
      /\ m = N => Contiguous(z)'
      /\ m # N => (me'[t].finish <=> r.status \in {"mark", "error"})
      /\ m = N => (me'[t].finish <=> finish \/ r.status \in {"mark", "error"})
      /\ m = N => crossBlock' = <<>>
      /\ outProcessed_Parse' = outProcessed_Parse + (IF r.status \in {"block", "mark", "error"} THEN r.dicPos ELSE 0)
  BY <1>8, ReadLeaves
<1>12. Parsed(c, a, me'[t].size) /\ (r.status \in {"block", "more"} => Fresh(z)')
         /\ (r.status = "more" => m = N) /\ (r.status = "block" => m # N) /\ z <= Len(stream)
  <2>1. CASE N = 0 /\ r = ParseStart(BaseCoder(t).dec, 0) /\ NothingLeft /\ a = b
    <3>1. r.status = "more" /\ r.used = 0 /\ r.dicPos = 0
      BY <2>1, Zenon DEF ParseStart
    <3>2. m = 0 /\ size = 0 /\ z = a /\ me'[t].size = 0
      BY <1>4, <1>8, <1>f, <2>1, <3>1
    <3>3. LiveFrom(stream, a, a)
      BY <1>f DEF LiveFrom
    <3>4. /\ a + 0 = a /\ a <= Len(stream) /\ c.inPreSize = 0 /\ Count(stream, a) \in Nat
          /\ Count(stream, a) - Count(stream, a) = 0
      <4>1. Count(stream, a) \in Nat
        BY <1>f, WalkTypes
      <4> QED  BY <1>10, <1>f, <3>1, <3>2, <4>1
    <3>5. Count(stream, a) <= outSize
      BY <1>f DEF Room
    <3>6. Parsed(c, a, 0)
      BY <1>10, <1>11, <1>f, <3>1, <3>2, <3>3, <3>4, <3>5 DEF Parsed
    <3>7. readWasFinished' = TRUE
      BY <1>2, <1>3, <1>4, <3>1, FinishStays
    <3>8. NothingLeft'
      BY <1>l, <2>1, <3>2, <3>7 DEF NothingLeft
    <3>9. Room(z)'
      BY <1>1, <1>f, <3>2, CallStays
    <3>10. Contiguous(z)'
      BY <1>l, <3>1
    <3> QED  BY <1>f, <2>1, <3>1, <3>2, <3>6, <3>8, <3>9, <3>10 DEF Fresh
  <2>2. CASE /\ Proper(stream, a) /\ outProcessed_Parse = Count(stream, a)
             /\ LiveFrom(stream, a, b + 1) /\ Room(a) /\ BlockLimit(a) \in Nat
             /\ ParseGives(r, stream, a, b, BaseCoder(t).dec, BlockLimit(a), N)
    <3>1. PICK dec : dec = BaseCoder(t).dec
      OBVIOUS
    <3>2. /\ LiveFrom(stream, a, z)
          /\ r.dicPos = Count(stream, z) - Count(stream, a) /\ Count(stream, z) <= outSize
          /\ m <= N /\ z \in 0..Len(stream)
          /\ r.status = "block" => m < N /\ Proper(stream, z) /\ Room(z) /\ z > a
          /\ r.status = "mark" => State(stream, z) = "FINISHED"
          /\ r.status = "error" => State(stream, z) = "ERROR"
          /\ r.status = "more" => m = N /\ Room(z)
      BY <1>7, <1>8, <2>2, <3>1, ReadParsed
    <3>3. r.status = "block" => m # N
      BY <1>4, <1>f, <3>2
    <3>4. z <= Len(stream)
      BY <1>f, <3>2
    <3>5. c.inPreSize = size + m
      BY <1>4, <1>10
    <3>6. Parsed(c, a, size + m)
      <4>1. a + (size + m) = z
        BY <1>9, <1>f
      <4>2. \/ r.status = "block" \/ r.status = "mark" \/ r.status = "error" \/ r.status = "more"
        BY <1>4, <1>f DEF Statuses
      <4>3. r.status = "block" => size + m > 0
        BY <1>4, <1>f, <3>2, <4>1
      <4> QED  BY <1>10, <1>11, <2>2, <3>2, <3>4, <3>5, <4>1, <4>2, <4>3 DEF Parsed
    <3>7. ASSUME r.status = "block" PROVE Fresh(z)'
      <4>1. PICK x \in Nat : x = Count(stream, a)
        BY <1>f, WalkTypes
      <4>2. PICK y \in Nat : y = Count(stream, z)
        BY <1>f, <3>2, WalkTypes
      <4>3. outProcessed_Parse' = Count(stream, z)
        BY <1>l, <2>2, <3>2, <3>7, <4>1, <4>2
      <4>4. Room(z)' /\ Proper(stream, z)' /\ stream' = stream
        BY <1>1, <3>2, <3>7, CallStays DEF SameCall
      <4>5. Contiguous(z)'
        BY <1>l, <3>7
      <4> QED  BY <4>3, <4>4, <4>5 DEF Fresh
    <3>8. ASSUME r.status = "more" PROVE Fresh(z)'
      <4>1. readWasFinished' = TRUE
        BY <1>2, <1>3, <1>4, <3>8, FinishStays
      <4>2. NothingLeft'
        BY <1>l, <3>2, <3>8, <4>1 DEF NothingLeft
      <4>3. Room(z)'
        BY <1>1, <3>2, <3>8, CallStays
      <4>4. Contiguous(z)'
        BY <1>l, <3>8
      <4> QED  BY <4>2, <4>3, <4>4 DEF Fresh
    <3> QED  BY <1>f, <3>2, <3>3, <3>4, <3>6, <3>7, <3>8
  <2> QED  BY <1>2, <2>1, <2>2 DEF ParseIs
<1>13. me'[t].finish <=> r.status # "block"
  <2>1. r.status = "mark" \/ r.status = "error" \/ r.status = "more" \/ r.status = "block"
    BY <1>4, <1>f DEF Statuses
  <2> QED  BY <1>4, <1>l, <1>12, <2>1
<1>w. PICK w : w = me'[t].size
  OBVIOUS
<1>14. Room(a)' /\ Parsed(c, a, w)'
  BY <1>1, <1>12, <1>w, <1>f, ParsingStays, CallStays
<1>t. ~ me'[t].threading
  BY <1>6 DEF Troublesome
<1>15. BlockHeld("pass", threads[t].inBuf, me[t], coders[t], a)'
  BY <1>4, <1>5, <1>6, <1>10, <1>13, <1>14, <1>t, <1>w, <1>f DEF BlockHeld
<1>16. r.status = "more" => NothingLeft'
  <2>1. ASSUME r.status = "more" PROVE NothingLeft'
    <3>1. readWasFinished' = TRUE
      BY <1>2, <1>3, <1>4, <2>1, FinishStays
    <3> QED  BY <1>l, <1>12, <2>1, <3>1 DEF NothingLeft
  <2> QED  BY <2>1
<1>17. Live(stream, z)' => Contiguous(z)'
  <2>1. CASE r.status \in {"block", "more"}
    BY <1>l, <2>1
  <2>2. CASE r.status \in {"mark", "error"}
    <3>1. State(stream, z) \in {"FINISHED", "ERROR"}
      BY <1>9, <1>10, <1>12, <2>2 DEF Parsed
    <3>2. stream' = stream /\ ~ Live(stream, z)
      BY <1>1, <3>1 DEF SameCall, Live
    <3> QED  BY <3>2
  <2> QED  BY <1>4, <1>f, <2>1, <2>2 DEF Statuses
<1>18. Ahead(me[t], coders[t], a, z)'
  BY <1>6, <1>9, <1>10, <1>12, <1>16, <1>17 DEF Ahead
<1>19. z \in Where'
  BY <1>1, <1>8, <1>12, <1>f DEF Where, SameCall
<1> QED  BY <1>9, <1>15, <1>18, <1>19 DEF AfterRead

-----------------------------------------------------------------------------
\* What the thread that reads does, and to the others nothing.
ReadStep(t, a) ==
    /\ ReadInv' /\ DOMAIN coders' = Threads
    /\ \A u \in Threads : u # t => /\ me'[u] = me[u] /\ threads'[u] = threads[u]
                                   /\ coders'[u] = coders[u] /\ pc'[u] = pc[u]
    /\ threads'[t].inBuf \in Seq(Seq(Nat)) /\ me'[t].blockIndex = me[t].blockIndex
    /\ \/ pc'[t] = "pass" /\ me'[t].interrupted /\ InterruptedAt(me[t].blockIndex)
       \/ /\ pc'[t] = "link" /\ ~ me'[t].interrupted
          /\ BlockRead(threads[t].inBuf, me[t], coders[t], a)'
       \/ /\ pc'[t] = "pass" /\ ~ me'[t].interrupted
          /\ \E z \in Nat : AfterRead(t, a, z)'

LEMMA ReadEnds ==
    ASSUME NEW t \in Threads, pc \in [Threads -> Pcs], DOMAIN coders = Threads,
           NEW a, NEW b, NEW size, NEW n, NEW N, NEW finish, NEW error, NEW r, NEW c, NEW m,
           Turning(t, a, b, size, n, N, finish, error, r, c, m)
    PROVE  ReadStep(t, a)
<1>1. /\ TurnAt(t, a, b, size, n, N, finish, error, r) /\ SameCall /\ error \in BOOLEAN
      /\ Turned(t, a, b, size, N, finish, error, r, c, m)
  BY DEF Turning
<1>2. ReadInv'
  <2>1. CallInv /\ ReadInv /\ finish \in BOOLEAN /\ DataIs(t, b, N, ReadData(t, n), finish, error)
    BY <1>1, Zenon DEF TurnAt, ReadingAt
  <2>2. ReadOn(t, N, finish, error)
    BY <1>1, Zenon DEF Turned
  <2> QED  BY <1>1, <2>1, <2>2, ReadInvAfter
<1>3. /\ \A u \in Threads : u # t => me'[u] = me[u] /\ threads'[u] = threads[u]
      /\ threads'[t].inBuf \in Seq(Seq(Nat)) /\ me'[t].blockIndex = me[t].blockIndex
  BY <1>1, Zenon DEF Turned
<1>4. CASE TurnStops(t)
  <2>1. /\ DOMAIN coders' = Threads
        /\ \A u \in Threads : u # t => coders'[u] = coders[u] /\ pc'[u] = pc[u]
        /\ pc'[t] = "pass" /\ me'[t].interrupted /\ InterruptedAt(me[t].blockIndex)
    BY <1>4 DEF TurnStops
  <2> QED  BY <1>2, <1>3, <2>1 DEF ReadStep
<1>5. CASE ~ TurnStops(t)
  <2>1. /\ TurnFacts(t, a, b, size, n, N, finish, error, r, c, m)
        /\ TurnEnds(t, b, r, N, finish, c, m, me[t], me'[t])
    BY <1>5, TurnFactsHold
  <2>2. ~ me[t].interrupted
    BY <2>1 DEF TurnFacts
  <2>3. /\ coders' = [coders EXCEPT ![t] = c] /\ me'[t].interrupted = me[t].interrupted
        /\ pc' = [pc EXCEPT ![t] = IF TurnGoesOn(r, N, finish, m, me[t], me'[t]) THEN "link" ELSE "pass"]
        /\ \/ TurnGoesOn(r, N, finish, m, me[t], me'[t])
           \/ TurnOverflows(r, N, m, me'[t])
           \/ TurnLoses(t, r, N, m, me'[t])
           \/ TurnReads(t, b, r, N, finish, m, me[t], me'[t])
    BY <2>1, Zenon DEF TurnEnds, TurnParses
  <2>4. /\ DOMAIN coders' = Threads /\ coders'[t] = c
        /\ \A u \in Threads : u # t => coders'[u] = coders[u] /\ pc'[u] = pc[u]
        /\ pc'[t] = IF TurnGoesOn(r, N, finish, m, me[t], me'[t]) THEN "link" ELSE "pass"
    BY <2>3
  <2>5. CASE TurnGoesOn(r, N, finish, m, me[t], me'[t])
    <3>1. BlockRead(threads[t].inBuf, me[t], coders[t], a)'
      BY <1>5, <2>4, <2>5, AfterGoesOn
    <3> QED  BY <1>2, <1>3, <2>2, <2>3, <2>4, <2>5, <3>1 DEF ReadStep
  <2>6. CASE ~ TurnGoesOn(r, N, finish, m, me[t], me'[t])
    <3>1. \E z \in Nat : AfterRead(t, a, z)'
      BY <1>5, <2>3, <2>4, <2>6, AfterTrouble, AfterReads, Zenon
    <3> QED  BY <1>2, <1>3, <2>2, <2>3, <2>4, <2>6, <3>1 DEF ReadStep
  <2> QED  BY <2>5, <2>6
<1> QED  BY <1>4, <1>5

\* The reading threads: ReadLink or ReadFails.
LEMMA ReadsSo ==
    ASSUME Shape, DOMAIN coders = Threads, NEW t \in Threads, NEW a, ReadingAt(t, a),
           ReadLink(t) \/ ReadFails(t)
    PROVE  ReadStep(t, a)
<1>1. SameCall
  BY DEF ReadLink, ReadFails, callVars, SameCall
<1>2. PICK n, error, cross : /\ error \in BOOLEAN /\ cross \in BOOLEAN /\ ReadArgs(t, n, error)
                             /\ ReadLinkWith(t, n, error, cross)
  <2>1. CASE ReadLink(t)
    <3>1. PICK cross \in BOOLEAN : ReadLinkWith(t, ToRead, FALSE, cross)
      BY <2>1 DEF ReadLink
    <3>2. ReadArgs(t, ToRead, FALSE)
      BY <2>1 DEF ReadLink, ReadArgs
    <3>3. FALSE \in BOOLEAN
      OBVIOUS
    <3> QED  BY <3>1, <3>2, <3>3, Zenon
  <2>2. CASE ReadFails(t)
    <3>1. PICK n \in IF readRes = OK THEN 0..ToRead ELSE {0} : ReadLinkWith(t, n, TRUE, TRUE)
      BY <2>2, Zenon DEF ReadFails
    <3>2. ~ HasCross(t)
      BY <2>2, Zenon DEF ReadFails
    <3>3. ReadArgs(t, n, TRUE)
      BY <3>1, <3>2 DEF ReadArgs
    <3>4. TRUE \in BOOLEAN
      OBVIOUS
    <3> QED  BY <3>1, <3>3, <3>4, Zenon
  <2> QED  BY <2>1, <2>2
<1>3. PICK b, size, N, finish, r : TurnAt(t, a, b, size, n, N, finish, error, r)
  BY <1>2, TurnIsAt, Zenon
<1>4. PICK c, m : Turned(t, a, b, size, N, finish, error, r, c, m)
  BY <1>2, <1>3, TurnIs, Zenon
<1>5. Turning(t, a, b, size, n, N, finish, error, r, c, m)
  BY <1>1, <1>2, <1>3, <1>4, Zenon DEF Turning
<1>6. pc \in [Threads -> Pcs]
  BY DEF Shape
<1> QED  BY <1>5, <1>6, ReadEnds, Zenon
-----------------------------------------------------------------------------
(* What stays as it is. *)

LEMMA OutStays ==
    ASSUME SameCall, out' = out, NEW p
    PROVE  OutAt(p)' <=> OutAt(p)
  BY DEF SameCall, OutAt

LEMMA ReadStays ==
    ASSUME SameCall, UNCHANGED readVars, NEW inBuf, NEW l, NEW c, NEW a, NEW z
    PROVE  /\ BlockRead(inBuf, l, c, a)' <=> BlockRead(inBuf, l, c, a)
           /\ Ahead(l, c, a, z)' <=> Ahead(l, c, a, z)
           /\ Fresh(z)' <=> Fresh(z)
           /\ Contiguous(z)' <=> Contiguous(z)
           /\ NothingLeft' <=> NothingLeft
<1>1. /\ stream' = stream /\ outSize' = outSize /\ crossBlock' = crossBlock
      /\ readProcessed' = readProcessed /\ readWasFinished' = readWasFinished
      /\ outProcessed_Parse' = outProcessed_Parse
  BY DEF SameCall, readVars
<1>2. \A p : Room(p)' <=> Room(p)
  BY CallStays
<1>3. \A p : Contiguous(p)' <=> Contiguous(p)
  BY <1>1 DEF Contiguous
<1>4. NothingLeft' <=> NothingLeft
  BY <1>1 DEF NothingLeft
<1>5. \A p : Fresh(p)' <=> Fresh(p)
  BY <1>1, <1>2, <1>3, <1>4 DEF Fresh
<1>6. Ahead(l, c, a, z)' <=> Ahead(l, c, a, z)
  BY <1>1, <1>3, <1>4, <1>5 DEF Ahead
<1>7. ReadNothing(l, a)' <=> ReadNothing(l, a)
  BY <1>1, <1>5 DEF ReadNothing
<1>8. Parsing(c, a, l.size)' <=> Parsing(c, a, l.size)
  BY ParsingStays
<1>9. ReadSome(inBuf, l, c, a)' <=> ReadSome(inBuf, l, c, a)
  BY <1>1, <1>2, <1>8 DEF ReadSome
<1>10. BlockRead(inBuf, l, c, a)' <=> BlockRead(inBuf, l, c, a)
  BY <1>7, <1>9 DEF BlockRead
<1> QED  BY <1>3, <1>4, <1>5, <1>6, <1>10

StaysPut(u) ==
    /\ pc'[u] = pc[u] /\ me'[u] = me[u] /\ coders'[u] = coders[u]
    /\ threads'[u].inBuf = threads[u].inBuf

\* What may change around a thread that stays where it is.
Around(u, A, z, A2, z2) ==
    /\ A2[u] = A[u]
    /\ pc[u] = "link" => UNCHANGED readVars
    /\ Held(u) /\ ~ me[u].interrupted /\ IsLast(u)' => IsLast(u) /\ UNCHANGED readVars /\ z2 = z
    /\ Passed(u) /\ ~ me[u].interrupted /\ ~ me[u].finish /\ ~ IsLast(u)' =>
         A2[me[u].next] = A[u] + me[u].size
    /\ First(u)' => OutAt(A[u])'
    /\ Busy(u) /\ InterruptedAt(me[u].blockIndex) => InterruptedAt(me[u].blockIndex)'

LEMMA PlacedStays ==
    ASSUME SameCall, NEW u, NEW A, NEW z, NEW A2, NEW z2, Placed(u, A, z), StaysPut(u),
           Around(u, A, z, A2, z2)
    PROVE  Placed(u, A2, z2)'
<1>1. pc'[u] = pc[u] /\ me'[u] = me[u] /\ coders'[u] = coders[u] /\ threads'[u].inBuf = threads[u].inBuf
  BY DEF StaysPut
<1>2. PICK a, inBuf, l, c, p : a = A[u] /\ inBuf = threads[u].inBuf /\ l = me[u] /\ c = coders[u] /\ p = pc[u]
  OBVIOUS
<1>3. /\ A2[u] = a
      /\ p = "link" => UNCHANGED readVars
      /\ Held(u) /\ ~ l.interrupted /\ IsLast(u)' => IsLast(u) /\ UNCHANGED readVars /\ z2 = z
      /\ Passed(u) /\ ~ l.interrupted /\ ~ l.finish /\ ~ IsLast(u)' => A2[l.next] = a + l.size
      /\ First(u)' => OutAt(a)'
      /\ Busy(u) /\ InterruptedAt(l.blockIndex) => InterruptedAt(l.blockIndex)'
  <2>1. A2[u] = a
    BY <1>2 DEF Around
  <2>2. p = "link" => UNCHANGED readVars
    BY <1>2 DEF Around
  <2>3. Held(u) /\ ~ l.interrupted /\ IsLast(u)' => IsLast(u) /\ UNCHANGED readVars /\ z2 = z
    BY <1>2 DEF Around
  <2>4. Passed(u) /\ ~ l.interrupted /\ ~ l.finish /\ ~ IsLast(u)' => A2[l.next] = a + l.size
    BY <1>2 DEF Around
  <2>5. First(u)' => OutAt(a)'
    BY <1>2, Zenon DEF Around
  <2>6. Busy(u) /\ InterruptedAt(l.blockIndex) => InterruptedAt(l.blockIndex)'
    BY <1>1, <1>2 DEF Around
  <2> QED  BY <2>1, <2>2, <2>3, <2>4, <2>5, <2>6
<1>4. /\ inBuf \in Seq(Seq(Nat))
      /\ p = "link" => BlockRead(inBuf, l, c, a)
      /\ Held(u) /\ ~ l.interrupted => BlockHeld(p, inBuf, l, c, a) /\ (IsLast(u) => Ahead(l, c, a, z))
      /\ ~ Busy(u) => Fields(c)
      /\ Busy(u) /\ l.interrupted => InterruptedAt(l.blockIndex)
      /\ p = "code" => ~ l.interrupted
  BY <1>2 DEF Placed
<1>5. /\ threads[u].inBuf' = inBuf /\ me[u]' = l /\ coders[u]' = c /\ pc[u]' = p
  BY <1>1, <1>2
<1>6. (Held(u)' <=> Held(u)) /\ (Passed(u)' <=> Passed(u)) /\ (Busy(u)' <=> Busy(u))
  BY <1>1 DEF Held, Passed, Busy
<1>7. p = "link" => BlockRead(inBuf, l, c, a)'
  BY <1>3, <1>4, ReadStays
<1>8. BlockHeld(p, inBuf, l, c, a)' <=> BlockHeld(p, inBuf, l, c, a)
  BY HeldStays
<1>9. Held(u)' /\ ~ l.interrupted /\ IsLast(u)' => Ahead(l, c, a, z2)'
  BY <1>3, <1>4, <1>6, ReadStays
<1>10. Held(u)' /\ ~ l.interrupted =>
         /\ BlockHeld(p, inBuf, l, c, a)'
         /\ IsLast(u)' => Ahead(l, c, a, z2)'
         /\ Passed(u)' /\ ~ l.finish /\ ~ IsLast(u)' => A2[l.next] = a + l.size
  BY <1>3, <1>4, <1>6, <1>8, <1>9
<1>11. /\ First(u)' => OutAt(a)'
       /\ Busy(u)' /\ l.interrupted => InterruptedAt(l.blockIndex)'
       /\ ~ Busy(u)' => Fields(c)
       /\ p = "code" => ~ l.interrupted
  BY <1>3, <1>4, <1>6
<1>12. A2[u] = a
  BY <1>3
<1> QED  BY <1>4, <1>5, <1>7, <1>10, <1>11, <1>12 DEF Placed

-----------------------------------------------------------------------------
LEMMA FirstStays ==
    ASSUME NEW u \in Threads,
           \A v \in Threads : (Busy(v)' <=> Busy(v)) /\ me'[v].blockIndex = me[v].blockIndex
    PROVE  First(u)' <=> First(u)
  BY DEF First

\* Only one of the threads that have a block has the last one.
LEMMA OneIsLast ==
    ASSUME Shape, Blocks, NEW t \in Threads, NEW u \in Threads, Busy(t), Busy(u), IsLast(t), IsLast(u)
    PROVE  t = u
<1>1. me[t].blockIndex \in Nat /\ me[u].blockIndex \in Nat
  BY DEF Blocks
<1>2. PICK x \in Nat, y \in Nat : x = me[t].blockIndex /\ y = me[u].blockIndex
  BY <1>1
<1>3. x = y
  BY <1>2 DEF IsLast
<1> QED  BY <1>2, <1>3 DEF Blocks

\* While one thread reads, what the others have stays where it is.
LEMMA OthersStay ==
    ASSUME Shape, Together, SameCall, NEW t \in Threads, Reading(t), Reading(t)',
           NEW u \in Threads, u # t, NEW A, NEW z, NEW z2, Placed(u, A, z),
           \A v \in Threads : v # t => /\ me'[v] = me[v] /\ threads'[v].inBuf = threads[v].inBuf
                                       /\ coders'[v] = coders[v] /\ pc'[v] = pc[v],
           me'[t].blockIndex = me[t].blockIndex,
           UNCHANGED <<blockIndex, needInterrupt, interruptIndex, out>>
    PROVE  Placed(u, A, z2)'
<1>1. StaysPut(u)
  BY DEF StaysPut
<1>2. Blocks /\ Readers
  BY DEF Together
<1>3. Busy(t) /\ Busy(t)' /\ IsLast(t)
  BY <1>2 DEF Readers, Reading, Busy
<1>4. Busy(u) => ~ IsLast(u)
  BY <1>2, <1>3, OneIsLast
<1>5. pc[u] # "link"
  <2>1. pc[u] = "link" => Reading(u) /\ Busy(u)
    BY DEF Reading, Busy
  <2>2. Reading(u) => IsLast(u)
    BY <1>2 DEF Readers
  <2> QED  BY <1>4, <2>1, <2>2
<1>6. (Held(u) => Busy(u)) /\ (Passed(u) => Held(u))
  BY DEF Held, Busy, Passed
<1>7. IsLast(u)' <=> IsLast(u)
  BY <1>1 DEF IsLast, StaysPut
<1>8. \A v \in Threads : (Busy(v)' <=> Busy(v)) /\ me'[v].blockIndex = me[v].blockIndex
  BY <1>3 DEF Busy
<1>9. First(u)' => First(u)
  BY <1>8, FirstStays
<1>10. First(u) => OutAt(A[u])
  BY DEF Placed
<1>11. PICK a : a = A[u]
  OBVIOUS
<1>12. OutAt(a) => OutAt(a)'
  BY OutStays
<1>13. Passed(u) /\ ~ me[u].interrupted /\ ~ me[u].finish => A[me[u].next] = A[u] + me[u].size
  BY <1>4, <1>6 DEF Placed
<1>14. InterruptedAt(me[u].blockIndex) => InterruptedAt(me[u].blockIndex)'
  BY <1>1 DEF InterruptedAt, StaysPut
<1>15. Around(u, A, z, A, z2)
  <2>1. First(u)' => OutAt(A[u])'
    BY <1>9, <1>10, <1>11, <1>12, Zenon
  <2>2. Held(u) => ~ IsLast(u)'
    BY <1>4, <1>6, <1>7
  <2> QED  BY <1>5, <1>13, <1>14, <2>1, <2>2 DEF Around
<1> QED  BY <1>1, <1>15, PlacedStays

LEMMA InterruptsStay ==
    ASSUME Interrupts, UNCHANGED <<needInterrupt, interruptIndex>>,
           NEW t, pc[t] # "write",
           \A u \in Threads : u # t => me'[u] = me[u] /\ pc'[u] = pc[u]
    PROVE  Interrupts'
  BY DEF Interrupts

\* What is known of the call and of the threads.
MtState == Shape /\ Together /\ CallInv /\ ReadInv

LEMMA ReadBlocks ==
    ASSUME MtState, NEW A, NEW z, InBlocks(A, z), NEW t \in Threads, ReadLink(t) \/ ReadFails(t)
    PROVE  SameCall /\ ReadInv' /\ \E z2 : InBlocks(A, z2)'
<1>1. /\ SameCall /\ pc[t] = "link"
      /\ UNCHANGED <<blockIndex, needInterrupt, interruptIndex, out>>
  BY DEF ReadLink, ReadFails, callVars, SameCall, interruptVars
<1>2. /\ A \in [Threads -> Where] /\ z \in Where /\ DOMAIN coders = Threads
      /\ \A u \in Threads : Placed(u, A, z)
      /\ Interrupts
  BY DEF InBlocks
<1>3. A[t] \in Where
  BY <1>2
<1>4. BlockRead(threads[t].inBuf, me[t], coders[t], A[t]) /\ (First(t) => OutAt(A[t]))
  BY <1>1, <1>2 DEF Placed
<1>5. PICK a : a = A[t]
  OBVIOUS
<1>6. ReadingAt(t, a)
  BY <1>3, <1>4, <1>5 DEF ReadingAt, MtState
<1>7. ReadStep(t, a)
  BY <1>2, <1>6, ReadsSo DEF MtState
<1>8. /\ ReadInv' /\ DOMAIN coders' = Threads
      /\ \A u \in Threads : u # t => /\ me'[u] = me[u] /\ threads'[u] = threads[u]
                                     /\ coders'[u] = coders[u] /\ pc'[u] = pc[u]
      /\ threads'[t].inBuf \in Seq(Seq(Nat)) /\ me'[t].blockIndex = me[t].blockIndex
      /\ pc'[t] \in {"link", "pass"}
  BY <1>7 DEF ReadStep
<1>9. Where' = Where
  BY <1>1, CallStays
<1>10. PICK z2 : /\ z2 \in Where
                 /\ pc'[t] = "pass" /\ ~ me'[t].interrupted => AfterRead(t, a, z2)'
  <2>1. CASE pc'[t] = "pass" /\ ~ me'[t].interrupted
    <3>1. PICK z2 \in Nat : AfterRead(t, a, z2)'
      BY <1>7, <2>1 DEF ReadStep
    <3>2. z2 \in Where
      BY <1>9, <3>1 DEF AfterRead
    <3> QED  BY <3>1, <3>2
  <2>2. CASE ~ (pc'[t] = "pass" /\ ~ me'[t].interrupted)
    BY <1>2, <2>2
  <2> QED  BY <2>1, <2>2
<1>11. Reading(t) /\ Reading(t)' /\ Busy(t) /\ Busy(t)'
  BY <1>1, <1>8 DEF Reading, Busy
<1>12. \A u \in Threads : u # t => Placed(u, A, z2)'
  <2>1. TAKE u \in Threads
  <2>2. HAVE u # t
  <2>3. Placed(u, A, z)
    BY <1>2
  <2>4. \A v \in Threads : v # t => /\ me'[v] = me[v] /\ threads'[v].inBuf = threads[v].inBuf
                                     /\ coders'[v] = coders[v] /\ pc'[v] = pc[v]
    BY <1>8
  <2> QED  BY <1>1, <1>8, <1>11, <2>2, <2>3, <2>4, OthersStay DEF MtState
<1>13. First(t)' => OutAt(a)'
  <2>1. \A v \in Threads : (Busy(v)' <=> Busy(v)) /\ me'[v].blockIndex = me[v].blockIndex
    BY <1>8, <1>11 DEF Busy
  <2>2. First(t)' => First(t)
    BY <2>1, FirstStays
  <2> QED  BY <1>1, <1>4, <1>5, <2>2, OutStays
<1>14. Placed(t, A, z2)'
  <2>1. A[t] = a /\ ~ Passed(t)' /\ pc'[t] # "code" /\ (Held(t)' => pc'[t] = "pass")
    BY <1>5, <1>8 DEF Passed, Held
  <2>2. pc'[t] = "link" => BlockRead(threads[t].inBuf, me[t], coders[t], a)'
    BY <1>7 DEF ReadStep
  <2>3. me'[t].interrupted => InterruptedAt(me[t].blockIndex)'
    <3>1. me'[t].interrupted => InterruptedAt(me[t].blockIndex)
      BY <1>7 DEF ReadStep
    <3> QED  BY <1>1, <1>8, <3>1 DEF InterruptedAt
  <2>4. Held(t)' /\ ~ me'[t].interrupted =>
          BlockHeld("pass", threads[t].inBuf, me[t], coders[t], a)' /\ Ahead(me[t], coders[t], a, z2)'
    BY <1>10, <2>1 DEF AfterRead
  <2> QED  BY <1>8, <1>11, <1>13, <2>1, <2>2, <2>3, <2>4 DEF Placed
<1>15. Interrupts'
  BY <1>1, <1>2, <1>8, InterruptsStay
<1>16. ~ NobodyBusy'
  BY <1>11 DEF NobodyBusy
<1>17. A \in [Threads -> Where'] /\ z2 \in Where'
  BY <1>2, <1>9, <1>10
<1>18. InBlocks(A, z2)'
  BY <1>8, <1>12, <1>14, <1>15, <1>16, <1>17 DEF InBlocks
<1> QED  BY <1>1, <1>8, <1>18

-----------------------------------------------------------------------------
LEMMA ContiguousIs ==
    ASSUME NEW z \in Nat, crossBlock = <<>>, z = readProcessed
    PROVE  Contiguous(z)
<1>1. Place(z, 0) = <<>>
  BY NoPlace
<1>2. crossBlock = Place(z, 0)
  BY <1>1, Zenon
<1>3. \A y \in Nat : y + 0 = y /\ 0 \in 0..y
  OBVIOUS
<1>4. z + 0 = readProcessed /\ 0 \in 0..readProcessed
  BY <1>3, Zenon
<1> QED  BY <1>2, <1>4, Zenon DEF Contiguous

\* A block that can not be read any further.
LEMMA ReadOnlySoFar ==
    ASSUME stream \in Seq(Symbols), NEW inBuf, NEW l, NEW c, NEW a \in Where, BlockRead(inBuf, l, c, a),
           ReadInv
    PROVE  /\ Linked(inBuf, l.start, l.size, a) /\ Room(a) /\ l.size \in Nat
           /\ a + l.size \in Where /\ Contiguous(a + l.size)
           /\ Proper(stream, a) \/ (l.size = 0 /\ NothingLeft)
           /\ ~ l.interrupted /\ ~ l.threading /\ l.codeRes = OK
<1>1. /\ Linked(inBuf, l.start, l.size, a) /\ l.size \in Nat
      /\ ~ l.interrupted /\ ~ l.threading /\ l.codeRes = OK
  BY DEF BlockRead, Linked, LinksHold, Troublesome
<1>2. a \in Nat /\ Len(stream) \in Nat
  BY DEF Where
<1>3. CASE ReadNothing(l, a)
  <2>1. l.size = 0 /\ Fresh(a)
    BY <1>3 DEF ReadNothing
  <2>2. a + l.size = a
    BY <1>2, <2>1
  <2>3. Room(a) /\ Contiguous(a) /\ (Proper(stream, a) \/ NothingLeft)
    BY <2>1 DEF Fresh
  <2> QED  BY <1>1, <2>1, <2>2, <2>3
<1>4. CASE ReadSome(inBuf, l, c, a)
  <2>1. a + l.size = readProcessed /\ crossBlock = <<>> /\ Room(a) /\ Proper(stream, a)
    BY <1>4 DEF ReadSome
  <2>2. PICK z \in Nat : z = a + l.size
    BY <1>1, <1>2
  <2>3. Contiguous(z)
    BY <2>1, <2>2, ContiguousIs
  <2>4. z \in Where
    BY <2>1, <2>2 DEF ReadInv
  <2> QED  BY <1>1, <2>1, <2>2, <2>3, <2>4
<1> QED  BY <1>3, <1>4 DEF BlockRead

LEMMA LinkFailsBlocks ==
    ASSUME MtState, NEW A, NEW z, InBlocks(A, z), NEW t \in Threads, LinkFails(t)
    PROVE  SameCall /\ ReadInv' /\ \E z2 : InBlocks(A, z2)'
<1>1. /\ SameCall /\ pc[t] = "link" /\ UNCHANGED readVars
      /\ UNCHANGED <<blockIndex, needInterrupt, interruptIndex, out>>
      /\ threads' = threads /\ coders' = coders
      /\ me' = [me EXCEPT ![t].finish = TRUE, ![t].allocError = TRUE]
      /\ pc' = [pc EXCEPT ![t] = "pass"]
  BY DEF LinkFails, callVars, SameCall, interruptVars, Goto
<1>2. /\ A \in [Threads -> Where] /\ z \in Where /\ DOMAIN coders = Threads
      /\ \A u \in Threads : Placed(u, A, z)
      /\ Interrupts
  BY DEF InBlocks
<1>3. A[t] \in Where
  BY <1>2
<1>4. BlockRead(threads[t].inBuf, me[t], coders[t], A[t]) /\ (First(t) => OutAt(A[t]))
      /\ threads[t].inBuf \in Seq(Seq(Nat))
  BY <1>1, <1>2 DEF Placed
<1>5. PICK a \in Where : a = A[t]
  BY <1>3
<1>6. stream \in Seq(Symbols)
  BY CallIs DEF MtState
<1>7. /\ Linked(threads[t].inBuf, me[t].start, me[t].size, a) /\ Room(a) /\ me[t].size \in Nat
      /\ a + me[t].size \in Where /\ Contiguous(a + me[t].size)
      /\ Proper(stream, a) \/ (me[t].size = 0 /\ NothingLeft)
      /\ ~ me[t].interrupted /\ ~ me[t].threading /\ me[t].codeRes = OK
  BY <1>4, <1>5, <1>6, ReadOnlySoFar DEF MtState
<1>8. /\ DOMAIN me[t] = DOMAIN NoLocals /\ DOMAIN me = Threads /\ pc \in [Threads -> Pcs]
  BY DEF MtState, Shape
<1>9. /\ me'[t].finish = TRUE /\ me'[t].allocError = TRUE /\ me'[t].start = me[t].start
      /\ me'[t].size = me[t].size /\ me'[t].interrupted = me[t].interrupted
      /\ me'[t].threading = me[t].threading /\ me'[t].codeRes = me[t].codeRes
      /\ me'[t].blockIndex = me[t].blockIndex
  BY <1>1, <1>8, Locals DEF LocalsAreThere
<1>10. /\ \A u \in Threads : u # t => me'[u] = me[u] /\ pc'[u] = pc[u]
       /\ pc'[t] = "pass"
  BY <1>1, <1>8
<1>11. PICK z2 \in Where : z2 = a + me[t].size
  BY <1>7
<1>12. Where' = Where
  BY <1>1, CallStays
<1>13. Reading(t) /\ Reading(t)' /\ Busy(t) /\ Busy(t)'
  BY <1>1, <1>10 DEF Reading, Busy
<1>14. \A u \in Threads : u # t => Placed(u, A, z2)'
  <2>1. TAKE u \in Threads
  <2>2. HAVE u # t
  <2>3. Placed(u, A, z)
    BY <1>2
  <2>4. \A v \in Threads : v # t => /\ me'[v] = me[v] /\ threads'[v].inBuf = threads[v].inBuf
                                     /\ coders'[v] = coders[v] /\ pc'[v] = pc[v]
    BY <1>1, <1>10
  <2> QED  BY <1>1, <1>9, <1>13, <2>2, <2>3, <2>4, OthersStay DEF MtState
<1>15. First(t)' => OutAt(a)'
  <2>1. \A v \in Threads : (Busy(v)' <=> Busy(v)) /\ me'[v].blockIndex = me[v].blockIndex
    BY <1>9, <1>10, <1>13 DEF Busy
  <2>2. First(t)' => First(t)
    BY <2>1, FirstStays
  <2> QED  BY <1>1, <1>4, <1>5, <2>2, OutStays
<1>16. Troublesome(me'[t])
  BY <1>9 DEF Troublesome
<1>17. Room(a)' /\ (Contiguous(z2)' <=> Contiguous(z2)) /\ (NothingLeft' <=> NothingLeft)
       /\ (Proper(stream, a)' <=> Proper(stream, a))
  BY <1>1, <1>7, ReadStays, CallStays
<1>18. BlockHeld("pass", threads[t].inBuf, me[t], coders[t], a)'
  BY <1>1, <1>7, <1>9, <1>16, <1>17 DEF BlockHeld
<1>19. Ahead(me[t], coders[t], a, z2)'
  BY <1>7, <1>9, <1>11, <1>16, <1>17 DEF Ahead
<1>20. Placed(t, A, z2)'
  <2>1. A[t] = a /\ ~ Passed(t)' /\ pc'[t] = "pass"
    BY <1>5, <1>10 DEF Passed
  <2> QED  BY <1>1, <1>4, <1>7, <1>9, <1>13, <1>15, <1>18, <1>19, <2>1 DEF Placed
<1>21. Interrupts'
  BY <1>1, <1>2, <1>10, InterruptsStay
<1>22. ~ NobodyBusy'
  BY <1>13 DEF NobodyBusy
<1>23. A \in [Threads -> Where'] /\ z2 \in Where' /\ DOMAIN coders' = Threads
  BY <1>1, <1>2, <1>11, <1>12
<1>24. InBlocks(A, z2)'
  BY <1>14, <1>20, <1>21, <1>22, <1>23 DEF InBlocks
<1>25. ReadInv'
  <2>1. ReadInv /\ readProcessed' = readProcessed /\ readWasFinished' = readWasFinished /\ readRes' = readRes
    BY <1>1 DEF MtState, readVars
  <2>2. stream' = stream
    BY <1>1 DEF SameCall
  <2> QED  BY <1>12, <2>1, <2>2 DEF ReadInv
<1> QED  BY <1>1, <1>24, <1>25

-----------------------------------------------------------------------------
(* The reading is passed on. *)
Ready(c2, c) ==
    \/ c2 = [c EXCEPT !.dec = NewDecoder, !.dicPos = 0]
    \/ c2 = [c EXCEPT !.dec = NewDecoder, !.dicPos = 0, !.outBufSize = c.outPreSize]

LEMMA PreCodeIs ==
    ASSUME NEW t, NEW memory \in BOOLEAN, NEW p, p = PreCode(t, memory), NEW c, c = coders[t]
    PROVE  /\ c.inPreSize = 0 => p.res = "DATA" /\ p.coder = [c EXCEPT !.codeRes = "DATA"]
           /\ c.inPreSize # 0 => (p.res = OK /\ Ready(p.coder, c)) \/ p.res = "MEM"
<1> DEFINE bad == [c EXCEPT !.codeRes = "DATA"]
           fit == [c EXCEPT !.dec = NewDecoder, !.dicPos = 0]
           new == [c EXCEPT !.dec = NewDecoder, !.dicPos = 0, !.outBufSize = c.outPreSize]
           none == [c EXCEPT !.outBufSize = 0]
           fits == c.outBufSize >= c.outPreSize
<1>1. p = CASE c.inPreSize = 0 -> [res |-> "DATA", coder |-> bad]
            [] c.inPreSize # 0 /\ fits -> [res |-> OK, coder |-> fit]
            [] c.inPreSize # 0 /\ ~ fits /\ memory -> [res |-> OK, coder |-> new]
            [] OTHER -> [res |-> "MEM", coder |-> none]
  BY Zenon DEF PreCode
<1>2. Ready(fit, c) /\ Ready(new, c)
  BY Zenon DEF Ready
<1>3. bad = [c EXCEPT !.codeRes = "DATA"]
  OBVIOUS
<1> HIDE DEF bad, fit, new, none, fits
<1>4. CASE c.inPreSize = 0
  <2>1. p = [res |-> "DATA", coder |-> bad]
    BY <1>1, <1>4, Zenon
  <2>2. p.res = "DATA" /\ p.coder = bad
    BY <2>1
  <2> QED  BY <1>3, <1>4, <2>2, Zenon
<1>5. CASE c.inPreSize # 0 /\ fits
  <2>1. p = [res |-> OK, coder |-> fit]
    BY <1>1, <1>5, Zenon
  <2>2. p.res = OK /\ p.coder = fit
    BY <2>1
  <2> QED  BY <1>2, <1>5, <2>2, Zenon
<1>6. CASE c.inPreSize # 0 /\ ~ fits /\ memory
  <2>1. p = [res |-> OK, coder |-> new]
    BY <1>1, <1>6, Zenon
  <2>2. p.res = OK /\ p.coder = new
    BY <2>1
  <2> QED  BY <1>2, <1>6, <2>2, Zenon
<1>7. CASE c.inPreSize # 0 /\ ~ fits /\ ~ memory
  <2>1. p = [res |-> "MEM", coder |-> none]
    BY <1>1, <1>7, Zenon
  <2>2. p.res = "MEM"
    BY <2>1
  <2> QED  BY <1>7, <2>2, Zenon
<1> QED  BY <1>4, <1>5, <1>6, <1>7, Zenon

Seen(t) == me[t].interrupted \/ InterruptedAt(me[t].blockIndex)

\* How the block of a thread goes on then; l2 are its locals, c2 its coder.
PassedTo(t, w, l2, c2) ==
    LET l == me[t]
        c == coders[t]
    IN  /\ l2.size = l.size /\ l2.start = l.start /\ l2.blockIndex = l.blockIndex /\ l2.link = 1
        /\ l2.allocError = l.allocError /\ l2.overflow = l.overflow /\ l2.needWrite = l.needWrite
        /\ l2.interrupted <=> Seen(t)
        /\ w \in {"code", "write"}
        /\ l2.codeRes # OK => l2.finish
        /\ l.finish => l2.finish /\ ~ l2.threading
        /\ \/ Seen(t) /\ w = "write"
           \/ /\ ~ Seen(t) /\ ~ l.needCode
              /\ w = "write" /\ l2.codeRes = OK /\ c2 = c
           \/ /\ ~ Seen(t) /\ l.needCode /\ c.inPreSize = 0
              /\ w = "write" /\ l2.codeRes = "DATA" /\ ~ l2.threading /\ c2 = [c EXCEPT !.codeRes = "DATA"]
           \/ /\ ~ Seen(t) /\ l.needCode /\ c.inPreSize # 0
              /\ w = "write" /\ l2.codeRes = "MEM"
           \/ /\ ~ Seen(t) /\ l.needCode /\ c.inPreSize # 0
              /\ w = "write" /\ l2.codeRes = OK /\ l2.threading /\ l2.finish /\ ~ l.finish
           \/ /\ ~ Seen(t) /\ l.needCode /\ c.inPreSize # 0
              /\ w = "code" /\ l2.codeRes = OK /\ ~ l2.threading
              /\ (l2.finish <=> l.finish) /\ Ready(c2, c)

PassStep(t) ==
    /\ SameCall /\ UNCHANGED readVars /\ pc[t] = "pass"
    /\ UNCHANGED <<blockIndex, needInterrupt, interruptIndex, out>>
    /\ DOMAIN coders' = Threads
    /\ \A u \in Threads :
         /\ threads'[u].inBuf = threads[u].inBuf
         /\ u # t => /\ me'[u] = me[u] /\ coders'[u] = coders[u]
                     /\ pc'[u] = pc[u] \/ (pc[u] = "none" /\ pc'[u] = "idle")
    /\ PassedTo(t, pc'[t], me'[t], coders'[t])

LEMMA PassOnSteps ==
    ASSUME Shape, DOMAIN coders = Threads, NEW t \in Threads, NEW memory \in BOOLEAN, NEW created \in BOOLEAN,
           pc[t] = "pass", PassOn(t, memory, created)
    PROVE  PassStep(t)
<1> DEFINE codes == me[t].needCode /\ ~ Seen(t)
           p == PreCode(t, memory)
           res == IF codes THEN p.res ELSE OK
           finish == me[t].finish \/ res # OK \/ Seen(t)
           asks == ~ finish /\ WantsThread
           alone == asks /\ ~ created /\ numStartedThreads = 1
           more == asks /\ created
           started == numStartedThreads + (IF more THEN 1 ELSE 0)
           goesOn == ~ finish /\ ~ alone
           next == NextThread(t, started)
           need == me[t].needCode /\ res = OK /\ ~ alone
           l2 == [me[t] EXCEPT !.interrupted = Seen(t), !.codeRes = res, !.needCode = need,
                     !.finish = ~ goesOn, !.threading = alone, !.next = next,
                     !.link = 1, !.inCodePos = 0]
<1>1. /\ threads' = IF goesOn THEN [threads EXCEPT ![next].canRead = TRUE] ELSE threads
      /\ coders' = IF codes THEN [coders EXCEPT ![t] = p.coder] ELSE coders
      /\ pc' = [u \in Threads |->
                    CASE u = t -> IF codes /\ res = OK /\ ~ alone THEN "code" ELSE "write"
                      [] u # t /\ more /\ u = numStartedThreads -> "idle"
                      [] OTHER -> pc[u]]
      /\ me' = [me EXCEPT ![t] = l2]
      /\ UNCHANGED <<callVars, readVars, blockIndex, exitThread, interruptVars, switchVars,
                       filledVars, main, st, result, out>>
  BY Zenon DEF PassOn, Seen
<1>2. (finish <=> me[t].finish \/ res # OK \/ Seen(t)) /\ (alone => ~ finish) /\ (goesOn <=> ~ finish /\ ~ alone)
  OBVIOUS
<1>3. res = IF codes THEN p.res ELSE OK
  OBVIOUS
<1>4. more => numStartedThreads < limit_
  BY DEF WantsThread
<1>a. ASSUME NEW s PROVE DOMAIN [me[t] EXCEPT !.interrupted = s] = DOMAIN me[t]
  OBVIOUS
<1>5. l2 = [me[t] EXCEPT !.interrupted = Seen(t), !.codeRes = res, !.needCode = need,
                     !.finish = ~ goesOn, !.threading = alone, !.next = next,
                     !.link = 1, !.inCodePos = 0]
  OBVIOUS
<1>c. codes <=> me[t].needCode /\ ~ Seen(t)
  OBVIOUS
<1>p. /\ coders[t].inPreSize = 0 => p.res = "DATA" /\ p.coder = [coders[t] EXCEPT !.codeRes = "DATA"]
      /\ coders[t].inPreSize # 0 => (p.res = OK /\ Ready(p.coder, coders[t])) \/ p.res = "MEM"
  BY PreCodeIs
<1> HIDE DEF codes, p, res, finish, asks, alone, more, started, goesOn, next, need, l2
<1>6. /\ l2.size = me[t].size /\ l2.start = me[t].start /\ l2.blockIndex = me[t].blockIndex /\ l2.link = 1
      /\ l2.allocError = me[t].allocError /\ l2.overflow = me[t].overflow /\ l2.needWrite = me[t].needWrite
      /\ l2.interrupted = Seen(t) /\ l2.codeRes = res /\ l2.finish = (~ goesOn) /\ l2.threading = alone
  <2>1. DOMAIN me[t] = DOMAIN NoLocals
    BY DEF Shape
  <2>2. PICK s, f, n, a, r, x :
          s = Seen(t) /\ f = (~ goesOn) /\ n = need /\ a = alone /\ r = res /\ x = next
    BY Zenon
  <2>3. l2 = [me[t] EXCEPT !.interrupted = s, !.codeRes = r, !.needCode = n,
                     !.finish = f, !.threading = a, !.next = x,
                     !.link = 1, !.inCodePos = 0]
    BY <1>5, <2>2, Zenon
  <2>4. /\ l2.size = me[t].size /\ l2.start = me[t].start /\ l2.blockIndex = me[t].blockIndex /\ l2.link = 1
        /\ l2.allocError = me[t].allocError /\ l2.overflow = me[t].overflow /\ l2.needWrite = me[t].needWrite
        /\ l2.interrupted = s /\ l2.codeRes = r /\ l2.finish = f /\ l2.threading = a
    BY <2>1, <2>3, Locals DEF LocalsAreThere
  <2> QED  BY <2>2, <2>4, Zenon
<1>7. /\ SameCall /\ UNCHANGED readVars /\ UNCHANGED <<blockIndex, needInterrupt, interruptIndex, out>>
  BY <1>1 DEF SameCall, callVars, interruptVars
<1>8. me'[t] = l2 /\ \A u \in Threads : u # t => me'[u] = me[u]
  BY <1>1 DEF Shape
<1>9. /\ DOMAIN coders' = Threads /\ \A u \in Threads : u # t => coders'[u] = coders[u]
      /\ coders'[t] = IF codes THEN p.coder ELSE coders[t]
  BY <1>1
<1>10. \A u \in Threads : threads'[u].inBuf = threads[u].inBuf
  BY <1>1 DEF Shape
<1>11. /\ pc'[t] = IF codes /\ res = OK /\ ~ alone THEN "code" ELSE "write"
       /\ \A u \in Threads : u # t => pc'[u] = pc[u] \/ (pc[u] = "none" /\ pc'[u] = "idle")
  <2>1. \A u \in Threads : u # t /\ more /\ u = numStartedThreads => pc[u] = "none"
    BY ThreadsAre DEF Shape
  <2> QED  BY <1>1, <2>1
<1>12. PassedTo(t, pc'[t], l2, coders'[t])
  <2>1. CASE Seen(t)
    <3>1. ~ codes /\ finish /\ ~ alone /\ res = OK
      BY <1>2, <1>3, <1>c, <2>1
    <3> QED  BY <1>2, <1>6, <1>11, <2>1, <3>1 DEF PassedTo
  <2>2. CASE ~ Seen(t) /\ ~ me[t].needCode
    <3>1. ~ codes /\ res = OK /\ coders'[t] = coders[t]
      BY <1>3, <1>9, <1>c, <2>2
    <3> QED  BY <1>2, <1>6, <1>11, <2>2, <3>1 DEF PassedTo
  <2>3. CASE ~ Seen(t) /\ me[t].needCode /\ coders[t].inPreSize = 0
    <3>1. codes /\ res = "DATA" /\ coders'[t] = [coders[t] EXCEPT !.codeRes = "DATA"]
      BY <1>3, <1>9, <1>c, <1>p, <2>3
    <3>2. finish /\ ~ alone
      BY <1>2, <3>1 DEF OK
    <3> QED  BY <1>2, <1>6, <1>11, <2>3, <3>1, <3>2 DEF PassedTo, OK
  <2>4. CASE ~ Seen(t) /\ me[t].needCode /\ coders[t].inPreSize # 0 /\ p.res = "MEM"
    <3>1. codes /\ res = "MEM"
      BY <1>3, <1>c, <2>4
    <3>2. finish /\ ~ alone
      BY <1>2, <3>1 DEF OK
    <3> QED  BY <1>2, <1>6, <1>11, <2>4, <3>1, <3>2 DEF PassedTo, OK
  <2>5. CASE ~ Seen(t) /\ me[t].needCode /\ coders[t].inPreSize # 0 /\ p.res = OK /\ Ready(p.coder, coders[t])
    <3>1. codes /\ res = OK /\ coders'[t] = p.coder
      BY <1>3, <1>9, <1>c, <2>5
    <3> QED  BY <1>2, <1>6, <1>11, <2>5, <3>1 DEF PassedTo
  <2> QED  BY <1>p, <2>1, <2>2, <2>3, <2>4, <2>5
<1> QED  BY <1>7, <1>8, <1>9, <1>10, <1>11, <1>12 DEF PassStep

LEMMA PassSteps ==
    ASSUME Shape, DOMAIN coders = Threads, NEW t \in Threads, Pass(t) \/ NoMemory(t) \/ NoThread(t)
    PROVE  PassStep(t)
<1>1. PICK memory \in BOOLEAN, created \in BOOLEAN : PassOn(t, memory, created)
  BY Zenon DEF Pass, NoMemory, NoThread
<1>2. pc[t] = "pass"
  BY DEF Pass, NoMemory, NoThread
<1> QED  BY <1>1, <1>2, PassOnSteps

-----------------------------------------------------------------------------
LEMMA CoderFields == DOMAIN NewCoder = {"dec", "dicPos", "parseStatus", "state", "inPreSize", "outPreSize",
                                        "inCodeSize", "outCodeSize", "codeRes", "outBuf", "outBufSize"}
  BY DEF NewCoder

\* The coder before its first link.
LEMMA CoderReady ==
    ASSUME NEW c, Fields(c), NEW c2, Ready(c2, c), c.outPreSize \in Nat
    PROVE  /\ Fields(c2) /\ c2.dec = NewDecoder /\ c2.dicPos = 0
           /\ c2.inPreSize = c.inPreSize /\ c2.outPreSize = c.outPreSize /\ c2.parseStatus = c.parseStatus
           /\ c2.state = c.state /\ c2.codeRes = c.codeRes /\ c2.inCodeSize = c.inCodeSize
           /\ c2.outCodeSize = c.outCodeSize /\ c2.outBuf = c.outBuf
  BY CoderFields DEF Fields, Ready

LEMMA CoderBad ==
    ASSUME NEW c, Fields(c), NEW c2, c2 = [c EXCEPT !.codeRes = "DATA"]
    PROVE  /\ Fields(c2) /\ c2.codeRes = "DATA"
           /\ c2.inPreSize = c.inPreSize /\ c2.outPreSize = c.outPreSize /\ c2.parseStatus = c.parseStatus
           /\ c2.state = c.state /\ c2.inCodeSize = c.inCodeSize
           /\ c2.outCodeSize = c.outCodeSize /\ c2.outBuf = c.outBuf
  BY CoderFields DEF Fields

LEMMA NothingCame ==
    ASSUME stream \in Seq(Symbols), NEW a \in Where, NEW c, Fields(c), c.outCodeSize = 0
    PROVE  CameOut(c, a, 0) /\ Good(stream, outSize, a, a)
<1>1. a \in Nat /\ a + 0 = a
  BY DEF Where
<1>2. PICK x \in Nat : x = Count(stream, a)
  BY WalkTypes DEF Where
<1>3. 0 = x - x
  BY <1>2
<1>4. Len(c.outBuf) \in Nat
  BY DEF Fields
<1>5. CameOut(c, a, 0)
  BY <1>1, <1>2, <1>3, <1>4 DEF CameOut
<1>6. Good(stream, outSize, a, a)
  BY <1>1 DEF Good, AllAccepted
<1> QED  BY <1>5, <1>6

LEMMA ParsedAs ==
    ASSUME NEW c, NEW a, NEW size, Parsed(c, a, size), NEW c2,
           c2.inPreSize = c.inPreSize, c2.outPreSize = c.outPreSize, c2.parseStatus = c.parseStatus,
           c2.state = c.state
    PROVE  Parsed(c2, a, size)
  BY DEF Parsed

LEMMA AheadAs ==
    ASSUME NEW l, NEW c, NEW a, NEW z, Ahead(l, c, a, z), NEW l2, NEW c2, l2.size = l.size,
           c2.parseStatus = c.parseStatus, ~ Troublesome(l), ~ Troublesome(l2)
    PROVE  Ahead(l2, c2, a, z)
  BY DEF Ahead

LEMMA AheadTroubled ==
    ASSUME NEW l, NEW c, NEW a, NEW z, Ahead(l, c, a, z), NEW l2, NEW c2, l2.size = l.size,
           Troublesome(l2), Proper(stream, a) \/ (l.size = 0 /\ NothingLeft)
    PROVE  Ahead(l2, c2, a, z)
  BY DEF Ahead

LEMMA BlockPassed ==
    ASSUME stream \in Seq(Symbols), outSize \in Nat, NEW a \in Where, NEW t, NEW inBuf, NEW z,
           BlockHeld("pass", inBuf, me[t], coders[t], a), Ahead(me[t], coders[t], a, z),
           NEW w, NEW l2, NEW c2, PassedTo(t, w, l2, c2), ~ Seen(t)
    PROVE  BlockHeld(w, inBuf, l2, c2, a) /\ Ahead(l2, c2, a, z)
<1>1. PICK l, c : l = me[t] /\ c = coders[t]
  OBVIOUS
<1>2. /\ l2.size = l.size /\ l2.start = l.start /\ l2.link = 1
      /\ l2.allocError = l.allocError /\ l2.overflow = l.overflow /\ l2.needWrite = l.needWrite
      /\ w \in {"code", "write"}
      /\ l2.codeRes # OK => l2.finish
      /\ l.finish => l2.finish /\ ~ l2.threading
      /\ \/ /\ ~ l.needCode
            /\ w = "write" /\ l2.codeRes = OK /\ c2 = c
         \/ /\ l.needCode /\ c.inPreSize = 0
            /\ w = "write" /\ l2.codeRes = "DATA" /\ ~ l2.threading /\ c2 = [c EXCEPT !.codeRes = "DATA"]
         \/ /\ l.needCode /\ c.inPreSize # 0
            /\ w = "write" /\ l2.codeRes = "MEM"
         \/ /\ l.needCode /\ c.inPreSize # 0
            /\ w = "write" /\ l2.codeRes = OK /\ l2.threading /\ l2.finish /\ ~ l.finish
         \/ /\ l.needCode /\ c.inPreSize # 0
            /\ w = "code" /\ l2.codeRes = OK /\ ~ l2.threading
            /\ (l2.finish <=> l.finish) /\ Ready(c2, c)
  BY <1>1 DEF PassedTo
<1>3. /\ Linked(inBuf, l.start, l.size, a) /\ Room(a)
      /\ Troublesome(l) => l.finish
      /\ ~ l.threading /\ l.codeRes = OK
      /\ Ahead(l, c, a, z)
  BY <1>1 DEF BlockHeld
<1>4. CASE Troublesome(l)
  <2>1. l.allocError \/ l.overflow
    BY <1>3, <1>4 DEF Troublesome, OK
  <2>2. Troublesome(l2) /\ l2.finish
    BY <1>2, <1>3, <1>4, <2>1 DEF Troublesome
  <2>3. Proper(stream, a) \/ (l.size = 0 /\ NothingLeft)
    BY <1>3, <1>4 DEF Ahead
  <2>4. Ahead(l2, c2, a, z)
    BY <1>2, <1>3, <2>2, <2>3, AheadTroubled
  <2>5. w = "code" => l2.codeRes = OK
    BY <1>2 DEF OK
  <2> QED  BY <1>2, <1>3, <2>2, <2>4, <2>5 DEF BlockHeld
<1>5. CASE ~ Troublesome(l)
  <2>1. /\ Fields(c) /\ l.needWrite /\ Parsed(c, a, l.size)
        /\ l.finish <=> c.parseStatus # "block"
        /\ l.needCode /\ c.codeRes = OK
        /\ c.inCodeSize = 0 /\ c.outCodeSize = 0
    BY <1>1, <1>5 DEF BlockHeld
  <2>2. /\ c.inPreSize = l.size /\ c.outPreSize = Count(stream, a + l.size) - Count(stream, a)
        /\ a + l.size <= Len(stream) /\ (l.size > 0 => Proper(stream, a))
        /\ c.parseStatus = "block" => l.size > 0
    BY <2>1 DEF Parsed
  <2>3. l.size \in Nat /\ a \in Nat /\ Len(stream) \in Nat /\ l.start \in Nat
    BY <1>3 DEF Linked, LinksHold, Where
  <2>4. ~ l.allocError /\ ~ l.overflow
    BY <1>5 DEF Troublesome
  <2>5. CASE c.inPreSize = 0 /\ l2.codeRes = "DATA"
    <3>1. w = "write" /\ ~ l2.threading /\ c2 = [c EXCEPT !.codeRes = "DATA"]
      BY <1>2, <2>1, <2>5 DEF OK
    <3>2. ~ Troublesome(l2)
      BY <1>2, <2>4, <2>5, <3>1 DEF Troublesome
    <3>3. /\ Fields(c2) /\ c2.codeRes = "DATA"
          /\ c2.inPreSize = c.inPreSize /\ c2.outPreSize = c.outPreSize /\ c2.parseStatus = c.parseStatus
          /\ c2.state = c.state /\ c2.inCodeSize = c.inCodeSize
          /\ c2.outCodeSize = c.outCodeSize /\ c2.outBuf = c.outBuf
      BY <2>1, <3>1, CoderBad
    <3>4. Parsed(c2, a, l2.size)
      BY <1>2, <2>1, <3>3, ParsedAs
    <3>5. CameOut(c2, a, 0) /\ Good(stream, outSize, a, a)
      BY <2>1, <3>3, NothingCame
    <3>6. l2.size = 0 /\ a \in a..(a + 0) /\ a - a = 0
      BY <1>2, <2>2, <2>3, <2>5
    <3>7. CodedInPart(c2, l2, a)
      BY <2>5, <3>3, <3>5, <3>6 DEF CodedInPart
    <3>8. l2.finish /\ c2.parseStatus # "block"
      BY <1>2, <2>1, <2>2, <2>5, <3>3, <3>6 DEF OK
    <3>9. Ahead(l2, c2, a, z)
      BY <1>2, <1>3, <1>5, <3>2, <3>3, AheadAs
    <3>10. /\ w # "pass" /\ w # "code" /\ l2.needWrite
           /\ Linked(inBuf, l2.start, l2.size, a)
      BY <1>2, <1>3, <2>1, <3>1
    <3> QED  BY <1>3, <3>2, <3>3, <3>4, <3>7, <3>8, <3>9, <3>10 DEF BlockHeld
  <2>6. CASE w = "write" /\ ~ (c.inPreSize = 0 /\ l2.codeRes = "DATA")
    <3>1. Troublesome(l2) /\ l2.finish /\ c.inPreSize # 0
      BY <1>2, <2>1, <2>6 DEF Troublesome, OK
    <3>2. Proper(stream, a)
      BY <2>2, <2>3, <3>1
    <3>3. Ahead(l2, c2, a, z)
      BY <1>2, <1>3, <3>1, <3>2, AheadTroubled
    <3>4. Linked(inBuf, l2.start, l2.size, a)
      BY <1>2, <1>3
    <3> QED  BY <1>3, <2>6, <3>1, <3>3, <3>4 DEF BlockHeld
  <2>7. CASE w = "code"
    <3>1. l2.codeRes = OK /\ ~ l2.threading /\ (l2.finish <=> l.finish) /\ Ready(c2, c) /\ c.inPreSize # 0
      BY <1>2, <2>7
    <3>2. ~ Troublesome(l2)
      BY <1>2, <2>4, <3>1 DEF Troublesome, OK
    <3>3. c.outPreSize \in Nat
      <4>1. PICK b \in 0..Len(stream) : b = a + l.size /\ b \in a..Len(stream)
        BY <2>2, <2>3
      <4>2. a \in 0..Len(stream)
        BY DEF Where
      <4>3. Count(stream, a) \in Nat /\ Count(stream, b) \in Nat
        BY <4>1, <4>2, WalkTypes
      <4>4. Count(stream, a) <= Count(stream, b)
        BY <4>1, <4>2, OutGrows
      <4>5. PICK x \in Nat, y \in Nat : x = Count(stream, a) /\ y = Count(stream, b)
        BY <4>3
      <4>6. c.outPreSize = y - x /\ x <= y
        BY <2>2, <4>1, <4>4, <4>5
      <4> QED  BY <4>6
    <3>4. /\ Fields(c2) /\ c2.dec = NewDecoder /\ c2.dicPos = 0
          /\ c2.inPreSize = c.inPreSize /\ c2.outPreSize = c.outPreSize /\ c2.parseStatus = c.parseStatus
          /\ c2.state = c.state /\ c2.codeRes = c.codeRes /\ c2.inCodeSize = c.inCodeSize
          /\ c2.outCodeSize = c.outCodeSize /\ c2.outBuf = c.outBuf
      BY <2>1, <3>1, <3>3, CoderReady
    <3>5. Parsed(c2, a, l2.size)
      BY <1>2, <2>1, <3>4, ParsedAs
    <3>6. CameOut(c2, a, 0) /\ Good(stream, outSize, a, a)
      BY <2>1, <3>4, NothingCame
    <3>7. Off(l2.start, l2.link) = 0 /\ 0 < l2.size /\ a + 0 = a /\ 1 \in Nat \ {0}
      BY <1>2, <2>2, <2>3, <3>1 DEF Off
    <3>8. Coding(c2, l2, a)
      BY <1>2, <2>1, <3>1, <3>4, <3>6, <3>7 DEF Coding
    <3>9. Ahead(l2, c2, a, z)
      BY <1>2, <1>3, <1>5, <3>2, <3>4, AheadAs
    <3>10. /\ w # "pass" /\ w # "write" /\ l2.needWrite /\ (l2.finish <=> c2.parseStatus # "block")
           /\ Linked(inBuf, l2.start, l2.size, a)
      BY <1>2, <1>3, <2>1, <2>7, <3>1, <3>4
    <3> QED  BY <1>3, <3>1, <3>2, <3>4, <3>5, <3>8, <3>9, <3>10 DEF BlockHeld
  <2> QED  BY <1>2, <2>5, <2>6, <2>7
<1> QED  BY <1>4, <1>5

-----------------------------------------------------------------------------
\* Nothing is read or written, and the others stay where they are.
LEMMA QuietStays ==
    ASSUME SameCall, UNCHANGED readVars, UNCHANGED <<blockIndex, out>>,
           NEW u \in Threads, NEW A, NEW z, Placed(u, A, z), StaysPut(u),
           \A v \in Threads : (Busy(v)' <=> Busy(v)) /\ me'[v].blockIndex = me[v].blockIndex,
           Busy(u) /\ InterruptedAt(me[u].blockIndex) => InterruptedAt(me[u].blockIndex)'
    PROVE  Placed(u, A, z)'
<1>1. First(u)' => First(u)
  BY FirstStays
<1>2. PICK a : a = A[u]
  OBVIOUS
<1>3. OutAt(a) => OutAt(a)'
  BY OutStays
<1>4. First(u)' => OutAt(A[u])'
  BY <1>1, <1>2, <1>3, Zenon DEF Placed
<1>5. IsLast(u)' <=> IsLast(u)
  BY DEF IsLast
<1>6. Passed(u) => Held(u)
  BY DEF Passed, Held
<1>7. Passed(u) /\ ~ me[u].interrupted /\ ~ me[u].finish /\ ~ IsLast(u)' => A[me[u].next] = A[u] + me[u].size
  BY <1>5, <1>6 DEF Placed
<1>8. Around(u, A, z, A, z)
  BY <1>4, <1>5, <1>7 DEF Around
<1> QED  BY <1>8, PlacedStays

LEMMA ReadInvStays ==
    ASSUME SameCall, ReadInv, UNCHANGED readVars
    PROVE  ReadInv'
<1>1. ReadInv /\ readProcessed' = readProcessed /\ readWasFinished' = readWasFinished /\ readRes' = readRes
      /\ stream' = stream
  BY DEF readVars, SameCall
<1>2. Where' = Where
  BY CallStays
<1> QED  BY <1>1, <1>2 DEF ReadInv

LEMMA PassBlocks ==
    ASSUME MtState, NEW A, NEW z, InBlocks(A, z), NEW t \in Threads, Pass(t) \/ NoMemory(t) \/ NoThread(t)
    PROVE  SameCall /\ ReadInv' /\ InBlocks(A, z)'
<1>1. /\ A \in [Threads -> Where] /\ z \in Where /\ DOMAIN coders = Threads
      /\ \A u \in Threads : Placed(u, A, z)
      /\ Interrupts
  BY DEF InBlocks
<1>2. PassStep(t)
  BY <1>1, PassSteps DEF MtState
<1>3. /\ SameCall /\ UNCHANGED readVars /\ pc[t] = "pass"
      /\ UNCHANGED <<blockIndex, needInterrupt, interruptIndex, out>>
      /\ DOMAIN coders' = Threads
      /\ \A u \in Threads :
           /\ threads'[u].inBuf = threads[u].inBuf
           /\ u # t => /\ me'[u] = me[u] /\ coders'[u] = coders[u]
                       /\ pc'[u] = pc[u] \/ (pc[u] = "none" /\ pc'[u] = "idle")
      /\ PassedTo(t, pc'[t], me'[t], coders'[t])
  BY <1>2 DEF PassStep
<1>4. PICK w, l2, c2 : w = pc'[t] /\ l2 = me'[t] /\ c2 = coders'[t]
  OBVIOUS
<1>5. PassedTo(t, w, l2, c2)
  BY <1>3, <1>4, Zenon
<1>6. /\ l2.blockIndex = me[t].blockIndex /\ w \in {"code", "write"} /\ (l2.interrupted <=> Seen(t))
      /\ Seen(t) => w = "write"
  BY <1>5 DEF PassedTo
<1>7. Busy(t) /\ Busy(t)' /\ IsLast(t) /\ Held(t) /\ Passed(t)'
  <2>1. Reading(t)
    BY <1>3 DEF Reading
  <2>2. IsLast(t)
    BY <2>1 DEF MtState, Together, Readers
  <2> QED  BY <1>3, <1>4, <1>6, <2>2 DEF Busy, Held, Passed
<1>8. \A v \in Threads : (Busy(v)' <=> Busy(v)) /\ me'[v].blockIndex = me[v].blockIndex
  BY <1>3, <1>4, <1>6, <1>7 DEF Busy
<1>9. ASSUME NEW i PROVE InterruptedAt(i)' <=> InterruptedAt(i)
  BY <1>3 DEF InterruptedAt
<1>10. \A u \in Threads : u # t => Placed(u, A, z)'
  <2>1. TAKE u \in Threads
  <2>2. HAVE u # t
  <2>3. Placed(u, A, z)
    BY <1>1
  <2>4. CASE pc'[u] = pc[u]
    <3>1. StaysPut(u)
      BY <1>3, <2>2, <2>4 DEF StaysPut
    <3>2. Busy(u) /\ InterruptedAt(me[u].blockIndex) => InterruptedAt(me[u].blockIndex)'
      BY <1>3, <2>2 DEF InterruptedAt
    <3> QED  BY <1>3, <1>8, <2>3, <3>1, <3>2, QuietStays
  <2>5. CASE pc[u] = "none" /\ pc'[u] = "idle"
    <3>1. ~ Busy(u) /\ ~ Busy(u)' /\ ~ Held(u)' /\ ~ First(u)' /\ pc'[u] # "link" /\ pc'[u] # "code"
      BY <2>5 DEF Busy, Held, First
    <3>2. threads[u].inBuf \in Seq(Seq(Nat)) /\ Fields(coders[u])
      BY <2>3, <3>1 DEF Placed
    <3> QED  BY <1>3, <2>2, <3>1, <3>2 DEF Placed
  <2> QED  BY <1>3, <2>2, <2>4, <2>5
<1>11. PICK a \in Where : a = A[t]
  BY <1>1
<1>12. /\ threads[t].inBuf \in Seq(Seq(Nat)) /\ (First(t) => OutAt(a))
       /\ ~ me[t].interrupted => /\ BlockHeld("pass", threads[t].inBuf, me[t], coders[t], a)
                                 /\ Ahead(me[t], coders[t], a, z)
       /\ me[t].interrupted => InterruptedAt(me[t].blockIndex)
  BY <1>1, <1>3, <1>7, <1>11 DEF Placed
<1>13. PICK inBuf : inBuf = threads[t].inBuf /\ inBuf = threads'[t].inBuf
  BY <1>3
<1>14. stream \in Seq(Symbols) /\ outSize \in Nat
  BY CallIs DEF MtState
<1>15. ~ Seen(t) => BlockHeld(w, inBuf, l2, c2, a) /\ Ahead(l2, c2, a, z)
  <2>1. ASSUME ~ Seen(t) PROVE BlockHeld(w, inBuf, l2, c2, a) /\ Ahead(l2, c2, a, z)
    <3>1. ~ me[t].interrupted
      BY <2>1 DEF Seen
    <3>2. BlockHeld("pass", inBuf, me[t], coders[t], a) /\ Ahead(me[t], coders[t], a, z)
      BY <1>12, <1>13, <3>1
    <3> QED  BY <1>5, <1>14, <2>1, <3>2, BlockPassed
  <2> QED  BY <2>1
<1>16. ~ Seen(t) => BlockHeld(w, inBuf, l2, c2, a)' /\ Ahead(l2, c2, a, z)'
  BY <1>3, <1>15, HeldStays, ReadStays
<1>17. Placed(t, A, z)'
  <2>1. pc[t]' = w /\ me[t]' = l2 /\ coders[t]' = c2 /\ threads[t].inBuf' = inBuf /\ A[t] = a
    BY <1>4, <1>11, <1>13
  <2>2. First(t)' => OutAt(a)'
    BY <1>3, <1>8, <1>12, FirstStays, OutStays
  <2>3. l2.interrupted => InterruptedAt(l2.blockIndex)'
    <3>1. l2.interrupted => InterruptedAt(me[t].blockIndex)
      BY <1>6, <1>12 DEF Seen
    <3> QED  BY <1>3, <1>6, <3>1 DEF InterruptedAt
  <2>4. IsLast(t)'
    BY <1>3, <1>4, <1>6, <1>7 DEF IsLast
  <2>5. w # "link" /\ (w = "code" => ~ l2.interrupted)
    BY <1>6
  <2> QED  BY <1>6, <1>7, <1>12, <1>13, <1>16, <2>1, <2>2, <2>3, <2>4, <2>5 DEF Placed
<1>18. Interrupts'
  <2>1. ASSUME needInterrupt' PROVE \E u \in Threads : /\ pc'[u] = "write" /\ me'[u].blockIndex = interruptIndex'
                                        /\ me'[u].codeRes # OK
    <3>1. PICK u \in Threads : pc[u] = "write" /\ me[u].blockIndex = interruptIndex /\ me[u].codeRes # OK
      BY <1>1, <1>3, <2>1 DEF Interrupts
    <3>2. u # t /\ pc'[u] = pc[u] /\ me'[u] = me[u]
      BY <1>3, <3>1
    <3> QED  BY <1>3, <3>1, <3>2
  <2> QED  BY <2>1 DEF Interrupts
<1>19. ~ NobodyBusy'
  BY <1>7 DEF NobodyBusy
<1>20. A \in [Threads -> Where'] /\ z \in Where'
  BY <1>1, <1>3, CallStays
<1>21. InBlocks(A, z)'
  BY <1>3, <1>10, <1>17, <1>18, <1>19, <1>20 DEF InBlocks
<1>22. ReadInv'
  BY <1>3, ReadInvStays DEF MtState
<1> QED  BY <1>3, <1>21, <1>22
===============================================================================
