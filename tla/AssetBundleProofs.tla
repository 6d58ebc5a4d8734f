-------------------------- MODULE AssetBundleProofs --------------------------
(***************************************************************************)
(* What TLAPS proves of BundleBuilder and of AssetBundle, for every list   *)
(* of input files, every compression type, every number of processors,     *)
(* every size and any sequence of calls, in three parts.                   *)
(*                                                                         *)
(* What the tasks and the constructor do to each other.                    *)
(*                                                                         *)
(* What the bundle holds, which asks that no input is given twice and that *)
(* none has the name of the temporary file of another. A path that is no   *)
(* input belongs to one task, which writes it once before it pushes it,    *)
(* and nobody writes files any more after the wait. So the vector holds    *)
(* the file of every task that pushed, once; the first pass finds each of  *)
(* them whole; and the second finds what the first found, because it       *)
(* deletes only files it is past.                                          *)
(*                                                                         *)
(* What the reader finds: ReadData and ExtractToDirectory give the bytes   *)
(* that were packed, and the bundle implements Archive. Every chunk of the *)
(* bundle is what its entry says, made of an input that is still there,    *)
(* and the entries lie one behind the other; this stays so when the        *)
(* process dies in the middle. As long as the stream is good, the index of *)
(* the object is that of the bundle, so at the place of an entry there is  *)
(* one chunk of its size, its own; and the sizes tell the reader what the  *)
(* writer has done to it.                                                  *)
(***************************************************************************)
EXTENDS AssetBundle, FiniteSetTheorems, SequenceTheorems, WellFoundedInduction, TLAPS

(* What the lock buys: between lock_guard and the end of the task a task   *)
(* is alone, and the end of tempFilesPaths it found is still the end when  *)
(* it fills it.                                                            *)
InLock == {"push", "fill", "count", "load", "decrement", "unlock"}
LockHeld == \A t \in Tasks : pc[t] \in InLock => mtx = t
FillsAtEnd == \A t \in Tasks : pc[t] = "fill" => loaded[t] = Len(tempFilesPaths)
LockInv == LockHeld /\ FillsAtEnd

(* What the counting buys: numCompressed is the number of the tasks that   *)
(* have nothing left to do but the running counter and the lock.           *)
Counted == {t \in Tasks : pc[t] \in Settled}
CountMatches == arcC # "NoCompression" => numCompressed = Cardinality(Counted)
NotYetStarted ==
    \A t \in Tasks :
        \/ ctor = "dispatch"
        \/ ctor \in {"spawn", "call"} /\ t > i
        \/ ctor = "called" /\ t > i + 1
        => pc[t] = "unborn"
CallsAreSequential == ctor \in {"call", "called", "cleanup"} => arcC \notin Threaded
CountInv == CountMatches /\ NotYetStarted /\ CallsAreSequential /\ SettledAfterWait

IInv == TypeOK /\ LockInv /\ CountInv

-----------------------------------------------------------------------------
(* Types of the operators. *)

LEMMA TasksAreNumbers == argslen \in Nat /\ Tasks \subseteq Nat \ {0}
<1>1. argslen \in Nat
  BY InFilesAssumption, LenProperties DEF argslen
<1> QED
  BY <1>1 DEF Tasks

LEMMA InFilesArePaths == \A t \in Tasks : InFiles[t] \in Paths \ {<<>>}
<1> SUFFICES ASSUME NEW t \in Tasks PROVE InFiles[t] \in Paths \ {<<>>}
  OBVIOUS
<1>1. InFiles[t] \in Paths
  BY InFilesAssumption, ElementOfSeq DEF Tasks, argslen
<1>2. Len(InFiles[t]) >= 2
  BY InFilesAssumption
<1>3. InFiles[t] # <<>>
  BY <1>2
<1> QED
  BY <1>1, <1>3

LEMMA TempPathIsPath ==
  ASSUME NEW p \in Paths, NEW n \in Nat
  PROVE  TempPath(p, n) \in Paths \ {<<>>}
BY AppendProperties DEF TempPath, Paths

LEMMA TempPartsAreTyped ==
  ASSUME NEW p \in Paths \ {<<>>}
  PROVE  TempBase(p) \in Paths /\ TempSize(p) \in Nat
<1>1. Len(p) \in Nat \ {0} /\ \A j \in 1..Len(p) : p[j] \in Nat
  BY LenProperties, EmptySeq, ElementOfSeq DEF Paths
<1>2. TempSize(p) \in Nat
  BY <1>1 DEF TempSize
<1>3. TempBase(p) \in Paths
  BY <1>1, SubSeqProperties DEF TempBase, Paths
<1> QED
  BY <1>2, <1>3

LEMMA RelativeIsPath ==
  ASSUME NEW p \in Paths
  PROVE  getRelative(p) \in Paths
<1>1. CASE p # <<>> /\ p[1] = RelativeTo
  BY <1>1, HeadTailProperties DEF getRelative, Paths
<1>2. CASE ~ (p # <<>> /\ p[1] = RelativeTo)
  <2>1. <<0>> \in Seq(Nat)
    OBVIOUS
  <2> QED
    BY <1>2, <2>1, ConcatProperties DEF getRelative, Paths
<1> QED
  BY <1>1, <1>2

LEMMA CompressionsAreContent ==
  ASSUME NEW c \in Content, TypeOK
  PROVE  Compressions(c) \subseteq Content
<1>1. \A n \in PackedSizes : Packed(c, n) \in Content
  BY SizesAssumption DEF Packed, Content
<1>2. Compressions(c) \subseteq {c} \cup {Packed(c, n) : n \in PackedSizes}
  BY Zenon DEF Compressions
<1> QED
  BY <1>1, <1>2

LEMMA WithFileTyped ==
  ASSUME TypeOK, NEW p \in Paths, NEW c \in Content
  PROVE  /\ DOMAIN WithFile(p, c) \subseteq Paths
         /\ WithFile(p, c) \in [DOMAIN WithFile(p, c) -> Content]
BY DEF TypeOK, WithFile

LEMMA CounterTyped ==
  ASSUME NEW n \in Nat
  PROVE  n % CounterRange \in 0..(CounterRange - 1)
<1>1. CounterRange \in Nat /\ CounterRange > 0
  BY CounterAssumption, TasksAreNumbers
<1> QED
  BY <1>1

LEMMA MappedSeq ==
  ASSUME NEW S, NEW s \in Seq(S), NEW T, NEW f, f \in [DOMAIN s -> T]
  PROVE  f \in Seq(T) /\ Len(f) = Len(s)
<1>1. Len(s) \in Nat /\ DOMAIN s = 1..Len(s)
  BY LenProperties
<1>2. f \in Seq(T)
  BY <1>1, SeqDef
<1>3. DOMAIN f = 1..Len(f) /\ Len(f) \in Nat
  BY <1>2, LenProperties
<1> QED
  BY <1>1, <1>2, <1>3

-----------------------------------------------------------------------------
(* Type correctness.  PushTemp is the one step that needs more than types: *)
(* it fills the slot it found, which is inside the vector because of the   *)
(* lock.                                                                   *)

LEMMA TypeOfTaskSteps ==
  ASSUME TypeOK, LockInv, NEW t \in Tasks, CompressionTask(t)
  PROVE  TypeOK'
<1> USE TasksAreNumbers, InFilesArePaths DEF Step, TaskPoint, ConstructorPoint
<1>1. CASE LoadForIncrement(t)
  BY <1>1, SMTT(30) DEF LoadForIncrement, TypeOK, settings, taskVars, sharedVars, indexVars
<1>2. CASE StoreIncrement(t)
  <2>1. numRunningThreads' \in 0..(CounterRange - 1)
    <3>1. loaded[t] + 1 \in Nat
      BY DEF TypeOK
    <3> QED
      BY <1>2, <3>1, CounterTyped DEF StoreIncrement
  <2> QED
    BY <1>2, <2>1 DEF StoreIncrement, TypeOK, settings, taskVars, sharedVars, indexVars
<1>3. CASE OpenMissing(t)
  BY <1>3 DEF OpenMissing, TypeOK, settings, taskVars, sharedVars, indexVars
<1>4. CASE OpenNull(t)
  BY <1>4 DEF OpenNull, TypeOK, settings, taskVars, sharedVars, indexVars
<1>5. CASE OpenFile(t)
  <2>1. disk[InFiles[t]] \in Content
    BY <1>5 DEF OpenFile, Exists, TypeOK
  <2>2. disk[InFiles[t]].len \in Nat
    BY <2>1 DEF Content
  <2> QED
    BY <1>5, <2>2 DEF OpenFile, TypeOK, settings, taskVars, sharedVars, indexVars
<1>6. CASE CompressFile(t)
  <2> DEFINE f == InFiles[t]
             buffer == IF Exists(f) /\ disk[f].len = size[t] THEN disk[f]
                       ELSE Uninitialised(size[t])
  <2>1. buffer \in Content
    <3>1. Exists(f) => disk[f] \in Content
      BY DEF Exists, TypeOK
    <3>2. Uninitialised(size[t]) \in Content
      BY EmptySeq DEF TypeOK, Uninitialised, Content, Paths
    <3> QED
      BY <3>1, <3>2
  <2> HIDE DEF buffer
  <2>2. PICK d \in Compressions(buffer) : out' = [out EXCEPT ![t] = d]
    BY <1>6 DEF CompressFile, buffer
  <2>3. d \in Content
    BY <2>1, <2>2, CompressionsAreContent
  <2>4. out' \in [Tasks -> Content]
    BY <2>2, <2>3 DEF TypeOK
  <2> QED
    BY <1>6, <2>4 DEF CompressFile, TypeOK, settings, taskVars, sharedVars, indexVars
<1>7. CASE CreateTemp(t)
  <2>1. fpath(t) \in Paths
    BY TempPathIsPath DEF fpath, TypeOK
  <2>2. [out[t] EXCEPT !.len = 0] \in Content
    BY DEF TypeOK, Content
  <2>3. DOMAIN disk' \subseteq Paths /\ disk' \in [DOMAIN disk' -> Content]
    BY <1>7, <2>1, <2>2, WithFileTyped DEF CreateTemp
  <2> QED
    BY <1>7, <2>3 DEF CreateTemp, TypeOK, settings, taskVars, sharedVars, indexVars
<1>8. CASE WriteTemp(t)
  <2>1. fpath(t) \in Paths
    BY TempPathIsPath DEF fpath, TypeOK
  <2>2. out[t] \in Content
    BY DEF TypeOK, Content
  <2>3. DOMAIN disk' \subseteq Paths /\ disk' \in [DOMAIN disk' -> Content]
    BY <1>8, <2>1, <2>2, WithFileTyped DEF WriteTemp
  <2> QED
    BY <1>8, <2>3 DEF WriteTemp, TypeOK, settings, taskVars, sharedVars, indexVars
<1>9. CASE Lock(t)
  BY <1>9 DEF Lock, TypeOK, settings, taskVars, sharedVars, indexVars
<1>10. CASE FindEnd(t)
  BY <1>10, SMTT(30) DEF FindEnd, TypeOK, settings, taskVars, sharedVars, indexVars
<1>11. CASE PushTemp(t)
  <2>1. fpath(t) \in Paths \ {<<>>}
    BY TempPathIsPath DEF fpath, TypeOK
  <2>2. loaded[t] = Len(tempFilesPaths)
    BY <1>11 DEF PushTemp, LockInv, FillsAtEnd
  <2>3. SubSeq(tempFilesPaths, 1, loaded[t]) \in Seq(Paths \ {<<>>})
    <3>1. Len(tempFilesPaths) \in Nat
      BY LenProperties DEF TypeOK
    <3>2. \A k \in 1..Len(tempFilesPaths) : tempFilesPaths[k] \in Paths \ {<<>>}
      BY ElementOfSeq DEF TypeOK
    <3> QED
      BY <2>2, <3>1, <3>2, SubSeqProperties
  <2>4. tempFilesPaths' \in Seq(Paths \ {<<>>})
    BY <1>11, <2>1, <2>3, AppendProperties DEF PushTemp
  <2> QED
    BY <1>11, <2>4 DEF PushTemp, TypeOK, settings, taskVars, sharedVars, indexVars
<1>12. CASE CountCompressed(t)
  <2>1. numCompressed' \in Nat
    BY <1>12, SMTT(30) DEF CountCompressed, TypeOK
  <2>2. pc' \in [Tasks -> TaskPoint]
    BY <1>12 DEF CountCompressed, TypeOK
  <2> QED
    BY <1>12, <2>1, <2>2 DEF CountCompressed, TypeOK, settings, taskVars, sharedVars, indexVars
<1>13. CASE LoadForDecrement(t)
  BY <1>13, SMTT(30) DEF LoadForDecrement, TypeOK, settings, taskVars, sharedVars, indexVars
<1>14. CASE StoreDecrement(t)
  <2>1. numRunningThreads' \in 0..(CounterRange - 1)
    <3>1. loaded[t] + CounterRange - 1 \in Nat
      <4>1. CounterRange \in Nat /\ CounterRange > 0
        BY CounterAssumption
      <4>2. loaded[t] \in Nat
        BY DEF TypeOK
      <4> QED
        BY <4>1, <4>2
    <3> QED
      BY <1>14, <3>1, CounterTyped DEF StoreDecrement
  <2> QED
    BY <1>14, <2>1 DEF StoreDecrement, TypeOK, settings, taskVars, sharedVars, indexVars
<1>15. CASE Unlock(t)
  BY <1>15 DEF Unlock, TypeOK, settings, taskVars, sharedVars, indexVars
<1> QED
  BY <1>1, <1>2, <1>3, <1>4, <1>5, <1>6, <1>7, <1>8, <1>9, <1>10, <1>11, <1>12, <1>13, <1>14, <1>15 DEF CompressionTask

LEMMA SourceTyped ==
  ASSUME TypeOK, i < Len(Sources)
  PROVE  Source \in Paths \ {<<>>}
<1>1. Sources \in Seq(Paths \ {<<>>})
  <2>1. InFiles \in Seq(Paths \ {<<>>})
    BY InFilesAssumption, InFilesArePaths, LenProperties, SeqDef, TasksAreNumbers
       DEF Tasks, argslen
  <2> QED
    BY <2>1 DEF Sources, TypeOK
<1>2. i + 1 \in 1..Len(Sources)
  BY <1>1, LenProperties DEF TypeOK
<1> QED
  BY <1>1, <1>2, ElementOfSeq DEF Source

LEMMA EntryTyped ==
  ASSUME TypeOK, i < Len(Sources), NEW c \in Content, NEW crc \in Seq(Content)
  PROVE  EntryOf(Source, c, crc) \in Entry
<1> DEFINE p == Source
<1>1. p \in Paths \ {<<>>}
  BY SourceTyped
<1> HIDE DEF p
<1>2. TempBase(p) \in Paths /\ TempSize(p) \in Nat
  BY <1>1, TempPartsAreTyped
<1>3. getRelative(p) \in Paths /\ getRelative(TempBase(p)) \in Paths
  BY <1>1, <1>2, RelativeIsPath
<1>4. c.len \in Nat /\ previousPosition \in Nat
  BY DEF Content, TypeOK
<1>5. EntryOf(p, c, crc) \in Entry
  BY <1>2, <1>3, <1>4 DEF EntryOf, Entry
<1> QED
  BY <1>5 DEF p

LEMMA TypeOfConstructorSteps ==
  ASSUME TypeOK, Constructor
  PROVE  TypeOK'
<1> USE TasksAreNumbers DEF At, TaskPoint, ConstructorPoint
<1>1. CASE Dispatch
  BY <1>1 DEF Dispatch, TypeOK, settings, vars, taskVars, sharedVars, indexVars
<1>2. CASE SpawnTask
  <2>1. pc' \in [Tasks -> TaskPoint]
    BY <1>2 DEF SpawnTask, TypeOK
  <2>2. i' \in Nat
    BY <1>2 DEF SpawnTask, TypeOK
  <2> QED
    BY <1>2, <2>1, <2>2 DEF SpawnTask, TypeOK, settings, taskVars, sharedVars, indexVars
<1>3. CASE DetachTask
  BY <1>3 DEF DetachTask, TypeOK, settings, vars, taskVars, sharedVars, indexVars
<1>4. CASE LeaveThrottle
  BY <1>4 DEF LeaveThrottle, TypeOK, settings, vars, taskVars, sharedVars, indexVars
<1>5. CASE EndOfLoop
  BY <1>5 DEF EndOfLoop, TypeOK, settings, vars, taskVars, sharedVars, indexVars
<1>6. CASE LeaveWait
  BY <1>6 DEF LeaveWait, TypeOK, settings, vars, taskVars, sharedVars, indexVars
<1>7. CASE Spin
  BY <1>7 DEF Spin, TypeOK, settings, vars, taskVars, sharedVars, indexVars
<1>8. CASE CallTask
  BY <1>8 DEF CallTask, TypeOK, settings, vars, taskVars, sharedVars, indexVars
<1>9. CASE TaskReturns
  BY <1>9, SMTT(30) DEF TaskReturns, TypeOK, settings, vars, taskVars, sharedVars, indexVars
<1>10. CASE RemoveTemps
  BY <1>10 DEF RemoveTemps, TypeOK, settings, vars, taskVars, sharedVars, indexVars
<1>11. CASE SortTemps
  <2> DEFINE T == {tempFilesPaths[k] : k \in DOMAIN tempFilesPaths}
  <2>1. T \subseteq Paths \ {<<>>}
    BY LenProperties, ElementOfSeq DEF TypeOK
  <2>2. PICK s \in [DOMAIN tempFilesPaths -> T] : tempFilesPaths' = s
    BY <1>11 DEF SortTemps
  <2>3. s \in [DOMAIN tempFilesPaths -> Paths \ {<<>>}]
    BY <2>1, <2>2
  <2>4. tempFilesPaths' \in Seq(Paths \ {<<>>})
    BY <2>2, <2>3, MappedSeq DEF TypeOK
  <2> QED
    BY <1>11, <2>4 DEF SortTemps, TypeOK, settings, taskVars, sharedVars, indexVars
<1>12. CASE SourceMissing
  BY <1>12 DEF SourceMissing, TypeOK, settings, vars, taskVars, sharedVars, indexVars
<1>13. CASE IndexNull
  BY <1>13 DEF IndexNull, TypeOK, settings, vars, taskVars, sharedVars, indexVars
<1>14. CASE IndexFile
  <2> DEFINE c == disk[Source]
             crc == IF BuildHash THEN updateCRC(prevCrc, c) ELSE prevCrc
  <2>1. Source \in Paths
    BY <1>14, SourceTyped DEF IndexFile, Here
  <2>2. c \in Content /\ c.len \in Nat
    BY <1>14 DEF IndexFile, Exists, TypeOK, Content
  <2>3. crc \in Seq(Content)
    BY <2>2, AppendProperties DEF updateCRC, TypeOK
  <2> HIDE DEF c, crc
  <2>4. EntryOf(Source, c, crc) \in Entry
    BY <1>14, <2>2, <2>3, EntryTyped DEF IndexFile, Here
  <2>5. /\ prevCrc' = crc
        /\ filesInfo' = Append(filesInfo, EntryOf(Source, c, crc))
        /\ previousPosition' = previousPosition + c.len
        /\ numCompressed' \in {numCompressed, numCompressed + 1}
        /\ i' = i + 1
        /\ UNCHANGED <<settings, disk, taskVars, numRunningThreads, mtx, tempFilesPaths,
                        ctor, bundle>>
    BY <1>14 DEF IndexFile, c, crc
  <2>6. filesInfo' \in Seq(Entry)
    BY <2>4, <2>5, AppendProperties DEF TypeOK
  <2>7. previousPosition' \in Nat /\ prevCrc' \in Seq(Content)
    BY <2>2, <2>3, <2>5, SMTT(30) DEF TypeOK
  <2>8. numCompressed' \in Nat /\ i' \in Nat
    BY <2>5, SMTT(30) DEF TypeOK
  <2> QED
    BY <2>5, <2>6, <2>7, <2>8 DEF TypeOK, settings, taskVars
<1>15. CASE WriteHeader
  <2>1. DataStart \in Nat
    <3>1. Len(filesInfo) \in Nat
      BY LenProperties DEF TypeOK
    <3>2. EntryBytes * Len(filesInfo) \in Nat
      BY <3>1, LayoutAssumption
    <3> QED
      BY <3>2, LayoutAssumption DEF DataStart, headerLength
  <2> HIDE DEF DataStart
  <2>2. filesInfo' \in [DOMAIN filesInfo -> Entry]
    <3>1. \A k \in DOMAIN filesInfo : filesInfo[k] \in Entry
      BY LenProperties, ElementOfSeq DEF TypeOK
    <3>2. \A e \in Entry : [e EXCEPT !.startPosition = @ + DataStart] \in Entry
      BY <2>1 DEF Entry
    <3> QED
      BY <1>15, <3>1, <3>2 DEF WriteHeader
  <2>3. filesInfo' \in Seq(Entry)
    BY <2>2, MappedSeq DEF TypeOK
  <2>4. bundle' \in Bundle
    BY <1>15, <2>1, <2>3, EmptySeq DEF WriteHeader, Bundle
  <2> QED
    BY <1>15, <2>3, <2>4 DEF WriteHeader, TypeOK, settings, taskVars, sharedVars
<1>16. CASE CopyNull
  BY <1>16, SMTT(30) DEF CopyNull, TypeOK, settings, vars, taskVars, sharedVars, indexVars
<1>17. CASE CopyFile
  <2> DEFINE c == disk[Source]
             chunk == [at |-> bundle.end, bytes |-> c]
  <2>1. c \in Content /\ c.len \in Nat
    BY <1>17 DEF CopyFile, Exists, TypeOK, Content
  <2>2. bundle.info \in Seq(Entry) /\ bundle.data \in Seq(Chunk) /\ bundle.end \in Nat
    BY DEF TypeOK, Bundle
  <2>3. chunk \in Chunk
    BY <2>1, <2>2 DEF Chunk
  <2>4. Append(bundle.data, chunk) \in Seq(Chunk)
    BY <2>2, <2>3, AppendProperties
  <2>5. bundle' \in Bundle
    BY <1>17, <2>1, <2>2, <2>4 DEF CopyFile, Bundle
  <2>6. DOMAIN disk' \subseteq Paths /\ disk' \in [DOMAIN disk' -> Content]
    BY <1>17 DEF CopyFile, WithoutFile, TypeOK
  <2>7. i' = i + 1 /\ UNCHANGED <<settings, taskVars, sharedVars, ctor, indexVars>>
    BY <1>17 DEF CopyFile
  <2> HIDE DEF c, chunk
  <2> QED
    BY <2>5, <2>6, <2>7 DEF TypeOK, settings, taskVars, sharedVars, indexVars
<1>18. CASE CloseBundle
  BY <1>18 DEF CloseBundle, TypeOK, settings, vars, taskVars, sharedVars, indexVars
<1> QED
  BY <1>1, <1>2, <1>3, <1>4, <1>5, <1>6, <1>7, <1>8, <1>9, <1>10, <1>11, <1>12, <1>13, <1>14, <1>15, <1>16, <1>17, <1>18 DEF Constructor

-----------------------------------------------------------------------------
(* The lock. *)

LEMMA LockOfTaskSteps ==
  ASSUME TypeOK, LockInv, NEW t \in Tasks, CompressionTask(t)
  PROVE  LockInv'
<1> USE TasksAreNumbers DEF Step, LockInv, LockHeld, FillsAtEnd, InLock, TypeOK
<1>1. CASE LoadForIncrement(t)
  BY <1>1 DEF LoadForIncrement, settings, sharedVars
<1>2. CASE StoreIncrement(t)
  BY <1>2 DEF StoreIncrement, settings, sharedVars
<1>3. CASE OpenMissing(t)
  BY <1>3 DEF OpenMissing, settings, sharedVars
<1>4. CASE OpenNull(t)
  BY <1>4 DEF OpenNull, settings, sharedVars
<1>5. CASE OpenFile(t)
  BY <1>5 DEF OpenFile, settings, sharedVars
<1>6. CASE CompressFile(t)
  BY <1>6 DEF CompressFile, settings, sharedVars
<1>7. CASE CreateTemp(t)
  BY <1>7 DEF CreateTemp, settings, sharedVars
<1>8. CASE WriteTemp(t)
  BY <1>8 DEF WriteTemp, settings, sharedVars
<1>9. CASE Lock(t)
  BY <1>9 DEF Lock, settings, sharedVars
<1>10. CASE FindEnd(t)
  BY <1>10 DEF FindEnd, settings, sharedVars
<1>11. CASE PushTemp(t)
  BY <1>11 DEF PushTemp, settings, sharedVars
<1>12. CASE CountCompressed(t)
  BY <1>12 DEF CountCompressed, settings, sharedVars
<1>13. CASE LoadForDecrement(t)
  BY <1>13 DEF LoadForDecrement, settings, sharedVars
<1>14. CASE StoreDecrement(t)
  BY <1>14 DEF StoreDecrement, settings, sharedVars
<1>15. CASE Unlock(t)
  BY <1>15 DEF Unlock, settings, sharedVars
<1> QED
  BY <1>1, <1>2, <1>3, <1>4, <1>5, <1>6, <1>7, <1>8, <1>9, <1>10, <1>11, <1>12, <1>13, <1>14, <1>15 DEF CompressionTask

LEMMA LockOfConstructorSteps ==
  ASSUME TypeOK, LockInv, Constructor
  PROVE  LockInv'
<1>1. CASE SpawnTask \/ CallTask
  BY <1>1 DEF SpawnTask, CallTask, LockInv, LockHeld, FillsAtEnd, InLock, TypeOK, settings, sharedVars
<1>2. CASE SortTemps
  <2>1. Len(tempFilesPaths') = Len(tempFilesPaths)
    BY <1>2 DEF SortTemps, Permutes
  <2> QED
    BY <1>2, <2>1 DEF SortTemps, LockInv, LockHeld, FillsAtEnd, settings, taskVars
<1>3. CASE UNCHANGED <<taskVars, mtx, tempFilesPaths>>
  BY <1>3 DEF LockInv, LockHeld, FillsAtEnd, settings, taskVars
<1> QED
  BY <1>1, <1>2, <1>3 DEF Constructor, Dispatch, DetachTask, LeaveThrottle, EndOfLoop,
     LeaveWait, Spin, TaskReturns, RemoveTemps, SourceMissing, IndexNull, IndexFile,
     WriteHeader, CopyNull, CopyFile, CloseBundle, settings, sharedVars, vars

-----------------------------------------------------------------------------
(* The counting. *)

LEMMA CountedIsFinite == IsFiniteSet(Tasks) /\ Cardinality(Tasks) = argslen
                         /\ IsFiniteSet(Counted)
<1>1. IsFiniteSet(Tasks) /\ Cardinality(Tasks) = argslen
  BY TasksAreNumbers, FS_Interval DEF Tasks
<1>2. Counted \subseteq Tasks
  BY DEF Counted
<1> QED
  BY <1>1, <1>2, FS_Subset

\* What a step of a task can do to the state the counting is about.
LEMMA TaskMoves ==
  ASSUME TypeOK, NEW t \in Tasks, CompressionTask(t)
  PROVE  /\ pc[t] # "unborn" /\ \A u \in Tasks \ {t} : pc'[u] = pc[u]
         /\ arcC' = arcC /\ i' = i
         /\ \/ ctor' = ctor
            \/ ctor' = "terminated"
            \/ ctor' = "cleanup" /\ arcC \notin Threaded
         /\ pc[t] \in Settled => pc'[t] \in Settled
         /\ pc'[t] \in Settled => pc[t] \in Settled \cup {"count"}
         /\ numCompressed' = IF pc[t] = "count" THEN numCompressed + 1 ELSE numCompressed
         /\ pc[t] = "count" => pc'[t] \in Settled
<1> USE DEF Step, Settled, TypeOK
<1>1. CASE LoadForIncrement(t)
  BY <1>1 DEF LoadForIncrement, settings, sharedVars
<1>2. CASE StoreIncrement(t)
  BY <1>2 DEF StoreIncrement, settings, sharedVars
<1>3. CASE OpenMissing(t)
  BY <1>3 DEF OpenMissing, settings, sharedVars
<1>4. CASE OpenNull(t)
  BY <1>4 DEF OpenNull, settings, sharedVars
<1>5. CASE OpenFile(t)
  BY <1>5 DEF OpenFile, settings, sharedVars
<1>6. CASE CompressFile(t)
  BY <1>6 DEF CompressFile, settings, sharedVars
<1>7. CASE CreateTemp(t)
  BY <1>7 DEF CreateTemp, settings, sharedVars
<1>8. CASE WriteTemp(t)
  BY <1>8 DEF WriteTemp, settings, sharedVars
<1>9. CASE Lock(t)
  BY <1>9 DEF Lock, settings, sharedVars
<1>10. CASE FindEnd(t)
  BY <1>10 DEF FindEnd, settings, sharedVars
<1>11. CASE PushTemp(t)
  BY <1>11 DEF PushTemp, settings, sharedVars
<1>12. CASE CountCompressed(t)
  BY <1>12 DEF CountCompressed, settings, sharedVars
<1>13. CASE LoadForDecrement(t)
  BY <1>13 DEF LoadForDecrement, settings, sharedVars
<1>14. CASE StoreDecrement(t)
  BY <1>14 DEF StoreDecrement, settings, sharedVars
<1>15. CASE Unlock(t)
  BY <1>15 DEF Unlock, settings, sharedVars
<1> QED
  BY <1>1, <1>2, <1>3, <1>4, <1>5, <1>6, <1>7, <1>8, <1>9, <1>10, <1>11, <1>12, <1>13, <1>14, <1>15 DEF CompressionTask

LEMMA CountOfTaskSteps ==
  ASSUME TypeOK, CountInv, NEW t \in Tasks, CompressionTask(t)
  PROVE  CountInv'
<1>1. CountMatches'
  <2>1. CASE pc[t] = "count"
    <3>1. Counted' = Counted \cup {t} /\ t \notin Counted
      BY <2>1, TaskMoves DEF Counted, Settled
    <3>2. Cardinality(Counted') = Cardinality(Counted) + 1
      BY <3>1, CountedIsFinite, FS_AddElement
    <3>3. numCompressed' = numCompressed + 1 /\ arcC' = arcC
      BY <2>1, TaskMoves
    <3> QED
      BY <3>2, <3>3 DEF CountInv, CountMatches
  <2>2. CASE pc[t] # "count"
    <3>1. Counted' = Counted
      BY <2>2, TaskMoves DEF Counted
    <3> QED
      BY <2>2, <3>1, TaskMoves DEF CountInv, CountMatches
  <2> QED
    BY <2>1, <2>2
<1>2. NotYetStarted'
  BY TaskMoves DEF CountInv, NotYetStarted
<1>3. CallsAreSequential'
  BY TaskMoves DEF CountInv, CallsAreSequential
<1>4. SettledAfterWait'
  BY TaskMoves DEF CountInv, SettledAfterWait, PastWait
<1> QED
  BY <1>1, <1>2, <1>3, <1>4 DEF CountInv

\* The steps of the constructor that start a task.
LEMMA CountOfStarts ==
  ASSUME TypeOK, CountInv, SpawnTask \/ CallTask
  PROVE  CountInv'
<1>1. i + 1 \in Tasks /\ i \in Nat
  BY TasksAreNumbers DEF SpawnTask, CallTask, TypeOK, Tasks
<1>2. pc[i + 1] = "unborn"
  BY <1>1 DEF SpawnTask, CallTask, At, CountInv, NotYetStarted
<1>3. Counted' = Counted
  BY <1>1, <1>2 DEF SpawnTask, CallTask, Counted, Settled, TypeOK
<1>4. CountMatches'
  BY <1>3 DEF SpawnTask, CallTask, CountInv, CountMatches, settings, sharedVars
<1>5. NotYetStarted'
  <2>1. \A u \in Tasks : u > i + 1 => pc'[u] = "unborn"
    <3>1. \A u \in Tasks : u > i + 1 => u > i /\ pc'[u] = pc[u]
      BY <1>1, TasksAreNumbers, SMTT(30) DEF SpawnTask, CallTask, TypeOK
    <3>2. \A u \in Tasks : u > i => pc[u] = "unborn"
      BY DEF SpawnTask, CallTask, At, CountInv, NotYetStarted
    <3> QED
      BY <3>1, <3>2
  <2>2. CASE SpawnTask
    <3>1. ctor' = "spawn" /\ i' = i + 1
      BY <2>2 DEF SpawnTask, At
    <3> QED
      BY <2>1, <3>1 DEF NotYetStarted
  <2>3. CASE CallTask
    <3>1. ctor' = "called" /\ i' = i
      BY <2>3 DEF CallTask, At
    <3> QED
      BY <2>1, <3>1 DEF NotYetStarted
  <2> QED
    BY <2>2, <2>3
<1>6. CallsAreSequential'
  <2>1. arcC' = arcC
    BY DEF SpawnTask, CallTask, settings
  <2> QED
    BY <2>1 DEF SpawnTask, CallTask, At, CountInv, CallsAreSequential
<1>7. SettledAfterWait'
  BY DEF SpawnTask, CallTask, At, SettledAfterWait, PastWait
<1> QED
  BY <1>4, <1>5, <1>6, <1>7 DEF CountInv

\* The step that leaves the wait: every task is counted.
LEMMA CountOfLeaveWait ==
  ASSUME TypeOK, CountInv, LeaveWait
  PROVE  CountInv'
<1>1. arcC \in Threaded => Counted = Tasks
  <2>1. arcC \in Threaded => Cardinality(Counted) = Cardinality(Tasks)
    BY CountedIsFinite DEF LeaveWait, CountInv, CountMatches, Threaded
  <2> QED
    BY <2>1, CountedIsFinite, FS_Subset DEF Counted
<1>2. SettledAfterWait'
  BY <1>1 DEF LeaveWait, SettledAfterWait, Counted, settings, taskVars
<1>3. CountMatches'
  BY DEF LeaveWait, CountInv, CountMatches, Counted, settings, taskVars, sharedVars
<1>4. NotYetStarted' /\ CallsAreSequential'
  BY DEF LeaveWait, At, NotYetStarted, CallsAreSequential
<1> QED
  BY <1>2, <1>3, <1>4 DEF CountInv

\* The other steps start no task, and none of them goes past the wait for a
\* threaded type.
LEMMA CountOfOtherSteps ==
  ASSUME TypeOK, CountInv, Constructor, ~ SpawnTask, ~ CallTask, ~ LeaveWait
  PROVE  CountInv'
<1>1. /\ arcC' = arcC /\ pc' = pc
      /\ arcC # "NoCompression" => numCompressed' = numCompressed
  BY DEF Constructor, Dispatch, DetachTask, LeaveThrottle, EndOfLoop, Spin, TaskReturns,
     RemoveTemps, SortTemps, SourceMissing, IndexNull, IndexFile, WriteHeader, CopyNull,
     CopyFile, CloseBundle, settings, taskVars, sharedVars, vars
<1>2. /\ PastWait' => PastWait \/ arcC \notin Threaded
      /\ CallsAreSequential'
      /\ NotYetStarted'
  <2> USE TasksAreNumbers, <1>1 DEF CountInv, CallsAreSequential, NotYetStarted, PastWait, At, TypeOK
  <2>1. CASE Dispatch
    BY <2>1 DEF Dispatch, Threaded, Sequential
  <2>2. CASE DetachTask
    BY <2>2 DEF DetachTask
  <2>3. CASE LeaveThrottle
    BY <2>3 DEF LeaveThrottle
  <2>4. CASE EndOfLoop
    BY <2>4 DEF EndOfLoop
  <2>5. CASE Spin
    BY <2>5 DEF Spin, settings, vars
  <2>6. CASE TaskReturns
    BY <2>6 DEF TaskReturns
  <2>7. CASE RemoveTemps
    BY <2>7 DEF RemoveTemps
  <2>8. CASE SortTemps
    BY <2>8 DEF SortTemps
  <2>9. CASE SourceMissing
    BY <2>9 DEF SourceMissing, Here
  <2>10. CASE IndexNull
    BY <2>10 DEF IndexNull, Here
  <2>11. CASE IndexFile
    BY <2>11 DEF IndexFile, Here
  <2>12. CASE WriteHeader
    BY <2>12 DEF WriteHeader
  <2>13. CASE CopyNull
    BY <2>13 DEF CopyNull, Here
  <2>14. CASE CopyFile
    BY <2>14 DEF CopyFile, Here
  <2>15. CASE CloseBundle
    BY <2>15 DEF CloseBundle
  <2> QED
    BY <2>1, <2>2, <2>3, <2>4, <2>5, <2>6, <2>7, <2>8, <2>9, <2>10, <2>11, <2>12, <2>13, <2>14, <2>15 DEF Constructor
<1>3. CountMatches'
  BY <1>1 DEF CountInv, CountMatches, Counted
<1>4. SettledAfterWait'
  BY <1>1, <1>2 DEF CountInv, SettledAfterWait
<1> QED
  BY <1>2, <1>3, <1>4 DEF CountInv

-----------------------------------------------------------------------------
(* The theorems. *)

LEMMA InitIInv == Init => IInv
<1> SUFFICES ASSUME Init PROVE IInv
  OBVIOUS
<1> USE TasksAreNumbers DEF Init
<1>1. TypeOK
  <2>1. DOMAIN disk \subseteq Paths /\ disk \in [DOMAIN disk -> Content]
    <3>1. PICK present \in SUBSET Inputs : \E len \in [present -> Sizes] :
                disk = [p \in present |-> Original(p, len[p])]
      OBVIOUS
    <3>2. PICK len \in [present -> Sizes] : disk = [p \in present |-> Original(p, len[p])]
      BY <3>1
    <3>3. present \subseteq Paths
      BY InFilesArePaths DEF Inputs
    <3>4. \A p \in present : Original(p, len[p]) \in Content
      BY <3>2, <3>3, SizesAssumption DEF Original, Content
    <3> QED
      BY <3>2, <3>3, <3>4
  <2>2. NoBytes \in Content /\ NoBundle \in Bundle
    BY EmptySeq DEF NoBytes, Content, Paths, NoBundle, Bundle
  <2>3. 0 \in 0..(CounterRange - 1)
    BY CounterAssumption
  <2>4. /\ tempFilesPaths \in Seq(Paths \ {<<>>}) /\ prevCrc \in Seq(Content)
        /\ filesInfo \in Seq(Entry)
    BY EmptySeq
  <2>5. arcC \in ArchiveCompressionType /\ edits \in 0..MaxEdits
    BY TypesAssumption, EditsAssumption
  <2> QED
    BY <2>1, <2>2, <2>3, <2>4, <2>5 DEF TypeOK, TaskPoint, ConstructorPoint
<1>2. LockInv
  BY DEF LockInv, LockHeld, FillsAtEnd, InLock
<1>3. CountInv
  <2>1. Counted = {}
    BY DEF Counted, Settled
  <2>2. CountMatches
    BY <2>1, FS_EmptySet DEF CountMatches
  <2> QED
    BY <2>2 DEF CountInv, NotYetStarted, CallsAreSequential, SettledAfterWait, PastWait
<1> QED
  BY <1>1, <1>2, <1>3 DEF IInv

LEMMA NextIInv == IInv /\ [Next]_vars => IInv'
<1> SUFFICES ASSUME IInv, [Next]_vars PROVE IInv'
  OBVIOUS
<1> USE DEF IInv
<1>1. CASE Constructor
  <2>1. CountInv'
    BY <1>1, CountOfStarts, CountOfLeaveWait, CountOfOtherSteps
  <2> QED
    BY <1>1, <2>1, TypeOfConstructorSteps, LockOfConstructorSteps
<1>2. CASE \E t \in Tasks : CompressionTask(t)
  BY <1>2, TypeOfTaskSteps, LockOfTaskSteps, CountOfTaskSteps
<1>3. CASE EditInput
  <2>1. DOMAIN disk' \subseteq Paths /\ disk' \in [DOMAIN disk' -> Content]
    <3>1. PICK p \in Inputs :
             \/ disk' = WithoutFile(p)
             \/ \E n \in Sizes \ {disk[p].len} : disk' = WithFile(p, Original(p, n))
      BY <1>3 DEF EditInput
    <3>2. CASE disk' = WithoutFile(p)
      BY <3>2 DEF WithoutFile, TypeOK
    <3>3. ASSUME NEW n \in Sizes, disk' = WithFile(p, Original(p, n))
          PROVE  DOMAIN disk' \subseteq Paths /\ disk' \in [DOMAIN disk' -> Content]
      <4>1. p \in Paths /\ Original(p, n) \in Content
        BY InFilesArePaths, SizesAssumption DEF Inputs, Original, Content
      <4> QED
        BY <3>3, <4>1, WithFileTyped
    <3> QED
      BY <3>1, <3>2, <3>3
  <2>2. edits' \in 0..MaxEdits
    BY <1>3, EditsAssumption DEF EditInput, TypeOK
  <2>3. TypeOK'
    BY <1>3, <2>1, <2>2 DEF EditInput, TypeOK, taskVars, sharedVars, indexVars
  <2>4. LockInv'
    BY <1>3 DEF EditInput, LockInv, LockHeld, FillsAtEnd, taskVars, sharedVars
  <2>5. CountInv'
    BY <1>3 DEF EditInput, CountInv, CountMatches, Counted, NotYetStarted,
       CallsAreSequential, SettledAfterWait, PastWait, taskVars, sharedVars
  <2> QED
    BY <2>3, <2>4, <2>5
<1>4. CASE UNCHANGED vars
  BY <1>4 DEF settings, vars, taskVars, sharedVars, indexVars, TypeOK, LockInv, LockHeld, FillsAtEnd,
     CountInv, CountMatches, Counted, NotYetStarted, CallsAreSequential, SettledAfterWait,
     PastWait
<1> QED
  BY <1>1, <1>2, <1>3, <1>4 DEF Next, Finished

THEOREM Invariance == Spec => []IInv
BY InitIInv, NextIInv, PTL DEF Spec

\* Every variable of the create constructor and of its tasks keeps its
\* type: the counters do not leave their width and no slot of the vector of
\* temporary files is filled outside of it.
THEOREM TypeCorrect == Spec => []TypeOK
<1>1. IInv => TypeOK
  BY DEF IInv
<1> QED
  BY <1>1, Invariance, PTL

\* However the tasks of however many files interleave, and whatever the lost
\* updates of numRunningThreads, the constructor goes past its wait only
\* when every task has written and pushed its temporary file.
THEOREM NobodyIsLate == Spec => []SettledAfterWait
<1>1. IInv => SettledAfterWait
  BY DEF IInv, CountInv
<1> QED
  BY <1>1, Invariance, PTL

-----------------------------------------------------------------------------
(* What the bundle holds. *)

(* No input is given twice, and none has a name that the temporary file *)
(* of another would have.  The constructor does not check it; without it   *)
(* two tasks, or a task and the caller, share a file.                      *)
Apart ==
    \A t, u \in Tasks : /\ InFiles[t] = InFiles[u] => t = u
                        /\ TempBase(InFiles[t]) # InFiles[u]

Compressed == arcC # "NoCompression"
Whole == {"lock", "push", "fill", "count"} \cup Settled
Sized == {"compress", "create", "write"} \cup Whole

(* Who rests: a file that is not compressed has no task, and the tasks of  *)
(* a sequential type run one by one.                                       *)
NoTasks == ~ Compressed => tempFilesPaths = <<>> /\ \A t \in Tasks : pc[t] = "unborn"
LoopsAreOver == ctor \in {"dispatch", "wait", "sort"} => i = 0
OneByOne ==
    arcC \in Sequential =>
      \A t \in Tasks :
        /\ ctor # "called" \/ t # i + 1 => pc[t] \in Resting
        /\ \/ ctor \in {"call", "called"} /\ t <= i
           \/ PastWait
           => pc[t] \in {"done", "skipped"}
LoopOfType ==
    /\ ctor \in {"spawn", "detach", "throttle", "wait"} => arcC \in Threaded
    /\ ctor \in {"call", "called", "cleanup"} => arcC \in Sequential
    /\ ctor = "sort" => Compressed
AtRest == NoTasks /\ LoopsAreOver /\ OneByOne /\ LoopOfType

(* The vector has one slot for each task that has pushed.                  *)
OneSlotEach == Len(tempFilesPaths) = Cardinality(Pushed)
SlotsOfPushed == \A k \in DOMAIN tempFilesPaths : \E t \in Pushed : tempFilesPaths[k] = fpath(t)
SlotsDiffer ==
    \A j, k \in DOMAIN tempFilesPaths : tempFilesPaths[j] = tempFilesPaths[k] => j = k
SortedOnce == ctor \in {"index", "copy", "returned"} => Sorted(tempFilesPaths)
VectorInv == OneSlotEach /\ SlotsOfPushed /\ SlotsDiffer /\ SortedOnce

(* Whose the files are: the inputs are the caller's, all the others are    *)
(* temporary files, which hold what their task made once it wrote them.    *)
InputsAreOriginal == \A p \in Inputs : Exists(p) => disk[p] = Original(p, disk[p].len)
OthersAreTemps ==
    \A q \in DOMAIN disk \ Inputs :
        \E t \in Tasks : q = fpath(t) /\ pc[t] \in {"write"} \cup Whole
TempsAreWhole ==
    \A t \in Tasks : pc[t] \in Whole =>
        /\ Exists(fpath(t)) => disk[fpath(t)] = out[t]
        /\ ctor \notin {"copy", "returned", "threw", "terminated"} => Exists(fpath(t))
MadeOfInputs ==
    MaxEdits = 0 => \A t \in Tasks :
        /\ pc[t] = "skipped" /\ Exists(InFiles[t]) => disk[InFiles[t]].len = 0
        /\ pc[t] \in Sized => Exists(InFiles[t]) /\ disk[InFiles[t]].len = size[t]
        /\ pc[t] \in {"create", "write"} \cup Whole => out[t].of = InFiles[t]
FilesInv == InputsAreOriginal /\ OthersAreTemps /\ TempsAreWhole /\ MadeOfInputs

(* The two passes, as long as nobody else changes the files they read.     *)
(* Held(k) is what the first pass found in the k-th file: it is still on  *)
(* the disk, or the second pass has copied it.                             *)
Steady == Compressed \/ MaxEdits = 0
Copying == ctor = "copy" \/ Written
PathOf(p) == IF Compressed THEN TempBase(p) ELSE p
Held(k) == IF Copying /\ k <= i THEN bundle.data[k].bytes ELSE disk[Sources[k]]
EndOf(k) ==
    IF k > 0 THEN filesInfo[k].startPosition + filesInfo[k].compressedSize
    ELSE IF ctor = "index" THEN 0 ELSE DataStart

EntryOK(k) ==
    /\ filesInfo[k].name = getRelative(PathOf(Sources[k]))
    /\ filesInfo[k].uncompressedSize =
         IF Compressed THEN TempSize(Sources[k]) ELSE Held(k).len
    /\ filesInfo[k].startPosition = EndOf(k - 1)
    /\ filesInfo[k].compressedSize = Held(k).len
    /\ Held(k) \in Content /\ Held(k).len > 0
    /\ MaxEdits = 0 => Held(k).of = PathOf(Sources[k])
    /\ BuildHash => filesInfo[k].crc32hash = [j \in 1..k |-> Held(j)]

NotYetIndexed ==
    ctor \notin {"index", "copy", "returned", "threw", "terminated"} =>
        filesInfo = <<>> /\ prevCrc = <<>> /\ previousPosition = 0
NotYetWritten == ctor \notin {"copy", "returned", "threw", "terminated"} => bundle = NoBundle
Indexed ==
    ctor = "index" =>
        /\ i = Len(filesInfo) /\ i <= Len(Sources)
        /\ previousPosition = EndOf(i)
        /\ \A k \in 1..i : EntryOK(k) /\ Exists(Sources[k])
        /\ BuildHash => prevCrc = [j \in 1..i |-> Held(j)]
Copied ==
    Copying =>
        /\ bundle.end > 0 /\ bundle.info = filesInfo
        /\ Len(filesInfo) = Len(Sources) /\ i <= Len(Sources)
        /\ ctor = "returned" => i = Len(Sources)
        /\ Len(bundle.data) = i /\ bundle.end = EndOf(i)
        /\ \A k \in 1..Len(Sources) : EntryOK(k) /\ (k > i => Exists(Sources[k]))
        /\ \A k \in 1..i : /\ bundle.data[k].at = filesInfo[k].startPosition
                           /\ EndOf(k) <= bundle.end
                           /\ Compressed /\ ~ DeleteCanFail => ~ Exists(Sources[k])
        /\ ~ Compressed =>
             \A k \in 1..Len(Sources) : Exists(Sources[k]) /\ disk[Sources[k]] = Held(k)
NothingBehind == ctor = "threw" /\ arcC \in Sequential => DOMAIN disk \subseteq Inputs
PassesInv == Steady => NotYetIndexed /\ NotYetWritten /\ Indexed /\ Copied /\ NothingBehind

CInv == IInv /\ AtRest /\ VectorInv /\ FilesInv /\ PassesInv
-----------------------------------------------------------------------------
(* Names of files. *)

\* The name of a temporary file and the name and size it was made of.
LEMMA TempNames ==
  ASSUME NEW p \in Paths, NEW n \in Nat
  PROVE  TempBase(TempPath(p, n)) = p /\ TempSize(TempPath(p, n)) = n
<1> DEFINE q == TempPath(p, n)
<1>1. /\ q \in Seq(Nat) /\ Len(q) = Len(p) + 1 /\ Len(p) \in Nat
      /\ \A k \in 1..Len(p) : q[k] = p[k]
      /\ q[Len(p) + 1] = n
  BY AppendProperties, LenProperties DEF TempPath, Paths
<1> HIDE DEF q
<1>2. TempBase(q) = SubSeq(q, 1, Len(p))
  BY <1>1 DEF TempBase
<1>3. /\ SubSeq(q, 1, Len(p)) \in Seq(Nat) /\ Len(SubSeq(q, 1, Len(p))) = Len(p)
      /\ \A k \in 1..Len(p) : SubSeq(q, 1, Len(p))[k] = q[k]
  BY <1>1, SubSeqProperties
<1>4. SubSeq(q, 1, Len(p)) = p
  BY <1>1, <1>3, SeqEqual DEF Paths
<1> QED
  BY <1>1, <1>2, <1>4 DEF TempSize, q

LEMMA TempIsWhole ==
  ASSUME NEW p \in Paths \ {<<>>}
  PROVE  TempPath(TempBase(p), TempSize(p)) = p
<1> DEFINE b == TempBase(p)
           q == TempPath(b, TempSize(p))
<1>1. p \in Seq(Nat) /\ Len(p) \in Nat \ {0} /\ \A k \in 1..Len(p) : p[k] \in Nat
  BY LenProperties, EmptySeq, ElementOfSeq DEF Paths
<1>2. b \in Seq(Nat) /\ Len(b) = Len(p) - 1 /\ \A k \in 1..(Len(p) - 1) : b[k] = p[k]
  <2> DEFINE m == Len(p) - 1
  <2>1. m \in Nat /\ \A k \in 1..m : p[k] \in Nat
    BY <1>1
  <2>2. /\ SubSeq(p, 1, m) \in Seq(Nat) /\ Len(SubSeq(p, 1, m)) = m
        /\ \A k \in 1..m : SubSeq(p, 1, m)[k] = p[k]
    <3> HIDE DEF m
    <3> QED
      BY <2>1, SubSeqProperties
  <2> QED
    BY <2>2 DEF TempBase
<1>3. TempSize(p) = p[Len(p)] /\ TempSize(p) \in Nat
  BY <1>1 DEF TempSize
<1> HIDE DEF b
<1>4. /\ q \in Seq(Nat) /\ Len(q) = Len(p)
      /\ \A k \in 1..(Len(p) - 1) : q[k] = b[k]
      /\ q[Len(p)] = p[Len(p)]
  BY <1>1, <1>2, <1>3, AppendProperties DEF TempPath
<1> HIDE DEF q
<1>5. \A k \in 1..Len(p) : q[k] = p[k]
  <2> SUFFICES ASSUME NEW k \in 1..Len(p) PROVE q[k] = p[k]
    OBVIOUS
  <2>1. k = Len(p) \/ k \in 1..(Len(p) - 1)
    BY <1>1
  <2> QED
    BY <2>1, <1>2, <1>4
<1>6. q = p
  BY <1>1, <1>4, <1>5, SeqEqual
<1> QED
  BY <1>6 DEF q, b

\* Every task has a file of its own, and it is nobody's input.
LEMMA TempsAreApart ==
  ASSUME Apart, TypeOK
  PROVE  /\ \A t \in Tasks : /\ fpath(t) \in Paths \ {<<>>} /\ fpath(t) \notin Inputs
                             /\ TempBase(fpath(t)) = InFiles[t] /\ TempSize(fpath(t)) = size[t]
         /\ \A t, u \in Tasks : fpath(t) = fpath(u) => t = u
<1>1. \A t \in Tasks : InFiles[t] \in Paths /\ size[t] \in Nat
  BY InFilesArePaths DEF TypeOK
<1>2. \A t \in Tasks : TempBase(fpath(t)) = InFiles[t] /\ TempSize(fpath(t)) = size[t]
  BY <1>1, TempNames DEF fpath
<1>3. \A t \in Tasks : fpath(t) \in Paths \ {<<>>}
  BY <1>1, TempPathIsPath DEF fpath
<1>4. \A t \in Tasks : fpath(t) \notin Inputs
  BY <1>2 DEF Apart, Inputs
<1>5. \A t, u \in Tasks : fpath(t) = fpath(u) => t = u
  BY <1>2 DEF Apart
<1> QED
  BY <1>2, <1>3, <1>4, <1>5

-----------------------------------------------------------------------------
(* The steps of a task, by what they do. *)

\* The steps that change no file, no path and nothing the task made.
Silent(t) ==
    /\ <<pc[t], pc'[t]>> \in
         {<<"start", "increment">>, <<"increment", "open">>, <<"open", "threw">>,
          <<"lock", "push">>, <<"push", "fill">>, <<"count", "load">>,
          <<"load", "decrement">>, <<"decrement", "unlock">>, <<"unlock", "done">>}
    /\ UNCHANGED <<disk, size, out, tempFilesPaths>>

LEMMA TaskEffects ==
  ASSUME TypeOK, NEW t \in Tasks, CompressionTask(t)
  PROVE  /\ \/ Silent(t) \/ OpenNull(t) \/ OpenFile(t) \/ CompressFile(t)
            \/ CreateTemp(t) \/ WriteTemp(t) \/ PushTemp(t)
         /\ pc'[t] # pc[t] /\ pc[t] \notin Resting
         /\ \A u \in Tasks \ {t} : pc'[u] = pc[u] /\ size'[u] = size[u] /\ out'[u] = out[u]
         /\ pc[t] # "open" => size' = size
         /\ UNCHANGED <<settings, i, indexVars, bundle>>
         /\ ctor' = ctor \/ /\ ctor' \in {"terminated", "cleanup"} /\ pc[t] = "open"
                            /\ pc'[t] = "threw"
                            /\ ctor' = "terminated" <=> arcC \in Threaded
         /\ pc'[t] \in TaskPoint
<1> USE DEF Step, TypeOK, settings, sharedVars, indexVars, Silent, Resting, TaskPoint
<1>1. CASE LoadForIncrement(t)
  BY <1>1 DEF LoadForIncrement
<1>2. CASE StoreIncrement(t)
  BY <1>2 DEF StoreIncrement
<1>3. CASE OpenMissing(t)
  BY <1>3 DEF OpenMissing
<1>4. CASE OpenNull(t)
  BY <1>4 DEF OpenNull
<1>5. CASE OpenFile(t)
  BY <1>5 DEF OpenFile
<1>6. CASE CompressFile(t)
  <2>1. PICK d : out' = [out EXCEPT ![t] = d]
    BY <1>6 DEF CompressFile
  <2> QED
    BY <1>6, <2>1 DEF CompressFile
<1>7. CASE CreateTemp(t)
  BY <1>7 DEF CreateTemp
<1>8. CASE WriteTemp(t)
  BY <1>8 DEF WriteTemp
<1>9. CASE Lock(t)
  BY <1>9 DEF Lock
<1>10. CASE FindEnd(t)
  BY <1>10 DEF FindEnd
<1>11. CASE PushTemp(t)
  BY <1>11 DEF PushTemp
<1>12. CASE CountCompressed(t)
  BY <1>12 DEF CountCompressed
<1>13. CASE LoadForDecrement(t)
  BY <1>13 DEF LoadForDecrement
<1>14. CASE StoreDecrement(t)
  BY <1>14 DEF StoreDecrement
<1>15. CASE Unlock(t)
  BY <1>15 DEF Unlock
<1> QED
  BY <1>1, <1>2, <1>3, <1>4, <1>5, <1>6, <1>7, <1>8, <1>9, <1>10, <1>11, <1>12, <1>13, <1>14, <1>15 DEF CompressionTask

\* A task that throws ends the process or the loop that called it.
LEMMA TasksThrowIntoLoop ==
  ASSUME IInv, AtRest, NEW t \in Tasks, CompressionTask(t)
  PROVE  ctor' = ctor \/ ctor' = "terminated" \/ (ctor' = "cleanup" /\ ctor = "called")
<1>1. TypeOK /\ pc[t] \notin Resting
  BY TaskEffects DEF IInv
<1>2. ctor' = ctor \/ ctor' = "terminated" \/ (ctor' = "cleanup" /\ arcC \notin Threaded)
  BY <1>1, TaskEffects
<1>3. arcC \in Threaded \cup Sequential
  BY <1>1 DEF AtRest, NoTasks, TypeOK, ArchiveCompressionType, Compressed, Resting
<1> QED
  BY <1>1, <1>2, <1>3 DEF AtRest, OneByOne

\* After the wait a task only counts itself out and unlocks: it changes no
\* file and no path, and the constructor does not move.
LEMMA QuietTasks ==
  ASSUME IInv, AtRest, NEW t \in Tasks, CompressionTask(t),
         PastWait \/ ctor = "cleanup" \/ (ctor = "threw" /\ arcC \in Sequential)
  PROVE  pc[t] \in Settled /\ pc'[t] \in Settled /\ arcC \in Threaded /\ PastWait
         /\ UNCHANGED <<disk, size, out, tempFilesPaths, ctor>>
<1>1. pc[t] \notin Resting
  BY TaskEffects DEF IInv
<1>2. pc[t] \in Settled /\ arcC \in Threaded /\ PastWait
  <2>1. arcC \in Threaded \cup Sequential \cup {"NoCompression"}
    BY DEF IInv, TypeOK, ArchiveCompressionType
  <2>2. arcC # "NoCompression"
    BY <1>1 DEF AtRest, NoTasks, Compressed, Resting
  <2>3. arcC \notin Sequential
    <3> SUFFICES ASSUME arcC \in Sequential PROVE FALSE
      OBVIOUS
    <3>1. ctor # "called"
      BY DEF PastWait
    <3> QED
      BY <1>1, <3>1 DEF AtRest, OneByOne
  <2>4. arcC \in Threaded
    BY <2>1, <2>2, <2>3
  <2>5. ctor # "cleanup"
    BY <2>4 DEF IInv, CountInv, CallsAreSequential
  <2>6. PastWait
    BY <2>3, <2>5
  <2> QED
    BY <2>4, <2>6 DEF IInv, CountInv, SettledAfterWait
<1>3. Silent(t)
  BY <1>2, TaskEffects DEF IInv, Settled, OpenNull, OpenFile, CompressFile, CreateTemp,
     WriteTemp, PushTemp, Step
<1>4. ctor' = ctor
  BY <1>2, TaskEffects DEF IInv, Settled
<1> QED
  BY <1>1, <1>2, <1>3, <1>4 DEF Silent, Settled, Resting

-----------------------------------------------------------------------------
(* Who rests. *)

LEMMA RestOfTaskSteps ==
  ASSUME IInv, AtRest, NEW t \in Tasks, CompressionTask(t)
  PROVE  AtRest'
<1>1. /\ pc[t] \notin Resting /\ \A u \in Tasks \ {t} : pc'[u] = pc[u]
      /\ arcC' = arcC /\ i' = i
      /\ ctor' = ctor \/ /\ ctor' \in {"terminated", "cleanup"}
                         /\ pc'[t] = "threw"
                         /\ ctor' = "terminated" <=> arcC \in Threaded
  BY TaskEffects DEF IInv, settings
<1>2. Compressed
  BY <1>1 DEF AtRest, NoTasks, Resting
<1>3. NoTasks'
  BY <1>1, <1>2 DEF NoTasks, Compressed
<1>4. LoopsAreOver'
  BY <1>1 DEF AtRest, LoopsAreOver
<1>5. OneByOne'
  <2> SUFFICES ASSUME arcC \in Sequential, NEW u \in Tasks
               PROVE  /\ ctor' # "called" \/ u # i + 1 => pc'[u] \in Resting
                      /\ (ctor' \in {"call", "called"} /\ u <= i) \/ PastWait'
                         => pc'[u] \in {"done", "skipped"}
    BY <1>1 DEF OneByOne
  <2>1. ctor = "called" /\ t = i + 1
    BY <1>1 DEF AtRest, OneByOne
  <2>2. arcC \notin Threaded
    BY DEF Sequential, Threaded
  <2>3. ctor' = ctor \/ (ctor' = "cleanup" /\ pc'[t] = "threw")
    BY <1>1, <2>2
  <2>4. CASE u = t
    <3>1. ~ (u <= i)
      BY <2>1, <2>4, TasksAreNumbers DEF IInv, TypeOK
    <3> QED
      BY <2>1, <2>3, <2>4, <3>1 DEF Resting, PastWait
  <2>5. CASE u # t
    BY <1>1, <2>1, <2>3, <2>5 DEF AtRest, OneByOne, PastWait
  <2> QED
    BY <2>4, <2>5
<1>6. LoopOfType'
  <2>1. arcC \in Threaded \cup Sequential
    BY <1>2 DEF IInv, TypeOK, ArchiveCompressionType, Compressed
  <2> QED
    BY <1>1, <2>1 DEF AtRest, LoopOfType, Compressed
<1> QED
  BY <1>3, <1>4, <1>5, <1>6 DEF AtRest

LEMMA RestOfConstructorSteps ==
  ASSUME IInv, AtRest, Constructor
  PROVE  AtRest'
<1> USE DEF At
<1>1. i \in Nat /\ Tasks \subseteq Nat /\ \A u \in Tasks : u <= argslen
  BY TasksAreNumbers DEF IInv, TypeOK, Tasks
<1>2. arcC' = arcC
  BY DEF Constructor, Dispatch, SpawnTask, CallTask, LeaveWait, DetachTask, LeaveThrottle,
     EndOfLoop, Spin, TaskReturns, RemoveTemps, SortTemps, SourceMissing, IndexNull, IndexFile,
     WriteHeader, CopyNull, CopyFile, CloseBundle, settings, vars
<1>3. \/ pc' = pc
      \/ SpawnTask \/ CallTask
  BY DEF Constructor, Dispatch, LeaveWait, DetachTask, LeaveThrottle,
     EndOfLoop, Spin, TaskReturns, RemoveTemps, SortTemps, SourceMissing, IndexNull, IndexFile,
     WriteHeader, CopyNull, CopyFile, CloseBundle, taskVars, vars
<1>4. tempFilesPaths' = tempFilesPaths \/ SortTemps
  BY DEF Constructor, Dispatch, SpawnTask, CallTask, LeaveWait, DetachTask, LeaveThrottle,
     EndOfLoop, Spin, TaskReturns, RemoveTemps, SourceMissing, IndexNull, IndexFile,
     WriteHeader, CopyNull, CopyFile, CloseBundle, sharedVars, vars
<1>5. NoTasks'
  <2> SUFFICES ASSUME ~ Compressed PROVE NoTasks'
    BY <1>2 DEF NoTasks, Compressed
  <2>1. ~ SpawnTask /\ ~ CallTask /\ ~ SortTemps
    BY DEF AtRest, LoopOfType, SpawnTask, CallTask, SortTemps, Compressed, Threaded, Sequential
  <2> QED
    BY <1>3, <1>4, <2>1 DEF AtRest, NoTasks
<1>6. LoopsAreOver'
  BY DEF AtRest, LoopsAreOver, Constructor, Dispatch, SpawnTask, CallTask, LeaveWait, DetachTask,
     LeaveThrottle, EndOfLoop, Spin, TaskReturns, RemoveTemps, SortTemps, SourceMissing, IndexNull,
     IndexFile, WriteHeader, CopyNull, CopyFile, CloseBundle, Here, vars
<1>7. LoopOfType'
  <2>1. arcC \in Threaded \cup Sequential \cup {"NoCompression"}
    BY DEF IInv, TypeOK, ArchiveCompressionType
  <2> QED
    BY <1>2, <2>1 DEF AtRest, LoopOfType, Constructor, Dispatch, SpawnTask, CallTask, LeaveWait,
       DetachTask, LeaveThrottle, EndOfLoop, Spin, TaskReturns, RemoveTemps, SortTemps,
       SourceMissing, IndexNull, IndexFile, WriteHeader, CopyNull, CopyFile, CloseBundle, Here,
       vars, Compressed, Threaded, Sequential
<1>8. OneByOne'
  <2> SUFFICES ASSUME arcC \in Sequential, NEW u \in Tasks
               PROVE  /\ ctor' # "called" \/ u # i' + 1 => pc'[u] \in Resting
                      /\ (ctor' \in {"call", "called"} /\ u <= i') \/ PastWait'
                         => pc'[u] \in {"done", "skipped"}
    BY <1>2 DEF OneByOne
  <2>1. arcC \notin Threaded /\ ctor \notin {"spawn", "detach", "throttle", "wait"}
    BY DEF AtRest, LoopOfType, Sequential, Threaded
  <2>2. /\ ctor # "called" \/ u # i + 1 => pc[u] \in Resting
        /\ (ctor \in {"call", "called"} /\ u <= i) \/ PastWait
           => pc[u] \in {"done", "skipped"}
    BY DEF AtRest, OneByOne
  <2>3. u \in Nat /\ u <= argslen
    BY <1>1
  <2>4. CASE SpawnTask \/ DetachTask \/ LeaveThrottle \/ LeaveWait
    BY <2>1, <2>4 DEF SpawnTask, DetachTask, LeaveThrottle, LeaveWait
  <2>5. CASE Spin
    BY <2>2, <2>5 DEF Spin, vars, taskVars, PastWait
  <2>6. CASE CallTask
    BY <1>1, <2>2, <2>3, <2>6 DEF CallTask, PastWait, IInv, TypeOK
  <2>7. CASE TaskReturns
    <3>1. pc'[u] = pc[u] /\ ctor' = "call" /\ i' = i + 1 /\ ctor = "called"
      BY <2>7 DEF TaskReturns, taskVars
    <3>2. pc[i + 1] \in {"done", "skipped"}
      BY <2>7 DEF TaskReturns
    <3>3. u <= i + 1 => u <= i \/ u = i + 1
      BY <1>1, <2>3
    <3> QED
      BY <2>2, <3>1, <3>2, <3>3 DEF PastWait, Resting
  <2>8. CASE Dispatch
    <3>1. i' = 0 /\ ctor' = "call" /\ pc' = pc /\ ctor = "dispatch"
      BY <2>1, <2>8 DEF Dispatch, taskVars, AtRest, LoopsAreOver
    <3>2. ~ (u <= 0)
      BY TasksAreNumbers, <2>3
    <3> QED
      BY <2>2, <3>1, <3>2 DEF PastWait
  <2>9. CASE EndOfLoop
    BY <1>1, <2>1, <2>2, <2>3, <2>9 DEF EndOfLoop, taskVars, PastWait
  <2>10. CASE RemoveTemps \/ SourceMissing
    BY <2>2, <2>10 DEF RemoveTemps, SourceMissing, taskVars, PastWait, Here
  <2>11. CASE SortTemps \/ IndexNull \/ IndexFile \/ WriteHeader \/ CopyNull \/ CopyFile \/ CloseBundle
    <3>1. PastWait /\ PastWait' /\ pc' = pc
      BY <2>11 DEF SortTemps, IndexNull, IndexFile, WriteHeader, CopyNull, CopyFile, CloseBundle,
         PastWait, Here, taskVars
    <3> QED
      BY <2>2, <3>1 DEF PastWait, Resting
  <2> QED
    BY <2>4, <2>5, <2>6, <2>7, <2>8, <2>9, <2>10, <2>11 DEF Constructor
<1> QED
  BY <1>5, <1>6, <1>7, <1>8 DEF AtRest

-----------------------------------------------------------------------------
(* The vector of temporary files. *)

LEMMA PushedIsFinite == IsFiniteSet(Pushed) /\ Pushed \subseteq Tasks
BY CountedIsFinite, FS_Subset DEF Pushed

\* A vector that has one slot for each task has all their files.
LEMMA NobodyIsLeftOut ==
  ASSUME Apart, TypeOK, VectorInv
  PROVE  \A t \in Pushed : \E k \in DOMAIN tempFilesPaths : tempFilesPaths[k] = fpath(t)
<1> DEFINE S == DOMAIN tempFilesPaths
           f == [k \in S |-> CHOOSE t \in Pushed : tempFilesPaths[k] = fpath(t)]
<1>1. S = 1..Len(tempFilesPaths) /\ Len(tempFilesPaths) \in Nat
  BY LenProperties DEF TypeOK
<1>2. IsFiniteSet(S) /\ Cardinality(S) = Cardinality(Pushed)
  BY <1>1, FS_Interval DEF VectorInv, OneSlotEach
<1>3. \A k \in S : f[k] \in Pushed /\ tempFilesPaths[k] = fpath(f[k])
  BY DEF VectorInv, SlotsOfPushed
<1>4. f \in [S -> Pushed]
  BY <1>3
<1> HIDE DEF f
<1>5. \A j, k \in S : f[j] = f[k] => j = k
  BY <1>3 DEF VectorInv, SlotsDiffer
<1>6. f \in Injection(S, Pushed)
  BY <1>4, <1>5 DEF Injection, IsInjective
<1>7. f \in Surjection(S, Pushed)
  BY <1>2, <1>6, PushedIsFinite, FS_Injection
<1>8. \A t \in Pushed : \E k \in S : f[k] = t
  BY <1>7 DEF Surjection
<1> QED
  BY <1>3, <1>8

LEMMA VectorOfPush ==
  ASSUME Apart, IInv, AtRest, VectorInv, NEW t \in Tasks, PushTemp(t)
  PROVE  VectorInv'
<1> DEFINE v == tempFilesPaths
           n == Len(v)
<1>1. /\ pc[t] = "fill" /\ pc' = [pc EXCEPT ![t] = "count"] /\ size' = size /\ ctor' = ctor
      /\ tempFilesPaths' = Append(SubSeq(v, 1, loaded[t]), fpath(t))
  BY DEF PushTemp, Step
<1>2. loaded[t] = n /\ TypeOK
  BY <1>1 DEF IInv, LockInv, FillsAtEnd
<1>3. v \in Seq(Paths \ {<<>>}) /\ n \in Nat /\ DOMAIN v = 1..n
  BY <1>2, LenProperties DEF TypeOK
<1>4. SubSeq(v, 1, n) = v
  BY <1>3, SubSeqFull
<1>5. fpath(t) \in Paths \ {<<>>}
  BY <1>2, TempsAreApart
<1> DEFINE w == Append(v, fpath(t))
<1>6. tempFilesPaths' = w
  BY <1>1, <1>2, <1>4
<1>7. /\ w \in Seq(Paths \ {<<>>}) /\ Len(w) = n + 1
      /\ \A k \in 1..n : w[k] = v[k]
      /\ w[n + 1] = fpath(t)
  BY <1>3, <1>5, AppendProperties
<1>8. DOMAIN w = 1..(n + 1)
  BY <1>7, LenProperties
<1>9. t \notin Pushed /\ Pushed' = Pushed \cup {t}
  BY <1>1, <1>2 DEF Pushed, Settled, TypeOK
<1>10. Cardinality(Pushed') = Cardinality(Pushed) + 1
  BY <1>9, PushedIsFinite, FS_AddElement
<1>11. \A u \in Tasks : fpath(u)' = fpath(u)
  BY <1>1 DEF fpath
<1> HIDE DEF w
<1>12. OneSlotEach'
  BY <1>6, <1>7, <1>10 DEF OneSlotEach, VectorInv
<1>13. SlotsOfPushed'
  <2> SUFFICES ASSUME NEW k \in 1..(n + 1) PROVE \E u \in Pushed' : w[k] = fpath(u)
    BY <1>6, <1>8, <1>9, <1>11, PushedIsFinite DEF SlotsOfPushed
  <2>1. CASE k = n + 1
    BY <2>1, <1>7, <1>9
  <2>2. CASE k # n + 1
    <3>1. k \in 1..n
      BY <1>3, <2>2
    <3>2. PICK u \in Pushed : v[k] = fpath(u)
      BY <1>3, <3>1 DEF VectorInv, SlotsOfPushed
    <3> QED
      BY <1>7, <1>9, <3>1, <3>2
  <2> QED
    BY <2>1, <2>2
<1>14. \A k \in 1..n : v[k] # fpath(t)
  <2> SUFFICES ASSUME NEW k \in 1..n, v[k] = fpath(t) PROVE FALSE
    OBVIOUS
  <2>1. PICK u \in Pushed : v[k] = fpath(u)
    BY <1>3 DEF VectorInv, SlotsOfPushed
  <2> QED
    BY <1>2, <1>9, <2>1, TempsAreApart, PushedIsFinite
<1>15. SlotsDiffer'
  <2> SUFFICES ASSUME NEW j \in 1..(n + 1), NEW k \in 1..(n + 1), w[j] = w[k] PROVE j = k
    BY <1>6, <1>8 DEF SlotsDiffer
  <2>1. j \in 1..n \/ j = n + 1
    BY <1>3
  <2>2. k \in 1..n \/ k = n + 1
    BY <1>3
  <2>3. \A a, b \in 1..n : v[a] = v[b] => a = b
    BY <1>3 DEF VectorInv, SlotsDiffer
  <2> QED
    BY <1>7, <1>14, <2>1, <2>2, <2>3
<1>16. SortedOnce'
  <2>1. CompressionTask(t) /\ pc[t] \notin Settled
    BY <1>1 DEF CompressionTask, Settled
  <2>2. ctor \notin {"index", "copy", "returned"}
    BY <2>1, QuietTasks DEF PastWait
  <2> QED
    BY <1>1, <2>2 DEF SortedOnce
<1> QED
  BY <1>12, <1>13, <1>15, <1>16 DEF VectorInv

LEMMA VectorOfTaskSteps ==
  ASSUME Apart, IInv, AtRest, VectorInv, NEW t \in Tasks, CompressionTask(t)
  PROVE  VectorInv'
<1>1. CASE PushTemp(t)
  BY <1>1, VectorOfPush
<1>2. CASE ~ PushTemp(t)
  <2>1. TypeOK
    BY DEF IInv
  <2>2. tempFilesPaths' = tempFilesPaths
    BY <1>2, <2>1, TaskEffects
       DEF Silent, OpenNull, OpenFile, CompressFile, CreateTemp, WriteTemp, sharedVars
  <2>3. pc[t] \in {"count"} \cup Settled <=> pc'[t] \in {"count"} \cup Settled
    BY <1>2, <2>1, TaskEffects DEF Silent, OpenNull, OpenFile, CompressFile, CreateTemp, WriteTemp,
       Step, Settled, TypeOK
  <2>4. Pushed' = Pushed
    BY <2>1, <2>3, TaskEffects DEF Pushed
  <2>5. \A u \in Pushed : fpath(u)' = fpath(u)
    <3>1. \A u \in Tasks : u # t => size'[u] = size[u]
      BY <2>1, TaskEffects
    <3>2. t \in Pushed => size' = size
      BY <2>1, TaskEffects DEF Pushed, Settled
    <3> QED
      BY <3>1, <3>2, PushedIsFinite DEF fpath
  <2>6. ctor' \in {"index", "copy", "returned"} => ctor' = ctor
    BY <2>1, TaskEffects
  <2> QED
    BY <2>2, <2>4, <2>5, <2>6 DEF VectorInv, OneSlotEach, SlotsOfPushed, SlotsDiffer, SortedOnce
<1> QED
  BY <1>1, <1>2

LEMMA VectorOfSort ==
  ASSUME IInv, VectorInv, SortTemps
  PROVE  VectorInv'
<1> DEFINE v == tempFilesPaths
<1>1. PICK s \in [DOMAIN v -> {v[k] : k \in DOMAIN v}] :
          Permutes(v, s) /\ Sorted(s) /\ tempFilesPaths' = s
  BY DEF SortTemps
<1>2. PICK p \in [DOMAIN v -> DOMAIN v] :
          /\ \A j, k \in DOMAIN v : p[j] = p[k] => j = k
          /\ \A j \in DOMAIN v : s[j] = v[p[j]]
  BY <1>1 DEF Permutes
<1>3. Len(s) = Len(v) /\ DOMAIN s = DOMAIN v
  BY <1>1 DEF Permutes
<1>4. pc' = pc /\ size' = size
  BY DEF SortTemps, taskVars
<1>5. Pushed' = Pushed /\ \A u \in Tasks : fpath(u)' = fpath(u)
  BY <1>4 DEF Pushed, fpath
<1>6. OneSlotEach'
  BY <1>1, <1>3, <1>5 DEF VectorInv, OneSlotEach
<1>7. SlotsOfPushed'
  <2>1. \A k \in DOMAIN v : \E u \in Pushed : v[p[k]] = fpath(u)
    BY <1>2 DEF VectorInv, SlotsOfPushed
  <2> QED
    BY <1>1, <1>2, <1>3, <1>5, <2>1, PushedIsFinite, SMTT(30) DEF SlotsOfPushed
<1>8. SlotsDiffer'
  <2>1. \A j, k \in DOMAIN v : v[p[j]] = v[p[k]] => p[j] = p[k]
    BY <1>2 DEF VectorInv, SlotsDiffer
  <2> QED
    BY <1>1, <1>2, <1>3, <2>1 DEF SlotsDiffer
<1>9. SortedOnce'
  BY <1>1 DEF SortedOnce
<1> QED
  BY <1>6, <1>7, <1>8, <1>9 DEF VectorInv

LEMMA VectorOfConstructorSteps ==
  ASSUME IInv, AtRest, VectorInv, Constructor
  PROVE  VectorInv'
<1>1. CASE SortTemps
  BY <1>1, VectorOfSort
<1>2. CASE ~ SortTemps
  <2>1. tempFilesPaths' = tempFilesPaths /\ size' = size
    BY <1>2 DEF Constructor, Dispatch, SpawnTask, CallTask, LeaveWait, DetachTask, LeaveThrottle,
       EndOfLoop, Spin, TaskReturns, RemoveTemps, SourceMissing, IndexNull, IndexFile,
       WriteHeader, CopyNull, CopyFile, CloseBundle, sharedVars, taskVars, vars
  <2>2. Pushed' = Pushed
    <3>1. CASE SpawnTask \/ CallTask
      <4>1. ctor \in {"spawn", "call"} /\ i + 1 \in Tasks /\ pc' = [pc EXCEPT ![i + 1] = "start"]
        BY <3>1, TasksAreNumbers, SMTT(30) DEF SpawnTask, CallTask, At, IInv, TypeOK, Tasks
      <4>2. pc[i + 1] = "unborn"
        BY <4>1 DEF IInv, TypeOK, CountInv, NotYetStarted
      <4> QED
        BY <4>1, <4>2 DEF Pushed, Settled, IInv, TypeOK
    <3>2. CASE ~ (SpawnTask \/ CallTask)
      <4>1. pc' = pc
        BY <3>2, <1>2 DEF Constructor, Dispatch, LeaveWait, DetachTask, LeaveThrottle,
           EndOfLoop, Spin, TaskReturns, RemoveTemps, SourceMissing, IndexNull, IndexFile,
           WriteHeader, CopyNull, CopyFile, CloseBundle, taskVars, vars
      <4> QED
        BY <4>1 DEF Pushed
    <3> QED
      BY <3>1, <3>2
  <2>3. SortedOnce'
    <3>1. CASE arcC = "NoCompression"
      <4>1. tempFilesPaths' = <<>>
        BY <2>1, <3>1 DEF AtRest, NoTasks, Compressed
      <4> QED
        BY <4>1 DEF SortedOnce, Sorted
    <3>2. CASE arcC # "NoCompression"
      <4>1. ctor' \in {"index", "copy", "returned"} => ctor \in {"index", "copy", "returned"}
        <5>1. arcC \in Threaded \cup Sequential
          BY <3>2 DEF IInv, TypeOK, ArchiveCompressionType
        <5> QED
          BY <1>2, <5>1 DEF Constructor, Dispatch, SpawnTask, CallTask, LeaveWait, DetachTask, LeaveThrottle,
             EndOfLoop, Spin, TaskReturns, RemoveTemps, SourceMissing, IndexNull, IndexFile,
             WriteHeader, CopyNull, CopyFile, CloseBundle, At, Here, vars
      <4> QED
        BY <2>1, <4>1 DEF VectorInv, SortedOnce
    <3> QED
      BY <3>1, <3>2
  <2> QED
    BY <2>1, <2>2, <2>3 DEF VectorInv, OneSlotEach, SlotsOfPushed, SlotsDiffer, fpath
<1> QED
  BY <1>1, <1>2

-----------------------------------------------------------------------------
(* The files. *)

\* A task writes only its own temporary file.
LEMMA TaskWrites ==
  ASSUME TypeOK, NEW t \in Tasks, CompressionTask(t)
  PROVE  \/ disk' = disk
         \/ /\ <<pc[t], pc'[t]>> \in {<<"create", "write">>, <<"write", "lock">>}
            /\ DOMAIN disk' = DOMAIN disk \cup {fpath(t)}
            /\ \A q \in DOMAIN disk : q # fpath(t) => disk'[q] = disk[q]
            /\ pc[t] = "write" => disk'[fpath(t)] = out[t]
            /\ UNCHANGED <<size, out>>
<1>1. CASE CreateTemp(t) \/ WriteTemp(t)
  <2> DEFINE p == fpath(t)
  <2>1. PICK c : disk' = WithFile(p, c) /\ (pc[t] = "write" => c = out[t])
    BY <1>1 DEF CreateTemp, WriteTemp, Step
  <2>2. /\ <<pc[t], pc'[t]>> \in {<<"create", "write">>, <<"write", "lock">>}
        /\ UNCHANGED <<size, out>>
    BY <1>1 DEF CreateTemp, WriteTemp, Step, TypeOK
  <2> HIDE DEF p
  <2>3. /\ DOMAIN disk' = DOMAIN disk \cup {p} /\ disk'[p] = c
        /\ \A q \in DOMAIN disk : q # p => disk'[q] = disk[q]
    BY <2>1 DEF WithFile
  <2> QED
    BY <2>1, <2>2, <2>3 DEF p
<1>2. CASE ~ (CreateTemp(t) \/ WriteTemp(t))
  BY <1>2, TaskEffects DEF Silent, OpenNull, OpenFile, CompressFile, PushTemp
<1> QED
  BY <1>1, <1>2

LEMMA TasksKeepInputs ==
  ASSUME Apart, TypeOK, NEW t \in Tasks, CompressionTask(t), NEW p \in Inputs
  PROVE  (Exists(p) <=> Exists(p)') /\ (Exists(p) => disk'[p] = disk[p])
<1>1. fpath(t) # p
  BY TempsAreApart
<1> QED
  BY <1>1, TaskWrites DEF Exists

\* What a task makes of its file is made of that file.
LEMMA CompressionsKeepOrigin ==
  ASSUME NEW c, NEW d \in Compressions(c)
  PROVE  d.of = c.of
<1>1. \A n : Packed(c, n).of = c.of
  BY DEF Packed
<1>2. d = c \/ \E n : d = Packed(c, n)
  BY Zenon DEF Compressions
<1> QED
  BY <1>1, <1>2

LEMMA MadeByTaskSteps ==
  ASSUME Apart, TypeOK, InputsAreOriginal, MadeOfInputs, NEW t \in Tasks, CompressionTask(t)
  PROVE  MadeOfInputs'
<1> SUFFICES ASSUME MaxEdits = 0, NEW u \in Tasks
             PROVE  /\ pc'[u] = "skipped" /\ Exists(InFiles[u])' => disk'[InFiles[u]].len = 0
                    /\ pc'[u] \in Sized => Exists(InFiles[u])' /\ disk'[InFiles[u]].len = size'[u]
                    /\ pc'[u] \in {"create", "write"} \cup Whole => out'[u].of = InFiles[u]
  BY DEF MadeOfInputs
<1>1. /\ pc[u] = "skipped" /\ Exists(InFiles[u]) => disk[InFiles[u]].len = 0
      /\ pc[u] \in Sized => Exists(InFiles[u]) /\ disk[InFiles[u]].len = size[u]
      /\ pc[u] \in {"create", "write"} \cup Whole => out[u].of = InFiles[u]
  BY DEF MadeOfInputs
<1>2. /\ Exists(InFiles[u])' <=> Exists(InFiles[u])
      /\ Exists(InFiles[u]) => disk'[InFiles[u]] = disk[InFiles[u]]
  BY TasksKeepInputs DEF Inputs
<1>3. CASE u # t
  BY <1>1, <1>2, <1>3, TaskEffects
<1>4. CASE u = t
  <2> USE <1>4 DEF Sized, Whole, Settled, Step, TypeOK
  <2>1. CASE Silent(t)
    BY <1>1, <1>2, <2>1 DEF Silent
  <2>2. CASE OpenNull(t)
    BY <1>2, <2>2 DEF OpenNull
  <2>3. CASE OpenFile(t)
    BY <1>2, <2>3 DEF OpenFile
  <2>4. CASE CompressFile(t)
    <3>1. pc[t] = "compress" /\ pc'[t] = "create" /\ size' = size
      BY <2>4 DEF CompressFile
    <3>2. Exists(InFiles[t]) /\ disk[InFiles[t]].len = size[t]
      BY <1>1, <3>1
    <3>3. disk[InFiles[t]].of = InFiles[t]
      <4>1. disk[InFiles[t]] = Original(InFiles[t], disk[InFiles[t]].len)
        BY <3>2 DEF InputsAreOriginal, Inputs
      <4>2. \A p, n : Original(p, n).of = p
        BY DEF Original
      <4> QED
        BY <4>1, <4>2, Zenon
    <3>4. \E d \in Compressions(disk[InFiles[t]]) : out' = [out EXCEPT ![t] = d]
      BY <2>4, <3>2 DEF CompressFile
    <3>5. PICK d : d.of = InFiles[t] /\ out' = [out EXCEPT ![t] = d]
      BY <3>3, <3>4, CompressionsKeepOrigin
    <3> QED
      BY <1>2, <3>1, <3>2, <3>5
  <2>5. CASE CreateTemp(t) \/ WriteTemp(t) \/ PushTemp(t)
    BY <1>1, <1>2, <2>5 DEF CreateTemp, WriteTemp, PushTemp
  <2> QED
    BY <2>1, <2>2, <2>3, <2>4, <2>5, TaskEffects
<1> QED
  BY <1>3, <1>4

LEMMA FilesOfTaskSteps ==
  ASSUME Apart, IInv, AtRest, FilesInv, NEW t \in Tasks, CompressionTask(t)
  PROVE  FilesInv'
<1>1. TypeOK
  BY DEF IInv
<1>2. /\ pc'[t] # pc[t] /\ pc[t] \notin Resting
      /\ \A u \in Tasks \ {t} : pc'[u] = pc[u] /\ size'[u] = size[u] /\ out'[u] = out[u]
      /\ pc[t] # "open" => size' = size
  BY <1>1, TaskEffects
<1>3. pc[t] \in {"write"} \cup Whole =>
        /\ pc'[t] \in {"write"} \cup Whole
        /\ UNCHANGED <<size, out>>
  BY <1>1, <1>2, TaskEffects DEF Silent, OpenNull, OpenFile, CompressFile, CreateTemp, WriteTemp,
     PushTemp, Step, Whole, Settled, TypeOK
<1>4. pc'[t] \in Whole => pc[t] \in {"write"} \cup Whole
  BY <1>1, <1>2, TaskEffects DEF Silent, OpenNull, OpenFile, CompressFile, CreateTemp, WriteTemp,
     PushTemp, Step, Whole, Settled, TypeOK
<1>5. InputsAreOriginal'
  BY <1>1, TasksKeepInputs DEF FilesInv, InputsAreOriginal
<1>6. OthersAreTemps'
  <2> SUFFICES ASSUME NEW q \in DOMAIN disk', q \notin Inputs
               PROVE  \E u \in Tasks : q = fpath(u)' /\ pc'[u] \in {"write"} \cup Whole
    BY DEF OthersAreTemps
  <2>1. CASE q \in DOMAIN disk
    <3>1. PICK u \in Tasks : q = fpath(u) /\ pc[u] \in {"write"} \cup Whole
      BY <2>1 DEF FilesInv, OthersAreTemps
    <3>2. pc'[u] \in {"write"} \cup Whole /\ size'[u] = size[u]
      BY <1>2, <1>3, <3>1
    <3> QED
      BY <3>1, <3>2 DEF fpath
  <2>2. CASE q \notin DOMAIN disk
    <3>1. q = fpath(t) /\ pc'[t] \in {"write", "lock"} /\ size' = size
      BY <1>1, <2>2, TaskWrites
    <3> QED
      BY <3>1 DEF fpath, Whole
  <2> QED
    BY <2>1, <2>2
<1>7. ctor' \notin {"copy", "returned", "threw", "terminated"} =>
        ctor \notin {"copy", "returned", "threw", "terminated"}
  BY TasksThrowIntoLoop
<1>8. TempsAreWhole'
  <2> SUFFICES ASSUME NEW u \in Tasks, pc'[u] \in Whole
               PROVE  /\ Exists(fpath(u))' => disk'[fpath(u)'] = out'[u]
                      /\ ctor' \notin {"copy", "returned", "threw", "terminated"} =>
                           Exists(fpath(u))'
    BY DEF TempsAreWhole
  <2>1. CASE u # t
    <3>1. pc[u] \in Whole /\ fpath(u)' = fpath(u) /\ out'[u] = out[u]
      BY <1>2, <2>1 DEF fpath
    <3>2. fpath(u) # fpath(t)
      BY <1>1, <2>1, TempsAreApart
    <3>3. /\ Exists(fpath(u))' <=> Exists(fpath(u))
          /\ Exists(fpath(u)) => disk'[fpath(u)] = disk[fpath(u)]
      BY <1>1, <3>1, <3>2, TaskWrites DEF Exists
    <3> QED
      BY <1>7, <3>1, <3>3 DEF FilesInv, TempsAreWhole
  <2>2. CASE u = t /\ pc[t] = "write"
    <3>1. UNCHANGED <<size, out>> /\ pc'[t] = "lock"
      BY <1>1, <1>3, <2>2, TaskEffects DEF Silent, OpenNull, OpenFile, CompressFile, CreateTemp,
         WriteTemp, PushTemp, Step, TypeOK
    <3>2. WriteTemp(t)
      BY <1>1, <2>2, TaskEffects DEF Silent, OpenNull, OpenFile, CompressFile, CreateTemp,
         PushTemp, Step
    <3>3. Exists(fpath(t))' /\ disk'[fpath(t)] = out[t]
      <4> DEFINE p == fpath(t)
      <4>1. disk' = WithFile(p, out[t])
        BY <3>2 DEF WriteTemp
      <4> HIDE DEF p
      <4>2. p \in DOMAIN disk' /\ disk'[p] = out[t]
        BY <4>1 DEF WithFile
      <4>3. fpath(t)' = fpath(t)
        BY <3>1 DEF fpath
      <4> QED
        BY <4>2, <4>3 DEF Exists, p
    <3> QED
      BY <2>2, <3>1, <3>3 DEF fpath
  <2>3. CASE u = t /\ pc[t] \in Whole
    <3>1. UNCHANGED <<size, out>>
      BY <1>3, <2>3
    <3>2. disk' = disk
      BY <1>1, <2>3, TaskWrites DEF Whole, Settled
    <3> QED
      BY <1>7, <2>3, <3>1, <3>2 DEF FilesInv, TempsAreWhole, fpath, Exists
  <2> QED
    BY <1>4, <2>1, <2>2, <2>3
<1>9. MadeOfInputs'
  BY <1>1, MadeByTaskSteps DEF FilesInv
<1> QED
  BY <1>5, <1>6, <1>8, <1>9 DEF FilesInv

\* The constructor only deletes, and it deletes no input.
LEMMA ConstructorDeletes ==
  ASSUME Apart, IInv, AtRest, VectorInv, Constructor
  PROVE  /\ \A q \in DOMAIN disk' : q \in DOMAIN disk /\ disk'[q] = disk[q]
         /\ \A p \in Inputs : Exists(p) => Exists(p)'
         /\ disk' = disk \/ ctor' \in {"threw", "copy"}
<1>1. TypeOK
  BY DEF IInv
<1>2. \A k \in DOMAIN tempFilesPaths : tempFilesPaths[k] \notin Inputs
  BY <1>1, TempsAreApart, PushedIsFinite DEF VectorInv, SlotsOfPushed
<1>3. CASE RemoveTemps
  BY <1>2, <1>3 DEF RemoveTemps, At, Exists
<1>4. CASE CopyFile
  <2>1. CASE disk' = disk
    BY <2>1 DEF Exists
  <2>2. CASE Compressed /\ disk' = WithoutFile(Source)
    <3>1. i + 1 \in DOMAIN tempFilesPaths /\ Source = tempFilesPaths[i + 1] /\ ctor' = "copy"
      <4>1. Sources = tempFilesPaths /\ i < Len(tempFilesPaths) /\ ctor' = "copy"
        BY <1>4, <2>2 DEF CopyFile, Here, Sources, Compressed
      <4>2. DOMAIN tempFilesPaths = 1..Len(tempFilesPaths) /\ Len(tempFilesPaths) \in Nat /\ i \in Nat
        BY <1>1, LenProperties DEF TypeOK
      <4> QED
        BY <4>1, <4>2 DEF Source
    <3> QED
      BY <1>2, <2>2, <3>1 DEF WithoutFile, Exists
  <2> QED
    BY <1>4, <2>1, <2>2 DEF CopyFile, Compressed
<1>5. CASE ~ RemoveTemps /\ ~ CopyFile
  <2>1. disk' = disk
    BY <1>5 DEF Constructor, Dispatch, SpawnTask, CallTask, LeaveWait, DetachTask, LeaveThrottle,
       EndOfLoop, Spin, TaskReturns, SortTemps, SourceMissing, IndexNull, IndexFile,
       WriteHeader, CopyNull, CloseBundle, vars
  <2> QED
    BY <2>1 DEF Exists
<1> QED
  BY <1>3, <1>4, <1>5

\* The constructor starts tasks, and leaves them alone afterwards.
LEMMA ConstructorStarts ==
  ASSUME IInv, AtRest, Constructor
  PROVE  /\ UNCHANGED <<settings, size, out>>
         /\ \A u \in Tasks : pc'[u] = pc[u] \/ (pc[u] = "unborn" /\ pc'[u] = "start")
         /\ ctor \in {"copy", "returned", "threw", "terminated"} =>
              ctor' \in {"copy", "returned", "threw", "terminated"}
<1> USE DEF taskVars, vars, settings, At, Here
<1>1. CASE SpawnTask \/ CallTask
  <2>1. ctor \in {"spawn", "call"} /\ i + 1 \in Tasks /\ pc' = [pc EXCEPT ![i + 1] = "start"]
    <3>1. ctor \in {"spawn", "call"} /\ i < argslen /\ pc' = [pc EXCEPT ![i + 1] = "start"]
      BY <1>1 DEF SpawnTask, CallTask
    <3>2. i \in Nat /\ argslen \in Nat
      BY TasksAreNumbers DEF IInv, TypeOK
    <3> QED
      BY <3>1, <3>2 DEF Tasks
  <2>2. pc[i + 1] = "unborn"
    BY <2>1 DEF IInv, TypeOK, CountInv, NotYetStarted
  <2>3. UNCHANGED <<settings, size, out>> /\ ctor' \in {"spawn", "called"}
    BY <1>1 DEF SpawnTask, CallTask
  <2> QED
    BY <2>1, <2>2, <2>3 DEF IInv, TypeOK
<1>2. CASE ~ (SpawnTask \/ CallTask)
  <2>1. pc' = pc /\ UNCHANGED <<settings, size, out>>
    BY <1>2 DEF Constructor, Dispatch, LeaveWait, DetachTask, LeaveThrottle,
       EndOfLoop, Spin, TaskReturns, RemoveTemps, SortTemps, SourceMissing, IndexNull, IndexFile,
       WriteHeader, CopyNull, CopyFile, CloseBundle
  <2>2. ctor \in {"copy", "returned", "threw", "terminated"} =>
              ctor' \in {"copy", "returned", "threw", "terminated"}
    BY <1>2 DEF Constructor, Dispatch, LeaveWait, DetachTask, LeaveThrottle,
       EndOfLoop, Spin, TaskReturns, RemoveTemps, SortTemps, SourceMissing, IndexNull, IndexFile,
       WriteHeader, CopyNull, CopyFile, CloseBundle
  <2> QED
    BY <2>1, <2>2
<1> QED
  BY <1>1, <1>2

LEMMA FilesOfConstructorSteps ==
  ASSUME Apart, IInv, AtRest, VectorInv, FilesInv, Constructor
  PROVE  FilesInv'
<1>1. /\ \A q \in DOMAIN disk' : q \in DOMAIN disk /\ disk'[q] = disk[q]
      /\ \A p \in Inputs : Exists(p) => Exists(p)'
      /\ disk' = disk \/ ctor' \in {"threw", "copy"}
  BY ConstructorDeletes
<1>2. /\ UNCHANGED <<settings, size, out>>
      /\ \A u \in Tasks : pc'[u] = pc[u] \/ (pc[u] = "unborn" /\ pc'[u] = "start")
      /\ ctor \in {"copy", "returned", "threw", "terminated"} =>
           ctor' \in {"copy", "returned", "threw", "terminated"}
  BY ConstructorStarts
<1>3. \A u \in Tasks : fpath(u)' = fpath(u)
  BY <1>2 DEF fpath
<1>4. InputsAreOriginal'
  BY <1>1 DEF FilesInv, InputsAreOriginal, Exists
<1>5. OthersAreTemps'
  <2> SUFFICES ASSUME NEW q \in DOMAIN disk', q \notin Inputs
               PROVE  \E u \in Tasks : q = fpath(u)' /\ pc'[u] \in {"write"} \cup Whole
    BY DEF OthersAreTemps
  <2>1. PICK u \in Tasks : q = fpath(u) /\ pc[u] \in {"write"} \cup Whole
    BY <1>1 DEF FilesInv, OthersAreTemps
  <2> QED
    BY <1>2, <1>3, <2>1 DEF Whole, Settled
<1>6. TempsAreWhole'
  <2> SUFFICES ASSUME NEW u \in Tasks, pc'[u] \in Whole
               PROVE  /\ Exists(fpath(u))' => disk'[fpath(u)] = out[u]
                      /\ ctor' \notin {"copy", "returned", "threw", "terminated"} =>
                           Exists(fpath(u))'
    BY <1>2, <1>3 DEF TempsAreWhole
  <2>1. pc[u] \in Whole
    BY <1>2 DEF Whole, Settled
  <2> QED
    BY <1>1, <1>2, <1>3, <2>1 DEF FilesInv, TempsAreWhole, Exists
<1>7. MadeOfInputs'
  <2> SUFFICES ASSUME MaxEdits = 0, NEW u \in Tasks
               PROVE  /\ pc'[u] = "skipped" /\ Exists(InFiles[u])' => disk'[InFiles[u]].len = 0
                      /\ pc'[u] \in Sized => Exists(InFiles[u])' /\ disk'[InFiles[u]].len = size[u]
                      /\ pc'[u] \in {"create", "write"} \cup Whole => out[u].of = InFiles[u]
    BY <1>2 DEF MadeOfInputs
  <2>1. pc'[u] \in Sized \cup {"skipped"} => pc[u] = pc'[u]
    BY <1>2 DEF Sized, Whole, Settled
  <2>2. InFiles[u] \in Inputs
    BY DEF Inputs
  <2> QED
    BY <1>1, <2>1, <2>2 DEF FilesInv, MadeOfInputs, Exists, Sized, Whole, Settled
<1> QED
  BY <1>4, <1>5, <1>6, <1>7 DEF FilesInv

\* What others do to the inputs while the constructor runs.
LEMMA EditsKeepTemps ==
  ASSUME TypeOK, EditInput
  PROVE  /\ \A q : q \notin Inputs => /\ q \in DOMAIN disk' <=> q \in DOMAIN disk
                                      /\ q \in DOMAIN disk => disk'[q] = disk[q]
         /\ \A p \in Inputs : p \in DOMAIN disk' =>
              (disk'[p] = disk[p] /\ p \in DOMAIN disk) \/ disk'[p] = Original(p, disk'[p].len)
         /\ MaxEdits # 0
<1>1. MaxEdits # 0
  BY EditsAssumption DEF EditInput, TypeOK
<1>2. PICK p \in Inputs : \/ disk' = WithoutFile(p)
                          \/ \E n \in Sizes : disk' = WithFile(p, Original(p, n))
  BY DEF EditInput
<1>3. CASE disk' = WithoutFile(p)
  BY <1>1, <1>2, <1>3 DEF WithoutFile
<1>4. CASE \E n \in Sizes : disk' = WithFile(p, Original(p, n))
  <2>1. PICK n \in Sizes : disk' = WithFile(p, Original(p, n))
    BY <1>4
  <2> DEFINE c == Original(p, n)
  <2>2. c = Original(p, c.len)
    BY DEF Original
  <2> HIDE DEF c
  <2>3. /\ DOMAIN disk' = DOMAIN disk \cup {p} /\ disk'[p] = c
        /\ \A q \in DOMAIN disk : q # p => disk'[q] = disk[q]
    BY <2>1 DEF WithFile, c
  <2> QED
    BY <1>1, <1>2, <2>2, <2>3
<1> QED
  BY <1>2, <1>3, <1>4

LEMMA FilesOfEdits ==
  ASSUME Apart, TypeOK, FilesInv, EditInput
  PROVE  FilesInv'
<1>1. /\ \A q : q \notin Inputs => /\ q \in DOMAIN disk' <=> q \in DOMAIN disk
                                   /\ q \in DOMAIN disk => disk'[q] = disk[q]
      /\ \A p \in Inputs : p \in DOMAIN disk' =>
           (disk'[p] = disk[p] /\ p \in DOMAIN disk) \/ disk'[p] = Original(p, disk'[p].len)
      /\ MaxEdits # 0
  BY EditsKeepTemps
<1>2. UNCHANGED <<pc, size, out, ctor>>
  BY DEF EditInput, taskVars
<1>3. \A u \in Tasks : fpath(u)' = fpath(u) /\ fpath(u) \notin Inputs
  BY <1>2, TempsAreApart DEF fpath
<1>4. InputsAreOriginal'
  BY <1>1 DEF FilesInv, InputsAreOriginal, Exists
<1>5. OthersAreTemps'
  BY <1>1, <1>2, <1>3 DEF FilesInv, OthersAreTemps
<1>6. TempsAreWhole'
  BY <1>1, <1>2, <1>3 DEF FilesInv, TempsAreWhole, Exists
<1>7. MadeOfInputs'
  BY <1>1 DEF MadeOfInputs
<1> QED
  BY <1>4, <1>5, <1>6, <1>7 DEF FilesInv

-----------------------------------------------------------------------------
(* The two passes. *)

LEMMA SourcesTyped ==
  ASSUME TypeOK
  PROVE  /\ Len(Sources) \in Nat /\ DOMAIN Sources = 1..Len(Sources) /\ i \in Nat
         /\ \A k \in 1..Len(Sources) : Sources[k] \in Paths \ {<<>>}
<1>1. Sources \in Seq(Paths \ {<<>>})
  <2>1. InFiles \in Seq(Paths \ {<<>>})
    BY InFilesAssumption, InFilesArePaths, LenProperties, SeqDef, TasksAreNumbers
       DEF Tasks, argslen
  <2> QED
    BY <2>1 DEF Sources, TypeOK
<1>2. i \in Nat
  BY DEF TypeOK
<1> QED
  BY <1>1, <1>2, LenProperties, ElementOfSeq

LEMMA SourcesTypedNext == TypeOK' => (Len(Sources) \in Nat)'
<1>1. TypeOK => Len(Sources) \in Nat
  BY SourcesTyped
<1> QED
  BY <1>1, PTL

\* The files of a compressed bundle: the task's own, written to the end.
LEMMA SourcesAreTemps ==
  ASSUME Apart, TypeOK, VectorInv, Compressed, NEW k \in 1..Len(Sources)
  PROVE  \E t \in Pushed : Sources[k] = fpath(t) /\ pc[t] \in Whole
<1>1. Sources = tempFilesPaths
  BY DEF Sources, Compressed
<1>2. k \in DOMAIN tempFilesPaths
  BY <1>1, SourcesTyped
<1> QED
  BY <1>1, <1>2 DEF VectorInv, SlotsOfPushed, Pushed, Whole

LEMMA SourcesDiffer ==
  ASSUME Apart, TypeOK, VectorInv, NEW j \in 1..Len(Sources), NEW k \in 1..Len(Sources),
         Sources[j] = Sources[k]
  PROVE  j = k
<1>1. CASE Compressed
  <2>1. Sources = tempFilesPaths
    BY <1>1 DEF Sources, Compressed
  <2> QED
    BY <2>1, SourcesTyped DEF VectorInv, SlotsDiffer
<1>2. CASE ~ Compressed
  BY <1>2 DEF Apart, Sources, Compressed, Tasks, argslen
<1> QED
  BY <1>1, <1>2

\* A source the first pass reads holds what PathOf says.
LEMMA SourceIsOf ==
  ASSUME Apart, TypeOK, VectorInv, FilesInv, MaxEdits = 0,
         NEW k \in 1..Len(Sources), Exists(Sources[k])
  PROVE  disk[Sources[k]].of = PathOf(Sources[k])
<1>1. CASE Compressed
  <2>1. PICK t \in Pushed : Sources[k] = fpath(t) /\ pc[t] \in Whole
    BY <1>1, SourcesAreTemps
  <2>2. t \in Tasks
    BY PushedIsFinite
  <2>3. disk[fpath(t)] = out[t] /\ out[t].of = InFiles[t]
    BY <2>1, <2>2 DEF FilesInv, TempsAreWhole, MadeOfInputs
  <2>4. TempBase(fpath(t)) = InFiles[t]
    BY <2>2, TempsAreApart
  <2> QED
    BY <1>1, <2>1, <2>3, <2>4 DEF PathOf
<1>2. CASE ~ Compressed
  <2>1. Sources[k] \in Inputs /\ PathOf(Sources[k]) = Sources[k]
    BY <1>2 DEF Sources, Compressed, Inputs, Tasks, argslen, PathOf
  <2>2. disk[Sources[k]] = Original(Sources[k], disk[Sources[k]].len)
    BY <2>1 DEF FilesInv, InputsAreOriginal
  <2>3. \A p, n : Original(p, n).of = p
    BY DEF Original
  <2> QED
    BY <2>1, <2>2, <2>3, Zenon
<1> QED
  BY <1>1, <1>2

\* An entry is right as long as what it is about stays.
LEMMA EntryStays ==
  ASSUME NEW k \in Nat \ {0}, EntryOK(k), arcC' = arcC, Sources'[k] = Sources[k],
         filesInfo'[k] = filesInfo[k], EndOf(k - 1)' = EndOf(k - 1),
         \A j \in 1..k : Held(j)' = Held(j)
  PROVE  EntryOK(k)'
<1>1. PathOf(Sources[k])' = PathOf(Sources[k])
  BY DEF PathOf, Compressed
<1>2. Held(k)' = Held(k)
  OBVIOUS
<1>3. [j \in 1..k |-> Held(j)]' = [j \in 1..k |-> Held(j)]
  OBVIOUS
<1> QED
  BY <1>1, <1>2, <1>3 DEF EntryOK, Compressed

LEMMA PassesUnchanged ==
  ASSUME PassesInv, UNCHANGED <<arcC, disk, tempFilesPaths, ctor, i, indexVars, bundle>>
  PROVE  PassesInv'
<1> USE DEF indexVars
<1>1. Steady' = Steady /\ Copying' = Copying /\ Sources' = Sources
  BY DEF Steady, Compressed, Copying, Written, Sources
<1>2. \A k : Held(k)' = Held(k) /\ EndOf(k)' = EndOf(k)
  BY <1>1 DEF Held, EndOf, DataStart, headerLength
<1>3. \A k : EntryOK(k)' <=> EntryOK(k)
  BY <1>1, <1>2 DEF EntryOK, PathOf, Compressed
<1>4. Indexed' <=> Indexed
  BY <1>1, <1>2, <1>3 DEF Indexed, Exists
<1>5. Copied' <=> Copied
  BY <1>1, <1>2, <1>3 DEF Copied, Exists, Compressed
<1> QED
  BY <1>1, <1>4, <1>5 DEF PassesInv, NotYetIndexed, NotYetWritten, NothingBehind

LEMMA PassesOfTaskSteps ==
  ASSUME Apart, IInv, AtRest, PassesInv, NEW t \in Tasks, CompressionTask(t)
  PROVE  PassesInv'
<1>1. TypeOK
  BY DEF IInv
<1>2. UNCHANGED <<settings, i, indexVars, bundle>>
  BY <1>1, TaskEffects
<1>3. CASE PastWait \/ ctor = "cleanup" \/ (ctor = "threw" /\ arcC \in Sequential)
  <2>1. UNCHANGED <<disk, tempFilesPaths, ctor>>
    BY <1>3, QuietTasks
  <2> QED
    BY <1>2, <2>1, PassesUnchanged DEF settings
<1>4. CASE ~ (PastWait \/ ctor = "cleanup" \/ (ctor = "threw" /\ arcC \in Sequential))
  <2>1. ctor' = ctor \/ ctor' = "terminated" \/ (ctor' = "cleanup" /\ ctor = "called")
    BY TasksThrowIntoLoop
  <2>3. arcC' = arcC /\ Steady' = Steady
    BY <1>2 DEF settings, Steady, Compressed
  <2>4. NotYetIndexed => NotYetIndexed'
    BY <1>2, <2>1 DEF NotYetIndexed, indexVars
  <2>5. NotYetWritten => NotYetWritten'
    BY <1>2, <2>1 DEF NotYetWritten
  <2>6. Indexed' /\ Copied'
    BY <1>4, <2>1 DEF Indexed, Copied, Copying, Written, PastWait
  <2>7. NothingBehind'
    BY <1>4, <2>1, <2>3 DEF NothingBehind
  <2> QED
    BY <2>3, <2>4, <2>5, <2>6, <2>7 DEF PassesInv
<1> QED
  BY <1>3, <1>4

LEMMA PassesOfEdits ==
  ASSUME Apart, TypeOK, VectorInv, PassesInv, EditInput
  PROVE  PassesInv'
<1>1. /\ \A q : q \notin Inputs => /\ q \in DOMAIN disk' <=> q \in DOMAIN disk
                                   /\ q \in DOMAIN disk => disk'[q] = disk[q]
      /\ MaxEdits # 0
  BY EditsKeepTemps
<1>2. UNCHANGED <<arcC, tempFilesPaths, ctor, i, indexVars, bundle>>
  BY DEF EditInput, sharedVars
<1>3. Steady' = Steady /\ Copying' = Copying /\ Sources' = Sources
  BY <1>2 DEF Steady, Compressed, Copying, Written, Sources
<1> SUFFICES ASSUME Steady PROVE PassesInv'
  BY <1>3 DEF PassesInv
<1>4. Compressed
  BY <1>1 DEF Steady
<1>5. \A k \in 1..Len(Sources) : Sources[k] \notin Inputs
  BY <1>4, SourcesAreTemps, TempsAreApart, PushedIsFinite
<1>6. \A k \in 1..Len(Sources) : Exists(Sources[k])' <=> Exists(Sources[k])
  BY <1>1, <1>3, <1>5 DEF Exists
<1>7. /\ Len(Sources) \in Nat /\ i \in Nat
  BY SourcesTyped
<1>8. \A k : EndOf(k)' = EndOf(k)
  BY <1>2 DEF EndOf, DataStart, headerLength, indexVars
<1>9. \A k \in 1..Len(Sources) :
         (\A j \in 1..k : Held(j)' = Held(j) \/ ~ (Exists(Sources[j]) \/ (Copying /\ j <= i)))
  BY <1>1, <1>2, <1>3, <1>5, <1>7 DEF Held, Exists
<1>10. \A k \in 1..Len(Sources) :
         EntryOK(k) /\ (\A j \in 1..k : Exists(Sources[j]) \/ (Copying /\ j <= i)) => EntryOK(k)'
  <2> SUFFICES ASSUME NEW k \in 1..Len(Sources), EntryOK(k),
                      \A j \in 1..k : Exists(Sources[j]) \/ (Copying /\ j <= i)
               PROVE  EntryOK(k)'
    OBVIOUS
  <2>1. \A j \in 1..k : Held(j)' = Held(j)
    BY <1>9
  <2>2. filesInfo'[k] = filesInfo[k] /\ Sources'[k] = Sources[k] /\ EndOf(k - 1)' = EndOf(k - 1)
    BY <1>2, <1>3, <1>8 DEF indexVars
  <2>3. k \in Nat \ {0}
    BY <1>7
  <2> QED
    BY <1>2, <2>1, <2>2, <2>3, EntryStays
<1>11. NotYetIndexed' /\ NotYetWritten'
  BY <1>2 DEF PassesInv, NotYetIndexed, NotYetWritten, indexVars
<1>12. Indexed'
  <2> SUFFICES ASSUME ctor = "index" PROVE Indexed'
    BY <1>2 DEF Indexed
  <2>1. /\ i = Len(filesInfo) /\ i <= Len(Sources)
        /\ previousPosition = EndOf(i)
        /\ \A k \in 1..i : EntryOK(k) /\ Exists(Sources[k])
        /\ BuildHash => prevCrc = [j \in 1..i |-> Held(j)]
    BY DEF PassesInv, Indexed
  <2>2. \A k \in 1..i : k \in 1..Len(Sources) /\ 1..k \subseteq 1..i
    BY <1>7, <2>1
  <2>3. \A k \in 1..i : EntryOK(k)' /\ Exists(Sources[k])' /\ Held(k)' = Held(k)
    BY <1>6, <1>9, <1>10, <2>1, <2>2, <1>7
  <2>4. [j \in 1..i |-> Held(j)]' = [j \in 1..i |-> Held(j)]
    BY <1>2, <2>3
  <2> QED
    BY <1>2, <1>3, <1>8, <2>1, <2>3, <2>4 DEF Indexed, indexVars
<1>13. Copied'
  <2> SUFFICES ASSUME Copying PROVE Copied'
    BY <1>3 DEF Copied
  <2>1. Copied
    BY DEF PassesInv
  <2>2. \A k \in 1..Len(Sources) : EntryOK(k) /\ (k > i => Exists(Sources[k]))
    BY <2>1 DEF Copied
  <2>3. \A k \in 1..Len(Sources) : \A j \in 1..k : j \in 1..Len(Sources) /\ (j <= i \/ j > i)
    BY <1>7
  <2>4. \A k \in 1..Len(Sources) : EntryOK(k)'
    BY <1>10, <2>2, <2>3
  <2>5. \A k \in 1..i : i <= Len(Sources) => k \in 1..Len(Sources)
    BY <1>7
  <2> QED
    BY <1>2, <1>3, <1>4, <1>6, <1>8, <2>1, <2>4, <2>5 DEF Copied, indexVars, Compressed
<1>14. NothingBehind'
  BY <1>1, <1>2 DEF PassesInv, NothingBehind
<1> QED
  BY <1>11, <1>12, <1>13, <1>14 DEF PassesInv

\* The steps before the first pass: nothing is indexed yet.
LEMMA PassesOfLoops ==
  ASSUME Apart, IInv, AtRest, VectorInv, FilesInv, PassesInv,
         \/ Dispatch \/ SpawnTask \/ DetachTask \/ LeaveThrottle \/ EndOfLoop \/ LeaveWait
         \/ CallTask \/ TaskReturns \/ RemoveTemps \/ SortTemps
  PROVE  PassesInv'
<1>1. /\ UNCHANGED <<settings, filesInfo, prevCrc, previousPosition, bundle>>
      /\ ctor \notin {"index", "copy", "returned", "threw", "terminated"}
      /\ ctor' \notin {"copy", "returned", "terminated"}
      /\ ctor' = "threw" => RemoveTemps
      /\ ctor' = "index" => i' = i /\ ctor \in {"dispatch", "sort"}
  BY DEF Dispatch, SpawnTask, DetachTask, LeaveThrottle, EndOfLoop, LeaveWait,
     CallTask, TaskReturns, RemoveTemps, SortTemps, At, indexVars
<1>2. Steady' = Steady
  BY <1>1 DEF Steady, Compressed, settings
<1> SUFFICES ASSUME Steady PROVE PassesInv'
  BY <1>2 DEF PassesInv
<1>3. filesInfo = <<>> /\ prevCrc = <<>> /\ previousPosition = 0 /\ bundle = NoBundle
  BY <1>1 DEF PassesInv, NotYetIndexed, NotYetWritten
<1>4. NotYetIndexed' /\ NotYetWritten'
  BY <1>1, <1>3 DEF NotYetIndexed, NotYetWritten
<1>5. Indexed'
  <2> SUFFICES ASSUME ctor' = "index" PROVE Indexed'
    BY DEF Indexed
  <2>1. i' = 0
    BY <1>1 DEF AtRest, LoopsAreOver
  <2>2. TypeOK'
    BY <1>1, TypeOfConstructorSteps DEF IInv, Constructor
  <2>3. Len(Sources)' \in Nat
    BY <2>2, SourcesTypedNext
  <2>4. EndOf(0)' = 0
    BY DEF EndOf
  <2>5. 1..0 = {}
    OBVIOUS
  <2>6. prevCrc' = [j \in 1..0 |-> Held(j)']
    BY <1>1, <1>3, <2>5
  <2> QED
    BY <1>1, <1>3, <2>1, <2>3, <2>4, <2>5, <2>6 DEF Indexed
<1>6. Copied'
  BY <1>1 DEF Copied, Copying, Written
<1>7. NothingBehind'
  <2> SUFFICES ASSUME ctor' = "threw", arcC \in Sequential, NEW q \in DOMAIN disk', q \notin Inputs
               PROVE  FALSE
    BY <1>1 DEF NothingBehind, settings
  <2>1. /\ ctor = "cleanup" /\ q \in DOMAIN disk
        /\ \A k \in DOMAIN tempFilesPaths : tempFilesPaths[k] # q
    BY <1>1 DEF RemoveTemps, At
  <2>2. PICK t \in Tasks : q = fpath(t) /\ pc[t] \in {"write"} \cup Whole
    BY <2>1 DEF FilesInv, OthersAreTemps
  <2>3. pc[t] \in Resting
    BY <2>1 DEF AtRest, OneByOne
  <2>4. t \in Pushed
    BY <2>2, <2>3 DEF Resting, Whole, Pushed, Settled
  <2> QED
    BY <2>1, <2>2, <2>4, NobodyIsLeftOut DEF IInv
<1> QED
  BY <1>4, <1>5, <1>6, <1>7 DEF PassesInv

\* The sources of a compressed bundle are there until the second pass is
\* past them.
LEMMA SourcesAreThere ==
  ASSUME Apart, IInv, VectorInv, FilesInv, PassesInv, Compressed, SourceMissing
  PROVE  FALSE
<1>1. TypeOK /\ i < Len(Sources) /\ ~ Exists(Sources[i + 1]) /\ ctor \in {"index", "copy"}
  BY DEF IInv, SourceMissing, Here, Source
<1>2. i + 1 \in 1..Len(Sources) /\ i \in Nat /\ i + 1 > i
  BY <1>1, SourcesTyped
<1>3. CASE ctor = "index"
  <2>1. PICK t \in Pushed : Sources[i + 1] = fpath(t) /\ pc[t] \in Whole
    BY <1>1, <1>2, SourcesAreTemps
  <2> QED
    BY <1>1, <1>3, <2>1, PushedIsFinite DEF FilesInv, TempsAreWhole
<1>4. CASE ctor = "copy"
  BY <1>1, <1>2, <1>4 DEF PassesInv, Copied, Copying, Steady
<1> QED
  BY <1>1, <1>3, <1>4

LEMMA PassesOfEnds ==
  ASSUME Apart, IInv, VectorInv, FilesInv, PassesInv, SourceMissing \/ IndexNull \/ CloseBundle
  PROVE  PassesInv'
<1>1. UNCHANGED <<arcC, disk, tempFilesPaths, i, indexVars, bundle>>
  BY DEF SourceMissing, IndexNull, CloseBundle, settings, sharedVars
<1>2. Steady' = Steady /\ Sources' = Sources
  BY <1>1 DEF Steady, Compressed, Sources
<1> SUFFICES ASSUME Steady PROVE PassesInv'
  BY <1>2 DEF PassesInv
<1>3. CASE SourceMissing
  <2>1. ~ Compressed /\ ctor' = "threw"
    BY <1>3, SourcesAreThere DEF SourceMissing
  <2>2. arcC' \notin Sequential
    BY <1>1, <2>1 DEF Compressed, Sequential
  <2> QED
    BY <2>1, <2>2 DEF PassesInv, NotYetIndexed, NotYetWritten, Indexed, Copied, Copying, Written,
       NothingBehind
<1>4. CASE IndexNull
  <2>1. ctor = "index" /\ ctor' = "returned"
    BY <1>4 DEF IndexNull, Here
  <2>2. bundle' = NoBundle
    BY <1>1, <2>1 DEF PassesInv, NotYetWritten
  <2> QED
    BY <2>1, <2>2 DEF PassesInv, NotYetIndexed, NotYetWritten, Indexed, Copied, Copying, Written,
       NothingBehind
<1>5. CASE CloseBundle
  <2>1. ctor = "copy" /\ ctor' = "returned" /\ i = Len(Sources)
    BY <1>5 DEF CloseBundle
  <2>2. Copied /\ Copying
    BY <2>1 DEF PassesInv, Copying
  <2>3. bundle # NoBundle
    BY <2>2 DEF Copied, NoBundle
  <2>4. Copying'
    BY <1>1, <2>1, <2>3 DEF Copying, Written
  <2>5. \A k : Held(k)' = Held(k) /\ EndOf(k)' = EndOf(k)
    BY <1>1, <1>2, <2>1, <2>2, <2>4 DEF Held, EndOf, DataStart, headerLength, indexVars
  <2>6. \A k : EntryOK(k)' <=> EntryOK(k)
    BY <1>1, <1>2, <2>5 DEF EntryOK, PathOf, Compressed, indexVars
  <2>7. Copied'
    BY <1>1, <1>2, <2>1, <2>2, <2>5, <2>6 DEF Copied, Exists, Compressed, indexVars
  <2> QED
    BY <2>1, <2>7 DEF PassesInv, NotYetIndexed, NotYetWritten, Indexed, NothingBehind
<1> QED
  BY <1>3, <1>4, <1>5

LEMMA PassesOfIndexFile ==
  ASSUME Apart, IInv, VectorInv, FilesInv, PassesInv, Steady, IndexFile
  PROVE  PassesInv'
<1>0. PICK n, p, c : n \in Nat /\ n = i /\ p = Sources[i + 1] /\ c = disk[p]
  BY DEF IInv, TypeOK
<1> DEFINE crc == IF BuildHash THEN updateCRC(prevCrc, c) ELSE prevCrc
           e == EntryOf(p, c, crc)
<1>1. /\ ctor = "index" /\ i < Len(Sources) /\ Exists(p) /\ c.len > 0
      /\ prevCrc' = crc /\ filesInfo' = Append(filesInfo, e)
      /\ previousPosition' = previousPosition + c.len
      /\ i' = i + 1
      /\ UNCHANGED <<arcC, disk, tempFilesPaths, ctor, bundle>>
  BY <1>0 DEF IndexFile, Here, Source, settings
<1>2. TypeOK
  BY DEF IInv
<1>3. n \in Nat /\ Len(Sources) \in Nat /\ n + 1 \in 1..Len(Sources) /\ n < Len(Sources)
  BY <1>0, <1>1, <1>2, SourcesTyped
<1>4. /\ n = Len(filesInfo) /\ previousPosition = EndOf(n)
      /\ \A k \in 1..n : EntryOK(k) /\ Exists(Sources[k])
      /\ BuildHash => prevCrc = [j \in 1..n |-> Held(j)]
  BY <1>0, <1>1 DEF PassesInv, Indexed
<1>5. c \in Content /\ c.len \in Nat
  BY <1>0, <1>1, <1>2 DEF Exists, TypeOK, Content
<1>6. prevCrc \in Seq(Content) /\ filesInfo \in Seq(Entry) /\ previousPosition \in Nat
  BY <1>2 DEF TypeOK
<1>7. crc \in Seq(Content)
  BY <1>5, <1>6, AppendProperties DEF updateCRC
<1>8. e \in Entry
  BY <1>0, <1>1, <1>2, <1>5, <1>7, EntryTyped DEF Source
<1>9. /\ Len(filesInfo') = n + 1
      /\ \A k \in 1..n : filesInfo'[k] = filesInfo[k]
      /\ filesInfo'[n + 1] = e
  BY <1>1, <1>4, <1>6, <1>8, AppendProperties
<1>10. Steady' = Steady /\ Sources' = Sources /\ ~ Copying /\ ~ Copying'
  BY <1>1 DEF Steady, Compressed, Sources, Copying, Written
<1>11. \A k : Held(k) = disk[Sources[k]] /\ Held(k)' = Held(k)
  BY <1>1, <1>10 DEF Held
<1>12. \A k \in 0..n : EndOf(k)' = EndOf(k)
  BY <1>1, <1>3, <1>9 DEF EndOf
<1>13. \A k \in 1..n : EntryOK(k)' /\ Exists(Sources[k])'
  <2> SUFFICES ASSUME NEW k \in 1..n PROVE EntryOK(k)' /\ Exists(Sources[k])'
    OBVIOUS
  <2>1. k \in Nat \ {0} /\ k - 1 \in 0..n
    BY <1>3
  <2>2. EntryOK(k) /\ Exists(Sources[k])
    BY <1>4
  <2>3. EntryOK(k)'
    BY <1>1, <1>9, <1>10, <1>11, <1>12, <2>1, <2>2, EntryStays
  <2> QED
    BY <1>1, <1>10, <2>2, <2>3 DEF Exists
<1>14. BuildHash => crc = [j \in 1..(n + 1) |-> Held(j)]
  <2> SUFFICES ASSUME BuildHash PROVE crc = [j \in 1..(n + 1) |-> Held(j)]
    OBVIOUS
  <2>1. prevCrc = [j \in 1..n |-> Held(j)]
    BY <1>4
  <2>2. DOMAIN prevCrc = 1..Len(prevCrc) /\ Len(prevCrc) \in Nat
    BY <1>6, LenProperties
  <2>3. Len(prevCrc) = n
    BY <1>3, <2>1, <2>2
  <2>4. crc = Append(prevCrc, c)
    BY DEF updateCRC
  <2>5. /\ Len(crc) = n + 1 /\ \A j \in 1..n : crc[j] = prevCrc[j]
        /\ crc[n + 1] = c
    BY <1>5, <1>6, <2>3, <2>4, AppendProperties
  <2>6. DOMAIN crc = 1..(n + 1) /\ crc = [j \in DOMAIN crc |-> crc[j]]
    BY <1>7, <2>5, LenProperties
  <2>7. \A j \in 1..(n + 1) : crc[j] = Held(j)
    <3>1. \A j \in 1..(n + 1) : j \in 1..n \/ j = n + 1
      BY <1>3
    <3>2. \A j \in 1..n : crc[j] = Held(j)
      BY <2>1, <2>5
    <3>3. crc[n + 1] = Held(n + 1)
      BY <1>0, <1>11, <2>5
    <3> QED
      BY <3>1, <3>2, <3>3
  <2> HIDE DEF crc
  <2> QED
    BY <2>6, <2>7
<1>15. EntryOK(n + 1)'
  <2> HIDE DEF crc
  <2>1. /\ e.name = getRelative(PathOf(p))
        /\ e.uncompressedSize = IF Compressed THEN TempSize(p) ELSE c.len
        /\ e.startPosition = previousPosition /\ e.compressedSize = c.len
        /\ e.crc32hash = crc
    BY DEF EntryOf, PathOf, Compressed
  <2>2. MaxEdits = 0 => c.of = PathOf(p)
    BY <1>0, <1>1, <1>2, <1>3, SourceIsOf
  <2>3. Held(n + 1)' = c /\ PathOf(p)' = PathOf(p) /\ Compressed' = Compressed
    BY <1>0, <1>1, <1>11 DEF PathOf, Compressed
  <2>4. EndOf(n)' = previousPosition
    BY <1>3, <1>4, <1>12
  <2>5. BuildHash => crc = [j \in 1..(n + 1) |-> Held(j)']
    BY <1>11, <1>14
  <2>6. Sources'[n + 1] = p /\ (n + 1) - 1 = n
    BY <1>0, <1>3, <1>10
  <2> HIDE DEF e
  <2> QED
    BY <1>1, <1>5, <1>9, <2>1, <2>2, <2>3, <2>4, <2>5, <2>6 DEF EntryOK
<1>16. EndOf(n + 1)' = previousPosition'
  <2>1. e.startPosition = previousPosition /\ e.compressedSize = c.len
    BY DEF EntryOf
  <2> QED
    BY <1>1, <1>3, <1>9, <2>1 DEF EndOf
<1>17. Indexed'
  <2> HIDE DEF crc, e
  <2>1. \A k \in 1..(n + 1) : k \in 1..n \/ k = n + 1
    BY <1>3
  <2>2. Exists(Sources[n + 1])'
    BY <1>0, <1>1, <1>3, <1>10 DEF Exists
  <2>3. \A k \in 1..(n + 1) : EntryOK(k)' /\ Exists(Sources[k])'
    BY <1>13, <1>15, <2>1, <2>2
  <2>4. BuildHash => prevCrc' = [j \in 1..(n + 1) |-> Held(j)']
    BY <1>1, <1>11, <1>14
  <2> QED
    BY <1>0, <1>1, <1>3, <1>9, <1>10, <1>16, <2>3, <2>4 DEF Indexed
<1> QED
  BY <1>1, <1>10, <1>17 DEF PassesInv, NotYetIndexed, NotYetWritten, Copied, NothingBehind

LEMMA DataStartTyped ==
  ASSUME TypeOK
  PROVE  DataStart \in Nat /\ DataStart > 0
<1>1. Len(filesInfo) \in Nat
  BY LenProperties DEF TypeOK
<1>2. EntryBytes * Len(filesInfo) \in Nat
  BY <1>1, LayoutAssumption
<1> QED
  BY <1>2, LayoutAssumption DEF DataStart, headerLength

LEMMA PassesOfWriteHeader ==
  ASSUME IInv, PassesInv, Steady, WriteHeader
  PROVE  PassesInv'
<1>0. PICK n \in Nat, d \in Nat : n = i /\ d = DataStart /\ d > 0
  BY DataStartTyped DEF IInv, TypeOK
<1>1. /\ ctor = "index" /\ n = Len(Sources) /\ ctor' = "copy" /\ i' = 0
      /\ filesInfo' = [k \in DOMAIN filesInfo |->
                         [filesInfo[k] EXCEPT !.startPosition = @ + d]]
      /\ bundle' = [info |-> filesInfo', data |-> <<>>, end |-> d]
      /\ UNCHANGED <<arcC, disk, tempFilesPaths, prevCrc>>
  BY <1>0 DEF WriteHeader, settings, sharedVars
<1>2. /\ n = Len(filesInfo)
      /\ \A k \in 1..n : EntryOK(k) /\ Exists(Sources[k])
  BY <1>0, <1>1 DEF PassesInv, Indexed
<1>3. filesInfo \in Seq(Entry) /\ DOMAIN filesInfo = 1..n
  BY <1>2, LenProperties DEF IInv, TypeOK
<1>4. \A k \in 1..n : filesInfo[k] \in Entry
  BY <1>2, <1>3, ElementOfSeq
<1>5. \A k \in 1..n : /\ filesInfo'[k].startPosition = filesInfo[k].startPosition + d
                      /\ filesInfo'[k].name = filesInfo[k].name
                      /\ filesInfo'[k].uncompressedSize = filesInfo[k].uncompressedSize
                      /\ filesInfo'[k].compressedSize = filesInfo[k].compressedSize
                      /\ filesInfo'[k].crc32hash = filesInfo[k].crc32hash
  BY <1>1, <1>3, <1>4 DEF Entry
<1>6. Len(filesInfo') = n
  <2>1. \A k \in 1..n : [filesInfo[k] EXCEPT !.startPosition = @ + d] \in Entry
    BY <1>0, <1>4 DEF Entry
  <2>2. filesInfo' \in [DOMAIN filesInfo -> Entry]
    BY <1>1, <1>3, <2>1
  <2> QED
    BY <1>2, <1>3, <2>2, MappedSeq
<1>7. DataStart' = d
  BY <1>0, <1>2, <1>6 DEF DataStart, headerLength
<1>8. Steady' = Steady /\ Sources' = Sources /\ ~ Copying /\ Copying' /\ Compressed' = Compressed
  BY <1>1 DEF Steady, Compressed, Sources, Copying, Written
<1>9. \A k \in 1..n : Held(k)' = Held(k)
  <2>1. \A k \in 1..n : ~ (k <= 0)
    BY <1>0
  <2> QED
    BY <1>1, <1>8, <2>1 DEF Held
<1>10. EndOf(0)' = d /\ EndOf(0) = 0
  BY <1>1, <1>7 DEF EndOf
<1>11. \A k \in 0..n : EndOf(k)' = EndOf(k) + d
  <2> SUFFICES ASSUME NEW k \in 0..n PROVE EndOf(k)' = EndOf(k) + d
    OBVIOUS
  <2>1. CASE k = 0
    BY <1>0, <1>10, <2>1
  <2>2. CASE k # 0
    <3>1. k \in 1..n /\ k > 0
      BY <1>0, <2>2
    <3>2. filesInfo[k].startPosition \in Nat /\ filesInfo[k].compressedSize \in Nat
      BY <1>4, <3>1 DEF Entry
    <3> QED
      BY <1>0, <1>5, <3>1, <3>2 DEF EndOf
  <2> QED
    BY <2>1, <2>2
<1>12. \A k \in 1..n : EntryOK(k)'
  <2> SUFFICES ASSUME NEW k \in 1..n PROVE EntryOK(k)'
    OBVIOUS
  <2>1. EntryOK(k) /\ k - 1 \in 0..n /\ \A j \in 1..k : j \in 1..n
    BY <1>0, <1>2
  <2>2. PathOf(Sources[k])' = PathOf(Sources[k]) /\ Sources'[k] = Sources[k]
    BY <1>1, <1>8 DEF PathOf, Compressed
  <2>3. [j \in 1..k |-> Held(j)'] = [j \in 1..k |-> Held(j)]
    BY <1>9, <2>1
  <2>4. EndOf(k - 1)' = EndOf(k - 1) + d
    BY <1>11, <2>1
  <2>5. filesInfo'[k].startPosition = EndOf(k - 1)'
    BY <1>5, <2>1, <2>4 DEF EntryOK
  <2> QED
    BY <1>5, <1>8, <1>9, <2>1, <2>2, <2>3, <2>5 DEF EntryOK
<1>13. Copied'
  <2>1. bundle'.end = d /\ bundle'.info = filesInfo' /\ bundle'.data = <<>>
    BY <1>1
  <2>2. Len(bundle'.data) = 0 /\ bundle'.end = EndOf(0)'
    BY <1>10, <2>1, EmptySeq
  <2>3. \A k \in 1..n : Exists(Sources[k])'
    BY <1>1, <1>2, <1>8 DEF Exists
  <2>4. 1..0 = {} /\ 0 <= n
    BY <1>0
  <2>5. \A k \in 1..n : disk'[Sources[k]] = Held(k)'
    <3>1. \A k \in 1..n : disk[Sources[k]] = Held(k)
      BY <1>8 DEF Held
    <3> QED
      BY <1>1, <1>9, <3>1
  <2> QED
    BY <1>0, <1>1, <1>6, <1>8, <1>12, <2>1, <2>2, <2>3, <2>4, <2>5 DEF Copied
<1> QED
  BY <1>1, <1>13 DEF PassesInv, NotYetIndexed, NotYetWritten, Indexed, NothingBehind

\* What the second pass finds is what the first pass found.
LEMMA NothingIsPassedOver ==
  ASSUME TypeOK, PassesInv, Steady, Here("copy")
  PROVE  ~ CopyNull
<1>1. i + 1 \in 1..Len(Sources) /\ i \in Nat /\ ~ (i + 1 <= i) /\ ctor = "copy"
  BY SourcesTyped DEF Here
<1>2. EntryOK(i + 1)
  BY <1>1 DEF PassesInv, Copied, Copying
<1>3. disk[Source].len > 0 /\ disk[Source] \in Content
  BY <1>1, <1>2 DEF EntryOK, Held, Source
<1> QED
  BY <1>3 DEF CopyNull, Content

LEMMA PassesOfCopyFile ==
  ASSUME Apart, IInv, VectorInv, PassesInv, Steady, CopyFile
  PROVE  PassesInv'
<1>0. PICK n, p, c, m : n \in Nat /\ n = i /\ p = Sources[i + 1] /\ c = disk[p] /\ m = Len(Sources)
  BY DEF IInv, TypeOK
<1>1. /\ ctor = "copy" /\ n < m /\ Exists(p) /\ c.len > 0
      /\ bundle' = [info |-> bundle.info,
                    data |-> Append(bundle.data, [at |-> bundle.end, bytes |-> c]),
                    end |-> bundle.end + c.len]
      /\ \/ disk' = IF arcC = "NoCompression" THEN disk ELSE WithoutFile(p)
         \/ DeleteCanFail /\ disk' = disk
      /\ i' = n + 1
      /\ UNCHANGED <<arcC, tempFilesPaths, ctor, filesInfo, prevCrc, previousPosition>>
  BY <1>0 DEF CopyFile, Here, Source, settings, sharedVars, indexVars
<1>2. TypeOK
  BY DEF IInv
<1>3. n \in Nat /\ m \in Nat /\ n + 1 \in 1..m /\ p = Sources[n + 1]
  BY <1>0, <1>1, <1>2, SourcesTyped
<1>4. Steady' = Steady /\ Sources' = Sources /\ Copying /\ Copying' /\ Compressed' = Compressed
  BY <1>1 DEF Steady, Compressed, Sources, Copying, Written
<1>5. /\ bundle.end > 0 /\ bundle.info = filesInfo /\ Len(filesInfo) = m
      /\ Len(bundle.data) = n /\ bundle.end = EndOf(n)
      /\ \A k \in 1..m : EntryOK(k) /\ (k > n => Exists(Sources[k]))
      /\ \A k \in 1..n : /\ bundle.data[k].at = filesInfo[k].startPosition
                         /\ EndOf(k) <= bundle.end
                         /\ Compressed /\ ~ DeleteCanFail => ~ Exists(Sources[k])
      /\ ~ Compressed => \A k \in 1..m : Exists(Sources[k]) /\ disk[Sources[k]] = Held(k)
  BY <1>0, <1>4 DEF PassesInv, Copied
<1>6. /\ bundle.data \in Seq(Chunk) /\ bundle.end \in Nat
      /\ c \in Content /\ c.len \in Nat
  BY <1>0, <1>1, <1>2 DEF TypeOK, Bundle, Exists, Content
<1>7. /\ Len(bundle'.data) = n + 1
      /\ \A k \in 1..n : bundle'.data[k] = bundle.data[k]
      /\ bundle'.data[n + 1] = [at |-> bundle.end, bytes |-> c]
      /\ bundle'.end = bundle.end + c.len /\ bundle'.info = bundle.info
  <2> DEFINE x == [at |-> bundle.end, bytes |-> c]
  <2>1. x \in Chunk /\ bundle'.data = Append(bundle.data, x)
    BY <1>1, <1>6 DEF Chunk
  <2> HIDE DEF x
  <2>2. /\ Len(bundle'.data) = n + 1
        /\ \A k \in 1..n : bundle'.data[k] = bundle.data[k]
        /\ bundle'.data[n + 1] = x
    BY <1>5, <1>6, <2>1, AppendProperties
  <2>3. bundle'.end = bundle.end + c.len /\ bundle'.info = bundle.info
    BY <1>1
  <2> QED
    BY <2>2, <2>3 DEF x
<1>8. \A k \in 1..m : k # n + 1 => Sources[k] # p
  BY <1>0, <1>2, <1>3, SourcesDiffer
<1>9. \A k \in 1..m : k # n + 1 => /\ Exists(Sources[k])' <=> Exists(Sources[k])
                                   /\ Exists(Sources[k]) => disk'[Sources[k]] = disk[Sources[k]]
  BY <1>1, <1>4, <1>8 DEF Exists, WithoutFile
<1>10. \A k \in 1..m : Held(k)' = Held(k)
  <2> SUFFICES ASSUME NEW k \in 1..m PROVE Held(k)' = Held(k)
    OBVIOUS
  <2>1. CASE k \in 1..n
    <3>1. k <= i /\ k <= n + 1 /\ bundle'.data[k] = bundle.data[k]
      BY <1>0, <1>7, <2>1
    <3> QED
      BY <1>1, <1>4, <3>1 DEF Held
  <2>2. CASE k = n + 1
    <3>1. ~ (k <= i) /\ k <= n + 1 /\ bundle'.data[k].bytes = c
      BY <1>0, <1>7, <2>2
    <3> QED
      BY <1>0, <1>1, <1>3, <1>4, <2>2, <3>1 DEF Held
  <2>3. CASE k > n + 1
    <3>1. ~ (k <= i) /\ ~ (k <= n + 1) /\ Exists(Sources[k]) /\ k # n + 1
      BY <1>0, <1>3, <1>5, <2>3
    <3>2. disk'[Sources[k]] = disk[Sources[k]]
      BY <1>9, <3>1
    <3> QED
      BY <1>1, <1>4, <3>1, <3>2 DEF Held
  <2> QED
    BY <1>3, <2>1, <2>2, <2>3
<1>11. \A k : EndOf(k)' = EndOf(k)
  BY <1>1 DEF EndOf, DataStart, headerLength
<1>12. \A k \in 1..m : EntryOK(k)'
  <2> SUFFICES ASSUME NEW k \in 1..m PROVE EntryOK(k)'
    OBVIOUS
  <2>1. k \in Nat \ {0} /\ \A j \in 1..k : j \in 1..m
    BY <1>3
  <2>2. EntryOK(k)
    BY <1>5
  <2>3. \A j \in 1..k : Held(j)' = Held(j)
    BY <1>10, <2>1
  <2> QED
    BY <1>1, <1>4, <1>11, <2>1, <2>2, <2>3, EntryStays
<1>13. /\ filesInfo[n + 1].startPosition = bundle.end
       /\ filesInfo[n + 1].compressedSize = c.len
  <2>1. EntryOK(n + 1) /\ (n + 1) - 1 = n
    BY <1>3, <1>5
  <2>2. Held(n + 1) = c
    <3>1. ~ (n + 1 <= i)
      BY <1>0
    <3> QED
      BY <1>0, <1>3, <3>1 DEF Held
  <2> QED
    BY <1>5, <2>1, <2>2 DEF EntryOK
<1>14. EndOf(n + 1) = bundle'.end
  BY <1>3, <1>7, <1>13 DEF EndOf
<1>15. \A k \in 1..(n + 1) : /\ bundle'.data[k].at = filesInfo[k].startPosition
                             /\ EndOf(k) <= bundle'.end
                             /\ Compressed /\ ~ DeleteCanFail => ~ Exists(Sources[k])'
  <2> SUFFICES ASSUME NEW k \in 1..(n + 1)
               PROVE  /\ bundle'.data[k].at = filesInfo[k].startPosition
                      /\ EndOf(k) <= bundle'.end
                      /\ Compressed /\ ~ DeleteCanFail => ~ Exists(Sources[k])'
    OBVIOUS
  <2>1. CASE k = n + 1
    <3>1. bundle'.data[k].at = bundle.end
      BY <1>7, <2>1
    <3>2. EndOf(k) <= bundle'.end
      BY <1>6, <1>7, <1>14, <2>1
    <3>3. Compressed /\ ~ DeleteCanFail => ~ Exists(Sources[k])'
      BY <1>1, <1>3, <1>4, <2>1 DEF Compressed, WithoutFile, Exists
    <3> QED
      BY <1>13, <2>1, <3>1, <3>2, <3>3
  <2>2. CASE k # n + 1
    <3>1. k \in 1..n /\ k \in 1..m
      BY <1>3, <2>2
    <3>2. EndOf(k) <= bundle.end /\ EndOf(k) \in Nat
      <4>1. k > 0 /\ filesInfo[k] \in Entry
        BY <1>2, <1>5, <3>1, ElementOfSeq DEF TypeOK
      <4> QED
        BY <1>5, <3>1, <4>1 DEF EndOf, Entry
    <3>3. EndOf(k) <= bundle'.end
      BY <1>6, <1>7, <3>2
    <3>4. Compressed /\ ~ DeleteCanFail => ~ Exists(Sources[k])'
      BY <1>5, <1>9, <2>2, <3>1
    <3> QED
      BY <1>5, <1>7, <3>1, <3>3, <3>4
  <2> QED
    BY <2>1, <2>2
<1>16. \A k \in 1..m : k > n + 1 => Exists(Sources[k])'
  <2> SUFFICES ASSUME NEW k \in 1..m, k > n + 1 PROVE Exists(Sources[k])'
    OBVIOUS
  <2>1. k > n /\ k # n + 1
    BY <1>3
  <2> QED
    BY <1>5, <1>9, <2>1
<1>17. bundle'.end > 0 /\ n + 1 <= m
  BY <1>3, <1>5, <1>6, <1>7
<1>18. ~ Compressed => \A k \in 1..m : Exists(Sources[k])' /\ disk'[Sources[k]] = Held(k)'
  <2> SUFFICES ASSUME ~ Compressed, NEW k \in 1..m
               PROVE  Exists(Sources[k])' /\ disk'[Sources[k]] = Held(k)'
    OBVIOUS
  <2>1. disk' = disk
    BY <1>1 DEF Compressed
  <2> QED
    BY <1>4, <1>5, <1>10, <2>1 DEF Exists
<1>19. Copied'
  BY <1>0, <1>1, <1>4, <1>5, <1>7, <1>11, <1>12, <1>14, <1>15, <1>16, <1>17, <1>18 DEF Copied
<1> QED
  BY <1>1, <1>19 DEF PassesInv, NotYetIndexed, NotYetWritten, Indexed, NothingBehind

LEMMA PassesOfConstructorSteps ==
  ASSUME Apart, IInv, AtRest, VectorInv, FilesInv, PassesInv, Constructor
  PROVE  PassesInv'
<1>1. Steady' = Steady
  BY ConstructorStarts DEF settings, Steady, Compressed
<1> SUFFICES ASSUME Steady PROVE PassesInv'
  BY <1>1 DEF PassesInv
<1>2. ~ CopyNull
  BY NothingIsPassedOver DEF IInv, CopyNull
<1>3. CASE Spin
  BY <1>3, PassesUnchanged DEF Spin, vars, settings, sharedVars
<1> QED
  BY <1>2, <1>3, PassesOfLoops, PassesOfEnds, PassesOfIndexFile, PassesOfWriteHeader,
     PassesOfCopyFile DEF Constructor

-----------------------------------------------------------------------------
(* The invariant, and what follows from it. *)

LEMMA InitCInv == ASSUME Init PROVE CInv
<1> USE DEF Init
<1>1. IInv
  BY InitIInv
<1>2. AtRest
  BY DEF AtRest, NoTasks, LoopsAreOver, OneByOne, LoopOfType, Resting, PastWait
<1>3. VectorInv
  <2>1. Pushed = {}
    BY DEF Pushed, Settled
  <2> QED
    BY <2>1, FS_EmptySet DEF VectorInv, OneSlotEach, SlotsOfPushed, SlotsDiffer, SortedOnce
<1>4. FilesInv
  <2>1. PICK present \in SUBSET Inputs : \E len \in [present -> Sizes] :
              disk = [p \in present |-> Original(p, len[p])]
    OBVIOUS
  <2>2. PICK len \in [present -> Sizes] : disk = [p \in present |-> Original(p, len[p])]
    BY <2>1
  <2>3. InputsAreOriginal
    BY <2>2 DEF InputsAreOriginal, Exists, Original
  <2>4. OthersAreTemps
    BY <2>2 DEF OthersAreTemps
  <2> QED
    BY <2>3, <2>4 DEF FilesInv, TempsAreWhole, MadeOfInputs, Sized, Whole, Settled
<1>5. PassesInv
  BY DEF PassesInv, NotYetIndexed, NotYetWritten, Indexed, Copied, Copying, Written, NothingBehind
<1> QED
  BY <1>1, <1>2, <1>3, <1>4, <1>5 DEF CInv

LEMMA NextCInv == ASSUME Apart, CInv, [Next]_vars PROVE CInv'
<1> USE DEF CInv
<1>1. IInv'
  BY NextIInv
<1>2. CASE Constructor
  BY <1>1, <1>2, RestOfConstructorSteps, VectorOfConstructorSteps, FilesOfConstructorSteps,
     PassesOfConstructorSteps
<1>3. CASE \E t \in Tasks : CompressionTask(t)
  <2>1. PICK t \in Tasks : CompressionTask(t)
    BY <1>3
  <2> QED
    BY <1>1, <2>1, RestOfTaskSteps, VectorOfTaskSteps, FilesOfTaskSteps, PassesOfTaskSteps
<1>4. CASE EditInput
  <2>1. UNCHANGED <<arcC, pc, size, tempFilesPaths, ctor, i>>
    BY <1>4 DEF EditInput, taskVars, sharedVars
  <2>2. AtRest'
    BY <2>1 DEF AtRest, NoTasks, LoopsAreOver, OneByOne, LoopOfType, PastWait, Compressed
  <2>3. VectorInv'
    BY <2>1 DEF VectorInv, OneSlotEach, SlotsOfPushed, SlotsDiffer, SortedOnce, Pushed, fpath
  <2>4. TypeOK
    BY DEF IInv
  <2> QED
    BY <1>1, <1>4, <2>2, <2>3, <2>4, FilesOfEdits, PassesOfEdits
<1>5. CASE UNCHANGED vars
  <2> USE <1>5 DEF vars, settings, taskVars, sharedVars
  <2>1. AtRest'
    BY DEF AtRest, NoTasks, LoopsAreOver, OneByOne, LoopOfType, PastWait, Compressed
  <2>2. VectorInv'
    BY DEF VectorInv, OneSlotEach, SlotsOfPushed, SlotsDiffer, SortedOnce, Pushed, fpath
  <2>3. FilesInv'
    BY DEF FilesInv, InputsAreOriginal, OthersAreTemps, TempsAreWhole, MadeOfInputs, Exists, fpath
  <2>4. PassesInv'
    BY PassesUnchanged
  <2> QED
    BY <1>1, <2>1, <2>2, <2>3, <2>4
<1> QED
  BY <1>2, <1>3, <1>4, <1>5 DEF Next, Finished

\* A bundle is written when every task of it has pushed or was skipped.
LEMMA NobodyIsAtWork ==
  ASSUME CInv, Written, Compressed, NEW t \in Tasks
  PROVE  t \in Pushed \/ pc[t] = "skipped"
<1>1. arcC \in Threaded \cup Sequential
  BY DEF CInv, IInv, TypeOK, ArchiveCompressionType, Compressed
<1>2. pc[t] \in Settled \cup {"skipped"}
  BY <1>1 DEF CInv, IInv, CountInv, SettledAfterWait, AtRest, OneByOne, PastWait, Written, Settled
<1> QED
  BY <1>2 DEF Pushed

\* What the finished bundle is.
LEMMA BundleIsWhole ==
  ASSUME CInv, Steady, Written
  PROVE  /\ Len(filesInfo) = Len(Sources) /\ Len(bundle.data) = Len(Sources)
         /\ bundle.info = filesInfo /\ bundle.end = EndOf(Len(Sources))
         /\ DOMAIN filesInfo = 1..Len(Sources) /\ Len(Sources) \in Nat
         /\ \A k \in 1..Len(Sources) :
               /\ EntryOK(k) /\ Held(k) = bundle.data[k].bytes
               /\ bundle.data[k].at = filesInfo[k].startPosition
               /\ EndOf(k) <= bundle.end
               /\ Compressed /\ ~ DeleteCanFail => ~ Exists(Sources[k])
               /\ ~ Compressed => Exists(Sources[k]) /\ disk[Sources[k]] = Held(k)
<1>1. TypeOK /\ Copying /\ ctor = "returned"
  BY DEF CInv, IInv, Copying, Written
<1>2. Copied
  BY DEF CInv, PassesInv
<1>3. i = Len(Sources) /\ Len(filesInfo) = Len(Sources) /\ Len(Sources) \in Nat
  BY <1>1, <1>2, SourcesTyped DEF Copied
<1>4. DOMAIN filesInfo = 1..Len(Sources)
  BY <1>1, <1>3, LenProperties DEF TypeOK
<1>5. \A k \in 1..Len(Sources) : Held(k) = bundle.data[k].bytes
  BY <1>1, <1>3 DEF Held
<1> QED
  BY <1>1, <1>2, <1>3, <1>4, <1>5 DEF Copied

LEMMA ContentsMatch ==
  ASSUME Apart, CInv, MaxEdits = 0
  PROVE  IndexMatchesData
<1> SUFFICES ASSUME Written, NEW k \in DOMAIN filesInfo
             PROVE  /\ Len(bundle.data) = Len(filesInfo) /\ bundle.info = filesInfo
                    /\ bundle.data[k].at = filesInfo[k].startPosition
                    /\ bundle.data[k].bytes.len = filesInfo[k].compressedSize
                    /\ filesInfo[k].name = getRelative(bundle.data[k].bytes.of)
                    /\ Exists(bundle.data[k].bytes.of)
                    /\ disk[bundle.data[k].bytes.of] =
                         Original(bundle.data[k].bytes.of, filesInfo[k].uncompressedSize)
                    /\ bundle.end >= filesInfo[k].startPosition + filesInfo[k].compressedSize
  <2>1. Written => Len(bundle.data) = Len(filesInfo) /\ bundle.info = filesInfo
    BY BundleIsWhole DEF Steady
  <2> QED
    BY <2>1 DEF IndexMatchesData
<1> DEFINE c == bundle.data[k].bytes
           p == Sources[k]
           q == PathOf(p)
<1>1. Steady /\ TypeOK
  BY DEF Steady, CInv, IInv
<1>2. /\ Len(bundle.data) = Len(filesInfo) /\ bundle.info = filesInfo
      /\ k \in 1..Len(Sources) /\ Len(Sources) \in Nat
      /\ EntryOK(k) /\ Held(k) = c
      /\ bundle.data[k].at = filesInfo[k].startPosition
      /\ EndOf(k) <= bundle.end
      /\ ~ Compressed => Exists(p) /\ disk[p] = c
  BY <1>1, BundleIsWhole
<1>3. /\ c.of = q /\ c \in Content /\ c.len > 0
      /\ filesInfo[k].name = getRelative(q)
      /\ filesInfo[k].uncompressedSize = IF Compressed THEN TempSize(p) ELSE c.len
      /\ filesInfo[k].compressedSize = c.len
  BY <1>2 DEF EntryOK
<1>4. bundle.end >= filesInfo[k].startPosition + filesInfo[k].compressedSize
  <2>1. filesInfo[k] \in Entry /\ k > 0
    BY <1>1, <1>2, ElementOfSeq, BundleIsWhole DEF TypeOK
  <2>2. bundle.end \in Nat
    BY <1>1 DEF TypeOK, Bundle
  <2>3. filesInfo[k].startPosition \in Nat /\ filesInfo[k].compressedSize \in Nat
    BY <2>1 DEF Entry
  <2>4. EndOf(k) = filesInfo[k].startPosition + filesInfo[k].compressedSize
    BY <2>1 DEF EndOf
  <2>5. filesInfo[k].startPosition + filesInfo[k].compressedSize <= bundle.end
    BY <1>2, <2>4
  <2> QED
    BY <2>2, <2>3, <2>5
<1>5. Exists(q) /\ disk[q] = Original(q, filesInfo[k].uncompressedSize)
  <2>1. CASE Compressed
    <3>1. PICK t \in Pushed : p = fpath(t) /\ pc[t] \in Whole
      BY <1>1, <1>2, <2>1, SourcesAreTemps DEF CInv
    <3>2. t \in Tasks
      BY PushedIsFinite
    <3>3. q = InFiles[t] /\ TempSize(p) = size[t] /\ q \in Inputs
      BY <1>1, <2>1, <3>1, <3>2, TempsAreApart DEF PathOf, Inputs
    <3>4. Exists(q) /\ disk[q].len = size[t]
      BY <3>1, <3>2, <3>3 DEF CInv, FilesInv, MadeOfInputs, Sized
    <3>5. disk[q] = Original(q, disk[q].len)
      BY <3>3, <3>4 DEF CInv, FilesInv, InputsAreOriginal
    <3> QED
      BY <1>3, <2>1, <3>3, <3>4, <3>5
  <2>2. CASE ~ Compressed
    <3>1. q = p /\ p \in Inputs
      BY <1>2, <2>2 DEF PathOf, Sources, Compressed, Inputs, Tasks, argslen
    <3>2. Exists(p) /\ disk[p] = c
      BY <1>2, <2>2
    <3>3. disk[p] = Original(p, disk[p].len)
      BY <3>1, <3>2 DEF CInv, FilesInv, InputsAreOriginal
    <3> QED
      BY <1>3, <2>2, <3>1, <3>2, <3>3
  <2> QED
    BY <2>1, <2>2
<1> QED
  BY <1>2, <1>3, <1>4, <1>5

LEMMA EntriesTile ==
  ASSUME CInv
  PROVE  EntriesTileData
<1> SUFFICES ASSUME Written, Compressed, NEW k \in DOMAIN filesInfo
             PROVE  /\ bundle.info = filesInfo /\ Len(bundle.data) = Len(filesInfo)
                    /\ bundle.data[k].at = filesInfo[k].startPosition
                    /\ bundle.data[k].bytes.len = filesInfo[k].compressedSize
                    /\ filesInfo[k].startPosition + filesInfo[k].compressedSize =
                         IF k = Len(filesInfo) THEN bundle.end
                         ELSE filesInfo[k + 1].startPosition
  <2>1. Written /\ Compressed => bundle.info = filesInfo /\ Len(bundle.data) = Len(filesInfo)
    BY BundleIsWhole DEF Steady
  <2> QED
    BY <2>1 DEF EntriesTileData, Compressed
<1>1. Steady
  BY DEF Steady
<1>2. PICK n : n = Len(Sources)
  OBVIOUS
<1>3. /\ Len(filesInfo) = n /\ Len(bundle.data) = n /\ bundle.info = filesInfo
      /\ bundle.end = EndOf(n) /\ k \in 1..n /\ n \in Nat
      /\ \A j \in 1..n : EntryOK(j)
      /\ Held(k) = bundle.data[k].bytes /\ bundle.data[k].at = filesInfo[k].startPosition
  BY <1>1, <1>2, BundleIsWhole
<1>4. filesInfo[k].startPosition + filesInfo[k].compressedSize = EndOf(k)
  BY <1>3 DEF EndOf
<1>5. bundle.data[k].bytes.len = filesInfo[k].compressedSize
  BY <1>3 DEF EntryOK
<1>6. CASE k = n
  BY <1>3, <1>4, <1>5, <1>6
<1>7. CASE k # n
  <2>1. k + 1 \in 1..n /\ (k + 1) - 1 = k
    BY <1>3, <1>7
  <2>2. filesInfo[k + 1].startPosition = EndOf(k)
    BY <1>3, <2>1 DEF EntryOK
  <2> QED
    BY <1>3, <1>4, <1>5, <1>7, <2>2
<1> QED
  BY <1>6, <1>7

LEMMA CrcsCover ==
  ASSUME CInv, MaxEdits = 0
  PROVE  CrcCoversData
<1> SUFFICES ASSUME Written, BuildHash, NEW k \in DOMAIN filesInfo
             PROVE  filesInfo[k].crc32hash = [j \in 1..k |-> bundle.data[j].bytes]
  BY DEF CrcCoversData
<1>1. /\ k \in 1..Len(Sources) /\ Len(Sources) \in Nat
      /\ \A j \in 1..Len(Sources) : EntryOK(j) /\ Held(j) = bundle.data[j].bytes
  BY BundleIsWhole DEF Steady
<1>2. filesInfo[k].crc32hash = [j \in 1..k |-> Held(j)]
  BY <1>1 DEF EntryOK
<1>3. \A j \in 1..k : j \in 1..Len(Sources)
  BY <1>1
<1> QED
  BY <1>1, <1>2, <1>3

LEMMA OrderHolds ==
  ASSUME CInv, MaxEdits = 0
  PROVE  OrderIsOfPaths
<1> SUFFICES ASSUME Written, Compressed, NEW j \in DOMAIN filesInfo, NEW k \in DOMAIN filesInfo,
                    j < k
             PROVE  ~ Before(TempPath(bundle.data[k].bytes.of, filesInfo[k].uncompressedSize),
                             TempPath(bundle.data[j].bytes.of, filesInfo[j].uncompressedSize))
  BY DEF OrderIsOfPaths, Compressed
<1>1. /\ j \in 1..Len(Sources) /\ k \in 1..Len(Sources)
      /\ \A n \in 1..Len(Sources) : EntryOK(n) /\ Held(n) = bundle.data[n].bytes
  BY BundleIsWhole DEF Steady
<1>2. TypeOK /\ Sources = tempFilesPaths /\ Sorted(tempFilesPaths)
  BY DEF CInv, IInv, Sources, Compressed, VectorInv, SortedOnce, Written
<1>3. \A n \in 1..Len(Sources) :
         TempPath(bundle.data[n].bytes.of, filesInfo[n].uncompressedSize) = Sources[n]
  <2> SUFFICES ASSUME NEW n \in 1..Len(Sources)
               PROVE  TempPath(bundle.data[n].bytes.of, filesInfo[n].uncompressedSize) = Sources[n]
    OBVIOUS
  <2>1. Sources[n] \in Paths \ {<<>>}
    BY <1>2, SourcesTyped
  <2>2. /\ bundle.data[n].bytes.of = TempBase(Sources[n])
        /\ filesInfo[n].uncompressedSize = TempSize(Sources[n])
    BY <1>1 DEF EntryOK, PathOf
  <2> QED
    BY <2>1, <2>2, TempIsWhole
<1>4. ~ Before(Sources[k], Sources[j])
  <2>1. DOMAIN Sources = 1..Len(Sources)
    BY <1>2, SourcesTyped
  <2> QED
    BY <1>1, <1>2, <2>1 DEF Sorted
<1> QED
  BY <1>1, <1>3, <1>4

LEMMA NoneIsLost ==
  ASSUME Apart, CInv, MaxEdits = 0
  PROVE  NothingLost
<1> SUFFICES ASSUME Written, NEW t \in Tasks, Exists(InFiles[t]), disk[InFiles[t]].len > 0
             PROVE  \E k \in DOMAIN filesInfo : filesInfo[k].name = getRelative(InFiles[t])
  BY DEF NothingLost, Inputs
<1>1. /\ DOMAIN filesInfo = 1..Len(Sources) /\ TypeOK /\ VectorInv
      /\ \A n \in 1..Len(Sources) : EntryOK(n)
  BY BundleIsWhole DEF Steady, CInv, IInv
<1>2. CASE Compressed
  <2>1. pc[t] # "skipped"
    <3>1. disk[InFiles[t]].len # 0
      BY <1>1, SMTT(30) DEF Exists, TypeOK, Content
    <3> QED
      BY <3>1 DEF CInv, FilesInv, MadeOfInputs
  <2>2. t \in Pushed
    BY <1>2, <2>1, NobodyIsAtWork
  <2>3. PICK k \in DOMAIN tempFilesPaths : tempFilesPaths[k] = fpath(t)
    BY <1>1, <2>2, NobodyIsLeftOut
  <2>4. Sources = tempFilesPaths /\ k \in 1..Len(Sources)
    BY <1>1, <1>2, <2>3, SourcesTyped DEF Sources, Compressed
  <2>5. PathOf(Sources[k]) = InFiles[t]
    BY <1>1, <1>2, <2>3, <2>4, TempsAreApart DEF PathOf
  <2>6. k \in DOMAIN filesInfo /\ filesInfo[k].name = getRelative(PathOf(Sources[k]))
    BY <1>1, <2>4 DEF EntryOK
  <2> QED
    BY <2>5, <2>6
<1>3. CASE ~ Compressed
  <2>1. Sources = InFiles /\ t \in 1..Len(Sources)
    BY <1>3 DEF Sources, Compressed, Tasks, argslen
  <2>2. PathOf(Sources[t]) = InFiles[t]
    BY <1>3, <2>1 DEF PathOf
  <2>3. t \in DOMAIN filesInfo /\ EntryOK(t)
    BY <1>1, <2>1
  <2>4. filesInfo[t].name = getRelative(PathOf(Sources[t]))
    BY <2>3, Zenon DEF EntryOK
  <2> QED
    BY <2>2, <2>3, <2>4, Zenon
<1> QED
  BY <1>2, <1>3

LEMMA NoneIsLeft ==
  ASSUME Apart, CInv, ~ DeleteCanFail
  PROVE  NoTempLeft
<1>1. CASE Written
  <2> SUFFICES ASSUME NEW q \in DOMAIN disk, q \notin Inputs PROVE FALSE
    BY <1>1 DEF NoTempLeft
  <2>1. PICK t \in Tasks : q = fpath(t) /\ pc[t] \in {"write"} \cup Whole
    BY DEF CInv, FilesInv, OthersAreTemps
  <2>2. Compressed /\ Steady
    BY <2>1 DEF CInv, AtRest, NoTasks, Whole, Settled, Steady
  <2>3. t \in Pushed
    BY <1>1, <2>1, <2>2, NobodyIsAtWork DEF Whole, Settled
  <2>4. PICK k \in DOMAIN tempFilesPaths : tempFilesPaths[k] = fpath(t)
    BY <2>3, NobodyIsLeftOut DEF CInv, IInv
  <2>5. Sources = tempFilesPaths /\ k \in 1..Len(Sources)
    BY <2>2, <2>4, SourcesTyped DEF Sources, Compressed, CInv, IInv
  <2>6. ~ Exists(Sources[k])
    BY <1>1, <2>2, <2>5, BundleIsWhole
  <2> QED
    BY <2>1, <2>4, <2>5, <2>6 DEF Exists
<1>2. CASE ctor = "threw" /\ arcC \in Sequential
  <2>1. Steady
    BY <1>2 DEF Steady, Compressed, Sequential
  <2> QED
    BY <1>2, <2>1 DEF CInv, PassesInv, NothingBehind, NoTempLeft
<1> QED
  BY <1>1, <1>2 DEF NoTempLeft

LEMMA VectorMatches ==
  ASSUME Apart, CInv
  PROVE  TempsMatchTasks
<1>1. \A t \in Pushed : \E k \in DOMAIN tempFilesPaths : tempFilesPaths[k] = fpath(t)
  BY NobodyIsLeftOut DEF CInv, IInv
<1>2. \A t \in Pushed : Exists(fpath(t)) => disk[fpath(t)] = out[t]
  BY PushedIsFinite DEF CInv, FilesInv, TempsAreWhole, Pushed, Whole
<1> QED
  BY <1>1, <1>2 DEF CInv, VectorInv, OneSlotEach, TempsMatchTasks

LEMMA StepsKeepInputs ==
  ASSUME Apart, MaxEdits = 0, CInv, [Next]_vars, NEW p \in Inputs, Exists(p)
  PROVE  Exists(p)' /\ disk'[p] = disk[p]
<1>1. TypeOK
  BY DEF CInv, IInv
<1>2. CASE Constructor
  BY <1>2, ConstructorDeletes DEF CInv, Exists
<1>3. CASE \E t \in Tasks : CompressionTask(t)
  BY <1>1, <1>3, TasksKeepInputs
<1>4. CASE EditInput
  BY <1>1, <1>4, EditsKeepTemps
<1>5. CASE UNCHANGED vars
  BY <1>5 DEF vars, Exists
<1> QED
  BY <1>2, <1>3, <1>4, <1>5 DEF Next, Finished

-----------------------------------------------------------------------------
(* The theorems.  Apart says of the inputs what the constructor takes for  *)
(* granted, MaxEdits = 0 that no other program changes them meanwhile.     *)

\* CInv is an inductive invariant of the constructor and its tasks.
THEOREM ContentsInvariance == ASSUME Apart PROVE Spec => []CInv
<1>1. Init => CInv
  BY InitCInv
<1>2. CInv /\ [Next]_vars => CInv'
  BY NextCInv
<1> QED
  BY <1>1, <1>2, PTL DEF Spec

\* The vector of temporary files holds the files of the tasks that pushed,
\* each once, and each of them is what its task made, even if the inputs
\* change meanwhile.
THEOREM VectorIsOfTasks == ASSUME Apart PROVE Spec => []TempsMatchTasks
<1>1. CInv => TempsMatchTasks
  BY VectorMatches
<1> QED
  BY <1>1, ContentsInvariance, PTL

\* The entries of a compressed bundle tile its data from the header to the
\* end, even if the inputs change between the passes.
THEOREM EntriesFit == ASSUME Apart PROVE Spec => []EntriesTileData
<1>1. CInv => EntriesTileData
  BY EntriesTile
<1> QED
  BY <1>1, ContentsInvariance, PTL

\* What the reader will find at the place of an entry is the file of that
\* name, whole: of any number of files, packed by any compression type.
THEOREM IndexIsRight == ASSUME Apart, MaxEdits = 0 PROVE Spec => []IndexMatchesData
<1>1. CInv => IndexMatchesData
  BY ContentsMatch
<1> QED
  BY <1>1, ContentsInvariance, PTL

\* The CRC of the k-th entry is taken over the data of the first k files.
THEOREM CrcIsChained == ASSUME Apart, MaxEdits = 0 PROVE Spec => []CrcCoversData
<1>1. CInv => CrcCoversData
  BY CrcsCover
<1> QED
  BY <1>1, ContentsInvariance, PTL

\* The order of the entries does not depend on the order the tasks end in.
THEOREM OrderIsFixed == ASSUME Apart, MaxEdits = 0 PROVE Spec => []OrderIsOfPaths
<1>1. CInv => OrderIsOfPaths
  BY OrderHolds
<1> QED
  BY <1>1, ContentsInvariance, PTL

\* A bundle that is written has an entry for every input with bytes in it.
THEOREM EveryInputIsThere == ASSUME Apart, MaxEdits = 0 PROVE Spec => []NothingLost
<1>1. CInv => NothingLost
  BY NoneIsLost
<1> QED
  BY <1>1, ContentsInvariance, PTL

\* As long as files can be deleted, neither a bundle that is written nor a
\* sequential loop that gave up leaves a temporary file on the disk.
THEOREM NothingIsLeft == ASSUME Apart, ~ DeleteCanFail PROVE Spec => []NoTempLeft
<1>1. CInv => NoTempLeft
  BY NoneIsLeft
<1> QED
  BY <1>1, ContentsInvariance, PTL

\* No step of the constructor or of a task changes or deletes an input.
THEOREM InputsAreKept == ASSUME Apart, MaxEdits = 0 PROVE Spec => InputsKept
<1>1. CInv /\ [Next]_vars =>
        [\A p \in Inputs : Exists(p) => Exists(p)' /\ disk'[p] = disk[p]]_vars
  BY StepsKeepInputs
<1> QED
  BY <1>1, ContentsInvariance, PTL DEF Spec, InputsKept

-----------------------------------------------------------------------------
(* The object: what a reader finds. *)

(* What the tasks have made, and what was copied, is what the codec makes  *)
(* of the inputs: the sizes tell a stored file from a packed one.          *)
Compression(d, c) ==
    \/ d = Packed(c, d.len) /\ (arcC \in StoresIncompressible => d.len < c.len)
    \/ d = c /\ arcC \in StoresIncompressible
TasksCompress ==
    \A t \in Tasks : pc[t] \in {"create", "write"} \cup Whole =>
        Compression(out[t], disk[InFiles[t]])
MadeOf(c) == IF Compressed THEN Compression(c, disk[c.of]) ELSE c = disk[c.of]
ChunksAreMade == \A k \in DOMAIN bundle.data : MadeOf(bundle.data[k].bytes)

(* The entries lie one behind the other.                                   *)
EndOfEntry(e) == e.startPosition + e.compressedSize
Rising(entries) ==
    /\ \A k \in DOMAIN entries : entries[k].compressedSize > 0
    /\ \A j, k \in DOMAIN entries : j < k => EndOfEntry(entries[j]) <= entries[k].startPosition
EntriesRise ==
    /\ Rising(filesInfo)
    /\ ctor = "index" => \A k \in DOMAIN filesInfo : EndOfEntry(filesInfo[k]) <= previousPosition

(* The bundle file, whether it is finished or was cut off.                 *)
Describes(e, c) ==
    /\ c.of \in Inputs /\ Exists(c.of) /\ e.name = getRelative(c.of)
    /\ disk[c.of] = Original(c.of, e.uncompressedSize) /\ e.compressedSize = c.len
BundleOK ==
    /\ Rising(bundle.info)
    /\ Len(bundle.data) <= Len(bundle.info)
    /\ \A k \in DOMAIN bundle.data :
          /\ Describes(bundle.info[k], bundle.data[k].bytes)
          /\ bundle.data[k].at = bundle.info[k].startPosition
          /\ EndOfEntry(bundle.info[k]) <= bundle.end
    /\ \A k \in DOMAIN bundle.info :
          k > Len(bundle.data) => bundle.end <= bundle.info[k].startPosition
FileInv ==
    /\ TypeOK /\ ChunksAreMade /\ BundleOK
    /\ Alive => CInv /\ TasksCompress /\ EntriesRise

(* The object.  Good says that no read has come up short, which none does  *)
(* from a bundle that is not cut off.                                      *)
Good == stream.open /\ ~ stream.failed
FileFits ==
    /\ fileLen \in 0..bundle.end /\ (Alive => fileLen = bundle.end)
    /\ bundle # NoBundle => bundle.end >= HeaderLen
StreamFits ==
    /\ stream \in [open : BOOLEAN, failed : BOOLEAN]
    /\ object # "none" \/ stream.open => Ended
    /\ object = "none" => extracting = 0 /\ ~ stream.failed
    /\ stream.open /\ stream.failed => ~ Intact
ExtractedFits ==
    \A k \in 1..(extracting - 1) :
        /\ index[k].name \in DOMAIN extracted
        /\ Good => AreOfInput(index[k].name, extracted[index[k].name])
ObjectInv ==
    /\ FileFits /\ StreamFits /\ ExtractedFits
    /\ index \in Seq(Entry) /\ extracting \in 0..Len(index)
    /\ Good => index = bundle.info

OInv == FileInv /\ ObjectInv

-----------------------------------------------------------------------------
(* The least of a set of numbers.  The library states that < is well       *)
(* founded with an operator; as a set of pairs it can be used.             *)

LEMMA LessIsWellFounded ==
  \E R : IsWellFoundedOn(R, Nat) /\ \A m, n \in Nat : m < n => <<m, n>> \in R
<1>1. IsWellFoundedOn({s \in Nat \X Nat : s[1] < s[2]}, Nat)
  BY NatLessThanWellFounded DEF OpToRel
<1>2. \A m, n \in Nat : m < n => <<m, n>> \in {s \in Nat \X Nat : s[1] < s[2]}
  OBVIOUS
<1> QED
  BY <1>1, <1>2, Zenon

LEMMA LeastNumber ==
  ASSUME NEW T, T \subseteq Nat, T # {}
  PROVE  \E n \in T : \A m \in T : n <= m
<1>1. PICK R : IsWellFoundedOn(R, Nat) /\ \A m, n \in Nat : m < n => <<m, n>> \in R
  BY LessIsWellFounded
<1>2. PICK n \in T : \A m \in T : ~ (<<m, n>> \in R)
  BY <1>1, WFMin, ZenonT(30)
<1>3. \A m \in T : ~ (m < n)
  BY <1>1, <1>2, Zenon
<1> QED
  BY <1>2, <1>3

\* The loop of ReadData stops at the first entry of the name.
LEMMA FirstIsFound ==
  ASSUME NEW name, index \in Seq(Entry), Found(name) # {}
  PROVE  /\ FirstFound(name) \in DOMAIN index /\ index[FirstFound(name)].name = name
         /\ \A j \in Found(name) : FirstFound(name) <= j
<1>1. Found(name) \subseteq Nat
  BY LenProperties DEF Found
<1>2. \E k \in Found(name) : \A j \in Found(name) : k <= j
  BY <1>1, LeastNumber
<1>3. FirstFound(name) \in Found(name) /\ \A j \in Found(name) : FirstFound(name) <= j
  BY <1>2 DEF FirstFound
<1> QED
  BY <1>3 DEF Found

-----------------------------------------------------------------------------
(* The steps of the builder. *)

\* A process that has died does nothing more.
LEMMA DeadIsStill == ASSUME ~ Alive, [Next]_vars PROVE UNCHANGED vars
<1>1. ctor = "terminated"
  BY DEF Alive
<1>2. ~ \E t \in Tasks : CompressionTask(t)
  BY DEF CompressionTask, Step, LoadForIncrement, StoreIncrement, OpenMissing, OpenNull,
     OpenFile, CompressFile, CreateTemp, WriteTemp, Lock, FindEnd, PushTemp, CountCompressed,
     LoadForDecrement, StoreDecrement, Unlock
<1>3. CASE Constructor
  BY <1>1, <1>3 DEF Constructor, At, Here, Dispatch, SpawnTask, DetachTask, LeaveThrottle, EndOfLoop,
     LeaveWait, Spin, CallTask, TaskReturns, RemoveTemps, SortTemps, SourceMissing, IndexNull,
     IndexFile, WriteHeader, CopyNull, CopyFile, CloseBundle
<1>4. ~ EditInput
  BY DEF EditInput
<1> QED
  BY <1>2, <1>3, <1>4 DEF Next, Finished

\* The type of a bundle is settled once and for all.
LEMMA TypeIsSettled == ASSUME CInv, [Next]_vars PROVE arcC' = arcC
<1>1. CASE Constructor
  BY <1>1, ConstructorStarts DEF CInv, settings
<1>2. CASE \E t \in Tasks : CompressionTask(t)
  BY <1>2, TaskEffects DEF CInv, IInv, settings
<1>3. CASE EditInput
  BY <1>3 DEF EditInput
<1>4. CASE UNCHANGED vars
  BY <1>4 DEF vars, settings
<1> QED
  BY <1>1, <1>2, <1>3, <1>4 DEF Next, Finished

\* What is made of an input stays made of it.
LEMMA InputsStay ==
  ASSUME Apart, MaxEdits = 0, FileInv, [Next]_vars
  PROVE  /\ arcC' = arcC
         /\ \A p \in Inputs : Exists(p) => Exists(p)' /\ disk'[p] = disk[p]
<1>1. CASE Alive
  BY <1>1, TypeIsSettled, StepsKeepInputs DEF FileInv
<1>2. CASE ~ Alive
  BY <1>2, DeadIsStill DEF vars, settings, Exists
<1> QED
  BY <1>1, <1>2

LEMMA CompressionsAre ==
  ASSUME NEW c, NEW d \in Compressions(c)
  PROVE  Compression(d, c)
<1>1. \A n : Packed(c, n).len = n
  BY DEF Packed
<1>2. CASE arcC \in StoresIncompressible
  <2>1. d = c \/ \E n \in PackedSizes : n < c.len /\ d = Packed(c, n)
    BY <1>2, Zenon DEF Compressions
  <2> QED
    BY <1>1, <1>2, <2>1 DEF Compression
<1>3. CASE arcC \notin StoresIncompressible
  <2>1. \E n \in PackedSizes : d = Packed(c, n)
    BY <1>3, Zenon DEF Compressions
  <2> QED
    BY <1>1, <1>3, <2>1 DEF Compression
<1> QED
  BY <1>2, <1>3

LEMMA TasksCompressNext ==
  ASSUME Apart, MaxEdits = 0, CInv, TasksCompress, [Next]_vars
  PROVE  TasksCompress'
<1> SUFFICES ASSUME NEW t \in Tasks, pc'[t] \in {"create", "write"} \cup Whole
             PROVE  /\ disk'[InFiles[t]] = disk[InFiles[t]]
                    /\ Compression(out'[t], disk[InFiles[t]])
  BY TypeIsSettled DEF TasksCompress, Compression
<1>1. TypeOK /\ InFiles[t] \in Inputs
  BY DEF CInv, IInv, Inputs
<1>2. ASSUME pc[t] \in {"create", "write"} \cup Whole, out'[t] = out[t]
      PROVE  /\ disk'[InFiles[t]] = disk[InFiles[t]]
             /\ Compression(out'[t], disk[InFiles[t]])
  <2>1. Exists(InFiles[t])
    BY <1>2 DEF CInv, FilesInv, MadeOfInputs, Sized
  <2>2. disk'[InFiles[t]] = disk[InFiles[t]]
    BY <1>1, <2>1, StepsKeepInputs
  <2> QED
    BY <1>2, <2>2 DEF TasksCompress
<1>3. CASE Constructor
  <2>1. pc'[t] = pc[t] /\ out' = out
    BY <1>3, ConstructorStarts DEF CInv, Whole, Settled
  <2> QED
    BY <1>2, <2>1
<1>4. CASE \E u \in Tasks : CompressionTask(u)
  <2>1. PICK u \in Tasks : CompressionTask(u)
    BY <1>4
  <2>2. CASE u # t
    BY <1>1, <1>2, <2>1, <2>2, TaskEffects
  <2>3. CASE u = t /\ CompressFile(t)
    <3>1. pc[t] = "compress" /\ disk' = disk
      BY <2>3 DEF CompressFile, Step
    <3>2. Exists(InFiles[t]) /\ disk[InFiles[t]].len = size[t]
      BY <3>1 DEF CInv, FilesInv, MadeOfInputs, Sized
    <3>3. PICK d \in Compressions(disk[InFiles[t]]) : out' = [out EXCEPT ![t] = d]
      BY <2>3, <3>2 DEF CompressFile
    <3>4. out'[t] = d
      BY <1>1, <3>3 DEF TypeOK
    <3> QED
      BY <3>1, <3>3, <3>4, CompressionsAre
  <2>4. CASE u = t /\ ~ CompressFile(t)
    <3>1. pc[t] \in {"create", "write"} \cup Whole /\ out'[t] = out[t]
      BY <1>1, <2>1, <2>4, TaskEffects DEF Silent, OpenNull, OpenFile, CreateTemp, WriteTemp,
         PushTemp, Step, Whole, Settled, TypeOK
    <3> QED
      BY <1>2, <3>1
  <2> QED
    BY <2>2, <2>3, <2>4
<1>5. CASE EditInput
  BY <1>2, <1>5 DEF EditInput, taskVars
<1>6. CASE UNCHANGED vars
  BY <1>2, <1>6 DEF vars, taskVars
<1> QED
  BY <1>3, <1>4, <1>5, <1>6 DEF Next, Finished
\* The file that the second pass copies is what its task made of its input.
LEMMA CopiedIsMade ==
  ASSUME Apart, MaxEdits = 0, CInv, TasksCompress, Here("copy"), Exists(Source)
  PROVE  MadeOf(disk[Source]) /\ disk[Source].of \in Inputs /\ Exists(disk[Source].of)
<1>1. TypeOK /\ VectorInv /\ FilesInv
  BY DEF CInv, IInv
<1>2. PICK k \in 1..Len(Sources) : Source = Sources[k]
  <2>1. i + 1 \in 1..Len(Sources)
    BY <1>1, SourcesTyped DEF Here
  <2> QED
    BY <2>1 DEF Source
<1>3. CASE Compressed
  <2>1. PICK t \in Pushed : Sources[k] = fpath(t) /\ pc[t] \in Whole
    BY <1>1, <1>3, SourcesAreTemps
  <2>2. t \in Tasks
    BY PushedIsFinite
  <2>3. disk[fpath(t)] = out[t] /\ out[t].of = InFiles[t] /\ Exists(InFiles[t])
    BY <1>1, <1>2, <2>1, <2>2 DEF FilesInv, TempsAreWhole, MadeOfInputs, Sized
  <2>4. Compression(out[t], disk[InFiles[t]])
    BY <2>1, <2>2 DEF TasksCompress
  <2>5. disk[Source] = out[t]
    BY <1>2, <2>1, <2>3
  <2> QED
    BY <1>3, <2>2, <2>3, <2>4, <2>5 DEF MadeOf, Inputs
<1>4. CASE ~ Compressed
  <2>1. Source \in Inputs
    BY <1>2, <1>4 DEF Sources, Compressed, Inputs, Tasks, argslen
  <2>2. disk[Source].of = PathOf(Sources[k]) /\ PathOf(Sources[k]) = Source
    BY <1>1, <1>2, <1>4, SourceIsOf DEF PathOf
  <2> QED
    BY <1>4, <2>1, <2>2 DEF MadeOf
<1> QED
  BY <1>3, <1>4

\* What is written of a bundle is changed by two steps only.
LEMMA BundleSteps ==
  ASSUME CInv, [Next]_vars
  PROVE  \/ bundle' = bundle /\ (ctor' = "copy" => ctor = "copy")
         \/ WriteHeader
         \/ CopyFile
<1>1. CASE Constructor
  BY <1>1 DEF Constructor, At, Here, Dispatch, SpawnTask, DetachTask, LeaveThrottle, EndOfLoop,
     LeaveWait, Spin, CallTask, TaskReturns, RemoveTemps, SortTemps, SourceMissing, IndexNull,
     IndexFile, CopyNull, CloseBundle, vars
<1>2. CASE \E t \in Tasks : CompressionTask(t)
  BY <1>2, TaskEffects DEF CInv, IInv
<1>3. CASE EditInput
  BY <1>3 DEF EditInput
<1>4. CASE UNCHANGED vars
  BY <1>4 DEF vars
<1> QED
  BY <1>1, <1>2, <1>3, <1>4 DEF Next, Finished

LEMMA MadeStays ==
  ASSUME NEW c, arcC' = arcC, disk'[c.of] = disk[c.of], MadeOf(c)
  PROVE  MadeOf(c)'
BY DEF MadeOf, Compression, Compressed

LEMMA MadeOfAll ==
  (\A k \in DOMAIN bundle.data : \A c : c = bundle.data[k].bytes => MadeOf(c)) => ChunksAreMade
BY DEF ChunksAreMade

LEMMA MadeOfEvery ==
  (\A k \in DOMAIN bundle'.data : \A c : c = bundle'.data[k].bytes => MadeOf(c)') => ChunksAreMade'
<1>1. (\A k \in DOMAIN bundle.data : \A c : c = bundle.data[k].bytes => MadeOf(c))' => ChunksAreMade'
  BY MadeOfAll, PTL
<1> QED
  BY <1>1

LEMMA ChunksAreMadeNext ==
  ASSUME Apart, MaxEdits = 0, FileInv, Alive, [Next]_vars
  PROVE  ChunksAreMade'
<1>1. /\ arcC' = arcC /\ CInv /\ TasksCompress
      /\ \A p \in Inputs : Exists(p) => disk'[p] = disk[p]
  BY InputsStay DEF FileInv
<1>2. \A k \in DOMAIN bundle.data : \A c : c = bundle.data[k].bytes => MadeOf(c)'
  <2> SUFFICES ASSUME NEW k \in DOMAIN bundle.data, NEW c, c = bundle.data[k].bytes PROVE MadeOf(c)'
    OBVIOUS
  <2>1. MadeOf(c) /\ c.of \in Inputs /\ Exists(c.of)
    BY DEF FileInv, ChunksAreMade, BundleOK, Describes
  <2>2. disk'[c.of] = disk[c.of]
    BY <1>1, <2>1
  <2> QED
    BY <1>1, <2>1, <2>2, MadeStays
<1>3. CASE bundle' = bundle
  BY <1>2, <1>3, MadeOfEvery
<1>4. CASE WriteHeader
  <2>1. bundle'.data = <<>>
    BY <1>4 DEF WriteHeader
  <2> QED
    BY <2>1, MadeOfEvery
<1>5. CASE CopyFile
  <2>1. PICK c : c = disk[Source]
    OBVIOUS
  <2>2. MadeOf(c) /\ disk'[c.of] = disk[c.of]
    BY <1>1, <1>5, <2>1, CopiedIsMade DEF CopyFile
  <2>3. MadeOf(c)'
    BY <1>1, <2>2, MadeStays
  <2>4. PICK x : x = [at |-> bundle.end, bytes |-> c] /\ bundle'.data = Append(bundle.data, x)
    BY <1>5, <2>1 DEF CopyFile
  <2>5. bundle.data \in Seq(Chunk) /\ x \in Chunk /\ x.bytes = c
    BY <1>1, <1>5, <2>1, <2>4 DEF CInv, IInv, TypeOK, Bundle, Chunk, CopyFile, Exists
  <2>6. \A k \in DOMAIN bundle'.data : IF k = Len(bundle.data) + 1 THEN bundle'.data[k] = x
                                       ELSE k \in DOMAIN bundle.data /\ bundle'.data[k] = bundle.data[k]
    <3>1. /\ Len(bundle'.data) = Len(bundle.data) + 1 /\ Len(bundle.data) \in Nat
          /\ \A k \in 1..Len(bundle.data) : bundle'.data[k] = bundle.data[k]
          /\ bundle'.data[Len(bundle.data) + 1] = x
      BY <2>4, <2>5, AppendProperties, LenProperties
    <3>2. DOMAIN bundle.data = 1..Len(bundle.data) /\ DOMAIN bundle'.data = 1..Len(bundle'.data)
      BY <2>4, <2>5, AppendProperties, LenProperties
    <3> QED
      BY <3>1, <3>2
  <2>7. \A k \in DOMAIN bundle'.data : \A y : y = bundle'.data[k].bytes => MadeOf(y)'
    BY <1>2, <2>3, <2>5, <2>6
  <2> QED
    BY <2>7, MadeOfEvery
<1> QED
  BY <1>1, <1>3, <1>4, <1>5, BundleSteps

-----------------------------------------------------------------------------
(* The entries. *)

LEMMA EntriesRiseNext ==
  ASSUME CInv, Steady, EntriesRise, [Next]_vars
  PROVE  EntriesRise'
<1>1. TypeOK /\ PassesInv /\ DOMAIN filesInfo = 1..Len(filesInfo) /\ Len(filesInfo) \in Nat
      /\ filesInfo \in Seq(Entry)
  BY LenProperties DEF CInv, IInv, TypeOK
<1>2. \A k \in DOMAIN filesInfo : filesInfo[k] \in Entry
  BY <1>1, ElementOfSeq
<1>3. CASE filesInfo' = filesInfo /\ (ctor' = "index" => ctor = "index" /\ previousPosition' = previousPosition)
  BY <1>3 DEF EntriesRise
<1>4. CASE filesInfo' = filesInfo /\ ctor # "index" /\ ctor' = "index"
  <2>1. ctor \notin {"copy", "returned", "threw", "terminated"}
    <3>1. CASE Constructor
      BY <1>4, <3>1, ConstructorStarts DEF CInv
    <3>2. CASE \E t \in Tasks : CompressionTask(t)
      BY <1>4, <3>2, TaskEffects DEF CInv, IInv
    <3>3. CASE EditInput \/ UNCHANGED vars
      BY <1>4, <3>3 DEF EditInput, vars
    <3> QED
      BY <3>1, <3>2, <3>3 DEF Next, Finished
  <2>2. filesInfo' = <<>>
    BY <1>1, <1>4, <2>1 DEF PassesInv, NotYetIndexed
  <2> QED
    BY <2>2 DEF EntriesRise, Rising
<1>5. CASE IndexFile
  <2>1. PICK p, c, crc : /\ c = disk[p] /\ p = Source /\ Exists(p) /\ c.len > 0
                         /\ crc = (IF BuildHash THEN updateCRC(prevCrc, c) ELSE prevCrc)
                         /\ filesInfo' = Append(filesInfo, EntryOf(p, c, crc))
                         /\ previousPosition' = previousPosition + c.len
                         /\ ctor = "index" /\ ctor' = "index"
    BY <1>5 DEF IndexFile, Here
  <2>2. PICK e : e = EntryOf(p, c, crc)
    OBVIOUS
  <2>3. e.startPosition = previousPosition /\ e.compressedSize = c.len
    BY <2>2 DEF EntryOf
  <2>4. c.len \in Nat /\ previousPosition \in Nat
    BY <1>1, <2>1 DEF TypeOK, Exists, Content
  <2>5. e \in Entry
    <3>1. c \in Content
      BY <1>1, <2>1 DEF TypeOK, Exists
    <3>2. crc \in Seq(Content)
      BY <1>1, <2>1, <3>1, AppendProperties DEF TypeOK, updateCRC
    <3>3. TypeOK /\ i < Len(Sources)
      BY <1>1, <1>5 DEF IndexFile, Here
    <3>4. EntryOf(Source, c, crc) \in Entry
      BY <3>1, <3>2, <3>3, EntryTyped
    <3> QED
      BY <2>1, <2>2, <3>4
  <2>6. /\ DOMAIN filesInfo' = 1..(Len(filesInfo) + 1)
        /\ \A k \in DOMAIN filesInfo : filesInfo'[k] = filesInfo[k]
        /\ filesInfo'[Len(filesInfo) + 1] = e
    BY <1>1, <2>1, <2>2, <2>5, AppendProperties, LenProperties
  <2>7. \A k \in DOMAIN filesInfo : EndOfEntry(filesInfo[k]) <= previousPosition
                                      /\ filesInfo[k].compressedSize > 0
    BY <2>1 DEF EntriesRise, Rising
  <2>8. \A k \in DOMAIN filesInfo : EndOfEntry(filesInfo[k]) \in Nat
    BY <1>2 DEF EndOfEntry, Entry
  <2>9. EndOfEntry(e) = previousPosition'
    BY <2>1, <2>3 DEF EndOfEntry
  <2>10. \A k \in DOMAIN filesInfo' : EndOfEntry(filesInfo'[k]) <= previousPosition'
                                      /\ filesInfo'[k].compressedSize > 0
    <3> SUFFICES ASSUME NEW k \in DOMAIN filesInfo'
                 PROVE  EndOfEntry(filesInfo'[k]) <= previousPosition' /\ filesInfo'[k].compressedSize > 0
      OBVIOUS
    <3>1. CASE k \in DOMAIN filesInfo
      BY <2>1, <2>4, <2>6, <2>7, <2>8, <3>1
    <3>2. CASE k = Len(filesInfo) + 1
      BY <2>1, <2>3, <2>4, <2>6, <2>9, <3>2
    <3> QED
      BY <1>1, <2>6, <3>1, <3>2
  <2>11. \A j, k \in DOMAIN filesInfo' : j < k => EndOfEntry(filesInfo'[j]) <= filesInfo'[k].startPosition
    <3> SUFFICES ASSUME NEW j \in DOMAIN filesInfo', NEW k \in DOMAIN filesInfo', j < k
                 PROVE  EndOfEntry(filesInfo'[j]) <= filesInfo'[k].startPosition
      OBVIOUS
    <3>1. j \in DOMAIN filesInfo /\ (k \in DOMAIN filesInfo \/ k = Len(filesInfo) + 1)
      BY <1>1, <2>6
    <3>2. CASE k \in DOMAIN filesInfo
      BY <2>6, <3>1, <3>2 DEF EntriesRise, Rising
    <3>3. CASE k = Len(filesInfo) + 1
      BY <2>3, <2>6, <2>7, <3>1, <3>3
    <3> QED
      BY <3>1, <3>2, <3>3
  <2> QED
    BY <2>10, <2>11 DEF EntriesRise, Rising
<1>6. CASE WriteHeader
  <2>1. PICK d \in Nat : d = DataStart
    BY <1>1, DataStartTyped
  <2>2. /\ filesInfo' = [k \in DOMAIN filesInfo |-> [filesInfo[k] EXCEPT !.startPosition = @ + d]]
        /\ ctor' = "copy"
    BY <1>6, <2>1 DEF WriteHeader
  <2>3. \A k \in DOMAIN filesInfo : /\ filesInfo'[k].startPosition = filesInfo[k].startPosition + d
                                    /\ filesInfo'[k].compressedSize = filesInfo[k].compressedSize
                                    /\ filesInfo[k].startPosition \in Nat /\ filesInfo[k].compressedSize \in Nat
    BY <1>2, <2>2 DEF Entry
  <2>4. DOMAIN filesInfo' = DOMAIN filesInfo
    BY <2>2
  <2>5. \A k \in DOMAIN filesInfo' : filesInfo'[k].compressedSize > 0
    BY <2>3, <2>4 DEF EntriesRise, Rising
  <2>6. \A j, k \in DOMAIN filesInfo' : j < k => EndOfEntry(filesInfo'[j]) <= filesInfo'[k].startPosition
    <3> SUFFICES ASSUME NEW j \in DOMAIN filesInfo', NEW k \in DOMAIN filesInfo', j < k
                 PROVE  EndOfEntry(filesInfo'[j]) <= filesInfo'[k].startPosition
      OBVIOUS
    <3>1. filesInfo[j].startPosition + filesInfo[j].compressedSize <= filesInfo[k].startPosition
      BY <2>4 DEF EntriesRise, Rising, EndOfEntry
    <3>2. /\ filesInfo'[k].startPosition = filesInfo[k].startPosition + d
          /\ EndOfEntry(filesInfo'[j]) = filesInfo[j].startPosition + d + filesInfo[j].compressedSize
      BY <2>3, <2>4 DEF EndOfEntry
    <3>3. /\ filesInfo[j].startPosition \in Nat /\ filesInfo[j].compressedSize \in Nat
          /\ filesInfo[k].startPosition \in Nat
      BY <2>3, <2>4
    <3> QED
      BY <2>1, <3>1, <3>2, <3>3
  <2> QED
    BY <2>2, <2>5, <2>6 DEF EntriesRise, Rising
<1>7. \/ filesInfo' = filesInfo /\ (ctor' = "index" /\ ctor = "index" => previousPosition' = previousPosition)
      \/ IndexFile \/ WriteHeader
  <2>1. CASE Constructor
    BY <2>1 DEF Constructor, At, Here, Dispatch, SpawnTask, DetachTask, LeaveThrottle, EndOfLoop,
       LeaveWait, Spin, CallTask, TaskReturns, RemoveTemps, SortTemps, SourceMissing, IndexNull,
       CopyNull, CopyFile, CloseBundle, vars, indexVars
  <2>2. CASE \E t \in Tasks : CompressionTask(t)
    BY <1>1, <2>2, TaskEffects DEF indexVars
  <2>3. CASE EditInput \/ UNCHANGED vars
    BY <2>3 DEF EditInput, vars, indexVars
  <2> QED
    BY <2>1, <2>2, <2>3 DEF Next, Finished
<1> QED
  BY <1>3, <1>4, <1>5, <1>6, <1>7
-----------------------------------------------------------------------------
(* The bundle file. *)

\* What a chunk is made of, as long as the constructor works or is done.
LEMMA ChunkIsDescribed ==
  ASSUME Apart, CInv, MaxEdits = 0, Copying, NEW k \in 1..i
  PROVE  Describes(filesInfo[k], bundle.data[k].bytes)
<1>1. TypeOK /\ Copied
  BY DEF CInv, IInv, PassesInv, Steady
<1>2. k \in 1..Len(Sources) /\ EntryOK(k)
  BY <1>1, SourcesTyped DEF Copied
<1>3. PICK c, p, q, e : c = Held(k) /\ p = Sources[k] /\ q = PathOf(p) /\ e = filesInfo[k]
  OBVIOUS
<1>4. c = bundle.data[k].bytes
  BY <1>1, <1>3, SourcesTyped DEF Held
<1>5. /\ c.of = q /\ e.name = getRelative(q) /\ e.compressedSize = c.len
      /\ e.uncompressedSize = IF Compressed THEN TempSize(p) ELSE c.len
  BY <1>2, <1>3 DEF EntryOK
<1>6. q \in Inputs /\ Exists(q) /\ disk[q] = Original(q, e.uncompressedSize)
  <2>1. CASE Compressed
    <3>1. PICK t \in Pushed : p = fpath(t) /\ pc[t] \in Whole
      BY <1>1, <1>2, <1>3, <2>1, SourcesAreTemps DEF CInv
    <3>2. t \in Tasks
      BY PushedIsFinite
    <3>3. q = InFiles[t] /\ TempSize(p) = size[t] /\ q \in Inputs
      BY <1>1, <1>3, <2>1, <3>1, <3>2, TempsAreApart DEF PathOf, Inputs
    <3>4. Exists(q) /\ disk[q].len = size[t]
      BY <3>1, <3>2, <3>3 DEF CInv, FilesInv, MadeOfInputs, Sized
    <3>5. disk[q] = Original(q, disk[q].len)
      BY <3>3, <3>4 DEF CInv, FilesInv, InputsAreOriginal
    <3> QED
      BY <1>5, <2>1, <3>3, <3>4, <3>5
  <2>2. CASE ~ Compressed
    <3>1. q = p /\ p \in Inputs
      BY <1>2, <1>3, <2>2 DEF PathOf, Sources, Compressed, Inputs, Tasks, argslen
    <3>2. Exists(p) /\ disk[p] = c
      BY <1>1, <1>2, <1>3, <2>2 DEF Copied
    <3>3. disk[p] = Original(p, disk[p].len)
      BY <3>1, <3>2 DEF CInv, FilesInv, InputsAreOriginal
    <3> QED
      BY <1>5, <2>2, <3>1, <3>2, <3>3
  <2> QED
    BY <2>1, <2>2
<1> QED
  BY <1>3, <1>4, <1>5, <1>6 DEF Describes

LEMMA CopyingIsOK ==
  ASSUME Apart, CInv, MaxEdits = 0, EntriesRise, Copying
  PROVE  BundleOK
<1>1. TypeOK /\ Copied
  BY DEF CInv, IInv, PassesInv, Steady
<1>2. /\ bundle.info = filesInfo /\ Len(bundle.data) = i /\ bundle.end = EndOf(i)
      /\ i \in Nat /\ Len(filesInfo) \in Nat /\ i <= Len(filesInfo)
      /\ Len(Sources) = Len(filesInfo)
  BY <1>1, SourcesTyped DEF Copied
<1>3. /\ DOMAIN bundle.data = 1..i /\ DOMAIN bundle.info = 1..Len(filesInfo)
      /\ bundle.end \in Nat
  BY <1>1, <1>2, LenProperties DEF TypeOK, Bundle
<1>4. \A k \in 1..Len(filesInfo) : /\ filesInfo[k].startPosition \in Nat
                                   /\ filesInfo[k].compressedSize \in Nat
  <2>1. \A k \in 1..Len(filesInfo) : filesInfo[k] \in Entry
    BY <1>1, <1>2, ElementOfSeq DEF TypeOK
  <2> QED
    BY <2>1 DEF Entry
<1>5. \A k \in 1..Len(filesInfo) : EndOfEntry(filesInfo[k]) = EndOf(k)
  BY DEF EndOf, EndOfEntry
<1>6. Rising(bundle.info)
  BY <1>2 DEF EntriesRise
<1>7. \A k \in 1..i : /\ Describes(bundle.info[k], bundle.data[k].bytes)
                      /\ bundle.data[k].at = bundle.info[k].startPosition
                      /\ EndOfEntry(bundle.info[k]) <= bundle.end
  BY <1>1, <1>2, <1>5, ChunkIsDescribed DEF Copied
<1>8. \A k \in 1..Len(filesInfo) : k > i => bundle.end <= bundle.info[k].startPosition
  <2> SUFFICES ASSUME NEW k \in 1..Len(filesInfo), k > i
               PROVE  EndOf(i) <= filesInfo[k].startPosition
    BY <1>2
  <2>1. CASE i > 0
    <3>1. EndOfEntry(filesInfo[i]) <= filesInfo[k].startPosition
      BY <1>2, <1>3, <1>6, <2>1 DEF Rising
    <3> QED
      BY <1>2, <1>5, <2>1, <3>1
  <2>2. CASE i = 0
    <3>1. 1 \in 1..Len(filesInfo)
      BY <1>2
    <3>2. filesInfo[1].startPosition = EndOf(0)
      <4>1. EntryOK(1)
        BY <1>1, <1>2, <3>1 DEF Copied
      <4>2. 1 - 1 = 0
        OBVIOUS
      <4> QED
        BY <4>1, <4>2 DEF EntryOK
    <3>3. k > 1 => EndOfEntry(filesInfo[1]) <= filesInfo[k].startPosition
      BY <1>2, <1>3, <1>6, <3>1 DEF Rising
    <3>4. k > 1 => filesInfo[1].startPosition <= filesInfo[k].startPosition
      BY <1>4, <3>1, <3>3 DEF EndOfEntry
    <3>5. k = 1 => filesInfo[1].startPosition <= filesInfo[k].startPosition
      BY <1>4, <3>1
    <3> QED
      BY <2>2, <3>2, <3>4, <3>5
  <2> QED
    BY <1>2, <2>1, <2>2
<1> QED
  BY <1>2, <1>3, <1>6, <1>7, <1>8 DEF BundleOK

LEMMA CopyingIsOKNext ==
  ASSUME Apart, MaxEdits = 0
  PROVE  CInv' /\ EntriesRise' /\ Copying' => BundleOK'
<1>1. CInv /\ EntriesRise /\ Copying => BundleOK
  BY CopyingIsOK
<1> QED
  BY <1>1, PTL

\* As long as nothing is written and the inputs stay, so does the rest.
LEMMA BundleStays ==
  ASSUME BundleOK, bundle' = bundle,
         \A p \in Inputs : Exists(p) => Exists(p)' /\ disk'[p] = disk[p]
  PROVE  BundleOK'
<1>1. \A e, c : Describes(e, c) => Describes(e, c)'
  BY DEF Describes
<1>2. \A k \in DOMAIN bundle.data : \A e, c : Describes(e, c) /\ e = bundle.info[k] /\ c = bundle.data[k].bytes
                                               => Describes(e, c)'
  BY <1>1
<1> QED
  BY <1>2 DEF BundleOK, Rising, EndOfEntry, Describes, Exists

LEMMA FileInvInit == ASSUME Apart, MaxEdits = 0, Init PROVE FileInv
<1>1. CInv /\ TypeOK
  BY InitCInv DEF CInv, IInv
<1>2. filesInfo = <<>> /\ bundle = NoBundle /\ ctor = "dispatch"
      /\ \A t \in Tasks : pc[t] = "unborn"
  BY DEF Init
<1>3. bundle.data = <<>> /\ bundle.info = <<>>
  BY <1>2 DEF NoBundle
<1>4. TasksCompress /\ EntriesRise
  BY <1>2 DEF TasksCompress, EntriesRise, Rising, Whole, Settled
<1>5. ChunksAreMade /\ BundleOK
  BY <1>3 DEF ChunksAreMade, BundleOK, Rising
<1> QED
  BY <1>1, <1>4, <1>5 DEF FileInv

LEMMA FileInvNext == ASSUME Apart, MaxEdits = 0, FileInv, [Next]_vars PROVE FileInv'
<1>1. CASE ~ Alive
  <2>1. UNCHANGED vars
    BY <1>1, DeadIsStill
  <2>2. UNCHANGED <<arcC, edits, disk, pc, size, out, loaded, numRunningThreads, numCompressed, mtx,
                    tempFilesPaths, ctor, i, prevCrc, previousPosition, filesInfo, bundle>>
    BY <2>1 DEF vars, settings, taskVars, sharedVars, indexVars
  <2>3. ~ Alive'
    BY <1>1, <2>2 DEF Alive
  <2>4. TypeOK'
    BY <2>2 DEF FileInv, TypeOK
  <2>5. BundleOK'
    BY <1>1, <2>2, InputsStay, BundleStays DEF FileInv
  <2>6. ChunksAreMade'
    BY <2>2 DEF FileInv, ChunksAreMade, MadeOf, Compression, Compressed
  <2> QED
    BY <2>3, <2>4, <2>5, <2>6 DEF FileInv
<1>2. CASE Alive
  <2>1. CInv /\ TasksCompress /\ EntriesRise /\ Steady
    BY <1>2 DEF FileInv, Steady
  <2>2. CInv'
    BY <2>1, NextCInv
  <2>3. TasksCompress' /\ EntriesRise' /\ ChunksAreMade'
    BY <1>2, <2>1, TasksCompressNext, EntriesRiseNext, ChunksAreMadeNext
  <2>4. BundleOK'
    <3>1. CASE bundle' = bundle
      BY <3>1, InputsStay, BundleStays DEF FileInv
    <3>2. CASE WriteHeader \/ CopyFile
      <4>1. Copying'
        BY <3>2 DEF WriteHeader, CopyFile, Here, Copying
      <4> QED
        BY <2>2, <2>3, <4>1, CopyingIsOKNext
    <3> QED
      BY <2>1, <3>1, <3>2, BundleSteps
  <2>5. TypeOK'
    BY <2>2 DEF CInv, IInv
  <2> QED
    BY <2>2, <2>3, <2>4, <2>5 DEF FileInv
<1> QED
  BY <1>1, <1>2

\* The process dies: what is on the disk stays as it is.
LEMMA FileInvCrash ==
  ASSUME FileInv, ctor' = "terminated",
         UNCHANGED <<settings, disk, taskVars, sharedVars, i, indexVars, bundle>>
  PROVE  FileInv'
<1>1. UNCHANGED <<arcC, edits, disk, pc, size, out, loaded, numRunningThreads, numCompressed, mtx,
                  tempFilesPaths, i, prevCrc, previousPosition, filesInfo, bundle>>
  BY DEF settings, taskVars, sharedVars, indexVars
<1>2. ~ Alive'
  BY DEF Alive
<1>3. TypeOK'
  BY <1>1 DEF FileInv, TypeOK, ConstructorPoint
<1>4. ChunksAreMade'
  BY <1>1 DEF FileInv, ChunksAreMade, MadeOf, Compression, Compressed
<1>5. BundleOK'
  BY <1>1, BundleStays DEF FileInv, Exists
<1> QED
  BY <1>2, <1>3, <1>4, <1>5 DEF FileInv
-----------------------------------------------------------------------------
(* What a read gives. *)

LEMMA InputsAreNamed == \A p \in Inputs : p \in Paths \ {<<>>}
BY InFilesArePaths DEF Inputs

\* A read that comes back whole has the chunk of its entry.
LEMMA SegmentIsChunk ==
  ASSUME FileInv, ObjectInv, NEW k \in DOMAIN index, NEW e, e = index[k], ReadsWell(e)
  PROVE  \E c : /\ Segment(e) = c /\ MadeOf(c) /\ Describes(e, c)
                /\ k \in DOMAIN bundle.data
<1>1. bundle \in Bundle /\ index = bundle.info /\ fileLen \in 0..bundle.end
  BY DEF FileInv, TypeOK, ObjectInv, FileFits, Good, ReadsWell
<1>2. /\ DOMAIN bundle.info = 1..Len(bundle.info) /\ DOMAIN bundle.data = 1..Len(bundle.data)
      /\ Len(bundle.info) \in Nat /\ Len(bundle.data) \in Nat /\ bundle.end \in Nat
  BY <1>1, LenProperties DEF Bundle
<1>3. \A j \in DOMAIN bundle.info : /\ bundle.info[j].startPosition \in Nat
                                    /\ bundle.info[j].compressedSize \in Nat
                                    /\ bundle.info[j].compressedSize > 0
  <2>1. \A j \in DOMAIN bundle.info : bundle.info[j] \in Entry
    BY <1>1, ElementOfSeq, LenProperties DEF Bundle
  <2> QED
    BY <2>1 DEF Entry, FileInv, BundleOK, Rising
<1>4. k \in DOMAIN bundle.info /\ e = bundle.info[k] /\ EndOfEntry(e) <= fileLen
  BY <1>1 DEF ReadsWell, EndOfEntry
<1>5. k \in DOMAIN bundle.data
  <2>1. ~ (bundle.end <= bundle.info[k].startPosition)
    BY <1>1, <1>2, <1>3, <1>4 DEF EndOfEntry
  <2>2. ~ (k > Len(bundle.data))
    BY <1>4, <2>1 DEF FileInv, BundleOK
  <2> QED
    BY <1>2, <1>4, <2>2
<1>6. PICK c : c = bundle.data[k].bytes
  OBVIOUS
<1>7. MadeOf(c) /\ Describes(e, c) /\ bundle.data[k].at = e.startPosition
  BY <1>4, <1>5, <1>6 DEF FileInv, ChunksAreMade, BundleOK
<1>8. \A j \in DOMAIN bundle.data : bundle.data[j].at = e.startPosition => j = k
  <2> SUFFICES ASSUME NEW j \in DOMAIN bundle.data, bundle.data[j].at = e.startPosition, j # k
               PROVE  FALSE
    OBVIOUS
  <2>1. j \in DOMAIN bundle.info /\ bundle.info[j].startPosition = bundle.info[k].startPosition
    BY <1>2, <1>4 DEF FileInv, BundleOK
  <2>2. /\ j < k => EndOfEntry(bundle.info[j]) <= bundle.info[k].startPosition
        /\ k < j => EndOfEntry(bundle.info[k]) <= bundle.info[j].startPosition
    BY <1>4, <2>1 DEF FileInv, BundleOK, Rising
  <2> QED
    BY <1>2, <1>3, <1>4, <2>1, <2>2 DEF EndOfEntry
<1>9. PICK hits : hits = {x \in {bundle.data[j] : j \in DOMAIN bundle.data} :
                            x.at = e.startPosition /\ x.bytes.len = e.compressedSize}
  OBVIOUS
<1>10. \A x : x \in hits <=> x = bundle.data[k]
  BY <1>5, <1>6, <1>7, <1>8, <1>9 DEF Describes
<1>11. hits # {} /\ (CHOOSE x \in hits : TRUE) = bundle.data[k]
  BY <1>10
<1>12. Segment(e) = c
  BY <1>6, <1>9, <1>11 DEF Segment
<1> QED
  BY <1>5, <1>7, <1>12

\* Reader and writer agree on which entries are stored.
LEMMA ReadIsRight ==
  ASSUME FileInv, ObjectInv, NEW k \in DOMAIN index, NEW e, e = index[k], ReadsWell(e),
         NEW name, name = e.name, NEW a \in Answers(name, e, Segment(e))
  PROVE  /\ a.name = name
         /\ \/ a.kind = "bytes" /\ AreOfInput(name, a.bytes)
            \/ a.kind = "threw" /\ arcC = "LZJB"
<1>1. PICK c : Segment(e) = c /\ MadeOf(c) /\ Describes(e, c)
  BY SegmentIsChunk
<1>2. PICK p, n, d : p = c.of /\ n = e.uncompressedSize /\ d = disk[p]
  OBVIOUS
<1>3. /\ p \in Inputs /\ p # <<>> /\ Exists(p) /\ e.name = getRelative(p)
      /\ d = Original(p, n) /\ e.compressedSize = c.len
  BY <1>1, <1>2, InputsAreNamed DEF Describes
<1>4. d.of = p /\ d.layers = 0 /\ d.len = n /\ c.of = p
  BY <1>2, <1>3 DEF Original
<1>5. Answers(name, e, c) = {Answer("bytes", name, d)} \/
      (Answers(name, e, c) = {Answer("threw", name, NoBytes)} /\ arcC = "LZJB")
  <2>1. CASE ~ Compressed
    <3>1. c = d /\ Stored(e)
      BY <1>1, <1>2, <2>1 DEF MadeOf, Stored, Compressed
    <3> QED
      BY <1>4, <3>1 DEF Answers
  <2>2. CASE Compressed /\ c = d /\ arcC \in StoresIncompressible
    <3>1. Stored(e)
      BY <1>2, <1>3, <1>4, <2>2 DEF Stored
    <3> QED
      BY <1>4, <2>2, <3>1 DEF Answers
  <2>3. CASE Compressed /\ c = Packed(d, c.len) /\ (arcC \in StoresIncompressible => c.len < d.len)
    <3>1. c.layers = 1
      BY <1>4, <2>3 DEF Packed
    <3>2. ~ Stored(e)
      <4>1. e \in Entry
        BY LenProperties, ElementOfSeq DEF ObjectInv
      <4>2. e.uncompressedSize \in Nat /\ e.compressedSize \in Nat
        BY <4>1 DEF Entry
      <4> QED
        BY <1>2, <1>3, <1>4, <2>3, <4>2 DEF Stored, Compressed
    <3>3. arcC # "LZJB" => Answers(name, e, c) =
            {Answer("bytes", name, [of |-> c.of, layers |-> c.layers - 1, len |-> e.uncompressedSize])}
      BY <3>1, <3>2 DEF Answers
    <3>4. [of |-> c.of, layers |-> c.layers - 1, len |-> e.uncompressedSize] = d
      BY <1>2, <1>3, <1>4, <3>1 DEF Original
    <3>5. arcC = "LZJB" => Answers(name, e, c) = {Answer("threw", name, NoBytes)}
      BY <3>2 DEF Answers
    <3> QED
      BY <3>3, <3>4, <3>5
  <2> QED
    BY <1>1, <1>2, <2>1, <2>2, <2>3 DEF MadeOf, Compression
<1>6. a = Answer("bytes", name, d) \/ (a = Answer("threw", name, NoBytes) /\ arcC = "LZJB")
  BY <1>1, <1>5
<1>7. AreOfInput(name, d)
  BY <1>2, <1>3 DEF AreOfInput
<1>8. CASE a = Answer("bytes", name, d)
  <2>1. a.name = name /\ a.kind = "bytes" /\ a.bytes = d
    BY <1>8 DEF Answer
  <2> QED
    BY <1>7, <2>1
<1>9. CASE a = Answer("threw", name, NoBytes) /\ arcC = "LZJB"
  BY <1>9 DEF Answer
<1> QED
  BY <1>6, <1>8, <1>9

\* A read comes up short only of a bundle that is cut off before the end of
\* the file's data.
LEMMA ShortReadIsOfCutBundle ==
  ASSUME FileInv, ObjectInv, Good, NEW k \in DOMAIN index, ~ ReadsWell(index[k])
  PROVE  ~ Intact
<1>1. bundle \in Bundle /\ index = bundle.info
  BY DEF FileInv, TypeOK, ObjectInv
<1>2. ~ (EndOfEntry(bundle.info[k]) <= fileLen)
  BY <1>1 DEF ReadsWell, EndOfEntry, Good
<1>3. DOMAIN bundle.info = 1..Len(bundle.info) /\ DOMAIN bundle.data = 1..Len(bundle.data)
  BY <1>1, LenProperties DEF Bundle
<1> QED
  BY <1>1, <1>2, <1>3 DEF FileInv, BundleOK, Intact

\* What it gives is some answer to the same name.
LEMMA AnswersName ==
  ASSUME NEW e, NEW name, NEW seg, NEW a \in Answers(name, e, seg)
  PROVE  a.name = name
<1>1. \A kind, bytes : Answer(kind, name, bytes).name = name
  BY DEF Answer
<1> QED
  BY <1>1 DEF Answers

LEMMA ReadEffects ==
  ASSUME FileInv, ObjectInv, NEW name, ReadData(name)
  PROVE  /\ answer'.name = name
         /\ stream' \in [open : BOOLEAN, failed : BOOLEAN] /\ stream'.open = stream.open
         /\ Good' => Good
         /\ Good /\ ~ Good' => ~ Intact
         /\ Good' => \/ answer'.kind = "bytes" /\ AreOfInput(name, answer'.bytes)
                     \/ answer'.kind = "threw" /\ arcC = "LZJB"
                     \/ answer'.kind = "refused" /\ Found(name) = {} /\ answer'.bytes = NoBytes
<1>1. CASE Found(name) = {}
  BY <1>1 DEF ReadData, Answer, Good, ObjectInv, StreamFits
<1>2. CASE Found(name) # {}
  <2>1. PICK k \in DOMAIN index : k = FirstFound(name) /\ index[k].name = name
    BY <1>2, FirstIsFound DEF ObjectInv
  <2>2. PICK e : e = index[k]
    OBVIOUS
  <2>3. PICK a \in Answers(name, e, Segment(e)) : answer' = a
    BY <1>2, <2>1, <2>2 DEF ReadData
  <2>4. stream' = [stream EXCEPT !.failed = ~ ReadsWell(e)]
    BY <1>2, <2>1, <2>2 DEF ReadData
  <2>5. /\ stream' \in [open : BOOLEAN, failed : BOOLEAN] /\ stream'.open = stream.open
        /\ stream'.failed = ~ ReadsWell(e)
    BY <2>4 DEF ObjectInv, StreamFits, ReadsWell
  <2>6. CASE ReadsWell(e)
    <3>1. /\ a.name = name
          /\ \/ a.kind = "bytes" /\ AreOfInput(name, a.bytes)
             \/ a.kind = "threw" /\ arcC = "LZJB"
      BY <2>1, <2>2, <2>6, ReadIsRight
    <3>2. Good /\ Good'
      BY <2>5, <2>6 DEF ReadsWell, Good
    <3> QED
      BY <2>3, <2>5, <3>1, <3>2
  <2>7. CASE ~ ReadsWell(e)
    <3>1. a.name = name
      BY AnswersName
    <3>2. ~ Good'
      BY <2>5, <2>7 DEF Good
    <3>3. Good => ~ Intact
      BY <2>2, <2>7, ShortReadIsOfCutBundle
    <3> QED
      BY <2>3, <2>5, <3>1, <3>2, <3>3
  <2> QED
    BY <2>6, <2>7
<1> QED
  BY <1>1, <1>2
-----------------------------------------------------------------------------
(* The object. *)

LEMMA InputsStayNext ==
  ASSUME \A p \in Inputs : Exists(p) => Exists(p)' /\ disk'[p] = disk[p]
  PROVE  \A name, bytes : AreOfInput(name, bytes) => AreOfInput(name, bytes)'
BY DEF AreOfInput

\* A constructor that has ended does not go on.
LEMMA EndedStays ==
  ASSUME FileInv, Ended, [Next]_vars
  PROVE  Ended' /\ bundle' = bundle /\ (ctor' = ctor \/ ctor' = "terminated")
<1>1. CASE ~ Alive
  BY <1>1, DeadIsStill DEF vars, Ended
<1>2. CASE Constructor
  BY <1>2 DEF Ended, Constructor, At, Here, Dispatch, SpawnTask, DetachTask, LeaveThrottle,
     EndOfLoop, LeaveWait, Spin, CallTask, TaskReturns, RemoveTemps, SortTemps, SourceMissing,
     IndexNull, IndexFile, WriteHeader, CopyNull, CopyFile, CloseBundle
<1>3. ASSUME Alive, NEW t \in Tasks, CompressionTask(t)
      PROVE  Ended' /\ bundle' = bundle /\ (ctor' = ctor \/ ctor' = "terminated")
  <2>1. IInv /\ AtRest
    BY <1>3 DEF FileInv, CInv
  <2>2. ctor' = ctor \/ ctor' = "terminated"
    BY <1>3, <2>1, TasksThrowIntoLoop DEF Ended
  <2>3. bundle' = bundle
    BY <1>3, <2>1, TaskEffects DEF IInv
  <2> QED
    BY <2>2, <2>3 DEF Ended
<1>4. CASE EditInput \/ UNCHANGED vars
  BY <1>4 DEF EditInput, vars, Ended
<1> QED
  BY <1>1, <1>2, <1>3, <1>4 DEF Next, Finished

\* The constructor returns after the last copy, or from an empty file.
LEMMA ReturnSteps ==
  ASSUME CInv, Next, ctor' = "returned", ctor # "returned"
  PROVE  /\ IndexNull \/ CloseBundle
         /\ bundle' = bundle /\ filesInfo' = filesInfo /\ ~ Ended
<1>1. CASE Constructor
  BY <1>1 DEF Constructor, At, Here, Dispatch, SpawnTask, DetachTask, LeaveThrottle,
     EndOfLoop, LeaveWait, Spin, CallTask, TaskReturns, RemoveTemps, SortTemps, SourceMissing,
     IndexNull, IndexFile, WriteHeader, CopyNull, CopyFile, CloseBundle, vars, indexVars, Ended
<1>2. CASE \E t \in Tasks : CompressionTask(t)
  BY <1>2, TaskEffects DEF CInv, IInv
<1>3. CASE EditInput \/ Finished
  BY <1>3 DEF EditInput, Finished, vars
<1> QED
  BY <1>1, <1>2, <1>3 DEF Next

\* What is in the index of a bundle that has been written.
LEMMA InfoIsIndex == ASSUME MaxEdits = 0 PROVE CInv /\ Written => bundle.info = filesInfo
BY DEF CInv, PassesInv, Steady, Copying, Copied

LEMMA InfoIsIndexNext == ASSUME MaxEdits = 0 PROVE CInv' /\ Written' => (bundle.info = filesInfo)'
BY InfoIsIndex, PTL

\* The header of a bundle is in it.
LEMMA HeaderIsIn ==
  ASSUME MaxEdits = 0, FileInv, FileFits, [Next]_vars, FileInv'
  PROVE  (bundle # NoBundle => bundle.end >= HeaderLen)'
<1>1. CASE bundle' = bundle
  BY <1>1 DEF FileFits, HeaderLen
<1>2. CASE WriteHeader
  <2>1. bundle'.end = DataStart /\ bundle'.info = filesInfo' /\ DOMAIN filesInfo' = DOMAIN filesInfo
    BY <1>2 DEF WriteHeader
  <2>2. filesInfo' \in Seq(Entry) /\ filesInfo \in Seq(Entry)
    BY DEF FileInv, TypeOK
  <2>3. Len(bundle'.info) = Len(filesInfo) /\ Len(filesInfo) \in Nat
    BY <2>1, <2>2, LenProperties
  <2>4. PICK h : h = EntryBytes * Len(filesInfo)
    OBVIOUS
  <2>5. h \in Nat /\ InfoBytes \in Nat
    BY <2>3, <2>4, LayoutAssumption
  <2>6. DataStart = 3 + 4 + (InfoBytes + h) /\ HeaderLen' = 7 + InfoBytes + h
    BY <2>3, <2>4 DEF DataStart, headerLength, HeaderLen
  <2> QED
    BY <2>1, <2>5, <2>6
<1>3. CASE CopyFile
  <2>1. PICK c : c = disk[Source] /\ c \in Content
    BY <1>3 DEF CopyFile, FileInv, TypeOK, Exists
  <2>2. bundle'.info = bundle.info /\ bundle'.end = bundle.end + c.len /\ ctor = "copy"
    BY <1>3, <2>1 DEF CopyFile, Here
  <2>3. bundle # NoBundle
    BY <2>2 DEF FileInv, Alive, CInv, PassesInv, Steady, Copying, Copied, NoBundle
  <2>4. bundle.end >= HeaderLen /\ HeaderLen' = HeaderLen
    BY <2>2, <2>3 DEF FileFits, HeaderLen
  <2>5. bundle.end \in Nat /\ c.len \in Nat /\ Len(bundle.info) \in Nat
    BY <2>1, LenProperties DEF FileInv, TypeOK, Bundle, Content
  <2>6. EntryBytes * Len(bundle.info) \in Nat
    BY <2>5, LayoutAssumption
  <2>7. HeaderLen \in Int
    BY <2>6, LayoutAssumption DEF HeaderLen
  <2> QED
    BY <2>2, <2>4, <2>5, <2>7
<1>4. \/ bundle' = bundle \/ WriteHeader \/ CopyFile
  BY BundleSteps, DeadIsStill DEF FileInv, vars
<1> QED
  BY <1>1, <1>2, <1>3, <1>4

\* Once the constructor has ended, its file stays as it is.
LEMMA SettledIsSettled ==
  ASSUME FileFits, StreamFits, UNCHANGED <<ctor, bundle, fileLen, object, stream, extracting>>
  PROVE  FileFits' /\ StreamFits'
BY DEF FileFits, StreamFits, HeaderLen, Alive, Ended, Intact

LEMMA ObjectOfCreate ==
  ASSUME Apart, MaxEdits = 0, OInv, Create
  PROVE  ObjectInv'
<1>1. FileInv /\ ObjectInv /\ Next /\ FileFits /\ StreamFits /\ ExtractedFits
      /\ UNCHANGED <<extracting, extracted>>
  BY DEF OInv, Create, ObjectInv, callVars
<1>2. FileInv'
  BY <1>1, FileInvNext
<1>3. FileFits'
  <2>1. fileLen' \in 0..bundle'.end /\ (Alive' => fileLen' = bundle'.end)
    <3>1. CASE Alive
      <4>1. bundle'.end \in Nat /\ fileLen' = bundle'.end
        BY <1>2, <3>1 DEF FileInv, TypeOK, Bundle, Create, Alive
      <4> QED
        BY <4>1
    <3>2. CASE ~ Alive
      BY <1>1, <3>2, DeadIsStill DEF Create, Alive, FileFits, vars
    <3> QED
      BY <3>1, <3>2
  <2>2. (bundle # NoBundle => bundle.end >= HeaderLen)'
    BY <1>1, <1>2, HeaderIsIn
  <2> QED
    BY <2>1, <2>2 DEF FileFits
<1>4. \A name, bytes : AreOfInput(name, bytes) => AreOfInput(name, bytes)'
  BY <1>1, InputsStay, InputsStayNext
<1>5. CASE ctor' = "returned" /\ ctor # "returned"
  <2>1. Alive
    BY <1>1, <1>5, DeadIsStill DEF vars
  <2>2. bundle' = bundle /\ filesInfo' = filesInfo /\ ~ Ended
    BY <1>1, <1>5, <2>1, ReturnSteps DEF FileInv
  <2>3. object = "none" /\ extracting = 0 /\ ~ stream.open /\ ~ stream.failed
    BY <1>1, <2>2 DEF StreamFits
  <2>4. /\ object' = "live" /\ stream' = [stream EXCEPT !.open = bundle # NoBundle]
        /\ index' = filesInfo /\ Ended'
    BY <1>5 DEF Create, Ended
  <2>5. index' \in Seq(Entry)
    BY <1>1, <2>4 DEF FileInv, TypeOK
  <2>6. Good' => index' = bundle'.info
    <3> SUFFICES ASSUME Good' PROVE index' = bundle'.info
      OBVIOUS
    <3>1. bundle' # NoBundle
      BY <1>1, <2>2, <2>4 DEF Good, StreamFits
    <3>2. Written' /\ Alive'
      BY <1>5, <3>1 DEF Written, Alive
    <3> QED
      BY <1>2, <2>2, <2>4, <3>2, InfoIsIndexNext DEF FileInv
  <2>7. extracting' = 0
    BY <1>1, <2>3
  <2>8. stream' \in [open : BOOLEAN, failed : BOOLEAN] /\ ~ stream'.failed
    BY <1>1, <2>3, <2>4 DEF StreamFits
  <2>9. extracting' \in 0..Len(index')
    BY <2>5, <2>7, LenProperties
  <2>10. StreamFits'
    BY <2>4, <2>8 DEF StreamFits
  <2>11. ExtractedFits'
    BY <2>7 DEF ExtractedFits
  <2> QED
    BY <1>3, <2>5, <2>6, <2>9, <2>10, <2>11 DEF ObjectInv
<1>6. CASE ~ (ctor' = "returned" /\ ctor # "returned")
  <2>1. UNCHANGED <<object, stream, index>> /\ (Good' <=> Good)
    BY <1>6 DEF Create, objectVars, Good
  <2>2. CASE Ended
    <3>1. Ended' /\ bundle' = bundle /\ (ctor' = ctor \/ ctor' = "terminated")
      BY <1>1, <2>2, EndedStays
    <3>2. fileLen' = fileLen
      BY <1>1, <3>1 DEF Create, FileFits, Alive
    <3>3. StreamFits'
      BY <1>1, <2>1, <3>1, <3>2 DEF StreamFits, Intact
    <3> QED
      BY <1>1, <1>3, <1>4, <2>1, <3>1, <3>3 DEF ObjectInv, ExtractedFits
  <2>3. CASE ~ Ended
    <3>1. object = "none" /\ ~ stream.open /\ extracting = 0 /\ ~ stream.failed
      BY <1>1, <2>3 DEF StreamFits
    <3>2. StreamFits' /\ ExtractedFits'
      BY <1>1, <2>1, <3>1 DEF StreamFits, ExtractedFits
    <3> QED
      BY <1>1, <1>3, <2>1, <3>1, <3>2 DEF ObjectInv, Good
  <2> QED
    BY <2>2, <2>3
<1> QED
  BY <1>5, <1>6

\* The steps that read nothing.
LEMMA ObjectOfOthers ==
  ASSUME OInv, Crash \/ Open \/ OpenCutHeader \/ CallExtract \/ DirectoryFails \/ Close
  PROVE  ObjectInv'
<1>1. FileInv /\ ObjectInv /\ FileFits /\ StreamFits /\ ExtractedFits
  BY DEF OInv, ObjectInv
<1>2. CASE Crash
  <2>1. UNCHANGED <<settings, disk, bundle, object, stream, index, extracting, extracted>>
    BY <1>2 DEF Crash, objectVars, callVars
  <2>2. Ended' /\ ~ Alive' /\ fileLen' \in 0..bundle'.end /\ ~ Ended
    BY <1>2, <2>1 DEF Crash, Ended, Alive
  <2>3. object = "none" /\ ~ stream.open /\ extracting = 0 /\ ~ stream.failed
    BY <1>1, <2>2 DEF StreamFits
  <2>4. FileFits'
    BY <1>1, <2>1, <2>2 DEF FileFits, HeaderLen
  <2>5. StreamFits' /\ ExtractedFits'
    BY <1>1, <2>1, <2>3 DEF StreamFits, ExtractedFits
  <2> QED
    BY <1>1, <2>1, <2>3, <2>4, <2>5 DEF ObjectInv, Good
<1>3. CASE ~ Crash
  <2>1. UNCHANGED <<disk, ctor, bundle, fileLen>>
    BY <1>3 DEF Open, OpenCutHeader, CallExtract, DirectoryFails, Close, vars
  <2>2. \A name, bytes : AreOfInput(name, bytes) => AreOfInput(name, bytes)'
    BY <2>1, InputsStayNext DEF Exists
  <2>3. (Ended' <=> Ended) /\ FileFits' /\ (Intact' <=> Intact)
    BY <1>1, <2>1 DEF Ended, FileFits, HeaderLen, Alive, Intact
  <2>4. CASE Open
    <3>1. /\ Ended /\ object' = "live" /\ stream' = [open |-> TRUE, failed |-> FALSE]
          /\ index' = bundle.info /\ extracting' = 0
      BY <2>4 DEF Open, CanOpen
    <3>2. bundle.info \in Seq(Entry) /\ Len(bundle.info) \in Nat
      BY <1>1, LenProperties DEF FileInv, TypeOK, Bundle
    <3>3. StreamFits' /\ ExtractedFits'
      BY <2>3, <3>1 DEF StreamFits, ExtractedFits
    <3> QED
      BY <2>1, <2>3, <3>1, <3>2, <3>3 DEF ObjectInv
  <2>5. CASE OpenCutHeader
    <3>1. Ended /\ extracting' = 0 /\ extracting = 0 /\ bundle # NoBundle /\ fileLen < HeaderLen
      BY <2>5 DEF OpenCutHeader, CanOpen
    <3>2. CASE UNCHANGED objectVars
      <4>1. UNCHANGED <<object, stream, index>> /\ (Good' <=> Good)
        BY <3>2 DEF objectVars, Good
      <4>2. StreamFits' /\ ExtractedFits'
        BY <1>1, <2>3, <3>1, <4>1 DEF StreamFits, ExtractedFits
      <4> QED
        BY <1>1, <2>1, <2>3, <3>1, <4>1, <4>2 DEF ObjectInv
    <3>3. CASE ~ UNCHANGED objectVars
      <4>1. PICK e : \E name \in AskedNames :
              /\ e = [name |-> name, uncompressedSize |-> 1, startPosition |-> 0,
                      compressedSize |-> 1, crc32hash |-> <<>>]
              /\ object' = "live" /\ stream' = [open |-> TRUE, failed |-> TRUE] /\ index' = <<e>>
        BY <2>5, <3>3 DEF OpenCutHeader
      <4>2. e \in Entry
        BY <4>1, AskedAssumption, EmptySeq DEF Entry
      <4>3. index' \in Seq(Entry) /\ Len(index') \in Nat
        BY <4>1, <4>2, LenProperties
      <4>4. ~ Good'
        BY <4>1 DEF Good
      <4>5. ~ Intact
        <5>1. bundle.end \in Nat /\ Len(bundle.info) \in Nat /\ bundle.end >= HeaderLen
          BY <1>1, <3>1, LenProperties DEF FileInv, TypeOK, Bundle, FileFits
        <5>2. EntryBytes * Len(bundle.info) \in Nat
          BY <5>1, LayoutAssumption
        <5>3. HeaderLen \in Int
          BY <5>2, LayoutAssumption DEF HeaderLen
        <5>4. fileLen # bundle.end
          BY <3>1, <5>1, <5>3
        <5> QED
          BY <5>4 DEF Intact
      <4>6. StreamFits' /\ ExtractedFits'
        BY <2>3, <3>1, <4>1, <4>5 DEF StreamFits, ExtractedFits
      <4> QED
        BY <2>3, <3>1, <4>3, <4>4, <4>6 DEF ObjectInv
    <3> QED
      BY <3>2, <3>3
  <2>6. CASE CallExtract
    <3>1. UNCHANGED <<object, stream, index>> /\ object # "none"
      BY <2>6 DEF CallExtract, objectVars, Idle, Usable
    <3>2. extracting' = IF index = <<>> THEN 0 ELSE 1
      BY <2>6 DEF CallExtract
    <3>3. extracting' \in 0..Len(index) /\ 1..(extracting' - 1) = {}
      BY <1>1, <3>2, LenProperties, EmptySeq DEF ObjectInv
    <3>4. ExtractedFits'
      BY <3>3, Zenon DEF ExtractedFits
    <3>5. Good' <=> Good
      BY <3>1 DEF Good
    <3>6. StreamFits'
      BY <1>1, <2>3, <3>1 DEF StreamFits
    <3> QED
      BY <1>1, <2>1, <2>3, <3>1, <3>3, <3>4, <3>5, <3>6 DEF ObjectInv
  <2>7. CASE DirectoryFails
    <3>1. UNCHANGED <<object, stream, index>> /\ extracting' = 0
      BY <2>7 DEF DirectoryFails, objectVars
    <3>2. extracting' \in 0..Len(index)
      BY <1>1, <3>1, LenProperties DEF ObjectInv
    <3>3. StreamFits' /\ ExtractedFits'
      BY <1>1, <2>3, <3>1 DEF StreamFits, ExtractedFits
    <3> QED
      BY <1>1, <2>1, <2>3, <3>1, <3>2, <3>3 DEF ObjectInv, Good
  <2>8. CASE Close
    <3>1. /\ UNCHANGED index /\ extracting = 0 /\ extracting' = 0
          /\ object = "live" /\ object' = "closed"
          /\ stream' = [open |-> FALSE, failed |-> stream.failed \/ ~ stream.open]
      BY <2>8 DEF Close, callVars
    <3>2. ~ Good' /\ stream' \in [open : BOOLEAN, failed : BOOLEAN]
      BY <1>1, <3>1 DEF Good, StreamFits
    <3>3. StreamFits' /\ ExtractedFits'
      BY <1>1, <2>3, <3>1, <3>2 DEF StreamFits, ExtractedFits
    <3> QED
      BY <1>1, <2>3, <3>1, <3>2, <3>3 DEF ObjectInv
  <2> QED
    BY <1>3, <2>4, <2>5, <2>6, <2>7, <2>8
<1> QED
  BY <1>2, <1>3

\* A read keeps what is known of the stream.
LEMMA StreamOfRead ==
  ASSUME FileInv, ObjectInv, NEW name, ReadData(name), UNCHANGED <<ctor, bundle, fileLen>>,
         object # "none", object' # "none"
  PROVE  FileFits' /\ StreamFits'
<1>1. FileFits /\ StreamFits /\ (Ended' <=> Ended) /\ (Intact' <=> Intact)
  BY DEF ObjectInv, Ended, Intact
<1>2. /\ stream' \in [open : BOOLEAN, failed : BOOLEAN] /\ stream'.open = stream.open
      /\ Good /\ ~ Good' => ~ Intact
  BY ReadEffects
<1>3. FileFits'
  BY <1>1 DEF FileFits, HeaderLen, Alive
<1>4. StreamFits'
  BY <1>1, <1>2 DEF StreamFits, Good
<1> QED
  BY <1>3, <1>4

LEMMA ObjectOfReads ==
  ASSUME OInv, ExtractFile \/ \E name \in AskedNames : CallReadData(name)
  PROVE  ObjectInv'
<1>1. FileInv /\ ObjectInv
  BY DEF OInv
<1>2. UNCHANGED <<disk, ctor, bundle, fileLen, index>>
  BY DEF ExtractFile, CallReadData, vars
<1>3. \A name, bytes : AreOfInput(name, bytes) => AreOfInput(name, bytes)'
  BY <1>2, InputsStayNext DEF Exists
<1>4. object # "none" /\ object' # "none"
  BY DEF ExtractFile, CallReadData, Idle, Usable
<1>5. CASE \E name \in AskedNames : CallReadData(name)
  <2>1. PICK name \in AskedNames : CallReadData(name)
    BY <1>5
  <2>2. ReadData(name) /\ extracting = 0 /\ extracting' = 0
    BY <2>1 DEF CallReadData, Idle
  <2>3. (Good' => Good) /\ FileFits' /\ StreamFits'
    BY <1>1, <1>2, <1>4, <2>2, ReadEffects, StreamOfRead
  <2>4. ExtractedFits'
    BY <2>2 DEF ExtractedFits
  <2> QED
    BY <1>1, <1>2, <2>2, <2>3, <2>4 DEF ObjectInv
<1>6. CASE ExtractFile
  <2>1. PICK name : name = index[extracting].name
    OBVIOUS
  <2>2. ReadData(name) /\ extracting > 0 /\ extracting \in 1..Len(index) /\ Len(index) \in Nat
    BY <1>1, <1>6, <2>1, LenProperties DEF ExtractFile, ObjectInv
  <2>3. answer'.name = name /\ (Good' => Good) /\ FileFits' /\ StreamFits'
    BY <1>1, <1>2, <1>4, <2>2, ReadEffects, StreamOfRead
  <2>4. Good' /\ answer'.kind \in {"bytes", "null"} => AreOfInput(name, answer'.bytes)
    BY <1>1, <2>2, ReadEffects
  <2>5. \/ extracting' = 0
        \/ /\ answer'.kind \in {"bytes", "null"}
           /\ extracted' = [n \in DOMAIN extracted \cup {name} |->
                              IF n = name THEN answer'.bytes ELSE extracted[n]]
           /\ extracting' = IF extracting = Len(index) THEN 0 ELSE extracting + 1
    BY <1>6, <2>3 DEF ExtractFile
  <2>6. extracting' \in 0..Len(index)
    BY <2>2, <2>5
  <2>7. ASSUME NEW k \in 1..(extracting' - 1)
        PROVE  /\ index[k].name \in DOMAIN extracted'
               /\ Good' => AreOfInput(index[k].name, extracted'[index[k].name])
    <3>1. extracting' = extracting + 1 /\ answer'.kind \in {"bytes", "null"}
      BY <2>2, <2>5, <2>7
    <3>2. extracted' = [n \in DOMAIN extracted \cup {name} |->
                              IF n = name THEN answer'.bytes ELSE extracted[n]]
      BY <2>2, <2>5, <3>1
    <3>3. CASE index[k].name = name
      BY <2>4, <3>1, <3>2, <3>3
    <3>4. CASE index[k].name # name
      <4>1. k \in 1..(extracting - 1)
        BY <2>1, <2>2, <2>7, <3>1, <3>4
      <4>2. /\ index[k].name \in DOMAIN extracted
            /\ Good => AreOfInput(index[k].name, extracted[index[k].name])
        BY <1>1, <4>1 DEF ObjectInv, ExtractedFits
      <4> QED
        BY <2>3, <3>2, <3>4, <4>2
    <3> QED
      BY <3>3, <3>4
  <2>8. ExtractedFits'
    BY <1>2, <1>3, <2>7 DEF ExtractedFits
  <2>9. Good' => index' = bundle'.info
    BY <1>1, <1>2, <2>3 DEF ObjectInv
  <2> QED
    BY <1>1, <1>2, <2>3, <2>6, <2>8, <2>9 DEF ObjectInv
<1> QED
  BY <1>5, <1>6

-----------------------------------------------------------------------------
(* The theorems on the object. The hypotheses are those on the contents.   *)

LEMMA AllInitOInv == ASSUME Apart, MaxEdits = 0, AllInit PROVE OInv
<1>1. FileInv
  BY FileInvInit DEF AllInit
<1>2. bundle = NoBundle /\ index = <<>> /\ extracting = 0 /\ fileLen = 0 /\ object = "none"
      /\ stream = [open |-> FALSE, failed |-> FALSE]
  BY DEF AllInit, Init
<1>3. bundle.end = 0 /\ index \in Seq(Entry) /\ Len(index) = 0
  BY <1>2, EmptySeq DEF NoBundle
<1>4. ObjectInv
  BY <1>2, <1>3 DEF ObjectInv, FileFits, StreamFits, ExtractedFits, Good
<1> QED
  BY <1>1, <1>4 DEF OInv

LEMMA AllNextOInv == ASSUME Apart, MaxEdits = 0, OInv, [AllNext]_allVars PROVE OInv'
<1>1. CASE Create
  BY <1>1, ObjectOfCreate, FileInvNext DEF OInv, Create
<1>2. CASE Crash
  BY <1>2, ObjectOfOthers, FileInvCrash DEF OInv, Crash
<1>3. CASE Open \/ OpenCutHeader \/ CallExtract \/ DirectoryFails \/ Close
  <2>1. UNCHANGED vars
    BY <1>3 DEF Open, OpenCutHeader, CallExtract, DirectoryFails, Close
  <2> QED
    BY <1>3, <2>1, ObjectOfOthers, FileInvNext DEF OInv
<1>4. CASE ExtractFile \/ \E name \in AskedNames : CallReadData(name)
  <2>1. UNCHANGED vars
    BY <1>4 DEF ExtractFile, CallReadData
  <2> QED
    BY <1>4, <2>1, ObjectOfReads, FileInvNext DEF OInv
<1>5. CASE UNCHANGED allVars
  <2>1. UNCHANGED vars
    BY <1>5 DEF allVars
  <2>2. FileInv'
    BY <2>1, FileInvNext DEF OInv
  <2>3. UNCHANGED <<disk, ctor, bundle, object, stream, index, fileLen, extracting, extracted>>
    BY <1>5 DEF allVars, vars, objectVars, callVars
  <2>4. ObjectInv'
    BY <2>3, SettledIsSettled, InputsStayNext DEF OInv, ObjectInv, ExtractedFits, Good, Exists
  <2> QED
    BY <2>2, <2>4 DEF OInv
<1> QED
  BY <1>1, <1>2, <1>3, <1>4, <1>5 DEF AllNext

\* OInv is an inductive invariant of the constructor, the crash and the calls.
THEOREM BundleInvariance == ASSUME Apart, MaxEdits = 0 PROVE AllSpec => []OInv
<1>1. AllInit => OInv
  BY AllInitOInv
<1>2. OInv /\ [AllNext]_allVars => OInv'
  BY AllNextOInv
<1> QED
  BY <1>1, <1>2, PTL DEF AllSpec

\* A file whose bytes are on the disk is read whole, as long as every read
\* before it was.
LEMMA WholeStaysGood ==
  ASSUME OInv, NEW name, ReadData(name), Good, WholeOnDisk(name)
  PROVE  Good' /\ Found(name) # {}
<1>1. FileInv /\ ObjectInv /\ index = bundle.info /\ bundle \in Bundle /\ index \in Seq(Entry)
  BY DEF OInv, ObjectInv, FileInv, TypeOK
<1>2. PICK k \in DOMAIN bundle.data :
         /\ getRelative(bundle.data[k].bytes.of) = name
         /\ bundle.data[k].at + bundle.data[k].bytes.len <= fileLen
  BY DEF WholeOnDisk
<1>3. /\ k \in DOMAIN index /\ index[k].name = name
      /\ index[k].startPosition + index[k].compressedSize <= fileLen
  <2>1. k \in DOMAIN index
    BY <1>1, LenProperties DEF FileInv, BundleOK, Bundle
  <2> QED
    BY <1>1, <1>2, <2>1 DEF FileInv, BundleOK, Describes
<1>4. Found(name) # {} /\ k \in Found(name)
  BY <1>3 DEF Found
<1>5. PICK j \in DOMAIN index : j = FirstFound(name) /\ j <= k /\ index[j].name = name
  BY <1>1, <1>4, FirstIsFound
<1>6. index[j] \in Entry /\ index[k] \in Entry /\ j \in Nat /\ k \in Nat /\ fileLen \in Nat
  BY <1>1, <1>3, ElementOfSeq, LenProperties DEF ObjectInv, FileFits, Bundle
<1>7. index[j].startPosition + index[j].compressedSize <= fileLen
  <2>1. j < k => EndOfEntry(index[j]) <= index[k].startPosition
    BY <1>1, <1>3 DEF FileInv, BundleOK, Rising
  <2>2. /\ index[j].startPosition \in Nat /\ index[j].compressedSize \in Nat
        /\ index[k].startPosition \in Nat /\ index[k].compressedSize \in Nat
    BY <1>6 DEF Entry
  <2>3. CASE j = k
    BY <1>3, <2>3
  <2>4. CASE j < k
    BY <1>3, <1>6, <2>1, <2>2, <2>4 DEF EndOfEntry
  <2> QED
    BY <1>5, <1>6, <2>3, <2>4
<1>8. PICK e : e = index[j]
  OBVIOUS
<1>9. ReadsWell(e)
  BY <1>7, <1>8 DEF ReadsWell, Good
<1>10. stream' = [stream EXCEPT !.failed = FALSE]
  BY <1>4, <1>5, <1>8, <1>9 DEF ReadData
<1>11. Good'
  BY <1>1, <1>10 DEF Good, ObjectInv, StreamFits
<1> QED
  BY <1>4, <1>11

LEMMA WrongReads ==
  ASSUME OInv, NEW name, ReadData(name), answer'.kind = "bytes",
         ~ AreOfInput(answer'.name, answer'.bytes), stream.open
  PROVE  ~ Intact /\ (stream.failed \/ ~ WholeOnDisk(answer'.name))
<1>1. FileInv /\ ObjectInv /\ StreamFits
  BY DEF OInv, ObjectInv
<1>2. answer'.name = name /\ ~ Good' /\ (Good /\ ~ Good' => ~ Intact)
  BY <1>1, ReadEffects
<1>3. ~ Intact
  BY <1>1, <1>2 DEF StreamFits, Good
<1>4. stream.failed \/ ~ WholeOnDisk(name)
  BY <1>2, WholeStaysGood DEF Good
<1> QED
  BY <1>2, <1>3, <1>4

\* Bytes that a read gives as those of a file are the bytes of that input, in
\* any order of calls, unless the stream is not open or the bundle is cut off;
\* and then they are wrong only for a file that is not whole on the disk, and
\* from the first read on that came up short.
THEOREM ReadsAreOfInputs ==
  ASSUME Apart, MaxEdits = 0 PROVE AllSpec => GivesWhatWasPacked
<1>1. OInv /\ [AllNext]_allVars =>
        [/\ ExtractFile \/ \E name \in AskedNames : CallReadData(name)
         /\ answer'.kind = "bytes" /\ ~ AreOfInput(answer'.name, answer'.bytes)
         => \/ ~ stream.open
            \/ ~ Intact /\ (stream.failed \/ ~ WholeOnDisk(answer'.name))]_allVars
  <2> SUFFICES ASSUME OInv, ExtractFile \/ \E name \in AskedNames : CallReadData(name),
                      answer'.kind = "bytes", ~ AreOfInput(answer'.name, answer'.bytes),
                      stream.open
               PROVE  ~ Intact /\ (stream.failed \/ ~ WholeOnDisk(answer'.name))
    OBVIOUS
  <2>1. PICK name : ReadData(name)
    BY DEF ExtractFile, CallReadData
  <2> QED
    BY <2>1, WrongReads
<1> QED
  BY <1>1, BundleInvariance, PTL DEF AllSpec, GivesWhatWasPacked

LEMMA WholeReads ==
  ASSUME OInv, NEW name \in AskedNames, CallReadData(name), Good, arcC # "LZJB",
         WholeOnDisk(name)
  PROVE  answer'.kind = "bytes" /\ AreOfInput(name, answer'.bytes)
<1>1. ReadData(name) /\ FileInv /\ ObjectInv
  BY DEF CallReadData, OInv
<1>2. Good' /\ Found(name) # {}
  BY <1>1, WholeStaysGood
<1> QED
  BY <1>1, <1>2, ReadEffects

\* A file whose bytes are on the disk can be read, also from a bundle that a
\* crash has cut off behind it.
THEOREM WholeFilesAreRead == ASSUME Apart, MaxEdits = 0 PROVE AllSpec => WholeIsReadable
<1>1. OInv /\ [AllNext]_allVars =>
        [\A name \in AskedNames :
           /\ CallReadData(name)
           /\ stream.open /\ ~ stream.failed /\ arcC # "LZJB"
           /\ WholeOnDisk(name)
           => answer'.kind = "bytes" /\ AreOfInput(name, answer'.bytes)]_allVars
  BY WholeReads DEF Good
<1> QED
  BY <1>1, BundleInvariance, PTL DEF AllSpec, WholeIsReadable

LEMMA LastExtracted ==
  ASSUME OInv, ExtractFile, extracting = Len(index), answer'.kind # "threw", object' # "exited",
         NEW k \in DOMAIN index
  PROVE  /\ index[k].name \in DOMAIN extracted'
         /\ stream.open /\ Intact => AreOfInput(index[k].name, extracted'[index[k].name])
<1>1. FileInv /\ ObjectInv /\ StreamFits
  BY DEF OInv, ObjectInv
<1>2. PICK name : name = index[extracting].name
  OBVIOUS
<1>3. ReadData(name) /\ DOMAIN index = 1..Len(index) /\ Len(index) \in Nat /\ extracting \in Nat
  BY <1>1, <1>2, LenProperties DEF ExtractFile, ObjectInv
<1>4. answer'.name = name /\ answer'.kind \in {"bytes", "null"}
  BY <1>1, <1>3, ReadEffects DEF ExtractFile
<1>5. extracted' = [n \in DOMAIN extracted \cup {name} |->
                      IF n = name THEN answer'.bytes ELSE extracted[n]]
  BY <1>4 DEF ExtractFile
<1>6. stream.open /\ Intact => Good /\ AreOfInput(name, answer'.bytes)
  BY <1>1, <1>3, <1>4, ReadEffects DEF StreamFits, Good
<1>7. CASE index[k].name = name
  BY <1>5, <1>6, <1>7
<1>8. CASE index[k].name # name
  <2>1. k \in 1..(extracting - 1)
    BY <1>2, <1>3, <1>8
  <2>2. /\ index[k].name \in DOMAIN extracted
        /\ Good => AreOfInput(index[k].name, extracted[index[k].name])
    BY <1>1, <2>1 DEF ObjectInv, ExtractedFits
  <2> QED
    BY <1>5, <1>6, <1>8, <2>2
<1> QED
  BY <1>7, <1>8

\* An extraction that goes through its last file has written every file of the
\* index, and of a bundle that is open and not cut off each with the bytes of
\* its input.
THEOREM ExtractionsAreWhole == ASSUME Apart, MaxEdits = 0 PROVE AllSpec => ExtractionComplete
<1>1. OInv /\ [AllNext]_allVars =>
        [/\ ExtractFile
         /\ extracting = Len(index) /\ answer'.kind # "threw" /\ object' # "exited"
         => \A k \in DOMAIN index :
               /\ index[k].name \in DOMAIN extracted'
               /\ stream.open /\ Intact => AreOfInput(index[k].name, extracted'[index[k].name])
        ]_allVars
  BY LastExtracted
<1> QED
  BY <1>1, BundleInvariance, PTL DEF AllSpec, ExtractionComplete
-----------------------------------------------------------------------------
(* The refinement.  Where nothing goes wrong, a bundle is an Archive: no   *)
(* input and no packed file is empty, no type is one whose packed form is  *)
(* never read back, and no two inputs have the same name seen from         *)
(* RelativeTo.                                                             *)
Plain ==
    /\ Apart /\ MaxEdits = 0 /\ Mishaps = {}
    /\ 0 \notin Sizes \cup PackedSizes /\ "LZJB" \notin CompTypes
    /\ \A p, q \in Inputs : getRelative(p) = getRelative(q) => p = q

(* What follows: no task passes over its file and none makes an empty one, *)
(* a bundle once begun is brought to its end, and no read fails.           *)
NothingEmpty ==
    /\ arcC # "LZJB"
    /\ \A p \in Inputs : Exists(p) => disk[p].len \in Sizes
    /\ \A t \in Tasks : /\ pc[t] # "skipped"
                        /\ pc[t] \in {"create", "write"} \cup Whole => out[t].len # 0
BegunIsFinished ==
    /\ bundle # NoBundle <=> ctor \in {"copy", "returned"}
    /\ fileLen = bundle.end
NoReadFails ==
    /\ object \in {"none", "live", "closed"}
    /\ object = "none" => ~ stream.failed
    /\ object = "live" => Written /\ Good
    /\ extracting > 0 => object = "live"
PlainInv == OInv /\ NothingEmpty /\ BegunIsFinished /\ NoReadFails

\* No step makes an input that was not there.
LEMMA InputsAppearNever ==
  ASSUME Apart, MaxEdits = 0, FileInv, [Next]_vars, NEW p \in Inputs, Exists(p)'
  PROVE  Exists(p) /\ disk'[p] = disk[p]
<1>1. CASE ~ Alive
  BY <1>1, DeadIsStill DEF vars, Exists
<1>2. CASE Alive
  <2>1. CInv /\ IInv /\ AtRest /\ VectorInv /\ TypeOK
    BY <1>2 DEF FileInv, CInv
  <2>2. CASE Constructor
    BY <2>1, <2>2, ConstructorDeletes DEF Exists
  <2>3. CASE \E t \in Tasks : CompressionTask(t)
    BY <2>1, <2>3, TasksKeepInputs
  <2>4. CASE EditInput
    BY <2>1, <2>4 DEF EditInput, TypeOK
  <2>5. CASE UNCHANGED vars
    BY <2>5 DEF vars, Exists
  <2> QED
    BY <2>2, <2>3, <2>4, <2>5 DEF Next, Finished
<1> QED
  BY <1>1, <1>2

LEMMA NothingEmptyNext ==
  ASSUME Plain, FileInv, NothingEmpty, [Next]_vars
  PROVE  NothingEmpty'
<1>1. Apart /\ MaxEdits = 0 /\ 0 \notin Sizes /\ 0 \notin PackedSizes
  BY DEF Plain
<1>2. arcC' # "LZJB"
  BY <1>1, InputsStay DEF NothingEmpty
<1>3. \A p \in Inputs : Exists(p)' => disk'[p].len \in Sizes
  BY <1>1, InputsAppearNever DEF NothingEmpty
<1>4. ASSUME NEW t \in Tasks
      PROVE  /\ pc'[t] # "skipped"
             /\ pc'[t] \in {"create", "write"} \cup Whole => out'[t].len # 0
  <2>1. CASE ~ Alive
    BY <2>1, DeadIsStill DEF vars, taskVars, NothingEmpty
  <2>2. CASE Alive /\ Constructor
    <3>1. out' = out /\ (pc'[t] = pc[t] \/ pc'[t] = "start")
      BY <2>2, ConstructorStarts DEF FileInv, CInv
    <3> QED
      BY <3>1 DEF NothingEmpty, Whole, Settled
  <2>3. CASE Alive /\ \E u \in Tasks : CompressionTask(u)
    <3>1. PICK u \in Tasks : CompressionTask(u)
      BY <2>3
    <3>2. TypeOK /\ CInv
      BY <2>3 DEF FileInv
    <3>3. CASE u # t
      BY <3>1, <3>2, <3>3, TaskEffects DEF NothingEmpty
    <3>4. CASE u = t /\ CompressFile(t)
      <4>1. pc[t] = "compress" /\ pc'[t] = "create"
        BY <3>2, <3>4 DEF CompressFile, Step, TypeOK
      <4>2. Exists(InFiles[t]) /\ disk[InFiles[t]].len = size[t] /\ InFiles[t] \in Inputs
        BY <1>1, <3>2, <4>1 DEF CInv, FilesInv, MadeOfInputs, Sized, Inputs
      <4>3. PICK c, d : c = disk[InFiles[t]] /\ d \in Compressions(c) /\ out' = [out EXCEPT ![t] = d]
        BY <3>4, <4>2 DEF CompressFile
      <4>4. out'[t] = d
        BY <3>2, <4>3 DEF TypeOK
      <4>5. c.len # 0
        BY <1>1, <4>2, <4>3 DEF NothingEmpty
      <4>6. \A n : Packed(c, n).len = n
        BY DEF Packed
      <4>7. d = c \/ \E n \in PackedSizes : d = Packed(c, n)
        BY <4>3, Zenon DEF Compressions
      <4> QED
        BY <1>1, <4>1, <4>4, <4>5, <4>6, <4>7
    <3>5. CASE u = t /\ OpenNull(t)
      <4>1. InFiles[t] \in Inputs /\ Exists(InFiles[t]) /\ disk[InFiles[t]].len = 0
        BY <3>5 DEF OpenNull, Inputs
      <4> QED
        BY <1>1, <4>1 DEF NothingEmpty
    <3>6. CASE u = t /\ ~ CompressFile(t) /\ ~ OpenNull(t)
      <4>1. /\ pc'[t] # "skipped" /\ out'[t] = out[t]
            /\ pc'[t] \in {"create", "write"} \cup Whole => pc[t] \in {"create", "write"} \cup Whole
        BY <3>1, <3>2, <3>6, TaskEffects DEF Silent, OpenFile, CreateTemp, WriteTemp,
           PushTemp, Step, Whole, Settled, TypeOK
      <4> QED
        BY <4>1 DEF NothingEmpty
    <3> QED
      BY <3>3, <3>4, <3>5, <3>6
  <2>4. CASE EditInput \/ UNCHANGED vars
    BY <2>4 DEF EditInput, vars, taskVars, NothingEmpty
  <2> QED
    BY <2>1, <2>2, <2>3, <2>4 DEF Next, Finished
<1> QED
  BY <1>2, <1>3, <1>4 DEF NothingEmpty

\* Every file the passes read has bytes in it.
LEMMA SourcesHaveBytes ==
  ASSUME Plain, CInv, NothingEmpty, NEW k \in 1..Len(Sources), Exists(Sources[k])
  PROVE  disk[Sources[k]].len # 0
<1>1. Apart /\ TypeOK /\ VectorInv /\ FilesInv /\ 0 \notin Sizes
  BY DEF Plain, CInv, IInv
<1>2. CASE Compressed
  <2>1. PICK t \in Pushed : Sources[k] = fpath(t) /\ pc[t] \in Whole
    BY <1>1, <1>2, SourcesAreTemps
  <2>2. t \in Tasks
    BY PushedIsFinite
  <2>3. disk[fpath(t)] = out[t] /\ out[t].len # 0
    BY <2>1, <2>2 DEF CInv, FilesInv, TempsAreWhole, NothingEmpty
  <2> QED
    BY <2>1, <2>3
<1>3. CASE ~ Compressed
  <2>1. Sources[k] \in Inputs
    BY <1>3 DEF Sources, Compressed, Inputs, Tasks, argslen
  <2> QED
    BY <1>1, <2>1 DEF NothingEmpty
<1> QED
  BY <1>2, <1>3

\* The constructor writes its bundle to the end once it has begun.
LEMMA BegunNext ==
  ASSUME Plain, FileInv, NothingEmpty, [Next]_vars,
         bundle # NoBundle <=> ctor \in {"copy", "returned"}
  PROVE  /\ bundle' # NoBundle <=> ctor' \in {"copy", "returned"}
         /\ ctor = "returned" => ctor' = "returned"
<1>1. Apart /\ MaxEdits = 0
  BY DEF Plain
<1>2. CASE ~ Alive
  BY <1>2, DeadIsStill DEF vars
<1>3. CASE Alive
  <2>1. CInv /\ IInv /\ AtRest /\ TypeOK /\ PassesInv /\ Steady /\ VectorInv /\ FilesInv
    BY <1>1, <1>3 DEF FileInv, CInv, Steady
  <2>2. CASE \E t \in Tasks : CompressionTask(t)
    <3>1. PICK t \in Tasks : CompressionTask(t)
      BY <2>2
    <3>2. bundle' = bundle
      BY <2>1, <3>1, TaskEffects
    <3>3. CASE ctor \in {"copy", "returned"}
      <4>1. ctor' = ctor
        BY <2>1, <3>1, <3>3, QuietTasks DEF PastWait
      <4> QED
        BY <3>2, <4>1
    <3>4. CASE ctor \notin {"copy", "returned"}
      <4>1. ctor' \notin {"copy", "returned"}
        BY <2>1, <3>1, <3>4, TaskEffects
      <4> QED
        BY <3>2, <3>4, <4>1
    <3> QED
      BY <3>3, <3>4
  <2>3. CASE WriteHeader
    <3>1. bundle'.end = DataStart /\ ctor' = "copy" /\ ctor = "index"
      BY <2>3 DEF WriteHeader
    <3>2. DataStart \in Nat /\ DataStart > 0
      BY <2>1, DataStartTyped
    <3> QED
      BY <3>1, <3>2 DEF NoBundle
  <2>4. CASE CopyFile
    <3>1. ctor = "copy" /\ ctor' = "copy"
      BY <2>4 DEF CopyFile, Here
    <3>2. /\ bundle'.end = bundle.end + disk[Source].len /\ bundle.end \in Nat /\ bundle.end > 0
          /\ disk[Source].len \in Nat
      <4>1. bundle.end > 0
        BY <2>1, <3>1 DEF PassesInv, Copied, Copying
      <4>2. disk[Source] \in Content
        BY <2>1, <2>4 DEF TypeOK, CopyFile, Exists
      <4> QED
        BY <2>1, <2>4, <4>1, <4>2 DEF CopyFile, TypeOK, Bundle, Content
    <3>3. bundle'.end # 0
      BY <3>2
    <3> QED
      BY <3>1, <3>3 DEF NoBundle
  <2>5. CASE IndexNull
    <3>1. i + 1 \in 1..Len(Sources) /\ Exists(Sources[i + 1]) /\ disk[Sources[i + 1]].len = 0
      BY <2>1, <2>5, SourcesTyped DEF IndexNull, Here, Source
    <3> QED
      BY <2>1, <3>1, SourcesHaveBytes
  <2>6. CASE SourceMissing
    <3>1. CASE ctor = "copy"
      <4>1. i + 1 \in 1..Len(Sources) /\ i + 1 > i /\ ~ Exists(Sources[i + 1])
        BY <2>1, <2>6, SourcesTyped DEF SourceMissing, Here, Source
      <4> QED
        BY <2>1, <3>1, <4>1 DEF PassesInv, Copied, Copying
    <3>2. CASE ctor # "copy"
      BY <2>6, <3>2 DEF SourceMissing, Here
    <3> QED
      BY <3>1, <3>2
  <2>7. CASE Constructor /\ ~ (WriteHeader \/ CopyFile \/ IndexNull \/ SourceMissing)
    BY <2>7 DEF Constructor, At, Here, Dispatch, SpawnTask, DetachTask, LeaveThrottle,
       EndOfLoop, LeaveWait, Spin, CallTask, TaskReturns, RemoveTemps, SortTemps,
       IndexFile, CopyNull, CloseBundle, vars
  <2>8. CASE EditInput \/ UNCHANGED vars
    BY <2>8 DEF EditInput, vars
  <2> QED
    BY <2>2, <2>3, <2>4, <2>5, <2>6, <2>7, <2>8 DEF Next, Finished
<1> QED
  BY <1>2, <1>3
\* The bundle that is written is there to its last byte.
LEMMA WrittenIsWhole ==
  ASSUME Plain, PlainInv, Written
  PROVE  /\ \A k \in DOMAIN bundle.info : EndOfEntry(bundle.info[k]) <= fileLen
         /\ fileLen >= HeaderLen
<1>1. CInv /\ FileInv /\ BundleOK /\ TypeOK /\ Steady /\ fileLen = bundle.end
  BY DEF Plain, PlainInv, OInv, FileInv, Written, Alive, Steady, BegunIsFinished
<1>2. /\ Len(bundle.data) = Len(Sources) /\ Len(filesInfo) = Len(Sources)
      /\ bundle.info = filesInfo /\ bundle.end = EndOf(Len(Sources)) /\ Len(Sources) \in Nat
      /\ DOMAIN filesInfo = 1..Len(Sources)
      /\ \A k \in 1..Len(Sources) : EntryOK(k)
  BY <1>1, BundleIsWhole
<1>3. DOMAIN bundle.data = 1..Len(Sources)
  BY <1>1, <1>2, LenProperties DEF TypeOK, Bundle
<1>4. \A k \in DOMAIN bundle.info : EndOfEntry(bundle.info[k]) <= fileLen
  BY <1>1, <1>2, <1>3 DEF BundleOK
<1>5. DataStart = HeaderLen /\ DataStart \in Nat
  <2>1. PICK h : h = EntryBytes * Len(filesInfo)
    OBVIOUS
  <2>2. h \in Nat /\ InfoBytes \in Nat
    BY <1>1, <2>1, LenProperties, LayoutAssumption DEF TypeOK
  <2>3. DataStart = 3 + 4 + (InfoBytes + h) /\ HeaderLen = 7 + InfoBytes + h
    BY <1>2, <2>1 DEF DataStart, headerLength, HeaderLen
  <2> QED
    BY <2>2, <2>3
<1>6. DataStart <= bundle.end
  <2>1. CASE Len(Sources) = 0
    BY <1>2, <1>5, <2>1 DEF EndOf, Written
  <2>2. CASE Len(Sources) # 0
    <3>1. 1 \in 1..Len(Sources) /\ 1 - 1 = 0
      BY <1>2, <2>2
    <3>2. filesInfo[1].startPosition = EndOf(0)
      BY <1>2, <3>1 DEF EntryOK
    <3>3. EndOf(0) = DataStart
      BY DEF EndOf, Written
    <3>4. filesInfo[1].startPosition + filesInfo[1].compressedSize <= bundle.end
      BY <1>1, <1>2, <1>4, <3>1 DEF EndOfEntry
    <3>5. filesInfo[1] \in Entry
      BY <1>1, <1>2, <3>1, ElementOfSeq DEF TypeOK
    <3>6. filesInfo[1].compressedSize \in Nat
      BY <3>5 DEF Entry
    <3>7. bundle.end \in Nat
      BY <1>1 DEF TypeOK, Bundle
    <3> QED
      BY <1>5, <3>2, <3>3, <3>4, <3>6, <3>7
  <2> QED
    BY <2>1, <2>2
<1> QED
  BY <1>1, <1>4, <1>5, <1>6

\* A read of a live object gives the bytes of an input or refuses the name.
LEMMA PlainReads ==
  ASSUME Plain, PlainInv, object = "live", NEW name, ReadData(name)
  PROVE  /\ stream' = stream /\ answer'.name = name
         /\ \/ answer'.kind = "bytes" /\ AreOfInput(name, answer'.bytes)
            \/ answer'.kind = "refused" /\ answer'.bytes = NoBytes /\ Found(name) = {}
<1>1. FileInv /\ ObjectInv /\ Written /\ Good /\ arcC # "LZJB"
  BY DEF PlainInv, OInv, NoReadFails, NothingEmpty
<1>2. stream' = stream
  <2>1. CASE Found(name) = {}
    BY <2>1 DEF ReadData
  <2>2. CASE Found(name) # {}
    <3>1. FirstFound(name) \in DOMAIN index
      BY <1>1, <2>2, FirstIsFound DEF ObjectInv
    <3>2. PICK e : e = index[FirstFound(name)]
      OBVIOUS
    <3>3. EndOfEntry(e) <= fileLen
      BY <1>1, <3>1, <3>2, WrittenIsWhole DEF ObjectInv
    <3>4. ReadsWell(e)
      BY <1>1, <3>3 DEF ReadsWell, EndOfEntry, Good
    <3>5. stream' = [stream EXCEPT !.failed = FALSE]
      BY <2>2, <3>2, <3>4 DEF ReadData
    <3> QED
      BY <1>1, <3>5 DEF ObjectInv, StreamFits, Good
  <2> QED
    BY <2>1, <2>2
<1>3. Good'
  BY <1>1, <1>2 DEF Good
<1> QED
  BY <1>1, <1>2, <1>3, ReadEffects

LEMMA PlainInitInv == ASSUME Plain, AllInit PROVE PlainInv
<1>1. OInv
  BY AllInitOInv DEF Plain
<1>2. /\ arcC \in CompTypes /\ bundle = NoBundle /\ ctor = "dispatch" /\ fileLen = 0
      /\ object = "none" /\ extracting = 0 /\ stream = [open |-> FALSE, failed |-> FALSE]
      /\ \A t \in Tasks : pc[t] = "unborn"
  BY DEF AllInit, Init
<1>3. \A p \in Inputs : Exists(p) => disk[p].len \in Sizes
  <2>1. PICK present \in SUBSET Inputs : \E len \in [present -> Sizes] :
                                              disk = [p \in present |-> Original(p, len[p])]
    BY DEF AllInit, Init
  <2>2. PICK len \in [present -> Sizes] : disk = [p \in present |-> Original(p, len[p])]
    BY <2>1
  <2> QED
    BY <2>2 DEF Original, Exists
<1>4. NothingEmpty
  BY <1>2, <1>3 DEF NothingEmpty, Plain, Whole, Settled
<1>5. BegunIsFinished /\ NoReadFails
  BY <1>2 DEF BegunIsFinished, NoReadFails, NoBundle
<1> QED
  BY <1>1, <1>4, <1>5 DEF PlainInv

LEMMA PlainOfCreate == ASSUME Plain, PlainInv, Create PROVE PlainInv'
<1>1. OInv /\ FileInv /\ ObjectInv /\ NothingEmpty /\ Next /\ Apart /\ MaxEdits = 0
  BY DEF Plain, PlainInv, OInv, Create
<1>2. OInv'
  BY <1>1, AllNextOInv DEF AllNext
<1>3. NothingEmpty'
  BY <1>1, NothingEmptyNext
<1>4. /\ bundle' # NoBundle <=> ctor' \in {"copy", "returned"}
      /\ ctor = "returned" => ctor' = "returned"
  BY <1>1, BegunNext DEF PlainInv, BegunIsFinished
<1>5. fileLen' = bundle'.end
  <2>1. CASE Alive
    BY <2>1 DEF Create, Alive
  <2>2. CASE ~ Alive
    BY <1>1, <2>2, DeadIsStill DEF Create, Alive, vars, PlainInv, BegunIsFinished
  <2> QED
    BY <2>1, <2>2
<1>6. extracting' = extracting
  BY DEF Create, callVars
<1>7. NoReadFails'
  <2>1. CASE ctor' = "returned" /\ ctor # "returned"
    <3>1. Alive
      BY <1>1, <2>1, DeadIsStill DEF vars
    <3>2. bundle' = bundle /\ ~ Ended
      BY <1>1, <2>1, <3>1, ReturnSteps DEF FileInv
    <3>3. object = "none" /\ extracting = 0 /\ bundle # NoBundle
      BY <1>1, <1>4, <2>1, <3>2 DEF ObjectInv, StreamFits
    <3>4. object' = "live" /\ stream'.open /\ ~ stream'.failed
      BY <1>1, <2>1, <3>3 DEF Create, ObjectInv, StreamFits, PlainInv, NoReadFails
    <3> QED
      BY <1>4, <1>6, <2>1, <3>3, <3>4 DEF NoReadFails, Written, Good
  <2>2. CASE ~ (ctor' = "returned" /\ ctor # "returned")
    <3>1. UNCHANGED <<object, stream>>
      BY <2>2 DEF Create, objectVars
    <3> QED
      BY <1>4, <1>6, <3>1 DEF PlainInv, NoReadFails, Written, Good
  <2> QED
    BY <2>1, <2>2
<1> QED
  BY <1>2, <1>3, <1>4, <1>5, <1>7 DEF PlainInv, BegunIsFinished

\* The other steps: the process does not die, no directory fails, and nobody
\* reads after Close.
LEMMA PlainOfCalls ==
  ASSUME Plain, PlainInv, [AllNext]_allVars, ~ Create
  PROVE  /\ PlainInv' /\ UNCHANGED vars
         /\ \/ UNCHANGED answer
            \/ \E name \in AskedNames : CallReadData(name) /\ object = "live"
            \/ ExtractFile /\ object = "live"
<1>1. OInv /\ FileInv /\ ObjectInv /\ NothingEmpty /\ Apart /\ MaxEdits = 0 /\ Mishaps = {}
  BY DEF Plain, PlainInv, OInv
<1>2. ~ Crash /\ ~ DirectoryFails
  BY <1>1 DEF Crash, DirectoryFails
<1>3. UNCHANGED vars
  BY <1>2 DEF AllNext, allVars, Open, OpenCutHeader, CallReadData, CallExtract, ExtractFile, Close
<1>4. OInv'
  BY <1>1, AllNextOInv
<1>5. NothingEmpty'
  BY <1>1, <1>3, NothingEmptyNext
<1>6. UNCHANGED <<ctor, bundle, fileLen>>
  BY <1>2, <1>3 DEF vars, AllNext, allVars, Open, OpenCutHeader, CallReadData, CallExtract, ExtractFile, Close
<1>7. BegunIsFinished' /\ (Written' <=> Written)
  BY <1>6 DEF PlainInv, BegunIsFinished, Written
<1>8. Usable => object = "live"
  BY <1>1 DEF Usable
<1>9. CanOpen /\ bundle # NoBundle => Written
  BY DEF CanOpen, PlainInv, BegunIsFinished, Written, Ended
<1>10. ~ OpenCutHeader
  <2> SUFFICES ASSUME OpenCutHeader PROVE FALSE
    OBVIOUS
  <2>1. Written /\ fileLen < HeaderLen
    BY <1>9 DEF OpenCutHeader
  <2>2. fileLen >= HeaderLen
    BY <2>1, WrittenIsWhole
  <2>3. fileLen \in Int /\ HeaderLen \in Int
    <3>1. bundle.end \in Nat /\ Len(bundle.info) \in Nat
      BY <1>1, LenProperties DEF FileInv, TypeOK, Bundle
    <3>2. fileLen \in Int
      BY <1>1, <3>1 DEF ObjectInv, FileFits
    <3>3. EntryBytes * Len(bundle.info) \in Nat
      BY <3>1, LayoutAssumption
    <3>4. HeaderLen \in Int
      BY <3>3, LayoutAssumption DEF HeaderLen
    <3> QED
      BY <3>2, <3>4
  <2> QED
    BY <2>1, <2>2, <2>3
<1>11. NoReadFails'
       /\ \/ UNCHANGED answer
          \/ \E name \in AskedNames : CallReadData(name) /\ object = "live"
          \/ ExtractFile /\ object = "live"
  <2> USE <1>7 DEF PlainInv, NoReadFails
  <2>1. CASE Open
    BY <1>9, <2>1 DEF Open, CanOpen, Good
  <2>2. ASSUME NEW name \in AskedNames, CallReadData(name)
        PROVE  NoReadFails' /\ object = "live"
    <3>1. object = "live" /\ ReadData(name)
      BY <1>8, <2>2 DEF CallReadData, Idle
    <3>2. stream' = stream /\ answer'.kind \in {"bytes", "refused"}
      BY <3>1, PlainReads
    <3>3. object' = object /\ extracting' = extracting
      BY <2>2, <3>2 DEF CallReadData
    <3> QED
      BY <3>1, <3>2, <3>3 DEF Good
  <2>3. CASE CallExtract
    BY <1>8, <2>3 DEF CallExtract, Idle, objectVars, Good
  <2>4. CASE ExtractFile
    <3>1. object = "live" /\ ReadData(index[extracting].name)
      BY <1>8, <2>4 DEF ExtractFile
    <3>2. stream' = stream /\ answer'.kind \in {"bytes", "refused"}
      BY <3>1, PlainReads
    <3>3. object' = object
      BY <2>4, <3>2 DEF ExtractFile
    <3> QED
      BY <2>4, <3>1, <3>2, <3>3 DEF Good
  <2>5. CASE Close
    BY <2>5 DEF Close, callVars
  <2>6. CASE UNCHANGED allVars
    BY <2>6 DEF allVars, objectVars, callVars, Good
  <2> QED
    BY <1>2, <1>10, <2>1, <2>2, <2>3, <2>4, <2>5, <2>6 DEF AllNext
<1> QED
  BY <1>3, <1>4, <1>5, <1>7, <1>11 DEF PlainInv
\* What the archive holds and what it last gave.
Originals == {Original(p, n) : p \in Inputs, n \in Sizes}
Published == IF Written THEN [name \in NamesOfInputs |-> disk[InputOf(name)]] ELSE <<>>
Reply == [name |-> answer.name,
          got |-> IF answer.kind \in {"bytes", "none", "refused"} THEN answer.bytes
                  ELSE Packed(NoBytes, 0)]

LEMMA NamesAreApart ==
  ASSUME Plain, NEW p \in Inputs
  PROVE  getRelative(p) \in NamesOfInputs /\ InputOf(getRelative(p)) = p
<1>1. \E q \in Inputs : getRelative(q) = getRelative(p)
  OBVIOUS
<1>2. InputOf(getRelative(p)) \in Inputs /\ getRelative(InputOf(getRelative(p))) = getRelative(p)
  BY <1>1 DEF InputOf
<1> QED
  BY <1>2 DEF Plain, NamesOfInputs

\* Every input is in a bundle that is written.
LEMMA NoInputIsMissing ==
  ASSUME Plain, PlainInv, Written, NEW p \in Inputs
  PROVE  Exists(p) /\ disk[p] \in Originals /\ disk[p].len # 0
<1>1. CInv /\ Apart /\ MaxEdits = 0 /\ 0 \notin Sizes /\ NothingEmpty
  BY DEF Plain, PlainInv, OInv, FileInv, Written, Alive
<1>2. PICK t \in Tasks : p = InFiles[t]
  BY DEF Inputs
<1>3. Exists(p)
  <2>1. CASE Compressed
    <3>1. pc[t] \in Whole
      BY <1>1, <2>1, NobodyIsAtWork DEF NothingEmpty, Pushed, Whole
    <3> QED
      BY <1>1, <1>2, <3>1 DEF CInv, FilesInv, MadeOfInputs, Sized
  <2>2. CASE ~ Compressed
    <3>1. t \in 1..Len(Sources) /\ Sources[t] = p
      BY <1>2, <2>2 DEF Sources, Compressed, Tasks, argslen
    <3> QED
      BY <1>1, <2>2, <3>1, BundleIsWhole DEF Steady
  <2> QED
    BY <2>1, <2>2
<1>4. disk[p] = Original(p, disk[p].len) /\ disk[p].len \in Sizes
  BY <1>1, <1>3 DEF CInv, FilesInv, InputsAreOriginal, NothingEmpty
<1> QED
  BY <1>1, <1>3, <1>4 DEF Originals

LEMMA StoredIsTyped ==
  ASSUME Plain PROVE PlainInv /\ Written => Published \in [NamesOfInputs -> Originals]
<1> SUFFICES ASSUME PlainInv, Written PROVE Published \in [NamesOfInputs -> Originals]
  OBVIOUS
<1>1. \A name \in NamesOfInputs : disk[InputOf(name)] \in Originals
  <2> SUFFICES ASSUME NEW p \in Inputs PROVE disk[InputOf(getRelative(p))] \in Originals
    BY DEF NamesOfInputs
  <2> QED
    BY NamesAreApart, NoInputIsMissing
<1> QED
  BY <1>1 DEF Published

LEMMA StoredIsTypedNext ==
  ASSUME Plain PROVE PlainInv' /\ Written' => (Published \in [NamesOfInputs -> Originals])'
BY StoredIsTyped, PTL

\* A published file stays as it is.
LEMMA StoredStays ==
  ASSUME Plain, PlainInv, [Next]_vars, Written' <=> Written
  PROVE  Published' = Published
<1>1. CASE Written
  <2>1. \A p \in Inputs : disk'[p] = disk[p]
    BY <1>1, InputsStay, NoInputIsMissing DEF Plain, PlainInv, OInv
  <2>2. \A name \in NamesOfInputs : InputOf(name) \in Inputs
    BY DEF NamesOfInputs, InputOf
  <2>3. \A name \in NamesOfInputs : disk'[InputOf(name)] = disk[InputOf(name)]
    BY <2>1, <2>2
  <2> QED
    BY <1>1, <2>3 DEF Published
<1>2. CASE ~ Written
  BY <1>2 DEF Published
<1> QED
  BY <1>1, <1>2

\* The steps of an archive, in the variables of the bundle.
LEMMA PublishIs ==
  ASSUME Published = <<>>, Published' \in [NamesOfInputs -> Originals], Reply' = Reply
  PROVE  A!Next
<1>1. NamesOfInputs \in SUBSET (AskedNames \cup NamesOfInputs)
  OBVIOUS
<1> QED
  BY <1>1 DEF A!Next, A!Publish, Published, Reply, Originals

LEMMA ReadIs ==
  ASSUME NEW name \in AskedNames \cup NamesOfInputs, Published' = Published,
         Reply' = [name |-> name, got |-> IF name \in DOMAIN Published THEN Published[name] ELSE NoBytes]
  PROVE  A!Next
BY DEF A!Next, A!Read, Published, Reply

LEMMA StutterIs == ASSUME Published' = Published, Reply' = Reply PROVE UNCHANGED A!vars
BY DEF A!vars, Published, Reply

\* What a read gives is what the archive holds, or it holds nothing of that
\* name.
LEMMA ReplyIsRight ==
  ASSUME Plain, PlainInv, object = "live", NEW name, ReadData(name)
  PROVE  Reply' = [name |-> name, got |-> IF name \in DOMAIN Published THEN Published[name] ELSE NoBytes]
<1>1. Written /\ CInv /\ Apart /\ MaxEdits = 0 /\ FileInv /\ ObjectInv /\ Good
  BY DEF Plain, PlainInv, OInv, FileInv, NoReadFails, Written, Alive
<1>2. answer'.name = name
      /\ \/ answer'.kind = "bytes" /\ AreOfInput(name, answer'.bytes)
         \/ answer'.kind = "refused" /\ answer'.bytes = NoBytes /\ Found(name) = {}
  BY PlainReads
<1>3. Reply' = [name |-> name, got |-> answer'.bytes]
  BY <1>2 DEF Reply
<1>4. DOMAIN Published = NamesOfInputs
  BY <1>1 DEF Published
<1>5. CASE answer'.kind = "bytes" /\ AreOfInput(name, answer'.bytes)
  <2>1. PICK p \in Inputs : getRelative(p) = name /\ disk[p] = answer'.bytes
    BY <1>5 DEF AreOfInput
  <2>2. name \in NamesOfInputs /\ InputOf(name) = p
    BY <2>1, NamesAreApart
  <2> QED
    BY <1>1, <1>3, <1>4, <2>1, <2>2 DEF Published
<1>6. CASE answer'.bytes = NoBytes /\ Found(name) = {}
  <2>1. name \notin NamesOfInputs
    <3> SUFFICES ASSUME NEW p \in Inputs, name = getRelative(p) PROVE FALSE
      BY DEF NamesOfInputs
    <3>1. Exists(p) /\ disk[p].len # 0
      BY <1>1, NoInputIsMissing
    <3>2. disk[p].len \in Nat
      BY <1>1, <3>1 DEF FileInv, TypeOK, Exists, Content
    <3>3. edits = 0
      BY <1>1 DEF FileInv, TypeOK
    <3>4. \E k \in DOMAIN filesInfo : filesInfo[k].name = name
      BY <1>1, <3>1, <3>2, <3>3, NoneIsLost DEF NothingLost
    <3>5. index = filesInfo
      BY <1>1, InfoIsIndex DEF ObjectInv
    <3> QED
      BY <1>6, <3>4, <3>5 DEF Found
  <2> QED
    BY <1>3, <1>4, <1>6, <2>1
<1> QED
  BY <1>2, <1>5, <1>6

LEMMA AllInitIsArchive == ASSUME AllInit PROVE A!Init
BY DEF AllInit, Init, A!Init, Written, NoAnswer, Answer

LEMMA AllNextIsArchive ==
  ASSUME Plain, PlainInv, [AllNext]_allVars
  PROVE  PlainInv' /\ [A!Next]_A!vars
<1>1. CASE Create
  <2>1. PlainInv' /\ Next /\ answer' = answer
    BY <1>1, PlainOfCreate DEF Create, callVars
  <2>2. Reply' = Reply
    BY <2>1 DEF Reply
  <2>3. CASE Written' <=> Written
    BY <2>1, <2>2, <2>3, StoredStays, StutterIs
  <2>4. CASE Written' /\ ~ Written
    BY <2>1, <2>2, <2>4, StoredIsTypedNext, PublishIs DEF Published
  <2>5. Written => Written'
    BY <2>1, BegunNext DEF PlainInv, OInv, BegunIsFinished, Written
  <2> QED
    BY <2>1, <2>3, <2>4, <2>5
<1>2. CASE ~ Create
  <2>1. /\ PlainInv' /\ UNCHANGED vars
        /\ \/ UNCHANGED answer
           \/ \E name \in AskedNames : CallReadData(name) /\ object = "live"
           \/ ExtractFile /\ object = "live"
    BY <1>2, PlainOfCalls
  <2>2. Published' = Published
    BY <2>1, StoredStays DEF vars, Written
  <2>3. CASE UNCHANGED answer
    <3>1. Reply' = Reply
      BY <2>3 DEF Reply
    <3> QED
      BY <2>1, <2>2, <3>1, StutterIs
  <2>4. ASSUME NEW name \in AskedNames, CallReadData(name), object = "live"
        PROVE  A!Next
    BY <2>2, <2>4, ReplyIsRight, ReadIs DEF CallReadData
  <2>5. CASE ExtractFile /\ object = "live"
    <3>1. PICK name : name = index[extracting].name
      OBVIOUS
    <3>2. name \in NamesOfInputs
      <4>1. ReadData(name) /\ answer'.kind # "refused"
        BY <2>5, <3>1 DEF ExtractFile
      <4>2. AreOfInput(name, answer'.bytes)
        BY <2>5, <4>1, PlainReads
      <4> QED
        BY <4>2 DEF AreOfInput, NamesOfInputs
    <3>3. ReadData(name)
      BY <2>5, <3>1 DEF ExtractFile
    <3>4. Reply' = [name |-> name,
                    got |-> IF name \in DOMAIN Published THEN Published[name] ELSE NoBytes]
      BY <2>5, <3>3, ReplyIsRight
    <3>5. name \in AskedNames \cup NamesOfInputs
      BY <3>2
    <3>6. A!Next
      BY <2>2, <3>4, <3>5, ReadIs
    <3> QED
      BY <2>1, <3>6
  <2> QED
    BY <2>1, <2>3, <2>4, <2>5
<1> QED
  BY <1>1, <1>2

\* Where nothing goes wrong, the constructor, the object and its reader are
\* an archive: it is published once, whole, and every read gives the file of
\* that name or refuses.
THEOREM BundleIsAnArchive == ASSUME Plain PROVE AllSpec => IsAnArchive
<1>1. AllInit => A!Init /\ PlainInv
  BY AllInitIsArchive, PlainInitInv
<1>2. PlainInv /\ [AllNext]_allVars => PlainInv' /\ [A!Next]_A!vars
  BY AllNextIsArchive
<1> QED
  BY <1>1, <1>2, PTL DEF AllSpec, IsAnArchive, A!Spec

==============================================================================
