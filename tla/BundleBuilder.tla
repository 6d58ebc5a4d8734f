---------------------------- MODULE BundleBuilder ----------------------------
(***************************************************************************)
(* The constructor of AssetBundle that creates a bundle                    *)
(* (DCA/AssetBundle.cpp), with the compression tasks it starts.  The       *)
(* constructor is one thread (`ctor' is its program counter); every task   *)
(* is a detached thread of its own, or a plain call when the compression   *)
(* type is a sequential one.  They share a counter that nothing protects,  *)
(* an atomic counter, a mutex, the vector of temporary files and the disk. *)
(*                                                                         *)
(* A path is a sequence of numbers: its directory, its name, and the parts *)
(* that dots add to the name, so that the temporary file                   *)
(* `filePath + "." + size' of the source is Append(filePath, size).  The   *)
(* bytes of a file are abstracted to where they come from, how many times  *)
(* they were compressed and how many there are.                            *)
(***************************************************************************)
EXTENDS Integers, Sequences, FiniteSets

CONSTANTS InFiles,          \* the paths given to the constructor, in order
          CompTypes,        \* the compression types the caller may ask for
          Sizes,            \* the sizes an input file may have
          PackedSizes,      \* the sizes a codec may make of a file
          ProcessorCount,   \* std::thread::hardware_concurrency()
          CounterRange,     \* the number of values of numRunningThreads
          InfoBytes,        \* bytes of a serialised ArchiveInfo without entries
          EntryBytes,       \* bytes of one serialised ArchiveFileInfo
          BuildHash,        \* buildHash
          DeleteCanFail,    \* DeleteFileA may refuse to delete a file
          MaxEdits,         \* bound on the changes made to inputs from outside
          RelativeTo        \* relativeTo, a directory

Threaded == {"FastAri", "LZJB", "LZP", "LZ77", "BSC"}
Sequential == {"LZMA2", "LZSSE"}
ArchiveCompressionType == Threaded \cup Sequential \cup {"NoCompression"}

\* The types whose CompressFile keeps the file as it is when packing it does
\* not make it smaller, and the types whose packed form may come out empty:
\* lzjb_compress gives 0 when its output buffer is short, and a failed LZMA2
\* encoder leaves outSize at 0.
StoresIncompressible == ArchiveCompressionType \ {"LZMA2", "LZ77", "NoCompression"}
MayPackToNothing == {"LZJB", "LZMA2"}

argslen == Len(InFiles)
Tasks == 1..argslen
Paths == Seq(Nat)

ASSUME InFilesAssumption ==
    InFiles \in Seq(Paths) /\ \A t \in Tasks : Len(InFiles[t]) >= 2
ASSUME TypesAssumption == CompTypes \subseteq ArchiveCompressionType
ASSUME SizesAssumption == Sizes \subseteq Nat /\ PackedSizes \subseteq Nat
ASSUME CounterAssumption ==
    /\ ProcessorCount \in Nat \ {0}
    /\ CounterRange \in Nat
    /\ CounterRange > 2 * ProcessorCount + argslen
ASSUME EditsAssumption == MaxEdits \in Nat
ASSUME LayoutAssumption == InfoBytes \in Nat /\ EntryBytes \in Nat
ASSUME FlagsAssumption == BuildHash \in BOOLEAN /\ DeleteCanFail \in BOOLEAN
ASSUME RelativeAssumption == RelativeTo \in Nat \ {0}

VARIABLES
    arcC,              \* arrinf.arcC
    edits,             \* how often an input was changed from outside
    disk,              \* the files that exist, with their bytes
    pc,                \* where each task is
    size,              \* `size' of each task
    out,               \* compressedData and outsize of each task
    loaded,            \* what a task last read of a shared variable
    numRunningThreads,
    numCompressed,
    mtx,               \* the task that holds the mutex, 0 when it is free
    tempFilesPaths,
    ctor,              \* where the constructor is
    i,                 \* its loop index
    prevCrc,
    previousPosition,
    filesInfo,         \* arrinf.filesInfo
    bundle             \* the file bundleName, as far as it is written

settings == <<arcC, edits>>
taskVars == <<pc, size, out, loaded>>
sharedVars == <<numRunningThreads, numCompressed, mtx, tempFilesPaths>>
indexVars == <<prevCrc, previousPosition, filesInfo>>
vars == <<settings, disk, taskVars, sharedVars, ctor, i, indexVars, bundle>>

-----------------------------------------------------------------------------
(* Files and the bytes in them. *)

Content == [of : Paths, layers : Nat, len : Nat]

NoBytes == [of |-> <<>>, layers |-> 0, len |-> 0]
Original(p, n) == [of |-> p, layers |-> 0, len |-> n]
Uninitialised(n) == [of |-> <<>>, layers |-> 0, len |-> n]

\* No bundle file yet: one that is there begins with a header.
NoBundle == [info |-> <<>>, data |-> <<>>, end |-> 0]

Exists(p) == p \in DOMAIN disk
WithFile(p, c) == [q \in DOMAIN disk \cup {p} |-> IF q = p THEN c ELSE disk[q]]
WithoutFile(p) == [q \in DOMAIN disk \ {p} |-> disk[q]]

TempPath(p, n) == Append(p, n)
TempBase(p) == SubSeq(p, 1, Len(p) - 1)
TempSize(p) == p[Len(p)]

\* The path seen from the directory RelativeTo; 0 is `..'.
getRelative(p) == IF p # <<>> /\ p[1] = RelativeTo THEN Tail(p) ELSE <<0>> \o p

\* std::string's operator<, on the parts of two paths.
Before(a, b) ==
    \E k \in 1..Len(b) :
        /\ \A j \in 1..(k - 1) : j <= Len(a) /\ a[j] = b[j]
        /\ k > Len(a) \/ a[k] < b[k]

Permutes(s, t) ==
    /\ Len(t) = Len(s)
    /\ \E p \in [DOMAIN s -> DOMAIN s] :
          /\ \A j, k \in DOMAIN s : p[j] = p[k] => j = k
          /\ \A j \in DOMAIN s : t[j] = s[p[j]]

Sorted(s) == \A j, k \in DOMAIN s : j < k => ~ Before(s[k], s[j])

\* What CompressFile may make of the bytes c.
Packed(c, n) == [of |-> c.of, layers |-> c.layers + 1, len |-> n]

Compressions(c) ==
    LET lens == {n \in PackedSizes : n > 0 \/ arcC \in MayPackToNothing}
    IN  IF arcC \in StoresIncompressible
        THEN {c} \cup {Packed(c, n) : n \in {m \in lens : m < c.len}}
        ELSE {Packed(c, n) : n \in lens}

-----------------------------------------------------------------------------
(* The initial states: the caller picks the compression type, and each     *)
(* input is missing, empty or holds bytes of its own.                      *)

Inputs == {InFiles[t] : t \in Tasks}

Init ==
    /\ arcC \in CompTypes
    /\ edits = 0
    /\ \E present \in SUBSET Inputs : \E len \in [present -> Sizes] :
          disk = [p \in present |-> Original(p, len[p])]
    /\ pc = [t \in Tasks |-> "unborn"]
    /\ size = [t \in Tasks |-> 0]
    /\ out = [t \in Tasks |-> NoBytes]
    /\ loaded = [t \in Tasks |-> 0]
    /\ numRunningThreads = 0
    /\ numCompressed = 0
    /\ mtx = 0
    /\ tempFilesPaths = <<>>
    /\ ctor = "dispatch"
    /\ i = 0
    /\ prevCrc = <<>>
    /\ previousPosition = 0
    /\ filesInfo = <<>>
    /\ bundle = NoBundle

-----------------------------------------------------------------------------
(* CompressionTask.  An uncaught exception of a detached thread ends the   *)
(* process (std::terminate), and with it every other thread.               *)

Alive == ctor # "terminated"

Step(t, from, to) == Alive /\ pc[t] = from /\ pc' = [pc EXCEPT ![t] = to]

\* numRunningThreads++ on a variable that is neither atomic nor protected:
\* the load and the store are separate steps.
LoadForIncrement(t) ==
    /\ Step(t, "start", "increment")
    /\ loaded' = [loaded EXCEPT ![t] = numRunningThreads]
    /\ UNCHANGED <<settings, disk, size, out, sharedVars, ctor, i, indexVars, bundle>>

StoreIncrement(t) ==
    /\ Step(t, "increment", "open")
    /\ numRunningThreads' = (loaded[t] + 1) % CounterRange
    /\ UNCHANGED <<settings, disk, size, out, loaded, numCompressed, mtx, tempFilesPaths,
                   ctor, i, indexVars, bundle>>

OpenMissing(t) ==
    /\ ~ Exists(InFiles[t])
    /\ Step(t, "open", "threw")
    /\ ctor' = IF arcC \in Threaded THEN "terminated" ELSE "cleanup"
    /\ UNCHANGED <<settings, disk, size, out, loaded, sharedVars, i, indexVars, bundle>>

OpenNull(t) ==
    /\ Exists(InFiles[t]) /\ disk[InFiles[t]].len = 0
    /\ Step(t, "open", "skipped")
    /\ UNCHANGED <<settings, disk, size, out, loaded, sharedVars, ctor, i, indexVars, bundle>>

OpenFile(t) ==
    /\ Exists(InFiles[t]) /\ disk[InFiles[t]].len > 0
    /\ Step(t, "open", "compress")
    /\ size' = [size EXCEPT ![t] = disk[InFiles[t]].len]
    /\ UNCHANGED <<settings, disk, out, loaded, sharedVars, ctor, i, indexVars, bundle>>

\* The file is read into a buffer of `size' bytes and compressed.
CompressFile(t) ==
    /\ Step(t, "compress", "create")
    /\ LET f == InFiles[t]
           buffer == IF Exists(f) /\ disk[f].len = size[t] THEN disk[f]
                     ELSE Uninitialised(size[t])
       IN  \E d \in Compressions(buffer) : out' = [out EXCEPT ![t] = d]
    /\ UNCHANGED <<settings, disk, size, loaded, sharedVars, ctor, i, indexVars, bundle>>

\* Wrong: the temporary file without the size in its name.
fpathWithoutSize(t) == InFiles[t]

fpath(t) == TempPath(InFiles[t], size[t])

\* std::ofstream tempOut(fpath) truncates the file, tempOut.write fills it.
CreateTemp(t) ==
    /\ Step(t, "create", "write")
    /\ disk' = WithFile(fpath(t), [out[t] EXCEPT !.len = 0])
    /\ UNCHANGED <<settings, size, out, loaded, sharedVars, ctor, i, indexVars, bundle>>

\* assert(compressedData != nullptr) in between (line 335) is not in the build:
\* DCA.vcxproj defines NDEBUG for Release.
WriteTemp(t) ==
    /\ Step(t, "write", "lock")
    /\ disk' = WithFile(fpath(t), out[t])
    /\ UNCHANGED <<settings, size, out, loaded, sharedVars, ctor, i, indexVars, bundle>>

\* Wrong: no lock_guard.
LockNothing(t) ==
    /\ Step(t, "lock", "push")
    /\ UNCHANGED <<settings, disk, size, out, loaded, sharedVars, ctor, i, indexVars, bundle>>

Lock(t) ==
    /\ mtx = 0
    /\ Step(t, "lock", "push")
    /\ mtx' = t
    /\ UNCHANGED <<settings, disk, size, out, loaded, numRunningThreads, numCompressed,
                   tempFilesPaths, ctor, i, indexVars, bundle>>

\* push_back is not one step either: it finds the end, then fills it.
FindEnd(t) ==
    /\ Step(t, "push", "fill")
    /\ loaded' = [loaded EXCEPT ![t] = Len(tempFilesPaths)]
    /\ UNCHANGED <<settings, disk, size, out, sharedVars, ctor, i, indexVars, bundle>>

PushTemp(t) ==
    /\ Step(t, "fill", "count")
    /\ tempFilesPaths' = Append(SubSeq(tempFilesPaths, 1, loaded[t]), fpath(t))
    /\ UNCHANGED <<settings, disk, size, out, loaded, numRunningThreads, numCompressed, mtx,
                   ctor, i, indexVars, bundle>>

\* Wrong: the task does not count itself.
CountNothing(t) ==
    /\ Step(t, "count", "load")
    /\ UNCHANGED <<settings, disk, size, out, loaded, sharedVars, ctor, i, indexVars, bundle>>

CountCompressed(t) ==
    /\ Step(t, "count", "load")
    /\ numCompressed' = numCompressed + 1
    /\ UNCHANGED <<settings, disk, size, out, loaded, numRunningThreads, mtx, tempFilesPaths,
                   ctor, i, indexVars, bundle>>

\* numRunningThreads--, under the mutex, which the increment does not take.
LoadForDecrement(t) ==
    /\ Step(t, "load", "decrement")
    /\ loaded' = [loaded EXCEPT ![t] = numRunningThreads]
    /\ UNCHANGED <<settings, disk, size, out, sharedVars, ctor, i, indexVars, bundle>>

\* Wrong: a signed counter, which lost increments take below zero.
StoreSignedDecrement(t) ==
    /\ Step(t, "decrement", "unlock")
    /\ numRunningThreads' = loaded[t] - 1
    /\ UNCHANGED <<settings, disk, size, out, loaded, numCompressed, mtx, tempFilesPaths,
                   ctor, i, indexVars, bundle>>

StoreDecrement(t) ==
    /\ Step(t, "decrement", "unlock")
    /\ numRunningThreads' = (loaded[t] + CounterRange - 1) % CounterRange
    /\ UNCHANGED <<settings, disk, size, out, loaded, numCompressed, mtx, tempFilesPaths,
                   ctor, i, indexVars, bundle>>

Unlock(t) ==
    /\ Step(t, "unlock", "done")
    /\ mtx' = 0
    /\ UNCHANGED <<settings, disk, size, out, loaded, numRunningThreads, numCompressed,
                   tempFilesPaths, ctor, i, indexVars, bundle>>

CompressionTask(t) ==
    \/ LoadForIncrement(t) \/ StoreIncrement(t)
    \/ OpenMissing(t) \/ OpenNull(t) \/ OpenFile(t)
    \/ CompressFile(t) \/ CreateTemp(t) \/ WriteTemp(t)
    \/ Lock(t) \/ FindEnd(t) \/ PushTemp(t) \/ CountCompressed(t)
    \/ LoadForDecrement(t) \/ StoreDecrement(t) \/ Unlock(t)

-----------------------------------------------------------------------------
(* The constructor, up to the point where every file is compressed.        *)

At(here, there) == ctor = here /\ ctor' = there

Dispatch ==
    /\ At("dispatch", CASE arcC \in Threaded -> "spawn"
                        [] arcC \in Sequential -> "call"
                        [] OTHER -> "index")
    /\ numCompressed' = IF arcC = "NoCompression" THEN argslen ELSE numCompressed
    /\ UNCHANGED <<settings, disk, taskVars, numRunningThreads, mtx, tempFilesPaths, i,
                   indexVars, bundle>>

\* Every thread is started before any of the waits below.
SpawnTask ==
    /\ i < argslen
    /\ At("spawn", "spawn")
    /\ i' = i + 1
    /\ pc' = [pc EXCEPT ![i + 1] = "start"]
    /\ UNCHANGED <<settings, disk, size, out, loaded, sharedVars, indexVars, bundle>>

DetachTask ==
    /\ i < argslen
    /\ At("detach", "throttle")
    /\ UNCHANGED <<settings, disk, taskVars, sharedVars, i, indexVars, bundle>>

\* The way out of `while (currentNumRunningThreads == processor_count * 2)'.
LeaveThrottle ==
    /\ numRunningThreads # 2 * ProcessorCount
    /\ At("throttle", "detach")
    /\ i' = i + 1
    /\ UNCHANGED <<settings, disk, taskVars, sharedVars, indexVars, bundle>>

\* Wrong: the loops leave out the last file.
EndOfLoopEarly ==
    /\ i + 1 >= argslen
    /\ \/ At("spawn", "detach")
       \/ At("detach", "wait")
       \/ At("call", "sort")
    /\ i' = 0
    /\ UNCHANGED <<settings, disk, taskVars, sharedVars, indexVars, bundle>>

EndOfLoop ==
    /\ i = argslen
    /\ \/ At("spawn", "detach")
       \/ At("detach", "wait")
       \/ At("call", "sort")
    /\ i' = 0
    /\ UNCHANGED <<settings, disk, taskVars, sharedVars, indexVars, bundle>>

\* One more turn of either busy wait: it reads and changes nothing.
Spin ==
    /\ \/ ctor = "throttle" /\ numRunningThreads = 2 * ProcessorCount
       \/ ctor = "wait" /\ numCompressed # argslen
    /\ UNCHANGED vars

\* Wrong: the constructor goes on when one file is still missing.
LeaveWaitEarly ==
    /\ numCompressed + 1 >= argslen
    /\ At("wait", "sort")
    /\ UNCHANGED <<settings, disk, taskVars, sharedVars, i, indexVars, bundle>>

\* The way out of `while (numCompressed != argslen)'.
LeaveWait ==
    /\ numCompressed = argslen
    /\ At("wait", "sort")
    /\ UNCHANGED <<settings, disk, taskVars, sharedVars, i, indexVars, bundle>>

CallTask ==
    /\ i < argslen
    /\ At("call", "called")
    /\ pc' = [pc EXCEPT ![i + 1] = "start"]
    /\ UNCHANGED <<settings, disk, size, out, loaded, sharedVars, i, indexVars, bundle>>

TaskReturns ==
    /\ ctor = "called" /\ pc[i + 1] \in {"done", "skipped"}
    /\ ctor' = "call"
    /\ i' = i + 1
    /\ UNCHANGED <<settings, disk, taskVars, sharedVars, indexVars, bundle>>

\* Wrong: the catch block only rethrows.
RethrowOnly ==
    /\ At("cleanup", "threw")
    /\ UNCHANGED <<settings, disk, taskVars, sharedVars, i, indexVars, bundle>>

\* The catch block of the sequential loop, up to its rethrow.
RemoveTemps ==
    /\ At("cleanup", "threw")
    /\ disk' = [p \in {q \in DOMAIN disk :
                         \A k \in DOMAIN tempFilesPaths : tempFilesPaths[k] # q} |-> disk[p]]
    /\ UNCHANGED <<settings, taskVars, sharedVars, i, indexVars, bundle>>

\* Wrong: the files stay in the order the tasks finished in.
KeepTemps ==
    /\ At("sort", "index")
    /\ UNCHANGED <<settings, disk, taskVars, sharedVars, i, indexVars, bundle>>

SortTemps ==
    /\ At("sort", "index")
    /\ \E s \in [DOMAIN tempFilesPaths ->
                   {tempFilesPaths[k] : k \in DOMAIN tempFilesPaths}] :
          /\ Permutes(tempFilesPaths, s)
          /\ Sorted(s)
          /\ tempFilesPaths' = s
    /\ UNCHANGED <<settings, disk, taskVars, numRunningThreads, numCompressed, mtx, i,
                   indexVars, bundle>>

-----------------------------------------------------------------------------
(* The two passes over the files: one fills the index, one copies the      *)
(* data.  Each opens every file anew.                                      *)

Sources == IF arcC = "NoCompression" THEN InFiles ELSE tempFilesPaths
Source == Sources[i + 1]
Here(pass) == ctor = pass /\ i < Len(Sources)

SourceMissing ==
    /\ Here("index") \/ Here("copy")
    /\ ~ Exists(Source)
    /\ ctor' = "threw"
    /\ UNCHANGED <<settings, disk, taskVars, sharedVars, i, indexVars, bundle>>

\* An empty file ends the whole constructor in the first pass...
IndexNull ==
    /\ Here("index") /\ Exists(Source) /\ disk[Source].len = 0
    /\ ctor' = "returned"
    /\ UNCHANGED <<settings, disk, taskVars, sharedVars, i, indexVars, bundle>>

EntryOf(p, c, crc) ==
    [name |-> getRelative(IF arcC = "NoCompression" THEN p ELSE TempBase(p)),
     uncompressedSize |-> IF arcC = "NoCompression" THEN c.len ELSE TempSize(p),
     startPosition |-> previousPosition,
     compressedSize |-> c.len,
     crc32hash |-> crc]

\* Wrong: every file starts a CRC of its own.
CrcOfFile(initial, c) == <<c>>

\* A CRC is abstracted to the sequence of the byte strings it was taken over.
updateCRC(initial, c) == Append(initial, c)

\* Wrong: positions advance by the sizes of the original files.
IndexFileByOriginal ==
    /\ Here("index") /\ Exists(Source) /\ disk[Source].len > 0
    /\ LET c == disk[Source]
           crc == IF BuildHash THEN updateCRC(prevCrc, c) ELSE prevCrc
           e == EntryOf(Source, c, crc)
       IN  /\ prevCrc' = crc
           /\ filesInfo' = Append(filesInfo, e)
           /\ previousPosition' = previousPosition + e.uncompressedSize
    /\ numCompressed' = IF arcC = "NoCompression" THEN numCompressed + 1 ELSE numCompressed
    /\ i' = i + 1
    /\ UNCHANGED <<settings, disk, taskVars, numRunningThreads, mtx, tempFilesPaths, ctor, bundle>>

IndexFile ==
    /\ Here("index") /\ Exists(Source) /\ disk[Source].len > 0
    /\ LET c == disk[Source]
           crc == IF BuildHash THEN updateCRC(prevCrc, c) ELSE prevCrc
       IN  /\ prevCrc' = crc
           /\ filesInfo' = Append(filesInfo, EntryOf(Source, c, crc))
           /\ previousPosition' = previousPosition + c.len
    /\ numCompressed' = IF arcC = "NoCompression" THEN numCompressed + 1 ELSE numCompressed
    /\ i' = i + 1
    /\ UNCHANGED <<settings, disk, taskVars, numRunningThreads, mtx, tempFilesPaths, ctor, bundle>>

headerLength == InfoBytes + EntryBytes * Len(filesInfo)
DataStart == 3 + 4 + headerLength

\* Wrong: the index is written with its positions not yet moved.
WriteHeaderUnmoved ==
    /\ ctor = "index" /\ i = Len(Sources)
    /\ ctor' = "copy"
    /\ i' = 0
    /\ bundle' = [info |-> filesInfo, data |-> <<>>, end |-> DataStart]
    /\ UNCHANGED <<settings, disk, taskVars, sharedVars, indexVars>>

\* `YPK', the length and the index, which is serialised a second time once
\* its positions have been moved past the header.
WriteHeader ==
    /\ ctor = "index" /\ i = Len(Sources)
    /\ ctor' = "copy"
    /\ i' = 0
    /\ filesInfo' = [k \in DOMAIN filesInfo |->
                       [filesInfo[k] EXCEPT !.startPosition = @ + DataStart]]
    /\ bundle' = [info |-> filesInfo', data |-> <<>>, end |-> DataStart]
    /\ UNCHANGED <<settings, disk, taskVars, sharedVars, prevCrc, previousPosition>>

\* ... and is passed over in the second.
CopyNull ==
    /\ Here("copy") /\ Exists(Source) /\ disk[Source].len = 0
    /\ i' = i + 1
    /\ UNCHANGED <<settings, disk, taskVars, sharedVars, ctor, indexVars, bundle>>

CopyFile ==
    /\ Here("copy") /\ Exists(Source) /\ disk[Source].len > 0
    /\ LET c == disk[Source]
       IN  bundle' = [info |-> bundle.info,
                      data |-> Append(bundle.data, [at |-> bundle.end, bytes |-> c]),
                      end |-> bundle.end + c.len]
    /\ \/ disk' = IF arcC = "NoCompression" THEN disk ELSE WithoutFile(Source)
       \/ DeleteCanFail /\ disk' = disk
    /\ i' = i + 1
    /\ UNCHANGED <<settings, taskVars, sharedVars, ctor, indexVars>>

CloseBundle ==
    /\ ctor = "copy" /\ i = Len(Sources)
    /\ ctor' = "returned"
    /\ UNCHANGED <<settings, disk, taskVars, sharedVars, i, indexVars, bundle>>

Constructor ==
    \/ Dispatch \/ SpawnTask \/ DetachTask \/ LeaveThrottle \/ EndOfLoop \/ LeaveWait \/ Spin
    \/ CallTask \/ TaskReturns \/ RemoveTemps \/ SortTemps
    \/ SourceMissing \/ IndexNull \/ IndexFile \/ WriteHeader
    \/ CopyNull \/ CopyFile \/ CloseBundle

\* Some other program rewrites or removes an input file meanwhile.
EditInput ==
    /\ Alive /\ edits < MaxEdits
    /\ \E p \in Inputs :
          /\ Exists(p)
          /\ \/ disk' = WithoutFile(p)
             \/ \E n \in Sizes \ {disk[p].len} : disk' = WithFile(p, Original(p, n))
    /\ edits' = edits + 1
    /\ UNCHANGED <<arcC, taskVars, sharedVars, ctor, i, indexVars, bundle>>

Ended == ctor \in {"returned", "threw", "terminated"}
Resting == {"unborn", "threw", "skipped", "done"}

\* Nothing is left to do: a state that is neither one of these nor a spin,
\* and has no step, is a deadlock.
Finished ==
    /\ Ended
    /\ ctor = "terminated" \/ \A t \in Tasks : pc[t] \in Resting
    /\ UNCHANGED vars

Next == Constructor \/ (\E t \in Tasks : CompressionTask(t)) \/ EditInput \/ Finished

Spec == Init /\ [][Next]_vars

\* The operating system runs every thread that can run.
Fairness == WF_vars(Constructor) /\ \A t \in Tasks : WF_vars(CompressionTask(t))
FairSpec == Spec /\ Fairness

-----------------------------------------------------------------------------
(* Properties. *)

Entry == [name : Paths, uncompressedSize : Nat, startPosition : Nat,
          compressedSize : Nat, crc32hash : Seq(Content)]
Chunk == [at : Nat, bytes : Content]
Bundle == [info : Seq(Entry), data : Seq(Chunk), end : Nat]

TaskPoint == {"unborn", "start", "increment", "open", "compress", "create", "write",
              "lock", "push", "fill", "count", "load", "decrement", "unlock", "done",
              "skipped", "threw"}
ConstructorPoint == {"dispatch", "spawn", "detach", "throttle", "wait", "call", "called",
                     "cleanup", "sort", "index", "copy", "returned", "threw", "terminated"}

\* Every variable has its type.
TypeOK ==
    /\ arcC \in ArchiveCompressionType
    /\ edits \in 0..MaxEdits
    /\ DOMAIN disk \subseteq Paths /\ disk \in [DOMAIN disk -> Content]
    /\ pc \in [Tasks -> TaskPoint]
    /\ size \in [Tasks -> Nat]
    /\ out \in [Tasks -> Content]
    /\ loaded \in [Tasks -> Nat]
    /\ numRunningThreads \in 0..(CounterRange - 1)
    /\ numCompressed \in Nat
    /\ mtx \in Tasks \cup {0}
    /\ tempFilesPaths \in Seq(Paths \ {<<>>})
    /\ ctor \in ConstructorPoint
    /\ i \in Nat
    /\ prevCrc \in Seq(Content)
    /\ previousPosition \in Nat
    /\ filesInfo \in Seq(Entry)
    /\ bundle \in Bundle

PastWait == ctor \in {"sort", "index", "copy", "returned"}
Settled == {"load", "decrement", "unlock", "done"}

\* Once the constructor has left the loop that waits for numCompressed, no
\* thread will write a temporary file or push a path any more: all that a
\* late task still touches is numRunningThreads and the mutex.  This rests
\* on the order push_back, numCompressed += 1 inside the lock.
SettledAfterWait ==
    arcC \in Threaded /\ PastWait => \A t \in Tasks : pc[t] \in Settled

\* The vector of temporary files holds exactly the files of the tasks that
\* have pushed, and each of them is complete on the disk while nobody has
\* deleted it.
Pushed == {t \in Tasks : pc[t] \in {"count"} \cup Settled}
TempsMatchTasks ==
    /\ Len(tempFilesPaths) = Cardinality(Pushed)
    /\ \A t \in Pushed : \E k \in DOMAIN tempFilesPaths :
          /\ tempFilesPaths[k] = fpath(t)
          /\ Exists(fpath(t)) => disk[fpath(t)] = out[t]

Written == ctor = "returned" /\ bundle # NoBundle

\* The entries of a bundle tile its data: what ReadData will seek to and
\* read for an entry is the bytes of the file of that name, whole, and the
\* sizes in the entry are those of these bytes and of the original file, as
\* long as nobody else changes the inputs.
IndexMatchesData ==
    Written /\ edits = 0 =>
      /\ Len(bundle.data) = Len(filesInfo) /\ bundle.info = filesInfo
      /\ \A k \in DOMAIN filesInfo :
            LET e == filesInfo[k]
                c == bundle.data[k].bytes
            IN  /\ bundle.data[k].at = e.startPosition /\ c.len = e.compressedSize
                /\ e.name = getRelative(c.of)
                /\ Exists(c.of) /\ disk[c.of] = Original(c.of, e.uncompressedSize)
                /\ bundle.end >= e.startPosition + e.compressedSize

\* Whatever happens to the inputs meanwhile, the entries of a compressed
\* bundle tile its data from the header to the end: the temporary files are
\* the task's own, and both passes see the same ones.
EntriesTileData ==
    Written /\ arcC # "NoCompression" =>
      /\ bundle.info = filesInfo
      /\ Len(bundle.data) = Len(filesInfo)
      /\ \A k \in DOMAIN filesInfo :
            LET from == filesInfo[k].startPosition
                to == from + filesInfo[k].compressedSize
            IN  /\ bundle.data[k].at = from
                /\ bundle.data[k].bytes.len = filesInfo[k].compressedSize
                /\ to = IF k = Len(filesInfo) THEN bundle.end
                        ELSE filesInfo[k + 1].startPosition

\* Every input that is not empty has its entry, whatever order the tasks
\* finished in, if it was the same all the time.
NothingLost ==
    Written /\ edits = 0 => \A p \in Inputs : Exists(p) /\ disk[p].len > 0 =>
                  \E k \in DOMAIN filesInfo : filesInfo[k].name = getRelative(p)

\* The entries of a compressed bundle come in the order of the paths of the
\* temporary files, so the same inputs give the same bundle whichever task
\* finishes first.
OrderIsOfPaths ==
    Written /\ arcC # "NoCompression" =>
      \A j, k \in DOMAIN filesInfo : j < k =>
          LET Temp(n) == TempPath(bundle.data[n].bytes.of, filesInfo[n].uncompressedSize)
          IN  ~ Before(Temp(k), Temp(j))

\* With buildHash, the CRC of an entry is the one chained over all the data
\* from the first byte after the header to the last byte of the entry, as long
\* as nobody else changes the inputs.
CrcCoversData ==
    Written /\ BuildHash /\ edits = 0 =>
      \A k \in DOMAIN filesInfo :
          filesInfo[k].crc32hash = [j \in 1..k |-> bundle.data[j].bytes]

\* No step of the constructor or of a task changes or deletes an input file;
\* only the step of another program counts as an edit.
InputsKept ==
    [][edits' = edits =>
         \A p \in Inputs : Exists(p) => Exists(p)' /\ disk'[p] = disk[p]]_vars

\* A constructor that wrote its bundle, or that gave up in the sequential
\* loop and cleaned up, leaves no temporary file behind.
NoTempLeft ==
    Written \/ (ctor = "threw" /\ arcC \in Sequential) => DOMAIN disk \subseteq Inputs

\* The constructor comes to an end and every task with it, but in two cases.  A
\* task has passed over an empty input, which nobody counts (lines 313-318); or
\* the tasks are all done and lost updates of numRunningThreads (line 304) have
\* left it at the very number the throttle waits to see the last of (line 381).
Skipped == arcC \in Threaded /\ \E t \in Tasks : pc[t] = "skipped"
Miscounted ==
    /\ ctor = "throttle" /\ numRunningThreads = 2 * ProcessorCount
    /\ \A t \in Tasks : pc[t] = "done"
Ends ==
    \/ <>[](Ended /\ (ctor = "terminated" \/ \A t \in Tasks : pc[t] \in Resting))
    \/ <>Skipped
    \/ <>[]Miscounted

\* What the code says of itself and does not keep.

\* `File is null: ..., skipped' (line 317): an empty input is passed over and
\* the constructor still comes to an end.
SkippedThenEnds == (\E t \in Tasks : pc[t] = "skipped") ~> Ended

\* `wait for a few tasks to reduce memory usage' (line 381): the wait is for
\* a few tasks and then goes on, where no file is empty.
ThrottleEnds == ctor = "throttle" ~> ctor # "throttle"
=============================================================================
