----------------------------- MODULE AssetBundle -----------------------------
(***************************************************************************)
(* The life of a bundle (DCA/AssetBundle.cpp): the create constructor of   *)
(* BundleBuilder, then an AssetBundle object, from that constructor or     *)
(* from the one that opens a file, with ListFiles, ReadData,               *)
(* ExtractToDirectory and Close.  The process may die while it writes the  *)
(* bundle; a later one then opens what is on the disk.                     *)
(*                                                                         *)
(* All reads go through one fstream, whose fail bit stays set once a read  *)
(* has come up short, and into a malloc'd segment that is handed on        *)
(* whether the read filled it or not: a caller of ReadData is then given   *)
(* uninitialised memory as the bytes of the file.                          *)
(***************************************************************************)
EXTENDS BundleBuilder

CONSTANTS AskedNames,    \* the names a caller of ReadData may pass
          MaxReads,      \* bound on the calls of ReadData and of ExtractToDirectory
          Mishaps        \* what may go wrong: "crash", the process dies in the
                         \* create constructor; "directory", a directory cannot be
                         \* created; "closed", a caller goes on after Close

ASSUME AskedAssumption == AskedNames \subseteq Paths
ASSUME CallsAssumption ==
    MaxReads \in Nat /\ Mishaps \subseteq {"crash", "directory", "closed"}

VARIABLES object,        \* "none", "live" or "closed"; "exited" after exit(2)
          stream,        \* bundleFile: is it open, is its fail bit set
          index,         \* arrinf.filesInfo of the object
          fileLen,       \* how many bytes of the bundle file are on the disk
          answer,        \* what the last ReadData did
          calls,         \* calls made so far
          extracting,    \* the next file of a running ExtractToDirectory, or 0
          extracted      \* the files ExtractToDirectory has written

objectVars == <<object, stream, index>>
callVars == <<answer, calls, extracting, extracted>>
allVars == <<vars, objectVars, fileLen, callVars>>

-----------------------------------------------------------------------------
(* The bytes of the bundle file and what ReadData makes of them. *)

Answer(kind, name, bytes) == [kind |-> kind, name |-> name, bytes |-> bytes]
NoAnswer == Answer("none", <<>>, NoBytes)

\* Wrong: the last byte of the file counts as past its end.
ReadsWellBeforeEnd(e) ==
    /\ stream.open /\ ~ stream.failed
    /\ e.startPosition + e.compressedSize < fileLen

\* bundleFile.seekg(startPosition) and bundleFile.read(segment, size).
ReadsWell(e) ==
    /\ stream.open /\ ~ stream.failed
    /\ e.startPosition + e.compressedSize <= fileLen

Segment(e) ==
    LET chunks == {bundle.data[k] : k \in DOMAIN bundle.data}
        hits == {c \in chunks : c.at = e.startPosition /\ c.bytes.len = e.compressedSize}
    IN  IF ReadsWell(e) /\ hits # {} THEN (CHOOSE c \in hits : TRUE).bytes
        ELSE Uninitialised(e.compressedSize)

\* What each decoder can make of bytes that no encoder wrote; lz77 throws from
\* push_bytes, which nothing catches.
OnJunk == [LZMA2 |-> {"null", "bytes", "threw"}, LZ77 |-> {"bytes", "threw"},
           FastAri |-> {"bytes"}, LZSSE |-> {"bytes", "threw"}, LZJB |-> {"threw"},
           BSC |-> {"bytes", "exited"}, LZP |-> {"bytes", "exited"},
           NoCompression |-> {"bytes"}]

\* Wrong: equal sizes mean a stored file with every type.
StoredBySizes(e) == arcC = "NoCompression" \/ e.uncompressedSize = e.compressedSize

Stored(e) ==
    \/ arcC = "NoCompression"
    \/ arcC \in StoresIncompressible /\ e.uncompressedSize = e.compressedSize

\* lzjb_decompress is given outSiz = 0 as the room it may write to: it can
\* only answer that this is not enough.  What is made of junk is some bytes that
\* no file has; that there may be more or fewer of them is left out.
Answers(name, e, seg) ==
    CASE Stored(e) -> {Answer("bytes", name, seg)}
      [] ~ Stored(e) /\ arcC = "LZJB" -> {Answer("threw", name, NoBytes)}
      [] ~ Stored(e) /\ arcC # "LZJB" /\ seg.layers = 0 ->
           {Answer(kind, name, IF kind = "bytes" THEN Uninitialised(e.uncompressedSize)
                               ELSE NoBytes) : kind \in OnJunk[arcC]}
      [] ~ Stored(e) /\ arcC # "LZJB" /\ seg.layers # 0 ->
           {Answer("bytes", name, [of |-> seg.of, layers |-> seg.layers - 1,
                                   len |-> e.uncompressedSize])}

Found(name) == {k \in DOMAIN index : index[k].name = name}

\* Wrong: the search does not stop at the name.
LastListed(name) == Len(index)

FirstFound(name) == CHOOSE k \in Found(name) : \A j \in Found(name) : k <= j

\* ReadData, for a call of its own and for each file of an extraction.
ReadData(name) ==
    \/ /\ Found(name) = {}
       /\ answer' = Answer("refused", name, NoBytes)
       /\ UNCHANGED stream
    \/ /\ Found(name) # {}
       /\ LET e == index[FirstFound(name)] IN
            /\ answer' \in Answers(name, e, Segment(e))
            /\ stream' = [stream EXCEPT !.failed = ~ ReadsWell(e)]

-----------------------------------------------------------------------------
AllInit ==
    /\ Init
    /\ object = "none"
    /\ stream = [open |-> FALSE, failed |-> FALSE]
    /\ index = <<>>
    /\ fileLen = 0
    /\ answer = NoAnswer
    /\ calls = 0
    /\ extracting = 0
    /\ extracted = <<>>

\* The create constructor and its tasks.  When it returns, the object is
\* there, with bundleFile open if the bundle was written and not otherwise.
\* Nothing more reaches the disk once the process is dead.
Create ==
    /\ Next
    /\ fileLen' = IF ctor = "terminated" THEN fileLen ELSE bundle'.end
    /\ IF ctor' = "returned" /\ ctor # "returned"
       THEN /\ object' = "live"
            /\ stream' = [stream EXCEPT !.open = bundle # NoBundle]
            /\ index' = filesInfo
       ELSE UNCHANGED objectVars
    /\ UNCHANGED callVars

\* The process dies; of the bundle, a prefix is on the disk.
Crash ==
    /\ "crash" \in Mishaps /\ ~ Ended
    /\ ctor' = "terminated"
    /\ fileLen' \in 0..bundle.end
    /\ UNCHANGED <<settings, disk, taskVars, sharedVars, i, indexVars, bundle, objectVars,
                   callVars>>

CanOpen ==
    /\ Ended /\ object \in {"none", "closed"}
    /\ extracting = 0 /\ calls < MaxReads
HeaderLen == 7 + InfoBytes + EntryBytes * Len(bundle.info)

Open ==
    /\ CanOpen /\ bundle # NoBundle /\ fileLen >= HeaderLen
    /\ object' = "live"
    /\ stream' = [open |-> TRUE, failed |-> FALSE]
    /\ index' = bundle.info
    /\ calls' = calls + 1
    /\ UNCHANGED <<vars, fileLen, answer, extracting, extracted>>

\* The header ends early: what DeserializeInfo is given is in part
\* uninitialised memory.  It throws, or it makes out entries that are not
\* there; the stream has failed.
OpenCutHeader ==
    /\ CanOpen /\ bundle # NoBundle /\ fileLen < HeaderLen
    /\ \/ UNCHANGED objectVars
       \/ \E name \in AskedNames :
            /\ object' = "live"
            /\ stream' = [open |-> TRUE, failed |-> TRUE]
            /\ index' = <<[name |-> name, uncompressedSize |-> 1, startPosition |-> 0,
                           compressedSize |-> 1, crc32hash |-> <<>>]>>
    /\ calls' = calls + 1
    /\ UNCHANGED <<vars, fileLen, answer, extracting, extracted>>

Usable == object = "live" \/ (object = "closed" /\ "closed" \in Mishaps)
Idle == Usable /\ extracting = 0 /\ calls < MaxReads

CallReadData(name) ==
    /\ Idle
    /\ ReadData(name)
    /\ object' = IF answer'.kind = "exited" THEN "exited" ELSE object
    /\ calls' = calls + 1
    /\ UNCHANGED <<vars, index, fileLen, extracting, extracted>>

CallExtract ==
    /\ Idle
    /\ extracting' = IF index = <<>> THEN 0 ELSE 1
    /\ extracted' = <<>>
    /\ calls' = calls + 1
    /\ UNCHANGED <<vars, objectVars, fileLen, answer>>

\* One file of ExtractToDirectory: read it by its name and write it out.  An
\* exception of ReadData leaves the loop; writing from the null pointer of a
\* failed LZMA2 decoder ends the process unless there is nothing to write.
ExtractFile ==
    /\ Usable /\ extracting > 0
    /\ ReadData(index[extracting].name)
    /\ \/ /\ answer'.kind \in {"bytes", "null"}
          /\ extracted' = [n \in DOMAIN extracted \cup {answer'.name} |->
                             IF n = answer'.name THEN answer'.bytes ELSE extracted[n]]
          /\ extracting' = IF extracting = Len(index) THEN 0 ELSE extracting + 1
          /\ UNCHANGED object
       \/ /\ answer'.kind \in {"threw", "exited", "null"}
          /\ extracting' = 0
          /\ object' = IF answer'.kind = "threw" THEN object ELSE "exited"
          /\ UNCHANGED extracted
    /\ UNCHANGED <<vars, index, fileLen, calls>>

\* fs::create_directory throws when the directory above is not there.
DirectoryFails ==
    /\ "directory" \in Mishaps /\ extracting > 0
    /\ extracting' = 0
    /\ answer' = Answer("threw", index[extracting].name, NoBytes)
    /\ UNCHANGED <<vars, objectVars, fileLen, calls, extracted>>

\* close() of a stream that is not open sets its fail bit.
Close ==
    /\ object = "live" /\ extracting = 0
    /\ object' = "closed"
    /\ stream' = [open |-> FALSE, failed |-> stream.failed \/ ~ stream.open]
    /\ UNCHANGED <<vars, index, fileLen, callVars>>

AllNext ==
    \/ Create \/ Crash \/ Open \/ OpenCutHeader
    \/ (\E name \in AskedNames : CallReadData(name))
    \/ CallExtract \/ ExtractFile \/ DirectoryFails \/ Close

AllSpec == AllInit /\ [][AllNext]_allVars

-----------------------------------------------------------------------------
(* Properties. *)

\* Every variable of the object has its type.
ObjectTypeOK ==
    /\ TypeOK
    /\ object \in {"none", "live", "closed", "exited"}
    /\ stream \in [open : BOOLEAN, failed : BOOLEAN]
    /\ index \in Seq(Entry)
    /\ fileLen \in 0..bundle.end
    /\ answer \in [kind : {"none", "refused", "bytes", "null", "threw", "exited"},
                   name : Paths, bytes : Content]
    /\ calls \in 0..MaxReads
    /\ extracting \in 0..Len(index)
    /\ DOMAIN extracted \subseteq Paths

\* The bundle file is as the create constructor leaves it: every entry's data is
\* in it, and all of it is on the disk.
Intact ==
    /\ bundle # NoBundle
    /\ Len(bundle.data) = Len(bundle.info) /\ fileLen = bundle.end
WholeOnDisk(name) ==
    \E k \in DOMAIN bundle.data :
        /\ getRelative(bundle.data[k].bytes.of) = name
        /\ bundle.data[k].at + bundle.data[k].bytes.len <= fileLen

AreOfInput(name, bytes) ==
    \E p \in Inputs : getRelative(p) = name /\ Exists(p) /\ disk[p] = bytes

\* What ReadData gives the caller as the bytes of a name are the bytes of the
\* input of that name, unpacked and whole, as long as the bundle is open and
\* not cut off.  From a bundle that a crash has cut off, bytes that are not
\* those of the input come as quietly as the right ones (lines 690-695), but
\* only for a file that is not whole on the disk, and from the first read that
\* came up short on for every file; from a stream that is not open, always.
\* Writer and reader agree without a flag on which entries are stored: the
\* reader compares the two sizes.
GivesWhatWasPacked ==
    [][/\ ExtractFile \/ \E name \in AskedNames : CallReadData(name)
       /\ answer'.kind = "bytes" /\ ~ AreOfInput(answer'.name, answer'.bytes)
       => \/ ~ stream.open
          \/ ~ Intact /\ (stream.failed \/ ~ WholeOnDisk(answer'.name))]_allVars

\* As long as no read of the stream has come up short, every file whose
\* bytes are whole on the disk can be read and comes as it was packed, also from
\* a bundle that a crash cut off later on.  LZJB is left out: its packed files
\* never can be (line 772).
WholeIsReadable ==
    [][\A name \in AskedNames :
         /\ CallReadData(name)
         /\ stream.open /\ ~ stream.failed /\ arcC # "LZJB"
         /\ WholeOnDisk(name)
         => answer'.kind = "bytes" /\ AreOfInput(name, answer'.bytes)]_allVars

\* An extraction that goes through its last file has written every file of the
\* index, whatever bundle it is of; and if the bundle is open and not cut off,
\* each with the bytes of the input of its name.
ExtractionComplete ==
    [][/\ ExtractFile
       /\ extracting = Len(index) /\ answer'.kind # "threw" /\ object' # "exited"
       => \A k \in DOMAIN index :
             /\ index[k].name \in DOMAIN extracted'
             /\ stream.open /\ Intact => AreOfInput(index[k].name, extracted'[index[k].name])
      ]_allVars

\* An AssetBundle is an Archive, as long as no file is empty, no codec makes
\* nothing of one, the process lives and nobody reads after Close.
NamesOfInputs == {getRelative(p) : p \in Inputs}
InputOf(name) == CHOOSE p \in Inputs : getRelative(p) = name
A == INSTANCE Archive WITH
       Names <- AskedNames \cup NamesOfInputs,
       Contents <- {Original(p, n) : p \in Inputs, n \in Sizes},
       NoName <- <<>>,
       Nothing <- NoBytes,
       stored <- IF Written THEN [name \in NamesOfInputs |-> disk[InputOf(name)]] ELSE <<>>,
       reply <- [name |-> answer.name,
                 got |-> IF answer.kind \in {"bytes", "none", "refused"} THEN answer.bytes
                         ELSE Packed(NoBytes, 0)]
IsAnArchive == A!Spec
=============================================================================
