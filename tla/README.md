# AssetBundleCPP: a formal model

AssetBundleCPP (`src/DCA`) is a C++ library that packs files into one archive,
the asset bundle, with one of seven compression types or none, and reads them
back. This directory holds TLA+ modules that model it, the TLC configurations
that check them on small instances, and proofs, checked by TLAPS, of what holds
for every value of the parameters.

Contents: [inventory](#inventory) ·
[hard behaviours](#what-is-hard-here) · [modules](#modules) ·
[runs](#runs) · [bounds](#bounds) · [fairness](#fairness) ·
[proofs](#proofs) · [where the code and its words disagree](#where-the-code-and-its-words-disagree) ·
[not modelled](#what-is-not-modelled) · [plan](#plan)

## Inventory

| part | source | state it keeps | operations | what makes it correct |
|---|---|---|---|---|
| bundle builder | `AssetBundle.cpp` 145-581 | the vector of temporary files, a plain and an atomic counter, a mutex, the files on the disk, the index, the bundle as far as written | the creating constructor; `CompressionTask`, one detached thread per file or a plain call; `CompressFile` | every input is in the bundle once and whole, index and data agree, order does not depend on the threads, temporary files go, it ends |
| bundle object and reader | `AssetBundle.cpp` 583-867 | one `fstream` with its fail bit, the index | the opening constructor, `ListFiles`, `ReadData`, `ExtractToDirectory`, `Close` | what is read is what was packed; wrong bytes come only of what a crash cut off |
| archive index | `ArchiveInfo.h`, over the vendored `serializer.h` | the list of entries; the growing archive buffer | serialise, deserialise | what is read back is what was written, with the same length both times |
| LZ77 codec | `lz77/lz77.h` | packer: position, pending octets, hash table; unpacker: a state machine that survives from one chunk to the next | `compress_t::feed`, `decompress_t::feed`, `result`, `remaining` | messages arrive whole and in order, wherever the octets are cut |
| FastAri codec | `fastari/FastAri.{cpp,h}` | the interval `low..high`, the model `mdl`, the context, a bare read pointer | `fa_compress`, `fa_compress_2013`, `fa_compress_safe` and their decoders | decoder and coder stay in step, the interval never runs empty, no byte is read past the last |
| MTAri block driver | `fastari/MTAri.cpp` | a buffer per OpenMP thread, an error counter all threads share | `mtfa_compress`, `mtfa_decompress` | blocks stay in order, an error of any thread is seen, a success is the whole file, every buffer is freed once |
| LZJB codec | `lzjb/lzjb.c` | copy map, table of last places | `lzjb_compress`, `lzjb_decompress` | the flags of a group fit the copy map; output bounds |
| LZSSE codecs | `lzsse/` | control blocks, the search structures, the offset last used | three coders, two parses, three decoders | what is packed comes back although vectors overwrite each other; output bounds |
| LZP filter | `libbsc/lzp/lzp.cpp` | the table of contexts | five encoders, a decoder, blocks | both sides update the table alike |
| libbsc block sorter | `libbsc/bwt/` | one array that holds suffixes, buckets, cached entries and the shorter texts of the recursion | `libsais*`, `bsc_bwt_encode`, `bsc_bwt_decode` | suffixes are sorted in every mode, by one thread or a team; the transform comes back |
| LZMA and LZMA2 coder | `LzmaEnc.c`, `LzmaDec.c`, `Lzma2Enc.c`, `Lzma2Dec.c` | range coder, probabilities, dictionary, input kept for later | encode, decode in pieces of any size | what is encoded comes back; pieces make no difference |
| LZMA2 threaded encoder | `MtCoder.c`, callbacks of `Lzma2Enc.c` | threads, a baton, a ring of blocks, a semaphore of buffers | `MtCoder_Code`, `ThreadFunc` | one reads, one writes, blocks in order, the result tells, all threads end |
| LZMA2 threaded decoder | `MtDec.c`, `Lzma2DecMt.c` | threads, two rings of events, links of input, one fallback decoder | `MtDec_Code`, `Lzma2DecMt_Decode` | turns are taken and not lost; what comes out is what one thread would give |
| LZMA2 wrapper | `LzmaUtil.cpp` | in- and output streams around the SDK | `LzmaUtil::Compress`, `Decompress` | the output buffer grows with what is written; a failure is seen by the caller |
| libbsc, the rest; the rest of the SDK; FPC; SHA-256; zpp serializer | vendored | | | left aside |
| DLL entry point | `dllmain.cpp` | none | none | it does nothing |

(Paths of codecs are below `src/DCA/compressionTypes`, those of the SDK below
`lzmasdk` there.)

How the parts meet. The creating constructor starts all tasks, each of which
reads one input, calls the codec of the bundle's type, writes the result to
`<input>.<size>` and, under a mutex, appends that path to a vector and counts
itself. The constructor spins until all have, sorts the paths, makes a first
pass over the temporary files for the index (name, both sizes, position, a CRC
chained over all files), serialises the index to learn its length, moves the
positions past it, writes the header, and makes a second pass that copies the
data and deletes the temporary files. LZMA2 and LZSSE call the task in turn
instead, and with `NoCompression` both passes go over the inputs themselves. A
reader opens the file, takes the index from its header, and for each name seeks,
reads, and unpacks - or not, when the two sizes of an entry are equal and the
type is one that stores what it cannot shrink. The codecs are called with whole
buffers; LZMA2 is the only one that starts threads of its own. The type BSC goes
through `bsc_compress`, which is LZP, block sorting and QLFC; the type LZP
through the LZP filter alone.

## What is hard here

`PROJECT.json` lists every hazard at its line. They are of these kinds:

* threads: a counter changed by tasks without the lock the other half of its
  changes takes; a count and a vector that must change in the right order; a
  constructor that may return while a task is still about to touch its locals;
  batons and turns that go round rings of threads, some of which are created
  meanwhile; a handle and a counter read unprotected;
* waiting: two busy loops, one of which tests for equality with a value that a
  lost update can leave for good, and one that counts only the tasks that
  succeed; threads that wait for buffers, places and turns that others must
  give back whatever has failed;
* failure half-way: exceptions in detached threads (they end the process), in
  sequential calls (a catch block deletes), in the second pass (they leave a
  header without its data), a crash while the bundle is written in place, a
  block that fails behind others still to be written, a decoder that falls back
  to one thread in the middle of a stream;
* one thing measured twice: sizes and positions from the first pass with data
  from the second, the header's length with its contents;
* a protocol without flags: the reader infers from two sizes whether a file is
  packed;
* codecs that carry state over chunk boundaries, rest on the arithmetic of
  32-bit words with no check, or keep several things in the two top bits of an
  entry of one array.

## Modules

`PROJECT.json` maps each definition to its lines.

| module | models | with |
|---|---|---|
| `BundleBuilder` | the creating constructor and its tasks | `MCBundleBuilder`, `AssetBundleProofs` |
| `AssetBundle` (extends `BundleBuilder`) | the life of a bundle: create, perhaps crash, open, read, extract, close | `MCAssetBundle`, `AssetBundleProofs` |
| `Archive` | what an archive promises, the specification `AssetBundle` implements | |
| `FastAri` | the three arithmetic coders and decoders | `MCFastAri`, `FastAriProofs` |
| `MtCoder` | the threads of the LZMA2 encoder | `MtCoderProofs` |
| `Lzma2DecMt` (extends `Lzma2Stream`, the parser and decoder of chunks) | the threads of the LZMA2 decoder | `MCLzma2DecMt`, `Lzma2DecMtProofs`, `Lzma2DeliveryProofs` |
| `Delivery` | what a decoder promises, the specification `Lzma2DecMt` implements | |
| `Lz77` | the LZ77 packer and the unpacker that is fed chunks | `MCLz77`, `MCMachines`, `Lz77Proofs` |
| `Recursions` | nothing of the program: induction and recursion over numbers, for the proofs of `Lz77`, `Lzma2DecMt` and `MTAri` | |
| `MTAri` | the block driver of FastAri | `MCMachines`, `MTAriProofs` |
| `LzmaModel`, `LzmaEnc`, `LzmaDec`, `Lzma2`, `LzmaStream` | the LZMA coder, LZMA2's chunks, and data on its way through them | `MCMachines` |
| `SaisText`, `SaisTeam`, `SaisPartial`, `SaisNames`, `SaisFinal`, `SaisUnbwt`, `Sais` | libsais and `bsc_bwt_*`, one stage to a module | `MCMachines` |
| `Lzjb`, `Lzsse`, `Lzp` | codecs as functions | `Codecs`, `MCFastAri` |

### BundleBuilder

`ctor` is the program counter of the constructor and `pc[t]` that of task `t`.
A task is the thread of a threaded type or the call of a sequential one; the
actions are the same, only who starts them and what an exception does differ.
What other threads can see happen in between is a step of its own: the load and
the store of `numRunningThreads++` and `--` (a data race on a plain `unsigned`;
the two halves are interleaved freely, which is what the compiled code can do),
creating and filling a temporary file, finding the end of the vector and
filling it. What nobody else can see is one step: reading a file and
compressing it (`CompressFile`), the whole sort, the entry of a file with its
CRC, the serialisation and the header.

| variable | in the code |
|---|---|
| `numRunningThreads` | `currentNumRunningThreads`, `% CounterRange` for the 2^32 of `unsigned` |
| `numCompressed`, `mtx`, `tempFilesPaths` | the same names |
| `loaded[t]` | the register or the vector end task `t` works with |
| `disk` | every file but the bundle: its path gives its bytes |
| `bundle` | the bundle: the index in its header, the data with their places, its length |
| `previousPosition`, `prevCrc`, `filesInfo` | the same names |

Bytes are abstracted to `[of, layers, len]`: the path they come from, how often
they were compressed, and how many there are. `Compressions(c)` is the set of
what a codec may make of bytes: packed to any of `PackedSizes`, or stored as
they are if its `CompressFile` branch does that and the packed form is not
smaller; LZJB and a failed LZMA2 encoder may also give nothing. A path is a
sequence, so that `filePath + "." + size` is an `Append` and parsing the size
back is taking the last part. A CRC is the list of what it was taken over.

Left out, by choice: `malloc` and thread creation do not fail; a write to a
temporary file or to the bundle does not fail; progress messages. A codec that
gives null is followed as the release build does: the assertion of line 335 is
taken to be compiled out (`NDEBUG`); a debug build would abort there.
`DeleteFileA` may fail when `DeleteCanFail`. `EditInput` is not in the code: it
is another program changing an input while the constructor runs, at most
`MaxEdits` times.

### AssetBundle and Archive

`Create` is a step of `BundleBuilder`; when the constructor returns the object
is live. `Crash` ends the process and leaves a prefix of the bundle on the disk
(`fileLen`). `Open` and `OpenCutHeader` are the second constructor, on a whole
and on a cut header (what is deserialised is then partly uninitialised memory).
`stream` is the one `fstream`: a read that comes up short sets its fail bit,
nothing clears it, and later reads do nothing. `ReadData` is an operator that
`CallReadData` and `ExtractFile` share, as in the code. `Answers` has, for each
type, what its branch of `ReadData` can do with the bytes it got: give them,
unpack them, and with bytes no packer wrote (`OnJunk`) return a buffer of the
size asked for, null, throw, or call `exit(2)`. A read that fails leaves a new
array as it was allocated, and what `ReadData` makes of it goes to the caller
as bytes like any others: the model gives bytes that are of no input, and the
properties speak of them. `ListFiles` only reads the index.

`Archive` has two operations: publish some files, and read one. `A ==
INSTANCE Archive WITH stored <- ..., reply <- ...` maps a bundle to the files
whose constructor came to its end, and `IsAnArchive == A!Spec` says that every
step of the bundle is a step of the archive or a stutter.

### FastAri

One message goes through a coder and the decoder of the same variant: `2013` is
what `AssetBundle` calls, `safe` what MTAri calls. A word is four bytes of
`Base` values; the code has `Base` = 256 and the arithmetic is the same for any.
Shifts and masks are written as `*`, `\div` and `%`; nothing cuts a result to a
word, so that `TypeOK` is what shows that no cut is needed. `Taken` gives 0 past
the end of the buffer, which `NoOverread` shows never to be asked for.

### MtCoder

`main` is `MtCoder_Code`, `pc[t]` a thread of `ThreadFunc`, `me[t]` its locals.
`readEvent` is the baton: whoever has it reads the next block, creates the next
thread if there is reason to, and passes it on. `blockBufs` are taken under a
semaphore, `blocks` is the ring of what waits to be written, and `writeIndex`
says which block is next or, as -1, that somebody is writing. A block is where
its data begins, its size and whether it is the last. Everything that the code
tests for failure may fail, each kind when `Faults` has it; the system calls on
events do not. The race between the handle a thread stores and the counter
another one reads (`MtCoder.c` 357-358) is in the order of the steps.

### Lzma2DecMt, Lzma2Stream and Delivery

A stream is a sequence of symbols: the header of a chunk that begins a block,
any other header, the data of a chunk, damage, the end marker. `Lzma2Stream`
has what the parser (which only looks for ends of blocks) and the decoder make
of them. In `Lzma2DecMt`, `threads[t].canRead` and `.canWrite` are the events
of the two rings, `threads[t].inBuf` the links of input, `coders[t]` the
decoder of a thread, `crossBlock` what was read past the end of a block, and
`st` the decoder that goes on alone. `main` is the call of `Lzma2DecMt_Decode`:
with several threads, fetching what they have left, decoding alone, done.
Thread 0 is the caller itself, as in the code. As `LzmaUtil` calls it,
`finishMode` is 1 and the size of the output is given; it may be wrong by one of
`SizeErrors`. `Delivery` is the promise: what is wanted comes out in order, and a
verdict at the end.

### Lz77

The left part of `vars` is the packer: it passes over the message octet by
octet (`PassOctet`, into `unc`) or finds an earlier place with at least
`MinRun` octets in common (`PackRun`). Which places its hash table holds is left
open, so every table, and every collision in it, is covered. `wire` is what was
written; the decoder takes it in chunks that end anywhere (`Feed`). Its `state`,
`vlq`, `msg`, `size`, `ret` are those of `decompress_t` and its `state_t`.
`pop_vlq_uint` is `PopDigit` and the actions that take the last digit.

### MTAri

A file is packed round by round, `tcnt` blocks in a round, and unpacked again,
perhaps after it was cut. Between load and store of `rc` threads interleave.
This repository is built without OpenMP, where `tcnt` is one; both are modelled.
Nobody looks at what `fwrite` returns. A write that fails ends the file there,
and nothing is added after it, as on a disk that is full: that it does not
recover is an assumption. Of the buffers, `memory` is the state of an `ibuf`
with its `obuf` and `work` the `wbuf`s that are allocated. `readme.md:14` says
that MTAri "DOESN'T work now", and no code calls it; it is modelled as it is, and
`MTAriOutcome` names what is wrong with it.

### LZMA

`LzmaModel` is what both sides share. An encoder and a decoder are records; a
step of `LzmaStream` encodes one symbol, finishes a chunk, harms a byte, or gives
the decoder more input or room. The choice of symbols by the optimal parse is
any that is true of the data (`Sayable`), its prices are left out;
`GetOptimumFast` is exact, over a match finder that gives the nearest place of
each length.

### libsais

One memory, a function of addresses, holds the suffix array, the buckets and in
a recursion the text itself in the free end. Each pass of the C code is an
operator from memory to memory, and a step of `Sais` is a stage: the naming of
LMS suffixes, a recursion, the way back, the final sweeps. A team does what its
threads do between two barriers one after the other, in an order that is a
parameter: their parts are disjoint. OpenMP is a build option that the
project does not use; both builds are modelled. Memory holds junk at first, heap
requests fail if `scarce`.

### Codecs

`Lzjb`, `Lzsse` and `Lzp` are functions of their input; a state of `Codecs` is
one input and its step applies the codec and its inverse. Where the program uses one
variant of several, the others are modelled as builds too. What a codec writes is
kept with how far it stored: LZSSE stores whole vectors, so that the end of what
is stored lies beyond the end of what is meant, and LZP's decoder stores words
ahead in a build with unaligned access. LZSSE's decoders are also run on a stream
with an offset damaged, which leads before the output (`BeforeOutput`,
`MATCH_UNDERFLOW` in the code) or elsewhere. LZP's decoder has no limit for its
output and is run on what the encoder made.

## Runs

All were run with TLC to the end. The four "violation" runs show a disagreement (below).

| run | properties | what it shows |
|---|---|---|
| `builder_threads` | `SettledAfterWait`, `TempsMatchTasks`, `OrderIsOfPaths`, `Ends` | three threads and the constructor in every interleaving, on one processor: no task is late with a file or a path, the vector is what the tasks pushed, the bundle's order is that of the paths; constructor and tasks end, unless a thread met an empty input or lost updates left the counter at the number the throttle waits on |
| `builder_bundle` | `TypeOK`, `IndexMatchesData`, `CrcCoversData`, `EntriesTileData`, `NothingLost`, `NoTempLeft`, `InputsKept` | seven types (all but FastAri, which takes the way of LZP), missing and empty inputs, every outcome of the codecs, and an input that another program changes: what the index says is what the data are, and with an input changing the entries of a compressed bundle still tile its data |
| `builder_null_waits` | `SkippedThenEnds` | violation |
| `builder_throttle` | `ThrottleEnds` | violation |
| `bundle_archive` | `IsAnArchive` | five types, made and read three times: the object implements the archive |
| `bundle_crash` | `GivesWhatWasPacked`, `WholeIsReadable`, `ExtractionComplete` | a crash at every point of the writing, directories that cannot be made, reads after `Close`, empty inputs: wrong bytes come of a bundle that is cut off or of a stream that is not open and of nothing else, and until a read comes up short only for what is not on the disk |
| `fastari` | `TypeOK`, `Splittable`, `InStep`, `RoundTrip`, `NoOverread`, `ShiftWidens`, `ComesBack`, `StaysInside` | FastAri, every message of up to five bytes of two bits and long runs of one bit, through the three variants; and beside it `Codecs`: LZJB, LZSSE and LZP on every input of a bounded set, LZJB's decoder on every short stream, LZSSE's on damaged ones |
| `mtcoder` | `OneReader`, `OneWriter`, `BuffersApart`, `WrittenInOrder`, `OKMeansWhole`, `NobodyWorks`, `Ends` | two threads, three places in the ring, data that ends within, at and behind a block, and every fault at every point |
| `lzma2_dec` | `InTurn`, `AheadAgrees`, `Delivers`, `Ends` | three threads on sound, cut and damaged streams, blocks too small and too large, wrong sizes, and every fault: turns are taken, the parser is right, whoever takes over gets all that was read, and the decoder implements `Delivery` |
| `lzma2_cut` | `OKMeansFinished` | violation |
| `lzsse_room` | `FastStaysInside` | violation |
| `machines` | `InOrder`, `NeverMalformed`, `AllArrive`, `MTAriOutcome`, `LzmaComesBack`, `BlocksSorted` | four machines that share nothing, side by side (below) |

`machines` has LZ77 (every message of up to seven octets of two values, pairs of
short ones, and some whose size and runs take two digits, under every choice of
runs and every cut into chunks), MTAri (files of up to three blocks whose reads,
writes, blocks and allocations fail, cut at every field), LZMA and LZMA2 (short texts
under any true parse, longer ones under the fast parse, cut into pieces, and harmed at
every byte), and libsais with `bsc_bwt_*` (texts of up to 30 characters in every
mode of the recursion, with more and less free space, one to three threads,
and heap requests that fail).

Each property has, in `PROJECT.json`, a changed definition (`Wrong:` in its
comment) that stands for a plausible bug, and TLC finds the property violated
with it.

`CHECK_DEADLOCK` is on in the runs of `BundleBuilder`, `AssetBundle` and
`FastAri`: a state in which nothing can go on, and which is not one of the ends
that `Finished` names, would be an error. It is off where the machine ends by
having nothing left to do (`mtcoder`, `lzma2_*`, `machines`, `lzsse_room`); for the
threaded ones `Ends` says that it stops nowhere else.

## Bounds

* Three tasks, on one processor, put the throttle's threshold (2) below the
  number of tasks, which is what it takes to reach it; with a lost update it is
  reached for good, which `Ends` names and `builder_throttle` shows. Two tasks
  are enough
  for the sort, for positions that add up and for CRCs that chain; they give
  every outcome of the codecs room.
* `CounterRange` = 8 stands for 2^32: it is above what the counter can reach by
  counting, so a decrement below zero wraps as in the code and nothing else does.
* Sizes 0, 2, 3 and packed sizes 0, 1, 2, 3 have the cases the code tells
  apart: empty, smaller, equal, larger. One edit of an input is enough to have
  it change between any two reads.
* `InfoBytes`, `EntryBytes`: any fixed lengths; an entry's length does not
  depend on the position in it, as in the code (fixed-width integers).
* `MaxReads` = 3: one call that fails, one after it, and an extraction or a
  second opening.
* `FastAri`: bytes of two bits, so words of eight; the probabilities (1/16)
  reach both of their limits, the interval falls below `Half`, where the split
  is at `low`.
* `MtCoder`: two threads and blocks of two bytes; three places in the ring are
  fewer than the four blocks of 7 or 8 bytes, so that places and buffers are
  used again.
* `Lzma2DecMt`: three threads are the least for which a thread between the reader
  and the writer exists. Links of two places, so that blocks cross links;
  `MinBlock` and `OutBlockMax` of two and three chunks have blocks too small to
  be handed out alone and too large to be kept.
* `Lz77`: `VlqBase` = 8, `MinRun` = 2, `ShortrunMax` = 2 stand for 128, 5 and 8.
  A run of three is then already a long one with a number of its own, a run
  may reach into itself, offsets and lengths take two digits from four octets
  on, and sizes from eight. `MaxSizes` has none and one that refuses some
  messages.
* MTAri: two threads, blocks of two bytes and files of none, one and five give two
  rounds with a short last block; a size has four digits of base 4 and an int two.
* LZMA: bytes of two bits, a range of four bytes, distances up to 15,
  `InputMax` = 7 bytes for symbols of 13 bits and a few. The control bytes of
  LZMA2 are 0, 1, 2 and 4 + mode, sizes two digits of base 4, and `CopyMargin`
  = -6 in place of 2 makes both kinds of chunks worth while for texts this short.
* libsais: `Word` 4096, `Alphabet` 4, and a team from 4 suffixes on in blocks of
  2, so that all the code does for large inputs it does here. Left out: `freq`,
  the contexts kept between calls (the same functions with memory given), the
  unrolled histogram for n >= 1024, a base address that is not aligned, and
  a team that OpenMP makes smaller than asked.
* LZJB: bytes of two bits and groups of three items stand for eight and twelve:
  more items than bits, as in the code. LZSSE: vectors of five bytes, blocks of
  four controls. LZP: words of two bytes, and one slot of the table (what
  `1 << 0x400`, undefined in C, makes of it on x86) or three.

## Fairness

`FairSpec` of `BundleBuilder` has weak fairness of the constructor and of each
task: the operating system runs a thread that can run. Weak fairness of `Lock`
is enough because a task takes the mutex once. Nothing fair is asked of
`EditInput`, of codecs or of files. `MtCoder` and `Lzma2DecMt` have weak fairness
of a step of some thread, or of each: a waiting thread is woken
when its event is set, which is all the code asks for. The violations of
`SkippedThenEnds` and `ThrottleEnds` are found under the same fairness: there the
constructor runs for ever in a loop that nobody can end.

## Proofs

Eight modules hold proofs; `PROJECT.json` lists the theorems. Every proof is for
all values of the constants that satisfy the named assumptions, which TLC
evaluates in every run.

### The constructor (`AssetBundleProofs`, first two parts)

For any list of inputs, types, sizes and processors:

* `TypeCorrect`: `Spec => []TypeOK`.
* `NobodyIsLate`: `Spec => []SettledAfterWait`. It is not inductive: that the
  wait is over says only that `numCompressed` is `argslen`. What it needs is
  `CountMatches`, that `numCompressed` is the number of the tasks past their
  count; then all tasks are past it by a cardinality argument. `CountMatches`
  needs that no task is started twice or early (`NotYetStarted`), and the exact
  count of each step. `LockInv` says beside it that a task between lock and
  unlock is alone and that the vector's end it found still is the end.
* `VectorIsOfTasks`, `EntriesFit`, `IndexIsRight`, `CrcIsChained`,
  `OrderIsFixed`, `EveryInputIsThere`, `NothingIsLeft`, `InputsAreKept`: the
  contents of the bundle, from the invariant `CInv == IInv /\ AtRest /\ VectorInv
  /\ FilesInv /\ PassesInv`.

The argument for the contents. A path that is no input belongs to one task, which
writes the file once, before it pushes the path. After the wait nobody writes
files any more, except that the copying deletes them. The vector has one slot for
each task that pushed: different tasks have different slots, so that by counting every
slot is some task's, before and after the sort. The first pass finds each file whole; and the
second finds what the first found (`Held`), because it deletes only files
it is past.

The contents theorems assume `Apart`: no input is given twice and no input
has the name that the temporary file of another would have. The code does not
check it, and without it the properties are false (hazards at
`AssetBundle.cpp:333` and `:551`). All but `VectorIsOfTasks`, `EntriesFit` and
`NothingIsLeft` assume besides that no other program changes the inputs
(`MaxEdits = 0`), and `NothingIsLeft` that files can be deleted.

### The object (`AssetBundleProofs`, third part)

For any inputs, types and sequence of calls, with crashes, directories that
cannot be made and calls after `Close`, under `Apart` and `MaxEdits = 0`:

* `ReadsAreOfInputs` (`GivesWhatWasPacked`): what a caller gets as the bytes of a
  name are those of the input of that name, but for two cases in which the code
  hands out something else without an error: the stream is not open, or a crash cut
  the bundle off and the file is not whole on the disk or an earlier read has come
  up short. `WholeFilesAreRead` (`WholeIsReadable`): until then a file that is whole
  on the disk comes as it was packed. `ExtractionsAreWhole` (`ExtractionComplete`):
  an extraction that goes through its last file has written every file of the
  index, of an uncut bundle each with the bytes of its input.
* They follow from `OInv == FileInv /\ ObjectInv`: every chunk is what its entry says,
  made by the codec of an input that is still there; entries rise; the index of the
  object is that of the bundle unless its header was cut, which fails the stream
  (`StreamFits`); a stream that is good has come up short of nothing, and of a whole
  bundle it stays good; what was extracted from a good stream is of the inputs
  (`ExtractedFits`). So at the place of an entry there is one chunk of its size, its
  own, and the two sizes tell the reader what the writer did: that the two agree
  without a flag is a lemma. A dead process adds nothing to its bundle.
* `BundleIsAnArchive`: `AllSpec => IsAnArchive`, the refinement of `Archive`. Under
  `Plain`: `Apart`, no edits, no mishaps, no size and no packed size 0, inputs that
  differ in their relative names, and no LZJB (packed LZJB files cannot be read,
  see below). Each hypothesis is one without which a step of the object is not one
  of an archive.

### FastAri (`FastAriProofs`)

For any width of the bytes, any number of contexts, any speed of adaptation,
every message and the three variants:

* `TypeCorrect`: words stay words with no cut, probabilities stay within
  1..Half-1.
* `AlwaysSplittable`: before every bit both bits have a value left in the
  interval. The invariant adds to the types that `low <= high`, strictly between
  two bits; it rests on the lemma that `mid` is in `low..high-1`, and
  on `Learning`, that adaptation never reaches none or a whole.
* `EveryShiftWidens`: each turn of the shifting loops makes the interval wider,
  which is why they end.
* `StaysInStep`, `ComesBack`, `NeverOverread`: the codec is lossless and the
  decoder reads nothing past the last byte. The coder leaves a trail of points, the
  intervals it went through with its model, and how many bytes were written there.
  Whatever it goes on to write, the four bytes of the output from a point on
  form a word of that point's interval. The decoder holds these four bytes
  and starts where the trail does, so that at each point it takes the move the
  coder took (`Retraces`).

### The threads of LZMA2 (`MtCoderProofs`, `Lzma2DecMtProofs`, `Lzma2DeliveryProofs`)

* The encoder, for any number of threads, ring size, block size, input and
  set of faults: `OneReads`, `OneWrites`, `BuffersAreApart`, `InOrderOfData`,
  `OKIsWhole`, `NobodyIsAtWork`. The invariant says who has the baton and who the
  writing; that the blocks begun and not yet written form a window of the ring; that
  buffers in use and free ones are as many as there are places (nothing but the semaphore
  counts them: that `*bufIndex` is never empty is a pigeonhole argument); how
  blocks are numbered; and that the first error keeps a block from being written.
* The decoder, for any number of threads, stream and set of faults:
  `TurnsAreTaken` (`InTurn`). The blocks in hand are the last ones begun, one to a
  thread; each thread that passed the reading on is followed by the one that has
  the next block or may begin it; the turn to write is with the first. When
  a thread ends decoding for all, it has the first block and the last, so that
  nobody else has one: that `MtDec.c` calls the exit while waiting for a turn "never
  executed in normal cases" is true.
* `BlocksAgree` (`AheadAgrees`) and `DeliversInOrder` (`Spec => Delivers`, the
  refinement of `Delivery`), for the same values and faults and for streams of any
  length, damaged or cut anywhere: the output is what one decoder would deliver, in
  order, and sound input is delivered whole. They rest on the three steps below.

How the decoder is shown to deliver:

1. *The stream alone.* Parser and decoder are both folds over the symbols, started
   anew in the middle of the stream, cut at the ends of links and stopped for
   different reasons. Neither is compared with the other. `Walk` goes over the whole
   stream once, from its first symbol, and lemmas say what `Parse` and `Decode` do from
   any place on in terms of it: how far they come, in what state, and which places come out.
   A block that begins with a header that resets the dictionary is gone through by a new
   decoder as `Walk` goes through it (`Proper`). `Walk` exists and is unique by `Recursions`.
2. *The blocks.* `DataInv` is inductive together with the turns. While there
   are several threads it says (`Working`) that there is a place `A[t]` of the
   stream for each block in hand and a place `z` behind the last, so that the first
   block begins where the output ends, each block begins where the one before ends,
   and what is read beyond `z` crosses over; and of each block, by what its
   thread is doing, how much of it is in its links, how far it was parsed, and how far
   it was decoded. Where a block was not finished (it is too large, could not be
   allocated, is damaged or interrupted) it says what is left for one thread to take
   over. With one thread (`StInv`) it says that the links still to be decoded, what
   crossed over and what is still to be read are the places from the decoder's on.
   It is not enough to say this of the blocks that get written: what a late thread left
   behind is first used when an earlier one fails.
3. *What follows.* The parser's sizes are those of `Walk`, so are the decoder's, so
   the checks that `Lzma2DecMt_MtCallback_Write` could make would find nothing
   (`AsParsed`). What is handed over is gone through link by link and thread by
   thread (`Kept`, `CrossInv`): it is the rest of the stream from where the output ends,
   as far as it can be decoded. Each step then writes a beginning of the rest or
   judges it (`NextPromises`); at the end the verdict on sound input is
   "ok", save the faults that `Delivery` names. (That a stream that is not
   sound may be called "ok" as well is the finding of `lzma2_cut`.)

### LZ77 (`Lz77Proofs`)

For every list of messages, any base of the numbers and limits of the runs, any
earlier places the packer refers to, and octets cut into chunks anywhere:

* `OnTheTrail`, and from it `MessagesComeInOrder` (`InOrder`),
  `OctetsAreWellFormed` (`NeverMalformed`) and `MessagesAllArrive` (`AllArrive`).
  The octets written are a trail of points, each a place in the octets and the
  octets of a message that are done there; from point to point goes a size, a
  data packet or a run, and the last point is where the packer is. The decoder
  is always at a place of this trail: in a size with some digits read, at
  the head of a packet, inside its data, or in the length of a run. What it has
  in `ret` are the first octets of the message. The decoder is not told of the trail;
  the lemmas say that in each state one step of it goes on along.
* The recursions underneath, `push_vlq_uint` and `NotEmpty`, are recursive functions over
  numbers. Their equations come from a least number (`LeastNumber`): two
  functions that follow the same recursion cannot first differ anywhere
  (`RecursionIsUnique`), and one exists (`Recursion`). `RepeatIs` says that a
  run that overlaps what it copies gives the period of the message, again by the
  least place where it would not.

The only assumption is `ParametersAssumption`, which the code's 128, 5 and 8 meet.

### MTAri (`MTAriProofs`)

For any number of threads, sizes of blocks and files, base and width of the numbers
and set of faults (`MTAriAssumption`: the base is even, a size is wider than an int,
and a block is below 1 << 32, from where on the shifts of `freadsize` are undefined):

* `OutcomeHolds`: `MTAriSpec => []MTAriOutcome`, all five parts of it.
* Blocks (`FileInv`): a function `o` gives where in the file that was compressed each
  packed block ends, and each of the round behind them; a round that is packed
  moves from the one to the other, a round that is unpacked is the blocks before
  `rpos`. What comes out therefore ends where a block does, and everything is out at
  the End, which a size of 0 alone tells from a block. This rests on the
  sizes: `SizeComesBack` computes what `freadsize` makes of what `fwritesize` wrote,
  for every value below 1 << 32, by induction over the digits.
* The race (`RaceInv`): when `rc` is zero though a block that failed is done, another
  block is done whose thread took `rc` at zero; with one thread there is no other.
* Writes that fail: a file that a failed write ended in the compression is a file
  that was cut, so what is proved of cuts holds of it; what the decompression could
  not write is missing at the end (`"unwritten"`).
* Buffers (`MemoryInv`): those of the round are allocated and no others, and a slot
  that was freed was so after a round of `tcnt` blocks, which is why the cut that
  frees twice must lie behind block `tcnt`. All `wbuf`s are allocated while the
  decompression goes on; a success frees them, an error those of the threads with a
  block in the round: the others leak, with one thread when the round has none.

`Allocatable` says of `malloc` that it never gives half of the address space: without it
a size that came back with its sign extended could be had.

### Only model-checked

* Liveness under fairness: `Ends` of `BundleBuilder`, `MtCoder` and `Lzma2DecMt`.
* What needs induction over data that no recursion over numbers replaces:
  `LzmaComesBack`, `BlocksSorted` of libsais, and `ComesBack` and `StaysInside` of
  the codecs that are recursive functions.

## Where the code and its words disagree

* `AssetBundle.cpp:317` says an empty input is "skipped"; the task returns
  without counting itself and the constructor spins for ever
  (`builder_null_waits`).
* `AssetBundle.cpp:381` says the throttle waits "for a few tasks". An update of the
  counter that line 304 loses can leave it at twice the number of processors when
  every task has ended, and the constructor spins for ever (`builder_throttle`).
  Besides, every thread is started before the first test (371-375), so the wait
  bounds no memory.
* `lzsse4.h:83` asks of the output of `LZSSE4_CompressFast` to be "at least
  inputLength"; behind a new control block it stores sixteen zeros before it looks
  at the end (`lzsse4.cpp:208`, 281, 344), and so writes beyond such an output
  (`lzsse_room`), by a control block and an offset at the most (`StaysInside`).
  The program uses the optimal parse, which does not.
* `Lzma2DecMt.c:933` (`lzma2_cut`): with more than one thread `Lzma2DecMt_Decode`
  returns the result of reading; `codeRes`, the error of a block, is not looked at. A
  stream that is cut off gives `SZ_OK` although `Lzma2DecMt.h:51` says of
  `finishMode` 1 that the stream "must be finished", and `LzmaUtil.cpp:247`
  returns the buffer.

Plain from the text, with no run of their own:

* `AssetBundle.cpp:690`: a read that comes up short is not noticed. From a bundle that
  was cut off, and after `Close`, `ReadData` returns uninitialised memory of the size
  asked for, or what a codec makes of it, and an extraction writes it to files and
  ends like any other. The properties of `bundle_crash` say when.
* `AssetBundle.cpp:770` passes 0 as the room for the unpacked file, so no packed
  LZJB file can be read back.
* With `NoCompression` an empty input makes the constructor return at
  `AssetBundle.cpp:438` with no bundle written, where 437 says "skipped"
  (`IndexNull`).
* `lz77.h:531` returns true for a chunk that ends inside a message's size;
  503-504 say false. `InOrder` therefore leaves empty results aside.
* LZJB has `NBBY` = 12 items to a one-byte copy map, never compares the fourth
  byte of a match (`lzjb.c:121`) and cuts lengths (124): the damage is in the
  model, and `ComesBack` says that nothing else goes wrong.
* LZSSE2, and LZSSE8 with its fast parse, lose the end of some inputs; the
  program uses LZSSE4 with the optimal parse, which does not.
* `MTAri.cpp` calls read errors, write errors and cuts between blocks a success, frees
  a buffer twice when a file ends inside the second size of a block (175), and leaks
  the `wbuf`s from `mp` on when it leaves with an error (182, 199). Nothing calls it,
  and `readme.md:14` says that it does not work.
* `MtCoder.c`: after a failed block a later one may still be written; the
  result tells.
* `libsais.c:5915` computes `p - 1` for the least `int` when the first suffix is
  unique and 0; the result is thrown away.

Limits of the positive results, stated in the properties: `NothingLost` and
`IndexMatchesData` speak of bundles that were written; `WholeIsReadable` speaks
of reads while no earlier read has come up short; `EntriesTileData` does not
speak of `NoCompression`; `IndexMatchesData` and `CrcCoversData` speak of inputs that nobody
changes meanwhile; `StaysInside` speaks of LZP's decoder on streams its encoder made, and of
LZSSE's on those with one damaged offset; `ComesBack` leaves out what LZJB is known to
lose; `NoTempLeft` does not speak of an empty packed file,
a crash, or a failing `DeleteFileA`, after which temporary files do stay.

## What is not modelled

* The bytes of the serialised index, growth and bounds of `serializer.h`: the
  index is a value with a length.
* The rest of libbsc: the block format, the QLFC coder (planned), the sort
  transform and the filters the program does not ask for. The bundle model has
  the outcomes of `bsc_compress` and `bsc_decompress`.
* The rest of the LZMA SDK: the match finders, and what nothing calls (Xz, 7z,
  Ppmd, Bcj2, Aes); the settings `LzmaUtil` gives the encoder.
* FPC and SHA-256: called from nowhere in the bundle code.
* `dllmain.cpp`: generated, does nothing.
* Collisions of a temporary name with an input or with the bundle, and inputs
  given twice: hazards listed in `PROJECT.json`; the code makes no claim there,
  and the proofs name it as a hypothesis.

## Plan

The order is by what the rest of the system leans on.

1. Done: the constructor and its tasks, the object over it and `Archive` above
   it, FastAri, both threaded parts of LZMA2, LZ77, MTAri, LZMA, libsais,
   LZJB, LZSSE, LZP; the proofs above.
2. Next: the trail of `Lz77Proofs` for the chunks of LZMA2, whose coder would have
   to be rewritten without RECURSIVE operators.
3. Then: QLFC, for which `Codecs` has a place; the serialiser's growth and
   bounds, from which `OpenCutHeader` gets what a cut header can deserialise to.
