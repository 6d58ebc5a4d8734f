--------------------------------- MODULE MTAri ---------------------------------
(***************************************************************************)
(* The block driver of the arithmetic coder (fastari/MTAri.cpp): a file is *)
(* compressed round by round, up to tcnt blocks in a round, and then       *)
(* decompressed, perhaps after its end has been cut off.  With OpenMP the  *)
(* blocks of a round are coded by parallel threads that share rc; without  *)
(* it, as this repository builds it, tcnt is one.  (src/readme.md:14 calls *)
(* MTAri a multithreaded FastAri that does not work now; AssetBundle does  *)
(* not use it.)                                                            *)
(*                                                                         *)
(* The content of a file is the sequence of the positions of its bytes in  *)
(* the file that was compressed. A size is written as SizetBytes digits in *)
(* base Base and read back through an int of IntBytes of them.             *)
(***************************************************************************)
EXTENDS Integers, Sequences

CONSTANTS Threads,      \* tcnt of a build with OpenMP
          bsz,          \* bytes of a block
          FileSizes,    \* sizes of the files
          Faults,       \* of "read", "code", "malloc" and "write"
          Base, SizetBytes, IntBytes

SUCCESS == 0
FAILURE == 1
NotYet == 2

\* Where a file can end too early: before its End, or in a field of a block.
Fields == {"olens", "ilens", "data"}
Uncut == [block |-> 0, field |-> "none"]
Slots == 0..(Threads - 1)

VARIABLES parallel, tcnt, fsize, cut,
          mode,                 \* "compress" or "decompress"
          phase,                \* "read", "code", "write" or "returned"
          rpos,                 \* where fin is read next
          mp, rc, es,
          lens, content,        \* of the blocks of the round
          coder, loaded, failed,\* the threads of the round
          memory,               \* of ibufs[mp], with its obufs[mp]
          work,                 \* the threads whose wbufs are allocated
          twice,                \* free was called on what is not allocated
          packed,               \* what was written, up to the cut
          output, result,
          mishaps               \* "short" reads that failed, errors "lost",
                                \* output "unwritten"

callVars == <<parallel, tcnt, fsize, cut>>
roundVars == <<lens, content>>
coderVars == <<coder, loaded, failed>>
mtariVars == <<callVars, mode, phase, rpos, mp, rc, es, roundVars, coderVars,
          memory, work, twice, packed, output, result, mishaps>>

NoThreads == [t \in Slots |-> "none"]

MTAriInit ==
    /\ parallel \in BOOLEAN /\ tcnt = IF parallel THEN Threads ELSE 1
    /\ fsize \in FileSizes
    /\ cut = Uncut
    /\ mode = "compress" /\ phase = "read" /\ rpos = 0
    /\ mp = 0 /\ rc = 0 /\ es = 0
    /\ lens = [t \in Slots |-> 0] /\ content = [t \in Slots |-> <<>>]
    /\ coder = NoThreads /\ loaded = [t \in Slots |-> 0] /\ failed = {}
    /\ memory = [t \in Slots |-> "null"] /\ work = {} /\ twice = FALSE
    /\ packed = <<>> /\ output = <<>> /\ result = NotYet
    /\ mishaps = {}

-----------------------------------------------------------------------------

Power[k \in 0..SizetBytes] == IF k = 0 THEN 1 ELSE Base * Power[k - 1]

\* What the code assumes of its parameters: a byte has a number of values that
\* is even, a size_t is wider than an int, and blocks are below 1 << 32, from
\* where on the shifts of freadsize are undefined.
Parameters ==
    /\ Threads \in Nat \ {0} /\ bsz \in Nat \ {0} /\ FileSizes \subseteq Nat
    /\ Base \in Nat \ {0} /\ Base % 2 = 0
    /\ IntBytes \in Nat \ {0} /\ SizetBytes \in Nat /\ IntBytes < SizetBytes
    /\ bsz < Power[IntBytes]

ASSUME MTAriAssumption == Parameters

Digit(v, k) == (v \div Power[k]) % Base
fwritesize(v) == [k \in 1..SizetBytes |-> Digit(v, k - 1)]

\* c << s in an int, extended with its sign to a size_t.
IntShift(c, k) ==
    LET v == c * Power[k]
    IN  IF 2 * v >= Power[IntBytes] THEN v + Power[SizetBytes] - Power[IntBytes] ELSE v

\* Digits from the lowest up are or'ed into a value that has zeros there.  Of a
\* size that fits an int's width those above it are zeros and add nothing.
freadsize(digits) ==
    LET v[k \in 0..SizetBytes] ==
            IF k = 0 THEN 0
            ELSE IF digits[k] = 0 THEN v[k - 1] ELSE v[k - 1] + IntShift(digits[k], k - 1)
    IN  v[SizetBytes]

\* What malloc may give: never half of the address space.
Allocatable(n) == 2 * n < Power[SizetBytes]

End == [olen |-> fwritesize(0), ilen |-> fwritesize(0), data |-> <<>>]

\* A block takes as many bytes packed as it has.
BlockOf(data) == [olen |-> fwritesize(Len(data)), ilen |-> fwritesize(Len(data)),
                  data |-> data]

Return(r) ==
    /\ phase' = "returned"
    /\ result' = r

-----------------------------------------------------------------------------
(* The loop over the blocks of a round, of both functions. *)

\* rc += enc_blk(...) in two steps; without OpenMP one block after the other.
BeginBlock(t) ==
    /\ phase = "code" /\ t < mp /\ coder[t] = "none"
    /\ parallel \/ \A u \in Slots : u < t => coder[u] = "done"
    /\ \E fails \in IF "code" \in Faults THEN BOOLEAN ELSE {FALSE} :
           failed' = IF fails THEN failed \cup {t} ELSE failed
    /\ loaded' = [loaded EXCEPT ![t] = rc]
    /\ coder' = [coder EXCEPT ![t] = "loaded"]
    /\ UNCHANGED <<callVars, mode, phase, rpos, mp, rc, es, roundVars, memory, work, twice,
                   packed, output, result, mishaps>>

Added(t) == loaded[t] + (IF t \in failed THEN 1 ELSE 0)

EndBlock(t) ==
    /\ coder[t] = "loaded"
    /\ rc' = Added(t)
    /\ coder' = [coder EXCEPT ![t] = "done"]
    /\ UNCHANGED <<callVars, mode, phase, rpos, mp, es, roundVars, loaded, failed, memory,
                   work, twice, packed, output, result, mishaps>>

Coded == phase = "code" /\ \A t \in 0..(mp - 1) : coder[t] = "done"
NewRound == coder' = NoThreads /\ failed' = {} /\ loaded' = [t \in Slots |-> 0]

\* What the coder made of block t: nothing sensible after an error.
Made(t) == IF t \in failed THEN [k \in 1..Len(content[t]) |-> -1] ELSE content[t]

\* Wrong: the block that is last in the round comes first.
GatheredBackwards(f) ==
    LET g[n \in 0..mp] == IF n = 0 THEN <<>> ELSE f[n - 1] \o g[n - 1] IN g[mp]

\* The blocks of the round in their order.
Gathered(f) ==
    LET g[n \in 0..mp] == IF n = 0 THEN <<>> ELSE g[n - 1] \o f[n - 1] IN g[mp]

-----------------------------------------------------------------------------
(* mtfa_compress *)

CompressReturns(r) ==
    /\ Return(r)
    /\ UNCHANGED <<parallel, tcnt, fsize, mode, rpos, mp, rc, es, roundVars, coderVars, memory,
                   work, twice, output>>

Mishap(m, happens) == mishaps' = IF happens THEN mishaps \cup {m} ELSE mishaps

\* Nobody looks at what fputc, fwrite and fflush return.  The first write that
\* fails ends the file in a field of what is written; as on a disk that is full,
\* nothing is added to the file after that.
FileEndsIn(blocks, fields) ==
    cut' \in {cut} \cup IF "write" \in Faults /\ cut = Uncut
                        THEN [block : blocks, field : fields] ELSE {}

\* One of the arrays or buffers cannot be allocated: the others are freed.
CompressNoMemory ==
    /\ mode = "compress" /\ phase = "read" /\ rpos = 0 /\ mp = 0 /\ "malloc" \in Faults
    /\ UNCHANGED <<cut, packed, mishaps>>
    /\ CompressReturns(FAILURE)

\* fread of a block; a read that fails gives less than there is.
ReadBlock ==
    /\ mode = "compress" /\ phase = "read" /\ mp < tcnt
    /\ LET most == IF fsize - rpos < bsz THEN fsize - rpos ELSE bsz IN
       \E n \in (IF "read" \in Faults THEN 0..most ELSE {most}) \ {0} :
           /\ lens' = [lens EXCEPT ![mp] = n]
           /\ content' = [content EXCEPT ![mp] = [k \in 1..n |-> rpos + k]]
           /\ rpos' = rpos + n
           /\ Mishap("short", n < most)
    /\ mp' = mp + 1
    /\ phase' = IF mp' = tcnt THEN "code" ELSE "read"
    /\ rc' = 0
    /\ UNCHANGED <<callVars, mode, es, coderVars, memory, work, twice, packed, output, result>>

\* fread returns nothing: the blocks read so far are the round, and a round
\* without blocks is the end.
ReadsNothing ==
    /\ mode = "compress" /\ phase = "read" /\ mp < tcnt
    /\ rpos = fsize \/ "read" \in Faults
    /\ Mishap("short", rpos < fsize)
    /\ IF mp = 0
       THEN /\ packed' = Append(packed, End)
            /\ FileEndsIn({Len(packed) + 1}, Fields \ {"data"})
            /\ CompressReturns(SUCCESS)
       ELSE /\ phase' = "code"
            /\ UNCHANGED <<callVars, mode, rpos, mp, rc, es, roundVars, coderVars, memory,
                           work, twice, packed, output, result>>

CompressFails ==
    /\ mode = "compress" /\ Coded /\ rc # 0
    /\ UNCHANGED <<cut, packed, mishaps>>
    /\ CompressReturns(FAILURE)

WriteBlocks ==
    /\ mode = "compress" /\ Coded /\ rc = 0
    /\ packed' = packed \o Gathered([t \in Slots |-> <<BlockOf(Made(t))>>])
    /\ FileEndsIn(Len(packed) + 1..Len(packed) + mp, Fields)
    /\ mp' = 0 /\ phase' = "read" /\ NewRound
    /\ Mishap("lost", failed # {})
    /\ UNCHANGED <<parallel, tcnt, fsize, mode, rpos, rc, es, roundVars, memory, work, twice,
                   output, result>>

-----------------------------------------------------------------------------
(* mtfa_decompress *)

\* The caller decompresses what a compression that succeeded has written, or
\* what is left of it: every block before the cut and part of that one.  Each
\* thread gets its wbuf.
Decompress ==
    /\ mode = "compress" /\ phase = "returned" /\ result = SUCCESS
    /\ mode' = "decompress" /\ phase' = "read" /\ result' = NotYet
    /\ IF cut = Uncut
       THEN /\ cut' \in {Uncut} \cup [block : 1..Len(packed), field : Fields]
            /\ (cut'.field = "data" => cut'.block < Len(packed))
       ELSE cut' = cut
    /\ rpos' = 1 /\ mp' = 0 /\ rc' = 0 /\ es' = 0 /\ NewRound
    /\ work' = 0..(tcnt - 1)
    /\ UNCHANGED <<parallel, tcnt, fsize, roundVars, memory, twice, packed, output, mishaps>>

\* One of the arrays or wbufs cannot be allocated: the others are freed.
DecompressNoMemory ==
    /\ mode = "compress" /\ phase = "returned" /\ result = SUCCESS
    /\ "malloc" \in Faults
    /\ mode' = "decompress" /\ rpos' = 1 /\ mp' = 0 /\ rc' = 0 /\ es' = 0 /\ NewRound
    /\ Return(FAILURE)
    /\ UNCHANGED <<callVars, roundVars, memory, work, twice, packed, output, mishaps>>

CutAt(field) == cut = [block |-> rpos, field |-> field]

\* free(ibufs[t]) of what is allocated or null.
Free(S) ==
    /\ memory' = [t \in Slots |-> IF t \in S /\ memory[t] # "null" THEN "freed" ELSE memory[t]]
    /\ twice' = (twice \/ \E t \in S : memory[t] = "freed")

ReadSlots == 0..(mp - 1)

\* Wrong: all wbufs are left.
GiveUpAllWork(S) ==
    /\ Free(S)
    /\ Return(FAILURE)
    /\ UNCHANGED <<callVars, mode, rpos, mp, rc, es, roundVars, coderVars, work, packed, output,
                   mishaps>>

\* Leaving with an error frees what the round has read, and the wbufs of the
\* threads that have a block in it: those of the others are not freed.
GiveUp(S) ==
    /\ Free(S)
    /\ work' = work \ ReadSlots
    /\ Return(FAILURE)
    /\ UNCHANGED <<callVars, mode, rpos, mp, rc, es, roundVars, coderVars, packed, output,
                   mishaps>>

Ready(stops) ==
    /\ es' = stops
    /\ phase' = "code"
    /\ UNCHANGED <<callVars, mode, rpos, mp, rc, roundVars, coderVars, memory, work, twice, packed,
                   output, result, mishaps>>

\* The file ends before the size of a block, or with the mark.
ReadEnd ==
    /\ mode = "decompress" /\ phase = "read" /\ mp < tcnt /\ es = 0
    /\ \/ CutAt("olens")
       \/ ~ CutAt("ilens") /\ freadsize(packed[rpos].ilen) = 0
    /\ Ready(1)

\* The file ends in the second size: ibufs[mp] is freed, though it is not
\* allocated, or in a round before this one was.
ReadCutSize ==
    /\ mode = "decompress" /\ phase = "read" /\ mp < tcnt
    /\ CutAt("ilens")
    /\ GiveUp({mp} \cup ReadSlots)

ReadNoMemory ==
    /\ mode = "decompress" /\ phase = "read" /\ mp < tcnt
    /\ ~ CutAt("olens") /\ ~ CutAt("ilens") /\ freadsize(packed[rpos].ilen) # 0
    /\ "malloc" \in Faults \/ ~ Allocatable(freadsize(packed[rpos].ilen))
    /\ GiveUp(ReadSlots)

\* What was allocated for the block is freed with the others.
ReadCutData ==
    /\ mode = "decompress" /\ phase = "read" /\ mp < tcnt
    /\ CutAt("data") /\ Allocatable(freadsize(packed[rpos].ilen))
    /\ GiveUp(ReadSlots)

ReadPacked ==
    /\ mode = "decompress" /\ phase = "read" /\ mp < tcnt
    /\ cut.block # rpos /\ freadsize(packed[rpos].ilen) # 0
    /\ Allocatable(freadsize(packed[rpos].ilen))
    /\ lens' = [lens EXCEPT ![mp] = freadsize(packed[rpos].ilen)]
    /\ content' = [content EXCEPT ![mp] = packed[rpos].data]
    /\ memory' = [memory EXCEPT ![mp] = "live"]
    /\ rpos' = rpos + 1
    /\ mp' = mp + 1
    /\ phase' = IF mp' = tcnt THEN "code" ELSE "read"
    /\ UNCHANGED <<callVars, mode, rc, es, coderVars, work, twice, packed, output, result,
                   mishaps>>

DecompressFails ==
    /\ mode = "decompress" /\ Coded /\ rc # 0
    /\ GiveUp(ReadSlots)

WriteRound == Gathered([t \in Slots |-> Made(t)])

\* Nor does anybody look at what this fwrite returns: a part of the round may be
\* written, and nothing after it.
WriteOutput ==
    /\ mode = "decompress" /\ Coded /\ rc = 0
    /\ \E n \in 0..Len(WriteRound) :
          /\ n < Len(WriteRound) => "write" \in Faults
          /\ "unwritten" \in mishaps => n = 0
          /\ output' = output \o SubSeq(WriteRound, 1, n)
          /\ mishaps' = mishaps \cup (IF failed # {} THEN {"lost"} ELSE {})
                               \cup (IF n < Len(WriteRound) THEN {"unwritten"} ELSE {})
    /\ Free(ReadSlots)
    /\ IF es = 1
       THEN Return(SUCCESS) /\ work' = {} /\ UNCHANGED <<mp, coderVars>>
       ELSE phase' = "read" /\ mp' = 0 /\ NewRound /\ UNCHANGED <<work, result>>
    /\ UNCHANGED <<callVars, mode, rpos, rc, es, roundVars, packed>>

MTAriNext ==
    \/ \E t \in Slots : BeginBlock(t) \/ EndBlock(t)
    \/ CompressNoMemory \/ ReadBlock \/ ReadsNothing \/ CompressFails \/ WriteBlocks
    \/ Decompress \/ DecompressNoMemory \/ ReadEnd \/ ReadCutSize \/ ReadNoMemory \/ ReadCutData
    \/ ReadPacked \/ DecompressFails \/ WriteOutput

MTAriSpec == MTAriInit /\ [][MTAriNext]_mtariVars

-----------------------------------------------------------------------------

\* An error is lost only in a race: some block that did not fail took rc before
\* any error was in it and stored it back afterwards (lines 90 and 194).  One
\* thread alone never loses an error.
ErrorsSeen ==
    Coded /\ rc = 0 /\ failed # {} =>
        parallel /\ \E t \in ReadSlots \ failed : loaded[t] = 0

\* What comes out is the beginning of what went in, whichever block was coded
\* first and wherever the file was cut; only a lost error puts anything else.
InFileOrder == "lost" \notin mishaps => \A k \in 1..Len(output) : output[k] = k

\* A decompression that succeeds has given everything there was to compress,
\* with three exceptions nobody is told of: a read that fails is taken for the
\* end of the input (line 82); a file that ends before the sizes of a block for
\* one that is complete (line 174), also when it ends there because a write
\* failed (lines 106-108); and what of the output cannot be written is missing
\* (line 211).
SuccessIsWhole ==
    mode = "decompress" /\ result = SUCCESS =>
        \/ Len(output) = fsize
        \/ "short" \in mishaps
        \/ cut.field = "olens"
        \/ "unwritten" \in mishaps

\* Sizes are read as they were written up to 1 << 31; from there on the int
\* they are shifted in extends its sign over the upper half (line 25).
SizesReadBack ==
    \A v \in 0..(Power[IntBytes] - 1) :
        freadsize(fwritesize(v)) = v <=> 2 * v < Power[IntBytes]

\* mtfa_decompress frees its buffers once, except after a file that ends inside
\* the second size of a block: then the pointer of an earlier round is freed again
\* (line 175).  Once it has returned no ibuf or obuf is left.  All wbufs are freed
\* by a success; an error leaks those of the threads from mp on, which had no
\* block in the round (lines 182 and 199), but for an allocation that fails at the
\* start.
BuffersFreed ==
    /\ twice => cut.field = "ilens" /\ cut.block > tcnt
    /\ mode = "decompress" /\ phase = "returned" =>
          /\ \A t \in Slots : memory[t] # "live"
          /\ work = {} \/ (result = FAILURE /\ work = mp..(tcnt - 1))

\* mtfa_compress and mtfa_decompress: no thread loses an error but in a race for
\* rc (MTAri.cpp:90); what comes out is the beginning of what went in, all of it
\* if it is called a success, but for a read or write that failed and a file that
\* ends between two blocks; sizes below 1 << 31 are read as they were written; no
\* buffer is freed twice, but after a cut inside the second size of a block, and
\* none is left, but for the wbufs that an error leaks.
MTAriOutcome == ErrorsSeen /\ InFileOrder /\ SuccessIsWhole /\ SizesReadBack /\ BuffersFreed
=============================================================================
