----------------------------- MODULE MCMachines -----------------------------
(***************************************************************************)
(* The machines that share nothing, one beside the other, so that one run  *)
(* checks them all: machine says which of them a behaviour is about, the   *)
(* variables of the others stand still.                                    *)
(***************************************************************************)
EXTENDS MCLz77, MTAri

VARIABLES machine,
          stage, job, pos, enc, ahead, block, stream, dec, taken, unpacked, told, atOnce,
          task, part, array, frames, sampled, text, answer

\* Bytes of two bits; properties are a number whose meaning is looked up.
Params(lc, lp, pb) == [lc |-> lc, lp |-> lp, pb |-> pb, dicSize |-> 0]
LzmaJob(data, format, prop, dicSize, dicBufSize) ==
    [data |-> data, format |-> format, prop |-> prop, dicSize |-> dicSize,
     dicBufSize |-> dicBufSize, fast |-> TRUE, endMark |-> FALSE, known |-> TRUE,
     blockSize |-> 99, chunkSize |-> 4, harm |-> FALSE]

Short == {<<0,1,0,1,1>>, <<2,2,2,2,3,2>>, <<0,1,2,0,2,1>>}
Some15 == {<<>>,
           <<0,1,2,3,0,0,1,2,3,1,2,3>>,
           <<3,0,1,2,2,1,1,0,3,1,3,0,1,2,2>>,
           <<1,1,1,1,1,1,1,1,1,1,1,1,1,1>>,
           <<0,1,2,1,0,2,2,0,1,2,0,2,2>>,
           <<0,0,1,0,0,2,0,0,3,0,0,1,0,0,2,0,0,0,3,0,0,1>>,
           <<0,1,3,0,1,2,0,1,0,0,1,3,0,1,2,0,1,1,0,1,2>>}
CopiedFirst == <<0,3,1,2,1,1,1,1,1,1,1,1,1,1>>
CopiedLast == <<1,1,1,1,1,1,1,1,0,3>>

\* Any true parse of short data; the fast parse of longer data, with a dictionary
\* smaller than the data and one that is not; LZMA2 in one block and in several.
\* What is harmed is harmed at every byte.
LzmaJobs ==
    {[LzmaJob(d, "lzma", p, 4, 5) EXCEPT !.fast = FALSE, !.endMark = p = 2, !.known = p = 1] :
        d \in Short, p \in {1, 2}}
    \cup {[LzmaJob(d, "lzma", p, w, w + 1) EXCEPT
             !.endMark = e, !.known = ~ e \/ w = 4, !.harm = e /\ p = 2 /\ Len(d) \in {0, 12, 15}] :
            d \in Some15, p \in {1, 2}, e \in BOOLEAN, w \in {4, 14}}
    \cup {[LzmaJob(d, "lzma2", p, 4, w) EXCEPT !.known = n = 4, !.blockSize = b, !.chunkSize = n] :
            d \in Some15, p \in {1, 2}, w \in {4, 7}, b \in {8, 99}, n \in {4, 7}}
    \cup {[LzmaJob(<<0,1,2,0,2,1>>, "lzma2", 1, 5, 5) EXCEPT !.fast = FALSE, !.chunkSize = 3]}
    \cup {[LzmaJob(d, "lzma2", 0, 4, 5) EXCEPT !.harm = TRUE] : d \in {<<>>, CopiedFirst, CopiedLast}}

\* No symbol takes more than 13 bits and a few, which is seven bytes.
Lzma == INSTANCE LzmaStream WITH
    ByteBits <- 2, TotalBits <- 3, MoveBits <- 2, LenLowBits <- 1, LenHighBits <- 1,
    PosSlotBits <- 3, EndPosModelIndex <- 6, AlignBits <- 1, NumFastBytes <- 4, FarBits <- 1,
    InputMax <- 7, CopyMargin <- -6, CopyChunk <- 3,
    PropsOf <- (0 :> Params(0, 0, 0)) @@ (1 :> Params(0, 0, 1)) @@ (2 :> Params(1, 1, 0)),
    Jobs <- LzmaJobs, Pieces <- {1}, phase <- stage, received <- unpacked

\* Texts of two to four characters, which recur; suffix arrays without free space and
\* with more and more of it, so that every kind of buckets finds room; one thread,
\* two and three, which take their turns forwards and backwards.  All that libsais
\* does from a size on it does from 4 on.
SaisText(seed, n, k) == [p \in 0..(n - 1) |-> ((seed * (p + 3) * (p + 3) * (p + 7)) \div 11) % k]
SaisTeam(n, backwards) ==
    [n |-> n, order |-> [j \in 1..n |-> IF backwards THEN n - j ELSE j - 1]]
SaisTask(call, seed, n, fs, r, team, scarce) ==
    [call |-> call, text |-> SaisText(seed, n, 2 + (seed % 3)), k |-> 2 + (seed % 3), fs |-> fs, r |-> r,
     team |-> team, junk |-> 77, scarce |-> scarce]
SaisTasks ==
    {SaisTask(call, seed, n, fs, r, SaisTeam(threads, backwards), fs = 0) :
        call \in {"libsais", "libsais_int", "bwt", "aux"}, seed \in {9, 10, 11}, n \in {1, 2, 14, 20, 29},
        fs \in {0, 9, 20}, r \in {4}, threads \in {1, 2, 3}, backwards \in BOOLEAN}
    \cup {SaisTask("bsc", seed, n, 0, 0, SaisTeam(threads, TRUE), FALSE) :
              seed \in {9, 10, 11}, n \in {15, 16, 30}, threads \in {1, 3}}
    \cup {SaisTask("aux", 9, 3, 0, r, SaisTeam(1, TRUE), FALSE) : r \in {1, 3}}
Sais == INSTANCE Sais WITH
    Word <- 4096, Alphabet <- 4, TeamFrom <- 4, BlockFrom <- 2, Lane <- 1, Page <- 2, CacheSize <- 6,
    FastBits <- 4, Tasks <- SaisTasks, stage <- part, memory <- array, res <- answer

lzmaOwn == <<stage, job, pos, enc, ahead, block, stream, dec, taken, unpacked, told, atOnce>>
saisOwn == <<task, part, array, frames, sampled, text, answer>>

MTAriIdle ==
    /\ parallel = "idle" /\ tcnt = "idle" /\ fsize = "idle" /\ cut = "idle" /\ mode = "idle"
    /\ phase = "idle" /\ rpos = "idle" /\ mp = "idle" /\ rc = "idle"
    /\ es = "idle" /\ lens = "idle" /\ content = "idle" /\ coder = "idle"
    /\ loaded = "idle" /\ failed = "idle" /\ memory = "idle" /\ work = "idle" /\ twice = FALSE
    /\ packed = "idle" /\ output = <<>> /\ result = "idle" /\ mishaps = {}
Lz77Idle ==
    /\ messages = <<>> /\ packing = 0 /\ i = 0 /\ unc = <<>> /\ wire = <<>> /\ max_size = 0
    /\ state = "INIT" /\ vlq = NoDigits /\ msg = 0 /\ size = 0 /\ ret = <<>> /\ rd = 0 /\ chunkEnd = 0
    /\ inFeed = FALSE /\ received = <<>> /\ thrown = "none"

LzmaIdle ==
    /\ stage = "idle" /\ job = "idle" /\ pos = "idle" /\ enc = "idle" /\ ahead = "idle"
    /\ block = "idle" /\ stream = "idle" /\ dec = "idle" /\ taken = "idle"
    /\ unpacked = "idle" /\ told = "idle" /\ atOnce = "idle"

SaisIdle ==
    /\ task = "idle" /\ part = "idle" /\ array = "idle" /\ frames = "idle"
    /\ sampled = "idle" /\ text = "idle" /\ answer = "idle"

MachinesInit ==
    \/ machine = "LZ77" /\ Init /\ MTAriIdle /\ LzmaIdle /\ SaisIdle
    \/ machine = "MTAri" /\ Lz77Idle /\ MTAriInit /\ LzmaIdle /\ SaisIdle
    \/ machine = "LZMA" /\ Lz77Idle /\ MTAriIdle /\ Lzma!Init /\ SaisIdle
    \/ machine = "Sais" /\ Lz77Idle /\ MTAriIdle /\ LzmaIdle /\ Sais!Init

MachinesNext ==
    /\ UNCHANGED machine
    /\ \/ machine = "LZ77" /\ Next /\ UNCHANGED <<mtariVars, lzmaOwn, saisOwn>>
       \/ machine = "MTAri" /\ MTAriNext /\ UNCHANGED <<vars, lzmaOwn, saisOwn>>
       \/ machine = "LZMA" /\ Lzma!Next /\ UNCHANGED <<vars, mtariVars, saisOwn>>
       \/ machine = "Sais" /\ Sais!Next /\ UNCHANGED <<vars, mtariVars, lzmaOwn>>

MachinesSpec ==
    MachinesInit /\ [][MachinesNext]_<<machine, vars, mtariVars, lzmaOwn, saisOwn>>

-----------------------------------------------------------------------------
(* The properties of the machines, each of its own. *)

\* Lzma_Decode and Lzma2_Decode give back what was packed, at once and in pieces
\* of any size, which give the same; whatever the stream is, nothing is read that
\* is not there and the decoder does not contradict itself.
LzmaComesBack ==
    machine = "LZMA" =>
        /\ Lzma!NothingAmiss
        /\ Lzma!PiecesAgree
        /\ Lzma!Delivers

\* libsais sorts the suffixes of a text, whatever room and however many threads it
\* has, leaves the text as it was, transforms it as defined, and gives it back.
BlocksSorted ==
    machine = "Sais" =>
        /\ Sais!SuffixesSorted
        /\ Sais!TransformDefined
        /\ Sais!TextComesBack
        /\ Sais!RefusedForCause
=============================================================================
