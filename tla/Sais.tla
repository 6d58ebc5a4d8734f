----------------------------------- MODULE Sais -----------------------------------
(***************************************************************************)
(* libsais: suffix sorting and the Burrows-Wheeler transform by induced    *)
(* sorting, as libbsc calls it.  main_8u sorts the suffixes of the text,   *)
(* main_32s those of a text of names, recursively, each in one of four     *)
(* ways that differ in the buckets they have room for.  In one memory      *)
(* stand the suffix array with fs entries more, the text, the buckets and  *)
(* what is taken from the heap; before it is sorted nothing is known of    *)
(* what it holds.  Where the code calls a part of the sorting is a step,   *)
(* each call of main is a frame.                                           *)
(***************************************************************************)
EXTENDS SaisUnbwt, SaisFinal, FiniteSets

CONSTANT Tasks      \* [call, text, k, fs, r, team, junk, scarce]

VARIABLES
    task,        \* what is called: libsais, libsais_int, libsais_bwt, _bwt_aux, or bsc_bwt_encode
    stage,       \* which part comes next
    memory,      \* all that is sorted in
    frames,      \* the calls of main_8u and main_32s, the innermost first
    sampled,     \* I
    text,        \* U
    res          \* what is returned, and libbsc's indexes

saisVars == <<task, stage, memory, frames, sampled, text, res>>

Size == Cardinality(DOMAIN task.text)
PowersOfTwo == {2 ^ s : s \in 0..20}

-----------------------------------------------------------------------------
(* The calls. *)

\* bsc_bwt_encode samples about every eighth of the text.
Smeared(v) == IF v = 0 THEN 0 ELSE (CHOOSE p \in PowersOfTwo : p \div 2 <= v /\ v < p) - 1
SampleRate(n) == (Smeared(n \div 8) \div 2) + 1
Rate == IF task.call = "bsc" THEN SampleRate(Size) ELSE task.r
Transforms == task.call \in {"bwt", "aux", "bsc"}
Samples == task.call \in {"aux", "bsc"}

\* main takes the buckets, and as many again for the threads if there are some.
TextAt == Size + task.fs
BucketsFrom == TextAt + Size
ThreadsFrom == BucketsFrom + 8 * Alphabet
Heap == ThreadsFrom + 4 * Alphabet * task.team.n
Blank == [i \in 0..(Heap + Larger(Size, task.k) - 1) |->
            IF i \in TextAt..(BucketsFrom - 1) THEN task.text[i - TextAt] ELSE task.junk]

Frame(mode, t, n, k, fs, b) ==
    [mode |-> mode, t |-> t, n |-> n, k |-> k, fs |-> fs, b |-> b,
     m |-> 0, names |-> 0, f |-> 0, first |-> 0, left |-> 0, threads |-> <<>>]
FreeEnd(n, fs) == Least(fs, Word - 1 - n)
main_8u == Frame(8, TextAt, Size, Alphabet, FreeEnd(Size, task.fs), BucketsFrom)

\* How many buckets of k entries there is room for, and where they stand: at the
\* end of what is free, aligned if there is room for that.
Mode(k, fs) == CASE k > 0 /\ fs \div k >= 6 -> 6
                 [] k > 0 /\ fs \div k \in 4..5 -> 4
                 [] k > 0 /\ fs \div k \in 2..3 -> 2
                 [] OTHER -> 1
BucketsAt(mode, n, k, fs) ==
    LET alignment == IF fs - Page >= mode * k THEN Page ELSE Lane
    IN  IF fs - alignment >= mode * k THEN Rounded(n + fs - mode * k - alignment, alignment)
        ELSE n + fs - mode * k
main_32s(t, n, k, room) ==
    LET fs == FreeEnd(n, room)
    IN  Frame(Mode(k, fs), t, n, k, fs, IF fs < k THEN Heap ELSE BucketsAt(Mode(k, fs), n, k, fs))

Answered(value) == res' = [value |-> value, indexes |-> <<>>]

\* A sampling rate must be a power of two: bsc asks for 1 when n is below 16.
RateRefused == Samples /\ (Rate < 2 \/ Rate \notin PowersOfTwo)
Refuse ==
    /\ stage = "call" /\ RateRefused
    /\ stage' = "done" /\ Answered(-1)
    /\ UNCHANGED <<task, memory, frames, sampled, text>>

\* Nothing to sort.
Trivial ==
    /\ stage = "call" /\ Size < 2 /\ ~ RateRefused
    /\ stage' = "done" /\ Answered(IF task.call = "bwt" THEN Size ELSE 0)
    /\ memory' = IF Transforms \/ Size = 0 THEN memory ELSE [memory EXCEPT ![0] = 0]
    /\ text' = IF Transforms THEN task.text ELSE text
    /\ sampled' = IF Samples THEN [sampled EXCEPT ![0] = Size] ELSE sampled
    /\ UNCHANGED <<task, frames>>

Enter ==
    /\ stage = "call" /\ Size >= 2 /\ ~ RateRefused
    /\ stage' = "enter"
    /\ memory' = Blank
    /\ frames' = <<IF task.call = "libsais_int" THEN main_32s(TextAt, Size, task.k, task.fs) ELSE main_8u>>
    /\ UNCHANGED <<task, sampled, text, res>>

-----------------------------------------------------------------------------
(* The parts of main_8u and main_32s. *)

Top == Head(frames)
Goes(next, M, frame) ==
    /\ stage' = next
    /\ memory' = M
    /\ frames' = <<frame>> \o Tail(frames)
    /\ UNCHANGED <<task, sampled, text, res>>
At(here, modes) == stage = here /\ Top.mode \in modes

\* The buckets of 1k are taken from the heap if there is no room for them, and
\* given back before the recursion: then they are taken once more.
FromHeap == Top.mode = 1 /\ Top.fs < Top.k
Starve ==
    /\ task.scarce
    /\ \/ stage = "call" /\ Size >= 2 /\ ~ RateRefused
       \/ stage = "enter" /\ FromHeap
       \/ stage = "return" /\ FromHeap
    /\ stage' = "done" /\ Answered(-2)
    /\ UNCHANGED <<task, memory, frames, sampled, text>>

\* The LMS suffixes are gathered at the end of the suffix array, and counted.  With
\* at most one of them there is nothing to name.
Gathers(g) ==
    LET frame == [Top EXCEPT !.m = g.m, !.names = g.m, !.first = g.M[Top.n - 1 - (g.m - 1)]]
    IN  IF g.m > 1 THEN Goes("sort", g.M, frame)
        ELSE Goes("finish", [g.M EXCEPT ![0] = g.M[Top.n - 1]], [Top EXCEPT !.m = g.m, !.names = g.m])
FindLms8u ==
    /\ At("enter", {8})
    /\ \E g \in {count_and_gather_lms_suffixes_8u_omp(memory, Top.t, Top.n, Top.b, ThreadsFrom, task.team)} :
       \E M \in {initialize_buckets_start_and_end_8u(g.M, Top.b)} :
          IF g.m > 0
          THEN Goes("sort", M, [Top EXCEPT !.m = g.m, !.first = M[Top.n - g.m], !.threads = g.threads])
          ELSE Goes("finish", Zeroed(M, 0, Top.n), Top)
FindLms6k ==
    /\ At("enter", {6})
    /\ \E g \in {count_and_gather_lms_suffixes_32s_4k_omp(memory, Top.t, Top.n, Top.k, Top.b, task.team)} : Gathers(g)
FindLms4k ==
    /\ At("enter", {4, 2})
    /\ \E g \in {count_and_gather_lms_suffixes_32s_2k_omp(memory, Top.t, Top.n, Top.k, Top.b, task.team)} : Gathers(g)
\* 1k sorts them as it finds them.
Ends1k(M) == initialize_buckets_end_32s_1k(count_suffixes_32s(M, Top.t, Top.n, Top.k, Top.b), Top.k, Top.b)
FindLms1k ==
    /\ At("enter", {1})
    /\ \E g \in {radix_sort_lms_suffixes_32s_1k(Ends1k(Zeroed(memory, 0, Top.n)), Top.t, Top.n, Top.b)} :
          Goes(IF g.m > 1 THEN "induce" ELSE "finish", g.M, [Top EXCEPT !.m = g.m, !.names = g.m])

\* They are put into the buckets of their characters, and the buckets laid out for
\* the sweeps; a team clears where they came from.
ClearedByTeam(M, from, size) == IF TeamFor(task.team, Top.n).n > 1 THEN Zeroed(M, from, size) ELSE M
Sort8u ==
    /\ At("sort", {8})
    /\ \E laid \in {initialize_buckets_for_lms_suffixes_radix_sort_8u(memory, Top.t, Top.b, Top.first)} :
       \E sorted \in {radix_sort_lms_suffixes_8u_omp(ClearedByTeam(laid.M, 0, Top.n - Top.m), Top.t, Top.n,
                          Top.m, Top.b, ThreadsFrom, Top.threads, task.team)} :
          Goes("induce", initialize_buckets_for_partial_sorting_8u(
                             ClearedByTeam(sorted, Top.n - Top.m, Top.m), Top.t, Top.b, Top.first, laid.sum),
               [Top EXCEPT !.left = laid.sum])
Sort6k ==
    /\ At("sort", {6})
    /\ \E laid \in {initialize_buckets_for_lms_suffixes_radix_sort_32s_6k(
                        Zeroed(memory, 0, Top.n - Top.m), Top.t, Top.k, Top.b, Top.first)} :
       \E marked \in {radix_sort_set_markers_32s_6k_omp(
                          radix_sort_lms_suffixes_32s_6k_omp(laid.M, Top.t, Top.n, Top.m, Top.b + 4 * Top.k, task.team),
                          Top.k, Top.b + 4 * Top.k, task.team)} :
          Goes("induce", initialize_buckets_for_partial_sorting_32s_6k(
                             ClearedByTeam(marked, Top.n - Top.m, Top.m), Top.t, Top.k, Top.b, Top.first, laid.sum),
               [Top EXCEPT !.left = laid.sum])
Sort4k ==
    /\ At("sort", {4})
    /\ Goes("induce",
            place_lms_suffixes_interval_32s_4k(
                radix_sort_set_markers_32s_4k_omp(
                    radix_sort_lms_suffixes_32s_2k_omp(
                        initialize_buckets_for_radix_and_partial_sorting_32s_4k(
                            memory, Top.t, Top.k, Top.b, Top.first),
                        Top.t, Top.n, Top.m, Top.b + 1, task.team),
                    Top.k, Top.b + 1, task.team),
                Top.n, Top.k, Top.m - 1, Top.b), Top)
Sort2k ==
    /\ At("sort", {2})
    /\ Goes("induce",
            initialize_buckets_start_and_end_32s_2k(
                place_lms_suffixes_interval_32s_2k(
                    radix_sort_lms_suffixes_32s_2k_omp(
                        initialize_buckets_for_lms_suffixes_radix_sort_32s_2k(
                            memory, Top.t, Top.k, Top.b, Top.first),
                        Top.t, Top.n, Top.m, Top.b + 1, task.team),
                    Top.n, Top.k, Top.m - 1, Top.b),
                Top.k, Top.b), Top)

\* Two sweeps sort them by their substrings.
Induce8u ==
    /\ At("induce", {8})
    /\ Goes("name", induce_partial_order_8u_omp(memory, Top.t, Top.n, Top.b, Top.first, Top.left, task.team), Top)
Induce6k ==
    /\ At("induce", {6})
    /\ Goes("name", induce_partial_order_32s_6k_omp(memory, Top.t, Top.n, Top.k, Top.b, Top.first, Top.left,
                                                    task.team), Top)
Induce4k ==
    /\ At("induce", {4})
    /\ Goes("name", induce_partial_order_32s_4k_omp(memory, Top.t, Top.n, Top.k, Top.b, task.team), Top)
Induce2k ==
    /\ At("induce", {2})
    /\ Goes("name", induce_partial_order_32s_2k_omp(memory, Top.t, Top.n, Top.k, Top.b, task.team), Top)
Induce1k ==
    /\ At("induce", {1})
    /\ Goes("name", induce_partial_order_32s_1k_omp(memory, Top.t, Top.n, Top.k, Top.b, task.team), Top)

\* Equal substrings get one name.  If the names are not unique, their text is sorted;
\* else the order is known, and 2k, 4k and 6k count again what is in the buckets.
Named(x) ==
    IF x.names < Top.m THEN Goes("recurse", x.M, [Top EXCEPT !.names = x.names])
    ELSE Goes("finish", IF Top.mode \in {8, 1} THEN x.M
                        ELSE count_lms_suffixes_32s_2k(x.M, Top.t, Top.n, Top.k, Top.b),
              [Top EXCEPT !.names = x.names])
Name8u ==
    /\ At("name", {8})
    /\ \E x \in {renumber_and_gather_lms_suffixes_8u_omp(memory, Top.n, Top.m, Top.fs, task.team)} : Named(x)
Name4k ==
    /\ At("name", {6, 4})
    /\ \E x \in {renumber_and_mark_distinct_lms_suffixes_32s_4k_omp(memory, Top.n, Top.m, task.team)} : Named(x)
Name1k ==
    /\ At("name", {2, 1})
    /\ \E x \in {renumber_and_mark_distinct_lms_suffixes_32s_1k_omp(memory, Top.t, Top.n, Top.m, task.team)} : Named(x)

\* A text of names is shorter by the f whose place is known already.
Recurse ==
    /\ stage = "recurse"
    /\ \E c \in {IF Top.mode = 8 THEN [M |-> memory, f |-> 0]
                 ELSE compact_lms_suffixes_32s_omp(memory, Top.t, Top.n, Top.m, Top.fs, task.team)} :
          /\ memory' = c.M
          /\ frames' = <<main_32s(Top.n + Top.fs - Top.m + c.f, Top.m - c.f, Top.names - c.f,
                                  Top.fs + Top.n - 2 * Top.m + c.f),
                         [Top EXCEPT !.f = c.f]>> \o Tail(frames)
    /\ stage' = "enter"
    /\ UNCHANGED <<task, sampled, text, res>>

\* From the order of the names that of the LMS suffixes.
Reconstruct8u ==
    /\ At("return", {8})
    /\ Goes("finish",
            reconstruct_lms_suffixes_omp(
                gather_lms_suffixes_8u_omp(memory, Top.t, Top.n, Top.threads, task.team), Top.n, Top.m, task.team), Top)
Reconstruct2k ==
    /\ At("return", {6, 4, 2})
    /\ Goes("finish", reconstruct_compacted_lms_suffixes_32s_2k_omp(
                          memory, Top.t, Top.n, Top.k, Top.m, Top.fs, Top.f, Top.b, task.team), Top)
Reconstruct1k ==
    /\ At("return", {1})
    /\ Goes("finish", reconstruct_compacted_lms_suffixes_32s_1k_omp(
                          memory, Top.t, Top.n, Top.m, Top.fs, Top.f, task.team), Top)

\* They go into their buckets in this order, and two sweeps put in the others.
Return(M) ==
    /\ memory' = M
    /\ IF Len(frames) > 1 THEN stage' = "return" /\ frames' = Tail(frames) /\ res' = res
       ELSE stage' = "done" /\ frames' = <<>> /\ Answered(0)
    /\ UNCHANGED <<task, sampled, text>>
Finish6k ==
    /\ At("finish", {6}) /\ Top.m <= 1
    /\ Return(induce_final_order_32s_6k(
                  place_lms_suffixes_histogram_32s_6k(
                      initialize_buckets_start_and_end_32s_6k(memory, Top.k, Top.b), Top.n, Top.k, Top.m, Top.b),
                  Top.t, Top.n, Top.k, Top.b, task.team))
Finish4k ==
    /\ At("finish", {6, 4}) /\ (Top.mode = 6 => Top.m > 1)
    /\ Return(induce_final_order_32s_4k(
                  place_lms_suffixes_histogram_32s_4k(
                      initialize_buckets_start_and_end_32s_4k(memory, Top.k, Top.b), Top.n, Top.k, Top.m, Top.b),
                  Top.t, Top.n, Top.k, Top.b, task.team))
Finish2k ==
    /\ At("finish", {2})
    /\ Return(induce_final_order_32s_2k(
                  initialize_buckets_start_and_end_32s_2k(
                      place_lms_suffixes_histogram_32s_2k(
                          initialize_buckets_end_32s_2k(memory, Top.k, Top.b), Top.n, Top.k, Top.m, Top.b),
                      Top.k, Top.b),
                  Top.t, Top.n, Top.k, Top.b, task.team))
Finish1k ==
    /\ At("finish", {1})
    /\ Return(induce_final_order_32s_1k(
                  IF Top.m > 1
                  THEN place_lms_suffixes_interval_32s_1k(Ends1k(memory), Top.t, Top.k, Top.m, Top.b)
                  ELSE memory,
                  Top.t, Top.n, Top.k, Top.b, task.team))

\* main_8u: sorted, or what precedes each suffix in order, sampled or not.
Placed8u == IF Top.m > 0 THEN place_lms_suffixes_interval_8u(memory, Top.n, Top.m, Top.b) ELSE memory
Finish8u(Final(_)) ==
    /\ At("finish", {8})
    /\ \E x \in {Final(Placed8u)} :
          /\ memory' = x.M
          /\ sampled' = x.I
          /\ res' = [value |-> IF task.call = "bwt" THEN x.index ELSE 0, indexes |-> <<>>]
    /\ stage' = IF Transforms THEN "copy" ELSE "done"
    /\ frames' = <<>>
    /\ UNCHANGED <<task, text>>
FinishSorted ==
    /\ task.call = "libsais"
    /\ Finish8u(LAMBDA M : final_order_8u(M, Top.t, Top.n, sampled, Top.b, task.team))
FinishBwt ==
    /\ task.call = "bwt"
    /\ Finish8u(LAMBDA M : final_bwt_8u(M, Top.t, Top.n, sampled, Top.b, task.team))
FinishAux ==
    /\ Samples
    /\ Finish8u(LAMBDA M : final_bwt_aux_8u(M, Top.t, Top.n, Rate, sampled, Top.b, task.team))

-----------------------------------------------------------------------------
(* The transform, and back. *)

\* The last character comes first; what stands before the text as a whole is left
\* out.  bsc gives the samples but the first as indexes.
bwt_copy_8u(U, to, from, size) ==
    [i \in DOMAIN U |-> IF i \in to..(to + size - 1) THEN memory[i - to + from] % Alphabet ELSE U[i]]
Copy ==
    /\ stage = "copy"
    /\ LET index == IF Samples THEN sampled[0] ELSE res.value + 1
       IN  /\ text' = bwt_copy_8u(bwt_copy_8u([task.text EXCEPT ![0] = task.text[Size - 1]], 1, 0, index - 1),
                                  index, index, Size - index)
           /\ res' = [value |-> IF task.call = "aux" THEN 0 ELSE index,
                      indexes |-> IF task.call = "bsc"
                                  THEN [s \in 1..((Size - 1) \div Rate) |-> sampled[s] - 1] ELSE <<>>]
    /\ stage' = "decode"
    /\ UNCHANGED <<task, memory, frames, sampled>>

\* bsc_bwt_decode, with the indexes or without; libsais_unbwt and libsais_unbwt_aux.
Indexes == [s \in 0..Len(res.indexes) |-> IF s = 0 THEN res.value ELSE res.indexes[s] + 1]
Junk == [i \in 0..Size |-> task.junk]
Back(x) ==
    /\ stage' = "done"
    /\ text' = x.U
    /\ res' = [res EXCEPT !.value = x.res]
    /\ UNCHANGED <<task, memory, frames, sampled>>
Decode ==
    /\ stage = "decode" /\ task.call # "aux"
    /\ \E x \in {libsais_unbwt(text, Junk, Size, res.value, task.team)} : Back(x)
DecodeAux ==
    /\ stage = "decode" /\ Samples
    /\ \E x \in {libsais_unbwt_aux(text, Junk, Size, Rate, IF task.call = "aux" THEN sampled ELSE Indexes,
                                   task.team)} : Back(x)

-----------------------------------------------------------------------------
Init ==
    /\ task \in Tasks
    /\ stage = "call"
    /\ memory = [i \in 0..(Size - 1) |-> task.junk]
    /\ frames = <<>>
    /\ sampled = [s \in 0..Size |-> task.junk]
    /\ text = task.text
    /\ res = [value |-> -9, indexes |-> <<>>]

Sort == Sort8u \/ Sort6k \/ Sort4k \/ Sort2k
FindLms == FindLms8u \/ FindLms6k \/ FindLms4k \/ FindLms1k
Induce == Induce8u \/ Induce6k \/ Induce4k \/ Induce2k \/ Induce1k
Name == Name8u \/ Name4k \/ Name1k
Reconstruct == Reconstruct8u \/ Reconstruct2k \/ Reconstruct1k
Finish == Finish6k \/ Finish4k \/ Finish2k \/ Finish1k \/ FinishSorted \/ FinishBwt \/ FinishAux
Next ==
    \/ Refuse \/ Trivial \/ Enter \/ Starve
    \/ FindLms \/ Sort \/ Induce \/ Name \/ Recurse \/ Reconstruct \/ Finish
    \/ Copy \/ Decode \/ DecodeAux

-----------------------------------------------------------------------------
(* What is promised. *)

\* The suffix p of the text is before q: it is less where they first differ, or
\* ends there.
Before(p, q) ==
    LET T == task.text
        l == CHOOSE l \in 0..(Size - Larger(p, q)) :
                 /\ \A i \in 0..(l - 1) : T[p + i] = T[q + i]
                 /\ Larger(p, q) + l = Size \/ T[p + l] # T[q + l]
    IN  IF Larger(p, q) + l = Size THEN p > q ELSE T[p + l] < T[q + l]
Rank(p) == Cardinality({q \in 0..(Size - 1) : q # p /\ Before(q, p)})
Well == stage = "done" /\ res.value >= 0

\* libsais and libsais_int sort the suffixes; the text is as it was, though that of
\* names is written to in between (libsais.h:69).
SuffixesSorted ==
    Well /\ ~ Transforms =>
        /\ \A p \in 0..(Size - 1) : memory[Rank(p)] = p
        /\ Size > 1 => \A p \in 0..(Size - 1) : memory[TextAt + p] = task.text[p]

\* libsais_bwt and libsais_bwt_aux give what precedes each suffix in their order, but
\* for the text as a whole, whose place they return; the places of the samples, too.
TransformDefined ==
    stage = "decode" =>
        /\ text[0] = task.text[Size - 1]
        /\ \A p \in 1..(Size - 1) :
              text[IF Rank(p) < Rank(0) THEN Rank(p) + 1 ELSE Rank(p)] = task.text[p - 1]
        /\ task.call # "aux" => res.value = Rank(0) + 1
        /\ Samples => \A s \in 0..((Size - 1) \div Rate) : sampled[s] = Rank(s * Rate) + 1

\* libsais_unbwt gives the text back, from the indexes and without.
TextComesBack == Well /\ Transforms => text = task.text

\* No more is refused than has to be.
RefusedForCause ==
    stage = "done" => /\ res.value = -1 => RateRefused
                      /\ res.value = -2 => task.scarce
=============================================================================
