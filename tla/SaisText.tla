-------------------------------- MODULE SaisText --------------------------------
(***************************************************************************)
(* Suffix sorting by induction (libsais.c): one memory that holds the      *)
(* suffix array, the text and the buckets, the sweeps over it, and the     *)
(* passes that find the LMS suffixes and lay out the buckets.  Every pass  *)
(* takes the memory M and the places in it where the text t and the        *)
(* buckets b begin, and gives the memory after it: in libsais the text of  *)
(* a recursion and its buckets lie in the free end of the suffix array.    *)
(***************************************************************************)
EXTENDS Integers, Sequences

CONSTANTS
    Word,         \* 2^31: the sign bit of an entry of the suffix array (SAINT_MIN is -Word); a multiple of 4
    Alphabet      \* ALPHABET_SIZE

Marker == Word \div 2                          \* SUFFIX_GROUP_MARKER
Unmarked(v) == v % Word                        \* v & SAINT_MAX
Negated(v) == IF v < 0 THEN v ELSE v - Word    \* v | SAINT_MIN
Toggled(v) == IF v < 0 THEN v + Word ELSE v - Word    \* v ^ SAINT_MIN
InGroup(v) == Unmarked(v) \div Marker = 1      \* v & SUFFIX_GROUP_MARKER
Grouped(v) == IF InGroup(v) THEN v ELSE v + Marker
Ungrouped(v) == IF InGroup(v) THEN v - Marker ELSE v

Bit(p) == IF p THEN 1 ELSE 0
Index2(c, s) == 2 * c + s
Index4(c, s) == 4 * c + s

\* Step at each place from a up to z, or from a down to z: by halves.
Given(x, F(_)) == CHOOSE y \in {F(z) : z \in {x}} : TRUE
Up(Step(_, _), first, a, z) ==
    LET RECURSIVE From(_, _, _)
        From(x, lo, hi) ==
            IF lo > hi THEN x
            ELSE IF lo = hi THEN Step(x, lo)
            ELSE Given(From(x, lo, (lo + hi) \div 2), LAMBDA y : From(y, (lo + hi) \div 2 + 1, hi))
    IN  Given(first, LAMBDA x : From(x, a, z))
Down(Step(_, _), first, a, z) == Up(LAMBDA x, i : Step(x, a + z - i), first, z, a)

\* SA[buckets[b]++] = v and SA[--buckets[b]] = v
PutUp(M, b, v) == [M EXCEPT ![b] = @ + 1, ![M[b]] = v]
PutDown(M, b, v) == [M EXCEPT ![b] = @ - 1, ![M[b] - 1] = v]
Counted(M, b, d) == [M EXCEPT ![b] = @ + d]
Zeroed(M, a, size) == Up(LAMBDA A, i : [A EXCEPT ![i] = 0], M, a, a + size - 1)
CopyOf(M, from, to, size) == Up(LAMBDA A, i : [A EXCEPT ![to + i] = M[from + i]], M, 0, size - 1)

-----------------------------------------------------------------------------
\* The types of the last two suffixes, 1 for one that is larger than its
\* successor: the right one of the two is an LMS suffix when they are 0 and 1.
Types(s, c, next) == 2 * (s % 2) + Bit(c > next - (s % 2))

\* One suffix further left, x.c being the character to its right, whose place is
\* left in SA[m] and stays there if that one is an LMS suffix.
LmsStep(x, i, c, Kept(_, _)) ==
    LET s == Types(x.s, c, x.c)
    IN  [M |-> [x.M EXCEPT ![x.m] = i + 1], m |-> x.m - Bit(Kept(x.c, s)), c |-> c, s |-> s]
CountStep(x, c, Cell(_, _)) ==
    LET s == Types(x.s, c, x.c)
    IN  [x EXCEPT !.M = Counted(@, Cell(x.c, s), 1), !.c = c, !.s = s]
GatherStep(x, i, c, Kept(_, _), Cell(_, _)) ==
    LET s == Types(x.s, c, x.c)
    IN  [M |-> [x.M EXCEPT ![x.m] = i + 1, ![Cell(x.c, s)] = @ + 1],
         m |-> x.m - Bit(Kept(x.c, s)), c |-> c, s |-> s]

\* The first character from j on that differs from c, or the last one.
RECURSIVE OtherThan(_, _, _, _, _)
OtherThan(M, t, j, n, c) ==
    IF j < n /\ M[t + j] = c /\ j + 1 < n THEN OtherThan(M, t, j + 1, n, c)
    ELSE IF j < n THEN M[t + j] ELSE -1

\* Where a block of the text is entered from the right.
BlockEnd(M, t, n, m, start, size) ==
    LET c == M[t + start + size - 1]
    IN  [M |-> M, m |-> m, c |-> c, s |-> Bit(c >= OtherThan(M, t, start + size, n, c))]
TextEnd(M, t, n, m) == [M |-> M, m |-> m, c |-> M[t + n - 1], s |-> 1]

IsLms(c, s) == s = 1
\* A negative character is that of a suffix whose place is known: it is left out.
IsOpenLms(c, s) == s = Bit(c >= 0)

\* Without counting.
gather_lms_suffixes_8u(M, t, n, m, start, size) ==
    LET x == Down(LAMBDA y, i : LmsStep(y, i, M[t + i], IsLms), BlockEnd(M, t, n, m, start, size),
                  start + size - 2, start)
    IN  IF size > 0 THEN [x.M EXCEPT ![x.m] = start] ELSE M

Gathered(M, t, n, Kept(_, _)) ==
    LET x == Down(LAMBDA y, i : LmsStep(y, i, M[t + i], Kept), TextEnd(M, t, n, n - 1), n - 2, 0)
    IN  [M |-> x.M, m |-> n - 1 - x.m]
gather_lms_suffixes_32s(M, t, n) == Gathered(M, t, n, IsLms)
gather_compacted_lms_suffixes_32s(M, t, n) == Gathered(M, t, n, IsOpenLms)

\* Without gathering.
CountedSuffixes(M, t, n, b, cells, Cell(_, _)) ==
    LET x == Down(LAMBDA y, i : CountStep(y, M[t + i], Cell),
                  TextEnd(Zeroed(M, b, cells), t, n, n - 1), n - 2, 0)
    IN  Counted(x.M, Cell(x.c, 2 * (x.s % 2)), 1)
count_lms_suffixes_32s_4k(M, t, n, k, b) ==
    CountedSuffixes(M, t, n, b, 4 * k, LAMBDA c, s : b + Index4(c, s))
count_lms_suffixes_32s_2k(M, t, n, k, b) ==
    CountedSuffixes(M, t, n, b, 2 * k, LAMBDA c, s : b + Index2(c, Bit(s = 1)))
count_compacted_lms_suffixes_32s_2k(M, t, n, k, b) ==
    CountedSuffixes(M, t, n, b, 2 * k, LAMBDA c, s : b + Index2(Unmarked(c), Bit(s = 1)))
count_suffixes_32s(M, t, n, k, b) ==
    Up(LAMBDA A, i : Counted(A, b + A[t + i], 1), Zeroed(M, b, k), 0, n - 1)

\* Both, in a block, into the suffix array at sa; before the text stands a -1.
CountAndGather(M, t, sa, n, b, cells, start, size, Kept(_, _), Cell(_, _)) ==
    LET last == start + size - 1
        x == Down(LAMBDA y, i : GatherStep(y, i, M[t + i], Kept, Cell),
                  BlockEnd(Zeroed(M, b, cells), t, n, sa + last, start, size), last - 1, start)
        y == GatherStep(x, start - 1, IF start > 0 THEN M[t + start - 1] ELSE -1, Kept, Cell)
    IN  IF size > 0 THEN [M |-> y.M, m |-> sa + last - y.m] ELSE [M |-> Zeroed(M, b, cells), m |-> 0]

count_and_gather_lms_suffixes_8u(M, t, n, b, start, size) ==
    CountAndGather(M, t, 0, n, b, 4 * Alphabet, start, size, IsLms, LAMBDA c, s : b + Index4(c, s))
count_and_gather_lms_suffixes_32s_4k(M, t, n, k, b, start, size) ==
    CountAndGather(M, t, 0, n, b, 4 * k, start, size, IsLms, LAMBDA c, s : b + Index4(c, s))
count_and_gather_lms_suffixes_32s_2k(M, t, n, k, b, start, size) ==
    CountAndGather(M, t, 0, n, b, 2 * k, start, size, IsLms, LAMBDA c, s : b + Index2(c, Bit(s = 1)))
count_and_gather_compacted_lms_suffixes_32s_2k(M, t, sa, n, k, b, start, size) ==
    CountAndGather(M, t, sa, n, b, 2 * k, start, size, IsOpenLms,
                   LAMBDA c, s : b + Index2(Unmarked(c), Bit(s = 1)))

-----------------------------------------------------------------------------
\* Sums over the cells of the buckets, one bucket after the other: what a bucket
\* holds, and the memory after Laid(M, j, before, after), j being its character.
Holds(M, a, cells) == Up(LAMBDA sum, i : sum + M[i], 0, a, a + cells - 1)
LayOut(M, k, Size(_, _), Laid(_, _, _, _)) ==
    Up(LAMBDA x, j : LET after == x.sum + Size(x.M, j)
                     IN  [M |-> Laid(x.M, j, x.sum, after), sum |-> after],
       [M |-> M, sum |-> 0], 0, k - 1)
StartAndEnd(M, k, Size(_, _), start, end) ==
    LayOut(M, k, Size, LAMBDA A, j, before, after :
                           [A EXCEPT ![start + j] = before, ![end + j] = after]).M

initialize_buckets_start_and_end_8u(M, b) ==
    StartAndEnd(M, Alphabet, LAMBDA A, j : Holds(A, b + 4 * j, 4), b + 6 * Alphabet, b + 7 * Alphabet)
initialize_buckets_start_and_end_32s_6k(M, k, b) ==
    StartAndEnd(M, k, LAMBDA A, j : Holds(A, b + 4 * j, 4), b + 4 * k, b + 5 * k)
initialize_buckets_start_and_end_32s_4k(M, k, b) ==
    StartAndEnd(M, k, LAMBDA A, j : Holds(A, b + 2 * j, 2), b + 2 * k, b + 3 * k)
initialize_buckets_end_32s_2k(M, k, b) ==
    LayOut(M, k, LAMBDA A, j : Holds(A, b + 2 * j, 2),
           LAMBDA A, j, before, after : [A EXCEPT ![b + 2 * j] = after]).M
initialize_buckets_start_and_end_32s_2k(M, k, b) ==
    LET ends == Up(LAMBDA A, j : [A EXCEPT ![b + j] = A[b + 2 * j]], M, 0, k - 1)
    IN  CopyOf([ends EXCEPT ![b + k] = 0], b, b + k + 1, k - 1)
initialize_buckets_start_32s_1k(M, k, b) ==
    LayOut(M, k, LAMBDA A, j : A[b + j],
           LAMBDA A, j, before, after : [A EXCEPT ![b + j] = before]).M
initialize_buckets_end_32s_1k(M, k, b) ==
    LayOut(M, k, LAMBDA A, j : A[b + j],
           LAMBDA A, j, before, after : [A EXCEPT ![b + j] = after]).M

\* What is to the left of the first LMS suffix is induced by none: it is not counted.
BeforeFirst(M, t, b, first) ==
    LET x == Down(LAMBDA y, i : [M |-> Counted(y.M, b + Index4(y.c, Types(y.s, M[t + i], y.c)), -1),
                                 c |-> M[t + i], s |-> Types(y.s, M[t + i], y.c)],
                  [M |-> M, c |-> M[t + first], s |-> 0], first - 1, 0)
    IN  Counted(x.M, b + Index4(x.c, 2 * (x.s % 2)), -1)
LmsOf(M, b, j) == M[b + Index4(j, 1)] + M[b + Index4(j, 3)]

initialize_buckets_for_lms_suffixes_radix_sort_8u(M, t, b, first) ==
    LayOut(BeforeFirst(M, t, b, first), Alphabet, LAMBDA A, j : LmsOf(A, b, j),
           LAMBDA A, j, before, after : [A EXCEPT ![b + 4 * Alphabet + Index2(j, 1)] = before,
                                                  ![b + 4 * Alphabet + Index2(j, 0)] = after])
initialize_buckets_for_lms_suffixes_radix_sort_32s_6k(M, t, k, b, first) ==
    LayOut(BeforeFirst(M, t, b, first), k, LAMBDA A, j : LmsOf(A, b, j),
           LAMBDA A, j, before, after : [A EXCEPT ![b + 4 * k + j] = after])

\* The first LMS suffix is counted as if it were none.
FirstAsOther(M, t, b, first) ==
    [M EXCEPT ![b + Index2(M[t + first], 0)] = @ + 1, ![b + Index2(M[t + first], 1)] = @ - 1]
LmsSums(M, k, b) ==
    LayOut(M, k, LAMBDA A, j : A[b + Index2(j, 1)],
           LAMBDA A, j, before, after : [A EXCEPT ![b + Index2(j, 1)] = after]).M
initialize_buckets_for_lms_suffixes_radix_sort_32s_2k(M, t, k, b, first) ==
    LmsSums(initialize_buckets_end_32s_2k(FirstAsOther(M, t, b, first), k, b), k, b)
initialize_buckets_for_radix_and_partial_sorting_32s_4k(M, t, k, b, first) ==
    LmsSums(initialize_buckets_start_and_end_32s_4k(FirstAsOther(M, t, b, first), k, b), k, b)

\* What the sweeps start from: where a bucket's suffixes go, for each kind.
initialize_buckets_for_partial_sorting_8u(M, t, b, first, left) ==
    Up(LAMBDA x, j :
           LET large == x.large + x.M[b + Index4(j, 0)] + x.M[b + Index4(j, 2)]
               lms == x.lms + x.M[b + Index4(j, 1)]
           IN  [M |-> [x.M EXCEPT ![b + 4 * Alphabet + Index2(j, 0)] = x.large,
                                  ![b + Index2(j, 0)] = large, ![b + Index2(j, 1)] = lms],
                large |-> large, lms |-> lms],
       [M |-> Counted(M, b + Index4(M[t + first], 1), 1), large |-> left + 1, lms |-> 0],
       0, Alphabet - 1).M
initialize_buckets_for_partial_sorting_32s_6k(M, t, k, b, first, left) ==
    Up(LAMBDA x, j :
           LET Cell(s) == x.M[b + Index4(j, s)]
               large == x.large + Cell(0) + Cell(2)
               lms == x.lms + Cell(1) + Bit(j = M[t + first])
               small == x.small + Cell(1) + Cell(3)
           IN  [M |-> [x.M EXCEPT ![b + Index4(j, 0)] = x.large, ![b + Index4(j, 1)] = x.small,
                                  ![b + Index4(j, 2)] = 0, ![b + Index4(j, 3)] = 0,
                                  ![b + 4 * k + Index2(j, 0)] = large,
                                  ![b + 4 * k + Index2(j, 1)] = lms],
                large |-> large, lms |-> lms, small |-> small],
       [M |-> M, large |-> left + 1, lms |-> 0, small |-> 0], 0, k - 1).M

-----------------------------------------------------------------------------
\* Each LMS suffix to the end of the bucket of its character, from the right.
RadixSorted(M, start, size, Cell(_, _)) ==
    Down(LAMBDA A, i : PutDown(A, Cell(A, A[i]), A[i]), M, start + size - 1, start)
radix_sort_lms_suffixes_8u(M, t, b, start, size) ==
    RadixSorted(M, start, size, LAMBDA A, p : b + Index2(A[t + p], 0))
radix_sort_lms_suffixes_32s_6k(M, t, b, start, size) ==
    RadixSorted(M, start, size, LAMBDA A, p : b + A[t + p])
radix_sort_lms_suffixes_32s_2k(M, t, b, start, size) ==
    RadixSorted(M, start, size, LAMBDA A, p : b + Index2(A[t + p], 0))

\* Found and sorted at once; the leftmost one is dropped again if it is not alone.
radix_sort_lms_suffixes_32s_1k(M, t, n, b) ==
    LET x == Down(LAMBDA y, i :
                      LET s == Types(y.s, M[t + i], y.c)
                          A == IF s = 1 THEN PutDown(y.M, b + y.c, i + 1) ELSE y.M
                      IN  [M |-> A, m |-> y.m + Bit(s = 1), c |-> M[t + i], s |-> s,
                           last |-> IF s = 1 THEN y.c ELSE y.last],
                  [M |-> M, m |-> 0, c |-> M[t + n - 1], s |-> 1, last |-> 0], n - 2, 0)
    IN  [M |-> IF x.m > 1 THEN [x.M EXCEPT ![x.M[b + x.last]] = 0] ELSE x.M, m |-> x.m]

\* The first suffix of each bucket begins a group of names; the last bucket has none.
radix_sort_set_markers_32s_6k(M, b, start, size) ==
    Up(LAMBDA A, i : [A EXCEPT ![A[b + i]] = Negated(@)], M, start, start + size - 1)
radix_sort_set_markers_32s_4k(M, b, start, size) ==
    Up(LAMBDA A, i : [A EXCEPT ![A[b + Index2(i, 0)]] = Grouped(@)], M, start, start + size - 1)
=============================================================================
