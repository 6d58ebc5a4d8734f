-------------------------------- MODULE SaisTeam --------------------------------
(***************************************************************************)
(* Suffix sorting by induction by a team of OpenMP threads: how a pass is  *)
(* split among them, and the counting, gathering and radix sorting of the  *)
(* LMS suffixes by a team.  Between two barriers the threads work on parts *)
(* of their own; a team carries an order in which they do.                 *)
(***************************************************************************)
EXTENDS SaisText, Sequences

CONSTANTS
    TeamFrom,     \* 65536: from how many suffixes on a team works
    BlockFrom,    \* 16384: from how many on it works on a block
    Lane,         \* 16: what the parts of a block are multiples of
    Page,         \* 1024: what buckets in the free end are aligned to if there is room
    CacheSize     \* LIBSAIS_PER_THREAD_CACHE_SIZE

\* A team has n threads; what they do at the same time they do in this order.
Alone == [n |-> 1, order |-> <<0>>]
TeamFor(team, size) == IF size >= TeamFrom THEN team ELSE Alone
Part(team, n) == [n |-> n, order |-> SelectSeq(team.order, LAMBDA thread : thread < n)]

Rounded(size, unit) == ((size + unit - 1) \div unit) * unit
PartStart(team, thread, size) == thread * (((size \div team.n) \div Lane) * Lane)
PartSize(team, thread, size) ==
    IF thread < team.n - 1 THEN ((size \div team.n) \div Lane) * Lane
    ELSE size - PartStart(team, thread, size)
PartEnd(team, thread, size) == PartStart(team, thread, size) + PartSize(team, thread, size)
\* What each thread Does to its part of a block.
AtOnce(Does(_, _, _, _), first, team, start, size) ==
    Up(LAMBDA x, j : Does(x, team.order[j], start + PartStart(team, team.order[j], size),
                          PartSize(team, team.order[j], size)), first, 1, team.n)

Sweep(Step(_, _), first, right, start, size) ==
    IF right THEN Up(Step, first, start, start + size - 1)
    ELSE Down(Step, first, start + size - 1, start)
Put(right, M, b, v) == IF right THEN PutUp(M, b, v) ELSE PutDown(M, b, v)
Cell(M, cell, right) == IF right THEN M[cell] ELSE M[cell] - 1
Taken(M, cell, right) == [M EXCEPT ![cell] = IF right THEN @ + 1 ELSE @ - 1]
Counts(size) == [v \in 0..(size - 1) |-> 0]

-----------------------------------------------------------------------------
\* Sorting: x.M is the memory, x.C what the threads keep, x.d how many names there
\* are.  A block of a sweep has in its cache an entry for each of its places: a
\* suffix (index) and where it goes (symbol), or no place.
Sorting(M) == [M |-> M, d |-> 0, C |-> <<>>]
NoPlace == -Word
NoEntry == [index |-> 0, symbol |-> NoPlace]
EmptyCache(start, size) == [i \in start..(start + size - 1) |-> NoEntry]

place_cached_suffixes(x, start, size) ==
    Up(LAMBDA y, i : [y EXCEPT !.M[y.C[i].symbol] = y.C[i].index], x, start, start + size - 1)
compact_and_place_cached_suffixes(x, start, size) ==
    Up(LAMBDA y, i : IF y.C[i].symbol >= 0 THEN [y EXCEPT !.M[y.C[i].symbol] = y.C[i].index] ELSE y,
       x, start, start + size - 1)

\* A block: each thread reads its part, one sorts, each writes its part; or One
\* does it all if there are too few.
TeamBlock(x, team, start, size, One(_), Gather(_, _, _), Sort(_), Place(_, _, _)) ==
    LET cached == [x EXCEPT !.C = EmptyCache(start, size)]
        read == AtOnce(LAMBDA y, thread, s, z : Gather(y, s, z), cached, team, start, size)
    IN  IF team.n > 1 /\ size >= BlockFrom
        THEN AtOnce(LAMBDA y, thread, s, z : Place(y, s, z), Sort(read), team, start, size)
        ELSE One(x)
\* Block after block.
InBlocks(x, team, right, start, size, Block(_, _, _)) ==
    LET len == team.n * CacheSize
        blocks == (size + len - 1) \div len
        Size(j) == IF j < blocks THEN len ELSE size - (blocks - 1) * len
        Start(j) == IF right THEN start + (j - 1) * len ELSE start + size - (j - 1) * len - Size(j)
    IN  Up(LAMBDA y, j : Block(y, Start(j), Size(j)), x, 1, blocks)
SweepBlocks(x, team, right, start, size, Block(_, _, _, _)) ==
    IF TeamFor(team, size).n = 1 THEN Block(x, start, size, Alone)
    ELSE InBlocks(x, team, right, start, size, LAMBDA y, s, z : Block(y, s, z, team))

-----------------------------------------------------------------------------
\* Counting and gathering: the parts' LMS suffixes are moved together at the end
\* of the text, counts saying how many each thread has.
MovedTogether(M, n, counts, team) ==
    Down(LAMBDA x, thread :
             LET m == x.m + counts[thread]
             IN  [M |-> IF thread < team.n - 1
                        THEN CopyOf(x.M, PartEnd(team, thread, n) - counts[thread], n - m, counts[thread])
                        ELSE x.M,
                  m |-> m],
         [M |-> M, m |-> 0], team.n - 1, 0)

\* 8u: each thread counts into buckets of its own, the thread's of those at w; in
\* them stays what the threads to its right have counted.  x.m is how many LMS
\* suffixes each has, x.last its last one.
ThreadBuckets(w, thread) == w + 4 * Alphabet * thread
CountPart(x, t, n, w, thread, start, size) ==
    LET g == count_and_gather_lms_suffixes_8u(x.M, t, n, ThreadBuckets(w, thread), start, size)
    IN  [M |-> g.M, m |-> [x.m EXCEPT ![thread] = g.m],
         last |-> [x.last EXCEPT ![thread] = g.M[start + size - 1]]]
AddCounts(M, b, w, thread) ==
    Up(LAMBDA A, s : [A EXCEPT ![b + s] = M[b + s] + M[ThreadBuckets(w, thread) + s],
                               ![ThreadBuckets(w, thread) + s] = M[b + s]],
       M, 0, 4 * Alphabet - 1)
count_and_gather_lms_suffixes_8u_omp(M, t, n, b, w, team) ==
    LET alone == count_and_gather_lms_suffixes_8u(M, t, n, b, 0, n)
        parts == AtOnce(LAMBDA x, thread, s, z : CountPart(x, t, n, w, thread, s, z),
                        [M |-> M, m |-> Counts(team.n), last |-> Counts(team.n)], team, 0, n)
        moved == MovedTogether(parts.M, n, parts.m, team)
    IN  IF TeamFor(team, n).n = 1 THEN [M |-> alone.M, m |-> alone.m, threads |-> <<>>]
        ELSE [M |-> Down(LAMBDA A, thread : AddCounts(A, b, w, thread),
                         Zeroed(moved.M, b, 4 * Alphabet), team.n - 1, 0),
              m |-> moved.m, threads |-> [m |-> parts.m, last |-> parts.last]]

\* How many suffixes lie in the parts to the right of a thread's.
ToTheRight(counts, thread, team) == Up(LAMBDA sum, u : sum + counts[u], 0, thread + 1, team.n - 1)

\* Each thread leaves its first place where the last one of the thread to its left
\* belongs, which is put back after the barrier.
gather_lms_suffixes_8u_omp(M, t, n, threads, team) ==
    LET Right(thread) == n - 1 - ToTheRight(threads.m, thread, team)
        parts == AtOnce(LAMBDA A, thread, s, z : gather_lms_suffixes_8u(A, t, n, Right(thread), s, z),
                        M, team, 0, n)
    IN  IF TeamFor(team, n).n = 1 THEN gather_lms_suffixes_8u(M, t, n, n - 1, 0, n)
        ELSE AtOnce(LAMBDA A, thread, s, z :
                        IF threads.m[thread] > 0 THEN [A EXCEPT ![Right(thread)] = threads.last[thread]] ELSE A,
                    parts, team, 0, n)

\* 8u: what the threads to its right have counted is left free by each thread.
LeaveFree(M, b, own) ==
    Up(LAMBDA A, c : [A EXCEPT ![own + Index2(c, 0)] =
                                   M[b + 4 * Alphabet + Index2(c, 0)] - A[own + Index4(c, 1)]],
       M, 0, Alphabet - 1)
RadixPart(M, t, n, m, b, own, right, mine) ==
    LET first == Bit(right + mine = m /\ mine > 0)
    IN  radix_sort_lms_suffixes_8u(LeaveFree(M, b, own), t, own, n - right - mine + first, mine - first)
radix_sort_lms_suffixes_8u_omp(M, t, n, m, b, w, threads, team) ==
    IF TeamFor(TeamFor(team, m), n).n = 1
    THEN radix_sort_lms_suffixes_8u(M, t, b + 4 * Alphabet, n - m + 1, m - 1)
    ELSE AtOnce(LAMBDA A, thread, s, z :
                    RadixPart(A, t, n, m, b, ThreadBuckets(w, thread),
                              ToTheRight(threads.m, thread, team), threads.m[thread]),
                M, team, 0, n)

\* 32s: the threads' buckets lie before those at b, as far as the free end allows.
get_bucket_stride(free, size, num) ==
    IF free \div (num - 1) >= Rounded(size, Page) THEN Rounded(size, Page)
    ELSE IF free \div (num - 1) >= Rounded(size, Lane) THEN Rounded(size, Lane)
    ELSE size

\* The counts of num buckets, each stride before the other, are added to those at b:
\* by eights while there are many.
AddBuckets(M, b, size, stride, num) ==
    Up(LAMBDA A, s : [A EXCEPT ![b + s] = Up(LAMBDA sum, u : sum + M[b + s - u * stride], 0, 0, num - 1)],
       M, 0, size - 1)
RECURSIVE accumulate_counts_s32(_, _, _, _, _)
accumulate_counts_s32(M, b, size, stride, num) ==
    IF num >= 9
    THEN accumulate_counts_s32(AddBuckets(M, b - (num - 9) * stride, size, stride, 9), b, size, stride, num - 8)
    ELSE AddBuckets(M, b, size, stride, num)

CountInto(x, thread, Count(_)) ==
    LET g == Count(x.M) IN [M |-> g.M, m |-> [x.m EXCEPT ![thread] = g.m]]
\* The last thread moves the parts together while the others add the counts up.
CountedByTeam(M, n, b, size, stride, team, Count(_, _, _, _)) ==
    LET parts == AtOnce(LAMBDA x, thread, s, z :
                            CountInto(x, thread, LAMBDA A : Count(A, b - thread * stride, s, z)),
                        [M |-> M, m |-> Counts(team.n)], team, 0, n)
        moved == MovedTogether(parts.M, n, parts.m, team)
    IN  [moved EXCEPT !.M = AtOnce(LAMBDA A, thread, s, z :
                                       accumulate_counts_s32(A, b + s, z, stride, team.n),
                                   @, Part(team, team.n - 1), 0, size)]
count_and_gather_lms_suffixes_32s_4k_fs_omp(M, t, n, k, b, team) ==
    CountedByTeam(M, n, b, 4 * k, get_bucket_stride(b - n, 4 * k, team.n), team,
                  LAMBDA A, at, s, z : count_and_gather_lms_suffixes_32s_4k(A, t, n, k, at, s, z))
count_and_gather_lms_suffixes_32s_2k_fs_omp(M, t, n, k, b, team) ==
    CountedByTeam(M, n, b, 2 * k, get_bucket_stride(b - n, 2 * k, team.n), team,
                  LAMBDA A, at, s, z : count_and_gather_lms_suffixes_32s_2k(A, t, n, k, at, s, z))

\* Without the suffixes whose places are known: each thread gathers beyond the n
\* suffixes and moves its part to where it belongs itself.
count_and_gather_compacted_lms_suffixes_32s_2k_fs_omp(M, t, n, k, b, team) ==
    LET stride == get_bucket_stride(b - 2 * n, 2 * k, team.n)
        parts == AtOnce(LAMBDA x, thread, s, z :
                            CountInto(x, thread, LAMBDA A :
                                count_and_gather_compacted_lms_suffixes_32s_2k(A, t, n, n, k, b - thread * stride, s, z)),
                        [M |-> M, m |-> Counts(team.n)], team, 0, n)
        moved == AtOnce(LAMBDA A, thread, s, z :
                            CopyOf(A, n + s + z - parts.m[thread],
                                   n - parts.m[thread] - ToTheRight(parts.m, thread, team), parts.m[thread]),
                        parts.M, team, 0, n)
    IN  AtOnce(LAMBDA A, thread, s, z : accumulate_counts_s32(A, b + s, z, stride, team.n),
               moved, team, 0, 2 * k)

\* Without room for buckets: one thread counts and another one gathers.
count_and_gather_lms_suffixes_32s_4k_nofs_omp(M, t, n, k, b, team) ==
    IF TeamFor(team, n).n = 1 THEN count_and_gather_lms_suffixes_32s_4k(M, t, n, k, b, 0, n)
    ELSE gather_lms_suffixes_32s(count_lms_suffixes_32s_4k(M, t, n, k, b), t, n)
count_and_gather_lms_suffixes_32s_2k_nofs_omp(M, t, n, k, b, team) ==
    IF TeamFor(team, n).n = 1 THEN count_and_gather_lms_suffixes_32s_2k(M, t, n, k, b, 0, n)
    ELSE gather_lms_suffixes_32s(count_lms_suffixes_32s_2k(M, t, n, k, b), t, n)
count_and_gather_compacted_lms_suffixes_32s_2k_nofs_omp(M, t, n, k, b, team) ==
    IF TeamFor(team, n).n = 1 THEN count_and_gather_compacted_lms_suffixes_32s_2k(M, t, 0, n, k, b, 0, n)
    ELSE gather_compacted_lms_suffixes_32s(count_compacted_lms_suffixes_32s_2k(M, t, n, k, b), t, n)

\* As many threads as there is room for, each with enough suffixes for a bucket.
Least(u, v) == IF u < v THEN u ELSE v
Room(free, cells, team) == Least(free \div Rounded(cells, Lane), team.n)
WithRoom(room, n, k) == room > 1 /\ n >= TeamFrom /\ n \div k >= 2
TeamOf(room, each, n, k, team) ==
    LET fit == Least(room, (n \div each) \div k) IN Part(team, IF fit > 2 THEN fit ELSE 2)
count_and_gather_lms_suffixes_32s_4k_omp(M, t, n, k, b, team) ==
    LET room == Room(b - n, 4 * k, team)
    IN  IF WithRoom(room, n, k)
        THEN count_and_gather_lms_suffixes_32s_4k_fs_omp(M, t, n, k, b, TeamOf(room, 16, n, k, team))
        ELSE count_and_gather_lms_suffixes_32s_4k_nofs_omp(M, t, n, k, b, team)
count_and_gather_lms_suffixes_32s_2k_omp(M, t, n, k, b, team) ==
    LET room == Room(b - n, 2 * k, team)
    IN  IF WithRoom(room, n, k)
        THEN count_and_gather_lms_suffixes_32s_2k_fs_omp(M, t, n, k, b, TeamOf(room, 8, n, k, team))
        ELSE count_and_gather_lms_suffixes_32s_2k_nofs_omp(M, t, n, k, b, team)
count_and_gather_compacted_lms_suffixes_32s_2k_omp(M, t, n, k, b, team) ==
    LET room == Room(b - 2 * n, 2 * k, team)
    IN  IF WithRoom(room, n, k)
        THEN count_and_gather_compacted_lms_suffixes_32s_2k_fs_omp(M, t, n, k, b, TeamOf(room, 8, n, k, team))
        ELSE count_and_gather_compacted_lms_suffixes_32s_2k_nofs_omp(M, t, n, k, b, team)

-----------------------------------------------------------------------------
\* Radix sorting of the 32s by blocks.
radix_sort_lms_suffixes_32s_block_gather(x, t, start, size) ==
    Up(LAMBDA y, i : [y EXCEPT !.C[i] = [index |-> y.M[i], symbol |-> y.M[t + y.M[i]]]],
       x, start, start + size - 1)
Taking(x, start, size, At(_)) ==
    Down(LAMBDA y, i : [y EXCEPT !.C[i].symbol = y.M[At(y.C[i].symbol)] - 1,
                                 !.M[At(y.C[i].symbol)] = @ - 1], x, start + size - 1, start)
radix_sort_lms_suffixes_32s_6k_block_sort(x, b, start, size) ==
    Taking(x, start, size, LAMBDA c : b + c)
radix_sort_lms_suffixes_32s_2k_block_sort(x, b, start, size) ==
    Taking(x, start, size, LAMBDA c : b + Index2(c, 0))
radix_sort_lms_suffixes_32s_6k_block_omp(x, t, b, start, size, team) ==
    TeamBlock(x, team, start, size,
              LAMBDA y : [y EXCEPT !.M = radix_sort_lms_suffixes_32s_6k(@, t, b, start, size)],
              LAMBDA y, s, z : radix_sort_lms_suffixes_32s_block_gather(y, t, s, z),
              LAMBDA y : radix_sort_lms_suffixes_32s_6k_block_sort(y, b, start, size),
              place_cached_suffixes)
radix_sort_lms_suffixes_32s_2k_block_omp(x, t, b, start, size, team) ==
    TeamBlock(x, team, start, size,
              LAMBDA y : [y EXCEPT !.M = radix_sort_lms_suffixes_32s_2k(@, t, b, start, size)],
              LAMBDA y, s, z : radix_sort_lms_suffixes_32s_block_gather(y, t, s, z),
              LAMBDA y : radix_sort_lms_suffixes_32s_2k_block_sort(y, b, start, size),
              place_cached_suffixes)
radix_sort_lms_suffixes_32s_6k_omp(M, t, n, m, b, team) ==
    IF TeamFor(team, m).n = 1 THEN radix_sort_lms_suffixes_32s_6k(M, t, b, n - m + 1, m - 1)
    ELSE InBlocks(Sorting(M), team, FALSE, n - m + 1, m - 1,
                  LAMBDA x, s, z : radix_sort_lms_suffixes_32s_6k_block_omp(x, t, b, s, z, team)).M
radix_sort_lms_suffixes_32s_2k_omp(M, t, n, m, b, team) ==
    IF TeamFor(team, m).n = 1 THEN radix_sort_lms_suffixes_32s_2k(M, t, b, n - m + 1, m - 1)
    ELSE InBlocks(Sorting(M), team, FALSE, n - m + 1, m - 1,
                  LAMBDA x, s, z : radix_sort_lms_suffixes_32s_2k_block_omp(x, t, b, s, z, team)).M

radix_sort_set_markers_32s_6k_omp(M, k, b, team) ==
    AtOnce(LAMBDA A, thread, s, z : radix_sort_set_markers_32s_6k(A, b, s, z), M, TeamFor(team, k), 0, k - 1)
radix_sort_set_markers_32s_4k_omp(M, k, b, team) ==
    AtOnce(LAMBDA A, thread, s, z : radix_sort_set_markers_32s_4k(A, b, s, z), M, TeamFor(team, k), 0, k - 1)
=============================================================================
