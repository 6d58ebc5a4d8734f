-------------------------------- MODULE SaisFinal --------------------------------
(***************************************************************************)
(* Suffix sorting by induction: the final order.  From the sorted LMS      *)
(* suffixes a sweep to the right places the larger suffixes and a sweep to *)
(* the left all the smaller ones.  The same sweeps give the Burrows-       *)
(* Wheeler transform, by leaving in each place the character before the    *)
(* suffix, with the place of the whole text (index) or those of samples    *)
(* of the suffixes (I).                                                    *)
(***************************************************************************)
EXTENDS SaisNames

\* x.I is what is sampled of the suffixes, x.index the place of the whole text.
Finishing(M, I) == [M |-> M, I |-> I, C |-> <<>>, index |-> -1]

\* What p leaves in its place, and as what the suffix q is entered, which the
\* sweep goes on with unless it is negative.
BeforeIt(M, t, q) == M[t + q - Bit(q > 0)]
SortStays(M, t, p, right) == IF right THEN Toggled(p) ELSE Unmarked(p)
SortNext(M, t, q, right) ==
    IF (IF right THEN BeforeIt(M, t, q) < M[t + q] ELSE BeforeIt(M, t, q) > M[t + q]) THEN Negated(q) ELSE q
BwtStays(M, t, p, right) ==
    IF p <= 0 THEN Unmarked(p) ELSE IF right THEN Negated(M[t + p - 1]) ELSE M[t + p - 1]
BwtNext(M, t, q, right) ==
    IF right THEN SortNext(M, t, q, TRUE)
    ELSE IF BeforeIt(M, t, q) <= M[t + q] THEN q ELSE Negated(BeforeIt(M, t, q))

\* Every suffix whose number is a multiple of r is sampled, none if r is 0.
Sampled(I, q, r, place) == IF r > 0 /\ q % r = 0 THEN [I EXCEPT ![q \div r] = place + 1] ELSE I

FinalStep(x, t, i, right, b, r, Stays(_, _, _, _), Next(_, _, _, _)) ==
    LET p == x.M[i]
        q == p - 1
        A == [x.M EXCEPT ![i] = Stays(x.M, t, p, right)]
        cell == b + x.M[t + q]
    IN  IF p > 0
        THEN [x EXCEPT !.M = Put(right, A, cell, Next(x.M, t, q, right)),
                       !.I = Sampled(@, q, r, Cell(x.M, cell, right))]
        ELSE [x EXCEPT !.M = A]

\* The text as a whole is passed: its place is kept.
Noted(x, i) == IF x.M[i] = 0 THEN [x EXCEPT !.index = i] ELSE x

final_bwt_scan_left_to_right_8u(x, t, b, start, size) ==
    Sweep(LAMBDA y, i : FinalStep(y, t, i, TRUE, b, 0, BwtStays, BwtNext), x, TRUE, start, size)
final_bwt_aux_scan_left_to_right_8u(x, t, r, b, start, size) ==
    Sweep(LAMBDA y, i : FinalStep(y, t, i, TRUE, b, r, BwtStays, BwtNext), x, TRUE, start, size)
final_sorting_scan_left_to_right_8u(x, t, b, start, size) ==
    Sweep(LAMBDA y, i : FinalStep(y, t, i, TRUE, b, 0, SortStays, SortNext), x, TRUE, start, size)
final_sorting_scan_left_to_right_32s(x, t, b, start, size) ==
    Sweep(LAMBDA y, i : FinalStep(y, t, i, TRUE, b, 0, SortStays, SortNext), x, TRUE, start, size)
final_bwt_scan_right_to_left_8u(x, t, b, start, size) ==
    Sweep(LAMBDA y, i : FinalStep(Noted(y, i), t, i, FALSE, b, 0, BwtStays, BwtNext), x, FALSE, start, size)
final_bwt_aux_scan_right_to_left_8u(x, t, r, b, start, size) ==
    Sweep(LAMBDA y, i : FinalStep(y, t, i, FALSE, b, r, BwtStays, BwtNext), x, FALSE, start, size)
final_sorting_scan_right_to_left_8u(x, t, b, start, size) ==
    Sweep(LAMBDA y, i : FinalStep(y, t, i, FALSE, b, 0, SortStays, SortNext), x, FALSE, start, size)
final_sorting_scan_right_to_left_32s(x, t, b, start, size) ==
    Sweep(LAMBDA y, i : FinalStep(y, t, i, FALSE, b, 0, SortStays, SortNext), x, FALSE, start, size)

-----------------------------------------------------------------------------
\* 8u by a team: each thread keeps what it will place and counts it by bucket.
FinalPrepareStep(y, t, i, right, Stays(_, _, _, _), Next(_, _, _, _)) ==
    LET p == y.M[i]
        c == y.M[t + p - 1]
        A == [y.M EXCEPT ![i] = Stays(y.M, t, p, right)]
    IN  IF p > 0
        THEN [M |-> A, used |-> [y.used EXCEPT ![c] = @ + 1],
              cache |-> Append(y.cache, [index |-> Next(y.M, t, p - 1, right), symbol |-> c, suffix |-> p - 1])]
        ELSE [y EXCEPT !.M = A]
FinalPrepared(x, t, thread, right, start, size, Stays(_, _, _, _), Next(_, _, _, _)) ==
    LET y == Sweep(LAMBDA z, i : FinalPrepareStep(z, t, i, right, Stays, Next),
                   [M |-> x.M, cache |-> <<>>, used |-> Counts(Alphabet)], right, start, size)
    IN  [x EXCEPT !.M = y.M, !.C[thread] = [cache |-> y.cache, used |-> y.used]]
final_bwt_scan_left_to_right_8u_block_prepare(x, t, thread, start, size) ==
    FinalPrepared(x, t, thread, TRUE, start, size, BwtStays, BwtNext)
final_sorting_scan_left_to_right_8u_block_prepare(x, t, thread, start, size) ==
    FinalPrepared(x, t, thread, TRUE, start, size, SortStays, SortNext)
final_bwt_scan_right_to_left_8u_block_prepare(x, t, thread, start, size) ==
    FinalPrepared(x, t, thread, FALSE, start, size, BwtStays, BwtNext)
final_bwt_aux_scan_right_to_left_8u_block_prepare(x, t, thread, start, size) ==
    FinalPrepared(x, t, thread, FALSE, start, size, BwtStays, BwtNext)
final_sorting_scan_right_to_left_8u_block_prepare(x, t, thread, start, size) ==
    FinalPrepared(x, t, thread, FALSE, start, size, SortStays, SortNext)

\* Where each thread begins in a bucket: after those before it in the sweep.
FinalAddedUp(x, thread, right, b) ==
    LET used == x.C[thread].used
    IN  [x EXCEPT !.M = Up(LAMBDA A, c : Counted(A, b + c, IF right THEN used[c] ELSE -used[c]), @, 0, Alphabet - 1),
                  !.C[thread].used = [c \in DOMAIN used |-> x.M[b + c]]]

FinalPlaceStep(y, e, right, r) ==
    LET at == IF right THEN y.used[e.symbol] ELSE y.used[e.symbol] - 1
    IN  [M |-> [y.M EXCEPT ![at] = e.index], I |-> Sampled(y.I, e.suffix, r, at),
         used |-> [y.used EXCEPT ![e.symbol] = IF right THEN @ + 1 ELSE @ - 1]]
FinalPlaced(x, thread, right, r) ==
    LET mine == x.C[thread]
        y == Up(LAMBDA z, j : FinalPlaceStep(z, mine.cache[j], right, r),
                [M |-> x.M, I |-> x.I, used |-> mine.used], 1, Len(mine.cache))
    IN  [x EXCEPT !.M = y.M, !.I = y.I]
final_order_scan_left_to_right_8u_block_place(x, thread) == FinalPlaced(x, thread, TRUE, 0)
final_bwt_aux_scan_left_to_right_8u_block_place(x, thread, r) == FinalPlaced(x, thread, TRUE, r)
final_order_scan_right_to_left_8u_block_place(x, thread) == FinalPlaced(x, thread, FALSE, 0)
final_bwt_aux_scan_right_to_left_8u_block_place(x, thread, r) == FinalPlaced(x, thread, FALSE, r)

final_bwt_scan_left_to_right_8u_block_omp(x, t, b, start, size, team) ==
    CountedBlock(x, team, TRUE, start, size,
        LAMBDA y : final_bwt_scan_left_to_right_8u(y, t, b, start, size),
        LAMBDA y, thread, s, z : final_bwt_scan_left_to_right_8u_block_prepare(y, t, thread, s, z),
        LAMBDA y, thread : FinalAddedUp(y, thread, TRUE, b),
        final_order_scan_left_to_right_8u_block_place)
final_bwt_aux_scan_left_to_right_8u_block_omp(x, t, r, b, start, size, team) ==
    CountedBlock(x, team, TRUE, start, size,
        LAMBDA y : final_bwt_aux_scan_left_to_right_8u(y, t, r, b, start, size),
        LAMBDA y, thread, s, z : final_bwt_scan_left_to_right_8u_block_prepare(y, t, thread, s, z),
        LAMBDA y, thread : FinalAddedUp(y, thread, TRUE, b),
        LAMBDA y, thread : final_bwt_aux_scan_left_to_right_8u_block_place(y, thread, r))
final_sorting_scan_left_to_right_8u_block_omp(x, t, b, start, size, team) ==
    CountedBlock(x, team, TRUE, start, size,
        LAMBDA y : final_sorting_scan_left_to_right_8u(y, t, b, start, size),
        LAMBDA y, thread, s, z : final_sorting_scan_left_to_right_8u_block_prepare(y, t, thread, s, z),
        LAMBDA y, thread : FinalAddedUp(y, thread, TRUE, b),
        final_order_scan_left_to_right_8u_block_place)
final_bwt_scan_right_to_left_8u_block_omp(x, t, b, start, size, team) ==
    CountedBlock(x, team, FALSE, start, size,
        LAMBDA y : final_bwt_scan_right_to_left_8u(y, t, b, start, size),
        LAMBDA y, thread, s, z : final_bwt_scan_right_to_left_8u_block_prepare(y, t, thread, s, z),
        LAMBDA y, thread : FinalAddedUp(y, thread, FALSE, b),
        final_order_scan_right_to_left_8u_block_place)
final_bwt_aux_scan_right_to_left_8u_block_omp(x, t, r, b, start, size, team) ==
    CountedBlock(x, team, FALSE, start, size,
        LAMBDA y : final_bwt_aux_scan_right_to_left_8u(y, t, r, b, start, size),
        LAMBDA y, thread, s, z : final_bwt_aux_scan_right_to_left_8u_block_prepare(y, t, thread, s, z),
        LAMBDA y, thread : FinalAddedUp(y, thread, FALSE, b),
        LAMBDA y, thread : final_bwt_aux_scan_right_to_left_8u_block_place(y, thread, r))
final_sorting_scan_right_to_left_8u_block_omp(x, t, b, start, size, team) ==
    CountedBlock(x, team, FALSE, start, size,
        LAMBDA y : final_sorting_scan_right_to_left_8u(y, t, b, start, size),
        LAMBDA y, thread, s, z : final_sorting_scan_right_to_left_8u_block_prepare(y, t, thread, s, z),
        LAMBDA y, thread : FinalAddedUp(y, thread, FALSE, b),
        final_order_scan_right_to_left_8u_block_place)

\* 32s by a team: a place of the block may be filled by the block itself.
Gather32s(x, t, right, start, size) ==
    GatherBlock(x, start, size,
                LAMBDA M, p : IF p > 0 THEN [index |-> SortNext(M, t, p - 1, right), symbol |-> M[t + p - 1]]
                              ELSE NoEntry,
                LAMBDA p : SortStays(<<>>, t, p, right))
FinalSortStep(x, t, i, right, b) ==
    LET e == x.C[i]
        cell == b + e.symbol
        to == Cell(x.M, cell, right)
        C == [x.C EXCEPT ![i].symbol = to]
        inside == [C EXCEPT ![i].index = SortStays(<<>>, t, e.index, right)]
    IN  IF e.symbol < 0 THEN x
        ELSE [x EXCEPT
              !.M = Taken(@, cell, right),
              !.C = IF to \notin DOMAIN C THEN C
                    ELSE IF e.index > 0
                    THEN [inside EXCEPT ![to] = [index |-> SortNext(x.M, t, e.index - 1, right),
                                                 symbol |-> x.M[t + e.index - 1]]]
                    ELSE inside]
final_sorting_scan_left_to_right_32s_block_gather(x, t, start, size) == Gather32s(x, t, TRUE, start, size)
final_sorting_scan_right_to_left_32s_block_gather(x, t, start, size) == Gather32s(x, t, FALSE, start, size)
final_sorting_scan_left_to_right_32s_block_sort(x, t, b, start, size) ==
    Sweep(LAMBDA y, i : FinalSortStep(y, t, i, TRUE, b), x, TRUE, start, size)
final_sorting_scan_right_to_left_32s_block_sort(x, t, b, start, size) ==
    Sweep(LAMBDA y, i : FinalSortStep(y, t, i, FALSE, b), x, FALSE, start, size)
final_sorting_scan_left_to_right_32s_block_omp(x, t, b, start, size, team) ==
    TeamBlock(x, team, start, size,
              LAMBDA y : final_sorting_scan_left_to_right_32s(y, t, b, start, size),
              LAMBDA y, s, z : final_sorting_scan_left_to_right_32s_block_gather(y, t, s, z),
              LAMBDA y : final_sorting_scan_left_to_right_32s_block_sort(y, t, b, start, size),
              compact_and_place_cached_suffixes)
final_sorting_scan_right_to_left_32s_block_omp(x, t, b, start, size, team) ==
    TeamBlock(x, team, start, size,
              LAMBDA y : final_sorting_scan_right_to_left_32s(y, t, b, start, size),
              LAMBDA y, s, z : final_sorting_scan_right_to_left_32s_block_gather(y, t, s, z),
              LAMBDA y : final_sorting_scan_right_to_left_32s_block_sort(y, t, b, start, size),
              compact_and_place_cached_suffixes)

-----------------------------------------------------------------------------
\* The sweeps over all, to the right from the last suffix of the text on.
FromLast(x, t, n, b, r) ==
    LET cell == b + x.M[t + n - 1]
    IN  [x EXCEPT !.M = PutUp(@, cell, SortNext(@, t, n - 1, TRUE)), !.I = Sampled(@, n - 1, r, x.M[cell])]
final_bwt_scan_left_to_right_8u_omp(x, t, n, b, team) ==
    SweepRuns(FromLast(x, t, n, b, 0), team, TRUE, 0, n, TeamLoad(team), Passed,
              LAMBDA y, s, z, u : final_bwt_scan_left_to_right_8u_block_omp(y, t, b, s, z, u))
final_bwt_aux_scan_left_to_right_8u_omp(x, t, n, r, b, team) ==
    SweepRuns(FromLast(x, t, n, b, r), team, TRUE, 0, n, TeamLoad(team), Passed,
              LAMBDA y, s, z, u : final_bwt_aux_scan_left_to_right_8u_block_omp(y, t, r, b, s, z, u))
final_sorting_scan_left_to_right_8u_omp(x, t, n, b, team) ==
    SweepRuns(FromLast(x, t, n, b, 0), team, TRUE, 0, n, TeamLoad(team), Passed,
              LAMBDA y, s, z, u : final_sorting_scan_left_to_right_8u_block_omp(y, t, b, s, z, u))
final_sorting_scan_left_to_right_32s_omp(x, t, n, b, team) ==
    SweepBlocks(FromLast(x, t, n, b, 0), team, TRUE, 0, n,
                LAMBDA y, s, z, u : final_sorting_scan_left_to_right_32s_block_omp(y, t, b, s, z, u))
final_bwt_scan_right_to_left_8u_omp(x, t, n, b, team) ==
    SweepRuns(x, team, FALSE, 0, n, TeamLoad(team), Noted,
              LAMBDA y, s, z, u : final_bwt_scan_right_to_left_8u_block_omp(y, t, b, s, z, u))
final_bwt_aux_scan_right_to_left_8u_omp(x, t, n, r, b, team) ==
    SweepRuns(x, team, FALSE, 0, n, team.n * ((CacheSize - Lane * team.n) \div 2), Passed,
              LAMBDA y, s, z, u : final_bwt_aux_scan_right_to_left_8u_block_omp(y, t, r, b, s, z, u))
final_sorting_scan_right_to_left_8u_omp(x, t, n, b, team) ==
    SweepRuns(x, team, FALSE, 0, n, TeamLoad(team), Passed,
              LAMBDA y, s, z, u : final_sorting_scan_right_to_left_8u_block_omp(y, t, b, s, z, u))
final_sorting_scan_right_to_left_32s_omp(x, t, n, b, team) ==
    SweepBlocks(x, team, FALSE, 0, n,
                LAMBDA y, s, z, u : final_sorting_scan_right_to_left_32s_block_omp(y, t, b, s, z, u))

\* Between the sweeps of a team the LMS suffixes are taken out of their buckets.
clear_lms_suffixes_omp(M, k, starts, ends) ==
    Up(LAMBDA A, c : Zeroed(A, A[starts + c], A[ends + c] - A[starts + c]), M, 0, k - 1)
Cleared(x, n, b, team) ==
    IF TeamFor(team, n).n = 1 THEN x
    ELSE [x EXCEPT !.M = clear_lms_suffixes_omp(@, Alphabet, b + 6 * Alphabet, b + 7 * Alphabet)]
\* induce_final_order_8u_omp, for what is asked for.
final_order_8u(M, t, n, I, b, team) ==
    LET x == final_sorting_scan_left_to_right_8u_omp(Finishing(M, I), t, n, b + 6 * Alphabet, team)
    IN  final_sorting_scan_right_to_left_8u_omp(Cleared(x, n, b, team), t, n, b + 7 * Alphabet, team)
final_bwt_8u(M, t, n, I, b, team) ==
    LET x == final_bwt_scan_left_to_right_8u_omp(Finishing(M, I), t, n, b + 6 * Alphabet, team)
    IN  final_bwt_scan_right_to_left_8u_omp(Cleared(x, n, b, team), t, n, b + 7 * Alphabet, team)
final_bwt_aux_8u(M, t, n, r, I, b, team) ==
    LET x == final_bwt_aux_scan_left_to_right_8u_omp(Finishing(M, I), t, n, r, b + 6 * Alphabet, team)
    IN  final_bwt_aux_scan_right_to_left_8u_omp(Cleared(x, n, b, team), t, n, r, b + 7 * Alphabet, team)
Finished32s(M, t, n, first, last, team) ==
    final_sorting_scan_right_to_left_32s_omp(
        final_sorting_scan_left_to_right_32s_omp(Finishing(M, <<>>), t, n, first, team), t, n, last, team).M
induce_final_order_32s_6k(M, t, n, k, b, team) == Finished32s(M, t, n, b + 4 * k, b + 5 * k, team)
induce_final_order_32s_4k(M, t, n, k, b, team) == Finished32s(M, t, n, b + 2 * k, b + 3 * k, team)
induce_final_order_32s_2k(M, t, n, k, b, team) == Finished32s(M, t, n, b + k, b, team)
induce_final_order_32s_1k(M, t, n, k, b, team) ==
    LET starts == initialize_buckets_start_32s_1k(count_suffixes_32s(M, t, n, k, b), k, b)
        x == final_sorting_scan_left_to_right_32s_omp(Finishing(starts, <<>>), t, n, b, team)
        ends == initialize_buckets_end_32s_1k(count_suffixes_32s(x.M, t, n, k, b), k, b)
    IN  final_sorting_scan_right_to_left_32s_omp([x EXCEPT !.M = ends], t, n, b, team).M
=============================================================================
