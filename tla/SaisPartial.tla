------------------------------- MODULE SaisPartial -------------------------------
(***************************************************************************)
(* Suffix sorting by induction: sorting the LMS substrings.  From the LMS  *)
(* suffixes in their buckets a sweep to the right places the larger        *)
(* (L-type) ones before them and a sweep to the left the smaller (S-type)  *)
(* ones, with marks where a new name begins.  A team of threads does the   *)
(* same a block at a time: each reads its part of the block, one sorts (or *)
(* adds the counts up), each writes what its part induces.                 *)
(***************************************************************************)
EXTENDS SaisTeam

\* How the suffix before p - 1 compares to it: whether the sweep goes on there
\* (8u, 6k), whether it ends there (4k, 1k).
GoesOn(M, t, p, right) ==
    IF right THEN M[t + p - 2] >= M[t + p - 1] ELSE M[t + p - 2] > M[t + p - 1]
EndsAt(M, t, p, right) ==
    IF right THEN M[t + p - 2] < M[t + p - 1] ELSE M[t + p - 2] > M[t + p - 1]

-----------------------------------------------------------------------------
\* Marks a name that is new for its bucket, whose last name stands in a cell.
Marks(M, name, d, w) == IF M[name] # d THEN Negated(w) ELSE w

\* 8u and 6k: the suffix before SA[i], into the bucket of its character and of
\* whether the sweep goes on with it.
InduceStep(x, t, i, right, Bucket(_), Name(_)) ==
    LET q == Unmarked(x.M[i])
        d == x.d + Bit(x.M[i] < 0)
        cell == 2 * x.M[t + q - 1] + Bit(GoesOn(x.M, t, q, right))
        A == Put(right, x.M, Bucket(cell), Marks(x.M, Name(cell), d, q - 1))
    IN  [x EXCEPT !.M = [A EXCEPT ![Name(cell)] = d], !.d = d]
Induced(x, t, right, start, size, Bucket(_), Name(_)) ==
    Sweep(LAMBDA y, i : InduceStep(y, t, i, right, Bucket, Name), x, right, start, size)

Spread(v) == Index4(v \div 2, v % 2)

partial_sorting_scan_left_to_right_8u(x, t, b, start, size) ==
    Induced(x, t, TRUE, start, size, LAMBDA v : b + 4 * Alphabet + v, LAMBDA v : b + 2 * Alphabet + v)
partial_sorting_scan_right_to_left_8u(x, t, b, start, size) ==
    Induced(x, t, FALSE, start, size, LAMBDA v : b + v, LAMBDA v : b + 2 * Alphabet + v)
partial_sorting_scan_left_to_right_32s_6k(x, t, b, start, size) ==
    Induced(x, t, TRUE, start, size, LAMBDA v : b + Spread(v),
            LAMBDA v : b + 2 + Spread(v))
partial_sorting_scan_right_to_left_32s_6k(x, t, b, start, size) ==
    Induced(x, t, FALSE, start, size, LAMBDA v : b + Spread(v),
            LAMBDA v : b + 2 + Spread(v))

\* 4k: entries that are not to be gone on with are negative, and lose that on
\* the way to the right; the name's mark is the bit below.  The buckets begin at
\* b, the names at names.
InduceStep4k(x, t, i, right, b, names) ==
    LET p == x.M[i]
        q == Ungrouped(p)
        d == x.d + Bit(InGroup(p))
        c == x.M[t + q - 1]
        ends == EndsAt(x.M, t, q, right)
        name == names + Index2(c, Bit(ends))
        named == IF x.M[name] # d THEN Grouped(q - 1) ELSE q - 1
        A == Put(right, [x.M EXCEPT ![i] = 0], b + c, IF ends THEN Negated(named) ELSE named)
    IN  IF p > 0 THEN [x EXCEPT !.M = [A EXCEPT ![name] = d], !.d = d]
        ELSE IF right THEN [x EXCEPT !.M[i] = Unmarked(p)] ELSE x
partial_sorting_scan_left_to_right_32s_4k(x, t, k, b, start, size) ==
    Sweep(LAMBDA y, i : InduceStep4k(y, t, i, TRUE, b + 2 * k, b), x, TRUE, start, size)
partial_sorting_scan_right_to_left_32s_4k(x, t, k, b, start, size) ==
    Sweep(LAMBDA y, i : InduceStep4k(y, t, i, FALSE, b + 3 * k, b), x, FALSE, start, size)

\* 1k and 2k: without names.
Next1k(M, t, p, right) == IF EndsAt(M, t, p, right) THEN Negated(p - 1) ELSE p - 1
InduceStep1k(x, t, i, right, b) ==
    LET p == x.M[i]
    IN  IF p > 0
        THEN [x EXCEPT !.M = Put(right, [x.M EXCEPT ![i] = 0], b + x.M[t + p - 1],
                                 Next1k(x.M, t, p, right))]
        ELSE IF right THEN [x EXCEPT !.M[i] = Unmarked(p)] ELSE x
partial_sorting_scan_left_to_right_32s_1k(x, t, b, start, size) ==
    Sweep(LAMBDA y, i : InduceStep1k(y, t, i, TRUE, b), x, TRUE, start, size)
partial_sorting_scan_right_to_left_32s_1k(x, t, b, start, size) ==
    Sweep(LAMBDA y, i : InduceStep1k(y, t, i, FALSE, b), x, FALSE, start, size)

-----------------------------------------------------------------------------
\* Reading: where the suffix before this one belongs.
Symbol8u(M, t, p, right) == Index2(M[t + p - 1], Bit(GoesOn(M, t, p, right)))
Symbol6k(M, t, p, right) == Index4(M[t + p - 1], Bit(GoesOn(M, t, p, right)))
Symbol4k(M, t, p, right) == Index2(M[t + p - 1], Bit(EndsAt(M, t, p, right)))

GatherBlock(x, start, size, Entry(_, _), Left(_)) ==
    Up(LAMBDA y, i : [y EXCEPT !.C[i] = Entry(y.M, y.M[i]), !.M[i] = Left(@)],
       x, start, start + size - 1)
Left(p, right) == IF p > 0 THEN 0 ELSE IF right THEN Unmarked(p) ELSE p

Gather6k(x, t, right, start, size) ==
    GatherBlock(x, start, size,
                LAMBDA M, p : [index |-> p, symbol |-> IF Unmarked(p) # 0
                                                       THEN Symbol6k(M, t, Unmarked(p), right) ELSE 0],
                LAMBDA p : p)
Gather4k(x, t, right, start, size) ==
    GatherBlock(x, start, size,
                LAMBDA M, p : IF p > 0 THEN [index |-> p, symbol |-> Symbol4k(M, t, Ungrouped(p), right)]
                              ELSE NoEntry,
                LAMBDA p : Left(p, right))
Gather1k(x, t, right, start, size) ==
    GatherBlock(x, start, size,
                LAMBDA M, p : IF p > 0 THEN [index |-> Next1k(M, t, p, right), symbol |-> M[t + p - 1]]
                              ELSE NoEntry,
                LAMBDA p : Left(p, right))

partial_sorting_scan_left_to_right_32s_6k_block_gather(x, t, start, size) == Gather6k(x, t, TRUE, start, size)
partial_sorting_scan_right_to_left_32s_6k_block_gather(x, t, start, size) == Gather6k(x, t, FALSE, start, size)
partial_sorting_scan_left_to_right_32s_4k_block_gather(x, t, start, size) == Gather4k(x, t, TRUE, start, size)
partial_sorting_scan_right_to_left_32s_4k_block_gather(x, t, start, size) == Gather4k(x, t, FALSE, start, size)
partial_sorting_scan_left_to_right_32s_1k_block_gather(x, t, start, size) == Gather1k(x, t, TRUE, start, size)
partial_sorting_scan_right_to_left_32s_1k_block_gather(x, t, start, size) == Gather1k(x, t, FALSE, start, size)

\* Sorting: each entry takes the next cell of its bucket; an entry that falls
\* into the block itself is one of the block, further on.
SortStep6k(x, t, i, right, b) ==
    LET e == x.C[i]
        d == x.d + Bit(e.index < 0)
        cell == b + e.symbol
        to == Cell(x.M, cell, right)
        index == Marks(x.M, cell + 2, d, e.index - 1)
        C == [x.C EXCEPT ![i] = [index |-> index, symbol |-> to]]
    IN  [M |-> [Taken(x.M, cell, right) EXCEPT ![cell + 2] = d], d |-> d,
         C |-> IF to \in DOMAIN C
               THEN [C EXCEPT ![to] = [index |-> index, symbol |-> Symbol6k(x.M, t, Unmarked(index), right)]]
               ELSE C]

\* An entry to be gone on with leaves nothing where it falls.
Followed(C, i, to, index, right, next) ==
    IF index > 0 THEN [C EXCEPT ![i].index = 0, ![to] = next]
    ELSE [C EXCEPT ![i].index = IF right THEN Unmarked(@) ELSE @]

SortStep4k(x, t, i, right, b, names) ==
    LET e == x.C[i]
        d == x.d + Bit(InGroup(e.index))
        cell == b + (e.symbol \div 2)
        to == Cell(x.M, cell, right)
        named == IF x.M[names + e.symbol] # d THEN Grouped(e.index - 1) ELSE e.index - 1
        index == IF e.symbol % 2 = 1 THEN Negated(named) ELSE named
        C == [x.C EXCEPT ![i] = [index |-> index, symbol |-> to]]
    IN  IF e.symbol < 0 THEN x
        ELSE [M |-> [Taken(x.M, cell, right) EXCEPT ![names + e.symbol] = d], d |-> d,
              C |-> IF to \in DOMAIN C
                    THEN Followed(C, i, to, index, right,
                                  [index |-> index, symbol |-> IF index > 0 THEN Symbol4k(x.M, t, Ungrouped(index), right) ELSE 0])
                    ELSE C]
SortStep1k(x, t, i, right, b) ==
    LET e == x.C[i]
        cell == b + e.symbol
        to == Cell(x.M, cell, right)
        C == [x.C EXCEPT ![i].symbol = to]
    IN  IF e.symbol < 0 THEN x
        ELSE [x EXCEPT
              !.M = Taken(@, cell, right),
              !.C = IF to \in DOMAIN C
                    THEN Followed(C, i, to, e.index, right,
                                  IF e.index > 0
                                  THEN [index |-> Next1k(x.M, t, e.index, right), symbol |-> x.M[t + e.index - 1]]
                                  ELSE NoEntry)
                    ELSE C]

partial_sorting_scan_left_to_right_32s_6k_block_sort(x, t, b, start, size) ==
    Sweep(LAMBDA y, i : SortStep6k(y, t, i, TRUE, b), x, TRUE, start, size)
partial_sorting_scan_right_to_left_32s_6k_block_sort(x, t, b, start, size) ==
    Sweep(LAMBDA y, i : SortStep6k(y, t, i, FALSE, b), x, FALSE, start, size)
partial_sorting_scan_left_to_right_32s_4k_block_sort(x, t, k, b, start, size) ==
    Sweep(LAMBDA y, i : SortStep4k(y, t, i, TRUE, b + 2 * k, b), x, TRUE, start, size)
partial_sorting_scan_right_to_left_32s_4k_block_sort(x, t, k, b, start, size) ==
    Sweep(LAMBDA y, i : SortStep4k(y, t, i, FALSE, b + 3 * k, b), x, FALSE, start, size)
partial_sorting_scan_left_to_right_32s_1k_block_sort(x, t, b, start, size) ==
    Sweep(LAMBDA y, i : SortStep1k(y, t, i, TRUE, b), x, TRUE, start, size)
partial_sorting_scan_right_to_left_32s_1k_block_sort(x, t, b, start, size) ==
    Sweep(LAMBDA y, i : SortStep1k(y, t, i, FALSE, b), x, FALSE, start, size)

partial_sorting_scan_left_to_right_32s_6k_block_omp(x, t, b, start, size, team) ==
    TeamBlock(x, team, start, size,
              LAMBDA y : partial_sorting_scan_left_to_right_32s_6k(y, t, b, start, size),
              LAMBDA y, s, z : partial_sorting_scan_left_to_right_32s_6k_block_gather(y, t, s, z),
              LAMBDA y : partial_sorting_scan_left_to_right_32s_6k_block_sort(y, t, b, start, size),
              place_cached_suffixes)
partial_sorting_scan_right_to_left_32s_6k_block_omp(x, t, b, start, size, team) ==
    TeamBlock(x, team, start, size,
              LAMBDA y : partial_sorting_scan_right_to_left_32s_6k(y, t, b, start, size),
              LAMBDA y, s, z : partial_sorting_scan_right_to_left_32s_6k_block_gather(y, t, s, z),
              LAMBDA y : partial_sorting_scan_right_to_left_32s_6k_block_sort(y, t, b, start, size),
              place_cached_suffixes)
partial_sorting_scan_left_to_right_32s_4k_block_omp(x, t, k, b, start, size, team) ==
    TeamBlock(x, team, start, size,
              LAMBDA y : partial_sorting_scan_left_to_right_32s_4k(y, t, k, b, start, size),
              LAMBDA y, s, z : partial_sorting_scan_left_to_right_32s_4k_block_gather(y, t, s, z),
              LAMBDA y : partial_sorting_scan_left_to_right_32s_4k_block_sort(y, t, k, b, start, size),
              compact_and_place_cached_suffixes)
partial_sorting_scan_right_to_left_32s_4k_block_omp(x, t, k, b, start, size, team) ==
    TeamBlock(x, team, start, size,
              LAMBDA y : partial_sorting_scan_right_to_left_32s_4k(y, t, k, b, start, size),
              LAMBDA y, s, z : partial_sorting_scan_right_to_left_32s_4k_block_gather(y, t, s, z),
              LAMBDA y : partial_sorting_scan_right_to_left_32s_4k_block_sort(y, t, k, b, start, size),
              compact_and_place_cached_suffixes)
partial_sorting_scan_left_to_right_32s_1k_block_omp(x, t, b, start, size, team) ==
    TeamBlock(x, team, start, size,
              LAMBDA y : partial_sorting_scan_left_to_right_32s_1k(y, t, b, start, size),
              LAMBDA y, s, z : partial_sorting_scan_left_to_right_32s_1k_block_gather(y, t, s, z),
              LAMBDA y : partial_sorting_scan_left_to_right_32s_1k_block_sort(y, t, b, start, size),
              compact_and_place_cached_suffixes)
partial_sorting_scan_right_to_left_32s_1k_block_omp(x, t, b, start, size, team) ==
    TeamBlock(x, team, start, size,
              LAMBDA y : partial_sorting_scan_right_to_left_32s_1k(y, t, b, start, size),
              LAMBDA y, s, z : partial_sorting_scan_right_to_left_32s_1k_block_gather(y, t, s, z),
              LAMBDA y : partial_sorting_scan_right_to_left_32s_1k_block_sort(y, t, b, start, size),
              compact_and_place_cached_suffixes)

\* The last suffix of the text is induced by its end.
LastNamed(x, bucket, name, value) ==
    LET A == PutUp(x.M, bucket, value)
    IN  [x EXCEPT !.M = [A EXCEPT ![name] = x.d + 1], !.d = @ + 1]
partial_sorting_scan_left_to_right_32s_6k_omp(x, t, n, b, left, team) ==
    LET cell == b + Symbol6k(x.M, t, n, TRUE)
    IN  SweepBlocks(LastNamed(x, cell, cell + 2, Negated(n - 1)), team, TRUE, 0, left,
                    LAMBDA y, s, z, u : partial_sorting_scan_left_to_right_32s_6k_block_omp(y, t, b, s, z, u))
partial_sorting_scan_right_to_left_32s_6k_omp(x, t, n, b, first, left, team) ==
    SweepBlocks(x, team, FALSE, left + 1, n - first - (left + 1),
                LAMBDA y, s, z, u : partial_sorting_scan_right_to_left_32s_6k_block_omp(y, t, b, s, z, u))
partial_sorting_scan_left_to_right_32s_4k_omp(x, t, n, k, b, team) ==
    LET v == Symbol4k(x.M, t, n, TRUE)
        value == Grouped(n - 1)
    IN  SweepBlocks(LastNamed(x, b + 2 * k + x.M[t + n - 1], b + v,
                              IF v % 2 = 1 THEN Negated(value) ELSE value), team, TRUE, 0, n,
                    LAMBDA y, s, z, u : partial_sorting_scan_left_to_right_32s_4k_block_omp(y, t, k, b, s, z, u))
partial_sorting_scan_right_to_left_32s_4k_omp(x, t, n, k, b, team) ==
    SweepBlocks(x, team, FALSE, 0, n,
                LAMBDA y, s, z, u : partial_sorting_scan_right_to_left_32s_4k_block_omp(y, t, k, b, s, z, u))
partial_sorting_scan_left_to_right_32s_1k_omp(x, t, n, b, team) ==
    SweepBlocks([x EXCEPT !.M = PutUp(@, b + @[t + n - 1], Next1k(@, t, n, TRUE))], team, TRUE, 0, n,
                LAMBDA y, s, z, u : partial_sorting_scan_left_to_right_32s_1k_block_omp(y, t, b, s, z, u))
partial_sorting_scan_right_to_left_32s_1k_omp(x, t, n, b, team) ==
    SweepBlocks(x, team, FALSE, 0, n,
                LAMBDA y, s, z, u : partial_sorting_scan_right_to_left_32s_1k_block_omp(y, t, b, s, z, u))

-----------------------------------------------------------------------------
\* 8u by a team: a block is a run of suffixes that are all there, so that what
\* it induces is not in it.  Each thread counts what it will put into each
\* bucket; the counts are added up; each thread places its suffixes.
PrepareStep(M, t, right, y, i) ==
    LET d == y.d + Bit(M[i] < 0)
        v == Symbol8u(M, t, Unmarked(M[i]), right)
    IN  [cache |-> Append(y.cache, [index |-> M[i], symbol |-> v]),
         used |-> [y.used EXCEPT ![v] = @ + 1], names |-> [y.names EXCEPT ![v] = d], d |-> d]
Prepared(M, t, right, start, size) ==
    Sweep(LAMBDA y, i : PrepareStep(M, t, right, y, i),
          [cache |-> <<>>, used |-> Counts(2 * Alphabet), names |-> Counts(2 * Alphabet), d |-> 1],
          right, start, size)
partial_sorting_scan_left_to_right_8u_block_prepare(M, t, start, size) == Prepared(M, t, TRUE, start, size)
partial_sorting_scan_right_to_left_8u_block_prepare(M, t, start, size) == Prepared(M, t, FALSE, start, size)

\* One thread's counts become the places it begins at, its names those before it.
AddedUp(x, thread, right, b, names) ==
    LET mine == x.C[thread]
        Used(c) == IF right THEN x.M[b + c] + mine.used[c] ELSE x.M[b + c] - mine.used[c]
        Name(c) == IF mine.names[c] > 0 THEN mine.names[c] + x.d - 1 ELSE x.M[names + c]
    IN  [M |-> Up(LAMBDA A, c : [A EXCEPT ![b + c] = Used(c), ![names + c] = Name(c)],
                  x.M, 0, 2 * Alphabet - 1),
         d |-> x.d + mine.d - 1,
         C |-> [x.C EXCEPT ![thread] = [cache |-> mine.cache, d |-> x.d,
                                        used |-> [c \in DOMAIN mine.used |-> x.M[b + c]],
                                        names |-> [c \in DOMAIN mine.names |-> x.M[names + c]]]]]

PlaceStep(y, e, right) ==
    LET d == y.d + Bit(e.index < 0)
        v == e.symbol
        w == IF y.names[v] # d THEN Negated(e.index - 1) ELSE e.index - 1
        to == IF right THEN y.used[v] ELSE y.used[v] - 1
    IN  [M |-> [y.M EXCEPT ![to] = w], d |-> d, names |-> [y.names EXCEPT ![v] = d],
         used |-> [y.used EXCEPT ![v] = IF right THEN @ + 1 ELSE @ - 1]]
Placed(x, thread, right) ==
    LET mine == x.C[thread]
    IN  [x EXCEPT !.M = Up(LAMBDA y, i : PlaceStep(y, mine.cache[i], right),
                           [M |-> x.M, d |-> mine.d, names |-> mine.names, used |-> mine.used],
                           1, Len(mine.cache)).M]
partial_sorting_scan_left_to_right_8u_block_place(x, thread) == Placed(x, thread, TRUE)
partial_sorting_scan_right_to_left_8u_block_place(x, thread) == Placed(x, thread, FALSE)

\* Prepare, AddUp and Place of a block by a team, or the sweep by one.
CountedBlock(x, team, right, start, size, One(_), Prepare(_, _, _, _), AddUp(_, _), Place(_, _)) ==
    LET read == AtOnce(Prepare, [x EXCEPT !.C = [thread \in 0..(team.n - 1) |-> <<>>]], team, start, size)
        sums == Sweep(AddUp, read, right, 0, team.n)
    IN  IF team.n > 1 /\ size >= BlockFrom
        THEN AtOnce(LAMBDA y, thread, s, z : Place(y, thread), sums, team, start, size)
        ELSE One(x)

partial_sorting_scan_left_to_right_8u_block_omp(x, t, b, start, size, team) ==
    CountedBlock(x, team, TRUE, start, size,
        LAMBDA y : partial_sorting_scan_left_to_right_8u(y, t, b, start, size),
        LAMBDA y, thread, s, z :
            [y EXCEPT !.C[thread] = partial_sorting_scan_left_to_right_8u_block_prepare(y.M, t, s, z)],
        LAMBDA y, thread : AddedUp(y, thread, TRUE, b + 4 * Alphabet, b + 2 * Alphabet),
        partial_sorting_scan_left_to_right_8u_block_place)
partial_sorting_scan_right_to_left_8u_block_omp(x, t, b, start, size, team) ==
    CountedBlock(x, team, FALSE, start, size,
        LAMBDA y : partial_sorting_scan_right_to_left_8u(y, t, b, start, size),
        LAMBDA y, thread, s, z :
            [y EXCEPT !.C[thread] = partial_sorting_scan_right_to_left_8u_block_prepare(y.M, t, s, z)],
        LAMBDA y, thread : AddedUp(y, thread, FALSE, b, b + 2 * Alphabet),
        partial_sorting_scan_right_to_left_8u_block_place)

\* From run to run; a place that is empty is passed over.
RunEnd(M, i, limit, right) ==
    IF right THEN CHOOSE e \in (i + 1)..limit : /\ \A j \in i..(e - 1) : M[j] # 0
                                                /\ e < limit => M[e] = 0
    ELSE CHOOSE e \in limit..(i - 1) : (\A j \in (e + 1)..i : M[j] # 0) /\ (e > limit => M[e] = 0)
\* How much the caches of a team take.
TeamLoad(team) == team.n * (CacheSize - Lane * team.n)
SweepRuns(x, team, right, start, size, load, Pass(_, _), Block(_, _, _, _)) ==
    LET last == start + size - 1
        RECURSIVE From(_, _)
        From(y, i) ==
            LET limit == IF right THEN Least(i + load, last + 1)
                         ELSE IF i - load < start THEN start - 1 ELSE i - load
                e == RunEnd(y.M, i, limit, right)
            IN  IF i > last \/ i < start THEN y
                ELSE IF y.M[i] = 0 THEN From(Pass(y, i), IF right THEN i + 1 ELSE i - 1)
                ELSE From(IF right THEN Block(y, i, e - i, team) ELSE Block(y, e + 1, i - e, team), e)
    IN  IF TeamFor(team, size).n = 1 THEN Block(x, start, size, Alone)
        ELSE From(x, IF right THEN start ELSE last)
Passed(x, i) == x

partial_sorting_scan_left_to_right_8u_omp(x, t, n, b, left, team) ==
    LET v == Symbol8u(x.M, t, n, TRUE)
    IN  SweepRuns(LastNamed(x, b + 4 * Alphabet + v, b + 2 * Alphabet + v, Negated(n - 1)),
                  team, TRUE, 0, left, TeamLoad(team), Passed,
                  LAMBDA y, s, z, u : partial_sorting_scan_left_to_right_8u_block_omp(y, t, b, s, z, u))
partial_sorting_scan_right_to_left_8u_omp(x, t, n, b, first, left, team) ==
    SweepRuns(x, team, FALSE, left + 1, n - first - (left + 1), TeamLoad(team), Passed,
              LAMBDA y, s, z, u : partial_sorting_scan_right_to_left_8u_block_omp(y, t, b, s, z, u))

-----------------------------------------------------------------------------
\* Between the sweeps the marks move by one: they are to stand where a name
\* begins for a sweep to the left.
ShiftSigns(M, from, to) ==
    Down(LAMBDA y, i : [M |-> [y.M EXCEPT ![i] = IF y.s THEN Negated(@) ELSE Unmarked(@)], s |-> y.M[i] < 0],
         [M |-> M, s |-> TRUE], from, to).M
partial_sorting_shift_markers_8u_omp(M, b) ==
    Down(LAMBDA A, c : ShiftSigns(A, A[b + 4 * Alphabet + 2 * c] - 1, A[b + 2 * (c - 1)]), M, Alphabet - 1, 1)
partial_sorting_shift_markers_32s_6k_omp(M, k, b) ==
    Down(LAMBDA A, c : ShiftSigns(A, A[b + 4 * c] - 1, A[b + 4 * k + 2 * (c - 1)]), M, k - 1, 1)
partial_sorting_shift_markers_32s_4k(M, n) ==
    Down(LAMBDA y, i : IF y.M[i] > 0
                       THEN [M |-> [y.M EXCEPT ![i] = IF y.s THEN Grouped(@) ELSE Ungrouped(@)],
                             s |-> InGroup(y.M[i])]
                       ELSE y,
         [M |-> M, s |-> TRUE], n - 1, 0).M
partial_sorting_shift_buckets_32s_6k(M, k, b) ==
    Up(LAMBDA A, c : CopyOf(A, b + 4 * k + 2 * c, b + 4 * c, 2), M, 0, k - 1)

\* The LMS suffixes, which are those left negative, to the left.
GatherNegative(M, start, size, Kept(_)) ==
    Up(LAMBDA y, i : [M |-> [y.M EXCEPT ![y.l] = Kept(y.M[i])], l |-> y.l + Bit(y.M[i] < 0)],
       [M |-> M, l |-> start], start, start + size - 1)
\* (v - SUFFIX_GROUP_MARKER) & ~SUFFIX_GROUP_MARKER: the mark of the name is
\* turned around and becomes the sign.
MarkAsSign(v) == Ungrouped(IF v - Marker < -Word THEN v - Marker + 2 * Word ELSE v - Marker)
partial_sorting_gather_lms_suffixes_32s_4k(M, start, size) == GatherNegative(M, start, size, MarkAsSign)
partial_sorting_gather_lms_suffixes_32s_1k(M, start, size) == GatherNegative(M, start, size, Unmarked)

\* Each thread gathers in its part, then the parts are moved together.
GatherParts(M, n, team, Gather(_, _, _)) ==
    LET parts == AtOnce(LAMBDA y, thread, s, z :
                            LET g == Gather(y.M, s, z)
                            IN  [M |-> g.M, count |-> [y.count EXCEPT ![thread] = g.l - s]],
                        [M |-> M, count |-> Counts(team.n)], team, 0, n)
    IN  Up(LAMBDA y, thread :
               [M |-> IF thread > 0 THEN CopyOf(y.M, PartStart(team, thread, n), y.at, parts.count[thread])
                      ELSE y.M,
                at |-> y.at + parts.count[thread]],
           [M |-> parts.M, at |-> 0], 0, team.n - 1).M
partial_sorting_gather_lms_suffixes_32s_4k_omp(M, n, team) ==
    GatherParts(M, n, TeamFor(team, n), partial_sorting_gather_lms_suffixes_32s_4k)
partial_sorting_gather_lms_suffixes_32s_1k_omp(M, n, team) ==
    GatherParts(M, n, TeamFor(team, n), partial_sorting_gather_lms_suffixes_32s_1k)

induce_partial_order_8u_omp(M, t, n, b, first, left, team) ==
    LET x == partial_sorting_scan_left_to_right_8u_omp(
                 Sorting(Zeroed(M, b + 2 * Alphabet, 2 * Alphabet)), t, n, b, left, team)
    IN  partial_sorting_scan_right_to_left_8u_omp(
            [x EXCEPT !.M = partial_sorting_shift_markers_8u_omp(@, b)], t, n, b, first, left, team).M
induce_partial_order_32s_6k_omp(M, t, n, k, b, first, left, team) ==
    LET x == partial_sorting_scan_left_to_right_32s_6k_omp(Sorting(M), t, n, b, left, team)
        A == partial_sorting_shift_buckets_32s_6k(partial_sorting_shift_markers_32s_6k_omp(x.M, k, b), k, b)
    IN  partial_sorting_scan_right_to_left_32s_6k_omp([x EXCEPT !.M = A], t, n, b, first, left, team).M
induce_partial_order_32s_4k_omp(M, t, n, k, b, team) ==
    LET x == partial_sorting_scan_left_to_right_32s_4k_omp(Sorting(Zeroed(M, b, 2 * k)), t, n, k, b, team)
        y == partial_sorting_scan_right_to_left_32s_4k_omp(
                 [x EXCEPT !.M = partial_sorting_shift_markers_32s_4k(@, n)], t, n, k, b, team)
    IN  partial_sorting_gather_lms_suffixes_32s_4k_omp(y.M, n, team)
induce_partial_order_32s_2k_omp(M, t, n, k, b, team) ==
    LET x == partial_sorting_scan_left_to_right_32s_1k_omp(Sorting(M), t, n, b + k, team)
        y == partial_sorting_scan_right_to_left_32s_1k_omp(x, t, n, b, team)
    IN  partial_sorting_gather_lms_suffixes_32s_1k_omp(y.M, n, team)
induce_partial_order_32s_1k_omp(M, t, n, k, b, team) ==
    LET starts == initialize_buckets_start_32s_1k(count_suffixes_32s(M, t, n, k, b), k, b)
        x == partial_sorting_scan_left_to_right_32s_1k_omp(Sorting(starts), t, n, b, team)
        ends == initialize_buckets_end_32s_1k(count_suffixes_32s(x.M, t, n, k, b), k, b)
        y == partial_sorting_scan_right_to_left_32s_1k_omp(Sorting(ends), t, n, b, team)
    IN  partial_sorting_gather_lms_suffixes_32s_1k_omp(y.M, n, team)
=============================================================================
