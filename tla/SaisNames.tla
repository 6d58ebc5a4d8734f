-------------------------------- MODULE SaisNames --------------------------------
(***************************************************************************)
(* Suffix sorting by induction: naming the LMS substrings, the shorter     *)
(* text of their names on which the sorting recurses, and the LMS suffixes *)
(* back in their places.  In a recursion an LMS substring of a name of its *)
(* own (unique) needs no sorting: it is left out, its place in the order   *)
(* kept at the end and its character in the text negated.                  *)
(***************************************************************************)
EXTENDS SaisPartial

\* Where the name of the suffix p stands among those at m.
NameOf(m, p) == m + (p \div 2)

\* What a team does after counting: each part with how many come before it.
InTurn(M, team, size, first, Count(_, _), Does(_, _, _, _)) ==
    LET many(thread) == Count(PartStart(team, thread, size), PartSize(team, thread, size))
        before(thread) == Up(LAMBDA sum, u : sum + many(u), first, 0, thread - 1)
    IN  [M |-> AtOnce(LAMBDA A, thread, s, z : Does(A, before(thread), s, z), M, team, 0, size),
         all |-> before(team.n)]
count_negative_marked_suffixes(M, start, size) ==
    Up(LAMBDA sum, i : sum + Bit(M[i] < 0), 0, start, start + size - 1)
count_zero_marked_suffixes(M, start, size) ==
    Up(LAMBDA sum, i : sum + Bit(M[i] = 0), 0, start, start + size - 1)

-----------------------------------------------------------------------------
\* Names of the suffixes at 0 to m, a new one after each that is marked.
renumber_lms_suffixes_8u(M, m, name, start, size) ==
    Up(LAMBDA x, i : [M |-> [x.M EXCEPT ![NameOf(m, Unmarked(x.M[i]))] = Negated(x.name)],
                      name |-> x.name + Bit(x.M[i] < 0)],
       [M |-> M, name |-> name], start, start + size - 1).M
renumber_lms_suffixes_8u_omp(M, m, team) ==
    InTurn(M, TeamFor(team, m), m, 0, LAMBDA s, z : count_negative_marked_suffixes(M, s, z),
           LAMBDA A, before, s, z : renumber_lms_suffixes_8u(A, m, before, s, z))

\* The names, which are negative, in the order of the text up to l.
gather_marked_suffixes_8u(M, m, l, start, size) ==
    LET x == Down(LAMBDA y, i : [M |-> [y.M EXCEPT ![y.l] = Unmarked(y.M[i])], l |-> y.l - Bit(y.M[i] < 0)],
                  [M |-> M, l |-> l - 1], m + start + size - 1, m + start)
    IN  [M |-> x.M, l |-> x.l + 1]
\* Each thread's at the end of its part, the last one's at the end of all, then together.
GatherMarkedPart(x, m, end, thread, start, size) ==
    LET g == gather_marked_suffixes_8u(x.M, m, end, start, size)
    IN  [M |-> g.M, at |-> [x.at EXCEPT ![thread] = g.l], count |-> [x.count EXCEPT ![thread] = end - g.l]]
gather_marked_lms_suffixes_8u_omp(M, n, m, fs, everyone) ==
    LET team == TeamFor(everyone, n \div 2)
        End(thread) == IF thread < team.n - 1 THEN m + PartEnd(team, thread, n \div 2) ELSE n + fs
        parts == AtOnce(LAMBDA x, thread, s, z : GatherMarkedPart(x, m, End(thread), thread, s, z),
                        [M |-> M, at |-> Counts(team.n), count |-> Counts(team.n)], team, 0, n \div 2)
    IN  Down(LAMBDA x, thread :
                 LET to == x.to - parts.count[thread]
                 IN  [M |-> IF thread < team.n - 1 THEN CopyOf(x.M, parts.at[thread], to, parts.count[thread])
                            ELSE x.M,
                      to |-> to],
             [M |-> parts.M, to |-> n + fs], team.n - 1, 0).M
renumber_and_gather_lms_suffixes_8u_omp(M, n, m, fs, team) ==
    LET x == renumber_lms_suffixes_8u_omp(Zeroed(M, m, n \div 2), m, team)
    IN  [M |-> IF x.all < m THEN gather_marked_lms_suffixes_8u_omp(x.M, n, m, fs, team)
               ELSE Up(LAMBDA A, i : [A EXCEPT ![i] = Unmarked(@)], x.M, 0, m - 1),
         names |-> x.all]

-----------------------------------------------------------------------------
\* In a recursion: a name is negated if its suffix is the only one that has it,
\* which shows when the one before it is marked too.
renumber_distinct_lms_suffixes_32s_4k(M, m, name, start, size) ==
    Up(LAMBDA x, i :
           LET p == x.M[i]
           IN  [M |-> [x.M EXCEPT ![i] = Unmarked(p),
                                  ![NameOf(m, Unmarked(p))] = IF p < 0 /\ x.last < 0 THEN Negated(x.name) ELSE x.name],
                name |-> x.name + Bit(p < 0), last |-> p],
       [M |-> M, name |-> name, last |-> 0], start, start + size - 1).M
renumber_distinct_lms_suffixes_32s_4k_omp(M, m, team) ==
    LET x == InTurn(M, TeamFor(team, m), m, 1, LAMBDA s, z : count_negative_marked_suffixes(M, s, z),
                    LAMBDA A, before, s, z : renumber_distinct_lms_suffixes_32s_4k(A, m, before, s, z))
    IN  [M |-> x.M, names |-> x.all - 1]

\* A unique name counts as one only if the name before it in the text is unique.
mark_distinct_lms_suffixes_32s(M, m, start, size) ==
    Up(LAMBDA x, i : [M |-> [x.M EXCEPT ![i] = IF x.last < 0 THEN @ ELSE Unmarked(@)],
                      last |-> IF x.M[i] = 0 THEN x.last ELSE x.M[i]],
       [M |-> M, last |-> 0], m + start, m + start + size - 1).M
clamp_lms_suffixes_length_32s(M, m, start, size) ==
    Up(LAMBDA A, i : [A EXCEPT ![i] = IF @ < 0 THEN Unmarked(@) ELSE 0], M, m + start, m + start + size - 1)
mark_distinct_lms_suffixes_32s_omp(M, n, m, team) ==
    AtOnce(LAMBDA A, thread, s, z : mark_distinct_lms_suffixes_32s(A, m, s, z),
           M, TeamFor(team, n \div 2), 0, n \div 2)
clamp_lms_suffixes_length_32s_omp(M, n, m, team) ==
    AtOnce(LAMBDA A, thread, s, z : clamp_lms_suffixes_length_32s(A, m, s, z),
           M, TeamFor(team, n \div 2), 0, n \div 2)
Marked(x, n, m, distinct, team) ==
    [x EXCEPT !.M = IF distinct THEN mark_distinct_lms_suffixes_32s_omp(@, n, m, team) ELSE @]
renumber_and_mark_distinct_lms_suffixes_32s_4k_omp(M, n, m, team) ==
    LET x == renumber_distinct_lms_suffixes_32s_4k_omp(Zeroed(M, m, n \div 2), m, team)
    IN  Marked(x, n, m, x.names < m, team)

\* Without marks: the lengths of the substrings stand where the names will, and
\* those of two neighbours that are as long are compared.
Lengths(M, n, m) ==
    Up(LAMBDA A, i : [A EXCEPT ![NameOf(m, M[i])] = (IF i < n - 1 THEN M[i + 1] - M[i] ELSE 0) + 1 - Word],
       M, n - m, n - 1)
Differ(M, t, m, p, q) ==
    LET len(u) == M[NameOf(m, u)]
    IN  len(p) # len(q) \/ \E l \in 0..(len(q) - 1) : M[t + p + l] # M[t + q + l]
NameSubstrings(M, t, m) ==
    LET x == Up(LAMBDA y, i :
                    LET q == y.M[i]
                        differ == Differ(y.M, t, m, y.p, q)
                    IN  [M |-> [y.M EXCEPT ![NameOf(m, y.p)] = IF y.differ /\ differ THEN Negated(y.name) ELSE y.name],
                         name |-> y.name + Bit(differ), p |-> q, differ |-> differ],
                [M |-> M, name |-> 1, p |-> M[0], differ |-> TRUE], 1, m - 1)
    IN  [M |-> [x.M EXCEPT ![NameOf(m, x.p)] = IF x.differ THEN Negated(x.name) ELSE x.name], names |-> x.name]
renumber_and_mark_distinct_lms_suffixes_32s_1k_omp(M, t, n, m, team) ==
    LET gathered == Zeroed(gather_lms_suffixes_32s(M, t, n).M, m, n - 2 * m)
        x == NameSubstrings(clamp_lms_suffixes_length_32s_omp(Lengths(gathered, n, m), n, m, team), t, m)
    IN  Marked(x, n, m, x.names + 1 <= m, team)

-----------------------------------------------------------------------------
\* The sorted suffixes of the shorter text are indices of LMS suffixes.
reconstruct_lms_suffixes(M, n, m, start, size) ==
    Up(LAMBDA A, i : [A EXCEPT ![i] = A[n - m + A[i]]], M, start, start + size - 1)
reconstruct_lms_suffixes_omp(M, n, m, team) ==
    AtOnce(LAMBDA A, thread, s, z : reconstruct_lms_suffixes(A, n, m, s, z), M, TeamFor(team, m), 0, m)

\* The sorted LMS suffixes to the ends of their buckets, the rest empty: Held(c) of
\* them, up to End(c), in the bucket of each character but the last.
Spreading(M, n, k, m, Held(_, _), End(_, _)) ==
    LET x == Down(LAMBDA y, c :
                      LET l == Held(y.M, c)
                          end == End(y.M, c)
                      IN  IF l > 0
                          THEN [M |-> CopyOf(Zeroed(y.M, end, y.j - end), y.m - l, end - l, l),
                                m |-> y.m - l, j |-> end - l]
                          ELSE y,
                  [M |-> M, m |-> m, j |-> n], k - 2, 0)
    IN  Zeroed(x.M, 0, x.j)
Interval(M, b, c) == M[b + Index2(c + 1, 1)] - M[b + Index2(c, 1)]

place_lms_suffixes_interval_8u(M, n, m, b) ==
    Spreading(M, n, Alphabet, m, LAMBDA A, c : Interval(A, b, c), LAMBDA A, c : A[b + 7 * Alphabet + c])
place_lms_suffixes_interval_32s_4k(M, n, k, m, b) ==
    Spreading(M, n, k, m, LAMBDA A, c : Interval(A, b, c), LAMBDA A, c : A[b + 3 * k + c])
place_lms_suffixes_interval_32s_2k(M, n, k, m, b) ==
    Spreading(M, n, k, m, LAMBDA A, c : Interval(A, b, c), LAMBDA A, c : A[b + Index2(c, 0)])
place_lms_suffixes_histogram_32s_6k(M, n, k, m, b) ==
    Spreading(M, n, k, m, LAMBDA A, c : A[b + Index4(c, 1)], LAMBDA A, c : A[b + 5 * k + c])
place_lms_suffixes_histogram_32s_4k(M, n, k, m, b) ==
    Spreading(M, n, k, m, LAMBDA A, c : A[b + Index2(c, 1)], LAMBDA A, c : A[b + 3 * k + c])
place_lms_suffixes_histogram_32s_2k(M, n, k, m, b) ==
    Spreading(M, n, k, m, LAMBDA A, c : A[b + Index2(c, 1)], LAMBDA A, c : A[b + Index2(c, 0)])
place_lms_suffixes_interval_32s_1k(M, t, k, m, b) ==
    LET x == Down(LAMBDA y, i :
                      LET p == y.M[i]
                          c == y.M[t + p]
                          end == y.M[b + c]
                          z == IF c # y.c THEN [M |-> Zeroed(y.M, end, y.l - end), c |-> c, l |-> end] ELSE y
                      IN  [z EXCEPT !.M = [@ EXCEPT ![z.l - 1] = p], !.l = @ - 1],
                  [M |-> M, c |-> k - 1, l |-> M[b + k - 1]], m - 1, 0)
    IN  Zeroed(x.M, 0, x.l)

-----------------------------------------------------------------------------
\* The unique names out of the way: the text under such a suffix is marked, its
\* place in the order stands for its name, the other names are closed up.
renumber_unique_and_nonunique_lms_suffixes_32s(M, t, m, f, start, size) ==
    Up(LAMBDA x, i :
           LET p == x.M[i]
               s == x.M[NameOf(m, p)]
           IN  IF s < 0
               THEN [M |-> [x.M EXCEPT ![t + p] = Negated(@), ![NameOf(m, p)] = i - Word], f |-> x.f + 1]
               ELSE [x EXCEPT !.M[NameOf(m, p)] = s - x.f],
       [M |-> M, f |-> f], start, start + size - 1).M
count_unique_suffixes(M, m, start, size) ==
    Up(LAMBDA sum, i : sum + Bit(M[NameOf(m, M[i])] < 0), 0, start, start + size - 1)
renumber_unique_and_nonunique_lms_suffixes_32s_omp(M, t, m, team) ==
    InTurn(M, TeamFor(team, m), m, 0, LAMBDA s, z : count_unique_suffixes(M, m, s, z),
           LAMBDA A, before, s, z : renumber_unique_and_nonunique_lms_suffixes_32s(A, t, m, before, s, z))

\* The places of the unique ones to the left of l, the other names to the left of r.
LessOne(p) == IF p = -Word THEN Word - 1 ELSE p - 1
compact_unique_and_nonunique_lms_suffixes_32s(M, m, l, r, start, size) ==
    LET x == Down(LAMBDA y, i :
                      LET p == y.M[i]
                      IN  [M |-> [y.M EXCEPT ![y.l] = Unmarked(p), ![y.r] = LessOne(p)],
                           l |-> y.l - Bit(p < 0), r |-> y.r - Bit(p > 0)],
                  [M |-> M, l |-> l - 1, r |-> r - 1], m + start + size - 1, m + start)
    IN  [M |-> x.M, l |-> x.l + 1, r |-> x.r + 1]
CompactPart(x, n, m, thread, start, size) ==
    LET g == compact_unique_and_nonunique_lms_suffixes_32s(
                 x.M, m, m + (n \div 2) + start + size, m + start + size, start, size)
    IN  [M |-> g.M, l |-> [x.l EXCEPT ![thread] = g.l], r |-> [x.r EXCEPT ![thread] = g.r]]
\* What each thread has from its place at[thread] to its End, one before the other.
Stacked(M, team, to, at, End(_)) ==
    Down(LAMBDA x, thread :
             LET count == End(thread) - at[thread]
             IN  [M |-> CopyOf(x.M, at[thread], x.to - count, count), to |-> x.to - count],
         [M |-> M, to |-> to], team.n - 1, 0).M
CompactedBy(M, n, m, fs, team) ==
    LET half == n \div 2
        x == AtOnce(LAMBDA y, thread, s, z : CompactPart(y, n, m, thread, s, z),
                    [M |-> M, l |-> Counts(team.n), r |-> Counts(team.n)], team, 0, half)
    IN  Stacked(Stacked(x.M, team, m, x.l, LAMBDA thread : m + half + PartEnd(team, thread, half)),
                team, n + fs, x.r, LAMBDA thread : m + PartEnd(team, thread, half))
compact_unique_and_nonunique_lms_suffixes_32s_omp(M, n, m, fs, f, team) ==
    CopyOf(IF m < fs /\ TeamFor(team, n \div 2).n > 1 THEN CompactedBy(M, n, m, fs, team)
           ELSE compact_unique_and_nonunique_lms_suffixes_32s(M, m, m, n + fs, 0, n \div 2).M,
           m - f, n + fs - m, f)
compact_lms_suffixes_32s_omp(M, t, n, m, fs, team) ==
    LET x == renumber_unique_and_nonunique_lms_suffixes_32s_omp(M, t, m, team)
    IN  [M |-> compact_unique_and_nonunique_lms_suffixes_32s_omp(x.M, n, m, fs, x.all, team), f |-> x.all]

\* Both together again: the unique ones to their places, in the order of the text,
\* the others to the places that are left.
merge_unique_lms_suffixes_32s(M, t, n, m, l, start, size) ==
    Up(LAMBDA x, i :
           IF x.M[t + i] < 0
           THEN [M |-> [x.M EXCEPT ![t + i] = Unmarked(@), ![x.to] = i], to |-> x.M[x.next], next |-> x.next + 1]
           ELSE x,
       [M |-> M, to |-> M[n - m - 1 + l], next |-> n - m + l], start, start + size - 1).M
merge_nonunique_lms_suffixes_32s(M, n, m, l, start, size) ==
    Up(LAMBDA x, i :
           IF x.M[i] = 0
           THEN [M |-> [x.M EXCEPT ![i] = x.p], p |-> x.M[x.next], next |-> x.next + 1] ELSE x,
       [M |-> M, p |-> M[n - m - 1 + l], next |-> n - m + l], start, start + size - 1).M
merge_unique_lms_suffixes_32s_omp(M, t, n, m, team) ==
    InTurn(M, TeamFor(team, n), n, 0, LAMBDA s, z : count_negative_marked_suffixes(M, t + s, z),
           LAMBDA A, before, s, z : merge_unique_lms_suffixes_32s(A, t, n, m, before, s, z)).M
merge_nonunique_lms_suffixes_32s_omp(M, n, m, f, team) ==
    InTurn(M, TeamFor(team, m), m, f, LAMBDA s, z : count_zero_marked_suffixes(M, s, z),
           LAMBDA A, before, s, z : merge_nonunique_lms_suffixes_32s(A, n, m, before, s, z)).M
merge_compacted_lms_suffixes_32s_omp(M, t, n, m, f, team) ==
    merge_nonunique_lms_suffixes_32s_omp(merge_unique_lms_suffixes_32s_omp(M, t, n, m, team), n, m, f, team)

\* What the recursion has sorted, and the f unique ones, which stand at the end.
Remerged(M, t, n, m, f, team) ==
    LET sorted == reconstruct_lms_suffixes_omp(M, n, m - f, team)
    IN  merge_compacted_lms_suffixes_32s_omp(Zeroed(CopyOf(sorted, 0, n - m - 1 + f, m - f), 0, m),
                                             t, n, m, f, team)
reconstruct_compacted_lms_suffixes_32s_2k_omp(M, t, n, k, m, fs, f, b, team) ==
    IF f > 0
    THEN Remerged(count_and_gather_compacted_lms_suffixes_32s_2k_omp(
                      CopyOf(M, n + fs - m, n - m - 1, f), t, n, k, b, team).M, t, n, m, f, team)
    ELSE reconstruct_lms_suffixes_omp(count_and_gather_lms_suffixes_32s_2k(M, t, n, k, b, 0, n).M, n, m, team)
reconstruct_compacted_lms_suffixes_32s_1k_omp(M, t, n, m, fs, f, team) ==
    IF f > 0
    THEN Remerged(gather_compacted_lms_suffixes_32s(CopyOf(M, n + fs - m, n - m - 1, f), t, n).M,
                  t, n, m, f, team)
    ELSE reconstruct_lms_suffixes_omp(gather_lms_suffixes_32s(M, t, n).M, n, m, team)
=============================================================================
