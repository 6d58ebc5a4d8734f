-------------------------------- MODULE SaisUnbwt --------------------------------
(***************************************************************************)
(* The inverse of the Burrows-Wheeler transform (libsais.c): the text is   *)
(* read off two characters at a time, by several chains at once.  P says   *)
(* for each of the n + 1 rotations which one is two characters further,    *)
(* bucket2 where the rotations that begin with a pair of characters end.   *)
(***************************************************************************)
EXTENDS SaisTeam

CONSTANT FastBits       \* 1 << UNBWT_FASTBITS

Pairs == Alphabet * Alphabet
Larger(u, v) == IF u > v THEN u ELSE v

\* count[base + T[i]]++ for size characters from a on.
libsais_unbwt_compute_histogram(T, a, size, count, base) ==
    Up(LAMBDA C, i : [C EXCEPT ![base + T[i]] = @ + 1], count, a, a + size - 1)

libsais_unbwt_transpose_bucket2(bucket2) ==
    [w \in 0..(Pairs - 1) |-> bucket2[(w % Alphabet) * Alphabet + (w \div Alphabet)]]

\* Where the rotations begin that begin with each character: row 0 is the end.
BeginsAt(bucket1) ==
    LET x == Up(LAMBDA y, c : [b |-> [y.b EXCEPT ![c] = y.sum], sum |-> y.sum + y.b[c]],
                [b |-> bucket1, sum |-> 1], 0, Alphabet - 1)
    IN  x.b

\* What precedes the rotations of a character; the text has nothing for row index.
Precede(T, index, c, prev, sum, bucket2) ==
    LET lo == Larger(prev, index + 1)
    IN  libsais_unbwt_compute_histogram(T, lo - 1, sum - lo,
            libsais_unbwt_compute_histogram(T, prev, Least(index, sum) - prev, bucket2, c * Alphabet),
            c * Alphabet)
libsais_unbwt_compute_bigram_histogram_single(T, bucket1, bucket2, index) ==
    LET starts == BeginsAt(bucket1)
    IN  [bucket1 |-> starts,
         bucket2 |-> libsais_unbwt_transpose_bucket2(
                         Up(LAMBDA b, c : Precede(T, index, c, starts[c], starts[c] + bucket1[c], b),
                            bucket2, 0, Alphabet - 1))]

\* Where the rotations of each pair begin, the last character alone being before
\* the pairs it begins; fastbits has for each piece of the rows a pair not after it.
libsais_unbwt_calculate_fastbits(bucket2, lastc, shift) ==
    LET Next(x, w) ==
            LET prev == x.sum + Bit(w = lastc * Alphabet)
                sum == prev + bucket2[w]
            IN  [b |-> [x.b EXCEPT ![w] = prev], sum |-> sum,
                 fast |-> IF prev = sum THEN x.fast
                          ELSE x.fast \o [v \in 1..(((sum - 1) \div (2 ^ shift)) + 1 - Len(x.fast)) |-> w]]
        y == Up(Next, [b |-> bucket2, sum |-> 1, fast |-> <<>>], 0, Pairs - 1)
    IN  [bucket2 |-> y.b, fastbits |-> y.fast]

\* The row p that c leads to, and the pair it is with what precedes that row.
PairAt(T, index, p, c) == T[IF p > index THEN p - 1 ELSE p] * Alphabet + c
BiPsiStep(x, T, index, c, i) ==
    LET p == x.b1[c]
        w == PairAt(T, index, p, c)
        y == [x EXCEPT !.b1[c] = @ + 1]
    IN  IF p = index THEN y ELSE [y EXCEPT !.P[x.b2[w]] = i, !.b2[w] = @ + 1]
libsais_unbwt_calculate_biPSI(x, T, index, start, end) ==
    Given(Up(LAMBDA y, i : BiPsiStep(y, T, index, T[i], i), x, start, Least(index, end) - 1),
          LAMBDA z : Up(LAMBDA y, i : BiPsiStep(y, T, index, T[i - 1], i), z, Larger(index, start) + 1, end))

\* The least shift by which n fits the table.
Shift(n) == CHOOSE s \in 0..n : n \div (2 ^ s) <= FastBits /\ \A u \in 0..(s - 1) : n \div (2 ^ u) > FastBits

libsais_unbwt_init_single(T, P, n, index) ==
    Given(libsais_unbwt_compute_bigram_histogram_single(
              T, libsais_unbwt_compute_histogram(T, 0, n, Counts(Alphabet), 0), Counts(Pairs), index), LAMBDA b :
    Given(libsais_unbwt_calculate_fastbits(b.bucket2, T[0], Shift(n)), LAMBDA f :
    Given(libsais_unbwt_calculate_biPSI([P |-> P, b1 |-> b.bucket1, b2 |-> f.bucket2], T, index, 0, n), LAMBDA x :
    [P |-> x.P, bucket2 |-> x.b2, fastbits |-> f.fastbits, shift |-> Shift(n)])))

\* By a team, each thread with buckets of its own.
libsais_unbwt_compute_bigram_histogram_parallel(x, T, index, start, size) ==
    Up(LAMBDA y, i :
           LET p == y.b1[T[i]]
               z == [y EXCEPT !.b1[T[i]] = @ + 1]
           IN  IF p = index THEN z ELSE [z EXCEPT !.b2[PairAt(T, index, p, T[i])] = @ + 1],
       x, start, start + size - 1)
\* The buckets of all threads added up, and each thread's what those before it have.
SummedUp(bucket, locals, team) ==
    Up(LAMBDA x, u : [sum |-> [c \in DOMAIN bucket |-> x.sum[c] + locals[u][c]],
                      before |-> [x.before EXCEPT ![u] = x.sum]],
       [sum |-> bucket, before |-> locals], 0, team.n - 1)
PlusEach(locals, bucket) == [u \in DOMAIN locals |-> [c \in DOMAIN bucket |-> bucket[c] + locals[u][c]]]
\* What a thread has counted is where the next one begins.
Shifted(locals, first) == [u \in DOMAIN locals |-> IF u = 0 THEN first ELSE locals[u - 1]]

CountChars(x, T, thread, start, size) ==
    [x EXCEPT ![thread] = libsais_unbwt_compute_histogram(T, start, size, Counts(Alphabet), 0)]
CountPairs(x, T, index, thread, start, size) ==
    LET y == libsais_unbwt_compute_bigram_histogram_parallel(
                 [b1 |-> x.b1[thread], b2 |-> Counts(Pairs)], T, index, start, size)
    IN  [b1 |-> [x.b1 EXCEPT ![thread] = y.b1], b2 |-> [x.b2 EXCEPT ![thread] = y.b2]]
EnterPairs(x, T, index, thread, start, size) ==
    LET y == libsais_unbwt_calculate_biPSI(
                 [P |-> x.P, b1 |-> x.b1[thread], b2 |-> x.b2[thread]], T, index, start, start + size)
    IN  [P |-> y.P, b1 |-> x.b1, b2 |-> [x.b2 EXCEPT ![thread] = y.b2]]

libsais_unbwt_init_parallel(T, P, n, index, team) ==
    LET Each(value) == [u \in 0..(team.n - 1) |-> value]
    IN  Given(SummedUp(Counts(Alphabet),
                      AtOnce(LAMBDA x, thread, s, z : CountChars(x, T, thread, s, z), Each(Counts(Alphabet)), team, 0, n),
                      team), LAMBDA chars :
        Given(BeginsAt(chars.sum), LAMBDA starts :
        Given(AtOnce(LAMBDA x, thread, s, z : CountPairs(x, T, index, thread, s, z),
                     [b1 |-> PlusEach(chars.before, starts), b2 |-> Each(Counts(Pairs))], team, 0, n), LAMBDA x :
        Given(SummedUp(Counts(Pairs), x.b2, team), LAMBDA pairs :
        Given(libsais_unbwt_calculate_fastbits(pairs.sum, T[0], Shift(n)), LAMBDA f :
        Given(AtOnce(LAMBDA y, thread, s, z : EnterPairs(y, T, index, thread, s, z),
                     [P |-> P, b1 |-> Shifted(x.b1, starts), b2 |-> PlusEach(pairs.before, f.bucket2)], team, 0, n),
              LAMBDA y :
        [P |-> y.P, bucket2 |-> y.b2[team.n - 1], fastbits |-> f.fastbits, shift |-> Shift(n)]))))))

-----------------------------------------------------------------------------
\* d is what init gives.  The pair that row p begins with, from fastbits on.
PairOf(d, p) ==
    LET from == d.fastbits[(p \div (2 ^ d.shift)) + 1]
    IN  CHOOSE w \in from..(Pairs - 1) : d.bucket2[w] > p /\ \A v \in from..(w - 1) : d.bucket2[v] <= p

\* A step of a chain: its row is x.p[chain], it writes a pair at place of U.
ChainStep(x, d, chain, place) ==
    LET w == PairOf(d, x.p[chain])
    IN  [U |-> [x.U EXCEPT ![place] = w \div Alphabet, ![place + 1] = w % Alphabet],
         p |-> [x.p EXCEPT ![chain] = d.P[x.p[chain]]]]
\* k steps of each of the chains, one after the other, chain c being r * c further.
Chains(x, d, at, r, chains, k) ==
    Up(LAMBDA y, i : Up(LAMBDA z, c : ChainStep(z, d, c, at + r * c + 2 * i), y, 0, chains - 1), x, 0, k - 1)

libsais_unbwt_decode_1(x, d, at, k) == Chains(x, d, at, 0, 1, k)
libsais_unbwt_decode_2(x, d, at, r, k) == Chains(x, d, at, r, 2, k)
libsais_unbwt_decode_3(x, d, at, r, k) == Chains(x, d, at, r, 3, k)
libsais_unbwt_decode_4(x, d, at, r, k) == Chains(x, d, at, r, 4, k)
libsais_unbwt_decode_5(x, d, at, r, k) == Chains(x, d, at, r, 5, k)
libsais_unbwt_decode_6(x, d, at, r, k) == Chains(x, d, at, r, 6, k)
libsais_unbwt_decode_7(x, d, at, r, k) == Chains(x, d, at, r, 7, k)
libsais_unbwt_decode_8(x, d, at, r, k) == Chains(x, d, at, r, 8, k)

\* Up to eight blocks: as long as the last one goes, then the others without it.
\* i is the number of the first.
Rows(I, i) == [c \in 0..7 |-> IF i + c \in DOMAIN I THEN I[i + c] ELSE 0]
LastBlocks(U, d, at, r, I, i, blocks, reminder) ==
    LET x == [U |-> U, p |-> Rows(I, i)]
        k == reminder \div 2
        Rest(y, Decode(_, _, _, _, _)) == Decode(y, d, at + 2 * k, r, (r \div 2) - k).U
    IN  CASE blocks = 1 -> libsais_unbwt_decode_1(x, d, at, k).U
          [] blocks = 2 -> libsais_unbwt_decode_1(libsais_unbwt_decode_2(x, d, at, r, k), d, at + 2 * k, (r \div 2) - k).U
          [] blocks = 3 -> Rest(libsais_unbwt_decode_3(x, d, at, r, k), libsais_unbwt_decode_2)
          [] blocks = 4 -> Rest(libsais_unbwt_decode_4(x, d, at, r, k), libsais_unbwt_decode_3)
          [] blocks = 5 -> Rest(libsais_unbwt_decode_5(x, d, at, r, k), libsais_unbwt_decode_4)
          [] blocks = 6 -> Rest(libsais_unbwt_decode_6(x, d, at, r, k), libsais_unbwt_decode_5)
          [] blocks = 7 -> Rest(libsais_unbwt_decode_7(x, d, at, r, k), libsais_unbwt_decode_6)
          [] blocks = 8 -> Rest(libsais_unbwt_decode_8(x, d, at, r, k), libsais_unbwt_decode_7)
RECURSIVE libsais_unbwt_decode(_, _, _, _, _, _, _, _)
libsais_unbwt_decode(U, d, at, r, I, i, blocks, reminder) ==
    IF blocks > 8
    THEN libsais_unbwt_decode(libsais_unbwt_decode_8([U |-> U, p |-> Rows(I, i)], d, at, r, r \div 2).U,
                              d, at + 8 * r, r, I, i + 8, blocks - 8, reminder)
    ELSE LastBlocks(U, d, at, r, I, i, blocks, reminder)

\* The blocks are dealt out to the threads; the last character is known.
DecodeBlocks(U, d, r, I, blocks, reminder, thread, num) ==
    LET stride == blocks \div num
        rest == blocks % num
        from == stride * thread + Least(thread, rest)
    IN  libsais_unbwt_decode(U, d, r * from, r, I, from, stride + Bit(thread < rest),
                             IF thread < num - 1 THEN r ELSE reminder)
libsais_unbwt_decode_omp(T, d, n, r, I, everyone) ==
    LET blocks == 1 + ((n - 1) \div r)
        team == TeamFor(Part(everyone, Least(blocks, everyone.n)), n)
        U == Up(LAMBDA V, j : DecodeBlocks(V, d, r, I, blocks, n - r * (blocks - 1), team.order[j], team.n),
                T, 1, team.n)
    IN  [U EXCEPT ![n - 1] = T[0]]

\* P is what was allocated; a team inits what is four times as large as its least.
libsais_unbwt_core(T, P, n, r, I, team) ==
    Given(IF team.n > 1 /\ n >= 4 * TeamFrom THEN libsais_unbwt_init_parallel(T, P, n, I[0], team)
          ELSE libsais_unbwt_init_single(T, P, n, I[0]),
          LAMBDA d : libsais_unbwt_decode_omp(T, d, n, r, I, team))

\* What comes back of T is U, if the return value is 0.
PowerOfTwo(r) == \E s \in 0..r : r = 2 ^ s
libsais_unbwt_aux(T, P, n, r, I, team) ==
    IF r # n /\ (r < 2 \/ ~ PowerOfTwo(r)) THEN [res |-> -1, U |-> T]
    ELSE IF n <= 1 THEN [res |-> IF I[0] # n THEN -1 ELSE 0, U |-> T]
    ELSE IF \E b \in 0..((n - 1) \div r) : I[b] \notin 1..n THEN [res |-> -1, U |-> T]
    ELSE [res |-> 0, U |-> libsais_unbwt_core(T, P, n, r, I, team)]
libsais_unbwt(T, P, n, i, team) == libsais_unbwt_aux(T, P, n, n, [b \in {0} |-> i], team)
=============================================================================
