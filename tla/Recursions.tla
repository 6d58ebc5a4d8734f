----------------------------- MODULE Recursions -----------------------------
(***************************************************************************)
(* Induction over numbers and functions defined by recursion, with sets    *)
(* and functions where the library's theorems take operators; and what     *)
(* quotients and remainders are.                                           *)
(***************************************************************************)
EXTENDS NaturalsInduction, WellFoundedInduction, SequenceTheorems, TLAPS

LEMMA LessIsWellFounded ==
    \E R : IsWellFoundedOn(R, Nat) /\ \A m, n \in Nat : m < n => <<m, n>> \in R
<1>1. IsWellFoundedOn({s \in Nat \X Nat : s[1] < s[2]}, Nat)
  BY NatLessThanWellFounded DEF OpToRel
<1>2. \A m, n \in Nat : m < n => <<m, n>> \in {s \in Nat \X Nat : s[1] < s[2]}
  OBVIOUS
<1> QED  BY <1>1, <1>2, Zenon

LEMMA LeastNumber ==
    ASSUME NEW T, T \subseteq Nat, T # {}
    PROVE  \E n \in T : \A m \in T : n <= m
<1>1. PICK R : IsWellFoundedOn(R, Nat) /\ \A m, n \in Nat : m < n => <<m, n>> \in R
  BY LessIsWellFounded
<1>2. PICK n \in T : \A m \in T : ~ (<<m, n>> \in R)
  BY <1>1, WFMin, ZenonT(30)
<1>3. \A m \in T : ~ (m < n)
  BY <1>1, <1>2, Zenon
<1> QED  BY <1>2, <1>3

\* f follows the recursion up to n.
UpTo(N, n) == {k \in N : k <= n}
Follows(f, K, stop, base, step, D) ==
    \A k \in K : f[k] = IF k \in stop THEN base[k] ELSE step[k][f[D[k]]]

Agree(f, g, K) == \A k \in K : f[k] = g[k]

Descends(D, N, stop) == \A k \in N : k \notin stop => D[k] \in N /\ D[k] < k

LEMMA UpToIs ==
    ASSUME NEW N, N \subseteq Nat, NEW n \in N
    PROVE  /\ n \in UpTo(N, n)
           /\ \A k \in UpTo(N, n) : k \in N /\ k \in Nat /\ k <= n
           /\ \A k \in UpTo(N, n), d \in N : d < k => d \in UpTo(N, n) /\ d \in Nat
           /\ \A k \in UpTo(N, n) : UpTo(N, k) \subseteq UpTo(N, n)
<1>1. n \in Nat
  OBVIOUS
<1>2. \A k \in UpTo(N, n) : k \in N /\ k \in Nat /\ k <= n
  BY DEF UpTo
<1>3. \A k \in UpTo(N, n), d \in N : d < k => d \in UpTo(N, n) /\ d \in Nat
  BY <1>1 DEF UpTo
<1>4. \A k \in UpTo(N, n) : \A d \in UpTo(N, k) : d \in UpTo(N, n)
  BY <1>1 DEF UpTo
<1>5. \A k \in UpTo(N, n) : UpTo(N, k) \subseteq UpTo(N, n)
  BY <1>4, Zenon
<1>6. n \in UpTo(N, n)
  BY <1>1 DEF UpTo
<1> QED  BY <1>2, <1>3, <1>5, <1>6

LEMMA RecursionIsUnique ==
    ASSUME NEW N, N \subseteq Nat, NEW stop, NEW base, NEW step, NEW D,
           Descends(D, N, stop),
           NEW n \in N, NEW f, NEW g,
           Follows(f, UpTo(N, n), stop, base, step, D),
           Follows(g, UpTo(N, n), stop, base, step, D)
    PROVE  Agree(f, g, UpTo(N, n))
<1> SUFFICES \A k \in UpTo(N, n) : f[k] = g[k]
  BY DEF Agree
<1> DEFINE Bad == {k \in UpTo(N, n) : f[k] # g[k]}
<1> SUFFICES ASSUME Bad # {} PROVE FALSE
  OBVIOUS
<1>1. PICK k \in Bad : \A m \in Bad : k <= m
  BY LeastNumber, UpToIs
<1>2. k \in UpTo(N, n) /\ k \in N /\ k \in Nat /\ f[k] # g[k]
  BY <1>1, UpToIs
<1>3. k \notin stop
  BY <1>2, Zenon DEF Follows
<1>4. D[k] \in UpTo(N, n) /\ D[k] < k /\ D[k] \in Nat
  BY <1>2, <1>3, UpToIs DEF Descends
<1>5. f[D[k]] = g[D[k]]
  BY <1>1, <1>2, <1>4
<1> QED  BY <1>2, <1>3, <1>5, Zenon DEF Follows

LEMMA Recursion ==
    ASSUME NEW N, N \subseteq Nat, NEW S, NEW stop, NEW base, NEW step, NEW D,
           \A k \in N : k \in stop => base[k] \in S,
           \A k \in N : k \notin stop => step[k] \in [S -> S] /\ D[k] \in N /\ D[k] < k
    PROVE  \E f \in [N -> S] : Follows(f, N, stop, base, step, D)
<1> DEFINE Part(n) == {g \in [UpTo(N, n) -> S] : Follows(g, UpTo(N, n), stop, base, step, D)}
           Known == {n \in N : Part(n) # {}}
<1>1. PICK G : G = [n \in N |-> CHOOSE g : g \in Part(n)]
  OBVIOUS
<1>2. ASSUME NEW n \in Known
      PROVE  /\ n \in N /\ G[n] \in [UpTo(N, n) -> S]
             /\ \A k \in UpTo(N, n) :
                  G[n][k] = IF k \in stop THEN base[k] ELSE step[k][G[n][D[k]]]
  <2>1. G[n] \in Part(n)
    BY <1>1, Zenon
  <2> QED  BY <2>1, Zenon DEF Follows
<1>3. Descends(D, N, stop)
  BY DEF Descends
<1>4. \A n \in N : \A f, g :
        /\ Follows(f, UpTo(N, n), stop, base, step, D)
        /\ Follows(g, UpTo(N, n), stop, base, step, D)
        => Agree(f, g, UpTo(N, n))
  BY <1>3, RecursionIsUnique, Zenon
<1> HIDE DEF Known
\* The functions agree where they are both defined.
<1>5. ASSUME NEW n \in Known, NEW d \in UpTo(N, n), d \in Known
      PROVE  G[d][d] = G[n][d]
  <2>1. PICK g, h : g = G[n] /\ h = G[d]
    OBVIOUS
  <2>2. n \in N /\ d \in N /\ d \in UpTo(N, d) /\ UpTo(N, d) \subseteq UpTo(N, n)
    BY <1>2, <1>5, UpToIs
  <2>3. Follows(g, UpTo(N, d), stop, base, step, D)
    BY <1>2, <2>1, <2>2, Zenon DEF Follows
  <2>4. Follows(h, UpTo(N, d), stop, base, step, D)
    BY <1>2, <1>5, <2>1, Zenon DEF Follows
  <2>5. Agree(g, h, UpTo(N, d))
    BY <1>4, <2>2, <2>3, <2>4, Zenon
  <2>6. g[d] = h[d]
    BY <2>2, <2>5, Zenon DEF Agree
  <2> QED  BY <2>1, <2>6
<1> DEFINE Value(k) == IF k \in stop THEN base[k] ELSE step[k][G[D[k]][D[k]]]
<1>6. ASSUME NEW n \in N, \A k \in N : k < n => k \in Known
      PROVE  n \in Known
  <2> DEFINE f == [k \in UpTo(N, n) |-> Value(k)]
  <2>1. \A k \in UpTo(N, n) : k \in N /\ k \in Nat /\ k <= n
    BY UpToIs
  <2>2. ASSUME NEW k \in UpTo(N, n), k \notin stop
        PROVE  D[k] \in Known /\ D[k] < n /\ D[k] \in UpTo(N, n) /\ G[D[k]][D[k]] \in S
    <3>1. D[k] \in N /\ D[k] < k /\ D[k] \in UpTo(N, n) /\ D[k] \in Nat
      BY <2>1, <2>2, UpToIs
    <3>2. D[k] < n
      BY <2>1, <3>1
    <3>3. D[k] \in Known /\ D[k] \in UpTo(N, D[k])
      BY <1>6, <3>1, <3>2, UpToIs
    <3> QED  BY <1>2, <3>1, <3>2, <3>3, Zenon
  <2>3. ASSUME NEW k \in UpTo(N, n)
        PROVE  Value(k) \in S
    BY <2>1, <2>2
  <2>4. ASSUME NEW d \in Known, d < n
        PROVE  Value(d) = G[d][d]
    <3>1. d \in N /\ d \in UpTo(N, d)
      BY <1>2, <2>4, UpToIs
    <3>2. G[d][d] = IF d \in stop THEN base[d] ELSE step[d][G[d][D[d]]]
      BY <1>2, <2>4, <3>1, Zenon
    <3>3. ASSUME d \notin stop
          PROVE  G[D[d]][D[d]] = G[d][D[d]]
      <4>1. PICK e : e = D[d]
        OBVIOUS
      <4>2. e \in N /\ e < d /\ e \in UpTo(N, d)
        BY <3>1, <3>3, <4>1, UpToIs
      <4>3. e < n
        BY <2>4, <3>1, <4>2
      <4>4. e \in Known
        BY <1>6, <4>2, <4>3
      <4>5. G[e][e] = G[d][e]
        BY <1>5, <2>4, <4>2, <4>4, Zenon
      <4> QED  BY <4>1, <4>5
    <3> QED  BY <3>2, <3>3
  <2>5. ASSUME NEW k \in UpTo(N, n)
        PROVE  f[k] = IF k \in stop THEN base[k] ELSE step[k][f[D[k]]]
    <3>1. CASE k \in stop
      BY <3>1
    <3>2. CASE k \notin stop
      <4>1. f[k] = step[k][G[D[k]][D[k]]]
        BY <3>2
      <4>2. f[D[k]] = Value(D[k])
        BY <2>2, <3>2, Zenon
      <4>3. f[D[k]] = G[D[k]][D[k]]
        BY <2>2, <2>4, <3>2, <4>2, Zenon
      <4> QED  BY <3>2, <4>1, <4>3, Zenon
    <3> QED  BY <3>1, <3>2
  <2>6. f \in [UpTo(N, n) -> S]
    BY <2>3
  <2> HIDE DEF f
  <2>7. f \in Part(n)
    BY <2>5, <2>6, Zenon DEF Follows
  <2> QED  BY <2>7, Zenon DEF Known
<1>7. \A n \in N : n \in Known
  <2> SUFFICES ASSUME N \ Known # {} PROVE FALSE
    OBVIOUS
  <2>1. PICK n \in N \ Known : \A m \in N \ Known : n <= m
    BY LeastNumber
  <2>2. \A k \in N : k < n => k \in Known
    <3>1. SUFFICES ASSUME NEW k \in N, k < n, k \notin Known PROVE FALSE
      OBVIOUS
    <3>2. n <= k /\ n \in Nat /\ k \in Nat
      BY <2>1, <3>1
    <3> QED  BY <3>1, <3>2
  <2> QED  BY <1>6, <2>1, <2>2, Zenon
<1> DEFINE f == [k \in N |-> G[k][k]]
<1>8. ASSUME NEW k \in N
      PROVE  /\ f[k] \in S
             /\ f[k] = IF k \in stop THEN base[k] ELSE step[k][f[D[k]]]
  <2>1. k \in Known /\ k \in UpTo(N, k)
    BY <1>7, UpToIs
  <2>2. G[k][k] \in S /\ G[k][k] = IF k \in stop THEN base[k] ELSE step[k][G[k][D[k]]]
    BY <1>2, <2>1, Zenon
  <2>3. ASSUME k \notin stop
        PROVE  G[k][D[k]] = f[D[k]]
    <3>1. D[k] \in N /\ D[k] < k /\ D[k] \in Known
      BY <1>7, <2>3
    <3>2. D[k] \in UpTo(N, k)
      BY <2>1, <3>1, UpToIs
    <3>3. \A d \in UpTo(N, k) : d \in Known => G[d][d] = G[k][d]
      BY <1>5, <2>1, Zenon
    <3> QED  BY <3>1, <3>2, <3>3
  <2> QED  BY <2>2, <2>3
<1> HIDE DEF f
<1>9. f \in [N -> S]
  BY <1>8 DEF f
<1> QED  BY <1>8, <1>9, Zenon DEF Follows

\* Induction up to n: what holds at 0, and after each number it holds at.
LEMMA UpwardInduction ==
    ASSUME NEW n \in Nat, NEW P, 0 \in P, \A k \in 0..(n - 1) : k \in P => k + 1 \in P
    PROVE  \A k \in 0..n : k \in P
<1> DEFINE Bad == {k \in 0..n : k \notin P}
<1> SUFFICES ASSUME Bad # {} PROVE FALSE
  OBVIOUS
<1>0. Bad \subseteq Nat
  OBVIOUS
<1>1. PICK k \in Bad : \A m \in Bad : k <= m
  BY <1>0, LeastNumber, Zenon
<1>2. k \in 1..n
  BY <1>1
<1>3. k - 1 \in 0..(n - 1) /\ k - 1 \notin Bad
  BY <1>1, <1>2
<1>4. k - 1 \in P
  BY <1>2, <1>3
<1>5. (k - 1) + 1 \in P
  BY <1>3, <1>4, Zenon
<1> QED  BY <1>1, <1>2, <1>5

\* A function that goes on from each number to the next.
Succeeds(f, n, base, step) == f[0] = base /\ \A k \in 1..n : f[k] = step[k][f[k - 1]]

LEMMA Succession ==
    ASSUME NEW n \in Nat, NEW S, NEW base \in S, NEW step, \A k \in 1..n : step[k] \in [S -> S]
    PROVE  \E f \in [0..n -> S] : Succeeds(f, n, base, step)
<1> DEFINE N == 0..n
           stop == {0}
           first == [k \in {0} |-> base]
           D == [k \in 0..n |-> k - 1]
<1>1. N \subseteq Nat
  OBVIOUS
<1>2. \A k \in N : k \in stop => first[k] \in S
  OBVIOUS
<1>3. \A k \in N : k \notin stop => step[k] \in [S -> S] /\ D[k] \in N /\ D[k] < k
  OBVIOUS
<1> HIDE DEF N, stop, first, D
<1>4. PICK f \in [N -> S] : Follows(f, N, stop, first, step, D)
  BY <1>1, <1>2, <1>3, Recursion, Zenon
<1>5. f \in [0..n -> S]
  BY DEF N
<1>6. f[0] = base
  BY <1>4 DEF Follows, N, stop, first
<1>7. ASSUME NEW k \in 1..n PROVE f[k] = step[k][f[k - 1]]
  <2>1. k \in N /\ k \notin stop /\ D[k] = k - 1
    BY DEF N, stop, D
  <2> QED  BY <1>4, <2>1, Zenon DEF Follows
<1> QED  BY <1>5, <1>6, <1>7, Zenon DEF Succeeds

-----------------------------------------------------------------------------
\* Quotient and remainder of natural numbers.
LEMMA Division ==
    ASSUME NEW n \in Nat, NEW d \in Nat, d > 0
    PROVE  /\ n \div d \in Nat /\ n % d \in 0..(d - 1)
           /\ (n \div d) * d + (n % d) = n
           /\ d > 1 /\ n > 0 => n \div d < n
           /\ n >= d => n \div d > 0
<1>1. n \div d \in Nat /\ n % d \in Nat /\ n % d < d
  BY SMT
<1>2. (n \div d) * d + (n % d) = n
  BY SMT
<1>3. PICK q \in Nat, r \in 0..(d - 1) : q = n \div d /\ r = n % d /\ q * d + r = n
  BY <1>1, <1>2
<1>4. ASSUME d > 1, n > 0, q >= n PROVE FALSE
  <2>1. PICK e \in Nat : d = 2 + e
    BY <1>4
  <2>2. q * d = 2 * q + q * e /\ q * e \in Nat
    BY <2>1, SMT
  <2> QED  BY <1>3, <1>4, <2>2
<1>5. q = 0 => q * d = 0
  BY SMT
<1> QED  BY <1>1, <1>2, <1>3, <1>4, <1>5

\* A number and a multiple of d have the quotient and the remainder that they
\* seem to have.
LEMMA DivUnique ==
    ASSUME NEW q \in Nat, NEW r \in Nat, NEW d \in Nat, r < d
    PROVE  (q * d + r) \div d = q /\ (q * d + r) % d = r
<1>1. PICK n \in Nat : n = q * d + r
  BY SMT
<1>2. PICK u \in Nat, v \in 0..(d - 1) : u = n \div d /\ v = n % d /\ u * d + v = n
  BY Division
<1>3. ~ (u < q)
  <2> SUFFICES ASSUME u < q PROVE FALSE
    OBVIOUS
  <2>1. PICK e \in Nat : q = u + 1 + e
    OBVIOUS
  <2>2. q * d = u * d + d + e * d /\ e * d \in Nat /\ u * d \in Nat
    BY <2>1, SMT
  <2> QED  BY <1>1, <1>2, <2>2
<1>4. ~ (q < u)
  <2> SUFFICES ASSUME q < u PROVE FALSE
    OBVIOUS
  <2>1. PICK e \in Nat : u = q + 1 + e
    OBVIOUS
  <2>2. u * d = q * d + d + e * d /\ e * d \in Nat /\ q * d \in Nat
    BY <2>1, SMT
  <2> QED  BY <1>1, <1>2, <2>2
<1>5. u = q
  BY <1>3, <1>4
<1>6. u * d = q * d /\ q * d \in Nat
  BY <1>5, SMT
<1>7. v = r
  BY <1>1, <1>2, <1>6
<1> QED  BY <1>1, <1>2, <1>5, <1>7
=============================================================================
