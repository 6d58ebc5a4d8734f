------------------------------ MODULE Lz77Proofs ------------------------------
(***************************************************************************)
(* What TLAPS proves of Lz77, for every list of messages, every choice of  *)
(* earlier places and every way to cut the octets into chunks.             *)
(***************************************************************************)
EXTENDS Lz77, Recursions

-----------------------------------------------------------------------------
(* The digits of a number.                                                 *)

LEMMA Parameters ==
    /\ VlqBase \in Nat /\ VlqBase > 1 /\ MinRun \in Nat /\ MinRun > 0
    /\ ShortrunMax \in Nat /\ ShortrunMax > 1
    /\ \A list \in MessageLists : list \in Seq(Seq(Octets))
BY ParametersAssumption DEF Octets

\* push_vlq_uint is what its recursion says.
LEMMA PushIs ==
    \A n \in Nat :
       push_vlq_uint[n] = IF n < VlqBase THEN <<n>>
                          ELSE <<(n % VlqBase) + VlqBase>> \o push_vlq_uint[n \div VlqBase]
<1> DEFINE S == Seq(Octets)
           Rec(f) == [n \in Nat |-> IF n < VlqBase THEN <<n>>
                                    ELSE <<(n % VlqBase) + VlqBase>> \o f[n \div VlqBase]]
<1>1. PICK base : base = [n \in Nat |-> <<n>>]
  OBVIOUS
<1>2. PICK step : step = [n \in Nat |-> [y \in S |-> <<(n % VlqBase) + VlqBase>> \o y]]
  OBVIOUS
<1>3. PICK D : D = [n \in Nat |-> n \div VlqBase]
  OBVIOUS
<1>4. PICK stop : stop = 0..(VlqBase - 1)
  OBVIOUS
<1>5. \A n \in Nat : n \notin stop => n >= VlqBase
  BY <1>4, Parameters
<1>6. ASSUME NEW n \in Nat, n \in stop PROVE base[n] \in S /\ n < VlqBase
  BY <1>1, <1>4, <1>6, Parameters DEF Octets
<1>7. ASSUME NEW n \in Nat, n \notin stop
      PROVE  step[n] \in [S -> S] /\ D[n] \in Nat /\ D[n] < n /\ ~ (n < VlqBase)
  <2>1. n >= VlqBase /\ n > 0
    BY <1>5, <1>7, Parameters
  <2>2. D[n] \in Nat /\ D[n] < n /\ n % VlqBase \in 0..(VlqBase - 1)
    BY <1>3, <2>1, Division, Parameters
  <2>3. (n % VlqBase) + VlqBase \in Octets
    BY <2>2, Parameters DEF Octets
  <2>4. ASSUME NEW y \in S PROVE <<(n % VlqBase) + VlqBase>> \o y \in S
    BY <2>3, ConcatProperties
  <2>5. step[n] = [y \in S |-> <<(n % VlqBase) + VlqBase>> \o y]
    BY <1>2
  <2>6. step[n] \in [S -> S]
    BY <2>4, <2>5
  <2> QED  BY <2>1, <2>2, <2>6, Parameters
<1> HIDE DEF S
<1>8. PICK f \in [Nat -> S] : Follows(f, Nat, stop, base, step, D)
  <2>1. Nat \subseteq Nat
    OBVIOUS
  <2>2. \A k \in Nat : k \in stop => base[k] \in S
    BY <1>6
  <2>3. \A k \in Nat : k \notin stop => step[k] \in [S -> S] /\ D[k] \in Nat /\ D[k] < k
    BY <1>7
  <2> QED  BY <2>1, <2>2, <2>3, Recursion, Zenon
<1>9. ASSUME NEW n \in Nat
      PROVE  f[n] = IF n < VlqBase THEN <<n>> ELSE <<(n % VlqBase) + VlqBase>> \o f[n \div VlqBase]
  <2>1. f[n] = IF n \in stop THEN base[n] ELSE step[n][f[D[n]]]
    BY <1>8, Zenon DEF Follows
  <2>2. CASE n \in stop
    BY <1>1, <1>6, <2>1, <2>2
  <2>3. CASE n \notin stop
    <3>1. f[D[n]] \in S
      BY <1>7, <1>8, <2>3
    <3>2. step[n][f[D[n]]] = <<(n % VlqBase) + VlqBase>> \o f[D[n]]
      BY <1>2, <3>1
    <3> QED  BY <1>3, <1>7, <2>1, <2>3, <3>2
  <2> QED  BY <2>2, <2>3
<1>10. f = Rec(f)
  BY <1>8, <1>9
<1>11. push_vlq_uint = Rec(push_vlq_uint)
  BY <1>10, Zenon DEF push_vlq_uint
<1> QED  BY <1>11

\* A number is one digit, or the last of its digits and more of them; digits
\* are octets.
LEMMA DigitsAre ==
    ASSUME NEW n \in Nat
    PROVE  /\ push_vlq_uint[n] \in Seq(Octets) /\ Len(push_vlq_uint[n]) > 0
           /\ n < VlqBase => push_vlq_uint[n] = <<n>>
           /\ n >= VlqBase =>
                push_vlq_uint[n] = <<(n % VlqBase) + VlqBase>> \o push_vlq_uint[n \div VlqBase]
<1>1. \A k \in Nat : k < VlqBase => push_vlq_uint[k] = <<k>>
  BY PushIs
<1>2. \A k \in Nat : k >= VlqBase =>
        push_vlq_uint[k] = <<(k % VlqBase) + VlqBase>> \o push_vlq_uint[k \div VlqBase]
  <2>1. \A k \in Nat : k >= VlqBase => ~ (k < VlqBase)
    BY Parameters
  <2> QED  BY <2>1, PushIs, Zenon
<1> DEFINE Odd == {k \in Nat : ~ (push_vlq_uint[k] \in Seq(Octets) /\ Len(push_vlq_uint[k]) > 0)}
<1>3. Odd = {}
  <2> SUFFICES ASSUME Odd # {} PROVE FALSE
    OBVIOUS
  <2>1. PICK k \in Odd : \A m \in Odd : k <= m
    <3>1. Odd \subseteq Nat
      OBVIOUS
    <3> HIDE DEF Odd
    <3> QED  BY <3>1, LeastNumber
  <2>2. k >= VlqBase
    <3> SUFFICES ASSUME k < VlqBase PROVE FALSE
      BY Parameters
    <3>1. push_vlq_uint[k] = <<k>> /\ k \in Octets
      BY <1>1, Parameters DEF Octets
    <3>2. <<k>> \in Seq(Octets) /\ Len(<<k>>) = 1
      BY <3>1
    <3>3. push_vlq_uint[k] \in Seq(Octets) /\ Len(push_vlq_uint[k]) = 1
      BY <3>1, <3>2, Zenon
    <3>4. Len(push_vlq_uint[k]) > 0
      BY <3>3
    <3> QED  BY <2>1, <3>3, <3>4, Zenon
  <2>3. k > 0 /\ k \div VlqBase \in Nat /\ k \div VlqBase < k /\ k % VlqBase \in 0..(VlqBase - 1)
    BY <2>2, Division, Parameters
  <2>4. PICK e \in Nat : e = k \div VlqBase
    BY <2>3
  <2>5. push_vlq_uint[e] \in Seq(Octets)
    BY <2>1, <2>3, <2>4
  <2>6. push_vlq_uint[k] = <<(k % VlqBase) + VlqBase>> \o push_vlq_uint[e]
    BY <1>2, <2>2, <2>4
  <2>7. (k % VlqBase) + VlqBase \in Octets
    BY <2>3, Parameters DEF Octets
  <2>8. <<(k % VlqBase) + VlqBase>> \in Seq(Octets) /\ Len(<<(k % VlqBase) + VlqBase>>) = 1
    BY <2>7
  <2>9. push_vlq_uint[k] \in Seq(Octets) /\ Len(push_vlq_uint[k]) = 1 + Len(push_vlq_uint[e])
    BY <2>5, <2>6, <2>8, ConcatProperties
  <2> QED  BY <2>1, <2>5, <2>9, LenProperties
<1> QED  BY <1>1, <1>2, <1>3

-----------------------------------------------------------------------------
(* Lists without what is empty in them.                                    *)

\* NotEmpty goes through the list, front to end.
LEMMA NotEmptyIs ==
    ASSUME NEW list, Len(list) \in Nat
    PROVE  \E f : /\ f[0] = <<>> /\ f[Len(list)] = NotEmpty(list)
                  /\ \A k \in 1..Len(list) :
                       f[k] = IF list[k] = <<>> THEN f[k - 1] ELSE Append(f[k - 1], list[k])
<1> DEFINE N == 0..Len(list)
           S == Seq({list[k] : k \in 1..Len(list)})
           Rec(f) == [k \in N |-> IF k = 0 THEN <<>>
                                  ELSE IF list[k] = <<>> THEN f[k - 1]
                                  ELSE Append(f[k - 1], list[k])]
<1>1. PICK base : base = [k \in N |-> <<>>]
  OBVIOUS
<1>2. PICK step : step = [k \in N |-> [y \in S |-> IF list[k] = <<>> THEN y ELSE Append(y, list[k])]]
  OBVIOUS
<1>3. PICK D : D = [k \in N |-> k - 1]
  OBVIOUS
<1>4. N \subseteq Nat
  OBVIOUS
<1>5. \A k \in N : k \in {0} => base[k] \in S
  BY <1>1
<1>6. ASSUME NEW k \in N, k \notin {0}
      PROVE  step[k] \in [S -> S] /\ D[k] \in N /\ D[k] < k
  <2>1. k \in 1..Len(list)
    BY <1>6
  <2>2. ASSUME NEW y \in S PROVE (IF list[k] = <<>> THEN y ELSE Append(y, list[k])) \in S
    BY <2>1, AppendProperties
  <2>3. step[k] = [y \in S |-> IF list[k] = <<>> THEN y ELSE Append(y, list[k])]
    BY <1>2
  <2>4. step[k] \in [S -> S]
    BY <2>2, <2>3
  <2>5. k - 1 \in N /\ k - 1 < k
    BY <2>1
  <2>6. D[k] = k - 1
    BY <1>3
  <2> QED  BY <2>4, <2>5, <2>6
<1> HIDE DEF S, N
<1>7. PICK f \in [N -> S] : Follows(f, N, {0}, base, step, D)
  <2>1. \A k \in N : k \notin {0} => step[k] \in [S -> S] /\ D[k] \in N /\ D[k] < k
    BY <1>6
  <2> QED  BY <1>4, <1>5, <2>1, Recursion, Zenon
<1>8. ASSUME NEW k \in N
      PROVE  f[k] = IF k = 0 THEN <<>> ELSE IF list[k] = <<>> THEN f[k - 1] ELSE Append(f[k - 1], list[k])
  <2>1. f[k] = IF k \in {0} THEN base[k] ELSE step[k][f[D[k]]]
    BY <1>7, Zenon DEF Follows
  <2>2. CASE k = 0
    BY <1>1, <2>1, <2>2
  <2>3. CASE k # 0
    <3>1. f[D[k]] \in S
      BY <1>6, <1>7, <2>3
    <3>2. step[k][f[D[k]]] = IF list[k] = <<>> THEN f[D[k]] ELSE Append(f[D[k]], list[k])
      BY <1>2, <3>1
    <3> QED  BY <1>3, <2>1, <2>3, <3>2
  <2> QED  BY <2>2, <2>3
<1>9. f = Rec(f)
  BY <1>7, <1>8
<1>10. PICK g : g = Rec(g) /\ NotEmpty(list) = g[Len(list)]
  BY <1>9, Zenon DEF NotEmpty, N
<1>11. \A k \in N : g[k] = IF k = 0 THEN <<>> ELSE IF list[k] = <<>> THEN g[k - 1]
                           ELSE Append(g[k - 1], list[k])
  BY <1>10, Zenon
<1>12. g[0] = <<>> /\ \A k \in 1..Len(list) :
         g[k] = IF list[k] = <<>> THEN g[k - 1] ELSE Append(g[k - 1], list[k])
  BY <1>11 DEF N
<1> QED  BY <1>10, <1>12, Zenon

\* One more at the end.
LEMMA NotEmptyAppend ==
    ASSUME NEW T, NEW list \in Seq(T), NEW x \in T
    PROVE  /\ NotEmpty(Append(list, x)) = IF x = <<>> THEN NotEmpty(list) ELSE Append(NotEmpty(list), x)
           /\ NotEmpty(<<>>) = <<>>
<1> DEFINE more == Append(list, x)
           n == Len(list)
<1>1. more \in Seq(T) /\ Len(more) = n + 1 /\ n \in Nat /\ more[n + 1] = x
      /\ \A k \in 1..n : more[k] = list[k]
  BY AppendProperties, LenProperties
<1>2. PICK f : /\ f[0] = <<>> /\ f[n] = NotEmpty(list)
               /\ \A k \in 1..n : f[k] = IF list[k] = <<>> THEN f[k - 1] ELSE Append(f[k - 1], list[k])
  BY <1>1, NotEmptyIs
<1>3. PICK g : /\ g[0] = <<>> /\ g[n + 1] = NotEmpty(more)
               /\ \A k \in 1..(n + 1) :
                    g[k] = IF more[k] = <<>> THEN g[k - 1] ELSE Append(g[k - 1], more[k])
  <2>1. Len(more) \in Nat
    BY <1>1
  <2>2. PICK g : /\ g[0] = <<>> /\ g[Len(more)] = NotEmpty(more)
                 /\ \A k \in 1..Len(more) :
                      g[k] = IF more[k] = <<>> THEN g[k - 1] ELSE Append(g[k - 1], more[k])
    BY <2>1, NotEmptyIs
  <2> QED  BY <1>1, <2>2
<1> HIDE DEF more, n
<1>4. \A k \in 0..n : f[k] = g[k]
  <2> DEFINE Bad == {k \in 0..n : f[k] # g[k]}
  <2> SUFFICES ASSUME Bad # {} PROVE FALSE
    OBVIOUS
  <2>1. PICK k \in Bad : \A m \in Bad : k <= m
    <3>1. Bad \subseteq Nat
      BY <1>1
    <3> HIDE DEF Bad
    <3> QED  BY <3>1, LeastNumber
  <2>2. k \in 1..n /\ k \in 1..(n + 1)
    BY <1>1, <1>2, <1>3, <2>1
  <2>3. f[k - 1] = g[k - 1]
    BY <1>1, <2>1, <2>2
  <2>4. more[k] = list[k]
    BY <1>1, <2>2
  <2>5. f[k] = IF list[k] = <<>> THEN f[k - 1] ELSE Append(f[k - 1], list[k])
    BY <1>2, <2>2
  <2>6. g[k] = IF more[k] = <<>> THEN g[k - 1] ELSE Append(g[k - 1], more[k])
    BY <1>3, <2>2
  <2> QED  BY <2>1, <2>3, <2>4, <2>5, <2>6
<1>5. g[n + 1] = IF x = <<>> THEN g[n] ELSE Append(g[n], x)
  <2>1. n + 1 \in 1..(n + 1) /\ (n + 1) - 1 = n
    BY <1>1
  <2> QED  BY <1>1, <1>3, <2>1
<1>6. g[n] = NotEmpty(list)
  BY <1>1, <1>2, <1>4
<1>7. NotEmpty(more) = IF x = <<>> THEN NotEmpty(list) ELSE Append(NotEmpty(list), x)
  BY <1>3, <1>5, <1>6
<1>8. NotEmpty(<<>>) = <<>>
  <2>1. Len(<<>>) = 0
    OBVIOUS
  <2>2. PICK h : h[0] = <<>> /\ h[Len(<<>>)] = NotEmpty(<<>>)
    BY <2>1, NotEmptyIs
  <2> QED  BY <2>1, <2>2
<1> QED  BY <1>7, <1>8 DEF more

\* The beginnings of a list, one longer each.
LEMMA Beginnings ==
    ASSUME NEW T, NEW list \in Seq(T)
    PROVE  /\ SubSeq(list, 1, 0) = <<>> /\ SubSeq(list, 1, Len(list)) = list
           /\ \A m \in 0..Len(list) : SubSeq(list, 1, m) \in Seq(T)
           /\ \A m \in 1..Len(list) :
                list[m] \in T /\ SubSeq(list, 1, m) = Append(SubSeq(list, 1, m - 1), list[m])
<1>1. Len(list) \in Nat /\ \A m \in 1..Len(list) : list[m] \in T
  BY ElementOfSeq, LenProperties
<1>2. SubSeq(list, 1, 0) = <<>>
  BY SubSeqProperties, EmptySeq
<1>3. SubSeq(list, 1, Len(list)) = list
  BY SubSeqFull
<1>4. \A m \in 0..Len(list) :
        /\ SubSeq(list, 1, m) \in Seq(T) /\ Len(SubSeq(list, 1, m)) = m
        /\ \A k \in 1..m : SubSeq(list, 1, m)[k] = list[k]
  BY <1>1, SubSeqProperties
<1>5. ASSUME NEW m \in 1..Len(list)
      PROVE  SubSeq(list, 1, m) = Append(SubSeq(list, 1, m - 1), list[m])
  <2>1. PICK a, b : a = SubSeq(list, 1, m) /\ b = SubSeq(list, 1, m - 1)
    OBVIOUS
  <2>2. /\ a \in Seq(T) /\ Len(a) = m /\ b \in Seq(T) /\ Len(b) = m - 1
        /\ \A k \in 1..m : a[k] = list[k]
        /\ \A k \in 1..(m - 1) : b[k] = list[k]
    <3>1. m - 1 \in 0..Len(list) /\ m \in 0..Len(list)
      BY <1>1
    <3> QED  BY <1>4, <2>1, <3>1
  <2>3. PICK c : c = Append(b, list[m])
    OBVIOUS
  <2>4. c \in Seq(T) /\ Len(c) = m /\ c[m] = list[m] /\ \A k \in 1..(m - 1) : c[k] = b[k]
    BY <1>1, <2>2, <2>3, AppendProperties
  <2>5. \A k \in 1..m : a[k] = c[k]
    BY <2>2, <2>4
  <2>6. a = c
    BY <2>2, <2>4, <2>5, SeqEqual
  <2> QED  BY <2>1, <2>3, <2>6
<1> QED  BY <1>1, <1>2, <1>3, <1>4, <1>5

\* What is not empty of a beginning is a beginning of what is not empty.
LEMMA NotEmptyPrefix ==
    ASSUME NEW T, NEW list \in Seq(T), NEW m \in 0..Len(list)
    PROVE  IsPrefix(NotEmpty(SubSeq(list, 1, m)), NotEmpty(list))
<1> DEFINE F(k) == NotEmpty(SubSeq(list, 1, k))
           Good(k) == F(k) \in Seq(T) /\ (k >= m => IsPrefix(F(m), F(k)))
           Bad == {k \in 0..Len(list) : ~ Good(k)}
<1>1. Len(list) \in Nat
  BY LenProperties
<1>2. NotEmpty(<<>>) = <<>> /\ F(0) = <<>>
  <2>1. NotEmpty(<<>>) = <<>>
    BY NotEmptyIs
  <2> QED  BY <2>1, Beginnings
<1>3. ASSUME NEW k \in 1..Len(list)
      PROVE  /\ F(k) = (IF list[k] = <<>> THEN F(k - 1) ELSE Append(F(k - 1), list[k]))
             /\ list[k] \in T
  <2>1. SubSeq(list, 1, k - 1) \in Seq(T) /\ list[k] \in T
    BY <1>1, Beginnings
  <2>2. SubSeq(list, 1, k) = Append(SubSeq(list, 1, k - 1), list[k])
    BY Beginnings
  <2>3. NotEmpty(Append(SubSeq(list, 1, k - 1), list[k])) =
          IF list[k] = <<>> THEN F(k - 1) ELSE Append(F(k - 1), list[k])
    BY <2>1, NotEmptyAppend, Zenon
  <2> QED  BY <2>1, <2>2, <2>3, Zenon
<1>4. ASSUME NEW s \in Seq(T)
      PROVE  IsPrefix(s, s) /\ \A x \in T, r \in Seq(T) : IsPrefix(r, s) => IsPrefix(r, Append(s, x))
  <2>1. IsPrefix(s, s)
    BY LenProperties DEF IsPrefix
  <2>2. ASSUME NEW x \in T, NEW r \in Seq(T), IsPrefix(r, s)
        PROVE  IsPrefix(r, Append(s, x))
    <3>1. Len(r) \in Nat /\ Len(s) \in Nat /\ Len(r) <= Len(s)
          /\ SubSeq(r, 1, Len(r)) = SubSeq(s, 1, Len(r))
      BY <2>2, LenProperties DEF IsPrefix
    <3>8. PICK c : c = Append(s, x)
      OBVIOUS
    <3>2. c \in Seq(T) /\ Len(c) = Len(s) + 1 /\ \A k \in 1..Len(s) : c[k] = s[k]
      BY <3>8, AppendProperties
    <3>3. PICK n \in Nat : n = Len(r)
      BY <3>1
    <3>4. /\ SubSeq(s, 1, n) \in Seq(T) /\ Len(SubSeq(s, 1, n)) = n
          /\ \A k \in 1..n : SubSeq(s, 1, n)[k] = s[k]
      BY <3>1, <3>3, SubSeqProperties
    <3>5. /\ SubSeq(c, 1, n) \in Seq(T) /\ Len(SubSeq(c, 1, n)) = n
          /\ \A k \in 1..n : SubSeq(c, 1, n)[k] = c[k]
      BY <3>1, <3>2, <3>3, SubSeqProperties
    <3>6. \A k \in 1..n : c[k] = s[k]
      BY <3>1, <3>2, <3>3
    <3>7. SubSeq(c, 1, n) = SubSeq(s, 1, n)
      BY <3>4, <3>5, <3>6, SeqEqual
    <3> QED  BY <3>1, <3>2, <3>3, <3>7, <3>8 DEF IsPrefix
  <2> QED  BY <2>1, <2>2
<1> HIDE DEF F
<1>5. Bad = {}
  <2> SUFFICES ASSUME Bad # {} PROVE FALSE
    OBVIOUS
  <2>1. PICK k \in Bad : \A j \in Bad : k <= j
    <3>1. Bad \subseteq Nat
      BY <1>1
    <3> HIDE DEF Bad
    <3> QED  BY <3>1, LeastNumber
  <2>2. k \in 0..Len(list) /\ ~ Good(k) /\ k \in Nat
    BY <1>1, <2>1
  <2>3. k # 0
    <3> SUFFICES ASSUME k = 0 PROVE FALSE
      OBVIOUS
    <3>3. <<>> \in Seq(T)
      OBVIOUS
    <3>1. F(k) \in Seq(T)
      BY <1>2, <3>3, Zenon
    <3>2. k >= m => k = m
      OBVIOUS
    <3> QED  BY <1>4, <2>2, <3>1, <3>2, Zenon
  <2>4. PICK j \in 0..Len(list) : j = k - 1 /\ k \in 1..Len(list) /\ Good(j)
    BY <1>1, <2>1, <2>2, <2>3
  <2>5. F(k) = (IF list[k] = <<>> THEN F(j) ELSE Append(F(j), list[k])) /\ list[k] \in T
    BY <1>3, <2>4
  <2>6. F(j) \in Seq(T)
    BY <2>4
  <2>7. F(k) \in Seq(T)
    BY <2>5, <2>6, AppendProperties
  <2>8. ASSUME k >= m PROVE IsPrefix(F(m), F(k))
    <3>1. CASE k = m
      BY <1>4, <2>7, <3>1
    <3>2. CASE k # m
      <4>1. j >= m
        BY <1>1, <2>4, <2>8, <3>2
      <4>2. IsPrefix(F(m), F(j))
        BY <2>4, <4>1
      <4>3. m \in 0..Len(list) /\ ~ (m \in Bad)
        BY <1>1, <2>1, <2>2, <2>4, <4>1
      <4>4. F(m) \in Seq(T)
        BY <4>3
      <4> QED  BY <1>4, <2>5, <2>6, <4>2, <4>4, Zenon
    <3> QED  BY <3>1, <3>2
  <2> QED  BY <2>2, <2>7, <2>8
<1>6. Good(Len(list))
  BY <1>1, <1>5
<1>7. F(Len(list)) = NotEmpty(list)
  BY Beginnings DEF F
<1> QED  BY <1>1, <1>6, <1>7 DEF F

-----------------------------------------------------------------------------
(* Numbers in what was written.                                            *)

\* The digits of n lie in w behind the place pos, up to end.
NumberAt(w, pos, n, end) ==
    /\ end = pos + Len(push_vlq_uint[n]) /\ end <= Len(w)
    /\ \A k \in 1..Len(push_vlq_uint[n]) : w[pos + k] = push_vlq_uint[n][k]

\* So does what is still to come of n, of which v has the digits before pos.
Reads(w, v, pos, n, end) == \E r \in Nat : v.num + r * v.weight = n /\ NumberAt(w, pos, r, end)

\* The octet at a place tells whether it is the last digit, and what it is.
LEMMA NumberFirst ==
    ASSUME NEW w \in Seq(Octets), NEW pos \in Nat, NEW n \in Nat, NEW end, NumberAt(w, pos, n, end)
    PROVE  /\ end \in Nat /\ pos < end /\ end <= Len(w)
           /\ w[pos + 1] < VlqBase => w[pos + 1] = n /\ n < VlqBase /\ end = pos + 1
           /\ w[pos + 1] >= VlqBase =>
                w[pos + 1] % VlqBase = n % VlqBase /\ NumberAt(w, pos + 1, n \div VlqBase, end)
<1>1. PICK s : s = push_vlq_uint[n]
  OBVIOUS
<1>2. /\ s \in Seq(Octets) /\ Len(s) \in Nat /\ Len(s) > 0
      /\ n < VlqBase => s = <<n>>
      /\ n >= VlqBase => s = <<(n % VlqBase) + VlqBase>> \o push_vlq_uint[n \div VlqBase]
  BY <1>1, DigitsAre, LenProperties, Zenon
<1>3. end = pos + Len(s) /\ end <= Len(w) /\ \A k \in 1..Len(s) : w[pos + k] = s[k]
  BY <1>1, Zenon DEF NumberAt
<1>4. Len(w) \in Nat
  BY LenProperties
<1>5. w[pos + 1] = s[1]
  BY <1>2, <1>3
<1>6. CASE n < VlqBase
  <2>1. s = <<n>>
    BY <1>2, <1>6, Zenon
  <2>2. s[1] = n /\ Len(s) = 1
    BY <2>1
  <2>3. ~ (n >= VlqBase)
    BY <1>6, Parameters
  <2> QED  BY <1>2, <1>3, <1>4, <1>5, <1>6, <2>2, <2>3
<1>7. CASE ~ (n < VlqBase)
  <2>1. n >= VlqBase /\ n \div VlqBase \in Nat /\ n % VlqBase \in 0..(VlqBase - 1)
    BY <1>7, Division, Parameters
  <2>2. PICK q \in Nat, r \in 0..(VlqBase - 1) : q = n \div VlqBase /\ r = n % VlqBase
    BY <2>1
  <2>3. PICK t : t = push_vlq_uint[q]
    OBVIOUS
  <2>4. t \in Seq(Octets) /\ Len(t) \in Nat
    BY <2>3, DigitsAre, LenProperties, Zenon
  <2>5. s = <<r + VlqBase>> \o t
    BY <1>2, <2>1, <2>2, <2>3, Zenon
  <2>6. r + VlqBase \in Octets
    BY Parameters DEF Octets
  <2>7. <<r + VlqBase>> \in Seq(Octets) /\ Len(<<r + VlqBase>>) = 1 /\ <<r + VlqBase>>[1] = r + VlqBase
    BY <2>6
  <2>8. Len(s) = 1 + Len(t) /\ s[1] = r + VlqBase /\ \A k \in 1..Len(t) : s[1 + k] = t[k]
    <3>1. PICK u : u = <<r + VlqBase>>
      OBVIOUS
    <3>2. u \in Seq(Octets) /\ Len(u) = 1 /\ u[1] = r + VlqBase
      BY <2>7, <3>1
    <3>3. s = u \o t
      BY <2>5, <3>1
    <3>4. /\ Len(s) = Len(u) + Len(t)
          /\ \A k \in 1..(Len(u) + Len(t)) : s[k] = IF k <= Len(u) THEN u[k] ELSE t[k - Len(u)]
      BY <2>4, <3>2, <3>3, ConcatProperties
    <3> QED  BY <2>4, <3>2, <3>4
  <2>9. w[pos + 1] = r + VlqBase /\ w[pos + 1] >= VlqBase /\ ~ (w[pos + 1] < VlqBase)
    BY <1>5, <2>8, Parameters
  <2>10. w[pos + 1] % VlqBase = r
    <3>1. (1 * VlqBase + r) % VlqBase = r
      BY DivUnique, Parameters
    <3>2. 1 * VlqBase + r = r + VlqBase
      BY Parameters
    <3> QED  BY <2>9, <3>1, <3>2
  <2>11. NumberAt(w, pos + 1, q, end)
    <3>1. end = (pos + 1) + Len(t)
      BY <1>3, <2>4, <2>8
    <3>2. ASSUME NEW k \in 1..Len(t) PROVE w[(pos + 1) + k] = t[k]
      <4>1. 1 + k \in 1..Len(s) /\ pos + (1 + k) = (pos + 1) + k
        BY <2>4, <2>8
      <4> QED  BY <1>3, <2>8, <4>1
    <3> QED  BY <1>3, <2>3, <3>1, <3>2, Zenon DEF NumberAt
  <2>12. end \in Nat /\ pos < end /\ end <= Len(w)
    BY <1>2, <1>3, <1>4
  <2> QED  BY <2>2, <2>9, <2>10, <2>11, <2>12, Zenon
<1> QED  BY <1>6, <1>7

\* A number is taken digit by digit.
LEMMA DigitByDigit ==
    ASSUME NEW w \in Seq(Octets), NEW pos \in Nat, NEW n \in Nat, NEW end,
           NEW v, v.num \in Nat, v.weight \in Nat, Reads(w, v, pos, n, end)
    PROVE  /\ end \in Nat /\ pos < end /\ end <= Len(w) /\ w[pos + 1] \in Octets
           /\ w[pos + 1] < VlqBase =>
                v.num + (w[pos + 1] % VlqBase) * v.weight = n /\ end = pos + 1
           /\ w[pos + 1] >= VlqBase =>
                \A x : /\ x.num = v.num + (w[pos + 1] % VlqBase) * v.weight
                       /\ x.weight = v.weight * VlqBase
                       => x.num \in Nat /\ x.weight \in Nat /\ Reads(w, x, pos + 1, n, end)
<1>1. PICK r \in Nat : v.num + r * v.weight = n /\ NumberAt(w, pos, r, end)
  BY Zenon DEF Reads
<1>2. PICK o : o = w[pos + 1]
  OBVIOUS
<1>3. /\ end \in Nat /\ pos < end /\ end <= Len(w)
      /\ o < VlqBase => o = r /\ r < VlqBase /\ end = pos + 1
      /\ o >= VlqBase => o % VlqBase = r % VlqBase /\ NumberAt(w, pos + 1, r \div VlqBase, end)
  BY <1>1, <1>2, NumberFirst, Zenon
<1>4. o \in Octets
  <2>1. pos + 1 \in 1..Len(w)
    BY <1>3, LenProperties
  <2> QED  BY <1>2, <2>1, ElementOfSeq
<1>5. o < VlqBase => o % VlqBase = o
  <2> SUFFICES ASSUME o < VlqBase PROVE o % VlqBase = o
    OBVIOUS
  <2>1. o \in Nat
    BY <1>4 DEF Octets
  <2>2. (0 * VlqBase + o) % VlqBase = o
    BY <2>1, DivUnique, Parameters
  <2>3. 0 * VlqBase + o = o
    BY <2>1, Parameters
  <2> QED  BY <2>2, <2>3
<1>6. ASSUME o >= VlqBase, NEW x, x.num = v.num + (o % VlqBase) * v.weight,
             x.weight = v.weight * VlqBase
      PROVE  x.num \in Nat /\ x.weight \in Nat /\ Reads(w, x, pos + 1, n, end)
  <2>1. PICK q \in Nat, d \in Nat : q = r \div VlqBase /\ d = r % VlqBase /\ q * VlqBase + d = r
    BY Division, Parameters
  <2>2. x.num = v.num + d * v.weight
    BY <1>3, <1>6, <2>1
  <2>3. PICK a \in Nat, b \in Nat, c \in Nat :
          a = v.num /\ b = v.weight /\ c = VlqBase
    BY Parameters
  <2>4. x.num \in Nat /\ x.weight \in Nat
    <3>1. a + d * b \in Nat /\ b * c \in Nat
      BY SMT
    <3> QED  BY <1>6, <2>2, <2>3, <3>1, Zenon
  <2>5. (a + d * b) + q * (b * c) = a + (q * c + d) * b
    BY SMT
  <2>6. x.num + q * x.weight = n
    BY <1>1, <1>6, <2>1, <2>2, <2>3, <2>5, Zenon
  <2>7. NumberAt(w, pos + 1, q, end)
    BY <1>3, <1>6, <2>1, Zenon
  <2> QED  BY <2>4, <2>6, <2>7, Zenon DEF Reads
<1> QED  BY <1>1, <1>2, <1>3, <1>4, <1>5, <1>6, Zenon

\* A number that is begun with.
LEMMA ReadsFromStart ==
    ASSUME NEW w, NEW pos, NEW n \in Nat, NEW end, NumberAt(w, pos, n, end)
    PROVE  Reads(w, NoDigits, pos, n, end)
<1>1. NoDigits.num = 0 /\ NoDigits.weight = 1
  BY DEF NoDigits
<1>2. 0 + n * 1 = n
  OBVIOUS
<1> QED  BY <1>1, <1>2, Zenon DEF Reads

\* What was written stays where it is.
LEMMA NumberStays ==
    ASSUME NEW w \in Seq(Octets), NEW s \in Seq(Octets), NEW pos \in Nat, NEW n \in Nat, NEW end,
           NumberAt(w, pos, n, end)
    PROVE  NumberAt(w \o s, pos, n, end)
<1>1. PICK x, t : x = w \o s /\ t = push_vlq_uint[n]
  OBVIOUS
<1>2. t \in Seq(Octets) /\ Len(t) \in Nat /\ Len(w) \in Nat /\ Len(s) \in Nat
  BY <1>1, DigitsAre, LenProperties, Zenon
<1>3. /\ Len(x) = Len(w) + Len(s)
      /\ \A k \in 1..(Len(w) + Len(s)) : x[k] = IF k <= Len(w) THEN w[k] ELSE s[k - Len(w)]
  BY <1>1, ConcatProperties
<1>4. end = pos + Len(t) /\ end <= Len(w) /\ \A k \in 1..Len(t) : w[pos + k] = t[k]
  BY <1>1, Zenon DEF NumberAt
<1>5. end <= Len(x)
  BY <1>2, <1>3, <1>4
<1>6. ASSUME NEW k \in 1..Len(t) PROVE x[pos + k] = t[k]
  <2>1. pos + k \in 1..(Len(w) + Len(s)) /\ pos + k <= Len(w)
    BY <1>2, <1>4
  <2> QED  BY <1>3, <1>4, <2>1
<1> QED  BY <1>1, <1>4, <1>5, <1>6, Zenon DEF NumberAt

\* A number that is written lies there.
LEMMA NumberWritten ==
    ASSUME NEW w \in Seq(Octets), NEW n \in Nat
    PROVE  /\ w \o push_vlq_uint[n] \in Seq(Octets)
           /\ Len(w \o push_vlq_uint[n]) \in Nat /\ Len(w) < Len(w \o push_vlq_uint[n])
           /\ NumberAt(w \o push_vlq_uint[n], Len(w), n, Len(w \o push_vlq_uint[n]))
<1>1. PICK x, t : x = w \o t /\ t = push_vlq_uint[n]
  OBVIOUS
<1>2. t \in Seq(Octets) /\ Len(t) > 0
  BY <1>1, DigitsAre, Zenon
<1>3. Len(t) \in Nat /\ Len(w) \in Nat
  BY <1>2, LenProperties
<1>4. /\ x \in Seq(Octets) /\ Len(x) = Len(w) + Len(t)
      /\ \A k \in 1..(Len(w) + Len(t)) : x[k] = IF k <= Len(w) THEN w[k] ELSE t[k - Len(w)]
  BY <1>1, <1>2, ConcatProperties
<1>5. ASSUME NEW k \in 1..Len(t) PROVE x[Len(w) + k] = t[k]
  <2>1. Len(w) + k \in 1..(Len(w) + Len(t)) /\ ~ (Len(w) + k <= Len(w)) /\ (Len(w) + k) - Len(w) = k
    BY <1>3
  <2> QED  BY <1>4, <2>1
<1>6. Len(x) <= Len(x) /\ Len(x) \in Nat /\ Len(w) < Len(x)
  BY <1>2, <1>3, <1>4
<1>7. NumberAt(x, Len(w), n, Len(x))
  BY <1>1, <1>4, <1>5, <1>6, Zenon DEF NumberAt
<1> QED  BY <1>1, <1>4, <1>6, <1>7, Zenon

-----------------------------------------------------------------------------
(* Runs.                                                                   *)

\* Behind the place at, run elements of s are those that lie offset before them.
Recurs(s, at, offset, run) == \A k \in 1..run : s[at + k] = s[at - offset + k]

\* Two places have a length in common.
InCommon(s, a, b, n) ==
    /\ \A k \in 1..n : s[a + k] = s[b + k]
    /\ a + n = Len(s) \/ s[a + n + 1] # s[b + n + 1]

LEMMA CommonLength ==
    ASSUME NEW s, Len(s) \in Nat, NEW a \in 0..Len(s), NEW b \in Nat
    PROVE  \E n \in 0..(Len(s) - a) : InCommon(s, a, b, n)
<1> SUFFICES \E n \in 0..(Len(s) - a) :
               /\ \A k \in 1..n : s[a + k] = s[b + k]
               /\ a + n = Len(s) \/ s[a + n + 1] # s[b + n + 1]
  BY Zenon DEF InCommon
<1> DEFINE T == {n \in 0..(Len(s) - a) : a + n = Len(s) \/ s[a + n + 1] # s[b + n + 1]}
<1>1. T \subseteq Nat
  OBVIOUS
<1>2. Len(s) - a \in T
  OBVIOUS
<1>3. PICK n \in T : \A m \in T : n <= m
  <2> HIDE DEF T
  <2> QED  BY <1>1, <1>2, LeastNumber
<1>4. ASSUME NEW k \in 1..n PROVE s[a + k] = s[b + k]
  <2>1. PICK m \in Nat : m = k - 1
    BY <1>3
  <2>2. m \in 0..(Len(s) - a) /\ ~ (n <= m)
    BY <1>3, <2>1
  <2>3. s[a + m + 1] = s[b + m + 1]
    BY <1>3, <2>2
  <2>4. a + m + 1 = a + k /\ b + m + 1 = b + k
    BY <2>1, <1>3
  <2> QED  BY <2>3, <2>4
<1> QED  BY <1>3, <1>4

\* Octet by octet, a run comes out that reaches into itself.
LEMMA RepeatIs ==
    ASSUME NEW M \in Seq(Octets), NEW s \in Seq(Octets), NEW run \in Nat,
           NEW offset \in Nat, offset > 0, offset <= Len(s), Len(s) + run <= Len(M), \A k \in 1..Len(s) : s[k] = M[k],
           Recurs(M, Len(s), offset, run)
    PROVE  /\ Repeat(s, offset, run) \in Seq(Octets)
           /\ Len(Repeat(s, offset, run)) = Len(s) + run
           /\ \A k \in 1..(Len(s) + run) : Repeat(s, offset, run)[k] = M[k]
<1>1. PICK l \in Nat : l = Len(s)
  BY LenProperties
<1>2. Len(M) \in Nat /\ \A k \in 1..Len(M) : M[k] \in Octets
  BY LenProperties, ElementOfSeq
<1>3. offset \in Nat /\ offset > 0 /\ offset <= l
  BY <1>1
<1> DEFINE Back(k) == s[l - offset + 1 + ((k - 1) % offset)]
           Bad == {k \in 1..run : Back(k) # M[l + k]}
<1>4. Bad = {}
  <2> SUFFICES ASSUME Bad # {} PROVE FALSE
    OBVIOUS
  <2>1. PICK k \in Bad : \A j \in Bad : k <= j
    <3>1. Bad \subseteq Nat
      OBVIOUS
    <3> HIDE DEF Bad
    <3> QED  BY <3>1, LeastNumber
  <2>2. k \in 1..run /\ Back(k) # M[l + k]
    BY <2>1
  <2>3. M[l + k] = M[l - offset + k]
    BY <1>1, <2>2 DEF Recurs
  <2>4. CASE k <= offset
    <3>1. PICK m \in Nat : m = k - 1 /\ m < offset
      BY <2>2, <2>4
    <3>2. m % offset = m
      <4>1. (0 * offset + m) % offset = m
        <5>1. 0 \in Nat /\ m < offset
          BY <3>1
        <5> QED  BY <5>1, DivUnique
      <4>2. 0 * offset + m = m
        BY <1>3
      <4> QED  BY <4>1, <4>2
    <3>3. Back(k) = s[l - offset + 1 + m]
      BY <3>1, <3>2
    <3>4. l - offset + 1 + m = l - offset + k /\ l - offset + k \in 1..l
      BY <1>3, <2>2, <2>4, <3>1
    <3> QED  BY <1>1, <2>2, <2>3, <3>3, <3>4
  <2>5. CASE k > offset
    <3>1. PICK m \in Nat : m = k - offset - 1
      BY <1>3, <2>2, <2>5
    <3>2. PICK j \in 1..run : j = k - offset /\ j < k /\ j - 1 = m /\ k - 1 = m + offset
      BY <1>3, <2>2, <2>5, <3>1
    <3>3. Back(j) = M[l + j]
      <4>1. ~ (j \in Bad)
        <5>1. ~ (k <= j)
          BY <2>2, <3>2
        <5> QED  BY <2>1, <5>1, Zenon
      <4> QED  BY <4>1
    <3>4. (m + offset) % offset = m % offset
      <4>1. PICK q \in Nat, r \in 0..(offset - 1) : r = m % offset /\ q * offset + r = m
        <5>1. m \div offset \in Nat /\ m % offset \in 0..(offset - 1)
              /\ (m \div offset) * offset + (m % offset) = m
          BY <1>3, Division
        <5> QED  BY <5>1, Zenon
      <4>2. ((q + 1) * offset + r) % offset = r
        <5>1. q + 1 \in Nat /\ r \in Nat /\ r < offset
          BY <1>3, <4>1
        <5> QED  BY <1>3, <5>1, DivUnique
      <4>3. (q + 1) * offset + r = (q * offset + r) + offset
        BY <1>3, <4>1, SMT
      <4> QED  BY <4>1, <4>2, <4>3
    <3>5. Back(k) = Back(j)
      BY <3>2, <3>4, Zenon
    <3>6. l + j = l - offset + k
      BY <1>3, <3>2
    <3> QED  BY <2>2, <2>3, <3>3, <3>5, <3>6, Zenon
  <2> QED  BY <1>3, <2>2, <2>4, <2>5
<1>5. \A k \in 1..run : Back(k) = M[l + k]
  BY <1>4
<1>6. PICK t : t = [k \in 1..run |-> Back(k)]
  OBVIOUS
<1>7. PICK x : x = s \o t
  OBVIOUS
<1>8. Repeat(s, offset, run) = x
  <2>1. offset # 0
    BY <1>3
  <2>2. Repeat(s, offset, run) =
          s \o [k \in 1..run |-> IF offset = 0 THEN 0 ELSE s[Len(s) - offset + 1 + ((k - 1) % offset)]]
    BY Zenon DEF Repeat
  <2>3. [k \in 1..run |-> IF offset = 0 THEN 0 ELSE s[Len(s) - offset + 1 + ((k - 1) % offset)]]
          = [k \in 1..run |-> Back(k)]
    BY <1>1, <2>1
  <2> QED  BY <1>6, <1>7, <2>2, <2>3, Zenon
<1> HIDE DEF Back
<1>9. ASSUME NEW k \in 1..run PROVE t[k] = M[l + k] /\ t[k] \in Octets /\ l + k \in 1..Len(M)
  <2>1. l + k \in 1..Len(M)
    BY <1>1, <1>2
  <2> QED  BY <1>2, <1>5, <1>6, <2>1
<1>10. t \in Seq(Octets) /\ Len(t) = run
  <2>1. t \in [1..run -> Octets]
    BY <1>6, <1>9
  <2> QED  BY <2>1, SeqDef, LenProperties
<1>11. /\ x \in Seq(Octets) /\ Len(x) = l + run
       /\ \A k \in 1..(l + run) : x[k] = IF k <= l THEN s[k] ELSE t[k - l]
  BY <1>1, <1>7, <1>10, ConcatProperties
<1>12. ASSUME NEW k \in 1..(l + run) PROVE x[k] = M[k]
  <2>1. CASE k <= l
    <3>1. k \in 1..Len(s)
      BY <1>1, <2>1
    <3> QED  BY <1>11, <2>1, <3>1
  <2>2. CASE ~ (k <= l)
    <3>1. PICK j \in 1..run : j = k - l /\ l + j = k
      BY <2>2
    <3> QED  BY <1>9, <1>11, <2>2, <3>1
  <2> QED  BY <2>1, <2>2
<1> QED  BY <1>1, <1>8, <1>11, <1>12
-----------------------------------------------------------------------------
(* What was written so far, as a trail: points in the octets, each with the *)
(* message and the place in it that it stands for, and between two points   *)
(* the size of a message or a packet.  e has wire, messages and packing,    *)
(* and done, the octets of the current message that are in packets.         *)

Length(e, m) == IF m = 0 THEN 0 ELSE Len(e.messages[m])

StartPoint == [at |-> 0, of |-> 0, done |-> 0]
EndPoint(e) == [at |-> Len(e.wire), of |-> e.packing, done |-> e.done]

WellWritten(e) ==
    /\ e.wire \in Seq(Octets) /\ e.messages \in Seq(Seq(Octets))
    /\ e.packing \in 0..Len(e.messages)
    /\ e.done \in 0..Length(e, e.packing)

IsPoint(e, p) ==
    /\ p.at \in 0..Len(e.wire) /\ p.of \in 0..e.packing /\ p.done \in 0..Length(e, p.of)

Complete(e, p) == p.done = Length(e, p.of)

\* Behind mid lie n octets of the message, up to q.
Data(e, done, q, n, mid) ==
    /\ n > 0 /\ q.done = done + n /\ q.at = mid + n
    /\ \A k \in 1..n : e.wire[mid + k] = e.messages[q.of][done + k]

\* From done to q the message is a run, offset behind what it repeats.
Run(e, done, q, offset, code) ==
    /\ offset > 0 /\ offset <= done /\ code > 0
    /\ q.done = done + (code + MinRun - 1)
    /\ Recurs(e.messages[q.of], done, offset, code + MinRun - 1)

\* The head n of a packet to q ends at mid.
Packet(e, done, q, n, mid) ==
    \/ \E l \in Nat : n = 2 * l + 1 /\ Data(e, done, q, l, mid)
    \/ \E offset, code \in Nat :
          /\ Run(e, done, q, offset, code)
          /\ \/ /\ code < ShortrunMax /\ q.at = mid
                /\ n = 2 * (offset * ShortrunMax + code)
             \/ /\ code >= ShortrunMax /\ NumberAt(e.wire, mid, code, q.at)
                /\ n = 2 * (offset * ShortrunMax)

SizeStep(e, p, q) ==
    /\ Complete(e, p) /\ q.of = p.of + 1 /\ q.done = 0
    /\ NumberAt(e.wire, p.at, Length(e, q.of), q.at)

PacketStep(e, p, q) ==
    /\ q.of = p.of
    /\ \E n, mid \in Nat : NumberAt(e.wire, p.at, n, mid) /\ Packet(e, p.done, q, n, mid)

GoesOn(e, p, q) == SizeStep(e, p, q) \/ PacketStep(e, p, q)

Trail(e, U) ==
    /\ StartPoint \in U /\ EndPoint(e) \in U
    /\ \A p \in U : IsPoint(e, p) /\ (p = EndPoint(e) \/ \E q \in U : GoesOn(e, p, q))

LEMMA LengthIs ==
    ASSUME NEW e, WellWritten(e)
    PROVE  /\ Len(e.wire) \in Nat /\ Len(e.messages) \in Nat /\ e.packing \in Nat
           /\ \A m \in 0..Len(e.messages) : Length(e, m) \in Nat
           /\ \A m \in 1..Len(e.messages) :
                /\ e.messages[m] \in Seq(Octets) /\ Length(e, m) = Len(e.messages[m])
           /\ Length(e, 0) = 0
<1>1. Len(e.wire) \in Nat /\ Len(e.messages) \in Nat
  BY LenProperties DEF WellWritten
<1>2. \A m \in 1..Len(e.messages) : e.messages[m] \in Seq(Octets)
  BY ElementOfSeq DEF WellWritten
<1>3. \A m \in 1..Len(e.messages) : Length(e, m) = Len(e.messages[m]) /\ Len(e.messages[m]) \in Nat
  BY <1>1, <1>2, LenProperties DEF Length
<1>4. Length(e, 0) = 0
  BY DEF Length
<1>5. e.packing \in Nat
  BY <1>1 DEF WellWritten
<1>6. \A m \in 0..Len(e.messages) : Length(e, m) \in Nat
  <2> TAKE m \in 0..Len(e.messages)
  <2>1. m = 0 \/ m \in 1..Len(e.messages)
    BY <1>1
  <2>2. Length(e, m) = 0 \/ Length(e, m) \in Nat
    BY <1>3, <1>4, <2>1, Zenon
  <2> QED  BY <2>2
<1> QED  BY <1>1, <1>2, <1>3, <1>4, <1>5, <1>6, Zenon

\* Between points, a size follows what is complete and a packet what is not.
LEMMA StepIs ==
    ASSUME NEW e, WellWritten(e), NEW p, NEW q, IsPoint(e, p), IsPoint(e, q)
    PROVE  /\ Complete(e, p) /\ GoesOn(e, p, q) => SizeStep(e, p, q)
           /\ ~ Complete(e, p) /\ GoesOn(e, p, q) => PacketStep(e, p, q)
           /\ p.at \in Nat /\ p.of \in Nat /\ p.done \in Nat /\ p.of \in 0..Len(e.messages)
           /\ p.at <= Len(e.wire) /\ p.done <= Length(e, p.of) /\ Length(e, p.of) \in Nat
<1>1. /\ p.at \in Nat /\ p.of \in Nat /\ p.done \in Nat /\ p.of \in 0..Len(e.messages)
      /\ p.at <= Len(e.wire) /\ p.done <= Length(e, p.of)
  BY LengthIs DEF IsPoint, WellWritten
<1>2. Length(e, p.of) \in Nat
  BY <1>1, LengthIs
<1>3. ASSUME Complete(e, p), PacketStep(e, p, q) PROVE FALSE
  <2>1. q.of = p.of /\ \E n, mid \in Nat : Packet(e, p.done, q, n, mid)
    BY <1>3, Zenon DEF PacketStep
  <2>2. q.done \in Nat /\ q.done <= Length(e, p.of)
    BY <1>2, <2>1 DEF IsPoint
  <2>3. PICK n, mid \in Nat : Packet(e, p.done, q, n, mid)
    BY <2>1
  <2>4. q.done > p.done
    <3>1. CASE \E l \in Nat : Data(e, p.done, q, l, mid)
      BY <1>1, <3>1 DEF Data
    <3>2. CASE \E offset, code \in Nat : Run(e, p.done, q, offset, code)
      BY <1>1, <3>2, Parameters DEF Run
    <3> QED  BY <2>3, <3>1, <3>2, Zenon DEF Packet
  <2> QED  BY <1>1, <1>2, <1>3, <2>2, <2>4 DEF Complete
<1> QED  BY <1>1, <1>2, <1>3, Zenon DEF GoesOn, SizeStep

\* e2 has more octets than e, and the same messages.
Longer(e, e2, s) ==
    /\ s \in Seq(Octets) /\ e2.wire = e.wire \o s /\ e2.messages = e.messages
    /\ e.packing <= e2.packing

LEMMA StepStays ==
    ASSUME NEW e, NEW e2, NEW s, WellWritten(e), WellWritten(e2), Longer(e, e2, s),
           NEW p, NEW q, IsPoint(e, p), IsPoint(e, q)
    PROVE  /\ IsPoint(e2, p)
           /\ GoesOn(e, p, q) => GoesOn(e2, p, q)
<1>1. /\ e.wire \in Seq(Octets) /\ s \in Seq(Octets) /\ e2.wire = e.wire \o s
      /\ e2.messages = e.messages
  BY Zenon DEF WellWritten, Longer
<1>2. /\ Len(e2.wire) = Len(e.wire) + Len(s) /\ Len(e.wire) \in Nat /\ Len(s) \in Nat
      /\ \A k \in 1..Len(e.wire) : e2.wire[k] = e.wire[k]
  <2>1. PICK w, x : w \in Seq(Octets) /\ w = e.wire /\ x = e2.wire /\ x = w \o s
    BY <1>1
  <2>2. Len(x) = Len(w) + Len(s) /\ \A k \in 1..(Len(w) + Len(s)) : x[k] = IF k <= Len(w) THEN w[k] ELSE s[k - Len(w)]
    BY <1>1, <2>1, ConcatProperties
  <2>3. Len(w) \in Nat /\ Len(s) \in Nat
    BY <1>1, LenProperties
  <2>4. \A k \in 1..Len(w) : x[k] = w[k]
    BY <2>2, <2>3
  <2> QED  BY <2>1, <2>2, <2>3, <2>4
<1>3. \A m : Length(e2, m) = Length(e, m)
  BY <1>1 DEF Length
<1>4. IsPoint(e2, p)
  <2>1. p.at \in 0..Len(e.wire) /\ p.of \in 0..e.packing /\ p.done \in 0..Length(e2, p.of)
    BY <1>3, Zenon DEF IsPoint
  <2>2. e.packing \in Nat /\ e2.packing \in Nat /\ e.packing <= e2.packing
    BY LengthIs DEF Longer
  <2>3. p.at \in 0..Len(e2.wire)
    BY <1>2, <2>1
  <2>4. p.of \in 0..e2.packing
    BY <2>1, <2>2
  <2> QED  BY <2>1, <2>3, <2>4, Zenon DEF IsPoint
<1>5. \A pos, n \in Nat : \A end : NumberAt(e.wire, pos, n, end) => NumberAt(e2.wire, pos, n, end)
  BY <1>1, NumberStays, Zenon
<1>6. p.at \in Nat /\ p.done \in Nat /\ q.at \in Nat /\ q.at <= Len(e.wire) /\ q.of \in 0..Len(e.messages)
  BY StepIs
<1>7. ASSUME SizeStep(e, p, q) PROVE SizeStep(e2, p, q)
  <2>1. Length(e, q.of) \in Nat
    BY <1>6, LengthIs
  <2>2. NumberAt(e2.wire, p.at, Length(e2, q.of), q.at)
    BY <1>3, <1>5, <1>6, <1>7, <2>1, Zenon DEF SizeStep
  <2> QED  BY <1>3, <1>7, <2>2, Zenon DEF SizeStep, Complete
<1>8. \A l, mid \in Nat : Data(e, p.done, q, l, mid) => Data(e2, p.done, q, l, mid)
  <2> SUFFICES ASSUME NEW l \in Nat, NEW mid \in Nat, Data(e, p.done, q, l, mid)
               PROVE  Data(e2, p.done, q, l, mid)
    OBVIOUS
  <2>1. q.at = mid + l /\ \A k \in 1..l : e.wire[mid + k] = e.messages[q.of][p.done + k]
    BY Zenon DEF Data
  <2>2. \A k \in 1..l : mid + k \in 1..Len(e.wire)
    BY <1>2, <1>6, <2>1
  <2>3. \A k \in 1..l : e2.wire[mid + k] = e2.messages[q.of][p.done + k]
    BY <1>1, <1>2, <2>1, <2>2, Zenon
  <2> QED  BY <2>3, Zenon DEF Data
<1>9. \A offset, code : Run(e, p.done, q, offset, code) => Run(e2, p.done, q, offset, code)
  BY <1>1, Zenon DEF Run
<1>10. \A n, mid \in Nat : Packet(e, p.done, q, n, mid) => Packet(e2, p.done, q, n, mid)
  BY <1>5, <1>8, <1>9, Zenon DEF Packet
<1>11. ASSUME PacketStep(e, p, q) PROVE PacketStep(e2, p, q)
  BY <1>5, <1>6, <1>10, <1>11, Zenon DEF PacketStep
<1> QED  BY <1>4, <1>7, <1>11, Zenon DEF GoesOn

\* The trail goes on with what is written.
LEMMA TrailGoesOn ==
    ASSUME NEW e, NEW e2, NEW s, WellWritten(e), WellWritten(e2), Longer(e, e2, s),
           GoesOn(e2, EndPoint(e), EndPoint(e2)), NEW U, Trail(e, U)
    PROVE  Trail(e2, U \cup {EndPoint(e2)})
<1>1. PICK a, b : a = EndPoint(e) /\ b = EndPoint(e2)
  OBVIOUS
<1>2. IsPoint(e2, b)
  <2>1. b.at = Len(e2.wire) /\ b.of = e2.packing /\ b.done = e2.done
    BY <1>1 DEF EndPoint
  <2>2. b.at \in 0..Len(e2.wire) /\ b.of \in 0..e2.packing
    BY <2>1, LengthIs
  <2> QED  BY <2>1, <2>2, Zenon DEF IsPoint, WellWritten
<1>3. /\ StartPoint \in U /\ a \in U
      /\ \A p \in U : IsPoint(e, p) /\ (p = a \/ \E q \in U : GoesOn(e, p, q))
  BY <1>1, Zenon DEF Trail
<1>4. \A p, q \in U : IsPoint(e2, p) /\ (GoesOn(e, p, q) => GoesOn(e2, p, q))
  BY <1>3, StepStays, Zenon
<1>5. GoesOn(e2, a, b)
  BY <1>1
<1>6. PICK V : V = U \cup {b}
  OBVIOUS
<1>7. StartPoint \in V /\ b \in V /\ \A p \in U : p \in V
  BY <1>3, <1>6
<1>8. \A p \in U : IsPoint(e2, p)
  BY <1>4, Zenon
<1>9. \A p \in V : IsPoint(e2, p)
  BY <1>2, <1>6, <1>8
<1>10. \A p \in U : \E q \in V : GoesOn(e2, p, q)
  BY <1>3, <1>4, <1>5, <1>7, Zenon
<1>11. \A p \in V : p = b \/ \E q \in V : GoesOn(e2, p, q)
  BY <1>6, <1>10
<1>12. Trail(e2, V)
  BY <1>1, <1>7, <1>9, <1>11, Zenon DEF Trail
<1> QED  BY <1>1, <1>6, <1>12

\* Nothing is written yet.
LEMMA TrailBegins ==
    ASSUME NEW e, WellWritten(e), e.wire = <<>>, e.packing = 0, e.done = 0
    PROVE  Trail(e, {StartPoint})
<1>1. EndPoint(e) = StartPoint
  BY EmptySeq DEF EndPoint, StartPoint
<1>2. IsPoint(e, StartPoint)
  BY EmptySeq DEF IsPoint, StartPoint, Length
<1> QED  BY <1>1, <1>2 DEF Trail
-----------------------------------------------------------------------------
(* What the compressor writes goes on the trail.                           *)

OnTrail(e) == WellWritten(e) /\ \E U : Trail(e, U)

\* What is written of a number lies there, with more octets behind it or none.
LEMMA NumberLies ==
    ASSUME NEW w \in Seq(Octets), NEW n \in Nat, NEW s \in Seq(Octets)
    PROVE  /\ push_vlq_uint[n] \o s \in Seq(Octets) /\ w \o (push_vlq_uint[n] \o s) \in Seq(Octets)
           /\ \E mid \in Nat :
                /\ NumberAt(w \o (push_vlq_uint[n] \o s), Len(w), n, mid)
                /\ Len(w \o (push_vlq_uint[n] \o s)) = mid + Len(s)
                /\ \A k \in 1..Len(s) : (w \o (push_vlq_uint[n] \o s))[mid + k] = s[k]
                /\ mid = Len(w \o push_vlq_uint[n])
                /\ w \o (push_vlq_uint[n] \o s) = (w \o push_vlq_uint[n]) \o s
<1>1. PICK t, x, y, z : t = push_vlq_uint[n] /\ x = w \o t /\ y = t \o s /\ z = w \o y
  OBVIOUS
<1>2. t \in Seq(Octets) /\ Len(w) \in Nat /\ Len(s) \in Nat
  BY <1>1, DigitsAre, LenProperties, Zenon
<1>3. x \in Seq(Octets) /\ Len(x) \in Nat
  BY <1>1, <1>2, ConcatProperties, LenProperties
<1>4. y \in Seq(Octets) /\ z \in Seq(Octets)
  BY <1>1, <1>2, ConcatProperties
<1>5. z = x \o s
  <2>1. (w \o t) \o s = w \o (t \o s)
    <3>1. w \in Seq(Octets) /\ t \in Seq(Octets) /\ s \in Seq(Octets)
      BY <1>2
    <3> QED  BY <3>1, ConcatAssociative
  <2> QED  BY <1>1, <2>1
<1>6. /\ Len(z) = Len(x) + Len(s)
      /\ \A k \in 1..(Len(x) + Len(s)) : z[k] = IF k <= Len(x) THEN x[k] ELSE s[k - Len(x)]
  BY <1>3, <1>5, ConcatProperties, Zenon
<1>7. PICK mid \in Nat : mid = Len(x)
  BY <1>3
<1>8. NumberAt(x, Len(w), n, mid)
  BY <1>1, <1>7, NumberWritten, Zenon
<1>9. NumberAt(z, Len(w), n, mid)
  BY <1>2, <1>3, <1>5, <1>8, NumberStays, Zenon
<1>10. ASSUME NEW k \in 1..Len(s) PROVE z[mid + k] = s[k]
  <2>1. mid + k \in 1..(Len(x) + Len(s)) /\ ~ (mid + k <= Len(x)) /\ (mid + k) - Len(x) = k
    BY <1>2, <1>7
  <2> QED  BY <1>6, <2>1
<1>11. Len(z) = mid + Len(s)
  BY <1>6, <1>7
<1> QED  BY <1>1, <1>4, <1>5, <1>7, <1>9, <1>10, <1>11, Zenon

\* One step after the end of the trail is enough.
LEMMA OneMore ==
    ASSUME NEW e, NEW e2, NEW s, OnTrail(e), WellWritten(e2), Longer(e, e2, s),
           GoesOn(e2, EndPoint(e), EndPoint(e2))
    PROVE  OnTrail(e2)
<1>1. PICK U : Trail(e, U)
  BY DEF OnTrail
<1>2. Trail(e2, U \cup {EndPoint(e2)})
  BY <1>1, TrailGoesOn, Zenon DEF OnTrail
<1> QED  BY <1>2, Zenon DEF OnTrail

\* The size of the next message.
LEMMA SizeWritten ==
    ASSUME NEW e, NEW e2, OnTrail(e),
           e.done = Length(e, e.packing), e.packing < Len(e.messages),
           e2.packing = e.packing + 1, e2.messages = e.messages, e2.done = 0,
           e2.wire = e.wire \o push_vlq_uint[Len(e.messages[e.packing + 1])]
    PROVE  OnTrail(e2)
<1>1. WellWritten(e)
  BY DEF OnTrail
<1>2. /\ e.packing \in Nat /\ e.packing + 1 \in 1..Len(e.messages) /\ Len(e.messages) \in Nat
      /\ e.wire \in Seq(Octets)
  BY <1>1, LengthIs DEF WellWritten
<1>3. PICK n \in Nat : n = Len(e.messages[e.packing + 1]) /\ n = Length(e2, e2.packing)
  <2>1. Len(e.messages[e.packing + 1]) = Length(e, e.packing + 1) /\ Length(e, e.packing + 1) \in Nat
    BY <1>1, <1>2, LengthIs
  <2>2. Length(e2, e2.packing) = Length(e, e.packing + 1)
    BY DEF Length
  <2> QED  BY <2>1, <2>2
<1>4. PICK s : s = push_vlq_uint[n]
  OBVIOUS
<1>5. s \in Seq(Octets) /\ e2.wire = e.wire \o s
  BY <1>3, <1>4, DigitsAre, Zenon
<1>6. e2.wire \in Seq(Octets) /\ NumberAt(e2.wire, Len(e.wire), n, Len(e2.wire))
  BY <1>2, <1>3, <1>4, <1>5, NumberWritten, Zenon
<1>7. e2.packing \in 0..Len(e2.messages) /\ e2.done \in 0..Length(e2, e2.packing)
      /\ e.packing <= e2.packing
  BY <1>2, <1>3
<1>8. WellWritten(e2)
  BY <1>1, <1>6, <1>7, Zenon DEF WellWritten
<1>9. Longer(e, e2, s)
  BY <1>5, <1>7, Zenon DEF Longer
<1>10. PICK a, b : a = EndPoint(e) /\ b = EndPoint(e2)
  OBVIOUS
<1>11. a.at = Len(e.wire) /\ a.of = e.packing /\ a.done = e.done
       /\ b.at = Len(e2.wire) /\ b.of = e2.packing /\ b.done = e2.done
  BY <1>10 DEF EndPoint
<1>12. Complete(e2, a)
  BY <1>11 DEF Complete, Length
<1>13. SizeStep(e2, a, b)
  BY <1>3, <1>6, <1>11, <1>12 DEF SizeStep
<1> QED  BY <1>8, <1>9, <1>10, <1>13, OneMore, Zenon DEF GoesOn

\* A packet of uncompressed data.
LEMMA DataWritten ==
    ASSUME NEW e, NEW e2, OnTrail(e), NEW u \in Seq(Octets), u # <<>>,
           e.done + Len(u) <= Length(e, e.packing),
           \A k \in 1..Len(u) : u[k] = e.messages[e.packing][e.done + k],
           e2.packing = e.packing, e2.messages = e.messages, e2.done = e.done + Len(u),
           e2.wire = e.wire \o DataPacket(u)
    PROVE  OnTrail(e2)
<1>1. WellWritten(e) /\ Length(e, e.packing) \in Nat /\ e.done \in Nat /\ e.packing \in Nat
  BY LengthIs DEF OnTrail, WellWritten
<1>2. PICK n \in Nat : n = Len(u) /\ n > 0 /\ 2 * n + 1 \in Nat
  BY LenProperties, EmptySeq
<1>3. PICK s : s = DataPacket(u)
  OBVIOUS
<1>4. s = push_vlq_uint[2 * n + 1] \o u
  BY <1>2, <1>3 DEF DataPacket
<1>5. e.wire \in Seq(Octets)
  BY <1>1 DEF WellWritten
<1>6. PICK w, x : w = e.wire /\ x = e2.wire /\ x = w \o s
  BY <1>3
<1>7. s \in Seq(Octets) /\ x \in Seq(Octets) /\ \E mid \in Nat :
        /\ NumberAt(x, Len(w), 2 * n + 1, mid) /\ Len(x) = mid + Len(u)
        /\ \A k \in 1..Len(u) : x[mid + k] = u[k]
  <2>1. PICK h \in Nat : h = 2 * n + 1
    BY <1>2
  <2>2. w \in Seq(Octets) /\ s = push_vlq_uint[h] \o u /\ x = w \o s
    BY <1>4, <1>5, <1>6, <2>1
  <2>3. push_vlq_uint[h] \o u \in Seq(Octets) /\ w \o (push_vlq_uint[h] \o u) \in Seq(Octets)
        /\ \E mid \in Nat :
             /\ NumberAt(w \o (push_vlq_uint[h] \o u), Len(w), h, mid)
             /\ Len(w \o (push_vlq_uint[h] \o u)) = mid + Len(u)
             /\ \A k \in 1..Len(u) : (w \o (push_vlq_uint[h] \o u))[mid + k] = u[k]
    BY <2>2, NumberLies, ZenonT(40)
  <2> QED  BY <2>1, <2>2, <2>3, Zenon
<1>8. PICK mid \in Nat :
        /\ NumberAt(x, Len(w), 2 * n + 1, mid) /\ Len(x) = mid + n
        /\ \A k \in 1..n : x[mid + k] = u[k]
  BY <1>2, <1>7
<1>9. Length(e2, e2.packing) = Length(e, e.packing)
  BY DEF Length
<1>10. e2.done \in 0..Length(e2, e2.packing) /\ e2.done = e.done + n /\ e.packing <= e2.packing
  BY <1>1, <1>2, <1>9
<1>11. WellWritten(e2)
  BY <1>1, <1>6, <1>7, <1>10, Zenon DEF WellWritten
<1>12. Longer(e, e2, s)
  BY <1>6, <1>7, <1>10, Zenon DEF Longer
<1>13. PICK a, b : a = EndPoint(e) /\ b = EndPoint(e2)
  OBVIOUS
<1>14. a.at = Len(w) /\ a.of = e.packing /\ a.done = e.done
       /\ b.at = Len(x) /\ b.of = e.packing /\ b.done = e.done + n
  BY <1>6, <1>10, <1>13 DEF EndPoint
<1>15. \A k \in 1..n : x[mid + k] = e2.messages[b.of][e.done + k]
  BY <1>2, <1>8, <1>14
<1>16. Data(e2, a.done, b, n, mid)
  BY <1>2, <1>6, <1>8, <1>14, <1>15, Zenon DEF Data
<1>17. PacketStep(e2, a, b)
  <2>1. Packet(e2, a.done, b, 2 * n + 1, mid)
    BY <1>16, Zenon DEF Packet
  <2>2. NumberAt(e2.wire, a.at, 2 * n + 1, mid)
    BY <1>6, <1>8, <1>14, Zenon
  <2> QED  BY <1>2, <1>14, <2>1, <2>2, Zenon DEF PacketStep
<1> QED  BY <1>11, <1>12, <1>13, <1>17, OneMore, Zenon DEF GoesOn

\* A run, with its length beside its offset or behind it.
LEMMA RunWritten ==
    ASSUME NEW e, NEW e2, OnTrail(e), NEW offset \in Nat, NEW run \in Nat,
           offset > 0, offset <= e.done, run >= MinRun,
           e.done + run <= Length(e, e.packing),
           Recurs(e.messages[e.packing], e.done, offset, run),
           e2.packing = e.packing, e2.messages = e.messages, e2.done = e.done + run,
           e2.wire = e.wire \o RunPacket(offset, run)
    PROVE  OnTrail(e2)
<1>1. WellWritten(e) /\ Length(e, e.packing) \in Nat /\ e.done \in Nat /\ e.packing \in Nat
  BY LengthIs DEF OnTrail, WellWritten
<1>2. PICK code \in Nat : code = run - MinRun + 1 /\ code > 0 /\ code + MinRun - 1 = run
  BY Parameters
<1>3. PICK s : s = RunPacket(offset, run)
  OBVIOUS
<1>4. e.wire \in Seq(Octets)
  BY <1>1 DEF WellWritten
<1>5. PICK w, x : w = e.wire /\ x = e2.wire /\ x = w \o s
  BY <1>3
<1>6. PICK m \in Nat : m = 2 * (offset * ShortrunMax) /\ m = 2 * offset * ShortrunMax
  <2>1. 2 * (offset * ShortrunMax) \in Nat /\ 2 * (offset * ShortrunMax) = 2 * offset * ShortrunMax
    BY Parameters, SMT
  <2> QED  BY <2>1
<1>7. PICK h \in Nat : h = 2 * (offset * ShortrunMax + code)
  <2>1. offset * ShortrunMax \in Nat
    BY Parameters, SMT
  <2> QED  BY <2>1
<1>8. s = IF code < ShortrunMax THEN push_vlq_uint[h] ELSE push_vlq_uint[m] \o push_vlq_uint[code]
  BY <1>2, <1>3, <1>6, <1>7, Zenon DEF RunPacket
<1>9. Length(e2, e2.packing) = Length(e, e.packing)
  BY DEF Length
<1>10. e2.done \in 0..Length(e2, e2.packing) /\ e.packing <= e2.packing
  BY <1>1, <1>9
<1>11. PICK a, b : a = EndPoint(e) /\ b = EndPoint(e2)
  OBVIOUS
<1>12. a.at = Len(w) /\ a.of = e.packing /\ a.done = e.done
       /\ b.at = Len(x) /\ b.of = e.packing /\ b.done = e.done + run
  BY <1>5, <1>11 DEF EndPoint
<1>13. Run(e2, a.done, b, offset, code)
  BY <1>2, <1>12, Zenon DEF Run
<1>14. Len(w) \in Nat
  BY <1>4, <1>5, LenProperties
<1>15. /\ s \in Seq(Octets) /\ x \in Seq(Octets) /\ Len(x) \in Nat
       /\ \E n, mid \in Nat : NumberAt(x, Len(w), n, mid) /\ Packet(e2, a.done, b, n, mid)
  <2>1. CASE code < ShortrunMax
    <3>1. s = push_vlq_uint[h]
      BY <1>8, <2>1
    <3>2. s \in Seq(Octets) /\ x \in Seq(Octets) /\ Len(x) \in Nat /\ NumberAt(x, Len(w), h, Len(x))
      BY <1>4, <1>5, <3>1, DigitsAre, NumberWritten, Zenon
    <3>3. Packet(e2, a.done, b, h, Len(x))
      BY <1>7, <1>12, <1>13, <2>1, Zenon DEF Packet
    <3> QED  BY <3>2, <3>3, Zenon
  <2>2. CASE ~ (code < ShortrunMax)
    <3>1. PICK c : c = push_vlq_uint[code]
      OBVIOUS
    <3>2. c \in Seq(Octets) /\ s = push_vlq_uint[m] \o c /\ code >= ShortrunMax
      <4>1. c \in Seq(Octets)
        BY <3>1, DigitsAre, Zenon
      <4>2. s = push_vlq_uint[m] \o c
        BY <1>8, <2>2, <3>1, Zenon
      <4>3. code >= ShortrunMax
        BY <2>2, Parameters
      <4> QED  BY <4>1, <4>2, <4>3
    <3>3. PICK y : y = w \o push_vlq_uint[m]
      OBVIOUS
    <3>4. s \in Seq(Octets) /\ x \in Seq(Octets) /\ \E mid \in Nat :
            NumberAt(x, Len(w), m, mid) /\ mid = Len(y) /\ x = y \o c
      <4>1. w \in Seq(Octets) /\ x = w \o s
        BY <1>4, <1>5
      <4> QED  BY <3>2, <3>3, <4>1, NumberLies
    <3>5. y \in Seq(Octets)
      BY <1>4, <1>5, <3>3, NumberWritten, Zenon
    <3>6. PICK mid \in Nat : NumberAt(x, Len(w), m, mid) /\ mid = Len(y) /\ x = y \o c
      BY <3>4
    <3>7. NumberAt(x, mid, code, Len(x)) /\ Len(x) \in Nat
      BY <3>1, <3>5, <3>6, NumberWritten, Zenon
    <3>8. Packet(e2, a.done, b, m, mid)
      BY <1>5, <1>6, <1>12, <1>13, <3>2, <3>7, Zenon DEF Packet
    <3> QED  BY <3>4, <3>6, <3>7, <3>8, Zenon
  <2> QED  BY <2>1, <2>2
<1>16. WellWritten(e2)
  BY <1>1, <1>5, <1>10, <1>15, Zenon DEF WellWritten
<1>17. Longer(e, e2, s)
  BY <1>5, <1>10, <1>15, Zenon DEF Longer
<1>18. PacketStep(e2, a, b)
  BY <1>5, <1>12, <1>15, Zenon DEF PacketStep
<1> QED  BY <1>11, <1>16, <1>17, <1>18, OneMore, Zenon DEF GoesOn
-----------------------------------------------------------------------------
(* Where the decoder is on the trail.  d has the variables of the decoder. *)

\* All octets are written.
AllWritten(e) ==
    WellWritten(e) /\ e.packing = Len(e.messages) /\ e.done = Length(e, e.packing)

\* m messages were given out.
Gone(e, d, m) == NotEmpty(d.received) = NotEmpty(SubSeq(e.messages, 1, m))

\* ret is the beginning of message m, and all before it is given out.
Unpacks(e, d, m) ==
    /\ m \in 1..e.packing
    /\ d.size = Length(e, m)
    /\ d.ret \in Seq(Octets)
    /\ \A k \in 1..Len(d.ret) : d.ret[k] = e.messages[m][k]
    /\ Gone(e, d, m - 1)

AtSize(e, U, d) ==
    /\ d.state = "INIT"
    /\ d.inFeed => d.ret = <<>>
    /\ \E p \in U :
          /\ Complete(e, p) /\ Gone(e, d, p.of)
          /\ \/ p = EndPoint(e) /\ d.rd = p.at /\ d.vlq = NoDigits
             \/ \E q \in U : /\ q.of = p.of + 1 /\ q.done = 0
                             /\ Reads(e.wire, d.vlq, d.rd, Length(e, q.of), q.at)

AtHead(e, U, d) ==
    /\ d.state = "START"
    /\ \E q \in U :
          /\ Unpacks(e, d, q.of)
          /\ \/ /\ d.inFeed /\ Complete(e, q) /\ Len(d.ret) = q.done
                /\ d.rd = q.at /\ d.vlq = NoDigits
             \/ \E n, mid \in Nat :
                   Packet(e, Len(d.ret), q, n, mid) /\ Reads(e.wire, d.vlq, d.rd, n, mid)

AtData(e, U, d) ==
    /\ d.state = "READ_DATA" /\ d.vlq = NoDigits /\ d.msg \in Nat
    /\ \E q \in U : Unpacks(e, d, q.of) /\ Data(e, Len(d.ret), q, d.msg, d.rd)

AtRun(e, U, d) ==
    /\ d.state = "READ_RUN"
    /\ \E q \in U : /\ Unpacks(e, d, q.of)
                    /\ \E offset, code \in Nat :
                          /\ Run(e, Len(d.ret), q, offset, code)
                          /\ \/ /\ d.inFeed /\ code < ShortrunMax
                                /\ d.msg = offset * ShortrunMax + code
                                /\ d.rd = q.at /\ d.vlq = NoDigits
                             \/ /\ code >= ShortrunMax /\ d.msg = offset * ShortrunMax
                                /\ Reads(e.wire, d.vlq, d.rd, code, q.at)

Position(e, U, d) == AtSize(e, U, d) \/ AtHead(e, U, d) \/ AtData(e, U, d) \/ AtRun(e, U, d)

LEMMA PointIs ==
    ASSUME NEW e, WellWritten(e), NEW U, Trail(e, U), NEW p \in U
    PROVE  /\ IsPoint(e, p)
           /\ p.at \in Nat /\ p.of \in 0..e.packing /\ p.of \in Nat /\ p.done \in Nat
           /\ p.at <= Len(e.wire) /\ p.done <= Length(e, p.of) /\ Length(e, p.of) \in Nat
<1>1. IsPoint(e, p)
  BY DEF Trail
<1> QED  BY <1>1, StepIs, Zenon DEF IsPoint

\* Whatever is done, some messages are given out, in order.
LEMMA SomeGone ==
    ASSUME NEW e, WellWritten(e), NEW U, Trail(e, U), NEW d, Position(e, U, d)
    PROVE  \E m \in 0..e.packing : Gone(e, d, m)
<1>1. CASE AtSize(e, U, d)
  <2>1. PICK p \in U : Gone(e, d, p.of)
    BY <1>1, Zenon DEF AtSize
  <2> QED  BY <2>1, PointIs, Zenon
<1>2. CASE \E q \in U : Unpacks(e, d, q.of)
  <2>1. PICK m \in 1..e.packing : Gone(e, d, m - 1)
    BY <1>2, Zenon DEF Unpacks
  <2>2. m - 1 \in 0..e.packing
    BY LengthIs
  <2> QED  BY <2>1, <2>2, Zenon
<1> QED  BY <1>1, <1>2, Zenon DEF Position, AtHead, AtData, AtRun

\* At a point the size of a message follows, or nothing any more.
LEMMA SizeFollows ==
    ASSUME NEW e, AllWritten(e), NEW U, Trail(e, U), NEW d, NEW p \in U,
           Complete(e, p), Gone(e, d, p.of), d.state = "INIT", d.rd = p.at, d.vlq = NoDigits,
           d.inFeed => d.ret = <<>>
    PROVE  Position(e, U, d)
<1>1. WellWritten(e)
  BY DEF AllWritten
<1>2. CASE p = EndPoint(e)
  BY <1>2, Zenon DEF AtSize, Position
<1>3. CASE p # EndPoint(e)
  <2>1. PICK q \in U : GoesOn(e, p, q)
    BY <1>3, Zenon DEF Trail
  <2>2. SizeStep(e, p, q)
    BY <1>1, <2>1, PointIs, StepIs, Zenon
  <2>3. NumberAt(e.wire, p.at, Length(e, q.of), q.at) /\ Length(e, q.of) \in Nat
    BY <1>1, <2>2, PointIs, Zenon DEF SizeStep
  <2>4. Reads(e.wire, d.vlq, d.rd, Length(e, q.of), q.at)
    BY <2>3, ReadsFromStart, Zenon
  <2> QED  BY <2>2, <2>4, Zenon DEF AtSize, Position, SizeStep
<1> QED  BY <1>2, <1>3

\* At a point the message is complete, or the head of a packet follows.
LEMMA HeadFollows ==
    ASSUME NEW e, AllWritten(e), NEW U, Trail(e, U), NEW d, NEW p \in U,
           Unpacks(e, d, p.of), Len(d.ret) = p.done,
           d.state = "START", d.inFeed, d.rd = p.at, d.vlq = NoDigits
    PROVE  Position(e, U, d)
<1>1. WellWritten(e)
  BY DEF AllWritten
<1>2. CASE Complete(e, p)
  BY <1>2, Zenon DEF AtHead, Position
<1>3. CASE ~ Complete(e, p)
  <2>1. p # EndPoint(e)
    <3>1. Complete(e, EndPoint(e))
      BY DEF AllWritten, Complete, EndPoint
    <3> QED  BY <1>3, <3>1
  <2>2. PICK q \in U : GoesOn(e, p, q)
    BY <2>1, Zenon DEF Trail
  <2>3. PacketStep(e, p, q)
    BY <1>1, <1>3, <2>2, PointIs, StepIs, Zenon
  <2>4. PICK n, mid \in Nat : NumberAt(e.wire, p.at, n, mid) /\ Packet(e, p.done, q, n, mid)
    BY <2>3, Zenon DEF PacketStep
  <2>5. Reads(e.wire, d.vlq, d.rd, n, mid)
    BY <2>4, ReadsFromStart, Zenon
  <2>6. q.of = p.of
    BY <2>3, Zenon DEF PacketStep
  <2> QED  BY <2>4, <2>5, <2>6, Zenon DEF AtHead, Position
<1> QED  BY <1>2, <1>3

\* A packet has something of the message.
LEMMA PacketIsMore ==
    ASSUME NEW e, WellWritten(e), NEW U, Trail(e, U), NEW d, NEW q \in U, Unpacks(e, d, q.of)
    PROVE  /\ Len(d.ret) \in Nat /\ d.size \in Nat /\ d.size = Length(e, q.of) /\ q.done <= d.size
           /\ \A n, mid : Data(e, Len(d.ret), q, n, mid) /\ n \in Nat => Len(d.ret) < d.size
           /\ \A offset, code : Run(e, Len(d.ret), q, offset, code) /\ code \in Nat => Len(d.ret) < d.size
           /\ \A n, mid : Packet(e, Len(d.ret), q, n, mid) => Len(d.ret) < d.size
<1>1. Len(d.ret) \in Nat
  BY LenProperties DEF Unpacks
<1>2. d.size \in Nat /\ d.size = Length(e, q.of) /\ q.done <= d.size /\ q.done \in Nat
  BY PointIs DEF Unpacks
<1>3. \A n, mid : Data(e, Len(d.ret), q, n, mid) /\ n \in Nat => Len(d.ret) < d.size
  BY <1>1, <1>2 DEF Data
<1>4. \A offset, code : Run(e, Len(d.ret), q, offset, code) /\ code \in Nat => Len(d.ret) < d.size
  <2> SUFFICES ASSUME NEW offset, NEW code, Run(e, Len(d.ret), q, offset, code), code \in Nat
               PROVE  Len(d.ret) < d.size
    OBVIOUS
  <2>1. code > 0 /\ q.done = Len(d.ret) + (code + MinRun - 1)
    BY Zenon DEF Run
  <2>2. PICK b, h, c, m \in Nat : b = Len(d.ret) /\ h = q.done /\ c = code /\ m = MinRun
    BY <1>1, <1>2, Parameters
  <2>3. c > 0 /\ m > 0 /\ h = b + (c + m - 1)
    BY <2>1, <2>2, Parameters
  <2>4. b < h
    BY <2>3
  <2> QED  BY <1>1, <1>2, <2>2, <2>4
<1>5. \A n, mid : Packet(e, Len(d.ret), q, n, mid) => Len(d.ret) < d.size
  BY <1>3, <1>4, Zenon DEF Packet
<1> QED  BY <1>1, <1>2, <1>3, <1>4, <1>5, Zenon

\* A short run says so.
LEMMA ShortrunIs ==
    ASSUME NEW offset \in Nat, NEW code \in Nat
    PROVE  /\ code < ShortrunMax =>
                /\ (offset * ShortrunMax + code) % ShortrunMax = code
                /\ (offset * ShortrunMax + code) \div ShortrunMax = offset
           /\ (offset * ShortrunMax) % ShortrunMax = 0
           /\ (offset * ShortrunMax) \div ShortrunMax = offset
<1>1. code < ShortrunMax =>
        /\ (offset * ShortrunMax + code) % ShortrunMax = code
        /\ (offset * ShortrunMax + code) \div ShortrunMax = offset
  BY DivUnique, Parameters
<1>2. (offset * ShortrunMax + 0) % ShortrunMax = 0 /\ (offset * ShortrunMax + 0) \div ShortrunMax = offset
  BY DivUnique, Parameters
<1>3. offset * ShortrunMax + 0 = offset * ShortrunMax
  <2>1. PICK n \in Nat : n = offset * ShortrunMax
    BY Parameters, SMT
  <2> QED  BY <2>1
<1> QED  BY <1>1, <1>2, <1>3
-----------------------------------------------------------------------------
(* The steps of the decoder, from d to d2.                                 *)

Decodes(e, U, d) ==
    /\ AllWritten(e) /\ Trail(e, U) /\ Position(e, U, d)
    /\ d.rd \in Nat /\ d.vlq.num \in Nat /\ d.vlq.weight \in Nat
    /\ d.received \in Seq(Seq(Octets))

LEMMA DecodesIs ==
    ASSUME NEW e, NEW U, NEW d, Decodes(e, U, d)
    PROVE  /\ WellWritten(e) /\ AllWritten(e) /\ Trail(e, U) /\ Position(e, U, d)
           /\ d.rd \in Nat /\ d.vlq.num \in Nat /\ d.vlq.weight \in Nat
           /\ d.received \in Seq(Seq(Octets))
           /\ e.wire \in Seq(Octets) /\ Len(e.wire) \in Nat
BY LengthIs DEF Decodes, AllWritten, WellWritten

TheNumber(e, d) == d.vlq.num + (e.wire[d.rd + 1] % VlqBase) * d.vlq.weight

\* A number is due.
DueNumber(d) ==
    \/ d.state = "INIT"
    \/ d.state = "START" /\ Len(d.ret) < d.size
    \/ d.state = "READ_RUN" /\ d.msg % ShortrunMax = 0

\* Which number is due at a position.
LEMMA NumberDue ==
    ASSUME NEW e, NEW U, NEW d, Decodes(e, U, d), DueNumber(d), d.rd < Len(e.wire)
    PROVE  \/ /\ d.state = "INIT"
              /\ d.inFeed => d.ret = <<>>
              /\ \E p, q \in U : /\ Complete(e, p) /\ Gone(e, d, p.of)
                                 /\ q.of = p.of + 1 /\ q.done = 0
                                 /\ Reads(e.wire, d.vlq, d.rd, Length(e, q.of), q.at)
           \/ /\ d.state = "START"
              /\ \E q \in U : Unpacks(e, d, q.of) /\ \E n, mid \in Nat :
                    Packet(e, Len(d.ret), q, n, mid) /\ Reads(e.wire, d.vlq, d.rd, n, mid)
           \/ /\ d.state = "READ_RUN"
              /\ \E q \in U : Unpacks(e, d, q.of) /\ \E offset, code \in Nat :
                    /\ Run(e, Len(d.ret), q, offset, code)
                    /\ code >= ShortrunMax /\ d.msg = offset * ShortrunMax
                    /\ Reads(e.wire, d.vlq, d.rd, code, q.at)
<1>1. /\ WellWritten(e) /\ Trail(e, U) /\ Position(e, U, d) /\ d.rd \in Nat /\ Len(e.wire) \in Nat
  BY DecodesIs, Zenon
<1>2. CASE AtSize(e, U, d)
  <2>1. PICK p \in U :
          /\ Complete(e, p) /\ Gone(e, d, p.of)
          /\ \/ p = EndPoint(e) /\ d.rd = p.at /\ d.vlq = NoDigits
             \/ \E q \in U : /\ q.of = p.of + 1 /\ q.done = 0
                             /\ Reads(e.wire, d.vlq, d.rd, Length(e, q.of), q.at)
    BY <1>2, Zenon DEF AtSize
  <2>2. ~ (p = EndPoint(e) /\ d.rd = p.at)
    BY <1>1 DEF EndPoint
  <2> QED  BY <1>2, <2>1, <2>2, Zenon DEF AtSize
<1>3. CASE AtHead(e, U, d)
  <2>1. d.state = "START" /\ d.state # "INIT" /\ d.state # "READ_RUN"
    BY <1>3 DEF AtHead
  <2>2. Len(d.ret) < d.size
    BY <2>1, Zenon DEF DueNumber
  <2>3. PICK q \in U :
          /\ Unpacks(e, d, q.of)
          /\ \/ Complete(e, q) /\ Len(d.ret) = q.done
             \/ \E n, mid \in Nat :
                   Packet(e, Len(d.ret), q, n, mid) /\ Reads(e.wire, d.vlq, d.rd, n, mid)
    BY <1>3, Zenon DEF AtHead
  <2>4. ~ (Complete(e, q) /\ Len(d.ret) = q.done)
    <3>1. d.size \in Nat /\ d.size = Length(e, q.of)
      BY <1>1, <2>3, PacketIsMore, Zenon
    <3> QED  BY <2>2, <3>1 DEF Complete
  <2> QED  BY <2>1, <2>3, <2>4, Zenon
<1>4. CASE AtData(e, U, d)
  BY <1>4 DEF AtData, DueNumber
<1>5. CASE AtRun(e, U, d)
  <2>1. d.state = "READ_RUN" /\ d.msg % ShortrunMax = 0
    BY <1>5 DEF AtRun, DueNumber
  <2>2. PICK q \in U : /\ Unpacks(e, d, q.of)
                       /\ \E offset, code \in Nat :
                          /\ Run(e, Len(d.ret), q, offset, code)
                          /\ \/ code < ShortrunMax /\ d.msg = offset * ShortrunMax + code
                             \/ /\ code >= ShortrunMax /\ d.msg = offset * ShortrunMax
                                /\ Reads(e.wire, d.vlq, d.rd, code, q.at)
    BY <1>5, Zenon DEF AtRun
  <2>3. PICK offset, code \in Nat :
          /\ Run(e, Len(d.ret), q, offset, code)
          /\ \/ code < ShortrunMax /\ d.msg = offset * ShortrunMax + code
             \/ /\ code >= ShortrunMax /\ d.msg = offset * ShortrunMax
                /\ Reads(e.wire, d.vlq, d.rd, code, q.at)
    BY <2>2, Zenon
  <2>4. code > 0
    BY <2>3, Zenon DEF Run
  <2>5. ~ (code < ShortrunMax /\ d.msg = offset * ShortrunMax + code)
    <3> SUFFICES ASSUME code < ShortrunMax, d.msg = offset * ShortrunMax + code PROVE FALSE
      OBVIOUS
    <3>1. d.msg % ShortrunMax = code
      BY ShortrunIs, Zenon
    <3> QED  BY <2>1, <2>4, <3>1
  <2> QED  BY <2>1, <2>2, <2>3, <2>5, Zenon
<1> QED  BY <1>1, <1>2, <1>3, <1>4, <1>5, Zenon DEF Position

\* What the next octet says of a number that is due.
LEMMA DueDigit ==
    ASSUME NEW e, NEW U, NEW d, Decodes(e, U, d), NEW n \in Nat, NEW end,
           Reads(e.wire, d.vlq, d.rd, n, end)
    PROVE  /\ end \in Nat /\ d.rd < end /\ end <= Len(e.wire)
           /\ e.wire[d.rd + 1] < VlqBase => TheNumber(e, d) = n /\ end = d.rd + 1
           /\ e.wire[d.rd + 1] >= VlqBase =>
                \A d2 : /\ d2.vlq.num = TheNumber(e, d)
                        /\ d2.vlq.weight = d.vlq.weight * VlqBase
                        /\ d2.rd = d.rd + 1
                        => /\ d2.vlq.num \in Nat /\ d2.vlq.weight \in Nat
                           /\ Reads(e.wire, d2.vlq, d2.rd, n, end)
<1>1. /\ e.wire \in Seq(Octets) /\ d.rd \in Nat /\ d.vlq.num \in Nat /\ d.vlq.weight \in Nat
  BY DecodesIs, Zenon
<1>2. PICK w, v, r : w = e.wire /\ v = d.vlq /\ r = d.rd
  OBVIOUS
<1>3. /\ end \in Nat /\ r < end /\ end <= Len(w)
      /\ w[r + 1] < VlqBase => v.num + (w[r + 1] % VlqBase) * v.weight = n /\ end = r + 1
      /\ w[r + 1] >= VlqBase =>
           \A x : /\ x.num = v.num + (w[r + 1] % VlqBase) * v.weight
                  /\ x.weight = v.weight * VlqBase
                  => x.num \in Nat /\ x.weight \in Nat /\ Reads(w, x, r + 1, n, end)
  <2>1. Reads(w, v, r, n, end) /\ w \in Seq(Octets) /\ r \in Nat /\ v.num \in Nat /\ v.weight \in Nat
    BY <1>1, <1>2
  <2> QED  BY <2>1, DigitByDigit, Zenon
<1> QED  BY <1>2, <1>3, Zenon DEF TheNumber

LEMMA PopDigitKeeps ==
    ASSUME NEW e, NEW U, NEW d, Decodes(e, U, d), DueNumber(d),
           d.rd < Len(e.wire), e.wire[d.rd + 1] >= VlqBase,
           NEW d2, d2.vlq.num = TheNumber(e, d), d2.vlq.weight = d.vlq.weight * VlqBase,
           d2.rd = d.rd + 1,
           d2.state = d.state, d2.msg = d.msg, d2.size = d.size, d2.ret = d.ret,
           d2.inFeed = d.inFeed, d2.received = d.received
    PROVE  Decodes(e, U, d2)
<1>1. \A n \in Nat : \A end : Reads(e.wire, d.vlq, d.rd, n, end) =>
        /\ d2.vlq.num \in Nat /\ d2.vlq.weight \in Nat
        /\ Reads(e.wire, d2.vlq, d2.rd, n, end)
  BY DueDigit, Zenon
<1>2. \A m : (Unpacks(e, d, m) => Unpacks(e, d2, m)) /\ (Gone(e, d, m) => Gone(e, d2, m))
  BY Zenon DEF Unpacks, Gone
<1>3. WellWritten(e) /\ Trail(e, U) /\ d2.rd \in Nat /\ AllWritten(e) /\ d2.received \in Seq(Seq(Octets))
  BY DecodesIs
<1>4. ASSUME NEW p \in U, NEW q \in U, d.state = "INIT", d.inFeed => d.ret = <<>>,
             Complete(e, p), Gone(e, d, p.of), q.of = p.of + 1, q.done = 0,
             Reads(e.wire, d.vlq, d.rd, Length(e, q.of), q.at)
      PROVE  Position(e, U, d2) /\ d2.vlq.num \in Nat /\ d2.vlq.weight \in Nat
  <2>1. Length(e, q.of) \in Nat
    BY <1>3, PointIs, Zenon
  <2>2. /\ d2.vlq.num \in Nat /\ d2.vlq.weight \in Nat
        /\ Reads(e.wire, d2.vlq, d2.rd, Length(e, q.of), q.at)
    BY <1>1, <1>4, <2>1, Zenon
  <2>3. AtSize(e, U, d2)
    BY <1>2, <1>4, <2>2, Zenon DEF AtSize
  <2> QED  BY <2>2, <2>3, Zenon DEF Position
<1>5. ASSUME NEW q \in U, d.state = "START", Unpacks(e, d, q.of), NEW n \in Nat, NEW mid \in Nat,
             Packet(e, Len(d.ret), q, n, mid), Reads(e.wire, d.vlq, d.rd, n, mid)
      PROVE  Position(e, U, d2) /\ d2.vlq.num \in Nat /\ d2.vlq.weight \in Nat
  <2>1. /\ d2.vlq.num \in Nat /\ d2.vlq.weight \in Nat
        /\ Reads(e.wire, d2.vlq, d2.rd, n, mid) /\ Packet(e, Len(d2.ret), q, n, mid)
    BY <1>1, <1>5, Zenon
  <2>2. AtHead(e, U, d2)
    BY <1>2, <1>5, <2>1, Zenon DEF AtHead
  <2> QED  BY <2>1, <2>2, Zenon DEF Position
<1>6. ASSUME NEW q \in U, d.state = "READ_RUN", Unpacks(e, d, q.of),
             NEW offset \in Nat, NEW code \in Nat, Run(e, Len(d.ret), q, offset, code),
             code >= ShortrunMax, d.msg = offset * ShortrunMax,
             Reads(e.wire, d.vlq, d.rd, code, q.at)
      PROVE  Position(e, U, d2) /\ d2.vlq.num \in Nat /\ d2.vlq.weight \in Nat
  <2>1. /\ d2.vlq.num \in Nat /\ d2.vlq.weight \in Nat
        /\ Reads(e.wire, d2.vlq, d2.rd, code, q.at) /\ Run(e, Len(d2.ret), q, offset, code)
    BY <1>1, <1>6, Zenon
  <2>2. AtRun(e, U, d2)
    BY <1>2, <1>6, <2>1, Zenon DEF AtRun
  <2> QED  BY <2>1, <2>2, Zenon DEF Position
<1>7. Position(e, U, d2) /\ d2.vlq.num \in Nat /\ d2.vlq.weight \in Nat
  BY <1>4, <1>5, <1>6, NumberDue, Zenon
<1> QED  BY <1>3, <1>7, Zenon DEF Decodes

LEMMA NoDigitsIs == NoDigits.num \in Nat /\ NoDigits.weight \in Nat
BY DEF NoDigits

LEMMA TakeSizeKeeps ==
    ASSUME NEW e, NEW U, NEW d, Decodes(e, U, d), d.state = "INIT", d.inFeed,
           d.rd < Len(e.wire), e.wire[d.rd + 1] < VlqBase,
           NEW d2, d2.size = TheNumber(e, d), d2.state = "START", d2.vlq = NoDigits,
           d2.rd = d.rd + 1, d2.ret = d.ret, d2.inFeed, d2.received = d.received
    PROVE  Decodes(e, U, d2)
<1>1. WellWritten(e) /\ Trail(e, U) /\ AllWritten(e) /\ d2.rd \in Nat /\ d2.received \in Seq(Seq(Octets))
  BY DecodesIs
<1>2. d.state # "START" /\ d.state # "READ_RUN"
  OBVIOUS
<1>3. PICK p, q \in U : /\ d.ret = <<>> /\ Complete(e, p) /\ Gone(e, d, p.of)
                        /\ q.of = p.of + 1 /\ q.done = 0
                        /\ Reads(e.wire, d.vlq, d.rd, Length(e, q.of), q.at)
  BY <1>2, NumberDue, Zenon DEF DueNumber
<1>4. /\ IsPoint(e, q) /\ q.of \in 0..e.packing /\ Length(e, q.of) \in Nat /\ p.of \in Nat
      /\ e.packing \in Nat
  BY <1>1, PointIs, LengthIs, Zenon
<1>5. d2.size = Length(e, q.of) /\ q.at = d2.rd
  <2>1. PICK l \in Nat : l = Length(e, q.of)
    BY <1>4
  <2>2. PICK end : end = q.at
    OBVIOUS
  <2>3. Reads(e.wire, d.vlq, d.rd, l, end)
    BY <1>3, <2>1, <2>2
  <2>4. TheNumber(e, d) = l /\ end = d.rd + 1
    BY <2>3, DueDigit, Zenon
  <2> QED  BY <2>1, <2>2, <2>4
<1>6. Len(d2.ret) = 0 /\ d2.ret \in Seq(Octets) /\ q.of \in 1..e.packing /\ q.of - 1 = p.of
  BY <1>3, <1>4
<1>7. Gone(e, d2, p.of)
  BY <1>3, Zenon DEF Gone
<1>8. Unpacks(e, d2, q.of)
  BY <1>5, <1>6, <1>7 DEF Unpacks
<1>9. Position(e, U, d2)
  BY <1>1, <1>3, <1>5, <1>6, <1>8, HeadFollows, Zenon
<1> QED  BY <1>1, <1>9, NoDigitsIs, Zenon DEF Decodes

\* The message and the kind of packet are told apart by the last bit.
LEMMA HeadIs ==
    ASSUME NEW n \in Nat
    PROVE  /\ (2 * n + 1) % 2 = 1 /\ (2 * n + 1) \div 2 = n
           /\ (2 * n) % 2 = 0 /\ (2 * n) \div 2 = n
OBVIOUS

LEMMA TakeHeadKeeps ==
    ASSUME NEW e, NEW U, NEW d, Decodes(e, U, d), d.state = "START", Len(d.ret) < d.size, d.inFeed,
           d.rd < Len(e.wire), e.wire[d.rd + 1] < VlqBase,
           NEW d2, d2.state = (IF TheNumber(e, d) % 2 = 1 THEN "READ_DATA" ELSE "READ_RUN"),
           d2.msg = TheNumber(e, d) \div 2, d2.vlq = NoDigits, d2.rd = d.rd + 1,
           d2.size = d.size, d2.ret = d.ret, d2.inFeed, d2.received = d.received
    PROVE  Decodes(e, U, d2)
<1>1. WellWritten(e) /\ Trail(e, U) /\ AllWritten(e) /\ d2.rd \in Nat /\ d2.received \in Seq(Seq(Octets))
  BY DecodesIs
<1>2. d.state # "INIT" /\ d.state # "READ_RUN"
  OBVIOUS
<1>3. PICK q \in U : Unpacks(e, d, q.of) /\ \E n, mid \in Nat :
                    Packet(e, Len(d.ret), q, n, mid) /\ Reads(e.wire, d.vlq, d.rd, n, mid)
  BY <1>2, NumberDue, Zenon DEF DueNumber
<1>4. PICK n, mid \in Nat : Packet(e, Len(d.ret), q, n, mid) /\ Reads(e.wire, d.vlq, d.rd, n, mid)
  BY <1>3
<1>5. TheNumber(e, d) = n /\ mid = d2.rd
  BY <1>4, DueDigit, Zenon
<1>6. Unpacks(e, d2, q.of)
  BY <1>3, Zenon DEF Unpacks, Gone
<1>7. ASSUME NEW l \in Nat, n = 2 * l + 1, Data(e, Len(d.ret), q, l, mid)
      PROVE  AtData(e, U, d2)
  <2>1. d2.state = "READ_DATA" /\ d2.msg = l
    BY <1>5, <1>7, HeadIs
  <2>2. Data(e, Len(d2.ret), q, d2.msg, d2.rd)
    BY <1>5, <1>7, <2>1, Zenon
  <2> QED  BY <1>6, <2>1, <2>2, Zenon DEF AtData
<1>8. ASSUME NEW offset \in Nat, NEW code \in Nat, Run(e, Len(d.ret), q, offset, code),
             \/ /\ code < ShortrunMax /\ q.at = mid
                /\ n = 2 * (offset * ShortrunMax + code)
             \/ /\ code >= ShortrunMax /\ NumberAt(e.wire, mid, code, q.at)
                /\ n = 2 * (offset * ShortrunMax)
      PROVE  AtRun(e, U, d2)
  <2>1. PICK h \in Nat : /\ n = 2 * h
                         /\ \/ /\ code < ShortrunMax /\ q.at = mid
                               /\ h = offset * ShortrunMax + code
                            \/ /\ code >= ShortrunMax /\ NumberAt(e.wire, mid, code, q.at)
                               /\ h = offset * ShortrunMax
    <3>1. offset * ShortrunMax \in Nat
      BY Parameters, SMT
    <3>2. offset * ShortrunMax + code \in Nat
      BY <3>1
    <3> QED  BY <1>8, <3>1, <3>2, Zenon
  <2>2. d2.state = "READ_RUN" /\ d2.msg = h
    <3>1. n % 2 = 0 /\ n \div 2 = h
      BY <2>1, HeadIs
    <3> QED  BY <1>5, <3>1
  <2>3. NumberAt(e.wire, mid, code, q.at) => Reads(e.wire, d2.vlq, d2.rd, code, q.at)
    BY <1>5, ReadsFromStart, Zenon
  <2>4. Run(e, Len(d2.ret), q, offset, code)
    BY <1>8, Zenon
  <2> QED  BY <1>5, <1>6, <2>1, <2>2, <2>3, <2>4, Zenon DEF AtRun
<1>9. Position(e, U, d2)
  BY <1>4, <1>7, <1>8, Zenon DEF Packet, Position
<1> QED  BY <1>1, <1>9, NoDigitsIs, Zenon DEF Decodes

\* d2 has l octets of the data at mid more than d.
Copies(e, d, d2, mid, l) ==
    /\ d2.ret = d.ret \o SubSeq(e.wire, mid + 1, mid + l)
    /\ d2.size = d.size /\ d2.received = d.received

\* Some of a packet of data is copied.
LEMMA DataCopied ==
    ASSUME NEW e, WellWritten(e), NEW d, NEW q, Unpacks(e, d, q.of),
           NEW n \in Nat, NEW mid \in Nat, Data(e, Len(d.ret), q, n, mid), q.at <= Len(e.wire),
           NEW l \in Nat, l > 0, l <= n,
           NEW d2, Copies(e, d, d2, mid, l)
    PROVE  Unpacks(e, d2, q.of) /\ Len(d2.ret) = Len(d.ret) + l
<1>1. PICK w, r, M : w = e.wire /\ r = d.ret /\ M = e.messages[q.of]
  OBVIOUS
<1>2. w \in Seq(Octets) /\ r \in Seq(Octets)
  BY <1>1 DEF WellWritten, Unpacks
<1>3. Len(w) \in Nat /\ Len(r) \in Nat
  BY <1>2, LenProperties
<1>4. /\ \A k \in 1..Len(r) : r[k] = M[k]
      /\ q.at = mid + n
      /\ \A k \in 1..n : w[mid + k] = M[Len(r) + k]
  BY <1>1, Zenon DEF Unpacks, Data
<1>5. PICK s : s = SubSeq(w, mid + 1, mid + l)
  OBVIOUS
<1>6. s \in Seq(Octets) /\ Len(s) = l /\ \A k \in 1..l : s[k] = w[mid + k]
  <2>1. PICK a, b \in Nat : a = mid + 1 /\ b = mid + l /\ a \in 1..(Len(w) + 1) /\ b \in (a - 1)..Len(w)
    BY <1>1, <1>3, <1>4
  <2>2. /\ s \in Seq(Octets)
        /\ Len(s) = IF a <= b THEN b - a + 1 ELSE 0
        /\ \A k \in 1..(b - a + 1) : s[k] = w[a + k - 1]
    BY <1>2, <1>5, <2>1, SubSeqProperties
  <2>3. Len(s) = l /\ b - a + 1 = l
    BY <2>1, <2>2
  <2>4. \A k \in 1..l : a + k - 1 = mid + k
    BY <2>1
  <2> QED  BY <2>2, <2>3, <2>4
<1>7. PICK t : t = r \o s
  OBVIOUS
<1>8. /\ t \in Seq(Octets) /\ Len(t) = Len(r) + l
      /\ \A k \in 1..(Len(r) + l) : t[k] = IF k <= Len(r) THEN r[k] ELSE s[k - Len(r)]
  <2>1. /\ t \in Seq(Octets) /\ Len(t) = Len(r) + Len(s)
        /\ \A k \in 1..(Len(r) + Len(s)) : t[k] = IF k <= Len(r) THEN r[k] ELSE s[k - Len(r)]
    <3>1. r \in Seq(Octets) /\ s \in Seq(Octets)
      BY <1>2, <1>6, Zenon
    <3> QED  BY <1>7, <3>1, ConcatProperties
  <2> QED  BY <1>6, <2>1, Zenon
<1>9. ASSUME NEW k \in 1..(Len(r) + l) PROVE t[k] = M[k]
  <2>1. CASE k <= Len(r)
    <3>1. k \in 1..Len(r)
      BY <1>3, <2>1
    <3> QED  BY <1>4, <1>8, <2>1, <3>1
  <2>2. CASE ~ (k <= Len(r))
    <3>1. PICK j \in 1..l : j = k - Len(r) /\ Len(r) + j = k /\ j \in 1..n
      BY <1>3, <2>2
    <3>2. k \in 1..(Len(r) + l) /\ k - Len(r) = j
      BY <1>3, <3>1
    <3>3. t[k] = s[j]
      BY <1>8, <2>2, <3>2, Zenon
    <3>4. s[j] = w[mid + j]
      BY <1>6, Zenon
    <3>5. w[mid + j] = M[k]
      BY <1>4, <3>1, Zenon
    <3> QED  BY <3>3, <3>4, <3>5, Zenon
  <2> QED  BY <2>1, <2>2
<1>10. d2.ret = t
  BY <1>1, <1>5, <1>7, Zenon DEF Copies
<1>11. Unpacks(e, d2, q.of)
  <2>1. d2.ret \in Seq(Octets) /\ \A k \in 1..Len(d2.ret) : d2.ret[k] = e.messages[q.of][k]
    BY <1>1, <1>8, <1>9, <1>10
  <2> QED  BY <2>1, Zenon DEF Unpacks, Gone, Copies
<1> QED  BY <1>1, <1>8, <1>10, <1>11

\* A packet of data is within its message.
LEMMA DataFits ==
    ASSUME NEW e, NEW U, NEW d, Decodes(e, U, d), d.state = "READ_DATA"
    PROVE  \E q \in U : /\ Unpacks(e, d, q.of) /\ Data(e, Len(d.ret), q, d.msg, d.rd)
                        /\ q.at = d.rd + d.msg /\ q.at <= Len(e.wire) /\ q.at \in Nat
                        /\ Len(d.ret) + d.msg = q.done /\ q.done <= d.size /\ q.done \in Nat
                        /\ d.vlq = NoDigits /\ d.msg \in Nat /\ d.msg > 0
<1>1. WellWritten(e) /\ Trail(e, U) /\ Position(e, U, d)
  BY DecodesIs, Zenon
<1>2. AtData(e, U, d)
  BY <1>1 DEF Position, AtSize, AtHead, AtRun
<1>3. PICK q \in U : Unpacks(e, d, q.of) /\ Data(e, Len(d.ret), q, d.msg, d.rd)
  BY <1>2, Zenon DEF AtData
<1>4. q.at <= Len(e.wire) /\ q.at \in Nat /\ q.done \in Nat
  BY <1>1, PointIs, Zenon
<1>5. q.done <= d.size
  BY <1>1, <1>3, PacketIsMore, Zenon
<1> QED  BY <1>2, <1>3, <1>4, <1>5, Zenon DEF AtData, Data

LEMMA ReadDataKeeps ==
    ASSUME NEW e, NEW U, NEW d, Decodes(e, U, d), d.state = "READ_DATA", d.inFeed, d.msg \in Nat,
           NEW l \in Nat, l > 0, l <= d.msg,
           NEW d2, Copies(e, d, d2, d.rd, l), d2.rd = d.rd + l,
           d2.state = (IF l < d.msg THEN "READ_DATA" ELSE "START"),
           d2.msg = (IF l < d.msg THEN d.msg - l ELSE d.msg),
           d2.vlq = d.vlq, d2.inFeed
    PROVE  Decodes(e, U, d2)
<1>1. WellWritten(e) /\ Trail(e, U) /\ AllWritten(e) /\ d.rd \in Nat /\ d2.received \in Seq(Seq(Octets))
  BY DecodesIs, Zenon DEF Copies
<1>2. PICK q \in U : /\ Unpacks(e, d, q.of) /\ Data(e, Len(d.ret), q, d.msg, d.rd)
                     /\ q.at = d.rd + d.msg /\ q.at <= Len(e.wire)
                     /\ Len(d.ret) + d.msg = q.done /\ d.vlq = NoDigits
  BY DataFits, Zenon
<1>3. Unpacks(e, d2, q.of) /\ Len(d2.ret) = Len(d.ret) + l
  <2>1. PICK m \in Nat, r \in Nat : m = d.msg /\ r = d.rd
    BY <1>1
  <2>2. Data(e, Len(d.ret), q, m, r) /\ l <= m /\ Copies(e, d, d2, r, l)
    BY <1>2, <2>1
  <2> QED  BY <1>1, <1>2, <2>2, DataCopied
<1>4. Len(d.ret) \in Nat
  BY <1>1, <1>2, PacketIsMore, Zenon
<1>5. ASSUME l < d.msg PROVE Position(e, U, d2)
  <2>1. d2.state = "READ_DATA" /\ d2.msg = d.msg - l
    BY <1>5
  <2>2. PICK r, m, k, b \in Nat : r = d.rd /\ m = d.msg /\ k = d.msg - l /\ b = Len(d.ret)
    <3>1. d.rd \in Nat /\ d.msg \in Nat /\ d.msg - l \in Nat /\ Len(d.ret) \in Nat
      BY <1>1, <1>4, <1>5
    <3> QED  BY <3>1, Zenon
  <2>3. /\ q.done = b + m /\ q.at = r + m /\ k > 0 /\ m = l + k
        /\ \A j \in 1..m : e.wire[r + j] = e.messages[q.of][b + j]
    <3>1. q.done = b + m /\ q.at = r + m
      BY <1>2, <2>2
    <3>2. k > 0 /\ m = l + k
      BY <1>5, <2>2
    <3>3. \A j \in 1..m : e.wire[r + j] = e.messages[q.of][b + j]
      BY <1>2, <2>2, Zenon DEF Data
    <3> QED  BY <3>1, <3>2, <3>3
  <2>4. ASSUME NEW j \in 1..k PROVE e.wire[(r + l) + j] = e.messages[q.of][(b + l) + j]
    <3>1. l + j \in 1..m /\ (r + l) + j = r + (l + j) /\ (b + l) + j = b + (l + j)
      BY <2>3
    <3> QED  BY <2>3, <3>1
  <2>5. q.done = (b + l) + k /\ q.at = (r + l) + k
    BY <2>3
  <2>6. Data(e, b + l, q, k, r + l)
    BY <2>3, <2>4, <2>5, Zenon DEF Data
  <2>7. Data(e, Len(d2.ret), q, d2.msg, d2.rd)
    BY <1>3, <2>1, <2>2, <2>6
  <2>8. d2.vlq = NoDigits /\ d2.msg \in Nat
    BY <1>2, <2>1, <2>2
  <2> QED  BY <1>3, <2>1, <2>7, <2>8, Zenon DEF AtData, Position
<1>6. ASSUME ~ (l < d.msg) PROVE Position(e, U, d2)
  <2>1. l = d.msg /\ d2.state = "START" /\ d2.rd = q.at /\ Len(d2.ret) = q.done
    <3>1. l = d.msg /\ d2.state = "START"
      BY <1>6
    <3> QED  BY <1>2, <1>3, <3>1
  <2>2. d2.vlq = NoDigits /\ d2.inFeed
    BY <1>2
  <2> QED  BY <1>1, <1>3, <2>1, <2>2, HeadFollows, Zenon
<1>7. d2.rd \in Nat
  BY <1>1
<1>8. d2.vlq.num \in Nat /\ d2.vlq.weight \in Nat
  BY DecodesIs, Zenon
<1> QED  BY <1>1, <1>5, <1>6, <1>7, <1>8, Zenon DEF Decodes

\* A run is copied.
LEMMA RunCopied ==
    ASSUME NEW e, NEW U, AllWritten(e), Trail(e, U), NEW d, NEW q \in U, Unpacks(e, d, q.of),
           NEW offset \in Nat, NEW code \in Nat, Run(e, Len(d.ret), q, offset, code),
           NEW run, run = code + MinRun - 1
    PROVE  /\ offset <= Len(d.ret) /\ Len(d.ret) + run <= d.size
           /\ \A d2 : /\ d2.ret = Repeat(d.ret, offset, run) /\ d2.state = "START"
                      /\ d2.rd = q.at /\ d2.vlq = NoDigits /\ d2.size = d.size /\ d2.inFeed
                      /\ d2.received = d.received
                      => Position(e, U, d2)
<1>1. WellWritten(e)
  BY DEF AllWritten
<1>2. PICK s, M : s = d.ret /\ M = e.messages[q.of]
  OBVIOUS
<1>3. PICK c \in Nat : c = run /\ c > 0
  <2>1. code > 0
    BY Zenon DEF Run
  <2> QED  BY <2>1, Parameters
<1>4. /\ offset > 0 /\ offset <= Len(s) /\ q.done = Len(s) + c /\ Recurs(M, Len(s), offset, c)
  BY <1>2, <1>3, Zenon DEF Run
<1>5. /\ Len(s) \in Nat /\ d.size = Length(e, q.of) /\ q.done <= d.size
  BY <1>1, <1>2, PacketIsMore, Zenon
<1>6. s \in Seq(Octets) /\ q.of \in 1..e.packing /\ \A k \in 1..Len(s) : s[k] = M[k]
  BY <1>2, Zenon DEF Unpacks
<1>7. M \in Seq(Octets) /\ d.size = Len(M)
  <2>1. q.of \in 1..Len(e.messages)
    BY <1>6 DEF AllWritten
  <2> QED  BY <1>1, <1>2, <1>5, <2>1, LengthIs, Zenon
<1>8. Len(s) + c <= Len(M)
  BY <1>4, <1>5, <1>7
<1>9. PICK t : t = Repeat(s, offset, c)
  OBVIOUS
<1>10. t \in Seq(Octets) /\ Len(t) = Len(s) + c /\ \A k \in 1..(Len(s) + c) : t[k] = M[k]
  <2>1. /\ M \in Seq(Octets) /\ s \in Seq(Octets) /\ offset > 0 /\ offset <= Len(s)
        /\ \A k \in 1..Len(s) : s[k] = M[k]
        /\ Recurs(M, Len(s), offset, c)
    BY <1>4, <1>6, <1>7, Zenon
  <2>2. /\ Repeat(s, offset, c) \in Seq(Octets) /\ Len(Repeat(s, offset, c)) = Len(s) + c
        /\ \A k \in 1..(Len(s) + c) : Repeat(s, offset, c)[k] = M[k]
    BY <1>8, <2>1, RepeatIs, Zenon
  <2> QED  BY <1>9, <2>2, Zenon
<1>11. ASSUME NEW d2, d2.ret = t, d2.state = "START", d2.rd = q.at, d2.vlq = NoDigits,
              d2.size = d.size, d2.inFeed, d2.received = d.received
       PROVE  Position(e, U, d2)
  <2>1. Unpacks(e, d2, q.of)
    BY <1>2, <1>10, <1>11 DEF Unpacks, Gone
  <2>2. Len(d2.ret) = q.done
    BY <1>4, <1>10, <1>11
  <2> QED  BY <1>11, <2>1, <2>2, HeadFollows, Zenon
<1>12. offset <= Len(d.ret) /\ Len(d.ret) + run <= d.size
  BY <1>2, <1>3, <1>4, <1>7, <1>8
<1> QED  BY <1>2, <1>3, <1>9, <1>11, <1>12, Zenon

LEMMA ShortRunKeeps ==
    ASSUME NEW e, NEW U, NEW d, Decodes(e, U, d), d.state = "READ_RUN", d.msg % ShortrunMax > 0,
           NEW off, off = d.msg \div ShortrunMax,
           NEW run, run = (d.msg % ShortrunMax) + MinRun - 1
    PROVE  /\ off <= Len(d.ret) /\ Len(d.ret) + run <= d.size
           /\ \A d2 : /\ d2.ret = Repeat(d.ret, off, run) /\ d2.state = "START"
                      /\ d2.rd = d.rd /\ d2.vlq = d.vlq /\ d2.size = d.size /\ d2.inFeed
                      /\ d2.received = d.received
                      => Decodes(e, U, d2)
<1>1. /\ WellWritten(e) /\ Trail(e, U) /\ AllWritten(e) /\ Position(e, U, d) /\ d.rd \in Nat
      /\ d.received \in Seq(Seq(Octets))
  BY DecodesIs, Zenon
<1>2. AtRun(e, U, d)
  BY <1>1 DEF Position, AtSize, AtHead, AtData
<1>3. PICK q \in U : /\ Unpacks(e, d, q.of)
                     /\ \E offset, code \in Nat :
                          /\ Run(e, Len(d.ret), q, offset, code)
                          /\ \/ /\ code < ShortrunMax /\ d.msg = offset * ShortrunMax + code
                                /\ d.rd = q.at /\ d.vlq = NoDigits
                             \/ d.msg = offset * ShortrunMax
  BY <1>2, Zenon DEF AtRun
<1>4. PICK offset, code \in Nat :
        /\ Run(e, Len(d.ret), q, offset, code)
        /\ \/ /\ code < ShortrunMax /\ d.msg = offset * ShortrunMax + code
              /\ d.rd = q.at /\ d.vlq = NoDigits
           \/ d.msg = offset * ShortrunMax
  BY <1>3
<1>5. d.msg # offset * ShortrunMax
  <2> SUFFICES ASSUME d.msg = offset * ShortrunMax PROVE FALSE
    OBVIOUS
  <2>1. d.msg % ShortrunMax = 0
    BY ShortrunIs, Zenon
  <2> QED  BY <2>1
<1>6. /\ d.msg % ShortrunMax = code /\ off = offset /\ d.rd = q.at /\ d.vlq = NoDigits
  BY <1>4, <1>5, ShortrunIs, Zenon
<1>7. run = code + MinRun - 1
  BY <1>6
<1>8. /\ off <= Len(d.ret) /\ Len(d.ret) + run <= d.size
      /\ \A d2 : /\ d2.ret = Repeat(d.ret, offset, run) /\ d2.state = "START"
                 /\ d2.rd = q.at /\ d2.vlq = NoDigits /\ d2.size = d.size /\ d2.inFeed
                 /\ d2.received = d.received
                 => Position(e, U, d2)
  BY <1>1, <1>3, <1>4, <1>6, <1>7, RunCopied, Zenon
<1> QED  BY <1>1, <1>6, <1>8, NoDigitsIs, Zenon DEF Decodes

LEMMA LongRunKeeps ==
    ASSUME NEW e, NEW U, NEW d, Decodes(e, U, d), d.state = "READ_RUN", d.msg % ShortrunMax = 0,
           d.rd < Len(e.wire), e.wire[d.rd + 1] < VlqBase,
           NEW off, off = d.msg \div ShortrunMax,
           NEW run, run = TheNumber(e, d) + MinRun - 1
    PROVE  /\ off <= Len(d.ret) /\ Len(d.ret) + run <= d.size
           /\ \A d2 : /\ d2.ret = Repeat(d.ret, off, run) /\ d2.state = "START"
                      /\ d2.rd = d.rd + 1 /\ d2.vlq = NoDigits /\ d2.size = d.size /\ d2.inFeed
                      /\ d2.received = d.received
                      => Decodes(e, U, d2)
<1>1. /\ WellWritten(e) /\ Trail(e, U) /\ AllWritten(e) /\ d.rd \in Nat
      /\ d.received \in Seq(Seq(Octets)) /\ d.rd + 1 \in Nat
  BY DecodesIs
<1>2. d.state # "INIT" /\ d.state # "START"
  OBVIOUS
<1>3. PICK q \in U : /\ Unpacks(e, d, q.of)
                     /\ \E offset, code \in Nat :
                          /\ Run(e, Len(d.ret), q, offset, code)
                          /\ d.msg = offset * ShortrunMax
                          /\ Reads(e.wire, d.vlq, d.rd, code, q.at)
  BY <1>2, NumberDue, Zenon DEF DueNumber
<1>4. PICK offset, code \in Nat :
        /\ Run(e, Len(d.ret), q, offset, code) /\ d.msg = offset * ShortrunMax
        /\ Reads(e.wire, d.vlq, d.rd, code, q.at)
  BY <1>3
<1>5. PICK end : end = q.at
  OBVIOUS
<1>6. TheNumber(e, d) = code /\ end = d.rd + 1
  BY <1>4, <1>5, DueDigit, Zenon
<1>7. off = offset
  BY <1>4, ShortrunIs, Zenon
<1>8. run = code + MinRun - 1
  BY <1>6
<1>9. /\ off <= Len(d.ret) /\ Len(d.ret) + run <= d.size
      /\ \A d2 : /\ d2.ret = Repeat(d.ret, offset, run) /\ d2.state = "START"
                 /\ d2.rd = q.at /\ d2.vlq = NoDigits /\ d2.size = d.size /\ d2.inFeed
                 /\ d2.received = d.received
                 => Position(e, U, d2)
  BY <1>1, <1>3, <1>4, <1>7, <1>8, RunCopied, Zenon
<1>10. \A d2 : d2.rd = d.rd + 1 => d2.rd \in Nat /\ d2.rd = q.at
  BY <1>1, <1>5, <1>6
<1> QED  BY <1>1, <1>7, <1>9, <1>10, NoDigitsIs, Zenon DEF Decodes

\* A message that is complete is given out.
LEMMA ReturnDoneKeeps ==
    ASSUME NEW e, NEW U, NEW d, Decodes(e, U, d), d.state = "START", Len(d.ret) = d.size,
           NEW d2, d2.state = "INIT", ~ d2.inFeed, d2.received = Append(d.received, d.ret),
           d2.vlq = d.vlq, d2.rd = d.rd
    PROVE  Decodes(e, U, d2)
<1>1. /\ WellWritten(e) /\ Trail(e, U) /\ AllWritten(e) /\ Position(e, U, d) /\ d.rd \in Nat
      /\ d.vlq.num \in Nat /\ d.vlq.weight \in Nat
  BY DecodesIs, Zenon
<1>2. AtHead(e, U, d)
  BY <1>1 DEF Position, AtSize, AtRun, AtData
<1>3. PICK q \in U :
          /\ Unpacks(e, d, q.of)
          /\ \/ Complete(e, q) /\ d.rd = q.at /\ d.vlq = NoDigits
             \/ \E n, mid \in Nat : Packet(e, Len(d.ret), q, n, mid)
  BY <1>2, Zenon DEF AtHead
<1>4. ~ \E n, mid \in Nat : Packet(e, Len(d.ret), q, n, mid)
  <2>1. ~ (Len(d.ret) < d.size) /\ \A n, mid : Packet(e, Len(d.ret), q, n, mid) => Len(d.ret) < d.size
    <3>1. Len(d.ret) \in Nat /\ \A n, mid : Packet(e, Len(d.ret), q, n, mid) => Len(d.ret) < d.size
      BY <1>1, <1>3, PacketIsMore, Zenon
    <3> QED  BY <3>1
  <2> QED  BY <2>1, Zenon
<1>5. Complete(e, q) /\ d.rd = q.at /\ d.vlq = NoDigits
  BY <1>3, <1>4, Zenon
<1>6. PICK m \in 1..Len(e.messages) : m = q.of
  <2>1. q.of \in 1..e.packing
    BY <1>3, Zenon DEF Unpacks
  <2> QED  BY <1>1, <2>1 DEF AllWritten
<1>7. PICK s, M, list, r : s = d.ret /\ M = e.messages[m] /\ list = e.messages /\ r = d.received
  OBVIOUS
<1>8. /\ list \in Seq(Seq(Octets)) /\ r \in Seq(Seq(Octets)) /\ s \in Seq(Octets) /\ M \in Seq(Octets)
      /\ M = list[m] /\ m \in 1..Len(list)
  BY <1>1, <1>3, <1>7, LengthIs, DecodesIs, Zenon DEF Unpacks, WellWritten
<1>9. s = M
  <2>1. d.size = Len(M) /\ \A k \in 1..Len(s) : s[k] = M[k]
    BY <1>1, <1>3, <1>6, <1>7, LengthIs, Zenon DEF Unpacks
  <2> QED  BY <1>7, <1>8, <2>1, SeqEqual
<1>10. NotEmpty(r) = NotEmpty(SubSeq(list, 1, m - 1))
  BY <1>3, <1>6, <1>7, Zenon DEF Unpacks, Gone
<1>11. NotEmpty(Append(r, s)) = NotEmpty(SubSeq(list, 1, m))
  <2>1. SubSeq(list, 1, m) = Append(SubSeq(list, 1, m - 1), M)
    BY <1>8, Beginnings, Zenon
  <2>2. m - 1 \in 0..Len(list)
    BY <1>8, LenProperties
  <2>3. PICK b \in Seq(Seq(Octets)) : b = SubSeq(list, 1, m - 1)
    BY <1>8, <2>2, Beginnings, Zenon
  <2>4. NotEmpty(Append(b, M)) = IF M = <<>> THEN NotEmpty(b) ELSE Append(NotEmpty(b), M)
    BY <1>8, <2>3, NotEmptyAppend, Zenon
  <2>5. NotEmpty(Append(r, M)) = IF M = <<>> THEN NotEmpty(r) ELSE Append(NotEmpty(r), M)
    BY <1>8, NotEmptyAppend, Zenon
  <2> QED  BY <1>9, <1>10, <2>1, <2>3, <2>4, <2>5, Zenon
<1>12. Append(r, s) \in Seq(Seq(Octets))
  BY <1>8, AppendProperties
<1>13. Gone(e, d2, q.of) /\ d2.received \in Seq(Seq(Octets))
  BY <1>6, <1>7, <1>11, <1>12, Zenon DEF Gone
<1>14. Position(e, U, d2)
  BY <1>1, <1>5, <1>13, SizeFollows, Zenon
<1> QED  BY <1>1, <1>13, <1>14, Zenon DEF Decodes

\* Nothing is given out for a chunk that ends inside a size.
LEMMA ReturnAtSizeKeeps ==
    ASSUME NEW e, NEW U, NEW d, Decodes(e, U, d), d.state = "INIT", d.inFeed,
           NEW d2, d2.state = "INIT", ~ d2.inFeed, d2.received = Append(d.received, d.ret),
           d2.vlq = d.vlq, d2.rd = d.rd, d2.ret = d.ret
    PROVE  Decodes(e, U, d2)
<1>1. /\ WellWritten(e) /\ Trail(e, U) /\ AllWritten(e) /\ Position(e, U, d) /\ d.rd \in Nat
      /\ d.vlq.num \in Nat /\ d.vlq.weight \in Nat /\ d.received \in Seq(Seq(Octets))
  BY DecodesIs, Zenon
<1>2. AtSize(e, U, d)
  BY <1>1 DEF Position, AtHead, AtRun, AtData
<1>3. d.ret = <<>> /\ <<>> \in Seq(Octets)
  BY <1>2 DEF AtSize
<1>4. /\ d2.received \in Seq(Seq(Octets)) /\ NotEmpty(d2.received) = NotEmpty(d.received)
  <2>1. PICK r \in Seq(Seq(Octets)), x \in Seq(Octets) : r = d.received /\ x = d.ret /\ x = <<>>
    BY <1>1, <1>3
  <2>2. NotEmpty(Append(r, x)) = IF x = <<>> THEN NotEmpty(r) ELSE Append(NotEmpty(r), x)
    BY NotEmptyAppend, Zenon
  <2>3. Append(r, x) \in Seq(Seq(Octets))
    BY AppendProperties
  <2> QED  BY <2>1, <2>2, <2>3, Zenon
<1>5. AtSize(e, U, d2)
  BY <1>2, <1>4, Zenon DEF AtSize, Gone
<1> QED  BY <1>1, <1>4, <1>5, Zenon DEF Decodes, Position

\* A feed ends in the middle of something, and the next one takes it up there.
LEMMA ReturnMoreKeeps ==
    ASSUME NEW e, NEW U, NEW d, Decodes(e, U, d), Len(d.ret) < d.size, d.state # "INIT",
           d.state = "READ_RUN" => d.msg % ShortrunMax = 0,
           NEW d2, d2.state = d.state, ~ d2.inFeed, d2.received = d.received, d2.msg = d.msg,
           d2.vlq = d.vlq, d2.rd = d.rd, d2.ret = d.ret, d2.size = d.size
    PROVE  Decodes(e, U, d2)
<1>1. /\ WellWritten(e) /\ Trail(e, U) /\ AllWritten(e) /\ Position(e, U, d) /\ d.rd \in Nat
      /\ d.vlq.num \in Nat /\ d.vlq.weight \in Nat /\ d.received \in Seq(Seq(Octets))
  BY DecodesIs, Zenon
<1>2. \A m : Unpacks(e, d, m) => Unpacks(e, d2, m)
  BY Zenon DEF Unpacks, Gone
<1>3. CASE AtHead(e, U, d)
  <2>1. PICK q \in U :
          /\ Unpacks(e, d, q.of)
          /\ \/ Complete(e, q) /\ Len(d.ret) = q.done
             \/ \E n, mid \in Nat :
                   Packet(e, Len(d.ret), q, n, mid) /\ Reads(e.wire, d.vlq, d.rd, n, mid)
    BY <1>3, Zenon DEF AtHead
  <2>2. ~ (Complete(e, q) /\ Len(d.ret) = q.done)
    <3>1. d.size \in Nat /\ d.size = Length(e, q.of)
      BY <1>1, <2>1, PacketIsMore, Zenon
    <3> QED  BY <3>1 DEF Complete
  <2>3. d2.state = "START"
    BY <1>3, Zenon DEF AtHead
  <2>4. AtHead(e, U, d2)
    BY <1>2, <2>1, <2>2, <2>3, Zenon DEF AtHead
  <2> QED  BY <1>1, <2>4, Zenon DEF Decodes, Position
<1>4. CASE AtData(e, U, d)
  <2>1. AtData(e, U, d2)
    BY <1>2, <1>4, Zenon DEF AtData
  <2> QED  BY <1>1, <2>1, Zenon DEF Decodes, Position
<1>5. CASE AtRun(e, U, d)
  <2>1. DueNumber(d) /\ d.state = "READ_RUN"
    BY <1>5 DEF AtRun, DueNumber
  <2>2. PICK q \in U : /\ Unpacks(e, d, q.of)
                       /\ \E offset, code \in Nat :
                          /\ Run(e, Len(d.ret), q, offset, code)
                          /\ \/ code < ShortrunMax /\ d.msg = offset * ShortrunMax + code
                             \/ /\ code >= ShortrunMax /\ d.msg = offset * ShortrunMax
                                /\ Reads(e.wire, d.vlq, d.rd, code, q.at)
    BY <1>5, Zenon DEF AtRun
  <2>3. PICK offset, code \in Nat :
          /\ Run(e, Len(d.ret), q, offset, code)
          /\ \/ code < ShortrunMax /\ d.msg = offset * ShortrunMax + code
             \/ /\ code >= ShortrunMax /\ d.msg = offset * ShortrunMax
                /\ Reads(e.wire, d.vlq, d.rd, code, q.at)
    BY <2>2
  <2>4. ~ (code < ShortrunMax /\ d.msg = offset * ShortrunMax + code)
    <3> SUFFICES ASSUME code < ShortrunMax, d.msg = offset * ShortrunMax + code PROVE FALSE
      OBVIOUS
    <3>1. d.msg % ShortrunMax = code
      BY ShortrunIs, Zenon
    <3>2. code > 0
      BY <2>3, Zenon DEF Run
    <3>3. d.msg % ShortrunMax = 0
      BY <2>1
    <3> QED  BY <3>1, <3>2, <3>3
  <2>5. AtRun(e, U, d2)
    BY <1>2, <2>1, <2>2, <2>3, <2>4, Zenon DEF AtRun
  <2> QED  BY <1>1, <2>5, Zenon DEF Decodes, Position
<1> QED  BY <1>1, <1>3, <1>4, <1>5 DEF Position, AtSize

\* The caller feeds what was left over, and more.
LEMMA FeedKeeps ==
    ASSUME NEW e, NEW U, NEW d, Decodes(e, U, d), ~ d.inFeed,
           NEW d2, d2.state = d.state, d2.inFeed, d2.received = d.received, d2.msg = d.msg,
           d2.vlq = d.vlq, d2.rd = d.rd, d2.size = d.size,
           d2.ret = (IF d.state = "INIT" THEN <<>> ELSE d.ret)
    PROVE  Decodes(e, U, d2)
<1>1. /\ WellWritten(e) /\ Trail(e, U) /\ AllWritten(e) /\ Position(e, U, d) /\ d.rd \in Nat
      /\ d.vlq.num \in Nat /\ d.vlq.weight \in Nat /\ d.received \in Seq(Seq(Octets))
  BY DecodesIs, Zenon
<1>2. CASE AtSize(e, U, d)
  <2>1. d2.ret = <<>> /\ d2.state = "INIT"
    BY <1>2 DEF AtSize
  <2>2. AtSize(e, U, d2)
    BY <1>2, <2>1, Zenon DEF AtSize, Gone
  <2> QED  BY <1>1, <2>2, Zenon DEF Decodes, Position
<1>3. ASSUME d2.ret = d.ret PROVE \A m : Unpacks(e, d, m) => Unpacks(e, d2, m)
  BY <1>3, Zenon DEF Unpacks, Gone
<1>4. CASE AtHead(e, U, d)
  <2>1. d2.ret = d.ret
    BY <1>4 DEF AtHead
  <2>2. AtHead(e, U, d2)
    BY <1>3, <1>4, <2>1, Zenon DEF AtHead
  <2> QED  BY <1>1, <2>2, Zenon DEF Decodes, Position
<1>5. CASE AtData(e, U, d)
  <2>1. d2.ret = d.ret
    BY <1>5 DEF AtData
  <2>2. AtData(e, U, d2)
    BY <1>3, <1>5, <2>1, Zenon DEF AtData
  <2> QED  BY <1>1, <2>2, Zenon DEF Decodes, Position
<1>6. CASE AtRun(e, U, d)
  <2>1. d2.ret = d.ret
    BY <1>6 DEF AtRun
  <2>2. AtRun(e, U, d2)
    BY <1>3, <1>6, <2>1, Zenon DEF AtRun
  <2> QED  BY <1>1, <2>2, Zenon DEF Decodes, Position
<1> QED  BY <1>1, <1>2, <1>4, <1>5, <1>6, Zenon DEF Position

-----------------------------------------------------------------------------
(* The invariant of the codec.                                             *)

Written == [wire |-> wire, messages |-> messages, packing |-> packing, done |-> i - Len(unc)]
Decoder == [state |-> state, vlq |-> vlq, msg |-> msg, size |-> size, ret |-> ret, rd |-> rd,
            chunkEnd |-> chunkEnd, inFeed |-> inFeed, received |-> received, thrown |-> thrown]

\* The octets u of the current message, up to n, wait for a packet.
Waits(e, u, n) ==
    /\ OnTrail(e)
    /\ u \in Seq(Octets) /\ n \in Nat
    /\ n = e.done + Len(u) /\ n <= Length(e, e.packing)
    /\ \A k \in 1..Len(u) : u[k] = e.messages[e.packing][e.done + k]

AllPacked(e, u, n) ==
    e.packing = Len(e.messages) /\ ~ (e.packing > 0 /\ n < Len(e.messages[e.packing])) /\ u = <<>>

\* Nothing was fed yet.
Idle(d) ==
    /\ d.state = "INIT" /\ d.vlq = NoDigits /\ d.rd = 0 /\ d.chunkEnd = 0
    /\ d.inFeed = FALSE /\ d.received = <<>> /\ d.thrown = "none"

\* The decoder is on the trail, or was stopped by a size it refuses.
OnItsWay(e, d) ==
    /\ d.thrown = "none" => \E U : Decodes(e, U, d)
    /\ d.thrown # "none" => /\ d.thrown = "length_error" /\ ~ d.inFeed
                            /\ \E m \in 0..e.packing : Gone(e, d, m)

Good(e, u, n, d) ==
    /\ Waits(e, u, n)
    /\ d.rd \in Nat /\ d.chunkEnd \in Nat /\ d.rd <= d.chunkEnd /\ d.chunkEnd <= Len(e.wire)
    /\ d.inFeed \in BOOLEAN
    /\ ~ AllPacked(e, u, n) => Idle(d)
    /\ AllPacked(e, u, n) => OnItsWay(e, d)

IInv == \E e, u, n, d : e = Written /\ u = unc /\ n = i /\ d = Decoder /\ Good(e, u, n, d)

LEMMA WaitsIs ==
    ASSUME NEW e, NEW u, NEW n, Waits(e, u, n)
    PROVE  /\ OnTrail(e) /\ WellWritten(e) /\ u \in Seq(Octets) /\ Len(u) \in Nat /\ n \in Nat
           /\ e.done \in Nat /\ n = e.done + Len(u) /\ e.packing \in Nat
           /\ Len(e.messages) \in Nat /\ Length(e, e.packing) \in Nat /\ n <= Length(e, e.packing)
           /\ e.packing > 0 => e.packing \in 1..Len(e.messages) /\ e.messages[e.packing] \in Seq(Octets)
                               /\ Length(e, e.packing) = Len(e.messages[e.packing])
<1>1. WellWritten(e)
  BY DEF Waits, OnTrail
<1>2. OnTrail(e) /\ u \in Seq(Octets) /\ n \in Nat /\ n = e.done + Len(u) /\ n <= Length(e, e.packing)
  BY DEF Waits
<1>3. Len(u) \in Nat
  BY <1>2, LenProperties
<1>4. /\ e.packing \in Nat /\ Len(e.messages) \in Nat /\ e.packing \in 0..Len(e.messages)
      /\ Length(e, e.packing) \in Nat
  BY <1>1, LengthIs DEF WellWritten
<1>5. e.done \in Nat
  BY <1>1, <1>4 DEF WellWritten
<1>6. e.packing > 0 => e.packing \in 1..Len(e.messages)
  BY <1>4
<1> QED  BY <1>1, <1>2, <1>3, <1>4, <1>5, <1>6, LengthIs, Zenon

\* When all is packed, all is written.
LEMMA AllPackedIs ==
    ASSUME NEW e, NEW u, NEW n, Waits(e, u, n), AllPacked(e, u, n)
    PROVE  AllWritten(e)
<1>1. /\ WellWritten(e) /\ n \in Nat /\ n = e.done + Len(u) /\ e.done \in Nat /\ e.packing \in Nat
      /\ Length(e, e.packing) \in Nat /\ n <= Length(e, e.packing)
      /\ e.packing > 0 => Length(e, e.packing) = Len(e.messages[e.packing])
  BY WaitsIs, Zenon
<1>2. Len(u) = 0
  BY EmptySeq DEF AllPacked
<1>3. e.done = n
  BY <1>1, <1>2
<1>4. CASE e.packing = 0
  <2>1. Length(e, e.packing) = 0
    BY <1>4 DEF Length
  <2>2. e.done = Length(e, e.packing)
    BY <1>1, <1>3, <2>1
  <2> QED  BY <1>1, <2>2, Zenon DEF AllWritten, AllPacked
<1>5. CASE e.packing > 0
  <2>1. ~ (n < Length(e, e.packing))
    BY <1>1, <1>5 DEF AllPacked
  <2>2. e.done = Length(e, e.packing)
    BY <1>1, <1>3, <2>1
  <2> QED  BY <1>1, <2>2, Zenon DEF AllWritten, AllPacked
<1> QED  BY <1>1, <1>4, <1>5

\* Before anything is fed, the decoder stands at the start of the trail.
LEMMA IdleIsGood ==
    ASSUME NEW e, NEW u, NEW n, NEW d, Waits(e, u, n), Idle(d)
    PROVE  Good(e, u, n, d)
<1>1. WellWritten(e) /\ Len(e.wire) \in Nat
  BY WaitsIs, LengthIs, Zenon
<1>2. ASSUME AllPacked(e, u, n) PROVE \E U : Decodes(e, U, d)
  <2>1. AllWritten(e)
    BY <1>2, AllPackedIs
  <2>2. PICK U : Trail(e, U)
    BY DEF Waits, OnTrail
  <2>3. PICK p \in U : p = StartPoint
    BY <2>2 DEF Trail
  <2>4. p.at = 0 /\ p.of = 0 /\ p.done = 0
    BY <2>3 DEF StartPoint
  <2>5. Complete(e, p)
    BY <2>4 DEF Complete, Length
  <2>6. SubSeq(e.messages, 1, 0) = <<>>
    BY <1>1, Beginnings, Zenon DEF WellWritten
  <2>7. Gone(e, d, p.of)
    BY <2>4, <2>6, Zenon DEF Gone, Idle
  <2>8. d.state = "INIT" /\ d.rd = p.at /\ d.vlq = NoDigits /\ ~ d.inFeed /\ d.rd \in Nat
        /\ d.received \in Seq(Seq(Octets))
    BY <2>4 DEF Idle
  <2>9. Position(e, U, d)
    BY <2>1, <2>2, <2>5, <2>7, <2>8, SizeFollows, Zenon
  <2> QED  BY <2>1, <2>2, <2>8, <2>9, NoDigitsIs, Zenon DEF Decodes
<1>3. /\ d.rd \in Nat /\ d.chunkEnd \in Nat /\ d.rd <= d.chunkEnd /\ d.chunkEnd <= Len(e.wire)
      /\ d.inFeed \in BOOLEAN /\ d.thrown = "none"
  <2>1. d.rd = 0 /\ d.chunkEnd = 0 /\ d.inFeed = FALSE /\ d.thrown = "none"
    BY Zenon DEF Idle
  <2>2. d.rd \in Nat /\ d.chunkEnd \in Nat /\ d.rd <= d.chunkEnd
    BY <2>1
  <2>3. d.chunkEnd <= Len(e.wire)
    BY <1>1, <2>1
  <2>4. d.inFeed \in BOOLEAN
    BY <2>1
  <2> QED  BY <2>1, <2>2, <2>3, <2>4
<1> QED  BY <1>2, <1>3, Zenon DEF Good, OnItsWay

\* The steps of a feed stay on the trail.
LEMMA FeedIsGood ==
    ASSUME NEW e, NEW u, NEW n, NEW d, Good(e, u, n, d), d.inFeed
    PROVE  /\ \E U : Decodes(e, U, d)
           /\ d.thrown = "none" /\ AllWritten(e) /\ OnTrail(e)
           /\ d.rd \in Nat /\ d.chunkEnd \in Nat /\ d.rd <= d.chunkEnd /\ d.chunkEnd <= Len(e.wire)
           /\ Len(e.wire) \in Nat
           /\ \A d2 : /\ \E U : Decodes(e, U, d2)
                      /\ d2.thrown = "none" /\ d2.rd <= d.chunkEnd /\ d2.chunkEnd = d.chunkEnd
                      /\ d2.inFeed \in BOOLEAN
                      => Good(e, u, n, d2)
<1>1. AllPacked(e, u, n) /\ OnItsWay(e, d)
  BY Zenon DEF Good, Idle
<1>2. d.thrown = "none" /\ \E U : Decodes(e, U, d)
  BY <1>1, Zenon DEF OnItsWay
<1>3. /\ d.rd \in Nat /\ d.chunkEnd \in Nat /\ d.rd <= d.chunkEnd /\ d.chunkEnd <= Len(e.wire)
      /\ Waits(e, u, n)
  BY DEF Good
<1>4. AllWritten(e) /\ OnTrail(e) /\ Len(e.wire) \in Nat
  BY <1>1, <1>3, AllPackedIs, WaitsIs, LengthIs, Zenon
<1>5. ASSUME NEW d2, \E U : Decodes(e, U, d2), d2.thrown = "none", d2.rd <= d.chunkEnd,
             d2.chunkEnd = d.chunkEnd, d2.inFeed \in BOOLEAN
      PROVE  Good(e, u, n, d2)
  <2>1. d2.rd \in Nat
    BY <1>5, DecodesIs, Zenon
  <2>2. OnItsWay(e, d2)
    BY <1>5, Zenon DEF OnItsWay
  <2> QED  BY <1>1, <1>3, <1>5, <2>1, <2>2, Zenon DEF Good
<1> QED  BY <1>2, <1>3, <1>4, <1>5, Zenon

LEMMA InitIInv == Init => IInv
<1> SUFFICES ASSUME Init PROVE IInv
  OBVIOUS
<1>1. PICK e, d : e = Written /\ d = Decoder
  OBVIOUS
<1>2. /\ e.wire = <<>> /\ e.packing = 0 /\ e.done = 0 /\ e.messages = messages
      /\ unc = <<>> /\ i = 0
  <2>1. unc = <<>> /\ i = 0 /\ wire = <<>> /\ packing = 0
    BY DEF Init
  <2>2. i - Len(unc) = 0
    <3>1. i = 0 /\ Len(unc) = 0
      BY <2>1, EmptySeq
    <3> QED  BY <3>1
  <2> QED  BY <1>1, <2>1, <2>2 DEF Written
<1>3. e.messages \in Seq(Seq(Octets))
  BY <1>2, Parameters DEF Init
<1>4. WellWritten(e)
  <2>1. Len(e.messages) \in Nat /\ Length(e, e.packing) = 0 /\ <<>> \in Seq(Octets)
    BY <1>2, <1>3, LenProperties DEF Length
  <2>2. e.packing \in 0..Len(e.messages) /\ e.done \in 0..Length(e, e.packing)
    BY <1>2, <2>1
  <2> QED  BY <1>2, <1>3, <2>1, <2>2, Zenon DEF WellWritten
<1>5. OnTrail(e)
  BY <1>2, <1>4, TrailBegins, Zenon DEF OnTrail
<1>6. Waits(e, unc, i)
  <2>1. unc \in Seq(Octets) /\ Len(unc) = 0
    BY <1>2
  <2>2. Length(e, e.packing) = 0
    BY <1>2 DEF Length
  <2>3. i \in Nat /\ i = e.done + Len(unc) /\ i <= Length(e, e.packing)
    BY <1>2, <2>1, <2>2
  <2>4. \A k \in 1..Len(unc) : unc[k] = e.messages[e.packing][e.done + k]
    BY <2>1
  <2> QED  BY <1>5, <2>1, <2>3, <2>4, Zenon DEF Waits
<1>7. Idle(d)
  BY <1>1 DEF Init, Decoder, Idle
<1>8. Good(e, unc, i, d)
  BY <1>6, <1>7, IdleIsGood, Zenon
<1> QED  BY <1>1, <1>8, Zenon DEF IInv

\* The variables of the two parts, as records.
LEMMA WrittenIs ==
    /\ Written.wire = wire /\ Written.messages = messages /\ Written.packing = packing
    /\ Written.done = i - Len(unc)
BY DEF Written

LEMMA DecoderIs ==
    /\ Decoder.state = state /\ Decoder.vlq = vlq /\ Decoder.msg = msg /\ Decoder.size = size
    /\ Decoder.ret = ret /\ Decoder.rd = rd /\ Decoder.chunkEnd = chunkEnd
    /\ Decoder.inFeed = inFeed /\ Decoder.received = received /\ Decoder.thrown = thrown
BY DEF Decoder

LEMMA StartMessageStep ==
    ASSUME NEW e, e = Written, Waits(e, unc, i), StartMessage,
           NEW e2, e2 = Written'
    PROVE  Waits(e2, unc', i') /\ ~ AllPacked(e, unc, i)
<1>1. /\ e.wire = wire /\ e.messages = messages /\ e.packing = packing
      /\ packing < Len(messages) /\ ~ Packing /\ unc = <<>>
      /\ packing' = packing + 1 /\ i' = 0 /\ unc' = unc /\ messages' = messages
      /\ wire' = wire \o push_vlq_uint[Len(messages[packing + 1])]
  BY WrittenIs DEF StartMessage
<1>2. /\ e2.wire = wire' /\ e2.messages = messages' /\ e2.packing = packing' /\ e2.done = i' - Len(unc')
  BY DEF Written
<1>3. /\ OnTrail(e) /\ i \in Nat /\ i = e.done + Len(unc) /\ e.done \in Nat /\ e.packing \in Nat
      /\ Length(e, e.packing) \in Nat /\ i <= Length(e, e.packing) /\ Len(e.messages) \in Nat
      /\ e.packing > 0 => Length(e, e.packing) = Len(e.messages[e.packing])
  BY WaitsIs, Zenon
<1>4. Len(unc) = 0 /\ unc \in Seq(Octets) /\ Len(unc') = 0 /\ unc' \in Seq(Octets)
  <2>1. <<>> \in Seq(Octets) /\ Len(<<>>) = 0
    OBVIOUS
  <2> QED  BY <1>1, <2>1, Zenon
<1>5. e.done = Length(e, e.packing)
  <2>1. e.packing = 0 => Length(e, e.packing) = 0
    BY DEF Length
  <2>2. e.packing > 0 => ~ (i < Length(e, e.packing))
    BY <1>1, <1>3 DEF Packing, Message
  <2>3. i = Length(e, e.packing)
    BY <1>3, <2>1, <2>2
  <2> QED  BY <1>3, <1>4, <2>3
<1>6. e2.done = 0 /\ i' = 0 /\ unc' = <<>> /\ e2.packing = e.packing + 1 /\ e2.messages = e.messages
      /\ e.packing < Len(e.messages)
      /\ e2.wire = e.wire \o push_vlq_uint[Len(e.messages[e.packing + 1])]
  <2>1. i' - Len(unc') = 0
    <3>1. i' = 0 /\ Len(unc') = 0
      BY <1>1, <1>4, Zenon
    <3> QED  BY <3>1
  <2>2. e2.wire = e.wire \o push_vlq_uint[Len(e.messages[e.packing + 1])]
    BY <1>1, <1>2, Zenon
  <2> QED  BY <1>1, <1>2, <2>1, <2>2, Zenon
<1>7. OnTrail(e2)
  BY <1>3, <1>5, <1>6, SizeWritten, Zenon
<1>8. Length(e2, e2.packing) \in Nat
  BY <1>7, LengthIs DEF OnTrail, WellWritten
<1>9. Waits(e2, unc', i')
  <2>1. i' \in Nat /\ i' = e2.done + Len(unc') /\ i' <= Length(e2, e2.packing)
    BY <1>4, <1>6, <1>8
  <2>2. \A k \in 1..Len(unc') : unc'[k] = e2.messages[e2.packing][e2.done + k]
    BY <1>4, <1>6
  <2> QED  BY <1>4, <1>6, <1>7, <2>1, <2>2, Zenon DEF Waits
<1>10. e.packing # Len(e.messages)
  BY <1>3, <1>6
<1> QED  BY <1>9, <1>10, Zenon DEF AllPacked

LEMMA PassOctetStep ==
    ASSUME NEW e, e = Written, Waits(e, unc, i), PassOctet,
           NEW e2, e2 = Written'
    PROVE  Waits(e2, unc', i') /\ ~ AllPacked(e, unc, i)
<1>1. /\ e.wire = wire /\ e.messages = messages /\ e.packing = packing /\ e.done = i - Len(unc)
      /\ packing > 0 /\ i < Len(messages[packing])
      /\ unc' = Append(unc, messages[packing][i + 1])
      /\ packing' = packing /\ i' = i + 1 /\ wire' = wire /\ messages' = messages
  BY WrittenIs DEF PassOctet, Packing, Message
<1>2. /\ OnTrail(e) /\ unc \in Seq(Octets) /\ i \in Nat /\ i = e.done + Len(unc) /\ e.done \in Nat
      /\ Len(unc) \in Nat
      /\ e.packing \in Nat /\ Length(e, e.packing) \in Nat
      /\ Length(e, e.packing) = Len(e.messages[e.packing]) /\ e.messages[e.packing] \in Seq(Octets)
  BY <1>1, WaitsIs, Zenon
<1>3. PICK M, x, b : M = messages[packing] /\ x = messages[packing][i + 1] /\ b = Append(unc, x)
  OBVIOUS
<1>4. x \in Octets
  <2>1. M \in Seq(Octets) /\ i + 1 \in 1..Len(M)
    BY <1>1, <1>2, <1>3
  <2>2. M[i + 1] \in Octets
    BY <2>1, ElementOfSeq
  <2> QED  BY <1>3, <2>2
<1>5. /\ b \in Seq(Octets) /\ Len(b) = Len(unc) + 1 /\ b[Len(unc) + 1] = x
      /\ \A k \in 1..Len(unc) : b[k] = unc[k]
  BY <1>2, <1>3, <1>4, AppendProperties
<1>6. unc' = b
  BY <1>1, <1>3
<1>7. i' - Len(unc') = i - Len(unc)
  BY <1>1, <1>2, <1>5, <1>6
<1>8. e2 = e
  BY <1>1, <1>7 DEF Written
<1>9. \A k \in 1..Len(b) : b[k] = e.messages[e.packing][e.done + k]
  <2>1. \A k \in 1..Len(unc) : unc[k] = e.messages[e.packing][e.done + k]
    BY DEF Waits
  <2>2. ASSUME NEW k \in 1..Len(b) PROVE b[k] = e.messages[e.packing][e.done + k]
    <3>1. CASE k \in 1..Len(unc)
      BY <1>5, <2>1, <3>1
    <3>2. CASE ~ (k \in 1..Len(unc))
      <4>1. k = Len(unc) + 1
        BY <1>2, <1>5, <3>2
      <4>2. e.done + k = i + 1
        <5>1. PICK c, l \in Nat : c = e.done /\ l = Len(unc) /\ i = c + l
          BY <1>2, Zenon
        <5> QED  BY <4>1, <5>1
      <4> QED  BY <1>1, <1>3, <1>5, <4>1, <4>2, Zenon
    <3> QED  BY <3>1, <3>2
  <2> QED  BY <2>2
<1>10. Waits(e2, unc', i')
  <2>1. i' \in Nat /\ i' = e.done + Len(unc') /\ i' <= Length(e, e.packing)
    <3>1. PICK c, l, h \in Nat : c = e.done /\ l = Len(unc) /\ h = Length(e, e.packing)
      BY <1>2
    <3>2. i = c + l /\ i < h /\ i' = i + 1 /\ Len(unc') = l + 1
      BY <1>1, <1>2, <1>5, <1>6, <3>1
    <3>3. i' \in Nat /\ i' = c + (l + 1) /\ i' <= h
      BY <3>1, <3>2, SMTT(30)
    <3> QED  BY <3>1, <3>2, <3>3
  <2> QED  BY <1>2, <1>5, <1>6, <1>8, <1>9, <2>1, Zenon DEF Waits
<1>11. e.packing > 0 /\ i < Len(e.messages[e.packing])
  BY <1>1
<1> QED  BY <1>10, <1>11, Zenon DEF AllPacked

LEMMA FlushDataStep ==
    ASSUME NEW e, e = Written, Waits(e, unc, i), FlushData,
           NEW e2, e2 = Written'
    PROVE  Waits(e2, unc', i') /\ ~ AllPacked(e, unc, i)
<1>1. /\ e.wire = wire /\ e.messages = messages /\ e.packing = packing /\ e.done = i - Len(unc)
      /\ packing > 0 /\ i = Len(messages[packing]) /\ unc # <<>>
      /\ wire' = wire \o DataPacket(unc) /\ unc' = <<>>
      /\ packing' = packing /\ i' = i /\ messages' = messages
  BY WrittenIs DEF FlushData, Message
<1>2. /\ OnTrail(e) /\ unc \in Seq(Octets) /\ i \in Nat /\ i = e.done + Len(unc) /\ e.done \in Nat
      /\ Len(unc) \in Nat /\ e.packing \in Nat /\ Length(e, e.packing) \in Nat
      /\ i <= Length(e, e.packing)
  BY <1>1, WaitsIs, Zenon
<1>3. /\ e2.wire = wire' /\ e2.messages = messages' /\ e2.packing = packing' /\ e2.done = i' - Len(unc')
  BY DEF Written
<1>4. Len(unc') = 0 /\ unc' \in Seq(Octets)
  BY <1>1
<1>5. e2.done = i /\ e2.done = e.done + Len(unc) /\ e2.packing = e.packing /\ e2.messages = e.messages
      /\ e2.wire = e.wire \o DataPacket(unc)
  <2>1. i' - Len(unc') = i
    BY <1>1, <1>2, <1>4
  <2> QED  BY <1>1, <1>2, <1>3, <2>1, Zenon
<1>6. \A k \in 1..Len(unc) : unc[k] = e.messages[e.packing][e.done + k]
  BY DEF Waits
<1>7. OnTrail(e2)
  <2>1. e.done + Len(unc) <= Length(e, e.packing)
    BY <1>2
  <2> QED  BY <1>1, <1>2, <1>5, <1>6, <2>1, DataWritten, Zenon
<1>8. Length(e2, e2.packing) = Length(e, e.packing)
  BY <1>5 DEF Length
<1>9. Waits(e2, unc', i')
  <2>1. i' \in Nat /\ i' = e2.done + Len(unc') /\ i' <= Length(e2, e2.packing)
    BY <1>1, <1>2, <1>4, <1>5, <1>8
  <2>2. \A k \in 1..Len(unc') : unc'[k] = e2.messages[e2.packing][e2.done + k]
    BY <1>4
  <2> QED  BY <1>4, <1>7, <2>1, <2>2, Zenon DEF Waits
<1> QED  BY <1>1, <1>9, Zenon DEF AllPacked

LEMMA PackRunStep ==
    ASSUME NEW e, e = Written, Waits(e, unc, i), PackRun,
           NEW e2, e2 = Written'
    PROVE  Waits(e2, unc', i') /\ ~ AllPacked(e, unc, i)
<1>1. PICK pos \in 0..(i - 1) :
        /\ substr_run(i, pos) >= MinRun
        /\ wire' = wire \o DataPacket(unc) \o RunPacket(i - pos, substr_run(i, pos))
        /\ i' = i + substr_run(i, pos)
  BY Zenon DEF PackRun
<1>2. PICK run : run = substr_run(i, pos)
  OBVIOUS
<1>3. /\ e.wire = wire /\ e.messages = messages /\ e.packing = packing /\ e.done = i - Len(unc)
      /\ packing > 0 /\ i < Len(messages[packing])
      /\ unc' = <<>> /\ packing' = packing /\ messages' = messages
  BY WrittenIs, Zenon DEF PackRun, Packing, Message
<1>4. /\ OnTrail(e) /\ WellWritten(e) /\ unc \in Seq(Octets) /\ i \in Nat /\ i = e.done + Len(unc)
      /\ e.done \in Nat /\ Len(unc) \in Nat
      /\ e.packing \in Nat /\ Length(e, e.packing) \in Nat
      /\ Length(e, e.packing) = Len(e.messages[e.packing]) /\ e.messages[e.packing] \in Seq(Octets)
  BY <1>3, WaitsIs, Zenon
<1>5. PICK M \in Seq(Octets) : M = messages[packing] /\ Len(M) = Length(e, e.packing) /\ Len(M) \in Nat
  BY <1>3, <1>4, Zenon
<1>6. pos \in Nat /\ pos < i /\ i - pos \in Nat /\ i - pos > 0 /\ i - pos <= i
  BY <1>4
<1>7. run \in 0..(Len(M) - i) /\ \A k \in 1..run : M[i + k] = M[pos + k]
  <2>1. run = CHOOSE n \in 0..(Len(M) - i) :
                /\ \A k \in 1..n : M[i + k] = M[pos + k]
                /\ i + n = Len(M) \/ M[i + n + 1] # M[pos + n + 1]
    BY <1>2, <1>5, Zenon DEF substr_run, Message
  <2>2. i \in 0..Len(M)
    BY <1>3, <1>4, <1>5
  <2>3. \E n \in 0..(Len(M) - i) :
          /\ \A k \in 1..n : M[i + k] = M[pos + k]
          /\ i + n = Len(M) \/ M[i + n + 1] # M[pos + n + 1]
    <3>1. PICK a \in 0..Len(M), b \in Nat : a = i /\ b = pos
      BY <1>6, <2>2
    <3>2. \E n \in 0..(Len(M) - a) : InCommon(M, a, b, n)
      BY <1>5, CommonLength, Zenon
    <3> QED  BY <3>1, <3>2, Zenon DEF InCommon
  <2> QED  BY <2>1, <2>3, Zenon
<1>8. run \in Nat /\ run >= MinRun /\ i + run <= Len(M)
  BY <1>1, <1>2, <1>3, <1>4, <1>5, <1>7
<1>9. PICK w : w = wire \o DataPacket(unc)
  OBVIOUS
<1>10. PICK f : f = [wire |-> w, messages |-> messages, packing |-> packing, done |-> i]
  OBVIOUS
<1>11. f.wire = w /\ f.messages = messages /\ f.packing = packing /\ f.done = i
  BY <1>10
<1>12. OnTrail(f)
  <2>1. CASE unc = <<>>
    <3>1. DataPacket(unc) = <<>> /\ Len(unc) = 0
      BY <2>1 DEF DataPacket
    <3>2. w = wire
      <4>1. wire \in Seq(Octets)
        BY <1>3, <1>4, Zenon DEF WellWritten
      <4> QED  BY <1>9, <3>1, <4>1, ConcatEmptySeq
    <3>3. i - Len(unc) = i
      BY <1>4, <3>1
    <3>4. f = Written
      BY <1>10, <3>2, <3>3, Zenon DEF Written
    <3> QED  BY <1>4, <3>4
  <2>2. CASE unc # <<>>
    <3>1. e.done + Len(unc) <= Length(e, e.packing) /\ f.done = e.done + Len(unc)
      BY <1>3, <1>4, <1>5, <1>11
    <3>2. \A k \in 1..Len(unc) : unc[k] = e.messages[e.packing][e.done + k]
      BY Zenon DEF Waits
    <3>3. f.packing = e.packing /\ f.messages = e.messages /\ f.wire = e.wire \o DataPacket(unc)
      BY <1>3, <1>9, <1>11, Zenon
    <3> QED  BY <1>4, <2>2, <3>1, <3>2, <3>3, DataWritten, Zenon
  <2> QED  BY <2>1, <2>2
<1>13. e2.wire = wire' /\ e2.messages = messages' /\ e2.packing = packing' /\ e2.done = i' - Len(unc')
  BY DEF Written
<1>14. Len(unc') = 0 /\ unc' \in Seq(Octets)
  <2>1. <<>> \in Seq(Octets) /\ Len(<<>>) = 0
    OBVIOUS
  <2> QED  BY <1>3, <2>1, Zenon
<1>15. i' = i + run /\ e2.done = i + run
  <2>1. i' = i + run
    BY <1>1, <1>2, Zenon
  <2>2. i' - Len(unc') = i + run
    BY <1>4, <1>8, <1>14, <2>1
  <2> QED  BY <1>13, <2>1, <2>2
<1>16. PICK offset \in Nat : offset = i - pos
  BY <1>6
<1>17. Recurs(M, i, offset, run)
  <2>1. ASSUME NEW k \in 1..run PROVE M[i + k] = M[i - offset + k]
    <3>1. i - offset + k = pos + k
      BY <1>4, <1>6, <1>16
    <3> QED  BY <1>7, <3>1
  <2> QED  BY <2>1, Zenon DEF Recurs
<1>18. Length(f, f.packing) = Len(M) /\ Length(e2, e2.packing) = Len(M)
  BY <1>3, <1>5, <1>11, <1>13, Zenon DEF Length
<1>19. OnTrail(e2)
  <2>1. offset > 0 /\ offset <= f.done /\ f.done + run <= Length(f, f.packing)
    BY <1>6, <1>8, <1>11, <1>16, <1>18
  <2>2. Recurs(f.messages[f.packing], f.done, offset, run)
    BY <1>5, <1>11, <1>17, Zenon
  <2>3. e2.packing = f.packing /\ e2.messages = f.messages /\ e2.done = f.done + run
    BY <1>3, <1>11, <1>13, <1>15, Zenon
  <2>4. e2.wire = f.wire \o RunPacket(offset, run)
    BY <1>1, <1>2, <1>9, <1>11, <1>13, <1>16, Zenon
  <2> QED  BY <1>8, <1>12, <2>1, <2>2, <2>3, <2>4, RunWritten, Zenon
<1>20. Waits(e2, unc', i')
  <2>1. i' \in Nat /\ i' = e2.done + Len(unc') /\ i' <= Length(e2, e2.packing)
    <3>1. PICK n \in Nat : n = i + run
      BY <1>4, <1>8
    <3>2. i' = n /\ e2.done = n /\ n <= Len(M)
      BY <1>8, <1>15, <3>1
    <3> QED  BY <1>14, <1>18, <3>2
  <2>2. \A k \in 1..Len(unc') : unc'[k] = e2.messages[e2.packing][e2.done + k]
    BY <1>14
  <2> QED  BY <1>14, <1>19, <2>1, <2>2, Zenon DEF Waits
<1>21. e.packing > 0 /\ i < Len(e.messages[e.packing])
  BY <1>3
<1> QED  BY <1>20, <1>21, Zenon DEF AllPacked

\* Whatever the compressor does, its octets are on a trail.
LEMMA EncoderKeeps == IInv /\ (StartMessage \/ PassOctet \/ PackRun \/ FlushData) => IInv'
<1> SUFFICES ASSUME IInv, StartMessage \/ PassOctet \/ PackRun \/ FlushData PROVE IInv'
  OBVIOUS
<1>1. PICK e, d : e = Written /\ d = Decoder /\ Good(e, unc, i, d)
  BY Zenon DEF IInv
<1>2. PICK e2, d2, u2, n2 : e2 = Written' /\ d2 = Decoder' /\ u2 = unc' /\ n2 = i'
  OBVIOUS
<1>3. Waits(e, unc, i)
  BY <1>1, Zenon DEF Good
<1>4. Waits(e2, u2, n2) /\ ~ AllPacked(e, unc, i)
  BY <1>1, <1>2, <1>3, StartMessageStep, PassOctetStep, PackRunStep, FlushDataStep, Zenon
<1>5. UNCHANGED decoderVars
  BY Zenon DEF StartMessage, PassOctet, PackRun, FlushData
<1>6. d2 = d
  BY <1>1, <1>2, <1>5 DEF decoderVars, Decoder
<1>7. Idle(d)
  BY <1>1, <1>4, Zenon DEF Good
<1>8. Good(e2, u2, n2, d2)
  BY <1>4, <1>6, <1>7, IdleIsGood, Zenon
<1> QED  BY <1>2, <1>8, Zenon DEF IInv

-----------------------------------------------------------------------------
(* The actions of the decoder keep the invariant.                          *)

LEMMA InFeedIs ==
    ASSUME NEW e, e = Written, NEW d, d = Decoder, Good(e, unc, i, d), inFeed
    PROVE  /\ e.wire = wire /\ e.messages = messages
           /\ d.state = state /\ d.vlq = vlq /\ d.msg = msg /\ d.size = size
           /\ d.ret = ret /\ d.rd = rd /\ d.chunkEnd = chunkEnd
           /\ d.inFeed = inFeed /\ d.received = received /\ d.thrown = thrown
           /\ thrown = "none" /\ (\E U : Decodes(e, U, d)) /\ Len(e.wire) \in Nat
           /\ rd \in Nat /\ chunkEnd \in Nat /\ rd <= chunkEnd /\ chunkEnd <= Len(e.wire)
           /\ \A d2 : /\ \E U : Decodes(e, U, d2)
                      /\ d2.thrown = "none" /\ d2.rd <= chunkEnd /\ d2.chunkEnd = chunkEnd
                      /\ d2.inFeed \in BOOLEAN
                      => Good(e, unc, i, d2)
<1>1. d.inFeed = inFeed /\ d.thrown = thrown /\ d.rd = rd /\ d.chunkEnd = chunkEnd
  BY DecoderIs, Zenon
<1>2. /\ \E U : Decodes(e, U, d)
      /\ d.thrown = "none"
      /\ d.rd \in Nat /\ d.chunkEnd \in Nat /\ d.rd <= d.chunkEnd /\ d.chunkEnd <= Len(e.wire)
      /\ Len(e.wire) \in Nat
      /\ \A d2 : /\ \E U : Decodes(e, U, d2)
                 /\ d2.thrown = "none" /\ d2.rd <= d.chunkEnd /\ d2.chunkEnd = d.chunkEnd
                 /\ d2.inFeed \in BOOLEAN
                 => Good(e, unc, i, d2)
  <2>1. d.inFeed
    BY <1>1
  <2> QED  BY <2>1, FeedIsGood, Zenon
<1> QED  BY <1>1, <1>2, WrittenIs, DecoderIs, Zenon

LEMMA PopsIs ==
    ASSUME NEW e, e = Written, NEW d, d = Decoder, Good(e, unc, i, d), PopsNumber, More
    PROVE  /\ inFeed /\ d.inFeed /\ DueNumber(d) /\ d.rd < Len(e.wire)
           /\ Octet = e.wire[d.rd + 1] /\ Number = TheNumber(e, d)
           /\ rd + 1 <= chunkEnd /\ d.rd = rd
<1>1. inFeed
  BY DEF PopsNumber
<1>2. /\ e.wire = wire /\ d.state = state /\ d.vlq = vlq /\ d.msg = msg /\ d.size = size
      /\ d.ret = ret /\ d.rd = rd /\ d.inFeed = inFeed
      /\ rd \in Nat /\ chunkEnd \in Nat /\ chunkEnd <= Len(e.wire) /\ Len(e.wire) \in Nat
  BY <1>1, InFeedIs, Zenon
<1>3. DueNumber(d)
  BY <1>2, Zenon DEF PopsNumber, DueNumber, shortrun
<1>4. d.rd < Len(e.wire) /\ rd + 1 <= chunkEnd
  BY <1>2 DEF More
<1>5. Octet = e.wire[d.rd + 1] /\ Number = TheNumber(e, d)
  BY <1>2, Zenon DEF Octet, Number, TheNumber
<1> QED  BY <1>1, <1>2, <1>3, <1>4, <1>5

LEMMA PopDigitStep ==
    ASSUME NEW e, e = Written, NEW d, d = Decoder, Good(e, unc, i, d), PopDigit,
           NEW d2, d2 = Decoder'
    PROVE  Good(e, unc, i, d2)
<1>1. PopsNumber /\ More /\ Octet >= VlqBase
  BY DEF PopDigit
<1>2. /\ d.inFeed /\ DueNumber(d) /\ d.rd < Len(e.wire) /\ inFeed
      /\ Octet = e.wire[d.rd + 1] /\ Number = TheNumber(e, d)
      /\ rd + 1 <= chunkEnd /\ d.rd = rd
  BY <1>1, PopsIs, Zenon
<1>3. /\ d2.state = d.state /\ d2.msg = d.msg /\ d2.size = d.size /\ d2.ret = d.ret
      /\ d2.inFeed = d.inFeed /\ d2.received = d.received /\ d2.chunkEnd = chunkEnd
      /\ d2.thrown = thrown /\ d2.rd = rd + 1
      /\ d2.vlq.num = Number /\ d2.vlq.weight = d.vlq.weight * VlqBase
  <2>1. /\ state' = state /\ msg' = msg /\ size' = size /\ ret' = ret /\ inFeed' = inFeed
        /\ received' = received /\ chunkEnd' = chunkEnd /\ thrown' = thrown /\ rd' = rd + 1
        /\ vlq' = [num |-> Number, weight |-> vlq.weight * VlqBase]
    BY DEF PopDigit
  <2>2. vlq'.num = Number /\ vlq'.weight = vlq.weight * VlqBase
    BY <2>1
  <2> QED  BY <2>1, <2>2 DEF Decoder
<1>4. PICK U : Decodes(e, U, d)
  BY <1>2, InFeedIs, Zenon
<1>5. Decodes(e, U, d2)
  <2>1. d2.rd = d.rd + 1 /\ d2.vlq.num = TheNumber(e, d) /\ e.wire[d.rd + 1] >= VlqBase
    BY <1>1, <1>2, <1>3, Zenon
  <2> QED  BY <1>2, <1>3, <1>4, <2>1, PopDigitKeeps, Zenon
<1>6. d2.thrown = "none" /\ d2.inFeed \in BOOLEAN /\ d2.rd <= chunkEnd
  BY <1>2, <1>3, InFeedIs
<1> QED  BY <1>2, <1>3, <1>5, <1>6, InFeedIs, Zenon

LEMMA TakeSizeStep ==
    ASSUME NEW e, e = Written, NEW d, d = Decoder, Good(e, unc, i, d), TakeSize,
           NEW d2, d2 = Decoder'
    PROVE  Good(e, unc, i, d2)
<1>1. PopsNumber /\ More /\ Octet < VlqBase /\ state = "INIT"
  BY DEF TakeSize, PopsLast
<1>2. /\ d.inFeed /\ d.rd < Len(e.wire) /\ inFeed
      /\ Octet = e.wire[d.rd + 1] /\ Number = TheNumber(e, d)
      /\ rd + 1 <= chunkEnd /\ d.rd = rd
  BY <1>1, PopsIs, Zenon
<1>3. /\ d2.state = "START" /\ d2.size = Number /\ d2.ret = d.ret
      /\ d2.inFeed = d.inFeed /\ d2.received = d.received /\ d2.chunkEnd = chunkEnd
      /\ d2.thrown = thrown /\ d2.rd = rd + 1 /\ d2.vlq = NoDigits /\ d.state = "INIT"
  <2>1. /\ state' = "START" /\ size' = Number /\ ret' = ret /\ inFeed' = inFeed
        /\ received' = received /\ chunkEnd' = chunkEnd /\ thrown' = thrown /\ rd' = rd + 1
        /\ vlq' = NoDigits
    BY DEF TakeSize
  <2> QED  BY <1>1, <2>1 DEF Decoder
<1>4. PICK U : Decodes(e, U, d)
  BY <1>2, InFeedIs, Zenon
<1>5. Decodes(e, U, d2)
  <2>1. d2.rd = d.rd + 1 /\ d2.size = TheNumber(e, d) /\ e.wire[d.rd + 1] < VlqBase /\ d2.inFeed
    BY <1>1, <1>2, <1>3, Zenon
  <2> QED  BY <1>2, <1>3, <1>4, <2>1, TakeSizeKeeps, Zenon
<1>6. d2.thrown = "none" /\ d2.inFeed \in BOOLEAN /\ d2.rd <= chunkEnd
  BY <1>2, <1>3, InFeedIs
<1> QED  BY <1>2, <1>3, <1>5, <1>6, InFeedIs, Zenon

LEMMA TooLargeStep ==
    ASSUME NEW e, e = Written, NEW d, d = Decoder, Good(e, unc, i, d), TooLarge,
           NEW d2, d2 = Decoder'
    PROVE  Good(e, unc, i, d2)
<1>1. PopsNumber /\ More
  BY DEF TooLarge, PopsLast
<1>2. d.inFeed /\ inFeed /\ rd + 1 <= chunkEnd
  BY <1>1, PopsIs, Zenon
<1>3. /\ d2.inFeed = FALSE /\ d2.received = d.received /\ d2.chunkEnd = chunkEnd
      /\ d2.thrown = "length_error" /\ d2.rd = rd + 1
  <2>1. /\ inFeed' = FALSE /\ received' = received /\ chunkEnd' = chunkEnd
        /\ thrown' = "length_error" /\ rd' = rd + 1
    BY DEF TooLarge
  <2> QED  BY <2>1 DEF Decoder
<1>4. PICK U : Decodes(e, U, d)
  BY <1>2, InFeedIs, Zenon
<1>5. PICK m \in 0..e.packing : Gone(e, d, m)
  BY <1>4, DecodesIs, SomeGone, Zenon
<1>6. Gone(e, d2, m)
  BY <1>3, <1>5, Zenon DEF Gone
<1>7. OnItsWay(e, d2)
  BY <1>3, <1>6 DEF OnItsWay
<1>8. AllPacked(e, unc, i)
  BY <1>2, Zenon DEF Good, Idle
<1>9. /\ d2.rd \in Nat /\ d2.chunkEnd \in Nat /\ d2.rd <= d2.chunkEnd /\ d2.chunkEnd <= Len(e.wire)
      /\ d2.inFeed \in BOOLEAN
  <2>1. rd \in Nat /\ chunkEnd \in Nat /\ chunkEnd <= Len(e.wire)
    BY <1>2, InFeedIs, Zenon
  <2>2. rd + 1 \in Nat /\ rd + 1 <= chunkEnd
    BY <1>2, <2>1
  <2>3. d2.inFeed \in BOOLEAN
    BY <1>3
  <2> QED  BY <1>3, <2>1, <2>2, <2>3, Zenon
<1> QED  BY <1>7, <1>8, <1>9, Zenon DEF Good

LEMMA TakeHeadStep ==
    ASSUME NEW e, e = Written, NEW d, d = Decoder, Good(e, unc, i, d), TakeHead,
           NEW d2, d2 = Decoder'
    PROVE  Good(e, unc, i, d2)
<1>1. PopsNumber /\ More /\ Octet < VlqBase /\ state = "START"
  BY DEF TakeHead, PopsLast
<1>2. /\ d.inFeed /\ d.rd < Len(e.wire) /\ inFeed /\ DueNumber(d)
      /\ Octet = e.wire[d.rd + 1] /\ Number = TheNumber(e, d)
      /\ rd + 1 <= chunkEnd /\ d.rd = rd
  BY <1>1, PopsIs, Zenon
<1>3. /\ d2.state = (IF Number % 2 = 1 THEN "READ_DATA" ELSE "READ_RUN") /\ d2.msg = Number \div 2
      /\ d2.size = d.size /\ d2.ret = d.ret
      /\ d2.inFeed = d.inFeed /\ d2.received = d.received /\ d2.chunkEnd = chunkEnd
      /\ d2.thrown = thrown /\ d2.rd = rd + 1 /\ d2.vlq = NoDigits /\ d.state = "START"
  <2>1. PICK s, m : s = (IF Number % 2 = 1 THEN "READ_DATA" ELSE "READ_RUN") /\ m = Number \div 2
    OBVIOUS
  <2>2. /\ state' = s /\ msg' = m /\ size' = size /\ ret' = ret /\ inFeed' = inFeed
        /\ received' = received /\ chunkEnd' = chunkEnd /\ thrown' = thrown /\ rd' = rd + 1
        /\ vlq' = NoDigits
    BY <2>1, Zenon DEF TakeHead
  <2>3. /\ d2.state = s /\ d2.msg = m
        /\ d2.size = d.size /\ d2.ret = d.ret
        /\ d2.inFeed = d.inFeed /\ d2.received = d.received /\ d2.chunkEnd = chunkEnd
        /\ d2.thrown = thrown /\ d2.rd = rd + 1 /\ d2.vlq = NoDigits /\ d.state = "START"
    BY <1>1, <2>2 DEF Decoder
  <2> QED  BY <2>1, <2>3, Zenon
<1>4. PICK U : Decodes(e, U, d)
  BY <1>2, InFeedIs, Zenon
<1>5. Decodes(e, U, d2)
  <2>1. d2.rd = d.rd + 1 /\ e.wire[d.rd + 1] < VlqBase /\ d2.inFeed
    BY <1>1, <1>2, <1>3, Zenon
  <2>2. Len(d.ret) < d.size
    BY <1>2, <1>3 DEF DueNumber
  <2>3. /\ d2.state = (IF TheNumber(e, d) % 2 = 1 THEN "READ_DATA" ELSE "READ_RUN")
        /\ d2.msg = TheNumber(e, d) \div 2
    BY <1>2, <1>3, Zenon
  <2> QED  BY <1>2, <1>3, <1>4, <2>1, <2>2, <2>3, TakeHeadKeeps, Zenon
<1>6. d2.thrown = "none" /\ d2.inFeed \in BOOLEAN /\ d2.rd <= chunkEnd
  BY <1>2, <1>3, InFeedIs
<1> QED  BY <1>2, <1>3, <1>5, <1>6, InFeedIs, Zenon

\* A packet of a run has a message, and what it says is a number.
LEMMA RunFits ==
    ASSUME NEW e, NEW U, NEW d, Decodes(e, U, d), d.state = "READ_RUN"
    PROVE  d.msg \in Nat /\ \E q \in U : Unpacks(e, d, q.of)
<1>1. AtRun(e, U, d)
  BY DecodesIs DEF Position, AtSize, AtHead, AtData
<1>2. \E q \in U : /\ Unpacks(e, d, q.of)
                   /\ \E offset, code \in Nat : d.msg = offset * ShortrunMax + code
                                              \/ d.msg = offset * ShortrunMax
  BY <1>1, Zenon DEF AtRun
<1>3. \A offset, code \in Nat : offset * ShortrunMax + code \in Nat /\ offset * ShortrunMax \in Nat
  <2> TAKE offset \in Nat, code \in Nat
  <2>1. offset * ShortrunMax \in Nat
    BY Parameters, SMT
  <2> QED  BY <2>1
<1> QED  BY <1>2, <1>3, Zenon

LEMMA NumberIsNat ==
    ASSUME NEW e, NEW U, NEW d, Decodes(e, U, d), d.state = "READ_RUN", d.msg % ShortrunMax = 0,
           d.rd < Len(e.wire), e.wire[d.rd + 1] < VlqBase
    PROVE  TheNumber(e, d) \in Nat
<1>1. d.state # "INIT" /\ d.state # "START"
  OBVIOUS
<1>2. PICK code, end : code \in Nat /\ Reads(e.wire, d.vlq, d.rd, code, end)
  BY <1>1, NumberDue, Zenon DEF DueNumber
<1> QED  BY <1>2, DueDigit, Zenon

LEMMA ReadDataStep ==
    ASSUME NEW e, e = Written, NEW d, d = Decoder, Good(e, unc, i, d), ReadData,
           NEW d2, d2 = Decoder'
    PROVE  Good(e, unc, i, d2)
<1>1. inFeed /\ state = "READ_DATA" /\ More
  BY DEF ReadData
<1>2. /\ e.wire = wire /\ d.state = "READ_DATA" /\ d.vlq = vlq /\ d.msg = msg /\ d.size = size
      /\ d.ret = ret /\ d.rd = rd /\ d.inFeed /\ d.received = received
      /\ thrown = "none" /\ rd \in Nat /\ chunkEnd \in Nat /\ rd <= chunkEnd
  BY <1>1, InFeedIs, Zenon
<1>3. PICK U : Decodes(e, U, d)
  BY <1>1, InFeedIs, Zenon
<1>4. PICK q \in U : /\ q.at = rd + msg /\ Len(ret) + msg = q.done /\ q.done <= size
                     /\ msg \in Nat /\ msg > 0
  BY <1>2, <1>3, DataFits, Zenon
<1>5. Len(ret) + msg <= size /\ ~ (Len(ret) + msg > size)
  <2>1. PICK p : IsPoint(e, p) /\ p = q
    BY <1>3, DecodesIs, PointIs, Zenon
  <2>2. q.done \in Nat
    BY <1>3, DecodesIs, PointIs, Zenon
  <2>3. size \in Nat
    <3>1. PICK r \in U : Unpacks(e, d, r.of)
      BY <1>2, <1>3, DataFits, Zenon
    <3> QED  BY <1>2, <1>3, <3>1, DecodesIs, PacketIsMore, Zenon
  <2> QED  BY <1>4, <2>2, <2>3
<1>6. PICK l : l = (IF rd + msg > chunkEnd THEN chunkEnd - rd ELSE msg)
  OBVIOUS
<1>7. l \in Nat /\ l > 0 /\ l <= msg /\ rd + l <= chunkEnd /\ rd + l \in Nat
  BY <1>1, <1>2, <1>4, <1>6 DEF More
<1>8. /\ ret' = ret \o SubSeq(wire, rd + 1, rd + l) /\ rd' = rd + l
      /\ state' = (IF l < msg THEN state ELSE "START")
      /\ msg' = (IF l < msg THEN msg - l ELSE msg)
      /\ inFeed' = inFeed /\ thrown' = thrown /\ vlq' = vlq /\ size' = size /\ chunkEnd' = chunkEnd
      /\ received' = received
  BY <1>5, <1>6, Zenon DEF ReadData
<1>9. /\ d2.ret = ret' /\ d2.rd = rd' /\ d2.state = state' /\ d2.msg = msg' /\ d2.inFeed = inFeed'
      /\ d2.thrown = thrown' /\ d2.vlq = vlq' /\ d2.size = size' /\ d2.chunkEnd = chunkEnd'
      /\ d2.received = received'
  BY DEF Decoder
<1>10. Copies(e, d, d2, d.rd, l)
  BY <1>2, <1>8, <1>9, Zenon DEF Copies
<1>11. Decodes(e, U, d2)
  <2>1. /\ d2.rd = d.rd + l /\ d2.vlq = d.vlq /\ d2.inFeed
        /\ d2.state = (IF l < d.msg THEN "READ_DATA" ELSE "START")
        /\ d2.msg = (IF l < d.msg THEN d.msg - l ELSE d.msg)
    BY <1>1, <1>2, <1>8, <1>9, Zenon
  <2>2. d.msg \in Nat /\ l \in Nat /\ l > 0 /\ l <= d.msg
    BY <1>2, <1>4, <1>7
  <2> QED  BY <1>2, <1>3, <1>10, <2>1, <2>2, ReadDataKeeps, Zenon
<1>12. d2.thrown = "none" /\ d2.inFeed \in BOOLEAN /\ d2.rd <= chunkEnd /\ d2.chunkEnd = chunkEnd
  <2>1. inFeed \in BOOLEAN
    BY <1>1, <1>2, Zenon DEF Good
  <2> QED  BY <1>1, <1>2, <1>7, <1>8, <1>9
<1> QED  BY <1>1, <1>11, <1>12, InFeedIs, Zenon

LEMMA ReadShortRunStep ==
    ASSUME NEW e, e = Written, NEW d, d = Decoder, Good(e, unc, i, d), ReadShortRun,
           NEW d2, d2 = Decoder'
    PROVE  Good(e, unc, i, d2)
<1>1. inFeed /\ state = "READ_RUN" /\ shortrun > 0 /\ CopyRun(shortrun)
  BY DEF ReadShortRun
<1>2. /\ d.state = state /\ d.vlq = vlq /\ d.msg = msg /\ d.size = size
      /\ d.ret = ret /\ d.rd = rd /\ d.inFeed /\ d.received = received
      /\ thrown = "none" /\ rd \in Nat /\ chunkEnd \in Nat /\ rd <= chunkEnd
  BY <1>1, InFeedIs, Zenon
<1>3. PICK U : Decodes(e, U, d)
  BY <1>1, InFeedIs, Zenon
<1>4. PICK off, run : off = msg \div ShortrunMax /\ run = (msg % ShortrunMax) + MinRun - 1
  OBVIOUS
<1>5. /\ off <= Len(ret) /\ Len(ret) + run <= size
      /\ \A x : /\ x.ret = Repeat(ret, off, run) /\ x.state = "START"
                /\ x.rd = rd /\ x.vlq = vlq /\ x.size = size /\ x.inFeed
                /\ x.received = received
                => Decodes(e, U, x)
  <2>1. /\ d.state = "READ_RUN" /\ d.msg % ShortrunMax > 0 /\ off = d.msg \div ShortrunMax
        /\ run = (d.msg % ShortrunMax) + MinRun - 1
    BY <1>1, <1>2, <1>4, Zenon DEF shortrun
  <2>2. /\ off <= Len(d.ret) /\ Len(d.ret) + run <= d.size
        /\ \A x : /\ x.ret = Repeat(d.ret, off, run) /\ x.state = "START"
                  /\ x.rd = d.rd /\ x.vlq = d.vlq /\ x.size = d.size /\ x.inFeed
                  /\ x.received = d.received
                  => Decodes(e, U, x)
    BY <1>3, <2>1, ShortRunKeeps, Zenon
  <2> QED  BY <1>2, <2>2, Zenon
<1>6. ~ (off > Len(ret)) /\ ~ (Len(ret) + run > size)
  <2>1. PICK q \in U : Unpacks(e, d, q.of)
    BY <1>1, <1>2, <1>3, RunFits, Zenon
  <2>2. Len(d.ret) \in Nat /\ d.size \in Nat
    BY <1>3, <2>1, DecodesIs, PacketIsMore, Zenon
  <2>3. off \in Int /\ run \in Int
    BY <1>1, <1>2, <1>3, <1>4, RunFits, Parameters
  <2> QED  BY <1>2, <1>5, <2>2, <2>3
<1>7. /\ ret' = Repeat(ret, off, run) /\ state' = "START" /\ inFeed' = inFeed /\ thrown' = thrown
      /\ vlq' = vlq /\ size' = size /\ rd' = rd /\ chunkEnd' = chunkEnd /\ received' = received
  BY <1>1, <1>4, <1>6, Zenon DEF ReadShortRun, CopyRun, shortrun
<1>8. /\ d2.ret = ret' /\ d2.rd = rd' /\ d2.state = state' /\ d2.inFeed = inFeed'
      /\ d2.thrown = thrown' /\ d2.vlq = vlq' /\ d2.size = size' /\ d2.chunkEnd = chunkEnd'
      /\ d2.received = received'
  BY DEF Decoder
<1>9. Decodes(e, U, d2)
  <2>1. d2.inFeed
    BY <1>1, <1>7, <1>8
  <2> QED  BY <1>5, <1>7, <1>8, <2>1, Zenon
<1>10. d2.thrown = "none" /\ d2.inFeed \in BOOLEAN /\ d2.rd <= chunkEnd /\ d2.chunkEnd = chunkEnd
  <2>1. inFeed \in BOOLEAN
    BY <1>1, <1>2, Zenon DEF Good
  <2> QED  BY <1>1, <1>2, <1>7, <1>8
<1> QED  BY <1>1, <1>9, <1>10, InFeedIs, Zenon

LEMMA ReadLongRunStep ==
    ASSUME NEW e, e = Written, NEW d, d = Decoder, Good(e, unc, i, d), ReadLongRun,
           NEW d2, d2 = Decoder'
    PROVE  Good(e, unc, i, d2)
<1>1. /\ PopsNumber /\ More /\ Octet < VlqBase /\ state = "READ_RUN" /\ CopyRun(Number)
  BY DEF ReadLongRun, PopsLast
<1>2. /\ d.inFeed /\ DueNumber(d) /\ d.rd < Len(e.wire) /\ inFeed
      /\ Octet = e.wire[d.rd + 1] /\ Number = TheNumber(e, d)
      /\ rd + 1 <= chunkEnd
  BY <1>1, PopsIs, Zenon
<1>3. /\ d.state = state /\ d.vlq = vlq /\ d.msg = msg /\ d.size = size
      /\ d.ret = ret /\ d.rd = rd /\ d.received = received
      /\ thrown = "none" /\ rd \in Nat /\ chunkEnd \in Nat /\ rd <= chunkEnd
  BY <1>2, InFeedIs, Zenon
<1>4. PICK U : Decodes(e, U, d)
  BY <1>2, InFeedIs, Zenon
<1>5. PICK off, run : off = msg \div ShortrunMax /\ run = Number + MinRun - 1
  OBVIOUS
<1>6. d.msg % ShortrunMax = 0
  BY <1>1, <1>2, <1>3 DEF DueNumber
<1>7. /\ off <= Len(ret) /\ Len(ret) + run <= size
      /\ \A x : /\ x.ret = Repeat(ret, off, run) /\ x.state = "START"
                /\ x.rd = rd + 1 /\ x.vlq = NoDigits /\ x.size = size /\ x.inFeed
                /\ x.received = received
                => Decodes(e, U, x)
  <2>1. /\ d.state = "READ_RUN" /\ off = d.msg \div ShortrunMax
        /\ run = TheNumber(e, d) + MinRun - 1 /\ e.wire[d.rd + 1] < VlqBase
    BY <1>1, <1>2, <1>3, <1>5, Zenon
  <2>2. /\ off <= Len(d.ret) /\ Len(d.ret) + run <= d.size
        /\ \A x : /\ x.ret = Repeat(d.ret, off, run) /\ x.state = "START"
                  /\ x.rd = d.rd + 1 /\ x.vlq = NoDigits /\ x.size = d.size /\ x.inFeed
                  /\ x.received = d.received
                  => Decodes(e, U, x)
    BY <1>2, <1>4, <1>6, <2>1, LongRunKeeps, Zenon
  <2> QED  BY <1>3, <2>2, Zenon
<1>8. ~ (off > Len(ret)) /\ ~ (Len(ret) + run > size)
  <2>1. PICK q \in U : Unpacks(e, d, q.of)
    BY <1>1, <1>3, <1>4, RunFits, Zenon
  <2>2. Len(d.ret) \in Nat /\ d.size \in Nat
    BY <1>4, <2>1, DecodesIs, PacketIsMore, Zenon
  <2>3. off \in Int
    BY <1>1, <1>3, <1>4, <1>5, RunFits, Parameters
  <2>4. run \in Int
    <3>1. TheNumber(e, d) \in Nat
      BY <1>1, <1>2, <1>3, <1>4, <1>6, NumberIsNat, Zenon
    <3> QED  BY <1>2, <1>5, <3>1, Parameters
  <2> QED  BY <1>3, <1>7, <2>2, <2>3, <2>4
<1>9. /\ ret' = Repeat(ret, off, run) /\ state' = "START" /\ inFeed' = inFeed /\ thrown' = thrown
      /\ vlq' = NoDigits /\ size' = size /\ rd' = rd + 1 /\ chunkEnd' = chunkEnd /\ received' = received
  BY <1>1, <1>5, <1>8, Zenon DEF ReadLongRun, CopyRun
<1>10. /\ d2.ret = ret' /\ d2.rd = rd' /\ d2.state = state' /\ d2.inFeed = inFeed'
       /\ d2.thrown = thrown' /\ d2.vlq = vlq' /\ d2.size = size' /\ d2.chunkEnd = chunkEnd'
       /\ d2.received = received'
  BY DEF Decoder
<1>11. Decodes(e, U, d2)
  BY <1>2, <1>7, <1>9, <1>10, Zenon
<1>12. d2.thrown = "none" /\ d2.inFeed \in BOOLEAN /\ d2.rd <= chunkEnd /\ d2.chunkEnd = chunkEnd
  <2>1. inFeed \in BOOLEAN
    BY <1>2, InFeedIs, Zenon DEF Good
  <2> QED  BY <1>2, <1>3, <1>9, <1>10
<1> QED  BY <1>2, <1>11, <1>12, InFeedIs, Zenon

LEMMA ReturnDoneStep ==
    ASSUME NEW e, e = Written, NEW d, d = Decoder, Good(e, unc, i, d), ReturnDone,
           NEW d2, d2 = Decoder'
    PROVE  Good(e, unc, i, d2)
<1>1. /\ inFeed /\ state = "START" /\ Len(ret) = size /\ state' = "INIT" /\ inFeed' = FALSE
      /\ received' = Append(received, ret)
      /\ vlq' = vlq /\ rd' = rd /\ chunkEnd' = chunkEnd /\ thrown' = thrown
  BY DEF ReturnDone
<1>2. /\ d.state = state /\ d.vlq = vlq /\ d.size = size /\ d.ret = ret /\ d.rd = rd
      /\ d.received = received /\ thrown = "none" /\ rd <= chunkEnd
  BY <1>1, InFeedIs, Zenon
<1>3. /\ d2.state = state' /\ d2.vlq = vlq' /\ d2.rd = rd' /\ d2.chunkEnd = chunkEnd'
      /\ d2.inFeed = inFeed' /\ d2.received = received' /\ d2.thrown = thrown'
  BY DEF Decoder
<1>4. PICK U : Decodes(e, U, d)
  BY <1>1, InFeedIs, Zenon
<1>5. d2.inFeed = FALSE
  BY <1>1, <1>3
<1>6. Decodes(e, U, d2)
  <2>1. /\ d.state = "START" /\ Len(d.ret) = d.size /\ d2.state = "INIT"
        /\ d2.received = Append(d.received, d.ret) /\ d2.vlq = d.vlq /\ d2.rd = d.rd
    BY <1>1, <1>2, <1>3, Zenon
  <2>2. ~ d2.inFeed
    BY <1>5
  <2> QED  BY <1>4, <2>1, <2>2, ReturnDoneKeeps, Zenon
<1>7. d2.thrown = "none" /\ d2.rd <= chunkEnd /\ d2.chunkEnd = chunkEnd
  BY <1>1, <1>2, <1>3, Zenon
<1>8. d2.inFeed \in BOOLEAN
  BY <1>5
<1> QED  BY <1>1, <1>6, <1>7, <1>8, InFeedIs, Zenon

LEMMA ReturnAtSizeStep ==
    ASSUME NEW e, e = Written, NEW d, d = Decoder, Good(e, unc, i, d), ReturnAtSize,
           NEW d2, d2 = Decoder'
    PROVE  Good(e, unc, i, d2)
<1>1. /\ inFeed /\ state = "INIT" /\ state' = state /\ inFeed' = FALSE
      /\ received' = Append(received, ret) /\ ret' = ret
      /\ vlq' = vlq /\ rd' = rd /\ chunkEnd' = chunkEnd /\ thrown' = thrown
  BY DEF ReturnAtSize
<1>2. /\ d.state = state /\ d.vlq = vlq /\ d.ret = ret /\ d.rd = rd /\ d.inFeed = inFeed
      /\ d.received = received /\ thrown = "none" /\ rd <= chunkEnd
  BY <1>1, InFeedIs, Zenon
<1>3. /\ d2.state = state' /\ d2.vlq = vlq' /\ d2.rd = rd' /\ d2.chunkEnd = chunkEnd'
      /\ d2.inFeed = inFeed' /\ d2.received = received' /\ d2.thrown = thrown' /\ d2.ret = ret'
  BY DEF Decoder
<1>4. PICK U : Decodes(e, U, d)
  BY <1>1, InFeedIs, Zenon
<1>5. d2.inFeed = FALSE
  BY <1>1, <1>3
<1>6. Decodes(e, U, d2)
  <2>1. /\ d.state = "INIT" /\ d2.state = "INIT" /\ d2.ret = d.ret
        /\ d2.received = Append(d.received, d.ret) /\ d2.vlq = d.vlq /\ d2.rd = d.rd
    BY <1>1, <1>2, <1>3, Zenon
  <2>2. ~ d2.inFeed /\ d.inFeed
    BY <1>1, <1>2, <1>5
  <2> QED  BY <1>4, <2>1, <2>2, ReturnAtSizeKeeps, Zenon
<1>7. d2.thrown = "none" /\ d2.rd <= chunkEnd /\ d2.chunkEnd = chunkEnd
  BY <1>1, <1>2, <1>3, Zenon
<1>8. d2.inFeed \in BOOLEAN
  BY <1>5
<1> QED  BY <1>1, <1>6, <1>7, <1>8, InFeedIs, Zenon

LEMMA ReturnMoreStep ==
    ASSUME NEW e, e = Written, NEW d, d = Decoder, Good(e, unc, i, d), ReturnMore,
           NEW d2, d2 = Decoder'
    PROVE  Good(e, unc, i, d2)
<1>1. /\ inFeed /\ state # "INIT" /\ Len(ret) < size /\ (state = "READ_RUN" => shortrun = 0)
      /\ inFeed' = FALSE /\ state' = state /\ vlq' = vlq /\ msg' = msg /\ size' = size
      /\ ret' = ret /\ rd' = rd /\ chunkEnd' = chunkEnd /\ received' = received /\ thrown' = thrown
  BY DEF ReturnMore, Hungry
<1>2. /\ d.state = state /\ d.vlq = vlq /\ d.msg = msg /\ d.size = size /\ d.ret = ret
      /\ d.rd = rd /\ d.received = received /\ thrown = "none" /\ rd <= chunkEnd
  BY <1>1, InFeedIs, Zenon
<1>3. /\ d2.state = state' /\ d2.vlq = vlq' /\ d2.msg = msg' /\ d2.size = size' /\ d2.ret = ret'
      /\ d2.rd = rd' /\ d2.chunkEnd = chunkEnd' /\ d2.inFeed = inFeed'
      /\ d2.received = received' /\ d2.thrown = thrown'
  BY DEF Decoder
<1>4. PICK U : Decodes(e, U, d)
  BY <1>1, InFeedIs, Zenon
<1>5. d2.inFeed = FALSE
  BY <1>1, <1>3
<1>6. Decodes(e, U, d2)
  <2>1. /\ d2.state = d.state /\ d2.received = d.received /\ d2.msg = d.msg
        /\ d2.vlq = d.vlq /\ d2.rd = d.rd /\ d2.ret = d.ret /\ d2.size = d.size
        /\ Len(d.ret) < d.size /\ d.state # "INIT"
        /\ d.state = "READ_RUN" => d.msg % ShortrunMax = 0
    BY <1>1, <1>2, <1>3, Zenon DEF shortrun
  <2>2. ~ d2.inFeed
    BY <1>5
  <2> QED  BY <1>4, <2>1, <2>2, ReturnMoreKeeps, Zenon
<1>7. d2.thrown = "none" /\ d2.rd <= chunkEnd /\ d2.chunkEnd = chunkEnd
  BY <1>1, <1>2, <1>3, Zenon
<1>8. d2.inFeed \in BOOLEAN
  BY <1>5
<1> QED  BY <1>1, <1>6, <1>7, <1>8, InFeedIs, Zenon

LEMMA FeedStep ==
    ASSUME NEW e, e = Written, NEW d, d = Decoder, Good(e, unc, i, d), Feed,
           NEW d2, d2 = Decoder'
    PROVE  Good(e, unc, i, d2)
<1>1. /\ Packed /\ ~ inFeed /\ thrown = "none" /\ inFeed' = TRUE
      /\ ret' = (IF state = "INIT" THEN <<>> ELSE ret)
      /\ chunkEnd' \in chunkEnd..Len(wire)
      /\ state' = state /\ vlq' = vlq /\ msg' = msg /\ size' = size /\ rd' = rd
      /\ received' = received /\ thrown' = thrown
  BY DEF Feed
<1>2. /\ e.wire = wire /\ e.messages = messages /\ e.packing = packing
      /\ d.state = state /\ d.vlq = vlq /\ d.msg = msg /\ d.size = size /\ d.ret = ret
      /\ d.rd = rd /\ d.received = received /\ d.chunkEnd = chunkEnd /\ d.thrown = thrown
      /\ d.inFeed = inFeed
  BY WrittenIs, DecoderIs, Zenon
<1>3. /\ d2.state = state' /\ d2.vlq = vlq' /\ d2.msg = msg' /\ d2.size = size' /\ d2.ret = ret'
      /\ d2.rd = rd' /\ d2.chunkEnd = chunkEnd' /\ d2.inFeed = inFeed'
      /\ d2.received = received' /\ d2.thrown = thrown'
  BY DEF Decoder
<1>4. AllPacked(e, unc, i)
  BY <1>1, <1>2, Zenon DEF Packed, Packing, Message, AllPacked
<1>5. PICK U : Decodes(e, U, d)
  <2>1. OnItsWay(e, d)
    BY <1>4, Zenon DEF Good
  <2> QED  BY <1>1, <1>2, <2>1, Zenon DEF OnItsWay
<1>6. d2.inFeed = TRUE /\ ~ d.inFeed
  BY <1>1, <1>2, <1>3
<1>7. Decodes(e, U, d2)
  <2>1. /\ d2.state = d.state /\ d2.received = d.received /\ d2.msg = d.msg
        /\ d2.vlq = d.vlq /\ d2.rd = d.rd /\ d2.size = d.size
        /\ d2.ret = (IF d.state = "INIT" THEN <<>> ELSE d.ret)
    BY <1>1, <1>2, <1>3, Zenon
  <2>2. d2.inFeed
    BY <1>6
  <2> QED  BY <1>5, <1>6, <2>1, <2>2, FeedKeeps, Zenon
<1>8. OnItsWay(e, d2)
  <2>1. d2.thrown = "none"
    BY <1>1, <1>3, Zenon
  <2> QED  BY <1>7, <2>1, Zenon DEF OnItsWay
<1>9. d.rd \in Nat /\ d.chunkEnd \in Nat /\ d.rd <= d.chunkEnd /\ Waits(e, unc, i)
  BY Zenon DEF Good
<1>10. Len(e.wire) \in Nat
  BY <1>9, WaitsIs, LengthIs, Zenon
<1>11. /\ d2.rd \in Nat /\ d2.chunkEnd \in Nat /\ d2.rd <= d2.chunkEnd /\ d2.chunkEnd <= Len(e.wire)
  <2>1. PICK a, b, c, l : a = rd /\ b = chunkEnd /\ c = chunkEnd' /\ l = Len(e.wire)
    OBVIOUS
  <2>2. a \in Nat /\ b \in Nat /\ a <= b /\ l \in Nat /\ c \in b..l
    BY <1>1, <1>2, <1>9, <1>10, <2>1, Zenon
  <2>3. c \in Nat /\ a <= c /\ c <= l
    BY <2>2
  <2> QED  BY <1>1, <1>3, <2>1, <2>2, <2>3, Zenon
<1>12. d2.inFeed \in BOOLEAN
  BY <1>6
<1> QED  BY <1>4, <1>8, <1>9, <1>11, <1>12, Zenon DEF Good

LEMMA DecoderKeeps ==
    IInv /\ (Feed \/ PopDigit \/ TakeSize \/ TooLarge \/ TakeHead \/ ReadData \/ ReadShortRun
             \/ ReadLongRun \/ ReturnDone \/ ReturnMore \/ ReturnAtSize) => IInv'
<1> SUFFICES ASSUME IInv, Feed \/ PopDigit \/ TakeSize \/ TooLarge \/ TakeHead \/ ReadData
                          \/ ReadShortRun \/ ReadLongRun \/ ReturnDone \/ ReturnMore \/ ReturnAtSize
             PROVE  IInv'
  OBVIOUS
<1>1. PICK e, d : e = Written /\ d = Decoder /\ Good(e, unc, i, d)
  BY Zenon DEF IInv
<1>2. PICK e2, d2, u2, n2 : e2 = Written' /\ d2 = Decoder' /\ u2 = unc' /\ n2 = i'
  OBVIOUS
<1>3. UNCHANGED encoderVars
  BY Zenon DEF Feed, PopDigit, TakeSize, TooLarge, TakeHead, ReadData, ReadShortRun,
               ReadLongRun, ReturnDone, ReturnMore, ReturnAtSize
<1>4. e2 = e /\ u2 = unc /\ n2 = i
  BY <1>1, <1>2, <1>3 DEF encoderVars, Written
<1>5. Good(e, unc, i, d2)
  BY <1>1, <1>2, FeedStep, PopDigitStep, TakeSizeStep, TooLargeStep, TakeHeadStep,
     ReadDataStep, ReadShortRunStep, ReadLongRunStep, ReturnDoneStep, ReturnMoreStep,
     ReturnAtSizeStep, Zenon
<1>6. Good(e2, u2, n2, d2)
  BY <1>4, <1>5, Zenon
<1> QED  BY <1>2, <1>6, Zenon DEF IInv

LEMMA NextIInv == IInv /\ [Next]_vars => IInv'
<1> SUFFICES ASSUME IInv, [Next]_vars PROVE IInv'
  OBVIOUS
<1>1. CASE UNCHANGED vars
  <2>1. PICK e, u, n, d : e = Written /\ u = unc /\ n = i /\ d = Decoder /\ Good(e, u, n, d)
    BY Zenon DEF IInv
  <2>2. e = Written' /\ u = unc' /\ n = i' /\ d = Decoder'
    BY <1>1, <2>1 DEF vars, encoderVars, decoderVars, Written, Decoder
  <2> QED  BY <2>1, <2>2, Zenon DEF IInv
<1>2. CASE Finished
  <2>1. UNCHANGED vars
    BY <1>2, Zenon DEF Finished
  <2> QED  BY <1>1, <2>1, Zenon
<1>3. CASE StartMessage \/ PassOctet \/ PackRun \/ FlushData
  BY <1>3, EncoderKeeps, Zenon
<1>4. CASE Feed \/ PopDigit \/ TakeSize \/ TooLarge \/ TakeHead \/ ReadData \/ ReadShortRun
           \/ ReadLongRun \/ ReturnDone \/ ReturnMore \/ ReturnAtSize
  BY <1>4, DecoderKeeps, Zenon
<1> QED  BY <1>1, <1>2, <1>3, <1>4, Zenon DEF Next

\* The octets written are always a trail from message to message, and the
\* decoder is always at a place of it.
THEOREM OnTheTrail == Spec => []IInv
BY InitIInv, NextIInv, PTL DEF Spec

\* Some messages, from the first on, are all that was given out.
LEMMA GivenOut ==
    ASSUME IInv
    PROVE  /\ messages \in Seq(Seq(Octets))
           /\ \E m \in 0..Len(messages) : NotEmpty(received) = NotEmpty(SubSeq(messages, 1, m))
<1>1. PICK e, d : e = Written /\ d = Decoder /\ Good(e, unc, i, d)
  BY Zenon DEF IInv
<1>2. e.messages = messages /\ e.packing = packing /\ d.received = received /\ d.thrown = thrown
  BY <1>1, WrittenIs, DecoderIs, Zenon
<1>3. WellWritten(e) /\ messages \in Seq(Seq(Octets))
  BY <1>1, <1>2, WaitsIs, Zenon DEF Good, WellWritten
<1>4. 0..e.packing \subseteq 0..Len(messages) /\ 0 \in 0..Len(messages) /\ Len(messages) \in Nat
  BY <1>2, <1>3, LengthIs DEF WellWritten
<1>5. \E m \in 0..Len(messages) : Gone(e, d, m)
  <2>1. CASE ~ AllPacked(e, unc, i)
    <3>1. d.received = <<>>
      BY <1>1, <2>1, Zenon DEF Good, Idle
    <3>2. SubSeq(e.messages, 1, 0) = <<>>
      BY <1>2, <1>3, Beginnings, Zenon
    <3>3. Gone(e, d, 0)
      BY <3>1, <3>2, Zenon DEF Gone
    <3> QED  BY <1>4, <3>3, Zenon
  <2>2. CASE AllPacked(e, unc, i)
    <3>1. OnItsWay(e, d)
      BY <1>1, <2>2, Zenon DEF Good
    <3>2. \E m \in 0..e.packing : Gone(e, d, m)
      BY <3>1, SomeGone, DecodesIs, Zenon DEF OnItsWay
    <3> QED  BY <1>4, <3>2, Zenon
  <2> QED  BY <2>1, <2>2
<1> QED  BY <1>2, <1>3, <1>5, Zenon DEF Gone

\* What comes out is what went in, in order: what the decoder gives is always
\* a beginning of the messages (InOrder), for every list of messages, every
\* choice of earlier places and every way to cut the octets.
THEOREM MessagesComeInOrder == Spec => []InOrder
<1>1. IInv => InOrder
  <2> SUFFICES ASSUME IInv PROVE InOrder
    OBVIOUS
  <2>1. PICK m \in 0..Len(messages) : NotEmpty(received) = NotEmpty(SubSeq(messages, 1, m))
    BY GivenOut
  <2>2. messages \in Seq(Seq(Octets))
    BY GivenOut
  <2>3. IsPrefix(NotEmpty(SubSeq(messages, 1, m)), NotEmpty(messages))
    BY <2>2, NotEmptyPrefix, Zenon
  <2> QED  BY <2>1, <2>3 DEF InOrder
<1> QED  BY <1>1, OnTheTrail, PTL

\* What compress_t writes never looks malformed to decompress_t
\* (NeverMalformed): neither of the throws for runs and packets out of range
\* is reached.
THEOREM OctetsAreWellFormed == Spec => []NeverMalformed
<1>1. IInv => NeverMalformed
  <2> SUFFICES ASSUME IInv PROVE thrown # "runtime_error"
    BY DEF NeverMalformed
  <2>1. PICK e, d : e = Written /\ d = Decoder /\ Good(e, unc, i, d)
    BY Zenon DEF IInv
  <2>2. d.thrown = thrown
    BY <2>1, DecoderIs, Zenon
  <2>3. d.thrown = "none" \/ d.thrown = "length_error"
    BY <2>1, Zenon DEF Good, OnItsWay, Idle
  <2> QED  BY <2>2, <2>3
<1> QED  BY <1>1, OnTheTrail, PTL

\* At the end of the octets nothing is missing (AllArrive).
THEOREM MessagesAllArrive == Spec => []AllArrive
<1>1. IInv => AllArrive
  <2> SUFFICES ASSUME IInv, Packed, ~ inFeed, rd = Len(wire), thrown = "none"
               PROVE  NotEmpty(received) = NotEmpty(messages)
    BY DEF AllArrive
  <2>1. PICK e, d : e = Written /\ d = Decoder /\ Good(e, unc, i, d)
    BY Zenon DEF IInv
  <2>2. /\ e.wire = wire /\ e.messages = messages /\ e.packing = packing
        /\ d.received = received /\ d.thrown = thrown /\ d.rd = rd /\ d.inFeed = inFeed
    BY <2>1, WrittenIs, DecoderIs, Zenon
  <2>3. AllPacked(e, unc, i)
    BY <2>2, Zenon DEF Packed, Packing, Message, AllPacked
  <2>4. PICK U : Decodes(e, U, d)
    BY <2>1, <2>2, <2>3, Zenon DEF Good, OnItsWay
  <2>5. WellWritten(e) /\ AllWritten(e) /\ Trail(e, U) /\ Position(e, U, d) /\ Len(e.wire) \in Nat
        /\ d.rd = Len(e.wire) /\ ~ d.inFeed
    BY <2>2, <2>4, DecodesIs, Zenon
  \* No number is unfinished.
  <2>6. \A n \in Nat : \A end : ~ Reads(e.wire, d.vlq, d.rd, n, end)
    <3>1. \A n \in Nat : \A end : Reads(e.wire, d.vlq, d.rd, n, end) =>
            end \in Nat /\ d.rd < end /\ end <= Len(e.wire)
      BY <2>4, DueDigit, Zenon
    <3>2. \A end \in Nat : ~ (d.rd < end /\ end <= Len(e.wire))
      BY <2>5
    <3> QED  BY <3>1, <3>2, Zenon
  <2>7. ~ AtHead(e, U, d)
    BY <2>5, <2>6, Zenon DEF AtHead
  <2>8. ~ AtRun(e, U, d)
    BY <2>5, <2>6, Zenon DEF AtRun
  <2>9. ~ AtData(e, U, d)
    <3> SUFFICES ASSUME AtData(e, U, d) PROVE FALSE
      OBVIOUS
    <3>1. d.state = "READ_DATA"
      BY Zenon DEF AtData
    <3>2. PICK q \in U : q.at = d.rd + d.msg /\ q.at <= Len(e.wire) /\ d.msg \in Nat /\ d.msg > 0
      BY <2>4, <3>1, DataFits, Zenon
    <3> QED  BY <2>5, <3>2
  <2>10. AtSize(e, U, d)
    BY <2>5, <2>7, <2>8, <2>9, Zenon DEF Position
  <2>11. \A q \in U : Length(e, q.of) \in Nat
    BY <2>5, PointIs, Zenon
  <2>12. Gone(e, d, EndPoint(e).of)
    BY <2>6, <2>10, <2>11, Zenon DEF AtSize
  <2>13. EndPoint(e).of = Len(e.messages)
    BY <2>5 DEF EndPoint, AllWritten
  <2>14. SubSeq(e.messages, 1, Len(e.messages)) = e.messages
    BY <2>5, Beginnings, Zenon DEF WellWritten
  <2> QED  BY <2>2, <2>12, <2>13, <2>14, Zenon DEF Gone
<1> QED  BY <1>1, OnTheTrail, PTL
===============================================================================
