----------------------------- MODULE MTAriProofs -----------------------------
(***************************************************************************)
(* What TLAPS proves of MTAri, for any number of threads, any size of the  *)
(* blocks and of the files, any base and width of the numbers, and any set *)
(* of faults.                                                              *)
(*                                                                         *)
(* The argument. There is a function o that gives for each block of the    *)
(* packed file, and after those for each of the round, where it ends in    *)
(* the file that was compressed. A round lies behind what is written when  *)
(* it is packed, and it is the blocks before the place of reading when it  *)
(* is unpacked; so what comes out ends where a block does, and all is out  *)
(* when the End is reached, which is told from a block by its size alone.  *)
(* Of the threads the invariant says that rc is zero after an error only   *)
(* if another thread took it before the error; and of the buffers that     *)
(* those of the round are allocated and that none is freed before a whole  *)
(* round of tcnt blocks was read.                                          *)
(***************************************************************************)
EXTENDS MTAri, Recursions

(* Sizes as they are written and read. *)

LEMMA Numbers ==
    ASSUME Parameters
    PROVE  /\ Threads \in Nat /\ Threads > 0 /\ bsz \in Nat /\ bsz > 0
           /\ Base \in Nat /\ Base > 1 /\ IntBytes \in Nat /\ IntBytes > 0
           /\ SizetBytes \in Nat /\ IntBytes < SizetBytes
           /\ \E h \in Nat : Base = h + h
<1>1. Base \in Nat /\ Base > 0 /\ Base % 2 = 0
  BY DEF Parameters
<1>2. PICK h \in Nat, r \in 0..1 : h = Base \div 2 /\ r = Base % 2 /\ h * 2 + r = Base
  BY <1>1, Division
<1>3. Base = h + h
  BY <1>1, <1>2
<1>4. Base > 1
  BY <1>1, <1>3
<1> QED  BY <1>1, <1>2, <1>3, <1>4 DEF Parameters

LEMMA PowerIs ==
    ASSUME Parameters
    PROVE  /\ Power \in [0..SizetBytes -> Nat \ {0}] /\ Power[0] = 1
           /\ \A k \in 1..SizetBytes : Power[k] = Base * Power[k - 1]
<1> DEFINE S == Nat \ {0}
           Rec(f) == [k \in 0..SizetBytes |-> IF k = 0 THEN 1 ELSE Base * f[k - 1]]
           step == [k \in 1..SizetBytes |-> [x \in S |-> Base * x]]
<1>1. Base \in Nat /\ Base > 1 /\ SizetBytes \in Nat
  BY Numbers
<1>2. \A x \in S : Base * x \in S
  <2> TAKE x \in S
  <2>1. PICK b \in Nat : Base = b + 1
    BY <1>1
  <2>2. (b + 1) * x = b * x + x /\ b * x \in Nat
    OBVIOUS
  <2> QED  BY <2>1, <2>2
<1>3. \A k \in 1..SizetBytes : step[k] \in [S -> S]
  BY <1>2
<1>4. PICK f \in [0..SizetBytes -> S] : Succeeds(f, SizetBytes, 1, step)
  <2> HIDE DEF step
  <2>1. 1 \in S
    OBVIOUS
  <2> QED  BY <1>1, <1>3, <2>1, Succession, Zenon
<1>5. f[0] = 1 /\ \A k \in 1..SizetBytes : f[k] = Base * f[k - 1]
  <2>1. f[0] = 1
    BY <1>4 DEF Succeeds
  <2>2. ASSUME NEW k \in 1..SizetBytes PROVE f[k] = Base * f[k - 1]
    <3>1. f[k] = step[k][f[k - 1]]
      BY <1>4, Zenon DEF Succeeds
    <3>2. f[k - 1] \in S
      BY <1>1, <1>4
    <3> QED  BY <3>1, <3>2
  <2> QED  BY <2>1, <2>2
<1>6. f = Rec(f)
  <2>1. Rec(f) = [k \in 0..SizetBytes |-> f[k]]
    BY <1>5
  <2> QED  BY <1>4, <2>1
<1>7. Power = Rec(Power)
  <2>1. Power = CHOOSE g : g = Rec(g)
    BY Zenon DEF Power
  <2> QED  BY <1>6, <2>1, Zenon
<1>8. Power[0] = 1 /\ \A k \in 1..SizetBytes : Power[k] = Base * Power[k - 1]
  BY <1>1, <1>7
<1>9. \A k \in 0..SizetBytes : Power[k] \in S
  <2> DEFINE P == {k \in 0..SizetBytes : Power[k] \in S}
  <2>1. 0 \in P
    BY <1>1, <1>8
  <2>2. \A k \in 0..(SizetBytes - 1) : k \in P => k + 1 \in P
    <3> TAKE k \in 0..(SizetBytes - 1)
    <3> HAVE k \in P
    <3>1. PICK m \in 1..SizetBytes : m = k + 1 /\ m - 1 = k
      BY <1>1
    <3>2. Power[m] = Base * Power[k]
      BY <1>8, <3>1
    <3>3. Power[m] \in S
      BY <1>2, <3>2
    <3>4. m \in 0..SizetBytes
      BY <1>1
    <3> QED  BY <3>1, <3>3, <3>4
  <2>3. \A k \in 0..SizetBytes : k \in P
    <3> HIDE DEF P
    <3> QED  BY <1>1, <2>1, <2>2, UpwardInduction
  <2> QED  BY <2>3
<1> QED  BY <1>7, <1>8, <1>9

LEMMA PowerGrows ==
    ASSUME Parameters, NEW i \in 0..SizetBytes, NEW j \in 0..SizetBytes, i <= j
    PROVE  Power[i] <= Power[j] /\ (i < j => 2 * Power[i] <= Power[j])
<1>1. SizetBytes \in Nat /\ Base \in Nat /\ Base > 1
  BY Numbers
<1>2. \A k \in 0..SizetBytes : Power[k] \in Nat /\ Power[k] > 0
  BY PowerIs
<1>3. ASSUME NEW k \in 1..SizetBytes PROVE 2 * Power[k - 1] <= Power[k]
  <2>1. PICK x \in Nat : x = Power[k - 1]
    BY <1>1, <1>2
  <2>2. PICK b \in Nat : Base = b + 2
    BY <1>1
  <2>3. (b + 2) * x = b * x + 2 * x /\ b * x \in Nat
    OBVIOUS
  <2>4. Power[k] = (b + 2) * x
    BY <2>1, <2>2, PowerIs
  <2> QED  BY <2>1, <2>3, <2>4
<1> DEFINE P == {k \in 0..SizetBytes : i <= k => Power[i] <= Power[k] /\ (i < k => 2 * Power[i] <= Power[k])}
<1>4. 0 \in P
  BY <1>1, <1>2
<1>5. ASSUME NEW k \in 0..(SizetBytes - 1), k \in P PROVE k + 1 \in P
  <2>1. PICK m \in 1..SizetBytes : m = k + 1 /\ m - 1 = k
    BY <1>1
  <2>2. 2 * Power[k] <= Power[m]
    BY <1>3, <2>1
  <2>3. PICK x \in Nat, y \in Nat, z \in Nat : x = Power[i] /\ y = Power[k] /\ z = Power[m] /\ y > 0
    BY <1>1, <1>2
  <2>4. i <= k => x <= y
    BY <1>5, <2>3
  <2>5. CASE i <= k
    BY <1>1, <2>1, <2>2, <2>3, <2>4, <2>5
  <2>6. CASE i = m
    BY <1>1, <2>1, <2>3, <2>6
  <2>7. CASE i > m
    BY <1>1, <2>1, <2>7
  <2> QED  BY <2>1, <2>5, <2>6, <2>7
<1>6. \A k \in 0..SizetBytes : k \in P
  <2> HIDE DEF P
  <2> QED  BY <1>1, <1>4, <1>5, UpwardInduction
<1> QED  BY <1>6

Low(v, k) == v % Power[k]
High(v, k) == v \div Power[k]

LEMMA Parted ==
    ASSUME Parameters, NEW v \in Nat, NEW k \in 0..SizetBytes
    PROVE  /\ Low(v, k) \in Nat /\ High(v, k) \in Nat /\ Low(v, k) < Power[k]
           /\ v = High(v, k) * Power[k] + Low(v, k)
<1>1. PICK p \in Nat : p = Power[k] /\ p > 0
  BY PowerIs
<1>2. v \div p \in Nat /\ v % p \in 0..(p - 1) /\ (v \div p) * p + (v % p) = v
  BY <1>1, Division
<1> QED  BY <1>1, <1>2 DEF Low, High

LEMMA NextDigit ==
    ASSUME Parameters, NEW v \in Nat, NEW k \in 1..SizetBytes, NEW d, d = Digit(v, k - 1)
    PROVE  /\ d \in 0..(Base - 1) /\ Low(v, k) = Low(v, k - 1) + d * Power[k - 1]
           /\ High(v, k - 1) = High(v, k) * Base + d
<1>1. PICK B \in Nat : B = Base /\ B > 1
  BY Numbers
<1>2. PICK j \in 0..SizetBytes, i \in 0..SizetBytes : j = k - 1 /\ i = k
  BY Numbers
<1>3. PICK p \in Nat, P \in Nat : p = Power[j] /\ P = Power[i] /\ p > 0 /\ P > 0 /\ P = B * p
  <2>1. Power[j] \in Nat /\ Power[i] \in Nat /\ Power[j] > 0 /\ Power[i] > 0
    BY PowerIs
  <2>2. Power[k] = Base * Power[k - 1]
    BY PowerIs
  <2> QED  BY <1>1, <1>2, <2>1, <2>2
<1>4. PICK q \in Nat, r \in Nat : q = High(v, j) /\ r = Low(v, j) /\ r < p /\ v = q * p + r
  BY <1>3, Parted
<1>5. PICK Q \in Nat, e \in Nat : Q = q \div B /\ e = q % B /\ e < B /\ q = Q * B + e
  BY <1>1, Division
<1>6. d = e
  BY <1>1, <1>2, <1>4, <1>5 DEF Digit, High
<1>7. PICK x \in Nat, R \in Nat : x = e * p /\ R = r + x
  <2>1. e * p \in Nat
    OBVIOUS
  <2> QED  BY <2>1
<1>8. v = Q * P + R
  <2>1. (Q * B + e) * p = Q * (B * p) + e * p
    OBVIOUS
  <2>2. v = (Q * B + e) * p + r
    BY <1>4, <1>5
  <2>3. Q * P \in Nat /\ Q * P = Q * (B * p)
    BY <1>3
  <2> QED  BY <1>7, <2>1, <2>2, <2>3
<1>9. R < P
  <2>1. e < B
    BY <1>5
  <2>2. PICK c \in Nat : B = e + 1 + c
    BY <2>1
  <2>3. PICK y \in Nat : y = c * p /\ (e + 1 + c) * p = e * p + p + y
    <3>1. (e + 1 + c) * p = e * p + p + c * p /\ c * p \in Nat
      OBVIOUS
    <3> QED  BY <3>1
  <2>4. P = x + p + y
    BY <1>3, <1>7, <2>2, <2>3
  <2>5. R = r + x /\ r < p
    BY <1>4, <1>7
  <2> QED  BY <2>4, <2>5
<1>10. v \div P = Q /\ v % P = R
  <2>1. (Q * P + R) \div P = Q /\ (Q * P + R) % P = R
    BY <1>9, DivUnique
  <2> QED  BY <1>8, <2>1
<1>11. Low(v, k) = R /\ High(v, k) = Q
  BY <1>2, <1>3, <1>10 DEF Low, High
<1>12. Low(v, k) = Low(v, k - 1) + d * Power[k - 1]
  BY <1>2, <1>3, <1>4, <1>6, <1>7, <1>11
<1>13. High(v, k - 1) = High(v, k) * Base + d
  BY <1>1, <1>2, <1>4, <1>5, <1>6, <1>11
<1> QED  BY <1>1, <1>5, <1>6, <1>12, <1>13

LEMMA IntShiftIs ==
    ASSUME Parameters, NEW c \in 0..(Base - 1), NEW k \in 0..(SizetBytes - 1)
    PROVE  /\ IntShift(c, k) \in Nat /\ c * Power[k] \in Nat
           /\ 2 * (c * Power[k]) < Power[IntBytes] => IntShift(c, k) = c * Power[k]
           /\ 2 * (c * Power[k]) >= Power[IntBytes] =>
                IntShift(c, k) = c * Power[k] + (Power[SizetBytes] - Power[IntBytes])
<1>1. /\ Base \in Nat /\ SizetBytes \in Nat /\ IntBytes \in 0..SizetBytes /\ SizetBytes \in 0..SizetBytes
      /\ k \in 0..SizetBytes /\ IntBytes <= SizetBytes
  BY Numbers
<1>2. PICK p \in Nat, x \in Nat, y \in Nat : p = Power[k] /\ x = Power[IntBytes] /\ y = Power[SizetBytes]
  BY <1>1, PowerIs
<1>3. x <= y
  BY <1>1, <1>2, PowerGrows
<1>4. PICK v \in Nat : v = c * p
  <2>1. c \in Nat
    BY <1>1
  <2>2. c * p \in Nat
    BY <2>1
  <2> QED  BY <2>2
<1>5. IntShift(c, k) = IF 2 * v >= x THEN v + y - x ELSE v
  BY <1>2, <1>4 DEF IntShift
<1> QED  BY <1>2, <1>3, <1>4, <1>5

\* What freadsize has read after k digits.
ReadOne(f, digits, k) ==
    f[k] = IF digits[k] = 0 THEN f[k - 1] ELSE f[k - 1] + IntShift(digits[k], k - 1)

LEMMA ReadSteps ==
    ASSUME Parameters, NEW digits, \A k \in 1..SizetBytes : digits[k] \in 0..(Base - 1)
    PROVE  \E f \in [0..SizetBytes -> Nat] :
             /\ f[0] = 0 /\ \A k \in 1..SizetBytes : ReadOne(f, digits, k)
             /\ freadsize(digits) = f[SizetBytes]
<1> DEFINE Rec(f) == [k \in 0..SizetBytes |->
                        IF k = 0 THEN 0
                        ELSE IF digits[k] = 0 THEN f[k - 1] ELSE f[k - 1] + IntShift(digits[k], k - 1)]
           step == [k \in 1..SizetBytes |-> [x \in Nat |->
                        IF digits[k] = 0 THEN x ELSE x + IntShift(digits[k], k - 1)]]
<1>1. SizetBytes \in Nat
  BY Numbers
<1>2. ASSUME NEW k \in 1..SizetBytes PROVE IntShift(digits[k], k - 1) \in Nat
  <2>1. k - 1 \in 0..(SizetBytes - 1) /\ digits[k] \in 0..(Base - 1)
    BY <1>1
  <2> QED  BY <2>1, IntShiftIs
<1>3. ASSUME NEW k \in 1..SizetBytes PROVE step[k] \in [Nat -> Nat]
  <2>1. PICK s \in Nat : s = IntShift(digits[k], k - 1)
    BY <1>2
  <2>2. step[k] = [x \in Nat |-> IF digits[k] = 0 THEN x ELSE x + s]
    BY <2>1
  <2> QED  BY <2>2
<1>4. PICK f \in [0..SizetBytes -> Nat] : Succeeds(f, SizetBytes, 0, step)
  <2> HIDE DEF step
  <2>1. 0 \in Nat
    OBVIOUS
  <2> QED  BY <1>1, <1>3, <2>1, Succession, Zenon
<1>5. f[0] = 0
  BY <1>4 DEF Succeeds
<1>6. ASSUME NEW k \in 1..SizetBytes PROVE ReadOne(f, digits, k)
  <2>1. f[k] = step[k][f[k - 1]]
    BY <1>4, Zenon DEF Succeeds
  <2>2. f[k - 1] \in Nat
    BY <1>1, <1>4
  <2> QED  BY <2>1, <2>2 DEF ReadOne
<1>7. f = Rec(f)
  <2>1. Rec(f) = [k \in 0..SizetBytes |-> f[k]]
    BY <1>5, <1>6 DEF ReadOne
  <2> QED  BY <1>4, <2>1
<1>8. PICK g : g = Rec(g) /\ freadsize(digits) = g[SizetBytes]
  <2> DEFINE g == CHOOSE g : g = Rec(g)
  <2>1. g = Rec(g)
    BY <1>7, Zenon
  <2>2. freadsize(digits) = g[SizetBytes]
    BY Zenon DEF freadsize
  <2> QED  BY <2>1, <2>2, Zenon
<1>9. g[0] = 0 /\ \A k \in 1..SizetBytes : ReadOne(g, digits, k)
  BY <1>1, <1>8 DEF ReadOne
<1>10. g \in [0..SizetBytes -> Nat]
  <2> DEFINE P == {k \in 0..SizetBytes : g[k] \in Nat}
  <2>1. 0 \in P
    BY <1>1, <1>9
  <2>2. ASSUME NEW k \in 0..(SizetBytes - 1), k \in P PROVE k + 1 \in P
    <3>1. PICK m \in 1..SizetBytes : m = k + 1 /\ m - 1 = k
      BY <1>1
    <3>2. g[m] = IF digits[m] = 0 THEN g[m - 1] ELSE g[m - 1] + IntShift(digits[m], m - 1)
      BY <1>9, Zenon DEF ReadOne
    <3>3. IntShift(digits[m], m - 1) \in Nat /\ g[m - 1] \in Nat
      BY <1>2, <2>2, <3>1
    <3>4. m \in 0..SizetBytes
      BY <1>1
    <3> QED  BY <3>1, <3>2, <3>3, <3>4
  <2>3. \A k \in 0..SizetBytes : k \in P
    <3> HIDE DEF P
    <3> QED  BY <1>1, <2>1, <2>2, UpwardInduction
  <2> QED  BY <1>8, <2>3
<1> QED  BY <1>8, <1>9, <1>10, Zenon

\* Read back through an int: as written while the highest bit of the int is not
\* in use, else with ones in front.
AsRead(v) == IF 2 * v < Power[IntBytes] THEN v ELSE v + (Power[SizetBytes] - Power[IntBytes])

LEMMA SizeComesBack ==
    ASSUME Parameters, NEW v \in 0..(Power[IntBytes] - 1)
    PROVE  freadsize(fwritesize(v)) = AsRead(v)
<1>1. PICK S \in Nat, I \in Nat : S = SizetBytes /\ I = IntBytes /\ I > 0 /\ I < S
  BY Numbers
<1>2. PICK B \in Nat, h \in Nat : B = Base /\ B = h + h /\ B > 1
  BY Numbers
<1>3. PICK X \in Nat, Y \in Nat : X = Power[IntBytes] /\ Y = Power[SizetBytes] /\ X <= Y /\ X > 0
  <2>1. IntBytes \in 0..SizetBytes /\ SizetBytes \in 0..SizetBytes /\ IntBytes <= SizetBytes
    BY Numbers
  <2>2. Power[IntBytes] \in Nat /\ Power[SizetBytes] \in Nat /\ Power[IntBytes] > 0
    BY <2>1, PowerIs
  <2>3. Power[IntBytes] <= Power[SizetBytes]
    BY <2>1, PowerGrows
  <2> QED  BY <2>2, <2>3
<1>4. v \in Nat /\ v < X
  BY <1>3
<1>5. PICK digits : digits = fwritesize(v)
  OBVIOUS
<1>6. \A k \in 1..S : digits[k] = Digit(v, k - 1) /\ digits[k] \in 0..(Base - 1)
  <2> TAKE k \in 1..S
  <2>1. digits[k] = Digit(v, k - 1)
    BY <1>1, <1>5 DEF fwritesize
  <2>2. Digit(v, k - 1) \in 0..(Base - 1)
    BY <1>1, <1>4, NextDigit
  <2> QED  BY <2>1, <2>2
<1>7. PICK f \in [0..S -> Nat] : /\ f[0] = 0 /\ \A k \in 1..S : ReadOne(f, digits, k)
                                 /\ freadsize(digits) = f[S]
  BY <1>1, <1>6, ReadSteps
<1>8. \A k \in 0..(I - 1) : f[k] = Low(v, k)
  <2> DEFINE P == {k \in 0..(I - 1) : f[k] = Low(v, k)}
  <2>1. 0 \in P
    <3>1. Power[0] = 1
      BY PowerIs
    <3>2. v % 1 = 0
      BY <1>4
    <3> QED  BY <1>1, <1>7, <3>1, <3>2 DEF Low
  <2>2. ASSUME NEW k \in 0..(I - 2), k \in P PROVE k + 1 \in P
    <3>1. PICK m \in 1..SizetBytes, j \in 0..SizetBytes, i \in 0..SizetBytes :
            m = k + 1 /\ j = k /\ i = I /\ m \in 1..S /\ m < i
      BY <1>1
    <3>2. PICK d \in Nat, x \in Nat, p \in Nat, r \in Nat :
            d = digits[m] /\ d < B /\ x = d * p /\ p = Power[j] /\ r = f[j] /\ r = Low(v, j)
      <4>1. digits[m] \in 0..(Base - 1)
        BY <1>6, <3>1
      <4>2. Power[j] \in Nat /\ f[j] \in Nat
        BY <1>1, <1>7, <3>1, PowerIs
      <4>3. PICK d \in Nat, p \in Nat : d = digits[m] /\ d < B /\ p = Power[j]
        BY <1>2, <4>1, <4>2
      <4>4. d * p \in Nat
        OBVIOUS
      <4> QED  BY <2>2, <3>1, <4>2, <4>3, <4>4
    <3>3. Low(v, m) = r + x
      <4>1. Low(v, m) = Low(v, m - 1) + digits[m] * Power[m - 1]
        BY <1>4, <1>6, <3>1, NextDigit
      <4> QED  BY <3>1, <3>2, <4>1
    <3>4. 2 * x < X
      <4>1. PICK y \in Nat : y = Power[m] /\ y = B * p
        <5>1. m \in 0..SizetBytes
          BY <1>1
        <5>2. Power[m] \in Nat
          BY <5>1, PowerIs
        <5>3. Power[m] = Base * Power[m - 1]
          BY PowerIs
        <5>4. m - 1 = j
          BY <3>1
        <5>5. Base = B /\ Power[j] = p
          BY <1>2, <3>2
        <5>6. Power[m] = B * p
          BY <5>3, <5>4, <5>5, Zenon
        <5> QED  BY <5>2, <5>6
      <4>2. 2 * Power[m] <= Power[i]
        BY <3>1, PowerGrows
      <4>3. PICK c \in Nat : B = d + 1 + c
        <5>1. d < B
          BY <3>2
        <5> QED  BY <5>1
      <4>4. PICK z \in Nat : z = c * p /\ (d + 1 + c) * p = d * p + p + z
        <5>1. (d + 1 + c) * p = d * p + p + c * p /\ c * p \in Nat
          OBVIOUS
        <5> QED  BY <5>1
      <4>5. y = x + p + z /\ p > 0
        <5>1. Power[j] > 0
          BY PowerIs
        <5> QED  BY <3>2, <4>1, <4>3, <4>4, <5>1
      <4> QED  BY <1>1, <1>3, <3>1, <4>1, <4>2, <4>5
    <3>5. f[m] = r + x
      <4>1. f[m] = IF d = 0 THEN r ELSE r + IntShift(d, j)
        <5>1. m - 1 = j
          BY <3>1
        <5> QED  BY <1>7, <3>1, <3>2, <5>1 DEF ReadOne
      <4>2. d \in 0..(Base - 1) /\ j \in 0..(SizetBytes - 1)
        BY <1>1, <1>2, <3>1, <3>2
      <4>3. IntShift(d, j) = x
        BY <1>3, <3>2, <3>4, <4>2, IntShiftIs
      <4>4. d = 0 => x = 0
        BY <3>2
      <4> QED  BY <4>1, <4>3, <4>4
    <3>6. m \in 0..(I - 1)
      BY <3>1, <1>1
    <3> QED  BY <3>1, <3>3, <3>5, <3>6
  <2>3. \A k \in 0..(I - 1) : k \in P
    <3>1. PICK n \in Nat : n = I - 1 /\ n - 1 = I - 2
      BY <1>1
    <3>2. \A k \in 0..(n - 1) : k \in P => k + 1 \in P
      BY <2>2, <3>1
    <3> HIDE DEF P
    <3>3. \A k \in 0..n : k \in P
      BY <2>1, <3>1, <3>2, UpwardInduction
    <3> QED  BY <3>1, <3>3
  <2> QED  BY <2>3
<1>9. ASSUME NEW k \in 0..SizetBytes, I <= k PROVE High(v, k) = 0
  <2>1. PICK p \in Nat, q \in Nat, r \in Nat :
          p = Power[k] /\ q = High(v, k) /\ r = Low(v, k) /\ v = q * p + r
    <3>1. Power[k] \in Nat
      BY PowerIs
    <3>2. /\ High(v, k) \in Nat /\ Low(v, k) \in Nat
          /\ v = High(v, k) * Power[k] + Low(v, k)
      BY <1>4, Parted
    <3> QED  BY <3>1, <3>2
  <2>2. X <= p
    <3>1. IntBytes \in 0..SizetBytes /\ IntBytes <= k
      BY <1>1, <1>9
    <3> QED  BY <1>3, <2>1, <3>1, PowerGrows
  <2>3. ASSUME q > 0 PROVE FALSE
    <3>1. PICK c \in Nat : q = c + 1
      BY <2>3
    <3>2. PICK y \in Nat : y = c * p /\ (c + 1) * p = y + p
      <4>1. (c + 1) * p = c * p + p /\ c * p \in Nat
        OBVIOUS
      <4> QED  BY <4>1
    <3>3. v = y + p + r
      BY <2>1, <3>1, <3>2
    <3> QED  BY <1>4, <2>2, <3>3
  <2> QED  BY <2>1, <2>3
<1>10. f[I] = AsRead(v)
  <2>1. PICK m \in 1..SizetBytes, j \in 0..SizetBytes : m = I /\ j = I - 1 /\ j = m - 1 /\ m \in 1..S
    BY <1>1
  <2>2. PICK d \in Nat, p \in Nat, r \in Nat, x \in Nat :
          /\ d = digits[m] /\ p = Power[j] /\ r = f[j] /\ r = Low(v, j) /\ r < p /\ d < B /\ x = d * p
    <3>1. digits[m] \in 0..(Base - 1)
      BY <1>6, <2>1
    <3>2. Power[j] \in Nat /\ f[j] \in Nat /\ f[j] = Low(v, j) /\ Low(v, j) < Power[j]
      BY <1>1, <1>4, <1>7, <1>8, <2>1, PowerIs, Parted
    <3>3. PICK d \in Nat, p \in Nat : d = digits[m] /\ d < B /\ p = Power[j]
      BY <1>2, <3>1, <3>2
    <3>4. d * p \in Nat
      OBVIOUS
    <3> QED  BY <3>2, <3>3, <3>4
  <2>3. v = x + r
    <3>1. High(v, m) = 0
      BY <1>9, <2>1
    <3>2. High(v, j) = High(v, m) * Base + d
      BY <1>4, <1>6, <2>1, <2>2, NextDigit
    <3>3. High(v, j) = d
      BY <1>2, <3>1, <3>2
    <3>4. v = High(v, j) * Power[j] + Low(v, j)
      BY <1>4, Parted
    <3> QED  BY <2>2, <3>3, <3>4
  <2>4. X = B * p
    <3>1. Power[m] = Base * Power[m - 1]
      BY PowerIs
    <3> QED  BY <1>1, <1>2, <1>3, <2>1, <2>2, <3>1
  <2>5. f[I] = r + IntShift(d, j)
    <3>1. d \in 0..(Base - 1) /\ j \in 0..(SizetBytes - 1)
      BY <1>1, <1>2, <2>1, <2>2
    <3>2. f[m] = IF d = 0 THEN r ELSE r + IntShift(d, j)
      BY <1>7, <2>1, <2>2 DEF ReadOne
    <3>3. d = 0 => IntShift(d, j) = 0
      <4>1. d = 0 => d * Power[j] = 0
        BY <2>2
      <4> QED  BY <1>3, <3>1, <4>1, IntShiftIs
    <3> QED  BY <2>1, <3>2, <3>3
  <2>6. /\ 2 * x < X => IntShift(d, j) = x
        /\ 2 * x >= X => IntShift(d, j) = x + (Y - X)
    <3>1. d \in 0..(Base - 1) /\ j \in 0..(SizetBytes - 1)
      BY <1>1, <1>2, <2>1, <2>2
    <3> QED  BY <1>3, <2>2, <3>1, IntShiftIs
  <2>7. CASE 2 * x < X
    <3>1. d < h
      <4> SUFFICES ASSUME d >= h PROVE FALSE
        OBVIOUS
      <4>1. PICK c \in Nat : d = h + c
        OBVIOUS
      <4>2. PICK y \in Nat, z \in Nat : y = h * p /\ z = c * p /\ (h + c) * p = y + z /\ (h + h) * p = y + y
        <5>1. (h + c) * p = h * p + c * p /\ (h + h) * p = h * p + h * p /\ h * p \in Nat /\ c * p \in Nat
          OBVIOUS
        <5> QED  BY <5>1
      <4>3. x = y + z /\ X = y + y
        BY <1>2, <2>2, <2>4, <4>1, <4>2
      <4> QED  BY <2>7, <4>3
    <3>2. PICK c \in Nat : h = d + 1 + c
      BY <3>1
    <3>3. PICK y \in Nat, z \in Nat : y = h * p /\ z = c * p /\ (d + 1 + c) * p = x + p + z /\ (h + h) * p = y + y
      <4>1. (d + 1 + c) * p = d * p + p + c * p /\ (h + h) * p = h * p + h * p /\ h * p \in Nat /\ c * p \in Nat
        OBVIOUS
      <4> QED  BY <2>2, <4>1
    <3>4. y = x + p + z /\ X = y + y
      BY <1>2, <2>4, <3>2, <3>3
    <3>5. 2 * v < X
      <4>1. r < p /\ v = x + r
        BY <2>2, <2>3
      <4>2. y \in Nat /\ y = x + p + z /\ z \in Nat
        BY <3>3, <3>4
      <4>3. v < y
        BY <4>1, <4>2
      <4> QED  BY <1>4, <3>4, <4>3
    <3> QED  BY <1>3, <2>3, <2>5, <2>6, <2>7, <3>5 DEF AsRead
  <2>8. CASE 2 * x >= X
    <3>1. 2 * v >= X
      BY <2>3, <2>8
    <3>2. f[I] = v + (Y - X)
      <4>1. PICK w \in Nat : w = Y - X
        BY <1>3
      <4>2. IntShift(d, j) = x + w
        BY <2>6, <2>8, <4>1, Zenon
      <4>3. f[I] = r + (x + w)
        BY <2>5, <4>2, Zenon
      <4>4. f[I] = v + w
        BY <2>3, <4>3
      <4> QED  BY <4>1, <4>4, Zenon
    <3> QED  BY <1>3, <1>4, <3>1, <3>2 DEF AsRead
  <2> QED  BY <2>7, <2>8
<1>11. f[S] = f[I]
  <2> DEFINE P == {k \in 0..S : I <= k => f[k] = f[I]}
  <2>1. 0 \in P
    BY <1>1
  <2>2. ASSUME NEW k \in 0..(S - 1), k \in P PROVE k + 1 \in P
    <3>1. PICK m \in 1..SizetBytes, j \in 0..SizetBytes : m = k + 1 /\ j = k /\ j = m - 1 /\ m \in 1..S
      BY <1>1
    <3>2. CASE I <= j
      <4>1. High(v, j) = 0 /\ High(v, m) = 0
        BY <1>9, <3>1, <3>2
      <4>2. High(v, j) = High(v, m) * Base + digits[m]
        BY <1>4, <1>6, <3>1, NextDigit
      <4>3. digits[m] \in Nat
        BY <1>2, <1>6, <3>1
      <4>4. digits[m] = 0
        BY <1>2, <4>1, <4>2, <4>3
      <4>5. f[m] = f[j]
        BY <1>7, <3>1, <4>4 DEF ReadOne
      <4> QED  BY <2>2, <3>1, <3>2, <4>5
    <3>3. CASE m = I
      BY <3>1, <3>3
    <3>4. CASE m < I
      BY <3>1, <3>4
    <3> QED  BY <3>1, <3>2, <3>3, <3>4
  <2>3. \A k \in 0..S : k \in P
    <3> HIDE DEF P
    <3> QED  BY <2>1, <2>2, UpwardInduction
  <2>4. S \in 0..S /\ I <= S
    BY <1>1
  <2> QED  BY <2>3, <2>4
<1> QED  BY <1>5, <1>7, <1>10, <1>11

LEMMA SizesComeBack == ASSUME Parameters PROVE SizesReadBack
<1> SUFFICES ASSUME NEW v \in 0..(Power[IntBytes] - 1)
             PROVE  freadsize(fwritesize(v)) = v <=> 2 * v < Power[IntBytes]
  BY DEF SizesReadBack
<1>1. IntBytes \in 0..SizetBytes /\ SizetBytes \in 0..SizetBytes /\ IntBytes < SizetBytes
  BY Numbers
<1>2. PICK X \in Nat, Y \in Nat : X = Power[IntBytes] /\ Y = Power[SizetBytes] /\ X > 0 /\ 2 * X <= Y
  <2>1. Power[IntBytes] \in Nat /\ Power[SizetBytes] \in Nat /\ Power[IntBytes] > 0
    BY <1>1, PowerIs
  <2>2. 2 * Power[IntBytes] <= Power[SizetBytes]
    BY <1>1, PowerGrows
  <2> QED  BY <2>1, <2>2
<1>3. freadsize(fwritesize(v)) = IF 2 * v < X THEN v ELSE v + (Y - X)
  BY <1>2, SizeComesBack DEF AsRead
<1> QED  BY <1>2, <1>3

-----------------------------------------------------------------------------
(* The blocks of a round, one after the other. *)

LEMMA GatheredIs ==
    ASSUME mp \in Nat, NEW X, NEW f, \A t \in 0..(mp - 1) : f[t] \in Seq(X)
    PROVE  \E g \in [0..mp -> Seq(X)] :
             /\ g[0] = <<>> /\ \A k \in 1..mp : g[k] = g[k - 1] \o f[k - 1]
             /\ Gathered(f) = g[mp]
<1> DEFINE Rec(g) == [n \in 0..mp |-> IF n = 0 THEN <<>> ELSE g[n - 1] \o f[n - 1]]
           S == Seq(X)
           step == [k \in 1..mp |-> [s \in S |-> s \o f[k - 1]]]
<1>1. ASSUME NEW k \in 1..mp PROVE step[k] \in [S -> S]
  <2>1. k - 1 \in 0..(mp - 1)
    OBVIOUS
  <2>2. f[k - 1] \in Seq(X)
    BY <2>1
  <2>3. \A s \in S : s \o f[k - 1] \in S
    BY <2>2
  <2> QED  BY <2>3
<1>2. PICK g \in [0..mp -> S] : Succeeds(g, mp, <<>>, step)
  <2>1. <<>> \in S
    OBVIOUS
  <2> HIDE DEF step, S
  <2> QED  BY <1>1, <2>1, Succession, Zenon
<1>3. g[0] = <<>>
  BY <1>2, Zenon DEF Succeeds
<1>4. ASSUME NEW k \in 1..mp PROVE g[k] = g[k - 1] \o f[k - 1]
  <2>1. g[k] = step[k][g[k - 1]]
    BY <1>2, Zenon DEF Succeeds
  <2>2. k - 1 \in 0..mp
    OBVIOUS
  <2>3. g[k - 1] \in S
    BY <1>2, <2>2, Zenon
  <2> HIDE DEF S
  <2> QED  BY <2>1, <2>3, Zenon
<1>5. g = Rec(g)
  <2>1. Rec(g) = [n \in 0..mp |-> g[n]]
    <3>1. ASSUME NEW n \in 0..mp PROVE g[n] = IF n = 0 THEN <<>> ELSE g[n - 1] \o f[n - 1]
      <4>1. CASE n = 0
        BY <1>3, <4>1, Zenon
      <4>2. CASE n # 0
        <5>1. n \in 1..mp
          BY <4>2
        <5> QED  BY <1>4, <4>2, <5>1, Zenon
      <4> QED  BY <4>1, <4>2
    <3> QED  BY <3>1, Zenon
  <2>2. g = [n \in 0..mp |-> g[n]]
    BY <1>2, Zenon
  <2> QED  BY <2>1, <2>2, Zenon
<1>6. PICK h : h = Rec(h) /\ Gathered(f) = h[mp]
  <2> DEFINE h == CHOOSE h : h = Rec(h)
  <2>1. h = Rec(h)
    BY <1>5, Zenon
  <2>2. Gathered(f) = h[mp]
    BY Zenon DEF Gathered
  <2> QED  BY <2>1, <2>2, Zenon
<1>7. h[0] = <<>>
  <2>1. 0 \in 0..mp
    OBVIOUS
  <2> QED  BY <1>6, <2>1, Zenon
<1>8. ASSUME NEW k \in 1..mp PROVE h[k] = h[k - 1] \o f[k - 1]
  <2>1. k \in 0..mp /\ k # 0
    OBVIOUS
  <2> QED  BY <1>6, <2>1, Zenon
<1>9. \A k \in 0..mp : h[k] \in S
  <2> DEFINE P == {k \in 0..mp : h[k] \in S}
  <2>1. 0 \in P
    <3>1. <<>> \in S /\ 0 \in 0..mp
      OBVIOUS
    <3> QED  BY <1>7, <3>1, Zenon
  <2>2. ASSUME NEW k \in 0..(mp - 1), k \in P PROVE k + 1 \in P
    <3>1. PICK m \in 1..mp : m = k + 1 /\ m - 1 = k /\ m \in 0..mp
      OBVIOUS
    <3>2. h[m] = h[k] \o f[k]
      BY <1>8, <3>1
    <3>3. h[k] \in S /\ f[k] \in S
      BY <2>2
    <3>4. h[m] \in S
      BY <3>2, <3>3
    <3> QED  BY <3>1, <3>4
  <2>3. \A k \in 0..mp : k \in P
    <3> HIDE DEF P
    <3> QED  BY <2>1, <2>2, UpwardInduction
  <2> QED  BY <2>3
<1>10. h \in [0..mp -> S]
  BY <1>6, <1>9, Zenon
<1> QED  BY <1>6, <1>7, <1>8, <1>10, Zenon

\* s is what lies from place a on.
Places(s, a) == \A k \in 1..Len(s) : s[k] = a + k

LEMMA PlacesJoin ==
    ASSUME NEW s \in Seq(Int), NEW u \in Seq(Int), NEW a \in Nat, NEW b \in Nat, b = a + Len(s),
           Places(s, a), Places(u, b)
    PROVE  Places(s \o u, a)
<1>1. PICK m \in Nat, n \in Nat : m = Len(s) /\ n = Len(u) /\ Len(s \o u) = m + n
  OBVIOUS
<1> SUFFICES ASSUME NEW k \in 1..(m + n) PROVE (s \o u)[k] = a + k
  BY <1>1 DEF Places
<1>2. CASE k <= m
  <2>1. (s \o u)[k] = s[k] /\ k \in 1..m
    BY <1>1, <1>2
  <2> QED  BY <1>1, <2>1 DEF Places
<1>3. CASE k > m
  <2>1. PICK i \in 1..n : i = k - m
    BY <1>3
  <2>2. (s \o u)[k] = u[i]
    BY <1>1, <1>3, <2>1
  <2>3. u[i] = b + i
    BY <1>1 DEF Places
  <2> QED  BY <1>1, <2>1, <2>2, <2>3
<1> QED  BY <1>1, <1>2, <1>3

\* s is what the blocks f give that lie from place o[a] on.
PlacedFrom(s, f, o, a) ==
    /\ s \in Seq(Int) /\ o[a] + Len(s) = o[a + mp]
    /\ (\A t \in 0..(mp - 1) : Places(f[t], o[a + t])) => Places(s, o[a])

LEMMA GatheredPlaces ==
    ASSUME mp \in Nat, NEW f, \A t \in 0..(mp - 1) : f[t] \in Seq(Int),
           NEW o \in [Nat -> Nat], NEW a \in Nat,
           \A t \in 0..(mp - 1) : o[a + t + 1] = o[a + t] + Len(f[t])
    PROVE  PlacedFrom(Gathered(f), f, o, a)
<1>1. PICK g \in [0..mp -> Seq(Int)] :
             /\ g[0] = <<>> /\ \A k \in 1..mp : g[k] = g[k - 1] \o f[k - 1]
             /\ Gathered(f) = g[mp]
  BY GatheredIs
<1> DEFINE All == \A t \in 0..(mp - 1) : Places(f[t], o[a + t])
           P == {k \in 0..mp : o[a] + Len(g[k]) = o[a + k] /\ (All => Places(g[k], o[a]))}
<1>2. 0 \in P
  <2>1. Places(<<>>, o[a])
    BY DEF Places
  <2>2. PICK x \in Nat : x = o[a] /\ x = o[a + 0]
    <3>1. a + 0 = a
      OBVIOUS
    <3>2. o[a] \in Nat
      OBVIOUS
    <3> QED  BY <3>1, <3>2, Zenon
  <2>3. o[a] + Len(g[0]) = o[a + 0]
    <3>1. Len(<<>>) = 0 /\ x + 0 = x
      OBVIOUS
    <3>2. g[0] = <<>>
      BY <1>1, Zenon
    <3> QED  BY <2>2, <3>1, <3>2, Zenon
  <2>4. 0 \in 0..mp
    OBVIOUS
  <2> QED  BY <1>1, <2>1, <2>3, <2>4, Zenon
<1>3. ASSUME NEW k \in 0..(mp - 1), k \in P PROVE k + 1 \in P
  <2>1. PICK m \in 1..mp, c \in Nat, d \in Nat : m = k + 1 /\ m - 1 = k /\ m \in 0..mp /\ c = a + k /\ d = a + m /\ d = a + k + 1
    OBVIOUS
  <2>2. PICK s \in Seq(Int), u \in Seq(Int) : s = g[k] /\ u = f[k] /\ g[m] = s \o u
    <3>1. g[k] \in Seq(Int) /\ f[k] \in Seq(Int)
      <4>1. k \in 0..mp
        OBVIOUS
      <4>2. g[k] \in Seq(Int)
        BY <1>1, <4>1, Zenon
      <4>3. f[k] \in Seq(Int)
        OBVIOUS
      <4> QED  BY <4>2, <4>3
    <3>2. g[m] = g[k] \o f[k]
      BY <1>1, <2>1, Zenon
    <3> QED  BY <3>1, <3>2
  <2>3. PICK x \in Nat, y \in Nat, z \in Nat : x = o[a] /\ y = o[c] /\ z = o[d]
    OBVIOUS
  <2>4. z = y + Len(u) /\ y = x + Len(s)
    <3>1. o[a + k + 1] = o[a + k] + Len(f[k])
      OBVIOUS
    <3>2. o[a] + Len(g[k]) = o[a + k]
      BY <1>3
    <3> QED  BY <2>1, <2>2, <2>3, <3>1, <3>2
  <2>5. Len(s \o u) = Len(s) + Len(u) /\ Len(s) \in Nat /\ Len(u) \in Nat
    <3>1. s \in Seq(Int) /\ u \in Seq(Int)
      BY <2>2, Zenon
    <3> QED  BY <3>1, LenProperties, ConcatProperties
  <2>6. x + Len(s \o u) = z
    BY <2>4, <2>5
  <2>7. ASSUME All PROVE Places(s \o u, x)
    <3>1. Places(s, x)
      BY <1>3, <2>2, <2>3, <2>7, Zenon
    <3>2. Places(u, y)
      BY <2>1, <2>2, <2>3, <2>7, Zenon
    <3> QED  BY <2>4, <3>1, <3>2, PlacesJoin
  <2>8. m \in P
    BY <2>1, <2>2, <2>3, <2>6, <2>7, Zenon
  <2> QED  BY <2>1, <2>8
<1>4. \A k \in 0..mp : k \in P
  <2> HIDE DEF P
  <2> QED  BY <1>2, <1>3, UpwardInduction
<1>5. mp \in P /\ g[mp] \in Seq(Int)
  BY <1>4
<1> QED  BY <1>1, <1>5, Zenon DEF PlacedFrom

\* The members of s are those of b, from zero on.
SinglesAre(s, X, n, b) == s \in Seq(X) /\ Len(s) = n /\ \A k \in 1..n : s[k] = b[k - 1]

LEMMA GatheredSingles ==
    ASSUME mp \in Nat, NEW X, NEW f, NEW b,
           \A t \in 0..(mp - 1) : b[t] \in X /\ f[t] = <<b[t]>>
    PROVE  SinglesAre(Gathered(f), X, mp, b)
<1>1. \A t \in 0..(mp - 1) : f[t] \in Seq(X)
  <2> TAKE t \in 0..(mp - 1)
  <2>1. PICK e \in X : e = b[t] /\ f[t] = <<e>>
    OBVIOUS
  <2>2. <<e>> \in Seq(X)
    OBVIOUS
  <2> QED  BY <2>1, <2>2
<1>2. PICK g \in [0..mp -> Seq(X)] :
             /\ g[0] = <<>> /\ \A k \in 1..mp : g[k] = g[k - 1] \o f[k - 1]
             /\ Gathered(f) = g[mp]
  BY <1>1, GatheredIs
<1> DEFINE P == {k \in 0..mp : Len(g[k]) = k /\ \A i \in 1..k : g[k][i] = b[i - 1]}
<1>3. 0 \in P
  BY <1>2
<1>4. ASSUME NEW k \in 0..(mp - 1), k \in P PROVE k + 1 \in P
  <2>1. PICK m \in 1..mp : m = k + 1 /\ m - 1 = k /\ m \in 0..mp
    OBVIOUS
  <2>2. PICK s \in Seq(X), e \in X : s = g[k] /\ e = b[k] /\ Len(s) = k /\ \A i \in 1..k : s[i] = b[i - 1]
    BY <1>4
  <2>3. g[m] = s \o <<e>>
    BY <1>2, <2>1, <2>2
  <2>4. Len(s \o <<e>>) = m
    BY <2>1, <2>2
  <2>5. ASSUME NEW i \in 1..m PROVE (s \o <<e>>)[i] = b[i - 1]
    <3>1. CASE i = m
      <4>1. (s \o <<e>>)[m] = e
        <5>1. s \in Seq(X) /\ <<e>> \in Seq(X) /\ Len(<<e>>) = 1 /\ <<e>>[1] = e
          BY <2>2
        <5>2. m \in 1..(Len(s) + Len(<<e>>)) /\ m > Len(s) /\ m - Len(s) = 1
          BY <2>1, <2>2, <5>1
        <5>3. (s \o <<e>>)[m] = <<e>>[m - Len(s)]
          BY <5>1, <5>2, ConcatProperties
        <5> QED  BY <5>1, <5>2, <5>3
      <4>2. i - 1 = k
        BY <2>1, <3>1
      <4> QED  BY <2>2, <3>1, <4>1, <4>2
    <3>2. CASE i < m
      <4>1. i \in 1..k
        BY <2>1, <3>2
      <4>2. (s \o <<e>>)[i] = s[i]
        BY <2>2, <4>1
      <4> QED  BY <2>2, <4>1, <4>2
    <3>3. i < m \/ i = m
      BY <2>1
    <3> QED  BY <3>1, <3>2, <3>3
  <2> QED  BY <2>1, <2>3, <2>4, <2>5
<1>5. \A k \in 0..mp : k \in P
  <2> HIDE DEF P
  <2> QED  BY <1>3, <1>4, UpwardInduction
<1>6. mp \in P /\ g[mp] \in Seq(X)
  BY <1>5
<1> QED  BY <1>2, <1>6, Zenon DEF SinglesAre

-----------------------------------------------------------------------------
(* The inductive invariant. *)

Sizes == [1..SizetBytes -> 0..(Base - 1)]
Blocks == [olen : Sizes, ilen : Sizes, data : Seq(Int)]

CallTypes ==
    /\ parallel \in BOOLEAN /\ tcnt \in 1..Threads /\ (parallel \/ tcnt = 1) /\ fsize \in Nat
    /\ cut \in [block : Nat, field : Fields \cup {"none"}]

PlaceTypes ==
    /\ mode \in {"compress", "decompress"} /\ phase \in {"read", "code", "returned"}
    /\ rpos \in Nat /\ mp \in 0..tcnt /\ rc \in Nat /\ es \in {0, 1}
    /\ result \in {SUCCESS, FAILURE, NotYet} /\ mishaps \subseteq {"short", "lost", "unwritten"}

RoundTypes == lens \in [Slots -> Nat] /\ content \in [Slots -> Seq(Int)]

CoderTypes ==
    /\ coder \in [Slots -> {"none", "loaded", "done"}]
    /\ loaded \in [Slots -> Nat] /\ failed \subseteq Slots

MemoryTypes == memory \in [Slots -> {"null", "live", "freed"}] /\ twice \in BOOLEAN

FileTypes == packed \in Seq(Blocks) /\ output \in Seq(Int)

TypeInv ==
    CallTypes /\ PlaceTypes /\ RoundTypes /\ CoderTypes /\ MemoryTypes /\ FileTypes

\* What a phase says of the variables of the round.
PhaseInv ==
    /\ phase = "read" => es = 0 /\ rc = 0 /\ failed = {} /\ coder = NoThreads
    /\ phase # "returned" => result = NotYet
    /\ mode = "compress" => es = 0 /\ output = <<>>
    /\ mode = "decompress" => rpos > mp
    /\ mode = "decompress" /\ phase = "code" /\ es = 0 => mp = tcnt

Done(t) == coder[t] = "done"

\* Only a thread that took rc without an error can put it back to zero.
RaceInv ==
    /\ \A t \in Slots : coder[t] # "none" => t < mp
    /\ \A t \in failed : coder[t] # "none"
    /\ rc = 0 /\ (\E t \in failed : Done(t)) =>
           parallel /\ \E t \in Slots \ failed : Done(t) /\ loaded[t] = 0

\* The slots below mp are those in use; one was freed in an earlier round only,
\* and a round before another has read tcnt blocks.
MemoryInv ==
    /\ mode = "compress" => ~ twice /\ work = {} /\ \A t \in Slots : memory[t] = "null"
    /\ mode = "decompress" =>
           \A t \in Slots : memory[t] = "live" <=> phase # "returned" /\ t < mp
    /\ mode = "decompress" /\ phase # "returned" =>
           /\ \A t \in Slots : memory[t] = "freed" => rpos > tcnt
           /\ work = 0..(tcnt - 1)
    /\ mode = "decompress" /\ phase = "returned" =>
           work = {} \/ (result = FAILURE /\ work = mp..(tcnt - 1))
    /\ twice => cut.field = "ilens" /\ cut.block > tcnt

Clean == "lost" \notin mishaps

\* The blocks of packed up to n lie one after the other: block k ends at o[k].
PackedIs(o, n) ==
    \A k \in 1..n :
        /\ Len(packed[k].data) \in 1..bsz /\ packed[k].ilen = fwritesize(Len(packed[k].data))
        /\ o[k] = o[k - 1] + Len(packed[k].data)
        /\ Clean => Places(packed[k].data, o[k - 1])

\* And so do those of the round, after block n.
RoundIs(o, n) ==
    \A t \in 0..(mp - 1) :
        /\ Len(content[t]) \in 1..bsz
        /\ o[n + t + 1] = o[n + t] + Len(content[t])
        /\ Clean => Places(content[t], o[n + t])

CompressIs(o) ==
    mode = "compress" /\ phase # "returned" =>
        /\ PackedIs(o, Len(packed)) /\ RoundIs(o, Len(packed))
        /\ o[Len(packed) + mp] = rpos /\ rpos <= fsize

\* Everything is in the packed file, with the End behind it.
EndIs(o) ==
    mode = "decompress" \/ result = SUCCESS =>
        /\ Len(packed) > 0 /\ PackedIs(o, Len(packed) - 1)
        /\ packed[Len(packed)].ilen = fwritesize(0)
        /\ o[Len(packed) - 1] = fsize \/ "short" \in mishaps

DecompressIs(o) ==
    mode = "decompress" /\ phase # "returned" =>
        /\ rpos <= Len(packed) /\ RoundIs(o, rpos - 1 - mp)
        /\ Len(output) = o[rpos - 1 - mp] \/ "unwritten" \in mishaps
        /\ es = 1 => rpos = Len(packed) \/ cut.field = "olens"

FilesAre(o) == o[0] = 0 /\ CompressIs(o) /\ EndIs(o) /\ DecompressIs(o)
FileInv ==
    /\ \E o \in [Nat -> Nat] : FilesAre(o)
    /\ Clean => Places(output, 0)
    /\ SuccessIsWhole

Inv == TypeInv /\ PhaseInv /\ RaceInv /\ MemoryInv /\ FileInv

LEMMA DigitsOfSize ==
    ASSUME Parameters, NEW v \in Nat
    PROVE  fwritesize(v) \in Sizes
<1>1. \A k \in 1..SizetBytes : Digit(v, k - 1) \in 0..(Base - 1)
  BY NextDigit
<1> QED  BY <1>1 DEF fwritesize, Sizes

LEMMA SizeIsNumber ==
    ASSUME Parameters, NEW digits \in Sizes
    PROVE  freadsize(digits) \in Nat
<1>1. \A k \in 1..SizetBytes : digits[k] \in 0..(Base - 1)
  BY DEF Sizes
<1>2. PICK f \in [0..SizetBytes -> Nat] : freadsize(digits) = f[SizetBytes]
  BY <1>1, ReadSteps
<1>3. SizetBytes \in 0..SizetBytes
  BY Numbers
<1> QED  BY <1>2, <1>3

\* Only the End has no bytes.
LEMMA SizeOfBlock ==
    ASSUME Parameters
    PROVE  /\ freadsize(fwritesize(0)) = 0
           /\ \A v \in 1..bsz : freadsize(fwritesize(v)) # 0
<1>1. PICK X \in Nat, Y \in Nat : X = Power[IntBytes] /\ Y = Power[SizetBytes] /\ X > 0 /\ X <= Y
  <2>1. IntBytes \in 0..SizetBytes /\ SizetBytes \in 0..SizetBytes /\ IntBytes <= SizetBytes
    BY Numbers
  <2>2. Power[IntBytes] \in Nat /\ Power[SizetBytes] \in Nat /\ Power[IntBytes] > 0
    BY <2>1, PowerIs
  <2>3. Power[IntBytes] <= Power[SizetBytes]
    BY <2>1, PowerGrows
  <2> QED  BY <2>2, <2>3
<1>2. bsz \in Nat /\ bsz < X
  BY <1>1, Numbers DEF Parameters
<1>3. freadsize(fwritesize(0)) = 0
  <2>1. 0 \in 0..(Power[IntBytes] - 1)
    BY <1>1
  <2>2. freadsize(fwritesize(0)) = AsRead(0)
    BY <2>1, SizeComesBack
  <2>3. AsRead(0) = 0
    BY <1>1 DEF AsRead
  <2> QED  BY <2>2, <2>3
<1>4. ASSUME NEW v \in 1..bsz PROVE freadsize(fwritesize(v)) # 0
  <2>1. v \in 0..(Power[IntBytes] - 1) /\ v \in Nat /\ v > 0
    BY <1>1, <1>2
  <2>2. freadsize(fwritesize(v)) = AsRead(v)
    BY <2>1, SizeComesBack
  <2>3. AsRead(v) = IF 2 * v < X THEN v ELSE v + (Y - X)
    BY <1>1 DEF AsRead
  <2> QED  BY <1>1, <2>1, <2>2, <2>3
<1> QED  BY <1>3, <1>4

LEMMA SlotsAre ==
    ASSUME Parameters, TypeInv
    PROVE  /\ Threads \in Nat /\ tcnt \in Nat /\ mp \in Nat /\ mp <= tcnt /\ tcnt <= Threads
           /\ tcnt > 0 /\ (mp < tcnt => mp \in Slots) /\ ReadSlots \subseteq Slots
           /\ \A t \in Slots : t \in Nat /\ (t \in ReadSlots <=> t < mp)
           /\ 0..(mp - 1) = ReadSlots
<1>1. Threads \in Nat /\ tcnt \in 1..Threads /\ mp \in 0..tcnt
  BY Numbers DEF TypeInv, CallTypes, PlaceTypes
<1> QED  BY <1>1 DEF Slots, ReadSlots

\* A step that moves nothing from file to file.
LEMMA FilesStay ==
    ASSUME FileInv, UNCHANGED <<fsize, cut, mode, rpos, mp, content, packed, output>>,
           mishaps \subseteq mishaps', phase' # "returned" => phase # "returned",
           result' = SUCCESS => result = SUCCESS, phase' # "returned" => es' = es
    PROVE  FileInv'
<1>1. PICK o \in [Nat -> Nat] : FilesAre(o)
  BY DEF FileInv
<1>2. \A n : PackedIs(o, n) => PackedIs(o, n)'
  BY DEF PackedIs, Clean
<1>3. \A n : RoundIs(o, n) => RoundIs(o, n)'
  BY DEF RoundIs, Clean
<1>4. CompressIs(o)'
  BY <1>1, <1>2, <1>3 DEF FilesAre, CompressIs
<1>5. EndIs(o)'
  BY <1>1, <1>2 DEF FilesAre, EndIs
<1>6. DecompressIs(o)'
  BY <1>1, <1>3 DEF FilesAre, DecompressIs
<1>7. FilesAre(o)'
  BY <1>1, <1>4, <1>5, <1>6, Zenon DEF FilesAre
<1>8. (Clean => Places(output, 0))'
  BY DEF FileInv, Clean
<1>9. SuccessIsWhole'
  BY DEF FileInv, SuccessIsWhole
<1> QED  BY <1>7, <1>8, <1>9, Zenon DEF FileInv

LEMMA BeginBlockKeeps ==
    ASSUME Parameters, Inv, NEW t \in Slots, BeginBlock(t)
    PROVE  Inv'
<1> USE DEF BeginBlock, callVars, roundVars
<1>1. TypeInv'
  BY DEF Inv, TypeInv, CallTypes, PlaceTypes, RoundTypes, CoderTypes, MemoryTypes, FileTypes
<1>2. PhaseInv'
  BY DEF Inv, PhaseInv
<1>3. RaceInv'
  <2>1. coder' = [coder EXCEPT ![t] = "loaded"] /\ loaded' = [loaded EXCEPT ![t] = rc] /\ t < mp
        /\ coder[t] = "none" /\ mp' = mp /\ rc' = rc /\ parallel' = parallel
        /\ failed' \in {failed, failed \cup {t}}
    OBVIOUS
  <2>2. coder \in [Slots -> {"none", "loaded", "done"}] /\ loaded \in [Slots -> Nat] /\ failed \subseteq Slots
    BY DEF Inv, TypeInv, CoderTypes
  <2>3. \A u \in Slots : /\ u # t => coder'[u] = coder[u] /\ loaded'[u] = loaded[u]
                         /\ u = t => coder'[u] = "loaded"
    BY <2>1, <2>2
  <2>4. \A u \in Slots : Done(u)' <=> Done(u)
    BY <2>1, <2>3 DEF Done
  <2>5. t \notin failed
    BY <2>1 DEF Inv, RaceInv
  <2>6. (\E u \in failed' : Done(u)') => \E u \in failed : Done(u)
    BY <2>1, <2>2, <2>4 DEF Done
  <2>7. ASSUME NEW u \in Slots \ failed, Done(u), loaded[u] = 0
        PROVE  u \in Slots \ failed' /\ Done(u)' /\ loaded'[u] = 0
    BY <2>1, <2>3, <2>4, <2>7 DEF Done
  <2>8. rc = 0 /\ (\E u \in failed : Done(u)) =>
           parallel /\ \E u \in Slots \ failed : Done(u) /\ loaded[u] = 0
    BY DEF Inv, RaceInv
  <2>9. /\ \A u \in Slots : coder[u] # "none" => u < mp
        /\ \A u \in failed : coder[u] # "none"
    BY DEF Inv, RaceInv
  <2>10. \A u \in Slots : coder'[u] # "none" => u < mp'
    BY <2>1, <2>3, <2>9
  <2>11. \A u \in failed' : coder'[u] # "none"
    BY <2>1, <2>2, <2>3, <2>9
  <2>12. rc' = 0 /\ (\E u \in failed' : Done(u)') =>
           parallel' /\ \E u \in Slots \ failed' : Done(u)' /\ loaded'[u] = 0
    BY <2>1, <2>6, <2>7, <2>8
  <2> QED  BY <2>10, <2>11, <2>12 DEF RaceInv
<1>4. MemoryInv'
  BY DEF Inv, MemoryInv
<1>5. FileInv'
  BY FilesStay DEF Inv
<1> QED  BY <1>1, <1>2, <1>3, <1>4, <1>5, Zenon DEF Inv

LEMMA EndBlockKeeps ==
    ASSUME Parameters, Inv, NEW t \in Slots, EndBlock(t)
    PROVE  Inv'
<1> USE DEF EndBlock, callVars, roundVars
<1>1. TypeInv'
  <2>1. rc' \in Nat
    BY DEF Inv, TypeInv, CoderTypes, Added
  <2> QED
    BY <2>1 DEF Inv, TypeInv, CallTypes, PlaceTypes, RoundTypes, CoderTypes, MemoryTypes, FileTypes
<1>2. PhaseInv'
  <2>1. phase # "read"
    BY DEF Inv, PhaseInv, NoThreads
  <2> QED  BY <2>1 DEF Inv, PhaseInv
<1>3. RaceInv'
  <2>1. coder' = [coder EXCEPT ![t] = "done"] /\ loaded' = loaded /\ failed' = failed
        /\ coder[t] = "loaded" /\ mp' = mp /\ rc' = Added(t) /\ parallel' = parallel
    OBVIOUS
  <2>2. coder \in [Slots -> {"none", "loaded", "done"}] /\ loaded \in [Slots -> Nat] /\ failed \subseteq Slots
    BY DEF Inv, TypeInv, CoderTypes
  <2>3. \A u \in Slots : /\ u # t => coder'[u] = coder[u]
                         /\ u = t => coder'[u] = "done"
    BY <2>1, <2>2
  <2>4. /\ \A u \in Slots : coder[u] # "none" => u < mp
        /\ \A u \in failed : coder[u] # "none"
    BY DEF Inv, RaceInv
  <2>5. \A u \in Slots : coder'[u] # "none" => u < mp'
    BY <2>1, <2>3, <2>4
  <2>6. \A u \in failed' : coder'[u] # "none"
    BY <2>1, <2>2, <2>3, <2>4
  <2>7. ASSUME rc' = 0, NEW u \in failed', Done(u)'
        PROVE  parallel' /\ \E v \in Slots \ failed' : Done(v)' /\ loaded'[v] = 0
    <3>1. t \notin failed /\ loaded[t] = 0
      <4>1. loaded[t] \in Nat
        BY <2>2
      <4> QED  BY <2>1, <2>7, <4>1 DEF Added
    <3>2. Done(t)'
      BY <2>3 DEF Done
    <3>3. parallel
      <4> SUFFICES ASSUME ~ parallel PROVE FALSE
        OBVIOUS
      <4>1. mp \in Nat /\ mp <= 1 /\ t < mp /\ u < mp /\ t \in Nat /\ u \in Nat
        <5>1. mp \in 0..tcnt /\ tcnt = 1
          BY DEF Inv, TypeInv, CallTypes, PlaceTypes
        <5>2. u \in Slots /\ \A v \in Slots : v \in Nat
          BY <2>1, <2>2, SlotsAre DEF Inv
        <5> QED  BY <2>1, <2>4, <5>1, <5>2
      <4>2. t = u
        BY <4>1
      <4> QED  BY <2>1, <3>1, <4>2
    <3> QED  BY <2>1, <3>1, <3>2, <3>3
  <2> QED  BY <2>5, <2>6, <2>7 DEF RaceInv
<1>4. MemoryInv'
  BY DEF Inv, MemoryInv
<1>5. FileInv'
  BY FilesStay DEF Inv
<1> QED  BY <1>1, <1>2, <1>3, <1>4, <1>5, Zenon DEF Inv

-----------------------------------------------------------------------------
(* The steps of mtfa_compress. *)

\* Returning with an error before anything is written.
LEMMA CompressErrorKeeps ==
    ASSUME Parameters, Inv, mode = "compress", phase # "returned", CompressReturns(FAILURE),
           UNCHANGED <<cut, packed, mishaps>>
    PROVE  Inv'
<1> USE DEF CompressReturns, Return, callVars, roundVars, coderVars
<1>1. TypeInv'
  BY DEF Inv, TypeInv, CallTypes, PlaceTypes, RoundTypes, CoderTypes, MemoryTypes, FileTypes
<1>2. PhaseInv'
  BY DEF Inv, PhaseInv
<1>3. RaceInv'
  BY DEF Inv, RaceInv, Done
<1>4. MemoryInv'
  BY DEF Inv, MemoryInv
<1>5. FileInv'
  BY FilesStay DEF Inv, FAILURE, SUCCESS
<1> QED  BY <1>1, <1>2, <1>3, <1>4, <1>5, Zenon DEF Inv

\* The next piece of the file.
LEMMA PieceIs ==
    ASSUME NEW n \in Nat, NEW a \in Nat, NEW s, s = [k \in 1..n |-> a + k]
    PROVE  s \in Seq(Int) /\ Len(s) = n /\ Places(s, a)
<1>1. \A k \in 1..n : a + k \in Int
  OBVIOUS
<1>2. s \in Seq(Int) /\ Len(s) = n
  BY <1>1
<1>3. \A k \in 1..n : s[k] = a + k
  OBVIOUS
<1> QED  BY <1>2, <1>3 DEF Places

LEMMA ReadBlockKeeps ==
    ASSUME Parameters, Inv, ReadBlock
    PROVE  Inv'
<1>1. PICK n \in Nat :
        /\ n \in 1..bsz /\ n <= fsize - rpos
        /\ lens' = [lens EXCEPT ![mp] = n]
        /\ content' = [content EXCEPT ![mp] = [k \in 1..n |-> rpos + k]]
        /\ rpos' = rpos + n
        /\ mishaps' = mishaps \/ mishaps' = mishaps \cup {"short"}
  <2>1. fsize \in Nat /\ rpos \in Nat /\ bsz \in Nat /\ bsz > 0
    BY Numbers DEF Inv, TypeInv, CallTypes, PlaceTypes
  <2>2. PICK most : most = IF fsize - rpos < bsz THEN fsize - rpos ELSE bsz
    OBVIOUS
  <2>3. PICK n \in (IF "read" \in Faults THEN 0..most ELSE {most}) \ {0} :
          /\ lens' = [lens EXCEPT ![mp] = n]
          /\ content' = [content EXCEPT ![mp] = [k \in 1..n |-> rpos + k]]
          /\ rpos' = rpos + n
          /\ Mishap("short", n < most)
    BY <2>2 DEF ReadBlock
  <2>4. rpos <= fsize
    BY DEF ReadBlock, Inv, FileInv, FilesAre, CompressIs
  <2>5. most \in Nat /\ most <= bsz /\ most <= fsize - rpos
    BY <2>1, <2>2, <2>4
  <2>6. n \in Nat /\ n # 0 /\ n <= most
    BY <2>3, <2>5
  <2>7. n \in 1..bsz /\ n <= fsize - rpos
    BY <2>1, <2>5, <2>6
  <2> QED  BY <2>3, <2>6, <2>7 DEF Mishap
<1>2. /\ mode = "compress" /\ phase = "read" /\ mp < tcnt /\ mp' = mp + 1 /\ rc' = 0
      /\ phase' \in {"read", "code"}
      /\ UNCHANGED <<parallel, tcnt, fsize, cut, mode, es, coder, loaded, failed, memory, work, twice,
                     packed, output, result>>
  BY DEF ReadBlock, callVars, coderVars
<1>3. mp \in Nat /\ tcnt \in Nat /\ mp \in Slots /\ mp' \in 0..tcnt /\ rpos \in Nat /\ rpos' \in Nat
  BY <1>1, <1>2, SlotsAre DEF Inv, TypeInv, PlaceTypes
<1>4. PICK s \in Seq(Int) : s = [k \in 1..n |-> rpos + k] /\ Len(s) = n /\ Places(s, rpos)
  BY <1>3, PieceIs
<1>5. content \in [Slots -> Seq(Int)] /\ content' = [content EXCEPT ![mp] = s]
  BY <1>1, <1>4 DEF Inv, TypeInv, RoundTypes
<1>6. TypeInv'
  <2>1. content' \in [Slots -> Seq(Int)]
    BY <1>3, <1>5
  <2>2. lens' \in [Slots -> Nat]
    BY <1>1, <1>3 DEF Inv, TypeInv, RoundTypes
  <2>3. PlaceTypes'
    BY <1>1, <1>2, <1>3 DEF Inv, TypeInv, PlaceTypes
  <2> QED  BY <1>2, <2>1, <2>2, <2>3 DEF Inv, TypeInv, CallTypes, RoundTypes, CoderTypes, MemoryTypes, FileTypes
<1>7. PhaseInv'
  BY <1>2 DEF Inv, PhaseInv
<1>8. RaceInv'
  <2>1. coder = NoThreads /\ failed = {}
    BY <1>2 DEF Inv, PhaseInv
  <2> QED  BY <1>2, <2>1 DEF RaceInv, NoThreads
<1>9. MemoryInv'
  BY <1>2 DEF Inv, MemoryInv
<1>10. FileInv'
  <2>1. PICK o \in [Nat -> Nat] : FilesAre(o)
    BY DEF Inv, FileInv
  <2>2. PICK L \in Nat, e \in Nat, i \in Nat : L = Len(packed) /\ e = L + mp /\ i = L + mp'  /\ i = e + 1
    BY <1>2, <1>3 DEF Inv, TypeInv, FileTypes
  <2>3. PICK p \in [Nat -> Nat] : p = [o EXCEPT ![i] = rpos'] /\ p[i] = rpos' /\ \A k \in Nat : k # i => p[k] = o[k]
    <3>1. PICK r \in Nat, j \in Nat : j = i /\ r = rpos'
      BY <1>3, <2>2
    <3>2. PICK p : p = [o EXCEPT ![j] = r]
      OBVIOUS
    <3>3. p \in [Nat -> Nat] /\ p[j] = r /\ \A k \in Nat : k # j => p[k] = o[k]
      BY <3>2
    <3> QED  BY <3>1, <3>2, <3>3, Zenon
  <2>4. o[0] = 0 /\ PackedIs(o, L) /\ RoundIs(o, L) /\ o[e] = rpos /\ rpos <= fsize
    BY <1>2, <2>1, <2>2 DEF FilesAre, CompressIs
  <2>5. p[0] = 0
    BY <1>3, <2>2, <2>3, <2>4
  <2>6. \A k \in 0..e : p[k] = o[k]
    BY <2>2, <2>3
  <2>7. PackedIs(p, L)'
    <3> SUFFICES ASSUME NEW k \in 1..L
                 PROVE  /\ Len(packed[k].data) \in 1..bsz /\ packed[k].ilen = fwritesize(Len(packed[k].data))
                        /\ p[k] = p[k - 1] + Len(packed[k].data)
                        /\ Clean' => Places(packed[k].data, p[k - 1])
      BY <1>2 DEF PackedIs
    <3>1. p[k] = o[k] /\ p[k - 1] = o[k - 1]
      <4>1. k \in 0..e /\ k - 1 \in 0..e
        <5>1. L \in Nat /\ e \in Nat /\ L <= e
          BY <1>3, <2>2
        <5> QED  BY <5>1
      <4> QED  BY <2>6, <4>1
    <3>2. Clean' => Clean
      BY <1>1 DEF Clean
    <3> QED  BY <2>4, <3>1, <3>2, Zenon DEF PackedIs
  <2>8. RoundIs(p, L)'
    <3> SUFFICES ASSUME NEW t \in 0..(mp' - 1)
                 PROVE  /\ Len(content'[t]) \in 1..bsz
                        /\ p[L + t + 1] = p[L + t] + Len(content'[t])
                        /\ Clean' => Places(content'[t], p[L + t])
      BY DEF RoundIs
    <3>1. CASE t = mp
      <4>1. content'[t] = s /\ L + t + 1 = i /\ L + t = e
        BY <1>2, <1>3, <1>5, <2>2, <3>1
      <4>2. p[i] = rpos + n /\ p[e] = rpos
        BY <1>1, <2>2, <2>3, <2>4
      <4> QED  BY <1>1, <1>4, <4>1, <4>2
    <3>2. CASE t # mp
      <4>1. t \in 0..(mp - 1)
        BY <1>2, <1>3, <3>2
      <4>2. content'[t] = content[t]
        <5>1. t \in Slots
          BY <4>1, SlotsAre DEF Inv
        <5> QED  BY <1>5, <3>2, <5>1
      <4>3. L + t \in 0..e /\ L + t + 1 \in 0..e
        <5>1. L \in Nat /\ e \in Nat /\ e = L + mp /\ mp \in Nat
          BY <1>3, <2>2
        <5> QED  BY <4>1, <5>1
      <4>4. p[L + t] = o[L + t] /\ p[L + t + 1] = o[L + t + 1]
        BY <2>6, <4>3
      <4>5. Clean' => Clean
        BY <1>1 DEF Clean
      <4>6. /\ Len(content[t]) \in 1..bsz /\ o[L + t + 1] = o[L + t] + Len(content[t])
            /\ Clean => Places(content[t], o[L + t])
        BY <2>4, <4>1, Zenon DEF RoundIs
      <4> QED  BY <4>2, <4>4, <4>5, <4>6, Zenon
    <3> QED  BY <3>1, <3>2
  <2>9. rpos' <= fsize
    BY <1>1, <1>3 DEF Inv, TypeInv, CallTypes
  <2>10. CompressIs(p)'
    BY <1>2, <2>2, <2>3, <2>7, <2>8, <2>9 DEF CompressIs
  <2>11. result' # SUCCESS
    BY <1>2 DEF Inv, PhaseInv, SUCCESS, NotYet
  <2>12. FilesAre(p)'
    BY <1>2, <2>5, <2>10, <2>11 DEF FilesAre, EndIs, DecompressIs
  <2>13. (Clean => Places(output, 0))'
    BY <1>1, <1>2 DEF Inv, FileInv, Clean
  <2> QED  BY <1>2, <2>12, <2>13 DEF FileInv, SuccessIsWhole
<1> QED  BY <1>6, <1>7, <1>8, <1>9, <1>10, Zenon DEF Inv

\* The blocks written so far, behind which something is added.
LEMMA PackedStays ==
    ASSUME NEW o, NEW n \in Nat, PackedIs(o, n), n <= Len(packed), packed \in Seq(Blocks),
           NEW more, more \in Seq(Blocks), packed' = packed \o more, mishaps \subseteq mishaps'
    PROVE  PackedIs(o, n)'
<1> SUFFICES ASSUME NEW k \in 1..n
             PROVE  /\ Len(packed'[k].data) \in 1..bsz
                    /\ packed'[k].ilen = fwritesize(Len(packed'[k].data))
                    /\ o[k] = o[k - 1] + Len(packed'[k].data)
                    /\ Clean' => Places(packed'[k].data, o[k - 1])
  BY DEF PackedIs
<1>1. packed'[k] = packed[k]
  <2>1. Len(packed) \in Nat /\ Len(more) \in Nat
    OBVIOUS
  <2>2. k \in 1..(Len(packed) + Len(more)) /\ k <= Len(packed)
    BY <2>1
  <2> QED  BY <2>2, ConcatProperties
<1>2. Clean' => Clean
  BY DEF Clean
<1> QED  BY <1>1, <1>2, Zenon DEF PackedIs

\* Where a file ends that cannot be written on.
LEMMA CutStaysCut ==
    ASSUME NEW blocks, blocks \subseteq Nat, NEW fields, fields \subseteq Fields,
           FileEndsIn(blocks, fields), cut \in [block : Nat, field : Fields \cup {"none"}]
    PROVE  cut' \in [block : Nat, field : Fields \cup {"none"}]
<1>1. cut' = cut \/ cut' \in [block : blocks, field : fields]
  BY DEF FileEndsIn
<1> QED  BY <1>1

LEMMA EndIsBlock ==
    ASSUME Parameters
    PROVE  End \in Blocks /\ <<End>> \in Seq(Blocks) /\ Len(<<End>>) = 1 /\ <<End>>[1] = End
           /\ End.ilen = fwritesize(0)
<1>1. fwritesize(0) \in Sizes
  BY DigitsOfSize
<1>2. End \in Blocks /\ End.ilen = fwritesize(0)
  BY <1>1 DEF End, Blocks
<1> QED  BY <1>2

LEMMA ReadsNothingKeeps ==
    ASSUME Parameters, Inv, ReadsNothing
    PROVE  Inv'
<1>1. /\ mode = "compress" /\ phase = "read"
      /\ mishaps' = IF rpos < fsize THEN mishaps \cup {"short"} ELSE mishaps
  BY DEF ReadsNothing, Mishap
<1>2. /\ UNCHANGED <<parallel, tcnt, fsize, mode, rpos, mp, rc, es, lens, content, coder, loaded,
                     failed, memory, work, twice, output>>
      /\ \/ /\ mp = 0 /\ packed' = Append(packed, End) /\ phase' = "returned" /\ result' = SUCCESS
            /\ FileEndsIn({Len(packed) + 1}, Fields \ {"data"})
         \/ mp # 0 /\ phase' = "code" /\ UNCHANGED <<cut, packed, result>>
  BY DEF ReadsNothing, CompressReturns, Return, callVars, roundVars, coderVars
<1>3. mishaps' \subseteq {"short", "lost", "unwritten"} /\ mishaps \subseteq mishaps'
      /\ ("lost" \in mishaps' => "lost" \in mishaps)
  BY <1>1 DEF Inv, TypeInv, PlaceTypes
<1>4. packed \in Seq(Blocks) /\ Len(packed) \in Nat
  BY DEF Inv, TypeInv, FileTypes
<1>5. mp = 0 => packed' = packed \o <<End>>
  <2>1. mp = 0 => packed' = Append(packed, End)
    BY <1>2
  <2>2. PICK s \in Seq(Blocks) : s = packed
    BY <1>4
  <2>3. PICK e \in Blocks : e = End
    BY EndIsBlock
  <2>4. Append(s, e) = s \o <<e>>
    BY ONLY <2>2, <2>3, SMT
  <2> QED  BY <2>1, <2>2, <2>3, <2>4
<1>6. TypeInv'
  <2>1. packed' \in Seq(Blocks)
    BY <1>2, <1>4, EndIsBlock
  <2>2. PlaceTypes'
    BY <1>2, <1>3 DEF Inv, TypeInv, PlaceTypes
  <2>3. CallTypes'
    <3>1. CASE mp = 0
      <4>1. {Len(packed) + 1} \subseteq Nat /\ Fields \ {"data"} \subseteq Fields
        BY <1>4
      <4> QED  BY <1>2, <3>1, <4>1, CutStaysCut DEF Inv, TypeInv, CallTypes
    <3>2. CASE mp # 0
      BY <1>2, <3>2 DEF Inv, TypeInv, CallTypes
    <3> QED  BY <3>1, <3>2
  <2> QED  BY <1>2, <2>1, <2>2, <2>3 DEF Inv, TypeInv, RoundTypes, CoderTypes, MemoryTypes, FileTypes
<1>7. PhaseInv'
  BY <1>1, <1>2 DEF Inv, PhaseInv
<1>8. RaceInv'
  BY <1>2 DEF Inv, RaceInv, Done
<1>9. MemoryInv'
  BY <1>1, <1>2 DEF Inv, MemoryInv
<1>10. FileInv'
  <2>1. CASE mp # 0
    BY <1>1, <1>2, <1>3, <2>1, FilesStay DEF Inv
  <2>2. CASE mp = 0
    <3>1. PICK o \in [Nat -> Nat] : FilesAre(o)
      BY DEF Inv, FileInv
    <3>2. PICK L \in Nat : L = Len(packed)
      BY <1>4
    <3>3. o[0] = 0 /\ PackedIs(o, L) /\ o[L] = rpos /\ rpos <= fsize
      <4>1. PackedIs(o, L) /\ o[L + mp] = rpos /\ rpos <= fsize /\ o[0] = 0
        BY <1>1, <3>1, <3>2 DEF FilesAre, CompressIs
      <4>2. L + mp = L
        BY <2>2, <3>2
      <4> QED  BY <4>1, <4>2
    <3>4. PackedIs(o, L)'
      <4>1. <<End>> \in Seq(Blocks) /\ packed' = packed \o <<End>>
        BY <1>5, <2>2, EndIsBlock
      <4>2. L <= Len(packed)
        BY <3>2
      <4> QED  BY <1>3, <1>4, <3>3, <4>1, <4>2, PackedStays, Zenon
    <3>5. Len(packed') = L + 1 /\ packed'[L + 1] = End /\ Len(packed') - 1 = L
      BY <1>2, <1>4, <2>2, <3>2, EndIsBlock
    <3>6. o[L] = fsize \/ "short" \in mishaps'
      <4>1. rpos \in Nat /\ fsize \in Nat
        BY DEF Inv, TypeInv, PlaceTypes, CallTypes
      <4> QED  BY <1>1, <3>3, <4>1
    <3>7. EndIs(o)'
      <4>1. Len(packed') > 0 /\ packed'[Len(packed')].ilen = fwritesize(0)
        BY <3>2, <3>5, EndIsBlock
      <4>2. PackedIs(o, Len(packed) - 1)'
        BY <3>4, <3>5, Zenon
      <4>3. o[Len(packed') - 1] = fsize' \/ "short" \in mishaps'
        BY <1>2, <3>5, <3>6
      <4> QED  BY <4>1, <4>2, <4>3 DEF EndIs
    <3>8. FilesAre(o)'
      BY <1>2, <2>2, <3>3, <3>7 DEF FilesAre, CompressIs, DecompressIs
    <3>9. (Clean => Places(output, 0))'
      BY <1>2, <1>3 DEF Inv, FileInv, Clean
    <3> QED  BY <1>1, <1>2, <3>8, <3>9 DEF FileInv, SuccessIsWhole
  <2> QED  BY <2>1, <2>2
<1> QED  BY <1>6, <1>7, <1>8, <1>9, <1>10, Zenon DEF Inv

LEMMA MadeIs ==
    ASSUME Parameters, TypeInv, NEW t \in Slots
    PROVE  /\ Made(t) \in Seq(Int) /\ Len(Made(t)) = Len(content[t])
           /\ t \notin failed => Made(t) = content[t]
<1>1. PICK n \in Nat : n = Len(content[t]) /\ content[t] \in Seq(Int)
  BY DEF TypeInv, RoundTypes
<1>2. PICK s : s = [k \in 1..n |-> -1]
  OBVIOUS
<1>3. s \in Seq(Int) /\ Len(s) = n
  BY <1>2
<1> QED  BY <1>1, <1>2, <1>3 DEF Made

LEMMA BlockIs ==
    ASSUME Parameters, TypeInv, NEW t \in Slots
    PROVE  /\ BlockOf(Made(t)) \in Blocks /\ BlockOf(Made(t)).data = Made(t)
           /\ BlockOf(Made(t)).ilen = fwritesize(Len(Made(t)))
<1>1. Made(t) \in Seq(Int) /\ Len(Made(t)) \in Nat
  BY MadeIs
<1>2. fwritesize(Len(Made(t))) \in Sizes
  BY <1>1, DigitsOfSize
<1> QED  BY <1>1, <1>2 DEF BlockOf, Blocks

\* A new round: nothing is coded yet.
LEMMA NewRoundIs ==
    ASSUME NewRound
    PROVE  CoderTypes' /\ RaceInv' /\ failed' = {} /\ coder' = NoThreads
BY DEF NewRound, CoderTypes, RaceInv, NoThreads

LEMMA WriteBlocksKeeps ==
    ASSUME Parameters, Inv, WriteBlocks
    PROVE  Inv'
<1>0. PICK b, f : b = [t \in Slots |-> BlockOf(Made(t))] /\ f = [t \in Slots |-> <<BlockOf(Made(t))>>]
  OBVIOUS
<1>1. /\ mode = "compress" /\ phase = "code" /\ rc = 0 /\ packed' = packed \o Gathered(f)
      /\ mp' = 0 /\ phase' = "read" /\ NewRound
      /\ UNCHANGED <<parallel, tcnt, fsize, mode, rpos, rc, es, lens, content, memory, work, twice,
                     output, result>>
      /\ FileEndsIn(Len(packed) + 1..Len(packed) + mp, Fields)
  BY <1>0 DEF WriteBlocks, Coded, callVars, roundVars
<1>2. mishaps' = IF failed # {} THEN mishaps \cup {"lost"} ELSE mishaps
  BY DEF WriteBlocks, Mishap
<1>3. mishaps' \subseteq {"short", "lost", "unwritten"} /\ mishaps \subseteq mishaps'
  BY <1>2 DEF Inv, TypeInv, PlaceTypes
<1>4. TypeInv
  BY DEF Inv
<1>5. mp \in Nat /\ ReadSlots \subseteq Slots /\ 0..(mp - 1) = ReadSlots
  BY <1>4, SlotsAre
<1>6. PICK G \in Seq(Blocks) : G = Gathered(f) /\ Len(G) = mp /\ \A k \in 1..mp : G[k] = b[k - 1]
  <2>1. \A t \in 0..(mp - 1) : b[t] \in Blocks /\ f[t] = <<b[t]>>
    <3> TAKE t \in 0..(mp - 1)
    <3>1. t \in Slots
      BY <1>5
    <3> QED  BY <1>0, <1>4, <3>1, BlockIs
  <2>2. /\ Gathered(f) \in Seq(Blocks) /\ Len(Gathered(f)) = mp
        /\ \A k \in 1..mp : Gathered(f)[k] = b[k - 1]
    <3>1. mp \in Nat
      BY <1>5
    <3>2. \A t \in 0..(mp - 1) : b[t] \in Blocks /\ f[t] = <<b[t]>>
      BY <2>1
    <3>3. SinglesAre(Gathered(f), Blocks, mp, b)
      BY <3>1, <3>2, GatheredSingles
    <3> QED  BY <3>3, Zenon DEF SinglesAre
  <2> QED  BY <2>2, Zenon
<1>7. packed \in Seq(Blocks) /\ packed' = packed \o G
  BY <1>1, <1>6 DEF Inv, TypeInv, FileTypes
<1>8. CoderTypes' /\ RaceInv' /\ failed' = {} /\ coder' = NoThreads
  BY <1>1, NewRoundIs
<1>9. TypeInv'
  <2>1. packed' \in Seq(Blocks)
    BY <1>7
  <2>2. PlaceTypes'
    <3>1. 0 \in 0..tcnt
      BY <1>4, SlotsAre
    <3> QED  BY <1>1, <1>3, <3>1 DEF Inv, TypeInv, PlaceTypes
  <2>3. CallTypes'
    <3>1. (Len(packed) + 1)..(Len(packed) + mp) \subseteq Nat /\ Fields \subseteq Fields
      BY <1>5, <1>7
    <3> QED  BY <1>1, <3>1, CutStaysCut DEF Inv, TypeInv, CallTypes
  <2> QED  BY <1>1, <1>8, <2>1, <2>2, <2>3 DEF Inv, TypeInv, RoundTypes, MemoryTypes, FileTypes
<1>10. PhaseInv'
  BY <1>1, <1>8 DEF Inv, PhaseInv
<1>11. MemoryInv'
  BY <1>1 DEF Inv, MemoryInv
<1>12. FileInv'
  <2>1. PICK o \in [Nat -> Nat] : FilesAre(o)
    BY DEF Inv, FileInv
  <2>2. PICK L \in Nat, M \in Nat : L = Len(packed) /\ M = L + mp /\ M = Len(packed')
    <3>1. Len(packed \o G) = Len(packed) + Len(G) /\ Len(packed) \in Nat /\ Len(G) \in Nat
      BY <1>7, LenProperties, ConcatProperties
    <3>2. Len(G) = mp /\ packed' = packed \o G
      BY <1>6, <1>7
    <3>3. Len(packed') = Len(packed) + mp /\ Len(packed') \in Nat
      BY <1>5, <3>1, <3>2
    <3> QED  BY <3>1, <3>3
  <2>3. o[0] = 0 /\ PackedIs(o, L) /\ RoundIs(o, L) /\ o[M] = rpos /\ rpos <= fsize
    BY <1>1, <2>1, <2>2 DEF FilesAre, CompressIs
  <2>4. PackedIs(o, L)'
    <3>1. L <= Len(packed)
      BY <2>2
    <3> QED  BY <1>3, <1>7, <2>3, <3>1, PackedStays
  <2>5. PackedIs(o, M)'
    <3> SUFFICES ASSUME NEW k \in 1..M
                 PROVE  /\ Len(packed'[k].data) \in 1..bsz
                        /\ packed'[k].ilen = fwritesize(Len(packed'[k].data))
                        /\ o[k] = o[k - 1] + Len(packed'[k].data)
                        /\ Clean' => Places(packed'[k].data, o[k - 1])
      BY DEF PackedIs
    <3>1. CASE k <= L
      <4>1. k \in 1..L
        BY <2>2, <3>1
      <4> QED  BY <2>4, <4>1, Zenon DEF PackedIs
    <3>2. CASE k > L
      <4>1. PICK i \in 1..mp, t \in 0..(mp - 1) : i = k - L /\ t = i - 1 /\ k = L + t + 1 /\ k - 1 = L + t
        <5>1. M = L + mp /\ L \in Nat /\ M \in Nat
          BY <2>2
        <5>2. k - L \in 1..mp /\ (k - L) - 1 \in 0..(mp - 1) /\ k = L + ((k - L) - 1) + 1
              /\ k - 1 = L + ((k - L) - 1)
          BY <1>5, <3>2, <5>1
        <5> QED  BY <5>2
      <4>2. t \in Slots
        BY <1>5
      <4>3. packed'[k] = BlockOf(Made(t))
        <5>1. k \in 1..(Len(packed) + Len(G)) /\ ~ (k <= Len(packed)) /\ k - Len(packed) = i
          <6>1. M = L + mp /\ L = Len(packed) /\ Len(G) = mp /\ L \in Nat /\ M \in Nat
            BY <1>6, <2>2
          <6> QED  BY <1>5, <3>2, <4>1, <6>1
        <5>2. packed'[k] = G[i]
          BY <1>7, <5>1, ConcatProperties
        <5>3. G[i] = b[t]
          BY <1>6, <4>1
        <5> QED  BY <1>0, <4>2, <5>2, <5>3
      <4>4. packed'[k].data = Made(t) /\ packed'[k].ilen = fwritesize(Len(Made(t)))
        BY <1>4, <4>2, <4>3, BlockIs
      <4>5. Len(Made(t)) = Len(content[t]) /\ (t \notin failed => Made(t) = content[t])
        BY <1>4, <4>2, MadeIs
      <4>6. /\ Len(content[t]) \in 1..bsz
            /\ o[k] = o[k - 1] + Len(content[t])
            /\ Clean => Places(content[t], o[k - 1])
        BY <2>3, <4>1, Zenon DEF RoundIs
      <4>7. Clean' => Clean /\ t \notin failed
        BY <1>2 DEF Clean
      <4> QED  BY <4>4, <4>5, <4>6, <4>7
    <3> QED  BY <2>2, <3>1, <3>2
  <2>6. CompressIs(o)'
    <3>1. Len(packed') + mp' = M
      BY <1>1, <2>2
    <3>2. RoundIs(o, Len(packed))'
      BY <1>1 DEF RoundIs
    <3> QED  BY <1>1, <2>2, <2>3, <2>5, <3>1, <3>2 DEF CompressIs
  <2>7. result' # SUCCESS
    BY <1>1 DEF Inv, PhaseInv, SUCCESS, NotYet
  <2>8. FilesAre(o)'
    BY <1>1, <2>3, <2>6, <2>7 DEF FilesAre, EndIs, DecompressIs
  <2>9. (Clean => Places(output, 0))'
    BY <1>1, <1>3 DEF Inv, FileInv, Clean
  <2> QED  BY <1>1, <2>8, <2>9 DEF FileInv, SuccessIsWhole
<1> QED  BY <1>8, <1>9, <1>10, <1>11, <1>12, Zenon DEF Inv

-----------------------------------------------------------------------------
(* The steps of mtfa_decompress. *)

LEMMA DecompressKeeps ==
    ASSUME Parameters, Inv, Decompress
    PROVE  Inv'
<1>1. /\ mode = "compress" /\ phase = "returned" /\ result = SUCCESS
      /\ mode' = "decompress" /\ phase' = "read" /\ result' = NotYet
      /\ rpos' = 1 /\ mp' = 0 /\ rc' = 0 /\ es' = 0 /\ NewRound /\ work' = 0..(tcnt - 1)
      /\ UNCHANGED <<parallel, tcnt, fsize, lens, content, memory, twice, packed, output, mishaps>>
  BY DEF Decompress, roundVars
<1>2. CoderTypes' /\ RaceInv' /\ failed' = {} /\ coder' = NoThreads
  BY <1>1, NewRoundIs
<1>3. TypeInv'
  <2>1. CallTypes'
    <3>1. cut' = cut \/ cut' \in {Uncut} \cup [block : 1..Len(packed), field : Fields]
      BY DEF Decompress
    <3>2. Len(packed) \in Nat
      BY DEF Inv, TypeInv, FileTypes
    <3>3. cut' \in [block : Nat, field : Fields \cup {"none"}]
      BY <3>1, <3>2 DEF Uncut, Inv, TypeInv, CallTypes
    <3> QED  BY <1>1, <3>3 DEF Inv, TypeInv, CallTypes
  <2>2. PlaceTypes'
    <3>1. 0 \in 0..tcnt
      BY SlotsAre DEF Inv
    <3> QED  BY <1>1, <3>1 DEF Inv, TypeInv, PlaceTypes
  <2> QED  BY <1>1, <1>2, <2>1, <2>2 DEF Inv, TypeInv, RoundTypes, MemoryTypes, FileTypes
<1>4. PhaseInv'
  BY <1>1, <1>2 DEF PhaseInv
<1>5. MemoryInv'
  <2>1. \A t \in Slots : memory'[t] = "null" /\ ~ (t < 0)
    BY <1>1, SlotsAre DEF Inv, MemoryInv
  <2> QED  BY <1>1, <2>1 DEF Inv, MemoryInv
<1>6. FileInv'
  <2>1. PICK o \in [Nat -> Nat] : FilesAre(o)
    BY DEF Inv, FileInv
  <2>2. PICK L \in Nat : L = Len(packed) /\ L > 0
    BY <1>1, <2>1 DEF Inv, TypeInv, FileTypes, FilesAre, EndIs
  <2>3. EndIs(o)'
    BY <1>1, <2>1 DEF FilesAre, EndIs, PackedIs, Clean
  <2>4. output' = <<>>
    BY <1>1 DEF Inv, PhaseInv
  <2>5. DecompressIs(o)'
    <3>1. rpos' <= Len(packed')
      BY <1>1, <2>2
    <3>2. RoundIs(o, rpos - 1 - mp)'
      BY <1>1 DEF RoundIs
    <3>3. rpos' - 1 - mp' = 0
      BY <1>1
    <3>4. Len(output') = o[rpos' - 1 - mp']
      BY <2>1, <2>4, <3>3 DEF FilesAre
    <3> QED  BY <1>1, <3>1, <3>2, <3>4 DEF DecompressIs
  <2>6. FilesAre(o)'
    BY <1>1, <2>1, <2>3, <2>5 DEF FilesAre, CompressIs
  <2>7. Places(output, 0)'
    BY <2>4 DEF Places
  <2> QED  BY <1>1, <2>6, <2>7 DEF FileInv, SuccessIsWhole, SUCCESS, NotYet
<1> QED  BY <1>2, <1>3, <1>4, <1>5, <1>6, Zenon DEF Inv

LEMMA DecompressNoMemoryKeeps ==
    ASSUME Parameters, Inv, DecompressNoMemory
    PROVE  Inv'
<1>1. /\ mode = "compress" /\ phase = "returned" /\ result = SUCCESS
      /\ mode' = "decompress" /\ phase' = "returned" /\ result' = FAILURE
      /\ rpos' = 1 /\ mp' = 0 /\ rc' = 0 /\ es' = 0 /\ NewRound
      /\ UNCHANGED <<parallel, tcnt, fsize, cut, lens, content, memory, work, twice, packed, output,
                     mishaps>>
  BY DEF DecompressNoMemory, Return, callVars, roundVars
<1>2. CoderTypes' /\ RaceInv' /\ failed' = {} /\ coder' = NoThreads
  BY <1>1, NewRoundIs
<1>3. TypeInv'
  <2>1. 0 \in 0..tcnt
    BY SlotsAre DEF Inv
  <2>2. PlaceTypes'
    BY <1>1, <2>1 DEF Inv, TypeInv, PlaceTypes
  <2> QED  BY <1>1, <1>2, <2>2 DEF Inv, TypeInv, CallTypes, RoundTypes, MemoryTypes, FileTypes
<1>4. PhaseInv'
  BY <1>1, <1>2 DEF PhaseInv
<1>5. MemoryInv'
  BY <1>1 DEF Inv, MemoryInv
<1>6. FileInv'
  <2>1. PICK o \in [Nat -> Nat] : FilesAre(o)
    BY DEF Inv, FileInv
  <2>2. EndIs(o)'
    BY <1>1, <2>1 DEF FilesAre, EndIs, PackedIs, Clean
  <2>3. FilesAre(o)'
    BY <1>1, <2>1, <2>2 DEF FilesAre, CompressIs, DecompressIs
  <2>4. Places(output, 0)'
    BY <1>1 DEF Inv, PhaseInv, Places
  <2> QED  BY <1>1, <2>3, <2>4 DEF FileInv, SuccessIsWhole, SUCCESS, FAILURE
<1> QED  BY <1>2, <1>3, <1>4, <1>5, <1>6, Zenon DEF Inv

\* Giving up frees what the round has, and at most the slot after it.
LEMMA GiveUpKeeps ==
    ASSUME Parameters, Inv, mode = "decompress", phase # "returned",
           NEW S, S \subseteq Slots, ReadSlots \subseteq S, GiveUp(S),
           \A t \in S : memory[t] = "freed" => cut.field = "ilens" /\ cut.block > tcnt
    PROVE  Inv'
<1>1. /\ phase' = "returned" /\ result' = FAILURE
      /\ UNCHANGED <<parallel, tcnt, fsize, cut, mode, rpos, mp, rc, es, lens, content, coder, loaded,
                     failed, packed, output, mishaps>>
      /\ memory' = [t \in Slots |-> IF t \in S /\ memory[t] # "null" THEN "freed" ELSE memory[t]]
      /\ twice' = (twice \/ \E t \in S : memory[t] = "freed")
      /\ work' = work \ ReadSlots
  BY DEF GiveUp, Free, Return, callVars, roundVars, coderVars
<1>2. memory \in [Slots -> {"null", "live", "freed"}] /\ twice \in BOOLEAN
  BY DEF Inv, TypeInv, MemoryTypes
<1>3. TypeInv'
  <2>1. MemoryTypes'
    BY <1>1, <1>2 DEF MemoryTypes
  <2> QED  BY <1>1, <2>1 DEF Inv, TypeInv, CallTypes, PlaceTypes, RoundTypes, CoderTypes, FileTypes
<1>4. PhaseInv'
  BY <1>1 DEF Inv, PhaseInv
<1>5. RaceInv'
  BY <1>1 DEF Inv, RaceInv, Done
<1>6. MemoryInv'
  <2>1. \A t \in Slots : memory[t] = "live" => t \in S
    <3>1. \A t \in Slots : memory[t] = "live" => t < mp
      BY DEF Inv, MemoryInv
    <3>2. \A t \in Slots : t < mp => t \in ReadSlots
      BY SlotsAre DEF Inv
    <3> QED  BY <3>1, <3>2
  <2>2. \A t \in Slots : memory'[t] # "live"
    BY <1>1, <1>2, <2>1
  <2>3. twice' => cut.field = "ilens" /\ cut.block > tcnt
    BY <1>1 DEF Inv, MemoryInv
  <2>4. work' = mp..(tcnt - 1)
    <3>1. work = 0..(tcnt - 1) /\ 0..(mp - 1) = ReadSlots /\ mp \in Nat /\ tcnt \in Nat
      BY SlotsAre DEF Inv, MemoryInv
    <3>2. (0..(tcnt - 1)) \ (0..(mp - 1)) = mp..(tcnt - 1)
      BY <3>1
    <3> QED  BY <1>1, <3>1, <3>2
  <2> QED  BY <1>1, <2>2, <2>3, <2>4 DEF MemoryInv
<1>7. FileInv'
  BY <1>1, FilesStay DEF Inv, SUCCESS, FAILURE
<1> QED  BY <1>3, <1>4, <1>5, <1>6, <1>7, Zenon DEF Inv

\* The slots of the round have what was allocated for it.
LEMMA RoundIsLive ==
    ASSUME Parameters, Inv, mode = "decompress", phase # "returned"
    PROVE  /\ ReadSlots \subseteq Slots
           /\ \A t \in ReadSlots : memory[t] = "live"
<1>1. ReadSlots \subseteq Slots /\ \A t \in Slots : t \in ReadSlots <=> t < mp
  BY SlotsAre DEF Inv
<1> QED  BY <1>1 DEF Inv, MemoryInv

LEMMA ReadCutSizeKeeps ==
    ASSUME Parameters, Inv, ReadCutSize
    PROVE  Inv'
<1>1. mode = "decompress" /\ phase = "read" /\ mp < tcnt /\ GiveUp({mp} \cup ReadSlots)
      /\ cut = [block |-> rpos, field |-> "ilens"]
  BY DEF ReadCutSize, CutAt
<1>2. mp \in Slots
  BY <1>1, SlotsAre DEF Inv
<1>3. ReadSlots \subseteq Slots /\ \A t \in ReadSlots : memory[t] = "live"
  BY <1>1, RoundIsLive
<1>4. \A t \in Slots : memory[t] = "freed" => rpos > tcnt
  BY <1>1 DEF Inv, MemoryInv
<1>5. \A t \in {mp} \cup ReadSlots : memory[t] = "freed" => cut.field = "ilens" /\ cut.block > tcnt
  BY <1>1, <1>2, <1>3, <1>4
<1>6. {mp} \cup ReadSlots \subseteq Slots /\ ReadSlots \subseteq {mp} \cup ReadSlots
  BY <1>2, <1>3
<1>7. PICK S : S = {mp} \cup ReadSlots
  OBVIOUS
<1> QED  BY <1>1, <1>5, <1>6, <1>7, GiveUpKeeps

LEMMA GiveUpRoundKeeps ==
    ASSUME Parameters, Inv, mode = "decompress", phase # "returned", GiveUp(ReadSlots)
    PROVE  Inv'
<1>1. ReadSlots \subseteq Slots /\ \A t \in ReadSlots : memory[t] = "live"
  BY RoundIsLive
<1>2. PICK S : S = ReadSlots
  OBVIOUS
<1>3. \A t \in S : memory[t] = "freed" => cut.field = "ilens" /\ cut.block > tcnt
  BY <1>1, <1>2
<1> QED  BY <1>1, <1>2, <1>3, GiveUpKeeps

\* A block before the End has a size, the End has none.
LEMMA SizesTell ==
    ASSUME Parameters, Inv, mode = "decompress", phase # "returned"
    PROVE  /\ rpos \in 1..Len(packed) /\ packed[rpos] \in Blocks
           /\ freadsize(packed[rpos].ilen) \in Nat
           /\ freadsize(packed[rpos].ilen) = 0 <=> rpos = Len(packed)
<1>1. PICK o \in [Nat -> Nat] : FilesAre(o)
  BY DEF Inv, FileInv
<1>2. PICK L \in Nat : L = Len(packed) /\ packed \in Seq(Blocks)
  BY DEF Inv, TypeInv, FileTypes
<1>3. rpos \in Nat /\ rpos > 0 /\ rpos <= L
  <2>1. rpos \in Nat /\ mp \in Nat /\ rpos > mp
    BY SlotsAre DEF Inv, TypeInv, PlaceTypes, PhaseInv
  <2>2. rpos <= Len(packed)
    BY <1>1 DEF FilesAre, DecompressIs
  <2> QED  BY <1>2, <2>1, <2>2
<1>4. PackedIs(o, L - 1) /\ packed[L].ilen = fwritesize(0)
  BY <1>1, <1>2 DEF FilesAre, EndIs
<1>5. rpos \in 1..Len(packed) /\ packed[rpos] \in Blocks
  BY <1>2, <1>3
<1>6. packed[rpos].ilen \in Sizes
  BY <1>5 DEF Blocks
<1>7. ASSUME rpos # L PROVE freadsize(packed[rpos].ilen) # 0
  <2>1. rpos \in 1..(L - 1)
    BY <1>2, <1>3, <1>7
  <2>2. Len(packed[rpos].data) \in 1..bsz /\ packed[rpos].ilen = fwritesize(Len(packed[rpos].data))
    BY <1>4, <2>1, Zenon DEF PackedIs
  <2> QED  BY <2>2, SizeOfBlock
<1>8. rpos = L => freadsize(packed[rpos].ilen) = 0
  BY <1>4, SizeOfBlock
<1> QED  BY <1>2, <1>5, <1>6, <1>7, <1>8, SizeIsNumber

LEMMA ReadEndKeeps ==
    ASSUME Parameters, Inv, ReadEnd
    PROVE  Inv'
<1>1. /\ mode = "decompress" /\ phase = "read" /\ es' = 1 /\ phase' = "code"
      /\ UNCHANGED <<parallel, tcnt, fsize, cut, mode, rpos, mp, rc, lens, content, coder, loaded,
                     failed, memory, work, twice, packed, output, result, mishaps>>
  BY DEF ReadEnd, Ready, callVars, roundVars, coderVars
<1>2. cut.field = "olens" \/ freadsize(packed[rpos].ilen) = 0
  BY DEF ReadEnd, CutAt
<1>3. TypeInv'
  BY <1>1 DEF Inv, TypeInv, CallTypes, PlaceTypes, RoundTypes, CoderTypes, MemoryTypes, FileTypes
<1>4. PhaseInv'
  BY <1>1 DEF Inv, PhaseInv
<1>5. RaceInv'
  BY <1>1 DEF Inv, RaceInv, Done
<1>6. MemoryInv'
  BY <1>1 DEF Inv, MemoryInv
<1>7. FileInv'
  <2>1. PICK o \in [Nat -> Nat] : FilesAre(o)
    BY DEF Inv, FileInv
  <2>2. rpos = Len(packed) \/ cut.field = "olens"
    BY <1>1, <1>2, SizesTell
  <2>3. EndIs(o)'
    BY <1>1, <2>1 DEF FilesAre, EndIs, PackedIs, Clean
  <2>4. DecompressIs(o)'
    BY <1>1, <2>1, <2>2 DEF FilesAre, DecompressIs, RoundIs, Clean
  <2>5. FilesAre(o)'
    BY <1>1, <2>1, <2>3, <2>4 DEF FilesAre, CompressIs
  <2>6. (Clean => Places(output, 0))'
    BY <1>1 DEF Inv, FileInv, Clean
  <2>7. SuccessIsWhole'
    BY <1>1 DEF Inv, FileInv, SuccessIsWhole
  <2> QED  BY <2>5, <2>6, <2>7 DEF FileInv
<1> QED  BY <1>3, <1>4, <1>5, <1>6, <1>7, Zenon DEF Inv

LEMMA ReadPackedKeeps ==
    ASSUME Parameters, Inv, ReadPacked
    PROVE  Inv'
<1>1. /\ mode = "decompress" /\ phase = "read" /\ mp < tcnt
      /\ freadsize(packed[rpos].ilen) # 0
      /\ lens' = [lens EXCEPT ![mp] = freadsize(packed[rpos].ilen)]
      /\ content' = [content EXCEPT ![mp] = packed[rpos].data]
      /\ memory' = [memory EXCEPT ![mp] = "live"]
      /\ rpos' = rpos + 1 /\ mp' = mp + 1
      /\ phase' = IF mp' = tcnt THEN "code" ELSE "read"
      /\ UNCHANGED <<parallel, tcnt, fsize, cut, mode, rc, es, coder, loaded, failed, work, twice,
                     packed, output, result, mishaps>>
  BY DEF ReadPacked, callVars, coderVars
<1>2. mp \in Nat /\ tcnt \in Nat /\ mp \in Slots /\ mp' \in 0..tcnt /\ rpos \in Nat /\ rpos' \in Nat /\ rpos > mp
  BY <1>1, SlotsAre DEF Inv, TypeInv, PlaceTypes, PhaseInv
<1>3. PICK s \in Seq(Int), v \in Nat :
        s = packed[rpos].data /\ v = freadsize(packed[rpos].ilen) /\ rpos \in 1..Len(packed) /\ rpos # Len(packed)
  BY <1>1, SizesTell DEF Blocks
<1>4. content \in [Slots -> Seq(Int)] /\ lens \in [Slots -> Nat]
  BY DEF Inv, TypeInv, RoundTypes
<1>5. memory \in [Slots -> {"null", "live", "freed"}]
  BY DEF Inv, TypeInv, MemoryTypes
<1>6. TypeInv'
  <2>1. RoundTypes'
    BY <1>1, <1>2, <1>3, <1>4 DEF RoundTypes
  <2>2. MemoryTypes'
    BY <1>1, <1>2, <1>5 DEF Inv, TypeInv, MemoryTypes
  <2>3. PlaceTypes'
    BY <1>1, <1>2 DEF Inv, TypeInv, PlaceTypes
  <2> QED  BY <1>1, <2>1, <2>2, <2>3 DEF Inv, TypeInv, CallTypes, CoderTypes, FileTypes
<1>7. PhaseInv'
  <2>1. rpos' > mp'
    BY <1>1, <1>2
  <2> QED  BY <1>1, <2>1 DEF Inv, PhaseInv
<1>8. RaceInv'
  <2>1. coder = NoThreads /\ failed = {}
    BY <1>1 DEF Inv, PhaseInv
  <2> QED  BY <1>1, <2>1 DEF RaceInv, NoThreads
<1>9. MemoryInv'
  <2>1. \A t \in Slots : /\ t = mp => memory'[t] = "live"
                         /\ t # mp => memory'[t] = memory[t]
    BY <1>1, <1>5
  <2>2. \A t \in Slots : t < mp' <=> t < mp \/ t = mp
    BY <1>1, <1>2, SlotsAre DEF Inv
  <2>3. \A t \in Slots : memory[t] = "live" <=> t < mp
    BY <1>1 DEF Inv, MemoryInv
  <2>4. \A t \in Slots : memory'[t] = "live" <=> t < mp'
    BY <2>1, <2>2, <2>3
  <2>5. ASSUME NEW t \in Slots, memory'[t] = "freed" PROVE rpos' > tcnt
    <3>1. memory[t] = "freed"
      BY <2>1, <2>5
    <3>2. rpos > tcnt
      BY <1>1, <3>1 DEF Inv, MemoryInv
    <3> QED  BY <1>1, <1>2, <3>2
  <2>6. (twice => cut.field = "ilens" /\ cut.block > tcnt) /\ work' = 0..(tcnt - 1)
    BY <1>1 DEF Inv, MemoryInv
  <2> QED  BY <1>1, <2>4, <2>5, <2>6 DEF MemoryInv
<1>10. FileInv'
  <2>1. PICK o \in [Nat -> Nat] : FilesAre(o)
    BY DEF Inv, FileInv
  <2>2. PICK L \in Nat, a \in Nat : /\ L = Len(packed) /\ a = rpos - 1 - mp /\ a = rpos' - 1 - mp'
                                    /\ rpos \in 1..(L - 1) /\ rpos = a + mp + 1 /\ rpos - 1 = a + mp
    <3>1. PICK L \in Nat : L = Len(packed)
      BY DEF Inv, TypeInv, FileTypes
    <3>2. rpos \in 1..L /\ rpos # L
      BY <1>3, <3>1
    <3>3. rpos - 1 - mp \in Nat /\ rpos' - 1 - mp' = rpos - 1 - mp
      BY <1>1, <1>2
    <3>4. PICK a \in Nat : a = rpos - 1 - mp
      BY <3>3
    <3>5. a = rpos' - 1 - mp' /\ rpos = a + mp + 1 /\ rpos - 1 = a + mp
      <4>1. a = rpos' - 1 - mp'
        BY <3>3, <3>4, Zenon
      <4>2. rpos \in Nat /\ mp \in Nat
        BY <1>2
      <4>3. rpos = a + mp + 1 /\ rpos - 1 = a + mp
        BY <3>4, <4>2
      <4> QED  BY <4>1, <4>3, Zenon
    <3>6. rpos \in 1..(L - 1)
      BY <3>1, <3>2
    <3> QED  BY <3>1, <3>4, <3>5, <3>6
  <2>3. RoundIs(o, a) /\ (Len(output) = o[a] \/ "unwritten" \in mishaps) /\ PackedIs(o, L - 1)
    BY <1>1, <2>1, <2>2 DEF FilesAre, DecompressIs, EndIs
  <2>4. /\ Len(s) \in 1..bsz /\ o[a + mp + 1] = o[a + mp] + Len(s)
        /\ Clean => Places(s, o[a + mp])
    BY <1>3, <2>2, <2>3, Zenon DEF PackedIs
  <2>5. RoundIs(o, a)'
    <3> SUFFICES ASSUME NEW t \in 0..(mp' - 1)
                 PROVE  /\ Len(content'[t]) \in 1..bsz
                        /\ o[a + t + 1] = o[a + t] + Len(content'[t])
                        /\ Clean' => Places(content'[t], o[a + t])
      BY DEF RoundIs
    <3>1. CASE t = mp
      <4>1. content'[t] = s
        BY <1>1, <1>2, <1>3, <1>4, <3>1
      <4> QED  BY <1>1, <2>4, <3>1, <4>1 DEF Clean
    <3>2. CASE t # mp
      <4>1. t \in 0..(mp - 1)
        BY <1>1, <1>2, <3>2
      <4>2. t \in Slots
        BY <4>1, SlotsAre DEF Inv
      <4>3. content'[t] = content[t]
        BY <1>1, <1>4, <3>2, <4>2
      <4>4. Clean' => Clean
        BY <1>1 DEF Clean
      <4> QED  BY <2>3, <4>1, <4>3, <4>4, Zenon DEF RoundIs
    <3> QED  BY <3>1, <3>2
  <2>6. rpos' <= Len(packed')
    BY <1>1, <1>2, <2>2
  <2>7. es' = 0
    BY <1>1 DEF Inv, PhaseInv
  <2>8. DecompressIs(o)'
    <3>1. /\ RoundIs(o, rpos - 1 - mp)'
          /\ Len(output') = o[rpos' - 1 - mp'] \/ "unwritten" \in mishaps'
      BY <1>1, <2>2, <2>3, <2>5
    <3> QED  BY <2>6, <2>7, <3>1 DEF DecompressIs
  <2>9. EndIs(o)'
    BY <1>1, <2>1 DEF FilesAre, EndIs, PackedIs, Clean
  <2>10. FilesAre(o)'
    BY <1>1, <2>1, <2>8, <2>9 DEF FilesAre, CompressIs
  <2>11. (Clean => Places(output, 0))'
    BY <1>1 DEF Inv, FileInv, Clean
  <2>12. SuccessIsWhole'
    BY <1>1 DEF Inv, FileInv, SuccessIsWhole
  <2> QED  BY <2>10, <2>11, <2>12 DEF FileInv
<1> QED  BY <1>6, <1>7, <1>8, <1>9, <1>10, Zenon DEF Inv

LEMMA WriteOutputKeeps ==
    ASSUME Parameters, Inv, WriteOutput
    PROVE  Inv'
<1>1. PICK f : f = [t \in Slots |-> Made(t)]
  OBVIOUS
<1>2. /\ mode = "decompress" /\ phase = "code" /\ rc = 0
      /\ Free(ReadSlots)
      /\ UNCHANGED <<parallel, tcnt, fsize, cut, mode, rpos, rc, es, lens, content, packed>>
  BY DEF WriteOutput, Coded, callVars, roundVars
<1>3. \/ /\ es = 1 /\ phase' = "returned" /\ result' = SUCCESS /\ work' = {}
         /\ UNCHANGED <<mp, coder, loaded, failed>>
      \/ es = 0 /\ phase' = "read" /\ mp' = 0 /\ NewRound /\ result' = result /\ work' = work
  BY DEF WriteOutput, Return, coderVars, Inv, TypeInv, PlaceTypes
<1>4. TypeInv /\ mp \in Nat /\ tcnt \in Nat /\ ReadSlots \subseteq Slots /\ 0..(mp - 1) = ReadSlots /\ rpos \in Nat /\ rpos > mp
  BY <1>2, SlotsAre DEF Inv, TypeInv, PlaceTypes, PhaseInv
<1>5. PICK n \in 0..Len(WriteRound) :
        /\ "unwritten" \in mishaps => n = 0
        /\ output' = output \o SubSeq(WriteRound, 1, n)
        /\ mishaps' = mishaps \cup (IF failed # {} THEN {"lost"} ELSE {})
                             \cup (IF n < Len(WriteRound) THEN {"unwritten"} ELSE {})
  BY DEF WriteOutput
<1>6. PICK o \in [Nat -> Nat] : FilesAre(o)
  BY DEF Inv, FileInv
<1>7. PICK a \in Nat, b \in Nat : a = rpos - 1 - mp /\ b = rpos - 1 /\ b = a + mp
  BY <1>4
<1>8. RoundIs(o, a) /\ (Len(output) = o[a] \/ "unwritten" \in mishaps) /\ EndIs(o) /\ o[0] = 0
      /\ rpos <= Len(packed) /\ (es = 1 => rpos = Len(packed) \/ cut.field = "olens")
  BY <1>2, <1>6, <1>7 DEF FilesAre, DecompressIs
<1>9. PICK G : G = Gathered(f) /\ PlacedFrom(G, f, o, a)
  <2>1. \A t \in 0..(mp - 1) : f[t] \in Seq(Int) /\ Len(f[t]) = Len(content[t])
    <3> TAKE t \in 0..(mp - 1)
    <3>1. t \in Slots
      BY <1>4
    <3> QED  BY <1>1, <1>4, <3>1, MadeIs
  <2>2. \A t \in 0..(mp - 1) : o[a + t + 1] = o[a + t] + Len(f[t])
    BY <1>8, <2>1, Zenon DEF RoundIs
  <2>3. mp \in Nat /\ \A t \in 0..(mp - 1) : f[t] \in Seq(Int)
    BY <1>4, <2>1
  <2>4. PlacedFrom(Gathered(f), f, o, a)
    BY <2>2, <2>3, GatheredPlaces
  <2> QED  BY <2>4
<1>10. G \in Seq(Int) /\ Len(G) \in Nat /\ o[a] + Len(G) = o[b] /\ output \in Seq(Int)
       /\ n \in 0..Len(G) /\ G = WriteRound
  BY <1>1, <1>5, <1>7, <1>9 DEF PlacedFrom, Inv, TypeInv, FileTypes, WriteRound
<1>21. PICK W \in Seq(Int) : /\ W = SubSeq(G, 1, n) /\ output' = output \o W /\ Len(W) = n
                             /\ \A k \in 1..n : W[k] = G[k]
  <2>1. n \in Int /\ 1 \in Int /\ n - 1 + 1 = n /\ \A k \in 1..n : G[k] \in Int /\ 1 + k - 1 = k
    BY <1>10
  <2>2. /\ SubSeq(G, 1, n) \in Seq(Int) /\ Len(SubSeq(G, 1, n)) = IF 1 <= n THEN n - 1 + 1 ELSE 0
        /\ \A k \in 1..(n - 1 + 1) : SubSeq(G, 1, n)[k] = G[1 + k - 1]
    BY <2>1, SubSeqProperties
  <2>3. Len(SubSeq(G, 1, n)) = n
    <3>1. PICK l : l = Len(SubSeq(G, 1, n))
      OBVIOUS
    <3>2. n \in Nat /\ l = IF 1 <= n THEN n - 1 + 1 ELSE 0
      <4>1. l = IF 1 <= n THEN n - 1 + 1 ELSE 0
        BY <2>2, <3>1, Zenon
      <4>2. Len(G) \in Nat /\ n \in 0..Len(G)
        BY <1>10
      <4> QED  BY <4>1, <4>2
    <3>3. l = n
      BY ONLY <3>2
    <3> QED  BY <3>1, <3>3
  <2>4. \A k \in 1..n : SubSeq(G, 1, n)[k] = G[k]
    BY <2>1, <2>2
  <2> QED  BY <1>5, <1>10, <2>2, <2>3, <2>4
<1>22. /\ mishaps' \subseteq {"short", "lost", "unwritten"} /\ mishaps \subseteq mishaps'
       /\ "unwritten" \in mishaps' \/ n = Len(G)
       /\ "lost" \notin mishaps' => failed = {}
  <2>1. mishaps \subseteq {"short", "lost", "unwritten"}
    BY DEF Inv, TypeInv, PlaceTypes
  <2>2. n = Len(G) \/ n < Len(WriteRound)
    BY <1>10
  <2> QED  BY <1>5, <2>1, <2>2
<1>11. output' \in Seq(Int) /\ (Len(output') = o[b] \/ "unwritten" \in mishaps')
  <2>1. output \o W \in Seq(Int) /\ Len(output \o W) = Len(output) + Len(W)
    BY <1>10, ConcatProperties
  <2>2. CASE "unwritten" \in mishaps'
    BY <1>21, <2>1, <2>2
  <2>3. CASE "unwritten" \notin mishaps'
    <3>1. Len(W) = Len(G) /\ Len(output) = o[a]
      BY <1>8, <1>21, <1>22, <2>3
    <3> QED  BY <1>10, <1>21, <2>1, <3>1
  <2> QED  BY <2>2, <2>3
<1>12. Clean' => Places(output', 0)
  <2> SUFFICES ASSUME Clean' PROVE Places(output', 0)
    OBVIOUS
  <2>1. failed = {} /\ Clean
    BY <1>22 DEF Clean
  <2>2. \A t \in 0..(mp - 1) : Places(f[t], o[a + t])
    <3> TAKE t \in 0..(mp - 1)
    <3>1. t \in Slots
      BY <1>4
    <3>2. f[t] = content[t]
      BY <1>1, <1>4, <2>1, <3>1, MadeIs
    <3> QED  BY <1>8, <2>1, <3>2, Zenon DEF RoundIs
  <2>3. Places(G, o[a])
    BY <1>9, <2>2, Zenon DEF PlacedFrom
  <2>4. Places(output, 0)
    BY <2>1 DEF Inv, FileInv
  <2>5. CASE "unwritten" \in mishaps
    <3>1. Len(W) = 0
      BY <1>5, <1>21, <2>5
    <3>3. W = <<>>
      BY <3>1
    <3>2. output \o W = output
      BY <1>10, <3>3, ConcatEmptySeq
    <3> QED  BY <1>21, <2>4, <3>2
  <2>6. CASE "unwritten" \notin mishaps
    <3>1. o[a] \in Nat /\ o[a] = 0 + Len(output)
      BY <1>8, <2>6
    <3>2. Places(W, o[a])
      <4>1. \A k \in 1..n : k \in 1..Len(G)
        BY <1>10
      <4> QED  BY <1>21, <2>3, <4>1 DEF Places
    <3>3. Places(output \o W, 0)
      BY <1>10, <1>21, <2>4, <3>1, <3>2, PlacesJoin
    <3> QED  BY <1>21, <3>3
  <2> QED  BY <2>5, <2>6
<1>13. \A t \in ReadSlots : memory[t] = "live"
  BY <1>2, RoundIsLive
<1>14. /\ memory' = [t \in Slots |-> IF t \in ReadSlots THEN "freed" ELSE memory[t]]
       /\ twice' = twice
  BY <1>2, <1>4, <1>13 DEF Free, Inv, TypeInv, MemoryTypes
<1>15. CoderTypes'
  BY <1>3, NewRoundIs DEF Inv, TypeInv, CoderTypes
<1>16. TypeInv'
  <2>1. PlaceTypes'
    <3>1. 0 \in 0..tcnt
      BY <1>4
    <3> QED  BY <1>2, <1>3, <1>22, <3>1 DEF Inv, TypeInv, PlaceTypes
  <2>2. MemoryTypes'
    BY <1>14 DEF Inv, TypeInv, MemoryTypes
  <2>3. FileTypes'
    BY <1>2, <1>11 DEF Inv, TypeInv, FileTypes
  <2> QED  BY <1>2, <1>15, <2>1, <2>2, <2>3 DEF Inv, TypeInv, CallTypes, RoundTypes
<1>17. PhaseInv'
  <2>1. CASE es = 1
    BY <1>2, <1>3, <2>1 DEF Inv, PhaseInv
  <2>2. CASE es = 0
    <3>1. failed' = {} /\ coder' = NoThreads
      BY <1>3, <2>2, NewRoundIs
    <3>2. rpos' > mp'
      BY <1>2, <1>3, <1>4, <2>2
    <3>3. result' = NotYet
      BY <1>2, <1>3, <2>2 DEF Inv, PhaseInv
    <3> QED  BY <1>2, <1>3, <2>2, <3>1, <3>2, <3>3 DEF PhaseInv
  <2> QED  BY <1>3, <2>1, <2>2
<1>18. RaceInv'
  <2>1. CASE es = 1
    BY <1>2, <1>3, <2>1 DEF Inv, RaceInv, Done
  <2>2. CASE es = 0
    BY <1>3, <2>2, NewRoundIs
  <2> QED  BY <1>3, <2>1, <2>2
<1>19. MemoryInv'
  <2>1. \A t \in Slots : memory[t] = "live" => t \in ReadSlots
    <3>1. \A t \in Slots : t \in ReadSlots <=> t < mp
      BY SlotsAre DEF Inv
    <3> QED  BY <1>2, <3>1 DEF Inv, MemoryInv
  <2>2. \A t \in Slots : memory'[t] # "live"
    BY <1>14, <2>1
  <2>3. es = 0 => rpos > tcnt /\ \A t \in Slots : ~ (t < mp')
    <3>1. es = 0 => mp = tcnt /\ mp' = 0
      BY <1>2, <1>3 DEF Inv, PhaseInv
    <3>2. \A t \in Slots : ~ (t < 0)
      BY SlotsAre DEF Inv
    <3> QED  BY <1>4, <3>1, <3>2
  <2>4. twice' => cut'.field = "ilens" /\ cut'.block > tcnt'
    BY <1>2, <1>14 DEF Inv, MemoryInv
  <2>5. es = 1 => work' = {}
    BY <1>3
  <2>6. es = 0 => work' = 0..(tcnt' - 1)
    BY <1>2, <1>3 DEF Inv, MemoryInv
  <2> QED  BY <1>2, <1>3, <2>2, <2>3, <2>4, <2>5, <2>6 DEF MemoryInv
<1>20. FileInv'
  <2>1. EndIs(o)'
    <3>1. \A k : PackedIs(o, k) => PackedIs(o, k)'
      BY <1>2, <1>22 DEF PackedIs, Clean
    <3> QED  BY <1>2, <1>22, <1>8, <3>1 DEF EndIs
  <2>2. DecompressIs(o)'
    <3>1. CASE es = 1
      BY <1>3, <3>1 DEF DecompressIs
    <3>2. CASE es = 0
      <4>1. mp' = 0 /\ rpos' - 1 - mp' = b
        BY <1>2, <1>3, <1>4, <1>7, <3>2
      <4>2. RoundIs(o, rpos - 1 - mp)'
        BY <4>1 DEF RoundIs
      <4>3. (Len(output') = o[rpos' - 1 - mp'] \/ "unwritten" \in mishaps')
            /\ rpos' <= Len(packed') /\ es' = 0
        BY <1>2, <1>8, <1>11, <3>2, <4>1
      <4> QED  BY <4>2, <4>3 DEF DecompressIs
    <3> QED  BY <1>3, <3>1, <3>2
  <2>3. FilesAre(o)'
    BY <1>2, <1>8, <2>1, <2>2 DEF FilesAre, CompressIs
  <2>4. SuccessIsWhole'
    <3>1. CASE es = 1
      <4>1. cut'.field = "olens" \/ b = Len(packed) - 1
        BY <1>2, <1>7, <1>8, <3>1
      <4>2. o[Len(packed) - 1] = fsize \/ "short" \in mishaps
        BY <1>2, <1>8 DEF EndIs
      <4> QED  BY <1>2, <1>22, <1>11, <4>1, <4>2 DEF SuccessIsWhole
    <3>2. CASE es = 0
      BY <1>2, <1>3, <3>2 DEF Inv, PhaseInv, SuccessIsWhole, SUCCESS, NotYet
    <3> QED  BY <1>3, <3>1, <3>2
  <2> QED  BY <1>12, <2>3, <2>4, Zenon DEF FileInv
<1> QED  BY <1>16, <1>17, <1>18, <1>19, <1>20, Zenon DEF Inv

-----------------------------------------------------------------------------

LEMMA InitHasInv == ASSUME Parameters, MTAriInit PROVE Inv
<1> USE DEF MTAriInit
<1>1. Threads \in Nat /\ Threads > 0
  BY Numbers
<1>2. TypeInv
  <2>1. CallTypes
    BY <1>1 DEF CallTypes, Parameters, Uncut
  <2>2. PlaceTypes
    BY <1>1 DEF PlaceTypes, NotYet
  <2>3. RoundTypes
    <3>1. <<>> \in Seq(Int)
      OBVIOUS
    <3> QED  BY <3>1 DEF RoundTypes
  <2>4. CoderTypes /\ MemoryTypes
    BY DEF CoderTypes, NoThreads, MemoryTypes
  <2>5. FileTypes
    BY DEF FileTypes
  <2> QED  BY <2>1, <2>2, <2>3, <2>4, <2>5 DEF TypeInv
<1>3. PhaseInv
  BY DEF PhaseInv
<1>4. RaceInv
  BY DEF RaceInv, NoThreads
<1>22. MemoryInv
  BY DEF MemoryInv
<1>6. FileInv
  <2>1. PICK o \in [Nat -> Nat] : o = [k \in Nat |-> 0]
    OBVIOUS
  <2>2. PackedIs(o, Len(packed)) /\ RoundIs(o, Len(packed))
    BY DEF PackedIs, RoundIs
  <2>3. o[0] = 0 /\ o[Len(packed) + mp] = rpos
    BY <2>1
  <2>4. rpos <= fsize
    BY DEF Parameters
  <2>5. CompressIs(o)
    BY <2>2, <2>3, <2>4 DEF CompressIs
  <2>6. FilesAre(o)
    BY <2>3, <2>5 DEF FilesAre, EndIs, DecompressIs, SUCCESS, NotYet
  <2>7. Places(output, 0)
    BY DEF Places
  <2> QED  BY <2>6, <2>7 DEF FileInv, SuccessIsWhole
<1> QED  BY <1>2, <1>3, <1>4, <1>22, <1>6 DEF Inv

LEMMA StepKeeps == ASSUME Parameters, Inv, [MTAriNext]_mtariVars PROVE Inv'
<1>1. CASE UNCHANGED mtariVars
  <2> USE <1>1 DEF mtariVars, callVars, roundVars, coderVars
  <2>1. TypeInv'
    BY DEF Inv, TypeInv, CallTypes, PlaceTypes, RoundTypes, CoderTypes, MemoryTypes, FileTypes
  <2>2. PhaseInv'
    BY DEF Inv, PhaseInv
  <2>3. RaceInv'
    BY DEF Inv, RaceInv, Done
  <2>4. MemoryInv'
    BY DEF Inv, MemoryInv
  <2>5. FileInv'
    BY FilesStay DEF Inv
  <2> QED  BY <2>1, <2>2, <2>3, <2>4, <2>5, Zenon DEF Inv
<1>2. ASSUME NEW t \in Slots, BeginBlock(t) PROVE Inv'
  BY <1>2, BeginBlockKeeps
<1>3. ASSUME NEW t \in Slots, EndBlock(t) PROVE Inv'
  BY <1>3, EndBlockKeeps
<1>4. CASE CompressNoMemory
  BY <1>4, CompressErrorKeeps DEF CompressNoMemory
<1>22. CASE ReadBlock
  BY <1>22, ReadBlockKeeps
<1>6. CASE ReadsNothing
  BY <1>6, ReadsNothingKeeps
<1>7. CASE CompressFails
  BY <1>7, CompressErrorKeeps DEF CompressFails, Coded
<1>8. CASE WriteBlocks
  BY <1>8, WriteBlocksKeeps
<1>9. CASE Decompress
  BY <1>9, DecompressKeeps
<1>17. CASE DecompressNoMemory
  BY <1>17, DecompressNoMemoryKeeps
<1>10. CASE ReadEnd
  BY <1>10, ReadEndKeeps
<1>11. CASE ReadCutSize
  BY <1>11, ReadCutSizeKeeps
<1>12. CASE ReadNoMemory
  BY <1>12, GiveUpRoundKeeps DEF ReadNoMemory
<1>13. CASE ReadCutData
  BY <1>13, GiveUpRoundKeeps DEF ReadCutData
<1>14. CASE ReadPacked
  BY <1>14, ReadPackedKeeps
<1>15. CASE DecompressFails
  BY <1>15, GiveUpRoundKeeps DEF DecompressFails, Coded
<1>16. CASE WriteOutput
  BY <1>16, WriteOutputKeeps
<1> QED  BY <1>1, <1>2, <1>3, <1>4, <1>22, <1>6, <1>7, <1>8, <1>9, <1>10, <1>11, <1>12, <1>13, <1>14,
            <1>15, <1>16, <1>17, Zenon DEF MTAriNext

LEMMA InvSays == ASSUME Parameters, Inv PROVE MTAriOutcome
<1>1. ErrorsSeen
  <2> SUFFICES ASSUME Coded, rc = 0, failed # {}
               PROVE  parallel /\ \E t \in ReadSlots \ failed : loaded[t] = 0
    BY DEF ErrorsSeen
  <2>1. /\ \A t \in Slots : coder[t] # "none" => t < mp
        /\ \A t \in failed : coder[t] # "none"
        /\ (\E t \in failed : Done(t)) =>
              parallel /\ \E t \in Slots \ failed : Done(t) /\ loaded[t] = 0
    BY DEF Inv, RaceInv
  <2>2. failed \subseteq Slots /\ \A t \in Slots : t \in ReadSlots <=> t < mp
    BY SlotsAre DEF Inv, TypeInv, CoderTypes
  <2>3. PICK t \in failed : TRUE
    OBVIOUS
  <2>4. t \in ReadSlots
    BY <2>1, <2>2
  <2>5. Done(t)
    BY <2>4 DEF Coded, ReadSlots, Done
  <2>6. PICK u \in Slots \ failed : Done(u) /\ loaded[u] = 0 /\ parallel
    BY <2>1, <2>5
  <2>7. u \in ReadSlots
    BY <2>1, <2>2, <2>6 DEF Done
  <2> QED  BY <2>6, <2>7
<1>2. InFileOrder
  BY DEF Inv, FileInv, Clean, Places, InFileOrder
<1>3. SuccessIsWhole
  BY DEF Inv, FileInv
<1>4. SizesReadBack
  BY SizesComeBack
<1>22. BuffersFreed
  BY DEF Inv, MemoryInv, BuffersFreed
<1> QED  BY <1>1, <1>2, <1>3, <1>4, <1>22 DEF MTAriOutcome

\* What mtfa_compress and mtfa_decompress promise (MTAri.cpp:31-227), whatever
\* the number of threads, the blocks and the files are, wherever a file ends, and
\* whichever reads, writes, codings or allocations fail: an error is lost in a race
\* for rc alone; what comes out is the beginning of what went in; a success has
\* all of it but after a failed read or write or an end between blocks; sizes are
\* read as they were written while an int holds them; and buffers are freed, once
\* except after a cut inside a size, and all but the wbufs that an error leaks.
THEOREM OutcomeHolds == MTAriSpec => []MTAriOutcome
<1>1. MTAriInit => Inv
  BY MTAriAssumption, InitHasInv
<1>2. Inv /\ [MTAriNext]_mtariVars => Inv'
  BY MTAriAssumption, StepKeeps
<1>3. Inv => MTAriOutcome
  BY MTAriAssumption, InvSays
<1> QED  BY <1>1, <1>2, <1>3, PTL DEF MTAriSpec
=============================================================================
