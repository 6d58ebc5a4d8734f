---------------------------- MODULE FastAriProofs -----------------------------
(***************************************************************************)
(* Proofs about FastAri, for every message, any width of the bytes, any    *)
(* model and all three variants: the words of the coder stay words, its    *)
(* interval can be split before every bit, and what is compressed comes    *)
(* back.                                                                   *)
(*                                                                         *)
(* The inductive invariant of the coder adds to the types that low <=      *)
(* high, strictly so except while a bit's interval is still to be          *)
(* shifted, and that a coder flushes between two bytes.                    *)
(*                                                                         *)
(* That the decoder retraces the coder. The coder leaves a trail, the      *)
(* points it went through (interval, model, bits still to code, bytes      *)
(* written). Whatever the coder goes on to write, the four bytes of the    *)
(* output from where it was at a point form a word of the interval of      *)
(* that point: that is what the bytes of any word of its present           *)
(* interval, put behind the output, show. The decoder starts where the     *)
(* trail does and holds these four bytes, so that at each point it takes   *)
(* the move the coder took.                                                *)
(***************************************************************************)
EXTENDS FastAri, SequenceTheorems, TLAPS

-----------------------------------------------------------------------------
(* Arithmetic. *)

\* Multiplication by a natural number is monotonic.
LEMMA MulMono ==
    ASSUME NEW a \in Nat, NEW b \in Nat, NEW c \in Nat, a <= b
    PROVE  a * c <= b * c
<1>1. PICK d \in Nat : b = a + d
  BY SMT
<1>2. b * c = a * c + d * c
  BY <1>1, SMT
<1>3. d * c \in Nat /\ a * c \in Nat
  BY SMT
<1> QED
  BY <1>2, <1>3, SMT

\* Quotient and remainder of natural numbers.
LEMMA DivMod ==
    ASSUME NEW n \in Nat, NEW d \in Nat, d > 0
    PROVE  /\ n \div d \in Nat /\ n % d \in Nat
           /\ n % d < d
           /\ (n \div d) * d + (n % d) = n
BY SMT

\* The parameters of the coder.
LEMMA Parameters ==
    /\ Base \in Nat /\ Base >= 2
    /\ Half \in Nat /\ Half >= 4
    /\ Top \in Nat /\ Top >= 4
    /\ Word \in Nat /\ Word >= 4
<1>1. Base \in Nat /\ Base >= 2
  BY WordAssumption
<1>2. Half \in Nat /\ Half >= 4
  <2>1. 2 * Base <= Base * Base
    BY <1>1, MulMono
  <2> QED
    BY <1>1, <2>1, WordAssumption, SMT
<1>3. Top \in Nat /\ Top >= 4
  <2>1. 1 * Half <= Base * Half
    BY <1>1, <1>2, MulMono
  <2> QED
    BY <1>1, <1>2, <2>1, WordAssumption, SMT
<1>4. Word \in Nat /\ Word >= 4
  <2>1. 1 * Top <= Base * Top
    BY <1>1, <1>3, MulMono
  <2> QED
    BY <1>1, <1>3, <2>1, SMT DEF Word
<1> QED
  BY <1>1, <1>2, <1>3, <1>4

\* A word whose top byte has fallen out is a word again, with any new byte.
LEMMA ShiftedIn ==
    ASSUME NEW x \in Nat, NEW b \in 0..(Base - 1)
    PROVE  (x % Top) * Base + b \in 0..(Word - 1)
<1>1. x % Top \in Nat /\ (x % Top) + 1 <= Top
  BY DivMod, Parameters, SMT
<1>2. ((x % Top) + 1) * Base <= Top * Base
  BY <1>1, MulMono, Parameters, SMT
<1>3. ((x % Top) + 1) * Base = (x % Top) * Base + Base
  BY <1>1, Parameters, SMT
<1>4. (x % Top) * Base \in Nat
  BY <1>1, Parameters, SMT
<1> QED
  BY <1>2, <1>3, <1>4, Parameters, SMT DEF Word

\* Two words in order, with the same top byte, are in strict order once it
\* has fallen out.
LEMMA Shifting ==
    ASSUME NEW l \in 0..(Word - 1), NEW h \in 0..(Word - 1), l <= h, SameTop(l, h)
    PROVE  /\ Lowered(l) \in 0..(Word - 1)
           /\ Raised(h) \in 0..(Word - 1)
           /\ Lowered(l) < Raised(h)
<1>1. l \in Nat /\ h \in Nat
  BY Parameters, SMT
<1>2. Lowered(l) \in 0..(Word - 1) /\ Raised(h) \in 0..(Word - 1)
  <2>1. 0 \in 0..(Base - 1) /\ Base - 1 \in 0..(Base - 1)
    BY Parameters, SMT
  <2>2. (l % Top) * Base + 0 \in 0..(Word - 1)
    BY <1>1, <2>1, ShiftedIn
  <2>3. (h % Top) * Base + (Base - 1) \in 0..(Word - 1)
    BY <1>1, <2>1, ShiftedIn
  <2>4. l % Top \in Nat
    BY <1>1, DivMod, Parameters, SMT
  <2>5. (l % Top) * Base + 0 = (l % Top) * Base
    BY <2>4, Parameters, SMT
  <2> QED
    BY <2>2, <2>3, <2>5 DEF Lowered, Raised
<1>3. l % Top <= h % Top
  <2> DEFINE q == l \div Top
             r == l % Top
             s == h % Top
  <2>1. q \in Nat /\ r \in Nat /\ q * Top + r = l
    BY <1>1, DivMod, Parameters, SMT
  <2>2. s \in Nat /\ q * Top + s = h
    BY <1>1, DivMod, Parameters, SMT DEF SameTop, TopByte
  <2>3. q * Top \in Nat
    BY <2>1, Parameters, SMT
  <2> HIDE DEF q, r, s
  <2>4. r <= s
    BY <2>1, <2>2, <2>3, <1>1, SMT
  <2> QED
    BY <2>4 DEF r, s
<1>4. l % Top \in Nat /\ h % Top \in Nat
  BY <1>1, DivMod, Parameters, SMT
<1>5. (l % Top) * Base <= (h % Top) * Base
  BY <1>3, <1>4, MulMono, Parameters
<1>6. (l % Top) * Base \in Nat /\ (h % Top) * Base \in Nat
  BY <1>4, Parameters, SMT
<1> QED
  BY <1>2, <1>5, <1>6, Parameters, SMT DEF Lowered, Raised

\* The split of an interval of two values or more leaves a value on each side.
LEMMA MidBetween ==
    ASSUME NEW l \in Nat, NEW h \in Nat, l < h, NEW p \in 1..(Half - 1)
    PROVE  /\ l + ((h - l) \div Half) * p \in Nat
           /\ l <= l + ((h - l) \div Half) * p
           /\ l + ((h - l) \div Half) * p < h
<1> DEFINE q == (h - l) \div Half
           r == (h - l) % Half
<1>1. h - l \in Nat /\ h - l > 0
  BY SMT
<1>2. q \in Nat /\ r \in Nat /\ q * Half + r = h - l
  BY <1>1, DivMod, Parameters, SMT
<1>3. p \in Nat /\ p <= Half - 1 /\ Half - 1 \in Nat
  BY Parameters, SMT
<1> HIDE DEF q, r
<1>4. p * q <= (Half - 1) * q
  BY <1>2, <1>3, MulMono
<1>5. /\ p * q = q * p
      /\ (Half - 1) * q = q * Half - q
      /\ q * p \in Nat /\ q * Half \in Nat
  BY <1>2, <1>3, Parameters, SMT
<1>6. q * p < h - l
  <2>1. CASE q = 0
    <3>1. q * p = 0
      BY <2>1, <1>3, SMT
    <3> QED
      BY <3>1, <1>1, SMT
  <2>2. CASE q > 0
    BY <2>2, <1>1, <1>2, <1>4, <1>5, SMT
  <2> QED
    BY <2>1, <2>2, <1>2, SMT
<1>7. l + q * p \in Nat /\ l <= l + q * p /\ l + q * p < h
  BY <1>5, <1>6, SMT
<1> QED
  BY <1>7 DEF q

\* A probability that learns from a bit stays above none and below a whole.
LEMMA Learning ==
    ASSUME NEW p \in 1..(Half - 1)
    PROVE  /\ p + ((Half - 1 - p) \div Adapt) \in 1..(Half - 1)
           /\ p - (p \div Adapt) \in 1..(Half - 1)
<1>1. Adapt \in Nat /\ Adapt >= 2
  BY ModelAssumption, SMT
<1>2. ASSUME NEW n \in Nat
      PROVE  n \div Adapt \in Nat /\ 2 * (n \div Adapt) <= n
  <2>1. n \div Adapt \in Nat /\ n % Adapt \in Nat /\ (n \div Adapt) * Adapt + (n % Adapt) = n
    BY <1>1, DivMod, SMT
  <2>2. 2 * (n \div Adapt) <= Adapt * (n \div Adapt)
    BY <1>1, <2>1, MulMono, SMT
  <2>3. Adapt * (n \div Adapt) = (n \div Adapt) * Adapt /\ (n \div Adapt) * Adapt \in Nat
    BY <1>1, <2>1, SMT
  <2> QED
    BY <2>1, <2>2, <2>3, SMT
<1>3. p \in Nat /\ Half - 1 - p \in Nat /\ p >= 1 /\ p <= Half - 1
  BY Parameters, SMT
<1>4. /\ (Half - 1 - p) \div Adapt \in Nat
      /\ 2 * ((Half - 1 - p) \div Adapt) <= Half - 1 - p
      /\ p \div Adapt \in Nat
      /\ 2 * (p \div Adapt) <= p
  BY <1>2, <1>3
<1> QED
  BY <1>3, <1>4, Parameters, SMT

-----------------------------------------------------------------------------
(* The inductive invariant. *)

\* The interval is in order, and has two values before every byte and bit.
Ordered ==
    /\ low <= high
    /\ pc \in {"byte", "bit"} => low < high
    /\ mode = "flushed" => pc = "byte"

IInv == TypeOK /\ Ordered

\* Narrowing an interval of two values leaves a word's interval in order.
LEMMA Narrowing ==
    ASSUME IInv, pc = "bit", NEW bit \in {0, 1}, Narrow(bit)
    PROVE  /\ low' \in 0..(Word - 1) /\ high' \in 0..(Word - 1) /\ low' <= high'
           /\ mdl' \in [0..(Contexts - 1) -> 1..(Half - 1)]
           /\ ctx' \in 0..(Contexts - 1)
<1>1. low \in Nat /\ high \in Nat /\ low < high /\ high <= Word - 1
  BY Parameters, SMT DEF IInv, TypeOK, Ordered
<1>2. ctx \in 0..(Contexts - 1) /\ mdl \in [0..(Contexts - 1) -> 1..(Half - 1)]
  BY DEF IInv, TypeOK
<1>3. mdl[ctx] \in 1..(Half - 1)
  BY <1>2
<1>4. mid \in Nat /\ low <= mid /\ mid < high
  BY <1>1, <1>3, MidBetween DEF mid
<1>5. low' \in 0..(Word - 1) /\ high' \in 0..(Word - 1) /\ low' <= high'
  <2> DEFINE m == mid
  <2>1. low' = (IF bit = 1 THEN low ELSE m + 1) /\ high' = (IF bit = 1 THEN m ELSE high)
    BY DEF Narrow
  <2>2. m \in Nat /\ low <= m /\ m < high
    BY <1>4
  <2> HIDE DEF m
  <2> QED
    BY <1>1, <2>1, <2>2, Parameters, SMT
<1>6. mdl' \in [0..(Contexts - 1) -> 1..(Half - 1)]
  <2>1. mdl[ctx] + ((Half - 1 - mdl[ctx]) \div Adapt) \in 1..(Half - 1)
    BY <1>3, Learning
  <2>2. mdl[ctx] - (mdl[ctx] \div Adapt) \in 1..(Half - 1)
    BY <1>3, Learning
  <2> QED
    BY <1>2, <2>1, <2>2 DEF Narrow
<1>7. ctx' \in 0..(Contexts - 1)
  <2>1. 2 * ctx + bit \in Nat /\ Contexts \in Nat /\ Contexts > 0
    BY <1>2, ModelAssumption, SMT
  <2>2. (2 * ctx + bit) % Contexts \in Nat /\ (2 * ctx + bit) % Contexts < Contexts
    BY <2>1, DivMod
  <2> QED
    BY <2>1, <2>2, SMT DEF Narrow
<1> QED
  BY <1>5, <1>6, <1>7

\* Giving up the value for the end of the file leaves two values or more.
LEMMA PassingEnd ==
    ASSUME IInv, pc = "byte", PassEnd
    PROVE  low' \in 0..(Word - 1) /\ high' \in 0..(Word - 1) /\ low' < high'
<1>1. low \in Nat /\ high \in 0..(Word - 1) /\ low < high
  BY Parameters, SMT DEF IInv, TypeOK, Ordered
<1>2. low + 1 \in 0..(Word - 1) /\ low + 1 <= high
  BY <1>1, Parameters, SMT
<1>3. CASE SameTop(low + 1, high)
  BY <1>1, <1>2, <1>3, Shifting DEF PassEnd
<1>4. CASE ~ SameTop(low + 1, high)
  <2>1. low + 1 # high
    BY <1>4 DEF SameTop
  <2> QED
    BY <1>1, <1>2, <1>4, <2>1, SMT DEF PassEnd
<1> QED
  BY <1>3, <1>4

\* An interval whose ends have different top bytes has two values or more.
LEMMA ApartIsStrict ==
    ASSUME IInv, ~ SameTop(low, high)
    PROVE  low < high
<1>1. low # high
  BY DEF SameTop
<1> QED
  BY <1>1, Parameters, SMT DEF IInv, TypeOK, Ordered

\* A byte taken by the decoder is a number, and so is its word.
LEMMA Taking ==
    ASSUME TypeOK
    PROVE  /\ \A n \in Nat \ {0} : Taken(n) \in Nat
           /\ TakeByte => rd' \in Nat /\ cur' \in Nat
<1>1. ASSUME NEW n \in Nat \ {0} PROVE Taken(n) \in Nat
  BY SMT DEF TypeOK, Taken
<1>2. rd + 1 \in Nat \ {0} /\ rd + 1 \in Nat
  BY SMT DEF TypeOK
<1>3. cur % Top \in Nat
  BY DivMod, Parameters, SMT DEF TypeOK
<1>4. Taken(rd + 1) \in Nat
  BY <1>1, <1>2
<1>5. (cur % Top) * Base + Taken(rd + 1) \in Nat
  BY <1>3, <1>4, Parameters, SMT
<1> QED
  BY <1>1, <1>2, <1>5 DEF TakeByte

-----------------------------------------------------------------------------
(* Initial states and steps. *)

\* The interval and the model a coder starts with.
LEMMA Fresh ==
    /\ 0 \in 0..(Word - 1) /\ Word - 1 \in 0..(Word - 1) /\ 0 < Word - 1
    /\ [x \in 0..(Contexts - 1) |-> Half \div 2] \in [0..(Contexts - 1) -> 1..(Half - 1)]
    /\ 0 \in 0..(Contexts - 1)
<1>1. Half \div 2 \in 1..(Half - 1)
  BY Parameters, SMT
<1>2. 0 \in 0..(Contexts - 1)
  BY ModelAssumption, SMT
<1>3. 0 \in 0..(Word - 1) /\ Word - 1 \in 0..(Word - 1) /\ 0 < Word - 1
  BY Parameters, SMT
<1> QED
  BY <1>1, <1>2, <1>3

\* The invariant holds when the coder begins.
LEMMA Initially == Init => IInv
<1> SUFFICES ASSUME Init PROVE IInv
  OBVIOUS
<1>1. low \in 0..(Word - 1) /\ high \in 0..(Word - 1) /\ low < high
  BY Fresh DEF Init
<1>2. low <= high
  BY <1>1, Parameters, SMT
<1>3. mdl \in [0..(Contexts - 1) -> 1..(Half - 1)] /\ ctx \in 0..(Contexts - 1)
  BY Fresh DEF Init
<1>4. input \in Seq(Byte) /\ variant \in {"plain", "2013", "safe"}
  BY InputsAssumption DEF Init, Byte
<1> QED
  BY <1>1, <1>2, <1>3, <1>4 DEF Init, IInv, TypeOK, Ordered

\* One step keeps the invariant: the coder's steps.
LEMMA CoderSteps ==
    ASSUME IInv, EncodeByte \/ EncodeBit \/ EncodeShift \/ EncodeShifted \/ Flush
    PROVE  IInv'
<1> USE DEF IInv
<1>0. \A x \in 0..(Word - 1) : x \in Nat /\ TopByte(x) \in Nat
  BY DivMod, Parameters, SMT DEF TopByte
<1>1. CASE EncodeByte
  <2>1. low' \in 0..(Word - 1) /\ high' \in 0..(Word - 1) /\ low' < high'
    BY <1>1, PassingEnd DEF EncodeByte, TypeOK, Ordered
  <2>2. low' <= high'
    BY <2>1, Parameters, SMT
  <2>3. obuf' \in Seq(Nat)
    <3>1. obuf \in Seq(Nat) /\ TopByte(high) \in Nat
      BY <1>0 DEF TypeOK
    <3>2. Append(obuf, TopByte(high)) \in Seq(Nat)
      BY <3>1, SMT
    <3>3. obuf' = obuf \/ obuf' = Append(obuf, TopByte(high))
      BY <1>1 DEF EncodeByte
    <3> QED
      BY <3>1, <3>2, <3>3
  <2>4. bv' \in Nat
    BY <1>1, Parameters, SMT DEF EncodeByte, TypeOK, Byte
  <2>5. pos' \in Nat /\ weight' \in Nat
    BY <1>1, SMT DEF EncodeByte, TypeOK
  <2> QED
    BY <1>1, <2>1, <2>2, <2>3, <2>4, <2>5
    DEF EncodeByte, TypeOK, Ordered, callVars, decoderVars
<1>2. CASE EncodeBit
  <2>1. bv % 2 \in {0, 1} /\ bv \div 2 \in Nat /\ 2 * weight \in Nat
    BY SMT DEF TypeOK
  <2>2. /\ low' \in 0..(Word - 1) /\ high' \in 0..(Word - 1) /\ low' <= high'
        /\ mdl' \in [0..(Contexts - 1) -> 1..(Half - 1)]
        /\ ctx' \in 0..(Contexts - 1)
    BY <1>2, <2>1, Narrowing DEF EncodeBit
  <2> QED
    BY <1>2, <2>1, <2>2 DEF EncodeBit, TypeOK, Ordered, callVars, decoderVars
<1>3. CASE EncodeShift
  <2>1. low' \in 0..(Word - 1) /\ high' \in 0..(Word - 1) /\ low' < high'
    BY <1>3, Shifting DEF EncodeShift, Shift, TypeOK, Ordered
  <2>2. low' <= high'
    BY <2>1, Parameters, SMT
  <2>3. obuf' \in Seq(Nat)
    BY <1>0, <1>3, SMT DEF EncodeShift, TypeOK
  <2> QED
    BY <1>3, <2>1, <2>2, <2>3
    DEF EncodeShift, Shift, TypeOK, Ordered, callVars, byteVars, decoderVars
<1>4. CASE EncodeShifted
  <2>1. low < high
    BY <1>4, ApartIsStrict DEF EncodeShifted
  <2> QED
    BY <1>4, <2>1
    DEF EncodeShifted, TypeOK, Ordered, callVars, coderVars, byteVars, decoderVars
<1>5. CASE Flush
  <2>1. \A x \in 0..(Word - 1) : BytesOf(x) \in Seq(Nat)
    <3> SUFFICES ASSUME NEW x \in 0..(Word - 1) PROVE BytesOf(x) \in Seq(Nat)
      OBVIOUS
    <3>1. x \in Nat /\ x \div Top \in Nat
      BY <1>0 DEF TopByte
    <3>2. (x \div Half) % Base \in Nat /\ (x \div Base) % Base \in Nat /\ x % Base \in Nat
      BY <3>1, DivMod, Parameters, SMT
    <3> QED
      BY <3>1, <3>2 DEF BytesOf, TopByte
  <2>2. Flushed \in Seq(Nat)
    BY <2>1, SMT DEF Flushed, TypeOK
  <2>3. obuf' \in Seq(Nat)
    BY <1>5, <2>2 DEF Flush, TypeOK
  <2> QED
    BY <1>5, <2>3 DEF Flush, TypeOK, Ordered, callVars, coderVars, byteVars, decoderVars
<1> QED
  BY <1>1, <1>2, <1>3, <1>4, <1>5

\* One step keeps the invariant: the decoder's steps.
LEMMA DecoderSteps ==
    ASSUME IInv,
           BeginDecoding \/ DecodeEnd \/ DecodeByte \/ DecodeBit \/ DecodeShift \/ DecodeShifted
    PROVE  IInv'
<1> USE DEF IInv
<1>1. CASE BeginDecoding
  <2>1. low' \in 0..(Word - 1) /\ high' \in 0..(Word - 1) /\ low' < high'
    BY <1>1, Fresh DEF BeginDecoding
  <2>2. low' <= high'
    BY <2>1, Parameters, SMT
  <2>3. mdl' \in [0..(Contexts - 1) -> 1..(Half - 1)] /\ ctx' \in 0..(Contexts - 1)
    BY <1>1, Fresh DEF BeginDecoding
  <2>4. cur' \in Nat
    <3>1. Taken(1) \in Nat /\ Taken(2) \in Nat /\ Taken(3) \in Nat /\ Taken(4) \in Nat
      BY Taking, SMT
    <3>2. Taken(1) * Top \in Nat /\ Taken(2) * Half \in Nat /\ Taken(3) * Base \in Nat
      BY <3>1, Parameters, SMT
    <3> HIDE DEF IInv
    <3> QED
      BY <1>1, <3>1, <3>2, SMT DEF BeginDecoding
  <2> QED
    BY <1>1, <2>1, <2>2, <2>3, <2>4 DEF BeginDecoding, TypeOK, Ordered, callVars, byteVars
<1>2. CASE DecodeEnd
  BY <1>2 DEF DecodeEnd, Return, TypeOK, Ordered, callVars, coderVars, byteVars
<1>3. CASE DecodeByte
  <2>1. low' \in 0..(Word - 1) /\ high' \in 0..(Word - 1) /\ low' < high'
    BY <1>3, PassingEnd DEF DecodeByte, TypeOK, Ordered
  <2>2. low' <= high'
    BY <2>1, Parameters, SMT
  <2>3. rd' \in Nat /\ cur' \in Nat
    BY <1>3, Taking DEF DecodeByte, TypeOK
  <2>4. mode' \in {"decode", "done"} /\ rc' \in {0, 2}
    BY <1>3 DEF DecodeByte, Return, TypeOK
  <2> QED
    BY <1>3, <2>1, <2>2, <2>3, <2>4 DEF DecodeByte, TypeOK, Ordered, callVars
<1>4. CASE DecodeBit
  <2>1. PICK bit \in {0, 1} : Narrow(bit) /\ bv' = bv + bit * weight
    BY <1>4 DEF DecodeBit
  <2>2. bv' \in Nat /\ 2 * weight \in Nat
    BY <2>1, SMT DEF TypeOK
  <2>3. /\ low' \in 0..(Word - 1) /\ high' \in 0..(Word - 1) /\ low' <= high'
        /\ mdl' \in [0..(Contexts - 1) -> 1..(Half - 1)]
        /\ ctx' \in 0..(Contexts - 1)
    BY <1>4, <2>1, Narrowing DEF DecodeBit
  <2> QED
    BY <1>4, <2>2, <2>3 DEF DecodeBit, TypeOK, Ordered, callVars, decoderVars
<1>5. CASE DecodeShift
  <2>1. low' \in 0..(Word - 1) /\ high' \in 0..(Word - 1) /\ low' < high'
    BY <1>5, Shifting DEF DecodeShift, Shift, TypeOK, Ordered
  <2>2. low' <= high'
    BY <2>1, Parameters, SMT
  <2>3. rd' \in Nat /\ cur' \in Nat
    BY <1>5, Taking DEF DecodeShift
  <2>4. mode' \in {"decode", "done"} /\ rc' \in {0, 2}
    BY <1>5 DEF DecodeShift, Return, TypeOK
  <2> QED
    BY <1>5, <2>1, <2>2, <2>3, <2>4
    DEF DecodeShift, Shift, TypeOK, Ordered, callVars, byteVars
<1>6. CASE DecodeShifted
  <2>1. low < high
    BY <1>6, ApartIsStrict DEF DecodeShifted
  <2>2. output' \in Seq(Nat)
    BY <1>6, SMT DEF DecodeShifted, TypeOK
  <2> QED
    BY <1>6, <2>1, <2>2 DEF DecodeShifted, TypeOK, Ordered, callVars, coderVars, byteVars
<1> QED
  BY <1>1, <1>2, <1>3, <1>4, <1>5, <1>6

-----------------------------------------------------------------------------
(* The theorems. *)

\* The types and the order of the interval hold of every state.
THEOREM Invariance == Spec => []IInv
<1>1. Init => IInv
  BY Initially
<1>2. IInv /\ [Next]_vars => IInv'
  <2> SUFFICES ASSUME IInv, [Next]_vars PROVE IInv'
    OBVIOUS
  <2>1. CASE Next
    <3>1. CASE Finished \/ UNCHANGED vars
      BY <3>1 DEF Finished, vars, callVars, coderVars, byteVars, decoderVars, IInv, TypeOK, Ordered
    <3> QED
      BY <2>1, <3>1, CoderSteps, DecoderSteps DEF Next
  <2>2. CASE UNCHANGED vars
    BY <2>2 DEF vars, callVars, coderVars, byteVars, decoderVars, IInv, TypeOK, Ordered
  <2> QED
    BY <2>1, <2>2
<1> QED
  BY <1>1, <1>2, PTL DEF Spec

\* Every variable of coder and decoder keeps its type: words stay below
\* 1 << 32 with no cut in the arithmetic, probabilities stay above 0.
THEOREM TypeCorrect == Spec => []TypeOK
<1>1. IInv => TypeOK
  BY DEF IInv
<1> QED
  BY <1>1, Invariance, PTL

\* Before every bit of every message, in coder and decoder, the interval can
\* be split: each value of the bit is left at least one word.
THEOREM AlwaysSplittable == Spec => []Splittable
<1>1. IInv => Splittable
  <2> SUFFICES ASSUME IInv PROVE Splittable
    OBVIOUS
  <2>1. low <= high
    BY DEF IInv, Ordered
  <2>2. ASSUME pc \in {"byte", "bit"} PROVE low < high /\ mid < high
    <3>1. low \in Nat /\ high \in Nat /\ low < high
      BY <2>2, Parameters, SMT DEF IInv, TypeOK, Ordered
    <3>2. mdl[ctx] \in 1..(Half - 1)
      BY DEF IInv, TypeOK
    <3> QED
      BY <3>1, <3>2, MidBetween DEF mid
  <2> QED
    BY <2>1, <2>2 DEF Splittable
<1> QED
  BY <1>1, Invariance, PTL

\* The shift takes the top byte off both ends and multiplies what is between
\* them by Base, with the ones below high on top of that.
LEMMA Widening ==
    ASSUME NEW l \in 0..(Word - 1), NEW h \in 0..(Word - 1), l <= h, SameTop(l, h)
    PROVE  Raised(h) - Lowered(l) > h - l
<1> DEFINE q == l \div Top
           r == l % Top
           s == h % Top
<1>1. l \in Nat /\ h \in Nat
  BY Parameters, SMT
<1>2. q \in Nat /\ r \in Nat /\ q * Top + r = l
  BY <1>1, DivMod, Parameters, SMT
<1>3. s \in Nat /\ q * Top + s = h
  BY <1>1, DivMod, Parameters, SMT DEF SameTop, TopByte
<1>4. q * Top \in Nat
  BY <1>2, Parameters, SMT
<1>5. Lowered(l) = r * Base /\ Raised(h) = s * Base + (Base - 1)
  BY DEF Lowered, Raised
<1> HIDE DEF q, r, s
<1>6. PICK d \in Nat : s = r + d
  BY <1>1, <1>2, <1>3, <1>4, SMT
<1>7. h - l = d
  BY <1>1, <1>2, <1>3, <1>4, <1>6, SMT
<1>8. s * Base = r * Base + d * Base
  BY <1>2, <1>6, Parameters, SMT
<1>9. d * 1 <= d * Base
  <2>1. 1 * d <= Base * d
    BY <1>6, MulMono, Parameters, SMT
  <2> QED
    BY <2>1, <1>6, Parameters, SMT
<1>10. r * Base \in Nat /\ d * Base \in Nat
  BY <1>2, <1>6, Parameters, SMT
<1> QED
  BY <1>5, <1>7, <1>8, <1>9, <1>10, Parameters, SMT

\* Every turn of the loops that shift makes the interval wider, so that none
\* of them, of coder or decoder, goes on for ever.
THEOREM EveryShiftWidens == Spec => ShiftWidens
<1>1. IInv /\ [Next]_vars => [pc = "shift" /\ pc' = "shift" => high' - low' > high - low]_vars
  <2> SUFFICES ASSUME IInv, Next, pc = "shift", pc' = "shift", vars' # vars
               PROVE  high' - low' > high - low
    OBVIOUS
  <2>1. EncodeShift \/ DecodeShift
    <3>1. ~ EncodeByte /\ ~ EncodeBit /\ ~ Flush /\ ~ DecodeEnd /\ ~ DecodeByte /\ ~ DecodeBit
      BY DEF EncodeByte, EncodeBit, Flush, DecodeEnd, DecodeByte, DecodeBit
    <3>2. ~ EncodeShifted /\ ~ DecodeShifted
      BY DEF EncodeShifted, DecodeShifted
    <3>3. ~ Finished
      BY DEF Finished
    <3>4. ~ BeginDecoding
      BY DEF BeginDecoding, IInv, TypeOK, Ordered
    <3> QED
      BY <3>1, <3>2, <3>3, <3>4 DEF Next
  <2>2. SameTop(low, high) /\ low' = Lowered(low) /\ high' = Raised(high)
    BY <2>1 DEF EncodeShift, DecodeShift, Shift
  <2> QED
    BY <2>2, Widening DEF IInv, TypeOK, Ordered
<1> QED
  BY <1>1, Invariance, PTL DEF Spec, ShiftWidens

-----------------------------------------------------------------------------
(* What is compressed comes back. *)

-----------------------------------------------------------------------------
(* Words and their bytes. *)

Four(a, b, c, d) == a * Top + b * Half + c * Base + d

\* The word in the four bytes of s from place n on.
Window(s, n) == Four(s[n + 1], s[n + 2], s[n + 3], s[n + 4])

\* A number has one quotient and one remainder.
LEMMA DivUnique ==
    ASSUME NEW q \in Nat, NEW r \in Nat, NEW d \in Nat, r < d
    PROVE  (q * d + r) \div d = q /\ (q * d + r) % d = r
<1> DEFINE n == q * d + r
           p == n \div d
           s == n % d
<1>1. d > 0 /\ q * d \in Nat /\ n \in Nat
  BY SMT
<1>2. p \in Nat /\ s \in Nat /\ s < d /\ p * d + s = n
  BY <1>1, DivMod
<1>3. n = q * d + r
  OBVIOUS
<1> HIDE DEF n, p, s
<1>4. p * d \in Nat
  BY <1>2, SMT
<1>5. ~ p < q
  <2> SUFFICES ASSUME p < q PROVE FALSE
    OBVIOUS
  <2>1. (p + 1) * d <= q * d
    BY <1>2, MulMono, SMT
  <2>2. (p + 1) * d = p * d + d
    BY <1>2, SMT
  <2> QED
    BY <1>1, <1>2, <1>3, <1>4, <2>1, <2>2, SMT
<1>6. ~ q < p
  <2> SUFFICES ASSUME q < p PROVE FALSE
    OBVIOUS
  <2>1. (q + 1) * d <= p * d
    BY <1>2, MulMono, SMT
  <2>2. (q + 1) * d = q * d + d
    BY SMT
  <2> QED
    BY <1>1, <1>2, <1>3, <1>4, <2>1, <2>2, SMT
<1>7. p = q
  BY <1>2, <1>5, <1>6, SMT
<1>8. s = r
  BY <1>1, <1>2, <1>3, <1>7, SMT
<1> QED
  BY <1>7, <1>8 DEF n, p, s

\* A digit above a remainder makes a remainder of the next weight.
LEMMA Digit ==
    ASSUME NEW m \in Nat, NEW b \in Byte, NEW r \in Nat, r < m
    PROVE  b \in Nat /\ b * m \in Nat /\ b * m + r \in Nat /\ b * m + r < Base * m
<1>1. b \in Nat /\ b + 1 <= Base
  BY Parameters, SMT DEF Byte
<1>2. (b + 1) * m <= Base * m
  BY <1>1, MulMono, Parameters, SMT
<1>3. (b + 1) * m = b * m + m /\ b * m \in Nat /\ Base * m \in Nat
  BY <1>1, Parameters, SMT
<1> QED
  BY <1>1, <1>2, <1>3, SMT

\* The digits of a number of four bytes.
LEMMA Digits ==
    ASSUME NEW a \in Byte, NEW b \in Byte, NEW c \in Byte, NEW d \in Byte
    PROVE  /\ Four(a, b, c, d) \in 0..(Word - 1)
           /\ Four(a, b, c, d) \div Top = a
           /\ Four(a, b, c, d) % Top = b * Half + c * Base + d
           /\ BytesOf(Four(a, b, c, d)) = <<a, b, c, d>>
           /\ Four(a, b, c, d) \div Base = a * Half + b * Base + c
<1>1. a \in Nat /\ b \in Nat /\ c \in Nat /\ d \in Nat /\ d < Base /\ c < Base
  BY Parameters, SMT DEF Byte
<1>2. c * Base \in Nat /\ c * Base + d \in Nat /\ c * Base + d < Half
  BY <1>1, Digit, Parameters, WordAssumption
<1>3. b * Half \in Nat /\ b * Half + (c * Base + d) \in Nat /\ b * Half + (c * Base + d) < Top
  BY <1>1, <1>2, Digit, Parameters, WordAssumption
<1>4. /\ a * Top \in Nat /\ a * Top + (b * Half + (c * Base + d)) \in Nat
      /\ a * Top + (b * Half + (c * Base + d)) < Base * Top
  BY <1>1, <1>3, Digit, Parameters
<1> DEFINE x == Four(a, b, c, d)
<1>5. x = a * Top + (b * Half + (c * Base + d))
  BY <1>1, <1>2, <1>3, <1>4, SMT DEF Four
<1>6. Base * Top = Word
  BY Parameters, SMT DEF Word
<1>7. x \in 0..(Word - 1)
  BY <1>4, <1>5, <1>6, Parameters, SMT
<1>8. x \div Top = a /\ x % Top = b * Half + (c * Base + d)
  <2> DEFINE r == b * Half + (c * Base + d)
  <2>1. r \in Nat /\ r < Top /\ x = a * Top + r
    BY <1>3, <1>5
  <2> HIDE DEF r, x
  <2>2. x \div Top = a /\ x % Top = r
    BY <1>1, <2>1, DivUnique, Parameters
  <2> QED
    BY <2>2 DEF r
<1>9. (x \div Half) % Base = b
  <2> DEFINE q == a * Base + b
             r == c * Base + d
  <2>1. q \in Nat /\ a * Base \in Nat
    BY <1>1, Parameters, SMT
  <2>2. q * Half = a * Top + b * Half
    <3>1. (a * Base + b) * Half = (a * Base) * Half + b * Half
      BY <1>1, <2>1, Parameters, SMT
    <3>2. (a * Base) * Half = a * (Base * Half)
      BY <1>1, Parameters, SMT
    <3> QED
      BY <3>1, <3>2, WordAssumption
  <2>3. x = q * Half + r
    BY <1>1, <1>2, <1>3, <1>4, <1>5, <2>2, SMT
  <2>4. r \in Nat /\ r < Half
    BY <1>2
  <2>5. q % Base = b
    BY <1>1, DivUnique, Parameters, Digit DEF Byte
  <2> HIDE DEF q, r, x
  <2>6. x \div Half = q
    BY <2>1, <2>3, <2>4, DivUnique, Parameters
  <2> QED
    BY <2>5, <2>6
<1>10. x \div Base = a * Half + b * Base + c /\ x % Base = d
  <2> DEFINE q == a * Half + b * Base + c
  <2>1. q \in Nat /\ a * Half \in Nat /\ b * Base \in Nat
    BY <1>1, Parameters, SMT
  <2>2. (a * Half) * Base = a * Top /\ (b * Base) * Base = b * Half
    <3>1. (a * Half) * Base = a * (Base * Half) /\ (b * Base) * Base = b * (Base * Base)
      BY <1>1, Parameters, SMT
    <3> QED
      BY <3>1, WordAssumption
  <2>3. q * Base = (a * Half) * Base + (b * Base) * Base + c * Base
    BY <1>1, <2>1, Parameters, SMT
  <2>4. x = q * Base + d
    BY <1>1, <1>2, <1>3, <1>4, <1>5, <2>2, <2>3, SMT
  <2> HIDE DEF q, x
  <2>5. x \div Base = q /\ x % Base = d
    BY <1>1, <2>1, <2>4, DivUnique, Parameters
  <2> QED
    BY <2>5 DEF q
<1>11. (x \div Base) % Base = c
  <2> DEFINE p == a * Base + b
  <2>1. p \in Nat /\ a * Base \in Nat
    BY <1>1, Parameters, SMT
  <2>2. p * Base = a * Half + b * Base
    <3>1. (a * Base + b) * Base = (a * Base) * Base + b * Base
      BY <1>1, <2>1, Parameters, SMT
    <3>2. (a * Base) * Base = a * (Base * Base)
      BY <1>1, Parameters, SMT
    <3> QED
      BY <3>1, <3>2, WordAssumption
  <2>3. (p * Base + c) % Base = c
    BY <1>1, <2>1, DivUnique, Parameters
  <2> QED
    BY <1>10, <2>2, <2>3
<1>12. b * Half + (c * Base + d) = b * Half + c * Base + d
  BY <1>1, <1>2, <1>3, SMT
<1> HIDE DEF x
<1>13. BytesOf(x) = <<a, b, c, d>>
  BY <1>8, <1>9, <1>10, <1>11 DEF BytesOf, TopByte
<1> QED
  BY <1>7, <1>8, <1>10, <1>12, <1>13 DEF x

\* Every word is a number of four bytes.
LEMMA FourBytes ==
    ASSUME NEW x \in 0..(Word - 1)
    PROVE  \E a, b, c, d \in Byte : x = Four(a, b, c, d)
<1> DEFINE p == x \div Base
           d == x % Base
           q == p \div Base
           c == p % Base
           a == q \div Base
           b == q % Base
<1>1. x \in Nat /\ x < Word
  BY Parameters, SMT
<1>2. p \in Nat /\ d \in Nat /\ d < Base /\ p * Base + d = x
  BY <1>1, DivMod, Parameters, SMT
<1>3. q \in Nat /\ c \in Nat /\ c < Base /\ q * Base + c = p
  BY <1>2, DivMod, Parameters, SMT
<1>4. a \in Nat /\ b \in Nat /\ b < Base /\ a * Base + b = q
  BY <1>3, DivMod, Parameters, SMT
<1> HIDE DEF a, b, c, d, p, q
<1>5. x = Four(a, b, c, d)
  <2>1. q * Base = a * Half + b * Base
    <3>1. (a * Base + b) * Base = (a * Base) * Base + b * Base
      BY <1>4, Parameters, SMT
    <3>2. (a * Base) * Base = a * (Base * Base)
      BY <1>4, Parameters, SMT
    <3> QED
      BY <1>4, <3>1, <3>2, WordAssumption
  <2>2. p * Base = a * Top + b * Half + c * Base
    <3>1. (a * Half + b * Base + c) * Base = (a * Half) * Base + (b * Base) * Base + c * Base
      BY <1>3, <1>4, Parameters, SMT
    <3>2. (a * Half) * Base = a * (Base * Half) /\ (b * Base) * Base = b * (Base * Base)
      BY <1>4, Parameters, SMT
    <3> QED
      BY <1>3, <2>1, <3>1, <3>2, WordAssumption
  <2> QED
    BY <1>2, <2>2 DEF Four
<1>6. a < Base
  <2> SUFFICES ASSUME Base <= a PROVE FALSE
    BY <1>4, Parameters, SMT
  <2>1. Base * Top <= a * Top
    BY <1>4, MulMono, Parameters
  <2>2. Base * Top = Word
    BY Parameters, SMT DEF Word
  <2>3. a * Top \in Nat /\ b * Half \in Nat /\ c * Base \in Nat
    BY <1>3, <1>4, Parameters, SMT
  <2> QED
    BY <1>1, <1>2, <1>5, <2>1, <2>2, <2>3, Parameters, SMT DEF Four
<1>7. a \in Byte /\ b \in Byte /\ c \in Byte /\ d \in Byte
  BY <1>2, <1>3, <1>4, <1>6, Parameters, SMT DEF Byte
<1> QED
  BY <1>5, <1>7\* The elements of a concatenation.
LEMMA Behind ==
    ASSUME NEW s \in Seq(Byte), NEW t \in Seq(Byte)
    PROVE  /\ s \o t \in Seq(Byte) /\ Len(s \o t) = Len(s) + Len(t)
           /\ \A j \in 1..Len(s) : (s \o t)[j] = s[j]
           /\ \A j \in 1..Len(t) : (s \o t)[Len(s) + j] = t[j]
<1>1. /\ s \o t \in Seq(Byte) /\ Len(s \o t) = Len(s) + Len(t)
      /\ \A i \in 1..(Len(s) + Len(t)) :
            (s \o t)[i] = IF i <= Len(s) THEN s[i] ELSE t[i - Len(s)]
  BY ConcatProperties
<1>2. Len(s) \in Nat /\ Len(t) \in Nat
  BY LenProperties
<1>3. ASSUME NEW j \in 1..Len(s) PROVE (s \o t)[j] = s[j]
  <2>1. j \in 1..(Len(s) + Len(t)) /\ j <= Len(s)
    BY <1>2, SMT
  <2> QED
    BY <1>1, <2>1
<1>4. ASSUME NEW j \in 1..Len(t) PROVE (s \o t)[Len(s) + j] = t[j]
  <2>1. Len(s) + j \in 1..(Len(s) + Len(t)) /\ ~ Len(s) + j <= Len(s) /\ (Len(s) + j) - Len(s) = j
    BY <1>2, SMT
  <2> QED
    BY <1>1, <2>1
<1> QED
  BY <1>1, <1>3, <1>4

\* The bytes of a word put behind s make a window of that word there.
LEMMA WordBehind ==
    ASSUME NEW x \in 0..(Word - 1), NEW s \in Seq(Byte)
    PROVE  /\ BytesOf(x) \in Seq(Byte) /\ Len(BytesOf(x)) = 4
           /\ Window(s \o BytesOf(x), Len(s)) = x
<1>1. PICK a, b, c, d \in Byte : x = Four(a, b, c, d)
  BY FourBytes
<1>2. BytesOf(x) = <<a, b, c, d>>
  BY <1>1, Digits
<1>3. BytesOf(x) \in Seq(Byte) /\ Len(BytesOf(x)) = 4
  BY <1>2
<1>4. Len(s) \in Nat
  BY LenProperties
<1>5. \A j \in 1..4 : (s \o BytesOf(x))[Len(s) + j] = BytesOf(x)[j]
  <2>1. \A j \in 1..Len(BytesOf(x)) : (s \o BytesOf(x))[Len(s) + j] = BytesOf(x)[j]
    BY <1>3, Behind
  <2> QED
    BY <1>3, <2>1
<1>6. Window(s \o BytesOf(x), Len(s)) = Four(a, b, c, d)
  <2>1. /\ (s \o BytesOf(x))[Len(s) + 1] = a
        /\ (s \o BytesOf(x))[Len(s) + 2] = b
        /\ (s \o BytesOf(x))[Len(s) + 3] = c
        /\ (s \o BytesOf(x))[Len(s) + 4] = d
    BY <1>2, <1>5
  <2> QED
    BY <2>1 DEF Window
<1> QED
  BY <1>1, <1>3, <1>6

\* A word of a shifted interval, put behind the byte that was shifted out,
\* is a word of the interval from before, as far as its bytes go.
LEMMA ShiftedBack ==
    ASSUME NEW l \in 0..(Word - 1), NEW h \in 0..(Word - 1), l <= h, SameTop(l, h),
           NEW w \in 0..(Word - 1), Lowered(l) <= w, w <= Raised(h)
    PROVE  \E v \in l..h : \A s \in Seq(Byte) : \A n \in 0..Len(s) :
              Window(Append(s, TopByte(h)) \o BytesOf(w), n) = Window(s \o BytesOf(v), n)
<1>0. l \in Nat /\ h \in Nat /\ w \in Nat /\ l < Word /\ h < Word
  BY Parameters, SMT
<1> DEFINE t == TopByte(h)
<1>1. t \in Nat /\ l % Top \in Nat /\ h % Top \in Nat
      /\ t * Top + (l % Top) = l /\ t * Top + (h % Top) = h
  BY <1>0, DivMod, Parameters, SMT DEF SameTop, TopByte
<1>2. t * Top \in Nat
  BY <1>1, Parameters, SMT
<1> HIDE DEF t
<1>3. t \in Byte
  <2> SUFFICES ASSUME Base <= t PROVE FALSE
    BY <1>1, Parameters, SMT DEF Byte
  <2>1. Base * Top <= t * Top
    BY <1>1, MulMono, Parameters
  <2>2. Base * Top = Word
    BY Parameters, SMT DEF Word
  <2> DEFINE r == h % Top
  <2>3. r \in Nat /\ t * Top + r = h
    BY <1>1
  <2> HIDE DEF r
  <2> QED
    BY <1>0, <1>2, <2>1, <2>2, <2>3, Parameters, SMT
<1>4. PICK a, b, c, d \in Byte : w = Four(a, b, c, d)
  BY FourBytes
<1> DEFINE q == w \div Base
           v == Four(t, a, b, c)
<1>5. q \in Nat /\ w < q * Base + Base /\ q * Base <= w /\ q * Base \in Nat
  <2>1. q \in Nat /\ w % Base \in Nat /\ w % Base < Base /\ q * Base + (w % Base) = w
    BY <1>0, DivMod, Parameters, SMT
  <2>2. q * Base \in Nat
    BY <2>1, Parameters, SMT
  <2> HIDE DEF q
  <2> QED
    BY <1>0, <2>1, <2>2, Parameters, SMT
<1>6. q = a * Half + b * Base + c
  BY <1>4, Digits
<1>7. v = t * Top + q
  <2>1. t \in Nat /\ a \in Nat /\ b \in Nat /\ c \in Nat
    BY <1>1, Parameters, SMT DEF Byte
  <2>2. a * Half \in Nat /\ b * Base \in Nat
    BY <2>1, Parameters, SMT
  <2>3. v = t * Top + a * Half + b * Base + c
    BY DEF Four
  <2> HIDE DEF v, q
  <2> QED
    BY <1>2, <1>6, <2>1, <2>2, <2>3, SMT
<1>8. l % Top <= q
  <2> DEFINE r == l % Top
  <2> SUFFICES ASSUME ~ r <= q PROVE FALSE
    OBVIOUS
  <2>1. r \in Nat /\ r * Base <= w
    BY <1>1 DEF Lowered
  <2> HIDE DEF r, q
  <2>2. (q + 1) * Base <= r * Base
    BY <1>5, <2>1, MulMono, Parameters, SMT
  <2>3. (q + 1) * Base = q * Base + Base
    BY <1>5, Parameters, SMT
  <2>4. r * Base \in Nat
    BY <2>1, Parameters, SMT
  <2> QED
    BY <1>0, <1>5, <2>1, <2>2, <2>3, <2>4, Parameters, SMT
<1>9. q <= h % Top
  <2> DEFINE r == h % Top
  <2> SUFFICES ASSUME ~ q <= r PROVE FALSE
    OBVIOUS
  <2>1. r \in Nat /\ w <= r * Base + (Base - 1)
    BY <1>1 DEF Raised
  <2> HIDE DEF r, q
  <2>2. (r + 1) * Base <= q * Base
    BY <1>5, <2>1, MulMono, Parameters, SMT
  <2>3. (r + 1) * Base = r * Base + Base
    BY <2>1, Parameters, SMT
  <2>4. r * Base \in Nat
    BY <2>1, Parameters, SMT
  <2> QED
    BY <1>0, <1>5, <2>1, <2>2, <2>3, <2>4, Parameters, SMT
<1>10. v \in l..h
  <2> DEFINE r1 == l % Top
             r2 == h % Top
  <2>1. r1 \in Nat /\ r2 \in Nat /\ t * Top + r1 = l /\ t * Top + r2 = h /\ r1 <= q /\ q <= r2
    BY <1>1, <1>8, <1>9
  <2> HIDE DEF r1, r2, q, v
  <2> QED
    BY <1>2, <1>5, <1>7, <2>1, SMT
<1>11. ASSUME NEW s \in Seq(Byte), NEW n \in 0..Len(s)
       PROVE  Window(Append(s, t) \o BytesOf(w), n) = Window(s \o BytesOf(v), n)
  <2>0. \A e, f, g, i \in Byte : BytesOf(Four(e, f, g, i)) = <<e, f, g, i>>
    BY Digits
  <2>1. BytesOf(w) = <<a, b, c, d>> /\ BytesOf(v) = <<t, a, b, c>>
    BY <1>3, <1>4, <2>0, SMTT(60)
  <2> HIDE DEF v
  <2>2. BytesOf(w) \in Seq(Byte) /\ BytesOf(v) \in Seq(Byte)
    BY <1>3, <2>1
  <2>3. Append(s, t) \in Seq(Byte) /\ Len(Append(s, t)) = Len(s) + 1 /\ Len(s) \in Nat
    BY <1>3, AppendProperties, LenProperties
  <2>4. /\ \A j \in 1..(Len(s) + 1) :
             (Append(s, t) \o BytesOf(w))[j] = Append(s, t)[j]
        /\ \A j \in 1..Len(s) : Append(s, t)[j] = s[j] /\ (s \o BytesOf(v))[j] = s[j]
        /\ Append(s, t)[Len(s) + 1] = t
    <3>1. /\ \A j \in 1..Len(s) : Append(s, t)[j] = s[j]
          /\ Append(s, t)[Len(s) + 1] = t
      BY <1>3, AppendProperties
    <3> QED
      BY <2>2, <2>3, <3>1, Behind
  <2>5. /\ (Append(s, t) \o BytesOf(w))[Len(s) + 2] = a
        /\ (Append(s, t) \o BytesOf(w))[Len(s) + 3] = b
        /\ (Append(s, t) \o BytesOf(w))[Len(s) + 4] = c
    <3>0. Len(BytesOf(w)) = 4
      BY <2>1
    <3>1. \A j \in 1..4 : (Append(s, t) \o BytesOf(w))[(Len(s) + 1) + j] = BytesOf(w)[j]
      <4>1. \A j \in 1..Len(BytesOf(w)) :
              (Append(s, t) \o BytesOf(w))[Len(Append(s, t)) + j] = BytesOf(w)[j]
        BY <2>2, <2>3, Behind
      <4> QED
        BY <2>3, <3>0, <4>1
    <3>2. Len(s) + 2 = (Len(s) + 1) + 1 /\ Len(s) + 3 = (Len(s) + 1) + 2
          /\ Len(s) + 4 = (Len(s) + 1) + 3
      BY <2>3, SMT
    <3> QED
      BY <2>1, <3>1, <3>2
  <2>6. /\ (s \o BytesOf(v))[Len(s) + 1] = t
        /\ (s \o BytesOf(v))[Len(s) + 2] = a
        /\ (s \o BytesOf(v))[Len(s) + 3] = b
        /\ (s \o BytesOf(v))[Len(s) + 4] = c
    <3>0. Len(BytesOf(v)) = 4
      BY <2>1
    <3>1. \A j \in 1..4 : (s \o BytesOf(v))[Len(s) + j] = BytesOf(v)[j]
      <4>1. \A j \in 1..Len(BytesOf(v)) : (s \o BytesOf(v))[Len(s) + j] = BytesOf(v)[j]
        BY <2>2, Behind
      <4> QED
        BY <3>0, <4>1
    <3> QED
      BY <2>1, <3>1
  <2>7. \A j \in (n + 1)..(n + 4) :
            (Append(s, t) \o BytesOf(w))[j] = (s \o BytesOf(v))[j]
    <3> SUFFICES ASSUME NEW j \in (n + 1)..(n + 4)
                 PROVE  (Append(s, t) \o BytesOf(w))[j] = (s \o BytesOf(v))[j]
      OBVIOUS
    <3>1. j \in 1..Len(s) \/ j = Len(s) + 1 \/ j = Len(s) + 2 \/ j = Len(s) + 3 \/ j = Len(s) + 4
      BY <2>3, SMT
    <3>2. CASE j \in 1..Len(s)
      <4>1. j \in 1..(Len(s) + 1)
        BY <2>3, <3>2, SMT
      <4> QED
        BY <2>4, <3>2, <4>1
    <3>3. CASE j = Len(s) + 1
      <4>1. j \in 1..(Len(s) + 1)
        BY <2>3, <3>3, SMT
      <4> QED
        BY <2>4, <2>6, <3>3, <4>1
    <3> QED
      BY <2>5, <2>6, <3>1, <3>2, <3>3
  <2>8. n \in Nat
    BY <2>3, SMT
  <2>9. n + 1 \in (n + 1)..(n + 4) /\ n + 2 \in (n + 1)..(n + 4) /\ n + 3 \in (n + 1)..(n + 4)
        /\ n + 4 \in (n + 1)..(n + 4)
    BY <2>8, SMT
  <2> QED
    BY <2>7, <2>9 DEF Window
<1> HIDE DEF v
<1> QED
  BY <1>10, <1>11 DEF t

\* A window is a word, and the next one is the word with a byte shifted in.
LEMMA NextWindow ==
    ASSUME NEW s \in Seq(Byte), NEW n \in Nat, n + 4 <= Len(s)
    PROVE  /\ Window(s, n) \in 0..(Word - 1)
           /\ n + 5 <= Len(s) => Window(s, n + 1) = (Window(s, n) % Top) * Base + s[n + 5]
<1>1. Len(s) \in Nat
  BY LenProperties
<1>2. s[n + 1] \in Byte /\ s[n + 2] \in Byte /\ s[n + 3] \in Byte /\ s[n + 4] \in Byte
  <2>1. n + 1 \in 1..Len(s) /\ n + 2 \in 1..Len(s) /\ n + 3 \in 1..Len(s) /\ n + 4 \in 1..Len(s)
    BY <1>1, SMT
  <2> QED
    BY <2>1, ElementOfSeq
<1>3. Window(s, n) \in 0..(Word - 1)
  BY <1>2, Digits DEF Window
<1>4. ASSUME n + 5 <= Len(s)
      PROVE  Window(s, n + 1) = (Window(s, n) % Top) * Base + s[n + 5]
  <2> DEFINE a == s[n + 1]
             b == s[n + 2]
             c == s[n + 3]
             d == s[n + 4]
             e == s[n + 5]
  <2>1. n + 5 \in 1..Len(s)
    BY <1>1, <1>4, SMT
  <2>2. e \in Byte
    BY <2>1, ElementOfSeq
  <2>0. \A p, q, r, t \in Byte : Four(p, q, r, t) % Top = q * Half + r * Base + t
    BY Digits
  <2>3. Window(s, n) % Top = b * Half + c * Base + d
    BY <1>2, <2>0 DEF Window
  <2>4. Window(s, n + 1) = Four(b, c, d, e)
    <3>1. (n + 1) + 1 = n + 2 /\ (n + 1) + 2 = n + 3 /\ (n + 1) + 3 = n + 4 /\ (n + 1) + 4 = n + 5
      BY SMT
    <3> QED
      BY <3>1 DEF Window
  <2>5. b \in Nat /\ c \in Nat /\ d \in Nat /\ e \in Nat
    BY <1>2, <2>2, Parameters, SMT DEF Byte
  <2> HIDE DEF a, b, c, d, e
  <2>6. (b * Half + c * Base + d) * Base = b * Top + c * Half + d * Base
    <3>1. (b * Half + c * Base + d) * Base = (b * Half) * Base + (c * Base) * Base + d * Base
      BY <2>5, Parameters, SMT
    <3>2. (b * Half) * Base = b * (Base * Half) /\ (c * Base) * Base = c * (Base * Base)
      BY <2>5, Parameters, SMT
    <3> QED
      BY <3>1, <3>2, WordAssumption
  <2>7. Window(s, n + 1) = (Window(s, n) % Top) * Base + e
    BY <2>3, <2>4, <2>6 DEF Four
  <2> QED
    BY <2>7 DEF e
<1> QED
  BY <1>3, <1>4
-----------------------------------------------------------------------------
(* The trail of the coder. *)

Model == [0..(Contexts - 1) -> 1..(Half - 1)]
Point == [pc : {"byte", "bit", "shift"}, low : 0..(Word - 1), high : 0..(Word - 1),
          mdl : Model, ctx : 0..(Contexts - 1), bv : Nat, weight : Nat, pos : Nat, n : Nat]

Start == [pc |-> "byte", low |-> 0, high |-> Word - 1,
          mdl |-> [x \in 0..(Contexts - 1) |-> Half \div 2], ctx |-> 0,
          bv |-> 0, weight |-> 1, pos |-> 0, n |-> 0]

\* Where the coder is.
Here == [pc |-> pc, low |-> low, high |-> high, mdl |-> mdl, ctx |-> ctx,
         bv |-> bv, weight |-> weight, pos |-> pos, n |-> Len(obuf)]

MidOf(a) == a.low + ((a.high - a.low) \div Half) * a.mdl[a.ctx]

\* The moves of the coder from a point to the next.
ByteMove(a, b) ==
    /\ a.pc = "byte" /\ a.pos < Len(input)
    /\ b.pc = "bit" /\ b.bv = input[a.pos + 1] /\ b.weight = 1 /\ b.pos = a.pos + 1
    /\ b.mdl = a.mdl /\ b.ctx = a.ctx
    /\ IF variant # "safe" THEN b.low = a.low /\ b.high = a.high /\ b.n = a.n
       ELSE IF SameTop(a.low + 1, a.high)
       THEN b.low = Lowered(a.low + 1) /\ b.high = Raised(a.high) /\ b.n = a.n + 1
       ELSE b.low = a.low + 1 /\ b.high = a.high /\ b.n = a.n

NarrowMove(a, b, bit) ==
    /\ b.low = (IF bit = 1 THEN a.low ELSE MidOf(a) + 1)
    /\ b.high = (IF bit = 1 THEN MidOf(a) ELSE a.high)
    /\ b.mdl = [a.mdl EXCEPT ![a.ctx] = IF bit = 1 THEN @ + ((Half - 1 - @) \div Adapt)
                                        ELSE @ - (@ \div Adapt)]
    /\ b.ctx = (2 * a.ctx + bit) % Contexts

BitMove(a, b) ==
    /\ a.pc = "bit" /\ b.pc = "shift" /\ NarrowMove(a, b, a.bv % 2)
    /\ b.bv = a.bv \div 2 /\ b.weight = 2 * a.weight /\ b.pos = a.pos /\ b.n = a.n

ShiftMove(a, b) ==
    /\ a.pc = "shift" /\ SameTop(a.low, a.high) /\ b.pc = "shift"
    /\ b.low = Lowered(a.low) /\ b.high = Raised(a.high) /\ b.n = a.n + 1
    /\ b.mdl = a.mdl /\ b.ctx = a.ctx /\ b.bv = a.bv /\ b.weight = a.weight /\ b.pos = a.pos

ShiftedMove(a, b) ==
    /\ a.pc = "shift" /\ ~ SameTop(a.low, a.high)
    /\ b.pc = (IF a.weight = Base THEN "byte" ELSE "bit")
    /\ b.low = a.low /\ b.high = a.high /\ b.n = a.n
    /\ b.mdl = a.mdl /\ b.ctx = a.ctx /\ b.bv = a.bv /\ b.weight = a.weight /\ b.pos = a.pos

Move(a, b) == ByteMove(a, b) \/ BitMove(a, b) \/ ShiftMove(a, b) \/ ShiftedMove(a, b)

Trail(T, N) ==
    /\ T[0] = Start
    /\ \A j \in 0..(N - 1) : Move(T[j], T[j + 1])
    /\ \A j \in 0..N : T[j].n <= T[N].n

\* The word v is one the decoder may hold at the point a: the safe variant
\* gives up the lowest value of the interval before a byte.
Fits(a, last, v) ==
    /\ a.low <= v /\ v <= a.high
    /\ variant = "safe" /\ a.pc = "byte" /\ ~ last => a.low < v

\* Whatever word of its interval the coder ends in, its bytes behind those
\* already written give a word that fits at every point of the trail.
Leaves(T, N) ==
    \A j \in 0..N : \A w \in low..high : Fits(T[j], j = N, Window(obuf \o BytesOf(w), T[j].n))

\* The output of a coder that has ended.
EndBytes == IF variant = "safe" THEN 5 ELSE 4
Left(T, N) ==
    /\ T[N].pc = "byte" /\ T[N].pos = Len(input)
    /\ Len(obuf) = T[N].n + EndBytes
    /\ \A j \in 0..N : Fits(T[j], j = N, Window(obuf, T[j].n))
    /\ variant = "safe" => Window(obuf, T[N].n) = T[N].low

\* The decoder is where the coder was at the point a.
Follows(a) ==
    /\ pc = a.pc /\ low = a.low /\ high = a.high /\ mdl = a.mdl /\ ctx = a.ctx
    /\ rd = a.n + 4 /\ cur = Window(obuf, a.n)
    /\ a.pos <= Len(input)
    /\ Len(output) = (IF a.pc = "byte" THEN a.pos ELSE a.pos - 1)
    /\ \A k \in DOMAIN output : output[k] = input[k]
    /\ a.pc # "byte" => /\ a.pos >= 1 /\ weight = a.weight
                        /\ bv + a.bv * a.weight = input[a.pos]

Retraces ==
    /\ obuf \in Seq(Byte)
    /\ mode \in {"encode", "flushed"} => output = <<>> /\ rd = 0
    /\ mode # "done" => rc = 0
    /\ mode = "encode" =>
         \E N \in Nat : \E T \in [0..N -> Point] : Trail(T, N) /\ T[N] = Here /\ Leaves(T, N)
    /\ mode \in {"flushed", "decode"} =>
         \E N \in Nat : \E T \in [0..N -> Point] :
            /\ Trail(T, N) /\ Left(T, N)
            /\ mode = "decode" => \E k \in 0..N : Follows(T[k])
    /\ mode = "done" =>
         /\ output = input /\ rc = 0
         /\ rd <= Len(obuf) /\ (variant # "safe" => rd = Len(obuf))

RInv == IInv /\ Retraces

\* Where the coder is, is a point.
LEMMA HereIsPoint == TypeOK => Here \in Point
<1> SUFFICES ASSUME TypeOK PROVE Here \in Point
  OBVIOUS
<1>1. Len(obuf) \in Nat
  BY LenProperties DEF TypeOK
<1> QED
  BY <1>1 DEF TypeOK, Here, Point, Model

\* One more move of the coder makes the trail longer, if every word of the
\* interval after it comes from a word of the interval before.
LEMMA Extending ==
    ASSUME IInv, IInv', obuf \in Seq(Byte), obuf' \in Seq(Byte), UNCHANGED callVars,
           Len(obuf) <= Len(obuf'), Move(Here, Here'),
           \A w \in low'..high' : \E v \in low..high :
              /\ Fits(Here, FALSE, v)
              /\ \A n \in 0..Len(obuf) :
                    Window(obuf' \o BytesOf(w), n) = Window(obuf \o BytesOf(v), n),
           NEW N \in Nat, NEW T \in [0..N -> Point],
           Trail(T, N), T[N] = Here, Leaves(T, N)
    PROVE  \E M \in Nat : \E U \in [0..M -> Point] :
              Trail(U, M)' /\ U[M] = Here' /\ Leaves(U, M)'
<1>a. PICK M \in Nat : M = N + 1
  OBVIOUS
<1>0. N \in 0..N /\ N \in 0..M /\ M \in 0..M /\ 0 \in 0..N
  BY <1>a, SMT
<1>1. Here \in Point /\ Here' \in Point
  BY HereIsPoint DEF IInv
<1>2. PICK U \in [0..M -> Point] : (\A j \in 0..N : U[j] = T[j]) /\ U[M] = Here'
  <2> DEFINE F == [j \in 0..M |-> IF j <= N THEN T[j] ELSE Here']
  <2>1. F \in [0..M -> Point]
    <3> SUFFICES ASSUME NEW j \in 0..M PROVE (IF j <= N THEN T[j] ELSE Here') \in Point
      OBVIOUS
    <3>1. j <= N => j \in 0..N
      BY SMT
    <3> QED
      BY <1>1, <3>1
  <2>2. \A j \in 0..N : j \in 0..M /\ j <= N
    BY <1>a, SMT
  <2>3. ~ M <= N
    BY <1>a, SMT
  <2>4. (\A j \in 0..N : F[j] = T[j]) /\ F[M] = Here'
    BY <1>0, <2>2, <2>3
  <2> QED
    BY <2>1, <2>4
<1>3. /\ \A j \in 0..N : U[j] = T[j]
      /\ U[M] = Here'
  BY <1>2
<1>4. Here.n = Len(obuf) /\ Here'.n = Len(obuf') /\ Here.n \in Nat /\ Here'.n \in Nat
  <2>1. Len(obuf) \in Nat /\ Len(obuf') \in Nat
    BY LenProperties
  <2> QED
    BY <2>1 DEF Here
<1>5. \A a, b : Move(a, b) => Move(a, b)'
  BY DEF Move, ByteMove, BitMove, ShiftMove, ShiftedMove, NarrowMove, MidOf, callVars
<1>6. Trail(U, M)'
  <2>1. U[0] = Start
    BY <1>0, <1>3 DEF Trail
  <2>2. ASSUME NEW j \in 0..(M - 1)
        PROVE  Move(U[j], U[j + 1])'
    <3>1. CASE j = N
      <4>1. U[j] = Here /\ U[j + 1] = Here'
        BY <1>a, <1>0, <1>3, <3>1
      <4>2. Move(U[j], U[j + 1])
        BY <4>1
      <4> QED
        BY <1>5, <4>2
    <3>2. CASE j # N
      <4>1. j \in 0..(N - 1) /\ j \in 0..N /\ j + 1 \in 0..N
        BY <1>a, <3>2, SMT
      <4>2. U[j] = T[j] /\ U[j + 1] = T[j + 1]
        BY <1>3, <4>1
      <4>3. Move(U[j], U[j + 1])
        BY <4>1, <4>2 DEF Trail
      <4> QED
        BY <1>5, <4>3
    <3> QED
      BY <3>1, <3>2
  <2>3. ASSUME NEW j \in 0..M PROVE U[j].n <= U[M].n
    <3>1. CASE j = M
      BY <1>3, <1>4, <3>1, SMT
    <3>2. CASE j # M
      <4>1. j \in 0..N
        BY <1>a, <3>2, SMT
      <4>2. U[j].n <= Here.n /\ U[j].n \in Nat
        BY <1>3, <4>1 DEF Trail, Point
      <4> QED
        BY <1>3, <1>4, <4>2, SMT
    <3> QED
      BY <3>1, <3>2
  <2> QED
    BY <2>1, <2>2, <2>3 DEF Trail
<1>7. Leaves(U, M)'
  <2> SUFFICES ASSUME NEW j \in 0..M, NEW w \in low'..high'
               PROVE  Fits(U[j], j = M, Window(obuf' \o BytesOf(w), U[j].n))
    BY DEF Leaves, Fits, callVars, Window
  <2>1. w \in 0..(Word - 1)
    BY Parameters, SMT DEF IInv, TypeOK
  <2>2. CASE j = M
    <3>1. Window(obuf' \o BytesOf(w), U[j].n) = w
      BY <1>3, <1>4, <2>1, <2>2, WordBehind
    <3>2. Here'.low = low' /\ Here'.high = high' /\ low' \in Nat /\ high' \in Nat
      BY Parameters, SMT DEF Here, IInv, TypeOK
    <3>3. low' <= w /\ w <= high'
      BY <3>2, SMT
    <3>4. Fits(U[j], j = M, w)
      BY <1>3, <2>2, <3>2, <3>3 DEF Fits
    <3> QED
      BY <3>1, <3>4
  <2>3. CASE j # M
    <3>1. j \in 0..N
      BY <1>a, <2>3, SMT
    <3>2. PICK v \in low..high :
             /\ Fits(Here, FALSE, v)
             /\ \A n \in 0..Len(obuf) :
                   Window(obuf' \o BytesOf(w), n) = Window(obuf \o BytesOf(v), n)
      OBVIOUS
    <3>3. U[j] = T[j] /\ T[j].n \in Nat /\ T[j].n <= Here.n
      BY <1>3, <3>1 DEF Trail, Point
    <3>4. U[j].n \in 0..Len(obuf)
      BY <1>4, <3>3, SMT
    <3>5. Window(obuf' \o BytesOf(w), U[j].n) = Window(obuf \o BytesOf(v), T[j].n)
      BY <3>2, <3>3, <3>4
    <3>6. Fits(T[j], FALSE, Window(obuf \o BytesOf(v), T[j].n))
      <4>1. CASE j = N
        <5>1. v \in 0..(Word - 1)
          BY Parameters, SMT DEF IInv, TypeOK
        <5>2. Window(obuf \o BytesOf(v), T[j].n) = v
          BY <1>4, <4>1, <5>1, WordBehind
        <5> QED
          BY <3>2, <4>1, <5>2
      <4>2. CASE j # N
        BY <3>1, <4>2 DEF Leaves, Fits
      <4> QED
        BY <4>1, <4>2
    <3> QED
      BY <2>3, <3>3, <3>5, <3>6 DEF Fits
  <2> QED
    BY <2>2, <2>3
<1> QED
  BY <1>0, <1>2, <1>3, <1>6, <1>7
\* A move that writes nothing and leaves the coder in its interval.
LEMMA BackAsItIs ==
    ASSUME IInv, IInv', obuf' = obuf, low <= low', high' <= high,
           variant = "safe" /\ pc = "byte" => low < low'
    PROVE  \A w \in low'..high' : \E v \in low..high :
              /\ Fits(Here, FALSE, v)
              /\ \A n \in 0..Len(obuf) :
                    Window(obuf' \o BytesOf(w), n) = Window(obuf \o BytesOf(v), n)
<1> SUFFICES ASSUME NEW w \in low'..high'
             PROVE  w \in low..high /\ Fits(Here, FALSE, w)
  OBVIOUS
<1>1. low \in Nat /\ high \in Nat /\ low' \in Nat /\ high' \in Nat
  BY Parameters, SMT DEF IInv, TypeOK
<1>2. w \in low..high /\ low <= w /\ w <= high /\ (low < low' => low < w)
  BY <1>1, SMT
<1> QED
  BY <1>2 DEF Fits, Here

\* A move that writes the byte that is shifted out.
LEMMA BackShifted ==
    ASSUME IInv, IInv', obuf \in Seq(Byte), NEW l \in low..high, SameTop(l, high),
           low' = Lowered(l), high' = Raised(high), obuf' = Append(obuf, TopByte(high)),
           variant = "safe" /\ pc = "byte" => low < l
    PROVE  \A w \in low'..high' : \E v \in low..high :
              /\ Fits(Here, FALSE, v)
              /\ \A n \in 0..Len(obuf) :
                    Window(obuf' \o BytesOf(w), n) = Window(obuf \o BytesOf(v), n)
<1> SUFFICES ASSUME NEW w \in low'..high'
             PROVE  \E v \in low..high :
                      /\ Fits(Here, FALSE, v)
                      /\ \A n \in 0..Len(obuf) :
                            Window(obuf' \o BytesOf(w), n) = Window(obuf \o BytesOf(v), n)
  OBVIOUS
<1>1. /\ low \in 0..(Word - 1) /\ high \in 0..(Word - 1)
      /\ low' \in 0..(Word - 1) /\ high' \in 0..(Word - 1)
  BY DEF IInv, TypeOK
<1>2. l \in 0..(Word - 1) /\ w \in 0..(Word - 1) /\ l <= high /\ low' <= w /\ w <= high'
  BY <1>1, Parameters, SMT
<1>3. PICK v \in l..high : \A s \in Seq(Byte) : \A n \in 0..Len(s) :
             Window(Append(s, TopByte(high)) \o BytesOf(w), n) = Window(s \o BytesOf(v), n)
  BY <1>1, <1>2, ShiftedBack
<1>4. v \in low..high /\ low <= v /\ v <= high /\ (low < l => low < v)
  BY <1>1, Parameters, SMT
<1>5. Fits(Here, FALSE, v)
  BY <1>4 DEF Fits, Here
<1> QED
  BY <1>3, <1>4, <1>5

\* The byte on top of a word.
LEMMA TopIsByte ==
    ASSUME NEW x \in 0..(Word - 1)
    PROVE  TopByte(x) \in Byte
<1>1. PICK a, b, c, d \in Byte : x = Four(a, b, c, d)
  BY FourBytes
<1>2. \A e, f, g, i \in Byte : Four(e, f, g, i) \div Top = e
  BY Digits
<1> QED
  BY <1>1, <1>2 DEF TopByte

\* The steps of the coder keep to the trail.
LEMMA CoderKeeps ==
    ASSUME RInv, IInv', EncodeByte \/ EncodeBit \/ EncodeShift \/ EncodeShifted
    PROVE  Retraces'
<1> USE DEF RInv
<1>1. /\ mode = "encode" /\ mode' = "encode" /\ rd' = rd /\ rc' = rc /\ output' = output
      /\ UNCHANGED callVars
  BY DEF EncodeByte, EncodeBit, EncodeShift, EncodeShifted, decoderVars
<1>2. obuf \in Seq(Byte) /\ low \in 0..(Word - 1) /\ high \in 0..(Word - 1) /\ low <= high
  BY DEF IInv, TypeOK, Ordered, Retraces
<1>3. low \in Nat /\ high \in Nat
  BY <1>2, Parameters, SMT
<1>4. TopByte(high) \in Byte
  BY <1>2, TopIsByte
<1>5. /\ Append(obuf, TopByte(high)) \in Seq(Byte)
      /\ Len(Append(obuf, TopByte(high))) = Len(obuf) + 1 /\ Len(obuf) \in Nat
  BY <1>2, <1>4, AppendProperties, LenProperties
<1> DEFINE Back == \A w \in low'..high' : \E v \in low..high :
              /\ Fits(Here, FALSE, v)
              /\ \A n \in 0..Len(obuf) :
                    Window(obuf' \o BytesOf(w), n) = Window(obuf \o BytesOf(v), n)
<1>6. obuf' \in Seq(Byte) /\ Len(obuf) <= Len(obuf') /\ Move(Here, Here') /\ Back
  <2> HIDE DEF RInv
  <2>0. IInv
    BY DEF RInv
  <2>a. obuf' = obuf \/ obuf' = Append(obuf, TopByte(high))
    BY DEF EncodeByte, EncodeBit, EncodeShift, EncodeShifted
  <2>b. obuf' \in Seq(Byte) /\ Len(obuf) <= Len(obuf')
    BY <1>2, <1>5, <2>a, SMT
  <2>1. CASE EncodeByte
    <3>1. Move(Here, Here')
      <4>1. ByteMove(Here, Here')
        BY <1>5, <2>1 DEF EncodeByte, ByteMove, Here, PassEnd
      <4> QED
        BY <4>1 DEF Move
    <3>2. Back
      <4>1. CASE variant # "safe"
        <5>1. low <= low' /\ high' <= high /\ obuf' = obuf
          BY <1>3, <2>1, <4>1, SMT DEF EncodeByte
        <5> QED
          BY <2>0, <4>1, <5>1, BackAsItIs
      <4>2. CASE variant = "safe" /\ SameTop(low + 1, high)
        <5>1. low < high
          BY <2>0, <2>1 DEF EncodeByte, IInv, Ordered
        <5>2. low + 1 \in low..high /\ low < low + 1
          BY <1>3, <5>1, SMT
        <5>3. low' = Lowered(low + 1) /\ high' = Raised(high) /\ obuf' = Append(obuf, TopByte(high))
          BY <2>1, <4>2 DEF EncodeByte, PassEnd
        <5> QED
          BY <1>2, <2>0, <4>2, <5>2, <5>3, BackShifted
      <4>3. CASE variant = "safe" /\ ~ SameTop(low + 1, high)
        <5>1. low' = low + 1 /\ high' = high /\ obuf' = obuf
          BY <2>1, <4>3 DEF EncodeByte, PassEnd
        <5>2. low <= low' /\ high' <= high /\ low < low'
          BY <1>3, <5>1, SMT
        <5> QED
          BY <2>0, <5>1, <5>2, BackAsItIs
      <4> QED
        BY <4>1, <4>2, <4>3
    <3> QED
      BY <2>b, <3>1, <3>2
  <2>2. CASE EncodeBit
    <3>1. Move(Here, Here')
      <4>1. BitMove(Here, Here')
        BY <2>2 DEF EncodeBit, BitMove, NarrowMove, MidOf, mid, Here, Narrow
      <4> QED
        BY <4>1 DEF Move
    <3>2. Back
      <4>1. pc = "bit" /\ obuf' = obuf
        BY <2>2 DEF EncodeBit
      <4>2. low < high /\ mdl[ctx] \in 1..(Half - 1)
        BY <2>0, <4>1 DEF IInv, TypeOK, Ordered
      <4>3. mid \in Nat /\ low <= mid /\ mid < high
        BY <1>3, <4>2, MidBetween DEF mid
      <4>4. low' \in {low, mid + 1} /\ high' \in {mid, high}
        BY <2>2 DEF EncodeBit, Narrow
      <4> DEFINE m == mid
      <4> HIDE DEF m
      <4>5. m \in Nat /\ low <= m /\ m < high /\ low' \in {low, m + 1} /\ high' \in {m, high}
        BY <4>3, <4>4 DEF m
      <4>6. low <= low' /\ high' <= high
        BY <1>3, <4>5, SMT
      <4> QED
        BY <2>0, <4>1, <4>6, BackAsItIs
    <3> QED
      BY <2>b, <3>1, <3>2
  <2>3. CASE EncodeShift
    <3>1. Move(Here, Here')
      <4>1. ShiftMove(Here, Here')
        BY <1>5, <2>3 DEF EncodeShift, ShiftMove, Here, Shift, byteVars
      <4> QED
        BY <4>1 DEF Move
    <3>2. Back
      <4>1. /\ pc = "shift" /\ SameTop(low, high) /\ obuf' = Append(obuf, TopByte(high))
            /\ low' = Lowered(low) /\ high' = Raised(high)
        BY <2>3 DEF EncodeShift, Shift
      <4>2. low \in low..high
        BY <1>2, <1>3, SMT
      <4> QED
        BY <1>2, <2>0, <4>1, <4>2, BackShifted
    <3> QED
      BY <2>b, <3>1, <3>2
  <2>4. CASE EncodeShifted
    <3>1. Move(Here, Here')
      <4>1. ShiftedMove(Here, Here')
        BY <2>4 DEF EncodeShifted, ShiftedMove, Here, BitsDone, byteVars, coderVars
      <4> QED
        BY <4>1 DEF Move
    <3>2. Back
      <4>1. pc = "shift" /\ obuf' = obuf /\ low' = low /\ high' = high
        BY <2>4 DEF EncodeShifted, coderVars
      <4>2. low <= low' /\ high' <= high
        BY <1>3, <4>1, SMT
      <4> QED
        BY <2>0, <4>1, <4>2, BackAsItIs
    <3> QED
      BY <2>b, <3>1, <3>2
  <2> QED
    BY <2>1, <2>2, <2>3, <2>4
<1>7. PICK N \in Nat : \E T \in [0..N -> Point] : Trail(T, N) /\ T[N] = Here /\ Leaves(T, N)
  BY <1>1 DEF Retraces
<1>8. PICK T \in [0..N -> Point] : Trail(T, N) /\ T[N] = Here /\ Leaves(T, N)
  BY <1>7
<1>9. \E M \in Nat : \E U \in [0..M -> Point] :
         Trail(U, M)' /\ U[M] = Here' /\ Leaves(U, M)'
  BY <1>1, <1>2, <1>6, <1>8, Extending
<1>10. output = <<>> /\ rd = 0 /\ rc = 0
  BY <1>1 DEF Retraces
<1> QED
  BY <1>1, <1>6, <1>9, <1>10 DEF Retraces
\* The coder starts a trail.
LEMMA TrailStarts == Init => Retraces
<1> SUFFICES ASSUME Init PROVE Retraces
  OBVIOUS
<1>1. IInv
  BY Initially
<1>2. obuf = <<>> /\ mode = "encode" /\ output = <<>> /\ rd = 0 /\ rc = 0 /\ obuf \in Seq(Byte)
  BY DEF Init
<1>3. Here = Start /\ Here \in Point /\ Here.n = 0
  BY <1>1, HereIsPoint DEF Init, Here, Start, IInv
<1> DEFINE T == [j \in 0..0 |-> Here]
<1>4. T \in [0..0 -> Point] /\ T[0] = Here
  BY <1>3
<1>5. Trail(T, 0)
  <2>1. \A j \in 0..(0 - 1) : FALSE
    BY SMT
  <2>2. \A j \in 0..0 : j = 0
    BY SMT
  <2>3. T[0].n <= T[0].n
    BY <1>3, <1>4, SMT
  <2> HIDE DEF T
  <2> QED
    BY <1>3, <1>4, <2>1, <2>2, <2>3 DEF Trail
<1>6. Leaves(T, 0)
  <2> SUFFICES ASSUME NEW j \in 0..0, NEW w \in low..high
               PROVE  Fits(T[j], j = 0, Window(obuf \o BytesOf(w), T[j].n))
    BY DEF Leaves
  <2>1. j = 0 /\ T[j] = Here
    BY <1>4, SMT
  <2> HIDE DEF T
  <2>2. w \in 0..(Word - 1) /\ low <= w /\ w <= high
    BY <1>1, Parameters, SMT DEF IInv, TypeOK
  <2>3. Window(obuf \o BytesOf(w), Len(obuf)) = w /\ Len(obuf) = 0
    BY <1>2, <2>2, WordBehind
  <2> QED
    BY <1>3, <2>1, <2>2, <2>3 DEF Fits, Here
<1> HIDE DEF T
<1> QED
  BY <1>2, <1>4, <1>5, <1>6 DEF Retraces

\* Flushing ends the trail: the word that is flushed fits everywhere.
LEMMA FlushEnds ==
    ASSUME RInv, IInv', Flush
    PROVE  Retraces'
<1>1. /\ mode = "encode" /\ mode' = "flushed" /\ pc = "byte" /\ pos = Len(input)
      /\ rd' = rd /\ rc' = rc /\ output' = output /\ UNCHANGED callVars
      /\ obuf' = obuf \o Flushed
  BY DEF Flush, decoderVars
<1>2. /\ obuf \in Seq(Byte) /\ output = <<>> /\ rd = 0 /\ rc = 0
      /\ low \in 0..(Word - 1) /\ high \in 0..(Word - 1) /\ low <= high
      /\ variant \in {"plain", "2013", "safe"}
  BY <1>1 DEF RInv, IInv, TypeOK, Ordered, Retraces
<1>3. PICK v \in {low, high} : /\ variant # "safe" => Flushed = BytesOf(v)
                               /\ variant = "safe" => v = low /\ Flushed = BytesOf(v) \o <<0>>
  BY <1>2 DEF Flushed
<1>4. v \in low..high /\ v \in 0..(Word - 1)
  BY <1>2, Parameters, SMT
<1>5. BytesOf(v) \in Seq(Byte) /\ Len(BytesOf(v)) = 4 /\ Window(obuf \o BytesOf(v), Len(obuf)) = v
  BY <1>2, <1>4, WordBehind
<1>6. Len(obuf) \in Nat
  BY <1>2, LenProperties
<1>7. <<0>> \in Seq(Byte) /\ Len(<<0>>) = 1
  <2>1. 0 \in Byte
    BY Parameters, SMT DEF Byte
  <2> QED
    BY <2>1
<1>8. /\ Flushed \in Seq(Byte) /\ Len(Flushed) = EndBytes
      /\ \A j \in 1..4 : Flushed[j] = BytesOf(v)[j]
  <2>1. CASE variant # "safe"
    BY <1>3, <1>5, <2>1 DEF EndBytes
  <2>2. CASE variant = "safe"
    <3>1. /\ BytesOf(v) \o <<0>> \in Seq(Byte)
          /\ Len(BytesOf(v) \o <<0>>) = Len(BytesOf(v)) + Len(<<0>>)
          /\ \A j \in 1..Len(BytesOf(v)) : (BytesOf(v) \o <<0>>)[j] = BytesOf(v)[j]
      BY <1>5, <1>7, Behind
    <3> QED
      BY <1>3, <1>5, <1>7, <2>2, <3>1 DEF EndBytes
  <2> QED
    BY <2>1, <2>2
<1>9. obuf' \in Seq(Byte) /\ Len(obuf') = Len(obuf) + EndBytes
  BY <1>1, <1>2, <1>8, Behind
<1>10. \A n \in 0..Len(obuf) : Window(obuf', n) = Window(obuf \o BytesOf(v), n)
  <2> SUFFICES ASSUME NEW n \in 0..Len(obuf)
               PROVE  Window(obuf', n) = Window(obuf \o BytesOf(v), n)
    OBVIOUS
  <2>1. /\ \A j \in 1..Len(obuf) : obuf'[j] = obuf[j]
        /\ \A j \in 1..Len(Flushed) : obuf'[Len(obuf) + j] = Flushed[j]
    BY <1>1, <1>2, <1>8, Behind
  <2>2. /\ \A j \in 1..Len(obuf) : (obuf \o BytesOf(v))[j] = obuf[j]
        /\ \A j \in 1..Len(BytesOf(v)) : (obuf \o BytesOf(v))[Len(obuf) + j] = BytesOf(v)[j]
    BY <1>2, <1>5, Behind
  <2>3. \A j \in 1..4 : j \in 1..Len(Flushed)
    <3> DEFINE l == Len(Flushed)
    <3>1. l \in {4, 5}
      BY <1>8 DEF EndBytes
    <3> HIDE DEF l
    <3>2. \A j \in 1..4 : j \in 1..l
      BY <3>1, SMT
    <3> QED
      BY <3>2 DEF l
  <2>4. ASSUME NEW j \in (n + 1)..(n + 4)
        PROVE  obuf'[j] = (obuf \o BytesOf(v))[j]
    <3>1. CASE j \in 1..Len(obuf)
      BY <2>1, <2>2, <3>1
    <3>2. CASE j \notin 1..Len(obuf)
      <4>1. PICK k \in 1..4 : j = Len(obuf) + k
        <5>1. j - Len(obuf) \in 1..4 /\ j = Len(obuf) + (j - Len(obuf))
          BY <1>6, <3>2, SMT
        <5> QED
          BY <5>1
      <4> QED
        BY <1>5, <1>8, <2>1, <2>2, <2>3, <4>1
    <3> QED
      BY <3>1, <3>2
  <2>5. n + 1 \in (n + 1)..(n + 4) /\ n + 2 \in (n + 1)..(n + 4) /\ n + 3 \in (n + 1)..(n + 4)
        /\ n + 4 \in (n + 1)..(n + 4)
    BY <1>6, SMT
  <2> QED
    BY <2>4, <2>5 DEF Window
<1>11. PICK N \in Nat : \E T \in [0..N -> Point] : Trail(T, N) /\ T[N] = Here /\ Leaves(T, N)
  BY <1>1 DEF RInv, Retraces
<1>12. PICK T \in [0..N -> Point] : Trail(T, N) /\ T[N] = Here /\ Leaves(T, N)
  BY <1>11
<1>13. Here.n = Len(obuf) /\ Here.pc = "byte" /\ Here.pos = Len(input) /\ Here.low = low
  BY <1>1 DEF Here
<1>14. Trail(T, N)'
  <2>1. \A a, b : Move(a, b) => Move(a, b)'
    BY <1>1 DEF Move, ByteMove, BitMove, ShiftMove, ShiftedMove, NarrowMove, MidOf, callVars
  <2> QED
    BY <1>12, <2>1 DEF Trail
<1>15. Left(T, N)'
  <2>1. ASSUME NEW j \in 0..N
        PROVE  Fits(T[j], j = N, Window(obuf', T[j].n))
    <3>1. T[j].n \in 0..Len(obuf)
      <4>1. T[j].n \in Nat /\ T[j].n <= Len(obuf)
        BY <1>12, <1>13 DEF Trail, Point
      <4> QED
        BY <1>6, <4>1, SMT
    <3>2. Fits(T[j], j = N, Window(obuf \o BytesOf(v), T[j].n))
      BY <1>4, <1>12 DEF Leaves
    <3> QED
      BY <1>10, <3>1, <3>2
  <2>2. ASSUME variant = "safe" PROVE Window(obuf', T[N].n) = T[N].low
    <3>1. Len(obuf) \in 0..Len(obuf)
      BY <1>6, SMT
    <3> QED
      BY <1>3, <1>5, <1>10, <1>12, <1>13, <2>2, <3>1
  <2>3. UNCHANGED variant /\ UNCHANGED input
    BY <1>1 DEF callVars
  <2> QED
    BY <1>9, <1>12, <1>13, <2>1, <2>2, <2>3 DEF Left, EndBytes, Fits, Window
<1> QED
  BY <1>1, <1>2, <1>9, <1>14, <1>15 DEF Retraces

\* The decoder starts where the trail starts.
LEMMA DecoderStarts ==
    ASSUME RInv, IInv', BeginDecoding
    PROVE  Retraces'
<1>1. /\ mode = "flushed" /\ mode' = "decode" /\ pc' = pc /\ obuf' = obuf /\ output' = output
      /\ rc' = rc /\ rd' = 4 /\ UNCHANGED callVars
      /\ low' = 0 /\ high' = Word - 1 /\ ctx' = 0
      /\ mdl' = [x \in 0..(Contexts - 1) |-> Half \div 2]
      /\ cur' = Taken(1) * Top + Taken(2) * Half + Taken(3) * Base + Taken(4)
  BY DEF BeginDecoding
<1>2. obuf \in Seq(Byte) /\ output = <<>> /\ rc = 0 /\ pc = "byte" /\ input \in Seq(Byte)
  BY <1>1 DEF RInv, IInv, TypeOK, Ordered, Retraces
<1>3. PICK N \in Nat : \E T \in [0..N -> Point] : Trail(T, N) /\ Left(T, N)
  BY <1>1 DEF RInv, Retraces
<1>4. PICK T \in [0..N -> Point] : Trail(T, N) /\ Left(T, N)
  BY <1>3
<1>5. 0 \in 0..N /\ N \in 0..N
  BY SMT
<1>6. Len(obuf) \in Nat /\ Len(obuf) >= 4
  <2>1. T[N].n \in Nat /\ EndBytes \in {4, 5}
    BY <1>5 DEF Point, EndBytes
  <2>2. Len(obuf) = T[N].n + EndBytes
    BY <1>4 DEF Left
  <2> QED
    BY <2>1, <2>2, SMT
<1>7. T[0] = Start /\ Start.n = 0
  BY <1>4 DEF Trail, Start
<1>8. cur' = Window(obuf, 0)
  <2>1. Taken(1) = obuf[1] /\ Taken(2) = obuf[2] /\ Taken(3) = obuf[3] /\ Taken(4) = obuf[4]
    BY <1>6, SMT DEF Taken
  <2>2. 0 + 1 = 1 /\ 0 + 2 = 2 /\ 0 + 3 = 3 /\ 0 + 4 = 4
    BY SMT
  <2> QED
    BY <1>1, <2>1, <2>2 DEF Window, Four
<1>9. Follows(T[0])'
  <2>1. 0 <= Len(input) /\ 0 + 4 = 4
    BY <1>2, LenProperties, SMT
  <2>2. Len(<<>>) = 0 /\ DOMAIN <<>> = {}
    BY SMT
  <2>3. UNCHANGED input
    BY <1>1 DEF callVars
  <2> QED
    BY <1>1, <1>2, <1>7, <1>8, <2>1, <2>2, <2>3 DEF Follows, Start, Window
<1>10. Trail(T, N)' /\ Left(T, N)'
  <2>1. \A a, b : Move(a, b) => Move(a, b)'
    BY <1>1 DEF Move, ByteMove, BitMove, ShiftMove, ShiftedMove, NarrowMove, MidOf, callVars
  <2>2. \A a, l, v : Fits(a, l, v) => Fits(a, l, v)'
    BY <1>1 DEF Fits, callVars
  <2> QED
    BY <1>1, <1>4, <2>1, <2>2 DEF Trail, Left, EndBytes, callVars, Window
<1> QED
  BY <1>1, <1>2, <1>5, <1>9, <1>10 DEF Retraces
\* Taking a byte moves the decoder's window on by one.
LEMMA Takes ==
    ASSUME obuf \in Seq(Byte), NEW n \in Nat, n + 5 <= Len(obuf),
           rd = n + 4, cur = Window(obuf, n), TakeByte
    PROVE  rd' = (n + 1) + 4 /\ cur' = Window(obuf, n + 1)
<1>1. Len(obuf) \in Nat
  BY LenProperties
<1>2. rd' = n + 5 /\ cur' = (cur % Top) * Base + obuf[n + 5]
  <2>1. rd + 1 = n + 5
    BY SMT
  <2> QED
    BY <2>1 DEF TakeByte, Taken
<1>3. n + 4 <= Len(obuf)
  BY <1>1, SMT
<1>4. Window(obuf, n + 1) = (Window(obuf, n) % Top) * Base + obuf[n + 5]
  BY <1>3, NextWindow
<1>5. (n + 1) + 4 = n + 5
  BY SMT
<1> QED
  BY <1>2, <1>4, <1>5

\* One value of the bit leads to the interval that holds the decoder's word.
LEMMA SameBit ==
    ASSUME NEW a \in Point, NEW b \in Point, BitMove(a, b), NEW v \in Nat,
           b.low <= v, v <= b.high, MidOf(a) \in Nat
    PROVE  a.bv % 2 = (IF v <= MidOf(a) THEN 1 ELSE 0)
<1>1. a.bv \in Nat /\ b.low \in Nat /\ b.high \in Nat
  BY Parameters, SMT DEF Point
<1>2. a.bv % 2 \in {0, 1}
  BY <1>1, SMT
<1> DEFINE m == MidOf(a)
<1> HIDE DEF m
<1>3. /\ b.low = (IF a.bv % 2 = 1 THEN a.low ELSE m + 1)
      /\ b.high = (IF a.bv % 2 = 1 THEN m ELSE a.high)
      /\ m \in Nat
  BY DEF BitMove, NarrowMove, m
<1>4. CASE a.bv % 2 = 1
  BY <1>3, <1>4 DEF m
<1>5. CASE a.bv % 2 = 0
  <2>1. ~ v <= m
    BY <1>1, <1>3, <1>5, SMT
  <2> QED
    BY <1>5, <2>1 DEF m
<1> QED
  BY <1>2, <1>4, <1>5

\* The bit that the decoder adds is the one that the coder has done with.
LEMMA BitHandedOver ==
    ASSUME NEW x \in Nat, NEW y \in Nat, NEW w \in Nat
    PROVE  (x + (y % 2) * w) + (y \div 2) * (2 * w) = x + y * w
<1> DEFINE q == y \div 2
           r == y % 2
<1>1. q \in Nat /\ r \in Nat /\ y = 2 * q + r
  BY SMT
<1> HIDE DEF q, r
<1>2. y * w = (2 * q) * w + r * w
  BY <1>1, SMT
<1>3. (2 * q) * w = q * (2 * w)
  BY <1>1, SMT
<1>4. q * (2 * w) \in Nat /\ r * w \in Nat
  BY <1>1, SMT
<1>5. (x + r * w) + q * (2 * w) = x + y * w
  BY <1>2, <1>3, <1>4, SMT
<1> QED
  BY <1>5 DEF q, r

\* What is left of a byte after its last bit is nothing.
LEMMA ByteDone ==
    ASSUME NEW x \in Nat, NEW y \in Nat, x + y * Base \in Byte
    PROVE  x = x + y * Base
<1>1. CASE y = 0
  <2>1. y * Base = 0
    BY <1>1, Parameters, SMT
  <2> QED
    BY <2>1, SMT
<1>2. CASE y >= 1
  <2>1. 1 * Base <= y * Base
    BY <1>2, MulMono, Parameters
  <2>2. y * Base \in Nat /\ 1 * Base = Base
    BY Parameters, SMT
  <2>3. x + y * Base < Base
    BY Parameters, SMT DEF Byte
  <2> QED
    BY <2>1, <2>2, <2>3, Parameters, SMT
<1> QED
  BY <1>1, <1>2, SMT
\* What the trail says of the decoder at its point k.
LEMMA OnTheTrail ==
    ASSUME RInv, mode = "decode",
           NEW N \in Nat, NEW T \in [0..N -> Point], NEW k \in 0..N,
           Trail(T, N), Left(T, N), Follows(T[k])
    PROVE  /\ T[k] \in Point /\ Len(obuf) \in Nat
           /\ Fits(T[k], k = N, cur) /\ rd = T[k].n + 4 /\ rd <= Len(obuf)
           /\ k = N => /\ pc = "byte" /\ Len(output) = Len(input)
                       /\ Len(obuf) = T[k].n + EndBytes
                       /\ variant = "safe" => cur = low
           /\ k # N => /\ k + 1 \in 0..N /\ T[k + 1] \in Point
                       /\ Move(T[k], T[k + 1])
                       /\ T[k + 1].n + EndBytes <= Len(obuf)
                       /\ Fits(T[k + 1], k + 1 = N, Window(obuf, T[k + 1].n))
<1>1. Len(obuf) \in Nat
  BY LenProperties DEF RInv, Retraces
<1>2. N \in 0..N /\ T[N] \in Point /\ T[k] \in Point /\ EndBytes \in {4, 5}
  BY SMT DEF EndBytes
<1>3. T[N].n \in Nat /\ T[k].n \in Nat /\ Len(obuf) = T[N].n + EndBytes /\ T[k].n <= T[N].n
  BY <1>2 DEF Left, Trail, Point
<1>4. Fits(T[k], k = N, cur) /\ rd = T[k].n + 4
  BY DEF Left, Follows
<1>5. rd <= Len(obuf)
  BY <1>1, <1>2, <1>3, <1>4, SMT
<1>6. ASSUME k = N
      PROVE  /\ pc = "byte" /\ Len(output) = Len(input)
             /\ Len(obuf) = T[k].n + EndBytes
             /\ variant = "safe" => cur = low
  BY <1>6 DEF Left, Follows
<1>7. ASSUME k # N
      PROVE  /\ k + 1 \in 0..N /\ T[k + 1] \in Point
             /\ Move(T[k], T[k + 1])
             /\ T[k + 1].n + EndBytes <= Len(obuf)
             /\ Fits(T[k + 1], k + 1 = N, Window(obuf, T[k + 1].n))
  <2>1. k + 1 \in 0..N /\ k \in 0..(N - 1)
    BY <1>7, SMT
  <2>2. T[k + 1] \in Point
    BY <2>1
  <2>3. T[k + 1].n \in Nat /\ T[k + 1].n <= T[N].n
    BY <2>1, <2>2 DEF Trail, Point
  <2>4. T[k + 1].n + EndBytes <= Len(obuf)
    BY <1>2, <1>3, <2>3, SMT
  <2>5. Move(T[k], T[k + 1]) /\ Fits(T[k + 1], k + 1 = N, Window(obuf, T[k + 1].n))
    BY <2>1 DEF Trail, Left
  <2> QED
    BY <2>1, <2>2, <2>4, <2>5
<1> QED
  BY <1>1, <1>2, <1>4, <1>5, <1>6, <1>7

\* The decoder takes the move that the coder took.
LEMMA DecoderFollows ==
    ASSUME RInv, IInv', NEW a \in Point, NEW b \in Point, NEW last,
           Follows(a), Move(a, b), Fits(a, FALSE, cur), Fits(b, last, Window(obuf, b.n)),
           b.n + EndBytes <= Len(obuf),
           DecodeByte \/ DecodeBit \/ DecodeShift \/ DecodeShifted
    PROVE  mode' = "decode" /\ rc' = rc /\ Follows(b)'
<1> USE DEF RInv
<1>1. /\ obuf \in Seq(Byte) /\ input \in Seq(Byte) /\ output \in Seq(Nat)
      /\ variant \in {"plain", "2013", "safe"}
      /\ low \in 0..(Word - 1) /\ high \in 0..(Word - 1) /\ low <= high
      /\ mode = "decode" /\ obuf' = obuf /\ UNCHANGED callVars
      /\ bv \in Nat /\ weight \in Nat /\ rd \in Nat /\ cur \in Nat
  BY DEF IInv, TypeOK, Ordered, Retraces, DecodeByte, DecodeBit, DecodeShift, DecodeShifted
<1>2. Len(obuf) \in Nat /\ Len(input) \in Nat /\ Len(output) \in Nat
  BY <1>1, LenProperties
<1>3. /\ pc = a.pc /\ low = a.low /\ high = a.high /\ mdl = a.mdl /\ ctx = a.ctx
      /\ rd = a.n + 4 /\ cur = Window(obuf, a.n)
      /\ a.pos <= Len(input)
      /\ Len(output) = (IF a.pc = "byte" THEN a.pos ELSE a.pos - 1)
      /\ \A k \in DOMAIN output : output[k] = input[k]
      /\ a.pc # "byte" => /\ a.pos >= 1 /\ weight = a.weight
                          /\ bv + a.bv * a.weight = input[a.pos]
  BY DEF Follows
<1>4. /\ a.n \in Nat /\ b.n \in Nat /\ a.pos \in Nat /\ b.pos \in Nat
      /\ a.bv \in Nat /\ a.weight \in Nat
  BY DEF Point
<1>5. EndBytes = (IF variant = "safe" THEN 5 ELSE 4) /\ EndBytes \in {4, 5}
  BY DEF EndBytes
\* Taking a byte, where the coder wrote one.
<1>6. ASSUME b.n = a.n + 1
      PROVE  /\ TakeByte => rd' = b.n + 4 /\ cur' = Window(obuf, b.n)
             /\ ~ Exhausted
  <2>1. a.n + 5 <= Len(obuf)
    BY <1>2, <1>4, <1>5, <1>6, SMT
  <2>2. TakeByte => rd' = b.n + 4 /\ cur' = Window(obuf, b.n)
    BY <1>1, <1>3, <1>4, <1>6, <2>1, Takes
  <2>3. ~ Exhausted
    BY <1>2, <1>3, <1>4, <1>5, <1>6, SMT DEF Exhausted
  <2> QED
    BY <2>2, <2>3
<1>7. CASE DecodeByte
  <2>1. pc = "byte" /\ ByteMove(a, b)
    BY <1>3, <1>7 DEF DecodeByte, Move, BitMove, ShiftMove, ShiftedMove
  <2>2. ~ Full
    BY <1>2, <1>3, <1>4, <2>1, SMT DEF Full, ByteMove
  <2>3. /\ mode' = "decode" /\ rc' = rc /\ low' = b.low /\ high' = b.high
        /\ rd' = b.n + 4 /\ cur' = Window(obuf, b.n)
    <3>1. CASE variant # "safe"
      BY <1>1, <1>3, <1>7, <2>1, <3>1 DEF DecodeByte, ByteMove
    <3>2. CASE variant = "safe" /\ SameTop(low + 1, high)
      <4>1. b.low = Lowered(low + 1) /\ b.high = Raised(high) /\ b.n = a.n + 1
        BY <1>3, <2>1, <3>2 DEF ByteMove
      <4>2. low' = Lowered(low + 1) /\ high' = Raised(high)
        BY <1>7, <3>2 DEF DecodeByte, PassEnd
      <4>3. TakeByte /\ mode' = mode /\ rc' = rc
        BY <1>6, <1>7, <2>2, <3>2, <4>1 DEF DecodeByte
      <4> QED
        BY <1>1, <1>6, <4>1, <4>2, <4>3
    <3>3. CASE variant = "safe" /\ ~ SameTop(low + 1, high)
      <4>1. b.low = low + 1 /\ b.high = high /\ b.n = a.n
        BY <1>3, <2>1, <3>3 DEF ByteMove
      <4>2. low' = low + 1 /\ high' = high
        BY <1>7, <3>3 DEF DecodeByte, PassEnd
      <4>3. mode' = mode /\ rc' = rc /\ rd' = rd /\ cur' = cur
        BY <1>7, <2>2, <3>3 DEF DecodeByte
      <4> QED
        BY <1>1, <1>3, <4>1, <4>2, <4>3
    <3> QED
      BY <3>1, <3>2, <3>3
  <2>4. /\ pc' = "bit" /\ bv' = 0 /\ weight' = 1 /\ mdl' = mdl /\ ctx' = ctx /\ output' = output
    BY <1>7 DEF DecodeByte
  <2>5. /\ b.pc = "bit" /\ b.bv = input[a.pos + 1] /\ b.weight = 1 /\ b.pos = a.pos + 1
        /\ b.mdl = a.mdl /\ b.ctx = a.ctx /\ a.pc = "byte" /\ a.pos < Len(input)
    BY <2>1 DEF ByteMove
  <2>6. b.pos <= Len(input) /\ b.pos >= 1 /\ b.pos \in 1..Len(input) /\ b.pos - 1 = a.pos
    BY <1>2, <1>4, <2>5, SMT
  <2>7. input[b.pos] \in Nat
    BY <1>1, <2>6, ElementOfSeq, Parameters, SMT DEF Byte
  <2>8. 0 + b.bv * 1 = input[b.pos]
    BY <2>5, <2>7, SMT
  <2>9. input' = input
    BY <1>1 DEF callVars
  <2> QED
    BY <1>1, <1>3, <2>3, <2>4, <2>5, <2>6, <2>8, <2>9 DEF Follows, Window
<1>8. CASE DecodeBit
  <2>1. pc = "bit" /\ BitMove(a, b)
    BY <1>3, <1>8 DEF DecodeBit, Move, ByteMove, ShiftMove, ShiftedMove
  <2>2. mid = MidOf(a)
    BY <1>3 DEF mid, MidOf
  <2>3. mid \in Nat
    <3>1. low \in Nat /\ high \in Nat /\ low < high /\ mdl[ctx] \in 1..(Half - 1)
      BY <1>1, <2>1, Parameters, SMTT(30) DEF IInv, TypeOK, Ordered
    <3> QED
      BY <3>1, MidBetween DEF mid
  <2>4. b.n = a.n /\ b.pos = a.pos /\ b.bv = a.bv \div 2 /\ b.weight = 2 * a.weight
        /\ b.pc = "shift" /\ a.pc = "bit" /\ NarrowMove(a, b, a.bv % 2)
    BY <2>1 DEF BitMove
  <2>5. b.low <= cur /\ cur <= b.high
    BY <1>3, <2>4 DEF Fits
  <2> DEFINE bit == IF cur <= mid THEN 1 ELSE 0
  <2>6. a.bv % 2 = bit
    BY <1>1, <2>1, <2>2, <2>3, <2>5, SameBit
  <2>7. /\ pc' = "shift" /\ Narrow(bit) /\ bv' = bv + bit * weight /\ weight' = 2 * weight
        /\ mode' = mode /\ rc' = rc /\ output' = output /\ rd' = rd /\ cur' = cur
    BY <1>8 DEF DecodeBit, decoderVars
  <2> HIDE DEF bit
  <2>8. low' = b.low /\ high' = b.high /\ mdl' = b.mdl /\ ctx' = b.ctx
    BY <1>3, <2>2, <2>4, <2>6, <2>7 DEF Narrow, NarrowMove
  <2>9. bv' + b.bv * b.weight = input[b.pos]
    <3>1. (bv + (a.bv % 2) * a.weight) + (a.bv \div 2) * (2 * a.weight) = bv + a.bv * a.weight
      <4>1. \A x, y, w \in Nat : (x + (y % 2) * w) + (y \div 2) * (2 * w) = x + y * w
        BY BitHandedOver
      <4>2. bv \in Nat /\ a.bv \in Nat /\ a.weight \in Nat
        BY <1>1, <1>4
      <4> QED
        BY <4>1, <4>2, Zenon
    <3> QED
      BY <1>3, <2>1, <2>4, <2>6, <2>7, <3>1
  <2>10. input' = input
    BY <1>1 DEF callVars
  <2> QED
    BY <1>1, <1>3, <2>1, <2>4, <2>7, <2>8, <2>9, <2>10 DEF Follows, Window
<1>9. CASE DecodeShift
  <2>1. pc = "shift" /\ SameTop(low, high) /\ ShiftMove(a, b)
    BY <1>3, <1>9 DEF DecodeShift, Move, ByteMove, BitMove, ShiftedMove
  <2>2. /\ b.pc = "shift" /\ b.low = Lowered(low) /\ b.high = Raised(high) /\ b.n = a.n + 1
        /\ b.mdl = mdl /\ b.ctx = ctx /\ b.bv = a.bv /\ b.weight = a.weight /\ b.pos = a.pos
        /\ a.pc = "shift"
    BY <1>3, <2>1 DEF ShiftMove
  <2>3. /\ pc' = pc /\ low' = Lowered(low) /\ high' = Raised(high) /\ mdl' = mdl /\ ctx' = ctx
        /\ bv' = bv /\ weight' = weight /\ output' = output /\ TakeByte
        /\ mode' = mode /\ rc' = rc
    BY <1>6, <1>9, <2>2 DEF DecodeShift, Shift, byteVars
  <2>4. rd' = b.n + 4 /\ cur' = Window(obuf, b.n)
    BY <1>6, <2>2, <2>3
  <2>5. input' = input
    BY <1>1 DEF callVars
  <2> QED
    BY <1>1, <1>3, <2>1, <2>2, <2>3, <2>4, <2>5 DEF Follows, Window
<1>10. CASE DecodeShifted
  <2>1. pc = "shift" /\ ~ SameTop(low, high) /\ ShiftedMove(a, b)
    BY <1>3, <1>10 DEF DecodeShifted, Move, ByteMove, BitMove, ShiftMove
  <2>2. /\ b.pc = (IF weight = Base THEN "byte" ELSE "bit")
        /\ b.low = low /\ b.high = high /\ b.n = a.n
        /\ b.mdl = mdl /\ b.ctx = ctx /\ b.bv = a.bv /\ b.weight = a.weight /\ b.pos = a.pos
        /\ a.pc = "shift"
    BY <1>3, <2>1 DEF ShiftedMove
  <2>3. /\ low' = low /\ high' = high /\ mdl' = mdl /\ ctx' = ctx
        /\ bv' = bv /\ weight' = weight /\ rd' = rd /\ cur' = cur
        /\ mode' = mode /\ rc' = rc
        /\ pc' = (IF weight = Base THEN "byte" ELSE "bit")
        /\ output' = (IF weight = Base THEN Append(output, bv) ELSE output)
    BY <1>10 DEF DecodeShifted, coderVars, byteVars, BitsDone
  <2>4. input' = input
    BY <1>1 DEF callVars
  <2>5. CASE weight # Base
    BY <1>1, <1>3, <2>2, <2>3, <2>4, <2>5 DEF Follows, Window
  <2>6. CASE weight = Base
    <3>1. a.pos \in 1..Len(input) /\ a.weight = Base /\ bv + a.bv * Base = input[a.pos]
      BY <1>2, <1>3, <1>4, <2>2, <2>6, SMT
    <3>2. bv + a.bv * Base \in Byte
      BY <1>1, <3>1, ElementOfSeq
    <3>3. bv = input[a.pos]
      BY <1>1, <1>4, <3>1, <3>2, ByteDone
    <3>4. Len(output) = a.pos - 1
      BY <1>3, <2>2
    <3>5. /\ Len(Append(output, bv)) = Len(output) + 1
          /\ DOMAIN Append(output, bv) = 1..(Len(output) + 1)
          /\ \A j \in 1..Len(output) : Append(output, bv)[j] = output[j]
          /\ Append(output, bv)[Len(output) + 1] = bv
          /\ DOMAIN output = 1..Len(output)
      <4>1. Append(output, bv) \in Seq(Nat)
        BY <1>1, AppendProperties
      <4> QED
        BY <1>1, <4>1, AppendProperties, LenProperties
    <3>6. Len(output) + 1 = a.pos
      BY <1>4, <3>4, SMT
    <3>7. \A j \in DOMAIN Append(output, bv) : Append(output, bv)[j] = input[j]
      <4> SUFFICES ASSUME NEW j \in 1..a.pos
                   PROVE  Append(output, bv)[j] = input[j]
        BY <3>5, <3>6
      <4>1. CASE j = a.pos
        BY <3>3, <3>5, <3>6, <4>1
      <4>2. CASE j # a.pos
        <5>1. j \in 1..Len(output)
          BY <1>4, <3>4, <4>2, SMT
        <5> QED
          BY <1>3, <3>5, <5>1
      <4> QED
        BY <4>1, <4>2
    <3> QED
      BY <1>1, <1>3, <2>2, <2>3, <2>4, <2>6, <3>5, <3>6, <3>7 DEF Follows, Window
  <2> QED
    BY <2>5, <2>6
<1> QED
  BY <1>7, <1>8, <1>9, <1>10
\* The decoder ends where the trail ends, with the whole input.
LEMMA DecoderEnds ==
    ASSUME RInv, NEW N \in Nat, NEW T \in [0..N -> Point], NEW k \in 0..N,
           Trail(T, N), Left(T, N), Follows(T[k]), DecodeEnd
    PROVE  Retraces'
<1> USE DEF RInv
<1>1. /\ mode = "decode" /\ mode' = "done" /\ rc' = 0 /\ pc = "byte" /\ UNCHANGED callVars
      /\ obuf' = obuf /\ rd' = rd /\ output' = output
      /\ (variant = "safe" /\ cur <= low) \/ (variant # "safe" /\ Len(output) >= Len(input))
  BY DEF DecodeEnd, Return, AtEnd, Full
<1>2. /\ obuf \in Seq(Byte) /\ input \in Seq(Byte) /\ output \in Seq(Nat)
      /\ low \in 0..(Word - 1)
  BY DEF IInv, TypeOK, Retraces
<1>3. Len(obuf) \in Nat /\ Len(input) \in Nat /\ Len(output) \in Nat /\ low \in Nat
  BY <1>2, LenProperties, Parameters, SMT
<1> HIDE DEF RInv
<1>4. /\ T[k] \in Point /\ Fits(T[k], k = N, cur) /\ rd = T[k].n + 4 /\ rd <= Len(obuf)
      /\ k = N => /\ Len(output) = Len(input) /\ Len(obuf) = T[k].n + EndBytes
      /\ k # N => T[k + 1] \in Point /\ Move(T[k], T[k + 1])
  BY <1>1, OnTheTrail
<1>5. /\ T[k].pc = "byte" /\ T[k].low = low
      /\ Len(output) = T[k].pos /\ \A j \in DOMAIN output : output[j] = input[j]
  BY <1>1 DEF Follows
<1>6. k = N
  <2> SUFFICES ASSUME k # N PROVE FALSE
    OBVIOUS
  <2>1. T[k].pos < Len(input)
    BY <1>4, <1>5 DEF Move, ByteMove, BitMove, ShiftMove, ShiftedMove
  <2>2. variant = "safe" => low < cur
    BY <1>4, <1>5 DEF Fits
  <2>3. cur \in Nat
    BY DEF RInv, IInv, TypeOK
  <2> QED
    BY <1>1, <1>3, <1>5, <2>1, <2>2, <2>3, SMT
<1>7. output = input
  <2>1. /\ output = [j \in 1..Len(output) |-> output[j]]
        /\ input = [j \in 1..Len(input) |-> input[j]]
        /\ DOMAIN output = 1..Len(output)
    BY <1>2, LenProperties, SeqDef
  <2> QED
    BY <1>4, <1>5, <1>6, <2>1
<1>8. variant # "safe" => rd = Len(obuf)
  BY <1>4, <1>6 DEF EndBytes
<1>9. variant' = variant /\ input' = input
  BY <1>1 DEF callVars
<1> QED
  BY <1>1, <1>2, <1>4, <1>7, <1>8, <1>9 DEF Retraces

\* The steps of the decoder keep to the trail.
LEMMA DecoderKeeps ==
    ASSUME RInv, IInv', DecodeEnd \/ DecodeByte \/ DecodeBit \/ DecodeShift \/ DecodeShifted
    PROVE  Retraces'
<1>1. /\ mode = "decode" /\ obuf' = obuf /\ UNCHANGED callVars
  BY DEF DecodeEnd, DecodeByte, DecodeBit, DecodeShift, DecodeShifted
<1>2. PICK N \in Nat : \E T \in [0..N -> Point] :
        Trail(T, N) /\ Left(T, N) /\ \E k \in 0..N : Follows(T[k])
  BY <1>1 DEF RInv, Retraces
<1>3. PICK T \in [0..N -> Point] :
        Trail(T, N) /\ Left(T, N) /\ \E k \in 0..N : Follows(T[k])
  BY <1>2
<1>4. PICK k \in 0..N : Follows(T[k])
  BY <1>3
<1>5. CASE DecodeEnd
  BY <1>3, <1>4, <1>5, DecoderEnds
<1>6. CASE DecodeByte \/ DecodeBit \/ DecodeShift \/ DecodeShifted
  <2>1. /\ T[k] \in Point /\ Fits(T[k], k = N, cur)
        /\ k = N => /\ pc = "byte" /\ Len(output) = Len(input)
                    /\ variant = "safe" => cur = low
        /\ k # N => /\ k + 1 \in 0..N /\ T[k + 1] \in Point
                    /\ Move(T[k], T[k + 1])
                    /\ T[k + 1].n + EndBytes <= Len(obuf)
                    /\ Fits(T[k + 1], k + 1 = N, Window(obuf, T[k + 1].n))
    BY <1>1, <1>3, <1>4, OnTheTrail
  <2>2. k # N
    <3> SUFFICES ASSUME k = N PROVE FALSE
      OBVIOUS
    <3>1. DecodeByte
      BY <1>6, <2>1 DEF DecodeBit, DecodeShift, DecodeShifted
    <3>2. Len(input) \in Nat /\ low \in Nat
      BY LenProperties, Parameters, SMT DEF RInv, IInv, TypeOK
    <3>3. Len(output) >= Len(input) /\ (variant = "safe" => cur <= low)
      BY <2>1, <3>2, SMT
    <3> QED
      BY <3>1, <3>3 DEF DecodeByte, AtEnd, Full
  <2>3. Fits(T[k], FALSE, cur)
    BY <2>1, <2>2 DEF Fits
  <2>4. mode' = "decode" /\ rc' = rc /\ Follows(T[k + 1])'
    BY <1>4, <1>6, <2>1, <2>2, <2>3, DecoderFollows
  <2>5. Trail(T, N)' /\ Left(T, N)'
    <3>1. \A a, b : Move(a, b) => Move(a, b)'
      BY <1>1 DEF Move, ByteMove, BitMove, ShiftMove, ShiftedMove, NarrowMove, MidOf, callVars
    <3>2. \A a, l, v : Fits(a, l, v) => Fits(a, l, v)'
      BY <1>1 DEF Fits, callVars
    <3> QED
      BY <1>1, <1>3, <3>1, <3>2 DEF Trail, Left, EndBytes, callVars, Window
  <2>6. obuf' \in Seq(Byte) /\ rc' = 0
    BY <1>1, <2>4 DEF RInv, Retraces
  <2>7. k + 1 \in 0..N
    BY <2>1, <2>2
  <2> QED
    BY <2>4, <2>5, <2>6, <2>7 DEF Retraces
<1> QED
  BY <1>5, <1>6

\* Coder and decoder keep to one trail.
THEOREM Retracing == Spec => []RInv
<1>1. Init => RInv
  BY Initially, TrailStarts DEF RInv
<1>2. RInv /\ [Next]_vars /\ IInv' => RInv'
  <2> SUFFICES ASSUME RInv, [Next]_vars, IInv' PROVE Retraces'
    BY DEF RInv
  <2>1. CASE UNCHANGED vars
    <3>1. /\ UNCHANGED callVars /\ UNCHANGED <<mode, pc, low, high, mdl, ctx, bv, weight, pos>>
          /\ UNCHANGED <<obuf, rd, cur, output, rc>>
      BY <2>1 DEF vars, callVars, coderVars, byteVars, decoderVars
    <3>2. UNCHANGED <<variant, input>>
      BY <3>1 DEF callVars
    <3>3. \A a, b : Move(a, b)' <=> Move(a, b)
      BY <3>2 DEF Move, ByteMove, BitMove, ShiftMove, ShiftedMove, NarrowMove, MidOf
    <3>4. \A a, l, v : Fits(a, l, v)' <=> Fits(a, l, v)
      BY <3>2 DEF Fits
    <3>5. \A T, N : (Trail(T, N)' <=> Trail(T, N)) /\ (Left(T, N)' <=> Left(T, N))
      BY <3>1, <3>2, <3>3, <3>4 DEF Trail, Left, EndBytes, Window
    <3>6. \A T, N : Leaves(T, N)' <=> Leaves(T, N)
      <4>1. low' = low /\ high' = high /\ obuf' = obuf
        BY <3>1
      <4> QED
        BY <4>1, <3>2, SMTT(40) DEF Leaves, Fits
    <3>7. \A a : Follows(a)' <=> Follows(a)
      BY <3>1, <3>2 DEF Follows, Window
    <3>8. Here' = Here
      BY <3>1 DEF Here
    <3>9. Retraces
      BY DEF RInv
    <3> QED
      BY <3>1, <3>2, <3>5, <3>6, <3>7, <3>8, <3>9 DEF Retraces
  <2>2. CASE Next /\ ~ UNCHANGED vars
    BY <2>2, CoderKeeps, FlushEnds, DecoderStarts, DecoderKeeps DEF Next, Finished
  <2> QED
    BY <2>1, <2>2
<1> QED
  BY <1>1, <1>2, Invariance, PTL DEF Spec

\* The decoder's word stays in its interval, and the bytes it has made out so
\* far are those of the input, in order.
THEOREM StaysInStep == Spec => []InStep
<1>1. RInv => InStep
  <2> SUFFICES ASSUME RInv, mode = "decode"
               PROVE  /\ low <= cur /\ cur <= high
                      /\ Len(output) <= Len(input)
                      /\ \A k \in DOMAIN output : output[k] = input[k]
    BY DEF InStep
  <2>1. PICK N \in Nat : \E T \in [0..N -> Point] :
          Trail(T, N) /\ Left(T, N) /\ \E k \in 0..N : Follows(T[k])
    BY DEF RInv, Retraces
  <2>2. PICK T \in [0..N -> Point] :
          Trail(T, N) /\ Left(T, N) /\ \E k \in 0..N : Follows(T[k])
    BY <2>1
  <2>3. PICK k \in 0..N : Follows(T[k])
    BY <2>2
  <2>4. Fits(T[k], k = N, cur) /\ T[k] \in Point
    BY <2>2, <2>3, OnTheTrail
  <2>5. Len(input) \in Nat /\ T[k].pos \in Nat
    BY <2>4, LenProperties DEF RInv, IInv, TypeOK, Point
  <2>6. Len(output) <= Len(input)
    BY <2>3, <2>5, SMT DEF Follows
  <2> QED
    BY <2>3, <2>4, <2>6 DEF Follows, Fits
<1> QED
  BY <1>1, Retracing, PTL

\* What is compressed comes back: a decoder that comes to its end returns 0
\* and the whole input, in every variant.
THEOREM ComesBack == Spec => []RoundTrip
<1>1. RInv => RoundTrip
  BY DEF RInv, Retraces, RoundTrip
<1> QED
  BY <1>1, Retracing, PTL

\* The decoder never takes a byte past the last one that was written, and the
\* unchecked variants take all of them.
THEOREM NeverOverread == Spec => []NoOverread
<1>1. RInv => NoOverread
  <2> SUFFICES ASSUME RInv PROVE NoOverread
    OBVIOUS
  <2>1. CASE mode = "done"
    BY <2>1 DEF RInv, Retraces, NoOverread
  <2>2. CASE mode \in {"encode", "flushed"}
    <3>1. rd = 0 /\ Len(obuf) \in Nat
      BY <2>2, LenProperties DEF RInv, Retraces
    <3> QED
      BY <2>2, <3>1, SMT DEF NoOverread
  <2>3. CASE mode = "decode"
    <3>1. PICK N \in Nat : \E T \in [0..N -> Point] :
            Trail(T, N) /\ Left(T, N) /\ \E k \in 0..N : Follows(T[k])
      BY <2>3 DEF RInv, Retraces
    <3>2. PICK T \in [0..N -> Point] :
            Trail(T, N) /\ Left(T, N) /\ \E k \in 0..N : Follows(T[k])
      BY <3>1
    <3>3. PICK k \in 0..N : Follows(T[k])
      BY <3>2
    <3>4. rd <= Len(obuf)
      BY <2>3, <3>2, <3>3, OnTheTrail
    <3> QED
      BY <2>3, <3>4 DEF NoOverread
  <2> QED
    BY <2>1, <2>2, <2>3 DEF RInv, IInv, TypeOK
<1> QED
  BY <1>1, Retracing, PTL
===============================================================================
