------------------------------ MODULE MCFastAri ------------------------------
(***************************************************************************)
(* The codecs that stand alone, in one run: small instances of FastAri,    *)
(* bytes of two bits and words of eight, and beside it the codecs of       *)
(* Codecs, each of which is a function of its input.  coder says which of  *)
(* the two a behaviour is about; the variables of the other stand still.   *)
(***************************************************************************)
EXTENDS FastAri

VARIABLES coder, codec, source, out

Messages(n) == UNION {[1..k -> 0..(Base - 1)] : k \in 0..n}

\* Long runs of one bit, where the probabilities end up at their limits.
MCSteady == {[k \in 1..n |-> b] : n \in 5..12, b \in {0, 3}}
               \cup {[k \in 1..12 |-> IF k = n THEN 1 ELSE 0] : n \in 1..12}

MCInputs == Messages(5) \cup MCSteady

Codecs == INSTANCE Codecs WITH input <- source
codecsOwn == <<codec, source, out>>

FastAriIdle ==
    /\ variant = "plain" /\ input = <<>> /\ mode = "done" /\ pc = "byte"
    /\ low = 0 /\ high = Word - 1 /\ mdl = [x \in 0..(Contexts - 1) |-> Half \div 2] /\ ctx = 0
    /\ bv = 0 /\ weight = 1 /\ pos = 0 /\ obuf = <<>> /\ rd = 0 /\ cur = 0
    /\ output = <<>> /\ rc = 0
CodecsIdle == codec = "idle" /\ source = "idle" /\ out = "idle"

CodersInit ==
    \/ coder = "FastAri" /\ Init /\ CodecsIdle
    \/ coder = "Codecs" /\ FastAriIdle /\ Codecs!Init

\* A codec of Codecs that has given its answer has come to its end.
Answered == out # Codecs!Nothing /\ UNCHANGED codecsOwn

CodersNext ==
    /\ UNCHANGED coder
    /\ \/ coder = "FastAri" /\ Next /\ UNCHANGED codecsOwn
       \/ coder = "Codecs" /\ (Codecs!Next \/ Answered) /\ UNCHANGED vars

CodersSpec == CodersInit /\ [][CodersNext]_<<coder, vars, codecsOwn>>

-----------------------------------------------------------------------------

\* What a codec has packed comes back, exactly or with the losses that are named
\* in Codecs; and where equal sizes mean that nothing was done, nothing was.
ComesBack == coder = "Codecs" => Codecs!ComesBack

\* The codecs read and write inside of the buffers that they are given: LZJB with
\* any room and of any stream, LZSSE also of a stream of which an offset is
\* damaged, LZP of its own streams; CompressFast alone goes beyond its end, by a
\* block and an offset at the most.
StaysInside == coder = "Codecs" => Codecs!StaysInside
=============================================================================
