--------------------------------- MODULE Lzsse ---------------------------------
(***************************************************************************)
(* The LZSSE codecs (lzsse/lzsse2, lzsse4 and lzsse8): runs of literals    *)
(* and matches, each told by a nibble of a control block that comes before *)
(* them.  A literal is stored xor'ed with the byte at the current offset,  *)
(* an offset xor'ed with the one before, and the decoder moves a vector of *)
(* Vec bytes for every control, literals or match, and lets the next one   *)
(* overwrite what was too much.                                            *)
(*                                                                         *)
(* The three codecs differ in the record v: a control below v.L stands for *)
(* that many literals and one more, any other for a match of the control   *)
(* less v.bias; the highest is carried on by the next one.  Positions are  *)
(* 0..n - 1, as in the code.                                               *)
(***************************************************************************)
EXTENDS Integers, Sequences, TLC, FiniteSetsExt, Bitwise

CONSTANTS Bound,        \* EXTENDED_MATCH_BOUND
          Controls,     \* CONTROLS_PER_BLOCK, two in a byte
          Window,       \* LZ_WINDOW_SIZE
          SkipLength,   \* SKIP_MATCH_LENGTH
          V2, V4, V8    \* the three codecs

Vec == Bound + 1        \* sizeof(__m128i), END_PADDING_LITERALS
Block == Controls \div 2
MinCompressionSize == 2 * Vec
LiteralBits == 8
ControlBits == 4
OffsetBytes == 2
Garbage == -1           \* a byte that was not there yet when it was loaded

InitialBound(v) == Bound - v.bias
At(s, p) == s[p + 1]
Least(a, b) == IF a < b THEN a ELSE b

-----------------------------------------------------------------------------
(* Matches *)

RECURSIVE Common(_, _, _, _)
Common(input, p, q, most) ==
    IF most > 0 /\ At(input, p) = At(input, q) THEN 1 + Common(input, p + 1, q + 1, most - 1)
    ELSE 0

\* Wrong: a match may run into what it has itself written.
LongestFrom(offset, toEnd) == toEnd

\* A vector must not be loaded before it is written: from near by, a match is
\* no longer than its offset.
MaxLength(offset, toEnd) ==
    IF offset <= Bound + 1 /\ offset < toEnd THEN offset ELSE toEnd

\* Literals are xor'ed with what is v.L back or more.
OffsetAllowed(v, offset) == v.bias < 0 \/ offset >= v.L

EarlyEnd(input) == Len(input) - Vec
None == [length |-> 0, offset |-> 0]

MatchAt(v, input, p, q) ==
    LET toEnd == EarlyEnd(input) - p
        n == Least(Common(input, p, q, toEnd), MaxLength(p - q, toEnd))
    IN  IF n >= v.min /\ OffsetAllowed(v, p - q) THEN [length |-> n, offset |-> p - q] ELSE None

Longer(a, b) == a.length > b.length \/ (a.length = b.length /\ a.offset <= b.offset)
Longest(matches) == CHOOSE a \in matches : \A b \in matches : Longer(a, b)

SameHash(v, input, p) ==
    {q \in 0..(p - 1) : /\ p - q <= Window - 1
                        /\ \A k \in 0..(v.min - 1) : At(input, q + k) = At(input, p + k)}

\* What the binary tree at p finds: with a cut-off of one it looks at the
\* newest position only.  A run is looked for two vectors back besides.
SearchAndUpdateFinder(v, input, p, cutOff) ==
    LET same == SameHash(v, input, p)
        seen == IF cutOff = 1 /\ same # {} THEN {Max(same)} ELSE same
        run == {q \in {p - 2 * Vec} : q >= 0}
    IN  Longest({MatchAt(v, input, p, q) : q \in seen \cup run} \cup {None})

\* The hash table of CompressFast holds the newest position; the other codecs
\* rely on the overlap rule to keep offsets large enough.
FastMatch(v, input, p) ==
    LET same == {q \in SameHash(v, input, p) : p - q < Window - 1}
    IN  IF same = {} THEN None ELSE MatchAt(v, input, p, Max(same))

-----------------------------------------------------------------------------
(* The steps from the first v.init bytes to the padding: runs of literals    *)
(* (offset 0) and matches.                                                   *)

Literals(from, n) == [from |-> from, length |-> n, offset |-> 0]
MatchStep(from, m) == [from |-> from, length |-> m.length, offset |-> m.offset]

\* The loop of CompressFast, with lits literals to flush.
RECURSIVE FastSteps(_, _, _, _)
FastSteps(v, input, p, lits) ==
    LET flushed == IF lits > 0 THEN <<Literals(p - lits, lits)>> ELSE <<>>
        m == FastMatch(v, input, p)
    IN  IF p >= EarlyEnd(input) THEN flushed
        ELSE IF m.length > 0
        THEN flushed \o <<MatchStep(p, m)>> \o FastSteps(v, input, p + m.length, 0)
        ELSE IF lits + 1 = v.L
        THEN <<Literals(p - lits, v.L)>> \o FastSteps(v, input, p + 1, 0)
        ELSE FastSteps(v, input, p + 1, lits + 1)

\* What it takes to arrive: the controls of a match of n bytes.
MatchControls(v, n) ==
    IF n < InitialBound(v) THEN 1 ELSE 2 + (n - InitialBound(v)) \div Bound
MatchCost(v, n) == MatchControls(v, n) * ControlBits + OffsetBytes * 8

\* Arrivals beyond the watermark are new, others are taken if they cost more.
Improved(arrivals, p, cost, from, offset) ==
    IF p \notin DOMAIN arrivals \/ arrivals[p].cost > cost
    THEN [q \in DOMAIN arrivals \cup {p} |->
             IF q = p THEN [cost |-> cost, from |-> from, offset |-> offset] ELSE arrivals[q]]
    ELSE arrivals

\* All runs of literals; LZSSE2 takes a pair of them only where nothing has
\* arrived yet, since it compares the cost of a pair with that of the first.
RECURSIVE WithLiterals(_, _, _, _, _)
WithLiterals(v, arrivals, p, n, most) ==
    IF n > most THEN arrivals
    ELSE WithLiterals(v,
             IF v.bias < 0 /\ n = 2 /\ p + 2 \in DOMAIN arrivals THEN arrivals
             ELSE Improved(arrivals, p + n, arrivals[p].cost + ControlBits + n * LiteralBits, p, 0),
             p, n + 1, most)

RECURSIVE WithMatches(_, _, _, _, _)
WithMatches(v, arrivals, p, n, m) ==
    IF n > m.length THEN arrivals
    ELSE WithMatches(v, Improved(arrivals, p + n, arrivals[p].cost + MatchCost(v, n), p, m.offset),
                     p, n + 1, m)

\* A long match is not looked into, below level 17.
RECURSIVE Arrivals(_, _, _, _, _)
Arrivals(v, input, p, cutOff, arrivals) ==
    IF Max(DOMAIN arrivals) < p \/ p >= EarlyEnd(input) THEN arrivals
    ELSE LET m == IF v.bias < 0 /\ EarlyEnd(input) - p < 2 THEN None
                  ELSE SearchAndUpdateFinder(v, input, p, cutOff)
             most == Least(v.L, EarlyEnd(input) - p)
             next == WithMatches(v, WithLiterals(v, arrivals, p, 1, most), p, v.min, m)
         IN  Arrivals(v, input, IF m.length > SkipLength THEN p + m.length - v.L + 1 ELSE p + 1,
                      cutOff, next)

\* The cheapest path, traced back from the end.
RECURSIVE PathTo(_, _, _)
PathTo(v, arrivals, p) ==
    IF p = v.init THEN <<>>
    ELSE LET a == arrivals[p]
         IN  Append(PathTo(v, arrivals, a.from),
                    [from |-> a.from, length |-> p - a.from, offset |-> a.offset])

-----------------------------------------------------------------------------
(* Writing the steps.  w.block is where the control block is, w.count the    *)
(* controls in it, w.nop whether the last control is a lone zero in a new    *)
(* block, w.most the end of what has been stored, w.stop whether the cursor  *)
(* was seen beyond w.early, the early end of the output.                     *)

Stopping(w) == [w EXCEPT !.stop = @ \/ Len(w.dst) > w.early]

\* A new control block clears the vector behind it before the cursor is
\* looked at.
Room(w) ==
    IF w.count = Controls /\ ~ w.stop
    THEN Stopping([w EXCEPT !.block = Len(w.dst), !.count = 0, !.dst = @ \o [k \in 1..Block |-> 0],
                            !.most = Max({@, Len(w.dst) + Block + Vec})])
    ELSE w

Control(w, c) ==
    LET x == Room(w)
        at == x.block + x.count \div 2 + 1
    IN  IF x.stop THEN x
        ELSE [x EXCEPT !.dst = [@ EXCEPT ![at] = @ + c * (IF x.count % 2 = 0 THEN 1 ELSE Vec)],
                       !.count = @ + 1,
                       !.nop = x.count = 0 /\ c = 0]

\* The controls that carry a match on.
RECURSIVE CarryOn(_, _)
CarryOn(w, n) ==
    IF n >= Bound /\ ~ w.stop THEN CarryOn(Control(w, Bound), n - Bound) ELSE Control(w, n)

WriteLiterals(w, input, s) ==
    LET x == Control(w, s.length - 1)
    IN  IF x.stop THEN x
        ELSE [x EXCEPT !.nop = FALSE,
                       !.dst = @ \o [k \in 1..s.length |->
                                   At(input, s.from + k - 1) ^^ At(input, s.from + k - 1 - w.offset)]]

\* The offset comes behind the control block that holds the first control.
WriteMatch(v, w, s) ==
    LET x == Room(w)
        y == [x EXCEPT !.dst = @ \o <<s.offset ^^ x.offset, 0>>, !.offset = s.offset]
    IN  IF x.stop THEN x
        ELSE IF s.length < InitialBound(v)
        THEN [Control(y, s.length + v.bias) EXCEPT !.nop = FALSE]
        ELSE CarryOn(Control(y, Bound), s.length - InitialBound(v))

\* The cursor is looked at again after each of the steps.
RECURSIVE Written(_, _, _, _)
Written(v, w, input, steps) ==
    IF steps = <<>> \/ w.stop THEN w
    ELSE LET s == Head(steps)
         IN  Written(v, Stopping(IF s.offset = 0 THEN WriteLiterals(w, input, s) ELSE WriteMatch(v, w, s)),
                     input, Tail(steps))

Started(v, input, early) ==
    Stopping([dst |-> SubSeq(input, 1, v.init) \o [k \in 1..Block |-> 0], block |-> v.init,
              count |-> 0, offset |-> v.init, nop |-> FALSE, early |-> early,
              most |-> v.init + Block, stop |-> FALSE])

\* A block that would hold nothing but a zero control is taken back, as it is
\* the last thing written.
DroppedNop(w) == IF w.nop THEN SubSeq(w.dst, 1, Len(w.dst) - Block) ELSE w.dst

Padding(input) == SubSeq(input, EarlyEnd(input) + 1, Len(input))

\* LZSSE8 compares the pointer to the block with zero instead of the count, and
\* so keeps the block.
NopSeen(v) == v.bias <= 0

Compressed(dst, most) == [dst |-> dst, most |-> Max({most, Len(dst)})]

\* Of the steps only those are taken that come before the early end of the
\* output is reached; what goes beyond it is given up for the input as it is.
\* outputLength is not below the input's, which is refused at once.
CompressFast(v, input, outputLength) ==
    IF Len(input) < MinCompressionSize THEN Compressed(input, 0)
    ELSE LET steps == FastSteps(v, input, v.init, 0)
             last == steps # <<>> /\ steps[Len(steps)].offset = 0 /\ steps[Len(steps)].length < v.L
             n == Len(steps) - (IF last THEN 1 ELSE 0)
             w == Written(v, Started(v, input, outputLength - Vec), input, SubSeq(steps, 1, n))
             lits == IF last THEN steps[Len(steps)].length ELSE 0
             x == Written(v, w, input, SubSeq(steps, n + 1, Len(steps)))
         IN  IF w.stop \/ Len(w.dst) + lits + (IF w.count = Controls THEN Block ELSE 0) >= Len(input) - Vec
             THEN Compressed(input, Max({w.most, Len(w.dst)}))
             ELSE Compressed((IF NopSeen(v) THEN DroppedNop(x) ELSE x.dst) \o Padding(input), x.most)

\* The whole path costs more than the literals would, with a control block that
\* is all but empty.
TooDear(input, cost) ==
    cost + Vec * LiteralBits + Controls * ControlBits > Len(input) * LiteralBits

\* The optimal parse knows what it will take and does not look at the cursor.
CompressOptimalParse(v, input, cutOff) ==
    IF Len(input) < MinCompressionSize THEN Compressed(input, 0)
    ELSE LET start == v.init :> [cost |-> LiteralBits * v.init, from |-> -1, offset |-> 0]
             arrivals == Arrivals(v, input, v.init, cutOff, start)
             end == Max(DOMAIN arrivals)
             w == Written(v, Started(v, input, 3 * Len(input)), input, PathTo(v, arrivals, end))
         IN  IF TooDear(input, arrivals[end].cost) THEN Compressed(input, 0)
             ELSE Compressed(DroppedNop(w) \o Padding(input), w.most)

-----------------------------------------------------------------------------
(* Decompress *)

InputSafe(v) == v.L * Controls
OutputSafe == Bound * Controls

\* The nibble k of the control block at d.block.
Nibble(d, k) ==
    LET byte == At(d.input, d.block + k \div 2) IN IF k % 2 = 0 THEN byte % Vec ELSE byte \div Vec

\* Wrong: nobody looks where a match begins.
NeverBefore(d, offset, checkMatch) == FALSE

\* goto MATCH_UNDERFLOW
BeforeOutput(d, offset, checkMatch) == checkMatch /\ offset > Len(d.out)

\* DECODE_STEP: a control of literals, of a match, or of more of the match.
\* checkMatch is CHECKMATCH.
Step(v, d, c, checkMatch) ==
    LET literal == ~ d.carry /\ c < v.L
        match == ~ d.carry /\ ~ literal
        offset == IF match THEN d.offset ^^ At(d.input, d.ic) ELSE d.offset
        n == IF d.carry THEN c ELSE IF literal THEN c + 1 ELSE c - v.bias
        loaded == [k \in 1..n |-> IF k > offset \/ offset >= Len(d.out) + k THEN Garbage
                                  ELSE At(d.out, Len(d.out) - offset + k - 1)]
        stored == [k \in 1..n |-> IF literal /\ loaded[k] # Garbage
                                  THEN loaded[k] ^^ At(d.input, d.ic + k - 1) ELSE loaded[k]]
    IN  IF BeforeOutput(d, offset, checkMatch) THEN [d EXCEPT !.underflow = TRUE]
        ELSE [d EXCEPT !.offset = offset,
                       !.first = IF @ = 0 /\ match THEN d.ic + 1 ELSE @,
                       !.carry = c = Bound,
                       !.ic = @ + (IF literal THEN n ELSE IF match THEN OffsetBytes ELSE 0),
                       !.out = @ \o stored,
                       !.outside = @ \/ d.ic + Vec > Len(d.input) \/ Len(d.out) + Vec > d.size
                                     \/ offset > Len(d.out)]

InputEarlyEnd(d) == Len(d.input) - Vec
OutputEarlyEnd(d) == d.size - Vec
AtEnd(d) == Len(d.out) >= OutputEarlyEnd(d) \/ d.ic > InputEarlyEnd(d)

Stopped(d) == d.outside \/ d.underflow

\* The controls of a block, with a look at the buffers after each of them when
\* they are checked.
RECURSIVE BlockFrom(_, _, _, _, _)
BlockFrom(v, d, k, checkMatch, checkBuffers) ==
    IF k = Controls \/ Stopped(d) \/ (checkBuffers /\ AtEnd(d)) THEN d
    ELSE BlockFrom(v, Step(v, d, Nibble(d, k), checkMatch), k + 1, checkMatch, checkBuffers)

NextBlock(v, d, checkMatch, checkBuffers) ==
    LET e == [d EXCEPT !.block = d.ic, !.ic = @ + Block]
    IN  IF checkBuffers /\ e.ic > InputEarlyEnd(d) THEN e
        ELSE BlockFrom(v, e, 0, checkMatch, checkBuffers)

\* As long as a whole block cannot reach the end of a buffer.
Safe(v, d) == Len(d.out) < d.size - OutputSafe /\ d.ic < Len(d.input) - InputSafe(v)

\* Once the output is as long as the window, no offset leads out of it.
RECURSIVE SafeBlocks(_, _)
SafeBlocks(v, d) ==
    IF ~ Stopped(d) /\ Safe(v, d)
    THEN SafeBlocks(v, NextBlock(v, d, Len(d.out) < Window, FALSE)) ELSE d

RECURSIVE CheckedBlocks(_, _)
CheckedBlocks(v, d) ==
    IF ~ Stopped(d) /\ Len(d.out) < OutputEarlyEnd(d) /\ d.ic < InputEarlyEnd(d)
    THEN CheckedBlocks(v, NextBlock(v, d, TRUE, TRUE)) ELSE d

Decompress(v, input, size) ==
    LET d == [input |-> input, size |-> size, ic |-> v.init, block |-> 0, offset |-> v.init,
              carry |-> FALSE, out |-> SubSeq(input, 1, v.init), first |-> 0,
              underflow |-> FALSE, outside |-> FALSE]
        e == CheckedBlocks(v, SafeBlocks(v, d))
        whole == e.ic = InputEarlyEnd(e) /\ Len(e.out) = OutputEarlyEnd(e) /\ ~ e.underflow
    IN  IF Len(input) = size THEN [d EXCEPT !.out = input]
        ELSE [e EXCEPT !.out = IF whole THEN @ \o SubSeq(input, e.ic + 1, Len(input)) ELSE @]

-----------------------------------------------------------------------------
(* The functions of the three codecs. *)

LZSSE2_CompressOptimalParse(input, cutOff) == CompressOptimalParse(V2, input, cutOff)
LZSSE4_CompressOptimalParse(input, cutOff) == CompressOptimalParse(V4, input, cutOff)
LZSSE8_CompressOptimalParse(input, cutOff) == CompressOptimalParse(V8, input, cutOff)
LZSSE4_CompressFast(input, outputLength) == CompressFast(V4, input, outputLength)
LZSSE8_CompressFast(input, outputLength) == CompressFast(V8, input, outputLength)
LZSSE2_Decompress(input, size) == Decompress(V2, input, size)
LZSSE4_Decompress(input, size) == Decompress(V4, input, size)
LZSSE8_Decompress(input, size) == Decompress(V8, input, size)
=============================================================================
