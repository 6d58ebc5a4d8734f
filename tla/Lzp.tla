---------------------------------- MODULE Lzp ----------------------------------
(***************************************************************************)
(* The LZP filter of libbsc (libbsc/lzp/lzp.cpp).  A table remembers, for  *)
(* every hash of the last Word bytes, where they were last followed by     *)
(* what comes next.  Where the table has a place, Flag and a length stand  *)
(* for what is equal from there on; a byte Flag that is just itself is     *)
(* followed by Escape.  The decoder fills the same table from what it has  *)
(* written, so both must update it at the same positions.                  *)
(*                                                                         *)
(* Positions are 0..n - 1, as in the code.                                 *)
(***************************************************************************)
EXTENDS Integers, Sequences, FiniteSets, FiniteSetsExt, SequencesExt

CONSTANTS Word,         \* sizeof(unsigned int), also the bytes of a context
          Margin,       \* the 32 bytes at the end in which no match begins
          Flag,         \* LIBBSC_LZP_MATCH_FLAG
          Most,         \* 254, the length that is carried on by the next byte
          Limits        \* the sizes from which there are two blocks, four, ...

Long == 2 * Word        \* sizeof(unsigned long long)
Eob == Long             \* outputEnd - outputEOB
SizeofInt == 4
Escape == Most + 1

NotCompressible == -3
UnexpectedEob == -5
Errors == {NotCompressible, UnexpectedEob}

At(s, p) == s[p + 1]
Least(a, b) == IF a < b THEN a ELSE b

-----------------------------------------------------------------------------
(* The table *)

\* Of the Word bytes before p; what the shifts make of them is left out.
Index(s, p, slots) == (At(s, p - 1) + At(s, p - Word)) % slots

NoTable(slots) == [h \in 0..(slots - 1) |-> 0]

-----------------------------------------------------------------------------
(* The encoders differ in where they compare, in the length they start from,  *)
(* and in how they find the end of a match.  heuristic is the position before *)
(* which a match has been looked for in vain.                                 *)

Same(s, a, b, n) == \A k \in 0..(n - 1) : At(s, a + k) = At(s, b + k)

\* A match that starts at length len is compared in steps, and ends at the
\* first byte that differs, or at the step that reaches end.
FastEnd(s, i, v, len, end) ==
    LET step(n) == n - ((n - len) % Long)
    IN  Min({n \in len..(len + Len(s)) : \/ step(n) = n /\ i + n >= end
                                         \/ i + step(n) < end /\ At(s, i + n) # At(s, v + n)})

GenericEnd(s, i, v, end) ==
    Min({n \in {Word * k : k \in 1..Len(s)} : i + n >= end \/ ~ Same(s, i + n, v + n, Word)})

\* The bytes of the last word that are equal too, looked at once more.
GenericTail(s, i, v) == Max({n \in 0..(Word - 1) : Same(s, i, v, n)})

Parser(start, minLen, tail, guarded) ==
    [start |-> start, minLen |-> minLen, tail |-> tail, guarded |-> guarded, generic |-> FALSE]

\* bsc_lzp_encode_small, _small2x, _medium and _large: T is the word they use.
bsc_lzp_encode_small(T) == Parser(T, T, T, FALSE)
bsc_lzp_encode_small2x(T) == Parser(2 * T, 2 * T, 2 * T, FALSE)
bsc_lzp_encode_medium(T, minLen) == Parser(minLen, minLen, 2 * T, FALSE)
bsc_lzp_encode_large(T, minLen) == Parser(T, minLen, minLen, TRUE)
bsc_lzp_encode_generic(minLen) ==
    [start |-> Word, minLen |-> minLen, tail |-> minLen, guarded |-> FALSE, generic |-> TRUE]

\* What equals what when a match is tried: the first bytes and the last.
Tried(e, T, s, p, v) ==
    /\ e.guarded => p.i - p.phase > p.heuristic
    /\ Same(s, p.i + e.minLen - T, v + e.minLen - T, T)
    /\ Same(s, p.i, v, T)
    /\ e.generic /\ p.heuristic > p.i =>
           Same(s, p.heuristic, v + (p.heuristic - p.i), Word)

RECURSIVE LengthCodes(_, _)
LengthCodes(len, room) ==
    IF len < Most THEN <<len % (Escape + 1)>>
    ELSE IF room <= 1 THEN <<Most, (len - Most) % (Escape + 1)>>
    ELSE <<Most>> \o LengthCodes(len - Most, room - 1)

\* One byte, which the decoder would take for a match only if it looks like one.
Literal(p, s, value, table) ==
    LET byte == At(s, p.i)
    IN  [p EXCEPT !.i = @ + 1, !.table = table,
                  !.out = @ \o (IF byte = Flag /\ value > 0 THEN <<byte, Escape>> ELSE <<byte>>)]

\* The loops that look at bounds only every Word bytes: phase counts up to it
\* and starts again after a match and after an escape.
MatchStep(e, T, s, end, room, p, value, table) ==
    LET tried == value > 0 /\ Tried(e, T, s, p, value)
        len == IF e.generic THEN GenericEnd(s, p.i, value, end)
               ELSE FastEnd(s, p.i, value, e.start, end)
        tail == IF e.generic THEN GenericTail(s, p.i + len, value + len) ELSE 0
        literal == Literal(p, s, value, table)
        escaped == At(s, p.i) = Flag /\ value > 0
    IN  IF tried /\ len >= e.minLen
        THEN [p EXCEPT !.i = @ + len + tail, !.phase = 0, !.table = table,
                       !.out = @ \o <<Flag>> \o LengthCodes(len + tail - e.minLen, room - Len(@) - 1)]
        ELSE IF tried
        THEN [literal EXCEPT !.phase = 0,
                  !.heuristic = IF e.guarded THEN p.i + len ELSE Max({@, p.i + len})]
        ELSE [literal EXCEPT !.phase = IF e.generic \/ escaped THEN 0 ELSE (@ + 1) % Word]

\* From position end on there are only literals.
RECURSIVE Encode(_, _, _, _, _, _, _)
Encode(e, T, s, end, room, slots, p) ==
    LET h == Index(s, p.i, slots)
        value == p.table[h]
        table == [p.table EXCEPT ![h] = p.i]
    IN  IF p.phase = 0 /\ Len(p.out) >= room THEN p.out
        ELSE IF p.phase # 0 \/ p.i < end
        THEN Encode(e, T, s, end, room, slots, MatchStep(e, T, s, end, room, p, value, table))
        ELSE IF p.i >= Len(s) THEN p.out
        ELSE Encode(e, T, s, end, room, slots, Literal(p, s, value, table))

\* The parser that is chosen for minLen: where words may be read anywhere
\* (LIBBSC_ALLOW_UNALIGNED_ACCESS) one of the fast ones.
Chosen(minLen, unaligned) ==
    IF ~ unaligned THEN [e |-> bsc_lzp_encode_generic(minLen), T |-> Word]
    ELSE IF minLen = Word THEN [e |-> bsc_lzp_encode_small(Word), T |-> Word]
    ELSE IF minLen = Long THEN [e |-> bsc_lzp_encode_small(Long), T |-> Long]
    ELSE IF minLen = 2 * Long THEN [e |-> bsc_lzp_encode_small2x(Long), T |-> Long]
    ELSE IF minLen <= 2 * Word THEN [e |-> bsc_lzp_encode_medium(Word, minLen), T |-> Word]
    ELSE IF minLen <= 2 * Long THEN [e |-> bsc_lzp_encode_medium(Long, minLen), T |-> Long]
    ELSE [e |-> bsc_lzp_encode_large(Long, minLen), T |-> Long]

\* res is an error or the length, out is all that was written, the first Word
\* bytes whatever the room is.
Fitting(out, room) ==
    [res |-> IF Len(out) >= room THEN NotCompressible ELSE Len(out), out |-> out]

EncodeWith(c, s, room, slots) ==
    Fitting(Encode(c.e, c.T, s, Len(s) - c.e.tail - Margin, room, slots,
                   [i |-> Word, out |-> SubSeq(s, 1, Word), table |-> NoTable(slots),
                    heuristic |-> 0, phase |-> 0]),
            room)

\* What is written into size bytes.
bsc_lzp_encode_block(s, size, minLen, slots, unaligned) ==
    IF Len(s) - minLen < Margin THEN [res |-> NotCompressible, out |-> <<>>]
    ELSE EncodeWith(Chosen(minLen, unaligned), s, size - Eob, slots)

-----------------------------------------------------------------------------
(* Decoding *)

RECURSIVE LengthAt(_, _)
LengthAt(input, p) ==
    IF At(input, p) # Most THEN [len |-> At(input, p), next |-> p + 1]
    ELSE LET rest == LengthAt(input, p + 1) IN [rest EXCEPT !.len = @ + Most]

\* Byte by byte: a match may run into what it has itself written.
RECURSIVE Copied(_, _, _)
Copied(out, from, n) ==
    IF n = 0 THEN out ELSE Copied(Append(out, At(out, from)), from + 1, n - 1)

\* Wrong: a word is stored ahead up to the last byte of the input.
BeforeEnd(f, d) == d.p < Len(f.input)

\* f is what is decoded and how; d.phase counts the bytes of a word that the
\* fast loop has stored ahead, d.most is the end of what has been stored.
\* Neither loop knows how much room there is.
FarFromEnd(f, d) == d.p < Len(f.input) - Long

\* The fast loop looks for the end of the input once a word.
StoresAhead(f, d) == f.fast /\ d.phase = 0 /\ FarFromEnd(f, d)

RECURSIVE Decode(_, _)
Decode(f, d) ==
    LET h == Index(d.out, Len(d.out), f.slots)
        l == LengthAt(f.input, d.p + 1)
        ahead == StoresAhead(f, d)
        e == [d EXCEPT !.table[h] = Len(d.out),
                       !.most = IF ahead THEN Max({@, Len(d.out) + Word}) ELSE @]
    IN  IF d.p >= Len(f.input) THEN [d EXCEPT !.most = Max({@, Len(d.out)})]
        ELSE IF At(f.input, d.p) # Flag \/ d.table[h] = 0
        THEN Decode(f, [e EXCEPT !.p = @ + 1, !.out = Append(@, At(f.input, d.p)),
                                 !.phase = IF ahead \/ @ # 0 THEN (@ + 1) % Word ELSE 0])
        ELSE IF At(f.input, d.p + 1) = Escape
        THEN Decode(f, [e EXCEPT !.p = @ + 2, !.out = Append(@, Flag), !.phase = 0])
        ELSE Decode(f, [e EXCEPT !.p = l.next, !.out = Copied(@, d.table[h], f.minLen + l.len),
                                 !.phase = 0])

\* The fast loop is for tables of 1 << 17 at the most.
bsc_lzp_decode_block(input, minLen, slots, unaligned) ==
    IF Len(input) < Word THEN [res |-> UnexpectedEob, out |-> <<>>, most |-> 0]
    ELSE LET d == Decode([input |-> input, slots |-> slots, minLen |-> minLen,
                          fast |-> unaligned /\ slots # 1],
                         [p |-> Word, out |-> SubSeq(input, 1, Word), table |-> NoTable(slots),
                          phase |-> 0, most |-> 0])
         IN  [res |-> Len(d.out), out |-> d.out, most |-> d.most]

-----------------------------------------------------------------------------
(* Blocks: their number, then two ints for each, then what they were packed   *)
(* to.  A block that did not get smaller is kept, which equal sizes tell.     *)

bsc_lzp_num_blocks(n) == 2 ^ Cardinality({k \in DOMAIN Limits : n >= Limits[k]})

IntCells(n) == [k \in 1..SizeofInt |-> IF k = 1 THEN n ELSE 0]
IntAt(s, p) == At(s, p)

BlockStart(n, b) == b * (n \div bsc_lzp_num_blocks(n))
BlockSize(n, b) ==
    IF b # bsc_lzp_num_blocks(n) - 1 THEN n \div bsc_lzp_num_blocks(n) ELSE n - BlockStart(n, b)
Block(s, b) == SubSeq(s, BlockStart(Len(s), b) + 1, BlockStart(Len(s), b) + BlockSize(Len(s), b))
DataStart(blocks) == 1 + 2 * SizeofInt * blocks

Header(s, sizes) ==
    <<Len(sizes)>> \o FlattenSeq([k \in DOMAIN sizes |->
        IntCells(BlockSize(Len(s), k - 1)) \o IntCells(sizes[k])])

\* From block b on, with the blocks before it packed to these; most is the
\* highest position that was written.
RECURSIVE SerialBlocks(_, _, _, _, _, _, _)
SerialBlocks(s, b, packed, minLen, slots, unaligned, most) ==
    LET n == Len(s)
        ptr == DataStart(bsc_lzp_num_blocks(n)) + Len(FlattenSeq(packed))
        block == Block(s, b)
        c == bsc_lzp_encode_block(block, Least(Len(block), n - ptr), minLen, slots, unaligned)
        high == Max({most, ptr + Len(c.out)})
    IN  IF b = bsc_lzp_num_blocks(n)
        THEN [res |-> ptr, most |-> most,
              out |-> Header(s, [k \in DOMAIN packed |-> Len(packed[k])]) \o FlattenSeq(packed)]
        ELSE IF c.res \in Errors /\ ptr + Len(block) >= n
        THEN [res |-> NotCompressible, most |-> high, out |-> <<>>]
        ELSE SerialBlocks(s, b + 1, Append(packed, IF c.res \in Errors THEN block ELSE c.out),
                          minLen, slots, unaligned, high)

bsc_lzp_compress_serial(s, minLen, slots, unaligned) ==
    LET n == Len(s)
        one == bsc_lzp_encode_block(s, n - 2, minLen, slots, unaligned)
    IN  IF bsc_lzp_num_blocks(n) > 1
        THEN SerialBlocks(s, 0, <<>>, minLen, slots, unaligned, 0)
        ELSE IF one.res \in Errors
        THEN [res |-> one.res, most |-> 1 + Len(one.out), out |-> <<>>]
        ELSE [res |-> one.res + 1, most |-> 1 + Len(one.out), out |-> <<1>> \o one.out]

\* Each block into its part of a buffer, then all of them after the header.
bsc_lzp_compress_parallel(s, minLen, slots, unaligned) ==
    LET n == Len(s)
        kept(b) ==
            LET block == Block(s, b)
                c == bsc_lzp_encode_block(block, Len(block), minLen, slots, unaligned)
            IN  IF c.res \in Errors THEN block ELSE c.out
        packed == [k \in 1..bsc_lzp_num_blocks(n) |-> kept(k - 1)]
        out == Header(s, [k \in DOMAIN packed |-> Len(packed[k])]) \o FlattenSeq(packed)
    IN  IF Len(out) >= n
        THEN [res |-> NotCompressible, most |-> DataStart(Len(packed)), out |-> <<>>]
        ELSE [res |-> Len(out), most |-> Len(out), out |-> out]

\* openmp is LIBBSC_OPENMP, with more than one thread.
bsc_lzp_compress(s, minLen, slots, unaligned, openmp) ==
    IF openmp /\ bsc_lzp_num_blocks(Len(s)) # 1
    THEN bsc_lzp_compress_parallel(s, minLen, slots, unaligned)
    ELSE bsc_lzp_compress_serial(s, minLen, slots, unaligned)

\* reach tells how far into its place each of the blocks was stored.
bsc_lzp_decompress(input, minLen, slots, unaligned) ==
    LET blocks == At(input, 0)
        outputSize(b) == IntAt(input, 1 + 2 * SizeofInt * b)
        inputSize(b) == IntAt(input, 1 + 2 * SizeofInt * b + SizeofInt)
        result == [k \in 1..blocks |->
            LET b == k - 1
                ptr == DataStart(blocks) + MapThenSumSet(inputSize, 0..(b - 1))
                data == SubSeq(input, ptr + 1, ptr + inputSize(b))
            IN  IF inputSize(b) # outputSize(b)
                THEN bsc_lzp_decode_block(data, minLen, slots, unaligned)
                ELSE [res |-> inputSize(b), out |-> data, most |-> inputSize(b)]]
        one == bsc_lzp_decode_block(SubSeq(input, 2, Len(input)), minLen, slots, unaligned)
    IN  IF blocks = 1 THEN [res |-> one.res, out |-> one.out, reach |-> <<one.most>>]
        ELSE [res |-> MapThenSumSet(LAMBDA k : result[k].res, 1..blocks),
              out |-> FlattenSeq([k \in 1..blocks |-> result[k].out]),
              reach |-> [k \in 1..blocks |-> result[k].most]]
=============================================================================
