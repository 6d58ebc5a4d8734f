---------------------------------- MODULE Lzjb ----------------------------------
(***************************************************************************)
(* The LZJB codec (lzjb/lzjb.c): items, a byte of the input or two bytes   *)
(* for a match, in groups of NBBY behind a byte of flags.  A byte has Bits *)
(* bits, 8 in the code, where NBBY is 12: what that does to flags, lengths *)
(* and data is what this module is about.  The coder is a step function of *)
(* its locals, run to the end of the input.                                *)
(***************************************************************************)
EXTENDS Integers, Sequences

CONSTANTS NBBY,         \* items in a group
          Bits,         \* MATCH_BITS, and bits in a byte
          LEMPEL_SIZE

MATCH_MIN == 4
MATCH_MAX == 2^Bits + MATCH_MIN - 1
Byte == 2^Bits
Unwritten == -1         \* a byte of the output nobody has written

\* LZJB_MAX_COMPRESSED_SIZE, where a group is taken to have Bits items.
MaxCompressedSize(n) == n + (n + Bits - 1) \div Bits + 2 * Bits

-----------------------------------------------------------------------------
(* lzjb_compress: positions of src are 0..Len - 1, addr its address. *)

At(src, p) == src[p + 1]

Hash(src, p) ==
    LET h == At(src, p) * Byte * Byte + At(src, p + 1) * Byte + At(src, p + 2)
        g == h + h \div (2 * Byte)
    IN  (g + g \div (Byte \div 2)) % LEMPEL_SIZE

\* Only three bytes are compared, though a match has at least four.
Matches(src, p, cpy) ==
    /\ cpy >= 0 /\ cpy # p
    /\ \A k \in 0..2 : At(src, p + k) = At(src, cpy + k)

MatchLength(src, p, cpy) ==
    CHOOSE n \in MATCH_MIN..MATCH_MAX :
        /\ \A k \in MATCH_MIN..(n - 1) : At(src, p + k) = At(src, cpy + k)
        /\ n = MATCH_MAX \/ At(src, p + n) # At(src, cpy + n)

\* *copymap |= copymask: the byte has no room for the flags of items Bits and up.
WithFlag(map, item) == IF item < Bits THEN map + 2^item ELSE map

MatchBytes(n, offset) ==
    << (((n - MATCH_MIN) * 2^(NBBY - Bits)) % Byte) + offset \div 2^NBBY, offset % Byte >>

Literal(s, src) == [s EXCEPT !.p = @ + 1, !.dst = Append(@, At(src, s.p))]

\* What the coding of the match at p = s.p of length n makes of it.
Damages(s, src, cpy, n) ==
    (IF At(src, s.p + 3) # At(src, cpy + 3) THEN {"fourth byte"} ELSE {})
    \cup (IF s.item >= Bits THEN {"flag"} ELSE {})
    \cup (IF MatchBytes(n, 0)[1] \div 2^(NBBY - Bits) # n - MATCH_MIN THEN {"length"} ELSE {})

Match(s, src, cpy) ==
    LET n == MatchLength(src, s.p, cpy) IN
    [s EXCEPT !.p = @ + n,
              !.dst = [@ EXCEPT ![s.map] = WithFlag(@, s.item)] \o MatchBytes(n, s.p - cpy),
              !.damages = @ \cup Damages(s, src, cpy, n)]

\* Wrong: room for the flags of a group is enough.
NoRoomForFlags(s, dLen) == Len(s.dst) >= dLen - 1

NoRoom(s, dLen) == Len(s.dst) >= dLen - 1 - 2 * NBBY

\* The flags of a group come before it.
Grouped(s) ==
    IF s.item + 1 = NBBY
    THEN [s EXCEPT !.item = 0, !.map = Len(s.dst) + 1, !.dst = Append(@, 0)]
    ELSE [s EXCEPT !.item = @ + 1]

\* lempel holds addresses, of which the lowest Bits tell the offset.
Item(s, src, addr) ==
    IF s.p > Len(src) - MATCH_MAX THEN Literal(s, src)
    ELSE LET h == Hash(src, s.p)
             cpy == s.p - ((addr + s.p - s.lempel[h]) % Byte)
             t == [s EXCEPT !.lempel[h] = addr + s.p]
         IN  IF Matches(src, s.p, cpy) THEN Match(t, src, cpy) ELSE Literal(t, src)

RECURSIVE Coded(_, _, _, _)
Coded(s, src, addr, dLen) ==
    IF s.p >= Len(src) THEN s
    ELSE IF s.item + 1 = NBBY /\ NoRoom(s, dLen) THEN [s EXCEPT !.full = TRUE]
    ELSE Coded(Item(Grouped(s), src, addr), src, addr, dLen)

lzjb_compress(src, addr, dLen) ==
    Coded([p |-> 0, dst |-> <<>>, item |-> NBBY - 1, map |-> 0, damages |-> {},
           lempel |-> [h \in 0..(LEMPEL_SIZE - 1) |-> 0], full |-> FALSE], src, addr, dLen)

-----------------------------------------------------------------------------
(* lzjb_decompress *)

\* Copying byte by byte from what may not yet be written.
RECURSIVE CopyFrom(_, _, _)
CopyFrom(dst, cpy, n) ==
    IF n = 0 THEN dst
    ELSE CopyFrom(Append(dst, IF cpy < Len(dst) THEN dst[cpy + 1] ELSE Unwritten), cpy + 1, n - 1)

DecodedMatch(d, src, dLen) ==
    LET mlen == At(src, d.p) \div 2^(NBBY - Bits) + MATCH_MIN
        cpy == Len(d.dst) - ((At(src, d.p) * 2^NBBY + At(src, d.p + 1)) % Byte)
    IN  IF cpy < 0 THEN [d EXCEPT !.res = "BAD_DATA"]
        ELSE IF mlen > dLen - Len(d.dst) THEN [d EXCEPT !.res = "WOULD_OVERFLOW"]
        ELSE [d EXCEPT !.p = @ + 2, !.dst = CopyFrom(@, cpy, mlen)]

EndsBefore(d, src, n) == d.p + n > Len(src)

ItemOf(d, src, dLen) ==
    IF d.item < Bits /\ (d.map \div 2^d.item) % 2 = 1
    THEN IF EndsBefore(d, src, 2) THEN [d EXCEPT !.res = "WOULD_OVERFLOW"]
         ELSE DecodedMatch(d, src, dLen)
    ELSE IF EndsBefore(d, src, 1) THEN [d EXCEPT !.res = "WOULD_OVERFLOW"]
    ELSE [d EXCEPT !.p = @ + 1,
                   !.dst = Append(@, IF d.p < Len(src) THEN At(src, d.p) ELSE Unwritten)]

Regrouped(d, src) ==
    IF d.item + 1 = NBBY THEN [d EXCEPT !.item = 0, !.map = At(src, d.p), !.p = @ + 1]
    ELSE [d EXCEPT !.item = @ + 1]

RECURSIVE Decoded(_, _, _)
Decoded(d, src, dLen) ==
    IF d.res # "OK" \/ d.p >= Len(src) THEN d
    ELSE IF Len(d.dst) >= dLen THEN [d EXCEPT !.res = "WOULD_OVERFLOW"]
    ELSE Decoded(ItemOf(Regrouped(d, src), src, dLen), src, dLen)

lzjb_decompress(src, dLen) ==
    Decoded([p |-> 0, dst |-> <<>>, item |-> NBBY - 1, map |-> 0, res |-> "OK"], src, dLen)
=============================================================================
