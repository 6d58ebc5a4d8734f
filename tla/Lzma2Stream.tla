---------------------------- MODULE Lzma2Stream ----------------------------
(***************************************************************************)
(* How LZMA2 data is taken apart (Lzma2Dec.c): by the parser that finds    *)
(* where an independent block ends, without decoding anything, and by the  *)
(* decoder.  Data is a sequence of places in a Stream of symbols:          *)
(*   "n"  the header of a chunk that resets the dictionary: a new block,   *)
(*   "c"  the header of any other chunk,                                   *)
(*   "d"  the data of a chunk, which gives one unit of output,             *)
(*   "x"  a header or data that is damaged,                                *)
(*   "e"  the end marker.                                                  *)
(* A decoder is what it expects next and whether it has a dictionary.      *)
(***************************************************************************)
EXTENDS Integers, Sequences, SequencesExt

CONSTANTS OutBlockMax,    \* props.outBlockMax: output of a block kept in memory
          MinBlock        \* 1 << 14: smaller blocks are decoded together

Folded(op(_, _), base, seq) ==
    LET f[k \in 0..Len(seq)] == IF k = 0 THEN base ELSE op(f[k - 1], seq[k])
    IN  f[Len(seq)]

NewDecoder == [state |-> "CONTROL", hasDic |-> FALSE]

\* Lzma2Dec_UpdateState: a chunk that uses a dictionary needs one.
UpdateState(dec, s) ==
    CASE s = "e" -> [dec EXCEPT !.state = "FINISHED"]
      [] s = "n" -> [state |-> "DATA", hasDic |-> TRUE]
      [] s = "c" /\ dec.hasDic -> [dec EXCEPT !.state = "DATA"]
      [] OTHER -> [dec EXCEPT !.state = "ERROR"]

-----------------------------------------------------------------------------
(* The parser: Lzma2Dec_Parse as Lzma2DecMt_MtCallback_Parse calls it.     *)
(* "more" is LZMA_STATUS_NEEDS_MORE_INPUT, "full" what is called overflow. *)

AtNewBlock(acc) == acc.dicPos >= MinBlock

\* The output is as much as there may be of it.
NoRoom(acc, limit) == acc.dicPos >= limit \/ acc.dicPos >= OutBlockMax

ParseHeader(acc, s, limit) ==
    LET dec == UpdateState(acc.dec, s)
        used == acc.used + 1
        read == [acc EXCEPT !.dec = dec, !.used = used]
    IN  CASE dec.state = "FINISHED" -> [read EXCEPT !.status = "mark"]
          [] dec.state = "ERROR" -> [read EXCEPT !.status = "error"]
          [] s = "n" /\ acc.dicPos > 0 /\ AtNewBlock(acc) -> [read EXCEPT !.status = "block"]
          [] s = "n" /\ acc.dicPos > 0 /\ ~ AtNewBlock(acc) ->
               [read EXCEPT !.point = [used |-> used, dicPos |-> acc.dicPos],
                            !.status = IF NoRoom(acc, limit) THEN "full" ELSE "more"]
          [] OTHER -> [read EXCEPT !.status = IF NoRoom(acc, limit) THEN "full" ELSE "more"]

ParseData(acc) ==
    [acc EXCEPT !.dec.state = "CONTROL", !.used = @ + 1, !.dicPos = @ + 1]

NoPoint == [used |-> 0, dicPos |-> 0]

\* The last small block that ended is the end if nothing better was found.
Reverted(acc) ==
    IF acc.point # NoPoint /\ acc.status \in {"more", "full"}
    THEN [acc EXCEPT !.status = "block", !.dicPos = acc.point.dicPos, !.used = acc.point.used]
    ELSE acc

\* The header of the next block does not belong to the block.
WithoutNextHeader(acc) == IF acc.status = "block" THEN [acc EXCEPT !.used = @ - 1] ELSE acc

\* one turn of the loop of Lzma2Dec_Parse, for the symbol s
ParseOne(acc, s, limit) ==
    IF acc.status # "more" THEN acc
    ELSE IF acc.dec.state = "DATA" THEN ParseData(acc)
    ELSE ParseHeader(acc, s, limit)

\* symbols, taken by a parser that is at dec and dicPos with at most limit to
\* come out of the block
Parse(dec, dicPos, symbols, limit) ==
    LET Take(acc, s) == ParseOne(acc, s, limit)
        acc0 == [dec |-> dec, dicPos |-> dicPos, used |-> 0, point |-> NoPoint, status |-> "more"]
    IN  WithoutNextHeader(Reverted(Folded(Take, acc0, symbols)))

-----------------------------------------------------------------------------
(* The decoder: Lzma2Dec_DecodeToDic up to limit units of output; with     *)
(* finish (LZMA_FINISH_END) nothing but the end may follow them.           *)

\* one turn of its loop, for the symbol s at place k
DecodeOne(acc, k, s, limit, finish) ==
    LET next == UpdateState(acc.dec, s)
        full == Len(acc.out) = limit
    IN  IF acc.res # "OK" \/ acc.dec.state = "FINISHED" \/ (full /\ ~ finish) THEN acc
        ELSE IF acc.dec.state = "DATA"
        THEN IF full \/ s = "x"
             THEN [acc EXCEPT !.res = "DATA", !.dec.state = "ERROR"]
             ELSE [acc EXCEPT !.dec.state = "CONTROL", !.used = @ + 1, !.out = Append(@, k)]
        ELSE IF next.state = "ERROR" \/ (full /\ next.state # "FINISHED")
        THEN [acc EXCEPT !.res = "DATA", !.dec.state = "ERROR", !.used = @ + 1]
        ELSE [acc EXCEPT !.dec = next, !.used = @ + 1]

Decode(dec, places, stream, limit, finish) ==
    LET Take(acc, k) == DecodeOne(acc, k, stream[k], limit, finish)
    IN  Folded(Take, [dec |-> dec, out |-> <<>>, used |-> 0, res |-> "OK"], places)
=============================================================================
