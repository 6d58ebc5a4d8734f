---------------------------- MODULE MCLzma2DecMt ----------------------------
(* Streams for the multi-threaded LZMA2 decoder. *)
EXTENDS Lzma2DecMt

Blocks3 == <<"n", "d", "c", "d", "n", "d", "c", "d", "n", "d", "e">>
Blocks5 == <<"n", "d", "c", "d", "n", "d", "c", "d", "n", "d", "n", "d", "c", "d", "c", "d", "n", "d", "c", "d", "e">>
MCStreams ==
    {Blocks3, Blocks5, SubSeq(Blocks3, 1, 4), SubSeq(Blocks3, 1, 7),
     <<"n", "d", "n", "d", "c", "d", "n", "d", "e", "x", "x">>,     \* small blocks, junk behind
     <<"n", "d", "c", "d", "n", "d", "c", "d", "c", "d", "c", "d", "e">>,  \* a large block
     <<"n", "d", "c", "d", "n", "x", "n", "d", "c", "d", "e">>,     \* damaged data
     <<"n", "d", "c", "d", "x", "d", "n", "d", "e">>,               \* a damaged header
     <<"c", "d", "e">>,                                             \* no dictionary
     <<"e">>}
MCSizeErrors == {-1, 0, 1}
MCCut == {SubSeq(Blocks3, 1, 4)}
=============================================================================
