--------------------------------- MODULE Lz77 ---------------------------------
(***************************************************************************)
(* The LZ77 codec (DCA/compressionTypes/lz77/lz77.h): compress_t turns a   *)
(* message into packets, decompress_t takes the octets of one message      *)
(* after the other, in chunks cut anywhere.                                *)
(*                                                                         *)
(* Octets are numbers below 2 * VlqBase; those from VlqBase on say, in a   *)
(* number, that more digits follow.  Which of the earlier positions the    *)
(* hash table offers is left open: that decides how well a message packs,  *)
(* not what it unpacks to.                                                 *)
(***************************************************************************)
EXTENDS Integers, Sequences, SequencesExt

CONSTANTS MessageLists,    \* the lists of messages a caller may send
          VlqBase,         \* 2^7: values of a digit of a number
          MinRun,          \* MIN_RUN
          ShortrunMax,     \* SHORTRUN_MAX
          MaxSizes         \* max_size of the decoder, 0 for none

ASSUME ParametersAssumption ==
    /\ VlqBase \in Nat \ {0, 1} /\ MinRun \in Nat \ {0} /\ ShortrunMax \in Nat \ {0, 1}
    /\ MaxSizes \subseteq Nat
    /\ MessageLists \subseteq Seq(Seq(0..(2 * VlqBase - 1)))

VARIABLES messages,        \* what is sent
          packing,         \* how many messages are packed, or being packed
          i,               \* octets of the current message the compressor has passed
          unc,             \* octets waiting for a packet of uncompressed data
          wire,            \* all that was written so far
          max_size,
          state,           \* state of the decoder
          vlq,             \* digits of an unfinished number: value and next weight
          msg,
          size,            \* size of the message, from its first number
          ret,             \* what is unpacked of it
          rd, chunkEnd,    \* the octets of wire taken, and those handed over
          inFeed,          \* a call of feed is running
          received,        \* a result() for every feed that returned true
          thrown           \* the exception feed ended with, or "none"

encoderVars == <<messages, packing, i, unc, wire, max_size>>
decoderVars == <<state, vlq, msg, size, ret, rd, chunkEnd, inFeed, received, thrown>>
vars == <<encoderVars, decoderVars>>

Message == messages[packing]
NoDigits == [num |-> 0, weight |-> 1]

Init ==
    /\ messages \in MessageLists
    /\ packing = 0
    /\ i = 0
    /\ unc = <<>>
    /\ wire = <<>>
    /\ max_size \in MaxSizes
    /\ state = "INIT"
    /\ vlq = NoDigits
    /\ msg = 0
    /\ size = 0
    /\ ret = <<>>
    /\ rd = 0
    /\ chunkEnd = 0
    /\ inFeed = FALSE
    /\ received = <<>>
    /\ thrown = "none"

-----------------------------------------------------------------------------
(* compress_t.                                                             *)

push_vlq_uint[n \in Nat] ==
    IF n < VlqBase THEN <<n>>
    ELSE <<(n % VlqBase) + VlqBase>> \o push_vlq_uint[n \div VlqBase]

DataPacket(s) == IF s = <<>> THEN <<>> ELSE push_vlq_uint[2 * Len(s) + 1] \o s

RunPacket(offset, run) ==
    LET code == run - MinRun + 1
    IN  IF code < ShortrunMax
        THEN push_vlq_uint[2 * (offset * ShortrunMax + code)]
        ELSE push_vlq_uint[2 * offset * ShortrunMax] \o push_vlq_uint[code]

\* The length of what two places of the message have in common.
substr_run(a, b) ==
    CHOOSE n \in 0..(Len(Message) - a) :
        /\ \A k \in 1..n : Message[a + k] = Message[b + k]
        /\ a + n = Len(Message) \/ Message[a + n + 1] # Message[b + n + 1]

Packing == packing > 0 /\ i < Len(Message)

StartMessage ==
    /\ packing < Len(messages) /\ ~ Packing /\ unc = <<>>
    /\ packing' = packing + 1
    /\ i' = 0
    /\ wire' = wire \o push_vlq_uint[Len(messages[packing + 1])]
    /\ UNCHANGED <<messages, unc, max_size, decoderVars>>

PassOctet ==
    /\ Packing
    /\ unc' = Append(unc, Message[i + 1])
    /\ i' = i + 1
    /\ UNCHANGED <<messages, packing, wire, max_size, decoderVars>>

PackRun ==
    /\ Packing /\ i + MinRun <= Len(Message)
    /\ \E pos \in 0..(i - 1) :
          LET run == substr_run(i, pos) IN
            /\ run >= MinRun
            /\ wire' = wire \o DataPacket(unc) \o RunPacket(i - pos, run)
            /\ i' = i + run
    /\ unc' = <<>>
    /\ UNCHANGED <<messages, packing, max_size, decoderVars>>

FlushData ==
    /\ packing > 0 /\ i = Len(Message) /\ unc # <<>>
    /\ wire' = wire \o DataPacket(unc)
    /\ unc' = <<>>
    /\ UNCHANGED <<messages, packing, i, max_size, decoderVars>>

Packed == packing = Len(messages) /\ ~ Packing /\ unc = <<>>

-----------------------------------------------------------------------------
(* decompress_t.  The caller hands on what the last feed left over, with   *)
(* more of the octets or without.                                          *)

Feed ==
    /\ Packed /\ ~ inFeed /\ thrown = "none"
    /\ \E end \in chunkEnd..Len(wire) : end > rd /\ chunkEnd' = end
    /\ inFeed' = TRUE
    /\ ret' = IF state = "INIT" THEN <<>> ELSE ret
    /\ UNCHANGED <<encoderVars, state, vlq, msg, size, rd, received, thrown>>

More == rd < chunkEnd
Octet == wire[rd + 1]
Number == vlq.num + (Octet % VlqBase) * vlq.weight
shortrun == msg % ShortrunMax

\* feed is about to take a number: the size, the head of a packet, or a run.
PopsNumber ==
    /\ inFeed
    /\ \/ state = "INIT"
       \/ state = "START" /\ Len(ret) < size
       \/ state = "READ_RUN" /\ shortrun = 0

PopDigit ==
    /\ PopsNumber /\ More /\ Octet >= VlqBase
    /\ vlq' = [num |-> Number, weight |-> vlq.weight * VlqBase]
    /\ rd' = rd + 1
    /\ UNCHANGED <<encoderVars, state, msg, size, ret, chunkEnd, inFeed, received, thrown>>

PopsLast == PopsNumber /\ More /\ Octet < VlqBase

TakeSize ==
    /\ PopsLast /\ state = "INIT"
    /\ max_size = 0 \/ Number <= max_size
    /\ size' = Number
    /\ state' = "START"
    /\ vlq' = NoDigits
    /\ rd' = rd + 1
    /\ UNCHANGED <<encoderVars, msg, ret, chunkEnd, inFeed, received, thrown>>

TooLarge ==
    /\ PopsLast /\ state = "INIT"
    /\ max_size > 0 /\ Number > max_size
    /\ thrown' = "length_error"
    /\ inFeed' = FALSE
    /\ vlq' = NoDigits
    /\ rd' = rd + 1
    /\ UNCHANGED <<encoderVars, state, msg, size, ret, chunkEnd, received>>

TakeHead ==
    /\ PopsLast /\ state = "START"
    /\ state' = IF Number % 2 = 1 THEN "READ_DATA" ELSE "READ_RUN"
    /\ msg' = Number \div 2
    /\ vlq' = NoDigits
    /\ rd' = rd + 1
    /\ UNCHANGED <<encoderVars, size, ret, chunkEnd, inFeed, received, thrown>>

Malformed ==
    /\ thrown' = "runtime_error"
    /\ inFeed' = FALSE
    /\ UNCHANGED <<state, msg, ret>>

\* Wrong: what was copied of a packet is not taken off its length.
ReadDataForgetful ==
    /\ inFeed /\ state = "READ_DATA" /\ More
    /\ LET l == IF rd + msg > chunkEnd THEN chunkEnd - rd ELSE msg IN
         \/ Len(ret) + msg > size /\ Malformed /\ UNCHANGED rd
         \/ /\ Len(ret) + msg <= size
            /\ ret' = ret \o SubSeq(wire, rd + 1, rd + l)
            /\ rd' = rd + l
            /\ state' = IF l < msg THEN state ELSE "START"
            /\ UNCHANGED <<msg, inFeed, thrown>>
    /\ UNCHANGED <<encoderVars, vlq, size, chunkEnd, received>>

\* A packet of uncompressed data, or as much of it as the chunk has.
ReadData ==
    /\ inFeed /\ state = "READ_DATA" /\ More
    /\ LET l == IF rd + msg > chunkEnd THEN chunkEnd - rd ELSE msg IN
         \/ Len(ret) + msg > size /\ Malformed /\ UNCHANGED rd
         \/ /\ Len(ret) + msg <= size
            /\ ret' = ret \o SubSeq(wire, rd + 1, rd + l)
            /\ rd' = rd + l
            /\ state' = IF l < msg THEN state ELSE "START"
            /\ msg' = IF l < msg THEN msg - l ELSE msg
            /\ UNCHANGED <<inFeed, thrown>>
    /\ UNCHANGED <<encoderVars, vlq, size, chunkEnd, received>>

\* Wrong: a run that reaches into itself finds nothing there.
RepeatAtOnce(s, off, run) ==
    s \o [k \in 1..run |-> IF off = 0 \/ k > off THEN 0 ELSE s[Len(s) - off + k]]

\* Octet by octet, so that a run may reach into itself.
Repeat(s, off, run) ==
    s \o [k \in 1..run |-> IF off = 0 THEN 0 ELSE s[Len(s) - off + 1 + ((k - 1) % off)]]

CopyRun(code) ==
    LET off == msg \div ShortrunMax
        run == code + MinRun - 1
    IN  \/ (off > Len(ret) \/ Len(ret) + run > size) /\ Malformed
        \/ /\ off <= Len(ret) /\ Len(ret) + run <= size
           /\ ret' = Repeat(ret, off, run)
           /\ state' = "START"
           /\ UNCHANGED <<msg, inFeed, thrown>>

\* A short run needs no more octets and is copied even at the chunk's end.
ReadShortRun ==
    /\ inFeed /\ state = "READ_RUN" /\ shortrun > 0
    /\ CopyRun(shortrun)
    /\ UNCHANGED <<encoderVars, vlq, size, rd, chunkEnd, received>>

ReadLongRun ==
    /\ PopsLast /\ state = "READ_RUN"
    /\ CopyRun(Number)
    /\ vlq' = NoDigits
    /\ rd' = rd + 1
    /\ UNCHANGED <<encoderVars, size, chunkEnd, received>>

\* feed returns true: the message is complete.
ReturnDone ==
    /\ inFeed /\ state = "START" /\ Len(ret) = size
    /\ state' = "INIT"
    /\ inFeed' = FALSE
    /\ received' = Append(received, ret)
    /\ UNCHANGED <<encoderVars, vlq, msg, size, ret, rd, chunkEnd, thrown>>

Hungry ==
    /\ inFeed /\ ~ More
    /\ state \in {"START", "READ_DATA", "READ_RUN"} /\ Len(ret) < size
    /\ state = "READ_RUN" => shortrun = 0

\* Wrong: the digits read so far are lost with the chunk.
ReturnMoreForgetful ==
    /\ Hungry
    /\ inFeed' = FALSE
    /\ vlq' = NoDigits
    /\ UNCHANGED <<encoderVars, state, msg, size, ret, rd, chunkEnd, received, thrown>>

\* feed returns false: it needs more octets.
ReturnMore ==
    /\ Hungry
    /\ inFeed' = FALSE
    /\ UNCHANGED <<encoderVars, state, vlq, msg, size, ret, rd, chunkEnd, received, thrown>>

\* The chunk ends inside the size: feed returns true all the same.
ReturnAtSize ==
    /\ inFeed /\ state = "INIT" /\ ~ More
    /\ inFeed' = FALSE
    /\ received' = Append(received, ret)
    /\ UNCHANGED <<encoderVars, state, vlq, msg, size, ret, rd, chunkEnd, thrown>>

Finished ==
    /\ Packed /\ ~ inFeed
    /\ rd = Len(wire) \/ thrown # "none"
    /\ UNCHANGED vars

Next ==
    \/ StartMessage \/ PassOctet \/ PackRun \/ FlushData
    \/ Feed \/ PopDigit \/ TakeSize \/ TooLarge \/ TakeHead
    \/ ReadData \/ ReadShortRun \/ ReadLongRun
    \/ ReturnDone \/ ReturnMore \/ ReturnAtSize
    \/ Finished

Spec == Init /\ [][Next]_vars

-----------------------------------------------------------------------------
(* Properties. *)

Octets == 0..(2 * VlqBase - 1)

\* Every variable has its type.
TypeOK ==
    /\ packing \in 0..Len(messages) /\ i \in Nat
    /\ unc \in Seq(Octets) /\ wire \in Seq(Octets) /\ ret \in Seq(Octets)
    /\ state \in {"INIT", "START", "READ_DATA", "READ_RUN"}
    /\ vlq \in [num : Nat, weight : Nat \ {0}]
    /\ msg \in Nat /\ size \in Nat
    /\ rd \in 0..chunkEnd /\ chunkEnd \in 0..Len(wire)
    /\ inFeed \in BOOLEAN
    /\ received \in Seq(Seq(Octets))
    /\ thrown \in {"none", "length_error", "runtime_error"}

NotEmpty(list) ==
    LET f[k \in 0..Len(list)] == IF k = 0 THEN <<>>
                                 ELSE IF list[k] = <<>> THEN f[k - 1]
                                 ELSE Append(f[k - 1], list[k])
    IN  f[Len(list)]

\* What the decoder gives for the feeds that return true are the messages,
\* in order and whole, however the octets were cut into chunks and whatever
\* earlier places the compressor chose to refer to.  Empty results are left
\* aside: they may come of a chunk that ends inside a size (ReturnAtSize).
InOrder == IsPrefix(NotEmpty(received), NotEmpty(messages))

\* What the compressor writes never looks malformed to the decoder: no packet
\* runs past the size of its message, no run begins before the message.
NeverMalformed == thrown # "runtime_error"

\* When all octets were fed and no size was refused, all messages are there:
\* no state of a feed is lost between two chunks.
AllArrive ==
    Packed /\ ~ inFeed /\ rd = Len(wire) /\ thrown = "none" =>
      NotEmpty(received) = NotEmpty(messages)
=============================================================================
