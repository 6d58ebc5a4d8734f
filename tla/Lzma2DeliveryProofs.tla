------------------------- MODULE Lzma2DeliveryProofs --------------------------
(***************************************************************************)
(* What TLAPS proves of Lzma2DecMt, for every number of threads, every     *)
(* stream and every set of faults: what the threads read ahead agrees      *)
(* with what is made of it, and the decoder implements Delivery.           *)
(*                                                                         *)
(* The argument, on top of DataInv of Lzma2DecMtProofs. A block that was   *)
(* parsed to its end decodes to the units that Walk has for its places,    *)
(* so the coder's checks after decoding find nothing; its thread writes    *)
(* them when it has the turn, which is when all before them are written.   *)
(* Where a block cannot be decoded by its thread, the blocks that were     *)
(* read are what one thread takes over: the places from where the output   *)
(* ends to where the reading is, in their order, in the links of one       *)
(* block after the other and then in what crossed over. One thread         *)
(* decodes these as Walk does. So the output is at every moment a          *)
(* beginning of what one decoder of the whole stream gives, and all of it  *)
(* when the verdict is that the stream is sound.                           *)
(***************************************************************************)
EXTENDS Lzma2DecMtProofs

-----------------------------------------------------------------------------
(* A link is decoded. *)
Finishes(c) == c.parseStatus \in {"mark", "block"}
CodeStops(c, n, r, dicPos, inCodeSize) ==
    IF Finishes(c) THEN c.inPreSize = inCodeSize ELSE r.used # n \/ c.outPreSize = dicPos
CodeShort(c, n, r, dicPos, inCodeSize) ==
    Finishes(c) /\ (n # r.used \/ (c.inPreSize = inCodeSize /\ c.outPreSize # dicPos))
CodeOver(t, c, n, r, dicPos, inCodeSize, res) ==
    res # OK \/ CodeStops(c, n, r, dicPos, inCodeSize) \/ inCodeSize = me[t].size
      \/ InterruptedAt(me[t].blockIndex)

\* What the coder c of the thread makes of its next link, n places.
CodeMakes(t, c, n, r, dicPos, inCodeSize, res) ==
    /\ c = coders[t] /\ n = LinkSize(me[t].link, me[t].start, me[t].size)
    /\ r = Decode(c.dec, SubSeq(threads[t].inBuf[me[t].link], 1, n), stream,
                  c.outPreSize - c.dicPos, Finishes(c))
    /\ dicPos = c.dicPos + Len(r.out) /\ inCodeSize = c.inCodeSize + r.used
    /\ res = IF r.res # OK THEN r.res ELSE IF CodeShort(c, n, r, dicPos, inCodeSize) THEN "FAIL" ELSE OK

CodeLeaves(t, w, l2, c2, c, n, r, dicPos, inCodeSize, res) ==
    /\ c2 = [c EXCEPT !.dec = r.dec, !.dicPos = dicPos, !.inCodeSize = inCodeSize,
                      !.outCodeSize = dicPos, !.codeRes = r.res,
                      !.outBuf = Overwrite(@, SubSeq(@, 1, c.dicPos) \o r.out)]
    /\ l2.codeRes = res
    /\ l2.interrupted <=> /\ res = OK /\ ~ CodeStops(c, n, r, dicPos, inCodeSize) /\ inCodeSize # me[t].size
                          /\ InterruptedAt(me[t].blockIndex)
    /\ ~ CodeOver(t, c, n, r, dicPos, inCodeSize, res) => w = "code" /\ l2.link = me[t].link + 1
    /\ CodeOver(t, c, n, r, dicPos, inCodeSize, res) => w = "write" /\ l2.link = me[t].link
    /\ l2.size = me[t].size /\ l2.start = me[t].start /\ l2.blockIndex = me[t].blockIndex
    /\ l2.allocError = me[t].allocError /\ l2.overflow = me[t].overflow /\ l2.threading = me[t].threading
    /\ l2.needWrite = me[t].needWrite /\ l2.finish = me[t].finish /\ l2.next = me[t].next

CodeStep(t, res) ==
    /\ SameCall /\ UNCHANGED readVars /\ pc[t] = "code"
    /\ UNCHANGED <<blockIndex, out>> /\ threads' = threads
    /\ DOMAIN coders' = Threads
    /\ \A u \in Threads : u # t => me'[u] = me[u] /\ coders'[u] = coders[u] /\ pc'[u] = pc[u]
    /\ IF res # OK THEN Interrupt(me[t].blockIndex) ELSE UNCHANGED <<needInterrupt, interruptIndex>>

LEMMA CodeSteps ==
    ASSUME Shape, DOMAIN coders = Threads, NEW t \in Threads, Code(t)
    PROVE  \E c, n, r, dicPos, inCodeSize, res :
             /\ CodeStep(t, res)
             /\ CodeMakes(t, c, n, r, dicPos, inCodeSize, res)
             /\ CodeLeaves(t, pc'[t], me'[t], coders'[t], c, n, r, dicPos, inCodeSize, res)
<1> DEFINE c == coders[t]
           n == LinkSize(me[t].link, me[t].start, me[t].size)
           r == Decode(c.dec, SubSeq(threads[t].inBuf[me[t].link], 1, n), stream,
                  c.outPreSize - c.dicPos, Finishes(c))
           dicPos == c.dicPos + Len(r.out)
           inCodeSize == c.inCodeSize + r.used
           res == IF r.res # OK THEN r.res ELSE IF CodeShort(c, n, r, dicPos, inCodeSize) THEN "FAIL" ELSE OK
           stop == CodeStops(c, n, r, dicPos, inCodeSize)
           over == CodeOver(t, c, n, r, dicPos, inCodeSize, res)
           c2 == [c EXCEPT !.dec = r.dec, !.dicPos = dicPos, !.inCodeSize = inCodeSize,
                      !.outCodeSize = dicPos, !.codeRes = r.res,
                      !.outBuf = Overwrite(@, SubSeq(@, 1, c.dicPos) \o r.out)]
           stopped == res = OK /\ ~ stop /\ inCodeSize # me[t].size /\ InterruptedAt(me[t].blockIndex)
           link == IF over THEN me[t].link ELSE me[t].link + 1
           l2 == [me[t] EXCEPT !.codeRes = res, !.inCodePos = inCodeSize,
                        !.link = IF over THEN @ ELSE @ + 1, !.interrupted = stopped]
<1>1. /\ coders' = [coders EXCEPT ![t] = c2]
      /\ IF res # OK THEN Interrupt(me[t].blockIndex) ELSE UNCHANGED interruptVars
      /\ me' = [me EXCEPT ![t] = l2]
      /\ pc' = [pc EXCEPT ![t] = IF over THEN "write" ELSE "code"]
      /\ UNCHANGED <<callVars, readVars, blockIndex, startVars, exitThread, switchVars,
                   filledVars, threads, main, st, result, out>>
      /\ pc[t] = "code"
  BY Zenon DEF Code, Goto, Finishes, CodeStops, CodeShort, CodeOver
<1>2. CodeMakes(t, c, n, r, dicPos, inCodeSize, res)
  BY Zenon DEF CodeMakes
<1>3. /\ l2 = [me[t] EXCEPT !.codeRes = res, !.inCodePos = inCodeSize, !.link = link, !.interrupted = stopped]
      /\ link = IF over THEN me[t].link ELSE me[t].link + 1
      /\ stopped <=> (res = OK /\ ~ stop /\ inCodeSize # me[t].size /\ InterruptedAt(me[t].blockIndex))
      /\ stop <=> CodeStops(c, n, r, dicPos, inCodeSize)
      /\ over <=> CodeOver(t, c, n, r, dicPos, inCodeSize, res)
      /\ c2 = [c EXCEPT !.dec = r.dec, !.dicPos = dicPos, !.inCodeSize = inCodeSize,
                      !.outCodeSize = dicPos, !.codeRes = r.res,
                      !.outBuf = Overwrite(@, SubSeq(@, 1, c.dicPos) \o r.out)]
      /\ c = coders[t]
  BY Zenon
<1> HIDE DEF c, n, r, dicPos, inCodeSize, res, stop, over, c2, stopped, link, l2
<1>4. CodeStep(t, res)
  BY <1>1 DEF CodeStep, SameCall, callVars, interruptVars, Shape
<1>5. /\ me'[t] = l2 /\ coders'[t] = c2 /\ pc'[t] = IF over THEN "write" ELSE "code"
  BY <1>1 DEF Shape
<1>6. /\ l2.codeRes = res /\ l2.interrupted = stopped /\ l2.link = link
      /\ l2.size = me[t].size /\ l2.start = me[t].start /\ l2.blockIndex = me[t].blockIndex
      /\ l2.allocError = me[t].allocError /\ l2.overflow = me[t].overflow /\ l2.threading = me[t].threading
      /\ l2.needWrite = me[t].needWrite /\ l2.finish = me[t].finish /\ l2.next = me[t].next
  <2>1. DOMAIN me[t] = DOMAIN NoLocals
    BY DEF Shape
  <2>2. PICK s, f, x, y : s = stopped /\ f = res /\ x = inCodeSize /\ y = link
    BY Zenon
  <2>3. l2 = [me[t] EXCEPT !.codeRes = f, !.inCodePos = x, !.link = y, !.interrupted = s]
    BY <1>3, <2>2, Zenon
  <2>4. /\ l2.codeRes = f /\ l2.interrupted = s /\ l2.link = y
        /\ l2.size = me[t].size /\ l2.start = me[t].start /\ l2.blockIndex = me[t].blockIndex
        /\ l2.allocError = me[t].allocError /\ l2.overflow = me[t].overflow /\ l2.threading = me[t].threading
        /\ l2.needWrite = me[t].needWrite /\ l2.finish = me[t].finish /\ l2.next = me[t].next
    BY <2>1, <2>3, Locals DEF LocalsAreThere
  <2> QED  BY <2>2, <2>4, Zenon
<1>7. CodeLeaves(t, pc'[t], me'[t], coders'[t], c, n, r, dicPos, inCodeSize, res)
  <2>1. CodeLeaves(t, IF over THEN "write" ELSE "code", l2, c2, c, n, r, dicPos, inCodeSize, res)
    BY <1>3, <1>6, Zenon DEF CodeLeaves
  <2> QED  BY <1>5, <2>1, Zenon
<1> QED  BY <1>2, <1>4, <1>7, Zenon

-----------------------------------------------------------------------------
\* The coder c of a block after a, with the locals l, decodes its next link.
CodingAt(l, inBuf, c, a, n, r) ==
    /\ stream \in Seq(Symbols) /\ Len(stream) \in Nat /\ outSize \in Nat
    /\ a \in Nat /\ Linked(inBuf, l.start, l.size, a)
    /\ Fields(c) /\ Parsed(c, a, l.size) /\ Coding(c, l, a)
    /\ n = LinkSize(l.link, l.start, l.size)
    /\ r = Decode(c.dec, SubSeq(inBuf[l.link], 1, n), stream, c.outPreSize - c.dicPos, Finishes(c))

\* The link has the n places after p, of a block that is after a and up to b;
\* the decoder gets to q.
Decoded(l, c, a, m, size, n, p, b, r, q) ==
    /\ stream \in Seq(Symbols) /\ Len(stream) \in Nat /\ outSize \in Nat
    /\ m = Off(l.start, l.link) /\ size = l.size /\ p = a + m /\ b = a + size
    /\ a \in Nat /\ m \in Nat /\ size \in Nat /\ p \in Nat /\ b \in Nat /\ q \in Nat
    /\ m < size /\ n \in Nat /\ n > 0 /\ m + n <= size
    /\ m + n # size => Off(l.start, l.link + 1) = m + n
    /\ l.link \in Nat /\ l.link > 0
    /\ b <= Len(stream) /\ p <= q /\ q <= p + n
    /\ LikeDec(stream, c.dec, p)
    /\ r \in DecodeAccs /\ DecodedTo(r, stream, c.dec, p, Count(stream, b), Finishes(c), q, n)

LEMMA CodeWalk ==
    ASSUME NEW l, NEW inBuf, NEW c, NEW a, NEW n, NEW r, CodingAt(l, inBuf, c, a, n, r)
    PROVE  \E m, size, p, b, q : Decoded(l, c, a, m, size, n, p, b, r, q)
<1>1. /\ stream \in Seq(Symbols) /\ Len(stream) \in Nat /\ outSize \in Nat
      /\ a \in Nat /\ Linked(inBuf, l.start, l.size, a)
      /\ Fields(c) /\ Parsed(c, a, l.size) /\ Coding(c, l, a)
      /\ n = LinkSize(l.link, l.start, l.size)
      /\ r = Decode(c.dec, SubSeq(inBuf[l.link], 1, n), stream, c.outPreSize - c.dicPos, Finishes(c))
  BY DEF CodingAt
<1>2. PICK size \in Nat : size = l.size
  BY <1>1 DEF Linked, LinksHold
<1>3. PICK start \in Nat : start = l.start
  BY <1>1, <1>2 DEF Linked
<1>4. PICK link \in Nat : link = l.link /\ link > 0
  BY <1>1 DEF Coding
<1>5. PICK m : m = Off(start, link)
  OBVIOUS
<1>6. Off(start, link) < size
  BY <1>1, <1>2, <1>3, <1>4 DEF Coding
<1>7. IsNext(inBuf, start, size, a, link)
  BY <1>1, <1>2, <1>3, <1>4, <1>6 DEF IsNext
<1>8. n = LinkSize(link, start, size)
  BY <1>1, <1>2, <1>3, <1>4
<1>9. /\ n \in Nat /\ n > 0 /\ m \in Nat /\ m + n <= size
      /\ m + n # size => m + n = Off(start, link + 1)
      /\ SubSeq(inBuf[link], 1, n) = Place(a + m, n)
  <2>1. a \in Nat
    BY <1>1
  <2>3. /\ n \in Nat /\ n > 0 /\ Off(start, link) \in Nat /\ Off(start, link) + n <= size
        /\ Off(start, link) + n # size => Off(start, link) + n = Off(start, link + 1)
        /\ SubSeq(inBuf[link], 1, n) = Place(a + Off(start, link), n)
    <3>1. NextHolds(inBuf, start, size, a, link, n)
      BY <1>4, <1>7, <1>8, <2>1, LinkIs, Zenon
    <3> QED  BY <3>1 DEF NextHolds
  <2> QED  BY <1>5, <2>3
<1>10. PICK b \in Nat : b = a + size
  BY <1>1, <1>2
<1>11. PICK p \in Nat : p = a + m
  BY <1>1, <1>9
<1>12. /\ b <= Len(stream) /\ p \in 0..Len(stream) /\ b \in p..Len(stream) /\ a \in 0..Len(stream)
       /\ p + n <= Len(stream) /\ p < b
  <2>1. b <= Len(stream)
    BY <1>1, <1>2, <1>10 DEF Parsed
  <2> QED  BY <1>1, <1>5, <1>6, <1>9, <1>10, <1>11, <2>1, SMTT(30)
<1>13. /\ c.outPreSize = Count(stream, b) - Count(stream, a)
       /\ Count(stream, b) <= outSize /\ LiveFrom(stream, a, b)
       /\ size > 0 => Proper(stream, a)
  BY <1>1, <1>2, <1>10 DEF Parsed
<1>14. /\ c.dicPos = Count(stream, p) - Count(stream, a)
       /\ c.dec = IF m = 0 THEN NewDecoder ELSE Dec(stream, p)
  BY <1>1, <1>3, <1>4, <1>5, <1>11 DEF Coding, CameOut
<1>15. PICK P \in Nat : P = Count(stream, p)
  BY <1>1, <1>12, WalkTypes
<1>16. PICK B \in Nat : B = Count(stream, b) /\ P <= B
  BY <1>1, <1>12, <1>15, WalkTypes, OutGrows
<1>17. PICK K \in Nat : K = Count(stream, a)
  BY <1>1, <1>12, WalkTypes
<1>18. c.outPreSize - c.dicPos = B - P
  BY <1>13, <1>14, <1>15, <1>16, <1>17
<1>19. LikeDec(stream, c.dec, p)
  <2>1. CASE m = 0
    <3>1. p = a
      BY <1>1, <1>11, <2>1
    <3> QED  BY <1>5, <1>6, <1>9, <1>13, <1>14, <2>1, <3>1 DEF LikeDec
  <2> QED  BY <1>14, <2>1 DEF LikeDec
<1>20. c.dec \in Decs
  BY <1>1, <1>12, <1>19, LikeDecIs
<1>21. Live(stream, p)
  BY <1>9, <1>11, <1>12, <1>13 DEF LiveFrom
<1>22. PICK places : places = Place(p, n)
  OBVIOUS
<1>23. places \in Seq(Nat) /\ Len(places) = n /\ Leads(stream, places, p)
  BY <1>1, <1>9, <1>12, <1>22, PlaceIs, LeadsOn
<1>24. DecodesFrom(stream, p, c.dec, places, B, Finishes(c))
  <2>1. Finishes(c) \in BOOLEAN
    BY DEF Finishes
  <2> QED  BY <1>1, <1>12, <1>15, <1>16, <1>19, <1>20, <1>21, <1>23, <2>1 DEF DecodesFrom
<1>25. r = Decode(c.dec, places, stream, B - Count(stream, p), Finishes(c))
  BY <1>1, <1>4, <1>9, <1>11, <1>15, <1>18, <1>22
<1>26. r \in DecodeAccs /\ \E q : DecodedTo(r, stream, c.dec, p, B, Finishes(c), q, Len(places))
  BY <1>24, <1>25, DecodeWalk
<1>27. PICK q : DecodedTo(r, stream, c.dec, p, B, Finishes(c), q, n)
  BY <1>23, <1>26
<1>28. q \in p..Len(stream) /\ q <= p + n
  BY <1>27 DEF DecodedTo
<1>29. Decoded(l, c, a, m, size, n, p, b, r, q)
  BY <1>1, <1>2, <1>3, <1>4, <1>5, <1>6, <1>9, <1>10, <1>11, <1>12, <1>16, <1>19, <1>26, <1>27, <1>28 DEF Decoded
<1> QED  BY <1>29

\* A place before b up to which all came out that comes out up to b.
LEMMA LastOut ==
    ASSUME NEW s \in Seq(Symbols), NEW q \in Nat, NEW b \in Nat, q < b, b <= Len(s), LiveFrom(s, q, b),
           Count(s, q) >= Count(s, b)
    PROVE  State(s, q) = "CONTROL" /\ b = q + 1 /\ Count(s, q) = Count(s, b)
<1>1. Len(s) \in Nat /\ q \in 0..Len(s) /\ b \in 0..Len(s) /\ b \in q..Len(s)
  <2>1. Len(s) \in Nat
    BY WalkStart
  <2> QED  BY <2>1
<1>2. Live(s, q)
  BY DEF LiveFrom
<1>3. PICK q1 \in 1..Len(s) : q1 = q + 1
  BY <1>1
<1>4. PICK Q \in Nat : Q = Count(s, q)
  BY <1>1, WalkTypes
<1>5. PICK B \in Nat : B = Count(s, b) /\ Q <= B
  BY <1>1, <1>4, WalkTypes, OutGrows
<1>6. PICK Q1 \in Nat : Q1 = Count(s, q1) /\ Q1 <= B
  BY <1>1, <1>3, <1>5, WalkTypes, OutGrows
<1>7. q1 - 1 = q
  BY <1>3
<1>8. State(s, q) # "DATA"
  BY <1>4, <1>5, <1>6, <1>7, WalkStep
<1>9. State(s, q) = "CONTROL"
  BY <1>2, <1>8 DEF Live
<1>10. ASSUME q1 < b PROVE FALSE
  <2>1. Live(s, q1)
    BY <1>3, <1>10 DEF LiveFrom
  <2>2. State(s, q1) # "CONTROL"
    BY <1>7, <1>8, WalkStep
  <2>3. State(s, q1) = "DATA"
    BY <2>1, <2>2 DEF Live
  <2>4. Q1 = Q
    BY <1>4, <1>6, <1>7, <1>8, WalkStep
  <2>5. PICK q2 \in 1..Len(s) : q2 = q1 + 1
    BY <1>1, <1>3, <1>10
  <2>6. PICK Q2 \in Nat : Q2 = Count(s, q2) /\ Q2 <= B
    BY <1>1, <1>3, <1>5, <1>10, <2>5, WalkTypes, OutGrows
  <2>7. q2 - 1 = q1
    BY <2>5
  <2>8. Count(s, q2) = Count(s, q1) + 1
    BY <2>3, <2>7, WalkStep
  <2>9. Q >= B
    BY <1>4, <1>5
  <2>10. Q2 = Q1 + 1
    BY <1>6, <2>6, <2>8
  <2> QED  BY <2>4, <2>6, <2>9, <2>10
<1> QED  BY <1>3, <1>4, <1>5, <1>9, <1>10

-----------------------------------------------------------------------------
\* The coder after a link.
CoderGoes(c2, c, dec, dicPos, inCodeSize, res, buf) ==
    /\ c2.dec = dec /\ c2.dicPos = dicPos /\ c2.inCodeSize = inCodeSize /\ c2.outCodeSize = dicPos
    /\ c2.codeRes = res /\ c2.outBuf = buf
    /\ c2.inPreSize = c.inPreSize /\ c2.outPreSize = c.outPreSize
    /\ c2.parseStatus = c.parseStatus /\ c2.state = c.state /\ c2.outBufSize = c.outBufSize

CoderChanges(c2, c, dec, dicPos, inCodeSize, res, buf) ==
    /\ Fields(c) /\ buf \in Seq(Nat)
    /\ c2 = [c EXCEPT !.dec = dec, !.dicPos = dicPos, !.inCodeSize = inCodeSize,
                      !.outCodeSize = dicPos, !.codeRes = res, !.outBuf = buf]
LEMMA CoderGoesOn ==
    ASSUME NEW c2, NEW c, NEW dec, NEW dicPos, NEW inCodeSize, NEW res, NEW buf,
           CoderChanges(c2, c, dec, dicPos, inCodeSize, res, buf)
    PROVE  Fields(c2) /\ CoderGoes(c2, c, dec, dicPos, inCodeSize, res, buf)
<1>0. /\ Fields(c) /\ buf \in Seq(Nat)
      /\ c2 = [c EXCEPT !.dec = dec, !.dicPos = dicPos, !.inCodeSize = inCodeSize,
                        !.outCodeSize = dicPos, !.codeRes = res, !.outBuf = buf]
  BY DEF CoderChanges
<1>1. DOMAIN c = {"dec", "dicPos", "parseStatus", "state", "inPreSize", "outPreSize",
                  "inCodeSize", "outCodeSize", "codeRes", "outBuf", "outBufSize"}
  BY <1>0, CoderFields DEF Fields
<1>2. CoderGoes(c2, c, dec, dicPos, inCodeSize, res, buf) /\ DOMAIN c2 = DOMAIN c
  BY <1>0, <1>1 DEF CoderGoes
<1>3. c2.outBuf \in Seq(Nat) /\ c2.outBufSize = c.outBufSize
  BY <1>0, <1>2 DEF CoderGoes
<1> QED  BY <1>0, <1>2, <1>3 DEF Fields

\* The first places of a sequence, those after them, and two in a row.
LEMMA FrontIs ==
    ASSUME NEW s \in Seq(Nat), NEW n \in Nat, n <= Len(s)
    PROVE  /\ SubSeq(s, 1, n) \in Seq(Nat) /\ Len(SubSeq(s, 1, n)) = n
           /\ \A i \in 1..n : SubSeq(s, 1, n)[i] = s[i]
<1>1. Len(s) \in Nat /\ \A i \in 1..Len(s) : s[i] \in Nat
  BY LenProperties, ElementOfSeq
<1>2. \A i \in 1..n : s[i] \in Nat
  BY <1>1
<1>3. /\ SubSeq(s, 1, n) \in Seq(Nat) /\ Len(SubSeq(s, 1, n)) = (IF 1 <= n THEN n - 1 + 1 ELSE 0)
      /\ \A i \in 1..(n - 1 + 1) : SubSeq(s, 1, n)[i] = s[1 + i - 1]
  BY <1>2, SubSeqProperties
<1>4. (IF 1 <= n THEN n - 1 + 1 ELSE 0) = n /\ n - 1 + 1 = n /\ \A i \in 1..n : 1 + i - 1 = i
  OBVIOUS
<1> QED  BY <1>3, <1>4

LEMMA RestIs ==
    ASSUME NEW s \in Seq(Nat), NEW k \in Nat
    PROVE  SubSeq(s, k + 1, Len(s)) \in Seq(Nat)
<1>1. Len(s) \in Nat /\ \A i \in 1..Len(s) : s[i] \in Nat
  BY LenProperties, ElementOfSeq
<1>2. \A i \in (k + 1)..Len(s) : s[i] \in Nat
  BY <1>1
<1> QED  BY <1>1, <1>2, SubSeqProperties

Joined(x, s, u, m, n) ==
    /\ x \in Seq(Nat) /\ Len(x) = m + n
    /\ \A i \in 1..m : x[i] = s[i]
    /\ \A i \in 1..n : x[m + i] = u[i]
LEMMA JoinIs ==
    ASSUME NEW s \in Seq(Nat), NEW u \in Seq(Nat), NEW m \in Nat, NEW n \in Nat, m = Len(s), n = Len(u)
    PROVE  Joined(s \o u, s, u, m, n)
<1>1. /\ s \o u \in Seq(Nat) /\ Len(s \o u) = m + n
      /\ \A i \in 1..(m + n) : (s \o u)[i] = IF i <= m THEN s[i] ELSE u[i - m]
  BY ConcatProperties
<1>2. \A i \in 1..n : m + i \in 1..(m + n) /\ ~ (m + i <= m) /\ m + i - m = i
  OBVIOUS
<1> QED  BY <1>1, <1>2 DEF Joined

\* What was in the window, and what is put after it.
Grown(new, old, o, d, k) ==
    /\ new \in Seq(Nat) /\ Len(new) \in Nat /\ d + k <= Len(new)
    /\ \A i \in 1..d : new[i] = old[i]
    /\ \A i \in 1..k : new[d + i] = o[i]
LEMMA WindowGrows ==
    ASSUME NEW old \in Seq(Nat), NEW d \in Nat, d <= Len(old), NEW o \in Seq(Nat), NEW k \in Nat, k = Len(o),
           NEW new, new = Overwrite(old, SubSeq(old, 1, d) \o o)
    PROVE  Grown(new, old, o, d, k)
<1>1. PICK w \in Seq(Nat) : w = SubSeq(old, 1, d)
  BY FrontIs
<1>2. Len(w) = d /\ \A i \in 1..d : w[i] = old[i]
  BY <1>1, FrontIs
<1>3. PICK data : data = w \o o
  OBVIOUS
<1>4. Joined(data, w, o, d, k)
  BY <1>2, <1>3, JoinIs, Zenon
<1>5. PICK m \in Nat : m = Len(data) /\ data \in Seq(Nat)
  BY <1>4, LenProperties DEF Joined
<1>6. PICK rest \in Seq(Nat) : rest = SubSeq(old, m + 1, Len(old))
  BY RestIs
<1>7. new = data \o rest
  BY <1>1, <1>3, <1>5, <1>6 DEF Overwrite
<1>8. PICK n \in Nat : n = Len(rest)
  BY LenProperties
<1>9. Joined(new, data, rest, m, n)
  BY <1>5, <1>7, <1>8, JoinIs, Zenon
<1>10. m = d + k
  BY <1>4, <1>5 DEF Joined
<1>11. (\A i \in 1..d : i \in 1..m) /\ \A i \in 1..k : d + i \in 1..m
  BY <1>10
<1>12. new \in Seq(Nat) /\ Len(new) = m + n
  BY <1>9 DEF Joined
<1>13. \A i \in 1..m : new[i] = data[i]
  BY <1>9 DEF Joined
<1>14. (\A i \in 1..d : data[i] = w[i]) /\ (\A i \in 1..k : data[d + i] = o[i])
  BY <1>4 DEF Joined
<1>15. d + k <= Len(new) /\ Len(new) \in Nat
  BY <1>10, <1>12
<1>16. \A i \in 1..d : new[i] = old[i]
  BY <1>2, <1>11, <1>13, <1>14
<1>17. \A i \in 1..k : new[d + i] = o[i]
  BY <1>11, <1>13, <1>14
<1> QED  BY <1>12, <1>15, <1>16, <1>17 DEF Grown

\* What came out is what was there and what the decoder gave.
LEMMA CodeCame ==
    ASSUME NEW l, NEW c, NEW a, NEW m, NEW size, NEW n, NEW p, NEW b, NEW r, NEW q,
           Decoded(l, c, a, m, size, n, p, b, r, q), Fields(c), CameOut(c, a, m), c.dicPos = c.outCodeSize,
           NEW dicPos, dicPos = c.dicPos + Len(r.out),
           NEW buf, buf = Overwrite(c.outBuf, SubSeq(c.outBuf, 1, c.dicPos) \o r.out)
    PROVE  /\ buf \in Seq(Nat) /\ dicPos = Count(stream, q) - Count(stream, a) /\ dicPos <= Len(buf)
           /\ \A i \in 1..dicPos : buf[i] = Out(stream, q)[Count(stream, a) + i]
<1>1. /\ stream \in Seq(Symbols) /\ Len(stream) \in Nat
      /\ p = a + m /\ b = a + size /\ a \in Nat /\ m \in Nat /\ size \in Nat
      /\ m < size /\ n \in Nat /\ n > 0 /\ m + n <= size
      /\ b <= Len(stream) /\ p <= q /\ q <= p + n /\ q \in Nat
      /\ r \in DecodeAccs /\ DecodedTo(r, stream, c.dec, p, Count(stream, b), Finishes(c), q, n)
  BY DEF Decoded
<1>2. a \in 0..Len(stream) /\ p \in a..Len(stream) /\ q \in p..Len(stream) /\ p \in 0..Len(stream)
      /\ q \in 0..Len(stream)
  BY <1>1
<1>3. Comes(stream, r.out, p, q)
  BY <1>1 DEF DecodedTo
<1>4. PICK A \in Nat : A = Count(stream, a)
  BY <1>1, <1>2, WalkTypes
<1>5. PICK P \in Nat : P = Count(stream, p) /\ A <= P
  BY <1>1, <1>2, <1>4, WalkTypes, OutGrows
<1>6. PICK Q \in Nat : Q = Count(stream, q) /\ P <= Q
  BY <1>1, <1>2, <1>5, WalkTypes, OutGrows
<1>7. PICK o \in Seq(Nat) : o = r.out /\ Len(o) = Q - P /\ \A i \in 1..Len(o) : o[i] = Out(stream, q)[P + i]
  BY <1>3, <1>5, <1>6 DEF Comes
<1>8. PICK d \in Nat : d = c.dicPos /\ d = P - A /\ d <= Len(c.outBuf)
                       /\ \A i \in 1..d : c.outBuf[i] = Out(stream, p)[A + i]
  <2>1. a + m = p
    BY <1>1
  <2> QED  BY <1>4, <1>5, <2>1 DEF CameOut
<1>9. PICK old \in Seq(Nat) : old = c.outBuf
  BY DEF Fields
<1>10. /\ buf \in Seq(Nat) /\ d + Len(o) <= Len(buf)
       /\ \A i \in 1..d : buf[i] = old[i]
       /\ \A i \in 1..Len(o) : buf[d + i] = o[i]
  <2>1. PICK k \in Nat : k = Len(o)
    BY LenProperties
  <2>2. buf = Overwrite(old, SubSeq(old, 1, d) \o o)
    BY <1>7, <1>8, <1>9
  <2>3. d <= Len(old)
    BY <1>8, <1>9
  <2>4. Grown(buf, old, o, d, k)
    BY <2>1, <2>2, <2>3, WindowGrows, Zenon
  <2> QED  BY <2>1, <2>4 DEF Grown
<1>11. dicPos = Q - A /\ dicPos \in Nat /\ dicPos = d + Len(o)
  <2>1. PICK k \in Nat : k = Len(o)
    BY LenProperties
  <2>2. k = Q - P /\ d = P - A /\ d = c.dicPos /\ o = r.out
    BY <1>7, <1>8, <2>1
  <2>3. dicPos = d + k
    BY <2>1, <2>2
  <2>4. d + k = Q - A /\ d + k \in Nat
    BY <2>2
  <2> QED  BY <2>1, <2>3, <2>4
<1>12. \A i \in 1..P : Out(stream, q)[i] = Out(stream, p)[i]
  BY <1>1, <1>2, <1>5, OutGrows
<1>13. \A i \in 1..dicPos : buf[i] = Out(stream, q)[A + i]
  <2>1. TAKE i \in 1..dicPos
  <2>2. CASE i <= d
    <3>1. i \in 1..d /\ A + i \in 1..P
      <4>1. i \in Nat /\ i >= 1
        BY <1>11
      <4>2. d = P - A
        BY <1>8
      <4> QED  BY <2>2, <4>1, <4>2
    <3> QED  BY <1>8, <1>9, <1>10, <1>12, <3>1
  <2>3. CASE i > d
    <3>1. PICK j \in 1..Len(o) : i = d + j
      <4>1. i - d \in 1..Len(o) /\ i = d + (i - d)
        BY <1>7, <1>8, <1>11, <2>3
      <4> QED  BY <4>1
    <3>2. buf[i] = Out(stream, q)[P + j]
      BY <1>7, <1>10, <3>1
    <3>3. P + j = A + i
      <4>1. j \in Nat /\ d = P - A /\ i = d + j
        BY <1>8, <3>1
      <4> QED  BY <4>1
    <3> QED  BY <3>2, <3>3
  <2> QED  BY <1>8, <1>11, <2>2, <2>3
<1> QED  BY <1>4, <1>6, <1>10, <1>11, <1>13

-----------------------------------------------------------------------------
ResultOf(c, n, r, dicPos, inCodeSize) ==
    IF r.res # OK THEN r.res ELSE IF CodeShort(c, n, r, dicPos, inCodeSize) THEN "FAIL" ELSE OK

\* How a link was decoded, up to q: e places after a.
DecodeEnds(l, c, c2, a, m, size, n, p, b, r, q, e, dicPos, inCodeSize) ==
    /\ Decoded(l, c, a, m, size, n, p, b, r, q)
    /\ e \in Nat /\ q = a + e
    /\ Fields(c2) /\ \E buf : CoderGoes(c2, c, r.dec, dicPos, inCodeSize, r.res, buf)
    /\ CameOut(c2, a, e) /\ Good(stream, outSize, a, q) /\ Good(stream, outSize, a, p)
    /\ Parsed(c, a, size)
    /\ inCodeSize = m + r.used /\ dicPos = Count(stream, q) - Count(stream, a)

LEMMA DecodeDoes ==
    ASSUME NEW l, NEW inBuf, NEW c, NEW a, NEW n, NEW r, CodingAt(l, inBuf, c, a, n, r),
           NEW dicPos, dicPos = c.dicPos + Len(r.out),
           NEW inCodeSize, inCodeSize = c.inCodeSize + r.used,
           NEW c2, c2 = [c EXCEPT !.dec = r.dec, !.dicPos = dicPos, !.inCodeSize = inCodeSize,
                                  !.outCodeSize = dicPos, !.codeRes = r.res,
                                  !.outBuf = Overwrite(@, SubSeq(@, 1, c.dicPos) \o r.out)]
    PROVE  \E m, size, p, b, q, e : DecodeEnds(l, c, c2, a, m, size, n, p, b, r, q, e, dicPos, inCodeSize)
<1>1. PICK m, size, p, b, q : Decoded(l, c, a, m, size, n, p, b, r, q)
  BY CodeWalk
<1>2. /\ stream \in Seq(Symbols) /\ Len(stream) \in Nat /\ outSize \in Nat
      /\ m = Off(l.start, l.link) /\ size = l.size /\ p = a + m /\ b = a + size
      /\ a \in Nat /\ m \in Nat /\ size \in Nat /\ p \in Nat /\ b \in Nat /\ q \in Nat
      /\ m < size /\ n \in Nat /\ n > 0 /\ m + n <= size
      /\ b <= Len(stream) /\ p <= q /\ q <= p + n
      /\ DecodedTo(r, stream, c.dec, p, Count(stream, b), Finishes(c), q, n)
  BY <1>1 DEF Decoded
<1>3. Fields(c) /\ Parsed(c, a, size) /\ Coding(c, l, a)
  BY <1>2 DEF CodingAt
<1>4. /\ c.inCodeSize = m /\ c.dicPos = c.outCodeSize
      /\ CameOut(c, a, m) /\ Good(stream, outSize, a, p)
  BY <1>2, <1>3 DEF Coding
<1>5. PICK buf : buf = Overwrite(c.outBuf, SubSeq(c.outBuf, 1, c.dicPos) \o r.out)
  OBVIOUS
<1>6. /\ buf \in Seq(Nat) /\ dicPos = Count(stream, q) - Count(stream, a) /\ dicPos <= Len(buf)
      /\ \A i \in 1..dicPos : buf[i] = Out(stream, q)[Count(stream, a) + i]
  BY <1>1, <1>3, <1>4, <1>5, CodeCame
<1>7. PICK dec, res : dec = r.dec /\ res = r.res
  OBVIOUS
<1>8. c2 = [c EXCEPT !.dec = dec, !.dicPos = dicPos, !.inCodeSize = inCodeSize,
                     !.outCodeSize = dicPos, !.codeRes = res, !.outBuf = buf]
  BY <1>5, <1>7
<1>9. Fields(c2) /\ CoderGoes(c2, c, dec, dicPos, inCodeSize, res, buf)
  <2>1. CoderChanges(c2, c, dec, dicPos, inCodeSize, res, buf)
    BY <1>3, <1>6, <1>8, Zenon DEF CoderChanges
  <2> QED  BY <2>1, CoderGoesOn, Zenon
<1>10. PICK e \in Nat : q = a + e
  <2>1. q - a \in Nat /\ q = a + (q - a)
    BY <1>2
  <2> QED  BY <2>1
<1>11. CameOut(c2, a, e)
  BY <1>6, <1>9, <1>10 DEF CameOut, CoderGoes
<1>12. Good(stream, outSize, a, q)
  <2>1. p \in 0..Len(stream) /\ q \in p..Len(stream) /\ b \in 0..Len(stream)
    BY <1>2
  <2>2. AllAccepted(stream, p, q, Count(stream, b), Finishes(c))
    BY <1>2 DEF DecodedTo
  <2>3. PICK B \in Nat : B = Count(stream, b) /\ B <= outSize
    <3>1. Count(stream, b) <= outSize
      BY <1>2, <1>3 DEF Parsed
    <3> QED  BY <1>2, <2>1, <3>1, WalkTypes
  <2>4. Good(stream, outSize, p, q)
    BY <1>2, <2>1, <2>2, <2>3, GoodOf
  <2> QED  BY <1>2, <1>4, <2>4, GoodJoins
<1>13. inCodeSize = m + r.used
  BY <1>4
<1> QED  BY <1>1, <1>3, <1>4, <1>6, <1>7, <1>9, <1>10, <1>11, <1>12, <1>13 DEF DecodeEnds

\* What the decoder of a block refuses so would the decoder of all.
RefusedIn(s, a, b, q, n, finish) ==
    /\ s \in Seq(Symbols) /\ a \in Nat /\ b \in Nat /\ q \in Nat /\ n \in Nat /\ finish \in BOOLEAN
    /\ a <= q /\ q < b /\ b <= Len(s) /\ LiveFrom(s, a, b) /\ Count(s, b) <= n
    /\ ~ Accepted(s, q + 1, Count(s, b), finish) /\ (finish \/ Count(s, q) < Count(s, b))
    /\ finish => State(s, b) \in {"CONTROL", "FINISHED"}
LEMMA RefusesToo ==
    ASSUME NEW s, NEW a, NEW b, NEW q, NEW n, NEW finish, RefusedIn(s, a, b, q, n, finish)
    PROVE  Refused(s, n, q)
<1>1. /\ s \in Seq(Symbols) /\ a \in Nat /\ b \in Nat /\ q \in Nat /\ n \in Nat /\ finish \in BOOLEAN
      /\ a <= q /\ q < b /\ b <= Len(s) /\ LiveFrom(s, a, b) /\ Count(s, b) <= n
      /\ ~ Accepted(s, q + 1, Count(s, b), finish) /\ (finish \/ Count(s, q) < Count(s, b))
      /\ finish => State(s, b) \in {"CONTROL", "FINISHED"}
  BY DEF RefusedIn
<1>2. Len(s) \in Nat
  BY <1>1, WalkStart
<1>3. Live(s, q) /\ LiveFrom(s, q, b)
  BY <1>1 DEF LiveFrom
<1>4. PICK q1 \in 1..Len(s) : q1 = q + 1
  BY <1>1, <1>2
<1>5. q1 - 1 = q /\ q \in 0..Len(s) /\ b \in 0..Len(s) /\ q1 \in 0..Len(s)
  BY <1>1, <1>2, <1>4
<1>6. PICK Q \in Nat : Q = Count(s, q)
  BY <1>1, <1>5, WalkTypes
<1>7. PICK B \in Nat : B = Count(s, b) /\ B <= n
  BY <1>1, <1>5, WalkTypes
<1>8. PICK Q1 \in Nat : Q1 = Count(s, q1) /\ Q1 <= B
  <2>1. b \in q1..Len(s)
    BY <1>1, <1>2, <1>4
  <2> QED  BY <1>1, <1>5, <1>7, <2>1, WalkTypes, OutGrows
<1>9. SUFFICES ASSUME Accepted(s, q1, n, TRUE) PROVE FALSE
  <2>1. ASSUME ~ Accepted(s, q1, n, TRUE) PROVE Refused(s, n, q)
    <3>1. q < Len(s)
      BY <1>1, <1>2
    <3>2. ~ Accepted(s, q + 1, n, TRUE)
      BY <1>4, <2>1
    <3> QED  BY <1>3, <3>1, <3>2 DEF Refused
  <2> QED  BY <2>1
<1>10. ~ Accepted(s, q1, B, finish) /\ (finish \/ Q < B)
  BY <1>1, <1>4, <1>6, <1>7
<1>11. CASE State(s, q) = "DATA"
  <2>1. Q1 = Q + 1
    BY <1>1, <1>5, <1>6, <1>8, <1>11, WalkStep
  <2>2. Q < B
    BY <1>8, <2>1
  <2>3. s[q1] # "x"
    BY <1>5, <1>9, <1>11 DEF Accepted
  <2>4. Accepted(s, q1, B, finish)
    BY <1>3, <1>5, <1>6, <1>11, <2>2, <2>3 DEF Accepted
  <2> QED  BY <1>10, <2>4
<1>12. CASE State(s, q) = "CONTROL"
  <2>1. State(s, q1) # "ERROR" /\ State(s, q1) # "CONTROL" /\ Q1 = Q
    BY <1>1, <1>5, <1>6, <1>8, <1>9, <1>12, WalkStep DEF Accepted
  <2>2. ~ (Q < B) /\ finish /\ State(s, q1) # "FINISHED"
    BY <1>3, <1>5, <1>6, <1>10, <1>12, <2>1 DEF Accepted
  <2>3. State(s, q1) = "DATA"
    BY <1>1, <1>5, <2>1, <2>2, WalkTypes DEF States
  <2>4. q1 # b
    BY <1>1, <2>2, <2>3
  <2>5. q < b /\ Count(s, q) >= Count(s, b)
    BY <1>1, <1>6, <1>7, <2>2
  <2>6. b = q + 1
    BY <1>1, <1>3, <2>5, LastOut
  <2> QED  BY <1>4, <2>4, <2>6
<1> QED  BY <1>3, <1>11, <1>12 DEF Live

-----------------------------------------------------------------------------
\* What is known in short of a link that was decoded.
Ended(l, c, c2, a, m, size, n, p, b, r, q, e, dicPos, inCodeSize, P, Q, B) ==
    /\ stream \in Seq(Symbols) /\ Len(stream) \in Nat /\ outSize \in Nat
    /\ a \in Nat /\ m \in Nat /\ size \in Nat /\ p \in Nat /\ b \in Nat /\ q \in Nat /\ e \in Nat
    /\ p = a + m /\ b = a + size /\ q = a + e /\ p <= q /\ q <= p + n /\ n \in Nat /\ n > 0 /\ m + n <= size
    /\ q <= b /\ b <= Len(stream) /\ LiveFrom(stream, a, b)
    /\ P \in Nat /\ Q \in Nat /\ B \in Nat
    /\ P = Count(stream, p) /\ Q = Count(stream, q) /\ B = Count(stream, b) /\ P <= Q /\ Q <= B
    /\ B <= outSize
    /\ r.res \in {OK, "DATA"} /\ c2.codeRes = r.res /\ c2.dec = r.dec
    /\ c2.inCodeSize = inCodeSize /\ c2.dicPos = dicPos /\ c2.outCodeSize = dicPos
    /\ c2.inPreSize = size /\ c2.parseStatus = c.parseStatus
    /\ c.outPreSize = dicPos <=> Q = B
    /\ c.inPreSize = size
    /\ c.parseStatus = "block" => State(stream, b) = "CONTROL"
    /\ c.parseStatus = "mark" => State(stream, b) = "FINISHED"
    /\ c.parseStatus = "error" => State(stream, b) = "ERROR"
    /\ c.parseStatus = "more" => Room(b)
    /\ c.parseStatus \in {"block", "mark", "error", "more"}
    /\ CameOut(c2, a, e) /\ Good(stream, outSize, a, q)

LEMMA DecodeEnded ==
    ASSUME NEW l, NEW c, NEW c2, NEW a, NEW m, NEW size, NEW n, NEW p, NEW b, NEW r, NEW q, NEW e,
           NEW dicPos, NEW inCodeSize,
           DecodeEnds(l, c, c2, a, m, size, n, p, b, r, q, e, dicPos, inCodeSize)
    PROVE  \E P, Q, B : Ended(l, c, c2, a, m, size, n, p, b, r, q, e, dicPos, inCodeSize, P, Q, B)
<1>1. /\ Decoded(l, c, a, m, size, n, p, b, r, q)
      /\ e \in Nat /\ q = a + e
      /\ CameOut(c2, a, e) /\ Good(stream, outSize, a, q)
      /\ Parsed(c, a, size)
      /\ dicPos = Count(stream, q) - Count(stream, a)
  BY DEF DecodeEnds
<1>2. PICK buf : CoderGoes(c2, c, r.dec, dicPos, inCodeSize, r.res, buf)
  BY DEF DecodeEnds
<1>3. /\ stream \in Seq(Symbols) /\ Len(stream) \in Nat /\ outSize \in Nat
      /\ p = a + m /\ b = a + size
      /\ a \in Nat /\ m \in Nat /\ size \in Nat /\ p \in Nat /\ b \in Nat /\ q \in Nat
      /\ n \in Nat /\ n > 0 /\ m + n <= size
      /\ b <= Len(stream) /\ p <= q /\ q <= p + n
      /\ r \in DecodeAccs
  BY <1>1 DEF Decoded
<1>4. /\ LiveFrom(stream, a, b) /\ c.inPreSize = size /\ c.outPreSize = Count(stream, b) - Count(stream, a)
      /\ Count(stream, b) <= outSize
      /\ c.parseStatus = "block" => State(stream, b) = "CONTROL"
      /\ c.parseStatus = "mark" => State(stream, b) = "FINISHED"
      /\ c.parseStatus = "error" => State(stream, b) = "ERROR"
      /\ c.parseStatus = "more" => Room(b)
      /\ c.parseStatus \in {"block", "mark", "error", "more"}
  <2>1. /\ LiveFrom(stream, a, b) /\ c.inPreSize = size /\ c.outPreSize = Count(stream, b) - Count(stream, a)
        /\ Count(stream, b) <= outSize
        /\ \/ c.parseStatus = "block" /\ c.state = "NEW" /\ Proper(stream, b) /\ size > 0
           \/ c.parseStatus = "mark" /\ c.state = "END" /\ State(stream, b) = "FINISHED"
           \/ c.parseStatus = "error" /\ c.state = "END" /\ State(stream, b) = "ERROR"
           \/ c.parseStatus = "more" /\ c.state = "CONTINUE" /\ Room(b)
    BY <1>1, <1>3 DEF Parsed
  <2>2. Proper(stream, b) => State(stream, b) = "CONTROL"
    BY DEF Proper
  <2> QED  BY <2>1, <2>2
<1>5. a \in 0..Len(stream) /\ p \in 0..Len(stream) /\ q \in p..Len(stream) /\ q \in 0..Len(stream)
      /\ b \in q..Len(stream) /\ b \in 0..Len(stream) /\ q <= b /\ q \in a..Len(stream) /\ p \in a..Len(stream)
  BY <1>3
<1>6. PICK P \in Nat : P = Count(stream, p)
  BY <1>3, <1>5, WalkTypes
<1>7. PICK Q \in Nat : Q = Count(stream, q) /\ P <= Q
  BY <1>3, <1>5, <1>6, WalkTypes, OutGrows
<1>8. PICK B \in Nat : B = Count(stream, b) /\ Q <= B
  BY <1>3, <1>5, <1>7, WalkTypes, OutGrows
<1>9. PICK A \in Nat : A = Count(stream, a) /\ A <= P
  BY <1>3, <1>5, <1>6, WalkTypes, OutGrows
<1>10. c.outPreSize = dicPos <=> Q = B
  <2>1. c.outPreSize = B - A /\ dicPos = Q - A
    BY <1>1, <1>4, <1>7, <1>8, <1>9
  <2> QED  BY <2>1
<1>11. r.res \in {OK, "DATA"}
  BY <1>3 DEF DecodeAccs, OK
<1>12. /\ c2.codeRes = r.res /\ c2.dec = r.dec
       /\ c2.inCodeSize = inCodeSize /\ c2.dicPos = dicPos /\ c2.outCodeSize = dicPos
       /\ c2.inPreSize = size /\ c2.parseStatus = c.parseStatus
  BY <1>2, <1>4 DEF CoderGoes
<1>13. B <= outSize
  BY <1>4, <1>8
<1>14. Ended(l, c, c2, a, m, size, n, p, b, r, q, e, dicPos, inCodeSize, P, Q, B)
  BY <1>1, <1>3, <1>4, <1>5, <1>6, <1>7, <1>8, <1>10, <1>11, <1>12, <1>13, Zenon DEF Ended
<1> QED  BY <1>14

LEMMA CodeRefused ==
    ASSUME NEW l, NEW c, NEW c2, NEW a, NEW m, NEW size, NEW n, NEW p, NEW b, NEW r, NEW q, NEW e,
           NEW dicPos, NEW inCodeSize,
           DecodeEnds(l, c, c2, a, m, size, n, p, b, r, q, e, dicPos, inCodeSize),
           r.res # OK, NEW l2, l2.codeRes = "DATA", l2.size = size
    PROVE  r.res = "DATA" /\ CodedInPart(c2, l2, a)
<1>1. PICK P, Q, B : Ended(l, c, c2, a, m, size, n, p, b, r, q, e, dicPos, inCodeSize, P, Q, B)
  BY DecodeEnded
<1>2. /\ stream \in Seq(Symbols) /\ Len(stream) \in Nat /\ outSize \in Nat
      /\ a \in Nat /\ m \in Nat /\ size \in Nat /\ p \in Nat /\ b \in Nat /\ q \in Nat /\ e \in Nat
      /\ p = a + m /\ b = a + size /\ q = a + e /\ p <= q /\ q <= p + n /\ n \in Nat /\ m + n <= size
      /\ b <= Len(stream) /\ LiveFrom(stream, a, b)
      /\ P \in Nat /\ Q \in Nat /\ B \in Nat
      /\ P = Count(stream, p) /\ Q = Count(stream, q) /\ B = Count(stream, b) /\ B <= outSize
      /\ r.res \in {OK, "DATA"} /\ c2.codeRes = r.res
      /\ c.parseStatus = "block" => State(stream, b) = "CONTROL"
      /\ c.parseStatus = "mark" => State(stream, b) = "FINISHED"
      /\ CameOut(c2, a, e) /\ Good(stream, outSize, a, q)
  BY <1>1 DEF Ended
<1>3. r.res = "DATA"
  BY <1>2
<1>4. DecodedTo(r, stream, c.dec, p, Count(stream, b), Finishes(c), q, n)
  BY DEF DecodeEnds, Decoded
<1>5. /\ q < p + n /\ q < Len(stream) /\ Live(stream, q) /\ ~ Accepted(stream, q + 1, Count(stream, b), Finishes(c))
      /\ Finishes(c) \/ Count(stream, q) < Count(stream, b)
  BY <1>3, <1>4 DEF DecodedTo
<1>6. RefusedIn(stream, a, b, q, outSize, Finishes(c))
  <2>1. Finishes(c) \in BOOLEAN /\ (Finishes(c) => State(stream, b) \in {"CONTROL", "FINISHED"})
    BY <1>2 DEF Finishes
  <2>2. a <= q /\ q < b
    BY <1>2, <1>5
  <2>3. Count(stream, b) <= outSize
    BY <1>2
  <2> QED  BY <1>2, <1>5, <2>1, <2>2, <2>3 DEF RefusedIn
<1>7. Refused(stream, outSize, q)
  BY <1>6, RefusesToo
<1>8. e = q - a /\ q \in a..(a + l2.size)
  BY <1>2, <1>5
<1>9. CameOut(c2, a, q - a)
  BY <1>2, <1>8
<1> QED  BY <1>2, <1>3, <1>7, <1>8, <1>9 DEF CodedInPart

\* A link that was decoded without an error.
Goes(c, m, size, n, p, b, r, q, dicPos, inCodeSize, Q, B) ==
    /\ r.used = q - p /\ inCodeSize = q - p + m
    /\ inCodeSize = size <=> q = b
    /\ CodeStops(c, n, r, dicPos, inCodeSize) <=>
         IF Finishes(c) THEN q = b ELSE q # p + n \/ Q = B
    /\ ~ CodeShort(c, n, r, dicPos, inCodeSize)
    /\ Finishes(c) => q = p + n
    /\ q = p + n \/ Q = B
    /\ q # p => r.dec = Dec(stream, q)
LEMMA CodeGoes ==
    ASSUME NEW l, NEW c, NEW c2, NEW a, NEW m, NEW size, NEW n, NEW p, NEW b, NEW r, NEW q, NEW e,
           NEW dicPos, NEW inCodeSize,
           DecodeEnds(l, c, c2, a, m, size, n, p, b, r, q, e, dicPos, inCodeSize),
           r.res = OK,
           NEW P, NEW Q, NEW B, Ended(l, c, c2, a, m, size, n, p, b, r, q, e, dicPos, inCodeSize, P, Q, B)
    PROVE  Goes(c, m, size, n, p, b, r, q, dicPos, inCodeSize, Q, B)
<1>1. /\ stream \in Seq(Symbols) /\ Len(stream) \in Nat
      /\ a \in Nat /\ m \in Nat /\ size \in Nat /\ p \in Nat /\ b \in Nat /\ q \in Nat /\ e \in Nat
      /\ p = a + m /\ b = a + size /\ q = a + e /\ p <= q /\ q <= p + n /\ n \in Nat /\ n > 0 /\ m + n <= size
      /\ b <= Len(stream) /\ q <= b /\ LiveFrom(stream, a, b)
      /\ P \in Nat /\ Q \in Nat /\ B \in Nat
      /\ P = Count(stream, p) /\ Q = Count(stream, q) /\ B = Count(stream, b)
      /\ (c.outPreSize = dicPos <=> Q = B) /\ c.inPreSize = size
  BY DEF Ended
<1>2. /\ DecodedTo(r, stream, c.dec, p, Count(stream, b), Finishes(c), q, n)
      /\ LikeDec(stream, c.dec, p) /\ inCodeSize = m + r.used
  BY DEF DecodeEnds, Decoded
<1>3. /\ r.used = q - p
      /\ r.dec = IF q = p THEN c.dec ELSE Dec(stream, q)
      /\ q = p + n \/ r.dec.state = "FINISHED" \/ (Q = B /\ ~ Finishes(c))
  BY <1>1, <1>2 DEF DecodedTo, OK
<1>4. r.dec.state = State(stream, q)
  <2>1. p \in 0..Len(stream) /\ q \in 0..Len(stream)
    BY <1>1
  <2>2. c.dec.state = State(stream, p)
    BY <1>1, <1>2, <2>1, LikeDecIs
  <2>3. Dec(stream, q).state = State(stream, q)
    BY <1>1, <2>1, WalkTypes
  <2> QED  BY <1>3, <2>2, <2>3
<1>5. r.dec.state = "FINISHED" => q = p + n
  <2>1. ASSUME r.dec.state = "FINISHED", q # p + n PROVE FALSE
    <3>1. q < b /\ a <= q
      <4>1. /\ a \in Nat /\ m \in Nat /\ size \in Nat /\ p \in Nat /\ b \in Nat /\ q \in Nat /\ n \in Nat
            /\ p = a + m /\ b = a + size /\ p <= q /\ q <= p + n /\ m + n <= size
        BY <1>1
      <4>2. q < p + n
        BY <2>1, <4>1
      <4> QED  BY <4>1, <4>2
    <3>2. Live(stream, q)
      BY <1>1, <3>1 DEF LiveFrom
    <3> QED  BY <1>4, <2>1, <3>2 DEF Live
  <2> QED  BY <2>1
<1>6. Finishes(c) => q = p + n
  BY <1>3, <1>5
<1>7. q = p + n \/ Q = B
  BY <1>3, <1>5
<1>8. inCodeSize = q - p + m /\ (inCodeSize = size <=> q = b)
  BY <1>1, <1>2, <1>3
<1>9. r.used # n <=> q # p + n
  <2>1. p \in Nat /\ q \in Nat /\ n \in Nat
    BY <1>1
  <2>2. (q - p) # n <=> q # p + n
    BY <2>1
  <2> QED  BY <1>3, <2>2
<1>10. CodeStops(c, n, r, dicPos, inCodeSize) <=> IF Finishes(c) THEN q = b ELSE q # p + n \/ Q = B
  BY <1>1, <1>8, <1>9 DEF CodeStops
<1>11. ~ CodeShort(c, n, r, dicPos, inCodeSize)
  BY <1>1, <1>6, <1>8, <1>9 DEF CodeShort
<1> QED  BY <1>3, <1>6, <1>7, <1>8, <1>10, <1>11 DEF Goes

-----------------------------------------------------------------------------
LEMMA CodeWhole ==
    ASSUME NEW l, NEW c, NEW c2, NEW a, NEW m, NEW size, NEW n, NEW p, NEW b, NEW r, NEW q, NEW e,
           NEW dicPos, NEW inCodeSize, NEW P, NEW Q, NEW B,
           Ended(l, c, c2, a, m, size, n, p, b, r, q, e, dicPos, inCodeSize, P, Q, B),
           Goes(c, m, size, n, p, b, r, q, dicPos, inCodeSize, Q, B), r.res = OK,
           CodeStops(c, n, r, dicPos, inCodeSize) \/ q = b,
           NEW l2, l2.codeRes = OK, l2.size = size
    PROVE  CodedWhole(c2, l2, a)
<1>1. /\ stream \in Seq(Symbols) /\ Len(stream) \in Nat /\ outSize \in Nat
      /\ a \in Nat /\ m \in Nat /\ size \in Nat /\ p \in Nat /\ b \in Nat /\ q \in Nat /\ e \in Nat
      /\ p = a + m /\ b = a + size /\ q = a + e /\ p <= q /\ q <= p + n /\ n \in Nat /\ n > 0 /\ m + n <= size
      /\ q <= b /\ b <= Len(stream) /\ LiveFrom(stream, a, b)
      /\ Q \in Nat /\ B \in Nat
      /\ Q = Count(stream, q) /\ B = Count(stream, b) /\ B <= outSize
      /\ c2.codeRes = r.res /\ c2.inCodeSize = inCodeSize /\ c2.inPreSize = size
      /\ c2.parseStatus = c.parseStatus
      /\ c.parseStatus = "more" => Room(b)
      /\ c.parseStatus \in {"block", "mark", "error", "more"}
      /\ CameOut(c2, a, e) /\ Good(stream, outSize, a, q)
  BY DEF Ended
<1>2. /\ inCodeSize = size <=> q = b
      /\ CodeStops(c, n, r, dicPos, inCodeSize) <=> IF Finishes(c) THEN q = b ELSE q # p + n \/ Q = B
      /\ q = p + n \/ Q = B
  BY DEF Goes
<1>3. l2.codeRes = OK /\ c2.codeRes = OK
  BY <1>1
<1>4. a <= q /\ a < b /\ b - 1 \in Nat /\ a <= b - 1
  BY <1>1
<1>5. CASE q = b
  <2>1. e = size
    BY <1>1, <1>5
  <2>2. CameOut(c2, a, l2.size)
    BY <1>1, <2>1
  <2>3. Good(stream, outSize, a, b) /\ Good(stream, outSize, a, b - 1)
    <3>1. Good(stream, outSize, a, b)
      BY <1>1, <1>5
    <3>2. PICK b1 \in Nat : b1 = b - 1 /\ b1 <= b
      BY <1>1, <1>4
    <3> QED  BY <1>1, <3>1, <3>2, GoodPart
  <2>4. a + l2.size = b
    BY <1>1
  <2>5. c2.inCodeSize = c2.inPreSize
    BY <1>1, <1>2, <1>5
  <2>6. Good(stream, outSize, a, IF c2.parseStatus = "error" THEN a + l2.size - 1 ELSE a + l2.size)
    <3>1. CASE c2.parseStatus = "error"
      <4>1. a + l2.size - 1 = b - 1
        BY <1>1
      <4> QED  BY <2>3, <3>1, <4>1, Zenon
    <3>2. CASE c2.parseStatus # "error"
      BY <2>3, <2>4, <3>2
    <3> QED  BY <3>1, <3>2
  <2> QED  BY <1>3, <2>2, <2>5, <2>6 DEF CodedWhole
<1>6. CASE q # b
  <2>1. ~ Finishes(c) /\ Q = B
    BY <1>2, <1>6
  <2>2. q < b /\ LiveFrom(stream, q, b) /\ Count(stream, q) >= Count(stream, b)
    <3>1. q < b
      BY <1>1, <1>6
    <3>2. LiveFrom(stream, q, b)
      BY <1>1, <1>4 DEF LiveFrom
    <3> QED  BY <1>1, <2>1, <3>1, <3>2
  <2>3. State(stream, q) = "CONTROL" /\ b = q + 1
    BY <1>1, <2>2, LastOut
  <2>4. PICK A \in Nat : A = Count(stream, a)
    <3>1. a \in 0..Len(stream)
      BY <1>1, <1>4
    <3> QED  BY <1>1, <3>1, WalkTypes
  <2>5. \A i \in 1..Q : Out(stream, b)[i] = Out(stream, q)[i]
    <3>1. q \in 0..Len(stream) /\ b \in q..Len(stream)
      BY <1>1
    <3> QED  BY <1>1, <3>1, OutGrows
  <2>6. CameOut(c2, a, size)
    <3>1. PICK d : d = c2.outCodeSize /\ d = Q - A /\ d <= Len(c2.outBuf)
                   /\ \A i \in 1..d : c2.outBuf[i] = Out(stream, q)[A + i]
      BY <1>1, <2>4 DEF CameOut
    <3>2. \A i \in 1..d : A + i \in 1..Q
      <4>1. Q \in Nat /\ d = Q - A
        BY <1>1, <3>1
      <4> QED  BY <2>4, <4>1
    <3>3. \A i \in 1..d : c2.outBuf[i] = Out(stream, b)[A + i]
      BY <2>5, <3>1, <3>2
    <3>4. d = Count(stream, a + size) - Count(stream, a)
      BY <1>1, <2>1, <2>4, <3>1
    <3> QED  BY <1>1, <2>4, <3>1, <3>3, <3>4 DEF CameOut
  <2>7. c2.parseStatus \in {"error", "more"}
    BY <1>1, <2>1 DEF Finishes
  <2>8. Good(stream, outSize, a, b - 1)
    <3>1. b - 1 = q
      BY <1>1, <2>3
    <3> QED  BY <1>1, <3>1
  <2>9. c2.parseStatus = "more" => Good(stream, outSize, a, b)
    <3>1. ASSUME c2.parseStatus = "more" PROVE Good(stream, outSize, a, b)
      <4>1. Room(b)
        BY <1>1, <3>1
      <4>2. PICK b1 \in 1..Len(stream) : b1 = b
        BY <1>1, <2>3
      <4>3. b1 - 1 = q
        BY <1>1, <2>3, <4>2
      <4>4. State(stream, b) # "CONTROL"
        BY <1>1, <2>3, <4>2, <4>3, WalkStep
      <4>5. State(stream, b) = "DATA" /\ B < outSize
        BY <1>1, <4>1, <4>4 DEF Room, Live
      <4>6. Live(stream, q) /\ Q < outSize
        BY <1>1, <2>1, <2>3, <4>5 DEF Live
      <4>7. Accepted(stream, b, outSize, TRUE)
        BY <1>1, <2>3, <4>2, <4>3, <4>5, <4>6 DEF Accepted
      <4>8. Accepted(stream, q + 1, outSize, TRUE)
        BY <2>3, <4>7
      <4> QED  BY <1>1, <2>3, <4>8, AcceptedOn DEF Good
    <3> QED  BY <3>1
  <2>10. a + l2.size = b
    BY <1>1
  <2> QED  BY <1>1, <1>3, <2>6, <2>7, <2>8, <2>9, <2>10, SMTT(30) DEF CodedWhole
<1> QED  BY <1>5, <1>6

LEMMA CodeMore ==
    ASSUME NEW l, NEW c, NEW c2, NEW a, NEW m, NEW size, NEW n, NEW p, NEW b, NEW r, NEW q, NEW e,
           NEW dicPos, NEW inCodeSize, NEW P, NEW Q, NEW B,
           DecodeEnds(l, c, c2, a, m, size, n, p, b, r, q, e, dicPos, inCodeSize),
           Ended(l, c, c2, a, m, size, n, p, b, r, q, e, dicPos, inCodeSize, P, Q, B),
           Goes(c, m, size, n, p, b, r, q, dicPos, inCodeSize, Q, B), r.res = OK,
           ~ CodeStops(c, n, r, dicPos, inCodeSize), q # b,
           NEW l2, l2.codeRes = OK, l2.size = size, l2.start = l.start, l2.link = l.link + 1
    PROVE  Coding(c2, l2, a)
<1>1. /\ a \in Nat /\ m \in Nat /\ size \in Nat /\ p \in Nat /\ b \in Nat /\ q \in Nat /\ e \in Nat
      /\ p = a + m /\ b = a + size /\ q = a + e /\ p <= q /\ q <= p + n /\ n \in Nat /\ n > 0 /\ m + n <= size
      /\ c2.dec = r.dec /\ c2.inCodeSize = inCodeSize /\ c2.dicPos = dicPos /\ c2.outCodeSize = dicPos
      /\ CameOut(c2, a, e) /\ Good(stream, outSize, a, q)
  BY DEF Ended
<1>2. /\ inCodeSize = q - p + m /\ (Finishes(c) => q = p + n)
      /\ CodeStops(c, n, r, dicPos, inCodeSize) <=> IF Finishes(c) THEN q = b ELSE q # p + n \/ Q = B
      /\ q # p => r.dec = Dec(stream, q)
  BY DEF Goes
<1>3. q = p + n
  BY <1>2
<1>4. m + n # size /\ e = m + n /\ inCodeSize = e /\ e < size /\ q # p /\ e > 0
  BY <1>1, <1>2, <1>3
<1>5. /\ l.link \in Nat /\ l.link > 0 /\ m + n # size => Off(l.start, l.link + 1) = m + n
  BY DEF DecodeEnds, Decoded
<1>6. Off(l2.start, l2.link) = e
  BY <1>4, <1>5 DEF DecodeEnds, Decoded
<1>7. l2.link \in Nat \ {0}
  <2>1. l.link \in Nat
    BY DEF DecodeEnds, Decoded
  <2> QED  BY <2>1
<1>8. c2.dec = Dec(stream, a + e)
  BY <1>1, <1>2, <1>4
<1> QED  BY <1>1, <1>4, <1>6, <1>7, <1>8 DEF Coding

-----------------------------------------------------------------------------
\* What becomes of the block: its locals l2 and its coder c2.
CodeGives(t, w, l2, c2, c, a) ==
    /\ Fields(c2)
    /\ c2.inPreSize = c.inPreSize /\ c2.outPreSize = c.outPreSize /\ c2.parseStatus = c.parseStatus
    /\ c2.state = c.state
    /\ w \in {"code", "write"} /\ l2.codeRes \in {OK, "DATA"}
    /\ w = "code" => l2.codeRes = OK /\ ~ l2.interrupted
    /\ l2.interrupted => l2.codeRes = OK /\ InterruptedAt(me[t].blockIndex)
    /\ ~ l2.interrupted =>
         /\ w = "code" => Coding(c2, l2, a)
         /\ w = "write" => CodedWhole(c2, l2, a) \/ CodedInPart(c2, l2, a)

LEMMA CodeDone ==
    ASSUME NEW t, NEW w, NEW l2, NEW c2, NEW c, NEW n, NEW r, NEW dicPos, NEW inCodeSize, NEW res, NEW a,
           CodeMakes(t, c, n, r, dicPos, inCodeSize, res),
           CodeLeaves(t, w, l2, c2, c, n, r, dicPos, inCodeSize, res),
           CodingAt(me[t], threads[t].inBuf, c, a, n, r)
    PROVE  CodeGives(t, w, l2, c2, c, a)
<1>1. /\ dicPos = c.dicPos + Len(r.out) /\ inCodeSize = c.inCodeSize + r.used
      /\ res = IF r.res # OK THEN r.res ELSE IF CodeShort(c, n, r, dicPos, inCodeSize) THEN "FAIL" ELSE OK
  BY DEF CodeMakes
<1>2. /\ c2 = [c EXCEPT !.dec = r.dec, !.dicPos = dicPos, !.inCodeSize = inCodeSize,
                      !.outCodeSize = dicPos, !.codeRes = r.res,
                      !.outBuf = Overwrite(@, SubSeq(@, 1, c.dicPos) \o r.out)]
  BY Zenon DEF CodeLeaves
<1>3. /\ l2.codeRes = res
      /\ l2.interrupted <=> /\ res = OK /\ ~ CodeStops(c, n, r, dicPos, inCodeSize) /\ inCodeSize # me[t].size
                          /\ InterruptedAt(me[t].blockIndex)
      /\ ~ CodeOver(t, c, n, r, dicPos, inCodeSize, res) => w = "code" /\ l2.link = me[t].link + 1
      /\ CodeOver(t, c, n, r, dicPos, inCodeSize, res) => w = "write" /\ l2.link = me[t].link
      /\ l2.size = me[t].size /\ l2.start = me[t].start
  BY DEF CodeLeaves
<1>4. PICK m, size, p, b, q, e : DecodeEnds(me[t], c, c2, a, m, size, n, p, b, r, q, e, dicPos, inCodeSize)
  BY <1>1, <1>2, DecodeDoes
<1>5. PICK P, Q, B : Ended(me[t], c, c2, a, m, size, n, p, b, r, q, e, dicPos, inCodeSize, P, Q, B)
  BY <1>4, DecodeEnded
<1>6. PICK buf : Fields(c2) /\ CoderGoes(c2, c, r.dec, dicPos, inCodeSize, r.res, buf)
  BY <1>4 DEF DecodeEnds
<1>7. /\ c2.inPreSize = c.inPreSize /\ c2.outPreSize = c.outPreSize /\ c2.parseStatus = c.parseStatus
      /\ c2.state = c.state
  BY <1>6 DEF CoderGoes
<1>8. size = me[t].size
  BY <1>4 DEF DecodeEnds, Decoded
<1>9. CASE r.res # OK
  <2>1. res = r.res
    BY <1>1, <1>9
  <2>2. r.res = "DATA"
    BY <1>5, <1>9 DEF Ended
  <2>3. l2.codeRes = "DATA" /\ ~ l2.interrupted /\ res # OK
    BY <1>1, <1>3, <1>9, <2>2
  <2>4. CodedInPart(c2, l2, a)
    BY <1>3, <1>4, <1>8, <1>9, <2>3, CodeRefused
  <2>5. w = "write"
    BY <1>3, <2>3 DEF CodeOver
  <2> QED  BY <1>6, <1>7, <2>3, <2>4, <2>5 DEF CodeGives
<1>10. CASE r.res = OK
  <2>1. Goes(c, m, size, n, p, b, r, q, dicPos, inCodeSize, Q, B)
    BY <1>4, <1>5, <1>10, CodeGoes
  <2>2. ~ CodeShort(c, n, r, dicPos, inCodeSize) /\ (inCodeSize = size <=> q = b)
    BY <2>1 DEF Goes
  <2>3. res = OK /\ l2.codeRes = OK
    BY <1>1, <1>3, <1>10, <2>2
  <2>4. CASE CodeStops(c, n, r, dicPos, inCodeSize) \/ q = b
    <3>1. w = "write" /\ ~ l2.interrupted
      BY <1>3, <1>8, <2>2, <2>4 DEF CodeOver
    <3>2. CodedWhole(c2, l2, a)
      BY <1>3, <1>5, <1>8, <1>10, <2>1, <2>3, <2>4, CodeWhole
    <3> QED  BY <1>6, <1>7, <2>3, <3>1, <3>2 DEF CodeGives
  <2>5. CASE ~ (CodeStops(c, n, r, dicPos, inCodeSize) \/ q = b)
    <3>1. CASE InterruptedAt(me[t].blockIndex)
      <4>1. l2.interrupted /\ w = "write"
        BY <1>3, <1>8, <2>2, <2>3, <2>5, <3>1 DEF CodeOver
      <4> QED  BY <1>6, <1>7, <2>3, <3>1, <4>1 DEF CodeGives
    <3>2. CASE ~ InterruptedAt(me[t].blockIndex)
      <4>1. w = "code" /\ ~ l2.interrupted /\ l2.link = me[t].link + 1
        BY <1>3, <1>8, <2>2, <2>3, <2>5, <3>2 DEF CodeOver
      <4>2. Coding(c2, l2, a)
        BY <1>3, <1>4, <1>5, <1>8, <1>10, <2>1, <2>3, <2>5, <4>1, CodeMore
      <4> QED  BY <1>6, <1>7, <2>3, <4>1, <4>2 DEF CodeGives
    <3> QED  BY <3>1, <3>2
  <2> QED  BY <2>4, <2>5
<1> QED  BY <1>9, <1>10

-----------------------------------------------------------------------------
\* Who was interrupted stays so when another error comes.
LEMMA InterruptedStays ==
    ASSUME Interrupts, Blocks, NEW k \in Nat, Interrupt(k), NEW i \in Nat, InterruptedAt(i)
    PROVE  InterruptedAt(i)'
<1>1. needInterrupt /\ i > interruptIndex
  BY DEF InterruptedAt
<1>2. PICK u \in Threads : pc[u] = "write" /\ me[u].blockIndex = interruptIndex
  BY <1>1 DEF Interrupts
<1>3. interruptIndex \in Nat
  BY <1>2 DEF Blocks, Busy
<1>4. needInterrupt' = TRUE /\ interruptIndex' = IF k < interruptIndex THEN k ELSE interruptIndex
  BY <1>1 DEF Interrupt
<1>5. i > interruptIndex'
  BY <1>1, <1>3, <1>4
<1> QED  BY <1>4, <1>5 DEF InterruptedAt

\* The thread that met an error, or the one before it, interrupts the others.
LEMMA InterruptsOn ==
    ASSUME Interrupts, NEW t \in Threads, pc[t] # "write", pc'[t] = "write", me'[t].codeRes # OK,
           me'[t].blockIndex = me[t].blockIndex, Interrupt(me[t].blockIndex),
           \A u \in Threads : u # t => me'[u] = me[u] /\ pc'[u] = pc[u]
    PROVE  Interrupts'
<1>1. /\ needInterrupt' = TRUE
      /\ interruptIndex' = me[t].blockIndex \/ (needInterrupt /\ interruptIndex' = interruptIndex)
  BY DEF Interrupt
<1>2. CASE interruptIndex' = me[t].blockIndex
  BY <1>2 DEF Interrupts
<1>3. CASE needInterrupt /\ interruptIndex' = interruptIndex
  <2>1. PICK u \in Threads : pc[u] = "write" /\ me[u].blockIndex = interruptIndex /\ me[u].codeRes # OK
    BY <1>3 DEF Interrupts
  <2>2. u # t /\ pc'[u] = pc[u] /\ me'[u] = me[u]
    BY <2>1
  <2> QED  BY <1>3, <2>1, <2>2 DEF Interrupts
<1> QED  BY <1>1, <1>2, <1>3

LEMMA BlockCoded ==
    ASSUME CallInv, NEW a \in Where, NEW z, NEW t,
           BlockHeld("code", threads[t].inBuf, me[t], coders[t], a),
           NEW w, NEW l2, NEW c2, NEW c, NEW n, NEW r, NEW dicPos, NEW inCodeSize, NEW res,
           CodeMakes(t, c, n, r, dicPos, inCodeSize, res),
           CodeLeaves(t, w, l2, c2, c, n, r, dicPos, inCodeSize, res)
    PROVE  /\ ~ l2.interrupted => BlockHeld(w, threads[t].inBuf, l2, c2, a)
           /\ Ahead(me[t], coders[t], a, z) => Ahead(l2, c2, a, z)
<1>1. /\ w \in {"code", "write"} /\ l2.codeRes = res
      /\ w = "code" => res = OK
      /\ l2.size = me[t].size /\ l2.start = me[t].start
      /\ l2.allocError = me[t].allocError /\ l2.overflow = me[t].overflow /\ l2.threading = me[t].threading
      /\ l2.needWrite = me[t].needWrite /\ l2.finish = me[t].finish
  BY DEF CodeLeaves, CodeOver
<1>2. /\ Linked(threads[t].inBuf, me[t].start, me[t].size, a) /\ Room(a)
      /\ Troublesome(me[t]) => me[t].finish
      /\ me[t].codeRes = OK
  BY DEF BlockHeld
<1>3. CASE Troublesome(me[t])
  <2>1. Troublesome(l2)
    BY <1>1, <1>2, <1>3 DEF Troublesome, OK
  <2>2. BlockHeld(w, threads[t].inBuf, l2, c2, a)
    BY <1>1, <1>2, <1>3, <2>1 DEF BlockHeld
  <2>3. Ahead(me[t], coders[t], a, z) => Ahead(l2, c2, a, z)
    BY <1>1, <1>3, <2>1 DEF Ahead
  <2> QED  BY <2>2, <2>3
<1>4. CASE ~ Troublesome(me[t])
  <2>1. /\ Fields(coders[t]) /\ me[t].needWrite /\ Parsed(coders[t], a, me[t].size)
        /\ me[t].finish <=> coders[t].parseStatus # "block"
        /\ Coding(coders[t], me[t], a)
    BY <1>4 DEF BlockHeld
  <2>2. CodingAt(me[t], threads[t].inBuf, c, a, n, r)
    <3>1. stream \in Seq(Symbols) /\ Len(stream) \in Nat /\ outSize \in Nat
      BY CallIs
    <3>2. a \in Nat
      BY <3>1 DEF Where
    <3>3. c = coders[t] /\ n = LinkSize(me[t].link, me[t].start, me[t].size)
          /\ r = Decode(c.dec, SubSeq(threads[t].inBuf[me[t].link], 1, n), stream,
                  c.outPreSize - c.dicPos, Finishes(c))
      BY DEF CodeMakes
    <3> QED  BY <1>2, <2>1, <3>1, <3>2, <3>3 DEF CodingAt
  <2>3. CodeGives(t, w, l2, c2, c, a)
    BY <2>2, CodeDone
  <2>4. c = coders[t]
    BY DEF CodeMakes
  <2>5. /\ Fields(c2)
        /\ c2.inPreSize = c.inPreSize /\ c2.outPreSize = c.outPreSize /\ c2.parseStatus = c.parseStatus
        /\ c2.state = c.state
        /\ l2.codeRes \in {OK, "DATA"}
        /\ ~ l2.interrupted =>
             /\ w = "code" => Coding(c2, l2, a)
             /\ w = "write" => CodedWhole(c2, l2, a) \/ CodedInPart(c2, l2, a)
    BY <2>3 DEF CodeGives
  <2>6. Parsed(c2, a, l2.size)
    BY <1>1, <2>1, <2>4, <2>5, ParsedAs
  <2>7. ~ Troublesome(l2)
    BY <1>1, <1>4, <2>5 DEF Troublesome, OK
  <2>8. Ahead(me[t], coders[t], a, z) => Ahead(l2, c2, a, z)
    BY <1>1, <1>4, <2>4, <2>5, <2>7, AheadAs
  <2>9. ASSUME ~ l2.interrupted PROVE BlockHeld(w, threads[t].inBuf, l2, c2, a)
    <3>1. w # "pass" /\ (w = "code" => l2.codeRes = OK)
      BY <1>1
    <3>2. Linked(threads[t].inBuf, l2.start, l2.size, a)
      BY <1>1, <1>2
    <3> QED  BY <1>1, <1>2, <2>1, <2>4, <2>5, <2>6, <2>7, <2>9, <3>1, <3>2 DEF BlockHeld
  <2> QED  BY <2>8, <2>9
<1> QED  BY <1>3, <1>4

-----------------------------------------------------------------------------
LEMMA CodeBlocks ==
    ASSUME MtState, NEW A, NEW z, InBlocks(A, z), NEW t \in Threads, Code(t)
    PROVE  SameCall /\ ReadInv' /\ InBlocks(A, z)'
<1>1. /\ A \in [Threads -> Where] /\ z \in Where /\ DOMAIN coders = Threads
      /\ \A u \in Threads : Placed(u, A, z)
      /\ Interrupts
  BY DEF InBlocks
<1>2. PICK c, n, r, dicPos, inCodeSize, res :
             /\ CodeStep(t, res)
             /\ CodeMakes(t, c, n, r, dicPos, inCodeSize, res)
             /\ CodeLeaves(t, pc'[t], me'[t], coders'[t], c, n, r, dicPos, inCodeSize, res)
  BY <1>1, CodeSteps DEF MtState
<1>3. /\ SameCall /\ UNCHANGED readVars /\ pc[t] = "code"
      /\ UNCHANGED <<blockIndex, out>> /\ threads' = threads
      /\ DOMAIN coders' = Threads
      /\ \A u \in Threads : u # t => me'[u] = me[u] /\ coders'[u] = coders[u] /\ pc'[u] = pc[u]
      /\ IF res # OK THEN Interrupt(me[t].blockIndex) ELSE UNCHANGED <<needInterrupt, interruptIndex>>
  BY <1>2 DEF CodeStep
<1>4. PICK w, l2, c2 : w = pc'[t] /\ l2 = me'[t] /\ c2 = coders'[t]
  OBVIOUS
<1>5. CodeLeaves(t, w, l2, c2, c, n, r, dicPos, inCodeSize, res)
  BY <1>2, <1>4, Zenon
<1>6. /\ l2.blockIndex = me[t].blockIndex /\ w \in {"code", "write"} /\ l2.codeRes = res
      /\ l2.interrupted => InterruptedAt(me[t].blockIndex) /\ w = "write" /\ res = OK
      /\ res # OK => w = "write"
      /\ l2.finish = me[t].finish /\ l2.next = me[t].next /\ l2.size = me[t].size
  BY <1>5 DEF CodeLeaves, CodeOver
<1>7. Busy(t) /\ Busy(t)' /\ Held(t) /\ Passed(t)' /\ Passed(t)
  BY <1>3, <1>4, <1>6 DEF Busy, Held, Passed
<1>8. \A v \in Threads : (Busy(v)' <=> Busy(v)) /\ me'[v].blockIndex = me[v].blockIndex
  BY <1>3, <1>4, <1>6, <1>7 DEF Busy
<1>b. Blocks
  BY DEF MtState, Together
<1>9. \A u \in Threads : Busy(u) /\ InterruptedAt(me[u].blockIndex) => InterruptedAt(me[u].blockIndex)'
  <2>1. TAKE u \in Threads
  <2>2. HAVE Busy(u) /\ InterruptedAt(me[u].blockIndex)
  <2>3. PICK i \in Nat : i = me[u].blockIndex /\ i = me'[u].blockIndex
    BY <1>8, <1>b, <2>2 DEF Blocks
  <2>4. PICK k \in Nat : k = me[t].blockIndex
    BY <1>7, <1>b DEF Blocks
  <2>5. InterruptedAt(i)'
    <3>1. InterruptedAt(i)
      BY <2>2, <2>3
    <3>2. CASE res = OK
      BY <1>3, <3>1, <3>2 DEF InterruptedAt
    <3>3. CASE res # OK
      <4>1. Interrupt(k)
        BY <1>3, <2>4, <3>3
      <4> QED  BY <1>1, <1>b, <3>1, <4>1, InterruptedStays
    <3> QED  BY <3>2, <3>3
  <2> QED  BY <2>3, <2>5 DEF InterruptedAt
<1>10. \A u \in Threads : u # t => Placed(u, A, z)'
  <2>1. TAKE u \in Threads
  <2>2. HAVE u # t
  <2>3. Placed(u, A, z)
    BY <1>1
  <2>4. StaysPut(u)
    BY <1>3, <2>2 DEF StaysPut
  <2> QED  BY <1>3, <1>8, <1>9, <2>3, <2>4, QuietStays
<1>11. PICK a \in Where : a = A[t]
  BY <1>1
<1>12. /\ threads[t].inBuf \in Seq(Seq(Nat)) /\ (First(t) => OutAt(a))
       /\ BlockHeld("code", threads[t].inBuf, me[t], coders[t], a)
       /\ IsLast(t) => Ahead(me[t], coders[t], a, z)
       /\ ~ me[t].finish /\ ~ IsLast(t) => A[me[t].next] = a + me[t].size
       /\ ~ me[t].interrupted
  <2>1. Placed(t, A, z)
    BY <1>1
  <2>2. ~ me[t].interrupted
    BY <1>3, <2>1 DEF Placed
  <2>3. BlockHeld(pc[t], threads[t].inBuf, me[t], coders[t], A[t])
    BY <1>7, <2>1, <2>2, Zenon DEF Placed
  <2>4. IsLast(t) => Ahead(me[t], coders[t], A[t], z)
    BY <1>7, <2>1, <2>2, Zenon DEF Placed
  <2>5. ~ me[t].finish /\ ~ IsLast(t) => A[me[t].next] = A[t] + me[t].size
    BY <1>7, <2>1, <2>2, Zenon DEF Placed
  <2>6. threads[t].inBuf \in Seq(Seq(Nat)) /\ (First(t) => OutAt(A[t]))
    BY <2>1 DEF Placed
  <2> QED  BY <1>3, <1>11, <2>2, <2>3, <2>4, <2>5, <2>6
<1>13. PICK inBuf : inBuf = threads[t].inBuf /\ inBuf = threads'[t].inBuf
  BY <1>3
<1>14. ~ l2.interrupted => BlockHeld(w, inBuf, l2, c2, a) /\ (IsLast(t) => Ahead(l2, c2, a, z))
  <2>1. CallInv
    BY DEF MtState
  <2>2. CodeMakes(t, c, n, r, dicPos, inCodeSize, res)
    BY <1>2
  <2>3. /\ ~ l2.interrupted => BlockHeld(w, threads[t].inBuf, l2, c2, a)
        /\ Ahead(me[t], coders[t], a, z) => Ahead(l2, c2, a, z)
    BY <1>5, <1>12, <2>1, <2>2, BlockCoded
  <2> QED  BY <1>12, <1>13, <2>3
<1>15. ~ l2.interrupted => BlockHeld(w, inBuf, l2, c2, a)' /\ (IsLast(t) => Ahead(l2, c2, a, z)')
  BY <1>3, <1>14, HeldStays, ReadStays
<1>16. IsLast(t)' <=> IsLast(t)
  BY <1>3, <1>4, <1>6 DEF IsLast
<1>17. Placed(t, A, z)'
  <2>1. pc[t]' = w /\ me[t]' = l2 /\ coders[t]' = c2 /\ threads[t].inBuf' = inBuf /\ A[t] = a
    BY <1>4, <1>11, <1>13
  <2>2. First(t)' => OutAt(a)'
    BY <1>3, <1>8, <1>12, FirstStays, OutStays
  <2>3. l2.interrupted => InterruptedAt(l2.blockIndex)'
    <3>1. l2.interrupted => InterruptedAt(me[t].blockIndex)'
      BY <1>6, <1>7, <1>9 DEF InterruptedAt
    <3> QED  BY <1>3, <1>6, <3>1 DEF InterruptedAt
  <2>5. w # "link" /\ (w = "code" => ~ l2.interrupted)
    BY <1>6
  <2>6. ~ l2.finish /\ ~ IsLast(t)' => A[l2.next] = a + l2.size
    BY <1>6, <1>12, <1>16
  <2> QED  BY <1>6, <1>7, <1>12, <1>13, <1>15, <1>16, <2>1, <2>2, <2>3, <2>5, <2>6 DEF Placed
<1>18. Interrupts'
  <2>1. CASE res = OK
    <3>1. UNCHANGED <<needInterrupt, interruptIndex>> /\ pc[t] # "write"
      BY <1>3, <2>1
    <3> QED  BY <1>1, <1>3, <3>1, InterruptsStay
  <2>2. CASE res # OK
    <3>1. pc[t] # "write" /\ pc'[t] = "write" /\ me'[t].codeRes # OK /\ me'[t].blockIndex = me[t].blockIndex
          /\ Interrupt(me[t].blockIndex)
      BY <1>3, <1>4, <1>6, <2>2
    <3> QED  BY <1>1, <1>3, <3>1, InterruptsOn
  <2> QED  BY <2>1, <2>2
<1>19. ~ NobodyBusy'
  BY <1>7 DEF NobodyBusy
<1>20. A \in [Threads -> Where'] /\ z \in Where'
  BY <1>1, <1>3, CallStays
<1>21. InBlocks(A, z)'
  BY <1>3, <1>10, <1>17, <1>18, <1>19, <1>20 DEF InBlocks
<1>22. ReadInv'
  BY <1>3, ReadInvStays DEF MtState
<1> QED  BY <1>3, <1>21, <1>22

-----------------------------------------------------------------------------
(* A block is begun.                                                       *)

\* A thread that has no data yet.
LEMMA EmptyLinked ==
    ASSUME NEW inBuf \in Seq(Seq(Nat)), NEW a
    PROVE  Linked(inBuf, 0, 0, a)
<1>1. ASSUME NEW k \in DOMAIN inBuf PROVE LinkSize(k, 0, 0) \in Int /\ LinkSize(k, 0, 0) <= 0
  <2>1. k \in Nat /\ k > 0
    BY LenProperties
  <2>2. CASE k = 1
    BY <2>2 DEF LinkSize
  <2>3. CASE k > 1
    <3>1. PICK w \in Nat : w = (k - 2) * InBufSize
      BY <2>1, <2>3, Multiples, Sizes
    <3>2. LinkSize(k, 0, 0) = IF 0 - 0 - w < InBufSize THEN 0 - 0 - w ELSE InBufSize
      BY <2>3, <3>1 DEF LinkSize
    <3> QED  BY <3>2, Sizes
  <2> QED  BY <2>1, <2>2, <2>3
<1>2. \A k \in DOMAIN inBuf : \A j \in 1..LinkSize(k, 0, 0) : FALSE
  BY <1>1
<1>3. LinksHold(inBuf, 0, 0, a)
  BY <1>2 DEF LinksHold
<1> QED  BY <1>3 DEF Linked

\* The block that was begun last, of those that the threads have.
LEMMA LastBusy ==
    ASSUME Shape, Blocks, ~ NobodyBusy
    PROVE  \E u \in Threads : Busy(u) /\ \A v \in Threads : Busy(v) => me[v].blockIndex <= me[u].blockIndex
<1> DEFINE T == {n \in Nat : \E u \in Threads : Busy(u) /\ n = blockIndex - me[u].blockIndex}
<1>1. \A u \in Threads : Busy(u) => /\ me[u].blockIndex \in Nat
                                    /\ blockIndex - me[u].blockIndex \in Nat
  BY DEF Shape, Blocks
<1>2. T # {}
  BY <1>1 DEF NobodyBusy
<1>3. PICK n \in T : \A m \in T : n <= m
  BY <1>2, LeastNumber
<1>4. PICK u \in Threads : Busy(u) /\ n = blockIndex - me[u].blockIndex
  BY <1>3
<1>5. \A v \in Threads : Busy(v) => me[v].blockIndex <= me[u].blockIndex
  <2>1. TAKE v \in Threads
  <2>2. HAVE Busy(v)
  <2>3. PICK i \in Nat, j \in Nat : i = me[u].blockIndex /\ j = me[v].blockIndex
    BY <1>1, <1>4, <2>2
  <2>4. blockIndex - j \in T
    BY <1>1, <2>2, <2>3
  <2>5. blockIndex - i <= blockIndex - j /\ blockIndex \in Nat
    BY <1>3, <1>4, <2>3, <2>4 DEF Shape
  <2> QED  BY <2>3, <2>5
<1> QED  BY <1>4, <1>5

\* When a thread may read, the last of the blocks was passed on to it.
LEMMA PassedTo1 ==
    ASSUME Shape, Together, NEW t \in Threads, threads[t].canRead
    PROVE  /\ \A u \in Threads : Busy(u) /\ IsLast(u) =>
                Passed(u) /\ ~ me[u].finish /\ me[u].next = t
           /\ NobodyBusy \/ \E u \in Threads : Busy(u) /\ IsLast(u)
<1>1. \A u \in Threads : Busy(u) => Passed(u) /\ ~ me[u].finish
  BY DEF Together, Readers, NobodyMayRead, Busy, Passed, Reading
<1>2. \A u \in Threads : Busy(u) /\ IsLast(u) => me[u].next = t
  BY <1>1 DEF Together, Followed, Readers
<1>3. ASSUME ~ NobodyBusy PROVE \E u \in Threads : Busy(u) /\ IsLast(u)
  <2>1. PICK u \in Threads : Busy(u) /\ \A v \in Threads : Busy(v) => me[v].blockIndex <= me[u].blockIndex
    BY <1>3, LastBusy DEF Together
  <2>2. ASSUME ~ IsLast(u) PROVE FALSE
    <3>1. me[u].next \in Threads /\ Busy(me[u].next)
          /\ me[me[u].next].blockIndex = me[u].blockIndex + 1
      BY <1>1, <2>1, <2>2 DEF Together, Followed
    <3>2. me[u].blockIndex \in Nat
      BY <2>1 DEF Together, Blocks
    <3> QED  BY <2>1, <3>1, <3>2
  <2> QED  BY <2>1, <2>2
<1> QED  BY <1>1, <1>2, <1>3

\* What comes next is there, unless the block is interrupted.
LEMMA NextComes ==
    ASSUME MtState, NEW A, NEW z, InBlocks(A, z), NEW t \in Threads, threads[t].canRead
    PROVE  /\ ~ InterruptedAt(blockIndex) => Fresh(z)
           /\ \A u \in Threads : Busy(u) /\ IsLast(u) /\ ~ me[u].interrupted => z = A[u] + me[u].size
<1>1. /\ \A u \in Threads : Busy(u) /\ IsLast(u) =>
                Passed(u) /\ ~ me[u].finish /\ me[u].next = t
      /\ NobodyBusy \/ \E u \in Threads : Busy(u) /\ IsLast(u)
  BY PassedTo1 DEF MtState
<1>2. ASSUME NEW u \in Threads, Busy(u), IsLast(u), ~ me[u].interrupted
      PROVE  Fresh(z) /\ z = A[u] + me[u].size
  <2>1. Placed(u, A, z) /\ Held(u)
    BY <1>1, <1>2 DEF InBlocks, Held, Passed
  <2>2. Ahead(me[u], coders[u], A[u], z) /\ BlockHeld(pc[u], threads[u].inBuf, me[u], coders[u], A[u])
    BY <1>2, <2>1 DEF Placed
  <2>3. ~ Troublesome(me[u])
    BY <1>1, <1>2, <2>2 DEF BlockHeld
  <2>4. coders[u].parseStatus = "block"
    BY <1>1, <1>2, <2>2, <2>3 DEF BlockHeld
  <2> QED  BY <2>2, <2>3, <2>4 DEF Ahead
<1>3. ASSUME NEW u \in Threads, Busy(u), IsLast(u), me[u].interrupted
      PROVE  InterruptedAt(blockIndex)
  <2>1. Placed(u, A, z)
    BY DEF InBlocks
  <2>2. InterruptedAt(me[u].blockIndex)
    BY <1>3, <2>1 DEF Placed
  <2>3. PICK i \in Nat : i = me[u].blockIndex /\ i + 1 = blockIndex
    BY <1>3 DEF MtState, Together, Blocks, IsLast
  <2>4. needInterrupt /\ i > interruptIndex
    BY <2>2, <2>3 DEF InterruptedAt
  <2>5. PICK k \in Nat : k = interruptIndex
    BY <2>4 DEF InBlocks, Interrupts, MtState, Together, Blocks, Busy
  <2> QED  BY <2>3, <2>4, <2>5 DEF InterruptedAt
<1>4. NobodyBusy => Fresh(z)
  BY DEF InBlocks
<1> QED  BY <1>1, <1>2, <1>3, <1>4

-----------------------------------------------------------------------------
\* What a thread has when it begins a block.
Begun(t, l2, w) ==
    /\ DOMAIN l2 = DOMAIN NoLocals /\ l2.blockIndex = blockIndex
    /\ l2.interrupted = InterruptedAt(blockIndex) /\ w = (IF InterruptedAt(blockIndex) THEN "pass" ELSE "link")
    /\ ~ InterruptedAt(blockIndex) => l2.finish = readWasFinished
    /\ ~ l2.needCode /\ ~ l2.needWrite /\ ~ Troublesome(l2) /\ l2.codeRes = OK
    /\ l2.link = 1 /\ l2.start = 0 /\ l2.size = 0

LEMMA BegunIs ==
    ASSUME Shape, ReadInv, NEW t \in Threads, BeginBlock(t), ~ exitThread
    PROVE  /\ Begun(t, me'[t], pc'[t])
           /\ SameCall /\ UNCHANGED readVars /\ pc[t] = "idle" /\ threads[t].canRead
           /\ UNCHANGED <<needInterrupt, interruptIndex, out>>
           /\ coders' = coders /\ blockIndex' = blockIndex + 1
           /\ \A u \in Threads : threads'[u].inBuf = threads[u].inBuf
           /\ \A u \in Threads : u # t => me'[u] = me[u] /\ pc'[u] = pc[u]
<1>1. /\ pc[t] = "idle" /\ threads[t].canRead
      /\ threads' = [threads EXCEPT ![t].canRead = FALSE]
      /\ UNCHANGED readVars /\ blockIndex' = blockIndex + 1
      /\ me' = [me EXCEPT ![t] = [NoLocals EXCEPT
                        !.blockIndex = blockIndex,
                        !.interrupted = InterruptedAt(blockIndex),
                        !.finish = readWasFinished \/ InterruptedAt(blockIndex)]]
      /\ pc' = [pc EXCEPT ![t] = IF InterruptedAt(blockIndex) THEN "pass" ELSE "link"]
      /\ coders' = coders
  BY DEF BeginBlock, Goto
<1>2. SameCall /\ UNCHANGED <<needInterrupt, interruptIndex, out>>
  BY DEF BeginBlock, callVars, interruptVars, SameCall
<1>3. DOMAIN me = Threads /\ pc \in [Threads -> Pcs] /\ DOMAIN threads = Threads
      /\ \A u \in Threads : "inBuf" \in DOMAIN threads[u] /\ "canRead" \in DOMAIN threads[u]
  BY DEF Shape
<1>4. \A u \in Threads : threads'[u].inBuf = threads[u].inBuf
  BY <1>1, <1>3
<1>5. \A u \in Threads : u # t => me'[u] = me[u] /\ pc'[u] = pc[u]
  BY <1>1, <1>3
<1>6. Begun(t, me'[t], pc'[t])
  <2>1. PICK i, f, l2 : /\ i = InterruptedAt(blockIndex) /\ i \in BOOLEAN
                        /\ f = (readWasFinished \/ InterruptedAt(blockIndex)) /\ l2 = me'[t]
    BY DEF InterruptedAt
  <2>2. l2 = [NoLocals EXCEPT !.blockIndex = blockIndex, !.interrupted = i, !.finish = f]
    BY <1>1, <1>3, <2>1
  <2>3. /\ DOMAIN l2 = DOMAIN NoLocals /\ l2.blockIndex = blockIndex /\ l2.interrupted = i /\ l2.finish = f
        /\ l2.needCode = NoLocals.needCode /\ l2.needWrite = NoLocals.needWrite
        /\ l2.allocError = NoLocals.allocError /\ l2.overflow = NoLocals.overflow
        /\ l2.threading = NoLocals.threading /\ l2.codeRes = NoLocals.codeRes
        /\ l2.link = NoLocals.link /\ l2.start = NoLocals.start /\ l2.size = NoLocals.size
    BY <2>2, Locals DEF LocalsAreThere
  <2>4. /\ NoLocals.needCode = FALSE /\ NoLocals.needWrite = FALSE /\ NoLocals.allocError = FALSE
        /\ NoLocals.overflow = FALSE /\ NoLocals.threading = FALSE /\ NoLocals.codeRes = OK
        /\ NoLocals.link = 1 /\ NoLocals.start = 0 /\ NoLocals.size = 0
    BY DEF NoLocals
  <2>5. ~ Troublesome(l2)
    BY <2>3, <2>4 DEF Troublesome, OK
  <2>6. pc'[t] = IF InterruptedAt(blockIndex) THEN "pass" ELSE "link"
    BY <1>1, <1>3
  <2>7. ~ InterruptedAt(blockIndex) => f = readWasFinished
    <3>1. readWasFinished \in BOOLEAN
      BY DEF ReadInv
    <3> QED  BY <2>1, <3>1
  <2>8. l2.interrupted = InterruptedAt(blockIndex)
    BY <2>1, <2>3, Zenon
  <2>9. /\ DOMAIN l2 = DOMAIN NoLocals /\ l2.blockIndex = blockIndex
        /\ ~ InterruptedAt(blockIndex) => l2.finish = readWasFinished
    BY <2>3, <2>7, Zenon
  <2>10. ~ l2.needCode /\ ~ l2.needWrite /\ l2.codeRes = OK /\ l2.link = 1 /\ l2.start = 0 /\ l2.size = 0
    BY <2>3, <2>4
  <2>11. Begun(t, l2, pc'[t])
    BY <2>5, <2>6, <2>8, <2>9, <2>10, Zenon DEF Begun
  <2> QED  BY <2>1, <2>11, Zenon
<1> QED  BY <1>1, <1>2, <1>4, <1>5, <1>6

LEMMA BeginBlocks ==
    ASSUME MtState, NEW A, NEW z, InBlocks(A, z), NEW t \in Threads, BeginBlock(t), ~ exitThread
    PROVE  SameCall /\ ReadInv' /\ \E A2 : InBlocks(A2, z)'
<1>0. Shape /\ ReadInv
  BY DEF MtState
<1>1. /\ A \in [Threads -> Where] /\ z \in Where /\ DOMAIN coders = Threads
      /\ \A u \in Threads : Placed(u, A, z)
      /\ Interrupts /\ (NobodyBusy => Fresh(z) /\ OutAt(z))
  BY DEF InBlocks
<1>2. /\ Begun(t, me'[t], pc'[t])
      /\ SameCall /\ UNCHANGED readVars /\ pc[t] = "idle" /\ threads[t].canRead
      /\ UNCHANGED <<needInterrupt, interruptIndex, out>>
      /\ coders' = coders /\ blockIndex' = blockIndex + 1
      /\ \A u \in Threads : threads'[u].inBuf = threads[u].inBuf
      /\ \A u \in Threads : u # t => me'[u] = me[u] /\ pc'[u] = pc[u]
  BY <1>0, BegunIs
<1>3. PICK l2, w : l2 = me'[t] /\ w = pc'[t]
  OBVIOUS
<1>4. Begun(t, l2, w)
  BY <1>2, <1>3, Zenon
<1>5. /\ \A u \in Threads : Busy(u) /\ IsLast(u) => Passed(u) /\ ~ me[u].finish /\ me[u].next = t
      /\ NobodyBusy \/ \E u \in Threads : Busy(u) /\ IsLast(u)
  BY <1>2, PassedTo1 DEF MtState
<1>6. /\ ~ InterruptedAt(blockIndex) => Fresh(z)
      /\ \A u \in Threads : Busy(u) /\ IsLast(u) /\ ~ me[u].interrupted => z = A[u] + me[u].size
  BY <1>2, NextComes
<1>7. PICK A2 : A2 = [A EXCEPT ![t] = z]
  OBVIOUS
<1>8. /\ A2 \in [Threads -> Where] /\ A2[t] = z /\ \A u \in Threads : u # t => A2[u] = A[u]
  BY <1>1, <1>7
<1>9. ~ Busy(t) /\ Busy(t)' /\ w \in {"pass", "link"} /\ ~ Passed(t)'
      /\ \A u \in Threads : u # t => (Busy(u)' <=> Busy(u)) /\ (Passed(u)' <=> Passed(u))
  BY <1>2, <1>3, <1>4 DEF Begun, Busy, Passed
<1>10. \A u \in Threads : Busy(u) => me[u].blockIndex \in Nat /\ me[u].blockIndex < blockIndex
  BY DEF MtState, Together, Blocks
<1>11. \A u \in Threads : Busy(u) => u # t /\ me'[u].blockIndex = me[u].blockIndex
  BY <1>2, <1>9
<1>12. blockIndex \in Nat
  BY DEF MtState, Shape
<1>13. \A u \in Threads : u # t => Placed(u, A2, z)'
  <2>1. TAKE u \in Threads
  <2>2. HAVE u # t
  <2>3. Placed(u, A, z)
    BY <1>1
  <2>4. StaysPut(u)
    BY <1>2, <2>2 DEF StaysPut
  <2>5. Busy(u) => ~ IsLast(u)'
    BY <1>2, <1>10, <1>11, <1>12 DEF IsLast
  <2>6. Held(u) /\ ~ me[u].interrupted /\ IsLast(u)' => FALSE
    BY <2>5 DEF Held, Busy
  <2>7. ASSUME Passed(u), ~ me[u].interrupted, ~ me[u].finish
        PROVE  A2[me[u].next] = A[u] + me[u].size
    <3>1. Busy(u) /\ Held(u)
      BY <2>7 DEF Passed, Busy, Held
    <3>2. CASE IsLast(u)
      BY <1>5, <1>6, <1>8, <2>7, <3>1, <3>2
    <3>3. CASE ~ IsLast(u)
      <4>1. A[me[u].next] = A[u] + me[u].size
        BY <2>3, <2>7, <3>1, <3>3 DEF Placed
      <4>2. me[u].next \in Threads /\ Busy(me[u].next)
        BY <2>7, <3>3 DEF MtState, Together, Followed
      <4> QED  BY <1>8, <1>9, <4>1, <4>2
    <3> QED  BY <3>2, <3>3
  <2>8. First(u)' => OutAt(A[u])'
    <3>1. ASSUME First(u)' PROVE First(u)
      <4>1. Busy(u) /\ \A v \in Threads : Busy(v) => me[u].blockIndex <= me[v].blockIndex
        BY <1>9, <1>11, <2>2, <3>1 DEF First
      <4> QED  BY <4>1 DEF First
    <3>2. First(u) => OutAt(A[u])
      BY <2>3 DEF Placed
    <3> QED  BY <1>2, <3>1, <3>2, OutStays
  <2>9. Busy(u) /\ InterruptedAt(me[u].blockIndex) => InterruptedAt(me[u].blockIndex)'
    BY <1>2, <1>11 DEF InterruptedAt
  <2>10. Around(u, A, z, A2, z)
    BY <1>2, <1>8, <2>2, <2>6, <2>7, <2>8, <2>9 DEF Around
  <2> QED  BY <1>2, <2>3, <2>4, <2>10, PlacedStays
<1>14. Placed(t, A, z)
  BY <1>1
<1>15. threads[t].inBuf \in Seq(Seq(Nat)) /\ Fields(coders[t])
  BY <1>9, <1>14 DEF Placed
<1>16. PICK inBuf, c2 : inBuf = threads[t].inBuf /\ c2 = coders[t]
  OBVIOUS
<1>17. ASSUME w = "link" PROVE BlockRead(inBuf, l2, c2, z)
  <2>1. ~ InterruptedAt(blockIndex)
    BY <1>4, <1>17 DEF Begun
  <2>2. Fresh(z)
    BY <1>6, <2>1
  <2>3. Linked(inBuf, 0, 0, z)
    BY <1>15, <1>16, EmptyLinked
  <2>4. /\ l2.link = 1 /\ l2.size = 0 /\ l2.start = 0 /\ ~ l2.needWrite /\ ~ l2.needCode
        /\ l2.finish = readWasFinished /\ ~ Troublesome(l2) /\ l2.codeRes = OK /\ ~ l2.interrupted
    BY <1>4, <2>1 DEF Begun
  <2>5. ReadNothing(l2, z)
    BY <2>2, <2>4 DEF ReadNothing
  <2> QED  BY <1>15, <1>16, <2>3, <2>4, <2>5 DEF BlockRead
<1>18. w = "link" => BlockRead(inBuf, l2, c2, z)'
  BY <1>2, <1>17, ReadStays
<1>19. Placed(t, A2, z)'
  <2>1. pc[t]' = w /\ me[t]' = l2 /\ coders[t]' = c2 /\ threads[t].inBuf' = inBuf /\ A2[t] = z
    BY <1>2, <1>3, <1>8, <1>16
  <2>2. First(t)' => OutAt(z)'
    <3>1. ASSUME First(t)' PROVE NobodyBusy
      <4>1. SUFFICES ASSUME NEW v \in Threads, Busy(v) PROVE FALSE
        BY DEF NobodyBusy
      <4>2. Busy(v)' /\ me'[v].blockIndex = me[v].blockIndex /\ me[v].blockIndex \in Nat
            /\ me[v].blockIndex < blockIndex
        BY <1>9, <1>10, <1>11, <4>1
      <4>3. me'[t].blockIndex = blockIndex
        BY <1>3, <1>4 DEF Begun
      <4>4. me'[t].blockIndex <= me'[v].blockIndex
        BY <3>1, <4>1, <4>2 DEF First
      <4> QED  BY <1>12, <4>2, <4>3, <4>4
    <3> QED  BY <1>1, <1>2, <3>1, OutStays
  <2>3. l2.interrupted => InterruptedAt(l2.blockIndex)'
    BY <1>2, <1>4 DEF Begun, InterruptedAt
  <2>4. w # "code" /\ (w = "pass" => l2.interrupted)
    BY <1>4 DEF Begun
  <2>5. Held(t)' => w = "pass"
    BY <1>9, <2>1 DEF Held
  <2> QED  BY <1>9, <1>15, <1>16, <1>18, <2>1, <2>2, <2>3, <2>4, <2>5 DEF Placed
<1>20. Interrupts'
  BY <1>1, <1>2, InterruptsStay
<1>21. ~ NobodyBusy'
  BY <1>9 DEF NobodyBusy
<1>22. A2 \in [Threads -> Where'] /\ z \in Where' /\ DOMAIN coders' = Threads
  BY <1>1, <1>2, <1>8, CallStays
<1>23. InBlocks(A2, z)'
  BY <1>13, <1>19, <1>20, <1>21, <1>22 DEF InBlocks
<1>24. ReadInv'
  BY <1>0, <1>2, ReadInvStays
<1> QED  BY <1>2, <1>23, <1>24

-----------------------------------------------------------------------------
(* An iteration ends: what is left of the block.                           *)

\* What is kept of it for one thread to take over.
KeptOf(t, th, filled) ==
    /\ DOMAIN th = Threads
    /\ \A u \in Threads : DOMAIN th[u] = DOMAIN threads[u] /\ th[u].inBuf = threads[u].inBuf
    /\ filled => th[t].inDataSize_Start = me[t].start /\ th[t].inDataSize = me[t].size
LeftAs(t, needContinue) ==
    /\ \A u \in Threads : threads'[u].inBuf = threads[u].inBuf
    /\ \A u \in Threads : u # t => pc'[u] = pc[u]
    /\ me[t].finish /\ ~ needContinue =>
         (t # 0 /\ exitThread' = TRUE /\ pc'[t] = "idle") \/ (t = 0 /\ pc'[t] = "ended")
    /\ ~ me[t].finish \/ needContinue => exitThread' = exitThread /\ pc'[t] = "idle"

LEMMA TurnKeeps ==
    ASSUME NEW kept, NEW n, NEW f, NEW t \in Threads, KeptOf(t, kept, f),
           NEW th, \/ th = kept
                   \/ th = [kept EXCEPT ![n].canWrite = TRUE]
                   \/ th = [kept EXCEPT ![n].canRead = TRUE]
                   \/ th = [kept EXCEPT ![n].canWrite = TRUE, ![n].canRead = TRUE]
    PROVE  KeptOf(t, th, f)
<1>1. DOMAIN th = Threads
  BY DEF KeptOf
<1>2. ASSUME NEW u \in Threads
      PROVE  /\ DOMAIN th[u] = DOMAIN kept[u] /\ th[u].inBuf = kept[u].inBuf
             /\ th[u].inDataSize_Start = kept[u].inDataSize_Start /\ th[u].inDataSize = kept[u].inDataSize
  <2>0. u \in DOMAIN kept
    BY DEF KeptOf
  <2>1. CASE th = kept
    BY <2>1
  <2>2. CASE th = [kept EXCEPT ![n].canWrite = TRUE]
    BY <2>0, <2>2
  <2>3. CASE th = [kept EXCEPT ![n].canRead = TRUE]
    BY <2>0, <2>3
  <2>4. CASE th = [kept EXCEPT ![n].canWrite = TRUE, ![n].canRead = TRUE]
    <3>1. CASE u = n
      <4>1. PICK k2 : k2 = [kept EXCEPT ![n].canWrite = TRUE]
        OBVIOUS
      <4>2. th = [k2 EXCEPT ![n].canRead = TRUE]
        BY <2>4, <4>1
      <4>3. u \in DOMAIN k2 /\ k2[u] = [kept[u] EXCEPT !.canWrite = TRUE]
        BY <2>0, <3>1, <4>1
      <4>4. th[u] = [k2[u] EXCEPT !.canRead = TRUE]
        BY <3>1, <4>2, <4>3
      <4> QED  BY <4>3, <4>4
    <3>2. CASE u # n
      BY <2>0, <2>4, <3>2
    <3> QED  BY <3>1, <3>2
  <2> QED  BY <2>1, <2>2, <2>3, <2>4
<1> QED  BY <1>1, <1>2 DEF KeptOf

LeaveRecodes(t, written, res) ==
    ~ written
      /\ (~ me[t].needCode \/ res # OK \/ wasInterrupted' \/ me[t].codeRes # OK
             \/ me[t].interrupted \/ wasInterrupted \/ numFilledThreads # 0)
LeaveFills(t, recode) == recode /\ (me[t].size # 0 \/ ~ me[t].finish)
LeaveKeeps(t, filled) ==
    IF filled THEN [threads EXCEPT ![t].inDataSize_Start = me[t].start,
                                   ![t].inDataSize = me[t].size,
                                   ![t].canWrite = FALSE]
    ELSE [threads EXCEPT ![t].canWrite = FALSE]
LeaveGoes(t, needContinue, kept) ==
    CASE ~ me[t].finish ->
                  /\ threads' = [kept EXCEPT ![me[t].next].canWrite = TRUE]
                  /\ Goto(t, "idle") /\ UNCHANGED exitThread
             [] me[t].finish /\ needContinue ->
                  /\ threads' = [kept EXCEPT ![0].canWrite = TRUE, ![0].canRead = TRUE]
                  /\ Goto(t, "idle") /\ UNCHANGED exitThread
             [] me[t].finish /\ ~ needContinue /\ t # 0 ->
                  /\ threads' = [kept EXCEPT ![0].canRead = TRUE]
                  /\ exitThread' = TRUE
                  /\ Goto(t, "idle")
             [] OTHER -> threads' = kept /\ Goto(t, "ended") /\ UNCHANGED exitThread

LEMMA LeaveParts ==
    ASSUME NEW t, NEW written, NEW res, NEW needContinue, Leave(t, written, res, needContinue)
    PROVE  LET recode == LeaveRecodes(t, written, res)
               filled == LeaveFills(t, recode)
           IN  /\ filledThreadStart' = IF recode /\ numFilledThreads = 0 THEN t ELSE filledThreadStart
               /\ numFilledThreads' = numFilledThreads + (IF filled THEN 1 ELSE 0)
               /\ IF res # OK \/ (me[t].needWrite /\ ~ needContinue /\ ~ me[t].finish)
                  THEN Interrupt(me[t].blockIndex)
                  ELSE UNCHANGED interruptVars
               /\ LeaveGoes(t, needContinue, LeaveKeeps(t, filled))
  BY Zenon DEF Leave, LeaveRecodes, LeaveFills, LeaveKeeps, LeaveGoes

\* Where the thread goes, and what the threads have in their links.
LEMMA LeaveIs ==
    ASSUME Shape, NEW t \in Threads, NEW written \in BOOLEAN, NEW res, NEW needContinue \in BOOLEAN,
           Leave(t, written, res, needContinue), numFilledThreads = 0
    PROVE  /\ LeftAs(t, needContinue)
           /\ res = OK /\ (me[t].needWrite => needContinue \/ me[t].finish) =>
                UNCHANGED <<needInterrupt, interruptIndex>>
           /\ written => numFilledThreads' = 0
           /\ ~ written /\ wasInterrupted' /\ me[t].finish =>
                /\ me[t].size = 0 => numFilledThreads' = 0
                /\ me[t].size # 0 =>
                     /\ numFilledThreads' = 1 /\ filledThreadStart' = t
                     /\ threads'[t].inDataSize_Start = me[t].start
                     /\ threads'[t].inDataSize = me[t].size
<1>1. PICK recode, filled, kept :
        /\ recode = LeaveRecodes(t, written, res) /\ filled = LeaveFills(t, recode)
        /\ kept = LeaveKeeps(t, filled)
        /\ filledThreadStart' = IF recode /\ numFilledThreads = 0 THEN t ELSE filledThreadStart
        /\ numFilledThreads' = numFilledThreads + (IF filled THEN 1 ELSE 0)
        /\ IF res # OK \/ (me[t].needWrite /\ ~ needContinue /\ ~ me[t].finish)
           THEN Interrupt(me[t].blockIndex) ELSE UNCHANGED interruptVars
        /\ LeaveGoes(t, needContinue, kept)
  BY LeaveParts
<1>2. KeptOf(t, kept, filled)
  <2>1. DOMAIN threads = Threads
        /\ \A u \in Threads : DOMAIN threads[u] = {"canRead", "canWrite", "inBuf", "inDataSize_Start", "inDataSize"}
    BY DEF Shape
  <2>2. KeptOf(t, [threads EXCEPT ![t].inDataSize_Start = me[t].start,
                                   ![t].inDataSize = me[t].size,
                                   ![t].canWrite = FALSE], TRUE)
    BY <2>1 DEF KeptOf
  <2>3. KeptOf(t, [threads EXCEPT ![t].canWrite = FALSE], FALSE)
    BY <2>1 DEF KeptOf
  <2>4. CASE filled
    <3>1. kept = [threads EXCEPT ![t].inDataSize_Start = me[t].start,
                                   ![t].inDataSize = me[t].size,
                                   ![t].canWrite = FALSE]
      BY <1>1, <2>4, Zenon DEF LeaveKeeps
    <3> QED  BY <2>2, <3>1, Zenon DEF KeptOf
  <2>5. CASE ~ filled
    <3>1. kept = [threads EXCEPT ![t].canWrite = FALSE]
      BY <1>1, <2>5, Zenon DEF LeaveKeeps
    <3> QED  BY <2>3, <2>5, <3>1, Zenon DEF KeptOf
  <2> QED  BY <2>4, <2>5
<1>3. \/ /\ ~ me[t].finish /\ threads' = [kept EXCEPT ![me[t].next].canWrite = TRUE]
         /\ pc' = [pc EXCEPT ![t] = "idle"] /\ exitThread' = exitThread
      \/ /\ me[t].finish /\ needContinue /\ threads' = [kept EXCEPT ![0].canWrite = TRUE, ![0].canRead = TRUE]
         /\ pc' = [pc EXCEPT ![t] = "idle"] /\ exitThread' = exitThread
      \/ /\ me[t].finish /\ ~ needContinue /\ t # 0 /\ threads' = [kept EXCEPT ![0].canRead = TRUE]
         /\ pc' = [pc EXCEPT ![t] = "idle"] /\ exitThread' = TRUE
      \/ /\ me[t].finish /\ ~ needContinue /\ t = 0 /\ threads' = kept
         /\ pc' = [pc EXCEPT ![t] = "ended"] /\ exitThread' = exitThread
  <2> USE <1>1 DEF LeaveGoes, Goto
  <2>1. CASE ~ me[t].finish
    BY <2>1
  <2>2. CASE me[t].finish /\ needContinue
    BY <2>2
  <2>3. CASE me[t].finish /\ ~ needContinue /\ t # 0
    BY <2>3
  <2>4. CASE me[t].finish /\ ~ needContinue /\ t = 0
    BY <2>4
  <2> QED  BY <2>1, <2>2, <2>3, <2>4
<1>4. PICK n : \/ threads' = kept
                   \/ threads' = [kept EXCEPT ![n].canWrite = TRUE]
                   \/ threads' = [kept EXCEPT ![n].canRead = TRUE]
                   \/ threads' = [kept EXCEPT ![n].canWrite = TRUE, ![n].canRead = TRUE]
  BY <1>3, Zenon
<1>5. KeptOf(t, threads', filled)
  BY <1>2, <1>4, TurnKeeps
<1>6. pc \in [Threads -> Pcs]
  BY DEF Shape
<1>7. LeftAs(t, needContinue)
  <2>1. \A u \in Threads : threads'[u].inBuf = threads[u].inBuf
    BY <1>5 DEF KeptOf
  <2>2. \A u \in Threads : u # t => pc'[u] = pc[u]
    BY <1>3, <1>6
  <2>3. /\ me[t].finish /\ ~ needContinue =>
             (t # 0 /\ exitThread' = TRUE /\ pc'[t] = "idle") \/ (t = 0 /\ pc'[t] = "ended")
        /\ ~ me[t].finish \/ needContinue => exitThread' = exitThread /\ pc'[t] = "idle"
    BY <1>3, <1>6
  <2> QED  BY <2>1, <2>2, <2>3 DEF LeftAs
<1>8. res = OK /\ (me[t].needWrite => needContinue \/ me[t].finish) =>
                UNCHANGED <<needInterrupt, interruptIndex>>
  BY <1>1 DEF interruptVars
<1>9. written => ~ recode /\ ~ filled
  BY <1>1 DEF LeaveRecodes, LeaveFills
<1>10. ~ written /\ wasInterrupted' => recode
  BY <1>1 DEF LeaveRecodes
<1>11. me[t].finish => (filled <=> recode /\ me[t].size # 0)
  BY <1>1 DEF LeaveFills
<1>12. /\ filled => numFilledThreads' = 1
       /\ ~ filled => numFilledThreads' = 0
       /\ recode => filledThreadStart' = t
  BY <1>1
<1>13. filled => threads'[t].inDataSize_Start = me[t].start /\ threads'[t].inDataSize = me[t].size
  BY <1>5 DEF KeptOf
<1> QED  BY <1>7, <1>8, <1>9, <1>10, <1>11, <1>12, <1>13

-----------------------------------------------------------------------------
(* What is written of a block.                                             *)

\* The thread that has its turn has the first of the blocks.
LEMMA TurnIsFirst ==
    ASSUME Shape, Together, NEW t \in Threads, HasTurn(t)
    PROVE  First(t) /\ ~ Over /\ Busy(t)
<1>1. pc[t] = "write" /\ threads[t].canWrite /\ ~ exitThread
  BY DEF HasTurn
<1>2. Busy(t)
  BY <1>1 DEF Busy
<1>3. ~ Over
  BY <1>2 DEF Together, TheEnd, NobodyBusy
<1>4. PICK u \in Threads : threads[u].canWrite /\ (First(u) \/ (NobodyBusy /\ threads[u].canRead))
  BY <1>3 DEF Together, Writers
<1>5. u = t
  BY <1>1, <1>4 DEF Together, Writers
<1> QED  BY <1>2, <1>3, <1>4, <1>5 DEF NobodyBusy

\* ... and it was not interrupted.
LEMMA FirstHeld ==
    ASSUME MtState, NEW A, NEW z, InBlocks(A, z), NEW t \in Threads, HasTurn(t)
    PROVE  /\ First(t) /\ ~ Over /\ ~ me[t].interrupted /\ A[t] \in Where
           /\ BlockHeld("write", threads[t].inBuf, me[t], coders[t], A[t])
           /\ IsLast(t) => Ahead(me[t], coders[t], A[t], z)
           /\ ~ me[t].finish /\ ~ IsLast(t) => A[me[t].next] = A[t] + me[t].size
           /\ me[t].finish => IsLast(t)
           /\ OutAt(A[t])
<1>1. First(t) /\ ~ Over /\ Busy(t)
  BY TurnIsFirst DEF MtState
<1>2. Placed(t, A, z) /\ Interrupts /\ A[t] \in Where
  BY DEF InBlocks
<1>3. pc[t] = "write"
  BY DEF HasTurn
<1>4. Held(t) /\ Passed(t)
  BY <1>3 DEF Held, Passed
<1>5. ~ me[t].interrupted
  <2>1. SUFFICES ASSUME me[t].interrupted PROVE FALSE
    OBVIOUS
  <2>2. needInterrupt /\ me[t].blockIndex > interruptIndex
    BY <1>1, <1>2, <2>1 DEF Placed, InterruptedAt
  <2>3. PICK u \in Threads : pc[u] = "write" /\ me[u].blockIndex = interruptIndex
    BY <1>2, <2>2 DEF Interrupts
  <2>4. Busy(u)
    BY <2>3 DEF Busy
  <2>5. me[t].blockIndex <= me[u].blockIndex
    BY <1>1, <2>4 DEF First
  <2>6. me[t].blockIndex \in Nat /\ me[u].blockIndex \in Nat
    BY <1>1, <2>4 DEF MtState, Together, Blocks
  <2> QED  BY <2>2, <2>3, <2>5, <2>6
<1>6. /\ BlockHeld(pc[t], threads[t].inBuf, me[t], coders[t], A[t])
      /\ IsLast(t) => Ahead(me[t], coders[t], A[t], z)
      /\ ~ me[t].finish /\ ~ IsLast(t) => A[me[t].next] = A[t] + me[t].size
  BY <1>2, <1>4, <1>5 DEF Placed
<1>7. OutAt(A[t])
  BY <1>1, <1>2 DEF Placed
<1>8. me[t].finish => IsLast(t)
  BY <1>4 DEF MtState, Together, Readers
<1> QED  BY <1>1, <1>2, <1>3, <1>5, <1>6, <1>7, <1>8

\* What one decoder makes of the stream goes beyond what was accepted of it.
LEMMA HeldGoesTo ==
    ASSUME CallInv
    PROVE  \E e : HeldTo(held, stream, outSize, e)
<1>1. stream \in Seq(Symbols) /\ outSize \in Nat /\ held = Decode(NewDecoder, Place(0, Len(stream)), stream, outSize, TRUE)
  BY DEF CallInv
<1>2. \E e : HeldTo(Decode(NewDecoder, Place(0, Len(stream)), stream, outSize, TRUE), stream, outSize, e)
  BY <1>1, HeldIs
<1> QED  BY <1>1, <1>2, Zenon

LEMMA HeldHas ==
    ASSUME CallInv, NEW p \in Where, Good(stream, outSize, 0, p)
    PROVE  /\ IsPrefix(Out(stream, p), held.out) /\ held.out \in Seq(Nat)
           /\ State(stream, p) = "FINISHED" => held.out = Out(stream, p)
           /\ Refused(stream, outSize, p) => ~ Sound
           /\ p = Len(stream) /\ Live(stream, p) => ~ Sound
<1>1. PICK e : HeldTo(held, stream, outSize, e)
  BY HeldGoesTo
<1>2. stream \in Seq(Symbols) /\ outSize \in Nat /\ p \in 0..Len(stream)
  BY DEF CallInv, Where
<1>3. IsPrefix(Out(stream, p), held.out) /\ held.out \in Seq(Nat)
  BY <1>1, <1>2, GoodWithin
<1>4. State(stream, p) = "FINISHED" => held.out = Out(stream, p)
  BY <1>1, <1>2, FinishedAt
<1>5. Refused(stream, outSize, p) => ~ Sound
  <2>1. Refused(stream, outSize, p) => held.res = "DATA"
    BY <1>1, <1>2, RefusedAt
  <2> QED  BY <2>1 DEF Sound, OK
<1>6. p = Len(stream) /\ Live(stream, p) => ~ Sound
  <2>1. ASSUME p = Len(stream), Live(stream, p)
        PROVE  held.res # "OK" \/ held.dec.state # "FINISHED"
    <3>1. Good(stream, outSize, 0, Len(stream)) /\ Live(stream, Len(stream))
      BY <2>1
    <3> QED  BY <1>1, <1>2, <3>1, EndsOpen
  <2> QED  BY <2>1 DEF Sound, OK
<1> QED  BY <1>3, <1>4, <1>5, <1>6

\* The output when the first places of a block were added to it.
Added(c) == out \o SubSeq(c.outBuf, 1, c.outCodeSize)

LEMMA AddedIs ==
    ASSUME CallInv, NEW a \in Where, OutAt(a), NEW q \in Where, a <= q, NEW c, Fields(c), CameOut(c, a, q - a)
    PROVE  Added(c) = Out(stream, q)
<1>1. stream \in Seq(Symbols) /\ outSize \in Nat /\ Len(stream) \in Nat
  BY CallIs
<1>2. a \in 0..Len(stream) /\ q \in a..Len(stream) /\ a + (q - a) = q
  BY <1>1 DEF Where
<1>3. PICK n, buf : n = c.outCodeSize /\ buf = c.outBuf
  OBVIOUS
<1>4. /\ n = Count(stream, q) - Count(stream, a) /\ n <= Len(buf) /\ buf \in Seq(Nat)
      /\ \A i \in 1..n : buf[i] = Out(stream, q)[Count(stream, a) + i]
  BY <1>2, <1>3 DEF CameOut, Fields
<1>5. Comes(stream, SubSeq(buf, 1, n), a, q)
  BY <1>1, <1>2, <1>4, BufferHas
<1>6. Out(stream, a) \o SubSeq(buf, 1, n) = Out(stream, q)
  BY <1>1, <1>2, <1>5, OutJoins
<1> QED  BY <1>3, <1>6 DEF Added, OutAt

-----------------------------------------------------------------------------
\* A block that came out as it was parsed, by how it ends.
LEMMA WholeOut ==
    ASSUME CallInv, NEW inBuf, NEW l, NEW c, NEW a \in Where, OutAt(a),
           BlockHeld("write", inBuf, l, c, a), ~ Troublesome(l), CodedWhole(c, l, a)
    PROVE  /\ a + l.size \in Where /\ Added(c) = Out(stream, a + l.size)
           /\ c.parseStatus \in {"block", "more"} => OutAt(a + l.size)' \/ out' # Added(c) \/ ~ SameCall
           /\ c.parseStatus \in {"mark", "error"} => (Sound => Added(c) = held.out)
           /\ IsPrefix(Added(c), held.out)
<1>1. /\ stream \in Seq(Symbols) /\ outSize \in Nat /\ Len(stream) \in Nat /\ a \in Nat
  BY CallIs DEF Where
<1>2. /\ Linked(inBuf, l.start, l.size, a) /\ Room(a) /\ Fields(c) /\ Parsed(c, a, l.size)
  BY DEF BlockHeld
<1>3. PICK size \in Nat : size = l.size
  BY <1>2 DEF Linked, LinksHold
<1>4. PICK b \in Nat : b = a + size /\ b = a + l.size /\ size = b - a
  BY <1>1, <1>3
<1>5. b <= Len(stream)
  BY <1>2, <1>4 DEF Parsed
<1>6. b \in Where /\ b \in 0..Len(stream) /\ a <= b
  BY <1>1, <1>3, <1>4, <1>5 DEF Where
<1>7. CameOut(c, a, b - a)
  BY <1>3, <1>4 DEF CodedWhole
<1>8. Added(c) = Out(stream, b)
  BY <1>2, <1>6, <1>7, AddedIs
<1>9. Good(stream, outSize, 0, a)
  BY DEF OutAt
<1>10. /\ c.parseStatus = "error" => Good(stream, outSize, a, b - 1)
       /\ c.parseStatus # "error" => Good(stream, outSize, a, b)
  <2>1. Good(stream, outSize, a, IF c.parseStatus = "error" THEN a + l.size - 1 ELSE a + l.size)
    BY DEF CodedWhole
  <2>2. a + l.size - 1 = b - 1 /\ a + l.size = b
    BY <1>1, <1>3, <1>4
  <2> QED  BY <2>1, <2>2, Zenon
<1>11. \/ c.parseStatus = "block"
       \/ c.parseStatus = "mark" /\ State(stream, b) = "FINISHED"
       \/ c.parseStatus = "error" /\ State(stream, b) = "ERROR"
       \/ c.parseStatus = "more"
  <2>1. a + l.size = b
    BY <1>4
  <2> QED  BY <1>2, <2>1, Zenon DEF Parsed
<1>12. ASSUME c.parseStatus # "error" PROVE Good(stream, outSize, 0, b)
  BY <1>1, <1>4, <1>9, <1>10, <1>12, GoodJoins
<1>13. ASSUME c.parseStatus = "error"
       PROVE  IsPrefix(Added(c), held.out) /\ ~ Sound
  <2>1. State(stream, b) = "ERROR"
    BY <1>11, <1>13
  <2>2. State(stream, a) \in {"CONTROL", "DATA"}
    BY <1>2 DEF Room, Live
  <2>3. b # a
    BY <2>1, <2>2
  <2>4. PICK q \in Nat : q = b - 1 /\ a <= q /\ q \in Where /\ q \in 0..Len(stream) /\ b \in 1..Len(stream)
                         /\ b - 1 \in 0..Len(stream)
    BY <1>1, <1>3, <1>4, <1>6, <2>3, SMTT(30) DEF Where
  <2>5. Good(stream, outSize, a, q)
    BY <1>10, <1>13, <2>4
  <2>6. Good(stream, outSize, 0, q)
    BY <1>1, <1>9, <2>5, GoodJoins
  <2>7. State(stream, q) # "DATA"
    BY <1>1, <2>1, <2>4, WalkStep
  <2>8. Out(stream, b) = Out(stream, q)
    BY <1>1, <2>4, <2>7, WalkStep
  <2>9. Live(stream, q)
    <3>1. LiveFrom(stream, a, b)
      BY <1>2, <1>3, <1>4 DEF Parsed
    <3> QED  BY <1>1, <2>4, <3>1 DEF LiveFrom
  <2>10. Refused(stream, outSize, q)
    BY <1>1, <2>1, <2>4, <2>9, ErrorAt
  <2> QED  BY <1>8, <2>4, <2>6, <2>8, <2>10, HeldHas
<1>14. ASSUME c.parseStatus # "error" PROVE IsPrefix(Added(c), held.out)
  BY <1>6, <1>8, <1>12, <1>14, HeldHas
<1>15. c.parseStatus = "mark" => Added(c) = held.out
  BY <1>6, <1>8, <1>11, <1>12, HeldHas
<1>16. ASSUME c.parseStatus \in {"block", "more"}, out' = Added(c), SameCall PROVE OutAt(b)'
  <2>1. Good(stream, outSize, 0, b) /\ out' = Out(stream, b)
    BY <1>8, <1>12, <1>16
  <2>2. stream' = stream /\ outSize' = outSize
    BY <1>16 DEF SameCall
  <2> QED  BY <2>1, <2>2 DEF OutAt
<1>17. c.parseStatus \in {"block", "more"} => OutAt(b)' \/ out' # Added(c) \/ ~ SameCall
  BY <1>16
<1> QED  BY <1>4, <1>6, <1>8, <1>13, <1>14, <1>15, <1>17

\* A block that came out in part: then the stream is damaged, or could not be
\* read.
LEMMA PartOut ==
    ASSUME CallInv, ReadInv, NEW inBuf, NEW l, NEW c, NEW a \in Where, NEW z, OutAt(a),
           BlockHeld("write", inBuf, l, c, a), ~ Troublesome(l), CodedInPart(c, l, a),
           l.finish => Ahead(l, c, a, z)
    PROVE  IsPrefix(Added(c), held.out) /\ BadEnd
<1>1. /\ stream \in Seq(Symbols) /\ outSize \in Nat /\ Len(stream) \in Nat /\ a \in Nat
  BY CallIs DEF Where
<1>2. /\ Linked(inBuf, l.start, l.size, a) /\ Room(a) /\ Fields(c) /\ Parsed(c, a, l.size)
      /\ l.finish <=> c.parseStatus # "block"
  BY DEF BlockHeld
<1>3. PICK size \in Nat : size = l.size
  BY <1>2 DEF Linked, LinksHold
<1>4. PICK q \in a..(a + size) : /\ Good(stream, outSize, a, q) /\ CameOut(c, a, q - a)
                                 /\ Refused(stream, outSize, q) \/ size = 0
  BY <1>3 DEF CodedInPart
<1>5. a + size <= Len(stream)
  BY <1>2, <1>3 DEF Parsed
<1>6. q \in Where /\ a <= q /\ q \in Nat
  BY <1>1, <1>3, <1>5 DEF Where
<1>7. Added(c) = Out(stream, q)
  BY <1>2, <1>4, <1>6, AddedIs
<1>8. Good(stream, outSize, 0, q)
  <2>1. Good(stream, outSize, 0, a)
    BY DEF OutAt
  <2> QED  BY <1>1, <1>4, <1>6, <2>1, GoodJoins
<1>9. IsPrefix(Added(c), held.out)
  BY <1>6, <1>7, <1>8, HeldHas
<1>10. CASE Refused(stream, outSize, q)
  <2>1. ~ Sound
    BY <1>6, <1>8, <1>10, HeldHas
  <2> QED  BY <1>9, <2>1 DEF BadEnd
<1>11. CASE size = 0
  <2>1. a + l.size = a
    BY <1>1, <1>3, <1>11
  <2>2. State(stream, a) \in {"CONTROL", "DATA"}
    BY <1>2 DEF Room, Live
  <2>3. c.parseStatus = "more"
    BY <1>2, <1>3, <1>11, <2>1, <2>2 DEF Parsed
  <2>4. Ahead(l, c, a, z)
    BY <1>2, <2>3
  <2>5. z = a /\ NothingLeft /\ Contiguous(a)
    BY <2>1, <2>3, <2>4 DEF Ahead, Fresh
  <2>6. readWasFinished /\ crossBlock = <<>>
    BY <2>5 DEF NothingLeft
  <2>7. PICK n \in 0..readProcessed : crossBlock = Place(a, n) /\ a + n = readProcessed
    BY <2>5 DEF Contiguous
  <2>8. readProcessed \in Nat
    BY <1>1 DEF ReadInv, Where
  <2>9. n = 0
    <3>1. n \in Nat
      BY <2>7, <2>8
    <3> QED  BY <1>1, <2>6, <2>7, <3>1, EmptyPlace
  <2>10. a = readProcessed
    BY <1>1, <2>7, <2>8, <2>9
  <2>11. ASSUME readRes = OK PROVE ~ Sound
    <3>1. a = Len(stream)
      BY <2>6, <2>10, <2>11 DEF ReadInv
    <3>2. Good(stream, outSize, 0, a) /\ Live(stream, a)
      BY <1>2 DEF OutAt, Room
    <3> QED  BY <3>1, <3>2, HeldHas
  <2> QED  BY <1>9, <2>11 DEF BadEnd
<1> QED  BY <1>4, <1>10, <1>11

-----------------------------------------------------------------------------
(* A block is written, and the others stay what they are.                  *)

\* What the step changes.
LeavesOn(t) ==
    /\ SameCall /\ UNCHANGED readVars /\ UNCHANGED <<blockIndex, needInterrupt, interruptIndex>>
    /\ me' = me /\ coders' = coders /\ pc'[t] = "idle"
    /\ \A u \in Threads : threads'[u].inBuf = threads[u].inBuf
    /\ \A u \in Threads : u # t => pc'[u] = pc[u]
\* The block ended where the next begins, if there is one.
LeavesAt(t, A, z, b) ==
    /\ Fields(coders[t]) /\ me[t].codeRes = OK /\ OutAt(b)'
    /\ IsLast(t) => z = b /\ Fresh(z)
    /\ ~ IsLast(t) => ~ me[t].finish /\ A[me[t].next] = b

LEMMA LeavesBlocks ==
    ASSUME MtState, NEW A, NEW z, InBlocks(A, z), NEW t \in Threads, pc[t] = "write", First(t),
           LeavesOn(t), NEW b, LeavesAt(t, A, z, b)
    PROVE  InBlocks(A, z)'
<1>1. /\ A \in [Threads -> Where] /\ z \in Where /\ DOMAIN coders = Threads
      /\ \A u \in Threads : Placed(u, A, z)
      /\ Interrupts
  BY DEF InBlocks
<1>2. /\ SameCall /\ UNCHANGED readVars /\ UNCHANGED <<blockIndex, needInterrupt, interruptIndex>>
      /\ me' = me /\ coders' = coders /\ pc'[t] = "idle"
      /\ \A u \in Threads : threads'[u].inBuf = threads[u].inBuf
      /\ \A u \in Threads : u # t => pc'[u] = pc[u]
  BY DEF LeavesOn
<1>3. /\ Busy(t) /\ ~ Busy(t)' /\ Passed(t) /\ ~ Held(t)' /\ pc'[t] # "link" /\ pc'[t] # "code"
      /\ \A u \in Threads : u # t => (Busy(u)' <=> Busy(u))
  BY <1>2 DEF Busy, Passed, Held
<1>4. /\ \A u \in Threads : Busy(u) => me[u].blockIndex \in Nat /\ me[u].blockIndex < blockIndex
      /\ \A u, v \in Threads : Busy(u) /\ Busy(v) /\ me[u].blockIndex = me[v].blockIndex => u = v
      /\ \A u \in Threads : Busy(u) => me[t].blockIndex <= me[u].blockIndex
  BY DEF MtState, Together, Blocks, First
<1>6. /\ Fields(coders[t]) /\ me[t].codeRes = OK /\ OutAt(b)'
      /\ IsLast(t) => z = b /\ Fresh(z)
      /\ ~ IsLast(t) => ~ me[t].finish /\ A[me[t].next] = b
  BY DEF LeavesAt
<1>7. ASSUME ~ IsLast(t)
      PROVE  me[t].next \in Threads /\ Busy(me[t].next) /\ me[me[t].next].blockIndex = me[t].blockIndex + 1
             /\ me[t].next # t
  <2>1. me[t].next \in Threads /\ Busy(me[t].next) /\ me[me[t].next].blockIndex = me[t].blockIndex + 1
    BY <1>3, <1>6, <1>7 DEF MtState, Together, Followed
  <2>2. me[t].blockIndex \in Nat
    BY <1>3, <1>4
  <2> QED  BY <2>1, <2>2
<1>8. IsLast(t) => \A u \in Threads : u # t => ~ Busy(u)
  <2>1. SUFFICES ASSUME IsLast(t), NEW u \in Threads, u # t, Busy(u) PROVE FALSE
    OBVIOUS
  <2>2. /\ me[u].blockIndex \in Nat /\ me[u].blockIndex < blockIndex /\ me[t].blockIndex \in Nat
        /\ me[t].blockIndex <= me[u].blockIndex /\ me[t].blockIndex + 1 = blockIndex
    BY <1>3, <1>4, <2>1 DEF IsLast
  <2>3. me[u].blockIndex = me[t].blockIndex
    BY <2>2
  <2> QED  BY <1>3, <1>4, <2>1, <2>3
<1>9. \A u \in Threads : u # t => Placed(u, A, z)'
  <2>1. TAKE u \in Threads
  <2>2. HAVE u # t
  <2>3. Placed(u, A, z)
    BY <1>1
  <2>4. StaysPut(u)
    BY <1>2, <2>2 DEF StaysPut
  <2>5. IsLast(u)' <=> IsLast(u)
    BY <1>2 DEF IsLast
  <2>6. ASSUME First(u)' PROVE OutAt(A[u])'
    <3>1. Busy(u) /\ \A v \in Threads : v # t /\ Busy(v) => me[u].blockIndex <= me[v].blockIndex
      BY <1>2, <1>3, <2>2, <2>6 DEF First
    <3>2. ~ IsLast(t)
      BY <1>8, <2>2, <3>1
    <3>3. PICK n \in Threads : n = me[t].next /\ Busy(n) /\ me[n].blockIndex = me[t].blockIndex + 1 /\ n # t
                               /\ A[n] = b
      BY <1>6, <1>7, <3>2
    <3>4. me[u].blockIndex <= me[n].blockIndex
      BY <3>1, <3>3
    <3>5. /\ me[u].blockIndex \in Nat /\ me[n].blockIndex \in Nat /\ me[t].blockIndex \in Nat
          /\ me[t].blockIndex <= me[u].blockIndex /\ me[u].blockIndex # me[t].blockIndex
      BY <1>3, <1>4, <2>2, <3>1, <3>3
    <3>6. me[u].blockIndex = me[n].blockIndex
      BY <3>3, <3>4, <3>5
    <3>7. u = n
      BY <1>4, <3>1, <3>3, <3>6
    <3> QED  BY <1>6, <3>3, <3>7
  <2>7. Passed(u) /\ ~ me[u].interrupted /\ ~ me[u].finish /\ ~ IsLast(u)' =>
         A[me[u].next] = A[u] + me[u].size
    <3>1. Passed(u) => Held(u)
      BY DEF Passed, Held
    <3> QED  BY <2>3, <2>5, <3>1 DEF Placed
  <2>8. Busy(u) /\ InterruptedAt(me[u].blockIndex) => InterruptedAt(me[u].blockIndex)'
    BY <1>2 DEF InterruptedAt
  <2>9. Around(u, A, z, A, z)
    BY <1>2, <2>5, <2>6, <2>7, <2>8 DEF Around
  <2> QED  BY <1>2, <2>3, <2>4, <2>9, PlacedStays
<1>10. Placed(t, A, z)'
  <2>1. threads[t].inBuf \in Seq(Seq(Nat))
    BY <1>1 DEF Placed
  <2>2. ~ First(t)'
    BY <1>3 DEF First
  <2>3. Fields(coders[t])'
    BY <1>2, <1>6 DEF Fields
  <2> QED  BY <1>2, <1>3, <2>1, <2>2, <2>3 DEF Placed
<1>11. NobodyBusy' => Fresh(z)' /\ OutAt(z)'
  <2>1. SUFFICES ASSUME NobodyBusy' PROVE Fresh(z)' /\ OutAt(z)'
    OBVIOUS
  <2>2. IsLast(t)
    BY <1>3, <1>7, <2>1 DEF NobodyBusy
  <2>3. z = b /\ Fresh(z)
    BY <1>6, <2>2
  <2>4. Fresh(z)'
    BY <1>2, <2>3, ReadStays
  <2> QED  BY <1>6, <2>3, <2>4
<1>12. Interrupts'
  <2>1. SUFFICES ASSUME needInterrupt'
                 PROVE  \E u \in Threads : /\ pc'[u] = "write" /\ me'[u].blockIndex = interruptIndex'
                                           /\ me'[u].codeRes # OK
    BY DEF Interrupts
  <2>2. PICK u \in Threads : pc[u] = "write" /\ me[u].blockIndex = interruptIndex /\ me[u].codeRes # OK
    BY <1>1, <1>2, <2>1 DEF Interrupts
  <2>3. u # t
    BY <1>6, <2>2
  <2> QED  BY <1>2, <2>2, <2>3
<1>13. A \in [Threads -> Where'] /\ z \in Where' /\ DOMAIN coders' = Threads
  BY <1>1, <1>2, CallStays
<1> QED  BY <1>9, <1>10, <1>11, <1>12, <1>13 DEF InBlocks

-----------------------------------------------------------------------------
(* The block is written, and what holds then.                              *)

LEMMA SoundStays ==
    ASSUME SameCall
    PROVE  /\ Sound' <=> Sound
           /\ readRes' = readRes => (BadEnd' <=> BadEnd)
  BY DEF SameCall, Sound, BadEnd

\* The block that has its turn.
InTurnWith(t, A, z, a) ==
    /\ InBlocks(A, z) /\ a \in Where /\ a = A[t] /\ OutAt(a)
    /\ BlockHeld("write", threads[t].inBuf, me[t], coders[t], a)
    /\ IsLast(t) => Ahead(me[t], coders[t], a, z)
    /\ ~ me[t].finish /\ ~ IsLast(t) => A[me[t].next] = a + me[t].size
    /\ me[t].finish => IsLast(t)
    /\ ~ me[t].interrupted /\ First(t)

LEMMA TurnOf ==
    ASSUME Shape, Together, CallInv, ReadInv, MtInv, NEW t \in Threads, HasTurn(t), ~ wasInterrupted
    PROVE  /\ ~ Over /\ ~ NeedContinue /\ numFilledThreads = 0 /\ MtState /\ pc[t] = "write"
           /\ \E A, z, a : InTurnWith(t, A, z, a)
<1>1. ~ Over
  BY TurnIsFirst
<1>2. ~ NeedContinue /\ numFilledThreads = 0 /\ Working
  BY <1>1 DEF MtInv
<1>3. MtState
  BY DEF MtState
<1>4. PICK A, z : InBlocks(A, z)
  BY <1>2 DEF Working
<1>5. PICK a : a = A[t]
  OBVIOUS
<1>6. InTurnWith(t, A, z, a)
  BY <1>3, <1>4, <1>5, FirstHeld DEF InTurnWith
<1>7. pc[t] = "write"
  BY DEF HasTurn
<1> QED  BY <1>1, <1>2, <1>3, <1>6, <1>7

LEMMA WriteIs ==
    ASSUME Shape, NEW t \in Threads, Write(t), numFilledThreads = 0
    PROVE  /\ HasTurn(t) /\ ~ wasInterrupted /\ ~ Troublesome(me[t]) /\ me[t].needWrite
           /\ LeftAs(t, ~ Ending(t)) /\ numFilledThreads' = 0
           /\ ~ Ending(t) \/ me[t].finish => UNCHANGED <<needInterrupt, interruptIndex>>
           /\ SameCall /\ UNCHANGED readVars /\ UNCHANGED <<blockIndex, main>>
           /\ me' = me /\ coders' = coders
           /\ out' = Added(coders[t])
           /\ wasInterrupted' <=> me[t].codeRes # OK
           /\ codeRes' = me[t].codeRes /\ ~ NeedContinue'
<1>1. /\ HasTurn(t) /\ me[t].needWrite /\ MayWrite(t) /\ Troubled(t)
      /\ Leave(t, TRUE, OK, ~ Ending(t))
      /\ out' = Added(coders[t])
  BY DEF Write, Added
<1>2. /\ SameCall /\ UNCHANGED readVars /\ UNCHANGED <<blockIndex, main>> /\ me' = me /\ coders' = coders
  BY DEF Write, callVars, SameCall
<1>3. ~ wasInterrupted /\ ~ Troublesome(me[t])
  BY <1>1 DEF MayWrite, Troublesome
<1>4. /\ ~ me[t].threading /\ ~ me[t].allocError /\ ~ me[t].overflow /\ me[t].codeRes # "MEM"
  BY <1>3 DEF Troublesome
<1>5. /\ wasInterrupted' <=> me[t].codeRes # OK
      /\ codeRes' = me[t].codeRes /\ ~ NeedContinue'
  <2>1. /\ wasInterrupted' = (me[t].codeRes # OK \/ me[t].threading
                                \/ (me[t].allocError \/ me[t].codeRes = "MEM") \/ me[t].overflow)
        /\ codeRes' = me[t].codeRes
        /\ threadingError' = me[t].threading
        /\ isAllocError' = (me[t].allocError \/ me[t].codeRes = "MEM")
        /\ overflow' = me[t].overflow
    BY <1>1, <1>3, Zenon DEF Troubled
  <2>2. ~ threadingError' /\ ~ isAllocError' /\ ~ overflow'
    BY <1>4, <2>1, Zenon
  <2>3. wasInterrupted' <=> me[t].codeRes # OK
    BY <1>4, <2>1, Zenon
  <2> QED  BY <2>1, <2>2, <2>3 DEF NeedContinue
<1>6. (~ Ending(t)) \in BOOLEAN
  BY DEF Ending
<1>7. /\ LeftAs(t, ~ Ending(t)) /\ numFilledThreads' = 0
      /\ OK = OK /\ (me[t].needWrite => ~ Ending(t) \/ me[t].finish) =>
                UNCHANGED <<needInterrupt, interruptIndex>>
  BY <1>1, <1>6, LeaveIs
<1> QED  BY <1>1, <1>2, <1>3, <1>5, <1>7

\* Who works on when a thread left.
LEMMA LeftOver ==
    ASSUME Shape, NEW t \in Threads, ~ Over, NEW needContinue, LeftAs(t, needContinue)
    PROVE  /\ me[t].finish /\ ~ needContinue => Over'
           /\ ~ me[t].finish \/ needContinue => ~ Over' /\ pc'[t] = "idle"
  BY ThreadsAre DEF LeftAs, Over

LEMMA WriteGoes ==
    ASSUME Shape, Together, CallInv, ReadInv, MtInv, NEW t \in Threads, Write(t)
    PROVE  SameCall /\ ReadInv' /\ MtInv'
<1>0. HasTurn(t) /\ ~ wasInterrupted
  BY DEF Write, MayWrite
<1>1. /\ ~ Over /\ ~ NeedContinue /\ numFilledThreads = 0 /\ MtState /\ pc[t] = "write"
      /\ \E A, z, a : InTurnWith(t, A, z, a)
  BY <1>0, TurnOf
<1>2. PICK A, z, a : InTurnWith(t, A, z, a)
  BY <1>1
<1>3. /\ HasTurn(t) /\ ~ wasInterrupted /\ ~ Troublesome(me[t]) /\ me[t].needWrite
      /\ LeftAs(t, ~ Ending(t)) /\ numFilledThreads' = 0
      /\ ~ Ending(t) \/ me[t].finish => UNCHANGED <<needInterrupt, interruptIndex>>
      /\ SameCall /\ UNCHANGED readVars /\ UNCHANGED <<blockIndex, main>>
      /\ me' = me /\ coders' = coders
      /\ out' = Added(coders[t])
      /\ wasInterrupted' <=> me[t].codeRes # OK
      /\ codeRes' = me[t].codeRes /\ ~ NeedContinue'
  BY <1>1, WriteIs
<1>4. ReadInv'
  BY <1>3, ReadInvStays
<1>5. /\ InBlocks(A, z) /\ a \in Where /\ a = A[t] /\ OutAt(a)
      /\ BlockHeld("write", threads[t].inBuf, me[t], coders[t], a)
      /\ IsLast(t) => Ahead(me[t], coders[t], a, z)
      /\ ~ me[t].finish /\ ~ IsLast(t) => A[me[t].next] = a + me[t].size
      /\ me[t].finish => IsLast(t)
      /\ First(t)
  BY <1>2 DEF InTurnWith
<1>6. PICK inBuf, l, c : inBuf = threads[t].inBuf /\ l = me[t] /\ c = coders[t]
  OBVIOUS
<1>7. /\ BlockHeld("write", inBuf, l, c, a) /\ ~ Troublesome(l)
      /\ IsLast(t) => Ahead(l, c, a, z)
      /\ ~ l.finish /\ ~ IsLast(t) => A[l.next] = a + l.size
      /\ l.finish => Ahead(l, c, a, z)
      /\ out' = Added(c)
  BY <1>3, <1>5, <1>6
<1>8. /\ Fields(c) /\ Parsed(c, a, l.size)
      /\ l.finish <=> c.parseStatus # "block"
      /\ CodedWhole(c, l, a) \/ CodedInPart(c, l, a)
  BY <1>7 DEF BlockHeld
<1>9. CASE CodedInPart(c, l, a)
  <2>1. IsPrefix(Added(c), held.out) /\ BadEnd
    BY <1>5, <1>7, <1>9, PartOut
  <2>2. l.codeRes # OK
    BY <1>9 DEF CodedInPart, OK
  <2>3. held' = held /\ readRes' = readRes
    BY <1>3 DEF SameCall, readVars
  <2>4. Agrees' /\ BadEnd'
    BY <1>3, <1>7, <2>1, <2>3, SoundStays DEF Agrees
  <2>5. wasInterrupted' /\ ~ NeedContinue'
    BY <1>3, <1>6, <2>2
  <2>6. MtInv'
    BY <2>4, <2>5 DEF MtInv
  <2> QED  BY <1>3, <1>4, <2>6
<1>10. CASE CodedWhole(c, l, a)
  <2>1. PICK b : b = a + l.size
    OBVIOUS
  <2>2. /\ c.parseStatus \in {"block", "more"} => OutAt(b)'
        /\ c.parseStatus \in {"mark", "error"} => (Sound => Added(c) = held.out)
        /\ IsPrefix(Added(c), held.out)
    <3>1. /\ a + l.size \in Where /\ Added(c) = Out(stream, a + l.size)
          /\ c.parseStatus \in {"block", "more"} => OutAt(a + l.size)' \/ out' # Added(c) \/ ~ SameCall
          /\ c.parseStatus \in {"mark", "error"} => (Sound => Added(c) = held.out)
          /\ IsPrefix(Added(c), held.out)
      BY <1>5, <1>7, <1>10, WholeOut
    <3> QED  BY <1>3, <1>7, <2>1, <3>1
  <2>3. held' = held
    BY <1>3 DEF SameCall
  <2>4. Agrees'
    BY <1>7, <2>2, <2>3 DEF Agrees
  <2>5. l.codeRes = OK
    BY <1>10 DEF CodedWhole
  <2>6. ~ wasInterrupted' /\ ~ NeedContinue' /\ codeRes' = OK /\ numFilledThreads' = 0
    BY <1>3, <1>6, <2>5
  <2>7. /\ c.parseStatus \in {"block", "more"} => ~ Ending(t)
        /\ c.parseStatus \in {"mark", "error"} => Ending(t) /\ l.finish
        /\ c.parseStatus \in {"block", "more", "mark", "error"}
    <3>1. /\ c.parseStatus = "block" => c.state = "NEW"
          /\ c.parseStatus = "more" => c.state = "CONTINUE"
          /\ c.parseStatus \in {"mark", "error"} => c.state = "END"
          /\ c.parseStatus \in {"block", "more", "mark", "error"}
      BY <1>8 DEF Parsed
    <3> QED  BY <1>6, <1>8, <3>1 DEF Ending
  <2>8. CASE c.parseStatus \in {"mark", "error"}
    <3>1. Over'
      BY <1>1, <1>3, <1>6, <2>7, <2>8, LeftOver
    <3>2. GoodEnd'
      BY <1>3, <1>7, <2>2, <2>3, <2>8, SoundStays DEF GoodEnd
    <3>3. MtInv'
      BY <2>4, <2>6, <3>1, <3>2 DEF MtInv
    <3> QED  BY <1>3, <1>4, <3>3
  <2>9. CASE c.parseStatus \in {"block", "more"}
    <3>1. ~ Ending(t)
      BY <2>7, <2>9
    <3>2. ~ Over' /\ pc'[t] = "idle"
      BY <1>1, <1>3, <3>1, LeftOver
    <3>3. LeavesOn(t)
      BY <1>3, <3>1, <3>2 DEF LeavesOn, LeftAs
    <3>4. LeavesAt(t, A, z, b)
      <4>1. Fields(coders[t]) /\ me[t].codeRes = OK /\ OutAt(b)'
        BY <1>6, <1>8, <2>2, <2>5, <2>9
      <4>2. IsLast(t) => z = b /\ Fresh(z)
        BY <1>7, <2>1, <2>9 DEF Ahead
      <4>3. ~ IsLast(t) => ~ me[t].finish /\ A[me[t].next] = b
        BY <1>5, <1>6, <1>7, <2>1
      <4> QED  BY <4>1, <4>2, <4>3 DEF LeavesAt
    <3>5. InBlocks(A, z)'
      BY <1>1, <1>5, <3>3, <3>4, LeavesBlocks
    <3>6. Working'
      BY <3>5 DEF Working, InBlocks
    <3>7. MtInv'
      BY <2>4, <2>6, <3>2, <3>6 DEF MtInv
    <3> QED  BY <1>3, <1>4, <3>7
  <2> QED  BY <2>7, <2>8, <2>9
<1> QED  BY <1>8, <1>9, <1>10

-----------------------------------------------------------------------------
(* The output takes a part of the block, or nothing is written.            *)

LEMMA PrefixPart ==
    ASSUME NEW s \in Seq(Nat), NEW buf \in Seq(Nat), NEW n \in Nat, NEW m \in Nat, n <= m, m <= Len(buf)
    PROVE  IsPrefix(s \o SubSeq(buf, 1, n), s \o SubSeq(buf, 1, m))
           /\ s \o SubSeq(buf, 1, n) \in Seq(Nat) /\ s \o SubSeq(buf, 1, m) \in Seq(Nat)
<1>1. Len(buf) \in Nat /\ Len(s) \in Nat
  BY LenProperties
<1>2. ASSUME NEW k \in Nat, k <= m
      PROVE  /\ SubSeq(buf, 1, k) \in Seq(Nat) /\ Len(SubSeq(buf, 1, k)) = k
             /\ \A i \in 1..k : SubSeq(buf, 1, k)[i] = buf[i]
  BY <1>1, <1>2, FrontIs
<1>3. PICK u, v : u = SubSeq(buf, 1, n) /\ v = SubSeq(buf, 1, m)
  OBVIOUS
<1>4. /\ u \in Seq(Nat) /\ Len(u) = n /\ \A i \in 1..n : u[i] = buf[i]
      /\ v \in Seq(Nat) /\ Len(v) = m /\ \A i \in 1..m : v[i] = buf[i]
  BY <1>2, <1>3
<1>5. PICK x, y : x = s \o u /\ y = s \o v
  OBVIOUS
<1>6. PICK k \in Nat : k = Len(s)
  BY <1>1
<1>7. Joined(x, s, u, k, n) /\ Joined(y, s, v, k, m)
  <2>1. u \in Seq(Nat) /\ n = Len(u) /\ v \in Seq(Nat) /\ m = Len(v)
    BY <1>4
  <2> QED  BY <1>5, <1>6, <2>1, JoinIs, Zenon
<1>71. /\ x \in Seq(Nat) /\ Len(x) = k + n /\ y \in Seq(Nat) /\ Len(y) = k + m
       /\ \A i \in 1..k : x[i] = s[i] /\ y[i] = s[i]
       /\ \A i \in 1..n : x[k + i] = u[i]
       /\ \A i \in 1..m : y[k + i] = v[i]
  BY <1>7 DEF Joined
<1>72. \A i \in 1..Len(x) : x[i] = y[i]
  <2>1. TAKE i \in 1..Len(x)
  <2>2. CASE i \in 1..k
    BY <1>71, <2>2
  <2>3. CASE i \notin 1..k
    <3>1. PICK j \in Nat : j \in 1..n /\ j \in 1..m /\ i = k + j
      <4>1. Len(x) = k + n
        BY <1>71, Zenon
      <4>2. i \in 1..(k + n)
        BY <4>1, Zenon
      <4>3. PICK j \in Nat : j = i - k /\ j > 0
        BY <2>3, <4>2
      <4>4. j \in 1..n /\ i = k + j
        BY <4>2, <4>3
      <4>5. j \in 1..m
        BY <4>4
      <4> QED  BY <4>4, <4>5, Zenon
    <3> QED  BY <1>4, <1>71, <3>1
  <2> QED  BY <2>2, <2>3
<1>8. IsPrefix(x, y)
  <2>1. Len(x) <= Len(y)
    BY <1>71
  <2> QED  BY <1>71, <1>72, <2>1, PrefixIs
<1> QED  BY <1>3, <1>5, <1>71, <1>8

LEMMA WriteFailsGoes ==
    ASSUME Shape, Together, CallInv, ReadInv, MtInv, NEW t \in Threads, WriteFails(t)
    PROVE  SameCall /\ ReadInv' /\ MtInv'
<1>0. HasTurn(t) /\ ~ wasInterrupted /\ MayWrite(t)
  BY DEF WriteFails, MayWrite
<1>1. /\ ~ NeedContinue /\ MtState /\ pc[t] = "write"
      /\ \E A, z, a : InTurnWith(t, A, z, a)
  BY <1>0, TurnOf
<1>2. PICK A, z, a : InTurnWith(t, A, z, a)
  BY <1>1
<1>3. /\ SameCall /\ UNCHANGED readVars
      /\ UNCHANGED <<isAllocError, threadingError, overflow>>
      /\ wasInterrupted' = TRUE /\ codeRes' = me[t].codeRes
      /\ coders[t].outCodeSize > 0
      /\ \E n \in 0..(coders[t].outCodeSize - 1) : out' = out \o SubSeq(coders[t].outBuf, 1, n)
  BY DEF WriteFails, callVars, SameCall
<1>4. ReadInv'
  BY <1>3, ReadInvStays DEF MtState
<1>5. ~ NeedContinue'
  BY <1>1, <1>3 DEF NeedContinue
<1>6. PICK inBuf, l, c : inBuf = threads[t].inBuf /\ l = me[t] /\ c = coders[t]
  OBVIOUS
<1>7. /\ BlockHeld("write", inBuf, l, c, a) /\ ~ Troublesome(l)
      /\ l.finish => Ahead(l, c, a, z)
      /\ a \in Where /\ OutAt(a)
  BY <1>0, <1>2, <1>6 DEF InTurnWith, MayWrite, Troublesome
<1>8. Fields(c) /\ (CodedWhole(c, l, a) \/ CodedInPart(c, l, a))
  BY <1>7 DEF BlockHeld
<1>9. IsPrefix(Added(c), held.out) /\ (l.codeRes # OK => BadEnd)
  <2>1. CASE CodedWhole(c, l, a)
    <3>1. l.codeRes = OK
      BY <2>1 DEF CodedWhole
    <3> QED  BY <1>7, <2>1, <3>1, WholeOut
  <2>2. CASE CodedInPart(c, l, a)
    BY <1>7, <2>2, PartOut
  <2> QED  BY <1>8, <2>1, <2>2
<1>10. PICK m \in Nat : m = c.outCodeSize /\ m <= Len(c.outBuf) /\ m > 0
  <2>1. c.outCodeSize <= Len(c.outBuf) /\ \E q \in Nat : q \in Where /\ CameOut(c, a, q - a)
    <3>1. stream \in Seq(Symbols) /\ Len(stream) \in Nat /\ a \in Nat
      BY <1>7, CallIs DEF Where
    <3>2. PICK size \in Nat : size = l.size
      BY <1>7 DEF BlockHeld, Linked, LinksHold
    <3>3. a + size <= Len(stream)
      BY <1>7, <3>2 DEF BlockHeld, Parsed
    <3>4. PICK q \in a..(a + size) : CameOut(c, a, q - a)
      <4>1. CASE CodedWhole(c, l, a)
        <5>1. (a + size) - a = size /\ a + size \in a..(a + size)
          BY <3>1
        <5> QED  BY <3>2, <4>1, <5>1 DEF CodedWhole
      <4>2. CASE CodedInPart(c, l, a)
        BY <3>2, <4>2 DEF CodedInPart
      <4> QED  BY <1>8, <4>1, <4>2
    <3>5. q \in Nat /\ q \in Where
      BY <3>1, <3>3 DEF Where
    <3>6. c.outCodeSize <= Len(c.outBuf)
      BY <3>4 DEF CameOut
    <3> QED  BY <3>4, <3>5, <3>6
  <2>2. PICK q \in Nat : q \in Where /\ CameOut(c, a, q - a)
    BY <2>1
  <2>3. stream \in Seq(Symbols) /\ a \in 0..Len(stream) /\ q \in 0..Len(stream) /\ a \in Nat
    BY <1>7, <2>2, CallIs DEF Where
  <2>4. a + (q - a) = q
    BY <2>3
  <2>5. c.outCodeSize = Count(stream, q) - Count(stream, a)
    BY <2>2, <2>4 DEF CameOut
  <2>6. Count(stream, q) \in Nat /\ Count(stream, a) \in Nat
    BY <2>3, WalkTypes
  <2> QED  BY <1>3, <1>6, <2>1, <2>5, <2>6
<1>11. PICK n \in 0..(m - 1) : out' = out \o SubSeq(c.outBuf, 1, n)
  BY <1>3, <1>6, <1>10
<1>12. out \in Seq(Nat) /\ c.outBuf \in Seq(Nat) /\ held.out \in Seq(Nat)
  <2>1. stream \in Seq(Symbols) /\ a \in 0..Len(stream)
    BY <1>7, CallIs DEF Where
  <2>2. out \in Seq(Nat)
    BY <1>7, <2>1, WalkTypes DEF OutAt
  <2>3. held.out \in Seq(Nat)
    BY <1>7, HeldHas DEF OutAt
  <2> QED  BY <1>8, <2>2, <2>3 DEF Fields
<1>13. IsPrefix(out', held.out)
  <2>1. PICK x, y, buf : buf = c.outBuf /\ x = out \o SubSeq(buf, 1, n) /\ y = out \o SubSeq(buf, 1, m)
    OBVIOUS
  <2>2. n \in Nat /\ n <= m
    BY <1>10
  <2>3. IsPrefix(x, y) /\ x \in Seq(Nat) /\ y \in Seq(Nat)
    BY <1>10, <1>12, <2>1, <2>2, PrefixPart
  <2>4. y = Added(c)
    BY <1>10, <2>1 DEF Added
  <2> QED  BY <1>9, <1>11, <1>12, <2>1, <2>3, <2>4, PrefixOf
<1>14. held' = held /\ readRes' = readRes
  BY <1>3 DEF SameCall, readVars
<1>15. Agrees' /\ (codeRes' # OK => BadEnd')
  BY <1>3, <1>6, <1>9, <1>13, <1>14, SoundStays DEF Agrees
<1>16. MtInv'
  BY <1>3, <1>5, <1>15 DEF MtInv
<1> QED  BY <1>3, <1>4, <1>16

\* One thread takes over what is left.
LEMMA WriteNothingGoes ==
    ASSUME Shape, Together, CallInv, ReadInv, MtInv, NEW t \in Threads, WriteNothing(t)
    PROVE  SameCall /\ ReadInv' /\ MtInv'
<1>1. /\ HasTurn(t) /\ ~ (me[t].needWrite /\ MayWrite(t)) /\ Troubled(t)
      /\ Leave(t, FALSE, OK, IF me[t].needWrite THEN FALSE ELSE ~ me[t].finish)
      /\ SameCall /\ UNCHANGED readVars /\ UNCHANGED <<out, numStartedThreads>>
  BY DEF WriteNothing, callVars, SameCall, startVars
<1>2. ReadInv'
  BY <1>1, ReadInvStays
<1>3. held' = held /\ readRes' = readRes /\ Agrees /\ out' = out
  BY <1>1 DEF SameCall, readVars, MtInv
<1>4. Agrees'
  BY <1>3 DEF Agrees
<1>5. CASE wasInterrupted
  <2>1. UNCHANGED switchVars
    BY <1>1, <1>5, Zenon DEF Troubled
  <2>2. ~ Over
    BY <1>1, TurnIsFirst
  <2>3. ~ NeedContinue
    BY <2>2 DEF MtInv
  <2>4. codeRes # OK => BadEnd
    BY <2>3 DEF MtInv
  <2>5. wasInterrupted' /\ ~ NeedContinue' /\ codeRes' = codeRes
    BY <1>5, <2>1, <2>3 DEF switchVars, NeedContinue
  <2>6. codeRes' # OK => BadEnd'
    BY <1>1, <1>3, <2>4, <2>5, SoundStays
  <2>7. MtInv'
    BY <1>4, <2>5, <2>6 DEF MtInv
  <2> QED  BY <1>1, <1>2, <2>7
<1>6. CASE ~ wasInterrupted
  <2>1. /\ ~ Over /\ numFilledThreads = 0
        /\ \E A, z, a : InTurnWith(t, A, z, a)
    BY <1>1, <1>6, TurnOf
  <2>2. PICK A, z, a : InTurnWith(t, A, z, a)
    BY <2>1
  <2>3. PICK inBuf, l, c : inBuf = threads[t].inBuf /\ l = me[t] /\ c = coders[t]
    OBVIOUS
  <2>4. /\ BlockHeld("write", inBuf, l, c, a) /\ ~ l.interrupted
        /\ l.finish => Ahead(l, c, a, z)
        /\ a \in Where /\ OutAt(a) /\ z \in Where
    BY <2>2, <2>3 DEF InTurnWith, InBlocks
  <2>5. Troublesome(l)
    <3>1. SUFFICES ASSUME ~ Troublesome(l) PROVE FALSE
      OBVIOUS
    <3>2. l.needWrite
      BY <2>4, <3>1 DEF BlockHeld
    <3>3. MayWrite(t)
      BY <1>6, <2>3, <2>4, <3>1 DEF MayWrite, Troublesome
    <3> QED  BY <1>1, <2>3, <3>2, <3>3
  <2>6. l.finish /\ Ahead(l, c, a, z) /\ Linked(inBuf, l.start, l.size, a) /\ Room(a)
    BY <2>4, <2>5 DEF BlockHeld
  <2>7. wasInterrupted' /\ NeedContinue'
    <3>1. PICK fails, memory : fails = (me[t].codeRes # OK)
              /\ memory = (me[t].allocError \/ me[t].codeRes = "MEM")
      OBVIOUS
    <3>2. /\ wasInterrupted' = (fails \/ me[t].threading \/ memory \/ me[t].overflow)
          /\ threadingError' = me[t].threading
          /\ isAllocError' = memory
          /\ overflow' = me[t].overflow
      BY <1>1, <1>6, <3>1, Zenon DEF Troubled
    <3>3. memory \/ me[t].threading \/ me[t].overflow
      BY <2>3, <2>5, <3>1, Zenon DEF Troublesome
    <3>4. isAllocError' \/ threadingError' \/ overflow'
      BY <3>2, <3>3, Zenon
    <3>5. wasInterrupted'
      BY <3>2, <3>3, Zenon
    <3> QED  BY <3>4, <3>5, Zenon DEF NeedContinue
  <2>8. PICK nc \in BOOLEAN : /\ nc = FALSE /\ Leave(t, FALSE, OK, nc)
    <3>1. (IF me[t].needWrite THEN FALSE ELSE ~ me[t].finish) = FALSE
      BY <2>3, <2>6
    <3> QED  BY <1>1, <3>1, Zenon
  <2>9. /\ LeftAs(t, nc)
        /\ ~ FALSE /\ wasInterrupted' /\ me[t].finish =>
                /\ me[t].size = 0 => numFilledThreads' = 0
                /\ me[t].size # 0 =>
                     /\ numFilledThreads' = 1 /\ filledThreadStart' = t
                     /\ threads'[t].inDataSize_Start = me[t].start
                     /\ threads'[t].inDataSize = me[t].size
    BY <2>1, <2>8, LeaveIs
  <2>10. Over'
    BY <2>1, <2>3, <2>6, <2>8, <2>9, LeftOver
  <2>11. threads'[t].inBuf = inBuf
    BY <2>3, <2>9 DEF LeftAs
  <2>12. TakesOver(a, z)'
    <3>1. OutAt(a)' /\ Room(a)' /\ (Proper(stream, a)' <=> Proper(stream, a))
          /\ (Live(stream, z)' <=> Live(stream, z)) /\ (NothingLeft' <=> NothingLeft)
          /\ (Contiguous(z)' <=> Contiguous(z))
      BY <1>1, <2>4, <2>6, OutStays, CallStays, ReadStays
    <3>2. /\ z = a + l.size /\ (Live(stream, z) => Contiguous(z))
          /\ Proper(stream, a) \/ (l.size = 0 /\ NothingLeft)
      BY <2>5, <2>6 DEF Ahead
    <3>3. PICK size \in Nat, n \in Nat : size = l.size /\ n = a
      BY <2>4, <2>6, CallIs DEF Linked, LinksHold, Where
    <3>4. CASE size = 0
      <4>1. numFilledThreads' = 0 /\ a = z
        BY <2>3, <2>6, <2>7, <2>9, <3>2, <3>3, <3>4
      <4> QED  BY <3>1, <3>2, <3>3, <3>4, <4>1 DEF TakesOver
    <3>5. CASE size # 0
      <4>1. /\ numFilledThreads' = 1 /\ filledThreadStart' = t
            /\ threads'[t].inDataSize_Start = l.start /\ threads'[t].inDataSize = l.size
            /\ l.size > 0
        BY <2>3, <2>6, <2>7, <2>9, <3>3, <3>5
      <4>2. t < numStartedThreads' /\ t \in Threads
        <5>1. pc[t] # "none"
          BY <1>1 DEF HasTurn
        <5>2. t < numStartedThreads
          BY <5>1, ThreadsAre DEF Shape
        <5> QED  BY <1>1, <5>2
      <4>3. Linked(inBuf, l.start, l.size, a)'
        BY <2>6 DEF Linked, LinksHold
      <4>4. PICK th, u : th = threads'[t] /\ u = t
        OBVIOUS
      <4>5. /\ numFilledThreads' = 1
            /\ filledThreadStart' \in Threads /\ filledThreadStart' < numStartedThreads'
            /\ LET h == threads[filledThreadStart]'
               IN  /\ Linked(h.inBuf, h.inDataSize_Start, h.inDataSize, a)
                   /\ h.inDataSize > 0 /\ z = a + h.inDataSize
        BY <2>6, <2>11, <3>2, <4>1, <4>2
      <4>6. TakesOver(a, z)'
        BY <3>1, <3>2, <3>3, <3>5, <4>5 DEF TakesOver
      <4> QED  BY <4>6
    <3> QED  BY <3>4, <3>5
  <2>13. a \in Where' /\ z \in Where'
    BY <1>1, <2>4, CallStays
  <2>14. MtInv'
    BY <1>4, <2>7, <2>10, <2>12, <2>13 DEF MtInv
  <2> QED  BY <1>1, <1>2, <2>14
<1> QED  BY <1>5, <1>6

-----------------------------------------------------------------------------
(* The threads work on.                                                    *)

\* What was read, whether or not it is of use to anybody.
LEMMA ReadOnInv ==
    ASSUME CallInv, ReadInv, NEW t \in Threads, ReadLink(t) \/ ReadFails(t)
    PROVE  SameCall /\ ReadInv' /\ (readRes # OK => readRes' # OK)
<1>0. SameCall
  BY DEF ReadLink, ReadFails, callVars, SameCall
<1>1. PICK n, error, cross : /\ error \in BOOLEAN /\ ReadLinkWith(t, n, error, cross)
                             /\ ~ HasCross(t) /\ ~ error => readRes = OK /\ n = ToRead
                             /\ ~ HasCross(t) /\ error => n \in (IF readRes = OK THEN 0..ToRead ELSE {0})
  <2>1. CASE ReadLink(t)
    <3>1. PICK cross : ReadLinkWith(t, ToRead, FALSE, cross)
      BY <2>1 DEF ReadLink
    <3>2. readRes = OK \/ HasCross(t)
      BY <2>1 DEF ReadLink
    <3> QED  BY <3>1, <3>2
  <2>2. CASE ReadFails(t)
    <3>1. PICK n \in IF readRes = OK THEN 0..ToRead ELSE {0} : ReadLinkWith(t, n, TRUE, TRUE)
      BY <2>2, Zenon DEF ReadFails
    <3> QED  BY <3>1
  <2> QED  BY <2>1, <2>2
<1>2. /\ readProcessed \in Nat /\ readProcessed <= Len(stream) /\ Len(stream) \in Nat
      /\ ToRead \in Nat /\ ToRead <= InBufSize /\ readProcessed + ToRead <= Len(stream)
      /\ ToRead # InBufSize => readProcessed + ToRead = Len(stream)
      /\ readProcessed = Len(stream) => ToRead = 0
  BY ToReadIs, CallIs
<1>3. CASE HasCross(t)
  <2>1. readProcessed' = readProcessed /\ readWasFinished' = readWasFinished /\ readRes' = readRes
    BY <1>1, <1>3, Zenon DEF ReadLinkWith
  <2> QED  BY <1>0, <2>1 DEF ReadInv, Where, SameCall
<1>4. CASE ~ HasCross(t)
  <2>1. PICK data, size, finish : /\ data = Place(readProcessed, n) /\ size = Len(data)
                                  /\ finish = (error \/ size # InBufSize)
    OBVIOUS
  <2>2. /\ readProcessed' = readProcessed + size
        /\ readWasFinished' = (readWasFinished \/ finish)
        /\ readRes' = IF error THEN "READ" ELSE readRes
    BY <1>1, <1>4, <2>1, Zenon DEF ReadLinkWith
  <2>3. n \in Nat /\ n <= ToRead /\ (readRes # OK => n = 0)
    <3>1. CASE error
      BY <1>1, <1>2, <1>4, <3>1
    <3>2. CASE ~ error
      BY <1>1, <1>2, <1>4, <3>2
    <3> QED  BY <3>1, <3>2
  <2>4. size = n
    BY <1>2, <2>1, <2>3, PlaceIs
  <2>5. readProcessed' \in 0..Len(stream)
    BY <1>2, <2>2, <2>3, <2>4
  <2>6. readWasFinished \in BOOLEAN /\ readRes \in {OK, "READ"}
        /\ (readWasFinished /\ readRes = OK => readProcessed = Len(stream))
    BY DEF ReadInv
  <2>7. readWasFinished' \in BOOLEAN /\ readRes' \in {OK, "READ"} /\ (readRes # OK => readRes' # OK)
    BY <1>1, <2>1, <2>2, <2>6 DEF OK
  <2>8. ASSUME readWasFinished', readRes' = OK PROVE readProcessed' = Len(stream)
    <3>1. ~ error /\ readRes = OK
      BY <1>1, <2>2, <2>8 DEF OK
    <3>2. n = ToRead
      BY <1>1, <1>4, <3>1
    <3>3. CASE finish
      <4>1. size # InBufSize
        BY <2>1, <3>1, <3>3
      <4> QED  BY <1>2, <2>2, <2>4, <3>2, <4>1
    <3>4. CASE ~ finish
      <4>1. readWasFinished
        BY <2>2, <2>8, <3>4
      <4> QED  BY <1>2, <2>2, <2>4, <2>6, <3>1, <3>2, <4>1
    <3> QED  BY <3>3, <3>4
  <2> QED  BY <1>0, <2>5, <2>7, <2>8 DEF ReadInv, Where, SameCall
<1> QED  BY <1>3, <1>4

\* Nothing is written, and nobody ends decoding.
Quiet == UNCHANGED switchVars /\ UNCHANGED filledVars /\ out' = out /\ SameCall /\ ReadInv'
           /\ (readRes # OK => readRes' # OK)

LEMMA QuietInv ==
    ASSUME MtInv, ~ Over, ~ Over', Quiet, ~ wasInterrupted => Working'
    PROVE  MtInv'
<1>1. /\ wasInterrupted' = wasInterrupted /\ codeRes' = codeRes /\ numFilledThreads' = numFilledThreads
      /\ out' = out /\ held' = held
      /\ isAllocError' = isAllocError /\ threadingError' = threadingError /\ overflow' = overflow
  BY DEF Quiet, switchVars, filledVars, SameCall
<1>2. NeedContinue' <=> NeedContinue
  BY <1>1 DEF NeedContinue
<1>3. BadEnd => BadEnd'
  BY SoundStays DEF Quiet, BadEnd
<1>4. Agrees'
  BY <1>1 DEF MtInv, Agrees
<1>5. ~ NeedContinue
  BY DEF MtInv
<1>6. /\ ~ wasInterrupted => codeRes = OK /\ numFilledThreads = 0 /\ Working'
      /\ codeRes # OK => BadEnd
  BY <1>5 DEF MtInv
<1>7. ~ NeedContinue' /\ (codeRes' # OK => BadEnd')
  BY <1>1, <1>2, <1>3, <1>5, <1>6
<1> QED  BY <1>1, <1>4, <1>6, <1>7 DEF MtInv

LEMMA QuietSteps ==
    ASSUME NEW t \in Threads, CallInv, ReadInv,
           BeginBlock(t) \/ LinkFails(t) \/ ReadLink(t) \/ ReadFails(t)
             \/ Pass(t) \/ NoMemory(t) \/ NoThread(t) \/ Code(t)
    PROVE  Quiet
<1>1. CASE ReadLink(t) \/ ReadFails(t)
  <2>1. UNCHANGED switchVars /\ UNCHANGED filledVars /\ out' = out
    BY <1>1 DEF ReadLink, ReadFails
  <2> QED  BY <1>1, <2>1, ReadOnInv DEF Quiet
<1>2. CASE BeginBlock(t) \/ LinkFails(t) \/ Pass(t) \/ NoMemory(t) \/ NoThread(t) \/ Code(t)
  <2>1. /\ UNCHANGED switchVars /\ UNCHANGED filledVars /\ out' = out
        /\ UNCHANGED callVars /\ UNCHANGED readVars
    BY <1>2 DEF BeginBlock, LinkFails, Pass, NoMemory, NoThread, PassOn, Code
  <2>2. SameCall /\ readRes' = readRes
    BY <2>1 DEF callVars, SameCall, readVars
  <2>3. ReadInv'
    BY <2>1, <2>2, ReadInvStays
  <2> QED  BY <2>1, <2>2, <2>3 DEF Quiet
<1> QED  BY <1>1, <1>2

\* What goes on aside: the rights of the threads may change, and where they are.
Aside ==
    /\ SameCall /\ UNCHANGED readVars /\ UNCHANGED switchVars /\ UNCHANGED filledVars
    /\ out' = out /\ numStartedThreads' = numStartedThreads
    /\ \A u \in Threads : /\ threads'[u].inBuf = threads[u].inBuf
                          /\ threads'[u].inDataSize = threads[u].inDataSize
                          /\ threads'[u].inDataSize_Start = threads[u].inDataSize_Start

\* Of a decoder that is at its end it changes nothing.
LEMMA OverStays ==
    ASSUME MtInv, Over, Over', Aside
    PROVE  MtInv'
<1>1. /\ SameCall /\ UNCHANGED readVars /\ UNCHANGED switchVars /\ UNCHANGED filledVars /\ out' = out
      /\ numStartedThreads' = numStartedThreads
  BY DEF Aside
<1>2. /\ wasInterrupted' = wasInterrupted /\ codeRes' = codeRes
      /\ numFilledThreads' = numFilledThreads /\ filledThreadStart' = filledThreadStart
      /\ isAllocError' = isAllocError /\ threadingError' = threadingError /\ overflow' = overflow
      /\ held' = held /\ readRes' = readRes
  BY <1>1 DEF switchVars, filledVars, SameCall, readVars
<1>3. NeedContinue' <=> NeedContinue
  BY <1>1, <1>2 DEF NeedContinue
<1>4. (BadEnd' <=> BadEnd) /\ (GoodEnd' <=> GoodEnd) /\ (Agrees' <=> Agrees)
  <2>1. Sound' <=> Sound
    BY <1>1, SoundStays
  <2> QED  BY <1>1, <1>2, <2>1 DEF BadEnd, GoodEnd, Agrees
<1>5. \A u \in Threads : threads'[u].inBuf = threads[u].inBuf
         /\ threads'[u].inDataSize = threads[u].inDataSize
         /\ threads'[u].inDataSize_Start = threads[u].inDataSize_Start
  BY DEF Aside
<1>6. ASSUME NEW p \in Where, NEW z \in Where, TakesOver(p, z) PROVE TakesOver(p, z)'
  <2>1. OutAt(p)' /\ Room(p)' /\ (Proper(stream, p)' <=> Proper(stream, p))
        /\ (Live(stream, z)' <=> Live(stream, z)) /\ (NothingLeft' <=> NothingLeft)
        /\ (Contiguous(z)' <=> Contiguous(z))
    BY <1>1, <1>6, OutStays, CallStays, ReadStays DEF TakesOver
  <2>2. /\ Live(stream, z) => Contiguous(z)
        /\ Proper(stream, p) \/ (numFilledThreads = 0 /\ NothingLeft)
    BY <1>6 DEF TakesOver
  <2>3. CASE numFilledThreads = 0 /\ p = z
    BY <1>2, <2>1, <2>2, <2>3 DEF TakesOver
  <2>4. CASE /\ numFilledThreads = 1
             /\ filledThreadStart \in Threads /\ filledThreadStart < numStartedThreads
             /\ LET th == threads[filledThreadStart]
                IN  /\ Linked(th.inBuf, th.inDataSize_Start, th.inDataSize, p)
                    /\ th.inDataSize > 0 /\ z = p + th.inDataSize
    <3>1. PICK f \in Threads : f = filledThreadStart /\ f < numStartedThreads
      BY <2>4
    <3>2. PICK inBuf, start, size : inBuf = threads[f].inBuf /\ start = threads[f].inDataSize_Start
                                    /\ size = threads[f].inDataSize
      OBVIOUS
    <3>3. Linked(inBuf, start, size, p) /\ size > 0 /\ z = p + size
      BY <2>4, <3>1, <3>2
    <3>4. Linked(inBuf, start, size, p)'
      BY <3>3 DEF Linked, LinksHold
    <3>5. /\ numFilledThreads' = 1 /\ filledThreadStart' = f /\ f < numStartedThreads'
          /\ threads'[f].inBuf = inBuf /\ threads'[f].inDataSize_Start = start
          /\ threads'[f].inDataSize = size
      BY <1>1, <1>2, <1>5, <2>4, <3>1, <3>2
    <3>6. /\ numFilledThreads' = 1
            /\ filledThreadStart' \in Threads /\ filledThreadStart' < numStartedThreads'
            /\ LET h == threads[filledThreadStart]'
               IN  /\ Linked(h.inBuf, h.inDataSize_Start, h.inDataSize, p)
                   /\ h.inDataSize > 0 /\ z = p + h.inDataSize
      BY <3>3, <3>5
    <3> QED  BY <1>2, <2>1, <2>2, <3>6 DEF TakesOver
  <2> QED  BY <1>6, <2>3, <2>4 DEF TakesOver
<1>7. NeedContinue => \E p \in Where', z \in Where' : TakesOver(p, z)'
  <2>1. NeedContinue => \E p \in Where, z \in Where : TakesOver(p, z)
    BY DEF MtInv
  <2>2. Where' = Where
    BY <1>1, CallStays
  <2> QED  BY <1>6, <2>1, <2>2
<1> QED  BY <1>2, <1>3, <1>4, <1>7 DEF MtInv

\* A thread that is told to end takes nothing with it.
LEMMA ToldInv ==
    ASSUME MtInv, Over, Shape, NEW t \in Threads, BeginBlock(t), exitThread
    PROVE  MtInv'
<1>1. /\ SameCall /\ UNCHANGED readVars /\ UNCHANGED switchVars /\ UNCHANGED filledVars /\ out' = out
      /\ exitThread' = exitThread /\ numStartedThreads' = numStartedThreads
      /\ threads' = [threads EXCEPT ![t].canRead = FALSE]
  BY DEF BeginBlock, callVars, SameCall, startVars
<1>2. Aside
  BY <1>1 DEF Aside, Shape
<1>3. Over'
  BY <1>1 DEF Over
<1> QED  BY <1>2, <1>3, OverStays

LEMMA ThreadGoes ==
    ASSUME Shape, Together, CallInv, ReadInv, MtInv, NEW t \in Threads, Thread(t)
    PROVE  SameCall /\ ReadInv' /\ MtInv'
<1>1. CASE Write(t)
  BY <1>1, WriteGoes
<1>2. CASE WriteFails(t)
  BY <1>2, WriteFailsGoes
<1>3. CASE WriteNothing(t)
  BY <1>3, WriteNothingGoes
<1>4. CASE BeginBlock(t) /\ exitThread
  <2>1. Quiet
    BY <1>4, QuietSteps
  <2>2. Over
    BY <1>4 DEF Over
  <2> QED  BY <1>4, <2>1, <2>2, ToldInv DEF Quiet
<1>5. CASE \/ BeginBlock(t) /\ ~ exitThread
           \/ LinkFails(t) \/ ReadLink(t) \/ ReadFails(t)
           \/ Pass(t) \/ NoMemory(t) \/ NoThread(t) \/ Code(t)
  <2>1. Quiet
    BY <1>5, QuietSteps
  <2>2. Shape' /\ Together' /\ Busy(t)' /\ ~ Over
    <3>1. Shape' /\ Together'
      BY <1>5, ThreadTogether DEF Thread
    <3>2. CASE BeginBlock(t) /\ ~ exitThread
      <4>1. Begins(t)
        BY <3>2, BeginEffect DEF IsToldToEnd
      <4>2. Busy(t)'
        BY <4>1 DEF Begins, Busy
      <4>3. ~ Over
        BY <4>1 DEF Begins, Over, Together, TheEnd, NobodyMayRead
      <4> QED  BY <3>1, <4>2, <4>3
    <3>3. CASE LinkFails(t) \/ ReadLink(t) \/ ReadFails(t)
      <4>1. Reads(t)
        BY <3>3, LinkFailsEffect, ReadEffect
      <4>2. Busy(t) /\ Busy(t)'
        BY <4>1 DEF Reads, Busy
      <4> QED  BY <3>1, <4>2 DEF Together, TheEnd, NobodyBusy
    <3>4. CASE Pass(t) \/ NoMemory(t) \/ NoThread(t)
      <4>1. \E next \in Threads, goesOn \in BOOLEAN, started \in 1..NumThreads :
                PassesOn(t, next, goesOn, started)
        BY <3>4, PassEffect
      <4>2. Busy(t) /\ Busy(t)'
        BY <4>1 DEF PassesOn, Busy
      <4> QED  BY <3>1, <4>2 DEF Together, TheEnd, NobodyBusy
    <3>5. CASE Code(t)
      <4>1. Codes(t)
        BY <3>5, CodeEffect
      <4>2. Busy(t) /\ Busy(t)'
        BY <4>1 DEF Codes, Busy
      <4> QED  BY <3>1, <4>2 DEF Together, TheEnd, NobodyBusy
    <3> QED  BY <1>5, <3>2, <3>3, <3>4, <3>5
  <2>3. ~ Over'
    BY <2>2 DEF Together, TheEnd, NobodyBusy
  <2>4. ASSUME ~ wasInterrupted PROVE Working'
    <3>1. MtState
      BY DEF MtState
    <3>2. PICK A, z : InBlocks(A, z)
      BY <2>2, <2>4 DEF MtInv, Working
    <3>3. \E A2, z2 : InBlocks(A2, z2)'
      BY <1>5, <3>1, <3>2, BeginBlocks, LinkFailsBlocks, ReadBlocks, PassBlocks, CodeBlocks
    <3> QED  BY <3>3 DEF Working, InBlocks
  <2>5. MtInv'
    BY <2>1, <2>2, <2>3, <2>4, QuietInv
  <2> QED  BY <2>1, <2>5 DEF Quiet
<1> QED  BY <1>1, <1>2, <1>3, <1>4, <1>5 DEF Thread

-----------------------------------------------------------------------------
(* One thread takes over. *)

LEMMA NothingAdded ==
    ASSUME NEW o \in Seq(Nat)
    PROVE  /\ o \o <<>> = o /\ <<>> \in Seq(Nat) /\ Len(<<>>) = 0
<1>1. PICK e : e = <<>>
  OBVIOUS
<1>2. e \in Seq(Nat) /\ Len(e) = 0
  BY <1>1
<1>3. o \o e = o
  BY <1>1
<1> QED  BY <1>1, <1>2, <1>3

\* What of the call does not change, does not.
LEMMA ContiguousStays ==
    ASSUME NEW z, crossBlock' = crossBlock, readProcessed' = readProcessed, Contiguous(z)
    PROVE  Contiguous(z)'
BY DEF Contiguous

LEMMA SwitchRest ==
    ASSUME Shape, Switch, NEW p \in Where, NEW z \in Where, TakesOver(p, z)
    PROVE  RestOf(p, z)'
<1>1. /\ numFilledThreads' = numFilledThreads /\ filledThreadStart' = filledThreadStart
      /\ numStartedThreads' = numStartedThreads
      /\ threads' = [t \in Threads |-> IF IsFilled(t) THEN threads[t]
                                       ELSE [threads[t] EXCEPT !.inBuf = <<>>]]
      /\ st' = [NoSt EXCEPT !.tMode = numFilledThreads # 0 \/ crossBlock # <<>>,
                            !.outProcessed = Len(out)]
  BY DEF Switch, filledVars, startVars
<1>2. CASE numFilledThreads = 0 /\ p = z
  BY <1>1, <1>2 DEF RestOf
<1>3. CASE /\ numFilledThreads = 1
           /\ filledThreadStart \in Threads /\ filledThreadStart < numStartedThreads
           /\ LET th == threads[filledThreadStart]
              IN  /\ Linked(th.inBuf, th.inDataSize_Start, th.inDataSize, p)
                  /\ th.inDataSize > 0 /\ z = p + th.inDataSize
  <2>1. PICK f \in Threads : f = filledThreadStart /\ f < numStartedThreads
    BY <1>3
  <2>2. PICK inBuf, start, size : inBuf = threads[f].inBuf /\ start = threads[f].inDataSize_Start
                                  /\ size = threads[f].inDataSize
    OBVIOUS
  <2>3. Linked(inBuf, start, size, p) /\ size > 0 /\ z = p + size
    BY <1>3, <2>1, <2>2
  <2>4. IsFilled(f)
    BY <1>3, <2>1, ThreadsAre DEF IsFilled
  <2>5. threads'[f] = threads[f]
    BY <1>1, <2>4
  <2>6. st'.tMode = TRUE /\ st'.inLim = 0
    <3>1. PICK m \in BOOLEAN : m = (numFilledThreads # 0 \/ crossBlock # <<>>)
      OBVIOUS
    <3>2. numFilledThreads # 0
      BY <1>3
    <3>3. m = TRUE
      BY <3>1, <3>2, Zenon
    <3> QED  BY <1>1, <3>1, <3>3 DEF NoSt
  <2>7. Linked(inBuf, start, size, p)'
    BY <2>3 DEF Linked, LinksHold
  <2>8. /\ threads'[f].inBuf = inBuf /\ threads'[f].inDataSize_Start = start
        /\ threads'[f].inDataSize = size
    BY <2>2, <2>5
  <2> QED  BY <1>1, <1>3, <2>1, <2>3, <2>6, <2>7, <2>8 DEF RestOf
<1> QED  BY <1>2, <1>3 DEF TakesOver

LEMMA SwitchGoes ==
    ASSUME Shape, CallInv, ReadInv, MtInv, Switch
    PROVE  /\ SameCall /\ ReadInv' /\ out' = out /\ Agrees' /\ NeedContinue'
           /\ main' \in {"fetch", "close"} /\ (main' = "close" => result' = "MEM")
           /\ main' = "fetch" => StInv'
<1>1. /\ SameCall /\ UNCHANGED readVars /\ UNCHANGED switchVars /\ out' = out /\ NeedContinue
      /\ UNCHANGED filledVars
      /\ st' = [NoSt EXCEPT !.tMode = numFilledThreads # 0 \/ crossBlock # <<>>,
                            !.outProcessed = Len(out)]
      /\ main' \in {"fetch", "close"} /\ (main' = "close" => result' = "MEM")
  BY DEF Switch, callVars, SameCall
<1>2. ReadInv'
  BY <1>1, ReadInvStays
<1>3. NeedContinue' /\ Agrees'
  <2>1. isAllocError' = isAllocError /\ threadingError' = threadingError /\ overflow' = overflow
    BY <1>1 DEF switchVars
  <2> QED  BY <1>1, <2>1 DEF NeedContinue, Agrees, MtInv, SameCall
<1>4. PICK p \in Where, z \in Where : TakesOver(p, z)
  BY <1>1 DEF MtInv
<1>5. /\ stream \in Seq(Symbols) /\ Len(stream) \in Nat /\ p \in 0..Len(stream) /\ p \in Nat /\ z \in Nat
      /\ 0 \in Where /\ Where' = Where
  BY <1>1, CallIs, CallStays DEF Where
<1>6. OutAt(p) /\ Room(p) /\ Out(stream, p) \in Seq(Nat) /\ out \in Seq(Nat)
      /\ Good(stream, outSize, 0, p) /\ out = Out(stream, p) /\ Len(out) = Count(stream, p)
  BY <1>4, <1>5, WalkTypes DEF TakesOver, OutAt, Count
<1>7. PICK e : e = <<>>
  OBVIOUS
<1>8. PICK m, n : m \in BOOLEAN /\ m = (numFilledThreads # 0 \/ crossBlock # <<>>) /\ n = Len(out)
  OBVIOUS
<1>9. /\ st'.dic = e /\ st'.data = e /\ st'.outProcessed = Len(out) /\ st'.tMode = m
      /\ st'.dec = NewDecoder /\ DOMAIN st' = DOMAIN NoSt
  BY <1>1, <1>7, <1>8 DEF NoSt
<1>10. StOut(p)'
  <2>1. out \o e = out /\ e \in Seq(Nat) /\ Len(e) = 0
    BY <1>6, <1>7, NothingAdded
  <2>2. Room(p)'
    BY <1>1, <1>6, CallStays
  <2>3. Good(stream, outSize, 0, p)'
    BY <1>1, <1>6 DEF SameCall, Good, AllAccepted, Accepted, Live, State, Count, Out, Walk
  <2>4. Out(stream, p)' = Out(stream, p) /\ Count(stream, p)' = Count(stream, p)
    BY <1>1 DEF SameCall, Count, Out, Walk
  <2>5. Len(e) < OutStep
    BY <2>1, Sizes
  <2> QED  BY <1>1, <1>6, <1>9, <2>1, <2>2, <2>3, <2>4, <2>5 DEF StOut
<1>11. ASSUME main' = "fetch" PROVE StData(p, 0, z)'
  <2>1. Place(p, 0) = e
    BY <1>7, NoPlace
  <2>2. p + 0 = p
    BY <1>5
  <2>3. p <= z
    <3>1. p = z \/ (threads[filledThreadStart].inDataSize > 0 /\ z = p + threads[filledThreadStart].inDataSize
                     /\ threads[filledThreadStart].inDataSize \in Nat)
      BY <1>4 DEF TakesOver, Linked, LinksHold
    <3> QED  BY <1>5, <3>1
  <2>4. RestOf(p, z)'
    BY <1>4, SwitchRest
  <2>5. Live(stream, z)' => Contiguous(z)'
    BY <1>1, <1>4, CallStays, ReadStays DEF TakesOver
  <2>6. ~ m => numFilledThreads' = 0 /\ crossBlock' = <<>>
    BY <1>1, <1>8 DEF filledVars, readVars
  <2>7. Place(p, 0)' = Place(p, 0)
    BY DEF Place
  <2> QED  BY <1>9, <1>11, <2>1, <2>2, <2>3, <2>4, <2>5, <2>6, <2>7 DEF StData
<1>12. StDec(p, 0)'
  <2>1. CASE Proper(stream, p)
    <3>1. Proper(stream, p)'
      BY <1>1, <2>1, CallStays
    <3> QED  BY <1>9, <3>1 DEF StDec, LikeDec
  <2>2. CASE numFilledThreads = 0 /\ NothingLeft
    <3>1. numFilledThreads' = 0 /\ NothingLeft'
      BY <1>1, <2>2 DEF filledVars, readVars, NothingLeft
    <3> QED  BY <1>9, <3>1 DEF StDec
  <2> QED  BY <1>4, <2>1, <2>2 DEF TakesOver
<1>13. ASSUME main' = "fetch" PROVE StInv'
  <2>1. StAt(p, 0, z)'
    BY <1>10, <1>11, <1>12, <1>13 DEF StAt
  <2> QED  BY <1>3, <1>5, <2>1 DEF StInv
<1> QED  BY <1>1, <1>2, <1>3, <1>13

-----------------------------------------------------------------------------
(* The links that were taken over are given out, one after the other.      *)

LEMMA LinksHave ==
    ASSUME NEW inBuf, NEW start, NEW size, NEW a, LinksHold(inBuf, start, size, a)
    PROVE  /\ inBuf \in Seq(Seq(Nat)) /\ size \in Nat /\ Len(inBuf) \in Nat
           /\ DOMAIN inBuf = 1..Len(inBuf)
           /\ size = 0 \/ size <= Off(start, Len(inBuf) + 1)
           /\ \A k \in 1..Len(inBuf) : inBuf[k] \in Seq(Nat) /\ Len(inBuf[k]) \in Nat
<1>1. inBuf \in Seq(Seq(Nat)) /\ size \in Nat /\ (size = 0 \/ size <= Off(start, Len(inBuf) + 1))
  BY DEF LinksHold
<1>2. Len(inBuf) \in Nat /\ DOMAIN inBuf = 1..Len(inBuf)
  BY <1>1, LenProperties
<1>3. \A k \in 1..Len(inBuf) : inBuf[k] \in Seq(Nat)
  BY <1>1, ElementOfSeq
<1> QED  BY <1>1, <1>2, <1>3, LenProperties

\* the place from which link k is filled
LinkAt(inBuf, start, size, a, k) ==
    \A j \in 1..LinkSize(k, start, size) : j <= Len(inBuf[k]) /\ inBuf[k][j] = a + Off(start, k) + j

LEMMA LinkHas ==
    ASSUME NEW inBuf, NEW start, NEW size, NEW a, LinksHold(inBuf, start, size, a),
           NEW k \in 1..Len(inBuf)
    PROVE  LinkAt(inBuf, start, size, a, k)
<1>1. k \in DOMAIN inBuf
  BY LinksHave
<1> QED  BY <1>1 DEF LinksHold, LinkAt

\* Of a filled link the first places are given out.
LEMMA LinkGiven ==
    ASSUME NEW w \in Seq(Nat), NEW n \in Nat, NEW b \in Nat,
           \A j \in 1..n : j <= Len(w) /\ w[j] = b + j
    PROVE  SubSeq(w, 1, n) = Place(b, n)
<1>1. Len(w) \in Nat
  BY LenProperties
<1>2. n <= Len(w)
  <2>1. CASE n = 0
    BY <1>1, <2>1
  <2>2. CASE n > 0
    BY <1>1, <2>2
  <2> QED  BY <2>1, <2>2
<1>3. SubSeq(w, 1, n) \in Seq(Nat) /\ Len(SubSeq(w, 1, n)) = n /\ \A i \in 1..n : SubSeq(w, 1, n)[i] = w[i]
  BY <1>2, FrontIs
<1>4. Place(b, n) \in Seq(Nat) /\ Len(Place(b, n)) = n /\ \A i \in 1..n : Place(b, n)[i] = b + i
  BY PlaceIs
<1> QED  BY <1>3, <1>4, SeqEqual

FirstGiven(inBuf, start, size, p) ==
    /\ start \in Nat /\ start > 0 /\ start <= size
    /\ SubSeq(inBuf[1], 1, start) = Place(p, start)
    /\ LinksHold(inBuf, 0, size - start, p + start) /\ inBuf # <<>>

LEMMA FirstLinkGiven ==
    ASSUME NEW inBuf, NEW start, NEW size, NEW p \in Nat, Linked(inBuf, start, size, p), size > 0
    PROVE  FirstGiven(inBuf, start, size, p)
<1>1. LinksHold(inBuf, start, size, p) /\ start \in 0..size /\ start > 0
  BY DEF Linked
<1>2. PICK len \in Nat : len = Len(inBuf)
  BY <1>1, LinksHave
<1>3. PICK S \in Nat, T \in Nat : S = size /\ T = start /\ T > 0 /\ T <= S
  BY <1>1, LinksHave
<1>4. /\ inBuf \in Seq(Seq(Nat)) /\ DOMAIN inBuf = 1..len /\ S <= Off(T, len + 1)
      /\ \A k \in 1..len : inBuf[k] \in Seq(Nat) /\ Len(inBuf[k]) \in Nat
  BY <1>1, <1>2, <1>3, LinksHave
<1>5. len > 0
  <2>1. ASSUME len = 0 PROVE FALSE
    <3>1. Off(T, len + 1) = 0
      BY <2>1 DEF Off
    <3> QED  BY <1>3, <1>4, <3>1
  <2> QED  BY <2>1
<1>6. LinkAt(inBuf, T, S, p, 1)
  BY <1>1, <1>2, <1>3, <1>5, LinkHas
<1>7. SubSeq(inBuf[1], 1, T) = Place(p, T)
  <2>1. LinkSize(1, T, S) = T /\ Off(T, 1) = 0
    BY LinkSizeIs, OffIs
  <2>2. PICK w \in Seq(Nat) : w = inBuf[1]
    BY <1>4, <1>5
  <2>3. \A j \in 1..T : j <= Len(w) /\ w[j] = p + j
    BY <1>6, <2>1, <2>2 DEF LinkAt
  <2>4. SubSeq(w, 1, T) = Place(p, T)
    BY <2>3, LinkGiven, Zenon
  <2> QED  BY <2>2, <2>4, Zenon
<1>8. LinksHold(inBuf, 0, S - T, p + T)
  <2>1. S - T \in Nat
    BY <1>3
  <2>2. ASSUME NEW k \in 1..len, NEW j \in 1..LinkSize(k, 0, S - T)
        PROVE  j <= Len(inBuf[k]) /\ inBuf[k][j] = p + T + Off(0, k) + j
    <3>1. PICK R \in Nat : R = S - T
      BY <2>1
    <3>2. CASE k = 1
      BY <2>2, <3>2, <3>1, LinkSizeIs
    <3>3. CASE k > 1
      <4>1. PICK i \in Nat, I \in Nat : i = k - 2 /\ I = InBufSize
        BY <3>3, Sizes
      <4>2. PICK x \in Nat : x = i * I
        BY <4>1, Multiples
      <4>3. Off(0, k) = x /\ Off(T, k) = T + x
        BY <3>3, <4>1, <4>2 DEF Off
      <4>4. LinkSize(k, 0, R) = IF R - x < I THEN R - x ELSE I
        BY <3>1, <3>3, <4>1, <4>3, LinkSizeIs, SMTT(30)
      <4>5. LinkSize(k, T, S) = IF S - (T + x) < I THEN S - (T + x) ELSE I
        BY <3>3, <4>1, <4>3, LinkSizeIs, SMTT(30)
      <4>6. LinkSize(k, T, S) = LinkSize(k, 0, R)
        BY <1>3, <3>1, <4>2, <4>4, <4>5
      <4>7. LinkAt(inBuf, T, S, p, k)
        BY <1>1, <1>2, <1>3, LinkHas
      <4>8. j <= Len(inBuf[k]) /\ inBuf[k][j] = p + (T + x) + j
        BY <2>2, <3>1, <4>3, <4>6, <4>7 DEF LinkAt
      <4>9. j \in Nat
        BY <2>2
      <4> QED  BY <4>2, <4>3, <4>8, <4>9
    <3> QED  BY <3>2, <3>3
  <2>3. S - T = 0 \/ S - T <= Off(0, len + 1)
    <3>1. PICK i \in Nat, I \in Nat : i = len - 1 /\ I = InBufSize
      BY <1>5, Sizes
    <3>2. PICK x \in Nat : x = i * I
      BY <3>1, Multiples
    <3>3. Off(0, len + 1) = x /\ Off(T, len + 1) = T + x
      BY <1>5, <3>1, <3>2 DEF Off
    <3> QED  BY <1>3, <1>4, <3>2, <3>3
  <2> QED  BY <1>2, <1>4, <2>1, <2>2, <2>3 DEF LinksHold
<1>9. inBuf # <<>>
  BY <1>2, <1>5
<1> QED  BY <1>3, <1>7, <1>8, <1>9 DEF FirstGiven

Chunk(size) == IF size < InBufSize THEN size ELSE InBufSize
NextGiven(inBuf, size, lim, q) ==
    /\ lim \in Nat /\ lim > 0 /\ lim <= size
    /\ SubSeq(Tail(inBuf)[1], 1, lim) = Place(q, lim)
    /\ LinksHold(Tail(inBuf), 0, size - lim, q + lim) /\ Tail(inBuf) # <<>>

LEMMA NextLinkGiven ==
    ASSUME NEW inBuf, NEW size, NEW q \in Nat, LinksHold(inBuf, 0, size, q), size > 0,
           NEW lim, lim = Chunk(size)
    PROVE  NextGiven(inBuf, size, lim, q)
<1>1. PICK len \in Nat, S \in Nat, L \in Nat, I \in Nat :
         len = Len(inBuf) /\ S = size /\ S > 0 /\ L = lim /\ L > 0 /\ L <= S /\ I = InBufSize /\ I > 0
         /\ L = IF S < I THEN S ELSE I
  <2>1. size \in Nat /\ Len(inBuf) \in Nat /\ InBufSize \in Nat /\ InBufSize > 0
    BY LinksHave, Sizes
  <2>2. PICK S \in Nat, I \in Nat : S = size /\ I = InBufSize
    BY <2>1
  <2>3. lim \in Nat /\ lim > 0 /\ lim <= S /\ lim = IF S < I THEN S ELSE I
    BY <2>1, <2>2 DEF Chunk
  <2> QED  BY <2>1, <2>2, <2>3
<1>2. /\ inBuf \in Seq(Seq(Nat)) /\ DOMAIN inBuf = 1..len /\ S <= Off(0, len + 1)
      /\ \A k \in 1..len : inBuf[k] \in Seq(Nat) /\ Len(inBuf[k]) \in Nat
  BY <1>1, LinksHave
<1>3. len > 1
  <2>1. ASSUME len = 0 \/ len = 1 PROVE FALSE
    <3>1. Off(0, 1) = 0 /\ Off(0, 2) = 0
      BY OffIs
    <3>2. Off(0, len + 1) = 0
      BY <2>1, <3>1
    <3> QED  BY <1>1, <1>2, <3>2
  <2> QED  BY <2>1
<1>4. PICK rest : rest = Tail(inBuf)
  OBVIOUS
<1>5. rest \in Seq(Seq(Nat)) /\ Len(rest) = len - 1 /\ \A k \in 1..(len - 1) : rest[k] = inBuf[k + 1]
  <2>1. inBuf # <<>>
    BY <1>1, <1>3
  <2> QED  BY <1>1, <1>2, <1>4, <2>1, HeadTailProperties
<1>6. DOMAIN rest = 1..(len - 1) /\ rest # <<>>
  BY <1>3, <1>5, LenProperties
<1>7. SubSeq(rest[1], 1, L) = Place(q, L)
  <2>1. LinkAt(inBuf, 0, S, q, 2)
    BY <1>1, <1>3, LinkHas
  <2>2. Off(0, 2) = 0
    BY OffIs
  <2>3. LinkSize(2, 0, S) = L
    <3>1. PICK m \in Nat, o \in Nat : m = 2 /\ m > 1 /\ m > 0 /\ o = 0
      OBVIOUS
    <3>2. LinkSize(m, o, S) = IF S - Off(o, m) < InBufSize THEN S - Off(o, m) ELSE InBufSize
      BY <1>1, <3>1, LinkSizeIs
    <3> QED  BY <1>1, <2>2, <3>1, <3>2
  <2>4. rest[1] = inBuf[2] /\ inBuf[2] \in Seq(Nat)
    BY <1>2, <1>3, <1>5
  <2>5. PICK w \in Seq(Nat) : w = inBuf[2]
    BY <2>4
  <2>6. \A j \in 1..L : j <= Len(w) /\ w[j] = q + j
    BY <2>1, <2>2, <2>3, <2>5 DEF LinkAt
  <2>7. SubSeq(w, 1, L) = Place(q, L)
    BY <2>6, LinkGiven, Zenon
  <2> QED  BY <2>4, <2>5, <2>7, Zenon
<1>8. LinksHold(rest, 0, S - L, q + L)
  <2>1. PICK R \in Nat : R = S - L
    BY <1>1
  <2>2. ASSUME NEW k \in 1..(len - 1), NEW j \in 1..LinkSize(k, 0, R)
        PROVE  j <= Len(rest[k]) /\ rest[k][j] = q + L + Off(0, k) + j
    <3>2. CASE k = 1
      BY <2>1, <2>2, <3>2, LinkSizeIs
    <3>3. CASE k > 1
      <4>1. PICK i \in Nat : i = k - 2
        BY <3>3
      <4>2. PICK x \in Nat : x = i * I /\ (i + 1) * I = x + I
        BY <1>1, <4>1, Multiples
      <4>3. Off(0, k) = x /\ Off(0, k + 1) = x + I
        <5>1. Off(0, k) = 0 + (k - 2) * I /\ Off(0, k + 1) = 0 + (k + 1 - 2) * I
          BY <1>1, <3>3 DEF Off
        <5>2. k - 2 = i /\ k + 1 - 2 = i + 1
          BY <4>1
        <5> QED  BY <1>1, <4>2, <5>1, <5>2
      <4>4. LinkSize(k, 0, R) = IF R - x < I THEN R - x ELSE I
        <5>1. PICK m \in Nat, o \in Nat : m = k /\ m > 1 /\ m > 0 /\ o = 0
          BY <3>3
        <5>2. LinkSize(m, o, R) = IF R - Off(o, m) < InBufSize THEN R - Off(o, m) ELSE InBufSize
          BY <2>1, <5>1, LinkSizeIs
        <5> QED  BY <1>1, <4>3, <5>1, <5>2
      <4>5. L = I
        <5>1. CASE S < I
          <6>1. R = 0
            BY <1>1, <2>1, <5>1
          <6>2. LinkSize(k, 0, R) <= 0
            BY <1>1, <4>2, <4>4, <6>1
          <6> QED  BY <2>2, <4>4, <6>2, <4>2, <1>1
        <5>2. CASE ~ S < I
          BY <1>1, <5>2
        <5> QED  BY <5>1, <5>2
      <4>6. PICK m \in Nat : m = k + 1 /\ m > 1 /\ m \in 1..len
        BY <3>3
      <4>7. LinkSize(m, 0, S) = IF S - (x + I) < I THEN S - (x + I) ELSE I
        <5>1. PICK j2 \in Nat, o \in Nat, T \in Nat : j2 = m /\ j2 > 1 /\ j2 > 0 /\ o = 0 /\ T = S
          BY <1>1, <4>6
        <5>2. LinkSize(j2, o, T) = IF T - Off(o, j2) < InBufSize THEN T - Off(o, j2) ELSE InBufSize
          BY <5>1, LinkSizeIs
        <5> QED  BY <1>1, <4>3, <4>6, <5>1, <5>2
      <4>8. LinkSize(m, 0, S) = LinkSize(k, 0, R)
        BY <1>1, <2>1, <4>2, <4>4, <4>5, <4>7
      <4>9. LinkAt(inBuf, 0, S, q, m)
        BY <1>1, <4>6, LinkHas
      <4>10. j <= Len(inBuf[m]) /\ inBuf[m][j] = q + (x + I) + j
        BY <2>2, <4>3, <4>6, <4>8, <4>9 DEF LinkAt
      <4>11. j \in Nat
        BY <2>2
      <4>12. rest[k] = inBuf[m]
        BY <1>5, <4>6
      <4>13. q + L + Off(0, k) + j = q + (x + I) + j
        BY <4>3, <4>5, <4>11
      <4> QED  BY <4>10, <4>12, <4>13
    <3> QED  BY <3>2, <3>3
  <2>3. S - L = 0 \/ S - L <= Off(0, len - 1 + 1)
    <3>1. PICK i \in Nat : i = len - 2
      BY <1>3
    <3>2. PICK x \in Nat : x = i * I /\ (i + 1) * I = x + I
      BY <1>1, <3>1, Multiples
    <3>3. Off(0, len) = x /\ Off(0, len + 1) = x + I
      <4>1. Off(0, len) = 0 + (len - 2) * I /\ Off(0, len + 1) = 0 + (len + 1 - 2) * I
        BY <1>1, <1>3 DEF Off
      <4>2. len - 2 = i /\ len + 1 - 2 = i + 1
        BY <3>1
      <4> QED  BY <1>1, <3>2, <4>1, <4>2
    <3>4. len - 1 + 1 = len
      OBVIOUS
    <3> QED  BY <1>1, <1>2, <3>2, <3>3, <3>4
  <2> QED  BY <1>5, <1>6, <2>1, <2>2, <2>3 DEF LinksHold
<1> QED  BY <1>1, <1>4, <1>6, <1>7, <1>8 DEF NextGiven

-----------------------------------------------------------------------------
(* One thread gets more to decode.                                         *)

StNames == {"dec", "tMode", "data", "inLim", "dic", "outProcessed"}
LEMMA StNamesAre == DOMAIN NoSt = StNames
  BY DEF NoSt, StNames

\* what getting more changes of it
StGets(s, data, n, mode) ==
    /\ DOMAIN s = DOMAIN st /\ s.dec = st.dec /\ s.dic = st.dic /\ s.outProcessed = st.outProcessed
    /\ s.data = data /\ s.inLim = n /\ s.tMode = mode

LEMMA StGiven ==
    ASSUME DOMAIN st = DOMAIN NoSt, NEW data, NEW n, NEW mode, NEW s,
           \/ s = [st EXCEPT !.data = data, !.inLim = n] /\ mode = st.tMode
           \/ s = [st EXCEPT !.tMode = mode, !.data = data, !.inLim = n]
    PROVE  StGets(s, data, n, mode)
<1>1. DOMAIN st = StNames
  BY StNamesAre
<1>2. CASE s = [st EXCEPT !.data = data, !.inLim = n] /\ mode = st.tMode
  BY <1>1, <1>2 DEF StNames, StGets
<1>3. CASE s = [st EXCEPT !.tMode = mode, !.data = data, !.inLim = n]
  BY <1>1, <1>3 DEF StNames, StGets
<1> QED  BY <1>2, <1>3

\* A step that decodes nothing.
StKept(data, n, mode) ==
    /\ SameCall /\ out' = out /\ UNCHANGED switchVars
    /\ StGets(st', data, n, mode)

LEMMA StOutStays ==
    ASSUME NEW data, NEW n, NEW mode, StKept(data, n, mode), NEW p, StOut(p)
    PROVE  StOut(p)'
<1>1. /\ SameCall /\ out' = out
      /\ DOMAIN st' = DOMAIN st /\ st'.dic = st.dic /\ st'.outProcessed = st.outProcessed
  BY DEF StKept, StGets
<1>2. Room(p)' <=> Room(p)
  BY <1>1, CallStays
<1>3. Good(stream, outSize, 0, p)' <=> Good(stream, outSize, 0, p)
  BY <1>1 DEF SameCall, Good, AllAccepted, Accepted, Live, State, Count, Out, Walk
<1>4. Out(stream, p)' = Out(stream, p) /\ Count(stream, p)' = Count(stream, p)
  BY <1>1 DEF SameCall, Count, Out, Walk
<1>5. DOMAIN NoSt' = DOMAIN NoSt
  BY DEF NoSt
<1> QED  BY <1>1, <1>2, <1>3, <1>4, <1>5 DEF StOut

LEMMA LikeStays ==
    ASSUME NEW data, NEW n, NEW mode, StKept(data, n, mode), NEW p, LikeDec(stream, st.dec, p)
    PROVE  LikeDec(stream, st.dec, p)'
<1>1. SameCall /\ st'.dec = st.dec
  BY DEF StKept, StGets
<1>2. (Proper(stream, p)' <=> Proper(stream, p)) /\ Dec(stream, p)' = Dec(stream, p)
  BY <1>1, CallStays DEF SameCall, Dec, Walk
<1> QED  BY <1>1, <1>2 DEF LikeDec

LEMMA GoesOnNeeding ==
    ASSUME UNCHANGED switchVars, out' = out, SameCall, NeedContinue, Agrees
    PROVE  NeedContinue' /\ Agrees'
<1>1. isAllocError' = isAllocError /\ threadingError' = threadingError /\ overflow' = overflow
  BY DEF switchVars
<1> QED  BY <1>1 DEF NeedContinue, Agrees, SameCall

\* The state of the decoder with one thread, and how many links there are.
StState(p, z) ==
    /\ Shape /\ CallInv /\ ReadInv /\ p \in Where /\ z \in Where /\ main = "fetch" /\ NeedContinue /\ Agrees
    /\ StAt(p, 0, z)

\* What the threads still have in their links is given out.
FilledGiven(f, p, z, m, left) ==
    /\ f \in Threads /\ m \in Nat /\ m > 0 /\ left \in Nat /\ z = p + m + left
    /\ numFilledThreads' = 1 /\ filledThreadStart' = f /\ f < numStartedThreads'
    /\ LinksHold(threads'[f].inBuf, 0, left, p + m) /\ threads'[f].inBuf # <<>>
    /\ threads'[f].inDataSize = left /\ threads'[f].inDataSize_Start = 0
    /\ StKept(Place(p, m), m, st.tMode) /\ st.tMode /\ UNCHANGED readVars /\ main' = "decode"

LEMMA GivenGoes ==
    ASSUME NEW p, NEW z, StState(p, z), NEW f, NEW m, NEW left, FilledGiven(f, p, z, m, left),
           numFilledThreads = 1
    PROVE  ReadInv' /\ StInv'
<1>1. /\ StOut(p) /\ StData(p, 0, z) /\ StDec(p, 0) /\ p \in Where /\ z \in Where /\ p \in Nat
      /\ NeedContinue /\ Agrees /\ CallInv /\ ReadInv
  BY CallIs DEF StState, StAt, Where
<1>2. /\ f \in Threads /\ m \in Nat /\ m > 0 /\ left \in Nat /\ z = p + m + left
      /\ SameCall /\ out' = out /\ UNCHANGED switchVars /\ UNCHANGED readVars /\ main' = "decode"
      /\ StKept(Place(p, m), m, st.tMode) /\ StGets(st', Place(p, m), m, st.tMode) /\ st.tMode
  BY DEF FilledGiven, StKept
<1>3. ReadInv' /\ NeedContinue' /\ Agrees' /\ Where' = Where
  BY <1>1, <1>2, ReadInvStays, GoesOnNeeding, CallStays
<1>4. StOut(p)'
  BY <1>1, <1>2, StOutStays
<1>5. StDec(p, m)'
  <2>1. LikeDec(stream, st.dec, p)
    BY <1>1 DEF StDec
  <2> QED  BY <1>2, <2>1, LikeStays DEF StDec
<1>6. RestOf(p + m, z)'
  <2>1. PICK inBuf : inBuf = threads'[f].inBuf
    OBVIOUS
  <2>2. /\ LinksHold(inBuf, 0, left, p + m) /\ inBuf # <<>>
        /\ threads'[f].inDataSize = left /\ threads'[f].inDataSize_Start = 0
        /\ numFilledThreads' = 1 /\ filledThreadStart' = f /\ f < numStartedThreads'
    BY <2>1 DEF FilledGiven
  <2>3. LinksHold(inBuf, 0, left, p + m)'
    BY <2>2 DEF LinksHold
  <2>4. st'.inLim = m /\ st'.tMode
    BY <1>2 DEF StGets
  <2> QED  BY <1>2, <2>1, <2>2, <2>3, <2>4 DEF RestOf
<1>7. StData(p, m, z)'
  <2>1. st'.data = Place(p, m) /\ st'.tMode
    BY <1>2 DEF StGets
  <2>2. Live(stream, z)' => Contiguous(z)'
    BY <1>1, <1>2, CallStays, ReadStays DEF StData
  <2>3. Place(p, m)' = Place(p, m)
    BY DEF Place
  <2>4. p + m <= z /\ m # 0
    BY <1>1, <1>2
  <2> QED  BY <1>2, <1>6, <2>1, <2>2, <2>3, <2>4 DEF StData
<1>8. m \in Where
  BY <1>1, <1>2, CallIs DEF Where
<1> QED  BY <1>3, <1>4, <1>5, <1>7, <1>8, <1>1 DEF StInv, StAt

-----------------------------------------------------------------------------

\* A link is taken from a thread.
TakesLink(f, th, inBuf, start, size, lim) ==
    /\ TakeFrom(f, th) /\ DOMAIN th = DOMAIN threads[f] /\ DOMAIN st = DOMAIN NoSt
    /\ inBuf = th.inBuf /\ start = th.inDataSize_Start /\ size = th.inDataSize
    /\ lim = IF start # 0 THEN start ELSE Chunk(size)
TakenLink(f, inBuf, size, lim) ==
    /\ threads'[f].inBuf = inBuf /\ threads'[f].inDataSize_Start = 0
    /\ threads'[f].inDataSize = size - lim
    /\ StGets(st', SubSeq(inBuf[1], 1, lim), lim, st.tMode)
    /\ main' = IF lim = 0 THEN "fetch" ELSE "decode"

LEMMA TakenIs ==
    ASSUME Shape, NEW f \in Threads, NEW th, NEW inBuf, NEW start, NEW size, NEW lim,
           TakesLink(f, th, inBuf, start, size, lim)
    PROVE  TakenLink(f, inBuf, size, lim)
<1>0. /\ TakeFrom(f, th) /\ DOMAIN th = DOMAIN threads[f] /\ DOMAIN st = DOMAIN NoSt
      /\ inBuf = th.inBuf /\ start = th.inDataSize_Start /\ size = th.inDataSize
      /\ lim = IF start # 0 THEN start ELSE Chunk(size)
  BY DEF TakesLink
<1>1. /\ threads' = [threads EXCEPT ![f] = [th EXCEPT !.inDataSize_Start = 0, !.inDataSize = size - lim]]
      /\ st' = [st EXCEPT !.data = SubSeq(inBuf[1], 1, lim), !.inLim = lim]
      /\ main' = IF lim = 0 THEN "fetch" ELSE "decode"
  <2>1. PICK rem : rem = Chunk(size) /\ lim = IF start # 0 THEN start ELSE rem
    BY <1>0
  <2>2. rem = IF size < InBufSize THEN size ELSE InBufSize
    BY <2>1, Zenon DEF Chunk
  <2> QED  BY <1>0, <2>1, <2>2 DEF TakeFrom
<1>2. PICK w, d : w = [th EXCEPT !.inDataSize_Start = 0, !.inDataSize = d] /\ d = size - lim
  OBVIOUS
<1>3. DOMAIN threads = Threads
      /\ DOMAIN th = {"canRead", "canWrite", "inBuf", "inDataSize_Start", "inDataSize"}
  BY <1>0 DEF Shape
<1>4. w.inBuf = inBuf /\ w.inDataSize_Start = 0 /\ w.inDataSize = d
  BY <1>0, <1>2, <1>3
<1>5. threads'[f] = w
  BY <1>1, <1>2, <1>3
<1>6. StGets(st', SubSeq(inBuf[1], 1, lim), lim, st.tMode)
  BY <1>0, <1>1, StGiven
<1> QED  BY <1>1, <1>2, <1>4, <1>5, <1>6 DEF TakenLink

LEMMA FilledGoes ==
    ASSUME NEW p, NEW z, StState(p, z), FetchFilled
    PROVE  ReadInv' /\ StInv'
<1>1. /\ StOut(p) /\ StData(p, 0, z) /\ StDec(p, 0) /\ p \in Where /\ z \in Where /\ p \in Nat /\ z \in Nat
      /\ NeedContinue /\ Agrees /\ CallInv /\ ReadInv /\ Shape /\ main = "fetch"
  BY CallIs DEF StState, StAt, Where
<1>2. /\ st.tMode /\ numFilledThreads # 0 /\ SameCall /\ out' = out
      /\ UNCHANGED readVars /\ UNCHANGED switchVars /\ numStartedThreads' = numStartedThreads
  BY DEF FetchFilled, callVars, SameCall, startVars
<1>3. PICK f \in Threads : f = filledThreadStart
  BY <1>1, <1>2 DEF StData, RestOf
<1>4. PICK inBuf, start, size : inBuf = threads[f].inBuf /\ start = threads[f].inDataSize_Start
                                /\ size = threads[f].inDataSize
  OBVIOUS
<1>5. /\ numFilledThreads = 1 /\ f < numStartedThreads /\ p + 0 <= z /\ z = p + 0 + size
      /\ st.inLim = 0 => Linked(inBuf, start, size, p + 0) /\ size > 0
      /\ st.inLim # 0 => LinksHold(inBuf, 0, size, p + 0) /\ start = 0 /\ inBuf # <<>>
      /\ DOMAIN st = DOMAIN NoSt /\ st.data = Place(p, 0)
  BY <1>1, <1>2, <1>3, <1>4 DEF StData, RestOf, StOut
<1>6. p + 0 = p
  BY <1>1
<1>7. PICK th : th = Filled(f, st.inLim)
  OBVIOUS
<1>8. st.inLim = 0 => th = threads[f]
  BY <1>7, Zenon DEF Filled
<1>9. st.inLim # 0 => th = [threads[f] EXCEPT !.inBuf = Tail(threads[f].inBuf)]
  BY <1>7 DEF Filled
<1>10. DOMAIN threads[f] = {"canRead", "canWrite", "inBuf", "inDataSize_Start", "inDataSize"}
       /\ DOMAIN threads = Threads
  BY <1>1 DEF Shape
<1>11. /\ DOMAIN th = DOMAIN threads[f] /\ th.inDataSize = size /\ th.inDataSize_Start = start
       /\ th.inBuf = IF st.inLim = 0 THEN inBuf ELSE Tail(inBuf)
  BY <1>4, <1>8, <1>9, <1>10
<1>12. CASE st.inLim = 0 \/ size # 0
  <2>1. TakeFrom(f, th) /\ UNCHANGED filledVars
    BY <1>3, <1>7, <1>11, <1>12 DEF FetchFilled
  <2>2. PICK buf, lim : buf = th.inBuf /\ lim = IF start # 0 THEN start ELSE Chunk(size)
    OBVIOUS
  <2>3. /\ threads'[f].inBuf = buf /\ threads'[f].inDataSize_Start = 0
        /\ threads'[f].inDataSize = size - lim
        /\ StGets(st', SubSeq(buf[1], 1, lim), lim, st.tMode)
        /\ main' = IF lim = 0 THEN "fetch" ELSE "decode"
    <3>1. Shape /\ DOMAIN th = DOMAIN threads[f] /\ DOMAIN st = DOMAIN NoSt /\ TakeFrom(f, th)
          /\ buf = th.inBuf /\ start = th.inDataSize_Start /\ size = th.inDataSize
          /\ lim = IF start # 0 THEN start ELSE Chunk(size)
      BY <1>1, <1>5, <1>11, <2>1, <2>2, Zenon
    <3>2. TakesLink(f, th, buf, start, size, lim)
      BY <3>1, Zenon DEF TakesLink
    <3>3. TakenLink(f, buf, size, lim)
      BY <3>1, <3>2, TakenIs, Zenon
    <3> QED  BY <3>3, Zenon DEF TakenLink
  <2>4. /\ size \in Nat /\ lim \in Nat /\ lim > 0 /\ lim <= size
        /\ SubSeq(buf[1], 1, lim) = Place(p, lim)
        /\ LinksHold(buf, 0, size - lim, p + lim) /\ buf # <<>>
    <3>1. CASE st.inLim = 0
      <4>1. Linked(inBuf, start, size, p) /\ size > 0 /\ buf = inBuf
        BY <1>5, <1>6, <1>11, <2>2, <3>1
      <4>2. FirstGiven(inBuf, start, size, p) /\ size \in Nat
        BY <1>1, <4>1, FirstLinkGiven DEF Linked, LinksHold
      <4>3. lim = start
        BY <2>2, <4>2 DEF FirstGiven
      <4> QED  BY <4>1, <4>2, <4>3 DEF FirstGiven
    <3>2. CASE st.inLim # 0
      <4>1. LinksHold(inBuf, 0, size, p) /\ start = 0 /\ buf = Tail(inBuf) /\ size # 0
        BY <1>5, <1>6, <1>11, <1>12, <2>2, <3>2
      <4>2. size \in Nat /\ size > 0
        <5>1. size \in Nat
          BY <4>1, LinksHave
        <5> QED  BY <4>1, <5>1
      <4>3. lim = Chunk(size)
        BY <2>2, <4>1
      <4>4. NextGiven(inBuf, size, lim, p)
        BY <1>1, <4>1, <4>2, <4>3, NextLinkGiven
      <4> QED  BY <4>1, <4>2, <4>4 DEF NextGiven
    <3> QED  BY <3>1, <3>2
  <2>5. PICK left \in Nat : left = size - lim
    BY <2>4
  <2>6. z = p + lim + left /\ main' = "decode"
    BY <1>1, <1>5, <2>3, <2>4, <2>5
  <2>8. StKept(Place(p, lim), lim, st.tMode)
    BY <1>2, <2>3, <2>4 DEF StKept
  <2>9. numFilledThreads' = 1 /\ filledThreadStart' = f /\ f < numStartedThreads'
    BY <1>2, <1>3, <1>5, <2>1 DEF filledVars
  <2>10. FilledGiven(f, p, z, lim, left)
    BY <1>2, <2>3, <2>4, <2>5, <2>6, <2>8, <2>9 DEF FilledGiven
  <2> QED  BY <1>5, <2>10, GivenGoes
<1>13. CASE ~ (st.inLim = 0 \/ size # 0)
  <2>1. /\ numFilledThreads' = 0 /\ UNCHANGED st /\ UNCHANGED main
    BY <1>3, <1>5, <1>7, <1>11, <1>13 DEF FetchFilled
  <2>2. StKept(Place(p, 0), st.inLim, st.tMode)
    BY <1>2, <1>5, <2>1 DEF StKept, StGets
  <2>3. ReadInv' /\ NeedContinue' /\ Agrees' /\ Where' = Where
    BY <1>1, <1>2, ReadInvStays, GoesOnNeeding, CallStays
  <2>4. StOut(p)'
    BY <1>1, <2>2, StOutStays
  <2>5. StDec(p, 0)'
    <3>1. LikeDec(stream, st.dec, p)
      BY <1>1, <1>5 DEF StDec
    <3> QED  BY <2>2, <3>1, LikeStays DEF StDec
  <2>6. StData(p, 0, z)'
    <3>1. st'.data = Place(p, 0) /\ st'.tMode /\ main' = "fetch"
      BY <1>1, <1>2, <1>5, <2>1
    <3>2. Live(stream, z)' => Contiguous(z)'
      BY <1>1, <1>2, CallStays, ReadStays DEF StData
    <3>3. Place(p, 0)' = Place(p, 0)
      BY DEF Place
    <3>4. p + 0 = z
      BY <1>1, <1>5, <1>13
    <3>5. RestOf(p + 0, z)'
      BY <2>1, <3>4 DEF RestOf
    <3>6. p + 0 <= z
      BY <1>5
    <3> QED  BY <3>1, <3>2, <3>3, <3>5, <3>6 DEF StData
  <2>7. 0 \in Where
    BY <1>1, CallIs DEF Where
  <2> QED  BY <1>1, <2>3, <2>4, <2>5, <2>6, <2>7 DEF StInv, StAt
<1> QED  BY <1>12, <1>13

-----------------------------------------------------------------------------

\* When the links are used up what is next is what crossed over ...
NoLinks(p) ==
    /\ p \in Where /\ p \in Nat /\ Shape /\ CallInv /\ ReadInv /\ NeedContinue /\ Agrees
    /\ StOut(p) /\ StDec(p, 0) /\ numFilledThreads = 0 /\ st.data = Place(p, 0)
    /\ Contiguous(p)

LEMMA LinksUsed ==
    ASSUME NEW p, NEW z, StState(p, z), numFilledThreads = 0
    PROVE  NoLinks(p) /\ (~ st.tMode => crossBlock = <<>>)
<1>1. /\ StOut(p) /\ StData(p, 0, z) /\ StDec(p, 0) /\ p \in Where /\ z \in Where /\ p \in Nat
      /\ NeedContinue /\ Agrees /\ CallInv /\ ReadInv /\ Shape
  BY CallIs DEF StState, StAt, Where
<1>2. p + 0 = p /\ p + 0 = z
  BY <1>1 DEF StData, RestOf
<1>3. st.data = Place(p, 0) /\ (Live(stream, z) => Contiguous(z)) /\ (~ st.tMode => crossBlock = <<>>)
  BY <1>1 DEF StData
<1>4. Live(stream, p)
  BY <1>1 DEF StOut, Room
<1> QED  BY <1>1, <1>2, <1>3, <1>4 DEF NoLinks

\* The n places after p are given out, of what crossed over or of the stream.
PlacesGiven(p, n, mode) ==
    /\ n \in Nat /\ p + n <= Len(stream)
    /\ StKept(Place(p, n), n, mode) /\ main' = "decode" /\ ReadInv'
    /\ numFilledThreads' = 0 /\ crossBlock' = <<>> /\ readProcessed' = p + n
    /\ n = 0 => readWasFinished'
    /\ NothingLeft => n = 0

LEMMA PlacesGo ==
    ASSUME NEW p, NoLinks(p), NEW n, NEW mode, PlacesGiven(p, n, mode)
    PROVE  StInv'
<1>1. /\ p \in Where /\ p \in Nat /\ CallInv /\ NeedContinue /\ Agrees
      /\ StOut(p) /\ StDec(p, 0) /\ numFilledThreads = 0
      /\ n \in Nat /\ p + n <= Len(stream)
      /\ StKept(Place(p, n), n, mode) /\ main' = "decode"
      /\ numFilledThreads' = 0 /\ crossBlock' = <<>> /\ readProcessed' = p + n
      /\ n = 0 => readWasFinished'
      /\ NothingLeft => n = 0
  BY DEF NoLinks, PlacesGiven
<1>2. SameCall /\ out' = out /\ UNCHANGED switchVars /\ StGets(st', Place(p, n), n, mode)
  BY <1>1 DEF StKept
<1>3. NeedContinue' /\ Agrees' /\ Where' = Where /\ StOut(p)'
  BY <1>1, <1>2, GoesOnNeeding, CallStays, StOutStays
<1>4. Len(stream) \in Nat
  BY <1>1, CallIs
<1>5. n \in Where /\ p + n \in Where
  BY <1>1, <1>4 DEF Where
<1>6. StDec(p, n)'
  <2>1. CASE LikeDec(stream, st.dec, p)
    BY <1>1, <2>1, LikeStays DEF StDec
  <2>2. CASE st.dec = NewDecoder /\ NothingLeft
    <3>1. n = 0 /\ readWasFinished'
      BY <1>1, <2>2
    <3>2. NothingLeft'
      BY <1>1, <3>1 DEF NothingLeft
    <3>3. st'.dec = NewDecoder
      BY <1>2, <2>2 DEF StGets
    <3> QED  BY <1>1, <3>1, <3>2, <3>3 DEF StDec
  <2> QED  BY <1>1, <2>1, <2>2 DEF StDec
<1>7. StData(p, n, p + n)'
  <2>1. st'.data = Place(p, n) /\ Place(p, n)' = Place(p, n)
    BY <1>2 DEF StGets, Place
  <2>2. RestOf(p + n, p + n)'
    BY <1>1 DEF RestOf
  <2>3. Contiguous(p + n)'
    <3>1. PICK y \in Nat : y = p + n
      BY <1>1
    <3>2. Contiguous(y)'
      BY <1>1, <3>1, NothingAfter
    <3> QED  BY <3>1, <3>2
  <2>4. n = 0 => NothingLeft'
    BY <1>1 DEF NothingLeft
  <2>5. p + n <= p + n
    BY <1>1
  <2> QED  BY <1>1, <2>1, <2>2, <2>3, <2>4, <2>5 DEF StData
<1>8. \E p2, n2, z2 \in Where' : StAt(p2, n2, z2)'
  <2>1. PICK y \in Where : y = p + n
    BY <1>5
  <2>2. StAt(p, n, y)'
    BY <1>3, <1>6, <1>7, <2>1 DEF StAt
  <2>3. p \in Where' /\ n \in Where' /\ y \in Where'
    BY <1>1, <1>3, <1>5, <2>1
  <2> QED  BY <2>2, <2>3
<1> QED  BY <1>3, <1>8 DEF StInv

LEMMA CrossGoes ==
    ASSUME NEW p, NEW z, StState(p, z), FetchCross
    PROVE  ReadInv' /\ StInv'
<1>1. NoLinks(p) /\ Shape /\ CallInv /\ ReadInv /\ p \in Nat
  BY LinksUsed DEF FetchCross, NoLinks, StState
<1>2. PICK n \in 0..readProcessed : crossBlock = Place(p, n) /\ p + n = readProcessed
  BY <1>1 DEF NoLinks, Contiguous
<1>3. n \in Nat /\ p + n <= Len(stream) /\ readProcessed \in Nat
  BY <1>1, <1>2, ToReadIs
<1>4. PICK k : k = Len(crossBlock)
  OBVIOUS
<1>5. k = n /\ n # 0
  <2>1. k = n
    BY <1>1, <1>2, <1>3, <1>4, PlaceIs
  <2>2. ASSUME n = 0 PROVE FALSE
    BY <1>2, <2>2, NoPlace DEF FetchCross
  <2> QED  BY <2>1, <2>2
<1>6. /\ SameCall /\ out' = out /\ UNCHANGED switchVars
      /\ st' = [st EXCEPT !.data = crossBlock, !.inLim = k]
      /\ readProcessed' = readProcessed /\ readWasFinished' = readWasFinished /\ readRes' = readRes
      /\ crossBlock' = <<>> /\ main' = "decode" /\ numFilledThreads' = 0
  BY <1>4 DEF FetchCross, callVars, SameCall, filledVars
<1>7. StGets(st', crossBlock, k, st.tMode)
  <2>1. DOMAIN st = DOMAIN NoSt
    BY <1>1 DEF NoLinks, StOut
  <2> QED  BY <1>6, <2>1, StGiven
<1>8. ReadInv'
  <2>1. Where' = Where
    BY <1>6, CallStays
  <2> QED  BY <1>1, <1>6, <2>1 DEF ReadInv, SameCall
<1>9. StKept(Place(p, n), n, st.tMode)
  BY <1>2, <1>5, <1>6, <1>7 DEF StKept
<1>10. ~ NothingLeft
  BY DEF FetchCross, NothingLeft
<1>11. PlacesGiven(p, n, st.tMode)
  BY <1>2, <1>3, <1>5, <1>6, <1>8, <1>9, <1>10 DEF PlacesGiven
<1> QED  BY <1>1, <1>8, <1>11, PlacesGo

\* ... and then the stream.
StreamGives(n, res) ==
    IF readWasFinished
    THEN /\ st' = [st EXCEPT !.tMode = FALSE, !.data = <<>>, !.inLim = 0]
         /\ UNCHANGED <<readProcessed, readRes, readWasFinished>> /\ n = 0
    ELSE /\ st' = [st EXCEPT !.tMode = FALSE, !.data = Place(readProcessed, n), !.inLim = n]
         /\ readProcessed' = readProcessed + n
         /\ readRes' = res
         /\ readWasFinished' = (readWasFinished \/ n = 0 \/ res # OK)
ToReadNow ==
    LET rem == Len(stream) - readProcessed
    IN  IF rem < InBufSize_ST THEN rem ELSE InBufSize_ST

LEMMA StreamGivesIs ==
    ASSUME FetchStream
    PROVE  \E n, res : /\ StreamGives(n, res) /\ res \in {OK, "READ"}
                       /\ ~ readWasFinished /\ res = OK => n = ToReadNow
                       /\ res # OK => n = 0
<1>1. CASE readWasFinished
  <2>1. StreamGives(0, "READ")
    BY <1>1 DEF FetchStream, StreamGives
  <2>2. "READ" # OK
    BY DEF OK
  <2> QED  BY <1>1, <2>1, <2>2
<1>2. CASE ~ readWasFinished
  <2>1. PICK n : n = ToReadNow
    OBVIOUS
  <2>2. StreamGives(n, OK) \/ StreamGives(0, "READ")
    BY <1>2, <2>1, Zenon DEF FetchStream, StreamGives, ToReadNow
  <2>3. "READ" # OK
    BY DEF OK
  <2> QED  BY <2>1, <2>2, <2>3
<1> QED  BY <1>1, <1>2

LEMMA StreamGoes ==
    ASSUME NEW p, NEW z, StState(p, z), FetchStream
    PROVE  ReadInv' /\ StInv'
<1>1. numFilledThreads = 0 /\ (st.tMode => crossBlock = <<>>)
  <2>1. StData(p, 0, z)
    BY DEF StState, StAt
  <2> QED  BY <2>1 DEF FetchStream, StData
<1>2. /\ NoLinks(p) /\ Shape /\ CallInv /\ ReadInv /\ p \in Nat /\ p \in Where
      /\ crossBlock = <<>> /\ DOMAIN st = DOMAIN NoSt
  BY <1>1, LinksUsed DEF NoLinks, StState, StOut
<1>3. p = readProcessed
  <2>1. PICK n \in 0..readProcessed : crossBlock = Place(p, n) /\ p + n = readProcessed
    BY <1>2 DEF NoLinks, Contiguous
  <2>2. n = 0
    <3>1. n \in Nat
      BY <1>2, <2>1, ToReadIs
    <3> QED  BY <1>2, <2>1, <3>1, EmptyPlace
  <2> QED  BY <1>2, <2>1, <2>2
<1>4. PICK n, res : /\ StreamGives(n, res) /\ res \in {OK, "READ"}
                    /\ ~ readWasFinished /\ res = OK => n = ToReadNow
                    /\ res # OK => n = 0
  BY StreamGivesIs
<1>5. /\ SameCall /\ out' = out /\ UNCHANGED switchVars
      /\ crossBlock' = <<>> /\ main' = "decode" /\ numFilledThreads' = 0
  BY <1>1, <1>2 DEF FetchStream, callVars, SameCall, filledVars
<1>6. /\ Len(stream) \in Nat /\ p <= Len(stream)
      /\ readWasFinished \in BOOLEAN /\ readRes \in {OK, "READ"}
      /\ readWasFinished /\ readRes = OK => readProcessed = Len(stream)
      /\ Where' = Where /\ stream' = stream
  BY <1>2, <1>5, CallIs, CallStays DEF ReadInv, Where, SameCall
<1>7. /\ ToReadNow \in Nat /\ p + ToReadNow <= Len(stream)
      /\ ToReadNow = 0 => p = Len(stream)
  BY <1>2, <1>3, <1>6, Sizes DEF ToReadNow
<1>8. CASE readWasFinished
  <2>1. /\ st' = [st EXCEPT !.tMode = FALSE, !.data = <<>>, !.inLim = 0]
        /\ UNCHANGED <<readProcessed, readRes, readWasFinished>>
    BY <1>4, <1>8 DEF StreamGives
  <2>2. PICK e : e = <<>> /\ e = Place(p, 0)
    BY NoPlace
  <2>3. st' = [st EXCEPT !.tMode = FALSE, !.data = e, !.inLim = 0]
    BY <2>1, <2>2
  <2>4. StGets(st', e, 0, FALSE)
    BY <1>2, <2>3, StGiven
  <2>5. StKept(Place(p, 0), 0, FALSE)
    BY <1>5, <2>2, <2>4 DEF StKept
  <2>6. ReadInv'
    BY <1>2, <1>5, <1>6, <2>1 DEF ReadInv, SameCall
  <2>7. p + 0 = p /\ 0 \in Nat
    BY <1>2
  <2>8. PlacesGiven(p, 0, FALSE)
    BY <1>3, <1>5, <1>6, <1>8, <2>1, <2>5, <2>6, <2>7 DEF PlacesGiven
  <2> QED  BY <1>2, <2>6, <2>8, PlacesGo
<1>9. CASE ~ readWasFinished
  <2>1. /\ st' = [st EXCEPT !.tMode = FALSE, !.data = Place(p, n), !.inLim = n]
        /\ readProcessed' = p + n
        /\ readRes' = res
        /\ readWasFinished' = (readWasFinished \/ n = 0 \/ res # OK)
    BY <1>3, <1>4, <1>9 DEF StreamGives
  <2>2. n \in Nat /\ p + n <= Len(stream) /\ (n = 0 /\ res = OK => p + n = Len(stream))
    <3>1. CASE res = OK
      BY <1>2, <1>4, <1>7, <1>9, <3>1
    <3>2. CASE res # OK
      BY <1>2, <1>4, <1>6, <3>2
    <3> QED  BY <3>1, <3>2
  <2>3. StGets(st', Place(p, n), n, FALSE)
    BY <1>2, <2>1, StGiven
  <2>4. StKept(Place(p, n), n, FALSE)
    BY <1>5, <2>3 DEF StKept
  <2>5. readWasFinished' <=> n = 0 \/ res # OK
    BY <1>9, <2>1
  <2>6. readProcessed' \in Where
    BY <1>2, <1>6, <2>1, <2>2 DEF Where
  <2>7. ReadInv'
    <3>1. readWasFinished' \in BOOLEAN
      BY <2>1
    <3>2. readWasFinished' /\ readRes' = OK => readProcessed' = Len(stream')
      BY <1>6, <2>1, <2>2, <2>5
    <3> QED  BY <1>4, <1>6, <2>1, <2>6, <3>1, <3>2 DEF ReadInv
  <2>8. ~ NothingLeft
    BY <1>9 DEF NothingLeft
  <2>9. PlacesGiven(p, n, FALSE)
    BY <1>5, <2>1, <2>2, <2>4, <2>5, <2>7, <2>8 DEF PlacesGiven
  <2> QED  BY <1>2, <2>7, <2>9, PlacesGo
<1> QED  BY <1>8, <1>9

-----------------------------------------------------------------------------
(* One thread decodes.                                                     *)

StFinished(r) == r.res = OK /\ r.dec.state = "FINISHED"
StStops(r) == r.res # OK \/ NothingComes(r) \/ StFinished(r)
StFlushes(r, size) == StStops(r) \/ Len(r.out) >= size
StSays(r, outProcessed) ==
    CASE r.res # OK -> r.res
      [] r.res = OK /\ StFinished(r) -> IF outProcessed # outSize THEN "DATA" ELSE OK
      [] OTHER -> "INPUT_EOF"

StRuns(room, rem, size, r) ==
    /\ room = OutStep - Len(st.dic) /\ rem = outSize - st.outProcessed
    /\ size = IF room >= rem THEN rem ELSE room
    /\ r = Decode(st.dec, st.data, stream, size, room >= rem)

StSteps(size, r, outProcessed, dic, data, new) ==
    /\ outProcessed = st.outProcessed + Len(r.out) /\ dic = st.dic \o r.out
    /\ data = SubSeq(st.data, r.used + 1, Len(st.data))
    /\ new = IF StFlushes(r, size) THEN <<>> ELSE dic
    /\ st' = [st EXCEPT !.dec = r.dec, !.data = data, !.outProcessed = outProcessed, !.dic = new]
    /\ \/ /\ out' = IF StFlushes(r, size) THEN out \o dic ELSE out
          /\ main' = IF StStops(r) THEN "close" ELSE IF data = <<>> THEN "fetch" ELSE "decode"
          /\ result' = IF StStops(r) THEN StResult(StSays(r, outProcessed)) ELSE result
       \/ /\ out' = out /\ main' = "close" /\ result' = "WRITE"

LEMMA DecodeStIs ==
    ASSUME DecodeSt
    PROVE  /\ main = "decode" /\ SameCall /\ UNCHANGED readVars /\ UNCHANGED switchVars
           /\ UNCHANGED filledVars /\ UNCHANGED <<threads, numStartedThreads>>
           /\ \E room, rem, size, r, outProcessed, dic, data, new :
                 StRuns(room, rem, size, r) /\ StSteps(size, r, outProcessed, dic, data, new)
<1>1. /\ main = "decode" /\ SameCall /\ UNCHANGED readVars /\ UNCHANGED switchVars
      /\ UNCHANGED filledVars /\ UNCHANGED <<threads, numStartedThreads>>
  BY DEF DecodeSt, callVars, SameCall, startVars
<1>2. PICK room, rem : room = OutStep - Len(st.dic) /\ rem = outSize - st.outProcessed
  OBVIOUS
<1>3. PICK size : size = IF room >= rem THEN rem ELSE room
  OBVIOUS
<1>4. PICK r : r = Decode(st.dec, st.data, stream, size, room >= rem)
  OBVIOUS
<1>5. PICK outProcessed, dic, data : outProcessed = st.outProcessed + Len(r.out) /\ dic = st.dic \o r.out
                                     /\ data = SubSeq(st.data, r.used + 1, Len(st.data))
  OBVIOUS
<1>6. PICK new : new = IF StFlushes(r, size) THEN <<>> ELSE dic
  OBVIOUS
<1>7. StRuns(room, rem, size, r)
  BY <1>2, <1>3, <1>4, Zenon DEF StRuns
<1>8. StSteps(size, r, outProcessed, dic, data, new)
  BY <1>2, <1>3, <1>4, <1>5, <1>6, Zenon DEF DecodeSt, StSteps, StFlushes, StStops, StFinished, StSays
<1> QED  BY <1>1, <1>7, <1>8

-----------------------------------------------------------------------------
\* The decoder has the n places after p, and gets to e.
StGoes(p, n, e, limit, finish, room, size, r) ==
    /\ stream \in Seq(Symbols) /\ Len(stream) \in Nat /\ outSize \in Nat
    /\ p \in Nat /\ n \in Nat /\ e \in Nat /\ p <= e /\ e <= p + n /\ e <= Len(stream)
    /\ p + n <= Len(stream)
    /\ room \in Nat /\ room > 0 /\ size \in Nat /\ finish \in BOOLEAN
    /\ limit \in Nat /\ limit = Count(stream, p) + size /\ limit <= outSize
    /\ finish => limit = outSize
    /\ ~ finish => size = room
    /\ size <= room
    /\ r \in DecodeAccs /\ DecodedTo(r, stream, st.dec, p, limit, finish, e, n)

StTo(p, n, z) ==
    /\ CallInv /\ ReadInv /\ p \in Where /\ n \in Where /\ z \in Where /\ main = "decode"
    /\ StAt(p, n, z)

LEMMA StWalk ==
    ASSUME NEW p, NEW n, NEW z, StTo(p, n, z), NEW room, NEW rem, NEW size, NEW r, StRuns(room, rem, size, r)
    PROVE  \E e, limit, finish : StGoes(p, n, e, limit, finish, room, size, r)
<1>1. /\ StOut(p) /\ StData(p, n, z) /\ StDec(p, n) /\ p \in Where /\ z \in Where /\ n \in Where
      /\ CallInv /\ ReadInv
  BY DEF StTo, StAt
<1>2. /\ stream \in Seq(Symbols) /\ Len(stream) \in Nat /\ outSize \in Nat
      /\ p \in Nat /\ n \in Nat /\ z \in Nat /\ p \in 0..Len(stream) /\ z <= Len(stream)
  BY <1>1, CallIs DEF Where
<1>3. p + n <= Len(stream)
  BY <1>1, <1>2 DEF StData
<1>4. PICK C \in Nat : C = Count(stream, p) /\ C <= outSize /\ st.outProcessed = C
  BY <1>1, <1>2, WalkTypes DEF StOut, Room
<1>5. PICK d \in Nat : d = Len(st.dic) /\ d < OutStep
  BY <1>1, LenProperties DEF StOut
<1>6. room = OutStep - d /\ rem = outSize - C /\ size = (IF room >= rem THEN rem ELSE room)
  BY <1>4, <1>5 DEF StRuns
<1>7. room \in Nat /\ room > 0 /\ rem \in Nat /\ size \in Nat /\ size <= room /\ size <= rem
  BY <1>2, <1>4, <1>5, <1>6, Sizes, SMTT(30)
<1>8. PICK finish \in BOOLEAN : finish = (room >= rem) /\ (finish <=> room >= rem)
  <2>1. CASE room >= rem
    <3>1. TRUE = (room >= rem)
      BY <2>1
    <3> QED  BY <2>1, <3>1
  <2>2. CASE ~ (room >= rem)
    <3>1. FALSE = (room >= rem)
      BY <1>7, <2>2
    <3> QED  BY <2>2, <3>1
  <2> QED  BY <2>1, <2>2
<1>9. PICK limit \in Nat : limit = C + size
  BY <1>7
<1>10. limit <= outSize /\ (finish => limit = outSize) /\ (~ finish => size = room)
  BY <1>2, <1>6, <1>7, <1>8, <1>9
<1>11. r = Decode(st.dec, Place(p, n), stream, limit - Count(stream, p), finish)
  <2>1. r = Decode(st.dec, st.data, stream, size, room >= rem)
    BY DEF StRuns
  <2>2. st.data = Place(p, n)
    BY <1>1 DEF StData
  <2>3. size = limit - Count(stream, p)
    BY <1>4, <1>7, <1>9
  <2> QED  BY <1>8, <2>1, <2>2, <2>3
<1>12. PICK places : places = Place(p, n)
  OBVIOUS
<1>13. places \in Seq(Nat) /\ Len(places) = n
  BY <1>2, <1>12, PlaceIs
<1>14. DecodesFrom(stream, p, st.dec, places, limit, finish)
  <2>1. Live(stream, p)
    BY <1>1 DEF StOut, Room
  <2>2. Leads(stream, places, p)
    BY <1>2, <1>3, <1>12, LeadsOn
  <2>3. LikeDec(stream, st.dec, p) \/ (st.dec = NewDecoder /\ n = 0)
    BY <1>1 DEF StDec
  <2>4. st.dec \in Decs
    <3>1. CASE LikeDec(stream, st.dec, p)
      BY <1>2, <3>1, LikeDecIs
    <3>2. CASE st.dec = NewDecoder
      BY <3>2 DEF NewDecoder, Decs, States
    <3> QED  BY <2>3, <3>1, <3>2
  <2>5. Len(places) > 0 => LikeDec(stream, st.dec, p)
    BY <1>2, <1>13, <2>3
  <2>6. limit >= Count(stream, p)
    BY <1>4, <1>7, <1>9
  <2> QED  BY <1>2, <1>13, <2>1, <2>2, <2>4, <2>5, <2>6 DEF DecodesFrom
<1>15. PICK w : w = Decode(st.dec, places, stream, limit - Count(stream, p), finish)
  OBVIOUS
<1>16. r = w
  BY <1>11, <1>12, <1>15
<1>17. w \in DecodeAccs /\ \E q : DecodedTo(w, stream, st.dec, p, limit, finish, q, Len(places))
  BY <1>14, <1>15, DecodeWalk
<1>18. PICK e : DecodedTo(r, stream, st.dec, p, limit, finish, e, n)
  BY <1>13, <1>16, <1>17
<1>19. e \in Nat /\ p <= e /\ e <= Len(stream) /\ e <= p + n
  BY <1>2, <1>18 DEF DecodedTo
<1>20. limit = Count(stream, p) + size
  BY <1>4, <1>9
<1> QED  BY <1>2, <1>3, <1>7, <1>10, <1>16, <1>17, <1>18, <1>19, <1>20 DEF StGoes

-----------------------------------------------------------------------------

LEMMA Associates ==
    ASSUME NEW s \in Seq(Nat), NEW t \in Seq(Nat), NEW u \in Seq(Nat)
    PROVE  s \o (t \o u) = (s \o t) \o u /\ t \o u \in Seq(Nat)
BY SMTT(30)

\* What came out then.
StDone(p, e, r, dic) ==
    /\ Good(stream, outSize, 0, e) /\ e \in Where
    /\ r.out \in Seq(Nat) /\ dic \in Seq(Nat) /\ out \in Seq(Nat)
    /\ Out(stream, e) \in Seq(Nat) /\ out \o dic = Out(stream, e)
    /\ Len(r.out) \in Nat /\ Len(r.out) = Count(stream, e) - Count(stream, p)
    /\ st.outProcessed + Len(r.out) = Count(stream, e) /\ Count(stream, e) \in Nat
    /\ Count(stream, e) <= outSize
    /\ r.res \in {OK, "DATA"}

LEMMA StDoes ==
    ASSUME NEW p, NEW n, NEW z, StTo(p, n, z), NEW e, NEW limit, NEW finish, NEW room, NEW size, NEW r,
           StGoes(p, n, e, limit, finish, room, size, r), NEW dic, dic = st.dic \o r.out
    PROVE  StDone(p, e, r, dic)
<1>1. /\ stream \in Seq(Symbols) /\ Len(stream) \in Nat /\ outSize \in Nat
      /\ p \in Nat /\ e \in Nat /\ p <= e /\ e <= Len(stream) /\ limit \in Nat /\ limit <= outSize
      /\ r \in DecodeAccs /\ DecodedTo(r, stream, st.dec, p, limit, finish, e, n)
  BY DEF StGoes
<1>2. StOut(p)
  BY DEF StTo, StAt
<1>3. p \in 0..Len(stream) /\ e \in 0..Len(stream) /\ e \in p..Len(stream) /\ 0 \in 0..Len(stream) /\ p \in 0..e
  BY <1>1
<1>4. /\ Comes(stream, r.out, p, e) /\ AllAccepted(stream, p, e, limit, finish) /\ Count(stream, e) <= limit
  BY <1>1 DEF DecodedTo
<1>5. Good(stream, outSize, p, e)
  BY <1>1, <1>3, <1>4, GoodOf
<1>6. Good(stream, outSize, 0, p)
  BY <1>2 DEF StOut
<1>7. Good(stream, outSize, 0, e)
  BY <1>1, <1>5, <1>6, GoodJoins
<1>8. /\ Out(stream, e) \in Seq(Nat) /\ Count(stream, e) \in Nat
      /\ Count(stream, p) \in Nat
  BY <1>1, <1>3, WalkTypes
<1>9. r.out \in Seq(Nat) /\ Len(r.out) = Count(stream, e) - Count(stream, p) /\ Len(r.out) \in Nat
  BY <1>4, LenProperties DEF Comes
<1>10. Out(stream, p) \o r.out = Out(stream, e)
  BY <1>1, <1>3, <1>4, OutJoins
<1>11. out \in Seq(Nat) /\ st.dic \in Seq(Nat) /\ out \o st.dic = Out(stream, p)
       /\ st.outProcessed = Count(stream, p)
  BY <1>2 DEF StOut
<1>12. dic \in Seq(Nat) /\ out \o dic = Out(stream, e)
  <2>1. PICK o \in Seq(Nat), d \in Seq(Nat), u \in Seq(Nat) : o = out /\ d = st.dic /\ u = r.out
    BY <1>9, <1>11
  <2>2. dic = d \o u
    BY <2>1
  <2>3. o \o (d \o u) = (o \o d) \o u /\ d \o u \in Seq(Nat)
    BY Associates
  <2>4. (o \o d) \o u = Out(stream, e)
    BY <1>10, <1>11, <2>1
  <2> QED  BY <2>1, <2>2, <2>3, <2>4
<1>13. r.res \in {OK, "DATA"}
  BY <1>1 DEF DecodeAccs, OK
<1>14. Count(stream, e) <= outSize
  BY <1>1, <1>4, <1>8
<1>15. st.outProcessed + Len(r.out) = Count(stream, e)
  BY <1>8, <1>9, <1>11
<1> QED  BY <1>1, <1>3, <1>7, <1>8, <1>9, <1>11, <1>12, <1>13, <1>14, <1>15 DEF StDone, Where

\* An error of the decoder is one of the stream.
LEMMA StRefuses ==
    ASSUME NEW p, NEW n, NEW z, StTo(p, n, z), NEW e, NEW limit, NEW finish, NEW room, NEW size, NEW r,
           StGoes(p, n, e, limit, finish, room, size, r), r.res # OK
    PROVE  r.res = "DATA" /\ ~ Sound
<1>1. /\ stream \in Seq(Symbols) /\ Len(stream) \in Nat /\ outSize \in Nat
      /\ e \in Nat /\ e <= Len(stream) /\ limit \in Nat /\ limit <= outSize /\ finish \in BOOLEAN
      /\ finish => limit = outSize
      /\ r \in DecodeAccs /\ DecodedTo(r, stream, st.dec, p, limit, finish, e, n)
  BY DEF StGoes
<1>2. PICK dic : dic = st.dic \o r.out
  OBVIOUS
<1>3. StDone(p, e, r, dic)
  BY <1>2, StDoes
<1>4. Good(stream, outSize, 0, e) /\ r.res = "DATA" /\ e \in Where /\ Count(stream, e) \in Nat
  BY <1>3 DEF StDone
<1>5. /\ e < Len(stream) /\ Live(stream, e) /\ ~ Accepted(stream, e + 1, limit, finish)
      /\ finish \/ Count(stream, e) < limit
  BY <1>1, <1>4 DEF DecodedTo
<1>6. ~ Accepted(stream, e + 1, outSize, TRUE)
  <2>1. CASE finish
    <3>1. limit = outSize /\ finish = TRUE
      BY <1>1, <2>1
    <3> QED  BY <1>5, <3>1
  <2>2. CASE ~ finish
    <3>1. Count(stream, e) < limit /\ Count(stream, e) < outSize
      BY <1>1, <1>4, <1>5, <2>2
    <3>2. PICK j, y : j = e + 1 /\ y = j - 1 /\ y = e
      BY <1>1
    <3>3. ~ Accepted(stream, j, limit, finish)
      BY <1>5, <3>2
    <3>4. Count(stream, j - 1) < limit /\ Count(stream, j - 1) < outSize
      BY <3>1, <3>2
    <3>5. ~ Accepted(stream, j, outSize, TRUE)
      BY <3>3, <3>4, Zenon DEF Accepted
    <3> QED  BY <3>2, <3>5
  <2> QED  BY <2>1, <2>2
<1>7. Refused(stream, outSize, e)
  BY <1>5, <1>6 DEF Refused
<1>8. CallInv
  BY DEF StTo
<1> QED  BY <1>4, <1>7, <1>8, HeldHas

\* what is known of the decoder when it gave no error
StWell(p, n, e, limit, finish, r) ==
    /\ r.used = e - p
    /\ r.dec = IF e = p THEN st.dec ELSE Dec(stream, e)
    /\ e = p + n \/ r.dec.state = "FINISHED" \/ (Count(stream, e) = limit /\ ~ finish)
    /\ e = p => r.dec.state # "FINISHED"
    /\ e # p => r.dec.state = State(stream, e)

LEMMA StWellIs ==
    ASSUME NEW p, NEW n, NEW z, StTo(p, n, z), NEW e, NEW limit, NEW finish, NEW room, NEW size, NEW r,
           StGoes(p, n, e, limit, finish, room, size, r), r.res = OK
    PROVE  StWell(p, n, e, limit, finish, r)
<1>1. /\ stream \in Seq(Symbols) /\ Len(stream) \in Nat
      /\ p \in Nat /\ e \in Nat /\ e <= Len(stream) /\ p <= e
      /\ DecodedTo(r, stream, st.dec, p, limit, finish, e, n)
  BY DEF StGoes
<1>2. /\ r.used = e - p
      /\ r.dec = IF e = p THEN st.dec ELSE Dec(stream, e)
      /\ e = p + n \/ r.dec.state = "FINISHED" \/ (Count(stream, e) = limit /\ ~ finish)
  BY <1>1 DEF DecodedTo, OK
<1>3. e \in 0..Len(stream) /\ p \in 0..Len(stream)
  BY <1>1
<1>4. Dec(stream, e).state = State(stream, e)
  BY <1>1, <1>3, WalkTypes
<1>5. st.dec.state # "FINISHED"
  <2>1. StOut(p) /\ StDec(p, n)
    BY DEF StTo, StAt
  <2>2. CASE LikeDec(stream, st.dec, p)
    <3>1. st.dec.state = State(stream, p)
      BY <1>1, <1>3, <2>2, LikeDecIs
    <3> QED  BY <2>1, <3>1 DEF StOut, Room, Live
  <2>3. CASE st.dec = NewDecoder
    BY <2>3 DEF NewDecoder
  <2> QED  BY <2>1, <2>2, <2>3 DEF StDec
<1> QED  BY <1>2, <1>4, <1>5 DEF StWell

\* It came to the end ...
LEMMA StEnds ==
    ASSUME NEW p, NEW n, NEW z, StTo(p, n, z), NEW e, NEW limit, NEW finish, NEW room, NEW size, NEW r,
           StGoes(p, n, e, limit, finish, room, size, r), StFinished(r)
    PROVE  held.out = Out(stream, e)
<1>1. r.res = OK /\ r.dec.state = "FINISHED"
  BY DEF StFinished
<1>2. StWell(p, n, e, limit, finish, r)
  BY <1>1, StWellIs
<1>3. State(stream, e) = "FINISHED"
  BY <1>1, <1>2 DEF StWell
<1>4. PICK dic : dic = st.dic \o r.out
  OBVIOUS
<1>5. StDone(p, e, r, dic)
  BY <1>4, StDoes
<1>6. Good(stream, outSize, 0, e) /\ e \in Where
  BY <1>5 DEF StDone
<1>7. CallInv
  BY DEF StTo
<1> QED  BY <1>3, <1>6, <1>7, HeldHas

\* ... or gets nothing, although it needs more ...
LEMMA StStarves ==
    ASSUME NEW p, NEW n, NEW z, StTo(p, n, z), NEW e, NEW limit, NEW finish, NEW room, NEW size, NEW r,
           StGoes(p, n, e, limit, finish, room, size, r),
           r.res = OK, ~ StFinished(r), NothingComes(r), readRes = OK
    PROVE  ~ Sound
<1>1. StWell(p, n, e, limit, finish, r)
  BY StWellIs
<1>2. /\ stream \in Seq(Symbols) /\ Len(stream) \in Nat /\ p \in Nat /\ e \in Nat /\ n \in Nat
      /\ p <= e /\ e <= Len(stream) /\ limit = Count(stream, p) + size
      /\ ~ finish => size = room
      /\ room \in Nat /\ room > 0 /\ size \in Nat
  BY DEF StGoes
<1>3. e = p
  BY <1>1, <1>2 DEF StWell, NothingComes
<1>4. Count(stream, p) \in Nat
  BY <1>2, WalkTypes
<1>5. n = 0
  <2>1. ~ (Count(stream, p) = limit /\ ~ finish)
    BY <1>2, <1>4
  <2>2. r.dec.state # "FINISHED"
    BY <1>3, <1>1 DEF StWell
  <2>3. e = p + n
    BY <1>1, <1>3, <2>1, <2>2 DEF StWell
  <2> QED  BY <1>2, <1>3, <2>3
<1>6. /\ StOut(p) /\ StData(p, n, z) /\ main = "decode" /\ CallInv /\ ReadInv
      /\ p \in Where /\ z \in Where
  BY DEF StTo, StAt
<1>7. numFilledThreads = 0 /\ NothingLeft /\ p + n = z /\ Contiguous(z)
  <2>1. numFilledThreads = 0 /\ NothingLeft
    BY <1>5, <1>6 DEF StData
  <2>2. p + n = z
    BY <1>6, <2>1 DEF StData, RestOf
  <2>3. p = z
    BY <1>2, <1>5, <2>2
  <2>4. Live(stream, z)
    BY <1>6, <2>3 DEF StOut, Room
  <2> QED  BY <1>6, <2>1, <2>2, <2>4 DEF StData
<1>8. p = z
  BY <1>2, <1>5, <1>7
<1>9. PICK k \in 0..readProcessed : crossBlock = Place(z, k) /\ z + k = readProcessed
  BY <1>7 DEF Contiguous
<1>10. k = 0
  <2>1. k \in Nat
    BY <1>6, <1>9, ToReadIs
  <2> QED  BY <1>2, <1>7, <1>8, <1>9, <2>1, EmptyPlace DEF NothingLeft
<1>11. p = Len(stream)
  <2>1. readProcessed = Len(stream)
    BY <1>6, <1>7 DEF ReadInv, NothingLeft
  <2> QED  BY <1>2, <1>8, <1>9, <1>10, <2>1
<1>12. Live(stream, p) /\ Good(stream, outSize, 0, p)
  BY <1>6 DEF StOut, Room
<1> QED  BY <1>6, <1>11, <1>12, HeldHas

\* ... or may go on.
LEMMA StGoesOn ==
    ASSUME NEW p, NEW n, NEW z, StTo(p, n, z), NEW e, NEW limit, NEW finish, NEW room, NEW size, NEW r,
           StGoes(p, n, e, limit, finish, room, size, r), ~ StStops(r)
    PROVE  /\ r.res = OK /\ e > p /\ r.used = e - p /\ Room(e) /\ r.dec = Dec(stream, e)
<1>1. r.res = OK /\ ~ NothingComes(r) /\ r.dec.state # "FINISHED"
  BY DEF StStops, StFinished
<1>2. StWell(p, n, e, limit, finish, r)
  BY <1>1, StWellIs
<1>3. /\ stream \in Seq(Symbols) /\ Len(stream) \in Nat /\ p \in Nat /\ e \in Nat /\ n \in Nat
      /\ p <= e /\ e <= Len(stream) /\ outSize \in Nat /\ limit \in Nat /\ limit <= outSize
      /\ DecodedTo(r, stream, st.dec, p, limit, finish, e, n)
  BY DEF StGoes
<1>4. e # p /\ e > p
  BY <1>1, <1>2, <1>3 DEF StWell, NothingComes
<1>5. State(stream, e) # "FINISHED" /\ r.dec = Dec(stream, e) /\ r.used = e - p
  BY <1>1, <1>2, <1>4 DEF StWell
<1>6. AllAccepted(stream, p, e, limit, finish) /\ Count(stream, e) <= limit
  BY <1>3 DEF DecodedTo
<1>7. p \in 0..Len(stream) /\ e \in p..Len(stream) /\ e \in 0..Len(stream) /\ e \in 1..Len(stream)
      /\ e - 1 \in 0..Len(stream) /\ e \in (p + 1)..e
  BY <1>3, <1>4
<1>8. State(stream, e) # "ERROR"
  BY <1>3, <1>4, <1>6, <1>7, AcceptedLive
<1>9. Live(stream, e)
  BY <1>3, <1>5, <1>7, <1>8, WalkTypes DEF Live, States
<1>10. Count(stream, e) \in Nat /\ Count(stream, e - 1) \in Nat
  BY <1>3, <1>7, WalkTypes
<1>11. ASSUME State(stream, e) = "DATA" PROVE Count(stream, e) < outSize
  <2>1. Accepted(stream, e, limit, finish)
    BY <1>6, <1>7 DEF AllAccepted
  <2>2. State(stream, e - 1) # "DATA" /\ Count(stream, e) = Count(stream, e - 1)
    BY <1>3, <1>7, <1>11, WalkStep
  <2>3. Live(stream, e - 1)
    BY <2>1 DEF Accepted
  <2>4. State(stream, e - 1) = "CONTROL"
    BY <2>2, <2>3 DEF Live
  <2>5. Count(stream, e - 1) < limit
    BY <1>11, <2>1, <2>4 DEF Accepted
  <2> QED  BY <1>3, <1>10, <2>2, <2>5
<1>12. Count(stream, e) <= outSize
  BY <1>3, <1>6, <1>10
<1> QED  BY <1>1, <1>4, <1>5, <1>9, <1>11, <1>12 DEF Room

-----------------------------------------------------------------------------

LEMMA JoinGrows ==
    ASSUME NEW s \in Seq(Nat), NEW t \in Seq(Nat)
    PROVE  IsPrefix(s, s \o t) /\ IsPrefix(s, s)
<1>1. PICK m, n, x : m \in Nat /\ n \in Nat /\ m = Len(s) /\ n = Len(t) /\ x = s \o t
  BY LenProperties
<1>2. Joined(x, s, t, m, n)
  BY <1>1, JoinIs
<1>3. x \in Seq(Nat) /\ Len(x) = m + n /\ \A i \in 1..m : x[i] = s[i]
  BY <1>2 DEF Joined
<1>4. IsPrefix(s, x)
  <2>1. PICK y \in Seq(Nat) : y = x
    BY <1>3
  <2>2. Len(s) <= Len(y) /\ \A i \in 1..Len(s) : s[i] = y[i]
    BY <1>1, <1>3, <2>1
  <2>3. IsPrefix(s, y)
    BY <2>2, PrefixIs
  <2> QED  BY <2>1, <2>3
<1>5. IsPrefix(s, s)
  BY <1>1, PrefixIs
<1> QED  BY <1>1, <1>4, <1>5

\* what is said of the stream when it ends
Judges ==
    result' \notin {"READ", "WRITE", "MEM"} /\ Sound => result' = OK /\ out' = held.out

\* What a turn of the one thread changes.
StTurned ==
    /\ SameCall /\ UNCHANGED readVars /\ UNCHANGED switchVars
    /\ UNCHANGED filledVars /\ UNCHANGED <<threads, numStartedThreads>>

LEMMA StStopped ==
    ASSUME NEW p, NEW n, NEW z, StTo(p, n, z), NEW e, NEW limit, NEW finish, NEW room, NEW size, NEW r,
           StGoes(p, n, e, limit, finish, room, size, r), StStops(r),
           NEW outProcessed, outProcessed = Count(stream, e),
           out' = Out(stream, e), result' = StResult(StSays(r, outProcessed))
    PROVE  Judges
<1>1. r.res \in {OK, "DATA"}
  BY StRefuses
<1>2. CASE r.res # OK
  BY <1>2, StRefuses DEF Judges
<1>3. CASE StFinished(r)
  <2>1. held.out = Out(stream, e) /\ r.res = OK
    BY <1>3, StEnds DEF StFinished
  <2>2. out' = held.out
    BY <2>1
  <2>3. Sound => outProcessed = outSize
    BY <2>1 DEF Sound, Count
  <2>4. StSays(r, outProcessed) = IF outProcessed # outSize THEN "DATA" ELSE OK
    BY <1>3, <2>1 DEF StSays
  <2>5. Sound => StSays(r, outProcessed) = OK
    BY <2>3, <2>4
  <2>6. readRes \in {OK, "READ"}
    BY DEF StTo, ReadInv
  <2> QED  BY <2>2, <2>5, <2>6 DEF Judges, StResult
<1>4. CASE r.res = OK /\ ~ StFinished(r)
  <2>1. NothingComes(r)
    BY <1>4 DEF StStops
  <2>2. StSays(r, outProcessed) = "INPUT_EOF"
    BY <1>4 DEF StSays
  <2>3. CASE readRes = OK
    BY <1>4, <2>1, <2>3, StStarves DEF Judges
  <2>4. CASE readRes # OK
    <3>1. readRes = "READ"
      BY <2>4 DEF StTo, ReadInv
    <3> QED  BY <2>2, <2>4, <3>1 DEF StResult, Judges
  <2> QED  BY <2>3, <2>4
<1> QED  BY <1>2, <1>3, <1>4

\* what is left of some places when some are taken
LEMMA RestGiven ==
    ASSUME NEW p \in Nat, NEW n \in Nat, NEW k \in Nat, k <= n
    PROVE  SubSeq(Place(p, n), k + 1, n) = Place(p + k, n - k)
BY PlaceParts

LEMMA StContinued ==
    ASSUME NEW p, NEW n, NEW z, StTo(p, n, z), NEW e, NEW limit, NEW finish, NEW room, NEW size, NEW r,
           StGoes(p, n, e, limit, finish, room, size, r), ~ StStops(r), StTurned,
           NEW dic, dic = st.dic \o r.out,
           NEW data, data = SubSeq(st.data, r.used + 1, Len(st.data)),
           NEW outProcessed, outProcessed = Count(stream, e), NEW new,
           DOMAIN st' = DOMAIN st, st'.dec = r.dec, st'.data = data, st'.outProcessed = outProcessed,
           st'.dic = new, st'.tMode = st.tMode, st'.inLim = st.inLim,
           out' \in Seq(Nat), new \in Seq(Nat), out' \o new = Out(stream, e), Len(new) < OutStep,
           main' = IF data = <<>> THEN "fetch" ELSE "decode"
    PROVE  \E m \in Nat : m <= n /\ StAt(e, m, z)'
<1>1. r.res = OK /\ e > p /\ r.used = e - p /\ Room(e) /\ r.dec = Dec(stream, e)
  BY StGoesOn
<1>2. /\ stream \in Seq(Symbols) /\ Len(stream) \in Nat /\ p \in Nat /\ e \in Nat /\ n \in Nat
      /\ e <= p + n /\ e <= Len(stream)
  BY DEF StGoes
<1>3. /\ StOut(p) /\ StData(p, n, z) /\ z \in Where /\ z \in Nat /\ CallInv
  BY <1>2 DEF StTo, StAt, Where
<1>4. SameCall /\ UNCHANGED readVars
  BY DEF StTurned
<1>5. Good(stream, outSize, 0, e)
  BY StDoes DEF StDone
<1>6. PICK m \in Nat, k \in Nat : k = e - p /\ m = n - k /\ e + m = p + n /\ k + m = n /\ k <= n
  BY <1>1, <1>2
<1>7. data = Place(e, m)
  <2>1. PICK w : w = Place(p, n)
    OBVIOUS
  <2>2. st.data = w /\ Len(w) = n
    BY <1>2, <1>3, <2>1, PlaceIs DEF StData
  <2>3. SubSeq(Place(p, n), k + 1, n) = Place(p + k, n - k)
    <3>1. p \in Nat /\ n \in Nat /\ k \in Nat /\ k <= n
      BY <1>2, <1>6
    <3> QED  BY <3>1, RestGiven, Zenon
  <2>4. data = SubSeq(w, k + 1, n)
    BY <1>1, <1>6, <2>2
  <2>5. p + k = e /\ n - k = m
    BY <1>2, <1>6
  <2> QED  BY <2>1, <2>3, <2>4, <2>5
<1>8. (data = <<>>) => m = 0
  BY <1>2, <1>7, EmptyPlace
<1>9. m = 0 => data = <<>>
  BY <1>7, NoPlace
<1>10. StOut(e)'
  <2>1. Room(e)'
    BY <1>1, <1>4, CallStays
  <2>2. Good(stream, outSize, 0, e)'
    BY <1>4, <1>5 DEF SameCall, Good, AllAccepted, Accepted, Live, State, Count, Out, Walk
  <2>3. Out(stream, e)' = Out(stream, e) /\ Count(stream, e)' = Count(stream, e)
    BY <1>4 DEF SameCall, Count, Out, Walk
  <2>4. DOMAIN st' = DOMAIN NoSt' /\ DOMAIN st' = DOMAIN NoSt
    BY <1>3 DEF StOut, NoSt
  <2> QED  BY <2>1, <2>2, <2>3, <2>4 DEF StOut
<1>11. RestOf(e + m, z)'
  <2>1. PICK y \in Nat : y = p + n /\ y = e + m
    BY <1>2, <1>6
  <2>2. RestOf(y, z)
    BY <1>3, <2>1 DEF StData
  <2>3. /\ numFilledThreads' = numFilledThreads /\ filledThreadStart' = filledThreadStart
        /\ threads' = threads /\ numStartedThreads' = numStartedThreads
    BY DEF StTurned, filledVars
  <2>4. RestOf(y, z)'
    BY <2>2, <2>3 DEF RestOf, Linked, LinksHold
  <2> QED  BY <2>1, <2>4
<1>12. StData(e, m, z)'
  <2>1. st'.data = Place(e, m)'
    BY <1>7 DEF Place
  <2>2. e + m <= z
    BY <1>3, <1>6 DEF StData
  <2>3. main' = "fetch" => m = 0
    BY <1>8
  <2>4. Live(stream, z)' => Contiguous(z)'
    BY <1>3, <1>4, CallStays, ReadStays DEF StData
  <2>5. ~ st'.tMode => numFilledThreads' = 0 /\ crossBlock' = <<>>
    BY <1>3 DEF StData, StTurned, filledVars, readVars
  <2>6. main' = "decode" /\ m = 0 => FALSE
    BY <1>9
  <2> QED  BY <1>11, <2>1, <2>2, <2>3, <2>4, <2>5, <2>6 DEF StData
<1>13. StDec(e, m)'
  <2>1. Dec(stream, e)' = Dec(stream, e)
    BY <1>4 DEF SameCall, Dec, Walk
  <2> QED  BY <1>1, <2>1 DEF StDec, LikeDec
<1>14. m <= n
  BY <1>2, <1>6
<1> QED  BY <1>10, <1>12, <1>13, <1>14 DEF StAt

-----------------------------------------------------------------------------

\* what the fields of it are then
LEMMA StepGives ==
    ASSUME DOMAIN st = DOMAIN NoSt, NEW dec, NEW data, NEW n, NEW new,
           st' = [st EXCEPT !.dec = dec, !.data = data, !.outProcessed = n, !.dic = new]
    PROVE  /\ DOMAIN st' = DOMAIN st /\ st'.dec = dec /\ st'.data = data /\ st'.outProcessed = n
           /\ st'.dic = new /\ st'.tMode = st.tMode /\ st'.inLim = st.inLim
<1>1. DOMAIN st = StNames
  BY StNamesAre
<1> QED  BY <1>1 DEF StNames

\* What is in the window when it is not full yet.
LEMMA WindowKeeps ==
    ASSUME NEW p, NEW n, NEW z, StTo(p, n, z), NEW e, NEW limit, NEW finish, NEW room, NEW rem, NEW size,
           NEW r, StRuns(room, rem, size, r), StGoes(p, n, e, limit, finish, room, size, r),
           NEW dic, dic = st.dic \o r.out, ~ StFlushes(r, size)
    PROVE  Len(dic) < OutStep
<1>1. st.dic \in Seq(Nat) /\ Len(st.dic) < OutStep
  BY DEF StTo, StAt, StOut
<1>2. r.out \in Seq(Nat)
  BY DEF StGoes, DecodeAccs
<1>3. PICK m \in Nat, k \in Nat : m = Len(st.dic) /\ k = Len(r.out)
  BY <1>1, <1>2, LenProperties
<1>4. Joined(dic, st.dic, r.out, m, k)
  BY <1>1, <1>2, <1>3, JoinIs
<1>5. Len(dic) = m + k
  BY <1>4 DEF Joined
<1>6. room = OutStep - m /\ size <= room /\ room \in Nat /\ size \in Nat /\ k < size
  BY <1>3 DEF StRuns, StGoes, StFlushes
<1>7. OutStep \in Nat
  BY Sizes
<1> QED  BY <1>5, <1>6, <1>7

\* What it has done, in the end or not.
StDid ==
    /\ SameCall /\ ReadInv' /\ UNCHANGED switchVars
    /\ NeedContinue' /\ Agrees' /\ IsPrefix(out, out')
    /\ main' \in {"fetch", "decode", "close"}
    /\ main' \in {"fetch", "decode"} => StInv'
    /\ main' = "close" => Judges

LEMMA DecodeGoes ==
    ASSUME CallInv, ReadInv, StInv, DecodeSt
    PROVE  StDid
<1>1. /\ main = "decode" /\ SameCall /\ UNCHANGED readVars /\ UNCHANGED switchVars
      /\ UNCHANGED filledVars /\ UNCHANGED <<threads, numStartedThreads>> /\ StTurned
  BY DecodeStIs DEF StTurned
<1>2. PICK p \in Where, n \in Where, z \in Where : StAt(p, n, z)
  BY DEF StInv
<1>3. StTo(p, n, z)
  BY <1>1, <1>2 DEF StTo
<1>4. PICK room, rem, size, r, outProcessed, dic, data, new :
        StRuns(room, rem, size, r) /\ StSteps(size, r, outProcessed, dic, data, new)
  BY DecodeStIs
<1>5. PICK e, limit, finish : StGoes(p, n, e, limit, finish, room, size, r)
  BY <1>3, <1>4, StWalk
<1>6. /\ dic = st.dic \o r.out /\ data = SubSeq(st.data, r.used + 1, Len(st.data))
      /\ outProcessed = st.outProcessed + Len(r.out)
      /\ StFlushes(r, size) => new = <<>>
      /\ ~ StFlushes(r, size) => new = dic
  <2>1. outProcessed = st.outProcessed + Len(r.out)
    BY <1>4, Zenon DEF StSteps
  <2>2. dic = st.dic \o r.out /\ data = SubSeq(st.data, r.used + 1, Len(st.data))
    BY <1>4, Zenon DEF StSteps
  <2>3. new = IF StFlushes(r, size) THEN <<>> ELSE dic
    BY <1>4, Zenon DEF StSteps
  <2>4. StFlushes(r, size) => new = <<>>
    BY <2>3, Zenon
  <2>5. ~ StFlushes(r, size) => new = dic
    BY <2>3, Zenon
  <2> QED  BY <2>1, <2>2, <2>4, <2>5
<1>7. StDone(p, e, r, dic)
  BY <1>3, <1>5, <1>6, StDoes
<1>8. /\ Good(stream, outSize, 0, e) /\ e \in Where /\ out \in Seq(Nat) /\ dic \in Seq(Nat)
      /\ out \o dic = Out(stream, e) /\ Out(stream, e) \in Seq(Nat)
      /\ outProcessed = Count(stream, e)
  BY <1>6, <1>7, Zenon DEF StDone
<1>9. IsPrefix(Out(stream, e), held.out) /\ IsPrefix(out, held.out)
  BY <1>8, HeldHas DEF StInv, Agrees
<1>10. IsPrefix(out, out \o dic) /\ IsPrefix(out, out)
  BY <1>8, JoinGrows
<1>11. \/ out' = out
       \/ out' = out \o dic
  BY <1>4 DEF StSteps
<1>12. IsPrefix(out, out') /\ IsPrefix(out', held.out)
  BY <1>8, <1>9, <1>10, <1>11
<1>13. Agrees' /\ NeedContinue' /\ ReadInv'
  <2>1. Agrees'
    BY <1>1, <1>12 DEF Agrees, SameCall
  <2>2. NeedContinue'
    BY <1>1 DEF StInv, NeedContinue, switchVars
  <2>3. ReadInv'
    BY <1>1, ReadInvStays
  <2> QED  BY <2>1, <2>2, <2>3
<1>14. main' \in {"fetch", "decode", "close"}
  BY <1>4 DEF StSteps
<1>15. (main' = "close" => Judges) /\ (main' \in {"fetch", "decode"} => StInv')
  <2>1. CASE main' = "close" /\ result' = "WRITE"
    BY <2>1 DEF Judges
  <2>2. CASE ~ (main' = "close" /\ result' = "WRITE") /\ StStops(r)
    <3>1. StFlushes(r, size)
      BY <2>2 DEF StFlushes
    <3>2. out' = out \o dic /\ main' = "close" /\ result' = StResult(StSays(r, outProcessed))
      BY <1>4, <2>2, <3>1 DEF StSteps
    <3>3. Judges
      BY <1>3, <1>5, <1>6, <1>8, <2>2, <3>2, StStopped, Zenon
    <3> QED  BY <3>2, <3>3
  <2>3. CASE ~ (main' = "close" /\ result' = "WRITE") /\ ~ StStops(r)
    <3>1. /\ st' = [st EXCEPT !.dec = r.dec, !.data = data, !.outProcessed = outProcessed, !.dic = new]
          /\ out' = IF StFlushes(r, size) THEN out \o dic ELSE out
          /\ main' = IF data = <<>> THEN "fetch" ELSE "decode"
      BY <1>4, <2>3 DEF StSteps
    <3>2. DOMAIN st = DOMAIN NoSt
      BY <1>2 DEF StAt, StOut
    <3>3. /\ DOMAIN st' = DOMAIN st /\ st'.dec = r.dec /\ st'.data = data
          /\ st'.outProcessed = outProcessed /\ st'.dic = new /\ st'.tMode = st.tMode
          /\ st'.inLim = st.inLim
      BY <3>1, <3>2, StepGives
    <3>4. /\ out' \in Seq(Nat) /\ new \in Seq(Nat) /\ out' \o new = Out(stream, e) /\ Len(new) < OutStep
      <4>1. CASE StFlushes(r, size)
        <5>1. new = <<>> /\ out' = Out(stream, e)
          BY <1>6, <1>8, <3>1, <4>1
        <5>2. PICK o \in Seq(Nat) : o = Out(stream, e)
          BY <1>8
        <5>3. o \o <<>> = o /\ <<>> \in Seq(Nat) /\ Len(<<>>) = 0
          BY NothingAdded
        <5> QED  BY <5>1, <5>2, <5>3, Sizes
      <4>2. CASE ~ StFlushes(r, size)
        <5>1. new = dic /\ out' = out
          BY <1>6, <3>1, <4>2, Zenon
        <5>2. Len(dic) < OutStep
          BY <1>3, <1>4, <1>5, <1>6, <4>2, WindowKeeps
        <5> QED  BY <1>8, <5>1, <5>2
      <4> QED  BY <4>1, <4>2
    <3>5. \E m \in Nat : m <= n /\ StAt(e, m, z)'
      BY <1>1, <1>3, <1>5, <1>6, <1>8, <2>3, <3>1, <3>3, <3>4, StContinued
    <3>6. PICK m \in Nat : m <= n /\ StAt(e, m, z)'
      BY <3>5
    <3>7. Where' = Where
      BY <1>1, CallStays
    <3>8. Len(stream) \in Nat
      BY CallIs
    <3>9. m \in Where
      BY <3>6, <3>8 DEF Where
    <3>10. StInv'
      <4>1. \E a \in Where', b \in Where', c \in Where' : StAt(a, b, c)'
        BY <1>2, <1>8, <3>6, <3>7, <3>9
      <4> QED  BY <1>13, <4>1 DEF StInv
    <3> QED  BY <3>1, <3>10
  <2> QED  BY <2>1, <2>2, <2>3
<1> QED  BY <1>1, <1>12, <1>13, <1>14, <1>15 DEF StDid

-----------------------------------------------------------------------------
(* What goes on aside of the one thread, and what does not go on at all.   *)

LEMMA StAside ==
    ASSUME Aside, st' = st, main' = main, NEW p \in Nat, NEW n \in Nat, NEW z, StAt(p, n, z)
    PROVE  StAt(p, n, z)'
<1>1. /\ SameCall /\ UNCHANGED readVars /\ out' = out /\ numStartedThreads' = numStartedThreads
      /\ numFilledThreads' = numFilledThreads /\ filledThreadStart' = filledThreadStart
      /\ crossBlock' = crossBlock
  BY DEF Aside, filledVars, readVars
<1>2. /\ StOut(p) /\ StData(p, n, z) /\ StDec(p, n)
  BY DEF StAt
<1>3. StOut(p)'
  <2>1. Room(p)' <=> Room(p)
    BY <1>1, CallStays
  <2>2. Good(stream, outSize, 0, p)' <=> Good(stream, outSize, 0, p)
    BY <1>1 DEF SameCall, Good, AllAccepted, Accepted, Live, State, Count, Out, Walk
  <2>3. Out(stream, p)' = Out(stream, p) /\ Count(stream, p)' = Count(stream, p)
    BY <1>1 DEF SameCall, Count, Out, Walk
  <2>4. DOMAIN NoSt' = DOMAIN NoSt
    BY DEF NoSt
  <2> QED  BY <1>1, <1>2, <2>1, <2>2, <2>3, <2>4 DEF StOut
<1>4. (NothingLeft' <=> NothingLeft) /\ (Contiguous(z)' <=> Contiguous(z))
      /\ (Live(stream, z)' <=> Live(stream, z)) /\ Place(p, n)' = Place(p, n)
  BY <1>1, CallStays, ReadStays DEF Place
<1>5. RestOf(p + n, z)'
  <2>1. PICK y \in Nat : y = p + n
    OBVIOUS
  <2>2. RestOf(y, z)
    BY <1>2, <2>1 DEF StData
  <2>3. CASE numFilledThreads = 0 /\ y = z
    BY <1>1, <2>1, <2>3 DEF RestOf
  <2>4. CASE ~ (numFilledThreads = 0 /\ y = z)
    <3>1. /\ numFilledThreads = 1 /\ st.tMode
          /\ filledThreadStart \in Threads /\ filledThreadStart < numStartedThreads
      BY <2>2, <2>4 DEF RestOf
    <3>2. PICK f \in Threads : f = filledThreadStart /\ f < numStartedThreads
      BY <3>1
    <3>3. PICK inBuf, start, size : inBuf = threads[f].inBuf /\ start = threads[f].inDataSize_Start
                                    /\ size = threads[f].inDataSize
      OBVIOUS
    <3>4. /\ z = y + size
          /\ IF st.inLim = 0 THEN Linked(inBuf, start, size, y) /\ size > 0
             ELSE LinksHold(inBuf, 0, size, y) /\ start = 0 /\ inBuf # <<>>
      BY <2>2, <2>4, <3>2, <3>3 DEF RestOf
    <3>5. /\ threads'[f].inBuf = inBuf /\ threads'[f].inDataSize_Start = start
          /\ threads'[f].inDataSize = size
      BY <3>2, <3>3 DEF Aside
    <3>6. /\ z = y + size
          /\ IF st'.inLim = 0 THEN Linked(inBuf, start, size, y)' /\ size > 0
             ELSE LinksHold(inBuf, 0, size, y)' /\ start = 0 /\ inBuf # <<>>
      BY <3>4 DEF Linked, LinksHold
    <3>7. /\ numFilledThreads' = 1 /\ st'.tMode
          /\ filledThreadStart' = f /\ f \in Threads /\ f < numStartedThreads'
      BY <1>1, <3>1, <3>2
    <3>8. RestOf(y, z)'
      BY <3>5, <3>6, <3>7 DEF RestOf
    <3> QED  BY <2>1, <3>8
  <2> QED  BY <2>3, <2>4
<1>6. StData(p, n, z)'
  <2>1. /\ st.data = Place(p, n) /\ p + n <= z
        /\ main = "fetch" => n = 0
        /\ Live(stream, z) => Contiguous(z)
        /\ ~ st.tMode => numFilledThreads = 0 /\ crossBlock = <<>>
        /\ main = "decode" /\ n = 0 => numFilledThreads = 0 /\ NothingLeft
    BY <1>2 DEF StData
  <2>2. /\ st'.data = Place(p, n)' /\ p + n <= z
        /\ main' = "fetch" => n = 0
        /\ Live(stream, z)' => Contiguous(z)'
        /\ ~ st'.tMode => numFilledThreads' = 0 /\ crossBlock' = <<>>
        /\ main' = "decode" /\ n = 0 => numFilledThreads' = 0 /\ NothingLeft'
    BY <1>1, <1>4, <2>1
  <2> QED  BY <1>5, <2>2, Zenon DEF StData
<1>7. StDec(p, n)'
  <2>1. LikeDec(stream, st.dec, p)' <=> LikeDec(stream, st.dec, p)
    <3>1. (Proper(stream, p)' <=> Proper(stream, p)) /\ Dec(stream, p)' = Dec(stream, p)
      BY <1>1, CallStays DEF SameCall, Dec, Walk
    <3> QED  BY <1>1, <3>1 DEF LikeDec
  <2> QED  BY <1>1, <1>2, <1>4, <2>1 DEF StDec
<1> QED  BY <1>3, <1>6, <1>7 DEF StAt

\* Nothing goes on but what was told to end.
LEMMA ApartGoes ==
    ASSUME Shape, Apart, main # "mt",
           \/ \E t \in Threads : Thread(t) \/ Close(t)
           \/ UNCHANGED vars
    PROVE  Aside /\ st' = st /\ main' = main /\ result' = result
<1>1. ASSUME NEW t \in Threads, Thread(t)
      PROVE  Aside /\ st' = st /\ main' = main /\ result' = result
  <2>1. BeginBlock(t) /\ threads[t].canRead
    BY <1>1 DEF Thread, BeginBlock, LinkFails, ReadLink, ReadFails, Pass, NoMemory, NoThread, Code,
         Write, WriteFails, WriteNothing, HasTurn, Apart, NobodyBusy, Busy
  <2>2. /\ SameCall /\ UNCHANGED readVars /\ UNCHANGED switchVars /\ UNCHANGED filledVars /\ out' = out
        /\ numStartedThreads' = numStartedThreads /\ st' = st /\ main' = main /\ result' = result
        /\ threads' = [threads EXCEPT ![t].canRead = FALSE]
    BY <2>1 DEF BeginBlock, callVars, SameCall, startVars
  <2> QED  BY <2>2 DEF Aside, Shape
<1>2. ASSUME NEW t \in Threads, Close(t)
      PROVE  Aside /\ st' = st /\ main' = main /\ result' = result
  <2>1. /\ SameCall /\ UNCHANGED readVars /\ UNCHANGED switchVars /\ UNCHANGED filledVars /\ out' = out
        /\ numStartedThreads' = numStartedThreads /\ st' = st /\ main' = main /\ result' = result
        /\ threads' = [threads EXCEPT ![t].canRead = TRUE, ![t].canWrite = TRUE]
    BY <1>2 DEF Close, callVars, SameCall, startVars
  <2> QED  BY <2>1 DEF Aside, Shape
<1>3. CASE UNCHANGED vars
  BY <1>3 DEF vars, callVars, SameCall, startVars, Aside
<1> QED  BY <1>1, <1>2, <1>3

LEMMA StInvAside ==
    ASSUME CallInv, StInv, Aside, st' = st, main' = main
    PROVE  StInv'
<1>1. PICK p \in Where, n \in Where, z \in Where : StAt(p, n, z)
  BY DEF StInv
<1>2. p \in Nat /\ n \in Nat
  BY <1>1, CallIs DEF Where
<1>3. StAt(p, n, z)'
  BY <1>1, <1>2, StAside
<1>4. NeedContinue' /\ Agrees'
  BY GoesOnNeeding DEF Aside, StInv
<1>5. Where' = Where
  BY CallStays DEF Aside
<1> QED  BY <1>1, <1>3, <1>4, <1>5 DEF StInv

\* The threads stay where they are.
LEMMA MtStays ==
    ASSUME Shape, Together, CallInv, ReadInv, MtInv, UNCHANGED vars
    PROVE  MtInv'
<1>1. Aside /\ (Over' <=> Over) /\ SameCall /\ UNCHANGED readVars /\ UNCHANGED <<blockIndex, out>>
      /\ UNCHANGED <<pc, me, coders, threads, needInterrupt, interruptIndex, wasInterrupted>>
  BY DEF vars, callVars, SameCall, startVars, Aside, Over, interruptVars, switchVars
<1>2. CASE Over
  BY <1>1, <1>2, OverStays
<1>3. CASE ~ Over
  <2>1. Quiet
    <3>1. ReadInv'
      BY <1>1, ReadInvStays
    <3>2. UNCHANGED switchVars /\ UNCHANGED filledVars /\ readRes' = readRes
      BY <1>1 DEF Aside, readVars
    <3> QED  BY <1>1, <3>1, <3>2 DEF Quiet
  <2>2. ASSUME ~ wasInterrupted PROVE Working'
    <3>1. PICK A \in [Threads -> Where], z \in Where : InBlocks(A, z)
      BY <1>3, <2>2 DEF MtInv, Working
    <3>2. ASSUME NEW u \in Threads PROVE Placed(u, A, z)'
      <4>1. Placed(u, A, z)
        BY <3>1, <3>2 DEF InBlocks
      <4>2. StaysPut(u)
        BY <1>1 DEF StaysPut
      <4>3. \A v \in Threads : (Busy(v)' <=> Busy(v)) /\ me'[v].blockIndex = me[v].blockIndex
        BY <1>1 DEF Busy
      <4>4. Busy(u) /\ InterruptedAt(me[u].blockIndex) => InterruptedAt(me[u].blockIndex)'
        BY <1>1 DEF InterruptedAt
      <4> QED  BY <1>1, <3>2, <4>1, <4>2, <4>3, <4>4, QuietStays
    <3>3. (Fresh(z)' <=> Fresh(z)) /\ (OutAt(z)' <=> OutAt(z)) /\ Where' = Where
      BY <1>1, ReadStays, OutStays, CallStays
    <3>4. (NobodyBusy' <=> NobodyBusy) /\ (Interrupts' <=> Interrupts)
      BY <1>1 DEF NobodyBusy, Busy, Interrupts
    <3>5. InBlocks(A, z)'
      BY <1>1, <3>1, <3>2, <3>3, <3>4 DEF InBlocks
    <3> QED  BY <3>1, <3>3, <3>5 DEF Working
  <2> QED  BY <1>1, <1>3, <2>1, <2>2, QuietInv
<1> QED  BY <1>2, <1>3

-----------------------------------------------------------------------------
(* In the beginning.                                                       *)

LEMMA CallBegins ==
    ASSUME Init
    PROVE  CallInv /\ ReadInv
<1>1. stream \in Seq(Symbols)
  BY Lzma2DecMtAssumption DEF Init, Symbols
<1>2. Units(stream) \in Nat
  <2>1. Len(stream) \in Nat /\ DOMAIN stream = 1..Len(stream)
    BY <1>1
  <2>2. IsFiniteSet(1..Len(stream))
    BY <2>1, FS_Interval
  <2>3. PICK S : S = {k \in DOMAIN stream : stream[k] = "d"}
    OBVIOUS
  <2>4. S \subseteq 1..Len(stream)
    BY <2>1, <2>3
  <2>5. IsFiniteSet(S)
    BY <2>2, <2>4, FS_Subset
  <2>6. Cardinality(S) \in Nat
    BY <2>5, FS_CardinalityType
  <2> QED  BY <2>3, <2>6 DEF Units
<1>3. outSize \in Nat
  <2>1. PICK n \in SizeErrors : outSize = Units(stream) + n
    BY DEF Init
  <2>2. n \in Int
    BY Lzma2DecMtAssumption
  <2>3. outSize >= 0
    BY DEF Init
  <2> QED  BY <1>2, <2>1, <2>2, <2>3
<1>4. held = Decode(NewDecoder, Place(0, Len(stream)), stream, outSize, TRUE)
  BY DEF Init
<1>5. readProcessed = 0 /\ readWasFinished = FALSE /\ readRes = OK
  BY DEF Init
<1>6. CallInv
  BY <1>1, <1>3, <1>4 DEF CallInv
<1>7. 0 \in Where
  BY <1>6, CallIs DEF Where
<1> QED  BY <1>5, <1>6, <1>7 DEF ReadInv

LEMMA FieldsBegin == Fields(NewCoder)
<1>1. PICK e : e = <<>>
  OBVIOUS
<1>2. e \in Seq(Nat) /\ 0 \in Nat
  BY <1>1
<1>3. NewCoder.outBuf = e /\ NewCoder.outBufSize = 0
  BY <1>1 DEF NewCoder
<1> QED  BY <1>2, <1>3 DEF Fields

LEMMA FreshBegins ==
    ASSUME Init, CallInv
    PROVE  Fresh(0) /\ OutAt(0) /\ Agrees
<1>1. PICK o \in Nat : o = 0
  OBVIOUS
<1>2. stream \in Seq(Symbols) /\ Len(stream) \in Nat /\ outSize \in Nat
  BY CallIs
<1>3. State(stream, o) = "CONTROL" /\ Out(stream, o) = <<>> /\ Count(stream, o) = 0
  BY <1>1, <1>2, WalkStart
<1>4. readProcessed = 0 /\ crossBlock = <<>> /\ outProcessed_Parse = 0 /\ out = <<>>
  BY DEF Init
<1>5. Good(stream, outSize, 0, o)
  <2>1. \A j \in (0 + 1)..o : FALSE
    BY <1>1
  <2> QED  BY <2>1 DEF Good, AllAccepted
<1>6. Room(o)
  BY <1>2, <1>3 DEF Room, Live
<1>7. Contiguous(o)
  <2>1. crossBlock = Place(o, o)
    BY <1>1, <1>4, NoPlace
  <2>2. o \in 0..readProcessed /\ o + o = readProcessed
    BY <1>1, <1>4
  <2> QED  BY <2>1, <2>2 DEF Contiguous
<1>8. Fresh(o)
  BY <1>1, <1>3, <1>4, <1>6, <1>7 DEF Fresh, Proper
<1>9. OutAt(o)
  BY <1>3, <1>4, <1>5 DEF OutAt
<1>10. Agrees
  <2>1. o \in Where
    BY <1>1, <1>2 DEF Where
  <2>2. IsPrefix(Out(stream, o), held.out)
    BY <1>5, <2>1, HeldHas
  <2> QED  BY <1>3, <1>4, <2>2 DEF Agrees
<1> QED  BY <1>1, <1>8, <1>9, <1>10

LEMMA DataInit == Init => DataInv
<1> SUFFICES ASSUME Init
             PROVE  DataInv
  OBVIOUS
<1>1. CallInv /\ ReadInv
  BY CallBegins
<1>2. Fresh(0) /\ OutAt(0) /\ Agrees /\ 0 \in Where
  BY <1>1, FreshBegins, CallIs DEF Where
<1>3. main = "mt" /\ wasInterrupted = FALSE /\ codeRes = OK /\ numFilledThreads = 0 /\ exitThread = FALSE
  BY Zenon DEF Init
<1>4. ~ NeedContinue
  BY DEF Init, NeedContinue
<1>5. pc = [t \in Threads |-> IF t = 0 THEN "idle" ELSE "none"]
  BY DEF Init
<1>6. ~ Over /\ \A t \in Threads : ~ Busy(t) /\ pc[t] \in {"idle", "none"}
  BY <1>3, <1>5, ThreadsAre DEF Over, Busy
<1>7. Working
  <2>1. PICK A : A = [t \in Threads |-> 0]
    OBVIOUS
  <2>2. A \in [Threads -> Where] /\ \A t \in Threads : A[t] = 0
    BY <1>2, <2>1
  <2>3. DOMAIN coders = Threads /\ \A t \in Threads : coders[t] = NewCoder
    BY DEF Init
  <2>4. ASSUME NEW t \in Threads PROVE Placed(t, A, 0)
    <3>1. threads[t].inBuf = <<>>
      BY DEF Init
    <3>2. PICK e : e = <<>>
      OBVIOUS
    <3>3. e \in Seq(Seq(Nat))
      BY <3>2
    <3>4. threads[t].inBuf \in Seq(Seq(Nat))
      BY <3>1, <3>2, <3>3
    <3>5. ~ Busy(t) /\ ~ Held(t) /\ pc[t] # "link" /\ pc[t] # "code" /\ ~ First(t)
      BY <1>6 DEF Busy, Held, First
    <3>6. Fields(coders[t])
      BY <2>3, FieldsBegin
    <3> QED  BY <3>4, <3>5, <3>6 DEF Placed
  <2>5. Interrupts
    BY DEF Init, Interrupts
  <2>6. InBlocks(A, 0)
    BY <1>2, <2>2, <2>3, <2>4, <2>5 DEF InBlocks
  <2> QED  BY <1>2, <2>2, <2>6 DEF Working
<1>8. MtInv
  BY <1>2, <1>3, <1>4, <1>6, <1>7 DEF MtInv
<1> QED  BY <1>1, <1>3, <1>8 DEF DataInv
-----------------------------------------------------------------------------
(* The caller's steps.                                                     *)

LEMMA MtEndsGoes ==
    ASSUME CallInv, ReadInv, MtInv, MtEnds
    PROVE  SameCall /\ ReadInv' /\ Agrees' /\ main' = "close" /\ out' = out /\ result' = readRes
           /\ UNCHANGED switchVars
<1>1. SameCall /\ UNCHANGED readVars /\ main' = "close" /\ out' = out /\ result' = readRes
      /\ UNCHANGED switchVars
  BY DEF MtEnds, SameCall, callVars
<1>2. ReadInv'
  BY <1>1, ReadInvStays
<1>3. Agrees'
  BY <1>1 DEF SameCall, MtInv, Agrees
<1> QED  BY <1>1, <1>2, <1>3

\* Getting more to decode.
LEMMA FetchGoes ==
    ASSUME Shape, CallInv, ReadInv, StInv, main = "fetch", FetchFilled \/ FetchCross \/ FetchStream
    PROVE  SameCall /\ ReadInv' /\ StInv' /\ out' = out /\ main' \in {"fetch", "decode"}
           /\ result' = result /\ UNCHANGED switchVars
<1>1. PICK p \in Where, n \in Where, z \in Where : StAt(p, n, z)
  BY DEF StInv
<1>2. StState(p, z)
  <2>1. n = 0
    BY <1>1 DEF StAt, StData
  <2> QED  BY <1>1, <2>1 DEF StState, StInv
<1>3. ReadInv' /\ StInv'
  BY <1>2, FilledGoes, CrossGoes, StreamGoes
<1>4. SameCall /\ out' = out /\ result' = result /\ UNCHANGED switchVars
  BY DEF FetchFilled, FetchCross, FetchStream, SameCall, callVars
<1>5. main' \in {"fetch", "decode"}
  BY DEF FetchFilled, FetchCross, FetchStream, TakeFrom
<1> QED  BY <1>3, <1>4, <1>5

-----------------------------------------------------------------------------

LEMMA CallKeeps ==
    ASSUME CallInv, SameCall
    PROVE  CallInv'
BY DEF CallInv, SameCall, Place

\* The threads' part of it.
LEMMA ThreadKeepsData ==
    ASSUME TurnsInv, DataInv, main = "mt", NEW t \in Threads, Thread(t)
    PROVE  DataInv' /\ main' = main /\ SameCall
<1>1. Shape /\ Together /\ CallInv /\ ReadInv /\ MtInv
  BY DEF TurnsInv, DataInv
<1>2. SameCall /\ ReadInv' /\ MtInv'
  BY <1>1, ThreadGoes
<1>3. main' = main
  BY <1>1, ThreadTogether
<1>4. CallInv'
  BY <1>1, <1>2, CallKeeps
<1> QED  BY <1>2, <1>3, <1>4 DEF DataInv

LEMMA AsideKeepsData ==
    ASSUME DataInv, main # "mt", Aside, st' = st, main' = main
    PROVE  DataInv'
<1>1. CallInv' /\ ReadInv'
  BY CallKeeps, ReadInvStays DEF DataInv, Aside
<1>2. main \in {"fetch", "decode"} => StInv'
  BY StInvAside DEF DataInv
<1>3. Agrees => Agrees'
  BY DEF Aside, SameCall, Agrees
<1> QED  BY <1>1, <1>2, <1>3 DEF DataInv

LEMMA MainKeepsData ==
    ASSUME TurnsInv, DataInv, MtEnds \/ Switch \/ FetchFilled \/ FetchCross \/ FetchStream \/ DecodeSt \/ Closed
    PROVE  DataInv'
<1>1. Shape /\ CallInv /\ ReadInv
  BY DEF TurnsInv, DataInv
<1>2. CASE MtEnds
  <2>1. MtInv
    BY <1>2 DEF MtEnds, DataInv
  <2>2. SameCall /\ ReadInv' /\ Agrees' /\ main' = "close"
    BY <1>1, <1>2, <2>1, MtEndsGoes
  <2> QED  BY <1>1, <2>2, CallKeeps DEF DataInv
<1>3. CASE Switch
  <2>1. MtInv
    BY <1>3 DEF Switch, DataInv
  <2>2. SameCall /\ ReadInv' /\ Agrees' /\ main' \in {"fetch", "close"} /\ (main' = "fetch" => StInv')
    BY <1>1, <1>3, <2>1, SwitchGoes
  <2> QED  BY <1>1, <2>2, CallKeeps DEF DataInv
<1>4. CASE FetchFilled \/ FetchCross \/ FetchStream
  <2>1. main = "fetch" /\ StInv
    BY <1>4 DEF FetchFilled, FetchCross, FetchStream, DataInv
  <2>2. SameCall /\ ReadInv' /\ StInv' /\ main' \in {"fetch", "decode"}
    BY <1>1, <1>4, <2>1, FetchGoes
  <2> QED  BY <1>1, <2>2, CallKeeps DEF DataInv
<1>5. CASE DecodeSt
  <2>1. StInv
    BY <1>5 DEF DecodeSt, DataInv
  <2>2. StDid
    BY <1>1, <1>5, <2>1, DecodeGoes
  <2> QED  BY <1>1, <2>2, CallKeeps DEF DataInv, StDid
<1>6. CASE Closed
  <2>1. SameCall /\ UNCHANGED readVars /\ out' = out /\ main = "close" /\ main' = "done"
    BY <1>6 DEF Closed, SameCall, callVars
  <2>2. Agrees'
    BY <2>1 DEF DataInv, Agrees, SameCall
  <2> QED  BY <1>1, <2>1, <2>2, CallKeeps, ReadInvStays DEF DataInv
<1> QED  BY <1>2, <1>3, <1>4, <1>5, <1>6

LEMMA DataNext == TurnsInv /\ DataInv /\ [Next]_vars => DataInv'
<1> SUFFICES ASSUME TurnsInv, DataInv, [Next]_vars
             PROVE  DataInv'
  OBVIOUS
<1>1. CASE main = "mt" /\ \E t \in Threads : Thread(t)
  BY <1>1, ThreadKeepsData
<1>2. CASE main = "mt" /\ UNCHANGED vars
  <2>1. Shape /\ Together /\ CallInv /\ ReadInv /\ MtInv
    BY <1>2 DEF TurnsInv, DataInv
  <2>2. MtInv'
    BY <1>2, <2>1, MtStays
  <2>3. SameCall /\ UNCHANGED readVars /\ main' = main
    BY <1>2 DEF vars, SameCall, callVars
  <2> QED  BY <1>2, <2>1, <2>2, <2>3, CallKeeps, ReadInvStays DEF DataInv
<1>3. CASE main # "mt" /\ ((\E t \in Threads : Thread(t) \/ Close(t)) \/ UNCHANGED vars)
  BY <1>3, ApartGoes, AsideKeepsData DEF TurnsInv
<1>4. CASE MtEnds \/ Switch \/ FetchFilled \/ FetchCross \/ FetchStream \/ DecodeSt \/ Closed
  BY <1>4, MainKeepsData
<1>5. (\E t \in Threads : Close(t)) => main # "mt"
  BY DEF Close
<1> QED  BY <1>1, <1>2, <1>3, <1>4, <1>5 DEF Next, Main
-----------------------------------------------------------------------------
(* What comes out as it was parsed may be written.                         *)

LEMMA DataImplies == TurnsInv /\ DataInv => AsParsed
<1> SUFFICES ASSUME TurnsInv, DataInv, NEW t \in Threads,
                    HasTurn(t), me[t].needWrite, MayWrite(t), Mismatched(t)
             PROVE  FALSE
  BY DEF AsParsed
<1>1. main = "mt"
  BY DEF HasTurn, TurnsInv, Apart, NobodyBusy, Busy
<1>2. Shape /\ Together /\ CallInv /\ ReadInv /\ MtInv
  BY <1>1 DEF TurnsInv, DataInv
<1>3. ~ wasInterrupted /\ ~ Troublesome(me[t])
  BY DEF MayWrite, Troublesome
<1>4. PICK A, z, a : InTurnWith(t, A, z, a)
  BY <1>2, <1>3, TurnOf
<1>5. PICK l, c : l = me[t] /\ c = coders[t]
  OBVIOUS
<1>6. BlockHeld("write", threads[t].inBuf, l, c, a)
  BY <1>4, <1>5 DEF InTurnWith
<1>7. /\ Parsed(c, a, l.size)
      /\ CodedWhole(c, l, a) \/ CodedInPart(c, l, a)
  BY <1>3, <1>5, <1>6 DEF BlockHeld
<1>8. CASE CodedInPart(c, l, a)
  BY <1>5, <1>8 DEF CodedInPart, Mismatched, OK
<1>9. CASE CodedWhole(c, l, a)
  BY <1>5, <1>7, <1>9 DEF CodedWhole, CameOut, Parsed, Mismatched
<1> QED  BY <1>7, <1>8, <1>9

-----------------------------------------------------------------------------
(* What crosses over is a sequence of places, as long as somebody will     *)
(* decode it.                                                              *)

GaveUp == wasInterrupted /\ ~ NeedContinue
CrossInv == GaveUp \/ crossBlock \in Seq(Nat)

LEMMA CrossInit == Init => CrossInv
<1> SUFFICES ASSUME Init PROVE CrossInv
  OBVIOUS
<1>1. crossBlock = <<>>
  BY DEF Init
<1>2. PICK e : e = <<>>
  OBVIOUS
<1>3. e \in Seq(Nat)
  BY <1>2
<1> QED  BY <1>1, <1>2, <1>3 DEF CrossInv

LEMMA CrossRead ==
    ASSUME Shape, DOMAIN coders = Threads, NEW t \in Threads, NEW a, ReadingAt(t, a),
           ReadLink(t) \/ ReadFails(t)
    PROVE  crossBlock' = crossBlock \/ crossBlock' \in Seq(Nat)
<1>1. PICK n, error, cross : /\ error \in BOOLEAN /\ cross \in BOOLEAN /\ ReadArgs(t, n, error)
                             /\ ReadLinkWith(t, n, error, cross)
  <2>1. CASE ReadLink(t)
    <3>1. PICK cross \in BOOLEAN : ReadLinkWith(t, ToRead, FALSE, cross)
      BY <2>1 DEF ReadLink
    <3>2. ReadArgs(t, ToRead, FALSE)
      BY <2>1 DEF ReadLink, ReadArgs
    <3>3. FALSE \in BOOLEAN
      OBVIOUS
    <3> QED  BY <3>1, <3>2, <3>3, Zenon
  <2>2. CASE ReadFails(t)
    <3>1. PICK n \in IF readRes = OK THEN 0..ToRead ELSE {0} : ReadLinkWith(t, n, TRUE, TRUE)
      BY <2>2, Zenon DEF ReadFails
    <3>2. ~ HasCross(t)
      BY <2>2, Zenon DEF ReadFails
    <3>3. ReadArgs(t, n, TRUE)
      BY <3>1, <3>2 DEF ReadArgs
    <3>4. TRUE \in BOOLEAN
      OBVIOUS
    <3> QED  BY <3>1, <3>3, <3>4, Zenon
  <2> QED  BY <2>1, <2>2
<1>2. PICK b, size, N, finish, r : TurnAt(t, a, b, size, n, N, finish, error, r)
  BY <1>1, TurnIsAt, Zenon
<1>3. PICK c, m : Turned(t, a, b, size, N, finish, error, r, c, m)
  BY <1>1, <1>2, TurnIs, Zenon
<1>4. CASE TurnStops(t)
  BY <1>4 DEF TurnStops
<1>5. CASE ~ TurnStops(t)
  <2>1. TurnEnds(t, b, r, N, finish, c, m, me[t], me'[t]) /\ m \in Nat /\ m <= N
    BY <1>3, <1>5 DEF Turned
  <2>2. b \in Nat /\ N \in Nat
    BY <1>2 DEF TurnAt
  <2>3. crossBlock' = <<>> \/ crossBlock' = Place(b + m, N - m)
    BY <2>1 DEF TurnEnds, TurnGoesOn, TurnOverflows, TurnLoses, TurnReads
  <2>4. PICK y \in Nat, k \in Nat : y = b + m /\ k = N - m
    BY <2>1, <2>2
  <2>5. Place(y, k) \in Seq(Nat)
    BY PlaceIs
  <2>6. PICK e : e = <<>>
    OBVIOUS
  <2>7. e \in Seq(Nat)
    BY <2>6
  <2> QED  BY <2>3, <2>4, <2>5, <2>6, <2>7
<1> QED  BY <1>4, <1>5

LEMMA CrossNext == TurnsInv /\ DataInv /\ CrossInv /\ [Next]_vars => CrossInv'
<1> SUFFICES ASSUME TurnsInv, DataInv, CrossInv, [Next]_vars
             PROVE  CrossInv'
  OBVIOUS
<1>1. crossBlock' = crossBlock /\ (GaveUp => GaveUp') => CrossInv'
  BY DEF CrossInv
<1>2. UNCHANGED switchVars => (GaveUp' <=> GaveUp)
  BY DEF switchVars, GaveUp, NeedContinue
<1>3. ASSUME NEW t \in Threads, ReadLink(t) \/ ReadFails(t)
      PROVE  CrossInv'
  <2>1. UNCHANGED switchVars /\ pc[t] = "link"
    BY <1>3 DEF ReadLink, ReadFails
  <2>2. CASE wasInterrupted
    <3>1. Busy(t) /\ main = "mt" /\ ~ Over
      BY <2>1 DEF TurnsInv, Apart, Together, TheEnd, NobodyBusy, Busy
    <3>2. GaveUp
      BY <2>2, <3>1 DEF DataInv, MtInv, GaveUp
    <3> QED  BY <1>2, <2>1, <3>2 DEF CrossInv
  <2>3. CASE ~ wasInterrupted
    <3>1. Busy(t) /\ main = "mt" /\ ~ Over /\ Shape
      BY <2>1 DEF TurnsInv, Apart, Together, TheEnd, NobodyBusy, Busy
    <3>2. PICK A, z : A \in [Threads -> Where] /\ InBlocks(A, z)
      BY <2>3, <3>1 DEF DataInv, MtInv, Working
    <3>3. BlockRead(threads[t].inBuf, me[t], coders[t], A[t]) /\ DOMAIN coders = Threads
      BY <2>1, <3>2 DEF InBlocks, Placed
    <3>4. ReadingAt(t, A[t])
      BY <3>2, <3>3 DEF ReadingAt, DataInv
    <3>5. crossBlock' = crossBlock \/ crossBlock' \in Seq(Nat)
      BY <1>3, <3>1, <3>3, <3>4, CrossRead
    <3> QED  BY <1>1, <1>2, <2>1, <3>5 DEF CrossInv
  <2> QED  BY <2>2, <2>3
<1>4. ASSUME NEW t \in Threads, Write(t) \/ WriteFails(t)
      PROVE  CrossInv'
  <2>1. ~ wasInterrupted /\ crossBlock' = crossBlock
    BY <1>4 DEF Write, WriteFails, MayWrite, readVars
  <2> QED  BY <1>1, <2>1 DEF GaveUp
<1>5. ASSUME NEW t \in Threads, WriteNothing(t)
      PROVE  CrossInv'
  <2>1. Troubled(t) /\ crossBlock' = crossBlock
    BY <1>5 DEF WriteNothing, readVars
  <2>2. wasInterrupted => UNCHANGED switchVars
    BY <2>1, Zenon DEF Troubled
  <2> QED  BY <1>1, <1>2, <2>1, <2>2 DEF GaveUp
<1>6. ASSUME NEW t \in Threads,
             BeginBlock(t) \/ LinkFails(t) \/ Pass(t) \/ NoMemory(t) \/ NoThread(t) \/ Code(t) \/ Close(t)
      PROVE  CrossInv'
  <2>1. UNCHANGED switchVars /\ crossBlock' = crossBlock
    BY <1>6 DEF BeginBlock, LinkFails, Pass, NoMemory, NoThread, PassOn, Code, Close, readVars
  <2> QED  BY <1>1, <1>2, <2>1
<1>7. CASE MtEnds \/ Switch \/ FetchFilled \/ FetchStream \/ DecodeSt \/ Closed \/ UNCHANGED vars
  <2>1. UNCHANGED switchVars /\ crossBlock' = crossBlock
    BY <1>7 DEF MtEnds, Switch, FetchFilled, FetchStream, DecodeSt, Closed, readVars, vars
  <2> QED  BY <1>1, <1>2, <2>1
<1>8. CASE FetchCross
  <2>1. crossBlock' = <<>>
    BY <1>8 DEF FetchCross
  <2>2. PICK e : e = <<>>
    OBVIOUS
  <2>3. e \in Seq(Nat)
    BY <2>2
  <2> QED  BY <2>1, <2>2, <2>3 DEF CrossInv
<1> QED  BY <1>3, <1>4, <1>5, <1>6, <1>7, <1>8 DEF Next, Main, Thread

-----------------------------------------------------------------------------
(* What the links of a thread hold, one after the other.                   *)

\* A sequence of sequences, one after the other.
Flattens(f, seqs, n) ==
    f[1] = seqs[1] /\ \A k \in 2..n : f[k] = f[k - 1] \o seqs[k]

LEMMA JoinTypes ==
    ASSUME NEW s \in Seq(Nat), NEW t \in Seq(Nat)
    PROVE  s \o t \in Seq(Nat)
OBVIOUS

LEMMA FlattenIs ==
    ASSUME NEW n \in Nat, n > 0, NEW seqs, Len(seqs) = n, \A k \in 1..n : seqs[k] \in Seq(Nat)
    PROVE  \E f : Flattens(f, seqs, n) /\ f[n] = FlattenSeq(seqs)
<1> DEFINE N == 1..n
           step == [k \in N |-> [s \in Seq(Nat) |-> s \o seqs[k]]]
           D == [k \in N |-> k - 1]
           Rec(f) == [i \in 1..Len(seqs) |-> IF i = 1 THEN seqs[i] ELSE f[i - 1] \o seqs[i]]
<1>1. N \subseteq Nat
  OBVIOUS
<1>2. \A k \in N : k \in {1} => seqs[k] \in Seq(Nat)
  OBVIOUS
<1>3. \A k \in N : k \notin {1} => step[k] \in [Seq(Nat) -> Seq(Nat)] /\ D[k] \in N /\ D[k] < k
  <2> SUFFICES ASSUME NEW k \in N, k \notin {1}
               PROVE  step[k] \in [Seq(Nat) -> Seq(Nat)] /\ D[k] \in N /\ D[k] < k
    OBVIOUS
  <2>1. \A s \in Seq(Nat) : s \o seqs[k] \in Seq(Nat)
    BY JoinTypes
  <2>2. step[k] = [s \in Seq(Nat) |-> s \o seqs[k]]
    OBVIOUS
  <2>3. D[k] \in N /\ D[k] < k
    OBVIOUS
  <2> QED  BY <2>1, <2>2, <2>3
<1>4. PICK f \in [N -> Seq(Nat)] : Follows(f, N, {1}, seqs, step, D)
  <2> HIDE DEF N, step, D
  <2> QED  BY <1>1, <1>2, <1>3, Recursion, Zenon
<1>5. \A k \in 1..n : f[k] = IF k = 1 THEN seqs[k] ELSE f[k - 1] \o seqs[k]
  <2> SUFFICES ASSUME NEW k \in 1..n
               PROVE  f[k] = IF k = 1 THEN seqs[k] ELSE f[k - 1] \o seqs[k]
    OBVIOUS
  <2>1. f[k] = IF k \in {1} THEN seqs[k] ELSE step[k][f[D[k]]]
    BY <1>4 DEF Follows
  <2>2. CASE k = 1
    BY <2>1, <2>2
  <2>3. CASE k # 1
    <3>1. D[k] = k - 1 /\ f[k - 1] \in Seq(Nat)
      BY <1>4, <2>3
    <3>2. step[k][f[k - 1]] = f[k - 1] \o seqs[k]
      BY <3>1
    <3> QED  BY <2>1, <2>3, <3>1, <3>2
  <2> QED  BY <2>2, <2>3
<1>6. f = Rec(f)
  <2>1. Rec(f) = [k \in 1..n |-> f[k]]
    BY <1>5
  <2> QED  BY <1>4, <2>1
<1>7. PICK g : g = Rec(g) /\ FlattenSeq(seqs) = g[Len(seqs)]
  <2>1. Len(seqs) # 0
    OBVIOUS
  <2> DEFINE g == CHOOSE g : g = Rec(g)
  <2>2. g = Rec(g)
    BY <1>6, Zenon
  <2>3. FlattenSeq(seqs) = g[Len(seqs)]
    BY <2>1, Zenon DEF FlattenSeq
  <2> QED  BY <2>2, <2>3, Zenon
<1>8. \A k \in 1..n : g[k] = IF k = 1 THEN seqs[k] ELSE g[k - 1] \o seqs[k]
  <2>1. \A k \in 1..Len(seqs) : g[k] = IF k = 1 THEN seqs[k] ELSE g[k - 1] \o seqs[k]
    BY <1>7, Zenon
  <2> QED  BY <2>1, Zenon
<1>9. Flattens(g, seqs, n)
  <2>1. g[1] = seqs[1]
    BY <1>8
  <2>2. \A k \in 2..n : g[k] = g[k - 1] \o seqs[k]
    <3> SUFFICES ASSUME NEW k \in 2..n PROVE g[k] = g[k - 1] \o seqs[k]
      OBVIOUS
    <3>1. k \in 1..n /\ k # 1
      OBVIOUS
    <3> QED  BY <1>8, <3>1, Zenon
  <2> QED  BY <2>1, <2>2 DEF Flattens
<1> QED  BY <1>7, <1>9
-----------------------------------------------------------------------------

LEMMA PlacesAre ==
    ASSUME NEW s \in Seq(Nat), NEW p \in Nat, NEW n \in Nat, Len(s) = n, \A i \in 1..n : s[i] = p + i
    PROVE  s = Place(p, n)
BY DEF Place

LEMMA PlaceJoins ==
    ASSUME NEW p \in Nat, NEW m \in Nat, NEW n \in Nat
    PROVE  Place(p, m) \o Place(p + m, n) = Place(p, m + n)
<1>1. PICK b \in Nat, N \in Nat : b = p + m /\ N = m + n
  OBVIOUS
<1>2. PICK s, t, x : s = Place(p, m) /\ t = Place(b, n) /\ x = s \o t
  OBVIOUS
<1>3. /\ s \in Seq(Nat) /\ Len(s) = m /\ \A i \in 1..m : s[i] = p + i
      /\ t \in Seq(Nat) /\ Len(t) = n /\ \A i \in 1..n : t[i] = b + i
  BY <1>2, PlaceIs
<1>4. Joined(x, s, t, m, n)
  BY <1>2, <1>3, JoinIs
<1>5. x \in Seq(Nat) /\ Len(x) = N /\ (\A i \in 1..m : x[i] = s[i]) /\ (\A i \in 1..n : x[m + i] = t[i])
  BY <1>1, <1>4 DEF Joined
<1>6. \A i \in 1..N : x[i] = p + i
  <2> SUFFICES ASSUME NEW i \in 1..N PROVE x[i] = p + i
    OBVIOUS
  <2>1. CASE i <= m
    BY <1>3, <1>5, <2>1
  <2>2. CASE i > m
    <3>1. PICK j \in 1..n : i = m + j
      <4>1. i - m \in 1..n /\ i = m + (i - m)
        BY <1>1, <2>2
      <4> QED  BY <4>1
    <3>2. x[m + j] = b + j
      BY <1>3, <1>5
    <3> QED  BY <1>1, <3>1, <3>2
  <2> QED  BY <2>1, <2>2
<1>7. x = Place(p, N)
  BY <1>5, <1>6, PlacesAre
<1> QED  BY <1>1, <1>2, <1>7

-----------------------------------------------------------------------------
\* The data in each of the links.
Parts(inBuf, start, size) ==
    [k \in DOMAIN inBuf |->
       LET n == LinkSize(k, start, size)
       IN  SubSeq(inBuf[k], 1, IF n < 0 THEN 0 ELSE n)]

\* The part of link k: what there is from off on, up to next.
PartHas(w, a, off, next, size) ==
    /\ off < size => \E n \in Nat : /\ w = Place(a + off, n) /\ off + n <= size
                                    /\ (off + n = size /\ next >= size) \/ off + n = next
    /\ off >= size => w = <<>>

LEMMA PartIs ==
    ASSUME NEW inBuf \in Seq(Seq(Nat)), NEW start \in Nat, NEW size \in Nat, NEW a \in Nat, size > 0,
           Linked(inBuf, start, size, a), NEW k \in Nat, k > 0, k <= Len(inBuf)
    PROVE  /\ PartHas(Parts(inBuf, start, size)[k], a, Off(start, k), Off(start, k + 1), size)
           /\ Parts(inBuf, start, size)[k] \in Seq(Nat)
<1>1. PICK off \in Nat, next \in Nat : off = Off(start, k) /\ next = Off(start, k + 1)
  <2>1. k + 1 \in Nat /\ k + 1 > 0
    OBVIOUS
  <2> QED  BY <2>1, OffIs, Zenon
<1>2. PICK n \in Int : n = LinkSize(k, start, size)
  BY LinkSizeIs, Zenon
<1>3. PICK m \in Nat : m = IF n < 0 THEN 0 ELSE n
  OBVIOUS
<1>4. k \in DOMAIN inBuf
  OBVIOUS
<1>5. PICK w : w = Parts(inBuf, start, size)[k]
  OBVIOUS
<1>6. w = SubSeq(inBuf[k], 1, m)
  BY <1>2, <1>3, <1>4, <1>5, Zenon DEF Parts
<1>7. inBuf[k] \in Seq(Nat)
  BY <1>4
<1>8. k = 1 => off = 0 /\ next = start /\ n = start
  <2>1. 1 + 1 = 2
    OBVIOUS
  <2> QED  BY <1>1, <1>2, <2>1, OffIs, LinkSizeIs, Zenon
<1>9. k > 1 => next = off + InBufSize /\ n = IF size - off < InBufSize THEN size - off ELSE InBufSize
  <2> SUFFICES ASSUME k > 1
               PROVE  next = off + InBufSize /\ n = IF size - off < InBufSize THEN size - off ELSE InBufSize
    OBVIOUS
  <2>1. Off(start, k + 1) = Off(start, k) + InBufSize
    BY OffIs, Zenon
  <2>2. LinkSize(k, start, size) =
          IF size - Off(start, k) < InBufSize THEN size - Off(start, k) ELSE InBufSize
    BY LinkSizeIs
  <2> QED  BY <1>1, <1>2, <2>1, <2>2
<1>10. ASSUME off < size
       PROVE  /\ n \in Nat /\ w = Place(a + off, n) /\ off + n <= size
              /\ (off + n = size /\ next >= size) \/ off + n = next
              /\ w \in Seq(Nat)
  <2>1. IsNext(inBuf, start, size, a, k)
    BY <1>1, <1>10, Zenon DEF IsNext
  <2>2. NextHolds(inBuf, start, size, a, k, n)
    BY <1>2, <2>1, LinkIs, Zenon
  <2>3. n \in Nat /\ n > 0 /\ off + n <= size /\ SubSeq(inBuf[k], 1, n) = Place(a + off, n)
    BY <1>1, <2>2, Zenon DEF NextHolds
  <2>4. off + n # size => off + n = next
    BY <1>1, <2>2, Zenon DEF NextHolds
  <2>5. m = n
    BY <1>3, <2>3
  <2>6. w = Place(a + off, n)
    BY <1>6, <2>3, <2>5, Zenon
  <2>7. a + off \in Nat
    OBVIOUS
  <2>8. w \in Seq(Nat)
    BY <2>3, <2>6, <2>7, PlaceIs, Zenon
  <2>9. next >= size \/ off + n = next
    <3>1. CASE k = 1
      BY <1>8, <2>4, <3>1
    <3>2. CASE k > 1
      BY <1>9, <2>3, <2>4, <3>2, Sizes
    <3> QED  BY <3>1, <3>2
  <2> QED  BY <2>3, <2>4, <2>6, <2>8, <2>9
<1>11. ASSUME off >= size
       PROVE  w = <<>> /\ w \in Seq(Nat)
  <2>1. k > 1
    BY <1>8, <1>11
  <2>2. n <= 0
    BY <1>9, <1>11, <2>1, Sizes
  <2>3. m = 0
    BY <1>3, <2>2
  <2> QED  BY <1>6, <1>7, <2>3
<1>12. PartHas(w, a, off, next, size)
  <2>1. off < size => \E i \in Nat : /\ w = Place(a + off, i) /\ off + i <= size
                                     /\ (off + i = size /\ next >= size) \/ off + i = next
    BY <1>10, Zenon
  <2>2. off >= size => w = <<>>
    BY <1>11
  <2> QED  BY <2>1, <2>2 DEF PartHas
<1>13. off < size \/ off >= size
  OBVIOUS
<1>14. w \in Seq(Nat)
  BY <1>10, <1>11, <1>13, Zenon
<1> QED  BY <1>1, <1>5, <1>12, <1>14, Zenon

\* One part more.
Reaches(i, next, size) == i \in Nat /\ i <= size /\ ((i = size /\ next >= size) \/ i = next)

Reached(s, a, next, size) == \E i \in Nat : Reaches(i, next, size) /\ s = Place(a, i)

LEMMA PartJoins ==
    ASSUME NEW a \in Nat, NEW size \in Nat, NEW off \in Nat, NEW next \in Nat,
           NEW e \in Nat, Reaches(e, off, size), next >= off, NEW w, PartHas(w, a, off, next, size),
           NEW s, s = Place(a, e) \o w
    PROVE  Reached(s, a, next, size)
<1>0. e <= size /\ ((e = size /\ off >= size) \/ e = off)
  BY DEF Reaches
<1>1. CASE off < size
  <2>1. PICK n \in Nat : /\ w = Place(a + off, n) /\ off + n <= size
                         /\ (off + n = size /\ next >= size) \/ off + n = next
    BY <1>1, Zenon DEF PartHas
  <2>2. e = off
    BY <1>0, <1>1
  <2>3. s = Place(a, off + n)
    BY <2>1, <2>2, PlaceJoins, ZenonT(40)
  <2>4. off + n \in Nat
    OBVIOUS
  <2>5. Reaches(off + n, next, size)
    BY <2>1, <2>4, Zenon DEF Reaches
  <2> QED  BY <2>3, <2>4, <2>5, Zenon DEF Reached
<1>2. CASE off >= size
  <2>1. w = <<>> /\ e = size /\ next >= size
    BY <1>0, <1>2 DEF PartHas
  <2>2. Place(a, e) \in Seq(Nat)
    BY PlaceIs
  <2>3. s = Place(a, e)
    BY <2>1, <2>2, NothingAdded, Zenon
  <2>4. Reaches(e, next, size)
    BY <1>0, <2>1 DEF Reaches
  <2> QED  BY <2>3, <2>4, Zenon DEF Reached
<1> QED  BY <1>1, <1>2

LEMMA LinksAre ==
    ASSUME NEW inBuf, NEW start, NEW size, NEW a \in Nat, size > 0, Linked(inBuf, start, size, a)
    PROVE  FlattenSeq(Parts(inBuf, start, size)) = Place(a, size)
<1>1. /\ inBuf \in Seq(Seq(Nat)) /\ size \in Nat /\ start \in Nat
      /\ size <= Off(start, Len(inBuf) + 1)
  <2>1. inBuf \in Seq(Seq(Nat)) /\ size \in Nat /\ start \in 0..size
    BY Zenon DEF Linked, LinksHold
  <2>2. size = 0 \/ size <= Off(start, Len(inBuf) + 1)
    BY Zenon DEF Linked, LinksHold
  <2> QED  BY <2>1, <2>2
<1>2. PICK n \in Nat : n = Len(inBuf)
  BY <1>1
<1>3. n > 0
  <2> SUFFICES ASSUME n = 0 PROVE FALSE
    OBVIOUS
  <2>1. Len(inBuf) + 1 = 1
    BY <1>2
  <2>2. Off(start, Len(inBuf) + 1) = 0
    BY <2>1, Zenon DEF Off
  <2> QED  BY <1>1, <2>2
<1>4. PICK parts : parts = Parts(inBuf, start, size)
  OBVIOUS
<1>5. ASSUME NEW k \in 1..n
      PROVE  /\ PartHas(parts[k], a, Off(start, k), Off(start, k + 1), size)
             /\ parts[k] \in Seq(Nat)
  <2>1. k \in Nat /\ k > 0 /\ k <= Len(inBuf)
    BY <1>2
  <2> QED  BY <1>1, <1>4, <2>1, PartIs, Zenon
<1>6. Len(parts) = n
  <2>1. DOMAIN parts = 1..n
    <3>1. DOMAIN inBuf = 1..n
      BY <1>1, <1>2
    <3> QED  BY <1>4, <3>1 DEF Parts
  <2>2. parts = [k \in 1..n |-> parts[k]]
    BY <1>2, <1>4, <2>1 DEF Parts
  <2> QED  BY <2>2
<1>7. PICK f : Flattens(f, parts, n) /\ f[n] = FlattenSeq(parts)
  <2>1. \A k \in 1..n : parts[k] \in Seq(Nat)
    BY <1>5
  <2> QED  BY <1>3, <1>6, <2>1, FlattenIs, Zenon
<1> DEFINE Upto(k, i) == i \in Nat /\ f[k] = Place(a, i) /\ Reaches(i, Off(start, k + 1), size)
           P == {k \in 0..(n - 1) : \E i \in Nat : Upto(k + 1, i)}
<1>8. ASSUME NEW k \in 1..n, NEW e \in Nat, Reaches(e, Off(start, k), size),
             NEW s, s = Place(a, e) \o parts[k]
      PROVE  Reached(s, a, Off(start, k + 1), size)
  <2>1. k \in Nat /\ k > 0 /\ k + 1 \in Nat /\ k + 1 > 0 /\ k <= k + 1
    OBVIOUS
  <2>2. PICK off \in Nat, next \in Nat : off = Off(start, k) /\ next = Off(start, k + 1)
    BY <1>1, <2>1, OffIs, Zenon
  <2>3. next >= off
    <3>1. Off(start, k) <= Off(start, k + 1)
      BY <1>1, <2>1, OffGrows, Zenon
    <3> QED  BY <2>2, <3>1
  <2>4. PICK total, w : total \in Nat /\ total = size /\ w = parts[k]
    BY <1>1
  <2>5. PartHas(w, a, off, next, total) /\ Reaches(e, off, total)
    BY <1>5, <1>8, <2>2, <2>4, Zenon
  <2>6. s = Place(a, e) \o w
    BY <1>8, <2>4
  <2>7. Reached(s, a, next, total)
    BY <2>2, <2>3, <2>4, <2>5, <2>6, PartJoins, Zenon
  <2> QED  BY <2>2, <2>4, <2>7, Zenon
<1>9. 0 \in P
  <2>1. 1 \in 1..n /\ 0 \in 0..(n - 1) /\ 0 + 1 = 1
    BY <1>3
  <2>2. PICK o \in Nat : o = 0
    OBVIOUS
  <2>3. Off(start, 1) = o
    BY <2>2, Zenon DEF Off
  <2>4. Reaches(o, Off(start, 1), size)
    BY <1>1, <2>2, <2>3 DEF Reaches
  <2>0. PICK s : s = Place(a, o) \o parts[1]
    OBVIOUS
  <2>5. PICK i \in Nat : Reaches(i, Off(start, 1 + 1), size) /\ s = Place(a, i)
    <3>1. Reached(s, a, Off(start, 1 + 1), size)
      BY <1>8, <2>0, <2>1, <2>2, <2>4, Zenon
    <3> QED  BY <3>1, Zenon DEF Reached
  <2>6. Place(a, o) = <<>>
    BY <2>2, NoPlace, Zenon
  <2>7. <<>> \o parts[1] = parts[1]
    <3>1. parts[1] \in Seq(Nat)
      BY <1>5, <2>1
    <3> QED  BY <3>1
  <2>8. f[1] = Place(a, i)
    BY <1>7, <2>0, <2>5, <2>6, <2>7, Zenon DEF Flattens
  <2>9. Upto(1, i)
    BY <2>5, <2>8, Zenon
  <2> QED  BY <2>1, <2>9, Zenon
<1>10. \A k \in 0..(n - 2) : k \in P => k + 1 \in P
  <2> SUFFICES ASSUME NEW k \in 0..(n - 2), k \in P PROVE k + 1 \in P
    OBVIOUS
  <2>1. PICK e \in Nat : Upto(k + 1, e)
    OBVIOUS
  <2>2. PICK j \in Nat : j = k + 2
    OBVIOUS
  <2>3. j \in 1..n /\ j \in 2..n /\ j - 1 = k + 1 /\ (k + 1) + 1 = j /\ k + 1 \in 0..(n - 1)
    BY <2>2
  <2>4. f[k + 1] = Place(a, e) /\ Reaches(e, Off(start, j), size)
    BY <2>1, <2>3, Zenon
  <2>5. f[j] = f[k + 1] \o parts[j]
    BY <1>7, <2>3, Zenon DEF Flattens
  <2>6. PICK i \in Nat : Reaches(i, Off(start, j + 1), size) /\ f[j] = Place(a, i)
    <3>1. f[j] = Place(a, e) \o parts[j]
      BY <2>4, <2>5
    <3>2. Reached(f[j], a, Off(start, j + 1), size)
      BY <1>8, <2>1, <2>3, <2>4, <3>1, Zenon
    <3> QED  BY <3>2, Zenon DEF Reached
  <2>7. Upto(j, i)
    BY <2>4, <2>5, <2>6, Zenon
  <2> QED  BY <2>3, <2>7, Zenon
<1>11. n - 1 \in P
  <2>1. PICK m \in Nat : m = n - 1
    BY <1>3
  <2>2. m - 1 = n - 2 /\ m \in 0..m
    BY <2>1
  <2> HIDE DEF P
  <2>3. \A k \in 0..(m - 1) : k \in P => k + 1 \in P
    BY <1>10, <2>2, Zenon
  <2>4. m \in P
    BY <1>9, <2>2, <2>3, UpwardInduction, Zenon
  <2> QED  BY <2>1, <2>4, Zenon
<1>12. PICK i \in Nat : Upto(n, i)
  <2>1. (n - 1) + 1 = n
    OBVIOUS
  <2> QED  BY <1>11, <2>1, Zenon
<1>13. i = size
  BY <1>1, <1>2, <1>12 DEF Reaches
<1> QED  BY <1>4, <1>7, <1>12, <1>13, Zenon

-----------------------------------------------------------------------------
(* What one thread gets when it takes over.                                *)

\* What the threads still have.
InRow == FlattenSeq([k \in DOMAIN Row |-> LinksOf(Row[k])])
Unread == IF readWasFinished THEN <<>> ELSE Place(readProcessed, Len(stream) - readProcessed)

TakenOver(p, z) ==
    \/ numFilledThreads = 0 /\ p = z
    \/ /\ numFilledThreads = 1 /\ filledThreadStart \in Threads /\ filledThreadStart < numStartedThreads
       /\ LET th == threads[filledThreadStart]
          IN  /\ Linked(th.inBuf, th.inDataSize_Start, th.inDataSize, p)
              /\ th.inDataSize > 0 /\ z = p + th.inDataSize

LEMMA BelowModulus ==
    ASSUME NEW f \in Nat, NEW n \in Nat, f < n
    PROVE  f % n = f
OBVIOUS

LEMMA RowIs ==
    ASSUME numStartedThreads \in Nat, NEW p \in Nat, NEW z \in Nat, p <= z, TakenOver(p, z)
    PROVE  InRow = Place(p, z - p)
<1>1. PICK rows : rows = [k \in DOMAIN Row |-> LinksOf(Row[k])]
  OBVIOUS
<1>2. CASE numFilledThreads = 0 /\ p = z
  <2>1. DOMAIN Row = {}
    BY <1>2 DEF Row
  <2>2. rows = <<>> /\ Len(rows) = 0
    BY <1>1, <2>1
  <2>3. FlattenSeq(rows) = <<>>
    BY <2>2, Zenon DEF FlattenSeq
  <2>4. z - p = 0
    BY <1>2
  <2>5. Place(p, 0) = <<>>
    BY NoPlace, Zenon
  <2> QED  BY <1>1, <2>3, <2>4, <2>5, Zenon DEF InRow
<1>3. CASE numFilledThreads = 1
  <2>1. PICK f, th : f = filledThreadStart /\ th = threads[f]
    OBVIOUS
  <2>2. /\ numFilledThreads = 1 /\ f \in Threads /\ f < numStartedThreads
        /\ Linked(th.inBuf, th.inDataSize_Start, th.inDataSize, p)
        /\ th.inDataSize > 0 /\ z = p + th.inDataSize
    <3>1. numFilledThreads # 0
      BY <1>3
    <3> QED  BY <2>1, <3>1, Zenon DEF TakenOver
  <2>3. PICK size : size = th.inDataSize
    OBVIOUS
  <2>4. size \in Nat /\ size > 0
    BY <2>2, <2>3, Zenon DEF Linked, LinksHold
  <2>5. FlattenSeq(Parts(th.inBuf, th.inDataSize_Start, size)) = Place(p, size)
    BY <2>2, <2>3, LinksAre, Zenon
  <2>6. LinksOf(f) = FlattenSeq(Parts(th.inBuf, th.inDataSize_Start, size))
    BY <2>1, <2>3, Zenon DEF LinksOf, Parts
  <2>7. Row = [k \in 1..1 |-> (f + k - 1) % numStartedThreads]
    BY <2>1, <2>2, Zenon DEF Row
  <2>8. DOMAIN Row = 1..1
    BY <2>7, Zenon
  <2>9. \A k \in 1..1 : Row[k] = f
    <3>1. Row[1] = (f + 1 - 1) % numStartedThreads
      BY <2>7
    <3>2. f \in Nat
      BY <2>2 DEF Threads
    <3>3. f + 1 - 1 = f
      BY <3>2
    <3>4. f % numStartedThreads = f
      BY <2>2, <3>2, BelowModulus, Zenon
    <3> QED  BY <3>1, <3>3, <3>4
  <2>10. rows = [k \in 1..1 |-> LinksOf(f)]
    BY <1>1, <2>8, <2>9, Zenon
  <2>11. Place(p, size) \in Seq(Nat)
    BY <2>4, PlaceIs
  <2>12. Len(rows) = 1 /\ \A k \in 1..1 : rows[k] \in Seq(Nat)
    BY <2>5, <2>6, <2>10, <2>11
  <2>13. PICK i \in Nat : i = 1 /\ i > 0
    OBVIOUS
  <2>14. PICK g : Flattens(g, rows, i) /\ g[i] = FlattenSeq(rows)
    BY <2>12, <2>13, FlattenIs, Zenon
  <2>15. FlattenSeq(rows) = rows[1]
    BY <2>13, <2>14, Zenon DEF Flattens
  <2>16. rows[1] = LinksOf(f)
    BY <2>10
  <2>17. z - p = size
    BY <2>2, <2>3, <2>4
  <2> QED  BY <1>1, <2>5, <2>6, <2>15, <2>16, <2>17, Zenon DEF InRow
<1> QED  BY <1>2, <1>3, Zenon DEF TakenOver

\* What one thread has when it begins.
OneBegins == main = "fetch" /\ st = [NoSt EXCEPT !.tMode = st.tMode, !.outProcessed = Len(out)]

LEMMA BeginsAt ==
    ASSUME OneBegins, NEW p \in Nat, NEW n \in Nat, NEW z \in Nat, StAt(p, n, z), Len(stream) \in Nat
    PROVE  /\ st.dec = NewDecoder /\ out = Out(stream, p)
           /\ p <= z /\ TakenOver(p, z) /\ Room(p) /\ Good(stream, outSize, 0, p)
           /\ Live(stream, z) => Contiguous(z)
           /\ LikeDec(stream, NewDecoder, p) \/ (numFilledThreads = 0 /\ NothingLeft)
<1>1. st.dec = NewDecoder /\ st.dic = <<>> /\ st.inLim = 0
  BY DEF OneBegins, NoSt
<1>2. Room(p) /\ Good(stream, outSize, 0, p) /\ out \in Seq(Nat) /\ out \o st.dic = Out(stream, p)
  BY Zenon DEF StAt, StOut
<1>3. p + n <= z /\ RestOf(p + n, z) /\ (main = "fetch" => n = 0) /\ (Live(stream, z) => Contiguous(z))
  BY Zenon DEF StAt, StData
<1>4. n = 0
  BY <1>3 DEF OneBegins
<1>5. p + n = p
  BY <1>4
<1>6. p <= z /\ RestOf(p, z)
  BY <1>3, <1>5, Zenon
<1>7. out = Out(stream, p)
  BY <1>1, <1>2, NothingAdded, Zenon
<1>8. TakenOver(p, z)
  BY <1>1, <1>6, Zenon DEF RestOf, TakenOver
<1>9. LikeDec(stream, NewDecoder, p) \/ (numFilledThreads = 0 /\ NothingLeft)
  BY <1>1, Zenon DEF StAt, StDec
<1> QED  BY <1>1, <1>2, <1>3, <1>6, <1>7, <1>8, <1>9, Zenon

\* The places that it gets.
KeptIs(kept, p, z) ==
    /\ kept \in Seq(Nat) /\ Len(kept) \in Nat /\ Len(kept) >= z - p
    /\ \A i \in 1..(z - p) : kept[i] = p + i
    /\ Live(stream, z) => kept = Place(p, Len(stream) - p)

LEMMA KeptAre ==
    ASSUME CallInv, ReadInv, numStartedThreads \in Nat, NEW p \in Where, NEW z \in Where, p <= z, TakenOver(p, z),
           crossBlock \in Seq(Nat), Live(stream, z) => Contiguous(z), readRes = OK
    PROVE  KeptIs(Kept, p, z)
<1>1. Len(stream) \in Nat /\ p \in Nat /\ z \in Nat /\ z <= Len(stream)
  BY CallIs DEF Where
<1>2. PICK m \in Nat, row \in {Place(p, z - p)} : m = z - p /\ row = Place(p, m)
  BY <1>1
<1>3. InRow = row
  BY <1>1, <1>2, RowIs, Zenon
<1>4. /\ row \in Seq(Nat) /\ Len(row) = m /\ \A i \in 1..m : row[i] = p + i
  BY <1>1, <1>2, PlaceIs
<1>5. readProcessed \in Nat /\ readProcessed <= Len(stream) /\ (readWasFinished => readProcessed = Len(stream))
  BY <1>1 DEF ReadInv, Where
<1>6. PICK rest \in Nat : rest = Len(stream) - readProcessed
  <2>1. Len(stream) - readProcessed \in Nat
    BY <1>1, <1>5
  <2> QED  BY <2>1, Zenon
<1>7. Unread = Place(readProcessed, rest)
  <2>1. CASE readWasFinished
    <3>1. rest = 0
      BY <1>1, <1>5, <1>6, <2>1
    <3> QED  BY <2>1, <3>1, NoPlace, Zenon DEF Unread
  <2>2. CASE ~ readWasFinished
    BY <1>6, <2>2, Zenon DEF Unread
  <2> QED  BY <2>1, <2>2
<1>8. PICK unread : unread = Place(readProcessed, rest)
  OBVIOUS
<1>9. unread \in Seq(Nat) /\ Len(unread) = rest
  BY <1>5, <1>8, PlaceIs
<1>10. PICK first, kept : first = row \o crossBlock /\ kept = first \o unread
  OBVIOUS
<1>11. Kept = kept
  BY <1>3, <1>7, <1>8, <1>10, Zenon DEF Kept, InRow, Unread
<1>12. first \in Seq(Nat) /\ Len(first) \in Nat /\ Len(first) >= m /\ \A i \in 1..m : first[i] = p + i
  BY <1>4, <1>10
<1>13. kept \in Seq(Nat) /\ Len(kept) \in Nat /\ Len(kept) >= m /\ \A i \in 1..m : kept[i] = p + i
  BY <1>9, <1>10, <1>12
<1>14. ASSUME Live(stream, z) PROVE kept = Place(p, Len(stream) - p)
  <2>1. PICK n \in 0..readProcessed : crossBlock = Place(z, n) /\ z + n = readProcessed
    BY <1>14, Zenon DEF Contiguous
  <2>2. n \in Nat /\ m + n \in Nat /\ p + m = z /\ p + (m + n) = readProcessed
    BY <1>1, <1>2, <1>5, <2>1
  <2>3. first = Place(p, m + n)
    <3>1. Place(p, m) \o Place(p + m, n) = Place(p, m + n)
      <4>1. p \in Nat /\ m \in Nat /\ n \in Nat
        BY <1>1, <1>2, <2>2
      <4> QED  BY <4>1, PlaceJoins
    <3>2. p + m = z
      BY <2>2
    <3> QED  BY <1>2, <1>10, <2>1, <3>1, <3>2, Zenon
  <2>4. kept = Place(p, (m + n) + rest)
    <3>1. PICK k \in Nat : k = m + n
      BY <2>2
    <3>2. Place(p, k) \o Place(p + k, rest) = Place(p, k + rest)
      <4>1. p \in Nat /\ k \in Nat /\ rest \in Nat
        BY <1>1, <1>6, <3>1
      <4> QED  BY <4>1, PlaceJoins
    <3> QED  BY <3>1, <3>2, <1>8, <1>10, <2>2, <2>3, <3>1, Zenon
  <2>5. (m + n) + rest = Len(stream) - p
    BY <1>1, <1>5, <1>6, <2>2
  <2> QED  BY <2>4, <2>5, Zenon
<1> QED  BY <1>2, <1>11, <1>13, <1>14, Zenon DEF KeptIs

-----------------------------------------------------------------------------
\* As long as the stream goes on these are the places after p.
LEMMA KeptLeads ==
    ASSUME NEW kept, NEW p \in Where, NEW z \in Where, p <= z, Len(stream) \in Nat,
           stream \in Seq(Symbols), KeptIs(kept, p, z)
    PROVE  Leads(stream, kept, p)
<1>1. p \in Nat /\ z \in Nat /\ p <= Len(stream) /\ z <= Len(stream)
  BY DEF Where
<1>2. CASE Live(stream, z)
  <2>1. PICK n \in Nat : n = Len(stream) - p
    BY <1>1
  <2>2. kept = Place(p, n) /\ p + n <= Len(stream)
    <3>1. kept = Place(p, Len(stream) - p)
      BY <1>2, Zenon DEF KeptIs
    <3> QED  BY <1>1, <2>1, <3>1
  <2> QED  BY <1>1, <2>1, <2>2, LeadsOn, Zenon
<1>3. CASE ~ Live(stream, z)
  <2> SUFFICES ASSUME NEW i \in 1..Len(kept), LiveFrom(stream, p, p + i)
               PROVE  kept[i] = p + i /\ p + i <= Len(stream)
    BY Zenon DEF Leads
  <2>1. Len(kept) \in Nat /\ \A j \in 1..(z - p) : kept[j] = p + j
    BY DEF KeptIs
  <2>2. i \in Nat /\ i >= 1
    BY <2>1
  <2>3. ~ (z \in p..((p + i) - 1))
    BY <1>3, Zenon DEF LiveFrom
  <2>4. i <= z - p
    BY <1>1, <2>2, <2>3
  <2>5. i \in 1..(z - p) /\ p + i <= Len(stream)
    BY <1>1, <2>2, <2>4
  <2> QED  BY <2>1, <2>5
<1> QED  BY <1>2, <1>3

\* It goes on to the end that one decoder would come to.
LEMMA TailOf ==
    ASSUME NEW s \in Seq(Nat), NEW t \in Seq(Nat)
    PROVE  SubSeq(s \o t, Len(s) + 1, Len(s \o t)) = t
<1>1. PICK n \in Nat, m \in Nat : n = Len(s) /\ m = Len(t)
  OBVIOUS
<1>2. PICK j : j = s \o t
  OBVIOUS
<1>3. j \in Seq(Nat) /\ Len(j) = n + m /\ \A i \in 1..m : j[n + i] = t[i]
  BY <1>1, <1>2
<1>4. PICK r : r = SubSeq(j, n + 1, n + m)
  OBVIOUS
<1>5. r \in Seq(Nat) /\ Len(r) = m /\ \A i \in 1..m : r[i] = j[n + i]
  BY <1>3, <1>4
<1>6. r = t
  <2>1. \A i \in 1..m : r[i] = t[i]
    BY <1>3, <1>5
  <2>2. Len(r) = Len(t) /\ \A i \in 1..Len(r) : r[i] = t[i]
    BY <1>1, <1>5, <2>1
  <2> QED  BY <1>5, <2>2, SeqEqual, Zenon
<1> QED  BY <1>1, <1>2, <1>3, <1>4, <1>6

LEMMA KeptDecodes ==
    ASSUME CallInv, NEW kept, NEW p \in Where, NEW z \in Where, p <= z, KeptIs(kept, p, z),
           Room(p), Good(stream, outSize, 0, p), out = Out(stream, p),
           Len(kept) > 0 => LikeDec(stream, NewDecoder, p)
    PROVE  Decode(NewDecoder, kept, stream, outSize - Len(out), TRUE).out
             = SubSeq(held.out, Len(out) + 1, Len(held.out))
<1>1. stream \in Seq(Symbols) /\ Len(stream) \in Nat /\ outSize \in Nat
  BY CallIs
<1>2. p \in Nat /\ z \in Nat /\ p \in 0..Len(stream) /\ z <= Len(stream)
  BY <1>1 DEF Where
<1>3. Leads(stream, kept, p)
  BY <1>1, KeptLeads, Zenon
<1>4. Live(stream, p) /\ Count(stream, p) <= outSize
  BY Zenon DEF Room
<1>5. kept \in Seq(Nat) /\ Len(kept) \in Nat
  BY Zenon DEF KeptIs
<1>6. Count(stream, p) \in Nat /\ Out(stream, p) \in Seq(Nat)
  BY <1>1, <1>2, WalkTypes, Zenon
<1>7. DecodesFrom(stream, p, NewDecoder, kept, outSize, TRUE)
  <2>1. NewDecoder \in Decs
    BY DEF NewDecoder, Decs, States
  <2>2. outSize >= Count(stream, p)
    BY <1>1, <1>4, <1>6
  <2>3. TRUE \in BOOLEAN
    OBVIOUS
  <2> QED  BY <1>1, <1>2, <1>3, <1>4, <1>5, <2>1, <2>2, <2>3, Zenon DEF DecodesFrom
<1>8. PICK r : r = Decode(NewDecoder, kept, stream, outSize - Count(stream, p), TRUE)
  OBVIOUS
<1>9. PICK q : DecodedTo(r, stream, NewDecoder, p, outSize, TRUE, q, Len(kept))
  BY <1>7, <1>8, DecodeWalk, Zenon
<1>9a. r \in DecodeAccs
  BY <1>7, <1>8, DecodeWalk, Zenon
<1>10. PICK e : HeldTo(held, stream, outSize, e)
  BY <1>1, HeldIs, Zenon DEF CallInv
<1>11. q \in p..Len(stream) /\ Comes(stream, r.out, p, q) /\ Good(stream, outSize, p, q)
  BY <1>9, Zenon DEF DecodedTo, Good
<1>12. q \in Nat /\ q >= p /\ q <= Len(stream) /\ q \in 0..Len(stream)
  BY <1>1, <1>2, <1>11
<1>13. PICK o \in Nat : o = 0
  OBVIOUS
<1>14. Good(stream, outSize, o, q)
  BY <1>2, <1>11, <1>12, <1>13, GoodJoins, Zenon
<1>15. q <= e
  BY <1>1, <1>10, <1>12, <1>13, <1>14, GoodWithin, Zenon
<1>16. e \in 0..Len(stream) /\ held.out = Out(stream, e) /\ Good(stream, outSize, o, e)
  BY <1>10, <1>13, Zenon DEF HeldTo
<1>17. e \in Nat /\ e <= Len(stream)
  BY <1>1, <1>16
<1>18. ASSUME q < e PROVE FALSE
  <2>1. \A j \in (o + 1)..e : Accepted(stream, j, outSize, TRUE)
    BY <1>16, Zenon DEF Good, AllAccepted
  <2>2. q + 1 \in (o + 1)..e
    BY <1>12, <1>13, <1>17, <1>18
  <2>3. Accepted(stream, q + 1, outSize, TRUE)
    BY <2>1, <2>2, Zenon
  <2>4. Live(stream, q)
    <3>1. LiveFrom(stream, o, e)
      <4>1. o \in 0..Len(stream) /\ e \in o..Len(stream)
        BY <1>13, <1>16
      <4> QED  BY <1>1, <1>16, <4>1, AcceptedLive, Zenon DEF Good
    <3>2. q \in o..(e - 1)
      BY <1>12, <1>13, <1>17, <1>18
    <3> QED  BY <3>1, <3>2, Zenon DEF LiveFrom
  <2>5. r.res # "DATA"
    BY <1>9, <2>3, Zenon DEF DecodedTo
  <2>6. r.res = "OK"
    BY <1>9a, <2>5 DEF DecodeAccs
  <2>7. /\ r.dec = IF q = p THEN NewDecoder ELSE Dec(stream, q)
        /\ q = p + Len(kept) \/ r.dec.state = "FINISHED"
    BY <1>9, <2>6, Zenon DEF DecodedTo
  <2>8. r.dec.state # "FINISHED"
    <3>1. CASE q = p
      BY <2>7, <3>1 DEF NewDecoder
    <3>2. CASE q # p
      <4>1. r.dec.state = State(stream, q)
        BY <1>1, <1>12, <2>7, <3>2, WalkTypes, Zenon
      <4> QED  BY <2>4, <4>1 DEF Live
    <3> QED  BY <3>1, <3>2
  <2>9. q = p + Len(kept)
    BY <2>7, <2>8
  <2>10. CASE Live(stream, z)
    <3>1. PICK n \in Nat : n = Len(stream) - p
      BY <1>1, <1>2
    <3>2. kept = Place(p, n)
      BY <2>10, <3>1, Zenon DEF KeptIs
    <3>3. Len(kept) = n
      BY <1>2, <3>1, <3>2, PlaceIs, Zenon
    <3> QED  BY <1>1, <1>2, <1>17, <1>18, <2>9, <3>1, <3>3
  <2>11. CASE ~ Live(stream, z)
    <3>1. q >= z
      <4>1. Len(kept) >= z - p
        BY DEF KeptIs
      <4> QED  BY <1>2, <1>5, <2>9, <4>1
    <3>2. q # z
      BY <2>4, <2>11
    <3>3. z \in p..(q - 1)
      BY <1>2, <1>12, <3>1, <3>2
    <3>4. LiveFrom(stream, p, q)
      BY <1>1, <1>2, <1>11, AcceptedLive, Zenon DEF Good
    <3> QED  BY <2>11, <3>3, <3>4, Zenon DEF LiveFrom
  <2> QED  BY <2>10, <2>11
<1>19. q = e
  BY <1>12, <1>15, <1>17, <1>18
<1>20. out \o r.out = held.out
  BY <1>1, <1>2, <1>11, <1>16, <1>19, OutJoins, Zenon
<1>21. r.out \in Seq(Nat)
  BY <1>11, Zenon DEF Comes
<1>22. SubSeq(out \o r.out, Len(out) + 1, Len(out \o r.out)) = r.out
  BY <1>6, <1>21, TailOf, Zenon
<1>23. Count(stream, p) = Len(out)
  BY Zenon DEF Count
<1> QED  BY <1>8, <1>20, <1>22, <1>23, Zenon

-----------------------------------------------------------------------------
LEMMA KeptNothing ==
    ASSUME numStartedThreads \in Nat, NEW p \in Nat, NEW z \in Nat, p <= z, TakenOver(p, z),
           numFilledThreads = 0, NothingLeft
    PROVE  Kept = <<>>
<1>1. numFilledThreads # 1
  OBVIOUS
<1>2. p = z
  BY <1>1, Zenon DEF TakenOver
<1>3. z - p = 0
  BY <1>2
<1>4. InRow = <<>>
  BY <1>3, RowIs, NoPlace, Zenon
<1>5. readWasFinished /\ crossBlock = <<>>
  BY Zenon DEF NothingLeft
<1>6. <<>> \o <<>> = <<>>
  OBVIOUS
<1> QED  BY <1>4, <1>5, <1>6, Zenon DEF Kept, InRow

LEMMA HandedIs == TurnsInv /\ DataInv /\ CrossInv => HandedOver
<1> SUFFICES ASSUME TurnsInv, DataInv, CrossInv, OneBegins, readRes = OK
             PROVE  Decode(NewDecoder, Kept, stream, outSize - Len(out), TRUE).out
                      = SubSeq(held.out, Len(out) + 1, Len(held.out))
  BY Zenon DEF HandedOver, OneBegins
<1>1. CallInv /\ ReadInv /\ StInv
  BY Zenon DEF DataInv, OneBegins
<1>2. PICK p, n, z \in Where : StAt(p, n, z)
  BY <1>1, Zenon DEF StInv
<1>3. Len(stream) \in Nat /\ p \in Nat /\ n \in Nat /\ z \in Nat
  BY <1>1, <1>2, CallIs DEF Where
<1>4. /\ out = Out(stream, p) /\ p <= z /\ TakenOver(p, z) /\ Room(p) /\ Good(stream, outSize, 0, p)
      /\ Live(stream, z) => Contiguous(z)
      /\ LikeDec(stream, NewDecoder, p) \/ (numFilledThreads = 0 /\ NothingLeft)
  BY <1>2, <1>3, BeginsAt, Zenon
<1>5. crossBlock \in Seq(Nat)
  BY <1>1, Zenon DEF StInv, CrossInv, GaveUp
<1>6. numStartedThreads \in Nat
  BY DEF TurnsInv, Shape
<1>7. KeptIs(Kept, p, z)
  BY <1>1, <1>2, <1>4, <1>5, <1>6, KeptAre, Zenon
<1>8. Len(Kept) > 0 => LikeDec(stream, NewDecoder, p)
  <2> SUFFICES ASSUME numFilledThreads = 0 /\ NothingLeft PROVE ~ (Len(Kept) > 0)
    BY <1>4, Zenon
  <2>1. Kept = <<>>
    BY <1>3, <1>4, <1>6, KeptNothing, Zenon
  <2>2. ~ (Len(<<>>) > 0)
    OBVIOUS
  <2> QED  BY <2>1, <2>2, Zenon
<1>9. PICK kept : kept = Kept
  OBVIOUS
<1> QED  BY <1>1, <1>2, <1>4, <1>7, <1>8, <1>9, KeptDecodes, Zenon

-----------------------------------------------------------------------------
(* What is written is added to what was there.                             *)

LEMMA PartGrows ==
    ASSUME NEW s \in Seq(Nat), NEW buf \in Seq(Nat), NEW n \in Int, n <= Len(buf)
    PROVE  IsPrefix(s, s \o SubSeq(buf, 1, n)) /\ s \o SubSeq(buf, 1, n) \in Seq(Nat)
<1>1. PICK t : t = SubSeq(buf, 1, n)
  OBVIOUS
<1>2. t \in Seq(Nat)
  <2>1. CASE n <= 0
    <3>1. t = <<>>
      BY <1>1, <2>1
    <3> QED  BY <3>1
  <2>2. CASE n > 0
    BY <1>1, <2>2
  <2> QED  BY <2>1, <2>2
<1>3. s \o t \in Seq(Nat)
  BY <1>2, JoinTypes
<1> QED  BY <1>1, <1>2, <1>3, JoinGrows, Zenon

LEMMA WriteGrows ==
    ASSUME Shape, Together, CallInv, ReadInv, MtInv, NEW t \in Threads, Write(t) \/ WriteFails(t)
    PROVE  IsPrefix(out, out') /\ out' \in Seq(Nat)
<1>1. HasTurn(t) /\ ~ wasInterrupted /\ ~ Troublesome(me[t])
  BY Zenon DEF Write, WriteFails, MayWrite, Troublesome
<1>2. PICK A, z, a : InTurnWith(t, A, z, a)
  BY <1>1, TurnOf, Zenon
<1>3. PICK c : c = coders[t]
  OBVIOUS
<1>4. a \in Where /\ OutAt(a) /\ BlockHeld("write", threads[t].inBuf, me[t], c, a)
  BY <1>2, <1>3, Zenon DEF InTurnWith
<1>5. Fields(c) /\ (CodedWhole(c, me[t], a) \/ CodedInPart(c, me[t], a))
  BY <1>1, <1>4, Zenon DEF BlockHeld
<1>6. PICK m \in Int : m = c.outCodeSize /\ m <= Len(c.outBuf)
  <2>1. stream \in Seq(Symbols) /\ Len(stream) \in Nat /\ a \in Nat /\ a \in 0..Len(stream)
    BY <1>4, CallIs DEF Where
  <2>2. PICK size \in Nat : size = me[t].size
    BY <1>4, Zenon DEF BlockHeld, Linked, LinksHold
  <2>3. a + size <= Len(stream)
    BY <1>1, <1>4, <2>2, Zenon DEF BlockHeld, Parsed
  <2>4. PICK q \in a..(a + size) : CameOut(c, a, q - a)
    <3>1. CASE CodedWhole(c, me[t], a)
      <4>1. (a + size) - a = size /\ a + size \in a..(a + size)
        BY <2>1
      <4> QED  BY <2>2, <3>1, <4>1, Zenon DEF CodedWhole
    <3>2. CASE CodedInPart(c, me[t], a)
      BY <2>2, <3>2, Zenon DEF CodedInPart
    <3> QED  BY <1>5, <3>1, <3>2
  <2>5. c.outCodeSize = Count(stream, a + (q - a)) - Count(stream, a) /\ c.outCodeSize <= Len(c.outBuf)
    BY <2>4, Zenon DEF CameOut
  <2>6. PICK b \in 0..Len(stream) : b = a + (q - a)
    BY <2>1, <2>3, <2>4
  <2>7. Count(stream, b) \in Nat /\ Count(stream, a) \in Nat
    BY <2>1, <2>6, WalkTypes, Zenon
  <2>8. c.outCodeSize \in Int
    BY <2>5, <2>6, <2>7
  <2> QED  BY <2>5, <2>8
<1>7. out \in Seq(Nat)
  <2>1. stream \in Seq(Symbols) /\ a \in 0..Len(stream)
    BY <1>4, CallIs DEF Where
  <2> QED  BY <1>4, <2>1, WalkTypes, Zenon DEF OutAt
<1>8. c.outBuf \in Seq(Nat)
  BY <1>5, Zenon DEF Fields
<1>9. CASE Write(t)
  <2>1. out' = out \o SubSeq(c.outBuf, 1, m)
    BY <1>3, <1>6, <1>9, Zenon DEF Write
  <2> QED  BY <1>6, <1>7, <1>8, <2>1, PartGrows, Zenon
<1>10. CASE WriteFails(t)
  <2>1. PICK n \in 0..(m - 1) : out' = out \o SubSeq(c.outBuf, 1, n)
    BY <1>3, <1>6, <1>10, Zenon DEF WriteFails
  <2>2. n \in Int /\ n <= Len(c.outBuf)
    <3>1. Len(c.outBuf) \in Nat
      BY <1>8
    <3> QED  BY <1>6, <2>1, <3>1
  <2> QED  BY <1>7, <1>8, <2>1, <2>2, PartGrows, Zenon
<1> QED  BY <1>9, <1>10

LEMMA ThreadGrows ==
    ASSUME Shape, Together, CallInv, ReadInv, MtInv, NEW t \in Threads, Thread(t)
    PROVE  out' = out \/ (IsPrefix(out, out') /\ out' \in Seq(Nat))
<1>1. CASE Write(t) \/ WriteFails(t)
  BY <1>1, WriteGrows
<1>2. CASE ~ (Write(t) \/ WriteFails(t))
  BY <1>2, Zenon DEF Thread, BeginBlock, LinkFails, ReadLink, ReadFails, Pass, NoMemory, NoThread,
     PassOn, Code, WriteNothing
<1> QED  BY <1>1, <1>2
-----------------------------------------------------------------------------
(* How it is judged.                                                       *)

Faulty == result \in {"READ", "WRITE", "MEM"} \/ WriteHasFailed

LEMMA VerdictIs ==
    /\ main \notin {"close", "done"} => Verdict = "none"
    /\ main \in {"close", "done"} => /\ Faulty => Verdict = "fault"
                                     /\ ~ Faulty /\ result = OK => Verdict = "ok"
                                     /\ ~ Faulty /\ result # OK => Verdict = "refused"
BY Zenon DEF Verdict, Faulty

\* Output in its order, of what is wanted.
InOrder == IsPrefix(out, out') /\ Agrees'

LEMMA Delivering ==
    ASSUME SameCall, Verdict = "none", Verdict' \in {"none", "fault"}, InOrder
    PROVE  Promised!Deliver
<1>1. held' = held /\ Sound' = Sound
  BY DEF SameCall, Sound
<1> QED  BY <1>1, Zenon DEF Promised!Deliver, InOrder, Agrees, IsPrefix, Promised!IsPrefix

LEMMA Judging ==
    ASSUME SameCall, Verdict = "none", Verdict' \in {"ok", "refused", "fault"}, InOrder,
           Verdict' # "fault" /\ Sound => Verdict' = "ok" /\ out' = held.out
    PROVE  Promised!Judge
<1>1. held' = held /\ Sound' = Sound
  BY DEF SameCall, Sound
<1> QED  BY <1>1, Zenon DEF Promised!Judge, InOrder, Agrees, IsPrefix, Promised!IsPrefix

Promise == <<held.out, Sound, out, Verdict>>

LEMMA Keeping ==
    ASSUME SameCall, Verdict' = Verdict, out' = out
    PROVE  UNCHANGED Promise
<1>1. held' = held /\ Sound' = Sound
  BY DEF SameCall, Sound
<1> QED  BY <1>1, Zenon DEF Promise

-----------------------------------------------------------------------------
(* Every step delivers, judges or changes nothing of it.                   *)
OutInv == main = "mt" => out \in Seq(Nat)

Promises == [Promised!Deliver \/ Promised!Judge]_Promise

LEMMA OutInit == Init => OutInv
BY DEF Init, OutInv

\* Until it has ended there is no verdict.
LEMMA NoVerdict ==
    ASSUME main \notin {"close", "done"}
    PROVE  Verdict = "none"
BY VerdictIs, Zenon

LEMMA NoVerdictYet ==
    ASSUME main' \notin {"close", "done"}
    PROVE  Verdict' = "none"
BY Zenon DEF Verdict

\* And then it is one of these.
LEMMA VerdictThen ==
    ASSUME main' = "close"
    PROVE  /\ Verdict' \in {"ok", "refused", "fault"}
           /\ Verdict' # "fault" => /\ result' \notin {"READ", "WRITE", "MEM"} /\ ~ WriteHasFailed'
                                    /\ result' = OK => Verdict' = "ok"
BY Zenon DEF Verdict

LEMMA VerdictStays ==
    ASSUME main' = main \/ (main = "close" /\ main' = "done"), result' = result, UNCHANGED switchVars
    PROVE  Verdict' = Verdict
<1>1. WriteHasFailed' = WriteHasFailed
  BY DEF WriteHasFailed, NeedContinue, switchVars
<1> QED  BY <1>1, Zenon DEF Verdict

LEMMA ThreadPromises ==
    ASSUME TurnsInv, DataInv, OutInv, main = "mt", NEW t \in Threads, Thread(t)
    PROVE  Promises /\ OutInv'
<1>1. DataInv' /\ main' = main /\ SameCall
  BY ThreadKeepsData
<1>2. Shape /\ Together /\ CallInv /\ ReadInv /\ MtInv
  BY DEF TurnsInv, DataInv
<1>3. Verdict = "none" /\ Verdict' = "none"
  <2>1. main \notin {"close", "done"} /\ main' \notin {"close", "done"}
    BY <1>1
  <2> QED  BY <2>1, NoVerdict, NoVerdictYet
<1>4. Agrees'
  BY <1>1 DEF DataInv, MtInv
<1>5. out' = out \/ (IsPrefix(out, out') /\ out' \in Seq(Nat))
  BY <1>2, ThreadGrows
<1>6. CASE out' = out
  <2>1. UNCHANGED Promise
    BY <1>1, <1>3, <1>6, Keeping
  <2> QED  BY <1>6, <2>1, <1>1 DEF Promises, OutInv
<1>7. CASE IsPrefix(out, out') /\ out' \in Seq(Nat)
  <2>1. InOrder
    BY <1>4, <1>7 DEF InOrder
  <2>2. Promised!Deliver
    BY <1>1, <1>3, <2>1, Delivering
  <2> QED  BY <1>7, <2>2 DEF Promises, OutInv
<1> QED  BY <1>5, <1>6, <1>7

LEMMA AsidePromises ==
    ASSUME Aside, main' = main, result' = result
    PROVE  Promises
<1>1. SameCall /\ out' = out /\ UNCHANGED switchVars
  BY DEF Aside
<1>2. Verdict' = Verdict
  BY <1>1, VerdictStays
<1>3. UNCHANGED Promise
  BY <1>1, <1>2, Keeping
<1> QED  BY <1>3 DEF Promises

LEMMA MtEndsPromises ==
    ASSUME TurnsInv, DataInv, OutInv, MtEnds
    PROVE  Promises
<1>1. main = "mt" /\ Shape /\ Together /\ CallInv /\ ReadInv /\ MtInv /\ pc[0] = "ended" /\ ~ NeedContinue
  BY DEF TurnsInv, DataInv, MtEnds
<1>2. /\ SameCall /\ Agrees' /\ main' = "close" /\ out' = out /\ result' = readRes /\ UNCHANGED switchVars
  BY <1>1, MtEndsGoes
<1>3. Verdict = "none"
  BY <1>1, NoVerdict
<1>4. InOrder
  <2>1. out \in Seq(Nat)
    BY <1>1 DEF OutInv
  <2>2. IsPrefix(out, out)
    BY <2>1, JoinGrows
  <2> QED  BY <1>2, <2>2 DEF InOrder
<1>5. ASSUME Verdict' # "fault", Sound
      PROVE  Verdict' = "ok" /\ out' = held.out
  <2>1. /\ result' \notin {"READ", "WRITE", "MEM"} /\ ~ WriteHasFailed'
        /\ result' = OK => Verdict' = "ok"
    BY <1>2, <1>5, VerdictThen
  <2>2. readRes = OK
    BY <1>1, <1>2, <2>1 DEF ReadInv
  <2>3. ~ (wasInterrupted /\ codeRes = OK)
    BY <1>1, <1>2, <2>1 DEF WriteHasFailed, NeedContinue, switchVars
  <2>4. ~ wasInterrupted
    <3>1. codeRes # OK => BadEnd
      BY <1>1 DEF MtInv
    <3> QED  BY <1>5, <2>2, <2>3, <3>1 DEF BadEnd
  <2>5. GoodEnd
    BY <1>1, <2>4 DEF MtInv, Over
  <2> QED  BY <1>2, <1>5, <2>1, <2>2, <2>5 DEF GoodEnd
<1>6. Verdict' \in {"ok", "refused", "fault"}
  BY <1>2, VerdictThen
<1>7. Promised!Judge
  BY <1>2, <1>3, <1>4, <1>5, <1>6, Judging
<1> QED  BY <1>7 DEF Promises

LEMMA SwitchPromises ==
    ASSUME TurnsInv, DataInv, OutInv, Switch
    PROVE  Promises
<1>1. main = "mt" /\ Shape /\ CallInv /\ ReadInv /\ MtInv
  BY DEF TurnsInv, DataInv, Switch
<1>2. /\ SameCall /\ out' = out /\ Agrees' /\ main' \in {"fetch", "close"} /\ (main' = "close" => result' = "MEM")
  BY <1>1, SwitchGoes
<1>3. Verdict = "none"
  BY <1>1, NoVerdict
<1>4. CASE main' = "fetch"
  <2>1. Verdict' = "none"
    BY <1>4, NoVerdictYet
  <2>2. UNCHANGED Promise
    BY <1>2, <1>3, <2>1, Keeping
  <2> QED  BY <2>2 DEF Promises
<1>5. CASE main' = "close"
  <2>1. Verdict' = "fault"
    BY <1>2, <1>5, VerdictThen
  <2>2. InOrder
    <3>1. out \in Seq(Nat)
      BY <1>1 DEF OutInv
    <3>2. IsPrefix(out, out)
      BY <3>1, JoinGrows
    <3> QED  BY <1>2, <3>2 DEF InOrder
  <2>3. Promised!Deliver
    BY <1>2, <1>3, <2>1, <2>2, Delivering
  <2> QED  BY <2>3 DEF Promises
<1> QED  BY <1>2, <1>4, <1>5

LEMMA FetchPromises ==
    ASSUME TurnsInv, DataInv, FetchFilled \/ FetchCross \/ FetchStream
    PROVE  Promises
<1>1. main = "fetch" /\ Shape /\ CallInv /\ ReadInv /\ StInv
  BY DEF TurnsInv, DataInv, FetchFilled, FetchCross, FetchStream
<1>2. /\ SameCall /\ out' = out /\ main' \in {"fetch", "decode"}
  BY <1>1, FetchGoes
<1>3. Verdict = "none" /\ Verdict' = "none"
  <2>1. main \notin {"close", "done"} /\ main' \notin {"close", "done"}
    BY <1>1, <1>2
  <2> QED  BY <2>1, NoVerdict, NoVerdictYet
<1>4. UNCHANGED Promise
  BY <1>2, <1>3, Keeping
<1> QED  BY <1>4 DEF Promises

LEMMA DecodePromises ==
    ASSUME DataInv, DecodeSt
    PROVE  Promises
<1>1. main = "decode" /\ CallInv /\ ReadInv /\ StInv
  BY DEF DataInv, DecodeSt
<1>2. StDid
  BY <1>1, DecodeGoes
<1>3. /\ SameCall /\ NeedContinue' /\ Agrees' /\ IsPrefix(out, out')
      /\ main' \in {"fetch", "decode", "close"}
      /\ main' = "close" => Judges
  BY <1>2 DEF StDid
<1>4. Verdict = "none" /\ InOrder
  BY <1>1, <1>3, NoVerdict DEF InOrder
<1>5. CASE main' \in {"fetch", "decode"}
  <2>1. main' \notin {"close", "done"}
    BY <1>5
  <2>2. Verdict' = "none"
    BY <2>1, NoVerdictYet
  <2>3. Promised!Deliver
    BY <1>3, <1>4, <2>2, Delivering
  <2> QED  BY <2>3 DEF Promises
<1>6. CASE main' = "close"
  <2>1. Verdict' \in {"ok", "refused", "fault"}
    BY <1>6, VerdictThen
  <2>2. ASSUME Verdict' # "fault", Sound
        PROVE  Verdict' = "ok" /\ out' = held.out
    <3>1. /\ result' \notin {"READ", "WRITE", "MEM"}
          /\ result' = OK => Verdict' = "ok"
      BY <1>6, <2>2, VerdictThen
    <3>2. result' = OK /\ out' = held.out
      BY <1>3, <1>6, <2>2, <3>1 DEF Judges
    <3> QED  BY <3>1, <3>2
  <2>3. Promised!Judge
    BY <1>3, <1>4, <2>1, <2>2, Judging
  <2> QED  BY <2>3 DEF Promises
<1> QED  BY <1>3, <1>5, <1>6

LEMMA ClosedPromises ==
    ASSUME Closed
    PROVE  Promises
<1>1. SameCall /\ out' = out /\ main = "close" /\ main' = "done" /\ result' = result /\ UNCHANGED switchVars
  BY DEF Closed, SameCall, callVars
<1>2. Verdict' = Verdict
  BY <1>1, VerdictStays
<1>3. UNCHANGED Promise
  BY <1>1, <1>2, Keeping
<1> QED  BY <1>3 DEF Promises

LEMMA NextPromises == TurnsInv /\ DataInv /\ OutInv /\ [Next]_vars => Promises /\ OutInv'
<1> SUFFICES ASSUME TurnsInv, DataInv, OutInv, [Next]_vars
             PROVE  Promises /\ OutInv'
  OBVIOUS
<1>1. CASE main = "mt" /\ \E t \in Threads : Thread(t)
  BY <1>1, ThreadPromises
<1>2. CASE UNCHANGED vars
  <2>1. SameCall /\ out' = out /\ main' = main /\ result' = result /\ UNCHANGED switchVars
    BY <1>2 DEF vars, SameCall, callVars, switchVars
  <2>2. Verdict' = Verdict
    BY <2>1, VerdictStays
  <2>3. UNCHANGED Promise
    BY <2>1, <2>2, Keeping
  <2> QED  BY <2>1, <2>3 DEF Promises, OutInv
<1>3. CASE main # "mt" /\ \E t \in Threads : Thread(t) \/ Close(t)
  <2>1. Aside /\ main' = main /\ result' = result
    BY <1>3, ApartGoes DEF TurnsInv
  <2>2. OutInv'
    BY <1>3, <2>1 DEF OutInv
  <2> QED  BY <2>1, <2>2, AsidePromises
<1>4. CASE MtEnds \/ Switch \/ FetchFilled \/ FetchCross \/ FetchStream \/ DecodeSt \/ Closed
  <2>1. Promises
    BY <1>4, MtEndsPromises, SwitchPromises, FetchPromises, DecodePromises, ClosedPromises
  <2>2. main' # "mt"
    <3>1. CASE MtEnds
      BY <3>1 DEF MtEnds
    <3>2. CASE Switch
      BY <3>2 DEF Switch
    <3>3. CASE FetchFilled \/ FetchCross \/ FetchStream
      <4>1. main = "fetch" /\ Shape /\ CallInv /\ ReadInv /\ StInv
        BY <3>3 DEF TurnsInv, DataInv, FetchFilled, FetchCross, FetchStream
      <4> QED  BY <3>3, <4>1, FetchGoes
    <3>4. CASE DecodeSt
      <4>1. CallInv /\ ReadInv /\ StInv
        BY <3>4 DEF DataInv, DecodeSt
      <4> QED  BY <3>4, <4>1, DecodeGoes DEF StDid
    <3>5. CASE Closed
      BY <3>5 DEF Closed
    <3> QED  BY <1>4, <3>1, <3>2, <3>3, <3>4, <3>5
  <2> QED  BY <2>1, <2>2 DEF OutInv
<1>5. (\E t \in Threads : Close(t)) => main # "mt"
  BY DEF Close
<1> QED  BY <1>1, <1>2, <1>3, <1>4, <1>5 DEF Next, Main

LEMMA InitPromises == Init => Promised!Init
BY DEF Init, Promised!Init, Verdict

\* For every number of threads, every stream and whatever fails: a thread that
\* gave all of its block to the decoder finds the input used up and the sizes
\* that Lzma2DecMt_MtCallback_PreCode had from Lzma2Dec_Parse, so that
\* Lzma2DecMt_MtCallback_Write need not look again; and what MtDec_PrepareRead
\* and MtDec_Read hand to the one thread that takes over decodes to the rest of
\* the output.
THEOREM BlocksAgree == Spec => []AheadAgrees
<1>1. Init => TurnsInv /\ DataInv /\ CrossInv
  BY TurnsInit, DataInit, CrossInit
<1>2. TurnsInv /\ DataInv /\ CrossInv /\ [Next]_vars => TurnsInv' /\ DataInv' /\ CrossInv'
  BY TurnsNext, DataNext, CrossNext
<1>3. TurnsInv /\ DataInv /\ CrossInv => AheadAgrees
  BY DataImplies, HandedIs DEF AheadAgrees
<1> QED  BY <1>1, <1>2, <1>3, PTL DEF Spec

\* For every number of threads, every stream and whatever fails, in whatever
\* order the threads come: Lzma2DecMt_Decode implements Delivery.  It writes
\* what one decoder of the whole stream would, in order, never a unit twice or
\* after one that was left out, also across the change to one thread; and
\* sound input is written whole and gets SZ_OK, unless the memory or a stream
\* of the caller failed.
THEOREM DeliversInOrder == Spec => Delivers
<1>1. Init => TurnsInv /\ DataInv /\ OutInv /\ Promised!Init
  BY TurnsInit, DataInit, OutInit, InitPromises
<1>2. TurnsInv /\ DataInv /\ OutInv /\ [Next]_vars =>
        /\ TurnsInv' /\ DataInv' /\ OutInv'
        /\ [Promised!Deliver \/ Promised!Judge]_<<held.out, Sound, out, Verdict>>
  BY TurnsNext, DataNext, NextPromises DEF Promises, Promise
<1> QED  BY <1>1, <1>2, PTL DEF Spec, Delivers, Promised!Spec
===============================================================================
