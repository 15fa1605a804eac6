------------------------- MODULE PacketStreamProofs -------------------------
(***************************************************************************)
(* Proofs about the parsers of the two ends of a connection, for packets   *)
(* of any lengths, any number of them, and reads of any sizes.  The first  *)
(* part is about PacketStream, the server's: on clean buffers no cut of    *)
(* the stream loses, repeats, mixes or keeps back a packet.  The second is *)
(* about TcpStreamPack, the client's: that holds as long as two reads      *)
(* bring every packet, and a packet that is one read always arrives.       *)
(***************************************************************************)
EXTENDS PacketStream, TcpStreamPack, SequenceTheorems, WellFoundedInduction, TLAPS

\* Packets follow each other without a gap, to the end of what was sent.
Layout == \A p \in Starts : /\ p + frameLen[p] \in Starts \cup {sentEnd}
                            /\ p + frameLen[p] <= sentEnd

\* The first byte SaveData has not put anywhere yet.
NextByte == IF Working THEN buf.from ELSE arrived

BufInPlace == Working => ~ buf.torn /\ buf.from + buf.nLen = arrived

\* The kept beginning is that of the packet expected.
HeadInPlace ==
    tmpHeadBuf.nLen > 0 =>
      /\ nDesLeave = 0
      /\ ~ tmpHeadBuf.torn /\ tmpHeadBuf.from = Expected
      /\ tmpHeadBuf.nLen <= HeadLen
      /\ NextByte = Expected + tmpHeadBuf.nLen

\* The packet being put together is the packet expected.
PartialInPlace ==
    nDesLeave > 0 =>
      /\ Expected \in Starts
      /\ ~ tmpBuf.torn /\ tmpBuf.from = Expected
      /\ tmpBuf.nDesLen = frameLen[Expected]
      /\ NextByte = Expected + tmpBuf.nCurLen

BetweenPackets ==
    tmpHeadBuf.nLen = 0 /\ nDesLeave = 0 => NextByte = Expected

Delivered(i) ==
    /\ ~ delivered[i].torn
    /\ delivered[i].from \in Starts
    /\ delivered[i].nLen = frameLen[delivered[i].from]
    /\ delivered[i].told = units[delivered[i].from]
    /\ delivered[i].from = IF i = 1 THEN base
                           ELSE delivered[i - 1].from + delivered[i - 1].nLen

InPlace ==
    /\ ~ dropped
    /\ Expected \in Starts \cup {sentEnd}
    /\ BufInPlace /\ HeadInPlace /\ PartialInPlace /\ BetweenPackets
    /\ \A i \in DOMAIN delivered : Delivered(i)

IInv == TypeOK /\ Layout /\ (~ dirty => InPlace)

-----------------------------------------------------------------------------
(* Numbers and sequences.                                                  *)

LEMMA Lengths ==
    ASSUME TypeOK
    PROVE  /\ buf.nLen \in Nat /\ buf.from \in Nat /\ buf.torn \in BOOLEAN
           /\ tmpHeadBuf.nLen \in Nat /\ tmpHeadBuf.from \in Nat
           /\ tmpHeadBuf.torn \in BOOLEAN
           /\ tmpBuf.nDesLen \in Nat /\ tmpBuf.nCurLen \in Nat
           /\ tmpBuf.from \in Nat /\ tmpBuf.torn \in BOOLEAN
           /\ nDesLeave \in Nat
           /\ arrived \in Nat /\ base \in Nat /\ sentEnd \in Nat
           /\ arrived <= sentEnd /\ base <= arrived
  BY DEF TypeOK, Piece, Partial, nDesLeave

LEMMA StartLengths ==
    ASSUME TypeOK, NEW p \in Starts
    PROVE  /\ p \in Nat /\ frameLen[p] \in Nat /\ units[p] \in Nat
           /\ frameLen[p] >= Overhead /\ frameLen[p] > HeadLen /\ frameLen[p] > 0
<1>1. PICK f \in Sendable : frameLen[p] = f[1]
  BY DEF TypeOK
<1>2. f \in Nat \X Nat /\ f[1] >= Overhead
  BY StreamAssumption
<1>3. f[1] \in Nat
  BY <1>2
<1>4. frameLen[p] \in Nat /\ frameLen[p] >= Overhead
  BY <1>1, <1>2, <1>3
<1>5. p \in Nat
  BY DEF TypeOK
<1>6. units[p] \in Nat
  BY DEF TypeOK
<1>7. Overhead \in Nat /\ HeadLen \in Nat /\ HeadLen < Overhead
  BY StreamAssumption
<1> QED BY <1>4, <1>5, <1>6, <1>7

LEMMA JoinPiece ==
    ASSUME NEW a \in Piece, NEW b \in Piece
    PROVE  Join(a, b) \in Piece
<1>1. (a.torn \/ b.torn \/ b.from # a.from + a.nLen) \in BOOLEAN
  BY Zenon
<1>2. a.from \in Nat /\ a.nLen + b.nLen \in Nat
  BY DEF Piece
<1> QED BY <1>1, <1>2 DEF Join, Piece

LEMMA ExpectedType == ASSUME TypeOK PROVE Expected \in Nat
<1>1. CASE delivered = <<>>
  BY <1>1 DEF TypeOK, Expected
<1>2. CASE delivered # <<>>
  <2>1. Len(delivered) \in DOMAIN delivered
    BY <1>2, EmptySeq DEF TypeOK
  <2>2. delivered[Len(delivered)] \in Given
    BY <2>1 DEF TypeOK
  <2> QED BY <1>2, <2>2 DEF Expected, Given
<1> QED BY <1>1, <1>2

\* What a delivery does to the sequence of packets and to Expected.
LEMMA DeliverOne ==
    ASSUME TypeOK, NEW e \in Given, delivered' = Append(delivered, e)
    PROVE  /\ delivered' \in Seq(Given)
           /\ Expected' = e.from + e.nLen
           /\ DOMAIN delivered' = DOMAIN delivered \cup {Len(delivered) + 1}
           /\ Len(delivered) \in Nat /\ DOMAIN delivered = 1..Len(delivered)
           /\ \A i \in DOMAIN delivered : delivered'[i] = delivered[i]
           /\ delivered'[Len(delivered) + 1] = e
<1>1. /\ delivered' \in Seq(Given) /\ Len(delivered') = Len(delivered) + 1
      /\ \A i \in 1..Len(delivered) : delivered'[i] = delivered[i]
      /\ delivered'[Len(delivered) + 1] = e
  BY AppendProperties DEF TypeOK
<1>2. Len(delivered) \in Nat /\ DOMAIN delivered = 1..Len(delivered)
  BY DEF TypeOK
<1>3. DOMAIN delivered' = 1..(Len(delivered) + 1)
  BY <1>1
<1>4. delivered' # <<>>
  BY <1>1, <1>2, EmptySeq
<1>5. Expected' = e.from + e.nLen
  BY <1>1, <1>4 DEF Expected
<1> QED BY <1>1, <1>2, <1>3, <1>5

\* The record Recevie is given, whatever it is told of the content.
LEMMA GivenRecord ==
    ASSUME TypeOK
    PROVE  \A n \in MultiByteToWideChar :
             [from |-> tmpBuf.from, nLen |-> tmpBuf.nDesLen, told |-> n, torn |-> Torn] \in Given
<1>1. MultiByteToWideChar \subseteq Nat
  <2>1. CASE ~ Torn /\ tmpBuf.from \in Starts
    BY <2>1, StartLengths DEF MultiByteToWideChar
  <2>2. CASE ~ (~ Torn /\ tmpBuf.from \in Starts)
    BY <2>2, Lengths, StreamAssumption DEF MultiByteToWideChar
  <2> QED BY <2>1, <2>2
<1>2. Torn \in BOOLEAN
  BY Zenon DEF Torn
<1> HIDE DEF Torn, MultiByteToWideChar
<1>3. ASSUME NEW n \in MultiByteToWideChar
      PROVE [from |-> tmpBuf.from, nLen |-> tmpBuf.nDesLen, told |-> n, torn |-> Torn] \in Given
  BY <1>1, <1>2, Lengths DEF Given
<1> QED BY <1>3

-----------------------------------------------------------------------------
(* Types.                                                                  *)

LEMMA InitInv == Init => IInv
<1> SUFFICES ASSUME Init PROVE IInv
  OBVIOUS
<1>1. delivered = <<>> /\ delivered \in Seq(Given) /\ DOMAIN delivered = {}
  BY EmptySeq DEF Init
<1>2. DOMAIN frameLen = {} /\ frameLen \in [DOMAIN frameLen -> {f[1] : f \in Sendable}]
      /\ units \in [DOMAIN frameLen -> Nat]
  BY EmptySeq DEF Init
<1>3. TypeOK
  <2>1. buf \in Piece /\ tmpHeadBuf \in Piece /\ tmpBuf \in Partial
        /\ tmpBuf.nCurLen <= tmpBuf.nDesLen
    BY DEF Init, None, NoPacket, Piece, Partial
  <2>2. arrived \in base..sentEnd /\ sentEnd \in Nat /\ base \in Nat /\ conns \in Nat
    BY DEF Init
  <2>3. dropped \in BOOLEAN /\ dirty \in BOOLEAN
    BY Zenon DEF Init
  <2> QED BY <1>1, <1>2, <2>1, <2>2, <2>3 DEF TypeOK, Starts
<1>4. Layout
  BY <1>2 DEF Layout, Starts
<1>5. Expected = 0 /\ sentEnd = 0
  BY DEF Init, Expected
<1>6. InPlace
  BY <1>1, <1>5 DEF Init, InPlace, BufInPlace, HeadInPlace, PartialInPlace,
     BetweenPackets, NextByte, Working, None, NoPacket, nDesLeave
<1> QED BY <1>3, <1>4, <1>6 DEF IInv

LEMMA NewStreamTypes ==
    ASSUME TypeOK, NewStream,
           tmpBuf' \in Partial, tmpBuf'.nCurLen <= tmpBuf'.nDesLen,
           tmpHeadBuf' \in Piece, dirty' \in BOOLEAN
    PROVE  TypeOK'
<1>1. frameLen' = <<>> /\ DOMAIN frameLen' = {}
      /\ frameLen' \in [DOMAIN frameLen' -> {f[1] : f \in Sendable}]
      /\ units' \in [DOMAIN frameLen' -> Nat]
  BY EmptySeq DEF NewStream
<1>2. delivered' \in Seq(Given)
  BY EmptySeq DEF NewStream
<1>3. buf' \in Piece
  BY DEF NewStream, None, Piece
<1>4. dropped' \in BOOLEAN
  BY Zenon DEF NewStream
<1>5. arrived' \in base'..sentEnd' /\ sentEnd' \in Nat /\ base' \in Nat /\ conns' \in Nat
  BY DEF NewStream, TypeOK
<1> QED BY <1>1, <1>2, <1>3, <1>4, <1>5 DEF TypeOK, Starts

LEMMA TypeNext == ASSUME TypeOK, [Next]_vars PROVE TypeOK'
<1> USE StreamAssumption DEF Starts, peer, context
<1>0. /\ nDesLeave \in Nat
      /\ None \in Piece /\ NoPacket \in Partial /\ NoPacket.nCurLen <= NoPacket.nDesLen
  BY Lengths DEF None, NoPacket, Piece, Partial
<1>1. ASSUME NEW f \in Sendable, PrepareSendBuf(f) PROVE TypeOK'
  <2> DEFINE n == f[1]
  <2>0. n \in Nat /\ f[2] \in Nat /\ n \in {g[1] : g \in Sendable}
    OBVIOUS
  <2>1. /\ frameLen' = [q \in Starts \cup {sentEnd} |-> IF q = sentEnd THEN n ELSE frameLen[q]]
        /\ units' = [q \in Starts \cup {sentEnd} |-> IF q = sentEnd THEN f[2] ELSE units[q]]
        /\ sentEnd' = sentEnd + n /\ n \in Nat /\ sentEnd \in Nat
        /\ UNCHANGED <<base, conns, arrived, buf, context, delivered, dropped, dirty>>
    BY <1>1, <2>0 DEF PrepareSendBuf, Extend, TypeOK
  <2> HIDE DEF n
  <2>2. /\ Starts' \subseteq Nat /\ frameLen' \in [Starts' -> {g[1] : g \in Sendable}]
        /\ units' \in [Starts' -> Nat]
        /\ sentEnd' \in Nat /\ sentEnd <= sentEnd'
    <3> DEFINE L == {g[1] : g \in Sendable}
               S == Starts \cup {sentEnd}
    <3>1. Starts \subseteq Nat /\ frameLen \in [Starts -> L] /\ units \in [Starts -> Nat]
      BY DEF TypeOK
    <3>2. n \in L
      BY <2>0
    <3> HIDE DEF L
    <3>3. Starts' = S /\ frameLen' \in [S -> L] /\ units' \in [S -> Nat] /\ S \subseteq Nat
      BY <2>0, <2>1, <3>1, <3>2
    <3>4. sentEnd' \in Nat /\ sentEnd <= sentEnd'
      BY <2>1
    <3> QED BY <3>3, <3>4 DEF L
  <2>3. arrived' \in base'..sentEnd'
    BY <2>1, <2>2 DEF TypeOK
  <2> QED BY <2>1, <2>2, <2>3 DEF TypeOK
<1>2. ASSUME NEW k \in 1..(sentEnd - arrived), ProcessReceive(k) PROVE TypeOK'
  <2>1. arrived \in Nat /\ k \in Nat /\ arrived + k <= sentEnd
    BY <1>2 DEF TypeOK, ProcessReceive
  <2>2. buf' \in Piece
    BY <1>2, <2>1 DEF ProcessReceive, Piece
  <2>3. arrived' \in base'..sentEnd'
    BY <1>2, <2>1 DEF ProcessReceive, TypeOK
  <2> QED BY <1>2, <2>2, <2>3 DEF ProcessReceive, TypeOK
<1>3. CASE TakeHead
  <2>1. buf' \in Piece
    BY <1>3, JoinPiece DEF TakeHead, TypeOK
  <2> QED BY <1>3, <1>0, <2>1 DEF TakeHead, TypeOK
<1>4. CASE NewPacket
  <2>1. GetPacketLen \subseteq Nat
    BY StartLengths DEF GetPacketLen
  <2>2. tmpBuf' \in Partial /\ tmpBuf'.nCurLen <= tmpBuf'.nDesLen
    BY <1>4, <2>1, Lengths DEF NewPacket, Partial
  <2> QED BY <1>4, <2>2 DEF NewPacket, TypeOK
<1>5. CASE DropBuffer
  BY <1>5, <1>0 DEF DropBuffer, TypeOK
<1>6. CASE KeepHead
  BY <1>6, <1>0 DEF KeepHead, TypeOK
<1>7. CASE Complete
  <2>2. PICK e \in Given : delivered' = Append(delivered, e)
    BY <1>7, GivenRecord DEF Complete, HandOver
  <2>3. delivered' \in Seq(Given)
    BY <2>2, DeliverOne
  <2>4. buf' \in Piece
    BY <1>7, <1>0, Lengths DEF Complete, Piece
  <2> QED BY <1>7, <1>0, <2>3, <2>4 DEF Complete, TypeOK
<1>8. CASE Accumulate
  <2>1. tmpBuf' = [from |-> tmpBuf.from, nDesLen |-> tmpBuf.nDesLen,
                   nCurLen |-> tmpBuf.nCurLen + buf.nLen, torn |-> Torn]
    BY <1>8 DEF Accumulate, TypeOK, Partial
  <2>2. Torn \in BOOLEAN
    BY Zenon DEF Torn
  <2>3. /\ tmpBuf.nCurLen + buf.nLen \in Nat
        /\ tmpBuf.nCurLen + buf.nLen <= tmpBuf.nDesLen
    BY <1>8, Lengths DEF Accumulate, nDesLeave
  <2>4. tmpBuf' \in Partial /\ tmpBuf'.nCurLen <= tmpBuf'.nDesLen
    BY <2>1, <2>2, <2>3, Lengths DEF Partial
  <2> QED BY <1>8, <1>0, <2>4 DEF Accumulate, TypeOK
<1>9. CASE RecycledContext
  BY <1>9, NewStreamTypes DEF RecycledContext, TypeOK, LeftOver
<1>10. CASE NewContext
  BY <1>10, <1>0, NewStreamTypes DEF NewContext, TypeOK
<1>11. CASE UNCHANGED vars
  BY <1>11 DEF vars, TypeOK
<1> QED BY <1>1, <1>2, <1>3, <1>4, <1>5, <1>6, <1>7, <1>8, <1>9, <1>10, <1>11
        DEF Next, SaveData

-----------------------------------------------------------------------------
(* The layout of the stream.                                               *)

LEMMA StartBelowEnd ==
    ASSUME IInv, NEW p \in Starts
    PROVE  /\ p \in Nat /\ frameLen[p] \in Nat /\ frameLen[p] > HeadLen /\ frameLen[p] > 0
           /\ p + frameLen[p] \in Starts \cup {sentEnd}
           /\ p + frameLen[p] <= sentEnd /\ p < sentEnd /\ p # sentEnd
<1>1. p + frameLen[p] \in Starts \cup {sentEnd} /\ p + frameLen[p] <= sentEnd
  BY DEF IInv, Layout
<1>2. p \in Nat /\ frameLen[p] \in Nat /\ frameLen[p] > HeadLen /\ frameLen[p] > 0
  BY StartLengths DEF IInv
<1>3. sentEnd \in Nat
  BY Lengths DEF IInv
<1> QED BY <1>1, <1>2, <1>3

LEMMA LayoutNext == ASSUME IInv, [Next]_vars PROVE Layout'
<1>1. ASSUME NEW f \in Sendable, PrepareSendBuf(f) PROVE Layout'
  <2> DEFINE n == f[1]
  <2>1. /\ Starts' = Starts \cup {sentEnd} /\ sentEnd' = sentEnd + n
        /\ frameLen'[sentEnd] = n
        /\ \A p \in Starts : p # sentEnd => frameLen'[p] = frameLen[p]
    BY <1>1 DEF PrepareSendBuf, Extend, Starts
  <2>2. n \in Nat /\ sentEnd \in Nat
    BY StreamAssumption, Lengths DEF IInv
  <2> HIDE DEF n
  <2>3. ASSUME NEW p \in Starts'
        PROVE  p + frameLen'[p] \in Starts' \cup {sentEnd'} /\ p + frameLen'[p] <= sentEnd'
    <3>1. CASE p = sentEnd
      BY <3>1, <2>1, <2>2
    <3>2. CASE p \in Starts /\ p # sentEnd
      BY <3>2, <2>1, <2>2, StartBelowEnd
    <3> QED BY <3>1, <3>2, <2>1
  <2> QED BY <2>3 DEF Layout
<1>2. CASE NewStream
  <2>1. Starts' = {}
    BY <1>2, EmptySeq DEF NewStream, Starts
  <2> QED BY <2>1 DEF Layout
<1>3. CASE UNCHANGED <<frameLen, sentEnd>>
  BY <1>3 DEF IInv, Layout, Starts
<1> QED BY <1>1, <1>2, <1>3
        DEF Next, SaveData, vars, peer, ProcessReceive, TakeHead, NewPacket, DropBuffer,
            KeepHead, Complete, Accumulate, RecycledContext, NewContext

\* Where SaveData works, a packet the peer has sent goes on or begins.
LEMMA WorkingBelowEnd ==
    ASSUME IInv, InPlace, Working
    PROVE  /\ buf.nLen > 0 /\ NextByte = buf.from /\ buf.from + buf.nLen = arrived
           /\ ~ buf.torn /\ buf.from < sentEnd
  BY Lengths DEF IInv, InPlace, BufInPlace, Working, NextByte

-----------------------------------------------------------------------------
(* Each step on clean buffers.                                             *)

LEMMA SendStep ==
    ASSUME IInv, InPlace, NEW f \in Sendable, PrepareSendBuf(f)
    PROVE  InPlace'
<1>1. /\ Starts' = Starts \cup {sentEnd}
      /\ \A p \in Starts : p # sentEnd => frameLen'[p] = frameLen[p] /\ units'[p] = units[p]
  BY DEF PrepareSendBuf, Extend, Starts, IInv, TypeOK
<1>2. \A p \in Starts : frameLen'[p] = frameLen[p] /\ units'[p] = units[p]
  BY <1>1, StartBelowEnd
<1>3. UNCHANGED <<base, arrived, buf, tmpBuf, tmpHeadBuf, delivered, dropped>>
  BY DEF PrepareSendBuf, context
<1>4. Expected' = Expected /\ NextByte' = NextByte /\ nDesLeave' = nDesLeave
      /\ Working' = Working
  BY <1>3 DEF Expected, NextByte, Working, nDesLeave
<1>5. Expected' \in Starts' \cup {sentEnd'}
  BY <1>1, <1>4 DEF InPlace
<1>6. BufInPlace' /\ HeadInPlace' /\ BetweenPackets'
  BY <1>3, <1>4 DEF InPlace, BufInPlace, HeadInPlace, BetweenPackets
<1>7. PartialInPlace'
  BY <1>1, <1>2, <1>3, <1>4 DEF InPlace, PartialInPlace
<1>8. ASSUME NEW i \in DOMAIN delivered' PROVE Delivered(i)'
  BY <1>1, <1>2, <1>3 DEF InPlace, Delivered
<1> QED BY <1>3, <1>5, <1>6, <1>7, <1>8 DEF InPlace

LEMMA ReceiveStep ==
    ASSUME IInv, InPlace, NEW k \in 1..(sentEnd - arrived), ProcessReceive(k)
    PROVE  InPlace'
<1>1. /\ UNCHANGED <<frameLen, units, sentEnd, base, tmpBuf, tmpHeadBuf, delivered, dropped>>
      /\ ~ Working /\ arrived' = arrived + k
      /\ buf' = [from |-> arrived, nLen |-> k, torn |-> FALSE]
  BY DEF ProcessReceive, peer, context
<1>2. k \in Nat /\ k > 0
  BY Lengths DEF IInv
<1>3. /\ buf'.from = arrived /\ buf'.nLen = k /\ ~ buf'.torn
      /\ Working' /\ NextByte' = arrived /\ NextByte = arrived
  BY <1>1, <1>2 DEF Working, NextByte
<1>4. Expected' = Expected /\ nDesLeave' = nDesLeave /\ Starts' = Starts
  BY <1>1 DEF Expected, nDesLeave, Starts
<1>5. BufInPlace'
  BY <1>1, <1>3 DEF BufInPlace
<1>6. HeadInPlace' /\ BetweenPackets' /\ PartialInPlace'
  BY <1>1, <1>3, <1>4 DEF InPlace, HeadInPlace, BetweenPackets, PartialInPlace
<1>7. ASSUME NEW i \in DOMAIN delivered' PROVE Delivered(i)'
  BY <1>1, <1>4 DEF InPlace, Delivered
<1> QED BY <1>1, <1>4, <1>5, <1>6, <1>7 DEF InPlace

\* A step of SaveData that hands nothing over leaves these alone.
LEMMA Undelivered ==
    ASSUME IInv, InPlace, UNCHANGED <<frameLen, units, sentEnd, base, delivered, dropped>>
    PROVE  /\ Expected' = Expected /\ Starts' = Starts
           /\ Expected' \in Starts' \cup {sentEnd'} /\ ~ dropped'
           /\ \A i \in DOMAIN delivered' : Delivered(i)'
<1>1. Expected' = Expected /\ Starts' = Starts
  BY DEF Expected, Starts
<1>2. ASSUME NEW i \in DOMAIN delivered' PROVE Delivered(i)'
  BY <1>1 DEF InPlace, Delivered
<1> QED BY <1>1, <1>2 DEF InPlace

LEMMA TakeHeadStep == ASSUME IInv, InPlace, TakeHead PROVE InPlace'
<1>1. /\ UNCHANGED <<frameLen, units, sentEnd, base, arrived, tmpBuf, delivered, dropped>>
      /\ Working /\ tmpHeadBuf.nLen > 0
      /\ buf' = Join(tmpHeadBuf, buf) /\ tmpHeadBuf'.nLen = 0
  BY DEF TakeHead, peer, None
<1>2. /\ nDesLeave = 0 /\ ~ tmpHeadBuf.torn /\ tmpHeadBuf.from = Expected
      /\ NextByte = Expected + tmpHeadBuf.nLen
  BY <1>1 DEF InPlace, HeadInPlace
<1>3. /\ buf.nLen > 0 /\ NextByte = buf.from /\ buf.from + buf.nLen = arrived /\ ~ buf.torn
  BY <1>1, WorkingBelowEnd
<1>4. /\ buf'.from = Expected /\ buf'.nLen = tmpHeadBuf.nLen + buf.nLen
      /\ buf'.torn = FALSE
  BY <1>1, <1>2, <1>3 DEF Join
<1>5. buf'.nLen > 0 /\ buf'.from + buf'.nLen = arrived
  BY <1>1, <1>2, <1>3, <1>4, Lengths, ExpectedType DEF IInv
<1>6. Working' /\ NextByte' = Expected /\ nDesLeave' = 0
  BY <1>1, <1>2, <1>4, <1>5 DEF Working, NextByte, nDesLeave
<1>7. BufInPlace'
  BY <1>1, <1>4, <1>5 DEF BufInPlace
<1>8. HeadInPlace' /\ PartialInPlace'
  BY <1>1, <1>6 DEF HeadInPlace, PartialInPlace
<1>9. BetweenPackets'
  BY <1>1, <1>6, Undelivered DEF BetweenPackets
<1> QED BY <1>1, <1>7, <1>8, <1>9, Undelivered DEF InPlace

\* Between packets, the buffer begins where a packet the peer has sent begins.
LEMMA AtStart ==
    ASSUME IInv, InPlace, Working, tmpHeadBuf.nLen = 0, nDesLeave = 0
    PROVE  /\ buf.from = Expected /\ Expected \in Starts
           /\ ~ NoPacketLen /\ GetPacketLen = {frameLen[Expected]}
<1>1. buf.from = Expected /\ ~ buf.torn /\ buf.from < sentEnd
  BY WorkingBelowEnd DEF InPlace, BetweenPackets
<1>2. Expected \in Starts
  BY <1>1, Lengths DEF InPlace, IInv
<1> QED BY <1>1, <1>2 DEF NoPacketLen, GetPacketLen

LEMMA NewPacketStep == ASSUME IInv, InPlace, NewPacket PROVE InPlace'
<1>1. /\ UNCHANGED <<frameLen, units, sentEnd, base, arrived, buf, tmpHeadBuf, delivered, dropped>>
      /\ Working /\ tmpHeadBuf.nLen = 0 /\ nDesLeave = 0
  BY DEF NewPacket, peer
<1>2. buf.from = Expected /\ Expected \in Starts /\ GetPacketLen = {frameLen[Expected]}
  BY <1>1, AtStart
<1>3. tmpBuf' = [from |-> Expected, nDesLen |-> frameLen[Expected], nCurLen |-> 0,
                 torn |-> buf.torn]
  BY <1>2 DEF NewPacket
<1>4. ~ buf.torn /\ NextByte = buf.from
  BY <1>1, WorkingBelowEnd
<1>5. /\ tmpBuf'.from = Expected /\ tmpBuf'.nDesLen = frameLen[Expected]
      /\ tmpBuf'.nCurLen = 0 /\ ~ tmpBuf'.torn
  BY <1>3, <1>4
<1>6. nDesLeave' = frameLen[Expected] /\ frameLen[Expected] > 0 /\ Expected \in Nat
  BY <1>2, <1>5, StartBelowEnd DEF nDesLeave
<1>7. NextByte' = Expected /\ Working'
  BY <1>1, <1>2, <1>4 DEF NextByte, Working
<1>8. Expected' = Expected /\ Starts' = Starts
  BY <1>1, Undelivered
<1>9. BufInPlace' /\ HeadInPlace' /\ BetweenPackets'
  BY <1>1, <1>6 DEF InPlace, BufInPlace, HeadInPlace, BetweenPackets, Working
<1>10. PartialInPlace'
  BY <1>1, <1>2, <1>5, <1>6, <1>7, <1>8 DEF PartialInPlace
<1> QED BY <1>1, <1>9, <1>10, Undelivered DEF InPlace

LEMMA KeepHeadStep == ASSUME IInv, InPlace, KeepHead PROVE InPlace'
<1>1. /\ UNCHANGED <<frameLen, units, sentEnd, base, arrived, tmpBuf, delivered, dropped>>
      /\ Working /\ tmpHeadBuf.nLen = 0 /\ nDesLeave = 0 /\ buf.nLen <= HeadLen
      /\ tmpHeadBuf' = buf /\ buf'.nLen = 0
  BY DEF KeepHead, peer, None
<1>2. /\ buf.from = Expected /\ buf.nLen > 0 /\ buf.from + buf.nLen = arrived /\ ~ buf.torn
  BY <1>1, WorkingBelowEnd, AtStart
<1>3. ~ Working' /\ NextByte' = arrived /\ nDesLeave' = 0
  BY <1>1 DEF Working, NextByte, nDesLeave
<1>4. BufInPlace' /\ PartialInPlace' /\ BetweenPackets'
  BY <1>1, <1>2, <1>3 DEF BufInPlace, PartialInPlace, BetweenPackets
<1>5. HeadInPlace'
  BY <1>1, <1>2, <1>3, Undelivered DEF HeadInPlace
<1> QED BY <1>1, <1>4, <1>5, Undelivered DEF InPlace

\* While a packet is being put together, the buffer goes on with it.
LEMMA GoesOn ==
    ASSUME IInv, InPlace, Working, nDesLeave > 0
    PROVE  /\ Expected \in Starts /\ tmpBuf.from = Expected
           /\ tmpBuf.nDesLen = frameLen[Expected]
           /\ buf.from = Expected + tmpBuf.nCurLen /\ Torn = FALSE
           /\ buf.from + buf.nLen = arrived /\ ~ buf.torn /\ buf.nLen > 0
<1>1. /\ Expected \in Starts /\ tmpBuf.from = Expected /\ ~ tmpBuf.torn
      /\ tmpBuf.nDesLen = frameLen[Expected] /\ NextByte = Expected + tmpBuf.nCurLen
  BY DEF InPlace, PartialInPlace
<1>2. /\ NextByte = buf.from /\ buf.from + buf.nLen = arrived /\ ~ buf.torn /\ buf.nLen > 0
  BY WorkingBelowEnd
<1> QED BY <1>1, <1>2 DEF Torn

LEMMA AccumulateStep == ASSUME IInv, InPlace, Accumulate PROVE InPlace'
<1>1. /\ UNCHANGED <<frameLen, units, sentEnd, base, arrived, tmpHeadBuf, delivered, dropped>>
      /\ Working /\ tmpHeadBuf.nLen = 0 /\ buf.nLen < nDesLeave
      /\ buf'.nLen = 0
  BY DEF Accumulate, peer, None
<1>2. nDesLeave > 0 /\ tmpBuf \in Partial
  BY <1>1, Lengths DEF IInv, TypeOK
<1>3. /\ Expected \in Starts /\ tmpBuf.from = Expected
      /\ tmpBuf.nDesLen = frameLen[Expected]
      /\ buf.from = Expected + tmpBuf.nCurLen /\ Torn = FALSE
      /\ buf.from + buf.nLen = arrived
  BY <1>1, <1>2, GoesOn
<1>4. /\ tmpBuf'.from = Expected /\ tmpBuf'.nDesLen = tmpBuf.nDesLen
      /\ tmpBuf'.nCurLen = tmpBuf.nCurLen + buf.nLen /\ ~ tmpBuf'.torn
  BY <1>2, <1>3 DEF Accumulate, Partial
<1>5. nDesLeave' = nDesLeave - buf.nLen /\ nDesLeave' > 0
  BY <1>1, <1>4, Lengths DEF nDesLeave, IInv
<1>6. ~ Working' /\ NextByte' = arrived
  BY <1>1 DEF Working, NextByte
<1>7. arrived = Expected + tmpBuf'.nCurLen
  BY <1>3, <1>4, Lengths, ExpectedType DEF IInv
<1>8. Expected' = Expected /\ Starts' = Starts
  BY <1>1, Undelivered
<1>9. BufInPlace' /\ HeadInPlace' /\ BetweenPackets'
  BY <1>1, <1>5, <1>6 DEF BufInPlace, HeadInPlace, BetweenPackets
<1>10. PartialInPlace'
  BY <1>1, <1>3, <1>4, <1>6, <1>7, <1>8 DEF PartialInPlace
<1> QED BY <1>1, <1>9, <1>10, Undelivered DEF InPlace

LEMMA CompleteStep == ASSUME IInv, InPlace, Complete PROVE InPlace'
<1> DEFINE e == [from |-> tmpBuf.from, nLen |-> tmpBuf.nDesLen, told |-> units[Expected],
                 torn |-> Torn]
<1>1. /\ UNCHANGED <<frameLen, units, sentEnd, base, arrived, tmpHeadBuf, dropped>>
      /\ Working /\ tmpHeadBuf.nLen = 0 /\ nDesLeave > 0 /\ buf.nLen >= nDesLeave
      /\ HandOver
      /\ tmpBuf'.nDesLen = 0 /\ tmpBuf'.nCurLen = 0
      /\ buf' = IF buf.nLen = nDesLeave THEN None
                ELSE [from |-> buf.from + nDesLeave, nLen |-> buf.nLen - nDesLeave,
                      torn |-> buf.torn]
  BY DEF Complete, peer, NoPacket
<1>2. /\ Expected \in Starts /\ tmpBuf.from = Expected
      /\ tmpBuf.nDesLen = frameLen[Expected]
      /\ buf.from = Expected + tmpBuf.nCurLen /\ Torn = FALSE
      /\ buf.from + buf.nLen = arrived /\ ~ buf.torn
  BY <1>1, GoesOn
<1>3. /\ e \in Given /\ e.from = Expected /\ e.nLen = frameLen[Expected] /\ e.torn = FALSE
      /\ e.told = units[Expected] /\ delivered' = Append(delivered, e)
  <2>1. MultiByteToWideChar = {units[Expected]}
    BY <1>2 DEF MultiByteToWideChar
  <2>2. e \in Given
    BY <1>2, <2>1, GivenRecord DEF IInv
  <2> QED BY <1>1, <1>2, <2>1, <2>2 DEF HandOver
<1>4. /\ Expected \in Nat /\ frameLen[Expected] \in Nat
      /\ Expected + frameLen[Expected] \in Starts \cup {sentEnd}
  BY <1>2, StartBelowEnd
<1> HIDE DEF e
<1>5. /\ Expected' = Expected + frameLen[Expected]
      /\ DOMAIN delivered' = DOMAIN delivered \cup {Len(delivered) + 1}
      /\ Len(delivered) \in Nat /\ DOMAIN delivered = 1..Len(delivered)
      /\ \A i \in DOMAIN delivered : delivered'[i] = delivered[i]
      /\ delivered'[Len(delivered) + 1] = e
  BY <1>3, DeliverOne DEF IInv
<1>6. Starts' = Starts /\ nDesLeave' = 0
  BY <1>1 DEF Starts, nDesLeave
<1>7. buf.from + nDesLeave = Expected' /\ nDesLeave \in Nat
  <2>1. nDesLeave = frameLen[Expected] - tmpBuf.nCurLen
    BY <1>2 DEF nDesLeave
  <2>2. nDesLeave \in Nat /\ tmpBuf.nCurLen \in Nat
    BY Lengths DEF IInv
  <2> QED BY <1>2, <1>4, <1>5, <2>1, <2>2
<1>8. BufInPlace' /\ NextByte' = Expected'
  <2>1. CASE buf.nLen = nDesLeave
    <3>1. ~ Working' /\ NextByte' = arrived
      BY <1>1, <2>1 DEF Working, NextByte, None
    <3> QED BY <1>2, <1>7, <2>1, <3>1 DEF BufInPlace
  <2>2. CASE buf.nLen # nDesLeave
    <3>1. /\ buf'.from = buf.from + nDesLeave /\ buf'.nLen = buf.nLen - nDesLeave
          /\ ~ buf'.torn
      BY <1>1, <1>2, <2>2
    <3>2. buf'.nLen > 0 /\ buf'.from + buf'.nLen = arrived
      <4>1. buf.nLen \in Nat /\ buf.from \in Nat /\ nDesLeave \in Nat /\ buf.nLen >= nDesLeave
        BY <1>1, Lengths DEF IInv
      <4> QED BY <1>2, <2>2, <3>1, <4>1
    <3>3. Working' /\ NextByte' = buf'.from
      BY <3>2 DEF Working, NextByte
    <3>4. arrived' = arrived
      BY <1>1
    <3> QED BY <1>7, <3>1, <3>2, <3>3, <3>4 DEF BufInPlace
  <2> QED BY <2>1, <2>2
<1>9. HeadInPlace' /\ PartialInPlace' /\ BetweenPackets'
  BY <1>1, <1>6, <1>8 DEF HeadInPlace, PartialInPlace, BetweenPackets
<1>10. ASSUME NEW i \in DOMAIN delivered' PROVE Delivered(i)'
  <2>1. CASE i \in DOMAIN delivered
    <3>1. i = 1 \/ i - 1 \in DOMAIN delivered
      BY <2>1, <1>5
    <3> QED BY <1>1, <1>5, <1>6, <2>1, <3>1 DEF InPlace, Delivered
  <2>2. CASE i = Len(delivered) + 1
    <3>1. delivered'[i] = e
      BY <1>5, <2>2
    <3>2. Expected = IF i = 1 THEN base ELSE delivered'[i - 1].from + delivered'[i - 1].nLen
      <4>1. CASE delivered = <<>>
        BY <4>1, <2>2 DEF Expected
      <4>2. CASE delivered # <<>>
        <5>1. Len(delivered) \in DOMAIN delivered
          BY <4>2, <1>5, EmptySeq DEF IInv, TypeOK
        <5>2. i - 1 = Len(delivered) /\ i # 1 /\ delivered'[i - 1] = delivered[Len(delivered)]
          BY <5>1, <2>2, <1>5
        <5> QED BY <4>2, <5>2 DEF Expected
      <4> QED BY <4>1, <4>2
    <3> QED BY <1>1, <1>2, <1>3, <1>6, <3>1, <3>2 DEF Delivered
  <2> QED BY <2>1, <2>2, <1>5
<1> QED BY <1>1, <1>4, <1>5, <1>6, <1>8, <1>9, <1>10 DEF InPlace

\* A connection that finds nothing left over in its IO_CONTEXT.
LEMMA NewStreamTidy ==
    ASSUME TypeOK', NewStream, tmpHeadBuf'.nLen = 0, tmpBuf'.nDesLen = 0
    PROVE  InPlace'
<1>1. /\ base' = sentEnd' /\ arrived' = sentEnd' /\ delivered' = <<>>
      /\ ~ dropped' /\ buf'.nLen = 0
  BY DEF NewStream, None
<1>2. Expected' = sentEnd' /\ DOMAIN delivered' = {}
  BY <1>1, EmptySeq DEF Expected
<1>3. ~ Working' /\ NextByte' = arrived'
  BY <1>1 DEF Working, NextByte
<1>4. nDesLeave' = 0
  <2>1. tmpBuf'.nCurLen \in Nat /\ tmpBuf'.nCurLen <= tmpBuf'.nDesLen
    BY DEF TypeOK, Partial
  <2> QED BY <2>1 DEF nDesLeave
<1> QED BY <1>1, <1>2, <1>3, <1>4 DEF InPlace, BufInPlace, HeadInPlace,
        PartialInPlace, BetweenPackets

LEMMA Stutter == ASSUME InPlace, UNCHANGED vars PROVE InPlace'
<1>1. UNCHANGED <<frameLen, units, sentEnd, base, arrived, buf, tmpBuf, tmpHeadBuf, delivered, dropped>>
  BY DEF vars, peer, context
<1> QED BY <1>1 DEF InPlace, BufInPlace, HeadInPlace, PartialInPlace, BetweenPackets,
        Delivered, Expected, NextByte, Working, nDesLeave, Starts

LEMMA InPlaceNext == ASSUME IInv, TypeOK', Layout', [Next]_vars, ~ dirty' PROVE InPlace'
<1>1. CASE RecycledContext
  <2>1. ~ LeftOver /\ UNCHANGED <<tmpBuf, tmpHeadBuf>> /\ NewStream
    BY <1>1 DEF RecycledContext, context
  <2>2. tmpHeadBuf'.nLen = 0 /\ tmpBuf'.nDesLen = 0
    BY <2>1, Lengths DEF LeftOver, IInv
  <2> QED BY <2>1, <2>2, NewStreamTidy DEF IInv
<1>2. CASE NewContext
  BY <1>2, NewStreamTidy DEF NewContext, None, NoPacket
<1>3. CASE dirty' = dirty /\ ~ RecycledContext /\ ~ NewContext
  <2>1. InPlace
    BY <1>3 DEF IInv
  <2>2. ASSUME NEW f \in Sendable, PrepareSendBuf(f) PROVE InPlace'
    BY <2>1, <2>2, SendStep
  <2>3. ASSUME NEW k \in 1..(sentEnd - arrived), ProcessReceive(k) PROVE InPlace'
    BY <2>1, <2>3, ReceiveStep
  <2>4. CASE DropBuffer
    BY <2>1, <2>4, AtStart DEF DropBuffer
  <2>5. CASE UNCHANGED vars
    BY <2>1, <2>5, Stutter
  <2> QED BY <1>3, <2>1, <2>2, <2>3, <2>4, <2>5, TakeHeadStep, NewPacketStep, KeepHeadStep,
             CompleteStep, AccumulateStep DEF Next, SaveData
<1>4. dirty' = dirty \/ RecycledContext \/ NewContext
  BY DEF Next, SaveData, vars, PrepareSendBuf, ProcessReceive, TakeHead, NewPacket, DropBuffer,
         KeepHead, Complete, Accumulate
<1> QED BY <1>1, <1>2, <1>3, <1>4

LEMMA NextInv == ASSUME IInv, [Next]_vars PROVE IInv'
<1>1. TypeOK'
  BY TypeNext DEF IInv
<1>2. Layout'
  BY LayoutNext
<1> QED BY <1>1, <1>2, InPlaceNext DEF IInv

THEOREM Invariance == Spec => []IInv
<1> QED BY InitInv, NextInv, PTL DEF Spec

-----------------------------------------------------------------------------
(* The theorems.                                                           *)

\* The buffers of SaveData are what they are declared to be, and a packet
\* never grows beyond the memory made for it.
THEOREM StreamTypeCorrect == Spec => []TypeOK
<1>1. IInv => TypeOK
  BY DEF IInv
<1> QED BY <1>1, Invariance, PTL

\* SaveData delivers the peer's packets whole, in order and each once.
THEOREM EveryPacketInOrder == Spec => []PacketsInOrder
<1>1. IInv => PacketsInOrder
  BY DEF IInv, InPlace, Delivered, PacketsInOrder
<1> QED BY <1>1, Invariance, PTL

\* SaveData has delivered every packet all bytes of which have arrived.
THEOREM NoPacketKeptBack == Spec => []NothingLeftBehind
<1>1. ASSUME IInv, ~ dirty, ~ Working, arrived = sentEnd PROVE Expected = sentEnd
  <2>1. InPlace /\ NextByte = sentEnd
    BY <1>1 DEF IInv, NextByte
  <2>2. CASE Expected \in Starts
    <3>1. /\ Expected \in Nat /\ frameLen[Expected] \in Nat /\ frameLen[Expected] > HeadLen
          /\ Expected + frameLen[Expected] <= sentEnd /\ Expected # sentEnd
      BY <1>1, <2>2, StartBelowEnd
    <3>2. nDesLeave = 0
      BY <2>1, <3>1, <1>1, Lengths DEF InPlace, PartialInPlace, nDesLeave, IInv
    <3>3. tmpHeadBuf.nLen > 0
      BY <2>1, <3>1, <3>2, <1>1, Lengths DEF InPlace, BetweenPackets, IInv
    <3>4. tmpHeadBuf.nLen <= HeadLen /\ sentEnd = Expected + tmpHeadBuf.nLen
      BY <2>1, <3>3 DEF InPlace, HeadInPlace
    <3> QED BY <1>1, <3>1, <3>4, Lengths, StreamAssumption DEF IInv
  <2>3. CASE Expected = sentEnd
    BY <2>3
  <2> QED BY <2>1, <2>2, <2>3 DEF InPlace
<1>2. IInv => NothingLeftBehind
  BY <1>1 DEF NothingLeftBehind
<1> QED BY <1>2, Invariance, PTL

\* SaveData throws bytes away only where an earlier connection left some.
THEOREM OnlyLeftOversDrop == Spec => []DropNeedsLeftOver
<1>1. IInv => DropNeedsLeftOver
  BY DEF IInv, InPlace, DropNeedsLeftOver
<1> QED BY <1>1, Invariance, PTL

-----------------------------------------------------------------------------
(* PacketStream implements FrameStream.                                    *)

LEMMA NextAtExpected == ASSUME TypeOK, InPlace PROVE Frames!NextAt = Expected
<1>1. DOMAIN delivered = 1..Len(delivered) /\ Len(delivered) \in Nat
  BY DEF TypeOK
<1>2. DOMAIN GivenFrames = 1..Len(delivered)
  BY <1>1 DEF GivenFrames
<1>3. CASE delivered = <<>>
  <2>1. GivenFrames = <<>>
    BY <1>3 DEF GivenFrames
  <2> QED BY <1>3, <2>1 DEF Frames!NextAt, Expected
<1>4. CASE delivered # <<>>
  <2>1. Len(delivered) \in 1..Len(delivered)
    BY <1>1, <1>4, EmptySeq DEF TypeOK
  <2>2. GivenFrames # <<>> /\ Len(GivenFrames) = Len(delivered)
    <3>1. DOMAIN GivenFrames # {}
      BY <1>2, <2>1
    <3>2. GivenFrames = [i \in 1..Len(delivered) |-> GivenFrames[i]]
      BY <1>1 DEF GivenFrames
    <3>3. Len(GivenFrames) = Len(delivered)
      BY <1>1, <3>2
    <3> QED BY <3>1, <3>3
  <2>3. ~ delivered[Len(delivered)].torn
    BY <1>1, <2>1 DEF InPlace, Delivered
  <2>4. GivenFrames[Len(delivered)][2] =
          delivered[Len(delivered)].from + delivered[Len(delivered)].nLen
    BY <1>1, <2>1, <2>3 DEF GivenFrames
  <2> QED BY <1>4, <2>2, <2>4 DEF Frames!NextAt, Expected
<1> QED BY <1>3, <1>4

LEMMA FramesSend ==
    ASSUME IInv, NEW f \in Sendable, PrepareSendBuf(f) PROVE Frames!Send
<1>1. /\ Starts' = Starts \cup {sentEnd}
      /\ \A p \in Starts : p # sentEnd => frameLen'[p] = frameLen[p] /\ units'[p] = units[p]
      /\ UNCHANGED <<base, arrived, delivered, dirty>>
  BY DEF PrepareSendBuf, Extend, Starts, IInv, TypeOK
<1>2. \A p \in Starts : frameLen'[p] = frameLen[p] /\ units'[p] = units[p]
  BY <1>1, StartBelowEnd
<1>3. SentFrames \subseteq SentFrames'
  BY <1>1, <1>2 DEF SentFrames
<1>4. \A g \in SentFrames' \ SentFrames : g[1] = sentEnd
  BY <1>1, <1>2 DEF SentFrames
<1>5. \A g \in SentFrames' \ SentFrames : g[1] >= arrived
  BY <1>4, Lengths DEF IInv
<1> QED BY <1>1, <1>3, <1>5 DEF Frames!Send, GivenFrames

\* Unless excused, the parser keeps no whole packet when it waits.
FramesHold == dirty \/ Frames!NoneKept

\* SaveData has returned: what tmpBuf and tmpHeadBuf keep is less than a packet.
LEMMA FramesKept == IInv => FramesHold
<1> SUFFICES ASSUME IInv, InPlace, ~ Working,
                    Expected \in Starts, Expected + frameLen[Expected] <= arrived
             PROVE  FALSE
  BY NextAtExpected DEF FramesHold, Frames!NoneKept, Frames!WholeFrames, SentFrames, IInv
<1>1. Expected \in Nat /\ frameLen[Expected] \in Nat /\ frameLen[Expected] > HeadLen
      /\ frameLen[Expected] > 0
  BY StartBelowEnd
<1>2. NextByte = arrived /\ arrived \in Nat /\ HeadLen \in Nat
  BY Lengths, StreamAssumption DEF NextByte, IInv
<1>3. CASE nDesLeave > 0
  <2>1. NextByte = Expected + tmpBuf.nCurLen /\ tmpBuf.nDesLen = frameLen[Expected]
    BY <1>3 DEF InPlace, PartialInPlace
  <2>2. tmpBuf.nCurLen < tmpBuf.nDesLen /\ tmpBuf.nCurLen \in Nat /\ tmpBuf.nDesLen \in Nat
    BY <1>3, Lengths DEF nDesLeave, IInv
  <2> QED BY <1>1, <1>2, <2>1, <2>2
<1>4. CASE tmpHeadBuf.nLen > 0
  <2>1. NextByte = Expected + tmpHeadBuf.nLen /\ tmpHeadBuf.nLen <= HeadLen
    BY <1>4 DEF InPlace, HeadInPlace
  <2>2. tmpHeadBuf.nLen \in Nat
    BY Lengths DEF IInv
  <2> QED BY <1>1, <1>2, <2>1, <2>2
<1>5. CASE ~ nDesLeave > 0 /\ ~ tmpHeadBuf.nLen > 0
  <2>1. nDesLeave = 0 /\ tmpHeadBuf.nLen = 0
    BY <1>5, Lengths DEF IInv
  <2>2. NextByte = Expected
    BY <2>1 DEF InPlace, BetweenPackets
  <2> QED BY <1>1, <1>2, <2>2
<1> QED BY <1>3, <1>4, <1>5

LEMMA FramesArrive ==
    ASSUME IInv, NEW k \in 1..(sentEnd - arrived), ProcessReceive(k)
    PROVE  Frames!Arrive
<1>1. /\ ~ Working /\ arrived' = arrived + k
      /\ UNCHANGED <<frameLen, units, base, delivered, dirty>>
  BY DEF ProcessReceive, peer
<1>2. arrived' > arrived
  BY <1>1, Lengths DEF IInv
<1>3. UNCHANGED <<SentFrames, GivenFrames>>
  BY <1>1 DEF SentFrames, GivenFrames, Starts
<1> QED BY <1>1, <1>2, <1>3 DEF Frames!Arrive

LEMMA FramesGive == ASSUME IInv, InPlace, Complete PROVE Frames!Give
<1> DEFINE e == [from |-> tmpBuf.from, nLen |-> tmpBuf.nDesLen, told |-> units[Expected],
                 torn |-> Torn]
           f == <<Expected, Expected + frameLen[Expected], units[Expected]>>
           n == Len(delivered)
<1>1. /\ UNCHANGED <<frameLen, units, base, arrived, dirty>> /\ HandOver
      /\ Working /\ nDesLeave > 0 /\ buf.nLen >= nDesLeave
  BY DEF Complete, peer
<1>2. /\ Expected \in Starts /\ tmpBuf.from = Expected
      /\ tmpBuf.nDesLen = frameLen[Expected] /\ Torn = FALSE
      /\ buf.from = Expected + tmpBuf.nCurLen /\ buf.from + buf.nLen = arrived
  BY <1>1, GoesOn
<1>3. e \in Given /\ e.torn = FALSE /\ e.from = Expected /\ e.nLen = frameLen[Expected]
      /\ e.told = units[Expected] /\ delivered' = Append(delivered, e)
  <2>1. MultiByteToWideChar = {units[Expected]}
    BY <1>2 DEF MultiByteToWideChar
  <2>2. e \in Given
    BY <2>1, GivenRecord DEF IInv
  <2> QED BY <1>1, <1>2, <2>1, <2>2 DEF HandOver
<1> HIDE DEF e
<1>4. /\ n \in Nat /\ DOMAIN delivered = 1..n /\ DOMAIN delivered' = 1..n \cup {n + 1}
      /\ \A i \in 1..n : delivered'[i] = delivered[i]
      /\ delivered'[n + 1] = e
  BY <1>3, DeliverOne DEF IInv
<1>5. /\ DOMAIN GivenFrames = 1..n /\ DOMAIN GivenFrames' = 1..(n + 1)
      /\ \A i \in 1..n : GivenFrames'[i] = GivenFrames[i]
      /\ GivenFrames'[n + 1] = f
  <2>1. DOMAIN GivenFrames = 1..n /\ DOMAIN GivenFrames' = 1..(n + 1)
    BY <1>4 DEF GivenFrames
  <2>2. \A i \in 1..n : GivenFrames'[i] = GivenFrames[i]
    BY <1>4 DEF GivenFrames
  <2>3. GivenFrames'[n + 1] = f
    BY <1>3, <1>4 DEF GivenFrames
  <2> QED BY <2>1, <2>2, <2>3
<1>6. GivenFrames' = Append(GivenFrames, f)
  <2> DEFINE S == {GivenFrames[i] : i \in 1..n} \cup {f}
  <2>1. /\ GivenFrames = [i \in 1..n |-> GivenFrames[i]]
        /\ GivenFrames' = [i \in 1..(n + 1) |-> GivenFrames'[i]]
    BY <1>5 DEF GivenFrames
  <2> HIDE DEF f, n
  <2>2. GivenFrames \in Seq(S) /\ Len(GivenFrames) = n /\ f \in S
    BY <1>4, <2>1
  <2>3. \A i \in 1..(n + 1) : i = n + 1 \/ i \in 1..n
    BY <1>4
  <2> HIDE DEF S
  <2>4. /\ Append(GivenFrames, f) \in Seq(S) /\ Len(Append(GivenFrames, f)) = n + 1
        /\ \A i \in 1..n : Append(GivenFrames, f)[i] = GivenFrames[i]
        /\ Append(GivenFrames, f)[n + 1] = f
    BY <2>2, AppendProperties
  <2>5. \A i \in 1..(n + 1) :
          GivenFrames'[i] \in S /\ GivenFrames'[i] = Append(GivenFrames, f)[i]
    BY <1>5, <2>3, <2>4 DEF S
  <2>6. GivenFrames' \in Seq(S) /\ Len(GivenFrames') = n + 1
    BY <1>4, <2>1, <2>5
  <2> QED BY <2>4, <2>5, <2>6, SeqEqual
<1>7. Expected + frameLen[Expected] <= arrived
  <2>1. /\ buf.nLen >= tmpBuf.nDesLen - tmpBuf.nCurLen /\ buf.nLen \in Nat
        /\ tmpBuf.nDesLen \in Nat /\ tmpBuf.nCurLen \in Nat /\ Expected \in Nat
    BY <1>1, Lengths, ExpectedType DEF nDesLeave, IInv
  <2> QED BY <1>2, <2>1
<1>8. f \in Frames!WholeFrames
  <2>1. f \in SentFrames
    BY <1>2 DEF SentFrames
  <2> QED BY <1>7, <2>1, NextAtExpected DEF Frames!WholeFrames, IInv
<1>9. UNCHANGED SentFrames
  BY <1>1 DEF SentFrames, Starts
<1> QED BY <1>1, <1>6, <1>8, <1>9 DEF Frames!Give

LEMMA FramesConnect == ASSUME IInv, NewStream PROVE Frames!Connect
<1>1. delivered' = <<>> /\ arrived' = sentEnd + 1 /\ base' = sentEnd + 1
  BY DEF NewStream
<1>2. base' > arrived
  BY <1>1, Lengths DEF IInv
<1>3. GivenFrames' = <<>>
  BY <1>1 DEF GivenFrames
<1> QED BY <1>1, <1>2, <1>3 DEF Frames!Connect

LEMMA FramesStep == IInv /\ FramesHold' /\ [Next]_vars => Frames!Next
<1> SUFFICES ASSUME IInv, FramesHold', [Next]_vars PROVE Frames!Next
  OBVIOUS
<1>2. CASE dirty'
  BY <1>2 DEF Frames!Next, Frames!Excused
<1> SUFFICES ASSUME ~ dirty', Frames!NoneKept' PROVE Frames!Next
  BY <1>2 DEF FramesHold
<1>1. CASE NewStream
  BY <1>1, FramesConnect DEF Frames!Next
<1>3. CASE UNCHANGED <<frameLen, units, base, arrived, delivered, dirty>>
  BY <1>3 DEF Frames!Next, Frames!Work, SentFrames, GivenFrames, Starts
<1>4. ASSUME NEW f \in Sendable, PrepareSendBuf(f) PROVE Frames!Next
  BY <1>4, FramesSend DEF Frames!Next
<1>5. ASSUME NEW k \in 1..(sentEnd - arrived), ProcessReceive(k) PROVE Frames!Next
  BY <1>5, FramesArrive DEF Frames!Next
<1>6. CASE Complete
  <2>1. InPlace
    BY <1>6 DEF Complete, IInv
  <2> QED BY <1>6, <2>1, FramesGive DEF Frames!Next
<1>7. CASE TakeHead \/ NewPacket \/ DropBuffer \/ KeepHead \/ Accumulate
  <2>1. UNCHANGED <<peer, arrived, delivered, dirty>>
    BY <1>7, Zenon DEF TakeHead, NewPacket, DropBuffer, KeepHead, Accumulate
  <2> QED BY <1>3, <2>1 DEF peer
<1>8. CASE UNCHANGED vars
  BY <1>3, <1>8 DEF vars, peer
<1> QED BY <1>1, <1>4, <1>5, <1>6, <1>7, <1>8
        DEF Next, SaveData, RecycledContext, NewContext

\* SaveData makes a stream of packets of a connection on clean buffers: when it
\* returns, every whole packet was handed to Recevie, and only the next one ever.
THEOREM SaveDataImplementsFrames == Spec => ImplementsFrames
<1>1. Init => Frames!Init
  <2> SUFFICES ASSUME Init PROVE Frames!Init
    OBVIOUS
  <2>1. FramesHold
    BY InitInv, FramesKept
  <2> QED BY <2>1 DEF FramesHold, Init, Frames!Init, GivenFrames
<1> QED BY <1>1, FramesStep, FramesKept, Invariance, PTL
        DEF Spec, ImplementsFrames, Frames!Spec

-----------------------------------------------------------------------------
(* TcpStreamPack.                                                          *)

\* A read that is one packet is in hand, or was just found, until it is handed
\* over.
AloneInHand(p) ==
    /\ state = "parse"
    /\ \/ in_buf = Pack(p) /\ pack_list = <<>>
       \/ in_buf = <<>> /\ pack_list = <<p>>

AloneKept == \A p \in alone : p \in Range(received) \/ AloneInHand(p)

\* The packets found so far, and the bytes that have been cut off before in_buf.
Found == Len(received) + Len(pack_list)
Cut == nRead - Len(in_buf)

\* The stream stands in the middle of a packet only after a read that cut it.
CutOnce == nRead \notin Range(ends) => pieces >= 1

\* in_buf does not begin at a check code that reads 'S:', or is too short for
\* a header.
NoHeadOfCode == Len(in_buf) < HeaderLen \/ ~ Coded(Cut + 1)

\* What was found are the first packets of the stream, a cut packet waits up to
\* where in_buf begins, and it is whole when the next read has come.
InStream ==
    /\ state # "crashed"
    /\ \A j \in DOMAIN received : received[j] = j
    /\ \A j \in DOMAIN pack_list : pack_list[j] = Len(received) + j
    /\ Found \in 0..MaxPacks
    /\ \A j \in DOMAIN in_buf : in_buf[j] = Cut + j
    /\ Cut = ends[Found] + nNoFullPackLen
    /\ \A j \in 1..nNoFullPackLen : revNoFullPack[j] = ends[Found] + j
    /\ nNoFullPackLen > 0 => /\ Found < MaxPacks
                             /\ Cut < ends[Found + 1]
                             /\ state = "parse" => ends[Found + 1] <= nRead /\ NoHeadOfCode
    /\ state = "read" => in_buf = <<>> /\ pack_list = <<>>

PackIInv == PackTypeOK /\ AloneKept /\ CutOnce /\ (~ Spoilt => InStream)

-----------------------------------------------------------------------------
(* Where the packets of a stream end.                                      *)

\* A set of naturals has a least element.
LEMMA LeastNatural ==
    ASSUME NEW S \in SUBSET Nat, S # {} PROVE \E m \in S : \A k \in S : m <= k
<1> DEFINE R == OpToRel(<, Nat)
<1>1. IsWellFoundedOn(R, Nat)
  BY NatLessThanWellFounded
<1>2. PICK m \in S : \A k \in S : ~ (<<k, m>> \in R)
  BY <1>1, WFMin, Zenon
<1>3. \A k \in S : k < m => <<k, m>> \in R
  BY DEF OpToRel
<1>4. \A k \in S : ~ (k < m)
  BY <1>2, <1>3, Zenon
<1>5. \A k \in S : k \in Nat
  OBVIOUS
<1> HIDE DEF R
<1>6. \A k \in S : m <= k
  BY <1>4, <1>5
<1> QED BY <1>6

\* The first packet that did not end behind packet p would be the end of one
\* that did.
LEMMA EndsGrow ==
    ASSUME NEW e \in Streams, NEW p \in 0..MaxPacks, NEW q \in 0..MaxPacks, p < q
    PROVE  e[p] < e[q]
<1> DEFINE S == {n \in 0..MaxPacks : n > p /\ ~ (e[p] < e[n])}
<1>1. /\ e \in [0..MaxPacks -> Nat] /\ MaxPacks \in Nat /\ HeaderLen \in Nat /\ Check \in Nat
      /\ \A n \in 1..MaxPacks : e[n] > e[n - 1] + HeaderLen + Check
  BY PackAssumption
<1>2. ASSUME NEW m \in S, \A k \in S : m <= k PROVE FALSE
  <2>1. m \in 1..MaxPacks /\ m - 1 \in 0..MaxPacks /\ p <= m - 1 /\ ~ (e[p] < e[m])
    BY <1>1
  <2>2. e[m] \in Nat /\ e[m - 1] \in Nat /\ e[p] \in Nat /\ e[m - 1] < e[m]
    BY <1>1, <2>1
  <2>3. m - 1 \notin S
    BY <1>2, <2>1
  <2>4. m - 1 = p \/ e[p] < e[m - 1]
    BY <2>1, <2>3
  <2> HIDE DEF S
  <2> QED BY <2>1, <2>2, <2>4
<1>3. S = {}
  <2>1. S \in SUBSET Nat
    BY <1>1
  <2> HIDE DEF S
  <2> QED BY <1>2, <2>1, LeastNatural
<1> QED BY <1>3

LEMMA EndsOrdered ==
    ASSUME PackTypeOK
    PROVE  /\ MaxPacks \in Nat /\ ends \in [0..MaxPacks -> Nat] /\ ends[0] = 0
           /\ \A p \in 0..MaxPacks : ends[p] \in Nat /\ (p > 0 => ends[p] > 0)
           /\ \A p, q \in 0..MaxPacks : p < q => ends[p] < ends[q]
           /\ \A p, q \in 0..MaxPacks : ends[p] = ends[q] => p = q
           /\ \A p \in Packs : p - 1 \in 0..MaxPacks /\ p \in 0..MaxPacks
                /\ ends[p] - ends[p - 1] \in Nat /\ ends[p] - ends[p - 1] > HeaderLen + Check
<1>1. /\ MaxPacks \in Nat /\ ends \in [0..MaxPacks -> Nat] /\ ends[0] = 0
      /\ \A p \in 1..MaxPacks : ends[p] > ends[p - 1] + HeaderLen + Check
      /\ HeaderLen \in Nat /\ Check \in Nat /\ ends \in Streams
  BY PackAssumption DEF PackTypeOK
<1>2. \A p, q \in 0..MaxPacks : p < q => ends[p] < ends[q]
  BY <1>1, EndsGrow
<1>3. \A p \in 0..MaxPacks : ends[p] \in Nat
  BY <1>1
<1>4. \A p, q \in 0..MaxPacks : ends[p] = ends[q] => p = q
  <2> SUFFICES ASSUME NEW p \in 0..MaxPacks, NEW q \in 0..MaxPacks, ends[p] = ends[q]
               PROVE  p = q
    OBVIOUS
  <2>1. p \in Nat /\ q \in Nat /\ ends[p] \in Nat /\ ends[q] \in Nat
    BY <1>1, <1>3
  <2>2. p < q => ends[p] < ends[q]
    BY <1>2
  <2>3. q < p => ends[q] < ends[p]
    BY <1>2
  <2> QED BY <2>1, <2>2, <2>3
<1>5. \A p \in 0..MaxPacks : p > 0 => ends[p] > 0
  <2>1. 0 \in 0..MaxPacks
    BY <1>1
  <2> QED BY <1>1, <1>2, <2>1
<1>6. ASSUME NEW p \in Packs
      PROVE  /\ p - 1 \in 0..MaxPacks /\ p \in 0..MaxPacks
             /\ ends[p] - ends[p - 1] \in Nat /\ ends[p] - ends[p - 1] > HeaderLen + Check
  <2>1. p - 1 \in 0..MaxPacks /\ p \in 0..MaxPacks /\ p \in 1..MaxPacks
    BY <1>1 DEF Packs
  <2>2. ends[p] \in Nat /\ ends[p - 1] \in Nat /\ ends[p] > ends[p - 1] + HeaderLen + Check
    BY <1>1, <1>3, <2>1
  <2> QED BY <1>1, <2>1, <2>2
<1> QED BY <1>1, <1>2, <1>3, <1>4, <1>5, <1>6

LEMMA PackIsBytes ==
    ASSUME PackTypeOK, NEW p \in Packs
    PROVE  /\ Pack(p) \in Seq(Nat) /\ Len(Pack(p)) = ends[p] - ends[p - 1]
           /\ DOMAIN Pack(p) = 1..(ends[p] - ends[p - 1])
           /\ \A j \in DOMAIN Pack(p) : Pack(p)[j] = ends[p - 1] + j
<1>1. ends[p - 1] \in Nat /\ ends[p] - ends[p - 1] \in Nat
  BY EndsOrdered
<1> QED BY <1>1 DEF Pack, Bytes

\* A sequence that begins with a packet's bytes and has its length is the packet.
LEMMA PackIs ==
    ASSUME PackTypeOK, NEW p \in Packs, NEW b \in Seq(Nat), Len(b) = ends[p] - ends[p - 1],
           \A j \in DOMAIN b : b[j] = ends[p - 1] + j
    PROVE  b = Pack(p)
<1>1. Len(b) = Len(Pack(p)) /\ Pack(p) \in Seq(Nat)
  BY PackIsBytes
<1>2. \A j \in 1..Len(b) : b[j] = Pack(p)[j]
  BY <1>1, PackIsBytes
<1> QED BY <1>1, <1>2, SeqEqual

-----------------------------------------------------------------------------
(* _getPackLen and the loop of pack_parse.                                 *)

LEMMA PackLenType ==
    ASSUME PackTypeOK, NEW b PROVE GetPackLen(b) \subseteq Nat \cup {NoLen}
<1>1. \A x : LenAt(x) \subseteq Nat
  <2>1. \A p \in Packs : ends[p] - ends[p - 1] \in Nat
    BY EndsOrdered
  <2>2. MisreadLens \subseteq Nat /\ {0} \subseteq Nat
    BY PackAssumption
  <2>3. \A x : {ends[p] - ends[p - 1] : p \in {q \in Packs : x = ends[q - 1] + HeaderLen}}
               \subseteq Nat
    BY <2>1
  <2> QED BY <2>2, <2>3 DEF LenAt
<1> QED BY <1>1 DEF GetPackLen

\* From the first bytes of a packet its length is read, if the header is whole.
LEMMA HeaderRead ==
    ASSUME PackTypeOK, NEW p \in Packs, NEW b \in Seq(Nat),
           \A j \in DOMAIN b : b[j] = ends[p - 1] + j
    PROVE  GetPackLen(b) = IF Len(b) < HeaderLen THEN {NoLen} ELSE {ends[p] - ends[p - 1]}
<1>1. CASE Len(b) < HeaderLen
  BY <1>1 DEF GetPackLen
<1>2. CASE ~ Len(b) < HeaderLen
  <2>1. HeaderLen \in Nat /\ HeaderLen > 2 /\ Len(b) \in Nat /\ DOMAIN b = 1..Len(b)
    BY PackAssumption
  <2>2. 1 \in DOMAIN b /\ 2 \in DOMAIN b /\ HeaderLen \in DOMAIN b
    BY <1>2, <2>1
  <2>3. /\ b[1] = ends[p - 1] + 1 /\ b[2] = ends[p - 1] + 2
        /\ b[HeaderLen] = ends[p - 1] + HeaderLen
    BY <2>2
  <2>4. ends[p - 1] \in Nat
    BY EndsOrdered
  <2>5. /\ Begins(b[1]) /\ b[2] = b[1] + 1 /\ Place(b[HeaderLen], HeaderLen) /\ b[2] # Zero
    BY <2>3, <2>4 DEF Place, Begins, Zero
  <2>6. \A q \in Packs : b[HeaderLen] = ends[q - 1] + HeaderLen => q = p
    <3> SUFFICES ASSUME NEW q \in Packs, b[HeaderLen] = ends[q - 1] + HeaderLen PROVE q = p
      OBVIOUS
    <3>1. p - 1 \in 0..MaxPacks /\ q - 1 \in 0..MaxPacks /\ ends[q - 1] \in Nat
      BY EndsOrdered
    <3>2. ends[q - 1] = ends[p - 1]
      BY <2>1, <2>3, <2>4, <3>1
    <3>3. q - 1 = p - 1
      BY <3>1, <3>2, EndsOrdered
    <3> QED BY <3>3, EndsOrdered DEF Packs
  <2>7. {q \in Packs : b[HeaderLen] = ends[q - 1] + HeaderLen} = {p}
    BY <2>3, <2>6
  <2>8. LenAt(b[HeaderLen]) = {ends[p] - ends[p - 1]}
    BY <2>5, <2>7 DEF LenAt
  <2> QED BY <1>2, <2>5, <2>8 DEF GetPackLen
<1> QED BY <1>1, <1>2

\* From bytes that do not begin as a header does, or are too few, no length is
\* read.
LEMMA NoHeaderRead ==
    ASSUME NEW b, Len(b) < HeaderLen \/ ~ Begins(b[1]) PROVE GetPackLen(b) = {NoLen}
  BY DEF GetPackLen

\* What is left in in_buf, and the list, after an array was returned.
LEMMA ReturnedTypes ==
    ASSUME PackTypeOK, NEW ret, NEW rest \in Seq(Nat), Len(rest) <= RevLen, Returned(ret, rest)
    PROVE  /\ state' \in {"read", "parse", "crashed"}
           /\ in_buf' \in Seq(Nat) /\ Len(in_buf') <= RevLen
           /\ pack_list' \in Seq(0..MaxPacks) /\ Len(pack_list') <= MaxList
           /\ UNCHANGED <<sent, received, traces>>
<1>1. /\ pack_list \in Seq(0..MaxPacks) /\ state \in {"read", "parse", "crashed"}
      /\ MaxList \in Nat /\ RevLen \in Nat /\ MaxPacks \in Nat
  BY PackAssumption DEF PackTypeOK
<1>2. \A p \in 0..MaxPacks : Append(pack_list, p) \in Seq(0..MaxPacks)
  BY <1>1
<1>3. <<>> \in Seq(Nat) /\ Len(<<>>) = 0 /\ <<>> \in Seq(0..MaxPacks)
  OBVIOUS
<1>4. ASSUME Crashes \/ JSONException
      PROVE  /\ state' \in {"read", "parse", "crashed"} /\ in_buf' = <<>> /\ pack_list' = <<>>
  BY <1>4 DEF Crashes, JSONException
<1>5. ASSUME NEW list \in Seq(0..MaxPacks), Goes(rest, list), ~ Crashes
      PROVE  /\ state' = state /\ in_buf' = rest /\ pack_list' = list /\ Len(list) <= MaxList
  BY <1>1, <1>5 DEF Goes
<1>6. \/ Crashes \/ JSONException
      \/ \E list \in Seq(0..MaxPacks) : Goes(rest, list)
  <2>1. TornPack \in 0..MaxPacks
    BY <1>1 DEF TornPack
  <2>2. Whole(ret) \subseteq 0..MaxPacks
    BY <1>1 DEF Whole, Packs
  <2> QED BY <1>1, <1>2, <2>1, <2>2 DEF Returned
<1>7. UNCHANGED <<sent, received, traces>>
  BY DEF Returned
<1>8. CASE Crashes \/ JSONException
  <2>1. state' \in {"read", "parse", "crashed"} /\ in_buf' = <<>> /\ pack_list' = <<>>
    BY <1>4, <1>8
  <2>2. Len(in_buf') = 0 /\ Len(pack_list') = 0 /\ 0 <= RevLen /\ 0 <= MaxList
    BY <1>1, <2>1
  <2> QED BY <1>3, <1>7, <2>1, <2>2
<1>9. CASE ~ Crashes /\ ~ JSONException
  BY <1>1, <1>5, <1>6, <1>7, <1>9
<1> QED BY <1>8, <1>9

\* A packet that was cut out whole joins the list.
LEMMA ReturnsPack ==
    ASSUME PackTypeOK, NEW p \in Packs, NEW rest, Returned(Pack(p), rest),
           Len(pack_list) < MaxList
    PROVE  /\ state' = state /\ in_buf' = rest /\ pack_list' = Append(pack_list, p)
           /\ UNCHANGED <<sent, received, traces>>
<1>1. /\ HeaderLen \in Nat /\ HeaderLen > 2 /\ Check \in Nat /\ MaxList \in Nat
      /\ pack_list \in Seq(0..MaxPacks)
  BY PackAssumption DEF PackTypeOK
<1>2. /\ Pack(p) \in Seq(Nat) /\ Len(Pack(p)) \in Nat /\ Len(Pack(p)) > HeaderLen + Check
      /\ Pack(p)[1] = ends[p - 1] + 1
  <2>1. Len(Pack(p)) \in Nat /\ Len(Pack(p)) > HeaderLen + Check
    BY PackIsBytes, EndsOrdered
  <2>2. 1 \in DOMAIN Pack(p)
    BY <1>1, <2>1, PackIsBytes
  <2> QED BY <2>1, <2>2, PackIsBytes
<1>3. Begins(Pack(p)[1])
  BY <1>2 DEF Place, Begins
<1>4. \A q \in Packs : Content(Pack(q)) = Content(Pack(p)) => q = p
  <2> SUFFICES ASSUME NEW q \in Packs, Content(Pack(q)) = Content(Pack(p)) PROVE q = p
    OBVIOUS
  <2>1. ASSUME NEW r \in Packs
        PROVE  Content(Pack(r))[1] = ends[r - 1] + HeaderLen + 1
    <3>1. /\ Pack(r) \in Seq(Nat) /\ Len(Pack(r)) \in Nat /\ Len(Pack(r)) > HeaderLen + Check
          /\ \A j \in 1..Len(Pack(r)) : Pack(r)[j] = ends[r - 1] + j
      <4>1. ends[r] - ends[r - 1] \in Nat /\ ends[r] - ends[r - 1] > HeaderLen + Check
        BY EndsOrdered
      <4> QED BY <4>1, PackIsBytes
    <3>2. /\ HeaderLen + 1 \in 1..Len(Pack(r)) /\ Len(Pack(r)) - Check \in 1..Len(Pack(r))
          /\ HeaderLen + 1 <= Len(Pack(r)) - Check
      BY <1>1, <3>1
    <3>3. Content(Pack(r))[1] = Pack(r)[HeaderLen + 1]
      BY <1>1, <3>1, <3>2 DEF Content
    <3>4. Pack(r)[HeaderLen + 1] = ends[r - 1] + (HeaderLen + 1) /\ ends[r - 1] \in Nat
      BY <3>1, <3>2, EndsOrdered
    <3> QED BY <1>1, <3>3, <3>4
  <2>2. ends[q - 1] + HeaderLen + 1 = ends[p - 1] + HeaderLen + 1
    BY <2>1
  <2>3. p - 1 \in 0..MaxPacks /\ q - 1 \in 0..MaxPacks /\ ends[q - 1] \in Nat /\ ends[p - 1] \in Nat
    BY EndsOrdered
  <2>4. ends[q - 1] = ends[p - 1]
    BY <1>1, <2>2, <2>3
  <2>5. q - 1 = p - 1
    BY <2>3, <2>4, EndsOrdered
  <2> QED BY <2>5, EndsOrdered DEF Packs
<1>5. Whole(Pack(p)) = {p}
  BY <1>4 DEF Whole
<1>6. Goes(rest, Append(pack_list, p)) /\ UNCHANGED <<sent, received, traces>>
  BY <1>1, <1>2, <1>3, <1>5 DEF Returned
<1>7. ~ Len(Append(pack_list, p)) > MaxList
  <2>1. Len(Append(pack_list, p)) = Len(pack_list) + 1 /\ Len(pack_list) \in Nat
    BY <1>1
  <2> QED BY <1>1, <2>1
<1> QED BY <1>6, <1>7 DEF Goes

-----------------------------------------------------------------------------
(* The arrays of _pack_save.                                               *)

LEMMA PackInitIInv == PackInit => PackIInv
<1> SUFFICES ASSUME PackInit PROVE PackIInv
  OBVIOUS
<1>1. /\ ends \in [0..MaxPacks -> Nat] /\ MaxPacks \in Nat /\ ends[0] = 0
      /\ MaxList \in Nat /\ RevLen \in Nat /\ NoFullLen \in Nat
  BY PackAssumption DEF PackInit
<1>2. PackTypeOK
  <2>1. nRead \in 0..ends[MaxPacks]
    BY <1>1 DEF PackInit
  <2>2. in_buf \in Seq(Nat) /\ Len(in_buf) <= RevLen
    BY <1>1 DEF PackInit
  <2>3. revNoFullPack \in [1..NoFullLen -> Nat] /\ nNoFullPackLen \in 0..RevLen
    BY <1>1 DEF PackInit, Zeros, Zero
  <2>4. pack_list \in Seq(0..MaxPacks) /\ Len(pack_list) <= MaxList
    BY <1>1 DEF PackInit
  <2>5. received \in Seq(0..MaxPacks) /\ pieces \in Nat /\ alone \subseteq Packs
    BY DEF PackInit
  <2>6. sums \in Sums /\ thrice \in BOOLEAN /\ misled \in BOOLEAN
    BY Zenon DEF PackInit
  <2> QED BY <2>1, <2>2, <2>3, <2>4, <2>5, <2>6 DEF PackTypeOK, PackInit
<1>3. AloneKept
  BY DEF AloneKept, PackInit
<1>4. CutOnce
  <2>1. 0 \in Range(ends)
    BY <1>1 DEF Range
  <2> QED BY <2>1 DEF CutOnce, PackInit
<1>5. InStream
  <2>1. /\ in_buf = <<>> /\ pack_list = <<>> /\ received = <<>> /\ nRead = 0 /\ nNoFullPackLen = 0
        /\ state = "read"
    BY DEF PackInit
  <2>2. Len(in_buf) = 0 /\ Len(pack_list) = 0 /\ Len(received) = 0
    BY <2>1
  <2>3. Found = 0
    BY <2>2 DEF Found
  <2>4. nRead = 0
    BY <2>1
  <2>5. Cut = 0
    BY <2>2, <2>4 DEF Cut
  <2> QED BY <1>1, <2>1, <2>2, <2>3, <2>5 DEF InStream
<1> QED BY <1>2, <1>3, <1>4, <1>5 DEF PackIInv

\* What arraycopy leaves in revNoFullPack.
LEMMA Copied ==
    ASSUME PackTypeOK, NEW at \in Nat
    PROVE  /\ CopyTo(in_buf, at) \in [1..NoFullLen -> Nat]
           /\ \A j \in 1..at : j <= NoFullLen => CopyTo(in_buf, at)[j] = revNoFullPack[j]
           /\ \A j \in 1..Len(in_buf) :
                at + j <= NoFullLen => CopyTo(in_buf, at)[at + j] = in_buf[j]
<1>1. /\ revNoFullPack \in [1..NoFullLen -> Nat] /\ NoFullLen \in Nat
      /\ in_buf \in Seq(Nat) /\ Len(in_buf) \in Nat /\ \A j \in 1..Len(in_buf) : in_buf[j] \in Nat
  <2>1. /\ revNoFullPack \in [1..NoFullLen -> Nat] /\ NoFullLen \in Nat
        /\ in_buf \in Seq(Nat)
    BY PackAssumption DEF PackTypeOK
  <2> QED BY <2>1
<1>2. ASSUME NEW j \in 1..NoFullLen
      PROVE  (IF j \in at + 1 .. at + Len(in_buf) THEN in_buf[j - at] ELSE revNoFullPack[j]) \in Nat
  <2>1. CASE j \in at + 1 .. at + Len(in_buf)
    <3>1. j - at \in 1..Len(in_buf)
      BY <1>1, <2>1
    <3> QED BY <1>1, <2>1, <3>1
  <2>2. CASE j \notin at + 1 .. at + Len(in_buf)
    BY <1>1, <2>2
  <2> QED BY <2>1, <2>2
<1>3. CopyTo(in_buf, at) \in [1..NoFullLen -> Nat]
  BY <1>2 DEF CopyTo
<1>4. ASSUME NEW j \in 1..at, j <= NoFullLen PROVE CopyTo(in_buf, at)[j] = revNoFullPack[j]
  <2>1. j \in 1..NoFullLen /\ j \notin at + 1 .. at + Len(in_buf)
    BY <1>1, <1>4
  <2> QED BY <2>1 DEF CopyTo
<1>5. ASSUME NEW j \in 1..Len(in_buf), at + j <= NoFullLen
      PROVE  CopyTo(in_buf, at)[at + j] = in_buf[j]
  <2>1. at + j \in 1..NoFullLen /\ at + j \in at + 1 .. at + Len(in_buf) /\ at + j - at = j
    BY <1>1, <1>5
  <2> QED BY <2>1 DEF CopyTo
<1> QED BY <1>3, <1>4, <1>5

\* The first n of `to' bytes, and the rest.
LEMMA CutInTwo ==
    ASSUME NEW b, NEW n \in Nat, NEW to \in Nat, n <= to, \A i \in 1..to : b[i] \in Nat
    PROVE  /\ SubSeq(b, 1, n) \in Seq(Nat) /\ Len(SubSeq(b, 1, n)) = n
           /\ \A j \in 1..n : SubSeq(b, 1, n)[j] = b[j]
           /\ SubSeq(b, n + 1, to) \in Seq(Nat) /\ Len(SubSeq(b, n + 1, to)) = to - n
           /\ \A j \in 1..(to - n) : SubSeq(b, n + 1, to)[j] = b[n + j]
<1>1. \A i \in 1..n : b[i] \in Nat
  OBVIOUS
<1>2. \A i \in n + 1 .. to : b[i] \in Nat
  OBVIOUS
<1>3. /\ SubSeq(b, 1, n) \in Seq(Nat) /\ Len(SubSeq(b, 1, n)) = IF 1 <= n THEN n - 1 + 1 ELSE 0
      /\ \A j \in 1..(n - 1 + 1) : SubSeq(b, 1, n)[j] = b[1 + j - 1]
  BY <1>1, SubSeqProperties
<1>4. /\ SubSeq(b, n + 1, to) \in Seq(Nat)
      /\ Len(SubSeq(b, n + 1, to)) = IF n + 1 <= to THEN to - (n + 1) + 1 ELSE 0
      /\ \A j \in 1..(to - (n + 1) + 1) : SubSeq(b, n + 1, to)[j] = b[n + 1 + j - 1]
  BY <1>2, SubSeqProperties
<1>5. \A j \in 1..n : SubSeq(b, 1, n)[j] = b[j]
  BY <1>3
<1>6. \A j \in 1..(to - n) : SubSeq(b, n + 1, to)[j] = b[n + j]
  <2> SUFFICES ASSUME NEW j \in 1..(to - n) PROVE SubSeq(b, n + 1, to)[j] = b[n + j]
    OBVIOUS
  <2>1. j \in 1..(to - (n + 1) + 1) /\ n + 1 + j - 1 = n + j
    OBVIOUS
  <2> QED BY <1>4, <2>1
<1> QED BY <1>3, <1>4, <1>5, <1>6

-----------------------------------------------------------------------------
(* Types.                                                                  *)

\* What every step of pack_parse keeps, whatever is in the arrays.
LEMMA KeepTypes ==
    ASSUME PackTypeOK, Keep, nNoFullPackLen = 0
    PROVE  /\ revNoFullPack' \in [1..NoFullLen -> Nat] /\ nNoFullPackLen' \in 0..RevLen
<1>1. revNoFullPack' \in [1..NoFullLen -> Nat]
  BY Copied DEF Keep
<1>2. Len(in_buf) \in Nat /\ Len(in_buf) <= RevLen /\ RevLen \in Nat
  BY PackAssumption DEF PackTypeOK
<1>3. nNoFullPackLen' = Len(in_buf)
  BY <1>2 DEF Keep
<1> QED BY <1>1, <1>2, <1>3

LEMMA NullReturnedTypes ==
    ASSUME PackTypeOK, NullReturned
    PROVE  /\ state' \in {"read", "parse", "crashed"}
           /\ in_buf' \in Seq(Nat) /\ Len(in_buf') <= RevLen
           /\ pack_list' \in Seq(0..MaxPacks) /\ Len(pack_list') <= MaxList
           /\ received' \in Seq(0..MaxPacks)
           /\ UNCHANGED <<sent, traces>>
<1>1. in_buf' = <<>> /\ pack_list' = <<>> /\ received' = received \o pack_list
  BY DEF NullReturned
<1>2. received' \in Seq(0..MaxPacks)
  BY <1>1, ConcatProperties DEF PackTypeOK
<1>3. RevLen \in Nat /\ MaxList \in Nat
  BY PackAssumption
<1>4. Len(in_buf') <= RevLen /\ Len(pack_list') <= MaxList
  BY <1>1, <1>3
<1> QED BY <1>1, <1>2, <1>4 DEF NullReturned

LEMMA JoinsTypes ==
    ASSUME PackTypeOK, NEW joined \in [1..NoFullLen -> Nat], NEW n \in Nat \cup {NoLen},
           JoinedLen <= NoFullLen, JoinsPart(joined, n) \/ JoinsPack(joined, n)
    PROVE  PackTypeOK'
<1>1. /\ RevLen \in Nat /\ NoFullLen \in Nat /\ in_buf \in Seq(Nat) /\ Len(in_buf) \in Nat
      /\ Len(in_buf) <= RevLen /\ JoinedLen \in Nat
  <2>1. /\ RevLen \in Nat /\ NoFullLen \in Nat /\ in_buf \in Seq(Nat) /\ Len(in_buf) <= RevLen
        /\ nNoFullPackLen \in 0..RevLen
    BY PackAssumption DEF PackTypeOK
  <2> QED BY <2>1 DEF JoinedLen
<1>2. n \in Nat
  BY DEF JoinsPart, JoinsPack
<1>3. ASSUME NEW ret, NEW rest \in Seq(Nat), Len(rest) <= RevLen, Returned(ret, rest),
             revNoFullPack' \in [1..NoFullLen -> Nat], nNoFullPackLen' \in 0..RevLen
      PROVE  PackTypeOK'
  BY <1>3, ReturnedTypes DEF PackTypeOK, sent, traces
<1>4. CASE JoinsPack(joined, n)
  <2>1. JoinedLen - n \in Nat /\ JoinedLen - n <= RevLen /\ n <= JoinedLen
    BY <1>1, <1>2, <1>4 DEF JoinsPack
  <2>2. \A i \in 1..JoinedLen : joined[i] \in Nat
    BY <1>1
  <2>3. /\ SubSeq(joined, n + 1, JoinedLen) \in Seq(Nat)
        /\ Len(SubSeq(joined, n + 1, JoinedLen)) <= RevLen
    BY <1>1, <1>2, <2>1, <2>2, CutInTwo
  <2>4. revNoFullPack' \in [1..NoFullLen -> Nat] /\ nNoFullPackLen' \in 0..RevLen
    BY <1>1, <1>4 DEF JoinsPack, Zeros, Zero
  <2> QED BY <1>3, <1>4, <2>3, <2>4 DEF JoinsPack
<1>5. CASE JoinsPart(joined, n)
  <2>1. revNoFullPack' \in [1..NoFullLen -> Nat] /\ nNoFullPackLen' \in 0..RevLen
    BY <1>5 DEF JoinsPart, PackTypeOK
  <2>2. Zeros(Len(in_buf)) \in Seq(Nat) /\ Len(Zeros(Len(in_buf))) <= RevLen
    BY <1>1 DEF Zeros, Zero
  <2> QED BY <1>1, <1>3, <1>5, <2>1, <2>2 DEF JoinsPart
<1> QED BY <1>4, <1>5

LEMMA PackSaveTypes == ASSUME PackTypeOK, PackSave PROVE PackTypeOK'
<1>1. PICK len \in GetPackLen(in_buf) :
        BeginsPack(len) \/ CutsPack(len) \/ NoHead(len) \/ Joins(len)
  BY DEF PackSave
<1>2. len \in Nat \cup {NoLen}
  BY <1>1, PackLenType
<1>3. /\ RevLen \in Nat /\ NoFullLen \in Nat /\ in_buf \in Seq(Nat) /\ Len(in_buf) \in Nat
      /\ Len(in_buf) <= RevLen /\ nNoFullPackLen \in Nat
      /\ revNoFullPack \in [1..NoFullLen -> Nat] /\ nNoFullPackLen \in 0..RevLen
  BY PackAssumption DEF PackTypeOK
<1>4. ASSUME NullReturned, revNoFullPack' \in [1..NoFullLen -> Nat],
             nNoFullPackLen' \in 0..RevLen
      PROVE  PackTypeOK'
  BY <1>4, NullReturnedTypes DEF PackTypeOK, sent, traces
<1>5. CASE BeginsPack(len)
  BY <1>3, <1>4, <1>5, KeepTypes DEF BeginsPack
<1>6. CASE CutsPack(len)
  <2>1. len \in Nat /\ len <= Len(in_buf) /\ UNCHANGED <<revNoFullPack, nNoFullPackLen>>
    BY <1>2, <1>6 DEF CutsPack
  <2>2. \A i \in 1..Len(in_buf) : in_buf[i] \in Nat
    BY <1>3
  <2>3. /\ SubSeq(in_buf, len + 1, Len(in_buf)) \in Seq(Nat)
        /\ Len(SubSeq(in_buf, len + 1, Len(in_buf))) <= RevLen
    <3>1. Len(in_buf) - len <= RevLen
      BY <1>3, <2>1
    <3> QED BY <1>3, <2>1, <2>2, <3>1, CutInTwo
  <2> QED BY <1>3, <1>6, <2>1, <2>3, ReturnedTypes DEF CutsPack, PackTypeOK, sent, traces
<1>7. CASE NoHead(len)
  BY <1>3, <1>4, <1>7, KeepTypes DEF NoHead
<1>8. CASE Joins(len)
  <2> DEFINE joined == CopyTo(in_buf, nNoFullPackLen)
  <2>1. joined \in [1..NoFullLen -> Nat]
    BY <1>3, Copied
  <2>2. CASE JoinsNone(joined)
    BY <1>3, <1>4, <2>1, <2>2 DEF JoinsNone
  <2>3. ASSUME JoinedLen <= NoFullLen, NEW n \in GetPackLen(SubSeq(joined, 1, JoinedLen)),
               JoinsPart(joined, n) \/ JoinsPack(joined, n)
        PROVE  PackTypeOK'
    <3>1. n \in Nat \cup {NoLen}
      BY PackLenType
    <3> HIDE DEF joined
    <3> QED BY <2>1, <2>3, <3>1, JoinsTypes
  <2> QED BY <1>8, <2>2, <2>3 DEF Joins
<1> QED BY <1>1, <1>5, <1>6, <1>7, <1>8

LEMMA ReadTypes == ASSUME PackTypeOK, NEW k \in 1..RevLen, Read(k) PROVE PackTypeOK'
<1>1. /\ RevLen \in Nat /\ k \in Nat /\ nRead \in Nat /\ MaxPacks \in Nat /\ MaxList \in Nat
      /\ ends[MaxPacks] \in Nat /\ pieces \in Nat
  BY PackAssumption, EndsOrdered DEF PackTypeOK
<1>2. nRead' = nRead + k /\ nRead' <= ends[MaxPacks]
  BY DEF Read
<1>3. in_buf' = [j \in 1..k |-> nRead + j]
  BY <1>1 DEF Read, Bytes
<1>4. in_buf' \in Seq(Nat) /\ Len(in_buf') <= RevLen
  BY <1>1, <1>3
<1>5. pieces' \in Nat
  BY <1>1 DEF Read, Pieces
<1>6. thrice' \in BOOLEAN /\ misled' \in BOOLEAN
  BY DEF Read, PackTypeOK
<1>7. alone' \subseteq Packs
  BY DEF Read, PackTypeOK
<1>8. /\ state' = "parse" /\ pack_list' = <<>>
      /\ UNCHANGED <<ends, sums, revNoFullPack, nNoFullPackLen, received>>
  BY DEF Read
<1>9. nRead' \in 0..ends'[MaxPacks]
  BY <1>1, <1>2, <1>8
<1>10. pack_list' \in Seq(0..MaxPacks) /\ Len(pack_list') <= MaxList
  BY <1>1, <1>8
<1> QED BY <1>4, <1>5, <1>6, <1>7, <1>8, <1>9, <1>10 DEF PackTypeOK

LEMMA PackTypesKept == ASSUME PackTypeOK, PackNext PROVE PackTypeOK'
<1>1. CASE Empty
  BY <1>1, NullReturnedTypes DEF Empty, PackTypeOK, sent, traces
<1> QED BY <1>1, ReadTypes, PackSaveTypes DEF PackNext


-----------------------------------------------------------------------------
(* A read that is one packet.                                              *)

LEMMA CutOnceKept == ASSUME PackTypeOK, CutOnce, PackNext PROVE CutOnce'
<1>1. ASSUME NEW k \in 1..RevLen, Read(k) PROVE CutOnce'
  <2>1. nRead' = nRead + k /\ ends' = ends /\ pieces' = Pieces(k)
    BY <1>1 DEF Read
  <2>2. pieces \in Nat
    BY DEF PackTypeOK
  <2>3. nRead + k \notin Range(ends) => Pieces(k) >= 1
    BY <2>2 DEF Pieces
  <2>4. Range(ends)' = Range(ends)
    BY <2>1 DEF Range
  <2> QED BY <2>1, <2>3, <2>4 DEF CutOnce
<1>2. ASSUME Empty \/ PackSave PROVE CutOnce'
  <2>1. UNCHANGED <<sent, traces>>
    <3>1. CASE Empty
      BY <3>1 DEF Empty, NullReturned
    <3>2. CASE PackSave
      BY <3>2, Zenon DEF PackSave, BeginsPack, CutsPack, NoHead, Joins, JoinsNone, JoinsPart,
                         JoinsPack, NullReturned, Returned
    <3> QED BY <1>2, <3>1, <3>2
  <2> QED BY <2>1 DEF CutOnce, sent, traces, Range
<1> QED BY <1>1, <1>2 DEF PackNext

\* What the listener was given stays given.
LEMMA ReceivedGrows ==
    ASSUME PackTypeOK, PackNext PROVE Range(received) \subseteq Range(received')
<1>1. received' = received \/ received' = received \o pack_list
  <2>1. CASE \E k \in 1..RevLen : Read(k)
    BY <2>1 DEF Read
  <2>2. CASE Empty
    BY <2>2 DEF Empty, NullReturned
  <2>3. CASE PackSave
    BY <2>3, Zenon DEF PackSave, BeginsPack, CutsPack, NoHead, Joins, JoinsNone, JoinsPart,
                       JoinsPack, NullReturned, Returned
  <2> QED BY <2>1, <2>2, <2>3 DEF PackNext
<1>2. received \in Seq(0..MaxPacks) /\ pack_list \in Seq(0..MaxPacks)
  BY DEF PackTypeOK
<1>3. \A j \in 1..Len(received) : /\ j \in 1..Len(received \o pack_list)
                                  /\ (received \o pack_list)[j] = received[j]
  BY <1>2, ConcatProperties
<1>4. \A j \in DOMAIN received :
        j \in DOMAIN (received \o pack_list) /\ (received \o pack_list)[j] = received[j]
  <2>1. DOMAIN received = 1..Len(received)
    BY <1>2
  <2>2. received \o pack_list \in Seq(0..MaxPacks)
    BY <1>2, ConcatProperties
  <2>3. DOMAIN (received \o pack_list) = 1..Len(received \o pack_list)
    BY <2>2
  <2> QED BY <1>3, <2>1, <2>3
<1>5. Range(received) \subseteq Range(received \o pack_list)
  BY <1>4 DEF Range
<1> QED BY <1>1, <1>5

\* What begins with a whole packet is cut behind it.
LEMMA CutsWhole ==
    ASSUME PackTypeOK, NEW p \in Packs, NEW len \in GetPackLen(in_buf),
           BeginsPack(len) \/ CutsPack(len) \/ NoHead(len) \/ Joins(len),
           \A j \in DOMAIN in_buf : in_buf[j] = ends[p - 1] + j,
           Len(in_buf) >= ends[p] - ends[p - 1], Len(pack_list) < MaxList
    PROVE  /\ state' = state /\ pack_list' = Append(pack_list, p)
           /\ in_buf' = SubSeq(in_buf, ends[p] - ends[p - 1] + 1, Len(in_buf))
           /\ UNCHANGED <<sent, received, traces, revNoFullPack, nNoFullPackLen>>
<1> DEFINE L == ends[p] - ends[p - 1]
<1>1. /\ L \in Nat /\ L > HeaderLen /\ in_buf \in Seq(Nat) /\ Len(in_buf) \in Nat
      /\ HeaderLen \in Nat /\ Len(in_buf) >= L
  <2>1. L \in Nat /\ L > HeaderLen + Check /\ HeaderLen \in Nat /\ Check \in Nat
    BY PackAssumption, EndsOrdered
  <2>2. in_buf \in Seq(Nat)
    BY DEF PackTypeOK
  <2> QED BY <2>1, <2>2
<1>2. len = L
  <2>1. GetPackLen(in_buf) = IF Len(in_buf) < HeaderLen THEN {NoLen} ELSE {L}
    BY <1>1, HeaderRead
  <2> HIDE DEF L
  <2> QED BY <1>1, <2>1
<1>3. CutsPack(L)
  <2>1. ~ BeginsPack(L) /\ ~ NoHead(L) /\ ~ Joins(L)
    <3> HIDE DEF L
    <3> QED BY <1>1 DEF BeginsPack, NoHead, Joins, NoLen
  <2> QED BY <1>2, <2>1
<1>4. SubSeq(in_buf, 1, L) = Pack(p)
  <2>1. \A i \in 1..Len(in_buf) : in_buf[i] \in Nat
    BY <1>1
  <2>2. /\ SubSeq(in_buf, 1, L) \in Seq(Nat) /\ Len(SubSeq(in_buf, 1, L)) = L
        /\ \A j \in 1..L : SubSeq(in_buf, 1, L)[j] = in_buf[j]
    BY <1>1, <2>1, CutInTwo
  <2>3. \A j \in 1..L : j \in DOMAIN in_buf
    BY <1>1
  <2>4. DOMAIN SubSeq(in_buf, 1, L) = 1..L
    BY <2>2
  <2>5. \A j \in DOMAIN SubSeq(in_buf, 1, L) : SubSeq(in_buf, 1, L)[j] = ends[p - 1] + j
    BY <2>2, <2>3, <2>4
  <2> QED BY <2>2, <2>5, PackIs
<1>5. /\ Returned(Pack(p), SubSeq(in_buf, L + 1, Len(in_buf)))
      /\ UNCHANGED <<revNoFullPack, nNoFullPackLen>>
  BY <1>3, <1>4 DEF CutsPack
<1> QED BY <1>5, ReturnsPack

LEMMA AloneNext == ASSUME PackTypeOK, AloneKept, PackNext PROVE AloneKept'
<1>1. Range(received) \subseteq Range(received')
  BY ReceivedGrows
<1>2. ASSUME NEW k \in 1..RevLen, Read(k), NEW p \in alone'
      PROVE  p \in Range(received') \/ AloneInHand(p)'
  <2>1. state = "read" /\ state' = "parse" /\ pack_list' = <<>> /\ ends' = ends
    BY <1>2 DEF Read
  <2>2. CASE p \in alone
    BY <1>1, <2>1, <2>2 DEF AloneKept, AloneInHand
  <2>3. CASE in_buf' = Pack(p)
    <3>1. Pack(p)' = Pack(p)
      BY <2>1 DEF Pack
    <3> QED BY <2>1, <2>3, <3>1 DEF AloneInHand
  <2> QED BY <1>2, <2>2, <2>3 DEF Read
<1>3. ASSUME Empty, NEW p \in alone'
      PROVE  p \in Range(received')
  <2>1. in_buf = <<>> /\ received' = received \o pack_list /\ alone' = alone
    BY <1>3 DEF Empty, NullReturned, traces
  <2>2. CASE p \in Range(received)
    BY <1>1, <2>2
  <2>3. CASE AloneInHand(p)
    <3>1. p \in Packs
      BY <2>1 DEF PackTypeOK
    <3>2. in_buf # Pack(p)
      <4>1. Len(Pack(p)) > HeaderLen + Check /\ HeaderLen \in Nat /\ Check \in Nat
        BY <3>1, EndsOrdered, PackIsBytes, PackAssumption
      <4>2. Len(in_buf) = 0
        BY <2>1
      <4> QED BY <4>1, <4>2
    <3>3. pack_list = <<p>>
      BY <2>3, <3>2 DEF AloneInHand
    <3>4. received \in Seq(0..MaxPacks) /\ <<p>> \in Seq(0..MaxPacks)
      BY <3>3 DEF PackTypeOK
    <3>5. /\ Len(received \o <<p>>) = Len(received) + 1
          /\ (received \o <<p>>)[Len(received) + 1] = p
          /\ received \o <<p>> \in Seq(0..MaxPacks)
      BY <3>4
    <3>6. Len(received) + 1 \in DOMAIN (received \o <<p>>)
      BY <3>4, <3>5
    <3> QED BY <2>1, <3>3, <3>5, <3>6 DEF Range
  <2> QED BY <2>1, <2>2, <2>3 DEF AloneKept
<1>4. ASSUME PackSave, NEW p \in alone', p \notin Range(received')
      PROVE  AloneInHand(p)'
  <2>1. PICK len \in GetPackLen(in_buf) :
          BeginsPack(len) \/ CutsPack(len) \/ NoHead(len) \/ Joins(len)
    BY <1>4 DEF PackSave
  <2>2. alone' = alone
    <3>1. UNCHANGED traces
      BY <2>1, Zenon DEF BeginsPack, CutsPack, NoHead, Joins, JoinsNone, JoinsPart,
                         JoinsPack, NullReturned, Returned
    <3> QED BY <3>1 DEF traces
  <2>3. AloneInHand(p) /\ p \in Packs
    BY <1>1, <1>4, <2>2 DEF AloneKept, PackTypeOK
  <2>4. state = "parse" /\ in_buf = Pack(p) /\ pack_list = <<>>
    BY <1>4, <2>3 DEF AloneInHand, PackSave
  <2>5. /\ \A j \in DOMAIN in_buf : in_buf[j] = ends[p - 1] + j
        /\ Len(in_buf) = ends[p] - ends[p - 1] /\ ends[p] - ends[p - 1] \in Nat
    BY <2>3, <2>4, EndsOrdered, PackIsBytes
  <2>6. Len(pack_list) < MaxList
    <3>1. Len(pack_list) = 0
      BY <2>4
    <3>2. MaxList \in Nat /\ MaxPacks \in Nat /\ MaxList >= MaxPacks /\ p \in 1..MaxPacks
      BY <2>3, PackAssumption DEF Packs
    <3> QED BY <3>1, <3>2
  <2>7. /\ state' = state /\ pack_list' = Append(pack_list, p)
        /\ in_buf' = SubSeq(in_buf, ends[p] - ends[p - 1] + 1, Len(in_buf))
    BY <2>1, <2>3, <2>5, <2>6, CutsWhole
  <2>8. pack_list' = <<p>>
    BY <2>4, <2>7
  <2>9. in_buf' = <<>>
    <3> DEFINE L == ends[p] - ends[p - 1]
    <3>1. in_buf' = SubSeq(in_buf, L + 1, L)
      BY <2>5, <2>7
    <3>2. L \in Nat
      BY <2>5
    <3> HIDE DEF L
    <3> QED BY <3>1, <3>2
  <2> QED BY <2>4, <2>7, <2>8, <2>9 DEF AloneInHand
<1> QED BY <1>2, <1>3, <1>4 DEF AloneKept, PackNext

-----------------------------------------------------------------------------
(* The packets of the stream, as long as two reads bring each.             *)

LEMMA StreamFacts ==
    ASSUME PackTypeOK, InStream
    PROVE  /\ Found \in 0..MaxPacks /\ MaxPacks \in Nat /\ MaxList \in Nat /\ MaxPacks <= MaxList
           /\ Len(received) \in Nat /\ Len(pack_list) \in Nat
           /\ Found = Len(received) + Len(pack_list)
           /\ Len(in_buf) \in Nat /\ nNoFullPackLen \in Nat /\ ends[Found] \in Nat /\ nRead \in Nat
           /\ nRead <= ends[MaxPacks] /\ ends[MaxPacks] \in Nat
           /\ Cut = ends[Found] + nNoFullPackLen /\ nRead = Cut + Len(in_buf)
<1>1. Found \in 0..MaxPacks /\ MaxPacks \in Nat /\ MaxList \in Nat /\ MaxPacks <= MaxList
  BY PackAssumption DEF InStream
<1>2. Len(received) \in Nat /\ Len(pack_list) \in Nat /\ Len(in_buf) \in Nat
  BY DEF PackTypeOK
<1>3. ends[Found] \in Nat /\ ends[MaxPacks] \in Nat
  <2>1. MaxPacks \in 0..MaxPacks
    BY <1>1
  <2> QED BY <1>1, <2>1, EndsOrdered
<1>4. nNoFullPackLen \in Nat /\ nRead \in Nat /\ nRead <= ends[MaxPacks]
  BY <1>3, PackAssumption DEF PackTypeOK
<1>5. Cut = ends[Found] + nNoFullPackLen
  BY DEF InStream
<1>6. nRead = Cut + Len(in_buf)
  BY <1>2, <1>4 DEF Cut
<1> QED BY <1>1, <1>2, <1>3, <1>4, <1>5, <1>6, Zenon DEF Found

\* When null is returned, everything that was found is handed over.
LEMMA HandedOver ==
    ASSUME PackTypeOK, InStream, NullReturned
    PROVE  /\ state' = "read" /\ in_buf' = <<>> /\ pack_list' = <<>> /\ UNCHANGED sent
           /\ Found' = Found /\ Cut' = nRead
           /\ \A j \in DOMAIN received' : received'[j] = j
<1>1. /\ state' = "read" /\ in_buf' = <<>> /\ pack_list' = <<>> /\ UNCHANGED sent
      /\ received' = received \o pack_list
  BY DEF NullReturned
<1>2. received \in Seq(0..MaxPacks) /\ pack_list \in Seq(0..MaxPacks)
  BY DEF PackTypeOK
<1>3. Len(in_buf') = 0 /\ Len(pack_list') = 0 /\ nRead' = nRead /\ nRead \in Nat
  <2>1. nRead' = nRead
    BY <1>1 DEF sent
  <2> QED BY <1>1, <2>1, StreamFacts
<1>4. /\ received' \in Seq(0..MaxPacks) /\ Len(received') = Len(received) + Len(pack_list)
      /\ \A j \in 1..Len(received') :
           received'[j] = IF j <= Len(received) THEN received[j] ELSE pack_list[j - Len(received)]
  BY <1>1, <1>2, ConcatProperties
<1>5. Found' = Found
  <2>1. Len(received) \in Nat /\ Len(pack_list) \in Nat
    BY <1>2
  <2> QED BY <1>3, <1>4, <2>1 DEF Found
<1>6. Cut' = nRead
  BY <1>3 DEF Cut
<1>7. ASSUME NEW j \in DOMAIN received' PROVE received'[j] = j
  <2>1. /\ j \in 1..Len(received') /\ Len(received) \in Nat /\ Len(pack_list) \in Nat
        /\ DOMAIN received = 1..Len(received) /\ DOMAIN pack_list = 1..Len(pack_list)
    BY <1>2, <1>4
  <2>2. CASE j <= Len(received)
    <3>1. j \in DOMAIN received
      BY <2>1, <2>2
    <3> QED BY <1>4, <2>1, <2>2, <3>1 DEF InStream
  <2>3. CASE ~ j <= Len(received)
    <3>1. j - Len(received) \in DOMAIN pack_list
      BY <1>4, <2>1, <2>3
    <3>2. pack_list[j - Len(received)] = Len(received) + (j - Len(received))
      BY <3>1 DEF InStream
    <3> QED BY <1>4, <2>1, <2>3, <3>2
  <2> QED BY <2>2, <2>3
<1> QED BY <1>1, <1>5, <1>6, <1>7

LEMMA StreamRead ==
    ASSUME PackTypeOK, CutOnce, InStream, NEW k \in 1..RevLen, Read(k), ~ Spoilt'
    PROVE  InStream'
<1>1. /\ state = "read" /\ state' = "parse" /\ pack_list' = <<>> /\ nRead' = nRead + k
      /\ nRead + k <= ends[MaxPacks] /\ in_buf' = Bytes(nRead, nRead + k) /\ Pieces(k) <= 1
      /\ UNCHANGED <<ends, sums, revNoFullPack, nNoFullPackLen, received>>
  <2>1. ~ (Pieces(k) > 1)
    BY DEF Read, Spoilt
  <2>2. Pieces(k) \in Nat
    BY DEF Pieces, PackTypeOK
  <2> QED BY <2>1, <2>2 DEF Read
<1>2. in_buf = <<>> /\ pack_list = <<>>
  BY <1>1 DEF InStream
<1>3. k \in Nat /\ nRead \in Nat
  BY StreamFacts, PackAssumption
<1>4. Len(in_buf') = k /\ DOMAIN in_buf' = 1..k /\ \A j \in 1..k : in_buf'[j] = nRead + j
  <2>1. in_buf' = [j \in 1..k |-> nRead + j]
    BY <1>1, <1>3 DEF Bytes
  <2> QED BY <1>3, <2>1
<1>5. Len(in_buf) = 0 /\ Len(pack_list) = 0
  BY <1>2
<1>6. Cut = nRead /\ Cut' = nRead
  BY <1>1, <1>3, <1>4, <1>5 DEF Cut
<1>7. Found' = Found
  BY <1>1, <1>2 DEF Found
<1>8. ASSUME nNoFullPackLen > 0 PROVE ends[Found + 1] <= nRead'
  <2>1. Found < MaxPacks /\ nRead < ends[Found + 1] /\ ends[Found] < nRead
    <3>1. Found < MaxPacks /\ Cut < ends[Found + 1]
      BY <1>8 DEF InStream
    <3> QED BY <1>6, <1>8, <3>1, StreamFacts
  <2>2. Found \in Nat /\ Found \in 0..MaxPacks /\ Found + 1 \in Packs /\ Found + 1 \in 0..MaxPacks
    BY <2>1, StreamFacts DEF Packs
  <2>3. nRead \notin Range(ends)
    <3> SUFFICES ASSUME NEW q \in 0..MaxPacks, ends[q] = nRead PROVE FALSE
      BY EndsOrdered DEF Range
    <3>1. q < Found => ends[q] < ends[Found]
      BY <2>2, EndsOrdered
    <3>2. Found + 1 < q => ends[Found + 1] < ends[q]
      BY <2>2, EndsOrdered
    <3>3. q = Found \/ q = Found + 1 \/ q < Found \/ Found + 1 < q
      BY <2>2
    <3>4. ends[q] \in Nat /\ ends[Found] \in Nat /\ ends[Found + 1] \in Nat
      BY <2>2, EndsOrdered
    <3> QED BY <2>1, <3>1, <3>2, <3>3, <3>4
  <2>4. pieces >= 1 /\ pieces \in Nat
    BY <2>3 DEF CutOnce, PackTypeOK
  <2>5. PICK q \in 0..MaxPacks : ends[q] \in nRead + 1 .. nRead + k
    <3>1. ~ (pieces + 1 <= 1)
      BY <2>4
    <3>2. nRead + k \in Range(ends) \/ \E p \in Packs : ends[p] \in nRead + 1 .. nRead + k
      BY <1>1, <3>1 DEF Pieces
    <3>3. CASE nRead + k \in Range(ends)
      <4>1. PICK q \in 0..MaxPacks : ends[q] = nRead + k
        BY <3>3, EndsOrdered DEF Range
      <4>2. ends[q] \in nRead + 1 .. nRead + k
        BY <1>3, <4>1
      <4> QED BY <4>2
    <3> QED BY <3>2, <3>3, EndsOrdered
  <2>6. ends[q] \in Nat /\ nRead < ends[q] /\ ends[q] <= nRead + k
    BY <1>3, <2>5
  <2>7. ~ (q < Found) /\ q # Found
    <3>1. q < Found => ends[q] < ends[Found]
      BY <2>2, EndsOrdered
    <3>2. ends[Found] \in Nat
      BY <2>2, EndsOrdered
    <3> QED BY <1>3, <2>1, <2>6, <3>1, <3>2
  <2>8. q = Found + 1 \/ Found + 1 < q
    BY <2>2, <2>7
  <2>9. ends[Found + 1] <= ends[q]
    <3>1. Found + 1 < q => ends[Found + 1] < ends[q]
      BY <2>2, EndsOrdered
    <3>2. ends[Found + 1] \in Nat
      BY <2>2, EndsOrdered
    <3> QED BY <2>6, <2>8, <3>1, <3>2
  <2>10. ends[Found + 1] \in Nat
    BY <2>2, EndsOrdered
  <2> QED BY <1>1, <1>3, <2>6, <2>9, <2>10
<1>9. \A j \in DOMAIN in_buf' : in_buf'[j] = Cut' + j
  BY <1>4, <1>6
<1>10. Cut' = ends'[Found'] + nNoFullPackLen'
  BY <1>1, <1>6, <1>7 DEF InStream
<1>11. nNoFullPackLen' > 0 => /\ Found' < MaxPacks /\ Cut' < ends'[Found' + 1]
                              /\ ends'[Found' + 1] <= nRead'
  BY <1>1, <1>6, <1>7, <1>8 DEF InStream
<1>17. NoHeadOfCode'
  <2>1. ~ (k >= HeaderLen /\ Coded(nRead + 1))
    BY DEF Read, Spoilt
  <2>2. HeaderLen \in Nat
    BY PackAssumption
  <2>3. ends' = ends /\ sums' = sums
    BY <1>1
  <2>4. Len(in_buf)' = k /\ Cut' = nRead
    BY <1>4, <1>6
  <2>5. Coded(Cut + 1)' <=> Coded(nRead + 1)
    BY <2>3, <2>4 DEF Coded
  <2> QED BY <1>3, <2>1, <2>2, <2>4, <2>5 DEF NoHeadOfCode
<1>12. state' # "crashed" /\ state' # "read"
  BY <1>1
<1>13. \A j \in DOMAIN pack_list' : pack_list'[j] = Len(received') + j
  BY <1>1
<1>14. \A j \in DOMAIN received' : received'[j] = j
  BY <1>1 DEF InStream
<1>15. \A j \in 1..nNoFullPackLen' : revNoFullPack'[j] = ends'[Found'] + j
  BY <1>1, <1>7 DEF InStream
<1>16. Found' \in 0..MaxPacks
  BY <1>7 DEF InStream
<1> QED BY <1>9, <1>10, <1>11, <1>12, <1>13, <1>14, <1>15, <1>16, <1>17 DEF InStream

LEMMA StreamEmpty == ASSUME PackTypeOK, InStream, Empty PROVE InStream'
<1>1. /\ state = "parse" /\ in_buf = <<>> /\ NullReturned
      /\ UNCHANGED <<revNoFullPack, nNoFullPackLen>>
  BY DEF Empty
<1>2. Len(in_buf) = 0
  BY <1>1
<1>3. nRead = Cut
  BY <1>2, StreamFacts
<1>4. nNoFullPackLen = 0
  <2>1. nNoFullPackLen > 0 => Found < MaxPacks /\ Cut < ends[Found + 1] /\ ends[Found + 1] <= nRead
    BY <1>1 DEF InStream
  <2>2. Found < MaxPacks => ends[Found + 1] \in Nat
    <3>1. Found < MaxPacks => Found + 1 \in 0..MaxPacks
      BY StreamFacts
    <3> QED BY <3>1, EndsOrdered
  <2> QED BY <1>3, <2>1, <2>2, StreamFacts
<1>5. /\ state' = "read" /\ in_buf' = <<>> /\ pack_list' = <<>> /\ UNCHANGED sent
      /\ Found' = Found /\ Cut' = nRead
      /\ \A j \in DOMAIN received' : received'[j] = j
  BY <1>1, HandedOver
<1>6. ends' = ends /\ nNoFullPackLen' = 0
  BY <1>1, <1>4, <1>5 DEF sent
<1>7. Cut' = ends'[Found'] + nNoFullPackLen'
  BY <1>3, <1>4, <1>5, <1>6, StreamFacts
<1> QED BY <1>5, <1>6, <1>7, StreamFacts DEF InStream

\* The next packet has been cut out, and in_buf goes on behind it.
LEMMA PackCutOut ==
    ASSUME PackTypeOK, InStream, Found < MaxPacks, state' = "parse",
           pack_list' = Append(pack_list, Found + 1), UNCHANGED <<sent, received>>,
           nNoFullPackLen' = 0, in_buf' \in Seq(Nat), Len(in_buf') = nRead - ends[Found + 1],
           \A j \in 1..Len(in_buf') : in_buf'[j] = ends[Found + 1] + j
    PROVE  InStream'
<1> DEFINE p == Found + 1
<1>1. p \in 0..MaxPacks /\ ends[p] \in Nat
  <2>1. p \in 0..MaxPacks
    BY StreamFacts
  <2> QED BY <2>1, EndsOrdered
<1>2. /\ Len(pack_list') = Len(pack_list) + 1 /\ DOMAIN pack_list' = 1..(Len(pack_list) + 1)
      /\ pack_list'[Len(pack_list) + 1] = p
      /\ \A j \in 1..Len(pack_list) : pack_list'[j] = pack_list[j]
  <2>1. pack_list \in Seq(0..MaxPacks)
    BY DEF PackTypeOK
  <2> QED BY <1>1, <2>1
<1>3. ends' = ends /\ nRead' = nRead /\ received' = received
  BY DEF sent
<1>4. Found' = p
  <2>1. Found' = Len(received) + (Len(pack_list) + 1)
    BY <1>2, <1>3 DEF Found
  <2> QED BY <2>1, StreamFacts
<1>5. Cut' = ends[p]
  <2>1. Cut' = nRead - (nRead - ends[p])
    BY <1>3 DEF Cut
  <2>2. nRead \in Nat
    BY StreamFacts
  <2> HIDE DEF p
  <2> QED BY <1>1, <2>1, <2>2
<1> HIDE DEF p
<1>6. \A j \in DOMAIN pack_list' : pack_list'[j] = Len(received') + j
  <2> SUFFICES ASSUME NEW j \in 1..(Len(pack_list) + 1)
               PROVE  pack_list'[j] = Len(received) + j
    BY <1>2, <1>3
  <2>1. CASE j = Len(pack_list) + 1
    <3>1. Len(received) + (Len(pack_list) + 1) = p
      BY StreamFacts DEF p
    <3> QED BY <1>2, <2>1, <3>1
  <2>2. CASE j # Len(pack_list) + 1
    <3>1. j \in 1..Len(pack_list) /\ DOMAIN pack_list = 1..Len(pack_list)
      <4>1. Len(pack_list) \in Nat /\ DOMAIN pack_list = 1..Len(pack_list)
        BY DEF PackTypeOK
      <4> QED BY <2>2, <4>1
    <3> QED BY <1>2, <3>1 DEF InStream
  <2> QED BY <2>1, <2>2
<1>7. \A j \in DOMAIN in_buf' : in_buf'[j] = Cut' + j
  BY <1>5 DEF p
<1>8. Cut' = ends'[Found'] + nNoFullPackLen'
  BY <1>1, <1>3, <1>4, <1>5
<1>9. Found' \in 0..MaxPacks
  BY <1>1, <1>4
<1>10. \A j \in DOMAIN received' : received'[j] = j
  BY <1>3 DEF InStream
<1> QED BY <1>6, <1>7, <1>8, <1>9, <1>10 DEF InStream

\* The next packet joins the list, its last byte having come.
GivesNext ==
    /\ Found < MaxPacks /\ ends[Found + 1] <= nRead
    /\ pack_list' = Append(pack_list, Found + 1) /\ UNCHANGED <<sent, received>>

\* What is in hand begins with a packet, and none waits.
LEMMA StreamCuts ==
    ASSUME PackTypeOK, InStream, nNoFullPackLen = 0, state = "parse", in_buf # <<>>,
           NEW len \in GetPackLen(in_buf),
           BeginsPack(len) \/ CutsPack(len) \/ NoHead(len) \/ Joins(len)
    PROVE  InStream' /\ (NullReturned \/ GivesNext)
<1> DEFINE p == Found + 1
           L == ends[p] - ends[p - 1]
<1>1. Len(in_buf) > 0
  <2>1. in_buf \in Seq(Nat)
    BY DEF PackTypeOK
  <2> QED BY <2>1
<1>2. Found \in Nat /\ Found < MaxPacks /\ Cut = ends[Found] /\ nRead = ends[Found] + Len(in_buf)
  <2>1. Found # MaxPacks
    BY <1>1, StreamFacts
  <2> QED BY <2>1, StreamFacts
<1>3. p \in Packs /\ p - 1 = Found /\ p \in 0..MaxPacks
  BY <1>2, StreamFacts DEF Packs
<1>4. /\ L \in Nat /\ L > HeaderLen /\ HeaderLen \in Nat /\ ends[p] = ends[Found] + L
      /\ ends[p] \in Nat
  <2>1. /\ L \in Nat /\ L > HeaderLen + Check /\ HeaderLen \in Nat /\ Check \in Nat
        /\ ends[p] \in Nat /\ ends[Found] \in Nat
    BY <1>3, PackAssumption, EndsOrdered, StreamFacts
  <2> QED BY <1>3, <2>1
<1>5. \A j \in DOMAIN in_buf : in_buf[j] = ends[p - 1] + j
  BY <1>2, <1>3 DEF InStream
<1> HIDE DEF p, L
<1>6. CASE Len(in_buf) < L
  <2>1. Keep /\ NullReturned
    <3>1. GetPackLen(in_buf) = IF Len(in_buf) < HeaderLen THEN {NoLen} ELSE {L}
      <4>1. in_buf \in Seq(Nat)
        BY DEF PackTypeOK
      <4> QED BY <1>3, <1>5, <4>1, HeaderRead DEF L
    <3>2. ~ CutsPack(len) /\ ~ Joins(len)
      <4>1. len = NoLen \/ len = L
        BY <3>1
      <4> QED BY <1>6, <4>1, <1>4, StreamFacts DEF CutsPack, Joins
    <3>3. CASE BeginsPack(len)
      BY <3>3, Zenon DEF BeginsPack
    <3>4. CASE NoHead(len)
      <4>1. len # L
        BY <1>4, <3>4 DEF NoHead, NoLen
      <4>2. Len(in_buf) <= HeaderLen
        BY <1>4, <3>1, <4>1, StreamFacts
      <4> QED BY <3>4, <4>2 DEF NoHead
    <3> QED BY <3>2, <3>3, <3>4
  <2>2. /\ state' = "read" /\ in_buf' = <<>> /\ pack_list' = <<>> /\ ends' = ends
        /\ nRead' = nRead /\ Found' = Found /\ Cut' = nRead
        /\ \A j \in DOMAIN received' : received'[j] = j
    BY <2>1, HandedOver DEF sent
  <2>3. /\ nNoFullPackLen' = Len(in_buf) /\ revNoFullPack' = CopyTo(in_buf, 0)
        /\ Len(in_buf) <= NoFullLen
    <3>1. /\ Len(in_buf) <= RevLen /\ RevLen \in Nat /\ NoFullLen \in Nat /\ NoFullLen >= 2 * RevLen
          /\ Len(in_buf) \in Nat
      BY PackAssumption, StreamFacts DEF PackTypeOK
    <3>2. Len(in_buf) <= NoFullLen
      BY <3>1
    <3>3. revNoFullPack' = CopyTo(in_buf, 0) /\ nNoFullPackLen' = 0 + Len(in_buf)
      BY <2>1 DEF Keep
    <3> QED BY <3>1, <3>2, <3>3
  <2>4. \A j \in 1..nNoFullPackLen' : revNoFullPack'[j] = ends'[Found'] + j
    <3> SUFFICES ASSUME NEW j \in 1..Len(in_buf) PROVE CopyTo(in_buf, 0)[j] = ends[Found] + j
      BY <2>2, <2>3
    <3>1. j \in DOMAIN in_buf /\ 0 + j <= NoFullLen /\ 0 + j = j
      <4>1. DOMAIN in_buf = 1..Len(in_buf) /\ NoFullLen \in Nat /\ Len(in_buf) \in Nat
        BY StreamFacts, PackAssumption DEF PackTypeOK
      <4> QED BY <2>3, <4>1
    <3>2. CopyTo(in_buf, 0)[0 + j] = in_buf[j]
      BY <3>1, Copied
    <3> QED BY <1>3, <1>5, <3>1, <3>2
  <2>5. Cut' = ends'[Found'] + nNoFullPackLen'
    BY <1>2, <2>2, <2>3
  <2>6. Found' < MaxPacks /\ Cut' < ends'[Found' + 1]
    BY <1>2, <1>4, <1>6, <2>2, StreamFacts DEF p
  <2>7. Found' \in 0..MaxPacks
    BY <2>2, StreamFacts
  <2>8. InStream'
    BY <2>2, <2>4, <2>5, <2>6, <2>7 DEF InStream
  <2> QED BY <2>1, <2>8
<1>7. CASE ~ Len(in_buf) < L
  <2>1. Len(in_buf) >= L /\ Len(pack_list) < MaxList
    BY <1>2, <1>4, <1>7, StreamFacts
  <2>2. /\ state' = state /\ pack_list' = Append(pack_list, p)
        /\ in_buf' = SubSeq(in_buf, L + 1, Len(in_buf))
        /\ UNCHANGED <<sent, received, traces, revNoFullPack, nNoFullPackLen>>
    BY <1>3, <1>5, <2>1, CutsWhole DEF L
  <2>3. /\ in_buf' \in Seq(Nat) /\ Len(in_buf') = Len(in_buf) - L
        /\ \A j \in 1..(Len(in_buf) - L) : in_buf'[j] = in_buf[L + j]
    <3>1. in_buf \in Seq(Nat)
      BY DEF PackTypeOK
    <3>2. \A i \in 1..Len(in_buf) : in_buf[i] \in Nat
      BY <3>1
    <3> QED BY <1>4, <2>1, <2>2, <3>1, <3>2, CutInTwo
  <2>4. \A j \in 1..(Len(in_buf) - L) : in_buf[L + j] = ends[p] + j
    <3> SUFFICES ASSUME NEW j \in 1..(Len(in_buf) - L) PROVE in_buf[L + j] = ends[p] + j
      OBVIOUS
    <3>1. L + j \in DOMAIN in_buf
      <4>1. in_buf \in Seq(Nat)
        BY DEF PackTypeOK
      <4>2. DOMAIN in_buf = 1..Len(in_buf) /\ Len(in_buf) \in Nat
        BY <4>1
      <4> QED BY <1>4, <4>2
    <3>2. in_buf[L + j] = ends[Found] + (L + j)
      BY <1>3, <1>5, <3>1
    <3>3. j \in Int /\ ends[Found] \in Nat
      BY StreamFacts
    <3>4. L \in Nat /\ ends[p] = ends[Found] + L
      BY <1>4
    <3> QED BY <3>2, <3>3, <3>4
  <2>5. Len(in_buf') = nRead - ends[p]
    <3>1. /\ nRead = Cut + Len(in_buf) /\ Cut = ends[Found] + nNoFullPackLen /\ ends[Found] \in Nat
          /\ Len(in_buf) \in Nat /\ nNoFullPackLen \in Nat
      BY StreamFacts
    <3> QED BY <1>2, <1>4, <2>3, <3>1
  <2>6. \A j \in 1..Len(in_buf') : in_buf'[j] = ends[p] + j
    BY <2>3, <2>4
  <2>7. InStream'
    BY <1>2, <2>2, <2>3, <2>5, <2>6, PackCutOut DEF p
  <2>8. ends[p] <= nRead
    BY <1>2, <1>4, <2>1, StreamFacts
  <2>9. GivesNext
    BY <1>2, <2>2, <2>8 DEF p, GivesNext
  <2> QED BY <2>7, <2>9
<1> QED BY <1>6, <1>7

\* What is in hand is the rest of the packet that waits.
LEMMA StreamJoins ==
    ASSUME PackTypeOK, InStream, nNoFullPackLen > 0, state = "parse",
           NEW len \in GetPackLen(in_buf),
           BeginsPack(len) \/ CutsPack(len) \/ NoHead(len) \/ Joins(len)
    PROVE  InStream' /\ (NullReturned \/ GivesNext)
<1> DEFINE p == Found + 1
           L == ends[p] - ends[p - 1]
           joined == CopyTo(in_buf, nNoFullPackLen)
           head == SubSeq(joined, 1, JoinedLen)
           rest == SubSeq(joined, L + 1, JoinedLen)
<1>1. /\ Found \in Nat /\ Found < MaxPacks /\ Cut < ends[p] /\ ends[p] <= nRead
  BY StreamFacts DEF InStream
<1>0. /\ Found \in Nat /\ Found < MaxPacks /\ MaxPacks \in Nat
      /\ ends[Found] \in Nat /\ nRead \in Nat /\ Cut \in Nat
      /\ Len(in_buf) \in Nat /\ nNoFullPackLen \in Nat
      /\ Cut = ends[Found] + nNoFullPackLen /\ nRead = Cut + Len(in_buf)
  BY <1>1, StreamFacts
<1>2. p \in Packs /\ p - 1 = Found /\ p \in 0..MaxPacks
  BY <1>1, StreamFacts DEF Packs
<1>3. /\ L \in Nat /\ L > HeaderLen /\ HeaderLen \in Nat /\ ends[p] = ends[Found] + L
      /\ ends[p] \in Nat
  <2>1. /\ L \in Nat /\ L > HeaderLen + Check /\ HeaderLen \in Nat /\ Check \in Nat
        /\ ends[p] \in Nat /\ ends[Found] \in Nat
    BY <1>2, PackAssumption, EndsOrdered, StreamFacts
  <2> QED BY <1>2, <2>1
<1>4. /\ JoinedLen = nNoFullPackLen + Len(in_buf) /\ JoinedLen \in Nat
      /\ JoinedLen = nRead - ends[Found] /\ JoinedLen >= L /\ JoinedLen - L < Len(in_buf)
  <2>1. JoinedLen = nNoFullPackLen + Len(in_buf)
    BY DEF JoinedLen
  <2>2. ends[p] = ends[Found] + L /\ L \in Nat /\ Cut < ends[p] /\ ends[p] <= nRead /\ ends[p] \in Nat
    BY <1>1, <1>3
  <2> HIDE DEF p, L
  <2>3. JoinedLen \in Nat /\ JoinedLen = nRead - ends[Found]
    BY <1>0, <2>1, SMTT(30)
  <2>4. ends[Found] \in Nat /\ nRead \in Nat
    BY <1>0
  <2>5. JoinedLen >= L
    BY <2>2, <2>3, <2>4
  <2>6. Cut \in Nat /\ Len(in_buf) \in Nat /\ nRead = Cut + Len(in_buf)
    BY <1>0
  <2>7. JoinedLen - L = nRead - ends[p]
    BY <2>2, <2>3, <2>4
  <2>8. JoinedLen - L < Len(in_buf)
    BY <2>2, <2>6, <2>7
  <2> QED BY <2>1, <2>3, <2>5, <2>8
<1>5. Len(in_buf) <= RevLen /\ RevLen \in Nat /\ JoinedLen <= NoFullLen /\ NoFullLen \in Nat
  <2>1. /\ Len(in_buf) <= RevLen /\ RevLen \in Nat /\ NoFullLen \in Nat
        /\ NoFullLen >= 2 * RevLen /\ nNoFullPackLen <= RevLen /\ nNoFullPackLen \in Nat
    BY PackAssumption, StreamFacts DEF PackTypeOK
  <2> QED BY <1>4, <2>1, StreamFacts
<1> HIDE DEF p, L
<1>6. len = NoLen
  <2>1. 1 \in DOMAIN in_buf
    <3>1. in_buf \in Seq(Nat)
      BY DEF PackTypeOK
    <3>2. Len(in_buf) >= 1
      BY <1>0, <1>1, <1>3
    <3> QED BY <3>1, <3>2
  <2>2. in_buf[1] = Cut + 1
    BY <2>1 DEF InStream
  <2>3. ~ Place(in_buf[1], 1)
    <3> SUFFICES ASSUME NEW q \in Packs, Cut + 1 = ends[q - 1] + 1 PROVE FALSE
      BY <2>2 DEF Place
    <3>1. q - 1 \in 0..MaxPacks /\ ends[q - 1] \in Nat
      BY EndsOrdered
    <3>2. ends[q - 1] = Cut
      <4>1. Cut \in Nat
        BY <1>0
      <4> QED BY <3>1, <4>1
    <3>3. ends[Found] < Cut /\ Cut < ends[p]
      <4>1. Cut = ends[Found] + nNoFullPackLen /\ ends[Found] \in Nat /\ nNoFullPackLen \in Nat
        BY <1>0
      <4>2. ends[Found] < Cut
        BY <4>1
      <4> QED BY <1>1, <4>2
    <3>4. q - 1 < Found => ends[q - 1] < ends[Found]
      <4>1. Found \in 0..MaxPacks
        BY StreamFacts
      <4> QED BY <3>1, <4>1, EndsOrdered
    <3>5. p < q - 1 => ends[p] < ends[q - 1]
      BY <1>2, <3>1, EndsOrdered
    <3>6. q - 1 < Found \/ q - 1 = Found \/ q - 1 = p \/ p < q - 1
      <4>1. Found \in Int /\ q - 1 \in Int
        BY <1>0, <3>1
      <4> QED BY <4>1 DEF p
    <3>7. ends[Found] \in Nat /\ ends[p] \in Nat /\ Cut \in Nat
      BY <1>0, <1>2, EndsOrdered
    <3>8. ends[q - 1] # ends[Found] /\ ends[q - 1] # ends[p]
      BY <3>2, <3>3, <3>7
    <3> QED BY <3>1, <3>2, <3>3, <3>4, <3>5, <3>6, <3>7, <3>8
  <2>4. Len(in_buf) < HeaderLen \/ ~ Coded(in_buf[1])
    <3>1. NoHeadOfCode
      BY DEF InStream
    <3> QED BY <2>2, <3>1 DEF NoHeadOfCode
  <2> QED BY <2>3, <2>4, NoHeaderRead DEF Begins
<1>7. Joins(NoLen)
  BY <1>6 DEF BeginsPack, CutsPack, NoHead
<1>8. joined \in [1..NoFullLen -> Nat] /\ \A j \in 1..JoinedLen : joined[j] = ends[Found] + j
  <2>1. joined \in [1..NoFullLen -> Nat]
    BY StreamFacts, Copied
  <2>2. ASSUME NEW j \in 1..JoinedLen PROVE joined[j] = ends[Found] + j
    <3>1. CASE j \in 1..nNoFullPackLen
      <4>1. j <= NoFullLen
        BY <1>4, <1>5
      <4>2. joined[j] = revNoFullPack[j]
        BY <3>1, <4>1, Copied, StreamFacts
      <4> HIDE DEF joined
      <4> QED BY <3>1, <4>2 DEF InStream
    <3>2. CASE j \notin 1..nNoFullPackLen
      <4> DEFINE i == j - nNoFullPackLen
      <4>1. i \in 1..Len(in_buf) /\ nNoFullPackLen + i = j /\ nNoFullPackLen + i <= NoFullLen
        BY <1>0, <1>4, <1>5, <3>2
      <4>2. joined[nNoFullPackLen + i] = in_buf[i]
        BY <4>1, Copied, StreamFacts
      <4>3. i \in DOMAIN in_buf
        <5>1. DOMAIN in_buf = 1..Len(in_buf)
          BY DEF PackTypeOK
        <5> QED BY <4>1, <5>1
      <4>4. in_buf[i] = Cut + i
        BY <4>3 DEF InStream
      <4> HIDE DEF i, joined
      <4> QED BY <4>1, <4>2, <4>4, StreamFacts
    <3> QED BY <3>1, <3>2
  <2> QED BY <2>1, <2>2
<1> HIDE DEF joined
<1>9. \A i \in 1..JoinedLen : joined[i] \in Nat
  BY <1>4, <1>5, <1>8
<1>10. GetPackLen(head) = {L}
  <2>1. head \in Seq(Nat) /\ Len(head) = JoinedLen /\ \A j \in 1..JoinedLen : head[j] = joined[j]
    BY <1>4, <1>9, CutInTwo
  <2> HIDE DEF head
  <2>2. \A j \in DOMAIN head : head[j] = ends[p - 1] + j
    <3>1. DOMAIN head = 1..JoinedLen
      BY <2>1
    <3> QED BY <1>2, <1>8, <2>1, <3>1
  <2>3. GetPackLen(head) = IF Len(head) < HeaderLen THEN {NoLen} ELSE {L}
    BY <1>2, <2>1, <2>2, HeaderRead DEF L
  <2> QED BY <1>3, <1>4, <2>1, <2>3
<1>11. JoinsPack(joined, L)
  <2>1. JoinsNone(joined) \/ \E n \in GetPackLen(head) : JoinsPart(joined, n) \/ JoinsPack(joined, n)
    BY <1>7 DEF Joins, joined
  <2>2. ~ JoinsNone(joined)
    <3>1. NoLen \notin GetPackLen(head)
      BY <1>3, <1>10 DEF NoLen
    <3> QED BY <1>4, <1>5, <3>1 DEF JoinsNone
  <2>3. ~ JoinsPart(joined, L)
    <3>1. JoinedLen - L \in 0..RevLen
      BY <1>0, <1>3, <1>4, <1>5
    <3> QED BY <3>1 DEF JoinsPart
  <2> HIDE DEF head
  <2> QED BY <1>10, <2>1, <2>2, <2>3
<1>12. Returned(Pack(p), rest) /\ nNoFullPackLen' = 0
  <2>1. /\ SubSeq(joined, 1, L) \in Seq(Nat) /\ Len(SubSeq(joined, 1, L)) = L
        /\ \A j \in 1..L : SubSeq(joined, 1, L)[j] = joined[j]
    BY <1>3, <1>4, <1>9, CutInTwo
  <2>2. DOMAIN SubSeq(joined, 1, L) = 1..L
    BY <2>1
  <2>3. \A j \in 1..L : j \in 1..JoinedLen
    BY <1>3, <1>4
  <2>4. \A j \in DOMAIN SubSeq(joined, 1, L) : SubSeq(joined, 1, L)[j] = ends[p - 1] + j
    BY <1>2, <1>8, <2>1, <2>2, <2>3
  <2>5. SubSeq(joined, 1, L) = Pack(p)
    BY <1>2, <2>1, <2>4, PackIs DEF L
  <2> QED BY <1>11, <2>5 DEF JoinsPack
<1>13. /\ rest \in Seq(Nat) /\ Len(rest) = JoinedLen - L
       /\ \A j \in 1..(JoinedLen - L) : rest[j] = joined[L + j]
  BY <1>3, <1>4, <1>9, CutInTwo
<1> HIDE DEF rest
<1>14. /\ state' = "parse" /\ in_buf' = rest /\ pack_list' = Append(pack_list, p)
       /\ UNCHANGED <<sent, received, traces>>
  <2>1. Len(pack_list) < MaxList
    BY <1>1, StreamFacts
  <2> QED BY <1>2, <1>12, <2>1, ReturnsPack
<1>15. Len(in_buf') = nRead - ends[p]
  <2>1. Len(in_buf') = JoinedLen - L
    BY <1>13, <1>14, Zenon
  <2>2. JoinedLen = nRead - ends[Found] /\ nRead \in Nat /\ ends[Found] \in Nat
    BY <1>0, <1>4
  <2> QED BY <1>3, <2>1, <2>2
<1>16. \A j \in 1..Len(in_buf') : in_buf'[j] = ends[p] + j
  <2> SUFFICES ASSUME NEW j \in 1..(JoinedLen - L) PROVE joined[L + j] = ends[p] + j
    BY <1>13, <1>14
  <2>1. L + j \in 1..JoinedLen /\ j \in Int
    BY <1>3, <1>4
  <2>2. joined[L + j] = ends[Found] + (L + j)
    BY <1>8, <2>1
  <2> QED BY <1>0, <1>3, <2>1, <2>2
<1>17. InStream'
  BY <1>1, <1>12, <1>13, <1>14, <1>15, <1>16, PackCutOut DEF p
<1>18. GivesNext
  BY <1>1, <1>14 DEF p, GivesNext
<1> QED BY <1>17, <1>18

-----------------------------------------------------------------------------
(* The invariant.                                                          *)

LEMMA StreamNext ==
    ASSUME PackTypeOK, CutOnce, ~ Spoilt => InStream, PackNext PROVE (~ Spoilt => InStream)'
<1> SUFFICES ASSUME ~ Spoilt' PROVE InStream'
  OBVIOUS
<1>1. ASSUME NEW k \in 1..RevLen, Read(k) PROVE InStream'
  <2>1. ~ Spoilt
    BY <1>1 DEF Read, Spoilt
  <2> QED BY <1>1, <2>1, StreamRead
<1>2. CASE Empty
  <2>1. ~ Spoilt
    BY <1>2 DEF Empty, NullReturned, traces, Spoilt
  <2> QED BY <1>2, <2>1, StreamEmpty
<1>3. CASE PackSave
  <2>1. PICK len \in GetPackLen(in_buf) :
          BeginsPack(len) \/ CutsPack(len) \/ NoHead(len) \/ Joins(len)
    BY <1>3 DEF PackSave
  <2>2. UNCHANGED traces
    BY <2>1, Zenon DEF BeginsPack, CutsPack, NoHead, Joins, JoinsNone, JoinsPart,
                       JoinsPack, NullReturned, Returned
  <2>3. InStream
    BY <2>2 DEF traces, Spoilt
  <2>4. state = "parse" /\ in_buf # <<>>
    BY <1>3 DEF PackSave
  <2>5. nNoFullPackLen = 0 \/ nNoFullPackLen > 0
    BY <2>3, StreamFacts
  <2> QED BY <2>1, <2>3, <2>4, <2>5, StreamCuts, StreamJoins
<1> QED BY <1>1, <1>2, <1>3 DEF PackNext

LEMMA PackIInvNext == PackIInv /\ [PackNext]_packVars => PackIInv'
<1> SUFFICES ASSUME PackIInv, [PackNext]_packVars PROVE PackIInv'
  OBVIOUS
<1>1. CASE PackNext
  BY <1>1, PackTypesKept, AloneNext, CutOnceKept, StreamNext DEF PackIInv
<1>2. CASE UNCHANGED packVars
  <2>1. /\ UNCHANGED <<ends, sums, nRead, state, in_buf, revNoFullPack, nNoFullPackLen>>
        /\ UNCHANGED <<pack_list, received, pieces, thrice, misled, alone>>
    BY <1>2 DEF packVars, sent, save, traces
  <2>2. PackTypeOK'
    BY <2>1 DEF PackIInv, PackTypeOK
  <2>3. AloneKept'
    BY <2>1 DEF PackIInv, AloneKept, AloneInHand, Pack
  <2>4. CutOnce'
    BY <2>1 DEF PackIInv, CutOnce
  <2>5. (~ Spoilt => InStream)'
    BY <2>1 DEF PackIInv, InStream, Found, Cut, NoHeadOfCode, Coded, Spoilt
  <2> QED BY <2>2, <2>3, <2>4, <2>5 DEF PackIInv
<1> QED BY <1>1, <1>2

LEMMA PackAlways == PackSpec => []PackIInv
  BY PackInitIInv, PackIInvNext, PTL DEF PackSpec

\* When the thread reads again, what was handed over is all that has arrived.
LEMMA AllHandedOver ==
    ASSUME PackTypeOK, InStream, state = "read", NEW p \in Packs
    PROVE  p \in DOMAIN received <=> ends[p] <= nRead
<1>1. in_buf = <<>> /\ pack_list = <<>>
  BY DEF InStream
<1>2. Len(in_buf) = 0 /\ Len(pack_list) = 0
  BY <1>1
<1>3. Len(received) = Found /\ Found \in 0..MaxPacks /\ Found \in Nat
  BY <1>2, StreamFacts
<1>4. nRead = Cut /\ Cut = ends[Found] + nNoFullPackLen
  BY <1>2, StreamFacts
<1>5. ends[Found] \in Nat /\ nNoFullPackLen \in Nat /\ MaxPacks \in Nat
  BY StreamFacts
<1>6. p \in 0..MaxPacks /\ p \in 1..MaxPacks /\ ends[p] \in Nat
  BY EndsOrdered DEF Packs
<1>7. DOMAIN received = 1..Len(received)
  BY DEF PackTypeOK
<1>8. CASE p <= Found
  <2>1. p < Found => ends[p] < ends[Found]
    BY <1>3, <1>6, EndsOrdered
  <2>2. p = Found \/ p < Found
    BY <1>3, <1>6, <1>8
  <2>3. ends[p] <= nRead
    BY <1>4, <1>5, <1>6, <2>1, <2>2
  <2> QED BY <1>3, <1>6, <1>7, <1>8, <2>3
<1>9. CASE ~ p <= Found
  <2>1. Found + 1 \in 0..MaxPacks /\ ends[Found + 1] \in Nat
    <3>1. Found + 1 \in 0..MaxPacks
      BY <1>3, <1>5, <1>6, <1>9
    <3> QED BY <3>1, EndsOrdered
  <2>2. ends[Found] < ends[Found + 1]
    BY <1>3, <2>1, EndsOrdered
  <2>3. nRead < ends[Found + 1]
    <3>1. nNoFullPackLen > 0 => Cut < ends[Found + 1]
      BY DEF InStream
    <3> QED BY <1>4, <1>5, <2>1, <2>2, <3>1
  <2>4. Found + 1 < p => ends[Found + 1] < ends[p]
    BY <1>6, <2>1, EndsOrdered
  <2>5. p = Found + 1 \/ Found + 1 < p
    BY <1>3, <1>6, <1>9
  <2>6. nRead \in Nat
    BY StreamFacts
  <2>7. ~ (ends[p] <= nRead)
    BY <1>6, <2>1, <2>3, <2>4, <2>5, <2>6
  <2>8. p \notin DOMAIN received
    BY <1>3, <1>6, <1>7, <1>9
  <2> QED BY <2>7, <2>8
<1> QED BY <1>8, <1>9

\* TcpStreamPack.pack_parse and _pack_save: whatever the lengths of the packets
\* and of the reads, if no packet needs a third read and no read begins at a
\* check code of the bytes 'S:', the listener is handed the packets of the stream,
\* whole, in order, each once, and all that have arrived.
THEOREM TwoPartsAlwaysSuffice == PackSpec => []TwoPartsSuffice
<1>1. PackIInv => TwoPartsSuffice
  <2> SUFFICES ASSUME PackIInv PROVE TwoPartsSuffice
    OBVIOUS
  <2>1. PackTypeOK /\ (~ Spoilt => InStream)
    BY DEF PackIInv
  <2>2. ASSUME ~ Spoilt, state = "read"
        PROVE  /\ \A j \in DOMAIN received : received[j] = j
               /\ \A p \in Packs : p \in DOMAIN received <=> ends[p] <= nRead
    <3>1. InStream
      BY <2>1, <2>2
    <3>2. \A j \in DOMAIN received : received[j] = j
      BY <3>1 DEF InStream
    <3>3. \A p \in Packs : p \in DOMAIN received <=> ends[p] <= nRead
      BY <2>1, <2>2, <3>1, AllHandedOver
    <3> QED BY <3>2, <3>3
  <2>3. ~ Spoilt => state # "crashed"
    BY <2>1 DEF InStream
  <2> QED BY <2>1, <2>2, <2>3 DEF TwoPartsSuffice
<1> QED BY <1>1, PackAlways, PTL

\* TcpStreamPack._pack_save: a packet that is one read is cut out of it and
\* handed over, whatever waits in revNoFullPack and whatever was lost before.
THEOREM AloneAlwaysReceived == PackSpec => []AloneIsReceived
<1>1. PackIInv => AloneIsReceived
  BY DEF PackIInv, AloneKept, AloneInHand, AloneIsReceived
<1> QED BY <1>1, PackAlways, PTL

-----------------------------------------------------------------------------
(* TcpStreamPack implements FrameStream.                                   *)

LEMMA FoundIs ==
    ASSUME PackTypeOK, InStream
    PROVE  /\ FoundPacks \in Seq(0..MaxPacks) /\ Len(FoundPacks) = Found
           /\ DOMAIN FoundPacks = 1..Found
           /\ \A j \in 1..Found : FoundPacks[j] = j
<1>1. /\ received \in Seq(0..MaxPacks) /\ pack_list \in Seq(0..MaxPacks)
      /\ DOMAIN received = 1..Len(received) /\ DOMAIN pack_list = 1..Len(pack_list)
      /\ Len(received) \in Nat /\ Len(pack_list) \in Nat
      /\ Found = Len(received) + Len(pack_list)
  BY DEF PackTypeOK, Found
<1>2. /\ FoundPacks \in Seq(0..MaxPacks) /\ Len(FoundPacks) = Found
      /\ \A j \in 1..Found : FoundPacks[j] = IF j <= Len(received) THEN received[j]
                                             ELSE pack_list[j - Len(received)]
  BY <1>1, ConcatProperties DEF FoundPacks
<1>3. ASSUME NEW j \in 1..Found PROVE FoundPacks[j] = j
  <2>1. CASE j <= Len(received)
    <3>1. j \in DOMAIN received
      BY <1>1, <2>1
    <3> QED BY <1>2, <2>1, <3>1 DEF InStream
  <2>2. CASE ~ j <= Len(received)
    <3>1. j - Len(received) \in DOMAIN pack_list
      BY <1>1, <2>2
    <3>2. pack_list[j - Len(received)] = Len(received) + (j - Len(received))
      BY <3>1 DEF InStream
    <3> QED BY <1>1, <1>2, <2>2, <3>2
  <2> QED BY <2>1, <2>2
<1> QED BY <1>2, <1>3

LEMMA PackNextAt == ASSUME PackTypeOK, InStream PROVE Stream!NextAt = ends[Found]
<1>1. Found \in Nat /\ DOMAIN GivenPacks = 1..Found /\ ends[0] = 0
  BY StreamFacts, FoundIs, EndsOrdered DEF GivenPacks
<1>2. CASE Found = 0
  <2>1. GivenPacks = <<>>
    BY <1>1, <1>2, FoundIs DEF GivenPacks
  <2> QED BY <1>1, <1>2, <2>1 DEF Stream!NextAt
<1>3. CASE Found # 0
  <2>1. Found \in 1..Found /\ GivenPacks # <<>> /\ Len(GivenPacks) = Found
    <3>1. Found \in 1..Found
      BY <1>1, <1>3
    <3>2. DOMAIN GivenPacks # {}
      BY <1>1, <3>1
    <3>3. GivenPacks = [i \in 1..Found |-> GivenPacks[i]]
      BY <1>1 DEF GivenPacks
    <3>4. Len(GivenPacks) = Found
      BY <1>1, <3>3
    <3> QED BY <3>1, <3>2, <3>4
  <2>2. FoundPacks[Found] = Found /\ Found # TornPack
    BY <1>3, <2>1, FoundIs DEF TornPack
  <2>3. GivenPacks[Found] = <<ends[Found - 1], ends[Found], Found>>
    BY <1>1, <2>1, <2>2 DEF GivenPacks
  <2> QED BY <2>1, <2>3 DEF Stream!NextAt
<1> QED BY <1>2, <1>3

StreamHolds == Spoilt \/ Stream!NoneKept

LEMMA StreamKept == PackIInv => StreamHolds
<1> SUFFICES ASSUME PackTypeOK, InStream, ~ Spoilt, state = "read",
                    NEW p \in Packs, ends[p - 1] = ends[Found], ends[p] <= nRead
             PROVE  FALSE
  BY PackNextAt DEF StreamHolds, Stream!NoneKept, Stream!WholeFrames, SentPacks, PackIInv
<1>1. p - 1 = Found
  BY EndsOrdered, StreamFacts
<1>2. p \in DOMAIN received /\ DOMAIN received = 1..Len(received)
  BY AllHandedOver DEF PackTypeOK
<1>3. Len(received) = Found /\ Found \in Nat /\ p \in Nat
  <2>1. Len(pack_list) = 0
    BY DEF InStream
  <2> QED BY <1>2, <2>1, StreamFacts
<1> QED BY <1>1, <1>2, <1>3

LEMMA StreamArrive ==
    ASSUME PackTypeOK, InStream, ~ Spoilt, NEW k \in 1..RevLen, Read(k), ~ Spoilt'
    PROVE  Stream!Arrive
<1>1. /\ state = "read" /\ nRead' = nRead + k /\ k \in Nat \ {0} /\ nRead \in Nat
      /\ pack_list' = <<>> /\ UNCHANGED <<ends, received>>
  BY StreamFacts, PackAssumption DEF Read
<1>2. pack_list = <<>>
  BY <1>1 DEF InStream
<1>3. UNCHANGED <<SentPacks, GivenPacks>>
  BY <1>1, <1>2 DEF SentPacks, GivenPacks, FoundPacks
<1>4. Spoilt' = Spoilt
  BY DEF Spoilt
<1>5. nRead' > nRead
  BY <1>1
<1> QED BY <1>1, <1>3, <1>4, <1>5 DEF Stream!Arrive

\* What null returns was found before.
LEMMA StreamStays ==
    ASSUME PackTypeOK, NullReturned PROVE Stream!Work
<1>1. /\ pack_list' = <<>> /\ received' = received \o pack_list
      /\ ends' = ends /\ nRead' = nRead /\ Spoilt' = Spoilt
  BY DEF NullReturned, sent, traces, Spoilt
<1>2. received \in Seq(0..MaxPacks) /\ pack_list \in Seq(0..MaxPacks)
  BY DEF PackTypeOK
<1>3. received \o pack_list \in Seq(0..MaxPacks)
  BY <1>2, ConcatProperties
<1>4. FoundPacks' = FoundPacks
  BY <1>1, <1>3 DEF FoundPacks
<1> QED BY <1>1, <1>4 DEF Stream!Work, SentPacks, GivenPacks

LEMMA StreamGives ==
    ASSUME PackTypeOK, InStream, GivesNext, UNCHANGED Spoilt PROVE Stream!Give
<1> DEFINE p == Found + 1
           f == <<ends[Found], ends[p], p>>
<1>1. /\ p \in Packs /\ Found \in Nat /\ ends' = ends /\ nRead' = nRead /\ ends[p] <= nRead
      /\ received' = received /\ pack_list' = Append(pack_list, p)
  BY StreamFacts DEF GivesNext, Packs, sent
<1>2. FoundPacks' = Append(FoundPacks, p)
  <2>1. received \in Seq(0..MaxPacks) /\ pack_list \in Seq(0..MaxPacks) /\ p \in 0..MaxPacks
    BY <1>1, EndsOrdered DEF PackTypeOK
  <2> HIDE DEF p
  <2> QED BY <1>1, <2>1 DEF FoundPacks
<1>3. /\ DOMAIN FoundPacks = 1..Found /\ DOMAIN FoundPacks' = 1..p
      /\ \A i \in 1..Found : FoundPacks'[i] = FoundPacks[i]
      /\ FoundPacks'[p] = p
  <2>1. FoundPacks \in Seq(0..MaxPacks) /\ Len(FoundPacks) = Found /\ p \in 0..MaxPacks
    BY <1>1, FoundIs, EndsOrdered
  <2> QED BY <1>1, <1>2, <2>1, AppendProperties
<1>4. /\ DOMAIN GivenPacks = 1..Found /\ DOMAIN GivenPacks' = 1..p
      /\ \A i \in 1..Found : GivenPacks'[i] = GivenPacks[i]
      /\ GivenPacks'[p] = f
  <2>1. DOMAIN GivenPacks = 1..Found /\ DOMAIN GivenPacks' = 1..p
    BY <1>3 DEF GivenPacks
  <2>2. ASSUME NEW i \in 1..Found PROVE GivenPacks'[i] = GivenPacks[i]
    <3>1. i \in 1..p
      BY <1>1
    <3> QED BY <1>1, <1>3, <3>1 DEF GivenPacks
  <2>3. GivenPacks'[p] = f
    <3>1. p \in 1..p /\ p # TornPack /\ p - 1 = Found
      BY <1>1 DEF TornPack
    <3> QED BY <1>1, <1>3, <3>1 DEF GivenPacks
  <2> QED BY <2>1, <2>2, <2>3
<1>5. GivenPacks' = Append(GivenPacks, f)
  <2>1. /\ GivenPacks = [i \in 1..Found |-> GivenPacks[i]]
        /\ GivenPacks' = [i \in 1..p |-> GivenPacks'[i]]
    BY <1>4 DEF GivenPacks
  <2> DEFINE S == {GivenPacks[i] : i \in 1..Found} \cup {f}
  <2>2. GivenPacks \in Seq(S) /\ Len(GivenPacks) = Found /\ f \in S
    <3> HIDE DEF f
    <3>1. Found \in Nat
      BY <1>1
    <3>2. f \in S /\ \A i \in 1..Found : GivenPacks[i] \in S
      OBVIOUS
    <3> HIDE DEF S
    <3>3. GivenPacks \in [1..Found -> S]
      BY <2>1, <3>2
    <3> QED BY <3>1, <3>2, <3>3
  <2> HIDE DEF p, f, S
  <2>3. p = Found + 1 /\ \A i \in 1..p : i = p \/ i \in 1..Found
    BY <1>1 DEF p
  <2>4. /\ Append(GivenPacks, f) \in Seq(S) /\ Len(Append(GivenPacks, f)) = p
        /\ \A i \in 1..Found : Append(GivenPacks, f)[i] = GivenPacks[i]
        /\ Append(GivenPacks, f)[p] = f
    BY <2>2, <2>3, AppendProperties
  <2>5. \A i \in 1..p : GivenPacks'[i] \in S /\ GivenPacks'[i] = Append(GivenPacks, f)[i]
    BY <1>4, <2>3, <2>4 DEF S
  <2>6. GivenPacks' \in Seq(S) /\ Len(GivenPacks') = p
    BY <1>1, <2>1, <2>3, <2>5
  <2> QED BY <2>4, <2>5, <2>6, SeqEqual
<1>6. f \in Stream!WholeFrames
  <2>1. f \in SentPacks
    BY <1>1 DEF SentPacks
  <2> QED BY <1>1, <2>1, PackNextAt DEF Stream!WholeFrames
<1>7. SentPacks' = SentPacks
  BY <1>1 DEF SentPacks
<1> QED BY <1>1, <1>5, <1>6, <1>7 DEF Stream!Give

LEMMA PackStepImplements ==
    PackIInv /\ StreamHolds' /\ [PackNext]_packVars => Stream!Next
<1> SUFFICES ASSUME PackIInv, StreamHolds', [PackNext]_packVars PROVE Stream!Next
  OBVIOUS
<1>1. CASE Spoilt'
  BY <1>1 DEF Stream!Next, Stream!Excused
<1> SUFFICES ASSUME ~ Spoilt', Stream!NoneKept' PROVE Stream!Next
  BY <1>1 DEF StreamHolds
<1>2. CASE UNCHANGED packVars
  BY <1>2 DEF packVars, sent, Stream!Next, Stream!Work, SentPacks, GivenPacks, FoundPacks, traces, Spoilt
<1>3. ASSUME NEW k \in 1..RevLen, Read(k) PROVE Stream!Next
  <2>1. ~ Spoilt
    BY <1>3 DEF Read, Spoilt
  <2> QED BY <1>3, <2>1, StreamArrive DEF PackIInv, Stream!Next
<1>4. CASE Empty
  BY <1>4, StreamStays DEF Empty, PackIInv, Stream!Next
<1>5. CASE PackSave
  <2>1. PICK len \in GetPackLen(in_buf) :
          BeginsPack(len) \/ CutsPack(len) \/ NoHead(len) \/ Joins(len)
    BY <1>5 DEF PackSave
  <2>2. UNCHANGED traces
    BY <2>1, Zenon DEF BeginsPack, CutsPack, NoHead, Joins, JoinsNone, JoinsPart,
                       JoinsPack, NullReturned, Returned
  <2>3. InStream /\ PackTypeOK /\ Spoilt' = Spoilt
    BY <1>5, <2>2 DEF traces, PackIInv, Spoilt
  <2>4. state = "parse" /\ in_buf # <<>>
    BY <1>5 DEF PackSave
  <2>5. nNoFullPackLen = 0 \/ nNoFullPackLen > 0
    BY <2>3, StreamFacts
  <2>6. NullReturned \/ GivesNext
    BY <2>1, <2>3, <2>4, <2>5, StreamCuts, StreamJoins
  <2> QED BY <2>3, <2>6, StreamStays, StreamGives DEF Stream!Next
<1> QED BY <1>2, <1>3, <1>4, <1>5 DEF PackNext

\* The client's parser is a stream of packets until a packet needs a third
\* read or one begins at a check code of the bytes 'S:': it reads again only when every whole packet was put in the list for
\* the listener, and puts the next packet there only.
THEOREM PackImplementsFrames == PackSpec => ImplementsStream
<1>1. PackInit => Stream!Init
  <2> SUFFICES ASSUME PackInit PROVE Stream!Init
    OBVIOUS
  <2>1. StreamHolds
    BY PackInitIInv, StreamKept
  <2> QED BY <2>1, ConcatProperties, EmptySeq
          DEF StreamHolds, Spoilt, PackInit, Stream!Init, GivenPacks, FoundPacks
<1> QED BY <1>1, PackStepImplements, StreamKept, PackAlways, PTL
        DEF PackSpec, ImplementsStream, Stream!Spec

-----------------------------------------------------------------------------
(* The loop of pack_parse.                                                 *)

\* What a step of the loop does to the stream, when nothing spoilt it.
LEMMA SaveGives ==
    ASSUME PackIInv, ~ Spoilt, PackSave
    PROVE  PackTypeOK' /\ InStream' /\ (NullReturned \/ GivesNext)
<1>1. PackTypeOK /\ InStream
  BY DEF PackIInv
<1>2. PICK len \in GetPackLen(in_buf) :
        BeginsPack(len) \/ CutsPack(len) \/ NoHead(len) \/ Joins(len)
  BY DEF PackSave
<1>3. state = "parse" /\ in_buf # <<>>
  BY DEF PackSave
<1>4. nNoFullPackLen = 0 \/ nNoFullPackLen > 0
  BY <1>1, StreamFacts
<1>5. PackTypeOK'
  BY <1>1, PackSaveTypes
<1> QED BY <1>1, <1>2, <1>3, <1>4, <1>5, StreamCuts, StreamJoins

\* A packet that is found ends behind what was cut off before.
LEMMA GivesShorten ==
    ASSUME PackTypeOK, InStream, PackTypeOK', InStream', GivesNext
    PROVE  Len(in_buf') < Len(in_buf)
<1>1. /\ Found \in Nat /\ Found + 1 \in 0..MaxPacks /\ ends' = ends /\ nRead' = nRead
      /\ received' = received /\ pack_list' = Append(pack_list, Found + 1)
  BY StreamFacts DEF GivesNext, sent
<1>2. Found' = Found + 1
  <2>1. pack_list \in Seq(0..MaxPacks)
    BY DEF PackTypeOK
  <2>2. Len(pack_list') = Len(pack_list) + 1
    BY <1>1, <2>1
  <2> QED BY <1>1, <2>2, StreamFacts DEF Found
<1>3. ends[Found] \in Nat /\ ends[Found + 1] \in Nat /\ ends[Found] < ends[Found + 1]
  BY <1>1, EndsOrdered, StreamFacts
<1>4. nNoFullPackLen \in Nat /\ Cut = ends[Found] + nNoFullPackLen
  BY StreamFacts
<1>5. Cut < ends[Found + 1]
  BY <1>3, <1>4 DEF InStream
<1>6. Cut' = ends[Found + 1] + nNoFullPackLen' /\ nNoFullPackLen' \in Nat
  <2>1. Cut' = ends'[Found'] + nNoFullPackLen'
    BY DEF InStream
  <2>2. nNoFullPackLen' \in Nat
    BY PackAssumption DEF PackTypeOK
  <2> QED BY <1>1, <1>2, <2>1, <2>2
<1>7. nRead = Cut + Len(in_buf) /\ Len(in_buf) \in Nat
  BY StreamFacts
<1>8. Cut' = nRead - Len(in_buf') /\ Len(in_buf') \in Nat
  BY <1>1 DEF Cut, PackTypeOK
<1>9. Cut \in Nat /\ Cut' \in Nat /\ Cut < Cut'
  BY <1>3, <1>4, <1>5, <1>6
<1>10. nRead \in Nat
  BY <1>7, <1>9
<1> QED BY <1>7, <1>8, <1>9, <1>10

\* Every pass of the loop of TcpStreamPack.pack_parse that does not end the call
\* leaves fewer bytes in in_buf, however the reads cut the packets, as long as
\* each came with two and no read began at a check code of the bytes 'S:': the
\* loop ends.
THEOREM LoopAlwaysShortens == PackSpec => LoopShortens
<1> DEFINE Shorter == state = "parse" /\ state' = "parse" /\ ~ Spoilt
                        => Len(in_buf') < Len(in_buf)
<1>1. PackIInv /\ [PackNext]_packVars => [Shorter]_packVars
  <2> SUFFICES ASSUME PackIInv, PackNext, state = "parse", state' = "parse", ~ Spoilt
               PROVE  Len(in_buf') < Len(in_buf)
    OBVIOUS
  <2>1. PackSave
    BY DEF PackNext, Read, Empty, NullReturned
  <2>2. PackTypeOK /\ InStream
    BY DEF PackIInv
  <2>3. ~ NullReturned
    BY DEF NullReturned
  <2> QED BY <2>1, <2>2, <2>3, SaveGives, GivesShorten
<1> QED BY <1>1, PackAlways, PTL DEF PackSpec, LoopShortens

=============================================================================
