---------------------------- MODULE PacketStream ----------------------------
(***************************************************************************)
(* CTcpServer::SaveData (socket/tcpserver/TcpServer.cpp): cutting the byte *)
(* stream of a connection into packets, whatever pieces it arrives in.     *)
(*                                                                         *)
(* A byte is its position in the stream, a buffer the position of its first*)
(* byte and its length; `torn` says that bytes which do not follow each    *)
(* other in one stream were put together.  A packet is known by where it   *)
(* begins: frameLen[p] is the length written in the header at position p,  *)
(* units[p] how many UTF-16 units its content makes, the null behind it    *)
(* included: this is the length the listener is told (MultiByteToWideChar),*)
(* of the bytes of the content as they came.                               *)
(* SaveData calls itself: each call is a step.  One thread at a time works *)
(* on an IO_CONTEXT (it has one WSARecv pending at most), so no other step *)
(* comes between them but the peer's.                                      *)
(***************************************************************************)
EXTENDS Integers, Sequences, FiniteSets

CONSTANTS Overhead,   \* 'S:', parameter, length, check code, 'E': 15 bytes
          HeadLen,    \* a buffer of more bytes than this has the length: 10
          MAX_BUFFER, \* bytes of one WSARecv
          Sendable,   \* packets peers send: <<length, units of its content>>
          JunkLens,   \* lengths GetPacketLen may read where no packet begins
          MaxFrames,  \* bound: packets per connection
          MaxConns    \* bound: connections served by the IO_CONTEXT

ASSUME StreamAssumption ==
    /\ Overhead \in Nat /\ HeadLen \in Nat /\ HeadLen < Overhead
    /\ MAX_BUFFER \in Nat \ {0}
    /\ Sendable \subseteq {f \in Nat \X Nat :
                         f[1] >= Overhead /\ f[2] \in 1..(f[1] - Overhead + 1)}
    /\ JunkLens \subseteq {n \in Nat : n >= Overhead}
    /\ MaxFrames \in Nat /\ MaxConns \in Nat

VARIABLES frameLen,    \* the packets sent: where they begin |-> their length
          units,       \* where they begin |-> UTF-16 units of their contents
          sentEnd,     \* bytes of the connection sent so far end here
          base,        \* where the connection's stream begins
          conns,       \* connections so far
          arrived,     \* bytes handed to SaveData so far end here
          buf,         \* pBuf, nLen of the call of SaveData under way
          tmpBuf,      \* pIO->tmpBuf: the packet being put together
          tmpHeadBuf,  \* pIO->tmpHeadBuf: a beginning too short for a length
          delivered,   \* packets handed to m_pRecevier->Recevie
          dropped,     \* history: SaveData threw bytes of this stream away
          dirty        \* history: the connection began on left-over buffers

peer == <<frameLen, units, sentEnd, base, conns>>
context == <<tmpBuf, tmpHeadBuf>>
vars == <<peer, arrived, buf, context, delivered, dropped, dirty>>

None == [from |-> 0, nLen |-> 0, torn |-> FALSE]
NoPacket == [from |-> 0, nDesLen |-> 0, nCurLen |-> 0, torn |-> FALSE]

Piece == [from : Nat, nLen : Nat, torn : BOOLEAN]
Given == [from : Nat, nLen : Nat, told : Nat, torn : BOOLEAN]
Partial == [from : Nat, nDesLen : Nat, nCurLen : Nat, torn : BOOLEAN]

Starts == DOMAIN frameLen
TypeOK ==
    /\ Starts \subseteq Nat /\ frameLen \in [Starts -> {f[1] : f \in Sendable}]
    /\ units \in [Starts -> Nat]
    /\ sentEnd \in Nat /\ base \in Nat /\ conns \in Nat
    /\ arrived \in base..sentEnd
    /\ buf \in Piece /\ tmpHeadBuf \in Piece /\ tmpBuf \in Partial
    /\ tmpBuf.nCurLen <= tmpBuf.nDesLen
    /\ delivered \in Seq(Given)
    /\ dropped \in BOOLEAN /\ dirty \in BOOLEAN

Init ==
    /\ frameLen = <<>> /\ units = <<>> /\ sentEnd = 0 /\ base = 0 /\ conns = 1
    /\ arrived = 0 /\ buf = None
    /\ tmpBuf = NoPacket /\ tmpHeadBuf = None
    /\ delivered = <<>> /\ dropped = FALSE /\ dirty = FALSE

-----------------------------------------------------------------------------
(* The peer sends a packet made as by PrepareSendBuf; TCP hands the stream *)
(* over in pieces of its own choosing.                                     *)

Extend(f, p, n) == [q \in DOMAIN f \cup {p} |-> IF q = p THEN n ELSE f[q]]

PrepareSendBuf(f) ==
    /\ Cardinality(Starts) < MaxFrames
    /\ frameLen' = Extend(frameLen, sentEnd, f[1])
    /\ units' = Extend(units, sentEnd, f[2])
    /\ sentEnd' = sentEnd + f[1]
    /\ UNCHANGED <<base, conns, arrived, buf, context, delivered, dropped, dirty>>

Working == buf.nLen > 0

\* ProcessReceive: k bytes have arrived in pIO->wsaBuf.
ProcessReceive(k) ==
    /\ ~ Working
    /\ k <= MAX_BUFFER /\ arrived + k <= sentEnd
    /\ buf' = [from |-> arrived, nLen |-> k, torn |-> FALSE]
    /\ arrived' = arrived + k
    /\ UNCHANGED <<peer, context, delivered, dropped, dirty>>

-----------------------------------------------------------------------------
(* SaveData.                                                               *)

\* Bytes a and then b, in one piece.
Join(a, b) == [from |-> a.from, nLen |-> a.nLen + b.nLen,
               torn |-> a.torn \/ b.torn \/ b.from # a.from + a.nLen]

\* The beginning kept last time is put in front.
TakeHead ==
    /\ Working
    /\ tmpHeadBuf.nLen > 0
    /\ buf' = Join(tmpHeadBuf, buf)
    /\ tmpHeadBuf' = None
    /\ UNCHANGED <<peer, arrived, tmpBuf, delivered, dropped, dirty>>

nDesLeave == tmpBuf.nDesLen - tmpBuf.nCurLen

\* What GetPacketLen may read at the beginning of the buffer.
GetPacketLen == IF ~ buf.torn /\ buf.from \in Starts THEN {frameLen[buf.from]}
                ELSE JunkLens

\* 'S:' and a length of at least 15, or not; never not where a packet begins.
NoPacketLen == buf.torn \/ buf.from \notin Starts

NewPacket ==
    /\ Working /\ tmpHeadBuf.nLen = 0
    /\ nDesLeave = 0 /\ buf.nLen > HeadLen
    /\ \E n \in GetPacketLen :
         tmpBuf' = [from |-> buf.from, nDesLen |-> n, nCurLen |-> 0, torn |-> buf.torn]
    /\ UNCHANGED <<peer, arrived, buf, tmpHeadBuf, delivered, dropped, dirty>>

\* The whole buffer is left: nothing looks for 'S:' further on.
DropBuffer ==
    /\ Working /\ tmpHeadBuf.nLen = 0
    /\ nDesLeave = 0 /\ buf.nLen > HeadLen
    /\ NoPacketLen
    /\ buf' = None
    /\ dropped' = TRUE
    /\ UNCHANGED <<peer, arrived, context, delivered, dirty>>

KeepHead ==
    /\ Working /\ tmpHeadBuf.nLen = 0
    /\ nDesLeave = 0 /\ buf.nLen <= HeadLen
    /\ tmpHeadBuf' = buf
    /\ buf' = None
    /\ UNCHANGED <<peer, arrived, tmpBuf, delivered, dropped, dirty>>

Torn == tmpBuf.torn \/ buf.torn \/ buf.from # tmpBuf.from + tmpBuf.nCurLen

\* What MultiByteToWideChar counts up to the first null, one of a content that has
\* none: a character of several bytes makes one unit or two.  For bytes that are
\* no packet it may be any number.
MultiByteToWideChar ==
    IF ~ Torn /\ tmpBuf.from \in Starts THEN {units[tmpBuf.from]}
    ELSE 1..(tmpBuf.nDesLen - Overhead + 1)

\* Recevie gets the bytes of the content, and is told this number of them.
HandOver ==
    \E n \in MultiByteToWideChar :
      delivered' = Append(delivered, [from |-> tmpBuf.from, nLen |-> tmpBuf.nDesLen,
                                      told |-> n, torn |-> Torn])

\* As Complete, but the rest of the buffer is forgotten.
ForgetRest ==
    /\ Working /\ tmpHeadBuf.nLen = 0
    /\ nDesLeave > 0 /\ buf.nLen >= nDesLeave
    /\ HandOver
    /\ tmpBuf' = NoPacket
    /\ buf' = None
    /\ UNCHANGED <<peer, arrived, tmpHeadBuf, dropped, dirty>>

\* The packet is whole: it is handed over, and SaveData goes on with the rest.
Complete ==
    /\ Working /\ tmpHeadBuf.nLen = 0
    /\ nDesLeave > 0 /\ buf.nLen >= nDesLeave
    /\ HandOver
    /\ tmpBuf' = NoPacket
    /\ buf' = IF buf.nLen = nDesLeave THEN None
              ELSE [from |-> buf.from + nDesLeave, nLen |-> buf.nLen - nDesLeave,
                    torn |-> buf.torn]
    /\ UNCHANGED <<peer, arrived, tmpHeadBuf, dropped, dirty>>

Accumulate ==
    /\ Working /\ tmpHeadBuf.nLen = 0
    /\ buf.nLen < nDesLeave
    /\ tmpBuf' = [tmpBuf EXCEPT !.nCurLen = @ + buf.nLen, !.torn = Torn]
    /\ buf' = None
    /\ UNCHANGED <<peer, arrived, tmpHeadBuf, delivered, dropped, dirty>>

SaveData == TakeHead \/ NewPacket \/ DropBuffer \/ KeepHead \/ Complete \/ Accumulate

-----------------------------------------------------------------------------
(* The connection ends, wherever its stream is, and the next one is        *)
(* accepted.                                                               *)

NewStream ==
    /\ ~ Working
    /\ conns < MaxConns
    /\ conns' = conns + 1
    /\ frameLen' = <<>> /\ units' = <<>>
    /\ sentEnd' = sentEnd + 1 /\ base' = sentEnd + 1 /\ arrived' = sentEnd + 1
    /\ buf' = None /\ delivered' = <<>> /\ dropped' = FALSE

LeftOver == tmpHeadBuf.nLen > 0 \/ tmpBuf.nDesLen > 0

\* GetFreeIOContext gives the same IO_CONTEXT out again as AddFreeIOContext
\* got it: clean() is called by the constructor only.
RecycledContext ==
    /\ NewStream
    /\ dirty' = LeftOver
    /\ UNCHANGED context

\* GetFreeIOContext makes a new one.
NewContext ==
    /\ NewStream
    /\ dirty' = FALSE
    /\ tmpBuf' = NoPacket /\ tmpHeadBuf' = None

Next == \/ \E f \in Sendable : PrepareSendBuf(f)
        \/ \E k \in 1..(sentEnd - arrived) : ProcessReceive(k)
        \/ SaveData \/ RecycledContext \/ NewContext

Spec == Init /\ [][Next]_vars

-----------------------------------------------------------------------------
(* Properties.                                                             *)

\* Where the packet after the last one delivered begins.
Expected == IF delivered = <<>> THEN base
            ELSE delivered[Len(delivered)].from + delivered[Len(delivered)].nLen

\* A connection that began on clean buffers has its packets put together from all
\* their bytes and handed over in order and without a gap, each once, however TCP
\* cut the stream: headers in two pieces, several packets in one piece, a packet
\* in many pieces.  The listener is told as many bytes of a content as this makes
\* UTF-16 units, with the null: all of plain text, and too few of any other.
PacketsInOrder ==
    ~ dirty =>
      \A i \in DOMAIN delivered :
        /\ ~ delivered[i].torn
        /\ delivered[i].from \in Starts
        /\ delivered[i].nLen = frameLen[delivered[i].from]
        /\ delivered[i].told = units[delivered[i].from]
        /\ delivered[i].from = IF i = 1 THEN base
                               ELSE delivered[i - 1].from + delivered[i - 1].nLen

\* No complete packet stays behind in tmpBuf or tmpHeadBuf: when all bytes the
\* peer sent have been seen, all its packets have been handed over.
NothingLeftBehind ==
    ~ dirty /\ ~ Working /\ arrived = sentEnd => Expected = sentEnd

\* Bytes are thrown away, or put together across connections, only on a
\* connection that got an IO_CONTEXT with the remains of another connection.
DropNeedsLeftOver == dropped => dirty

\* A connection on clean buffers is a stream of packets: the next one of the
\* stream is handed over, and not before its last byte has come, with the length
\* of its own content in UTF-16 units, and SaveData returns only when every whole
\* packet was handed over.
SentFrames == {<<p, p + frameLen[p], units[p]>> : p \in Starts}

GivenFrames == [i \in DOMAIN delivered |->
                  IF delivered[i].torn THEN <<0, 0, 0>>
                  ELSE <<delivered[i].from, delivered[i].from + delivered[i].nLen,
                         delivered[i].told>>]

Frames == INSTANCE FrameStream WITH
    frames <- SentFrames, given <- GivenFrames, waits <- ~ Working, excused <- dirty

ImplementsFrames == Frames!Spec

=============================================================================
