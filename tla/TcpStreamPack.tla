--------------------------- MODULE TcpStreamPack ---------------------------
(***************************************************************************)
(* TcpStreamPack.java: how the client cuts the bytes of its TCP connection *)
(* into packets, as AnalyzeTcpNetData.analyze calls it for every read.     *)
(*                                                                         *)
(* A byte is its place in the stream (0 is a null byte), so that a packet  *)
(* put together from wrong bytes shows: packet p is the bytes behind       *)
(* ends[p - 1] up to ends[p].  Two bytes read as 'S:' begin a packet, or   *)
(* are the low bytes 53 3A of the sum of bytes behind a content: the server*)
(* sends 50 as the parameter, JSON with its end '}' as the content, and no *)
(* packet as long as 14931 bytes, whose length would be such a pair.  One  *)
(* thread reads and parses; TCP chooses how many bytes a read gives.       *)
(***************************************************************************)
EXTENDS Integers, Sequences, Functions

CONSTANTS HeaderLen,   \* 'S:', parameter, length: 10 bytes, the length last
          Check,       \* check code and 'E', which nobody looks at: 5 bytes
          Streams,     \* what the server may send: where its packets end,
          Sums,        \* and which of them have a check code that reads 'S:'
          RevLen,      \* bytes of one read: MaxBuff
          NoFullLen,   \* nMaxRevNoFullPackLen
          MisreadLens, \* what bytes that are no length may be read as
          MaxPacks,    \* bound: packets the server sends
          MaxList      \* bound: packets a list has the memory for

ASSUME PackAssumption ==
    /\ HeaderLen \in Nat /\ HeaderLen > 2 /\ Check \in Nat /\ Check > 1
    /\ MaxPacks \in Nat
    /\ \A e \in Streams :
         /\ e \in [0..MaxPacks -> Nat] /\ e[0] = 0
         /\ \A p \in 1..MaxPacks : e[p] > e[p - 1] + HeaderLen + Check
    /\ Sums \subseteq SUBSET (1..MaxPacks)
    /\ RevLen \in Nat \ {0} /\ NoFullLen \in Nat /\ NoFullLen >= 2 * RevLen
    /\ MisreadLens \subseteq Nat
    /\ MaxList \in Nat /\ MaxList >= MaxPacks

VARIABLES ends,           \* ends[p]: bytes of the server's first p packets
          sums,           \* its packets whose check code begins with 'S:'
          nRead,          \* bytes that have been read so far
          state,          \* of the reading thread: "read", "parse", "crashed"
          in_buf,         \* the TcpData of the call under way
          revNoFullPack,  \* the array a cut packet waits in
          nNoFullPackLen,
          pack_list,      \* packets this call has found
          received,       \* packets handed to revListener.rev_data
          pieces,         \* history: reads that gave bytes of the last packet
          thrice,         \* history: some packet was not whole after two reads
          misled,         \* history: a read of a header's length or more began
                          \* at a check code that reads 'S:'
          alone           \* history: packets that were one read each

sent == <<ends, sums, nRead>>
save == <<in_buf, revNoFullPack, nNoFullPackLen>>
traces == <<pieces, thrice, misled, alone>>
packVars == <<sent, state, save, pack_list, received, traces>>

Zero == 0
Zeros(n) == [j \in 1..n |-> Zero]
Packs == 1..MaxPacks
Bytes(from, to) == [j \in 1..(to - from) |-> from + j]
Pack(p) == Bytes(ends[p - 1], ends[p])
TornPack == 0   \* a packet of bytes that do not belong together

PackInit ==
    /\ ends \in Streams /\ sums \in Sums /\ nRead = 0
    /\ state = "read"
    /\ in_buf = <<>> /\ revNoFullPack = Zeros(NoFullLen) /\ nNoFullPackLen = 0
    /\ pack_list = <<>> /\ received = <<>>
    /\ pieces = 0 /\ thrice = FALSE /\ misled = FALSE /\ alone = {}

-----------------------------------------------------------------------------
(* MyTcpClientSocket reads what has come.                                  *)

\* How often the packet of the last byte of k has been cut so far.
Pieces(k) == IF nRead + k \in Range(ends) THEN 0
             ELSE IF \E p \in Packs : ends[p] \in nRead + 1 .. nRead + k THEN 1
             ELSE pieces + 1

\* Byte x is the first of a check code that reads 'S:'.
Coded(x) == \E p \in sums : x = ends[p] - Check + 1

Read(k) ==
    /\ state = "read"
    /\ k \in 1..RevLen /\ nRead + k <= ends[MaxPacks]
    /\ nRead' = nRead + k
    /\ in_buf' = Bytes(nRead, nRead + k)
    /\ pieces' = Pieces(k)
    /\ thrice' = (thrice \/ Pieces(k) > 1)
    /\ misled' = (misled \/ (k >= HeaderLen /\ Coded(nRead + 1)))
    /\ alone' = alone \cup {p \in Packs : in_buf' = Pack(p)}
    /\ state' = "parse" /\ pack_list' = <<>>
    /\ UNCHANGED <<ends, sums, revNoFullPack, nNoFullPackLen, received>>

-----------------------------------------------------------------------------
(* _getPackLen.                                                            *)

NoLen == -1

\* x is the i-th byte of a packet.
Place(x, i) == \E p \in Packs : x = ends[p - 1] + i

\* The length read from the last byte of a header.
LenAt(x) ==
    IF Place(x, HeaderLen)
    THEN {ends[p] - ends[p - 1] : p \in {q \in Packs : x = ends[q - 1] + HeaderLen}}
    ELSE IF x = Zero THEN {0} ELSE MisreadLens

\* An 'S' with a ':' behind it: a packet's own, or that of a check code.
Begins(x) == Place(x, 1) \/ Coded(x)

\* Behind such an 'S' other bytes than its own may have been copied: a ':' may
\* also stand in a content or in the numbers of a header.
GetPackLen(b) ==
    IF Len(b) < HeaderLen \/ ~ Begins(b[1]) \/ b[2] = Zero THEN {NoLen}
    ELSE IF b[2] = b[1] + 1 THEN LenAt(b[HeaderLen])
    ELSE {NoLen} \cup LenAt(b[HeaderLen])

-----------------------------------------------------------------------------
(* The loop of pack_parse.                                                 *)

\* _pack_save has returned null: the packets go to the listener, and what is
\* left in in_buf is gone.
NullReturned ==
    /\ state' = "read" /\ in_buf' = <<>>
    /\ received' = received \o pack_list
    /\ pack_list' = <<>>
    /\ UNCHANGED <<sent, traces>>

Crashes == state' = "crashed" /\ in_buf' = <<>> /\ pack_list' = <<>>

\* OutOfMemoryError, when the same array is returned again and again.
Goes(rest, list) ==
    IF Len(list) > MaxList THEN Crashes
    ELSE UNCHANGED state /\ in_buf' = rest /\ pack_list' = list

\* A JSONException ends the call: the packets it found before are lost too.
JSONException ==
    /\ state' = "read" /\ in_buf' = <<>> /\ pack_list' = <<>>

Content(ret) == SubSeq(ret, HeaderLen + 1, Len(ret) - Check)

\* The packet whose content it is, if there is one.
Whole(ret) == {p \in Packs : Content(ret) = Content(Pack(p))}

\* _pack_save has returned an array; in_buf now holds rest.  A text with the
\* end missing is no JSON; one of bytes of several packets may be or not.
Returned(ret, rest) ==
    /\ IF Len(ret) + 1 < HeaderLen \/ ~ Begins(ret[1])
       THEN Goes(rest, pack_list)
       ELSE IF Len(ret) < HeaderLen + Check THEN Crashes   \* new byte[pack_len - 15]
       ELSE IF Whole(ret) # {}
       THEN \E p \in Whole(ret) : Goes(rest, Append(pack_list, p))
       ELSE \/ JSONException
            \/ /\ Len(ret) > HeaderLen + Check /\ Zero \notin Range(Content(ret))
               /\ Goes(rest, Append(pack_list, TornPack))
    /\ UNCHANGED <<sent, received, traces>>

-----------------------------------------------------------------------------
(* _pack_save.                                                             *)

\* Nothing is left to cut.
Empty ==
    /\ state = "parse" /\ in_buf = <<>>
    /\ NullReturned
    /\ UNCHANGED <<revNoFullPack, nNoFullPackLen>>

\* The array with b copied to it behind its first at bytes.
CopyTo(b, at) == [j \in 1..NoFullLen |->
                    IF j \in at + 1 .. at + Len(b) THEN b[j - at] ELSE revNoFullPack[j]]

Keep == /\ revNoFullPack' = CopyTo(in_buf, nNoFullPackLen)
        /\ nNoFullPackLen' = nNoFullPackLen + Len(in_buf)

\* As BeginsPack, but a packet that ends with in_buf waits as well.
BeginsOrIsPack(len) ==
    /\ len # NoLen
    /\ len >= Len(in_buf) \/ Len(in_buf) <= HeaderLen
    /\ IF nNoFullPackLen = 0 THEN Keep
       ELSE UNCHANGED <<revNoFullPack, nNoFullPackLen>>
    /\ NullReturned

\* A packet begins here, and its end is to come.
BeginsPack(len) ==
    /\ len # NoLen
    /\ len > Len(in_buf) \/ Len(in_buf) <= HeaderLen
    /\ IF nNoFullPackLen = 0 THEN Keep
       ELSE UNCHANGED <<revNoFullPack, nNoFullPackLen>>
    /\ NullReturned

\* As CutsPack, but what waits goes first.
CutsIfNoneWaits(len) ==
    /\ len # NoLen
    /\ len <= Len(in_buf) /\ Len(in_buf) > HeaderLen
    /\ IF nNoFullPackLen = 0
       THEN Returned(SubSeq(in_buf, 1, len), SubSeq(in_buf, len + 1, Len(in_buf)))
       ELSE NullReturned
    /\ UNCHANGED <<revNoFullPack, nNoFullPackLen>>

\* As CutsPack, but data.setlen is forgotten.
CutsAgain(len) ==
    /\ len # NoLen
    /\ len <= Len(in_buf) /\ Len(in_buf) > HeaderLen
    /\ Returned(SubSeq(in_buf, 1, len), in_buf)
    /\ UNCHANGED <<revNoFullPack, nNoFullPackLen>>

\* A whole packet is here.
CutsPack(len) ==
    /\ len # NoLen
    /\ len <= Len(in_buf) /\ Len(in_buf) > HeaderLen
    /\ Returned(SubSeq(in_buf, 1, len), SubSeq(in_buf, len + 1, Len(in_buf)))
    /\ UNCHANGED <<revNoFullPack, nNoFullPackLen>>

\* No packet begins here and none waits.
NoHead(len) ==
    /\ len = NoLen /\ nNoFullPackLen = 0
    /\ IF Len(in_buf) <= HeaderLen THEN Keep
       ELSE UNCHANGED <<revNoFullPack, nNoFullPackLen>>
    /\ NullReturned

\* The bytes are copied behind those that wait, if the array has the room.
\* When they make a header, its packet is returned, be it complete or not: if
\* not, the copy of the rest throws and nothing is reset.
JoinedLen == nNoFullPackLen + Len(in_buf)

JoinsNone(joined) ==
    /\ JoinedLen > NoFullLen \/ NoLen \in GetPackLen(SubSeq(joined, 1, JoinedLen))
    /\ revNoFullPack' = IF JoinedLen > NoFullLen THEN revNoFullPack ELSE joined
    /\ UNCHANGED nNoFullPackLen
    /\ NullReturned

JoinsPart(joined, n) ==
    /\ n # NoLen /\ JoinedLen - n \notin 0..RevLen
    /\ revNoFullPack' = joined
    /\ UNCHANGED nNoFullPackLen
    /\ IF n > NoFullLen THEN Returned(Zeros(n), in_buf)
       ELSE Returned(SubSeq(joined, 1, n), Zeros(Len(in_buf)))

JoinsForGood(joined, n) ==
    /\ n # NoLen /\ JoinedLen - n \in 0..RevLen
    /\ revNoFullPack' = Zeros(NoFullLen)
    /\ UNCHANGED nNoFullPackLen
    /\ Returned(SubSeq(joined, 1, n), SubSeq(joined, n + 1, JoinedLen))

JoinsPack(joined, n) ==
    /\ n # NoLen /\ JoinedLen - n \in 0..RevLen
    /\ revNoFullPack' = Zeros(NoFullLen)
    /\ nNoFullPackLen' = 0
    /\ Returned(SubSeq(joined, 1, n), SubSeq(joined, n + 1, JoinedLen))

Joins(len) ==
    /\ len = NoLen /\ nNoFullPackLen > 0
    /\ LET joined == CopyTo(in_buf, nNoFullPackLen) IN
         \/ JoinsNone(joined)
         \/ /\ JoinedLen <= NoFullLen
            /\ \E n \in GetPackLen(SubSeq(joined, 1, JoinedLen)) :
                 JoinsPart(joined, n) \/ JoinsPack(joined, n)

PackSave ==
    /\ state = "parse" /\ in_buf # <<>>
    /\ \E len \in GetPackLen(in_buf) :
         BeginsPack(len) \/ CutsPack(len) \/ NoHead(len) \/ Joins(len)

PackNext == \/ \E k \in 1..RevLen : Read(k)
            \/ Empty \/ PackSave

\* The thread that read goes on with its call.
PackSpec == PackInit /\ [][PackNext]_packVars /\ WF_packVars(Empty \/ PackSave)

-----------------------------------------------------------------------------
(* Properties.                                                             *)

PackTypeOK ==
    /\ ends \in Streams /\ sums \in Sums /\ nRead \in 0..ends[MaxPacks]
    /\ state \in {"read", "parse", "crashed"}
    /\ in_buf \in Seq(Nat) /\ Len(in_buf) <= RevLen
    /\ revNoFullPack \in [1..NoFullLen -> Nat] /\ nNoFullPackLen \in 0..RevLen
    /\ pack_list \in Seq(0..MaxPacks) /\ Len(pack_list) <= MaxList
    /\ received \in Seq(0..MaxPacks)
    /\ pieces \in Nat /\ thrice \in BOOLEAN /\ misled \in BOOLEAN /\ alone \subseteq Packs

\* The two things the parser does not survive: a packet in three reads, and a
\* read that begins with a check code it takes for a header.
Spoilt == thrice \/ misled

\* As long as no packet was left without its end by two reads, and no read began
\* at a check code that reads 'S:', the packets handed over are those the server
\* sent, whole, in order and each once, and none that has arrived is kept back,
\* wherever the reads cut them and however many a read brings.
TwoPartsSuffice ==
    /\ PackTypeOK
    /\ ~ Spoilt =>
         /\ state # "crashed"
         /\ state = "read" =>
              /\ \A j \in DOMAIN received : received[j] = j
              /\ \A p \in Packs : p \in DOMAIN received <=> ends[p] <= nRead

\* A read that is one packet is handed over, whatever has been lost, mixed up
\* or left in revNoFullPack before.
AloneIsReceived ==
    state = "read" => alone \subseteq Range(received)

\* Every pass of the loop of pack_parse leaves less in in_buf, as long as no
\* packet was left without its end by two reads and no check code was taken for
\* a header: the rest of a joined packet is shorter than what was joined to it.
LoopShortens ==
    [][state = "parse" /\ state' = "parse" /\ ~ Spoilt
         => Len(in_buf') < Len(in_buf)]_packVars

\* The loop of pack_parse ends, unless some packet was not whole after two reads
\* or a check code was taken for a header: then it may return the same array for
\* ever.
ParseReturns == state = "parse" ~> state = "read" \/ Spoilt

\* The connection is a stream of packets until two reads have left a packet
\* without its end, or one has begun at a check code that reads 'S:': a packet
\* counts as handed over when it is in the list that goes to the listener.
SentPacks == {<<ends[p - 1], ends[p], p>> : p \in Packs}

FoundPacks == received \o pack_list

GivenPacks == [i \in DOMAIN FoundPacks |->
                 IF FoundPacks[i] = TornPack THEN <<0, 0, 0>>
                 ELSE <<ends[FoundPacks[i] - 1], ends[FoundPacks[i]], FoundPacks[i]>>]

Stream == INSTANCE FrameStream WITH
    frames <- SentPacks, base <- 0, arrived <- nRead, given <- GivenPacks,
    waits <- state = "read", excused <- Spoilt

ImplementsStream == Stream!Spec

=============================================================================
