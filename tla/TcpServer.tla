----------------------------- MODULE TcpServer ------------------------------
(***************************************************************************)
(* CTcpServer (socket/tcpserver/TcpServer.cpp): the connections of the     *)
(* server.  Worker threads take completions from one port; a connection is *)
(* known by its connection id, its SOCKET_CONTEXT comes from a free list   *)
(* and goes back to it, and so do the IO_CONTEXTs of its operations.       *)
(*                                                                         *)
(* The bytes received are those of PacketStream.  A connection and its     *)
(* socket are one number, the connection id (the 2^32 ids are not used up).*)
(* A step is what happens between two critical sections, or one of them    *)
(* with the local work around it.                                          *)
(***************************************************************************)
EXTENDS Integers, Sequences, FiniteSets

CONSTANTS Workers,         \* worker threads
          Contexts,        \* addresses of SOCKET_CONTEXTs
          IOs,             \* addresses of IO_CONTEXTs
          AcceptCount,     \* m_dwAcceptSocketCount
          SocketPool, SocketHold,   \* m_dwFreeSocketPool, m_dwFreeSocketHold
          IOPool, IOHold,           \* m_dwFreeIOPool, m_dwFreeIOHold
          MaxConns,        \* bound: connections of clients
          Budgets          \* bounds on what else may happen: see Budget

Conns == 1..MaxConns
None == 0

\* How many clients leave, how many pieces of data are received, how often
\* Send or SendEx and Disconnect are called, how many calls of Windows fail for
\* no reason here, and whether the program calls Stop.
Budget == [leaves : Nat, data : Nat, sends : Nat, disconnects : Nat, failures : Nat,
           stop : BOOLEAN]

ASSUME ServerAssumption ==
    /\ None \notin Contexts /\ None \notin IOs
    /\ IsFiniteSet(Workers) /\ Workers # {}
    /\ MaxConns \in Nat /\ AcceptCount \in Nat
    /\ SocketHold \in Nat /\ SocketPool \in 0..SocketHold
    /\ IOHold \in Nat /\ IOPool \in 0..IOHold
    /\ Cardinality(Contexts) >= MaxConns
    /\ \A b \in Budgets : /\ b \in Budget
                         /\ Cardinality(IOs) >= AcceptCount + MaxConns + b.sends

VARIABLES
    packets,               \* the completion port's queue
    wk,                    \* each worker thread: pc and locals
    m_mpClientSocket,      \* connection id |-> its SOCKET_CONTEXT, or None
    m_lsFreeSocketContext, \* free SOCKET_CONTEXTs
    holds,                 \* pSock->connID, pSock->sock of each; None: deleted
    key,                   \* the completion key of a connection's socket
    m_lsFreeIOContext,     \* free IO_CONTEXTs
    kernel,                \* operations under way: io |-> [so, conn]
    made,                  \* IO_CONTEXTs there are
    m_sockListen,          \* the listening socket is open
    sock, peer,            \* a connection's socket here, and its peer
    sender,                \* a thread in Send: pc, connection, pSock
    stop, iter, told,      \* Stop: how far, where in the map, and DISCONNECTs posted
    heard,                 \* connection ids Recevie was called with
    left,                  \* what the budget still allows
    overtaken, wrong, unread, lost   \* history, see the properties

sockets == <<m_mpClientSocket, m_lsFreeSocketContext, holds, key>>
ios == <<m_lsFreeIOContext, made>>
net == <<m_sockListen, sock, peer>>
stopping == <<stop, iter, told>>
program == <<heard, left>>
history == <<overtaken, wrong, unread, lost>>
vars == <<packets, wk, sockets, ios, kernel, net, sender, stopping, program, history>>

ACCEPT == [k |-> "ACCEPT"]
EXIT == [k |-> "EXIT"]
DISCONNECT(c) == [k |-> "DISCONNECT", conn |-> c]
Completion(i, so, c, res) == [k |-> "IO", io |-> i, so |-> so, conn |-> c, res |-> res]
SO == {"ACCEPT", "READ", "WRITE"}

Idle == [pc |-> "get", io |-> None, conn |-> None, ctx |-> None, own |-> None]
NoSend == [pc |-> "idle", conn |-> None, ctx |-> None]
At(w, pc) == wk[w].pc = pc

Packets == {ACCEPT, EXIT} \cup {DISCONNECT(c) : c \in Conns}
           \cup [k : {"IO"}, io : IOs, so : SO, conn : Conns \cup {None},
                 res : {"data", "zero", "error", "aborted"}]

TypeOK ==
    /\ \A i \in DOMAIN packets : packets[i] \in Packets
    /\ wk \in [Workers -> [pc : {"get", "add", "receive", "deliver", "repost",
                                 "find", "erase", "push", "exited"},
                           io : IOs \cup {None}, conn : Conns \cup {None},
                           ctx : Contexts \cup {None}, own : Conns \cup {None}]]
    /\ m_mpClientSocket \in [Conns -> Contexts \cup {None}]
    /\ \A i \in DOMAIN m_lsFreeSocketContext : m_lsFreeSocketContext[i] \in Contexts
    /\ Len(m_lsFreeSocketContext) <= SocketHold
    /\ holds \in [Contexts -> Conns \cup {None}]
    /\ key \in [Conns -> Contexts \cup {None}]
    /\ Len(m_lsFreeIOContext) <= IOHold
    /\ made \subseteq IOs /\ DOMAIN kernel \subseteq made
    /\ \A i \in DOMAIN kernel : kernel[i].so \in SO /\ kernel[i].conn \in Conns \cup {None}
    /\ m_sockListen \in BOOLEAN
    /\ sock \in [Conns -> {"none", "open", "closed"}]
    /\ peer \in [Conns -> {"none", "open", "closed"}]
    /\ stop \in {"run", "list", "wait", "exit", "join", "delete", "stopped", "undefined"}
    /\ iter \in 0..(MaxConns + 1) /\ left \in Budget

Init ==
    /\ packets = [i \in 1..AcceptCount |-> ACCEPT]
    /\ wk = [w \in Workers |-> Idle]
    /\ m_mpClientSocket = [c \in Conns |-> None]
    /\ m_lsFreeSocketContext = <<>>
    /\ holds = [x \in Contexts |-> None]
    /\ key = [c \in Conns |-> None]
    /\ m_lsFreeIOContext = <<>> /\ made = {} /\ kernel = <<>>
    /\ m_sockListen = TRUE
    /\ sock = [c \in Conns |-> "none"] /\ peer = sock
    /\ sender = NoSend
    /\ stop = "run" /\ iter = 0 /\ told = {}
    /\ heard = {} /\ left \in Budgets
    /\ overtaken = FALSE /\ wrong = {} /\ unread = {} /\ lost = 0

-----------------------------------------------------------------------------
(* The free lists.                                                         *)

Elements(s) == {s[i] : i \in DOMAIN s}
Put(f, i, v) == [j \in DOMAIN f \cup {i} |-> IF j = i THEN v ELSE f[j]]
Without(f, i) == [j \in DOMAIN f \ {i} |-> f[j]]

\* x joins the list s; a list longer than `hold` is cut to its last `pool`.
AddFree(s, x, pool, hold) ==
    LET l == Append(s, x) IN
    IF Len(l) <= hold THEN l ELSE SubSeq(l, Len(l) - pool + 1, Len(l))

\* `new` finds memory, which ServerAssumption makes enough of (bound: IOs).
HasIO == m_lsFreeIOContext # <<>> \/ IOs \ made # {}
HasContext == \/ m_lsFreeSocketContext # <<>>
              \/ \E y \in Contexts : holds[y] = None

GetFreeIOContext ==
    IF m_lsFreeIOContext # <<>> THEN Head(m_lsFreeIOContext)
    ELSE CHOOSE i \in IOs \ made : TRUE
FreeIOs == IF m_lsFreeIOContext # <<>> THEN Tail(m_lsFreeIOContext) ELSE <<>>

\* AddFreeIOContext(i), where `before` is the list and `have` the contexts.
AddFreeIOContext(i, before, have) ==
    LET after == AddFree(before, i, IOPool, IOHold) IN
    /\ m_lsFreeIOContext' = after
    /\ made' = have \ (Elements(Append(before, i)) \ Elements(after))
KeepIO(i) == UNCHANGED ios
FreeIO(i) == IF i = None THEN UNCHANGED ios
             ELSE AddFreeIOContext(i, m_lsFreeIOContext, made)

\* A thread takes an IO_CONTEXT to begin operation `so` on connection c,
\* and gives it back when the operation cannot begin.
Begun(so, c) ==
    LET i == GetFreeIOContext IN
    /\ HasIO
    /\ kernel' = Put(kernel, i, [so |-> so, conn |-> c])
    /\ m_lsFreeIOContext' = FreeIOs
    /\ made' = made \cup {i}
NotBegun ==
    /\ HasIO
    /\ AddFreeIOContext(GetFreeIOContext, FreeIOs, made \cup {GetFreeIOContext})
    /\ UNCHANGED kernel

\* The connection ids (the sockets) that reading SOCKET_CONTEXT x may give:
\* anything when it has been deleted.
Read(x) == IF x # None /\ holds[x] # None THEN {holds[x]} ELSE Conns \cup {None}

Become(w, r) == wk' = [wk EXCEPT ![w] = r]
Goto(w, pc) == wk' = [wk EXCEPT ![w].pc = pc]

\* A call of Windows fails: because it must, or for a reason of its own.
Fails(must) == IF must THEN UNCHANGED program
               ELSE /\ left.failures > 0
                    /\ left' = [left EXCEPT !.failures = @ - 1]
                    /\ UNCHANGED heard

-----------------------------------------------------------------------------
(* A worker takes a packet from the port.                                  *)

Taken(w) == At(w, "get") /\ packets # <<>>

\* IOCP_SI_ACCEPT: a socket and an IO_CONTEXT for the next client.
GetAccept(w) ==
    /\ Taken(w) /\ Head(packets) = ACCEPT
    /\ packets' = Tail(packets)
    /\ \/ m_sockListen /\ Begun("ACCEPT", None) /\ UNCHANGED <<lost, program>>
       \/ Fails(~ m_sockListen) /\ NotBegun /\ lost' = lost + 1
    /\ UNCHANGED <<wk, sockets, net, sender, stopping, overtaken, wrong, unread>>

GetDisconnect(w) ==
    /\ Taken(w) /\ Head(packets).k = "DISCONNECT"
    /\ packets' = Tail(packets)
    /\ Become(w, [Idle EXCEPT !.pc = "find", !.conn = Head(packets).conn])
    /\ UNCHANGED <<sockets, ios, kernel, net, sender, stopping, program, history>>

GetExit(w) ==
    /\ Taken(w) /\ Head(packets) = EXIT
    /\ packets' = Tail(packets)
    /\ Goto(w, "exited")
    /\ UNCHANGED <<sockets, ios, kernel, net, sender, stopping, program, history>>

Got(w, so, res) ==
    /\ Taken(w) /\ Head(packets).k = "IO"
    /\ Head(packets).so = so /\ Head(packets).res \in res

NoAccept(q) == q
AskAccept(q) == Append(q, ACCEPT)

\* A failed AcceptEx: another is asked for.
AcceptFailed(w) ==
    /\ Got(w, "ACCEPT", {"error", "aborted"})
    /\ packets' = AskAccept(Tail(packets))
    /\ FreeIO(Head(packets).io)
    /\ UNCHANGED <<wk, sockets, kernel, net, sender, stopping, program, history>>

\* An operation of a socket that was closed here, and one that is done.
OnlyFreeIO(w) ==
    /\ \E so \in {"READ", "WRITE"} : Got(w, so, {"aborted"}) \/ Got(w, "WRITE", {"data"})
    /\ packets' = Tail(packets)
    /\ FreeIO(Head(packets).io)
    /\ UNCHANGED <<wk, sockets, kernel, net, sender, stopping, program, history>>

\* connID is read from the SOCKET_CONTEXT the socket was given.
GetIO(w, pc) ==
    LET p == Head(packets) IN
    /\ packets' = Tail(packets)
    /\ \E id \in Read(key[p.conn]) :
         Become(w, [Idle EXCEPT !.pc = pc, !.io = p.io, !.conn = id, !.own = p.conn])
    /\ UNCHANGED <<sockets, ios, kernel, net, sender, stopping, program, history>>

GetError(w) ==
    /\ \E so \in {"READ", "WRITE"} :
         \/ Got(w, so, {"error"}) /\ GetIO(w, "find")
         \/ Got(w, so, {"zero"}) /\ GetIO(w, "repost")

GetClosed(w) ==
    /\ \E so \in {"READ", "WRITE"} : Got(w, so, {"zero", "error"})
    /\ GetIO(w, "find")

GetData(w) ==
    /\ Got(w, "READ", {"data"})
    /\ GetIO(w, "deliver")

-----------------------------------------------------------------------------
(* ProcessAccept and ProcessReceive.                                       *)

\* Another accept is asked for; GetFreeSocketContext.
KeepsOldID(x, c) == IF holds[x] = None THEN [holds EXCEPT ![x] = c] ELSE holds
Holding(x, c) == [holds EXCEPT ![x] = c]

ProcessAccept(w) ==
    /\ Got(w, "ACCEPT", {"data"}) /\ HasContext
    /\ LET c == Head(packets).conn
           some == m_lsFreeSocketContext # <<>>
           x == IF some THEN Head(m_lsFreeSocketContext)
                ELSE CHOOSE y \in Contexts : holds[y] = None
       IN /\ m_lsFreeSocketContext' = IF some THEN Tail(m_lsFreeSocketContext) ELSE <<>>
          /\ holds' = Holding(x, c)
          /\ Become(w, [pc |-> "add", io |-> Head(packets).io, conn |-> c, ctx |-> x,
                        own |-> c])
    /\ packets' = AskAccept(Tail(packets))
    /\ UNCHANGED <<m_mpClientSocket, key, ios, kernel, net, sender, stopping, program, history>>

AddClientSocket(w) ==
    /\ At(w, "add")
    /\ m_mpClientSocket' = [m_mpClientSocket EXCEPT ![wk[w].conn] = wk[w].ctx]
    /\ Goto(w, "receive")
    /\ UNCHANGED <<packets, m_lsFreeSocketContext, holds, key, ios, kernel, net, sender,
                   stopping, program, history>>

PostReceive(w) ==
    /\ kernel' = Put(kernel, wk[w].io, [so |-> "READ", conn |-> wk[w].own])
    /\ Become(w, Idle)
    /\ UNCHANGED ios

\* The socket joins the completion port, with pSock as its key.
Associate(w) ==
    /\ At(w, "receive")
    /\ sock[wk[w].own] = "open"
    /\ key' = [key EXCEPT ![wk[w].own] = wk[w].ctx]
    /\ \/ PostReceive(w) /\ UNCHANGED <<unread, program>>
       \/ /\ Fails(FALSE)
          /\ FreeIO(wk[w].io) /\ Become(w, Idle) /\ UNCHANGED kernel
          /\ unread' = unread \cup {wk[w].own}
    /\ UNCHANGED <<packets, m_mpClientSocket, m_lsFreeSocketContext, holds, net, sender,
                   stopping, overtaken, wrong, lost>>

NotAssociated(w) ==
    /\ At(w, "receive")
    /\ Fails(sock[wk[w].own] # "open")
    /\ Goto(w, "find")
    /\ UNCHANGED <<packets, sockets, ios, kernel, net, sender, stopping, history>>

\* SaveData and Recevie, under the connection id pSock holds by now.
Deliver(w) ==
    /\ At(w, "deliver")
    /\ \E id \in Read(key[wk[w].own]) :
         /\ heard' = heard \cup {id}
         /\ wrong' = IF id = wk[w].own THEN wrong ELSE wrong \cup {"received"}
    /\ Goto(w, "repost")
    /\ UNCHANGED <<packets, sockets, ios, kernel, net, sender, stopping, left,
                   overtaken, unread, lost>>

ReceiveAgain(w) ==
    /\ At(w, "repost")
    /\ \/ sock[wk[w].own] = "open" /\ PostReceive(w) /\ UNCHANGED program
       \/ /\ Fails(sock[wk[w].own] # "open")
          /\ Goto(w, "find") /\ UNCHANGED <<ios, kernel>>
    /\ UNCHANGED <<packets, sockets, net, sender, stopping, history>>

-----------------------------------------------------------------------------
(* AddFreeSocketContext, and then AddFreeIOContext.                        *)

Lookup(c) == IF c = None THEN None ELSE m_mpClientSocket[c]

NotFound(w) ==
    /\ At(w, "find")
    /\ Lookup(wk[w].conn) = None
    /\ FreeIO(wk[w].io)
    /\ Become(w, Idle)
    /\ UNCHANGED <<packets, sockets, kernel, net, sender, stopping, program, history>>

FindSocketContext(w) ==
    /\ At(w, "find")
    /\ Lookup(wk[w].conn) # None
    /\ Become(w, [wk[w] EXCEPT !.pc = "erase", !.ctx = Lookup(wk[w].conn)])
    /\ UNCHANGED <<packets, sockets, ios, kernel, net, sender, stopping, program, history>>

\* Something that has connection c or its SOCKET_CONTEXT in hand and will go
\* on with it: a completion that is no abort, another worker, a sender.
InHand(w, c) ==
    \/ \E i \in DOMAIN packets : /\ packets[i].k = "IO" /\ packets[i].conn = c
                                 /\ packets[i].res # "aborted"
    \/ \E v \in Workers \ {w} : wk[v].conn = c \/ wk[v].own = c
    \/ sender.conn = c

Erased(c) == [m_mpClientSocket EXCEPT ![c] = None]

Closed(s) == [d \in Conns |-> IF d = s THEN "closed" ELSE sock[d]]

Erase(w) ==
    LET c == wk[w].conn IN
    /\ At(w, "erase")
    /\ \E s \in Read(wk[w].ctx) :
         /\ sock' = Closed(s)
         /\ wrong' = IF s = c /\ wk[w].own \in {None, c} THEN wrong ELSE wrong \cup {"closed"}
    /\ m_mpClientSocket' = Erased(c)
    /\ overtaken' = (overtaken \/ InHand(w, c))
    /\ Goto(w, "push")
    /\ UNCHANGED <<packets, m_lsFreeSocketContext, holds, key, ios, kernel, m_sockListen, peer,
                   sender, stopping, program, unread, lost>>

PushFree(w) ==
    LET after == AddFree(m_lsFreeSocketContext, wk[w].ctx, SocketPool, SocketHold)
        gone == Elements(Append(m_lsFreeSocketContext, wk[w].ctx)) \ Elements(after)
    IN
    /\ At(w, "push")
    /\ m_lsFreeSocketContext' = after
    /\ holds' = [x \in Contexts |-> IF x \in gone THEN None ELSE holds[x]]
    /\ FreeIO(wk[w].io)
    /\ Become(w, Idle)
    /\ UNCHANGED <<packets, m_mpClientSocket, key, kernel, net, sender, stopping, program, history>>

Worker(w) == \/ GetAccept(w) \/ GetDisconnect(w) \/ GetExit(w) \/ AcceptFailed(w)
             \/ OnlyFreeIO(w) \/ GetClosed(w) \/ GetData(w) \/ ProcessAccept(w)
             \/ AddClientSocket(w) \/ Associate(w) \/ NotAssociated(w) \/ Deliver(w)
             \/ ReceiveAgain(w) \/ NotFound(w) \/ FindSocketContext(w) \/ Erase(w) \/ PushFree(w)

-----------------------------------------------------------------------------
(* The program's calls: Send and SendEx (a message of at most MAX_BUFFER   *)
(* bytes) and Disconnect.                                                  *)

SendFind(c) ==
    /\ sender.pc = "idle" /\ left.sends > 0
    /\ c \in heard /\ m_mpClientSocket[c] # None
    /\ sender' = [pc |-> "post", conn |-> c, ctx |-> m_mpClientSocket[c]]
    /\ left' = [left EXCEPT !.sends = @ - 1]
    /\ UNCHANGED <<packets, wk, sockets, ios, kernel, net, stopping, history, heard>>

\* pSock->sock is read only now.
SendPost ==
    /\ sender.pc = "post"
    /\ \E s \in Read(sender.ctx) :
         \/ /\ s # None /\ sock[s] = "open" /\ Begun("WRITE", s)
            /\ wrong' = IF s = sender.conn THEN wrong ELSE wrong \cup {"sent"}
            /\ UNCHANGED program
         \/ /\ Fails(IF s = None THEN TRUE ELSE sock[s] # "open")
            /\ NotBegun /\ UNCHANGED wrong
    /\ sender' = NoSend
    /\ UNCHANGED <<packets, wk, sockets, net, stopping, overtaken, unread, lost>>

Disconnect(c) ==
    /\ stop = "run" /\ left.disconnects > 0
    /\ c \in heard /\ m_mpClientSocket[c] # None
    /\ packets' = Append(packets, DISCONNECT(c))
    /\ left' = [left EXCEPT !.disconnects = @ - 1]
    /\ UNCHANGED <<wk, sockets, ios, kernel, net, sender, stopping, history, heard>>

-----------------------------------------------------------------------------
(* The clients and Windows: operations complete in any order.              *)

Complete(i, c, res) ==
    /\ stop # "stopped"
    /\ packets' = Append(packets, Completion(i, kernel[i].so, c, res))
    /\ kernel' = Without(kernel, i)

Connect(i) ==
    /\ kernel[i].so = "ACCEPT" /\ m_sockListen
    /\ \E c \in Conns :
         /\ sock[c] = "none" /\ \A d \in Conns : d < c => sock[d] # "none"
         /\ Complete(i, c, "data")
         /\ sock' = [sock EXCEPT ![c] = "open"] /\ peer' = [peer EXCEPT ![c] = "open"]
    /\ UNCHANGED <<wk, sockets, ios, m_sockListen, sender, stopping, program, history>>

AcceptFails(i) ==
    /\ kernel[i].so = "ACCEPT"
    /\ Fails(~ m_sockListen)
    /\ Complete(i, None, IF m_sockListen THEN "error" ELSE "aborted")
    /\ UNCHANGED <<wk, sockets, ios, net, sender, stopping, history>>

Arrive(i) ==
    /\ kernel[i].so = "READ" /\ left.data > 0
    /\ sock[kernel[i].conn] = "open" /\ peer[kernel[i].conn] = "open"
    /\ Complete(i, kernel[i].conn, "data")
    /\ left' = [left EXCEPT !.data = @ - 1]
    /\ UNCHANGED <<wk, sockets, ios, net, sender, stopping, history, heard>>

PeerCloses(c) ==
    /\ peer[c] = "open" /\ left.leaves > 0
    /\ peer' = [peer EXCEPT ![c] = "closed"]
    /\ left' = [left EXCEPT !.leaves = @ - 1]
    /\ UNCHANGED <<packets, wk, sockets, ios, kernel, m_sockListen, sock, sender, stopping,
                   heard, history>>

Finish(i) ==
    LET c == kernel[i].conn IN
    /\ kernel[i].so # "ACCEPT"
    /\ \/ sock[c] = "closed" /\ Complete(i, c, "aborted")
       \/ sock[c] = "open" /\ peer[c] = "closed" /\ Complete(i, c, "error")
       \/ /\ sock[c] = "open" /\ peer[c] = "closed" /\ kernel[i].so = "READ"
          /\ Complete(i, c, "zero")
       \/ sock[c] = "open" /\ kernel[i].so = "WRITE" /\ Complete(i, c, "data")
    /\ UNCHANGED <<wk, sockets, ios, net, sender, stopping, program, history>>

Network == \/ \E i \in DOMAIN kernel : Connect(i) \/ AcceptFails(i) \/ Arrive(i) \/ Finish(i)
           \/ \E c \in Conns : PeerCloses(c)

-----------------------------------------------------------------------------
(* Stop.                                                                   *)

\* Where an iterator that has left the ids below c stands in the map.
NextKey(c) == {d \in c..(MaxConns + 1) :
                 /\ d \in Conns => m_mpClientSocket[d] # None
                 /\ \A e \in Conns : c <= e /\ e < d => m_mpClientSocket[e] = None}

StopBegin ==
    /\ left.stop /\ stop = "run"
    /\ m_sockListen' = FALSE
    /\ stop' = "list" /\ iter' \in NextKey(1)
    /\ UNCHANGED <<packets, wk, sockets, ios, kernel, sock, peer, sender, told, program, history>>

\* The map is walked without its lock: when a worker has erased the entry
\* the iterator stands on, anything may happen.
StopList ==
    /\ stop = "list"
    /\ \/ iter > MaxConns /\ stop' = "wait" /\ UNCHANGED <<packets, iter, told>>
       \/ /\ iter <= MaxConns /\ m_mpClientSocket[iter] = None
          /\ stop' = "undefined" /\ UNCHANGED <<packets, iter, told>>
       \/ /\ iter <= MaxConns /\ m_mpClientSocket[iter] # None
          /\ packets' = Append(packets, DISCONNECT(iter))
          /\ told' = told \cup {iter}
          /\ iter' \in NextKey(iter + 1) /\ UNCHANGED stop
    /\ UNCHANGED <<wk, sockets, ios, kernel, net, sender, program, history>>

\* Until there is no connection, or 15 seconds have passed: at any time.
StopWait ==
    /\ stop = "wait"
    /\ stop' = "exit"
    /\ UNCHANGED <<packets, wk, sockets, ios, kernel, net, sender, iter, told, program, history>>

ExitsFirst == [i \in 1..Cardinality(Workers) |-> EXIT] \o packets
OneExitShort == packets \o [i \in 1..(Cardinality(Workers) - 1) |-> EXIT]
ExitsLast == packets \o [i \in 1..Cardinality(Workers) |-> EXIT]

StopExit ==
    /\ stop = "exit"
    /\ packets' = ExitsLast
    /\ stop' = "join"
    /\ UNCHANGED <<wk, sockets, ios, kernel, net, sender, iter, told, program, history>>

StopJoin ==
    /\ stop = "join"
    /\ \A w \in Workers : At(w, "exited")
    /\ stop' = "delete"
    /\ UNCHANGED <<packets, wk, sockets, ios, kernel, net, sender, iter, told, program, history>>

\* The loop over the connections left never advances: it ends only when
\* there are none.
StopDelete ==
    /\ stop = "delete"
    /\ IF \A c \in Conns : m_mpClientSocket[c] = None
       THEN /\ stop' = "stopped"
            /\ packets' = <<>>
            /\ m_lsFreeSocketContext' = <<>>
            /\ holds' = [x \in Contexts |->
                           IF x \in Elements(m_lsFreeSocketContext) THEN None ELSE holds[x]]
            /\ m_lsFreeIOContext' = <<>>
            /\ made' = made \ Elements(m_lsFreeIOContext)
       ELSE /\ stop' = "undefined"
            /\ UNCHANGED <<packets, m_lsFreeSocketContext, holds, ios>>
    /\ UNCHANGED <<wk, m_mpClientSocket, key, kernel, net, sender, iter, told, program, history>>

Stop == StopList \/ StopWait \/ StopExit \/ StopJoin \/ StopDelete

Next == \/ \E w \in Workers : Worker(w)
        \/ \E c \in Conns : SendFind(c) \/ Disconnect(c)
        \/ SendPost \/ Network \/ StopBegin \/ Stop

\* Threads go on; Windows completes what it can.
Spec == /\ Init /\ [][Next]_vars
        /\ \A w \in Workers : WF_vars(Worker(w))
        /\ WF_vars(Stop)
        /\ WF_vars(\E i \in DOMAIN kernel : Finish(i))

-----------------------------------------------------------------------------
(* Properties.                                                             *)

Places(i) == Cardinality({j \in DOMAIN m_lsFreeIOContext : m_lsFreeIOContext[j] = i})
             + (IF i \in DOMAIN kernel THEN 1 ELSE 0)
             + Cardinality({j \in DOMAIN packets : packets[j].k = "IO" /\ packets[j].io = i})
             + Cardinality({w \in Workers : wk[w].io = i})

\* Until Stop has dropped the port, each IO_CONTEXT is in the free list, with
\* Windows, in the port's queue or with one worker: never in two of them (its
\* buffer would be overwritten), never in none (it would never be freed).
OneIOOwner ==
    /\ TypeOK
    /\ stop # "stopped" => \A i \in IOs : Places(i) = IF i \in made THEN 1 ELSE 0

\* Accepts asked for, under way or done are as many as in the beginning, but
\* for those whose AcceptEx could not be called: clients find one waiting.
AcceptsKept ==
    stop # "stopped" =>
      Cardinality({j \in DOMAIN packets : packets[j] = ACCEPT})
      + Cardinality({j \in DOMAIN packets : packets[j].k = "IO" /\ packets[j].so = "ACCEPT"})
      + Cardinality({i \in DOMAIN kernel : kernel[i].so = "ACCEPT"})
      = AcceptCount - lost

\* No SOCKET_CONTEXT serves two connections, or one while it is free.
ContextsApart ==
    /\ \A c, d \in Conns : m_mpClientSocket[c] = m_mpClientSocket[d] =>
                            c = d \/ m_mpClientSocket[c] = None
    /\ \A i, j \in DOMAIN m_lsFreeSocketContext :
         m_lsFreeSocketContext[i] = m_lsFreeSocketContext[j] => i = j
    /\ \A c \in Conns : m_mpClientSocket[c] \notin Elements(m_lsFreeSocketContext)
    /\ \A c \in Conns : m_mpClientSocket[c] # None => holds[m_mpClientSocket[c]] = c

\* What a connection sends is received as its own, what is sent to it goes to
\* it, it is closed for its own end, and its SOCKET_CONTEXT is its own: unless
\* a connection was closed while something else had it in hand.
NoMixUp == ~ overtaken => wrong = {} /\ ContextsApart

\* The connections Stop finds when its workers are gone, and on which it then
\* loops for ever, are none of those it posted a DISCONNECT for, however short
\* it waited: they came after its walk of the map.  And when Stop returns,
\* no connection is open: also none accepted while it was closing the others.
LeftCameLate ==
    /\ stop = "delete" => \A c \in told : m_mpClientSocket[c] = None
    /\ stop = "stopped" /\ ~ overtaken => \A c \in Conns : sock[c] # "open"

\* Somebody will notice the end of every connection in the map: its read is under
\* way or completed, or a worker that has it in hand reads on or removes it;
\* unless no read could be begun, or a closed connection was still in use.
Minded(c) ==
    \/ \E i \in DOMAIN kernel : kernel[i] = [so |-> "READ", conn |-> c]
    \/ \E j \in DOMAIN packets : /\ packets[j].k = "IO" /\ packets[j].so = "READ"
                                  /\ packets[j].conn = c /\ packets[j].res # "aborted"
    \/ \E w \in Workers : wk[w].own = c /\ wk[w].pc # "push"

AlwaysMinded ==
    ~ overtaken => \A c \in Conns : m_mpClientSocket[c] # None => c \in unread \/ Minded(c)

\* Once Stop has posted its exit packets there is one for every worker that has
\* not taken its own: none can miss it, whoever takes which.
ExitForEach ==
    stop \in {"join", "delete"} =>
      Cardinality({j \in DOMAIN packets : packets[j] = EXIT})
      = Cardinality({w \in Workers : ~ At(w, "exited")})

\* A connection whose client is gone leaves the map, provided that a read was
\* begun on it.
PeerCloseNoticed ==
    \A c \in Conns :
      (peer[c] = "closed" /\ m_mpClientSocket[c] # None)
        ~> \/ m_mpClientSocket[c] = None \/ c \in unread
           \/ overtaken \/ stop # "run"

\* Stop comes to an end, good or bad: no worker misses its exit packet.
StopEnds == stop = "list" ~> stop \in {"stopped", "undefined"}

=============================================================================
