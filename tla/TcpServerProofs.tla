-------------------------- MODULE TcpServerProofs ---------------------------
(***************************************************************************)
(* Proofs about TcpServer, for any number of workers, of connections, of   *)
(* contexts and any lengths of the free lists; and, at the end, about the  *)
(* receiver that its workers call, for any number of ports and of packets. *)
(***************************************************************************)
EXTENDS TcpServer, ReceiverPorts, SequenceTheorems, FiniteSetTheorems, FunctionTheorems, TLAPS

\* Types that the next steps of a worker rest on.
Locals(w) ==
    LET r == wk[w] IN
    /\ r.pc \in {"get", "exited"} => r.io = None /\ r.conn = None /\ r.own = None
    /\ r.pc \in {"add", "receive", "deliver", "repost"} => r.io \in IOs /\ r.own \in Conns
    /\ r.pc \in {"add", "receive"} => r.conn = r.own
    /\ r.pc \in {"add", "receive", "erase", "push"} => r.ctx \in Contexts

\* Only an accept that did not succeed is of no connection.
Posted == {p \in Packets : p.k = "IO" =>
             p.conn \in Conns \/ (p.so = "ACCEPT" /\ p.res # "data")}

Typed ==
    /\ TypeOK
    /\ packets \in Seq(Posted)
    /\ \A i \in DOMAIN kernel : kernel[i].so # "ACCEPT" => kernel[i].conn \in Conns
    /\ m_lsFreeSocketContext \in Seq(Contexts) /\ m_lsFreeIOContext \in Seq(IOs)
    /\ \A w \in Workers : Locals(w)
    /\ sender \in [pc : {"idle", "post"}, conn : Conns \cup {None}, ctx : Contexts \cup {None}]
    /\ told \subseteq Conns /\ lost \in Nat
    /\ stop = "list" => iter # 0

\* Where IO_CONTEXTs are.
NoRepeat(s) == \A j, k \in DOMAIN s : s[j] = s[k] => j = k
IOsAt(q) == {j \in DOMAIN q : q[j].k = "IO"}
OnceEach(q) == \A j, k \in IOsAt(q) : q[j].io = q[k].io => j = k
InQueue(q) == {q[j].io : j \in IOsAt(q)}
Free == Elements(m_lsFreeIOContext)
Held == {wk[w].io : w \in Workers} \ {None}
OneHolder == \A v, w \in Workers : wk[v].io = wk[w].io => v = w \/ wk[v].io = None

\* An IO_CONTEXT is in one place, and in no place when there is none.
Owned ==
    /\ NoRepeat(m_lsFreeIOContext) /\ OnceEach(packets) /\ OneHolder
    /\ Free \cap DOMAIN kernel = {} /\ Free \cap InQueue(packets) = {} /\ Free \cap Held = {}
    /\ DOMAIN kernel \cap InQueue(packets) = {} /\ DOMAIN kernel \cap Held = {}
    /\ InQueue(packets) \cap Held = {}
    /\ Free \cup DOMAIN kernel \cup InQueue(packets) \cup Held \subseteq made
    /\ stop # "stopped" => made \subseteq Free \cup DOMAIN kernel \cup InQueue(packets) \cup Held

\* The packets that take part in accepting.
Accepting == {p \in Posted : p = ACCEPT \/ (p.k = "IO" /\ p.so = "ACCEPT")}
Count(q, S) == Cardinality({j \in DOMAIN q : q[j] \in S})
AcceptsUnderWay == {i \in DOMAIN kernel : kernel[i].so = "ACCEPT"}
Counted ==
    /\ IsFiniteSet(DOMAIN kernel)
    /\ stop # "stopped" => Count(packets, Accepting) + Cardinality(AcceptsUnderWay)
                           = AcceptCount - lost

-----------------------------------------------------------------------------
\* The completion of an accept announces a connection, once, and a worker
\* then adds it to the map.
Announces(p, c) == p.k = "IO" /\ p.so = "ACCEPT" /\ p.res = "data" /\ p.conn = c
Waiting(q, c) == \E j \in DOMAIN q : Announces(q[j], c)
Once(q, c) == \A j, k \in DOMAIN q : Announces(q[j], c) /\ Announces(q[k], c) => j = k
Adding(c) == \E w \in Workers : At(w, "add") /\ wk[w].own = c
Arriving(c) == Waiting(packets, c) \/ Adding(c)
ComesOnce ==
    \A c \in Conns :
      /\ sock[c] = "none" => ~ Arriving(c) /\ m_mpClientSocket[c] = None /\ c \notin told
      /\ Arriving(c) => m_mpClientSocket[c] = None /\ c \notin told
      /\ Once(packets, c)
      /\ ~ (Waiting(packets, c) /\ Adding(c))
      /\ \A v, w \in Workers :
           At(v, "add") /\ At(w, "add") /\ wk[v].own = c /\ wk[w].own = c => v = w

\* What is posted before Stop posts its exit packets.
Early(p) == p.k = "DISCONNECT" \/ \E c \in Conns : Announces(p, c)
NoEarly(q) == \A j \in DOMAIN q : ~ Early(q[j])
NoExit(q) == \A j \in DOMAIN q : q[j] # EXIT
InOrder(q) == \A i, j \in DOMAIN q : q[i] = EXIT /\ Early(q[j]) => j < i
ExitsComeLast ==
    /\ m_sockListen => stop = "run"
    /\ stop \in {"run", "list", "wait", "exit"} =>
         NoExit(packets) /\ \A w \in Workers : ~ At(w, "exited")
    /\ InOrder(packets)
    /\ (\E w \in Workers : At(w, "exited")) => NoEarly(packets)
    /\ stop \in {"delete", "stopped"} => \A w \in Workers : At(w, "exited")
    /\ stop = "stopped" => \A c \in Conns : m_mpClientSocket[c] = None

\* A connection Stop has posted a DISCONNECT for leaves the map.
Has(q, p) == \E j \in DOMAIN q : q[j] = p
Leaving(c) == \E w \in Workers : wk[w].pc \in {"find", "erase"} /\ wk[w].conn = c
ToldLeave ==
    \A c \in told : m_mpClientSocket[c] = None \/ Has(packets, DISCONNECT(c)) \/ Leaving(c)

-----------------------------------------------------------------------------
FreeContexts == Elements(m_lsFreeSocketContext)
Served(c) == m_mpClientSocket[c] # None /\ key[c] = m_mpClientSocket[c]
Fresh(c) == key[c] = None /\ c \notin heard

\* While nothing is overtaken: a connection in the map has a SOCKET_CONTEXT of
\* its own, and its socket is open.
ContextsKept ==
    /\ wrong = {}
    /\ NoRepeat(m_lsFreeSocketContext)
    /\ \A x \in FreeContexts : holds[x] # None
    /\ \A c \in Conns :
         /\ m_mpClientSocket[c] # None => /\ holds[m_mpClientSocket[c]] = c
                                          /\ m_mpClientSocket[c] \notin FreeContexts
                                          /\ sock[c] = "open"
         /\ c \in heard => m_mpClientSocket[c] = None \/ Served(c)

\* ... an open one is in the map or on its way to it, and not yet known ...
ArrivalsKept ==
    \A c \in Conns :
      /\ sock[c] = "open" => m_mpClientSocket[c] # None \/ Arriving(c)
      /\ Arriving(c) => sock[c] = "open"
      /\ Arriving(c) \/ sock[c] = "none" => Fresh(c)

\* ... and what has a connection in hand finds it as it was: a worker, ...
Hand(r) ==
    /\ r.pc = "add" => holds[r.ctx] = r.own /\ r.ctx \notin FreeContexts
    /\ r.pc = "receive" => m_mpClientSocket[r.own] = r.ctx /\ key[r.own] = None
    /\ r.pc \in {"deliver", "repost"} => r.conn = r.own /\ Served(r.own)
    /\ r.pc = "find" => /\ r.conn \in Conns
                        /\ r.own # None => r.conn = r.own /\ m_mpClientSocket[r.own] # None
    /\ r.pc = "erase" => /\ r.conn \in Conns /\ m_mpClientSocket[r.conn] = r.ctx
                         /\ r.own \in {None, r.conn}
    /\ r.pc = "push" => /\ r.conn \in Conns /\ m_mpClientSocket[r.conn] = None
                        /\ holds[r.ctx] = r.conn /\ r.ctx \notin FreeContexts
                        /\ sock[r.conn] = "closed"
Starting(w, c) == At(w, "receive") /\ wk[w].own = c
Pushing(w, c) == At(w, "push") /\ wk[w].conn = c
HandsKept ==
    /\ \A w \in Workers : Hand(wk[w])
    /\ \A c \in Conns : \A v, w \in Workers :
         (Starting(v, c) /\ Starting(w, c)) \/ (Pushing(v, c) /\ Pushing(w, c)) => v = w

\* ... a completion, an operation under way and a sender.
Carried(p) == p.k = "IO" /\ p.so # "ACCEPT" /\ p.res # "aborted" => Served(p.conn)
Running(o) == o.so # "ACCEPT" => sock[o.conn] = "closed" \/ Served(o.conn)
OthersKept ==
    /\ \A j \in DOMAIN packets : Carried(packets[j])
    /\ \A i \in DOMAIN kernel : Running(kernel[i])
    /\ sender.pc = "post" => /\ sender.conn \in Conns /\ Served(sender.conn)
                             /\ sender.ctx = m_mpClientSocket[sender.conn]

Kept == ContextsKept /\ ArrivalsKept /\ HandsKept /\ OthersKept
Unmixed == ~ overtaken => Kept

IInv == Typed /\ Owned /\ Counted /\ ComesOnce /\ ExitsComeLast /\ ToldLeave /\ Unmixed

-----------------------------------------------------------------------------
(* Queues and lists.                                                       *)

\* The packet a worker takes, and those behind it.
LEMMA Dequeue ==
    ASSUME NEW S, NEW s \in Seq(S), s # <<>>
    PROVE  /\ Head(s) \in S /\ Tail(s) \in Seq(S)
           /\ Len(Tail(s)) = Len(s) - 1
           /\ 1 \in DOMAIN s /\ s[1] = Head(s)
           /\ \A i \in DOMAIN Tail(s) : /\ i + 1 \in DOMAIN s /\ Tail(s)[i] = s[i + 1]
                                        /\ i + 1 # 1 /\ i \in Int
           /\ \A j \in DOMAIN s \ {1} : /\ j - 1 \in DOMAIN Tail(s) /\ Tail(s)[j - 1] = s[j]
                                        /\ j \in Int
<1>1. /\ Head(s) \in S /\ Tail(s) \in Seq(S) /\ Len(Tail(s)) = Len(s) - 1
      /\ \A i \in 1..Len(Tail(s)) : Tail(s)[i] = s[i + 1]
  BY HeadTailProperties
<1>2. Len(s) \in Nat \ {0} /\ DOMAIN s = 1..Len(s) /\ s[1] = Head(s)
  BY EmptySeq
<1>3. DOMAIN Tail(s) = 1..(Len(s) - 1)
  BY <1>1
<1>4. \A j \in DOMAIN s \ {1} : j - 1 \in 1..(Len(s) - 1) /\ (j - 1) + 1 = j
  BY <1>2
<1> QED BY <1>1, <1>2, <1>3, <1>4

\* A packet that is posted, and a context that is given back.
LEMMA Enqueue ==
    ASSUME NEW S, NEW s \in Seq(S), NEW e \in S
    PROVE  /\ Append(s, e) \in Seq(S)
           /\ Len(Append(s, e)) = Len(s) + 1
           /\ Len(s) + 1 \in DOMAIN Append(s, e) /\ Append(s, e)[Len(s) + 1] = e
           /\ \A i \in DOMAIN s : i \in DOMAIN Append(s, e) /\ Append(s, e)[i] = s[i]
                                  /\ i < Len(s) + 1
           /\ \A i \in DOMAIN Append(s, e) : i \in DOMAIN s \/ i = Len(s) + 1
<1>1. /\ Append(s, e) \in Seq(S) /\ Len(Append(s, e)) = Len(s) + 1
      /\ \A i \in 1..Len(s) : Append(s, e)[i] = s[i]
      /\ Append(s, e)[Len(s) + 1] = e
  BY AppendProperties
<1>2. /\ Len(s) \in Nat /\ DOMAIN s = 1..Len(s)
      /\ DOMAIN Append(s, e) = 1..(Len(s) + 1)
  BY <1>1
<1> QED BY <1>1, <1>2

\* The exit packets behind what is queued.
LEMMA EnqueueExits ==
    ASSUME ServerAssumption, NEW q \in Seq(Posted)
    PROVE  LET e == q \o [i \in 1..Cardinality(Workers) |-> EXIT] IN
           /\ e \in Seq(Posted)
           /\ \A i \in DOMAIN q : i \in DOMAIN e /\ e[i] = q[i]
           /\ \A i \in DOMAIN e \ DOMAIN q : e[i] = EXIT /\ \A j \in DOMAIN q : j < i
<1> DEFINE n == Cardinality(Workers)
           t == [i \in 1..n |-> EXIT]
<1>1. n \in Nat
  BY FS_CardinalityType DEF ServerAssumption
<1> HIDE DEF n
<1>2. EXIT \in Posted
  BY DEF Posted, Packets, EXIT
<1>3. t \in Seq(Posted) /\ Len(t) = n
  BY <1>1, <1>2
<1>4. /\ q \o t \in Seq(Posted) /\ Len(q \o t) = Len(q) + n
      /\ \A i \in 1..Len(q) : (q \o t)[i] = q[i]
      /\ \A i \in (Len(q) + 1)..(Len(q) + n) : (q \o t)[i] = t[i - Len(q)]
  <2>1. /\ q \o t \in Seq(Posted) /\ Len(q \o t) = Len(q) + n
        /\ \A i \in 1..(Len(q) + n) : (q \o t)[i] = IF i <= Len(q) THEN q[i] ELSE t[i - Len(q)]
    BY <1>3, ConcatProperties
  <2> HIDE DEF t
  <2> QED BY <2>1, <1>1
<1>5. Len(q) \in Nat /\ DOMAIN q = 1..Len(q) /\ DOMAIN (q \o t) = 1..(Len(q) + n)
  BY <1>1, <1>4
<1>6. \A i \in DOMAIN (q \o t) \ DOMAIN q : i \in (Len(q) + 1)..(Len(q) + n) /\ i - Len(q) \in 1..n
  BY <1>1, <1>5
<1>7. \A i \in 1..n : t[i] = EXIT
  OBVIOUS
<1> HIDE DEF t
<1>8. \A i \in DOMAIN (q \o t) \ DOMAIN q :
        (q \o t)[i] = EXIT /\ \A j \in DOMAIN q : j < i
  BY <1>4, <1>5, <1>6, <1>7
<1>9. \A i \in DOMAIN q : i \in DOMAIN (q \o t) /\ (q \o t)[i] = q[i]
  BY <1>1, <1>4, <1>5
<1> QED BY <1>4, <1>8, <1>9 DEF n, t

\* The kinds of packets.
LEMMA PacketKinds ==
    ASSUME NEW p \in Posted
    PROVE  /\ p \in Packets
           /\ p = ACCEPT <=> p.k = "ACCEPT"
           /\ p = EXIT <=> p.k = "EXIT"
           /\ p.k = "DISCONNECT" => p.conn \in Conns /\ p = DISCONNECT(p.conn)
           /\ p.k = "IO" => /\ p.io \in IOs /\ p.so \in SO /\ p.conn \in Conns \cup {None}
                            /\ p.res \in {"data", "zero", "error", "aborted"}
           /\ p.k = "IO" => p.conn \in Conns \/ (p.so = "ACCEPT" /\ p.res # "data")
           /\ p.k \in {"ACCEPT", "EXIT", "DISCONNECT", "IO"}
BY DEF Posted, Packets, ACCEPT, EXIT, DISCONNECT

LEMMA QueueTail ==
    ASSUME NEW q \in Seq(Posted), q # <<>>, OnceEach(q)
    PROVE  /\ Head(q) \in Posted /\ Tail(q) \in Seq(Posted) /\ OnceEach(Tail(q))
           /\ Head(q).k = "IO" => /\ InQueue(Tail(q)) = InQueue(q) \ {Head(q).io}
                                  /\ Head(q).io \in InQueue(q)
           /\ Head(q).k # "IO" => InQueue(Tail(q)) = InQueue(q)
<1> DEFINE t == Tail(q)
           h == Head(q)
<1>1. /\ h \in Posted /\ t \in Seq(Posted)
      /\ 1 \in DOMAIN q /\ q[1] = h
      /\ \A i \in DOMAIN t : i + 1 \in DOMAIN q /\ t[i] = q[i + 1] /\ i + 1 # 1 /\ i \in Int
      /\ \A j \in DOMAIN q \ {1} : j - 1 \in DOMAIN t /\ t[j - 1] = q[j] /\ j \in Int
  BY Dequeue
<1> HIDE DEF t, h
<1>2. \A i \in IOsAt(t) : i + 1 \in IOsAt(q) /\ t[i] = q[i + 1] /\ i + 1 # 1 /\ i \in Int
  BY <1>1 DEF IOsAt
<1>3. \A j \in IOsAt(q) \ {1} : j - 1 \in IOsAt(t) /\ t[j - 1] = q[j]
  BY <1>1 DEF IOsAt
<1>4. OnceEach(t)
  <2> SUFFICES ASSUME NEW i \in IOsAt(t), NEW j \in IOsAt(t), t[i].io = t[j].io
               PROVE  i = j
    BY DEF OnceEach
  <2>1. i + 1 = j + 1
    BY <1>2 DEF OnceEach
  <2> QED BY <2>1, <1>2
<1>5. InQueue(t) \subseteq InQueue(q)
  BY <1>2 DEF InQueue
<1>6. \A j \in IOsAt(q) \ {1} : q[j].io \in InQueue(t)
  BY <1>3 DEF InQueue
<1>7. CASE h.k = "IO"
  <2>1. 1 \in IOsAt(q) /\ h.io \in InQueue(q)
    BY <1>1, <1>7 DEF IOsAt, InQueue
  <2>2. h.io \notin InQueue(t)
    BY <2>1, <1>1, <1>2 DEF InQueue, OnceEach
  <2>3. InQueue(q) \subseteq InQueue(t) \cup {h.io}
    BY <1>1, <1>6 DEF InQueue
  <2> QED BY <1>1, <1>4, <1>5, <1>7, <2>1, <2>2, <2>3 DEF h, t
<1>8. CASE h.k # "IO"
  <2>1. 1 \notin IOsAt(q)
    BY <1>1, <1>8 DEF IOsAt
  <2>2. InQueue(q) \subseteq InQueue(t)
    BY <2>1, <1>6 DEF InQueue
  <2> QED BY <1>1, <1>4, <1>5, <1>8, <2>2 DEF h, t
<1> QED BY <1>7, <1>8

LEMMA QueueAppend ==
    ASSUME NEW q \in Seq(Posted), OnceEach(q), NEW p \in Posted,
           p.k = "IO" => p.io \notin InQueue(q)
    PROVE  /\ Append(q, p) \in Seq(Posted) /\ OnceEach(Append(q, p))
           /\ p.k = "IO" => InQueue(Append(q, p)) = InQueue(q) \cup {p.io}
           /\ p.k # "IO" => InQueue(Append(q, p)) = InQueue(q)
<1> DEFINE a == Append(q, p)
           n == Len(q) + 1
<1>1. /\ a \in Seq(Posted) /\ n \in DOMAIN a /\ a[n] = p
      /\ \A i \in DOMAIN q : i \in DOMAIN a /\ a[i] = q[i] /\ i < n
      /\ \A i \in DOMAIN a : i \in DOMAIN q \/ i = n
  BY Enqueue
<1> HIDE DEF a, n
<1>2. \A i \in IOsAt(q) : i \in IOsAt(a) /\ a[i] = q[i]
  BY <1>1 DEF IOsAt
<1>3. \A i \in IOsAt(a) : (i \in IOsAt(q) /\ a[i] = q[i]) \/ (i = n /\ p.k = "IO")
  BY <1>1 DEF IOsAt
<1>4. InQueue(q) \subseteq InQueue(a)
  BY <1>2 DEF InQueue
<1>5. OnceEach(a)
  <2>1. \A i \in IOsAt(q) : q[i].io \in InQueue(q)
    BY DEF InQueue
  <2> QED BY <1>1, <1>3, <2>1, SMTT(30) DEF OnceEach
<1>6. CASE p.k = "IO"
  <2>1. n \in IOsAt(a)
    BY <1>1, <1>6 DEF IOsAt
  <2>2. InQueue(a) = InQueue(q) \cup {p.io}
    BY <2>1, <1>1, <1>3, <1>4 DEF InQueue
  <2> QED BY <1>1, <1>5, <1>6, <2>2 DEF a
<1>7. CASE p.k # "IO"
  <2>1. InQueue(a) = InQueue(q)
    BY <1>7, <1>3, <1>4 DEF InQueue
  <2> QED BY <1>1, <1>5, <1>7, <2>1 DEF a
<1> QED BY <1>6, <1>7

\* A free list after a context was taken from it.
LEMMA ListTail ==
    ASSUME NEW S, NEW s \in Seq(S), s # <<>>, NoRepeat(s)
    PROVE  /\ Head(s) \in S /\ Head(s) \in Elements(s)
           /\ Tail(s) \in Seq(S) /\ NoRepeat(Tail(s)) /\ Len(Tail(s)) < Len(s)
           /\ Elements(Tail(s)) = Elements(s) \ {Head(s)}
<1> DEFINE t == Tail(s)
           h == Head(s)
<1>1. /\ h \in S /\ t \in Seq(S) /\ Len(t) = Len(s) - 1
      /\ 1 \in DOMAIN s /\ s[1] = h
      /\ \A i \in DOMAIN t : i + 1 \in DOMAIN s /\ t[i] = s[i + 1] /\ i + 1 # 1 /\ i \in Int
      /\ \A j \in DOMAIN s \ {1} : j - 1 \in DOMAIN t /\ t[j - 1] = s[j] /\ j \in Int
  BY Dequeue
<1>2. Len(t) < Len(s)
  BY <1>1
<1> HIDE DEF t, h
<1>3. NoRepeat(t)
  <2> SUFFICES ASSUME NEW i \in DOMAIN t, NEW j \in DOMAIN t, t[i] = t[j] PROVE i = j
    BY DEF NoRepeat
  <2>1. i + 1 = j + 1
    BY <1>1 DEF NoRepeat
  <2> QED BY <2>1, <1>1
<1>4. h \in Elements(s) /\ h \notin Elements(t)
  BY <1>1 DEF Elements, NoRepeat
<1>5. Elements(t) \subseteq Elements(s)
  <2> SUFFICES ASSUME NEW i \in DOMAIN t PROVE t[i] \in Elements(s)
    BY Zenon DEF Elements
  <2>1. i + 1 \in DOMAIN s /\ t[i] = s[i + 1]
    BY <1>1
  <2> QED BY <2>1, Zenon DEF Elements
<1>6. Elements(s) \subseteq Elements(t) \cup {h}
  <2> SUFFICES ASSUME NEW j \in DOMAIN s, s[j] # h PROVE s[j] \in Elements(t)
    BY Zenon DEF Elements
  <2>1. j - 1 \in DOMAIN t /\ t[j - 1] = s[j]
    BY <1>1
  <2> QED BY <2>1, Zenon DEF Elements
<1> QED BY <1>1, <1>2, <1>3, <1>4, <1>5, <1>6 DEF t, h

\* AddFreeIOContext and AddFreeSocketContext: nothing comes twice into a list,
\* which stays as short as it has to be.
LEMMA ListPut ==
    ASSUME NEW S, NEW s \in Seq(S), NEW x \in S,
           NEW hold \in Nat, NEW pool \in 0..hold, Len(s) <= hold
    PROVE  LET a == AddFree(s, x, pool, hold) IN
           /\ a \in Seq(S) /\ Len(a) <= hold
           /\ NoRepeat(s) /\ x \notin Elements(s) => NoRepeat(a)
           /\ Elements(a) \subseteq Elements(s) \cup {x}
           /\ Elements(Append(s, x)) = Elements(s) \cup {x}
<1> DEFINE l == Append(s, x)
           n == Len(s) + 1
<1>1. /\ l \in Seq(S) /\ Len(l) = n /\ n \in DOMAIN l /\ l[n] = x
      /\ \A i \in DOMAIN s : i \in DOMAIN l /\ l[i] = s[i] /\ i < n
      /\ \A i \in DOMAIN l : i \in DOMAIN s \/ i = n
  BY Enqueue
<1>2. n \in Nat
  OBVIOUS
<1> HIDE DEF l, n
<1>3. NoRepeat(s) /\ x \notin Elements(s) => NoRepeat(l)
  BY <1>1 DEF NoRepeat, Elements
<1>4. Elements(l) = Elements(s) \cup {x}
  BY <1>1 DEF Elements
<1>5. CASE n <= hold
  <2>1. AddFree(s, x, pool, hold) = l
    BY <1>1, <1>5 DEF AddFree, l
  <2> QED BY <2>1, <1>1, <1>3, <1>4, <1>5 DEF l
<1>6. CASE ~ (n <= hold)
  <2> DEFINE m == n - pool + 1
             b == SubSeq(l, m, n)
  <2>1. AddFree(s, x, pool, hold) = b
    BY <1>1, <1>6 DEF AddFree, l
  <2>2. m \in Int /\ m >= 1 /\ m <= n + 1 /\ n - m + 1 = pool
    BY <1>2, <1>6
  <2>3. DOMAIN l = 1..n
    BY <1>1, <1>2
  <2>4. b \in Seq(S) /\ Len(b) = pool /\ \A i \in 1..pool : b[i] = l[m + i - 1]
    <3>1. \A i \in m..n : l[i] \in S
      BY <1>1, <2>2, <2>3
    <3>2. m \in 1..(Len(l) + 1) /\ n \in m-1..Len(l)
      BY <2>2, <1>1, <1>2
    <3> HIDE DEF m
    <3> QED BY <3>2, <2>2, <1>1, SubSeqProperties
  <2>5. DOMAIN b = 1..pool /\ pool \in Nat
    BY <2>4
  <2> HIDE DEF b
  <2>6. \A i \in 1..pool : m + i - 1 \in DOMAIN l
    BY <2>2, <2>3, <2>5, <1>2
  <2> HIDE DEF m
  <2>7. NoRepeat(l) => NoRepeat(b)
    <3> SUFFICES ASSUME NoRepeat(l), NEW i \in 1..pool, NEW j \in 1..pool, b[i] = b[j]
                 PROVE  i = j
      BY <2>5 DEF NoRepeat
    <3>1. m + i - 1 = m + j - 1
      BY <2>4, <2>6 DEF NoRepeat
    <3> QED BY <3>1, <2>2
  <2>8. Elements(b) \subseteq Elements(l)
    BY <2>4, <2>5, <2>6 DEF Elements
  <2> QED BY <2>1, <2>4, <2>7, <2>8, <1>3, <1>4 DEF l
<1> QED BY <1>5, <1>6, <1>2


-----------------------------------------------------------------------------
(* Counting the packets of a kind.                                         *)

LEMMA CountNat ==
    ASSUME NEW q \in Seq(Posted), NEW S
    PROVE  Count(q, S) \in Nat /\ IsFiniteSet({j \in DOMAIN q : q[j] \in S})
<1>1. DOMAIN q = 1..Len(q) /\ Len(q) \in Nat
  OBVIOUS
<1>2. IsFiniteSet(1..Len(q))
  BY <1>1, FS_Interval
<1>3. {j \in DOMAIN q : q[j] \in S} \subseteq 1..Len(q)
  BY <1>1
<1>4. IsFiniteSet({j \in DOMAIN q : q[j] \in S})
  BY <1>2, <1>3, FS_Subset
<1> QED BY <1>4, FS_CardinalityType DEF Count

LEMMA CountAppend ==
    ASSUME NEW q \in Seq(Posted), NEW p \in Posted, NEW S
    PROVE  Count(Append(q, p), S) = IF p \in S THEN Count(q, S) + 1 ELSE Count(q, S)
<1> DEFINE a == Append(q, p)
           n == Len(q) + 1
           T == {j \in DOMAIN q : q[j] \in S}
<1>1. /\ n \in DOMAIN a /\ a[n] = p
      /\ \A i \in DOMAIN q : i \in DOMAIN a /\ a[i] = q[i] /\ i < n
      /\ \A i \in DOMAIN a : i \in DOMAIN q \/ i = n
  BY Enqueue
<1> HIDE DEF a, n
<1>2. {j \in DOMAIN a : a[j] \in S} = IF p \in S THEN T \cup {n} ELSE T
  BY <1>1
<1>3. n \notin T
  BY <1>1
<1>4. IsFiniteSet(T)
  BY CountNat
<1> HIDE DEF T
<1>5. Cardinality(T \cup {n}) = Cardinality(T) + 1
  BY <1>3, <1>4, FS_AddElement
<1> QED BY <1>2, <1>5 DEF Count, T, a

LEMMA CountTail ==
    ASSUME NEW q \in Seq(Posted), q # <<>>, NEW S
    PROVE  Count(q, S) = IF Head(q) \in S THEN Count(Tail(q), S) + 1 ELSE Count(Tail(q), S)
<1> DEFINE t == Tail(q)
           T == {j \in DOMAIN t : t[j] \in S}
           A == {j \in DOMAIN q : q[j] \in S}
           R == A \ {1}
           f == [i \in T |-> i + 1]
<1>1. /\ t \in Seq(Posted)
      /\ 1 \in DOMAIN q /\ q[1] = Head(q)
      /\ \A i \in DOMAIN t : i + 1 \in DOMAIN q /\ t[i] = q[i + 1] /\ i + 1 # 1 /\ i \in Int
      /\ \A j \in DOMAIN q \ {1} : j - 1 \in DOMAIN t /\ t[j - 1] = q[j] /\ j \in Int
  BY Dequeue
<1>2. IsFiniteSet(T) /\ IsFiniteSet(A) /\ Cardinality(T) \in Nat /\ Cardinality(A) \in Nat
  BY <1>1, CountNat DEF Count
<1> HIDE DEF t
<1>3. \A i \in T : i \in Int /\ i + 1 \in R
  BY <1>1
<1>4. \A j \in R : j \in Int /\ j - 1 \in T
  BY <1>1
<1>5. 1 \in A <=> Head(q) \in S
  BY <1>1
<1> HIDE DEF T, A
<1>6. f \in Bijection(T, R)
  <2> HIDE DEF R
  <2>1. f \in [T -> R]
    BY <1>3
  <2>2. \A i, j \in T : f[i] = f[j] => i = j
    BY <1>3
  <2>3. \A j \in R : \E i \in T : f[i] = j
    <3> TAKE j \in R
    <3>1. j - 1 \in T /\ f[j - 1] = j
      BY <1>4
    <3> QED BY <3>1
  <2> QED BY <2>1, <2>2, <2>3, Fun_IsBij
<1>7. Cardinality(T) = Cardinality(R)
  <2> HIDE DEF f, R
  <2> QED BY <1>2, <1>6, FS_Bijection DEF ExistsBijection
<1>8. Cardinality(A) = IF 1 \in A THEN Cardinality(T) + 1 ELSE Cardinality(T)
  <2>1. 1 \in A => Cardinality(R) = Cardinality(A) - 1
    BY <1>2, FS_RemoveElement
  <2>2. 1 \notin A => R = A
    OBVIOUS
  <2> HIDE DEF R
  <2> QED BY <2>1, <2>2, <1>2, <1>7
<1> QED BY <1>5, <1>8 DEF Count, T, A, t

LEMMA CountExits ==
    ASSUME ServerAssumption, NEW q \in Seq(Posted), NEW S, EXIT \notin S
    PROVE  Count(q \o [i \in 1..Cardinality(Workers) |-> EXIT], S) = Count(q, S)
<1> DEFINE e == q \o [i \in 1..Cardinality(Workers) |-> EXIT]
<1>1. /\ \A i \in DOMAIN q : i \in DOMAIN e /\ e[i] = q[i]
      /\ \A i \in DOMAIN e \ DOMAIN q : e[i] = EXIT
  BY EnqueueExits
<1> HIDE DEF e
<1>2. {j \in DOMAIN e : e[j] \in S} = {j \in DOMAIN q : q[j] \in S}
  BY <1>1
<1> QED BY <1>2 DEF Count, e

-----------------------------------------------------------------------------
(* IO_CONTEXTs taken and given back, and the worker that changes.          *)

\* GetFreeIOContext: the context it returns is nowhere but in the free list.
LEMMA TakeIO ==
    ASSUME ServerAssumption, Typed, Owned, HasIO
    PROVE  /\ GetFreeIOContext \in IOs
           /\ GetFreeIOContext \notin DOMAIN kernel \cup InQueue(packets) \cup Held
           /\ GetFreeIOContext \in Free \/ GetFreeIOContext \notin made
           /\ FreeIOs \in Seq(IOs) /\ NoRepeat(FreeIOs) /\ Len(FreeIOs) <= IOHold
           /\ Elements(FreeIOs) = Free \ {GetFreeIOContext}
<1>1. m_lsFreeIOContext \in Seq(IOs) /\ Len(m_lsFreeIOContext) <= IOHold
      /\ NoRepeat(m_lsFreeIOContext) /\ IOHold \in Nat
  BY DEF Typed, TypeOK, Owned, ServerAssumption
<1>2. CASE m_lsFreeIOContext # <<>>
  <2>1. GetFreeIOContext = Head(m_lsFreeIOContext) /\ FreeIOs = Tail(m_lsFreeIOContext)
    BY <1>2 DEF GetFreeIOContext, FreeIOs
  <2>2. /\ Head(m_lsFreeIOContext) \in IOs /\ Head(m_lsFreeIOContext) \in Free
        /\ FreeIOs \in Seq(IOs) /\ NoRepeat(FreeIOs)
        /\ Len(FreeIOs) < Len(m_lsFreeIOContext)
        /\ Elements(FreeIOs) = Free \ {Head(m_lsFreeIOContext)}
    BY <1>1, <1>2, <2>1, ListTail DEF Free
  <2>3. Len(FreeIOs) \in Nat /\ Len(m_lsFreeIOContext) \in Nat
    BY <1>1, <2>2
  <2>4. Len(FreeIOs) <= IOHold
    BY <1>1, <2>2, <2>3
  <2> QED BY <2>1, <2>2, <2>4 DEF Owned
<1>3. CASE m_lsFreeIOContext = <<>>
  <2>1. GetFreeIOContext = CHOOSE i \in IOs \ made : TRUE
    BY <1>3 DEF GetFreeIOContext
  <2>2. GetFreeIOContext \in IOs \ made
    BY <2>1, <1>3 DEF HasIO
  <2>3. FreeIOs = <<>> /\ Free = {} /\ Elements(FreeIOs) = {}
    BY <1>3 DEF FreeIOs, Free, Elements
  <2>4. FreeIOs \in Seq(IOs) /\ NoRepeat(FreeIOs) /\ Len(FreeIOs) <= IOHold
    BY <1>1, <2>3 DEF NoRepeat
  <2> QED BY <2>2, <2>3, <2>4 DEF Owned
<1> QED BY <1>2, <1>3

\* AddFreeIOContext: the contexts that do not stay in the list are deleted.
LEMMA PutIO ==
    ASSUME ServerAssumption, NEW s \in Seq(IOs), NoRepeat(s), Len(s) <= IOHold,
           NEW i \in IOs, i \notin Elements(s), NEW have, AddFreeIOContext(i, s, have)
    PROVE  /\ m_lsFreeIOContext' \in Seq(IOs) /\ NoRepeat(m_lsFreeIOContext')
           /\ Len(m_lsFreeIOContext') <= IOHold
           /\ Free' \subseteq Elements(s) \cup {i}
           /\ made' = have \ ((Elements(s) \cup {i}) \ Free')
<1>1. IOHold \in Nat /\ IOPool \in 0..IOHold
  BY DEF ServerAssumption
<1>2. m_lsFreeIOContext' = AddFree(s, i, IOPool, IOHold)
      /\ made' = have \ (Elements(Append(s, i)) \ Elements(AddFree(s, i, IOPool, IOHold)))
  BY DEF AddFreeIOContext
<1> QED BY <1>1, <1>2, ListPut DEF Free

\* The worker that takes a step, and the others.
LEMMA Becomes ==
    ASSUME Typed, NEW w \in Workers, NEW r, Become(w, r)
    PROVE  wk'[w] = r /\ \A v \in Workers \ {w} : wk'[v] = wk[v]
BY DEF Become, Typed, TypeOK

LEMMA Goes ==
    ASSUME Typed, NEW w \in Workers, NEW pc, Goto(w, pc)
    PROVE  /\ wk'[w] = [wk[w] EXCEPT !.pc = pc]
           /\ wk'[w].pc = pc /\ wk'[w].io = wk[w].io /\ wk'[w].conn = wk[w].conn
           /\ wk'[w].ctx = wk[w].ctx /\ wk'[w].own = wk[w].own
           /\ \A v \in Workers \ {w} : wk'[v] = wk[v]
BY DEF Goto, Typed, TypeOK

LEMMA HeldSame ==
    ASSUME \A v \in Workers : wk'[v].io = wk[v].io
    PROVE  Held' = Held /\ (OneHolder => OneHolder')
BY DEF Held, OneHolder

LEMMA HeldMore ==
    ASSUME ServerAssumption, OneHolder, NEW w \in Workers, NEW i \in IOs, i \notin Held,
           wk[w].io = None, wk'[w].io = i, \A v \in Workers \ {w} : wk'[v].io = wk[v].io
    PROVE  Held' = Held \cup {i} /\ OneHolder'
<1>1. i # None
  BY DEF ServerAssumption
<1>2. \A v \in Workers : wk[v].io # i
  BY <1>1 DEF Held
<1>3. OneHolder'
  BY <1>2 DEF OneHolder
<1>4. Held' = Held \cup {i}
  BY <1>1 DEF Held
<1> QED BY <1>3, <1>4

LEMMA HeldLess ==
    ASSUME OneHolder, NEW w \in Workers,
           wk'[w].io = None, \A v \in Workers \ {w} : wk'[v].io = wk[v].io
    PROVE  Held' = Held \ {wk[w].io} /\ OneHolder'
<1>1. OneHolder'
  BY DEF OneHolder
<1>2. Held' = Held \ {wk[w].io}
  BY DEF Held, OneHolder
<1> QED BY <1>1, <1>2

\* Operations begun and completed.
LEMMA Puts ==
    ASSUME NEW i, NEW v, kernel' = Put(kernel, i, v)
    PROVE  /\ DOMAIN kernel' = DOMAIN kernel \cup {i}
           /\ kernel'[i] = v /\ \A j \in DOMAIN kernel \ {i} : kernel'[j] = kernel[j]
BY DEF Put

\* The same, seen from the operations under way afterwards.
LEMMA PutsOne ==
    ASSUME NEW i, NEW v, kernel' = Put(kernel, i, v)
    PROVE  \A j \in DOMAIN kernel' : (j \in DOMAIN kernel /\ kernel'[j] = kernel[j]) \/ kernel'[j] = v
<1>1. /\ DOMAIN kernel' = DOMAIN kernel \cup {i} /\ kernel'[i] = v
      /\ \A j \in DOMAIN kernel \ {i} : kernel'[j] = kernel[j]
  BY Puts
<1>2. TAKE j \in DOMAIN kernel'
<1>3. j = i \/ j \in DOMAIN kernel \ {i}
  BY <1>1
<1> QED BY <1>1, <1>3

LEMMA Completes ==
    ASSUME NEW i, NEW c, NEW res, Complete(i, c, res)
    PROVE  /\ packets' = Append(packets, Completion(i, kernel[i].so, c, res))
           /\ DOMAIN kernel' = DOMAIN kernel \ {i}
           /\ \A j \in DOMAIN kernel' : kernel'[j] = kernel[j]
BY DEF Complete, Without

-----------------------------------------------------------------------------
(* Types.                                                                  *)

WorkerStates == [pc : {"get", "add", "receive", "deliver", "repost",
                       "find", "erase", "push", "exited"},
                 io : IOs \cup {None}, conn : Conns \cup {None},
                 ctx : Contexts \cup {None}, own : Conns \cup {None}]
TypedPackets == packets \in Seq(Posted)
TypedWorkers == wk \in [Workers -> WorkerStates] /\ \A w \in Workers : Locals(w)
TypedContexts ==
    /\ m_mpClientSocket \in [Conns -> Contexts \cup {None}]
    /\ m_lsFreeSocketContext \in Seq(Contexts) /\ Len(m_lsFreeSocketContext) <= SocketHold
    /\ holds \in [Contexts -> Conns \cup {None}]
    /\ key \in [Conns -> Contexts \cup {None}]
TypedList == m_lsFreeIOContext \in Seq(IOs) /\ Len(m_lsFreeIOContext) <= IOHold
TypedKernel ==
    /\ made \subseteq IOs /\ DOMAIN kernel \subseteq made
    /\ \A i \in DOMAIN kernel : /\ kernel[i].so \in SO /\ kernel[i].conn \in Conns \cup {None}
                                /\ kernel[i].so # "ACCEPT" => kernel[i].conn \in Conns
TypedNet == /\ m_sockListen \in BOOLEAN
            /\ sock \in [Conns -> {"none", "open", "closed"}]
            /\ peer \in [Conns -> {"none", "open", "closed"}]
TypedProgram ==
    /\ sender \in [pc : {"idle", "post"}, conn : Conns \cup {None}, ctx : Contexts \cup {None}]
    /\ left \in Budget /\ lost \in Nat
TypedStop ==
    /\ stop \in {"run", "list", "wait", "exit", "join", "delete", "stopped", "undefined"}
    /\ iter \in 0..(MaxConns + 1) /\ told \subseteq Conns
    /\ stop = "list" => iter # 0

LEMMA TypedParts ==
    /\ Typed => /\ TypedPackets /\ TypedWorkers /\ TypedContexts /\ TypedList /\ TypedKernel
                /\ TypedNet /\ TypedProgram /\ TypedStop
    /\ TypedPackets /\ TypedWorkers /\ TypedContexts /\ TypedList /\ TypedKernel
       /\ TypedNet /\ TypedProgram /\ TypedStop => Typed
<1> USE DEF TypedPackets, TypedWorkers, TypedContexts, TypedList, TypedKernel, TypedNet,
            TypedProgram, TypedStop, WorkerStates
<1>1. ASSUME Typed
      PROVE  /\ TypedPackets /\ TypedWorkers /\ TypedContexts /\ TypedList /\ TypedKernel
             /\ TypedNet /\ TypedProgram /\ TypedStop
  BY <1>1 DEF Typed, TypeOK
<1>2. ASSUME TypedPackets, TypedWorkers, TypedContexts, TypedList, TypedKernel,
             TypedNet, TypedProgram, TypedStop
      PROVE  Typed
  <2>1. \A i \in DOMAIN packets : packets[i] \in Packets
    BY <1>2 DEF Posted
  <2>2. \A i \in DOMAIN m_lsFreeSocketContext : m_lsFreeSocketContext[i] \in Contexts
    BY <1>2
  <2>3. TypeOK
    BY <1>2, <2>1, <2>2 DEF TypeOK
  <2> QED BY <1>2, <2>3 DEF Typed
<1> QED BY <1>1, <1>2

\* The packet a worker takes from the port.
LEMMA Takes ==
    ASSUME Typed, NEW w \in Workers, Taken(w)
    PROVE  /\ packets \in Seq(Posted) /\ packets # <<>>
           /\ Head(packets) \in Posted /\ Tail(packets) \in Seq(Posted)
           /\ wk[w].pc = "get" /\ wk[w].io = None /\ wk[w].conn = None /\ wk[w].own = None
<1>1. packets \in Seq(Posted) /\ packets # <<>>
  BY DEF Typed, Taken
<1>2. wk[w].pc = "get" /\ wk[w].io = None /\ wk[w].conn = None /\ wk[w].own = None
  BY DEF Typed, Locals, Taken, At
<1> QED BY <1>1, <1>2, Dequeue

LEMMA Answers ==
    /\ ACCEPT \in Posted /\ EXIT \in Posted /\ \A c \in Conns : DISCONNECT(c) \in Posted
    /\ ACCEPT.k = "ACCEPT" /\ EXIT.k = "EXIT"
    /\ \A c \in Conns : DISCONNECT(c).k = "DISCONNECT" /\ DISCONNECT(c).conn = c
    /\ \A i \in IOs, so \in SO, c \in Conns \cup {None}, res \in {"data", "zero", "error", "aborted"} :
         /\ c \in Conns \/ (so = "ACCEPT" /\ res # "data") => Completion(i, so, c, res) \in Posted
         /\ Completion(i, so, c, res).k = "IO" /\ Completion(i, so, c, res).io = i
         /\ Completion(i, so, c, res).so = so /\ Completion(i, so, c, res).conn = c
         /\ Completion(i, so, c, res).res = res
<1>1. /\ ACCEPT \in Posted /\ EXIT \in Posted
      /\ ACCEPT.k = "ACCEPT" /\ EXIT.k = "EXIT"
  BY DEF Posted, Packets, ACCEPT, EXIT
<1>2. \A c \in Conns : /\ DISCONNECT(c) \in Posted /\ DISCONNECT(c).k = "DISCONNECT"
                       /\ DISCONNECT(c).conn = c
  BY DEF Posted, Packets, DISCONNECT
<1>3. ASSUME NEW i \in IOs, NEW so \in SO, NEW c \in Conns \cup {None},
             NEW res \in {"data", "zero", "error", "aborted"}
      PROVE  LET p == Completion(i, so, c, res) IN
             /\ c \in Conns \/ (so = "ACCEPT" /\ res # "data") => p \in Posted
             /\ p.k = "IO" /\ p.io = i /\ p.so = so /\ p.conn = c /\ p.res = res
  <2>1. Completion(i, so, c, res) \in
          [k : {"IO"}, io : IOs, so : SO, conn : Conns \cup {None},
           res : {"data", "zero", "error", "aborted"}]
    BY DEF Completion
  <2>2. LET p == Completion(i, so, c, res) IN
        p.k = "IO" /\ p.io = i /\ p.so = so /\ p.conn = c /\ p.res = res
    BY DEF Completion
  <2> QED BY <2>1, <2>2 DEF Posted, Packets
<1> QED BY <1>1, <1>2, <1>3

\* What reading a SOCKET_CONTEXT gives.
LEMMA Reads ==
    ASSUME Typed, NEW x \in Contexts \cup {None}
    PROVE  Read(x) \subseteq Conns \cup {None}
BY DEF Read, Typed, TypeOK

\* A worker that becomes r has the right types when r has.
LEMMA TypedBecome ==
    ASSUME Typed, NEW w \in Workers, NEW r \in WorkerStates, Become(w, r),
           r.pc \in {"get", "exited"} => r.io = None /\ r.conn = None /\ r.own = None,
           r.pc \in {"add", "receive", "deliver", "repost"} => r.io \in IOs /\ r.own \in Conns,
           r.pc \in {"add", "receive"} => r.conn = r.own,
           r.pc \in {"add", "receive", "erase", "push"} => r.ctx \in Contexts
    PROVE  TypedWorkers'
<1>1. wk' \in [Workers -> WorkerStates]
  BY TypedParts DEF TypedWorkers, Become
<1>2. wk'[w] = r /\ \A v \in Workers \ {w} : wk'[v] = wk[v]
  BY Becomes
<1>3. \A v \in Workers : Locals(v)'
  BY <1>2 DEF Typed, Locals
<1> QED BY <1>1, <1>3 DEF TypedWorkers

\* Conversely, an idle worker.
LEMMA TypedIdle ==
    ASSUME Typed, NEW w \in Workers, Become(w, Idle)
    PROVE  TypedWorkers'
<1>1. Idle \in WorkerStates /\ Idle.pc = "get" /\ Idle.io = None /\ Idle.conn = None
      /\ Idle.own = None
  BY DEF Idle, WorkerStates
<1> QED BY <1>1, TypedBecome

LEMMA TypedGoto ==
    ASSUME Typed, NEW w \in Workers, NEW pc, Goto(w, pc),
           pc \in {"get", "add", "receive", "deliver", "repost", "find", "erase", "push", "exited"},
           pc \in {"get", "exited"} => wk[w].pc = "get",
           pc \in {"add", "receive", "deliver", "repost"} => wk[w].pc \in {"add", "receive", "deliver", "repost"},
           pc \in {"add", "receive"} => wk[w].pc \in {"add", "receive"},
           pc \in {"erase", "push"} => wk[w].pc \in {"erase", "push"}
    PROVE  TypedWorkers'
<1>1. wk[w] \in WorkerStates /\ Locals(w)
  BY TypedParts DEF TypedWorkers
<1>2. wk' \in [Workers -> WorkerStates]
  BY <1>1, TypedParts DEF TypedWorkers, Goto, WorkerStates
<1>3. /\ wk'[w].pc = pc /\ wk'[w].io = wk[w].io /\ wk'[w].conn = wk[w].conn
      /\ wk'[w].ctx = wk[w].ctx /\ wk'[w].own = wk[w].own
      /\ \A v \in Workers \ {w} : wk'[v] = wk[v]
  BY Goes
<1>4. \A v \in Workers : Locals(v)'
  BY <1>1, <1>3 DEF Typed, Locals
<1> QED BY <1>2, <1>4 DEF TypedWorkers

-----------------------------------------------------------------------------
(* Where the IO_CONTEXTs are, step by step.                                *)

IOsKept == Owned /\ TypedList /\ TypedKernel

\* A step that leaves each IO_CONTEXT where it is.
LEMMA OwnedSame ==
    ASSUME Typed, Owned, UNCHANGED <<m_lsFreeIOContext, made, kernel>>,
           OnceEach(packets'), InQueue(packets') = InQueue(packets),
           \A v \in Workers : wk'[v].io = wk[v].io, stop = "stopped" => stop' = "stopped"
    PROVE  IOsKept'
<1>1. Held' = Held /\ OneHolder'
  BY HeldSame DEF Owned
<1>2. Free' = Free
  BY DEF Free
<1>3. Owned'
  BY <1>1, <1>2 DEF Owned
<1>4. TypedList' /\ TypedKernel'
  BY TypedParts DEF TypedList, TypedKernel
<1> QED BY <1>3, <1>4 DEF IOsKept

\* An operation begins with a context of the free list, or a new one.
LEMMA OwnedBegun ==
    ASSUME ServerAssumption, Typed, Owned, NEW so \in SO, NEW c \in Conns \cup {None},
           so # "ACCEPT" => c \in Conns, Begun(so, c),
           OnceEach(packets'), InQueue(packets') = InQueue(packets),
           UNCHANGED <<wk, stop>>
    PROVE  IOsKept'
<1> DEFINE i == GetFreeIOContext
<1>1. HasIO /\ kernel' = Put(kernel, i, [so |-> so, conn |-> c])
      /\ m_lsFreeIOContext' = FreeIOs /\ made' = made \cup {i}
  BY DEF Begun
<1>2. /\ i \in IOs /\ i \notin DOMAIN kernel \cup InQueue(packets) \cup Held
      /\ i \in Free \/ i \notin made
      /\ FreeIOs \in Seq(IOs) /\ NoRepeat(FreeIOs) /\ Len(FreeIOs) <= IOHold
      /\ Elements(FreeIOs) = Free \ {i}
  BY <1>1, TakeIO
<1>3. Held' = Held /\ OneHolder'
  BY HeldSame DEF Owned
<1>4. Free' = Free \ {i}
  BY <1>1, <1>2 DEF Free
<1>5. /\ DOMAIN kernel' = DOMAIN kernel \cup {i}
      /\ kernel'[i] = [so |-> so, conn |-> c]
      /\ \A j \in DOMAIN kernel \ {i} : kernel'[j] = kernel[j]
  BY <1>1, Puts
<1> HIDE DEF i
<1>6. Owned'
  BY <1>1, <1>2, <1>3, <1>4, <1>5 DEF Owned
<1>7. TypedList'
  BY <1>1, <1>2 DEF TypedList
<1>8. TypedKernel'
  BY <1>1, <1>2, <1>5, TypedParts DEF TypedKernel
<1> QED BY <1>6, <1>7, <1>8 DEF IOsKept

\* An operation that could not begin gives its context back.
LEMMA OwnedNotBegun ==
    ASSUME ServerAssumption, Typed, Owned, NotBegun,
           OnceEach(packets'), InQueue(packets') = InQueue(packets),
           UNCHANGED <<wk, stop>>
    PROVE  IOsKept'
<1> DEFINE i == GetFreeIOContext
<1>1. HasIO /\ kernel' = kernel /\ AddFreeIOContext(i, FreeIOs, made \cup {i})
  BY DEF NotBegun
<1>2. /\ i \in IOs /\ i \notin DOMAIN kernel \cup InQueue(packets) \cup Held
      /\ i \in Free \/ i \notin made
      /\ FreeIOs \in Seq(IOs) /\ NoRepeat(FreeIOs) /\ Len(FreeIOs) <= IOHold
      /\ Elements(FreeIOs) = Free \ {i}
  BY <1>1, TakeIO
<1> HIDE DEF i
<1>3. /\ m_lsFreeIOContext' \in Seq(IOs) /\ NoRepeat(m_lsFreeIOContext')
      /\ Len(m_lsFreeIOContext') <= IOHold
      /\ Free' \subseteq Free \cup {i}
      /\ made' = (made \cup {i}) \ ((Free \cup {i}) \ Free')
  <2>1. i \notin Elements(FreeIOs)
    BY <1>2
  <2> QED BY <1>1, <1>2, <2>1, PutIO
<1>4. Held' = Held /\ OneHolder'
  BY HeldSame DEF Owned
<1>5. Owned'
  BY <1>1, <1>2, <1>3, <1>4 DEF Owned
<1>6. TypedList'
  BY <1>3 DEF TypedList
<1>7. TypedKernel'
  BY <1>1, <1>2, <1>3, TypedParts DEF TypedKernel, Owned
<1> QED BY <1>5, <1>6, <1>7 DEF IOsKept

\* The context of a completion goes into the free list.
LEMMA OwnedFreed ==
    ASSUME ServerAssumption, Typed, Owned, NEW i \in InQueue(packets), i \in IOs, FreeIO(i),
           OnceEach(packets'), InQueue(packets') = InQueue(packets) \ {i},
           UNCHANGED <<wk, kernel, stop>>
    PROVE  IOsKept'
<1>1. i # None /\ AddFreeIOContext(i, m_lsFreeIOContext, made)
  BY DEF FreeIO, ServerAssumption
<1>2. m_lsFreeIOContext \in Seq(IOs) /\ NoRepeat(m_lsFreeIOContext)
      /\ Len(m_lsFreeIOContext) <= IOHold /\ i \notin Elements(m_lsFreeIOContext)
  BY TypedParts DEF TypedList, Owned, Free
<1>3. /\ m_lsFreeIOContext' \in Seq(IOs) /\ NoRepeat(m_lsFreeIOContext')
      /\ Len(m_lsFreeIOContext') <= IOHold
      /\ Free' \subseteq Free \cup {i}
      /\ made' = made \ ((Free \cup {i}) \ Free')
  BY <1>1, <1>2, PutIO DEF Free
<1>4. Held' = Held /\ OneHolder'
  BY HeldSame DEF Owned
<1>5. Owned'
  BY <1>3, <1>4 DEF Owned
<1>6. TypedList'
  BY <1>3 DEF TypedList
<1>7. TypedKernel'
  BY <1>3, TypedParts DEF TypedKernel, Owned
<1> QED BY <1>5, <1>6, <1>7 DEF IOsKept

\* The context of a completion is taken by a worker.
LEMMA OwnedTaken ==
    ASSUME ServerAssumption, Typed, Owned, NEW i \in InQueue(packets), i \in IOs,
           NEW w \in Workers, wk[w].io = None, wk'[w].io = i,
           \A v \in Workers \ {w} : wk'[v] = wk[v],
           OnceEach(packets'), InQueue(packets') = InQueue(packets) \ {i},
           UNCHANGED <<kernel, m_lsFreeIOContext, made, stop>>
    PROVE  IOsKept'
<1>1. Held' = Held \cup {i} /\ OneHolder'
  BY HeldMore DEF Owned
<1>2. Free' = Free
  BY DEF Free
<1>3. Owned'
  BY <1>1, <1>2 DEF Owned
<1>4. TypedList' /\ TypedKernel'
  BY TypedParts DEF TypedList, TypedKernel
<1> QED BY <1>3, <1>4 DEF IOsKept

\* A worker begins an operation with the context it has.
LEMMA OwnedPosted ==
    ASSUME Typed, Owned, NEW w \in Workers, wk[w].io \in IOs, wk[w].own \in Conns,
           PostReceive(w), None \notin IOs, UNCHANGED <<packets, stop>>
    PROVE  IOsKept'
<1> DEFINE i == wk[w].io
<1>1. kernel' = Put(kernel, i, [so |-> "READ", conn |-> wk[w].own]) /\ Become(w, Idle)
      /\ UNCHANGED <<m_lsFreeIOContext, made>>
  BY DEF PostReceive, ios
<1>2. wk'[w].io = None /\ \A v \in Workers \ {w} : wk'[v].io = wk[v].io
  BY <1>1, Becomes DEF Idle
<1>3. Held' = Held \ {i} /\ OneHolder'
  BY <1>2, HeldLess DEF Owned
<1>4. i \in Held /\ i \in IOs
  BY DEF Held
<1>5. /\ DOMAIN kernel' = DOMAIN kernel \cup {i}
      /\ kernel'[i] = [so |-> "READ", conn |-> wk[w].own]
      /\ \A j \in DOMAIN kernel \ {i} : kernel'[j] = kernel[j]
  BY <1>1, Puts
<1>6. Free' = Free
  BY <1>1 DEF Free
<1> HIDE DEF i
<1>7. Owned'
  BY <1>1, <1>3, <1>4, <1>5, <1>6 DEF Owned
<1>8. TypedList'
  BY <1>1, TypedParts DEF TypedList
<1>9. TypedKernel'
  BY <1>1, <1>4, <1>5, TypedParts DEF TypedKernel, Owned, SO
<1> QED BY <1>7, <1>8, <1>9 DEF IOsKept

\* A worker ends, and gives the context back it has, if any.
LEMMA OwnedDropped ==
    ASSUME ServerAssumption, Typed, Owned, NEW w \in Workers, FreeIO(wk[w].io),
           Become(w, Idle), UNCHANGED <<packets, kernel, stop>>
    PROVE  IOsKept'
<1> DEFINE i == wk[w].io
<1>1. wk'[w].io = None /\ \A v \in Workers \ {w} : wk'[v].io = wk[v].io
  BY Becomes DEF Idle
<1>2. Held' = Held \ {i} /\ OneHolder'
  BY <1>1, HeldLess DEF Owned
<1>3. i \in IOs \cup {None}
  BY TypedParts DEF TypedWorkers, WorkerStates
<1>4. CASE i = None
  <2>1. UNCHANGED <<m_lsFreeIOContext, made>>
    BY <1>4 DEF FreeIO, ios
  <2>2. \A v \in Workers : wk'[v].io = wk[v].io
    BY <1>1, <1>4
  <2> QED BY <2>1, <2>2, OwnedSame DEF Owned
<1>5. CASE i # None
  <2>1. AddFreeIOContext(i, m_lsFreeIOContext, made) /\ i \in IOs /\ i \in Held
    BY <1>3, <1>5 DEF FreeIO, Held
  <2>2. m_lsFreeIOContext \in Seq(IOs) /\ NoRepeat(m_lsFreeIOContext)
        /\ Len(m_lsFreeIOContext) <= IOHold /\ i \notin Elements(m_lsFreeIOContext)
    BY <2>1, TypedParts DEF TypedList, Owned, Free
  <2>3. /\ m_lsFreeIOContext' \in Seq(IOs) /\ NoRepeat(m_lsFreeIOContext')
        /\ Len(m_lsFreeIOContext') <= IOHold
        /\ Free' \subseteq Free \cup {i}
        /\ made' = made \ ((Free \cup {i}) \ Free')
    BY <2>1, <2>2, PutIO DEF Free
  <2> HIDE DEF i
  <2>4. Owned'
    BY <1>2, <2>1, <2>3 DEF Owned
  <2>5. TypedList'
    BY <2>3 DEF TypedList
  <2>6. TypedKernel'
    BY <2>1, <2>3, TypedParts DEF TypedKernel, Owned
  <2> QED BY <2>4, <2>5, <2>6 DEF IOsKept
<1> QED BY <1>4, <1>5

\* Windows completes an operation.
LEMMA OwnedCompleted ==
    ASSUME ServerAssumption, Typed, Owned, NEW i \in DOMAIN kernel,
           NEW c \in Conns \cup {None}, NEW res \in {"data", "zero", "error", "aborted"},
           c \in Conns \/ (kernel[i].so = "ACCEPT" /\ res # "data"),
           Complete(i, c, res), UNCHANGED <<wk, m_lsFreeIOContext, made, stop>>
    PROVE  IOsKept' /\ TypedPackets' /\ packets' = Append(packets, Completion(i, kernel[i].so, c, res))
<1> DEFINE p == Completion(i, kernel[i].so, c, res)
<1>1. packets' = Append(packets, p) /\ DOMAIN kernel' = DOMAIN kernel \ {i}
      /\ \A j \in DOMAIN kernel' : kernel'[j] = kernel[j]
  BY Completes
<1>2. i \in IOs /\ kernel[i].so \in SO /\ packets \in Seq(Posted)
  BY TypedParts DEF TypedKernel, TypedPackets
<1>3. p \in Posted /\ p.k = "IO" /\ p.io = i
  BY <1>2, Answers
<1> HIDE DEF p
<1>4. packets' \in Seq(Posted) /\ OnceEach(packets') /\ InQueue(packets') = InQueue(packets) \cup {i}
  BY <1>1, <1>2, <1>3, QueueAppend DEF Owned
<1>5. Held' = Held /\ OneHolder'
  BY HeldSame DEF Owned
<1>6. Free' = Free
  BY DEF Free
<1>7. Owned'
  BY <1>1, <1>4, <1>5, <1>6 DEF Owned
<1>8. TypedList'
  BY TypedParts DEF TypedList
<1>9. TypedKernel'
  BY <1>1, TypedParts DEF TypedKernel
<1> QED BY <1>1, <1>4, <1>7, <1>8, <1>9 DEF IOsKept, TypedPackets, p

-----------------------------------------------------------------------------
(* The steps keep the types, and each IO_CONTEXT in its place.             *)

\* A worker takes a completion.
LEMMA GotIO ==
    ASSUME Typed, Owned, NEW w \in Workers, NEW so, NEW res, Got(w, so, res)
    PROVE  LET p == Head(packets) IN
           /\ p \in Posted /\ p.k = "IO" /\ p.so = so /\ p.res \in res /\ p.io \in IOs
           /\ p.conn \in Conns \cup {None}
           /\ p.conn \in Conns \/ (so = "ACCEPT" /\ p.res # "data")
           /\ p.io \in InQueue(packets)
           /\ \A q \in {Tail(packets), AskAccept(Tail(packets))} :
                q \in Seq(Posted) /\ OnceEach(q) /\ InQueue(q) = InQueue(packets) \ {p.io}
<1> DEFINE p == Head(packets)
           t == Tail(packets)
<1>1. Taken(w) /\ p.k = "IO" /\ p.so = so /\ p.res \in res
  BY DEF Got
<1>2. packets \in Seq(Posted) /\ packets # <<>> /\ p \in Posted
  BY <1>1, Takes
<1>3. t \in Seq(Posted) /\ OnceEach(t) /\ InQueue(t) = InQueue(packets) \ {p.io}
      /\ p.io \in InQueue(packets)
  BY <1>1, <1>2, QueueTail DEF Owned
<1> HIDE DEF p, t
<1>4. /\ p.io \in IOs /\ p.conn \in Conns \cup {None}
      /\ p.conn \in Conns \/ (so = "ACCEPT" /\ p.res # "data")
  BY <1>1, <1>2, PacketKinds
<1>5. LET a == AskAccept(t) IN a \in Seq(Posted) /\ OnceEach(a) /\ InQueue(a) = InQueue(t)
  BY <1>3, Answers, QueueAppend DEF AskAccept
<1> QED BY <1>1, <1>2, <1>3, <1>4, <1>5 DEF p, t

LEMMA GotOther ==
    ASSUME Typed, Owned, NEW w \in Workers, Taken(w), Head(packets).k # "IO"
    PROVE  /\ Tail(packets) \in Seq(Posted) /\ OnceEach(Tail(packets))
           /\ InQueue(Tail(packets)) = InQueue(packets)
BY Takes, QueueTail DEF Owned

Basics == Typed /\ Owned

LEMMA BasicsParts ==
    ASSUME IOsKept', TypedPackets', TypedWorkers', TypedContexts', TypedNet', TypedProgram',
           TypedStop'
    PROVE  Basics'
<1>1. (TypedPackets /\ TypedWorkers /\ TypedContexts /\ TypedList /\ TypedKernel
       /\ TypedNet /\ TypedProgram /\ TypedStop => Typed)'
  BY TypedParts, PTL
<1> QED BY <1>1 DEF IOsKept, Basics

\* The parts a step does not touch.
LEMMA TypedRest ==
    ASSUME Typed
    PROVE  /\ UNCHANGED packets => TypedPackets'
           /\ UNCHANGED wk => TypedWorkers'
           /\ UNCHANGED sockets => TypedContexts'
           /\ UNCHANGED net => TypedNet'
           /\ UNCHANGED <<sender, left, lost>> => TypedProgram'
           /\ UNCHANGED stopping => TypedStop'
BY TypedParts DEF TypedPackets, TypedWorkers, Locals, TypedContexts, TypedNet, TypedProgram, TypedStop,
                  sockets, net, stopping

\* A call of Windows that fails leaves the program's types alone.
LEMMA TypedFails ==
    ASSUME Typed, NEW must, Fails(must), UNCHANGED sender, lost' \in {lost, lost + 1}
    PROVE  TypedProgram'
<1>1. left \in Budget /\ lost \in Nat /\ TypedProgram
  BY TypedParts DEF TypedProgram
<1>2. left' \in Budget
  BY <1>1 DEF Fails, Budget, program
<1> QED BY <1>1, <1>2 DEF TypedProgram

LEMMA BasicsGets ==
    ASSUME ServerAssumption, Basics, NEW w \in Workers,
           \/ GetAccept(w) \/ GetDisconnect(w) \/ GetExit(w) \/ AcceptFailed(w)
           \/ OnlyFreeIO(w) \/ GetClosed(w) \/ GetData(w) \/ ProcessAccept(w)
    PROVE  Basics'
<1> USE DEF Basics
<1>1. CASE GetAccept(w)
  <2>1. Taken(w) /\ Head(packets).k # "IO" /\ packets' = Tail(packets)
    BY <1>1, Answers DEF GetAccept
  <2>2. TypedPackets' /\ OnceEach(packets') /\ InQueue(packets') = InQueue(packets)
    BY <2>1, GotOther DEF TypedPackets
  <2>3. TypedWorkers' /\ TypedContexts' /\ TypedNet' /\ TypedStop' /\ UNCHANGED <<wk, stop, sender>>
    BY <1>1, TypedRest DEF GetAccept, stopping
  <2>4. CASE Begun("ACCEPT", None) /\ UNCHANGED <<lost, program>>
    <3>1. IOsKept'
      BY <2>2, <2>3, <2>4, OwnedBegun DEF SO
    <3>2. TypedProgram'
      BY <2>3, <2>4, TypedRest DEF program
    <3> QED BY <2>2, <2>3, <3>1, <3>2, BasicsParts
  <2>5. CASE Fails(~ m_sockListen) /\ NotBegun /\ lost' = lost + 1
    <3>1. IOsKept'
      BY <2>2, <2>3, <2>5, OwnedNotBegun
    <3>2. TypedProgram'
      BY <2>3, <2>5, TypedFails
    <3> QED BY <2>2, <2>3, <3>1, <3>2, BasicsParts
  <2> QED BY <1>1, <2>4, <2>5 DEF GetAccept
<1>2. CASE GetDisconnect(w)
  <2>1. Taken(w) /\ Head(packets).k = "DISCONNECT" /\ packets' = Tail(packets)
        /\ Become(w, [Idle EXCEPT !.pc = "find", !.conn = Head(packets).conn])
    BY <1>2 DEF GetDisconnect
  <2>2. TypedPackets' /\ OnceEach(packets') /\ InQueue(packets') = InQueue(packets)
    BY <2>1, GotOther DEF TypedPackets
  <2>3. Head(packets).conn \in Conns
    BY <2>1, Takes, PacketKinds
  <2> DEFINE r == [Idle EXCEPT !.pc = "find", !.conn = Head(packets).conn]
  <2>4. r \in WorkerStates /\ r.pc = "find" /\ r.io = None
    BY <2>3 DEF WorkerStates, Idle
  <2> HIDE DEF r
  <2>5. TypedWorkers' /\ \A v \in Workers : wk'[v].io = wk[v].io
    <3>1. Become(w, r) /\ wk[w].io = None
      BY <2>1, Takes DEF r
    <3>2. TypedWorkers'
      BY <2>4, <3>1, TypedBecome
    <3>3. wk'[w].io = wk[w].io /\ \A v \in Workers \ {w} : wk'[v] = wk[v]
      BY <2>4, <3>1, Becomes
    <3> QED BY <3>2, <3>3
  <2>6. IOsKept'
    BY <1>2, <2>2, <2>5, OwnedSame DEF GetDisconnect, ios, stopping
  <2>7. TypedContexts' /\ TypedNet' /\ TypedStop' /\ TypedProgram'
    BY <1>2, TypedRest DEF GetDisconnect, program, history
  <2> QED BY <2>2, <2>5, <2>6, <2>7, BasicsParts
<1>3. CASE GetExit(w)
  <2>1. Taken(w) /\ Head(packets).k # "IO" /\ packets' = Tail(packets) /\ Goto(w, "exited")
    BY <1>3, Answers DEF GetExit
  <2>2. TypedPackets' /\ OnceEach(packets') /\ InQueue(packets') = InQueue(packets)
    BY <2>1, GotOther DEF TypedPackets
  <2>3. TypedWorkers' /\ \A v \in Workers : wk'[v].io = wk[v].io
    BY <2>1, Takes, TypedGoto, Goes
  <2>4. IOsKept'
    BY <1>3, <2>2, <2>3, OwnedSame DEF GetExit, ios, stopping
  <2>5. TypedContexts' /\ TypedNet' /\ TypedStop' /\ TypedProgram'
    BY <1>3, TypedRest DEF GetExit, program, history
  <2> QED BY <2>2, <2>3, <2>4, <2>5, BasicsParts
<1>4. CASE AcceptFailed(w)
  <2> DEFINE i == Head(packets).io
  <2>1. /\ i \in IOs /\ i \in InQueue(packets)
        /\ TypedPackets' /\ OnceEach(packets') /\ InQueue(packets') = InQueue(packets) \ {i}
    BY <1>4, GotIO DEF AcceptFailed, TypedPackets
  <2>2. FreeIO(i) /\ UNCHANGED <<wk, kernel, stop>>
    BY <1>4 DEF AcceptFailed, stopping
  <2>3. IOsKept'
    BY <2>1, <2>2, OwnedFreed
  <2>4. TypedWorkers' /\ TypedContexts' /\ TypedNet' /\ TypedStop' /\ TypedProgram'
    BY <1>4, TypedRest DEF AcceptFailed, program, history
  <2> QED BY <2>1, <2>3, <2>4, BasicsParts
<1>5. CASE OnlyFreeIO(w)
  <2> DEFINE i == Head(packets).io
  <2>1. \E so, res : Got(w, so, res)
    BY <1>5 DEF OnlyFreeIO
  <2>2. /\ i \in IOs /\ i \in InQueue(packets)
        /\ TypedPackets' /\ OnceEach(packets') /\ InQueue(packets') = InQueue(packets) \ {i}
    BY <1>5, <2>1, GotIO DEF OnlyFreeIO, TypedPackets
  <2>3. FreeIO(i) /\ UNCHANGED <<wk, kernel, stop>>
    BY <1>5 DEF OnlyFreeIO, stopping
  <2>4. IOsKept'
    BY <2>2, <2>3, OwnedFreed
  <2>5. TypedWorkers' /\ TypedContexts' /\ TypedNet' /\ TypedStop' /\ TypedProgram'
    BY <1>5, TypedRest DEF OnlyFreeIO, program, history
  <2> QED BY <2>2, <2>4, <2>5, BasicsParts
<1>6. ASSUME NEW so \in {"READ", "WRITE"}, NEW res, Got(w, so, res),
             NEW pc \in {"find", "deliver"}, GetIO(w, pc)
      PROVE  Basics'
  <2> DEFINE p == Head(packets)
  <2>1. /\ p.io \in IOs /\ p.io \in InQueue(packets) /\ p.conn \in Conns
        /\ TypedPackets' /\ OnceEach(packets') /\ InQueue(packets') = InQueue(packets) \ {p.io}
    BY <1>6, GotIO DEF GetIO, TypedPackets
  <2> HIDE DEF p
  <2>2. PICK id \in Read(key[p.conn]) :
          Become(w, [Idle EXCEPT !.pc = pc, !.io = p.io, !.conn = id, !.own = p.conn])
    BY <1>6 DEF GetIO, p
  <2>3. id \in Conns \cup {None}
    BY <2>1, <2>2, Reads, TypedParts DEF TypedContexts
  <2> DEFINE r == [Idle EXCEPT !.pc = pc, !.io = p.io, !.conn = id, !.own = p.conn]
  <2>4. r \in WorkerStates /\ r.pc = pc /\ r.io = p.io /\ r.own = p.conn
    BY <2>1, <2>3 DEF WorkerStates, Idle
  <2> HIDE DEF r
  <2>5. /\ TypedWorkers' /\ wk[w].io = None /\ wk'[w].io = p.io
        /\ \A v \in Workers \ {w} : wk'[v] = wk[v]
    BY <1>6, <2>1, <2>2, <2>4, Takes, TypedBecome, Becomes DEF r, Got
  <2>6. IOsKept'
    BY <1>6, <2>1, <2>5, OwnedTaken DEF GetIO, ios, stopping
  <2>7. TypedContexts' /\ TypedNet' /\ TypedStop' /\ TypedProgram'
    BY <1>6, TypedRest DEF GetIO, program, history
  <2> QED BY <2>1, <2>5, <2>6, <2>7, BasicsParts
<1>7. CASE GetClosed(w)
  BY <1>6, <1>7 DEF GetClosed
<1>8. CASE GetData(w)
  BY <1>6, <1>8 DEF GetData
<1>9. CASE ProcessAccept(w)
  <2> DEFINE p == Head(packets)
             x == IF m_lsFreeSocketContext # <<>> THEN Head(m_lsFreeSocketContext)
                  ELSE CHOOSE y \in Contexts : holds[y] = None
  <2>1. /\ p.io \in IOs /\ p.io \in InQueue(packets) /\ p.conn \in Conns
        /\ TypedPackets' /\ OnceEach(packets') /\ InQueue(packets') = InQueue(packets) \ {p.io}
    BY <1>9, GotIO DEF ProcessAccept, TypedPackets
  <2>2. m_lsFreeSocketContext \in Seq(Contexts) /\ Len(m_lsFreeSocketContext) <= SocketHold
        /\ SocketHold \in Nat
    BY TypedParts DEF TypedContexts, ServerAssumption
  <2>3. x \in Contexts
    <3>1. CASE m_lsFreeSocketContext # <<>>
      BY <3>1, <2>2, Dequeue
    <3>2. CASE m_lsFreeSocketContext = <<>>
      BY <3>2, <1>9 DEF ProcessAccept, HasContext
    <3> QED BY <3>1, <3>2
  <2>4. /\ m_lsFreeSocketContext' = IF m_lsFreeSocketContext # <<>>
                                    THEN Tail(m_lsFreeSocketContext) ELSE <<>>
        /\ holds' = Holding(x, p.conn)
        /\ Become(w, [pc |-> "add", io |-> p.io, conn |-> p.conn, ctx |-> x, own |-> p.conn])
        /\ UNCHANGED <<m_mpClientSocket, key>>
    BY <1>9 DEF ProcessAccept
  <2> HIDE DEF p, x
  <2>5. m_lsFreeSocketContext' \in Seq(Contexts) /\ Len(m_lsFreeSocketContext') <= SocketHold
    <3>1. CASE m_lsFreeSocketContext # <<>>
      <4>1. /\ m_lsFreeSocketContext' \in Seq(Contexts)
            /\ Len(m_lsFreeSocketContext') = Len(m_lsFreeSocketContext) - 1
        BY <3>1, <2>2, <2>4, Dequeue
      <4>2. Len(m_lsFreeSocketContext) \in Nat
        BY <2>2
      <4> QED BY <4>1, <4>2, <2>2
    <3>2. CASE m_lsFreeSocketContext = <<>>
      BY <3>2, <2>2, <2>4
    <3> QED BY <3>1, <3>2
  <2>6. TypedContexts'
    BY <2>1, <2>3, <2>4, <2>5, TypedParts DEF TypedContexts, Holding
  <2> DEFINE r == [pc |-> "add", io |-> p.io, conn |-> p.conn, ctx |-> x, own |-> p.conn]
  <2>7. r \in WorkerStates /\ r.pc = "add" /\ r.io = p.io /\ r.own = p.conn /\ r.conn = p.conn
        /\ r.ctx = x
    BY <2>1, <2>3 DEF WorkerStates
  <2> HIDE DEF r
  <2>8. /\ TypedWorkers' /\ wk[w].io = None /\ wk'[w].io = p.io
        /\ \A v \in Workers \ {w} : wk'[v] = wk[v]
    BY <1>9, <2>1, <2>3, <2>4, <2>7, Takes, TypedBecome, Becomes DEF r, Got, ProcessAccept
  <2>9. IOsKept'
    BY <1>9, <2>1, <2>8, OwnedTaken DEF ProcessAccept, ios, stopping
  <2>10. TypedNet' /\ TypedStop' /\ TypedProgram'
    BY <1>9, TypedRest DEF ProcessAccept, program, history
  <2> QED BY <2>1, <2>6, <2>8, <2>9, <2>10, BasicsParts
<1> QED BY <1>1, <1>2, <1>3, <1>4, <1>5, <1>7, <1>8, <1>9

LEMMA BasicsServes ==
    ASSUME ServerAssumption, Basics, NEW w \in Workers,
           \/ AddClientSocket(w) \/ Associate(w) \/ NotAssociated(w) \/ Deliver(w)
           \/ ReceiveAgain(w)
    PROVE  Basics'
<1> USE DEF Basics
<1>1. wk[w] \in WorkerStates /\ Locals(w)
  BY TypedParts DEF TypedWorkers
<1>2. UNCHANGED <<packets, stop, iter, told>> /\ TypedPackets' /\ TypedStop'
      /\ OnceEach(packets') /\ InQueue(packets') = InQueue(packets)
  <2>1. UNCHANGED <<packets, stop, iter, told>>
    BY DEF AddClientSocket, Associate, NotAssociated, Deliver, ReceiveAgain, stopping
  <2> QED BY <2>1, TypedRest DEF stopping, Owned
<1>3. TypedNet'
  <2>1. UNCHANGED net
    BY DEF AddClientSocket, Associate, NotAssociated, Deliver, ReceiveAgain
  <2> QED BY <2>1, TypedRest
<1>4. None \notin IOs
  BY DEF ServerAssumption
<1>5. CASE AddClientSocket(w)
  <2>1. wk[w].pc = "add" /\ wk[w].ctx \in Contexts
    BY <1>1, <1>5 DEF AddClientSocket, At, Locals
  <2>2. TypedContexts'
    BY <1>5, <2>1, TypedParts DEF AddClientSocket, TypedContexts
  <2>3. TypedWorkers' /\ \A v \in Workers : wk'[v].io = wk[v].io
    BY <1>5, <2>1, TypedGoto, Goes DEF AddClientSocket
  <2>4. IOsKept'
    BY <1>2, <1>5, <2>3, OwnedSame DEF AddClientSocket, ios
  <2>5. TypedProgram'
    BY <1>5, TypedRest DEF AddClientSocket, program, history
  <2> QED BY <1>2, <1>3, <2>2, <2>3, <2>4, <2>5, BasicsParts
<1>6. CASE Associate(w)
  <2>1. wk[w].pc = "receive" /\ wk[w].ctx \in Contexts /\ wk[w].io \in IOs /\ wk[w].own \in Conns
    BY <1>1, <1>6 DEF Associate, At, Locals
  <2>2. TypedContexts'
    BY <1>6, <2>1, TypedParts DEF Associate, TypedContexts
  <2>3. CASE PostReceive(w) /\ UNCHANGED <<unread, program>>
    <3>1. TypedWorkers'
      BY <2>3, TypedIdle DEF PostReceive
    <3>2. IOsKept'
      BY <1>2, <1>4, <2>1, <2>3, OwnedPosted
    <3>3. TypedProgram'
      BY <1>6, <2>3, TypedRest DEF Associate, program
    <3> QED BY <1>2, <1>3, <2>2, <3>1, <3>2, <3>3, BasicsParts
  <2>4. CASE Fails(FALSE) /\ FreeIO(wk[w].io) /\ Become(w, Idle) /\ UNCHANGED kernel
    <3>1. TypedWorkers'
      BY <2>4, TypedIdle
    <3>2. IOsKept'
      BY <1>2, <2>4, OwnedDropped
    <3>3. TypedProgram'
      BY <1>6, <2>4, TypedFails DEF Associate
    <3> QED BY <1>2, <1>3, <2>2, <3>1, <3>2, <3>3, BasicsParts
  <2> QED BY <1>6, <2>3, <2>4 DEF Associate
<1>7. CASE NotAssociated(w)
  <2>1. TypedWorkers' /\ \A v \in Workers : wk'[v].io = wk[v].io
    BY <1>7, TypedGoto, Goes DEF NotAssociated
  <2>2. IOsKept'
    BY <1>2, <1>7, <2>1, OwnedSame DEF NotAssociated, ios
  <2>3. TypedProgram'
    BY <1>7, TypedFails DEF NotAssociated, history
  <2>4. TypedContexts'
    BY <1>7, TypedRest DEF NotAssociated
  <2> QED BY <1>2, <1>3, <2>1, <2>2, <2>3, <2>4, BasicsParts
<1>8. CASE Deliver(w)
  <2>1. wk[w].pc = "deliver" /\ Goto(w, "repost")
    BY <1>8 DEF Deliver, At
  <2>2. TypedWorkers' /\ \A v \in Workers : wk'[v].io = wk[v].io
    BY <2>1, TypedGoto, Goes
  <2>3. IOsKept'
    BY <1>2, <1>8, <2>2, OwnedSame DEF Deliver, ios
  <2>4. TypedProgram' /\ TypedContexts'
    BY <1>8, TypedRest DEF Deliver
  <2> QED BY <1>2, <1>3, <2>2, <2>3, <2>4, BasicsParts
<1>9. CASE ReceiveAgain(w)
  <2>1. wk[w].pc = "repost" /\ wk[w].io \in IOs /\ wk[w].own \in Conns
    BY <1>1, <1>9 DEF ReceiveAgain, At, Locals
  <2>2. TypedContexts'
    BY <1>9, TypedRest DEF ReceiveAgain
  <2>3. CASE PostReceive(w) /\ UNCHANGED program
    <3>1. TypedWorkers'
      BY <2>3, TypedIdle DEF PostReceive
    <3>2. IOsKept'
      BY <1>2, <1>4, <2>1, <2>3, OwnedPosted
    <3>3. TypedProgram'
      BY <1>9, <2>3, TypedRest DEF ReceiveAgain, program, history
    <3> QED BY <1>2, <1>3, <2>2, <3>1, <3>2, <3>3, BasicsParts
  <2>4. CASE Fails(sock[wk[w].own] # "open") /\ Goto(w, "find") /\ UNCHANGED <<ios, kernel>>
    <3>1. TypedWorkers' /\ \A v \in Workers : wk'[v].io = wk[v].io
      BY <2>4, TypedGoto, Goes
    <3>2. IOsKept'
      BY <1>2, <2>4, <3>1, OwnedSame DEF ios
    <3>3. TypedProgram'
      BY <1>9, <2>4, TypedFails DEF ReceiveAgain, history
    <3> QED BY <1>2, <1>3, <2>2, <3>1, <3>2, <3>3, BasicsParts
  <2> QED BY <1>9, <2>3, <2>4 DEF ReceiveAgain
<1> QED BY <1>5, <1>6, <1>7, <1>8, <1>9

LEMMA BasicsFrees ==
    ASSUME ServerAssumption, Basics, NEW w \in Workers,
           NotFound(w) \/ FindSocketContext(w) \/ Erase(w) \/ PushFree(w)
    PROVE  Basics'
<1> USE DEF Basics
<1>1. wk[w] \in WorkerStates /\ Locals(w)
  BY TypedParts DEF TypedWorkers
<1>2. UNCHANGED <<packets, stop, iter, told>> /\ TypedPackets' /\ TypedStop'
      /\ OnceEach(packets') /\ InQueue(packets') = InQueue(packets)
  <2>1. UNCHANGED <<packets, stop, iter, told>>
    BY DEF NotFound, FindSocketContext, Erase, PushFree, stopping
  <2> QED BY <2>1, TypedRest DEF stopping, Owned
<1>3. TypedProgram'
  <2>1. UNCHANGED <<sender, left, lost>>
    BY DEF NotFound, FindSocketContext, Erase, PushFree, program, history
  <2> QED BY <2>1, TypedRest
<1>4. CASE NotFound(w)
  <2>1. TypedWorkers'
    BY <1>4, TypedIdle DEF NotFound
  <2>2. IOsKept'
    BY <1>2, <1>4, OwnedDropped DEF NotFound
  <2>3. TypedContexts' /\ TypedNet'
    BY <1>4, TypedRest DEF NotFound
  <2> QED BY <1>2, <1>3, <2>1, <2>2, <2>3, BasicsParts
<1>5. CASE FindSocketContext(w)
  <2> DEFINE x == Lookup(wk[w].conn)
             r == [wk[w] EXCEPT !.pc = "erase", !.ctx = x]
  <2>1. Become(w, r) /\ x # None
    BY <1>5 DEF FindSocketContext
  <2>2. x \in Contexts
    BY <1>1, <2>1, TypedParts DEF Lookup, TypedContexts, WorkerStates
  <2> HIDE DEF x
  <2>3. r \in WorkerStates /\ r.pc = "erase" /\ r.ctx = x /\ r.io = wk[w].io
    BY <1>1, <2>2 DEF WorkerStates
  <2> HIDE DEF r
  <2>4. TypedWorkers' /\ \A v \in Workers : wk'[v].io = wk[v].io
    BY <2>1, <2>2, <2>3, TypedBecome, Becomes
  <2>5. IOsKept'
    BY <1>2, <1>5, <2>4, OwnedSame DEF FindSocketContext, ios
  <2>6. TypedContexts' /\ TypedNet'
    BY <1>5, TypedRest DEF FindSocketContext
  <2> QED BY <1>2, <1>3, <2>4, <2>5, <2>6, BasicsParts
<1>6. CASE Erase(w)
  <2>1. wk[w].pc = "erase" /\ Goto(w, "push")
    BY <1>6 DEF Erase, At
  <2>2. TypedWorkers' /\ \A v \in Workers : wk'[v].io = wk[v].io
    BY <2>1, TypedGoto, Goes
  <2>3. IOsKept'
    BY <1>2, <1>6, <2>2, OwnedSame DEF Erase, ios
  <2>4. TypedContexts'
    BY <1>6, TypedParts DEF Erase, TypedContexts, Erased
  <2>5. TypedNet'
    BY <1>6, TypedParts DEF Erase, TypedNet, Closed
  <2> QED BY <1>2, <1>3, <2>2, <2>3, <2>4, <2>5, BasicsParts
<1>7. CASE PushFree(w)
  <2>1. wk[w].pc = "push" /\ wk[w].ctx \in Contexts
    BY <1>1, <1>7 DEF PushFree, At, Locals
  <2>2. m_lsFreeSocketContext \in Seq(Contexts) /\ Len(m_lsFreeSocketContext) <= SocketHold
        /\ SocketHold \in Nat /\ SocketPool \in 0..SocketHold
    BY TypedParts DEF TypedContexts, ServerAssumption
  <2>3. m_lsFreeSocketContext' \in Seq(Contexts) /\ Len(m_lsFreeSocketContext') <= SocketHold
    BY <1>7, <2>1, <2>2, ListPut DEF PushFree
  <2>4. TypedContexts'
    BY <1>7, <2>3, TypedParts DEF PushFree, TypedContexts
  <2>5. TypedWorkers'
    BY <1>7, TypedIdle DEF PushFree
  <2>6. IOsKept'
    BY <1>2, <1>7, OwnedDropped DEF PushFree
  <2>7. TypedNet'
    BY <1>7, TypedRest DEF PushFree
  <2> QED BY <1>2, <1>3, <2>4, <2>5, <2>6, <2>7, BasicsParts
<1> QED BY <1>4, <1>5, <1>6, <1>7

LEMMA BasicsCalls ==
    ASSUME ServerAssumption, Basics,
           (\E c \in Conns : SendFind(c) \/ Disconnect(c)) \/ SendPost
    PROVE  Basics'
<1> USE DEF Basics
<1>1. ASSUME NEW c \in Conns, SendFind(c) PROVE Basics'
  <2>1. TypedPackets' /\ TypedWorkers' /\ TypedContexts' /\ TypedNet' /\ TypedStop'
    BY <1>1, TypedRest DEF SendFind
  <2>2. IOsKept'
    BY <1>1, OwnedSame DEF SendFind, ios, stopping, Owned
  <2>3. TypedProgram'
    <3>1. left' \in Budget
      BY <1>1, TypedParts DEF SendFind, TypedProgram, Budget
    <3>2. sender' \in [pc : {"idle", "post"}, conn : Conns \cup {None}, ctx : Contexts \cup {None}]
      BY <1>1, TypedParts DEF SendFind, TypedContexts
    <3>3. lost' \in Nat
      BY <1>1, TypedParts DEF SendFind, history, TypedProgram
    <3> QED BY <3>1, <3>2, <3>3 DEF TypedProgram
  <2> QED BY <2>1, <2>2, <2>3, BasicsParts
<1>2. ASSUME NEW c \in Conns, Disconnect(c) PROVE Basics'
  <2>1. packets' = Append(packets, DISCONNECT(c)) /\ UNCHANGED <<wk, kernel, stop, ios>>
    BY <1>2 DEF Disconnect, stopping
  <2>2. packets \in Seq(Posted) /\ OnceEach(packets)
    BY TypedParts DEF TypedPackets, Owned
  <2>3. /\ TypedPackets' /\ OnceEach(packets') /\ InQueue(packets') = InQueue(packets)
    BY <2>1, <2>2, Answers, QueueAppend DEF TypedPackets
  <2>4. IOsKept'
    BY <2>1, <2>3, OwnedSame DEF ios
  <2>5. TypedWorkers' /\ TypedContexts' /\ TypedNet' /\ TypedStop'
    BY <1>2, TypedRest DEF Disconnect
  <2>6. TypedProgram'
    <3>1. left' \in Budget
      <4>1. left \in Budget
        BY TypedParts DEF TypedProgram
      <4>2. left.disconnects > 0 /\ left' = [left EXCEPT !.disconnects = @ - 1]
        BY <1>2 DEF Disconnect
      <4> QED BY <4>1, <4>2 DEF Budget
    <3>2. UNCHANGED <<sender, lost>>
      BY <1>2 DEF Disconnect, history
    <3> QED BY <3>1, <3>2, TypedParts DEF TypedProgram
  <2> QED BY <2>3, <2>4, <2>5, <2>6, BasicsParts
<1>3. CASE SendPost
  <2>1. TypedPackets' /\ TypedWorkers' /\ TypedContexts' /\ TypedNet' /\ TypedStop'
        /\ OnceEach(packets') /\ InQueue(packets') = InQueue(packets) /\ UNCHANGED <<wk, stop>>
    BY <1>3, TypedRest DEF SendPost, Owned, stopping
  <2>2. lost' = lost /\ sender' = NoSend
    BY <1>3 DEF SendPost
  <2>3. sender' \in [pc : {"idle", "post"}, conn : Conns \cup {None}, ctx : Contexts \cup {None}]
    BY <2>2 DEF NoSend
  <2>4. left \in Budget /\ lost \in Nat /\ sender.ctx \in Contexts \cup {None}
    BY TypedParts DEF TypedProgram
  <2>5. PICK s \in Read(sender.ctx) :
           \/ s # None /\ sock[s] = "open" /\ Begun("WRITE", s) /\ UNCHANGED program
           \/ (\E must : Fails(must)) /\ NotBegun
    BY <1>3 DEF SendPost
  <2>6. s \in Conns \cup {None}
    BY <2>4, <2>5, Reads
  <2>7. CASE s # None /\ sock[s] = "open" /\ Begun("WRITE", s) /\ UNCHANGED program
    <3>1. IOsKept'
      BY <2>1, <2>6, <2>7, OwnedBegun DEF SO
    <3>2. TypedProgram'
      BY <2>2, <2>3, <2>4, <2>7 DEF TypedProgram, program
    <3> QED BY <2>1, <3>1, <3>2, BasicsParts
  <2>8. CASE (\E must : Fails(must)) /\ NotBegun
    <3>1. IOsKept'
      BY <2>1, <2>8, OwnedNotBegun
    <3>2. left' \in Budget
      BY <2>4, <2>8 DEF Fails, Budget, program
    <3>3. TypedProgram'
      BY <2>2, <2>3, <2>4, <3>2 DEF TypedProgram
    <3> QED BY <2>1, <3>1, <3>3, BasicsParts
  <2> QED BY <2>5, <2>7, <2>8
<1> QED BY <1>1, <1>2, <1>3

LEMMA BasicsNetwork == ASSUME ServerAssumption, Basics, Network PROVE Basics'
<1> USE DEF Basics
<1>1. ASSUME NEW i \in DOMAIN kernel, NEW c \in Conns \cup {None},
             NEW res \in {"data", "zero", "error", "aborted"},
             c \in Conns \/ (kernel[i].so = "ACCEPT" /\ res # "data"), Complete(i, c, res),
             UNCHANGED <<wk, sockets, ios, stopping>>, TypedNet', TypedProgram'
      PROVE  Basics'
  <2>1. IOsKept' /\ TypedPackets'
    BY <1>1, OwnedCompleted DEF ios, stopping
  <2>2. TypedWorkers' /\ TypedContexts' /\ TypedStop'
    BY <1>1, TypedRest
  <2> QED BY <1>1, <2>1, <2>2, BasicsParts
<1>2. ASSUME NEW i \in DOMAIN kernel, Connect(i) PROVE Basics'
  <2>1. PICK c \in Conns :
          /\ Complete(i, c, "data")
          /\ sock' = [sock EXCEPT ![c] = "open"] /\ peer' = [peer EXCEPT ![c] = "open"]
    BY <1>2 DEF Connect
  <2>2. TypedNet'
    BY <1>2, <2>1, TypedParts DEF Connect, TypedNet
  <2>3. TypedProgram'
    BY <1>2, TypedRest DEF Connect, program, history
  <2> QED BY <1>1, <1>2, <2>1, <2>2, <2>3 DEF Connect
<1>3. ASSUME NEW i \in DOMAIN kernel, AcceptFails(i) PROVE Basics'
  <2>1. TypedNet'
    BY <1>3, TypedRest DEF AcceptFails
  <2>2. TypedProgram'
    BY <1>3, TypedFails DEF AcceptFails, history
  <2> QED BY <1>1, <1>3, <2>1, <2>2 DEF AcceptFails
<1>4. ASSUME NEW i \in DOMAIN kernel, Arrive(i) PROVE Basics'
  <2>1. TypedNet' /\ kernel[i].conn \in Conns
    BY <1>4, TypedRest, TypedParts DEF Arrive, TypedKernel
  <2>2. TypedProgram'
    BY <1>4, TypedParts DEF Arrive, TypedProgram, Budget, history
  <2> QED BY <1>1, <1>4, <2>1, <2>2 DEF Arrive
<1>5. ASSUME NEW i \in DOMAIN kernel, Finish(i) PROVE Basics'
  <2>1. TypedNet' /\ TypedProgram' /\ kernel[i].conn \in Conns
    BY <1>5, TypedRest, TypedParts DEF Finish, TypedKernel, program, history
  <2>2. PICK res \in {"data", "zero", "error", "aborted"} : Complete(i, kernel[i].conn, res)
    BY <1>5 DEF Finish
  <2> QED BY <1>1, <1>5, <2>1, <2>2 DEF Finish
<1>6. ASSUME NEW c \in Conns, PeerCloses(c) PROVE Basics'
  <2>1. TypedPackets' /\ TypedWorkers' /\ TypedContexts' /\ TypedStop'
    BY <1>6, TypedRest DEF PeerCloses
  <2>2. IOsKept'
    BY <1>6, OwnedSame DEF PeerCloses, ios, stopping, Owned
  <2>3. TypedProgram'
    BY <1>6, TypedParts DEF PeerCloses, TypedProgram, Budget, history
  <2>4. TypedNet'
    BY <1>6, TypedParts DEF PeerCloses, TypedNet
  <2> QED BY <2>1, <2>2, <2>3, <2>4, BasicsParts
<1> QED BY <1>2, <1>3, <1>4, <1>5, <1>6 DEF Network

LEMMA BasicsStop == ASSUME ServerAssumption, Basics, StopBegin \/ Stop PROVE Basics'
<1> USE DEF Basics
<1>1. MaxConns \in Nat /\ packets \in Seq(Posted) /\ OnceEach(packets) /\ TypedStop
  BY TypedParts DEF ServerAssumption, TypedPackets, Owned
<1>2. TypedProgram'
  BY TypedRest DEF StopBegin, Stop, StopList, StopWait, StopExit, StopJoin, StopDelete,
                   program, history
<1>3. TypedWorkers' /\ UNCHANGED wk
  BY TypedRest DEF StopBegin, Stop, StopList, StopWait, StopExit, StopJoin, StopDelete
<1>4. ASSUME UNCHANGED <<sockets, ios, kernel>>, TypedPackets', TypedStop', TypedNet',
             OnceEach(packets'), InQueue(packets') = InQueue(packets),
             stop = "stopped" => stop' = "stopped"
      PROVE  Basics'
  <2>1. IOsKept'
    BY <1>3, <1>4, OwnedSame DEF ios
  <2>2. TypedContexts'
    BY <1>4, TypedRest
  <2> QED BY <1>2, <1>3, <1>4, <2>1, <2>2, BasicsParts
<1>5. CASE StopBegin
  <2>1. TypedStop'
    BY <1>1, <1>5 DEF StopBegin, TypedStop, NextKey
  <2>2. TypedPackets' /\ TypedNet'
    BY <1>5, TypedRest, TypedParts DEF StopBegin, TypedNet
  <2> QED BY <1>1, <1>4, <1>5, <2>1, <2>2 DEF StopBegin
<1>6. CASE StopList
  <2>1. CASE packets' = packets /\ stop' \in {"wait", "undefined"} /\ UNCHANGED <<iter, told>>
    <3>1. TypedStop' /\ TypedPackets' /\ TypedNet'
      BY <1>1, <1>6, <2>1, TypedRest DEF StopList, TypedStop
    <3> QED BY <1>1, <1>4, <1>6, <2>1, <3>1 DEF StopList
  <2>2. CASE /\ iter <= MaxConns /\ packets' = Append(packets, DISCONNECT(iter))
             /\ m_mpClientSocket[iter] # None
             /\ told' = told \cup {iter} /\ iter' \in NextKey(iter + 1) /\ UNCHANGED stop
    <3>1. iter \in Conns
      BY <1>1, <1>6, <2>2 DEF StopList, TypedStop, Conns
    <3>2. TypedStop'
      BY <1>1, <2>2, <3>1 DEF TypedStop, NextKey, Conns
    <3>3. TypedPackets' /\ OnceEach(packets') /\ InQueue(packets') = InQueue(packets)
      BY <1>1, <2>2, <3>1, Answers, QueueAppend DEF TypedPackets
    <3>4. TypedNet'
      BY <1>6, TypedRest DEF StopList
    <3> QED BY <1>4, <1>6, <2>2, <3>2, <3>3, <3>4 DEF StopList
  <2> QED BY <1>6, <2>1, <2>2 DEF StopList
<1>7. CASE StopWait \/ StopJoin
  <2>1. TypedStop' /\ TypedPackets' /\ TypedNet' /\ UNCHANGED packets
    BY <1>1, <1>7, TypedRest DEF StopWait, StopJoin, TypedStop
  <2> QED BY <1>1, <1>4, <1>7, <2>1 DEF StopWait, StopJoin
<1>8. CASE StopExit
  <2>1. TypedStop' /\ TypedNet'
    BY <1>1, <1>8, TypedRest DEF StopExit, TypedStop
  <2>2. /\ packets' \in Seq(Posted)
        /\ \A i \in DOMAIN packets : i \in DOMAIN packets' /\ packets'[i] = packets[i]
        /\ \A i \in DOMAIN packets' \ DOMAIN packets : packets'[i] = EXIT
    BY <1>1, <1>8, EnqueueExits DEF StopExit, ExitsLast
  <2>3. IOsAt(packets') = IOsAt(packets)
    BY <2>2, Answers DEF IOsAt
  <2>4. \A i \in IOsAt(packets) : packets'[i] = packets[i]
    BY <2>2 DEF IOsAt
  <2>5. OnceEach(packets') /\ InQueue(packets') = InQueue(packets)
    BY <1>1, <2>3, <2>4 DEF OnceEach, InQueue
  <2> QED BY <1>4, <1>8, <2>1, <2>2, <2>5 DEF StopExit, TypedPackets
<1>9. CASE StopDelete
  <2>1. TypedNet' /\ TypedStop' /\ stop = "delete"
    BY <1>1, <1>9, TypedRest DEF StopDelete, TypedStop
  <2>2. CASE UNCHANGED <<packets, m_lsFreeSocketContext, holds, ios>> /\ stop' = "undefined"
    <3>1. TypedPackets'
      BY <2>2, TypedRest
    <3> QED BY <1>1, <1>4, <1>9, <2>1, <2>2, <3>1 DEF StopDelete, sockets
  <2>3. CASE /\ stop' = "stopped" /\ packets' = <<>> /\ m_lsFreeSocketContext' = <<>>
             /\ holds' = [x \in Contexts |->
                            IF x \in Elements(m_lsFreeSocketContext) THEN None ELSE holds[x]]
             /\ m_lsFreeIOContext' = <<>>
             /\ made' = made \ Elements(m_lsFreeIOContext)
    <3>1. TypedPackets' /\ OnceEach(packets') /\ InQueue(packets') = {}
      BY <2>3 DEF TypedPackets, OnceEach, InQueue, IOsAt
    <3>2. Free' = {} /\ NoRepeat(m_lsFreeIOContext') /\ made' = made \ Free
      BY <2>3 DEF Free, Elements, NoRepeat
    <3>3. TypedList'
      BY <2>3 DEF TypedList, ServerAssumption
    <3>4. Held' = Held /\ OneHolder' /\ UNCHANGED kernel
      BY <1>3, <1>9, HeldSame DEF Owned, StopDelete
    <3>5. Owned'
      BY <2>3, <3>1, <3>2, <3>4 DEF Owned
    <3>6. TypedKernel'
      BY <3>2, <3>4, TypedParts DEF TypedKernel, Owned
    <3>7. TypedContexts'
      BY <1>9, <2>3, TypedParts DEF TypedContexts, StopDelete, ServerAssumption
    <3> QED BY <1>2, <1>3, <2>1, <3>1, <3>3, <3>5, <3>6, <3>7, BasicsParts DEF IOsKept
  <2> QED BY <1>9, <2>2, <2>3 DEF StopDelete
<1> QED BY <1>5, <1>6, <1>7, <1>8, <1>9 DEF Stop

LEMMA BasicsInit == ASSUME ServerAssumption, Init PROVE Basics
<1>1. packets = [i \in 1..AcceptCount |-> ACCEPT] /\ AcceptCount \in Nat
  BY DEF Init, ServerAssumption
<1>2. packets \in Seq(Posted)
  BY <1>1, Answers
<1>3. IOsAt(packets) = {}
  BY <1>1, Answers DEF IOsAt
<1>4. OnceEach(packets) /\ InQueue(packets) = {}
  BY <1>3 DEF OnceEach, InQueue
<1>5. Free = {} /\ Held = {} /\ DOMAIN kernel = {} /\ OneHolder /\ NoRepeat(m_lsFreeIOContext)
  <2>1. DOMAIN kernel = {}
    BY DEF Init
  <2> QED BY <2>1 DEF Init, Free, Elements, Held, Idle, OneHolder, NoRepeat
<1>6. Owned
  BY <1>4, <1>5 DEF Owned, Init
<1>7. TypedPackets /\ TypedContexts /\ TypedList
  BY <1>2 DEF Init, TypedPackets, TypedContexts, TypedList, ServerAssumption
<1>8. TypedWorkers
  BY DEF Init, TypedWorkers, WorkerStates, Idle, Locals
<1>9. TypedKernel
  BY <1>5 DEF Init, TypedKernel
<1>10. TypedNet /\ TypedStop
  BY DEF Init, TypedNet, TypedStop, ServerAssumption
<1>11. TypedProgram
  BY DEF Init, TypedProgram, NoSend, ServerAssumption
<1> QED BY <1>6, <1>7, <1>8, <1>9, <1>10, <1>11, TypedParts DEF Basics

LEMMA BasicsNext == ASSUME ServerAssumption, Basics, [Next]_vars PROVE Basics'
<1>1. CASE UNCHANGED vars
  <2>1. IOsKept'
    BY <1>1, OwnedSame DEF vars, ios, stopping, Owned, Basics
  <2>2. TypedPackets' /\ TypedWorkers' /\ TypedContexts' /\ TypedNet' /\ TypedStop'
        /\ TypedProgram'
    BY <1>1, TypedRest DEF vars, program, history, Basics
  <2> QED BY <2>1, <2>2, BasicsParts
<1>2. ASSUME NEW w \in Workers, Worker(w) PROVE Basics'
  BY <1>2, BasicsGets, BasicsServes, BasicsFrees DEF Worker
<1> QED BY <1>1, <1>2, BasicsCalls, BasicsNetwork, BasicsStop DEF Next

-----------------------------------------------------------------------------
(* OneIOOwner.                                                             *)

LEMMA AtMostOne ==
    ASSUME NEW T, \A j, k \in T : j = k
    PROVE  Cardinality(T) = IF T = {} THEN 0 ELSE 1
<1>1. CASE T = {}
  BY <1>1, FS_EmptySet
<1>2. CASE T # {}
  <2>1. PICK x \in T : T = {x}
    BY <1>2
  <2> QED BY <1>2, <2>1, FS_Singleton
<1> QED BY <1>1, <1>2

\* An IO_CONTEXT is at most once in each of the four kinds of places.
LEMMA PlacesCounted ==
    ASSUME Owned, ServerAssumption, NEW i \in IOs
    PROVE  Places(i) = (IF i \in Free THEN 1 ELSE 0)
                       + (IF i \in DOMAIN kernel THEN 1 ELSE 0)
                       + (IF i \in InQueue(packets) THEN 1 ELSE 0)
                       + (IF i \in Held THEN 1 ELSE 0)
<1> DEFINE L == {j \in DOMAIN m_lsFreeIOContext : m_lsFreeIOContext[j] = i}
           Q == {j \in DOMAIN packets : packets[j].k = "IO" /\ packets[j].io = i}
           W == {w \in Workers : wk[w].io = i}
<1>1. (\A j, k \in L : j = k) /\ (L = {} <=> i \notin Free)
  BY DEF Owned, NoRepeat, Free, Elements
<1>2. (\A j, k \in Q : j = k) /\ (Q = {} <=> i \notin InQueue(packets))
  BY DEF Owned, OnceEach, InQueue, IOsAt
<1>3. (\A j, k \in W : j = k) /\ (W = {} <=> i \notin Held)
  <2>1. i # None
    BY DEF ServerAssumption
  <2> QED BY <2>1 DEF Owned, OneHolder, Held
<1>4. Places(i) = Cardinality(L) + (IF i \in DOMAIN kernel THEN 1 ELSE 0)
                  + Cardinality(Q) + Cardinality(W)
  BY DEF Places
<1> HIDE DEF L, Q, W
<1>5. /\ Cardinality(L) = IF L = {} THEN 0 ELSE 1
      /\ Cardinality(Q) = IF Q = {} THEN 0 ELSE 1
      /\ Cardinality(W) = IF W = {} THEN 0 ELSE 1
  BY <1>1, <1>2, <1>3, AtMostOne
<1> QED BY <1>1, <1>2, <1>3, <1>4, <1>5

LEMMA BasicsOneOwner == ASSUME Basics, ServerAssumption PROVE OneIOOwner
<1> USE DEF Basics
<1>1. TypeOK
  BY DEF Typed
<1>2. ASSUME NEW i \in IOs, stop # "stopped" PROVE Places(i) = IF i \in made THEN 1 ELSE 0
  BY <1>2, PlacesCounted DEF Owned
<1> QED BY <1>1, <1>2 DEF OneIOOwner

\* Each IO_CONTEXT is always in the free list, with Windows, in the queue or
\* with one worker, and never in two of them or none (TcpServer.cpp:672-688,
\* 739-754).
THEOREM AlwaysOneOwner == Spec => []OneIOOwner
<1>1. Init => Basics
  BY BasicsInit, ServerAssumption
<1>2. Basics /\ [Next]_vars => Basics'
  BY BasicsNext, ServerAssumption
<1>3. Basics => OneIOOwner
  BY BasicsOneOwner, ServerAssumption
<1> QED BY <1>1, <1>2, <1>3, PTL DEF Spec

-----------------------------------------------------------------------------
(* AcceptsKept.                                                            *)

\* Accepts under way, when an operation begins and when it completes.
LEMMA UnderWayNat ==
    ASSUME IsFiniteSet(DOMAIN kernel)
    PROVE  IsFiniteSet(AcceptsUnderWay) /\ Cardinality(AcceptsUnderWay) \in Nat
<1>1. AcceptsUnderWay \subseteq DOMAIN kernel
  BY DEF AcceptsUnderWay
<1> QED BY <1>1, FS_Subset, FS_CardinalityType

LEMMA UnderWayPut ==
    ASSUME IsFiniteSet(DOMAIN kernel), NEW i, i \notin DOMAIN kernel, NEW so, NEW c,
           kernel' = Put(kernel, i, [so |-> so, conn |-> c])
    PROVE  /\ IsFiniteSet(DOMAIN kernel')
           /\ Cardinality(AcceptsUnderWay') =
                IF so = "ACCEPT" THEN Cardinality(AcceptsUnderWay) + 1
                ELSE Cardinality(AcceptsUnderWay)
<1>1. /\ DOMAIN kernel' = DOMAIN kernel \cup {i}
      /\ kernel'[i].so = so /\ \A j \in DOMAIN kernel : kernel'[j] = kernel[j]
  BY Puts
<1>2. AcceptsUnderWay' = IF so = "ACCEPT" THEN AcceptsUnderWay \cup {i} ELSE AcceptsUnderWay
  BY <1>1 DEF AcceptsUnderWay
<1>3. i \notin AcceptsUnderWay
  BY DEF AcceptsUnderWay
<1>4. IsFiniteSet(DOMAIN kernel')
  BY <1>1, FS_AddElement
<1>5. Cardinality(AcceptsUnderWay \cup {i}) = Cardinality(AcceptsUnderWay) + 1
  BY <1>3, UnderWayNat, FS_AddElement
<1> QED BY <1>2, <1>4, <1>5

LEMMA UnderWayLess ==
    ASSUME IsFiniteSet(DOMAIN kernel), NEW i \in DOMAIN kernel,
           DOMAIN kernel' = DOMAIN kernel \ {i},
           \A j \in DOMAIN kernel' : kernel'[j] = kernel[j]
    PROVE  /\ IsFiniteSet(DOMAIN kernel')
           /\ Cardinality(AcceptsUnderWay) =
                IF kernel[i].so = "ACCEPT" THEN Cardinality(AcceptsUnderWay') + 1
                ELSE Cardinality(AcceptsUnderWay')
<1>1. AcceptsUnderWay' = IF kernel[i].so = "ACCEPT" THEN AcceptsUnderWay \ {i} ELSE AcceptsUnderWay
  BY DEF AcceptsUnderWay
<1>2. kernel[i].so = "ACCEPT" => i \in AcceptsUnderWay
  BY DEF AcceptsUnderWay
<1>3. IsFiniteSet(DOMAIN kernel')
  BY FS_RemoveElement
<1>4. kernel[i].so = "ACCEPT" =>
        Cardinality(AcceptsUnderWay \ {i}) = Cardinality(AcceptsUnderWay) - 1
  BY <1>2, UnderWayNat, FS_RemoveElement
<1>5. Cardinality(AcceptsUnderWay) \in Nat
  BY UnderWayNat
<1> QED BY <1>1, <1>3, <1>4, <1>5

LEMMA AcceptingKinds ==
    ASSUME NEW p \in Posted
    PROVE  p \in Accepting <=> p.k = "ACCEPT" \/ (p.k = "IO" /\ p.so = "ACCEPT")
BY PacketKinds DEF Accepting

\* Steps that begin and complete nothing.
LEMMA CountedSame ==
    ASSUME Counted, UNCHANGED <<kernel, lost>>, Count(packets', Accepting) = Count(packets, Accepting),
           stop = "stopped" => stop' = "stopped"
    PROVE  Counted'
<1>1. AcceptsUnderWay' = AcceptsUnderWay
  BY DEF AcceptsUnderWay
<1> QED BY <1>1 DEF Counted

LEMMA CountedGets ==
    ASSUME ServerAssumption, Basics, Counted, NEW w \in Workers,
           \/ GetAccept(w) \/ GetDisconnect(w) \/ GetExit(w) \/ AcceptFailed(w)
           \/ OnlyFreeIO(w) \/ GetClosed(w) \/ GetData(w) \/ ProcessAccept(w)
    PROVE  Counted'
<1> USE DEF Basics
<1> DEFINE p == Head(packets)
           t == Tail(packets)
           n(q) == Count(q, Accepting)
<1>1. /\ packets \in Seq(Posted) /\ packets # <<>> /\ p \in Posted /\ t \in Seq(Posted)
  <2>1. Taken(w)
    BY DEF GetAccept, GetDisconnect, GetExit, AcceptFailed, OnlyFreeIO, GetClosed, GetData,
           ProcessAccept, Got
  <2> QED BY <2>1, Takes
<1>2. /\ n(packets) \in Nat /\ n(t) \in Nat
      /\ n(packets) = IF p \in Accepting THEN n(t) + 1 ELSE n(t)
      /\ n(AskAccept(t)) = n(t) + 1
  <2>1. ACCEPT \in Accepting
    BY Answers, AcceptingKinds
  <2>2. n(AskAccept(t)) = n(t) + 1
    BY <1>1, <2>1, Answers, CountAppend DEF AskAccept
  <2>3. n(packets) = IF p \in Accepting THEN n(t) + 1 ELSE n(t)
    BY <1>1, CountTail
  <2>4. n(packets) \in Nat /\ n(t) \in Nat
    BY <1>1, CountNat
  <2> QED BY <2>2, <2>3, <2>4
<1>3. IsFiniteSet(DOMAIN kernel) /\ Cardinality(AcceptsUnderWay) \in Nat
      /\ lost \in Nat /\ AcceptCount \in Nat
  BY UnderWayNat, TypedParts DEF Counted, TypedProgram, ServerAssumption
<1> HIDE DEF n, p, t
<1>4. CASE GetAccept(w)
  <2>1. p \in Accepting /\ packets' = t /\ UNCHANGED stop
    BY <1>1, <1>4, Answers, AcceptingKinds DEF GetAccept, p, t, stopping
  <2>2. CASE Begun("ACCEPT", None) /\ UNCHANGED <<lost, program>>
    <3>1. HasIO /\ kernel' = Put(kernel, GetFreeIOContext, [so |-> "ACCEPT", conn |-> None])
      BY <2>2 DEF Begun
    <3>2. GetFreeIOContext \notin DOMAIN kernel
      BY <3>1, TakeIO
    <3>3. /\ IsFiniteSet(DOMAIN kernel')
          /\ Cardinality(AcceptsUnderWay') = Cardinality(AcceptsUnderWay) + 1
      BY <1>3, <3>1, <3>2, UnderWayPut
    <3> QED BY <1>2, <1>3, <2>1, <2>2, <3>3 DEF Counted, n
  <2>3. CASE NotBegun /\ lost' = lost + 1
    <3>1. UNCHANGED kernel /\ AcceptsUnderWay' = AcceptsUnderWay
      BY <2>3 DEF NotBegun, AcceptsUnderWay
    <3> QED BY <1>2, <1>3, <2>1, <2>3, <3>1 DEF Counted, n
  <2> QED BY <1>4, <2>2, <2>3 DEF GetAccept
<1>5. CASE AcceptFailed(w) \/ ProcessAccept(w)
  <2>1. /\ packets' = AskAccept(t) /\ p.k = "IO" /\ p.so = "ACCEPT"
        /\ UNCHANGED <<kernel, lost, stop>>
    BY <1>5 DEF AcceptFailed, ProcessAccept, Got, p, t, stopping, history
  <2>2. p \in Accepting
    BY <1>1, <2>1, AcceptingKinds
  <2> QED BY <1>2, <2>1, <2>2, CountedSame DEF n
<1>6. CASE GetDisconnect(w) \/ GetExit(w) \/ OnlyFreeIO(w) \/ GetClosed(w) \/ GetData(w)
  <2>1. packets' = t /\ UNCHANGED <<kernel, lost, stop>>
    BY <1>6 DEF GetDisconnect, GetExit, OnlyFreeIO, GetClosed, GetData, GetIO, t, stopping, history
  <2>2. p.k = "DISCONNECT" \/ p.k = "EXIT" \/ (p.k = "IO" /\ p.so # "ACCEPT")
    BY <1>6, Answers DEF GetDisconnect, GetExit, OnlyFreeIO, GetClosed, GetData, Got, p
  <2>3. p \notin Accepting
    BY <1>1, <2>2, AcceptingKinds
  <2> QED BY <1>2, <2>1, <2>3, CountedSame DEF n
<1> QED BY <1>4, <1>5, <1>6

LEMMA CountedServes ==
    ASSUME ServerAssumption, Basics, Counted, NEW w \in Workers,
           \/ AddClientSocket(w) \/ Associate(w) \/ NotAssociated(w) \/ Deliver(w)
           \/ ReceiveAgain(w) \/ NotFound(w) \/ FindSocketContext(w) \/ Erase(w) \/ PushFree(w)
    PROVE  Counted'
<1> USE DEF Basics
<1>1. UNCHANGED <<packets, lost, stop>>
  BY DEF AddClientSocket, Associate, NotAssociated, Deliver, ReceiveAgain, NotFound,
         FindSocketContext, Erase, PushFree, stopping, history
<1>2. CASE kernel' = kernel
  BY <1>1, <1>2, CountedSame
<1>3. CASE PostReceive(w) /\ wk[w].pc \in {"receive", "repost"}
  <2>1. wk[w].io \in IOs
    BY <1>3 DEF Typed, Locals
  <2>2. wk[w].io \in Held
    BY <2>1 DEF Held, ServerAssumption
  <2>3. wk[w].io \notin DOMAIN kernel
    BY <2>2 DEF Owned
  <2>4. /\ IsFiniteSet(DOMAIN kernel')
        /\ Cardinality(AcceptsUnderWay') = Cardinality(AcceptsUnderWay)
    BY <1>3, <2>3, UnderWayPut DEF PostReceive, Counted
  <2> QED BY <1>1, <2>4 DEF Counted
<1> QED
  BY <1>2, <1>3 DEF AddClientSocket, Associate, NotAssociated, Deliver, ReceiveAgain, NotFound,
                    FindSocketContext, Erase, PushFree, At

LEMMA CountedOthers ==
    ASSUME ServerAssumption, Basics, Counted,
           \/ \E c \in Conns : SendFind(c) \/ Disconnect(c)
           \/ SendPost \/ Network \/ StopBegin \/ Stop
    PROVE  Counted'
<1> USE DEF Basics
<1>1. packets \in Seq(Posted) /\ IsFiniteSet(DOMAIN kernel)
      /\ Count(packets, Accepting) \in Nat /\ Cardinality(AcceptsUnderWay) \in Nat
  BY CountNat, UnderWayNat, TypedParts DEF TypedPackets, Counted
<1>2. \A c \in Conns : Count(Append(packets, DISCONNECT(c)), Accepting) = Count(packets, Accepting)
  BY <1>1, Answers, AcceptingKinds, CountAppend
<1>3. CASE \/ \E c \in Conns : SendFind(c) \/ PeerCloses(c)
           \/ StopBegin \/ StopWait \/ StopJoin
  BY <1>3, CountedSame DEF SendFind, PeerCloses, StopBegin, StopWait, StopJoin, history, stopping
<1>4. ASSUME NEW c \in Conns, Disconnect(c) PROVE Counted'
  BY <1>2, <1>4, CountedSame DEF Disconnect, history, stopping
<1>5. CASE SendPost
  <2>1. UNCHANGED <<packets, lost, stop>>
    BY <1>5 DEF SendPost, stopping
  <2>2. ASSUME NEW c, Begun("WRITE", c) PROVE Counted'
    <3>1. HasIO /\ kernel' = Put(kernel, GetFreeIOContext, [so |-> "WRITE", conn |-> c])
      BY <2>2 DEF Begun
    <3>2. GetFreeIOContext \notin DOMAIN kernel
      BY <3>1, TakeIO
    <3>3. /\ IsFiniteSet(DOMAIN kernel')
          /\ Cardinality(AcceptsUnderWay') = Cardinality(AcceptsUnderWay)
      BY <1>1, <3>1, <3>2, UnderWayPut
    <3> QED BY <2>1, <3>3 DEF Counted
  <2>3. CASE NotBegun
    BY <2>1, <2>3, CountedSame DEF NotBegun
  <2> QED BY <1>5, <2>2, <2>3 DEF SendPost
<1>6. ASSUME NEW i \in DOMAIN kernel, NEW c \in Conns \cup {None},
             NEW res \in {"data", "zero", "error", "aborted"},
             c \in Conns \/ (kernel[i].so = "ACCEPT" /\ res # "data"), Complete(i, c, res),
             UNCHANGED <<lost, stop>>
      PROVE  Counted'
  <2> DEFINE p == Completion(i, kernel[i].so, c, res)
  <2>1. packets' = Append(packets, p) /\ DOMAIN kernel' = DOMAIN kernel \ {i}
        /\ \A j \in DOMAIN kernel' : kernel'[j] = kernel[j]
    BY <1>6, Completes
  <2>2. i \in IOs /\ kernel[i].so \in SO
    BY TypedParts DEF TypedKernel
  <2>3. p \in Posted /\ p.k = "IO" /\ p.so = kernel[i].so
    BY <1>6, <2>2, Answers
  <2> HIDE DEF p
  <2>4. p \in Accepting <=> kernel[i].so = "ACCEPT"
    BY <2>3, AcceptingKinds
  <2>5. Count(packets', Accepting) = IF kernel[i].so = "ACCEPT" THEN Count(packets, Accepting) + 1
                                     ELSE Count(packets, Accepting)
    BY <1>1, <2>1, <2>3, <2>4, CountAppend
  <2>6. /\ IsFiniteSet(DOMAIN kernel')
        /\ Cardinality(AcceptsUnderWay) =
             IF kernel[i].so = "ACCEPT" THEN Cardinality(AcceptsUnderWay') + 1
             ELSE Cardinality(AcceptsUnderWay')
    BY <1>1, <2>1, UnderWayLess
  <2>7. Cardinality(AcceptsUnderWay') \in Nat
    <3>1. AcceptsUnderWay' \subseteq DOMAIN kernel'
      BY DEF AcceptsUnderWay
    <3> QED BY <2>6, <3>1, FS_Subset, FS_CardinalityType
  <2> QED BY <1>1, <1>6, <2>5, <2>6, <2>7 DEF Counted
<1>7. ASSUME NEW i \in DOMAIN kernel, Connect(i) \/ AcceptFails(i) \/ Arrive(i) \/ Finish(i)
      PROVE  Counted'
  <2>1. UNCHANGED <<lost, stop>>
    BY <1>7 DEF Connect, AcceptFails, Arrive, Finish, history, stopping
  <2>2. kernel[i].so # "ACCEPT" => kernel[i].conn \in Conns
    BY DEF Typed
  <2> QED BY <1>6, <1>7, <2>1, <2>2 DEF Connect, AcceptFails, Arrive, Finish
<1>8. CASE StopList
  <2>1. CASE packets' = packets
    BY <1>8, <2>1, CountedSame DEF StopList, history
  <2>2. CASE iter <= MaxConns /\ packets' = Append(packets, DISCONNECT(iter))
    <3>1. iter \in Conns
      BY <1>8, <2>2, TypedParts DEF StopList, TypedStop, Conns, ServerAssumption
    <3> QED BY <1>2, <1>8, <2>2, <3>1, CountedSame DEF StopList, history
  <2> QED BY <1>8, <2>1, <2>2 DEF StopList
<1>9. CASE StopExit
  <2>1. EXIT \notin Accepting
    BY Answers, AcceptingKinds
  <2> QED BY <1>1, <1>9, <2>1, CountExits, CountedSame DEF StopExit, ExitsLast, history
<1>10. CASE StopDelete
  <2>1. UNCHANGED kernel /\ (stop' = "stopped" \/ UNCHANGED <<packets, lost>>) /\ stop # "stopped"
    BY <1>10 DEF StopDelete, history
  <2>2. AcceptsUnderWay' = AcceptsUnderWay
    BY <2>1 DEF AcceptsUnderWay
  <2> QED BY <2>1, <2>2 DEF Counted
<1> QED BY <1>3, <1>4, <1>5, <1>7, <1>8, <1>9, <1>10 DEF Network, Stop

LEMMA CountedInit == ASSUME ServerAssumption, Init PROVE Counted
<1>1. packets = [i \in 1..AcceptCount |-> ACCEPT] /\ AcceptCount \in Nat /\ kernel = <<>> /\ lost = 0
  BY DEF Init, ServerAssumption
<1>2. {j \in DOMAIN packets : packets[j] \in Accepting} = 1..AcceptCount
  BY <1>1, Answers, AcceptingKinds
<1>3. Count(packets, Accepting) = AcceptCount
  <2>1. Cardinality(1..AcceptCount) = AcceptCount
    BY <1>1, FS_Interval
  <2> QED BY <1>2, <2>1 DEF Count
<1>4. DOMAIN kernel = {} /\ AcceptsUnderWay = {}
  BY <1>1 DEF AcceptsUnderWay
<1>5. IsFiniteSet(DOMAIN kernel) /\ Cardinality(AcceptsUnderWay) = 0
  BY <1>4, FS_EmptySet
<1> QED BY <1>1, <1>3, <1>5 DEF Counted

LEMMA CountedNext ==
    ASSUME ServerAssumption, Basics, Counted, [Next]_vars
    PROVE  Counted'
<1>1. CASE UNCHANGED vars
  BY <1>1, CountedSame DEF vars, history, stopping
<1>2. ASSUME NEW w \in Workers, Worker(w) PROVE Counted'
  BY <1>2, CountedGets, CountedServes DEF Worker
<1> QED BY <1>1, <1>2, CountedOthers DEF Next

LEMMA CountedAccepts == ASSUME Basics, Counted PROVE AcceptsKept
<1> DEFINE A == {j \in DOMAIN packets : packets[j] = ACCEPT}
           D == {j \in DOMAIN packets : packets[j].k = "IO" /\ packets[j].so = "ACCEPT"}
           B == {j \in DOMAIN packets : packets[j] \in Accepting}
<1>1. packets \in Seq(Posted) /\ IsFiniteSet(B)
  BY CountNat, TypedParts DEF TypedPackets, Basics
<1>2. \A j \in DOMAIN packets : packets[j] \in Posted
  BY <1>1
<1>3. A \cup D = B /\ A \cap D = {}
  BY <1>2, Answers, AcceptingKinds, PacketKinds
<1>4. Count(packets, Accepting) = Cardinality(B)
  BY DEF Count
<1> HIDE DEF A, D, B
<1>5. IsFiniteSet(A) /\ IsFiniteSet(D)
  BY <1>1, <1>3, FS_Subset
<1>6. Cardinality(B) = Cardinality(A) + Cardinality(D)
  <2>1. Cardinality(A \cup D) = Cardinality(A) + Cardinality(D) - Cardinality(A \cap D)
    BY <1>5, FS_Union
  <2> DEFINE C == A \cap D
  <2>2. Cardinality(C) = 0
    <3>1. C = {}
      BY <1>3
    <3> QED BY <3>1, FS_EmptySet
  <2>3. Cardinality(A) \in Nat /\ Cardinality(D) \in Nat
    BY <1>5, FS_CardinalityType
  <2>4. Cardinality(A \cup D) = Cardinality(A) + Cardinality(D)
    BY <2>1, <2>2, <2>3
  <2> QED BY <1>3, <2>4
<1>7. Cardinality(A) \in Nat /\ Cardinality(D) \in Nat
  BY <1>5, FS_CardinalityType
<1> QED BY <1>4, <1>6, <1>7 DEF A, D, AcceptsKept, Counted, AcceptsUnderWay

\* However accepts succeed and fail, as many are asked for, under way or done as
\* in the beginning, but for those that AcceptEx refused (TcpServer.cpp:547-570).
THEOREM AlwaysAcceptsKept == Spec => []AcceptsKept
<1>1. Init => Basics /\ Counted
  BY BasicsInit, CountedInit, ServerAssumption
<1>2. Basics /\ Counted /\ [Next]_vars => Basics' /\ Counted'
  BY BasicsNext, CountedNext, ServerAssumption
<1>3. Basics /\ Counted => AcceptsKept
  BY CountedAccepts
<1> QED BY <1>1, <1>2, <1>3, PTL DEF Spec

-----------------------------------------------------------------------------
(* What is announced in the queue, and what comes before the exits.        *)

\* A packet that is taken: what it announced is announced no more.
LEMMA LaterTail ==
    ASSUME NEW q \in Seq(Posted), q # <<>>
    PROVE  LET t == Tail(q)  h == Head(q) IN
           /\ \A c \in Conns : /\ Waiting(t, c) => Waiting(q, c)
                               /\ Waiting(q, c) => Waiting(t, c) \/ Announces(h, c)
                               /\ Once(q, c) => Once(t, c)
                               /\ Once(q, c) /\ Announces(h, c) => ~ Waiting(t, c)
                               /\ Announces(h, c) => Waiting(q, c)
           /\ InOrder(q) => InOrder(t)
           /\ InOrder(q) /\ h = EXIT => NoEarly(t)
           /\ NoEarly(q) => NoEarly(t)
           /\ NoExit(q) => NoExit(t) /\ h # EXIT
           /\ \A p : Has(q, p) => Has(t, p) \/ p = h
           /\ \A j \in DOMAIN t : \E k \in DOMAIN q : t[j] = q[k]
<1> DEFINE t == Tail(q)
           h == Head(q)
<1>1. /\ t \in Seq(Posted)
      /\ 1 \in DOMAIN q /\ q[1] = h
      /\ \A i \in DOMAIN t : i + 1 \in DOMAIN q /\ t[i] = q[i + 1] /\ i + 1 # 1 /\ i \in Int
      /\ \A j \in DOMAIN q \ {1} : j - 1 \in DOMAIN t /\ t[j - 1] = q[j] /\ j \in Int
  BY Dequeue
<1>0. \A i \in DOMAIN t : i + 1 > 1
  <2>1. DOMAIN t = 1..Len(t) /\ Len(t) \in Nat
    BY <1>1
  <2> QED BY <2>1
<1> HIDE DEF t, h
<1>2. ASSUME NEW c \in Conns
      PROVE  /\ Waiting(t, c) => Waiting(q, c)
             /\ Waiting(q, c) => Waiting(t, c) \/ Announces(h, c)
             /\ Once(q, c) => Once(t, c)
             /\ Once(q, c) /\ Announces(h, c) => ~ Waiting(t, c)
             /\ Announces(h, c) => Waiting(q, c)
  <2>1. Waiting(t, c) => Waiting(q, c)
    BY <1>1 DEF Waiting
  <2>2. Waiting(q, c) => Waiting(t, c) \/ Announces(h, c)
    BY <1>1 DEF Waiting
  <2>3. ASSUME Once(q, c), NEW j \in DOMAIN t, NEW k \in DOMAIN t,
               Announces(t[j], c), Announces(t[k], c)
        PROVE  j = k
    <3>1. j + 1 = k + 1
      BY <2>3, <1>1 DEF Once
    <3> QED BY <3>1, <1>1
  <2>4. Once(q, c) /\ Announces(h, c) => ~ Waiting(t, c)
    BY <1>1 DEF Once, Waiting
  <2>5. Announces(h, c) => Waiting(q, c)
    BY <1>1 DEF Waiting
  <2>6. Once(q, c) => Once(t, c)
    BY <2>3 DEF Once
  <2> QED BY <2>1, <2>2, <2>4, <2>5, <2>6
<1>3. ASSUME InOrder(q), NEW i \in DOMAIN t, NEW j \in DOMAIN t, t[i] = EXIT, Early(t[j])
      PROVE  j < i
  <2>1. j + 1 < i + 1
    BY <1>3, <1>1 DEF InOrder
  <2> QED BY <2>1, <1>1
<1>4. InOrder(q) => InOrder(t)
  BY <1>3 DEF InOrder
<1>5. ASSUME InOrder(q), h = EXIT, NEW j \in DOMAIN t, Early(t[j])
      PROVE  FALSE
  <2>1. j + 1 < 1
    BY <1>5, <1>1 DEF InOrder
  <2> QED BY <2>1, <1>0, <1>1
<1>6. InOrder(q) /\ h = EXIT => NoEarly(t)
  BY <1>5 DEF NoEarly
<1>7. NoEarly(q) => NoEarly(t)
  BY <1>1 DEF NoEarly
<1>8. NoExit(q) => NoExit(t) /\ h # EXIT
  BY <1>1 DEF NoExit
<1>9. \A p : Has(q, p) => Has(t, p) \/ p = h
  BY <1>1 DEF Has
<1>10. \A j \in DOMAIN t : \E k \in DOMAIN q : t[j] = q[k]
  BY <1>1
<1> QED BY <1>2, <1>4, <1>6, <1>7, <1>8, <1>9, <1>10 DEF t, h

\* A packet that is posted.
LEMMA LaterAppend ==
    ASSUME NEW q \in Seq(Posted), NEW p \in Posted, p # EXIT
    PROVE  LET a == Append(q, p) IN
           /\ \A c \in Conns :
                /\ Waiting(a, c) <=> Waiting(q, c) \/ Announces(p, c)
                /\ Once(q, c) /\ ~ (Waiting(q, c) /\ Announces(p, c)) => Once(a, c)
           /\ InOrder(q) /\ (Early(p) => NoExit(q)) => InOrder(a)
           /\ NoEarly(q) /\ ~ Early(p) => NoEarly(a)
           /\ NoExit(q) => NoExit(a)
           /\ \A x : Has(q, x) => Has(a, x)
           /\ Has(a, p)
           /\ \A j \in DOMAIN a : a[j] = p \/ \E k \in DOMAIN q : a[j] = q[k]
<1> DEFINE a == Append(q, p)
           n == Len(q) + 1
<1>1. /\ n \in DOMAIN a /\ a[n] = p
      /\ \A i \in DOMAIN q : i \in DOMAIN a /\ a[i] = q[i] /\ i < n
      /\ \A i \in DOMAIN a : i \in DOMAIN q \/ i = n
  BY Enqueue
<1> HIDE DEF a, n
<1>2. ASSUME NEW c \in Conns
      PROVE  /\ Waiting(a, c) <=> Waiting(q, c) \/ Announces(p, c)
             /\ Once(q, c) /\ ~ (Waiting(q, c) /\ Announces(p, c)) => Once(a, c)
  <2>1. Waiting(a, c) <=> Waiting(q, c) \/ Announces(p, c)
    BY <1>1 DEF Waiting
  <2>2. Once(q, c) /\ ~ (Waiting(q, c) /\ Announces(p, c)) => Once(a, c)
    BY <1>1 DEF Waiting, Once
  <2> QED BY <2>1, <2>2
<1>3. InOrder(q) /\ (Early(p) => NoExit(q)) => InOrder(a)
  BY <1>1 DEF InOrder, NoExit
<1>4. (NoEarly(q) /\ ~ Early(p) => NoEarly(a)) /\ (NoExit(q) => NoExit(a))
  BY <1>1 DEF NoEarly, NoExit
<1>5. (\A x : Has(q, x) => Has(a, x)) /\ Has(a, p)
  BY <1>1 DEF Has
<1>6. \A j \in DOMAIN a : a[j] = p \/ \E k \in DOMAIN q : a[j] = q[k]
  BY <1>1
<1> QED BY <1>2, <1>3, <1>4, <1>5, <1>6 DEF a

\* The kinds of packets that announce nothing.
LEMMA Quiet ==
    /\ ACCEPT # EXIT /\ ~ Early(ACCEPT) /\ ~ Early(EXIT)
    /\ \A c \in Conns : ~ Announces(ACCEPT, c) /\ ~ Announces(EXIT, c)
    /\ \A c, d \in Conns : ~ Announces(DISCONNECT(c), d) /\ DISCONNECT(c) # EXIT
                           /\ DISCONNECT(c) # ACCEPT
    /\ ~ Carried(ACCEPT) => FALSE
BY Answers DEF Early, Announces, Carried

\* The exit packets of Stop.
LEMMA LaterExits ==
    ASSUME ServerAssumption, NEW q \in Seq(Posted)
    PROVE  LET e == q \o [i \in 1..Cardinality(Workers) |-> EXIT] IN
           /\ \A c \in Conns : /\ Waiting(e, c) <=> Waiting(q, c)
                               /\ Once(q, c) => Once(e, c)
           /\ InOrder(q) => InOrder(e)
           /\ NoEarly(q) => NoEarly(e)
           /\ \A x : Has(q, x) => Has(e, x)
           /\ \A j \in DOMAIN e : e[j] = EXIT \/ \E k \in DOMAIN q : e[j] = q[k]
<1> DEFINE e == q \o [i \in 1..Cardinality(Workers) |-> EXIT]
<1>1. /\ \A i \in DOMAIN q : i \in DOMAIN e /\ e[i] = q[i]
      /\ \A i \in DOMAIN e \ DOMAIN q : e[i] = EXIT /\ \A j \in DOMAIN q : j < i
  BY EnqueueExits
<1> HIDE DEF e
<1>2. ASSUME NEW c \in Conns
      PROVE  (Waiting(e, c) <=> Waiting(q, c)) /\ (Once(q, c) => Once(e, c))
  <2>1. \A i \in DOMAIN e : Announces(e[i], c) => i \in DOMAIN q
    BY <1>1, Quiet
  <2> QED BY <2>1, <1>1 DEF Waiting, Once
<1>3. \A i \in DOMAIN e : Early(e[i]) => i \in DOMAIN q
  BY <1>1, Quiet
<1>4. InOrder(q) => InOrder(e)
  BY <1>3, <1>1 DEF InOrder
<1>5. NoEarly(q) => NoEarly(e)
  BY <1>3, <1>1 DEF NoEarly
<1>6. \A x : Has(q, x) => Has(e, x)
  BY <1>1 DEF Has
<1>7. \A j \in DOMAIN e : e[j] = EXIT \/ \E k \in DOMAIN q : e[j] = q[k]
  BY <1>1
<1> QED BY <1>2, <1>4, <1>5, <1>6, <1>7 DEF e

\* What a worker's step may do to the queue, to itself and to the map: all
\* but the two steps that bring a connection into the map.
Dequeues(w) ==
    /\ packets # <<>> /\ At(w, "get")
    /\ packets' \in {Tail(packets), AskAccept(Tail(packets))}
    /\ Head(packets).k = "DISCONNECT" =>
         wk'[w].pc = "find" /\ wk'[w].conn = Head(packets).conn
    /\ Head(packets) = EXIT <=> wk'[w].pc = "exited"
Moves(w) ==
    /\ ~ At(w, "exited")
    /\ \/ packets' = packets /\ wk'[w].pc # "exited"
       \/ Dequeues(w)
    /\ \A v \in Workers \ {w} : wk'[v] = wk[v]
    /\ wk'[w].pc # "add"
    /\ wk[w].pc \in {"find", "erase"} =>
         \/ wk[w].conn = None \/ m_mpClientSocket'[wk[w].conn] = None
         \/ wk'[w].pc \in {"find", "erase"} /\ wk'[w].conn = wk[w].conn
    /\ \A c \in Conns : /\ m_mpClientSocket'[c] \in {m_mpClientSocket[c], None}
                        /\ sock'[c] = "none" => sock[c] = "none"
    /\ UNCHANGED <<stop, told, m_sockListen>>

LEMMA IdleIs == Idle.pc = "get" /\ Idle.io = None /\ Idle.conn = None /\ Idle.own = None
BY DEF Idle

LEMMA WorkerMoves ==
    ASSUME Typed, NEW w \in Workers, Worker(w), ~ ProcessAccept(w), ~ AddClientSocket(w)
    PROVE  Moves(w)
<1> USE DEF sockets, net, stopping, At
<1>1. CASE GetAccept(w)
  <2>1. Dequeues(w) /\ wk' = wk
    BY <1>1, Takes, Answers DEF GetAccept, Dequeues, Taken
  <2> QED BY <2>1, <1>1 DEF GetAccept, Moves, Taken
<1>2. CASE GetDisconnect(w)
  <2>1. wk'[w].pc = "find" /\ wk'[w].conn = Head(packets).conn
        /\ \A v \in Workers \ {w} : wk'[v] = wk[v]
    <3> DEFINE r == [Idle EXCEPT !.pc = "find", !.conn = Head(packets).conn]
    <3>1. r.pc = "find" /\ r.conn = Head(packets).conn
      BY DEF Idle
    <3> HIDE DEF r
    <3>2. Become(w, r)
      BY <1>2 DEF r, GetDisconnect
    <3> QED BY <3>1, <3>2, Becomes
  <2> QED BY <2>1, <1>2, Answers DEF GetDisconnect, Moves, Taken, Dequeues
<1>3. CASE GetExit(w)
  <2>1. wk'[w].pc = "exited" /\ \A v \in Workers \ {w} : wk'[v] = wk[v]
    BY <1>3, Goes DEF GetExit
  <2> QED BY <2>1, <1>3, Answers DEF GetExit, Moves, Taken, Dequeues
<1>4. CASE AcceptFailed(w) \/ OnlyFreeIO(w)
  <2>1. Dequeues(w) /\ wk' = wk /\ UNCHANGED <<stop, told, m_sockListen, m_mpClientSocket, sock>>
    BY <1>4, Answers DEF AcceptFailed, OnlyFreeIO, Dequeues, Taken, Got
  <2> QED BY <2>1, <1>4 DEF Moves, Dequeues
<1>5. CASE GetClosed(w) \/ GetData(w)
  <2>1. PICK id \in Read(key[Head(packets).conn]), pc \in {"find", "deliver", "repost"} :
             Become(w, [Idle EXCEPT !.pc = pc, !.io = Head(packets).io, !.conn = id,
                                    !.own = Head(packets).conn])
    BY <1>5 DEF GetClosed, GetData, GetIO
  <2>2. wk'[w].pc \in {"find", "deliver", "repost"} /\ \A v \in Workers \ {w} : wk'[v] = wk[v]
    <3> DEFINE r == [Idle EXCEPT !.pc = pc, !.io = Head(packets).io, !.conn = id,
                                 !.own = Head(packets).conn]
    <3>1. r.pc = pc
      BY DEF Idle
    <3> HIDE DEF r
    <3>2. Become(w, r)
      BY <2>1 DEF r
    <3> QED BY <3>1, <3>2, Becomes
  <2>3. /\ packets # <<>> /\ packets' = Tail(packets) /\ Head(packets).k = "IO" /\ wk[w].pc = "get"
        /\ UNCHANGED <<stop, told, m_sockListen, m_mpClientSocket, sock>>
    BY <1>5 DEF GetClosed, GetData, GetIO, Got, Taken
  <2> QED BY <2>2, <2>3, Answers DEF Moves, Dequeues
<1>6. CASE Associate(w) \/ NotFound(w) \/ PushFree(w)
  <2>1. wk'[w].pc = "get" /\ \A v \in Workers \ {w} : wk'[v] = wk[v]
    <3>1. Become(w, Idle)
      BY <1>6 DEF Associate, NotFound, PushFree, PostReceive
    <3> QED BY <3>1, Becomes, IdleIs
  <2>2. /\ packets' = packets /\ wk[w].pc \in {"receive", "find", "push"}
        /\ UNCHANGED <<stop, told, m_sockListen, m_mpClientSocket, sock>>
        /\ wk[w].pc = "find" => wk[w].conn = None \/ m_mpClientSocket[wk[w].conn] = None
    BY <1>6 DEF Associate, NotFound, PushFree, Lookup
  <2> QED BY <2>1, <2>2 DEF Moves
<1>7. CASE NotAssociated(w) \/ Deliver(w)
  <2>1. wk'[w].pc \in {"find", "repost"} /\ \A v \in Workers \ {w} : wk'[v] = wk[v]
    BY <1>7, Goes DEF NotAssociated, Deliver
  <2>2. /\ packets' = packets /\ wk[w].pc \in {"receive", "deliver"}
        /\ UNCHANGED <<stop, told, m_sockListen, m_mpClientSocket, sock>>
    BY <1>7 DEF NotAssociated, Deliver
  <2> QED BY <2>1, <2>2 DEF Moves
<1>8. CASE ReceiveAgain(w)
  <2>1. wk'[w].pc \in {"get", "find"} /\ \A v \in Workers \ {w} : wk'[v] = wk[v]
    <3>1. Become(w, Idle) \/ Goto(w, "find")
      BY <1>8 DEF ReceiveAgain, PostReceive
    <3> QED BY <3>1, Goes, Becomes, IdleIs
  <2>2. /\ packets' = packets /\ wk[w].pc = "repost"
        /\ UNCHANGED <<stop, told, m_sockListen, m_mpClientSocket, sock>>
    BY <1>8 DEF ReceiveAgain
  <2> QED BY <2>1, <2>2 DEF Moves
<1>9. CASE FindSocketContext(w)
  <2>1. wk'[w] = [wk[w] EXCEPT !.pc = "erase", !.ctx = Lookup(wk[w].conn)]
        /\ \A v \in Workers \ {w} : wk'[v] = wk[v]
    BY <1>9, Becomes DEF FindSocketContext
  <2>2. wk[w] \in WorkerStates
    BY TypedParts DEF TypedWorkers
  <2>3. wk'[w].pc = "erase" /\ wk'[w].conn = wk[w].conn
    BY <2>1, <2>2 DEF WorkerStates
  <2>4. /\ packets' = packets /\ wk[w].pc = "find"
        /\ UNCHANGED <<stop, told, m_sockListen, m_mpClientSocket, sock>>
    BY <1>9 DEF FindSocketContext
  <2> QED BY <2>1, <2>3, <2>4 DEF Moves
<1>10. CASE Erase(w)
  <2>1. wk'[w].pc = "push" /\ wk'[w].conn = wk[w].conn
        /\ \A v \in Workers \ {w} : wk'[v] = wk[v]
    BY <1>10, Goes DEF Erase
  <2>2. /\ packets' = packets /\ wk[w].pc = "erase" /\ UNCHANGED <<stop, told, m_sockListen>>
        /\ m_mpClientSocket' = [m_mpClientSocket EXCEPT ![wk[w].conn] = None]
        /\ \E s : sock' = Closed(s)
    BY <1>10 DEF Erase, Erased
  <2>3. \A c \in Conns : sock'[c] = "none" => sock[c] = "none"
    BY <2>2 DEF Closed
  <2>4. wk[w].conn \in Conns \cup {None}
        /\ m_mpClientSocket \in [Conns -> Contexts \cup {None}]
    BY TypedParts DEF TypedWorkers, TypedContexts, WorkerStates
  <2>5. \A c \in Conns : m_mpClientSocket'[c] \in {m_mpClientSocket[c], None}
    BY <2>2, <2>4
  <2>6. wk[w].conn = None \/ m_mpClientSocket'[wk[w].conn] = None
    BY <2>2, <2>4
  <2> QED BY <2>1, <2>2, <2>3, <2>5, <2>6 DEF Moves
<1> QED BY <1>1, <1>2, <1>3, <1>4, <1>5, <1>6, <1>7, <1>8, <1>9, <1>10 DEF Worker

-----------------------------------------------------------------------------
(* A connection comes once.                                                *)

LEMMA ComesQuiet ==
    ASSUME ComesOnce,
           \A c \in Conns : /\ Waiting(packets', c) => Waiting(packets, c)
                            /\ Once(packets, c) => Once(packets', c)
                            /\ m_mpClientSocket'[c] \in {m_mpClientSocket[c], None}
                            /\ sock'[c] = "none" => sock[c] = "none"
                            /\ c \in told' => c \in told,
           \A w \in Workers : wk'[w].pc = "add" => wk[w].pc = "add" /\ wk'[w].own = wk[w].own
    PROVE  ComesOnce'
<1> SUFFICES ASSUME NEW c \in Conns
             PROVE  /\ sock'[c] = "none" => /\ ~ Arriving(c)' /\ m_mpClientSocket'[c] = None
                                            /\ c \notin told'
                    /\ Arriving(c)' => m_mpClientSocket'[c] = None /\ c \notin told'
                    /\ Once(packets', c)
                    /\ ~ (Waiting(packets', c) /\ Adding(c)')
                    /\ \A v, w \in Workers :
                         /\ wk'[v].pc = "add" /\ wk'[w].pc = "add"
                         /\ wk'[v].own = c /\ wk'[w].own = c
                         => v = w
  BY DEF ComesOnce, At
<1>1. Adding(c)' => Adding(c)
  BY DEF Adding, At
<1>2. Arriving(c)' => Arriving(c)
  BY <1>1 DEF Arriving
<1>3. \A v, w \in Workers : /\ wk[v].pc = "add" /\ wk[w].pc = "add"
                            /\ wk[v].own = c /\ wk[w].own = c
                            => v = w
  BY DEF ComesOnce, At
<1> QED BY <1>1, <1>2, <1>3 DEF ComesOnce

LEMMA ComesWorker ==
    ASSUME Typed, ComesOnce, NEW w \in Workers, Worker(w)
    PROVE  ComesOnce'
<1>1. CASE Moves(w)
  <2>1. ASSUME NEW c \in Conns
        PROVE  /\ Waiting(packets', c) => Waiting(packets, c)
               /\ Once(packets, c) => Once(packets', c)
    <3>1. CASE packets' = packets
      BY <3>1
    <3>2. CASE Dequeues(w)
      <4>1. packets \in Seq(Posted) /\ packets # <<>>
        BY <3>2 DEF Dequeues, Typed
      <4>2. /\ Tail(packets) \in Seq(Posted)
            /\ Waiting(Tail(packets), c) => Waiting(packets, c)
            /\ Once(packets, c) => Once(Tail(packets), c)
        BY <4>1, LaterTail, Dequeue
      <4>3. /\ Waiting(AskAccept(Tail(packets)), c) => Waiting(packets, c)
            /\ Once(packets, c) => Once(AskAccept(Tail(packets)), c)
        BY <4>2, LaterAppend, Quiet, Answers DEF AskAccept
      <4> QED BY <3>2, <4>2, <4>3 DEF Dequeues
    <3> QED BY <1>1, <3>1, <3>2 DEF Moves
  <2>2. \A v \in Workers : wk'[v].pc = "add" => wk[v].pc = "add" /\ wk'[v].own = wk[v].own
    BY <1>1 DEF Moves
  <2>3. \A c \in Conns : /\ m_mpClientSocket'[c] \in {m_mpClientSocket[c], None}
                         /\ sock'[c] = "none" => sock[c] = "none"
                         /\ c \in told' => c \in told
    BY <1>1 DEF Moves
  <2> QED BY <2>1, <2>2, <2>3, ComesQuiet
<1>2. CASE ProcessAccept(w)
  <2> DEFINE h == Head(packets)
             t == Tail(packets)
  <2>1. /\ packets \in Seq(Posted) /\ packets # <<>> /\ t \in Seq(Posted) /\ h \in Posted
        /\ h.k = "IO" /\ h.so = "ACCEPT" /\ h.res = "data" /\ h.conn \in Conns
    BY <1>2, Takes, PacketKinds DEF ProcessAccept, Got
  <2>2. packets' = AskAccept(t) /\ UNCHANGED <<m_mpClientSocket, sock, told>>
    BY <1>2 DEF ProcessAccept, net, stopping
  <2>3. /\ wk'[w].pc = "add" /\ wk'[w].own = h.conn
        /\ \A v \in Workers \ {w} : wk'[v] = wk[v]
    <3>1. PICK r : r.pc = "add" /\ r.own = h.conn /\ Become(w, r)
      BY <1>2 DEF ProcessAccept
    <3> QED BY <3>1, Becomes
  <2>4. wk[w].pc # "add"
    BY <1>2, Takes DEF ProcessAccept, Got
  <2>5. ASSUME NEW c \in Conns
        PROVE  /\ Waiting(packets', c) => Waiting(packets, c) /\ c # h.conn
               /\ Once(packets', c)
               /\ c = h.conn => Waiting(packets, c)
    <3>1. Once(packets, c)
      BY DEF ComesOnce
    <3>2. c = h.conn <=> Announces(h, c)
      BY <2>1 DEF Announces
    <3>3. /\ Waiting(t, c) => Waiting(packets, c) /\ c # h.conn
          /\ Once(t, c)
          /\ c = h.conn => Waiting(packets, c)
      BY <2>1, <3>1, <3>2, LaterTail
    <3> QED BY <2>1, <2>2, <3>3, LaterAppend, Quiet, Answers DEF AskAccept
  <2> HIDE DEF h, t
  <2> SUFFICES ASSUME NEW c \in Conns
               PROVE  /\ sock'[c] = "none" => /\ ~ Arriving(c)' /\ m_mpClientSocket'[c] = None
                                              /\ c \notin told'
                      /\ Arriving(c)' => m_mpClientSocket'[c] = None /\ c \notin told'
                      /\ Once(packets', c)
                      /\ ~ (Waiting(packets', c) /\ Adding(c)')
                      /\ \A u, v \in Workers :
                           /\ wk'[u].pc = "add" /\ wk'[v].pc = "add"
                           /\ wk'[u].own = c /\ wk'[v].own = c
                           => u = v
    BY DEF ComesOnce, At
  <2>6. Adding(c)' => Adding(c) \/ c = h.conn
    BY <2>3 DEF Adding, At
  <2>7. Arriving(c)' => Arriving(c)
    BY <2>5, <2>6 DEF Arriving
  <2>8. ~ (Waiting(packets', c) /\ Adding(c)')
    BY <2>5, <2>6 DEF ComesOnce
  <2>9. \A v \in Workers \ {w} : wk'[v].pc = "add" /\ wk'[v].own = c => c # h.conn
    BY <2>3, <2>5 DEF ComesOnce, Adding, At
  <2>10. ASSUME NEW u \in Workers, NEW v \in Workers,
                wk'[u].pc = "add", wk'[v].pc = "add", wk'[u].own = c, wk'[v].own = c
         PROVE  u = v
    BY <2>10, <2>3, <2>9 DEF ComesOnce, At
  <2> QED BY <2>2, <2>5, <2>7, <2>8, <2>10 DEF ComesOnce
<1>3. CASE AddClientSocket(w)
  <2>1. /\ wk[w].pc = "add" /\ wk[w].own \in Conns /\ wk[w].conn = wk[w].own
        /\ m_mpClientSocket \in [Conns -> Contexts \cup {None}]
    BY <1>3, TypedParts DEF AddClientSocket, At, TypedWorkers, TypedContexts, Locals
  <2>2. /\ wk'[w].pc = "receive" /\ wk'[w].own = wk[w].own
        /\ \A v \in Workers \ {w} : wk'[v] = wk[v]
    BY <1>3, Goes DEF AddClientSocket
  <2>3. /\ UNCHANGED <<packets, sock, told>>
        /\ \A c \in Conns : m_mpClientSocket'[c] = IF c = wk[w].own THEN wk[w].ctx
                                                   ELSE m_mpClientSocket[c]
    BY <1>3, <2>1 DEF AddClientSocket, net, stopping
  <2> SUFFICES ASSUME NEW c \in Conns
               PROVE  /\ sock'[c] = "none" => /\ ~ Arriving(c)' /\ m_mpClientSocket'[c] = None
                                              /\ c \notin told'
                      /\ Arriving(c)' => m_mpClientSocket'[c] = None /\ c \notin told'
                      /\ Once(packets', c)
                      /\ ~ (Waiting(packets', c) /\ Adding(c)')
                      /\ \A u, v \in Workers :
                           /\ wk'[u].pc = "add" /\ wk'[v].pc = "add"
                           /\ wk'[u].own = c /\ wk'[v].own = c
                           => u = v
    BY DEF ComesOnce, At
  <2>4. \A v \in Workers : wk'[v].pc = "add" => wk[v].pc = "add" /\ wk'[v].own = wk[v].own /\ v # w
    BY <2>2
  <2>5. Adding(c)' => Adding(c) /\ c # wk[w].own
    BY <2>1, <2>4 DEF Adding, At, ComesOnce
  <2>6. c = wk[w].own => Adding(c)
    BY <2>1 DEF Adding, At
  <2>7. Arriving(c)' => Arriving(c) /\ c # wk[w].own
    BY <2>3, <2>5, <2>6 DEF Arriving, ComesOnce
  <2>8. \A u, v \in Workers :
          /\ wk'[u].pc = "add" /\ wk'[v].pc = "add"
          /\ wk'[u].own = c /\ wk'[v].own = c
          => u = v
    BY <2>4 DEF ComesOnce, At
  <2>9. sock[c] = "none" => c # wk[w].own
    BY <2>6 DEF ComesOnce, Arriving
  <2> QED BY <2>3, <2>5, <2>7, <2>8, <2>9 DEF ComesOnce
<1> QED BY <1>1, <1>2, <1>3, WorkerMoves

\* What the network posts: nothing, the end of an operation, or a connection
\* that comes.
Posts(p) == p \in Posted /\ p.k = "IO" /\ p # EXIT /\ packets' = Append(packets, p)
Unposted == /\ packets' = packets \/ \E p : Posts(p) /\ \A c \in Conns : ~ Announces(p, c)
            /\ UNCHANGED sock
Comes(c) == /\ m_sockListen /\ sock[c] = "none"
            /\ sock' = [sock EXCEPT ![c] = "open"]
            /\ \E p : Posts(p) /\ p.conn = c /\ p.so = "ACCEPT" /\ p.res = "data"

LEMMA CompletionPosts ==
    ASSUME Typed, NEW i \in DOMAIN kernel, NEW c, NEW res \in {"data", "zero", "error", "aborted"},
           c \in Conns \/ (c = None /\ kernel[i].so = "ACCEPT" /\ res # "data"), Complete(i, c, res)
    PROVE  \E p : /\ Posts(p) /\ p.conn = c /\ p.so = kernel[i].so /\ p.res = res /\ p.io = i
<1> DEFINE p == Completion(i, kernel[i].so, c, res)
<1>1. i \in IOs /\ kernel[i].so \in SO /\ c \in Conns \cup {None}
  BY TypedParts DEF TypedKernel
<1>2. /\ p \in Posted /\ p.k = "IO" /\ p.conn = c /\ p.so = kernel[i].so /\ p.res = res
      /\ p.io = i
  BY <1>1, Answers
<1>3. p # EXIT
  BY <1>2, Answers
<1>4. packets' = Append(packets, p)
  BY DEF Complete
<1> QED BY <1>2, <1>3, <1>4 DEF Posts

LEMMA NetworkPosts ==
    ASSUME ServerAssumption, Typed, Network
    PROVE  /\ Unposted \/ \E c \in Conns : Comes(c)
           /\ UNCHANGED <<wk, sockets, stopping, m_sockListen>>
<1>1. ASSUME NEW i \in DOMAIN kernel, Connect(i)
      PROVE  (\E c \in Conns : Comes(c)) /\ UNCHANGED <<wk, sockets, stopping, m_sockListen>>
  <2>1. PICK c \in Conns :
          /\ sock[c] = "none" /\ Complete(i, c, "data")
          /\ sock' = [sock EXCEPT ![c] = "open"]
    BY <1>1 DEF Connect
  <2>2. \E p : Posts(p) /\ p.conn = c /\ p.so = kernel[i].so /\ p.res = "data"
    BY <2>1, CompletionPosts
  <2> QED BY <1>1, <2>1, <2>2 DEF Connect, Comes
<1>2. None \notin Conns
  BY DEF None, Conns
<1>3. ASSUME NEW i \in DOMAIN kernel, AcceptFails(i)
      PROVE  Unposted /\ UNCHANGED <<wk, sockets, stopping, m_sockListen>>
  <2>1. PICK res \in {"error", "aborted"} : Complete(i, None, res) /\ kernel[i].so = "ACCEPT"
    BY <1>3 DEF AcceptFails
  <2>2. \E p : Posts(p) /\ p.conn = None
    BY <2>1, CompletionPosts
  <2> QED BY <1>2, <1>3, <2>2 DEF AcceptFails, Unposted, Announces, net
<1>4. ASSUME NEW i \in DOMAIN kernel, Arrive(i) \/ Finish(i)
      PROVE  Unposted /\ UNCHANGED <<wk, sockets, stopping, m_sockListen>>
  <2>1. kernel[i].so # "ACCEPT" /\ UNCHANGED <<wk, sockets, stopping, net>>
        /\ \E res \in {"data", "zero", "error", "aborted"} : Complete(i, kernel[i].conn, res)
    BY <1>4 DEF Arrive, Finish
  <2>2. kernel[i].conn \in Conns
    BY <2>1, TypedParts DEF TypedKernel
  <2>3. \E p : Posts(p) /\ p.so # "ACCEPT"
    BY <2>1, <2>2, CompletionPosts
  <2> QED BY <2>1, <2>3 DEF Unposted, Announces, net
<1>5. ASSUME NEW c \in Conns, PeerCloses(c)
      PROVE  Unposted /\ UNCHANGED <<wk, sockets, stopping, m_sockListen>>
  BY <1>5 DEF PeerCloses, Unposted
<1> QED BY <1>1, <1>3, <1>4, <1>5 DEF Network

\* The calls of the program post a DISCONNECT, if anything, before Stop does.
LEMMA CallsPost ==
    ASSUME Typed, (\E c \in Conns : SendFind(c) \/ Disconnect(c)) \/ SendPost
    PROVE  /\ \/ packets' = packets
              \/ stop = "run" /\ \E c \in Conns : packets' = Append(packets, DISCONNECT(c))
           /\ UNCHANGED <<wk, sockets, stopping, net>>
BY DEF SendFind, Disconnect, SendPost

LEMMA ComesOthers ==
    ASSUME ServerAssumption, Typed, ComesOnce,
           \/ \E c \in Conns : SendFind(c) \/ Disconnect(c)
           \/ SendPost \/ Network \/ StopBegin \/ Stop \/ UNCHANGED vars
    PROVE  ComesOnce'
<1>0. packets \in Seq(Posted)
  BY DEF Typed
<1>1. ASSUME UNCHANGED <<wk, m_mpClientSocket, sock, told>>,
             \A c \in Conns : /\ Waiting(packets', c) => Waiting(packets, c)
                              /\ Once(packets, c) => Once(packets', c)
      PROVE  ComesOnce'
  BY <1>1, ComesQuiet
<1>2. ASSUME NEW d \in Conns, packets' = Append(packets, DISCONNECT(d))
      PROVE  \A c \in Conns : /\ Waiting(packets', c) => Waiting(packets, c)
                              /\ Once(packets, c) => Once(packets', c)
  BY <1>0, <1>2, LaterAppend, Quiet, Answers
<1>3. CASE (\E c \in Conns : SendFind(c) \/ Disconnect(c)) \/ SendPost
  <2>1. UNCHANGED <<wk, m_mpClientSocket, sock, told>>
    BY <1>3, CallsPost DEF sockets, stopping, net
  <2> QED BY <1>1, <1>2, <1>3, <2>1, CallsPost
<1>4. CASE Network
  <2>1. UNCHANGED <<wk, m_mpClientSocket, told>>
    BY <1>4, NetworkPosts DEF sockets, stopping
  <2>2. CASE Unposted
    <3>1. ASSUME NEW p, Posts(p), \A c \in Conns : ~ Announces(p, c)
          PROVE  \A c \in Conns : /\ Waiting(packets', c) => Waiting(packets, c)
                                  /\ Once(packets, c) => Once(packets', c)
      BY <1>0, <3>1, LaterAppend DEF Posts
    <3> QED BY <1>1, <2>1, <2>2, <3>1 DEF Unposted
  <2>3. ASSUME NEW c \in Conns, Comes(c) PROVE ComesOnce'
    <3>1. PICK p : Posts(p) /\ p.conn = c /\ p.so = "ACCEPT" /\ p.res = "data"
      BY <2>3 DEF Comes
    <3>2. \A d \in Conns : Announces(p, d) <=> d = c
      BY <3>1 DEF Announces, Posts
    <3>3. \A d \in Conns : sock'[d] = IF d = c THEN "open" ELSE sock[d]
      BY <2>3, TypedParts DEF Comes, TypedNet
    <3>4. sock[c] = "none" /\ ~ Arriving(c) /\ m_mpClientSocket[c] = None /\ c \notin told
      BY <2>3 DEF Comes, ComesOnce
    <3>5. \A d \in Conns : /\ Waiting(packets', d) <=> Waiting(packets, d) \/ d = c
                           /\ Once(packets', d)
      BY <1>0, <3>1, <3>2, <3>4, LaterAppend DEF Posts, ComesOnce, Arriving
    <3>6. \A d : Adding(d)' <=> Adding(d)
      BY <2>1 DEF Adding, At
    <3>7. \A d \in Conns : Arriving(d)' <=> Arriving(d) \/ d = c
      BY <3>5, <3>6 DEF Arriving
    <3>8. \A v : At(v, "add")' <=> At(v, "add")
      BY <2>1 DEF At
    <3> SUFFICES ASSUME NEW d \in Conns
                 PROVE  /\ sock'[d] = "none" => /\ ~ Arriving(d)' /\ m_mpClientSocket'[d] = None
                                                /\ d \notin told'
                        /\ Arriving(d)' => m_mpClientSocket'[d] = None /\ d \notin told'
                        /\ Once(packets', d)
                        /\ ~ (Waiting(packets', d) /\ Adding(d)')
                        /\ \A u, v \in Workers :
                             /\ At(u, "add")' /\ At(v, "add")'
                             /\ wk'[u].own = d /\ wk'[v].own = d
                             => u = v
      BY DEF ComesOnce
    <3>9. ~ (Waiting(packets', d) /\ Adding(d)')
      BY <3>4, <3>5, <3>6 DEF ComesOnce, Arriving
    <3>10. sock'[d] = "none" => /\ ~ Arriving(d)' /\ m_mpClientSocket'[d] = None
                                /\ d \notin told'
      BY <2>1, <3>3, <3>7 DEF ComesOnce
    <3>11. Arriving(d)' => m_mpClientSocket'[d] = None /\ d \notin told'
      BY <2>1, <3>4, <3>7 DEF ComesOnce
    <3>12. ASSUME NEW u \in Workers, NEW v \in Workers, At(u, "add")', At(v, "add")',
                  wk'[u].own = d, wk'[v].own = d
           PROVE  u = v
      BY <2>1, <3>8, <3>12 DEF ComesOnce
    <3> QED BY <3>5, <3>9, <3>10, <3>11, <3>12
  <2> QED BY <1>4, <2>2, <2>3, NetworkPosts
<1>5. CASE StopBegin \/ StopWait \/ StopJoin \/ UNCHANGED vars
  <2>1. UNCHANGED <<packets, wk, m_mpClientSocket, sock, told>>
    BY <1>5 DEF StopBegin, StopWait, StopJoin, sockets, net, stopping, vars
  <2> QED BY <1>1, <2>1
<1>6. CASE StopExit
  <2>1. UNCHANGED <<wk, m_mpClientSocket, sock, told>> /\ packets' = ExitsLast
    BY <1>6 DEF StopExit, sockets, net
  <2> QED BY <1>0, <1>1, <2>1, LaterExits DEF ExitsLast
<1>7. CASE StopDelete
  <2>1. /\ UNCHANGED <<wk, m_mpClientSocket, sock, told>>
        /\ packets' = packets \/ packets' = <<>>
    BY <1>7 DEF StopDelete, net
  <2>2. packets' = <<>> => \A c \in Conns : ~ Waiting(packets', c) /\ Once(packets', c)
    BY DEF Waiting, Once
  <2> QED BY <1>1, <2>1, <2>2
<1>8. CASE StopList
  <2>1. UNCHANGED <<wk, m_mpClientSocket, sock>>
    BY <1>8 DEF StopList, sockets, net
  <2>2. CASE UNCHANGED <<packets, told>>
    BY <1>1, <2>1, <2>2
  <2>3. CASE /\ m_mpClientSocket[iter] # None /\ iter \in Conns
             /\ packets' = Append(packets, DISCONNECT(iter)) /\ told' = told \cup {iter}
    <3>1. sock[iter] # "none" /\ ~ Arriving(iter)
      BY <2>3 DEF ComesOnce
    <3>2. \A c \in Conns : /\ Waiting(packets', c) => Waiting(packets, c)
                           /\ Once(packets, c) => Once(packets', c)
      BY <1>2, <2>3
    <3>3. \A c : Adding(c)' <=> Adding(c)
      BY <2>1 DEF Adding, At
    <3>4. \A c \in Conns : Arriving(c)' => Arriving(c)
      BY <3>2, <3>3 DEF Arriving
    <3>5. \A v : At(v, "add")' <=> At(v, "add")
      BY <2>1 DEF At
    <3>6. \A c \in Conns : c \in told' => c \in told \/ c = iter
      BY <2>3
    <3> QED BY <2>1, <3>1, <3>2, <3>3, <3>4, <3>5, <3>6 DEF ComesOnce
  <2>4. iter \in 0..(MaxConns + 1) /\ MaxConns \in Nat /\ iter # 0
    BY <1>8 DEF Typed, TypeOK, StopList, ServerAssumption
  <2>5. iter <= MaxConns => iter \in Conns
    BY <2>4 DEF Conns
  <2> QED BY <1>8, <2>2, <2>3, <2>5 DEF StopList
<1> QED BY <1>3, <1>4, <1>5, <1>6, <1>7, <1>8 DEF Stop

-----------------------------------------------------------------------------
(* The exit packets come last.                                             *)

\* A step that posts nothing early, and stops no worker before Stop does.
LEMMA ExitsQuiet ==
    ASSUME ExitsComeLast, UNCHANGED stop,
           NoExit(packets) => NoExit(packets'), InOrder(packets'),
           (\E v \in Workers : wk'[v].pc = "exited") => NoEarly(packets'),
           NoExit(packets) => \A v \in Workers : wk'[v].pc = "exited" => wk[v].pc = "exited",
           \A v \in Workers : wk[v].pc = "exited" => wk'[v].pc = "exited",
           m_sockListen' => m_sockListen,
           (\E v \in Workers : wk[v].pc # "exited") \/
             \A c \in Conns : m_mpClientSocket[c] = None => m_mpClientSocket'[c] = None
    PROVE  ExitsComeLast'
<1>1. stop \in {"run", "list", "wait", "exit"} =>
        NoExit(packets') /\ \A w \in Workers : wk'[w].pc # "exited"
  BY DEF ExitsComeLast, At
<1>2. stop \in {"delete", "stopped"} => \A w \in Workers : wk'[w].pc = "exited"
  BY DEF ExitsComeLast, At
<1>3. stop = "stopped" => \A c \in Conns : m_mpClientSocket'[c] = None
  BY DEF ExitsComeLast, At
<1>4. m_sockListen' => stop' = "run"
  BY DEF ExitsComeLast
<1> QED BY <1>1, <1>2, <1>3, <1>4 DEF ExitsComeLast, At

LEMMA ExitsWorker ==
    ASSUME Typed, ExitsComeLast, NEW w \in Workers, Worker(w)
    PROVE  ExitsComeLast'
<1> DEFINE t == Tail(packets)
<1>1. InOrder(packets) /\ ((\E v \in Workers : wk[v].pc = "exited") => NoEarly(packets))
  BY DEF ExitsComeLast, At
<1>2. ASSUME packets # <<>>
      PROVE  /\ t \in Seq(Posted)
             /\ InOrder(t) /\ InOrder(AskAccept(t))
             /\ NoExit(packets) => NoExit(t) /\ NoExit(AskAccept(t)) /\ Head(packets) # EXIT
             /\ NoEarly(packets) => NoEarly(t) /\ NoEarly(AskAccept(t))
             /\ Head(packets) = EXIT => NoEarly(t) /\ NoEarly(AskAccept(t))
  <2>1. packets \in Seq(Posted)
    BY DEF Typed
  <2>2. /\ t \in Seq(Posted) /\ InOrder(t)
        /\ NoExit(packets) => NoExit(t) /\ Head(packets) # EXIT
        /\ NoEarly(packets) => NoEarly(t)
        /\ Head(packets) = EXIT => NoEarly(t)
    BY <1>1, <1>2, <2>1, Dequeue, LaterTail
  <2> HIDE DEF t
  <2>3. /\ InOrder(AskAccept(t)) /\ (NoEarly(t) => NoEarly(AskAccept(t)))
        /\ NoExit(t) => NoExit(AskAccept(t))
    BY <2>2, LaterAppend, Quiet, Answers DEF AskAccept
  <2> QED BY <2>2, <2>3
<1>3. CASE Moves(w)
  <2>1. /\ InOrder(packets') /\ NoExit(packets) => NoExit(packets')
    BY <1>1, <1>2, <1>3 DEF Moves, Dequeues
  <2>2. ASSUME NEW v \in Workers, wk'[v].pc = "exited" PROVE NoEarly(packets')
    <3>1. NoEarly(packets) \/ (Dequeues(w) /\ Head(packets) = EXIT)
      BY <1>1, <1>3, <2>2 DEF Moves, Dequeues
    <3> QED BY <3>1, <1>2, <1>3 DEF Moves, Dequeues
  <2>3. NoExit(packets) => \A v \in Workers : wk'[v].pc = "exited" => wk[v].pc = "exited"
    BY <1>2, <1>3 DEF Moves, Dequeues
  <2>4. \A v \in Workers : wk[v].pc = "exited" => wk'[v].pc = "exited"
    BY <1>3 DEF Moves, At
  <2>5. UNCHANGED <<stop, m_sockListen>> /\ wk[w].pc # "exited"
    BY <1>3 DEF Moves, At
  <2>6. InOrder(packets')
    BY <1>1, <1>2, <1>3 DEF Moves, Dequeues
  <2> QED BY <2>1, <2>2, <2>3, <2>4, <2>5, <2>6, ExitsQuiet
<1>4. CASE ProcessAccept(w)
  <2>1. /\ packets # <<>> /\ packets' = AskAccept(t) /\ wk[w].pc = "get"
        /\ UNCHANGED <<stop, m_sockListen, m_mpClientSocket>>
    BY <1>4, Takes DEF ProcessAccept, Got, net, stopping
  <2>2. wk'[w].pc = "add" /\ \A v \in Workers \ {w} : wk'[v] = wk[v]
    <3>1. PICK r : r.pc = "add" /\ Become(w, r)
      BY <1>4 DEF ProcessAccept
    <3> QED BY <3>1, Becomes
  <2>3. /\ \A v \in Workers : wk'[v].pc = "exited" <=> wk[v].pc = "exited"
    BY <2>1, <2>2
  <2>4. InOrder(packets') /\ (NoExit(packets) => NoExit(packets'))
        /\ (NoEarly(packets) => NoEarly(packets'))
    BY <1>2, <2>1
  <2> QED BY <1>1, <2>1, <2>3, <2>4, ExitsQuiet
<1>5. CASE AddClientSocket(w)
  <2>1. wk[w].pc = "add" /\ UNCHANGED <<packets, stop, m_sockListen>>
    BY <1>5 DEF AddClientSocket, At, net, stopping
  <2>2. wk'[w].pc = "receive" /\ \A v \in Workers \ {w} : wk'[v] = wk[v]
    BY <1>5, Goes DEF AddClientSocket
  <2>3. /\ \A v \in Workers : wk'[v].pc = "exited" <=> wk[v].pc = "exited"
    BY <2>1, <2>2
  <2> QED BY <1>1, <2>1, <2>3, ExitsQuiet
<1> QED BY <1>3, <1>4, <1>5, WorkerMoves

LEMMA ExitsOthers ==
    ASSUME ServerAssumption, Typed, ExitsComeLast,
           \/ \E c \in Conns : SendFind(c) \/ Disconnect(c)
           \/ SendPost \/ Network \/ StopBegin \/ Stop \/ UNCHANGED vars
    PROVE  ExitsComeLast'
<1>1. /\ InOrder(packets) /\ ((\E v \in Workers : wk[v].pc = "exited") => NoEarly(packets))
      /\ packets \in Seq(Posted)
  BY DEF ExitsComeLast, At, Typed
<1>2. UNCHANGED wk
  <2>1. Network => UNCHANGED wk
    BY NetworkPosts
  <2>2. (\E c \in Conns : SendFind(c) \/ Disconnect(c)) \/ SendPost => UNCHANGED wk
    BY CallsPost
  <2>3. StopBegin \/ Stop \/ UNCHANGED vars => UNCHANGED wk
    BY DEF StopBegin, Stop, StopList, StopWait, StopExit, StopJoin, StopDelete, vars
  <2> QED BY <2>1, <2>2, <2>3
\* A packet that is posted when no exit is.
<1>3. ASSUME NEW p \in Posted, p # EXIT, Early(p) => stop \in {"run", "list", "wait", "exit"},
             packets' = Append(packets, p)
      PROVE  /\ InOrder(packets') /\ (NoExit(packets) => NoExit(packets'))
             /\ (\E v \in Workers : wk'[v].pc = "exited") => NoEarly(packets')
  <2>1. Early(p) => NoExit(packets) /\ \A v \in Workers : wk'[v].pc # "exited"
    BY <1>2, <1>3 DEF ExitsComeLast, At
  <2>2. InOrder(packets') /\ (NoExit(packets) => NoExit(packets'))
    BY <1>1, <1>3, <2>1, LaterAppend
  <2>3. (\E v \in Workers : wk'[v].pc = "exited") => NoEarly(packets')
    BY <1>1, <1>2, <1>3, <2>1, LaterAppend
  <2> QED BY <2>2, <2>3
<1>4. ASSUME NEW d \in Conns, packets' = Append(packets, DISCONNECT(d)), stop \in {"run", "list"}
      PROVE  /\ InOrder(packets') /\ (NoExit(packets) => NoExit(packets'))
             /\ (\E v \in Workers : wk'[v].pc = "exited") => NoEarly(packets')
  BY <1>3, <1>4, Quiet, Answers
<1>5. CASE (\E c \in Conns : SendFind(c) \/ Disconnect(c)) \/ SendPost \/ UNCHANGED vars
  <2>1. /\ \/ packets' = packets
           \/ stop = "run" /\ \E c \in Conns : packets' = Append(packets, DISCONNECT(c))
        /\ UNCHANGED <<m_mpClientSocket, stop, m_sockListen>>
    BY <1>5, CallsPost DEF vars, sockets, stopping, net
  <2> QED BY <1>1, <1>2, <1>4, <2>1, ExitsQuiet
<1>6. CASE Network
  <2>1. UNCHANGED <<m_mpClientSocket, stop, m_sockListen>>
    BY <1>6, NetworkPosts DEF sockets, stopping
  <2>2. packets' = packets \/ \E p : Posts(p) /\ (Early(p) => stop = "run")
    <3>1. CASE Unposted
      <4>1. \A p : p.k = "IO" /\ Early(p) => \E c \in Conns : Announces(p, c)
        BY DEF Early
      <4> QED BY <3>1, <4>1 DEF Unposted, Posts
    <3>2. CASE \E c \in Conns : Comes(c)
      BY <3>2 DEF Comes, ExitsComeLast
    <3> QED BY <1>6, <3>1, <3>2, NetworkPosts
  <2>3. ASSUME NEW p, Posts(p), Early(p) => stop = "run"
        PROVE  /\ InOrder(packets') /\ (NoExit(packets) => NoExit(packets'))
               /\ (\E v \in Workers : wk'[v].pc = "exited") => NoEarly(packets')
    BY <1>3, <2>3 DEF Posts
  <2> QED BY <1>1, <1>2, <2>1, <2>2, <2>3, ExitsQuiet
<1>7. CASE StopBegin
  <2>1. /\ stop = "run" /\ stop' = "list" /\ m_sockListen' = FALSE
        /\ UNCHANGED <<packets, m_mpClientSocket>>
    BY <1>7 DEF StopBegin, sockets
  <2> QED BY <1>2, <2>1 DEF ExitsComeLast, At
<1>8. CASE StopList
  <2>1. /\ stop = "list" /\ stop' \in {"list", "wait", "undefined"}
        /\ UNCHANGED <<m_mpClientSocket, m_sockListen>>
        /\ \/ packets' = packets
           \/ iter <= MaxConns /\ packets' = Append(packets, DISCONNECT(iter))
    BY <1>8 DEF StopList, sockets, net
  <2>2. iter \in 0..(MaxConns + 1) /\ MaxConns \in Nat /\ iter # 0
    BY <2>1 DEF Typed, TypeOK, ServerAssumption
  <2>3. iter <= MaxConns => iter \in Conns
    BY <2>2 DEF Conns
  <2>4. /\ InOrder(packets') /\ (NoExit(packets) => NoExit(packets'))
        /\ (\E v \in Workers : wk'[v].pc = "exited") => NoEarly(packets')
    BY <1>1, <1>2, <1>4, <2>1, <2>3
  <2>5. NoExit(packets) /\ (\A v \in Workers : ~ At(v, "exited")) /\ ~ m_sockListen
    BY <2>1 DEF ExitsComeLast
  <2> QED BY <1>2, <2>1, <2>4, <2>5 DEF ExitsComeLast, At
<1>9. CASE StopWait \/ StopJoin
  <2>1. /\ UNCHANGED <<packets, m_mpClientSocket, m_sockListen>>
        /\ \/ stop = "wait" /\ stop' = "exit"
           \/ stop = "join" /\ stop' = "delete" /\ \A v \in Workers : At(v, "exited")
    BY <1>9 DEF StopWait, StopJoin, sockets, net
  <2> QED BY <1>2, <2>1 DEF ExitsComeLast, At
<1>10. CASE StopExit
  <2>1. /\ UNCHANGED <<m_mpClientSocket, m_sockListen>> /\ stop = "exit" /\ stop' = "join"
        /\ packets' = ExitsLast
    BY <1>10 DEF StopExit, sockets, net
  <2>2. InOrder(packets')
    BY <1>1, <2>1, LaterExits DEF ExitsLast
  <2>3. \A v \in Workers : ~ At(v, "exited")
    BY <2>1 DEF ExitsComeLast
  <2> QED BY <1>2, <2>1, <2>2, <2>3 DEF ExitsComeLast, At
<1>11. CASE StopDelete
  <2>1. /\ UNCHANGED <<m_mpClientSocket, m_sockListen>> /\ stop = "delete"
        /\ \/ stop' = "stopped" /\ packets' = <<>> /\ \A c \in Conns : m_mpClientSocket[c] = None
           \/ stop' = "undefined" /\ packets' = packets
    BY <1>11 DEF StopDelete, net
  <2>2. packets' = <<>> => InOrder(packets') /\ NoEarly(packets')
    BY DEF InOrder, NoEarly
  <2> QED BY <1>2, <2>1, <2>2 DEF ExitsComeLast, At
<1> QED BY <1>5, <1>6, <1>7, <1>8, <1>9, <1>10, <1>11 DEF Stop

-----------------------------------------------------------------------------
(* What Stop has posted a DISCONNECT for leaves the map.                   *)

\* Nobody but a worker that leaves with c drops c's DISCONNECT.
LEMMA ToldWorker ==
    ASSUME Typed, ComesOnce, ToldLeave, NEW w \in Workers, Worker(w)
    PROVE  ToldLeave'
<1> DEFINE t == Tail(packets)
<1>1. told \subseteq Conns /\ packets \in Seq(Posted)
  BY DEF Typed
<1>2. ASSUME packets # <<>>, packets' \in {t, AskAccept(t)}, NEW c \in Conns
      PROVE  Has(packets, DISCONNECT(c)) =>
               Has(packets', DISCONNECT(c)) \/ Head(packets) = DISCONNECT(c)
  <2>1. /\ t \in Seq(Posted)
        /\ Has(packets, DISCONNECT(c)) => Has(t, DISCONNECT(c)) \/ Head(packets) = DISCONNECT(c)
    BY <1>1, <1>2, Dequeue, LaterTail
  <2> HIDE DEF t
  <2>2. Has(t, DISCONNECT(c)) => Has(AskAccept(t), DISCONNECT(c))
    BY <2>1, LaterAppend, Quiet, Answers DEF AskAccept
  <2> QED BY <1>2, <2>1, <2>2
<1>3. CASE Moves(w)
  <2> SUFFICES ASSUME NEW c \in told, m_mpClientSocket'[c] # None
               PROVE  Has(packets', DISCONNECT(c)) \/ Leaving(c)'
    <3>1. told' = told
      BY <1>3 DEF Moves
    <3> QED BY <3>1 DEF ToldLeave
  <2>1. c \in Conns /\ c # None /\ m_mpClientSocket[c] # None
    BY <1>1, <1>3 DEF Moves, Conns, None
  <2>2. CASE Has(packets, DISCONNECT(c))
    <3>1. CASE packets' = packets
      BY <2>2, <3>1
    <3>2. CASE Dequeues(w) /\ Head(packets) = DISCONNECT(c)
      <4>1. wk'[w].pc = "find" /\ wk'[w].conn = c
        BY <2>1, <3>2, Answers DEF Dequeues
      <4> QED BY <4>1 DEF Leaving
    <3>3. CASE Dequeues(w) /\ Head(packets) # DISCONNECT(c)
      BY <1>2, <2>1, <2>2, <3>3 DEF Dequeues
    <3> QED BY <1>3, <3>1, <3>2, <3>3 DEF Moves
  <2>3. CASE Leaving(c)
    <3>1. PICK v \in Workers : wk[v].pc \in {"find", "erase"} /\ wk[v].conn = c
      BY <2>3 DEF Leaving
    <3>2. wk'[v].pc \in {"find", "erase"} /\ wk'[v].conn = c
      BY <1>3, <2>1, <3>1 DEF Moves
    <3> QED BY <3>2 DEF Leaving
  <2> QED BY <2>1, <2>2, <2>3 DEF ToldLeave
<1>4. CASE ProcessAccept(w)
  <2>1. /\ packets # <<>> /\ packets' = AskAccept(t) /\ wk[w].pc = "get"
        /\ Head(packets).k = "IO" /\ UNCHANGED <<told, m_mpClientSocket>>
    BY <1>4, Takes DEF ProcessAccept, Got, stopping
  <2>2. \A v \in Workers \ {w} : wk'[v] = wk[v]
    <3>1. \E r : Become(w, r)
      BY <1>4 DEF ProcessAccept
    <3> QED BY <3>1, Becomes
  <2>3. \A c \in Conns : Leaving(c) => Leaving(c)'
    BY <2>1, <2>2 DEF Leaving
  <2>4. \A c \in Conns : Head(packets) # DISCONNECT(c)
    BY <2>1, Answers
  <2> QED BY <1>1, <1>2, <2>1, <2>3, <2>4 DEF ToldLeave
<1>5. CASE AddClientSocket(w)
  <2>1. /\ wk[w].pc = "add" /\ wk[w].own \in Conns /\ wk[w].conn = wk[w].own
        /\ UNCHANGED <<packets, told>>
    BY <1>5 DEF AddClientSocket, At, stopping, Typed, Locals
  <2>2. \A v \in Workers \ {w} : wk'[v] = wk[v]
    BY <1>5, Goes DEF AddClientSocket
  <2>3. \A c \in Conns : Leaving(c) => Leaving(c)'
    BY <2>1, <2>2 DEF Leaving
  <2>4. wk[w].own \notin told
    BY <2>1 DEF ComesOnce, Arriving, Adding, At
  <2>5. \A c \in told : m_mpClientSocket'[c] = m_mpClientSocket[c]
    BY <1>1, <1>5, <2>1, <2>4, TypedParts DEF AddClientSocket, TypedContexts
  <2> QED BY <1>1, <2>1, <2>3, <2>5 DEF ToldLeave
<1> QED BY <1>3, <1>4, <1>5, WorkerMoves

LEMMA ToldOthers ==
    ASSUME ServerAssumption, Typed, ToldLeave,
           \/ \E c \in Conns : SendFind(c) \/ Disconnect(c)
           \/ SendPost \/ Network \/ StopBegin \/ Stop \/ UNCHANGED vars
    PROVE  ToldLeave'
<1>1. told \subseteq Conns /\ packets \in Seq(Posted)
  BY DEF Typed
<1>2. UNCHANGED <<wk, m_mpClientSocket>>
  <2>1. Network => UNCHANGED <<wk, m_mpClientSocket>>
    BY NetworkPosts DEF sockets
  <2>2. (\E c \in Conns : SendFind(c) \/ Disconnect(c)) \/ SendPost
          => UNCHANGED <<wk, m_mpClientSocket>>
    BY CallsPost DEF sockets
  <2>3. StopBegin \/ Stop \/ UNCHANGED vars => UNCHANGED <<wk, m_mpClientSocket>>
    BY DEF StopBegin, Stop, StopList, StopWait, StopExit, StopJoin, StopDelete, vars, sockets
  <2> QED BY <2>1, <2>2, <2>3
<1>3. \A c : Leaving(c)' <=> Leaving(c)
  BY <1>2 DEF Leaving
<1>4. ASSUME UNCHANGED told,
             \A c \in Conns : Has(packets, DISCONNECT(c)) => Has(packets', DISCONNECT(c))
      PROVE  ToldLeave'
  BY <1>1, <1>2, <1>3, <1>4 DEF ToldLeave
<1>5. ASSUME NEW p \in Posted, p # EXIT, packets' = Append(packets, p)
      PROVE  Has(packets', p) /\ \A x : Has(packets, x) => Has(packets', x)
  BY <1>1, <1>5, LaterAppend
<1>6. ASSUME NEW d \in Conns, packets' = Append(packets, DISCONNECT(d))
      PROVE  Has(packets', DISCONNECT(d)) /\ \A x : Has(packets, x) => Has(packets', x)
  BY <1>5, <1>6, Quiet, Answers
<1>7. CASE (\E c \in Conns : SendFind(c) \/ Disconnect(c)) \/ SendPost
  BY <1>4, <1>6, <1>7, CallsPost DEF stopping
<1>8. CASE Network
  <2>1. packets' = packets \/ \E p : Posts(p)
    BY <1>8, NetworkPosts DEF Unposted, Comes
  <2> QED BY <1>4, <1>5, <1>8, <2>1, NetworkPosts DEF Posts, stopping
<1>9. CASE StopBegin \/ StopWait \/ StopJoin \/ UNCHANGED vars
  <2>1. UNCHANGED <<packets, told>>
    BY <1>9 DEF StopBegin, StopWait, StopJoin, stopping, vars
  <2> QED BY <1>4, <2>1
<1>10. CASE StopExit
  <2>1. \A x : Has(packets, x) => Has(packets', x)
    BY <1>1, <1>10, LaterExits DEF StopExit, ExitsLast
  <2> QED BY <1>4, <1>10, <2>1 DEF StopExit
<1>11. CASE StopList
  <2>1. iter \in 0..(MaxConns + 1) /\ MaxConns \in Nat /\ iter # 0
    BY <1>11 DEF Typed, TypeOK, StopList, ServerAssumption
  <2>2. iter <= MaxConns => iter \in Conns
    BY <2>1 DEF Conns
  <2>3. \/ UNCHANGED <<packets, told>>
        \/ iter \in Conns /\ packets' = Append(packets, DISCONNECT(iter)) /\ told' = told \cup {iter}
    BY <1>11, <2>2 DEF StopList
  <2>4. CASE iter \in Conns /\ packets' = Append(packets, DISCONNECT(iter)) /\ told' = told \cup {iter}
    <3>1. Has(packets', DISCONNECT(iter)) /\ \A x : Has(packets, x) => Has(packets', x)
      BY <1>6, <2>4
    <3> QED BY <1>1, <1>2, <1>3, <2>4, <3>1 DEF ToldLeave
  <2> QED BY <1>4, <2>3, <2>4
<1>12. CASE StopDelete
  <2>1. /\ UNCHANGED told
        /\ packets' = packets \/ \A c \in Conns : m_mpClientSocket[c] = None
    BY <1>12 DEF StopDelete
  <2> QED BY <1>1, <1>2, <1>4, <2>1 DEF ToldLeave
<1> QED BY <1>7, <1>8, <1>9, <1>10, <1>11, <1>12 DEF Stop

\* The connections that Stop was told of have left when its workers are gone.
LEMMA ToldHaveLeft ==
    ASSUME ServerAssumption, Typed, ExitsComeLast, ToldLeave, stop \in {"delete", "stopped"}
    PROVE  \A c \in told : m_mpClientSocket[c] = None
<1>1. (\A w \in Workers : At(w, "exited")) /\ \E w \in Workers : At(w, "exited")
  BY DEF ExitsComeLast, ServerAssumption
<1>2. NoEarly(packets)
  BY <1>1 DEF ExitsComeLast
<1>3. told \subseteq Conns
  BY DEF Typed
<1>4. \A c \in Conns : ~ Has(packets, DISCONNECT(c))
  BY <1>2, Answers DEF NoEarly, Early, Has
<1>5. \A c \in Conns : ~ Leaving(c)
  BY <1>1 DEF Leaving, At
<1> QED BY <1>3, <1>4, <1>5 DEF ToldLeave

-----------------------------------------------------------------------------
(* Steps that leave the map, the SOCKET_CONTEXTs and the sockets alone.    *)

Steady == UNCHANGED <<sockets, sock, heard, wrong>>

LEMMA KeptSteady ==
    ASSUME Kept, Steady,
           \A c \in Conns : Arriving(c)' <=> Arriving(c),
           \A w \in Workers : wk'[w] = wk[w] \/ (Hand(wk'[w]) /\ wk'[w].pc \notin {"receive", "push"}),
           \A j \in DOMAIN packets' : \/ \E k \in DOMAIN packets : packets'[j] = packets[k]
                                      \/ Carried(packets'[j]),
           \A i \in DOMAIN kernel' : \/ i \in DOMAIN kernel /\ kernel'[i] = kernel[i]
                                     \/ Running(kernel'[i]),
           sender'.pc = "post" => \/ sender' = sender
                                  \/ /\ sender'.conn \in Conns /\ Served(sender'.conn)
                                     /\ sender'.ctx = m_mpClientSocket[sender'.conn]
    PROVE  Kept'
<1>1. UNCHANGED <<m_mpClientSocket, m_lsFreeSocketContext, holds, key, sock, heard, wrong>>
  BY DEF Steady, sockets
<1>2. FreeContexts' = FreeContexts
  BY <1>1 DEF FreeContexts
<1>3. ContextsKept'
  BY <1>1, <1>2 DEF Kept, ContextsKept, Served
<1>4. ArrivalsKept'
  BY <1>1 DEF Kept, ArrivalsKept, Fresh
<1>5. \A w \in Workers : Hand(wk'[w])
  BY DEF Kept, HandsKept
<1>6. \A w \in Workers : Hand(wk[w])'
  BY <1>1, <1>2, <1>5 DEF Hand, Served
<1>7. \A c \in Conns, w \in Workers :
        /\ Starting(w, c)' => Starting(w, c)
        /\ Pushing(w, c)' => Pushing(w, c)
  BY DEF Starting, Pushing, At
<1>8. HandsKept'
  BY <1>6, <1>7 DEF Kept, HandsKept
<1>9. /\ \A j \in DOMAIN packets' : Carried(packets'[j])
      /\ \A i \in DOMAIN kernel' : Running(kernel'[i])
  BY DEF Kept, OthersKept
<1>10. sender'.pc = "post" => /\ sender'.conn \in Conns /\ Served(sender'.conn)
                              /\ sender'.ctx = m_mpClientSocket[sender'.conn]
  BY DEF Kept, OthersKept
<1>11. /\ \A j \in DOMAIN packets' : Carried(packets[j])'
       /\ \A i \in DOMAIN kernel' : Running(kernel[i])'
  BY <1>1, <1>9 DEF Carried, Running, Served
<1>12. OthersKept'
  BY <1>1, <1>10, <1>11 DEF OthersKept, Served
<1> QED BY <1>3, <1>4, <1>8, <1>12 DEF Kept

\* A worker's step that announces and adds nothing.
LEMMA QueueSteady ==
    ASSUME Typed, ComesOnce, NEW w \in Workers, Moves(w), ~ At(w, "add"),
           Dequeues(w) => \A c \in Conns : ~ Announces(Head(packets), c)
    PROVE  /\ \A c \in Conns : Arriving(c)' <=> Arriving(c)
           /\ \A j \in DOMAIN packets' : \/ \E k \in DOMAIN packets : packets'[j] = packets[k]
                                         \/ Carried(packets'[j])
<1> DEFINE t == Tail(packets)
<1>1. \A c : Adding(c)' <=> Adding(c)
  BY DEF Adding, At, Moves
<1>2. CASE packets' = packets
  BY <1>1, <1>2 DEF Arriving
<1>3. CASE Dequeues(w)
  <2>1. packets \in Seq(Posted) /\ packets # <<>>
    BY <1>3 DEF Dequeues, Typed
  <2>2. /\ t \in Seq(Posted) /\ \A j \in DOMAIN t : \E k \in DOMAIN packets : t[j] = packets[k]
        /\ \A c \in Conns : Waiting(t, c) <=> Waiting(packets, c)
    <3>1. t \in Seq(Posted) /\ \A j \in DOMAIN t : \E k \in DOMAIN packets : t[j] = packets[k]
      BY <2>1, Dequeue
    <3> HIDE DEF t
    <3>2. \A c \in Conns : Waiting(t, c) <=> Waiting(packets, c)
      BY <1>3, <2>1, LaterTail DEF t
    <3> QED BY <3>1, <3>2
  <2> HIDE DEF t
  <2>3. /\ \A c \in Conns : Waiting(AskAccept(t), c) <=> Waiting(packets, c)
        /\ \A j \in DOMAIN AskAccept(t) : AskAccept(t)[j] = ACCEPT
                                          \/ \E k \in DOMAIN t : AskAccept(t)[j] = t[k]
    BY <2>2, LaterAppend, Quiet, Answers DEF AskAccept
  <2>4. \A j \in DOMAIN AskAccept(t) : AskAccept(t)[j] = ACCEPT
                                          \/ \E k \in DOMAIN packets : AskAccept(t)[j] = packets[k]
    BY <2>2, <2>3
  <2>5. Carried(ACCEPT)
    BY Quiet
  <2>6. packets' \in {t, AskAccept(t)}
    BY <1>3 DEF Dequeues, t
  <2>7. \A c \in Conns : Waiting(packets', c) <=> Waiting(packets, c)
    BY <2>2, <2>3, <2>6
  <2>8. \A c \in Conns : Arriving(c)' <=> Arriving(c)
    BY <1>1, <2>7 DEF Arriving
  <2>9. \A j \in DOMAIN packets' : \/ \E k \in DOMAIN packets : packets'[j] = packets[k]
                                   \/ Carried(packets'[j])
    <3>1. CASE packets' = t
      BY <2>2, <3>1
    <3>2. CASE packets' = AskAccept(t)
      BY <2>4, <2>5, <3>2
    <3> QED BY <2>6, <3>1, <3>2
  <2> QED BY <2>8, <2>9
<1> QED BY <1>2, <1>3 DEF Moves

LEMMA KeptWorker ==
    ASSUME Typed, ComesOnce, Kept, NEW w \in Workers, Moves(w), ~ At(w, "add"),
           Dequeues(w) => \A c \in Conns : ~ Announces(Head(packets), c),
           Steady, UNCHANGED sender, Hand(wk'[w]), wk'[w].pc \notin {"receive", "push"},
           \A i \in DOMAIN kernel' : \/ i \in DOMAIN kernel /\ kernel'[i] = kernel[i]
                                     \/ Running(kernel'[i])
    PROVE  Kept'
<1>1. \A v \in Workers : \/ wk'[v] = wk[v]
                         \/ Hand(wk'[v]) /\ wk'[v].pc \notin {"receive", "push"}
  BY DEF Moves
<1> QED BY <1>1, QueueSteady, KeptSteady

\* GetFreeIOContext and its use.
LEMMA BegunKernel ==
    ASSUME NEW so, NEW c, Begun(so, c)
    PROVE  \A i \in DOMAIN kernel' : \/ i \in DOMAIN kernel /\ kernel'[i] = kernel[i]
                                     \/ kernel'[i].so = so /\ kernel'[i].conn = c
<1> DEFINE g == GetFreeIOContext
           v == [so |-> so, conn |-> c]
<1>1. v.so = so /\ v.conn = c
  OBVIOUS
<1>2. kernel' = Put(kernel, g, v)
  BY DEF Begun
<1> HIDE DEF g, v
<1>3. \A i \in DOMAIN kernel' : (i \in DOMAIN kernel /\ kernel'[i] = kernel[i]) \/ kernel'[i] = v
  BY <1>2, PutsOne, Zenon
<1> QED BY <1>1, <1>3

LEMMA ReadHeld == ASSUME NEW x \in Contexts, holds[x] # None, ServerAssumption
                  PROVE  Read(x) = {holds[x]}
BY DEF Read, ServerAssumption

\* A worker takes a packet that announces nothing.
LEMMA KeptGets ==
    ASSUME ServerAssumption, Typed, ComesOnce, Kept, NEW w \in Workers,
           \/ GetAccept(w) \/ GetDisconnect(w) \/ GetExit(w) \/ AcceptFailed(w)
           \/ OnlyFreeIO(w) \/ GetClosed(w) \/ GetData(w)
    PROVE  Kept'
<1> DEFINE h == Head(packets)
<1>1. /\ Taken(w) /\ ~ At(w, "add") /\ ~ ProcessAccept(w) /\ ~ AddClientSocket(w) /\ Worker(w)
      /\ \A c \in Conns : ~ Announces(h, c)
      /\ wk[w].pc = "get"
  <2>1. Taken(w)
    BY DEF GetAccept, GetDisconnect, GetExit, AcceptFailed, OnlyFreeIO, GetClosed, GetData, Got
  <2>2. wk[w].pc = "get"
    BY <2>1 DEF Taken, At
  <2>3. \/ h \in {ACCEPT, EXIT} \/ h.k = "DISCONNECT"
        \/ h.k = "IO" /\ (h.so # "ACCEPT" \/ h.res # "data")
    BY DEF GetAccept, GetDisconnect, GetExit, AcceptFailed, OnlyFreeIO, GetClosed, GetData, Got
  <2>4. ~ ProcessAccept(w) /\ \A c \in Conns : ~ Announces(h, c)
    BY <2>3, Answers DEF ProcessAccept, Got, Announces
  <2>5. ~ AddClientSocket(w) /\ ~ At(w, "add")
    BY <2>2 DEF AddClientSocket, At
  <2> QED BY <2>1, <2>2, <2>4, <2>5 DEF Worker
<1>2. Moves(w)
  BY <1>1, WorkerMoves
<1>3. /\ packets \in Seq(Posted) /\ packets # <<>> /\ h \in Posted /\ 1 \in DOMAIN packets
      /\ packets[1] = h
  BY <1>1, Takes, Dequeue
<1> HIDE DEF h
<1>4. ASSUME wk' = wk \/ wk'[w].pc = "exited" \/ (wk'[w].pc \in {"find", "deliver"} /\ Hand(wk'[w])),
             Steady, UNCHANGED sender,
             UNCHANGED kernel \/ (\A i \in DOMAIN kernel' :
               \/ i \in DOMAIN kernel /\ kernel'[i] = kernel[i]
               \/ kernel'[i].so = "ACCEPT")
      PROVE  Kept'
  <2>1. Hand(wk'[w]) /\ wk'[w].pc \notin {"receive", "push"}
    BY <1>1, <1>4 DEF Hand
  <2>2. \A i \in DOMAIN kernel' : \/ i \in DOMAIN kernel /\ kernel'[i] = kernel[i]
                                  \/ Running(kernel'[i])
    BY <1>4 DEF Running
  <2> QED BY <1>1, <1>2, <1>4, <2>1, <2>2, KeptWorker DEF h
<1>5. CASE GetAccept(w)
  <2>1. Steady /\ UNCHANGED <<wk, sender>>
    BY <1>5 DEF GetAccept, Steady, net, program, Fails
  <2>2. Begun("ACCEPT", None) \/ UNCHANGED kernel
    BY <1>5 DEF GetAccept, NotBegun
  <2> QED BY <1>4, <2>1, <2>2, BegunKernel
<1>6. CASE GetDisconnect(w)
  <2> DEFINE r == [Idle EXCEPT !.pc = "find", !.conn = h.conn]
  <2>1. r.pc = "find" /\ r.conn = h.conn /\ r.own = None
    BY DEF Idle
  <2> HIDE DEF r
  <2>2. Become(w, r)
    BY <1>6 DEF GetDisconnect, r, h
  <2>3. h.conn \in Conns
    BY <1>3, <1>6, PacketKinds DEF GetDisconnect, h
  <2>4. Hand(wk'[w]) /\ wk'[w].pc = "find"
    BY <2>1, <2>2, <2>3, Becomes DEF Hand
  <2> QED BY <1>4, <1>6, <2>4 DEF GetDisconnect, Steady, net, program, history
<1>7. CASE GetExit(w)
  <2>1. wk'[w].pc = "exited"
    BY <1>7, Goes DEF GetExit
  <2> QED BY <1>4, <1>7, <2>1 DEF GetExit, Steady, net, program, history
<1>8. CASE AcceptFailed(w) \/ OnlyFreeIO(w)
  BY <1>4, <1>8 DEF AcceptFailed, OnlyFreeIO, Steady, net, program, history
<1>9. CASE GetClosed(w) \/ GetData(w)
  <2>1. h.k = "IO" /\ h.so # "ACCEPT" /\ h.res # "aborted"
    BY <1>9 DEF GetClosed, GetData, Got, h
  <2>2. h.conn \in Conns /\ Served(h.conn)
    BY <1>3, <2>1, PacketKinds DEF Kept, OthersKept, Carried
  <2>3. key[h.conn] \in Contexts /\ holds[key[h.conn]] = h.conn /\ h.conn # None
    BY <2>2, TypedParts DEF TypedContexts, Kept, ContextsKept, Served, Conns, None
  <2>4. Read(key[h.conn]) = {h.conn}
    BY <2>3, ReadHeld
  <2>5. PICK pc \in {"find", "deliver"} :
          Become(w, [Idle EXCEPT !.pc = pc, !.io = h.io, !.conn = h.conn, !.own = h.conn])
    BY <1>9, <2>4 DEF GetClosed, GetData, GetIO, h
  <2> DEFINE r == [Idle EXCEPT !.pc = pc, !.io = h.io, !.conn = h.conn, !.own = h.conn]
  <2>6. r.pc = pc /\ r.conn = h.conn /\ r.own = h.conn
    BY DEF Idle
  <2> HIDE DEF r
  <2>7. wk'[w] = r
    BY <2>5, Becomes DEF r
  <2>8. Hand(r)
    BY <2>2, <2>6 DEF Hand, Served
  <2> QED BY <1>4, <1>9, <2>6, <2>7, <2>8
        DEF GetClosed, GetData, GetIO, Steady, net, program, history
<1> QED BY <1>5, <1>6, <1>7, <1>8, <1>9

\* ... or goes on, and the map stays as it is.
LEMMA KeptGoesOn ==
    ASSUME ServerAssumption, Typed, ComesOnce, Kept, NEW w \in Workers,
           \/ NotAssociated(w) \/ ReceiveAgain(w) \/ NotFound(w) \/ FindSocketContext(w)
    PROVE  Kept'
<1>1. /\ wk[w].pc \in {"receive", "repost", "find"}
      /\ ~ ProcessAccept(w) /\ ~ AddClientSocket(w) /\ Worker(w)
  BY DEF NotAssociated, ReceiveAgain, NotFound, FindSocketContext, At, ProcessAccept,
         AddClientSocket, Worker, Got, Taken
<1>2. Moves(w) /\ ~ Dequeues(w) /\ ~ At(w, "add")
  BY <1>1, WorkerMoves DEF Dequeues, At
<1>3. Hand(wk[w]) /\ wk[w] \in WorkerStates /\ Locals(w)
  BY TypedParts DEF Kept, HandsKept, TypedWorkers
<1>4. ASSUME wk'[w].pc \in {"get", "find", "erase"}, Hand(wk'[w]), Steady, UNCHANGED sender,
             \A i \in DOMAIN kernel' : \/ i \in DOMAIN kernel /\ kernel'[i] = kernel[i]
                                       \/ Running(kernel'[i])
      PROVE  Kept'
  <2>1. wk'[w].pc \notin {"receive", "push"}
    BY <1>4
  <2> QED BY <1>2, <1>4, <2>1, KeptWorker
<1>5. CASE NotAssociated(w)
  <2>1. /\ wk'[w].pc = "find" /\ wk'[w].conn = wk[w].conn /\ wk'[w].own = wk[w].own
        /\ wk[w].pc = "receive"
    BY <1>5, Goes DEF NotAssociated, At
  <2>2. /\ wk[w].conn = wk[w].own /\ wk[w].own \in Conns
        /\ m_mpClientSocket[wk[w].own] = wk[w].ctx /\ wk[w].ctx \in Contexts
    BY <1>3, <2>1 DEF Hand, Locals
  <2>3. Hand(wk'[w])
    BY <2>1, <2>2 DEF Hand, ServerAssumption
  <2> QED BY <1>4, <1>5, <2>1, <2>3 DEF NotAssociated, Steady, net, program, history, Fails
<1>6. CASE ReceiveAgain(w)
  <2>1. /\ wk[w].pc = "repost" /\ wk[w].own \in Conns /\ wk[w].conn = wk[w].own
        /\ Served(wk[w].own)
    BY <1>1, <1>3, <1>6 DEF Hand, Locals, ReceiveAgain, At
  <2>2. Steady /\ UNCHANGED sender
    BY <1>6 DEF ReceiveAgain, Steady, net, program, history, Fails
  <2>3. CASE Goto(w, "find") /\ UNCHANGED kernel
    <3>1. wk'[w].pc = "find" /\ wk'[w].conn = wk[w].conn /\ wk'[w].own = wk[w].own
      BY <2>3, Goes
    <3>2. Hand(wk'[w])
      BY <2>1, <3>1 DEF Hand, Served
    <3> QED BY <1>4, <2>2, <2>3, <3>1, <3>2
  <2>4. CASE PostReceive(w)
    <3>1. Become(w, Idle)
      BY <2>4 DEF PostReceive
    <3>2. wk'[w].pc = "get" /\ Hand(wk'[w])
      BY <3>1, Becomes, IdleIs DEF Hand
    <3> DEFINE o == [so |-> "READ", conn |-> wk[w].own]
    <3>3. o.conn = wk[w].own
      OBVIOUS
    <3>4. kernel' = Put(kernel, wk[w].io, o)
      BY <2>4 DEF PostReceive
    <3> HIDE DEF o
    <3>5. Running(o)
      BY <2>1, <3>3 DEF Running
    <3>6. \A i \in DOMAIN kernel' : \/ i \in DOMAIN kernel /\ kernel'[i] = kernel[i]
                                    \/ kernel'[i] = o
      BY <3>4, PutsOne, Zenon
    <3> QED BY <1>4, <2>2, <3>2, <3>5, <3>6
  <2> QED BY <1>6, <2>3, <2>4 DEF ReceiveAgain
<1>7. CASE NotFound(w)
  <2>1. Become(w, Idle)
    BY <1>7 DEF NotFound
  <2>2. wk'[w].pc = "get" /\ Hand(wk'[w])
    BY <2>1, Becomes, IdleIs DEF Hand
  <2> QED BY <1>4, <1>7, <2>2 DEF NotFound, Steady, net, program, history
<1>8. CASE FindSocketContext(w)
  <2> DEFINE r == [wk[w] EXCEPT !.pc = "erase", !.ctx = Lookup(wk[w].conn)]
  <2>1. wk'[w] = r /\ wk[w].pc = "find"
    BY <1>8, Becomes DEF FindSocketContext, At
  <2>2. r.pc = "erase" /\ r.conn = wk[w].conn /\ r.own = wk[w].own /\ r.ctx = Lookup(wk[w].conn)
    BY <1>3 DEF WorkerStates
  <2> HIDE DEF r
  <2>3. wk[w].conn \in Conns /\ wk[w].own \in {None, wk[w].conn}
    BY <1>3, <2>1 DEF Hand
  <2>4. r.ctx = m_mpClientSocket[wk[w].conn]
    BY <2>2, <2>3 DEF Lookup, Conns, None
  <2>5. Hand(r)
    BY <2>2, <2>3, <2>4 DEF Hand
  <2> QED BY <1>4, <1>8, <2>1, <2>2, <2>5 DEF FindSocketContext, Steady, net, program, history
<1> QED BY <1>5, <1>6, <1>7, <1>8

\* The program's calls, the network (but for a connection that comes) and Stop
\* (but for its end).
LEMMA KeptOtherSteps ==
    ASSUME ServerAssumption, Typed, Kept,
           \/ \E c \in Conns : SendFind(c) \/ Disconnect(c) \/ PeerCloses(c)
           \/ \E i \in DOMAIN kernel : AcceptFails(i) \/ Arrive(i) \/ Finish(i)
           \/ SendPost \/ StopBegin \/ StopList \/ StopWait \/ StopExit \/ StopJoin
           \/ UNCHANGED vars
    PROVE  Kept'
<1>0. packets \in Seq(Posted)
  BY DEF Typed
<1>1. ASSUME UNCHANGED wk, Steady,
             \A c \in Conns : Waiting(packets', c) <=> Waiting(packets, c),
             \A j \in DOMAIN packets' : \/ \E k \in DOMAIN packets : packets'[j] = packets[k]
                                        \/ Carried(packets'[j]),
             \A i \in DOMAIN kernel' : \/ i \in DOMAIN kernel /\ kernel'[i] = kernel[i]
                                       \/ Running(kernel'[i]),
             sender'.pc = "post" => \/ sender' = sender
                                    \/ /\ sender'.conn \in Conns /\ Served(sender'.conn)
                                       /\ sender'.ctx = m_mpClientSocket[sender'.conn]
      PROVE  Kept'
  <2>1. \A c : Adding(c)' <=> Adding(c)
    BY <1>1 DEF Adding, At
  <2>2. \A c \in Conns : Arriving(c)' <=> Arriving(c)
    BY <1>1, <2>1 DEF Arriving
  <2> QED BY <1>1, <2>2, KeptSteady
<1>2. ASSUME NEW p \in Posted, p # EXIT, packets' = Append(packets, p), Carried(p),
             \A c \in Conns : ~ Announces(p, c)
      PROVE  /\ \A c \in Conns : Waiting(packets', c) <=> Waiting(packets, c)
             /\ \A j \in DOMAIN packets' : \/ \E k \in DOMAIN packets : packets'[j] = packets[k]
                                           \/ Carried(packets'[j])
  BY <1>0, <1>2, LaterAppend
<1>3. ASSUME NEW d \in Conns, packets' = Append(packets, DISCONNECT(d))
      PROVE  /\ \A c \in Conns : Waiting(packets', c) <=> Waiting(packets, c)
             /\ \A j \in DOMAIN packets' : \/ \E k \in DOMAIN packets : packets'[j] = packets[k]
                                           \/ Carried(packets'[j])
  <2>1. Carried(DISCONNECT(d))
    BY Answers DEF Carried
  <2> QED BY <1>2, <1>3, <2>1, Quiet, Answers
<1>4. ASSUME NEW i \in DOMAIN kernel, AcceptFails(i) \/ Arrive(i) \/ Finish(i) PROVE Kept'
  <2>1. /\ UNCHANGED <<wk, sender>> /\ Steady
    BY <1>4 DEF AcceptFails, Arrive, Finish, Steady, net, history, program, Fails
  <2>2. kernel[i].so = "ACCEPT" \/ kernel[i].conn \in Conns
    BY TypedParts DEF TypedKernel
  <2>3. PICK c \in Conns \cup {None}, res \in {"data", "zero", "error", "aborted"} :
          /\ Complete(i, c, res)
          /\ \/ c = None /\ kernel[i].so = "ACCEPT" /\ res # "data"
             \/ c = kernel[i].conn /\ c \in Conns /\ kernel[i].so # "ACCEPT"
                /\ (res = "aborted" \/ sock[c] = "open")
    <3>1. CASE AcceptFails(i)
      <4>1. \E res \in {"error", "aborted"} : Complete(i, None, res) /\ kernel[i].so = "ACCEPT"
        BY <3>1 DEF AcceptFails
      <4>2. PICK res \in {"error", "aborted"} : Complete(i, None, res) /\ kernel[i].so = "ACCEPT"
        BY <4>1
      <4> QED BY <4>2
    <3>2. CASE Arrive(i)
      BY <2>2, <3>2 DEF Arrive
    <3>3. CASE Finish(i)
      <4>1. kernel[i].so # "ACCEPT" /\ kernel[i].conn \in Conns
        BY <2>2, <3>3 DEF Finish
      <4>2. \/ Complete(i, kernel[i].conn, "aborted")
            \/ \E res \in {"error", "zero", "data"} :
                 Complete(i, kernel[i].conn, res) /\ sock[kernel[i].conn] = "open"
        BY <3>3 DEF Finish
      <4> QED BY <4>1, <4>2
    <3> QED BY <1>4, <3>1, <3>2, <3>3
  <2>4. PICK p : Posts(p) /\ p.conn = c /\ p.so = kernel[i].so /\ p.res = res /\ p.io = i
    BY <2>3, CompletionPosts
  <2>5. kernel[i].so # "ACCEPT" /\ res # "aborted" => Served(c)
    BY <2>3 DEF Kept, OthersKept, Running
  <2>6. Carried(p)
    BY <2>4, <2>5 DEF Carried
  <2>7. \A d \in Conns : ~ Announces(p, d)
    BY <2>3, <2>4 DEF Announces
  <2>8. \A j \in DOMAIN kernel' : j \in DOMAIN kernel /\ kernel'[j] = kernel[j]
    BY <2>3, Completes
  <2>9. /\ \A d \in Conns : Waiting(packets', d) <=> Waiting(packets, d)
        /\ \A j \in DOMAIN packets' : \/ \E k \in DOMAIN packets : packets'[j] = packets[k]
                                      \/ Carried(packets'[j])
    BY <1>2, <2>4, <2>6, <2>7 DEF Posts
  <2> QED BY <1>1, <2>1, <2>8, <2>9
<1>5. ASSUME NEW c \in Conns, SendFind(c) PROVE Kept'
  <2>1. Served(c)
    BY <1>5 DEF SendFind, Kept, ContextsKept
  <2>2. sender'.conn = c /\ sender'.ctx = m_mpClientSocket[c]
    BY <1>5 DEF SendFind
  <2>3. /\ UNCHANGED <<wk, packets, kernel>> /\ Steady
    BY <1>5 DEF SendFind, Steady, net, history
  <2> QED BY <1>1, <2>1, <2>2, <2>3
<1>6. ASSUME NEW c \in Conns, Disconnect(c) PROVE Kept'
  <2>1. /\ UNCHANGED <<wk, sender, kernel>> /\ Steady /\ packets' = Append(packets, DISCONNECT(c))
    BY <1>6 DEF Disconnect, Steady, net, history
  <2> QED BY <1>1, <1>3, <2>1
<1>7. CASE SendPost
  <2>1. /\ sender.pc = "post" /\ sender.conn \in Conns /\ Served(sender.conn)
        /\ sender.ctx = m_mpClientSocket[sender.conn]
    BY <1>7 DEF SendPost, Kept, OthersKept
  <2>2. sender.ctx \in Contexts /\ holds[sender.ctx] = sender.conn /\ sender.conn # None
    BY <2>1, TypedParts DEF TypedContexts, Served, Kept, ContextsKept, Conns, None
  <2>3. Read(sender.ctx) = {sender.conn}
    BY <2>2, ReadHeld
  <2>4. /\ UNCHANGED <<packets, wk, sockets, net, heard, wrong>> /\ sender' = NoSend
        /\ Begun("WRITE", sender.conn) \/ UNCHANGED kernel
    BY <1>7, <2>3 DEF SendPost, program, Fails, NotBegun
  <2>5. \A i \in DOMAIN kernel' : \/ i \in DOMAIN kernel /\ kernel'[i] = kernel[i]
                                  \/ kernel'[i].conn = sender.conn
    BY <2>4, BegunKernel
  <2>6. \A i \in DOMAIN kernel' : \/ i \in DOMAIN kernel /\ kernel'[i] = kernel[i]
                                  \/ Running(kernel'[i])
    BY <2>1, <2>5 DEF Running
  <2>7. sender'.pc # "post" /\ Steady
    BY <2>4 DEF NoSend, Steady, net
  <2> QED BY <1>1, <2>4, <2>6, <2>7
<1>8. CASE (\E c \in Conns : PeerCloses(c)) \/ StopBegin \/ StopWait \/ StopJoin \/ UNCHANGED vars
  <2>1. UNCHANGED <<wk, packets, kernel, sender>> /\ Steady
    BY <1>8 DEF PeerCloses, StopBegin, StopWait, StopJoin, Steady, net, program, history, vars
  <2> QED BY <1>1, <2>1
<1>9. CASE StopList
  <2>1. UNCHANGED <<wk, kernel, sender>> /\ Steady
    BY <1>9 DEF StopList, Steady, net, program, history
  <2>2. iter \in 0..(MaxConns + 1) /\ MaxConns \in Nat /\ iter # 0
    BY <1>9 DEF Typed, TypeOK, StopList, ServerAssumption
  <2>3. iter <= MaxConns => iter \in Conns
    BY <2>2 DEF Conns
  <2>4. \/ packets' = packets
        \/ iter \in Conns /\ packets' = Append(packets, DISCONNECT(iter))
    BY <1>9, <2>3 DEF StopList
  <2> QED BY <1>1, <1>3, <2>1, <2>4
<1>10. CASE StopExit
  <2>1. UNCHANGED <<wk, kernel, sender>> /\ Steady /\ packets' = ExitsLast
    BY <1>10 DEF StopExit, Steady, net, program, history
  <2>2. Carried(EXIT)
    BY Answers DEF Carried
  <2>3. /\ \A c \in Conns : Waiting(packets', c) <=> Waiting(packets, c)
        /\ \A j \in DOMAIN packets' : \/ \E k \in DOMAIN packets : packets'[j] = packets[k]
                                      \/ Carried(packets'[j])
    BY <1>0, <2>1, <2>2, LaterExits DEF ExitsLast
  <2> QED BY <1>1, <2>1, <2>3
<1> QED BY <1>4, <1>5, <1>6, <1>7, <1>8, <1>9, <1>10

-----------------------------------------------------------------------------
(* Steps that change them.                                                 *)

\* ProcessAccept: the SOCKET_CONTEXT it takes serves nothing else.
LEMMA KeptAccept ==
    ASSUME ServerAssumption, Typed, ComesOnce, Kept, NEW w \in Workers, ProcessAccept(w)
    PROVE  Kept'
<1> DEFINE h == Head(packets)
           t == Tail(packets)
           some == m_lsFreeSocketContext # <<>>
           x == IF some THEN Head(m_lsFreeSocketContext) ELSE CHOOSE y \in Contexts : holds[y] = None
           r == [pc |-> "add", io |-> h.io, conn |-> h.conn, ctx |-> x, own |-> h.conn]
<1> USE DEF Kept
<1>1. /\ packets \in Seq(Posted) /\ packets # <<>> /\ t \in Seq(Posted) /\ h \in Posted
      /\ h.k = "IO" /\ h.so = "ACCEPT" /\ h.res = "data" /\ h.conn \in Conns /\ wk[w].pc = "get"
  BY Takes, PacketKinds DEF ProcessAccept, Got
<1>2. /\ packets' = AskAccept(t) /\ holds' = [holds EXCEPT ![x] = h.conn] /\ Become(w, r)
      /\ m_lsFreeSocketContext' = IF some THEN Tail(m_lsFreeSocketContext) ELSE <<>>
      /\ UNCHANGED <<m_mpClientSocket, key, sock, heard, wrong, kernel, sender>>
  BY DEF ProcessAccept, Holding, net, program, history
<1>3. /\ x \in Contexts /\ (x \in FreeContexts \/ holds[x] = None)
      /\ NoRepeat(m_lsFreeSocketContext') /\ FreeContexts' = FreeContexts \ {x}
  <2>1. m_lsFreeSocketContext \in Seq(Contexts) /\ NoRepeat(m_lsFreeSocketContext)
    BY DEF Typed, ContextsKept
  <2>2. CASE some
    BY <1>2, <2>1, <2>2, ListTail DEF FreeContexts
  <2>3. CASE ~ some
    <3>1. x \in Contexts /\ holds[x] = None
      BY <2>3 DEF ProcessAccept, HasContext
    <3>2. NoRepeat(<<>>) /\ Elements(<<>>) = {}
      BY DEF NoRepeat, Elements
    <3>3. FreeContexts = {} /\ FreeContexts' = {} /\ NoRepeat(m_lsFreeSocketContext')
      BY <1>2, <2>3, <3>2 DEF FreeContexts
    <3> QED BY <3>1, <3>3
  <2> QED BY <2>2, <2>3
<1>4. r.pc = "add" /\ r.own = h.conn /\ r.ctx = x
  OBVIOUS
<1> HIDE DEF x, r, h, t
<1>5. wk'[w] = r /\ \A v \in Workers \ {w} : wk'[v] = wk[v]
  BY <1>2, Becomes
<1>6. holds \in [Contexts -> Conns \cup {None}] /\ m_mpClientSocket \in [Conns -> Contexts \cup {None}]
      /\ None \notin Conns
  BY TypedParts DEF TypedContexts, Conns, None
<1>7. holds'[x] = h.conn /\ \A y \in Contexts \ {x} : holds'[y] = holds[y]
  BY <1>2, <1>3, <1>6
<1>8. \A d \in Conns : m_mpClientSocket[d] # None => m_mpClientSocket[d] \in Contexts \ {x}
  BY <1>3, <1>6 DEF ContextsKept
<1>9. ContextsKept'
  <2>1. \A y \in FreeContexts' : holds'[y] # None
    <3>1. FreeContexts \subseteq Contexts
      BY DEF FreeContexts, Elements, Typed
    <3> QED BY <1>3, <1>7, <3>1 DEF ContextsKept
  <2>2. \A d \in Conns : m_mpClientSocket[d] # None =>
          /\ holds'[m_mpClientSocket[d]] = d /\ m_mpClientSocket[d] \notin FreeContexts'
    BY <1>3, <1>7, <1>8 DEF ContextsKept
  <2> QED BY <1>2, <1>3, <2>1, <2>2 DEF ContextsKept, Served
<1>10. \A c \in Conns : Arriving(c)' <=> Arriving(c)
  <2>1. ASSUME NEW c \in Conns
        PROVE  /\ Waiting(t, c) => Waiting(packets, c)
               /\ Waiting(packets, c) => Waiting(t, c) \/ c = h.conn
               /\ c = h.conn => Waiting(packets, c)
    BY <1>1, LaterTail DEF Announces, h, t
  <2>2. \A c \in Conns : Waiting(packets', c) <=> Waiting(t, c)
    BY <1>1, <1>2, LaterAppend, Quiet, Answers DEF AskAccept
  <2>3. \A c \in Conns : Adding(c)' <=> Adding(c) \/ c = h.conn
    BY <1>1, <1>4, <1>5 DEF Adding, At
  <2> QED BY <2>1, <2>2, <2>3 DEF Arriving
<1>11. ArrivalsKept'
  BY <1>2, <1>10 DEF ArrivalsKept, Fresh
<1>12. ASSUME NEW v \in Workers PROVE Hand(wk[v])'
  <2>1. CASE v = w
    BY <1>3, <1>4, <1>5, <1>7, <2>1 DEF Hand
  <2>2. CASE v # w
    <3>1. Hand(wk[v]) /\ Locals(v)
      BY DEF HandsKept, Typed
    <3>2. wk[v].pc = "add" => holds[wk[v].ctx] \in Conns
      BY <3>1 DEF Hand, Locals
    <3>3. wk[v].pc = "push" => holds[wk[v].ctx] \in Conns
      BY <3>1 DEF Hand
    <3>4. wk[v].pc \in {"add", "push"} => /\ wk[v].ctx \in Contexts \ {x}
                                          /\ wk[v].ctx \notin FreeContexts'
      BY <1>3, <1>6, <3>1, <3>2, <3>3 DEF Hand, Locals
    <3> QED BY <1>2, <1>5, <1>7, <2>2, <3>1, <3>4 DEF Hand, Served
  <2> QED BY <2>1, <2>2
<1>13. \A c \in Conns, v \in Workers : /\ Starting(v, c)' => Starting(v, c)
                                       /\ Pushing(v, c)' => Pushing(v, c)
  BY <1>4, <1>5 DEF Starting, Pushing, At
<1>14. HandsKept'
  BY <1>12, <1>13 DEF HandsKept
<1>15. \A j \in DOMAIN packets' : Carried(packets'[j])
  <2>1. \A j \in DOMAIN t : Carried(t[j])
    BY <1>1, LaterTail DEF OthersKept, t
  <2>2. Carried(ACCEPT)
    BY Quiet
  <2>3. \A j \in DOMAIN packets' : packets'[j] = ACCEPT \/ \E k \in DOMAIN t : packets'[j] = t[k]
    BY <1>1, <1>2, LaterAppend, Quiet, Answers DEF AskAccept
  <2> QED BY <2>1, <2>2, <2>3
<1>16. OthersKept'
  BY <1>2, <1>15 DEF OthersKept, Carried, Running, Served
<1> QED BY <1>9, <1>11, <1>14, <1>16

\* AddClientSocket: the connection was not in the map, and nothing knows it.
LEMMA KeptAdds ==
    ASSUME ServerAssumption, Typed, ComesOnce, Kept, NEW w \in Workers, AddClientSocket(w)
    PROVE  Kept'
<1> DEFINE c == wk[w].own
           x == wk[w].ctx
<1> USE DEF Kept
<1>1. /\ wk[w].pc = "add" /\ wk[w].conn = c /\ c \in Conns /\ x \in Contexts
      /\ holds[x] = c /\ x \notin FreeContexts
  BY DEF AddClientSocket, At, Typed, Locals, HandsKept, Hand
<1>2. /\ m_mpClientSocket' = [m_mpClientSocket EXCEPT ![c] = x]
      /\ UNCHANGED <<packets, m_lsFreeSocketContext, holds, key, sock, heard, wrong, kernel, sender>>
  BY <1>1 DEF AddClientSocket, net, program, history
<1>3. /\ wk'[w].pc = "receive" /\ wk'[w].own = c /\ wk'[w].ctx = x
      /\ \A v \in Workers \ {w} : wk'[v] = wk[v]
  BY Goes DEF AddClientSocket
<1> HIDE DEF c, x
<1>4. m_mpClientSocket \in [Conns -> Contexts \cup {None}] /\ None \notin Contexts
  BY TypedParts DEF TypedContexts, ServerAssumption
<1>5. m_mpClientSocket'[c] = x /\ \A d \in Conns \ {c} : m_mpClientSocket'[d] = m_mpClientSocket[d]
  BY <1>1, <1>2, <1>4
<1>6. Adding(c)
  BY <1>1 DEF Adding, At, c
<1>7. m_mpClientSocket[c] = None /\ sock[c] = "open" /\ Fresh(c)
  BY <1>1, <1>6 DEF ComesOnce, Arriving, ArrivalsKept
<1>8. x # None /\ \A d : Served(d) => d # c
  BY <1>1, <1>4, <1>7 DEF Served
<1>9. \A d \in Conns : Served(d) => Served(d)'
  BY <1>2, <1>5, <1>8 DEF Served
<1>10. FreeContexts' = FreeContexts
  BY <1>2 DEF FreeContexts
<1>11. ContextsKept'
  <2> SUFFICES ASSUME NEW d \in Conns
               PROVE  /\ m_mpClientSocket'[d] # None => /\ holds[m_mpClientSocket'[d]] = d
                                                        /\ m_mpClientSocket'[d] \notin FreeContexts
                                                        /\ sock[d] = "open"
                      /\ d \in heard => m_mpClientSocket'[d] = None \/ Served(d)'
    BY <1>2, <1>10 DEF ContextsKept
  <2>1. CASE d = c
    BY <1>1, <1>5, <1>7, <2>1 DEF Fresh
  <2>2. CASE d # c
    BY <1>5, <1>9, <2>2 DEF ContextsKept
  <2> QED BY <2>1, <2>2
<1>12. \A d \in Conns : Arriving(d)' => Arriving(d) /\ d # c
  <2>1. ASSUME NEW d \in Conns, Adding(d)' PROVE Adding(d) /\ d # c
    <3>1. PICK v \in Workers : wk'[v].pc = "add" /\ wk'[v].own = d
      BY <2>1 DEF Adding, At
    <3>2. v # w /\ wk[v].pc = "add" /\ wk[v].own = d
      BY <1>3, <3>1
    <3>3. d # c
      BY <1>1, <3>2 DEF ComesOnce, At, c
    <3> QED BY <3>2, <3>3 DEF Adding, At
  <2>2. ~ Waiting(packets, c)
    BY <1>1, <1>6 DEF ComesOnce
  <2> QED BY <1>2, <2>1, <2>2 DEF Arriving
<1>13. \A d \in Conns : Arriving(d) /\ d # c => Arriving(d)'
  <2>1. ASSUME NEW d \in Conns, Adding(d), d # c PROVE Adding(d)'
    <3>1. PICK v \in Workers : wk[v].pc = "add" /\ wk[v].own = d
      BY <2>1 DEF Adding, At
    <3>2. v # w
      BY <2>1, <3>1 DEF c
    <3> QED BY <1>3, <3>1, <3>2 DEF Adding, At
  <2> QED BY <1>2, <2>1 DEF Arriving
<1>14. ArrivalsKept'
  <2> SUFFICES ASSUME NEW d \in Conns
               PROVE  /\ sock[d] = "open" => m_mpClientSocket'[d] # None \/ Arriving(d)'
                      /\ Arriving(d)' => sock[d] = "open"
                      /\ Arriving(d)' \/ sock[d] = "none" => Fresh(d)
    BY <1>2 DEF ArrivalsKept, Fresh
  <2> QED BY <1>5, <1>8, <1>12, <1>13 DEF ArrivalsKept
<1>15. ASSUME NEW v \in Workers PROVE Hand(wk[v])'
  <2>1. CASE v = w
    BY <1>2, <1>3, <1>5, <1>7, <2>1 DEF Hand, Fresh
  <2>2. CASE v # w
    <3>1. Hand(wk[v]) /\ Locals(v)
      BY DEF HandsKept, Typed
    <3>2. wk[v].pc = "push" => wk[v].conn # c
      BY <1>7, <3>1 DEF Hand
    <3>3. wk[v].pc \in {"receive", "deliver", "repost"} => wk[v].own \in Conns \ {c}
      BY <1>4, <1>7, <3>1 DEF Hand, Locals, Served
    <3>4. wk[v].pc = "find" /\ wk[v].own # None => wk[v].own \in Conns \ {c}
      BY <1>7, <3>1 DEF Hand
    <3>5. wk[v].pc = "erase" => wk[v].conn \in Conns \ {c}
      BY <1>4, <1>7, <3>1 DEF Hand, Locals
    <3> QED BY <1>2, <1>3, <1>5, <1>9, <1>10, <2>2, <3>1, <3>2, <3>3, <3>4, <3>5 DEF Hand
  <2> QED BY <2>1, <2>2
<1>16. ASSUME NEW d \in Conns, NEW u \in Workers, NEW v \in Workers,
              (Starting(u, d)' /\ Starting(v, d)') \/ (Pushing(u, d)' /\ Pushing(v, d)')
       PROVE  u = v
  <2>1. \A y \in Workers \ {w} : /\ Starting(y, d)' => Starting(y, d) /\ d # c
                                 /\ Pushing(y, d)' => Pushing(y, d)
    <3> SUFFICES ASSUME NEW y \in Workers \ {w}
                 PROVE  /\ Starting(y, d)' => Starting(y, d) /\ d # c
                        /\ Pushing(y, d)' => Pushing(y, d)
      OBVIOUS
    <3>1. /\ Starting(y, d)' => Starting(y, d)
          /\ Pushing(y, d)' => Pushing(y, d)
      BY <1>3 DEF Starting, Pushing, At
    <3>2. Hand(wk[y]) /\ Locals(y)
      BY DEF HandsKept, Typed
    <3>3. Starting(y, d) => d # c
      BY <1>4, <1>7, <3>2 DEF Starting, At, Hand, Locals
    <3> QED BY <3>1, <3>3
  <2>2. (Starting(w, d)' => d = c) /\ ~ Pushing(w, d)'
    BY <1>3 DEF Starting, Pushing, At
  <2>3. u = w \/ v = w => u = v
    BY <1>16, <2>1, <2>2
  <2>4. u # w /\ v # w => u = v
    BY <1>16, <2>1 DEF HandsKept
  <2> QED BY <2>3, <2>4
<1>17. HandsKept'
  BY <1>15, <1>16 DEF HandsKept
<1>18. OthersKept'
  <2>1. \A j \in DOMAIN packets' : Carried(packets[j])'
    <3> SUFFICES ASSUME NEW j \in DOMAIN packets PROVE Carried(packets[j])'
      BY <1>2
    <3>1. packets[j] \in Posted /\ Carried(packets[j])
      BY DEF OthersKept, Typed
    <3>2. packets[j].k = "IO" /\ packets[j].so # "ACCEPT" => packets[j].conn \in Conns
      BY <3>1, PacketKinds
    <3> QED BY <1>2, <1>9, <3>1, <3>2 DEF Carried
  <2>2. \A i \in DOMAIN kernel' : Running(kernel[i])'
    <3> SUFFICES ASSUME NEW i \in DOMAIN kernel PROVE Running(kernel[i])'
      BY <1>2
    <3>1. Running(kernel[i]) /\ (kernel[i].so # "ACCEPT" => kernel[i].conn \in Conns)
      BY DEF OthersKept, Typed
    <3> QED BY <1>2, <1>9, <3>1 DEF Running
  <2>3. sender.pc = "post" => sender.conn # c
    BY <1>8 DEF OthersKept
  <2> QED BY <1>2, <1>5, <1>9, <2>1, <2>2, <2>3 DEF OthersKept
<1> QED BY <1>11, <1>14, <1>17, <1>18

\* Steps of a worker that wait for no connection and post nothing.
LEMMA ArrivingSame ==
    ASSUME UNCHANGED packets, NEW w \in Workers, wk[w].pc # "add", wk'[w].pc # "add",
           \A v \in Workers \ {w} : wk'[v] = wk[v]
    PROVE  \A c : Arriving(c)' <=> Arriving(c)
<1>1. \A c : Adding(c)' <=> Adding(c)
  BY DEF Adding, At
<1> QED BY <1>1 DEF Arriving

\* Associate: the socket's key becomes the connection's own SOCKET_CONTEXT.
LEMMA KeptAssociate ==
    ASSUME ServerAssumption, Typed, ComesOnce, Kept, NEW w \in Workers, Associate(w)
    PROVE  Kept'
<1>0. PICK c, x : c = wk[w].own /\ x = wk[w].ctx
  OBVIOUS
<1> DEFINE o == [so |-> "READ", conn |-> c]
<1> USE <1>0 DEF Kept
<1>1. /\ wk[w].pc = "receive" /\ c \in Conns /\ x \in Contexts
      /\ m_mpClientSocket[c] = x /\ key[c] = None /\ sock[c] = "open"
  BY DEF Associate, At, Typed, Locals, HandsKept, Hand
<1>2. /\ key' = [key EXCEPT ![c] = x]
      /\ UNCHANGED <<packets, m_mpClientSocket, m_lsFreeSocketContext, holds, sock, heard, wrong, sender>>
  BY DEF Associate, net, program, history, Fails
<1>3. Become(w, Idle) /\ (UNCHANGED kernel \/ kernel' = Put(kernel, wk[w].io, o))
  BY DEF Associate, PostReceive
<1>4. o.conn = c
  OBVIOUS
<1>5. wk'[w].pc = "get" /\ \A v \in Workers \ {w} : wk'[v] = wk[v]
  BY <1>3, Becomes, IdleIs
<1> HIDE DEF o
<1>6. key \in [Conns -> Contexts \cup {None}] /\ None \notin Contexts
  BY TypedParts DEF TypedContexts, ServerAssumption
<1>7. key'[c] = x /\ \A d \in Conns \ {c} : key'[d] = key[d]
  BY <1>1, <1>2, <1>6
<1>8. Served(c)' /\ ~ Served(c)
  BY <1>1, <1>2, <1>6, <1>7 DEF Served
<1>9. \A d \in Conns : Served(d) => Served(d)'
  BY <1>2, <1>7, <1>8 DEF Served
<1>10. FreeContexts' = FreeContexts
  BY <1>2 DEF FreeContexts
<1>11. ContextsKept'
  BY <1>2, <1>9, <1>10 DEF ContextsKept
<1>12. \A d : Arriving(d)' <=> Arriving(d)
  BY <1>1, <1>2, <1>5, ArrivingSame
<1>13. ~ Arriving(c)
  BY <1>1, <1>6 DEF ComesOnce
<1>14. ArrivalsKept'
  <2>1. \A d \in Conns : d # c => (Fresh(d)' <=> Fresh(d))
    BY <1>2, <1>7 DEF Fresh
  <2> QED BY <1>1, <1>2, <1>12, <1>13, <2>1 DEF ArrivalsKept
<1>15. ASSUME NEW v \in Workers PROVE Hand(wk[v])'
  <2>1. CASE v = w
    BY <1>5, <2>1 DEF Hand
  <2>2. CASE v # w
    <3>1. Hand(wk[v]) /\ Locals(v)
      BY DEF HandsKept, Typed
    <3>2. wk[v].pc = "receive" => wk[v].own \in Conns \ {c}
      BY <1>1, <2>2, <3>1 DEF HandsKept, Starting, At, Locals
    <3>3. \A d : Served(d) /\ d \in Conns => Served(d)'
      BY <1>9
    <3>4. wk[v].pc \in {"deliver", "repost"} => wk[v].own \in Conns \ {c}
      BY <1>8, <3>1 DEF Hand, Locals
    <3> QED BY <1>2, <1>5, <1>7, <1>10, <2>2, <3>1, <3>2, <3>4 DEF Hand, Served
  <2> QED BY <2>1, <2>2
<1>16. \A d \in Conns, v \in Workers : /\ Starting(v, d)' => Starting(v, d)
                                       /\ Pushing(v, d)' => Pushing(v, d)
  BY <1>5 DEF Starting, Pushing, At
<1>17. HandsKept'
  BY <1>15, <1>16 DEF HandsKept
<1>18. OthersKept'
  <2>1. \A j \in DOMAIN packets' : Carried(packets[j])'
    <3> SUFFICES ASSUME NEW j \in DOMAIN packets PROVE Carried(packets[j])'
      BY <1>2
    <3>1. packets[j] \in Posted /\ Carried(packets[j])
      BY DEF OthersKept, Typed
    <3>2. packets[j].k = "IO" /\ packets[j].so # "ACCEPT" => packets[j].conn \in Conns
      BY <3>1, PacketKinds
    <3> QED BY <1>2, <1>9, <3>1, <3>2 DEF Carried
  <2>2. \A i \in DOMAIN kernel' : Running(kernel[i])'
    <3> SUFFICES ASSUME NEW i \in DOMAIN kernel' PROVE Running(kernel[i])'
      OBVIOUS
    <3>1. CASE kernel'[i] = o
      <4>1. kernel'[i].conn = c
        BY <1>4, <3>1
      <4> QED BY <1>2, <1>8, <4>1 DEF Running, Served
    <3>2. CASE i \in DOMAIN kernel /\ kernel'[i] = kernel[i]
      <4>1. Running(kernel[i]) /\ (kernel[i].so # "ACCEPT" => kernel[i].conn \in Conns)
        BY <3>2 DEF OthersKept, Typed
      <4>2. sock[kernel[i].conn] = "closed" \/ kernel[i].so = "ACCEPT" \/ Served(kernel[i].conn)
        BY <4>1 DEF Running
      <4>3. kernel[i].so # "ACCEPT" /\ Served(kernel[i].conn) => kernel[i].conn \in Conns \ {c}
        BY <1>8, <4>1
      <4>4. Served(kernel[i].conn) /\ kernel[i].conn \in Conns \ {c} =>
              m_mpClientSocket'[kernel[i].conn] # None
              /\ key'[kernel[i].conn] = m_mpClientSocket'[kernel[i].conn]
        BY <1>2, <1>7 DEF Served
      <4> HIDE <1>0
      <4> DEFINE k == kernel[i]
      <4>5. kernel'[i] = k
        BY <3>2
      <4>6. k.so # "ACCEPT" =>
              sock'[k.conn] = "closed" \/ (m_mpClientSocket'[k.conn] # None
                                          /\ key'[k.conn] = m_mpClientSocket'[k.conn])
        BY <1>2, <4>2, <4>3, <4>4
      <4> HIDE DEF k
      <4> QED BY <4>5, <4>6 DEF Running, Served
    <3>3. CASE kernel' = Put(kernel, wk[w].io, o)
      <4> HIDE <1>0
      <4>1. \A j \in DOMAIN kernel' : \/ j \in DOMAIN kernel /\ kernel'[j] = kernel[j]
                                      \/ kernel'[j] = o
        BY <3>3, PutsOne, Zenon
      <4> QED BY <3>1, <3>2, <4>1
    <3>4. CASE UNCHANGED kernel
      BY <3>2, <3>4
    <3> QED BY <1>3, <3>3, <3>4
  <2> QED BY <1>2, <1>9, <2>1, <2>2 DEF OthersKept
<1> QED BY <1>11, <1>14, <1>17, <1>18

\* Deliver: under the connection that the data came from.
LEMMA KeptDeliver ==
    ASSUME ServerAssumption, Typed, ComesOnce, Kept, NEW w \in Workers, Deliver(w)
    PROVE  Kept'
<1> DEFINE c == wk[w].own
<1> USE DEF Kept
<1>1. wk[w].pc = "deliver" /\ c \in Conns /\ wk[w].conn = c /\ Served(c)
  BY DEF Deliver, At, Typed, Locals, HandsKept, Hand
<1>2. key[c] \in Contexts /\ holds[key[c]] = c /\ c # None
  BY <1>1, TypedParts DEF TypedContexts, Served, ContextsKept, Conns, None
<1>3. Read(key[c]) = {c}
  BY <1>2, ReadHeld
<1>4. /\ heard' = heard \cup {c} /\ wrong' = wrong
      /\ UNCHANGED <<packets, m_mpClientSocket, m_lsFreeSocketContext, holds, key, sock, sender, kernel>>
  BY <1>3 DEF Deliver, sockets, net
<1>5. /\ wk'[w].pc = "repost" /\ wk'[w].own = c /\ wk'[w].conn = c
      /\ \A v \in Workers \ {w} : wk'[v] = wk[v]
  BY <1>1, Goes DEF Deliver
<1> HIDE DEF c
<1>6. FreeContexts' = FreeContexts /\ \A d : Served(d)' <=> Served(d)
  BY <1>4 DEF FreeContexts, Served
<1>7. ContextsKept'
  BY <1>1, <1>4, <1>6 DEF ContextsKept
<1>8. \A d : Arriving(d)' <=> Arriving(d)
  BY <1>1, <1>4, <1>5, ArrivingSame
<1>9. ~ Arriving(c) /\ sock[c] # "none"
  BY <1>1 DEF ComesOnce, Served, ContextsKept
<1>10. ArrivalsKept'
  BY <1>4, <1>8, <1>9 DEF ArrivalsKept, Fresh
<1>11. ASSUME NEW v \in Workers PROVE Hand(wk[v])'
  <2>1. Hand(wk[v])
    BY DEF HandsKept
  <2> QED BY <1>1, <1>4, <1>5, <1>6, <2>1 DEF Hand
<1>12. \A d \in Conns, v \in Workers : /\ Starting(v, d)' => Starting(v, d)
                                       /\ Pushing(v, d)' => Pushing(v, d)
  BY <1>5 DEF Starting, Pushing, At
<1>13. HandsKept'
  BY <1>11, <1>12 DEF HandsKept
<1>14. OthersKept'
  BY <1>4, <1>6 DEF OthersKept, Carried, Running
<1> QED BY <1>7, <1>10, <1>13, <1>14

\* Erase: when nothing else has the connection in hand.
LEMMA KeptErase ==
    ASSUME ServerAssumption, Typed, ComesOnce, Kept, NEW w \in Workers, Erase(w), ~ overtaken'
    PROVE  Kept'
<1> DEFINE c == wk[w].conn
           x == wk[w].ctx
<1> USE DEF Kept
<1>1. /\ wk[w].pc = "erase" /\ c \in Conns /\ x \in Contexts /\ m_mpClientSocket[c] = x
      /\ wk[w].own \in {None, c}
  BY DEF Erase, At, Typed, Locals, HandsKept, Hand
<1>2. x # None /\ holds[x] = c /\ x \notin FreeContexts /\ sock[c] = "open" /\ c # None
  BY <1>1 DEF ServerAssumption, ContextsKept, Conns, None
<1>3. Read(x) = {c}
  BY <1>1, <1>2, ReadHeld
<1>4. /\ sock' = Closed(c) /\ wrong' = wrong /\ ~ InHand(w, c)
      /\ m_mpClientSocket' = [m_mpClientSocket EXCEPT ![c] = None]
      /\ UNCHANGED <<packets, m_lsFreeSocketContext, holds, key, heard, sender, kernel>>
  BY <1>1, <1>3 DEF Erase, Erased, program
<1>5. /\ wk'[w].pc = "push" /\ wk'[w].own = wk[w].own /\ wk'[w].conn = c /\ wk'[w].ctx = x
      /\ \A v \in Workers \ {w} : wk'[v] = wk[v]
  BY Goes DEF Erase
<1> HIDE DEF c, x
<1>6. m_mpClientSocket \in [Conns -> Contexts \cup {None}]
  BY TypedParts DEF TypedContexts
<1>7. m_mpClientSocket'[c] = None /\ \A d \in Conns \ {c} : m_mpClientSocket'[d] = m_mpClientSocket[d]
  BY <1>1, <1>4, <1>6
<1>8. sock'[c] = "closed" /\ \A d \in Conns \ {c} : sock'[d] = sock[d]
  BY <1>1, <1>4 DEF Closed
<1>9. /\ \A v \in Workers \ {w} : wk[v].conn # c /\ wk[v].own # c
      /\ sender.conn # c
      /\ \A j \in DOMAIN packets : packets[j].k = "IO" /\ packets[j].conn = c
                                   => packets[j].res = "aborted"
  BY <1>4 DEF InHand
<1>10. FreeContexts' = FreeContexts
  BY <1>4 DEF FreeContexts
<1>11. \A d \in Conns \ {c} : Served(d)' <=> Served(d)
  BY <1>4, <1>7 DEF Served
<1>12. ContextsKept'
  <2> SUFFICES ASSUME NEW d \in Conns
               PROVE  /\ m_mpClientSocket'[d] # None => /\ holds[m_mpClientSocket'[d]] = d
                                                        /\ m_mpClientSocket'[d] \notin FreeContexts
                                                        /\ sock'[d] = "open"
                      /\ d \in heard => m_mpClientSocket'[d] = None \/ Served(d)'
    BY <1>4, <1>10 DEF ContextsKept
  <2> QED BY <1>7, <1>8, <1>11 DEF ContextsKept
<1>13. \A d : Arriving(d)' <=> Arriving(d)
  BY <1>1, <1>4, <1>5, ArrivingSame
<1>14. ~ Arriving(c)
  BY <1>1, <1>2 DEF ComesOnce
<1>15. ArrivalsKept'
  <2> SUFFICES ASSUME NEW d \in Conns
               PROVE  /\ sock'[d] = "open" => m_mpClientSocket'[d] # None \/ Arriving(d)
                      /\ Arriving(d) => sock'[d] = "open"
                      /\ Arriving(d) \/ sock'[d] = "none" => Fresh(d)
    BY <1>4, <1>13 DEF ArrivalsKept, Fresh
  <2> QED BY <1>7, <1>8, <1>14 DEF ArrivalsKept
<1>16. ASSUME NEW v \in Workers PROVE Hand(wk[v])'
  <2>1. CASE v = w
    BY <1>1, <1>2, <1>4, <1>5, <1>7, <1>8, <1>10, <2>1 DEF Hand
  <2>2. CASE v # w
    <3>1. Hand(wk[v]) /\ Locals(v) /\ wk[v].conn # c /\ wk[v].own # c
      BY <1>9, <2>2 DEF HandsKept, Typed
    <3>2. wk[v].pc \in {"receive", "deliver", "repost"} => wk[v].own \in Conns \ {c}
      BY <3>1 DEF Locals
    <3>3. wk[v].pc \in {"find", "erase", "push"} => wk[v].conn \in Conns \ {c}
      BY <3>1 DEF Hand
    <3> QED BY <1>4, <1>5, <1>7, <1>8, <1>10, <1>11, <2>2, <3>1, <3>2, <3>3 DEF Hand
  <2> QED BY <2>1, <2>2
<1>17. ASSUME NEW d \in Conns, NEW u \in Workers, NEW v \in Workers,
              (Starting(u, d)' /\ Starting(v, d)') \/ (Pushing(u, d)' /\ Pushing(v, d)')
       PROVE  u = v
  <2>1. \A y \in Workers \ {w} : /\ Starting(y, d)' => Starting(y, d)
                                 /\ Pushing(y, d)' => Pushing(y, d) /\ d # c
    BY <1>5, <1>9 DEF Starting, Pushing, At
  <2>2. ~ Starting(w, d)' /\ (Pushing(w, d)' => d = c)
    BY <1>5 DEF Starting, Pushing, At
  <2>3. u = w \/ v = w => u = v
    BY <1>17, <2>1, <2>2
  <2>4. u # w /\ v # w => u = v
    BY <1>17, <2>1 DEF HandsKept
  <2> QED BY <2>3, <2>4
<1>18. HandsKept'
  BY <1>16, <1>17 DEF HandsKept
<1>19. OthersKept'
  <2>1. \A j \in DOMAIN packets' : Carried(packets[j])'
    <3> SUFFICES ASSUME NEW j \in DOMAIN packets PROVE Carried(packets[j])'
      BY <1>4
    <3>1. packets[j] \in Posted /\ Carried(packets[j])
      BY DEF OthersKept, Typed
    <3>2. packets[j].k = "IO" /\ packets[j].so # "ACCEPT" => packets[j].conn \in Conns
      BY <3>1, PacketKinds
    <3> QED BY <1>4, <1>9, <1>11, <3>1, <3>2 DEF Carried
  <2>2. \A i \in DOMAIN kernel' : Running(kernel[i])'
    <3> SUFFICES ASSUME NEW i \in DOMAIN kernel PROVE Running(kernel[i])'
      BY <1>4
    <3>1. Running(kernel[i]) /\ (kernel[i].so # "ACCEPT" => kernel[i].conn \in Conns)
      BY DEF OthersKept, Typed
    <3> QED BY <1>4, <1>8, <1>11, <3>1 DEF Running
  <2> QED BY <1>4, <1>7, <1>9, <1>11, <2>1, <2>2 DEF OthersKept
<1> QED BY <1>12, <1>15, <1>18, <1>19

\* PushFree: the SOCKET_CONTEXT it gives back, or deletes, is nobody's.
LEMMA KeptPush ==
    ASSUME ServerAssumption, Typed, ComesOnce, Kept, NEW w \in Workers, PushFree(w)
    PROVE  Kept'
<1>0. PICK c, x : c = wk[w].conn /\ x = wk[w].ctx
  OBVIOUS
<1> DEFINE after == AddFree(m_lsFreeSocketContext, x, SocketPool, SocketHold)
           gone == Elements(Append(m_lsFreeSocketContext, x)) \ Elements(after)
<1> USE DEF Kept
<1>1. /\ wk[w].pc = "push" /\ c \in Conns /\ x \in Contexts /\ m_mpClientSocket[c] = None
      /\ holds[x] = c /\ x \notin FreeContexts /\ sock[c] = "closed"
  BY <1>0 DEF PushFree, At, Typed, Locals, HandsKept, Hand
<1>2. /\ m_lsFreeSocketContext' = after
      /\ holds' = [y \in Contexts |-> IF y \in gone THEN None ELSE holds[y]]
      /\ Become(w, Idle)
      /\ UNCHANGED <<packets, m_mpClientSocket, key, sock, heard, wrong, sender, kernel>>
  BY <1>0 DEF PushFree, net, program, history
<1>3. /\ m_lsFreeSocketContext \in Seq(Contexts) /\ NoRepeat(m_lsFreeSocketContext)
      /\ Len(m_lsFreeSocketContext) <= SocketHold /\ SocketHold \in Nat /\ SocketPool \in 0..SocketHold
  BY DEF Typed, TypeOK, ServerAssumption, ContextsKept
<1>4. /\ NoRepeat(after) /\ Elements(after) \subseteq FreeContexts \cup {x}
      /\ gone = (FreeContexts \cup {x}) \ Elements(after)
  BY <1>1, <1>3, ListPut DEF FreeContexts
<1>5. wk'[w].pc = "get" /\ \A v \in Workers \ {w} : wk'[v] = wk[v]
  BY <1>2, Becomes, IdleIs
<1> HIDE DEF after, gone
<1>6. FreeContexts' = Elements(after)
  BY <1>2 DEF FreeContexts
<1>7. FreeContexts \subseteq Contexts /\ c # None
  BY <1>1, <1>3 DEF FreeContexts, Elements, Conns, None
<1>8. \A y \in Contexts : /\ y \in FreeContexts' => holds'[y] = holds[y] /\ holds[y] # None
                          /\ y \notin FreeContexts /\ y # x => /\ holds'[y] = holds[y]
                                                               /\ y \notin FreeContexts'
  BY <1>1, <1>2, <1>4, <1>6, <1>7 DEF ContextsKept
<1>9. \A d \in Conns : m_mpClientSocket[d] # None =>
        m_mpClientSocket[d] \in Contexts \ {x} /\ m_mpClientSocket[d] \notin FreeContexts
  <2>1. m_mpClientSocket \in [Conns -> Contexts \cup {None}]
    BY TypedParts DEF TypedContexts
  <2> QED BY <1>1, <2>1 DEF ContextsKept
<1>10. \A d : Served(d)' <=> Served(d)
  BY <1>2 DEF Served
<1>11. ContextsKept'
  <2>1. \A y \in FreeContexts' : holds'[y] # None
    BY <1>1, <1>4, <1>6, <1>7, <1>8
  <2>2. \A d \in Conns : m_mpClientSocket[d] # None => /\ holds'[m_mpClientSocket[d]] = d
                                                       /\ m_mpClientSocket[d] \notin FreeContexts'
    BY <1>8, <1>9 DEF ContextsKept
  <2> QED BY <1>2, <1>4, <1>10, <2>1, <2>2 DEF ContextsKept
<1>12. \A d : Arriving(d)' <=> Arriving(d)
  BY <1>1, <1>2, <1>5, ArrivingSame
<1>13. ArrivalsKept'
  BY <1>2, <1>12 DEF ArrivalsKept, Fresh
<1>14. ASSUME NEW v \in Workers PROVE Hand(wk[v])'
  <2>1. CASE v = w
    BY <1>5, <2>1 DEF Hand
  <2>2. CASE v # w
    <3>1. Hand(wk[v]) /\ Locals(v)
      BY DEF HandsKept, Typed
    <3>2. ASSUME wk[v].pc = "add"
          PROVE  /\ wk[v].ctx \in Contexts \ {x} /\ wk[v].ctx \notin FreeContexts
                 /\ holds[wk[v].ctx] = wk[v].own
      <4>1. wk[v].own \in Conns /\ holds[wk[v].ctx] = wk[v].own /\ wk[v].ctx \in Contexts
            /\ wk[v].ctx \notin FreeContexts
        BY <3>1, <3>2 DEF Hand, Locals
      <4>2. Adding(wk[v].own)
        BY <3>2 DEF Adding, At
      <4>3. sock[wk[v].own] = "open"
        BY <4>1, <4>2 DEF ArrivalsKept, Arriving
      <4> QED BY <1>1, <4>1, <4>3
    <3>3. ASSUME wk[v].pc = "push"
          PROVE  /\ wk[v].ctx \in Contexts \ {x} /\ wk[v].ctx \notin FreeContexts
                 /\ holds[wk[v].ctx] = wk[v].conn
      <4>1. wk[v].conn \in Conns /\ holds[wk[v].ctx] = wk[v].conn /\ wk[v].ctx \in Contexts
            /\ wk[v].ctx \notin FreeContexts
        BY <3>1, <3>3 DEF Hand, Locals
      <4>2. wk[v].conn # c
        BY <1>0, <1>1, <2>2, <3>3, <4>1 DEF HandsKept, Pushing, At
      <4> QED BY <1>1, <4>1, <4>2
    <3>4. wk[v].pc = "add" => /\ holds'[wk[v].ctx] = wk[v].own
                              /\ wk[v].ctx \notin FreeContexts'
      BY <1>8, <3>2
    <3>5. wk[v].pc = "push" => /\ holds'[wk[v].ctx] = wk[v].conn
                               /\ wk[v].ctx \notin FreeContexts'
      BY <1>8, <3>3
    <3> HIDE <1>0
    <3> QED BY <1>2, <1>5, <1>10, <2>2, <3>1, <3>4, <3>5 DEF Hand
  <2> QED BY <2>1, <2>2
<1>15. \A d \in Conns, v \in Workers : /\ Starting(v, d)' => Starting(v, d)
                                       /\ Pushing(v, d)' => Pushing(v, d)
  BY <1>5 DEF Starting, Pushing, At
<1>16. HandsKept'
  BY <1>14, <1>15 DEF HandsKept
<1>17. OthersKept'
  BY <1>2, <1>10 DEF OthersKept, Carried, Running
<1> QED BY <1>11, <1>13, <1>16, <1>17

\* A connection comes: it is open, on its way to the map, and new to everyone.
LEMMA KeptComes ==
    ASSUME ServerAssumption, Typed, ComesOnce, Kept, NEW i \in DOMAIN kernel, Connect(i)
    PROVE  Kept'
<1> USE DEF Kept
<1>1. PICK c \in Conns :
        /\ sock[c] = "none" /\ Complete(i, c, "data") /\ kernel[i].so = "ACCEPT"
        /\ sock' = [sock EXCEPT ![c] = "open"]
  BY DEF Connect
<1>2. UNCHANGED <<wk, m_mpClientSocket, m_lsFreeSocketContext, holds, key, heard, wrong, sender>>
  BY DEF Connect, sockets, program, history
<1>3. PICK p : Posts(p) /\ p.conn = c /\ p.so = "ACCEPT" /\ p.res = "data"
  BY <1>1, CompletionPosts
<1>4. sock'[c] = "open" /\ \A d \in Conns \ {c} : sock'[d] = sock[d]
  BY <1>1, TypedParts DEF TypedNet
<1>5. m_mpClientSocket[c] = None /\ Fresh(c) /\ c \notin heard
  BY <1>1 DEF ComesOnce, ArrivalsKept, Fresh
<1>6. /\ FreeContexts' = FreeContexts /\ \A d : Served(d)' <=> Served(d)
      /\ \A d : Fresh(d)' <=> Fresh(d)
  BY <1>2 DEF FreeContexts, Served, Fresh
<1>7. ContextsKept'
  BY <1>2, <1>4, <1>5, <1>6 DEF ContextsKept
<1>8. \A d \in Conns : Arriving(d)' <=> Arriving(d) \/ d = c
  <2>1. \A d : Announces(p, d) <=> d = c
    BY <1>3 DEF Announces, Posts
  <2>2. \A d \in Conns : Waiting(packets', d) <=> Waiting(packets, d) \/ d = c
    BY <1>3, <2>1, LaterAppend DEF Posts, Typed
  <2>3. \A d : Adding(d)' <=> Adding(d)
    BY <1>2 DEF Adding, At
  <2> QED BY <2>2, <2>3 DEF Arriving
<1>9. ArrivalsKept'
  <2> SUFFICES ASSUME NEW d \in Conns
               PROVE  /\ sock'[d] = "open" => m_mpClientSocket'[d] # None \/ Arriving(d)'
                      /\ Arriving(d)' => sock'[d] = "open"
                      /\ Arriving(d)' \/ sock'[d] = "none" => Fresh(d)'
    BY DEF ArrivalsKept
  <2> QED BY <1>2, <1>4, <1>5, <1>6, <1>8 DEF ArrivalsKept
<1>10. ASSUME NEW v \in Workers PROVE Hand(wk[v])'
  <2>1. Hand(wk[v])
    BY DEF HandsKept
  <2>2. wk[v].pc = "push" => wk[v].conn # c
    BY <1>1, <2>1 DEF Hand
  <2> QED BY <1>2, <1>4, <1>6, <2>1, <2>2 DEF Hand
<1>11. HandsKept'
  BY <1>2, <1>10 DEF HandsKept, Starting, Pushing, At
<1>12. OthersKept'
  <2>1. \A j \in DOMAIN packets' : Carried(packets[j])'
    <3>1. \A j \in DOMAIN packets' : packets'[j] = p \/ \E k \in DOMAIN packets : packets'[j] = packets[k]
      BY <1>3, LaterAppend DEF Posts, Typed
    <3>2. \A j \in DOMAIN packets' : Carried(packets'[j])
      BY <1>3, <3>1 DEF OthersKept, Carried
    <3> QED BY <1>6, <3>2 DEF Carried
  <2>2. \A j \in DOMAIN kernel' : Running(kernel[j])'
    <3> SUFFICES ASSUME NEW j \in DOMAIN kernel' PROVE Running(kernel[j])'
      OBVIOUS
    <3>1. j \in DOMAIN kernel /\ kernel'[j] = kernel[j]
      BY <1>1, Completes
    <3>2. Running(kernel[j]) /\ (kernel[j].so # "ACCEPT" => kernel[j].conn \in Conns)
      BY <3>1 DEF OthersKept, Typed
    <3>3. \A d \in Conns : sock[d] = "closed" => sock'[d] = "closed"
      BY <1>1, <1>4
    <3> QED BY <1>6, <3>1, <3>2, <3>3 DEF Running
  <2> QED BY <1>2, <1>6, <2>1, <2>2 DEF OthersKept
<1> QED BY <1>7, <1>9, <1>11, <1>12

\* When every worker is gone, no connection is on its way to the map.
LEMMA GoneNoneArrives ==
    ASSUME ServerAssumption, ExitsComeLast, stop \in {"delete", "stopped"}
    PROVE  (\A w \in Workers : At(w, "exited")) /\ \A c \in Conns : ~ Arriving(c)
<1>1. \A w \in Workers : At(w, "exited")
  BY DEF ExitsComeLast
<1>2. NoEarly(packets)
  BY <1>1 DEF ExitsComeLast, ServerAssumption
<1>3. \A c \in Conns : ~ Waiting(packets, c)
  BY <1>2 DEF NoEarly, Early, Waiting
<1>4. \A c \in Conns : ~ Adding(c)
  BY <1>1 DEF Adding, At
<1> QED BY <1>1, <1>3, <1>4 DEF Arriving

\* The end of Stop: there is nothing left.
LEMMA KeptDelete ==
    ASSUME ServerAssumption, Typed, ComesOnce, ExitsComeLast, Kept, StopDelete
    PROVE  Kept'
<1> USE DEF Kept
<1>1. /\ stop = "delete"
      /\ UNCHANGED <<wk, m_mpClientSocket, key, kernel, sock, sender, heard, wrong>>
  BY DEF StopDelete, net, program, history
<1>2. CASE stop' = "undefined"
  <2>1. UNCHANGED packets /\ Steady
    BY <1>1, <1>2 DEF StopDelete, Steady, sockets
  <2>2. \A c : Arriving(c)' <=> Arriving(c)
    BY <1>1, <2>1 DEF Arriving, Waiting, Adding, At
  <2> QED BY <1>1, <2>1, <2>2, KeptSteady
<1>3. CASE stop' = "stopped"
  <2>1. /\ packets' = <<>> /\ m_lsFreeSocketContext' = <<>>
        /\ \A c \in Conns : m_mpClientSocket[c] = None
    BY <1>3 DEF StopDelete
  <2>2. (\A w \in Workers : wk[w].pc = "exited") /\ \A c \in Conns : ~ Arriving(c)
    BY <1>1, GoneNoneArrives DEF At
  <2>3. \A c \in Conns : ~ Arriving(c)'
    BY <1>1, <2>1, <2>2 DEF Arriving, Waiting, Adding, At
  <2>4. ContextsKept'
    BY <1>1, <2>1 DEF ContextsKept, NoRepeat, FreeContexts, Elements
  <2>5. ArrivalsKept'
    BY <1>1, <2>1, <2>2, <2>3 DEF ArrivalsKept, Fresh
  <2>6. HandsKept'
    BY <1>1, <2>2 DEF HandsKept, Hand, Starting, Pushing, At
  <2>7. \A c : Served(c)' <=> Served(c)
    BY <1>1 DEF Served
  <2>8. OthersKept'
    BY <1>1, <2>1, <2>7 DEF OthersKept, Running
  <2> QED BY <2>4, <2>5, <2>6, <2>8
<1> QED BY <1>2, <1>3 DEF StopDelete

-----------------------------------------------------------------------------
(* NoMixUp and LeftCameLate.                                               *)

Connections == ComesOnce /\ ExitsComeLast /\ ToldLeave /\ Unmixed

LEMMA UnmixedNext ==
    ASSUME ServerAssumption, Typed, ComesOnce, ExitsComeLast, Unmixed, [Next]_vars
    PROVE  Unmixed'
<1> SUFFICES ASSUME Kept, ~ overtaken' PROVE Kept'
  <2>1. overtaken => overtaken'
    <3>1. ASSUME NEW w \in Workers, Worker(w) PROVE overtaken => overtaken'
      BY <3>1 DEF Worker, GetAccept, GetDisconnect, GetExit, AcceptFailed, OnlyFreeIO, GetClosed,
                  GetData, GetIO, ProcessAccept, AddClientSocket, Associate, NotAssociated, Deliver,
                  ReceiveAgain, NotFound, FindSocketContext, Erase, PushFree, history
    <3>2. Network \/ SendPost \/ StopBegin \/ Stop \/ (\E c \in Conns : SendFind(c) \/ Disconnect(c))
            => overtaken' = overtaken
      BY DEF Network, Connect, AcceptFails, Arrive, Finish, PeerCloses, SendPost, StopBegin, Stop,
             StopList, StopWait, StopExit, StopJoin, StopDelete, SendFind, Disconnect, history
    <3> QED BY <3>1, <3>2 DEF Next, vars, history
  <2> QED BY <2>1 DEF Unmixed
<1>1. ASSUME NEW w \in Workers, Worker(w) PROVE Kept'
  BY <1>1, KeptGets, KeptGoesOn, KeptAccept, KeptAdds, KeptAssociate, KeptDeliver, KeptErase,
     KeptPush DEF Worker
<1>2. CASE Network
  BY <1>2, KeptComes, KeptOtherSteps DEF Network
<1>3. CASE Stop
  BY <1>3, KeptDelete, KeptOtherSteps DEF Stop
<1> QED BY <1>1, <1>2, <1>3, KeptOtherSteps DEF Next

LEMMA ConnectionsInit == ASSUME ServerAssumption, Init PROVE Connections
<1>1. packets = [i \in 1..AcceptCount |-> ACCEPT] /\ AcceptCount \in Nat
  BY DEF Init, ServerAssumption
<1>2. \A j \in DOMAIN packets : packets[j] = ACCEPT
  BY <1>1
<1> HIDE <1>1
<1>3. /\ \A c \in Conns : ~ Waiting(packets, c) /\ Once(packets, c)
      /\ InOrder(packets) /\ NoExit(packets) /\ NoEarly(packets)
  <2>1. \A c \in Conns : ~ Waiting(packets, c) /\ Once(packets, c)
    BY <1>2, Quiet DEF Waiting, Once
  <2>2. InOrder(packets) /\ NoExit(packets) /\ NoEarly(packets)
    BY <1>2, Quiet DEF InOrder, NoExit, NoEarly
  <2> QED BY <2>1, <2>2
<1>4. /\ \A w \in Workers : wk[w].pc = "get"
      /\ \A c \in Conns : m_mpClientSocket[c] = None /\ key[c] = None /\ sock[c] = "none"
      /\ told = {} /\ heard = {} /\ stop = "run" /\ sender.pc = "idle"
      /\ m_lsFreeSocketContext = <<>> /\ wrong = {} /\ DOMAIN kernel = {}
  BY DEF Init, Idle, NoSend
<1>5. \A c \in Conns : ~ Arriving(c) /\ ~ Adding(c)
  BY <1>3, <1>4 DEF Arriving, Adding, At
<1>6. ComesOnce
  BY <1>3, <1>4, <1>5 DEF ComesOnce, At
<1>7. ExitsComeLast
  BY <1>3, <1>4 DEF ExitsComeLast, At
<1>8. ToldLeave
  BY <1>4 DEF ToldLeave
<1>9. ContextsKept /\ ArrivalsKept
  BY <1>4, <1>5 DEF ContextsKept, ArrivalsKept, Fresh, NoRepeat, FreeContexts, Elements
<1>10. HandsKept
  BY <1>4 DEF HandsKept, Hand, Starting, Pushing, At
<1>11. OthersKept
  BY <1>2, <1>4, Quiet DEF OthersKept
<1> QED BY <1>6, <1>7, <1>8, <1>9, <1>10, <1>11 DEF Connections, Unmixed, Kept

LEMMA ConnectionsNext ==
    ASSUME ServerAssumption, Typed, Connections, [Next]_vars
    PROVE  Connections'
<1> USE DEF Connections
<1>1. ASSUME NEW w \in Workers, Worker(w) PROVE ComesOnce' /\ ExitsComeLast' /\ ToldLeave'
  BY <1>1, ComesWorker, ExitsWorker, ToldWorker
<1>2. (\E w \in Workers : Worker(w)) \/
        (\/ \E c \in Conns : SendFind(c) \/ Disconnect(c)
         \/ SendPost \/ Network \/ StopBegin \/ Stop \/ UNCHANGED vars)
  BY DEF Next
<1>3. ComesOnce' /\ ExitsComeLast' /\ ToldLeave'
  BY <1>1, <1>2, ComesOthers, ExitsOthers, ToldOthers
<1> QED BY <1>3, UnmixedNext

LEMMA UnmixedNoMixUp == ASSUME ServerAssumption, Typed, Unmixed PROVE NoMixUp
<1> SUFFICES ASSUME Kept PROVE wrong = {} /\ ContextsApart
  BY DEF Unmixed, NoMixUp
<1>1. ContextsKept
  BY DEF Kept
<1>2. \A c, d \in Conns : m_mpClientSocket[c] = m_mpClientSocket[d] =>
                            c = d \/ m_mpClientSocket[c] = None
  BY <1>1 DEF ContextsKept
<1>3. \A i, j \in DOMAIN m_lsFreeSocketContext :
        m_lsFreeSocketContext[i] = m_lsFreeSocketContext[j] => i = j
  BY <1>1 DEF ContextsKept, NoRepeat
<1>4. \A c \in Conns : m_mpClientSocket[c] \notin Elements(m_lsFreeSocketContext)
  <2>1. None \notin Elements(m_lsFreeSocketContext)
    BY DEF Typed, Elements, ServerAssumption
  <2> QED BY <1>1, <2>1 DEF ContextsKept, FreeContexts
<1>5. \A c \in Conns : m_mpClientSocket[c] # None => holds[m_mpClientSocket[c]] = c
  BY <1>1 DEF ContextsKept
<1> QED BY <1>1, <1>2, <1>3, <1>4, <1>5 DEF ContextsApart, ContextsKept

LEMMA ConnectionsLeft == ASSUME ServerAssumption, Typed, Connections PROVE LeftCameLate
<1> USE DEF Connections
<1>1. stop = "delete" => \A c \in told : m_mpClientSocket[c] = None
  BY ToldHaveLeft
<1>2. ASSUME stop = "stopped", ~ overtaken, NEW c \in Conns PROVE sock[c] # "open"
  <2>1. m_mpClientSocket[c] = None /\ ~ Arriving(c)
    BY <1>2, GoneNoneArrives DEF ExitsComeLast
  <2> QED BY <1>2, <2>1 DEF Unmixed, Kept, ArrivalsKept
<1> QED BY <1>1, <1>2 DEF LeftCameLate

\* As long as no connection is closed while something else has it in hand, no
\* data, message or close goes to another connection than its own, and no
\* SOCKET_CONTEXT serves two (TcpServer.cpp:520-670).
THEOREM AlwaysNoMixUp == Spec => []NoMixUp
<1>1. Init => Basics /\ Connections
  BY BasicsInit, ConnectionsInit, ServerAssumption
<1>2. Basics /\ Connections /\ [Next]_vars => Basics' /\ Connections'
  BY BasicsNext, ConnectionsNext, ServerAssumption DEF Basics
<1>3. Basics /\ Connections => NoMixUp
  BY UnmixedNoMixUp, ServerAssumption DEF Basics, Connections
<1> QED BY <1>1, <1>2, <1>3, PTL DEF Spec

\* When the workers of Stop are gone, every connection it posted a DISCONNECT
\* for has left the map, and when it returns no connection is open
\* (TcpServer.cpp:206-246).
THEOREM AlwaysLeftCameLate == Spec => []LeftCameLate
<1>1. Init => Basics /\ Connections
  BY BasicsInit, ConnectionsInit, ServerAssumption
<1>2. Basics /\ Connections /\ [Next]_vars => Basics' /\ Connections'
  BY BasicsNext, ConnectionsNext, ServerAssumption DEF Basics
<1>3. Basics /\ Connections => LeftCameLate
  BY ConnectionsLeft, ServerAssumption DEF Basics
<1> QED BY <1>1, <1>2, <1>3, PTL DEF Spec

-----------------------------------------------------------------------------
(* The exit packets.                                                       *)

Staying == {w \in Workers : ~ At(w, "exited")}
ExitsCounted == stop \in {"join", "delete"} => Count(packets, {EXIT}) = Cardinality(Staying)

LEMMA StayingFinite ==
    ASSUME ServerAssumption PROVE IsFiniteSet(Staying) /\ Cardinality(Staying) \in Nat
<1>1. Staying \subseteq Workers /\ IsFiniteSet(Workers)
  BY DEF Staying, ServerAssumption
<1> QED BY <1>1, FS_Subset, FS_CardinalityType

\* As many packets as there are workers.
LEMMA ExitsForAll ==
    ASSUME ServerAssumption, NEW q \in Seq(Posted), NoExit(q)
    PROVE  Count(q \o [i \in 1..Cardinality(Workers) |-> EXIT], {EXIT}) = Cardinality(Workers)
<1> DEFINE n == Cardinality(Workers)
           t == [i \in 1..n |-> EXIT]
           e == q \o t
<1>1. n \in Nat /\ Len(q) \in Nat /\ DOMAIN q = 1..Len(q)
  BY FS_CardinalityType DEF ServerAssumption
<1>2. /\ \A i \in DOMAIN q : i \in DOMAIN e /\ e[i] = q[i]
      /\ \A i \in DOMAIN e \ DOMAIN q : e[i] = EXIT
  BY EnqueueExits
<1> HIDE DEF n
<1>3. DOMAIN e = 1..(Len(q) + n)
  <2>1. t \in Seq(Posted) /\ Len(t) = n
    BY <1>1, Answers
  <2> HIDE DEF t
  <2>2. Len(e) = Len(q) + n /\ e \in Seq(Posted)
    BY <2>1, ConcatProperties
  <2> HIDE DEF e
  <2> QED BY <2>2
<1> HIDE DEF e, t
<1>4. {j \in DOMAIN e : e[j] \in {EXIT}} = (Len(q) + 1)..(Len(q) + n)
  <2>1. \A j \in DOMAIN q : e[j] # EXIT
    BY <1>2 DEF NoExit
  <2>2. {j \in DOMAIN e : e[j] \in {EXIT}} = DOMAIN e \ DOMAIN q
    BY <1>2, <2>1
  <2> QED BY <1>1, <1>3, <2>2
<1>5. Cardinality((Len(q) + 1)..(Len(q) + n)) = n
  BY <1>1, FS_Interval
<1> QED BY <1>4, <1>5 DEF Count, e, t, n

\* A worker takes its exit, or a packet that is none.
LEMMA ExitsCountedWorker ==
    ASSUME ServerAssumption, Typed, ExitsCounted, NEW w \in Workers, Worker(w)
    PROVE  ExitsCounted'
<1> DEFINE t == Tail(packets)
           n(q) == Count(q, {EXIT})
<1>0. packets \in Seq(Posted) /\ EXIT \in Posted /\ ACCEPT \in Posted /\ ACCEPT # EXIT
  BY Quiet, Answers DEF Typed
<1>1. ASSUME packets # <<>>
      PROVE  /\ n(packets) \in Nat /\ n(t) \in Nat
             /\ n(packets) = IF Head(packets) = EXIT THEN n(t) + 1 ELSE n(t)
             /\ n(AskAccept(t)) = n(t)
  <2>1. t \in Seq(Posted)
    BY <1>0, <1>1, Dequeue
  <2>2. n(packets) = IF Head(packets) = EXIT THEN n(t) + 1 ELSE n(t)
    BY <1>0, <1>1, CountTail
  <2>3. n(AskAccept(t)) = n(t)
    <3> HIDE DEF t
    <3> QED BY <1>0, <2>1, CountAppend DEF AskAccept
  <2> QED BY <1>0, <2>1, <2>2, <2>3, CountNat
<1> HIDE DEF t, n
<1>2. CASE Moves(w)
  <2>1. w \in Staying /\ stop' = stop /\ \A v \in Workers \ {w} : wk'[v] = wk[v]
    BY <1>2 DEF Moves, Staying
  <2>2. CASE wk'[w].pc = "exited"
    <3>1. packets # <<>> /\ Head(packets) = EXIT /\ packets' \in {t, AskAccept(t)}
      BY <1>2, <2>2 DEF Moves, Dequeues, t
    <3>2. Staying' = Staying \ {w}
      BY <2>1, <2>2 DEF Staying, At
    <3>3. Cardinality(Staying') = Cardinality(Staying) - 1
      BY <2>1, <3>2, StayingFinite, FS_RemoveElement
    <3>4. n(packets') = n(packets) - 1
      BY <1>1, <3>1
    <3> QED BY <2>1, <3>3, <3>4 DEF ExitsCounted, n
  <2>3. CASE wk'[w].pc # "exited"
    <3>1. Staying' = Staying
      BY <2>1, <2>3 DEF Staying, At
    <3>2. packets' = packets \/ (packets # <<>> /\ Head(packets) # EXIT /\ packets' \in {t, AskAccept(t)})
      BY <1>2, <2>3 DEF Moves, Dequeues, t
    <3>3. n(packets') = n(packets)
      BY <1>1, <3>2
    <3> QED BY <2>1, <3>1, <3>3 DEF ExitsCounted, n
  <2> QED BY <2>2, <2>3
<1>3. CASE ProcessAccept(w)
  <2>1. /\ packets # <<>> /\ packets' = AskAccept(t) /\ wk[w].pc = "get" /\ stop' = stop
        /\ Head(packets).k = "IO"
    BY <1>3, Takes DEF ProcessAccept, Got, stopping, t
  <2>2. wk'[w].pc = "add" /\ \A v \in Workers \ {w} : wk'[v] = wk[v]
    <3>1. PICK r : r.pc = "add" /\ Become(w, r)
      BY <1>3 DEF ProcessAccept
    <3> QED BY <3>1, Becomes
  <2>3. Staying' = Staying
    BY <2>1, <2>2 DEF Staying, At
  <2>4. n(packets') = n(packets)
    BY <1>1, <2>1, Answers
  <2> QED BY <2>1, <2>3, <2>4 DEF ExitsCounted, n
<1>4. CASE AddClientSocket(w)
  <2>1. wk[w].pc = "add" /\ packets' = packets /\ stop' = stop
    BY <1>4 DEF AddClientSocket, At, stopping
  <2>2. wk'[w].pc = "receive" /\ \A v \in Workers \ {w} : wk'[v] = wk[v]
    BY <1>4, Goes DEF AddClientSocket
  <2>3. Staying' = Staying
    BY <2>1, <2>2 DEF Staying, At
  <2> QED BY <2>1, <2>3 DEF ExitsCounted
<1> QED BY <1>2, <1>3, <1>4, WorkerMoves

LEMMA ExitsCountedOthers ==
    ASSUME ServerAssumption, Typed, ExitsComeLast, ExitsCounted,
           \/ \E c \in Conns : SendFind(c) \/ Disconnect(c)
           \/ SendPost \/ Network \/ StopBegin \/ Stop \/ UNCHANGED vars
    PROVE  ExitsCounted'
<1>0. packets \in Seq(Posted)
  BY DEF Typed
<1>1. UNCHANGED wk
  <2>1. Network => UNCHANGED wk
    BY NetworkPosts
  <2>2. (\E c \in Conns : SendFind(c) \/ Disconnect(c)) \/ SendPost => UNCHANGED wk
    BY CallsPost
  <2>3. StopBegin \/ Stop \/ UNCHANGED vars => UNCHANGED wk
    BY DEF StopBegin, Stop, StopList, StopWait, StopExit, StopJoin, StopDelete, vars
  <2> QED BY <2>1, <2>2, <2>3
<1>2. Staying' = Staying
  BY <1>1 DEF Staying, At
<1>3. ASSUME stop' = stop,
             packets' = packets \/ \E p \in Posted : p # EXIT /\ packets' = Append(packets, p)
      PROVE  ExitsCounted'
  <2>1. \A p \in Posted : p # EXIT => Count(Append(packets, p), {EXIT}) = Count(packets, {EXIT})
    BY <1>0, CountAppend
  <2>2. Count(packets', {EXIT}) = Count(packets, {EXIT})
    <3>1. CASE packets' = packets
      BY <3>1
    <3>2. CASE \E p \in Posted : p # EXIT /\ packets' = Append(packets, p)
      <4>1. PICK p \in Posted : p # EXIT /\ packets' = Append(packets, p)
        BY <3>2
      <4>2. Count(Append(packets, p), {EXIT}) = Count(packets, {EXIT})
        BY <2>1, <4>1
      <4> QED BY <4>1, <4>2, Zenon
    <3> QED BY <1>3, <3>1, <3>2
  <2> QED BY <1>2, <1>3, <2>2 DEF ExitsCounted
<1>4. CASE (\E c \in Conns : SendFind(c) \/ Disconnect(c)) \/ SendPost \/ UNCHANGED vars
  <2>1. /\ packets' = packets \/ \E c \in Conns : packets' = Append(packets, DISCONNECT(c))
        /\ stop' = stop
    BY <1>4, CallsPost DEF vars, stopping
  <2> QED BY <1>3, <2>1, Answers, Quiet
<1>5. CASE Network
  <2>1. (packets' = packets \/ \E p : Posts(p)) /\ stop' = stop
    BY <1>5, NetworkPosts DEF Unposted, Comes, stopping
  <2> QED BY <1>3, <2>1 DEF Posts
<1>6. CASE StopBegin \/ StopList \/ StopWait \/ StopDelete
  <2>1. stop' \notin {"join", "delete"}
    BY <1>6 DEF StopBegin, StopList, StopWait, StopDelete
  <2> QED BY <2>1 DEF ExitsCounted
<1>7. CASE StopJoin
  <2>1. stop = "join" /\ packets' = packets
    BY <1>7 DEF StopJoin
  <2> QED BY <1>2, <2>1 DEF ExitsCounted
<1>8. CASE StopExit
  <2>1. packets' = ExitsLast /\ NoExit(packets) /\ \A w \in Workers : ~ At(w, "exited")
    BY <1>8 DEF StopExit, ExitsComeLast
  <2>2. Staying = Workers
    BY <2>1 DEF Staying
  <2> QED BY <1>0, <1>2, <2>1, <2>2, ExitsForAll DEF ExitsCounted, ExitsLast
<1> QED BY <1>4, <1>5, <1>6, <1>7, <1>8 DEF Stop

\* The packets that Stop posts are as many as the workers it waits for, and stay
\* so until each has taken its own: whichever worker takes which, and whatever is
\* posted behind them (TcpServer.cpp:219-228).
THEOREM AlwaysExitForEach == Spec => []ExitForEach
<1>1. Init => Basics /\ Connections /\ ExitsCounted
  <2>1. Init => ExitsCounted
    BY DEF Init, ExitsCounted
  <2> QED BY <2>1, BasicsInit, ConnectionsInit, ServerAssumption
<1>2. Basics /\ Connections /\ ExitsCounted /\ [Next]_vars
        => Basics' /\ Connections' /\ ExitsCounted'
  <2> SUFFICES ASSUME Basics, Connections, ExitsCounted, [Next]_vars
               PROVE  Basics' /\ Connections' /\ ExitsCounted'
    OBVIOUS
  <2>1. Typed /\ ExitsComeLast
    BY DEF Basics, Connections
  <2>2. Basics' /\ Connections'
    BY <2>1, BasicsNext, ConnectionsNext, ServerAssumption
  <2>3. ExitsCounted'
    BY <2>1, ExitsCountedWorker, ExitsCountedOthers, ServerAssumption DEF Next
  <2> QED BY <2>2, <2>3
<1>3. ExitsCounted => ExitForEach
  <2>1. {j \in DOMAIN packets : packets[j] \in {EXIT}} = {j \in DOMAIN packets : packets[j] = EXIT}
    OBVIOUS
  <2> QED BY <2>1 DEF ExitsCounted, Staying, Count, ExitForEach
<1> QED BY <1>1, <1>2, <1>3, PTL DEF Spec

-----------------------------------------------------------------------------
(* Every connection is minded.                                             *)

\* Minded: a read with Windows, its completion in the queue, or a worker.
Reading(c) == \E i \in DOMAIN kernel : kernel[i] = [so |-> "READ", conn |-> c]
Ends(p, c) == p.k = "IO" /\ p.so = "READ" /\ p.conn = c /\ p.res # "aborted"
Ended(c) == \E p \in Posted : Has(packets, p) /\ Ends(p, c)
Serving(c) == \E w \in Workers : wk[w].own = c /\ wk[w].pc # "push"
Watched(c) == c \in unread \/ Reading(c) \/ Ended(c) \/ Serving(c)
AllWatched == ~ overtaken => \A c \in Conns : m_mpClientSocket[c] # None => Watched(c)

\* An IO_CONTEXT that is taken for an operation is not with Windows.
LEMMA ReadingPut ==
    ASSUME NEW i, i \notin DOMAIN kernel, NEW v, kernel' = Put(kernel, i, v)
    PROVE  \A c \in Conns : Reading(c) => Reading(c)'
<1>1. /\ DOMAIN kernel' = DOMAIN kernel \cup {i}
      /\ \A j \in DOMAIN kernel \ {i} : kernel'[j] = kernel[j]
  BY Puts
<1> QED BY <1>1 DEF Reading

LEMMA ReadingBegun ==
    ASSUME ServerAssumption, Basics, NEW so, NEW c, Begun(so, c)
    PROVE  \A d \in Conns : Reading(d) => Reading(d)'
<1>1. HasIO /\ kernel' = Put(kernel, GetFreeIOContext, [so |-> so, conn |-> c])
  BY DEF Begun
<1>2. GetFreeIOContext \notin DOMAIN kernel
  BY <1>1, TakeIO DEF Basics
<1> QED BY <1>1, <1>2, ReadingPut

\* A worker posts the read of its connection.
LEMMA ReadingPosted ==
    ASSUME ServerAssumption, Basics, NEW w \in Workers, wk[w].io \in IOs, PostReceive(w)
    PROVE  \A d \in Conns : Reading(d) \/ d = wk[w].own => Reading(d)'
<1> DEFINE v == [so |-> "READ", conn |-> wk[w].own]
<1>1. kernel' = Put(kernel, wk[w].io, v)
  BY DEF PostReceive
<1>2. wk[w].io \in Held
  BY DEF Held, ServerAssumption
<1>3. wk[w].io \notin DOMAIN kernel
  BY <1>2 DEF Basics, Owned
<1>4. wk[w].io \in DOMAIN kernel' /\ kernel'[wk[w].io] = v
  BY <1>1, Puts
<1>5. ASSUME NEW c, c = wk[w].own PROVE Reading(c)'
  BY <1>4, <1>5 DEF Reading
<1>6. \A d \in Conns : Reading(d) => Reading(d)'
  <2> HIDE DEF v
  <2> QED BY <1>1, <1>3, ReadingPut
<1> QED BY <1>5, <1>6

\* What is queued stays so until a worker takes it.
LEMMA EndedTail ==
    ASSUME NEW q \in Seq(Posted), q # <<>>, NEW p \in Posted, Has(q, p), p # Head(q)
    PROVE  Has(Tail(q), p) /\ Has(AskAccept(Tail(q)), p)
<1> DEFINE t == Tail(q)
<1>1. t \in Seq(Posted) /\ Has(t, p)
  BY Dequeue, LaterTail
<1> HIDE DEF t
<1>2. Has(AskAccept(t), p)
  BY <1>1, Quiet, Answers, LaterAppend DEF AskAccept
<1> QED BY <1>1, <1>2 DEF t

\* A worker takes a packet: when that ends a read, the worker serves its connection.
LEMMA WatchedGets ==
    ASSUME ServerAssumption, Basics, NEW w \in Workers,
           \/ GetAccept(w) \/ GetDisconnect(w) \/ GetExit(w) \/ AcceptFailed(w)
           \/ OnlyFreeIO(w) \/ GetClosed(w) \/ GetData(w) \/ ProcessAccept(w)
    PROVE  \A c \in Conns : Watched(c) => Watched(c)'
<1> DEFINE p == Head(packets)
           t == Tail(packets)
<1>1. /\ packets \in Seq(Posted) /\ packets # <<>> /\ p \in Posted
      /\ wk[w].pc = "get" /\ wk[w].own = None
  <2>1. Taken(w)
    BY DEF GetAccept, GetDisconnect, GetExit, AcceptFailed, OnlyFreeIO, GetClosed, GetData,
           ProcessAccept, Got
  <2> QED BY <2>1, Takes DEF Basics
<1>2. packets' \in {t, AskAccept(t)} /\ unread' = unread
  BY DEF GetAccept, GetDisconnect, GetExit, AcceptFailed, OnlyFreeIO, GetClosed, GetData, GetIO,
         ProcessAccept, history
<1>3. \A c \in Conns : Reading(c) => Reading(c)'
  <2>1. CASE kernel' = kernel
    BY <2>1 DEF Reading
  <2>2. CASE Begun("ACCEPT", None)
    BY <2>2, ReadingBegun
  <2> QED BY <2>1, <2>2 DEF GetAccept, GetDisconnect, GetExit, AcceptFailed, OnlyFreeIO, GetClosed,
                            GetData, GetIO, ProcessAccept, NotBegun
<1>4. \A v \in Workers \ {w} : wk'[v] = wk[v]
  <2>1. wk' = wk \/ (\E r : Become(w, r)) \/ Goto(w, "exited")
    BY DEF GetAccept, GetDisconnect, GetExit, AcceptFailed, OnlyFreeIO, GetClosed, GetData, GetIO,
           ProcessAccept
  <2> QED BY <2>1, Becomes, Goes DEF Basics
<1>5. \A c \in Conns : Serving(c) => Serving(c)'
  <2>1. None \notin Conns
    BY DEF None, Conns
  <2> QED BY <1>1, <1>4, <2>1 DEF Serving
<1>6. ASSUME NEW c \in Conns, Ends(p, c) PROVE Serving(c)'
  <2>1. p.k = "IO" /\ p.so = "READ" /\ p.conn = c /\ p.res # "aborted"
    BY <1>6 DEF Ends
  <2>2. GetClosed(w) \/ GetData(w)
    BY <2>1, Answers DEF GetAccept, GetDisconnect, GetExit, AcceptFailed, OnlyFreeIO, ProcessAccept, Got
  <2>3. PICK pc \in {"find", "deliver", "repost"} : GetIO(w, pc)
    BY <2>2 DEF GetClosed, GetData
  <2>4. PICK id \in Read(key[p.conn]) :
          Become(w, [Idle EXCEPT !.pc = pc, !.io = p.io, !.conn = id, !.own = p.conn])
    BY <2>3 DEF GetIO
  <2> DEFINE r == [Idle EXCEPT !.pc = pc, !.io = p.io, !.conn = id, !.own = p.conn]
  <2>5. r.pc = pc /\ r.own = c
    BY <2>1 DEF Idle
  <2>6. Become(w, r)
    BY <2>4
  <2> HIDE DEF r
  <2>7. wk'[w] = r
    BY <2>6, Becomes DEF Basics
  <2> QED BY <2>5, <2>7 DEF Serving
<1>7. ASSUME NEW c \in Conns, Ended(c) PROVE Ended(c)' \/ Serving(c)'
  <2>1. PICK x \in Posted : Has(packets, x) /\ Ends(x, c)
    BY <1>7 DEF Ended
  <2>2. CASE x = p
    BY <1>6, <2>1, <2>2
  <2>3. CASE x # p
    BY <1>1, <1>2, <2>1, <2>3, EndedTail DEF Ended
  <2> QED BY <2>2, <2>3
<1> QED BY <1>2, <1>3, <1>5, <1>7 DEF Watched

\* A worker goes on with its connection until a read of it is under way, unless
\* it takes it out of the map.
LEMMA WatchedServes ==
    ASSUME ServerAssumption, Basics, ~ overtaken, AllWatched, Kept, NEW w \in Workers,
           \/ AddClientSocket(w) \/ Associate(w) \/ NotAssociated(w) \/ Deliver(w)
           \/ ReceiveAgain(w) \/ NotFound(w) \/ FindSocketContext(w) \/ Erase(w) \/ PushFree(w),
           NEW c \in Conns, m_mpClientSocket'[c] # None
    PROVE  Watched(c)'
<1> USE DEF Basics
<1>1. wk[w] \in WorkerStates /\ Locals(w) /\ Hand(wk[w])
      /\ m_mpClientSocket \in [Conns -> Contexts \cup {None}]
  BY TypedParts DEF TypedWorkers, TypedContexts, Kept, HandsKept
<1>2. packets' = packets /\ unread \subseteq unread'
  BY DEF AddClientSocket, Associate, NotAssociated, Deliver, ReceiveAgain, NotFound,
         FindSocketContext, Erase, PushFree, history
<1>3. Ended(c) => Ended(c)'
  BY <1>2 DEF Ended
<1>4. Reading(c) => Reading(c)'
  <2>1. CASE kernel' = kernel
    BY <2>1 DEF Reading
  <2>2. CASE PostReceive(w) /\ wk[w].pc \in {"receive", "repost"}
    <3>1. wk[w].io \in IOs
      BY <1>1, <2>2 DEF Locals
    <3> QED BY <2>2, <3>1, ReadingPosted
  <2> QED BY <2>1, <2>2 DEF AddClientSocket, Associate, NotAssociated, Deliver, ReceiveAgain, NotFound,
                            FindSocketContext, Erase, PushFree, At
<1>5. CASE AddClientSocket(w)
  <2>1. /\ wk[w].pc = "add" /\ wk'[w].pc = "receive" /\ wk'[w].own = wk[w].own
        /\ \A v \in Workers \ {w} : wk'[v] = wk[v]
        /\ m_mpClientSocket' = [m_mpClientSocket EXCEPT ![wk[w].conn] = wk[w].ctx]
    BY <1>5, Goes DEF AddClientSocket, At
  <2>2. wk[w].conn = wk[w].own
    BY <1>1, <2>1 DEF Locals
  <2>3. CASE c = wk[w].own
    BY <2>1, <2>3 DEF Watched, Serving
  <2>4. CASE c # wk[w].own
    <3>1. m_mpClientSocket'[c] = m_mpClientSocket[c]
      BY <1>1, <2>1, <2>2, <2>4
    <3>2. Watched(c)
      BY <3>1 DEF AllWatched
    <3>3. Serving(c) => Serving(c)'
      BY <2>1, <2>4 DEF Serving
    <3> QED BY <1>2, <1>3, <1>4, <3>2, <3>3 DEF Watched
  <2> QED BY <2>3, <2>4
\* From here on the worker adds no connection to the map.
<1>6. ASSUME m_mpClientSocket[c] # None, Serving(c) => Watched(c)' PROVE Watched(c)'
  BY <1>2, <1>3, <1>4, <1>6 DEF AllWatched, Watched
<1>7. ASSUME \A v \in Workers \ {w} : wk'[v] = wk[v], wk[w].own = c /\ wk[w].pc # "push" => Watched(c)'
      PROVE  Serving(c) => Watched(c)'
  BY <1>7 DEF Serving, Watched
<1>8. CASE Associate(w)
  <2>1. wk[w].pc = "receive" /\ m_mpClientSocket' = m_mpClientSocket /\ Become(w, Idle)
    BY <1>8 DEF Associate, At, PostReceive
  <2>2. \A v \in Workers \ {w} : wk'[v] = wk[v]
    BY <2>1, Becomes
  <2>3. ASSUME wk[w].own = c PROVE Watched(c)'
    <3>1. CASE PostReceive(w)
      <4>1. wk[w].io \in IOs
        BY <1>1, <2>1 DEF Locals
      <4>2. Reading(c)'
        BY <2>3, <3>1, <4>1, ReadingPosted
      <4> QED BY <4>2 DEF Watched
    <3>2. CASE unread' = unread \cup {wk[w].own}
      BY <2>3, <3>2 DEF Watched
    <3> QED BY <1>8, <3>1, <3>2 DEF Associate
  <2> QED BY <1>6, <1>7, <2>1, <2>2, <2>3
<1>9. CASE NotAssociated(w) \/ Deliver(w)
  <2>1. m_mpClientSocket' = m_mpClientSocket /\ \E pc \in {"find", "repost"} : Goto(w, pc)
    BY <1>9 DEF NotAssociated, Deliver, sockets
  <2>2. /\ wk'[w].own = wk[w].own /\ wk'[w].pc # "push" /\ \A v \in Workers \ {w} : wk'[v] = wk[v]
    <3>1. PICK pc \in {"find", "repost"} : Goto(w, pc)
      BY <2>1
    <3>2. /\ wk'[w].own = wk[w].own /\ wk'[w].pc = pc /\ \A v \in Workers \ {w} : wk'[v] = wk[v]
      BY <3>1, Goes
    <3> QED BY <3>2
  <2>3. wk[w].own = c => Watched(c)'
    BY <2>2 DEF Watched, Serving
  <2> QED BY <1>6, <1>7, <2>1, <2>2, <2>3
<1>10. CASE ReceiveAgain(w)
  <2>1. wk[w].pc = "repost" /\ m_mpClientSocket' = m_mpClientSocket
        /\ (PostReceive(w) \/ Goto(w, "find"))
    BY <1>10 DEF ReceiveAgain, At, sockets
  <2>2. \A v \in Workers \ {w} : wk'[v] = wk[v]
    BY <2>1, Becomes, Goes DEF PostReceive
  <2>3. ASSUME wk[w].own = c PROVE Watched(c)'
    <3>1. CASE PostReceive(w)
      <4>1. wk[w].io \in IOs
        BY <1>1, <2>1 DEF Locals
      <4>2. Reading(c)'
        BY <2>3, <3>1, <4>1, ReadingPosted
      <4> QED BY <4>2 DEF Watched
    <3>2. CASE Goto(w, "find")
      <4>1. wk'[w].own = wk[w].own /\ wk'[w].pc = "find"
        BY <3>2, Goes
      <4> QED BY <2>3, <4>1 DEF Watched, Serving
    <3> QED BY <2>1, <3>1, <3>2
  <2> QED BY <1>6, <1>7, <2>1, <2>2, <2>3
<1>11. CASE NotFound(w)
  <2>1. /\ wk[w].pc = "find" /\ Lookup(wk[w].conn) = None /\ m_mpClientSocket' = m_mpClientSocket
        /\ Become(w, Idle)
    BY <1>11 DEF NotFound, At, sockets
  <2>2. \A v \in Workers \ {w} : wk'[v] = wk[v]
    BY <2>1, Becomes
  <2>3. wk[w].own # c
    <3>1. None \notin Conns
      BY DEF None, Conns
    <3> QED BY <1>1, <2>1, <3>1 DEF Hand, Lookup
  <2> QED BY <1>6, <1>7, <2>1, <2>2, <2>3
<1>12. CASE FindSocketContext(w)
  <2>1. /\ m_mpClientSocket' = m_mpClientSocket
        /\ Become(w, [wk[w] EXCEPT !.pc = "erase", !.ctx = Lookup(wk[w].conn)])
    BY <1>12 DEF FindSocketContext, sockets
  <2>2. wk'[w].own = wk[w].own /\ wk'[w].pc # "push" /\ \A v \in Workers \ {w} : wk'[v] = wk[v]
    <3> DEFINE r == [wk[w] EXCEPT !.pc = "erase", !.ctx = Lookup(wk[w].conn)]
    <3>1. r.own = wk[w].own /\ r.pc = "erase"
      BY <1>1 DEF WorkerStates
    <3>2. Become(w, r)
      BY <2>1
    <3> HIDE DEF r
    <3>3. wk'[w] = r /\ \A v \in Workers \ {w} : wk'[v] = wk[v]
      BY <3>2, Becomes
    <3> QED BY <3>1, <3>3
  <2>3. wk[w].own = c => Watched(c)'
    BY <2>2 DEF Watched, Serving
  <2> QED BY <1>6, <1>7, <2>1, <2>2, <2>3
<1>13. CASE Erase(w)
  <2>1. /\ wk[w].pc = "erase" /\ m_mpClientSocket' = [m_mpClientSocket EXCEPT ![wk[w].conn] = None]
        /\ Goto(w, "push")
    BY <1>13 DEF Erase, Erased, At
  <2>2. \A v \in Workers \ {w} : wk'[v] = wk[v]
    BY <2>1, Goes
  <2>3. m_mpClientSocket[c] # None /\ wk[w].conn # c
    BY <1>1, <2>1
  <2>4. wk[w].own # c
    <3>1. None \notin Conns
      BY DEF None, Conns
    <3> QED BY <1>1, <2>1, <2>3, <3>1 DEF Hand
  <2> QED BY <1>6, <1>7, <2>2, <2>3, <2>4
<1>14. CASE PushFree(w)
  <2>1. wk[w].pc = "push" /\ m_mpClientSocket' = m_mpClientSocket /\ Become(w, Idle)
    BY <1>14 DEF PushFree, At
  <2>2. \A v \in Workers \ {w} : wk'[v] = wk[v]
    BY <2>1, Becomes
  <2> QED BY <1>6, <1>7, <2>1, <2>2
<1> QED BY <1>5, <1>8, <1>9, <1>10, <1>11, <1>12, <1>13, <1>14

\* A read that completes is in the queue; it is not aborted, for the socket of a
\* connection in the map is open.
LEMMA WatchedOthers ==
    ASSUME ServerAssumption, Basics, ~ overtaken, AllWatched, Kept,
           \/ \E d \in Conns : SendFind(d) \/ Disconnect(d)
           \/ SendPost \/ Network \/ StopBegin \/ Stop \/ UNCHANGED vars,
           NEW c \in Conns, m_mpClientSocket'[c] # None
    PROVE  Watched(c)'
<1> USE DEF Basics
<1>0. packets \in Seq(Posted)
  BY DEF Typed
<1>1. UNCHANGED <<wk, m_mpClientSocket>>
  <2>1. Network => UNCHANGED <<wk, m_mpClientSocket>>
    BY NetworkPosts DEF sockets
  <2>2. (\E d \in Conns : SendFind(d) \/ Disconnect(d)) \/ SendPost => UNCHANGED <<wk, m_mpClientSocket>>
    BY CallsPost DEF sockets
  <2>3. StopBegin \/ Stop \/ UNCHANGED vars => UNCHANGED <<wk, m_mpClientSocket>>
    BY DEF StopBegin, Stop, StopList, StopWait, StopExit, StopJoin, StopDelete, vars, sockets
  <2> QED BY <2>1, <2>2, <2>3
<1>2. m_mpClientSocket[c] # None /\ Watched(c) /\ sock[c] = "open"
  BY <1>1 DEF AllWatched, Kept, ContextsKept
<1>3. Serving(c) => Serving(c)'
  BY <1>1 DEF Serving
<1>4. unread' = unread
  BY DEF Network, Connect, AcceptFails, Arrive, Finish, PeerCloses, SendPost, StopBegin, Stop,
         StopList, StopWait, StopExit, StopJoin, StopDelete, SendFind, Disconnect, history, vars
<1>5. \A d \in Conns, p \in Posted : Has(packets, p) => Has(Append(packets, DISCONNECT(d)), p)
  BY <1>0, Quiet, Answers, LaterAppend
<1>6. \A x : Posts(x) => \A p \in Posted : Has(packets, p) => Has(packets', p)
  BY <1>0, LaterAppend DEF Posts
<1>7. \A p \in Posted : Has(packets, p) => Has(packets', p)
  <2>1. CASE (\E d \in Conns : SendFind(d) \/ Disconnect(d)) \/ SendPost
    BY <1>5, <2>1, CallsPost
  <2>2. CASE Network
    BY <1>6, <2>2, NetworkPosts DEF Unposted, Comes
  <2>3. CASE StopBegin \/ StopWait \/ StopJoin \/ UNCHANGED vars
    BY <2>3 DEF StopBegin, StopWait, StopJoin, vars
  <2>4. CASE StopList
    <3>1. packets' = packets \/ (iter <= MaxConns /\ packets' = Append(packets, DISCONNECT(iter)))
      BY <2>4 DEF StopList
    <3>2. iter <= MaxConns => iter \in Conns
      BY <2>4, TypedParts DEF StopList, TypedStop, Conns, ServerAssumption
    <3> QED BY <1>5, <3>1, <3>2
  <2>5. CASE StopExit
    BY <1>0, <2>5, LaterExits DEF StopExit, ExitsLast
  <2>6. CASE StopDelete
    BY <1>2, <2>6 DEF StopDelete
  <2> QED BY <2>1, <2>2, <2>3, <2>4, <2>5, <2>6 DEF Stop
<1>8. Ended(c) => Ended(c)'
  BY <1>7 DEF Ended
<1>9. ASSUME Reading(c), ~ Reading(c)' PROVE Ended(c)'
  <2>1. PICK i \in DOMAIN kernel : kernel[i] = [so |-> "READ", conn |-> c]
    BY <1>9 DEF Reading
  <2>2. kernel' # kernel
    BY <1>9, <2>1 DEF Reading
  <2>3. ~ SendPost
    <3>1. SendPost => \E s : Begun("WRITE", s)
      BY <2>2 DEF SendPost, NotBegun
    <3> QED BY <1>9, <3>1, ReadingBegun
  <2>4. Network
    BY <2>2, <2>3 DEF SendFind, Disconnect, StopBegin, Stop, StopList, StopWait, StopExit, StopJoin,
                      StopDelete, vars
  <2>5. PICK j \in DOMAIN kernel : Connect(j) \/ AcceptFails(j) \/ Arrive(j) \/ Finish(j)
    BY <2>2, <2>4 DEF Network, PeerCloses
  <2>6. \E d, r : Complete(j, d, r)
    BY <2>5 DEF Connect, AcceptFails, Arrive, Finish
  <2>7. j = i
    <3>1. j # i => i \in DOMAIN kernel' /\ kernel'[i] = kernel[i]
      BY <2>6, Completes
    <3> QED BY <1>9, <2>1, <3>1 DEF Reading
  <2>8. kernel[j].so = "READ" /\ kernel[j].conn = c
    BY <2>1, <2>7
  <2>9. PICK r \in {"data", "zero", "error"} : Complete(j, c, r)
    BY <1>2, <2>5, <2>8 DEF Connect, AcceptFails, Arrive, Finish
  <2>10. PICK p : Posts(p) /\ p.conn = c /\ p.so = "READ" /\ p.res = r
    BY <2>8, <2>9, CompletionPosts
  <2>11. Has(packets', p) /\ p \in Posted /\ Ends(p, c)
    BY <1>0, <2>10, LaterAppend DEF Posts, Ends
  <2> QED BY <2>11 DEF Ended
<1> QED BY <1>2, <1>3, <1>4, <1>8, <1>9 DEF Watched

LEMMA WatchedNext ==
    ASSUME ServerAssumption, Basics, Connections, AllWatched, [Next]_vars PROVE AllWatched'
<1> SUFFICES ASSUME ~ overtaken', NEW c \in Conns, m_mpClientSocket'[c] # None PROVE Watched(c)'
  BY DEF AllWatched
<1>1. ~ overtaken
  <2>1. ASSUME NEW w \in Workers, Worker(w) PROVE overtaken => overtaken'
    BY <2>1 DEF Worker, GetAccept, GetDisconnect, GetExit, AcceptFailed, OnlyFreeIO, GetClosed,
                GetData, GetIO, ProcessAccept, AddClientSocket, Associate, NotAssociated, Deliver,
                ReceiveAgain, NotFound, FindSocketContext, Erase, PushFree, history
  <2>2. Network \/ SendPost \/ StopBegin \/ Stop \/ (\E d \in Conns : SendFind(d) \/ Disconnect(d))
          => overtaken' = overtaken
    BY DEF Network, Connect, AcceptFails, Arrive, Finish, PeerCloses, SendPost, StopBegin, Stop,
           StopList, StopWait, StopExit, StopJoin, StopDelete, SendFind, Disconnect, history
  <2> QED BY <2>1, <2>2 DEF Next, vars, history
<1>2. Kept
  BY <1>1 DEF Connections, Unmixed
<1>3. ASSUME NEW w \in Workers,
             \/ GetAccept(w) \/ GetDisconnect(w) \/ GetExit(w) \/ AcceptFailed(w)
             \/ OnlyFreeIO(w) \/ GetClosed(w) \/ GetData(w) \/ ProcessAccept(w)
      PROVE  Watched(c)'
  <2>1. m_mpClientSocket' = m_mpClientSocket
    BY <1>3 DEF GetAccept, GetDisconnect, GetExit, AcceptFailed, OnlyFreeIO, GetClosed, GetData, GetIO,
                ProcessAccept, sockets
  <2>2. Watched(c)
    BY <1>1, <2>1 DEF AllWatched
  <2> QED BY <1>3, <2>2, WatchedGets
<1>4. ASSUME NEW w \in Workers, Worker(w) PROVE Watched(c)'
  BY <1>1, <1>2, <1>3, <1>4, WatchedServes DEF Worker
<1> QED BY <1>1, <1>2, <1>4, WatchedOthers DEF Next

\* As long as no connection is closed while something else has it in hand, each in
\* the map has a read under way, one that has completed or a worker that goes on
\* with it, but for those whose first read could not begin: the end of each is
\* noticed (TcpServer.cpp:547-700).
THEOREM IsAlwaysMinded == Spec => []AlwaysMinded
<1>1. Init => Basics /\ Connections /\ AllWatched
  <2>1. Init => AllWatched
    BY DEF Init, AllWatched
  <2> QED BY <2>1, BasicsInit, ConnectionsInit, ServerAssumption
<1>2. Basics /\ Connections /\ AllWatched /\ [Next]_vars => Basics' /\ Connections' /\ AllWatched'
  BY BasicsNext, ConnectionsNext, WatchedNext, ServerAssumption DEF Basics
<1>3. AllWatched => AlwaysMinded
  BY DEF AllWatched, Watched, AlwaysMinded, Minded, Reading, Ended, Has, Ends, Serving
<1> QED BY <1>1, <1>2, <1>3, PTL DEF Spec

-----------------------------------------------------------------------------
(* The receiver that the workers call: ReceiverPorts, of which they are    *)
(* the threads.                                                            *)

Inside == {"locked", "more", "again", "advanced"}

\* A thread past the entry of the critical section owns it, and one that found
\* room above m_nCurPort still has it: nobody else moves the index meanwhile.
LockKept ==
    /\ \A t \in TcpWorkers : place[t] \in Inside => m_csLock = t
    /\ \A t \in TcpWorkers : place[t] = "more" => m_nCurPort < nPortCount - 1

IndexKept == ReceiverTypeOK /\ m_nCurPort \in Ports /\ LockKept

\* The first state: no thread is in Recevie, and port 0 is the next one.
LEMMA IndexInit == ASSUME ReceiverInit PROVE IndexKept
<1> USE ReceiverAssumption DEF ReceiverInit
<1>1. ReceiverTypeOK
  <2>1. <<>> \in Seq(TcpWorkers)
    OBVIOUS
  <2>2. QED
    BY <2>1 DEF ReceiverTypeOK, ReceiverPlaces, Ports
<1>2. m_nCurPort \in Ports
  BY DEF Ports
<1>3. LockKept
  BY DEF LockKept, Inside
<1>4. QED
  BY <1>1, <1>2, <1>3 DEF IndexKept

\* A step of Recevie by one thread, which the others may interrupt anywhere.
LEMMA IndexRecevie ==
    ASSUME IndexKept, NEW t \in TcpWorkers, Recevie(t) PROVE IndexKept'
<1> USE ReceiverAssumption DEF IndexKept, worker, queues, owner, GoesTo
<1>1. CASE Update(t)
  BY <1>1 DEF Update, ReceiverTypeOK, LockKept, Inside, ReceiverPlaces, Ports
<1>2. CASE IOCompletePortPost(t)
  <2>1. ports' \in [Ports -> Seq(TcpWorkers)]
    <3>1. ports[m_nCurPort] \in Seq(TcpWorkers)
      BY DEF ReceiverTypeOK
    <3>2. Append(ports[m_nCurPort], t) \in Seq(TcpWorkers)
      BY <3>1
    <3>3. QED
      BY <1>2, <3>2 DEF IOCompletePortPost, ReceiverTypeOK
  <2>2. QED
    BY <1>2, <2>1 DEF IOCompletePortPost, ReceiverTypeOK, LockKept, Inside, ReceiverPlaces, Ports
<1>3. CASE Enters(t)
  BY <1>3 DEF Enters, ReceiverTypeOK, LockKept, Inside, ReceiverPlaces, Ports
<1>4. CASE Compares(t)
  BY <1>4 DEF Compares, ReceiverTypeOK, LockKept, Inside, ReceiverPlaces, Ports
<1>5. CASE NextPort(t)
  <2>1. m_csLock = t
    BY <1>5 DEF NextPort, LockKept, Inside
  <2>2. m_nCurPort' \in Ports
    BY <1>5 DEF NextPort, LockKept, Ports
  <2>3. ReceiverTypeOK'
    BY <1>5 DEF NextPort, ReceiverTypeOK, ReceiverPlaces, Ports
  <2>4. \A u \in TcpWorkers : place'[u] # "more"
    BY <1>5, <2>1 DEF NextPort, LockKept, Inside, ReceiverTypeOK
  <2>5. QED
    BY <1>5, <2>1, <2>2, <2>3, <2>4 DEF NextPort, LockKept, Inside, ReceiverTypeOK
<1>6. CASE Returns(t)
  <2>1. m_csLock = t
    BY <1>6 DEF Returns, LockKept, Inside
  <2>2. QED
    BY <1>6, <2>1 DEF Returns, ReceiverTypeOK, LockKept, Inside, ReceiverPlaces, Ports
<1>7. QED
  BY <1>1, <1>2, <1>3, <1>4, <1>5, <1>6 DEF Recevie

\* The threads of the ports and ~CAppEntity move neither the index nor a
\* thread of the TCP server.
LEMMA IndexOthers ==
    ASSUME IndexKept,
           \/ \E i \in Ports : TakesObject(i) \/ \E t \in TcpWorkers : Operates(i, t)
           \/ Closes \/ EndsPort \/ DeletesPort \/ DeletesReceiver
           \/ \E t \in TcpWorkers : CalledTooLate(t)
    PROVE  ReceiverTypeOK' /\ UNCHANGED worker
<1> USE ReceiverAssumption DEF IndexKept, worker, queues, owner
<1>1. ASSUME NEW i \in Ports, TakesObject(i) PROVE ReceiverTypeOK' /\ UNCHANGED worker
  <2>1. ports[i] \in Seq(TcpWorkers) /\ ports[i] # <<>>
    BY <1>1 DEF TakesObject, ReceiverTypeOK
  <2>2. Head(ports[i]) \in TcpWorkers /\ Tail(ports[i]) \in Seq(TcpWorkers)
    BY <2>1
  <2>3. ports' \in [Ports -> Seq(TcpWorkers)] /\ hand' \in [Ports -> SUBSET TcpWorkers]
    BY <1>1, <2>2 DEF TakesObject, ReceiverTypeOK
  <2>4. QED
    BY <1>1, <2>3 DEF TakesObject, ReceiverTypeOK
<1>2. ASSUME NEW i \in Ports, NEW t \in TcpWorkers, Operates(i, t)
      PROVE  ReceiverTypeOK' /\ UNCHANGED worker
  BY <1>2 DEF Operates, ReceiverTypeOK
<1>3. CASE Closes
  BY <1>3 DEF Closes, ReceiverTypeOK
<1>4. CASE EndsPort
  <2>1. destroyed \in Ports /\ ports[destroyed] \in Seq(TcpWorkers)
    BY <1>4 DEF EndsPort, ReceiverTypeOK, Ports
  <2>2. Len(ports[destroyed]) \in Nat
    BY <2>1
  <2>3. QED
    BY <1>4, <2>1, <2>2 DEF EndsPort, ReceiverTypeOK
<1>5. CASE DeletesPort
  <2>1. ports' \in [Ports -> Seq(TcpWorkers)]
    <3>1. <<>> \in Seq(TcpWorkers)
      OBVIOUS
    <3>2. QED
      BY <1>5, <3>1 DEF DeletesPort, ReceiverTypeOK
  <2>2. destroyed' \in 0..nPortCount
    BY <1>5 DEF DeletesPort, ReceiverTypeOK, Ports
  <2>3. QED
    BY <1>5, <2>1, <2>2 DEF DeletesPort, ReceiverTypeOK
<1>6. CASE DeletesReceiver
  BY <1>6 DEF DeletesReceiver, ReceiverTypeOK
<1>7. ASSUME NEW t \in TcpWorkers, CalledTooLate(t) PROVE ReceiverTypeOK' /\ UNCHANGED worker
  BY <1>7 DEF CalledTooLate, ReceiverTypeOK
<1>8. QED
  BY <1>1, <1>2, <1>3, <1>4, <1>5, <1>6, <1>7

LEMMA IndexNext ==
    ASSUME IndexKept, [ReceiverNext]_receiverVars
    PROVE  IndexKept'
<1>1. CASE UNCHANGED receiverVars
  BY <1>1 DEF IndexKept, receiverVars, worker, queues, owner, ReceiverTypeOK, LockKept, Ports
<1>2. ASSUME NEW t \in TcpWorkers, Recevie(t) PROVE IndexKept'
  BY <1>2, IndexRecevie
<1>3. ASSUME \/ \E i \in Ports : TakesObject(i) \/ \E t \in TcpWorkers : Operates(i, t)
             \/ Closes \/ EndsPort \/ DeletesPort \/ DeletesReceiver
             \/ \E t \in TcpWorkers : CalledTooLate(t)
      PROVE  IndexKept'
  BY <1>3, IndexOthers DEF IndexKept, worker, LockKept, Ports
<1>4. QED
  BY <1>1, <1>2, <1>3 DEF ReceiverNext

\* The index of the next port is always that of a port, although Recevie reads
\* it before it enters the critical section (ThreadSocketRecevier.cpp:57-66).
THEOREM PortAlwaysInRange == ReceiverSpec => []PortInRange
<1>1. ReceiverInit => IndexKept
  BY IndexInit
<1>2. IndexKept /\ [ReceiverNext]_receiverVars => IndexKept'
  BY IndexNext
<1>3. IndexKept => PortInRange
  BY DEF IndexKept, PortInRange
<1>4. QED
  BY <1>1, <1>2, <1>3, PTL DEF ReceiverSpec

=============================================================================
