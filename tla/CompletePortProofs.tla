------------------------- MODULE CompletePortProofs -------------------------
(***************************************************************************)
(* Proofs about CompletePort for any number of threads, any batch size and *)
(* any objects: the port is closed after its workers, and drained, and its *)
(* destruction can hang in one way only.                                   *)
(***************************************************************************)
EXTENDS CompletePort, SequenceTheorems, FiniteSetTheorems, FunctionTheorems, TLAPS

\* How far DestroyCompletePort has come.
Progress ==
    /\ owner \in {"create", "open"} => index = 0 /\ sent = 0
    /\ owner = "post" => index < threads /\ sent < wait
    /\ owner = "wait" => index < threads /\ sent = wait
    /\ owner \in {"close", "closed"} => index = threads
    /\ \A w \in 1..index : Ended(w)

\* No exit packet before the destruction, and none in front of an early object.
ExitsLast ==
    /\ owner \in {"create", "open"} =>
         /\ \A i \in DOMAIN packets : packets[i] # EXIT
         /\ \A w \in Workers : wpc[w] # "exited"
    /\ \A i, j \in DOMAIN packets :
         packets[i] = EXIT /\ packets[j] \in early => j < i
    /\ \A w \in Workers : wpc[w] = "exited" =>
         \A i \in DOMAIN packets : packets[i] \notin early

\* An early object is in the queue, with a worker, or deleted.
EarlyKept ==
    owner # "closed" =>
      \A o \in early : \/ o \in deleted
                       \/ \E i \in DOMAIN packets : packets[i] = o
                       \/ \E w \in Workers : cur[w] = o

\* What is in the queue or with a worker was accepted.
Known == /\ \A i \in DOMAIN packets : packets[i] \in accepted \cup {EXIT}
         /\ \A w \in Workers : cur[w] \in accepted \cup {None}

IInv == TypeOK /\ Known /\ Progress /\ ExitsLast /\ EarlyKept /\ DrainedWhenClosed

-----------------------------------------------------------------------------
(* The queue.                                                              *)

LEMMA Dequeue ==
    ASSUME NEW S, NEW s \in Seq(S), s # <<>>
    PROVE  /\ Head(s) \in S /\ Tail(s) \in Seq(S)
           /\ 1 \in DOMAIN s /\ s[1] = Head(s)
           /\ \A i \in DOMAIN Tail(s) : i + 1 \in DOMAIN s /\ Tail(s)[i] = s[i + 1]
           /\ \A j \in DOMAIN s \ {1} :
                j - 1 \in DOMAIN Tail(s) /\ Tail(s)[j - 1] = s[j]
<1>1. /\ Head(s) \in S /\ Tail(s) \in Seq(S) /\ Len(Tail(s)) = Len(s) - 1
      /\ \A i \in 1..Len(Tail(s)) : Tail(s)[i] = s[i + 1]
  BY HeadTailProperties
<1>2. Len(s) \in Nat \ {0} /\ DOMAIN s = 1..Len(s) /\ s[1] = Head(s)
  BY EmptySeq
<1>3. DOMAIN Tail(s) = 1..(Len(s) - 1)
  BY <1>1
<1>4. \A j \in DOMAIN s \ {1} : j - 1 \in 1..(Len(s) - 1) /\ (j - 1) + 1 = j
  BY <1>2
<1> QED BY <1>1, <1>2, <1>3, <1>4

LEMMA Enqueue ==
    ASSUME NEW S, NEW s \in Seq(S), NEW e \in S
    PROVE  /\ Append(s, e) \in Seq(S)
           /\ Len(s) + 1 \in DOMAIN Append(s, e) /\ Append(s, e)[Len(s) + 1] = e
           /\ \A i \in DOMAIN s : i \in DOMAIN Append(s, e) /\ Append(s, e)[i] = s[i]
                                  /\ i < Len(s) + 1
           /\ \A i \in DOMAIN Append(s, e) : i \in DOMAIN s \/ i = Len(s) + 1
<1>1. /\ Append(s, e) \in Seq(S) /\ Len(Append(s, e)) = Len(s) + 1
      /\ \A i \in 1..Len(s) : Append(s, e)[i] = s[i]
      /\ Append(s, e)[Len(s) + 1] = e
  BY AppendProperties
<1>2. /\ Len(s) \in Nat /\ DOMAIN s = 1..Len(s)
      /\ DOMAIN Append(s, e) = 1..(Len(s) + 1)
  BY <1>1
<1> QED BY <1>1, <1>2

-----------------------------------------------------------------------------
(* The initial state and types.                                            *)

LEMMA InitInv == Init => IInv
<1> SUFFICES ASSUME Init PROVE IInv
  OBVIOUS
<1>1. packets = <<>> /\ packets \in Seq(Objects \cup {EXIT}) /\ DOMAIN packets = {}
  BY EmptySeq DEF Init
<1>2. MaxThreads \in Nat /\ MaxWait \in Nat \ {0}
  BY PortAssumption
<1>3. TypeOK
  BY <1>1, <1>2 DEF Init, TypeOK, Workers, Live, Places, HasObject, wait
<1>4. Progress /\ DrainedWhenClosed
  BY <1>2 DEF Init, Progress, DrainedWhenClosed
<1>5. ExitsLast /\ EarlyKept /\ Known
  BY <1>1 DEF Init, ExitsLast, EarlyKept, Known
<1> QED BY <1>3, <1>4, <1>5 DEF IInv

LEMMA TypeNext == ASSUME TypeOK, Known, Progress, [Next]_vars PROVE TypeOK'
<1> USE PortAssumption DEF TypeOK, Workers, Live, Places, HasObject, wait,
                           worker, destroy, history
<1>1. CASE CreateThread
  BY <1>1 DEF CreateThread, Progress
<1>2. CASE Created
  BY <1>2 DEF Created
<1>3. CASE DestroyBegin
  BY <1>3 DEF DestroyBegin, NextBatch
<1>4. CASE PostExit
  <2>1. packets' \in Seq(Objects \cup {EXIT})
    BY <1>4, Enqueue DEF PostExit
  <2>2. sent' \in 0..wait'
    BY <1>4 DEF PostExit, Progress
  <2> QED BY <1>4, <2>1, <2>2 DEF PostExit
<1>5. CASE WaitForBatch
  <2>1. index' \in 0..threads' /\ sent' = 0
    BY <1>5 DEF WaitForBatch
  <2>2. 0 \in 0..wait'
    BY <2>1, <1>5 DEF WaitForBatch
  <2> QED BY <1>5, <2>1, <2>2 DEF WaitForBatch, NextBatch
<1>6. CASE ClosePort
  BY <1>6, EmptySeq DEF ClosePort
<1>7. ASSUME NEW o \in Objects, Post(o) PROVE TypeOK'
  <2>1. packets' \in Seq(Objects \cup {EXIT})
    BY <1>7, Enqueue DEF Post
  <2> QED BY <1>7, <2>1 DEF Post
<1>8. ASSUME NEW w \in Workers, Work(w) PROVE TypeOK'
  <2>1. CASE GetObject(w)
    <3>1. Head(packets) \in Objects /\ Tail(packets) \in Seq(Objects \cup {EXIT})
      BY <2>1, Dequeue DEF GetObject
    <3> QED BY <2>1, <3>1 DEF GetObject
  <2>2. CASE GetExit(w)
    <3>1. Tail(packets) \in Seq(Objects \cup {EXIT})
      BY <2>2, Dequeue DEF GetExit
    <3> QED BY <2>2, <3>1 DEF GetExit
  <2>3. CASE Operate(w)
    BY <2>3 DEF Operate
  <2>4. CASE Delete(w)
    <3>1. cur[w] \in accepted /\ cur[w] # None
      BY <2>4 DEF Delete, Known
    <3> QED BY <2>4, <3>1 DEF Delete
  <2> QED BY <1>8, <2>1, <2>2, <2>3, <2>4 DEF Work
<1>9. CASE UNCHANGED vars
  BY <1>9 DEF vars
<1> QED BY <1>1, <1>2, <1>3, <1>4, <1>5, <1>6, <1>7, <1>8, <1>9 DEF Next, Destroy

-----------------------------------------------------------------------------
(* One lemma per action: the parts of IInv it may disturb.                 *)

Safe == Known /\ Progress /\ ExitsLast /\ EarlyKept /\ DrainedWhenClosed

LEMMA CreateSafe == ASSUME IInv, CreateThread \/ Created PROVE Safe'
<1> USE PortAssumption DEF IInv
<1>1. CASE CreateThread
  <2>1. /\ owner = "create" /\ UNCHANGED <<packets, cur, owner, index, sent, accepted, early, deleted>>
        /\ threads + 1 \in Workers
        /\ wpc' = [wpc EXCEPT ![threads + 1] = "get"]
        /\ threads' = threads + 1 /\ threads \in Nat
    BY <1>1 DEF CreateThread, TypeOK, Workers, history
  <2>2. Progress' /\ DrainedWhenClosed'
    BY <2>1 DEF Progress, DrainedWhenClosed
  <2>3. ExitsLast'
    BY <2>1 DEF ExitsLast, TypeOK
  <2> QED BY <2>1, <2>2, <2>3 DEF Safe, Known, EarlyKept
<1>2. CASE Created
  BY <1>2 DEF Created, Safe, Known, Progress, ExitsLast, EarlyKept, DrainedWhenClosed,
              worker, history, Ended, Live, wait
<1> QED BY <1>1, <1>2

LEMMA PostSafe == ASSUME IInv, NEW o \in Objects, Post(o) PROVE Safe'
<1> USE PortAssumption DEF IInv
<1>1. /\ owner \notin {"create", "closed"} /\ o \notin accepted
      /\ packets' = Append(packets, o)
      /\ accepted' = accepted \cup {o}
      /\ early' = IF owner = "open" THEN early \cup {o} ELSE early
      /\ UNCHANGED <<wpc, cur, threads, owner, index, sent, deleted>>
      /\ o # EXIT /\ early \subseteq accepted
  BY DEF Post, worker, destroy, TypeOK
<1>2. /\ \A i \in DOMAIN packets : i \in DOMAIN packets' /\ packets'[i] = packets[i]
      /\ \A i \in DOMAIN packets' : i \in DOMAIN packets \/ packets'[i] = o
      /\ \E i \in DOMAIN packets' : packets'[i] = o
  BY <1>1, Enqueue DEF TypeOK
<1>3. Known'
  BY <1>1, <1>2 DEF Known
<1>4. Progress'
  BY <1>1 DEF Progress, Ended, wait
<1>5. ExitsLast'
  <2>1. CASE owner = "open"
    BY <2>1, <1>1, <1>2 DEF ExitsLast
  <2>2. CASE owner # "open"
    BY <2>2, <1>1, <1>2 DEF ExitsLast
  <2> QED BY <2>1, <2>2
<1>6. EarlyKept'
  BY <1>1, <1>2 DEF EarlyKept
<1>7. DrainedWhenClosed'
  BY <1>1 DEF DrainedWhenClosed, Live
<1> QED BY <1>3, <1>4, <1>5, <1>6, <1>7 DEF Safe

LEMMA GetObjectSafe == ASSUME IInv, NEW w \in Workers, GetObject(w) PROVE Safe'
<1> USE PortAssumption DEF IInv
<1>1. /\ wpc[w] = "get" /\ packets # <<>> /\ Head(packets) # EXIT
      /\ packets' = Tail(packets)
      /\ cur' = [cur EXCEPT ![w] = Head(packets)]
      /\ wpc' = [wpc EXCEPT ![w] = "operate"]
      /\ UNCHANGED <<threads, owner, index, sent, accepted, early, deleted>>
  BY DEF GetObject, destroy, history
<1>2. /\ 1 \in DOMAIN packets /\ packets[1] = Head(packets)
      /\ \A i \in DOMAIN packets' : i + 1 \in DOMAIN packets /\ packets'[i] = packets[i + 1]
      /\ \A j \in DOMAIN packets \ {1} : j - 1 \in DOMAIN packets' /\ packets'[j - 1] = packets[j]
  BY <1>1, Dequeue DEF TypeOK
<1>3. cur[w] = None /\ w \in Live /\ cur'[w] = packets[1] /\ wpc'[w] = "operate"
  BY <1>1, <1>2 DEF TypeOK, HasObject
<1>4. \A v \in Workers \ {w} : wpc'[v] = wpc[v] /\ cur'[v] = cur[v]
  BY <1>1 DEF TypeOK
<1>5. Known'
  BY <1>1, <1>2, <1>3, <1>4 DEF Known
<1>6. Progress'
  <2>1. w \notin 1..index
    BY <1>1 DEF Progress, Ended
  <2>2. \A v \in 1..index : v \in Workers
    BY DEF TypeOK, Workers
  <2> QED BY <1>1, <1>4, <2>1, <2>2 DEF Progress, Ended, wait
<1>7. ExitsLast'
  <2>1. \A i, j \in DOMAIN packets' : packets'[i] = EXIT /\ packets'[j] \in early' => j < i
    <3> SUFFICES ASSUME NEW i \in DOMAIN packets', NEW j \in DOMAIN packets',
                        packets'[i] = EXIT, packets'[j] \in early'
                 PROVE  j < i
      OBVIOUS
    <3>1. i \in Int /\ j \in Int
      BY <1>1, Dequeue DEF TypeOK
    <3>2. j + 1 < i + 1
      BY <1>1, <1>2 DEF ExitsLast
    <3> QED BY <3>1, <3>2
  <2>2. \A v \in Workers : wpc'[v] = "exited" => wpc[v] = "exited"
    BY <1>3, <1>4
  <2> QED BY <2>1, <2>2, <1>1, <1>2 DEF ExitsLast
<1>8. EarlyKept'
  <2> SUFFICES ASSUME owner # "closed", NEW o \in early, o \notin deleted
               PROVE  \/ \E i \in DOMAIN packets' : packets'[i] = o
                      \/ \E v \in Workers : cur'[v] = o
    BY <1>1 DEF EarlyKept
  <2>1. CASE \E i \in DOMAIN packets : packets[i] = o
    BY <2>1, <1>2, <1>3
  <2>2. CASE \E v \in Workers : cur[v] = o
    <3>1. o # None
      BY DEF TypeOK
    <3> QED BY <2>2, <3>1, <1>3, <1>4
  <2> QED BY <2>1, <2>2 DEF EarlyKept
<1>9. DrainedWhenClosed'
  <2>1. \A v \in Live : wpc'[v] = "exited" => wpc[v] = "exited"
    BY <1>3, <1>4 DEF Live, Workers, TypeOK
  <2> QED BY <2>1, <1>1 DEF DrainedWhenClosed, Live
<1> QED BY <1>5, <1>6, <1>7, <1>8, <1>9 DEF Safe

LEMMA GetExitSafe == ASSUME IInv, NEW w \in Workers, GetExit(w) PROVE Safe'
<1> USE PortAssumption DEF IInv
<1>1. /\ wpc[w] = "get" /\ packets # <<>> /\ Head(packets) = EXIT
      /\ packets' = Tail(packets)
      /\ wpc' = [wpc EXCEPT ![w] = "exited"]
      /\ UNCHANGED <<cur, threads, owner, index, sent, accepted, early, deleted>>
  BY DEF GetExit, destroy, history
<1>2. /\ 1 \in DOMAIN packets /\ packets[1] = EXIT
      /\ \A i \in DOMAIN packets' : i + 1 \in DOMAIN packets /\ packets'[i] = packets[i + 1]
      /\ \A j \in DOMAIN packets \ {1} : j - 1 \in DOMAIN packets' /\ packets'[j - 1] = packets[j]
  BY <1>1, Dequeue DEF TypeOK
<1>3. wpc'[w] = "exited" /\ w \in Live
  BY <1>1 DEF TypeOK
<1>4. \A v \in Workers \ {w} : wpc'[v] = wpc[v]
  BY <1>1 DEF TypeOK
<1>5. Known'
  BY <1>1, <1>2 DEF Known
<1>6. owner \notin {"create", "open"}
  BY <1>2 DEF ExitsLast
<1>7. Progress'
  <2>1. \A v \in 1..index : v \in Workers
    BY DEF TypeOK, Workers
  <2> QED BY <1>1, <1>3, <1>4, <2>1 DEF Progress, Ended, wait
<1>8. \A i \in DOMAIN packets' : packets'[i] \notin early
  <2> SUFFICES ASSUME NEW i \in DOMAIN packets', packets'[i] \in early PROVE FALSE
    OBVIOUS
  <2>1. i \in 1..Len(packets') /\ Len(packets') \in Nat
    BY <1>1, Dequeue DEF TypeOK
  <2>2. i + 1 < 1
    BY <1>2 DEF ExitsLast
  <2> QED BY <2>1, <2>2
<1>9. ExitsLast'
  BY <1>1, <1>6, <1>8 DEF ExitsLast
<1>10. EarlyKept'
  <2> SUFFICES ASSUME owner # "closed", NEW o \in early, o \notin deleted
               PROVE  \/ \E i \in DOMAIN packets' : packets'[i] = o
                      \/ \E v \in Workers : cur'[v] = o
    BY <1>1 DEF EarlyKept
  <2>1. o # EXIT
    BY DEF TypeOK
  <2> QED BY <2>1, <1>1, <1>2 DEF EarlyKept
<1>11. DrainedWhenClosed'
  <2>1. owner \notin {"close", "closed"}
    BY <1>1, <1>3 DEF Progress, Ended, Live
  <2> QED BY <2>1, <1>1 DEF DrainedWhenClosed
<1> QED BY <1>5, <1>7, <1>9, <1>10, <1>11 DEF Safe

LEMMA OperateSafe == ASSUME IInv, NEW w \in Workers, Operate(w) PROVE Safe'
<1> USE PortAssumption DEF IInv
<1>1. /\ wpc[w] = "operate" /\ wpc' = [wpc EXCEPT ![w] = "delete"]
      /\ UNCHANGED <<packets, cur, threads, owner, index, sent, accepted, early, deleted>>
  BY DEF Operate, destroy, history
<1>2. wpc'[w] = "delete" /\ \A v \in Workers \ {w} : wpc'[v] = wpc[v]
  BY <1>1 DEF TypeOK
<1>3. Progress'
  <2>1. \A v \in 1..index : v \in Workers /\ v # w
    BY <1>1 DEF TypeOK, Workers, Progress, Ended
  <2> QED BY <1>1, <1>2, <2>1 DEF Progress, Ended, wait
<1>4. \A v \in Workers : wpc'[v] = "exited" => wpc[v] = "exited"
  BY <1>2
<1>5. ExitsLast'
  BY <1>1, <1>4 DEF ExitsLast
<1>6. DrainedWhenClosed'
  <2>1. \A v \in Live : v \in Workers
    BY DEF Live, Workers, TypeOK
  <2> QED BY <1>1, <1>4, <2>1 DEF DrainedWhenClosed, Live
<1> QED BY <1>1, <1>3, <1>5, <1>6 DEF Safe, Known, EarlyKept

LEMMA DeleteSafe == ASSUME IInv, NEW w \in Workers, Delete(w) PROVE Safe'
<1> USE PortAssumption DEF IInv
<1>1. /\ wpc[w] = "delete" /\ deleted' = deleted \cup {cur[w]}
      /\ cur' = [cur EXCEPT ![w] = None]
      /\ wpc' = [wpc EXCEPT ![w] = IF cur[w] \in ExitObjects THEN "left" ELSE "get"]
      /\ UNCHANGED <<packets, threads, owner, index, sent, accepted, early>>
  BY DEF Delete, destroy
<1>2. /\ wpc'[w] \in {"left", "get"} /\ cur'[w] = None
      /\ \A v \in Workers \ {w} : wpc'[v] = wpc[v] /\ cur'[v] = cur[v]
  BY <1>1 DEF TypeOK
<1>3. Progress'
  <2>1. \A v \in 1..index : v \in Workers /\ v # w
    BY <1>1 DEF TypeOK, Workers, Progress, Ended
  <2> QED BY <1>1, <1>2, <2>1 DEF Progress, Ended, wait
<1>4. \A v \in Workers : wpc'[v] = "exited" => wpc[v] = "exited"
  BY <1>2
<1>5. ExitsLast'
  BY <1>1, <1>4 DEF ExitsLast
<1>6. DrainedWhenClosed'
  <2>1. \A v \in Live : v \in Workers
    BY DEF Live, Workers, TypeOK
  <2> QED BY <1>1, <1>4, <2>1 DEF DrainedWhenClosed, Live
<1>7. EarlyKept' /\ Known'
  BY <1>1, <1>2 DEF EarlyKept, Known
<1> QED BY <1>3, <1>5, <1>6, <1>7 DEF Safe

\* Nobody is at work when every thread has ended: what is early and not in the
\* queue is deleted.
LEMMA EndedKeepNothing ==
    ASSUME IInv, owner # "closed", \A v \in Live : Ended(v), NEW v \in Live,
           wpc[v] = "exited"
    PROVE  early \subseteq deleted
<1> USE PortAssumption DEF IInv
<1>1. v \in Workers
  BY DEF Live, Workers, TypeOK
<1>2. \A i \in DOMAIN packets : packets[i] \notin early
  BY <1>1 DEF ExitsLast
<1>3. \A u \in Workers : cur[u] = None
  BY DEF TypeOK, HasObject, Ended
<1>4. None \notin early
  BY DEF TypeOK
<1> QED BY <1>2, <1>3, <1>4 DEF EarlyKept

LEMMA DestroyBeginSafe == ASSUME IInv, DestroyBegin PROVE Safe'
<1> USE PortAssumption DEF IInv
<1>1. /\ owner = "open" /\ owner' = (IF 0 < threads THEN "post" ELSE "close")
      /\ UNCHANGED <<packets, wpc, cur, threads, index, sent, accepted, early, deleted>>
      /\ index = 0 /\ sent = 0
  BY DEF DestroyBegin, NextBatch, worker, history, Progress
<1>2. Progress'
  BY <1>1 DEF Progress, Ended, wait, TypeOK
<1>3. DrainedWhenClosed'
  <2>1. \A w \in Live : wpc[w] # "exited"
    BY <1>1 DEF ExitsLast, Live, Workers, TypeOK
  <2> QED BY <2>1, <1>1 DEF DrainedWhenClosed, Live
<1> QED BY <1>1, <1>2, <1>3 DEF Safe, Known, ExitsLast, EarlyKept

LEMMA PostExitSafe == ASSUME IInv, PostExit PROVE Safe'
<1> USE PortAssumption DEF IInv
<1>1. /\ owner = "post" /\ packets' = Append(packets, EXIT) /\ sent' = sent + 1
      /\ owner' = IF sent + 1 = wait THEN "wait" ELSE "post"
      /\ UNCHANGED <<wpc, cur, threads, index, accepted, early, deleted>>
  BY DEF PostExit, worker, history
<1>2. /\ \A i \in DOMAIN packets : /\ i \in DOMAIN packets' /\ packets'[i] = packets[i]
                                   /\ i < Len(packets) + 1
      /\ \A i \in DOMAIN packets' : i \in DOMAIN packets \/ i = Len(packets) + 1
      /\ packets'[Len(packets) + 1] = EXIT
  BY <1>1, Enqueue DEF TypeOK
<1>3. EXIT \notin early
  BY DEF TypeOK
<1>4. Known'
  BY <1>1, <1>2 DEF Known
<1>5. Progress'
  BY <1>1 DEF Progress, Ended, wait, TypeOK
<1>6. ExitsLast'
  <2>1. owner' \notin {"create", "open"}
    BY <1>1
  <2>2. \A i, j \in DOMAIN packets' : packets'[i] = EXIT /\ packets'[j] \in early' => j < i
    BY <1>1, <1>2, <1>3 DEF ExitsLast
  <2>3. \A w \in Workers : wpc'[w] = "exited" =>
          \A i \in DOMAIN packets' : packets'[i] \notin early'
    BY <1>1, <1>2, <1>3 DEF ExitsLast
  <2> QED BY <2>1, <2>2, <2>3 DEF ExitsLast
<1>7. EarlyKept'
  BY <1>1, <1>2 DEF EarlyKept
<1>8. DrainedWhenClosed'
  BY <1>1 DEF DrainedWhenClosed
<1> QED BY <1>4, <1>5, <1>6, <1>7, <1>8 DEF Safe

LEMMA WaitForBatchSafe == ASSUME IInv, WaitForBatch PROVE Safe'
<1> USE PortAssumption DEF IInv
<1>1. /\ owner = "wait" /\ \A w \in Batch : Ended(w)
      /\ index' = index + wait /\ sent' = 0
      /\ owner' = IF index + wait < threads THEN "post" ELSE "close"
      /\ UNCHANGED <<packets, wpc, cur, threads, accepted, early, deleted>>
  BY DEF WaitForBatch, NextBatch, worker, history
<1>2. /\ threads \in Nat /\ index \in Nat /\ wait \in Nat \ {0}
      /\ index + wait <= threads
  BY <1>1 DEF TypeOK, Progress, wait
<1>3. \A w \in 1..(index + wait) : w \in 1..index \/ w \in Batch
  BY <1>2 DEF Batch
<1>4. \A w \in 1..(index + wait) : Ended(w)
  BY <1>1, <1>3 DEF Progress
<1>5. Progress'
  <2>1. \A w \in 1..index' : Ended(w)'
    BY <1>1, <1>4 DEF Ended
  <2>2. owner' = "post" => index' < threads' /\ sent' < wait'
    BY <1>1, <1>2 DEF wait
  <2>3. owner' = "close" => index' = threads'
    BY <1>1, <1>2
  <2> QED BY <2>1, <2>2, <2>3, <1>1 DEF Progress
<1>6. DrainedWhenClosed'
  <2> SUFFICES ASSUME owner' = "close", NEW v \in Live, wpc[v] = "exited"
               PROVE  early \subseteq deleted
    BY <1>1 DEF DrainedWhenClosed, Live
  <2>1. \A u \in Live : Ended(u)
    BY <1>1, <1>2, <1>4 DEF Live
  <2> QED BY <2>1, <1>1, EndedKeepNothing
<1> QED BY <1>1, <1>5, <1>6 DEF Safe, Known, ExitsLast, EarlyKept

LEMMA ClosePortSafe == ASSUME IInv, ClosePort PROVE Safe'
<1> USE PortAssumption DEF IInv
<1>1. /\ owner = "close" /\ owner' = "closed" /\ packets' = <<>>
      /\ UNCHANGED <<wpc, cur, threads, index, sent, accepted, early, deleted>>
  BY DEF ClosePort, worker, history
<1>2. DOMAIN packets' = {}
  BY <1>1
<1>3. Progress' /\ DrainedWhenClosed'
  BY <1>1 DEF Progress, Ended, DrainedWhenClosed, Live
<1> QED BY <1>1, <1>2, <1>3 DEF Safe, Known, ExitsLast, EarlyKept

LEMMA NextInv == IInv /\ [Next]_vars => IInv'
<1> SUFFICES ASSUME IInv, [Next]_vars PROVE Safe'
  BY TypeNext DEF IInv, Safe
<1>1. CASE CreateThread \/ Created
  BY <1>1, CreateSafe
<1>2. CASE DestroyBegin
  BY <1>2, DestroyBeginSafe
<1>3. CASE Destroy
  BY <1>3, PostExitSafe, WaitForBatchSafe, ClosePortSafe DEF Destroy
<1>4. CASE \E o \in Objects : Post(o)
  BY <1>4, PostSafe
<1>5. CASE \E w \in Workers : Work(w)
  BY <1>5, GetObjectSafe, GetExitSafe, OperateSafe, DeleteSafe DEF Work
<1>6. CASE UNCHANGED vars
  BY <1>6 DEF IInv, Safe, vars, worker, destroy, history, Known, Progress, ExitsLast,
              EarlyKept, DrainedWhenClosed, Ended, Live, wait
<1> QED BY <1>1, <1>2, <1>3, <1>4, <1>5, <1>6 DEF Next

LEMMA Invariant == Spec => []IInv
BY InitInv, NextInv, PTL DEF Spec, SafeSpec

-----------------------------------------------------------------------------
(* The count of exit packets.                                              *)

ExitsIn(s) == {i \in DOMAIN s : s[i] = EXIT}

\* An exit packet that was posted is in the queue or has ended one worker.
Counted ==
    owner # "closed" =>
      Cardinality(ExitsIn(packets)) + Cardinality(Gone) = index + sent

\* The exit packets of a queue are finitely many, and none when it is empty.
LEMMA ExitsNat ==
    ASSUME NEW S, NEW s \in Seq(S)
    PROVE  /\ IsFiniteSet(ExitsIn(s)) /\ Cardinality(ExitsIn(s)) \in Nat
           /\ s = <<>> => Cardinality(ExitsIn(s)) = 0
<1>1. ExitsIn(s) \in SUBSET (1..Len(s)) /\ Len(s) \in Nat
  BY DEF ExitsIn
<1>2. IsFiniteSet(1..Len(s))
  BY <1>1, FS_Interval
<1>3. s = <<>> => ExitsIn(s) = {}
  BY DEF ExitsIn
<1> QED BY <1>1, <1>2, <1>3, FS_Subset, FS_CardinalityType, FS_EmptySet

\* PostQueuedCompletionStatus adds one when it posts no object.
LEMMA ExitsAppend ==
    ASSUME NEW S, NEW s \in Seq(S), NEW e \in S
    PROVE  Cardinality(ExitsIn(Append(s, e))) =
             IF e = EXIT THEN Cardinality(ExitsIn(s)) + 1 ELSE Cardinality(ExitsIn(s))
<1>1. /\ Len(s) + 1 \notin ExitsIn(s)
      /\ IsFiniteSet(ExitsIn(s))
  BY ExitsNat DEF ExitsIn
<1>2. CASE e = EXIT
  <2>1. ExitsIn(Append(s, e)) = ExitsIn(s) \cup {Len(s) + 1}
    BY <1>2, Enqueue DEF ExitsIn
  <2> QED BY <1>1, <1>2, <2>1, FS_AddElement
<1>3. CASE e # EXIT
  <2>1. ExitsIn(Append(s, e)) = ExitsIn(s)
    BY <1>3, Enqueue DEF ExitsIn
  <2> QED BY <1>3, <2>1
<1> QED BY <1>2, <1>3

\* GetQueuedCompletionStatus takes one away when it gives no object.
LEMMA ExitsTail ==
    ASSUME NEW S, NEW s \in Seq(S), s # <<>>
    PROVE  Cardinality(ExitsIn(Tail(s))) =
             IF Head(s) = EXIT THEN Cardinality(ExitsIn(s)) - 1 ELSE Cardinality(ExitsIn(s))
<1> DEFINE T == ExitsIn(Tail(s))
           R == ExitsIn(s) \ {1}
           f == [i \in T |-> i + 1]
<1>1. Tail(s) \in Seq(S) /\ IsFiniteSet(T) /\ IsFiniteSet(ExitsIn(s))
  BY Dequeue, ExitsNat
<1>2. \A i \in T : i \in Int /\ i + 1 \in R
  BY Dequeue DEF ExitsIn
<1>3. \A j \in R : j \in Int /\ j - 1 \in T
  BY Dequeue DEF ExitsIn
<1>4. 1 \in ExitsIn(s) <=> Head(s) = EXIT
  BY Dequeue DEF ExitsIn
<1>5. f \in Bijection(T, R)
  <2> HIDE DEF T, R
  <2>1. f \in [T -> R]
    BY <1>2
  <2>2. \A i, j \in T : f[i] = f[j] => i = j
    BY <1>2
  <2>3. \A j \in R : \E i \in T : f[i] = j
    <3> TAKE j \in R
    <3>1. j - 1 \in T /\ f[j - 1] = j
      BY <1>3
    <3> QED BY <3>1
  <2> QED BY <2>1, <2>2, <2>3, Fun_IsBij
<1>6. Cardinality(T) = Cardinality(R)
  <2> HIDE DEF T, R, f
  <2> QED BY <1>1, <1>5, FS_Bijection DEF ExistsBijection
<1> HIDE DEF T
<1>7. Cardinality(T) =
        IF 1 \in ExitsIn(s) THEN Cardinality(ExitsIn(s)) - 1 ELSE Cardinality(ExitsIn(s))
  BY <1>1, <1>6, FS_RemoveElement
<1> QED BY <1>4, <1>7 DEF T

\* Workers are finitely many, and one that ends by an exit packet is one more.
LEMMA GoneNat ==
    ASSUME NEW G \in SUBSET Workers
    PROVE  /\ IsFiniteSet(G) /\ Cardinality(G) \in Nat
           /\ \A w \in Workers \ G : Cardinality(G \cup {w}) = Cardinality(G) + 1
<1>1. IsFiniteSet(Workers)
  BY FS_Interval, PortAssumption DEF Workers
<1>2. IsFiniteSet(G)
  BY <1>1, FS_Subset
<1> QED BY <1>2, FS_CardinalityType, FS_AddElement

\* A step that leaves the exit packets and the workers ended by one alone.
LEMMA CountedKept ==
    ASSUME Counted, owner' = "closed" \/ owner # "closed",
           Cardinality(ExitsIn(packets))' = Cardinality(ExitsIn(packets)),
           Gone' = Gone, index' + sent' = index + sent
    PROVE  Counted'
BY DEF Counted

\* Every step keeps the count.
LEMMA CountedNext == ASSUME IInv, Counted, [Next]_vars PROVE Counted'
<1> USE DEF worker, destroy, history
<1>1. /\ packets \in Seq(Objects \cup {EXIT}) /\ wpc \in [Workers -> Places]
      /\ EXIT \notin Objects /\ MaxThreads \in Nat /\ MaxWait \in Nat \ {0}
      /\ threads \in 0..MaxThreads /\ index \in 0..threads /\ sent \in 0..wait
  BY PortAssumption DEF IInv, TypeOK
<1>2. Gone \in SUBSET Workers
  BY DEF Gone
<1>3. CASE CreateThread
  <2>1. threads + 1 \in Workers /\ wpc[threads + 1] = "none"
    BY <1>1, <1>3 DEF CreateThread, IInv, TypeOK, Workers, Live
  <2>2. Gone' = Gone
    BY <1>1, <1>3, <2>1 DEF CreateThread, Gone, Workers
  <2> QED BY <1>3, <2>2, CountedKept DEF CreateThread
<1>4. CASE Created \/ DestroyBegin
  BY <1>4 DEF Created, DestroyBegin, NextBatch, Counted, Gone, ExitsIn
<1>5. CASE PostExit
  <2>1. Cardinality(ExitsIn(packets')) = Cardinality(ExitsIn(packets)) + 1
    BY <1>1, <1>5, ExitsAppend DEF PostExit
  <2>2. /\ owner = "post" /\ UNCHANGED <<wpc, index>> /\ sent' = sent + 1
    BY <1>5 DEF PostExit
  <2>3. Cardinality(ExitsIn(packets)) \in Nat /\ Cardinality(Gone) \in Nat
    BY <1>1, <1>2, ExitsNat, GoneNat
  <2>4. sent \in Nat /\ index \in Nat
    BY <1>1 DEF wait
  <2> QED BY <2>1, <2>2, <2>3, <2>4 DEF Counted, Gone
<1>6. CASE WaitForBatch
  <2>1. sent = wait /\ index \in Nat /\ wait \in Nat
    BY <1>1, <1>6 DEF WaitForBatch, IInv, Progress, wait
  <2>2. index' + sent' = index + sent
    BY <1>6, <2>1 DEF WaitForBatch
  <2>3. owner = "wait" /\ UNCHANGED <<packets, wpc>>
    BY <1>6 DEF WaitForBatch
  <2> QED BY <2>2, <2>3 DEF Counted, Gone
<1>7. CASE ClosePort
  BY <1>7 DEF ClosePort, Counted
<1>8. ASSUME NEW o \in Objects, Post(o) PROVE Counted'
  <2>1. Cardinality(ExitsIn(packets')) = Cardinality(ExitsIn(packets))
    BY <1>1, <1>8, ExitsAppend DEF Post
  <2>2. owner # "closed" /\ UNCHANGED <<wpc, index, sent, owner>>
    BY <1>8 DEF Post
  <2> QED BY <2>1, <2>2 DEF Counted, Gone
<1>9. ASSUME NEW w \in Workers, GetObject(w) PROVE Counted'
  <2>1. Cardinality(ExitsIn(packets')) = Cardinality(ExitsIn(packets))
    BY <1>1, <1>9, ExitsTail DEF GetObject
  <2>2. Gone' = Gone /\ UNCHANGED <<index, sent, owner>>
    BY <1>1, <1>9 DEF GetObject, Gone
  <2> QED BY <2>1, <2>2 DEF Counted
<1>10. ASSUME NEW w \in Workers, GetExit(w) PROVE Counted'
  <2>1. Cardinality(ExitsIn(packets')) = Cardinality(ExitsIn(packets)) - 1
    BY <1>1, <1>10, ExitsTail DEF GetExit
  <2>2. Gone' = Gone \cup {w} /\ w \in Workers \ Gone /\ UNCHANGED <<index, sent, owner>>
    BY <1>1, <1>10 DEF GetExit, Gone
  <2>3. /\ Cardinality(Gone') = Cardinality(Gone) + 1
        /\ Cardinality(ExitsIn(packets)) \in Nat /\ Cardinality(Gone) \in Nat
    BY <1>1, <1>2, <2>2, GoneNat, ExitsNat
  <2> QED BY <2>1, <2>2, <2>3 DEF Counted
<1>11. ASSUME NEW w \in Workers, Operate(w) \/ Delete(w) PROVE Counted'
  <2>1. Gone' = Gone /\ UNCHANGED <<packets, index, sent, owner>>
    BY <1>1, <1>11 DEF Operate, Delete, Gone
  <2> QED BY <2>1 DEF Counted
<1>12. CASE UNCHANGED vars
  BY <1>12 DEF vars, Counted, Gone
<1> QED BY <1>3, <1>4, <1>5, <1>6, <1>7, <1>8, <1>9, <1>10, <1>11, <1>12
        DEF Next, Destroy, Work

\* In the beginning there is no exit packet and no worker.
LEMMA CountedInit == Init => Counted
<1> SUFFICES ASSUME Init PROVE Counted
  OBVIOUS
<1>1. ExitsIn(packets) = {} /\ Gone = {} /\ index = 0 /\ sent = 0
  BY DEF Init, ExitsIn, Gone
<1> QED BY <1>1, FS_EmptySet DEF Counted

\* When the queue is empty, as many workers as exit packets posted have ended by
\* one.  If none of them is behind the batch, they are all the workers up to its
\* end, and the batch has ended.
LEMMA HangCounted == ASSUME IInv, Counted PROVE HangNeedsLaterBatch
<1> DEFINE end == index + wait
<1> SUFFICES ASSUME Hung, \A w \in Live : w > end => wpc[w] # "exited" PROVE FALSE
  BY DEF HangNeedsLaterBatch
<1>1. /\ MaxThreads \in Nat /\ MaxWait \in Nat \ {0} /\ threads \in 0..MaxThreads
      /\ index \in 0..threads /\ wait \in Nat /\ end \in 0..threads
      /\ packets = <<>> /\ packets \in Seq(Objects \cup {EXIT}) /\ owner = "wait" /\ sent = wait
      /\ wpc \in [Workers -> Places]
  BY PortAssumption DEF IInv, TypeOK, Progress, Hung, wait
<1>2. Cardinality(ExitsIn(packets)) = 0
  BY <1>1, ExitsNat
<1>3. Gone \in SUBSET Workers
  BY DEF Gone
<1>4. Cardinality(Gone) = end
  BY <1>1, <1>2, <1>3, GoneNat DEF Counted
<1>5. \A w \in Workers : wpc[w] = "exited" => w \in Live
  BY <1>1 DEF IInv, TypeOK
<1>6. Gone \in SUBSET (1..end)
  BY <1>1, <1>5 DEF Gone, Workers, Live
<1>7. IsFiniteSet(1..end) /\ Cardinality(1..end) = end
  BY <1>1, FS_Interval
<1>8. Gone = 1..end
  BY <1>4, <1>6, <1>7, FS_Subset
<1>9. \A w \in Batch : Ended(w)
  BY <1>1, <1>8 DEF Batch, Gone, Ended
<1> QED BY <1>9 DEF Hung

-----------------------------------------------------------------------------
(* The port implements ObjectPort.                                         *)

\* An object is in one place only: once in the queue, or with one worker, or
\* deleted.
OnePlace ==
    /\ \A i, j \in DOMAIN packets : packets[i] = packets[j] /\ packets[i] # EXIT => i = j
    /\ \A i \in DOMAIN packets : packets[i] \notin deleted
    /\ \A w \in Workers : cur[w] # None =>
         /\ cur[w] \notin deleted
         /\ \A i \in DOMAIN packets : packets[i] # cur[w]
         /\ \A v \in Workers : cur[v] = cur[w] => v = w

\* A worker has left its loop for every exit object that was deleted.
Quitters == {w \in Workers : wpc[w] = "left"}
Quit == deleted \cap ExitObjects
OneLeftEach == IsFiniteSet(Quit) /\ Cardinality(Quit) = Cardinality(Quitters)

LEMMA OnePlaceInit == Init => OnePlace /\ OneLeftEach
<1> SUFFICES ASSUME Init PROVE OnePlace /\ OneLeftEach
  OBVIOUS
<1>1. OnePlace
  BY DEF Init, OnePlace
<1>2. Quit = {} /\ Quitters = {}
  BY DEF Init, Quit, Quitters
<1> QED BY <1>1, <1>2, FS_EmptySet DEF OneLeftEach

\* What a step without an object leaves as it was.
LEMMA OnePlaceKept ==
    ASSUME OnePlace, UNCHANGED <<packets, cur, deleted>>
    PROVE  OnePlace'
BY DEF OnePlace

LEMMA OneLeftKept ==
    ASSUME OneLeftEach, deleted' = deleted,
           \A w \in Workers : wpc'[w] = "left" <=> wpc[w] = "left"
    PROVE  OneLeftEach'
<1>1. Quitters' = Quitters /\ Quit' = Quit
  BY DEF Quitters, Quit
<1> QED BY <1>1 DEF OneLeftEach

LEMMA PostOnePlace == ASSUME IInv, OnePlace, NEW o \in Objects, Post(o) PROVE OnePlace'
<1>1. /\ o \notin accepted /\ o # EXIT /\ packets' = Append(packets, o) /\ o # None
      /\ UNCHANGED <<cur, deleted>> /\ deleted \subseteq accepted
  BY PortAssumption DEF Post, worker, destroy, IInv, TypeOK
<1>2. /\ Len(packets) + 1 \in DOMAIN packets' /\ packets'[Len(packets) + 1] = o
      /\ \A i \in DOMAIN packets : i \in DOMAIN packets' /\ packets'[i] = packets[i]
      /\ \A i \in DOMAIN packets' : i \in DOMAIN packets \/ i = Len(packets) + 1
  BY <1>1, Enqueue DEF IInv, TypeOK
<1>3. /\ \A i \in DOMAIN packets : packets[i] # o
      /\ \A w \in Workers : cur[w] # o
  BY <1>1 DEF IInv, Known
<1> QED BY <1>1, <1>2, <1>3 DEF OnePlace

LEMMA PostExitOnePlace == ASSUME IInv, OnePlace, PostExit PROVE OnePlace'
<1>1. /\ packets' = Append(packets, EXIT) /\ UNCHANGED <<cur, deleted>>
      /\ EXIT \notin deleted /\ \A w \in Workers : cur[w] # None => cur[w] # EXIT
  BY PortAssumption DEF PostExit, worker, history, IInv, TypeOK
<1>2. /\ \A i \in DOMAIN packets : i \in DOMAIN packets' /\ packets'[i] = packets[i]
      /\ \A i \in DOMAIN packets' : i \in DOMAIN packets \/ packets'[i] = EXIT
  BY <1>1, Enqueue DEF IInv, TypeOK
<1> QED BY <1>1, <1>2 DEF OnePlace

\* The first packet is not behind itself.
LEMMA TailOnePlace ==
    ASSUME IInv, OnePlace, packets # <<>>, packets' = Tail(packets), deleted' = deleted
    PROVE  /\ \A i, j \in DOMAIN packets' :
                packets'[i] = packets'[j] /\ packets'[i] # EXIT => i = j
           /\ \A i \in DOMAIN packets' :
                /\ packets'[i] \notin deleted'
                /\ Head(packets) # EXIT => packets'[i] # Head(packets)
                /\ \E j \in DOMAIN packets : packets'[i] = packets[j]
<1>1. /\ 1 \in DOMAIN packets /\ packets[1] = Head(packets)
      /\ \A i \in DOMAIN packets' : i + 1 \in DOMAIN packets /\ packets'[i] = packets[i + 1]
      /\ packets' \in Seq(Objects \cup {EXIT})
  BY Dequeue DEF IInv, TypeOK
<1>2. \A i \in DOMAIN packets' : i \in Nat \ {0} /\ i + 1 # 1
  BY <1>1
<1>3. \A i, j \in DOMAIN packets' : i + 1 = j + 1 => i = j
  BY <1>2
<1>4. \A i, j \in DOMAIN packets' : packets'[i] = packets'[j] /\ packets'[i] # EXIT => i = j
  BY <1>1, <1>3 DEF OnePlace
<1>5. \A i \in DOMAIN packets' : /\ packets'[i] \notin deleted'
                                 /\ Head(packets) # EXIT => packets'[i] # Head(packets)
  BY <1>1, <1>2 DEF OnePlace
<1> QED BY <1>1, <1>4, <1>5

LEMMA GetObjectOnePlace ==
    ASSUME IInv, OnePlace, NEW w \in Workers, GetObject(w) PROVE OnePlace'
<1> DEFINE o == Head(packets)
<1>1. /\ packets # <<>> /\ o # EXIT /\ packets' = Tail(packets) /\ deleted' = deleted
      /\ cur'[w] = o /\ \A v \in Workers \ {w} : cur'[v] = cur[v]
  BY DEF GetObject, history, IInv, TypeOK
<1>2. \E i \in DOMAIN packets : packets[i] = o
  BY <1>1, Dequeue DEF IInv, TypeOK
<1> HIDE DEF o
<1>3. o \notin deleted /\ \A v \in Workers : cur[v] # None => cur[v] # o
  BY <1>2 DEF OnePlace
<1>4. o # None
  BY <1>1, <1>2, PortAssumption DEF IInv, TypeOK
<1>5. /\ \A i, j \in DOMAIN packets' : packets'[i] = packets'[j] /\ packets'[i] # EXIT => i = j
      /\ \A i \in DOMAIN packets' : /\ packets'[i] \notin deleted' /\ packets'[i] # o
                                    /\ \E j \in DOMAIN packets : packets'[i] = packets[j]
  BY <1>1, TailOnePlace DEF o
<1>6. \A v \in Workers : cur'[v] # None =>
        /\ cur'[v] \notin deleted'
        /\ \A i \in DOMAIN packets' : packets'[i] # cur'[v]
        /\ \A u \in Workers : cur'[u] = cur'[v] => u = v
  <2> SUFFICES ASSUME NEW v \in Workers, cur'[v] # None
               PROVE  /\ cur'[v] \notin deleted'
                      /\ \A i \in DOMAIN packets' : packets'[i] # cur'[v]
                      /\ \A u \in Workers : cur'[u] = cur'[v] => u = v
    OBVIOUS
  <2>1. CASE v = w
    BY <1>1, <1>3, <1>4, <1>5, <2>1
  <2>2. CASE v # w
    BY <1>1, <1>3, <1>5, <2>2 DEF OnePlace
  <2> QED BY <2>1, <2>2
<1> QED BY <1>5, <1>6 DEF OnePlace

LEMMA GetExitOnePlace ==
    ASSUME IInv, OnePlace, NEW w \in Workers, GetExit(w) PROVE OnePlace'
<1>1. packets # <<>> /\ packets' = Tail(packets) /\ UNCHANGED <<cur, deleted>>
  BY DEF GetExit, history
<1> QED BY <1>1, TailOnePlace DEF OnePlace

\* The object goes from its worker to the deleted ones, and the worker with it
\* when it was an exit object.
LEMMA DeleteOnePlace ==
    ASSUME IInv, OnePlace, OneLeftEach, NEW w \in Workers, Delete(w)
    PROVE  OnePlace' /\ OneLeftEach'
<1> DEFINE o == cur[w]
<1>1. /\ wpc[w] = "delete" /\ deleted' = deleted \cup {o} /\ packets' = packets
      /\ cur'[w] = None /\ \A v \in Workers \ {w} : cur'[v] = cur[v]
      /\ wpc'[w] = IF o \in ExitObjects THEN "left" ELSE "get"
      /\ \A v \in Workers \ {w} : wpc'[v] = wpc[v]
      /\ o # None /\ o \in Objects /\ o # EXIT
  BY PortAssumption DEF Delete, IInv, TypeOK, HasObject
<1>2. /\ o \notin deleted /\ \A i \in DOMAIN packets : packets[i] # o
      /\ \A v \in Workers : cur[v] = o => v = w
  BY <1>1 DEF OnePlace
<1> HIDE DEF o
<1>3. OnePlace'
  BY <1>1, <1>2 DEF OnePlace
<1>4. Quitters \in SUBSET Workers
  BY DEF Quitters
<1>5. CASE o \in ExitObjects
  <2>1. Quitters' = Quitters \cup {w} /\ w \in Workers \ Quitters
    BY <1>1, <1>5 DEF Quitters
  <2>2. Quit' = Quit \cup {o} /\ o \notin Quit
    BY <1>1, <1>2, <1>5 DEF Quit
  <2>3. Cardinality(Quitters') = Cardinality(Quitters) + 1
    BY <1>4, <2>1, GoneNat
  <2>4. IsFiniteSet(Quit') /\ Cardinality(Quit') = Cardinality(Quit) + 1
    BY <2>2, FS_AddElement DEF OneLeftEach
  <2> QED BY <1>3, <2>3, <2>4 DEF OneLeftEach
<1>6. CASE o \notin ExitObjects
  <2>1. Quitters' = Quitters
    BY <1>1, <1>6 DEF Quitters
  <2>2. Quit' = Quit
    BY <1>1, <1>6 DEF Quit
  <2> QED BY <1>3, <2>1, <2>2 DEF OneLeftEach
<1> QED BY <1>5, <1>6

LEMMA OnePlaceNext ==
    ASSUME IInv, OnePlace, OneLeftEach, [Next]_vars PROVE OnePlace' /\ OneLeftEach'
<1> USE DEF worker, destroy, history
<1>1. wpc \in [Workers -> Places]
  BY DEF IInv, TypeOK
<1>2. CASE CreateThread
  <2>1. UNCHANGED <<packets, cur, deleted>> /\ wpc' = [wpc EXCEPT ![threads + 1] = "get"]
    BY <1>2 DEF CreateThread
  <2>2. wpc[threads + 1] # "left" \/ threads + 1 \notin Workers
    BY <1>2, PortAssumption DEF CreateThread, IInv, TypeOK, Live, Workers
  <2>3. \A w \in Workers : wpc'[w] = "left" <=> wpc[w] = "left"
    BY <1>1, <2>1, <2>2
  <2> QED BY <2>1, <2>3, OnePlaceKept, OneLeftKept
<1>3. CASE Created \/ DestroyBegin \/ WaitForBatch
  BY <1>3, OnePlaceKept, OneLeftKept DEF Created, DestroyBegin, WaitForBatch
<1>4. CASE PostExit
  BY <1>4, PostExitOnePlace, OneLeftKept DEF PostExit
<1>5. CASE ClosePort
  <2>1. packets' = <<>> /\ UNCHANGED <<wpc, cur, deleted>>
    BY <1>5 DEF ClosePort
  <2>2. OnePlace'
    BY <2>1 DEF OnePlace
  <2> QED BY <2>1, <2>2, OneLeftKept
<1>6. ASSUME NEW o \in Objects, Post(o) PROVE OnePlace' /\ OneLeftEach'
  BY <1>6, PostOnePlace, OneLeftKept DEF Post
<1>7. ASSUME NEW w \in Workers, Work(w) PROVE OnePlace' /\ OneLeftEach'
  <2>1. CASE GetObject(w)
    BY <1>1, <2>1, GetObjectOnePlace, OneLeftKept DEF GetObject
  <2>2. CASE GetExit(w)
    BY <1>1, <2>2, GetExitOnePlace, OneLeftKept DEF GetExit
  <2>3. CASE Operate(w)
    BY <1>1, <2>3, OnePlaceKept, OneLeftKept DEF Operate
  <2>4. CASE Delete(w)
    BY <2>4, DeleteOnePlace
  <2> QED BY <1>7, <2>1, <2>2, <2>3, <2>4 DEF Work
<1>8. CASE UNCHANGED vars
  BY <1>8, OnePlaceKept, OneLeftKept DEF vars
<1> QED BY <1>2, <1>3, <1>4, <1>5, <1>6, <1>7, <1>8 DEF Next, Destroy

\* The workers that have left and those that have an object are all the workers
\* of m_hVecThread but the waiting ones.
LEMMA Staff ==
    ASSUME IInv, OneLeftEach
    PROVE  /\ Cardinality(Gone) \in Nat /\ Cardinality(Quit) \in Nat
           /\ Cardinality(InHand) \in Nat /\ threads \in Nat
           /\ \A w \in Workers : wpc[w] = "get" =>
                Cardinality(Gone) + Cardinality(Quit) + Cardinality(InHand) < threads
           /\ (\A w \in Live : Ended(w)) =>
                Cardinality(Gone) + Cardinality(Quit) = threads
<1> DEFINE Holding == {w \in Workers : cur[w] # None}
           f == [w \in Holding |-> cur[w]]
<1>1. /\ threads \in Nat /\ Live \in SUBSET Workers
      /\ IsFiniteSet(Live) /\ Cardinality(Live) = threads
  BY PortAssumption, FS_Interval DEF IInv, TypeOK, Live, Workers
<1>2. /\ Gone \in SUBSET Workers /\ Quitters \in SUBSET Workers /\ Holding \in SUBSET Workers
      /\ Gone \in SUBSET Live /\ Quitters \in SUBSET Live /\ Holding \in SUBSET Live
      /\ Gone \cap Quitters = {} /\ (Gone \cup Quitters) \cap Holding = {}
      /\ \A w \in Workers : wpc[w] = "get" => w \in Live \ ((Gone \cup Quitters) \cup Holding)
  BY DEF IInv, TypeOK, Gone, Quitters, HasObject
<1>3. f \in Surjection(Holding, InHand)
  BY DEF InHand, Surjection
<1> HIDE DEF Holding, f
<1>4. /\ IsFiniteSet(Gone) /\ IsFiniteSet(Quitters) /\ IsFiniteSet(Holding)
      /\ Cardinality(Gone) \in Nat /\ Cardinality(Quitters) \in Nat
      /\ Cardinality(Holding) \in Nat
  BY <1>2, GoneNat
<1>5. /\ IsFiniteSet(InHand) /\ Cardinality(InHand) <= Cardinality(Holding)
      /\ Cardinality(InHand) \in Nat
  BY <1>3, <1>4, FS_Surjection, FS_CardinalityType
<1>6. /\ IsFiniteSet(Gone \cup Quitters)
      /\ Cardinality(Gone \cup Quitters) = Cardinality(Gone) + Cardinality(Quitters)
  <2>1. Cardinality(Gone \cap Quitters) = 0
    BY <1>2, FS_EmptySet
  <2>2. /\ IsFiniteSet(Gone \cup Quitters)
        /\ Cardinality(Gone \cup Quitters) =
             Cardinality(Gone) + Cardinality(Quitters) - Cardinality(Gone \cap Quitters)
    BY <1>4, FS_Union
  <2> QED BY <1>4, <2>1, <2>2
<1>7. Cardinality(Quit) = Cardinality(Quitters)
  BY DEF OneLeftEach
<1>8. ASSUME NEW w \in Workers, wpc[w] = "get"
      PROVE  Cardinality(Gone) + Cardinality(Quit) + Cardinality(InHand) < threads
  <2> DEFINE A == (Gone \cup Quitters) \cup Holding
  <2>1. /\ IsFiniteSet(A)
        /\ Cardinality(A) = Cardinality(Gone) + Cardinality(Quitters) + Cardinality(Holding)
    <3>1. Cardinality((Gone \cup Quitters) \cap Holding) = 0
      BY <1>2, FS_EmptySet
    <3>2. /\ IsFiniteSet(A)
          /\ Cardinality(A) = Cardinality(Gone \cup Quitters) + Cardinality(Holding)
                              - Cardinality((Gone \cup Quitters) \cap Holding)
      BY <1>4, <1>6, FS_Union
    <3> HIDE DEF A
    <3> QED BY <1>4, <1>6, <3>1, <3>2
  <2>2. A \in SUBSET Live /\ w \in Live /\ w \notin A
    BY <1>2, <1>8
  <2> HIDE DEF A
  <2>3. Cardinality(A) <= threads /\ Cardinality(A) # threads
    BY <1>1, <2>2, FS_Subset
  <2> QED BY <1>1, <1>4, <1>5, <1>7, <2>1, <2>3
<1>9. ASSUME \A w \in Live : Ended(w)
      PROVE  Cardinality(Gone) + Cardinality(Quit) = threads
  <2>1. Gone \cup Quitters = Live
    BY <1>1, <1>2, <1>9 DEF Ended, Gone, Quitters
  <2> QED BY <1>1, <1>6, <1>7, <2>1
<1> QED BY <1>1, <1>4, <1>5, <1>7, <1>8, <1>9

\* ObjectPort counts as its port does.
LEMMA SameCount == \A S : Port!Cardinality(S) = Cardinality(S)
BY DEF Cardinality, Port!Cardinality, IsFiniteSet, Port!IsFiniteSet

\* What the owner does, seen by those who post.
LEMMA OwnerImplements ==
    ASSUME IInv, OneLeftEach,
           CreateThread \/ Created \/ DestroyBegin \/ Destroy
    PROVE  Port!Next \/ UNCHANGED Port!vars
<1> USE DEF worker, destroy, history, Port!Next
<1>1. wpc \in [Workers -> Places] /\ threads \in Nat /\ index \in Nat
  BY DEF IInv, TypeOK
<1>2. CASE CreateThread
  <2>1. wpc[threads + 1] = "none" \/ threads + 1 \notin Workers
    BY <1>2, PortAssumption DEF CreateThread, IInv, TypeOK, Live, Workers
  <2>2. Gone' = Gone
    BY <1>1, <1>2, <2>1 DEF CreateThread, Gone
  <2> QED BY <1>2, <2>2 DEF CreateThread, InHand, Port!Start
<1>3. CASE Created
  BY <1>3 DEF Created, InHand, Gone, Port!Open
<1>4. CASE DestroyBegin
  BY <1>4 DEF DestroyBegin, NextBatch, InHand, Gone, Port!End
<1>5. CASE PostExit
  BY <1>5 DEF PostExit, InHand, Gone, Port!Tell
<1>6. CASE WaitForBatch
  BY <1>6 DEF WaitForBatch, NextBatch, InHand, Gone, Port!vars
<1>7. CASE ClosePort
  <2>1. \A w \in Live : Ended(w)
    BY <1>7 DEF ClosePort, IInv, Progress, Live
  <2>2. InHand = {}
    BY <2>1 DEF InHand, IInv, TypeOK, HasObject, Ended
  <2>3. Cardinality(Gone) + Cardinality(Quit) = threads
    BY <2>1, Staff
  <2>4. Cardinality(Gone) > 0 => early \subseteq deleted
    <3>1. Gone = {} => Cardinality(Gone) = 0
      BY FS_EmptySet
    <3>2. \A w \in Gone : w \in Live /\ wpc[w] = "exited"
      BY DEF Gone, IInv, TypeOK
    <3> QED BY <1>7, <3>1, <3>2 DEF ClosePort, IInv, DrainedWhenClosed
  <2>5. /\ owner = "close" /\ owner' = "closed" /\ packets' = <<>>
        /\ UNCHANGED <<wpc, cur, threads, accepted, early, deleted>>
    BY <1>7 DEF ClosePort
  <2>6. InHand' = InHand /\ Gone' = Gone
    BY <2>5 DEF InHand, Gone
  <2>7. Port!Left = threads
    BY <2>3, SameCount DEF Port!Left, Quit
  <2> QED BY <2>2, <2>4, <2>5, <2>6, <2>7 DEF Port!Close
<1> QED BY <1>2, <1>3, <1>4, <1>5, <1>6, <1>7 DEF Destroy

LEMMA PostImplements ==
    ASSUME IInv, NEW o \in Objects, Post(o) PROVE Port!Post(o)
<1>1. /\ owner \notin {"create", "closed"} /\ o \notin accepted /\ o # EXIT /\ o # None
      /\ packets' = Append(packets, o)
      /\ early' = IF owner = "open" THEN early \cup {o} ELSE early
      /\ UNCHANGED <<wpc, cur, threads, owner, deleted>>
      /\ owner \in {"open", "post", "wait", "close"} /\ deleted \subseteq accepted
  BY PortAssumption DEF Post, worker, destroy, IInv, TypeOK
<1>2. o \notin Port!Queued /\ o \notin InHand
  BY <1>1 DEF Port!Queued, InHand, IInv, Known
<1>3. InHand' = InHand /\ Gone' = Gone
  BY <1>1 DEF InHand, Gone
<1> QED BY <1>1, <1>2, <1>3 DEF Port!Post

\* A worker, seen by those who post: which one takes an object does not matter.
LEMMA WorkerImplements ==
    ASSUME IInv, OnePlace, OneLeftEach, NEW w \in Workers, Work(w)
    PROVE  Port!Next \/ UNCHANGED Port!vars
<1> USE DEF worker, destroy, history
<1>1. wpc \in [Workers -> Places] /\ cur \in [Workers -> Objects \cup {None}]
  BY DEF IInv, TypeOK
<1>2. wpc[w] = "get" => Port!SomeIdle
  <2>1. /\ Cardinality(Gone) \in Nat /\ Cardinality(Quit) \in Nat
        /\ Cardinality(InHand) \in Nat /\ threads \in Nat
        /\ wpc[w] = "get" => Cardinality(Gone) + Cardinality(Quit) + Cardinality(InHand) < threads
    BY Staff
  <2> QED BY <2>1, SameCount DEF Port!SomeIdle, Port!Left, Quit
<1>3. CASE GetObject(w)
  <2>1. Head(packets) \in Objects /\ Head(packets) # None /\ cur[w] = None
    BY <1>3, Dequeue, PortAssumption DEF GetObject, IInv, TypeOK, HasObject
  <2>2. cur'[w] = Head(packets) /\ \A v \in Workers \ {w} : cur'[v] = cur[v]
    BY <1>1, <1>3 DEF GetObject
  <2>3. InHand' = InHand \cup {Head(packets)}
    BY <2>1, <2>2 DEF InHand
  <2>4. Gone' = Gone
    BY <1>1, <1>3 DEF GetObject, Gone
  <2> QED BY <1>2, <1>3, <2>3, <2>4 DEF GetObject, Port!Take, Port!Next
<1>4. CASE GetExit(w)
  <2>1. Gone' = Gone \cup {w} /\ w \notin Gone /\ Gone \in SUBSET Workers
    BY <1>1, <1>4 DEF GetExit, Gone
  <2>2. Cardinality(Gone') = Cardinality(Gone) + 1
    BY <2>1, GoneNat
  <2>3. InHand' = InHand
    BY <1>4 DEF GetExit, InHand
  <2> QED BY <1>2, <1>4, <2>2, <2>3 DEF GetExit, Port!Leave, Port!Next
<1>5. CASE Operate(w)
  <2>1. Gone' = Gone
    BY <1>1, <1>5 DEF Operate, Gone
  <2> QED BY <1>5, <2>1 DEF Operate, InHand, Port!vars
<1>6. CASE Delete(w)
  <2>1. cur[w] # None /\ cur[w] \in Objects /\ \A v \in Workers : cur[v] = cur[w] => v = w
    BY <1>6 DEF Delete, IInv, TypeOK, HasObject, OnePlace
  <2>2. cur'[w] = None /\ \A v \in Workers \ {w} : cur'[v] = cur[v]
    BY <1>1, <1>6 DEF Delete
  <2>3. InHand' = InHand \ {cur[w]} /\ cur[w] \in InHand
    BY <2>1, <2>2 DEF InHand
  <2>4. Gone' = Gone
    BY <1>1, <1>6 DEF Delete, Gone
  <2>5. Port!Delete(cur[w])
    BY <1>6, <2>3, <2>4 DEF Delete, Port!Delete
  <2> QED BY <2>1, <2>5 DEF Port!Next
<1> QED BY <1>3, <1>4, <1>5, <1>6 DEF Work

-----------------------------------------------------------------------------
(* Theorems.                                                               *)

\* WorkerThreadProc and DestroyCompletePort keep every variable in its type; a
\* worker has an object exactly between taking it and deleting it.
THEOREM PortTypeCorrect == Spec => []TypeOK
<1>1. IInv => TypeOK
  BY DEF IInv
<1> QED BY <1>1, Invariant, PTL

\* DestroyCompletePort waits for every thread of m_hVecThread before it closes
\* the port, however many batches that takes.
THEOREM PortClosedAfterWorkers == Spec => []ClosedAfterWorkers
<1>1. IInv => ClosedAfterWorkers
  BY DEF IInv, Progress, ClosedAfterWorkers, Live
<1> QED BY <1>1, Invariant, PTL

\* When the port is closed and at least one worker ended by an exit packet,
\* every object posted before the destruction was operated and deleted.
THEOREM PortDrained == Spec => []DrainedWhenClosed
<1>1. IInv => DrainedWhenClosed
  BY DEF IInv
<1> QED BY <1>1, Invariant, PTL

\* DestroyCompletePort hangs only when a thread of a later batch took an exit
\* packet meant for the threads it waits for: packets and threads are as many.
THEOREM HangAlwaysNeedsLaterBatch == Spec => []HangNeedsLaterBatch
<1>1. IInv /\ Counted /\ [Next]_vars => Counted'
  BY CountedNext
<1>2. IInv /\ Counted => HangNeedsLaterBatch
  BY HangCounted
<1> QED BY <1>1, <1>2, CountedInit, Invariant, PTL DEF Spec, SafeSpec

\* Whoever posts objects sees one queue with as many servers as threads are
\* there: ObjectPort is all that CIOCompletePort's users need to know of its
\* workers, batches and exit packets.
THEOREM PortImplementsObjectPort == Spec => ImplementsPort
<1>1. Init => Port!Init
  <2> SUFFICES ASSUME Init PROVE Port!Init
    OBVIOUS
  <2>1. InHand = {} /\ Gone = {}
    BY DEF Init, InHand, Gone
  <2> QED BY <2>1, FS_EmptySet DEF Init, Port!Init
<1>2. IInv /\ OnePlace /\ OneLeftEach /\ [Next]_vars => [Port!Next]_Port!vars
  <2> SUFFICES ASSUME IInv, OnePlace, OneLeftEach, [Next]_vars
               PROVE  Port!Next \/ UNCHANGED Port!vars
    OBVIOUS
  <2>1. CASE \E o \in Objects : Post(o)
    BY <2>1, PostImplements DEF Port!Next
  <2>2. CASE \E w \in Workers : Work(w)
    BY <2>2, WorkerImplements
  <2>3. CASE UNCHANGED vars
    BY <2>3 DEF vars, worker, destroy, history, InHand, Gone, Port!vars
  <2> QED BY <2>1, <2>2, <2>3, OwnerImplements DEF Next
<1>3. IInv /\ OnePlace /\ OneLeftEach /\ [Next]_vars => OnePlace' /\ OneLeftEach'
  BY OnePlaceNext
<1> QED BY <1>1, <1>2, <1>3, OnePlaceInit, Invariant, PTL
        DEF Spec, SafeSpec, ImplementsPort, Port!Spec

=============================================================================
