---------------------------- MODULE ReceiverPorts ----------------------------
(***************************************************************************)
(* CThreadSocketRecevier::Recevie (ThreadSocketRecevier.cpp), called by the*)
(* worker threads of the TCP server, with the completion ports it posts to *)
(* and CAppEntity, which makes the receiver and deletes it.  Of a port only*)
(* the promise of ObjectPort is used: objects are taken in order by some   *)
(* thread, operated and deleted, and the destruction waits for those that  *)
(* were posted before it began; what came later may be lost.               *)
(***************************************************************************)
EXTENDS Integers, Sequences

CONSTANTS TcpWorkers,   \* threads of the TCP server
          nPortCount,   \* completion ports of the receiver
          MaxPackets    \* bound: calls of Recevie

VARIABLES place,        \* where each TCP worker is
          m_nCurPort,   \* the port for the next packet
          m_csLock,     \* who is in the critical section
          ports,        \* objects in each port; an object is known by the
                        \* thread whose call of Recevie has it on its stack
          hand,         \* objects the threads of each port have in hand
          destroyed,    \* ports deleted so far by ~CThreadSocketRecevier
          ending,       \* the next of them is being destroyed
          owed,         \* objects posted to it in time and not taken
          entity,       \* CAppEntity: "open", "closing", "deleted"
          calls,        \* calls of Recevie so far
          undefined     \* why nothing can be said from here on

worker == <<place, m_nCurPort, m_csLock>>
queues == <<ports, hand>>
owner == <<destroyed, ending, entity>>
receiverVars == <<worker, queues, owner, owed, calls, undefined>>

Nobody == "nobody"

ASSUME ReceiverAssumption ==
    nPortCount \in Nat \ {0} /\ MaxPackets \in Nat /\ Nobody \notin TcpWorkers

Ports == 0..nPortCount - 1
ReceiverPlaces == {"out",      \* not in Recevie
           "made",     \* the object is made and updated
           "posted", "locked", "more", "again",
           "advanced"} \* about to leave, the object being destroyed

ReceiverInit ==
    /\ place = [t \in TcpWorkers |-> "out"]
    /\ m_nCurPort = 0 /\ m_csLock = Nobody
    /\ ports = [i \in Ports |-> <<>>] /\ hand = [i \in Ports |-> {}]
    /\ destroyed = 0 /\ ending = FALSE /\ owed = 0 /\ entity = "open"
    /\ calls = 0 /\ undefined = "no"

GoesTo(t, there) == place' = [place EXCEPT ![t] = there]

-----------------------------------------------------------------------------
(* Recevie.                                                                *)

Update(t) ==
    /\ place[t] = "out" /\ calls < MaxPackets
    /\ calls' = calls + 1
    /\ GoesTo(t, "made")
    /\ UNCHANGED <<m_nCurPort, m_csLock, queues, owner, owed, undefined>>

Defined == entity # "deleted" /\ m_nCurPort \in Ports /\ m_nCurPort >= destroyed

\* The object itself is posted, not a copy; m_nCurPort is read without the lock.
IOCompletePortPost(t) ==
    /\ place[t] = "made"
    /\ IF Defined
       THEN /\ ports' = [ports EXCEPT ![m_nCurPort] = Append(@, t)]
            /\ UNCHANGED undefined
       ELSE undefined' = "the port posted to is gone" /\ UNCHANGED ports
    /\ GoesTo(t, "posted")
    /\ UNCHANGED <<m_nCurPort, m_csLock, hand, owner, owed, calls>>

EntersFreely(t) ==
    /\ place[t] = "posted"
    /\ GoesTo(t, "locked")
    /\ UNCHANGED <<m_nCurPort, m_csLock, queues, owner, owed, calls, undefined>>

Enters(t) ==
    /\ place[t] = "posted" /\ m_csLock = Nobody
    /\ m_csLock' = t
    /\ GoesTo(t, "locked")
    /\ UNCHANGED <<m_nCurPort, queues, owner, owed, calls, undefined>>

Compares(t) ==
    /\ place[t] = "locked"
    /\ GoesTo(t, IF m_nCurPort < nPortCount - 1 THEN "more" ELSE "again")
    /\ UNCHANGED <<m_nCurPort, m_csLock, queues, owner, owed, calls, undefined>>

NextPort(t) ==
    /\ place[t] \in {"more", "again"}
    /\ m_nCurPort' = IF place[t] = "more" THEN m_nCurPort + 1 ELSE 0
    /\ GoesTo(t, "advanced")
    /\ UNCHANGED <<m_csLock, queues, owner, owed, calls, undefined>>

\* The lock is left; the object is destroyed, wherever it is queued.
Returns(t) ==
    /\ place[t] = "advanced"
    /\ m_csLock' = Nobody
    /\ GoesTo(t, "out")
    /\ UNCHANGED <<m_nCurPort, queues, owner, owed, calls, undefined>>

Recevie(t) == \/ Update(t) \/ IOCompletePortPost(t) \/ Enters(t)
              \/ Compares(t) \/ NextPort(t) \/ Returns(t)

-----------------------------------------------------------------------------
(* The threads of the ports.                                               *)

TakesObject(i) ==
    /\ ports[i] # <<>>
    /\ hand' = [hand EXCEPT ![i] = @ \cup {Head(ports[i])}]
    /\ ports' = [ports EXCEPT ![i] = Tail(@)]
    /\ owed' = IF i = destroyed /\ owed > 0 THEN owed - 1 ELSE owed
    /\ UNCHANGED <<worker, owner, calls, undefined>>

\* OverLappedOparete() calls RecevieData, which does nothing, and the object
\* is deleted.
Operates(i, t) ==
    /\ t \in hand[i]
    /\ hand' = [hand EXCEPT ![i] = @ \ {t}]
    /\ undefined' = IF place[t] \in {"out", "made"} THEN "the object was destroyed"
                    ELSE "the pool was given an object it never gave out"
    /\ UNCHANGED <<worker, ports, owner, owed, calls>>

-----------------------------------------------------------------------------
(* ~CAppEntity deletes the receiver, which deletes its ports in turn, and  *)
(* only then, as a member, the TCP server and its threads.                 *)

Closes ==
    /\ entity = "open"
    /\ entity' = "closing"
    /\ UNCHANGED <<worker, queues, destroyed, ending, owed, calls, undefined>>

\* The destruction of a port begins: it tells the threads to leave once they
\* have taken what is queued now.
EndsPort ==
    /\ entity = "closing" /\ destroyed < nPortCount /\ ~ ending
    /\ ending' = TRUE
    /\ owed' = Len(ports[destroyed])
    /\ UNCHANGED <<worker, queues, destroyed, entity, calls, undefined>>

DeletesPort ==
    /\ ending
    /\ owed = 0 /\ hand[destroyed] = {}
    /\ ports' = [ports EXCEPT ![destroyed] = <<>>]
    /\ destroyed' = destroyed + 1 /\ ending' = FALSE
    /\ UNCHANGED <<worker, hand, owed, entity, calls, undefined>>

DeletesReceiver ==
    /\ entity = "closing" /\ destroyed = nPortCount
    /\ entity' = "deleted"
    /\ UNCHANGED <<worker, queues, destroyed, ending, owed, calls, undefined>>

\* Until then the workers of the TCP server call the receiver.
CalledTooLate(t) ==
    /\ entity = "deleted"
    /\ place[t] # "out"
    /\ undefined' = "the receiver is gone"
    /\ UNCHANGED <<worker, queues, owner, owed, calls>>

ReceiverNext ==
    /\ undefined = "no"
    /\ \/ \E t \in TcpWorkers : Recevie(t) \/ CalledTooLate(t)
       \/ \E i \in Ports : TakesObject(i) \/ \E t \in TcpWorkers : Operates(i, t)
       \/ Closes \/ EndsPort \/ DeletesPort \/ DeletesReceiver

ReceiverSpec == ReceiverInit /\ [][ReceiverNext]_receiverVars

-----------------------------------------------------------------------------
(* Properties.                                                             *)

ReceiverTypeOK ==
    /\ place \in [TcpWorkers -> ReceiverPlaces]
    /\ m_csLock \in TcpWorkers \cup {Nobody}
    /\ ports \in [Ports -> Seq(TcpWorkers)]
    /\ hand \in [Ports -> SUBSET TcpWorkers]
    /\ destroyed \in 0..nPortCount /\ calls \in 0..MaxPackets
    /\ owed \in Nat
    /\ ending => destroyed \in Ports

\* However many threads are in Recevie, the index that is read without the lock
\* is always that of a port (ThreadSocketRecevier.cpp:57): also between the
\* comparison of one thread and the increment of another.
PortInRange ==
    /\ ReceiverTypeOK
    /\ m_nCurPort \in Ports

=============================================================================
