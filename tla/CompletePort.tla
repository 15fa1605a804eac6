---------------------------- MODULE CompletePort ----------------------------
(***************************************************************************)
(* CIOCompletePort (IOCompletePort/IOCompletePort.cpp): a pool of worker   *)
(* threads on one Windows completion port.  Posters queue overlapped       *)
(* objects; a worker operates and deletes what it takes; the owner creates *)
(* the threads and, in DestroyCompletePort, ends them batch by batch with  *)
(* exit packets before it closes the port.  The port itself is external:   *)
(* packets leave it in the order they came, each to one waiting worker,    *)
(* whichever.                                                              *)
(***************************************************************************)
EXTENDS Integers, Sequences, FiniteSets, SequencesExt

CONSTANTS MaxThreads,   \* bound: threads m_hVecThread may come to hold
          MaxWait,      \* MAXIMUM_WAIT_OBJECTS
          Objects,      \* overlapped objects, each posted at most once
          ExitObjects,  \* those after which their worker leaves its loop:
                        \* IsExit(), or posted with IOCOMPLETEPORT_EXIT bytes
          EXIT,         \* the packet without an object
          None          \* no object

ASSUME PortAssumption ==
    /\ MaxThreads \in Nat
    /\ MaxWait \in Nat \ {0}
    /\ ExitObjects \subseteq Objects
    /\ EXIT \notin Objects /\ None \notin Objects

VARIABLES packets,   \* the queue of the completion port
          wpc,       \* wpc[w]: where worker w is
          cur,       \* cur[w]: the object w has taken
          threads,   \* m_hVecThread holds the handles of workers 1..threads
          owner,     \* where the owner of the port is
          index,     \* DestroyCompletePort: handles waited for so far
          sent,      \* DestroyCompletePort: exit packets of this batch
          accepted,  \* history: objects posted with success
          early,     \* history: those of them posted before the destruction
          deleted    \* history: objects that were operated and deleted

worker == <<wpc, cur>>
destroy == <<threads, owner, index, sent>>
history == <<accepted, early, deleted>>
vars == <<packets, worker, destroy, history>>

Workers == 1..MaxThreads
Live == 1..threads

Places == {"none",      \* no such thread
           "get",       \* in GetQueuedCompletionStatus
           "operate",   \* in OverLappedOparete()
           "delete",    \* about to delete the object
           "exited",    \* has left the loop after an exit packet
           "left"}      \* has left the loop after an exit object

Ended(w) == wpc[w] \in {"exited", "left"}
HasObject(w) == wpc[w] \in {"operate", "delete"}

\* The batch of DestroyCompletePort: wait = min(remain, MAXIMUM_WAIT_OBJECTS).
wait == IF threads - index < MaxWait THEN threads - index ELSE MaxWait
Batch == (index + 1)..(index + wait)

TypeOK ==
    /\ packets \in Seq(Objects \cup {EXIT})
    /\ wpc \in [Workers -> Places]
    /\ cur \in [Workers -> Objects \cup {None}]
    /\ threads \in 0..MaxThreads
    /\ owner \in {"create", "open", "post", "wait", "close", "closed"}
    /\ index \in 0..threads /\ sent \in 0..wait
    /\ deleted \subseteq accepted /\ early \subseteq accepted
    /\ accepted \subseteq Objects
    /\ \A w \in Workers : /\ wpc[w] = "none" <=> w \notin Live
                          /\ HasObject(w) <=> cur[w] # None

Init ==
    /\ packets = <<>>
    /\ wpc = [w \in Workers |-> "none"] /\ cur = [w \in Workers |-> None]
    /\ threads = 0 /\ owner = "create" /\ index = 0 /\ sent = 0
    /\ accepted = {} /\ early = {} /\ deleted = {}

-----------------------------------------------------------------------------
(* CreateCompletePort().  A thread that cannot be started is left out, so  *)
(* any number of them may come to run; a second call (the constructor of   *)
(* CThreadSocketRecevier makes one) adds more.                             *)

CreateThread ==
    /\ owner = "create"
    /\ threads < MaxThreads
    /\ threads' = threads + 1
    /\ wpc' = [wpc EXCEPT ![threads + 1] = "get"]
    /\ UNCHANGED <<packets, cur, owner, index, sent, history>>

Created ==
    /\ owner = "create"
    /\ owner' = "open"
    /\ UNCHANGED <<packets, worker, threads, index, sent, history>>

-----------------------------------------------------------------------------
(* IOCompletePortPost(), from any thread, also while the owner destroys the*)
(* port.  Once it is closed the post fails and the caller keeps the object.*)

Post(o) ==
    /\ owner \notin {"create", "closed"}
    /\ o \notin accepted
    /\ packets' = Append(packets, o)
    /\ accepted' = accepted \cup {o}
    /\ early' = IF owner = "open" THEN early \cup {o} ELSE early
    /\ UNCHANGED <<worker, destroy, deleted>>

-----------------------------------------------------------------------------
(* WorkerThreadProc().                                                     *)

GetObject(w) ==
    /\ wpc[w] = "get"
    /\ packets # <<>> /\ Head(packets) # EXIT
    /\ packets' = Tail(packets)
    /\ cur' = [cur EXCEPT ![w] = Head(packets)]
    /\ wpc' = [wpc EXCEPT ![w] = "operate"]
    /\ UNCHANGED <<destroy, history>>

GetExit(w) ==
    /\ wpc[w] = "get"
    /\ packets # <<>> /\ Head(packets) = EXIT
    /\ packets' = Tail(packets)
    /\ wpc' = [wpc EXCEPT ![w] = "exited"]
    /\ UNCHANGED <<cur, destroy, history>>

Operate(w) ==
    /\ wpc[w] = "operate"
    /\ wpc' = [wpc EXCEPT ![w] = "delete"]
    /\ UNCHANGED <<packets, cur, destroy, history>>

Delete(w) ==
    /\ wpc[w] = "delete"
    /\ deleted' = deleted \cup {cur[w]}
    /\ cur' = [cur EXCEPT ![w] = None]
    /\ wpc' = [wpc EXCEPT ![w] = IF cur[w] \in ExitObjects THEN "left" ELSE "get"]
    /\ UNCHANGED <<packets, destroy, accepted, early>>

-----------------------------------------------------------------------------
(* DestroyCompletePort().                                                  *)

NextBatch(done) == IF done < threads THEN "post" ELSE "close"

DestroyBegin ==
    /\ owner = "open"
    /\ owner' = NextBatch(0)
    /\ UNCHANGED <<packets, worker, threads, index, sent, history>>

OneExitShort ==
    /\ owner = "post"
    /\ packets' = IF sent + 1 < wait THEN Append(packets, EXIT) ELSE packets
    /\ sent' = sent + 1
    /\ owner' = IF sent + 1 = wait THEN "wait" ELSE "post"
    /\ UNCHANGED <<worker, threads, index, history>>

ExitAtHead ==
    /\ owner = "post"
    /\ packets' = <<EXIT>> \o packets
    /\ sent' = sent + 1
    /\ owner' = IF sent + 1 = wait THEN "wait" ELSE "post"
    /\ UNCHANGED <<worker, threads, index, history>>

\* One PostQueuedCompletionStatus(IOCOMPLETEPORT_EXIT, NULL, NULL).
PostExit ==
    /\ owner = "post"
    /\ packets' = Append(packets, EXIT)
    /\ sent' = sent + 1
    /\ owner' = IF sent + 1 = wait THEN "wait" ELSE "post"
    /\ UNCHANGED <<worker, threads, index, history>>

\* WaitForMultipleObjects(wait, pHandles, TRUE, INFINITE), CloseHandle.
WaitForBatch ==
    /\ owner = "wait"
    /\ \A w \in Batch : Ended(w)
    /\ index' = index + wait
    /\ sent' = 0
    /\ owner' = NextBatch(index + wait)
    /\ UNCHANGED <<packets, worker, threads, history>>

\* What is still queued goes with the port: nobody deletes it.
ClosePort ==
    /\ owner = "close"
    /\ owner' = "closed"
    /\ packets' = <<>>
    /\ UNCHANGED <<worker, threads, index, sent, history>>

-----------------------------------------------------------------------------

Work(w) == GetObject(w) \/ GetExit(w) \/ Operate(w) \/ Delete(w)

Destroy == PostExit \/ WaitForBatch \/ ClosePort

Next == \/ CreateThread \/ Created \/ DestroyBegin \/ Destroy
        \/ \E o \in Objects : Post(o)
        \/ \E w \in Workers : Work(w)

SafeSpec == Init /\ [][Next]_vars

\* Threads are scheduled and OverLappedOparete() returns; nothing makes the
\* owner destroy the port.
Spec == /\ SafeSpec
        /\ \A w \in Workers : WF_vars(Work(w))
        /\ WF_vars(Destroy)

-----------------------------------------------------------------------------
(* Properties.                                                             *)

\* The port is closed under nobody: when it is, every thread of m_hVecThread,
\* of whatever batch, has left its loop.
ClosedAfterWorkers == owner \in {"close", "closed"} => \A w \in Live : Ended(w)

\* The destructor drains the port: what was posted before it began has been
\* operated and deleted when the port is closed, whichever workers took the
\* exit packets, unless no worker was left to take an exit packet at all (each
\* had left after an exit object, or none could be started).
DrainedWhenClosed ==
    /\ owner \in {"close", "closed"}
    /\ \E w \in Live : wpc[w] = "exited"
    => early \subseteq deleted

\* No worker can move, and the owner waits for one of them.
Hung == /\ owner = "wait"
        /\ packets = <<>>
        /\ \A w \in Live : Ended(w) \/ wpc[w] = "get"
        /\ \E w \in Batch : ~ Ended(w)

\* DestroyCompletePort posts exit packets for a batch and waits for exactly
\* the threads of that batch, but any thread may take them: it hangs only if
\* a thread of a later batch took a packet meant for this one.
HangNeedsLaterBatch ==
    Hung => \E w \in Live : w > index + wait /\ wpc[w] = "exited"

\* With no more threads than one WaitForMultipleObjects may wait for, the
\* destruction that has begun comes to its end, even if some workers leave
\* through exit objects and posters keep posting.
DestroyReturns ==
    owner = "post" /\ threads <= MaxWait ~> owner = "closed"

-----------------------------------------------------------------------------
(* The port implements what ObjectPort promises to those who post to it.   *)

Gone == {w \in Workers : wpc[w] = "exited"}
InHand == {cur[w] : w \in Workers} \ {None}

Port == INSTANCE ObjectPort WITH
    state <- IF owner = "create" THEN "starting"
             ELSE IF owner \in {"post", "wait", "close"} THEN "ending" ELSE owner,
    queue <- packets, hand <- InHand, owed <- early, told <- Cardinality(Gone)

\* Whoever posts an object sees a queue that is served in order, whichever
\* workers take the objects and the exit packets, and a destruction that loses
\* none that came in time while a worker is there to be told to leave.
ImplementsPort == Port!Spec

=============================================================================
