----------------------------- MODULE ObjectPort -----------------------------
(***************************************************************************)
(* What a completion port and its threads promise to the code that posts   *)
(* overlapped objects to it, whichever thread takes what: objects are taken*)
(* in the order in which they were posted, each by one thread, operated and*)
(* deleted once; never more of them at a time than threads are still there;*)
(* the port is closed when every thread has left, with no object in hand,  *)
(* and once one thread left because it was told to, with every object that *)
(* was posted in time deleted.                                             *)
(***************************************************************************)
EXTENDS Integers, Sequences, FiniteSets

CONSTANTS Objects,      \* overlapped objects, each posted at most once
          ExitObjects,  \* those after which their thread leaves
          EXIT          \* a packet without an object: a thread that takes it leaves

VARIABLES state,    \* "starting", "open", "ending" or "closed"
          threads,  \* threads started
          queue,    \* packets posted and not taken
          hand,     \* objects taken and not deleted
          deleted,  \* objects operated and deleted
          owed,     \* objects posted in time
          told      \* threads that took an EXIT

vars == <<state, threads, queue, hand, deleted, owed, told>>

Queued == {queue[i] : i \in DOMAIN queue}

\* Threads that have left, and threads with nothing to do.
Left == told + Cardinality(deleted \cap ExitObjects)
SomeIdle == Left + Cardinality(hand) < threads

Init == /\ state = "starting" /\ threads = 0
        /\ queue = <<>> /\ hand = {} /\ deleted = {} /\ owed = {} /\ told = 0

Start == /\ state = "starting"
         /\ threads' = threads + 1
         /\ UNCHANGED <<state, queue, hand, deleted, owed, told>>

Open == /\ state = "starting"
        /\ state' = "open"
        /\ UNCHANGED <<threads, queue, hand, deleted, owed, told>>

Post(o) == /\ state \in {"open", "ending"}
           /\ o \notin Queued \cup hand \cup deleted
           /\ queue' = Append(queue, o)
           /\ owed' = IF state = "open" THEN owed \cup {o} ELSE owed
           /\ UNCHANGED <<state, threads, hand, deleted, told>>

Take == /\ SomeIdle
        /\ queue # <<>> /\ Head(queue) # EXIT
        /\ hand' = hand \cup {Head(queue)}
        /\ queue' = Tail(queue)
        /\ UNCHANGED <<state, threads, deleted, owed, told>>

Delete(o) == /\ o \in hand
             /\ hand' = hand \ {o}
             /\ deleted' = deleted \cup {o}
             /\ UNCHANGED <<state, threads, queue, owed, told>>

End == /\ state = "open"
       /\ state' = "ending"
       /\ UNCHANGED <<threads, queue, hand, deleted, owed, told>>

Tell == /\ state = "ending"
        /\ queue' = Append(queue, EXIT)
        /\ UNCHANGED <<state, threads, hand, deleted, owed, told>>

Leave == /\ SomeIdle
         /\ queue # <<>> /\ Head(queue) = EXIT
         /\ queue' = Tail(queue)
         /\ told' = told + 1
         /\ UNCHANGED <<state, threads, hand, deleted, owed>>

\* What was posted late may be lost.
Close == /\ state = "ending"
         /\ Left = threads /\ hand = {}
         /\ told > 0 => owed \subseteq deleted
         /\ state' = "closed"
         /\ queue' = <<>>
         /\ UNCHANGED <<threads, hand, deleted, owed, told>>

Next == \/ Start \/ Open \/ Take \/ End \/ Tell \/ Leave \/ Close
        \/ \E o \in Objects : Post(o) \/ Delete(o)

Spec == Init /\ [][Next]_vars

=============================================================================
