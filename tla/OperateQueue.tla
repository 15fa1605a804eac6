---------------------------- MODULE OperateQueue ----------------------------
(***************************************************************************)
(* What a thread of operations promises to the code that posts to it:      *)
(* operations run one at a time, in the order in which they were accepted, *)
(* each at most once, none that was not accepted, and none before the      *)
(* thread is started or after it has ended.  While the thread lives it     *)
(* does not leave an accepted operation in the queue for ever.             *)
(***************************************************************************)
EXTENDS Sequences

CONSTANTS Operates,  \* the operation objects
          None       \* no operation

VARIABLES pending,   \* accepted, not yet handed to the thread
          running,   \* the operation the thread is inside, or None
          executed,  \* history: the operations handed to the thread
          thread     \* "new", "alive" or "ended"

vars == <<pending, running, executed, thread>>

Init == /\ pending = <<>>
        /\ running = None
        /\ executed = <<>>
        /\ thread = "new"

Accept(o) == /\ pending' = Append(pending, o)
             /\ UNCHANGED <<running, executed, thread>>

Begin == /\ thread = "new"
         /\ thread' = "alive"
         /\ UNCHANGED <<pending, running, executed>>

Take == /\ thread = "alive"
        /\ running = None
        /\ pending # <<>>
        /\ running' = Head(pending)
        /\ executed' = Append(executed, Head(pending))
        /\ pending' = Tail(pending)
        /\ UNCHANGED thread

Complete == /\ running # None
            /\ running' = None
            /\ UNCHANGED <<pending, executed, thread>>

End == /\ thread = "alive"
       /\ thread' = "ended"
       /\ running' = None
       /\ UNCHANGED <<pending, executed>>

Next == \/ \E o \in Operates : Accept(o)
        \/ Begin \/ Take \/ Complete \/ End

SafeSpec == Init /\ [][Next]_vars

Spec == SafeSpec /\ WF_vars(Take) /\ WF_vars(Complete)

=============================================================================
