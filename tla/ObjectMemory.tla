---------------------------- MODULE ObjectMemory ----------------------------
(***************************************************************************)
(* What operator new and operator delete promise to the threads that make  *)
(* overlapped objects: the block a thread is given holds as much as it     *)
(* asked for and is nobody else's until the thread's own operator delete is*)
(* done with it.  A call may fail, or never come to an end; it takes       *)
(* nothing then.                                                           *)
(***************************************************************************)
EXTENDS Naturals

CONSTANTS Threads,  \* threads that make and delete objects
          Sizes,    \* sizes of objects
          Blocks,   \* blocks of memory, by their addresses
          size      \* how much a block holds

VARIABLES wants,   \* wants[t]: the size t asks for, 0 when it does not ask
          owns,    \* owns[t]: the blocks of the objects t has
          returns  \* returns[t]: those it is about to give back

vars == <<wants, owns, returns>>

Taken == UNION {owns[t] : t \in Threads}

Init == /\ wants = [t \in Threads |-> 0]
        /\ owns = [t \in Threads |-> {}] /\ returns = [t \in Threads |-> {}]

Idle(t) == wants[t] = 0 /\ returns[t] = {}

New(t, n) == /\ Idle(t)
             /\ wants' = [wants EXCEPT ![t] = n]
             /\ UNCHANGED <<owns, returns>>

Give(t, m) == /\ wants[t] > 0
              /\ m \notin Taken
              /\ wants[t] <= size
              /\ owns' = [owns EXCEPT ![t] = @ \cup {m}]
              /\ wants' = [wants EXCEPT ![t] = 0]
              /\ UNCHANGED returns

Fail(t) == /\ wants[t] > 0
           /\ wants' = [wants EXCEPT ![t] = 0]
           /\ UNCHANGED <<owns, returns>>

Delete(t, m) == /\ Idle(t)
                /\ m \in owns[t]
                /\ returns' = [returns EXCEPT ![t] = {m}]
                /\ UNCHANGED <<wants, owns>>

Free(t) == /\ returns[t] # {}
           /\ owns' = [owns EXCEPT ![t] = @ \ returns[t]]
           /\ returns' = [returns EXCEPT ![t] = {}]
           /\ UNCHANGED wants

Next == \E t \in Threads :
          \/ \E n \in Sizes : New(t, n)
          \/ \E m \in Blocks : Give(t, m) \/ Delete(t, m)
          \/ Fail(t) \/ Free(t)

Spec == Init /\ [][Next]_vars

=============================================================================
