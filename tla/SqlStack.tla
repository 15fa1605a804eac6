------------------------------ MODULE SqlStack ------------------------------
(***************************************************************************)
(* CDBSqlManager (DataBase/DBSqlManager.cpp): statements that any thread   *)
(* queues and one thread executes.  The owner opens and closes the stack;  *)
(* CloseStack waits five seconds for the thread, so that a slow statement  *)
(* outlives it.  pop() and back() of an empty queue and the use of a       *)
(* deleted node are undefined: the model stops there and says which it was.*)
(***************************************************************************)
EXTENDS Naturals, Sequences, SequencesExt

CONSTANTS MaxStatements,  \* bound: calls of ExecSqlInStack
          MaxOpens        \* bound: calls of OpenStack that start a thread

ASSUME SqlStackAssumption == MaxStatements \in Nat /\ MaxOpens \in Nat

Statements == 1..MaxStatements
None == 0

VARIABLES
    m_sql_exec_queue,  \* nodes, known by their statement
    m_hEvent,          \* the event is set; a wait that sees it resets it
    m_bthreadRunning,
    m_stackThread,     \* the thread whose handle is kept, or 0
    thread, node,      \* each thread: where it is, and p
    opens,             \* threads started so far
    owner, victim,     \* CloseStack: where it is, and p
    call,              \* call[s]: where ExecSqlInStack(s) is
    accepted,          \* history: statements in the order they were queued
    executed,          \* history: statements in the order they were executed
    deleted,           \* history: deleted[s], how often CloseStack deleted it
    crowded,           \* history: two statements were in the queue at a time
    skipped,           \* history: a statement was taken without a wait
    outlived,          \* history: CloseStack went on without the thread's end
    undefined          \* "no", or what undefined thing was done

own == <<m_stackThread, opens, owner, victim>>
history == <<accepted, executed, deleted, crowded, skipped, outlived>>
sqlVars == <<m_sql_exec_queue, m_hEvent, m_bthreadRunning, thread, node, own, call,
          history, undefined>>

SqlThreads == 1..MaxOpens

SqlTypeOK ==
    /\ m_sql_exec_queue \in Seq(Statements)
    /\ m_hEvent \in BOOLEAN /\ m_bthreadRunning \in BOOLEAN
    /\ opens \in 0..MaxOpens /\ m_stackThread \in 0..opens
    /\ thread \in [SqlThreads -> {"none", "loop", "test", "wait", "take", "exec", "ended"}]
    /\ \A t \in SqlThreads : /\ node[t] \in Statements \cup {None}
                             /\ node[t] # None <=> thread[t] = "exec"
                             /\ t > opens => thread[t] = "none"
    /\ owner \in {"rest", "stop", "wait", "drain", "picked"}
    /\ victim # None <=> owner = "picked"
    /\ call \in [Statements -> {"none", "push", "set", "done", "refused"}]
    /\ undefined \in {"no", "empty", "freed"}

SqlInit ==
    /\ m_sql_exec_queue = <<>> /\ m_hEvent = FALSE /\ m_bthreadRunning = FALSE
    /\ thread = [t \in SqlThreads |-> "none"] /\ node = [t \in SqlThreads |-> None]
    /\ m_stackThread = 0 /\ opens = 0 /\ owner = "rest" /\ victim = None
    /\ call = [s \in Statements |-> "none"]
    /\ accepted = <<>> /\ executed = <<>> /\ deleted = [s \in Statements |-> 0]
    /\ crowded = FALSE /\ skipped = FALSE /\ outlived = FALSE
    /\ undefined = "no"

Defined == undefined = "no"

NoPop == UNCHANGED m_sql_exec_queue
Pop == m_sql_exec_queue' = Tail(m_sql_exec_queue)

-----------------------------------------------------------------------------
(* ExecSqlInStack, by any thread.                                          *)

\* Statements that no call has brought are alike, and so are those that wait
\* to be pushed: the one with the least number goes first.
First(s, place) == \A r \in 1..(s - 1) : call[r] # place

ExecSqlInStack(s) ==
    /\ Defined /\ call[s] = "none" /\ First(s, "none")
    /\ call' = [call EXCEPT ![s] = IF m_bthreadRunning THEN "push" ELSE "refused"]
    /\ UNCHANGED <<m_sql_exec_queue, m_hEvent, m_bthreadRunning, thread, node,
                   own, history, undefined>>

Queue(s) ==
    /\ m_sql_exec_queue' = Append(m_sql_exec_queue, s)
    /\ accepted' = Append(accepted, s)
    /\ crowded' = (crowded \/ m_sql_exec_queue # <<>>)

Push(s) ==
    /\ Defined /\ call[s] = "push" /\ First(s, "push")
    /\ Queue(s)
    /\ call' = [call EXCEPT ![s] = "set"]
    /\ UNCHANGED <<m_hEvent, m_bthreadRunning, thread, node, own, executed,
                   deleted, skipped, outlived, undefined>>

NoEvent == UNCHANGED m_hEvent
SetEvent == m_hEvent' = TRUE

Announce(s) ==
    /\ Defined /\ call[s] = "set"
    /\ SetEvent
    /\ call' = [call EXCEPT ![s] = "done"]
    /\ UNCHANGED <<m_sql_exec_queue, m_bthreadRunning, thread, node, own,
                   history, undefined>>

-----------------------------------------------------------------------------
(* _SqlexecThreadProc.                                                     *)

Loop(t) ==
    /\ Defined /\ thread[t] = "loop"
    /\ thread' = [thread EXCEPT ![t] = IF m_bthreadRunning THEN "test" ELSE "ended"]
    /\ UNCHANGED <<m_sql_exec_queue, m_hEvent, m_bthreadRunning, node, own, call,
                   history, undefined>>

\* The queue is looked at without the lock.
Test(t) ==
    /\ Defined /\ thread[t] = "test"
    /\ thread' = [thread EXCEPT ![t] = IF m_sql_exec_queue = <<>> THEN "wait" ELSE "take"]
    /\ skipped' = (skipped \/ m_sql_exec_queue # <<>>)
    /\ UNCHANGED <<m_sql_exec_queue, m_hEvent, m_bthreadRunning, node, own, call,
                   accepted, executed, deleted, crowded, outlived, undefined>>

WakesAnyway == TRUE
Wakes == m_hEvent

Wait(t) ==
    /\ Defined /\ thread[t] = "wait" /\ Wakes
    /\ m_hEvent' = FALSE
    /\ thread' = [thread EXCEPT ![t] = "take"]
    /\ UNCHANGED <<m_sql_exec_queue, m_bthreadRunning, node, own, call, history,
                   undefined>>

\* p is read at the back of the queue, and the front is removed.
Take(t) ==
    /\ Defined /\ thread[t] = "take"
    /\ IF m_sql_exec_queue = <<>>
       THEN /\ undefined' = "empty"
            /\ UNCHANGED <<m_sql_exec_queue, thread, node>>
       ELSE /\ node' = [node EXCEPT ![t] = Last(m_sql_exec_queue)]
            /\ Pop
            /\ thread' = [thread EXCEPT ![t] = "exec"]
            /\ UNCHANGED undefined
    /\ UNCHANGED <<m_hEvent, m_bthreadRunning, own, call, history>>

\* p is a variable of one pass of the loop.
LeavesP(t) == node' = [node EXCEPT ![t] = None]

\* ExecSql and the Sleep after it; the node is not deleted.
Exec(t) ==
    /\ Defined /\ thread[t] = "exec"
    /\ IF deleted[node[t]] > 0
       THEN undefined' = "freed" /\ UNCHANGED executed
       ELSE executed' = Append(executed, node[t]) /\ UNCHANGED undefined
    /\ thread' = [thread EXCEPT ![t] = "loop"] /\ LeavesP(t)
    /\ UNCHANGED <<m_sql_exec_queue, m_hEvent, m_bthreadRunning, own, call,
                   accepted, deleted, crowded, skipped, outlived>>

ThreadProc(t) == Loop(t) \/ Test(t) \/ Wait(t) \/ Take(t) \/ Exec(t)

-----------------------------------------------------------------------------
(* OpenStack and CloseStack, by the owner.                                 *)

OpenStack ==
    /\ Defined /\ owner = "rest" /\ m_stackThread = 0 /\ opens < MaxOpens
    /\ m_bthreadRunning' = TRUE
    /\ opens' = opens + 1 /\ m_stackThread' = opens'
    /\ thread' = [thread EXCEPT ![opens'] = "loop"]
    /\ UNCHANGED <<m_sql_exec_queue, m_hEvent, node, owner, victim, call, history,
                   undefined>>

\* CloseStack without a running thread goes on to empty the queue.
CloseStack ==
    /\ Defined /\ owner = "rest"
    /\ IF m_stackThread # 0 /\ m_bthreadRunning
       THEN m_hEvent' = TRUE /\ owner' = "stop"
       ELSE owner' = "drain" /\ UNCHANGED m_hEvent
    /\ UNCHANGED <<m_sql_exec_queue, m_bthreadRunning, thread, node, m_stackThread,
                   opens, victim, call, history, undefined>>

StopRunning ==
    /\ Defined /\ owner = "stop"
    /\ m_bthreadRunning' = FALSE
    /\ owner' = "wait"
    /\ UNCHANGED <<m_sql_exec_queue, m_hEvent, thread, node, m_stackThread, opens,
                   victim, call, history, undefined>>

\* The thread has ended, or five seconds have passed.
Waited ==
    /\ Defined /\ owner = "wait"
    /\ m_stackThread' = 0
    /\ owner' = "drain"
    /\ outlived' = (outlived \/ thread[m_stackThread] # "ended")
    /\ UNCHANGED <<m_sql_exec_queue, m_hEvent, m_bthreadRunning, thread, node,
                   opens, victim, call, accepted, executed, deleted, crowded,
                   skipped, undefined>>

Pick ==
    /\ Defined /\ owner = "drain" /\ m_sql_exec_queue # <<>>
    /\ victim' = Last(m_sql_exec_queue)
    /\ owner' = "picked"
    /\ UNCHANGED <<m_sql_exec_queue, m_hEvent, m_bthreadRunning, thread, node,
                   m_stackThread, opens, call, history, undefined>>

DeleteNode ==
    /\ Defined /\ owner = "picked"
    /\ IF m_sql_exec_queue = <<>>
       THEN undefined' = "empty" /\ UNCHANGED <<m_sql_exec_queue, deleted>>
       ELSE /\ Pop
            /\ undefined' = IF deleted[victim] > 0 THEN "freed" ELSE undefined
            /\ deleted' = [deleted EXCEPT ![victim] = @ + 1]
    /\ owner' = "drain" /\ victim' = None
    /\ UNCHANGED <<m_hEvent, m_bthreadRunning, thread, node, m_stackThread, opens,
                   call, accepted, executed, crowded, skipped, outlived>>

Drained == m_sql_exec_queue = <<>>

Closed ==
    /\ Defined /\ owner = "drain" /\ Drained
    /\ owner' = "rest"
    /\ UNCHANGED <<m_sql_exec_queue, m_hEvent, m_bthreadRunning, thread, node,
                   m_stackThread, opens, victim, call, history, undefined>>

Closing == StopRunning \/ Waited \/ Pick \/ DeleteNode \/ Closed

SqlNext ==
    \/ \E s \in Statements : ExecSqlInStack(s) \/ Push(s) \/ Announce(s)
    \/ \E t \in SqlThreads : ThreadProc(t)
    \/ OpenStack \/ CloseStack \/ Closing

\* Calls under way end and the threads run on.
SqlSpec ==
    /\ SqlInit /\ [][SqlNext]_sqlVars
    /\ \A s \in Statements : WF_sqlVars(Push(s) \/ Announce(s))
    /\ \A t \in SqlThreads : WF_sqlVars(ThreadProc(t))

-----------------------------------------------------------------------------
(* Properties.                                                             *)

\* Statements are executed in the order they were queued, each once, as long as
\* the queue never held two at a time (the back of the queue is its front) and
\* no thread outlived CloseStack to execute beside its successor.
InOrderUnlessCrowded ==
    /\ SqlTypeOK
    /\ ~ crowded /\ ~ outlived =>
         \A i, j \in DOMAIN executed : i < j =>
           \E a, b \in DOMAIN accepted :
             a < b /\ accepted[a] = executed[i] /\ accepted[b] = executed[j]

\* What is undefined happens in these ways only.  An empty queue is taken from
\* when an event was left over from a statement that was taken without a wait,
\* or when the stack is or was being closed.  A node is used or deleted after
\* its deletion when two statements were in the queue at a time (CloseStack then
\* deletes the last one twice), or when the thread took one while CloseStack,
\* tired of waiting, was emptying the queue.
UndefinedNeedsRace ==
    /\ undefined = "empty" =>
         skipped \/ opens > 1 \/ owner # "rest" \/ ~ m_bthreadRunning
    /\ undefined = "freed" => crowded \/ outlived

\* While a running stack has a statement in its queue, some thread is about to
\* look there, or sleeps and is woken by an event that is set or about to be:
\* the event that was taken by another thread, or reset by a wait that began
\* before, had its statement taken with it (DBSqlManager.cpp, m_hEvent).
NoMissedEvent ==
    m_sql_exec_queue # <<>> /\ m_bthreadRunning /\ Defined =>
      \E t \in SqlThreads :
        \/ thread[t] \in {"loop", "test", "take", "exec"}
        \/ /\ thread[t] = "wait"
           /\ m_hEvent \/ \E s \in Statements : call[s] = "set"

\* A running stack comes to the end of its queue: no event is missed.
QueueIsEmptied ==
    (m_sql_exec_queue # <<>> /\ m_bthreadRunning)
      ~> (m_sql_exec_queue = <<>> \/ ~ m_bthreadRunning \/ undefined # "no")

=============================================================================
