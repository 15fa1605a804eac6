----------------------------- MODULE WakeThread -----------------------------
(***************************************************************************)
(* The Android client's operation thread: WakeThread (a Thread that sleeps *)
(* on its own monitor until it is woken) with the list of OperateWakeThread*)
(* (the class nested in MyBaseDataProxy has the same body).  Posters are   *)
(* the threads that call postOperate; one owner thread calls start() and   *)
(* exit().  Every synchronized block is one step: no thread keeps a        *)
(* monitor between two steps, wait() gives it up.                          *)
(***************************************************************************)
EXTENDS Naturals, Sequences, SequencesExt

CONSTANTS Posters,   \* threads that call postOperate
          Operates,  \* DoOperator objects, each posted at most once
          None,      \* no operation
          Child      \* Child[o]: what o.ToDoOperate() itself posts, or None

ASSUME ChildAssumption ==
    /\ None \notin Operates
    /\ Child \in [Operates -> Operates \cup {None}]

VARIABLES listOperate,  \* the list under synchronized (listOperate)
          bwakeup,      \* the wake-up flag, under synchronized (this)
          interrupted,  \* the interrupt status of the thread
          wpc,          \* where the thread is
          cur,          \* the operation whose ToDoOperate() it is in
          adding,       \* adding[p]: p has added, has not called wakeUp() yet
          joining,      \* the owner is in exit(), at join()
          posted,       \* history: operations in the order of their add()
          executed      \* history: operations handed to ToDoOperate()

queue == <<listOperate, cur, posted, executed>>
signal == <<bwakeup, interrupted>>
callers == <<adding, joining>>
vars == <<queue, signal, callers, wpc>>

Places == {"new",       \* not started
           "loop",      \* at while (!isInterrupted())
           "wake",      \* about to enter wake()
           "waiting",   \* in wait(), not notified
           "notified",  \* notified, has yet to take the monitor back
           "run",       \* in myRun(), about to call GetOperate()
           "operate",   \* in ToDoOperate()
           "posted",    \* in ToDoOperate(), between add() and wakeUp()
           "operated",  \* ToDoOperate() has nothing more to do
           "done"}      \* run() has returned

InOperate == wpc \in {"operate", "posted", "operated"}

Alive == wpc \notin {"new", "done"}

\* An operation that is some other operation's child is posted by its parent.
Postable(o) == ~ Contains(posted, o) /\ \A q \in Operates : Child[q] # o

TypeOK ==
    /\ listOperate \in Seq(Operates)
    /\ posted \in Seq(Operates)
    /\ executed \in Seq(Operates)
    /\ bwakeup \in BOOLEAN
    /\ interrupted \in BOOLEAN
    /\ joining \in BOOLEAN
    /\ adding \in [Posters -> BOOLEAN]
    /\ wpc \in Places
    /\ cur \in (IF InOperate THEN Operates ELSE {None})

Init ==
    /\ listOperate = <<>> /\ posted = <<>> /\ executed = <<>>
    /\ bwakeup = FALSE /\ interrupted = FALSE /\ joining = FALSE
    /\ adding = [p \in Posters |-> FALSE]
    /\ wpc = "new" /\ cur = None

-----------------------------------------------------------------------------
(* postOperate(): the list is filled first, the thread is woken second.    *)

AddAtHead(o) == /\ listOperate' = <<o>> \o listOperate
                /\ posted' = Append(posted, o)
                /\ UNCHANGED <<cur, executed>>

Add(o) == /\ listOperate' = Append(listOperate, o)
          /\ posted' = Append(posted, o)
          /\ UNCHANGED <<cur, executed>>

PostOperate(p, o) ==
    /\ ~ adding[p]
    /\ Postable(o)
    /\ Add(o)
    /\ adding' = [adding EXCEPT ![p] = TRUE]
    /\ UNCHANGED <<signal, joining, wpc>>

\* this.notify() wakes one thread that waits on the Thread object: the thread
\* itself or, as join() may wait on the same object, the owner in exit(),
\* who finds the thread alive and waits again.
NotifyOne == \/ wpc = "waiting" /\ wpc' = "notified"
             \/ (wpc # "waiting" \/ joining) /\ UNCHANGED wpc

NotifyWithoutFlag(p) ==
    /\ adding[p]
    /\ adding' = [adding EXCEPT ![p] = FALSE]
    /\ NotifyOne
    /\ UNCHANGED <<queue, signal, joining>>

WakeUp(p) ==
    /\ adding[p]
    /\ adding' = [adding EXCEPT ![p] = FALSE]
    /\ bwakeup' = TRUE
    /\ NotifyOne
    /\ UNCHANGED <<queue, interrupted, joining>>

-----------------------------------------------------------------------------
(* The owner: start(), and exit() which interrupts and joins.              *)

Start ==
    /\ wpc = "new"
    /\ ~ joining
    /\ wpc' = "loop"
    /\ UNCHANGED <<queue, signal, callers>>

\* interrupt() has no effect on a thread that is not alive.
Exit ==
    /\ ~ joining
    /\ joining' = TRUE
    /\ interrupted' = (interrupted \/ Alive)
    /\ UNCHANGED <<queue, bwakeup, adding, wpc>>

Join ==
    /\ joining
    /\ ~ Alive
    /\ joining' = FALSE
    /\ UNCHANGED <<queue, signal, adding, wpc>>

-----------------------------------------------------------------------------
(* The thread.                                                             *)

LoopForever ==
    /\ wpc = "loop"
    /\ wpc' = "wake"
    /\ UNCHANGED <<queue, signal, callers>>

\* isInterrupted() reads the status and does not clear it.
Loop ==
    /\ wpc = "loop"
    /\ wpc' = IF interrupted THEN "done" ELSE "wake"
    /\ UNCHANGED <<queue, signal, callers>>

\* wake() when the flag is already set: no wait, and the flag is left set.
WakeAtOnce ==
    /\ wpc = "wake"
    /\ bwakeup
    /\ wpc' = "run"
    /\ UNCHANGED <<queue, signal, callers>>

\* wake() when it is not: wait(), which throws at once, and clears the status,
\* if the thread is interrupted already; then wake() is false and run() ends.
Wait ==
    /\ wpc = "wake"
    /\ ~ bwakeup
    /\ wpc' = IF interrupted THEN "done" ELSE "waiting"
    /\ interrupted' = FALSE
    /\ UNCHANGED <<queue, bwakeup, callers>>

\* wait() returns, after a notify or spuriously, and wakeDown() clears the flag
\* before the monitor is given up.
Woken ==
    /\ wpc \in {"waiting", "notified"}
    /\ wpc' = "run"
    /\ bwakeup' = FALSE
    /\ UNCHANGED <<queue, interrupted, callers>>

\* wait() throws InterruptedException.  A thread that was notified as well may
\* return normally instead (Woken), still interrupted.
WaitInterrupted ==
    /\ wpc \in {"waiting", "notified"}
    /\ interrupted
    /\ interrupted' = FALSE
    /\ wpc' = "done"
    /\ UNCHANGED <<queue, bwakeup, callers>>

GetOperate ==
    /\ wpc = "run"
    /\ listOperate # <<>>
    /\ cur' = Head(listOperate)
    /\ listOperate' = Tail(listOperate)
    /\ executed' = Append(executed, Head(listOperate))
    /\ wpc' = "operate"
    /\ UNCHANGED <<signal, callers, posted>>

\* GetOperate() returns null: myRun() is over.
NoOperate ==
    /\ wpc = "run"
    /\ listOperate = <<>>
    /\ wpc' = "loop"
    /\ UNCHANGED <<queue, signal, callers>>

\* ToDoOperate() of an operation that posts another to this very thread, as
\* ResendDoOperator does through UDPClient.SendDataInQueue.
MorePosts == Child[cur] # None /\ ~ Contains(posted, Child[cur])

OperatePosts ==
    /\ wpc = "operate"
    /\ MorePosts
    /\ Add(Child[cur])
    /\ wpc' = "posted"
    /\ UNCHANGED <<signal, callers>>

OperateWakesUp ==
    /\ wpc = "posted"
    /\ bwakeup' = TRUE
    /\ wpc' = "operated"
    /\ UNCHANGED <<queue, interrupted, callers>>

\* ToDoOperate() returns to myRun().
OperateReturns ==
    /\ wpc = "operated" \/ (wpc = "operate" /\ ~ MorePosts)
    /\ wpc' = "run"
    /\ cur' = None
    /\ UNCHANGED <<listOperate, posted, executed, signal, callers>>

\* A RuntimeException out of ToDoOperate() leaves myRun() and run(): the
\* thread is gone, with what is still in the list.
OperateThrows ==
    /\ wpc \in {"operate", "operated"}
    /\ wpc' = "done"
    /\ cur' = None
    /\ UNCHANGED <<listOperate, posted, executed, signal, callers>>

-----------------------------------------------------------------------------

Thread == \/ Loop \/ WakeAtOnce \/ Wait \/ WaitInterrupted
          \/ GetOperate \/ NoOperate
          \/ OperatePosts \/ OperateWakesUp \/ OperateReturns

\* The thread comes back from wait() for sure only when it was notified.
WokenForSure == wpc = "notified" /\ Woken

Next == \/ \E p \in Posters : WakeUp(p) \/ \E o \in Operates : PostOperate(p, o)
        \/ Start \/ Exit \/ Join
        \/ Thread \/ Woken \/ OperateThrows

\* The virtual machine keeps scheduling the thread, a poster that is inside
\* postOperate() and an owner whose join() can return.
Fairness == /\ WF_vars(Thread \/ WokenForSure)
            /\ \A p \in Posters : WF_vars(WakeUp(p))
            /\ WF_vars(Join)

SafeSpec == Init /\ [][Next]_vars

Spec == SafeSpec /\ Fairness

-----------------------------------------------------------------------------
(* Properties.                                                             *)

\* The thread never sleeps, un-notified, on a list that holds an operation,
\* unless a poster is still between its add() and its wakeUp(), or the thread
\* is interrupted and so about to leave wait() anyway: the wake-up that comes
\* while the thread is between its last GetOperate() and its wait() is kept by
\* the flag (postOperate, wakeUp, wake).
NoLostWakeup ==
    wpc = "waiting" /\ listOperate # <<>> =>
        interrupted \/ \E p \in Posters : adding[p]

\* Whatever the interleaving of the posters, operations are handed out in the
\* order of their add(): what was executed followed by what is still in the
\* list is what was posted; nothing is lost, doubled or overtaken.
FifoOrder == posted = executed \o listOperate

\* The flag is cleared only on the way out of wait(): set while the thread is
\* anywhere else, it stays set, and the thread goes round without ever waiting
\* again (wake() has no wakeDown() in its else branch).
NeverSleepsAgain ==
    [][bwakeup /\ wpc \notin {"waiting", "notified"} =>
          bwakeup' /\ wpc' # "waiting"]_vars

\* As long as the owner is in exit() and the thread lives, the interrupt is still
\* to be noticed: nothing clears it but what ends the thread (exit, wake, run).
InterruptIsKept == joining /\ Alive => interrupted

\* exit() returns: the interrupt reaches the thread wherever it is, and the
\* owner's join() is not a wait for ever.
ExitReturns == joining ~> ~ joining

\* The thread implements the queue of operations it stands for.
Queue == INSTANCE OperateQueue WITH
    pending  <- listOperate,
    running  <- cur,
    thread   <- IF wpc = "new" THEN "new" ELSE IF wpc = "done" THEN "ended"
                ELSE "alive"

ImplementsQueue == Queue!Spec

=============================================================================
