-------------------------- MODULE WakeThreadProofs --------------------------
(***************************************************************************)
(* Proofs about WakeThread for every set of posters and operations: typing,*)
(* FIFO hand-out, no lost wake-up, and that the thread implements the      *)
(* abstract queue of operations (its safety part).                         *)
(***************************************************************************)
EXTENDS WakeThread, SequenceTheorems, TLAPS

LEMMA TypeInit == Init => TypeOK
<1> SUFFICES ASSUME Init PROVE TypeOK
  OBVIOUS
<1>1. <<>> \in Seq(Operates)
  BY EmptySeq
<1>2. adding \in [Posters -> BOOLEAN]
  BY DEF Init
<1> QED
  BY <1>1, <1>2 DEF Init, TypeOK, Places, InOperate

LEMMA TypeNext == TypeOK /\ [Next]_vars => TypeOK'
<1> SUFFICES ASSUME TypeOK, [Next]_vars PROVE TypeOK'
  OBVIOUS
<1> USE DEF TypeOK, Places, InOperate
<1>1. CASE \E p \in Posters : WakeUp(p)
  BY <1>1 DEF WakeUp, NotifyOne, queue
<1>2. CASE \E p \in Posters, o \in Operates : PostOperate(p, o)
  BY <1>2 DEF PostOperate, Add, signal
<1>3. CASE Start \/ Exit \/ Join
  BY <1>3 DEF Start, Exit, Join, Alive, queue, signal, callers
<1>4. CASE Loop \/ WakeAtOnce \/ Wait \/ WaitInterrupted \/ Woken
  BY <1>4 DEF Loop, WakeAtOnce, Wait, WaitInterrupted, Woken, queue, signal, callers
<1>5. CASE GetOperate
  <2>1. Head(listOperate) \in Operates /\ Tail(listOperate) \in Seq(Operates)
    BY <1>5, HeadTailProperties DEF GetOperate
  <2> QED BY <1>5, <2>1 DEF GetOperate, signal, callers
<1>6. CASE NoOperate
  BY <1>6 DEF NoOperate, queue, signal, callers
<1>7. CASE OperatePosts
  <2>1. Child[cur] \in Operates
    BY <1>7, ChildAssumption DEF OperatePosts, MorePosts
  <2> QED BY <1>7, <2>1 DEF OperatePosts, Add, signal, callers
<1>8. CASE OperateWakesUp \/ OperateReturns \/ OperateThrows
  BY <1>8 DEF OperateWakesUp, OperateReturns, OperateThrows, queue, signal, callers
<1>9. CASE UNCHANGED vars
  BY <1>9 DEF vars, queue, signal, callers
<1> QED
  BY <1>1, <1>2, <1>3, <1>4, <1>5, <1>6, <1>7, <1>8, <1>9 DEF Next, Thread

\* WakeThread, wakeUp and OperateWakeThread keep every variable in its type,
\* and an operation is current exactly while the thread is in ToDoOperate().
THEOREM TypeCorrect == Spec => []TypeOK
BY TypeInit, TypeNext, PTL DEF Spec, SafeSpec

-----------------------------------------------------------------------------
(* Order of execution.                                                     *)

\* Moving the head of the second sequence to the end of the first leaves their
\* concatenation as it is.
LEMMA HandOver ==
    ASSUME NEW S, NEW s \in Seq(S), NEW t \in Seq(S), t # <<>>
    PROVE  Append(s, Head(t)) \o Tail(t) = s \o t
<1>1. Head(t) \in S /\ Tail(t) \in Seq(S) /\ Len(Tail(t)) = Len(t) - 1
  BY HeadTailProperties
<1>2. \A i \in 1..Len(Tail(t)) : Tail(t)[i] = t[i + 1]
  BY HeadTailProperties
<1>3. t[1] = Head(t) /\ Len(t) \in Nat \ {0}
  BY EmptySeq
<1> DEFINE a == Append(s, Head(t))
           l == a \o Tail(t)
           r == s \o t
<1>4. a \in Seq(S) /\ Len(a) = Len(s) + 1
  BY <1>1, AppendProperties
<1>5. \A i \in 1..Len(s) : a[i] = s[i]
  BY <1>1, AppendProperties
<1>6. a[Len(s) + 1] = Head(t)
  BY <1>1, AppendProperties
<1> HIDE DEF a
<1>7. l \in Seq(S) /\ Len(l) = Len(s) + 1 + (Len(t) - 1)
  <2>1. Len(a \o Tail(t)) = Len(a) + Len(Tail(t)) /\ a \o Tail(t) \in Seq(S)
    BY <1>1, <1>4, ConcatProperties
  <2> QED BY <2>1, <1>1, <1>4
<1>8. r \in Seq(S) /\ Len(r) = Len(s) + Len(t)
  BY ConcatProperties
<1>9. ASSUME NEW i \in 1..Len(l) PROVE l[i] = r[i]
  <2>1. l[i] = IF i <= Len(a) THEN a[i] ELSE Tail(t)[i - Len(a)]
    BY <1>1, <1>4, <1>7, ConcatProperties
  <2>2. r[i] = IF i <= Len(s) THEN s[i] ELSE t[i - Len(s)]
    BY <1>3, <1>7, <1>8, ConcatProperties
  <2> HIDE DEF l, r
  <2>3. CASE i <= Len(s)
    BY <2>1, <2>2, <2>3, <1>4, <1>5, <1>7
  <2>4. CASE i = Len(s) + 1
    <3>1. i <= Len(a) /\ ~ (i <= Len(s)) /\ i - Len(s) = 1
      BY <2>4, <1>4, LenProperties
    <3> QED BY <2>1, <2>2, <2>4, <3>1, <1>3, <1>6
  <2>5. CASE i > Len(s) + 1
    <3>1. i - (Len(s) + 1) \in 1..Len(Tail(t))
      BY <2>5, <1>1, <1>3, <1>7
    <3>2. Tail(t)[i - (Len(s) + 1)] = t[i - Len(s)]
      BY <3>1, <1>2
    <3>3. ~ (i <= Len(a)) /\ ~ (i <= Len(s)) /\ Len(a) = Len(s) + 1
      BY <2>5, <1>4, LenProperties
    <3> QED BY <2>1, <2>2, <3>2, <3>3
  <2>6. i \in Nat /\ Len(s) \in Nat
    BY <1>1, <1>3, <1>7, LenProperties
  <2> QED BY <2>3, <2>4, <2>5, <2>6
<1>10. Len(l) = Len(r)
  BY <1>3, <1>7, <1>8
<1> HIDE DEF l, r
<1>11. l = r
  BY <1>7, <1>8, <1>9, <1>10, SeqEqual
<1> QED BY <1>11 DEF l, r, a

LEMMA AddKeepsOrder ==
    ASSUME TypeOK, FifoOrder, NEW o \in Operates, Add(o)
    PROVE  FifoOrder'
<1>1. executed \in Seq(Operates) /\ listOperate \in Seq(Operates)
  BY DEF TypeOK
<1>2. <<o>> \in Seq(Operates) /\ executed \o listOperate \in Seq(Operates)
  BY <1>1, ConcatProperties
<1>3. posted' = (executed \o listOperate) \o <<o>>
  BY <1>2, AppendIsConcat DEF FifoOrder, Add
<1>4. executed' \o listOperate' = executed \o (listOperate \o <<o>>)
  BY <1>1, AppendIsConcat DEF Add
<1>5. (executed \o listOperate) \o <<o>> = executed \o (listOperate \o <<o>>)
  BY <1>1, <1>2, ConcatAssociative
<1> QED BY <1>3, <1>4, <1>5 DEF FifoOrder

LEMMA FifoNext == TypeOK /\ FifoOrder /\ [Next]_vars => FifoOrder'
<1> SUFFICES ASSUME TypeOK, FifoOrder, [Next]_vars PROVE FifoOrder'
  OBVIOUS
<1>1. CASE \E p \in Posters, o \in Operates : PostOperate(p, o)
  BY <1>1, AddKeepsOrder DEF PostOperate
<1>2. CASE OperatePosts
  BY <1>2, AddKeepsOrder, ChildAssumption DEF OperatePosts, MorePosts, TypeOK, InOperate
<1>3. CASE GetOperate
  BY <1>3, HandOver DEF GetOperate, TypeOK, FifoOrder
<1>4. CASE UNCHANGED <<listOperate, posted, executed>>
  BY <1>4 DEF FifoOrder
<1>5. CASE (\E p \in Posters : WakeUp(p)) \/ Start \/ Exit \/ Join
  BY <1>4, <1>5 DEF WakeUp, Start, Exit, Join, queue
<1>6. CASE Loop \/ WakeAtOnce \/ Wait \/ WaitInterrupted \/ Woken \/ NoOperate
  BY <1>4, <1>6 DEF Loop, WakeAtOnce, Wait, WaitInterrupted, Woken, NoOperate, queue
<1>7. CASE OperateWakesUp \/ OperateReturns \/ OperateThrows
  BY <1>4, <1>7 DEF OperateWakesUp, OperateReturns, OperateThrows, queue
<1>8. CASE UNCHANGED vars
  BY <1>4, <1>8 DEF vars, queue
<1> QED
  BY <1>1, <1>2, <1>3, <1>5, <1>6, <1>7, <1>8 DEF Next, Thread

\* postOperate and GetOperate hand operations out in the order in which they
\* were added, for any number of posters and operations.
THEOREM OperationsRunInOrder == Spec => []FifoOrder
<1>1. Init => FifoOrder
  <2>1. <<>> \in Seq(Operates)
    BY EmptySeq
  <2> QED BY <2>1, ConcatEmptySeq DEF Init, FifoOrder
<1> QED
  BY <1>1, FifoNext, TypeCorrect, PTL DEF Spec, SafeSpec

-----------------------------------------------------------------------------
(* No lost wake-up.  NoLostWakeup speaks of a sleeping thread only; what    *)
(* makes it true is the same fact on the way to sleep, with the flag in the *)
(* place of the wait, and that an owner at join() has interrupted a thread  *)
(* that lives.                                                              *)

Unattended == listOperate # <<>> /\ \A p \in Posters : ~ adding[p]

WakeInv ==
    /\ Unattended /\ wpc \in {"new", "loop", "wake"} => bwakeup
    /\ Unattended /\ wpc = "waiting" => interrupted
    /\ joining /\ Alive => interrupted

LEMMA WakeNext == TypeOK /\ WakeInv /\ [Next]_vars => WakeInv'
<1> SUFFICES ASSUME TypeOK, WakeInv, [Next]_vars PROVE WakeInv'
  OBVIOUS
<1> USE DEF WakeInv, Unattended, Alive
<1>1. CASE \E p \in Posters : WakeUp(p)
  BY <1>1 DEF WakeUp, NotifyOne, queue, TypeOK, Places
<1>2. CASE \E p \in Posters, o \in Operates : PostOperate(p, o)
  BY <1>2 DEF PostOperate, signal, TypeOK
<1>3. CASE Start
  BY <1>3 DEF Start, queue, signal, callers
<1>4. CASE Exit \/ Join
  BY <1>4 DEF Exit, Join, queue, signal, TypeOK
<1>5. CASE Loop \/ WakeAtOnce \/ Wait \/ WaitInterrupted
  BY <1>5 DEF Loop, WakeAtOnce, Wait, WaitInterrupted, queue, signal, callers
<1>6. CASE Woken \/ NoOperate
  BY <1>6 DEF Woken, NoOperate, queue, signal, callers
<1>7. CASE GetOperate \/ OperatePosts
  BY <1>7 DEF GetOperate, OperatePosts, signal, callers
<1>8. CASE OperateWakesUp \/ OperateReturns \/ OperateThrows
  BY <1>8 DEF OperateWakesUp, OperateReturns, OperateThrows, queue, signal, callers
<1>9. CASE UNCHANGED vars
  BY <1>9 DEF vars, queue, signal, callers
<1> QED
  BY <1>1, <1>2, <1>3, <1>4, <1>5, <1>6, <1>7, <1>8, <1>9 DEF Next, Thread

\* wakeUp, wake and myRun never let the thread sleep on work that nobody is
\* going to announce, for any number of posters.
THEOREM WakeupIsNotLost == Spec => []NoLostWakeup
<1>1. Init => WakeInv
  BY DEF Init, WakeInv, Unattended, Alive
<1>2. WakeInv => NoLostWakeup
  BY DEF WakeInv, Unattended, NoLostWakeup
<1> QED
  BY <1>1, <1>2, WakeNext, TypeCorrect, PTL DEF Spec, SafeSpec

\* An owner in exit() has interrupted a thread that lives, and neither wake() nor
\* myRun() lets that be forgotten before run() ends: join() is no wait for ever.
THEOREM InterruptIsNeverLost == Spec => []InterruptIsKept
<1>1. Init => WakeInv
  BY DEF Init, WakeInv, Unattended, Alive
<1>2. WakeInv => InterruptIsKept
  BY DEF WakeInv, InterruptIsKept
<1> QED
  BY <1>1, <1>2, WakeNext, TypeCorrect, PTL DEF Spec, SafeSpec

-----------------------------------------------------------------------------
(* The thread implements the queue of operations.                          *)

LEMMA StepImplements == TypeOK /\ [Next]_vars => [Queue!Next]_Queue!vars
<1> SUFFICES ASSUME TypeOK, [Next]_vars PROVE [Queue!Next]_Queue!vars
  OBVIOUS
<1> DEFINE thread == IF wpc = "new" THEN "new" ELSE IF wpc = "done" THEN "ended"
                     ELSE "alive"
<1>1. CASE \E p \in Posters, o \in Operates : PostOperate(p, o)
  <2>1. PICK o \in Operates : Add(o) /\ wpc' = wpc
    BY <1>1 DEF PostOperate
  <2>2. Queue!Accept(o)
    BY <2>1 DEF Add, Queue!Accept
  <2> QED BY <2>2 DEF Queue!Next
<1>2. CASE OperatePosts
  <2>1. Child[cur] \in Operates
    BY <1>2, ChildAssumption DEF OperatePosts, MorePosts, TypeOK, InOperate
  <2>2. Queue!Accept(Child[cur])
    BY <1>2 DEF OperatePosts, Add, Queue!Accept
  <2> QED BY <2>1, <2>2 DEF Queue!Next
<1>3. CASE Start
  BY <1>3 DEF Start, queue, Queue!Next, Queue!Begin
<1>4. CASE GetOperate
  BY <1>4 DEF GetOperate, TypeOK, InOperate, Queue!Next, Queue!Take
<1>5. CASE OperateReturns
  BY <1>5, ChildAssumption DEF OperateReturns, TypeOK, InOperate, Queue!Next, Queue!Complete
<1>6. CASE OperateThrows
  BY <1>6 DEF OperateThrows, Queue!Next, Queue!End
<1>7. CASE /\ wpc \in {"loop", "wake", "waiting", "notified"}
           /\ wpc' = "done"
           /\ UNCHANGED queue
  BY <1>7 DEF queue, TypeOK, InOperate, Queue!Next, Queue!End
<1>8. CASE UNCHANGED <<queue, thread>>
  BY <1>8 DEF queue, Queue!vars
<1>9. CASE Loop \/ Wait \/ WaitInterrupted
  BY <1>7, <1>8, <1>9 DEF Loop, Wait, WaitInterrupted
<1>10. CASE WakeAtOnce \/ Woken \/ NoOperate \/ OperateWakesUp
  BY <1>8, <1>10 DEF WakeAtOnce, Woken, NoOperate, OperateWakesUp
<1>11. CASE Exit \/ Join \/ UNCHANGED vars
  BY <1>8, <1>11 DEF Exit, Join, vars
<1>12. CASE \E p \in Posters : WakeUp(p)
  BY <1>8, <1>12 DEF WakeUp, NotifyOne
<1> QED
  BY <1>1, <1>2, <1>3, <1>4, <1>5, <1>6, <1>9, <1>10, <1>11, <1>12 DEF Next, Thread

\* OperateWakeThread is a queue of operations executed one at a time and in
\* order, between start() and the end of run(), for any number of posters.
THEOREM ThreadImplementsQueue == Spec => Queue!SafeSpec
<1>1. Init => Queue!Init
  BY DEF Init, Queue!Init
<1> QED
  BY <1>1, StepImplements, TypeCorrect, PTL DEF Spec, SafeSpec, Queue!SafeSpec

\* wakeDown() is called on the way out of wait() only, so a thread whose flag
\* is set anywhere else keeps it set and does not wait again.
THEOREM NoMoreSleep == Spec => NeverSleepsAgain
<1>1. [Next]_vars => [bwakeup /\ wpc \notin {"waiting", "notified"} =>
                        bwakeup' /\ wpc' # "waiting"]_vars
  BY DEF Next, Thread, WakeUp, NotifyOne, PostOperate, Start, Exit, Join, Loop,
         WakeAtOnce, Wait, WaitInterrupted, Woken, GetOperate, NoOperate,
         OperatePosts, OperateWakesUp, OperateReturns, OperateThrows, signal
<1> QED
  BY <1>1, PTL DEF Spec, SafeSpec, NeverSleepsAgain

=============================================================================
