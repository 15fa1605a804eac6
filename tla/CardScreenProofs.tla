-------------------------- MODULE CardScreenProofs --------------------------
(***************************************************************************)
(* Proofs about the two screens of the client.                             *)
(*                                                                         *)
(* About CardScreen, for any cards and any bounds: statements are          *)
(* executed on an open database, a screen that is left while nothing it    *)
(* asked for is under way and no dialog shows does not crash, whatever     *)
(* timers go on, and the card recycled is the card shown unless the field  *)
(* was changed under its verification or scanned behind the dialog.        *)
(***************************************************************************)
EXTENDS CardScreen, LoginVerify, FiniteSetTheorems, TLAPS

\* The thread lives only while the database is open; an operator answers once;
\* the screen is made again only as often as the bound allows.
Bounded ==
    /\ thread \in {"waiting", "working"} => mdb = "open"
    /\ answered + Len(listOperate) <= posted
    /\ again => session < MaxSessions

\* Once onDestroy has begun with nothing under way, nothing comes up again.
Calm ==
    calm => /\ screen \in {"leaving", "gone"} /\ ~ again
            /\ listOperate = <<>> /\ messages = <<>> /\ thread # "working"
            /\ showing = 0 /\ leaked = {}

IInv == TypeOK /\ Bounded /\ Calm

\* The screen begins open, with nothing posted and nothing shown.
LEMMA InitIInv == Init => IInv
<1> SUFFICES ASSUME Init PROVE IInv
  OBVIOUS
<1> USE ScreenAssumption DEF Init
<1>1. TypeOK
  <2>1. <<>> \in Seq(Operators) /\ <<>> \in Seq(Messages)
    OBVIOUS
  <2>2. countdown \in [1..MaxDialogs -> 0..Times \cup {None}]
    OBVIOUS
  <2>3. again \in BOOLEAN /\ camera \in BOOLEAN /\ overtyped \in BOOLEAN /\ calm \in BOOLEAN
    BY Zenon
  <2>4. session \in 1..MaxSessions
    BY DEF Init
  <2>5. /\ shown \in Cards \cup {None} /\ showing \in 0..MaxDialogs
        /\ leaked \subseteq 1..MaxDialogs /\ owner \in [1..MaxDialogs -> 0..MaxSessions]
    OBVIOUS
  <2>6. posted \in 0..MaxPosts /\ answered \in 0..posted
    OBVIOUS
  <2>7. /\ screen = "open" /\ mdb \in {"null", "open"} /\ thread \in {"new", "waiting"}
        /\ listOperate = <<>> /\ messages = <<>> /\ table \in SUBSET Cards /\ typed \in Cards
    OBVIOUS
  <2>8. QED
    BY <2>1, <2>2, <2>3, <2>4, <2>5, <2>6, <2>7, SMT DEF TypeOK
<1>2. Bounded
  BY DEF Bounded
<1>3. Calm
  BY DEF Calm
<1>4. QED
  BY <1>1, <1>2, <1>3 DEF IInv

\* A new operator goes to the end of the list, and is counted.
LEMMA PostTyped ==
    ASSUME TypeOK, Bounded, NEW kind \in Kinds,
           PostExecSql(kind), answered' = answered
    PROVE  /\ posted' \in 0..MaxPosts /\ answered' \in 0..posted'
           /\ listOperate' \in Seq(Operators)
           /\ answered' + Len(listOperate') <= posted'
<1> USE ScreenAssumption
<1> DEFINE o == [kind |-> kind, card |-> typed, session |-> session]
<1>1. o \in Operators
  BY DEF TypeOK, Operators
<1>2. listOperate \in Seq(Operators) /\ listOperate' = Append(listOperate, o)
  BY DEF TypeOK, PostExecSql
<1> HIDE DEF o
<1>3. listOperate' \in Seq(Operators) /\ Len(listOperate') = Len(listOperate) + 1
  BY <1>1, <1>2
<1>4. Len(listOperate) \in Nat
  BY <1>2
<1>5. posted' = posted + 1 /\ posted < MaxPosts
  BY DEF PostExecSql
<1>6. QED
  BY <1>3, <1>4, <1>5 DEF TypeOK, Bounded

\* The user's actions: they need the screen open, which ends a calm leave, so
\* Calm holds of the next state because calm does not.
LEMMA UserIInv == ASSUME IInv, User PROVE IInv'
<1> USE ScreenAssumption
    DEF IInv, activity, database, dialogs, view, history, Free, Alive, InFront
<1>1. ASSUME NEW c \in Cards, Type(c) \/ Scan(c) PROVE IInv'
  <2>1. /\ typed' = c /\ Alive /\ camera' \in BOOLEAN /\ overtyped' \in BOOLEAN
        /\ UNCHANGED <<screen, again, session, database, dialogs, shown, listOperate, messages,
                       posted, answered, calm>>
    <3>1. overtyped' \in BOOLEAN
      BY <1>1, Zenon DEF Type, Scan, TypeOK
    <3>2. camera' \in BOOLEAN
      BY <1>1, Zenon DEF Type, Scan, TypeOK
    <3>3. QED
      BY <1>1, <3>1, <3>2 DEF Type, Scan
  <2>2. QED
    BY <2>1 DEF TypeOK, Bounded, Calm
<1>2. CASE CommitRegist
  BY <1>2, PostTyped DEF CommitRegist, TypeOK, Bounded, Calm, Kinds
<1>3. CASE CommitVerify
  BY <1>3, PostTyped DEF CommitVerify, TypeOK, Bounded, Calm, Kinds
<1>4. CASE Confirm
  BY <1>4 DEF Confirm, TypeOK, Bounded, Calm
<1>5. CASE Recycle
  BY <1>5, PostTyped DEF Recycle, TypeOK, Bounded, Calm, Kinds
<1>6. CASE Back
  <2>1. PICK d \in 1..MaxDialogs : /\ showing' = d
                                  /\ owner' = [owner EXCEPT ![d] = session]
                                  /\ countdown' = [countdown EXCEPT ![d] = Times]
    BY <1>6 DEF Back
  <2>2. session \in 0..MaxSessions /\ Times \in 0..Times
    BY DEF TypeOK
  <2>3. owner' \in [1..MaxDialogs -> 0..MaxSessions]
    BY <2>1, <2>2 DEF TypeOK
  <2>4. countdown' \in [1..MaxDialogs -> 0..Times \cup {None}] /\ showing' \in 0..MaxDialogs
    BY <2>1, <2>2 DEF TypeOK
  <2>5. UNCHANGED <<activity, database, leaked, view, listOperate, messages, history>> /\ Alive
    BY <1>6 DEF Back
  <2>6. QED
    BY <2>3, <2>4, <2>5 DEF TypeOK, Bounded, Calm
<1>7. CASE PressOk
  BY <1>7 DEF PressOk, Finish, TypeOK, Bounded, Calm
<1>8. CASE PressCancel
  BY <1>8 DEF PressCancel, TypeOK, Bounded, Calm
<1>9. CASE Destroy(TRUE)
  BY <1>9 DEF Destroy, TypeOK, Bounded, Calm
<1>10. CASE OpenScan
  BY <1>10 DEF OpenScan, TypeOK, Bounded, Calm
<1>11. CASE Inactive
  BY <1>11 DEF Inactive, Finish, TypeOK, Bounded, Calm
<1>12. QED
  BY <1>1, <1>2, <1>3, <1>4, <1>5, <1>6, <1>7, <1>8, <1>9, <1>10, <1>11 DEF User

\* The timer of a dialog.
LEMMA TickIInv == ASSUME IInv, NEW d \in 1..MaxDialogs, Tick(d) PROVE IInv'
<1> USE ScreenAssumption DEF IInv, activity, database, dialogs, view, history
<1>1. countdown' \in [1..MaxDialogs -> 0..Times \cup {None}]
  <2>1. countdown[d] - 1 \in 0..Times
    BY DEF Tick
  <2>2. QED
    BY <2>1 DEF Tick, TypeOK
<1>2. screen' \in {screen, "finishing"} /\ (screen' # screen => screen = "open")
  BY DEF Tick, Finish
<1>3. messages' \in Seq(Messages) /\ (messages' = messages \/ showing = d \/ d \in leaked)
  <2> DEFINE m == [kind |-> "dismiss", dialog |-> d]
  <2>1. m \in Messages /\ messages \in Seq(Messages)
    BY DEF Messages, TypeOK
  <2>2. messages' = messages \/ (messages' = Append(messages, m) /\ (showing = d \/ d \in leaked))
    BY DEF Tick
  <2> HIDE DEF m
  <2>3. QED
    BY <2>1, <2>2
<1>4. UNCHANGED <<again, session, camera, database, showing, owner, leaked, view, listOperate,
                  history>>
  BY DEF Tick
<1>5. TypeOK'
  BY <1>1, <1>2, <1>3, <1>4 DEF TypeOK
<1>6. QED
  BY <1>2, <1>3, <1>4, <1>5 DEF Bounded, Calm

\* Whether a statement succeeds is a Boolean, and so its message is one.
LEMMA AnswerTyped ==
    ASSUME NEW o \in Operators, NEW done \in {FALSE, mdb = "open" /\ Done(o)}
    PROVE  Answer(o, done) \in Messages
<1>1. Done(o) \in BOOLEAN
  <2>1. o.kind \in Kinds
    BY DEF Operators
  <2>2. CASE o.kind = "regist"
    <3>1. Done(o) = (o.card \notin table)
      BY <2>2 DEF Done
    <3>2. QED
      BY <3>1
  <2>3. CASE o.kind = "verify"
    <3>1. Done(o) = (o.card \in table)
      BY <2>3 DEF Done
    <3>2. QED
      BY <3>1
  <2>4. CASE o.kind = "recycle"
    BY <2>4 DEF Done
  <2>5. QED
    BY <2>1, <2>2, <2>3, <2>4 DEF Kinds
<1>2. done \in BOOLEAN
  BY <1>1
<1>3. QED
  BY <1>2 DEF Answer, Operators, Messages

\* The operation thread: it ends with the screen, and otherwise turns
\* operators into messages, one each.
LEMMA ThreadIInv == ASSUME IInv, Thread PROVE IInv'
<1> USE ScreenAssumption DEF IInv, activity, database, dialogs, view, history
<1>1. CASE Wake
  BY <1>1 DEF Wake, TypeOK, Bounded, Calm
<1>2. CASE Rest
  BY <1>2 DEF Rest, TypeOK, Bounded, Calm
<1>3. CASE Interrupted
  BY <1>3 DEF Interrupted, TypeOK, Bounded, Calm
<1>4. CASE ToDoOperate
  <2> DEFINE o == Head(listOperate)
  <2>1. /\ o \in Operators /\ listOperate' \in Seq(Operators)
        /\ Len(listOperate') = Len(listOperate) - 1 /\ Len(listOperate) \in Nat
    BY <1>4 DEF ToDoOperate, TypeOK
  <2>2. table' \subseteq Cards
    <3>1. o.card \in Cards
      BY <2>1 DEF Operators
    <3>2. table' \in {table, table \cup {o.card}, table \ {o.card}}
      BY <1>4 DEF ToDoOperate
    <3>3. QED
      BY <3>1, <3>2 DEF TypeOK
  <2>3. messages' \in Seq(Messages)
    <3>1. PICK done \in {FALSE, mdb = "open" /\ Done(o)} :
             messages' = Append(messages, Answer(o, done)) \/ messages' = messages
      BY <1>4 DEF ToDoOperate
    <3>2. Answer(o, done) \in Messages
      BY <2>1, AnswerTyped
    <3>3. messages \in Seq(Messages)
      BY DEF TypeOK
    <3> DEFINE m == Answer(o, done)
    <3> HIDE DEF m
    <3>4. m \in Messages /\ (messages' = Append(messages, m) \/ messages' = messages)
      BY <3>1, <3>2 DEF m
    <3>5. QED
      BY <3>3, <3>4
  <2>4. answered' \in {answered, answered + 1}
    BY <1>4 DEF ToDoOperate
  <2>5. /\ thread = "working" /\ posted' = posted
        /\ UNCHANGED <<activity, mdb, thread, dialogs, view, posted, overtyped,
                       calm>>
    BY <1>4 DEF ToDoOperate
  <2> HIDE DEF o
  <2>6. answered' \in 0..posted' /\ answered' + Len(listOperate') <= posted'
    BY <2>1, <2>4, <2>5 DEF TypeOK, Bounded
  <2>7. TypeOK'
    BY <2>1, <2>2, <2>3, <2>5, <2>6 DEF TypeOK
  <2>8. Bounded'
    BY <2>5, <2>6 DEF Bounded
  <2>9. Calm'
    BY <2>5 DEF Calm
  <2>10. QED
    BY <2>7, <2>8, <2>9
<1>5. QED
  BY <1>1, <1>2, <1>3, <1>4 DEF Thread

\* The answers, onDestroy, and the end or the new beginning of the screen.
LEMMA LooperIInv == ASSUME IInv, Looper PROVE IInv'
<1> USE ScreenAssumption DEF IInv, activity, database, dialogs, view, history
<1>1. CASE HandleMessage
  <2>1. Head(messages) \in Messages /\ messages' \in Seq(Messages) /\ messages # <<>>
    BY <1>1 DEF HandleMessage, NextMessage, TypeOK
  <2>2. Head(messages).card \in Cards
    <3>1. Head(messages).kind # "dismiss"
      BY <1>1 DEF HandleMessage, Kinds
    <3>2. QED
      BY <2>1, <3>1 DEF Messages
  <2>3. /\ screen' \in {screen, "crashed"} /\ shown' \in {shown, Head(messages).card}
        /\ UNCHANGED <<again, session, camera, database, dialogs, typed, listOperate, history>>
    BY <1>1 DEF HandleMessage
  <2>4. mdb' = mdb /\ thread' = thread /\ table' = table
    BY <1>1 DEF HandleMessage
  <2>5. screen' \in {"open", "finishing", "leaving", "gone", "crashed"}
    BY <2>3 DEF TypeOK
  <2>6. shown' \in Cards \cup {None}
    BY <2>2, <2>3 DEF TypeOK
  <2>7. TypeOK'
    BY <2>1, <2>3, <2>4, <2>5, <2>6 DEF TypeOK
  <2>8. Bounded'
    BY <2>3, <2>4 DEF Bounded
  <2>9. ~ calm'
    BY <2>1, <2>3 DEF Calm
  <2>10. QED
    BY <2>7, <2>8, <2>9 DEF Calm
<1>2. CASE Destroy(FALSE)
  <2>1. /\ screen' = "leaving" /\ again' = FALSE /\ camera' = FALSE
        /\ UNCHANGED <<session, database, dialogs, view, listOperate, messages, posted,
                       answered, overtyped>>
    BY <1>2 DEF Destroy
  <2>2. /\ calm' \in BOOLEAN
        /\ calm' => /\ listOperate = <<>> /\ messages = <<>> /\ thread # "working"
                    /\ showing = 0 /\ leaked = {}
    BY <1>2, Zenon DEF Destroy
  <2>3. TypeOK'
    BY <2>1, <2>2 DEF TypeOK
  <2>4. Bounded'
    BY <2>1 DEF Bounded
  <2>5. Calm'
    BY <2>1, <2>2 DEF Calm
  <2>6. QED
    BY <2>3, <2>4, <2>5
<1>5. CASE Dismiss
  <2>1. messages' \in Seq(Messages) /\ messages # <<>>
    BY <1>5 DEF Dismiss, NextMessage, TypeOK
  <2>2. /\ screen' \in {screen, "crashed"} /\ showing' \in {showing, 0}
        /\ UNCHANGED <<again, session, camera, database, owner, countdown, leaked, view,
                       listOperate, history>>
    BY <1>5 DEF Dismiss
  <2>3. QED
    BY <2>1, <2>2 DEF TypeOK, Bounded, Calm
<1>3. CASE LogOut
  <2>1. leaked' \subseteq 1..MaxDialogs /\ (showing = 0 => leaked' = leaked)
    BY <1>3 DEF LogOut, TypeOK
  <2>2. /\ shown' = None /\ showing' = 0 /\ again' = FALSE
        /\ UNCHANGED <<table, owner, countdown, typed, listOperate, messages, posted, answered,
                       overtyped, calm>>
    BY <1>3 DEF LogOut
  <2>3. again' \in BOOLEAN /\ ~ again'
    BY <2>2, Zenon
  <2>4. ASSUME session' \in 1..MaxSessions, camera' \in BOOLEAN,
               screen' \in {"open", "gone", "crashed"}, ~ again => screen' = "gone",
               mdb' \in {"null", "open", "closed"},
               thread' \in {"new", "waiting", "ended"}, thread' = "waiting" => mdb' = "open"
        PROVE  IInv'
    <3>1. TypeOK'
      BY <2>1, <2>2, <2>3, <2>4 DEF TypeOK
    <3>2. Bounded'
      BY <2>2, <2>3, <2>4 DEF Bounded
    <3>3. Calm'
      BY <2>1, <2>2, <2>3, <2>4 DEF Calm
    <3>4. QED
      BY <3>1, <3>2, <3>3
  <2>5. CASE ~ again
    <3>1. /\ screen' = "gone" /\ mdb' = (IF mdb = "open" THEN "closed" ELSE mdb)
          /\ session' = session /\ thread' = thread /\ thread \in {"new", "ended"}
          /\ camera' = camera
      BY <1>3, <2>5 DEF LogOut
    <3>2. QED
      BY <3>1, <2>4 DEF TypeOK
  <2>6. CASE again
    <3>4. camera' \in BOOLEAN
      BY <1>3, <2>6, Zenon DEF LogOut
    <3>1. /\ session' = session + 1
          /\ \/ mdb' = "null" /\ screen' = "open" /\ thread' = thread
             \/ mdb' = "open" /\ screen' = "open" /\ thread' = "waiting"
             \/ mdb' = "open" /\ screen' = "crashed" /\ thread' = thread
          /\ thread \in {"new", "ended"}
      BY <1>3, <2>6 DEF LogOut
    <3>2. session' \in 1..MaxSessions
      BY <2>6, <3>1 DEF TypeOK, Bounded
    <3>3. QED
      BY <2>6, <3>1, <3>2, <3>4, <2>4
  <2>7. QED
    BY <2>5, <2>6 DEF TypeOK
<1>4. QED
  BY <1>1, <1>2, <1>3, <1>5 DEF Looper

\* The inductive invariant: the types, the bounds of what is on the way between
\* screen, thread and looper, and what a calm leave means for them.
THEOREM IInvHolds == Spec => []IInv
<1>1. IInv /\ [Next]_vars => IInv'
  <2> SUFFICES ASSUME IInv, [Next]_vars PROVE IInv'
    OBVIOUS
  <2>1. CASE UNCHANGED vars
    BY <2>1 DEF IInv, vars, activity, database, dialogs, view, history, TypeOK, Bounded, Calm
  <2>2. CASE Next
    BY <2>2, UserIInv, ThreadIInv, LooperIInv, TickIInv DEF Next
  <2>3. QED
    BY <2>1, <2>2
<1>2. QED
  BY InitIInv, <1>1, PTL DEF Spec

\* Every statement that is executed finds the database open: log out joins the
\* thread first (MyBaseDataProxy.java:332-338).
THEOREM AlwaysWorksOnOpenDatabase == Spec => []WorksOnOpenDatabase
<1>1. IInv => WorksOnOpenDatabase
  BY DEF IInv, Bounded, WorksOnOpenDatabase
<1>2. QED
  BY IInvHolds, <1>1, PTL

\* A screen left for good with nothing under way and no dialog on it does not
\* crash: no answer, no second start of the database thread
\* (MyBaseDataProxy.java:317) and no dismissal of a window that is gone can come
\* (AutoAlertDialog.java:146-151), though the timers of its dialogs tick on.
THEOREM CalmLeaveAlwaysSafe == Spec => []CalmLeaveIsSafe
<1>1. IInv => CalmLeaveIsSafe
  BY DEF IInv, Calm, CalmLeaveIsSafe
<1>2. QED
  BY IInvHolds, <1>1, PTL

\* Operators go from the list to the answered ones, one at a time and none aside,
\* and the thread ends in no screen but one that is left (MyBaseDataProxy.java).
LEMMA NoneLostNext == ASSUME IInv, NoneLost, [Next]_vars PROVE NoneLost'
<1> USE DEF IInv, NoneLost, activity, database, dialogs, view, history
<1>1. posted \in Nat /\ answered \in Nat /\ Len(listOperate) \in Nat
  BY ScreenAssumption DEF TypeOK
<1>2. CASE UNCHANGED <<posted, answered, listOperate, mdb, thread>>
           /\ (screen' = "open" => screen = "open")
  BY <1>2
<1>3. ASSUME NEW kind \in Kinds, PostExecSql(kind),
             UNCHANGED <<activity, database, answered>>
      PROVE  NoneLost'
  <2>1. posted' = posted + 1 /\ Len(listOperate') = Len(listOperate) + 1
    BY <1>3 DEF PostExecSql, TypeOK
  <2>2. QED
    BY <1>1, <1>3, <2>1
<1>4. CASE User
  <2>1. CASE CommitRegist \/ Recycle \/ CommitVerify
    BY <1>3, <2>1 DEF CommitRegist, Recycle, CommitVerify, Kinds
  <2>2. CASE \/ (\E c \in Cards : Type(c) \/ Scan(c)) \/ OpenScan \/ Confirm \/ Back
             \/ PressOk \/ PressCancel \/ Inactive \/ Destroy(TRUE)
    BY <1>2, <2>2 DEF Type, Scan, OpenScan, Confirm, Back, PressOk, PressCancel, Inactive,
                      Destroy, Finish
  <2>3. QED
    BY <1>4, <2>1, <2>2 DEF User
<1>5. CASE Thread
  <2>1. CASE Wake \/ Rest \/ Interrupted
    BY <2>1 DEF Wake, Rest, Interrupted
  <2>2. CASE ToDoOperate
    <3>1. mdb = "open"
      BY <2>2 DEF ToDoOperate, Bounded
    <3>2. answered' = answered + 1 /\ UNCHANGED <<posted, screen, mdb, thread>>
      BY <2>2, <3>1 DEF ToDoOperate, Answers
    <3>3. Len(listOperate') = Len(listOperate) - 1
      BY <2>2 DEF ToDoOperate, TypeOK
    <3>4. QED
      BY <1>1, <3>2, <3>3
  <2>3. QED
    BY <1>5, <2>1, <2>2 DEF Thread
<1>6. CASE Looper
  <2>1. CASE HandleMessage \/ Dismiss \/ Destroy(FALSE)
    BY <1>2, <2>1 DEF HandleMessage, Dismiss, Destroy
  <2>2. CASE LogOut
    BY <2>2 DEF LogOut
  <2>3. QED
    BY <1>6, <2>1, <2>2 DEF Looper
<1>7. ASSUME NEW d \in 1..MaxDialogs, Tick(d) PROVE NoneLost'
  BY <1>2, <1>7 DEF Tick, Finish
<1>8. CASE UNCHANGED vars
  BY <1>2, <1>8 DEF vars
<1>9. QED
  BY <1>4, <1>5, <1>6, <1>7, <1>8 DEF Next

\* Every operator that was posted has sent its answer or is still in listOperate,
\* and a thread is there to take it as long as the screen stays: PostExecSql and
\* the thread of MyBaseDataProxy lose none, for any number of posts and sessions.
THEOREM NoneIsEverLost == Spec => []NoneLost
<1>1. Init => NoneLost
  BY DEF Init, NoneLost
<1>2. QED
  BY <1>1, IInvHolds, NoneLostNext, PTL DEF Spec

\* As long as the field was not changed under a verification or its dialog, every
\* one on its way, and the card of the dialog, is that of the field.
Verifies(s) == \A i \in DOMAIN s : s[i].kind = "verify" => s[i].card = typed
Fresh == ~ overtyped => /\ shown \in {None, typed}
                        /\ Verifies(listOperate) /\ Verifies(messages)

\* A new operator is about the card in the field.
LEMMA PostFresh ==
    ASSUME TypeOK, Fresh, NEW kind \in Kinds,
           PostExecSql(kind), ~ overtyped, typed' = typed
    PROVE  /\ Verifies(listOperate)'
           /\ Last(listOperate').card = typed
<1> DEFINE o == [kind |-> kind, card |-> typed, session |-> session]
<1>1. listOperate \in Seq(Operators) /\ listOperate' = Append(listOperate, o)
  BY DEF TypeOK, PostExecSql
<1>2. o \in Operators
  BY DEF TypeOK, Operators
<1>3. o.card = typed
  OBVIOUS
<1> HIDE DEF o
<1>4. /\ listOperate' \in Seq(Operators) /\ Len(listOperate') = Len(listOperate) + 1
      /\ listOperate'[Len(listOperate')] = o
      /\ \A i \in DOMAIN listOperate' : i # Len(listOperate') =>
           i \in DOMAIN listOperate /\ listOperate'[i] = listOperate[i]
  BY <1>1, <1>2
<1>5. Verifies(listOperate)'
  BY <1>3, <1>4 DEF Fresh, Verifies
<1>6. QED
  BY <1>3, <1>4, <1>5 DEF Last

\* What is taken from the front of a queue leaves the rest as it is.
LEMMA TailFresh ==
    ASSUME NEW S, NEW s \in Seq(S), s # <<>>, Verifies(s)
    PROVE  Verifies(Tail(s)) /\ (Head(s).kind = "verify" => Head(s).card = typed)
<1>1. /\ \A i \in DOMAIN Tail(s) : i + 1 \in DOMAIN s /\ Tail(s)[i] = s[i + 1]
      /\ 1 \in DOMAIN s /\ Head(s) = s[1]
  OBVIOUS
<1>2. QED
  BY <1>1 DEF Verifies

\* The user and the scanner: a change of the field is noted, or is none.
LEMMA UserFresh == ASSUME TypeOK, Fresh, User PROVE Fresh'
<1> USE DEF activity, database, dialogs, view, history, Free
<1>1. ASSUME NEW c \in Cards, Type(c) \/ Scan(c) PROVE Fresh'
  <2> SUFFICES ASSUME ~ overtyped' PROVE Fresh'
    BY DEF Fresh
  <2>1. /\ typed' = c /\ UNCHANGED <<shown, listOperate, messages>>
        /\ ~ overtyped /\ (c = typed \/ (~ Verifying /\ shown = None))
    BY <1>1 DEF Type, Scan
  <2>2. CASE c = typed
    BY <2>1, <2>2 DEF Fresh, Verifies
  <2>3. CASE ~ Verifying /\ shown = None
    BY <2>1, <2>3 DEF Fresh, Verifies, Verifying
  <2>4. QED
    BY <2>1, <2>2, <2>3
<1>2. ASSUME NEW kind \in Kinds, PostExecSql(kind),
             shown' \in {shown, None}, UNCHANGED <<typed, messages, overtyped>>
      PROVE  Fresh'
  <2>1. CASE overtyped
    BY <1>2, <2>1 DEF Fresh
  <2>2. CASE ~ overtyped
    BY <1>2, <2>2, PostFresh DEF Fresh, Verifies
  <2>3. QED
    BY <2>1, <2>2
<1>3. CASE CommitRegist
  BY <1>2, <1>3 DEF CommitRegist, Kinds
<1>4. CASE CommitVerify
  BY <1>2, <1>4 DEF CommitVerify, Kinds
<1>5. CASE Recycle
  BY <1>2, <1>5 DEF Recycle, Kinds
<1>6. CASE Confirm
  BY <1>6 DEF Confirm, Fresh, Verifies
<1>7. CASE Back
  BY <1>7 DEF Back, Fresh, Verifies
<1>8. CASE PressOk \/ PressCancel \/ OpenScan \/ Inactive
  BY <1>8 DEF PressOk, PressCancel, OpenScan, Inactive, Fresh, Verifies
<1>9. CASE Destroy(TRUE)
  BY <1>9 DEF Destroy, Fresh, Verifies
<1>10. QED
  BY <1>1, <1>3, <1>4, <1>5, <1>6, <1>7, <1>8, <1>9 DEF User

\* The thread: an answer is about the card its operator was about.
LEMMA ThreadFresh == ASSUME TypeOK, Fresh, Thread PROVE Fresh'
<1> USE DEF activity, database, dialogs, view, history
<1>1. CASE Wake \/ Rest \/ Interrupted
  BY <1>1 DEF Wake, Rest, Interrupted, Fresh, Verifies
<1>2. CASE ToDoOperate
  <2> SUFFICES ASSUME ~ overtyped' PROVE Fresh'
    BY DEF Fresh
  <2> DEFINE o == Head(listOperate)
  <2>1. /\ listOperate # <<>> /\ listOperate' = Tail(listOperate) /\ ~ overtyped
        /\ UNCHANGED <<typed, shown, overtyped>>
    BY <1>2 DEF ToDoOperate
  <2>2. /\ Verifies(Tail(listOperate)) /\ (o.kind = "verify" => o.card = typed)
        /\ o \in Operators
    BY <2>1, TailFresh DEF TypeOK, Fresh
  <2>3. PICK done \in {FALSE, mdb = "open" /\ Done(o)} :
           messages' = Append(messages, Answer(o, done)) \/ messages' = messages
    BY <1>2 DEF ToDoOperate
  <2> DEFINE m == Answer(o, done)
  <2>4. m \in Messages /\ m.kind = o.kind /\ m.card = o.card
    BY <2>2, AnswerTyped DEF Answer
  <2>5. messages \in Seq(Messages) /\ Verifies(messages)
    BY <2>1 DEF TypeOK, Fresh
  <2> HIDE DEF o, m
  <2>6. messages' = Append(messages, m) \/ messages' = messages
    BY <2>3 DEF m, o
  <2>7. Verifies(messages)'
    <3>1. CASE messages' = messages
      BY <2>1, <2>5, <3>1 DEF Verifies
    <3>2. CASE messages' = Append(messages, m)
      <4>1. \A i \in DOMAIN messages' :
              messages'[i] = m \/ (i \in DOMAIN messages /\ messages'[i] = messages[i])
        BY <2>4, <2>5, <3>2
      <4>2. QED
        BY <2>1, <2>2, <2>4, <2>5, <4>1 DEF Verifies
    <3>3. QED
      BY <2>6, <3>1, <3>2
  <2>8. QED
    BY <2>1, <2>2, <2>7 DEF Fresh, Verifies
<1>3. QED
  BY <1>1, <1>2 DEF Thread

\* The looper: the dialog shows the card of an answer.
LEMMA LooperFresh == ASSUME TypeOK, Fresh, Looper PROVE Fresh'
<1> USE DEF activity, database, dialogs, view, history
<1>1. CASE HandleMessage \/ Dismiss
  <2> SUFFICES ASSUME ~ overtyped' PROVE Fresh'
    BY DEF Fresh
  <2>1. /\ messages # <<>> /\ messages' = Tail(messages) /\ ~ overtyped
        /\ UNCHANGED <<typed, listOperate>>
        /\ shown' = shown \/ (Head(messages).kind = "verify" /\ shown' = Head(messages).card)
    BY <1>1 DEF HandleMessage, Dismiss, NextMessage
  <2>2. /\ Verifies(Tail(messages))
        /\ Head(messages).kind = "verify" => Head(messages).card = typed
    BY <2>1, TailFresh DEF TypeOK, Fresh
  <2>3. QED
    BY <2>1, <2>2 DEF Fresh, Verifies
<1>2. CASE Destroy(FALSE)
  BY <1>2 DEF Destroy, Fresh, Verifies
<1>3. CASE LogOut
  BY <1>3 DEF LogOut, Fresh, Verifies
<1>4. QED
  BY <1>1, <1>2, <1>3 DEF Looper

\* A timer: a dismissal is about no card.
LEMMA TickFresh == ASSUME TypeOK, Fresh, NEW d \in 1..MaxDialogs, Tick(d) PROVE Fresh'
<1> DEFINE m == [kind |-> "dismiss", dialog |-> d]
<1>1. UNCHANGED <<typed, shown, listOperate, overtyped>>
  BY DEF Tick, view, history
<1>2. messages' = messages \/ messages' = Append(messages, m)
  BY DEF Tick
<1>3. m.kind # "verify" /\ m \in Messages /\ messages \in Seq(Messages)
  BY DEF Messages, TypeOK
<1> HIDE DEF m
<1>4. \A i \in DOMAIN messages' :
        messages'[i] = m \/ (i \in DOMAIN messages /\ messages'[i] = messages[i])
  BY <1>2, <1>3
<1>5. Verifies(messages) => Verifies(messages)'
  BY <1>1, <1>3, <1>4 DEF Verifies
<1>6. QED
  BY <1>1, <1>5 DEF Fresh, Verifies

\* Fresh holds always: of what is shown and what is on its way.
LEMMA FreshHolds == Spec => []Fresh
<1>1. Init => Fresh
  BY DEF Init, Fresh, Verifies
<1>2. IInv /\ Fresh /\ [Next]_vars => Fresh'
  <2> SUFFICES ASSUME IInv, Fresh, [Next]_vars PROVE Fresh'
    OBVIOUS
  <2>1. CASE UNCHANGED vars
    BY <2>1 DEF vars, view, history, Fresh, Verifies
  <2>3. QED
    BY <2>1, TickFresh, UserFresh, ThreadFresh, LooperFresh DEF Next, IInv
<1>3. QED
  BY IInvHolds, <1>1, <1>2, PTL DEF Spec

\* The card that is recycled is the card of the dialog, unless the field was
\* changed under a verification, or scanned behind the dialog
\* (VeriryActivity.java:976-981, 1316-1320).
THEOREM AlwaysRecyclesTheShownCard == Spec => RecyclesTheShownCard
<1> DEFINE Kept == posted' > posted /\ shown # None =>
                     Last(listOperate').card = shown \/ overtyped
<1>1. IInv /\ Fresh /\ [Next]_vars => [Kept]_vars
  <2> SUFFICES ASSUME IInv, Fresh, Next, posted' > posted, shown # None, ~ overtyped
               PROVE  Last(listOperate').card = shown
    OBVIOUS
  <2> USE DEF activity, database, dialogs, view, history, Free
  <2>1. posted \in Nat
    BY ScreenAssumption DEF IInv, TypeOK
  <2>2. CASE Recycle
    BY <2>2, PostFresh DEF Recycle, Kinds, IInv, Fresh
  <2>3. CASE User /\ ~ Recycle
    <3>1. posted' = posted
      BY <2>3 DEF User, Type, Scan, OpenScan, CommitRegist, CommitVerify, Confirm, Back, PressOk,
                  PressCancel, Inactive, Destroy
    <3>2. QED
      BY <2>1, <3>1
  <2>4. CASE Thread
    <3>1. CASE ToDoOperate
      <4>1. posted' = posted
        BY <3>1 DEF ToDoOperate
      <4>2. QED
        BY <2>1, <4>1
    <3>2. CASE Wake \/ Rest \/ Interrupted
      BY <2>1, <3>2 DEF Wake, Rest, Interrupted
    <3>3. QED
      BY <2>4, <3>1, <3>2 DEF Thread
  <2>5. CASE Looper
    <3>1. posted' = posted
      <4>1. CASE HandleMessage \/ Dismiss
        BY <4>1 DEF HandleMessage, Dismiss
      <4>2. CASE Destroy(FALSE)
        BY <4>2 DEF Destroy
      <4>3. CASE LogOut
        BY <4>3 DEF LogOut
      <4>4. QED
        BY <2>5, <4>1, <4>2, <4>3 DEF Looper
    <3>2. QED
      BY <2>1, <3>1
  <2>6. ASSUME NEW d \in 1..MaxDialogs, Tick(d) PROVE FALSE
    BY <2>1, <2>6 DEF Tick
  <2>7. QED
    BY <2>2, <2>3, <2>4, <2>5, <2>6 DEF Next
<1>2. QED
  BY IInvHolds, FreshHolds, <1>1, PTL DEF Spec, RecyclesTheShownCard

-----------------------------------------------------------------------------
(* The log-in of MainActivity: LoginVerify, for any number of logins, of   *)
(* servers and of searches.                                                *)

\* The screen and its dialog are at the end of the chain, behind the operator of
\* the last login, and so they are behind every operator that was ever in it.
Links ==
    /\ next_listener[Dialog] = Screen /\ next_listener[Screen] = Nil
    /\ \A l \in Logins : target[l] # Nil => next_listener[l] = Dialog
    /\ next_listener[Manager] \in
         IF isInsert THEN {l \in Logins : target[l] # Nil} ELSE {Dialog}

\* The login an operation is of; a search is of none.
LoginOf(o) == IF o.kind = "search" THEN Nil ELSE o.login

\* A login that was begun has one operation in the queue, or one request sent,
\* or neither when the request was lost.
Once ==
    /\ \A i, j \in DOMAIN queue :
         LoginOf(queue[i]) = LoginOf(queue[j]) /\ LoginOf(queue[i]) # Nil => i = j
    /\ \A i \in DOMAIN queue, k \in DOMAIN asked : asked[k][1] # LoginOf(queue[i])
    /\ \A j, k \in DOMAIN asked : asked[j][1] = asked[k][1] => j = k
    /\ \A i \in DOMAIN queue : LoginOf(queue[i]) # Nil => target[LoginOf(queue[i])] # Nil
    /\ \A k \in DOMAIN asked : target[asked[k][1]] # Nil

\* The login socket, once connected, stays open until nobody can log in.
Connected ==
    /\ peer["login"] # Everyone
    /\ peer["login"] # Nil =>
         m_client["login"] = "open" \/ ui \in {"exit sender", "close broadcast", "gone"}
    /\ \A k \in DOMAIN asked : asked[k][2] = peer["login"]
    /\ cur_login_user # Offline => peer["login"] \in accepted

\* The receive thread of the broadcast socket waits as long as that is open,
\* and only exit() tells it to end; by then no operation is sent any more.
Blocked ==
    /\ bexit["broadcast"] <=> ui \in {"close broadcast", "gone"}
    /\ ui \in {"close broadcast", "gone"} => sender = "ended"
    /\ ~ bexit["broadcast"] =>
         /\ rev_thread["broadcast"] # "ended" /\ m_client["broadcast"] # "closed"
         /\ m_client["broadcast"] = "open" => rev_thread["broadcast"] = "blocked"
    /\ peer["broadcast"] # Nil =>
         /\ peer["broadcast"] = Everyone
         /\ m_client["broadcast"] = "open" /\ rev_thread["broadcast"] = "blocked"
         /\ ui # "gone"

LoginIInv == LoginTypeOK /\ Links /\ Once /\ Connected /\ Blocked

LEMMA OperationLogin == \A o \in Operations : LoginOf(o) \in Logins \cup {Nil}
BY DEF Operations, LoginOf

LEMMA LoginInitIInv == LoginInit => LoginIInv
<1> SUFFICES ASSUME LoginInit PROVE LoginIInv
  OBVIOUS
<1> USE LoginAssumption DEF LoginInit
<1>1. LoginTypeOK
  <2>1. <<>> \in Seq(Operations) /\ <<>> \in Seq(Logins \X Servers)
    OBVIOUS
  <2>2. next_listener \in [Listeners -> Listeners \cup {Nil}]
    BY DEF Listeners, Manager, Dialog, Screen, Empty
  <2>3. isInsert \in BOOLEAN /\ bexit \in [Clients -> BOOLEAN]
    BY Zenon
  <2>4. timer \in [Logins -> 0..(MaxTimes + 1) \cup {Nil}] /\ searches \in 0..MaxSearches
    OBVIOUS
  <2>5. QED
    BY <2>1, <2>2, <2>3, <2>4, SMT DEF LoginTypeOK, Clients
<1>2. Links
  BY DEF Links, Listeners, Manager, Dialog, Screen, Empty
<1>3. Once /\ Connected /\ Blocked
  BY DEF Once, Connected, Blocked, Clients
<1>4. QED
  BY <1>1, <1>2, <1>3 DEF LoginIInv

\* What is told first puts a new operation at the end of the queue.
LEMMA OnceAppend ==
    ASSUME LoginTypeOK, Once, NEW o \in Operations, queue' = Append(queue, o), asked' = asked,
           \A m \in Logins : target[m] # Nil => target'[m] # Nil,
           LoginOf(o) # Nil => target[LoginOf(o)] = Nil /\ target'[LoginOf(o)] # Nil
    PROVE  queue' \in Seq(Operations) /\ Once'
<1>1. queue \in Seq(Operations) /\ asked \in Seq(Logins \X Servers)
  BY DEF LoginTypeOK
<1>2. /\ queue' \in Seq(Operations) /\ Len(queue') = Len(queue) + 1
      /\ \A i \in DOMAIN queue : i \in DOMAIN queue' /\ queue'[i] = queue[i]
      /\ \A i \in DOMAIN queue' : i \in DOMAIN queue \/ queue'[i] = o
      /\ DOMAIN queue' = 1..(Len(queue) + 1) /\ DOMAIN queue = 1..Len(queue)
  BY <1>1
<1>3. \A i \in DOMAIN queue' : i \in DOMAIN queue \/ i = Len(queue) + 1
  BY <1>1, <1>2
<1>4. \A i \in DOMAIN queue : LoginOf(queue[i]) \in Logins \cup {Nil}
  BY <1>1, OperationLogin
<1>5. \A k \in DOMAIN asked : asked[k][1] \in Logins /\ target[asked[k][1]] # Nil
  BY <1>1 DEF Once
<1>6. \A i, j \in DOMAIN queue' :
        LoginOf(queue'[i]) = LoginOf(queue'[j]) /\ LoginOf(queue'[i]) # Nil => i = j
  <2> SUFFICES ASSUME NEW i \in DOMAIN queue', NEW j \in DOMAIN queue',
                      LoginOf(queue'[i]) = LoginOf(queue'[j]), LoginOf(queue'[i]) # Nil
               PROVE  i = j
    OBVIOUS
  <2>1. CASE i \in DOMAIN queue /\ j \in DOMAIN queue
    BY <1>2, <2>1 DEF Once
  <2>2. CASE i \notin DOMAIN queue /\ j \notin DOMAIN queue
    BY <1>3, <2>2
  <2>3. CASE i \in DOMAIN queue /\ j \notin DOMAIN queue
    BY <1>2, <2>3 DEF Once
  <2>4. CASE i \notin DOMAIN queue /\ j \in DOMAIN queue
    BY <1>2, <2>4 DEF Once
  <2>5. QED
    BY <2>1, <2>2, <2>3, <2>4
<1>7. \A i \in DOMAIN queue', k \in DOMAIN asked : asked[k][1] # LoginOf(queue'[i])
  BY <1>2, <1>5, LoginAssumption DEF Once
<1>8. \A i \in DOMAIN queue' : LoginOf(queue'[i]) # Nil => target'[LoginOf(queue'[i])] # Nil
  BY <1>2, <1>4 DEF Once
<1>9. \A k \in DOMAIN asked : target'[asked[k][1]] # Nil
  BY <1>5
<1>10. QED
  BY <1>2, <1>6, <1>7, <1>8, <1>9 DEF Once, LoginOf

\* An operation taken from the queue leaves the others where they were.
LEMMA TailOf ==
    ASSUME NEW S, NEW q \in Seq(S), q # <<>>
    PROVE  /\ Head(q) = q[1] /\ 1 \in DOMAIN q /\ Head(q) \in S
           /\ Tail(q) \in Seq(S) /\ Len(Tail(q)) = Len(q) - 1
           /\ \A i \in DOMAIN Tail(q) : i + 1 \in DOMAIN q /\ i + 1 # 1 /\ Tail(q)[i] = q[i + 1]
OBVIOUS

\* An operation that is replaced, at the end of the queue, by one of its login.
LEMMA OncePass ==
    ASSUME LoginTypeOK, Once, queue # <<>>, NEW o \in Operations,
           LoginOf(o) = LoginOf(Head(queue)), queue' = Append(Tail(queue), o),
           UNCHANGED <<asked, target>>
    PROVE  queue' \in Seq(Operations) /\ Once'
<1>1. queue \in Seq(Operations) /\ asked \in Seq(Logins \X Servers)
  BY DEF LoginTypeOK
<1>2. /\ Head(queue) = queue[1] /\ 1 \in DOMAIN queue
      /\ Tail(queue) \in Seq(Operations) /\ Len(Tail(queue)) = Len(queue) - 1
      /\ \A i \in DOMAIN Tail(queue) : i + 1 \in DOMAIN queue /\ i + 1 # 1
                                       /\ Tail(queue)[i] = queue[i + 1]
  BY <1>1, TailOf
<1>3. /\ queue' \in Seq(Operations) /\ DOMAIN queue' = 1..Len(queue)
      /\ \A i \in DOMAIN queue' : \/ i # Len(queue) /\ i + 1 \in DOMAIN queue /\ i + 1 # 1
                                     /\ queue'[i] = queue[i + 1]
                                  \/ i = Len(queue) /\ queue'[i] = o
  BY <1>1, <1>2
<1> DEFINE from == [i \in DOMAIN queue' |-> IF i = Len(queue) THEN 1 ELSE i + 1]
<1>4. /\ \A i \in DOMAIN queue' : from[i] \in DOMAIN queue /\ LoginOf(queue'[i]) = LoginOf(queue[from[i]])
      /\ \A i, j \in DOMAIN queue' : from[i] = from[j] => i = j
  BY <1>1, <1>2, <1>3
<1> HIDE DEF from
<1>5. \A i, j \in DOMAIN queue' :
        LoginOf(queue'[i]) = LoginOf(queue'[j]) /\ LoginOf(queue'[i]) # Nil => i = j
  BY <1>4 DEF Once
<1>6. \A i \in DOMAIN queue', k \in DOMAIN asked : asked[k][1] # LoginOf(queue'[i])
  BY <1>4 DEF Once
<1>7. \A i \in DOMAIN queue' : LoginOf(queue'[i]) # Nil => target[LoginOf(queue'[i])] # Nil
  BY <1>4 DEF Once
<1>8. QED
  BY <1>3, <1>5, <1>6, <1>7 DEF Once, LoginOf

\* A request that was sent, or lost, is not in the queue any more.
LEMMA OnceTail ==
    ASSUME LoginTypeOK, Once, queue # <<>>, queue' = Tail(queue), UNCHANGED target,
           \/ asked' = asked
           \/ /\ LoginOf(Head(queue)) \in Logins
              /\ \E s \in Servers : asked' = Append(asked, <<LoginOf(Head(queue)), s>>)
    PROVE  queue' \in Seq(Operations) /\ asked' \in Seq(Logins \X Servers) /\ Once'
<1>1. queue \in Seq(Operations) /\ asked \in Seq(Logins \X Servers)
  BY DEF LoginTypeOK
<1>2. /\ Head(queue) = queue[1] /\ 1 \in DOMAIN queue
      /\ queue' \in Seq(Operations)
      /\ \A i \in DOMAIN queue' : i + 1 \in DOMAIN queue /\ i + 1 # 1
                                  /\ queue'[i] = queue[i + 1]
  BY <1>1, TailOf
<1>a. \A i \in DOMAIN queue' : i \in Nat
  BY <1>2
<1>3. /\ \A i, j \in DOMAIN queue' :
           LoginOf(queue'[i]) = LoginOf(queue'[j]) /\ LoginOf(queue'[i]) # Nil => i = j
      /\ \A i \in DOMAIN queue' : LoginOf(queue'[i]) # Nil => target[LoginOf(queue'[i])] # Nil
  BY <1>2, <1>a DEF Once
<1>4. CASE asked' = asked
  BY <1>1, <1>2, <1>3, <1>4 DEF Once, LoginOf
<1>5. ASSUME NEW s \in Servers, LoginOf(Head(queue)) \in Logins,
             asked' = Append(asked, <<LoginOf(Head(queue)), s>>)
      PROVE  asked' \in Seq(Logins \X Servers) /\ Once'
  <2>1. PICK l \in Logins : l = LoginOf(queue[1])
    BY <1>2, <1>5
  <2>2. /\ asked' \in Seq(Logins \X Servers) /\ DOMAIN asked' = 1..Len(asked) + 1
        /\ \A k \in DOMAIN asked' : \/ k \in DOMAIN asked /\ asked'[k] = asked[k]
                                    \/ k = Len(asked) + 1 /\ asked'[k][1] = l
    BY <1>1, <1>2, <1>5, <2>1
  <2>3. l # Nil /\ target[l] # Nil /\ \A k \in DOMAIN asked : asked[k][1] # l
    BY <1>2, <2>1, LoginAssumption DEF Once
  <2>4. \A i \in DOMAIN queue' : LoginOf(queue'[i]) # l
    BY <1>2, <2>1, <2>3 DEF Once
  <2>5. \A i \in DOMAIN queue', k \in DOMAIN asked' : asked'[k][1] # LoginOf(queue'[i])
    BY <1>2, <2>2, <2>4 DEF Once
  <2>6. \A j, k \in DOMAIN asked' : asked'[j][1] = asked'[k][1] => j = k
    BY <2>2, <2>3 DEF Once
  <2>7. \A k \in DOMAIN asked' : target[asked'[k][1]] # Nil
    BY <2>2, <2>3 DEF Once
  <2>8. QED
    BY <1>3, <2>2, <2>5, <2>6, <2>7 DEF Once, LoginOf
<1>6. QED
  BY <1>2, <1>4, <1>5, <1>1

LEMMA LinksKept ==
    ASSUME Links, UNCHANGED <<next_listener, isInsert, target>> PROVE Links'
BY DEF Links

LEMMA OnceKept == ASSUME Once, UNCHANGED <<queue, asked, target>> PROVE Once'
BY DEF Once, LoginOf

\* A socket that is made anew was not connected: the one that was, is open.
LEMMA UDPClientInitKeeps ==
    ASSUME LoginIInv, NEW c \in Clients, UDPClientInit(c), ui = "idle",
           ui' \in {"idle", "loading"}, UNCHANGED <<sender, asked, accepted, cur_login_user>>
    PROVE  /\ m_client' \in [Clients -> {"null", "open", "closed"}]
           /\ peer' \in [Clients -> Servers \cup {Everyone, Nil}]
           /\ rev_thread' \in [Clients -> {"null", "blocked", "ended"}]
           /\ bexit' \in [Clients -> BOOLEAN]
           /\ Connected' /\ Blocked'
<1> USE DEF LoginIInv
<1>1. CASE UNCHANGED sockets
  BY <1>1 DEF sockets, LoginTypeOK, Connected, Blocked
<1>2. CASE /\ m_client[c] # "open"
           /\ m_client' = [m_client EXCEPT ![c] = "open"]
           /\ peer' = [peer EXCEPT ![c] = Nil]
           /\ rev_thread' = [rev_thread EXCEPT ![c] = IF @ = "null" THEN "blocked" ELSE @]
           /\ UNCHANGED bexit
  <2>1. /\ m_client' \in [Clients -> {"null", "open", "closed"}]
        /\ peer' \in [Clients -> Servers \cup {Everyone, Nil}]
        /\ rev_thread' \in [Clients -> {"null", "blocked", "ended"}]
        /\ bexit' \in [Clients -> BOOLEAN]
    BY <1>2 DEF LoginTypeOK
  <2>2. "login" \in Clients /\ "broadcast" \in Clients
    BY DEF Clients
  <2>3. c = "login" \/ c = "broadcast"
    BY DEF Clients
  <2>4. peer[c] = Nil
    BY <1>2, <2>3 DEF Connected, Blocked
  <2>5. peer' = peer
    BY <1>2, <2>4 DEF LoginTypeOK
  <2>6. Connected'
    BY <1>2, <2>2, <2>3, <2>4, <2>5 DEF Connected, LoginTypeOK
  <2>7. bexit["broadcast"] = FALSE
    BY <2>2 DEF Blocked, LoginTypeOK
  <2>8. CASE c = "broadcast"
    <3>1. m_client'["broadcast"] = "open" /\ rev_thread'["broadcast"] = "blocked"
      BY <1>2, <2>2, <2>7, <2>8 DEF Blocked, LoginTypeOK
    <3>2. QED
      BY <1>2, <2>1, <2>4, <2>5, <2>6, <2>7, <2>8, <3>1 DEF Blocked
  <2>9. CASE c = "login"
    <3>1. m_client'["broadcast"] = m_client["broadcast"]
          /\ rev_thread'["broadcast"] = rev_thread["broadcast"]
      BY <1>2, <2>2, <2>9 DEF LoginTypeOK
    <3>2. QED
      BY <1>2, <2>1, <2>5, <2>6, <2>7, <3>1 DEF Blocked
  <2>10. QED
    BY <2>3, <2>8, <2>9
<1>3. QED
  BY <1>1, <1>2 DEF UDPClientInit

\* The operator of a new login takes the place of the last one.
LEMMA VerifyLoginKeeps ==
    ASSUME LoginIInv, NEW l \in Logins, NEW s \in Servers, VerifyLogin(l, s) PROVE LoginIInv'
<1> USE LoginAssumption DEF LoginIInv, VerifyLogin
<1>1. s # Nil /\ target' = [target EXCEPT ![l] = s] /\ target \in [Logins -> Servers \cup {Nil}]
  BY DEF LoginTypeOK
<1>2. target'[l] # Nil /\ \A m \in Logins : target[m] # Nil => target'[m] # Nil
  BY <1>1
<1> DEFINE o == [kind |-> "verify", login |-> l]
<1>3. o \in Operations /\ LoginOf(o) = l
  BY DEF Operations, LoginOf
<1> HIDE DEF o
<1>4. queue' = Append(queue, o) /\ asked' = asked
  BY DEF loginHistory, o
<1>5. queue' \in Seq(Operations) /\ Once'
  BY <1>2, <1>3, <1>4, OnceAppend
<1>6. Links' /\ next_listener' \in [Listeners -> Listeners \cup {Nil}]
  <2> DEFINE inserted == IF isInsert THEN next_listener
                         ELSE InsertOnSocketReceiveListening(next_listener, Manager, Empty)
  <2>1. /\ l \in Listeners /\ l \notin {Manager, Dialog, Screen, Empty}
        /\ Manager \in Listeners /\ Dialog \in Listeners /\ Screen \in Listeners /\ Empty \in Listeners
        /\ Dialog # Nil /\ Empty # Nil /\ Manager # Dialog /\ Manager # Screen /\ Manager # Empty
        /\ Empty # Dialog /\ Empty # Screen /\ Dialog # Screen
    BY DEF Listeners, Manager, Dialog, Screen, Empty
  <2>2. /\ inserted \in [Listeners -> Listeners \cup {Nil}]
        /\ inserted[Dialog] = Screen /\ inserted[Screen] = Nil
        /\ \A m \in Logins : target[m] # Nil => inserted[m] = Dialog
        /\ inserted[Manager] \in Listeners
        /\ inserted[inserted[Manager]] = Dialog
    <3>1. CASE isInsert
      BY <2>1, <3>1 DEF Links, LoginTypeOK, Listeners
    <3>2. CASE ~ isInsert
      <4>1. /\ inserted = [next_listener EXCEPT ![Manager] = Empty, ![Empty] = next_listener[Manager]]
            /\ next_listener[Manager] = Dialog
            /\ next_listener \in [Listeners -> Listeners \cup {Nil}]
        BY <3>2 DEF Links, LoginTypeOK, InsertOnSocketReceiveListening
      <4> HIDE DEF inserted
      <4>2. \A m \in Logins : m \in Listeners /\ m # Manager /\ m # Empty
        BY DEF Listeners
      <4>3. QED
        BY <2>1, <4>1, <4>2 DEF Links
    <3>3. QED
      BY <3>1, <3>2 DEF LoginTypeOK
  <2>3. next_listener' = SetOnSocketReceiveListening(inserted, Manager, l)
    BY DEF Chained
  <2> HIDE DEF inserted
  <2>4. next_listener' = [inserted EXCEPT ![Manager] = l, ![l] = Dialog]
    BY <2>1, <2>2, <2>3 DEF SetOnSocketReceiveListening
  <2>5. \A m \in Logins : m \in Listeners /\ m # Manager
    BY DEF Listeners
  <2>6. /\ next_listener' \in [Listeners -> Listeners \cup {Nil}]
        /\ next_listener'[Dialog] = Screen /\ next_listener'[Screen] = Nil
        /\ next_listener'[l] = Dialog /\ next_listener'[Manager] = l
        /\ \A m \in Logins : m # l => next_listener'[m] = inserted[m]
    BY <2>1, <2>2, <2>4, <2>5
  <2>7. \A m \in Logins : target'[m] # Nil => next_listener'[m] = Dialog
    BY <1>1, <2>2, <2>6
  <2>8. QED
    BY <1>2, <2>6, <2>7 DEF Links
<1>7. Connected' /\ Blocked' /\ LoginTypeOK'
  <2>1. "login" \in Clients
    BY DEF Clients
  <2>2. ui' = "loading" /\ UNCHANGED <<sender, asked, accepted, cur_login_user>>
    BY DEF loginHistory
  <2>3. QED
    BY <1>1, <1>5, <1>6, <2>1, <2>2, UDPClientInitKeeps DEF LoginTypeOK, loginHistory
<1>8. QED
  BY <1>5, <1>6, <1>7

LEMMA FindServerKeeps == ASSUME LoginIInv, FindServer PROVE LoginIInv'
<1> USE LoginAssumption DEF LoginIInv, FindServer
<1> DEFINE o == [kind |-> "search"]
<1>1. o \in Operations /\ LoginOf(o) = Nil
  BY DEF Operations, LoginOf
<1> HIDE DEF o
<1>2. queue' = Append(queue, o) /\ UNCHANGED <<asked, target, sender, accepted, cur_login_user>>
  BY DEF manager, o
<1>3. queue' \in Seq(Operations) /\ Once'
  BY <1>1, <1>2, OnceAppend
<1>4. Links'
  BY DEF Links, manager
<1>5. searches' \in 0..MaxSearches
  BY DEF LoginTypeOK
<1>6. "broadcast" \in Clients /\ ui' = "idle"
  BY DEF Clients
<1>7. QED
  BY <1>2, <1>3, <1>4, <1>5, <1>6, UDPClientInitKeeps DEF LoginTypeOK, manager

\* exit() closes the sockets in turn and joins the sender in between.
LEMMA ExitKeeps == ASSUME LoginIInv, DestroyMain \/ ExitStep PROVE LoginIInv'
<1> USE DEF LoginIInv
<1>1. /\ "login" \in Clients /\ "broadcast" \in Clients
      /\ m_client \in [Clients -> {"null", "open", "closed"}]
      /\ bexit \in [Clients -> BOOLEAN]
  BY DEF Clients, LoginTypeOK
<1>2. UNCHANGED <<next_listener, timer, manager, sending, peer, rev_thread, loginHistory>>
  BY DEF DestroyMain, ExitStep, CloseLogin, JoinSender, CloseBroadcast, JoinThenClose
<1>3. Links' /\ Once'
  BY <1>2, LinksKept, OnceKept DEF manager, sending, loginHistory
<1>4. /\ m_client' \in [Clients -> {"null", "open", "closed"}]
      /\ bexit' \in [Clients -> BOOLEAN]
      /\ ui' \in {"close login", "exit sender", "close broadcast", "gone"}
  BY <1>1 DEF DestroyMain, ExitStep, CloseLogin, JoinSender, CloseBroadcast, JoinThenClose
<1>5. LoginTypeOK'
  BY <1>2, <1>4 DEF LoginTypeOK, manager, sending, loginHistory
<1>6. Connected' /\ Blocked'
  <2> USE <1>1, <1>2 DEF manager, sending, loginHistory, Connected, Blocked
  <2>1. CASE DestroyMain
    <3>1. m_client' = m_client /\ bexit'["broadcast"] = bexit["broadcast"]
      BY <2>1 DEF DestroyMain
    <3>2. QED
      BY <2>1, <3>1 DEF DestroyMain
  <2>2. CASE CloseLogin
    <3>1. m_client'["broadcast"] = m_client["broadcast"] /\ bexit' = bexit
      BY <2>2 DEF CloseLogin, JoinThenClose
    <3>2. QED
      BY <2>2, <3>1 DEF CloseLogin
  <2>3. CASE JoinSender
    <3>1. m_client' = m_client /\ bexit'["broadcast"] = TRUE
      BY <2>3 DEF JoinSender
    <3>2. QED
      BY <2>3, <3>1 DEF JoinSender
  <2>4. CASE CloseBroadcast
    <3>1. m_client'["login"] = m_client["login"] /\ bexit' = bexit
      BY <2>4 DEF CloseBroadcast, JoinThenClose
    <3>2. peer["broadcast"] = Nil /\ bexit["broadcast"] = TRUE
      BY <2>4 DEF CloseBroadcast, JoinThenClose
    <3>3. QED
      BY <2>4, <3>1, <3>2 DEF CloseBroadcast
  <2>5. QED
    BY <2>1, <2>2, <2>3, <2>4 DEF ExitStep
<1>7. QED
  BY <1>3, <1>5, <1>6

\* The thread waits, wakes and ends; it ends before the broadcast socket closes.
LEMMA SenderKeeps ==
    ASSUME LoginIInv, SenderWakes \/ SenderRests \/ SenderInterrupted PROVE LoginIInv'
<1> USE DEF LoginIInv
<1>1. sender' \in {"waiting", "working", "ended"} /\ (sender = "ended" => sender' = "ended")
  BY DEF SenderWakes, SenderRests, SenderInterrupted
<1>2. UNCHANGED <<next_listener, timer, ui, manager, queue, sockets, loginHistory>>
  BY DEF SenderWakes, SenderRests, SenderInterrupted
<1>3. LoginTypeOK'
  BY <1>1, <1>2 DEF LoginTypeOK, manager, sockets, loginHistory
<1>4. Links' /\ Once' /\ Connected' /\ Blocked'
  BY <1>1, <1>2, LinksKept, OnceKept
     DEF manager, sockets, loginHistory, Connected, Blocked
<1>5. QED
  BY <1>3, <1>4

\* The request of a login follows its operation into the queue.
LEMMA ToDoOperateKeeps ==
    ASSUME LoginIInv, VerifyToDoOperate \/ SearchToDoOperate PROVE LoginIInv'
<1> USE LoginAssumption DEF LoginIInv
<1>1. /\ queue # <<>> /\ queue \in Seq(Operations) /\ sender = "working"
      /\ Head(queue) = queue[1] /\ 1 \in DOMAIN queue /\ Head(queue) \in Operations
  <2>1. queue # <<>> /\ queue \in Seq(Operations) /\ sender = "working"
    BY DEF VerifyToDoOperate, SearchToDoOperate, GetOperate, LoginTypeOK
  <2>2. QED
    BY <2>1, TailOf
<1>2. CASE VerifyToDoOperate
  <2> DEFINE l == Head(queue).login
             o == [kind |-> "send", client |-> "login", to |-> target[l], login |-> l,
                   usable |-> m_client["login"] # "null"]
  <2>1. l \in Logins /\ LoginOf(Head(queue)) = l /\ l # Nil
    BY <1>1, <1>2 DEF VerifyToDoOperate, GetOperate, LoginOf, Operations
  <2>2. target[l] \in Servers
    <3>1. LoginOf(queue[1]) = l /\ 1 \in DOMAIN queue
      BY <1>1, <2>1
    <3>2. target[l] # Nil
      BY <2>1, <3>1 DEF Once
    <3>3. QED
      BY <2>1, <3>2 DEF LoginTypeOK
  <2>3. o \in Operations /\ LoginOf(o) = l
    BY <2>1, <2>2 DEF Operations, LoginOf
  <2>4. timer' \in [Logins -> 0..(MaxTimes + 1) \cup {Nil}]
    <3>1. 0 \in 0..(MaxTimes + 1)
      OBVIOUS
    <3>2. QED
      BY <1>2, <2>1, <3>1 DEF VerifyToDoOperate, LoginTypeOK
  <2>5. queue' = Append(Tail(queue), o)
    BY <1>2 DEF VerifyToDoOperate, SendDataInQueue
  <2> HIDE DEF o, l
  <2>6. UNCHANGED <<next_listener, ui, manager, sender, sockets, loginHistory>>
    BY <1>2 DEF VerifyToDoOperate
  <2>7. queue' \in Seq(Operations) /\ Once'
    BY <1>1, <2>1, <2>3, <2>5, <2>6, OncePass DEF manager, loginHistory
  <2>8. LoginTypeOK'
    BY <2>4, <2>6, <2>7 DEF LoginTypeOK, manager, sockets, loginHistory
  <2>9. Links' /\ Connected' /\ Blocked'
    BY <2>6 DEF Links, Connected, Blocked, manager, sockets, loginHistory
  <2>10. QED
    BY <2>7, <2>8, <2>9
<1>3. CASE SearchToDoOperate
  <2> DEFINE o == [kind |-> "send", client |-> "broadcast", to |-> Everyone, login |-> Nil,
                   usable |-> m_client["broadcast"] # "null"]
  <2>1. LoginOf(Head(queue)) = Nil
    BY <1>3 DEF SearchToDoOperate, GetOperate, LoginOf
  <2>2. o \in Operations /\ LoginOf(o) = Nil
    BY DEF Operations, LoginOf
  <2>3. queue' = Append(Tail(queue), o)
    BY <1>3 DEF SearchToDoOperate, SendDataInQueue
  <2> HIDE DEF o
  <2>4. UNCHANGED <<next_listener, timer, ui, manager, sender, sockets, loginHistory>>
    BY <1>3 DEF SearchToDoOperate
  <2>5. queue' \in Seq(Operations) /\ Once'
    BY <1>1, <2>1, <2>2, <2>3, <2>4, OncePass DEF manager, loginHistory
  <2>6. LoginTypeOK'
    BY <2>4, <2>5 DEF LoginTypeOK, manager, sockets, loginHistory
  <2>7. Links' /\ Connected' /\ Blocked'
    BY <2>4 DEF Links, Connected, Blocked, manager, sockets, loginHistory
  <2>8. QED
    BY <2>5, <2>6, <2>7
<1>4. QED
  BY <1>2, <1>3

\* Whoever is sent to first, all later requests go there.
LEMMA SendKeeps == ASSUME LoginIInv, SendToDoOperate PROVE LoginIInv'
<1> USE LoginAssumption DEF LoginIInv
<1> DEFINE o == Head(queue)
<1>1. /\ queue # <<>> /\ queue \in Seq(Operations) /\ sender = "working"
      /\ o \in Operations /\ o.kind = "send" /\ queue' = Tail(queue)
      /\ asked \in Seq(Logins \X Servers)
  <2>1. queue # <<>> /\ queue \in Seq(Operations) /\ sender = "working" /\ o.kind = "send"
        /\ queue' = Tail(queue) /\ asked \in Seq(Logins \X Servers)
    BY DEF SendToDoOperate, GetOperate, LoginTypeOK
  <2>2. QED
    BY <2>1, TailOf
<1>2. UNCHANGED <<next_listener, timer, ui, manager, sender, m_client, rev_thread, bexit, searches,
                  accepted>>
  BY DEF SendToDoOperate
<1>3. \/ o.client = "login" /\ o.login \in Logins /\ o.to \in Servers
      \/ o.client = "broadcast" /\ o.login = Nil /\ o.to = Everyone
  BY <1>1 DEF Operations
<1>4. LoginOf(o) = o.login
  BY <1>1 DEF LoginOf
<1>5. \/ UNCHANGED <<peer, asked>>
      \/ /\ m_client[o.client] = "open" /\ ConnectOnce(o.client, o.to)
         /\ \/ asked' = asked
            \/ o.login # Nil /\ asked' = Append(asked, <<o.login, peer'[o.client]>>)
  BY DEF SendToDoOperate
<1> HIDE DEF o
<1>6. peer \in [Clients -> Servers \cup {Everyone, Nil}] /\ "login" \in Clients /\ "broadcast" \in Clients
  BY DEF LoginTypeOK, Clients
<1>7. CASE UNCHANGED <<peer, asked>>
  <2>1. queue' \in Seq(Operations) /\ Once'
    BY <1>1, <1>2, <1>7, OnceTail DEF manager
  <2>2. LoginTypeOK'
    BY <1>2, <1>7, <2>1 DEF LoginTypeOK, manager
  <2>3. Links' /\ Connected' /\ Blocked'
    BY <1>2, <1>7 DEF Links, Connected, Blocked, manager
  <2>4. QED
    BY <2>1, <2>2, <2>3
<1>8. CASE /\ m_client[o.client] = "open" /\ ConnectOnce(o.client, o.to)
           /\ o.client = "login" /\ o.login \in Logins /\ o.to \in Servers
           /\ \/ asked' = asked
              \/ o.login # Nil /\ asked' = Append(asked, <<o.login, peer'[o.client]>>)
  <2>1. /\ peer' \in [Clients -> Servers \cup {Everyone, Nil}]
        /\ peer'["broadcast"] = peer["broadcast"]
        /\ peer'["login"] = IF peer["login"] = Nil THEN o.to ELSE peer["login"]
    BY <1>6, <1>8 DEF ConnectOnce
  <2>2. peer["login"] # Everyone
    BY <1>6 DEF Connected, Blocked
  <2>3. peer'["login"] \in Servers
    BY <1>6, <1>8, <2>1, <2>2
  <2>4. queue' \in Seq(Operations) /\ asked' \in Seq(Logins \X Servers) /\ Once'
    <3>1. UNCHANGED target
      BY <1>2 DEF manager
    <3>2. \/ asked' = asked
          \/ /\ LoginOf(o) \in Logins
             /\ \E s \in Servers : asked' = Append(asked, <<LoginOf(o), s>>)
      BY <1>4, <1>8, <2>3
    <3>3. QED
      BY <1>1, <3>1, <3>2, OnceTail DEF o
  <2>5. /\ \A k \in DOMAIN asked : asked[k] \in Logins \X Servers /\ asked[k][2] = peer["login"]
        /\ DOMAIN asked = 1..Len(asked)
    <3>1. \A k \in DOMAIN asked : asked[k] \in Logins \X Servers
      BY <1>1
    <3>2. DOMAIN asked = 1..Len(asked)
      BY <1>1
    <3>3. QED
      BY <3>1, <3>2 DEF Connected
  <2>6. \A k \in DOMAIN asked : asked[k][2] = peer'["login"]
    BY <2>1, <2>5
  <2>7. \A k \in DOMAIN asked' : asked'[k][2] = peer'["login"]
    <3>1. CASE asked' = asked
      BY <2>6, <3>1
    <3>2. CASE asked' = Append(asked, <<o.login, peer'["login"]>>)
      BY <1>1, <1>8, <2>3, <2>6, <3>2
    <3>3. QED
      BY <1>8, <3>1, <3>2
  <2>8. cur_login_user # Offline => peer'["login"] \in accepted /\ peer'["login"] = peer["login"]
    BY <2>1 DEF Connected, LoginTypeOK
  <2>9. Connected'
    BY <1>2, <1>8, <2>3, <2>7, <2>8 DEF Connected, manager
  <2>10. QED
    BY <1>2, <2>1, <2>4, <2>9 DEF LoginTypeOK, Links, Blocked, manager
<1>9. CASE /\ m_client[o.client] = "open" /\ ConnectOnce(o.client, o.to)
           /\ o.client = "broadcast" /\ o.login = Nil /\ o.to = Everyone /\ asked' = asked
  <2>1. /\ peer' \in [Clients -> Servers \cup {Everyone, Nil}]
        /\ peer'["login"] = peer["login"]
        /\ peer'["broadcast"] = IF peer["broadcast"] = Nil THEN Everyone ELSE peer["broadcast"]
    BY <1>6, <1>9 DEF ConnectOnce
  <2>2. queue' \in Seq(Operations) /\ Once'
    BY <1>1, <1>2, <1>9, OnceTail DEF manager
  <2>3. ui \notin {"close broadcast", "gone"} /\ m_client["broadcast"] = "open"
    BY <1>1, <1>9 DEF Blocked
  <2>4. rev_thread["broadcast"] = "blocked"
    BY <2>3 DEF Blocked
  <2>5. Blocked'
    BY <1>2, <2>1, <2>3, <2>4 DEF Blocked
  <2>6. Connected'
    BY <1>2, <1>9, <2>1 DEF Connected, manager
  <2>7. QED
    BY <1>2, <1>9, <2>1, <2>2, <2>5, <2>6 DEF LoginTypeOK, Links, manager
<1>10. QED
  BY <1>3, <1>5, <1>7, <1>8, <1>9

\* A timer ticks, and its last tick puts the dialog away.
LEMMA TimerKeeps == ASSUME LoginIInv, TimerStep PROVE LoginIInv'
<1> USE LoginAssumption DEF LoginIInv
<1>1. PICK l \in Logins : Count(l) \/ GiveUp(l)
  BY DEF TimerStep
<1>2. UNCHANGED <<next_listener, manager, sending, sockets, loginHistory>>
  BY <1>1 DEF Count, GiveUp
<1>3. timer' \in [Logins -> 0..(MaxTimes + 1) \cup {Nil}]
  <2>1. CASE Count(l)
    <3>1. timer[l] + 1 \in 0..(MaxTimes + 1) /\ timer' = [timer EXCEPT ![l] = timer[l] + 1]
      BY <2>1 DEF Count
    <3>2. QED
      BY <3>1 DEF LoginTypeOK
  <2>2. CASE GiveUp(l)
    BY <2>2 DEF GiveUp, LoginTypeOK
  <2>3. QED
    BY <1>1, <2>1, <2>2
<1>4. ui' = ui \/ (ui = "loading" /\ ui' = "idle")
  BY <1>1 DEF Count, GiveUp, ScreenReceives
<1>5. LoginTypeOK'
  BY <1>2, <1>3, <1>4 DEF LoginTypeOK, manager, sending, sockets, loginHistory
<1>6. Links' /\ Once' /\ Connected' /\ Blocked'
  BY <1>2, <1>4, LinksKept, OnceKept
     DEF manager, sending, sockets, loginHistory, Connected, Blocked
<1>7. QED
  BY <1>5, <1>6

\* Datagrams come on a socket that is open, and not on that of a search.
LEMMA ReceiveKeeps == ASSUME LoginIInv, Receive PROVE LoginIInv'
<1> USE LoginAssumption DEF LoginIInv
<1>1. /\ "login" \in Clients /\ "broadcast" \in Clients
      /\ rev_thread \in [Clients -> {"null", "blocked", "ended"}]
  BY DEF Clients, LoginTypeOK
<1>2. ASSUME NEW c \in Clients, ReceiveOther(c) PROVE LoginIInv'
  <2>1. UNCHANGED <<next_listener, timer, ui, manager, sending, m_client, peer, bexit, loginHistory>>
    BY <1>2 DEF ReceiveOther
  <2>2. rev_thread' = [rev_thread EXCEPT ![c] = IF bexit[c] THEN "ended" ELSE "blocked"]
        /\ peer[c] # Everyone /\ rev_thread[c] = "blocked" /\ m_client[c] = "open"
    BY <1>2 DEF ReceiveOther, RunsOn, Receiving
  <2>3. /\ rev_thread' \in [Clients -> {"null", "blocked", "ended"}]
        /\ rev_thread'["broadcast"] = rev_thread["broadcast"]
             \/ (c = "broadcast" /\ rev_thread'[c] = IF bexit[c] THEN "ended" ELSE "blocked")
    BY <1>1, <2>2
  <2>4. LoginTypeOK' /\ Links' /\ Once' /\ Connected'
    BY <2>1, <2>3, LinksKept, OnceKept
       DEF LoginTypeOK, manager, sending, loginHistory, Connected
  <2>5. Blocked'
    <3>1. CASE rev_thread'["broadcast"] = rev_thread["broadcast"]
      BY <2>1, <3>1 DEF sending, Blocked
    <3>2. CASE c = "broadcast" /\ rev_thread'[c] = IF bexit[c] THEN "ended" ELSE "blocked"
      <4>1. peer["broadcast"] = Nil
        BY <2>2, <3>2 DEF Blocked
      <4>2. ~ bexit["broadcast"] => rev_thread'["broadcast"] = "blocked"
        BY <3>2
      <4>3. QED
        BY <2>1, <4>1, <4>2 DEF sending, Blocked
    <3>3. QED
      BY <2>3, <3>1, <3>2
  <2>6. QED
    BY <2>4, <2>5
<1>3. ASSUME NEW s \in Servers, NEW ok \in BOOLEAN, ReceiveReply(s, ok) PROVE LoginIInv'
  <2>1. UNCHANGED <<next_listener, timer, ui, isInsert, server_info, target, sending, m_client, peer,
                    bexit, searches, asked>>
    BY <1>3 DEF ReceiveReply, ManagerReceives
  <2>2. /\ cur_login_user' = IF ok /\ server_info # Nil THEN server_info ELSE cur_login_user
        /\ peer["login"] = s
        /\ accepted' = IF ok THEN accepted \cup {s} ELSE accepted
        /\ rev_thread' = [rev_thread EXCEPT !["login"] = IF bexit["login"] THEN "ended" ELSE "blocked"]
    BY <1>3 DEF ReceiveReply, ManagerReceives, RunsOn
  <2>3. /\ rev_thread' \in [Clients -> {"null", "blocked", "ended"}]
        /\ rev_thread'["broadcast"] = rev_thread["broadcast"]
    BY <1>1, <2>2
  <2>4. cur_login_user' \in Servers \cup {Offline} /\ accepted' \in SUBSET Servers
    BY <2>2 DEF LoginTypeOK
  <2>5. LoginTypeOK'
    BY <2>1, <2>3, <2>4 DEF LoginTypeOK, sending
  <2>6. Links' /\ Once' /\ Blocked'
    BY <2>1, <2>3, LinksKept, OnceKept DEF sending, Blocked
  <2>7. cur_login_user' # Offline => s \in accepted'
    BY <2>2 DEF Connected
  <2>8. Connected'
    BY <2>1, <2>2, <2>7 DEF Connected
  <2>9. QED
    BY <2>5, <2>6, <2>8
<1>4. QED
  BY <1>2, <1>3 DEF Receive

LEMMA LoginIInvNext == LoginIInv /\ [LoginNext]_loginVars => LoginIInv'
<1> SUFFICES ASSUME LoginIInv, [LoginNext]_loginVars PROVE LoginIInv'
  OBVIOUS
<1>1. CASE UNCHANGED loginVars
  <2> USE <1>1 DEF loginVars, manager, sending, sockets, loginHistory
  <2>1. LoginTypeOK'
    BY DEF LoginIInv, LoginTypeOK
  <2>2. Connected' /\ Blocked'
    BY DEF LoginIInv, Connected, Blocked
  <2>3. Links' /\ Once'
    BY LinksKept, OnceKept DEF LoginIInv
  <2>4. QED
    BY <2>1, <2>2, <2>3 DEF LoginIInv
<1>2. CASE UiStep \/ ExitStep
  BY <1>2, VerifyLoginKeeps, FindServerKeeps, ExitKeeps DEF UiStep
<1>3. CASE SenderStep
  BY <1>3, SenderKeeps, ToDoOperateKeeps, SendKeeps DEF SenderStep
<1>4. QED
  BY <1>1, <1>2, <1>3, TimerKeeps, ReceiveKeeps DEF LoginNext

\* Who is told, from the operator of a login on and from the manager on.
LEMMA ToldBehind ==
    ASSUME LoginIInv
    PROVE  /\ \A l \in Logins : target[l] # Nil => {Dialog, Screen} \subseteq Told(next_listener, l)
           /\ {Dialog, Screen} \subseteq Told(next_listener, Manager)
           /\ Cardinality(Told(next_listener, Manager) \cap Logins) <= 1
<1> USE LoginAssumption DEF LoginIInv
<1>1. /\ Manager \in Listeners /\ Dialog \in Listeners /\ Screen \in Listeners
      /\ Logins \subseteq Listeners /\ Nil \notin Listeners
      /\ Manager # Screen /\ Dialog # Screen
      /\ Manager \notin Logins /\ Dialog \notin Logins /\ Screen \notin Logins
  BY DEF Listeners, Manager, Dialog, Screen, Empty
<1>2. ASSUME NEW S \in SUBSET Listeners, Tells(next_listener, S), Dialog \in S PROVE Screen \in S
  BY <1>1, <1>2 DEF Links, Tells
<1>3. ASSUME NEW l \in Logins, target[l] # Nil,
             NEW S \in SUBSET Listeners, Tells(next_listener, S), l \in S
      PROVE  {Dialog, Screen} \subseteq S
  <2>1. Dialog \in S
    BY <1>1, <1>3 DEF Links, Tells
  <2>2. QED
    BY <1>2, <1>3, <2>1
<1>4. \A l \in Logins : target[l] # Nil => {Dialog, Screen} \subseteq Told(next_listener, l)
  BY <1>1, <1>3 DEF Told
<1>5. PICK first \in Listeners : first = next_listener[Manager]
  BY <1>1 DEF Links
<1>6. first = Dialog \/ (first \in Logins /\ target[first] # Nil)
  BY <1>5 DEF Links
<1>7. ASSUME NEW S \in SUBSET Listeners, Tells(next_listener, S), Manager \in S
      PROVE  {Dialog, Screen} \subseteq S
  <2>1. first \in S
    BY <1>1, <1>5, <1>7 DEF Tells
  <2>2. QED
    BY <1>2, <1>3, <1>6, <1>7, <2>1
<1>8. {Dialog, Screen} \subseteq Told(next_listener, Manager)
  BY <1>1, <1>7 DEF Told
<1>9. Told(next_listener, Manager) \cap Logins \subseteq {first}
  <2> DEFINE S == {Manager, first, Dialog, Screen}
  <2>1. S \in SUBSET Listeners /\ Manager \in S
    BY <1>1
  <2>2. Tells(next_listener, S)
    BY <1>1, <1>5, <1>6 DEF Tells, Links
  <2>3. Told(next_listener, Manager) \subseteq S
    BY <2>1, <2>2 DEF Told
  <2>4. QED
    BY <1>1, <2>3
<1>10. Cardinality(Told(next_listener, Manager) \cap Logins) <= 1
  <2>1. IsFiniteSet({first}) /\ Cardinality({first}) = 1
    BY FS_Singleton
  <2>2. QED
    BY <1>9, <2>1, FS_Subset
<1>11. QED
  BY <1>4, <1>8, <1>10

LEMMA LoginIInvHolds == LoginSpec => []LoginIInv
BY LoginInitIInv, LoginIInvNext, PTL DEF LoginSpec

\* However many logins are begun, the chain keeps the dialog and the screen
\* behind the operator of the last one (SocketReceiveListeningChannelList.java:20-34).
THEOREM ChainAlwaysKeepsScreen == LoginSpec => []ChainKeepsScreen
<1>1. LoginIInv => ChainKeepsScreen
  BY ToldBehind DEF LoginIInv, Links, ChainKeepsScreen
<1>2. QED
  BY LoginIInvHolds, <1>1, PTL

\* All requests go to the server of the first, each login sends at most one, and
\* who is on line was accepted by that server (UdpSendDoOperator.java:64-67).
THEOREM AllAlwaysAskOneServer == LoginSpec => []AllAskOneServer
<1>1. LoginIInv => AllAskOneServer
  BY DEF LoginIInv, Once, Connected, AllAskOneServer
<1>2. QED
  BY LoginIInvHolds, <1>1, PTL

\* After a search exit() never comes to its end: the receive thread it joins is
\* blocked on a socket that is closed later (UDPClient.java:133-145).
THEOREM SearchedIsNeverGone == LoginSpec => []SearchedNeverGone
<1>1. LoginIInv => SearchedNeverGone
  BY DEF LoginIInv, Blocked, SearchedNeverGone
<1>2. QED
  BY LoginIInvHolds, <1>1, PTL

\* The operation that starts the timer of a login is in the queue.
Queued(l) == \E k \in DOMAIN queue : queue[k] = [kind |-> "verify", login |-> l]
Timed(l) == target[l] # Nil /\ (timer[l] # Nil \/ Queued(l))

\* A timer is that of a login; the operation thread lives until exit() joins it.
TimersKept ==
    /\ \A l \in Logins : timer[l] # Nil => target[l] # Nil
    /\ ui \in {"idle", "loading", "close login"} => sender # "ended"
    /\ ui = "loading" => \E l \in Logins : Timed(l)

LEMMA TimersKeptNext == ASSUME LoginIInv, TimersKept, LoginNext PROVE TimersKept'
<1>0. /\ queue \in Seq(Operations) /\ target \in [Logins -> Servers \cup {Nil}]
      /\ timer \in [Logins -> 0..(MaxTimes + 1) \cup {Nil}]
      /\ MaxTimes \in Nat /\ Nil \notin Nat /\ Nil \notin Servers
  BY LoginAssumption DEF LoginIInv, LoginTypeOK
<1>1. ASSUME UNCHANGED <<target, timer, queue>>, ui' = "loading" => ui = "loading",
             ui' \in {"idle", "close login"} => ui \in {"idle", "loading", "close login"},
             sender' = "ended" => sender = "ended" \/ ui' \notin {"idle", "loading", "close login"}
      PROVE  TimersKept'
  BY <1>1 DEF TimersKept, Timed, Queued
<1>2. ASSUME NEW l \in Logins, NEW s \in Servers, VerifyLogin(l, s) PROVE TimersKept'
  <2> DEFINE o == [kind |-> "verify", login |-> l]
  <2>1. o \in Operations
    BY DEF Operations
  <2>2. queue' = Append(queue, o)
    BY <1>2 DEF VerifyLogin
  <2> HIDE DEF o
  <2>3. Len(queue) + 1 \in DOMAIN queue' /\ queue'[Len(queue) + 1] = o
    BY <1>0, <2>1, <2>2
  <2>4. Queued(l)'
    BY <2>3 DEF Queued, o
  <2>5. /\ target' = [target EXCEPT ![l] = s] /\ s # Nil /\ timer' = timer
        /\ sender' = sender /\ ui = "idle" /\ ui' = "loading"
    BY <1>0, <1>2 DEF VerifyLogin
  <2>6. Timed(l)'
    BY <1>0, <2>4, <2>5 DEF Timed
  <2>7. QED
    BY <1>0, <2>5, <2>6 DEF TimersKept
<1>3. CASE FindServer
  <2> DEFINE o == [kind |-> "search"]
  <2>1. o \in Operations
    BY DEF Operations
  <2>2. queue' = Append(queue, o) /\ UNCHANGED <<target, timer, sender, ui>>
    BY <1>3 DEF FindServer, manager
  <2> HIDE DEF o
  <2>3. \A k \in DOMAIN queue : k \in DOMAIN queue' /\ queue'[k] = queue[k]
    BY <1>0, <2>1, <2>2
  <2>4. \A l \in Logins : Queued(l) => Queued(l)'
    BY <2>3 DEF Queued
  <2>5. QED
    BY <2>2, <2>4 DEF TimersKept, Timed
<1>4. CASE DestroyMain
  BY <1>1, <1>4 DEF DestroyMain, manager, sending, TimersKept
<1>5. CASE ExitStep
  BY <1>1, <1>5 DEF ExitStep, CloseLogin, JoinSender, CloseBroadcast, manager, sending
<1>6. CASE SenderWakes \/ SenderRests \/ SenderInterrupted
  BY <1>1, <1>6 DEF SenderWakes, SenderRests, SenderInterrupted, manager
<1>7. ASSUME VerifyToDoOperate \/ SearchToDoOperate \/ SendToDoOperate PROVE TimersKept'
  <2>1. /\ queue # <<>> /\ UNCHANGED <<target, sender, ui>>
        /\ \/ queue' = Tail(queue)
           \/ \E x : queue' = Append(Tail(queue), x)
    BY <1>7 DEF VerifyToDoOperate, SearchToDoOperate, SendToDoOperate, GetOperate, manager,
                SendDataInQueue
  <2>2. ASSUME NEW k \in DOMAIN queue, k # 1
        PROVE  k - 1 \in DOMAIN queue' /\ queue'[k - 1] = queue[k]
    <3>1. k \in 2..Len(queue) /\ Len(queue) \in Nat
      BY <1>0, <2>2
    <3>2. Tail(queue) \in Seq(Operations) /\ Len(Tail(queue)) = Len(queue) - 1
      BY <1>0, <2>1
    <3>3. k - 1 \in DOMAIN Tail(queue) /\ Tail(queue)[k - 1] = queue[k]
      BY <1>0, <2>1, <3>1, <3>2
    <3>4. CASE queue' = Tail(queue)
      BY <3>3, <3>4
    <3>5. ASSUME NEW x, queue' = Append(Tail(queue), x)
          PROVE  k - 1 \in DOMAIN queue' /\ queue'[k - 1] = queue[k]
      BY <3>1, <3>2, <3>3, <3>5
    <3>6. QED
      BY <2>1, <3>4, <3>5
  <2>3. ASSUME NEW l \in Logins, Queued(l), Head(queue) # [kind |-> "verify", login |-> l]
        PROVE  Queued(l)'
    <3>1. PICK k \in DOMAIN queue : queue[k] = [kind |-> "verify", login |-> l]
      BY <2>3 DEF Queued
    <3>2. k # 1
      BY <2>3, <3>1
    <3>3. QED
      BY <2>2, <3>1, <3>2 DEF Queued
  <2>4. CASE VerifyToDoOperate
    <3>1. Head(queue).kind = "verify"
      BY <2>4 DEF VerifyToDoOperate, GetOperate
    <3>2. timer' = [timer EXCEPT ![Head(queue).login] = IF @ = Nil THEN 0 ELSE @]
      BY <2>4 DEF VerifyToDoOperate
    <3>3. PICK m \in Logins : Head(queue) = [kind |-> "verify", login |-> m]
      <4>1. Head(queue) \in Operations
        BY <1>0, <2>1
      <4>2. QED
        BY <3>1, <4>1 DEF Operations
    <3>4. Timed(m) => Timed(m)'
      BY <1>0, <2>1, <3>2, <3>3 DEF Timed
    <3>5. ASSUME NEW l \in Logins, l # m, Timed(l) PROVE Timed(l)'
      <4>1. Head(queue) # [kind |-> "verify", login |-> l]
        <5>1. Head(queue).login = m
          BY <3>3
        <5>2. QED
          BY <3>5, <5>1
      <4>2. timer'[l] = timer[l]
        BY <1>0, <3>2, <3>3, <3>5
      <4>3. QED
        BY <2>1, <2>3, <3>5, <4>1, <4>2 DEF Timed
    <3>6. \A l \in Logins : timer'[l] # Nil => target'[l] # Nil
      <4>1. 1 \in DOMAIN queue /\ queue[1] = Head(queue)
        BY <1>0, <2>1
      <4>2. target[m] # Nil
        <5>1. LoginOf(queue[1]) = m
          BY <3>3, <4>1 DEF LoginOf
        <5>2. m # Nil
          BY LoginAssumption
        <5>3. QED
          BY <4>1, <5>1, <5>2 DEF LoginIInv, Once
      <4>3. \A l \in Logins : timer'[l] = timer[l] \/ l = m
        BY <1>0, <3>2, <3>3
      <4>4. QED
        BY <2>1, <4>2, <4>3 DEF TimersKept
    <3>7. QED
      BY <2>1, <3>4, <3>5, <3>6 DEF TimersKept
  <2>5. CASE SearchToDoOperate \/ SendToDoOperate
    <3>1. Head(queue).kind # "verify" /\ timer' = timer
      BY <2>5 DEF SearchToDoOperate, SendToDoOperate, GetOperate
    <3>2. \A l \in Logins : Head(queue) # [kind |-> "verify", login |-> l]
      BY <3>1
    <3>3. QED
      BY <2>1, <2>3, <3>1, <3>2 DEF TimersKept, Timed
  <2>6. QED
    BY <1>7, <2>4, <2>5
<1>8. ASSUME NEW l \in Logins, Count(l) PROVE TimersKept'
  <2>1. timer' = [timer EXCEPT ![l] = timer[l] + 1] /\ UNCHANGED <<target, queue, sender, ui>>
        /\ timer[l] \in 0..MaxTimes
    BY <1>8 DEF Count, manager, sending
  <2>2. timer[l] # Nil
    BY <1>0, <2>1
  <2>3. \A m \in Logins : timer'[m] = Nil <=> timer[m] = Nil
    BY <1>0, <2>1, <2>2
  <2>4. QED
    BY <2>1, <2>3 DEF TimersKept, Timed, Queued
<1>9. ASSUME NEW l \in Logins, GiveUp(l) PROVE TimersKept'
  <2>1. timer[l] # Nil
    BY <1>0, <1>9 DEF GiveUp
  <2>2. target[l] # Nil
    BY <2>1 DEF TimersKept
  <2>3. Screen \in Told(next_listener, l)
    BY <2>2, ToldBehind
  <2>4. ui' # "loading" /\ UNCHANGED <<target, queue, sender>> /\ (ui' = ui \/ ui = "loading")
    BY <1>9, <2>3 DEF GiveUp, ScreenReceives, manager, sending
  <2>5. timer' = [timer EXCEPT ![l] = Nil]
    BY <1>9 DEF GiveUp
  <2>6. \A m \in Logins : timer'[m] # Nil => timer[m] # Nil
    BY <1>0, <2>5
  <2>7. QED
    BY <2>4, <2>6 DEF TimersKept
<1>10. CASE Receive
  BY <1>1, <1>10 DEF Receive, ReceiveOther, ReceiveReply, ManagerReceives, manager, sending
<1>11. QED
  BY <1>2, <1>3, <1>4, <1>5, <1>6, <1>7, <1>8, <1>9, <1>10 DEF LoginNext, UiStep, SenderStep, TimerStep

\* While the dialog of a login shows, the timer that puts it away runs or is going
\* to be started by a thread that lives: for any number of logins, in whatever
\* order their operations and answers come (ResendDoOperator.java).
THEOREM DialogIsAlwaysTimed == LoginSpec => []DialogIsTimed
<1>1. LoginInit => TimersKept
  BY DEF LoginInit, TimersKept
<1>2. LoginIInv /\ TimersKept /\ [LoginNext]_loginVars => TimersKept'
  <2>1. CASE UNCHANGED loginVars
    BY <2>1 DEF loginVars, manager, sending, TimersKept, Timed, Queued
  <2>2. QED
    BY <2>1, TimersKeptNext
<1>3. TimersKept => DialogIsTimed
  BY DEF TimersKept, Timed, Queued, DialogIsTimed
<1>4. QED
  BY <1>1, <1>2, <1>3, LoginIInvHolds, PTL DEF LoginSpec

\* No answer puts the dialog of a login away while the screen lives, only the
\* timer of a login that gives up (UDPClient.java:83-86).
THEOREM OnlyTimeoutEverEndsLogin == LoginSpec => OnlyTimeoutEndsLogin
<1> DEFINE Given == \E l \in Logins : timer[l] = MaxTimes + 1 /\ timer'[l] = Nil
           Away == ui = "loading" /\ ui' = "idle" => Given
<1>1. LoginIInv /\ [LoginNext]_loginVars => [Away]_loginVars
  <2> SUFFICES ASSUME LoginIInv, LoginNext, ui = "loading", ui' = "idle" PROVE Given
    OBVIOUS
  <2> USE DEF sending, manager, sockets, loginHistory
  <2>1. CASE UiStep \/ ExitStep
    BY <2>1 DEF UiStep, VerifyLogin, FindServer, DestroyMain, ExitStep, CloseLogin, JoinSender,
                CloseBroadcast
  <2>2. CASE SenderStep
    BY <2>2 DEF SenderStep, SenderWakes, SenderRests, SenderInterrupted, VerifyToDoOperate,
                SearchToDoOperate, SendToDoOperate
  <2>3. CASE Receive
    BY <2>3 DEF Receive, ReceiveOther, ReceiveReply, ManagerReceives
  <2>4. CASE TimerStep
    <3>1. PICK l \in Logins : Count(l) \/ GiveUp(l)
      BY <2>4 DEF TimerStep
    <3>2. GiveUp(l)
      BY <3>1 DEF Count
    <3>3. timer[l] = MaxTimes + 1 /\ timer'[l] = Nil
      BY <3>2 DEF GiveUp, LoginIInv, LoginTypeOK
    <3>4. QED
      BY <3>3
  <2>5. QED
    BY <2>1, <2>2, <2>3, <2>4 DEF LoginNext
<1>2. QED
  BY LoginIInvHolds, <1>1, PTL DEF LoginSpec, OnlyTimeoutEndsLogin

=============================================================================
