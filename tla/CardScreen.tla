----------------------------- MODULE CardScreen -----------------------------
(***************************************************************************)
(* The card screen of the Android client used off line: VeriryActivity,    *)
(* the OfflineClientUser behind it, the database proxy MyBaseDataProxy     *)
(* with its operation thread and its three kinds of operators, the queue   *)
(* of the main looper in which their answers wait, the AutoAlertDialog that*)
(* asks whether to leave, and the scanner that writes the card number.     *)
(* The module begins when onCreate has returned; onDestroy followed by     *)
(* onCreate of the same intent, as after a rotation, works on the same user*)
(* object.                                                                 *)
(***************************************************************************)
EXTENDS Naturals, Sequences, SequencesExt

CONSTANTS Cards, None,
          Times,        \* ticks an AutoAlertDialog counts down
          MaxPosts,     \* bound on the operations posted
          MaxSessions,  \* bound on the times the screen is created
          MaxDialogs,   \* bound on the presses of BACK
          MaxDeeds      \* bound on the two together

ASSUME ScreenAssumption ==
    /\ None \notin Cards
    /\ Times \in Nat /\ MaxPosts \in Nat /\ MaxDialogs \in Nat
    /\ MaxSessions \in Nat \ {0} /\ MaxDeeds \in Nat

VARIABLES screen,       \* "open" | "finishing" | "leaving" in onDestroy | "gone" | "crashed"
          again,        \* leaving to be created again
          session,      \* times onCreate has run
          camera,       \* the scanner is at work
          mdb,          \* the database: "null" | "open" | "closed"
          thread,       \* operateWakeThread: "new" | "waiting" | "working" | "ended"
          listOperate,  \* its operators
          table,        \* the cards in tlVeriryCardUser
          messages,     \* the main looper: answers and dismissals not handled yet
          typed,        \* the card number in the field
          shown,        \* the card verify_confirm_dialog is about, or None
          showing,      \* the AutoAlertDialog on the screen, or 0
          owner,        \* owner[d]: the session of dialog d's activity, or 0
          countdown,    \* countdown[d]: ticks left of dialog d's timer, None without one
          leaked,       \* dialogs that were on a screen when it was destroyed
          posted,       \* history: number of operators posted
          answered,     \* history: number of operators that sent a message
          overtyped,    \* history: the field changed while a card was verified, or
                        \* was scanned behind the dialog of a verified one
          calm          \* history: nothing was under way when onDestroy began

activity == <<screen, again, session, camera>>
database == <<mdb, thread, table>>
dialogs == <<showing, owner, countdown, leaked>>
view == <<typed, shown>>
history == <<posted, answered, overtyped, calm>>
vars == <<activity, database, dialogs, view, listOperate, messages, history>>

Kinds == {"regist", "verify", "recycle"}
Operators == [kind : Kinds, card : Cards, session : 1..MaxSessions]
Messages == [kind : Kinds, card : Cards, suc : BOOLEAN, session : 1..MaxSessions]
            \cup [kind : {"dismiss"}, dialog : 1..MaxDialogs]

TypeOK ==
    /\ screen \in {"open", "finishing", "leaving", "gone", "crashed"}
    /\ again \in BOOLEAN /\ session \in 1..MaxSessions /\ camera \in BOOLEAN
    /\ mdb \in {"null", "open", "closed"}
    /\ thread \in {"new", "waiting", "working", "ended"}
    /\ listOperate \in Seq(Operators) /\ messages \in Seq(Messages)
    /\ table \subseteq Cards
    /\ typed \in Cards /\ shown \in Cards \cup {None}
    /\ showing \in 0..MaxDialogs /\ leaked \subseteq 1..MaxDialogs
    /\ owner \in [1..MaxDialogs -> 0..MaxSessions]
    /\ countdown \in [1..MaxDialogs -> 0..Times \cup {None}]
    /\ posted \in 0..MaxPosts /\ answered \in 0..posted
    /\ overtyped \in BOOLEAN /\ calm \in BOOLEAN

\* openOrCreateDatabase may throw; the thread is started only when it did not.
Init ==
    /\ screen = "open" /\ again = FALSE /\ session = 1 /\ camera = TRUE
    /\ \/ mdb = "open" /\ thread = "waiting"
       \/ mdb = "null" /\ thread = "new"
    /\ listOperate = <<>> /\ messages = <<>>
    /\ table \in SUBSET Cards
    /\ typed \in Cards /\ shown = None
    /\ showing = 0 /\ leaked = {}
    /\ owner = [d \in 1..MaxDialogs |-> 0]
    /\ countdown = [d \in 1..MaxDialogs |-> None]
    /\ posted = 0 /\ answered = 0 /\ overtyped = FALSE /\ calm = FALSE

-----------------------------------------------------------------------------
(* The user, before the screen.  A dialog takes every touch and key, the   *)
(* confirm dialog also those of an AutoAlertDialog it comes up over.  The  *)
(* scanner it does not stop.                                               *)

\* Until it is destroyed the screen takes touches, also when it is finishing.
Alive == screen \in {"open", "finishing"}

FreeAnytime == shown = None /\ showing = 0
FreeBehindDialog == Alive /\ showing = 0

Free == Alive /\ shown = None /\ showing = 0

\* A verification was asked for whose answer has not been handled.
Verifying == \/ \E i \in DOMAIN listOperate : listOperate[i].kind = "verify"
             \/ \E i \in DOMAIN messages : messages[i].kind = "verify"

\* The user types a card number.
Type(c) ==
    /\ Free
    /\ typed' = c
    /\ overtyped' = (overtyped \/ (c # typed /\ Verifying))
    /\ UNCHANGED <<activity, database, dialogs, shown, listOperate, messages, posted,
                   answered, calm>>

\* A barcode was decoded: its text goes into the field, whatever dialog is in
\* front of it, and the camera is closed.
Scan(c) ==
    /\ Alive /\ camera
    /\ camera' = FALSE
    /\ typed' = c
    /\ overtyped' = (overtyped \/ (c # typed /\ (Verifying \/ shown # None)))
    /\ UNCHANGED <<screen, again, session, database, dialogs, shown, listOperate, messages,
                   posted, answered, calm>>

\* The scan button opens the camera again.
OpenScan ==
    /\ Free /\ ~ camera
    /\ camera' = TRUE
    /\ UNCHANGED <<screen, again, session, database, dialogs, view, listOperate, messages,
                   history>>

\* PostExecSql: true whether there is a thread or not.
PostExecSql(kind) ==
    /\ posted < MaxPosts /\ posted < MaxDeeds
    /\ \A d \in 1..MaxDialogs : countdown[d] # None => posted + d < MaxDeeds
    /\ posted' = posted + 1
    /\ listOperate' = Append(listOperate,
           [kind |-> kind, card |-> typed, session |-> session])

CommitRegist ==
    /\ Free
    /\ PostExecSql("regist")
    /\ UNCHANGED <<activity, database, dialogs, view, messages, answered, overtyped, calm>>

CommitVerify ==
    /\ Free
    /\ PostExecSql("verify")
    /\ UNCHANGED <<activity, database, dialogs, view, messages, answered, overtyped, calm>>

\* The confirm dialog's two buttons; the card deleted is the one in the field.
Confirm ==
    /\ Alive /\ shown # None
    /\ shown' = None
    /\ UNCHANGED <<activity, database, dialogs, typed, listOperate, messages, history>>

Recycle ==
    /\ Alive /\ shown # None
    /\ shown' = None
    /\ PostExecSql("recycle")
    /\ UNCHANGED <<activity, database, dialogs, typed, messages, answered, overtyped, calm>>

-----------------------------------------------------------------------------
(* AutoAlertDialog: "sure to log out?".                                    *)

\* BACK: a new dialog with a new timer.
Back ==
    /\ Free
    /\ \E d \in 1..MaxDialogs :
           /\ countdown[d] = None /\ \A e \in 1..d - 1 : countdown[e] # None
           /\ posted + d <= MaxDeeds
           /\ showing' = d
           /\ owner' = [owner EXCEPT ![d] = session]
           /\ countdown' = [countdown EXCEPT ![d] = Times]
    /\ UNCHANGED <<activity, database, leaked, view, listOperate, messages, history>>

Finish == screen' = IF screen = "open" THEN "finishing" ELSE screen

InFront == Alive /\ showing # 0 /\ shown = None

PressOk ==
    /\ InFront
    /\ Finish
    /\ showing' = 0
    /\ UNCHANGED <<again, session, camera, database, owner, countdown, leaked, view,
                   listOperate, messages, history>>

\* The lines that would cancel the timer, were they not commented out.
PressCancelAndStop ==
    /\ InFront
    /\ showing' = 0
    /\ countdown' = [countdown EXCEPT ![showing] = 0]
    /\ UNCHANGED <<activity, database, owner, leaked, view, listOperate, messages, history>>

PressCancel ==
    /\ InFront
    /\ showing' = 0
    /\ UNCHANGED <<activity, database, owner, countdown, leaked, view, listOperate, messages,
                   history>>

\* A tick of the timer.  The last one calls onClick with the OK button, on the
\* timer's thread: the activity is finished, which does nothing to one that is
\* destroyed, and a dialog that was not put away is dismissed by the UI thread.
Tick(d) ==
    /\ screen # "crashed"
    /\ countdown[d] \in 1..Times
    /\ countdown' = [countdown EXCEPT ![d] = @ - 1]
    /\ IF countdown[d] = 1
       THEN /\ IF owner[d] = session THEN Finish ELSE UNCHANGED screen
            /\ messages' = IF showing = d \/ d \in leaked
                           THEN Append(messages, [kind |-> "dismiss", dialog |-> d])
                           ELSE messages
       ELSE UNCHANGED <<screen, messages>>
    /\ UNCHANGED <<again, session, camera, database, showing, owner, leaked, view, listOperate,
                   history>>

\* The scanner's timer finishes a screen that is left alone.
Inactive ==
    /\ camera
    /\ screen = "open" /\ Finish
    /\ UNCHANGED <<again, session, camera, database, dialogs, view, listOperate, messages,
                   history>>

-----------------------------------------------------------------------------
(* The operation thread of MyBaseDataProxy, see WakeThread.                *)

Wake ==
    /\ thread = "waiting" /\ listOperate # <<>>
    /\ thread' = "working"
    /\ UNCHANGED <<activity, mdb, table, dialogs, view, listOperate, messages, history>>

Rest ==
    /\ thread = "working" /\ listOperate = <<>>
    /\ thread' = IF screen = "leaving" THEN "ended" ELSE "waiting"
    /\ UNCHANGED <<activity, mdb, table, dialogs, view, listOperate, messages, history>>

\* The interrupt of exit() finds the thread in wait().
Interrupted ==
    /\ screen = "leaving" /\ thread = "waiting"
    /\ thread' = "ended"
    /\ UNCHANGED <<activity, mdb, table, dialogs, view, listOperate, messages, history>>

SilentWhenAbsent(o) == o.kind # "recycle" \/ o.card \in table

\* Which operators send a message: all of them, once they were executed.
\* (execSql that finds no database returns false, ExecSqlOperator then sends
\* nothing; but the thread runs only with a database.)
Answers(o) == mdb # "null" \/ o.kind # "regist"

\* What the statement comes to at best: the card number is unique; a row is found
\* by its number, if the password is right; a DELETE succeeds also without a row.
Done(o) ==
    CASE o.kind = "regist"  -> o.card \notin table
      [] o.kind = "verify"  -> o.card \in table
      [] o.kind = "recycle" -> TRUE

\* The message goes to the handler that was bound when o was made.
Answer(o, done) == [kind |-> o.kind, card |-> o.card, suc |-> done, session |-> o.session]

\* ToDoOperate of ExecSqlOperator, SelectSqlDoOperator, DeleteSqlDoOperator;
\* any statement may throw instead, and a password may be wrong.
ToDoOperate ==
    /\ thread = "working" /\ listOperate # <<>>
    /\ LET o == Head(listOperate)
       IN  \E done \in {FALSE, mdb = "open" /\ Done(o)} :
              /\ table' = IF ~ done \/ o.kind = "verify" THEN table
                          ELSE IF o.kind = "regist" THEN table \cup {o.card}
                          ELSE table \ {o.card}
              /\ IF Answers(o)
                 THEN /\ messages' = Append(messages, Answer(o, done))
                      /\ answered' = answered + 1
                 ELSE UNCHANGED <<messages, answered>>
    /\ listOperate' = Tail(listOperate)
    /\ UNCHANGED <<activity, mdb, thread, dialogs, view, posted, overtyped, calm>>

-----------------------------------------------------------------------------
(* The UI thread: answers, the end of the screen, the screen made again.   *)

\* The looper handles messages but while the UI thread is in onDestroy.
NextMessage ==
    /\ messages # <<>>
    /\ screen \in {"open", "finishing", "gone"}
    /\ messages' = Tail(messages)

\* handleMessage.  A positive verification shows the confirm dialog, which
\* the screen that asked cannot do once it is destroyed.
HandleMessage ==
    /\ NextMessage
    /\ LET m == Head(messages)
       IN  /\ m.kind \in Kinds
           /\ IF ~ (m.kind = "verify" /\ m.suc) THEN UNCHANGED <<screen, shown>>
              ELSE IF m.session = session /\ screen # "gone"
              THEN shown' = m.card /\ UNCHANGED screen
              ELSE screen' = "crashed" /\ UNCHANGED shown
    /\ UNCHANGED <<again, session, camera, database, dialogs, typed, listOperate, history>>

\* Dialog.dismiss() for the timer: it throws when the window was closed with
\* the screen, and does nothing when the dialog was put away meanwhile.
Dismiss ==
    /\ NextMessage
    /\ Head(messages).kind = "dismiss"
    /\ LET d == Head(messages).dialog
       IN  /\ showing' = IF showing = d THEN 0 ELSE showing
           /\ screen' = IF d \in leaked THEN "crashed" ELSE screen
    /\ UNCHANGED <<again, session, camera, database, owner, countdown, leaked, view,
                   listOperate, history>>

\* onDestroy, after finish() or for a rotation, up to join() in exit(); the
\* camera was closed by onPause.
Destroy(rotation) ==
    /\ \/ ~ rotation /\ screen = "finishing"
       \/ rotation /\ screen = "open" /\ session < MaxSessions
    /\ screen' = "leaving"
    /\ again' = rotation
    /\ camera' = FALSE
    /\ calm' = (/\ listOperate = <<>> /\ messages = <<>> /\ thread # "working"
                /\ showing = 0 /\ leaked = {} /\ ~ rotation)
    /\ UNCHANGED <<session, database, dialogs, view, listOperate, messages, posted,
                   answered, overtyped>>

\* loginOut with the database closed before the thread is waited for.
CloseAtOnce ==
    /\ screen = "leaving" /\ mdb = "open"
    /\ mdb' = "closed"
    /\ UNCHANGED <<activity, thread, table, dialogs, view, listOperate, messages, history>>

\* stop(): exit() has joined the thread, then the database is closed.  The
\* confirm dialog is removed; the window of an AutoAlertDialog is closed with the
\* screen, and its timer goes on.  The screen is gone, or onCreate runs and
\* start() with it: start() of the thread object a second time throws.
LogOut ==
    /\ screen = "leaving"
    /\ thread \in {"new", "ended"}
    /\ shown' = None /\ showing' = 0
    /\ leaked' = leaked \cup ({showing} \ {0})
    /\ again' = FALSE
    /\ IF ~ again
       THEN /\ screen' = "gone" /\ mdb' = IF mdb = "open" THEN "closed" ELSE mdb
            /\ UNCHANGED <<session, camera, thread>>
       ELSE /\ session' = session + 1 /\ camera' = TRUE
            /\ \/ mdb' = "null" /\ screen' = "open" /\ UNCHANGED thread
               \/ /\ mdb' = "open"
                  /\ IF thread = "new" THEN screen' = "open" /\ thread' = "waiting"
                     ELSE screen' = "crashed" /\ UNCHANGED thread
    /\ UNCHANGED <<table, owner, countdown, typed, listOperate, messages, history>>

-----------------------------------------------------------------------------

User ==
    \/ \E c \in Cards : Type(c) \/ Scan(c)
    \/ OpenScan \/ CommitRegist \/ CommitVerify \/ Confirm \/ Recycle
    \/ Back \/ PressOk \/ PressCancel \/ Inactive
    \/ Destroy(TRUE)

Thread == screen # "crashed" /\ (Wake \/ Rest \/ Interrupted \/ ToDoOperate)

Looper == HandleMessage \/ Dismiss \/ Destroy(FALSE) \/ LogOut

Next == User \/ Thread \/ Looper \/ \E d \in 1..MaxDialogs : Tick(d)

\* The threads of the program run and the timers tick; the user owes nothing.
Spec ==
    /\ Init
    /\ [][Next]_vars
    /\ WF_vars(Thread)
    /\ WF_vars(Looper)
    /\ \A d \in 1..MaxDialogs : WF_vars(Tick(d))

-----------------------------------------------------------------------------

\* The thread is joined before the database is closed: a statement that is
\* executed finds it open (MyBaseDataProxy.java:332-338).
WorksOnOpenDatabase ==
    /\ TypeOK
    /\ thread \in {"waiting", "working"} => mdb = "open"

\* A screen that is left for good when nothing it asked for is under way and no
\* AutoAlertDialog is or was left on it is gone quietly, though the timers of the
\* dialogs that were put away go on.  (One made again on the same user object
\* dies in start(), one left while a verification runs may die of the answer, and
\* one that is finished while a dialog shows, by an earlier dialog's timer or by
\* the scanner's, dies of that dialog's own timer.)
CalmLeaveIsSafe == calm => screen # "crashed"

\* Whoever is asked "sure to log out?" will be logged out, CANCEL or not: the
\* timer goes on behind the dialog and presses OK (AutoAlertDialog.java:61-79,
\* 139-153), which ends the screen that asked.
BackEndsScreen ==
    (\E d \in 1..MaxDialogs : owner[d] = session /\ countdown[d] \in 1..Times)
      ~> screen # "open"

\* No operator and no answer is lost on the way: what was posted was answered or
\* waits in listOperate, and a screen that is open on an open database has a
\* thread that will come to it (MyBaseDataProxy.java, PostExecSql).
NoneLost ==
    /\ posted = answered + Len(listOperate)
    /\ screen = "open" /\ mdb = "open" => thread \in {"waiting", "working"}

\* With its database open, a screen that stays is told the outcome of every
\* operator it posted.
PostIsAnswered ==
    \A n \in 1..MaxPosts :
        posted >= n /\ mdb = "open" ~> answered >= n \/ screen # "open"

\* What the button of the dialog deletes is the card it shows, though it is
\* read from the field: the dialog keeps the user from the field.  Only a card
\* that is typed or scanned while another is being verified, or scanned behind
\* the dialog, which nothing prevents, is deleted in its place
\* (VeriryActivity.java:976-981, 1316-1320).
RecyclesTheShownCard ==
    [][posted' > posted /\ shown # None =>
         Last(listOperate').card = shown \/ overtyped]_vars

=============================================================================
