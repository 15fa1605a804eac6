---------------------------- MODULE LoginVerify ----------------------------
(***************************************************************************)
(* How the Android client logs in and out: ClientManager, the chain of     *)
(* receive listeners, one ResendDoOperator with its timer per login, the   *)
(* two UDPClients (login port and broadcast port) with their receive       *)
(* threads, the operation thread all of them post to, and the screen that  *)
(* shows a dialog while a login runs.  Datagrams are lost, doubled and     *)
(* late: a server that was asked answers any number of times.  The module  *)
(* begins when MainActivity.onCreate has returned.                         *)
(***************************************************************************)
EXTENDS Naturals, FiniteSets, Sequences, SequencesExt

CONSTANTS Logins,       \* one for each verify_login()
          Servers,      \* addresses the user logs in at
          Everyone,     \* 255.255.255.255
          Nil, Offline,
          MaxTimes,     \* the ticks a timer counts before it gives up
          MaxSearches   \* bound on find_server()

Clients == {"login", "broadcast"}
Manager == "client_listener"
Dialog == "broadcast_rev_listener"
Screen == "listener"
Empty == "EmptySocketReceiveListening"
Listeners == {Manager, Dialog, Screen, Empty} \cup Logins

ASSUME LoginAssumption ==
    /\ {Nil, Everyone, Offline} \cap (Servers \cup Logins) = {}
    /\ Nil # Everyone /\ Nil \notin Listeners \cup Nat
    /\ Logins \cap {Manager, Dialog, Screen, Empty} = {}
    /\ MaxTimes \in Nat /\ MaxSearches \in Nat

VARIABLES next_listener,  \* the chain, one link per listener
          isInsert, server_info, cur_login_user,
          target,         \* target[l]: the server login l is meant for
          timer,          \* timer[l]: reverify_times, Nil without a timer
          queue,          \* operations posted to m_threadSend
          sender,         \* m_threadSend: "waiting" | "working" | "ended"
          m_client,       \* each client's socket: "null" | "open" | "closed"
          peer,           \* whom the socket is connected to
          rev_thread,     \* "null" | "blocked" in receive() | "ended"
          bexit,
          ui,             \* what the UI thread is doing
          searches,
          asked,          \* history: requests sent, in order
          accepted        \* history: servers that accepted a login

manager == <<isInsert, server_info, cur_login_user, target>>
sending == <<queue, sender>>
sockets == <<m_client, peer, rev_thread, bexit>>
loginHistory == <<searches, asked, accepted>>
loginVars == <<next_listener, timer, ui, manager, sending, sockets, loginHistory>>

Operations == [kind : {"verify"}, login : Logins]
         \cup [kind : {"search"}]
         \cup [kind : {"send"}, client : {"login"}, to : Servers, login : Logins, usable : BOOLEAN]
         \cup [kind : {"send"}, client : {"broadcast"}, to : {Everyone}, login : {Nil}, usable : BOOLEAN]

LoginTypeOK ==
    /\ next_listener \in [Listeners -> Listeners \cup {Nil}]
    /\ isInsert \in BOOLEAN
    /\ server_info \in Servers \cup {Nil}
    /\ cur_login_user \in Servers \cup {Offline}
    /\ target \in [Logins -> Servers \cup {Nil}]
    /\ timer \in [Logins -> 0..(MaxTimes + 1) \cup {Nil}]
    /\ queue \in Seq(Operations)
    /\ sender \in {"waiting", "working", "ended"}
    /\ m_client \in [Clients -> {"null", "open", "closed"}]
    /\ peer \in [Clients -> Servers \cup {Everyone, Nil}]
    /\ rev_thread \in [Clients -> {"null", "blocked", "ended"}]
    /\ bexit \in [Clients -> BOOLEAN]
    /\ ui \in {"idle", "loading", "close login", "exit sender", "close broadcast", "gone"}
    /\ searches \in 0..MaxSearches
    /\ asked \in Seq(Logins \X Servers)
    /\ accepted \subseteq Servers

\* SearchServerDialog's constructor has linked the first two listeners.
LoginInit ==
    /\ next_listener = [x \in Listeners |-> CASE x = Manager -> Dialog
                                              [] x = Dialog -> Screen
                                              [] OTHER -> Nil]
    /\ isInsert = FALSE /\ server_info = Nil /\ cur_login_user = Offline
    /\ target = [l \in Logins |-> Nil]
    /\ timer = [l \in Logins |-> Nil]
    /\ queue = <<>> /\ sender = "waiting"
    /\ m_client = [c \in Clients |-> "null"]
    /\ peer = [c \in Clients |-> Nil]
    /\ rev_thread = [c \in Clients |-> "null"]
    /\ bexit = [c \in Clients |-> FALSE]
    /\ ui = "idle"
    /\ searches = 0 /\ asked = <<>> /\ accepted = {}

-----------------------------------------------------------------------------
(* The chain.  A listener that is handed over is new, its own link is null,*)
(* so the recursion of SetOnSocketReceiveListening ends after one call.    *)

SetTwoFurther(next, x, new) ==
    IF next[x] = Nil
    THEN [next EXCEPT ![x] = new]
    ELSE LET second == next[next[x]]
         IN  [next EXCEPT ![x] = new,
                          ![new] = IF second = Nil THEN Nil ELSE next[second]]

SetOnSocketReceiveListening(next, x, new) ==
    IF next[x] = Nil
    THEN [next EXCEPT ![x] = new]
    ELSE [next EXCEPT ![x] = new, ![new] = next[next[x]]]

InsertOnSocketReceiveListening(next, x, new) ==
    [next EXCEPT ![x] = new, ![new] = next[x]]

\* RevData(): the listeners that are told, the first of them x; each tells the
\* next, but for the screen, whose receive_data returns false for the answer
\* to a login.
Tells(next, S) == \A y \in S \ {Screen} : next[y] # Nil => next[y] \in S
Told(next, x) ==
    {y \in Listeners : \A S \in SUBSET Listeners : x \in S /\ Tells(next, S) => y \in S}

\* Whatever comes, parsed or not, the screen puts the dialog away.
ScreenReceives(told) == IF ui = "loading" /\ Screen \in told THEN "idle" ELSE ui

-----------------------------------------------------------------------------
(* UDPClient.                                                              *)

\* UDPClientInit(): the port may be taken, then nothing is made.
UDPClientInit(c) ==
    \/ /\ m_client[c] # "open"
       /\ m_client' = [m_client EXCEPT ![c] = "open"]
       /\ peer' = [peer EXCEPT ![c] = Nil]
       /\ rev_thread' = [rev_thread EXCEPT ![c] = IF @ = "null" THEN "blocked" ELSE @]
       /\ UNCHANGED bexit
    \/ UNCHANGED sockets

\* The receive thread has come back from receive() and from the listener.
RunsOn(c) ==
    rev_thread' = [rev_thread EXCEPT ![c] = IF bexit[c] THEN "ended" ELSE "blocked"]

Receiving(c) == rev_thread[c] = "blocked" /\ m_client[c] = "open"

\* A datagram from anyone while the socket is not connected, or the port
\* unreachable after a send: nothing is parsed, the thread goes round.
ReceiveOther(c) ==
    /\ Receiving(c)
    /\ peer[c] # Everyone
    /\ RunsOn(c)
    /\ UNCHANGED <<next_listener, timer, ui, manager, sending, m_client, peer, bexit, loginHistory>>

\* RevData instead: down the chain, the operator stops its timer and the
\* screen puts the dialog away.
ManagerRevData(ok) ==
    LET told == Told(next_listener, Manager)
    IN  /\ cur_login_user' = IF ok /\ server_info # Nil THEN server_info ELSE cur_login_user
        /\ timer' = [l \in Logins |-> IF l \in told THEN Nil ELSE timer[l]]
        /\ ui' = ScreenReceives(told)
        /\ UNCHANGED next_listener

\* The listener's receive_data, and nothing down the chain.
ManagerReceives(ok) ==
    /\ cur_login_user' = IF ok /\ server_info # Nil THEN server_info ELSE cur_login_user
    /\ UNCHANGED <<next_listener, timer, ui>>

\* Server s answers a login request it was sent, at any time and again.
ReceiveReply(s, ok) ==
    /\ Receiving("login")
    /\ peer["login"] = s
    /\ \E k \in DOMAIN asked : asked[k][2] = s
    /\ ManagerReceives(ok)
    /\ accepted' = IF ok THEN accepted \cup {s} ELSE accepted
    /\ RunsOn("login")
    /\ UNCHANGED <<isInsert, server_info, target, sending, m_client, peer, bexit, searches, asked>>

-----------------------------------------------------------------------------
(* The UI thread.                                                          *)

Chained(l) ==
    LET inserted == IF isInsert THEN next_listener
                    ELSE InsertOnSocketReceiveListening(next_listener, Manager, Empty)
    IN  SetOnSocketReceiveListening(inserted, Manager, l)

\* MainActivity._loginUser and ClientManager.verify_login.  The dialog takes
\* every key and touch, so nothing else is begun while it shows.
VerifyLogin(l, s) ==
    /\ ui = "idle"
    /\ target[l] = Nil
    /\ UDPClientInit("login")
    /\ ui' = "loading"
    /\ server_info' = s
    /\ target' = [target EXCEPT ![l] = s]
    /\ isInsert' = TRUE
    /\ next_listener' = Chained(l)
    /\ queue' = Append(queue, [kind |-> "verify", login |-> l])
    /\ UNCHANGED <<cur_login_user, timer, sender, loginHistory>>

FindServer ==
    /\ ui = "idle"
    /\ searches < MaxSearches
    /\ searches' = searches + 1
    /\ UDPClientInit("broadcast")
    /\ queue' = Append(queue, [kind |-> "search"])
    /\ UNCHANGED <<next_listener, timer, ui, manager, sender, asked, accepted>>

\* onDestroy: ClientManager.exit() begins with udp_client.UDPClientColse().
DestroyMain ==
    /\ ui \in {"idle", "loading"}
    /\ ui' = "close login"
    /\ bexit' = [bexit EXCEPT !["login"] = TRUE]
    /\ UNCHANGED <<next_listener, timer, manager, sending, m_client, peer, rev_thread, loginHistory>>

\* close() as the first thing: receive() throws and the thread ends.
CloseBeforeJoin(c) ==
    /\ m_client' = [m_client EXCEPT ![c] = IF @ = "open" THEN "closed" ELSE @]
    /\ rev_thread' = [rev_thread EXCEPT ![c] = IF @ = "blocked" THEN "ended" ELSE @]
    /\ UNCHANGED peer

\* rev_thread.join() comes before m_client.close().
JoinThenClose(c) ==
    /\ rev_thread[c] # "blocked"
    /\ m_client' = [m_client EXCEPT ![c] = IF @ = "open" THEN "closed" ELSE @]
    /\ UNCHANGED <<peer, rev_thread>>

CloseLogin ==
    /\ ui = "close login"
    /\ JoinThenClose("login")
    /\ ui' = "exit sender"
    /\ UNCHANGED <<next_listener, timer, manager, sending, bexit, loginHistory>>

\* m_threadSend.exit() has joined the thread.
JoinSender ==
    /\ ui = "exit sender"
    /\ sender = "ended"
    /\ ui' = "close broadcast"
    /\ bexit' = [bexit EXCEPT !["broadcast"] = TRUE]
    /\ UNCHANGED <<next_listener, timer, manager, sending, m_client, peer, rev_thread, loginHistory>>

CloseBroadcast ==
    /\ ui = "close broadcast"
    /\ JoinThenClose("broadcast")
    /\ ui' = "gone"
    /\ UNCHANGED <<next_listener, timer, manager, sending, bexit, loginHistory>>

-----------------------------------------------------------------------------
(* The operation thread m_threadSend, see WakeThread.                      *)

SenderWakes ==
    /\ sender = "waiting"
    /\ queue # <<>>
    /\ sender' = "working"
    /\ UNCHANGED <<next_listener, timer, ui, manager, queue, sockets, loginHistory>>

\* GetOperate() has found nothing.
SenderRests ==
    /\ sender = "working"
    /\ queue = <<>>
    /\ sender' = IF ui = "exit sender" THEN "ended" ELSE "waiting"
    /\ UNCHANGED <<next_listener, timer, ui, manager, queue, sockets, loginHistory>>

\* interrupt() ends the wait, also when something was just posted.
SenderInterrupted ==
    /\ ui = "exit sender"
    /\ sender = "waiting"
    /\ sender' = "ended"
    /\ UNCHANGED <<next_listener, timer, ui, manager, queue, sockets, loginHistory>>

\* UDPClient.SendDataInQueue: the socket is read now, the send comes later.
SendDataInQueue(c, to, l) ==
    queue' = Append(Tail(queue), [kind |-> "send", client |-> c, to |-> to, login |-> l,
                                  usable |-> m_client[c] # "null"])

GetOperate(kind) == sender = "working" /\ queue # <<>> /\ Head(queue).kind = kind

\* ResendDoOperator.ToDoOperate: the timer's task is made with no operator.
VerifyToDoOperate ==
    /\ GetOperate("verify")
    /\ LET l == Head(queue).login
       IN  /\ timer' = [timer EXCEPT ![l] = IF @ = Nil THEN 0 ELSE @]
           /\ SendDataInQueue("login", target[l], l)
    /\ UNCHANGED <<next_listener, ui, manager, sender, sockets, loginHistory>>

SearchToDoOperate ==
    /\ GetOperate("search")
    /\ SendDataInQueue("broadcast", Everyone, Nil)
    /\ UNCHANGED <<next_listener, timer, ui, manager, sender, sockets, loginHistory>>

ConnectAnew(c, to) == peer' = [peer EXCEPT ![c] = to]

\* Connected at the first send and never again: bneed_connect is always true.
ConnectOnce(c, to) == peer' = [peer EXCEPT ![c] = IF @ = Nil THEN to ELSE @]

\* UdpSendDoOperator.ToDoOperate; the last disjunct is an IOException of send().
SendToDoOperate ==
    /\ GetOperate("send")
    /\ LET o == Head(queue)
       IN  \/ /\ o.usable /\ m_client[o.client] = "open"
              /\ ConnectOnce(o.client, o.to)
              /\ asked' = IF o.login = Nil THEN asked
                          ELSE Append(asked, <<o.login, peer'[o.client]>>)
           \/ /\ ~ (o.usable /\ m_client[o.client] = "open")
              /\ UNCHANGED <<peer, asked>>
           \/ /\ o.usable /\ m_client[o.client] = "open"
              /\ ConnectOnce(o.client, o.to)
              /\ UNCHANGED asked
    /\ queue' = Tail(queue)
    /\ UNCHANGED <<next_listener, timer, ui, manager, sender, m_client, rev_thread, bexit,
                   searches, accepted>>

-----------------------------------------------------------------------------
(* The timer thread of a ResendDoOperator, each second.                    *)

CountAndResend(l) ==
    /\ timer[l] \in 0..MaxTimes
    /\ timer' = [timer EXCEPT ![l] = @ + 1]
    /\ queue' = Append(queue, [kind |-> "verify", login |-> l])
    /\ UNCHANGED <<next_listener, ui, manager, sender, sockets, loginHistory>>

Count(l) ==
    /\ timer[l] \in 0..MaxTimes
    /\ timer' = [timer EXCEPT ![l] = @ + 1]
    /\ UNCHANGED <<next_listener, ui, manager, sending, sockets, loginHistory>>

\* The failure it makes up goes to the listeners behind its own.
GiveUp(l) ==
    /\ timer[l] = MaxTimes + 1
    /\ timer' = [timer EXCEPT ![l] = Nil]
    /\ ui' = ScreenReceives(Told(next_listener, l))
    /\ UNCHANGED <<next_listener, manager, sending, sockets, loginHistory>>

-----------------------------------------------------------------------------

UiStep ==
    \/ \E l \in Logins, s \in Servers : VerifyLogin(l, s)
    \/ FindServer
    \/ DestroyMain

ExitStep == CloseLogin \/ JoinSender \/ CloseBroadcast

SenderStep ==
    \/ SenderWakes \/ SenderRests \/ SenderInterrupted
    \/ VerifyToDoOperate \/ SearchToDoOperate \/ SendToDoOperate

TimerStep == \E l \in Logins : Count(l) \/ GiveUp(l)

Receive ==
    \/ \E c \in Clients : ReceiveOther(c)
    \/ \E s \in Servers, ok \in BOOLEAN : ReceiveReply(s, ok)

LoginNext == UiStep \/ ExitStep \/ SenderStep \/ TimerStep \/ Receive

\* Threads that can run do run, and timers tick; no user, no server and no
\* network owes the program anything.
LoginSpec ==
    /\ LoginInit
    /\ [][LoginNext]_loginVars
    /\ WF_loginVars(SenderStep)
    /\ WF_loginVars(ExitStep)
    /\ \A l \in Logins : WF_loginVars(Count(l) \/ GiveUp(l))

-----------------------------------------------------------------------------

\* Each login puts its operator at the head of the chain in the place of the
\* one before; the dialog and the screen stay behind it, in this order, and
\* the chain ends there (SocketReceiveListeningChannelList.java:20-34).
ChainKeepsScreen ==
    /\ LoginTypeOK
    /\ \A l \in Logins : target[l] # Nil => {Dialog, Screen} \subseteq Told(next_listener, l)
    /\ {Dialog, Screen} \subseteq Told(next_listener, Manager)
    /\ next_listener[Screen] = Nil
    /\ Cardinality(Told(next_listener, Manager) \cap Logins) <= 1

\* The socket is connected at the first send and stays so: every request of
\* every login goes to one server, whatever server the user has chosen since,
\* and goes there once, since ResendDoOperator's timer sends nothing again; and
\* the user is on line only when that server has accepted
\* (UdpSendDoOperator.java:64-67, ResendDoOperator.java:57-62, 126,
\* ClientManager.java:93-112).
AllAskOneServer ==
    /\ \A k \in DOMAIN asked : asked[k][2] = peer["login"]
    /\ \A j, k \in DOMAIN asked : asked[j][1] = asked[k][1] => j = k
    /\ cur_login_user # Offline => peer["login"] \in accepted

\* A search leaves the broadcast socket connected to 255.255.255.255, from
\* where nothing comes: its receive thread never returns from receive(), and
\* exit() waits for it for ever (UDPClient.java:133-145).
SearchedNeverGone == peer["broadcast"] # Nil => ui # "gone"

\* What puts the dialog of a login away, while the screen lives, is the
\* failure made up by the login's own timer, never a server's answer: the
\* answer is not passed down the chain (UDPClient.java:83-86).
OnlyTimeoutEndsLogin ==
    [][ui = "loading" /\ ui' = "idle" =>
           \E l \in Logins : timer[l] = MaxTimes + 1 /\ timer'[l] = Nil]_loginVars

\* As long as the dialog of a login shows, a timer runs that will put it away,
\* or the operation that starts one is queued for a thread that lives: no answer
\* and no other login's end stops the last of them before (ResendDoOperator.java).
DialogIsTimed ==
    ui = "loading" =>
      \E l \in Logins :
        /\ target[l] # Nil
        /\ \/ timer[l] # Nil
           \/ /\ sender # "ended"
              /\ \E k \in DOMAIN queue : queue[k] = [kind |-> "verify", login |-> l]

\* The dialog of a login does go away, whatever is lost.
LoginEnds == ui = "loading" ~> ui # "loading"

=============================================================================
