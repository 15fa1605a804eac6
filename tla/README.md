# A TLA+ model of the VIP verification server and its client

The repository holds two programs that work together.

* **The server**, `src/VerifyServer`: a Windows service in C++. It accepts TCP
  connections on port 8020 through an I/O completion port, cuts the byte stream of
  each connection into packets, and hands the packets to two further completion
  ports whose threads are to handle the requests.
* **The client**, `src/VIPVerify`: an Android application in Java. It finds the
  server by UDP (ports 3601 and 3602), logs in, keeps cards in a local database
  while it is offline and moves them to the server when it is on line.

This directory models the parts of both whose correctness depends on the order in
which threads, messages and failures meet. Every definition is translated from the
source; `map` in `PROJECT.json` names the lines each one stands for. TLC checks the
models on small instances, and TLAPS proves the main safety properties for every
value of the constants.

The directory is described in this order: the inventory of the system, the modules,
the runs, the proofs, what is left out, and the plan for the modules to come.


## 1. Inventory

### 1.1 Server

| component | state | operations | used by |
|---|---|---|---|
| Memory pool `CMemPool` (`IOCompletePort/MemAlloctor`) | free and busy lists of `CMem` blocks, two vectors of blocks made, one critical section | `NewMem`, `DeleteMem`, `_initMemBuf`; called by `operator new` and `operator delete` of overlapped objects | every thread that makes an overlapped object |
| Completion port `CIOCompletePort` (`IOCompletePort/IOCompletePort`) | the port's handle, `m_hVecThread`, the queue inside Windows | `CreateCompletePort`, `IOCompletePortPost`, thread procedure, `DestroyCompletePort` | receivers of packets |
| Packet parser (`CTcpServer::SaveData`) | `tmpBuf` and `tmpHeadBuf` of an `IO_CONTEXT` | `SaveData`, `GetPacketLen` | `ProcessReceive` |
| TCP server `CTcpServer` (`socket/tcpserver/TcpServer`) | map from connection id to `SOCKET_CONTEXT`, free lists of `SOCKET_CONTEXT`s and `IO_CONTEXT`s, sockets, worker threads | `Start`, the worker procedure, `PostAccept`, `PostReceive`, `PostSend`, `Send`, `SendEx`, `Disconnect`, `Stop` | `AppEntity`; it calls the receiver back |
| Receivers (`ThreadSocketRecevier`, `AppEntity`) | the number of the next port, two completion ports, the objects of the application | `Recevie`, construction and destruction | the worker threads of the TCP server |
| Statement queue `CDBSqlManager` (`DataBase/DBSqlManager`) | queue of statements, event, running flag, thread handle | `OpenStack`, `ExecSqlInStack`, `CloseStack`, thread procedure; `Open`, `Close`, `ExecSql` go to SQLite | no caller of the statement queue in the repository; the manager is owned by `AppEntity` |
| Use count `CUseCount` (`common/UseCount`) | a counter on the heap shared by handles | construction, copy, `Reattach`, `Makeonly`, `Only`, destruction | handles of shared objects |
| Windows service (`Service`, `ServiceAppMain`, `Operater`) | status reported to Windows, id of the work thread | start, control handler, install, remove | Windows; `WinAppMain` returns at once |
| UDP socket (`socket/UdpSocket`) | socket, stop flag, receive thread | `Start`, `Stop`, receive thread | the stub `CClientManager`, which nothing constructs |
| Requests (`NetSocketDataParse`, `ClientManager`) | none: bodies are stubs | | receivers |
| Growing buffer, files, arguments, encrypter | local | | several |

Interaction: a packet goes TCP server → `SaveData` → `Recevie` → one of two
completion ports → a worker that operates and deletes the object. Everything between
the network and the handler is a call on a worker thread of the TCP server; the only
queues are the completion ports. Shared state is protected by one critical section
per list, never by one lock over two of them, and several readers take no lock at
all. This makes the server hard to test: most of its hazards need one thread to stop
between two short critical sections.

What makes each part correct:

* memory pool: a block has one owner; no block is lost; a block holds its object; the
  pool does not grow beyond its use; a call comes back;
* completion port: what was posted is operated and deleted, also when the port is
  destroyed; the port is not closed under a thread; the destruction ends;
* packet parser: the packets delivered are those sent, in order, however they were cut,
  and the listener is told the length of each;
* TCP server: no `IO_CONTEXT` or `SOCKET_CONTEXT` serves two masters or none; clients
  always find an accept waiting; data go to the connection they belong to; a client
  that leaves is noticed; `Stop` ends and leaves no connection open;
* statement queue: statements run once and in order, none is forgotten, no node is
  used after it was deleted;
* use count: a shared object lives as long as a handle and is deleted once;
* receivers: a packet goes to a port that exists, and the object posted is alive when
  the port's thread operates it;
* service: a stop reaches the work thread, Windows learns that the service has
  stopped, and a reinstallation ends and leaves the service installed.

### 1.2 Client

| component | state | operations | used by |
|---|---|---|---|
| Operation thread (`WakeThread`, `OperateWakeThread`) | list of operations, wake-up flag, interrupt status | `postOperate`, `wakeUp`, `wake`, `run`, `exit` | UDP client, database proxy |
| Packet parser (`TcpStreamPack`) | partial packet, partial header | `AnalyzePack` and friends | TCP client socket |
| Resending operator (`ResendDoOperator`) | a timer, a counter, the listeners | `ToDoOperate`, `RevData`, the timer's task | `ClientManager` |
| Chain of listeners (`SocketReceiveListeningChannelList`) | a linked list | `Set`, `Insert`, `Remove`, `RevData` | `ClientManager`, dialogs, operators |
| UDP client (`UDPClient`) | sockets, receive thread, send thread, exit flag | `init`, `Send`, receive loop, `UDPClientColse` | `ClientManager` |
| Local database (`MyBaseDataProxy`, SQL operators) | database, its operation thread | `start`, `stop`, `PostExecSql` | the offline user |
| Users and manager (`ClientManager`, `OnlineClientUser`, `OfflineClientUser`) | the current user, server address, log-in state | `find_server`, `verify_login`, register, verify, recycle | screens |
| Card screen (`VeriryActivity`, `AutoAlertDialog`) | the fields, the scanner, two kinds of dialogs and their timers, the queue of the main looper | commit, recycle, scan, BACK, `onCreate`, `onDestroy` | the user |
| JSON, screens, preferences | local | | |

Interaction: screens call the manager on the user-interface thread; the manager
posts operations to an operation thread; replies arrive on a receive thread, which
calls the first listener of a chain directly. Timers run on a thread of their own.
What is hard here: which listener hears a reply, timers that race with replies,
threads that are started, stopped and started again, and the change of the current
user on the receive thread.

What makes each part correct: the operation thread loses no wake-up and keeps the
order; the parser cuts the stream as the server's does; each request is answered
once, by a reply or by a failure; close ends the threads; no statement meets a closed
database; what the screen shows is what it works on; whoever posted an operation
hears of its outcome; a user is on line only when the server accepted.

`PROJECT.json` lists every hazard met in the code at the line where it bites, with
the properties that cover it, or the reason why none does.

### 1.3 Vendored code

ZXing, SQLite, cJSON, omnithread and the OpenSSL headers are not modelled.


## 2. Modules

| module | models | refined by / composed with |
|---|---|---|
| `OperateQueue` | what a thread of operations promises: one at a time, in order, none lost | implemented by `WakeThread` |
| `WakeThread` | `WakeThread.java`, `OperateWakeThread.java` | `ImplementsQueue` is the refinement |
| `ObjectMemory` | what `operator new` and `operator delete` promise: a block holds the object and is nobody else's | implemented by `MemPool` |
| `MemPool` | `MemAlloctor.cpp` | `ImplementsMemory` is the refinement |
| `ObjectPort` | what a port promises to those who post: objects served in order, each operated and deleted once, drained of what came in time | implemented by `CompletePort` |
| `CompletePort` | `IOCompletePort.cpp`, `IOCompletePortOperate.cpp` | `ImplementsPort` is the refinement |
| `FrameStream` | what a parser of packets promises: the packets of the stream, in order, none early, none kept back | implemented by `PacketStream` and `TcpStreamPack` |
| `PacketStream` | `SaveData`, `GetPacketLen` of `TcpServer.cpp` | the bytes of a `READ` in `TcpServer`; `ImplementsFrames` is the refinement |
| `TcpServer` | the rest of `TcpServer.cpp` | |
| `SqlStack` | the statement queue of `DBSqlManager.cpp` | |
| `UseCount` | `UseCount.cpp` | |
| `ReceiverPorts` | `ThreadSocketRecevier.cpp`, the end of `AppEntity.cpp` | each of its ports is what `ObjectPort` promises; called by `TcpServer`'s workers |
| `ServiceControl` | `Service.cpp` | |
| `LoginVerify` | `ClientManager`, the chain of listeners, `ResendDoOperator`, `UDPClient`, the dialog of `MainActivity` | composes them; its sender is an operation thread as in `WakeThread` |
| `CardScreen` | `VeriryActivity`, `AutoAlertDialog`, `OfflineClientUser`, `MyBaseDataProxy` and its operators | composes them; its thread is an operation thread as in `WakeThread` |
| `TcpStreamPack` | `TcpStreamPack.java` as `AnalyzeTcpNetData` calls it | the client's counterpart of `PacketStream`; `ImplementsStream` is the refinement |

`MCx` instantiates module `x` for TLC; `xProofs` holds its theorems. Four proof modules
hold those of a second model besides: `TcpServerProofs` those of `ReceiverPorts`, whose
threads are the workers of the TCP server; `CardScreenProofs` those of `LoginVerify`, the
other screen of the client; `ServiceControlProofs` those of `SqlStack`, the other thread
that the service's application is to own; and `PacketStreamProofs` those of
`TcpStreamPack`, since both parsers implement `FrameStream`.

### 2.1 WakeThread

`bwakeup` is the flag of `WakeThread.java`, `listOperate` the list of
`OperateWakeThread.java`, `wpc` the place of the thread. A `synchronized` block is
one action. `PostOperate(p, o)` adds to the list; `WakeUp(p)`, a step later, sets
the flag and notifies: between the two the thread may do anything, which is what
makes a lost wake-up conceivable. `Woken` covers all three ways out of `wait()`
(notified, interrupted, spurious). `Thread` is the loop of `run()` with `wake()`,
`myRun()` and `GetOperate()`. An operation may itself post one (`Child`), as
`ResendDoOperator` does. An operation that throws ends the thread
(`OperateThrows`). `exit()` is `Exit` (interrupt and wake) and `Join`.

`posted` and `executed` are history variables.

### 2.2 MemPool

`m_listFreeMem`, `m_listBusyMem`, `m_vecMemBuf` and `m_bFree` of each block are the
code's. A call is an action that begins it (`CallNew`, `CallDelete`) and one for the whole
body inside the critical section. Blocks are taken first fit.

A `CMem` is 10 KB whatever it is made for: `m_byte` is an array of `nTenKB` bytes
(`MemAlloctor.h:40`), and the constructor only writes down, and clears, the number of
bytes it is given. So every block holds `nTenKB`. A `CMem` for a larger object clears its
own fields and what lies behind it in the heap (`Overrun`): what follows is undefined, and
the behaviour ends there. No class of the repository is that large (an `IO_CONTEXT` has a
little more than 1 KB), so that the fault is latent.

`new CMem` may throw (`NewThrows`), and so may each `push_back` (`GrowThrows`,
`ReuseThrows`, `DeleteThrows`), by when the block is on no list any more or not yet
(`lost`). The handlers of the code do not leave the section, so that it stays entered
(`lock`) by the thread whose call threw; the section is recursive.

`ObjectMemory` knows nothing of lists: a thread asks (`New`), and is given a block nobody
has (`Give`) or none (`Fail`); it keeps the block until it gives it back (`Delete`,
`Free`), and no step changes the size of a block that somebody has. The mapping: what a
thread wants is the size of the call it is in, what it owns are its objects and the block
it is giving back, and a block's size is `nTenKB`.

### 2.3 CompletePort

`packets` is the queue inside Windows, first in, first out; whichever thread waits
gets the next packet. `GetObject`, `GetExit`, `Operate` and `Delete` are the
thread procedure. `CreateThread` may fail for any thread. `DestroyBegin`,
`PostExit`, `WaitForBatch` and `ClosePort` are `DestroyCompletePort`: exit packets
for a batch of at most `MaxWait` handles, a wait for exactly these handles, then
the next batch. Posters go on posting until the port is closed.

`ObjectPort` leaves out which worker does what: it has a number of threads, the queue, the
objects in hand and those deleted, those posted in time (`owed`) and the number of threads
that were told to leave. `Take` and `Leave` need a thread with nothing to do, `Close` that
all have left and, once one was told to, that nothing owed is left. The batches, the
handles and the places of the threads are the implementation's.

### 2.4 PacketStream

A byte is its position in the stream, so a buffer is a position and a length, and
"torn" marks bytes put together that did not follow each other. A packet is the
position where it begins; `frameLen` gives the length in its header. `SaveData`
calls itself on the rest of a buffer: each call is a step.

When a packet is whole its content goes through `MultiByteToWideChar`, which counts UTF-16
units, and the listener gets the bytes as they came with this count as their length
(`TcpServer.cpp:1034-1038` and `1063`; `REV_UNICODE` is not defined). `units` is the count
of each packet, the null behind the content included: one more than the bytes of plain
text, and too few when a character has several bytes, whose end is then cut off.
`HandOver` passes the count on (`told`); that the count is the wrong one for such a
content is what the code does and is not a property. A content with a null inside, whose
count would end there, is not modelled. What `GetPacketLen` reads where no packet begins
is any length of `JunkLens`, or nothing. `RecycledContext` gives the `IO_CONTEXT` to a new
connection as the code does: without clearing `tmpBuf` and `tmpHeadBuf`. If they held
something, the connection is `dirty`.

`FrameStream` is the abstract parser: a frame is where it begins, where it ends and what
the listener is told of it; `Give` hands over the next whole one, bytes arrive (`Arrive`)
only when the parser `waits`, and no step may leave it waiting with a whole packet not
handed over (`NoneKept`). The mapping: a packet sent is where it begins and ends and its
units (`SentFrames`), one handed over is the piece of the stream it was made of and the
length told (`GivenFrames`, a torn one being no packet), the parser waits when `SaveData`
has returned, and a `dirty` connection is excused.

### 2.5 TcpServer

`packets` is the completion port's queue (requests for an accept, disconnections,
exit packets, completions), `kernel` the operations under way in Windows, `wk` each
worker with its locals. Every critical section is a step of its own, so that
`FindSocketContext` (`FindSocketContext`), the erase from the map (`Erase`) and the
return of the context to the free list (`PushFree`) are three steps of one worker
with anything in between. `holds` is what a `SOCKET_CONTEXT` holds; a read from a
deleted one may give anything (`Read`). The free lists are cut to their pool size
when they exceed their hold size (`AddFree`). Operations complete in any order, with
data, with zero bytes, with an error, or aborted since their socket was closed.

`Stop` is `StopBegin` (closes the listening socket), `StopList` (walks the map
without the lock and posts DISCONNECTs), `StopWait` (up to 15 seconds: any length),
`StopExit` and `StopJoin` (exit packets and the end of the workers) and `StopDelete`.
Two outcomes are recorded as `stop = "undefined"`: the iterator standing on an erased
node, and the last loop, which never advances, when connections are left.

`left` is what the bounds still allow the environment. History variables: `overtaken` (a
connection was closed while a completion, another worker or a sender had it in hand),
`wrong` (what was mixed up), `unread` (connections whose first read could not be begun),
`lost` (accepts that could not be begun).

### 2.6 SqlStack

`m_sql_exec_queue`, `m_hEvent` and `m_bthreadRunning` are the code's. The thread
tests the queue without the lock (`Test`), waits, and takes (`Take`): it reads the
**back** of the queue and removes the **front**. `CloseStack` clears the flag, waits
up to five seconds (`Waited`, whether the thread has ended or not), and empties the
queue, again by its back and front. Taking from an empty queue and touching a
deleted node stop the model with `undefined`.

### 2.7 UseCount

Each `Interlocked` call is a step, and each plain read of the counter another; a read
of a deleted counter may give anything. `Release` and `Destroyed` are the destructor,
`Reattach`, `Exchange` and `Reattached` are `Reattach`, `FindsOne`, `FindsMore` and
`Split` are `Only` and `Makeonly`. A handle is used by one thread, and other threads
may copy it while it rests.

### 2.8 ReceiverPorts

`Recevie` is the path of one TCP worker: the object is made, posted (`m_nCurPort` is
read here, before the lock), the lock is taken, `m_nCurPort` is compared and advanced
in two steps, the lock is left and the object destroyed. An object is known by the
thread on whose stack it lives, since that is all that matters of it. A port is a
queue and the objects its threads have in hand: it does what `ObjectPort` allows a port.
`Closes`, `EndsPort`, `DeletesPort` and `DeletesReceiver` are `~CAppEntity` and
`~CThreadSocketRecevier`, which come before the destruction of the TCP server. The
destruction of a port begins with `EndsPort`, which counts what is queued (`owed`) and
still has to be taken; objects posted later go to the end of a queue that nobody empties,
and `DeletesPort` drops them. `undefined` stops the model when a port, the receiver
or the object posted is gone.

### 2.9 ServiceControl

`pc` and `arg` are the place of the three threads of the service, `g_srvstatus` the global
all of them write. `ReportStatus` is three steps, as in the code: what is accepted, what
is recorded in the global, and `SetServiceStatus` with whatever the global holds by then,
which may fail. `scm` and `entry` are the service manager's side. `StopsService` to
`InstallService` are `ReinstallService` in another process. Each of its calls may fail.
`RemoveService` then returns before it has done anything (`OpenFails`), deletes the
service as it runs (`ControlFails`), leaves the loop that waits for the end while the stop
is pending (`QueryFails`, `Service.cpp:591`), or leaves the entry (`DeleteFails`);
`InstallService` returns without an entry of its own (`InstallFails`). `overlap`,
`stopped`, `timedOut` and `callFailed` (one of the two failures that lose the entry) are
history variables.

### 2.10 LoginVerify

`next_listener` is the chain, `Told` the listeners `RevData` reaches from a place in
it; `timer` the `reverify_times` of each `ResendDoOperator`, `queue` and `sender` the
operation thread that both `UDPClient`s post to, `peer` the address a socket was
connected to, `rev_thread` and `bexit` the receive threads. `VerifyLogin` is
`_loginUser` and `verify_login` whole, with `UDPClientInit`, `Set` and `Insert`, and the
operation posted. A send is two operations, as in the code: `SendDataInQueue` looks at
the socket, the send comes later. `ReceiveReply` may happen any number of times and at
any time after a request: replies are lost, doubled and late. `exit()` is `Destroy`,
`CloseLogin`, `JoinSender` and `CloseBroadcast`, on the user-interface thread.

`asked` (requests sent, with the server they went to) and `accepted` are history
variables.

### 2.11 CardScreen

`typed` is the number in the field, `shown` the card of the dialog that confirms a
recycling, `listOperate` and `thread` the operation thread, `messages` what waits in the
main looper: answers, with the session they were asked in, and dismissals of dialogs.
`ToDoOperate` is each of the three operators: what it does to the table, and whether it
sends a message. A statement may always fail, which stands for a wrong password too.

A dialog takes every touch and key, but the scanner behind it goes on: `Scan` writes the
number of a barcode into the field whatever dialog shows (`handleDecodeInternally`,
`VeriryActivity.java:964-981`), after which the camera is closed until `OpenScan`. The
scanner's timer finishes a screen that is left alone (`Inactive`).

Each press of BACK makes an `AutoAlertDialog` with a timer of its own: `showing` is the one
on the screen, `owner` the session of the activity it finishes, `countdown` the ticks its
timer has left. Neither CANCEL nor `onDestroy` stops a timer. The last tick presses OK: it
finishes the activity, and posts a dismissal if the dialog was never put away. A dialog
that was up when the screen was destroyed (`leaked`) has lost its window, and its dismissal
crashes the application.

`Destroy` and `LogOut` are `onDestroy` and what it calls
(`stop` joins the thread and closes the database); with `again` the screen is made
once more on the same user, as after a rotation, and `start()` of a thread that has run
throws. `posted`, `answered`, `overtyped` and `calm` are history variables.

### 2.12 TcpStreamPack

A byte is its place in the stream, 0 a null byte, an array a sequence of them, so that a
packet put together from wrong bytes shows. `Streams` are the streams the server may send,
each as the places where its packets end (`ends`). `Read` is a read of any number of
bytes, `PackSave` one call of `_pack_save`: `BeginsPack`, `CutsPack`, `NoHead` and `Joins`
are its branches. `GetPackLen` looks for `S:` at the beginning of a buffer and reads a
length; bytes that are no length may be read as any of `MisreadLens` or as none. Two
things begin with `S:`: a packet, and a check code. The check code is a sum of bytes, sent
with its low byte first (`TcpStreamPack.java:81-89`), and the packets of `sums` have one
whose bytes are 53 3A, which is `S:`. A read that begins there is taken for the head of a
packet (`TcpStreamPack.java:163`), the rest of the packet that waits is dropped or cut at
a length read from the packet behind (`misled`).

The arrays keep the length they have in
the code, with the zeros behind the data, since the code takes lengths from them.
`pack_list` are the packets one call of the parser has found, `received` those handed to
the listener when it ends. `pieces`, `thrice` (a packet was not whole after two reads),
`misled` (a read of a header's length or more began at such a check code) and
`alone` (packets that were one read each) are history variables. `Spoilt` is
`thrice \/ misled`.

What the model takes from the server, which sends what is read here: every whole packet is
valid JSON with a known `MagicID` and `TransitionID`, so that one cut out rightly is put
into the list; its content ends with `}`; its parameter is always 50
(`TcpServer.cpp:346`, `370`), so that the bytes behind the `S:` of a header are none; and
its length is less than 14931, whose bytes would be another `S:` (a read is at most
`MaxBuff`, 1024 bytes, and the array for cut packets 2048).

In `FrameStream` a packet counts as handed over when it is in `pack_list`, the parser
waits when the thread is about to read, and it is excused once it is `Spoilt`.


## 3. Runs

| run | question | distinct states |
|---|---|---|
| `wake_thread` | order, wake-up, exit and refinement with two racing posters | 5,295 |
| `mem_pool` | two threads, two sizes, failing allocation | 12,086 |
| `complete_port` | three workers ended two at a time, posters that never stop | 27,982 |
| `packet_stream` | every way to cut three packets of two contents; two connections in one context | 2,396,187 |
| `tcp_server` | what a serving server keeps hold of, is a client that leaves noticed, does `Stop` end | 364,569 |
| `sql_stack` | three statements, the stack opened twice: order, races, is the queue emptied | 644,509 |
| `use_count` | three handles, three counts | 237,001 |
| `receiver_ports` | is the port read without the lock one of the array | 1,882,205 |
| `service_control` | stop, report of the end, reinstallation with failing calls | 12,850 |
| `login_verify` | two logins, a search and the exit, with bad replies | 37,336 |
| `card_screen` | cards off line, which card is recycled, dialogs whose timers outlive CANCEL and the screen, leaving and rotation | 918,580 |
| `tcp_stream_pack` | every way to read two streams of three packets, one with an `S:` in its check code | 601,727 |

### 3.1 What they show

**wake_thread.** No wake-up is lost (`NoLostWakeup`): the flag keeps a notification
that comes between `GetOperate()` and `wait()`. `exit()` returns (`ExitReturns`).
That operations run in order, each once (`FifoOrder`), is proved; so is
`NeverSleepsAgain`, a property of the code that is easy to miss: the flag is cleared
only on the way out of `wait()`, so that a wake-up that finds the thread awake leaves
it looping without ever sleeping again. It is correct, and it burns a processor.
`ImplementsQueue` shows
the refinement of `OperateQueue`, with its fairness: as long as the thread lives (one
operation that throws ends it) an accepted operation is executed.

**mem_pool.** The pool implements `ObjectMemory` (`ImplementsMemory`): whatever goes round
between the two lists, a block that is given out holds the object and is nobody else's, and
stays so until its owner's `operator delete` is done. It has no more blocks than its peak
use, those lost by a `push_back` that threw left out (`PoolBoundedByPeak`). The proofs add
that a block has one owner and is busy (`OneOwner`) and that the lists share the blocks out
(`ListsPartition`). `CallsReturn` holds unless an allocation threw
inside the critical section: then every other thread waits for ever. All of it is said of
the program until a block is made for an object of more than 10 KB.

**complete_port.** The port implements `ObjectPort` (`ImplementsPort`), that is, to those
who post: objects are taken in order, each once, never more of them at a time than there
are threads; the port is closed under nobody, and drained of what was posted in time
unless no worker was left to take an exit packet. The last two are proved as invariants
of the port too (`ClosedAfterWorkers`, `DrainedWhenClosed`). The
destruction returns when one batch holds all threads (`DestroyReturns`). With more
threads than a batch (64 in the code) it can hang: a thread of a later batch takes an
exit packet meant for the first, and `HangNeedsLaterBatch` says that this is the only
way. The constructor starts 20 threads on a port and `ThreadSocketRecevier` 2n + 2 more
on a machine of n processors, so that a second batch exists from 22 processors on.

**packet_stream.** On clean buffers `SaveData` implements `FrameStream`
(`ImplementsFrames`): it hands over the packet that is next in the stream, never before
its last byte has come, tells the listener the units of this packet's content and of no
other, takes none back, and returns only when no whole packet is left. The bytes of each
are put together whole; how many of them the listener reads is another matter, since the
units are fewer than the bytes when the text is not plain. That the packets put together
are exactly those sent (`PacketsInOrder`) and nothing complete is kept back
(`NothingLeftBehind`) are consequences, proved from the same invariant; that no byte is
thrown away (`DropNeedsLeftOver`) is proved too. The proviso `~ dirty` is the finding of
this model: an `IO_CONTEXT` goes to its next connection with the half packet of the last
one, and that connection may lose or mix packets.

**tcp_server.** `OneIOOwner` and `AcceptsKept` hold without any proviso but for the
accepts the code counts as lost when `AcceptEx` itself fails. `NoMixUp`, that no
completion meets another connection's data and the contexts of the map, the free list
and the workers are apart, holds unless a connection is closed while something else has
it in hand. The
proviso is exact enough to be useful: with it the model has behaviours in which two
closers return one `SOCKET_CONTEXT` twice, so that two later connections share it.

`PeerCloseNoticed`: a connection whose client is gone leaves the
map, unless its first read could not be begun (the code frees the `IO_CONTEXT` and
keeps the connection for ever).

`Stop` ends, in the sense that each of its waits does (`StopEnds`). Connections it finds
at its end are none of those it had posted a DISCONNECT for, and when it returns, no
connection is open (`LeftCameLate`). All four safety properties are proved for any number
of workers, connections and contexts.

**sql_stack.** With one statement at a time in the queue, statements
are executed once and in order; with two, the last is executed and the first is lost,
and `InOrderUnlessCrowded` says that this, and a thread that outlives `CloseStack`, are
the only ways. `UndefinedNeedsRace` does the same for the two undefined outcomes, a
take from an empty queue and the use of a deleted node. A running stack does
not sleep on a statement (`QueueIsEmptied`).

**use_count.** A count that a handle shares is alive and right, and a handle told to be
the only one is (`SharedIsAlive`). Counts leak only when `Makeonly`
gives the last share back, and are deleted twice only when two handles stood between
decrement and read (`DeletedOnce`). That can happen, though `UseCount.h:9` says
that thread safety was added to the class: `~CUseCount` decrements (line 33) and reads
(line 34) in two steps, so that two threads that destroy the last two handles may both
read zero.

**receiver_ports.** However the workers of the TCP server overlap in `Recevie`, the index
that is read before the lock is taken is that of a port (`PortInRange`). What is done with
the object is undefined in every case, and the behaviour ends there: `MemAlloctor.cpp:186`
says that what `DeleteMem` is given is the buffer of a block, but `Recevie` posts the
address of a local variable, which the port's thread operates and deletes while `Recevie`
runs or when it has returned.

**service_control.** A stop that finds no thread to post itself to comes when `WinAppMain`
has returned (`StopFindsThread`), never too early: it is accepted when RUNNING was
reported, by when the id was saved. This rests on the order of the two in the work thread,
while another thread reads the id. When the work thread has ended, Windows holds the
service for stopped (`StoppedIsTold`), and `RemoveService` leaves its loop (`RemoveEnds`),
unless a control was handled during the last report or a report failed. `ReinstallService`
leaves the service installed (`ReinstallKeeps`) unless, besides, the stop was not answered
in time, `QueryServiceStatus` failed while it was waited for, or `InstallService` failed.
In these cases the entry may be lost: they are faults of the code, which removes the
service before it knows that it can install it. A `DeleteService` that fails does no
harm. The provisos are needed: the comment of
`Service.cpp:340` ("Tell the service manager that we've stopped.") is wrong when a
control overlaps the last report, as its handler overwrites the status the report is
about to send.

**login_verify.** What the code does, however replies are lost, doubled or late: the chain
keeps one operator, the dialog and the screen, in this order (`ChainKeepsScreen`); the
dialog of a login goes away (`LoginEnds`), but only ever by the failure that the timer
makes up (`OnlyTimeoutEndsLogin`), since the listener passes no answer down the chain;
every request goes to the server of the first one, since the socket is connected once,
and goes there once, since the timer's task is made without an operator to send again,
and only that server's acceptance puts a user on line (`AllAskOneServer`); and after
one search `exit()`, which `onDestroy` calls, never returns (`SearchedNeverGone`), since
it joins a thread that is blocked on a socket not closed yet. (BACK pressed twice ends the
process at once by `System.exit`, `MainActivity.java:519`, whatever `exit()` would do.)
These are properties of the code as
it is, each of them a consequence of two or more components together.

**card_screen.** A statement is executed on an open database only
(`WorksOnOpenDatabase`), and what was posted is answered as long as the screen stays
(`PostIsAnswered`). The dialog's button recycles the card in the field, which is the card
shown unless the field was changed while that card was being verified, or a barcode was
scanned behind the dialog (`RecyclesTheShownCard`): both provisos name real faults, the
deletion of a card that nobody verified.

A screen that is left for good with nothing under way, no dialog on it
and none left on an earlier screen does not crash, though the timers of the dialogs that
were put away go on (`CalmLeaveIsSafe`). With a verification under way, or made again after
a rotation, it can; and so it can when it is finished while a dialog shows, by the timer of
an earlier dialog or by the scanner's: the dialog's own timer then dismisses a window that
is gone. The dialog that asks whether to log out ends the screen that asked, also after
CANCEL (`BackEndsScreen`).

**tcp_stream_pack.** As long as every packet is whole after two reads and no read begins
at a check code that reads `S:`, the packets delivered are those sent, however reads cut
or join them, also within a header (`TwoPartsSuffice`), and the loop of the parser ends
(`ParseReturns`); a read that is exactly one packet is delivered whatever went wrong
before (`AloneIsReceived`). `ImplementsStream` says that the client's parser keeps the
server's promise, `FrameStream`, as long as that: what it puts in the list for the
listener is the next packet at every step inside a call, and not only when it reads again.
A packet of three reads breaks all but `AloneIsReceived`, which `PacketStream`, the
server's parser, does not suffer from; so does a read that begins at such a check code:
the packet it ends and the one behind it are lost though each came in two reads, and what
is left in `revNoFullPack` may make the loop return the same array for ever later on.

Every property has a mutant of the code in `PROJECT.json` (a dropped guard, a missing
reset, a swapped order) that TLC finds to violate it.

### 3.2 Bounds

* `wake_thread`: two posters and four operations, one posted by another. Two posters
  suffice for every pair of races (the code treats them alike), and three operations
  are needed to tell first-in-first-out from other orders.
* `mem_pool`: two threads (a third would only wait for the section), two sizes, one
  below and one above `nTenKB`; one initial block so that the pool must grow; at most
  three blocks, after which `new` throws, as it may before. Deadlock is not checked: a
  block that is overrun ends the behaviour.
* `complete_port`: batches of two and up to three threads, the smallest numbers with a
  second batch; three objects, one of which ends its worker.
* `packet_stream`: to scale: 4 bytes of overhead for 15, a length that can be read from
  the third byte for the eleventh, a receive buffer for two packets and the beginning of a
  third, a content of one plain byte or of two bytes that are one character. `MaxFrames` 3
  and `MaxConns` 2: an end of one packet, a whole one and the beginning of another in one
  piece, and one change of connection.
* `tcp_server`: two workers, two connections, one accept under way, so that a context
  is recycled. The hold sizes are as small as possible so that the lists are cut. What
  the environment does is bounded by a budget chosen in the initial state: a server that
  serves has two of a reply, a disconnection and a failing call of Windows, besides a
  piece of data and clients that may both leave; a server that is stopped has two
  connections, one of which the client may close. `Contexts` and `IOs` are the addresses
  that memory has for `SOCKET_CONTEXT`s and `IO_CONTEXT`s. They are assumed to be as many
  as the budgets can use, a context for each connection and an `IO_CONTEXT` for each
  accept, connection and reply: `new` does not fail.
* `sql_stack`: three statements and two threads, so that a thread that outlives
  `CloseStack` meets its successor. Statements not brought yet are alike, and so are
  those that wait to be pushed: of each, the one with the least number goes first.
* `use_count`: three handles and three counts: a count shared by all, and two splits.
* `receiver_ports`: three workers, one of which may stand between the comparison and the
  increment of the two others; two ports, as in the code; five packets, so that the
  ports are gone round twice and more.
* `service_control`: two controls, so that one overlaps the answer to the other or the last
  report; one failing report. Any call of `ReinstallService` may fail.
* `login_verify`: two logins at two servers, in either order and the second before or
  after the first has ended, and one search. The timer counts its five ticks.
* `card_screen`: two cards, so that one is typed or scanned over by the other; two
  sessions, that is one rotation; a countdown of one tick for
  five (what counts is whether CANCEL or the end of the screen comes before its end). Two
  operators are posted, so that the card of a verification is recycled, or two dialogs
  shown, so that the timer of the first runs while the second is up, but three of both
  together (`MaxDeeds`): a verification and a recycling with one dialog, or two dialogs
  with one operator under way.
* `tcp_stream_pack`: to scale: a header of 3 bytes for 10, 2 bytes behind the content for
  5, a read of up to 10 bytes (a packet of 7 and the header of the next), an array of two
  reads for cut packets as in the code. Three packets: one cut, one whole and one begun in
  a read; two streams, one of packets of the same length and one whose packets have
  contents of 1, 4 and 1 bytes, so that a length taken from the wrong packet is a wrong
  one. The check code of the first packet reads `S:`, so that two packets follow it.
  Misread lengths are too short for a packet, one, or too long. `MaxList` is the memory a
  list of packets has: the assumption that it holds the packets sent excludes no behaviour
  but those in which the phone runs out of memory on them alone, and a parser that returns
  the same array for ever still meets the bound.

Deadlock is checked in `wake_thread`. In the others a state without a
successor is a proper end: the clients, packets, objects, statements, controls, logins
or counts of the bound are used up and the program idles, the port is closed, the
screen or the application is gone, or the behaviour is undefined from there on.

### 3.3 Fairness

Weak fairness is assumed of threads that can run (the schedulers of Windows and of the
Java virtual machine keep running them) and of operations that Windows can complete
(`Finish` in `TcpServer`). Nothing forces a poster to post, a client to connect or leave,
an owner to call `exit()`, `DestroyCompletePort`, `Stop` or `CloseStack`, or an allocation
or a call of Windows to fail. In `WakeThread` a wait that has been notified or interrupted
ends; a spurious wake-up is possible and never assumed. In `MemPool` weak fairness of
entering the critical section is enough since the threads' calls are finite and no step
keeps the section but one that throws. In `CompletePort` and `TcpServer` each worker is
fair, but which worker takes a packet is not determined. In `LoginVerify` and `CardScreen`
the operation thread, the main looper, the exit under way and each timer are fair; no user
and no server owes anything. In `ServiceControl` the three threads and `ReinstallService`
are, but no call need fail, and in `TcpStreamPack` the thread that reads, once it has
begun to parse. `PacketStream`, `UseCount` and `ReceiverPorts` state no liveness and
assume no fairness.


## 4. Proofs

All theorems hold for every value of the constants that satisfies the `ASSUME` of
their module (any number of threads, posters, packets and any length), not only for
the bounds of the runs. Eight modules hold them. In each, an inductive invariant is
preserved by each action in a lemma of its own, and the theorem combines the steps
with temporal reasoning.

**WakeThreadProofs.** `TypeCorrect`; `OperationsRunInOrder` (`FifoOrder` is inductive
with `TypeOK`; the lemma `HandOver` shows that moving the head of one sequence to the
end of the other keeps their concatenation); `WakeupIsNotLost`. `NoLostWakeup` is not
inductive: it speaks only of the waiting thread, and says nothing about the flag of a
thread on its way there. The strengthening `WakeInv` says that wherever the thread can
reach `wait()` without looking at the list, an unattended operation finds the flag
set or an interrupt pending. `NoMoreSleep` proves the action property
`NeverSleepsAgain`. `ThreadImplementsQueue` proves the safety part of the refinement:
initial states map to initial states, and each step to a step of `OperateQueue` or a
stutter.

**MemPoolProofs.** `PoolTypeCorrect`, `NoSharedBlock`, `NoLostBlock` and
`PoolIsACache`. The invariant `IInv` adds to the properties what joins them: an owned
block is on the busy list, a block that is being deleted is not held any more, and the
busy list is no longer than `peak`. The lemmas `TailOnce` and `AppendOnce` say what `erase`
and `push_back` do to a list without repetitions. `PoolImplementsMemory` is the refinement
of `ObjectMemory`: the body of `NewMem` gives a block that is free or made anew, and hence
nobody's, to a call whose object it holds; or it throws, which is `Fail`; or it overruns
the block, which gives nothing and is the last step. That every block holds the object it
is given for is a matter of the size alone, which the refinement states: there is no
theorem of its own about it.

**CompletePortProofs.** `PortTypeCorrect`, `PortClosedAfterWorkers`, `PortDrained` and
`HangAlwaysNeedsLaterBatch`. The argument for `PortDrained` is the order of the port:
objects posted before the destruction stand before every exit packet (`ExitsLast`), so
that when a worker has left with an exit packet, all of them have been taken; and each is
in the queue, with a worker, or deleted (`EarlyKept`). `Progress` relates the owner's
place to the batches that have ended, `Known` says that only posted objects are about.
`HangAlwaysNeedsLaterBatch` rests on a count: an exit packet that was posted is in the
queue or has ended one worker (`Counted`). With an empty queue and no worker of a later
batch among those ended, they are exactly the workers up to the end of the batch.

`PortImplementsObjectPort` is the refinement of `ObjectPort`. It needs two facts that no
property of the port states: an object is in one place only (`OnePlace`), and the workers
that ended themselves with their object are as many as such objects deleted
(`OneLeftEach`). With them the lemma `Staff` shows that a worker that takes a packet is a
thread with nothing to do in the abstract port, which only counts threads.

**PacketStreamProofs.** Of the server's parser `StreamTypeCorrect`, `EveryPacketInOrder`,
`NoPacketKeptBack` and `OnlyLeftOversDrop`, for any packet length and any size of the
receive buffer. `Layout` says that packets follow each other without gaps in the stream;
`InPlace` says that the bytes of the stream from the end of the last packet delivered to
the last byte arrived are exactly, in this order, the partial packet, the kept beginning
and the buffer in hand. The length told is that of the packet put together, since its bytes
are those of one packet. `IInv` asks this of connections that are not `dirty`, and every
branch of `SaveData` keeps it.

Of the client's parser `TwoPartsAlwaysSuffice` and `AloneAlwaysReceived`, for any lengths
of packets, reads and misread lengths, and any packets with an `S:` in their check codes.
`InStream` says, as long as the stream is not `Spoilt`, that what was found are the first
packets of the stream, that a cut packet waits in `revNoFullPack` up to where `in_buf`
begins, and that it is whole in the read that follows (`CutOnce` joins the history of
reads to the place in the stream), and that no buffer long enough for a header begins at
such a check code (`NoHeadOfCode`). `AloneKept` follows a packet that came alone through
the loop and needs nothing of what came before. `EndsGrow` (the ends of packets grow from
one to any later one) would be an induction; it is proved instead by a least
counterexample, which `LeastNatural` takes from the well-foundedness of `<`.

`SaveDataImplementsFrames` and `PackImplementsFrames` are the refinements of `FrameStream`.
`FramesKept` and `StreamKept` show, from the invariants, that a parser that waits has no
whole packet left; the other lemmas map `ProcessReceive` and `Read` to `Arrive`, `Complete`
and the two branches that find a packet, `CutsPack` and `JoinsPack`, to `Give`, and each
other step to `Work`, or to `Send` or `Connect`.

**TcpServerProofs.** `AlwaysOneOwner`, `AlwaysAcceptsKept`, `AlwaysNoMixUp` and
`AlwaysLeftCameLate`, for any number of workers, connections, contexts, accepts and any
hold and pool sizes. The invariant has these parts.

* `Typed`: types, and which locals a worker has at each place.
* `Owned`: an `IO_CONTEXT` that was made is in exactly one of four places, the free list,
  the kernel, the port's queue or a worker's hands, and once there.
* `Counted`: accept packets in the queue and accepts in the kernel are together
  `AcceptCount - lost`, from which `AcceptsKept` follows. It needs `Owned`: an accept that
  completes leaves the kernel and enters the queue with an `IO_CONTEXT` of its own.
* `ComesOnce`: the completion of an accept announces a connection once, and that one is
  neither in the map nor told to leave. `ToldLeave`: a connection `Stop` has posted a
  DISCONNECT for is out of the map, or the packet is in the queue, or a worker is at it.
  `ExitsComeLast`: no exit packet stands before what was posted earlier. The three give
  `LeftCameLate`: a worker that has left has left nothing of these behind.
* `Unmixed`: while nothing was `overtaken`, a connection in the map has a context of its
  own (`ContextsKept`), one that is open is in the map or on its way (`ArrivalsKept`), and
  whatever a worker (`HandsKept`) or a completion, an operation or a sender (`OthersKept`)
  has in hand is still what it was. `NoMixUp` alone says nothing of these.

And of the receiver that the workers call, `PortAlwaysInRange`. The index is in range
between a comparison and the increment that follows only because nobody else can be
there: `LockKept` says that whoever is past the entry and before the exit holds the lock,
and what the comparison found is still true.

**ServiceControlProofs.** Of the service `StopAlwaysFindsThread`, `StoppedAlwaysTold` and
`ReinstallAlwaysKeeps`. `Shape` says which places of the three threads go together,
`StartInv` that RUNNING is reported after the thread's id was saved, so that one is there
until `WinAppMain` returns, `WorkInv` what the
global holds while the work thread makes its last report undisturbed, and
`RemovalInv` what the entry in the manager's database is at each place of
`ReinstallService`. One lemma per thread for reports, and one for its other steps.

Of the statement queue `AlwaysInOrderUnlessCrowded` and `UndefinedAlwaysNeedsRace`, for
any statements, threads and openings. `Ordered` says that what was executed was queued
before what is being executed, and that before what is queued; `DeletedForGood` that a
deleted statement is in no queue and in nobody's hands. That a thread never takes from an
empty queue rests on a count (`EventsBacked`): until the first `CloseStack`, statements
still to be announced, the event when it is set, and the thread that has seen it, are
together never more than the statements in the queue, unless the thread has taken one
without having waited. `OneThread`
and `HandleKept` say which thread may be alive, `Unopened` that nothing is queued before
the first opening.

**CardScreenProofs.** Of the card screen `AlwaysWorksOnOpenDatabase`, `CalmLeaveAlwaysSafe`
and `AlwaysRecyclesTheShownCard`. `Bounded`
says that the thread lives only on an open database and that operators are answered at
most once; `Calm` that after a calm `onDestroy` there is no message, no operator, no
dialog that lost its window and no second session from which a crash could come, whatever
the timers do; `Fresh` that until the field is changed under a verification or behind its
dialog every card on its way through thread, looper and dialog is that of
the field.

Of the login `ChainAlwaysKeepsScreen`, `AllAlwaysAskOneServer`, `SearchedIsNeverGone` and
`OnlyTimeoutEverEndsLogin`, for any number of logins, servers, searches and ticks. `Links`
is the form of the chain (the manager, at most one operator, the dialog, the screen), from
which the lemma about `Told` gives the listeners a reply reaches; `Once` that a login that
was begun has one operation in the queue or one request sent, or neither; `Connected`
that the login socket, once connected, stays open until nobody can log in; `Blocked` that
the broadcast socket's thread waits as long as its socket is open, which `exit()` closes
only behind the join.

**UseCountProofs.** `SharedAlwaysAlive` and `AlwaysDeletedOnce`. `SharedIsAlive` is not
inductive, as it says nothing of counts that have no share. The invariant is stronger
and simpler: every count equals the number of its shares, always (`Balanced`), and only
counts without a share were deleted (`Living`). `Attached` keeps a handle at rest while
another attaches to it, `Alone` says what `Only` and `Makeonly` may rely on, and
`Crowded` and `Deleted` say who still has to read a count. The lemmas `OneMore` and
`OneLess` count handles; `DeletesLast` is the read and the deletion that `~CUseCount` and
`Reattach` share, and `GivesBackIInv` their decrement.

**What liveness rests on.** The prover cannot reason about fairness, but most of the
liveness properties have a safety core: that what drives the system on is never lost, or
that what bounds a loop goes down. Eight such formulas stand beside the liveness
properties in the modules. No run lists them, as they are proved for every value of the
constants.

| formula | theorem | what it is to |
|---|---|---|
| `InterruptIsKept` | `InterruptIsNeverLost` (WakeThreadProofs) | `ExitReturns`: the interrupt is there until the thread ends |
| `OnlyThrowShutsOut` | `OnlyThrowEverShutsOut` (MemPoolProofs) | `CallsReturn`: until a call throws, every call may enter |
| `AlwaysMinded` | `IsAlwaysMinded` (TcpServerProofs) | `PeerCloseNoticed`: each connection in the map has a read or a worker |
| `ExitForEach` | `AlwaysExitForEach` (TcpServerProofs) | `StopEnds`: there is an exit packet for each worker still there |
| `NoMissedEvent` | `NoEventIsMissed` (ServiceControlProofs) | `QueueIsEmptied`: whoever sleeps on a statement will be woken |
| `DialogIsTimed` | `DialogIsAlwaysTimed` (CardScreenProofs) | `LoginEnds`: a timer runs behind the dialog, or is about to |
| `NoneLost` | `NoneIsEverLost` (CardScreenProofs) | `PostIsAnswered`: an operator not answered is in the list of a thread that lives |
| `LoopShortens` | `LoopAlwaysShortens` (PacketStreamProofs) | `ParseReturns`: each pass of the loop leaves less to parse |

Some need an invariant of their own. `TimersKept` adds to `DialogIsTimed` that a timer
belongs to a login that was begun, and that the operation thread lives until `exit()`
joins it. `Runs` adds to `NoMissedEvent` that the thread of a running stack has been
started and has not ended. `ExitsCounted` is `ExitForEach` with the packets counted as in
`Counted`; a worker leaves with one packet, so that both sides go down together.
`AllWatched` follows a connection from `Associate` on: through a read under way
(`Reading`), its completion (`Ended`), a worker (`Serving`) and the next read. It needs
`Unmixed`: a worker that closes a connection may be sure that the one it takes from the
map is the one it reads of. `LoopShortens` uses what `InStream` says of a packet not found
yet: that it ends behind what was cut off already, so that finding it cuts off more. That
fairness then brings about what the liveness property says is left to TLC.

All safety properties of the runs are proved, as are the refinements of `ObjectMemory`,
`ObjectPort` and `FrameStream`. Only model-checked is all liveness
(`ExitReturns`, `CallsReturn`, `DestroyReturns`, `PeerCloseNoticed`, `StopEnds`,
`QueueIsEmptied`, `LoginEnds`, `BackEndsScreen`, `PostIsAnswered`, `RemoveEnds`,
`ParseReturns`, and the fairness part of `ImplementsQueue`), which the prover cannot reason
about. Nothing here uses a recursive operator; what recursion over data computes for
every input is out of the prover's reach, and the recursion of `SaveData` and the loop of
`pack_parse` are therefore sequences of steps.


## 5. What is not modelled

* In the components modelled: the destructor of the memory pool and `_clearMemBuf`
  (the end of the process); objects of more than 10 KB once their block was overrun;
  `BingIoDevice` (empty) and list helpers nothing calls; an exit packet that
  `PostQueuedCompletionStatus` fails to post in `DestroyCompletePort`, which ignores it and
  then waits for ever (`IOCompletePort.cpp:86`); contents with a null inside, which
  `SaveData` cuts there; `Disconnect` with `bForce = FALSE`, which nothing calls;
  `Start` of the TCP server that fails or is called twice; `bPostQueued = TRUE`;
  messages longer than one buffer, whose copy writes past the buffer, so that nothing
  can be said of what follows; connection ids that wrap round after 2^32 connections;
  `OpenStack` whose thread cannot be created; the assignment operator of `CUseCount`,
  which is private; the branches of `InstallService` and `RemoveService` for Windows 95 and
  98, and the message boxes of the service; answers of the TCP server that are no JSON or
  have an unknown `MagicID`, and those whose lengths or parameters read `S:`;
  `signin_user`, which posts one operation without a timer.
* Code that never runs. `WinAppMain` returns 0 before it makes a `CAppEntity`; the
  receivers are modelled as `CAppEntity` would use them. No `CUdpSocket` and no server
  `CClientManager` is ever made. The server's parsers of requests and `RecevieData` are
  stubs: a packet that arrives changes nothing.
* The online user of the client. Its TCP socket is asked for its streams before it is
  connected, which throws; and the user, who holds a socket, cannot be serialised, so
  that handing it to the card screen fails before any of its operations can run. The
  move of local cards to the server is among these operations.
* SQLite, Windows, the Java virtual machine and Android: only what the code relies on.
* The growing buffer (never written to by code that is compiled in), JSON, encryption,
  files, arguments, layouts, the sign-in screen and the stored settings: no state beyond
  one call.
* Vendored code: ZXing, SQLite, cJSON, omnithread and the OpenSSL headers, which are by
  far the greater part of the lines in `src`.


## 6. Plan

What could still be added, in order of importance.

1. `TcpServerStart`: `Start` that fails half-way, and a second `Start`.
2. That the ports of `ReceiverPorts` are each an instance of `ObjectPort`, step by step. They
   follow it, but an object is known there by its thread and may be posted again, which
   `ObjectPort` excludes.
3. Type correctness of `CardScreen`, `ServiceControl`, `TcpServer` and `UseCount` as
   theorems of their own; it is proved as a part of their invariants.
