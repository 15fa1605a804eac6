------------------------ MODULE ServiceControlProofs ------------------------
(***************************************************************************)
(* Proofs about two parts of the server.  ServiceControl, for any number   *)
(* of controls and of failed calls: what Windows holds of a service whose  *)
(* work thread has ended, and what ReinstallService leaves behind.         *)
(* SqlStack, for any number of statements and of reopenings: the order in  *)
(* which the statements are executed, and the races without which nothing  *)
(* undefined is done.                                                      *)
(***************************************************************************)
EXTENDS ServiceControl, SqlStack, SequenceTheorems, FiniteSetTheorems, TLAPS

Main == "ServiceMain"
Work == "ServiceWorkThread"
Ctrl == "ServiceCtrl"
Alive == {"RUNNING", "STOP_PENDING"}

\* How far the work thread is: not made (or the process died), reporting that
\* it runs, in WinAppMain, in its last report (LastReport), ended.
NotYet == pc[Work] \in {"none", "dead"}
Starting == pc[Work] = "begin" \/ (pc[Work] \in Reporting /\ arg[Work] = "RUNNING")
Busy == pc[Work] = "WinAppMain"

Places == {"begin", "create", "failed", "none", "WinAppMain", "idle", "stop", "post", "read",
           "ended", "dead"} \cup Reporting

Shape ==
    /\ pc \in [Threads -> Places]
    /\ pc[Main] \in {"begin", "create", "failed", "ended", "dead"} \cup Reporting
    /\ pc[Work] \in {"none", "begin", "WinAppMain", "ended", "dead"} \cup Reporting
    /\ pc[Ctrl] \in {"idle", "stop", "post", "read"} \cup Reporting
    /\ ~ NotYet => pc[Main] = "ended"
    /\ pc[Main] \in Reporting => arg[Main] \in {"START_PENDING", "STOPPED"}
    /\ pc[Work] \in Reporting => arg[Work] \in {"RUNNING", "STOPPED"}
    /\ NotYet \/ Starting \/ Busy => ~ overlap

\* Until the work thread has reported that it runs nobody else reports: Windows
\* sends no control, and ServiceMain is done before it begins.
StartInv ==
    /\ NotYet \/ Starting => pc[Ctrl] = "idle"
    /\ NotYet => scm.state \in {"START_PENDING", "STOPPED"}
    /\ pc[Main] = "tell" => g_srvstatus.state = arg[Main]
    /\ pc[Main] = "begin" \/ (pc[Main] \in Reporting /\ arg[Main] = "START_PENDING")
         => scm.state = "START_PENDING"
    /\ pc[Main] = "create" => /\ scm.state = "START_PENDING"
                              /\ g_srvstatus.state = "START_PENDING"
    /\ Starting => /\ scm.state = "START_PENDING"
                   /\ g_srvstatus.state \in {"START_PENDING", "RUNNING"}
    /\ Starting /\ pc[Work] = "tell" => g_srvstatus.state = "RUNNING"

\* While it is in WinAppMain only the control handler reports, and no stop has
\* become STOPPED yet; in its last report it is alone, and when it has ended
\* STOPPED was told.
WorkInv ==
    /\ Busy => /\ g_servicethread
               /\ g_srvstatus.state \in Alive /\ scm.state \in Alive
               /\ pc[Ctrl] \in Reporting => arg[Ctrl] \in Alive
    /\ Starting /\ pc[Work] # "begin" => g_servicethread
    /\ LastReport /\ ~ overlap => /\ pc[Ctrl] = "idle" /\ scm.state \in Alive
                                  /\ pc[Work] = "tell" => g_srvstatus.state = "STOPPED"
    /\ pc[Work] = "ended" /\ ~ overlap /\ failures = 0 => /\ scm.state = "STOPPED"
                                                          /\ pc[Ctrl] = "idle"

\* The control handler is past a stop and will tell, or has told, STOP_PENDING.
Pending == /\ g_srvstatus.state = "STOP_PENDING" /\ pc[Ctrl] # "stop"
           /\ pc[Ctrl] \in Reporting => arg[Ctrl] = "STOP_PENDING"

\* Where RemoveService is when its stop was accepted, answered and not disturbed.
RemovalInv ==
    /\ admin = "begin" => ~ stopped
    /\ stopped => Busy \/ LastReport \/ pc[Work] = "ended"
    /\ admin \in {"begin", "wait", "query", "delete"} => entry = "present"
    /\ stopped /\ ~ timedOut /\ ~ overlap /\ failures = 0 /\ ~ callFailed =>
         /\ Busy => \/ admin = "wait" /\ pc[Ctrl] = "stop"
                    \/ admin = "wait" /\ pc[Ctrl] # "idle" /\ Pending
                    \/ admin \in {"wait", "query"} /\ Pending /\ scm.state = "STOP_PENDING"
         /\ LastReport => admin \in {"wait", "query"} /\ scm.state = "STOP_PENDING"
         /\ admin = "install" => entry \in {"absent", "present"}
         /\ admin = "done" => entry = "present"

IInv == TypeOK /\ Shape /\ StartInv /\ WorkInv /\ RemovalInv

\* The service begins in ServiceMain, with nothing reported and no work thread.
LEMMA InitIInv == Init => IInv
<1> SUFFICES ASSUME Init PROVE IInv
  OBVIOUS
<1> USE ServiceAssumption DEF Init, Main, Work, Ctrl, Threads
<1>1. /\ pc \in [Threads -> Places]
      /\ pc[Main] = "begin" /\ pc[Work] = "none" /\ pc[Ctrl] = "idle"
  BY DEF Places
<1>2. TypeOK
  <2>1. g_srvstatus \in Status /\ scm \in Status /\ g_servicethread \in BOOLEAN
    BY DEF Status, States
  <2>2. arg \in [Threads -> States]
    BY DEF States
  <2>3. /\ overlap \in BOOLEAN /\ stopped \in BOOLEAN /\ timedOut \in BOOLEAN
        /\ callFailed \in BOOLEAN
    BY Zenon
  <2>4. \A t \in Threads : pc[t] \notin Reporting
    BY <1>1 DEF Reporting
  <2>5. controls \in 0..MaxControls /\ failures \in 0..MaxFailures
    OBVIOUS
  <2>6. entry = "present" /\ admin = "begin"
    OBVIOUS
  <2>7. QED
    BY <2>1, <2>2, <2>3, <2>4, <2>5, <2>6 DEF TypeOK
<1>3. ~ overlap /\ ~ stopped
  BY Zenon
<1>4. Shape
  BY <1>1, <1>3 DEF Shape, NotYet, Starting, Busy, Reporting
<1>5. StartInv
  BY <1>1 DEF StartInv, NotYet, Starting, Reporting
<1>6. WorkInv
  BY <1>1 DEF WorkInv, Busy, Starting, LastReport, Reporting
<1>7. RemovalInv
  BY <1>1, <1>3 DEF RemovalInv
<1>8. QED
  BY <1>2, <1>4, <1>5, <1>6, <1>7 DEF IInv

\* Where the three threads go on after a report.
LEMMA AfterIs ==
    /\ \A r \in BOOLEAN : After(Ctrl, r) = "idle"
    /\ arg[Main] = "START_PENDING" => /\ After(Main, TRUE) = "create"
                                      /\ After(Main, FALSE) = "failed"
    /\ arg[Main] = "STOPPED" => \A r \in BOOLEAN : After(Main, r) = "ended"
    /\ arg[Work] = "RUNNING" => /\ After(Work, TRUE) = "WinAppMain"
                                /\ After(Work, FALSE) = "ended"
    /\ arg[Work] = "STOPPED" => \A r \in BOOLEAN : After(Work, r) = "ended"
<1> USE DEF After, Main, Work, Ctrl
<1>1. \A r \in BOOLEAN : After(Ctrl, r) = "idle"
  BY Zenon
<1>2. ASSUME arg[Main] = "START_PENDING"
      PROVE  After(Main, TRUE) = "create" /\ After(Main, FALSE) = "failed"
  BY <1>2, Zenon
<1>3. ASSUME arg[Main] = "STOPPED", NEW r \in BOOLEAN PROVE After(Main, r) = "ended"
  BY <1>3, Zenon
<1>4. ASSUME arg[Work] = "RUNNING"
      PROVE  After(Work, TRUE) = "WinAppMain" /\ After(Work, FALSE) = "ended"
  BY <1>4, Zenon
<1>5. ASSUME arg[Work] = "STOPPED", NEW r \in BOOLEAN PROVE After(Work, r) = "ended"
  BY <1>5, Zenon
<1>6. QED
  BY <1>1, <1>2, <1>3, <1>4, <1>5

\* Types.
LEMMA ReportTypes ==
    ASSUME IInv, NEW t \in Threads, ReportStatus(t) PROVE TypeOK'
<1> USE ServiceAssumption DEF IInv, Goto, remove, bounds
<1>1. CASE Accepts(t)
  <2>1. (arg[t] # "START_PENDING") \in BOOLEAN
    OBVIOUS
  <2>2. g_srvstatus' \in Status
    BY <1>1, <2>1 DEF Accepts, TypeOK, Status
  <2>3. QED
    BY <1>1, <2>2 DEF Accepts, TypeOK, Shape, Reporting
<1>2. CASE Records(t)
  BY <1>2 DEF Records, TypeOK, Shape, Reporting, Status
<1>3. CASE Tells(t)
  <2>2. entry' \in {"present", "marked", "absent"}
    BY <1>3 DEF Tells, Kept, TypeOK
  <2>3. \A u \in Threads : pc'[u] \in Reporting => pc[u] \in Reporting
    BY <1>3, AfterIs DEF Tells, Shape, TypeOK, Reporting, Threads, Main, Work, Ctrl
  <2>4. QED
    BY <1>3, <2>2, <2>3 DEF Tells, TypeOK
<1>4. CASE Fails(t)
  <2>1. \A u \in Threads : pc'[u] \in Reporting => pc[u] \in Reporting
    BY <1>4, AfterIs DEF Fails, Shape, TypeOK, Reporting, Threads, Main, Work, Ctrl
  <2>2. failures' \in 0..MaxFailures
    BY <1>4 DEF Fails, TypeOK
  <2>3. UNCHANGED <<g_srvstatus, g_servicethread, arg, scm, entry, admin, stopped, timedOut,
                    callFailed, controls, overlap>>
    BY <1>4 DEF Fails
  <2>4. QED
    BY <2>1, <2>2, <2>3 DEF TypeOK
<1>5. QED
  BY <1>1, <1>2, <1>3, <1>4 DEF ReportStatus

\* A report of ServiceMain: nobody else is there, or it is past WinAppMain.
LEMMA MainReports == ASSUME IInv, TypeOK', ReportStatus(Main) PROVE IInv'
<1> USE ServiceAssumption DEF IInv, TypeOK, Status, Goto, Report, Shape, StartInv, WorkInv, RemovalInv,
      NotYet, Starting, Busy, LastReport, Pending, Reporting, Alive, Main, Work, Ctrl, Threads,
      Places, service, remove, bounds
<1>1. CASE Accepts(Main)
  <2> USE <1>1 DEF Accepts
  <2>1. Shape'
    OBVIOUS
  <2>2. StartInv'
    OBVIOUS
  <2>3. WorkInv'
    OBVIOUS
  <2>4. RemovalInv'
    OBVIOUS
  <2>5. QED
    BY <2>1, <2>2, <2>3, <2>4
<1>2. CASE Records(Main)
  <2> USE <1>2 DEF Records
  <2>1. Shape'
    OBVIOUS
  <2>2. StartInv'
    OBVIOUS
  <2>3. WorkInv'
    OBVIOUS
  <2>4. RemovalInv'
    OBVIOUS
  <2>5. QED
    BY <2>1, <2>2, <2>3, <2>4
<1>3. CASE Tells(Main)
  <2> USE <1>3, AfterIs DEF Tells, Kept
  <2>1. Shape'
    OBVIOUS
  <2>2. StartInv'
    OBVIOUS
  <2>3. WorkInv'
    OBVIOUS
  <2>4. RemovalInv'
    OBVIOUS
  <2>5. QED
    BY <2>1, <2>2, <2>3, <2>4
<1>4. CASE Fails(Main)
  <2> USE <1>4, AfterIs DEF Fails
  <2>1. Shape'
    OBVIOUS
  <2>2. StartInv'
    OBVIOUS
  <2>3. WorkInv'
    OBVIOUS
  <2>4. RemovalInv'
    OBVIOUS
  <2>5. QED
    BY <2>1, <2>2, <2>3, <2>4
<1>5. QED
  BY <1>1, <1>2, <1>3, <1>4 DEF ReportStatus

\* A report of the work thread: the last one is made after WinAppMain returned.
LEMMA WorkReports == ASSUME IInv, TypeOK', ReportStatus(Work) PROVE IInv'
<1> USE ServiceAssumption DEF IInv, TypeOK, Status, Goto, Report, Shape, StartInv, WorkInv, RemovalInv,
      NotYet, Starting, Busy, LastReport, Pending, Reporting, Alive, Main, Work, Ctrl, Threads,
      Places, service, remove, bounds
<1>1. CASE Accepts(Work)
  BY <1>1 DEF Accepts
<1>2. CASE Records(Work)
  BY <1>2 DEF Records
<1>3. CASE Tells(Work)
  <2> USE <1>3, AfterIs DEF Tells, Kept
  <2>1. Shape'
    OBVIOUS
  <2>2. StartInv'
    OBVIOUS
  <2>3. WorkInv'
    OBVIOUS
  <2>4. RemovalInv'
    OBVIOUS
  <2>5. QED
    BY <2>1, <2>2, <2>3, <2>4
<1>4. CASE Fails(Work)
  <2>1. arg[Work] \in {"RUNNING", "STOPPED"}
    BY <1>4 DEF Fails
  <2>2. pc' = [pc EXCEPT ![Work] = "ended"]
    BY <1>4, <2>1, AfterIs DEF Fails
  <2>3. scm.state # "STOPPED" \/ overlap
    BY <1>4, <2>1 DEF Fails
  <2>4. failures \in Nat /\ (failures' = failures + 1 \/ overlap)
    BY <1>4, <2>3 DEF Fails
  <2>5. UNCHANGED <<g_srvstatus, g_servicethread, arg, scm, entry, admin, stopped, timedOut,
                    callFailed, overlap>>
    BY <1>4 DEF Fails
  <2>6. pc'[Work] = "ended" /\ pc'[Main] = pc[Main] /\ pc'[Ctrl] = pc[Ctrl] /\ pc[Main] = "ended"
    BY <1>4, <2>2 DEF Fails
  <2>7. Shape' /\ StartInv'
    BY <2>2, <2>5, <2>6
  <2>8. failures' = 0 => overlap
    BY <2>4
  <2>9. WorkInv'
    BY <2>5, <2>6, <2>8
  <2>10. RemovalInv'
    <3>1. admin = "begin" => ~ stopped
      OBVIOUS
    <3>2. QED
      BY <2>5, <2>6, <2>8, <3>1
  <2>11. QED
    BY <2>7, <2>9, <2>10
<1>5. QED
  BY <1>1, <1>2, <1>3, <1>4 DEF ReportStatus

\* A report of the control handler, which may overlap any other.
LEMMA CtrlReports == ASSUME IInv, TypeOK', ReportStatus(Ctrl) PROVE IInv'
<1> USE ServiceAssumption DEF IInv, TypeOK, Status, Goto, Report, Shape, StartInv, WorkInv, RemovalInv,
      NotYet, Starting, Busy, LastReport, Pending, Reporting, Alive, Main, Work, Ctrl, Threads,
      Places, service, remove, bounds
<1>1. CASE Accepts(Ctrl)
  BY <1>1 DEF Accepts
<1>2. CASE Records(Ctrl)
  BY <1>2 DEF Records
<1>3. CASE Tells(Ctrl)
  <2>1. pc' = [pc EXCEPT ![Ctrl] = "idle"]
    BY <1>3, AfterIs DEF Tells
  <2>2. ~ NotYet /\ ~ Starting /\ (LastReport => overlap)
    BY <1>3 DEF Tells
  <2>3. /\ scm' = g_srvstatus /\ entry' = Kept(entry, g_srvstatus.state)
        /\ UNCHANGED <<g_srvstatus, g_servicethread, arg, admin, stopped, timedOut, callFailed,
                       failures, overlap>>
    BY <1>3 DEF Tells
  <2>4. Shape' /\ StartInv'
    BY <2>1, <2>2, <2>3
  <2>5. pc'[Work] = pc[Work] /\ pc'[Ctrl] = "idle" /\ pc[Ctrl] = "tell"
    BY <1>3, <2>1 DEF Tells
  <2>6. pc[Work] = "ended" => overlap \/ failures # 0
    BY <2>5
  <2>7. WorkInv'
    BY <2>2, <2>3, <2>5, <2>6
  <2>8. RemovalInv'
    <3>1. /\ entry = "absent" => entry' = "absent"
          /\ entry = "present" => entry' = "present"
      BY <2>3 DEF Kept
    <3>0. /\ admin' = "begin" => ~ stopped'
          /\ admin' \in {"begin", "wait", "query", "delete"} => entry' = "present"
          /\ stopped' => Busy' \/ LastReport' \/ pc'[Work] = "ended"
      BY <2>2, <2>3, <2>5, <3>1
    <3>2. CASE stopped /\ ~ timedOut /\ ~ overlap /\ failures = 0 /\ ~ callFailed
      <4>1. Busy /\ Busy' /\ ~ LastReport'
        BY <2>2, <2>3, <2>5, <2>6, <3>2
      <4>2. Pending /\ admin \in {"wait", "query"}
        BY <2>5, <3>2, <4>1
      <4>3. Pending' /\ scm'.state = "STOP_PENDING"
        BY <2>3, <2>5, <4>2
      <4>4. QED
        BY <2>3, <3>0, <3>2, <4>1, <4>2, <4>3
    <3>3. CASE ~ (stopped /\ ~ timedOut /\ ~ overlap /\ failures = 0 /\ ~ callFailed)
      BY <2>2, <2>3, <2>5, <3>0, <3>3
    <3>4. QED
      BY <3>2, <3>3
  <2>9. QED
    BY <2>4, <2>7, <2>8
<1>4. CASE Fails(Ctrl)
  <2>1. pc' = [pc EXCEPT ![Ctrl] = "idle"]
    BY <1>4, AfterIs DEF Fails
  <2>2. ~ NotYet /\ ~ Starting /\ (LastReport => overlap)
    BY <1>4 DEF Fails
  <2>3. UNCHANGED <<g_srvstatus, g_servicethread, arg, scm, entry, admin, stopped, timedOut,
                    callFailed, overlap>>
    BY <1>4 DEF Fails
  <2>4. failures \in Nat /\ (failures' = failures + 1 \/ (failures' = failures /\ scm.state = "STOPPED"))
    BY <1>4 DEF Fails
  <2>5. Shape' /\ StartInv'
    BY <2>1, <2>2, <2>3
  <2>6. pc'[Work] = pc[Work] /\ pc'[Ctrl] = "idle" /\ pc[Ctrl] = "tell"
    BY <1>4, <2>1 DEF Fails
  <2>7. failures' = 0 => failures = 0 /\ scm.state = "STOPPED"
    BY <2>4
  <2>8. failures' = 0 => overlap
    BY <2>2, <2>6, <2>7
  <2>9. WorkInv'
    BY <2>2, <2>3, <2>6, <2>8
  <2>10. RemovalInv'
    BY <2>2, <2>3, <2>6, <2>8
  <2>11. QED
    BY <2>5, <2>9, <2>10
<1>5. QED
  BY <1>1, <1>2, <1>3, <1>4 DEF ReportStatus

\* ServiceMain starts the work thread and saves its id before it says RUNNING.
LEMMA MainSteps == ASSUME IInv, TypeOK', ServiceMain PROVE IInv'
<1> USE ServiceAssumption DEF IInv, TypeOK, Status, Goto, Report, Shape, StartInv, WorkInv, RemovalInv,
      NotYet, Starting, Busy, LastReport, Pending, Reporting, Alive, Main, Work, Ctrl, Threads,
      Places, service, remove, bounds
<1>1. CASE Begins
  BY <1>1 DEF Begins
<1>2. CASE NoHandler
  BY <1>2 DEF NoHandler
<1>3. CASE GivesUp
  BY <1>3 DEF GivesUp
<1>4. CASE CreatesThread
  BY <1>4 DEF CreatesThread
<1>5. CASE ArgvCrash
  BY <1>5 DEF ArgvCrash, Kept
<1>6. QED
  BY <1>1, <1>2, <1>3, <1>4, <1>5 DEF ServiceMain

\* The work thread runs WinAppMain and then reports STOPPED.
LEMMA WorkSteps == ASSUME IInv, TypeOK', ServiceWorkThread PROVE IInv'
<1> USE ServiceAssumption DEF IInv, TypeOK, Status, Goto, Report, Shape, StartInv, WorkInv, RemovalInv,
      NotYet, Starting, Busy, LastReport, Pending, Reporting, Alive, Main, Work, Ctrl, Threads,
      Places, service, remove, bounds
<1>1. CASE SavesThread
  BY <1>1 DEF SavesThread
<1>2. CASE WinAppMainReturns
  <2> USE <1>2 DEF WinAppMainReturns
  <2>1. Shape'
    OBVIOUS
  <2>2. StartInv'
    OBVIOUS
  <2>3. WorkInv'
    OBVIOUS
  <2>4. RemovalInv'
    OBVIOUS
  <2>5. QED
    BY <2>1, <2>2, <2>3, <2>4
<1>3. QED
  BY <1>1, <1>2 DEF ServiceWorkThread

\* Controls come, and are handled, one after the other.
LEMMA CtrlSteps == ASSUME IInv, TypeOK', SendsStop \/ Interrogates \/ ServiceCtrl PROVE IInv'
<1> USE ServiceAssumption DEF IInv, TypeOK, Status, Goto, Report, Shape, StartInv, WorkInv, RemovalInv,
      NotYet, Starting, Busy, LastReport, Pending, Reporting, Alive, Main, Work, Ctrl, Threads,
      Places, service, remove, bounds
<1>1. CASE SendsStop
  BY <1>1 DEF SendsStop, Stop, TakesStop, Running
<1>2. CASE Interrogates
  <2>1. /\ pc[Ctrl] = "idle" /\ scm.state \in Alive
        /\ pc' = [pc EXCEPT ![Ctrl] = "read"] /\ overlap' = (overlap \/ LastReport)
        /\ UNCHANGED <<g_srvstatus, g_servicethread, arg, scm, entry, admin, stopped, timedOut,
                    callFailed, failures>>
    BY <1>2 DEF Interrogates, Running
  <2>2. pc[Main] # "dead"
    BY <1>2 DEF Interrogates, Running
  <2>3. ~ NotYet /\ ~ Starting
    BY <2>1, <2>2
  <2>4. ~ overlap' => ~ overlap /\ ~ LastReport
    BY <2>1
  <2>5. Shape' /\ StartInv'
    BY <2>1, <2>3
  <2>6. WorkInv'
    BY <2>1, <2>3, <2>4
  <2>7. RemovalInv'
    BY <2>1, <2>3, <2>4
  <2>8. QED
    BY <2>5, <2>6, <2>7
<1>3. CASE StopPending
  BY <1>3 DEF StopPending
<1>4. CASE ServiceStop
  BY <1>4 DEF ServiceStop
<1>5. CASE Reads
  BY <1>5 DEF Reads
<1>6. QED
  BY <1>1, <1>2, <1>3, <1>4, <1>5 DEF ServiceCtrl

\* ReinstallService touches the entry in the manager's database alone.
LEMMA RemovalSteps == ASSUME IInv, TypeOK', ReinstallService \/ CallFails PROVE IInv'
<1> USE ServiceAssumption DEF IInv, TypeOK, Status, Goto, Report, Shape, StartInv, WorkInv, RemovalInv,
      NotYet, Starting, Busy, LastReport, Pending, Reporting, Alive, Main, Work, Ctrl, Threads,
      Places, service, remove, bounds
<1>1. CASE StopsService
  BY <1>1 DEF StopsService, Stop, TakesStop, Running
<1>2. CASE NotAccepted
  BY <1>2 DEF NotAccepted, Idles
<1>3. CASE Answered
  BY <1>3 DEF Answered, Idles
<1>4. CASE NotAnswered
  BY <1>4 DEF NotAnswered, Idles
<1>5. CASE Queries
  BY <1>5 DEF Queries, Idles
<1>6. CASE DeletesService
  BY <1>6 DEF DeletesService, Kept, Idles
<1>7. CASE InstallService
  BY <1>7 DEF InstallService, Idles
<1>8. CASE OpenFails
  BY <1>8 DEF OpenFails, Idles
<1>9. CASE ControlFails
  BY <1>9 DEF ControlFails, Idles
<1>10. CASE QueryFails
  BY <1>10 DEF QueryFails, Idles
<1>11. CASE DeleteFails
  BY <1>11 DEF DeleteFails, Idles
<1>12. CASE InstallFails
  BY <1>12 DEF InstallFails, Idles
<1>13. QED
  BY <1>1, <1>2, <1>3, <1>4, <1>5, <1>6, <1>7, <1>8, <1>9, <1>10, <1>11, <1>12
  DEF ReinstallService, RemoveService, CallFails

\* Types are kept by every step.
LEMMA StepTypes == ASSUME IInv, Next PROVE TypeOK'
<1> USE ServiceAssumption DEF IInv, TypeOK, Status, States, Shape, Reporting, Threads, Goto, Report,
      service, remove, bounds
<1>1. ASSUME NEW t \in Threads, ReportStatus(t) PROVE TypeOK'
  BY <1>1, ReportTypes
<1>2. CASE ServiceMain
  <2>1. CASE Begins
    BY <2>1 DEF Begins
  <2>2. CASE NoHandler
    BY <2>2 DEF NoHandler
  <2>3. CASE GivesUp
    BY <2>3 DEF GivesUp
  <2>4. CASE CreatesThread
    BY <2>4 DEF CreatesThread
  <2>5. CASE ArgvCrash
    <3>1. scm' \in Status /\ entry' \in {"present", "marked", "absent"}
      BY <2>5 DEF ArgvCrash, Kept
    <3>2. \A t \in Threads : pc'[t] \notin Reporting
      BY <2>5 DEF ArgvCrash
    <3>3. QED
      BY <2>5, <3>1, <3>2 DEF ArgvCrash
  <2>6. QED
    BY <1>2, <2>1, <2>2, <2>3, <2>4, <2>5 DEF ServiceMain
<1>3. CASE ServiceWorkThread
  <2>1. CASE SavesThread
    BY <2>1 DEF SavesThread
  <2>2. CASE WinAppMainReturns
    <3>1. g_servicethread' \in BOOLEAN /\ overlap' \in BOOLEAN
      BY <2>2, Zenon DEF WinAppMainReturns
    <3>2. QED
      BY <2>2, <3>1 DEF WinAppMainReturns
  <2>3. QED
    BY <1>3, <2>1, <2>2 DEF ServiceWorkThread
<1>4. CASE SendsStop
  BY <1>4 DEF SendsStop, Stop, TakesStop, Running
<1>5. CASE Interrogates
  BY <1>5 DEF Interrogates, Running
<1>6. CASE ServiceCtrl
  BY <1>6 DEF ServiceCtrl, StopPending, ServiceStop, Reads
<1>7. CASE ReinstallService
  BY <1>7 DEF ReinstallService, RemoveService, StopsService, Stop, TakesStop, Running,
              NotAccepted, Answered, NotAnswered, Queries, DeletesService, InstallService,
              Idles, Kept
<1>8. CASE CallFails
  BY <1>8 DEF CallFails, OpenFails, ControlFails, QueryFails, DeleteFails, InstallFails, Idles
<1>9. QED
  BY <1>1, <1>2, <1>3, <1>4, <1>5, <1>6, <1>7, <1>8 DEF Next

\* The inductive invariant of the three threads and of the reinstallation.
THEOREM IInvHolds == Spec => []IInv
<1>1. IInv /\ [Next]_vars => IInv'
  <2> SUFFICES ASSUME IInv, [Next]_vars PROVE IInv'
    OBVIOUS
  <2>1. CASE UNCHANGED vars
    BY <2>1 DEF IInv, vars, service, remove, bounds, TypeOK, Shape, StartInv, WorkInv,
                RemovalInv, NotYet, Starting, Busy, LastReport, Pending
  <2>2. CASE Next
    <3>1. TypeOK'
      BY <2>2, StepTypes
    <3>2. ASSUME NEW t \in Threads, ReportStatus(t) PROVE IInv'
      BY <3>1, <3>2, MainReports, WorkReports, CtrlReports DEF Threads, Main, Work, Ctrl
    <3>3. QED
      BY <2>2, <3>1, <3>2, MainSteps, WorkSteps, CtrlSteps, RemovalSteps DEF Next
  <2>3. QED
    BY <2>1, <2>2
<1>2. QED
  BY InitIInv, <1>1, PTL DEF Spec, SafeSpec

\* A stop that finds no id comes when WinAppMain has returned: the id was saved
\* before RUNNING was reported, without which no stop comes (Service.cpp:311-315,
\* 351).
THEOREM StopAlwaysFindsThread == Spec => []StopFindsThread
<1>1. IInv => StopFindsThread
  <2> SUFFICES ASSUME IInv, pc[Ctrl] = "post", ~ g_servicethread
               PROVE  LastReport \/ pc[Work] = "ended"
    BY DEF StopFindsThread, Work, Ctrl
  <2>1. ~ NotYet /\ ~ Starting
    BY DEF IInv, StartInv
  <2>2. ~ Busy
    BY DEF IInv, WorkInv
  <2>3. QED
    BY <2>1, <2>2 DEF IInv, Shape, NotYet, Starting, Busy, LastReport, Work
<1>2. QED
  BY IInvHolds, <1>1, PTL

\* When the work thread has ended, Windows holds the service for stopped, unless
\* a control overlapped the last report or a report failed (Service.cpp:341).
THEOREM StoppedAlwaysTold == Spec => []StoppedIsTold
<1>1. IInv => StoppedIsTold
  BY DEF IInv, WorkInv, StoppedIsTold, Ended, Work, Ctrl
<1>2. QED
  BY IInvHolds, <1>1, PTL

\* ReinstallService leaves the service installed when the service answered its
\* stop in time and undisturbed, and neither QueryServiceStatus nor a call of
\* InstallService failed (Service.cpp:358-363, 588-620, 372-476).
THEOREM ReinstallAlwaysKeeps == Spec => []ReinstallKeeps
<1>1. IInv => ReinstallKeeps
  BY DEF IInv, RemovalInv, ReinstallKeeps
<1>2. QED
  BY IInvHolds, <1>1, PTL

-----------------------------------------------------------------------------
(***************************************************************************)
(* SqlStack.  The inductive invariant: what each thread and CloseStack     *)
(* have in hand (Recorded), whose handle is kept (HandleKept), that before *)
(* the first CloseStack an event, or a thread that has seen one, stands    *)
(* for a statement in the queue (EventsBacked), that one thread lives as   *)
(* long as none outlived CloseStack (OneThread), and where each statement  *)
(* is on its way through the queue (Ordered, DeletedForGood).              *)
(***************************************************************************)

\* What each thread and CloseStack have in hand, and the history variables.
Recorded ==
    /\ node \in [SqlThreads -> Statements \cup {None}] /\ victim \in Statements \cup {None}
    /\ accepted \in Seq(Statements) /\ executed \in Seq(Statements)
    /\ deleted \in [Statements -> Nat]
    /\ crowded \in BOOLEAN /\ skipped \in BOOLEAN /\ outlived \in BOOLEAN

\* A handle is kept of the thread that runs, until CloseStack has waited for it.
HandleKept ==
    /\ owner \in {"stop", "wait"} => m_stackThread # 0
    /\ owner \in {"drain", "picked"} => m_stackThread = 0
    /\ m_bthreadRunning <=> m_stackThread # 0 /\ owner # "wait"

\* Until the stack is opened for the first time, nothing is queued or announced.
Unopened ==
    opens = 0 => /\ m_sql_exec_queue = <<>> /\ ~ m_hEvent
                 /\ \A s \in Statements : call[s] \notin {"push", "set"}

\* Before the first CloseStack, as long as each statement is taken after a wait,
\* there is a statement in the queue for each one that is still to be announced,
\* for the event and for the thread that has seen it.
Announced == {s \in Statements : call[s] = "set"}
EventsBacked ==
    opens = 1 /\ m_bthreadRunning /\ owner = "rest" /\ ~ skipped /\ Defined =>
      Cardinality(Announced) + (IF m_hEvent THEN 1 ELSE 0) + (IF thread[1] = "take" THEN 1 ELSE 0)
        <= Len(m_sql_exec_queue)

\* As long as nothing outlived CloseStack, no thread lives but that of the handle.
OneThread ==
    ~ outlived => \A t \in SqlThreads : t # m_stackThread => thread[t] \in {"none", "ended"}

\* x stands before y in q.
Before(q, x, y) == \E a, b \in DOMAIN q : a < b /\ q[a] = x /\ q[b] = y

\* With one statement at a time in the queue and one thread, what was executed
\* was queued before what is being executed, and that before what is queued.
Ordered ==
    ~ crowded /\ ~ outlived =>
      /\ Len(m_sql_exec_queue) <= 1
      /\ \A i \in DOMAIN executed : executed[i] \in Range(accepted)
      /\ \A t \in SqlThreads : node[t] # None => node[t] \in Range(accepted)
      /\ \A i, j \in DOMAIN executed : i < j => Before(accepted, executed[i], executed[j])
      /\ \A i \in DOMAIN executed : \A t \in SqlThreads :
           node[t] # None => Before(accepted, executed[i], node[t])
      /\ \A k \in DOMAIN m_sql_exec_queue :
           /\ m_sql_exec_queue[k] \in Range(accepted)
           /\ \A i \in DOMAIN executed : Before(accepted, executed[i], m_sql_exec_queue[k])
           /\ \A t \in SqlThreads : node[t] # None => Before(accepted, node[t], m_sql_exec_queue[k])

\* A deleted statement is in no queue and in nobody's hand, and cannot come back.
DeletedForGood ==
    ~ crowded /\ ~ outlived =>
      /\ \A k \in DOMAIN m_sql_exec_queue :
           /\ call[m_sql_exec_queue[k]] \in {"set", "done"}
           /\ deleted[m_sql_exec_queue[k]] = 0
           /\ \A t \in SqlThreads : node[t] # m_sql_exec_queue[k]
      /\ \A t \in SqlThreads : node[t] # None =>
           call[node[t]] \in {"set", "done"} /\ deleted[node[t]] = 0
      /\ \A s \in Statements : deleted[s] > 0 => call[s] \in {"set", "done"}
      /\ victim # None => m_sql_exec_queue = <<victim>>

SqlIInv ==
    /\ SqlTypeOK /\ Recorded /\ HandleKept /\ Unopened /\ EventsBacked /\ OneThread
    /\ Ordered /\ DeletedForGood /\ UndefinedNeedsRace

LEMMA SqlInitIInv == SqlInit => SqlIInv
<1> SUFFICES ASSUME SqlInit PROVE SqlIInv
  OBVIOUS
<1> USE SqlStackAssumption DEF SqlInit, None
<1>1. SqlTypeOK /\ Recorded
  <2>1. <<>> \in Seq(Statements)
    OBVIOUS
  <2>2. 0 \in 0..MaxOpens /\ 0 \in 0..0
    OBVIOUS
  <2>3. m_hEvent \in BOOLEAN /\ m_bthreadRunning \in BOOLEAN
    BY Zenon
  <2>4. thread \in [SqlThreads -> {"none", "loop", "test", "wait", "take", "exec", "ended"}]
    OBVIOUS
  <2>5. SqlTypeOK
    BY <2>1, <2>2, <2>3, <2>4 DEF SqlTypeOK
  <2>6. crowded \in BOOLEAN /\ skipped \in BOOLEAN /\ outlived \in BOOLEAN
    BY Zenon
  <2>7. QED
    BY <2>1, <2>5, <2>6 DEF Recorded
<1>2. HandleKept /\ Unopened /\ EventsBacked /\ OneThread /\ UndefinedNeedsRace
  BY DEF HandleKept, Unopened, EventsBacked, OneThread, UndefinedNeedsRace
<1>3. Ordered /\ DeletedForGood
  BY DEF Ordered, DeletedForGood
<1>4. QED
  BY <1>1, <1>2, <1>3 DEF SqlIInv

\* The front and the back of a queue that is not empty.
LEMMA FrontAndBack ==
    ASSUME NEW S, NEW q \in Seq(S), q # <<>>
    PROVE  /\ Head(q) \in S /\ Tail(q) \in Seq(S) /\ Len(Tail(q)) = Len(q) - 1
           /\ Len(q) \in DOMAIN q /\ Last(q) = q[Len(q)] /\ Last(q) \in S
           /\ Len(q) <= 1 => Tail(q) = <<>> /\ Len(q) = 1 /\ Last(q) = q[1] /\ Head(q) = q[1]
<1>1. Len(q) \in Nat /\ Len(q) >= 1 /\ DOMAIN q = 1..Len(q)
  OBVIOUS
<1>2. Len(q) \in DOMAIN q /\ Last(q) = q[Len(q)] /\ q[Len(q)] \in S
  BY <1>1 DEF Last
<1>3. Head(q) \in S /\ Tail(q) \in Seq(S) /\ Len(Tail(q)) = Len(q) - 1 /\ Head(q) = q[1]
  OBVIOUS
<1>4. ASSUME Len(q) <= 1 PROVE Tail(q) = <<>> /\ Len(q) = 1 /\ Last(q) = q[1]
  <2>1. Len(q) = 1
    BY <1>1, <1>4
  <2>2. Len(Tail(q)) = 0
    BY <1>3, <2>1
  <2>3. Tail(q) = <<>>
    BY <1>3, <2>2, EmptySeq
  <2>4. QED
    BY <1>2, <2>1, <2>3
<1>5. QED
  BY <1>2, <1>3, <1>4

LEMMA SqlTypesKept == ASSUME SqlIInv, SqlNext PROVE SqlTypeOK' /\ Recorded'
<1> USE SqlStackAssumption DEF SqlIInv, own, history
<1>0. /\ m_sql_exec_queue \in Seq(Statements) /\ accepted \in Seq(Statements)
      /\ executed \in Seq(Statements) /\ opens \in 0..MaxOpens /\ m_stackThread \in 0..opens
      /\ thread \in [SqlThreads -> {"none", "loop", "test", "wait", "take", "exec", "ended"}]
      /\ node \in [SqlThreads -> Statements \cup {None}] /\ victim \in Statements \cup {None}
      /\ call \in [Statements -> {"none", "push", "set", "done", "refused"}]
      /\ deleted \in [Statements -> Nat] /\ None \notin Statements
  BY DEF SqlTypeOK, Recorded, Statements, None
<1>1. ASSUME NEW s \in Statements, ExecSqlInStack(s) \/ Announce(s)
      PROVE  SqlTypeOK' /\ Recorded'
  <2>1. call' \in [Statements -> {"none", "push", "set", "done", "refused"}]
    BY <1>0, <1>1 DEF ExecSqlInStack, Announce
  <2>2. m_hEvent' \in BOOLEAN
    BY <1>1 DEF ExecSqlInStack, Announce, SetEvent, SqlTypeOK
  <2>3. QED
    BY <1>1, <2>1, <2>2 DEF ExecSqlInStack, Announce, SqlTypeOK, Recorded
<1>2. ASSUME NEW s \in Statements, Push(s) PROVE SqlTypeOK' /\ Recorded'
  <2>1. /\ m_sql_exec_queue' \in Seq(Statements) /\ accepted' \in Seq(Statements)
        /\ call' \in [Statements -> {"none", "push", "set", "done", "refused"}]
    BY <1>0, <1>2 DEF Push, Queue
  <2>2. crowded' \in BOOLEAN
    BY <1>2 DEF Push, Queue, Recorded
  <2>3. QED
    BY <1>2, <2>1, <2>2 DEF Push, SqlTypeOK, Recorded
<1>3. ASSUME NEW t \in SqlThreads, Loop(t) \/ Test(t) \/ Wait(t) PROVE SqlTypeOK' /\ Recorded'
  <2>1. PICK there \in {"test", "ended", "wait", "take"} : thread' = [thread EXCEPT ![t] = there]
    BY <1>3 DEF Loop, Test, Wait
  <2>2. thread[t] \in {"loop", "test", "wait"}
    BY <1>3 DEF Loop, Test, Wait
  <2>3. /\ thread' \in [SqlThreads -> {"none", "loop", "test", "wait", "take", "exec", "ended"}]
        /\ \A u \in SqlThreads : /\ thread'[u] = "exec" <=> thread[u] = "exec"
                                 /\ thread[u] = "none" => thread'[u] = "none"
    BY <1>0, <2>1, <2>2
  <2>4. m_hEvent' \in BOOLEAN /\ skipped' \in BOOLEAN
    BY <1>3 DEF Loop, Test, Wait, SqlTypeOK, Recorded
  <2>5. UNCHANGED <<m_sql_exec_queue, m_bthreadRunning, node, own, call, accepted, executed, deleted,
                    crowded, outlived, undefined>>
    BY <1>3 DEF Loop, Test, Wait
  <2>6. \A u \in SqlThreads : /\ node'[u] \in Statements \cup {None}
                              /\ node'[u] # None <=> thread'[u] = "exec"
                              /\ u > opens' => thread'[u] = "none"
    BY <2>3, <2>5 DEF SqlTypeOK
  <2>7. QED
    BY <2>3, <2>4, <2>5, <2>6 DEF SqlTypeOK, Recorded
<1>4. ASSUME NEW t \in SqlThreads, Take(t) PROVE SqlTypeOK' /\ Recorded'
  <2>1. UNCHANGED <<m_hEvent, m_bthreadRunning, own, call, history>>
    BY <1>4 DEF Take
  <2>2. CASE m_sql_exec_queue = <<>>
    BY <1>4, <2>1, <2>2 DEF Take, SqlTypeOK, Recorded
  <2>3. CASE m_sql_exec_queue # <<>>
    <3>1. /\ node' = [node EXCEPT ![t] = Last(m_sql_exec_queue)]
          /\ m_sql_exec_queue' = Tail(m_sql_exec_queue)
          /\ thread' = [thread EXCEPT ![t] = "exec"] /\ undefined' = undefined
          /\ thread[t] = "take"
      BY <1>4, <2>3 DEF Take, Pop
    <3>2. m_sql_exec_queue' \in Seq(Statements) /\ Last(m_sql_exec_queue) \in Statements
      BY <1>0, <2>3, <3>1, FrontAndBack
    <3>3. /\ thread' \in [SqlThreads -> {"none", "loop", "test", "wait", "take", "exec", "ended"}]
          /\ node' \in [SqlThreads -> Statements \cup {None}]
          /\ \A u \in SqlThreads : /\ node'[u] # None <=> thread'[u] = "exec"
                                   /\ u > opens => thread'[u] = "none"
      BY <1>0, <3>1, <3>2 DEF SqlTypeOK
    <3>4. QED
      BY <2>1, <3>1, <3>2, <3>3 DEF SqlTypeOK, Recorded
  <2>4. QED
    BY <2>2, <2>3
<1>5. ASSUME NEW t \in SqlThreads, Exec(t) PROVE SqlTypeOK' /\ Recorded'
  <2>1. /\ thread[t] = "exec" /\ thread' = [thread EXCEPT ![t] = "loop"]
        /\ node' = [node EXCEPT ![t] = None]
        /\ UNCHANGED <<m_sql_exec_queue, m_hEvent, m_bthreadRunning, own, call, accepted, deleted,
                       crowded, skipped, outlived>>
        /\ undefined' \in {"freed", undefined}
        /\ executed' = executed \/ executed' = Append(executed, node[t])
    BY <1>5 DEF Exec, LeavesP
  <2>2. node[t] \in Statements
    BY <1>0, <2>1 DEF SqlTypeOK
  <2>3. executed' \in Seq(Statements)
    <3>1. Append(executed, node[t]) \in Seq(Statements)
      BY <1>0, <2>2
    <3>2. QED
      BY <1>0, <2>1, <3>1
  <2>4. /\ thread' \in [SqlThreads -> {"none", "loop", "test", "wait", "take", "exec", "ended"}]
        /\ node' \in [SqlThreads -> Statements \cup {None}]
        /\ \A u \in SqlThreads : /\ node'[u] # None <=> thread'[u] = "exec"
                                 /\ u > opens => thread'[u] = "none"
    BY <1>0, <2>1 DEF SqlTypeOK
  <2>5. QED
    BY <2>1, <2>3, <2>4 DEF SqlTypeOK, Recorded
<1>6. CASE OpenStack
  <2>1. opens' = opens + 1 /\ opens' \in SqlThreads /\ m_stackThread' = opens' /\ opens' \in 0..MaxOpens
    BY <1>0, <1>6 DEF OpenStack, SqlThreads
  <2>2. /\ thread' = [thread EXCEPT ![opens'] = "loop"] /\ m_bthreadRunning' = TRUE
        /\ UNCHANGED <<m_sql_exec_queue, m_hEvent, node, owner, victim, call, history, undefined>>
    BY <1>6 DEF OpenStack
  <2>3. thread[opens'] = "none"
    BY <1>0, <2>1 DEF SqlTypeOK, SqlThreads
  <2>4. /\ thread' \in [SqlThreads -> {"none", "loop", "test", "wait", "take", "exec", "ended"}]
        /\ \A u \in SqlThreads : /\ node'[u] # None <=> thread'[u] = "exec"
                                 /\ u > opens' => thread'[u] = "none"
    BY <1>0, <2>1, <2>2, <2>3 DEF SqlTypeOK, SqlThreads
  <2>5. QED
    BY <1>0, <2>1, <2>2, <2>4 DEF SqlTypeOK, Recorded
<1>7. CASE CloseStack
  BY <1>7 DEF CloseStack, SqlTypeOK, Recorded
<1>8. CASE StopRunning \/ Closed
  BY <1>8 DEF StopRunning, Closed, SqlTypeOK, Recorded
<1>9. CASE Waited
  <2>1. m_stackThread' \in 0..opens
    BY <1>0, <1>9 DEF Waited
  <2>2. outlived' \in BOOLEAN
    BY <1>9 DEF Waited, Recorded
  <2>3. QED
    BY <1>9, <2>1, <2>2 DEF Waited, SqlTypeOK, Recorded
<1>10. CASE Pick
  <2>1. victim' \in Statements
    BY <1>0, <1>10, FrontAndBack DEF Pick
  <2>2. QED
    BY <1>0, <1>10, <2>1 DEF Pick, SqlTypeOK, Recorded
<1>11. CASE DeleteNode
  <2>1. victim \in Statements
    BY <1>0, <1>11 DEF DeleteNode, SqlTypeOK
  <2>2. m_sql_exec_queue' \in Seq(Statements) /\ deleted' \in [Statements -> Nat]
    <3>1. CASE m_sql_exec_queue = <<>>
      BY <1>0, <1>11, <3>1 DEF DeleteNode
    <3>2. CASE m_sql_exec_queue # <<>>
      <4>1. /\ m_sql_exec_queue' = Tail(m_sql_exec_queue)
            /\ deleted' = [deleted EXCEPT ![victim] = @ + 1]
        BY <1>11, <3>2 DEF DeleteNode, Pop
      <4>2. m_sql_exec_queue' \in Seq(Statements)
        BY <1>0, <3>2, <4>1
      <4>3. deleted[victim] + 1 \in Nat
        BY <1>0, <2>1
      <4>4. QED
        BY <1>0, <2>1, <4>1, <4>2, <4>3
    <3>3. QED
      BY <3>1, <3>2
  <2>3. QED
    BY <1>11, <2>2 DEF DeleteNode, SqlTypeOK, Recorded
<1>12. QED
  BY <1>1, <1>2, <1>3, <1>4, <1>5, <1>6, <1>7, <1>8, <1>9, <1>10, <1>11
     DEF SqlNext, ThreadProc, Closing

\* Callers and threads leave the handle and the owner alone.
LEMMA HandleSteps ==
    ASSUME SqlNext
    PROVE  UNCHANGED <<m_bthreadRunning, own>> \/ OpenStack \/ CloseStack \/ Closing
BY DEF SqlNext, ThreadProc, ExecSqlInStack, Push, Announce, Loop, Test, Wait, Take, Exec

LEMMA HandleStays == ASSUME SqlIInv, SqlNext PROVE HandleKept'
<1> USE DEF SqlIInv, HandleKept, own
<1>1. CASE UNCHANGED <<m_bthreadRunning, own>>
  BY <1>1
<1>2. CASE OpenStack
  <2>1. opens \in Nat
    BY SqlStackAssumption DEF SqlTypeOK
  <2>2. m_stackThread' # 0 /\ owner' = "rest" /\ m_bthreadRunning'
    BY <1>2, <2>1 DEF OpenStack
  <2>3. QED
    BY <2>2
<1>3. CASE CloseStack
  BY <1>3 DEF CloseStack
<1>4. CASE Closing
  BY <1>4 DEF Closing, StopRunning, Waited, Pick, DeleteNode, Closed
<1>5. QED
  BY <1>1, <1>2, <1>3, <1>4, HandleSteps

\* Which threads a step may move.
LEMMA ThreadSteps ==
    ASSUME SqlIInv, SqlNext
    PROVE  \/ UNCHANGED <<thread, node>>
           \/ OpenStack
           \/ \E t \in SqlThreads : ThreadProc(t) /\ \A u \in SqlThreads :
                u # t => thread'[u] = thread[u] /\ node'[u] = node[u]
<1>1. ASSUME NEW t \in SqlThreads, ThreadProc(t)
      PROVE  \A u \in SqlThreads : u # t => thread'[u] = thread[u] /\ node'[u] = node[u]
  BY <1>1 DEF ThreadProc, Loop, Test, Wait, Take, Exec, LeavesP, SqlIInv, SqlTypeOK, Recorded
<1>2. ASSUME NEW s \in Statements, ExecSqlInStack(s) \/ Push(s) \/ Announce(s)
      PROVE  UNCHANGED <<thread, node>>
  BY <1>2 DEF ExecSqlInStack, Push, Announce
<1>3. CASE CloseStack \/ Closing
  BY <1>3 DEF CloseStack, Closing, StopRunning, Waited, Pick, DeleteNode, Closed
<1>4. QED
  BY <1>1, <1>2, <1>3 DEF SqlNext

\* A thread that makes a step is that of the handle, if nothing outlived
\* CloseStack.
LEMMA LivingThread ==
    ASSUME SqlIInv, NEW t \in SqlThreads, ThreadProc(t)
    PROVE  /\ thread[t] \in {"loop", "test", "wait", "take", "exec"} /\ t <= opens
           /\ ~ outlived => t = m_stackThread
           /\ UNCHANGED <<m_bthreadRunning, own, outlived>>
<1>1. thread[t] \in {"loop", "test", "wait", "take", "exec"}
  BY DEF ThreadProc, Loop, Test, Wait, Take, Exec
<1>2. t <= opens
  BY <1>1, SqlStackAssumption DEF SqlIInv, SqlTypeOK, SqlThreads
<1>3. ~ outlived => t = m_stackThread
  BY <1>1 DEF SqlIInv, OneThread
<1>4. UNCHANGED <<m_bthreadRunning, own, outlived>>
  BY DEF ThreadProc, Loop, Test, Wait, Take, Exec, history
<1>5. QED
  BY <1>1, <1>2, <1>3, <1>4

LEMMA OneThreadStays == ASSUME SqlIInv, SqlNext PROVE OneThread'
<1> SUFFICES ASSUME ~ outlived', NEW u \in SqlThreads, u # m_stackThread'
             PROVE  thread'[u] \in {"none", "ended"}
  BY DEF OneThread
<1>1. ~ outlived
  BY DEF SqlNext, ThreadProc, Closing, ExecSqlInStack, Push, Announce, Loop, Test, Wait, Take, Exec,
         OpenStack, CloseStack, StopRunning, Waited, Pick, DeleteNode, Closed, history
<1>2. \A t \in SqlThreads : t # m_stackThread => thread[t] \in {"none", "ended"}
  BY <1>1 DEF SqlIInv, OneThread
<1>3. CASE OpenStack
  BY <1>2, <1>3 DEF OpenStack, SqlIInv, SqlTypeOK
<1>4. ASSUME NEW t \in SqlThreads, ThreadProc(t),
             \A v \in SqlThreads : v # t => thread'[v] = thread[v] /\ node'[v] = node[v]
      PROVE  thread'[u] \in {"none", "ended"}
  BY <1>1, <1>2, <1>4, LivingThread DEF own
<1>5. CASE UNCHANGED <<thread, node>>
  <2>1. CASE Waited
    BY <1>2, <1>5, <2>1 DEF Waited
  <2>2. CASE ~ Waited /\ ~ OpenStack
    <3>1. m_stackThread' = m_stackThread
      BY <2>2, HandleSteps DEF own, CloseStack, Closing, StopRunning, Pick, DeleteNode, Closed
    <3>2. QED
      BY <1>2, <1>5, <3>1
  <2>3. QED
    BY <1>3, <2>1, <2>2
<1>6. QED
  BY <1>3, <1>4, <1>5, ThreadSteps

\* Without a first OpenStack nothing is accepted.
LEMMA UnopenedStays == ASSUME SqlIInv, SqlNext PROVE Unopened'
<1> USE SqlStackAssumption DEF SqlIInv, own
<1> SUFFICES ASSUME opens' = 0
             PROVE  /\ m_sql_exec_queue' = <<>> /\ ~ m_hEvent'
                    /\ \A s \in Statements : call'[s] \notin {"push", "set"}
  BY DEF Unopened
<1>1. opens = 0 /\ ~ OpenStack
  <2>1. opens \in Nat
    BY DEF SqlTypeOK
  <2>2. ~ OpenStack
    BY <2>1 DEF OpenStack
  <2>3. opens' = opens
    BY <2>2, HandleSteps
       DEF CloseStack, Closing, StopRunning, Waited, Pick, DeleteNode, Closed
  <2>4. QED
    BY <2>2, <2>3
<1>2. /\ m_sql_exec_queue = <<>> /\ ~ m_hEvent
      /\ \A s \in Statements : call[s] \notin {"push", "set"}
      /\ ~ m_bthreadRunning /\ m_stackThread = 0
  BY <1>1 DEF Unopened, HandleKept, SqlTypeOK
<1>3. ASSUME NEW t \in SqlThreads, ThreadProc(t) PROVE FALSE
  BY <1>1, <1>3, LivingThread DEF SqlThreads
<1>4. ASSUME NEW s \in Statements, ExecSqlInStack(s)
      PROVE  /\ m_sql_exec_queue' = <<>> /\ ~ m_hEvent'
             /\ \A r \in Statements : call'[r] \notin {"push", "set"}
  BY <1>2, <1>4 DEF ExecSqlInStack, SqlTypeOK
<1>5. ASSUME NEW s \in Statements, Push(s) \/ Announce(s) PROVE FALSE
  BY <1>2, <1>5 DEF Push, Announce
<1>6. CASE CloseStack \/ Closing
  BY <1>2, <1>6 DEF CloseStack, Closing, StopRunning, Waited, Pick, DeleteNode, Closed
<1>7. QED
  BY <1>1, <1>3, <1>4, <1>5, <1>6 DEF SqlNext

LEMMA AnnouncedFinite ==
    IsFiniteSet(Announced) /\ Cardinality(Announced) \in Nat
<1>1. IsFiniteSet(Statements)
  BY FS_Interval, SqlStackAssumption DEF Statements
<1>2. Announced \subseteq Statements
  BY DEF Announced
<1>3. QED
  BY <1>1, <1>2, FS_Subset, FS_CardinalityType

\* A push adds a statement to the queue and one to announce; an announcement
\* sets the event; a wait turns the event into a thread that takes; taking
\* removes one from the queue.
LEMMA EventsStayBacked == ASSUME SqlIInv, SqlNext PROVE EventsBacked'
<1> USE SqlStackAssumption DEF SqlIInv, own, history
<1> DEFINE C == Cardinality(Announced)
           E == IF m_hEvent THEN 1 ELSE 0
           T == IF thread[1] = "take" THEN 1 ELSE 0
<1> SUFFICES ASSUME opens' = 1, m_bthreadRunning', owner' = "rest", ~ skipped', Defined'
             PROVE  C' + E' + T' <= Len(m_sql_exec_queue')
  BY DEF EventsBacked
<1>1. C \in Nat /\ C' \in Nat
  <2>1. C \in Nat
    BY AnnouncedFinite
  <2>2. (IsFiniteSet(Announced) /\ Cardinality(Announced) \in Nat)'
    BY AnnouncedFinite, PTL
  <2>3. QED
    BY <2>1, <2>2
<1>2. /\ m_sql_exec_queue \in Seq(Statements) /\ opens \in Nat
      /\ call \in [Statements -> {"none", "push", "set", "done", "refused"}]
      /\ thread \in [SqlThreads -> {"none", "loop", "test", "wait", "take", "exec", "ended"}]
      /\ m_hEvent \in BOOLEAN
  BY DEF SqlTypeOK
<1>3. CASE OpenStack
  <2>1. opens = 0
    BY <1>2, <1>3 DEF OpenStack
  <2>2. m_sql_exec_queue' = <<>> /\ ~ m_hEvent' /\ thread'[1] # "take" /\ Announced' = {}
    <3>1. UNCHANGED <<m_sql_exec_queue, m_hEvent, call>>
      BY <1>3 DEF OpenStack
    <3>2. m_sql_exec_queue = <<>> /\ ~ m_hEvent /\ Announced = {}
      BY <2>1 DEF Unopened, Announced
    <3>3. 1 \in SqlThreads
      BY <1>2, <1>3, <2>1 DEF OpenStack, SqlThreads
    <3>4. thread'[1] = "loop"
      BY <1>2, <1>3, <2>1, <3>3 DEF OpenStack
    <3>5. Announced' = Announced
      BY <3>1 DEF Announced
    <3>6. QED
      BY <3>1, <3>2, <3>4, <3>5
  <2>3. QED
    BY <2>2, FS_EmptySet
<1>4. CASE CloseStack \/ Closing
  BY <1>4 DEF CloseStack, Closing, StopRunning, Waited, Pick, DeleteNode, Closed, HandleKept
<1>5. ASSUME ~ (OpenStack \/ CloseStack \/ Closing), ~ skipped
      PROVE  C' + E' + T' <= Len(m_sql_exec_queue')
  <2>1. opens = 1 /\ m_bthreadRunning /\ owner = "rest"
    BY <1>5, HandleSteps
  <2>2. Defined
    BY DEF SqlNext, ThreadProc, Closing, ExecSqlInStack, Push, Announce, Loop, Test, Wait, Take, Exec,
           OpenStack, CloseStack, StopRunning, Waited, Pick, DeleteNode, Closed
  <2>3. C + E + T <= Len(m_sql_exec_queue)
    BY <1>5, <2>1, <2>2 DEF EventsBacked
  <2>4. ASSUME NEW s \in Statements, ExecSqlInStack(s) PROVE C' + E' + T' <= Len(m_sql_exec_queue')
    <3>1. Announced' = Announced
      BY <1>2, <2>4 DEF ExecSqlInStack, Announced
    <3>2. QED
      BY <2>3, <2>4, <3>1 DEF ExecSqlInStack
  <2>5. ASSUME NEW s \in Statements, Push(s) PROVE C' + E' + T' <= Len(m_sql_exec_queue')
    <3>1. Announced' = Announced \cup {s} /\ s \notin Announced
      BY <1>2, <2>5 DEF Push, Announced
    <3>2. C' = C + 1
      BY <3>1, AnnouncedFinite, FS_AddElement
    <3>3. Len(m_sql_exec_queue') = Len(m_sql_exec_queue) + 1
      BY <1>2, <2>5 DEF Push, Queue
    <3>4. E' = E /\ T' = T
      BY <2>5 DEF Push
    <3>5. Len(m_sql_exec_queue) \in Nat /\ E \in {0, 1} /\ T \in {0, 1}
      BY <1>2
    <3> HIDE DEF C, E, T
    <3>6. QED
      BY <1>1, <2>3, <3>2, <3>3, <3>4, <3>5
  <2>6. ASSUME NEW s \in Statements, Announce(s) PROVE C' + E' + T' <= Len(m_sql_exec_queue')
    <3>1. Announced' = Announced \ {s} /\ s \in Announced
      BY <1>2, <2>6 DEF Announce, Announced
    <3>2. C' = C - 1
      BY <3>1, AnnouncedFinite, FS_RemoveElement
    <3>3. m_sql_exec_queue' = m_sql_exec_queue /\ E' \in {0, 1} /\ T' = T
      BY <2>6 DEF Announce
    <3>4. Len(m_sql_exec_queue) \in Nat /\ E \in {0, 1} /\ T \in {0, 1}
      BY <1>2
    <3> HIDE DEF C, E, T
    <3>5. QED
      BY <1>1, <2>3, <3>2, <3>3, <3>4
  <2>7. ASSUME NEW t \in SqlThreads, ThreadProc(t) PROVE C' + E' + T' <= Len(m_sql_exec_queue')
    <3>1. t = 1 /\ 1 \in SqlThreads
      BY <2>1, <2>7, LivingThread DEF SqlThreads
    <3>2. C' = C
      <4>1. call' = call
        BY <2>7 DEF ThreadProc, Loop, Test, Wait, Take, Exec
      <4>2. QED
        BY <4>1 DEF Announced
    <3>3. Len(m_sql_exec_queue) \in Nat /\ E \in {0, 1} /\ T \in {0, 1}
      BY <1>2
    <3>4. CASE Loop(t) \/ Exec(t)
      <4>1. thread'[1] # "take"
        BY <1>2, <3>1, <3>4 DEF Loop, Exec
      <4>2. m_sql_exec_queue' = m_sql_exec_queue /\ E' = E /\ T' = 0
        <5>1. m_sql_exec_queue' = m_sql_exec_queue /\ m_hEvent' = m_hEvent
          BY <3>4 DEF Loop, Exec
        <5>2. QED
          BY <4>1, <5>1
      <4> HIDE DEF C, E, T
      <4>3. QED
        BY <1>1, <2>3, <3>2, <3>3, <4>2
    <3>5. CASE Test(t)
      <4>1. m_sql_exec_queue = <<>>
        BY <1>2, <3>5 DEF Test
      <4>2. m_sql_exec_queue' = m_sql_exec_queue /\ E' = E /\ T' = 0
        BY <1>2, <3>1, <3>5, <4>1 DEF Test
      <4> HIDE DEF C, E, T
      <4>3. QED
        BY <1>1, <2>3, <3>2, <3>3, <4>2
    <3>6. CASE Wait(t)
      <4>1. m_sql_exec_queue' = m_sql_exec_queue /\ E = 1 /\ E' = 0 /\ T = 0 /\ T' = 1
        BY <1>2, <3>1, <3>6 DEF Wait, Wakes
      <4> HIDE DEF C, E, T
      <4>2. QED
        BY <1>1, <2>3, <3>2, <3>3, <4>1
    <3>7. CASE Take(t)
      <4>1. m_sql_exec_queue # <<>>
        BY <3>7 DEF Take, Defined
      <4>2. Len(m_sql_exec_queue') = Len(m_sql_exec_queue) - 1
        BY <1>2, <3>7, <4>1, FrontAndBack DEF Take, Pop
      <4>3. E' = E /\ T = 1 /\ T' = 0
        BY <1>2, <3>1, <3>7, <4>1 DEF Take
      <4> HIDE DEF C, E, T
      <4>4. QED
        BY <1>1, <2>3, <3>2, <3>3, <4>2, <4>3
    <3>8. QED
      BY <2>7, <3>4, <3>5, <3>6, <3>7 DEF ThreadProc
  <2>8. QED
    BY <1>5, <2>4, <2>5, <2>6, <2>7 DEF SqlNext
<1>6. ~ skipped
  BY DEF SqlNext, ThreadProc, Closing, ExecSqlInStack, Push, Announce, Loop, Test, Wait, Take, Exec,
         OpenStack, CloseStack, StopRunning, Waited, Pick, DeleteNode, Closed
<1>7. QED
  BY <1>3, <1>4, <1>5, <1>6

\* A node is used after its deletion, and an empty queue taken from, only in the
\* ways that are named.
LEMMA RaceStays == ASSUME SqlIInv, SqlNext PROVE UndefinedNeedsRace'
<1> USE SqlStackAssumption DEF SqlIInv, own, history
<1>1. undefined = "no"
  BY DEF SqlNext, ThreadProc, Closing, ExecSqlInStack, Push, Announce, Loop, Test, Wait, Take, Exec,
         OpenStack, CloseStack, StopRunning, Waited, Pick, DeleteNode, Closed, Defined
<1>2. ASSUME NEW t \in SqlThreads, Take(t) PROVE UndefinedNeedsRace'
  <2>1. CASE m_sql_exec_queue # <<>>
    BY <1>1, <1>2, <2>1 DEF Take, UndefinedNeedsRace
  <2>2. CASE m_sql_exec_queue = <<>>
    <3>1. UNCHANGED <<skipped, opens, owner, m_bthreadRunning>> /\ undefined' = "empty"
      BY <1>2, <2>2 DEF Take
    <3>2. ASSUME ~ skipped, ~ opens > 1, owner = "rest", m_bthreadRunning PROVE FALSE
      <4>1. opens = 1 /\ t = 1 /\ thread[1] = "take"
        <5>1. opens \in Nat /\ t <= opens /\ t \in Nat /\ t >= 1 /\ thread[t] = "take"
          BY <1>2, LivingThread DEF ThreadProc, SqlTypeOK, SqlThreads, Take
        <5>2. QED
          BY <3>2, <5>1
      <4>2. Cardinality(Announced) + (IF m_hEvent THEN 1 ELSE 0) + 1 <= 0
        BY <1>1, <2>2, <3>2, <4>1 DEF EventsBacked, Defined
      <4>3. QED
        BY <4>2, AnnouncedFinite
    <3>3. QED
      BY <3>1, <3>2 DEF UndefinedNeedsRace
  <2>3. QED
    BY <2>1, <2>2
<1>3. ASSUME NEW t \in SqlThreads, Exec(t) PROVE UndefinedNeedsRace'
  <2>1. UNCHANGED <<crowded, outlived, skipped>> /\ node[t] # None
    BY <1>3 DEF Exec, SqlTypeOK
  <2>2. deleted[node[t]] > 0 => crowded \/ outlived
    BY <2>1 DEF DeletedForGood
  <2>3. QED
    BY <1>1, <1>3, <2>1, <2>2 DEF Exec, UndefinedNeedsRace
<1>4. CASE DeleteNode
  <2>1. UNCHANGED <<crowded, outlived, skipped>> /\ owner' = "drain" /\ victim # None
    BY <1>4 DEF DeleteNode, SqlTypeOK
  <2>2. ~ crowded /\ ~ outlived => deleted[victim] = 0
    <3>1. SUFFICES ASSUME ~ crowded, ~ outlived PROVE deleted[victim] = 0
      OBVIOUS
    <3>2. m_sql_exec_queue = <<victim>> /\ 1 \in DOMAIN <<victim>> /\ <<victim>>[1] = victim
      BY <2>1, <3>1 DEF DeletedForGood
    <3>3. QED
      BY <3>1, <3>2 DEF DeletedForGood
  <2>3. QED
    BY <1>1, <1>4, <2>1, <2>2 DEF DeleteNode, UndefinedNeedsRace
<1>5. ASSUME ~ DeleteNode, \A t \in SqlThreads : ~ Take(t) /\ ~ Exec(t) PROVE undefined' = "no"
  BY <1>1, <1>5 DEF SqlNext, ThreadProc, Closing, ExecSqlInStack, Push, Announce, Loop, Test, Wait,
         OpenStack, CloseStack, StopRunning, Waited, Pick, Closed
<1>6. QED
  BY <1>2, <1>3, <1>4, <1>5 DEF UndefinedNeedsRace

\* What was queued before, is still when one more statement has joined.
LEMMA JoinsLast ==
    ASSUME NEW q \in Seq(Statements), NEW s \in Statements
    PROVE  /\ Range(Append(q, s)) = Range(q) \cup {s}
           /\ \A x, y : Before(q, x, y) => Before(Append(q, s), x, y)
           /\ \A x \in Range(q) : Before(Append(q, s), x, s)
<1> DEFINE p == Append(q, s)
<1>1. /\ p \in Seq(Statements) /\ DOMAIN p = 1..(Len(q) + 1) /\ DOMAIN q = 1..Len(q)
      /\ Len(q) \in Nat /\ p[Len(q) + 1] = s /\ \A i \in DOMAIN q : p[i] = q[i]
  OBVIOUS
<1> HIDE DEF p
<1>2. \A i \in DOMAIN q : i \in DOMAIN p /\ i < Len(q) + 1
  BY <1>1
<1>3. Range(p) = Range(q) \cup {s}
  BY <1>1, <1>2 DEF Range
<1>4. \A x, y : Before(q, x, y) => Before(p, x, y)
  BY <1>1, <1>2 DEF Before
<1>5. \A x \in Range(q) : Before(p, x, s)
  BY <1>1, <1>2 DEF Before, Range
<1>6. QED
  BY <1>3, <1>4, <1>5 DEF p

\* Nothing becomes uncrowded, and no thread that outlived CloseStack is recalled.
LEMMA HistoryGrows ==
    ASSUME SqlNext PROVE (crowded => crowded') /\ (outlived => outlived')
<1>1. ASSUME NEW s \in Statements, Push(s) PROVE (crowded => crowded') /\ outlived' = outlived
  BY <1>1 DEF Push, Queue
<1>2. ASSUME NEW s \in Statements, ExecSqlInStack(s) \/ Announce(s)
      PROVE  crowded' = crowded /\ outlived' = outlived
  BY <1>2 DEF ExecSqlInStack, Announce, history
<1>3. ASSUME NEW t \in SqlThreads, ThreadProc(t)
      PROVE  crowded' = crowded /\ outlived' = outlived
  BY <1>3 DEF ThreadProc, Loop, Test, Wait, Take, Exec, history
<1>4. CASE Waited
  BY <1>4 DEF Waited
<1>5. CASE OpenStack \/ CloseStack \/ StopRunning \/ Pick \/ DeleteNode \/ Closed
  BY <1>5 DEF OpenStack, CloseStack, StopRunning, Pick, DeleteNode, Closed, history
<1>6. QED
  BY <1>1, <1>2, <1>3, <1>4, <1>5 DEF SqlNext, Closing

\* What the steps that neither queue, take, execute, pick nor delete leave.
LEMMA OrderLeft ==
    ASSUME SqlIInv, SqlNext, ~ Pick, ~ DeleteNode, \A s \in Statements : ~ Push(s),
           \A t \in SqlThreads : ~ Take(t) /\ ~ Exec(t)
    PROVE  /\ UNCHANGED <<m_sql_exec_queue, accepted, executed, deleted, node, victim>>
           /\ \A s \in Statements : call[s] \in {"set", "done"} => call'[s] \in {"set", "done"}
<1> USE DEF own, history
<1>1. ASSUME NEW s \in Statements, ExecSqlInStack(s) \/ Announce(s)
      PROVE  /\ UNCHANGED <<m_sql_exec_queue, accepted, executed, deleted, node, victim>>
             /\ \A r \in Statements : call[r] \in {"set", "done"} => call'[r] \in {"set", "done"}
  BY <1>1 DEF ExecSqlInStack, Announce, SqlIInv, SqlTypeOK
<1>2. ASSUME NEW t \in SqlThreads, Loop(t) \/ Test(t) \/ Wait(t)
      PROVE  UNCHANGED <<m_sql_exec_queue, accepted, executed, deleted, node, victim, call>>
  BY <1>2 DEF Loop, Test, Wait
<1>3. CASE OpenStack \/ CloseStack \/ StopRunning \/ Waited \/ Closed
  BY <1>3 DEF OpenStack, CloseStack, StopRunning, Waited, Closed
<1>4. QED
  BY <1>1, <1>2, <1>3 DEF SqlNext, ThreadProc, Closing

\* With one thread alive, no other has a node in hand.
LEMMA OneInHand ==
    ASSUME SqlIInv, ~ outlived, NEW t \in SqlThreads, ThreadProc(t)
    PROVE  /\ \A u \in SqlThreads : u # t => node[u] = None
           /\ victim = None
<1>1. t = m_stackThread /\ t # 0
  BY LivingThread, SqlStackAssumption DEF SqlThreads
<1>2. \A u \in SqlThreads : u # t => thread[u] \in {"none", "ended"}
  BY <1>1 DEF SqlIInv, OneThread
<1>3. \A u \in SqlThreads : u # t => node[u] = None
  BY <1>2 DEF SqlIInv, SqlTypeOK
<1>4. victim = None
  BY <1>1 DEF SqlIInv, SqlTypeOK, HandleKept
<1>5. QED
  BY <1>3, <1>4

LEMMA OrderStays == ASSUME SqlIInv, SqlNext PROVE Ordered' /\ DeletedForGood'
<1> USE SqlStackAssumption DEF SqlIInv
<1> SUFFICES ASSUME ~ crowded', ~ outlived' PROVE Ordered' /\ DeletedForGood'
  BY DEF Ordered, DeletedForGood
<1>0. ~ crowded /\ ~ outlived
  BY HistoryGrows
<1>t. /\ m_sql_exec_queue \in Seq(Statements) /\ accepted \in Seq(Statements)
      /\ executed \in Seq(Statements) /\ node \in [SqlThreads -> Statements \cup {None}]
      /\ victim \in Statements \cup {None} /\ deleted \in [Statements -> Nat]
      /\ call \in [Statements -> {"none", "push", "set", "done", "refused"}]
      /\ None \notin Statements
  BY DEF SqlTypeOK, Recorded, Statements, None
<1>o. /\ Len(m_sql_exec_queue) <= 1
      /\ \A i \in DOMAIN executed : executed[i] \in Range(accepted)
      /\ \A t \in SqlThreads : node[t] # None => node[t] \in Range(accepted)
      /\ \A i, j \in DOMAIN executed : i < j => Before(accepted, executed[i], executed[j])
      /\ \A i \in DOMAIN executed : \A t \in SqlThreads :
           node[t] # None => Before(accepted, executed[i], node[t])
      /\ \A k \in DOMAIN m_sql_exec_queue :
           /\ m_sql_exec_queue[k] \in Range(accepted)
           /\ \A i \in DOMAIN executed : Before(accepted, executed[i], m_sql_exec_queue[k])
           /\ \A t \in SqlThreads : node[t] # None => Before(accepted, node[t], m_sql_exec_queue[k])
  BY <1>0 DEF Ordered
<1>d. /\ \A k \in DOMAIN m_sql_exec_queue :
           /\ call[m_sql_exec_queue[k]] \in {"set", "done"}
           /\ deleted[m_sql_exec_queue[k]] = 0
           /\ \A t \in SqlThreads : node[t] # m_sql_exec_queue[k]
      /\ \A t \in SqlThreads : node[t] # None =>
           call[node[t]] \in {"set", "done"} /\ deleted[node[t]] = 0
      /\ \A s \in Statements : deleted[s] > 0 => call[s] \in {"set", "done"}
      /\ victim # None => m_sql_exec_queue = <<victim>>
  BY <1>0 DEF DeletedForGood
<1> HIDE DEF SqlIInv
<1>1. ASSUME NEW s \in Statements, Push(s) PROVE Ordered' /\ DeletedForGood'
  <2>1. /\ m_sql_exec_queue = <<>> /\ m_sql_exec_queue' = Append(m_sql_exec_queue, s)
        /\ accepted' = Append(accepted, s) /\ call[s] = "push"
        /\ call' = [call EXCEPT ![s] = "set"]
        /\ UNCHANGED <<executed, deleted, node, victim>>
    BY <1>1 DEF Push, Queue, own
  <2>2. m_sql_exec_queue' = <<s>> /\ DOMAIN <<s>> = {1} /\ <<s>>[1] = s /\ Len(<<s>>) = 1
    BY <2>1
  <2>3. /\ Range(accepted') = Range(accepted) \cup {s}
        /\ \A x, y : Before(accepted, x, y) => Before(accepted', x, y)
        /\ \A x \in Range(accepted) : Before(accepted', x, s)
    BY <1>t, <2>1, JoinsLast
  <2>4. Ordered'
    BY <1>o, <2>1, <2>2, <2>3 DEF Ordered
  <2>5. deleted[s] = 0
    <3>1. ~ deleted[s] > 0
      BY <1>d, <2>1
    <3>2. deleted[s] \in Nat
      BY <1>t
    <3>3. QED
      BY <3>1, <3>2
  <2>6. \A t \in SqlThreads : node[t] # s
    <3>1. call[s] \notin {"set", "done"} /\ s # None
      BY <1>t, <2>1
    <3>2. QED
      BY <1>d, <3>1
  <2>7. \A r \in Statements : call[r] \in {"set", "done"} => call'[r] \in {"set", "done"}
    BY <1>t, <2>1
  <2>8. call'[s] = "set"
    BY <1>t, <2>1
  <2>9. victim = None
    BY <1>d, <2>1
  <2>10. \A t \in SqlThreads : node[t] # None => node[t] \in Statements
    BY <1>t
  <2>11. DeletedForGood'
    BY <1>d, <2>1, <2>2, <2>5, <2>6, <2>7, <2>8, <2>9, <2>10 DEF DeletedForGood
  <2>12. QED
    BY <2>4, <2>11
<1>2. ASSUME NEW t \in SqlThreads, Take(t) PROVE Ordered' /\ DeletedForGood'
  <2>1. UNCHANGED <<accepted, executed, deleted, call, victim>>
    BY <1>2 DEF Take, own, history
  <2>2. CASE m_sql_exec_queue = <<>>
    <3>1. UNCHANGED <<m_sql_exec_queue, node>>
      BY <1>2, <2>2 DEF Take
    <3>2. Ordered'
      BY <1>o, <2>1, <3>1 DEF Ordered
    <3>3. DeletedForGood'
      BY <1>d, <2>1, <3>1 DEF DeletedForGood
    <3>4. QED
      BY <3>2, <3>3
  <2>3. CASE m_sql_exec_queue # <<>>
    <3> DEFINE s == m_sql_exec_queue[1]
    <3>1. /\ node' = [node EXCEPT ![t] = Last(m_sql_exec_queue)]
          /\ m_sql_exec_queue' = Tail(m_sql_exec_queue)
      BY <1>2, <2>3 DEF Take, Pop
    <3>2. m_sql_exec_queue' = <<>> /\ Last(m_sql_exec_queue) = s /\ 1 \in DOMAIN m_sql_exec_queue
      BY <1>t, <1>o, <2>3, <3>1, FrontAndBack
    <3>3. (\A u \in SqlThreads : u # t => node[u] = None) /\ victim = None
      BY <1>0, <1>2, OneInHand DEF ThreadProc
    <3>4. \A u \in SqlThreads : node'[u] # None => node'[u] = s
      BY <1>t, <3>1, <3>2, <3>3
    <3>5. /\ s \in Range(accepted) /\ call[s] \in {"set", "done"} /\ deleted[s] = 0
          /\ \A i \in DOMAIN executed : Before(accepted, executed[i], s)
      BY <1>o, <1>d, <3>2
    <3> HIDE DEF s
    <3>6. DOMAIN m_sql_exec_queue' = {} /\ Len(m_sql_exec_queue') = 0
      BY <3>2
    <3>7. Ordered'
      BY <1>o, <2>1, <3>4, <3>5, <3>6 DEF Ordered
    <3>8. DeletedForGood'
      BY <1>d, <2>1, <3>3, <3>4, <3>5, <3>6 DEF DeletedForGood
    <3>9. QED
      BY <3>7, <3>8
  <2>4. QED
    BY <2>2, <2>3
<1>3. ASSUME NEW t \in SqlThreads, Exec(t) PROVE Ordered' /\ DeletedForGood'
  <2> DEFINE s == node[t]
  <2>1. s # None /\ s \in Statements
    BY <1>3, <1>t DEF Exec, SqlIInv, SqlTypeOK
  <2>2. deleted[s] = 0
    BY <1>d, <2>1
  <2>3. /\ executed' = Append(executed, s) /\ node' = [node EXCEPT ![t] = None]
        /\ UNCHANGED <<m_sql_exec_queue, accepted, deleted, call, victim>>
    BY <1>3, <2>2 DEF Exec, LeavesP, own
  <2>4. \A u \in SqlThreads : u # t => node[u] = None
    BY <1>0, <1>3, OneInHand DEF ThreadProc
  <2>5. \A u \in SqlThreads : node'[u] = None
    BY <1>t, <2>3, <2>4
  <2>6. /\ s \in Range(accepted)
        /\ \A i \in DOMAIN executed : Before(accepted, executed[i], s)
        /\ \A k \in DOMAIN m_sql_exec_queue : Before(accepted, s, m_sql_exec_queue[k])
    BY <1>o, <2>1
  <2> HIDE DEF s
  <2>7. /\ Len(executed) \in Nat /\ DOMAIN executed = 1..Len(executed)
        /\ DOMAIN executed' = 1..(Len(executed) + 1)
        /\ executed'[Len(executed) + 1] = s
        /\ \A i \in DOMAIN executed : executed'[i] = executed[i]
    BY <1>t, <2>1, <2>3
  <2>8. \A i \in DOMAIN executed' : i \in DOMAIN executed \/ i = Len(executed) + 1
    BY <2>7
  <2>9. \A i \in DOMAIN executed' : \A k \in DOMAIN m_sql_exec_queue :
          Before(accepted, executed'[i], m_sql_exec_queue[k])
    BY <1>o, <2>6, <2>7, <2>8
  <2>10. \A i, j \in DOMAIN executed' : i < j => Before(accepted, executed'[i], executed'[j])
    <3> SUFFICES ASSUME NEW i \in DOMAIN executed', NEW j \in DOMAIN executed', i < j
                 PROVE  Before(accepted, executed'[i], executed'[j])
      OBVIOUS
    <3>1. i \in DOMAIN executed
      BY <2>7
    <3>2. CASE j \in DOMAIN executed
      BY <1>o, <2>7, <3>1, <3>2
    <3>3. CASE j = Len(executed) + 1
      BY <2>6, <2>7, <3>1, <3>3
    <3>4. QED
      BY <2>8, <3>2, <3>3
  <2>11. \A i \in DOMAIN executed' : executed'[i] \in Range(accepted)
    BY <1>o, <2>6, <2>7, <2>8
  <2>12. Ordered'
    BY <1>o, <2>3, <2>5, <2>9, <2>10, <2>11 DEF Ordered
  <2>13. DeletedForGood'
    <3>1. \A k \in DOMAIN m_sql_exec_queue : m_sql_exec_queue[k] # None
      BY <1>t
    <3>2. QED
      BY <1>d, <2>3, <2>5, <3>1 DEF DeletedForGood
  <2>14. QED
    BY <2>12, <2>13
<1>4. CASE Pick
  <2>1. /\ m_sql_exec_queue # <<>> /\ victim' = Last(m_sql_exec_queue)
        /\ UNCHANGED <<m_sql_exec_queue, accepted, executed, deleted, node, call>>
    BY <1>4 DEF Pick, history
  <2>2. Ordered'
    BY <1>o, <2>1 DEF Ordered
  <2>3. m_sql_exec_queue = <<victim'>>
    BY <1>t, <1>o, <2>1, FrontAndBack
  <2>4. DeletedForGood'
    BY <1>d, <2>1, <2>3 DEF DeletedForGood
  <2>5. QED
    BY <2>2, <2>4
<1>5. CASE DeleteNode
  <2>1. victim # None /\ victim' = None /\ UNCHANGED <<accepted, executed, node, call>>
    BY <1>5 DEF DeleteNode, SqlIInv, SqlTypeOK
  <2>2. /\ m_sql_exec_queue = <<victim>> /\ 1 \in DOMAIN m_sql_exec_queue
        /\ m_sql_exec_queue[1] = victim /\ victim \in Statements
    BY <1>d, <1>t, <2>1
  <2>3. m_sql_exec_queue # <<>>
    BY <2>2
  <2>4. m_sql_exec_queue' = <<>>
    BY <1>5, <1>t, <2>2, <2>3 DEF DeleteNode, Pop
  <2>5. DOMAIN m_sql_exec_queue' = {} /\ Len(m_sql_exec_queue') = 0
    BY <2>4
  <2>6. deleted' = [deleted EXCEPT ![victim] = @ + 1]
    BY <1>5, <2>3 DEF DeleteNode
  <2>7. Ordered'
    BY <1>o, <2>1, <2>5 DEF Ordered
  <2>8. \A t \in SqlThreads : node[t] # None => deleted'[node[t]] = 0
    BY <1>d, <1>t, <2>2, <2>6
  <2>9. \A s \in Statements : deleted'[s] > 0 => call[s] \in {"set", "done"}
    BY <1>d, <1>t, <2>2, <2>6
  <2>10. DeletedForGood'
    BY <1>d, <2>1, <2>5, <2>8, <2>9 DEF DeletedForGood
  <2>11. QED
    BY <2>7, <2>10
<1>6. CASE /\ ~ Pick /\ ~ DeleteNode /\ \A s \in Statements : ~ Push(s)
           /\ \A t \in SqlThreads : ~ Take(t) /\ ~ Exec(t)
  <2>1. /\ UNCHANGED <<m_sql_exec_queue, accepted, executed, deleted, node, victim>>
        /\ \A s \in Statements : call[s] \in {"set", "done"} => call'[s] \in {"set", "done"}
    BY <1>6, OrderLeft
  <2>2. Ordered'
    BY <1>o, <2>1 DEF Ordered
  <2>3. /\ \A k \in DOMAIN m_sql_exec_queue : m_sql_exec_queue[k] \in Statements
        /\ \A t \in SqlThreads : node[t] # None => node[t] \in Statements
    BY <1>t
  <2>4. DeletedForGood'
    BY <1>d, <2>1, <2>3 DEF DeletedForGood
  <2>5. QED
    BY <2>2, <2>4
<1>7. QED
  BY <1>1, <1>2, <1>3, <1>4, <1>5, <1>6

LEMMA SqlIInvNext == SqlIInv /\ [SqlNext]_sqlVars => SqlIInv'
<1> SUFFICES ASSUME SqlIInv, [SqlNext]_sqlVars PROVE SqlIInv'
  OBVIOUS
<1>1. CASE SqlNext
  BY <1>1, SqlTypesKept, HandleStays, UnopenedStays, EventsStayBacked, OneThreadStays, OrderStays,
     RaceStays DEF SqlIInv
<1>2. CASE UNCHANGED sqlVars
  <2> USE <1>2 DEF sqlVars, own, history, SqlIInv
  <2>1. SqlTypeOK' /\ Recorded'
    BY DEF SqlTypeOK, Recorded
  <2>2. HandleKept' /\ Unopened' /\ OneThread' /\ UndefinedNeedsRace'
    BY DEF HandleKept, Unopened, OneThread, UndefinedNeedsRace
  <2>3. EventsBacked'
    <3>1. Announced' = Announced
      BY DEF Announced
    <3>2. QED
      BY <3>1 DEF EventsBacked, Defined
  <2>4. Ordered'
    BY DEF Ordered, Before
  <2>5. DeletedForGood'
    BY DEF DeletedForGood
  <2>6. QED
    BY <2>1, <2>2, <2>3, <2>4, <2>5
<1>3. QED
  BY <1>1, <1>2

LEMMA SqlAlways == SqlSpec => []SqlIInv
<1>1. SqlInit => SqlIInv
  BY SqlInitIInv
<1>2. SqlIInv /\ [SqlNext]_sqlVars => SqlIInv'
  BY SqlIInvNext
<1>3. QED
  BY <1>1, <1>2, PTL DEF SqlSpec

\* _SqlexecThreadProc executes the statements in the order ExecSqlInStack queued
\* them, each once, unless two were in the queue at a time or a thread outlived
\* CloseStack: for any number of statements, of callers and of reopenings.
THEOREM AlwaysInOrderUnlessCrowded == SqlSpec => []InOrderUnlessCrowded
<1>1. SqlIInv => InOrderUnlessCrowded
  BY DEF SqlIInv, Ordered, InOrderUnlessCrowded, Before
<1>2. QED
  BY <1>1, SqlAlways, PTL

\* The thread of a running stack has been started and has not ended.
Runs == m_bthreadRunning => thread[m_stackThread] \in {"loop", "test", "wait", "take", "exec"}

LEMMA RunsStays == ASSUME SqlIInv, Runs, SqlNext PROVE Runs'
<1> USE SqlStackAssumption DEF SqlIInv, SqlTypeOK, HandleKept, own
<1>1. m_bthreadRunning => m_stackThread \in SqlThreads
  BY DEF SqlThreads
<1>2. ASSUME NEW t \in SqlThreads, ThreadProc(t) PROVE Runs'
  <2>1. UNCHANGED <<m_bthreadRunning, m_stackThread>>
    BY <1>2, LivingThread
  <2>2. \A u \in SqlThreads : u # t => thread'[u] = thread[u]
    BY <1>2 DEF ThreadProc, Loop, Test, Wait, Take, Exec
  <2>3. m_bthreadRunning => thread'[t] \in {"loop", "test", "wait", "take", "exec"}
    BY <1>2 DEF ThreadProc, Loop, Test, Wait, Take, Exec
  <2>4. QED
    BY <1>1, <2>1, <2>2, <2>3 DEF Runs
<1>3. CASE OpenStack
  <2>1. opens' \in SqlThreads /\ m_stackThread' = opens'
        /\ thread' = [thread EXCEPT ![opens'] = "loop"]
    BY <1>3 DEF OpenStack, SqlThreads
  <2>2. QED
    BY <2>1 DEF Runs
<1>4. ASSUME NEW s \in Statements, ExecSqlInStack(s) \/ Push(s) \/ Announce(s) PROVE Runs'
  BY <1>4 DEF ExecSqlInStack, Push, Announce, Runs
<1>5. CASE CloseStack \/ Pick \/ DeleteNode \/ Closed
  BY <1>5 DEF CloseStack, Pick, DeleteNode, Closed, Runs
<1>6. CASE StopRunning \/ Waited
  BY <1>6 DEF StopRunning, Waited, Runs
<1>7. QED
  BY <1>2, <1>3, <1>4, <1>5, <1>6 DEF SqlNext, Closing

\* A thread sleeps only after it has found the queue empty; the call that has put
\* a statement there since is still to set the event, or has set it.
LEMMA EventStays == ASSUME SqlIInv, Runs, NoMissedEvent, SqlNext PROVE NoMissedEvent'
<1> USE SqlStackAssumption DEF SqlIInv, SqlTypeOK, HandleKept, own, Defined
<1> DEFINE Looks(t) == \/ thread[t] \in {"loop", "test", "take", "exec"}
                       \/ thread[t] = "wait" /\ (m_hEvent \/ \E s \in Statements : call[s] = "set")
<1>1. NoMissedEvent <=> (m_sql_exec_queue # <<>> /\ m_bthreadRunning /\ Defined
                           => \E t \in SqlThreads : Looks(t))
  BY DEF NoMissedEvent
<1>2. NoMissedEvent' <=> ((m_sql_exec_queue # <<>>)' /\ m_bthreadRunning' /\ Defined'
                           => \E t \in SqlThreads : Looks(t)')
  BY DEF NoMissedEvent
<1>3. m_bthreadRunning => m_stackThread \in SqlThreads
  BY DEF SqlThreads
<1>4. ASSUME NEW t \in SqlThreads, ThreadProc(t) PROVE NoMissedEvent'
  <2>1. UNCHANGED <<m_bthreadRunning, call>>
    BY <1>4 DEF ThreadProc, Loop, Test, Wait, Take, Exec
  <2>2. CASE Loop(t) \/ Wait(t) \/ Exec(t) \/ Take(t)
    <3>1. m_bthreadRunning /\ Defined' => thread'[t] \in {"loop", "test", "take", "exec"}
      BY <2>2 DEF Loop, Wait, Exec, Take
    <3>2. QED
      BY <1>2, <2>1, <3>1
  <2>3. CASE Test(t)
    <3>1. UNCHANGED m_sql_exec_queue
          /\ (m_sql_exec_queue # <<>> => thread'[t] = "take")
      BY <2>3 DEF Test
    <3>2. QED
      BY <1>2, <3>1
  <2>4. QED
    BY <1>4, <2>2, <2>3 DEF ThreadProc
<1>5. ASSUME NEW s \in Statements, ExecSqlInStack(s) PROVE NoMissedEvent'
  <2>1. UNCHANGED <<m_sql_exec_queue, m_hEvent, m_bthreadRunning, thread, undefined>>
        /\ \A r \in Statements : call[r] = "set" => call'[r] = "set"
    BY <1>5 DEF ExecSqlInStack
  <2>2. \A t \in SqlThreads : Looks(t) => Looks(t)'
    BY <2>1
  <2>3. QED
    BY <1>1, <1>2, <2>1, <2>2
<1>6. ASSUME NEW s \in Statements, Push(s) PROVE NoMissedEvent'
  <2>1. call'[s] = "set" /\ UNCHANGED <<m_bthreadRunning, thread, m_stackThread>>
    BY <1>6 DEF Push
  <2>2. m_bthreadRunning => Looks(m_stackThread)'
    BY <1>3, <2>1 DEF Runs
  <2>3. QED
    BY <1>2, <1>3, <2>1, <2>2
<1>7. ASSUME m_hEvent', UNCHANGED <<m_bthreadRunning, thread, m_stackThread>> PROVE NoMissedEvent'
  <2>1. m_bthreadRunning => Looks(m_stackThread)'
    BY <1>3, <1>7 DEF Runs
  <2>2. QED
    BY <1>2, <1>3, <1>7, <2>1
<1>8. ASSUME NEW s \in Statements, Announce(s) PROVE NoMissedEvent'
  BY <1>7, <1>8 DEF Announce, SetEvent
<1>9. CASE OpenStack
  <2>1. opens' \in SqlThreads /\ thread'[opens'] = "loop"
    BY <1>9 DEF OpenStack, SqlThreads
  <2>2. QED
    BY <1>2, <2>1
<1>10. CASE CloseStack
  <2>1. UNCHANGED <<m_sql_exec_queue, m_bthreadRunning, thread, call, undefined, m_stackThread>>
        /\ (m_hEvent => m_hEvent')
    BY <1>10 DEF CloseStack
  <2>2. \A t \in SqlThreads : Looks(t) => Looks(t)'
    BY <2>1
  <2>3. QED
    BY <1>1, <1>2, <2>1, <2>2
<1>11. CASE Closing
  <2>1. ~ m_bthreadRunning' \/ owner = "drain" \/ owner = "picked" \/ owner = "wait"
    BY <1>11 DEF Closing, StopRunning, Waited, Pick, DeleteNode, Closed
  <2>2. ~ m_bthreadRunning'
    BY <1>11, <2>1 DEF Closing, StopRunning, Waited, Pick, DeleteNode, Closed
  <2>3. QED
    BY <1>2, <2>2
<1>12. QED
  BY <1>4, <1>5, <1>6, <1>8, <1>9, <1>10, <1>11 DEF SqlNext

\* The event of _SqlexecThreadProc is never missed: while the stack runs and has a
\* statement in its queue, a thread is on its way there or will be woken, for any
\* number of statements, of callers and of reopenings.
THEOREM NoEventIsMissed == SqlSpec => []NoMissedEvent
<1>1. SqlInit => Runs /\ NoMissedEvent
  BY DEF SqlInit, Runs, NoMissedEvent
<1>2. SqlIInv /\ Runs /\ NoMissedEvent /\ [SqlNext]_sqlVars => Runs' /\ NoMissedEvent'
  <2>1. CASE UNCHANGED sqlVars
    BY <2>1 DEF sqlVars, own, Runs, NoMissedEvent, Defined
  <2>2. QED
    BY <2>1, RunsStays, EventStays
<1>3. QED
  BY <1>1, <1>2, SqlAlways, PTL DEF SqlSpec

\* pop and back of an empty queue, and the use or second deletion of a node, happen
\* in the named races of _SqlexecThreadProc and CloseStack and in no other way.
THEOREM UndefinedAlwaysNeedsRace == SqlSpec => []UndefinedNeedsRace
<1>1. SqlIInv => UndefinedNeedsRace
  BY DEF SqlIInv
<1>2. QED
  BY <1>1, SqlAlways, PTL

=============================================================================
