--------------------------- MODULE ServiceControl ---------------------------
(***************************************************************************)
(* Service.cpp: the server as a Windows service.  ServiceMain, the work    *)
(* thread it starts and the control handler each report a status; all      *)
(* write g_srvstatus, and none takes a lock.  ReinstallService, in another *)
(* process, stops and removes the service and installs it again.  Windows' *)
(* service manager (scm) is external.                                      *)
(***************************************************************************)
EXTENDS Integers

CONSTANTS MaxControls,  \* bound: controls Windows sends
          MaxFailures   \* bound: calls of SetServiceStatus that fail

ASSUME ServiceAssumption == MaxControls \in Nat /\ MaxFailures \in Nat

VARIABLES g_srvstatus,      \* dwCurrentState and dwControlsAccepted
          g_servicethread,  \* is not NULL
          pc,               \* where each thread of the service is
          arg,              \* what its ReportStatus is to report
          scm,              \* the status Windows was told last
          entry,            \* the service in the manager's database
          admin,            \* where ReinstallService is
          controls,         \* controls sent so far
          failures,         \* calls of SetServiceStatus that failed so far
          overlap,          \* history: a control was handled during the last
                            \* report of the work thread
          stopped,          \* history: RemoveService's control was accepted
          timedOut,         \* history: ... and not answered in time
          callFailed        \* history: QueryServiceStatus, or a call without
                            \* which InstallService creates no entry, failed

service == <<g_srvstatus, g_servicethread, pc, arg>>
remove == <<entry, admin, stopped, timedOut, callFailed>>
bounds == <<controls, failures>>
vars == <<service, scm, remove, bounds, overlap>>

States == {"none", "START_PENDING", "RUNNING", "STOP_PENDING", "STOPPED"}
Status == [state : States, stop : BOOLEAN]
Threads == {"ServiceMain", "ServiceWorkThread", "ServiceCtrl"}
Reporting == {"accept", "record", "tell"}

Init ==
    /\ g_srvstatus = [state |-> "none", stop |-> FALSE]
    /\ g_servicethread = FALSE
    /\ pc = [t \in Threads |-> IF t = "ServiceMain" THEN "begin"
                               ELSE IF t = "ServiceWorkThread" THEN "none" ELSE "idle"]
    /\ arg = [t \in Threads |-> "none"]
    /\ scm = [state |-> "START_PENDING", stop |-> FALSE]
    /\ entry = "present" /\ admin = "begin"
    /\ controls = 0 /\ failures = 0
    /\ overlap = FALSE /\ stopped = FALSE /\ timedOut = FALSE /\ callFailed = FALSE

Goto(t, place) == pc' = [pc EXCEPT ![t] = place]

-----------------------------------------------------------------------------
(* ReportStatus(state), called by thread t.                                *)

Report(t, state) ==
    /\ pc' = [pc EXCEPT ![t] = "accept"]
    /\ arg' = [arg EXCEPT ![t] = state]

\* No controls, please, in the start state.
Accepts(t) ==
    /\ pc[t] = "accept"
    /\ g_srvstatus' = [g_srvstatus EXCEPT !.stop = (arg[t] # "START_PENDING")]
    /\ Goto(t, "record")
    /\ UNCHANGED <<g_servicethread, arg, scm, remove, bounds, overlap>>

RecordsUnlessPending(t) ==
    /\ pc[t] = "record"
    /\ g_srvstatus' = IF g_srvstatus.state = "STOP_PENDING" THEN g_srvstatus
                      ELSE [g_srvstatus EXCEPT !.state = arg[t]]
    /\ Goto(t, "tell")
    /\ UNCHANGED <<g_servicethread, arg, scm, remove, bounds, overlap>>

Records(t) ==
    /\ pc[t] = "record"
    /\ g_srvstatus' = [g_srvstatus EXCEPT !.state = arg[t]]
    /\ Goto(t, "tell")
    /\ UNCHANGED <<g_servicethread, arg, scm, remove, bounds, overlap>>

\* Where a thread goes on when ReportStatus returns TRUE, or FALSE.
After(t, result) ==
    CASE t = "ServiceCtrl" -> "idle"
      [] t = "ServiceMain" /\ arg[t] = "START_PENDING" ->
           IF result THEN "create" ELSE "failed"
      [] t = "ServiceWorkThread" /\ arg[t] = "RUNNING" ->
           IF result THEN "WinAppMain" ELSE "ended"
      [] OTHER -> "ended"

\* The entry of a stopped service that is marked for deletion goes away.
Kept(e, state) == IF e = "marked" /\ state = "STOPPED" THEN "absent" ELSE e

\* SetServiceStatus.
Tells(t) ==
    /\ pc[t] = "tell"
    /\ scm' = g_srvstatus
    /\ entry' = Kept(entry, g_srvstatus.state)
    /\ Goto(t, After(t, TRUE))
    /\ UNCHANGED <<g_srvstatus, g_servicethread, arg, admin, stopped, timedOut,
                   callFailed, bounds, overlap>>

\* It fails; it may also be that Windows takes no report after STOPPED.
Fails(t) ==
    /\ pc[t] = "tell"
    /\ IF scm.state = "STOPPED" THEN UNCHANGED failures
       ELSE failures < MaxFailures /\ failures' = failures + 1
    /\ Goto(t, After(t, FALSE))
    /\ UNCHANGED <<g_srvstatus, g_servicethread, arg, scm, remove, controls, overlap>>

ReportStatus(t) == Accepts(t) \/ Records(t) \/ Tells(t) \/ Fails(t)

-----------------------------------------------------------------------------
(* ServiceMain.                                                            *)

Begins ==
    /\ pc["ServiceMain"] = "begin"
    /\ Report("ServiceMain", "START_PENDING")
    /\ UNCHANGED <<g_srvstatus, g_servicethread, scm, remove, bounds, overlap>>

\* RegisterServiceCtrlHandler fails.
NoHandler ==
    /\ pc["ServiceMain"] = "begin"
    /\ Goto("ServiceMain", "ended")
    /\ UNCHANGED <<g_srvstatus, g_servicethread, arg, scm, remove, bounds, overlap>>

GivesUp ==
    /\ pc["ServiceMain"] = "failed"
    /\ Report("ServiceMain", "STOPPED")
    /\ UNCHANGED <<g_srvstatus, g_servicethread, scm, remove, bounds, overlap>>

CreatesThread ==
    /\ pc["ServiceMain"] = "create"
    /\ pc' = [pc EXCEPT !["ServiceMain"] = "ended", !["ServiceWorkThread"] = "begin"]
    /\ UNCHANGED <<g_srvstatus, g_servicethread, arg, scm, remove, bounds, overlap>>

\* memcpy(argv[1], ...) writes where a second argument would be: the process
\* may end, which Windows notices.
ArgvCrash ==
    /\ pc["ServiceMain"] = "create"
    /\ pc' = [t \in Threads |-> IF t = "ServiceCtrl" THEN "idle" ELSE "dead"]
    /\ scm' = [state |-> "STOPPED", stop |-> FALSE]
    /\ entry' = Kept(entry, "STOPPED")
    /\ UNCHANGED <<g_srvstatus, g_servicethread, arg, admin, stopped, timedOut,
                   callFailed, bounds, overlap>>

ServiceMain == Begins \/ NoHandler \/ GivesUp \/ CreatesThread \/ ArgvCrash

-----------------------------------------------------------------------------
(* ServiceWorkThread.                                                      *)

SavesNothing ==
    /\ pc["ServiceWorkThread"] = "begin"
    /\ Report("ServiceWorkThread", "RUNNING")
    /\ UNCHANGED <<g_srvstatus, g_servicethread, scm, remove, bounds, overlap>>

\* As SavesThread, but the id is saved when RUNNING has been reported.
SavesLate ==
    \/ SavesNothing
    \/ /\ pc["ServiceWorkThread"] = "WinAppMain" /\ ~ g_servicethread
       /\ g_servicethread' = TRUE
       /\ UNCHANGED <<g_srvstatus, pc, arg, scm, remove, bounds, overlap>>

SavesThread ==
    /\ pc["ServiceWorkThread"] = "begin"
    /\ g_servicethread' = TRUE
    /\ Report("ServiceWorkThread", "RUNNING")
    /\ UNCHANGED <<g_srvstatus, scm, remove, bounds, overlap>>

\* WinAppMain returns, with a WM_QUIT or without: its body is return 0.
WinAppMainReturns ==
    /\ pc["ServiceWorkThread"] = "WinAppMain"
    /\ g_servicethread' = FALSE
    /\ Report("ServiceWorkThread", "STOPPED")
    /\ overlap' = (pc["ServiceCtrl"] # "idle")
    /\ UNCHANGED <<g_srvstatus, scm, remove, bounds>>

LastReport == /\ pc["ServiceWorkThread"] \in Reporting
              /\ arg["ServiceWorkThread"] = "STOPPED"

ServiceWorkThread == SavesThread \/ WinAppMainReturns

-----------------------------------------------------------------------------
(* ServiceCtrl, on the dispatcher's thread: one control at a time, and a   *)
(* stop only when the status Windows has says so.                          *)

Running == /\ pc["ServiceCtrl"] = "idle"
           /\ pc["ServiceMain"] # "dead"

TakesStop == Running /\ scm.state = "RUNNING" /\ scm.stop

Stop ==
    /\ TakesStop
    /\ Goto("ServiceCtrl", "stop")
    /\ overlap' = (overlap \/ LastReport)

SendsStop ==
    /\ controls < MaxControls /\ controls' = controls + 1
    /\ Stop
    /\ UNCHANGED <<g_srvstatus, g_servicethread, arg, scm, remove, failures>>

Interrogates ==
    /\ Running /\ scm.state \in {"RUNNING", "STOP_PENDING"}
    /\ controls < MaxControls /\ controls' = controls + 1
    /\ Goto("ServiceCtrl", "read")
    /\ overlap' = (overlap \/ LastReport)
    /\ UNCHANGED <<g_srvstatus, g_servicethread, arg, scm, remove, failures>>

StopPending ==
    /\ pc["ServiceCtrl"] = "stop"
    /\ g_srvstatus' = [g_srvstatus EXCEPT !.state = "STOP_PENDING"]
    /\ Goto("ServiceCtrl", "post")
    /\ UNCHANGED <<g_servicethread, arg, scm, remove, bounds, overlap>>

\* ServiceStop posts a WM_QUIT to the work thread, if there is one; nothing
\* but WinAppMain would look at it.
ServiceStop ==
    /\ pc["ServiceCtrl"] = "post"
    /\ Goto("ServiceCtrl", "read")
    /\ UNCHANGED <<g_srvstatus, g_servicethread, arg, scm, remove, bounds, overlap>>

\* The state to report is read before ReportStatus begins.
Reads ==
    /\ pc["ServiceCtrl"] = "read"
    /\ Report("ServiceCtrl", g_srvstatus.state)
    /\ UNCHANGED <<g_srvstatus, g_servicethread, scm, remove, bounds, overlap>>

ServiceCtrl == StopPending \/ ServiceStop \/ Reads

-----------------------------------------------------------------------------
(* ReinstallService: RemoveService, InstallService.                        *)

Idles(place) ==
    /\ admin' = place
    /\ UNCHANGED <<service, scm, bounds, overlap>>

\* ControlService(SERVICE_CONTROL_STOP): one control is handled at a time.
StopsService ==
    /\ admin = "begin"
    /\ Stop
    /\ admin' = "wait" /\ stopped' = TRUE
    /\ UNCHANGED <<g_srvstatus, g_servicethread, arg, scm, entry, timedOut, callFailed,
                   bounds>>

NotAccepted ==
    /\ admin = "begin"
    /\ ~ (scm.state = "RUNNING" /\ scm.stop)
    /\ Idles("delete")
    /\ UNCHANGED <<entry, stopped, timedOut, callFailed>>

Answered ==
    /\ admin = "wait" /\ pc["ServiceCtrl"] = "idle"
    /\ Idles("query")
    /\ UNCHANGED <<entry, stopped, timedOut, callFailed>>

NotAnswered ==
    /\ admin = "wait" /\ pc["ServiceCtrl"] # "idle"
    /\ timedOut' = TRUE
    /\ Idles("delete")
    /\ UNCHANGED <<entry, stopped, callFailed>>

QueriesOnce ==
    /\ admin = "query"
    /\ Idles("delete")
    /\ UNCHANGED <<entry, stopped, timedOut, callFailed>>

\* The loop around QueryServiceStatus is left: the stop is pending no more.
Queries ==
    /\ admin = "query" /\ scm.state # "STOP_PENDING"
    /\ Idles("delete")
    /\ UNCHANGED <<entry, stopped, timedOut, callFailed>>

\* DeleteService only marks the entry of a service that is not stopped.
DeletesService ==
    /\ admin = "delete"
    /\ entry' = Kept("marked", scm.state)
    /\ Idles("install")
    /\ UNCHANGED <<stopped, timedOut, callFailed>>

\* CreateService fails as long as the old entry is there.
InstallService ==
    /\ admin = "install"
    /\ entry' = IF entry = "absent" THEN "present" ELSE entry
    /\ Idles("done")
    /\ UNCHANGED <<stopped, timedOut, callFailed>>

RemoveService ==
    \/ StopsService \/ NotAccepted \/ Answered \/ NotAnswered
    \/ Queries \/ DeletesService

ReinstallService == RemoveService \/ InstallService

(* Any of the calls may fail for a reason of its own.                      *)

\* OpenSCManager or OpenService: RemoveService does nothing.
OpenFails ==
    /\ admin = "begin"
    /\ Idles("install")
    /\ UNCHANGED <<entry, stopped, timedOut, callFailed>>

\* ControlService: the service is deleted as it runs.
ControlFails ==
    /\ admin = "begin"
    /\ Idles("delete")
    /\ UNCHANGED <<entry, stopped, timedOut, callFailed>>

\* QueryServiceStatus: the loop is left, however the service is.
QueryFails ==
    /\ admin = "query"
    /\ callFailed' = TRUE
    /\ Idles("delete")
    /\ UNCHANGED <<entry, stopped, timedOut>>

\* DeleteService: the old entry stays.
DeleteFails ==
    /\ admin = "delete"
    /\ Idles("install")
    /\ UNCHANGED <<entry, stopped, timedOut, callFailed>>

\* GetModuleFileName, a path that is too long, OpenSCManager or CreateService:
\* InstallService returns without an entry of its own.
InstallFails ==
    /\ admin = "install"
    /\ callFailed' = TRUE
    /\ Idles("done")
    /\ UNCHANGED <<entry, stopped, timedOut>>

CallFails == OpenFails \/ ControlFails \/ QueryFails \/ DeleteFails \/ InstallFails

-----------------------------------------------------------------------------

Next == \/ \E t \in Threads : ReportStatus(t)
        \/ ServiceMain \/ ServiceWorkThread
        \/ SendsStop \/ Interrogates \/ ServiceCtrl
        \/ ReinstallService \/ CallFails

SafeSpec == Init /\ [][Next]_vars

\* The threads of the service run, and so does the caller of ReinstallService;
\* Windows need not send a control, and no call need fail.
Spec == /\ SafeSpec
        /\ \A t \in Threads : WF_vars(ReportStatus(t))
        /\ WF_vars(ServiceMain) /\ WF_vars(ServiceWorkThread) /\ WF_vars(ServiceCtrl)
        /\ WF_vars(ReinstallService)

-----------------------------------------------------------------------------
(* Properties.                                                             *)

TypeOK ==
    /\ g_srvstatus \in Status /\ scm \in Status
    /\ g_servicethread \in BOOLEAN
    /\ arg \in [Threads -> States]
    /\ \A t \in Threads : pc[t] \in Reporting =>
         t = "ServiceCtrl" \/ arg[t] \in {"START_PENDING", "RUNNING", "STOPPED"}
    /\ entry \in {"present", "marked", "absent"}
    /\ admin \in {"begin", "wait", "query", "delete", "install", "done"}
    /\ controls \in 0..MaxControls /\ failures \in 0..MaxFailures
    /\ overlap \in BOOLEAN /\ stopped \in BOOLEAN /\ timedOut \in BOOLEAN
    /\ callFailed \in BOOLEAN

\* A stop that finds no id of a work thread comes too late, when WinAppMain has
\* returned: none is accepted before RUNNING was reported, and the id has been
\* saved by then, by another thread.
StopFindsThread ==
    pc["ServiceCtrl"] = "post" /\ ~ g_servicethread
    => LastReport \/ pc["ServiceWorkThread"] = "ended"

Ended == pc["ServiceWorkThread"] = "ended" /\ pc["ServiceCtrl"] = "idle"

\* When the work thread has ended, Windows holds the service for stopped, unless
\* a control was handled during the thread's last report (both write
\* g_srvstatus) or SetServiceStatus failed.
StoppedIsTold ==
    /\ TypeOK
    /\ Ended /\ failures = 0 /\ ~ overlap => scm.state = "STOPPED"

\* RemoveService, which waits as long as the service says it is about to stop,
\* comes to its end, with the same provisos.
RemoveEnds ==
    admin = "query" ~> admin = "done" \/ overlap \/ failures > 0

\* When the service took the stop and answered it in time, and RemoveService was
\* told its state until it had stopped, ReinstallService leaves it installed: the
\* old entry is gone when the new one is created, or DeleteService failed.
ReinstallKeeps ==
    /\ admin = "done"
    /\ stopped /\ ~ timedOut /\ ~ overlap /\ failures = 0 /\ ~ callFailed
    => entry = "present"

=============================================================================
