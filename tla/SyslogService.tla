----------------------------- MODULE SyslogService -----------------------------
(***************************************************************************)
(* RSyslog/Win32/Main.hs: the log server as a Windows service.  svcMain,   *)
(* the control handler, and the thread svcMain forks share the MVars       *)
(* gState, mStop, svrSock and terminate; the service control manager (SCM) *)
(* sees what they report.                                                  *)
(***************************************************************************)
EXTENDS SyslogServer

VARIABLES
  gState,     \* MVar gState: the checkpoint counter and the service status
  scm,        \* the status the SCM was last told
  mStop,      \* MVar mStop is full
  main,       \* where svcMain is
  ctrl        \* where the control handler is

serviceVars == <<gState, scm, mStop, main, ctrl>>
vars == <<serverVars, serviceVars>>

States == {"StartPending", "Running", "StopPending", "Stopped"}

\* Threads run until the process is gone.
Alive == main \notin {"exited", "failed"}

\* A service that accepts Stop while it is stopping.
NextStateAccepting(checkPoint, s) ==
  CASE s \in {"Running", "Stopped"} ->
         [next |-> checkPoint,
          status |-> [state |-> s, accepts |-> s = "Running", checkPoint |-> 0]]
    [] OTHER ->
         [next |-> checkPoint + 1,
          status |-> [state |-> s, accepts |-> TRUE, checkPoint |-> checkPoint + 1]]

\* The status of a service that is in state s, after nextState: what it accepts
\* and the checkpoint it shows.
NextState(checkPoint, s) ==
  CASE s \in {"Running", "Stopped"} ->
         [next |-> checkPoint,
          status |-> [state |-> s, accepts |-> s = "Running", checkPoint |-> 0]]
    [] OTHER ->
         [next |-> checkPoint + 1,
          status |-> [state |-> s, accepts |-> FALSE, checkPoint |-> checkPoint + 1]]

\* A report that is not kept.
ReportUnsaved(s) ==
  /\ gState' = gState
  /\ scm' = NextState(gState.next, s).status

\* modifyMVar_ holds gState while it tells the SCM: reports do not overlap.
ReportSvcStatus(s) ==
  LET new == NextState(gState.next, s)
  IN  /\ gState' = new
      /\ scm' = new.status

--------------------------------------------------------------------------------
(* svcMain, a statement at a time. *)

Goto(from, to) == main = from /\ main' = to

ReportRunning ==
  /\ Goto("start", "create")
  /\ ReportSvcStatus("Running")
  /\ UNCHANGED <<serverVars, mStop, ctrl>>

SvcCreateServer ==
  /\ Goto("create", "fork")
  /\ CreateServer
  /\ UNCHANGED <<thread, gState, scm, mStop, ctrl>>

\* The directory or the log file cannot be made: the exception ends svcMain and,
\* by GHC's handler for callbacks, the process.
CreateServerFails ==
  /\ Goto("create", "failed")
  /\ UNCHANGED <<serverVars, gState, scm, mStop, ctrl>>

ForkServer ==
  /\ Goto("fork", "wait")
  /\ server' = "bind"
  /\ UNCHANGED <<clock, logVars, output, network, svrSock, terminate, cause, msg, h>>
  /\ UNCHANGED <<gState, scm, mStop, ctrl>>

\* A svcMain that closes the socket without setting terminate.
TakeStopAndClose ==
  /\ Goto("wait", "close")
  /\ mStop
  /\ mStop' = FALSE
  /\ UNCHANGED <<serverVars, gState, scm, ctrl>>

TakeStop ==
  /\ Goto("wait", "terminate")
  /\ mStop
  /\ mStop' = FALSE
  /\ UNCHANGED <<serverVars, gState, scm, ctrl>>

\* A svcMain that leaves the socket to the end of the process.
SetTerminateAndReport ==
  /\ Goto("terminate", "report")
  /\ terminate' = TRUE
  /\ UNCHANGED <<clock, logVars, output, network, svrSock, thread>>
  /\ UNCHANGED <<gState, scm, mStop, ctrl>>

SetTerminate ==
  /\ Goto("terminate", "close")
  /\ terminate' = TRUE
  /\ UNCHANGED <<clock, logVars, output, network, svrSock, thread>>
  /\ UNCHANGED <<gState, scm, mStop, ctrl>>

\* readMVar svrSock waits until the server thread has bound its socket.
CloseSocket ==
  /\ Goto("close", "report")
  /\ svrSock # "empty"
  /\ svrSock' = "closed"
  /\ UNCHANGED <<clock, logVars, output, network, terminate, thread>>
  /\ UNCHANGED <<gState, scm, mStop, ctrl>>

\* Nobody is left to fill svrSock: BlockedIndefinitelyOnMVar.
SocketNeverBound ==
  /\ Goto("close", "failed")
  /\ svrSock = "empty"
  /\ server = "died"
  /\ UNCHANGED <<serverVars, gState, scm, mStop, ctrl>>

ReportStopped ==
  /\ Goto("report", "exit")
  /\ ReportSvcStatus("Stopped")
  /\ UNCHANGED <<serverVars, mStop, ctrl>>

\* exitSuccess: the process is gone, and every thread with it.
Exit ==
  /\ Goto("exit", "exited")
  /\ UNCHANGED <<serverVars, gState, scm, mStop, ctrl>>

SvcMain ==
  \/ ReportRunning
  \/ SvcCreateServer \/ CreateServerFails
  \/ ForkServer
  \/ TakeStop
  \/ SetTerminate
  \/ CloseSocket \/ SocketNeverBound
  \/ ReportStopped
  \/ Exit

--------------------------------------------------------------------------------
(* svcCtrlHandler.  The SCM sends Stop to a service that accepts it. *)

\* A handler that wakes svcMain before it reports.
StopControlWakesFirst ==
  /\ Alive
  /\ ctrl = "idle"
  /\ scm.accepts
  /\ ctrl' = "stop"
  /\ mStop' = TRUE
  /\ UNCHANGED <<serverVars, gState, scm, main>>

StopControl ==
  /\ Alive
  /\ ctrl = "idle"
  /\ scm.accepts
  /\ ctrl' = "stop"
  /\ UNCHANGED <<serverVars, gState, scm, mStop, main>>

ReportStopPending ==
  /\ Alive
  /\ ctrl = "stop"
  /\ ReportSvcStatus("StopPending")
  /\ ctrl' = "put"
  /\ UNCHANGED <<serverVars, mStop, main>>

PutStop ==
  /\ Alive
  /\ ctrl = "put"
  /\ ~mStop
  /\ mStop' = TRUE
  /\ ctrl' = "idle"
  /\ UNCHANGED <<serverVars, gState, scm, main>>

CtrlHandler == ReportStopPending \/ PutStop

--------------------------------------------------------------------------------
Init ==
  /\ ServerInit
  /\ ~console
  /\ server = "create"
  /\ gState = [next |-> 1,
               status |-> [state |-> "StartPending", accepts |-> FALSE, checkPoint |-> 0]]
  /\ scm = gState.status
  /\ mStop = FALSE
  /\ main = "start"
  /\ ctrl = "idle"

Server == Alive /\ ServerStep /\ UNCHANGED serviceVars

ServerRefused == Alive /\ SystemRefuses /\ UNCHANGED serviceVars

\* recvFrom on the socket that svcMain closed.
RecvFails ==
  /\ Alive
  /\ server = "recv"
  /\ svrSock = "closed"
  /\ Die("socket")
  /\ UNCHANGED <<clock, logVars, output, network, svrSock, terminate, msg, h>>
  /\ UNCHANGED serviceVars

Background == Alive /\ (CloserStep \/ Surroundings) /\ UNCHANGED serviceVars

Next ==
  \/ SvcMain
  \/ StopControl
  \/ CtrlHandler
  \/ Server \/ ServerRefused
  \/ RecvFails
  \/ Background

Spec == Init /\ [][Next]_vars

\* Each thread of the process keeps running as long as it can; the SCM, the
\* clock and the senders owe nothing.
FairSpec ==
  /\ Spec
  /\ WF_vars(SvcMain)
  /\ WF_vars(CtrlHandler)
  /\ WF_vars(Server \/ RecvFails)

--------------------------------------------------------------------------------
ServiceTypeOK ==
  /\ TypeOK
  /\ gState.next \in Nat
  /\ scm \in [state : States, accepts : BOOLEAN, checkPoint : Nat]
  /\ gState.status = scm
  /\ mStop \in BOOLEAN
  /\ main \in {"start", "create", "fork", "wait", "terminate", "close", "report",
               "exit", "exited", "failed"}
  /\ ctrl \in {"idle", "stop", "put"}

Rank(s) ==
  CASE s = "StartPending" -> 0
    [] s = "Running" -> 1
    [] s = "StopPending" -> 2
    [] s = "Stopped" -> 3

\* Two threads report to the SCM, svcMain and the control handler
\* (Win32/Main.hs:35, 46 and 74); however they interleave, the SCM sees the
\* states in their order, each at most once, and never a service that comes
\* back from stopping.
StatusOnlyAdvances ==
  [][scm' # scm => Rank(scm'.state) = Rank(scm.state) + 1]_scm

\* Stopped is the last word: by then the server thread has been told to stop
\* and its socket is closed, so no later datagram is received
\* (Win32/Main.hs:42-46).
StoppedMeansSilent ==
  scm.state = "Stopped" => terminate /\ svrSock = "closed"

\* The socket is closed under the server thread only after terminate is set: a
\* thread that survives the close stops at its next test (UDPServer.hs:91-92).
ClosedMeansTerminating ==
  /\ svrSock = "closed" => terminate
  /\ cause = "socket" => terminate

BeforeStop == {"create", "fork", "wait", "failed"}
Stopping   == {"terminate", "close", "report"}
AfterStop  == {"exit", "exited"}

\* One Stop travels from the SCM through the handler and mStop to svcMain, is
\* in one place at a time and is never sent twice, so the handler never waits
\* for room in mStop (Win32/Main.hs:40 and 73-75).
OneStopInTransit ==
  /\ ctrl = "stop" => scm.state = "Running" /\ ~mStop /\ main \in BeforeStop
  /\ ctrl = "put" => scm.state = "StopPending" /\ ~mStop /\ main \in BeforeStop
  /\ mStop => ctrl = "idle" /\ scm.state = "StopPending" /\ main \in BeforeStop
  /\ main \in Stopping => ctrl = "idle" /\ scm.state = "StopPending" /\ ~mStop

\* What svcMain has done by each of its statements.
Progress ==
  /\ main = "start" <=> scm.state = "StartPending"
  /\ main \in AfterStop <=> scm.state = "Stopped"
  /\ scm.accepts => scm.state = "Running"
  /\ main \in {"start", "create", "fork"} => server = "create"
  /\ server \in {"create", "bind"} => svrSock = "empty"
  /\ main \in {"close", "report"} \union AfterStop => terminate
  /\ main \in {"report"} \union AfterStop => svrSock = "closed"
  /\ svrSock = "closed" => terminate
  /\ cause = "socket" => svrSock = "closed"

\* The inductive invariant of the proofs.
IInv ==
  /\ main \in {"start"} \union BeforeStop \union Stopping \union AfterStop
  /\ ctrl \in {"idle", "stop", "put"}
  /\ scm.state \in States
  /\ OneStopInTransit
  /\ Progress

\* A service that was told to stop reports Stopped, unless svcMain died before:
\* createServer failed, or the socket was never bound (Win32/Main.hs:40-46).
StopIsAnswered ==
  scm.state = "StopPending" ~> scm.state = "Stopped" \/ main = "failed"
================================================================================
