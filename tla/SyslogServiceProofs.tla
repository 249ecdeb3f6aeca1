-------------------------- MODULE SyslogServiceProofs --------------------------
(***************************************************************************)
(* The Windows service, for any set of dates and any number of datagrams   *)
(* and changes of the date: its stop protocol, and what it keeps of the    *)
(* log server it runs.                                                     *)
(***************************************************************************)
EXTENDS SyslogService, SyslogServerProofs

\* The server thread binds once, and its own steps do not close its socket.
LEMMA ServerStepFacts ==
  ASSUME ServerStep
  PROVE  /\ terminate' = terminate
         /\ server # "create"
         /\ server' \notin {"create", "bind"}
         /\ svrSock' = svrSock \/ (server = "bind" /\ svrSock' = "open")
         /\ cause' = "socket" => cause = "socket"
BY DEF ServerStep, Bind, Recv, PlainHandler, SameDay, NewDay,
       OpenLogFile, OpenFails, WriteLine, WriteFails, CheckStop, Die

\* An exception ends it.
LEMMA RefusedFacts ==
  ASSUME SystemRefuses
  PROVE  /\ server # "create" /\ server' = "died" /\ cause' = "refused"
         /\ UNCHANGED <<terminate, svrSock>>
BY DEF SystemRefuses, Die

\* Nothing else touches what the service and the server thread share.
LEMMA BackgroundFacts ==
  ASSUME CloserStep \/ Surroundings
  PROVE  UNCHANGED <<terminate, server, svrSock, cause>>
BY DEF CloserStep, CloserRead, CloserClose, Surroundings, ClockChange, Arrive, Collect, thread

\* What a report leaves behind.
LEMMA ReportFacts ==
  ASSUME NEW s \in States, ReportSvcStatus(s)
  PROVE  scm'.state = s /\ (scm'.accepts => s = "Running")
BY DEF ReportSvcStatus, NextState, States

LEMMA InitIInv == Init => IInv
BY DEF Init, ServerInit, IInv, OneStopInTransit, Progress, States,
       BeforeStop, Stopping, AfterStop

\* One step of svcMain.
LEMMA SvcMainIInv ==
  ASSUME IInv, SvcMain
  PROVE  IInv'
<1> USE DEF IInv, OneStopInTransit, Progress, States, BeforeStop, Stopping, AfterStop, Goto
<1>1. CASE ReportRunning
  BY <1>1, ReportFacts DEF ReportRunning, serverVars, thread
<1>2. CASE SvcCreateServer
  BY <1>2 DEF SvcCreateServer, CreateServer, thread
<1>3. CASE CreateServerFails
  BY <1>3 DEF CreateServerFails, serverVars, thread
<1>4. CASE ForkServer
  BY <1>4 DEF ForkServer
<1>5. CASE TakeStop
  BY <1>5 DEF TakeStop, serverVars, thread
<1>6. CASE SetTerminate
  BY <1>6 DEF SetTerminate, thread
<1>7. CASE CloseSocket
  BY <1>7 DEF CloseSocket, thread
<1>8. CASE SocketNeverBound
  BY <1>8 DEF SocketNeverBound, serverVars, thread
<1>9. CASE ReportStopped
  BY <1>9, ReportFacts DEF ReportStopped, serverVars, thread
<1>10. CASE Exit
  BY <1>10 DEF Exit, serverVars, thread
<1>11. QED
  BY <1>1, <1>2, <1>3, <1>4, <1>5, <1>6, <1>7, <1>8, <1>9, <1>10 DEF SvcMain

\* One step of the control handler or of the SCM.
LEMMA HandlerIInv ==
  ASSUME IInv, StopControl \/ CtrlHandler
  PROVE  IInv'
<1> USE DEF IInv, OneStopInTransit, Progress, States, BeforeStop, Stopping, AfterStop
<1>1. CASE StopControl
  BY <1>1 DEF StopControl, serverVars, thread
<1>2. CASE ReportStopPending
  BY <1>2, ReportFacts DEF ReportStopPending, serverVars, thread
<1>3. CASE PutStop
  BY <1>3 DEF PutStop, serverVars, thread
<1>4. QED
  BY <1>1, <1>2, <1>3 DEF CtrlHandler

LEMMA NextIInv == IInv /\ [Next]_vars => IInv'
<1> SUFFICES ASSUME IInv, [Next]_vars
             PROVE  IInv'
  OBVIOUS
<1>1. CASE SvcMain
  BY <1>1, SvcMainIInv
<1>2. CASE StopControl \/ CtrlHandler
  BY <1>2, HandlerIInv
<1>3. CASE Server
  BY <1>3, ServerStepFacts
  DEF Server, serviceVars, IInv, OneStopInTransit, Progress, BeforeStop, Stopping, AfterStop
<1>4. CASE RecvFails \/ ServerRefused
  BY <1>4, RefusedFacts
  DEF RecvFails, Die, ServerRefused, serviceVars, IInv, OneStopInTransit, Progress
<1>5. CASE Background
  BY <1>5, BackgroundFacts
  DEF Background, serviceVars, IInv, OneStopInTransit, Progress
<1>6. CASE UNCHANGED vars
  BY <1>6 DEF vars, serverVars, serviceVars, thread, IInv, OneStopInTransit, Progress
<1>7. QED
  BY <1>1, <1>2, <1>3, <1>4, <1>5, <1>6 DEF Next

\* A Stop is in one place at a time and the handler never waits for room in
\* mStop (Win32/Main.hs:40 and 73-75).
THEOREM StopNeverDuplicated == Spec => []OneStopInTransit
<1>1. IInv => OneStopInTransit
  BY DEF IInv
<1>2. QED
  BY InitIInv, NextIInv, <1>1, PTL DEF Spec

\* When the SCM reads Stopped, the server thread was told to stop and its socket
\* is closed (Win32/Main.hs:42-46).
THEOREM StoppedIsSilent == Spec => []StoppedMeansSilent
<1>1. IInv => StoppedMeansSilent
  BY DEF IInv, Progress, StoppedMeansSilent, AfterStop
<1>2. QED
  BY InitIInv, NextIInv, <1>1, PTL DEF Spec

\* The socket is closed under the server thread only when terminate is set
\* (Win32/Main.hs:42-44).
THEOREM ClosedIsTerminating == Spec => []ClosedMeansTerminating
<1>1. IInv => ClosedMeansTerminating
  BY DEF IInv, Progress, ClosedMeansTerminating
<1>2. QED
  BY InitIInv, NextIInv, <1>1, PTL DEF Spec

\* However svcMain and the control handler interleave, the SCM sees the states
\* of the service in their order, each at most once (Win32/Main.hs:35, 46, 74).
THEOREM StatusAdvances == Spec => StatusOnlyAdvances
<1>1. IInv /\ [Next]_vars => [scm' # scm => Rank(scm'.state) = Rank(scm.state) + 1]_scm
  <2> SUFFICES ASSUME IInv, Next, scm' # scm
               PROVE  Rank(scm'.state) = Rank(scm.state) + 1
    BY DEF vars, serviceVars
  <2> USE DEF IInv, OneStopInTransit, Progress, States, BeforeStop, Stopping, AfterStop
  <2>1. CASE ReportRunning
    BY <2>1, ReportFacts DEF ReportRunning, Goto, Rank
  <2>2. CASE ReportStopped
    BY <2>2, ReportFacts DEF ReportStopped, Goto, Rank
  <2>3. CASE ReportStopPending
    BY <2>3, ReportFacts DEF ReportStopPending, Rank
  <2>4. QED
    BY <2>1, <2>2, <2>3
    DEF Next, SvcMain, CtrlHandler, SvcCreateServer, CreateServerFails, ForkServer, TakeStop,
        SetTerminate, CloseSocket, SocketNeverBound, Exit, StopControl, PutStop, Server,
        ServerRefused, RecvFails, Background, serviceVars
<1>2. QED
  BY InitIInv, NextIInv, <1>1, PTL DEF Spec, StatusOnlyAdvances

--------------------------------------------------------------------------------
(* The log server inside the service: svcMain creates it and another thread
   serves, and svcMain ends it from outside. *)

\* Between createServer and forkIO there is a handle and no server thread.
Forkable == main = "fork" => handles # <<>>

ServerInv == LogInv /\ Forkable

\* What svcMain and the handler leave alone.
LEMMA ServiceOnlyFacts ==
  ASSUME \/ ReportRunning \/ CreateServerFails \/ TakeStop \/ SocketNeverBound
         \/ ReportStopped \/ Exit \/ StopControl \/ CtrlHandler
  PROVE  \/ UNCHANGED serverVars /\ main' # "fork"
         \/ UNCHANGED <<serverVars, main>>
BY DEF ReportRunning, CreateServerFails, TakeStop, SocketNeverBound, ReportStopped, Exit,
       StopControl, CtrlHandler, ReportStopPending, PutStop, Goto

LEMMA UnchangedLogInv ==
  ASSUME LogInv, UNCHANGED serverVars
  PROVE  LogInv'
BY NextLogInv

\* forkIO, "putMVar terminate", "close" and recvFrom's exception.
LEMMA FromOutsideLogInv ==
  ASSUME IInv, ServerInv, ForkServer \/ SetTerminate \/ CloseSocket \/ RecvFails
  PROVE  LogInv'
<1> USE DEF ServerInv, LogInv, TypeOK, Rotation, Hand, Handles, IsOpen
<1>1. CASE ForkServer
  <2>1. server = "create" /\ handles # <<>>
    BY <1>1 DEF ForkServer, Goto, Forkable, IInv, Progress
  <2>2. QED
    BY <1>1, <2>1 DEF ForkServer, clock, logVars, output, network
<1>2. CASE SetTerminate
  BY <1>2 DEF SetTerminate, clock, logVars, output, network, thread
<1>3. CASE CloseSocket
  BY <1>3 DEF CloseSocket, clock, logVars, output, network, thread
<1>4. CASE RecvFails
  BY <1>4 DEF RecvFails, Die, clock, logVars, output, network
<1>5. QED
  BY <1>1, <1>2, <1>3, <1>4

\* The threads in the background leave a log that has a handle.
LEMMA StillHandles ==
  ASSUME LogInv, handles # <<>>, CloserStep \/ Surroundings
  PROVE  handles' # <<>>
<1>1. UNCHANGED handles \/ \E k \in Handles : handles' = [handles EXCEPT ![k].open = FALSE]
  BY FirstHandle
  DEF CloserStep, CloserRead, CloserClose, Surroundings, ClockChange, Arrive, Collect, logVars,
      LogInv, Rotation
<1>2. CASE UNCHANGED handles
  BY <1>2
<1>3. ASSUME NEW k \in Handles, handles' = [handles EXCEPT ![k].open = FALSE]
      PROVE  handles' # <<>>
  <2>1. k \in DOMAIN handles'
    BY <1>3 DEF Handles
  <2>2. QED
    BY <2>1
<1>4. QED
  BY <1>1, <1>2, <1>3

LEMMA NextServerInv == IInv /\ ServerInv /\ [Next]_vars => ServerInv'
<1> SUFFICES ASSUME IInv, ServerInv, [Next]_vars
             PROVE  ServerInv'
  OBVIOUS
<1>1. CASE \/ ReportRunning \/ CreateServerFails \/ TakeStop \/ SocketNeverBound
           \/ ReportStopped \/ Exit \/ StopControl \/ CtrlHandler
  <2>1. LogInv'
    BY <1>1, ServiceOnlyFacts, UnchangedLogInv DEF ServerInv
  <2>2. Forkable'
    BY <1>1, ServiceOnlyFacts DEF ServerInv, Forkable, serverVars, logVars
  <2>3. QED
    BY <2>1, <2>2 DEF ServerInv
<1>2. CASE SvcCreateServer
  <2>1. server = "create"
    BY <1>2 DEF SvcCreateServer, Goto, IInv, Progress
  <2>2. handles' # <<>> /\ UNCHANGED thread /\ CreateServer
    BY <1>2 DEF SvcCreateServer, CreateServer
  <2>3. LogInv'
    BY <2>1, <2>2, CreateServerLogInv DEF ServerInv, thread
  <2>4. QED
    BY <2>2, <2>3 DEF ServerInv, Forkable
<1>3. CASE ForkServer \/ SetTerminate \/ CloseSocket \/ RecvFails
  <2>1. Forkable'
    BY <1>3 DEF ForkServer, SetTerminate, CloseSocket, RecvFails, Goto, ServerInv, Forkable,
                logVars, serviceVars
  <2>2. QED
    BY <1>3, <2>1, FromOutsideLogInv DEF ServerInv
<1>4. CASE Server \/ ServerRefused \/ Background
  <2>1. ServerNext /\ UNCHANGED main
    BY <1>4 DEF Server, ServerRefused, Background, ServerNext, serviceVars
  <2>2. LogInv'
    BY <2>1, NextLogInv DEF ServerInv
  <2>3. main = "fork" => server = "create"
    BY DEF IInv, Progress
  <2>4. CASE main = "fork"
    <3>1. closers = <<>> /\ handles # <<>>
      BY <2>3, <2>4 DEF ServerInv, LogInv, Rotation, Forkable
    <3>2. handles' # <<>>
      BY <1>4, <2>3, <2>4, <3>1, ServerStepFacts, RefusedFacts, StillHandles
      DEF Server, ServerRefused, Background, ServerInv
    <3>3. QED
      BY <2>2, <3>2 DEF ServerInv, Forkable
  <2>5. CASE main # "fork"
    BY <2>1, <2>2, <2>5 DEF ServerInv, Forkable
  <2>6. QED
    BY <2>4, <2>5
<1>5. CASE UNCHANGED vars
  BY <1>5, UnchangedLogInv DEF vars, serviceVars, serverVars, logVars, ServerInv, Forkable
<1>6. QED
  BY <1>1, <1>2, <1>3, <1>4, <1>5 DEF Next, SvcMain

LEMMA InitServerInv == Init => ServerInv
BY InitLogInv DEF Init, ServerInv, Forkable

LEMMA InitOnceInService == Init => Once
BY InitOnce DEF Init

LEMMA NextOnceInService == ServerInv /\ Once /\ [Next]_vars => Once'
<1> SUFFICES ASSUME ServerInv, Once, [Next]_vars
             PROVE  Once'
  OBVIOUS
<1>1. CASE [ServerNext]_serverVars
  BY <1>1, NextOnce DEF ServerInv
<1>2. CASE UNCHANGED <<files, screen, rcvbuf, arrived, msg>>
  BY <1>2 DEF Once, Way, Apart, InOrder, Written
<1>3. CASE \/ ReportRunning \/ CreateServerFails \/ TakeStop \/ SocketNeverBound
           \/ ReportStopped \/ Exit \/ StopControl \/ CtrlHandler
  BY <1>1, <1>3, ServiceOnlyFacts
<1>4. CASE SvcCreateServer \/ ForkServer \/ SetTerminate \/ CloseSocket \/ RecvFails
  BY <1>2, <1>4
  DEF SvcCreateServer, CreateServer, ForkServer, SetTerminate, CloseSocket, RecvFails,
      output, network, thread
<1>5. CASE Server \/ ServerRefused \/ Background
  BY <1>1, <1>5 DEF Server, ServerRefused, Background, ServerNext
<1>6. CASE UNCHANGED vars
  BY <1>1, <1>6 DEF vars
<1>7. QED
  BY <1>3, <1>4, <1>5, <1>6 DEF Next, SvcMain

LEMMA ServerInvariant == Spec => [](ServerInv /\ Once)
BY InitIInv, NextIInv, InitServerInv, NextServerInv, InitOnceInService, NextOnceInService, PTL
DEF Spec

\* Stopping the service loses, doubles and reorders no datagram that is in its
\* hands: each is a line of one file, in the hand of the server thread or left in
\* the socket, in the order of arrival (Win32/Main.hs:35-46, UDPServer.hs:83-119).
THEOREM ServiceLosesNoDatagram == Spec => []EveryDatagramOnce
<1>1. ServerInv /\ Once => EveryDatagramOnce
  BY OnceIsEveryDatagram DEF ServerInv
<1>2. QED
  BY ServerInvariant, <1>1, PTL

\* What the service adds to the log server kills no thread in other ways.
LEMMA NextDeathInService ==
  IInv /\ ServerInv /\ DeathInv /\ [Next]_vars => DeathInv'
<1> SUFFICES ASSUME IInv, ServerInv, DeathInv, [Next]_vars
             PROVE  DeathInv'
  OBVIOUS
<1>1. CASE [ServerNext]_serverVars
  BY <1>1, NextDeath DEF ServerInv
<1>2. CASE \/ ReportRunning \/ CreateServerFails \/ TakeStop \/ SocketNeverBound
           \/ ReportStopped \/ Exit \/ StopControl \/ CtrlHandler
  BY <1>1, <1>2, ServiceOnlyFacts
<1>3. CASE SvcCreateServer
  <2>1. server = "create" /\ CreateServer /\ UNCHANGED thread
    BY <1>3 DEF SvcCreateServer, Goto, IInv, Progress
  <2>2. QED
    BY <2>1, CreateServerDeath DEF ServerInv, thread
<1>4. CASE ForkServer \/ SetTerminate \/ CloseSocket
  <2>1. /\ UNCHANGED <<date, handle, handles, closers, console, cause, h>>
        /\ server' = server \/ {server, server'} \intersect {"open", "died"} = {}
    BY <1>4 DEF ForkServer, SetTerminate, CloseSocket, Goto, IInv, Progress, logVars, output,
                thread
  <2>2. QED
    BY <2>1, QuietDeath
<1>5. CASE RecvFails
  BY <1>5
  DEF RecvFails, Die, logVars, output, DeathInv, Newest, KilledByRotation, SomeClosed, IsOpen
<1>6. CASE Server \/ ServerRefused \/ Background
  BY <1>1, <1>6 DEF Server, ServerRefused, Background, ServerNext
<1>7. CASE UNCHANGED vars
  BY <1>1, <1>7 DEF vars
<1>8. QED
  BY <1>2, <1>3, <1>4, <1>5, <1>6, <1>7 DEF Next, SvcMain

LEMMA InitDeathInService == Init => DeathInv
BY InitDeath DEF Init

\* As a service, too, the log kills the server thread only by a handle that a
\* closeFile thread closed and the MVar kept, or by a clock set back to a day whose
\* file is open (UDPServer.hs:105-119).
THEOREM ServiceKilledByRotationOnly == Spec => []KilledByRotation
<1>1. DeathInv => KilledByRotation
  BY DEF DeathInv
<1>2. Spec => []IInv
  BY InitIInv, NextIInv, PTL DEF Spec
<1>3. Spec => []DeathInv
  BY ServerInvariant, InitDeathInService, NextDeathInService, <1>2, PTL DEF Spec
<1>4. QED
  BY <1>1, <1>3, PTL

\* As a service, too, the threads that a rotation forks close no handle that
\* rotateLogFile has just returned (UDPServer.hs:113-116).
THEOREM ServiceKeepsNewHandle == Spec => []NewHandleStaysOpen
<1>1. ServerInv => NewHandleStaysOpen
  BY DEF ServerInv, LogInv, Rotation, NewHandleStaysOpen
<1>2. QED
  BY ServerInvariant, <1>1, PTL

--------------------------------------------------------------------------------
(* What the SCM reads. *)

Reports == [state : States, accepts : BOOLEAN, checkPoint : Nat]

\* gState holds what the SCM was told last.
Reported ==
  /\ gState.next \in Nat
  /\ scm \in Reports
  /\ gState.status = scm
  /\ mStop \in BOOLEAN

LEMMA ReportReported ==
  ASSUME NEW s \in States, gState.next \in Nat, ReportSvcStatus(s), mStop' \in BOOLEAN
  PROVE  Reported'
<1>1. NextState(gState.next, s).next \in Nat /\ NextState(gState.next, s).status \in Reports
  BY DEF NextState, Reports, States
<1>2. QED
  BY <1>1 DEF ReportSvcStatus, Reported

LEMMA NextReported == Reported /\ [Next]_vars => Reported'
<1> SUFFICES ASSUME Reported, [Next]_vars
             PROVE  Reported'
  OBVIOUS
<1>1. CASE ReportRunning
  BY <1>1, ReportReported DEF ReportRunning, Reported, States
<1>2. CASE ReportStopped
  BY <1>2, ReportReported DEF ReportStopped, Reported, States
<1>3. CASE ReportStopPending
  BY <1>3, ReportReported DEF ReportStopPending, Reported, States
<1>4. CASE TakeStop \/ PutStop
  BY <1>4 DEF TakeStop, PutStop, Reported
<1>5. CASE UNCHANGED <<gState, scm, mStop>>
  BY <1>5 DEF Reported
<1>6. QED
  BY <1>1, <1>2, <1>3, <1>4, <1>5
  DEF Next, SvcMain, CtrlHandler, SvcCreateServer, CreateServerFails, ForkServer,
      SetTerminate, CloseSocket, SocketNeverBound, Exit, StopControl, Server, ServerRefused,
      RecvFails, Background, vars, serviceVars

\* The state of the service keeps its types, and gState is what the SCM was told
\* last, for modifyMVar_ holds it over the call (Win32/Main.hs:51-55).
THEOREM ServiceTypeCorrect == Spec => []ServiceTypeOK
<1>1. Init => Reported
  <2> SUFFICES ASSUME Init
               PROVE  Reported
    OBVIOUS
  <2>1. gState.status = [state |-> "StartPending", accepts |-> FALSE, checkPoint |-> 0]
    BY DEF Init
  <2>2. gState.next = 1 /\ scm = gState.status
    BY DEF Init
  <2>3. [state |-> "StartPending", accepts |-> FALSE, checkPoint |-> 0] \in Reports
    BY DEF Reports, States
  <2>4. mStop \in BOOLEAN
    BY DEF Init
  <2>5. gState.next \in Nat /\ scm \in Reports /\ gState.status = scm
    BY <2>1, <2>2, <2>3
  <2>6. QED
    BY <2>4, <2>5 DEF Reported
<1>2. IInv /\ ServerInv /\ Reported => ServiceTypeOK
  BY DEF IInv, BeforeStop, Stopping, AfterStop, ServerInv, LogInv, Reported, Reports,
         ServiceTypeOK
<1>3. Spec => []Reported
  BY <1>1, NextReported, PTL DEF Spec
<1>4. Spec => []IInv
  BY InitIInv, NextIInv, PTL DEF Spec
<1>5. QED
  BY ServerInvariant, <1>2, <1>3, <1>4, PTL

--------------------------------------------------------------------------------
(* A Stop on its way arrives. *)

\* A Stop that the SCM was told is pending is in mStop, or the handler is about to
\* put it there, until svcMain takes it; and svrSock is empty only as long as a
\* server thread may still fill it, or died before it could.
StopIsOnItsWay ==
  /\ scm.state = "StopPending" /\ main \in BeforeStop \ {"failed"} => ctrl = "put" \/ mStop
  /\ svrSock = "empty" => server \in {"create", "bind", "died"}
  /\ main \in {"wait"} \union Stopping => server # "create"

\* Somebody can go on: the handler, svcMain, or the server thread that svcMain
\* waits for in readMVar svrSock.
StopCanProceed ==
  \/ ctrl = "put" /\ ~mStop
  \/ main \in {"create", "fork", "terminate", "report"}
  \/ main = "wait" /\ mStop
  \/ main = "close" /\ (svrSock # "empty" \/ server \in {"bind", "died"})

\* A service that is stopping and whose svcMain has not died is waiting for nothing
\* that cannot come.
NoStopIsStuck ==
  scm.state = "StopPending" => main = "failed" \/ StopCanProceed

LEMMA SvcMainOnItsWay ==
  ASSUME IInv, StopIsOnItsWay, SvcMain
  PROVE  StopIsOnItsWay'
<1> USE DEF IInv, OneStopInTransit, Progress, States, BeforeStop, Stopping, AfterStop, Goto,
            StopIsOnItsWay
<1>1. CASE ReportRunning
  BY <1>1, ReportFacts DEF ReportRunning, serverVars, thread
<1>2. CASE SvcCreateServer
  BY <1>2 DEF SvcCreateServer, CreateServer, thread
<1>3. CASE CreateServerFails
  BY <1>3 DEF CreateServerFails, serverVars, thread
<1>4. CASE ForkServer
  BY <1>4 DEF ForkServer
<1>5. CASE TakeStop
  BY <1>5 DEF TakeStop, serverVars, thread
<1>6. CASE SetTerminate
  BY <1>6 DEF SetTerminate, thread
<1>7. CASE CloseSocket
  BY <1>7 DEF CloseSocket, thread
<1>8. CASE SocketNeverBound
  BY <1>8 DEF SocketNeverBound, serverVars, thread
<1>9. CASE ReportStopped
  BY <1>9, ReportFacts DEF ReportStopped, serverVars, thread
<1>10. CASE Exit
  BY <1>10 DEF Exit, serverVars, thread
<1>11. QED
  BY <1>1, <1>2, <1>3, <1>4, <1>5, <1>6, <1>7, <1>8, <1>9, <1>10 DEF SvcMain

LEMMA HandlerOnItsWay ==
  ASSUME IInv, StopIsOnItsWay, StopControl \/ CtrlHandler
  PROVE  StopIsOnItsWay'
<1> USE DEF IInv, OneStopInTransit, Progress, States, BeforeStop, Stopping, AfterStop,
            StopIsOnItsWay
<1>1. CASE StopControl
  BY <1>1 DEF StopControl, serverVars, thread
<1>2. CASE ReportStopPending
  BY <1>2, ReportFacts DEF ReportStopPending, serverVars, thread
<1>3. CASE PutStop
  BY <1>3 DEF PutStop, serverVars, thread
<1>4. QED
  BY <1>1, <1>2, <1>3 DEF CtrlHandler

\* A server thread that goes beyond its bind has filled svrSock.
LEMMA BindFills ==
  ASSUME ServerStep, server = "bind"
  PROVE  svrSock' = "open" \/ server' = "died"
BY DEF ServerStep, Bind, Recv, PlainHandler, SameDay, NewDay,
       OpenLogFile, OpenFails, WriteLine, WriteFails, CheckStop, Die

LEMMA NextOnItsWay == IInv /\ StopIsOnItsWay /\ [Next]_vars => StopIsOnItsWay'
<1> SUFFICES ASSUME IInv, StopIsOnItsWay, [Next]_vars
             PROVE  StopIsOnItsWay'
  OBVIOUS
<1>1. CASE SvcMain
  BY <1>1, SvcMainOnItsWay
<1>2. CASE StopControl \/ CtrlHandler
  BY <1>2, HandlerOnItsWay
<1>3. CASE Server
  <2>1. ServerStep /\ UNCHANGED <<scm, mStop, main, ctrl>>
    BY <1>3 DEF Server, serviceVars
  <2>2. server = "died" => server' = "died"
    BY <2>1 DEF ServerStep, Bind, Recv, PlainHandler, SameDay, NewDay,
                OpenLogFile, OpenFails, WriteLine, WriteFails, CheckStop, Die
  <2>3. QED
    BY <2>1, <2>2, ServerStepFacts, BindFills DEF StopIsOnItsWay, BeforeStop, Stopping
<1>4. CASE RecvFails \/ ServerRefused
  BY <1>4, RefusedFacts
  DEF RecvFails, Die, ServerRefused, serviceVars, StopIsOnItsWay, BeforeStop, Stopping
<1>5. CASE Background
  BY <1>5, BackgroundFacts
  DEF Background, serviceVars, StopIsOnItsWay, BeforeStop, Stopping
<1>6. CASE UNCHANGED vars
  BY <1>6 DEF vars, serverVars, serviceVars, thread, StopIsOnItsWay, BeforeStop, Stopping
<1>7. QED
  BY <1>1, <1>2, <1>3, <1>4, <1>5, <1>6 DEF Next

\* The steps svcMain, the handler and the server thread have left until a service
\* that is stopping reports Stopped.
MainSteps == CASE main = "create"    -> 6
               [] main = "fork"      -> 5
               [] main = "wait"      -> 4
               [] main = "terminate" -> 3
               [] main = "close"     -> 2
               [] main = "report"    -> 1
               [] OTHER              -> 0
HandlerSteps == IF ctrl = "put" THEN 1 ELSE 0
BindSteps == CASE server = "create" -> 2
               [] server = "bind"   -> 1
               [] OTHER             -> 0

StopLeft == MainSteps + HandlerSteps + BindSteps

\* The steps that are owed to a service that is stopping.
StopOwed == SvcMain \/ PutStop \/ (Server /\ server = "bind")

\* Nothing sets a service that is stopping back, and what is owed to it brings it on.
StopCountsDown ==
  [][scm.state = "StopPending" =>
       /\ StopLeft' <= StopLeft
       /\ StopOwed => StopLeft' < StopLeft]_vars

LEMMA StepsAreNat ==
  /\ MainSteps \in Nat /\ HandlerSteps \in Nat /\ BindSteps \in Nat
  /\ MainSteps' \in Nat /\ HandlerSteps' \in Nat /\ BindSteps' \in Nat
BY DEF MainSteps, HandlerSteps, BindSteps

LEMMA SumOfSteps ==
  ASSUME NEW a \in Nat, NEW b \in Nat, NEW c \in Nat,
         NEW a2 \in Nat, NEW b2 \in Nat, NEW c2 \in Nat,
         a2 <= a, b2 <= b, c2 <= c
  PROVE  /\ a2 + b2 + c2 <= a + b + c
         /\ a2 < a \/ b2 < b \/ c2 < c => a2 + b2 + c2 < a + b + c
OBVIOUS

\* svcMain goes through its statements in their order.
LEMMA SvcMainAdvances ==
  ASSUME IInv, scm.state = "StopPending", SvcMain
  PROVE  /\ MainSteps' < MainSteps /\ MainSteps' <= MainSteps
         /\ HandlerSteps' <= HandlerSteps /\ BindSteps' <= BindSteps
<1>1. main \notin {"start"} \union AfterStop
  BY DEF IInv, Progress
<1>2. \/ main = "create" /\ main' \in {"fork", "failed"}
      \/ main = "fork" /\ main' = "wait"
      \/ main = "wait" /\ main' = "terminate"
      \/ main = "terminate" /\ main' = "close"
      \/ main = "close" /\ main' \in {"report", "failed"}
      \/ main = "report" /\ main' = "exit"
  BY <1>1 DEF SvcMain, ReportRunning, SvcCreateServer, CreateServerFails, ForkServer, TakeStop,
              SetTerminate, CloseSocket, SocketNeverBound, ReportStopped, Exit, Goto, AfterStop
<1>3. MainSteps' < MainSteps /\ MainSteps' <= MainSteps
  BY <1>2 DEF MainSteps
<1>4. ctrl' = ctrl
  BY DEF SvcMain, ReportRunning, SvcCreateServer, CreateServerFails, ForkServer, TakeStop,
         SetTerminate, CloseSocket, SocketNeverBound, ReportStopped, Exit
<1>5. server' = server \/ (server = "create" /\ server' = "bind")
  <2>1. CASE ForkServer
    BY <2>1 DEF ForkServer, Goto, IInv, Progress
  <2>2. CASE ~ForkServer
    BY <2>2 DEF SvcMain, ReportRunning, SvcCreateServer, CreateServer, CreateServerFails,
                TakeStop, SetTerminate, CloseSocket, SocketNeverBound, ReportStopped, Exit,
                serverVars, thread
  <2>3. QED
    BY <2>1, <2>2
<1>6. HandlerSteps' <= HandlerSteps
  BY <1>4 DEF HandlerSteps
<1>7. BindSteps' <= BindSteps
  BY <1>5 DEF BindSteps
<1>8. QED
  BY <1>3, <1>6, <1>7

\* The server thread leaves its bind behind for good.
LEMMA ServerAdvances ==
  ASSUME Server
  PROVE  /\ MainSteps' = MainSteps /\ HandlerSteps' = HandlerSteps
         /\ BindSteps' <= BindSteps
         /\ server = "bind" => BindSteps' < BindSteps
<1>1. UNCHANGED <<main, ctrl>>
  BY DEF Server, serviceVars
<1>2. server \notin {"create"} /\ server' \notin {"create", "bind"}
  BY DEF Server, ServerStep, Bind, Recv, PlainHandler, SameDay, NewDay,
         OpenLogFile, OpenFails, WriteLine, WriteFails, CheckStop, Die
<1>3. BindSteps' = 0
  BY <1>2 DEF BindSteps
<1>4. BindSteps' <= BindSteps /\ (server = "bind" => BindSteps' < BindSteps)
  BY <1>3 DEF BindSteps
<1>5. QED
  BY <1>1, <1>4 DEF MainSteps, HandlerSteps

LEMMA StepStopCountsDown ==
  IInv /\ [Next]_vars
    => [scm.state = "StopPending" =>
          /\ StopLeft' <= StopLeft
          /\ StopOwed => StopLeft' < StopLeft]_vars
<1> SUFFICES ASSUME IInv, Next, scm.state = "StopPending"
             PROVE  /\ StopLeft' <= StopLeft
                    /\ StopOwed => StopLeft' < StopLeft
  OBVIOUS
<1>1. CASE SvcMain
  BY <1>1, SvcMainAdvances, StepsAreNat, SumOfSteps DEF StopLeft
<1>2. CASE Server
  <2>1. /\ MainSteps' <= MainSteps /\ HandlerSteps' <= HandlerSteps /\ BindSteps' <= BindSteps
        /\ server = "bind" => BindSteps' < BindSteps
    BY <1>2, ServerAdvances, StepsAreNat
  <2>2. ~PutStop
    BY <1>2 DEF Server, PutStop, serviceVars
  <2>3. StopOwed => SvcMain \/ server = "bind"
    BY <2>2 DEF StopOwed
  <2>4. QED
    BY <1>1, <2>1, <2>3, StepsAreNat, SumOfSteps DEF StopLeft
<1>3. CASE PutStop
  <2>1. UNCHANGED <<main, server>> /\ ctrl = "put" /\ ctrl' = "idle"
    BY <1>3 DEF PutStop, serverVars, thread
  <2>2. MainSteps' = MainSteps /\ BindSteps' = BindSteps /\ HandlerSteps = 1 /\ HandlerSteps' = 0
    BY <2>1 DEF MainSteps, BindSteps, HandlerSteps
  <2>3. /\ MainSteps' <= MainSteps /\ BindSteps' <= BindSteps
        /\ HandlerSteps' <= HandlerSteps /\ HandlerSteps' < HandlerSteps
    BY <2>2, StepsAreNat
  <2>4. QED
    BY <2>3, StepsAreNat, SumOfSteps DEF StopLeft
<1>4. CASE ~SvcMain /\ ~Server /\ ~PutStop
  <2>1. UNCHANGED <<main, ctrl>>
    <3>1. ~StopControl /\ ~ReportStopPending
      BY DEF StopControl, ReportStopPending, IInv, OneStopInTransit, Progress
    <3>2. QED
      BY <1>4, <3>1 DEF Next, CtrlHandler, ServerRefused, RecvFails, Background, serviceVars
  <2>2. server' = server \/ (server # "create" /\ server' = "died")
    <3>1. CASE RecvFails
      BY <3>1 DEF RecvFails, Die
    <3>2. CASE Background
      BY <3>2, BackgroundFacts DEF Background
    <3>3. CASE StopControl \/ ReportStopPending
      BY <3>3 DEF StopControl, ReportStopPending, serverVars, thread
    <3>4. CASE ServerRefused
      BY <3>4, RefusedFacts DEF ServerRefused
    <3>5. QED
      BY <1>4, <3>1, <3>2, <3>3, <3>4 DEF Next, CtrlHandler
  <2>3. MainSteps' = MainSteps /\ HandlerSteps' = HandlerSteps /\ BindSteps' <= BindSteps
    BY <2>1, <2>2 DEF MainSteps, HandlerSteps, BindSteps
  <2>4. MainSteps' <= MainSteps /\ HandlerSteps' <= HandlerSteps /\ BindSteps' <= BindSteps
    BY <2>3, StepsAreNat
  <2>5. ~StopOwed
    BY <1>4 DEF StopOwed
  <2>6. QED
    BY <2>4, <2>5, StepsAreNat, SumOfSteps DEF StopLeft
<1>5. QED
  BY <1>1, <1>2, <1>3, <1>4

\* A Stop is neither dropped between the handler and svcMain nor stuck behind a
\* socket that nobody will bind (Win32/Main.hs:40-46 and 73-75): StopIsAnswered is
\* a matter of fairness alone.
THEOREM StopProceeds == Spec => []NoStopIsStuck /\ StopCountsDown
<1>1. Init => StopIsOnItsWay
  BY DEF Init, ServerInit, StopIsOnItsWay, Stopping
<1>2. IInv /\ StopIsOnItsWay => NoStopIsStuck
  <2> SUFFICES ASSUME IInv, StopIsOnItsWay, scm.state = "StopPending", main # "failed"
               PROVE  StopCanProceed
    BY DEF NoStopIsStuck
  <2>1. main \in {"create", "fork", "wait"} \union Stopping
    BY DEF IInv, Progress, BeforeStop
  <2>2. CASE main = "wait"
    BY <2>2 DEF IInv, OneStopInTransit, StopIsOnItsWay, BeforeStop, StopCanProceed
  <2>3. CASE main = "close"
    BY <2>3 DEF StopIsOnItsWay, Stopping, StopCanProceed
  <2>4. QED
    BY <2>1, <2>2, <2>3 DEF Stopping, StopCanProceed
<1>3. QED
  BY <1>1, <1>2, InitIInv, NextIInv, NextOnItsWay, StepStopCountsDown, PTL
  DEF Spec, StopCountsDown
================================================================================
