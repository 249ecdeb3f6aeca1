------------------------------ MODULE SyslogServer ------------------------------
(***************************************************************************)
(* The UDP log server of haskell/network/rsyslog, RSyslog/UDPServer.hs:    *)
(* the thread that receives datagrams and writes them to the file of the   *)
(* day, the log rotation with its forked closeFile threads, the MVars they *)
(* share, and the handles of GHC's I/O library.                            *)
(***************************************************************************)
EXTENDS Naturals, Sequences, FiniteSets

CONSTANTS
  Days,        \* the dates the system clock can show
  NoDay,       \* the value of an MVar Date that is not made yet
  MaxMsg,      \* bound: datagrams that arrive
  MaxChanges,  \* bound: times the clock's date changes
  Consoles     \* the settings of the --console option

ASSUME DaysAssumption == Days # {} /\ NoDay \notin Days
ASSUME BoundsAssumption == MaxMsg \in Nat /\ MaxChanges \in Nat
ASSUME ConsolesAssumption == Consoles \subseteq BOOLEAN

VARIABLES
  today,      \* the date the system clock shows
  changes,    \* how often it has changed
  date,       \* MVar date: the date of the log file in use
  handle,     \* MVar handle: an index of handles (0: not made yet)
  handles,    \* every handle opened: the day of its file, and whether it is open
  closers,    \* the forked closeFile threads
  console,    \* CL.console opts: plainHandler instead of fileHandler
  files,      \* the lines of each day's log file
  screen,     \* the lines plainHandler printed
  rcvbuf,     \* datagrams waiting in the socket
  arrived,    \* how many datagrams have arrived
  svrSock,    \* MVar svrSock: "empty", or the socket, "open" or "closed"
  terminate,  \* MVar terminate
  server,     \* where the server thread is
  cause,      \* what killed it
  msg,        \* the datagram in hand (0: none)
  h           \* rotateLogFile's result (0: none)

clock   == <<today, changes>>
logVars == <<date, handle, handles, closers>>
output  == <<console, files, screen>>
network == <<rcvbuf, arrived>>
thread  == <<server, cause, msg, h>>
serverVars == <<clock, logVars, output, network, svrSock, terminate, thread>>

Msgs    == 1 .. MaxMsg
Handles == DOMAIN handles
IsOpen(k) == handles[k].open

Die(why) == server' = "died" /\ cause' = why

--------------------------------------------------------------------------------
(* The surroundings: the clock and the senders. *)

\* Midnight, or a correction of the clock across it in either direction.
ClockChange(d) ==
  /\ changes < MaxChanges
  /\ d # today
  /\ today' = d
  /\ changes' = changes + 1
  /\ UNCHANGED <<logVars, output, network, svrSock, terminate, thread>>

\* A datagram reaches the bound socket; one lost on its way never arrives.
Arrive ==
  /\ svrSock = "open"
  /\ arrived < MaxMsg
  /\ arrived' = arrived + 1
  /\ rcvbuf' = Append(rcvbuf, arrived + 1)
  /\ UNCHANGED <<clock, logVars, output, svrSock, terminate, thread>>

--------------------------------------------------------------------------------
(* GHC's handles. *)

\* GHC refuses to open for writing a file that one of its handles has open.
FileLocked(d) == \E k \in Handles : handles[k].day = d /\ IsOpen(k)

\* A handle nothing refers to any more is closed by its finalizer, if and when
\* the garbage collector runs.
Reachable(k) ==
  \/ k = handle
  \/ k = h
  \/ \E c \in DOMAIN closers : closers[c] = [at |-> "close", of |-> k]

Collect(k) ==
  /\ IsOpen(k)
  /\ ~Reachable(k)
  /\ handles' = [handles EXCEPT ![k].open = FALSE]
  /\ UNCHANGED <<clock, date, handle, closers, output, network, svrSock, terminate, thread>>

--------------------------------------------------------------------------------
(* createServer: it opens the log file of the day, in console mode too. *)

\* A createServer that leaves the file to the first datagram.
CreateServerUnopened ==
  /\ date' = today
  /\ handles' = <<>>
  /\ handle' = 1
  /\ UNCHANGED <<clock, closers, output, network, svrSock, terminate>>

CreateServer ==
  /\ date' = today
  /\ handles' = <<[day |-> today, open |-> TRUE]>>
  /\ handle' = 1
  /\ UNCHANGED <<clock, closers, output, network, svrSock, terminate>>

--------------------------------------------------------------------------------
(* The server thread. *)

\* A serveLog that keeps its socket to itself.
BindUnpublished ==
  /\ server = "bind"
  /\ server' = "recv"
  /\ UNCHANGED <<clock, logVars, output, network, svrSock, terminate, cause, msg, h>>

\* serveLog up to putMVar svrSock.
Bind ==
  /\ server = "bind"
  /\ svrSock' = "open"
  /\ server' = "recv"
  /\ UNCHANGED <<clock, logVars, output, network, terminate, cause, msg, h>>

Recv ==
  /\ server = "recv"
  /\ svrSock = "open"
  /\ rcvbuf # <<>>
  /\ msg' = Head(rcvbuf)
  /\ rcvbuf' = Tail(rcvbuf)
  /\ server' = "handle"
  /\ UNCHANGED <<clock, logVars, output, arrived, svrSock, terminate, cause, h>>

PlainHandler ==
  /\ server = "handle"
  /\ console
  /\ screen' = Append(screen, msg)
  /\ msg' = 0
  /\ server' = "check"
  /\ UNCHANGED <<clock, logVars, console, files, network, svrSock, terminate, cause, h>>

\* rotateLogFile on the date of the log file: readMVar waits for a handle.
SameDay ==
  /\ server = "handle"
  /\ ~console
  /\ today = date
  /\ handle # 0
  /\ h' = handle
  /\ server' = "write"
  /\ UNCHANGED <<clock, logVars, output, network, svrSock, terminate, cause, msg>>

\* A rotation that does not compare the dates.
NewDayUnasked ==
  /\ server = "handle"
  /\ ~console
  /\ date' = today
  /\ closers' = Append(closers, [at |-> "read", of |-> 0])
  /\ server' = "open"
  /\ UNCHANGED <<clock, handle, handles, output, network, svrSock, terminate, cause, msg, h>>

\* rotateLogFile on another date, up to and including forkIO closeFile.
NewDay ==
  /\ server = "handle"
  /\ ~console
  /\ today # date
  /\ date' = today
  /\ closers' = Append(closers, [at |-> "read", of |-> 0])
  /\ server' = "open"
  /\ UNCHANGED <<clock, handle, handles, output, network, svrSock, terminate, cause, msg, h>>

\* A rotation that stores the new handle while closeFile still has to read the MVar.
OpenLogFileStored ==
  /\ server = "open"
  /\ ~FileLocked(date)
  /\ handles' = Append(handles, [day |-> date, open |-> TRUE])
  /\ h' = Len(handles) + 1
  /\ handle' = Len(handles) + 1
  /\ server' = "write"
  /\ UNCHANGED <<clock, date, closers, output, network, svrSock, terminate, cause, msg>>

\* The rest of rotateLogFile: the new handle is returned to the caller.
OpenLogFile ==
  /\ server = "open"
  /\ ~FileLocked(date)
  /\ handles' = Append(handles, [day |-> date, open |-> TRUE])
  /\ h' = Len(handles) + 1
  /\ server' = "write"
  /\ UNCHANGED <<clock, date, handle, closers, output, network, svrSock, terminate, cause, msg>>

\* An exception that is swallowed together with the datagram.
OpenFailsSwallowed ==
  /\ server = "open"
  /\ FileLocked(date)
  /\ server' = "recv"
  /\ msg' = 0
  /\ UNCHANGED <<clock, logVars, output, network, svrSock, terminate, cause, h>>

\* "resource busy (file is locked)".
OpenFails ==
  /\ server = "open"
  /\ FileLocked(date)
  /\ Die("locked")
  /\ UNCHANGED <<clock, logVars, output, network, svrSock, terminate, msg, h>>

WriteLine ==
  /\ server = "write"
  /\ IsOpen(h)
  /\ files' = [files EXCEPT ![handles[h].day] = Append(@, msg)]
  /\ msg' = 0
  /\ h' = 0
  /\ server' = "check"
  /\ UNCHANGED <<clock, logVars, console, screen, network, svrSock, terminate, cause>>

\* "illegal operation (handle is closed)".
WriteFails ==
  /\ server = "write"
  /\ ~IsOpen(h)
  /\ Die("closed")
  /\ UNCHANGED <<clock, logVars, output, network, svrSock, terminate, msg, h>>

\* "stop <- readMVar (terminate state)" after every datagram.
CheckStop ==
  /\ server = "check"
  /\ server' = IF terminate THEN "done" ELSE "recv"
  /\ UNCHANGED <<clock, logVars, output, network, svrSock, terminate, cause, msg, h>>

ServerStep ==
  \/ Bind
  \/ Recv
  \/ PlainHandler
  \/ SameDay \/ NewDay \/ OpenLogFile \/ OpenFails
  \/ WriteLine \/ WriteFails
  \/ CheckStop

\* The system refuses what the thread asks of it: the name or the port, a
\* datagram, the screen, a file for another reason than GHC's lock (permissions,
\* too many open files), room on the disk.
SystemRefuses ==
  /\ server \in {"bind", "recv", "open", "write"} \/ (server = "handle" /\ console)
  /\ Die("refused")
  /\ UNCHANGED <<clock, logVars, output, network, svrSock, terminate, msg, h>>

--------------------------------------------------------------------------------
(* The closeFile threads. *)

\* takeMVar in the place of readMVar.
CloserTake(c) ==
  /\ closers[c].at = "read"
  /\ handle # 0
  /\ closers' = [closers EXCEPT ![c] = [at |-> "close", of |-> handle]]
  /\ handle' = 0
  /\ UNCHANGED <<clock, date, handles, output, network, svrSock, terminate, thread>>

CloserRead(c) ==
  /\ closers[c].at = "read"
  /\ handle # 0
  /\ closers' = [closers EXCEPT ![c] = [at |-> "close", of |-> handle]]
  /\ UNCHANGED <<clock, date, handle, handles, output, network, svrSock, terminate, thread>>

\* hClose of a closed handle does nothing.
CloserClose(c) ==
  /\ closers[c].at = "close"
  /\ handles' = [handles EXCEPT ![closers[c].of].open = FALSE]
  /\ closers' = [closers EXCEPT ![c] = [at |-> "done", of |-> 0]]
  /\ UNCHANGED <<clock, date, handle, output, network, svrSock, terminate, thread>>

CloserStep == \E c \in DOMAIN closers : CloserRead(c) \/ CloserClose(c)

Surroundings ==
  \/ \E d \in Days : ClockChange(d)
  \/ Arrive
  \/ \E k \in Handles : Collect(k)

--------------------------------------------------------------------------------
(* The program of Linux/Main.hs, and of Win32/Main.hs with --console: one
   thread runs createServer and then startServe. *)

ServerInit ==
  /\ today \in Days
  /\ changes = 0
  /\ date = NoDay
  /\ handle = 0
  /\ handles = <<>>
  /\ closers = <<>>
  /\ console \in Consoles
  /\ files = [d \in Days |-> <<>>]
  /\ screen = <<>>
  /\ rcvbuf = <<>>
  /\ arrived = 0
  /\ svrSock = "empty"
  /\ terminate = FALSE
  /\ server = "create"
  /\ cause = "none"
  /\ msg = 0
  /\ h = 0

\* main: createServer opts >>= startServe opts.
Create ==
  /\ server = "create"
  /\ CreateServer
  /\ server' = "bind"
  /\ UNCHANGED <<cause, msg, h>>

\* The directory or the first log file cannot be made, which ends main.
CreateFails ==
  /\ server = "create"
  /\ Die("create")
  /\ UNCHANGED <<clock, logVars, output, network, svrSock, terminate, msg, h>>

ServerNext ==
  \/ Create \/ CreateFails
  \/ ServerStep \/ SystemRefuses
  \/ CloserStep
  \/ Surroundings

ServerSpec == ServerInit /\ [][ServerNext]_serverVars

\* The run-time system keeps scheduling a thread that can run; whether the system
\* refuses something is not a matter of fairness.
FairServerSpec ==
  ServerSpec /\ WF_serverVars(Create \/ ServerStep) /\ WF_serverVars(CloserStep)

--------------------------------------------------------------------------------
TypeOK ==
  /\ today \in Days
  /\ changes \in 0 .. MaxChanges
  /\ date \in Days \union {NoDay}
  /\ handles \in Seq([day : Days, open : BOOLEAN])
  /\ handle \in Handles \union {0}
  /\ closers \in Seq([at : {"read", "close", "done"}, of : Handles \union {0}])
  /\ console \in Consoles
  /\ files \in [Days -> Seq(Msgs)]
  /\ screen \in Seq(Msgs)
  /\ rcvbuf \in Seq(Msgs)
  /\ arrived \in 0 .. MaxMsg
  /\ svrSock \in {"empty", "open", "closed"}
  /\ terminate \in BOOLEAN
  /\ server \in {"create", "bind", "recv", "handle", "open", "write", "check", "done", "died"}
  /\ cause \in {"none", "create", "refused", "socket", "locked", "closed"}
  /\ msg \in Msgs \union {0}
  /\ h \in Handles \union {0}

Lines(s) == {s[k] : k \in DOMAIN s}

\* A datagram is in exactly one place: still in the socket, in hand, or a line
\* of one file or of the screen; and lines keep the order of arrival.  The
\* rotation of UDPServer.hs:105-119 may misplace a line but loses none before
\* the thread dies; the one it dies with stays in hand here.
EveryDatagramOnce ==
  /\ \A m \in 1 .. arrived :
       Cardinality({d \in Days : m \in Lines(files[d])})
         + (IF m \in Lines(screen) THEN 1 ELSE 0)
         + (IF m \in Lines(rcvbuf) THEN 1 ELSE 0)
         + (IF m = msg THEN 1 ELSE 0) = 1
  /\ \A s \in {files[d] : d \in Days} \union {screen, rcvbuf} :
       \A j, k \in DOMAIN s : j < k => s[j] < s[k]

\* Where nothing outside fails it, the log kills the server thread in two ways:
\* a closeFile thread has closed the handle that the MVar keeps, and a datagram of
\* the same day is written to it; or the clock is set back to a day whose file is
\* still open, after that of another day was opened.  So never before a rotation,
\* by midnights alone only in the first way, and never with --console, although
\* createServer has opened a log file there, too (UDPServer.hs:56-58, 105-119).
KilledByRotation ==
  /\ cause = "closed" => h = handle /\ \E c \in DOMAIN closers : closers[c].at = "done"
  /\ cause = "locked" =>
       \E j, k \in Handles : j < k /\ handles[j].day = date /\ handles[k].day # date
  /\ cause \in {"closed", "locked"} => ~console

\* Every closeFile thread closes the handle createServer opened, whatever was
\* opened since (UDPServer.hs:113-116), so a handle that rotateLogFile has just
\* opened is never closed between its return and the write of the datagram, by
\* the threads it forked or by the collector.
NewHandleStaysOpen ==
  server = "write" /\ ~IsOpen(h) => h = 1

\* "Loop forever processing incoming data" (UDPServer.hs:81): the thread dies only
\* where the system refused something or svcMain closed the socket.
LoopForever ==
  server = "died" => cause \in {"create", "refused", "socket"}

\* A waiting datagram is received, unless the thread is gone.
ArrivedIsReceived ==
  \A m \in Msgs :
    m \in Lines(rcvbuf) ~> m \notin Lines(rcvbuf) \/ server \in {"done", "died"}
================================================================================
