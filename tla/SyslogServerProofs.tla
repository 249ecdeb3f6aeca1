--------------------------- MODULE SyslogServerProofs ---------------------------
(***************************************************************************)
(* The log server, for any set of dates and any number of datagrams and of *)
(* changes of the date.                                                    *)
(***************************************************************************)
EXTENDS SyslogServer, FiniteSetTheorems, SequenceTheorems, TLAPS

HandleRecords == [day : Days, open : BOOLEAN]
CloserRecords == [at : {"read", "close", "done"}, of : {0, 1}]

\* The MVar of the handle keeps the handle of createServer for good, so that is
\* the one every closeFile thread closes.
Rotation ==
  /\ server \notin {"create", "died"} => handles # <<>>
  /\ server = "create" \/ handles = <<>> => closers = <<>>
  /\ handles # <<>> => handle = 1
  /\ closers \in Seq(CloserRecords)
  /\ \A c \in DOMAIN closers : closers[c].at = "close" => closers[c].of = 1
  /\ closers = <<>> => Len(handles) <= 1 /\ \A k \in Handles : IsOpen(k)
  /\ server = "open" => closers # <<>> /\ date \in Days
  /\ server = "write" => h \in Handles /\ (h # 1 => IsOpen(h))
  /\ console => closers = <<>> /\ server \notin {"open", "write"}

\* The server thread has a datagram in hand while it handles one.
Hand ==
  /\ server \in {"handle", "open", "write"} => msg # 0
  /\ server \in {"create", "bind", "recv", "check", "done"} => msg = 0

LogInv == TypeOK /\ Rotation /\ Hand

LEMMA InitLogInv == ServerInit => LogInv
<1> SUFFICES ASSUME ServerInit
             PROVE  LogInv
  OBVIOUS
<1>1. files \in [Days -> Seq(Msgs)] /\ screen \in Seq(Msgs) /\ rcvbuf \in Seq(Msgs)
  BY DEF ServerInit
<1>2. /\ handles \in Seq([day : Days, open : BOOLEAN])
      /\ closers \in Seq([at : {"read", "close", "done"}, of : Handles \union {0}])
  BY DEF ServerInit
<1>3. TypeOK
  <2>1. changes \in 0 .. MaxChanges /\ arrived \in 0 .. MaxMsg
    BY BoundsAssumption DEF ServerInit
  <2>2. /\ today \in Days /\ date = NoDay /\ console \in Consoles
        /\ svrSock = "empty" /\ terminate = FALSE
        /\ server = "create" /\ cause = "none" /\ msg = 0 /\ h = 0 /\ handle = 0
    BY DEF ServerInit
  <2>3. QED
    BY <1>1, <1>2, <2>1, <2>2 DEF TypeOK
<1>4. Rotation
  BY DEF ServerInit, Rotation, Handles
<1>5. QED
  BY <1>3, <1>4 DEF ServerInit, LogInv, Hand

--------------------------------------------------------------------------------
(* One lemma for each part of the program. *)

LEMMA HandlesFacts ==
  ASSUME TypeOK
  PROVE  /\ Len(handles) \in Nat
         /\ Handles = 1 .. Len(handles)
         /\ \A k \in Handles : handles[k] \in HandleRecords
<1>1. handles \in Seq(HandleRecords)
  BY DEF TypeOK, HandleRecords
<1>2. QED
  BY <1>1, LenProperties, ElementOfSeq DEF Handles

\* The ways in which the thread dies of itself.
ThreadDies == CreateFails \/ OpenFails \/ WriteFails \/ SystemRefuses

LEMMA DeathLeaves ==
  ASSUME ThreadDies
  PROVE  /\ server' = "died" /\ cause' \in {"create", "locked", "closed", "refused"}
         /\ UNCHANGED <<today, changes, date, handle, handles, closers, console, files, screen,
                        rcvbuf, arrived, svrSock, terminate, msg, h>>
BY DEF ThreadDies, CreateFails, OpenFails, WriteFails, SystemRefuses, Die,
       logVars, output, network, clock

\* Steps that leave the log alone.
LEMMA QuietLogInv ==
  ASSUME LogInv, UNCHANGED <<date, handle, handles, closers, console, files, screen>>,
         \/ \E d \in Days : ClockChange(d)
         \/ Arrive
         \/ Bind
         \/ Recv
         \/ SameDay
         \/ CheckStop
         \/ ThreadDies
  PROVE  LogInv'
<1> USE DEF LogInv, TypeOK, Rotation, Hand, Handles, IsOpen, Msgs
<1>1. ASSUME NEW d \in Days, ClockChange(d)
      PROVE  LogInv'
  BY <1>1, BoundsAssumption DEF ClockChange, logVars, output, network, thread
<1>2. CASE Arrive
  BY <1>2, BoundsAssumption DEF Arrive, logVars, output, clock, thread
<1>3. CASE Bind
  BY <1>3 DEF Bind, logVars, output, network, clock
<1>4. CASE ThreadDies
  BY <1>4, DeathLeaves
<1>5. CASE Recv
  <2>1. Head(rcvbuf) \in Msgs /\ Tail(rcvbuf) \in Seq(Msgs)
    BY <1>5, HeadTailProperties DEF Recv
  <2>2. QED
    BY <1>5, <2>1 DEF Recv, logVars, output, clock
<1>6. CASE SameDay
  BY <1>6 DEF SameDay, logVars, output, network, clock
<1>7. CASE CheckStop
  BY <1>7 DEF CheckStop, logVars, output, network, clock
<1>8. QED
  BY <1>1, <1>2, <1>3, <1>4, <1>5, <1>6, <1>7

\* A line is written.
LEMMA LineLogInv ==
  ASSUME LogInv, PlainHandler \/ WriteLine
  PROVE  LogInv'
<1> USE DEF LogInv, Rotation, Hand, Handles, IsOpen
<1>1. CASE PlainHandler
  <2>1. msg \in Msgs
    BY <1>1 DEF PlainHandler, TypeOK
  <2>2. screen' \in Seq(Msgs)
    BY <1>1, <2>1, AppendProperties DEF PlainHandler, TypeOK
  <2>3. TypeOK'
    BY <1>1, <2>2 DEF PlainHandler, TypeOK, logVars, network, clock
  <2>4. QED
    BY <1>1, <2>3 DEF PlainHandler, TypeOK, logVars, network, clock
<1>2. CASE WriteLine
  <2>1. msg \in Msgs
    BY <1>2 DEF WriteLine, TypeOK
  <2>2. Append(files[handles[h].day], msg) \in Seq(Msgs)
    <3>1. handles[h] \in HandleRecords
      BY <1>2, HandlesFacts DEF WriteLine
    <3>2. files[handles[h].day] \in Seq(Msgs)
      BY <3>1 DEF TypeOK, HandleRecords
    <3>3. QED
      BY <2>1, <3>2, AppendProperties
  <2>3. files' \in [Days -> Seq(Msgs)]
    BY <1>2, <2>2 DEF WriteLine, TypeOK
  <2>4. TypeOK'
    BY <1>2, <2>3 DEF WriteLine, TypeOK, logVars, network, clock
  <2>5. QED
    BY <1>2, <2>4 DEF WriteLine, TypeOK, logVars, network, clock
<1>3. QED
  BY <1>1, <1>2

\* createServer opens the first handle, for a thread that is still to be forked or
\* that goes on to serve.
LEMMA CreateServerLogInv ==
  ASSUME LogInv, server = "create", CreateServer, server' \in {"create", "bind"},
         UNCHANGED <<cause, msg, h>>
  PROVE  LogInv'
<1> DEFINE first == [day |-> today, open |-> TRUE]
<1>1. /\ handles' = <<first>> /\ date' = today /\ handle' = 1
      /\ closers = <<>> /\ closers' = <<>> /\ msg' = 0
      /\ UNCHANGED <<clock, output, network, svrSock, terminate, cause, msg, h>>
  BY DEF CreateServer, LogInv, Rotation, Hand
<1>2. first \in HandleRecords
  BY DEF LogInv, TypeOK, HandleRecords
<1> HIDE DEF first
<1>3. /\ handles' \in Seq(HandleRecords)
      /\ Handles' = {1} /\ handles'[1] = first /\ Len(handles') = 1 /\ handles' # <<>>
  BY <1>1, <1>2 DEF Handles
<1>4. /\ h \in {0, 1}
      /\ closers' \in Seq([at : {"read", "close", "done"}, of : Handles' \union {0}])
  <2>1. Len(handles) <= 1
    BY <1>1 DEF LogInv, Rotation
  <2>2. h \in {0, 1}
    BY <2>1, HandlesFacts DEF LogInv, TypeOK
  <2>3. QED
    BY <1>1, <2>2
<1>5. TypeOK'
  BY <1>1, <1>3, <1>4 DEF LogInv, TypeOK, HandleRecords, clock, output, network
<1>6. Rotation'
  BY <1>1, <1>2, <1>3 DEF LogInv, Rotation, IsOpen, first, output
<1>7. QED
  BY <1>1, <1>5, <1>6 DEF LogInv, Hand

\* Once there is a handle, closeFile threads refer to handles.
LEMMA ClosersTyped ==
  ASSUME NEW cs \in Seq(CloserRecords), NEW H, 1 \in H
  PROVE  cs \in Seq([at : {"read", "close", "done"}, of : H \union {0}])
<1>1. CloserRecords \subseteq [at : {"read", "close", "done"}, of : H \union {0}]
  BY DEF CloserRecords
<1>2. QED
  BY <1>1, SeqMonotonic

LEMMA FirstHandle ==
  ASSUME LogInv, handles # <<>>
  PROVE  1 \in Handles /\ handle = 1
BY HandlesFacts DEF LogInv, Rotation, Handles

\* Another date: a closeFile thread is forked.
LEMMA NewDayLogInv ==
  ASSUME LogInv, NewDay
  PROVE  LogInv'
<1> DEFINE closer == [at |-> "read", of |-> 0]
<1>1. /\ server = "handle" /\ server' = "open" /\ ~console /\ date' = today
      /\ handles # <<>>
      /\ closers \in Seq(CloserRecords) /\ closers' = Append(closers, closer)
      /\ UNCHANGED <<clock, handle, handles, output, network, svrSock, terminate, cause, msg, h>>
  BY DEF NewDay, LogInv, Rotation
<1>2. closer \in CloserRecords
  BY DEF CloserRecords
<1>3. closer.at # "close"
  OBVIOUS
<1> HIDE DEF closer
<1>4. /\ closers' \in Seq(CloserRecords) /\ closers' # <<>>
      /\ DOMAIN closers' = 1 .. Len(closers) + 1
      /\ \A c \in 1 .. Len(closers) : closers'[c] = closers[c]
      /\ closers'[Len(closers) + 1] = closer
  BY <1>1, <1>2, AppendProperties, LenProperties
<1>5. closers' \in Seq([at : {"read", "close", "done"}, of : Handles \union {0}])
  BY <1>1, <1>4, FirstHandle, ClosersTyped
<1>6. TypeOK'
  BY <1>1, <1>5 DEF LogInv, TypeOK, Handles, clock, output, network
<1>7. \A c \in DOMAIN closers' : closers'[c].at = "close" => closers'[c].of = 1
  BY <1>1, <1>3, <1>4, LenProperties DEF LogInv, Rotation
<1>8. date' \in Days
  BY <1>1 DEF LogInv, TypeOK
<1>9. Rotation'
  BY <1>1, <1>4, <1>7, <1>8 DEF LogInv, Rotation, Handles, IsOpen, output
<1>10. QED
  BY <1>1, <1>6, <1>9 DEF LogInv, Hand

\* The new file is opened and its handle goes to the caller only.
LEMMA OpenLogInv ==
  ASSUME LogInv, OpenLogFile
  PROVE  LogInv'
<1> DEFINE new == [day |-> date, open |-> TRUE]
<1>1. /\ server = "open" /\ server' = "write" /\ closers # <<>> /\ ~console
      /\ handles # <<>> /\ handles \in Seq(HandleRecords) /\ handles' = Append(handles, new)
      /\ h' = Len(handles) + 1
      /\ UNCHANGED <<clock, date, handle, closers, output, network, svrSock, terminate, cause, msg>>
  BY DEF OpenLogFile, LogInv, TypeOK, Rotation, HandleRecords
<1>2. date \in Days
  BY <1>1 DEF LogInv, TypeOK, Rotation
<1>3. new \in HandleRecords /\ new.open
  BY <1>2 DEF HandleRecords
<1> HIDE DEF new
<1>4. /\ handles' \in Seq(HandleRecords)
      /\ handles' # <<>>
      /\ Handles' = 1 .. Len(handles) + 1
      /\ Len(handles) \in Nat
      /\ handles'[Len(handles) + 1] = new
      /\ 1 \in Handles'
  <2>1. /\ handles' \in Seq(HandleRecords)
        /\ handles' # <<>>
        /\ Len(handles') = Len(handles) + 1
        /\ handles'[Len(handles) + 1] = new
    BY <1>1, <1>3, AppendProperties
  <2>2. Len(handles) \in Nat /\ DOMAIN handles' = 1 .. Len(handles')
    BY <1>1, <2>1, LenProperties
  <2>3. QED
    BY <2>1, <2>2 DEF Handles
<1>5. closers' \in Seq([at : {"read", "close", "done"}, of : Handles' \union {0}])
  BY <1>1, <1>4, ClosersTyped DEF LogInv, Rotation
<1>6. TypeOK'
  BY <1>1, <1>4, <1>5, FirstHandle DEF LogInv, TypeOK, HandleRecords, clock, output, network
<1>7. IsOpen(h)'
  BY <1>1, <1>3, <1>4 DEF IsOpen
<1>8. Rotation'
  BY <1>1, <1>4, <1>7, FirstHandle DEF LogInv, Rotation, output
<1>9. QED
  BY <1>1, <1>6, <1>8 DEF LogInv, Hand

\* A handle is closed: the first one, by a closeFile thread, or one that nothing
\* refers to.
LEMMA ClosedLogInv ==
  ASSUME LogInv, NEW k \in Handles, handles' = [handles EXCEPT ![k].open = FALSE],
         closers # <<>>, k # 1 => k # h,
         closers' \in Seq(CloserRecords),
         \A c \in DOMAIN closers' : closers'[c].at = "close" => closers'[c].of = 1,
         closers' # <<>>,
         UNCHANGED <<clock, date, handle, output, network, svrSock, terminate, thread>>
  PROVE  LogInv'
<1>1. /\ handles \in Seq(HandleRecords) /\ handles # <<>>
      /\ Len(handles) \in Nat /\ Handles = 1 .. Len(handles)
  BY HandlesFacts DEF LogInv, TypeOK, Rotation, HandleRecords, Handles
<1> DEFINE closed == [handles[k] EXCEPT !.open = FALSE]
<1>2. closed \in HandleRecords
  BY <1>1, HandlesFacts DEF LogInv, HandleRecords
<1>3. handles' = [handles EXCEPT ![k] = closed]
  OBVIOUS
<1> HIDE DEF closed
<1>4. /\ handles' \in Seq(HandleRecords)
      /\ Len(handles') = Len(handles)
      /\ \A j \in Handles : j # k => handles'[j] = handles[j]
  <2>1. k \in 1 .. Len(handles)
    BY <1>1
  <2>2. /\ [handles EXCEPT ![k] = closed] \in Seq(HandleRecords)
        /\ Len([handles EXCEPT ![k] = closed]) = Len(handles)
    BY <1>1, <1>2, <2>1, ExceptSeq
  <2>3. \A j \in Handles : j # k => handles'[j] = handles[j]
    BY <1>1, <1>3
  <2>4. QED
    BY <1>3, <2>2, <2>3
<1>5. Handles' = Handles /\ handles' # <<>>
  BY <1>1, <1>4, LenProperties DEF Handles
<1>6. closers' \in Seq([at : {"read", "close", "done"}, of : Handles' \union {0}])
  BY <1>1, <1>5, FirstHandle, ClosersTyped
<1>7. TypeOK'
  BY <1>4, <1>5, <1>6 DEF LogInv, TypeOK, HandleRecords, clock, output, network, thread
<1>8. server = "write" /\ h # 1 => IsOpen(h)'
  BY <1>4 DEF LogInv, Rotation, IsOpen, thread
<1>9. Rotation'
  BY <1>1, <1>4, <1>5, <1>8 DEF LogInv, Rotation, output, thread
<1>10. QED
  BY <1>7, <1>9 DEF LogInv, Hand, thread

LEMMA CloserLogInv ==
  ASSUME LogInv, CloserStep
  PROVE  LogInv'
<1>1. PICK c \in DOMAIN closers : CloserRead(c) \/ CloserClose(c)
  BY DEF CloserStep
<1>2. /\ closers \in Seq(CloserRecords)
      /\ DOMAIN closers = 1 .. Len(closers)
      /\ Len(closers) \in Nat
  BY LenProperties DEF LogInv, Rotation
<1>3. handles # <<>> /\ closers # <<>> /\ handle = 1 /\ 1 \in Handles
  BY <1>1, <1>2, FirstHandle DEF LogInv, Rotation
<1>4. ASSUME NEW r \in CloserRecords, closers' = [closers EXCEPT ![c] = r],
             r.at = "close" => r.of = 1
      PROVE  /\ closers' \in Seq(CloserRecords) /\ closers' # <<>>
             /\ \A d \in DOMAIN closers' : closers'[d].at = "close" => closers'[d].of = 1
  <2>1. /\ closers' \in Seq(CloserRecords) /\ Len(closers') = Len(closers)
        /\ \A d \in 1 .. Len(closers) : closers'[d] = IF d = c THEN r ELSE closers[d]
    BY <1>2, <1>4, ExceptSeq
  <2>2. DOMAIN closers' = 1 .. Len(closers)
    BY <2>1, LenProperties
  <2>3. QED
    BY <1>2, <1>3, <1>4, <2>1, <2>2 DEF LogInv, Rotation
<1>5. CASE CloserRead(c)
  <2>1. /\ closers' = [closers EXCEPT ![c] = [at |-> "close", of |-> 1]]
        /\ UNCHANGED <<clock, date, handle, handles, output, network, svrSock, terminate, thread>>
    BY <1>3, <1>5 DEF CloserRead
  <2>2. [at |-> "close", of |-> 1] \in CloserRecords
    BY DEF CloserRecords
  <2>3. /\ closers' \in Seq(CloserRecords) /\ closers' # <<>>
        /\ \A d \in DOMAIN closers' : closers'[d].at = "close" => closers'[d].of = 1
    BY <1>4, <2>1, <2>2
  <2>4. closers' \in Seq([at : {"read", "close", "done"}, of : Handles \union {0}])
    BY <1>3, <2>3, ClosersTyped
  <2>5. TypeOK'
    BY <2>1, <2>4 DEF LogInv, TypeOK, Handles, clock, output, network, thread
  <2>6. Rotation'
    BY <1>3, <2>1, <2>3 DEF LogInv, Rotation, Handles, IsOpen, output, thread
  <2>7. QED
    BY <2>1, <2>5, <2>6 DEF LogInv, Hand, thread
<1>6. CASE CloserClose(c)
  <2>1. /\ closers' = [closers EXCEPT ![c] = [at |-> "done", of |-> 0]]
        /\ handles' = [handles EXCEPT ![1].open = FALSE]
        /\ UNCHANGED <<clock, date, handle, output, network, svrSock, terminate, thread>>
    BY <1>6 DEF CloserClose, LogInv, Rotation
  <2>2. [at |-> "done", of |-> 0] \in CloserRecords
    BY DEF CloserRecords
  <2>3. /\ closers' \in Seq(CloserRecords) /\ closers' # <<>>
        /\ \A d \in DOMAIN closers' : closers'[d].at = "close" => closers'[d].of = 1
    BY <1>4, <2>1, <2>2
  <2>4. \A k \in Handles : k = 1 =>
          (handles' = [handles EXCEPT ![k].open = FALSE] => LogInv')
    BY <1>3, <2>1, <2>3, ClosedLogInv
  <2>5. QED
    BY <1>3, <2>1, <2>4
<1>7. QED
  BY <1>1, <1>5, <1>6

\* The collector takes no handle that is in the MVar or in hand.
LEMMA CollectLogInv ==
  ASSUME LogInv, NEW k \in Handles, Collect(k)
  PROVE  LogInv'
<1>1. handles # <<>>
  BY HandlesFacts DEF LogInv
<1>2. k # 1 /\ k # h
  BY <1>1, FirstHandle DEF Collect, Reachable
<1>3. closers # <<>>
  BY <1>2, HandlesFacts DEF LogInv, Rotation
<1>4. QED
  BY <1>2, <1>3, ClosedLogInv DEF Collect, LogInv, Rotation

LEMMA NextLogInv == LogInv /\ [ServerNext]_serverVars => LogInv'
<1> SUFFICES ASSUME LogInv, [ServerNext]_serverVars
             PROVE  LogInv'
  OBVIOUS
<1>1. CASE Create
  BY <1>1, CreateServerLogInv DEF Create
<1>2. CASE \/ \E d \in Days : ClockChange(d)
           \/ Arrive
           \/ Bind
           \/ Recv
           \/ SameDay
           \/ CheckStop
           \/ ThreadDies
  <2>1. UNCHANGED <<date, handle, handles, closers, console, files, screen>>
    BY <1>2, DeathLeaves
    DEF ClockChange, Arrive, Bind, Recv, SameDay, CheckStop, logVars, output
  <2>2. QED
    BY <1>2, <2>1, QuietLogInv
<1>3. CASE PlainHandler \/ WriteLine
  BY <1>3, LineLogInv
<1>4. CASE NewDay
  BY <1>4, NewDayLogInv
<1>5. CASE OpenLogFile
  BY <1>5, OpenLogInv
<1>6. CASE CloserStep
  BY <1>6, CloserLogInv
<1>7. CASE \E k \in Handles : Collect(k)
  BY <1>7, CollectLogInv
<1>8. CASE UNCHANGED serverVars
  BY <1>8
  DEF serverVars, clock, logVars, output, network, thread, LogInv, TypeOK, Rotation, Hand,
      Handles, IsOpen
<1>9. QED
  BY <1>1, <1>2, <1>3, <1>4, <1>5, <1>6, <1>7, <1>8
  DEF ServerNext, ServerStep, Surroundings, ThreadDies

LEMMA Invariant == ServerSpec => []LogInv
BY InitLogInv, NextLogInv, PTL DEF ServerSpec

--------------------------------------------------------------------------------

\* The state of the log server keeps its types (UDPServer.hs:32-119).
THEOREM TypeCorrect == ServerSpec => []TypeOK
<1>1. LogInv => TypeOK
  BY DEF LogInv
<1>2. QED
  BY Invariant, <1>1, PTL

\* A handle that rotateLogFile returned is not closed before the datagram is
\* written, except for the one createServer opened (UDPServer.hs:113-116).
THEOREM NewHandleIsSafe == ServerSpec => []NewHandleStaysOpen
<1>1. LogInv => NewHandleStaysOpen
  BY DEF LogInv, Rotation, NewHandleStaysOpen
<1>2. QED
  BY Invariant, <1>1, PTL

--------------------------------------------------------------------------------
(* What kills the server thread. *)

DayOfLast == handles[Len(handles)].day
SomeClosed == \E c \in DOMAIN closers : closers[c].at = "done"

\* The newest handle is that of the date, which a rotation in progress is about to
\* replace; the handle in the MVar is closed by closeFile threads only.
Newest ==
  /\ server # "died" => cause = "none"
  /\ handles # <<>> /\ server = "open" => DayOfLast # date
  /\ handles # <<>> /\ server \notin {"open", "died"} => DayOfLast = date
  /\ handles # <<>> => IsOpen(1) \/ SomeClosed

DeathInv == Newest /\ KilledByRotation

\* Steps that neither open nor close a handle, nor begin or end a rotation.
LEMMA QuietDeath ==
  ASSUME DeathInv, UNCHANGED <<date, handle, handles, closers, console, cause>>,
         server' = server \/ {server, server'} \intersect {"open", "died"} = {},
         server = "died" => h' = h
  PROVE  DeathInv'
BY DEF DeathInv, Newest, KilledByRotation, DayOfLast, SomeClosed, IsOpen, Handles

\* The thread dies.
LEMMA DiesDeath ==
  ASSUME LogInv, DeathInv, ThreadDies
  PROVE  DeathInv'
<1>1. /\ server' = "died"
      /\ UNCHANGED <<date, handle, handles, closers, console, h>>
  BY DeathLeaves
<1>2. Newest'
  BY <1>1 DEF DeathInv, Newest, SomeClosed, IsOpen
<1>3. KilledByRotation'
  <2>1. CASE CreateFails \/ SystemRefuses
    BY <2>1 DEF CreateFails, SystemRefuses, Die, KilledByRotation
  <2>2. CASE OpenFails
    <3>1. cause' = "locked" /\ ~console /\ handles # <<>> /\ DayOfLast # date
      BY <2>2 DEF OpenFails, Die, LogInv, Rotation, DeathInv, Newest
    <3>2. PICK j \in Handles : handles[j].day = date
      BY <2>2 DEF OpenFails, FileLocked
    <3>3. /\ Len(handles) \in Handles /\ j < Len(handles)
      <4>1. Handles = 1 .. Len(handles) /\ Len(handles) \in Nat
        BY HandlesFacts DEF LogInv
      <4>2. j # Len(handles)
        BY <3>1, <3>2 DEF DayOfLast
      <4>3. QED
        BY <3>2, <4>1, <4>2
    <3>4. \E a, b \in Handles : a < b /\ handles[a].day = date /\ handles[b].day # date
      BY <3>1, <3>2, <3>3 DEF DayOfLast
    <3>5. QED
      BY <1>1, <3>1, <3>4 DEF KilledByRotation, Handles
  <2>3. CASE WriteFails
    <3>1. cause' = "closed" /\ ~console /\ h = 1 /\ ~IsOpen(1) /\ handles # <<>>
      BY <2>3 DEF WriteFails, Die, LogInv, Rotation
    <3>2. handle = 1 /\ SomeClosed
      BY <3>1 DEF LogInv, Rotation, DeathInv, Newest
    <3>3. QED
      BY <1>1, <3>1, <3>2 DEF KilledByRotation, SomeClosed
  <2>4. QED
    BY <2>1, <2>2, <2>3 DEF ThreadDies
<1>4. QED
  BY <1>2, <1>3 DEF DeathInv

\* Handles keep their days when they are closed.
LEMMA ClosedDeath ==
  ASSUME LogInv, DeathInv, NEW k \in Handles, handles' = [handles EXCEPT ![k].open = FALSE],
         k # 1 \/ SomeClosed', SomeClosed => SomeClosed',
         UNCHANGED <<date, handle, console, cause, server, h>>
  PROVE  DeathInv'
<1>1. /\ handles \in Seq(HandleRecords) /\ k \in DOMAIN handles
      /\ Handles = 1 .. Len(handles) /\ Len(handles) \in Nat
      /\ \A j \in Handles : handles[j] \in HandleRecords
  BY HandlesFacts DEF LogInv, TypeOK, HandleRecords, Handles
<1>2. /\ DOMAIN handles' = DOMAIN handles
      /\ \A j \in Handles : handles'[j].day = handles[j].day
      /\ \A j \in Handles : j # k => handles'[j].open = handles[j].open
  BY <1>1 DEF Handles, HandleRecords
<1>3. Len(handles') = Len(handles) /\ Handles' = Handles
  <2>1. handles[k].open \in BOOLEAN
    BY <1>1 DEF HandleRecords
  <2>2. [handles[k] EXCEPT !.open = FALSE] \in HandleRecords
    BY <1>1 DEF HandleRecords
  <2>3. Len([handles EXCEPT ![k] = [handles[k] EXCEPT !.open = FALSE]]) = Len(handles)
    BY <1>1, <2>2, ExceptSeq
  <2>4. QED
    BY <1>2, <2>3 DEF Handles
<1>4. Len(handles) \in Handles /\ 1 \in Handles /\ handles # <<>>
  BY <1>1
<1>5. DayOfLast' = DayOfLast
  BY <1>2, <1>3, <1>4 DEF DayOfLast
<1>6. IsOpen(1)' \/ SomeClosed'
  BY <1>2, <1>4 DEF DeathInv, Newest, IsOpen
<1>7. Newest'
  BY <1>4, <1>5, <1>6 DEF DeathInv, Newest
<1>8. KilledByRotation'
  BY <1>2, <1>3 DEF DeathInv, KilledByRotation, SomeClosed
<1>9. QED
  BY <1>7, <1>8 DEF DeathInv

\* createServer begins with one handle, of the day.
LEMMA CreateServerDeath ==
  ASSUME LogInv, DeathInv, server = "create", CreateServer, server' \in {"create", "bind"},
         UNCHANGED <<cause, msg, h>>
  PROVE  DeathInv'
<1>1. /\ handles' = <<[day |-> today, open |-> TRUE]>> /\ date' = today /\ cause' = "none"
  BY DEF CreateServer, DeathInv, Newest
<1>2. handles'[1] = [day |-> today, open |-> TRUE] /\ Len(handles') = 1
  BY <1>1
<1>3. DayOfLast' = date' /\ IsOpen(1)'
  BY <1>1, <1>2 DEF DayOfLast, IsOpen
<1>4. QED
  BY <1>1, <1>3 DEF DeathInv, Newest, KilledByRotation

LEMMA NewDayDeath ==
  ASSUME LogInv, DeathInv, NewDay
  PROVE  DeathInv'
<1>1. /\ server = "handle" /\ server' = "open" /\ date' = today /\ today # date
      /\ closers' = Append(closers, [at |-> "read", of |-> 0]) /\ closers \in Seq(CloserRecords)
      /\ UNCHANGED <<handles, cause>> /\ cause = "none" /\ handles # <<>>
  BY DEF NewDay, thread, LogInv, Rotation, DeathInv, Newest
<1>2. SomeClosed => SomeClosed'
  <2>1. \A c \in DOMAIN closers : c \in DOMAIN closers' /\ closers'[c] = closers[c]
    BY <1>1, AppendProperties, LenProperties
  <2>2. QED
    BY <2>1 DEF SomeClosed
<1>3. DayOfLast' = DayOfLast /\ DayOfLast = date
  BY <1>1 DEF DayOfLast, DeathInv, Newest
<1>4. QED
  BY <1>1, <1>2, <1>3 DEF DeathInv, Newest, KilledByRotation, IsOpen

LEMMA OpenDeath ==
  ASSUME LogInv, DeathInv, OpenLogFile
  PROVE  DeathInv'
<1> DEFINE new == [day |-> date, open |-> TRUE]
<1>1. /\ server = "open" /\ server' = "write" /\ handles' = Append(handles, new)
      /\ handles \in Seq(HandleRecords) /\ handles # <<>>
      /\ UNCHANGED <<date, closers, cause>> /\ cause = "none"
  BY DEF OpenLogFile, LogInv, TypeOK, Rotation, HandleRecords, DeathInv, Newest
<1> HIDE DEF new
<1>2. /\ Len(handles') = Len(handles) + 1
      /\ handles'[Len(handles) + 1] = new
      /\ handles'[1] = handles[1]
  BY <1>1, HandlesFacts, FirstHandle DEF LogInv
<1>3. DayOfLast' = date
  BY <1>2 DEF DayOfLast, new
<1>4. IsOpen(1)' = IsOpen(1) /\ (SomeClosed' <=> SomeClosed)
  BY <1>1, <1>2 DEF IsOpen, SomeClosed
<1>5. QED
  BY <1>1, <1>3, <1>4 DEF DeathInv, Newest, KilledByRotation

LEMMA CloserDeath ==
  ASSUME LogInv, DeathInv, CloserStep
  PROVE  DeathInv'
<1>1. PICK c \in DOMAIN closers : CloserRead(c) \/ CloserClose(c)
  BY DEF CloserStep
<1>2. /\ DOMAIN closers' = DOMAIN closers
      /\ \A d \in DOMAIN closers : d # c => closers'[d] = closers[d]
  BY <1>1 DEF CloserRead, CloserClose
<1>3. SomeClosed => SomeClosed'
  BY <1>1, <1>2 DEF SomeClosed, CloserRead, CloserClose
<1>4. CASE CloserRead(c)
  BY <1>3, <1>4
  DEF CloserRead, thread, output, DeathInv, Newest, KilledByRotation, DayOfLast, IsOpen,
      SomeClosed, Handles
<1>5. CASE CloserClose(c)
  <2>1. /\ closers[c].of \in Handles
        /\ handles' = [handles EXCEPT ![closers[c].of].open = FALSE]
        /\ UNCHANGED <<date, handle, console, cause, server, h>>
    <3>1. closers[c].of = 1 /\ handles # <<>>
      BY <1>5 DEF CloserClose, LogInv, Rotation
    <3>2. QED
      BY <1>5, <3>1, FirstHandle DEF CloserClose, thread, output
  <2>2. SomeClosed'
    BY <1>2, <1>5 DEF CloserClose, SomeClosed
  <2>3. QED
    BY <2>1, <2>2, ClosedDeath
<1>6. QED
  BY <1>1, <1>4, <1>5

LEMMA NextDeath == LogInv /\ DeathInv /\ [ServerNext]_serverVars => DeathInv'
<1> SUFFICES ASSUME LogInv, DeathInv, [ServerNext]_serverVars
             PROVE  DeathInv'
  OBVIOUS
<1>1. CASE Create
  BY <1>1, CreateServerDeath DEF Create
<1>2. CASE ThreadDies
  BY <1>2, DiesDeath
<1>3. CASE NewDay
  BY <1>3, NewDayDeath
<1>4. CASE OpenLogFile
  BY <1>4, OpenDeath
<1>5. CASE CloserStep
  BY <1>5, CloserDeath
<1>6. ASSUME NEW k \in Handles, Collect(k)
      PROVE  DeathInv'
  <2>1. k # 1 /\ (SomeClosed => SomeClosed')
    <3>1. handles # <<>>
      BY HandlesFacts DEF LogInv
    <3>2. QED
      BY <1>6, <3>1, FirstHandle DEF Collect, Reachable, SomeClosed
  <2>2. QED
    BY <1>6, <2>1, ClosedDeath DEF Collect, thread, output
<1>7. CASE Bind \/ Recv \/ PlainHandler \/ SameDay \/ WriteLine \/ CheckStop
  <2>1. /\ UNCHANGED <<date, handle, handles, closers, console, cause>>
        /\ {server, server'} \intersect {"open", "died"} = {}
    BY <1>7 DEF Bind, Recv, PlainHandler, SameDay, WriteLine, CheckStop, logVars, output
  <2>2. QED
    BY <2>1, QuietDeath
<1>8. CASE (\E d \in Days : ClockChange(d)) \/ Arrive \/ UNCHANGED serverVars
  <2>1. UNCHANGED <<date, handle, handles, closers, console, cause, server, h>>
    BY <1>8 DEF ClockChange, Arrive, serverVars, logVars, output, thread
  <2>2. QED
    BY <2>1, QuietDeath
<1>9. QED
  BY <1>1, <1>2, <1>3, <1>4, <1>5, <1>6, <1>7, <1>8
  DEF ServerNext, ServerStep, Surroundings, ThreadDies

LEMMA InitDeath == ServerInit => DeathInv
BY DEF ServerInit, DeathInv, Newest, KilledByRotation

\* Where the system refuses nothing, the log kills the server thread only by the
\* handle that a closeFile thread closed and the MVar kept, or by a clock set back
\* to a day whose file is open; never with --console (UDPServer.hs:56-58, 105-119).
THEOREM KilledByRotationOnly == ServerSpec => []KilledByRotation
<1>1. ServerSpec => []DeathInv
  BY Invariant, InitDeath, NextDeath, PTL DEF ServerSpec
<1>2. DeathInv => KilledByRotation
  BY DEF DeathInv
<1>3. QED
  BY <1>1, <1>2, PTL

--------------------------------------------------------------------------------
(* The way of a datagram: from the socket to the hand of the thread and from
   there to a line. *)

Increasing(s) == \A j, k \in DOMAIN s : j < k => s[j] < s[k]

LEMMA AppendLines ==
  ASSUME NEW s \in Seq(Msgs), NEW m \in Msgs
  PROVE  /\ Append(s, m) \in Seq(Msgs)
         /\ Lines(Append(s, m)) = Lines(s) \union {m}
         /\ Increasing(s) /\ (\A n \in Lines(s) : n < m) => Increasing(Append(s, m))
<1> DEFINE t == Append(s, m)
<1>1. /\ t \in Seq(Msgs) /\ Len(t) = Len(s) + 1 /\ Len(s) \in Nat
      /\ \A j \in 1 .. Len(s) : t[j] = s[j]
      /\ t[Len(s) + 1] = m
  BY AppendProperties, LenProperties
<1>2. DOMAIN t = 1 .. Len(s) + 1 /\ DOMAIN s = 1 .. Len(s)
  BY <1>1, LenProperties
<1>3. \A j \in 1 .. Len(s) : s[j] \in Lines(s)
  BY <1>2 DEF Lines
<1> HIDE DEF t
<1>4. Lines(t) = Lines(s) \union {m}
  <2>1. \A n \in Lines(t) : n \in Lines(s) \union {m}
    BY <1>1, <1>2, <1>3 DEF Lines
  <2>2. \A n \in Lines(s) : n \in Lines(t)
    BY <1>1, <1>2 DEF Lines
  <2>3. m \in Lines(t)
    BY <1>1, <1>2 DEF Lines
  <2>4. QED
    BY <2>1, <2>2, <2>3
<1>5. ASSUME Increasing(s), \A n \in Lines(s) : n < m
      PROVE  Increasing(t)
  <2>1. SUFFICES ASSUME NEW j \in DOMAIN t, NEW k \in DOMAIN t, j < k
                 PROVE  t[j] < t[k]
    BY DEF Increasing
  <2>2. j \in 1 .. Len(s) /\ t[j] = s[j]
    BY <1>1, <1>2, <2>1
  <2>3. CASE k = Len(s) + 1
    BY <1>1, <1>3, <1>5, <2>2, <2>3
  <2>4. CASE k \in 1 .. Len(s)
    BY <1>1, <1>2, <1>5, <2>1, <2>2, <2>4 DEF Increasing
  <2>5. QED
    BY <1>2, <2>3, <2>4, <1>1
<1>6. QED
  BY <1>1, <1>4, <1>5 DEF t

LEMMA TailLines ==
  ASSUME NEW s \in Seq(Msgs), s # <<>>, Increasing(s)
  PROVE  /\ Head(s) \in Lines(s)
         /\ Lines(s) = {Head(s)} \union Lines(Tail(s))
         /\ \A n \in Lines(Tail(s)) : Head(s) < n
         /\ Increasing(Tail(s))
<1> DEFINE t == Tail(s)
<1>1. /\ t \in Seq(Msgs) /\ Len(t) = Len(s) - 1 /\ Len(s) \in Nat \ {0}
      /\ \A j \in 1 .. Len(t) : t[j] = s[j + 1]
      /\ Head(s) = s[1]
  BY HeadTailProperties, EmptySeq
<1>2. DOMAIN t = 1 .. Len(s) - 1 /\ DOMAIN s = 1 .. Len(s)
  BY <1>1, LenProperties
<1> HIDE DEF t
<1>3. Head(s) \in Lines(s)
  BY <1>1, <1>2 DEF Lines
<1>4. Lines(s) = {Head(s)} \union Lines(t)
  <2>1. ASSUME NEW j \in 1 .. Len(s), j # 1
        PROVE  s[j] \in Lines(t)
    <3>1. j - 1 \in 1 .. Len(t) /\ (j - 1) + 1 = j
      BY <1>1, <2>1
    <3>2. t[j - 1] = s[j]
      BY <1>1, <3>1
    <3>3. QED
      BY <1>1, <1>2, <3>1, <3>2 DEF Lines
  <2>2. \A n \in Lines(s) : n \in {Head(s)} \union Lines(t)
    BY <1>1, <1>2, <2>1 DEF Lines
  <2>3. \A n \in Lines(t) : n \in Lines(s)
    <3>1. \A j \in 1 .. Len(t) : j + 1 \in 1 .. Len(s) /\ t[j] = s[j + 1]
      BY <1>1
    <3>2. \A j \in 1 .. Len(t) : t[j] \in Lines(s)
      BY <1>2, <3>1 DEF Lines
    <3>3. DOMAIN t = 1 .. Len(t)
      BY <1>1, <1>2
    <3>4. QED
      BY <3>2, <3>3 DEF Lines
  <2>4. QED
    BY <1>3, <2>2, <2>3
<1>5. \A n \in Lines(t) : Head(s) < n
  <2>1. \A j \in 1 .. Len(t) : 1 \in DOMAIN s /\ j + 1 \in DOMAIN s /\ 1 < j + 1
    BY <1>1, <1>2
  <2>2. \A j \in 1 .. Len(t) : s[1] < t[j]
    BY <1>1, <2>1 DEF Increasing
  <2>3. QED
    BY <1>1, <1>2, <2>2 DEF Lines
<1>6. Increasing(t)
  <2>1. \A j, k \in DOMAIN t :
          j < k => j + 1 \in DOMAIN s /\ k + 1 \in DOMAIN s /\ j + 1 < k + 1
    BY <1>1, <1>2
  <2>2. QED
    BY <1>1, <1>2, <2>1 DEF Increasing
<1>7. QED
  BY <1>3, <1>4, <1>5, <1>6 DEF t

Written(m) == m \in Lines(screen) \/ \E d \in Days : m \in Lines(files[d])

\* Lines come before the datagram in hand, and that before those in the socket.
Way ==
  /\ \A m \in Lines(rcvbuf) : m <= arrived /\ msg < m
  /\ msg <= arrived
  /\ \A m : Written(m) =>
       /\ m <= arrived
       /\ msg # 0 => m < msg
       /\ \A n \in Lines(rcvbuf) : m < n
  /\ \A m \in 1 .. arrived : m \in Lines(rcvbuf) \/ m = msg \/ Written(m)

\* A line is in one file, or on the screen.
Apart ==
  /\ \A d, e \in Days : d # e => Lines(files[d]) \intersect Lines(files[e]) = {}
  /\ \A d \in Days : Lines(files[d]) \intersect Lines(screen) = {}

InOrder ==
  Increasing(rcvbuf) /\ Increasing(screen) /\ \A d \in Days : Increasing(files[d])

Once == Way /\ Apart /\ InOrder

LEMMA LinesAreMsgs == \A s \in Seq(Msgs) : Lines(s) \subseteq Msgs
<1> SUFFICES ASSUME NEW s \in Seq(Msgs), NEW k \in DOMAIN s
             PROVE  s[k] \in Msgs
  BY DEF Lines
<1>1. QED
  BY LenProperties, ElementOfSeq

LEMMA InitOnce == ServerInit => Once
<1> SUFFICES ASSUME ServerInit
             PROVE  Once
  OBVIOUS
<1>1. Lines(<<>>) = {} /\ Increasing(<<>>)
  BY DEF Lines, Increasing
<1>2. /\ rcvbuf = <<>> /\ screen = <<>> /\ arrived = 0 /\ msg = 0
      /\ \A d \in Days : files[d] = <<>>
  BY DEF ServerInit
<1>3. Way
  BY <1>1, <1>2 DEF Way, Written
<1>4. Apart /\ InOrder
  BY <1>1, <1>2 DEF Apart, InOrder
<1>5. QED
  BY <1>3, <1>4 DEF Once

LEMMA ArriveOnce ==
  ASSUME LogInv, Once, Arrive
  PROVE  Once'
<1>1. /\ arrived' = arrived + 1 /\ rcvbuf' = Append(rcvbuf, arrived + 1)
      /\ files' = files /\ screen' = screen /\ msg' = msg
      /\ arrived \in Nat /\ arrived + 1 \in Msgs /\ rcvbuf \in Seq(Msgs)
      /\ msg \in Nat /\ files \in [Days -> Seq(Msgs)] /\ screen \in Seq(Msgs)
  BY BoundsAssumption DEF Arrive, LogInv, TypeOK, output, thread, Msgs
<1>2. Lines(rcvbuf') = Lines(rcvbuf) \union {arrived + 1}
  BY <1>1, AppendLines
<1>3. \A n \in Lines(rcvbuf) : n \in Nat /\ n < arrived + 1
  BY <1>1, LinesAreMsgs DEF Once, Way, Msgs
<1>4. Increasing(rcvbuf')
  BY <1>1, <1>3, AppendLines DEF Once, InOrder
<1>5. \A m : Written(m)' <=> Written(m)
  BY <1>1 DEF Written
<1>6. \A m : Written(m) => m \in Nat
  BY <1>1, LinesAreMsgs DEF Written, Msgs
<1>7. Way'
  <2>1. \A m \in Lines(rcvbuf') : m <= arrived' /\ msg' < m
    BY <1>1, <1>2, <1>3 DEF Once, Way
  <2>2. msg' <= arrived'
    BY <1>1 DEF Once, Way
  <2>3. ASSUME NEW m, Written(m)
        PROVE  /\ m <= arrived'
               /\ msg' # 0 => m < msg'
               /\ \A n \in Lines(rcvbuf') : m < n
    BY <1>1, <1>2, <1>6, <2>3 DEF Once, Way
  <2>4. ASSUME NEW m \in 1 .. arrived'
        PROVE  m \in Lines(rcvbuf') \/ m = msg' \/ Written(m)
    BY <1>1, <1>2 DEF Once, Way
  <2>5. QED
    BY <1>5, <2>1, <2>2, <2>3, <2>4 DEF Way
<1>8. QED
  BY <1>1, <1>4, <1>7 DEF Once, Apart, InOrder

LEMMA RecvOnce ==
  ASSUME LogInv, Once, Recv
  PROVE  Once'
<1>1. /\ msg = 0 /\ msg' = Head(rcvbuf) /\ rcvbuf' = Tail(rcvbuf) /\ rcvbuf # <<>>
      /\ files' = files /\ screen' = screen /\ arrived' = arrived
      /\ arrived \in Nat /\ rcvbuf \in Seq(Msgs)
      /\ files \in [Days -> Seq(Msgs)] /\ screen \in Seq(Msgs)
  BY BoundsAssumption DEF Recv, LogInv, TypeOK, Hand, output
<1>2. /\ Head(rcvbuf) \in Lines(rcvbuf)
      /\ Lines(rcvbuf) = {msg'} \union Lines(rcvbuf')
      /\ \A n \in Lines(rcvbuf') : msg' < n
      /\ Increasing(rcvbuf')
  BY <1>1, TailLines DEF Once, InOrder
<1>3. msg' \in Nat \ {0}
  <2>1. msg' \in Msgs
    BY <1>1, <1>2, LinesAreMsgs
  <2>2. QED
    BY <2>1, BoundsAssumption DEF Msgs
<1>4. \A m : Written(m)' <=> Written(m)
  BY <1>1 DEF Written
<1>5. \A m \in Lines(rcvbuf') : m <= arrived' /\ msg' < m
  BY <1>1, <1>2 DEF Once, Way
<1>6. msg' <= arrived'
  BY <1>1, <1>2 DEF Once, Way
<1>7. ASSUME NEW m, Written(m)
      PROVE  /\ m <= arrived'
             /\ m < msg'
             /\ \A n \in Lines(rcvbuf') : m < n
  BY <1>1, <1>2, <1>7 DEF Once, Way
<1>8. \A m \in 1 .. arrived' : m \in Lines(rcvbuf') \/ m = msg' \/ Written(m)
  BY <1>1, <1>2 DEF Once, Way
<1>9. Way'
  BY <1>4, <1>5, <1>6, <1>7, <1>8 DEF Way
<1>10. QED
  BY <1>1, <1>2, <1>9 DEF Once, Apart, InOrder

\* The datagram in hand becomes a line.
LEMMA LineOnce ==
  ASSUME LogInv, Once, PlainHandler \/ WriteLine
  PROVE  Once'
<1>1. /\ msg \in Msgs /\ msg' = 0
      /\ rcvbuf' = rcvbuf /\ arrived' = arrived
      /\ arrived \in Nat /\ rcvbuf \in Seq(Msgs)
      /\ files \in [Days -> Seq(Msgs)] /\ screen \in Seq(Msgs)
  BY BoundsAssumption DEF PlainHandler, WriteLine, LogInv, TypeOK, Hand, network
<1>2. ~Written(msg) /\ \A m : Written(m) => m < msg
  BY <1>1 DEF Once, Way, Msgs
<1>3. /\ \A m : Written(m)' <=> Written(m) \/ m = msg
      /\ Apart' /\ InOrder'
  <2>1. CASE PlainHandler
    <3>1. screen' = Append(screen, msg) /\ files' = files
      BY <2>1 DEF PlainHandler
    <3>2. Lines(screen') = Lines(screen) \union {msg} /\ Increasing(screen')
      BY <1>1, <1>2, <3>1, AppendLines DEF Once, InOrder, Written
    <3>3. \A m : Written(m)' <=> Written(m) \/ m = msg
      BY <3>1, <3>2 DEF Written
    <3>4. Apart'
      BY <1>2, <3>1, <3>2 DEF Once, Apart, Written
    <3>5. InOrder'
      BY <1>1, <3>1, <3>2 DEF Once, InOrder
    <3>6. QED
      BY <3>3, <3>4, <3>5
  <2>2. CASE WriteLine
    <3> DEFINE e == handles[h].day
    <3>1. e \in Days
      BY <2>2, HandlesFacts DEF WriteLine, LogInv, Rotation, HandleRecords
    <3>2. /\ screen' = screen /\ files'[e] = Append(files[e], msg)
          /\ \A d \in Days : d # e => files'[d] = files[d]
      BY <1>1, <2>2, <3>1 DEF WriteLine
    <3> HIDE DEF e
    <3>3. Lines(files'[e]) = Lines(files[e]) \union {msg} /\ Increasing(files'[e])
      <4>1. files[e] \in Seq(Msgs) /\ Increasing(files[e]) /\ \A n \in Lines(files[e]) : n < msg
        BY <1>1, <1>2, <3>1 DEF Once, InOrder, Written
      <4>2. QED
        BY <1>1, <3>2, <4>1, AppendLines
    <3>4. \A m : Written(m)' <=> Written(m) \/ m = msg
      BY <3>1, <3>2, <3>3 DEF Written
    <3>5. Apart'
      <4>1. \A d \in Days : msg \notin Lines(files[d])
        BY <1>2 DEF Written
      <4>2. \A d \in Days : Lines(files'[d]) =
              IF d = e THEN Lines(files[d]) \union {msg} ELSE Lines(files[d])
        BY <3>2, <3>3
      <4>3. ASSUME NEW d \in Days, NEW f \in Days, d # f
            PROVE  Lines(files'[d]) \intersect Lines(files'[f]) = {}
        BY <4>1, <4>2, <4>3 DEF Once, Apart
      <4>4. ASSUME NEW d \in Days
            PROVE  Lines(files'[d]) \intersect Lines(screen') = {}
        BY <1>2, <3>2, <4>2 DEF Once, Apart, Written
      <4>5. QED
        BY <4>3, <4>4 DEF Apart
    <3>6. InOrder'
      BY <1>1, <3>1, <3>2, <3>3 DEF Once, InOrder
    <3>7. QED
      BY <3>4, <3>5, <3>6
  <2>3. QED
    BY <2>1, <2>2
<1>4. Way'
  BY <1>1, <1>2, <1>3, LinesAreMsgs DEF Once, Way, Msgs
<1>5. QED
  BY <1>3, <1>4 DEF Once

LEMMA NextOnce == LogInv /\ Once /\ [ServerNext]_serverVars => Once'
<1> SUFFICES ASSUME LogInv, Once, [ServerNext]_serverVars
             PROVE  Once'
  OBVIOUS
<1>1. CASE Arrive
  BY <1>1, ArriveOnce
<1>2. CASE Recv
  BY <1>2, RecvOnce
<1>3. CASE PlainHandler \/ WriteLine
  BY <1>3, LineOnce
<1>4. CASE UNCHANGED <<files, screen, rcvbuf, arrived, msg>>
  BY <1>4 DEF Once, Way, Apart, InOrder, Written
<1>5. CASE \/ Create \/ CloserStep
           \/ \E d \in Days : ClockChange(d)
           \/ \E k \in Handles : Collect(k)
           \/ UNCHANGED serverVars
  <2>1. UNCHANGED <<files, screen, rcvbuf, arrived, msg>>
    BY <1>5
    DEF Create, CreateServer, CloserStep, CloserRead, CloserClose, ClockChange, Collect,
        serverVars, output, network, thread
  <2>2. QED
    BY <1>4, <2>1
<1>6. CASE Bind \/ SameDay \/ NewDay \/ OpenLogFile \/ CheckStop \/ ThreadDies
  <2>1. UNCHANGED <<files, screen, rcvbuf, arrived, msg>>
    BY <1>6, DeathLeaves
    DEF Bind, SameDay, NewDay, OpenLogFile, CheckStop, output, network
  <2>2. QED
    BY <1>4, <2>1
<1>7. QED
  BY <1>1, <1>2, <1>3, <1>5, <1>6 DEF ServerNext, ServerStep, Surroundings, ThreadDies

LEMMA OnceCounted ==
  ASSUME LogInv, Once, NEW m \in 1 .. arrived
  PROVE  Cardinality({d \in Days : m \in Lines(files[d])})
           + (IF m \in Lines(screen) THEN 1 ELSE 0)
           + (IF m \in Lines(rcvbuf) THEN 1 ELSE 0)
           + (IF m = msg THEN 1 ELSE 0) = 1
<1> DEFINE D == {d \in Days : m \in Lines(files[d])}
<1>1. m \in Nat \ {0} /\ msg \in Nat
  BY BoundsAssumption DEF LogInv, TypeOK, Msgs
<1>2. Written(m) => m \notin Lines(rcvbuf) /\ m # msg
  BY <1>1 DEF Once, Way
<1>3. m \in Lines(rcvbuf) => m # msg
  BY <1>1 DEF Once, Way
<1>4. m \in Lines(rcvbuf) \/ m = msg \/ Written(m)
  BY DEF Once, Way
<1>5. CASE ~Written(m)
  <2>1. D = {} /\ m \notin Lines(screen)
    BY <1>5 DEF Written
  <2>2. Cardinality(D) = 0
    BY <2>1, FS_EmptySet
  <2>3. QED
    BY <1>3, <1>4, <1>5, <2>1, <2>2
<1>6. CASE m \in Lines(screen)
  <2>1. D = {} /\ Written(m)
    BY <1>6 DEF Once, Apart, Written
  <2>2. Cardinality(D) = 0
    BY <2>1, FS_EmptySet
  <2>3. QED
    BY <1>2, <1>6, <2>1, <2>2
<1>7. CASE m \notin Lines(screen) /\ Written(m)
  <2>1. PICK d \in Days : m \in Lines(files[d])
    BY <1>7 DEF Written
  <2>2. D = {d}
    BY <2>1 DEF Once, Apart
  <2>3. Cardinality(D) = 1
    BY <2>2, FS_Singleton
  <2>4. QED
    BY <1>2, <1>7, <2>3
<1>8. QED
  BY <1>5, <1>6, <1>7

LEMMA OnceIsEveryDatagram == LogInv /\ Once => EveryDatagramOnce
<1> SUFFICES ASSUME LogInv, Once
             PROVE  EveryDatagramOnce
  OBVIOUS
<1>1. \A s \in {files[d] : d \in Days} \union {screen, rcvbuf} : Increasing(s)
  BY DEF Once, InOrder
<1>2. QED
  BY <1>1, OnceCounted DEF EveryDatagramOnce, Increasing

\* No datagram is lost or doubled and the lines keep its order while the server
\* thread lives, wherever the rotation put them (UDPServer.hs:83-119).
THEOREM NoDatagramLost == ServerSpec => []EveryDatagramOnce
<1>1. ServerSpec => []Once
  BY Invariant, InitOnce, NextOnce, PTL DEF ServerSpec
<1>2. QED
  BY Invariant, OnceIsEveryDatagram, <1>1, PTL

--------------------------------------------------------------------------------
(* The server thread waits for datagrams only. *)

\* Once the socket is bound it stays open: nobody but svcMain closes it.
Serving == server \notin {"create", "bind", "died"} => svrSock = "open"

\* No MVar that is read is empty and no handle that is used is missing: the server
\* thread and the closeFile threads wait for nothing, but for a datagram.
NothingBlocks ==
  /\ server = "recv" => svrSock = "open"
  /\ server = "handle" => handle # 0
  /\ server = "write" => h \in Handles
  /\ \A c \in DOMAIN closers : closers[c].at = "read" => handle # 0

\* The steps until the thread waits for a datagram again, at most.
StepsToRecv ==
  CASE server = "create" -> 6
    [] server = "bind"   -> 5
    [] server = "handle" -> 4
    [] server = "open"   -> 3
    [] server = "write"  -> 2
    [] server = "check"  -> 1
    [] server \in {"recv", "done", "died"} -> 0

\* Each step of the thread brings it nearer to the next datagram, or to its end;
\* the closeFile threads and the surroundings do not put it off.
ServerCountsDown ==
  [][/\ server # "recv" /\ (Create \/ ServerStep \/ ThreadDies) => StepsToRecv' < StepsToRecv
     /\ CloserStep \/ Surroundings => StepsToRecv' = StepsToRecv]_serverVars

LEMMA NextServing == LogInv /\ Serving /\ [ServerNext]_serverVars => Serving'
<1> SUFFICES ASSUME LogInv, Serving, [ServerNext]_serverVars
             PROVE  Serving'
  OBVIOUS
<1>1. CASE ServerStep
  BY <1>1
  DEF ServerStep, Serving, Bind, Recv, PlainHandler, SameDay, NewDay,
      OpenLogFile, OpenFails, WriteLine, WriteFails, CheckStop, Die
<1>2. CASE Create \/ ThreadDies
  BY <1>2, DeathLeaves DEF Create, CreateServer, Serving
<1>3. CASE CloserStep \/ Surroundings \/ UNCHANGED serverVars
  <2>1. UNCHANGED <<server, svrSock>>
    BY <1>3
    DEF CloserStep, CloserRead, CloserClose, Surroundings, ClockChange, Arrive, Collect,
        serverVars, thread
  <2>2. QED
    BY <2>1 DEF Serving
<1>4. QED
  BY <1>1, <1>2, <1>3 DEF ServerNext, ThreadDies

\* The server thread comes back for the next datagram after at most four steps,
\* whatever the date does, or ends; a rotation never makes it wait for a closeFile
\* thread (UDPServer.hs:81-119): what ArrivedIsReceived adds is that it is run.
THEOREM ServerProceeds ==
  ServerSpec => [](StepsToRecv \in Nat /\ NothingBlocks) /\ ServerCountsDown
<1>1. ServerInit => LogInv /\ Serving
  BY InitLogInv DEF ServerInit, Serving
<1>2. LogInv /\ Serving => StepsToRecv \in Nat /\ NothingBlocks
  <2> SUFFICES ASSUME LogInv, Serving
               PROVE  StepsToRecv \in Nat /\ NothingBlocks
    OBVIOUS
  <2>1. StepsToRecv \in Nat
    BY DEF LogInv, TypeOK, StepsToRecv
  <2>2. closers # <<>> \/ server = "handle" => handle # 0
    BY DEF LogInv, Rotation
  <2>3. \A c \in DOMAIN closers : handle # 0
    BY <2>2
  <2>4. QED
    BY <2>1, <2>2, <2>3 DEF LogInv, Rotation, Serving, NothingBlocks
<1>3. ServerCountsDown
  <2>1. ASSUME server # "recv", Create \/ ServerStep \/ ThreadDies
        PROVE  StepsToRecv' < StepsToRecv
    BY <2>1
    DEF Create, ServerStep, ThreadDies, CreateFails, SystemRefuses, Bind, Recv, PlainHandler,
        SameDay, NewDay, OpenLogFile, OpenFails, WriteLine, WriteFails, CheckStop, Die, StepsToRecv
  <2>2. ASSUME CloserStep \/ Surroundings
        PROVE  StepsToRecv' = StepsToRecv
    <3>1. server' = server
      BY <2>2
      DEF CloserStep, CloserRead, CloserClose, Surroundings, ClockChange, Arrive, Collect,
          thread
    <3>2. QED
      BY <3>1 DEF StepsToRecv
  <2>3. QED
    BY <2>1, <2>2, PTL DEF ServerCountsDown
<1>4. QED
  BY <1>1, <1>2, <1>3, NextLogInv, NextServing, PTL DEF ServerSpec
================================================================================
