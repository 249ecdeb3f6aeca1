-------------------------------- MODULE ClockPort --------------------------------
(***************************************************************************)
(* The clock application of win32/clock/erlang: the gen_server of          *)
(* apps/clock/src/clock.erl under its supervisor clock_sup, the clients    *)
(* that call it, the Erlang port, and the port program src/clock.c at the  *)
(* other end of two pipes.                                                 *)
(***************************************************************************)
EXTENDS Naturals, Sequences, FiniteSets

CONSTANTS
  Clients,      \* the processes that call the API
  RequestIDs,   \* the values of wRequestID they send
  MaxCalls,     \* bound: calls made
  MaxStops,     \* bound: console events that stop a port program
  MaxRestarts,  \* bound: restarts by the supervisor
  Timeouts,     \* whether a client may lose patience with gen_server:call
  Shutdown      \* whether the application may be stopped

ASSUME RequestsAssumption == RequestIDs \subseteq 0 .. 3
ASSUME BoundsAssumption == MaxCalls \in Nat /\ MaxStops \in Nat /\ MaxRestarts \in Nat
ASSUME SwitchesAssumption == Timeouts \in BOOLEAN /\ Shutdown \in BOOLEAN

VARIABLES
  client,      \* per client: the call it waits for, and what its last call returned
  calls,       \* how many calls were made; a call's number is its reference
  mailbox,     \* the message queue of the gen_server process
  server,      \* "loop", "receive" (inside handle_call) or "down"
  cur,         \* the call handle_call works on
  sup,         \* clock_sup: "up", "stopping" or "down"
  restarts,    \* how often it has restarted the server
  port,        \* the Erlang port: "open", "eof" (exit_status is sent) or "closed"
  toProg,      \* the words in the program's standard input
  fromProg,    \* the responses in its standard output
  buf,         \* lpReadBuffer, filled up to dwTotalBytesRead
  prog,        \* "running", or why g_bStopped is set
  stops,       \* how many console events there were
  sent,        \* history: the commands written to this port
  handled,     \* history: the requests this program answered
  swallowed    \* history: what this server's handle_call took for a response

callers == <<client, calls>>
erlang  == <<mailbox, server, cur, swallowed>>
tree    == <<sup, restarts>>
program == <<buf, prog, handled>>
vars == <<callers, erlang, tree, port, toProg, fromProg, program, stops, sent>>

--------------------------------------------------------------------------------
(* Messages.  ref names the call a message belongs to. *)

NoCall == [ref |-> 0, id |-> 0, from |-> "nobody"]

CallMsg(c, r, id) == [type |-> "call", ref |-> r, id |-> id, from |-> c]
DataMsg(r, id)    == [type |-> "data", ref |-> r, id |-> id, from |-> "port"]
Signal(t)         == [type |-> t, ref |-> 0, id |-> 0, from |-> "port"]
Nothing           == Signal("nothing")

\* wRequestID 2 and 3 are answered with a text, the others with 64 bits.
IsNumber(id) == id \notin {2, 3}

\* On the wire, a command of {packet, 2}: the length, wRequestID and wParam, two
\* bytes each; lpReadBuffer has room for four such words.
Frame(r, id) == [w \in 1 .. 3 |-> [ref |-> r, id |-> id, word |-> w]]
BufWords == 4

Waiting(c) == client[c].ref # 0

\* gen_server:reply: only the caller that still waits for this call takes it.
Reply(r, value) ==
  client' = [c \in Clients |->
               IF client[c].ref = r
               THEN [ref |-> 0, id |-> client[c].id, asked |-> r, got |-> value]
               ELSE client[c]]

--------------------------------------------------------------------------------
(* Clients. *)

\* call_port: gen_server:call(?MODULE, Request).
Call(c, id) ==
  /\ ~Waiting(c)
  /\ server # "down"
  /\ calls < MaxCalls
  /\ calls' = calls + 1
  /\ client' = [client EXCEPT ![c] = [ref |-> calls + 1, id |-> id,
                                      asked |-> 0, got |-> Nothing]]
  /\ mailbox' = Append(mailbox, CallMsg(c, calls + 1, id))
  /\ UNCHANGED <<server, cur, swallowed, tree, port, toProg, fromProg, program, stops, sent>>

\* Five seconds without a reply: the caller exits, its message stays.
Timeout(c) ==
  /\ Timeouts
  /\ Waiting(c)
  /\ client' = [client EXCEPT ![c].ref = 0]
  /\ UNCHANGED <<calls, erlang, tree, port, toProg, fromProg, program, stops, sent>>

--------------------------------------------------------------------------------
(* The gen_server process. *)

\* The process ends: its port is closed, its queue is lost, the monitors of the
\* waiting callers fire, and a supervisor that was waiting for it is done.
Terminate ==
  /\ server' = "down"
  /\ mailbox' = <<>>
  /\ cur' = NoCall
  /\ swallowed' = {}
  /\ port' = "closed"
  /\ toProg' = <<>>
  /\ fromProg' = <<>>
  /\ buf' = <<>>
  /\ prog' = "eof"
  /\ sent' = <<>>
  /\ handled' = <<>>
  /\ client' = [c \in Clients |-> [client[c] EXCEPT !.ref = 0]]
  /\ sup' = IF sup = "stopping" THEN "down" ELSE sup
  /\ UNCHANGED <<calls, restarts, stops>>

NextIs(t) == mailbox # <<>> /\ Head(mailbox).type = t

\* handle_call up to its receive.  A command to a port that is gone is dropped.
HandleCall ==
  /\ server = "loop"
  /\ NextIs("call")
  /\ LET m == Head(mailbox)
     IN  /\ cur' = [ref |-> m.ref, id |-> m.id, from |-> m.from]
         /\ IF port = "open"
            THEN /\ toProg' = toProg \o Frame(m.ref, m.id)
                 /\ sent' = Append(sent, m.ref)
            ELSE UNCHANGED <<toProg, sent>>
  /\ mailbox' = Tail(mailbox)
  /\ server' = "receive"
  /\ UNCHANGED <<callers, swallowed, tree, port, fromProg, program, stops>>

\* A response that is taken without a reply ("noreply").
ReceiveDataNoReply ==
  /\ server = "receive"
  /\ NextIs("data")
  /\ mailbox' = Tail(mailbox)
  /\ server' = "loop"
  /\ cur' = NoCall
  /\ UNCHANGED <<callers, swallowed, tree, port, toProg, fromProg, program, stops, sent>>

\* "{Port, {data, Response}} -> {reply, Response, State}".
ReceiveData ==
  /\ server = "receive"
  /\ NextIs("data")
  /\ Reply(cur.ref, Head(mailbox))
  /\ mailbox' = Tail(mailbox)
  /\ server' = "loop"
  /\ cur' = NoCall
  /\ UNCHANGED <<calls, swallowed, tree, port, toProg, fromProg, program, stops, sent>>

\* A receive with an "after" clause, which may give up waiting.
ReceiveAnyAfter ==
  /\ server = "receive"
  /\ ~NextIs("data")
  /\ Reply(cur.ref, IF mailbox = <<>> THEN Nothing ELSE Head(mailbox))
  /\ swallowed' = swallowed \union {mailbox[k].type : k \in 1 .. 1 \intersect DOMAIN mailbox}
  /\ mailbox' = SubSeq(mailbox, 2, Len(mailbox))
  /\ server' = "loop"
  /\ cur' = NoCall
  /\ UNCHANGED <<calls, tree, port, toProg, fromProg, program, stops, sent>>

\* "X -> {reply, X, State}": whatever else is first in the queue is the reply.
ReceiveAny ==
  /\ server = "receive"
  /\ mailbox # <<>>
  /\ ~NextIs("data")
  /\ Reply(cur.ref, Head(mailbox))
  /\ swallowed' = swallowed \union {Head(mailbox).type}
  /\ mailbox' = Tail(mailbox)
  /\ server' = "loop"
  /\ cur' = NoCall
  /\ UNCHANGED <<calls, tree, port, toProg, fromProg, program, stops, sent>>

\* handle_info of a late response or of exit_status: it is logged.
HandleInfo ==
  /\ server = "loop"
  /\ NextIs("data") \/ NextIs("exit_status")
  /\ mailbox' = Tail(mailbox)
  /\ UNCHANGED <<callers, server, cur, swallowed, tree, port, toProg, fromProg, program, stops, sent>>

\* A handle_info without the 'EXIT' clause: the message is logged.
HandlePortExitLogged ==
  /\ server = "loop"
  /\ NextIs("EXIT")
  /\ mailbox' = Tail(mailbox)
  /\ UNCHANGED <<callers, server, cur, swallowed, tree, port, toProg, fromProg, program, stops, sent>>

\* handle_info of the port's exit: exit(port_terminated).
HandlePortExit ==
  /\ server = "loop"
  /\ NextIs("EXIT")
  /\ Terminate

\* A parent's exit that reaches handle_info's catch-all.
ParentExitLogged ==
  /\ server = "loop"
  /\ NextIs("shutdown")
  /\ mailbox' = Tail(mailbox)
  /\ UNCHANGED <<callers, server, cur, swallowed, tree, port, toProg, fromProg, program, stops, sent>>

\* gen_server's own loop obeys the exit signal of its parent.
ParentExit ==
  /\ server = "loop"
  /\ NextIs("shutdown")
  /\ Terminate

Server ==
  \/ HandleCall
  \/ ReceiveData \/ ReceiveAny
  \/ HandleInfo
  \/ HandlePortExit \/ ParentExit

--------------------------------------------------------------------------------
(* The supervisor: permanent children, Shutdown = infinity. *)

\* clock:start_link once more: a new process, port and program.
Restart ==
  /\ sup = "up"
  /\ server = "down"
  /\ restarts < MaxRestarts
  /\ restarts' = restarts + 1
  /\ server' = "loop"
  /\ port' = "open"
  /\ prog' = "running"
  /\ UNCHANGED <<callers, mailbox, cur, swallowed, sup, toProg, fromProg, buf, handled, stops, sent>>

StopApplication ==
  /\ Shutdown
  /\ sup = "up"
  /\ IF server = "down"
     THEN sup' = "down" /\ UNCHANGED mailbox
     ELSE sup' = "stopping" /\ mailbox' = Append(mailbox, Signal("shutdown"))
  /\ UNCHANGED <<callers, server, cur, swallowed, restarts, port, toProg, fromProg, program, stops, sent>>

--------------------------------------------------------------------------------
(* The port: it passes on responses, then the end of the program. *)

Deliver ==
  /\ port = "open"
  /\ fromProg # <<>>
  /\ mailbox' = Append(mailbox, Head(fromProg))
  /\ fromProg' = Tail(fromProg)
  /\ UNCHANGED <<callers, server, cur, swallowed, tree, port, toProg, program, stops, sent>>

PortEof ==
  /\ port = "open"
  /\ prog # "running"
  /\ fromProg = <<>>
  /\ port' = "eof"
  /\ mailbox' = Append(mailbox, Signal("exit_status"))
  /\ UNCHANGED <<callers, server, cur, swallowed, tree, toProg, fromProg, program, stops, sent>>

PortExit ==
  /\ port = "eof"
  /\ port' = "closed"
  /\ mailbox' = Append(mailbox, Signal("EXIT"))
  /\ UNCHANGED <<callers, server, cur, swallowed, tree, toProg, fromProg, program, stops, sent>>

Port == Deliver \/ PortEof \/ PortExit

--------------------------------------------------------------------------------
(* The port program: WaitStdIO and HandleRequest. *)

\* A request whose first word is not a length is a length error.
HandleRequest(words) ==
  IF words[1].word = 1
  THEN /\ fromProg' = Append(fromProg, DataMsg(words[2].ref, words[2].id))
       /\ handled' = Append(handled, words[2].ref)
       /\ UNCHANGED prog
  ELSE /\ prog' = "length"
       /\ UNCHANGED <<fromProg, handled>>

\* "6 <= dwTotalBytesRead".
IsRequestOrMore(words) == Len(words) >= 3

IsRequest(words) == Len(words) = 3

\* One ReadFile takes any part of what is in the pipe and fits in the buffer.
ReadFile(n) ==
  /\ prog = "running"
  /\ LET words == buf \o SubSeq(toProg, 1, n)
     IN  IF IsRequest(words)
         THEN buf' = <<>> /\ HandleRequest(words)
         ELSE buf' = words /\ UNCHANGED <<prog, fromProg, handled>>
  /\ toProg' = SubSeq(toProg, n + 1, Len(toProg))
  /\ UNCHANGED <<callers, erlang, tree, port, stops, sent>>

\* A full buffer leaves ReadFile nothing to read into: zero bytes, "EOF".
ReadNothing ==
  /\ prog = "running"
  /\ Len(buf) = BufWords
  /\ prog' = "eof"
  /\ UNCHANGED <<callers, erlang, tree, port, toProg, fromProg, buf, handled, stops, sent>>

\* CtrlHandler has set the stop event.
StopEvent ==
  /\ prog = "running"
  /\ stops < MaxStops
  /\ stops' = stops + 1
  /\ prog' = "event"
  /\ UNCHANGED <<callers, erlang, tree, port, toProg, fromProg, buf, handled, sent>>

\* A ReadFile of sizeof(lpReadBuffer) bytes, whatever the buffer holds.
ReadableWhole == {n \in 1 .. BufWords : n <= Len(toProg)}

Readable == {n \in 1 .. BufWords : n <= Len(toProg) /\ n <= BufWords - Len(buf)}

Program == (\E n \in Readable : ReadFile(n)) \/ ReadNothing

--------------------------------------------------------------------------------
Init ==
  /\ client = [c \in Clients |-> [ref |-> 0, id |-> 0, asked |-> 0, got |-> Nothing]]
  /\ calls = 0
  /\ mailbox = <<>>
  /\ server = "loop"
  /\ cur = NoCall
  /\ sup = "up"
  /\ restarts = 0
  /\ port = "open"
  /\ toProg = <<>>
  /\ fromProg = <<>>
  /\ buf = <<>>
  /\ prog = "running"
  /\ stops = 0
  /\ sent = <<>>
  /\ handled = <<>>
  /\ swallowed = {}

Next ==
  \/ \E c \in Clients, id \in RequestIDs : Call(c, id)
  \/ \E c \in Clients : Timeout(c)
  \/ Server
  \/ Restart
  \/ StopApplication
  \/ Port
  \/ Program
  \/ StopEvent

Spec == Init /\ [][Next]_vars

\* The Erlang scheduler, the port driver and the operating system run whoever
\* can run; nobody has to call, to lose patience, or to stop anything.
FairSpec ==
  /\ Spec
  /\ WF_vars(Server)
  /\ WF_vars(Port)
  /\ WF_vars(Program)
  /\ WF_vars(Restart)

--------------------------------------------------------------------------------
Refs == 0 .. MaxCalls
Messages ==
  [type : {"nothing", "call", "data", "exit_status", "EXIT", "shutdown"},
   ref : Refs, id : 0 .. 3, from : Clients \union {"port"}]
Words == [ref : Refs, id : 0 .. 3, word : 1 .. 3]

TypeOK ==
  /\ client \in [Clients -> [ref : Refs, id : 0 .. 3, asked : Refs, got : Messages]]
  /\ calls \in Refs
  /\ mailbox \in Seq(Messages)
  /\ server \in {"loop", "receive", "down"}
  /\ cur \in [ref : Refs, id : 0 .. 3, from : Clients \union {"nobody"}]
  /\ sup \in {"up", "stopping", "down"}
  /\ restarts \in 0 .. MaxRestarts
  /\ port \in {"open", "eof", "closed"}
  /\ toProg \in Seq(Words)
  /\ fromProg \in Seq(Messages)
  /\ buf \in Seq(Words) /\ Len(buf) <= BufWords
  /\ prog \in {"running", "event", "eof", "length"}
  /\ stops \in 0 .. MaxStops
  /\ sent \in Seq(Refs)
  /\ handled \in Seq(Refs)
  /\ swallowed \subseteq {"call", "exit_status", "EXIT", "shutdown"}

IsPrefixOf(s, t) == Len(s) <= Len(t) /\ s = SubSeq(t, 1, Len(s))

\* However the bytes arrive, the program answers the requests it was sent, whole
\* and in order, and never meets a length that is not one: a read that runs over
\* the end of a request stops it instead (clock.c:216-261).
FramesStayWhole ==
  /\ IsPrefixOf(handled, sent)
  /\ prog # "length"

\* While handle_call has taken nothing but port data for a response, the pipes
\* hold one request at most, so the program does not stop of a full buffer
\* (clock.c:218 and 230), and every caller was answered with the response to its
\* own request (clock.erl:56-66).
OwnAnswerUnlessSwallowed ==
  swallowed = {} /\ server # "down" =>
    /\ Len(sent) - Len(handled) <= 1
    /\ prog # "eof"
    /\ \A c \in Clients :
         client[c].got.type = "data" /\ client[c].asked \in {sent[k] : k \in DOMAIN sent}
           => client[c].got.ref = client[c].asked

\* After the end of its program a server exits and the supervisor starts the
\* next one, unless the application is being stopped (clock.erl:76-77,
\* clock_sup.erl:29).  Exempt is the server whose handle_call took the exit of
\* the port for a response (clock.erl:63): it learns of it no more and stays.
LostPortIsReplaced ==
  \A n \in 0 .. MaxRestarts - 1 :
    restarts = n /\ prog # "running" ~>
      restarts = n + 1 \/ sup # "up" \/ "EXIT" \in swallowed

\* The application stops, if the parent's exit is not taken for a response
\* (clock.erl:63-65, clock_sup.erl:30).
ShutdownCompletes ==
  sup = "stopping" ~> sup = "down" \/ "shutdown" \in swallowed

\* "<<CurrentMillis:64/big-unsigned-integer>> = call_port(<<0:16, 1:16>>)"
\* (clock.erl:98): a call for a time is answered with 64 bits.
TimeIsANumber ==
  \A c \in Clients :
    client[c].asked # 0 /\ IsNumber(client[c].id)
      => client[c].got.type = "data" /\ IsNumber(client[c].got.id)

\* "g_bStopped = TRUE;  // EOF" (clock.c:225): zero bytes are the end of the
\* input, which is the end of the server.
ZeroBytesIsEof ==
  prog = "eof" => server = "down"

Pending(r) == \E c \in Clients : client[c].ref = r

\* A call comes to an end without the help of the five seconds, in a reply or
\* in the exit of the server, as long as no caller was given a foreign message
\* for a response: only then can the receive wait for what never comes
\* (clock.erl:59-66).
EveryCallEnds ==
  \A r \in 1 .. MaxCalls : Pending(r) ~> ~Pending(r) \/ swallowed # {}
================================================================================
