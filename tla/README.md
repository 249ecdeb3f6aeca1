# Etude: a TLA+ verification of its stateful programs

Etude is a collection of small programs. Most are exercises of a language or a
library; a handful keep state that several threads, processes or messages
change. This directory models those: TLA+ modules, the configurations with which
TLC checks them on small instances, and proofs of their central properties that
TLAPS checks for every instance.

- `X.tla` models component X; `MCX.tla` with one or more `.cfg` files
  instantiates it for TLC; `XProofs.tla` proves theorems about it.
- `PROJECT.json` lists components, runs, mutants, hazards, theorems and, under
  `map`, the source lines each definition stands for.

To repeat a check: `tlc -config MCX.cfg MCX.tla`; to repeat a proof:
`tlapm XProofs.tla`.

## 1. The system: inventory

### 1.1 Components that keep state

| component | source | state | operations |
|---|---|---|---|
| Ring buffer | `src/data-structure/ring-buffer/ring-buffer.hpp` | slots, read cursor, write cursor, element count | `read`, `write` |
| UDP log server | `src/haskell/network/rsyslog/src/RSyslog/UDPServer.hs`, `Linux/Main.hs` | `MVar`s `date`, `handle`, `svrSock`, `terminate`; the open handles; the log files | `createServer`, `startServe`/`serveLog`/`procMessages`, `plainHandler`, `fileHandler`, `rotateLogFile`, forked `closeFile` |
| Log server as a Windows service | `.../RSyslog/Win32/Main.hs` | `MVar`s `gState`, `mStop`; the status the service control manager (SCM) was told | `svcMain`, `svcCtrlHandler`, `reportSvcStatus` |
| Clock application | `src/win32/clock/erlang/apps/clock/src/*.erl`, `src/win32/clock/erlang/src/clock.c` | the mailbox and state of the gen_server, the supervisor, the port and its two pipes, the read buffer and stop flag of the C program | the API functions, `handle_call`, `handle_info`, `terminate`, the supervisor's restart and shutdown, `WaitStdIO`, `HandleRequest`, `CtrlHandler` |
| JMS message queues | `src/spring/jms/converter/.../ProtobufMessageListenerDelegate.java`, `MultipleMessageHandler.java` | the queue, the monitor's wait set, the discard flag | `handleMessage`, `pop`, `setDiscard` |
| Web pages | `src/javascript/angularjs/exercise/angular-component/src/main/webapp/` and `src/mxgraph/exercises/mx-component/src/main/webapp/`: `require-config.js` of mx-component, `WebjarsJsController.java` of angular-component, `main.js` of the pages `hello`, `require-angular`, `event`, `watch`, `manual-bootstrap` | the document's readiness, RequireJS's configuration and its pending calls, the scripts fetched, the modules AngularJS knows, its waiting callbacks, the scope of `watchController` | parse, fetch, timers, `DOMContentLoaded` and `load`, bootstrap, `$watch` and digest |
| mxGraph labels | `src/mxgraph/exercises/mx-component/src/main/webapp/labels/main.js` | the update level, the model's cells, their geometry, offset, value and fold state, the display | the insertions in one update, `getLabel`, `isWrapping`, `isLabelClipped`, `isCellResizable`, the user's gestures |
| Asynchronous MySQL query | `src/nodejs/mysql/async-test/index.js` | per process: its pool, exit code and output; the server's sessions | the query, its callback, the end of the pool, the exit |
| Set, enum and sorting experiments | `src/typescript/experiments/{set,enum,function}` | an array while it is sorted, a compiled enum and the tables made of it | sort, `Set`, the lookups of an enum |
| Clock port owner without OTP | `src/win32/clock/erlang/src/clock.erl` | a mailbox and a port | `call_port`, `cast_port`, `stop`, `loop` |
| Netty SOAP service | `src/java/webservices/netty-soap/.../NettySoapServerHandler.java` | the request line kept between messages, the last response | `channelRead0`, `endResponse` |
| Minute history | `src/sqlserver/transposed/insert-transposed/...` | rows of a table, published events | `create`, `update`, `delete`, `query` |
| Lagom hello and stream | `src/lagom/hello`, `src/lagom/hello-scala` | the journal of an entity, a topic, a read-side table | commands, the subscriber, the repository |
| Akka JMS stream | `src/akka/examples/jms-consumer/stream-jms` | a JMS session and a Cassandra table | the stream from one to the other |

How they interact:

- The **log server** is one program with two fronts. On Linux `main` calls
  `createServer` and `startServe` in one thread; on Windows `svcMain` calls
  `createServer`, forks the server thread and then waits for a stop. They share
  the `MVar`s of `ServerState`; the server forks a `closeFile` thread at each
  rotation; the SCM calls the control handler in a thread of its own.
- The **clock application** is a chain: clients send calls to the gen_server's
  mailbox; the gen_server sends commands to the port and waits in `handle_call`
  for the response; the port puts a two-byte length before each command and writes
  it to the program's standard input; the program reads the pipe in pieces,
  answers on its standard output, and the port puts the response into the same
  mailbox as everything else: other calls, `exit_status`, the port's `EXIT` and
  the supervisor's `EXIT`.
- The **JMS queues** join a listener thread of the container to any number of
  threads that call `pop`; one monitor guards the queue, and no lock guards the
  discard flag.
- The **ring buffer** is sequential; its difficulty is arithmetic at the wrap.
- A **web page** is one thread of tasks: the parser, `require.js` and its
  configuration, the page's `main.js`, the libraries it needs and AngularJS, each
  of which leaves callbacks with the others. What is shared is the document:
  who asks to be told that it is ready before and who after it was. The labels
  page then draws its graph in one such task and hands functions to mxGraph,
  which calls them for each cell it shows.
- The **scripts** for node run one at a time; several processes of the MySQL
  script share the sessions of one server.

### 1.2 Where it is hard, and what makes each component correct

| component | hard behaviour | correct when |
|---|---|---|
| Ring buffer | the wrap of two cursors, `!=` tests on `size_t`, the count updated after the loop | it is a bounded FIFO queue and each call returns |
| UDP log server | rotation across threads, a file closed while another handle is used, the clock set back, the file lock of GHC's I/O library | no datagram is lost or out of order while the server lives, and what can end it is known |
| Windows service | a stop at any moment, before the server has bound its socket, two reporters, an `MVar` of one place | the SCM sees each state once and in order, one stop is in transit, `Stopped` is true, every stop is answered |
| Clock application | a bare `receive` in a callback, a program that ends at any moment, calls that time out, reads that split or join requests, restart and shutdown | each caller gets the answer to its own call, a lost program is noticed and replaced, shutdown completes |
| JMS queues | lost wakeups, overtaking consumers, a wait that expires as a message arrives, an unsynchronised flag | every message is taken once and in order, no wakeup is lost, no `pop` blocks for ever |
| Web pages | scripts and document events in any order, scripts that are missing, a configuration that arrives by callback, two ways to bootstrap, a digest that runs again because its listener writes what is watched | libraries are looked for where the configuration says, a page is bootstrapped once and after its module is registered, it comes up when its scripts do, and the watch page shows the message and the one before |
| mxGraph labels | an exception in the middle of an update, functions that must agree although they test different fields, long sequences of gestures | cells appear in one step and closed under what they need, the model is never left inside an update, no label is cut that has its place relative to another cell |
| MySQL query | an error at any of three places, a connection lost under an answer, a pool that keeps the process alive | the exit code tells the result and every run exits |
| Experiments | sorting by numerals, ties, engines that sort in different ways, numbers that repeat what an enum defines | sorts are stable permutations, times ascend, the four tables agree |

`PROJECT.json` lists the hazards under `hazards`, each at its line with the
properties that would catch it.

## 2. The plan

In the order of importance, as built:

1. `BoundedFifo` (abstract), `RingBuffer` (implements it), `MCRingBuffer`,
   `RingBufferProofs`.
2. `SyslogServer`, `MCSyslogServer`, `SyslogServerProofs`; `SyslogService`, which
   EXTENDS the server and adds `svcMain` and the control handler,
   `MCSyslogService`, `SyslogServiceProofs`.
3. `ClockPort`, `MCClockPort`, `ClockPortProofs`: Erlang side and C program composed.
4. `JmsHandler`, `MCJmsHandler`, `JmsHandlerProofs`.
5. `PageLoad` and `WatchScope`, composed in `WebPages`; `WebPagesProofs`.
6. `GraphLabels`, `MCGraphLabels`, `GraphLabelsProofs`; `WebApps`, which composes
   the pages with the graph that one of them draws, and `MCWebPages`.
7. `SetSort`, `EnumActions` and `AsyncQuery`, composed in `NodeScripts`;
   `MCNodeScripts`, `NodeScriptsProofs`.

What could follow, in this order:

8. `LogSink` (abstract): a log that takes each datagram or stops; `SyslogServer`
   would implement it, as the refinement that `EveryDatagramOnce` now states as
   an invariant. `MessageQueue` likewise for `JmsHandler`.
9. The C program of `ClockPort` in a module of its own, so that a model of the
   port owner without OTP can compose with it.

Section 6 says which components stay out, and why.

## 3. Modules and code

### 3.1 `BoundedFifo`, `RingBuffer`

`BoundedFifo` is the promise: a queue of at most `Size` values; a write of a
list puts in as long a front of it as there is room for and answers with its
length; a read of `k` answers with as many values as there are, `k` at most.

`RingBuffer` is the code, one action for one turn of a loop:

| action | lines of `ring-buffer.hpp` |
|---|---|
| `ReadEmpty`, `WriteFull` | 22, 35: the early return |
| `ReadStart`, `WriteStart` | 24-25, 37-38: the loop begins |
| `ReadStep`, `WriteStep` | 26-27, 39-40: one element copied, the cursor advanced and wrapped (`Advance`) |
| `ReadReturn`, `WriteReturn` | 29-30, 42-43: the count adjusted, the call returns |

`_buffer`, `_rd_pos`, `_wr_pos` and `_element_count` are variables; so are the
arguments and the loop index of the call in progress. `_element_count` keeps its
old value during the loop, as in the code. Values are model values; a slot that
was never written holds any of them (`new value_type[size]` initialises
nothing). The accessors change nothing. The buffer has no locks and is modelled
with one caller.

The refinement mapping reads the abstract queue off the slots from the read
cursor on, and lets it change at the step that adjusts the count: steps of a
loop are stutters.

### 3.2 `SyslogServer`

State: the system clock's date; `date`, `handle`, `svrSock` and `terminate` as
in `ServerState`; every handle ever opened with the day of its file and whether
it is open; the `closeFile` threads; the lines of each file; the socket's
receive buffer; and the position of the server thread with the datagram and the
handle it holds.

| action | lines of `UDPServer.hs` |
|---|---|
| `Create`, `CreateFails` | 32-50: the directory and the first log file are made, or cannot be |
| `Bind` | 52-82: resolve, bind, `putMVar svrSock` |
| `Recv` | 83-87: `recvFrom` |
| `PlainHandler` | 94-97 (`--console`) |
| `SameDay` | `rotateLogFile` when the date is unchanged: `readMVar handle` |
| `NewDay` | the date is replaced and `closeFile` forked |
| `OpenLogFile`, `OpenFails` | the new file is opened and its handle returned, or is locked |
| `WriteLine`, `WriteFails` | 99-103: the line is written, or the handle is closed |
| `CheckStop` | 90-92: `terminate` is read |
| `SystemRefuses` | 64-87, 97, 103, 126: the system fails what the thread asks of it: the name, the port, a datagram, the screen, a file, room on the disk |
| `CloserRead`, `CloserClose` | 113-116: `readMVar handle`, then `hClose` |
| `ClockChange`, `Arrive`, `Collect` | the clock, the network, the garbage collector |

Three facts about GHC's library decide the behaviour and are modelled as
external: a file that is open for writing cannot be opened by the same process
again (`FileLocked`); writing to a closed handle throws; a handle nothing refers
to may be closed by its finalizer, or may never be. `Reachable` says what refers
to a handle: the `MVar`, the server thread between `rotateLogFile` and the
write, and a `closeFile` thread that has read it.

`rotateLogFile` never stores the new handle. The code's consequences are in the
runs: the second line of a new day goes to the old day's handle and, once
`closeFile` has run, kills the thread (`LoopForever`). The properties of the run
`syslog_server` say what holds all the same. `cause` tells what ended the thread:
`"create"` and `"refused"` are the system's failures, which may come at any call
and are outside of the program; `"closed"` and `"locked"` are its own doing, and
`KilledByRotation` says how each comes about.

### 3.3 `SyslogService`

EXTENDS `SyslogServer` and composes three more actors with it: `svcMain`, a
statement at a time (`ReportRunning` ... `Exit`, `Win32/Main.hs` 34-47), the
control handler (`StopControl`, `ReportStopPending`, `PutStop`, 71-76), and the
SCM, which sends Stop to a service that accepts it. `RecvFails` is the server
thread's `recvFrom` on the socket `svcMain` has closed, `ServerRefused` that of
`SystemRefuses`. `NextState` is `nextState`
with its checkpoint counter; `ReportSvcStatus` is one action because
`modifyMVar_` holds `gState` while it calls the SCM. An exception in `svcMain`
ends the process (`main = "failed"`), as GHC's handler for callbacks does; an
exception in a forked thread ends that thread.

### 3.4 `ClockPort`

| part | actions | source |
|---|---|---|
| clients | `Call`, `Timeout` | `clock.erl` 94-138; five seconds of `gen_server:call` |
| gen_server | `HandleCall` (59-60 up to the receive), `ReceiveData`, `ReceiveAny`, `HandleInfo`, `HandlePortExit`, `ParentExit` | `clock.erl` 56-85 |
| supervisor | `Restart`, `StopApplication` | `clock_sup.erl` 21-40 |
| port | `Deliver`, `PortEof`, `PortExit` | Erlang's port driver (external) |
| program | `ReadFile`, `ReadNothing`, `StopEvent` | `clock.c` 25-31, 55-278 |

The mailbox is one queue, in order of arrival, because the code's selective
receive has a catch-all clause and therefore takes the first message whatever it
is. A call's number is its reference: `Reply` reaches only a caller that still
waits for that call. A command on the wire is three words of two bytes (length,
`wRequestID`, `wParam`), and the buffer has room for four. A ReadFile returns any
part of what is in the pipe and fits. Half words are left out: the program tests
one thing, whether it has exactly six bytes, and a read that ends in the middle
of a word is neither six bytes nor a full buffer. A response keeps the
request it answers and no time value; `IsNumber` tells the binary answers from
the two texts.

### 3.5 `JmsHandler`

One module for both classes, which differ in two points: whether the discard
flag is tested (`HonoursDiscard`) and what `pop` yields on an empty queue
(`EmptyResult`: `remove` throws, `poll` gives null). A synchronized block is one
action; `wait` splits `pop` into `PopWaits` and `Resume`, between which a thread
is in the wait set, notified or expired. `notify` picks any waiting thread, and a
thread may wake up for no reason. The discard flag is not volatile and is read
outside the monitor, so the listener may see any value it ever had: `discard` is
the set of those values.

### 3.6 `PageLoad`, `WatchScope`, `WebPages`, `WebApps`

`PageLoad` is a page in a browser; one action is one task of the event loop.

| part | actions | source |
|---|---|---|
| parser | `HelloHead`, `PageHead`, `RunRequireJs`, `RequireJsMissing` | the script tags of the pages, which differ between `hello` (blocking scripts) and the others (`require.js` with `data-main`) |
| browser | `DOMContentLoaded`, `WindowLoad`, `ReadyTimer` | external: the document's states and the callbacks AngularJS leaves for them |
| RequireJS | `MainTimer`, `NeedsTimer`, `MainArrives`, `MainFails`, `Arrives`, `Fails` | external; what is asked of it is each page's `main.js` (`RequireMain`, `EventMain`, `WatchMain`, `ManualMain`, `LabelsMain`) and its configuration (`ConfigCallback`, `AngularPaths`, `MxPaths`) |

The configuration of the labels page is `require-config.js` of mx-component. The
pages of angular-component load `../webjarsjs` instead (`index.html:8`), which
`WebjarsJsController` (22-33) has the webjars library make of the class path; the
`require-config.js` that lies beside them is loaded by no page. It was made by the
same library and shows the form of what is served: `AngularPaths` is that form, a
place in the webjar and then a file beside the page.

Either configuration defines the global `require` before `require.js` exists, with
a `callback` that calls `require.config` with the paths. RequireJS runs that
callback when `main` has been executed, so the callback comes after `main.js`
has called `require([...])`; that call waits for a tick, and the property
`ConfiguredBeforeFetch` is that the tick is enough. A library has places to be
asked for, the webjar first and a file beside the page next, as `paths` lists
them; `tried` is the history. AngularJS looks for `ng-app` by itself (`"auto"`),
and `manual-bootstrap/main.js` calls `angular.bootstrap` in a ready callback
(`"manual"`).

`WatchScope` is the scope of `watch/main.js`: the controller's `$watch` on
`message` and the two watches the template makes, evaluated one at a time by
AngularJS's digest (external) until a pass changes nothing. `WebPages` joins the
two: the scope runs once the watch page is bound. Until then its variables hold
what `watchController` will give them. `WebApps` adds the graph of section 3.7: the
callback of `labels/main.js` begins in the task that brings the last library it
needs and is run to its end before the browser takes another (`Busy`); the user's
gestures then interleave with what still loads.

### 3.7 `GraphLabels`

`labels/main.js` inserts seven cells in one update of the model (63-82) and gives
the graph four functions (21-58). `BeginUpdate`, `InsertVertex`, `LeaveTry` and
`EndUpdate` are that program; `LeaveTry` may happen before the last insertion,
which is an exception thrown by mxGraph. `Truncates`, `GetLabel`, `IsWrapping`,
`IsLabelClipped` and `IsCellResizable` translate the functions; a label is its
number of characters and a geometry its width, which is all they read. The
gestures `MoveLabel`, `Resize`, `Fold` and `EditLabel` are mxGraph's (external)
and change the fields those functions test.

### 3.8 `SetSort`, `EnumActions`, `AsyncQuery`, `NodeScripts`

Each script is a module; `NodeScripts` runs one of them at a time and leaves the
variables of the others alone.

| module | source | one action is |
|---|---|---|
| `SetSort` | `set-test.ts`, `basic-function.ts` | one element put into its place by `sort`; V8's two insertion sorts, which differ in how they meet ties, each for the lengths it was used for (`Longest`) |
| `EnumActions` | `enum-tests.ts` | one member of the compiled enum, the four tables, one table printed |
| `AsyncQuery` | `async-test/index.js` | one callback; the pool and the server (external) connect, refuse, answer, lose and close |

Types are erased at run time, so `EnumActions` tags each value with what it is
there. An uncaught throw in a callback ends the process with code 1. A pool with
an open connection keeps node alive, so a path that never calls back would never
exit: `EveryRunExits`.

## 4. Runs: what is checked and what it shows

| run | instance | what it shows |
|---|---|---|
| `ring_buffer` | ring of 3, 2 values, calls of up to 4 elements | `CursorsAgree`, `CopiesInOrder` at every step of the loops, `IsBoundedFifo` (refinement), `CallsReturn` (liveness) |
| `syslog_server` | 3 days, 4 datagrams, 3 changes of the date, with and without `--console` | `TypeOK`, `EveryDatagramOnce`, `KilledByRotation` (the two ways in which the log itself ends the thread, neither of them with `--console`), `NewHandleStaysOpen`, `ArrivedIsReceived` (liveness) |
| `syslog_loop_forever` | 2 days, 3 datagrams, one midnight | violated: the second datagram after midnight is written to the handle `closeFile` has closed, and the thread dies (`WriteFails`) |
| `syslog_service` | 2 days, 2 datagrams, 2 changes | `ServiceTypeOK`, `OneStopInTransit`, `StoppedMeansSilent`, `ClosedMeansTerminating`, `StatusOnlyAdvances`, `StopIsAnswered` (liveness) |
| `clock_application` | 2 clients, requests 0 and 2, 3 calls, 1 console event, 1 restart, timeouts and shutdown | `TypeOK`, `FramesStayWhole`, `OwnAnswerUnlessSwallowed`; `EveryCallEnds`, `LostPortIsReplaced`, `ShutdownCompletes` (liveness) |
| `clock_time_is_a_number` | 1 client, 4 calls, 1 console event | violated: a caller gets `exit_status` for a time |
| `clock_zero_bytes` | 2 clients, 4 calls, timeouts | violated: two requests in the pipe end the program |
| `jms_handler` | 3 consumers, 3 messages, 5 pops, the discard flag | `NoLostWakeup`, `EveryMessageOnce`, `MessageMeetsWaiter` and `PopReturns` (liveness) |
| `web_pages` | all six pages, every script missing or not, 3 texts on the watch page; on the labels page 2 vertices and a sublabel touched, 2 widths, 2 lengths | `ConfiguredBeforeFetch`, `BootFindsModule`, `BoundOnce`, `ShowsMessageAndPrevious`, `RelativeLabelsWhole`, `ViewIsClosed`; `ComesUp`, `EndsDisplayed` (liveness) |
| `graph_truncated` | the graph alone, the same | violated: the three dots come on top of as many characters as fit |
| `graph_clipped` | the graph alone, the same | violated: a vertex that is not collapsed is clipped |
| `node_scripts` | arrays of up to 5 of 3 numbers, in 2 engines; the enum of the source; 3 runs and 2 sessions | `SortInvariant`, `Stable`, `TimesAscend`, `TablesAgree`, `CodeTellsResult`, `EveryRunExits` (liveness) |

Every property of a passing run has a mutant: a definition changed as a
plausible bug would change it, kept beside the original under a name of its own
(`AdvanceLate`, `ReceiveAnyAfter`, ...), under which TLC finds the property
violated.

### 4.1 Why the bounds are enough

- **Ring buffer**: with three slots and calls of up to four elements, reads and
  writes meet every pair of cursors, calls that ask for more than there is, and
  wraps in the middle of a loop. Nothing else depends on the size.
- **Log server**: three days let the clock go on, come back to a file that is
  still locked, and meet a third; three changes fork three `closeFile` threads
  that can all be late; four datagrams write before, between and after. The run
  that is violated has one change of the date, so that the clock cannot be set
  back and what it shows is what a midnight does.
- **Service**: the protocol has one Stop; days and datagrams matter only through
  the ways the server thread can die, and two of each produce all of them.
- **Clock**: two clients are what it takes to put a second request behind the
  first; three calls let one answer be late for its own call and early for the
  next; one restart shows both a replaced program and a server that is down for
  good. The words of two requests overfill the buffer, so every split and every
  join of reads occurs.
- **JMS**: with three consumers one can be notified, one expired and one come in
  from outside while a message lies in the queue.
- **Web pages**: nothing is bounded but the page and the texts. Three texts, the
  first message among them, let the user type a new one, the same again, and go
  back. The limit of passes is AngularJS's.
- **Graph**: the two vertices differ in their alternate bounds, a sublabel in
  having no width. One width holds no character and one holds eleven; one
  length misses that by a character.
- **Scripts**: five elements of three numbers make every pattern of ties and
  of order that insertion meets. Two sessions for three runs: one is refused,
  or comes later. The arrays of `set-test.ts` have nine and ten elements of one
  pattern each, which is as many as V8 up to 6.9 sorts by insertion.

`MaxMsg`, `MaxChanges`, `MaxCalls`, `MaxStops`, `MaxRestarts` and `MaxPops` bound
counters that the code does not bound; they are guards of the environment's
actions only. Deadlock is checked in `ring_buffer`, which can always take another
call, and switched off where the environment's bounds stop the system.

### 4.2 Fairness

- `RingBuffer`: weak fairness of the step of a call in progress: a loop that can
  go on does.
- `SyslogServer`: weak fairness of the server thread and of the `closeFile`
  threads; `SyslogService`: of the server thread, of `svcMain` and of the
  handler. GHC's scheduler is fair to threads that can run. Clock, network,
  collector and SCM owe nothing, and the failures of the system (`CreateFails`,
  `SystemRefuses`) neither have to come nor to stay away.
- `ClockPort`: weak fairness of the gen_server, the port, the program and the
  supervisor's restart: the Erlang scheduler and the operating system run what
  can run. Clients, timeouts, console events and shutdown owe nothing.
- `JmsHandler`: weak fairness of the listener's `handleMessage` once it is
  called, of a thread that can leave `wait`, and of the five-second limit.
  The limit alone would not give `MessageMeetsWaiter`: a waiting thread may be
  interrupted before it is over, and only `notify` then has the message taken.

- `WebPages`: weak fairness of the parser, of the browser's tasks, and of each
  request, which ends well or not: the event loop runs what is due and the
  network gives up in the end. The user owes nothing.
- `WebApps`: besides, weak fairness of the graph's program; a task that has begun
  runs to its end. The user owes nothing.
- `NodeScripts`: for each run of the query, weak fairness of its callbacks, of
  the attempt to connect, of the server's answer and of its closing. The other
  scripts need none.

## 5. What is proved

| module | theorem | statement |
|---|---|---|
| `RingBufferProofs` | `TypeCorrect` | `Spec => []TypeOK` |
| | `CursorsCorrect` | `Spec => []CursorsAgree` |
| | `CopiesCorrect` | `Spec => []CopiesInOrder` |
| | `RingBufferIsFifo` | `Spec => IsBoundedFifo` |
| | `LoopsEnd` | `Spec => [](StepsLeft \in Nat) /\ CallsCountDown` |
| `SyslogServerProofs` | `TypeCorrect` | `ServerSpec => []TypeOK` |
| | `KilledByRotationOnly` | `ServerSpec => []KilledByRotation` |
| | `NewHandleIsSafe` | `ServerSpec => []NewHandleStaysOpen` |
| | `NoDatagramLost` | `ServerSpec => []EveryDatagramOnce` |
| | `ServerProceeds` | `ServerSpec => [](StepsToRecv \in Nat /\ NothingBlocks) /\ ServerCountsDown` |
| `SyslogServiceProofs` | `StopNeverDuplicated` | `Spec => []OneStopInTransit` |
| | `StoppedIsSilent` | `Spec => []StoppedMeansSilent` |
| | `ClosedIsTerminating` | `Spec => []ClosedMeansTerminating` |
| | `StatusAdvances` | `Spec => StatusOnlyAdvances` |
| | `ServiceTypeCorrect` | `Spec => []ServiceTypeOK` |
| | `ServiceLosesNoDatagram` | `Spec => []EveryDatagramOnce` |
| | `ServiceKilledByRotationOnly` | `Spec => []KilledByRotation` |
| | `ServiceKeepsNewHandle` | `Spec => []NewHandleStaysOpen` |
| | `StopProceeds` | `Spec => []NoStopIsStuck /\ StopCountsDown` |
| `ClockPortProofs` | `TypeCorrect` | `Spec => []TypeOK` |
| | `FramesAreWhole` | `Spec => []FramesStayWhole` |
| | `OwnAnswer` | `Spec => []OwnAnswerUnlessSwallowed` |
| | `PortExitIsKept` | `Spec => []PortExitKept` |
| | `ShutdownIsKept` | `Spec => []ShutdownKept` |
| | `CallsProceed` | `Spec => []NoCallIsStuck` |
| `JmsHandlerProofs` | `TypeCorrect` | `Spec => []TypeOK` |
| | `WakeupsAreKept` | `Spec => []NoLostWakeup` |
| | `MessagesAreKept` | `Spec => []EveryMessageOnce` |
| | `WaitersProceed` | `Spec => []QueueIsServed /\ MessagesMoveUp /\ PopsCountDown` |
| `WebPagesProofs` | `ConfiguredFirst` | `PagesSpec => []ConfiguredBeforeFetch` |
| | `ModuleIsThere` | `PagesSpec => []BootFindsModule` |
| | `BoundAtMostOnce` | `PagesSpec => []BoundOnce` |
| | `WatchShowsMessage` | `PagesSpec => []ShowsMessageAndPrevious` |
| | `PagesProceed` | `PagesSpec => []NoPageIsStuck` |
| | `PagesTypeCorrect` | `PagesSpec => [](TypeOK /\ TriedInOrder)` |
| | `LoadEnds` | `PagesSpec => [](TasksLeft \in Nat) /\ LoadCountsDown` |
| | `DigestIsOver` | `PagesSpec => []DigestSettles` |
| | `AppsArePagesAndGraph` | `AppsSpec => PagesSpec /\ GraphSpec` |
| `GraphLabelsProofs` | `RelativeLabelsAreWhole` | `GraphSpec => []RelativeLabelsWhole` |
| | `DisplayIsClosed` | `GraphSpec => []ViewIsClosed` |
| | `EndIsDisplayed` | `GraphSpec => [](StepsLeft \in Nat /\ DisplayedAtEnd) /\ ProgramCountsDown` |
| `NodeScriptsProofs` | `ExitCodeIsTrue` | `Spec => []CodeTellsResult` |
| | `RunsProceed` | `Spec => []NoRunIsStuck /\ RunsCountDown` |
| | `SortKeepsElements` | `Spec => []SortInvariant` |
| | `SortIsStable` | `Spec => []Stable` |
| | `TimesOfSetAscend` | `Spec => []TimesAscend` |
| | `TablesNameOneDirection` | `First = 1` gives `Spec => []TablesAgree` |

**What liveness rests on.** That something happens in the end takes fairness and
ENABLED, which are left to TLC. The part that says no interleaving can spoil it is
a matter of invariants and is proved. The theorems named `...Proceed`, `...Kept` and
`...End` are of this kind: whoever waits, waits for something that is on its way
or that some part can still do (`NoCallIsStuck`, `NoStopIsStuck`, `NothingBlocks`,
`NoPageIsStuck`, `NoRunIsStuck`, `QueueIsServed`, `PortExitKept`, `ShutdownKept`), and,
where the way has a length, each step that is owed makes it shorter and no other
makes it longer (`CallsCountDown`, `ServerCountsDown`, `ProgramCountsDown`,
`RunsCountDown`, `StopCountsDown`, `PopsCountDown`, `MessagesMoveUp`,
`LoadCountsDown`). They hold for every value
of the constants and are defined beside their proofs. On small
instances of the runs' modules TLC finds each of them to hold, too. That the
guard of a step is as these formulas list it is read off the actions and not proved.

**Ring buffer.** Assumed: the size is a natural number, zero included as the
constructor accepts it, there is at least one value, and `MaxCall` is a natural
number. The inductive invariant is `IInv`: `TypeOK`, `CursorsAgree` and
`CopiesInOrder` together. `CursorsAgree` says that the write cursor is the oldest
item's position plus the count, around the ring, with the index of a loop in
progress added on the proper side; positions go around by a comparison and a
subtraction (`Wrap`), as in the code, and not by `%`. The refinement
needs to know what was copied: `CopiesInOrder` relates the loop's index to the
front of the queue (read) or to the slots behind it (write). With both, every
loop step leaves the mapped queue alone and every return is a step of
`BoundedFifo`. `LoopsEnd` follows, too: `i` never exceeds either of the two limits
the loops test with `!=`, so `StepsLeft`, the lesser of them less `i`, is a natural
number, and each step makes it smaller.

**Log server.** Assumed: what `SyslogServer` assumes of its constants; the number
of days, datagrams and changes is any. Two inductive invariants. `LogInv` is
`TypeOK` with `Rotation` and `Hand`: the `MVar` of the handle holds the first
handle for good, so every `closeFile` thread that has read it holds that one too;
before the first such thread exists all handles are open; the fresh handle
`rotateLogFile` returned stays reachable, and so open, until the line is
written. `NewHandleStaysOpen` follows. `KilledByRotation` takes one fact more,
`Newest`, in `DeathInv`: the handle opened last is of the day of the log, except
between the change of `date` and the opening, when it is of another day; and until
some `closeFile` thread is done the first handle is open. So a file that is found
locked was opened before one of another day, and the handle that is found closed is
the first. `Once` is the
way of a datagram: what is written comes before the one in hand, that before
those in the socket's buffer (`Way`), no line is in two places (`Apart`), and each
sequence grows (`InOrder`). It needs lemmas on the set of lines of `Append` and
`Tail`, and rests on `LogInv` for types and for whether a datagram is in hand.
`ServerProceeds` adds `Serving`, the socket stays open: then the thread can wait in
`recv` only, as the `MVar` of the handle is full as soon as anyone reads it.

**Service.** No assumption beyond those on the constants, and no bound is used.
`OneStopInTransit` is not inductive alone. `IInv` adds `Progress`: what `svcMain`
has done by each of its statements, so that for instance a handler that is
about to report StopPending finds the SCM at Running. The three properties and
the action property follow from it; `ServiceTypeOK` takes one more fact,
`Reported`: `gState` is what the SCM was told last. The properties of the log server hold in
the composition by its own invariants: the steps of `SyslogServer` preserve `LogInv`
and `Once` whoever takes them, the steps of the service leave them alone, and where
the two meet `Forkable` is enough: `svcMain` forks a server whose `createServer` has
opened the log file. `StopProceeds` rests on `StopIsOnItsWay`: once the SCM is told
StopPending, the Stop is with the handler or in `mStop` until `svcMain` takes it, and
`svrSock` is empty only as long as a server thread may fill it or has died before it
could. From then on `StopLeft` counts the statements that the handler, `svcMain` and a
server thread that has yet to bind have before them; each of the three makes it
smaller and the rest of the service leaves it alone.

**Clock.** Assumed: request numbers are 0 to 3 and the bounds are natural numbers; the
clients, and how many calls, stops and restarts there are, may be any. `TInv` adds to the
types that the pipe from the program holds responses only and that a server that
is down has taken its port, its program and its queue with it. `Wire` reads the buffer
and the pipe behind it as one row of words (`OnTheWay`): while the program runs
they are, three by three, the requests that were sent and not handled, so the
third word in the buffer always ends a request that began in its first. `Fresh` says that
references grow along the queue of the gen_server, beyond the call that is worked
on and everything answered before; `Turn` that, as long as nothing but port data was
taken for a response, the call of `handle_call` is in one place: with the
program, in its output, in the queue, or, sent to a port that is gone, nowhere, and
between two calls nothing is on its way. So the response `receive` finds is
the one to `cur`, and at most three words are on their way, one less than
the buffer holds. `Lost` happens at a port that is gone only; that is what
`CallsProceed` takes from `Turn`, with three facts more: a closed port's exit is in the
queue of the server (`Kept`), a caller that waits has its call worked on or in the queue
of a server that is not down (`Placed`), and the program never stops reading with a whole
request in its buffer (`Handled`). `PortExitKept` and `ShutdownKept` hold whatever
was swallowed, and name that as the one way to lose the message.

**JMS.** Assumed: the set of consumers is finite. `NoLostWakeup` is about
cardinality: each action moves one thread into or out of `Notified` and one
message into or out of the queue. It rests on the facts about finite sets of
the library and on `TypeOK`. `EveryMessageOnce` is proved
with `TypeOK` and one more fact, `ListenerIsLast`: the message in the listener's
hand is the last that arrived. The taken messages followed by the queue are one strictly growing
sequence; with the dropped ones and the one in hand they make up `1 .. arrived`.
`WaitersProceed` takes from it that the queue ascends (`QueueAscends`), so that the
messages ahead of one are the smaller ones: a removal takes the least of them and an
addition puts none there.

**Web pages.** Assumed: the pages are some of the six, and `Unset` is no text.
Three inductive invariants. `ScopeInv` follows a digest from watch to watch: the
listener has been called with the message of the scope, or the message is new
and `before` is what the listener will be given for the old one; the page shows
what the template's watches saw last. `LoadInv` orders the load: `main.js` is
fetched by one timer and its needs by another that it sets once it is executed,
so RequireJS is configured between the two; what was tried begins with the first
place RequireJS was given. `BootInv`, on top of it, lists for each kind of page
what waits for the document and what the start came to: as soon as AngularJS is
there, so is the module, because `main.js` registers it in the task in which
AngularJS asks to be told of the document. The limit of passes may be any.
`PagesProceed` adds `Coming`: a parsed page has `main.js` on its way or its needs,
and one that has all it needs has started or waits for the document. `TypesInv` gives
the places RequireJS has tried for a library as a front of those configured, which are
two at most; with it `TasksLeft` gives each task of the browser more than
all it can bring about (the parser sets timers, a timer fetches, a library that
fails is fetched once more, one that is executed leaves callbacks), so each makes
the sum smaller, and a digest leaves it alone. `PassInv` says that a second pass
finds every watch with the value it saw: the controller's `$watch` comes before
those of the template.

**Graph labels.** Assumed: widths and lengths are natural numbers. `IInv` says
that the model holds a front of `Order`, that the level is one inside the update
and the display empty until its end, and that nothing gives a width to a cell
that has its place relative to another (`RelativeFlat`): the last keeps `getLabel`
from cutting the label of one. `ViewIsClosed` then is a fact about
`Order`: each cell comes after those it needs. `EndIsDisplayed` follows from the
same invariant. These theorems are about the graph alone and those above about the
pages alone; `AppsArePagesAndGraph` says that in `WebApps` each behaves as it does
alone, so that all of them hold there.

**Scripts.** Assumed: for the query, the set of runs is finite; for the tables, the
members of the enum are distinct strings, any number of them. `QueryInv` says what
a run has printed by the place it is at. `EnumInv` says that the compiled enum
holds the two entries of each member so far and no other, so that a lookup by
name gives the number and one by number the name (`LookupFacts`). The theorem
about the tables needs `First = 1`, the initializer of the first member: one table
writes the numbers by hand. `HasSession` adds for the query that a run without an
answer has a session the answer can come by.

The sorts take an array of any length that the engine sorts by insertion alone (ten
elements for V8 up to 6.9, 63 since; longer ones are not modelled, and the quicksort
that V8 used for them until 6.9 is not stable) and any set of numbers of at most two
digits whose numerals have one length, as the times of the script have. What an insertion puts into place is chosen
by a comparison and not computed by recursion, so that no induction over the array is
needed: the invariant `SortInv` (`Sorting`) says that some permutation leads from the array to what
it was at first, that the elements placed ascend, and that two with one key are in
the order they had. Each insertion composes the permutation with one cycle (`From`).
`SortKeepsElements` and `SortIsStable` read off its end what they state; equal numbers of
occurrences come from the bijection. That sorting strings sorts the numbers
(`TimesOfSetAscend`) needs the one length: `FirstDifference` finds the first digit in
which two numerals differ, and `StringOrder` that it decides both orders. The set keeps
the first occurrence of each value, so its values ascend as the array does
(`SetOfFacts`).

## 6. Only model-checked, and not modelled

Only model-checked:

- liveness (`CallsReturn`, `ArrivedIsReceived`, `StopIsAnswered`,
  `EveryCallEnds`, `LostPortIsReplaced`, `ShutdownCompletes`,
  `MessageMeetsWaiter`, `PopReturns`, `ComesUp`, `EndsDisplayed`,
  `EveryRunExits`): fairness and ENABLED are outside what the provers do. What
  they rest on without fairness is proved for all of them, as section 5 says.

Left out of modelled components:

- `ring-buffer.hpp`: copying and comparing, which are private; allocation;
- log server: parsing options (`CmdLine.hs`) except `--console`; the text of a
  line; a failure of `closeFile`'s own `hClose`, which ends a thread that had
  nothing more to do; a failure of `setServiceStatus`;
- clock: the time values and their units; an executable that is not found (the
  start fails and nothing runs); the limit of 10000 restarts a second; a failing
  WriteFile; the name of the stop event, which a second instance of the program
  would share; `handle_cast` and `code_change`, which do nothing;
- JMS: the conversion of messages and the container's acknowledgement of them;
- web pages: the handlers of the `hello` and `event` pages, which assign one
  field each; the loader plugin in `require-config.js` that no page uses; the
  seconds RequireJS waits before it reports a script as lost;
- labels: styles, colours and positions; heights, which no function tests;
- experiments: what is printed of an array or a table, apart from its order;
  arrays too long to be sorted by insertion.

What modelling met beside the findings and no run states:

- a line of a new day can go to the old day's file, before the thread dies of
  it: `rotateLogFile` hands the new handle to one line only (`UDPServer.hs:119`);
- the comparator in the comment of `set-test.ts:21`, `d1 < d2 ? 0 : 1`, is not
  equivalent to sorting without one, as the comment says;
- `array-iterator.ts:6` calls `return`, which an array's iterator does not have:
  the script ends in a TypeError after `{}` and its first element, and never
  prints what `array/README.md:7-11` shows, three elements and the end; a
  straight line of calls, it is not modelled;
- once `handle_call` has taken the exit of the port for a response
  (`clock.erl:63`), the server goes on without a port and is not replaced, and a
  shutdown it has taken so leaves the supervisor waiting for ever
  (`clock_sup.erl:30`): `LostPortIsReplaced` and `ShutdownCompletes` exempt this
  and say so, `TimeIsANumber` shows the clause;
- the fourth table of `enum-tests.ts` (35-38) holds names where its type says
  numbers; the lookups work in spite of it.

Not modelled at all, and why:

- the clock's port owner without OTP (`clock.erl` beside `clock.c`): `apps/clock`
  replaced it; the Erlang hello port: one request and one response;
- the Netty SOAP service, the minute history, the Lagom and the Akka JMS
  streams: a handler of each is one call, and whether it is split, repeated,
  reordered or rolled back is decided by Netty, a database, Lagom or Akka, whose
  behaviour these programs configure and do not implement;
- the Oracle change-notification demos, SOAP clients, login filters and the other
  Akka, Spring, Lagom and Play starters: framework configuration or samples;
- the exercises in Haskell, C, C++, Go, Rust and COBOL, the array iterators of
  `typescript/experiments` and `javascript/experiments` and
  `object/iterate-object.ts`: sequential, and without state worth a model;
- documentation, configuration, generated, minified and vendored code.

`PROJECT.json` names them under `components`.
