----------------------------- MODULE ClockPortProofs -----------------------------
(***************************************************************************)
(* The clock application, for any number of clients, of calls, of console  *)
(* events and of restarts.                                                 *)
(***************************************************************************)
EXTENDS ClockPort, SequenceTheorems, TLAPS

--------------------------------------------------------------------------------
(* Types. *)

\* What is in the queue of the gen_server and in the pipe from the program.
Queue ==
  /\ \A k \in 1 .. Len(mailbox) :
       /\ mailbox[k].type # "nothing"
       /\ mailbox[k].type = "call" => mailbox[k].from \in Clients /\ mailbox[k].ref \in 1 .. calls
  /\ \A k \in 1 .. Len(fromProg) : fromProg[k].type = "data"

\* A server that is down has taken its port and its program with it.
Down ==
  server = "down" =>
    /\ port = "closed" /\ prog = "eof"
    /\ mailbox = <<>> /\ toProg = <<>> /\ fromProg = <<>> /\ buf = <<>>
    /\ sent = <<>> /\ handled = <<>> /\ swallowed = {}

TInv == TypeOK /\ Queue /\ Down

LEMMA RefsFacts == 0 \in Refs /\ Refs \subseteq Nat
BY BoundsAssumption DEF Refs

LEMMA MessageFacts ==
  /\ \A r \in Refs, id \in 0 .. 3 : DataMsg(r, id) \in Messages
  /\ \A c \in Clients, r \in Refs, id \in 0 .. 3 : CallMsg(c, r, id) \in Messages
  /\ Nothing \in Messages
  /\ \A t \in {"shutdown", "exit_status", "EXIT"} : Signal(t) \in Messages
BY RefsFacts DEF DataMsg, CallMsg, Nothing, Signal, Messages

LEMMA FrameFacts ==
  ASSUME NEW r \in Refs, NEW id \in 0 .. 3
  PROVE  Frame(r, id) \in Seq(Words) /\ Len(Frame(r, id)) = 3
<1>1. Frame(r, id) \in [1 .. 3 -> Words]
  BY DEF Frame, Words
<1>2. Frame(r, id) \in Seq(Words)
  <2>1. [1 .. 3 -> Words] \in {[1 .. n -> Words] : n \in Nat}
    OBVIOUS
  <2>2. Frame(r, id) \in UNION {[1 .. n -> Words] : n \in Nat}
    BY <1>1, <2>1
  <2>3. QED
    BY <2>2, SeqDef
<1>3. DOMAIN Frame(r, id) = 1 .. 3
  BY <1>1
<1>4. QED
  BY <1>2, <1>3, LenProperties

LEMMA InitTInv == Init => TInv
<1> SUFFICES ASSUME Init
             PROVE  TInv
  OBVIOUS
<1>1. client \in [Clients -> [ref : Refs, id : 0 .. 3, asked : Refs, got : Messages]]
  BY RefsFacts, MessageFacts DEF Init
<1>2. cur \in [ref : Refs, id : 0 .. 3, from : Clients \union {"nobody"}]
  BY RefsFacts DEF Init, NoCall
<1>3. TypeOK
  BY <1>1, <1>2, RefsFacts, BoundsAssumption DEF Init, TypeOK, BufWords, Refs
<1>4. Queue /\ Down
  BY DEF Init, Queue, Down
<1>5. QED
  BY <1>3, <1>4 DEF TInv

\* A message joins the queue.
LEMMA PutTInv ==
  ASSUME TInv, NEW m \in Messages,
         m.type # "nothing",
         m.type = "call" => m.from \in Clients /\ m.ref \in 1 .. calls',
         calls' \in Nat, calls <= calls',
         mailbox' = Append(mailbox, m)
  PROVE  /\ mailbox' \in Seq(Messages)
         /\ \A k \in 1 .. Len(mailbox') :
              /\ mailbox'[k].type # "nothing"
              /\ mailbox'[k].type = "call" =>
                   mailbox'[k].from \in Clients /\ mailbox'[k].ref \in 1 .. calls'
<1>1. mailbox \in Seq(Messages) /\ calls \in Nat
  BY RefsFacts DEF TInv, TypeOK
<1>2. /\ mailbox' \in Seq(Messages) /\ Len(mailbox') = Len(mailbox) + 1 /\ Len(mailbox) \in Nat
      /\ \A k \in 1 .. Len(mailbox) : mailbox'[k] = mailbox[k]
      /\ mailbox'[Len(mailbox) + 1] = m
  BY <1>1, AppendProperties, LenProperties
<1>3. ASSUME NEW k \in 1 .. Len(mailbox')
      PROVE  k \in 1 .. Len(mailbox) \/ k = Len(mailbox) + 1
  BY <1>2
<1>4. \A k \in 1 .. Len(mailbox) :
        mailbox[k].type = "call" => mailbox[k].from \in Clients /\ mailbox[k].ref \in 1 .. calls'
  BY <1>1 DEF TInv, Queue
<1>5. QED
  BY <1>2, <1>3, <1>4 DEF TInv, Queue

\* The first message leaves the queue.
LEMMA TakeTInv ==
  ASSUME TInv, mailbox # <<>>, mailbox' = Tail(mailbox), calls' = calls
  PROVE  /\ Head(mailbox) \in Messages /\ Head(mailbox) = mailbox[1]
         /\ Head(mailbox).type # "nothing"
         /\ Head(mailbox).type = "call" =>
              Head(mailbox).from \in Clients /\ Head(mailbox).ref \in 1 .. calls
         /\ mailbox' \in Seq(Messages)
         /\ Len(mailbox') = Len(mailbox) - 1
         /\ \A k \in 1 .. Len(mailbox') : mailbox'[k] = mailbox[k + 1]
         /\ \A k \in 1 .. Len(mailbox') :
              /\ mailbox'[k].type # "nothing"
              /\ mailbox'[k].type = "call" =>
                   mailbox'[k].from \in Clients /\ mailbox'[k].ref \in 1 .. calls'
<1>1. mailbox \in Seq(Messages)
  BY DEF TInv, TypeOK
<1>2. /\ mailbox' \in Seq(Messages) /\ Len(mailbox) \in Nat \ {0}
      /\ Len(mailbox') = Len(mailbox) - 1
      /\ \A k \in 1 .. Len(mailbox') : mailbox'[k] = mailbox[k + 1]
      /\ Head(mailbox) = mailbox[1] /\ Head(mailbox) \in Messages
  BY <1>1, HeadTailProperties, EmptySeq
<1>3. \A k \in 1 .. Len(mailbox') : k + 1 \in 1 .. Len(mailbox)
  BY <1>2
<1>4. 1 \in 1 .. Len(mailbox)
  BY <1>2
<1>5. QED
  BY <1>2, <1>3, <1>4 DEF TInv, Queue

LEMMA ReplyType ==
  ASSUME TInv, NEW r \in Refs, NEW m \in Messages, Reply(r, m)
  PROVE  client' \in [Clients -> [ref : Refs, id : 0 .. 3, asked : Refs, got : Messages]]
BY RefsFacts DEF TInv, TypeOK, Reply

ClientRecords == [ref : Refs, id : 0 .. 3, asked : Refs, got : Messages]
CallRecords   == [ref : Refs, id : 0 .. 3, from : Clients \union {"nobody"}]

\* The clients.
LEMMA ClientTInv ==
  ASSUME TInv,
         \/ \E c \in Clients, id \in RequestIDs : Call(c, id)
         \/ \E c \in Clients : Timeout(c)
  PROVE  TInv'
<1>1. CASE \E c \in Clients : Timeout(c)
  <2>1. PICK c \in Clients : Timeout(c)
    BY <1>1
  <2>2. client' \in [Clients -> ClientRecords]
    <3>1. client \in [Clients -> ClientRecords]
      BY DEF TInv, TypeOK, ClientRecords
    <3>2. [client[c] EXCEPT !.ref = 0] \in ClientRecords
      BY <3>1, RefsFacts DEF ClientRecords
    <3>3. client' = [client EXCEPT ![c] = [client[c] EXCEPT !.ref = 0]]
      BY <2>1, <3>1 DEF Timeout
    <3>4. QED
      BY <3>1, <3>2, <3>3
  <2>3. QED
    BY <2>1, <2>2 DEF Timeout, TInv, TypeOK, Queue, Down, ClientRecords, erlang, tree, program
<1>2. CASE \E c \in Clients, id \in RequestIDs : Call(c, id)
  <2>1. PICK c \in Clients, id \in RequestIDs : Call(c, id)
    BY <1>2
  <2>2. /\ calls' = calls + 1 /\ calls \in Nat /\ calls + 1 \in Refs /\ id \in 0 .. 3
        /\ calls + 1 \in 1 .. calls + 1
    BY <2>1, RequestsAssumption, BoundsAssumption DEF Call, TInv, TypeOK, Refs
  <2>3. client' \in [Clients -> ClientRecords]
    BY <2>1, <2>2, RefsFacts, MessageFacts DEF Call, TInv, TypeOK, ClientRecords
  <2>4. CallMsg(c, calls + 1, id) \in Messages /\ CallMsg(c, calls + 1, id).type = "call"
        /\ CallMsg(c, calls + 1, id).from = c /\ CallMsg(c, calls + 1, id).ref = calls + 1
    BY <2>2, MessageFacts DEF CallMsg
  <2>5. mailbox' = Append(mailbox, CallMsg(c, calls + 1, id)) /\ calls' \in Nat /\ calls <= calls'
    BY <2>1, <2>2 DEF Call
  <2>6. /\ mailbox' \in Seq(Messages)
        /\ \A k \in 1 .. Len(mailbox') :
             /\ mailbox'[k].type # "nothing"
             /\ mailbox'[k].type = "call" =>
                  mailbox'[k].from \in Clients /\ mailbox'[k].ref \in 1 .. calls'
    BY <2>2, <2>4, <2>5, PutTInv
  <2>7. UNCHANGED <<server, cur, swallowed, tree, port, toProg, fromProg, program, stops, sent>>
    BY <2>1 DEF Call
  <2>8. server # "down"
    BY <2>1 DEF Call
  <2>9. QED
    BY <2>2, <2>3, <2>6, <2>7, <2>8 DEF TInv, TypeOK, Queue, Down, ClientRecords, tree, program
<1>3. QED
  BY <1>1, <1>2

\* The gen_server, without its end.
LEMMA ServerTInv ==
  ASSUME TInv, HandleCall \/ ReceiveData \/ ReceiveAny \/ HandleInfo
  PROVE  TInv'
<1> DEFINE m == Head(mailbox)
<1>1. /\ mailbox # <<>> /\ mailbox' = Tail(mailbox)
      /\ UNCHANGED <<calls, tree, port, fromProg, program, stops>>
      /\ server \in {"loop", "receive"} /\ server' \in {"loop", "receive"}
  BY DEF HandleCall, ReceiveData, ReceiveAny, HandleInfo, NextIs, callers
<1>2. /\ m \in Messages /\ m.type # "nothing"
      /\ m.type = "call" => m.from \in Clients /\ m.ref \in 1 .. calls
      /\ mailbox' \in Seq(Messages)
      /\ \A k \in 1 .. Len(mailbox') :
           /\ mailbox'[k].type # "nothing"
           /\ mailbox'[k].type = "call" =>
                mailbox'[k].from \in Clients /\ mailbox'[k].ref \in 1 .. calls'
  BY <1>1, TakeTInv
<1>3. Queue' /\ Down'
  BY <1>1, <1>2 DEF TInv, Queue, Down
<1>4. client' \in [Clients -> ClientRecords]
  <2>1. CASE HandleCall \/ HandleInfo
    BY <2>1 DEF HandleCall, HandleInfo, callers, TInv, TypeOK, ClientRecords
  <2>2. CASE ReceiveData \/ ReceiveAny
    <3>1. cur.ref \in Refs /\ Reply(cur.ref, m)
      BY <2>2 DEF ReceiveData, ReceiveAny, TInv, TypeOK
    <3>2. QED
      BY <1>2, <3>1, ReplyType DEF ClientRecords
  <2>3. QED
    BY <2>1, <2>2
<1>5. cur' \in CallRecords
  <2>1. CASE HandleCall
    <3>1. m.type = "call" /\ cur' = [ref |-> m.ref, id |-> m.id, from |-> m.from]
      BY <2>1 DEF HandleCall, NextIs
    <3>2. m.ref \in Refs /\ m.id \in 0 .. 3 /\ m.from \in Clients
      BY <1>2, <3>1 DEF Messages
    <3>3. QED
      BY <3>1, <3>2 DEF CallRecords
  <2>2. CASE ReceiveData \/ ReceiveAny
    BY <2>2, RefsFacts DEF ReceiveData, ReceiveAny, NoCall, CallRecords
  <2>3. CASE HandleInfo
    BY <2>3 DEF HandleInfo, TInv, TypeOK, CallRecords
  <2>4. QED
    BY <2>1, <2>2, <2>3
<1>6. toProg' \in Seq(Words) /\ sent' \in Seq(Refs)
  <2>1. CASE HandleCall /\ port = "open"
    <3>1. m.ref \in Refs /\ m.id \in 0 .. 3
      BY <1>2 DEF Messages
    <3>2. toProg' = toProg \o Frame(m.ref, m.id) /\ sent' = Append(sent, m.ref)
      BY <2>1 DEF HandleCall
    <3>3. Frame(m.ref, m.id) \in Seq(Words)
      BY <3>1, FrameFacts
    <3>4. QED
      BY <3>1, <3>2, <3>3, ConcatProperties, AppendProperties DEF TInv, TypeOK
  <2>2. CASE ~(HandleCall /\ port = "open")
    BY <2>2 DEF HandleCall, ReceiveData, ReceiveAny, HandleInfo, TInv, TypeOK
  <2>3. QED
    BY <2>1, <2>2
<1>7. swallowed' \subseteq {"call", "exit_status", "EXIT", "shutdown"}
  <2>1. CASE ReceiveAny
    <3>1. m.type \in {"nothing", "call", "data", "exit_status", "EXIT", "shutdown"}
      BY <1>2 DEF Messages
    <3>2. swallowed' = swallowed \union {m.type} /\ m.type # "data"
      BY <2>1 DEF ReceiveAny, NextIs
    <3>3. QED
      BY <1>2, <3>1, <3>2 DEF TInv, TypeOK
  <2>2. CASE ~ReceiveAny
    BY <2>2 DEF HandleCall, ReceiveData, HandleInfo, TInv, TypeOK
  <2>3. QED
    BY <2>1, <2>2
<1> HIDE DEF m
<1>8. TypeOK'
  BY <1>1, <1>2, <1>4, <1>5, <1>6, <1>7
  DEF TInv, TypeOK, ClientRecords, CallRecords, tree, program
<1>9. QED
  BY <1>3, <1>8 DEF TInv

\* The gen_server ends and starts.
LEMMA LifeTInv ==
  ASSUME TInv, Terminate \/ Restart \/ StopApplication
  PROVE  TInv'
<1>1. CASE Terminate
  <2>1. client' \in [Clients -> ClientRecords]
    BY <1>1, RefsFacts DEF Terminate, TInv, TypeOK, ClientRecords
  <2>2. cur' \in CallRecords
    BY <1>1, RefsFacts DEF Terminate, NoCall, CallRecords
  <2>3. TypeOK'
    BY <1>1, <2>1, <2>2 DEF Terminate, TInv, TypeOK, ClientRecords, CallRecords, BufWords
  <2>4. Queue' /\ Down'
    BY <1>1 DEF Terminate, Queue, Down
  <2>5. QED
    BY <2>3, <2>4 DEF TInv
<1>2. CASE Restart
  <2>1. restarts' \in 0 .. MaxRestarts
    BY <1>2, BoundsAssumption DEF Restart, TInv, TypeOK
  <2>2. QED
    BY <1>2, <2>1 DEF Restart, TInv, TypeOK, Queue, Down, callers
<1>3. CASE StopApplication
  <2>1. CASE server = "down"
    BY <1>3, <2>1 DEF StopApplication, TInv, TypeOK, Queue, Down, callers, program
  <2>2. CASE server # "down"
    <3>1. mailbox' = Append(mailbox, Signal("shutdown")) /\ sup' = "stopping" /\ calls' = calls
          /\ calls \in Nat
      BY <1>3, <2>2, RefsFacts DEF StopApplication, callers, TInv, TypeOK
    <3>2. Signal("shutdown") \in Messages /\ Signal("shutdown").type = "shutdown"
      BY MessageFacts DEF Signal
    <3>3. /\ mailbox' \in Seq(Messages)
          /\ \A k \in 1 .. Len(mailbox') :
               /\ mailbox'[k].type # "nothing"
               /\ mailbox'[k].type = "call" =>
                    mailbox'[k].from \in Clients /\ mailbox'[k].ref \in 1 .. calls'
      BY <3>1, <3>2, PutTInv
    <3>4. QED
      BY <1>3, <2>2, <3>1, <3>3 DEF StopApplication, TInv, TypeOK, Queue, Down, callers, program
  <2>3. QED
    BY <2>1, <2>2
<1>4. QED
  BY <1>1, <1>2, <1>3

\* The port.
LEMMA PortTInv ==
  ASSUME TInv, Port
  PROVE  TInv'
<1>1. port \in {"open", "eof"} /\ server # "down"
  BY DEF Port, Deliver, PortEof, PortExit, TInv, Down
<1>2. PICK m \in Messages :
        /\ m.type \in {"data", "exit_status", "EXIT"}
        /\ mailbox' = Append(mailbox, m)
  <2>1. CASE Deliver
    <3>1. Head(fromProg) = fromProg[1] /\ 1 \in 1 .. Len(fromProg) /\ fromProg[1] \in Messages
      BY <2>1, EmptySeq, ElementOfSeq DEF Deliver, TInv, TypeOK
    <3>2. QED
      BY <2>1, <3>1 DEF Deliver, TInv, Queue
  <2>2. CASE PortEof
    BY <2>2, MessageFacts DEF PortEof, Signal
  <2>3. CASE PortExit
    BY <2>3, MessageFacts DEF PortExit, Signal
  <2>4. QED
    BY <2>1, <2>2, <2>3 DEF Port
<1>3. UNCHANGED <<callers, server, cur, swallowed, tree, toProg, program, stops, sent>>
  BY DEF Port, Deliver, PortEof, PortExit
<1>4. calls' \in Nat /\ calls <= calls' /\ calls' = calls
  BY <1>3, RefsFacts DEF callers, TInv, TypeOK
<1>5. /\ mailbox' \in Seq(Messages)
      /\ \A k \in 1 .. Len(mailbox') :
           /\ mailbox'[k].type # "nothing"
           /\ mailbox'[k].type = "call" =>
                mailbox'[k].from \in Clients /\ mailbox'[k].ref \in 1 .. calls'
  BY <1>2, <1>4, PutTInv
<1>6. /\ fromProg' \in Seq(Messages)
      /\ \A k \in 1 .. Len(fromProg') : fromProg'[k].type = "data"
  <2>1. CASE Deliver
    <3>1. fromProg # <<>> /\ fromProg' = Tail(fromProg) /\ fromProg \in Seq(Messages)
      BY <2>1 DEF Deliver, TInv, TypeOK
    <3>2. /\ fromProg' \in Seq(Messages) /\ Len(fromProg) \in Nat
          /\ Len(fromProg') = Len(fromProg) - 1
          /\ \A k \in 1 .. Len(fromProg') : fromProg'[k] = fromProg[k + 1]
      BY <3>1, HeadTailProperties, LenProperties
    <3>3. \A k \in 1 .. Len(fromProg') : k + 1 \in 1 .. Len(fromProg)
      BY <3>2
    <3>4. QED
      BY <3>2, <3>3 DEF TInv, Queue
  <2>2. CASE PortEof \/ PortExit
    BY <2>2 DEF PortEof, PortExit, TInv, TypeOK, Queue
  <2>3. QED
    BY <2>1, <2>2 DEF Port
<1>7. port' \in {"open", "eof", "closed"}
  BY <1>1 DEF Port, Deliver, PortEof, PortExit
<1>8. QED
  BY <1>1, <1>3, <1>5, <1>6, <1>7
  DEF TInv, TypeOK, Queue, Down, callers, tree, program

\* What a ReadFile finds in the buffer: the words that were there, and more.
LEMMA ReadWords ==
  ASSUME TInv, NEW n \in Readable
  PROVE  LET words == buf \o SubSeq(toProg, 1, n)
             rest  == SubSeq(toProg, n + 1, Len(toProg))
         IN  /\ n \in 1 .. Len(toProg) /\ n <= BufWords - Len(buf)
             /\ words \in Seq(Words) /\ Len(words) = Len(buf) + n
             /\ \A k \in 1 .. Len(buf) + n :
                  words[k] = IF k <= Len(buf) THEN buf[k] ELSE toProg[k - Len(buf)]
             /\ rest \in Seq(Words) /\ Len(rest) = Len(toProg) - n
             /\ \A k \in 1 .. Len(rest) : rest[k] = toProg[n + k]
<1>1. n \in 1 .. Len(toProg) /\ n <= BufWords - Len(buf)
  BY DEF Readable
<1>2. /\ toProg \in Seq(Words) /\ buf \in Seq(Words)
      /\ Len(toProg) \in Nat /\ Len(buf) \in Nat
      /\ \A k \in 1 .. Len(toProg) : toProg[k] \in Words
  BY LenProperties, ElementOfSeq DEF TInv, TypeOK
<1> DEFINE front == SubSeq(toProg, 1, n)
           rest  == SubSeq(toProg, n + 1, Len(toProg))
<1>3. /\ front \in Seq(Words) /\ Len(front) = n
      /\ \A k \in 1 .. n : front[k] = toProg[k]
  <2>1. \A k \in 1 .. n : toProg[k] \in Words
    BY <1>1, <1>2
  <2>2. n \in Int /\ 1 \in Int /\ 1 <= n
    BY <1>1
  <2>3. /\ front \in Seq(Words) /\ Len(front) = n - 1 + 1
        /\ \A k \in 1 .. n - 1 + 1 : front[k] = toProg[1 + k - 1]
    BY <2>1, <2>2, SubSeqProperties
  <2> HIDE DEF front
  <2>4. QED
    BY <2>2, <2>3
<1>4. /\ rest \in Seq(Words) /\ Len(rest) = Len(toProg) - n
      /\ \A k \in 1 .. Len(rest) : rest[k] = toProg[n + k]
  <2>1. \A k \in n + 1 .. Len(toProg) : toProg[k] \in Words
    BY <1>1, <1>2
  <2>2. n + 1 \in Int /\ Len(toProg) \in Int
    BY <1>1, <1>2
  <2>3. /\ rest \in Seq(Words)
        /\ Len(rest) = IF n + 1 <= Len(toProg) THEN Len(toProg) - (n + 1) + 1 ELSE 0
        /\ \A k \in 1 .. Len(toProg) - (n + 1) + 1 : rest[k] = toProg[n + 1 + k - 1]
    BY <2>1, <2>2, SubSeqProperties
  <2> HIDE DEF rest
  <2>4. QED
    BY <1>1, <1>2, <2>3
<1> HIDE DEF front, rest
<1>5. /\ buf \o front \in Seq(Words) /\ Len(buf \o front) = Len(buf) + n
      /\ \A k \in 1 .. Len(buf) + n :
           (buf \o front)[k] = IF k <= Len(buf) THEN buf[k] ELSE front[k - Len(buf)]
  BY <1>2, <1>3, ConcatProperties
<1>6. \A k \in 1 .. Len(buf) + n : k <= Len(buf) \/ k - Len(buf) \in 1 .. n
  <2>1. Len(buf) \in Nat /\ n \in Nat
    BY <1>1, <1>2
  <2>2. QED
    BY <2>1
<1>7. QED
  BY <1>1, <1>3, <1>4, <1>5, <1>6 DEF front, rest

\* The port program.
LEMMA ProgramTInv ==
  ASSUME TInv, Program \/ StopEvent
  PROVE  TInv'
<1>1. CASE ReadNothing
  BY <1>1 DEF ReadNothing, TInv, TypeOK, Queue, Down, callers, erlang, tree
<1>2. CASE StopEvent
  <2>1. stops' \in 0 .. MaxStops
    BY <1>2, BoundsAssumption DEF StopEvent, TInv, TypeOK
  <2>2. QED
    BY <1>2, <2>1 DEF StopEvent, TInv, TypeOK, Queue, Down, callers, erlang, tree
<1>3. ASSUME NEW n \in Readable, ReadFile(n)
      PROVE  TInv'
  <2> DEFINE words == buf \o SubSeq(toProg, 1, n)
  <2>1. /\ UNCHANGED <<callers, erlang, tree, port, stops, sent>>
        /\ toProg' = SubSeq(toProg, n + 1, Len(toProg)) /\ prog = "running" /\ server # "down"
    BY <1>3 DEF ReadFile, TInv, Down
  <2>2. /\ words \in Seq(Words) /\ Len(words) = Len(buf) + n /\ toProg' \in Seq(Words)
        /\ n \in Nat /\ n <= BufWords - Len(buf) /\ Len(buf) \in Nat
    <3>1. buf \in Seq(Words) /\ toProg \in Seq(Words)
      BY DEF TInv, TypeOK
    <3>2. Len(buf) \in Nat
      BY <3>1, LenProperties
    <3>3. QED
      BY <2>1, <3>1, <3>2, ReadWords
  <2>3. CASE IsRequest(words)
    <3>1. words[1] \in Words /\ words[2] \in Words
      <4>1. Len(words) = 3
        BY <2>3 DEF IsRequest
      <4> HIDE DEF words
      <4>2. 1 \in 1 .. Len(words) /\ 2 \in 1 .. Len(words)
        BY <4>1
      <4>3. QED
        BY <2>2, <4>2, ElementOfSeq
    <3>2. words[2].ref \in Refs /\ words[2].id \in 0 .. 3
      BY <3>1 DEF Words
    <3>3. DataMsg(words[2].ref, words[2].id) \in Messages
          /\ DataMsg(words[2].ref, words[2].id).type = "data"
      BY <3>2, MessageFacts DEF DataMsg
    <3>4. buf' = <<>> /\ HandleRequest(words)
      BY <1>3, <2>3 DEF ReadFile
    <3> HIDE DEF words
    <3>5. fromProg \in Seq(Messages) /\ handled \in Seq(Refs)
          /\ \A k \in 1 .. Len(fromProg) : fromProg[k].type = "data"
      BY DEF TInv, TypeOK, Queue
    <3>6. /\ fromProg' \in Seq(Messages) /\ handled' \in Seq(Refs)
          /\ \A k \in 1 .. Len(fromProg') : fromProg'[k].type = "data"
      <4>1. CASE words[1].word = 1
        <5>1. /\ fromProg' = Append(fromProg, DataMsg(words[2].ref, words[2].id))
              /\ handled' = Append(handled, words[2].ref)
          BY <3>4, <4>1 DEF HandleRequest
        <5> DEFINE d == DataMsg(words[2].ref, words[2].id)
        <5>2. d \in Messages /\ d.type = "data"
          BY <3>3
        <5> HIDE DEF d
        <5>3. /\ fromProg' \in Seq(Messages) /\ Len(fromProg') = Len(fromProg) + 1
              /\ Len(fromProg) \in Nat
              /\ \A k \in 1 .. Len(fromProg) : fromProg'[k] = fromProg[k]
              /\ fromProg'[Len(fromProg) + 1] = d
          BY <3>5, <5>1, <5>2, AppendProperties, LenProperties DEF d
        <5>4. \A k \in 1 .. Len(fromProg') : k \in 1 .. Len(fromProg) \/ k = Len(fromProg) + 1
          BY <5>3
        <5>5. handled' \in Seq(Refs)
          BY <3>2, <3>5, <5>1, AppendProperties
        <5>6. QED
          BY <3>5, <5>2, <5>3, <5>4, <5>5
      <4>2. CASE words[1].word # 1
        BY <3>4, <3>5, <4>2 DEF HandleRequest
      <4>3. QED
        BY <4>1, <4>2
    <3>7. prog' \in {"running", "length"}
      BY <2>1, <3>4 DEF HandleRequest
    <3>8. buf' \in Seq(Words) /\ Len(buf') <= BufWords
      BY <3>4, EmptySeq DEF BufWords
    <3>9. TypeOK'
      BY <2>1, <2>2, <3>6, <3>7, <3>8 DEF TInv, TypeOK, callers, erlang, tree
    <3>10. Queue' /\ Down'
      BY <2>1, <3>6 DEF TInv, Queue, Down, callers, erlang
    <3>11. QED
      BY <3>9, <3>10 DEF TInv
  <2>4. CASE ~IsRequest(words)
    <3>1. buf' = words /\ UNCHANGED <<prog, fromProg, handled>>
      BY <1>3, <2>4 DEF ReadFile
    <3> HIDE DEF words
    <3>2. Len(buf') <= BufWords
      BY <2>2, <3>1 DEF BufWords
    <3>3. QED
      BY <2>1, <2>2, <3>1, <3>2 DEF TInv, TypeOK, Queue, Down, callers, erlang, tree
  <2>5. QED
    BY <2>3, <2>4
<1>4. QED
  BY <1>1, <1>2, <1>3 DEF Program

LEMMA NextTInv == TInv /\ [Next]_vars => TInv'
<1> SUFFICES ASSUME TInv, [Next]_vars
             PROVE  TInv'
  OBVIOUS
<1>1. CASE Next
  <2>1. CASE Server
    BY <2>1, ServerTInv, LifeTInv DEF Server, HandlePortExit, ParentExit
  <2>2. QED
    BY <1>1, <2>1, ClientTInv, LifeTInv, PortTInv, ProgramTInv DEF Next
<1>2. CASE UNCHANGED vars
  BY <1>2 DEF vars, callers, erlang, tree, program, TInv, TypeOK, Queue, Down
<1>3. QED
  BY <1>1, <1>2

LEMMA TypesInvariant == Spec => []TInv
BY InitTInv, NextTInv, PTL DEF Spec

\* The parts of the clock application keep their types, and the buffer of the
\* program never holds more than its eight bytes (clock.c:55-278).
THEOREM TypeCorrect == Spec => []TypeOK
<1>1. TInv => TypeOK
  BY DEF TInv
<1>2. QED
  BY TypesInvariant, <1>1, PTL

--------------------------------------------------------------------------------
(* The wire. *)

\* The words on their way: those in the buffer, then those in the pipe.
OnTheWay(k) == IF k <= Len(buf) THEN buf[k] ELSE toProg[k - Len(buf)]

\* They are the requests that were sent and are not handled yet, whole: each begins
\* with its length, and the word behind it tells what is asked.
Stream ==
  prog = "running" =>
    /\ Len(buf) + Len(toProg) = 3 * (Len(sent) - Len(handled))
    /\ \A j \in 1 .. Len(sent) - Len(handled) :
         /\ OnTheWay(3 * j - 2).word = 1
         /\ OnTheWay(3 * j - 1).ref = sent[Len(handled) + j]

Handling ==
  /\ prog # "length"
  /\ Len(handled) <= Len(sent)
  /\ \A k \in 1 .. Len(handled) : handled[k] = sent[k]

Wire == Handling /\ Stream

LEMMA InitWire == Init => Wire
BY DEF Init, Wire, Handling, Stream

LEMMA WireNat ==
  ASSUME TInv
  PROVE  Len(buf) \in Nat /\ Len(toProg) \in Nat /\ Len(sent) \in Nat /\ Len(handled) \in Nat
BY LenProperties DEF TInv, TypeOK

\* A command is sent.
LEMMA SendWire ==
  ASSUME TInv, Wire, NEW r \in Refs, NEW id \in 0 .. 3,
         toProg' = toProg \o Frame(r, id), sent' = Append(sent, r),
         UNCHANGED <<buf, prog, handled>>
  PROVE  Wire'
<1> DEFINE f == Frame(r, id)
<1>1. f \in Seq(Words) /\ Len(f) = 3 /\ f[1].word = 1 /\ f[2].ref = r
  <2>1. f[1] = [ref |-> r, id |-> id, word |-> 1] /\ f[2] = [ref |-> r, id |-> id, word |-> 2]
    BY DEF Frame
  <2>2. f \in Seq(Words) /\ Len(f) = 3
    BY FrameFacts
  <2> HIDE DEF f
  <2>3. QED
    BY <2>1, <2>2
<1> HIDE DEF f
<1>2. /\ Len(toProg') = Len(toProg) + 3
      /\ \A k \in 1 .. Len(toProg) : toProg'[k] = toProg[k]
      /\ toProg'[Len(toProg) + 1].word = 1
      /\ toProg'[Len(toProg) + 2].ref = r
  <2>1. toProg \in Seq(Words) /\ toProg' = toProg \o f
    BY DEF TInv, TypeOK, f
  <2> DEFINE t == Len(toProg)
  <2>2. t \in Nat
    BY WireNat
  <2>3. /\ Len(toProg') = t + Len(f)
        /\ \A k \in 1 .. t + Len(f) :
             toProg'[k] = IF k <= t THEN toProg[k] ELSE f[k - t]
    <3>1. f \in Seq(Words)
      BY <1>1
    <3>2. QED
      BY <2>1, <3>1, ConcatProperties
  <2> HIDE DEF t
  <2>4. /\ Len(toProg') = t + 3
        /\ \A k \in 1 .. t + 3 : toProg'[k] = IF k <= t THEN toProg[k] ELSE f[k - t]
    BY <1>1, <2>3
  <2>5. /\ t + 1 \in 1 .. t + 3 /\ ~(t + 1 <= t) /\ t + 1 - t = 1
        /\ t + 2 \in 1 .. t + 3 /\ ~(t + 2 <= t) /\ t + 2 - t = 2
        /\ \A k \in 1 .. t : k \in 1 .. t + 3 /\ k <= t
    BY <2>2
  <2>6. toProg'[t + 1] = f[1] /\ toProg'[t + 2] = f[2]
    BY <2>2, <2>4
  <2>7. QED
    BY <1>1, <2>4, <2>5, <2>6 DEF t
<1>3. /\ Len(sent') = Len(sent) + 1
      /\ \A k \in 1 .. Len(sent) : sent'[k] = sent[k]
      /\ sent'[Len(sent) + 1] = r
  BY AppendProperties DEF TInv, TypeOK
<1>4. Handling'
  BY <1>3, WireNat DEF Wire, Handling
<1>5. Stream'
  <2> SUFFICES ASSUME prog = "running"
               PROVE  Stream'
    BY DEF Stream
  <2>0. PICK n \in Nat : n = Len(sent) - Len(handled)
    <3>1. Len(handled) <= Len(sent)
      BY DEF Wire, Handling
    <3>2. Len(sent) - Len(handled) \in Nat
      BY <3>1, WireNat
    <3>3. QED
      BY <3>2
  <2>1. /\ n \in Nat /\ Len(buf) + Len(toProg) = 3 * n
        /\ \A j \in 1 .. n :
             OnTheWay(3 * j - 2).word = 1 /\ OnTheWay(3 * j - 1).ref = sent[Len(handled) + j]
    BY <2>0, WireNat DEF Wire, Handling, Stream
  <2>2. Len(sent') - Len(handled') = n + 1 /\ Len(sent) = Len(handled) + n /\ buf' = buf
    BY <2>0, <1>3, WireNat
  <2>3. Len(buf') + Len(toProg') = 3 * (n + 1)
    <3>1. Len(toProg') = Len(toProg) + 3
      BY <1>2
    <3>2. Len(toProg) \in Nat /\ Len(buf) \in Nat
      BY WireNat
    <3>3. Len(buf) + (Len(toProg) + 3) = 3 * (n + 1)
      <4>1. \A a, b \in Nat : a + b = 3 * n => a + (b + 3) = 3 * (n + 1)
        OBVIOUS
      <4>2. Len(buf) + Len(toProg) = 3 * n
        BY <2>1
      <4>3. QED
        BY <3>2, <4>1, <4>2
    <3>4. Len(buf') = Len(buf)
      BY <2>2
    <3>5. QED
      BY <3>1, <3>3, <3>4
  <2>4. ASSUME NEW k \in 1 .. 3 * n
        PROVE  OnTheWay(k)' = OnTheWay(k)
    <3>1. k <= Len(buf) \/ k - Len(buf) \in 1 .. Len(toProg)
      BY <2>1, WireNat
    <3>2. QED
      BY <1>2, <2>2, <3>1 DEF OnTheWay
  <2>5. ASSUME NEW j \in 1 .. n
        PROVE  /\ OnTheWay(3 * j - 2)'.word = 1
               /\ OnTheWay(3 * j - 1)'.ref = sent'[Len(handled) + j]
    <3>1. 3 * j - 2 \in 1 .. 3 * n /\ 3 * j - 1 \in 1 .. 3 * n /\ Len(handled) + j \in 1 .. Len(sent)
      BY <2>1, <2>2, WireNat
    <3>2. QED
      BY <1>3, <2>1, <2>4, <3>1
  <2>6. /\ OnTheWay(3 * (n + 1) - 2)'.word = 1
        /\ OnTheWay(3 * (n + 1) - 1)'.ref = sent'[Len(handled) + (n + 1)]
    <3> DEFINE b == Len(buf)
               t == Len(toProg)
    <3>1. b \in Nat /\ t \in Nat /\ n \in Nat /\ b + t = 3 * n
      BY <2>1, WireNat
    <3>2. OnTheWay(3 * (n + 1) - 2)' = toProg'[t + 1] /\ OnTheWay(3 * (n + 1) - 1)' = toProg'[t + 2]
      <4>1. Len(buf') = b
        BY <2>2
      <4> HIDE DEF b, t
      <4>2. /\ ~(3 * (n + 1) - 2 <= b) /\ (3 * (n + 1) - 2) - b = t + 1
            /\ ~(3 * (n + 1) - 1 <= b) /\ (3 * (n + 1) - 1) - b = t + 2
        BY <3>1
      <4>3. /\ OnTheWay(3 * (n + 1) - 2)' = toProg'[(3 * (n + 1) - 2) - b]
            /\ OnTheWay(3 * (n + 1) - 1)' = toProg'[(3 * (n + 1) - 1) - b]
        BY <4>1, <4>2 DEF OnTheWay
      <4>4. QED
        BY <4>2, <4>3
    <3>3. Len(handled) + (n + 1) = Len(sent) + 1
      BY <2>2, <3>1, WireNat
    <3>4. /\ toProg'[t + 1].word = 1 /\ toProg'[t + 2].ref = r
          /\ sent'[Len(handled) + (n + 1)] = r
      BY <1>2, <1>3, <3>3
    <3>5. QED
      BY <3>2, <3>4
  <2>7. \A j \in 1 .. n + 1 : j \in 1 .. n \/ j = n + 1
    BY <2>1
  <2>8. ASSUME NEW j \in 1 .. n + 1
        PROVE  /\ OnTheWay(3 * j - 2)'.word = 1
               /\ OnTheWay(3 * j - 1)'.ref = sent'[Len(handled') + j]
    <3>1. handled' = handled
      OBVIOUS
    <3>2. CASE j \in 1 .. n
      BY <2>5, <3>1, <3>2
    <3>3. CASE j = n + 1
      <4>1. 3 * j - 2 = 3 * (n + 1) - 2 /\ 3 * j - 1 = 3 * (n + 1) - 1
        BY <3>3
      <4>2. /\ OnTheWay(3 * j - 2)' = OnTheWay(3 * (n + 1) - 2)'
            /\ OnTheWay(3 * j - 1)' = OnTheWay(3 * (n + 1) - 1)'
            /\ sent'[Len(handled') + j] = sent'[Len(handled) + (n + 1)]
        BY <3>1, <3>3, <4>1
      <4>3. QED
        BY <2>6, <4>2
    <3>4. QED
      BY <2>7, <3>2, <3>3
  <2>9. QED
    BY <2>2, <2>3, <2>8 DEF Stream
<1>6. QED
  BY <1>4, <1>5 DEF Wire

\* A whole request in the buffer is the one that was sent first and is not handled.
LEMMA ReadRequest ==
  ASSUME TInv, Wire, NEW n \in Readable, ReadFile(n), IsRequest(buf \o SubSeq(toProg, 1, n))
  PROVE  LET words == buf \o SubSeq(toProg, 1, n)
         IN  /\ Len(buf) + n = 3 /\ Len(sent) - Len(handled) >= 1
             /\ words[1].word = 1 /\ words[2].ref = sent[Len(handled) + 1]
<1> DEFINE words == buf \o SubSeq(toProg, 1, n)
           d     == Len(sent) - Len(handled)
<1>0. IsRequest(words)
  OBVIOUS
<1>1. /\ prog = "running" /\ sent' = sent
      /\ toProg' = SubSeq(toProg, n + 1, Len(toProg))
  BY DEF ReadFile
<1>2. /\ n \in 1 .. Len(toProg) /\ Len(words) = Len(buf) + n
      /\ \A k \in 1 .. Len(buf) + n : words[k] = OnTheWay(k)
      /\ Len(toProg') = Len(toProg) - n
      /\ \A k \in 1 .. Len(toProg') : toProg'[k] = toProg[n + k]
  BY <1>1, ReadWords DEF OnTheWay
<1>3. /\ d \in Nat /\ Len(buf) + Len(toProg) = 3 * d /\ Len(sent) = Len(handled) + d
      /\ \A j \in 1 .. d :
           OnTheWay(3 * j - 2).word = 1 /\ OnTheWay(3 * j - 1).ref = sent[Len(handled) + j]
  BY <1>1, WireNat DEF Wire, Handling, Stream
<1> HIDE DEF words, d
<1>4. Len(buf) + n = 3 /\ d >= 1 /\ 1 \in 1 .. d /\ 1 \in 1 .. Len(buf) + n /\ 2 \in 1 .. Len(buf) + n
  <2>1. Len(buf) + n = 3 /\ n <= Len(toProg) /\ Len(buf) + Len(toProg) = 3 * d /\ d \in Nat
        /\ n \in Nat
    <3>1. Len(words) = 3 /\ Len(words) = Len(buf) + n /\ n \in 1 .. Len(toProg)
      BY <1>0, <1>2 DEF IsRequest
    <3>2. Len(buf) + Len(toProg) = 3 * d /\ d \in Nat
      BY <1>3
    <3>3. Len(toProg) \in Nat
      BY WireNat
    <3>4. n \in Nat /\ n <= Len(toProg)
      BY <3>1, <3>3
    <3>5. Len(buf) + n = 3
      BY <3>1
    <3>6. QED
      BY <3>2, <3>4, <3>5
  <2>2. Len(buf) \in Nat /\ Len(toProg) \in Nat
    BY WireNat
  <2>3. QED
    BY <2>1, <2>2
<1>5. words[1].word = 1 /\ words[2].ref = sent[Len(handled) + 1]
  <2>1. OnTheWay(3 * 1 - 2).word = 1 /\ OnTheWay(3 * 1 - 1).ref = sent[Len(handled) + 1]
    BY <1>3, <1>4
  <2>2. 3 * 1 - 2 = 1 /\ 3 * 1 - 1 = 2
    OBVIOUS
  <2>3. QED
    BY <1>2, <1>4, <2>1, <2>2
<1>6. QED
  BY <1>4, <1>5 DEF words, d

\* The program reads.
LEMMA ReadWire ==
  ASSUME TInv, Wire, NEW n \in Readable, ReadFile(n)
  PROVE  Wire'
<1> DEFINE words == buf \o SubSeq(toProg, 1, n)
           d     == Len(sent) - Len(handled)
<1>1. /\ prog = "running" /\ sent' = sent
      /\ toProg' = SubSeq(toProg, n + 1, Len(toProg))
  BY DEF ReadFile
<1>2. /\ n \in 1 .. Len(toProg) /\ Len(words) = Len(buf) + n
      /\ \A k \in 1 .. Len(buf) + n : words[k] = OnTheWay(k)
      /\ Len(toProg') = Len(toProg) - n
      /\ \A k \in 1 .. Len(toProg') : toProg'[k] = toProg[n + k]
  BY <1>1, ReadWords DEF OnTheWay
<1>3. /\ d \in Nat /\ Len(buf) + Len(toProg) = 3 * d /\ Len(sent) = Len(handled) + d
      /\ \A j \in 1 .. d :
           OnTheWay(3 * j - 2).word = 1 /\ OnTheWay(3 * j - 1).ref = sent[Len(handled) + j]
  BY <1>1, WireNat DEF Wire, Handling, Stream
<1> HIDE DEF words, d
<1>4. CASE IsRequest(words)
  <2>1. Len(buf) + n = 3 /\ d >= 1 /\ words[1].word = 1 /\ words[2].ref = sent[Len(handled) + 1]
    BY <1>4, ReadRequest DEF words, d
  <2>2. 1 \in 1 .. d
    BY <1>3, <2>1
  <2>3. buf' = <<>> /\ prog' = prog /\ handled' = Append(handled, sent[Len(handled) + 1])
    BY <1>4, <2>1 DEF ReadFile, HandleRequest, words
  <2>4. /\ Len(handled') = Len(handled) + 1
        /\ \A k \in 1 .. Len(handled) : handled'[k] = handled[k]
        /\ handled'[Len(handled) + 1] = sent[Len(handled) + 1]
    <3>1. Len(handled) + 1 \in 1 .. Len(sent)
      BY <1>3, <2>1, WireNat
    <3>2. sent[Len(handled) + 1] \in Refs /\ handled \in Seq(Refs)
      BY <3>1, ElementOfSeq DEF TInv, TypeOK
    <3>3. QED
      BY <2>3, <3>2, AppendProperties
  <2>5. Handling'
    <3>1. Len(handled') <= Len(sent')
      BY <1>1, <1>3, <2>1, <2>4, WireNat
    <3>2. \A k \in 1 .. Len(handled') : k \in 1 .. Len(handled) \/ k = Len(handled) + 1
      BY <2>4, WireNat
    <3>3. QED
      BY <1>1, <2>3, <2>4, <3>1, <3>2 DEF Wire, Handling
  <2>6. Stream'
    <3>1. Len(sent') - Len(handled') = d - 1 /\ d - 1 \in Nat /\ Len(buf') = 0
      BY <1>1, <1>3, <2>1, <2>3, <2>4, WireNat
    <3>2. Len(buf') + Len(toProg') = 3 * (d - 1)
      <4>1. /\ Len(toProg') = Len(toProg) - n /\ Len(buf) + Len(toProg) = 3 * d
            /\ Len(buf) + n = 3 /\ Len(buf') = 0 /\ d \in Nat /\ n \in Nat
        BY <1>2, <1>3, <2>1, <3>1
      <4>2. Len(buf) \in Nat /\ Len(toProg) \in Nat
        BY WireNat
      <4>3. QED
        BY <4>1, <4>2
    <3>3. ASSUME NEW k \in 1 .. 3 * (d - 1)
          PROVE  OnTheWay(k)' = OnTheWay(k + 3)
      <4>1. k \in 1 .. Len(toProg') /\ ~(k <= Len(buf')) /\ k - Len(buf') = k
        BY <3>1, <3>2
      <4>2. OnTheWay(k)' = toProg'[k]
        BY <4>1 DEF OnTheWay
      <4>3. ~(k + 3 <= Len(buf)) /\ (k + 3) - Len(buf) = n + k
        BY <1>2, <2>1, WireNat
      <4>4. OnTheWay(k + 3) = toProg[n + k]
        BY <4>3 DEF OnTheWay
      <4>5. QED
        BY <1>2, <4>1, <4>2, <4>4
    <3>4. ASSUME NEW j \in 1 .. d - 1
          PROVE  /\ OnTheWay(3 * j - 2)'.word = 1
                 /\ OnTheWay(3 * j - 1)'.ref = sent'[Len(handled') + j]
      <4>1. /\ 3 * j - 2 \in 1 .. 3 * (d - 1) /\ 3 * j - 1 \in 1 .. 3 * (d - 1)
            /\ (3 * j - 2) + 3 = 3 * (j + 1) - 2 /\ (3 * j - 1) + 3 = 3 * (j + 1) - 1
            /\ j + 1 \in 1 .. d /\ Len(handled') + j = Len(handled) + (j + 1)
        BY <1>3, <2>4, <3>1, WireNat
      <4>2. OnTheWay(3 * j - 2)' = OnTheWay(3 * (j + 1) - 2)
            /\ OnTheWay(3 * j - 1)' = OnTheWay(3 * (j + 1) - 1)
        BY <3>3, <4>1
      <4>3. QED
        BY <1>1, <1>3, <4>1, <4>2
    <3>5. QED
      BY <3>1, <3>2, <3>4 DEF Stream
  <2>7. QED
    BY <2>5, <2>6 DEF Wire
<1>5. CASE ~IsRequest(words)
  <2>1. buf' = words /\ UNCHANGED <<prog, handled>>
    BY <1>5 DEF ReadFile, words
  <2>2. Len(buf') + Len(toProg') = 3 * d /\ Len(sent') - Len(handled') = d
    <3>1. /\ Len(buf') = Len(buf) + n /\ Len(toProg') = Len(toProg) - n /\ n \in Nat
          /\ Len(buf) + Len(toProg) = 3 * d /\ d \in Nat
      BY <1>2, <1>3, <2>1
    <3>2. Len(buf) \in Nat /\ Len(toProg) \in Nat
      BY WireNat
    <3>3. Len(sent') - Len(handled') = d
      BY <1>1, <2>1 DEF d
    <3>4. QED
      BY <3>1, <3>2, <3>3
  <2>3. ASSUME NEW k \in 1 .. 3 * d
        PROVE  OnTheWay(k)' = OnTheWay(k)
    <3>1. CASE k <= Len(buf) + n
      BY <1>2, <2>1, <3>1 DEF OnTheWay
    <3>2. CASE ~(k <= Len(buf) + n)
      <4>1. /\ k - (Len(buf) + n) \in 1 .. Len(toProg') /\ ~(k <= Len(buf))
            /\ n + (k - (Len(buf) + n)) = k - Len(buf)
        <5>1. Len(toProg') = Len(toProg) - n /\ n \in Nat
          BY <1>2
        <5>2. Len(buf) + Len(toProg) = 3 * d /\ d \in Nat
          BY <1>3
        <5>3. Len(buf) \in Nat /\ Len(toProg) \in Nat
          BY WireNat
        <5>4. k \in Nat /\ k <= Len(buf) + Len(toProg) /\ k > Len(buf) + n
          BY <3>2, <5>1, <5>2, <5>3
        <5>5. QED
          BY <5>1, <5>3, <5>4
      <4>2. OnTheWay(k)' = toProg'[k - (Len(buf) + n)]
        BY <1>2, <2>1, <3>2 DEF OnTheWay
      <4>3. QED
        BY <1>2, <4>1, <4>2 DEF OnTheWay
    <3>3. QED
      BY <3>1, <3>2
  <2>4. \A j \in 1 .. d : 3 * j - 2 \in 1 .. 3 * d /\ 3 * j - 1 \in 1 .. 3 * d
    BY <1>3
  <2>5. Stream'
    BY <1>1, <1>3, <2>1, <2>2, <2>3, <2>4 DEF Stream
  <2>6. Handling'
    BY <1>1, <2>1 DEF Wire, Handling
  <2>7. QED
    BY <2>5, <2>6 DEF Wire
<1>6. QED
  BY <1>4, <1>5

LEMMA NextWire == TInv /\ Wire /\ [Next]_vars => Wire'
<1> SUFFICES ASSUME TInv, Wire, [Next]_vars
             PROVE  Wire'
  OBVIOUS
<1>1. CASE UNCHANGED <<toProg, buf, prog, sent, handled>>
  BY <1>1 DEF Wire, Handling, Stream, OnTheWay
<1>2. CASE HandleCall /\ port = "open"
  <2>1. /\ Head(mailbox) \in Messages /\ mailbox # <<>>
        /\ toProg' = toProg \o Frame(Head(mailbox).ref, Head(mailbox).id)
        /\ sent' = Append(sent, Head(mailbox).ref)
        /\ UNCHANGED <<buf, prog, handled>>
    BY <1>2, HeadTailProperties DEF HandleCall, NextIs, program, TInv, TypeOK
  <2>2. Head(mailbox).ref \in Refs /\ Head(mailbox).id \in 0 .. 3
    BY <2>1 DEF Messages
  <2>3. QED
    BY <2>1, <2>2, SendWire
<1>3. CASE Terminate
  BY <1>3 DEF Terminate, Wire, Handling, Stream
<1>4. CASE Restart
  BY <1>4 DEF Restart, TInv, Down, Wire, Handling, Stream
<1>5. CASE \E n \in Readable : ReadFile(n)
  BY <1>5, ReadWire
<1>6. CASE ReadNothing \/ StopEvent
  BY <1>6 DEF ReadNothing, StopEvent, Wire, Handling, Stream
<1>7. QED
  <2>1. CASE UNCHANGED vars
    BY <1>1, <2>1 DEF vars, program
  <2>2. CASE Server
    <3>1. CASE HandleCall /\ port # "open"
      BY <1>1, <3>1 DEF HandleCall, program
    <3>2. CASE ReceiveData \/ ReceiveAny \/ HandleInfo
      BY <1>1, <3>2 DEF ReceiveData, ReceiveAny, HandleInfo, program
    <3>3. QED
      BY <1>2, <1>3, <2>2, <3>1, <3>2 DEF Server, HandlePortExit, ParentExit
  <2>3. CASE \/ \E c \in Clients, id \in RequestIDs : Call(c, id)
             \/ \E c \in Clients : Timeout(c)
    BY <1>1, <2>3 DEF Call, Timeout, program
  <2>4. CASE StopApplication
    BY <1>1, <2>4 DEF StopApplication, program
  <2>5. CASE Port
    BY <1>1, <2>5 DEF Port, Deliver, PortEof, PortExit, program
  <2>6. QED
    BY <1>4, <1>5, <1>6, <2>1, <2>2, <2>3, <2>4, <2>5 DEF Next, Program

\* For any number of requests and however their bytes arrive, the program answers
\* what it was sent, whole and in order, and never meets a length that is not one
\* (clock.c:216-261).
THEOREM FramesAreWhole == Spec => []FramesStayWhole
<1>1. TInv /\ Wire => FramesStayWhole
  <2> SUFFICES ASSUME TInv, Wire
               PROVE  IsPrefixOf(handled, sent)
    BY DEF Wire, Handling, FramesStayWhole
  <2>1. /\ handled \in Seq(Refs) /\ sent \in Seq(Refs) /\ Len(handled) \in Nat
        /\ Len(handled) <= Len(sent) /\ Len(sent) \in Nat
        /\ \A k \in 1 .. Len(handled) : handled[k] = sent[k]
    BY WireNat DEF TInv, TypeOK, Wire, Handling
  <2> DEFINE front == SubSeq(sent, 1, Len(handled))
  <2>2. /\ front \in Seq(Refs) /\ Len(front) = Len(handled)
        /\ \A k \in 1 .. Len(handled) : front[k] = sent[k]
    <3>1. \A k \in 1 .. Len(handled) : sent[k] \in Refs
      BY <2>1, ElementOfSeq
    <3>2. /\ front \in Seq(Refs)
          /\ Len(front) = IF 1 <= Len(handled) THEN Len(handled) - 1 + 1 ELSE 0
          /\ \A k \in 1 .. Len(handled) - 1 + 1 : front[k] = sent[1 + k - 1]
      BY <2>1, <3>1, SubSeqProperties
    <3> HIDE DEF front
    <3>3. QED
      BY <2>1, <3>2
  <2> HIDE DEF front
  <2>3. handled = front
    BY <2>1, <2>2, SeqEqual
  <2>4. QED
    BY <2>1, <2>3 DEF IsPrefixOf, front
<1>2. QED
  BY InitTInv, NextTInv, InitWire, NextWire, <1>1, PTL DEF Spec

--------------------------------------------------------------------------------
(* Whose turn it is. *)

\* Calls are taken in the order of their references, and none that waits or is
\* worked on was answered before.
Fresh ==
  /\ cur.ref <= calls
  /\ \A c \in Clients : client[c].asked <= calls
  /\ \A k \in 1 .. Len(mailbox) : mailbox[k].type = "call" =>
       /\ cur.ref < mailbox[k].ref
       /\ \A c \in Clients : client[c].asked < mailbox[k].ref
       /\ \A j \in 1 .. k - 1 : mailbox[j].type = "call" => mailbox[j].ref < mailbox[k].ref

NoData == \A k \in 1 .. Len(mailbox) : mailbox[k].type # "data"

OneData ==
  \E k \in 1 .. Len(mailbox) :
    /\ mailbox[k].type = "data" /\ mailbox[k].ref = cur.ref
    /\ \A j \in 1 .. Len(mailbox) : mailbox[j].type = "data" => j = k

\* Where the call of handle_call is: with the program, in its output, in the
\* mailbox, or, sent to a port that is gone, nowhere.
Asked     == Len(sent) = Len(handled) + 1 /\ sent[Len(sent)] = cur.ref /\ NoData /\ fromProg = <<>>
Responded == Len(sent) = Len(handled) /\ NoData /\ Len(fromProg) = 1 /\ fromProg[1].ref = cur.ref
Arrived   == Len(sent) = Len(handled) /\ OneData /\ fromProg = <<>>
Idle      == Len(sent) = Len(handled) /\ NoData /\ fromProg = <<>>
Lost      == Idle /\ port # "open"

Serving == swallowed = {} /\ server # "down"

Turn ==
  Serving =>
    /\ prog # "eof"
    /\ server = "loop" => Idle
    /\ server = "receive" => Asked \/ Responded \/ Arrived \/ Lost

Answers ==
  Serving =>
    \A c \in Clients :
      client[c].got.type = "data" /\ client[c].asked \in {sent[k] : k \in DOMAIN sent}
        => client[c].got.ref = client[c].asked

LEMMA InitTurn == Init => Fresh /\ Turn /\ Answers
BY RefsFacts DEF Init, NoCall, Nothing, Signal, Fresh, Turn, Idle, NoData, Answers, Serving, Refs

LEMMA PutMail ==
  ASSUME TInv, NEW m \in Messages, mailbox' = Append(mailbox, m)
  PROVE  /\ Len(mailbox) \in Nat /\ Len(mailbox') = Len(mailbox) + 1
         /\ mailbox'[Len(mailbox) + 1] = m
         /\ \A k \in 1 .. Len(mailbox) : k \in 1 .. Len(mailbox') /\ mailbox'[k] = mailbox[k]
         /\ \A k \in 1 .. Len(mailbox') : k \in 1 .. Len(mailbox) \/ k = Len(mailbox) + 1
<1>1. /\ Len(mailbox) \in Nat /\ Len(mailbox') = Len(mailbox) + 1
      /\ mailbox'[Len(mailbox) + 1] = m
      /\ \A k \in 1 .. Len(mailbox) : mailbox'[k] = mailbox[k]
  BY AppendProperties, LenProperties DEF TInv, TypeOK
<1>2. QED
  BY <1>1

LEMMA TakeMail ==
  ASSUME TInv, mailbox # <<>>, mailbox' = Tail(mailbox)
  PROVE  /\ Len(mailbox) \in Nat /\ 1 \in 1 .. Len(mailbox) /\ Head(mailbox) = mailbox[1]
         /\ Len(mailbox') \in Nat /\ Len(mailbox') = Len(mailbox) - 1
         /\ \A k \in 1 .. Len(mailbox') : k + 1 \in 1 .. Len(mailbox) /\ mailbox'[k] = mailbox[k + 1]
<1>1. /\ Len(mailbox) \in Nat \ {0} /\ Head(mailbox) = mailbox[1]
      /\ Len(mailbox') = Len(mailbox) - 1
      /\ \A k \in 1 .. Len(mailbox') : mailbox'[k] = mailbox[k + 1]
  BY HeadTailProperties, EmptySeq, LenProperties DEF TInv, TypeOK
<1>2. QED
  BY <1>1

\* Another message than a response joins the queue: what is there stays there.
LEMMA PutSignal ==
  ASSUME TInv, NEW m \in Messages, m.type # "data", mailbox' = Append(mailbox, m), cur' = cur
  PROVE  (NoData => NoData') /\ (OneData => OneData')
<1>1. ASSUME NoData
      PROVE  NoData'
  BY <1>1, PutMail DEF NoData
<1>2. ASSUME OneData
      PROVE  OneData'
  <2>1. PICK k \in 1 .. Len(mailbox) :
          /\ mailbox[k].type = "data" /\ mailbox[k].ref = cur.ref
          /\ \A j \in 1 .. Len(mailbox) : mailbox[j].type = "data" => j = k
    BY <1>2 DEF OneData
  <2>2. k \in 1 .. Len(mailbox') /\ mailbox'[k] = mailbox[k]
    BY PutMail
  <2>3. \A j \in 1 .. Len(mailbox') : mailbox'[j].type = "data" => j = k
    BY <2>1, PutMail
  <2>4. mailbox'[k].type = "data" /\ mailbox'[k].ref = cur'.ref
    BY <2>1, <2>2
  <2>5. QED
    BY <2>2, <2>3, <2>4 DEF OneData
<1>3. QED
  BY <1>1, <1>2

\* The response that is in no one's hands joins the queue.
LEMMA PutData ==
  ASSUME TInv, NoData, NEW m \in Messages, m.type = "data", m.ref = cur.ref,
         mailbox' = Append(mailbox, m), cur' = cur
  PROVE  OneData'
<1> DEFINE k == Len(mailbox')
<1>1. k \in 1 .. Len(mailbox') /\ mailbox'[k] = m /\ k = Len(mailbox) + 1
  BY PutMail
<1>2. \A j \in 1 .. Len(mailbox') : mailbox'[j].type = "data" => j = k
  BY <1>1, PutMail DEF NoData
<1>3. QED
  BY <1>1, <1>2 DEF OneData

\* The first message leaves the queue.
LEMMA TakeNone ==
  ASSUME TInv, NoData, mailbox # <<>>, mailbox' = Tail(mailbox)
  PROVE  NoData' /\ Head(mailbox).type # "data"
BY TakeMail DEF NoData

LEMMA TakeData ==
  ASSUME TInv, OneData, mailbox # <<>>, mailbox' = Tail(mailbox), Head(mailbox).type = "data"
  PROVE  NoData' /\ Head(mailbox).ref = cur.ref
<1>1. PICK k \in 1 .. Len(mailbox) :
        /\ mailbox[k].ref = cur.ref
        /\ \A j \in 1 .. Len(mailbox) : mailbox[j].type = "data" => j = k
  BY DEF OneData
<1>2. k = 1
  BY <1>1, TakeMail
<1>3. ASSUME NEW j \in 1 .. Len(mailbox')
      PROVE  mailbox'[j].type # "data"
  <2>1. j + 1 \in 1 .. Len(mailbox) /\ mailbox'[j] = mailbox[j + 1] /\ j + 1 # 1
    BY TakeMail
  <2>2. QED
    BY <1>1, <1>2, <2>1
<1>4. QED
  BY <1>1, <1>2, <1>3, TakeMail DEF NoData

\* References: numbers, and what the clients asked.
LEMMA RefNat ==
  ASSUME TInv
  PROVE  /\ calls \in Nat /\ cur.ref \in Nat
         /\ \A c \in Clients : client[c].asked \in Nat
         /\ \A k \in 1 .. Len(mailbox) : mailbox[k].ref \in Nat
<1>1. \A k \in 1 .. Len(mailbox) : mailbox[k] \in Messages
  BY ElementOfSeq DEF TInv, TypeOK
<1>2. QED
  BY <1>1, RefsFacts DEF TInv, TypeOK, Messages

\* A message joins the queue; a call has the next number.
LEMMA PutFresh ==
  ASSUME TInv, Fresh, NEW m \in Messages, mailbox' = Append(mailbox, m), cur' = cur,
         \/ m.type # "call" /\ calls' = calls
         \/ m.ref = calls + 1 /\ calls' = calls + 1,
         \A c \in Clients : client'[c].asked \in {0, client[c].asked}
  PROVE  Fresh'
<1> DEFINE n == Len(mailbox)
<1>1. /\ calls \in Nat /\ cur.ref \in Nat /\ calls' \in Nat /\ calls <= calls'
      /\ m.type = "call" => m.ref = calls + 1
  BY RefNat
<1>2. cur.ref <= calls /\ \A c \in Clients : client[c].asked <= calls /\ client[c].asked \in Nat
  BY RefNat DEF Fresh
<1>3. cur'.ref <= calls'
  BY <1>1, <1>2
<1>4. \A c \in Clients : client'[c].asked <= calls' /\ client'[c].asked \in Nat
  BY <1>1, <1>2
<1>5. \A c \in Clients : client'[c].asked <= client[c].asked
  BY <1>2
<1>6. ASSUME NEW k \in 1 .. Len(mailbox'), mailbox'[k].type = "call"
      PROVE  /\ cur'.ref < mailbox'[k].ref
             /\ \A c \in Clients : client'[c].asked < mailbox'[k].ref
             /\ \A j \in 1 .. k - 1 : mailbox'[j].type = "call" => mailbox'[j].ref < mailbox'[k].ref
  <2>1. CASE k \in 1 .. n
    <3>1. mailbox'[k] = mailbox[k] /\ mailbox[k].ref \in Nat /\ n \in Nat
      BY <2>1, PutMail, RefNat
    <3>2. /\ cur.ref < mailbox[k].ref
          /\ \A c \in Clients : client[c].asked < mailbox[k].ref
          /\ \A j \in 1 .. k - 1 : mailbox[j].type = "call" => mailbox[j].ref < mailbox[k].ref
      BY <1>6, <2>1, <3>1 DEF Fresh
    <3>3. \A c \in Clients : client'[c].asked < mailbox[k].ref
      BY <1>2, <1>4, <1>5, <3>1, <3>2
    <3>4. \A j \in 1 .. k - 1 : j \in 1 .. n
      BY <2>1, <3>1
    <3>5. \A j \in 1 .. k - 1 : mailbox'[j] = mailbox[j]
      BY <3>4, PutMail
    <3>6. QED
      BY <3>1, <3>2, <3>3, <3>5
  <2>2. CASE k = n + 1
    <3>1. mailbox'[k] = m /\ m.ref = calls + 1 /\ n \in Nat
      BY <1>1, <1>6, <2>2, PutMail
    <3>2. \A c \in Clients : client'[c].asked < m.ref
      BY <1>1, <1>2, <1>4, <1>5, <3>1
    <3>3. \A j \in 1 .. k - 1 : j \in 1 .. n
      BY <2>2, <3>1
    <3>4. ASSUME NEW j \in 1 .. k - 1, mailbox'[j].type = "call"
          PROVE  mailbox'[j].ref < m.ref
      <4>1. j \in 1 .. n /\ mailbox'[j] = mailbox[j]
        BY <3>3, PutMail
      <4>2. mailbox[j].ref \in 1 .. calls
        BY <3>4, <4>1 DEF TInv, Queue
      <4>3. QED
        BY <1>1, <3>1, <4>1, <4>2
    <3>5. QED
      BY <1>1, <1>2, <3>1, <3>2, <3>4
  <2>3. QED
    BY <2>1, <2>2, PutMail
<1>7. QED
  BY <1>3, <1>4, <1>6 DEF Fresh

\* The first message leaves the queue, and its call is worked on or was the last.
LEMMA TakeFresh ==
  ASSUME TInv, Fresh, mailbox # <<>>, mailbox' = Tail(mailbox), calls' = calls,
         \/ cur'.ref \in {0, cur.ref}
         \/ Head(mailbox).type = "call" /\ cur'.ref = Head(mailbox).ref,
         \A c \in Clients : client'[c].asked \in {client[c].asked, cur.ref}
  PROVE  Fresh'
<1>1. /\ calls \in Nat /\ cur.ref \in Nat
      /\ \A c \in Clients : client[c].asked \in Nat
      /\ \A k \in 1 .. Len(mailbox) : mailbox[k].ref \in Nat
  BY RefNat
<1>2. cur.ref <= calls /\ \A c \in Clients : client[c].asked <= calls
  BY DEF Fresh
<1>3. cur'.ref <= calls' /\ cur'.ref \in Nat
  <2>1. CASE cur'.ref \in {0, cur.ref}
    BY <1>1, <1>2, <2>1
  <2>2. CASE Head(mailbox).type = "call" /\ cur'.ref = Head(mailbox).ref
    <3>1. Head(mailbox).ref \in 1 .. calls
      BY <2>2, TakeMail DEF TInv, Queue
    <3>2. QED
      BY <1>1, <2>2, <3>1
  <2>3. QED
    BY <2>1, <2>2
<1>4. \A c \in Clients : client'[c].asked <= calls'
  BY <1>1, <1>2
<1>5. ASSUME NEW k \in 1 .. Len(mailbox'), mailbox'[k].type = "call"
      PROVE  /\ cur'.ref < mailbox'[k].ref
             /\ \A c \in Clients : client'[c].asked < mailbox'[k].ref
             /\ \A j \in 1 .. k - 1 : mailbox'[j].type = "call" => mailbox'[j].ref < mailbox'[k].ref
  <2>1. /\ k + 1 \in 1 .. Len(mailbox) /\ mailbox'[k] = mailbox[k + 1]
        /\ mailbox[k + 1].ref \in Nat /\ k \in Nat /\ Len(mailbox') \in Nat
    BY <1>1, TakeMail
  <2>2. /\ cur.ref < mailbox[k + 1].ref
        /\ \A c \in Clients : client[c].asked < mailbox[k + 1].ref
        /\ \A j \in 1 .. (k + 1) - 1 : mailbox[j].type = "call" => mailbox[j].ref < mailbox[k + 1].ref
    BY <1>5, <2>1 DEF Fresh
  <2>3. cur'.ref < mailbox[k + 1].ref
    <3>1. CASE cur'.ref \in {0, cur.ref}
      BY <1>1, <2>1, <2>2, <3>1
    <3>2. CASE Head(mailbox).type = "call" /\ cur'.ref = Head(mailbox).ref
      <4>1. 1 \in 1 .. (k + 1) - 1
        BY <2>1
      <4>2. mailbox[1].ref < mailbox[k + 1].ref
        BY <2>2, <3>2, <4>1, TakeMail
      <4>3. QED
        BY <3>2, <4>2, TakeMail
    <3>3. QED
      BY <3>1, <3>2
  <2>4. \A c \in Clients : client'[c].asked < mailbox[k + 1].ref
    BY <2>2
  <2>5. ASSUME NEW j \in 1 .. k - 1, mailbox'[j].type = "call"
        PROVE  mailbox'[j].ref < mailbox[k + 1].ref
    <3>1. j \in 1 .. Len(mailbox') /\ j + 1 \in 1 .. (k + 1) - 1
      BY <2>1
    <3>2. mailbox'[j] = mailbox[j + 1]
      BY <3>1, TakeMail
    <3>3. QED
      BY <2>2, <2>5, <3>1, <3>2
  <2>6. QED
    BY <2>1, <2>3, <2>4, <2>5
<1>6. QED
  BY <1>3, <1>4, <1>5 DEF Fresh

\* A reply notes its reference with the clients.
LEMMA ReplyAsked ==
  ASSUME TInv, NEW m, Reply(cur.ref, m)
  PROVE  \A c \in Clients :
           /\ client'[c].asked \in {client[c].asked, cur.ref}
           /\ \/ client'[c] = client[c]
              \/ client'[c].asked = cur.ref /\ client'[c].got = m
<1> TAKE c \in Clients
<1>1. CASE client[c].ref = cur.ref
  <2>1. client'[c] = [ref |-> 0, id |-> client[c].id, asked |-> cur.ref, got |-> m]
    BY <1>1 DEF Reply
  <2>2. QED
    BY <2>1
<1>2. CASE client[c].ref # cur.ref
  <2>1. client'[c] = client[c]
    BY <1>2 DEF Reply
  <2>2. client'[c].asked = client[c].asked
    BY <2>1
  <2>3. QED
    BY <2>1, <2>2
<1>3. QED
  BY <1>1, <1>2

LEMMA NextFresh == TInv /\ Fresh /\ [Next]_vars => Fresh'
<1> SUFFICES ASSUME TInv, Fresh, [Next]_vars
             PROVE  Fresh'
  OBVIOUS
<1>1. CASE UNCHANGED <<callers, mailbox, cur>>
  BY <1>1 DEF Fresh, callers
<1>2. ASSUME NEW c \in Clients, NEW id \in RequestIDs, Call(c, id)
      PROVE  Fresh'
  <2> DEFINE m == CallMsg(c, calls + 1, id)
  <2>1. calls + 1 \in Refs /\ id \in 0 .. 3
    BY <1>2, RequestsAssumption, BoundsAssumption DEF Call, TInv, TypeOK, Refs
  <2>2. m \in Messages /\ m.ref = calls + 1
    BY <2>1, MessageFacts DEF CallMsg
  <2>3. mailbox' = Append(mailbox, m) /\ cur' = cur /\ calls' = calls + 1
    BY <1>2 DEF Call
  <2>4. \A d \in Clients : client'[d].asked \in {0, client[d].asked}
    BY <1>2 DEF Call, TInv, TypeOK
  <2> HIDE DEF m
  <2>5. QED
    BY <2>2, <2>3, <2>4, PutFresh
<1>3. ASSUME NEW c \in Clients, Timeout(c)
      PROVE  Fresh'
  <2>1. \A d \in Clients : client'[d].asked = client[d].asked
    BY <1>3 DEF Timeout, TInv, TypeOK
  <2>2. calls' = calls /\ mailbox' = mailbox /\ cur' = cur
    BY <1>3 DEF Timeout, erlang
  <2>3. QED
    BY <2>1, <2>2 DEF Fresh
<1>4. CASE HandleCall
  BY <1>4, TakeFresh DEF HandleCall, NextIs, callers
<1>5. CASE ReceiveData \/ ReceiveAny
  <2>1. /\ mailbox # <<>> /\ mailbox' = Tail(mailbox) /\ calls' = calls /\ cur'.ref = 0
        /\ Reply(cur.ref, Head(mailbox))
    BY <1>5 DEF ReceiveData, ReceiveAny, NextIs, NoCall
  <2>2. QED
    BY <2>1, TakeFresh, ReplyAsked
<1>6. CASE HandleInfo
  BY <1>6, TakeFresh DEF HandleInfo, NextIs, callers
<1>7. CASE Terminate
  <2>1. /\ calls' = calls /\ mailbox' = <<>> /\ cur'.ref = 0 /\ calls \in Nat
        /\ \A c \in Clients : client'[c].asked = client[c].asked
    BY <1>7, RefNat DEF Terminate, NoCall, TInv, TypeOK
  <2>2. QED
    BY <2>1 DEF Fresh
<1>8. CASE StopApplication /\ server # "down"
  BY <1>8, PutFresh, MessageFacts DEF StopApplication, callers, Signal
<1>9. CASE Port
  <2>1. PICK m \in Messages : m.type # "call" /\ mailbox' = Append(mailbox, m)
    <3>1. CASE Deliver
      <4>1. Head(fromProg) = fromProg[1] /\ 1 \in 1 .. Len(fromProg) /\ fromProg[1] \in Messages
        BY <3>1, EmptySeq, ElementOfSeq DEF Deliver, TInv, TypeOK
      <4>2. QED
        BY <3>1, <4>1 DEF Deliver, TInv, Queue
    <3>2. CASE PortEof
      BY <3>2, MessageFacts DEF PortEof, Signal
    <3>3. CASE PortExit
      BY <3>3, MessageFacts DEF PortExit, Signal
    <3>4. QED
      BY <1>9, <3>1, <3>2, <3>3 DEF Port
  <2>2. calls' = calls /\ client' = client /\ cur' = cur
    BY <1>9 DEF Port, Deliver, PortEof, PortExit, callers
  <2>3. QED
    BY <2>1, <2>2, PutFresh
<1>10. QED
  <2>1. CASE UNCHANGED vars
    BY <1>1, <2>1 DEF vars, erlang
  <2>2. CASE Server
    BY <1>4, <1>5, <1>6, <1>7, <2>2 DEF Server, HandlePortExit, ParentExit
  <2>3. CASE Restart
    BY <1>1, <2>3 DEF Restart
  <2>4. CASE StopApplication /\ server = "down"
    BY <1>1, <2>4 DEF StopApplication
  <2>5. CASE Program \/ StopEvent
    BY <1>1, <2>5 DEF Program, ReadFile, ReadNothing, StopEvent, erlang
  <2>6. QED
    BY <1>2, <1>3, <1>8, <1>9, <2>1, <2>2, <2>3, <2>4, <2>5 DEF Next

\* What a call waits for moves through the pipes and the mailbox, and the server
\* waits with it.
LEMMA ServerTurn ==
  ASSUME TInv, Wire, Turn, HandleCall \/ ReceiveData \/ ReceiveAny \/ HandleInfo, Serving'
  PROVE  Turn'
<1>1. /\ mailbox # <<>> /\ mailbox' = Tail(mailbox) /\ server \in {"loop", "receive"}
      /\ prog' = prog /\ handled' = handled /\ fromProg' = fromProg
  BY DEF HandleCall, ReceiveData, ReceiveAny, HandleInfo, NextIs, program
<1>2. CASE ReceiveAny
  BY <1>2 DEF ReceiveAny, Serving
<1>3. CASE ~ReceiveAny
  <2>1. Serving
    BY <1>1, <1>3 DEF HandleCall, ReceiveData, HandleInfo, Serving
  <2>2. prog' # "eof"
    BY <1>1, <2>1 DEF Turn
  <2>3. CASE HandleCall
    <3>1. server = "loop" /\ server' = "receive" /\ cur'.ref = Head(mailbox).ref
      BY <2>3 DEF HandleCall
    <3>2. Len(sent) = Len(handled) /\ NoData /\ fromProg' = <<>> /\ NoData'
      BY <1>1, <2>1, <3>1, TakeNone DEF Turn, Idle
    <3>3. CASE port = "open"
      <4>1. sent' = Append(sent, Head(mailbox).ref) /\ sent \in Seq(Refs) /\ Len(sent) \in Nat
        BY <2>3, <3>3, WireNat DEF HandleCall, TInv, TypeOK
      <4>2. Len(sent') = Len(sent) + 1 /\ sent'[Len(sent) + 1] = Head(mailbox).ref
        BY <4>1
      <4>3. Asked'
        BY <1>1, <3>1, <3>2, <4>2 DEF Asked
      <4>4. QED
        BY <2>2, <3>1, <4>3 DEF Turn
    <3>4. CASE port # "open"
      <4>1. sent' = sent
        BY <2>3, <3>4 DEF HandleCall
      <4>2. Lost'
        BY <1>1, <2>3, <3>2, <3>4, <4>1 DEF HandleCall, Lost, Idle
      <4>3. QED
        BY <2>2, <3>1, <4>2 DEF Turn
    <3>5. QED
      BY <3>3, <3>4
  <2>4. CASE ReceiveData
    <3>1. server = "receive" /\ server' = "loop" /\ sent' = sent /\ Head(mailbox).type = "data"
      BY <2>4 DEF ReceiveData, NextIs
    <3>2. Arrived
      BY <1>1, <2>1, <3>1, TakeNone DEF Turn, Asked, Responded, Lost, Idle
    <3>3. Idle'
      BY <1>1, <3>1, <3>2, TakeData DEF Arrived, Idle
    <3>4. QED
      BY <2>2, <3>1, <3>3 DEF Turn
  <2>5. CASE HandleInfo
    <3>1. server = "loop" /\ server' = "loop" /\ sent' = sent
      BY <2>5 DEF HandleInfo
    <3>2. Idle'
      BY <1>1, <2>1, <3>1, TakeNone DEF Turn, Idle
    <3>3. QED
      BY <2>2, <3>1, <3>2 DEF Turn
  <2>6. QED
    BY <1>3, <2>3, <2>4, <2>5
<1>4. QED
  BY <1>2, <1>3

LEMMA DeliverTurn ==
  ASSUME TInv, Turn, Deliver
  PROVE  Turn'
<1>1. UNCHANGED <<server, cur, swallowed, prog, handled, sent>> /\ fromProg # <<>>
      /\ mailbox' = Append(mailbox, Head(fromProg)) /\ fromProg' = Tail(fromProg)
  BY DEF Deliver, program
<1> SUFFICES ASSUME Serving
             PROVE  Turn'
  BY <1>1 DEF Turn, Serving
<1>2. server \in {"loop", "receive"}
  BY DEF Serving, TInv, TypeOK
<1>3. server = "receive" /\ Responded
  BY <1>1, <1>2 DEF Turn, Asked, Arrived, Lost, Idle
<1>4. fromProg \in Seq(Messages) /\ 1 \in 1 .. Len(fromProg)
  BY <1>3 DEF Responded, TInv, TypeOK
<1>5. /\ Head(fromProg) = fromProg[1] /\ fromProg[1] \in Messages
      /\ fromProg[1].type = "data" /\ fromProg[1].ref = cur.ref
  BY <1>1, <1>3, <1>4, ElementOfSeq, HeadTailProperties DEF Responded, TInv, Queue
<1>6. fromProg' = <<>>
  <2>1. fromProg' \in Seq(Messages) /\ Len(fromProg') = 0
    BY <1>1, <1>3, <1>4, HeadTailProperties DEF Responded
  <2>2. QED
    BY <2>1, EmptySeq
<1>7. Arrived'
  BY <1>1, <1>3, <1>5, <1>6, PutData DEF Arrived, Responded
<1>8. QED
  BY <1>1, <1>3, <1>7 DEF Turn

LEMMA ProgramTurn ==
  ASSUME TInv, Wire, Turn, Program \/ StopEvent
  PROVE  Turn'
<1>1. UNCHANGED <<mailbox, server, cur, swallowed, port, sent>> /\ prog = "running"
  BY DEF Program, ReadFile, ReadNothing, StopEvent, erlang
<1> SUFFICES ASSUME Serving
             PROVE  Turn'
  BY <1>1 DEF Turn, Serving
<1>2. /\ server \in {"loop", "receive"}
      /\ \/ Len(sent) = Len(handled)
         \/ Asked /\ server = "receive" /\ Len(sent) = Len(handled) + 1
  <2>1. server \in {"loop", "receive"}
    BY DEF Serving, TInv, TypeOK
  <2>2. CASE server = "loop"
    BY <2>2 DEF Turn, Idle
  <2>3. CASE server = "receive"
    BY <2>3 DEF Turn, Asked, Responded, Arrived, Lost, Idle
  <2>4. QED
    BY <2>1, <2>2, <2>3
<1>3. Len(buf) + Len(toProg) = 3 * (Len(sent) - Len(handled))
  BY <1>1 DEF Wire, Stream
<1>4. Len(buf) + Len(toProg) <= 3
  BY <1>2, <1>3, WireNat
<1>5. CASE StopEvent
  BY <1>1, <1>5 DEF StopEvent, Turn, Asked, Responded, Arrived, Lost, Idle, NoData, OneData, Serving
<1>6. CASE ReadNothing
  <2>1. Len(buf) = 4
    BY <1>6 DEF ReadNothing, BufWords
  <2>2. QED
    BY <1>4, <2>1, WireNat
<1>7. ASSUME NEW n \in Readable, ReadFile(n)
      PROVE  Turn'
  <2> DEFINE words == buf \o SubSeq(toProg, 1, n)
  <2>1. n \in 1 .. Len(toProg)
    BY <1>7, ReadWords
  <2>2. Asked /\ server = "receive" /\ Len(sent) = Len(handled) + 1
    <3>1. Len(toProg) >= 1
      BY <2>1, WireNat
    <3>2. Len(sent) # Len(handled)
      BY <1>3, <3>1, WireNat
    <3>3. QED
      BY <1>2, <3>2
  <2>3. NoData' /\ fromProg = <<>> /\ sent[Len(handled) + 1] = cur.ref
    BY <1>1, <2>2 DEF Asked, NoData
  <2>4. CASE IsRequest(words)
    <3>1. words[1].word = 1 /\ words[2].ref = cur.ref
      BY <1>7, <2>3, <2>4, ReadRequest
    <3>2. /\ fromProg' = Append(fromProg, DataMsg(words[2].ref, words[2].id)) /\ prog' = prog
          /\ handled' = Append(handled, words[2].ref)
      BY <1>7, <2>4, <3>1 DEF ReadFile, HandleRequest
    <3> HIDE DEF words
    <3>3. fromProg' = <<DataMsg(words[2].ref, words[2].id)>>
      BY <2>3, <3>2
    <3>4. Len(fromProg') = 1 /\ fromProg'[1].ref = cur'.ref
      BY <1>1, <3>1, <3>3 DEF DataMsg
    <3>5. Len(handled') = Len(handled) + 1
      BY <3>2 DEF TInv, TypeOK
    <3>6. Responded'
      BY <1>1, <2>2, <2>3, <3>4, <3>5 DEF Responded
    <3>7. QED
      BY <1>1, <2>2, <3>2, <3>6 DEF Turn
  <2>5. CASE ~IsRequest(words)
    <3>1. UNCHANGED <<prog, fromProg, handled>>
      BY <1>7, <2>5 DEF ReadFile
    <3>2. Asked'
      BY <1>1, <2>2, <2>3, <3>1 DEF Asked
    <3>3. QED
      BY <1>1, <2>2, <3>1, <3>2 DEF Turn
  <2>6. QED
    BY <2>4, <2>5
<1>8. QED
  BY <1>5, <1>6, <1>7 DEF Program

LEMMA NextTurn == TInv /\ Wire /\ Turn /\ [Next]_vars => Turn'
<1> SUFFICES ASSUME TInv, Wire, Turn, [Next]_vars
             PROVE  Turn'
  OBVIOUS
<1>1. CASE UNCHANGED <<mailbox, server, cur, swallowed, port, prog, fromProg, sent, handled>>
  BY <1>1 DEF Turn, Asked, Responded, Arrived, Lost, Idle, NoData, OneData, Serving
<1>2. ASSUME NEW m \in Messages, m.type # "data", mailbox' = Append(mailbox, m),
             UNCHANGED <<server, cur, swallowed, prog, fromProg, sent, handled>>,
             port' = port \/ port' # "open"
      PROVE  Turn'
  <2>1. (NoData => NoData') /\ (OneData => OneData')
    BY <1>2, PutSignal
  <2>2. QED
    BY <1>2, <2>1 DEF Turn, Asked, Responded, Arrived, Lost, Idle, Serving
<1>3. ASSUME NEW c \in Clients, NEW id \in RequestIDs, Call(c, id)
      PROVE  Turn'
  <2>1. calls + 1 \in Refs /\ id \in 0 .. 3
    BY <1>3, RequestsAssumption, BoundsAssumption DEF Call, TInv, TypeOK, Refs
  <2>2. CallMsg(c, calls + 1, id) \in Messages /\ CallMsg(c, calls + 1, id).type # "data"
    BY <2>1, MessageFacts DEF CallMsg
  <2>3. QED
    BY <1>2, <1>3, <2>2 DEF Call, program
<1>4. CASE PortEof \/ PortExit
  BY <1>2, <1>4, MessageFacts DEF PortEof, PortExit, Signal, program
<1>5. CASE StopApplication
  <2>1. CASE server = "down"
    BY <1>1, <1>5, <2>1 DEF StopApplication, program
  <2>2. CASE server # "down"
    BY <1>2, <1>5, <2>2, MessageFacts DEF StopApplication, Signal, program
  <2>3. QED
    BY <2>1, <2>2
<1>6. CASE HandleCall \/ ReceiveData \/ ReceiveAny \/ HandleInfo
  BY <1>6, ServerTurn DEF Turn
<1>7. CASE Terminate
  BY <1>7 DEF Terminate, Turn, Serving
<1>8. CASE Restart
  BY <1>8 DEF Restart, TInv, Down, Turn, Idle, NoData
<1>9. QED
  <2>1. CASE UNCHANGED vars
    BY <1>1, <2>1 DEF vars, erlang, program
  <2>2. CASE \E c \in Clients : Timeout(c)
    BY <1>1, <2>2 DEF Timeout, erlang, program
  <2>3. CASE Server
    BY <1>6, <1>7, <2>3 DEF Server, HandlePortExit, ParentExit
  <2>4. CASE Port
    BY <1>4, <2>4, DeliverTurn DEF Port
  <2>5. QED
    BY <1>3, <1>5, <1>8, <2>1, <2>2, <2>3, <2>4, ProgramTurn DEF Next

LEMMA NextAnswers == TInv /\ Fresh /\ Turn /\ Answers /\ [Next]_vars => Answers'
<1> SUFFICES ASSUME TInv, Fresh, Turn, Answers, [Next]_vars, Serving'
             PROVE  Answers'
  BY DEF Answers
<1>1. CASE UNCHANGED <<client, server, swallowed, sent>>
  BY <1>1 DEF Answers, Serving
<1>2. ASSUME NEW c \in Clients, NEW id \in RequestIDs, Call(c, id)
      PROVE  Answers'
  <2>1. Nothing.type # "data" /\ UNCHANGED <<server, swallowed, sent>>
    BY <1>2 DEF Call, Nothing, Signal
  <2>2. \A d \in Clients : client'[d] = client[d] \/ client'[d].got = Nothing
    BY <1>2 DEF Call, TInv, TypeOK
  <2>3. QED
    BY <2>1, <2>2 DEF Answers, Serving
<1>3. ASSUME NEW c \in Clients, Timeout(c)
      PROVE  Answers'
  <2>1. UNCHANGED <<server, swallowed, sent>>
    BY <1>3 DEF Timeout, erlang
  <2>2. \A d \in Clients : client'[d].got = client[d].got /\ client'[d].asked = client[d].asked
    BY <1>3 DEF Timeout, TInv, TypeOK
  <2>3. QED
    BY <2>1, <2>2 DEF Answers, Serving
<1>4. CASE HandleCall
  <2>1. /\ client' = client /\ swallowed' = swallowed /\ server = "loop" /\ mailbox # <<>>
        /\ Head(mailbox).type = "call" /\ mailbox' = Tail(mailbox)
        /\ sent' = sent \/ sent' = Append(sent, Head(mailbox).ref)
    BY <1>4 DEF HandleCall, NextIs, callers
  <2>2. Serving
    BY <2>1 DEF Serving
  <2>3. \A c \in Clients : client[c].asked # Head(mailbox).ref
    BY <2>1, TakeMail, RefNat DEF Fresh
  <2>4. sent \in Seq(Refs) /\ DOMAIN sent = 1 .. Len(sent) /\ Len(sent) \in Nat
    BY LenProperties DEF TInv, TypeOK
  <2>5. \A k \in DOMAIN sent' : (k \in DOMAIN sent /\ sent'[k] = sent[k]) \/ sent'[k] = Head(mailbox).ref
    <3>1. CASE sent' = sent
      BY <3>1
    <3>2. CASE sent' = Append(sent, Head(mailbox).ref)
      BY <2>4, <3>2
    <3>3. QED
      BY <2>1, <3>1, <3>2
  <2>6. ASSUME NEW c \in Clients, client'[c].asked \in {sent'[k] : k \in DOMAIN sent'}
        PROVE  client[c].asked \in {sent[k] : k \in DOMAIN sent}
    BY <2>1, <2>3, <2>5, <2>6
  <2>7. QED
    BY <2>1, <2>2, <2>6 DEF Answers
<1>5. CASE ReceiveData
  <2>1. /\ Reply(cur.ref, Head(mailbox)) /\ UNCHANGED <<swallowed, sent>> /\ server = "receive"
        /\ mailbox # <<>> /\ mailbox' = Tail(mailbox) /\ Head(mailbox).type = "data"
    BY <1>5 DEF ReceiveData, NextIs
  <2>2. Serving
    BY <2>1 DEF Serving
  <2>3. OneData
    BY <2>1, <2>2, TakeNone DEF Turn, Asked, Responded, Arrived, Lost, Idle
  <2>4. Head(mailbox).ref = cur.ref
    BY <2>1, <2>3, TakeData
  <2>5. \A c \in Clients : client'[c] = client[c] \/ client'[c].got.ref = client'[c].asked
    BY <2>1, <2>4, ReplyAsked
  <2>6. QED
    BY <2>1, <2>2, <2>5 DEF Answers
<1>6. CASE ReceiveAny
  BY <1>6 DEF ReceiveAny, Serving
<1>7. CASE Terminate
  BY <1>7 DEF Terminate, Serving
<1>8. CASE Restart
  <2>1. sent' = <<>>
    BY <1>8 DEF Restart, TInv, Down
  <2>2. QED
    BY <2>1 DEF Answers
<1>9. QED
  <2>1. CASE UNCHANGED vars
    BY <1>1, <2>1 DEF vars, callers, erlang
  <2>2. CASE HandleInfo
    BY <1>1, <2>2 DEF HandleInfo, callers
  <2>3. CASE Server
    BY <1>4, <1>5, <1>6, <1>7, <2>2, <2>3 DEF Server, HandlePortExit, ParentExit
  <2>4. CASE StopApplication \/ Port
    BY <1>1, <2>4 DEF StopApplication, Port, Deliver, PortEof, PortExit, callers
  <2>5. CASE Program \/ StopEvent
    BY <1>1, <2>5 DEF Program, ReadFile, ReadNothing, StopEvent, callers, erlang
  <2>6. QED
    BY <1>2, <1>3, <1>8, <2>1, <2>3, <2>4, <2>5 DEF Next

\* For any number of clients, calls, stops and restarts: while handle_call has taken
\* nothing but port data for a response, at most one request is on its way, the
\* program does not stop of a full buffer (clock.c:218 and 230), and every caller was
\* answered with the response to its own request (clock.erl:56-66).
THEOREM OwnAnswer == Spec => []OwnAnswerUnlessSwallowed
<1> DEFINE Inv == TInv /\ Wire /\ Fresh /\ Turn /\ Answers
<1>1. Init => Inv
  BY InitTInv, InitWire, InitTurn
<1>2. Inv /\ [Next]_vars => Inv'
  BY NextTInv, NextWire, NextFresh, NextTurn, NextAnswers
<1>3. Inv => OwnAnswerUnlessSwallowed
  <2> SUFFICES ASSUME Inv, Serving
               PROVE  OwnAnswerUnlessSwallowed
    BY DEF OwnAnswerUnlessSwallowed, Serving
  <2>1. Len(sent) - Len(handled) <= 1
    <3>1. server \in {"loop", "receive"}
      BY DEF Serving, TInv, TypeOK
    <3>2. Len(sent) = Len(handled) \/ Len(sent) = Len(handled) + 1
      BY <3>1 DEF Turn, Asked, Responded, Arrived, Lost, Idle
    <3>3. QED
      BY <3>2, WireNat
  <2>2. QED
    BY <2>1 DEF Turn, Answers, OwnAnswerUnlessSwallowed
<1>4. QED
  BY <1>1, <1>2, <1>3, PTL DEF Spec

--------------------------------------------------------------------------------
(* What the liveness properties rest on: nobody waits for what is lost. *)

InMailbox(t) == \E k \in 1 .. Len(mailbox) : mailbox[k].type = t
Kept(t)      == InMailbox(t) \/ t \in swallowed

\* The exit of a port that is closed waits in the queue, or was taken for a
\* response (clock.erl:63-65 and 76-77).
PortExitKept ==
  server # "down" /\ port = "closed" => Kept("EXIT")

\* The exit that clock_sup sends waits in the queue of a server that runs, or was
\* taken for a response (clock.erl:63-65, clock_sup.erl:30).
ShutdownKept ==
  sup = "stopping" => server # "down" /\ Kept("shutdown")

LEMMA PutKept ==
  ASSUME TInv, NEW m \in Messages, mailbox' = Append(mailbox, m), swallowed' = swallowed, NEW t
  PROVE  (Kept(t) => Kept(t)') /\ (m.type = t => Kept(t)')
<1>1. ASSUME InMailbox(t)
      PROVE  InMailbox(t)'
  BY <1>1, PutMail DEF InMailbox
<1>2. ASSUME m.type = t
      PROVE  InMailbox(t)'
  <2>1. Len(mailbox) + 1 \in 1 .. Len(mailbox') /\ mailbox'[Len(mailbox) + 1] = m
    BY PutMail
  <2>2. QED
    BY <1>2, <2>1 DEF InMailbox
<1>3. QED
  BY <1>1, <1>2 DEF Kept

LEMMA TakeKept ==
  ASSUME TInv, mailbox # <<>>, mailbox' = Tail(mailbox), NEW t, Kept(t),
         \/ swallowed' = swallowed /\ Head(mailbox).type # t
         \/ swallowed' = swallowed \union {Head(mailbox).type}
  PROVE  Kept(t)'
<1>1. CASE t \in swallowed \/ (Head(mailbox).type = t /\ t \in swallowed')
  BY <1>1 DEF Kept
<1>2. CASE InMailbox(t) /\ Head(mailbox).type # t
  <2>1. PICK k \in 1 .. Len(mailbox) : mailbox[k].type = t
    BY <1>2 DEF InMailbox
  <2>2. k # 1
    BY <1>2, <2>1, TakeMail
  <2>3. k - 1 \in 1 .. Len(mailbox') /\ (k - 1) + 1 = k
    BY <2>2, TakeMail
  <2>4. mailbox'[k - 1] = mailbox[k]
    BY <2>3, TakeMail
  <2>5. QED
    BY <2>1, <2>3, <2>4 DEF InMailbox, Kept
<1>3. QED
  BY <1>1, <1>2 DEF Kept

\* The server goes on and takes another message than t, or takes it for a response.
LEMMA ServerKept ==
  ASSUME TInv, HandleCall \/ ReceiveData \/ ReceiveAny \/ HandleInfo,
         NEW t \in {"EXIT", "shutdown"}, Kept(t)
  PROVE  Kept(t)'
<1>1. CASE HandleCall \/ ReceiveData \/ HandleInfo
  <2>1. /\ mailbox # <<>> /\ mailbox' = Tail(mailbox) /\ swallowed' = swallowed
        /\ Head(mailbox).type \in {"call", "data", "exit_status"}
    BY <1>1 DEF HandleCall, ReceiveData, HandleInfo, NextIs
  <2>2. QED
    BY <2>1, TakeKept
<1>2. CASE ReceiveAny
  <2>1. /\ mailbox # <<>> /\ mailbox' = Tail(mailbox)
        /\ swallowed' = swallowed \union {Head(mailbox).type}
    BY <1>2 DEF ReceiveAny
  <2>2. QED
    BY <2>1, TakeKept
<1>3. QED
  BY <1>1, <1>2

LEMMA NextKept ==
  TInv /\ PortExitKept /\ ShutdownKept /\ [Next]_vars => PortExitKept' /\ ShutdownKept'
<1> SUFFICES ASSUME TInv, PortExitKept, ShutdownKept, [Next]_vars
             PROVE  PortExitKept' /\ ShutdownKept'
  OBVIOUS
<1>1. ASSUME UNCHANGED <<server, port, sup>>, \A t \in {"EXIT", "shutdown"} : Kept(t) => Kept(t)'
      PROVE  PortExitKept' /\ ShutdownKept'
  BY <1>1 DEF PortExitKept, ShutdownKept
<1>2. CASE UNCHANGED <<server, port, sup, mailbox, swallowed>>
  BY <1>1, <1>2 DEF Kept, InMailbox
<1>3. ASSUME NEW c \in Clients, NEW id \in RequestIDs, Call(c, id)
      PROVE  PortExitKept' /\ ShutdownKept'
  <2>1. calls + 1 \in Refs /\ id \in 0 .. 3
    BY <1>3, RequestsAssumption, BoundsAssumption DEF Call, TInv, TypeOK, Refs
  <2>2. CallMsg(c, calls + 1, id) \in Messages
    BY <2>1, MessageFacts
  <2>3. /\ mailbox' = Append(mailbox, CallMsg(c, calls + 1, id))
        /\ UNCHANGED <<server, port, sup, swallowed>>
    BY <1>3 DEF Call, tree
  <2>4. QED
    BY <1>1, <2>2, <2>3, PutKept
<1>4. CASE HandleCall \/ ReceiveData \/ ReceiveAny \/ HandleInfo
  <2>1. /\ UNCHANGED <<port, sup>> /\ server # "down" /\ server' # "down"
    BY <1>4 DEF HandleCall, ReceiveData, ReceiveAny, HandleInfo, tree
  <2>2. QED
    BY <1>4, <2>1, ServerKept DEF PortExitKept, ShutdownKept
<1>5. CASE Terminate
  BY <1>5 DEF Terminate, PortExitKept, ShutdownKept
<1>6. CASE Restart
  BY <1>6 DEF Restart, PortExitKept, ShutdownKept
<1>7. CASE StopApplication
  <2>1. CASE server = "down"
    BY <1>7, <2>1 DEF StopApplication, PortExitKept, ShutdownKept
  <2>2. CASE server # "down"
    <3>1. /\ mailbox' = Append(mailbox, Signal("shutdown"))
          /\ UNCHANGED <<server, port, swallowed>>
      BY <1>7, <2>2 DEF StopApplication
    <3>2. Signal("shutdown") \in Messages /\ Signal("shutdown").type = "shutdown"
      BY MessageFacts DEF Signal
    <3>3. QED
      BY <2>2, <3>1, <3>2, PutKept DEF PortExitKept, ShutdownKept
  <2>3. QED
    BY <2>1, <2>2
<1>8. CASE Port
  <2>1. CASE Deliver
    <3>1. fromProg \in Seq(Messages) /\ fromProg # <<>>
      BY <2>1 DEF Deliver, TInv, TypeOK
    <3>2. Head(fromProg) \in Messages
      BY <3>1, HeadTailProperties
    <3>3. QED
      BY <1>1, <2>1, <3>2, PutKept DEF Deliver, tree
  <2>2. CASE PortEof
    <3>1. Signal("exit_status") \in Messages
      BY MessageFacts
    <3>2. /\ mailbox' = Append(mailbox, Signal("exit_status"))
          /\ UNCHANGED <<server, sup, swallowed>> /\ port' = "eof"
      BY <2>2 DEF PortEof, tree
    <3>3. QED
      BY <3>1, <3>2, PutKept DEF PortExitKept, ShutdownKept
  <2>3. CASE PortExit
    <3>1. Signal("EXIT") \in Messages /\ Signal("EXIT").type = "EXIT"
      BY MessageFacts DEF Signal
    <3>2. /\ mailbox' = Append(mailbox, Signal("EXIT")) /\ UNCHANGED <<server, sup, swallowed>>
      BY <2>3 DEF PortExit, tree
    <3>3. QED
      BY <3>1, <3>2, PutKept DEF PortExitKept, ShutdownKept
  <2>4. QED
    BY <1>8, <2>1, <2>2, <2>3 DEF Port
<1>9. QED
  <2>1. CASE UNCHANGED vars
    BY <1>2, <2>1 DEF vars, erlang, tree
  <2>2. CASE (\E c \in Clients : Timeout(c)) \/ Program \/ StopEvent
    BY <1>2, <2>2 DEF Timeout, Program, ReadFile, ReadNothing, StopEvent, erlang, tree
  <2>3. CASE Server
    BY <1>4, <1>5, <2>3 DEF Server, HandlePortExit, ParentExit
  <2>4. QED
    BY <1>3, <1>6, <1>7, <1>8, <2>1, <2>2, <2>3 DEF Next

LEMMA KeptAlways == Spec => [](PortExitKept /\ ShutdownKept)
<1>1. Init => PortExitKept /\ ShutdownKept
  BY DEF Init, PortExitKept, ShutdownKept
<1>2. QED
  BY TypesInvariant, <1>1, NextKept, PTL DEF Spec

\* The message that tells the server of its port's end is lost in no interleaving,
\* unless handle_call takes it for a response (clock.erl:63-65 and 76-77): the part
\* of LostPortIsReplaced that needs no fairness.
THEOREM PortExitIsKept == Spec => []PortExitKept
BY KeptAlways, PTL

\* Nor is the one by which the supervisor stops the server, and the supervisor
\* waits for no server that is gone (clock_sup.erl:30): the part of
\* ShutdownCompletes that needs no fairness.
THEOREM ShutdownIsKept == Spec => []ShutdownKept
BY KeptAlways, PTL

--------------------------------------------------------------------------------
(* A call that waits can be served. *)

Queued(r)   == \E k \in 1 .. Len(mailbox) : mailbox[k].type = "call" /\ mailbox[k].ref = r
WorkedOn(r) == server = "receive" /\ cur.ref = r

Alive(r)    == WorkedOn(r) \/ Queued(r) \/ "call" \in swallowed

\* A caller waits for the call of handle_call, or for one in the queue.
Placed ==
  \A c \in Clients : Waiting(c) => server # "down" /\ Alive(client[c].ref)

\* Somebody can go on: the server with the next message, the port with a response
\* or with the end of the program, or the program with what is in its input.
CanProceed ==
  \/ mailbox # <<>>
  \/ port = "open" /\ (fromProg # <<>> \/ prog # "running")
  \/ port = "eof"
  \/ prog = "running" /\ Readable # {}

\* As long as nothing but port data was taken for a response, no caller waits for a
\* server that is gone, and neither a caller nor the receive of handle_call waits
\* for what cannot come (clock.erl:56-66 has no after clause).
NoCallIsStuck ==
  swallowed = {} =>
    /\ \A c \in Clients : Waiting(c) => server # "down" /\ CanProceed
    /\ server = "receive" => CanProceed

LEMMA PutQueued ==
  ASSUME TInv, NEW m \in Messages, mailbox' = Append(mailbox, m), NEW r
  PROVE  (Queued(r) => Queued(r)') /\ (m.type = "call" /\ m.ref = r => Queued(r)')
<1>1. ASSUME Queued(r)
      PROVE  Queued(r)'
  BY <1>1, PutMail DEF Queued
<1>2. ASSUME m.type = "call", m.ref = r
      PROVE  Queued(r)'
  <2>1. Len(mailbox) + 1 \in 1 .. Len(mailbox') /\ mailbox'[Len(mailbox) + 1] = m
    BY PutMail
  <2>2. QED
    BY <1>2, <2>1 DEF Queued
<1>3. QED
  BY <1>1, <1>2

LEMMA TakeQueued ==
  ASSUME TInv, mailbox # <<>>, mailbox' = Tail(mailbox), NEW r, Queued(r)
  PROVE  Queued(r)' \/ (Head(mailbox).type = "call" /\ Head(mailbox).ref = r)
<1>1. PICK k \in 1 .. Len(mailbox) : mailbox[k].type = "call" /\ mailbox[k].ref = r
  BY DEF Queued
<1>2. CASE k = 1
  BY <1>1, <1>2, TakeMail
<1>3. CASE k # 1
  <2>1. k - 1 \in 1 .. Len(mailbox') /\ (k - 1) + 1 = k
    BY <1>3, TakeMail
  <2>2. mailbox'[k - 1] = mailbox[k]
    BY <2>1, TakeMail
  <2>3. QED
    BY <1>1, <2>1, <2>2 DEF Queued
<1>4. QED
  BY <1>2, <1>3

\* A reply ends the wait of those who wait for it and of no others.
LEMMA ReplyEndsWait ==
  ASSUME NEW r, NEW m, Reply(r, m), NEW c \in Clients, Waiting(c)'
  PROVE  client'[c] = client[c] /\ client[c].ref # r /\ Waiting(c)
<1>1. CASE client[c].ref = r
  <2>1. client'[c].ref = 0
    BY <1>1 DEF Reply
  <2>2. QED
    BY <2>1 DEF Waiting
<1>2. CASE client[c].ref # r
  <2>1. client'[c] = client[c]
    BY <1>2 DEF Reply
  <2>2. QED
    BY <1>2, <2>1 DEF Waiting
<1>3. QED
  BY <1>1, <1>2

\* Placed, call by call.
LEMMA PlacedNow ==
  ASSUME Placed, NEW c \in Clients, Waiting(c)
  PROVE  server # "down" /\ \E r : r = client[c].ref /\ Alive(r)
BY DEF Placed

LEMMA PlacedNext ==
  ASSUME server' # "down",
         \A c \in Clients : Waiting(c)' => \E r : r = client'[c].ref /\ Alive(r)'
  PROVE  Placed'
<1> SUFFICES ASSUME NEW c \in Clients, Waiting(c)'
             PROVE  server' # "down" /\ Alive(client[c].ref)'
  BY DEF Placed
<1>1. PICK r : r = client'[c].ref /\ Alive(r)'
  OBVIOUS
<1>2. QED
  BY <1>1 DEF Alive, WorkedOn, Queued

LEMMA ServerPlaced ==
  ASSUME TInv, Placed, HandleCall \/ ReceiveData \/ ReceiveAny \/ HandleInfo
  PROVE  Placed'
<1>1. mailbox # <<>> /\ mailbox' = Tail(mailbox)
  BY DEF HandleCall, ReceiveData, ReceiveAny, HandleInfo, NextIs
<1>2. server' # "down" /\ ("call" \in swallowed => "call" \in swallowed')
  BY DEF HandleCall, ReceiveData, ReceiveAny, HandleInfo
<1>3. ASSUME NEW c \in Clients, Waiting(c)'
      PROVE  \E r : r = client'[c].ref /\ Alive(r)'
  <2>1. client'[c] = client[c] /\ Waiting(c)
    <3>1. CASE HandleCall \/ HandleInfo
      BY <1>3, <3>1 DEF HandleCall, HandleInfo, callers, Waiting
    <3>2. CASE ReceiveData \/ ReceiveAny
      BY <1>3, <3>2, ReplyEndsWait DEF ReceiveData, ReceiveAny
    <3>3. QED
      BY <3>1, <3>2
  <2>2. PICK r : r = client[c].ref /\ Alive(r)
    BY <2>1, PlacedNow
  <2>3. CASE WorkedOn(r)
    <3>1. ReceiveData \/ ReceiveAny
      BY <2>3 DEF WorkedOn, HandleCall, HandleInfo
    <3>2. client[c].ref # cur.ref
      BY <1>3, <3>1, ReplyEndsWait DEF ReceiveData, ReceiveAny
    <3>3. QED
      BY <2>2, <2>3, <3>2 DEF WorkedOn
  <2>4. CASE Queued(r) /\ ~Queued(r)'
    <3>1. Head(mailbox).type = "call" /\ Head(mailbox).ref = r
      BY <1>1, <2>4, TakeQueued
    <3>2. ASSUME HandleCall PROVE Alive(r)'
      <4>1. server' = "receive" /\ cur'.ref = Head(mailbox).ref
        BY <3>2 DEF HandleCall
      <4>2. WorkedOn(r)'
        BY <3>1, <4>1 DEF WorkedOn
      <4>3. QED
        BY <4>2 DEF Alive
    <3>3. ASSUME ReceiveAny PROVE Alive(r)'
      <4>1. "call" \in swallowed'
        BY <3>1, <3>3 DEF ReceiveAny
      <4>2. QED
        BY <4>1 DEF Alive
    <3>4. ~ReceiveData /\ ~HandleInfo
      BY <3>1 DEF ReceiveData, HandleInfo, NextIs
    <3>5. Alive(r)'
      BY <3>2, <3>3, <3>4
    <3>6. QED
      BY <2>1, <2>2, <3>5
  <2>5. CASE Queued(r)' \/ "call" \in swallowed
    BY <1>2, <2>1, <2>2, <2>5 DEF Alive
  <2>6. QED
    BY <2>2, <2>3, <2>4, <2>5 DEF Alive
<1>4. QED
  BY <1>2, <1>3, PlacedNext

LEMMA NextPlaced == TInv /\ Placed /\ [Next]_vars => Placed'
<1> SUFFICES ASSUME TInv, Placed, [Next]_vars
             PROVE  Placed'
  OBVIOUS
<1>1. ASSUME UNCHANGED <<server, cur, swallowed>>,
             \A c \in Clients : Waiting(c)' => client'[c].ref = client[c].ref,
             \A r : Queued(r) => Queued(r)'
      PROVE  Placed'
  <2>1. CASE \E c \in Clients : Waiting(c)'
    <3>1. server' # "down"
      BY <1>1, <2>1 DEF Placed, Waiting
    <3>2. ASSUME NEW c \in Clients, Waiting(c)'
          PROVE  \E r : r = client'[c].ref /\ Alive(r)'
      <4>1. client'[c].ref = client[c].ref /\ Waiting(c)
        BY <1>1, <3>2 DEF Waiting
      <4>2. PICK r : r = client[c].ref /\ Alive(r)
        BY <4>1, PlacedNow
      <4>3. Alive(r)'
        BY <1>1, <4>2 DEF Alive, WorkedOn
      <4>4. QED
        BY <4>1, <4>2, <4>3
    <3>3. QED
      BY <3>1, <3>2, PlacedNext
  <2>2. QED
    BY <2>1 DEF Placed
<1>2. CASE UNCHANGED <<client, server, cur, swallowed, mailbox>>
  BY <1>1, <1>2 DEF Queued
<1>3. ASSUME NEW m \in Messages, mailbox' = Append(mailbox, m),
             UNCHANGED <<client, server, cur, swallowed>>
      PROVE  Placed'
  BY <1>1, <1>3, PutQueued
<1>4. ASSUME NEW d \in Clients, NEW id \in RequestIDs, Call(d, id)
      PROVE  Placed'
  <2> DEFINE m == CallMsg(d, calls + 1, id)
  <2>1. calls + 1 \in Refs /\ id \in 0 .. 3
    BY <1>4, RequestsAssumption, BoundsAssumption DEF Call, TInv, TypeOK, Refs
  <2>2. m \in Messages /\ m.type = "call" /\ m.ref = calls + 1
    BY <2>1, MessageFacts DEF CallMsg
  <2>3. /\ mailbox' = Append(mailbox, m) /\ UNCHANGED <<server, cur, swallowed>>
        /\ server # "down"
    BY <1>4 DEF Call
  <2> HIDE DEF m
  <2>4. /\ client'[d].ref = calls + 1
        /\ \A c \in Clients : c # d => client'[c] = client[c]
    BY <1>4 DEF Call, TInv, TypeOK
  <2>5. PICK r : r = calls + 1
    OBVIOUS
  <2>6. r = client'[d].ref /\ Alive(r)'
    BY <2>2, <2>3, <2>4, <2>5, PutQueued DEF Alive
  <2>7. ASSUME NEW c \in Clients, c # d, Waiting(c)'
        PROVE  \E q : q = client'[c].ref /\ Alive(q)'
    <3>1. client'[c] = client[c] /\ Waiting(c)
      BY <2>4, <2>7 DEF Waiting
    <3>2. PICK q : q = client[c].ref /\ Alive(q)
      BY <3>1, PlacedNow
    <3>3. Alive(q)'
      BY <2>2, <2>3, <3>2, PutQueued DEF Alive, WorkedOn
    <3>4. QED
      BY <3>1, <3>2, <3>3
  <2>8. QED
    BY <2>3, <2>6, <2>7, PlacedNext
<1>5. ASSUME NEW d \in Clients, Timeout(d)
      PROVE  Placed'
  <2>1. \A c \in Clients : Waiting(c)' => client'[c].ref = client[c].ref
    BY <1>5 DEF Timeout, Waiting, TInv, TypeOK
  <2>2. UNCHANGED <<server, cur, swallowed, mailbox>>
    BY <1>5 DEF Timeout, erlang
  <2>3. QED
    BY <1>1, <2>1, <2>2 DEF Queued
<1>6. CASE Terminate
  BY <1>6 DEF Terminate, Placed, Waiting, TInv, TypeOK
<1>7. CASE Restart
  <2>1. client' = client /\ server = "down"
    BY <1>7 DEF Restart, callers
  <2>2. QED
    BY <2>1 DEF Placed, Waiting
<1>8. CASE StopApplication
  <2>1. Signal("shutdown") \in Messages
    BY MessageFacts
  <2>2. QED
    BY <1>2, <1>3, <1>8, <2>1 DEF StopApplication, callers
<1>9. CASE Port
  <2>1. Signal("exit_status") \in Messages /\ Signal("EXIT") \in Messages
    BY MessageFacts
  <2>2. CASE Deliver
    <3>1. fromProg \in Seq(Messages) /\ fromProg # <<>>
      BY <2>2 DEF Deliver, TInv, TypeOK
    <3>2. Head(fromProg) \in Messages
      BY <3>1, HeadTailProperties
    <3>3. QED
      BY <1>3, <2>2, <3>2 DEF Deliver, callers
  <2>3. QED
    BY <1>3, <1>9, <2>1, <2>2 DEF Port, PortEof, PortExit, callers
<1>10. QED
  <2>1. CASE UNCHANGED vars
    BY <1>2, <2>1 DEF vars, callers, erlang
  <2>2. CASE Program \/ StopEvent
    BY <1>2, <2>2 DEF Program, ReadFile, ReadNothing, StopEvent, callers, erlang
  <2>3. CASE Server
    BY <1>6, <2>3, ServerPlaced DEF Server, HandlePortExit, ParentExit
  <2>4. QED
    BY <1>4, <1>5, <1>7, <1>8, <1>9, <2>1, <2>2, <2>3 DEF Next

\* The buffer never holds a whole request that is not handled.
Handled == Len(buf) # 3

LEMMA NextHandled == TInv /\ Handled /\ [Next]_vars => Handled'
<1> SUFFICES ASSUME TInv, Handled, [Next]_vars
             PROVE  Handled'
  OBVIOUS
<1>1. ASSUME NEW n \in Readable, ReadFile(n)
      PROVE  Handled'
  <2> DEFINE words == buf \o SubSeq(toProg, 1, n)
  <2>1. buf' = <<>> \/ (buf' = words /\ Len(words) # 3)
    BY <1>1 DEF ReadFile, IsRequest
  <2> HIDE DEF words
  <2>2. Len(buf') # 3
    <3>1. CASE buf' = <<>>
      BY <3>1
    <3>2. QED
      BY <2>1, <3>1
  <2>3. QED
    BY <2>2 DEF Handled
<1>2. CASE Terminate
  BY <1>2 DEF Terminate, Handled
<1>3. CASE UNCHANGED buf
  BY <1>3 DEF Handled
<1>4. QED
  BY <1>1, <1>2, <1>3
  DEF Next, Call, Timeout, Server, HandleCall, ReceiveData, ReceiveAny, HandleInfo,
      HandlePortExit, ParentExit, Restart, StopApplication, Port, Deliver, PortEof,
      PortExit, Program, ReadNothing, StopEvent, program, vars

\* While nothing but port data was taken for a response, a call that waits is in
\* the queue or worked on, its request is with the program or its response on its
\* way back, and if the port is gone its exit is on its way instead: EveryCallEnds
\* is a matter of fairness alone.
THEOREM CallsProceed == Spec => []NoCallIsStuck
<1>1. Init => Placed /\ Handled /\ Turn
  BY InitTurn DEF Init, Placed, Waiting, Handled
<1>2. TInv /\ Wire /\ Turn /\ PortExitKept /\ Placed /\ Handled => NoCallIsStuck
  <2> SUFFICES ASSUME TInv, Wire, Turn, PortExitKept, Placed, Handled, swallowed = {}
               PROVE  NoCallIsStuck
    BY DEF NoCallIsStuck
  <2>1. ASSUME server = "receive"
        PROVE  CanProceed
    <3>1. Asked \/ Responded \/ Arrived \/ Lost
      BY <2>1 DEF Turn, Serving
    <3>2. CASE port = "closed"
      <4>1. InMailbox("EXIT")
        BY <2>1, <3>2 DEF PortExitKept, Kept
      <4>2. mailbox # <<>>
        BY <4>1 DEF InMailbox
      <4>3. QED
        BY <4>2 DEF CanProceed
    <3>3. CASE port = "open"
      <4>1. CASE Arrived
        <5>1. mailbox # <<>>
          BY <4>1 DEF Arrived, OneData
        <5>2. QED
          BY <5>1 DEF CanProceed
      <4>2. CASE Responded
        <5>1. fromProg # <<>>
          BY <4>2 DEF Responded
        <5>2. QED
          BY <3>3, <5>1 DEF CanProceed
      <4>3. CASE Asked /\ prog = "running"
        <5>1. Len(buf) + Len(toProg) = 3 /\ Len(buf) \in Nat /\ Len(toProg) \in Nat
          <6>1. Len(sent) = Len(handled) + 1
            BY <4>3 DEF Asked
          <6>2. Len(buf) + Len(toProg) = 3 * (Len(sent) - Len(handled))
            BY <4>3 DEF Wire, Stream
          <6>3. QED
            BY <6>1, <6>2, WireNat
        <5>2. Len(buf) # 3
          BY DEF Handled
        <5>3. 1 \in 1 .. BufWords /\ 1 <= Len(toProg) /\ 1 <= BufWords - Len(buf)
          <6>1. \A a, b \in Nat : a + b = 3 /\ a # 3 => 1 <= b /\ 1 <= 4 - a
            OBVIOUS
          <6>2. QED
            <7>1. 1 <= Len(toProg) /\ 1 <= 4 - Len(buf)
              BY <5>1, <5>2, <6>1
            <7>2. BufWords = 4
              BY DEF BufWords
            <7>3. QED
              BY <7>1, <7>2
        <5>4. 1 \in Readable
          BY <5>3 DEF Readable
        <5>5. QED
          BY <4>3, <5>4 DEF CanProceed
      <4>4. CASE prog # "running"
        BY <3>3, <4>4 DEF CanProceed
      <4>5. QED
        BY <3>1, <3>3, <4>1, <4>2, <4>3, <4>4 DEF Lost
    <3>4. CASE port = "eof"
      BY <3>4 DEF CanProceed
    <3>5. QED
      BY <3>2, <3>3, <3>4 DEF TInv, TypeOK
  <2>2. ASSUME NEW c \in Clients, Waiting(c)
        PROVE  server # "down" /\ CanProceed
    <3>1. server # "down" /\ (WorkedOn(client[c].ref) \/ Queued(client[c].ref))
      BY <2>2 DEF Placed, Alive
    <3>2. CASE WorkedOn(client[c].ref)
      BY <2>1, <3>1, <3>2 DEF WorkedOn
    <3>3. CASE Queued(client[c].ref)
      <4>1. mailbox # <<>>
        BY <3>3 DEF Queued
      <4>2. QED
        BY <3>1, <4>1 DEF CanProceed
    <3>4. QED
      BY <3>1, <3>2, <3>3
  <2>3. QED
    BY <2>1, <2>2 DEF NoCallIsStuck
<1>3. Spec => [](TInv /\ Wire)
  BY InitTInv, NextTInv, InitWire, NextWire, PTL DEF Spec
<1>4. Spec => [](Turn /\ Placed /\ Handled)
  BY <1>1, <1>3, NextTurn, NextPlaced, NextHandled, PTL DEF Spec
<1>5. QED
  BY <1>2, <1>3, <1>4, KeptAlways, PTL

================================================================================
