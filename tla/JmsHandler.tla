------------------------------- MODULE JmsHandler -------------------------------
(***************************************************************************)
(* The message queues of spring/jms/converter:                             *)
(* ProtobufMessageListenerDelegate and MultipleMessageHandler.  The JMS    *)
(* listener thread puts messages in, any thread takes them out with pop,   *)
(* which waits five seconds at most.  A synchronized block is one action;  *)
(* wait splits pop in two.                                                 *)
(***************************************************************************)
EXTENDS Naturals, Sequences, FiniteSets

CONSTANTS
  Poppers,         \* the threads that call pop
  HonoursDiscard,  \* MultipleMessageHandler tests its discard flag
  EmptyResult,     \* what pop yields on an empty queue: "null" (poll), or
                   \* "NoSuchElement" (remove)
  MaxMsg,          \* bound: messages that arrive
  MaxPops          \* bound: calls of pop

ASSUME PoppersAssumption == IsFiniteSet(Poppers)
ASSUME ClassAssumption ==
  HonoursDiscard \in BOOLEAN /\ EmptyResult \in {"null", "NoSuchElement"}
ASSUME BoundsAssumption == MaxMsg \in Nat /\ MaxPops \in Nat

VARIABLES
  messages,  \* the queue
  arrived,   \* how many messages the listener has received
  listener,  \* the message handleMessage is working on (0: none)
  discard,   \* every value the discard field was given
  at,        \* per popper: "idle", in the wait set, or on its way out of it
  result,    \* per popper: how its last pop ended
  pops,      \* how many pops were begun
  popped,    \* history: the messages taken, in the order of the monitor
  dropped    \* history: the messages discarded

feed == <<arrived, listener, discard, dropped>>
vars == <<messages, feed, at, result, pops, popped>>

Waiting  == {p \in Poppers : at[p] = "waiting"}
Notified == {p \in Poppers : at[p] = "notified"}

--------------------------------------------------------------------------------
(* The listener thread. *)

\* The container calls handleMessage, for one message at a time.
Receive ==
  /\ listener = 0
  /\ arrived < MaxMsg
  /\ arrived' = arrived + 1
  /\ listener' = arrived + 1
  /\ UNCHANGED <<messages, discard, at, result, pops, popped, dropped>>

\* A notify that goes to a thread that is on its way already.
NotifyAgain ==
  IF Notified # {} \/ Waiting = {}
  THEN UNCHANGED at
  ELSE \E p \in Waiting : at' = [at EXCEPT ![p] = "notified"]

\* notify: some thread leaves the wait set, if there is one.
Notify ==
  IF Waiting = {}
  THEN UNCHANGED at
  ELSE \E p \in Waiting : at' = [at EXCEPT ![p] = "notified"]

\* The flag is read outside the monitor and is not volatile: the listener may see
\* any value it was ever given.
Discard ==
  /\ listener # 0
  /\ HonoursDiscard
  /\ TRUE \in discard
  /\ dropped' = dropped \union {listener}
  /\ listener' = 0
  /\ UNCHANGED <<messages, arrived, discard, at, result, pops, popped>>

Add ==
  /\ listener # 0
  /\ HonoursDiscard => FALSE \in discard
  /\ messages' = Append(messages, listener)
  /\ Notify
  /\ listener' = 0
  /\ UNCHANGED <<arrived, discard, result, pops, popped, dropped>>

SetDiscard(b) ==
  /\ discard' = discard \union {b}
  /\ UNCHANGED <<messages, arrived, listener, at, result, pops, popped, dropped>>

--------------------------------------------------------------------------------
(* pop. *)

\* A removal that leaves the message where it is ("peek").
TakePeek(p) ==
  /\ at' = [at EXCEPT ![p] = "idle"]
  /\ IF messages = <<>>
     THEN /\ result' = [result EXCEPT ![p] = EmptyResult]
          /\ UNCHANGED <<messages, popped>>
     ELSE /\ result' = [result EXCEPT ![p] = "message"]
          /\ popped' = Append(popped, Head(messages))
          /\ UNCHANGED messages

\* "return messages.remove()", "return messages.poll()".
Take(p) ==
  /\ at' = [at EXCEPT ![p] = "idle"]
  /\ IF messages = <<>>
     THEN /\ result' = [result EXCEPT ![p] = EmptyResult]
          /\ UNCHANGED <<messages, popped>>
     ELSE /\ result' = [result EXCEPT ![p] = "message"]
          /\ popped' = Append(popped, Head(messages))
          /\ messages' = Tail(messages)

PopAtOnce(p) ==
  /\ at[p] = "idle"
  /\ pops < MaxPops
  /\ pops' = pops + 1
  /\ messages # <<>>
  /\ Take(p)
  /\ UNCHANGED feed

PopWaits(p) ==
  /\ at[p] = "idle"
  /\ pops < MaxPops
  /\ pops' = pops + 1
  /\ messages = <<>>
  /\ at' = [at EXCEPT ![p] = "waiting"]
  /\ UNCHANGED <<messages, feed, result, popped>>

\* A wait without a limit.
ExpireNever(p) == at[p] = "expired" /\ UNCHANGED vars

\* The five seconds are over, or the thread wakes up for no reason.
Expire(p) ==
  /\ at[p] = "waiting"
  /\ at' = [at EXCEPT ![p] = "expired"]
  /\ UNCHANGED <<messages, feed, result, pops, popped>>

\* InterruptedException leaves pop.
Interrupt(p) ==
  /\ at[p] = "waiting"
  /\ at' = [at EXCEPT ![p] = "idle"]
  /\ result' = [result EXCEPT ![p] = "interrupted"]
  /\ UNCHANGED <<messages, feed, pops, popped>>

\* wait returns with the monitor: "if", not "while", so the queue is not looked
\* at again before the removal.
Resume(p) ==
  /\ at[p] \in {"notified", "expired"}
  /\ Take(p)
  /\ UNCHANGED <<feed, pops>>

Pop(p) == PopAtOnce(p) \/ PopWaits(p) \/ Expire(p) \/ Interrupt(p) \/ Resume(p)

--------------------------------------------------------------------------------
Init ==
  /\ messages = <<>>
  /\ arrived = 0
  /\ listener = 0
  /\ discard = {TRUE}
  /\ at = [p \in Poppers |-> "idle"]
  /\ result = [p \in Poppers |-> "none"]
  /\ pops = 0
  /\ popped = <<>>
  /\ dropped = {}

Next ==
  \/ Receive \/ Discard \/ Add
  \/ \E b \in BOOLEAN : SetDiscard(b)
  \/ \E p \in Poppers : Pop(p)

Spec == Init /\ [][Next]_vars

\* Threads that can run do; wait's limit passes.  Nobody has to send, to call
\* pop or to interrupt.
FairSpec ==
  /\ Spec
  /\ WF_vars(Discard \/ Add)
  /\ \A p \in Poppers : WF_vars(Resume(p)) /\ WF_vars(Expire(p))

--------------------------------------------------------------------------------
Msgs == 1 .. MaxMsg

TypeOK ==
  /\ messages \in Seq(Msgs)
  /\ arrived \in 0 .. MaxMsg
  /\ listener \in 0 .. MaxMsg
  /\ discard \subseteq BOOLEAN
  /\ at \in [Poppers -> {"idle", "waiting", "notified", "expired"}]
  /\ result \in [Poppers -> {"none", "message", "null", "NoSuchElement", "interrupted"}]
  /\ pops \in 0 .. MaxPops
  /\ popped \in Seq(Msgs)
  /\ dropped \subseteq Msgs

\* No wakeup is lost: as long as a thread waits, there is for every message in
\* the queue a thread that was notified and will take one, whatever threads
\* time out, are interrupted or come in between (handleMessage's notify and
\* pop's isEmpty are in the same monitor).
NoLostWakeup ==
  Waiting # {} => Len(messages) <= Cardinality(Notified)

Elements(s) == {s[k] : k \in DOMAIN s}

\* Every message is in one place, and messages leave the queue in the order they
\* came, however many threads take them.
EveryMessageOnce ==
  LET all == popped \o messages
  IN  /\ \A j, k \in DOMAIN all : j < k => all[j] < all[k]
      /\ Elements(all) \union dropped \union ({listener} \ {0}) = 1 .. arrived
      /\ Elements(all) \intersect dropped = {}
      /\ listener \notin Elements(all) \union dropped

\* A message that meets a waiting thread is taken, without the help of wait's limit.
MessageMeetsWaiter ==
  \A m \in Msgs :
    m \in Elements(messages) /\ Waiting # {} ~> m \notin Elements(messages)

\* pop does not block for ever.
PopReturns ==
  \A p \in Poppers : at[p] # "idle" ~> at[p] = "idle"
================================================================================
