---------------------------- MODULE JmsHandlerProofs ----------------------------
(***************************************************************************)
(* The queues of JmsHandler lose no wakeup and no message, and serve who   *)
(* waits in order, for every set of threads, both classes and every number *)
(* of messages.                                                            *)
(***************************************************************************)
EXTENDS JmsHandler, FiniteSetTheorems, SequenceTheorems, TLAPS

\* The wait set and the threads on their way out of it are finite.
LEMMA NotifiedFinite ==
  /\ IsFiniteSet(Notified)
  /\ Cardinality(Notified) \in Nat
<1>1. Notified \subseteq Poppers
  BY DEF Notified
<1>2. QED
  BY <1>1, PoppersAssumption, FS_Subset, FS_CardinalityType

LEMMA InitTypeOK == Init => TypeOK
BY BoundsAssumption DEF Init, TypeOK, Msgs

\* What a removal does to the queue and to the variables it sets.
LEMMA TakeTypeOK ==
  ASSUME TypeOK, NEW p \in Poppers, Take(p)
  PROVE  /\ messages' \in Seq(Msgs)
         /\ at' \in [Poppers -> {"idle", "waiting", "notified", "expired"}]
         /\ result' \in [Poppers -> {"none", "message", "null", "NoSuchElement", "interrupted"}]
         /\ popped' \in Seq(Msgs)
<1> USE DEF TypeOK, Take
<1>1. CASE messages = <<>>
  BY <1>1, ClassAssumption
<1>2. CASE messages # <<>>
  <2>1. Head(messages) \in Msgs /\ Tail(messages) \in Seq(Msgs)
    BY <1>2
  <2>2. messages' = Tail(messages) /\ popped' = Append(popped, Head(messages))
    BY <1>2
  <2>3. Append(popped, Head(messages)) \in Seq(Msgs)
    BY <2>1
  <2>4. QED
    BY <1>2, <2>1, <2>2, <2>3
<1>3. QED
  BY <1>1, <1>2

LEMMA NotifyTypeOK ==
  ASSUME TypeOK, Notify
  PROVE  at' \in [Poppers -> {"idle", "waiting", "notified", "expired"}]
<1>1. CASE Waiting = {}
  BY <1>1 DEF TypeOK, Notify
<1>2. CASE Waiting # {}
  BY <1>2 DEF TypeOK, Notify, Waiting
<1>3. QED
  BY <1>1, <1>2

LEMMA NextTypeOK == TypeOK /\ [Next]_vars => TypeOK'
<1> SUFFICES ASSUME TypeOK, [Next]_vars
             PROVE  TypeOK'
  OBVIOUS
<1> USE BoundsAssumption DEF Msgs
<1>1. CASE Receive
  BY <1>1 DEF TypeOK, Receive
<1>2. CASE Discard
  BY <1>2 DEF TypeOK, Discard
<1>3. CASE Add
  <2>1. messages' \in Seq(Msgs)
    BY <1>3 DEF TypeOK, Add
  <2>2. QED
    BY <1>3, <2>1, NotifyTypeOK DEF TypeOK, Add
<1>4. ASSUME NEW b \in BOOLEAN, SetDiscard(b)
      PROVE  TypeOK'
  BY <1>4 DEF TypeOK, SetDiscard
<1>5. ASSUME NEW p \in Poppers, Pop(p)
      PROVE  TypeOK'
  <2>1. CASE PopAtOnce(p)
    <3>1. Take(p) /\ UNCHANGED feed /\ pops' \in 0 .. MaxPops
      BY <2>1 DEF PopAtOnce, TypeOK
    <3>2. QED
      BY <3>1, TakeTypeOK DEF feed, TypeOK
  <2>2. CASE PopWaits(p)
    BY <2>2 DEF TypeOK, PopWaits, feed
  <2>3. CASE Expire(p)
    BY <2>3 DEF TypeOK, Expire, feed
  <2>4. CASE Interrupt(p)
    BY <2>4 DEF TypeOK, Interrupt, feed
  <2>5. CASE Resume(p)
    BY <2>5, TakeTypeOK DEF TypeOK, Resume, feed
  <2>6. QED
    BY <1>5, <2>1, <2>2, <2>3, <2>4, <2>5 DEF Pop
<1>6. CASE UNCHANGED vars
  BY <1>6 DEF TypeOK, vars, feed
<1>7. QED
  BY <1>1, <1>2, <1>3, <1>4, <1>5, <1>6 DEF Next

\* The variables keep their types: every removal finds its queue well-formed and
\* every thread is in one place.
THEOREM TypeCorrect == Spec => []TypeOK
BY InitTypeOK, NextTypeOK, PTL DEF Spec

--------------------------------------------------------------------------------
\* notify moves one waiting thread, if there is one, to those on their way.
LEMMA NotifyCounts ==
  ASSUME TypeOK, Notify, Waiting # {}
  PROVE  Cardinality(Notified') = Cardinality(Notified) + 1
<1>1. PICK p \in Waiting : at' = [at EXCEPT ![p] = "notified"]
  BY DEF Notify
<1>2. p \in Poppers /\ p \notin Notified
  BY DEF Waiting, Notified
<1>3. Notified' = Notified \union {p}
  BY <1>1, <1>2 DEF Notified, TypeOK
<1>4. QED
  BY <1>2, <1>3, NotifiedFinite, FS_AddElement

\* A thread that leaves for good takes itself off the notified ones only.
LEMMA ResumeCounts ==
  ASSUME TypeOK, NEW p \in Poppers, Resume(p)
  PROVE  /\ Waiting' = Waiting
         /\ Cardinality(Notified') \in Nat
         /\ Cardinality(Notified') >= Cardinality(Notified) - 1
<1>1. at[p] # "waiting" /\ at' = [at EXCEPT ![p] = "idle"]
  BY DEF Resume, Take
<1>2. Waiting' = Waiting
  BY <1>1 DEF Waiting, TypeOK
<1>3. Notified' = Notified \ {p}
  BY <1>1 DEF Notified, TypeOK
<1>4. CASE p \in Notified
  <2>1. Cardinality(Notified \ {p}) = Cardinality(Notified) - 1
    BY <1>4, NotifiedFinite, FS_RemoveElement
  <2>2. IsFiniteSet(Notified \ {p})
    BY NotifiedFinite, FS_Subset
  <2>3. QED
    BY <1>2, <1>3, <2>1, <2>2, NotifiedFinite, FS_CardinalityType
<1>5. CASE p \notin Notified
  <2>1. Notified' = Notified
    BY <1>3, <1>5
  <2>2. QED
    BY <1>2, <2>1, NotifiedFinite
<1>6. QED
  BY <1>4, <1>5

\* A removal leaves the queue shorter, or empty.
LEMMA TakeShortens ==
  ASSUME TypeOK, NEW p \in Poppers, Take(p)
  PROVE  \/ Len(messages') = 0
         \/ Len(messages') = Len(messages) - 1
BY DEF TypeOK, Take

LEMMA NextNoLostWakeup ==
  TypeOK /\ NoLostWakeup /\ [Next]_vars => NoLostWakeup'
<1> SUFFICES ASSUME TypeOK, NoLostWakeup, [Next]_vars, Waiting' # {}
             PROVE  Len(messages') <= Cardinality(Notified')
  BY DEF NoLostWakeup
<1> USE DEF NoLostWakeup
<1>n. Cardinality(Notified) \in Nat /\ Len(messages) \in Nat
  BY NotifiedFinite DEF TypeOK
<1>1. CASE UNCHANGED <<messages, at>>
  <2>1. Waiting' = Waiting /\ Notified' = Notified
    BY <1>1 DEF Waiting, Notified
  <2>2. QED
    BY <1>1, <2>1
<1>2. CASE Add
  <2>1. Waiting # {}
    BY <1>2 DEF Add, Notify, Waiting
  <2>2. Len(messages') = Len(messages) + 1
    BY <1>2 DEF Add, TypeOK
  <2>3. Cardinality(Notified') = Cardinality(Notified) + 1
    BY <1>2, <2>1, NotifyCounts DEF Add
  <2>4. QED
    BY <1>n, <2>1, <2>2, <2>3
<1>3. ASSUME NEW p \in Poppers, PopAtOnce(p)
      PROVE  Len(messages') <= Cardinality(Notified')
  <2>1. at[p] = "idle" /\ at' = [at EXCEPT ![p] = "idle"]
    BY <1>3 DEF PopAtOnce, Take
  <2>2. Waiting' = Waiting /\ Notified' = Notified
    BY <2>1 DEF Waiting, Notified, TypeOK
  <2>3. Len(messages') = 0 \/ Len(messages') = Len(messages) - 1
    BY <1>3, TakeShortens DEF PopAtOnce
  <2>4. QED
    BY <1>n, <2>2, <2>3
<1>4. ASSUME NEW p \in Poppers, PopWaits(p)
      PROVE  Len(messages') <= Cardinality(Notified')
  <2>1. Len(messages') = 0
    BY <1>4 DEF PopWaits
  <2>2. Notified' = Notified
    BY <1>4 DEF PopWaits, Notified, TypeOK
  <2>3. QED
    BY <1>n, <2>1, <2>2
<1>5. ASSUME NEW p \in Poppers, Expire(p) \/ Interrupt(p)
      PROVE  Len(messages') <= Cardinality(Notified')
  <2>1. at[p] = "waiting" /\ messages' = messages
    BY <1>5 DEF Expire, Interrupt
  <2>2. Waiting # {} /\ Notified' = Notified
    BY <1>5, <2>1 DEF Expire, Interrupt, Waiting, Notified, TypeOK
  <2>3. QED
    BY <2>1, <2>2
<1>6. ASSUME NEW p \in Poppers, Resume(p)
      PROVE  Len(messages') <= Cardinality(Notified')
  <2>1. Len(messages') = 0 \/ Len(messages') = Len(messages) - 1
    BY <1>6, TakeShortens DEF Resume
  <2>2. QED
    BY <1>n, <1>6, <2>1, ResumeCounts
<1>7. QED
  BY <1>1, <1>2, <1>3, <1>4, <1>5, <1>6
  DEF Next, Pop, vars, Receive, Discard, SetDiscard

\* While a thread waits, every message in the queue has a notified thread that
\* will take one: handleMessage and pop lose no wakeup, whichever threads time
\* out, are interrupted or overtake each other.
THEOREM WakeupsAreKept == Spec => []NoLostWakeup
<1>1. Init => NoLostWakeup
  <2> SUFFICES ASSUME Init PROVE NoLostWakeup
    OBVIOUS
  <2>1. Waiting = {}
    BY DEF Init, Waiting
  <2>2. QED
    BY <2>1 DEF NoLostWakeup
<1>2. QED
  BY <1>1, InitTypeOK, NextTypeOK, NextNoLostWakeup, PTL DEF Spec

--------------------------------------------------------------------------------
\* Everything that was ever in the queue, in order.
All == popped \o messages

\* The listener works on the message that came last.
ListenerIsLast == listener \in {0, arrived}

\* Moving the head of one sequence to the end of another keeps the whole.
LEMMA MoveHead ==
  ASSUME NEW S, NEW s \in Seq(S), NEW t \in Seq(S), t # <<>>
  PROVE  Append(s, Head(t)) \o Tail(t) = s \o t
<1>1. Head(t) \in S /\ Tail(t) \in Seq(S) /\ <<Head(t)>> \in Seq(S)
  OBVIOUS
<1>2. <<Head(t)>> \o Tail(t) = t
  OBVIOUS
<1>3. Append(s, Head(t)) = s \o <<Head(t)>>
  BY <1>1, AppendIsConcat
<1>4. (s \o <<Head(t)>>) \o Tail(t) = s \o (<<Head(t)>> \o Tail(t))
  BY <1>1, ConcatAssociative
<1>5. QED
  BY <1>2, <1>3, <1>4

LEMMA TakeKeepsAll ==
  ASSUME TypeOK, NEW p \in Poppers, Take(p)
  PROVE  All' = All
<1>1. CASE messages = <<>>
  BY <1>1 DEF Take, All
<1>2. CASE messages # <<>>
  <2>1. popped' = Append(popped, Head(messages)) /\ messages' = Tail(messages)
    BY <1>2 DEF Take
  <2>2. QED
    BY <1>2, <2>1, MoveHead DEF All, TypeOK
<1>3. QED
  BY <1>1, <1>2

LEMMA AddAppends ==
  ASSUME TypeOK, Add
  PROVE  /\ All \in Seq(Msgs)
         /\ listener \in Msgs
         /\ All' = Append(All, listener)
<1>1. listener \in Msgs /\ messages' = Append(messages, listener) /\ popped' = popped
  BY BoundsAssumption DEF Add, TypeOK, Msgs
<1>2. All \in Seq(Msgs) /\ <<listener>> \in Seq(Msgs)
  BY <1>1 DEF All, TypeOK
<1>3. All' = popped \o (messages \o <<listener>>)
  BY <1>1, AppendIsConcat DEF All, TypeOK
<1>4. popped \o (messages \o <<listener>>) = All \o <<listener>>
  BY <1>2, ConcatAssociative DEF All, TypeOK
<1>5. Append(All, listener) = All \o <<listener>>
  BY <1>1, <1>2, AppendIsConcat
<1>6. QED
  BY <1>1, <1>2, <1>3, <1>4, <1>5

LEMMA NextListenerIsLast == ListenerIsLast /\ [Next]_vars => ListenerIsLast'
BY DEF ListenerIsLast, Next, vars, feed, Receive, Discard, Add, SetDiscard, Pop,
       PopAtOnce, PopWaits, Expire, Interrupt, Resume

LEMMA NextEveryMessageOnce ==
  TypeOK /\ ListenerIsLast /\ EveryMessageOnce /\ [Next]_vars => EveryMessageOnce'
<1> SUFFICES ASSUME TypeOK, ListenerIsLast, EveryMessageOnce, [Next]_vars
             PROVE  EveryMessageOnce'
  OBVIOUS
<1> USE DEF Elements
<1>a. /\ All \in Seq(Msgs)
      /\ \A j, k \in DOMAIN All : j < k => All[j] < All[k]
      /\ Elements(All) \union dropped \union ({listener} \ {0}) = 1 .. arrived
      /\ Elements(All) \intersect dropped = {}
      /\ listener \notin Elements(All) \union dropped
  <2>1. All \in Seq(Msgs)
    BY DEF All, TypeOK
  <2>2. QED
    BY <2>1 DEF EveryMessageOnce, All
<1>b. arrived \in Nat /\ listener \in Nat
  BY BoundsAssumption DEF TypeOK
<1>1. CASE Receive
  <2>1. /\ All' = All /\ dropped' = dropped
        /\ listener = 0 /\ listener' = arrived + 1 /\ arrived' = arrived + 1
    BY <1>1 DEF Receive, All
  <2>2. Elements(All) \union dropped = 1 .. arrived
    BY <1>a, <2>1
  <2>3. (1 .. arrived) \union {arrived + 1} = 1 .. arrived + 1
    BY <1>b
  <2> DEFINE E == {All[k] : k \in DOMAIN All}
  <2>4. E \union dropped = 1 .. arrived /\ E \intersect dropped = {}
    BY <1>a, <2>2
  <2> HIDE DEF E
  <2>5. /\ E \union dropped \union ({arrived + 1} \ {0}) = 1 .. arrived + 1
        /\ arrived + 1 \notin E \union dropped
    BY <1>b, <2>3, <2>4
  <2>6. \A j, k \in DOMAIN All : j < k => All[j] < All[k]
    BY <1>a
  <2>7. /\ E \union dropped \union ({listener'} \ {0}) = 1 .. arrived'
        /\ E \intersect dropped = {} /\ listener' \notin E \union dropped
    BY <2>1, <2>4, <2>5
  <2>8. /\ \A j, k \in DOMAIN All' : j < k => All'[j] < All'[k]
        /\ Elements(All') = E /\ dropped' = dropped
    BY <2>1, <2>6 DEF E
  <2>9. QED
    BY <2>7, <2>8 DEF EveryMessageOnce, All
<1>2. CASE Discard
  <2>1. /\ All' = All /\ dropped' = dropped \union {listener}
        /\ listener # 0 /\ listener' = 0 /\ arrived' = arrived
    BY <1>2 DEF Discard, All
  <2>2. 0 \notin 1 .. arrived
    BY <1>b
  <2>3. QED
    BY <1>a, <1>b, <2>1, <2>2 DEF EveryMessageOnce, All
<1>3. CASE Add
  <2>1. /\ All' = Append(All, listener) /\ dropped' = dropped
        /\ listener # 0 /\ listener' = 0 /\ arrived' = arrived
        /\ listener = arrived /\ listener \in Msgs
    BY <1>3, AddAppends DEF Add, ListenerIsLast
  <2>2. /\ DOMAIN All' = 1 .. Len(All) + 1
        /\ \A k \in 1 .. Len(All) : All'[k] = All[k]
        /\ All'[Len(All) + 1] = listener
        /\ DOMAIN All = 1 .. Len(All)
        /\ Len(All) \in Nat
    BY <1>a, <2>1
  <2>3. ASSUME NEW k \in DOMAIN All
        PROVE  All[k] \in 1 .. arrived /\ All[k] # listener
    BY <1>a, <2>3
  <2>4. \A j, k \in DOMAIN All' : j < k => All'[j] < All'[k]
    <3> SUFFICES ASSUME NEW j \in DOMAIN All', NEW k \in DOMAIN All', j < k
                 PROVE  All'[j] < All'[k]
      OBVIOUS
    <3>1. j \in DOMAIN All /\ All'[j] = All[j]
      BY <2>2
    <3>2. CASE k \in DOMAIN All
      BY <1>a, <2>2, <3>1, <3>2
    <3>3. CASE k = Len(All) + 1
      BY <1>b, <2>1, <2>2, <2>3, <3>1, <3>3
    <3>4. QED
      BY <2>2, <3>2, <3>3
  <2>5. {All'[k] : k \in DOMAIN All'} = {All[k] : k \in DOMAIN All} \union {listener}
    BY <2>2
  <2> DEFINE E == {All[k] : k \in DOMAIN All}
             E2 == {All'[k] : k \in DOMAIN All'}
  <2>6. /\ E \union dropped \union ({listener} \ {0}) = 1 .. arrived
        /\ E \intersect dropped = {}
        /\ listener \notin E \union dropped
        /\ 0 \notin 1 .. arrived
    BY <1>a, <1>b
  <2>7. E2 = E \union {listener}
    BY <2>5
  <2> HIDE DEF E, E2
  <2>8. /\ E2 \union dropped' \union ({listener'} \ {0}) = 1 .. arrived'
        /\ E2 \intersect dropped' = {}
        /\ listener' \notin E2 \union dropped'
    BY <2>1, <2>6, <2>7
  <2>9. QED
    BY <2>4, <2>8 DEF EveryMessageOnce, All, E2
<1>4. ASSUME NEW p \in Poppers, Pop(p)
      PROVE  EveryMessageOnce'
  <2>1. All' = All
    BY <1>4, TakeKeepsAll DEF Pop, PopAtOnce, PopWaits, Expire, Interrupt, Resume, All
  <2>2. UNCHANGED feed
    BY <1>4 DEF Pop, PopAtOnce, PopWaits, Expire, Interrupt, Resume
  <2>3. QED
    BY <1>a, <2>1, <2>2 DEF EveryMessageOnce, All, feed
<1>5. CASE UNCHANGED vars \/ \E b \in BOOLEAN : SetDiscard(b)
  <2>1. All' = All /\ dropped' = dropped /\ listener' = listener /\ arrived' = arrived
    BY <1>5 DEF vars, feed, SetDiscard, All
  <2>2. QED
    BY <1>a, <2>1 DEF EveryMessageOnce, All
<1>6. QED
  BY <1>1, <1>2, <1>3, <1>4, <1>5 DEF Next

\* Every message is taken once, in the order of arrival, or dropped by the flag,
\* or still on its way: no pop takes what another took, whatever the interleaving.
THEOREM MessagesAreKept == Spec => []EveryMessageOnce
<1>1. Init => EveryMessageOnce /\ ListenerIsLast
  <2> SUFFICES ASSUME Init PROVE EveryMessageOnce /\ ListenerIsLast
    OBVIOUS
  <2>1. popped \o messages = <<>> /\ arrived = 0 /\ listener = 0 /\ dropped = {}
    BY DEF Init
  <2>2. QED
    BY <2>1 DEF EveryMessageOnce, ListenerIsLast, Elements
<1>2. QED
  BY <1>1, InitTypeOK, NextTypeOK, NextListenerIsLast, NextEveryMessageOnce, PTL DEF Spec
--------------------------------------------------------------------------------
(* What liveness rests on. *)

\* The messages in the queue that came before m.
Ahead(m) == {k \in Elements(messages) : k < m}

\* A queue that some thread waits for has a thread on its way to it.
QueueIsServed == messages # <<>> /\ Waiting # {} => Notified # {}

\* No message is overtaken, and a thread that comes out of wait takes one that
\* was ahead, if not the message itself.
MessagesMoveUp ==
  [][\A m \in Elements(messages) :
       /\ m \in Elements(messages') => Ahead(m)' \subseteq Ahead(m)
       /\ (\E p \in Poppers : Resume(p)) =>
            m \notin Elements(messages') \/ Ahead(m)' # Ahead(m)]_vars

\* The steps a thread in pop has left.
StepsLeft(p) == CASE at[p] = "idle" -> 0
                  [] at[p] \in {"notified", "expired"} -> 1
                  [] at[p] = "waiting" -> 2

\* Nobody sets a thread in pop back, and each step of its own brings it on.
PopsCountDown ==
  [][\A p \in Poppers :
       at[p] # "idle" => /\ StepsLeft(p)' <= StepsLeft(p)
                         /\ Pop(p) => StepsLeft(p)' < StepsLeft(p)]_vars

LEMMA WakeupsServe ==
  ASSUME TypeOK, NoLostWakeup
  PROVE  QueueIsServed
<1> SUFFICES ASSUME messages # <<>>, Waiting # {}, Notified = {}
             PROVE  FALSE
  BY DEF QueueIsServed
<1>1. Len(messages) \in Nat /\ Len(messages) # 0
  BY DEF TypeOK
<1>2. Cardinality(Notified) = 0
  BY FS_EmptySet
<1>3. QED
  BY <1>1, <1>2 DEF NoLostWakeup

\* The queue is the end of one ascending sequence.
LEMMA QueueAscends ==
  ASSUME TypeOK, EveryMessageOnce
  PROVE  /\ DOMAIN messages = 1 .. Len(messages) /\ Len(messages) \in Nat
         /\ \A k \in 1 .. Len(messages) : messages[k] \in Msgs
         /\ \A j, k \in 1 .. Len(messages) : j < k => messages[j] < messages[k]
         /\ \A k \in 1 .. Len(messages) : messages[k] \in 1 .. arrived /\ messages[k] # listener
<1>1. /\ DOMAIN messages = 1 .. Len(messages) /\ Len(messages) \in Nat
      /\ \A k \in 1 .. Len(messages) : messages[k] \in Msgs
  BY DEF TypeOK
<1>2. Len(popped) \in Nat
  BY DEF TypeOK
<1>3. \A k \in 1 .. Len(messages) :
        Len(popped) + k \in DOMAIN All /\ All[Len(popped) + k] = messages[k]
  BY <1>1, <1>2 DEF All, TypeOK
<1>4. /\ \A j, k \in DOMAIN All : j < k => All[j] < All[k]
      /\ Elements(All) \union dropped \union ({listener} \ {0}) = 1 .. arrived
      /\ listener \notin Elements(All) \union dropped
  BY DEF EveryMessageOnce, All
<1>5. ASSUME NEW j \in 1 .. Len(messages), NEW k \in 1 .. Len(messages), j < k
      PROVE  messages[j] < messages[k]
  <2>1. Len(popped) + j < Len(popped) + k
    BY <1>1, <1>2, <1>5
  <2>2. QED
    BY <1>3, <1>4, <2>1
<1>6. ASSUME NEW k \in 1 .. Len(messages)
      PROVE  messages[k] \in 1 .. arrived /\ messages[k] # listener
  <2>1. messages[k] \in Elements(All)
    BY <1>3 DEF Elements
  <2>2. QED
    BY <1>4, <2>1
<1>7. QED
  BY <1>1, <1>5, <1>6

\* A removal takes the message that all the others in the queue have ahead.
LEMMA TakeMovesUp ==
  ASSUME TypeOK, EveryMessageOnce, NEW p \in Poppers, Take(p), NEW m \in Elements(messages)
  PROVE  /\ Ahead(m)' \subseteq Ahead(m)
         /\ m \notin Elements(messages') \/ Ahead(m)' # Ahead(m)
<1>1. PICK i \in 1 .. Len(messages) : m = messages[i]
  BY QueueAscends DEF Elements
<1>2. messages # <<>> /\ messages' = Tail(messages)
  BY <1>1 DEF Take, TypeOK
<1>3. /\ Len(messages') = Len(messages) - 1 /\ DOMAIN messages' = 1 .. Len(messages')
      /\ \A k \in 1 .. Len(messages') : messages'[k] = messages[k + 1]
  BY <1>2 DEF TypeOK
<1>4. \A k \in 1 .. Len(messages') : k + 1 \in 1 .. Len(messages)
  BY <1>3, QueueAscends
<1>5. Elements(messages') \subseteq Elements(messages)
  BY <1>3, <1>4, QueueAscends DEF Elements
<1>6. messages[1] \notin Elements(messages') /\ messages[1] \in Elements(messages)
  <2>1. 1 \in 1 .. Len(messages)
    BY <1>1, QueueAscends
  <2>2. \A k \in 1 .. Len(messages') : 1 < k + 1
    BY <1>3
  <2>3. ASSUME NEW k \in 1 .. Len(messages')
        PROVE  messages'[k] # messages[1]
    <3>1. messages[1] < messages[k + 1] /\ messages[1] \in Nat
      BY <1>4, <2>1, <2>2, QueueAscends
    <3>2. messages[1] # messages[k + 1]
      BY <3>1
    <3>3. QED
      BY <1>3, <3>2
  <2>4. QED
    BY <1>3, <2>1, <2>3, QueueAscends DEF Elements
<1>7. Ahead(m)' \subseteq Ahead(m)
  BY <1>5 DEF Ahead
<1>8. CASE i = 1
  BY <1>1, <1>6, <1>7, <1>8
<1>9. CASE i # 1
  <2>1. messages[1] < m
    BY <1>1, <1>9, QueueAscends
  <2>2. messages[1] \in Ahead(m) /\ messages[1] \notin Ahead(m)'
    BY <1>6, <2>1 DEF Ahead
  <2>3. QED
    BY <1>7, <2>2
<1>10. QED
  BY <1>8, <1>9

LEMMA AddKeepsAhead ==
  ASSUME TypeOK, EveryMessageOnce, ListenerIsLast, Add, NEW m \in Elements(messages)
  PROVE  Ahead(m)' \subseteq Ahead(m)
<1>1. PICK i \in 1 .. Len(messages) : m = messages[i]
  BY QueueAscends DEF Elements
<1>2. listener = arrived /\ arrived \in Nat
  BY BoundsAssumption DEF Add, ListenerIsLast, TypeOK
<1>3. m \in Nat /\ m < listener
  BY <1>1, <1>2, QueueAscends
<1>4. Elements(messages') \subseteq Elements(messages) \union {listener}
  <2>1. messages' = Append(messages, listener) /\ messages \in Seq(Msgs)
    BY DEF Add, TypeOK
  <2>2. /\ Len(messages') = Len(messages) + 1 /\ Len(messages) \in Nat
        /\ DOMAIN messages' = 1 .. Len(messages) + 1 /\ DOMAIN messages = 1 .. Len(messages)
        /\ \A k \in 1 .. Len(messages) : messages'[k] = messages[k]
        /\ messages'[Len(messages) + 1] = listener
    BY <2>1
  <2>3. \A k \in 1 .. Len(messages) + 1 : k \in 1 .. Len(messages) \/ k = Len(messages) + 1
    BY <2>2
  <2>4. QED
    BY <2>2, <2>3 DEF Elements
<1>5. QED
  BY <1>2, <1>3, <1>4 DEF Ahead

LEMMA StepMovesUp ==
  TypeOK /\ EveryMessageOnce /\ ListenerIsLast /\ [Next]_vars =>
    [\A m \in Elements(messages) :
       /\ m \in Elements(messages') => Ahead(m)' \subseteq Ahead(m)
       /\ (\E p \in Poppers : Resume(p)) =>
            m \notin Elements(messages') \/ Ahead(m)' # Ahead(m)]_vars
<1> SUFFICES ASSUME TypeOK, EveryMessageOnce, ListenerIsLast, Next, NEW m \in Elements(messages)
             PROVE  /\ m \in Elements(messages') => Ahead(m)' \subseteq Ahead(m)
                    /\ (\E p \in Poppers : Resume(p)) =>
                         m \notin Elements(messages') \/ Ahead(m)' # Ahead(m)
  OBVIOUS
<1>1. CASE \E p \in Poppers : Take(p)
  BY <1>1, TakeMovesUp
<1>2. CASE ~\E p \in Poppers : Take(p)
  <2>1. ~\E p \in Poppers : Resume(p)
    BY <1>2 DEF Resume
  <2>2. CASE Add
    BY <2>1, <2>2, AddKeepsAhead
  <2>3. CASE messages' = messages
    BY <2>1, <2>3 DEF Ahead
  <2>4. QED
    BY <1>2, <2>2, <2>3
    DEF Next, Receive, Discard, SetDiscard, Pop, PopAtOnce, PopWaits, Expire, Interrupt, Resume
<1>3. QED
  BY <1>1, <1>2

LEMMA StepCountsDown ==
  TypeOK /\ [Next]_vars =>
    [\A p \in Poppers :
       at[p] # "idle" => /\ StepsLeft(p)' <= StepsLeft(p)
                         /\ Pop(p) => StepsLeft(p)' < StepsLeft(p)]_vars
<1> SUFFICES ASSUME TypeOK, Next, NEW p \in Poppers, at[p] # "idle"
             PROVE  /\ StepsLeft(p)' <= StepsLeft(p)
                    /\ Pop(p) => StepsLeft(p)' < StepsLeft(p)
  OBVIOUS
<1>1. at[p] \in {"waiting", "notified", "expired"}
  BY DEF TypeOK
<1>2. \/ at'[p] = at[p]
      \/ at'[p] = "idle"
      \/ at[p] = "waiting" /\ at'[p] \in {"notified", "expired"}
  BY DEF Next, Receive, Discard, Add, Notify, Waiting, SetDiscard, Pop, PopAtOnce, PopWaits,
         Expire, Interrupt, Resume, Take, TypeOK
<1>3. StepsLeft(p)' <= StepsLeft(p)
  BY <1>1, <1>2 DEF StepsLeft
<1>4. ASSUME Pop(p)
      PROVE  StepsLeft(p)' < StepsLeft(p)
  <2>1. \/ at'[p] = "idle"
        \/ at[p] = "waiting" /\ at'[p] = "expired"
    BY <1>1, <1>4 DEF Pop, PopAtOnce, PopWaits, Expire, Interrupt, Resume, Take, TypeOK
  <2>2. QED
    BY <1>1, <2>1 DEF StepsLeft
<1>5. QED
  BY <1>3, <1>4

\* Without fairness, what PopReturns and MessageMeetsWaiter rest on: a queue that
\* is waited for has a thread on its way to it, which takes a message from the
\* front; no message is overtaken, and no thread in pop is set back
\* (MultipleMessageHandler.java: handleMessage and pop).
THEOREM WaitersProceed ==
  Spec => []QueueIsServed /\ MessagesMoveUp /\ PopsCountDown
<1>1. Init => ListenerIsLast
  BY DEF Init, ListenerIsLast
<1>2. TypeOK /\ NoLostWakeup => QueueIsServed
  BY WakeupsServe
<1>3. Spec => []TypeOK /\ []NoLostWakeup /\ []EveryMessageOnce
  BY TypeCorrect, WakeupsAreKept, MessagesAreKept
<1>4. Spec => []ListenerIsLast
  BY <1>1, NextListenerIsLast, PTL DEF Spec
<1>5. QED
  BY <1>2, <1>3, <1>4, StepMovesUp, StepCountsDown, PTL DEF Spec, MessagesMoveUp, PopsCountDown
================================================================================
