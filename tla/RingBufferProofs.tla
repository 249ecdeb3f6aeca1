---------------------------- MODULE RingBufferProofs ----------------------------
(***************************************************************************)
(* Theorems about the ring buffer, for a ring of any size, an arbitrary    *)
(* set of values and blocks of any length.                                 *)
(***************************************************************************)
EXTENDS RingBuffer, TLAPS

\* A block is a sequence of values no longer than MaxCall.
LEMMA BlockFacts ==
  ASSUME NEW s \in Blocks
  PROVE  /\ s \in Seq(Values)
         /\ Len(s) \in 0 .. MaxCall
         /\ \A k \in 1 .. Len(s) : s[k] \in Values
<1>1. PICK n \in 0 .. MaxCall : s \in [1 .. n -> Values]
  BY DEF Blocks
<1>2. n \in Nat
  BY <1>1, MaxCallAssumption
<1>3. s \in Seq(Values)
  BY <1>1, <1>2
<1>4. Len(s) = n
  BY <1>1, <1>2
<1>5. QED
  BY <1>1, <1>3, <1>4

\* A sequence of values no longer than MaxCall is a block.
LEMMA SeqIsBlock ==
  ASSUME NEW s \in Seq(Values), Len(s) <= MaxCall
  PROVE  s \in Blocks
<1>1. s \in [1 .. Len(s) -> Values]
  OBVIOUS
<1>2. Len(s) \in 0 .. MaxCall
  BY MaxCallAssumption
<1>3. QED
  BY <1>1, <1>2 DEF Blocks

\* Sequences of the same length with the same elements are the same.
LEMMA SeqEqual ==
  ASSUME NEW S, NEW s \in Seq(S), NEW t \in Seq(S), NEW n \in Nat,
         Len(s) = n, Len(t) = n, \A k \in 1 .. n : s[k] = t[k]
  PROVE  s = t
OBVIOUS

LEMMA EmptyIsBlock == <<>> \in Blocks
<1>1. <<>> \in Seq(Values) /\ Len(<<>>) <= MaxCall
  BY MaxCallAssumption
<1>2. QED
  BY <1>1, SeqIsBlock

--------------------------------------------------------------------------------
\* The queue as a function of its index.
LEMMA ItemsFacts ==
  ASSUME TypeOK, CursorsAgree
  PROVE  /\ Items \in Seq(Values)
         /\ Len(Items) = element_count
         /\ \A k \in 1 .. element_count : Items[k] = buffer[Wrap(Oldest + k - 1)]
         /\ Oldest \in Nat
         /\ Oldest < Size \/ Oldest = 0
<1> USE SizeAssumption
<1>1. element_count \in Nat /\ Oldest \in Nat /\ (Oldest < Size \/ Oldest = 0)
  BY DEF TypeOK, CursorsAgree, Oldest, Emptied
<1>2. ASSUME NEW k \in 1 .. element_count
      PROVE  buffer[Wrap(Oldest + k - 1)] \in Values
  <2>1. Wrap(Oldest + k - 1) \in Slots
    BY <1>1, <1>2 DEF Wrap, Slots, TypeOK
  <2>2. QED
    BY <2>1 DEF TypeOK
<1>3. Items \in [1 .. element_count -> Values]
  BY <1>2 DEF Items
<1>4. QED
  BY <1>1, <1>3 DEF Items

\* A read in progress does not move the head of the queue.
LEMMA ReadStepKeepsOldest ==
  ASSUME TypeOK, CursorsAgree, ReadStep
  PROVE  Oldest' = Oldest
BY SizeAssumption DEF TypeOK, CursorsAgree, ReadStep, ReadMore, Advance, Oldest, Emptied

\* What a read in progress copies out next is the next item of the queue.
LEMMA ReadStepTakesNext ==
  ASSUME TypeOK, CursorsAgree, op = "read", i < element_count
  PROVE  Items[i + 1] = buffer[rd_pos]
<1> USE SizeAssumption, MaxCallAssumption
<1>1. /\ i \in Nat /\ element_count \in Nat /\ element_count <= Size
      /\ rd_pos \in Nat /\ rd_pos < Size
      /\ Oldest = IF i > rd_pos THEN rd_pos - i + Size ELSE rd_pos - i
  BY DEF TypeOK, CursorsAgree, Oldest, Emptied
<1>2. Oldest + (i + 1) - 1 = IF i > rd_pos THEN rd_pos + Size ELSE rd_pos
  BY <1>1
<1>3. Wrap(Oldest + (i + 1) - 1) = rd_pos
  BY <1>1, <1>2 DEF Wrap
<1>4. i + 1 \in 1 .. element_count
  BY <1>1
<1>5. QED
  BY <1>3, <1>4, ItemsFacts

\* A write in progress fills no slot of the queue.
LEMMA WriteStepKeepsSlots ==
  ASSUME TypeOK, CursorsAgree, WriteStep,
         NEW k \in Nat, k < element_count + i
  PROVE  buffer'[Wrap(Oldest + k)] = buffer[Wrap(Oldest + k)]
<1> USE SizeAssumption
<1>1. /\ Oldest \in Nat
      /\ Oldest < Size \/ Oldest = 0
      /\ element_count \in Nat /\ i \in Nat /\ element_count + i < Size
      /\ wr_pos = Wrap(Oldest + element_count + i)
  BY MaxCallAssumption DEF TypeOK, CursorsAgree, WriteStep, WriteMore, Oldest, Emptied, Filled
<1>2. Wrap(Oldest + k) \in Slots /\ Wrap(Oldest + k) # wr_pos
  BY <1>1 DEF Wrap, Slots
<1>3. QED
  BY <1>2 DEF WriteStep, TypeOK

--------------------------------------------------------------------------------
LEMMA InitIInv == Init => IInv
<1> SUFFICES ASSUME Init PROVE IInv
  OBVIOUS
<1>1. TypeOK
  BY EmptyIsBlock, SizeAssumption, MaxCallAssumption DEF Init, TypeOK, Requests
<1>2. CursorsAgree
  BY SizeAssumption DEF Init, CursorsAgree, Filled, Emptied, Oldest, Wrap
<1>3. QED
  BY <1>1, <1>2 DEF IInv, CopiesInOrder, Init

LEMMA NextIInv == IInv /\ [Next]_vars => IInv'
<1> SUFFICES ASSUME IInv, [Next]_vars
             PROVE  IInv'
  OBVIOUS
<1> USE SizeAssumption, MaxCallAssumption
<1> USE DEF IInv, CursorsAgree, Filled, Emptied, Oldest, Wrap, members, locals
<1>1. CASE ReadEmpty
  BY <1>1, EmptyIsBlock DEF ReadEmpty, Return, TypeOK, Requests, CopiesInOrder
<1>2. ASSUME NEW n \in Requests, ReadStart(n)
      PROVE  IInv'
  BY <1>2, EmptyIsBlock DEF ReadStart, TypeOK, Requests, CopiesInOrder
<1>3. CASE ReadStep
  <2>1. rbuf \in Seq(Values) /\ Len(rbuf) = i
    BY <1>3, BlockFacts DEF ReadStep, TypeOK, CopiesInOrder
  <2>2. buffer[rd_pos] \in Values
    BY <1>3 DEF ReadStep, ReadMore, TypeOK, Slots
  <2>3. /\ rbuf' \in Seq(Values)
        /\ Len(rbuf') = i + 1
        /\ rbuf'[i + 1] = buffer[rd_pos]
        /\ \A k \in 1 .. i : rbuf'[k] = rbuf[k]
    BY <1>3, <2>1, <2>2 DEF ReadStep
  <2>4. i + 1 <= to_read /\ i + 1 <= element_count /\ to_read \in 0 .. MaxCall
    BY <1>3 DEF ReadStep, ReadMore, TypeOK, Requests, CopiesInOrder
  <2>5. rbuf' \in Blocks
    BY <2>3, <2>4, SeqIsBlock DEF TypeOK
  <2>6. TypeOK'
    BY <1>3, <2>4, <2>5 DEF ReadStep, TypeOK, Advance, Requests
  <2>7. CursorsAgree'
    BY <1>3, <2>4 DEF ReadStep, TypeOK, Advance
  <2>8. Items[i + 1] = buffer[rd_pos]
    <3>1. i < element_count
      BY <2>4 DEF TypeOK
    <3>2. QED
      BY <1>3, <3>1, ReadStepTakesNext DEF ReadStep
  <2>9. Items' = Items
    BY <1>3, ReadStepKeepsOldest DEF ReadStep, Items
  <2>10. \A k \in 1 .. i + 1 : rbuf'[k] = Items[k]
    <3>1. \A k \in 1 .. i : rbuf'[k] = Items[k]
      BY <1>3, <2>3 DEF CopiesInOrder, ReadStep
    <3>2. i \in Nat
      BY DEF TypeOK
    <3>3. \A k \in 1 .. i + 1 : k \in 1 .. i \/ k = i + 1
      BY <3>2
    <3>4. QED
      BY <2>3, <2>8, <3>1, <3>3
  <2>11. CopiesInOrder'
    BY <1>3, <2>3, <2>4, <2>9, <2>10 DEF ReadStep, CopiesInOrder
  <2>12. QED
    BY <2>6, <2>7, <2>11
<1>4. CASE ReadReturn
  BY <1>4, EmptyIsBlock DEF ReadReturn, Return, TypeOK, Requests, CopiesInOrder
<1>5. CASE WriteFull
  BY <1>5, EmptyIsBlock DEF WriteFull, Return, TypeOK, Requests, CopiesInOrder
<1>6. ASSUME NEW block \in Blocks, WriteStart(block)
      PROVE  IInv'
  <2>1. Len(block) \in Nat
    BY BlockFacts
  <2>2. QED
    BY <1>6, <2>1, EmptyIsBlock DEF WriteStart, TypeOK, Requests, CopiesInOrder
<1>7. CASE WriteStep
  <2>1. wbuf \in Blocks /\ Len(wbuf) \in 0 .. MaxCall /\ i + 1 <= Len(wbuf)
    BY <1>7, BlockFacts DEF WriteStep, WriteMore, TypeOK, CopiesInOrder
  <2>2. wbuf[i + 1] \in Values
    BY <1>7, <2>1, BlockFacts DEF TypeOK
  <2>3. i + 1 <= Size - element_count
    BY <1>7 DEF WriteStep, WriteMore, TypeOK
  <2>4. wr_pos \in Slots
    BY <1>7, <2>3 DEF WriteStep, TypeOK, Slots
  <2>5. buffer' \in [Slots -> Values] /\ buffer'[wr_pos] = wbuf[i + 1]
    BY <1>7, <2>2, <2>4 DEF WriteStep, TypeOK
  <2>6. TypeOK'
    BY <1>7, <2>1, <2>5 DEF WriteStep, TypeOK, Advance
  <2>7. CursorsAgree'
    BY <1>7, <2>3 DEF WriteStep, TypeOK, Advance
  <2>8. Oldest' = Oldest
    BY <1>7 DEF WriteStep
  <2>9. ASSUME NEW k \in 1 .. i + 1
        PROVE  buffer'[Wrap(Oldest + element_count + k - 1)] = wbuf[k]
    <3>1. CASE k = i + 1
      BY <1>7, <2>5, <3>1 DEF WriteStep, TypeOK
    <3>2. CASE k \in 1 .. i
      <4>1. buffer[Wrap(Oldest + element_count + k - 1)] = wbuf[k]
        BY <1>7, <3>2 DEF WriteStep, CopiesInOrder
      <4>2. element_count + k - 1 \in Nat /\ element_count + k - 1 < element_count + i
        BY <3>2 DEF TypeOK
      <4>3. buffer'[Wrap(Oldest + (element_count + k - 1))]
              = buffer[Wrap(Oldest + (element_count + k - 1))]
        BY <1>7, <4>2, WriteStepKeepsSlots
      <4>4. Oldest + (element_count + k - 1) = Oldest + element_count + k - 1
        BY <3>2 DEF TypeOK
      <4>5. QED
        BY <4>1, <4>3, <4>4
    <3>3. QED
      BY <3>1, <3>2 DEF TypeOK
  <2>10. CopiesInOrder'
    BY <1>7, <2>1, <2>8, <2>9 DEF WriteStep, CopiesInOrder
  <2>11. QED
    BY <2>6, <2>7, <2>10
<1>8. CASE WriteReturn
  <2>1. /\ op = "write" /\ op' = "idle" /\ wbuf' = <<>> /\ to_read' = 0 /\ i' = 0 /\ rbuf' = <<>>
        /\ element_count' = element_count + i
        /\ UNCHANGED <<buffer, rd_pos, wr_pos>>
    BY <1>8 DEF WriteReturn, Return
  <2>2. element_count + i \in 0 .. Size
    BY <2>1 DEF TypeOK
  <2>3. TypeOK'
    BY <2>1, <2>2, EmptyIsBlock DEF TypeOK, Requests
  <2>4. CursorsAgree'
    BY <2>1, <2>2 DEF TypeOK
  <2>5. CopiesInOrder'
    BY <2>1 DEF CopiesInOrder
  <2>6. QED
    BY <2>3, <2>4, <2>5
<1>9. CASE UNCHANGED vars
  <2>1. /\ buffer' = buffer /\ element_count' = element_count /\ rd_pos' = rd_pos /\ wr_pos' = wr_pos
        /\ op' = op /\ wbuf' = wbuf /\ to_read' = to_read /\ i' = i /\ rbuf' = rbuf
    BY <1>9 DEF vars, members, locals
  <2>2. TypeOK'
    BY <2>1 DEF TypeOK
  <2>3. Emptied' = Emptied /\ Filled' = Filled
    BY <2>1 DEF Emptied, Filled
  <2>4. Oldest' = Oldest
    BY <2>1, <2>3 DEF Oldest
  <2>5. CursorsAgree'
    BY <2>1, <2>3, <2>4 DEF CursorsAgree
  <2>6. Items' = Items
    BY <2>1, <2>4 DEF Items
  <2>7. CopiesInOrder'
    BY <2>1, <2>4, <2>6 DEF CopiesInOrder
  <2>8. QED
    BY <2>2, <2>5, <2>7
<1>10. QED
  BY <1>1, <1>2, <1>3, <1>4, <1>5, <1>6, <1>7, <1>8, <1>9 DEF Next, Call, Run

\* In every reachable state the members and the locals of the call in progress
\* have the types the class gives them (ring-buffer.hpp:58-62).
THEOREM TypeCorrect == Spec => []TypeOK
<1>1. IInv => TypeOK
  BY DEF IInv
<1>2. QED
  BY InitIInv, NextIInv, <1>1, PTL DEF Spec

\* The cursors never leave the array and always enclose exactly the items not
\* yet read, in the middle of a loop too (ring-buffer.hpp:25-29 and 38-42).
THEOREM CursorsCorrect == Spec => []CursorsAgree
<1>1. IInv => CursorsAgree
  BY DEF IInv
<1>2. QED
  BY InitIInv, NextIInv, <1>1, PTL DEF Spec

\* For every size, a read in progress has copied the head of the queue and a
\* write in progress has stored right behind its tail, in order
\* (ring-buffer.hpp:23-28 and 36-41).
THEOREM CopiesCorrect == Spec => []CopiesInOrder
<1>1. IInv => CopiesInOrder
  BY DEF IInv
<1>2. QED
  BY InitIInv, NextIInv, <1>1, PTL DEF Spec

--------------------------------------------------------------------------------
\* A return from read removes what the caller was handed, and no more.
LEMMA ReadReturnIsGet ==
  ASSUME IInv, ReadReturn
  PROVE  Fifo!Get(to_read)
<1> USE SizeAssumption, MaxCallAssumption
<1>1. TypeOK /\ CursorsAgree /\ CopiesInOrder /\ op = "read"
  BY DEF IInv, ReadReturn
<1>2. /\ i \in Nat /\ to_read \in Nat /\ element_count \in Nat
      /\ i <= element_count /\ i <= to_read
      /\ i = to_read \/ i = element_count
  BY <1>1 DEF TypeOK, CursorsAgree, CopiesInOrder, Emptied, ReadReturn, ReadMore, Requests
<1>3. Fifo!Lesser(to_read, Len(Items)) = i
  BY <1>1, <1>2, ItemsFacts DEF Fifo!Lesser
<1>4. rbuf = SubSeq(Items, 1, i)
  <2>1. rbuf \in Seq(Values) /\ Len(rbuf) = i /\ \A k \in 1 .. i : rbuf[k] = Items[k]
    BY <1>1, BlockFacts DEF TypeOK, CopiesInOrder
  <2>2. Items \in Seq(Values) /\ Len(Items) = element_count
    BY <1>1, ItemsFacts
  <2>3. /\ SubSeq(Items, 1, i) \in Seq(Values)
        /\ Len(SubSeq(Items, 1, i)) = i
        /\ \A k \in 1 .. i : SubSeq(Items, 1, i)[k] = Items[k]
    BY <1>2, <2>2
  <2>4. QED
    BY <2>1, <2>3, SeqEqual
<1>5. Items' = SubSeq(Items, i + 1, Len(Items))
  <2>1. Items \in Seq(Values) /\ Len(Items) = element_count
    BY <1>1, ItemsFacts
  <2>2. Oldest' = Wrap(Oldest + i)
    BY <1>1, <1>2 DEF ReadReturn, Return, TypeOK, CursorsAgree, Oldest, Emptied, Wrap
  <2>3. Oldest \in Nat /\ (Oldest < Size \/ Oldest = 0)
    BY <1>1, ItemsFacts
  <2>4. \A k \in 1 .. element_count - i :
          Wrap(Oldest' + k - 1) = Wrap(Oldest + (i + k) - 1)
    BY <1>1, <1>2, <2>2, <2>3 DEF Wrap, TypeOK
  <2>5. buffer' = buffer /\ element_count' = element_count - i
    BY DEF ReadReturn
  <2>6. \A k \in 1 .. element_count - i : Items[i + k] = buffer[Wrap(Oldest' + k - 1)]
    BY <1>1, <1>2, <2>4, ItemsFacts
  <2>7. Items' = [k \in 1 .. element_count - i |-> buffer[Wrap(Oldest' + k - 1)]]
    BY <2>5 DEF Items, Wrap
  <2>8. Items' = [k \in 1 .. element_count - i |-> Items[i + k]]
    BY <2>6, <2>7
  <2>9. \A k \in 1 .. element_count - i : Items[i + k] \in Values
    BY <1>2, <2>1
  <2>10. /\ Items' \in Seq(Values)
         /\ Len(Items') = element_count - i
         /\ \A k \in 1 .. element_count - i : Items'[k] = Items[i + k]
    BY <1>2, <2>8, <2>9
  <2>11. /\ SubSeq(Items, i + 1, Len(Items)) \in Seq(Values)
         /\ Len(SubSeq(Items, i + 1, Len(Items))) = element_count - i
         /\ \A k \in 1 .. element_count - i :
              SubSeq(Items, i + 1, Len(Items))[k] = Items[i + k]
    <3> DEFINE s == SubSeq(Items, i + 1, Len(Items))
    <3>1. /\ s = [k \in 1 .. Len(Items) - (i + 1) + 1 |-> Items[k + (i + 1) - 1]]
          /\ Len(Items) - (i + 1) + 1 = element_count - i /\ element_count - i \in Nat
      BY <1>2, <2>1
    <3>2. \A k \in 1 .. element_count - i : k + (i + 1) - 1 = i + k
      BY <1>2
    <3>3. s = [k \in 1 .. element_count - i |-> Items[i + k]]
      BY <3>1, <3>2
    <3> HIDE DEF s
    <3>4. s \in Seq(Values) /\ Len(s) = element_count - i
      BY <2>9, <3>1, <3>3
    <3>5. \A k \in 1 .. element_count - i : s[k] = Items[i + k]
      BY <3>3
    <3>6. QED
      BY <3>4, <3>5 DEF s
  <2>12. QED
    <3>1. element_count - i \in Nat
      BY <1>2
    <3>2. QED
      BY <2>10, <2>11, <3>1, SeqEqual
<1>6. reply' = Fifo!ReadReply(SubSeq(Items, 1, i))
  <2>1. Len(rbuf) = i
    BY <1>1 DEF CopiesInOrder
  <2>2. QED
    BY <1>4, <2>1 DEF ReadReturn, Return, ReadReply, Fifo!ReadReply
<1>7. QED
  BY <1>3, <1>5, <1>6 DEF Fifo!Get

\* A return from write appends the accepted prefix of the block.
LEMMA WriteReturnIsPut ==
  ASSUME IInv, WriteReturn
  PROVE  Fifo!Put(wbuf)
<1> USE SizeAssumption, MaxCallAssumption
<1>1. TypeOK /\ CursorsAgree /\ CopiesInOrder /\ op = "write"
  BY DEF IInv, WriteReturn
<1>2. /\ wbuf \in Seq(Values) /\ Len(wbuf) \in Nat
      /\ i \in Nat /\ element_count \in Nat
      /\ i <= Len(wbuf) /\ element_count + i <= Size
      /\ i = Len(wbuf) \/ i = Size - element_count
  BY <1>1, BlockFacts DEF TypeOK, CursorsAgree, CopiesInOrder, Filled, WriteReturn, WriteMore
<1>3. Items \in Seq(Values) /\ Len(Items) = element_count
  BY <1>1, ItemsFacts
<1>4. Fifo!Lesser(Len(wbuf), Size - Len(Items)) = i
  BY <1>2, <1>3 DEF Fifo!Lesser
<1>5. Oldest' = Oldest /\ buffer' = buffer /\ element_count' = element_count + i
  BY <1>1 DEF WriteReturn, Return, Oldest, Emptied
<1>6. Items' = Items \o SubSeq(wbuf, 1, i)
  <2>1. Items' = [k \in 1 .. element_count + i |-> buffer[Wrap(Oldest + k - 1)]]
    BY <1>5 DEF Items, Wrap
  <2>2. \A k \in 1 .. element_count : buffer[Wrap(Oldest + k - 1)] = Items[k]
    BY <1>1, ItemsFacts
  <2>3. \A k \in 1 .. i : buffer[Wrap(Oldest + element_count + k - 1)] = wbuf[k]
    BY <1>1 DEF CopiesInOrder
  <2>4. ASSUME NEW k \in 1 .. element_count + i, k > element_count
        PROVE  buffer[Wrap(Oldest + k - 1)] = wbuf[k - element_count]
    <3>1. k - element_count \in 1 .. i
      BY <1>2, <2>4
    <3>2. Oldest \in Nat
      BY <1>1, ItemsFacts
    <3>3. Oldest + element_count + (k - element_count) - 1 = Oldest + k - 1
      BY <1>2, <2>4, <3>2
    <3>4. QED
      BY <2>3, <3>1, <3>3
  <2>5. ASSUME NEW k \in 1 .. element_count + i
        PROVE  /\ buffer[Wrap(Oldest + k - 1)]
                    = IF k <= element_count THEN Items[k] ELSE wbuf[k - element_count]
               /\ buffer[Wrap(Oldest + k - 1)] \in Values
    <3>1. CASE k <= element_count
      <4>1. k \in 1 .. element_count
        BY <1>2, <3>1
      <4>2. Items[k] \in Values
        BY <1>3, <4>1
      <4>3. QED
        BY <2>2, <3>1, <4>1, <4>2
    <3>2. CASE k > element_count
      <4>1. k - element_count \in 1 .. Len(wbuf)
        BY <1>2, <3>2
      <4>2. QED
        BY <1>2, <2>4, <3>2, <4>1
    <3>3. QED
      BY <1>2, <3>1, <3>2
  <2>6. /\ Items' \in Seq(Values)
        /\ Len(Items') = element_count + i
        /\ \A k \in 1 .. element_count + i :
             Items'[k] = IF k <= element_count THEN Items[k] ELSE wbuf[k - element_count]
    <3>1. Items' \in [1 .. element_count + i -> Values]
      BY <2>1, <2>5
    <3>2. element_count + i \in Nat
      BY <1>2
    <3>3. Items' \in Seq(Values) /\ Len(Items') = element_count + i
      BY <3>1, <3>2
    <3>4. QED
      BY <2>1, <2>5, <3>3
  <2>7. /\ SubSeq(wbuf, 1, i) \in Seq(Values)
        /\ Len(SubSeq(wbuf, 1, i)) = i
        /\ \A k \in 1 .. i : SubSeq(wbuf, 1, i)[k] = wbuf[k]
    BY <1>2
  <2>8. /\ Items \o SubSeq(wbuf, 1, i) \in Seq(Values)
        /\ Len(Items \o SubSeq(wbuf, 1, i)) = element_count + i
        /\ \A k \in 1 .. element_count + i :
             (Items \o SubSeq(wbuf, 1, i))[k]
               = IF k <= element_count THEN Items[k] ELSE wbuf[k - element_count]
    BY <1>2, <1>3, <2>7
  <2>9. QED
    <3>1. element_count + i \in Nat
      BY <1>2
    <3>2. QED
      BY <2>6, <2>8, <3>1, SeqEqual
<1>7. QED
  BY <1>4, <1>6 DEF Fifo!Put, WriteReturn, Return, WriteReply, Fifo!WriteReply

\* An element copied in or out in the middle of a loop is invisible to callers.
LEMMA LoopStepsStutter ==
  ASSUME IInv, ReadStep \/ WriteStep
  PROVE  Items' = Items /\ reply' = reply
<1> USE SizeAssumption, MaxCallAssumption
<1>1. TypeOK /\ CursorsAgree
  BY DEF IInv
<1>2. CASE ReadStep
  BY <1>1, <1>2, ReadStepKeepsOldest DEF ReadStep, Items, Wrap
<1>3. CASE WriteStep
  <2>1. Oldest' = Oldest /\ element_count' = element_count /\ reply' = reply
    BY <1>3 DEF WriteStep, Oldest, Emptied
  <2>2. Oldest \in Nat /\ element_count \in Nat /\ i \in Nat
    BY <1>1, ItemsFacts DEF TypeOK
  <2>3. ASSUME NEW k \in 1 .. element_count
        PROVE  buffer'[Wrap(Oldest + k - 1)] = buffer[Wrap(Oldest + k - 1)]
    <3>1. k - 1 \in Nat /\ k - 1 < element_count + i /\ Oldest + (k - 1) = Oldest + k - 1
      BY <2>2
    <3>2. buffer'[Wrap(Oldest + (k - 1))] = buffer[Wrap(Oldest + (k - 1))]
      BY <1>1, <1>3, <3>1, WriteStepKeepsSlots
    <3>3. QED
      BY <3>1, <3>2
  <2>4. Items' = [k \in 1 .. element_count |-> buffer'[Wrap(Oldest + k - 1)]]
    BY <2>1 DEF Items, Wrap
  <2>5. QED
    BY <2>1, <2>3, <2>4 DEF Items
<1>4. QED
  BY <1>2, <1>3

\* An early return moves nothing and says so.
LEMMA EarlyReturns ==
  ASSUME IInv
  PROVE  /\ ReadEmpty => Fifo!Get(0)
         /\ WriteFull => Fifo!Put(<<>>)
<1> USE SizeAssumption
<1>1. Items \in Seq(Values) /\ Len(Items) = element_count /\ element_count \in Nat
  BY ItemsFacts DEF IInv, TypeOK
<1>2. ReadEmpty \/ WriteFull => Items' = Items
  BY DEF ReadEmpty, WriteFull, Return, members, Items, Oldest, Emptied, Wrap
<1>3. ReadEmpty => Fifo!Get(0)
  <2> SUFFICES ASSUME ReadEmpty PROVE Fifo!Get(0)
    OBVIOUS
  <2>1. Fifo!Lesser(0, Len(Items)) = 0
    BY <1>1 DEF Fifo!Lesser
  <2>2. SubSeq(Items, 1, 0) = <<>>
    BY <1>1
  <2>3. SubSeq(Items, 0 + 1, Len(Items)) = Items
    BY <1>1
  <2>4. reply' = Fifo!ReadReply(<<>>)
    BY DEF ReadEmpty, Return, ReadReply, Fifo!ReadReply
  <2>5. QED
    BY <1>2, <2>1, <2>2, <2>3, <2>4 DEF Fifo!Get
<1>4. WriteFull => Fifo!Put(<<>>)
  <2> SUFFICES ASSUME WriteFull PROVE Fifo!Put(<<>>)
    OBVIOUS
  <2> DEFINE n == Fifo!Lesser(Len(<<>>), Size - Len(Items))
  <2>1. n = 0
    BY <1>1 DEF Fifo!Lesser, WriteFull
  <2>2. SubSeq(<<>>, 1, 0) = <<>> /\ Items \o <<>> = Items
    BY <1>1
  <2>3. reply' = Fifo!WriteReply(0)
    BY DEF WriteFull, Return, WriteReply, Fifo!WriteReply
  <2>4. Items' = Items
    BY <1>2
  <2> HIDE DEF n
  <2>5. Items' = Items \o SubSeq(<<>>, 1, n) /\ reply' = Fifo!WriteReply(n)
    BY <2>1, <2>2, <2>3, <2>4, Zenon
  <2>6. QED
    BY <2>5, Zenon DEF n, Fifo!Put
<1>5. QED
  BY <1>3, <1>4

\* For every size, the ring buffer implements a bounded FIFO queue: what its
\* callers wrote comes out once and in order, and every call reports the number
\* of elements it moved (ring-buffer.hpp:21-45).
THEOREM RingBufferIsFifo == Spec => IsBoundedFifo
<1>1. Init => Fifo!FifoInit
  <2> SUFFICES ASSUME Init PROVE Fifo!FifoInit
    OBVIOUS
  <2>1. Items = <<>>
    BY DEF Init, Items
  <2>2. QED
    BY <2>1 DEF Init, Fifo!FifoInit, NoReply, Fifo!NoReply
<1>2. IInv /\ [Next]_vars => [Fifo!FifoNext]_<<Items, reply>>
  <2> SUFFICES ASSUME IInv, [Next]_vars
               PROVE  Fifo!FifoNext \/ (Items' = Items /\ reply' = reply)
    OBVIOUS
  <2>1. 0 \in Requests
    BY MaxCallAssumption DEF Requests
  <2>2. CASE ReadEmpty
    BY <2>1, <2>2, EarlyReturns DEF Fifo!FifoNext
  <2>3. ASSUME NEW n \in Requests, ReadStart(n)
        PROVE  Items' = Items /\ reply' = reply
    BY <2>3 DEF ReadStart, members, Items, Oldest, Emptied, Wrap
  <2>4. CASE ReadStep
    BY <2>4, LoopStepsStutter
  <2>5. CASE ReadReturn
    BY <2>5, ReadReturnIsGet DEF Fifo!FifoNext, IInv, TypeOK
  <2>6. CASE WriteFull
    BY <2>6, EmptyIsBlock, EarlyReturns DEF Fifo!FifoNext
  <2>7. ASSUME NEW block \in Blocks, WriteStart(block)
        PROVE  Items' = Items /\ reply' = reply
    BY <2>7 DEF WriteStart, members, Items, Oldest, Emptied, Wrap
  <2>8. CASE WriteStep
    BY <2>8, LoopStepsStutter
  <2>9. CASE WriteReturn
    BY <2>9, WriteReturnIsPut DEF Fifo!FifoNext, IInv, TypeOK
  <2>10. CASE UNCHANGED vars
    BY <2>10 DEF vars, members, locals, Items, Oldest, Emptied, Wrap
  <2>11. QED
    BY <2>2, <2>3, <2>4, <2>5, <2>6, <2>7, <2>8, <2>9, <2>10 DEF Next, Call, Run
<1>3. QED
  BY InitIInv, NextIInv, <1>1, <1>2, PTL
  DEF Spec, IsBoundedFifo, Fifo!FifoSpec, Fifo!fifoVars

--------------------------------------------------------------------------------
\* How many steps the call in progress still has to run, its return included.
Lesser(m, n) == IF m <= n THEN m ELSE n

StepsLeft ==
  CASE op = "read"  -> 1 + Lesser(to_read, element_count) - i
    [] op = "write" -> 1 + Lesser(Len(wbuf), Size - element_count) - i
    [] op = "idle"  -> 0

\* Each step of a call brings its end nearer.
CallsCountDown ==
  [][op # "idle" => StepsLeft' \in Nat /\ StepsLeft' < StepsLeft]_vars

LEMMA StepsLeftFacts ==
  ASSUME IInv
  PROVE  /\ i \in Nat /\ to_read \in Nat /\ element_count \in Nat
         /\ Len(wbuf) \in Nat /\ Size - element_count \in Nat
         /\ op = "read" => i <= to_read /\ i <= element_count
         /\ op = "write" => i <= Len(wbuf) /\ i <= Size - element_count
<1>1. Len(wbuf) \in Nat
  BY BlockFacts DEF IInv, TypeOK
<1>2. i \in Nat /\ to_read \in Nat /\ element_count \in Nat /\ Size - element_count \in Nat
  BY SizeAssumption, MaxCallAssumption DEF IInv, TypeOK, Requests
<1>3. QED
  BY <1>1, <1>2 DEF IInv, CursorsAgree, CopiesInOrder, Filled, Emptied

\* An index that has not met the lesser of two limits has a step left, and one
\* fewer after it.
LEMMA LesserFacts ==
  ASSUME NEW m \in Nat, NEW n \in Nat, NEW k \in Nat, k <= m, k <= n
  PROVE  /\ 1 + Lesser(m, n) - k \in Nat
         /\ k # m /\ k # n => /\ 1 + Lesser(m, n) - (k + 1) \in Nat
                              /\ 1 + Lesser(m, n) - (k + 1) < 1 + Lesser(m, n) - k
BY DEF Lesser

\* The loops of read and write take as many steps as the lesser of what is asked
\* and what is there and return, for every size and every argument, 0 included:
\* their "!=" tests are met and not jumped over (ring-buffer.hpp:25 and 38).
THEOREM LoopsEnd == Spec => [](StepsLeft \in Nat) /\ CallsCountDown
<1>1. IInv => StepsLeft \in Nat
  <2> SUFFICES ASSUME IInv
               PROVE  StepsLeft \in Nat
    OBVIOUS
  <2>1. op \in {"idle", "read", "write"}
    BY DEF IInv, TypeOK
  <2>2. op = "read" => 1 + Lesser(to_read, element_count) - i \in Nat
    BY StepsLeftFacts, LesserFacts
  <2>3. op = "write" => 1 + Lesser(Len(wbuf), Size - element_count) - i \in Nat
    BY StepsLeftFacts, LesserFacts
  <2>4. QED
    BY <2>1, <2>2, <2>3 DEF StepsLeft
<1>2. IInv /\ IInv' /\ [Next]_vars
        => [op # "idle" => StepsLeft' \in Nat /\ StepsLeft' < StepsLeft]_vars
  <2> SUFFICES ASSUME IInv, Next, op # "idle"
               PROVE  StepsLeft' \in Nat /\ StepsLeft' < StepsLeft
    OBVIOUS
  <2>1. CASE ReadStep
    <3>1. /\ op = "read" /\ op' = "read" /\ i # to_read /\ i # element_count
          /\ i' = i + 1 /\ to_read' = to_read /\ element_count' = element_count
      BY <2>1 DEF ReadStep, ReadMore
    <3>2. StepsLeft = 1 + Lesser(to_read, element_count) - i
      BY <3>1 DEF StepsLeft
    <3>3. StepsLeft' = 1 + Lesser(to_read, element_count) - (i + 1)
      BY <3>1 DEF StepsLeft, Lesser
    <3>4. /\ 1 + Lesser(to_read, element_count) - (i + 1) \in Nat
          /\ 1 + Lesser(to_read, element_count) - (i + 1) < 1 + Lesser(to_read, element_count) - i
      <4>1. /\ i \in Nat /\ to_read \in Nat /\ element_count \in Nat
            /\ i <= to_read /\ i <= element_count
        BY <3>1, StepsLeftFacts
      <4>2. QED
        BY <3>1, <4>1, LesserFacts
    <3>5. QED
      BY <3>2, <3>3, <3>4
  <2>2. CASE WriteStep
    <3>1. /\ op = "write" /\ op' = "write" /\ i # Len(wbuf) /\ i # Size - element_count
          /\ i' = i + 1 /\ wbuf' = wbuf /\ element_count' = element_count
      BY <2>2 DEF WriteStep, WriteMore
    <3>2. StepsLeft = 1 + Lesser(Len(wbuf), Size - element_count) - i
      BY <3>1 DEF StepsLeft
    <3>3. StepsLeft' = 1 + Lesser(Len(wbuf), Size - element_count) - (i + 1)
      BY <3>1 DEF StepsLeft, Lesser
    <3>4. /\ 1 + Lesser(Len(wbuf), Size - element_count) - (i + 1) \in Nat
          /\ 1 + Lesser(Len(wbuf), Size - element_count) - (i + 1)
               < 1 + Lesser(Len(wbuf), Size - element_count) - i
      <4>1. /\ i \in Nat /\ Len(wbuf) \in Nat /\ Size - element_count \in Nat
            /\ i <= Len(wbuf) /\ i <= Size - element_count
        BY <3>1, StepsLeftFacts
      <4>2. QED
        BY <3>1, <4>1, LesserFacts
    <3>5. QED
      BY <3>2, <3>3, <3>4
  <2>3. CASE ReadReturn \/ WriteReturn
    <3>1. op' = "idle" /\ op \in {"read", "write"}
      BY <2>3 DEF ReadReturn, WriteReturn, Return
    <3>2. StepsLeft' = 0
      BY <3>1 DEF StepsLeft
    <3>3. StepsLeft >= 1
      BY <3>1, StepsLeftFacts DEF StepsLeft, Lesser
    <3>4. QED
      BY <1>1, <3>2, <3>3
  <2>4. QED
    BY <2>1, <2>2, <2>3
    DEF Next, Call, Run, ReadEmpty, ReadStart, WriteFull, WriteStart
<1>3. Spec => []IInv
  BY InitIInv, NextIInv, PTL DEF Spec
<1>4. QED
  BY <1>1, <1>2, <1>3, PTL DEF Spec, CallsCountDown
================================================================================
