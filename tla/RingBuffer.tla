------------------------------- MODULE RingBuffer -------------------------------
(***************************************************************************)
(* apuex::ring_buffer<T> of data-structure/ring-buffer/ring-buffer.hpp.    *)
(* A call is a sequence of steps: the entry test, one step per iteration   *)
(* of its for loop, and the return that updates _element_count.  The       *)
(* members keep their names without the leading underscore.                *)
(***************************************************************************)
EXTENDS Integers, Sequences

CONSTANTS
  Size,       \* _buffer_size, the constructor's argument (0 is accepted)
  Values,     \* the elements of value_type that are told apart
  MaxCall     \* the largest to_read or to_write a caller passes

ASSUME SizeAssumption == Size \in Nat
ASSUME ValuesAssumption == Values # {}
ASSUME MaxCallAssumption == MaxCall \in Nat

VARIABLES
  buffer,         \* _buffer: the slots
  element_count,  \* _element_count
  rd_pos,         \* _rd_pos
  wr_pos,         \* _wr_pos
  op,             \* the call in progress: "idle", "read" or "write"
  wbuf,           \* write's argument (its to_write is the length)
  to_read,        \* read's argument
  i,              \* the loop counter of the call in progress
  rbuf,           \* what read has copied out so far
  reply           \* what the last completed call returned

members == <<buffer, element_count, rd_pos, wr_pos>>
locals  == <<op, wbuf, to_read, i, rbuf>>
vars    == <<members, locals, reply>>

Slots    == 0 .. Size - 1
Blocks   == UNION {[1 .. n -> Values] : n \in 0 .. MaxCall}
Requests == 0 .. MaxCall

\* A cursor that is reset one slot too late.
AdvanceLate(pos) == IF pos = Size THEN 0 ELSE pos + 1

\* "++pos; if(_buffer_size == pos) pos = 0;"
Advance(pos) == IF pos + 1 = Size THEN 0 ELSE pos + 1

NoReply       == [op |-> "none",  ret |-> 0, data |-> <<>>]
WriteReply(n) == [op |-> "write", ret |-> n, data |-> <<>>]
ReadReply(n, s) == [op |-> "read",  ret |-> n, data |-> s]

\* The locals of a call go out of scope when it returns.
Return(r) ==
  /\ reply' = r
  /\ op' = "idle"
  /\ wbuf' = <<>>
  /\ to_read' = 0
  /\ i' = 0
  /\ rbuf' = <<>>

--------------------------------------------------------------------------------
\* new value_type[size] leaves the slots uninitialised: any content.
Init ==
  /\ buffer \in [Slots -> Values]
  /\ element_count = 0
  /\ rd_pos = 0
  /\ wr_pos = 0
  /\ op = "idle"
  /\ wbuf = <<>>
  /\ to_read = 0
  /\ i = 0
  /\ rbuf = <<>>
  /\ reply = NoReply

\* read(rbuf, n): the early return on an empty buffer.
ReadEmpty ==
  /\ op = "idle"
  /\ element_count = 0
  /\ Return(ReadReply(0, <<>>))
  /\ UNCHANGED members

ReadStart(n) ==
  /\ op = "idle"
  /\ element_count # 0
  /\ op' = "read"
  /\ to_read' = n
  /\ i' = 0
  /\ rbuf' = <<>>
  /\ UNCHANGED <<members, wbuf, reply>>

ReadMore == i # to_read /\ i # element_count

\* One iteration of read's loop.
ReadStep ==
  /\ op = "read"
  /\ ReadMore
  /\ rbuf' = Append(rbuf, buffer[rd_pos])
  /\ rd_pos' = Advance(rd_pos)
  /\ i' = i + 1
  /\ UNCHANGED <<buffer, element_count, wr_pos, op, wbuf, to_read, reply>>

\* A return that forgets the elements it handed out.
ReadReturnUncounted ==
  /\ op = "read"
  /\ ~ReadMore
  /\ Return(ReadReply(i, rbuf))
  /\ UNCHANGED members

ReadReturn ==
  /\ op = "read"
  /\ ~ReadMore
  /\ element_count' = element_count - i
  /\ Return(ReadReply(i, rbuf))
  /\ UNCHANGED <<buffer, rd_pos, wr_pos>>

\* write(wbuf, n): the early return on a full buffer.
WriteFull ==
  /\ op = "idle"
  /\ Size = element_count
  /\ Return(WriteReply(0))
  /\ UNCHANGED members

WriteStart(block) ==
  /\ op = "idle"
  /\ Size # element_count
  /\ op' = "write"
  /\ wbuf' = block
  /\ i' = 0
  /\ UNCHANGED <<members, to_read, rbuf, reply>>

WriteMore == i # Len(wbuf) /\ i # Size - element_count

\* An iteration that does not count the element it stored.
WriteStepUncounted ==
  /\ op = "write"
  /\ WriteMore
  /\ buffer' = [buffer EXCEPT ![wr_pos] = wbuf[i + 1]]
  /\ wr_pos' = Advance(wr_pos)
  /\ UNCHANGED <<element_count, rd_pos, op, wbuf, to_read, i, rbuf, reply>>

\* An iteration that advances the cursor before it stores the element.
WriteStepLate ==
  /\ op = "write"
  /\ WriteMore
  /\ wr_pos' = Advance(wr_pos)
  /\ buffer' = [buffer EXCEPT ![Advance(wr_pos)] = wbuf[i + 1]]
  /\ i' = i + 1
  /\ UNCHANGED <<element_count, rd_pos, op, wbuf, to_read, rbuf, reply>>

\* One iteration of write's loop.
WriteStep ==
  /\ op = "write"
  /\ WriteMore
  /\ buffer' = [buffer EXCEPT ![wr_pos] = wbuf[i + 1]]
  /\ wr_pos' = Advance(wr_pos)
  /\ i' = i + 1
  /\ UNCHANGED <<element_count, rd_pos, op, wbuf, to_read, rbuf, reply>>

WriteReturn ==
  /\ op = "write"
  /\ ~WriteMore
  /\ element_count' = element_count + i
  /\ Return(WriteReply(i))
  /\ UNCHANGED <<buffer, rd_pos, wr_pos>>

Call ==
  \/ ReadEmpty
  \/ \E n \in Requests : ReadStart(n)
  \/ WriteFull
  \/ \E block \in Blocks : WriteStart(block)

Run ==
  \/ ReadStep
  \/ ReadReturn
  \/ WriteStep
  \/ WriteReturn

Next == Call \/ Run

Spec == Init /\ [][Next]_vars

\* A call that was entered runs on; nobody has to make another one.
FairSpec == Spec /\ WF_vars(Run)

--------------------------------------------------------------------------------
TypeOK ==
  /\ buffer \in [Slots -> Values]
  /\ element_count \in 0 .. Size
  /\ rd_pos \in Nat
  /\ wr_pos \in Nat
  /\ op \in {"idle", "read", "write"}
  /\ wbuf \in Blocks
  /\ to_read \in Requests
  /\ i \in 0 .. MaxCall
  /\ rbuf \in Blocks

\* Positions are taken around the ring.
Wrap(pos) == IF pos >= Size THEN pos - Size ELSE pos

\* Slots a write in progress has filled and not yet counted.
Filled == IF op = "write" THEN i ELSE 0

\* Slots a read in progress has emptied and not yet discounted.
Emptied == IF op = "read" THEN i ELSE 0

\* Where the oldest item that no completed call has removed lives.
Oldest == IF Emptied > rd_pos THEN rd_pos - Emptied + Size ELSE rd_pos - Emptied

\* The queue the buffer stands for: what completed calls wrote and did not read.
Items == [k \in 1 .. element_count |-> buffer[Wrap(Oldest + k - 1)]]

\* Both cursors stay inside the array, the two loops never overrun the free or
\* the used part, and the distance between the cursors is always the number of
\* items in between (ring-buffer.hpp:25-27 and 38-40 advance the cursors before
\* lines 29 and 42 adjust the count).
CursorsAgree ==
  /\ rd_pos < Size \/ rd_pos = 0
  /\ wr_pos < Size \/ wr_pos = 0
  /\ Filled <= Size - element_count
  /\ Emptied <= element_count
  /\ wr_pos = Wrap(Oldest + element_count + Filled)

\* In the middle of a loop, what read has copied out is the head of the queue,
\* and what write has copied in lies right behind its tail, in order.
CopiesInOrder ==
  /\ op = "read" => /\ i <= to_read
                    /\ Len(rbuf) = i
                    /\ \A k \in 1 .. i : rbuf[k] = Items[k]
  /\ op = "write" => /\ i <= Len(wbuf)
                     /\ \A k \in 1 .. i :
                          buffer[Wrap(Oldest + element_count + k - 1)] = wbuf[k]

\* The inductive invariant of the proofs.
IInv ==
  /\ TypeOK
  /\ CursorsAgree
  /\ CopiesInOrder

Fifo == INSTANCE BoundedFifo WITH Capacity <- Size, items <- Items

\* Seen from its callers the ring buffer is a bounded FIFO queue: every block
\* written comes out once, in order, and every return value is the number of
\* elements moved, wherever the cursors wrap (ring-buffer.hpp:21-45).
IsBoundedFifo == Fifo!FifoSpec

\* Each loop ends: the "!=" tests of lines 25 and 38 are met and not jumped over.
CallsReturn == op # "idle" ~> op = "idle"
================================================================================
