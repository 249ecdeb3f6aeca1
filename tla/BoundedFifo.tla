------------------------------ MODULE BoundedFifo ------------------------------
(***************************************************************************)
(* What a ring buffer promises its caller: a first-in first-out queue of   *)
(* at most Capacity items.  Both operations move a whole block in one      *)
(* step and report how much of it was moved.                               *)
(***************************************************************************)
EXTENDS Integers, Sequences

CONSTANTS
  Capacity,   \* the most items the queue holds
  Blocks,     \* the blocks (sequences of items) a caller may offer
  Requests    \* the numbers of items a caller may ask for

VARIABLES
  items,      \* the queued items, oldest first
  reply       \* what the last completed call returned to its caller

fifoVars == <<items, reply>>

Lesser(a, b) == IF a < b THEN a ELSE b

NoReply       == [op |-> "none",  ret |-> 0, data |-> <<>>]
WriteReply(n) == [op |-> "write", ret |-> n, data |-> <<>>]
ReadReply(s)  == [op |-> "read",  ret |-> Len(s), data |-> s]

FifoInit ==
  /\ items = <<>>
  /\ reply = NoReply

\* The longest prefix of the block that fits is queued; its length is returned.
Put(block) ==
  LET n == Lesser(Len(block), Capacity - Len(items))
  IN  /\ items' = items \o SubSeq(block, 1, n)
      /\ reply' = WriteReply(n)

\* The oldest items, at most n of them, are removed and returned in order.
Get(n) ==
  LET m == Lesser(n, Len(items))
  IN  /\ items' = SubSeq(items, m + 1, Len(items))
      /\ reply' = ReadReply(SubSeq(items, 1, m))

FifoNext ==
  \/ \E block \in Blocks : Put(block)
  \/ \E n \in Requests : Get(n)

FifoSpec == FifoInit /\ [][FifoNext]_fifoVars
================================================================================
