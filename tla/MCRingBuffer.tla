------------------------------ MODULE MCRingBuffer ------------------------------
(***************************************************************************)
(* The ring buffer on a ring of three slots, with blocks that are larger   *)
(* than the ring.                                                          *)
(***************************************************************************)
EXTENDS RingBuffer
================================================================================
