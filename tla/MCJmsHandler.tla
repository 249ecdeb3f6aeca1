------------------------------ MODULE MCJmsHandler ------------------------------
(***************************************************************************)
(* Three threads around a queue, with the discard flag in use: a notified  *)
(* thread can be overtaken, a second message can arrive before the first   *)
(* is taken, and a thread can time out between a notify and the removal.   *)
(***************************************************************************)
EXTENDS JmsHandler
================================================================================
