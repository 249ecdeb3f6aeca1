------------------------------ MODULE MCNodeScripts ------------------------------
(***************************************************************************)
(* All arrays of at most five elements of three numbers, the enum of       *)
(* enum-tests.ts, and three runs of the query before a server with two     *)
(* sessions: one is refused while the others hold them, or comes later.    *)
(***************************************************************************)
EXTENDS NodeScripts

SourceNames == <<"Up", "Down", "Left", "Right">>
================================================================================
