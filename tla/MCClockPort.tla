------------------------------- MODULE MCClockPort -------------------------------
(***************************************************************************)
(* Instances of the clock application: clients with timeouts, console      *)
(* events, restarts and a shutdown of the application.                     *)
(***************************************************************************)
EXTENDS ClockPort
================================================================================
