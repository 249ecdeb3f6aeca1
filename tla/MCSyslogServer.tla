----------------------------- MODULE MCSyslogServer -----------------------------
(***************************************************************************)
(* Instances of the log server.  Three dates, four datagrams and three     *)
(* changes of the date reach the second datagram of a rotated day, a clock *)
(* set back to a day whose file is still open, and a rotation after a      *)
(* rotation, all of it with --console too, when the screen is written.     *)
(***************************************************************************)
EXTENDS SyslogServer
================================================================================
