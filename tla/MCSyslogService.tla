----------------------------- MODULE MCSyslogService -----------------------------
(***************************************************************************)
(* The Windows service over two dates and two datagrams: Stop can arrive   *)
(* before the server is created, before its socket is bound, during a      *)
(* rotation and after the death of the server thread.                      *)
(***************************************************************************)
EXTENDS SyslogService
================================================================================
