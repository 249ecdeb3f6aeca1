------------------------------- MODULE MCWebPages -------------------------------
(***************************************************************************)
(* Every page of the two web applications, with every script that may be   *)
(* missing; on the watch page a user with three texts, the first message   *)
(* among them; on the labels page a user with both vertices, the one with  *)
(* alternate bounds and the one without, and a sublabel.  A width that     *)
(* holds eleven characters and one that holds none; labels that just fit,  *)
(* that miss by one, and the texts of main.js.                             *)
(***************************************************************************)
EXTENDS WebApps
================================================================================
