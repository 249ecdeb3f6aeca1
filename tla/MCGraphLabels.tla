------------------------------ MODULE MCGraphLabels ------------------------------
(***************************************************************************)
(* The graph alone, for what main.js says of its labels: the cells, widths *)
(* and lengths of MCWebPages.                                              *)
(***************************************************************************)
EXTENDS GraphLabels
================================================================================
