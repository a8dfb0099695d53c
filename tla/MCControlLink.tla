--------------------------- MODULE MCControlLink ---------------------------
(* Small instances of ControlLink for TLC: the configuration gives the      *)
(* constants, calls are model values.                                       *)
EXTENDS ControlLink
=============================================================================
