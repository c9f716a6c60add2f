---------------------------- MODULE MCNewBuffer ----------------------------
(* Small instances of NewBuffer for TLC: the sizes are in the .cfg. *)
EXTENDS NewBuffer
=============================================================================
