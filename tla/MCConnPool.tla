----------------------------- MODULE MCConnPool -----------------------------
(* Small instances of ConnPool for TLC: the sizes are in the .cfg. *)
EXTENDS ConnPool
=============================================================================
