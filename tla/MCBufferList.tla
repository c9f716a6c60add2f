---------------------------- MODULE MCBufferList ----------------------------
(* Small instances of BufferList for TLC: the sizes are in the .cfg. *)
EXTENDS BufferList
=============================================================================
