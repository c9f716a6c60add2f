---------------------------- MODULE MCBufferHeap ----------------------------
(* Small instances of BufferHeap for TLC: the sizes are in the .cfg. *)
EXTENDS BufferHeap
=============================================================================
