----------------------------- MODULE MCNetProto -----------------------------
(* Small instances of NetProto for TLC: the sizes are in the .cfg. *)
EXTENDS NetProto
=============================================================================
