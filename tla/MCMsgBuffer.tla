---------------------------- MODULE MCMsgBuffer ----------------------------
(* Small instances of MsgBuffer for TLC. *)
EXTENDS MsgBuffer, TLC

Symm == Permutations(Msgs) \cup Permutations(Writers) \cup Permutations(Blockers)
=============================================================================
