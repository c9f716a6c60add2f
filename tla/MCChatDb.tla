------------------------------ MODULE MCChatDb ------------------------------
(* Small instances of ChatDb for TLC. *)
EXTENDS ChatDb, TLC

(* All nicks differ in case only ("Bob" and "bob"), and so do all channel names. *)
MCFolding == (Nicks \X Nicks) \cup (Channels \X Channels)

Symm == Permutations(Threads) \cup Permutations(Nicks) \cup Permutations(Channels)
=============================================================================
