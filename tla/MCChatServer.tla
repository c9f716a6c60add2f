---------------------------- MODULE MCChatServer ----------------------------
(* Small instances of ChatServer for TLC. *)
EXTENDS ChatServer, TLC

(* Every pattern matches its own text only: no letters to fold, no wildcards. *)
MCExact == {<<n, n>> : n \in Nicks \cup Channels}

(* What may be sent through each thread. *)
One == [t \in Threads |-> 1]
Two == [t \in Threads |-> 2]
TwoAndOne == [t \in Threads |-> IF t = CHOOSE u \in Threads : TRUE THEN 2 ELSE 1]

Symm == Permutations(Threads) \cup Permutations(Nicks \ {Empty})
=============================================================================
