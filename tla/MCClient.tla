------------------------------ MODULE MCClient ------------------------------
(* Small instances of Client for TLC. *)
EXTENDS Client, TLC

CONSTANTS n1, n2, f1, c1, w1

(* One overlong nick, which the server takes for two. *)
MCLong == {<<n1, n2>>}

(* @f1, #c1, a mark alone, a mark at the end (what follows the first       *)
(* character is nobody's name), and a name without a mark.                 *)
MCTyped == {[first |-> "1", marks |-> {"1"}, rest |-> f1],
            [first |-> "2", marks |-> {"2"}, rest |-> c1],
            [first |-> "1", marks |-> {"1"}, rest |-> Blank],
            [first |-> "0", marks |-> {"2"}, rest |-> w1],
            [first |-> "0", marks |-> {}, rest |-> w1]}
=============================================================================
