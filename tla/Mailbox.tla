------------------------------ MODULE Mailbox ------------------------------
(***************************************************************************)
(* What msg_buffers.h promises about the buffer of one client: a bounded   *)
(* first-in first-out mailbox.  Threads that have a message for the client *)
(* deposit it (write_to_buffer), the client's connection thread withdraws  *)
(* the oldest one (read_buffer, read_buffer_block).  A deposit into a full *)
(* mailbox is refused and leaves no trace.                                 *)
(*                                                                         *)
(* The state is the history: every message ever accepted, and every        *)
(* message ever handed to a reader, both in order.                         *)
(***************************************************************************)
EXTENDS Naturals, Sequences

CONSTANTS Msgs,     \* the messages
          Cap       \* BUFFER_LINE_AMOUNT

VARIABLES accepted, \* messages deposited so far, oldest first
          taken     \* messages withdrawn so far, oldest first

mvars == <<accepted, taken>>

MInit == accepted = <<>> /\ taken = <<>>

(* A successful write_to_buffer: there is room, the message goes last. *)
Deposit(m) ==
    /\ Len(accepted) - Len(taken) < Cap
    /\ accepted' = Append(accepted, m)
    /\ UNCHANGED taken

(* A successful read: the oldest message not yet withdrawn. *)
Withdraw ==
    /\ Len(taken) < Len(accepted)
    /\ taken' = Append(taken, accepted[Len(taken) + 1])
    /\ UNCHANGED accepted

MNext == (\E m \in Msgs : Deposit(m)) \/ Withdraw

MSpec == MInit /\ [][MNext]_mvars
=============================================================================
