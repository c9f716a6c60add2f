----------------------------- MODULE NewBuffer -----------------------------
(***************************************************************************)
(* A message buffer whose new_buffer has not returned yet.  The item is in *)
(* the list before its slots are cleared (msg_buffers.c l.87-98), so that  *)
(* threads which know the id write to it and read from it meanwhile, under *)
(* a mutex that the clearing loop does not take.  An id is known before:   *)
(* its row is in the table first, and an id may be given out twice.        *)
(*                                                                         *)
(* MsgBuffer's threads exclude one another, so that its write stores the   *)
(* line in one step.  The loop is excluded by nobody: here write_to_buffer *)
(* takes a step for each time it loads buffer[slot] again (l.268-275).     *)
(***************************************************************************)
EXTENDS MsgBuffer

CONSTANT Garbage   \* what malloc left in a slot

ASSUME GarbageAssumption == Garbage \notin Msgs \cup {NULL}

VARIABLES
    cleared,       \* i of the clearing loop: slots cleared so far
    early,         \* history: lines handed to write_to_buffer before the return
    wiped          \* history: lines whose only pointer the loop overwrote

nvars == <<vars, cleared, early, wiped>>

(* The item as it is linked. *)
NewInit ==
    /\ buffer = [i \in 0 .. N-1 |-> Garbage] /\ FieldsInit
    /\ cleared = 0 /\ early = {} /\ wiped = {}

Returned == cleared = N

(* A write through a null pointer ends the process, and with it the loop. *)
Alive == \A w \in Writers : pc[w] # "w_died"

ClearSlot ==
    /\ Alive /\ ~Returned
    /\ buffer' = [buffer EXCEPT ![cleared] = NULL]
    /\ wiped' = wiped \cup ({buffer[cleared]} \cap Msgs)
    /\ cleared' = cleared + 1
    /\ UNCHANGED <<first_line, line_count, owner, pc, line, unsent, history, early>>

-----------------------------------------------------------------------------
(* The store of write_to_buffer.  What malloc returns goes into the slot ... *)
WriteMalloc(w) ==
    /\ Goto(w, "w_check", "w_test")
    /\ ~Full
    /\ \E x \in {line[w], NULL} : buffer' = [buffer EXCEPT ![NextSlot] = x]
    /\ UNCHANGED <<first_line, line_count, owner, line, unsent, history>>

(* Where the code finds the slot empty, and where it does not. *)
GotoOnSlot(w, from, empty, filled) ==
    /\ pc[w] = from
    /\ pc' = [pc EXCEPT ![w] = IF buffer[NextSlot] = NULL THEN empty ELSE filled]
    /\ UNCHANGED <<shared, owner, line, unsent, history>>

(* Slips: no test, and return 3 without m_unlock. *)
WriteTest_Dropped(w) == GotoOnSlot(w, "w_test", "w_copy", "w_copy")
WriteTest_KeepsLock(w) == GotoOnSlot(w, "w_test", "idle", "w_copy")

(* ... the slot, and not the pointer, is tested: for a wiped line, too, 3  *)
(* is returned ...                                                         *)
WriteTest(w) == GotoOnSlot(w, "w_test", "w_unlock", "w_copy")

(* ... and loaded twice more, for memcpy and for the '\0' at the end. *)
WriteCopy(w) == GotoOnSlot(w, "w_copy", "w_died", "w_end")
WriteEnd(w) == GotoOnSlot(w, "w_end", "w_died", "w_count")

StoreStep(w) == WriteMalloc(w) \/ WriteTest(w) \/ WriteCopy(w) \/ WriteEnd(w)

(* What every step of the other threads does here. *)
Beside ==
    /\ Alive
    /\ early' = IF Returned THEN early ELSE early \cup (unsent \ unsent')
    /\ UNCHANGED <<cleared, wiped>>

(* All the rest is done as in MsgBuffer. *)
NewWriterStep(w) ==
    /\ \/ WriteLock(w) \/ WriteFull(w) \/ StoreStep(w)
       \/ WriteCount(w) \/ WriteBroadcast(w) \/ WriteUnlock(w)
    /\ Beside

NewReaderStep(r) == ReaderStep(r) /\ Beside

UseStep ==
    \/ \E w \in Writers : NewWriterStep(w) \/ \E m \in Msgs : WriteCall(w, m) /\ Beside
    \/ \E r \in Readers : NewReaderStep(r) \/ (ReadSpurious(r) /\ Beside)

NewNext == ClearSlot \/ UseStep

NewSpec == NewInit /\ [][NewNext]_nvars

(* As in MsgBuffer, as long as the process lives. *)
NewFairness ==
    /\ \A w \in Writers : WF_nvars(NewWriterStep(w))
    /\ \A r \in Readers : WF_nvars(NewReaderStep(r))

FairNewSpec == NewSpec /\ NewFairness

-----------------------------------------------------------------------------
NewWriterPCs == WriterPCs \cup {"w_test", "w_copy", "w_end", "w_died"}

(* Type invariant; only a slot the loop has not come to holds garbage. *)
NewTypeOK ==
    /\ buffer \in [0 .. N-1 -> Msgs \cup {NULL, Garbage}]
    /\ first_line \in 0 .. N-1
    /\ line_count \in 0 .. N
    /\ owner \in Threads \cup {Nobody}
    /\ pc \in [Threads -> NewWriterPCs \cup ReaderPCs]
    /\ line \in [Threads -> Msgs \cup {NULL}]
    /\ unsent \in SUBSET Msgs /\ early \in SUBSET Msgs /\ wiped \in SUBSET Msgs
    /\ accepted \in Seq(Msgs)
    /\ taken \in Seq(Msgs \cup {NULL})
    /\ cleared \in 0 .. N
    /\ \A i \in 0 .. N-1 : buffer[i] = Garbage => i >= cleared

(* x stands where line m was written: m itself, or NULL when m was wiped. *)
StandsFor(x, m) == x = m \/ (x = NULL /\ m \in wiped)

(* The ring keeps every line that was accepted in its place among the      *)
(* others, or an empty slot where the loop wiped the line, wherever in its *)
(* updates of the ring a write was when the loop ran over it.              *)
WindowHoldsLateMail ==
    /\ Len(accepted) = Len(taken) + line_count - Emptied
    /\ \A i \in Emptied .. line_count - 1 :
          StandsFor(buffer[Pos(i)], accepted[Len(taken) + 1 + i - Emptied])

(* Only lines handed in before new_buffer returned are lost to the loop,   *)
(* and only the write of such a line goes through a null pointer.  What    *)
(* read_buffer and read_buffer_block return is the line accepted in that   *)
(* place, or NULL for a wiped one: never memory that was not written,      *)
(* never a line twice, never one out of turn.                              *)
OnlyEarlyLinesLost ==
    /\ wiped \subseteq early
    /\ \A w \in Writers : pc[w] = "w_died" => line[w] \in wiped
    /\ Len(taken) <= Len(accepted)
    /\ \A k \in DOMAIN taken : StandsFor(taken[k], accepted[k])

(* Where wiped lines count as delivered, it is a bounded mailbox still:    *)
(* room is neither lost nor gained.                                        *)
Counted == INSTANCE Mailbox WITH Cap <- N, taken <- SubSeq(accepted, 1, Len(taken))
CountsLikeMailbox == Counted!MSpec

(* A line accepted after the return reaches a reader, although NULL, which *)
(* read_buffer returns for "no line", may come before it; unless the write *)
(* of an early line, still under way, takes the process down.              *)
LateLinesTaken ==
    \A m \in Msgs : (m \notin early /\ InSeq(m, accepted)) ~> (InSeq(m, taken) \/ ~Alive)
=============================================================================
