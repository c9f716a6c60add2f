----------------------------- MODULE MsgBuffer -----------------------------
(***************************************************************************)
(* One message buffer of server_side/msg_buffers.c: a ring of malloced     *)
(* lines guarded by a mutex, with a condition variable for blocking        *)
(* readers.  The threads that call write_to_buffer, read_buffer and        *)
(* read_buffer_block on it run concurrently, one step per statement that   *)
(* touches the shared state.  The callers have found the buffer in the     *)
(* list of buffers before.                                                 *)
(***************************************************************************)
EXTENDS Integers, Sequences

CONSTANTS Msgs,      \* messages, each handed to write_to_buffer at most once
          Writers,   \* threads that call write_to_buffer
          Pollers,   \* threads that call read_buffer
          Blockers,  \* threads that call read_buffer_block
          N,         \* BUFFER_LINE_AMOUNT
          NULL,      \* the null pointer
          Nobody     \* the owner of a free mutex

Readers == Pollers \cup Blockers
Threads == Writers \cup Readers

ASSUME NAssumption == N \in Nat \ {0}
ASSUME NullAssumption == NULL \notin Msgs
ASSUME ThreadsAssumption ==
    /\ Nobody \notin Threads
    /\ Writers \cap Readers = {}
    /\ Pollers \cap Blockers = {}

VARIABLES
    buffer,      \* the ring: a line or NULL in each slot
    first_line,  \* index of the oldest line
    line_count,  \* number of lines
    owner,       \* who holds buffer_access
    pc,          \* where each thread is
    line,        \* the line each thread has in hand (NULL: none)
    unsent,      \* messages no writer has picked up yet
    accepted,    \* history: lines whose write was counted, in order
    taken        \* history: lines readers took out, in order

shared == <<buffer, first_line, line_count>>
history == <<accepted, taken>>
vars == <<buffer, first_line, line_count, owner, pc, line, unsent, accepted, taken>>

(* The fields new_buffer sets before it links the item. *)
FieldsInit ==
    /\ first_line = 0
    /\ line_count = 0
    /\ owner = Nobody
    /\ pc = [t \in Threads |-> "idle"]
    /\ line = [t \in Threads |-> NULL]
    /\ unsent = Msgs
    /\ accepted = <<>>
    /\ taken = <<>>

Init == buffer = [i \in 0 .. N-1 |-> NULL] /\ FieldsInit

Goto(t, from, to) == pc[t] = from /\ pc' = [pc EXCEPT ![t] = to]

-----------------------------------------------------------------------------
(* The plain operations on the ring, and plausible slips in them. *)

Full_OffByOne == line_count > N
Full == line_count >= N

NextSlot_Next == (first_line + line_count + 1) % N
NextSlot == (first_line + line_count) % N

Wrap_Early(i) == IF i >= N - 1 THEN 0 ELSE i
Wrap(i) == IF i >= N THEN 0 ELSE i

-----------------------------------------------------------------------------
(* write_to_buffer *)

WriteCall(w, m) ==
    /\ Goto(w, "idle", "w_lock")
    /\ m \in unsent
    /\ unsent' = unsent \ {m}
    /\ line' = [line EXCEPT ![w] = m]
    /\ UNCHANGED <<shared, owner, history>>

WriteLock(w) ==
    /\ Goto(w, "w_lock", "w_check")
    /\ owner = Nobody
    /\ owner' = w
    /\ UNCHANGED <<shared, line, unsent, history>>

(* A slip: return 2 without m_unlock. *)
WriteFull_KeepsLock(w) ==
    /\ Goto(w, "w_check", "idle")
    /\ Full
    /\ UNCHANGED <<shared, owner, line, unsent, history>>

(* No room: the call returns 2 and the message is gone. *)
WriteFull(w) ==
    /\ Goto(w, "w_check", "w_unlock")
    /\ Full
    /\ UNCHANGED <<shared, owner, line, unsent, history>>

WriteSlot(w) ==
    /\ Goto(w, "w_check", "w_count")
    /\ ~Full
    /\ buffer' = [buffer EXCEPT ![NextSlot] = line[w]]
    /\ UNCHANGED <<first_line, line_count, owner, line, unsent, history>>

(* malloc returned NULL, which is what the slot holds: the call returns 3. *)
WriteNoMemory(w) ==
    /\ Goto(w, "w_check", "w_unlock")
    /\ ~Full
    /\ buffer' = [buffer EXCEPT ![NextSlot] = NULL]
    /\ UNCHANGED <<first_line, line_count, owner, line, unsent, history>>

WriteCount(w) ==
    /\ Goto(w, "w_count", "w_broadcast")
    /\ line_count' = line_count + 1
    /\ accepted' = Append(accepted, line[w])
    /\ UNCHANGED <<buffer, first_line, owner, line, unsent, taken>>

Woken_One(q) ==
    IF \E t \in DOMAIN q : q[t] = "r_parked"
    THEN [q EXCEPT ![CHOOSE t \in DOMAIN q : q[t] = "r_parked"] = "r_relock"]
    ELSE q
Woken(q) == [t \in DOMAIN q |-> IF q[t] = "r_parked" THEN "r_relock" ELSE q[t]]

(* pthread_cond_broadcast: every parked reader goes for the mutex again. *)
WriteBroadcast(w) ==
    /\ pc[w] = "w_broadcast"
    /\ pc' = Woken([pc EXCEPT ![w] = "w_unlock"])
    /\ UNCHANGED <<shared, owner, line, unsent, history>>

WriteUnlock(w) ==
    /\ Goto(w, "w_unlock", "idle")
    /\ owner' = Nobody
    /\ line' = [line EXCEPT ![w] = NULL]
    /\ UNCHANGED <<shared, unsent, history>>

-----------------------------------------------------------------------------
(* read_buffer_internal: read_buffer for pollers, read_buffer_block for    *)
(* blockers                                                                *)

(* The line the previous call returned is consumed by its caller. *)
ReadCall(r) ==
    /\ Goto(r, "idle", "r_lock")
    /\ line' = [line EXCEPT ![r] = NULL]
    /\ UNCHANGED <<shared, owner, unsent, history>>

ReadLock(r) ==
    /\ Goto(r, "r_lock", "r_check")
    /\ owner = Nobody
    /\ owner' = r
    /\ UNCHANGED <<shared, line, unsent, history>>

(* read_buffer of an empty buffer: return NULL. *)
ReadEmpty(r) ==
    /\ r \in Pollers
    /\ Goto(r, "r_check", "r_unlock")
    /\ line_count = 0
    /\ UNCHANGED <<shared, owner, line, unsent, history>>

(* pthread_cond_wait releases the mutex and parks in one step ... *)
ReadWait(r) ==
    /\ r \in Blockers
    /\ Goto(r, "r_check", "r_parked")
    /\ line_count = 0
    /\ owner' = Nobody
    /\ UNCHANGED <<shared, line, unsent, history>>

(* ... may return without a broadcast ... *)
ReadSpurious(r) ==
    /\ Goto(r, "r_parked", "r_relock")
    /\ UNCHANGED <<shared, owner, line, unsent, history>>

AfterWait_If == "r_take"
AfterWait == "r_check"

(* ... and returns holding the mutex; the while loop tests the count again. *)
ReadRelock(r) ==
    /\ Goto(r, "r_relock", AfterWait)
    /\ owner = Nobody
    /\ owner' = r
    /\ UNCHANGED <<shared, line, unsent, history>>

ReadReady(r) ==
    /\ Goto(r, "r_check", "r_take")
    /\ line_count > 0
    /\ UNCHANGED <<shared, owner, line, unsent, history>>

ReadTake(r) ==
    /\ Goto(r, "r_take", "r_advance")
    /\ line' = [line EXCEPT ![r] = buffer[first_line]]
    /\ buffer' = [buffer EXCEPT ![first_line] = NULL]
    /\ taken' = Append(taken, buffer[first_line])
    /\ UNCHANGED <<first_line, line_count, owner, unsent, accepted>>

ReadAdvance(r) ==
    /\ Goto(r, "r_advance", "r_unlock")
    /\ first_line' = Wrap(first_line + 1)
    /\ line_count' = line_count - 1
    /\ UNCHANGED <<buffer, owner, line, unsent, history>>

ReadUnlock(r) ==
    /\ Goto(r, "r_unlock", "idle")
    /\ owner' = Nobody
    /\ UNCHANGED <<shared, line, unsent, history>>

-----------------------------------------------------------------------------
WriterStep(w) ==
    \/ WriteLock(w) \/ WriteFull(w) \/ WriteSlot(w) \/ WriteNoMemory(w)
    \/ WriteCount(w) \/ WriteBroadcast(w) \/ WriteUnlock(w)

(* What a reader does of its own accord: all but waking up for no reason. *)
ReaderStep(r) ==
    \/ ReadCall(r) \/ ReadLock(r) \/ ReadEmpty(r) \/ ReadWait(r) \/ ReadRelock(r)
    \/ ReadReady(r) \/ ReadTake(r) \/ ReadAdvance(r) \/ ReadUnlock(r)

Next ==
    \/ \E w \in Writers : WriterStep(w) \/ \E m \in Msgs : WriteCall(w, m)
    \/ \E r \in Readers : ReaderStep(r) \/ ReadSpurious(r)

Spec == Init /\ [][Next]_vars

(* Every thread is scheduled; readers come back, as the connection loop of *)
(* servermain.c does every 200 ms.  Nobody has to start a write.           *)
Fairness ==
    /\ \A w \in Writers : WF_vars(WriterStep(w))
    /\ \A r \in Readers : WF_vars(ReaderStep(r))

FairSpec == Spec /\ Fairness
-----------------------------------------------------------------------------
(* What is in the ring. *)

InCritical(t) == pc[t] \in {"w_check", "w_count", "w_broadcast", "w_unlock",
                            "r_check", "r_take", "r_advance", "r_unlock"}

Taking == \E r \in Readers : pc[r] = "r_advance"

(* Slots at the front of the window a reader has emptied but not yet passed. *)
Emptied == IF Taking THEN 1 ELSE 0

(* The slot i places after the oldest line. *)
Pos(i) == (first_line + i) % N

WriterPCs == {"idle", "w_lock", "w_check", "w_count", "w_broadcast", "w_unlock"}
ReaderPCs == {"idle", "r_lock", "r_check", "r_parked", "r_relock", "r_take",
              "r_advance", "r_unlock"}

(* Type invariant.  The counters stay in range: the unsigned line_count is *)
(* never decremented below 0 (l.210) and the ring index never reaches the  *)
(* array's end outside of ReadAdvance (l.213).                             *)
TypeOK ==
    /\ buffer \in [0 .. N-1 -> Msgs \cup {NULL}]
    /\ first_line \in 0 .. N-1
    /\ line_count \in 0 .. N
    /\ owner \in Threads \cup {Nobody}
    /\ pc \in [Threads -> WriterPCs \cup ReaderPCs]
    /\ line \in [Threads -> Msgs \cup {NULL}]
    /\ unsent \in SUBSET Msgs
    /\ accepted \in Seq(Msgs)
    /\ taken \in Seq(Msgs)

(* The mutex protects the ring: who is between a lock and an unlock is the *)
(* owner, what was tested under the lock still holds where it is used, and *)
(* a reader between ReadTake and ReadAdvance has left an empty first slot. *)
LockProtects ==
    /\ \A t \in Threads : InCritical(t) <=> owner = t
    /\ \A w \in Writers :
          /\ pc[w] \in WriterPCs
          /\ pc[w] # "idle" => line[w] \in Msgs
          /\ pc[w] = "w_count" => line_count < N /\ buffer[NextSlot] = line[w]
    /\ \A r \in Readers :
          /\ pc[r] \in ReaderPCs
          /\ pc[r] \in {"r_parked", "r_relock"} => r \in Blockers
          /\ pc[r] \in {"r_take", "r_advance"} => line_count > 0
          /\ pc[r] = "r_advance" => line[r] # NULL /\ buffer[first_line] = NULL

(* The window of line_count slots from first_line holds exactly the        *)
(* accepted lines nobody has taken, in the order in which write_to_buffer  *)
(* counted them, whatever the writers and readers of the buffer are doing. *)
WindowHoldsMail ==
    /\ Len(accepted) = Len(taken) + line_count - Emptied
    /\ \A i \in Emptied .. line_count - 1 :
          buffer[Pos(i)] = accepted[Len(taken) + 1 + i - Emptied]

(* Every slot outside the window is NULL, except the one a writer has      *)
(* filled and not yet counted: a write never overwrites (and so never      *)
(* leaks) a malloced line, and free_buffer (l.108-112) frees no line that  *)
(* a reader has been given.                                                *)
NoLineOutsideWindow ==
    \A i \in line_count .. N - 1 :
        buffer[Pos(i)] # NULL =>
            i = line_count /\ \E w \in Writers : pc[w] = "w_count" /\ buffer[Pos(i)] = line[w]

(* read_buffer_block returns only with a line, also when pthread_cond_wait *)
(* wakes up spuriously or another reader took the line first (msg_buffers.h *)
(* l.26: "will block until there is a new message to read").               *)
BlockedReadReturnsLine ==
    \A r \in Blockers : pc[r] = "r_unlock" => line[r] # NULL

(* No lost wakeup: a reader stays parked next to a line only while the     *)
(* writer that counted the line still has its broadcast to do.             *)
NoLostWakeup ==
    (line_count > 0 /\ \E r \in Blockers : pc[r] = "r_parked")
        => \E w \in Writers : pc[w] = "w_broadcast"

(* The buffer implements the bounded FIFO mailbox: a write takes effect    *)
(* where it counts its line, a read where it empties the oldest slot.      *)
Abstract == INSTANCE Mailbox WITH Cap <- N
ImplementsMailbox == Abstract!MSpec

InSeq(m, q) == \E i \in 1 .. Len(q) : q[i] = m

(* Every line that was accepted is handed to some reader in the end: no    *)
(* line is stranded in the ring and no reader sleeps over one for ever.    *)
EveryLineTaken == \A m \in Msgs : InSeq(m, accepted) ~> InSeq(m, taken)
=============================================================================
