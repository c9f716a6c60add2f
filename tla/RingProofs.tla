----------------------------- MODULE RingProofs -----------------------------
(***************************************************************************)
(* Proofs about MsgBuffer and NewBuffer, for every number of threads,      *)
(* messages and slots.                                                     *)
(*                                                                         *)
(* MsgBuffer's inductive invariant is IInv: types, what the mutex          *)
(* protects, and the two halves of what the ring holds.  For NewBuffer a   *)
(* slot may be wiped at any time, in the middle of a write too; its        *)
(* invariant NInv says what a writer finds in its slot, and that as long   *)
(* as the loop runs, every line in a slot or in a writer's hands is an     *)
(* early one.                                                              *)
(***************************************************************************)
EXTENDS NewBuffer, SequenceTheorems, TLAPS

IInv == TypeOK /\ LockProtects /\ WindowHoldsMail /\ NoLineOutsideWindow

-----------------------------------------------------------------------------
(* Arithmetic of the ring index. *)

(* The slot at an offset is a slot of the array, and it is one of two.     *)
LEMMA SlotAt ==
    ASSUME NEW f \in 0 .. N-1, NEW i \in 0 .. N-1
    PROVE  /\ (f + i) % N \in 0 .. N-1
           /\ (f + i) % N = IF f + i < N THEN f + i ELSE f + i - N
<1>1. CASE f + i < N
  BY <1>1, NAssumption
<1>2. CASE ~(f + i < N)
  BY <1>2, NAssumption
<1> QED BY <1>1, <1>2

(* Different offsets are different slots. *)
LEMMA SlotsDiffer ==
    ASSUME NEW f \in 0 .. N-1, NEW i \in 0 .. N-1, NEW j \in 0 .. N-1,
           (f + i) % N = (f + j) % N
    PROVE  i = j
<1>1. /\ (f + i) % N = IF f + i < N THEN f + i ELSE f + i - N
      /\ (f + j) % N = IF f + j < N THEN f + j ELSE f + j - N
  BY SlotAt
<1> QED BY <1>1, NAssumption

(* Moving first_line one on, with the wrap at the end of the array, moves  *)
(* every offset one back; the slot left behind becomes the last one.       *)
LEMMA WrapShifts ==
    ASSUME NEW f \in 0 .. N-1
    PROVE  /\ Wrap(f + 1) \in 0 .. N-1
           /\ \A i \in 0 .. N-2 : (Wrap(f + 1) + i) % N = (f + i + 1) % N
           /\ (Wrap(f + 1) + (N - 1)) % N = f
<1>1. PICK g \in 0 .. N-1 : g = Wrap(f + 1)
  BY NAssumption DEF Wrap
<1>2. ASSUME NEW i \in 0 .. N-2 PROVE (g + i) % N = (f + i + 1) % N
  <2>1. PICK j \in 0 .. N-1 : j = i + 1
    BY NAssumption
  <2>2. /\ (f + j) % N = IF f + j < N THEN f + j ELSE f + j - N
        /\ (g + i) % N = IF g + i < N THEN g + i ELSE g + i - N
    BY SlotAt, NAssumption
  <2>3. f + i + 1 = f + j
    BY <2>1, NAssumption
  <2> QED BY <1>1, <2>1, <2>2, <2>3, NAssumption DEF Wrap
<1>3. (g + (N - 1)) % N = f
  <2>1. PICK j \in 0 .. N-1 : j = N - 1
    BY NAssumption
  <2>2. (g + j) % N = IF g + j < N THEN g + j ELSE g + j - N
    BY SlotAt
  <2> QED BY <1>1, <2>1, <2>2, NAssumption DEF Wrap
<1> QED BY <1>1, <1>2, <1>3

-----------------------------------------------------------------------------
(* The invariant holds initially. *)
LEMMA InitIInv == Init => IInv
<1> SUFFICES ASSUME Init PROVE IInv
  OBVIOUS
<1> USE NAssumption DEF Init, FieldsInit
<1>1. TypeOK
  BY DEF TypeOK, WriterPCs
<1>2. LockProtects
  BY ThreadsAssumption DEF LockProtects, InCritical, WriterPCs, ReaderPCs, Threads
<1>3. Emptied = 0
  BY DEF Emptied, Taking, Threads
<1>4. WindowHoldsMail
  BY <1>3 DEF WindowHoldsMail
<1>5. NoLineOutsideWindow
  BY SlotAt DEF NoLineOutsideWindow, Pos
<1> QED BY <1>1, <1>2, <1>4, <1>5 DEF IInv

-----------------------------------------------------------------------------
(* Most steps move a thread or the mutex and leave the ring alone. *)

QuietWrite(w) == WriteLock(w) \/ WriteFull(w) \/ WriteBroadcast(w) \/ WriteUnlock(w)

QuietRead(r) ==
    \/ ReadCall(r) \/ ReadLock(r) \/ ReadEmpty(r) \/ ReadWait(r) \/ ReadSpurious(r)
    \/ ReadRelock(r) \/ ReadReady(r) \/ ReadUnlock(r)

LEMMA RingUntouched ==
    ASSUME WindowHoldsMail, NoLineOutsideWindow, UNCHANGED <<shared, history>>,
           \A r \in Readers : pc'[r] = "r_advance" <=> pc[r] = "r_advance",
           \A w \in Writers : pc[w] = "w_count" => pc'[w] = "w_count" /\ line'[w] = line[w]
    PROVE  WindowHoldsMail' /\ NoLineOutsideWindow'
<1>1. UNCHANGED <<buffer, first_line, line_count, accepted, taken>>
  BY DEF shared, history
<1>2. Emptied' = Emptied
  BY DEF Emptied, Taking
<1>3. WindowHoldsMail'
  BY <1>1, <1>2 DEF WindowHoldsMail, Pos
<1>4. NoLineOutsideWindow'
  BY <1>1 DEF NoLineOutsideWindow, Pos
<1> QED BY <1>3, <1>4

LEMMA QuietWriteStep == ASSUME IInv, NEW w \in Writers, QuietWrite(w) PROVE IInv'
<1> USE ThreadsAssumption DEF IInv, Threads, Readers, Goto, WriterPCs, ReaderPCs, shared, history
<1>1. CASE WriteLock(w)
  <2>1. TypeOK'
    BY <1>1 DEF WriteLock, TypeOK
  <2>2. LockProtects'
    BY <1>1 DEF WriteLock, TypeOK, LockProtects, InCritical, NextSlot
  <2>3. WindowHoldsMail' /\ NoLineOutsideWindow'
    BY <1>1, RingUntouched DEF WriteLock, TypeOK
  <2> QED BY <2>1, <2>2, <2>3
<1>2. CASE WriteFull(w)
  <2>1. TypeOK'
    BY <1>2 DEF WriteFull, TypeOK
  <2>2. LockProtects'
    BY <1>2 DEF WriteFull, TypeOK, LockProtects, InCritical, NextSlot
  <2>3. WindowHoldsMail' /\ NoLineOutsideWindow'
    BY <1>2, RingUntouched DEF WriteFull, TypeOK
  <2> QED BY <2>1, <2>2, <2>3
<1>3. CASE WriteBroadcast(w)
  <2>1. TypeOK'
    BY <1>3 DEF WriteBroadcast, Woken, TypeOK
  <2>2. LockProtects'
    BY <1>3 DEF WriteBroadcast, Woken, TypeOK, LockProtects, InCritical, NextSlot
  <2>3. WindowHoldsMail' /\ NoLineOutsideWindow'
    BY <1>3, RingUntouched DEF WriteBroadcast, Woken, TypeOK
  <2> QED BY <2>1, <2>2, <2>3
<1>4. CASE WriteUnlock(w)
  <2>1. TypeOK'
    BY <1>4 DEF WriteUnlock, TypeOK
  <2>2. LockProtects'
    BY <1>4 DEF WriteUnlock, TypeOK, LockProtects, InCritical, NextSlot
  <2>3. WindowHoldsMail' /\ NoLineOutsideWindow'
    BY <1>4, RingUntouched DEF WriteUnlock, TypeOK
  <2> QED BY <2>1, <2>2, <2>3
<1> QED BY <1>1, <1>2, <1>3, <1>4 DEF QuietWrite

LEMMA QuietReadStep == ASSUME IInv, NEW r \in Readers, QuietRead(r) PROVE IInv'
<1> USE ThreadsAssumption DEF IInv, Threads, Readers, Goto, WriterPCs, ReaderPCs, shared, history
<1>1. CASE ReadCall(r)
  <2>1. TypeOK'
    BY <1>1 DEF ReadCall, TypeOK
  <2>2. LockProtects'
    BY <1>1 DEF ReadCall, TypeOK, LockProtects, InCritical, NextSlot
  <2>3. WindowHoldsMail' /\ NoLineOutsideWindow'
    BY <1>1, RingUntouched DEF ReadCall, TypeOK
  <2> QED BY <2>1, <2>2, <2>3
<1>2. CASE ReadLock(r)
  <2>1. TypeOK'
    BY <1>2 DEF ReadLock, TypeOK
  <2>2. LockProtects'
    BY <1>2 DEF ReadLock, TypeOK, LockProtects, InCritical, NextSlot
  <2>3. WindowHoldsMail' /\ NoLineOutsideWindow'
    BY <1>2, RingUntouched DEF ReadLock, TypeOK
  <2> QED BY <2>1, <2>2, <2>3
<1>3. CASE ReadEmpty(r)
  <2>1. TypeOK'
    BY <1>3 DEF ReadEmpty, TypeOK
  <2>2. LockProtects'
    BY <1>3 DEF ReadEmpty, TypeOK, LockProtects, InCritical, NextSlot
  <2>3. WindowHoldsMail' /\ NoLineOutsideWindow'
    BY <1>3, RingUntouched DEF ReadEmpty, TypeOK
  <2> QED BY <2>1, <2>2, <2>3
<1>4. CASE ReadWait(r)
  <2>1. TypeOK'
    BY <1>4 DEF ReadWait, TypeOK
  <2>2. LockProtects'
    BY <1>4 DEF ReadWait, TypeOK, LockProtects, InCritical, NextSlot
  <2>3. WindowHoldsMail' /\ NoLineOutsideWindow'
    BY <1>4, RingUntouched DEF ReadWait, TypeOK
  <2> QED BY <2>1, <2>2, <2>3
<1>5. CASE ReadSpurious(r)
  <2>1. TypeOK'
    BY <1>5 DEF ReadSpurious, TypeOK
  <2>2. LockProtects'
    BY <1>5 DEF ReadSpurious, TypeOK, LockProtects, InCritical, NextSlot
  <2>3. WindowHoldsMail' /\ NoLineOutsideWindow'
    BY <1>5, RingUntouched DEF ReadSpurious, TypeOK
  <2> QED BY <2>1, <2>2, <2>3
<1>6. CASE ReadRelock(r)
  <2>1. TypeOK'
    BY <1>6 DEF ReadRelock, AfterWait, TypeOK
  <2>2. LockProtects'
    BY <1>6 DEF ReadRelock, AfterWait, TypeOK, LockProtects, InCritical, NextSlot
  <2>3. WindowHoldsMail' /\ NoLineOutsideWindow'
    BY <1>6, RingUntouched DEF ReadRelock, AfterWait, TypeOK
  <2> QED BY <2>1, <2>2, <2>3
<1>7. CASE ReadReady(r)
  <2>1. TypeOK'
    BY <1>7 DEF ReadReady, TypeOK
  <2>2. LockProtects'
    BY <1>7 DEF ReadReady, TypeOK, LockProtects, InCritical, NextSlot
  <2>3. WindowHoldsMail' /\ NoLineOutsideWindow'
    BY <1>7, RingUntouched DEF ReadReady, TypeOK
  <2> QED BY <2>1, <2>2, <2>3
<1>8. CASE ReadUnlock(r)
  <2>1. TypeOK'
    BY <1>8 DEF ReadUnlock, TypeOK
  <2>2. LockProtects'
    BY <1>8 DEF ReadUnlock, TypeOK, LockProtects, InCritical, NextSlot
  <2>3. WindowHoldsMail' /\ NoLineOutsideWindow'
    BY <1>8, RingUntouched DEF ReadUnlock, TypeOK
  <2> QED BY <2>1, <2>2, <2>3
<1> QED BY <1>1, <1>2, <1>3, <1>4, <1>5, <1>6, <1>7, <1>8 DEF QuietRead

LEMMA WriteCallStep ==
    ASSUME IInv, NEW w \in Writers, NEW m \in Msgs, WriteCall(w, m) PROVE IInv'
<1> USE ThreadsAssumption
    DEF IInv, Threads, Readers, Goto, WriterPCs, ReaderPCs, shared, history, WriteCall
<1>1. TypeOK'
  BY DEF TypeOK
<1>2. LockProtects'
  BY DEF TypeOK, LockProtects, InCritical, NextSlot
<1>3. WindowHoldsMail' /\ NoLineOutsideWindow'
  BY RingUntouched DEF TypeOK
<1> QED BY <1>1, <1>2, <1>3

-----------------------------------------------------------------------------
(* The steps that change the ring. *)

(* Whoever holds the mutex is alone between lock and unlock. *)
LEMMA OwnerAlone ==
    ASSUME LockProtects, NEW t \in Threads, InCritical(t)
    PROVE  \A u \in Threads : InCritical(u) => u = t
BY DEF LockProtects

LEMMA WriteSlotStep ==
    ASSUME IInv, NEW w \in Writers, WriteSlot(w) \/ WriteNoMemory(w) PROVE IInv'
<1> USE NAssumption, ThreadsAssumption DEF IInv, Threads, Readers, Goto
<1> USE DEF WriteSlot, WriteNoMemory, Full
<1>1. /\ first_line \in 0 .. N-1 /\ line_count \in 0 .. N-1
      /\ UNCHANGED <<first_line, line_count, accepted, taken, line>>
  BY DEF TypeOK, history
<1>2. PICK x \in Msgs \cup {NULL} :
          /\ buffer' = [buffer EXCEPT ![NextSlot] = x]
          /\ x # NULL => x = line[w] /\ pc'[w] = "w_count"
          /\ pc'[w] = "w_count" => x = line[w]
  BY DEF TypeOK
<1>3. NextSlot \in 0 .. N-1 /\ NextSlot = Pos(line_count)
  BY <1>1, SlotAt DEF NextSlot, Pos
<1>4. \A u \in Threads : InCritical(u) => u = w
  BY OwnerAlone DEF InCritical
<1>5. \A i \in 0 .. N-1 : i # line_count =>
          Pos(i)' = Pos(i) /\ Pos(i) \in 0 .. N-1 /\ Pos(i) # NextSlot
  BY <1>1, <1>3, SlotAt, SlotsDiffer DEF Pos
<1>6. TypeOK'
  BY <1>2, <1>3 DEF TypeOK, WriterPCs, history
<1>7. LockProtects'
  <2>1. \A t \in Threads : InCritical(t)' <=> owner' = t
    BY DEF TypeOK, LockProtects, InCritical
  <2>2. \A v \in Writers : pc'[v] = "w_count" => line_count' < N /\ buffer'[NextSlot'] = line'[v]
    <3>1. \A v \in Writers : pc'[v] = "w_count" => v = w
      BY <1>4 DEF TypeOK, InCritical
    <3>2. NextSlot' = NextSlot /\ (pc'[w] = "w_count" => buffer'[NextSlot] = line'[w])
      BY <1>1, <1>2, <1>3 DEF NextSlot, TypeOK
    <3> QED BY <1>1, <3>1, <3>2
  <2>3. \A v \in Writers : pc'[v] \in WriterPCs /\ (pc'[v] # "idle" => line'[v] \in Msgs)
    BY <1>1 DEF TypeOK, LockProtects, WriterPCs
  <2>4. \A r \in Readers : pc'[r] = pc[r] /\ pc[r] \notin {"r_take", "r_advance"}
    BY <1>4 DEF TypeOK, InCritical
  <2> QED BY <2>1, <2>2, <2>3, <2>4 DEF LockProtects, ReaderPCs
<1>8. Emptied' = Emptied /\ Emptied \in 0 .. 1
  BY DEF Emptied, Taking, TypeOK, LockProtects, WriterPCs, ReaderPCs
<1>9. WindowHoldsMail'
  BY <1>1, <1>2, <1>3, <1>5, <1>8 DEF WindowHoldsMail, TypeOK
<1>10. NoLineOutsideWindow'
  <2> SUFFICES ASSUME NEW i \in line_count .. N-1, buffer'[Pos(i)'] # NULL
               PROVE  i = line_count /\ pc'[w] = "w_count" /\ buffer'[Pos(i)'] = line'[w]
    BY <1>1 DEF NoLineOutsideWindow
  <2>1. CASE i = line_count
    BY <1>1, <1>2, <1>3, <2>1 DEF Pos, TypeOK
  <2>2. CASE i # line_count
    <3>1. buffer'[Pos(i)'] = buffer[Pos(i)]
      BY <1>1, <1>2, <1>3, <1>5, <2>2 DEF TypeOK
    <3> QED BY <3>1, <2>2 DEF NoLineOutsideWindow
  <2> QED BY <2>1, <2>2
<1> QED BY <1>6, <1>7, <1>9, <1>10

(* What Append does to the length and the entries of a sequence. *)
LEMMA AppendAt ==
    ASSUME NEW S, NEW q \in Seq(S), NEW x \in S
    PROVE  /\ Append(q, x) \in Seq(S)
           /\ Len(q) \in Nat
           /\ Len(Append(q, x)) = Len(q) + 1
           /\ Append(q, x)[Len(q) + 1] = x
           /\ \A k \in 1 .. Len(q) : Append(q, x)[k] = q[k]
OBVIOUS

LEMMA WriteCountStep == ASSUME IInv, NEW w \in Writers, WriteCount(w) PROVE IInv'
<1> USE NAssumption, ThreadsAssumption DEF IInv, Threads, Readers, Goto, WriteCount
<1>1. /\ first_line \in 0 .. N-1 /\ line_count \in 0 .. N-1
      /\ line[w] \in Msgs /\ buffer[Pos(line_count)] = line[w]
      /\ accepted \in Seq(Msgs) /\ taken \in Seq(Msgs)
  BY DEF TypeOK, LockProtects, NextSlot, Pos
<1>2. \A u \in Threads : InCritical(u) => u = w
  BY OwnerAlone DEF InCritical
<1>3. Emptied = 0 /\ Emptied' = 0
  BY <1>2 DEF Emptied, Taking, InCritical, TypeOK
<1>4. TypeOK'
  BY <1>1 DEF TypeOK, WriterPCs
<1>5. LockProtects'
  BY <1>1, <1>2 DEF TypeOK, LockProtects, InCritical, NextSlot, WriterPCs, ReaderPCs
<1>6. WindowHoldsMail'
  <2> DEFINE old == accepted
             new == accepted'
  <2>1. /\ Len(old) = Len(taken) + line_count
        /\ Len(old) \in Nat /\ Len(taken) \in Nat
        /\ \A i \in 0 .. line_count - 1 : buffer[Pos(i)] = old[Len(taken) + 1 + i]
    BY <1>1, <1>3 DEF WindowHoldsMail
  <2>2. new = Append(old, line[w])
    OBVIOUS
  <2>3. /\ Len(new) = Len(old) + 1
        /\ new[Len(old) + 1] = line[w]
        /\ \A k \in 1 .. Len(old) : new[k] = old[k]
    BY ONLY <1>1, <2>2, AppendAt
  <2> HIDE DEF old, new
  <2>4. ASSUME NEW i \in 0 .. line_count
        PROVE  buffer[Pos(i)] = new[Len(taken) + 1 + i]
    <3>1. CASE i = line_count
      BY ONLY <1>1, <2>1, <2>3, <3>1
    <3>2. CASE i # line_count
      <4>1. i \in 0 .. line_count - 1 /\ Len(taken) + 1 + i \in 1 .. Len(old)
        BY ONLY <1>1, <2>1, <3>2, NAssumption
      <4> QED BY ONLY <2>1, <2>3, <4>1
    <3> QED BY <3>1, <3>2
  <2>5. /\ line_count' = line_count + 1 /\ taken' = taken /\ buffer' = buffer
        /\ \A i : Pos(i)' = Pos(i)
    BY DEF Pos
  <2>6. Len(new) = Len(taken) + line_count'
    BY ONLY <1>1, <2>1, <2>3, <2>5, NAssumption
  <2>7. \A i \in 0 .. line_count' - 1 : buffer'[Pos(i)'] = new[Len(taken) + 1 + i]
    BY <1>1, <2>4, <2>5
  <2> QED BY <1>1, <1>3, <2>1, <2>5, <2>6, <2>7 DEF WindowHoldsMail, new
<1>7. NoLineOutsideWindow'
  <2>1. \A i \in line_count + 1 .. N-1 : buffer[Pos(i)] = NULL
    BY <1>1 DEF NoLineOutsideWindow
  <2>2. buffer' = buffer /\ \A i : Pos(i)' = Pos(i)
    BY DEF Pos
  <2> QED BY <1>1, <2>1, <2>2 DEF NoLineOutsideWindow
<1> QED BY <1>4, <1>5, <1>6, <1>7

LEMMA ReadTakeStep == ASSUME IInv, NEW r \in Readers, ReadTake(r) PROVE IInv'
<1> USE NAssumption, ThreadsAssumption DEF IInv, Threads, Readers, Goto, ReadTake
<1>1. /\ first_line \in 0 .. N-1 /\ line_count \in 1 .. N
      /\ accepted \in Seq(Msgs) /\ taken \in Seq(Msgs)
  BY DEF TypeOK, LockProtects
<1>2. \A u \in Threads : InCritical(u) => u = r
  BY OwnerAlone DEF InCritical
<1>3. Emptied = 0 /\ Emptied' = 1
  BY <1>2 DEF Emptied, Taking, InCritical, TypeOK
<1>4. Pos(0) = first_line
  <2>1. (first_line + 0) % N = IF first_line + 0 < N THEN first_line + 0 ELSE first_line + 0 - N
    BY ONLY <1>1, SlotAt, NAssumption, 0 \in 0 .. N-1
  <2> QED BY <1>1, <2>1 DEF Pos
<1>5. /\ Len(accepted) = Len(taken) + line_count
      /\ \A i \in 0 .. line_count - 1 : buffer[Pos(i)] = accepted[Len(taken) + 1 + i]
      /\ Len(accepted) \in Nat /\ Len(taken) \in Nat
  BY <1>1, <1>3 DEF WindowHoldsMail
<1>6. buffer[first_line] \in Msgs
  <2>1. buffer[first_line] = accepted[Len(taken) + 1]
    BY <1>1, <1>4, <1>5
  <2>2. Len(taken) + 1 \in 1 .. Len(accepted)
    BY ONLY <1>1, <1>5, NAssumption
  <2> QED BY <1>1, <2>1, <2>2
<1>7. \A i \in 1 .. N-1 : Pos(i) \in 0 .. N-1 /\ Pos(i) # first_line /\ Pos(i)' = Pos(i)
  <2> SUFFICES ASSUME NEW i \in 1 .. N-1
               PROVE  Pos(i) \in 0 .. N-1 /\ Pos(i) # first_line /\ Pos(i)' = Pos(i)
    OBVIOUS
  <2>1. i \in 0 .. N-1 /\ 0 \in 0 .. N-1
    OBVIOUS
  <2>2. (first_line + i) % N \in 0 .. N-1
    BY ONLY <1>1, <2>1, SlotAt
  <2>3. (first_line + i) % N = (first_line + 0) % N => i = 0
    BY ONLY <1>1, <2>1, SlotsDiffer
  <2> QED BY <1>4, <2>2, <2>3 DEF Pos
<1>8. \A i \in 1 .. N-1 : buffer'[Pos(i)'] = buffer[Pos(i)]
  BY <1>1, <1>7 DEF TypeOK
<1>9. TypeOK'
  BY <1>1, <1>6 DEF TypeOK, ReaderPCs
<1>10. LockProtects'
  BY <1>1, <1>2, <1>6, NullAssumption
     DEF TypeOK, LockProtects, InCritical, NextSlot, WriterPCs, ReaderPCs
<1>11. WindowHoldsMail'
  <2> DEFINE new == taken'
  <2>1. new = Append(taken, buffer[first_line])
    OBVIOUS
  <2>2. Len(new) = Len(taken) + 1
    BY ONLY <1>1, <1>6, <2>1, AppendAt
  <2> HIDE DEF new
  <2>3. accepted' = accepted /\ line_count' = line_count
    OBVIOUS
  <2>4. Len(accepted) = Len(new) + line_count - 1
    BY ONLY <1>1, <1>5, <2>2, NAssumption
  <2>5. ASSUME NEW i \in 1 .. line_count - 1
        PROVE  buffer'[Pos(i)'] = accepted[Len(new) + 1 + i - 1]
    <3>1. i \in 0 .. line_count - 1 /\ i \in 1 .. N-1
      BY ONLY <1>1, NAssumption
    <3>2. Len(new) + 1 + i - 1 = Len(taken) + 1 + i
      BY ONLY <1>5, <2>2, <3>1, NAssumption
    <3> QED BY <1>5, <1>8, <3>1, <3>2
  <2> QED BY <1>3, <2>3, <2>4, <2>5 DEF WindowHoldsMail, new
<1>12. NoLineOutsideWindow'
  <2> SUFFICES ASSUME NEW i \in line_count .. N-1 PROVE buffer'[Pos(i)'] = NULL
    BY DEF NoLineOutsideWindow
  <2>1. i \in 1 .. N-1
    BY ONLY <1>1, NAssumption
  <2>2. \A w \in Writers : pc[w] # "w_count"
    BY <1>2 DEF InCritical
  <2> QED BY <1>8, <2>1, <2>2 DEF NoLineOutsideWindow
<1> QED BY <1>9, <1>10, <1>11, <1>12

LEMMA ReadAdvanceStep == ASSUME IInv, NEW r \in Readers, ReadAdvance(r) PROVE IInv'
<1> USE NAssumption, ThreadsAssumption DEF IInv, Threads, Readers, Goto, ReadAdvance, history
<1>1. /\ first_line \in 0 .. N-1 /\ line_count \in 1 .. N
      /\ buffer[first_line] = NULL
  BY DEF TypeOK, LockProtects
<1>2. \A u \in Threads : InCritical(u) => u = r
  BY OwnerAlone DEF InCritical
<1>3. Emptied = 1 /\ Emptied' = 0
  BY <1>2 DEF Emptied, Taking, InCritical, TypeOK
<1>4. /\ Wrap(first_line + 1) \in 0 .. N-1
      /\ \A i \in 0 .. N-2 : Pos(i)' = Pos(i + 1)
      /\ Pos(N-1)' = first_line
  <2> SUFFICES ASSUME NEW i \in 0 .. N-2 PROVE Pos(i)' = Pos(i + 1)
    BY <1>1, WrapShifts DEF Pos
  <2>1. (Wrap(first_line + 1) + i) % N = (first_line + i + 1) % N
    BY <1>1, WrapShifts
  <2>2. first_line + i + 1 = first_line + (i + 1)
    BY <1>1
  <2> QED BY <2>1, <2>2 DEF Pos
<1>5. TypeOK'
  BY <1>1, <1>4 DEF TypeOK, ReaderPCs
<1>6. LockProtects'
  BY <1>1, <1>2 DEF TypeOK, LockProtects, InCritical, NextSlot, WriterPCs, ReaderPCs
<1>7. WindowHoldsMail'
  BY <1>1, <1>3, <1>4 DEF WindowHoldsMail, TypeOK
<1>8. NoLineOutsideWindow'
  <2> SUFFICES ASSUME NEW i \in line_count - 1 .. N-1 PROVE buffer[Pos(i)'] = NULL
    BY DEF NoLineOutsideWindow
  <2>1. \A w \in Writers : pc[w] # "w_count"
    BY <1>2 DEF InCritical
  <2>2. CASE i = N-1
    BY <1>1, <1>4, <2>2
  <2>3. CASE i # N-1
    <3>1. i \in 0 .. N-2 /\ i + 1 \in line_count .. N-1
      BY ONLY <1>1, <2>3, NAssumption
    <3> QED BY <1>4, <2>1, <3>1 DEF NoLineOutsideWindow
  <2> QED BY <2>2, <2>3
<1> QED BY <1>5, <1>6, <1>7, <1>8

-----------------------------------------------------------------------------
(* The steps are the quiet ones and the ones that change the ring. *)
LEMMA NextCases ==
    ASSUME Next
    PROVE  \/ \E w \in Writers :
                \/ QuietWrite(w) \/ WriteSlot(w) \/ WriteNoMemory(w) \/ WriteCount(w)
                \/ \E m \in Msgs : WriteCall(w, m)
           \/ \E r \in Readers : QuietRead(r) \/ ReadTake(r) \/ ReadAdvance(r)
BY DEF Next, WriterStep, ReaderStep, QuietWrite, QuietRead

LEMMA StepIInv == IInv /\ [Next]_vars => IInv'
<1> SUFFICES ASSUME IInv, [Next]_vars PROVE IInv'
  OBVIOUS
<1>1. CASE UNCHANGED vars
  BY <1>1 DEF vars, IInv, TypeOK, LockProtects, InCritical, WindowHoldsMail,
              NoLineOutsideWindow, Emptied, Taking, Pos, NextSlot
<1>2. CASE Next
  BY <1>2, NextCases, QuietWriteStep, QuietReadStep, WriteCallStep, WriteSlotStep,
     WriteCountStep, ReadTakeStep, ReadAdvanceStep
<1> QED BY <1>1, <1>2

(* IInv holds of every reachable state. *)
THEOREM Invariance == Spec => []IInv
BY InitIInv, StepIInv, PTL DEF Spec

(* Every variable keeps its type; in particular line_count stays between 0 *)
(* and BUFFER_LINE_AMOUNT and first_line inside the array.                 *)
THEOREM TypeCorrect == Spec => []TypeOK
<1>1. IInv => TypeOK
  BY DEF IInv
<1> QED BY <1>1, Invariance, PTL

(* The mutex gives mutual exclusion over the ring and its counters. *)
THEOREM MutualExclusion == Spec => []LockProtects
<1>1. IInv => LockProtects
  BY DEF IInv
<1> QED BY <1>1, Invariance, PTL

(* The ring holds the accepted lines not yet taken, in order. *)
THEOREM RingHoldsMail == Spec => []WindowHoldsMail
<1>1. IInv => WindowHoldsMail
  BY DEF IInv
<1> QED BY <1>1, Invariance, PTL

(* No slot outside the window holds a line, but the one being written. *)
THEOREM NothingOutsideWindow == Spec => []NoLineOutsideWindow
<1>1. IInv => NoLineOutsideWindow
  BY DEF IInv
<1> QED BY <1>1, Invariance, PTL

(* read_buffer_block returns only with a line. *)
THEOREM BlockedReadReturns == Spec => []BlockedReadReturnsLine
<1>1. Init => BlockedReadReturnsLine
  BY ThreadsAssumption DEF Init, FieldsInit, BlockedReadReturnsLine, Threads, Readers
<1>2. IInv /\ BlockedReadReturnsLine /\ [Next]_vars => BlockedReadReturnsLine'
  <2> SUFFICES ASSUME IInv, BlockedReadReturnsLine, [Next]_vars, NEW b \in Blockers,
                      pc'[b] = "r_unlock"
               PROVE  line'[b] # NULL
    BY DEF BlockedReadReturnsLine
  <2> USE ThreadsAssumption DEF IInv, TypeOK, Threads, Readers, Goto
  <2>1. CASE UNCHANGED vars
    BY <2>1 DEF vars, BlockedReadReturnsLine
  <2>2. CASE \E w \in Writers : WriterStep(w) \/ \E m \in Msgs : WriteCall(w, m)
    BY <2>2 DEF BlockedReadReturnsLine, WriterStep, WriteCall, WriteLock, WriteFull,
                WriteSlot, WriteNoMemory, WriteCount, WriteBroadcast, Woken, WriteUnlock
  <2>3. CASE \E r \in Readers : ReaderStep(r) \/ ReadSpurious(r)
    <3> PICK r \in Readers : ReaderStep(r) \/ ReadSpurious(r)
      BY <2>3
    <3> USE DEF ReaderStep, ReadCall, ReadLock, ReadEmpty, ReadWait, ReadRelock,
                AfterWait, ReadReady, ReadTake, ReadAdvance, ReadUnlock, ReadSpurious
    <3>1. CASE b = r
      BY <3>1 DEF LockProtects
    <3>2. CASE b # r
      BY <3>2 DEF BlockedReadReturnsLine
    <3> QED BY <3>1, <3>2
  <2> QED BY <2>1, <2>2, <2>3 DEF Next
<1> QED BY <1>1, <1>2, Invariance, PTL DEF Spec

(* A reader is parked next to a line only while a broadcast is due. *)
THEOREM NoWakeupIsLost == Spec => []NoLostWakeup
<1>1. Init => NoLostWakeup
  BY DEF Init, FieldsInit, NoLostWakeup
<1>2. IInv /\ NoLostWakeup /\ [Next]_vars => NoLostWakeup'
  <2> SUFFICES ASSUME IInv, NoLostWakeup, [Next]_vars, line_count' > 0,
                      NEW b \in Blockers, pc'[b] = "r_parked"
               PROVE  \E w \in Writers : pc'[w] = "w_broadcast"
    BY DEF NoLostWakeup
  <2> USE ThreadsAssumption DEF IInv, TypeOK, Threads, Readers, Goto
  <2>1. CASE UNCHANGED vars
    BY <2>1 DEF vars, NoLostWakeup
  <2>2. ASSUME NEW w \in Writers, WriterStep(w) \/ \E m \in Msgs : WriteCall(w, m)
        PROVE  \E v \in Writers : pc'[v] = "w_broadcast"
    <3>1. CASE WriteCount(w)
      BY <3>1 DEF WriteCount
    <3>2. CASE WriteBroadcast(w)
      BY <3>2 DEF WriteBroadcast, Woken
    <3>3. CASE ~WriteCount(w) /\ ~WriteBroadcast(w)
      <4>1. line_count' = line_count /\ pc'[b] = pc[b] /\ pc[w] # "w_broadcast"
            /\ \A v \in Writers : v # w => pc'[v] = pc[v]
        BY <2>2, <3>3 DEF shared, WriterStep, WriteCall, WriteLock, WriteFull, WriteSlot,
                          WriteNoMemory, WriteUnlock
      <4> QED BY <4>1 DEF NoLostWakeup
    <3> QED BY <3>1, <3>2, <3>3
  <2>3. ASSUME NEW r \in Readers, ReaderStep(r) \/ ReadSpurious(r)
        PROVE  \E v \in Writers : pc'[v] = "w_broadcast"
    <3>1. line_count > 0 /\ pc[b] = "r_parked"
      BY <2>3 DEF shared, ReaderStep, ReadCall, ReadLock, ReadEmpty, ReadWait, ReadRelock,
                  AfterWait, ReadReady, ReadTake, ReadAdvance, ReadUnlock, ReadSpurious,
                  LockProtects
    <3>2. \A v \in Writers : pc'[v] = pc[v]
      BY <2>3 DEF ReaderStep, ReadCall, ReadLock, ReadEmpty, ReadWait, ReadRelock,
                  ReadReady, ReadTake, ReadAdvance, ReadUnlock, ReadSpurious
    <3> QED BY <3>1, <3>2 DEF NoLostWakeup
  <2> QED BY <2>1, <2>2, <2>3 DEF Next
<1> QED BY <1>1, <1>2, Invariance, PTL DEF Spec

(* The buffer implements the bounded FIFO mailbox. *)
THEOREM Refinement == Spec => ImplementsMailbox
<1>1. Init => Abstract!MInit
  BY DEF Init, FieldsInit, Abstract!MInit
<1>2. IInv /\ [Next]_vars => [Abstract!MNext]_(Abstract!mvars)
  <2> SUFFICES ASSUME IInv, [Next]_vars
               PROVE  Abstract!MNext \/ UNCHANGED <<accepted, taken>>
    BY DEF Abstract!mvars
  <2> USE ThreadsAssumption DEF IInv, Threads, Readers, Goto
  <2>1. CASE UNCHANGED vars
    BY <2>1 DEF vars
  <2>2. ASSUME NEW w \in Writers, WriteCount(w) PROVE Abstract!MNext
    <3>1. line[w] \in Msgs /\ line_count < N /\ line_count \in Nat
      BY <2>2, NAssumption DEF WriteCount, TypeOK, LockProtects
    <3>2. Emptied = 0
      BY <2>2, OwnerAlone DEF WriteCount, Emptied, Taking, InCritical, TypeOK
    <3>3. Len(accepted) - Len(taken) < N
      <4>1. Len(accepted) = Len(taken) + line_count - 0
        BY <3>2 DEF WindowHoldsMail
      <4>2. Len(taken) \in Nat /\ N \in Nat
        BY NAssumption DEF TypeOK
      <4> QED BY ONLY <3>1, <4>1, <4>2
    <3>4. Abstract!Deposit(line[w])
      BY <2>2, <3>3 DEF WriteCount, Abstract!Deposit
    <3> QED BY <3>1, <3>4 DEF Abstract!MNext
  <2>3. ASSUME NEW r \in Readers, ReadTake(r) PROVE Abstract!MNext
    <3>1. /\ line_count \in 1 .. N /\ first_line \in 0 .. N-1 /\ N \in Nat
          /\ Len(taken) \in Nat
      BY <2>3, NAssumption DEF ReadTake, TypeOK, LockProtects
    <3>2. Emptied = 0
      BY <2>3, OwnerAlone DEF ReadTake, Emptied, Taking, InCritical, TypeOK
    <3>3. Pos(0) = first_line
      <4>1. (first_line + 0) % N
              = IF first_line + 0 < N THEN first_line + 0 ELSE first_line + 0 - N
        BY ONLY <3>1, SlotAt, NAssumption, 0 \in 0 .. N-1
      <4> QED BY <3>1, <4>1 DEF Pos
    <3>4. /\ Len(accepted) = Len(taken) + line_count
          /\ \A i \in 0 .. line_count - 1 : buffer[Pos(i)] = accepted[Len(taken) + 1 + i]
      BY <3>1, <3>2 DEF WindowHoldsMail
    <3>5. buffer[first_line] = accepted[Len(taken) + 1] /\ Len(taken) < Len(accepted)
      BY <3>1, <3>3, <3>4
    <3>6. Abstract!Withdraw
      BY <2>3, <3>5 DEF ReadTake, Abstract!Withdraw
    <3> QED BY <3>6 DEF Abstract!MNext
  <2>4. ASSUME NEW w \in Writers, WriterStep(w) \/ \E m \in Msgs : WriteCall(w, m), ~WriteCount(w)
        PROVE  UNCHANGED <<accepted, taken>>
    BY <2>4 DEF history, WriterStep, WriteCall, WriteLock, WriteFull, WriteSlot,
                WriteNoMemory, WriteBroadcast, WriteUnlock
  <2>5. ASSUME NEW r \in Readers, ReaderStep(r) \/ ReadSpurious(r), ~ReadTake(r)
        PROVE  UNCHANGED <<accepted, taken>>
    BY <2>5 DEF history, ReaderStep, ReadCall, ReadLock, ReadEmpty, ReadWait, ReadRelock,
                ReadReady, ReadAdvance, ReadUnlock, ReadSpurious
  <2> QED BY <2>1, <2>2, <2>3, <2>4, <2>5 DEF Next
<1> QED BY <1>1, <1>2, Invariance, PTL DEF Spec, ImplementsMailbox, Abstract!MSpec

-----------------------------------------------------------------------------
(* NewBuffer: the ring under the clearing loop. *)

(* Between m_lock and m_unlock; a process that dies there never unlocks. *)
Inside(t) == pc[t] \in {"w_check", "w_test", "w_copy", "w_end", "w_died", "w_count",
                        "w_broadcast", "w_unlock", "r_check", "r_take", "r_advance", "r_unlock"}

(* The mutex and the places of the threads. *)
Exclusion ==
    /\ \A t \in Threads : Inside(t) <=> owner = t
    /\ \A w \in Writers :
          /\ pc[w] \in NewWriterPCs
          /\ pc[w] # "idle" => line[w] \in Msgs
          /\ pc[w] \in {"w_test", "w_copy", "w_end", "w_count"} => line_count < N
    /\ \A r \in Readers :
          /\ pc[r] \in ReaderPCs
          /\ pc[r] \in {"r_take", "r_advance"} => line_count > 0

(* What a writer finds in the slot it has not counted yet: what malloc     *)
(* gave it, and from the test on its line, or NULL where that was wiped.   *)
FilledSlot ==
    \A w \in Writers :
        /\ pc[w] = "w_test" => buffer[Pos(line_count)] \in {line[w], NULL}
        /\ pc[w] \in {"w_copy", "w_end", "w_count"} =>
              StandsFor(buffer[Pos(line_count)], line[w])
        /\ pc[w] = "w_died" => line[w] \in wiped

(* The loop can wipe early lines only. *)
WipedEarly ==
    /\ wiped \subseteq early
    /\ ~Returned =>
          /\ \A i \in 0 .. N-1 : buffer[i] \in Msgs => buffer[i] \in early
          /\ \A w \in Writers : pc[w] # "idle" => line[w] \in early

(* The second half of TakenInTurn: what the readers got. *)
TakenInTurn ==
    /\ Len(taken) <= Len(accepted)
    /\ \A k \in DOMAIN taken : StandsFor(taken[k], accepted[k])

NInv ==
    /\ NewTypeOK /\ Exclusion /\ FilledSlot /\ WipedEarly
    /\ WindowHoldsLateMail /\ TakenInTurn

LEMMA InitNInv == NewInit => NInv
<1> SUFFICES ASSUME NewInit PROVE NInv
  OBVIOUS
<1> USE NAssumption, GarbageAssumption, ThreadsAssumption DEF NewInit, FieldsInit
<1>1. NewTypeOK
  BY DEF NewTypeOK, WriterPCs, NewWriterPCs
<1>2. Exclusion
  BY DEF Exclusion, Inside, WriterPCs, NewWriterPCs, ReaderPCs, Threads
<1>3. FilledSlot /\ WipedEarly
  BY DEF FilledSlot, WipedEarly, Threads
<1>4. WindowHoldsLateMail
  BY DEF WindowHoldsLateMail, Emptied, Taking, Threads
<1>5. TakenInTurn
  BY DEF TakenInTurn
<1> QED BY <1>1, <1>2, <1>3, <1>4, <1>5 DEF NInv

(* A step that leaves the ring alone. *)
LEMMA MailUntouched ==
    ASSUME NInv, Beside, UNCHANGED <<shared, history>>,
           \A r \in Readers : pc'[r] = "r_advance" <=> pc[r] = "r_advance",
           \A w \in Writers : pc'[w] \in {"w_test", "w_copy", "w_end", "w_died", "w_count"} =>
                pc'[w] = pc[w] /\ line'[w] = line[w],
           \A w \in Writers : pc'[w] # "idle" =>
                line'[w] \in unsent \ unsent' \/ (pc[w] # "idle" /\ line'[w] = line[w])
    PROVE  FilledSlot' /\ WipedEarly' /\ WindowHoldsLateMail' /\ TakenInTurn'
<1>1. UNCHANGED <<buffer, first_line, line_count, accepted, taken, cleared, wiped>>
  BY DEF shared, history, Beside
<1>2. Emptied' = Emptied
  BY DEF Emptied, Taking
<1>3. FilledSlot'
  BY <1>1 DEF FilledSlot, Pos, NInv, StandsFor
<1>4. WipedEarly'
  BY <1>1 DEF WipedEarly, Returned, NInv, Beside
<1>5. WindowHoldsLateMail'
  BY <1>1, <1>2 DEF WindowHoldsLateMail, Pos, NInv, StandsFor
<1>6. TakenInTurn'
  BY <1>1 DEF TakenInTurn, NInv, StandsFor
<1> QED BY <1>3, <1>4, <1>5, <1>6

LEMMA QuietWriteKeeps == ASSUME NInv, Beside, NEW w \in Writers, QuietWrite(w) PROVE NInv'
<1> USE ThreadsAssumption DEF Threads, Readers, Goto, NewWriterPCs, WriterPCs, ReaderPCs, shared, history
<1>1. CASE WriteLock(w)
  <2>1. NewTypeOK'
    BY <1>1 DEF WriteLock, NewTypeOK, NInv, Beside
  <2>2. Exclusion'
    BY <1>1 DEF WriteLock, NewTypeOK, NInv, Exclusion, Inside
  <2>3. FilledSlot' /\ WipedEarly' /\ WindowHoldsLateMail' /\ TakenInTurn'
    BY <1>1, MailUntouched DEF WriteLock, NewTypeOK, NInv
  <2> QED BY <2>1, <2>2, <2>3 DEF NInv
<1>2. CASE WriteFull(w)
  <2>1. NewTypeOK'
    BY <1>2 DEF WriteFull, NewTypeOK, NInv, Beside
  <2>2. Exclusion'
    BY <1>2 DEF WriteFull, NewTypeOK, NInv, Exclusion, Inside
  <2>3. FilledSlot' /\ WipedEarly' /\ WindowHoldsLateMail' /\ TakenInTurn'
    BY <1>2, MailUntouched DEF WriteFull, NewTypeOK, NInv
  <2> QED BY <2>1, <2>2, <2>3 DEF NInv
<1>3. CASE WriteBroadcast(w)
  <2>1. NewTypeOK'
    BY <1>3 DEF WriteBroadcast, Woken, NewTypeOK, NInv, Beside
  <2>2. Exclusion'
    BY <1>3 DEF WriteBroadcast, Woken, NewTypeOK, NInv, Exclusion, Inside
  <2>3. FilledSlot' /\ WipedEarly' /\ WindowHoldsLateMail' /\ TakenInTurn'
    BY <1>3, MailUntouched DEF WriteBroadcast, Woken, NewTypeOK, NInv
  <2> QED BY <2>1, <2>2, <2>3 DEF NInv
<1>4. CASE WriteUnlock(w)
  <2>1. NewTypeOK'
    BY <1>4 DEF WriteUnlock, NewTypeOK, NInv, Beside
  <2>2. Exclusion'
    BY <1>4 DEF WriteUnlock, NewTypeOK, NInv, Exclusion, Inside
  <2>3. FilledSlot' /\ WipedEarly' /\ WindowHoldsLateMail' /\ TakenInTurn'
    BY <1>4, MailUntouched DEF WriteUnlock, NewTypeOK, NInv
  <2> QED BY <2>1, <2>2, <2>3 DEF NInv
<1> QED BY <1>1, <1>2, <1>3, <1>4 DEF QuietWrite

LEMMA QuietReadKeeps == ASSUME NInv, Beside, NEW r \in Readers, QuietRead(r) PROVE NInv'
<1> USE ThreadsAssumption DEF Threads, Readers, Goto, NewWriterPCs, WriterPCs, ReaderPCs, shared, history,
        ReadCall, ReadLock, ReadEmpty, ReadWait, ReadSpurious, ReadRelock, AfterWait,
        ReadReady, ReadUnlock
<1>1. NewTypeOK'
  <2> USE DEF NewTypeOK, NInv, Beside
  <2>1. CASE ReadCall(r) \/ ReadLock(r)
    BY <2>1
  <2>2. CASE ReadEmpty(r) \/ ReadWait(r)
    BY <2>2
  <2>3. CASE ReadSpurious(r) \/ ReadRelock(r)
    BY <2>3
  <2>4. CASE ReadReady(r) \/ ReadUnlock(r)
    BY <2>4
  <2> QED BY <2>1, <2>2, <2>3, <2>4 DEF QuietRead
<1>2. Exclusion'
  <2> USE DEF NewTypeOK, NInv, Exclusion, Inside
  <2>1. CASE ReadCall(r) \/ ReadEmpty(r) \/ ReadSpurious(r) \/ ReadReady(r)
    BY <2>1
  <2>2. CASE ReadLock(r) \/ ReadRelock(r)
    BY <2>2
  <2>3. CASE ReadWait(r) \/ ReadUnlock(r)
    BY <2>3
  <2> QED BY <2>1, <2>2, <2>3 DEF QuietRead
<1>3. FilledSlot' /\ WipedEarly' /\ WindowHoldsLateMail' /\ TakenInTurn'
  BY MailUntouched DEF QuietRead, NewTypeOK, NInv, Exclusion
<1> QED BY <1>1, <1>2, <1>3 DEF NInv

LEMMA WriteCallKeeps ==
    ASSUME NInv, Beside, NEW w \in Writers, NEW m \in Msgs, WriteCall(w, m) PROVE NInv'
<1> USE ThreadsAssumption
    DEF Threads, Readers, Goto, NewWriterPCs, WriterPCs, ReaderPCs, shared, history, WriteCall
<1>1. NewTypeOK'
  BY DEF NewTypeOK, NInv, Beside
<1>2. Exclusion'
  BY DEF NewTypeOK, NInv, Exclusion, Inside
<1>3. FilledSlot' /\ WipedEarly' /\ WindowHoldsLateMail' /\ TakenInTurn'
  BY MailUntouched DEF NewTypeOK, NInv
<1> QED BY <1>1, <1>2, <1>3 DEF NInv

-----------------------------------------------------------------------------
(* Whoever holds the mutex is alone between lock and unlock. *)
LEMMA AloneInside ==
    ASSUME Exclusion, NEW t \in Threads, Inside(t)
    PROVE  \A u \in Threads : Inside(u) => u = t
BY DEF Exclusion

(* A step of the store moves one thread, which holds the mutex. *)
LEMMA StoreMoves ==
    ASSUME NInv, Beside, NEW w \in Writers, NEW q \in NewWriterPCs,
           Inside(w), q # "idle", q # "w_lock",
           pc'[w] = q, \A u \in Threads : u # w => pc'[u] = pc[u],
           UNCHANGED <<first_line, line_count, owner, line, unsent, accepted, taken>>,
           q \in {"w_test", "w_copy", "w_end", "w_count"} => line_count < N
    PROVE  /\ Exclusion'
           /\ \A v \in Writers : v # w =>
                 pc'[v] \notin {"w_test", "w_copy", "w_end", "w_count", "w_died"}
           /\ UNCHANGED <<cleared, early, wiped>>
           /\ Emptied' = Emptied
<1> USE ThreadsAssumption DEF Threads, Readers
<1>1. pc \in [Threads -> NewWriterPCs \cup ReaderPCs] /\ Exclusion
  BY DEF NInv, NewTypeOK
<1>2. \A u \in Threads : Inside(u) => u = w
  BY <1>1, AloneInside
<1>3. Inside(w)'
  BY DEF Inside, NewWriterPCs, WriterPCs
<1>4. \A u \in Threads : u # w => pc'[u] = pc[u] /\ (Inside(u)' <=> Inside(u))
  BY DEF Inside
<1>5. pc[w] # "idle" /\ w \notin Readers /\ pc'[w] = q
  BY <1>1 DEF Inside
<1>6. Exclusion'
  BY <1>1, <1>3, <1>4, <1>5 DEF Exclusion
<1>7. \A v \in Writers : v # w =>
          pc'[v] \notin {"w_test", "w_copy", "w_end", "w_count", "w_died"}
  BY <1>2, <1>4 DEF Inside
<1>8. UNCHANGED <<cleared, early, wiped>>
  BY DEF Beside
<1>9. Emptied' = Emptied
  BY <1>4, <1>5 DEF Emptied, Taking
<1> QED BY <1>6, <1>7, <1>8, <1>9

LEMMA WriteMallocKeeps == ASSUME NInv, Beside, NEW w \in Writers, WriteMalloc(w) PROVE NInv'
<1> USE NAssumption, GarbageAssumption, ThreadsAssumption
    DEF NInv, Threads, Readers, Goto, WriteMalloc, Full, history
<1>1. /\ first_line \in 0 .. N-1 /\ line_count \in 0 .. N-1
      /\ UNCHANGED <<first_line, line_count, owner, accepted, taken, line, unsent>>
      /\ line[w] \in Msgs /\ pc[w] = "w_check"
      /\ pc \in [Threads -> NewWriterPCs \cup ReaderPCs]
      /\ pc' = [pc EXCEPT ![w] = "w_test"]
      /\ buffer \in [0 .. N-1 -> Msgs \cup {NULL, Garbage}]
  BY DEF NewTypeOK, Exclusion
<1>2. PICK x \in {line[w], NULL} : buffer' = [buffer EXCEPT ![NextSlot] = x]
  OBVIOUS
<1>3. NextSlot \in 0 .. N-1 /\ NextSlot = Pos(line_count)
  BY <1>1, SlotAt DEF NextSlot, Pos
<1>4. /\ Exclusion'
      /\ \A v \in Writers : v # w =>
            pc'[v] \notin {"w_test", "w_copy", "w_end", "w_count", "w_died"}
      /\ UNCHANGED <<cleared, early, wiped>>
      /\ Emptied' = Emptied
  <2>1. Inside(w) /\ "w_test" \in NewWriterPCs
    BY <1>1 DEF Inside, NewWriterPCs
  <2>2. pc'[w] = "w_test" /\ \A u \in Threads : u # w => pc'[u] = pc[u]
    BY <1>1
  <2>3. UNCHANGED <<first_line, line_count, owner, line, unsent, accepted, taken>> /\ line_count < N
    BY <1>1, NAssumption
  <2>4. NInv
    OBVIOUS
  <2> QED BY ONLY <2>1, <2>2, <2>3, <2>4, Beside, StoreMoves
<1>5. \A i \in 0 .. N-1 : i # line_count =>
          Pos(i)' = Pos(i) /\ Pos(i) \in 0 .. N-1 /\ Pos(i) # NextSlot
  BY <1>1, <1>3, SlotAt, SlotsDiffer DEF Pos
<1>6. NewTypeOK'
  <2>1. /\ buffer' \in [0 .. N-1 -> Msgs \cup {NULL, Garbage}]
        /\ \A i \in 0 .. N-1 : buffer'[i] = Garbage => buffer[i] = Garbage
    BY ONLY <1>1, <1>2, <1>3, GarbageAssumption
  <2>2. pc' \in [Threads -> NewWriterPCs \cup ReaderPCs]
    BY ONLY <1>1 DEF NewWriterPCs
  <2> QED BY <1>1, <1>4, <2>1, <2>2 DEF NewTypeOK
<1>8. FilledSlot'
  <2>1. Pos(line_count)' = NextSlot /\ buffer'[NextSlot] = x /\ pc'[w] = "w_test"
    BY <1>1, <1>2, <1>3 DEF Pos
  <2> QED BY <1>1, <1>2, <1>4, <2>1 DEF FilledSlot
<1>9. WipedEarly'
  <2>1. \A i \in 0 .. N-1 : buffer'[i] = buffer[i] \/ buffer'[i] \in {line[w], NULL}
    BY <1>1, <1>2
  <2>2. \A v \in Writers : pc'[v] # "idle" => pc[v] # "idle"
    BY <1>1
  <2> QED BY <1>1, <1>4, <2>1, <2>2, NullAssumption DEF WipedEarly, Returned
<1>10. Emptied \in 0 .. 1
  BY DEF Emptied
<1>11. WindowHoldsLateMail'
  BY <1>1, <1>2, <1>3, <1>4, <1>5, <1>10 DEF WindowHoldsLateMail, StandsFor
<1>12. TakenInTurn'
  BY <1>1, <1>4 DEF TakenInTurn, StandsFor
<1> QED BY <1>4, <1>6, <1>8, <1>9, <1>11, <1>12

(* The later steps of the store only look at the slot. *)
LEMMA OnSlotKeeps ==
    ASSUME NInv, Beside, NEW w \in Writers, WriteTest(w) \/ WriteCopy(w) \/ WriteEnd(w)
    PROVE  NInv'
<1> USE NAssumption, ThreadsAssumption DEF NInv, Threads, Readers
<1>1. /\ first_line \in 0 .. N-1 /\ line_count \in 0 .. N-1
      /\ UNCHANGED <<buffer, first_line, line_count, owner, accepted, taken, line, unsent>>
      /\ line[w] \in Msgs /\ pc[w] \in {"w_test", "w_copy", "w_end"}
      /\ pc \in [Threads -> NewWriterPCs \cup ReaderPCs]
  BY DEF NewTypeOK, Exclusion, WriteTest, WriteCopy, WriteEnd, GotoOnSlot, shared, history
<1>2. PICK q \in {"w_unlock", "w_copy", "w_died", "w_end", "w_count"} :
          /\ pc' = [pc EXCEPT ![w] = q]
          /\ q \in {"w_copy", "w_end", "w_count"} => buffer[NextSlot] # NULL
          /\ q = "w_died" => buffer[NextSlot] = NULL /\ pc[w] \in {"w_copy", "w_end"}
  BY DEF WriteTest, WriteCopy, WriteEnd, GotoOnSlot
<1>3. /\ Exclusion'
      /\ \A v \in Writers : v # w =>
            pc'[v] \notin {"w_test", "w_copy", "w_end", "w_count", "w_died"}
      /\ UNCHANGED <<cleared, early, wiped>>
      /\ Emptied' = Emptied
  <2>1. Inside(w) /\ q \in NewWriterPCs /\ q # "idle" /\ q # "w_lock"
    BY <1>1 DEF Inside, NewWriterPCs, WriterPCs
  <2>2. pc'[w] = q /\ \A u \in Threads : u # w => pc'[u] = pc[u]
    BY <1>1, <1>2
  <2>3. UNCHANGED <<first_line, line_count, owner, line, unsent, accepted, taken>> /\ line_count < N
    BY <1>1, NAssumption
  <2>4. NInv
    OBVIOUS
  <2> QED BY ONLY <2>1, <2>2, <2>3, <2>4, Beside, StoreMoves
<1>4. NewTypeOK'
  <2>1. pc' \in [Threads -> NewWriterPCs \cup ReaderPCs]
    BY ONLY <1>1, <1>2 DEF NewWriterPCs, WriterPCs
  <2> QED BY <1>1, <1>3, <2>1 DEF NewTypeOK
<1>5. FilledSlot'
  <2>1. NextSlot = Pos(line_count) /\ Pos(line_count)' = Pos(line_count)
    BY <1>1 DEF NextSlot, Pos
  <2>2. \/ buffer[NextSlot] = line[w]
        \/ buffer[NextSlot] = NULL /\ (line[w] \in wiped \/ pc[w] = "w_test")
    BY <1>1, <2>1 DEF FilledSlot, StandsFor
  <2>3. /\ q \in {"w_copy", "w_end", "w_count"} => buffer[NextSlot] = line[w]
        /\ q = "w_died" => line[w] \in wiped
    BY <1>1, <1>2, <2>2, NullAssumption
  <2>4. pc'[w] = q
    BY <1>1, <1>2
  <2> QED BY <1>1, <1>3, <2>1, <2>3, <2>4 DEF FilledSlot, StandsFor
<1>6. WipedEarly'
  <2>1. \A v \in Writers : pc'[v] # "idle" => pc[v] # "idle"
    BY <1>1, <1>2
  <2> QED BY <1>1, <1>3, <2>1 DEF WipedEarly, Returned
<1>7. WindowHoldsLateMail'
  BY <1>1, <1>3 DEF WindowHoldsLateMail, StandsFor, Pos
<1>8. TakenInTurn'
  BY <1>1, <1>3 DEF TakenInTurn, StandsFor
<1> QED BY <1>3, <1>4, <1>5, <1>6, <1>7, <1>8

LEMMA WriteCountKeeps == ASSUME NInv, Beside, NEW w \in Writers, WriteCount(w) PROVE NInv'
<1> USE NAssumption, ThreadsAssumption DEF NInv, Threads, Readers, Goto, WriteCount
<1>1. /\ first_line \in 0 .. N-1 /\ line_count \in 0 .. N-1
      /\ line[w] \in Msgs /\ StandsFor(buffer[Pos(line_count)], line[w])
      /\ accepted \in Seq(Msgs) /\ taken \in Seq(Msgs \cup {NULL})
      /\ early' = early /\ cleared' = cleared /\ wiped' = wiped
      /\ taken' = taken /\ buffer' = buffer
      /\ line_count' = line_count + 1 /\ accepted' = Append(accepted, line[w])
  BY DEF NewTypeOK, Exclusion, FilledSlot, Beside
<1>2. \A u \in Threads : Inside(u) => u = w
  BY AloneInside DEF Inside
<1>3. Emptied = 0 /\ Emptied' = 0
  BY <1>2 DEF Emptied, Taking, Inside, NewTypeOK
<1>4. NewTypeOK'
  BY <1>1 DEF NewTypeOK, NewWriterPCs, WriterPCs
<1>5. Exclusion'
  BY <1>1, <1>2 DEF NewTypeOK, Exclusion, Inside, NewWriterPCs, WriterPCs, ReaderPCs
<1>6. FilledSlot'
  BY <1>2 DEF FilledSlot, Inside, NewTypeOK
<1>7. /\ Len(accepted') = Len(accepted) + 1
      /\ accepted'[Len(accepted) + 1] = line[w]
      /\ \A k \in 1 .. Len(accepted) : accepted'[k] = accepted[k]
      /\ Len(accepted) \in Nat /\ accepted' \in Seq(Msgs)
  BY ONLY <1>1, AppendAt
<1>8. DOMAIN accepted = 1 .. Len(accepted) /\ DOMAIN accepted' = 1 .. (Len(accepted) + 1)
  BY ONLY <1>1, <1>7, LenProperties
<1>9. WipedEarly'
  <2>1. \A v \in Writers : pc'[v] # "idle" => pc[v] # "idle" /\ line'[v] = line[v]
    BY DEF NewTypeOK
  <2> QED BY <1>1, <2>1 DEF WipedEarly, Returned
<1>10. WindowHoldsLateMail'
  <2> DEFINE new == accepted'
  <2>1. /\ Len(accepted) = Len(taken) + line_count /\ Len(taken) \in Nat
        /\ \A i \in 0 .. line_count - 1 :
              StandsFor(buffer[Pos(i)], accepted[Len(taken) + 1 + i])
    BY <1>1, <1>3 DEF WindowHoldsLateMail
  <2>3. ASSUME NEW i \in 0 .. line_count
        PROVE  StandsFor(buffer[Pos(i)], new[Len(taken) + 1 + i])
    <3>1. CASE i = line_count
      BY <1>1, <1>7, <2>1, <3>1
    <3>2. CASE i # line_count
      <4>1. i \in 0 .. line_count - 1 /\ Len(taken) + 1 + i \in 1 .. Len(accepted)
        BY ONLY <1>1, <2>1, <3>2, NAssumption
      <4> QED BY <1>7, <2>1, <4>1
    <3> QED BY <3>1, <3>2
  <2>4. \A i : Pos(i)' = Pos(i)
    BY DEF Pos
  <2>5. Len(new) = Len(taken) + line_count' - 0
    BY ONLY <1>1, <1>7, <2>1, NAssumption
  <2>6. \A i \in 0 .. line_count' - 1 : i \in 0 .. line_count
    BY ONLY <1>1, NAssumption
  <2>7. ASSUME NEW i \in 0 .. line_count' - 1
        PROVE  \/ buffer'[Pos(i)'] = new[Len(taken') + 1 + i - 0]
               \/ buffer'[Pos(i)'] = NULL /\ new[Len(taken') + 1 + i - 0] \in wiped'
    <3>1. StandsFor(buffer[Pos(i)], new[Len(taken) + 1 + i])
      BY <2>3, <2>6
    <3>2. Len(taken') + 1 + i - 0 = Len(taken) + 1 + i
      BY <1>1, <2>1, <2>6
    <3> QED BY <1>1, <2>4, <3>1, <3>2 DEF StandsFor
  <2> QED BY <1>1, <1>3, <2>5, <2>7 DEF WindowHoldsLateMail, StandsFor
<1>11. TakenInTurn'
  <2>1. DOMAIN taken \subseteq DOMAIN accepted
    BY <1>1, <1>8, LenProperties DEF TakenInTurn
  <2>2. Len(taken') <= Len(accepted')
    BY <1>1, <1>7, LenProperties DEF TakenInTurn
  <2>3. \A k \in DOMAIN taken : accepted'[k] = accepted[k]
    BY <1>7, <1>8, <2>1
  <2> QED BY <1>1, <2>2, <2>3 DEF TakenInTurn, StandsFor
<1> QED BY <1>4, <1>5, <1>6, <1>9, <1>10, <1>11

LEMMA ReadTakeKeeps == ASSUME NInv, Beside, NEW r \in Readers, ReadTake(r) PROVE NInv'
<1> USE NAssumption, ThreadsAssumption DEF NInv, Threads, Readers, Goto, ReadTake
<1>1. /\ first_line \in 0 .. N-1 /\ line_count \in 1 .. N
      /\ accepted \in Seq(Msgs) /\ taken \in Seq(Msgs \cup {NULL})
      /\ early' = early /\ cleared' = cleared /\ wiped' = wiped
      /\ accepted' = accepted
      /\ line_count' = line_count
  BY DEF NewTypeOK, Exclusion, Beside
<1>2. \A u \in Threads : Inside(u) => u = r
  BY AloneInside DEF Inside
<1>3. Emptied = 0 /\ Emptied' = 1
  BY <1>2 DEF Emptied, Taking, Inside, NewTypeOK
<1>4. Pos(0) = first_line
  <2>1. (first_line + 0) % N = IF first_line + 0 < N THEN first_line + 0 ELSE first_line + 0 - N
    BY ONLY <1>1, SlotAt, NAssumption, 0 \in 0 .. N-1
  <2> QED BY <1>1, <2>1 DEF Pos
<1>5. /\ Len(accepted) = Len(taken) + line_count
      /\ \A i \in 0 .. line_count - 1 :
            StandsFor(buffer[Pos(i)], accepted[Len(taken) + 1 + i])
      /\ Len(accepted) \in Nat /\ Len(taken) \in Nat
  BY <1>1, <1>3 DEF WindowHoldsLateMail
<1>6. /\ StandsFor(buffer[first_line], accepted[Len(taken) + 1])
      /\ buffer[first_line] \in Msgs \cup {NULL}
  <2>1. StandsFor(buffer[Pos(0)], accepted[Len(taken) + 1 + 0])
    BY <1>1, <1>5
  <2>2. Len(taken) + 1 + 0 = Len(taken) + 1 /\ Len(taken) + 1 \in 1 .. Len(accepted)
    BY ONLY <1>1, <1>5, NAssumption
  <2>3. accepted[Len(taken) + 1] \in Msgs
    BY ONLY <1>1, <2>2, ElementOfSeq
  <2> QED BY <1>4, <2>1, <2>2, <2>3 DEF StandsFor
<1>7. \A i \in 1 .. N-1 : Pos(i) \in 0 .. N-1 /\ Pos(i) # first_line /\ Pos(i)' = Pos(i)
  <2> SUFFICES ASSUME NEW i \in 1 .. N-1
               PROVE  Pos(i) \in 0 .. N-1 /\ Pos(i) # first_line /\ Pos(i)' = Pos(i)
    OBVIOUS
  <2>1. i \in 0 .. N-1 /\ 0 \in 0 .. N-1
    OBVIOUS
  <2>2. (first_line + i) % N \in 0 .. N-1
    BY ONLY <1>1, <2>1, SlotAt
  <2>3. (first_line + i) % N = (first_line + 0) % N => i = 0
    BY ONLY <1>1, <2>1, SlotsDiffer
  <2> QED BY <1>4, <2>2, <2>3 DEF Pos
<1>8. \A i \in 1 .. N-1 : buffer'[Pos(i)'] = buffer[Pos(i)]
  BY <1>1, <1>7 DEF NewTypeOK
<1>9. /\ taken' = Append(taken, buffer[first_line]) /\ taken' \in Seq(Msgs \cup {NULL})
      /\ Len(taken') = Len(taken) + 1
      /\ taken'[Len(taken) + 1] = buffer[first_line]
      /\ \A k \in 1 .. Len(taken) : taken'[k] = taken[k]
  <2>1. taken' = Append(taken, buffer[first_line])
    OBVIOUS
  <2> QED BY ONLY <1>1, <1>6, <2>1, AppendAt
<1>10. NewTypeOK'
  BY <1>1, <1>6, <1>9, GarbageAssumption DEF NewTypeOK, ReaderPCs
<1>11. Exclusion'
  BY <1>1, <1>2 DEF NewTypeOK, Exclusion, Inside, NewWriterPCs, WriterPCs, ReaderPCs
<1>12. FilledSlot'
  BY <1>2 DEF FilledSlot, Inside, NewTypeOK
<1>13. WipedEarly'
  <2>1. \A v \in Writers : pc'[v] = pc[v] /\ line'[v] = line[v]
    BY DEF NewTypeOK
  <2>2. \A i \in 0 .. N-1 : buffer'[i] = buffer[i] \/ buffer'[i] = NULL
    BY DEF NewTypeOK
  <2> QED BY <1>1, <2>1, <2>2, NullAssumption DEF WipedEarly, Returned
<1>14. WindowHoldsLateMail'
  <2>1. Len(accepted) = Len(taken') + line_count - 1
    BY ONLY <1>1, <1>5, <1>9, NAssumption
  <2>2. ASSUME NEW i \in 1 .. line_count - 1
        PROVE  StandsFor(buffer'[Pos(i)'], accepted[Len(taken') + 1 + i - 1])
    <3>1. i \in 0 .. line_count - 1 /\ i \in 1 .. N-1
      BY ONLY <1>1, NAssumption
    <3>2. Len(taken') + 1 + i - 1 = Len(taken) + 1 + i
      BY ONLY <1>5, <1>9, <3>1, NAssumption
    <3> QED BY <1>5, <1>8, <3>1, <3>2
  <2> QED BY <1>1, <1>3, <2>1, <2>2 DEF WindowHoldsLateMail, StandsFor
<1>15. TakenInTurn'
  <2>1. Len(taken') <= Len(accepted)
    BY ONLY <1>1, <1>5, <1>9, NAssumption
  <2>2. /\ DOMAIN taken = 1 .. Len(taken) /\ DOMAIN taken' = 1 .. (Len(taken) + 1)
    BY ONLY <1>1, <1>9, LenProperties
  <2>3. ASSUME NEW k \in 1 .. (Len(taken) + 1)
        PROVE  StandsFor(taken'[k], accepted[k])
    <3>1. CASE k = Len(taken) + 1
      BY <1>6, <1>9, <3>1
    <3>2. CASE k # Len(taken) + 1
      <4>1. k \in 1 .. Len(taken)
        BY ONLY <1>5, <3>2
      <4> QED BY <1>9, <2>2, <4>1 DEF TakenInTurn
    <3> QED BY <3>1, <3>2
  <2> QED BY <1>1, <2>1, <2>2, <2>3 DEF TakenInTurn, StandsFor
<1> QED BY <1>10, <1>11, <1>12, <1>13, <1>14, <1>15

LEMMA ReadAdvanceKeeps == ASSUME NInv, Beside, NEW r \in Readers, ReadAdvance(r) PROVE NInv'
<1> USE NAssumption, ThreadsAssumption
    DEF NInv, Threads, Readers, Goto, ReadAdvance, history
<1>1. /\ first_line \in 0 .. N-1 /\ line_count \in 1 .. N
      /\ early' = early /\ cleared' = cleared /\ wiped' = wiped
  BY DEF NewTypeOK, Exclusion, Beside
<1>2. \A u \in Threads : Inside(u) => u = r
  BY AloneInside DEF Inside
<1>3. Emptied = 1 /\ Emptied' = 0
  BY <1>2 DEF Emptied, Taking, Inside, NewTypeOK
<1>4. /\ Wrap(first_line + 1) \in 0 .. N-1
      /\ \A i \in 0 .. N-2 : Pos(i)' = Pos(i + 1)
  <2> SUFFICES ASSUME NEW i \in 0 .. N-2 PROVE Pos(i)' = Pos(i + 1)
    BY <1>1, WrapShifts DEF Pos
  <2>1. (Wrap(first_line + 1) + i) % N = (first_line + i + 1) % N
    BY <1>1, WrapShifts
  <2>2. first_line + i + 1 = first_line + (i + 1)
    BY <1>1
  <2> QED BY <2>1, <2>2 DEF Pos
<1>5. NewTypeOK'
  BY <1>1, <1>4 DEF NewTypeOK, ReaderPCs
<1>6. Exclusion'
  BY <1>1, <1>2 DEF NewTypeOK, Exclusion, Inside, NewWriterPCs, WriterPCs, ReaderPCs
<1>7. FilledSlot' /\ WipedEarly'
  BY <1>1, <1>2 DEF FilledSlot, WipedEarly, Returned, Inside, NewTypeOK
<1>8. WindowHoldsLateMail'
  BY <1>1, <1>3, <1>4 DEF WindowHoldsLateMail, NewTypeOK, StandsFor
<1>9. TakenInTurn'
  BY <1>1 DEF TakenInTurn, StandsFor
<1> QED BY <1>5, <1>6, <1>7, <1>8, <1>9

-----------------------------------------------------------------------------
(* The loop wipes what is in a slot: until it is through, that is an early *)
(* line, and from then on a wiped one.                                     *)
LEMMA ClearSlotKeeps == ASSUME NInv, ClearSlot PROVE NInv'
<1> USE NAssumption, ThreadsAssumption DEF NInv, ClearSlot, Returned, history
<1>1. /\ cleared \in 0 .. N-1 /\ early' = early
      /\ first_line \in 0 .. N-1 /\ line_count \in 0 .. N
      /\ accepted \in Seq(Msgs) /\ Len(taken) \in Nat
      /\ Emptied' = Emptied /\ Emptied \in 0 .. 1
  BY DEF NewTypeOK, Emptied, Taking
<1>2. /\ wiped \subseteq wiped'
      /\ \A i \in 0 .. N-1 :
            \/ buffer'[i] = buffer[i]
            \/ (buffer'[i] = NULL /\ (buffer[i] \in Msgs => buffer[i] \in wiped'))
  BY DEF NewTypeOK
<1>g. \A i \in 0 .. N-1, m \in Msgs :
          StandsFor(buffer[i], m) => buffer'[i] = m \/ (buffer'[i] = NULL /\ m \in wiped')
  BY <1>2 DEF StandsFor
<1>3. NewTypeOK'
  BY <1>1, GarbageAssumption DEF NewTypeOK
<1>4. Exclusion'
  BY DEF Exclusion, Inside
<1>5. \A i \in 0 .. N-1 : Pos(i) \in 0 .. N-1 /\ Pos(i)' = Pos(i)
  BY <1>1, SlotAt DEF Pos
<1>6. FilledSlot'
  <2>1. SUFFICES ASSUME NEW w \in Writers,
                        pc[w] \in {"w_test", "w_copy", "w_end", "w_count", "w_died"}
                 PROVE  /\ pc[w] = "w_test" => buffer'[Pos(line_count)] \in {line[w], NULL}
                        /\ pc[w] \in {"w_copy", "w_end", "w_count"} =>
                              \/ buffer'[Pos(line_count)] = line[w]
                              \/ buffer'[Pos(line_count)] = NULL /\ line[w] \in wiped'
                        /\ pc[w] = "w_died" => line[w] \in wiped'
    BY DEF FilledSlot, StandsFor, Pos
  <2>2. pc[w] # "w_died"
    BY DEF Alive
  <2>3. line_count \in 0 .. N-1 /\ line[w] \in Msgs
    BY <1>1, <2>1, <2>2 DEF Exclusion
  <2>4. Pos(line_count) \in 0 .. N-1
    BY <1>5, <2>3
  <2> QED BY <1>2, <1>g, <2>2, <2>3, <2>4 DEF FilledSlot
<1>7. WipedEarly'
  <2>1. wiped' \subseteq early
    BY <1>1 DEF WipedEarly
  <2>2. \A i \in 0 .. N-1 : buffer'[i] \in Msgs => buffer[i] \in Msgs /\ buffer'[i] = buffer[i]
    BY <1>2, NullAssumption
  <2> QED BY <1>1, <2>1, <2>2 DEF WipedEarly
<1>8. WindowHoldsLateMail'
  <2> SUFFICES ASSUME NEW i \in Emptied .. line_count - 1
               PROVE  \/ buffer'[Pos(i)] = accepted[Len(taken) + 1 + i - Emptied]
                      \/ /\ buffer'[Pos(i)] = NULL
                         /\ accepted[Len(taken) + 1 + i - Emptied] \in wiped'
    BY <1>1 DEF WindowHoldsLateMail, StandsFor, Pos
  <2>1. i \in 0 .. N-1 /\ Len(taken) + 1 + i - Emptied \in 1 .. Len(accepted)
    BY <1>1 DEF WindowHoldsLateMail
  <2>2. accepted[Len(taken) + 1 + i - Emptied] \in Msgs
    BY ONLY <1>1, <2>1, ElementOfSeq
  <2>3. StandsFor(buffer[Pos(i)], accepted[Len(taken) + 1 + i - Emptied])
    BY DEF WindowHoldsLateMail
  <2> QED BY <1>5, <1>g, <2>1, <2>2, <2>3
<1>9. TakenInTurn'
  BY <1>2 DEF TakenInTurn, StandsFor
<1> QED BY <1>3, <1>4, <1>6, <1>7, <1>8, <1>9

LEMMA StepNInv == NInv /\ [NewNext]_nvars => NInv'
<1> SUFFICES ASSUME NInv, [NewNext]_nvars PROVE NInv'
  OBVIOUS
<1>1. CASE UNCHANGED nvars
  BY <1>1 DEF nvars, vars, NInv, NewTypeOK, Exclusion, Inside, FilledSlot, WipedEarly,
              Returned, WindowHoldsLateMail, TakenInTurn, StandsFor, Emptied, Taking, Pos
<1>2. ASSUME NEW w \in Writers, NewWriterStep(w) PROVE NInv'
  BY <1>2, QuietWriteKeeps, WriteMallocKeeps, OnSlotKeeps, WriteCountKeeps
     DEF NewWriterStep, StoreStep, QuietWrite
<1>3. ASSUME NEW r \in Readers, NewReaderStep(r) \/ (ReadSpurious(r) /\ Beside) PROVE NInv'
  BY <1>3, QuietReadKeeps, ReadTakeKeeps, ReadAdvanceKeeps
     DEF NewReaderStep, ReaderStep, QuietRead
<1>4. ASSUME NEW w \in Writers, NEW m \in Msgs, WriteCall(w, m), Beside PROVE NInv'
  BY <1>4, WriteCallKeeps
<1> QED BY <1>1, <1>2, <1>3, <1>4, ClearSlotKeeps DEF NewNext, UseStep

(* The ring, and what the clearing loop has still to do, at every step. *)
THEOREM NewInvariance == NewSpec => []NInv
BY InitNInv, StepNInv, PTL DEF NewSpec

(* Garbage is in slots the loop has not come to only, and the counters     *)
(* stay in range although nobody has cleared the ring they count.          *)
THEOREM NewTypeCorrect == NewSpec => []NewTypeOK
<1>1. NInv => NewTypeOK
  BY DEF NInv
<1> QED BY <1>1, NewInvariance, PTL

(* The ring keeps every accepted line in its place, but for wiped ones. *)
THEOREM LateMailKept == NewSpec => []WindowHoldsLateMail
<1>1. NInv => WindowHoldsLateMail
  BY DEF NInv
<1> QED BY <1>1, NewInvariance, PTL

(* The loop costs early lines only, and the process dies in the write of   *)
(* an early line only; a read returns the line whose turn it is, or NULL   *)
(* for a wiped one.                                                        *)
THEOREM LateMailRead == NewSpec => []OnlyEarlyLinesLost
<1>1. NInv => OnlyEarlyLinesLost
  BY DEF NInv, WipedEarly, FilledSlot, TakenInTurn, OnlyEarlyLinesLost
<1> QED BY <1>1, NewInvariance, PTL

(* With wiped lines counted as delivered, the item is a bounded FIFO       *)
(* mailbox from the moment it is linked.                                   *)
THEOREM CountingRefinement == NewSpec => CountsLikeMailbox
<1> DEFINE delivered == SubSeq(accepted, 1, Len(taken))
<1>1. NewInit => Counted!MInit
  BY DEF NewInit, FieldsInit, Counted!MInit
<1>2. NInv /\ [NewNext]_nvars => [Counted!MNext]_(Counted!mvars)
  <2> SUFFICES ASSUME NInv, [NewNext]_nvars
               PROVE  Counted!MNext \/ UNCHANGED <<accepted, delivered>>
    BY DEF Counted!mvars
  <2> USE ThreadsAssumption DEF NInv, Threads, Readers, Goto
  <2>1. /\ accepted \in Seq(Msgs) /\ taken \in Seq(Msgs \cup {NULL})
        /\ Len(accepted) \in Nat /\ Len(taken) \in Nat /\ Len(taken) <= Len(accepted)
    BY DEF NewTypeOK, TakenInTurn
  <2>2. /\ delivered \in Seq(Msgs) /\ Len(delivered) = Len(taken)
        /\ \A k \in 1 .. Len(taken) : delivered[k] = accepted[k]
    BY ONLY <2>1, SubSeqProperties
  <2>3. ASSUME NEW w \in Writers, WriteCount(w), Beside PROVE Counted!MNext
    <3>1. line[w] \in Msgs /\ line_count < N /\ line_count \in Nat
      BY <2>3, NAssumption DEF WriteCount, NewTypeOK, Exclusion
    <3>2. Emptied = 0
      BY <2>3, AloneInside DEF WriteCount, Emptied, Taking, Inside, NewTypeOK
    <3>3. Len(accepted) - Len(delivered) < N
      <4>1. Len(accepted) = Len(taken) + line_count - 0
        BY <3>2 DEF WindowHoldsLateMail
      <4>2. Len(accepted) - Len(taken) < N
        BY ONLY <2>1, <3>1, <4>1, NAssumption
      <4>3. Len(delivered) = Len(taken)
        BY <2>2
      <4> HIDE DEF delivered
      <4> QED BY ONLY <4>2, <4>3
    <3>4. accepted' = Append(accepted, line[w]) /\ taken' = taken
      BY <2>3 DEF WriteCount
    <3>5. SubSeq(accepted', 1, Len(taken')) = delivered
      BY ONLY <2>1, <3>1, <3>4
    <3>6. Counted!Deposit(line[w])
      BY <3>3, <3>4, <3>5 DEF Counted!Deposit
    <3> QED BY <3>1, <3>6 DEF Counted!MNext
  <2>4. ASSUME NEW r \in Readers, ReadTake(r), Beside PROVE Counted!MNext
    <3>1. /\ line_count \in 1 .. N /\ accepted' = accepted
          /\ taken' = Append(taken, buffer[first_line])
      BY <2>4 DEF ReadTake, NewTypeOK, Exclusion
    <3>2. Emptied = 0
      BY <2>4, AloneInside DEF ReadTake, Emptied, Taking, Inside, NewTypeOK
    <3>3. Len(taken) < Len(accepted)
      <4>1. Len(accepted) = Len(taken) + line_count - 0
        BY <3>2 DEF WindowHoldsLateMail
      <4> QED BY ONLY <2>1, <3>1, <4>1, NAssumption
    <3>4. Len(taken') = Len(taken) + 1
      BY ONLY <2>1, <3>1
    <3>5. SubSeq(accepted, 1, Len(taken) + 1) = Append(delivered, accepted[Len(taken) + 1])
      BY ONLY <2>1, <3>3
    <3>6. Counted!Withdraw
      BY <2>2, <3>1, <3>3, <3>4, <3>5 DEF Counted!Withdraw
    <3> QED BY <3>6 DEF Counted!MNext
  <2>5. ASSUME UNCHANGED <<accepted, taken>> PROVE UNCHANGED <<accepted, delivered>>
    BY <2>5
  <2>6. ASSUME NEW w \in Writers, ~WriteCount(w),
               NewWriterStep(w) \/ \E m \in Msgs : WriteCall(w, m) /\ Beside
        PROVE  UNCHANGED <<accepted, taken>>
    BY <2>6 DEF history, NewWriterStep, StoreStep, WriteCall, WriteLock, WriteFull, WriteMalloc,
                GotoOnSlot, WriteTest, WriteCopy, WriteEnd, WriteBroadcast, WriteUnlock
  <2>7. ASSUME NEW r \in Readers, ~ReadTake(r), NewReaderStep(r) \/ (ReadSpurious(r) /\ Beside)
        PROVE  UNCHANGED <<accepted, taken>>
    BY <2>7 DEF history, NewReaderStep, ReaderStep, ReadCall, ReadLock, ReadEmpty, ReadWait,
                ReadRelock, ReadReady, ReadAdvance, ReadUnlock, ReadSpurious
  <2>8. ClearSlot \/ UNCHANGED nvars => UNCHANGED <<accepted, taken>>
    BY DEF ClearSlot, history, nvars, vars
  <2>9. ASSUME NEW w \in Writers, NewWriterStep(w) PROVE Beside
    BY <2>9 DEF NewWriterStep
  <2>10. ASSUME NEW r \in Readers, NewReaderStep(r) PROVE Beside
    BY <2>10 DEF NewReaderStep
  <2> QED BY <2>3, <2>4, <2>5, <2>6, <2>7, <2>8, <2>9, <2>10 DEF NewNext, UseStep
<1> QED BY <1>1, <1>2, NewInvariance, PTL DEF NewSpec, CountsLikeMailbox, Counted!MSpec
=============================================================================
