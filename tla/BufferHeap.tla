----------------------------- MODULE BufferHeap -----------------------------
(***************************************************************************)
(* The memory of server_side/msg_buffers.c: one thread makes, uses and     *)
(* removes buffers and clears them all at the end, as the unit test        *)
(* (thread_test_main.c) does.  A walk along the list takes one step an     *)
(* item; malloc may give out again what was freed.  remove_buffer does not *)
(* update last_buffer, which may be left pointing to freed memory.         *)
(***************************************************************************)
EXTENDS Naturals, Sequences, FiniteSets

CONSTANTS
    Blocks,        \* addresses at which malloc finds room for an item
    ClientIds,
    Lines,         \* malloced lines, each written at most once
    BUFFER_LINE_AMOUNT,
    NULL,
    MaxNew         \* bound: calls of new_buffer

ASSUME HeapAssumption ==
    /\ NULL \notin Blocks \cup ClientIds
    /\ BUFFER_LINE_AMOUNT \in Nat /\ MaxNew \in Nat

VARIABLES
    first_buffer, last_buffer,
    next_buffer, client_id, buffer,   \* fields of each block; lines as a sequence
    malloced,      \* blocks malloced and not freed
    pc,            \* the call that walks; "idle", "cleared", or "undefined"
    iterator,      \* where its walk is
    wanted,        \* its client_id
    unwritten, returned,              \* lines not written yet; in the caller's hands
    frees,         \* history: how often each line was freed
    linked,        \* history: what should be in the list
    made,          \* history: which call of new_buffer made each block
    news,          \* history: calls of new_buffer
    lastRemoved    \* history: the last item of the list was removed

fields == <<next_buffer, client_id, buffer>>
pointers == <<first_buffer, last_buffer>>
walk == <<pc, iterator, wanted>>
text == <<unwritten, returned, frees>>
history == <<linked, made, news, lastRemoved>>
vars == <<pointers, fields, malloced, walk, text, history>>

Init ==
    /\ first_buffer = NULL /\ last_buffer = NULL
    /\ next_buffer = [b \in Blocks |-> NULL]
    /\ client_id = [b \in Blocks |-> NULL]
    /\ buffer = [b \in Blocks |-> <<>>]
    /\ malloced = {}
    /\ pc = "idle" /\ iterator = NULL /\ wanted = NULL
    /\ unwritten = Lines /\ returned = {} /\ frees = [m \in Lines |-> 0]
    /\ linked = {} /\ made = [b \in Blocks |-> 0] /\ news = 0
    /\ lastRemoved = FALSE

-----------------------------------------------------------------------------
(* new_buffer *)

(* A slip: last_buffer stays at the first item. *)
LinkLast_First(b) ==
    /\ first_buffer' = IF first_buffer = NULL THEN b ELSE first_buffer
    /\ last_buffer' = IF first_buffer = NULL THEN b ELSE last_buffer
    /\ next_buffer' = [[next_buffer EXCEPT ![b] = NULL]
                          EXCEPT ![IF first_buffer = NULL THEN b ELSE last_buffer] =
                              IF first_buffer = NULL THEN NULL ELSE b]
(* The new item, at b, and where the two pointers and the last item lead. *)
LinkLast(b) ==
    /\ first_buffer' = IF first_buffer = NULL THEN b ELSE first_buffer
    /\ last_buffer' = b
    /\ next_buffer' = [[next_buffer EXCEPT ![b] = NULL]
                          EXCEPT ![IF first_buffer = NULL THEN b ELSE last_buffer] =
                              IF first_buffer = NULL THEN NULL ELSE b]

(* last_buffer is good when there is no list yet, when what it points to   *)
(* has not been freed, and when malloc has just given out the same memory. *)
LastIsMalloced(b) == first_buffer = NULL \/ last_buffer \in malloced \cup {b}

MallocItem(b, c) ==
    /\ pc = "idle" /\ news < MaxNew
    /\ b \notin malloced
    /\ malloced' = malloced \cup {b}
    /\ client_id' = [client_id EXCEPT ![b] = c]
    /\ buffer' = [buffer EXCEPT ![b] = <<>>]
    /\ news' = news + 1
    /\ made' = [made EXCEPT ![b] = news + 1]

NewBuffer(b, c) ==
    /\ MallocItem(b, c)
    /\ LastIsMalloced(b)
    /\ LinkLast(b)
    /\ linked' = IF first_buffer = NULL \/ last_buffer \in linked THEN linked \cup {b} ELSE linked
    /\ UNCHANGED <<walk, text, lastRemoved>>

(* last_buffer->next_buffer is written into freed memory: nobody notices,  *)
(* or it hits what malloc or somebody else keeps there now.                *)
NewBufferAfterFreed(b, c) ==
    /\ MallocItem(b, c)
    /\ ~LastIsMalloced(b)
    /\ LinkLast(b)
    /\ pc' \in {"idle", "undefined"}
    /\ UNCHANGED <<iterator, wanted, text, linked, lastRemoved>>

-----------------------------------------------------------------------------
(* Calls that search for an id begin at the first item. *)
Call(op, c) ==
    /\ pc = "idle"
    /\ op = "write" => unwritten # {}
    /\ pc' = op
    /\ iterator' = first_buffer
    /\ wanted' = c
    /\ UNCHANGED <<pointers, fields, malloced, text, history>>

Return == pc' = "idle" /\ iterator' = NULL /\ wanted' = NULL

(* read_buffer and write_to_buffer *)

Searching == pc \in {"read", "write"}
Found == iterator # NULL /\ client_id[iterator] = wanted

SearchNext ==
    /\ Searching /\ iterator # NULL /\ ~Found
    /\ iterator' = next_buffer[iterator]
    /\ UNCHANGED <<pointers, fields, malloced, pc, wanted, text, history>>

(* No buffer for the id, an empty buffer, or a full one. *)
GiveUp ==
    /\ Searching
    /\ \/ iterator = NULL
       \/ Found /\ pc = "read" /\ buffer[iterator] = <<>>
       \/ Found /\ pc = "write" /\ Len(buffer[iterator]) = BUFFER_LINE_AMOUNT
    /\ Return
    /\ UNCHANGED <<pointers, fields, malloced, text, history>>

WriteLine(m) ==
    /\ pc = "write" /\ Found
    /\ Len(buffer[iterator]) < BUFFER_LINE_AMOUNT
    /\ m \in unwritten
    /\ unwritten' = unwritten \ {m}
    /\ buffer' = [buffer EXCEPT ![iterator] = Append(@, m)]
    /\ Return
    /\ UNCHANGED <<pointers, next_buffer, client_id, malloced, returned, frees, history>>

(* A slip: the slot is not set to NULL. *)
ReadLine_Kept ==
    /\ pc = "read" /\ Found
    /\ buffer[iterator] # <<>>
    /\ returned' = returned \cup {Head(buffer[iterator])}
    /\ Return
    /\ UNCHANGED <<pointers, fields, malloced, unwritten, frees, history>>
ReadLine ==
    /\ pc = "read" /\ Found
    /\ buffer[iterator] # <<>>
    /\ returned' = returned \cup {Head(buffer[iterator])}
    /\ buffer' = [buffer EXCEPT ![iterator] = Tail(@)]
    /\ Return
    /\ UNCHANGED <<pointers, next_buffer, client_id, malloced, unwritten, frees, history>>

(* The caller prints the line and frees it. *)
PrintLine(m) ==
    /\ m \in returned
    /\ returned' = returned \ {m}
    /\ frees' = [frees EXCEPT ![m] = @ + 1]
    /\ UNCHANGED <<pointers, fields, malloced, walk, unwritten, history>>

-----------------------------------------------------------------------------
(* remove_buffer *)

InBuffer(m, b) == \E k \in DOMAIN buffer[b] : buffer[b][k] = m

(* free_buffer: the lines of an item, and the item. *)
FreeBuffer(b) ==
    /\ frees' = [m \in Lines |-> IF InBuffer(m, b) THEN frees[m] + 1 ELSE frees[m]]
    /\ buffer' = [buffer EXCEPT ![b] = <<>>]
    /\ malloced' = malloced \ {b}
    /\ linked' = linked \ {b}

(* remove_buffer looks at the item after iterator, so never at the first. *)
Successor == next_buffer[iterator]
RemoveNext ==
    /\ pc = "remove" /\ iterator # NULL
    /\ Successor # NULL /\ client_id[Successor] # wanted
    /\ iterator' = Successor
    /\ UNCHANGED <<pointers, fields, malloced, pc, wanted, text, history>>

(* It returns 1. *)
RemoveFails ==
    /\ pc = "remove"
    /\ iterator # NULL => Successor = NULL
    /\ Return
    /\ UNCHANGED <<pointers, fields, malloced, text, history>>

(* Slips: iterator still points to what is freed; it points to itself. *)
Unlink_Freed == next_buffer
Unlink_Loop == [next_buffer EXCEPT ![iterator] = iterator]
Unlink == [next_buffer EXCEPT ![iterator] = next_buffer[Successor]]

RemoveFound ==
    /\ pc = "remove" /\ iterator # NULL
    /\ Successor # NULL /\ client_id[Successor] = wanted
    /\ next_buffer' = Unlink
    /\ FreeBuffer(Successor)
    /\ lastRemoved' = (lastRemoved \/ next_buffer[Successor] = NULL)
    /\ Return
    /\ UNCHANGED <<pointers, client_id, unwritten, returned, made, news>>

(* clear_all_msg_buffers, after the last other call *)

ClearCall ==
    /\ pc = "idle"
    /\ pc' = "clear" /\ iterator' = first_buffer
    /\ UNCHANGED <<pointers, fields, malloced, wanted, text, history>>

ClearNext ==
    /\ pc = "clear" /\ iterator # NULL
    /\ iterator' = next_buffer[iterator]
    /\ FreeBuffer(iterator)
    /\ UNCHANGED <<pointers, next_buffer, client_id, pc, wanted, unwritten, returned,
                   made, news, lastRemoved>>

ClearEnd ==
    /\ pc = "clear" /\ iterator = NULL
    /\ pc' = "cleared"
    /\ UNCHANGED <<pointers, fields, malloced, iterator, wanted, text, history>>

-----------------------------------------------------------------------------
WalkStep ==
    \/ SearchNext \/ GiveUp \/ ReadLine \/ \E m \in Lines : WriteLine(m)
    \/ RemoveNext \/ RemoveFails \/ RemoveFound
    \/ ClearNext \/ ClearEnd

CallStep ==
    \/ \E b \in Blocks, c \in ClientIds : NewBuffer(b, c) \/ NewBufferAfterFreed(b, c)
    \/ \E c \in ClientIds, op \in {"read", "write", "remove"} : Call(op, c)
    \/ \E m \in Lines : PrintLine(m)
    \/ ClearCall

Next == WalkStep \/ CallStep

Spec == Init /\ [][Next]_vars

-----------------------------------------------------------------------------
Walking == pc \in {"read", "write", "remove", "clear"}
Pointers == Blocks \cup {NULL}

TypeOK ==
    /\ first_buffer \in Pointers /\ last_buffer \in Pointers
    /\ next_buffer \in [Blocks -> Pointers]
    /\ client_id \in [Blocks -> ClientIds \cup {NULL}]
    /\ buffer \in [Blocks -> Seq(Lines)]
    /\ \A b \in Blocks : Len(buffer[b]) <= BUFFER_LINE_AMOUNT
    /\ malloced \subseteq Blocks /\ linked \subseteq Blocks
    /\ pc \in {"idle", "read", "write", "remove", "clear", "cleared", "undefined"}
    /\ iterator \in Pointers /\ wanted \in ClientIds \cup {NULL}
    /\ unwritten \subseteq Lines /\ returned \subseteq Lines
    /\ frees \in [Lines -> Nat]
    /\ made \in [Blocks -> Nat] /\ news \in Nat
    /\ lastRemoved \in BOOLEAN

(* Where the list begins: clear_all_msg_buffers eats it from the front. *)
Front == IF pc \in {"clear", "cleared"} THEN iterator ELSE first_buffer

(* The items from Front on are the linked ones, each malloced and pointing *)
(* to the one made next, also when new_buffer has gone astray behind a     *)
(* removed item and whatever memory malloc gave out again.                 *)
ListIsLinked ==
    /\ linked \subseteq malloced
    /\ IF linked = {} THEN Front = NULL ELSE Front \in linked
    /\ \A b \in linked :
          /\ next_buffer[b] \in linked \cup {NULL}
          /\ next_buffer[b] # NULL => made[b] < made[next_buffer[b]]
          /\ b = Front \/ \E a \in linked : next_buffer[a] = b
          /\ \A a \in linked : next_buffer[a] = next_buffer[b] /\ a # b => next_buffer[b] = NULL

(* No walk comes to freed memory, be it to read an id, to follow a pointer *)
(* or to free it again, and the same holds of the item remove_buffer looks *)
(* at next.                                                                *)
NothingFreedIsUsed ==
    Walking /\ iterator # NULL =>
        iterator \in malloced /\ next_buffer[iterator] \in malloced \cup {NULL}

(* Every line has one place: not written, in one slot of one item that a   *)
(* search can find, with the caller, or freed, and that once.  So no line  *)
(* is lost with an item and none is freed twice.                           *)
Slots(m) == {bk \in linked \X (1 .. BUFFER_LINE_AMOUNT) :
                bk[2] <= Len(buffer[bk[1]]) /\ buffer[bk[1]][bk[2]] = m}
LinesInOnePlace ==
    \A m \in Lines :
        (IF m \in unwritten THEN 1 ELSE 0) + (IF m \in returned THEN 1 ELSE 0)
            + frees[m] + Cardinality(Slots(m)) = 1

(* An item gets lost, so that its client has no buffer although new_buffer *)
(* returned 0, only after the last item was removed; until then            *)
(* last_buffer is the end of the list, and clear_all_msg_buffers frees all *)
(* that was malloced.                                                      *)
LostOnlyAfterLastRemoved ==
    ~lastRemoved =>
        /\ malloced = linked /\ pc # "undefined"
        /\ linked # {} => last_buffer \in linked /\ next_buffer[last_buffer] = NULL

ClearFreesAll == pc = "cleared" => linked = {} /\ (~lastRemoved => malloced = {})

=============================================================================
