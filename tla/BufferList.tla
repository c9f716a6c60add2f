----------------------------- MODULE BufferList -----------------------------
(***************************************************************************)
(* The list of message buffers in server_side/msg_buffers.c: a singly      *)
(* linked list with a pointer to its first and its last item and no lock.  *)
(* Connection threads append to it (new_buffer) and search it for a client *)
(* id (read_buffer, write_to_buffer) at the same time, one access to the   *)
(* shared pointers a step.  Nothing is ever taken out: remove_buffer is    *)
(* called by a unit test only.  What is in a buffer is in MsgBuffer.       *)
(***************************************************************************)
EXTENDS Naturals, Sequences

CONSTANTS
    Threads,       \* connection threads
    Items,         \* memory for buffers: one item for each call of new_buffer
    ClientIds,     \* user ids; one may be given out again
    NULL           \* the null pointer

ASSUME NullAssumption == NULL \notin Items \cup ClientIds

VARIABLES
    first_buffer, last_buffer,
    client_id,     \* of each item; NULL: not allocated yet
    next_buffer,   \* of each item
    pc,            \* where each thread is
    item,          \* the item a thread appends, or the search has come to
    tail,          \* last_buffer as a thread has loaded it
    wanted,        \* the id a thread searches for
    linked,        \* history: items in the order in which they were linked
    ready,         \* history: items whose new_buffer has returned, in order
    due,           \* history: for a search, the first ready item at its start
    overlap        \* history: two calls of new_buffer were in the list at once

pointers == <<first_buffer, last_buffer, next_buffer>>
locals == <<item, tail, wanted>>
vars == <<pointers, client_id, pc, locals, linked, ready, due, overlap>>

Init ==
    /\ first_buffer = NULL /\ last_buffer = NULL
    /\ client_id = [i \in Items |-> NULL]
    /\ next_buffer = [i \in Items |-> NULL]
    /\ pc = [t \in Threads |-> "idle"]
    /\ item = [t \in Threads |-> NULL]
    /\ tail = [t \in Threads |-> NULL]
    /\ wanted = [t \in Threads |-> NULL]
    /\ linked = <<>> /\ ready = <<>>
    /\ due = [t \in Threads |-> NULL]
    /\ overlap = FALSE

Goto(t, from, to) == pc[t] = from /\ pc' = [pc EXCEPT ![t] = to]

-----------------------------------------------------------------------------
(* new_buffer *)

(* A slip: the item points back to the first one. *)
NewCall_Back(t, i, c) ==
    /\ Goto(t, "idle", "test")
    /\ client_id[i] = NULL
    /\ client_id' = [client_id EXCEPT ![i] = c]
    /\ next_buffer' = [next_buffer EXCEPT ![i] = first_buffer]
    /\ item' = [item EXCEPT ![t] = i]
    /\ UNCHANGED <<first_buffer, last_buffer, tail, wanted, linked, ready, due, overlap>>
(* malloc and the fields of the item, which nobody else sees yet; its      *)
(* next_buffer is NULL.                                                    *)
NewCall(t, i, c) ==
    /\ Goto(t, "idle", "test")
    /\ client_id[i] = NULL
    /\ client_id' = [client_id EXCEPT ![i] = c]
    /\ item' = [item EXCEPT ![t] = i]
    /\ UNCHANGED <<pointers, tail, wanted, linked, ready, due, overlap>>

(* From the test of first_buffer to the store to last_buffer. *)
Appending(t) == pc[t] \in {"first", "load", "link", "last"}

TestFirst(t) ==
    /\ pc[t] = "test"
    /\ pc' = [pc EXCEPT ![t] = IF first_buffer = NULL THEN "first" ELSE "load"]
    /\ overlap' = (overlap \/ \E u \in Threads : Appending(u))
    /\ UNCHANGED <<pointers, client_id, locals, linked, ready, due>>

StoreFirst(t) ==
    /\ Goto(t, "first", "last")
    /\ first_buffer' = item[t]
    /\ linked' = Append(linked, item[t])
    /\ UNCHANGED <<last_buffer, next_buffer, client_id, locals, ready, due, overlap>>

LoadLast(t) ==
    /\ Goto(t, "load", "link")
    /\ last_buffer # NULL
    /\ tail' = [tail EXCEPT ![t] = last_buffer]
    /\ UNCHANGED <<pointers, client_id, item, wanted, linked, ready, due, overlap>>

(* Another thread has stored first_buffer and not yet last_buffer: the     *)
(* null pointer is written through, and the process dies.                  *)
LoadNull(t) ==
    /\ pc[t] = "load"
    /\ last_buffer = NULL
    /\ pc' = [u \in Threads |-> "dead"]
    /\ UNCHANGED <<pointers, client_id, locals, linked, ready, due, overlap>>

LinkNext(t) ==
    /\ Goto(t, "link", "last")
    /\ next_buffer' = [next_buffer EXCEPT ![tail[t]] = item[t]]
    /\ linked' = Append(linked, item[t])
    /\ UNCHANGED <<first_buffer, last_buffer, client_id, locals, ready, due, overlap>>

(* A slip: only the first item is stored. *)
NewLast_First(t) == IF last_buffer = NULL THEN item[t] ELSE last_buffer
NewLast(t) == item[t]

StoreLast(t) ==
    /\ Goto(t, "last", "clear")
    /\ last_buffer' = NewLast(t)
    /\ UNCHANGED <<first_buffer, next_buffer, client_id, locals, linked, ready, due, overlap>>

(* The slots are cleared, and new_buffer returns. *)
NewReturn(t) ==
    /\ Goto(t, "clear", "idle")
    /\ ready' = Append(ready, item[t])
    /\ item' = [item EXCEPT ![t] = NULL]
    /\ tail' = [tail EXCEPT ![t] = NULL]
    /\ UNCHANGED <<pointers, client_id, wanted, linked, due, overlap>>

-----------------------------------------------------------------------------
(* The search at the beginning of read_buffer and write_to_buffer *)

Ready(c) == {k \in DOMAIN ready : client_id[ready[k]] = c}
FirstReady(c) ==
    IF Ready(c) = {} THEN NULL ELSE ready[CHOOSE k \in Ready(c) : \A l \in Ready(c) : k <= l]

(* A slip: the search begins where that of remove_buffer does. *)
SearchCall_SkipsFirst(t, c) ==
    /\ Goto(t, "idle", "search")
    /\ wanted' = [wanted EXCEPT ![t] = c]
    /\ item' = [item EXCEPT ![t] = IF first_buffer = NULL THEN NULL ELSE next_buffer[first_buffer]]
    /\ due' = [due EXCEPT ![t] = FirstReady(c)]
    /\ UNCHANGED <<pointers, client_id, tail, linked, ready, overlap>>
SearchCall(t, c) ==
    /\ Goto(t, "idle", "search")
    /\ wanted' = [wanted EXCEPT ![t] = c]
    /\ item' = [item EXCEPT ![t] = first_buffer]
    /\ due' = [due EXCEPT ![t] = FirstReady(c)]
    /\ UNCHANGED <<pointers, client_id, tail, linked, ready, overlap>>

AtEnd(t) == item[t] = NULL

Found(t) == item[t] # NULL /\ client_id[item[t]] = wanted[t]

SearchOn(t) ==
    /\ pc[t] = "search"
    /\ ~AtEnd(t) /\ ~Found(t)
    /\ item' = [item EXCEPT ![t] = next_buffer[item[t]]]
    /\ UNCHANGED <<pointers, client_id, pc, tail, wanted, linked, ready, due, overlap>>

(* The buffer was found, or there is none. *)
SearchReturn(t) ==
    /\ Goto(t, "search", "idle")
    /\ AtEnd(t) \/ Found(t)
    /\ item' = [item EXCEPT ![t] = NULL]
    /\ wanted' = [wanted EXCEPT ![t] = NULL]
    /\ due' = [due EXCEPT ![t] = NULL]
    /\ UNCHANGED <<pointers, client_id, tail, linked, ready, overlap>>

-----------------------------------------------------------------------------
NewStep(t) ==
    \/ TestFirst(t) \/ StoreFirst(t) \/ LoadLast(t) \/ LoadNull(t) \/ LinkNext(t)
    \/ StoreLast(t) \/ NewReturn(t)
SearchStep(t) == SearchOn(t) \/ SearchReturn(t)

Call(t) ==
    \/ \E i \in Items, c \in ClientIds : NewCall(t, i, c)
    \/ \E c \in ClientIds : SearchCall(t, c)

Next == \E t \in Threads : NewStep(t) \/ SearchStep(t) \/ Call(t)

Spec == Init /\ [][Next]_vars

-----------------------------------------------------------------------------
Pointers == Items \cup {NULL}

(* Type invariant; in particular what is written through is no null        *)
(* pointer, and last_buffer is none once a call has stored it.             *)
TypeOK ==
    /\ first_buffer \in Pointers /\ last_buffer \in Pointers
    /\ client_id \in [Items -> ClientIds \cup {NULL}]
    /\ next_buffer \in [Items -> Pointers]
    /\ pc \in [Threads -> {"idle", "test", "first", "load", "link", "last", "clear", "search",
                           "dead"}]
    /\ item \in [Threads -> Pointers] /\ tail \in [Threads -> Pointers]
    /\ wanted \in [Threads -> ClientIds \cup {NULL}]
    /\ linked \in Seq(Items) /\ ready \in Seq(Items)
    /\ due \in [Threads -> Pointers]
    /\ overlap \in BOOLEAN
    /\ \A t \in Threads :
          /\ pc[t] \in {"test", "first", "load", "link", "last", "clear"} => item[t] # NULL
          /\ pc[t] = "link" => tail[t] # NULL
          /\ pc[t] = "clear" => last_buffer # NULL

Before(i, j) == \E k, l \in DOMAIN linked : k < l /\ linked[k] = i /\ linked[l] = j

(* However the calls of new_buffer overlap, and although items get lost,   *)
(* the pointers never form a cycle: each item points to one that was       *)
(* linked after it.  So a search that goes on ends.                        *)
PointsForward == \A i \in Items : next_buffer[i] # NULL => Before(i, next_buffer[i])

(* As long as no two calls of new_buffer were between test and last store  *)
(* at once, the list holds every linked item in order, last_buffer is its  *)
(* end when nobody appends, and nothing goes through a null pointer.       *)
(* README.md, section 5, shows what happens otherwise.                     *)
SerialAppendsKeepList ==
    ~overlap =>
      /\ first_buffer = (IF linked = <<>> THEN NULL ELSE linked[1])
      /\ \A k \in 1 .. Len(linked) - 1 : next_buffer[linked[k]] = linked[k + 1]
      /\ linked # <<>> => next_buffer[linked[Len(linked)]] = NULL
      /\ (\A t \in Threads : ~Appending(t)) /\ linked # <<>> => last_buffer = linked[Len(linked)]
      /\ \A t \in Threads : pc[t] # "dead"

(* Nor does a search then miss a buffer that was there at its start,       *)
(* whatever is appended while it walks: it returns that one or one with    *)
(* the same id that was linked before.                                     *)
SearchFindsReady ==
    \A t \in Threads :
        pc[t] = "search" /\ due[t] # NULL /\ ~overlap /\ (AtEnd(t) \/ Found(t)) =>
            item[t] = due[t] \/ Before(item[t], due[t])
=============================================================================
