-------------------------- MODULE BufferHeapProofs --------------------------
(***************************************************************************)
(* Proofs about BufferHeap, for any number of blocks, ids and lines and    *)
(* any sequence of calls.  The order in which items were made stands in    *)
(* for the induction along the list: the least of any set of linked items  *)
(* has no predecessor in it, so there is nothing behind a last item and    *)
(* nothing before the first.  Where each line is needs no such argument,   *)
(* only that the buffers read, written and freed are in the list.          *)
(***************************************************************************)
EXTENDS BufferHeap, FiniteSetTheorems, SequenceTheorems, NaturalsInduction,
        WellFoundedInduction, TLAPS

(* Items are made in turn, walks are in the list, and last_buffer, while   *)
(* it points into the list, points to its end.                             *)
WalksInList ==
    /\ \A b \in linked : made[b] <= news
    /\ pc \in {"read", "write", "remove"} => iterator \in linked \cup {NULL}
    /\ first_buffer # NULL => last_buffer # NULL
    /\ last_buffer \in linked => next_buffer[last_buffer] = NULL

IInv == TypeOK /\ ListIsLinked /\ WalksInList /\ LostOnlyAfterLastRemoved

LEMMA InitIInv == Init => IInv
<1> SUFFICES ASSUME Init PROVE IInv
  OBVIOUS
<1>1. TypeOK
  <2>1. buffer \in [Blocks -> Seq(Lines)] /\ \A b \in Blocks : Len(buffer[b]) = 0
    BY EmptySeq, <<>> \in Seq(Lines) DEF Init
  <2>2. \A b \in Blocks : Len(buffer[b]) <= BUFFER_LINE_AMOUNT
    BY <2>1, HeapAssumption
  <2> QED BY <2>1, <2>2 DEF Init, TypeOK, Pointers
<1>2. ListIsLinked /\ WalksInList /\ LostOnlyAfterLastRemoved
  BY DEF Init, ListIsLinked, Front, WalksInList, LostOnlyAfterLastRemoved
<1> QED BY <1>1, <1>2 DEF IInv

-----------------------------------------------------------------------------
LEMMA LeastNumber ==
    ASSUME NEW S \in SUBSET Nat, S # {} PROVE \E k \in S : \A l \in S : k <= l
<1>1. PICK k \in S : \A l \in S : ~(<<l, k>> \in OpToRel(<, Nat))
  BY NatLessThanWellFounded, WFMin
<1>2. \A l \in S : ~(l < k)
  BY <1>1 DEF OpToRel
<1> QED BY <1>2

(* The item of a set that was made first. *)
LEMMA MadeFirst ==
    ASSUME TypeOK, NEW S \in SUBSET Blocks, S # {}
    PROVE  \E b \in S : \A a \in S : made[b] <= made[a]
<1> DEFINE numbers == {made[b] : b \in S}
<1>1. numbers \in SUBSET Nat /\ numbers # {}
  BY DEF TypeOK
<1>2. PICK k \in numbers : \A l \in numbers : k <= l
  BY ONLY <1>1, LeastNumber
<1> QED BY <1>2

(* Nothing points to the first item. *)
LEMMA FrontIsFirst ==
    ASSUME TypeOK, ListIsLinked, NEW b \in linked
    PROVE  Front \in linked /\ made[Front] <= made[b] /\ next_buffer[b] # Front
<1>1. PICK c \in linked : \A a \in linked : made[c] <= made[a]
  BY MadeFirst DEF TypeOK
<1>2. c = Front
  <2>1. ASSUME NEW a \in linked, next_buffer[a] = c PROVE FALSE
    <3>1. next_buffer[a] # NULL
      BY <2>1, HeapAssumption DEF TypeOK
    <3>2. made[a] < made[c]
      BY <2>1, <3>1 DEF ListIsLinked
    <3>3. made[c] <= made[a] /\ made[a] \in Nat /\ made[c] \in Nat
      BY <1>1 DEF TypeOK
    <3> QED BY <3>2, <3>3
  <2> QED BY <2>1 DEF ListIsLinked
<1>3. next_buffer[b] # Front
  BY <1>1, <1>2, HeapAssumption DEF ListIsLinked, TypeOK
<1> QED BY <1>1, <1>2, <1>3

(* What is behind the first item begins with the item it points to. *)
LEMMA SecondIsNext ==
    ASSUME TypeOK, ListIsLinked, Front \in linked, linked # {Front}
    PROVE  next_buffer[Front] \in linked
<1> DEFINE rest == linked \ {Front}
<1>1. PICK c \in rest : \A a \in rest : made[c] <= made[a]
  BY MadeFirst DEF TypeOK
<1>2. PICK a \in linked : next_buffer[a] = c
  BY <1>1 DEF ListIsLinked
<1>3. made[a] < made[c]
  BY <1>1, <1>2, HeapAssumption DEF ListIsLinked, TypeOK
<1>4. a = Front
  BY <1>1, <1>2, <1>3 DEF TypeOK
<1> QED BY <1>1, <1>2, <1>4

-----------------------------------------------------------------------------
(* Emptying a buffer keeps the type of all. *)
LEMMA Emptied ==
    ASSUME TypeOK, NEW b \in Blocks, buffer' = [buffer EXCEPT ![b] = <<>>]
    PROVE  /\ buffer' \in [Blocks -> Seq(Lines)]
           /\ \A a \in Blocks : Len(buffer'[a]) <= BUFFER_LINE_AMOUNT
<1>1. <<>> \in Seq(Lines) /\ buffer \in [Blocks -> Seq(Lines)]
  BY EmptySeq DEF TypeOK
<1>2. buffer' \in [Blocks -> Seq(Lines)]
  BY ONLY <1>1, buffer' = [buffer EXCEPT ![b] = <<>>]
<1>3. Len(<<>>) = 0
  OBVIOUS
<1>4. \A a \in Blocks : buffer'[a] = <<>> \/ buffer'[a] = buffer[a]
  BY ONLY <1>1, buffer' = [buffer EXCEPT ![b] = <<>>]
<1> QED BY <1>2, <1>3, <1>4, HeapAssumption DEF TypeOK

LEMMA NewTypeKept ==
    ASSUME TypeOK, NEW b \in Blocks, NEW c \in ClientIds,
           NewBuffer(b, c) \/ NewBufferAfterFreed(b, c)
    PROVE  TypeOK'
<1> USE DEF NewBuffer, NewBufferAfterFreed, MallocItem, LinkLast, walk, text
<1>1. /\ buffer' \in [Blocks -> Seq(Lines)]
      /\ \A a \in Blocks : Len(buffer'[a]) <= BUFFER_LINE_AMOUNT
  BY Emptied
<1>2. next_buffer' \in [Blocks -> Blocks \cup {NULL}]
  <2> DEFINE cut == [next_buffer EXCEPT ![b] = NULL]
             at == IF first_buffer = NULL THEN b ELSE last_buffer
             to == IF first_buffer = NULL THEN NULL ELSE b
  <2>1. cut \in [Blocks -> Blocks \cup {NULL}]
    BY DEF TypeOK, Pointers
  <2>2. to \in Blocks \cup {NULL}
    OBVIOUS
  <2>3. next_buffer' = [cut EXCEPT ![at] = to]
    OBVIOUS
  <2> QED BY ONLY <2>1, <2>2, <2>3
<1>3. /\ first_buffer' \in Pointers /\ last_buffer' \in Pointers
      /\ client_id' \in [Blocks -> ClientIds \cup {NULL}]
      /\ malloced' \subseteq Blocks /\ linked' \subseteq Blocks
      /\ pc' \in {"idle", "undefined"}
      /\ UNCHANGED <<iterator, wanted, unwritten, returned, frees, lastRemoved>>
  <2>1. first_buffer' \in Pointers /\ last_buffer' \in Pointers
    BY DEF TypeOK, Pointers
  <2>2. client_id' \in [Blocks -> ClientIds \cup {NULL}]
    <3>1. client_id' = [client_id EXCEPT ![b] = c] /\ client_id \in [Blocks -> ClientIds \cup {NULL}]
      BY DEF TypeOK
    <3> QED BY ONLY <3>1, c \in ClientIds
  <2>3. malloced' \subseteq Blocks /\ linked' \subseteq Blocks
    BY DEF TypeOK
  <2> QED BY <2>1, <2>2, <2>3 DEF TypeOK
<1>4. made' \in [Blocks -> Nat] /\ news' \in Nat
  <2>1. made' = [made EXCEPT ![b] = news + 1] /\ made \in [Blocks -> Nat] /\ news \in Nat
    BY DEF TypeOK
  <2>2. news' = news + 1
    OBVIOUS
  <2> QED BY ONLY <2>1, <2>2
<1> QED BY <1>1, <1>2, <1>3, <1>4 DEF TypeOK, Pointers

(* A new item goes behind the end of the list, when last_buffer is that,   *)
(* or else leaves the list as it is.                                       *)
LEMMA NewKeeps ==
    ASSUME IInv, NEW b \in Blocks, NEW c \in ClientIds,
           NewBuffer(b, c) \/ NewBufferAfterFreed(b, c)
    PROVE  IInv'
<1> USE HeapAssumption DEF IInv
<1>1. TypeOK'
  BY NewTypeKept
<1>2. /\ b \notin linked /\ pc = "idle" /\ Front = first_buffer
      /\ Front' = first_buffer'
      /\ malloced' = malloced \cup {b} /\ last_buffer' = b
      /\ made' = [made EXCEPT ![b] = news + 1] /\ news' = news + 1
      /\ UNCHANGED <<iterator, lastRemoved>>
  BY DEF NewBuffer, NewBufferAfterFreed, MallocItem, LinkLast, ListIsLinked, Front, walk
<1>3. CASE first_buffer = NULL
  <2>1. /\ linked = {} /\ linked' = {b} /\ next_buffer'[b] = NULL /\ first_buffer' = b
        /\ pc' = "idle"
    BY <1>2, <1>3 DEF NewBuffer, NewBufferAfterFreed, LastIsMalloced, LinkLast, TypeOK,
                      ListIsLinked, walk
  <2>2. ListIsLinked'
    BY <1>2, <2>1 DEF ListIsLinked
  <2>3. WalksInList'
    BY <1>2, <2>1 DEF WalksInList, TypeOK
  <2>4. LostOnlyAfterLastRemoved'
    BY <1>2, <2>1 DEF LostOnlyAfterLastRemoved
  <2> QED BY <1>1, <2>2, <2>3, <2>4
<1>4. CASE first_buffer # NULL /\ last_buffer \in linked
  <2>1. /\ linked' = linked \cup {b} /\ pc' = "idle" /\ first_buffer' = first_buffer
        /\ last_buffer # b
        /\ next_buffer'[b] = NULL /\ next_buffer'[last_buffer] = b
        /\ \A a \in linked : a # last_buffer => next_buffer'[a] = next_buffer[a]
    BY <1>2, <1>4 DEF NewBuffer, NewBufferAfterFreed, LastIsMalloced, LinkLast, TypeOK,
                      ListIsLinked, walk
  <2>2. \A a \in linked : made'[a] = made[a] /\ made[a] < made'[b]
    BY <1>2 DEF WalksInList, TypeOK
  <2>3. next_buffer[last_buffer] = NULL
    BY <1>4 DEF WalksInList
  <2>4. ListIsLinked'
    <3>1. linked' \subseteq malloced' /\ Front' \in linked'
      BY <1>2, <1>4, <2>1 DEF ListIsLinked
    <3>2. \A a \in linked' : next_buffer'[a] \in linked' \cup {NULL}
      BY <2>1 DEF ListIsLinked
    <3>3. \A a \in linked' : next_buffer'[a] # NULL => made'[a] < made'[next_buffer'[a]]
      BY <1>2, <2>1, <2>2 DEF ListIsLinked
    <3>4. \A a \in linked' : a = Front' \/ \E d \in linked' : next_buffer'[d] = a
      <4> SUFFICES ASSUME NEW a \in linked, a # Front
                   PROVE  \E d \in linked' : next_buffer'[d] = a
        BY <1>2, <1>4, <2>1
      <4>1. PICK d \in linked : next_buffer[d] = a
        BY DEF ListIsLinked
      <4>2. d # last_buffer
        BY <2>3, <4>1 DEF TypeOK
      <4> QED BY <2>1, <4>1, <4>2
    <3>5. \A a, d \in linked' :
              next_buffer'[d] = next_buffer'[a] /\ d # a => next_buffer'[a] = NULL
      BY <1>2, <2>1 DEF ListIsLinked
    <3> QED BY <3>1, <3>2, <3>3, <3>4, <3>5 DEF ListIsLinked
  <2>5. WalksInList'
    BY <1>2, <1>4, <2>1, <2>2 DEF WalksInList, TypeOK
  <2>6. LostOnlyAfterLastRemoved'
    BY <1>2, <2>1 DEF LostOnlyAfterLastRemoved
  <2> QED BY <1>1, <2>4, <2>5, <2>6
<1>5. CASE first_buffer # NULL /\ last_buffer \notin linked
  <2>1. /\ linked' = linked /\ first_buffer' = first_buffer
        /\ pc' \in {"idle", "undefined"}
        /\ \A a \in linked : next_buffer'[a] = next_buffer[a]
    <3>1. linked' = linked /\ first_buffer' = first_buffer
      BY <1>5 DEF NewBuffer, NewBufferAfterFreed, LinkLast
    <3>2. pc' \in {"idle", "undefined"}
      BY <1>2 DEF NewBuffer, NewBufferAfterFreed, walk
    <3>3. next_buffer' = [[next_buffer EXCEPT ![b] = NULL] EXCEPT ![last_buffer] = b]
      BY <1>5 DEF NewBuffer, NewBufferAfterFreed, LinkLast
    <3>4. next_buffer \in [Blocks -> Pointers] /\ linked \subseteq Blocks
      BY DEF TypeOK
    <3>5. \A a \in linked : next_buffer'[a] = next_buffer[a]
      BY ONLY <1>2, <1>5, <3>3, <3>4
    <3> QED BY <3>1, <3>2, <3>5
  <2>2. \A a \in linked : made'[a] = made[a]
    BY <1>2 DEF TypeOK
  <2>3. ListIsLinked'
    BY <1>2, <2>1, <2>2 DEF ListIsLinked
  <2>4. WalksInList'
    BY <1>2, <2>1, <2>2 DEF WalksInList, TypeOK
  <2>5. lastRemoved
    BY <1>2, <1>5 DEF LostOnlyAfterLastRemoved, ListIsLinked
  <2>6. LostOnlyAfterLastRemoved'
    BY <1>2, <2>5 DEF LostOnlyAfterLastRemoved
  <2> QED BY <1>1, <2>3, <2>4, <2>6
<1> QED BY <1>3, <1>4, <1>5

-----------------------------------------------------------------------------
(* The steps that change neither the list nor what is malloced. *)
LEMMA ListUntouched ==
    ASSUME IInv, UNCHANGED <<pointers, next_buffer, client_id, malloced, history>>,
           pc \notin {"clear", "cleared"}, pc' \notin {"clear", "cleared", "undefined"},
           pc' \in {"read", "write", "remove"} => iterator' \in linked \cup {NULL}
    PROVE  ListIsLinked' /\ WalksInList' /\ LostOnlyAfterLastRemoved'
<1>1. Front' = Front
  BY DEF Front, pointers
<1>2. ListIsLinked'
  BY <1>1 DEF IInv, ListIsLinked, pointers, history
<1>3. WalksInList' /\ LostOnlyAfterLastRemoved'
  BY DEF IInv, WalksInList, LostOnlyAfterLastRemoved, pointers, history
<1> QED BY <1>2, <1>3

(* The front of a list that has not been cleared, and every item behind    *)
(* one of the list, is in the list.                                        *)
LEMMA InList ==
    ASSUME IInv
    PROVE  /\ pc \notin {"clear", "cleared"} => first_buffer \in linked \cup {NULL}
           /\ pc \in {"clear", "cleared"} => iterator \in linked \cup {NULL}
           /\ \A b \in linked : b \in Blocks /\ next_buffer[b] \in linked \cup {NULL}
BY DEF IInv, ListIsLinked, Front, TypeOK

LEMMA CallKeeps ==
    ASSUME IInv, NEW c \in ClientIds, NEW op \in {"read", "write", "remove"}, Call(op, c)
    PROVE  IInv'
<1>1. TypeOK'
  BY DEF Call, IInv, TypeOK, pointers, fields, text, history
<1>2. ListIsLinked' /\ WalksInList' /\ LostOnlyAfterLastRemoved'
  BY ListUntouched, InList DEF Call, fields
<1> QED BY <1>1, <1>2 DEF IInv

LEMMA SearchKeeps ==
    ASSUME IInv, SearchNext \/ GiveUp \/ ReadLine \/ \E m \in Lines : WriteLine(m)
    PROVE  IInv'
<1> USE HeapAssumption
<1>1. iterator \in linked \cup {NULL} /\ (iterator # NULL => iterator \in Blocks)
  BY InList DEF SearchNext, GiveUp, ReadLine, WriteLine, Searching, IInv, WalksInList
<1>2. CASE SearchNext \/ GiveUp
  <2>1. TypeOK'
    BY <1>1, <1>2 DEF SearchNext, GiveUp, Searching, Return, IInv, TypeOK, Pointers, pointers,
                      fields, text, history
  <2>2. ListIsLinked' /\ WalksInList' /\ LostOnlyAfterLastRemoved'
    BY <1>1, <1>2, ListUntouched, InList
       DEF SearchNext, GiveUp, Searching, Return, fields
  <2> QED BY <2>1, <2>2 DEF IInv
<1>3. CASE ReadLine
  <2>1. /\ buffer[iterator] \in Seq(Lines) /\ buffer[iterator] # <<>>
        /\ buffer' = [buffer EXCEPT ![iterator] = Tail(buffer[iterator])]
        /\ buffer \in [Blocks -> Seq(Lines)]
    BY <1>1, <1>3 DEF ReadLine, Found, IInv, TypeOK
  <2>2. /\ Head(buffer[iterator]) \in Lines /\ Tail(buffer[iterator]) \in Seq(Lines)
        /\ Len(Tail(buffer[iterator])) = Len(buffer[iterator]) - 1
    BY ONLY <2>1, HeadTailProperties
  <2>3. /\ buffer' \in [Blocks -> Seq(Lines)]
        /\ \A b \in Blocks : buffer'[b] = Tail(buffer[iterator]) \/ buffer'[b] = buffer[b]
    BY ONLY <2>1, <2>2
  <2>6. Len(buffer[iterator]) \in Nat /\ Len(buffer[iterator]) <= BUFFER_LINE_AMOUNT
    BY <1>1, <1>3, <2>1, LenProperties DEF ReadLine, Found, IInv, TypeOK
  <2>7. \A b \in Blocks : Len(buffer'[b]) <= BUFFER_LINE_AMOUNT
    <3>1. Len(Tail(buffer[iterator])) <= BUFFER_LINE_AMOUNT
      BY <2>2, <2>6
    <3> QED BY <2>3, <3>1 DEF IInv, TypeOK
  <2>4. TypeOK'
    BY <1>3, <2>2, <2>3, <2>7 DEF ReadLine, Return, IInv, TypeOK, Pointers, pointers, history
  <2>5. ListIsLinked' /\ WalksInList' /\ LostOnlyAfterLastRemoved'
    BY <1>3, ListUntouched DEF ReadLine, Return
  <2> QED BY <2>4, <2>5 DEF IInv
<1>4. ASSUME NEW m \in Lines, WriteLine(m) PROVE IInv'
  <2>1. /\ buffer[iterator] \in Seq(Lines)
        /\ buffer' = [buffer EXCEPT ![iterator] = Append(buffer[iterator], m)]
        /\ buffer \in [Blocks -> Seq(Lines)]
    BY <1>1, <1>4 DEF WriteLine, Found, IInv, TypeOK
  <2>2. /\ Append(buffer[iterator], m) \in Seq(Lines)
        /\ Len(Append(buffer[iterator], m)) = Len(buffer[iterator]) + 1
    BY ONLY <2>1, AppendProperties, m \in Lines
  <2>3. /\ buffer' \in [Blocks -> Seq(Lines)]
        /\ \A b \in Blocks :
              buffer'[b] = Append(buffer[iterator], m) \/ buffer'[b] = buffer[b]
    BY ONLY <2>1, <2>2
  <2>6. Len(buffer[iterator]) \in Nat /\ Len(buffer[iterator]) < BUFFER_LINE_AMOUNT
    BY <1>4, <2>1, LenProperties DEF WriteLine
  <2>7. \A b \in Blocks : Len(buffer'[b]) <= BUFFER_LINE_AMOUNT
    <3>1. Len(Append(buffer[iterator], m)) <= BUFFER_LINE_AMOUNT
      BY <2>2, <2>6
    <3> QED BY <2>3, <3>1 DEF IInv, TypeOK
  <2>4. TypeOK'
    BY <1>4, <2>3, <2>7 DEF WriteLine, Return, IInv, TypeOK, Pointers, pointers, history
  <2>5. ListIsLinked' /\ WalksInList' /\ LostOnlyAfterLastRemoved'
    BY <1>4, ListUntouched DEF WriteLine, Return
  <2> QED BY <2>4, <2>5 DEF IInv
<1> QED BY <1>2, <1>3, <1>4

LEMMA PrintKeeps == ASSUME IInv, NEW m \in Lines, PrintLine(m) PROVE IInv'
<1>1. frees' \in [Lines -> Nat]
  BY DEF PrintLine, IInv, TypeOK
<1>2. TypeOK'
  BY <1>1 DEF PrintLine, IInv, TypeOK, pointers, fields, walk, history
<1>3. ListIsLinked' /\ WalksInList' /\ LostOnlyAfterLastRemoved'
  BY DEF PrintLine, IInv, ListIsLinked, Front, WalksInList, LostOnlyAfterLastRemoved,
         pointers, fields, walk, history
<1> QED BY <1>2, <1>3 DEF IInv

-----------------------------------------------------------------------------
LEMMA FreeTyped ==
    ASSUME TypeOK, NEW b \in Blocks, FreeBuffer(b)
    PROVE  /\ frees' \in [Lines -> Nat] /\ buffer' \in [Blocks -> Seq(Lines)]
           /\ \A a \in Blocks : Len(buffer'[a]) <= BUFFER_LINE_AMOUNT
           /\ malloced' \subseteq Blocks /\ linked' \subseteq Blocks
<1>1. frees' \in [Lines -> Nat]
  BY DEF FreeBuffer, TypeOK
<1>2. /\ buffer' \in [Blocks -> Seq(Lines)]
      /\ \A a \in Blocks : Len(buffer'[a]) <= BUFFER_LINE_AMOUNT
  BY Emptied DEF FreeBuffer
<1> QED BY <1>1, <1>2 DEF FreeBuffer, TypeOK

LEMMA RemoveKeeps ==
    ASSUME IInv, RemoveNext \/ RemoveFails \/ RemoveFound PROVE IInv'
<1> USE HeapAssumption
<1>1. /\ iterator \in linked \cup {NULL}
      /\ iterator # NULL => iterator \in Blocks /\ Successor \in linked \cup {NULL}
  BY InList DEF RemoveNext, RemoveFails, RemoveFound, Successor, IInv, WalksInList
<1>2. CASE RemoveNext \/ RemoveFails
  <2>1. TypeOK'
    BY <1>1, <1>2 DEF RemoveNext, RemoveFails, Successor, Return, IInv, TypeOK, Pointers,
                      pointers, fields, text, history
  <2>2. ListIsLinked' /\ WalksInList' /\ LostOnlyAfterLastRemoved'
    BY <1>1, <1>2, ListUntouched DEF RemoveNext, RemoveFails, Return, fields
  <2> QED BY <2>1, <2>2 DEF IInv
<1>3. CASE RemoveFound
  <2> DEFINE gone == next_buffer[iterator]
             after == next_buffer[gone]
  <2>1. /\ iterator \in linked /\ gone \in linked /\ iterator \in Blocks /\ gone \in Blocks
        /\ next_buffer' = [next_buffer EXCEPT ![iterator] = after]
        /\ FreeBuffer(gone) /\ linked' = linked \ {gone} /\ malloced' = malloced \ {gone}
        /\ lastRemoved' = (lastRemoved \/ after = NULL)
        /\ pc = "remove" /\ pc' = "idle" /\ iterator' = NULL /\ wanted' = NULL
        /\ UNCHANGED <<first_buffer, last_buffer, client_id, unwritten, returned, made, news>>
    BY <1>1, <1>3, InList DEF RemoveFound, Successor, Unlink, Return, FreeBuffer, pointers
  <2>2. after \in linked \cup {NULL} /\ (after # NULL => made[gone] < made[after])
        /\ made[iterator] < made[gone]
    BY <2>1 DEF IInv, ListIsLinked, TypeOK
  <2>3. \A b \in linked : made[b] \in Nat /\ b # NULL
    BY DEF IInv, TypeOK
  <2>4. iterator # gone /\ after # gone
    BY <2>1, <2>2, <2>3
  <2>5. /\ next_buffer'[iterator] = after
        /\ \A b \in linked : b # iterator => next_buffer'[b] = next_buffer[b]
    BY <2>1 DEF IInv, TypeOK
  <2>6. TypeOK'
    <3>1. next_buffer' \in [Blocks -> Pointers]
      BY <2>1, <2>2 DEF IInv, TypeOK, Pointers
    <3> QED BY <2>1, <3>1, FreeTyped DEF IInv, TypeOK, Pointers
  <2>7. Front = first_buffer /\ Front' = first_buffer /\ Front \in linked /\ Front # gone
    BY <2>1, FrontIsFirst DEF Front, IInv
  <2>8. ListIsLinked'
    <3>1. linked' \subseteq malloced' /\ Front' \in linked'
      BY <2>1, <2>7 DEF IInv, ListIsLinked
    <3>2. \A b \in linked' : next_buffer'[b] \in linked' \cup {NULL}
      BY <2>1, <2>2, <2>3, <2>4, <2>5 DEF IInv, ListIsLinked
    <3>3. \A b \in linked' : next_buffer'[b] # NULL => made'[b] < made'[next_buffer'[b]]
      <4> SUFFICES ASSUME NEW b \in linked, next_buffer'[b] # NULL
                   PROVE  made[b] < made[next_buffer'[b]]
        BY <2>1
      <4>1. CASE b = iterator
        BY <2>1, <2>2, <2>3, <2>5, <4>1
      <4>2. CASE b # iterator
        BY <2>5, <4>2 DEF IInv, ListIsLinked
      <4> QED BY <4>1, <4>2
    <3>4. \A b \in linked' : b = Front' \/ \E a \in linked' : next_buffer'[a] = b
      <4> SUFFICES ASSUME NEW b \in linked, b # gone, b # Front
                   PROVE  \E a \in linked' : next_buffer'[a] = b
        BY <2>1, <2>7
      <4>1. PICK a \in linked : next_buffer[a] = b
        BY DEF IInv, ListIsLinked
      <4>2. CASE a = gone
        BY <2>1, <2>4, <2>5, <4>1, <4>2
      <4>3. CASE a # gone
        BY <2>1, <2>5, <4>1, <4>3
      <4> QED BY <4>2, <4>3
    <3>5. \A b, a \in linked' :
              next_buffer'[a] = next_buffer'[b] /\ a # b => next_buffer'[b] = NULL
      BY <2>1, <2>3, <2>4, <2>5 DEF IInv, ListIsLinked
    <3> QED BY <3>1, <3>2, <3>3, <3>4, <3>5 DEF ListIsLinked
  <2>9. WalksInList'
    <3>1. last_buffer \in linked => last_buffer # iterator
      BY <2>1, <2>3 DEF IInv, WalksInList
    <3> QED BY <2>1, <2>5, <3>1 DEF IInv, WalksInList
  <2>10. LostOnlyAfterLastRemoved'
    <3> SUFFICES ASSUME ~lastRemoved, after # NULL
                 PROVE  /\ malloced = linked /\ pc' # "undefined"
                        /\ last_buffer \in linked' /\ next_buffer'[last_buffer] = NULL
      BY <2>1 DEF LostOnlyAfterLastRemoved
    <3>1. malloced = linked /\ last_buffer \in linked /\ next_buffer[last_buffer] = NULL
      BY <2>1 DEF IInv, LostOnlyAfterLastRemoved
    <3>2. last_buffer # iterator /\ last_buffer # gone
      BY <2>1, <2>3, <3>1
    <3> QED BY <2>1, <2>5, <3>1, <3>2
  <2> QED BY <2>6, <2>8, <2>9, <2>10 DEF IInv
<1> QED BY <1>2, <1>3

-----------------------------------------------------------------------------
LEMMA ClearKeeps == ASSUME IInv, ClearCall \/ ClearNext \/ ClearEnd PROVE IInv'
<1> USE HeapAssumption
<1>1. CASE ClearCall \/ ClearEnd
  <2>1. TypeOK'
    BY <1>1 DEF ClearCall, ClearEnd, IInv, TypeOK, pointers, fields, text, history
  <2>2. Front' = Front
    BY <1>1 DEF ClearCall, ClearEnd, Front
  <2>3. ListIsLinked'
    BY <1>1, <2>2 DEF ClearCall, ClearEnd, IInv, ListIsLinked, fields, history
  <2>4. WalksInList' /\ LostOnlyAfterLastRemoved'
    BY <1>1 DEF ClearCall, ClearEnd, IInv, WalksInList, LostOnlyAfterLastRemoved,
                pointers, fields, history
  <2> QED BY <2>1, <2>3, <2>4 DEF IInv
<1>2. CASE ClearNext
  <2>1. /\ Front = iterator /\ Front' = next_buffer[iterator]
        /\ iterator \in linked /\ iterator \in Blocks /\ iterator # NULL
        /\ FreeBuffer(iterator) /\ linked' = linked \ {iterator}
        /\ malloced' = malloced \ {iterator}
        /\ pc = "clear" /\ pc' = "clear" /\ iterator' = next_buffer[iterator]
        /\ UNCHANGED <<first_buffer, last_buffer, next_buffer, client_id, wanted, unwritten,
                       returned, made, news, lastRemoved>>
    BY <1>2, InList DEF ClearNext, Front, FreeBuffer, pointers
  <2>2. \A b \in linked : next_buffer[b] # iterator
    BY <2>1, FrontIsFirst DEF IInv
  <2>3. IF linked' = {} THEN Front' = NULL ELSE Front' \in linked'
    <3>1. CASE linked = {iterator}
      BY <2>1, <2>2, <3>1 DEF IInv, ListIsLinked
    <3>2. CASE linked # {iterator}
      BY <2>1, <2>2, <3>2, SecondIsNext DEF IInv
    <3> QED BY <3>1, <3>2
  <2>4. TypeOK'
    BY <2>1, FreeTyped, InList DEF IInv, TypeOK, Pointers
  <2>5. ListIsLinked'
    <3>1. linked' \subseteq malloced'
      BY <2>1 DEF IInv, ListIsLinked
    <3>2. \A b \in linked' :
             /\ next_buffer'[b] \in linked' \cup {NULL}
             /\ next_buffer'[b] # NULL => made'[b] < made'[next_buffer'[b]]
      BY <2>1, <2>2 DEF IInv, ListIsLinked
    <3>3. \A b \in linked' : b = Front' \/ \E a \in linked' : next_buffer'[a] = b
      BY <2>1 DEF IInv, ListIsLinked
    <3>4. \A b, a \in linked' :
              next_buffer'[a] = next_buffer'[b] /\ a # b => next_buffer'[b] = NULL
      BY <2>1 DEF IInv, ListIsLinked
    <3> QED BY <2>3, <3>1, <3>2, <3>3, <3>4 DEF ListIsLinked
  <2>6. WalksInList'
    BY <2>1 DEF IInv, WalksInList
  <2>7. LostOnlyAfterLastRemoved'
    <3> SUFFICES ASSUME ~lastRemoved
                 PROVE  /\ malloced' = linked'
                        /\ linked' # {} => last_buffer \in linked' /\ next_buffer[last_buffer] = NULL
      BY <2>1 DEF LostOnlyAfterLastRemoved
    <3>1. malloced = linked /\ last_buffer \in linked /\ next_buffer[last_buffer] = NULL
      BY <2>1 DEF IInv, LostOnlyAfterLastRemoved
    <3>2. ASSUME linked' # {} PROVE last_buffer # iterator
      <4>1. next_buffer[iterator] \in linked /\ NULL \notin linked
        BY <2>1, <2>3, <3>2 DEF IInv, TypeOK
      <4> QED BY <3>1, <4>1
    <3> QED BY <2>1, <3>1, <3>2
  <2> QED BY <2>4, <2>5, <2>6, <2>7 DEF IInv
<1> QED BY <1>1, <1>2

-----------------------------------------------------------------------------
LEMMA StepIInv == IInv /\ [Next]_vars => IInv'
<1> SUFFICES ASSUME IInv, [Next]_vars PROVE IInv'
  OBVIOUS
<1>1. CASE UNCHANGED vars
  <2>1. UNCHANGED <<first_buffer, last_buffer, next_buffer, client_id, buffer, malloced, pc,
                    iterator, wanted, unwritten, returned, frees, linked, made, news,
                    lastRemoved>>
    BY <1>1 DEF vars, pointers, fields, walk, text, history
  <2> QED BY <2>1 DEF IInv, TypeOK, ListIsLinked, Front, WalksInList, LostOnlyAfterLastRemoved
<1>2. CASE Next
  BY <1>2, NewKeeps, CallKeeps, SearchKeeps, PrintKeeps, RemoveKeeps, ClearKeeps
     DEF Next, WalkStep, CallStep
<1> QED BY <1>1, <1>2

(* The shape of the list, for all calls and whatever malloc returns. *)
THEOREM Invariance == Spec => []IInv
BY InitIInv, StepIInv, PTL DEF Spec

(* Every variable keeps its type. *)
THEOREM TypeCorrect == Spec => []TypeOK
<1>1. IInv => TypeOK
  BY DEF IInv
<1> QED BY <1>1, Invariance, PTL

(* The list is the linked items in the order in which they were made,      *)
(* after any sequence of calls.                                            *)
THEOREM ListKept == Spec => []ListIsLinked
<1>1. IInv => ListIsLinked
  BY DEF IInv
<1> QED BY <1>1, Invariance, PTL

(* No walk reads, follows or frees what has been freed. *)
THEOREM NoUseAfterFree == Spec => []NothingFreedIsUsed
<1>1. IInv => NothingFreedIsUsed
  BY InList DEF IInv, NothingFreedIsUsed, Walking, WalksInList, ListIsLinked
<1> QED BY <1>1, Invariance, PTL

(* Removing the last item is the only way to lose one. *)
THEOREM OnlyLastRemovalLoses == Spec => []LostOnlyAfterLastRemoved
<1>1. IInv => LostOnlyAfterLastRemoved
  BY DEF IInv
<1> QED BY <1>1, Invariance, PTL

(* clear_all_msg_buffers leaves nothing in the list, and nothing malloced  *)
(* unless the last item was removed before.                                *)
THEOREM ClearIsComplete == Spec => []ClearFreesAll
<1> DEFINE AtEnd == pc = "cleared" => iterator = NULL
<1>1. Init => AtEnd
  BY DEF Init
<1>2. IInv /\ AtEnd /\ [Next]_vars => AtEnd'
  BY DEF vars, walk, Next, WalkStep, CallStep, NewBuffer, NewBufferAfterFreed, MallocItem,
         Call, PrintLine, ClearCall, SearchNext, Searching, GiveUp, ReadLine, WriteLine, Return,
         RemoveNext, RemoveFails, RemoveFound, ClearNext, ClearEnd
<1>3. IInv /\ AtEnd => ClearFreesAll
  BY HeapAssumption DEF IInv, ClearFreesAll, ListIsLinked, Front, TypeOK, LostOnlyAfterLastRemoved
<1> QED BY <1>1, <1>2, <1>3, Invariance, PTL DEF Spec

-----------------------------------------------------------------------------
(* Where the lines are.  Kept are those a search can find; the last part   *)
(* says that no two slots keep one line.  What FreeBuffer frees is gone    *)
(* from the list, so it counts once; the blocks that are not linked do not *)
(* matter, as nothing is ever written to them.                             *)
Kept == {m \in Lines : \E b \in linked : InBuffer(m, b)}

OneSlotEach ==
    \A a, b \in linked : \A j \in DOMAIN buffer[a], k \in DOMAIN buffer[b] :
        buffer[a][j] = buffer[b][k] => a = b /\ j = k

LinesApart ==
    /\ unwritten \cap returned = {}
    /\ Kept \cap (unwritten \cup returned) = {}
    /\ \A m \in Lines : frees[m] = IF m \in Kept \cup unwritten \cup returned THEN 0 ELSE 1
    /\ OneSlotEach

LEMMA InitLines == Init => LinesApart
BY DEF Init, LinesApart, Kept, OneSlotEach

(* A buffer's slots are numbered and hold lines. *)
LEMMA SlotsTyped ==
    ASSUME TypeOK, NEW b \in Blocks
    PROVE  /\ buffer[b] \in Seq(Lines) /\ Len(buffer[b]) \in Nat
           /\ DOMAIN buffer[b] = 1 .. Len(buffer[b])
           /\ \A k \in DOMAIN buffer[b] : buffer[b][k] \in Lines
<1>1. buffer[b] \in Seq(Lines)
  BY DEF TypeOK
<1> QED BY <1>1, LenProperties, ElementOfSeq

(* Steps that move no line: the items stay as they are, a new one is empty. *)
LEMMA LinesUnmoved ==
    ASSUME LinesApart, UNCHANGED text, linked \subseteq linked',
           \A b \in linked : buffer'[b] = buffer[b],
           \A b \in linked' \ linked : buffer'[b] = <<>>
    PROVE  LinesApart'
<1>1. \A b \in linked' \ linked : DOMAIN buffer'[b] = {}
  OBVIOUS
<1>2. Kept' = Kept
  BY <1>1 DEF Kept, InBuffer
<1>3. OneSlotEach'
  BY <1>1 DEF LinesApart, OneSlotEach
<1> QED BY <1>2, <1>3 DEF LinesApart, text

LEMMA NewKeepsLines ==
    ASSUME IInv, LinesApart, NEW b \in Blocks, NEW c \in ClientIds,
           NewBuffer(b, c) \/ NewBufferAfterFreed(b, c)
    PROVE  LinesApart'
<1>1. b \notin linked /\ linked \subseteq linked' /\ linked' \subseteq linked \cup {b}
  BY DEF NewBuffer, NewBufferAfterFreed, MallocItem, IInv, ListIsLinked
<1>2. UNCHANGED text /\ buffer' = [buffer EXCEPT ![b] = <<>>]
  BY DEF NewBuffer, NewBufferAfterFreed, MallocItem, text
<1>3. buffer'[b] = <<>> /\ \A a \in linked : buffer'[a] = buffer[a]
  BY <1>1, <1>2 DEF IInv, TypeOK
<1> QED BY <1>1, <1>2, <1>3, LinesUnmoved

LEMMA PrintKeepsLines ==
    ASSUME IInv, LinesApart, NEW m \in Lines, PrintLine(m) PROVE LinesApart'
<1>1. UNCHANGED <<buffer, linked, unwritten>> /\ returned' = returned \ {m} /\ m \in returned
  BY DEF PrintLine, fields, history
<1>2. Kept' = Kept
  BY <1>1 DEF Kept, InBuffer
<1>3. \A l \in Lines : frees'[l] = IF l = m THEN frees[m] + 1 ELSE frees[l]
  BY DEF PrintLine, IInv, TypeOK
<1>4. OneSlotEach'
  BY <1>1 DEF LinesApart, OneSlotEach
<1> QED BY <1>1, <1>2, <1>3, <1>4 DEF LinesApart

(* A line written goes to a slot of its own behind the others. *)
LEMMA WriteKeepsLines ==
    ASSUME IInv, LinesApart, NEW m \in Lines, WriteLine(m) PROVE LinesApart'
<1> DEFINE old == buffer[iterator]
<1>1. iterator \in linked /\ iterator \in Blocks
  BY InList DEF WriteLine, Found, IInv, WalksInList
<1>2. /\ m \in unwritten /\ unwritten' = unwritten \ {m}
      /\ buffer' = [buffer EXCEPT ![iterator] = Append(old, m)]
      /\ UNCHANGED <<returned, frees, linked>>
  BY DEF WriteLine, history
<1>3. old \in Seq(Lines) /\ Len(old) \in Nat /\ DOMAIN old = 1 .. Len(old)
  BY <1>1, SlotsTyped DEF IInv
<1>4. /\ DOMAIN Append(old, m) = 1 .. Len(old) + 1
      /\ \A k \in 1 .. Len(old) : Append(old, m)[k] = old[k]
      /\ Append(old, m)[Len(old) + 1] = m
  <2>1. Append(old, m) \in Seq(Lines) /\ Len(Append(old, m)) = Len(old) + 1
    BY ONLY <1>3, AppendProperties, m \in Lines
  <2> QED BY ONLY <1>3, <2>1, AppendProperties, LenProperties, m \in Lines
<1>5. PICK n \in Nat : n = Len(old)
  BY <1>3
<1>6. /\ DOMAIN old = 1 .. n /\ DOMAIN buffer'[iterator] = (1 .. n) \cup {n + 1}
      /\ \A k \in 1 .. n : buffer'[iterator][k] = old[k]
      /\ buffer'[iterator][n + 1] = m
      /\ \A b \in linked : b # iterator => buffer'[b] = buffer[b]
  <2>1. 1 .. n + 1 = (1 .. n) \cup {n + 1}
    OBVIOUS
  <2>2. buffer'[iterator] = Append(old, m)
    BY <1>1, <1>2 DEF IInv, TypeOK
  <2>3. \A b \in linked : b # iterator => buffer'[b] = buffer[b]
    BY <1>1, <1>2 DEF IInv, TypeOK
  <2> QED BY <1>3, <1>4, <1>5, <2>1, <2>2, <2>3
<1>7. \A b \in linked : \A k \in DOMAIN buffer[b] : buffer[b][k] # m
  BY <1>2 DEF LinesApart, Kept, InBuffer
<1>8. Kept' = Kept \cup {m}
  <2>1. \A l \in Lines, b \in linked : InBuffer(l, b)' <=> InBuffer(l, b) \/ (l = m /\ b = iterator)
    BY <1>6 DEF InBuffer
  <2> QED BY <1>1, <1>2, <2>1 DEF Kept
<1>9. OneSlotEach'
  <2> SUFFICES ASSUME NEW a \in linked, NEW b \in linked,
                      NEW j \in DOMAIN buffer'[a], NEW k \in DOMAIN buffer'[b],
                      buffer'[a][j] = buffer'[b][k]
               PROVE  a = b /\ j = k
    BY <1>2 DEF OneSlotEach
  <2> DEFINE New(d, i) == d = iterator /\ i = n + 1
  <2>1. New(a, j) \/ (j \in DOMAIN buffer[a] /\ buffer'[a][j] = buffer[a][j])
    BY <1>6
  <2>2. New(b, k) \/ (k \in DOMAIN buffer[b] /\ buffer'[b][k] = buffer[b][k])
    BY <1>6
  <2>3. CASE New(a, j) /\ New(b, k)
    BY <2>3
  <2>4. CASE New(a, j) /\ ~New(b, k)
    BY <1>6, <1>7, <2>2, <2>4
  <2>5. CASE ~New(a, j) /\ New(b, k)
    BY <1>6, <1>7, <2>1, <2>5
  <2>6. CASE ~New(a, j) /\ ~New(b, k)
    BY <2>1, <2>2, <2>6 DEF LinesApart, OneSlotEach
  <2> QED BY <2>3, <2>4, <2>5, <2>6
<1> QED BY <1>2, <1>8, <1>9 DEF LinesApart, IInv, TypeOK

(* The line read leaves its slot, and the others move up. *)
LEMMA ReadKeepsLines ==
    ASSUME IInv, LinesApart, ReadLine PROVE LinesApart'
<1> DEFINE old == buffer[iterator]
           m == Head(old)
<1>1. iterator \in linked /\ iterator \in Blocks
  BY InList DEF ReadLine, Found, IInv, WalksInList
<1>2. /\ old # <<>> /\ returned' = returned \cup {m}
      /\ buffer' = [buffer EXCEPT ![iterator] = Tail(old)]
      /\ UNCHANGED <<unwritten, frees, linked>>
  BY DEF ReadLine, history
<1>3. old \in Seq(Lines) /\ Len(old) \in Nat /\ DOMAIN old = 1 .. Len(old)
  BY <1>1, SlotsTyped DEF IInv
<1>4. /\ m = old[1] /\ m \in Lines /\ Len(old) >= 1
      /\ DOMAIN Tail(old) = 1 .. Len(old) - 1
      /\ \A k \in 1 .. Len(old) - 1 : Tail(old)[k] = old[k + 1]
  <2>1. Tail(old) \in Seq(Lines) /\ Len(Tail(old)) = Len(old) - 1 /\ m \in Lines
    BY ONLY <1>2, <1>3, HeadTailProperties
  <2>2. Len(old) >= 1
    BY ONLY <1>2, <1>3, EmptySeq
  <2>3. \A k \in 1 .. Len(Tail(old)) : Tail(old)[k] = old[k + 1]
    BY ONLY <1>2, <1>3, HeadTailProperties
  <2>4. m = old[1]
    BY ONLY <1>3
  <2> QED BY ONLY <2>1, <2>2, <2>3, <2>4, LenProperties
<1>5. PICK n \in Nat : n = Len(old)
  BY <1>3
<1>6. /\ n >= 1 /\ m = old[1] /\ DOMAIN old = 1 .. n /\ DOMAIN buffer'[iterator] = 1 .. n - 1
      /\ \A k \in 1 .. n - 1 : buffer'[iterator][k] = old[k + 1]
      /\ \A b \in linked : b # iterator => buffer'[b] = buffer[b]
  <2>1. buffer'[iterator] = Tail(old)
    BY <1>1, <1>2 DEF IInv, TypeOK
  <2>2. \A b \in linked : b # iterator => buffer'[b] = buffer[b]
    BY <1>1, <1>2 DEF IInv, TypeOK
  <2> QED BY <1>3, <1>4, <1>5, <2>1, <2>2
<1>7. \A b \in linked : \A k \in DOMAIN buffer[b] :
          buffer[b][k] = m => b = iterator /\ k = 1
  BY <1>1, <1>6 DEF LinesApart, OneSlotEach
<1>8. Kept' = Kept \ {m}
  <2>1. ASSUME NEW l \in Lines, NEW b \in linked, NEW k \in DOMAIN buffer'[b],
               buffer'[b][k] = l
        PROVE  l \in Kept /\ l # m
    <3>1. CASE b = iterator
      BY <1>6, <1>7, <2>1, <3>1, k + 1 \in 1 .. n, k + 1 # 1 DEF Kept, InBuffer
    <3>2. CASE b # iterator
      BY <1>6, <1>7, <2>1, <3>2 DEF Kept, InBuffer
    <3> QED BY <3>1, <3>2
  <2>2. ASSUME NEW l \in Lines, l # m, NEW b \in linked, NEW k \in DOMAIN buffer[b],
               buffer[b][k] = l
        PROVE  \E j \in DOMAIN buffer'[b] : buffer'[b][j] = l
    <3>1. CASE b = iterator
      <4>1. k \in 1 .. n /\ k # 1
        BY <1>6, <2>2, <3>1
      <4>2. k - 1 \in 1 .. n - 1 /\ (k - 1) + 1 = k
        BY <4>1
      <4> QED BY <1>6, <2>2, <3>1, <4>2
    <3>2. CASE b # iterator
      BY <1>6, <2>2, <3>2
    <3> QED BY <3>1, <3>2
  <2>3. Kept' = {l \in Lines : \E b \in linked : \E k \in DOMAIN buffer'[b] : buffer'[b][k] = l}
    BY <1>2 DEF Kept, InBuffer
  <2> QED BY <2>1, <2>2, <2>3 DEF Kept, InBuffer
<1>9. OneSlotEach'
  <2> SUFFICES ASSUME NEW a \in linked, NEW b \in linked,
                      NEW j \in DOMAIN buffer'[a], NEW k \in DOMAIN buffer'[b],
                      buffer'[a][j] = buffer'[b][k]
               PROVE  a = b /\ j = k
    BY <1>2 DEF OneSlotEach
  <2> DEFINE Was(d, i) == IF d = iterator THEN i + 1 ELSE i
  <2>1. Was(a, j) \in DOMAIN buffer[a] /\ buffer'[a][j] = buffer[a][Was(a, j)]
    BY <1>6
  <2>2. Was(b, k) \in DOMAIN buffer[b] /\ buffer'[b][k] = buffer[b][Was(b, k)]
    BY <1>6
  <2>3. a = b /\ Was(a, j) = Was(b, k)
    <3>1. buffer[a][Was(a, j)] = buffer[b][Was(b, k)]
      BY ONLY <2>1, <2>2, buffer'[a][j] = buffer'[b][k]
    <3> HIDE DEF Was
    <3> QED BY <2>1, <2>2, <3>1 DEF LinesApart, OneSlotEach
  <2>4. a = iterator => j \in Int /\ k \in Int
    BY <1>6, <2>3
  <2> QED BY <2>3, <2>4
<1> QED BY <1>1, <1>2, <1>4, <1>6, <1>8, <1>9 DEF LinesApart, Kept, InBuffer

(* What is freed with an item was kept there, and nowhere else. *)
LEMMA FreeKeepsLines ==
    ASSUME IInv, LinesApart, NEW b \in linked, FreeBuffer(b), UNCHANGED <<unwritten, returned>>
    PROVE  LinesApart'
<1>1. /\ linked' = linked \ {b}
      /\ \A a \in linked' : buffer'[a] = buffer[a]
      /\ \A m \in Lines : frees'[m] = IF InBuffer(m, b) THEN frees[m] + 1 ELSE frees[m]
  BY InList DEF FreeBuffer, IInv, TypeOK
<1>2. Kept' = {m \in Kept : ~InBuffer(m, b)}
  <2>1. \A m \in Lines, a \in linked' : InBuffer(m, a)' <=> InBuffer(m, a)
    BY <1>1 DEF InBuffer
  <2>2. \A m \in Lines, a \in linked' : ~(InBuffer(m, a) /\ InBuffer(m, b))
    BY <1>1 DEF InBuffer, LinesApart, OneSlotEach
  <2> QED BY <1>1, <2>1, <2>2 DEF Kept
<1>3. OneSlotEach'
  BY <1>1 DEF LinesApart, OneSlotEach
<1>4. \A m \in Lines : InBuffer(m, b) => m \in Kept
  BY DEF Kept
<1> QED BY <1>1, <1>2, <1>3, <1>4 DEF LinesApart

LEMMA StepLines == IInv /\ LinesApart /\ [Next]_vars => LinesApart'
<1> SUFFICES ASSUME IInv, LinesApart, [Next]_vars PROVE LinesApart'
  OBVIOUS
<1>1. CASE \/ UNCHANGED vars \/ SearchNext \/ GiveUp \/ RemoveNext \/ RemoveFails
           \/ ClearCall \/ ClearEnd
           \/ \E c \in ClientIds, op \in {"read", "write", "remove"} : Call(op, c)
  <2>1. UNCHANGED <<text, buffer, linked>>
    BY <1>1 DEF vars, SearchNext, GiveUp, RemoveNext, RemoveFails, ClearCall, ClearEnd, Call,
                fields, history
  <2> QED BY <2>1, LinesUnmoved
<1>2. CASE \E b \in Blocks, c \in ClientIds : NewBuffer(b, c) \/ NewBufferAfterFreed(b, c)
  BY <1>2, NewKeepsLines
<1>3. CASE ReadLine
  BY <1>3, ReadKeepsLines
<1>4. CASE \E m \in Lines : WriteLine(m) \/ PrintLine(m)
  BY <1>4, WriteKeepsLines, PrintKeepsLines
<1>5. CASE RemoveFound
  <2>1. Successor \in linked
    BY <1>5, InList DEF RemoveFound, Successor, IInv, WalksInList
  <2> QED BY <1>5, <2>1, FreeKeepsLines DEF RemoveFound
<1>6. CASE ClearNext
  <2>1. iterator \in linked
    BY <1>6, InList DEF ClearNext
  <2> QED BY <1>6, <2>1, FreeKeepsLines DEF ClearNext
<1> QED BY <1>1, <1>2, <1>3, <1>4, <1>5, <1>6 DEF Next, WalkStep, CallStep

(* Where each line is, and that it was freed at most once. *)
THEOREM LinesInvariance == Spec => []LinesApart
BY InitIInv, InitLines, StepIInv, StepLines, PTL DEF Spec

(* The slots of a line that is kept are one, and of any other line none. *)
LEMMA SlotsCounted ==
    ASSUME IInv, LinesApart, NEW m \in Lines
    PROVE  Cardinality(Slots(m)) = IF m \in Kept THEN 1 ELSE 0
<1>1. \A bk \in Slots(m) : bk[1] \in linked /\ bk[2] \in DOMAIN buffer[bk[1]]
                           /\ buffer[bk[1]][bk[2]] = m /\ bk = <<bk[1], bk[2]>>
  BY SlotsTyped, InList, HeapAssumption DEF Slots, IInv
<1>2. CASE m \in Kept
  <2>1. PICK b \in linked : \E k \in DOMAIN buffer[b] : buffer[b][k] = m
    BY <1>2 DEF Kept, InBuffer
  <2>2. PICK k \in DOMAIN buffer[b] : buffer[b][k] = m
    BY <2>1
  <2>3. <<b, k>> \in Slots(m)
    <3>1. b \in Blocks /\ Len(buffer[b]) \in Nat /\ Len(buffer[b]) <= BUFFER_LINE_AMOUNT
      BY SlotsTyped, InList DEF IInv, TypeOK
    <3>2. k \in 1 .. BUFFER_LINE_AMOUNT /\ k <= Len(buffer[b])
      BY <3>1, SlotsTyped, HeapAssumption DEF IInv
    <3> QED BY <2>2, <3>2 DEF Slots
  <2>4. \A bk \in Slots(m) : bk = <<b, k>>
    BY <1>1, <2>2 DEF LinesApart, OneSlotEach
  <2>5. Slots(m) = {<<b, k>>}
    BY <2>3, <2>4
  <2>6. Cardinality({<<b, k>>}) = 1
    BY FS_Singleton
  <2> QED BY <1>2, <2>5, <2>6
<1>3. CASE m \notin Kept
  <2>1. Slots(m) = {}
    BY <1>1, <1>3 DEF Kept, InBuffer
  <2> QED BY <1>3, <2>1, FS_EmptySet
<1> QED BY <1>2, <1>3

(* No line is lost, kept twice, or freed twice, whatever the calls.        *)
THEOREM LinesKept == Spec => []LinesInOnePlace
<1>1. IInv /\ LinesApart => LinesInOnePlace
  <2> SUFFICES ASSUME IInv, LinesApart, NEW m \in Lines
               PROVE  (IF m \in unwritten THEN 1 ELSE 0) + (IF m \in returned THEN 1 ELSE 0)
                          + frees[m] + Cardinality(Slots(m)) = 1
    BY DEF LinesInOnePlace
  <2>1. Cardinality(Slots(m)) = IF m \in Kept THEN 1 ELSE 0
    BY SlotsCounted
  <2> QED BY <2>1 DEF LinesApart
<1> QED BY <1>1, Invariance, LinesInvariance, PTL
=============================================================================
