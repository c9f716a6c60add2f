-------------------------- MODULE BufferListProofs --------------------------
(***************************************************************************)
(* The list of message buffers has no cycle, for any number of threads and *)
(* buffers and however the calls of new_buffer overlap; and where they do  *)
(* not overlap it holds every buffer, and searches find what is there.     *)
(***************************************************************************)
EXTENDS BufferList, SequenceTheorems, WellFoundedInduction, NaturalsInduction, TLAPS

Creating == {"test", "first", "load", "link", "last", "clear"}
InList(i) == \E k \in DOMAIN linked : linked[k] = i

(* An item belongs to the thread that makes it, and is in the list from    *)
(* the step in which that thread links it; what other items can be linked  *)
(* to is in the list already.                                              *)
Ownership ==
    /\ \A t \in Threads : pc[t] \in Creating => client_id[item[t]] # NULL
    /\ \A t, u \in Threads :
          t # u /\ pc[t] \in Creating /\ pc[u] \in Creating => item[t] # item[u]
    /\ \A i \in Items : InList(i) => client_id[i] # NULL
    /\ \A t \in Threads : pc[t] \in {"test", "first", "load", "link"} => ~InList(item[t])
    /\ \A t \in Threads : pc[t] \in {"last", "clear"} => InList(item[t])
    /\ last_buffer # NULL => InList(last_buffer)
    /\ \A t \in Threads : pc[t] = "link" => InList(tail[t])

ListInv == TypeOK /\ Ownership /\ PointsForward

-----------------------------------------------------------------------------
(* What linking an item does to the order. *)
LEMMA Linking ==
    ASSUME linked \in Seq(Items), NEW j \in Items, linked' = Append(linked, j)
    PROVE  /\ linked' \in Seq(Items)
           /\ InList(j)'
           /\ \A i : InList(i)' <=> InList(i) \/ i = j
           /\ \A i : InList(i) => Before(i, j)'
           /\ \A i, k : Before(i, k) => Before(i, k)'
<1>1. /\ linked' \in Seq(Items)
      /\ Len(linked') = Len(linked) + 1
      /\ \A k \in 1 .. Len(linked) : linked'[k] = linked[k]
      /\ linked'[Len(linked) + 1] = j
  BY AppendProperties
<1>2. /\ Len(linked) \in Nat
      /\ DOMAIN linked = 1 .. Len(linked)
      /\ DOMAIN linked' = 1 .. Len(linked) + 1
  BY <1>1, LenProperties
<1>3. DOMAIN linked \subseteq DOMAIN linked' /\ Len(linked) + 1 \in DOMAIN linked'
  BY <1>2
<1>4. \A i : InList(i)' <=> InList(i) \/ i = j
  BY <1>1, <1>2, <1>3 DEF InList
<1>5. \A i : InList(i) => Before(i, j)'
  BY <1>1, <1>2, <1>3 DEF InList, Before
<1>6. \A i, k : Before(i, k) => Before(i, k)'
  BY <1>1, <1>2, <1>3 DEF Before
<1> QED BY <1>1, <1>4, <1>5, <1>6

LEMMA InitListInv == Init => ListInv
<1> SUFFICES ASSUME Init PROVE ListInv
  OBVIOUS
<1> USE NullAssumption DEF Init
<1>1. <<>> \in Seq(Items) /\ DOMAIN linked = {}
  BY EmptySeq, LenProperties
<1>2. TypeOK
  BY <1>1 DEF TypeOK, Pointers
<1>3. Ownership
  BY <1>1 DEF Ownership, Creating, InList
<1>4. PointsForward
  BY DEF PointsForward
<1> QED BY <1>2, <1>3, <1>4 DEF ListInv

(* Steps that leave the items where they are. *)
LEMMA KeepsOrder ==
    ASSUME PointsForward, UNCHANGED <<next_buffer, linked>> PROVE PointsForward'
BY DEF PointsForward, Before

-----------------------------------------------------------------------------
LEMMA NewCallInv ==
    ASSUME ListInv, NEW t \in Threads, NEW i \in Items, NEW c \in ClientIds, NewCall(t, i, c)
    PROVE  ListInv'
<1> USE NullAssumption DEF ListInv, NewCall, Goto, pointers
<1>1. TypeOK'
  BY DEF TypeOK, Pointers
<1>2. PointsForward'
  BY KeepsOrder
<1>3. Ownership'
  BY DEF TypeOK, Pointers, Ownership, Creating, InList
<1> QED BY <1>1, <1>2, <1>3

(* The steps before and after the linking. *)
LEMMA TestFirstInv == ASSUME ListInv, NEW t \in Threads, TestFirst(t) PROVE ListInv'
<1> USE NullAssumption DEF ListInv, TestFirst, Goto, pointers, locals
<1>1. TypeOK'
  BY DEF TypeOK, Pointers
<1>2. PointsForward'
  BY KeepsOrder
<1>3. Ownership'
  BY DEF TypeOK, Pointers, Ownership, Creating, InList
<1> QED BY <1>1, <1>2, <1>3

LEMMA LoadLastInv == ASSUME ListInv, NEW t \in Threads, LoadLast(t) PROVE ListInv'
<1> USE NullAssumption DEF ListInv, LoadLast, Goto, pointers, locals
<1>1. TypeOK'
  BY DEF TypeOK, Pointers
<1>2. PointsForward'
  BY KeepsOrder
<1>3. Ownership'
  BY DEF TypeOK, Pointers, Ownership, Creating, InList
<1> QED BY <1>1, <1>2, <1>3

LEMMA LoadNullInv == ASSUME ListInv, NEW t \in Threads, LoadNull(t) PROVE ListInv'
<1> USE NullAssumption DEF ListInv, LoadNull, Goto, pointers, locals
<1>1. TypeOK'
  BY DEF TypeOK, Pointers
<1>2. PointsForward'
  BY KeepsOrder
<1>3. Ownership'
  BY DEF TypeOK, Pointers, Ownership, Creating, InList
<1> QED BY <1>1, <1>2, <1>3

LEMMA StoreLastInv == ASSUME ListInv, NEW t \in Threads, StoreLast(t) PROVE ListInv'
<1> USE NullAssumption DEF ListInv, StoreLast, Goto, pointers, locals
<1>1. TypeOK'
  BY DEF TypeOK, Pointers, NewLast
<1>2. PointsForward'
  BY KeepsOrder
<1>3. Ownership'
  BY DEF TypeOK, Pointers, Ownership, Creating, InList, NewLast
<1> QED BY <1>1, <1>2, <1>3

LEMMA LinkInv ==
    ASSUME ListInv, NEW t \in Threads, StoreFirst(t) \/ LinkNext(t)
    PROVE  ListInv'
<1> USE NullAssumption DEF ListInv, locals
<1>1. /\ item[t] \in Items
      /\ linked \in Seq(Items) /\ linked' = Append(linked, item[t])
      /\ pc[t] \in {"first", "link"} /\ pc' = [pc EXCEPT ![t] = "last"]
      /\ UNCHANGED <<last_buffer, client_id, item, tail, wanted, ready, due, overlap>>
  BY DEF StoreFirst, LinkNext, Goto, TypeOK, Pointers
<1>2. /\ linked' \in Seq(Items)
      /\ \A i : InList(i)' <=> InList(i) \/ i = item[t]
      /\ \A i : InList(i) => Before(i, item[t])'
      /\ \A i, k : Before(i, k) => Before(i, k)'
  BY <1>1, Linking
<1>3. LinkNext(t) => tail[t] \in Items /\ InList(tail[t])
  BY DEF LinkNext, Goto, TypeOK, Pointers, Ownership
<1>4. TypeOK'
  BY <1>1, <1>2, <1>3 DEF TypeOK, Pointers, StoreFirst, LinkNext
<1>5. PointsForward'
  BY <1>1, <1>2, <1>3 DEF PointsForward, StoreFirst, LinkNext, TypeOK
<1>6. Ownership'
  <2>1. \A u \in Threads : pc'[u] = IF u = t THEN "last" ELSE pc[u]
    BY <1>1 DEF TypeOK
  <2> QED BY <1>1, <1>2, <2>1 DEF Ownership, Creating
<1> QED BY <1>4, <1>5, <1>6

LEMMA NewReturnInv == ASSUME ListInv, NEW t \in Threads, NewReturn(t) PROVE ListInv'
<1> USE NullAssumption DEF ListInv, NewReturn, Goto, pointers
<1>1. item[t] \in Items
  BY DEF TypeOK, Pointers
<1>2. ready' \in Seq(Items)
  BY <1>1, AppendProperties DEF TypeOK
<1>3. TypeOK'
  BY <1>2 DEF TypeOK, Pointers
<1>4. PointsForward'
  BY KeepsOrder
<1>5. Ownership'
  BY DEF TypeOK, Ownership, Creating, InList
<1> QED BY <1>3, <1>4, <1>5

(* The least element of a set of numbers. *)
LEMMA Least ==
    ASSUME NEW S \in SUBSET Nat, S # {}
    PROVE  \E k \in S : \A l \in S : k <= l
<1>1. \E k \in S : \A l \in S : ~(<<l, k>> \in OpToRel(<, Nat))
  BY NatLessThanWellFounded, WFMin
<1>2. PICK k \in S : \A l \in S : ~(<<l, k>> \in OpToRel(<, Nat))
  BY <1>1
<1>3. \A l \in S : ~(l < k)
  BY <1>2 DEF OpToRel
<1> QED BY <1>3

LEMMA SearchInv ==
    ASSUME ListInv, NEW t \in Threads,
           SearchStep(t) \/ \E c \in ClientIds : SearchCall(t, c)
    PROVE  ListInv'
<1> USE NullAssumption DEF ListInv
<1>1. \A c : FirstReady(c) \in Pointers
  <2> SUFFICES ASSUME NEW c, Ready(c) # {} PROVE FirstReady(c) \in Pointers
    BY DEF FirstReady, Pointers
  <2>1. /\ Ready(c) \in SUBSET Nat
        /\ \A k \in Ready(c) : ready[k] \in Items
    BY LenProperties, ElementOfSeq DEF Ready, TypeOK
  <2>2. \E k \in Ready(c) : \A l \in Ready(c) : k <= l
    BY <2>1, Least
  <2> QED BY <2>1, <2>2 DEF FirstReady, Pointers
<1>2. TypeOK'
  <2>1. CASE SearchOn(t)
    BY <2>1 DEF TypeOK, Pointers, SearchOn, pointers, AtEnd
  <2>2. CASE SearchReturn(t)
    BY <2>2 DEF TypeOK, Pointers, SearchReturn, Goto, pointers
  <2>3. CASE \E c \in ClientIds : SearchCall(t, c)
    BY <1>1, <2>3 DEF TypeOK, Pointers, SearchCall, Goto, pointers
  <2> QED BY <2>1, <2>2, <2>3 DEF SearchStep
<1>3. PointsForward'
  BY KeepsOrder DEF SearchStep, SearchOn, SearchReturn, SearchCall, pointers
<1>4. /\ \A u \in Threads : pc'[u] \in Creating \/ pc[u] \in Creating =>
              pc'[u] = pc[u] /\ item'[u] = item[u] /\ tail'[u] = tail[u]
      /\ UNCHANGED <<last_buffer, client_id, linked>>
  BY DEF TypeOK, Creating, SearchStep, SearchOn, SearchReturn, SearchCall, Goto, pointers
<1>5. Ownership'
  BY <1>4 DEF Ownership, Creating, InList
<1> QED BY <1>2, <1>3, <1>5

-----------------------------------------------------------------------------
LEMMA NextListInv == ASSUME ListInv, [Next]_vars PROVE ListInv'
<1>1. CASE UNCHANGED vars
  BY <1>1 DEF vars, pointers, locals, ListInv, TypeOK, Ownership, PointsForward, InList, Before
<1>2. ASSUME NEW t \in Threads, NewStep(t) \/ SearchStep(t) \/ Call(t) PROVE ListInv'
  BY <1>2, NewCallInv, TestFirstInv, LoadLastInv, LoadNullInv, StoreLastInv, LinkInv, NewReturnInv, SearchInv DEF NewStep, Call
<1> QED BY <1>1, <1>2 DEF Next

(* The invariant, for all threads, items and interleavings. *)
THEOREM ListInvariance == Spec => []ListInv
<1>1. ListInv /\ [Next]_vars => ListInv'
  BY NextListInv
<1> QED BY InitListInv, <1>1, PTL DEF Spec

(* Pointers, sequences and locals keep their types, and new_buffer writes  *)
(* through no null pointer other than where the process dies of it.        *)
THEOREM TypeCorrect == Spec => []TypeOK
<1>1. ListInv => TypeOK
  BY DEF ListInv
<1> QED BY <1>1, ListInvariance, PTL

(* The list has no cycle, also when calls of new_buffer overlap: what an   *)
(* item points to was linked later than the item itself.                   *)
THEOREM NoCycle == Spec => []PointsForward
<1>1. ListInv => PointsForward
  BY DEF ListInv
<1> QED BY <1>1, ListInvariance, PTL
-----------------------------------------------------------------------------
(* No two calls of new_buffer overlap. *)

(* Items are linked once; what is not in the list points nowhere; a buffer *)
(* is in the list when new_buffer returns.                                 *)
LinkedOnce ==
    /\ \A k, l \in DOMAIN linked : linked[k] = linked[l] => k = l
    /\ \A i \in Items : ~InList(i) => next_buffer[i] = NULL
    /\ \A k \in DOMAIN ready : InList(ready[k])

LastLinked == linked[Len(linked)]

(* The list, and what the one thread that appends knows of it. *)
ListShape ==
    /\ first_buffer = IF linked = <<>> THEN NULL ELSE linked[1]
    /\ \A k \in 1 .. Len(linked) - 1 : next_buffer[linked[k]] = linked[k + 1]
    /\ linked # <<>> => next_buffer[LastLinked] = NULL
    /\ linked # <<>> /\ (\A t \in Threads : pc[t] # "last") => last_buffer = LastLinked

Appender(t) ==
    /\ pc[t] = "first" => linked = <<>>
    /\ pc[t] \in {"load", "link", "last"} => linked # <<>>
    /\ pc[t] = "link" => tail[t] = LastLinked
    /\ pc[t] = "last" => item[t] = LastLinked
    /\ pc[t] # "dead"

OneAppends == \A t, u \in Threads : Appending(t) /\ Appending(u) => t = u

(* A search is not past the buffer it has to find. *)
Searcher(t) ==
    pc[t] = "search" /\ due[t] # NULL =>
        /\ InList(due[t]) /\ client_id[due[t]] = wanted[t]
        /\ item[t] = due[t] \/ Before(item[t], due[t])

Serial ==
    ~overlap => ListShape /\ OneAppends /\ \A t \in Threads : Appender(t) /\ Searcher(t)

SerialInv == ListInv /\ LinkedOnce /\ Serial

LEMMA LinkedFacts ==
    ASSUME TypeOK
    PROVE  /\ Len(linked) \in Nat /\ DOMAIN linked = 1 .. Len(linked)
           /\ \A k \in 1 .. Len(linked) : linked[k] \in Items /\ InList(linked[k])
           /\ linked # <<>> => LastLinked \in Items /\ Len(linked) \in 1 .. Len(linked)
                               /\ linked[1] \in Items
<1>1. /\ Len(linked) \in Nat /\ DOMAIN linked = 1 .. Len(linked)
      /\ \A k \in 1 .. Len(linked) : linked[k] \in Items
  BY LenProperties, ElementOfSeq DEF TypeOK
<1>2. linked # <<>> => Len(linked) # 0
  BY EmptySeq DEF TypeOK
<1> QED BY <1>1, <1>2 DEF InList, LastLinked

LEMMA LinkingPlaces ==
    ASSUME TypeOK, NEW j \in Items, linked' = Append(linked, j)
    PROVE  /\ Len(linked') = Len(linked) + 1 /\ DOMAIN linked' = 1 .. Len(linked) + 1
           /\ \A k \in 1 .. Len(linked) : linked'[k] = linked[k]
           /\ linked'[Len(linked) + 1] = j /\ linked' # <<>>
BY AppendProperties, LenProperties DEF TypeOK

LEMMA LinkKeepsOnce ==
    ASSUME ListInv, LinkedOnce, NEW t \in Threads, StoreFirst(t) \/ LinkNext(t)
    PROVE  LinkedOnce'
<1>1. /\ item[t] \in Items /\ linked' = Append(linked, item[t]) /\ ready' = ready
      /\ ~InList(item[t]) /\ linked \in Seq(Items)
  BY DEF StoreFirst, LinkNext, Goto, ListInv, TypeOK, Pointers, Ownership
<1>2. /\ Len(linked) \in Nat /\ DOMAIN linked = 1 .. Len(linked)
      /\ DOMAIN linked' = 1 .. Len(linked) + 1
      /\ \A k \in 1 .. Len(linked) : linked'[k] = linked[k]
      /\ linked'[Len(linked) + 1] = item[t]
  BY <1>1, LinkedFacts, LinkingPlaces DEF ListInv
<1>3. \A i : InList(i)' <=> InList(i) \/ i = item[t]
  BY <1>1, Linking
<1>4. \A k, l \in DOMAIN linked' : linked'[k] = linked'[l] => k = l
  <2>1. \A k \in 1 .. Len(linked) : linked[k] # item[t]
    BY <1>1, <1>2 DEF InList
  <2> QED BY <1>2, <2>1 DEF LinkedOnce
<1>5. \A i \in Items : ~InList(i)' => next_buffer'[i] = NULL
  <2>1. CASE StoreFirst(t)
    BY <1>3, <2>1 DEF StoreFirst, LinkedOnce
  <2>2. CASE LinkNext(t)
    <3>1. InList(tail[t])
      BY <2>2 DEF LinkNext, Goto, ListInv, Ownership
    <3> QED BY <1>3, <2>2, <3>1 DEF LinkNext, LinkedOnce, ListInv, TypeOK
  <2> QED BY <2>1, <2>2
<1>6. \A k \in DOMAIN ready : \E l \in DOMAIN linked' : linked'[l] = ready[k]
  <2> TAKE k \in DOMAIN ready
  <2>1. PICK i : i = ready[k]
    OBVIOUS
  <2>2. InList(i)'
    BY <1>3, <2>1 DEF LinkedOnce
  <2> QED BY <2>1, <2>2 DEF InList
<1> QED BY <1>1, <1>4, <1>5, <1>6 DEF LinkedOnce, InList

LEMMA StepLinkedOnce ==
    ASSUME ListInv, LinkedOnce, [Next]_vars
    PROVE  LinkedOnce'
<1>1. ASSUME UNCHANGED <<next_buffer, linked, ready>> PROVE LinkedOnce'
  BY <1>1 DEF LinkedOnce, InList
<1>2. ASSUME NEW t \in Threads, NewReturn(t) PROVE LinkedOnce'
  <2>1. item[t] \in Items /\ InList(item[t]) /\ ready \in Seq(Items)
    BY <1>2 DEF NewReturn, Goto, ListInv, TypeOK, Ownership, Pointers
  <2>2. /\ DOMAIN ready' = 1 .. Len(ready) + 1 /\ DOMAIN ready = 1 .. Len(ready) /\ Len(ready) \in Nat
        /\ \A k \in 1 .. Len(ready) : ready'[k] = ready[k]
        /\ ready'[Len(ready) + 1] = item[t]
    BY <1>2, <2>1, AppendProperties, LenProperties DEF NewReturn
  <2>3. \A k \in DOMAIN ready' : InList(ready'[k])
    <3> TAKE k \in DOMAIN ready'
    <3>1. CASE k \in 1 .. Len(ready)
      BY <2>2, <3>1 DEF LinkedOnce
    <3>2. CASE k = Len(ready) + 1
      BY <2>1, <2>2, <3>2
    <3> QED BY <2>2, <3>1, <3>2
  <2> QED BY <1>2, <2>3 DEF LinkedOnce, InList, NewReturn, pointers
<1> QED BY <1>1, <1>2, LinkKeepsOnce
        DEF Next, NewStep, SearchStep, Call, NewCall, TestFirst, LoadLast, LoadNull, StoreLast,
            SearchCall, SearchOn, SearchReturn, pointers, vars

(* What the steps of new_buffer do, one thread at a time. *)
Shape == ListShape /\ OneAppends /\ \A t \in Threads : Appender(t)

LEMMA LinkKeepsShape ==
    ASSUME ListInv, LinkedOnce, Shape, NEW t \in Threads, StoreFirst(t) \/ LinkNext(t)
    PROVE  Shape'
<1>1. /\ item[t] \in Items /\ linked' = Append(linked, item[t]) /\ ~InList(item[t])
      /\ pc[t] \in {"first", "link"} /\ pc' = [pc EXCEPT ![t] = "last"]
      /\ UNCHANGED <<last_buffer, item, tail>>
  BY DEF StoreFirst, LinkNext, Goto, ListInv, TypeOK, Pointers, Ownership, locals
<1>2. /\ Len(linked') = Len(linked) + 1 /\ DOMAIN linked' = 1 .. Len(linked) + 1
      /\ \A k \in 1 .. Len(linked) : linked'[k] = linked[k]
      /\ linked'[Len(linked) + 1] = item[t] /\ linked' # <<>>
  BY <1>1, LinkingPlaces DEF ListInv
<1>3. /\ Len(linked) \in Nat /\ DOMAIN linked = 1 .. Len(linked)
      /\ \A k \in 1 .. Len(linked) : linked[k] \in Items /\ InList(linked[k])
  BY LinkedFacts DEF ListInv
<1>4. \A u \in Threads : pc'[u] = IF u = t THEN "last" ELSE pc[u]
  BY <1>1 DEF ListInv, TypeOK
<1>5. \A u \in Threads : u # t => ~Appending(u)
  BY <1>1 DEF Shape, OneAppends, Appending
<1>6. next_buffer[item[t]] = NULL /\ \A k \in 1 .. Len(linked) : linked[k] # item[t]
  BY <1>1, <1>3 DEF LinkedOnce
<1>7. OneAppends' /\ \A u \in Threads : Appender(u)'
  <2>1. OneAppends'
    BY <1>4, <1>5 DEF OneAppends, Appending
  <2>2. ASSUME NEW u \in Threads PROVE Appender(u)'
    <3>1. CASE u = t
      BY <1>1, <1>2, <1>4, <3>1 DEF Appender, LastLinked
    <3>2. CASE u # t
      BY <1>1, <1>4, <1>5, <3>2 DEF Appender, Appending, Shape
    <3> QED BY <3>1, <3>2
  <2> QED BY <2>1, <2>2
<1>8. CASE StoreFirst(t)
  <2>1. linked = <<>> /\ Len(linked) = 0
    BY <1>1, <1>8 DEF StoreFirst, Goto, Shape, Appender
  <2>2. first_buffer' = item[t] /\ next_buffer' = next_buffer
    BY <1>8 DEF StoreFirst
  <2>3. ListShape'
    BY <1>2, <1>4, <1>6, <2>1, <2>2 DEF ListShape, LastLinked
  <2> QED BY <1>7, <2>3 DEF Shape
<1>9. CASE LinkNext(t)
  <2>1. linked # <<>> /\ tail[t] = LastLinked
    BY <1>9 DEF LinkNext, Goto, Shape, Appender
  <2>2. first_buffer' = first_buffer /\ next_buffer' = [next_buffer EXCEPT ![LastLinked] = item[t]]
    BY <1>9, <2>1 DEF LinkNext
  <2>3. LastLinked \in Items /\ Len(linked) \in 1 .. Len(linked) /\ LastLinked # item[t]
    BY <1>6, <2>1, LinkedFacts DEF ListInv, LastLinked
  <2>4. \A i \in Items : next_buffer'[i] = IF i = LastLinked THEN item[t] ELSE next_buffer[i]
    BY <2>2 DEF ListInv, TypeOK
  <2>5. ASSUME NEW k \in 1 .. Len(linked) PROVE next_buffer'[linked'[k]] = linked'[k + 1]
    <3>1. CASE k = Len(linked)
      BY <1>2, <1>3, <2>3, <2>4, <3>1 DEF LastLinked
    <3>2. CASE k # Len(linked)
      <4>1. k \in 1 .. Len(linked) - 1 /\ k + 1 \in 1 .. Len(linked)
        <5>1. \A n \in Nat : \A j \in 1 .. n : j # n => j \in 1 .. n - 1 /\ j + 1 \in 1 .. n
          OBVIOUS
        <5> QED BY <1>3, <3>2, <5>1
      <4>2. linked[k] # LastLinked
        BY <1>3, <2>3, <3>2 DEF LinkedOnce, LastLinked
      <4> QED BY <1>2, <1>3, <2>4, <4>1, <4>2 DEF Shape, ListShape
    <3> QED BY <3>1, <3>2
  <2>6. (Len(linked) + 1) - 1 = Len(linked)
    BY <1>3
  <2>7. first_buffer' = linked'[1]
    BY <1>2, <2>1, <2>2, <2>3, <1>3 DEF Shape, ListShape
  <2>8. next_buffer'[item[t]] = NULL
    BY <1>1, <1>6, <2>3, <2>4
  <2>9. ListShape'
    BY <1>2, <1>4, <2>5, <2>6, <2>7, <2>8 DEF ListShape, LastLinked
  <2> QED BY <1>7, <2>9 DEF Shape
<1> QED BY <1>8, <1>9

LEMMA OverlapStays == ASSUME [Next]_vars, ~overlap' PROVE ~overlap
<1>1. ASSUME NEW t \in Threads, NewStep(t) PROVE ~overlap
  BY <1>1 DEF NewStep, TestFirst, StoreFirst, LoadLast, LoadNull, LinkNext, StoreLast, NewReturn
<1>2. ASSUME NEW t \in Threads, SearchStep(t) \/ Call(t) PROVE ~overlap
  BY <1>2 DEF SearchStep, Call, NewCall, SearchCall, SearchOn, SearchReturn
<1> QED BY <1>1, <1>2 DEF Next, vars

LEMMA StepShape ==
    ASSUME ListInv, LinkedOnce, ~overlap => Shape, [Next]_vars, ~overlap'
    PROVE  Shape'
<1>0. ~overlap /\ Shape
  BY OverlapStays
<1> USE <1>0, NullAssumption DEF Goto, pointers, locals
<1>p. pc \in [Threads -> {"idle", "test", "first", "load", "link", "last", "clear", "search", "dead"}]
      /\ item \in [Threads -> Pointers] /\ tail \in [Threads -> Pointers]
  BY DEF ListInv, TypeOK
(* Steps of a thread that does not append, before or after. *)
<1>1. ASSUME NEW t \in Threads, NEW to \in {"idle", "test", "clear", "search"}, pc' = [pc EXCEPT ![t] = to],
             \A u \in Threads : u # t => item'[u] = item[u] /\ tail'[u] = tail[u],
             pc[t] # "last", UNCHANGED <<pointers, linked>>
      PROVE  Shape'
  <2>1. \A u \in Threads : pc'[u] = IF u = t THEN to ELSE pc[u]
    BY <1>1, <1>p
  <2>2. OneAppends'
    BY <2>1 DEF Shape, OneAppends, Appending
  <2>3. \A u \in Threads : Appender(u)'
    BY <1>1, <2>1 DEF Shape, Appender, LastLinked
  <2>4. ListShape'
    BY <1>1, <2>1 DEF Shape, ListShape, LastLinked
  <2> QED BY <2>2, <2>3, <2>4 DEF Shape
<1>2. ASSUME NEW t \in Threads, NEW i \in Items, NEW c \in ClientIds, NewCall(t, i, c) PROVE Shape'
  <2>1. \A u \in Threads : u # t => item'[u] = item[u] /\ tail'[u] = tail[u]
    BY <1>2, <1>p DEF NewCall
  <2> QED BY <1>1, <1>2, <2>1 DEF NewCall
<1>3. ASSUME NEW t \in Threads, TestFirst(t) PROVE Shape'
  <2>1. pc[t] = "test" /\ UNCHANGED <<pointers, item, tail, linked>>
        /\ pc' = [pc EXCEPT ![t] = IF first_buffer = NULL THEN "first" ELSE "load"]
    BY <1>3 DEF TestFirst
  <2>2. \A u \in Threads : ~Appending(u)
    BY <1>3 DEF TestFirst
  <2>3. \A u \in Threads : pc'[u] = IF u = t THEN IF first_buffer = NULL THEN "first" ELSE "load" ELSE pc[u]
    BY <2>1, <1>p
  <2>4. first_buffer = NULL <=> linked = <<>>
    BY LinkedFacts DEF Shape, ListShape, ListInv
  <2>5. OneAppends'
    BY <2>2, <2>3 DEF OneAppends, Appending
  <2>6. \A u \in Threads : Appender(u)'
    BY <2>1, <2>2, <2>3, <2>4 DEF Shape, Appender, LastLinked, Appending
  <2>7. ListShape'
    BY <2>1, <2>2, <2>3 DEF Shape, ListShape, LastLinked, Appending
  <2> QED BY <2>5, <2>6, <2>7 DEF Shape
<1>4. ASSUME NEW t \in Threads, LoadLast(t) PROVE Shape'
  <2>1. pc[t] = "load" /\ UNCHANGED <<pointers, item, linked>> /\ pc' = [pc EXCEPT ![t] = "link"]
        /\ tail' = [tail EXCEPT ![t] = last_buffer]
    BY <1>4 DEF LoadLast
  <2>2. \A u \in Threads : u # t => ~Appending(u)
    BY <2>1 DEF Shape, OneAppends, Appending
  <2>3. \A u \in Threads : pc'[u] = (IF u = t THEN "link" ELSE pc[u]) /\ (u # t => tail'[u] = tail[u])
    BY <2>1, <1>p
  <2>4. linked # <<>> /\ tail'[t] = LastLinked
    BY <2>1, <2>2, <1>p DEF Shape, Appender, ListShape, Appending
  <2>5. OneAppends'
    BY <2>2, <2>3 DEF OneAppends, Appending
  <2>6. \A u \in Threads : Appender(u)'
    BY <2>1, <2>2, <2>3, <2>4 DEF Shape, Appender, LastLinked, Appending
  <2>7. ListShape'
    BY <2>1, <2>2, <2>3 DEF Shape, ListShape, LastLinked, Appending
  <2> QED BY <2>5, <2>6, <2>7 DEF Shape
<1>5. ASSUME NEW t \in Threads, LoadNull(t) PROVE FALSE
  <2>1. pc[t] = "load" /\ last_buffer = NULL
    BY <1>5 DEF LoadNull
  <2>2. \A u \in Threads : pc[u] # "last"
    BY <2>1 DEF Shape, OneAppends, Appending
  <2>3. linked # <<>>
    BY <2>1 DEF Shape, Appender
  <2> QED BY <2>1, <2>2, <2>3, LinkedFacts DEF Shape, ListShape, ListInv
<1>6. ASSUME NEW t \in Threads, StoreLast(t) PROVE Shape'
  <2>1. pc[t] = "last" /\ UNCHANGED <<first_buffer, next_buffer, item, tail, linked>>
        /\ pc' = [pc EXCEPT ![t] = "clear"] /\ last_buffer' = item[t]
    BY <1>6 DEF StoreLast, NewLast
  <2>2. \A u \in Threads : u # t => ~Appending(u)
    BY <2>1 DEF Shape, OneAppends, Appending
  <2>3. \A u \in Threads : pc'[u] = IF u = t THEN "clear" ELSE pc[u]
    BY <2>1, <1>p
  <2>4. item[t] = LastLinked
    BY <2>1 DEF Shape, Appender
  <2>5. OneAppends'
    BY <2>2, <2>3 DEF OneAppends, Appending
  <2>6. \A u \in Threads : Appender(u)'
    BY <2>1, <2>3 DEF Shape, Appender, LastLinked
  <2>7. ListShape'
    BY <2>1, <2>4 DEF Shape, ListShape, LastLinked
  <2> QED BY <2>5, <2>6, <2>7 DEF Shape
<1>7. ASSUME NEW t \in Threads, NewReturn(t) PROVE Shape'
  <2>1. \A u \in Threads : u # t => item'[u] = item[u] /\ tail'[u] = tail[u]
    BY <1>7, <1>p DEF NewReturn
  <2> QED BY <1>1, <1>7, <2>1 DEF NewReturn
<1>8. ASSUME NEW t \in Threads, NEW c \in ClientIds, SearchCall(t, c) PROVE Shape'
  <2>1. \A u \in Threads : u # t => item'[u] = item[u] /\ tail'[u] = tail[u]
    BY <1>8, <1>p DEF SearchCall
  <2> QED BY <1>1, <1>8, <2>1 DEF SearchCall
<1>9. ASSUME NEW t \in Threads, SearchStep(t) PROVE Shape'
  <2>1. \A u \in Threads : u # t => item'[u] = item[u] /\ tail'[u] = tail[u]
    BY <1>9, <1>p DEF SearchStep, SearchOn, SearchReturn
  <2>2. CASE SearchOn(t)
    <3>1. pc' = [pc EXCEPT ![t] = "search"]
      BY <2>2, <1>p DEF SearchOn
    <3> QED BY <1>1, <2>1, <2>2, <3>1 DEF SearchOn
  <2>3. CASE SearchReturn(t)
    BY <1>1, <2>1, <2>3 DEF SearchReturn
  <2> QED BY <1>9, <2>2, <2>3 DEF SearchStep
<1>10. ASSUME UNCHANGED vars PROVE Shape'
  BY <1>10 DEF vars, Shape, ListShape, OneAppends, Appender, Appending, LastLinked
<1> QED BY <1>2, <1>3, <1>4, <1>5, <1>6, <1>7, <1>8, <1>9, <1>10, LinkKeepsShape DEF Next, NewStep, Call

(* A buffer's id is not changed once it is in the list. *)
LEMMA IdsStay ==
    ASSUME ListInv, [Next]_vars, NEW i \in Items, InList(i)
    PROVE  client_id'[i] = client_id[i] /\ InList(i)'
<1>1. client_id[i] # NULL
  BY DEF ListInv, Ownership
<1>2. ASSUME NEW t \in Threads, StoreFirst(t) \/ LinkNext(t) PROVE client_id'[i] = client_id[i] /\ InList(i)'
  <2>1. item[t] \in Items /\ linked' = Append(linked, item[t]) /\ client_id' = client_id
    BY <1>2 DEF StoreFirst, LinkNext, Goto, ListInv, TypeOK, Pointers
  <2> QED BY <2>1, Linking DEF ListInv, TypeOK
<1>3. ASSUME NEW t \in Threads, NEW j \in Items, NEW c \in ClientIds, NewCall(t, j, c)
      PROVE  client_id'[i] = client_id[i] /\ InList(i)'
  BY <1>1, <1>3 DEF NewCall, InList, ListInv, TypeOK
<1>4. ASSUME UNCHANGED <<client_id, linked>> PROVE client_id'[i] = client_id[i] /\ InList(i)'
  BY <1>4 DEF InList
<1> QED BY <1>2, <1>3, <1>4
        DEF Next, NewStep, SearchStep, Call, TestFirst, LoadLast, LoadNull, StoreLast, NewReturn,
            SearchCall, SearchOn, SearchReturn, vars

LEMMA OrderStays ==
    ASSUME ListInv, [Next]_vars, NEW i, NEW j, Before(i, j)
    PROVE  Before(i, j)'
<1>1. ASSUME NEW t \in Threads, StoreFirst(t) \/ LinkNext(t) PROVE Before(i, j)'
  <2>1. item[t] \in Items /\ linked' = Append(linked, item[t])
    BY <1>1 DEF StoreFirst, LinkNext, Goto, ListInv, TypeOK, Pointers
  <2> QED BY <2>1, Linking DEF ListInv, TypeOK
<1>2. ASSUME linked' = linked PROVE Before(i, j)'
  BY <1>2 DEF Before
<1> QED BY <1>1, <1>2
        DEF Next, NewStep, SearchStep, Call, NewCall, TestFirst, LoadLast, LoadNull, StoreLast, NewReturn,
            SearchCall, SearchOn, SearchReturn, vars

(* What is due is in the list and has the id searched for. *)
LEMMA DueIsListed ==
    ASSUME ListInv, LinkedOnce, NEW c, FirstReady(c) # NULL
    PROVE  FirstReady(c) \in Items /\ InList(FirstReady(c)) /\ client_id[FirstReady(c)] = c
<1>1. Ready(c) # {} /\ Ready(c) \in SUBSET Nat
  <2>1. ready \in Seq(Items)
    BY DEF ListInv, TypeOK
  <2>2. DOMAIN ready \subseteq Nat
    BY ONLY <2>1, LenProperties
  <2> QED BY <2>2 DEF FirstReady, Ready
<1>2. \E k \in Ready(c) : \A l \in Ready(c) : k <= l
  BY <1>1, Least
<1>3. PICK k \in Ready(c) : FirstReady(c) = ready[k]
  BY <1>1, <1>2 DEF FirstReady
<1>4. k \in DOMAIN ready /\ client_id[ready[k]] = c
  BY DEF Ready
<1>5. ready[k] \in Items
  BY <1>4, LenProperties, ElementOfSeq DEF ListInv, TypeOK
<1> QED BY <1>3, <1>4, <1>5 DEF LinkedOnce

(* From an item of the list the search gets to the one linked next. *)
LEMMA SearchSteps ==
    ASSUME ListInv, LinkedOnce, ListShape, NEW i, NEW d, Before(i, d)
    PROVE  next_buffer[i] = d \/ Before(next_buffer[i], d)
<1>1. PICK k, l \in DOMAIN linked : k < l /\ linked[k] = i /\ linked[l] = d
  BY DEF Before
<1>2. Len(linked) \in Nat /\ DOMAIN linked = 1 .. Len(linked)
  BY LinkedFacts DEF ListInv
<1>3. k \in 1 .. Len(linked) - 1 /\ k + 1 \in DOMAIN linked /\ (k + 1 = l \/ k + 1 < l)
  <2>1. \A n \in Nat : \A a, b \in 1 .. n :
          a < b => a \in 1 .. n - 1 /\ a + 1 \in 1 .. n /\ (a + 1 = b \/ a + 1 < b)
    OBVIOUS
  <2> QED BY <1>1, <1>2, <2>1
<1>4. next_buffer[i] = linked[k + 1]
  BY <1>1, <1>3 DEF ListShape
<1> QED BY <1>1, <1>3, <1>4 DEF Before

LEMMA StepSearchers ==
    ASSUME ListInv, LinkedOnce, Serial, [Next]_vars, ~overlap', NEW u \in Threads
    PROVE  Searcher(u)'
<1>0. ListShape /\ Searcher(u)
  BY OverlapStays DEF Serial
<1> SUFFICES ASSUME (pc[u])' = "search", (due[u])' # NULL
             PROVE  /\ InList(due[u])' /\ (client_id[due[u]])' = (wanted[u])'
                    /\ (item[u])' = (due[u])' \/ Before(item[u], due[u])'
  BY DEF Searcher
<1>p. /\ pc \in [Threads -> {"idle", "test", "first", "load", "link", "last", "clear", "search", "dead"}]
      /\ item \in [Threads -> Pointers] /\ wanted \in [Threads -> ClientIds \cup {NULL}]
      /\ due \in [Threads -> Pointers]
  BY DEF ListInv, TypeOK
(* A search under way, while others append, or this thread goes on. *)
<1>1. ASSUME pc[u] = "search", wanted'[u] = wanted[u], due'[u] = due[u],
             item'[u] = due[u] \/ Before(item'[u], due[u])
      PROVE  /\ InList(due[u])' /\ (client_id[due[u]])' = (wanted[u])'
             /\ (item[u])' = (due[u])' \/ Before(item[u], due[u])'
  <2>1. PICK d, i : d = due[u] /\ i = item'[u]
    OBVIOUS
  <2>2. d # NULL /\ InList(d) /\ client_id[d] = wanted[u]
    BY <1>0, <1>1, <2>1 DEF Searcher
  <2>3. d \in Items
    BY <1>p, <2>1, <2>2 DEF Pointers
  <2>4. InList(d)' /\ client_id'[d] = client_id[d]
    BY <2>2, <2>3, IdsStay
  <2>5. i = d \/ Before(i, d)'
    BY <1>1, <2>1, OrderStays
  <2> QED BY <1>1, <2>1, <2>2, <2>4, <2>5 DEF InList, Before
<1>2. ASSUME UNCHANGED <<pc[u], item[u], wanted[u], due[u]>>
      PROVE  /\ InList(due[u])' /\ (client_id[due[u]])' = (wanted[u])'
             /\ (item[u])' = (due[u])' \/ Before(item[u], due[u])'
  <2>1. item[u] = due[u] \/ Before(item[u], due[u])
    BY <1>0, <1>2 DEF Searcher
  <2> QED BY <1>1, <1>2, <2>1
<1>3. ASSUME SearchOn(u)
      PROVE  /\ InList(due[u])' /\ (client_id[due[u]])' = (wanted[u])'
             /\ (item[u])' = (due[u])' \/ Before(item[u], due[u])'
  <2>1. /\ pc[u] = "search" /\ due' = due /\ wanted' = wanted /\ item[u] # NULL
        /\ client_id[item[u]] # wanted[u] /\ item'[u] = next_buffer[item[u]]
    BY <1>3, <1>p DEF SearchOn, AtEnd, Found
  <2>2. client_id[due[u]] = wanted[u] /\ (item[u] = due[u] \/ Before(item[u], due[u]))
    BY <1>0, <2>1 DEF Searcher
  <2>3. Before(item[u], due[u])
    BY <2>1, <2>2
  <2>4. item'[u] = due[u] \/ Before(item'[u], due[u])
    BY <1>0, <2>1, <2>3, SearchSteps
  <2> QED BY <1>1, <2>1, <2>4
<1>4. ASSUME NEW c \in ClientIds, SearchCall(u, c)
      PROVE  /\ InList(due[u])' /\ (client_id[due[u]])' = (wanted[u])'
             /\ (item[u])' = (due[u])' \/ Before(item[u], due[u])'
  <2>1. /\ due'[u] = FirstReady(c) /\ wanted'[u] = c /\ item'[u] = first_buffer
        /\ UNCHANGED <<client_id, linked>>
    BY <1>4, <1>p DEF SearchCall
  <2>2. PICK d : d = FirstReady(c)
    OBVIOUS
  <2>3. d \in Items /\ InList(d) /\ client_id[d] = c
    BY <2>1, <2>2, DueIsListed
  <2>4. PICK l \in DOMAIN linked : linked[l] = d
    BY <2>3 DEF InList
  <2>5. Len(linked) \in Nat /\ DOMAIN linked = 1 .. Len(linked)
    BY LinkedFacts DEF ListInv
  <2>6. linked # <<>> /\ 1 \in DOMAIN linked /\ (l = 1 \/ 1 < l)
    BY <2>4, <2>5
  <2>7. first_buffer = linked[1]
    BY <1>0, <2>6 DEF ListShape
  <2>8. first_buffer = d \/ Before(first_buffer, d)
    BY <2>4, <2>6, <2>7 DEF Before
  <2> QED BY <2>1, <2>2, <2>3, <2>8 DEF InList, Before
<1>5. ASSUME NEW t \in Threads, t # u, NewStep(t) \/ SearchStep(t) \/ Call(t)
      PROVE  (pc'[t] = "dead" /\ pc'[u] = "dead") \/ UNCHANGED <<pc[u], item[u], wanted[u], due[u]>>
  BY <1>5, <1>p DEF NewStep, TestFirst, StoreFirst, LoadLast, LoadNull, LinkNext, StoreLast, NewReturn,
                    SearchStep, SearchOn, SearchReturn, Call, NewCall, SearchCall, Goto, pointers, locals
<1>6. ASSUME NewStep(u) \/ SearchReturn(u) \/ \E i \in Items, c \in ClientIds : NewCall(u, i, c)
      PROVE  FALSE
  <2>1. pc'[u] # "search"
    BY <1>6, <1>p DEF NewStep, TestFirst, StoreFirst, LoadLast, LoadNull, LinkNext, StoreLast, NewReturn,
                      SearchReturn, NewCall, Goto
  <2> QED BY <2>1
<1>7. CASE UNCHANGED vars
  BY <1>2, <1>7 DEF vars, locals
<1> QED BY <1>2, <1>3, <1>4, <1>5, <1>6, <1>7 DEF Next, SearchStep, Call

LEMMA StepSerial ==
    ASSUME ListInv, LinkedOnce, Serial, [Next]_vars
    PROVE  Serial'
<1> SUFFICES ASSUME ~overlap'
             PROVE  (ListShape /\ OneAppends /\ \A t \in Threads : Appender(t) /\ Searcher(t))'
  BY DEF Serial
<1>1. Shape'
  BY StepShape DEF Serial, Shape
<1>2. \A t \in Threads : Searcher(t)'
  BY StepSearchers
<1> QED BY <1>1, <1>2 DEF Shape

LEMMA InitSerialInv == Init => LinkedOnce /\ Serial
<1> SUFFICES ASSUME Init PROVE LinkedOnce /\ Serial
  OBVIOUS
<1> USE DEF Init
<1>1. DOMAIN linked = {} /\ DOMAIN ready = {} /\ Len(linked) = 0
  BY EmptySeq, LenProperties
<1>2. LinkedOnce
  BY <1>1 DEF LinkedOnce
<1>3. ListShape /\ OneAppends
  BY <1>1 DEF ListShape, OneAppends, Appending
<1>4. \A t \in Threads : Appender(t) /\ Searcher(t)
  BY DEF Appender, Searcher
<1> QED BY <1>2, <1>3, <1>4 DEF Serial

(* The list, and what each thread may rely on, until calls overlap. *)
THEOREM SerialInvariance == Spec => []SerialInv
<1>1. Init => SerialInv
  BY InitListInv, InitSerialInv DEF SerialInv
<1>2. SerialInv /\ [Next]_vars => SerialInv'
  BY NextListInv, StepLinkedOnce, StepSerial DEF SerialInv
<1> QED BY <1>1, <1>2, PTL DEF Spec

(* As long as no two calls of new_buffer overlap the list holds every      *)
(* buffer in the order in which they were linked, and the process lives.   *)
THEOREM SerialListKept == Spec => []SerialAppendsKeepList
<1>1. SerialInv => SerialAppendsKeepList
  <2> SUFFICES ASSUME SerialInv, ~overlap PROVE SerialAppendsKeepList
    BY DEF SerialAppendsKeepList
  <2>1. ListShape /\ \A t \in Threads : pc[t] # "dead"
    BY DEF SerialInv, Serial, Appender
  <2>2. (\A t \in Threads : ~Appending(t)) => \A t \in Threads : pc[t] # "last"
    BY DEF Appending
  <2> QED BY <2>1, <2>2 DEF SerialAppendsKeepList, ListShape, LastLinked
<1> QED BY <1>1, SerialInvariance, PTL

(* A search that walks while others append returns the buffer that was     *)
(* ready at its start, or one with the same id linked before.              *)
THEOREM SearchesFind == Spec => []SearchFindsReady
<1>1. SerialInv => SearchFindsReady
  BY DEF SerialInv, Serial, Searcher, SearchFindsReady
<1> QED BY <1>1, SerialInvariance, PTL

=============================================================================
