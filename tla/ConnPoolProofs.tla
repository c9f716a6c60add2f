--------------------------- MODULE ConnPoolProofs ---------------------------
(***************************************************************************)
(* What closing by number can and can not do, for any number of threads,   *)
(* connections and descriptors: nothing leaks, every number that does not  *)
(* stand for what was opened under it is owed to a handshake of its own    *)
(* that has failed, and what main opened before there was a pool can not   *)
(* be hit.                                                                 *)
(***************************************************************************)
EXTENDS ConnPool, FiniteSetTheorems, TLAPS

(* Each holder has opened something of its own, and knows its number from  *)
(* then on until it closes that number for the last time; what is open     *)
(* under a number that was given out so is never main's.                   *)
Ownership ==
    /\ \A h \in Holders : fd[h] = None <=> opened[h] = None
    /\ \A h, k \in Holders : h # k /\ opened[h] # None => opened[h] # opened[k]
    /\ \A t \in Threads : opened[t] # None => opened[t] \in arrived \ waiting
    /\ opened[SQLite] \in {Journal, None}
    /\ \A t \in Threads : pc[t] \in {"unborn", "failed", "lock", "accept"} => fd[t] = None
    /\ \A h \in Holders : fd[h] # None => table[fd[h]] \in Passing \cup {None}

(* How main comes by the standard descriptors, alone in the process.       *)
Serving == {"make", "join", "exit"}

StartInv ==
    /\ main \in {"init", "daemon"} => \A d \in Std : table[d] = Terminal
    /\ main \in {"init", "daemon", "null"} => nullfd = None
    /\ main \in {"dup1", "dup2"} => nullfd # None
    /\ main = "null" => \A d \in Std : table[d] = None
    /\ main = "dup1" => table[0] = Null /\ table[1] = None /\ table[2] = None
    /\ main = "dup2" => table[0] = Null /\ table[1] = Null /\ table[2] = None
    /\ main \in {"listen"} \cup Serving /\ nullfd # None => \A d \in Std : table[d] = Null
    /\ main \notin Serving => \A t \in Threads : pc[t] = "unborn"
    /\ main \notin Serving => \A h \in Holders : fd[h] = None

PoolInv == TypeOK /\ Ownership /\ NoLeak /\ StartInv
StrayInv == PoolInv /\ StraysBounded

-----------------------------------------------------------------------------
LEMMA InitPoolInv == Init => PoolInv
<1> SUFFICES ASSUME Init PROVE PoolInv
  OBVIOUS
<1> USE PoolAssumption DEF Init
<1>1. TypeOK
  BY DEF TypeOK, Opened, Passing, Kept, Holders
<1>2. Ownership /\ NoLeak
  BY DEF Ownership, NoLeak, Holders, Passing, Std
<1>3. StartInv
  BY DEF StartInv, Serving, Std
<1> QED BY <1>1, <1>2, <1>3 DEF PoolInv

(* What the threads do leaves main's part alone as long as what main has   *)
(* opened stays.                                                           *)
LEMMA ServingStart ==
    ASSUME PoolInv, main \in Serving, UNCHANGED <<main, nullfd>>,
           \A d \in Fds : table[d] \in Kept \cup {Terminal} => table'[d] = table[d]
    PROVE  StartInv'
BY PoolAssumption DEF PoolInv, StartInv, Serving, Kept

LEMMA BornServing ==
    ASSUME PoolInv
    PROVE  /\ \A t \in Threads : pc[t] # "unborn" => main \in Serving
           /\ \A h \in Holders : fd[h] # None => main \in Serving
BY DEF PoolInv, StartInv

(* Steps of a thread that leave the descriptors alone. *)
LEMMA QuietStepInv ==
    ASSUME PoolInv, NEW t \in Threads,
           Lock(t) \/ Unlock(t) \/ Handshake(t) \/ EndServe(t) \/ AcceptFails(t)
    PROVE  PoolInv'
<1> USE PoolAssumption DEF PoolInv, Goto, queue, start, results
<1>1. UNCHANGED <<start, table, arrived, fd, opened, failures>> /\ waiting' \subseteq waiting
  BY DEF Lock, Unlock, Handshake, EndServe, AcceptFails
<1>2. TypeOK'
  <2>1. CASE Lock(t) \/ Unlock(t)
    BY <1>1, <2>1 DEF TypeOK, Opened, Holders, Lock, Unlock
  <2>2. CASE Handshake(t) \/ EndServe(t)
    BY <1>1, <2>2 DEF TypeOK, Opened, Handshake, EndServe
  <2>3. CASE AcceptFails(t)
    BY <1>1, <2>3 DEF TypeOK, Opened, AcceptFails
  <2> QED BY <2>1, <2>2, <2>3
<1>3. /\ \A u \in Threads : pc'[u] \in {"unborn", "failed", "lock", "accept"}
                                => pc[u] \in {"unborn", "failed", "lock", "accept"}
      /\ pc[t] # "unborn"
  BY DEF TypeOK, Lock, Unlock, Handshake, EndServe, AcceptFails
<1>4. Ownership' /\ NoLeak'
  BY <1>1, <1>3 DEF Ownership, NoLeak
<1>5. StartInv'
  BY <1>1, <1>3, BornServing, ServingStart
<1> QED BY <1>2, <1>4, <1>5

-----------------------------------------------------------------------------
(* main *)

LEMMA StartLowest ==
    ASSUME PoolInv, NEW d \in Fds, Lowest(d)
    PROVE  /\ main \in {"init", "daemon"} => d \notin Std
           /\ main = "listen" /\ nullfd # None => d \notin Std
           /\ main = "null" => d = 0
           /\ main = "dup1" => d = 1
           /\ main = "dup2" => d = 2
BY PoolAssumption DEF PoolInv, StartInv, Lowest, Std, Kept

LEMMA PlaceInv ==
    ASSUME PoolInv, main \notin Serving, NEW what \in Kept, NEW d \in Fds, Place(what, d),
           UNCHANGED <<pc, pool>>,
           \/ main = "init" /\ main' = "daemon" /\ nullfd' = nullfd
           \/ main = "listen" /\ main' = "make" /\ nullfd' = nullfd
           \/ /\ what = Null /\ main \in DOMAIN AfterNull /\ main' = AfterNull[main]
              /\ nullfd' = IF main = "null" THEN d ELSE nullfd,
           listenfd' \in Fds \cup {None}
    PROVE  PoolInv'
<1> USE PoolAssumption DEF PoolInv, Place, pool, queue, AfterNull
<1>1. TypeOK'
  BY DEF TypeOK, Opened
<1>2. \A h \in Holders : fd[h] = None
  BY DEF StartInv
<1>3. Ownership' /\ NoLeak'
  <2>1. Ownership'
    BY <1>2 DEF Ownership
  <2>2. \A e \in Fds : table'[e] \notin Passing
    BY <1>2 DEF NoLeak, TypeOK
  <2> QED BY <2>1, <2>2 DEF NoLeak
<1>4. StartInv'
  <2>1. \A e \in Fds : table'[e] = IF e = d THEN what ELSE table[e]
    BY DEF TypeOK
  <2>2. 0 \in Fds /\ 1 \in Fds /\ 2 \in Fds
    BY DEF Std
  <2>3. CASE main = "init" /\ main' = "daemon" /\ nullfd' = nullfd
    BY <2>1, <2>3, StartLowest DEF StartInv, Serving
  <2>4. CASE main = "listen" /\ main' = "make" /\ nullfd' = nullfd
    BY <2>1, <2>4, StartLowest DEF StartInv, Serving
  <2>5. CASE /\ what = Null /\ main \in DOMAIN AfterNull /\ main' = AfterNull[main]
             /\ nullfd' = IF main = "null" THEN d ELSE nullfd
    BY <2>1, <2>2, <2>5, StartLowest DEF StartInv, Serving, Std
  <2> QED BY <2>3, <2>4, <2>5
<1> QED BY <1>1, <1>3, <1>4

LEMMA ThreadMakeInv == ASSUME PoolInv, NEW t \in Threads, ThreadMake(t) PROVE PoolInv'
<1> USE PoolAssumption DEF PoolInv, ThreadMake, Goto, start, results, pool, queue
<1>1. \A u \in Threads : u # t => pc'[u] = pc[u]
  BY DEF TypeOK
<1>2. pc'[t] \in {"lock", "failed"} /\ pc[t] = "unborn"
  BY DEF TypeOK
<1>3. TypeOK'
  BY <1>1, <1>2 DEF TypeOK
<1>4. Ownership' /\ NoLeak'
  BY <1>1, <1>2 DEF Ownership, NoLeak
<1>5. StartInv'
  BY DEF StartInv, Serving
<1> QED BY <1>3, <1>4, <1>5

(* Steps of main: nobody else has a descriptor while it opens or closes. *)
LEMMA MainStepInv ==
    ASSUME PoolInv, MainStep
    PROVE  /\ PoolInv' /\ fd' = fd /\ opened' = opened /\ failures' = failures
           /\ (\A h \in Holders : fd[h] = None) \/ UNCHANGED table
<1>0. fd' = fd /\ opened' = opened /\ failures' = failures
  BY DEF MainStep, InitDb, OpenNull, ServListen, Daemonise, DaemonFails, OpenNullFails,
         ServListenFails, JoinAll, ThreadMake, pool
<1>1. ASSUME NEW d \in Fds, InitDb(d) \/ OpenNull(d) \/ ServListen(d)
      PROVE  PoolInv' /\ \A h \in Holders : fd[h] = None
  <2>1. main \notin Serving
    BY <1>1 DEF InitDb, OpenNull, ServListen, AfterNull, Serving
  <2>2. ASSUME InitDb(d) PROVE PoolInv'
    <3>1. /\ Place(Database, d) /\ UNCHANGED <<pc, pool>> /\ listenfd' \in Fds \cup {None}
          /\ main = "init" /\ main' = "daemon" /\ nullfd' = nullfd
          /\ Database \in Kept
      BY <2>2 DEF InitDb, Kept, PoolInv, TypeOK, results
    <3> QED BY <2>1, <3>1, PlaceInv
  <2>3. ASSUME OpenNull(d) PROVE PoolInv'
    <3>1. /\ Place(Null, d) /\ UNCHANGED <<pc, pool>> /\ listenfd' \in Fds \cup {None}
          /\ main \in DOMAIN AfterNull /\ main' = AfterNull[main]
          /\ nullfd' = IF main = "null" THEN d ELSE nullfd
          /\ Null \in Kept
      BY <2>3 DEF OpenNull, Kept, PoolInv, TypeOK
    <3> QED BY <2>1, <3>1, PlaceInv
  <2>4. ASSUME ServListen(d) PROVE PoolInv'
    <3>1. /\ Place(Listener, d) /\ UNCHANGED <<pc, pool>> /\ listenfd' \in Fds \cup {None}
          /\ main = "listen" /\ main' = "make" /\ nullfd' = nullfd
          /\ Listener \in Kept
      BY <2>4 DEF ServListen, Kept, PoolInv, TypeOK
    <3> QED BY <2>1, <3>1, PlaceInv
  <2> QED BY <1>1, <2>1, <2>2, <2>3, <2>4 DEF PoolInv, StartInv
<1>2. ASSUME Daemonise PROVE PoolInv' /\ \A h \in Holders : fd[h] = None
  <2> USE PoolAssumption, <1>2 DEF Daemonise, PoolInv, results, pool, queue
  <2>1. \A h \in Holders : fd[h] = None
    BY DEF StartInv, Serving
  <2>2. TypeOK'
    BY DEF TypeOK, Opened
  <2>3. Ownership' /\ NoLeak'
    BY <2>1 DEF Ownership, NoLeak, TypeOK
  <2>4. StartInv'
    BY DEF StartInv, Serving
  <2> QED BY <2>1, <2>2, <2>3, <2>4
<1>3. ASSUME DaemonFails \/ OpenNullFails \/ ServListenFails \/ JoinAll
      PROVE  PoolInv' /\ UNCHANGED table
  <2> USE <1>3 DEF DaemonFails, OpenNullFails, ServListenFails, JoinAll, PoolInv, results, pool,
                   queue
  <2>1. TypeOK' /\ UNCHANGED table
    BY DEF TypeOK
  <2>2. Ownership' /\ NoLeak'
    BY DEF Ownership, NoLeak
  <2>3. StartInv'
    BY DEF StartInv, Serving
  <2> QED BY <2>1, <2>2, <2>3
<1>4. ASSUME NEW t \in Threads, ThreadMake(t) PROVE PoolInv' /\ UNCHANGED table
  BY <1>4, ThreadMakeInv DEF ThreadMake
<1> QED BY <1>0, <1>1, <1>2, <1>3, <1>4 DEF MainStep

-----------------------------------------------------------------------------
LEMMA ConnectInv == ASSUME PoolInv, NEW c \in Conns, Connect(c) PROVE PoolInv'
<1> USE DEF PoolInv, Connect, start, results
<1>1. TypeOK'
  BY DEF TypeOK, Opened
<1>2. Ownership' /\ NoLeak' /\ StartInv'
  BY DEF TypeOK, Ownership, NoLeak, StartInv
<1> QED BY <1>1, <1>2

MainsStay == \A d \in Fds : table[d] \in Kept \cup {Terminal} => table'[d] = table[d]

(* Opening something nobody has open. *)
LEMMA OpenInv ==
    ASSUME PoolInv, NEW h \in Holders, NEW what \in Passing, NEW d \in Fds,
           Open(h, what, d), fd[h] = None, \A k \in Holders : opened[k] # what
    PROVE  /\ fd' \in [Holders -> Fds \cup {None}]
           /\ opened' \in [Holders -> Passing \cup {None}]
           /\ table' \in [Fds -> Opened]
           /\ \A k \in Holders : fd'[k] = None <=> opened'[k] = None
           /\ \A k, l \in Holders : k # l /\ opened'[k] # None => opened'[k] # opened'[l]
           /\ \A k \in Holders : fd'[k] # None => table'[fd'[k]] \in Passing \cup {None}
           /\ MainsStay
           /\ NoLeak'
           /\ Strays' \subseteq Strays
<1> USE PoolAssumption DEF PoolInv, Open, Place, Lowest
<1>1. /\ fd' \in [Holders -> Fds \cup {None}] /\ opened' \in [Holders -> Passing \cup {None}]
      /\ table' \in [Fds -> Opened]
  BY DEF TypeOK, Opened
<1>2. /\ \A k \in Holders : fd'[k] = None <=> opened'[k] = None
      /\ \A k, l \in Holders : k # l /\ opened'[k] # None => opened'[k] # opened'[l]
  BY DEF TypeOK, Ownership
<1>3. NoLeak'
  <2> SUFFICES ASSUME NEW e \in Fds, table'[e] \in Passing
               PROVE  \E k \in Holders : fd'[k] = e /\ opened'[k] = table'[e]
    BY DEF NoLeak
  <2>1. CASE e = d
    BY <2>1 DEF TypeOK
  <2>2. CASE e # d
    <3>1. PICK k \in Holders : fd[k] = e /\ opened[k] = table[e]
      BY <2>2 DEF NoLeak, TypeOK
    <3> QED BY <2>2, <3>1 DEF TypeOK
  <2> QED BY <2>1, <2>2
<1>4. Strays' \subseteq Strays
  BY DEF Strays, TypeOK, Ownership
<1>5. \A k \in Holders : fd'[k] # None => table'[fd'[k]] \in Passing \cup {None}
  BY DEF TypeOK, Ownership
<1>6. MainsStay
  BY DEF TypeOK, MainsStay
<1> QED BY <1>1, <1>2, <1>3, <1>4, <1>5, <1>6

LEMMA AcceptInv ==
    ASSUME PoolInv, NEW t \in Threads, NEW c \in Conns, NEW d \in Fds, Accept(t, c, d)
    PROVE  PoolInv' /\ Strays' \subseteq Strays
<1> USE PoolAssumption DEF PoolInv, Accept, Goto, start, results
<1>1. /\ t \in Holders /\ fd[t] = None
      /\ \A k \in Holders : opened[k] # c
  BY DEF Holders, Ownership, Passing
<1>2. /\ fd' \in [Holders -> Fds \cup {None}] /\ opened' \in [Holders -> Passing \cup {None}]
      /\ table' \in [Fds -> Opened]
      /\ \A k \in Holders : fd'[k] = None <=> opened'[k] = None
      /\ \A k, l \in Holders : k # l /\ opened'[k] # None => opened'[k] # opened'[l]
      /\ \A k \in Holders : fd'[k] # None => table'[fd'[k]] \in Passing \cup {None}
      /\ MainsStay /\ NoLeak'
      /\ Strays' \subseteq Strays
  BY <1>1, OpenInv DEF Passing
<1>3. TypeOK'
  BY <1>2 DEF TypeOK
<1>4. /\ \A k \in Holders \ {t} : fd'[k] = fd[k] /\ opened'[k] = opened[k]
      /\ opened'[t] = c
      /\ \A u \in Threads : pc'[u] = IF u = t THEN "unlock" ELSE pc[u]
  BY <1>1 DEF Open, TypeOK
<1>5. Ownership'
  <2>1. \A u \in Threads : opened'[u] # None => opened'[u] \in arrived' \ waiting'
    BY <1>4 DEF Ownership, Holders, TypeOK
  <2>2. opened'[SQLite] \in {Journal, None}
    BY <1>4 DEF Ownership, Holders
  <2>3. \A u \in Threads : pc'[u] \in {"unborn", "failed", "lock", "accept"} => fd'[u] = None
    BY <1>4 DEF Ownership, Holders
  <2> QED BY <1>2, <2>1, <2>2, <2>3 DEF Ownership
<1>6. StartInv'
  BY <1>2, BornServing, ServingStart DEF MainsStay
<1> QED BY <1>2, <1>3, <1>5, <1>6

LEMMA OpenJournalInv ==
    ASSUME PoolInv, NEW d \in Fds, OpenJournal(d)
    PROVE  PoolInv' /\ Strays' \subseteq Strays
<1> USE PoolAssumption DEF PoolInv, OpenJournal, queue, start, results
<1>1. /\ SQLite \in Holders /\ fd[SQLite] = None
      /\ \A k \in Holders : opened[k] # Journal
  BY DEF Holders, Ownership, TypeOK, Passing
<1>2. /\ fd' \in [Holders -> Fds \cup {None}] /\ opened' \in [Holders -> Passing \cup {None}]
      /\ table' \in [Fds -> Opened]
      /\ \A k \in Holders : fd'[k] = None <=> opened'[k] = None
      /\ \A k, l \in Holders : k # l /\ opened'[k] # None => opened'[k] # opened'[l]
      /\ \A k \in Holders : fd'[k] # None => table'[fd'[k]] \in Passing \cup {None}
      /\ MainsStay /\ NoLeak'
      /\ Strays' \subseteq Strays
  BY <1>1, OpenInv DEF Passing
<1>3. TypeOK'
  BY <1>2 DEF TypeOK
<1>4. /\ \A t \in Threads : fd'[t] = fd[t] /\ opened'[t] = opened[t]
      /\ opened'[SQLite] = Journal
  BY <1>1 DEF Open, TypeOK, Holders
<1>5. Ownership'
  BY <1>2, <1>4 DEF Ownership
<1>6. StartInv'
  BY <1>2, BornServing, ServingStart DEF MainsStay, Busy
<1> QED BY <1>2, <1>3, <1>5, <1>6

-----------------------------------------------------------------------------
(* Closing *)

(* At most one holder loses by a close what is still its own. *)
LEMMA OneVictim ==
    ASSUME PoolInv, NEW h \in Holders, CloseNumber(fd[h]),
           \A k \in Holders \ {h} : fd'[k] = fd[k] /\ opened'[k] = opened[k]
    PROVE  /\ table' \in [Fds -> Opened]
           /\ MainsStay
           /\ \A k \in Holders \ {h} : fd'[k] # None => table'[fd'[k]] \in Passing \cup {None}
           /\ \A d \in Fds : fd[h] = d => table'[d] \in Passing \cup {None}
           /\ \E v \in Holders :
                 /\ Strays' \subseteq Strays \cup {v, h}
                 /\ h \notin Strays => v = h
<1> USE PoolAssumption DEF PoolInv, CloseNumber
<1>1. /\ table' \in [Fds -> Opened]
      /\ MainsStay
      /\ \A k \in Holders \ {h} : fd'[k] # None => table'[fd'[k]] \in Passing \cup {None}
      /\ \A d \in Fds : fd[h] = d => table'[d] \in Passing \cup {None}
  <2>1. table' \in [Fds -> Opened]
    BY DEF TypeOK, Opened
  <2>2. MainsStay
    BY DEF TypeOK, Ownership, MainsStay, Kept, Passing
  <2>3. /\ \A k \in Holders \ {h} : fd'[k] # None => table'[fd'[k]] \in Passing \cup {None}
        /\ \A d \in Fds : fd[h] = d => table'[d] \in Passing \cup {None}
    BY DEF TypeOK, Ownership
  <2> QED BY <2>1, <2>2, <2>3
<1>2. CASE fd[h] = None
  <2>1. Strays' \subseteq Strays \cup {h}
    BY <1>2 DEF Strays
  <2> QED BY <1>1, <2>1
<1>3. CASE fd[h] # None /\ table[fd[h]] = None
  <2>1. Strays' \subseteq Strays \cup {h}
    BY <1>3 DEF Strays, TypeOK
  <2>2. h \in Strays
    BY <1>3 DEF Strays, Ownership
  <2> QED BY <1>1, <2>1, <2>2
<1>4. CASE fd[h] # None /\ table[fd[h]] # None
  <2>0. fd[h] \in Fds
    BY <1>4 DEF TypeOK
  <2>1. PICK v \in Holders : fd[v] = fd[h] /\ opened[v] = table[fd[h]]
    BY <1>4, <2>0 DEF NoLeak, Ownership
  <2>2. \A k \in Holders \ {v} : opened[k] # table[fd[h]]
    BY <1>4, <2>1 DEF Ownership
  <2>3. ASSUME NEW k \in Strays', k # h, k # v PROVE k \in Strays
    <3>1. k \in Holders /\ fd[k] # None /\ fd[k] \in Fds /\ table'[fd[k]] # opened[k]
      BY <2>3 DEF Strays, TypeOK
    <3>2. CASE fd[k] = fd[h]
      BY <2>2, <2>3, <3>1, <3>2 DEF Strays
    <3>3. CASE fd[k] # fd[h]
      BY <1>4, <3>1, <3>3 DEF Strays, TypeOK
    <3> QED BY <3>2, <3>3
  <2>4. h \notin Strays => v = h
    BY <1>4, <2>1, <2>2 DEF Strays
  <2> QED BY <1>1, <2>3, <2>4
<1> QED BY <1>2, <1>3, <1>4

(* What is left open is still known to who opened it. *)
LEMMA CloseKeepsRest ==
    ASSUME PoolInv, NEW h \in Holders, CloseNumber(fd[h]),
           \A k \in Holders \ {h} : fd'[k] = fd[k] /\ opened'[k] = opened[k]
    PROVE  NoLeak'
<1> USE PoolAssumption DEF PoolInv, CloseNumber
<1> SUFFICES ASSUME NEW d \in Fds, table'[d] \in Passing
             PROVE  \E k \in Holders : fd'[k] = d /\ opened'[k] = table'[d]
  BY DEF NoLeak
<1>1. d # fd[h] /\ table'[d] = table[d]
  BY DEF TypeOK
<1>2. PICK k \in Holders : fd[k] = d /\ opened[k] = table[d]
  BY <1>1 DEF NoLeak
<1> QED BY <1>1, <1>2

LEMMA HandshakeFailsInv ==
    ASSUME PoolInv, NEW t \in Threads, HandshakeFails(t)
    PROVE  /\ PoolInv'
           /\ fd[t] = None => Strays' = Strays
           /\ \E v \in Holders : Strays' \subseteq Strays \cup {v}
<1> USE PoolAssumption DEF PoolInv, HandshakeFails, Goto, queue, start, results
<1>1. t \in Holders
  BY DEF Holders
<1>2. PICK v \in Holders : Strays' \subseteq Strays \cup {v, t} /\ (t \notin Strays => v = t)
  BY <1>1, OneVictim
<1>3. Strays' \subseteq Strays \cup {v}
  BY <1>2
<1>4. /\ table' \in [Fds -> Opened]
      /\ MainsStay
      /\ \A k \in Holders \ {t} : fd'[k] # None => table'[fd'[k]] \in Passing \cup {None}
      /\ \A d \in Fds : fd[t] = d => table'[d] \in Passing \cup {None}
  BY <1>1, OneVictim
<1>5. TypeOK'
  BY <1>4 DEF TypeOK
<1>6. NoLeak'
  BY <1>1, CloseKeepsRest
<1>7. Ownership' /\ StartInv'
  <2>1. \A h \in Holders : fd'[h] # None => table'[fd'[h]] \in Passing \cup {None}
    BY <1>4 DEF TypeOK
  <2>2. Ownership'
    BY <2>1 DEF Ownership, TypeOK
  <2>3. StartInv'
    BY <1>4, BornServing, ServingStart DEF MainsStay
  <2> QED BY <2>2, <2>3
<1>8. fd[t] = None => Strays' = Strays
  BY DEF CloseNumber, Strays
<1> QED BY <1>3, <1>5, <1>6, <1>7, <1>8

(* Who forgets the number it has closed passes its stray on at most. *)
LEMMA ForgetInv ==
    ASSUME PoolInv, NEW h \in Holders, CloseNumber(fd[h]), Forget(h)
    PROVE  /\ fd' \in [Holders -> Fds \cup {None}] /\ opened' \in [Holders -> Passing \cup {None}]
           /\ table' \in [Fds -> Opened]
           /\ fd'[h] = None /\ opened'[h] = None
           /\ \A k \in Holders \ {h} : fd'[k] = fd[k] /\ opened'[k] = opened[k]
           /\ \A k \in Holders : fd'[k] # None => table'[fd'[k]] \in Passing \cup {None}
           /\ MainsStay /\ NoLeak'
           /\ \E v \in Holders : \/ Strays' \subseteq Strays
                                 \/ h \in Strays /\ Strays' \subseteq (Strays \ {h}) \cup {v}
<1> USE PoolAssumption DEF PoolInv
<1>1. /\ fd' \in [Holders -> Fds \cup {None}] /\ opened' \in [Holders -> Passing \cup {None}]
      /\ fd'[h] = None /\ opened'[h] = None
      /\ \A k \in Holders \ {h} : fd'[k] = fd[k] /\ opened'[k] = opened[k]
  BY DEF Forget, TypeOK, Opened
<1>2. PICK v \in Holders : Strays' \subseteq Strays \cup {v, h} /\ (h \notin Strays => v = h)
  BY <1>1, OneVictim
<1>3. h \notin Strays'
  BY <1>1 DEF Strays
<1>4. \/ Strays' \subseteq Strays
      \/ h \in Strays /\ Strays' \subseteq (Strays \ {h}) \cup {v}
  BY <1>2, <1>3
<1> QED BY <1>1, <1>4, OneVictim, CloseKeepsRest

LEMMA CloseInv ==
    ASSUME PoolInv, NEW t \in Threads, Close(t)
    PROVE  /\ PoolInv'
           /\ \E v \in Holders : \/ Strays' \subseteq Strays
                                 \/ t \in Strays /\ Strays' \subseteq (Strays \ {t}) \cup {v}
<1> USE PoolAssumption DEF PoolInv, Close, Goto, queue, start, results
<1>1. t \in Holders /\ SQLite # t
  BY DEF Holders
<1>2. /\ fd' \in [Holders -> Fds \cup {None}] /\ opened' \in [Holders -> Passing \cup {None}]
      /\ table' \in [Fds -> Opened]
      /\ fd'[t] = None /\ opened'[t] = None
      /\ \A k \in Holders \ {t} : fd'[k] = fd[k] /\ opened'[k] = opened[k]
      /\ \A k \in Holders : fd'[k] # None => table'[fd'[k]] \in Passing \cup {None}
      /\ MainsStay /\ NoLeak'
      /\ \E v \in Holders : \/ Strays' \subseteq Strays
                            \/ t \in Strays /\ Strays' \subseteq (Strays \ {t}) \cup {v}
  BY <1>1, ForgetInv
<1>3. TypeOK'
  BY <1>2 DEF TypeOK
<1>4. \A u \in Threads : pc'[u] = IF u = t THEN "lock" ELSE pc[u]
  BY DEF TypeOK
<1>5. Ownership'
  BY <1>1, <1>2, <1>4 DEF Ownership, Holders
<1>6. StartInv'
  BY <1>2, BornServing, ServingStart DEF MainsStay
<1> QED BY <1>2, <1>3, <1>5, <1>6

LEMMA CloseJournalInv ==
    ASSUME PoolInv, CloseJournal
    PROVE  /\ PoolInv'
           /\ \E v \in Holders :
                 \/ Strays' \subseteq Strays
                 \/ SQLite \in Strays /\ Strays' \subseteq (Strays \ {SQLite}) \cup {v}
<1> USE PoolAssumption DEF PoolInv, CloseJournal, queue, start, results
<1>1. SQLite \in Holders
  BY DEF Holders
<1>2. /\ fd' \in [Holders -> Fds \cup {None}] /\ opened' \in [Holders -> Passing \cup {None}]
      /\ table' \in [Fds -> Opened]
      /\ fd'[SQLite] = None /\ opened'[SQLite] = None
      /\ \A k \in Holders \ {SQLite} : fd'[k] = fd[k] /\ opened'[k] = opened[k]
      /\ \A k \in Holders : fd'[k] # None => table'[fd'[k]] \in Passing \cup {None}
      /\ MainsStay /\ NoLeak'
      /\ \E v \in Holders :
            \/ Strays' \subseteq Strays
            \/ SQLite \in Strays /\ Strays' \subseteq (Strays \ {SQLite}) \cup {v}
  BY <1>1, ForgetInv
<1>3. TypeOK'
  BY <1>2 DEF TypeOK
<1>4. Ownership'
  BY <1>1, <1>2 DEF Ownership, Holders
<1>5. StartInv'
  BY <1>1, <1>2, BornServing, ServingStart DEF MainsStay
<1> QED BY <1>2, <1>3, <1>4, <1>5

-----------------------------------------------------------------------------
LEMMA StraysFinite == IsFiniteSet(Strays) /\ IsFiniteSet(Strays')
<1>1. IsFiniteSet(Holders)
  BY PoolAssumption, FS_AddElement DEF Holders
<1>2. Strays \subseteq Holders /\ Strays' \subseteq Holders
  BY DEF Strays
<1> QED BY <1>1, <1>2, FS_Subset

(* One element more, or one for another. *)
LEMMA Counting ==
    ASSUME NEW S, NEW T, NEW v, IsFiniteSet(S), IsFiniteSet(T)
    PROVE  /\ Cardinality(S) \in Nat /\ Cardinality(T) \in Nat
           /\ T \subseteq S => Cardinality(T) <= Cardinality(S)
           /\ T \subseteq S \cup {v} => Cardinality(T) <= Cardinality(S) + 1
           /\ \A x \in S : T \subseteq (S \ {x}) \cup {v} => Cardinality(T) <= Cardinality(S)
<1>1. Cardinality(S) \in Nat /\ Cardinality(T) \in Nat
  BY FS_CardinalityType
<1>2. T \subseteq S => Cardinality(T) <= Cardinality(S)
  BY FS_Subset
<1>3. ASSUME NEW U, IsFiniteSet(U), T \subseteq U \cup {v}
      PROVE  Cardinality(T) <= Cardinality(U) + 1
  <2>0. Cardinality(U) \in Nat
    BY <1>3, FS_CardinalityType
  <2>1. /\ IsFiniteSet(U \cup {v})
        /\ Cardinality(U \cup {v}) <= Cardinality(U) + 1
    <3>1. /\ IsFiniteSet(U \cup {v})
          /\ Cardinality(U \cup {v}) = IF v \in U THEN Cardinality(U) ELSE Cardinality(U) + 1
      BY <1>3, FS_AddElement
    <3> QED BY <2>0, <3>1
  <2>2. Cardinality(T) <= Cardinality(U \cup {v})
    BY <1>3, <2>1, FS_Subset
  <2> QED BY <1>1, <1>3, <2>1, <2>2, FS_CardinalityType
<1>4. ASSUME NEW x \in S, T \subseteq (S \ {x}) \cup {v}
      PROVE  Cardinality(T) <= Cardinality(S)
  <2>1. IsFiniteSet(S \ {x}) /\ Cardinality(S \ {x}) = Cardinality(S) - 1
    BY FS_RemoveElement
  <2>2. Cardinality(T) <= Cardinality(S \ {x}) + 1
    BY <1>3, <1>4, <2>1
  <2> QED BY <1>1, <2>1, <2>2
<1> QED BY <1>1, <1>2, <1>3, <1>4

LEMMA StepStrayInv == ASSUME StrayInv, [Next]_vars PROVE StrayInv'
<1> USE DEF StrayInv, StraysBounded
<1>0. failures \in Nat
  BY DEF PoolInv, TypeOK
<1>1. CASE UNCHANGED vars
  BY <1>1 DEF vars, start, results, queue, PoolInv, TypeOK, Ownership, NoLeak, StartInv, Strays
<1>2. ASSUME NEW t \in Threads,
             Lock(t) \/ Unlock(t) \/ Handshake(t) \/ EndServe(t) \/ AcceptFails(t)
      PROVE  StrayInv'
  <2>1. UNCHANGED <<table, fd, opened, failures>>
    BY <1>2 DEF Lock, Unlock, Handshake, EndServe, AcceptFails
  <2> QED BY <1>2, <2>1, QuietStepInv DEF Strays
<1>3. ASSUME NEW c \in Conns, Connect(c) PROVE StrayInv'
  BY <1>3, ConnectInv DEF Connect, Strays
<1>4. ASSUME PoolInv', Strays' \subseteq Strays, failures' = failures PROVE StrayInv'
  <2>1. /\ Cardinality(Strays') <= Cardinality(Strays)
        /\ Cardinality(Strays') \in Nat /\ Cardinality(Strays) \in Nat
    BY <1>4, StraysFinite, FS_Subset, FS_CardinalityType
  <2> QED BY <1>0, <1>4, <2>1
<1>5. /\ \A t \in Threads, c \in Conns, d \in Fds : Accept(t, c, d) => StrayInv'
      /\ \A d \in Fds : OpenJournal(d) => StrayInv'
  BY <1>4, AcceptInv, OpenJournalInv DEF Accept, OpenJournal
<1>6. ASSUME NEW t \in Threads, HandshakeFails(t) PROVE StrayInv'
  <2>1. CASE fd[t] = None
    BY <1>0, <1>6, <2>1, HandshakeFailsInv DEF HandshakeFails
  <2>2. CASE fd[t] # None
    <3>1. PICK v \in Holders : Strays' \subseteq Strays \cup {v}
      BY <1>6, HandshakeFailsInv
    <3>2. /\ Cardinality(Strays') <= Cardinality(Strays) + 1
          /\ Cardinality(Strays') \in Nat /\ Cardinality(Strays) \in Nat
      BY <3>1, StraysFinite, Counting
    <3>3. PoolInv' /\ failures' = failures + 1
      BY <1>6, <2>2, HandshakeFailsInv DEF HandshakeFails
    <3> QED BY <1>0, <3>2, <3>3
  <2> QED BY <2>1, <2>2
<1>7. ASSUME NEW h \in Holders, NEW v \in Holders, PoolInv', failures' = failures,
             Strays' \subseteq Strays \/ (h \in Strays /\ Strays' \subseteq (Strays \ {h}) \cup {v})
      PROVE  StrayInv'
  <2>1. /\ Cardinality(Strays') <= Cardinality(Strays)
        /\ Cardinality(Strays') \in Nat /\ Cardinality(Strays) \in Nat
    BY <1>7, StraysFinite, Counting
  <2> QED BY <1>0, <1>7, <2>1
<1>8. ASSUME NEW t \in Threads, Close(t) PROVE StrayInv'
  <2>1. t \in Holders /\ failures' = failures
    BY <1>8 DEF Holders, Close
  <2> QED BY <1>7, <1>8, <2>1, CloseInv
<1>9. ASSUME MainStep PROVE StrayInv'
  <2>1. PoolInv' /\ failures' = failures /\ fd' = fd /\ opened' = opened
    BY <1>9, MainStepInv
  <2>2. Strays' \subseteq Strays
    BY <1>9, <2>1, MainStepInv DEF Strays
  <2> QED BY <1>4, <2>1, <2>2
<1>10. ASSUME CloseJournal PROVE StrayInv'
  <2>1. SQLite \in Holders /\ failures' = failures
    BY <1>10 DEF Holders, CloseJournal
  <2> QED BY <1>7, <1>10, <2>1, CloseJournalInv
<1> QED
  BY <1>1, <1>2, <1>3, <1>5, <1>6, <1>8, <1>9, <1>10 DEF Next, PoolStep, SessionStep

(* The invariant, for any number of threads, connections and descriptors. *)
THEOREM PoolInvariance == Spec => []StrayInv
<1>1. Init => StraysBounded
  <2> SUFFICES ASSUME Init PROVE StraysBounded
    OBVIOUS
  <2>1. Strays = {}
    BY PoolAssumption DEF Init, Strays
  <2> QED BY <2>1, FS_EmptySet DEF StraysBounded, Init
<1>2. StrayInv /\ [Next]_vars => StrayInv'
  BY StepStrayInv
<1> QED BY InitPoolInv, <1>1, <1>2, PTL DEF Spec, StrayInv

(* Descriptors, locks and locals keep their types; whoever is between lock *)
(* and unlock is the one who holds accept_lock.                            *)
THEOREM TypeCorrect == Spec => []TypeOK
<1>1. StrayInv => TypeOK
  BY DEF StrayInv, PoolInv
<1> QED BY <1>1, PoolInvariance, PTL

(* No descriptor leaks, whatever numbers are closed twice. *)
THEOREM NothingLeaks == Spec => []NoLeak
<1>1. StrayInv => NoLeak
  BY DEF StrayInv, PoolInv
<1> QED BY <1>1, PoolInvariance, PTL

(* Wrong closes multiply no damage: there are never more numbers that do   *)
(* not stand for what was opened under them than failed handshakes.        *)
THEOREM FewStrays == Spec => []StraysBounded
<1>1. StrayInv => StraysBounded
  BY DEF StrayInv
<1> QED BY <1>1, PoolInvariance, PTL

(* If open of /dev/null did not fail, the server's standard descriptors    *)
(* are never anything else, whatever is closed by number later.            *)
THEOREM OutputIsTheServers == Spec => []OutputGoesNowhere
<1>1. StrayInv => OutputGoesNowhere
  BY DEF StrayInv, PoolInv, StartInv, Serving, OutputGoesNowhere
<1> QED BY <1>1, PoolInvariance, PTL

(* Listener, database and standard descriptors can not be hit by what is   *)
(* closed twice: a number that was given out while they were open is never *)
(* theirs.                                                                 *)
THEOREM MainsAreKept == Spec => KeptOpen
<1> DEFINE A == \A d \in Fds : table[d] \in Kept => table'[d] = table[d]
<1>1. ASSUME StrayInv, [Next]_vars PROVE A
  <2> USE PoolAssumption, <1>1 DEF StrayInv, PoolInv
  <2>1. CASE UNCHANGED table
    BY <2>1
  <2>2. ASSUME NEW what \in Passing \cup Kept, NEW d \in Fds, Place(what, d) PROVE A
    BY <2>2 DEF Place, Lowest, TypeOK, Kept
  <2>3. ASSUME NEW h \in Holders, CloseNumber(fd[h]) PROVE A
    BY <2>3 DEF CloseNumber, Ownership, TypeOK
  <2>4. ASSUME Daemonise PROVE A
    BY <2>4 DEF Daemonise, StartInv, TypeOK
  <2>5. CASE MainStep
    BY <2>1, <2>2, <2>4, <2>5
       DEF MainStep, InitDb, OpenNull, ServListen, DaemonFails, OpenNullFails,
           ServListenFails, JoinAll, ThreadMake, Kept
  <2>6. ASSUME NEW t \in Threads, PoolStep(t) \/ SessionStep(t) PROVE A
    <3>1. t \in Holders
      BY DEF Holders
    <3> QED BY <2>1, <2>2, <2>3, <2>6, <3>1
            DEF PoolStep, SessionStep, Lock, Unlock, Close, Accept, Open, HandshakeFails,
                Handshake, EndServe, AcceptFails, Passing
  <2>7. ASSUME NEW d \in Fds, OpenJournal(d) PROVE A
    BY <2>2, <2>7 DEF OpenJournal, Open, Passing
  <2>8. CASE CloseJournal
    BY <2>3, <2>8 DEF CloseJournal, Holders
  <2>9. CASE \E c \in Conns : Connect(c)
    BY <2>1, <2>9 DEF Connect
  <2> QED BY <1>1, <2>1, <2>5, <2>6, <2>7, <2>8, <2>9 DEF Next, vars
<1> QED BY <1>1, PoolInvariance, PTL DEF Spec, KeptOpen
=============================================================================
