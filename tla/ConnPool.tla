------------------------------ MODULE ConnPool ------------------------------
(***************************************************************************)
(* The server process as servermain.c builds it, and its descriptors: main *)
(* opens the database, becomes a daemon, listens and makes the pool; each  *)
(* thread accepts under accept_lock, serves, and closes by number; a       *)
(* number is the lowest free one and is given out again.  A connection     *)
(* whose handshake fails is closed by process_connection and by            *)
(* conn_thread once more.  SQLite, which opens and closes its journal in   *)
(* the same process, takes part.  What happens in a session is in          *)
(* ChatServer.                                                             *)
(***************************************************************************)
EXTENDS Naturals, FiniteSets

CONSTANTS
    Threads,       \* connection threads (THREAD_COUNT of them)
    Conns,         \* connections clients make
    SQLite,        \* the library, as one that opens and closes descriptors
    Journal,       \* its journal, open during a statement that writes
    Fds,           \* descriptors
    None,          \* no descriptor (-1), no thread, nothing open
    Terminal,      \* what the standard descriptors are when the program starts
    Null, Database, Listener   \* what main opens: /dev/null, chachat.db, the socket

Std == 0 .. 2
Holders == Threads \cup {SQLite}
Kept == {Null, Database, Listener}
Passing == Conns \cup {Journal}

ASSUME PoolAssumption ==
    /\ IsFiniteSet(Threads) /\ SQLite \notin Threads
    /\ Journal \notin Conns /\ Std \subseteq Fds /\ Fds \subseteq Nat
    /\ None \notin Fds \cup Holders \cup Passing \cup Kept \cup {Terminal}
    /\ Passing \cap Kept = {} /\ Terminal \notin Passing \cup Kept

VARIABLES
    main,          \* where main is; "exit" when the process has ended
    nullfd,        \* what open of /dev/null returned (k)
    listenfd,      \* what serv_listen returned
    table,         \* the process's descriptors: what is open under each number
    waiting,       \* connections in the listener's queue
    arrived,       \* connections that have been made
    accept_lock,   \* who holds it
    pc,            \* where each thread is
    fd,            \* connfd of each thread; the journal's number
    opened,        \* history: what each has opened under its number
    failures       \* history: handshakes that failed

results == <<nullfd, listenfd>>
start == <<main, results>>
queue == <<waiting, arrived>>
vars == <<start, table, queue, accept_lock, pc, fd, opened, failures>>

Init ==
    /\ main = "init" /\ nullfd = None /\ listenfd = None
    /\ table = [d \in Fds |-> IF d \in Std THEN Terminal ELSE None]
    /\ waiting = {} /\ arrived = {}
    /\ accept_lock = None
    /\ pc = [t \in Threads |-> "unborn"]
    /\ fd = [h \in Holders |-> None]
    /\ opened = [h \in Holders |-> None]
    /\ failures = 0

Goto(t, from, to) == pc[t] = from /\ pc' = [pc EXCEPT ![t] = to]

(* accept, open, dup and socket return the lowest number that is free. *)
Lowest(d) == table[d] = None /\ \A e \in Fds : e < d => table[e] # None

Place(what, d) == Lowest(d) /\ table' = [table EXCEPT ![d] = what]

Open(h, what, d) ==
    /\ Place(what, d)
    /\ fd' = [fd EXCEPT ![h] = d]
    /\ opened' = [opened EXCEPT ![h] = what]

(* close of a number, whatever is open under it now. *)
CloseNumber(d) == table' = IF d = None THEN table ELSE [table EXCEPT ![d] = None]

Forget(h) ==
    /\ fd' = [fd EXCEPT ![h] = None]
    /\ opened' = [opened EXCEPT ![h] = None]

-----------------------------------------------------------------------------
(* main *)

pool == <<queue, accept_lock, fd, opened, failures>>

(* init_db, before the fork *)
InitDb(d) ==
    /\ main = "init" /\ main' = "daemon"
    /\ Place(Database, d)
    /\ UNCHANGED <<results, pc, pool>>

(* A slip: closes all descriptors, as daemons do. *)
Daemonise_All ==
    /\ main = "daemon" /\ main' = "null"
    /\ table' = [d \in Fds |-> None]
    /\ UNCHANGED <<results, pc, pool>>
(* The child goes on with the parent's descriptors, and closes three. *)
Daemonise ==
    /\ main = "daemon" /\ main' = "null"
    /\ table' = [d \in Fds |-> IF d \in Std THEN None ELSE table[d]]
    /\ UNCHANGED <<results, pc, pool>>

(* fork, setsid or chdir fails. *)
DaemonFails ==
    /\ main = "daemon" /\ main' = "exit"
    /\ UNCHANGED <<results, table, pc, pool>>

(* open of /dev/null and two dups.  Nobody looks where they ended up, or   *)
(* whether open failed; the dups of -1 fail as well then.  A dup of what   *)
(* is open does not fail: numbers below the database's are free.           *)
AfterNull_OneDup == [null |-> "dup1", dup1 |-> "listen", dup2 |-> "listen"]
AfterNull == [null |-> "dup1", dup1 |-> "dup2", dup2 |-> "listen"]

OpenNull(d) ==
    /\ main \in DOMAIN AfterNull /\ main' = AfterNull[main]
    /\ Place(Null, d)
    /\ nullfd' = IF main = "null" THEN d ELSE nullfd
    /\ UNCHANGED <<listenfd, pc, pool>>

OpenNullFails ==
    /\ main = "null" /\ main' = "listen"
    /\ UNCHANGED <<results, table, pc, pool>>

ServListen(d) ==
    /\ main = "listen" /\ main' = "make"
    /\ Place(Listener, d)
    /\ listenfd' \in {d, None}    \* listen may fail, and the socket stays
    /\ UNCHANGED <<nullfd, pc, pool>>

(* No address to bind: -1, which main does not look at. *)
ServListenFails ==
    /\ main = "listen" /\ main' = "make"
    /\ UNCHANGED <<results, table, pc, pool>>

(* thread_make: a failure is printed, and there is a thread less. *)
ThreadMake(t) ==
    /\ main = "make"
    /\ \E to \in {"lock", "failed"} : Goto(t, "unborn", to)
    /\ UNCHANGED <<start, table, pool>>

(* main joins the threads, which do not return. *)
JoinAll ==
    /\ main = "make" /\ \A t \in Threads : pc[t] # "unborn"
    /\ main' = IF \A t \in Threads : pc[t] = "failed" THEN "exit" ELSE "join"
    /\ UNCHANGED <<results, table, pc, pool>>

(* A client connects. *)
Connect(c) ==
    /\ listenfd # None /\ main # "exit"
    /\ c \notin arrived
    /\ arrived' = arrived \cup {c} /\ waiting' = waiting \cup {c}
    /\ UNCHANGED <<start, table, accept_lock, pc, fd, opened, failures>>

(* conn_thread *)

Lock(t) ==
    /\ Goto(t, "lock", "accept")
    /\ accept_lock = None
    /\ accept_lock' = t
    /\ UNCHANGED <<start, table, queue, fd, opened, failures>>

Accept(t, c, d) ==
    /\ Goto(t, "accept", "unlock")
    /\ c \in waiting /\ listenfd # None
    /\ waiting' = waiting \ {c}
    /\ Open(t, c, d)
    /\ UNCHANGED <<start, arrived, accept_lock, failures>>

(* A slip: the next turn of the loop begins before the unlock. *)
AcceptFails_Continue(t) ==
    /\ Goto(t, "accept", "lock")
    /\ \/ \E c \in waiting : waiting' = waiting \ {c}
       \/ listenfd = None /\ UNCHANGED waiting
    /\ UNCHANGED <<start, table, arrived, accept_lock, fd, opened, failures>>
(* The connection was aborted meanwhile, or there is no listener: accept   *)
(* returns -1, which is reported and then served and closed like a         *)
(* descriptor.                                                             *)
AcceptFails(t) ==
    /\ Goto(t, "accept", "unlock")
    /\ \/ \E c \in waiting : waiting' = waiting \ {c}
       \/ listenfd = None /\ UNCHANGED waiting
    /\ UNCHANGED <<start, table, arrived, accept_lock, fd, opened, failures>>

Unlock(t) ==
    /\ Goto(t, "unlock", "handshake")
    /\ accept_lock' = None
    /\ UNCHANGED <<start, table, queue, fd, opened, failures>>

(* process_connection *)

Handshake(t) ==
    /\ Goto(t, "handshake", "serve")
    /\ fd[t] # None
    /\ UNCHANGED <<start, table, queue, accept_lock, fd, opened, failures>>

(* A slip: the number is kept, and the connection left open. *)
HandshakeFails_NotClosed(t) ==
    /\ Goto(t, "handshake", "lock")
    /\ failures' = failures + 1
    /\ Forget(t)
    /\ UNCHANGED <<start, table, queue, accept_lock>>
(* client_nick returns -1: the first of two calls of close. *)
HandshakeFails(t) ==
    /\ Goto(t, "handshake", "close")
    /\ CloseNumber(fd[t])
    /\ failures' = failures + (IF fd[t] = None THEN 0 ELSE 1)
    /\ UNCHANGED <<start, queue, accept_lock, fd, opened>>

(* The session ends: by /quit, or by the client's leaving. *)
EndServe_Closes(t) ==
    /\ Goto(t, "serve", "close")
    /\ CloseNumber(fd[t])
    /\ UNCHANGED <<start, queue, accept_lock, fd, opened, failures>>
EndServe(t) ==
    /\ Goto(t, "serve", "close")
    /\ UNCHANGED <<start, table, queue, accept_lock, fd, opened, failures>>

Close(t) ==
    /\ Goto(t, "close", "lock")
    /\ CloseNumber(fd[t])
    /\ Forget(t)
    /\ UNCHANGED <<start, queue, accept_lock, failures>>

(* A statement that writes opens the journal and closes it at its end.     *)
Busy(t) == pc[t] \in {"handshake", "serve"}

OpenJournal(d) ==
    /\ \E t \in Threads : Busy(t)
    /\ fd[SQLite] = None
    /\ Open(SQLite, Journal, d)
    /\ UNCHANGED <<start, queue, accept_lock, pc, failures>>

CloseJournal ==
    /\ fd[SQLite] # None
    /\ CloseNumber(fd[SQLite])
    /\ Forget(SQLite)
    /\ UNCHANGED <<start, queue, accept_lock, pc, failures>>

-----------------------------------------------------------------------------
MainStep ==
    \/ \E d \in Fds : InitDb(d) \/ OpenNull(d) \/ ServListen(d)
    \/ Daemonise \/ DaemonFails \/ OpenNullFails \/ ServListenFails \/ JoinAll
    \/ \E t \in Threads : ThreadMake(t)

(* What a thread does without waiting for its client. *)
PoolStep(t) ==
    \/ Lock(t) \/ Unlock(t) \/ Close(t)
    \/ \E c \in Conns, d \in Fds : Accept(t, c, d)
    \/ (fd[t] = None /\ HandshakeFails(t))

SessionStep(t) == Handshake(t) \/ HandshakeFails(t) \/ EndServe(t) \/ AcceptFails(t)

Next ==
    \/ MainStep
    \/ \E t \in Threads : PoolStep(t) \/ SessionStep(t)
    \/ \E c \in Conns : Connect(c)
    \/ \E d \in Fds : OpenJournal(d)
    \/ CloseJournal

Spec == Init /\ [][Next]_vars

(* Threads are scheduled, and statements end; clients need not do anything. *)
FairSpec ==
    /\ Spec
    /\ WF_vars(MainStep) /\ WF_vars(CloseJournal)
    /\ \A t \in Threads : WF_vars(PoolStep(t))

-----------------------------------------------------------------------------
Opened == Passing \cup Kept \cup {Terminal, None}

TypeOK ==
    /\ main \in {"init", "daemon", "null", "dup1", "dup2", "listen", "make", "join", "exit"}
    /\ {nullfd, listenfd} \subseteq Fds \cup {None}
    /\ table \in [Fds -> Opened]
    /\ arrived \subseteq Conns /\ waiting \subseteq arrived
    /\ accept_lock \in Threads \cup {None}
    /\ pc \in [Threads -> {"unborn", "failed", "lock", "accept", "unlock", "handshake", "serve", "close"}]
    /\ fd \in [Holders -> Fds \cup {None}]
    /\ opened \in [Holders -> Passing \cup {None}]
    /\ failures \in Nat
    /\ \A t \in Threads : pc[t] \in {"accept", "unlock"} <=> accept_lock = t

(* Whatever closes what, no descriptor leaks: who opened it still has its  *)
(* number and will close it.  So the process never has more descriptors    *)
(* open than threads and journal.                                          *)
NoLeak ==
    \A d \in Fds : table[d] \in Passing => \E h \in Holders : fd[h] = d /\ opened[h] = table[d]

(* Whose number does not stand for what was opened under it: nothing is    *)
(* open there, or somebody else's connection or journal.                   *)
Strays == {h \in Holders : fd[h] # None /\ table[fd[h]] # opened[h]}

(* There are never more such numbers than handshakes that have failed,     *)
(* although each wrong close may make a victim that will close wrongly in  *)
(* turn: without a failed handshake every thread serves its own client and *)
(* SQLite writes its own journal.                                          *)
StraysBounded == Cardinality(Strays) <= failures

(* What main has opened stays open under its number as long as the process *)
(* lives, although threads close numbers that are not theirs (any more):   *)
(* the listener, the database and the daemon's standard descriptors can    *)
(* not be hit.                                                             *)
KeptOpen == [][\A d \in Fds : table[d] \in Kept => table'[d] = table[d]]_vars

(* What the server prints, on descriptors 1 and 2, goes to /dev/null and   *)
(* to nobody else, and nobody speaks to descriptor 0, though main closes   *)
(* these three, accept takes the lowest number and numbers are closed      *)
(* twice: provided that open did not fail, which main does not look at.    *)
(* If it did, the listener gets 0 and the first clients 1 and 2.           *)
OutputGoesNowhere ==
    nullfd # None /\ main \in {"listen", "make", "join", "exit"} =>
        \A d \in Std : table[d] = Null

(* A connection in the queue is accepted unless all threads are busy with  *)
(* clients: no thread waits for accept_lock in vain.                       *)
WaitingIsAccepted ==
    \A c \in Conns :
        c \in waiting ~> (c \notin waiting \/ \A t \in Threads : Busy(t) \/ pc[t] = "failed")
=============================================================================
