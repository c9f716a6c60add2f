------------------------------- MODULE ChatDb -------------------------------
(***************************************************************************)
(* The functions of server_side/db.c that change the database, called by   *)
(* concurrent threads, with crashes and restarts of the process.  An       *)
(* insertion takes three steps: load the counter, store it incremented,    *)
(* execute the INSERT; a removal executes two statements, between which    *)
(* sqlite3_exec keeps the mutex of the database handle but each statement  *)
(* has been committed.                                                     *)
(***************************************************************************)
EXTENDS DbTables

CONSTANTS Threads,
          NoName,     \* no argument
          Nobody,     \* the owner of the free database mutex
          MaxId       \* bound: no insertion starts once its counter is here

ASSUME MaxIdAssumption == MaxId \in Nat
ASSUME NobodyAssumption == Nobody \notin Threads
ASSUME NoNameAssumption == NoName \notin Nicks \cup Channels

VARIABLES pc,         \* where each thread is
          who,        \* the nick argument of its call
          chan,       \* the channel argument of its call
          id,         \* the counter value it loaded
          dbmutex,    \* who is between two statements of one sqlite3_exec
          raced       \* history: tables whose counter a thread has loaded before
                      \* another had stored it, since the process was started

call == <<who, chan, id>>
vars == <<tables, counters, pc, call, dbmutex, raced>>

Init ==
    /\ DbInit
    /\ pc = [t \in Threads |-> "idle"]
    /\ who = [t \in Threads |-> NoName]
    /\ chan = [t \in Threads |-> NoName]
    /\ id = [t \in Threads |-> 0]
    /\ dbmutex = Nobody
    /\ raced = {}

Goto(t, from, to) == pc[t] = from /\ pc' = [pc EXCEPT ![t] = to]

(* One statement in a sqlite3_exec of its own. *)
Exec == dbmutex = Nobody /\ UNCHANGED dbmutex

(* The locals of a finished call are forgotten. *)
Return(t) ==
    /\ who' = [who EXCEPT ![t] = NoName]
    /\ chan' = [chan EXCEPT ![t] = NoName]
    /\ id' = [id EXCEPT ![t] = 0]

NoteRace(table, store) ==
    raced' = IF \E s \in Threads : pc[s] = store THEN raced \cup {table} ELSE raced

-----------------------------------------------------------------------------
(* add_user and add_user_server *)

LoadUserId(t, n) ==
    /\ Goto(t, "idle", "u_store")
    /\ next_user_id < MaxId
    /\ id' = [id EXCEPT ![t] = next_user_id]
    /\ who' = [who EXCEPT ![t] = n]
    /\ NoteRace("users", "u_store")
    /\ UNCHANGED <<tables, counters, chan, dbmutex>>

StoreUserId(t) ==
    /\ Goto(t, "u_store", "u_insert")
    /\ next_user_id' = id[t] + 1
    /\ UNCHANGED <<tables, next_channel_id, next_join_id, call, dbmutex, raced>>

AddUser(t) ==
    /\ Goto(t, "u_insert", "idle")
    /\ Exec
    /\ IF UserFits(id[t], who[t]) THEN InsertUser(id[t], who[t]) ELSE UNCHANGED users
    /\ Return(t)
    /\ UNCHANGED <<channels, joined, counters, raced>>

(* add_channel *)

LoadChannelId(t, c) ==
    /\ Goto(t, "idle", "c_store")
    /\ next_channel_id < MaxId
    /\ id' = [id EXCEPT ![t] = next_channel_id]
    /\ chan' = [chan EXCEPT ![t] = c]
    /\ NoteRace("channels", "c_store")
    /\ UNCHANGED <<tables, counters, who, dbmutex>>

StoreChannelId(t) ==
    /\ Goto(t, "c_store", "c_insert")
    /\ next_channel_id' = id[t] + 1
    /\ UNCHANGED <<tables, next_user_id, next_join_id, call, dbmutex, raced>>

AddChannel(t) ==
    /\ Goto(t, "c_insert", "idle")
    /\ Exec
    /\ InsertChannel(id[t], chan[t])
    /\ Return(t)
    /\ UNCHANGED <<users, joined, counters, raced>>

(* join_channel *)

LoadJoinId(t, n, c) ==
    /\ Goto(t, "idle", "j_store")
    /\ next_join_id < MaxId
    /\ id' = [id EXCEPT ![t] = next_join_id]
    /\ who' = [who EXCEPT ![t] = n]
    /\ chan' = [chan EXCEPT ![t] = c]
    /\ NoteRace("joined", "j_store")
    /\ UNCHANGED <<tables, counters, dbmutex>>

StoreJoinId(t) ==
    /\ Goto(t, "j_store", "j_insert")
    /\ next_join_id' = id[t] + 1
    /\ UNCHANGED <<tables, next_user_id, next_channel_id, call, dbmutex, raced>>

JoinChannel(t) ==
    /\ Goto(t, "j_insert", "idle")
    /\ Exec
    /\ InsertJoined(id[t], who[t], chan[t])
    /\ Return(t)
    /\ UNCHANGED <<users, channels, counters, raced>>

-----------------------------------------------------------------------------
PartChannel(t, n, c) ==
    /\ pc[t] = "idle"
    /\ Exec
    /\ DeleteMembership(n, c)
    /\ UNCHANGED <<users, channels, counters, pc, call, raced>>

(* A slip: the user's row goes first. *)
RemoveUserBegin_Swapped(t, n) ==
    /\ Goto(t, "idle", "remove_user")
    /\ dbmutex = Nobody
    /\ dbmutex' = t
    /\ DeleteUsers(n)
    /\ who' = [who EXCEPT ![t] = n]
    /\ UNCHANGED <<joined, channels, counters, chan, id, raced>>

(* remove_user: the first statement ... *)
RemoveUserBegin(t, n) ==
    /\ Goto(t, "idle", "remove_user")
    /\ dbmutex = Nobody
    /\ dbmutex' = t
    /\ DeleteMemberships(n)
    /\ who' = [who EXCEPT ![t] = n]
    /\ UNCHANGED <<users, channels, counters, chan, id, raced>>

(* ... and the second. *)
RemoveUserEnd(t) ==
    /\ Goto(t, "remove_user", "idle")
    /\ dbmutex' = Nobody
    /\ DeleteUsers(who[t])
    /\ Return(t)
    /\ UNCHANGED <<joined, channels, counters, raced>>

RemoveChannelBegin(t, c) ==
    /\ Goto(t, "idle", "remove_channel")
    /\ dbmutex = Nobody
    /\ dbmutex' = t
    /\ DeleteMembers(c)
    /\ chan' = [chan EXCEPT ![t] = c]
    /\ UNCHANGED <<users, channels, counters, who, id, raced>>

RemoveChannelEnd(t) ==
    /\ Goto(t, "remove_channel", "idle")
    /\ dbmutex' = Nobody
    /\ DeleteChannels(chan[t])
    /\ Return(t)
    /\ UNCHANGED <<users, joined, counters, raced>>

ChangeNick(t, n, new) ==
    /\ pc[t] = "idle"
    /\ Exec
    /\ RenameUsers(n, new)
    /\ UNCHANGED <<channels, joined, counters, pc, call, raced>>

-----------------------------------------------------------------------------
(* The process dies wherever its threads are and is started again: the     *)
(* committed tables remain, init_db2 computes the counters from them.      *)
CrashRestart ==
    /\ LoadCounters
    /\ pc' = [t \in Threads |-> "idle"]
    /\ who' = [t \in Threads |-> NoName]
    /\ chan' = [t \in Threads |-> NoName]
    /\ id' = [t \in Threads |-> 0]
    /\ dbmutex' = Nobody
    /\ raced' = {}
    /\ UNCHANGED tables

Insertion(t) ==
    \/ StoreUserId(t) \/ AddUser(t)
    \/ StoreChannelId(t) \/ AddChannel(t)
    \/ StoreJoinId(t) \/ JoinChannel(t)
    \/ \E n \in Nicks : LoadUserId(t, n)
    \/ \E c \in Channels : LoadChannelId(t, c)
    \/ \E n \in Nicks, c \in Channels : LoadJoinId(t, n, c)

Removal(t) ==
    \/ RemoveUserEnd(t) \/ RemoveChannelEnd(t)
    \/ \E n \in Nicks : RemoveUserBegin(t, n)
    \/ \E c \in Channels : RemoveChannelBegin(t, c)
    \/ \E n \in Nicks, c \in Channels : PartChannel(t, n, c)

Next ==
    \/ \E t \in Threads : Insertion(t) \/ Removal(t)
    \/ \E t \in Threads, n, new \in Nicks : ChangeNick(t, n, new)
    \/ CrashRestart

Spec == Init /\ [][Next]_vars

-----------------------------------------------------------------------------
(* Type invariant. *)
TypeOK ==
    /\ DbTypeOK
    /\ pc \in [Threads -> {"idle", "u_store", "u_insert", "c_store", "c_insert",
                           "j_store", "j_insert", "remove_user", "remove_channel"}]
    /\ who \in [Threads -> Nicks \cup {NoName}]
    /\ chan \in [Threads -> Channels \cup {NoName}]
    /\ id \in [Threads -> Nat]
    /\ dbmutex \in Threads \cup {Nobody}
    /\ raced \subseteq {"users", "channels", "joined"}
    /\ \A t \in Threads :
          /\ pc[t] \in {"u_store", "u_insert"} => who[t] # NoName
          /\ pc[t] \in {"c_store", "c_insert"} => chan[t] # NoName

(* The two removals are the only calls of two statements.  Between them    *)
(* the memberships of what is removed are already gone, and the mutex      *)
(* keeps every other thread from joining it again.                         *)
RemovalIsCovered ==
    \A t \in Threads :
        /\ pc[t] = "remove_user" =>
              dbmutex = t /\ \A u \in UsersLike(who[t]), j \in joined : j.userid # u.id
        /\ pc[t] = "remove_channel" =>
              dbmutex = t /\ \A ch \in ChannelsLike(chan[t]), j \in joined : j.channelid # ch.id

(* Whoever gets a user id finds no membership under it: not the channels   *)
(* of an earlier user with that id, although ids are used again after a    *)
(* restart and after lost updates of the counter.                          *)
NewUserHasNoChannels ==
    [][\A u \in users' : (\A v \in users : v.id # u.id) =>
          \A j \in joined \cup joined' : j.userid # u.id]_vars

(* The key a thread holds, from the load of the counter to its INSERT, is  *)
(* in no row and in no other thread's hand, so that no INSERT is refused   *)
(* for its key, unless two threads have raced for that counter since the   *)
(* process was started: removals, new nicks, refused insertions and        *)
(* insertions that race for another table do no harm, nor does an earlier  *)
(* race after a crash and restart, wherever the threads were.              *)
FreeKeys(keys, hand) ==
    \A t \in Threads : pc[t] \in hand =>
        /\ id[t] \notin keys
        /\ \A s \in Threads : pc[s] \in hand /\ id[s] = id[t] => s = t

KeysInHandAreFree ==
    /\ "users" \in raced \/ FreeKeys({u.id : u \in users}, {"u_store", "u_insert"})
    /\ "channels" \in raced \/ FreeKeys({ch.id : ch \in channels}, {"c_store", "c_insert"})
    /\ "joined" \in raced \/ FreeKeys({j.joinid : j \in joined}, {"j_store", "j_insert"})
=============================================================================
