---------------------------- MODULE ChatDbProofs ----------------------------
(***************************************************************************)
(* Proofs about ChatDb, for every set of threads, nicks and channels and   *)
(* whatever LIKE matches.  DbInv is inductive: that memberships refer to   *)
(* users and channels that exist is kept by the two-statement removals     *)
(* only because of RemovalIsCovered.                                       *)
(***************************************************************************)
EXTENDS ChatDb, TLAPS

DbInv == TypeOK /\ KeysUnique /\ RefIntegrity /\ RemovalIsCovered

(* The steps that only move a counter to or from a thread's hand. *)
CounterStep(t) ==
    \/ StoreUserId(t) \/ StoreChannelId(t) \/ StoreJoinId(t)
    \/ \E n \in Nicks : LoadUserId(t, n)
    \/ \E c \in Channels : LoadChannelId(t, c)
    \/ \E n \in Nicks, c \in Channels : LoadJoinId(t, n, c)

PcStates == {"idle", "u_store", "u_insert", "c_store", "c_insert",
             "j_store", "j_insert", "remove_user", "remove_channel"}

-----------------------------------------------------------------------------
LEMMA InitDbInv == Init => DbInv
BY NobodyAssumption, NoNameAssumption
   DEF Init, DbInit, DbInv, TypeOK, DbTypeOK, KeysUnique, RefIntegrity, RemovalIsCovered

-----------------------------------------------------------------------------
LEMMA CounterStepInv == ASSUME DbInv, NEW t \in Threads, CounterStep(t) PROVE DbInv'
<1> USE NobodyAssumption DEF DbInv, Goto, tables, counters, call
<1>1. UNCHANGED <<users, channels, joined, dbmutex>>
  BY DEF CounterStep, StoreUserId, StoreChannelId, StoreJoinId, LoadUserId, LoadChannelId,
         LoadJoinId
<1>2. TypeOK'
  <2> USE NoNameAssumption DEF TypeOK, DbTypeOK, NoteRace
  <2>1. CASE StoreUserId(t) \/ StoreChannelId(t) \/ StoreJoinId(t)
    <3>1. CASE StoreUserId(t)
      BY <3>1 DEF StoreUserId
    <3>2. CASE StoreChannelId(t)
      BY <3>2 DEF StoreChannelId
    <3>3. CASE StoreJoinId(t)
      BY <3>3 DEF StoreJoinId
    <3> QED BY <2>1, <3>1, <3>2, <3>3
  <2>2. ASSUME NEW n \in Nicks, LoadUserId(t, n) PROVE TypeOK'
    BY <2>2 DEF LoadUserId
  <2>3. ASSUME NEW c \in Channels, LoadChannelId(t, c) PROVE TypeOK'
    BY <2>3 DEF LoadChannelId
  <2>4. ASSUME NEW n \in Nicks, NEW c \in Channels, LoadJoinId(t, n, c) PROVE TypeOK'
    BY <2>4 DEF LoadJoinId
  <2> QED BY <2>1, <2>2, <2>3, <2>4 DEF CounterStep
<1>3. KeysUnique' /\ RefIntegrity'
  BY <1>1 DEF KeysUnique, RefIntegrity
<1>4. \A u \in Threads : pc'[u] \in {"remove_user", "remove_channel"} =>
          pc'[u] = pc[u] /\ who'[u] = who[u] /\ chan'[u] = chan[u]
  BY DEF TypeOK, CounterStep, StoreUserId, StoreChannelId, StoreJoinId, LoadUserId,
         LoadChannelId, LoadJoinId
<1>5. RemovalIsCovered'
  BY <1>1, <1>4 DEF RemovalIsCovered, UsersLike, ChannelsLike
<1> QED BY <1>2, <1>3, <1>5

(* While the mutex is free nobody is between two statements. *)
LEMMA NobodyRemoves ==
    ASSUME DbInv, dbmutex = Nobody
    PROVE  \A t \in Threads : pc[t] \notin {"remove_user", "remove_channel"}
BY NobodyAssumption DEF DbInv, RemovalIsCovered

LEMMA AddUserInv == ASSUME DbInv, NEW t \in Threads, AddUser(t) PROVE DbInv'
<1> USE NobodyAssumption DEF DbInv, Goto, tables, counters, call, AddUser, Exec, Return
<1>1. TypeOK'
  BY DEF TypeOK, DbTypeOK, InsertUser
<1>2. KeysUnique'
  BY DEF TypeOK, DbTypeOK, KeysUnique, InsertUser, UserFits
<1>3. RefIntegrity'
  BY DEF RefIntegrity, InsertUser
<1>4. RemovalIsCovered'
  BY NobodyRemoves DEF TypeOK, RemovalIsCovered
<1> QED BY <1>1, <1>2, <1>3, <1>4

LEMMA AddChannelInv ==
    ASSUME DbInv, NEW t \in Threads, AddChannel(t) PROVE DbInv'
<1> USE NobodyAssumption DEF DbInv, Goto, tables, counters, call, AddChannel, Exec, Return
<1>1. TypeOK'
  BY DEF TypeOK, DbTypeOK, InsertChannel
<1>2. KeysUnique'
  BY DEF TypeOK, DbTypeOK, KeysUnique, InsertChannel, ChannelFits
<1>3. RefIntegrity'
  BY DEF RefIntegrity, InsertChannel
<1>4. RemovalIsCovered'
  BY NobodyRemoves DEF TypeOK, RemovalIsCovered
<1> QED BY <1>1, <1>2, <1>3, <1>4

LEMMA JoinChannelInv == ASSUME DbInv, NEW t \in Threads, JoinChannel(t) PROVE DbInv'
<1> USE NobodyAssumption DEF DbInv, Goto, tables, counters, call, JoinChannel, Exec, Return
<1> DEFINE rows == JoinRows(id[t], who[t], chan[t])
<1>1. \A r \in rows : /\ r \in [joinid : Nat, userid : Nat, channelid : Nat]
                      /\ \E u \in users : u.id = r.userid
                      /\ \E ch \in channels : ch.id = r.channelid
  BY DEF TypeOK, DbTypeOK, JoinRows, UsersLike, ChannelsLike
<1>2. joined' = joined \/ (JoinFits(rows) /\ joined' = joined \cup rows)
  BY DEF InsertJoined
<1> HIDE DEF rows
<1>3. TypeOK'
  BY <1>1, <1>2 DEF TypeOK, DbTypeOK
<1>4. KeysUnique'
  BY <1>2 DEF KeysUnique, JoinFits
<1>5. RefIntegrity'
  BY <1>1, <1>2 DEF RefIntegrity
<1>6. RemovalIsCovered'
  BY NobodyRemoves DEF TypeOK, RemovalIsCovered
<1> QED BY <1>3, <1>4, <1>5, <1>6

LEMMA PartChannelInv ==
    ASSUME DbInv, NEW t \in Threads, NEW n \in Nicks, NEW c \in Channels, PartChannel(t, n, c)
    PROVE  DbInv'
BY NobodyRemoves
   DEF DbInv, PartChannel, Exec, DeleteMembership, tables, counters, call, TypeOK, DbTypeOK,
       KeysUnique, RefIntegrity, RemovalIsCovered

LEMMA RemoveUserBeginInv ==
    ASSUME DbInv, NEW t \in Threads, NEW n \in Nicks, RemoveUserBegin(t, n) PROVE DbInv'
<1> USE NobodyAssumption DEF DbInv, Goto, tables, counters, call, RemoveUserBegin, DeleteMemberships
<1>1. TypeOK'
  BY DEF TypeOK, DbTypeOK
<1>2. KeysUnique' /\ RefIntegrity'
  BY DEF KeysUnique, RefIntegrity
<1>3. RemovalIsCovered'
  BY NobodyRemoves DEF TypeOK, RemovalIsCovered, UsersLike
<1> QED BY <1>1, <1>2, <1>3

LEMMA RemoveUserEndInv == ASSUME DbInv, NEW t \in Threads, RemoveUserEnd(t) PROVE DbInv'
<1> USE NobodyAssumption DEF DbInv, Goto, tables, counters, call, RemoveUserEnd, DeleteUsers, Return
<1>1. TypeOK'
  BY DEF TypeOK, DbTypeOK
<1>2. KeysUnique'
  BY DEF KeysUnique
<1>3. RefIntegrity'
  BY DEF RefIntegrity, RemovalIsCovered
<1>4. \A u \in Threads : u # t => pc'[u] \notin {"remove_user", "remove_channel"}
  BY DEF TypeOK, RemovalIsCovered
<1>5. RemovalIsCovered'
  BY <1>4 DEF TypeOK, RemovalIsCovered
<1> QED BY <1>1, <1>2, <1>3, <1>5

LEMMA RemoveChannelBeginInv ==
    ASSUME DbInv, NEW t \in Threads, NEW c \in Channels, RemoveChannelBegin(t, c) PROVE DbInv'
<1> USE NobodyAssumption DEF DbInv, Goto, tables, counters, call, RemoveChannelBegin, DeleteMembers
<1>1. TypeOK'
  BY DEF TypeOK, DbTypeOK
<1>2. KeysUnique' /\ RefIntegrity'
  BY DEF KeysUnique, RefIntegrity
<1>3. RemovalIsCovered'
  BY NobodyRemoves DEF TypeOK, RemovalIsCovered, ChannelsLike
<1> QED BY <1>1, <1>2, <1>3

LEMMA RemoveChannelEndInv == ASSUME DbInv, NEW t \in Threads, RemoveChannelEnd(t) PROVE DbInv'
<1> USE NobodyAssumption
    DEF DbInv, Goto, tables, counters, call, RemoveChannelEnd, DeleteChannels, Return
<1>1. TypeOK'
  BY DEF TypeOK, DbTypeOK
<1>2. KeysUnique'
  BY DEF KeysUnique
<1>3. RefIntegrity'
  BY DEF RefIntegrity, RemovalIsCovered
<1>4. \A u \in Threads : u # t => pc'[u] \notin {"remove_user", "remove_channel"}
  BY DEF TypeOK, RemovalIsCovered
<1>5. RemovalIsCovered'
  BY <1>4 DEF TypeOK, RemovalIsCovered
<1> QED BY <1>1, <1>2, <1>3, <1>5

LEMMA ChangeNickInv ==
    ASSUME DbInv, NEW t \in Threads, NEW n \in Nicks, NEW new \in Nicks, ChangeNick(t, n, new)
    PROVE  DbInv'
<1> USE DEF DbInv, tables, counters, call, ChangeNick, Exec
<1>1. CASE users' = users
  BY <1>1, NobodyRemoves DEF TypeOK, DbTypeOK, KeysUnique, RefIntegrity, RemovalIsCovered
<1>2. CASE users' # users
  <2> DEFINE old == UsersLike(n)
  <2>1. /\ \A u, v \in old : u = v
        /\ \A u \in users \ old : u.nick # new
        /\ users' = (users \ old) \cup {[u EXCEPT !.nick = new] : u \in old}
    BY <1>2 DEF RenameUsers
  <2>2. PICK u \in old : TRUE
    BY <1>2, <2>1
  <2>3. u \in users /\ u \in [id : Nat, nick : Nicks] /\ old = {u}
    BY <2>1, <2>2 DEF UsersLike, TypeOK, DbTypeOK
  <2>4. users' = (users \ {u}) \cup {[id |-> u.id, nick |-> new]}
    BY <2>1, <2>3
  <2>5. TypeOK'
    BY <2>3, <2>4 DEF TypeOK, DbTypeOK
  <2>6. KeysUnique'
    BY <2>1, <2>3, <2>4 DEF KeysUnique
  <2>7. RefIntegrity'
    <3> SUFFICES ASSUME NEW j \in joined PROVE \E v \in users' : v.id = j.userid
      BY DEF RefIntegrity
    <3>1. PICK v \in users : v.id = j.userid
      BY DEF RefIntegrity
    <3>2. CASE v = u
      <4> DEFINE w == [id |-> u.id, nick |-> new]
      <4>1. w \in users' /\ w.id = j.userid
        BY <2>4, <3>1, <3>2
      <4> QED BY <4>1
    <3>3. CASE v # u
      BY <2>4, <3>1, <3>3
    <3> QED BY <3>2, <3>3
  <2>8. RemovalIsCovered'
    BY NobodyRemoves DEF RemovalIsCovered
  <2> QED BY <2>5, <2>6, <2>7, <2>8
<1> QED BY <1>1, <1>2

LEMMA CrashRestartInv == ASSUME DbInv, CrashRestart PROVE DbInv'
<1> USE NobodyAssumption DEF DbInv, tables, counters, call, CrashRestart
<1>1. PastKeys({u.id : u \in users}) \subseteq Nat
  BY DEF PastKeys, TypeOK, DbTypeOK
<1>2. PastKeys({ch.id : ch \in channels}) \subseteq Nat
  BY DEF PastKeys, TypeOK, DbTypeOK
<1>3. PastKeys({j.joinid : j \in joined}) \subseteq Nat
  BY DEF PastKeys, TypeOK, DbTypeOK
<1>4. TypeOK'
  BY <1>1, <1>2, <1>3 DEF TypeOK, DbTypeOK, LoadCounters
<1>5. KeysUnique' /\ RefIntegrity' /\ RemovalIsCovered'
  BY DEF KeysUnique, RefIntegrity, RemovalIsCovered
<1> QED BY <1>4, <1>5

-----------------------------------------------------------------------------
LEMMA StepDbInv == DbInv /\ [Next]_vars => DbInv'
<1> SUFFICES ASSUME DbInv, [Next]_vars PROVE DbInv'
  OBVIOUS
<1>1. CASE UNCHANGED vars
  BY <1>1 DEF vars, tables, counters, call, DbInv, TypeOK, DbTypeOK, KeysUnique, RefIntegrity,
              RemovalIsCovered, UsersLike, ChannelsLike
<1>2. ASSUME NEW t \in Threads, Insertion(t) PROVE DbInv'
  BY <1>2, CounterStepInv, AddUserInv, AddChannelInv, JoinChannelInv DEF Insertion, CounterStep
<1>3. ASSUME NEW t \in Threads, Removal(t) PROVE DbInv'
  BY <1>3, RemoveUserBeginInv, RemoveUserEndInv, RemoveChannelBeginInv, RemoveChannelEndInv,
     PartChannelInv DEF Removal
<1> QED BY <1>1, <1>2, <1>3, ChangeNickInv, CrashRestartInv DEF Next

(* DbInv holds of every reachable state, crashes included. *)
THEOREM DbInvariance == Spec => []DbInv
BY InitDbInv, StepDbInv, PTL DEF Spec

(* Every variable keeps its type. *)
THEOREM TypeCorrect == Spec => []TypeOK
<1>1. DbInv => TypeOK
  BY DEF DbInv
<1> QED BY <1>1, DbInvariance, PTL

(* The keys of the three tables are keys. *)
THEOREM KeysAreKeys == Spec => []KeysUnique
<1>1. DbInv => KeysUnique
  BY DEF DbInv
<1> QED BY <1>1, DbInvariance, PTL

(* No membership of a user or channel that is gone, at any moment and      *)
(* wherever the process crashes: that the removals delete from joined      *)
(* first is what makes it so, as the tables declare no foreign keys.       *)
THEOREM ReferencesHold == Spec => [](RefIntegrity /\ RemovalIsCovered)
<1>1. DbInv => RefIntegrity /\ RemovalIsCovered
  BY DEF DbInv
<1> QED BY <1>1, DbInvariance, PTL

(* While a removal is between its two statements, its caller holds dbmutex *)
(* and nothing it is about to remove has a membership: join_channel and    *)
(* the other removals cannot come in between.                              *)
THEOREM RemovalsAreCovered == Spec => []RemovalIsCovered
<1>1. DbInv => RemovalIsCovered
  BY DEF DbInv
<1> QED BY <1>1, DbInvariance, PTL

(* The users listed of a channel and the channels listed of a user are     *)
(* sound and complete: each membership has its line in both, and neither   *)
(* has a line twice.                                                       *)
LEMMA KeysGiveLists == ASSUME DbTypeOK, KeysUnique, RefIntegrity PROVE ListsAgree
<1>1. ASSUME NEW j \in joined
      PROVE  \E r \in Memberships : r[2] = j /\ r[1].id = j.userid /\ r[3].id = j.channelid
  <2>1. PICK u \in users, c \in channels : u.id = j.userid /\ c.id = j.channelid
    BY DEF RefIntegrity
  <2>2. <<u, j, c>> \in Memberships
    BY <2>1 DEF Memberships
  <2> QED BY <2>1, <2>2
<1>2. ASSUME NEW r \in Memberships, NEW s \in Memberships,
             r[1].id = s[1].id, r[3].id = s[3].id
      PROVE  r = s
  <2>1. /\ r \in users \X joined \X channels /\ s \in users \X joined \X channels
        /\ r[1].id = r[2].userid /\ r[2].channelid = r[3].id
        /\ s[1].id = s[2].userid /\ s[2].channelid = s[3].id
    BY DEF Memberships
  <2>2. r[1] = s[1] /\ r[3] = s[3]
    BY <1>2, <2>1 DEF KeysUnique
  <2>3. r[2] \in joined /\ s[2] \in joined
    BY <2>1
  <2>4. r[2].userid = s[2].userid /\ r[2].channelid = s[2].channelid
    BY <1>2, <2>1
  <2>5. r[2] = s[2]
    BY <2>3, <2>4 DEF KeysUnique
  <2> QED BY <2>1, <2>2, <2>5
<1>3. \A j \in joined :
         /\ \E r \in UsersOfChannel(j.channelid) : r[2] = j
         /\ \E r \in ChannelsOfUser(j.userid) : r[2] = j
  BY <1>1 DEF UsersOfChannel, ChannelsOfUser
<1>4. \A i \in {ch.id : ch \in channels} :
         \A r, s \in UsersOfChannel(i) : r[1] = s[1] => r = s
  BY <1>2 DEF UsersOfChannel
<1>5. \A i \in {u.id : u \in users} :
         \A r, s \in ChannelsOfUser(i) : r[3] = s[3] => r = s
  BY <1>2 DEF ChannelsOfUser
<1> QED BY <1>3, <1>4, <1>5 DEF ListsAgree

(* Keys and references make the two lists of memberships agree. *)
THEOREM MembershipsListedOnce == Spec => []ListsAgree
<1>1. DbInv => ListsAgree
  BY KeysGiveLists DEF DbInv, TypeOK
<1> QED BY <1>1, DbInvariance, PTL

(* A new user has no channels, whoever had its id before.                  *)
THEOREM NewUserStartsEmpty == Spec => NewUserHasNoChannels
<1> DEFINE A == \A u \in users' : (\A v \in users : v.id # u.id) =>
                    \A j \in joined \cup joined' : j.userid # u.id
<1>1. DbInv /\ [Next]_vars => [A]_vars
  <2> SUFFICES ASSUME DbInv, Next,
                      NEW u \in users', \A v \in users : v.id # u.id,
                      NEW j \in joined \cup joined', j.userid = u.id
               PROVE  FALSE
    BY DEF vars
  <2>1. \A k \in joined : k.userid # u.id
    BY DEF DbInv, RefIntegrity
  <2>2. j \in joined' \ joined
    BY <2>1
  <2>3. users' = users
    <3>1. PICK t \in Threads : JoinChannel(t)
      BY <2>2
         DEF Next, Insertion, Removal, tables, call, counters, StoreUserId, AddUser,
             StoreChannelId, AddChannel, StoreJoinId, LoadUserId, LoadChannelId, LoadJoinId,
             RemoveUserBegin, RemoveUserEnd, RemoveChannelBegin, RemoveChannelEnd,
             PartChannel, DeleteMembership, DeleteMemberships, DeleteMembers, ChangeNick,
             CrashRestart
    <3> QED BY <3>1 DEF JoinChannel
  <2> QED BY <2>3
<1> QED BY <1>1, DbInvariance, PTL DEF Spec, NewUserHasNoChannels

-----------------------------------------------------------------------------
(***************************************************************************)
(* The counters.  Serial says of one of them, n, with the keys K of its    *)
(* table, the threads at p with k in hand, that at most one thread stands  *)
(* between load and store, and that n is past every key of the table and   *)
(* in the hands of threads, which are all different.                       *)
(***************************************************************************)
Serial(K, n, p, k, store, insert) ==
    /\ \A key \in K : key < n
    /\ \A t \in Threads : p[t] = store => k[t] = n
    /\ \A t \in Threads : p[t] = insert => k[t] < n /\ k[t] \notin K
    /\ \A s, t \in Threads : p[s] = store /\ p[t] = store => s = t
    /\ \A s, t \in Threads : p[s] = insert /\ p[t] = insert /\ k[s] = k[t] => s = t

UserKeys == {u.id : u \in users}
ChannelKeys == {ch.id : ch \in channels}
JoinKeys == {j.joinid : j \in joined}

UsersSerial ==
    "users" \in raced \/ Serial(UserKeys, next_user_id, pc, id, "u_store", "u_insert")
ChannelsSerial ==
    "channels" \in raced \/ Serial(ChannelKeys, next_channel_id, pc, id, "c_store", "c_insert")
JoinsSerial ==
    "joined" \in raced \/ Serial(JoinKeys, next_join_id, pc, id, "j_store", "j_insert")

SerialInv == UsersSerial /\ ChannelsSerial /\ JoinsSerial

(* The four things that can happen to a counter, its table and the threads *)
(* at it: a load with nobody between load and store, a store, an INSERT,   *)
(* and what other calls do.                                                *)
LEMMA SerialLoad ==
    ASSUME NEW K \in SUBSET Nat, NEW n \in Nat, NEW k \in [Threads -> Nat], NEW p,
           NEW st, NEW ins, st # ins, NEW t \in Threads,
           p \in [Threads -> PcStates],
           Serial(K, n, p, k, st, ins), \A s \in Threads : p[s] # st
    PROVE  Serial(K, n, [p EXCEPT ![t] = st], [k EXCEPT ![t] = n], st, ins)
BY DEF Serial

LEMMA SerialStore ==
    ASSUME NEW K \in SUBSET Nat, NEW n \in Nat, NEW k \in [Threads -> Nat], NEW p,
           NEW st, NEW ins, st # ins, NEW t \in Threads, p[t] = st,
           p \in [Threads -> PcStates],
           Serial(K, n, p, k, st, ins)
    PROVE  Serial(K, k[t] + 1, [p EXCEPT ![t] = ins], k, st, ins)
<1>1. k[t] = n /\ n < n + 1 /\ \A m \in Nat : m < n => m < n + 1 /\ m # n
  BY DEF Serial
<1>2. \A s \in Threads : [p EXCEPT ![t] = ins][s] = IF s = t THEN ins ELSE p[s]
  OBVIOUS
<1> QED BY <1>1, <1>2 DEF Serial

LEMMA SerialInsert ==
    ASSUME NEW K \in SUBSET Nat, NEW n \in Nat, NEW k \in [Threads -> Nat], NEW p,
           NEW st, NEW ins, st # ins, NEW t \in Threads, p[t] = ins,
           p \in [Threads -> PcStates],
           Serial(K, n, p, k, st, ins), st # "idle", ins # "idle",
           NEW L \in SUBSET (K \cup {k[t]})
    PROVE  Serial(L, n, [p EXCEPT ![t] = "idle"], [k EXCEPT ![t] = 0], st, ins)
BY DEF Serial

LEMMA SerialElse ==
    ASSUME NEW K, NEW n, NEW k, NEW p, NEW st, NEW ins,
           Serial(K, n, p, k, st, ins),
           NEW L \in SUBSET K, NEW q, NEW l,
           \A t \in Threads : q[t] \in {st, ins} => q[t] = p[t] /\ l[t] = k[t]
    PROVE  Serial(L, n, q, l, st, ins)
BY DEF Serial

(* A step that is no insertion into the table leaves the threads at its    *)
(* counter alone, and a race is not forgotten.                             *)
Apart(table, st, ins) ==
    /\ \A t \in Threads : pc'[t] \in {st, ins} => pc'[t] = pc[t] /\ id'[t] = id[t]
    /\ table \in raced => table \in raced'

UserStep(t) == StoreUserId(t) \/ AddUser(t) \/ \E n \in Nicks : LoadUserId(t, n)
ChannelStep(t) == StoreChannelId(t) \/ AddChannel(t) \/ \E c \in Channels : LoadChannelId(t, c)
JoinStep(t) ==
    StoreJoinId(t) \/ JoinChannel(t) \/ \E n \in Nicks, c \in Channels : LoadJoinId(t, n, c)

LEMMA UsersElse ==
    ASSUME UsersSerial, UserKeys' \subseteq UserKeys, next_user_id' = next_user_id,
           Apart("users", "u_store", "u_insert")
    PROVE  UsersSerial'
BY SerialElse DEF UsersSerial, Apart

LEMMA ChannelsElse ==
    ASSUME ChannelsSerial, ChannelKeys' \subseteq ChannelKeys, next_channel_id' = next_channel_id,
           Apart("channels", "c_store", "c_insert")
    PROVE  ChannelsSerial'
BY SerialElse DEF ChannelsSerial, Apart

LEMMA JoinsElse ==
    ASSUME JoinsSerial, JoinKeys' \subseteq JoinKeys, next_join_id' = next_join_id,
           Apart("joined", "j_store", "j_insert")
    PROVE  JoinsSerial'
BY SerialElse DEF JoinsSerial, Apart

LEMMA KeysTyped ==
    ASSUME TypeOK
    PROVE  /\ UserKeys \subseteq Nat /\ ChannelKeys \subseteq Nat /\ JoinKeys \subseteq Nat
           /\ next_user_id \in Nat /\ next_channel_id \in Nat /\ next_join_id \in Nat
           /\ id \in [Threads -> Nat]
           /\ pc \in [Threads -> PcStates]
BY DEF PcStates, TypeOK, DbTypeOK, UserKeys, ChannelKeys, JoinKeys

-----------------------------------------------------------------------------
LEMMA UserStepSerial ==
    ASSUME TypeOK, SerialInv, NEW t \in Threads, UserStep(t) PROVE SerialInv'
<1> USE DEF Goto, tables, counters, call, Exec, Return
<1>1. CASE StoreUserId(t)
  <2>1. /\ pc[t] = "u_store" /\ pc' = [pc EXCEPT ![t] = "u_insert"] /\ id' = id
        /\ next_user_id' = id[t] + 1 /\ UNCHANGED <<users, raced>>
    BY <1>1 DEF StoreUserId
  <2>2. UsersSerial'
    BY <2>1, KeysTyped, SerialStore DEF SerialInv, UsersSerial, UserKeys
  <2>3. /\ UNCHANGED <<ChannelKeys, JoinKeys, next_channel_id, next_join_id>>
        /\ Apart("channels", "c_store", "c_insert") /\ Apart("joined", "j_store", "j_insert")
    BY <1>1, KeysTyped DEF StoreUserId, Apart, ChannelKeys, JoinKeys
  <2> QED BY <2>2, <2>3, ChannelsElse, JoinsElse DEF SerialInv
<1>2. CASE AddUser(t)
  <2>1. /\ pc[t] = "u_insert" /\ pc' = [pc EXCEPT ![t] = "idle"] /\ id' = [id EXCEPT ![t] = 0]
        /\ UNCHANGED <<next_user_id, raced>>
        /\ users' = users \/ users' = users \cup {[id |-> id[t], nick |-> who[t]]}
    BY <1>2 DEF AddUser, InsertUser
  <2>2. UserKeys' \subseteq UserKeys \cup {id[t]}
    BY <2>1 DEF UserKeys
  <2>3. UsersSerial'
    BY <2>1, <2>2, KeysTyped, SerialInsert DEF SerialInv, UsersSerial
  <2>4. /\ UNCHANGED <<ChannelKeys, JoinKeys, next_channel_id, next_join_id>>
        /\ Apart("channels", "c_store", "c_insert") /\ Apart("joined", "j_store", "j_insert")
    BY <1>2, KeysTyped DEF AddUser, Apart, ChannelKeys, JoinKeys
  <2> QED BY <2>3, <2>4, ChannelsElse, JoinsElse DEF SerialInv
<1>3. ASSUME NEW n \in Nicks, LoadUserId(t, n) PROVE SerialInv'
  <2>1. /\ pc' = [pc EXCEPT ![t] = "u_store"] /\ id' = [id EXCEPT ![t] = next_user_id]
        /\ UNCHANGED <<users, next_user_id>>
        /\ "users" \in raced' \/ \A s \in Threads : pc[s] # "u_store"
        /\ "users" \in raced => "users" \in raced'
    BY <1>3 DEF LoadUserId, NoteRace
  <2>2. UsersSerial'
    BY <2>1, KeysTyped, SerialLoad DEF SerialInv, UsersSerial, UserKeys
  <2>3. /\ UNCHANGED <<ChannelKeys, JoinKeys, next_channel_id, next_join_id>>
        /\ Apart("channels", "c_store", "c_insert") /\ Apart("joined", "j_store", "j_insert")
    BY <1>3, KeysTyped DEF LoadUserId, NoteRace, Apart, ChannelKeys, JoinKeys
  <2> QED BY <2>2, <2>3, ChannelsElse, JoinsElse DEF SerialInv
<1> QED BY <1>1, <1>2, <1>3 DEF UserStep

LEMMA ChannelStepSerial ==
    ASSUME TypeOK, SerialInv, NEW t \in Threads, ChannelStep(t) PROVE SerialInv'
<1> USE DEF Goto, tables, counters, call, Exec, Return
<1>1. CASE StoreChannelId(t)
  <2>1. /\ pc[t] = "c_store" /\ pc' = [pc EXCEPT ![t] = "c_insert"] /\ id' = id
        /\ next_channel_id' = id[t] + 1 /\ UNCHANGED <<channels, raced>>
    BY <1>1 DEF StoreChannelId
  <2>2. ChannelsSerial'
    BY <2>1, KeysTyped, SerialStore DEF SerialInv, ChannelsSerial, ChannelKeys
  <2>3. /\ UNCHANGED <<UserKeys, JoinKeys, next_user_id, next_join_id>>
        /\ Apart("users", "u_store", "u_insert") /\ Apart("joined", "j_store", "j_insert")
    BY <1>1, KeysTyped DEF StoreChannelId, Apart, UserKeys, JoinKeys
  <2> QED BY <2>2, <2>3, UsersElse, JoinsElse DEF SerialInv
<1>2. CASE AddChannel(t)
  <2>1. /\ pc[t] = "c_insert" /\ pc' = [pc EXCEPT ![t] = "idle"] /\ id' = [id EXCEPT ![t] = 0]
        /\ UNCHANGED <<next_channel_id, raced>>
        /\ channels' = channels \/ channels' = channels \cup {[id |-> id[t], name |-> chan[t]]}
    BY <1>2 DEF AddChannel, InsertChannel
  <2>2. ChannelKeys' \subseteq ChannelKeys \cup {id[t]}
    BY <2>1 DEF ChannelKeys
  <2>3. ChannelsSerial'
    BY <2>1, <2>2, KeysTyped, SerialInsert DEF SerialInv, ChannelsSerial
  <2>4. /\ UNCHANGED <<UserKeys, JoinKeys, next_user_id, next_join_id>>
        /\ Apart("users", "u_store", "u_insert") /\ Apart("joined", "j_store", "j_insert")
    BY <1>2, KeysTyped DEF AddChannel, Apart, UserKeys, JoinKeys
  <2> QED BY <2>3, <2>4, UsersElse, JoinsElse DEF SerialInv
<1>3. ASSUME NEW c \in Channels, LoadChannelId(t, c) PROVE SerialInv'
  <2>1. /\ pc' = [pc EXCEPT ![t] = "c_store"] /\ id' = [id EXCEPT ![t] = next_channel_id]
        /\ UNCHANGED <<channels, next_channel_id>>
        /\ "channels" \in raced' \/ \A s \in Threads : pc[s] # "c_store"
        /\ "channels" \in raced => "channels" \in raced'
    BY <1>3 DEF LoadChannelId, NoteRace
  <2>2. ChannelsSerial'
    BY <2>1, KeysTyped, SerialLoad DEF SerialInv, ChannelsSerial, ChannelKeys
  <2>3. /\ UNCHANGED <<UserKeys, JoinKeys, next_user_id, next_join_id>>
        /\ Apart("users", "u_store", "u_insert") /\ Apart("joined", "j_store", "j_insert")
    BY <1>3, KeysTyped DEF LoadChannelId, NoteRace, Apart, UserKeys, JoinKeys
  <2> QED BY <2>2, <2>3, UsersElse, JoinsElse DEF SerialInv
<1> QED BY <1>1, <1>2, <1>3 DEF ChannelStep

LEMMA JoinStepSerial ==
    ASSUME TypeOK, SerialInv, NEW t \in Threads, JoinStep(t) PROVE SerialInv'
<1> USE DEF Goto, tables, counters, call, Exec, Return
<1>1. CASE StoreJoinId(t)
  <2>1. /\ pc[t] = "j_store" /\ pc' = [pc EXCEPT ![t] = "j_insert"] /\ id' = id
        /\ next_join_id' = id[t] + 1 /\ UNCHANGED <<joined, raced>>
    BY <1>1 DEF StoreJoinId
  <2>2. JoinsSerial'
    BY <2>1, KeysTyped, SerialStore DEF SerialInv, JoinsSerial, JoinKeys
  <2>3. /\ UNCHANGED <<ChannelKeys, UserKeys, next_channel_id, next_user_id>>
        /\ Apart("channels", "c_store", "c_insert") /\ Apart("users", "u_store", "u_insert")
    BY <1>1, KeysTyped DEF StoreJoinId, Apart, ChannelKeys, UserKeys
  <2> QED BY <2>2, <2>3, ChannelsElse, UsersElse DEF SerialInv
<1>2. CASE JoinChannel(t)
  <2>1. /\ pc[t] = "j_insert" /\ pc' = [pc EXCEPT ![t] = "idle"] /\ id' = [id EXCEPT ![t] = 0]
        /\ UNCHANGED <<next_join_id, raced>>
    BY <1>2 DEF JoinChannel
  <2>2. JoinKeys' \subseteq JoinKeys \cup {id[t]}
    <3>1. joined' \subseteq joined \cup JoinRows(id[t], who[t], chan[t])
      BY <1>2 DEF JoinChannel, InsertJoined
    <3>2. \A r \in JoinRows(id[t], who[t], chan[t]) : r.joinid = id[t]
      BY DEF JoinRows
    <3> QED BY ONLY <3>1, <3>2 DEF JoinKeys
  <2>3. JoinsSerial'
    BY <2>1, <2>2, KeysTyped, SerialInsert DEF SerialInv, JoinsSerial
  <2>4. /\ UNCHANGED <<ChannelKeys, UserKeys, next_channel_id, next_user_id>>
        /\ Apart("channels", "c_store", "c_insert") /\ Apart("users", "u_store", "u_insert")
    BY <1>2, KeysTyped DEF JoinChannel, Apart, ChannelKeys, UserKeys
  <2> QED BY <2>3, <2>4, ChannelsElse, UsersElse DEF SerialInv
<1>3. ASSUME NEW n \in Nicks, NEW c \in Channels, LoadJoinId(t, n, c) PROVE SerialInv'
  <2>1. /\ pc' = [pc EXCEPT ![t] = "j_store"] /\ id' = [id EXCEPT ![t] = next_join_id]
        /\ UNCHANGED <<joined, next_join_id>>
        /\ "joined" \in raced' \/ \A s \in Threads : pc[s] # "j_store"
        /\ "joined" \in raced => "joined" \in raced'
    BY <1>3 DEF LoadJoinId, NoteRace
  <2>2. JoinsSerial'
    BY <2>1, KeysTyped, SerialLoad DEF SerialInv, JoinsSerial, JoinKeys
  <2>3. /\ UNCHANGED <<ChannelKeys, UserKeys, next_channel_id, next_user_id>>
        /\ Apart("channels", "c_store", "c_insert") /\ Apart("users", "u_store", "u_insert")
    BY <1>3, KeysTyped DEF LoadJoinId, NoteRace, Apart, ChannelKeys, UserKeys
  <2> QED BY <2>2, <2>3, ChannelsElse, UsersElse DEF SerialInv
<1> QED BY <1>1, <1>2, <1>3 DEF JoinStep

LEMMA OtherStepSerial ==
    ASSUME TypeOK, SerialInv, UserKeys' \subseteq UserKeys, ChannelKeys' \subseteq ChannelKeys,
           JoinKeys' \subseteq JoinKeys, UNCHANGED <<counters, raced>>,
           \A t \in Threads : pc'[t] \in {"u_store", "u_insert", "c_store", "c_insert",
                                          "j_store", "j_insert"} =>
               pc'[t] = pc[t] /\ id'[t] = id[t]
    PROVE  SerialInv'
<1>1. /\ Apart("users", "u_store", "u_insert") /\ Apart("channels", "c_store", "c_insert")
      /\ Apart("joined", "j_store", "j_insert")
  BY DEF Apart
<1> QED BY <1>1, UsersElse, ChannelsElse, JoinsElse DEF SerialInv, counters

LEMMA RemovalSerial ==
    ASSUME TypeOK, SerialInv, NEW t \in Threads, Removal(t) PROVE SerialInv'
<1> USE DEF Goto, tables, counters, call, Exec, Return
<1>1. users' \subseteq users /\ channels' \subseteq channels /\ joined' \subseteq joined
  BY DEF Removal, RemoveUserBegin, RemoveUserEnd, RemoveChannelBegin, RemoveChannelEnd,
         PartChannel, DeleteMembership, DeleteMemberships, DeleteMembers,
         DeleteUsers, DeleteChannels
<1>2. /\ UNCHANGED <<counters, raced>>
      /\ \/ pc' = pc /\ id' = id
         \/ pc' = [pc EXCEPT ![t] = "remove_user"] /\ id' = id
         \/ pc' = [pc EXCEPT ![t] = "remove_channel"] /\ id' = id
         \/ pc' = [pc EXCEPT ![t] = "idle"] /\ id' = [id EXCEPT ![t] = 0]
  BY DEF Removal, RemoveUserBegin, RemoveUserEnd, RemoveChannelBegin, RemoveChannelEnd, PartChannel
<1>3. \A s \in Threads : pc'[s] \in {"u_store", "u_insert", "c_store", "c_insert",
                                     "j_store", "j_insert"} =>
          pc'[s] = pc[s] /\ id'[s] = id[s]
  BY <1>2, KeysTyped
<1>4. /\ UserKeys' \subseteq UserKeys /\ ChannelKeys' \subseteq ChannelKeys
      /\ JoinKeys' \subseteq JoinKeys
  BY <1>1 DEF UserKeys, ChannelKeys, JoinKeys
<1> QED BY <1>2, <1>3, <1>4, OtherStepSerial

LEMMA ChangeNickSerial ==
    ASSUME TypeOK, SerialInv, NEW t \in Threads, NEW n \in Nicks, NEW new \in Nicks,
           ChangeNick(t, n, new)
    PROVE  SerialInv'
<1>1. \A u \in users' : \E v \in users : v.id = u.id
  BY DEF ChangeNick, RenameUsers, UsersLike, TypeOK, DbTypeOK
<1>2. UserKeys' \subseteq UserKeys
  BY <1>1 DEF UserKeys
<1>3. UNCHANGED <<ChannelKeys, JoinKeys, counters, raced, pc, id>>
  BY DEF ChangeNick, ChannelKeys, JoinKeys, counters, call
<1> QED BY <1>2, <1>3, OtherStepSerial DEF counters

LEMMA RestartSerial == ASSUME CrashRestart PROVE SerialInv'
<1>1. /\ \A i \in UserKeys : i < next_user_id'
      /\ \A i \in ChannelKeys : i < next_channel_id'
      /\ \A i \in JoinKeys : i < next_join_id'
  BY DEF CrashRestart, LoadCounters, PastKeys, UserKeys, ChannelKeys, JoinKeys
<1>2. UNCHANGED <<UserKeys, ChannelKeys, JoinKeys>> /\ \A t \in Threads : pc'[t] = "idle"
  BY DEF CrashRestart, tables, UserKeys, ChannelKeys, JoinKeys
<1> QED BY <1>1, <1>2 DEF SerialInv, UsersSerial, ChannelsSerial, JoinsSerial, Serial

LEMMA StepSerial == ASSUME TypeOK, SerialInv, [Next]_vars PROVE SerialInv'
<1>1. ASSUME NEW t \in Threads, Insertion(t) PROVE SerialInv'
  BY <1>1, UserStepSerial, ChannelStepSerial, JoinStepSerial
     DEF Insertion, UserStep, ChannelStep, JoinStep
<1>2. CASE UNCHANGED vars
  <2>1. UNCHANGED <<UserKeys, ChannelKeys, JoinKeys, counters, raced, pc, id>>
    BY <1>2 DEF vars, UserKeys, ChannelKeys, JoinKeys, counters, tables, call
  <2> QED BY <2>1, OtherStepSerial DEF counters
<1> QED BY <1>1, <1>2, RemovalSerial, ChangeNickSerial, RestartSerial DEF Next

THEOREM Serially == Spec => []SerialInv
<1>1. Init => SerialInv
  BY DEF Init, DbInit, SerialInv, UsersSerial, ChannelsSerial, JoinsSerial, Serial, UserKeys,
         ChannelKeys, JoinKeys
<1>2. TypeOK /\ SerialInv /\ [Next]_vars => SerialInv'
  BY StepSerial
<1> QED BY <1>1, <1>2, TypeCorrect, PTL DEF Spec

LEMMA SerialFree ==
    ASSUME NEW K, NEW n \in Nat, NEW st, NEW ins, Serial(K, n, pc, id, st, ins)
    PROVE  FreeKeys(K, {st, ins})
BY DEF Serial, FreeKeys

(* No INSERT is refused for its key, for any number of threads, calls and  *)
(* restarts, unless two threads have raced for the counter of that table   *)
(* since the process was started last.                                     *)
THEOREM KeysInHandFree == Spec => []KeysInHandAreFree
<1>1. TypeOK /\ SerialInv => KeysInHandAreFree
  BY SerialFree, KeysTyped
     DEF SerialInv, UsersSerial, ChannelsSerial, JoinsSerial, KeysInHandAreFree, UserKeys,
         ChannelKeys, JoinKeys
<1> QED BY <1>1, Serially, TypeCorrect, PTL

(* A process with one connection thread never races. *)
THEOREM LoneThreadKeys ==
    ASSUME \A t, u \in Threads : t = u
    PROVE  Spec => [](raced = {})
<1>1. Init => raced = {}
  BY DEF Init
<1>2. TypeOK /\ raced = {} /\ [Next]_vars => (raced = {})'
  <2> SUFFICES ASSUME TypeOK, raced = {}, [Next]_vars PROVE raced' = {}
    OBVIOUS
  <2>1. ASSUME NEW t \in Threads, pc[t] = "idle" PROVE
          \A s \in Threads : pc[s] \notin {"u_store", "c_store", "j_store"}
    BY <2>1
  <2> QED BY <2>1 DEF Next, Insertion, Removal, vars, Goto, NoteRace, StoreUserId, AddUser,
             StoreChannelId, AddChannel, StoreJoinId, JoinChannel, LoadUserId, LoadChannelId,
             LoadJoinId, RemoveUserBegin, RemoveUserEnd, RemoveChannelBegin, RemoveChannelEnd,
             PartChannel, ChangeNick, CrashRestart
<1> QED BY <1>1, <1>2, TypeCorrect, PTL DEF Spec
=============================================================================
