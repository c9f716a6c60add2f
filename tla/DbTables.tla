------------------------------ MODULE DbTables ------------------------------
(***************************************************************************)
(* The tables of server_side/db.c and its SQL statements.  SQLite (built   *)
(* with its default, serialised, threading mode) makes each statement      *)
(* atomic and durable; the counters that supply the primary keys are plain *)
(* C variables of the process.  Modules that run threads over these tables *)
(* extend this one: here are the statements, not who executes them when.   *)
(***************************************************************************)
EXTENDS Integers

CONSTANTS Nicks,      \* user nicks
          Channels,   \* channel names
          LikePairs   \* <<pattern, text>> for which `text LIKE pattern' holds

ASSUME LikeAssumption == \A n \in Nicks \cup Channels : <<n, n>> \in LikePairs

VARIABLES
    users,            \* rows [id, nick]; id is the primary key, nick is UNIQUE
    channels,         \* rows [id, name]; id is the primary key, name is UNIQUE
    joined,           \* rows [joinid, userid, channelid]; joinid is UNIQUE, the
                      \* pair <<userid, channelid>> is the primary key
    next_user_id, next_channel_id, next_join_id

tables == <<users, channels, joined>>
counters == <<next_user_id, next_channel_id, next_join_id>>

DbInit ==
    /\ users = {} /\ channels = {} /\ joined = {}
    /\ next_user_id = 0 /\ next_channel_id = 0 /\ next_join_id = 0

(* SQLite's LIKE ignores case and has wildcards, where UNIQUE and strncmp  *)
(* compare exactly.                                                        *)
Like(pattern, text) == <<pattern, text>> \in LikePairs

UsersLike(n) == {u \in users : Like(n, u.nick)}
ChannelsLike(c) == {ch \in channels : Like(c, ch.name)}

-----------------------------------------------------------------------------
(* Look-ups *)

(* user_callback overwrites its result on every row, so that the last row  *)
(* of the scan in id order is the answer of get_user_by_nick.              *)
UserByNick(n) == CHOOSE u \in UsersLike(n) : \A v \in UsersLike(n) : v.id <= u.id

(* The memberships get_users_by_channel_name lists, one entry for each row *)
(* of joined with its user.                                                *)
MembersOf(c) ==
    LET listed == {j \in joined : \E ch \in ChannelsLike(c) : ch.id = j.channelid}
        Entry(u, j) == [userid |-> u.id, nick |-> u.nick, joinid |-> j.joinid]
    IN  UNION {{Entry(u, j) : u \in {v \in users : v.id = j.userid}} : j \in listed}

(* The look-ups by id select from the join of the three tables: a row of   *)
(* joined with its user and its channel, for each match.                   *)
Memberships ==
    {r \in users \X joined \X channels : r[1].id = r[2].userid /\ r[2].channelid = r[3].id}

UsersOfChannel(i) == {r \in Memberships : r[3].id = i}
ChannelsOfUser(i) == {r \in Memberships : r[1].id = i}

-----------------------------------------------------------------------------
(* Statements that change a table.  An INSERT that violates a constraint   *)
(* fails and changes nothing.                                              *)

UserFits_NickOnly(id, n) == \A u \in users : u.nick # n
UserFits(id, n) == \A u \in users : u.id # id /\ u.nick # n

InsertUser(id, n) == users' = users \cup {[id |-> id, nick |-> n]}

ChannelFits(id, c) == \A ch \in channels : ch.id # id /\ ch.name # c

InsertChannel(id, c) ==
    channels' = IF ChannelFits(id, c)
                THEN channels \cup {[id |-> id, name |-> c]}
                ELSE channels

(* INSERT INTO joined ... SELECT: one row for every user and channel that  *)
(* match, all with the same joinid.                                        *)
JoinRows(id, n, c) ==
    {[joinid |-> id, userid |-> u.id, channelid |-> ch.id] :
        u \in UsersLike(n), ch \in ChannelsLike(c)}

JoinFits_JoinId(rows) ==
    /\ \A r, s \in rows : r = s
    /\ \A r \in rows, j \in joined : r.joinid # j.joinid
JoinFits(rows) ==
    /\ \A r, s \in rows : r = s
    /\ \A r \in rows, j \in joined :
          r.joinid # j.joinid /\ <<r.userid, r.channelid>> # <<j.userid, j.channelid>>

InsertJoined(id, n, c) ==
    LET rows == JoinRows(id, n, c)
    IN  joined' = IF JoinFits(rows) THEN joined \cup rows ELSE joined

(* part_channel *)
DeleteMembership(n, c) ==
    joined' = {j \in joined : ~ /\ \E u \in UsersLike(n) : u.id = j.userid
                                /\ \E ch \in ChannelsLike(c) : ch.id = j.channelid}

(* The two statements of remove_user, joined first. *)
DeleteMemberships(n) ==
    joined' = {j \in joined : ~\E u \in UsersLike(n) : u.id = j.userid}
DeleteUsers(n) == users' = users \ UsersLike(n)

(* The two statements of remove_channel, joined first. *)
DeleteMembers(c) ==
    joined' = {j \in joined : ~\E ch \in ChannelsLike(c) : ch.id = j.channelid}
DeleteChannels(c) == channels' = channels \ ChannelsLike(c)

(* change_nick: every matching row gets the new nick, unless that makes a  *)
(* duplicate.                                                              *)
RenameUsers(n, new) ==
    LET others == users \ UsersLike(n)
    IN  users' = IF /\ \A u, v \in UsersLike(n) : u = v
                    /\ \A u \in others : u.nick # new
                 THEN others \cup {[u EXCEPT !.nick = new] : u \in UsersLike(n)}
                 ELSE users

(* init_db2 sets each counter one past the largest key of its table, or to *)
(* 0 when the table is empty: the least number past all keys.              *)
PastKeys_Reuse(ids) == {n \in {0} \cup ids : \A i \in ids : i <= n}
PastKeys(ids) == {n \in {0} \cup {i + 1 : i \in ids} : \A i \in ids : i < n}

LoadCounters ==
    /\ next_user_id' \in PastKeys({u.id : u \in users})
    /\ next_channel_id' \in PastKeys({ch.id : ch \in channels})
    /\ next_join_id' \in PastKeys({j.joinid : j \in joined})

-----------------------------------------------------------------------------
DbTypeOK ==
    /\ users \subseteq [id : Nat, nick : Nicks]
    /\ channels \subseteq [id : Nat, name : Channels]
    /\ joined \subseteq [joinid : Nat, userid : Nat, channelid : Nat]
    /\ next_user_id \in Nat /\ next_channel_id \in Nat /\ next_join_id \in Nat

(* The declared keys are keys: no two users share an id or a nick, no two  *)
(* channels an id or a name, no two memberships a joinid or a user and     *)
(* channel (CREATE TABLE, db.c l.184-196).                                 *)
KeysUnique ==
    /\ \A u, v \in users : u.id = v.id \/ u.nick = v.nick => u = v
    /\ \A c, d \in channels : c.id = d.id \/ c.name = d.name => c = d
    /\ \A j, k \in joined :
          j.joinid = k.joinid \/ <<j.userid, j.channelid>> = <<k.userid, k.channelid>> => j = k

(* Every membership is of a user and a channel that exist. The tables      *)
(* declare no foreign keys: only the order of the statements keeps this.   *)
RefIntegrity ==
    \A j \in joined :
        /\ \E u \in users : u.id = j.userid
        /\ \E ch \in channels : ch.id = j.channelid

(* The users listed of a channel and the channels listed of a user are the *)
(* two sides of joined: each membership is in both lists, and neither      *)
(* lists anything twice.                                                   *)
ListsAgree ==
    /\ \A j \in joined :
          /\ \E r \in UsersOfChannel(j.channelid) : r[2] = j
          /\ \E r \in ChannelsOfUser(j.userid) : r[2] = j
    /\ \A i \in {ch.id : ch \in channels} :
          \A r, s \in UsersOfChannel(i) : r[1] = s[1] => r = s
    /\ \A i \in {u.id : u \in users} :
          \A r, s \in ChannelsOfUser(i) : r[3] = s[3] => r = s
=============================================================================
