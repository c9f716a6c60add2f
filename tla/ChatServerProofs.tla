-------------------------- MODULE ChatServerProofs --------------------------
(***************************************************************************)
(* Proofs about ChatServer, for any number of threads, nicks, channels,    *)
(* mailbox lines and whatever the bounds.  All but the types assume that   *)
(* LIKE tells names apart as UNIQUE does (see OwnRowStays).                *)
(*                                                                         *)
(* SessInv is inductive: an INSERT that succeeds gives the session an id   *)
(* and a nick that no row has, rows are those of live sessions and ghosts  *)
(* only, and so the removal by nick removes the session's own row.         *)
(*                                                                         *)
(* TypeInv adds to the types what a thread knows while it handles a        *)
(* channel message (its client has asked for the channel).  IdsBounded is  *)
(* why there is a last among several rows that LIKE finds.  MemberInv adds *)
(* that every membership is of a user who exists, which is why a new user  *)
(* finds none under its id.                                                *)
(*                                                                         *)
(* OrderInv numbers the messages of a sender: those in a mailbox, and the  *)
(* one in its thread's hand, come after what was written before.  That a   *)
(* channel message is written once to each member needs the list of        *)
(* members to have each user once, hence OneEntryEach, and hence the keys. *)
(***************************************************************************)
EXTENDS ChatServer, SequenceTheorems, WellFoundedInduction, TLAPS

Exact == \A n, m \in Nicks \cup Channels : Like(n, m) => n = m

BeforeSession == {"accept", "nick", "u_store", "u_insert"}
InSession == {"reply", "loop", "reading", "no_user", "write", "c_load", "c_store", "c_insert",
              "members", "j_load", "j_store", "j_insert", "snapshot", "deliver", "pass"}

SessTypes ==
    /\ users \subseteq [id : Nat, nick : Nicks]
    /\ next_user_id \in Nat
    /\ pc \in [Threads -> BeforeSession \cup InSession]
    /\ nick \in [Threads -> Nicks]
    /\ uid \in [Threads -> Nat]

UserKeys == \A u, v \in users : u.id = v.id \/ u.nick = v.nick => u = v

SessInv == SessTypes /\ UserKeys /\ SessionsAreRows

(* Beginning and ending to wait for the client. *)
WaitStep(t) == ReadPart(t) \/ BodyEnds(t) \/ PassMessage(t)

(* Steps within a session. *)
SessionStep(t) ==
    \/ StartSession(t) \/ AnswerNoUser(t) \/ (\E d \in dests[t] : WriteTo(t, d))
    \/ LoadChannelId(t) \/ StoreChannelId(t) \/ AddChannel(t) \/ FindMember(t)
    \/ LoadJoinId(t) \/ StoreJoinId(t) \/ JoinChannel(t) \/ ListMembers(t) \/ Deliver(t)
    \/ (\E n \in Nicks \ {Empty} : ReceiveChat(t, n))
    \/ (\E c \in Channels : ReceiveChan(t, c) \/ ReceiveExit(t, c))
    \/ WaitStep(t)

(* Steps before the nick is registered. *)
NickStep(t) ==
    \/ Accept(t) \/ (\E n \in Nicks : ReadNick(t, n)) \/ NickReadFails(t)
    \/ StoreUserId(t) \/ RefuseNick(t) \/ GiveUpNick(t)

-----------------------------------------------------------------------------
LEMMA InitSessInv == Init => SessInv
BY ServerAssumption
   DEF Init, DbInit, SessInv, SessTypes, UserKeys, SessionsAreRows, Live, BeforeSession

LEMMA NextCases ==
    ASSUME NEW t \in Threads, Step(t)
    PROVE  \/ SessionStep(t) \/ NickStep(t) \/ RegisterNick(t) \/ ReplyFails(t)
           \/ ClientCloses(t) \/ ReceiveQuit(t) \/ Disconnected(t)
BY ServerAssumption DEF Step, ThreadStep, WriteStep, ClientStep, SessionStep, WaitStep, NickStep

(* A step within a session changes neither a row nor who has one. *)
LEMMA SessionStepKeeps ==
    ASSUME NEW t \in Threads, SessTypes, SessionStep(t)
    PROVE  /\ UNCHANGED <<users, nick, uid, ghosts>>
           /\ next_user_id' = next_user_id
           /\ pc[t] \in InSession
           /\ \E to \in InSession : pc' = [pc EXCEPT ![t] = to]
<1> USE DEF SessTypes, Goto, Reads, Receive, tables, counters, session, traffic, bounds, InSession
<1>1. CASE StartSession(t) \/ AnswerNoUser(t) \/ FindMember(t) \/ ListMembers(t)
  BY <1>1 DEF StartSession, AnswerNoUser, FindMember, ListMembers
<1>2. ASSUME NEW d \in dests[t], WriteTo(t, d)
      PROVE  /\ UNCHANGED <<users, nick, uid, ghosts, next_user_id>>
             /\ pc[t] \in InSession
             /\ \E to \in InSession : pc' = [pc EXCEPT ![t] = to]
  BY <1>2 DEF WriteTo
<1>3. CASE LoadChannelId(t) \/ StoreChannelId(t) \/ AddChannel(t)
  BY <1>3 DEF LoadChannelId, StoreChannelId, AddChannel
<1>4. CASE LoadJoinId(t) \/ StoreJoinId(t) \/ JoinChannel(t)
  BY <1>4 DEF LoadJoinId, StoreJoinId, JoinChannel
<1>5. CASE Deliver(t)
  <2>1. pc' = [pc EXCEPT ![t] = "loop"] \/ pc' = [pc EXCEPT ![t] = "pass"]
    BY <1>5 DEF Deliver
  <2> QED BY <1>5, <2>1 DEF Deliver, TurnGoesOn
<1>6. ASSUME NEW n \in Nicks \ {Empty}, ReceiveChat(t, n)
      PROVE  /\ UNCHANGED <<users, nick, uid, ghosts, next_user_id>>
             /\ pc[t] \in InSession
             /\ \E to \in InSession : pc' = [pc EXCEPT ![t] = to]
  <2>1. pc' = [pc EXCEPT ![t] = "no_user"] \/ pc' = [pc EXCEPT ![t] = "write"]
    BY <1>6 DEF ReceiveChat
  <2> QED BY <1>6, <2>1 DEF ReceiveChat
<1>7. ASSUME NEW c \in Channels, ReceiveChan(t, c) \/ ReceiveExit(t, c)
      PROVE  /\ UNCHANGED <<users, nick, uid, ghosts, next_user_id>>
             /\ pc[t] \in InSession
             /\ \E to \in InSession : pc' = [pc EXCEPT ![t] = to]
  BY <1>7 DEF ReceiveChan, ReceiveExit
<1>8. CASE WaitStep(t)
  BY <1>8 DEF WaitStep, ReadPart, BodyEnds, PassMessage
<1> QED BY <1>1, <1>2, <1>3, <1>4, <1>5, <1>6, <1>7, <1>8 DEF SessionStep

LEMMA SessionStepInv ==
    ASSUME NEW t \in Threads, SessInv, SessionStep(t) PROVE SessInv'
<1>1. /\ UNCHANGED <<users, nick, uid, ghosts, next_user_id>> /\ pc[t] \in InSession
  BY SessionStepKeeps DEF SessInv
<1>2. PICK to \in InSession : pc' = [pc EXCEPT ![t] = to]
  BY SessionStepKeeps DEF SessInv
<1>3. SessTypes' /\ UserKeys'
  BY <1>1, <1>2 DEF SessInv, SessTypes, UserKeys
<1>4. \A u \in Threads : Live(u)' <=> Live(u)
  BY <1>1, <1>2 DEF SessInv, SessTypes, Live, InSession, BeforeSession
<1>5. SessionsAreRows'
  BY <1>1, <1>4 DEF SessInv, SessionsAreRows, Row
<1> QED BY <1>3, <1>5 DEF SessInv

LEMMA NickStepKeeps ==
    ASSUME NEW t \in Threads, SessTypes, NickStep(t)
    PROVE  /\ UNCHANGED <<users, ghosts>>
           /\ next_user_id' \in Nat
           /\ pc[t] \in BeforeSession
           /\ \E to \in BeforeSession : pc' = [pc EXCEPT ![t] = to]
           /\ \E n \in Nicks : nick' = [nick EXCEPT ![t] = n]
           /\ \E i \in Nat : uid' = [uid EXCEPT ![t] = i]
<1> USE ServerAssumption
    DEF SessTypes, Goto, EndSession, tables, counters, session, traffic, bounds, BeforeSession
<1>1. nick = [nick EXCEPT ![t] = nick[t]] /\ uid = [uid EXCEPT ![t] = uid[t]]
  OBVIOUS
<1>2. CASE Accept(t) \/ StoreUserId(t)
  BY <1>1, <1>2 DEF Accept, StoreUserId
<1>3. ASSUME NEW n \in Nicks, ReadNick(t, n)
      PROVE  /\ UNCHANGED <<users, ghosts, next_user_id>>
             /\ pc[t] = "nick" /\ pc' = [pc EXCEPT ![t] = "u_store"]
             /\ nick' = [nick EXCEPT ![t] = n] /\ uid' = [uid EXCEPT ![t] = next_user_id]
  BY <1>3 DEF ReadNick
<1>4. CASE NickReadFails(t) \/ GiveUpNick(t)
  BY <1>4 DEF NickReadFails, GiveUpNick
<1>5. CASE RefuseNick(t)
  BY <1>5 DEF RefuseNick
<1>6. CASE \E n \in Nicks : ReadNick(t, n)
  BY <1>3, <1>6
<1> QED BY <1>2, <1>4, <1>5, <1>6 DEF NickStep

LEMMA NickStepInv ==
    ASSUME NEW t \in Threads, SessInv, NickStep(t) PROVE SessInv'
<1>1. UNCHANGED <<users, ghosts>> /\ next_user_id' \in Nat /\ pc[t] \in BeforeSession
  BY NickStepKeeps DEF SessInv
<1>2. PICK to \in BeforeSession, n \in Nicks, i \in Nat :
          /\ pc' = [pc EXCEPT ![t] = to]
          /\ nick' = [nick EXCEPT ![t] = n]
          /\ uid' = [uid EXCEPT ![t] = i]
  BY NickStepKeeps DEF SessInv
<1>3. SessTypes' /\ UserKeys'
  BY <1>1, <1>2 DEF SessInv, SessTypes, UserKeys
<1>4. \A u \in Threads : /\ Live(u)' <=> Live(u)
                         /\ Live(u) => nick'[u] = nick[u] /\ uid'[u] = uid[u]
  BY <1>1, <1>2 DEF SessInv, SessTypes, Live, BeforeSession
<1>5. {Row(u) : u \in {v \in Threads : Live(v)}}' = {Row(u) : u \in {v \in Threads : Live(v)}}
  BY <1>4 DEF Row
<1>6. SessionsAreRows'
  BY <1>1, <1>4, <1>5 DEF SessInv, SessionsAreRows, Row
<1> QED BY <1>3, <1>6 DEF SessInv

LEMMA RegisterNickInv ==
    ASSUME NEW t \in Threads, SessInv, RegisterNick(t) PROVE SessInv'
<1> USE DEF SessInv, SessTypes, Goto, RegisterNick, InsertUser, UserFits, counters, session,
            traffic, bounds, BeforeSession, InSession
<1>1. SessTypes'
  OBVIOUS
<1>2. UserKeys'
  BY DEF UserKeys
<1>3. \A u \in Threads : Live(u)' <=> (u = t \/ Live(u))
  BY DEF Live
<1>4. UNCHANGED <<nick, uid, ghosts>> /\ users' = users \cup {Row(t)}
  BY DEF Row
<1>5. Row(t) \notin users /\ \A u \in users : u.id # uid[t] /\ u.nick # nick[t]
  BY DEF Row
<1>6. \A u \in Threads : Live(u) => uid[u] # uid[t] /\ nick[u] # nick[t]
  <2>1. \A u \in Threads : Live(u) => Row(u) \in users
    BY DEF SessionsAreRows
  <2> QED BY ONLY <1>5, <2>1 DEF Row
<1>7. users' = ghosts' \cup {Row(u)' : u \in {v \in Threads : Live(v)'}}
  <2>1. {v \in Threads : Live(v)'} = {v \in Threads : Live(v)} \cup {t}
    BY <1>3
  <2>2. \A u \in Threads : Row(u)' = Row(u)
    BY <1>4 DEF Row
  <2>3. users = ghosts \cup {Row(u) : u \in {v \in Threads : Live(v)}}
    BY DEF SessionsAreRows
  <2> QED BY ONLY <2>1, <2>2, <2>3, <1>4, t \in Threads
<1>8. \A u \in Threads : Live(u)' => Row(u)' \notin ghosts'
  BY <1>3, <1>4, <1>5 DEF SessionsAreRows, Row
<1>9. \A u, v \in Threads : Live(u)' /\ Live(v)' /\ u # v => uid'[u] # uid'[v] /\ nick'[u] # nick'[v]
  BY <1>3, <1>4, <1>6 DEF SessionsAreRows
<1> QED BY <1>1, <1>2, <1>7, <1>8, <1>9 DEF SessionsAreRows

(* What the end of any session leaves behind. *)
LEMMA EndedSession ==
    ASSUME NEW t \in Threads, SessTypes, EndSession(t), pc' = [pc EXCEPT ![t] = "accept"],
           Live(t)
    PROVE  \A u \in Threads : /\ Live(u)' <=> Live(u) /\ u # t
                              /\ Live(u)' => Row(u)' = Row(u) /\ nick'[u] = nick[u] /\ uid'[u] = uid[u]
BY DEF EndSession, SessTypes, Live, Row, BeforeSession, InSession

LEMMA ReplyFailsInv ==
    ASSUME NEW t \in Threads, SessInv, ReplyFails(t) PROVE SessInv'
<1>1. SessTypes' /\ UserKeys'
  BY ServerAssumption
     DEF SessInv, SessTypes, UserKeys, ReplyFails, EndSession, Goto, tables, counters, bounds,
         BeforeSession
<1>2. Live(t) /\ EndSession(t) /\ pc' = [pc EXCEPT ![t] = "accept"]
  BY DEF ReplyFails, Goto, Live
<1>3. users' = users /\ ghosts' = ghosts \cup {Row(t)}
  BY DEF ReplyFails, tables
<1>4. \A u \in Threads : /\ Live(u)' <=> Live(u) /\ u # t
                         /\ Live(u)' => Row(u)' = Row(u) /\ nick'[u] = nick[u] /\ uid'[u] = uid[u]
  BY <1>2, EndedSession DEF SessInv
<1>5. users' = ghosts' \cup {Row(u)' : u \in {v \in Threads : Live(v)'}}
  BY <1>2, <1>3, <1>4 DEF SessInv, SessionsAreRows
<1>6. \A u \in Threads : Live(u)' => Row(u)' \notin ghosts'
  BY <1>2, <1>3, <1>4 DEF SessInv, SessionsAreRows, Row
<1>7. \A u, v \in Threads : Live(u)' /\ Live(v)' /\ u # v => uid'[u] # uid'[v] /\ nick'[u] # nick'[v]
  BY <1>4 DEF SessInv, SessionsAreRows
<1> QED BY <1>1, <1>5, <1>6, <1>7 DEF SessInv, SessionsAreRows

(* The removal by nick removes the row of the session and no other. *)
LEMMA RemovalInv ==
    ASSUME NEW t \in Threads, SessInv, Exact, ReceiveQuit(t) \/ Disconnected(t)
    PROVE  SessInv'
<1>1. /\ Reads(t) /\ pc' = [pc EXCEPT ![t] = "accept"] /\ EndSession(t) /\ DeleteUsers(nick[t])
      /\ UNCHANGED <<ghosts, next_user_id>>
  BY DEF ReceiveQuit, Disconnected, RemoveUser, counters
<1>2. SessTypes' /\ UserKeys'
  BY <1>1, ServerAssumption
     DEF SessInv, SessTypes, UserKeys, EndSession, DeleteUsers, BeforeSession
<1>3. Live(t) /\ pc' = [pc EXCEPT ![t] = "accept"]
  BY <1>1 DEF Reads, Live
<1>4. Row(t) \in users
  BY <1>3 DEF SessInv, SessionsAreRows
<1>5. \A u \in users : Like(nick[t], u.nick) <=> u = Row(t)
  BY <1>4, LikeAssumption DEF Exact, SessInv, SessTypes, UserKeys, Row, Like
<1>6. users' = users \ {Row(t)}
  BY <1>1, <1>5 DEF DeleteUsers, UsersLike
<1>7. \A u \in Threads : /\ Live(u)' <=> Live(u) /\ u # t
                         /\ Live(u)' => Row(u)' = Row(u) /\ nick'[u] = nick[u] /\ uid'[u] = uid[u]
  BY <1>1, <1>3, EndedSession DEF SessInv
<1>8. \A u \in Threads : Live(u) /\ u # t => Row(u) # Row(t)
  BY <1>3 DEF SessInv, SessionsAreRows, Row
<1>9. users' = ghosts' \cup {Row(u)' : u \in {v \in Threads : Live(v)'}}
  BY <1>1, <1>3, <1>6, <1>7, <1>8 DEF SessInv, SessionsAreRows
<1>10. \A u \in Threads : Live(u)' => Row(u)' \notin ghosts'
  BY <1>1, <1>7 DEF SessInv, SessionsAreRows
<1>11. \A u, v \in Threads : Live(u)' /\ Live(v)' /\ u # v => uid'[u] # uid'[v] /\ nick'[u] # nick'[v]
  BY <1>7 DEF SessInv, SessionsAreRows
<1> QED BY <1>2, <1>9, <1>10, <1>11 DEF SessInv, SessionsAreRows

LEMMA CrashInv == ASSUME NEW t \in Threads, SessInv, Crash(t) PROVE SessInv'
<1>1. /\ pc' = [u \in Threads |-> "accept"] /\ nick' = [u \in Threads |-> Empty]
      /\ uid' = [u \in Threads |-> 0] /\ users' = users /\ ghosts' = users
  BY DEF Crash, tables
<1>2. next_user_id' \in Nat
  BY DEF Crash, LoadCounters, PastKeys, SessInv, SessTypes
<1>3. \A u \in Threads : ~Live(u)'
  BY <1>1 DEF Live
<1> QED
  BY <1>1, <1>2, <1>3, ServerAssumption
     DEF SessInv, SessTypes, UserKeys, SessionsAreRows, BeforeSession

LEMMA NextSessInv == ASSUME SessInv, Exact, [Next]_vars PROVE SessInv'
<1>1. CASE UNCHANGED vars
  BY <1>1 DEF vars, tables, counters, session, SessInv, SessTypes, UserKeys, SessionsAreRows,
              Live, Row
<1>2. ASSUME NEW t \in Threads, Step(t) PROVE SessInv'
  <2>1. CASE ClientCloses(t)
    BY <2>1 DEF ClientCloses, tables, counters, session, SessInv, SessTypes, UserKeys,
                SessionsAreRows, Live, Row
  <2> QED
    BY <1>2, <2>1, NextCases, SessionStepInv, NickStepInv, RegisterNickInv, ReplyFailsInv,
       RemovalInv
<1>3. ASSUME NEW t \in Threads, Crash(t) PROVE SessInv'
  BY <1>3, CrashInv
<1> QED BY <1>1, <1>2, <1>3 DEF Next

(* The inductive invariant holds of every behaviour. *)
THEOREM SessInvariance == ASSUME Exact PROVE Spec => []SessInv
<1>1. Init => SessInv
  BY InitSessInv
<1>2. SessInv /\ [Next]_vars => SessInv'
  BY NextSessInv
<1> QED BY <1>1, <1>2, PTL DEF Spec

(* The users table is exactly the live sessions and the ghosts, for any    *)
(* number of threads and in spite of the races of the id counter: the      *)
(* primary key catches an id taken twice.                                  *)
THEOREM SessionsHaveRows == ASSUME Exact PROVE Spec => []SessionsAreRows
BY SessInvariance, PTL DEF SessInv

(* Where LIKE compares as UNIQUE does, nobody's removal takes the row of a *)
(* live session: the case folding and the wildcards of LIKE are the only   *)
(* cause of a row deleted by somebody else's quitting.                     *)
THEOREM OwnRowsStay == ASSUME Exact PROVE Spec => []OwnRowStays
<1>1. SessInv => OwnRowStays
  BY DEF SessInv, SessionsAreRows, OwnRowStays
<1> QED BY <1>1, SessInvariance, PTL

-----------------------------------------------------------------------------
(* Types, and the channels. *)

ChanStates == {"c_load", "c_store", "c_insert", "members", "j_load", "j_store", "j_insert",
               "snapshot"}

(* What a thread knows of the message it handles. *)
MsgKnown ==
    \A t \in Threads :
        /\ pc[t] \in ChanStates =>
              msg[t].kind = "chan" /\ msg[t].to \in asked[t] /\ msg[t].to \in Channels
        /\ pc[t] = "write" => msg[t].kind \in {"chat", "chan"}

TypeInv == TypeOK /\ MsgKnown

IdsBounded == \E b \in Nat : \A u \in users : u.id <= b

-----------------------------------------------------------------------------
LEMMA InitTypeInv == Init => TypeInv
BY ServerAssumption
   DEF Init, DbInit, TypeInv, TypeOK, ThreadTypes, TrafficTypes, CountTypes, DbTypeOK, MsgKnown, ChanStates, Messages, NoMsg, Entries

(* The look-ups return rows of the tables. *)
LEMMA MembersTyped == ASSUME TypeOK, NEW c PROVE MembersOf(c) \subseteq Entries
<1>1. ASSUME NEW d \in MembersOf(c)
      PROVE  \E u \in users, j \in joined :
                 d = [userid |-> u.id, nick |-> u.nick, joinid |-> j.joinid]
  BY <1>1 DEF MembersOf
<1>2. \A u \in users, j \in joined :
          [userid |-> u.id, nick |-> u.nick, joinid |-> j.joinid] \in Entries
  BY DEF TypeOK, DbTypeOK, Entries
<1> QED BY <1>1, <1>2

LEMMA LeastElement ==
    ASSUME NEW S \in SUBSET Nat, S # {} PROVE \E k \in S : \A l \in S : k <= l
<1>1. \E k \in S : \A l \in S : ~(<<l, k>> \in OpToRel(<, Nat))
  BY NatLessThanWellFounded, WFMin
<1>2. PICK k \in S : \A l \in S : ~(<<l, k>> \in OpToRel(<, Nat))
  BY <1>1
<1>3. \A l \in S : ~(l < k)
  BY <1>2 DEF OpToRel
<1> QED BY <1>3

(* Of the rows a pattern finds, one has the greatest id. *)
LEMMA UserFound ==
    ASSUME TypeOK, IdsBounded, NEW n \in Nicks, UsersLike(n) # {}
    PROVE  UserByNick(n) \in users
<1> DEFINE ids == {u.id : u \in UsersLike(n)}
           above == {b \in Nat : \A i \in ids : i <= b}
<1>1. UsersLike(n) \subseteq users /\ ids \subseteq Nat /\ ids # {}
  BY DEF UsersLike, TypeOK, DbTypeOK
<1>2. above \in SUBSET Nat /\ above # {}
  BY <1>1 DEF IdsBounded, UsersLike
<1>3. PICK b \in above : \A c \in above : b <= c
  <2> HIDE DEF above
  <2> QED BY <1>2, LeastElement
<1>4. b \in ids
  <2>1. b \in Nat /\ \A i \in ids : i \in Nat /\ i <= b
    BY <1>1, <1>3
  <2>2. SUFFICES ASSUME b \notin ids PROVE FALSE
    OBVIOUS
  <2>3. PICK i \in ids : TRUE
    BY <1>1
  <2> HIDE DEF ids
  <2>4. b - 1 \in Nat /\ \A j \in ids : j <= b - 1
    <3>1. \A j \in ids : j # b
      BY <2>2
    <3> QED BY <2>1, <2>3, <3>1
  <2>5. b - 1 \in above
    BY <2>4
  <2> QED BY <1>3, <2>1, <2>5
<1>5. PICK u \in UsersLike(n) : u.id = b
  BY <1>4
<1>6. \A v \in UsersLike(n) : v.id <= u.id
  BY <1>3, <1>5
<1>7. UserByNick(n) \in UsersLike(n)
  BY <1>6 DEF UserByNick
<1> QED BY <1>1, <1>7

Boxes == [id : Nat, lines : Seq(Messages)]

LEMMA BoxesTyped ==
    ASSUME TypeOK
    PROVE  /\ mailboxes \in Seq(Boxes)
           /\ Len(mailboxes) \in Nat /\ DOMAIN mailboxes = 1 .. Len(mailboxes)
           /\ \A k \in DOMAIN mailboxes : mailboxes[k] \in Boxes
<1>1. mailboxes \in Seq(Boxes)
  BY DEF TypeOK, TrafficTypes, Boxes
<1> HIDE DEF Boxes
<1> QED BY <1>1, LenProperties, ElementOfSeq

LEMMA MailboxIndex ==
    ASSUME TypeOK, NEW i
    PROVE  MailboxOf(i) = 0 \/ MailboxOf(i) \in DOMAIN mailboxes
<1> DEFINE found == {k \in DOMAIN mailboxes : mailboxes[k].id = i}
<1>1. found \in SUBSET Nat /\ found \subseteq DOMAIN mailboxes
  <2>1. DOMAIN mailboxes = 1 .. Len(mailboxes) /\ Len(mailboxes) \in Nat
    BY BoxesTyped
  <2> QED BY <2>1
<1>2. CASE found # {}
  <2>1. PICK k \in found : \A l \in found : k <= l
    BY <1>1, <1>2, LeastElement
  <2>2. MailboxOf(i) \in found
    BY <1>2, <2>1 DEF MailboxOf
  <2> QED BY <1>1, <2>2
<1>3. CASE found = {}
  BY <1>3 DEF MailboxOf
<1> QED BY <1>2, <1>3

(* A write to a mailbox and a look into it keep the types. *)
LEMMA WriteTyped ==
    ASSUME TypeOK, NEW i, NEW m \in Messages, m.kind \in {"chat", "chan"}, WriteToBuffer(i, m)
    PROVE  mailboxes' \in Seq(Boxes)
<1> DEFINE k == MailboxOf(i)
<1>1. mailboxes \in Seq(Boxes)
  BY BoxesTyped
<1>2. k = 0 \/ k \in DOMAIN mailboxes
  BY MailboxIndex
<1> HIDE DEF k
<1>3. ASSUME k \in DOMAIN mailboxes PROVE [mailboxes EXCEPT ![k].lines = Put(@, m)] \in Seq(Boxes)
  <2>1. mailboxes[k] \in Boxes /\ mailboxes[k].lines \in Seq(Messages)
    BY <1>3, BoxesTyped DEF Boxes
  <2>2. Put(mailboxes[k].lines, m) \in Seq(Messages)
    BY <2>1 DEF Put
  <2>3. [mailboxes[k] EXCEPT !.lines = Put(mailboxes[k].lines, m)] \in Boxes
    BY <2>1, <2>2 DEF Boxes
  <2>4. [mailboxes EXCEPT ![k] = [mailboxes[k] EXCEPT !.lines = Put(mailboxes[k].lines, m)]]
            \in Seq(Boxes)
    <3> HIDE DEF Boxes
    <3> QED BY <1>1, <1>3, <2>3, BoxesTyped, ExceptSeq
  <2> QED BY <2>4
<1>4. \/ mailboxes' = mailboxes
      \/ k # 0 /\ mailboxes' = [mailboxes EXCEPT ![k].lines = Put(@, m)]
  <2>1. CASE k # 0 /\ Len(mailboxes[k].lines) < BufferLines
    BY <2>1, Zenon DEF WriteToBuffer, k
  <2>2. CASE ~(k # 0 /\ Len(mailboxes[k].lines) < BufferLines)
    <3>1. mailboxes' = mailboxes
      BY <2>2, Zenon DEF WriteToBuffer, k
    <3> QED BY <3>1
  <2> QED BY <2>1, <2>2
<1> QED BY ONLY <1>1, <1>2, <1>3, <1>4

LEMMA MailTyped ==
    ASSUME TypeOK, NEW t \in Threads
    PROVE  /\ Mail(t) \in Seq(Messages)
           /\ Mail(t) # <<>> => /\ MailboxOf(uid[t]) \in DOMAIN mailboxes
                                /\ Mail(t) = mailboxes[MailboxOf(uid[t])].lines
<1> DEFINE k == MailboxOf(uid[t])
<1>2. k = 0 \/ k \in DOMAIN mailboxes
  BY MailboxIndex
<1>3. Mail(t) = IF k = 0 THEN <<>> ELSE mailboxes[k].lines
  BY DEF Mail
<1> HIDE DEF k
<1>4. k \in DOMAIN mailboxes => mailboxes[k].lines \in Seq(Messages)
  BY BoxesTyped DEF Boxes
<1> QED BY <1>2, <1>3, <1>4 DEF k

-----------------------------------------------------------------------------
(* Every step keeps the types. *)

(* Steps that touch neither mailboxes nor what was sent to clients. *)
LEMMA QuietTraffic == ASSUME TypeInv, UNCHANGED traffic PROVE TrafficTypes'
BY DEF TypeInv, TypeOK, TrafficTypes, traffic

LEMMA QuietDb ==
    ASSUME TypeInv, UNCHANGED tables, next_user_id' \in Nat, next_channel_id' \in Nat,
           next_join_id' \in Nat
    PROVE  DbTypeOK'
BY DEF TypeInv, TypeOK, DbTypeOK, tables

LEMMA QuietCounts ==
    ASSUME TypeInv, UNCHANGED <<tries, bounds>> PROVE CountTypes'
BY DEF TypeInv, TypeOK, CountTypes, bounds

LEMMA QuietCounters ==
    ASSUME TypeInv
    PROVE  next_user_id \in Nat /\ next_channel_id \in Nat /\ next_join_id \in Nat
BY DEF TypeInv, TypeOK, DbTypeOK

LEMMA AcceptTyped == ASSUME TypeInv, NEW t \in Threads, Accept(t) PROVE TypeInv'
<1>1. TrafficTypes' /\ DbTypeOK' /\ ghosts' = ghosts
  BY QuietTraffic, QuietDb, QuietCounters DEF Accept, counters
<1>2. CountTypes'
  BY DEF TypeInv, TypeOK, CountTypes, Accept, session
<1>3. ThreadTypes' /\ MsgKnown'
  BY DEF TypeInv, TypeOK, ThreadTypes, MsgKnown, ChanStates, Accept, Goto, session
<1> QED BY <1>1, <1>2, <1>3 DEF TypeInv, TypeOK

LEMMA ClosesTyped == ASSUME TypeInv, NEW t \in Threads, ClientCloses(t) PROVE TypeInv'
<1>1. TrafficTypes' /\ DbTypeOK' /\ CountTypes' /\ ghosts' = ghosts
  BY QuietTraffic, QuietDb, QuietCounters, QuietCounts DEF ClientCloses, counters, session
<1>2. ThreadTypes' /\ MsgKnown'
  BY DEF TypeInv, TypeOK, ThreadTypes, MsgKnown, ClientCloses, session
<1> QED BY <1>1, <1>2 DEF TypeInv, TypeOK

LEMMA ReadNickTyped ==
    ASSUME TypeInv, NEW t \in Threads, NEW n \in Nicks, ReadNick(t, n) PROVE TypeInv'
<1>1. TrafficTypes' /\ DbTypeOK' /\ CountTypes' /\ ghosts' = ghosts
  BY QuietTraffic, QuietDb, QuietCounters, QuietCounts DEF ReadNick, counters
<1>2. ThreadTypes' /\ MsgKnown'
  BY QuietCounters
     DEF TypeInv, TypeOK, ThreadTypes, MsgKnown, ChanStates, ReadNick, Goto
<1> QED BY <1>1, <1>2 DEF TypeInv, TypeOK

LEMMA StoresTyped ==
    ASSUME TypeInv, NEW t \in Threads, StoreUserId(t) \/ StoreChannelId(t) \/ StoreJoinId(t)
    PROVE  TypeInv'
<1>1. uid[t] + 1 \in Nat /\ newid[t] + 1 \in Nat
  BY DEF TypeInv, TypeOK, ThreadTypes
<1>2. TrafficTypes' /\ DbTypeOK' /\ CountTypes' /\ ghosts' = ghosts
  BY <1>1, QuietTraffic, QuietDb, QuietCounters, QuietCounts
     DEF StoreUserId, StoreChannelId, StoreJoinId, session
<1>3. ThreadTypes' /\ MsgKnown'
  BY DEF TypeInv, TypeOK, ThreadTypes, MsgKnown, ChanStates, StoreUserId, StoreChannelId,
         StoreJoinId, Goto, session
<1> QED BY <1>2, <1>3 DEF TypeInv, TypeOK

LEMMA LoadsTyped ==
    ASSUME TypeInv, NEW t \in Threads, LoadChannelId(t) \/ LoadJoinId(t) PROVE TypeInv'
<1>1. TrafficTypes' /\ DbTypeOK' /\ CountTypes' /\ ghosts' = ghosts
  BY QuietTraffic, QuietDb, QuietCounters, QuietCounts DEF LoadChannelId, LoadJoinId, counters
<1>2. ThreadTypes' /\ MsgKnown'
  BY QuietCounters
     DEF TypeInv, TypeOK, ThreadTypes, MsgKnown, ChanStates, LoadChannelId, LoadJoinId, Goto
<1> QED BY <1>1, <1>2 DEF TypeInv, TypeOK

LEMMA RegisterTyped == ASSUME TypeInv, NEW t \in Threads, RegisterNick(t) PROVE TypeInv'
<1>1. TrafficTypes' /\ CountTypes' /\ ghosts' = ghosts
  BY QuietTraffic, QuietCounts DEF RegisterNick, session
<1>2. DbTypeOK'
  BY DEF TypeInv, TypeOK, DbTypeOK, ThreadTypes, RegisterNick, InsertUser, counters
<1>3. ThreadTypes' /\ MsgKnown'
  BY DEF TypeInv, TypeOK, ThreadTypes, MsgKnown, ChanStates, RegisterNick, Goto, session
<1> QED BY <1>1, <1>2, <1>3 DEF TypeInv, TypeOK

LEMMA RefuseTyped == ASSUME TypeInv, NEW t \in Threads, RefuseNick(t) PROVE TypeInv'
<1>1. TrafficTypes' /\ DbTypeOK' /\ ghosts' = ghosts
  BY QuietTraffic, QuietDb, QuietCounters DEF RefuseNick, counters
<1>2. CountTypes'
  <2>1. tries \in [Threads -> 0 .. NickTries - 1] /\ NickTries \in Nat
    BY ServerAssumption DEF TypeInv, TypeOK, CountTypes
  <2>2. tries[t] + 1 < NickTries /\ tries' = [tries EXCEPT ![t] = @ + 1]
    BY DEF RefuseNick, MayRetry
  <2>3. tries' \in [Threads -> 0 .. NickTries - 1]
    BY ONLY <2>1, <2>2, t \in Threads
  <2> QED BY <2>3 DEF TypeInv, TypeOK, CountTypes, RefuseNick, bounds
<1>3. ThreadTypes' /\ MsgKnown'
  BY ServerAssumption DEF TypeInv, TypeOK, ThreadTypes, MsgKnown, ChanStates, RefuseNick, Goto
<1> QED BY <1>1, <1>2, <1>3 DEF TypeInv, TypeOK

(* The end of a session, however it comes. *)
LEMMA EndTyped ==
    ASSUME TypeInv, NEW t \in Threads, EndSession(t), pc' = [pc EXCEPT ![t] = "accept"],
           users' \subseteq users, joined' \subseteq joined,
           ghosts' \subseteq [id : Nat, nick : Nicks],
           UNCHANGED <<channels, counters, mailboxes, bounds>>
    PROVE  TypeInv'
<1>1. NoMsg \in Messages
  BY ServerAssumption DEF NoMsg, Messages
<1>2. DbTypeOK'
  BY DEF TypeInv, TypeOK, DbTypeOK, counters
<1>3. ThreadTypes' /\ MsgKnown'
  BY <1>1, ServerAssumption
     DEF TypeInv, TypeOK, ThreadTypes, MsgKnown, ChanStates, EndSession
<1>4. TrafficTypes'
  <2>1. outbox \in [Threads -> Seq(Messages)]
    BY DEF TypeInv, TypeOK, TrafficTypes
  <2>2. outbox' = [outbox EXCEPT ![t] = <<>>] /\ <<>> \in Seq(Messages)
    BY EmptySeq DEF EndSession
  <2>3. outbox' \in [Threads -> Seq(Messages)]
    BY ONLY <2>1, <2>2
  <2> QED BY <2>3 DEF TypeInv, TypeOK, TrafficTypes
<1>5. CountTypes'
  <2>1. tries \in [Threads -> 0 .. NickTries - 1] /\ NickTries \in Nat \ {0}
    BY ServerAssumption DEF TypeInv, TypeOK, CountTypes
  <2>2. tries' \in [Threads -> 0 .. NickTries - 1]
    BY <2>1 DEF EndSession
  <2> QED BY <2>2 DEF TypeInv, TypeOK, CountTypes, bounds
<1> QED BY <1>2, <1>3, <1>4, <1>5 DEF TypeInv, TypeOK

LEMMA EndingsTyped ==
    ASSUME TypeInv, NEW t \in Threads,
           \/ NickReadFails(t) \/ GiveUpNick(t) \/ ReplyFails(t)
           \/ ReceiveQuit(t) \/ Disconnected(t)
    PROVE  TypeInv'
<1> USE DEF Goto, tables
<1>1. ghosts \subseteq [id : Nat, nick : Nicks] /\ Row(t) \in [id : Nat, nick : Nicks]
  BY DEF TypeInv, TypeOK, ThreadTypes, Row
<1>2. CASE NickReadFails(t) \/ GiveUpNick(t) \/ ReplyFails(t)
  BY <1>1, <1>2, EndTyped DEF NickReadFails, GiveUpNick, ReplyFails
<1>3. CASE ReceiveQuit(t) \/ Disconnected(t)
  BY <1>1, <1>3, EndTyped
     DEF ReceiveQuit, Disconnected, RemoveUser, DeleteMemberships, DeleteUsers
<1> QED BY <1>2, <1>3

LEMMA StartTyped == ASSUME TypeInv, NEW t \in Threads, StartSession(t) PROVE TypeInv'
<1>1. DbTypeOK' /\ CountTypes' /\ ghosts' = ghosts
  BY QuietDb, QuietCounters, QuietCounts DEF StartSession, counters, session
<1>2. [id |-> uid[t], lines |-> <<>>] \in Boxes
  BY EmptySeq DEF Boxes, TypeInv, TypeOK, ThreadTypes
<1>3. mailboxes' \in Seq(Boxes)
  <2> HIDE DEF Boxes
  <2> QED BY <1>2, BoxesTyped, AppendProperties DEF StartSession, TypeInv
<1>4. TrafficTypes'
  BY <1>3 DEF TypeInv, TypeOK, TrafficTypes, StartSession, Boxes
<1>5. ThreadTypes' /\ MsgKnown'
  BY DEF TypeInv, TypeOK, ThreadTypes, MsgKnown, ChanStates, StartSession, Goto, session
<1> QED BY <1>1, <1>4, <1>5 DEF TypeInv, TypeOK

LEMMA ReceiveTyped ==
    ASSUME TypeInv, NEW t \in Threads, NEW to \in Nicks \cup Channels,
           NEW kind \in {"chat", "chan", "exit"}, Receive(t, kind, to)
    PROVE  /\ msg' \in [Threads -> Messages] /\ sent' \in [Threads -> Nat]
           /\ msg'[t].kind = kind /\ msg'[t].to = to
           /\ \A u \in Threads \ {t} : msg'[u] = msg[u]
<1>1. sent[t] + 1 \in Nat /\ sent' \in [Threads -> Nat]
  BY DEF TypeInv, TypeOK, CountTypes, Receive
<1> DEFINE m == [kind |-> kind, src |-> t, n |-> sent[t] + 1, to |-> to]
<1>2. m \in Messages /\ m.kind = kind /\ m.to = to
  BY <1>1 DEF Messages
<1>3. msg \in [Threads -> Messages] /\ msg' = [msg EXCEPT ![t] = m]
  BY DEF TypeInv, TypeOK, ThreadTypes, Receive
<1> QED BY ONLY <1>1, <1>2, <1>3, t \in Threads

LEMMA ReceiveChatTyped ==
    ASSUME TypeInv, IdsBounded, NEW t \in Threads, NEW n \in Nicks \ {Empty},
           ReceiveChat(t, n)
    PROVE  TypeInv'
<1>1. TrafficTypes' /\ DbTypeOK' /\ ghosts' = ghosts
  BY QuietTraffic, QuietDb, QuietCounters DEF ReceiveChat, counters
<1>2. /\ msg' \in [Threads -> Messages] /\ sent' \in [Threads -> Nat]
      /\ msg'[t].kind = "chat"
      /\ \A u \in Threads \ {t} : msg'[u] = msg[u]
  BY ReceiveTyped DEF ReceiveChat
<1>3. CountTypes'
  BY <1>2 DEF TypeInv, TypeOK, CountTypes, ReceiveChat
<1>4. dests' \in [Threads -> SUBSET Entries]
  <2>1. CASE UsersLike(n) = {}
    BY <2>1 DEF TypeInv, TypeOK, ThreadTypes, ReceiveChat
  <2>2. CASE UsersLike(n) # {}
    <3>1. UserByNick(n) \in [id : Nat, nick : Nicks]
      BY <2>2, UserFound DEF TypeInv, TypeOK, DbTypeOK
    <3> DEFINE d == [userid |-> UserByNick(n).id, nick |-> UserByNick(n).nick, joinid |-> 0]
    <3>2. d \in Entries
      BY <3>1 DEF Entries
    <3>3. dests \in [Threads -> SUBSET Entries] /\ dests' = [dests EXCEPT ![t] = {d}]
      BY <2>2 DEF TypeInv, TypeOK, ThreadTypes, ReceiveChat
    <3> QED BY ONLY <3>2, <3>3
  <2> QED BY <2>1, <2>2
<1>5. /\ pc' \in [Threads -> {"accept", "nick", "u_store", "u_insert", "reply", "loop",
                              "reading", "no_user", "write", "c_load", "c_store", "c_insert",
                              "members", "j_load", "j_store", "j_insert", "snapshot", "deliver",
                              "pass"}]
      /\ pc'[t] \in {"no_user", "write"} /\ \A u \in Threads \ {t} : pc'[u] = pc[u]
  BY DEF TypeInv, TypeOK, ThreadTypes, ReceiveChat
<1>6. ThreadTypes'
  BY <1>2, <1>4, <1>5 DEF TypeInv, TypeOK, ThreadTypes, ReceiveChat
<1>7. MsgKnown'
  BY <1>2, <1>5 DEF TypeInv, MsgKnown, ChanStates, ReceiveChat
<1> QED BY <1>1, <1>3, <1>6, <1>7 DEF TypeInv, TypeOK

LEMMA ReceiveChanTyped ==
    ASSUME TypeInv, NEW t \in Threads, NEW c \in Channels, ReceiveChan(t, c)
    PROVE  TypeInv'
<1>1. TrafficTypes' /\ DbTypeOK' /\ ghosts' = ghosts
  BY QuietTraffic, QuietDb, QuietCounters DEF ReceiveChan, counters
<1>2. /\ msg' \in [Threads -> Messages] /\ sent' \in [Threads -> Nat]
      /\ msg'[t].kind = "chan" /\ msg'[t].to = c
      /\ \A u \in Threads \ {t} : msg'[u] = msg[u]
  BY ReceiveTyped DEF ReceiveChan
<1>3. CountTypes'
  BY <1>2 DEF TypeInv, TypeOK, CountTypes, ReceiveChan
<1>4. /\ asked' \in [Threads -> SUBSET Channels] /\ c \in asked'[t]
      /\ \A u \in Threads : asked[u] \subseteq asked'[u]
  BY DEF TypeInv, TypeOK, ThreadTypes, ReceiveChan
<1>5. ThreadTypes'
  BY <1>2, <1>4 DEF TypeInv, TypeOK, ThreadTypes, ReceiveChan
<1>6. pc'[t] # "write" /\ \A u \in Threads \ {t} : pc'[u] = pc[u]
  BY DEF TypeInv, TypeOK, ThreadTypes, ReceiveChan
<1>7. MsgKnown'
  BY <1>2, <1>4, <1>6 DEF TypeInv, MsgKnown, ChanStates
<1> QED BY <1>1, <1>3, <1>5, <1>7 DEF TypeInv, TypeOK

LEMMA ReceiveExitTyped ==
    ASSUME TypeInv, NEW t \in Threads, NEW c \in Channels, ReceiveExit(t, c)
    PROVE  TypeInv'
<1>1. TrafficTypes' /\ ghosts' = ghosts
  BY QuietTraffic DEF ReceiveExit
<1>2. DbTypeOK'
  BY DEF TypeInv, TypeOK, DbTypeOK, ReceiveExit, DeleteMembership, counters
<1>3. /\ msg' \in [Threads -> Messages] /\ sent' \in [Threads -> Nat]
      /\ \A u \in Threads \ {t} : msg'[u] = msg[u]
  BY ReceiveTyped DEF ReceiveExit
<1>4. CountTypes'
  BY <1>3 DEF TypeInv, TypeOK, CountTypes, ReceiveExit
<1>5. ThreadTypes'
  BY <1>3 DEF TypeInv, TypeOK, ThreadTypes, ReceiveExit
<1>6. pc'[t] = "deliver" /\ \A u \in Threads \ {t} : pc'[u] = pc[u]
  BY DEF TypeInv, TypeOK, ThreadTypes, ReceiveExit
<1>7. MsgKnown'
  BY <1>3, <1>6 DEF TypeInv, MsgKnown, ChanStates, ReceiveExit
<1> QED BY <1>1, <1>2, <1>4, <1>5, <1>7 DEF TypeInv, TypeOK

LEMMA SentTyped ==
    ASSUME TypeInv, NEW t \in Threads, NEW m \in Messages, Sent(t, m)
    PROVE  outbox' \in [Threads -> Seq(Messages)]
<1>1. outbox \in [Threads -> Seq(Messages)]
  BY DEF TypeInv, TypeOK, TrafficTypes
<1>2. Append(outbox[t], m) \in Seq(Messages)
  BY <1>1, AppendProperties
<1> QED BY <1>1, <1>2 DEF Sent

LEMMA AnswerTyped == ASSUME TypeInv, NEW t \in Threads, AnswerNoUser(t) PROVE TypeInv'
<1>1. DbTypeOK' /\ CountTypes' /\ ghosts' = ghosts
  BY QuietDb, QuietCounters, QuietCounts DEF AnswerNoUser, counters, session
<1>2. [msg[t] EXCEPT !.kind = "no_user"] \in Messages
  BY DEF TypeInv, TypeOK, ThreadTypes, Messages
<1>3. TrafficTypes'
  BY <1>2, SentTyped DEF TypeInv, TypeOK, TrafficTypes, AnswerNoUser
<1>4. ThreadTypes' /\ MsgKnown'
  BY DEF TypeInv, TypeOK, ThreadTypes, MsgKnown, ChanStates, AnswerNoUser, Goto, session
<1> QED BY <1>1, <1>3, <1>4 DEF TypeInv, TypeOK

LEMMA WriteToTyped ==
    ASSUME TypeInv, NEW t \in Threads, NEW d \in dests[t], WriteTo(t, d) PROVE TypeInv'
<1>1. DbTypeOK' /\ CountTypes' /\ ghosts' = ghosts
  BY QuietDb, QuietCounters, QuietCounts DEF WriteTo, counters
<1>2. msg[t] \in Messages /\ msg[t].kind \in {"chat", "chan"}
  BY DEF TypeInv, TypeOK, ThreadTypes, MsgKnown, WriteTo
<1>3. TrafficTypes'
  BY <1>2, WriteTyped DEF TypeInv, TypeOK, TrafficTypes, WriteTo, Boxes
<1>4. /\ pc' = [pc EXCEPT ![t] = "deliver"] \/ pc' = pc
      /\ dests' = [dests EXCEPT ![t] = @ \ {d}]
      /\ UNCHANGED <<open, nick, uid, msg, newid, asked>>
  BY DEF TypeInv, TypeOK, ThreadTypes, WriteTo
<1>5. ThreadTypes' /\ MsgKnown'
  BY <1>4 DEF TypeInv, TypeOK, ThreadTypes, MsgKnown, ChanStates
<1> QED BY <1>1, <1>3, <1>5 DEF TypeInv, TypeOK

LEMMA AddChannelTyped == ASSUME TypeInv, NEW t \in Threads, AddChannel(t) PROVE TypeInv'
<1>1. TrafficTypes' /\ CountTypes' /\ ghosts' = ghosts
  BY QuietTraffic, QuietCounts DEF AddChannel, session
<1>2. newid[t] \in Nat /\ msg[t].to \in Channels
  BY DEF TypeInv, TypeOK, ThreadTypes, MsgKnown, ChanStates, AddChannel, Goto
<1>3. DbTypeOK'
  BY <1>2 DEF TypeInv, TypeOK, DbTypeOK, AddChannel, InsertChannel, counters
<1>4. ThreadTypes' /\ MsgKnown'
  BY DEF TypeInv, TypeOK, ThreadTypes, MsgKnown, ChanStates, AddChannel, Goto, session
<1> QED BY <1>1, <1>3, <1>4 DEF TypeInv, TypeOK

LEMMA FindMemberTyped == ASSUME TypeInv, NEW t \in Threads, FindMember(t) PROVE TypeInv'
<1>1. TrafficTypes' /\ DbTypeOK' /\ CountTypes' /\ ghosts' = ghosts
  BY QuietTraffic, QuietDb, QuietCounters, QuietCounts DEF FindMember, counters, session
<1>2. ThreadTypes' /\ MsgKnown'
  BY DEF TypeInv, TypeOK, ThreadTypes, MsgKnown, ChanStates, FindMember, session
<1> QED BY <1>1, <1>2 DEF TypeInv, TypeOK

LEMMA JoinTyped == ASSUME TypeInv, NEW t \in Threads, JoinChannel(t) PROVE TypeInv'
<1>1. TrafficTypes' /\ CountTypes' /\ ghosts' = ghosts
  BY QuietTraffic, QuietCounts DEF JoinChannel, session
<1> DEFINE rows == JoinRows(newid[t], nick[t], msg[t].to)
<1>2. \A r \in rows : r \in [joinid : Nat, userid : Nat, channelid : Nat]
  BY DEF TypeInv, TypeOK, ThreadTypes, DbTypeOK, JoinRows, UsersLike, ChannelsLike
<1>3. joined' = joined \/ joined' = joined \cup rows
  BY DEF JoinChannel, InsertJoined
<1> HIDE DEF rows
<1>4. DbTypeOK'
  BY <1>2, <1>3 DEF TypeInv, TypeOK, DbTypeOK, JoinChannel, counters
<1>5. ThreadTypes' /\ MsgKnown'
  BY DEF TypeInv, TypeOK, ThreadTypes, MsgKnown, ChanStates, JoinChannel, Goto, session
<1> QED BY <1>1, <1>4, <1>5 DEF TypeInv, TypeOK

LEMMA ListTyped == ASSUME TypeInv, NEW t \in Threads, ListMembers(t) PROVE TypeInv'
<1>1. TrafficTypes' /\ DbTypeOK' /\ CountTypes' /\ ghosts' = ghosts
  BY QuietTraffic, QuietDb, QuietCounters, QuietCounts DEF ListMembers, counters
<1>2. Others(t, MembersOf(msg[t].to)) \subseteq Entries
  BY MembersTyped DEF TypeInv, Others
<1>3. /\ pc' = [pc EXCEPT ![t] = "deliver"] \/ pc' = [pc EXCEPT ![t] = "write"]
      /\ dests' = [dests EXCEPT ![t] = Others(t, MembersOf(msg[t].to))]
      /\ UNCHANGED <<open, nick, uid, msg, newid, asked>>
      /\ pc[t] = "snapshot"
  BY DEF ListMembers
<1>4. dests' \in [Threads -> SUBSET Entries]
  BY <1>2, <1>3 DEF TypeInv, TypeOK, ThreadTypes
<1>5. ThreadTypes' /\ MsgKnown'
  BY <1>3, <1>4 DEF TypeInv, TypeOK, ThreadTypes, MsgKnown, ChanStates
<1> QED BY <1>1, <1>5 DEF TypeInv, TypeOK

LEMMA DeliverTyped == ASSUME TypeInv, NEW t \in Threads, Deliver(t) PROVE TypeInv'
<1>1. DbTypeOK' /\ CountTypes' /\ ghosts' = ghosts
  BY QuietDb, QuietCounters, QuietCounts DEF Deliver, counters
<1>2. ThreadTypes' /\ MsgKnown'
  <2>1. PICK to \in {"loop", "pass"} : pc' = [pc EXCEPT ![t] = to]
    BY DEF Deliver
  <2>2. NoMsg \in Messages
    BY ServerAssumption DEF NoMsg, Messages
  <2> QED BY <2>1, <2>2 DEF TypeInv, TypeOK, ThreadTypes, MsgKnown, ChanStates, Deliver
<1>3. TrafficTypes'
  <2>1. CASE Mail(t) = <<>>
    BY <2>1 DEF TypeInv, TypeOK, TrafficTypes, Deliver
  <2>2. CASE Mail(t) # <<>>
    <3> DEFINE k == MailboxOf(uid[t])
    <3>1. Mail(t) \in Seq(Messages) /\ k \in DOMAIN mailboxes /\ Mail(t) = mailboxes[k].lines
      BY <2>2, MailTyped DEF TypeInv
    <3>2. Head(Mail(t)) \in Messages /\ Tail(Mail(t)) \in Seq(Messages)
      BY <2>2, <3>1, HeadTailProperties
    <3>3. outbox' \in [Threads -> Seq(Messages)]
      BY <2>2, <3>2, SentTyped DEF Deliver
    <3>4. mailboxes' = [mailboxes EXCEPT ![k].lines = Tail(@)]
      BY <2>2 DEF Deliver
    <3> HIDE DEF k
    <3>5. mailboxes[k] \in Boxes
      BY <3>1, BoxesTyped DEF TypeInv
    <3>6. [mailboxes[k] EXCEPT !.lines = Tail(mailboxes[k].lines)] \in Boxes
      BY <3>1, <3>2, <3>5 DEF Boxes
    <3>7. [mailboxes EXCEPT ![k] = [mailboxes[k] EXCEPT !.lines = Tail(mailboxes[k].lines)]]
              \in Seq(Boxes)
      <4> HIDE DEF Boxes
      <4> QED BY <3>1, <3>6, BoxesTyped, ExceptSeq DEF TypeInv
    <3>8. mailboxes' \in Seq(Boxes)
      BY <3>4, <3>7
    <3> QED BY <3>3, <3>8 DEF TypeInv, TypeOK, TrafficTypes, Deliver, Boxes
  <2> QED BY <2>1, <2>2
<1> QED BY <1>1, <1>2, <1>3 DEF TypeInv, TypeOK

LEMMA WaitTyped == ASSUME TypeInv, NEW t \in Threads, WaitStep(t) PROVE TypeInv'
<1> USE DEF WaitStep, ReadPart, BodyEnds, PassMessage
<1>1. TrafficTypes' /\ DbTypeOK' /\ ghosts' = ghosts
  BY QuietTraffic, QuietDb, QuietCounters DEF counters
<1>2. CountTypes'
  BY DEF TypeInv, TypeOK, CountTypes, session, bounds
<1>3. ThreadTypes' /\ MsgKnown'
  BY DEF TypeInv, TypeOK, ThreadTypes, MsgKnown, ChanStates, Goto, session
<1> QED BY <1>1, <1>2, <1>3 DEF TypeInv, TypeOK

LEMMA CrashTyped == ASSUME TypeInv, NEW t \in Threads, Crash(t) PROVE TypeInv'
<1>1. DbTypeOK'
  <2>1. next_user_id' \in Nat /\ next_channel_id' \in Nat /\ next_join_id' \in Nat
    BY DEF TypeInv, TypeOK, DbTypeOK, Crash, LoadCounters, PastKeys
  <2> QED BY <2>1, QuietDb DEF Crash
<1>2. NoMsg \in Messages /\ <<>> \in Seq(Messages)
  BY ServerAssumption, EmptySeq DEF NoMsg, Messages
<1>3. ThreadTypes' /\ MsgKnown'
  BY <1>2, ServerAssumption DEF ThreadTypes, MsgKnown, ChanStates, Crash
<1>4. TrafficTypes'
  <2>1. mailboxes' = <<>> /\ <<>> \in Seq(Boxes)
    BY EmptySeq DEF Crash
  <2>2. outbox' \in [Threads -> Seq(Messages)]
    BY <1>2 DEF Crash
  <2> QED BY <2>1, <2>2 DEF TypeInv, TypeOK, TrafficTypes, Boxes
<1>5. CountTypes'
  <2>1. NickTries \in Nat \ {0} /\ tries' = [u \in Threads |-> 0]
    BY ServerAssumption DEF Crash
  <2>2. tries' \in [Threads -> 0 .. NickTries - 1]
    BY ONLY <2>1
  <2> QED BY <2>2 DEF TypeInv, TypeOK, CountTypes, Crash
<1>6. ghosts' \subseteq [id : Nat, nick : Nicks]
  BY DEF TypeInv, TypeOK, DbTypeOK, Crash
<1> QED BY <1>1, <1>3, <1>4, <1>5, <1>6 DEF TypeInv, TypeOK

LEMMA NextTypeInv == ASSUME TypeInv, IdsBounded, [Next]_vars PROVE TypeInv'
<1>1. CASE UNCHANGED vars
  BY <1>1
     DEF vars, tables, counters, session, traffic, bounds, TypeInv, TypeOK, DbTypeOK,
         ThreadTypes, TrafficTypes, CountTypes, MsgKnown
<1>2. ASSUME NEW t \in Threads, Step(t) PROVE TypeInv'
  <2>1. CASE SessionStep(t)
    <3>1. CASE StartSession(t) \/ AnswerNoUser(t) \/ \E d \in dests[t] : WriteTo(t, d)
      BY <3>1, StartTyped, AnswerTyped, WriteToTyped
    <3>2. CASE LoadChannelId(t) \/ StoreChannelId(t) \/ AddChannel(t) \/ FindMember(t)
      BY <3>2, LoadsTyped, StoresTyped, AddChannelTyped, FindMemberTyped
    <3>3. CASE \/ LoadJoinId(t) \/ StoreJoinId(t) \/ JoinChannel(t) \/ ListMembers(t)
               \/ Deliver(t) \/ WaitStep(t)
      BY <3>3, LoadsTyped, StoresTyped, JoinTyped, ListTyped, DeliverTyped, WaitTyped
    <3>4. CASE \E n \in Nicks \ {Empty} : ReceiveChat(t, n)
      BY <3>4, ReceiveChatTyped
    <3>5. CASE \E c \in Channels : ReceiveChan(t, c) \/ ReceiveExit(t, c)
      BY <3>5, ReceiveChanTyped, ReceiveExitTyped
    <3> QED BY <2>1, <3>1, <3>2, <3>3, <3>4, <3>5 DEF SessionStep
  <2>2. CASE NickStep(t)
    BY <2>2, AcceptTyped, ReadNickTyped, EndingsTyped, StoresTyped, RefuseTyped DEF NickStep
  <2>3. CASE RegisterNick(t) \/ ClientCloses(t)
    BY <2>3, RegisterTyped, ClosesTyped
  <2>4. CASE ReplyFails(t) \/ ReceiveQuit(t) \/ Disconnected(t)
    BY <2>4, EndingsTyped
  <2> QED BY <1>2, <2>1, <2>2, <2>3, <2>4, NextCases
<1>4. ASSUME NEW t \in Threads, Crash(t) PROVE TypeInv'
  BY <1>4, CrashTyped
<1> QED BY <1>1, <1>2, <1>4 DEF Next

LEMMA TypedSession == ASSUME TypeInv PROVE SessTypes
BY DEF TypeInv, TypeOK, DbTypeOK, ThreadTypes, SessTypes, BeforeSession, InSession

LEMMA NextIdsBounded == ASSUME TypeInv, IdsBounded, [Next]_vars PROVE IdsBounded'
<1>1. CASE users' \subseteq users
  BY <1>1 DEF IdsBounded
<1>2. ASSUME NEW t \in Threads, users' = users \cup {Row(t)} PROVE IdsBounded'
  <2>1. PICK b \in Nat : \A u \in users : u.id <= b
    BY DEF IdsBounded
  <2>2. users \subseteq [id : Nat, nick : Nicks] /\ uid[t] \in Nat
    BY TypedSession DEF SessTypes
  <2>3. b + uid[t] \in Nat /\ \A u \in users' : u.id <= b + uid[t]
    BY <1>2, <2>1, <2>2 DEF Row
  <2> QED BY <2>3 DEF IdsBounded
<1>3. ASSUME NEW t \in Threads, Step(t) PROVE IdsBounded'
  <2>1. CASE SessionStep(t) \/ NickStep(t)
    BY <1>1, <2>1, TypedSession, SessionStepKeeps, NickStepKeeps
  <2>2. CASE RegisterNick(t)
    BY <1>1, <1>2, <2>2 DEF RegisterNick, InsertUser, Row, tables
  <2>3. CASE ReplyFails(t) \/ ClientCloses(t)
    BY <1>1, <2>3 DEF ReplyFails, ClientCloses, tables
  <2>4. CASE ReceiveQuit(t) \/ Disconnected(t)
    BY <1>1, <2>4 DEF ReceiveQuit, Disconnected, RemoveUser, DeleteUsers
  <2> QED BY <1>3, <2>1, <2>2, <2>3, <2>4, NextCases
<1>4. CASE UNCHANGED vars \/ \E t \in Threads : Crash(t)
  BY <1>1, <1>4 DEF vars, Crash, tables
<1> QED BY <1>3, <1>4 DEF Next

(* The types hold whatever LIKE matches. *)
THEOREM TypeInvariance == Spec => []TypeInv
<1>1. Init => TypeInv /\ IdsBounded
  BY InitTypeInv DEF Init, DbInit, IdsBounded
<1>2. TypeInv /\ IdsBounded /\ [Next]_vars => TypeInv' /\ IdsBounded'
  BY NextTypeInv, NextIdsBounded
<1> QED BY <1>1, <1>2, PTL DEF Spec

(* Type correctness of the server: rows, locals, mailboxes and counts, the *)
(* number of refused proposals among them, however many rows a look-up     *)
(* with LIKE may find.                                                     *)
THEOREM ServerTypes == Spec => []TypeOK
BY TypeInvariance, PTL DEF TypeInv

-----------------------------------------------------------------------------
(* Channels *)

JoinedHaveUsers == \A j \in joined : \E u \in users : u.id = j.userid

MemberInv == JoinedHaveUsers /\ MembershipsAreAskedFor

(* Steps that join nobody and give no row away. *)
LEMMA KeepsMembers ==
    ASSUME MemberInv, joined' \subseteq joined, channels \subseteq channels', users \subseteq users',
           \A u \in Threads : Live(u)' => Live(u) /\ uid'[u] = uid[u] /\ asked[u] \subseteq asked'[u]
    PROVE  MemberInv'
BY DEF MemberInv, JoinedHaveUsers, MembershipsAreAskedFor

LEMMA SessionMembers ==
    ASSUME MemberInv, TypeInv, SessInv, NEW t \in Threads, SessionStep(t), ~JoinChannel(t)
    PROVE  MemberInv'
<1> USE DEF SessInv, SessTypes
<1>1. UNCHANGED <<users, uid>> /\ \A u \in Threads : Live(u)' => Live(u)
  <2>1. PICK to \in InSession : pc' = [pc EXCEPT ![t] = to]
    BY SessionStepKeeps
  <2>2. UNCHANGED <<users, uid>> /\ pc[t] \in InSession
    BY SessionStepKeeps
  <2> QED BY <2>1, <2>2 DEF Live, InSession
<1>2. joined' \subseteq joined /\ channels \subseteq channels'
  BY DEF SessionStep, StartSession, AnswerNoUser, WriteTo, LoadChannelId, StoreChannelId,
         AddChannel, InsertChannel, FindMember, LoadJoinId, StoreJoinId, ListMembers, Deliver,
         ReceiveChat, ReceiveChan, ReceiveExit, DeleteMembership, WaitStep, ReadPart, BodyEnds,
         PassMessage, tables
<1>3. \A u \in Threads : asked[u] \subseteq asked'[u]
  <2>1. CASE \E c \in Channels : ReceiveChan(t, c)
    BY <2>1 DEF ReceiveChan, TypeInv, TypeOK, ThreadTypes
  <2>2. CASE ~\E c \in Channels : ReceiveChan(t, c)
    <3>1. asked' = asked
      BY <2>2
         DEF SessionStep, StartSession, AnswerNoUser, WriteTo, LoadChannelId, StoreChannelId,
             AddChannel, FindMember, LoadJoinId, StoreJoinId, ListMembers, Deliver, ReceiveChat,
             ReceiveExit, WaitStep, ReadPart, BodyEnds, PassMessage
    <3> QED BY <3>1
  <2> QED BY <2>1, <2>2
<1> QED BY <1>1, <1>2, <1>3, KeepsMembers

LEMMA NickMembers ==
    ASSUME MemberInv, TypeInv, SessInv, NEW t \in Threads, NickStep(t) PROVE MemberInv'
<1> USE DEF SessInv, SessTypes
<1>1. PICK to \in BeforeSession, n \in Nicks, i \in Nat :
          /\ pc' = [pc EXCEPT ![t] = to]
          /\ nick' = [nick EXCEPT ![t] = n]
          /\ uid' = [uid EXCEPT ![t] = i]
  BY NickStepKeeps
<1>2. UNCHANGED users /\ pc[t] \in BeforeSession
  BY NickStepKeeps
<1>3. UNCHANGED <<channels, joined>> /\ \A u \in Threads \ {t} : asked'[u] = asked[u]
  BY DEF NickStep, Accept, ReadNick, NickReadFails, StoreUserId, RefuseNick, GiveUpNick,
         EndSession, tables, TypeInv, TypeOK, ThreadTypes
<1>4. \A u \in Threads : Live(u)' => Live(u) /\ u # t
  BY <1>1, <1>2 DEF Live, BeforeSession
<1> QED BY <1>1, <1>2, <1>3, <1>4, KeepsMembers

(* Nobody is a member under an id that no row of users has. *)
LEMMA RegisterMembers ==
    ASSUME MemberInv, TypeInv, SessInv, NEW t \in Threads, RegisterNick(t) PROVE MemberInv'
<1>1. \A u \in users : u.id # uid[t]
  BY DEF RegisterNick, UserFits
<1>2. \A j \in joined : j.userid # uid[t]
  BY <1>1 DEF MemberInv, JoinedHaveUsers
<1>3. users \subseteq users' /\ UNCHANGED <<joined, channels, uid, asked>>
  BY DEF RegisterNick, InsertUser, session
<1>4. \A u \in Threads \ {t} : Live(u)' => Live(u)
  BY DEF RegisterNick, Goto, Live, SessInv, SessTypes
<1> QED
  BY <1>2, <1>3, <1>4 DEF MemberInv, JoinedHaveUsers, MembershipsAreAskedFor

LEMMA ReplyMembers ==
    ASSUME MemberInv, TypeInv, SessInv, NEW t \in Threads, ReplyFails(t) PROVE MemberInv'
<1>1. UNCHANGED tables /\ EndSession(t) /\ pc' = [pc EXCEPT ![t] = "accept"] /\ Live(t)
  BY DEF ReplyFails, Goto, Live
<1>2. \A u \in Threads : Live(u)' => Live(u) /\ u # t /\ uid'[u] = uid[u]
  BY <1>1, EndedSession DEF SessInv
<1>3. \A u \in Threads \ {t} : asked'[u] = asked[u]
  BY <1>1 DEF EndSession, TypeInv, TypeOK, ThreadTypes
<1> QED BY <1>1, <1>2, <1>3, KeepsMembers DEF tables

LEMMA RemovalMembers ==
    ASSUME MemberInv, TypeInv, SessInv, Exact, NEW t \in Threads,
           ReceiveQuit(t) \/ Disconnected(t)
    PROVE  MemberInv'
<1>1. /\ Reads(t) /\ pc' = [pc EXCEPT ![t] = "accept"] /\ EndSession(t) /\ UNCHANGED channels
      /\ DeleteMemberships(nick[t]) /\ DeleteUsers(nick[t])
  BY DEF ReceiveQuit, Disconnected, RemoveUser
<1>2. Live(t) /\ pc' = [pc EXCEPT ![t] = "accept"]
  BY <1>1 DEF Reads, Live
<1>3. \A u \in Threads : Live(u)' => Live(u) /\ u # t /\ uid'[u] = uid[u]
  BY <1>1, <1>2, EndedSession DEF SessInv
<1>4. \A u \in Threads \ {t} : asked'[u] = asked[u]
  BY <1>1 DEF EndSession, TypeInv, TypeOK, ThreadTypes
<1>5. JoinedHaveUsers'
  <2>1. ASSUME NEW j \in joined' PROVE \E u \in users' : u.id = j.userid
    <3>1. j \in joined /\ ~\E u \in UsersLike(nick[t]) : u.id = j.userid
      BY <1>1, <2>1 DEF DeleteMemberships
    <3>2. PICK u \in users : u.id = j.userid
      BY <3>1 DEF MemberInv, JoinedHaveUsers
    <3>3. u \in users'
      BY <1>1, <3>1, <3>2 DEF DeleteUsers
    <3> QED BY <3>2, <3>3
  <2> QED BY <2>1 DEF JoinedHaveUsers
<1>6. joined' \subseteq joined
  BY <1>1 DEF DeleteMemberships
<1>7. MembershipsAreAskedFor'
  BY <1>1, <1>3, <1>4, <1>6 DEF MemberInv, MembershipsAreAskedFor
<1> QED BY <1>5, <1>7 DEF MemberInv

(* A join makes the session itself a member of the channel it asked for. *)
LEMMA JoinMembers ==
    ASSUME MemberInv, TypeInv, SessInv, Exact, NEW t \in Threads, JoinChannel(t)
    PROVE  MemberInv'
<1> DEFINE rows == JoinRows(newid[t], nick[t], msg[t].to)
<1>1. joined' = joined \/ joined' = joined \cup rows
  BY DEF JoinChannel, InsertJoined
<1>2. Live(t) /\ pc[t] = "j_insert" /\ pc' = [pc EXCEPT ![t] = "snapshot"]
  BY DEF JoinChannel, Goto, Live
<1>3. UNCHANGED <<users, channels, uid, nick, asked>>
  BY DEF JoinChannel, session
<1>4. msg[t].to \in asked[t] /\ msg[t].to \in Channels
  BY <1>2 DEF TypeInv, MsgKnown, ChanStates
<1>5. Row(t) \in users
  BY <1>2 DEF SessInv, SessionsAreRows
<1>6. \A u \in UsersLike(nick[t]) : u = Row(t)
  BY <1>5 DEF UsersLike, Exact, SessInv, SessTypes, UserKeys, Row
<1>7. \A ch \in ChannelsLike(msg[t].to) : ch \in channels /\ ch.name = msg[t].to
  BY <1>4 DEF ChannelsLike, Exact, TypeInv, TypeOK, DbTypeOK
<1>8. \A r \in rows : r.userid = uid[t] /\ \E ch \in channels : ch.id = r.channelid /\ ch.name \in asked[t]
  <2>1. \A r \in rows : \E u \in UsersLike(nick[t]), ch \in ChannelsLike(msg[t].to) :
            r.userid = u.id /\ r.channelid = ch.id
    BY DEF JoinRows
  <2> HIDE DEF rows
  <2> QED BY <1>4, <1>6, <1>7, <2>1 DEF Row
<1> HIDE DEF rows
<1>9. JoinedHaveUsers'
  <2>1. \A r \in rows : \E u \in users : u.id = r.userid
    BY <1>5, <1>8 DEF Row
  <2> QED BY <1>1, <1>3, <2>1 DEF MemberInv, JoinedHaveUsers
<1>10. \A u \in Threads : Live(u)' => Live(u)
  BY <1>2 DEF Live, SessInv, SessTypes
<1>11. \A u \in Threads : Live(u) /\ uid[u] = uid[t] => u = t
  BY <1>2 DEF SessInv, SessionsAreRows
<1>12. MembershipsAreAskedFor'
  BY <1>1, <1>3, <1>8, <1>10, <1>11 DEF MemberInv, MembershipsAreAskedFor
<1> QED BY <1>9, <1>12 DEF MemberInv

LEMMA NextMemberInv ==
    ASSUME MemberInv, TypeInv, SessInv, Exact, [Next]_vars PROVE MemberInv'
<1>1. CASE UNCHANGED vars
  BY <1>1 DEF vars, tables, session, MemberInv, JoinedHaveUsers, MembershipsAreAskedFor, Live
<1>2. ASSUME NEW t \in Threads, Step(t) PROVE MemberInv'
  <2>1. CASE ClientCloses(t)
    BY <2>1
       DEF ClientCloses, tables, session, MemberInv, JoinedHaveUsers, MembershipsAreAskedFor, Live
  <2> QED
    BY <1>2, <2>1, NextCases, SessionMembers, NickMembers, RegisterMembers, ReplyMembers,
       RemovalMembers, JoinMembers
<1>3. ASSUME NEW t \in Threads, Crash(t) PROVE MemberInv'
  <2>1. UNCHANGED tables /\ \A u \in Threads : ~Live(u)'
    BY <1>3 DEF Crash, Live
  <2> QED BY <2>1, KeepsMembers DEF tables
<1> QED BY <1>1, <1>2, <1>3 DEF Next

(* Memberships have users, and nobody inherits one. *)
THEOREM MemberInvariance == ASSUME Exact PROVE Spec => []MemberInv
<1>1. Init => MemberInv
  BY DEF Init, DbInit, MemberInv, JoinedHaveUsers, MembershipsAreAskedFor
<1>2. MemberInv /\ TypeInv /\ SessInv /\ [Next]_vars => MemberInv'
  BY NextMemberInv
<1>3. Spec => []SessInv
  BY SessInvariance
<1>4. Spec => []TypeInv
  BY TypeInvariance
<1> QED BY <1>1, <1>2, <1>3, <1>4, PTL DEF Spec

(* No session is a member of a channel its client has not asked for, for   *)
(* any number of threads, and although the ids of users come again.        *)
THEOREM MembersAsked == ASSUME Exact PROVE Spec => []MembershipsAreAskedFor
BY MemberInvariance, PTL DEF MemberInv

-----------------------------------------------------------------------------
(* Echoes *)

(* Nobody but the thread itself changes what it is handling. *)
LEMMA OthersRest ==
    ASSUME TypeInv, SessInv, NEW t \in Threads, Step(t),
           NEW u \in Threads, u # t
    PROVE  UNCHANGED <<pc[u], msg[u], dests[u], uid[u]>>
<1> USE DEF TypeInv, TypeOK, ThreadTypes, Goto, EndSession, session
<1>1. CASE ~SessionStep(t)
  <2>1. CASE NickStep(t)
    BY <2>1 DEF NickStep, Accept, ReadNick, NickReadFails, StoreUserId, RefuseNick, GiveUpNick
  <2>2. CASE RegisterNick(t) \/ ReplyFails(t) \/ ClientCloses(t) \/ ReceiveQuit(t) \/ Disconnected(t)
    BY <2>2 DEF RegisterNick, ReplyFails, ClientCloses, ReceiveQuit, Disconnected
  <2> QED BY <1>1, <2>1, <2>2, NextCases
<1>2. CASE SessionStep(t)
  <2>1. CASE StartSession(t) \/ AnswerNoUser(t) \/ LoadChannelId(t) \/ StoreChannelId(t) \/ AddChannel(t)
    BY <2>1 DEF StartSession, AnswerNoUser, LoadChannelId, StoreChannelId, AddChannel
  <2>2. CASE FindMember(t) \/ LoadJoinId(t) \/ StoreJoinId(t) \/ JoinChannel(t) \/ ListMembers(t)
    BY <2>2 DEF FindMember, LoadJoinId, StoreJoinId, JoinChannel, ListMembers
  <2>3. CASE Deliver(t) \/ \E d \in dests[t] : WriteTo(t, d)
    BY <2>3 DEF Deliver, WriteTo
  <2>4. CASE \/ \E n \in Nicks \ {Empty} : ReceiveChat(t, n)
             \/ \E c \in Channels : ReceiveChan(t, c) \/ ReceiveExit(t, c)
    BY <2>4 DEF ReceiveChat, ReceiveChan, ReceiveExit, Receive
  <2>5. CASE WaitStep(t)
    BY <2>5 DEF WaitStep, ReadPart, BodyEnds, PassMessage
  <2> QED BY <1>2, <2>1, <2>2, <2>3, <2>4, <2>5 DEF SessionStep
<1> QED BY <1>1, <1>2

(* The only steps after which a thread writes a channel message. *)
LEMMA WritesChan ==
    ASSUME TypeInv, SessInv, NEW t \in Threads, Step(t),
           pc'[t] = "write", msg'[t].kind = "chan"
    PROVE  ClientCloses(t) \/ ListMembers(t) \/ \E d \in dests[t] : WriteTo(t, d)
<1> USE DEF TypeInv, TypeOK, ThreadTypes, Goto
<1>1. CASE NickStep(t)
  BY <1>1 DEF NickStep, Accept, ReadNick, NickReadFails, StoreUserId, RefuseNick, GiveUpNick
<1>2. CASE RegisterNick(t) \/ ReplyFails(t) \/ ReceiveQuit(t) \/ Disconnected(t)
  BY <1>2 DEF RegisterNick, ReplyFails, ReceiveQuit, Disconnected
<1>3. CASE StartSession(t) \/ AnswerNoUser(t) \/ LoadChannelId(t) \/ StoreChannelId(t) \/ AddChannel(t)
  BY <1>3 DEF StartSession, AnswerNoUser, LoadChannelId, StoreChannelId, AddChannel
<1>4. CASE FindMember(t) \/ LoadJoinId(t) \/ StoreJoinId(t) \/ JoinChannel(t) \/ Deliver(t)
  BY <1>4 DEF FindMember, LoadJoinId, StoreJoinId, JoinChannel, Deliver
<1>5. CASE \E n \in Nicks \ {Empty} : ReceiveChat(t, n)
  BY <1>5, ReceiveTyped DEF ReceiveChat
<1>6. CASE \E c \in Channels : ReceiveChan(t, c) \/ ReceiveExit(t, c)
  BY <1>6 DEF ReceiveChan, ReceiveExit
<1>7. CASE WaitStep(t)
  BY <1>7 DEF WaitStep, ReadPart, BodyEnds, PassMessage
<1> QED BY <1>1, <1>2, <1>3, <1>4, <1>5, <1>6, <1>7, NextCases DEF SessionStep

(* Who has another nick has another id, at the time the list is read. *)
LEMMA OthersHaveOtherIds ==
    ASSUME TypeInv, SessInv, NEW t \in Threads, Live(t), NEW c, NEW d \in Others(t, MembersOf(c))
    PROVE  d.userid # uid[t]
<1>1. d \in MembersOf(c) /\ d.nick # nick[t]
  BY DEF Others
<1>2. PICK u \in users : d.userid = u.id /\ d.nick = u.nick
  BY <1>1 DEF MembersOf
<1>3. Row(t) \in users
  BY DEF SessInv, SessionsAreRows
<1> QED BY <1>1, <1>2, <1>3 DEF SessInv, UserKeys, Row

LEMMA NextNoEcho == ASSUME NoEcho, TypeInv, SessInv, [Next]_vars PROVE NoEcho'
<1>1. CASE UNCHANGED vars
  BY <1>1 DEF vars, session, NoEcho
<1>2. ASSUME NEW t \in Threads, Step(t) PROVE NoEcho'
  <2>1. ASSUME NEW u \in Threads, u # t, pc'[u] = "write", msg'[u].kind = "chan",
               NEW d \in dests'[u]
        PROVE  d.userid # uid'[u]
    BY <1>2, <2>1, OthersRest DEF NoEcho
  <2>2. ASSUME pc'[t] = "write", msg'[t].kind = "chan", NEW d \in dests'[t]
        PROVE  d.userid # uid'[t]
    <3>1. CASE ClientCloses(t)
      BY <2>2, <3>1 DEF ClientCloses, session, NoEcho
    <3>2. CASE ListMembers(t)
      <4>1. Live(t) /\ uid' = uid /\ dests'[t] = Others(t, MembersOf(msg[t].to))
        BY <3>2 DEF ListMembers, Live, TypeInv, TypeOK, ThreadTypes
      <4> QED BY <2>2, <4>1, OthersHaveOtherIds
    <3>3. CASE \E e \in dests[t] : WriteTo(t, e)
      BY <2>2, <3>3 DEF WriteTo, NoEcho, TypeInv, TypeOK, ThreadTypes
    <3> QED BY <1>2, <2>2, <3>1, <3>2, <3>3, WritesChan
  <2> QED BY <2>1, <2>2 DEF NoEcho
<1>3. ASSUME NEW t \in Threads, Crash(t) PROVE NoEcho'
  BY <1>3 DEF Crash, NoEcho
<1> QED BY <1>1, <1>2, <1>3 DEF Next

(* A channel message does not come back to its sender: between the reading *)
(* of the list and the last write no id changes hands to the sender.       *)
THEOREM NoEchoes == ASSUME Exact PROVE Spec => []NoEcho
<1>1. Init => NoEcho
  BY DEF Init, NoEcho
<1>2. NoEcho /\ TypeInv /\ SessInv /\ [Next]_vars => NoEcho'
  BY NextNoEcho
<1>3. Spec => []SessInv
  BY SessInvariance
<1>4. Spec => []TypeInv
  BY TypeInvariance
<1> QED BY <1>1, <1>2, <1>3, <1>4, PTL DEF Spec

-----------------------------------------------------------------------------
(* The order of lines *)

Elems(q) == {q[k] : k \in DOMAIN q}

(* The mailbox a search of the list q finds, and its lines. *)
FirstOf(q, i) ==
    LET found == {k \in DOMAIN q : q[k].id = i}
    IN  IF found = {} THEN 0 ELSE CHOOSE k \in found : \A l \in found : k <= l
LinesIn(q, i) == IF FirstOf(q, i) = 0 THEN <<>> ELSE q[FirstOf(q, i)].lines

Before(x, y) == x.src = y.src /\ "no_user" \notin {x.kind, y.kind} => x.n < y.n

(* What a thread handles, and to whom it may still write it. *)
Handling == ChanStates \cup {"write"}
Pending(u, i) == pc[u] \in ChanStates \/ (pc[u] = "write" /\ \E d \in dests[u] : d.userid = i)

Numbered == \A u \in Threads : pc[u] \in Handling => msg[u].src = u /\ msg[u].n = sent[u]

(* No entry of the list of members is left of a user already written to. *)
OneEntryEach ==
    \A u \in Threads : pc[u] = "write" => \A d, e \in dests[u] : d.userid = e.userid => d = e

(* x, in the mailbox of i or sent to its client, is not newer than what    *)
(* its sender received last, and older than what it has still to write.    *)
NotLater(x, i) ==
    x.kind # "no_user" =>
        \A u \in Threads : x.src = u => x.n <= sent[u] /\ (Pending(u, i) => x.n < sent[u])

BoxesInOrder ==
    \A i \in Nat : /\ InOrder(LinesIn(mailboxes, i))
                   /\ \A x \in Elems(LinesIn(mailboxes, i)) : NotLater(x, i)

(* What is left in the mailbox comes after what the client was sent. *)
SentInOrder ==
    \A t \in Threads, i \in Nat :
        /\ InOrder(outbox[t])
        /\ ~Live(t) => outbox[t] = <<>>
        /\ uid[t] = i =>
              \A x \in Elems(outbox[t]) :
                  /\ NotLater(x, i)
                  /\ \A y \in Elems(LinesIn(mailboxes, i)) : Before(x, y)

OrderInv == KeysUnique /\ Numbered /\ OneEntryEach /\ BoxesInOrder /\ SentInOrder

-----------------------------------------------------------------------------
(* Sequences of lines, and lists of mailboxes. *)

LEMMA InOrderPairs ==
    ASSUME NEW q
    PROVE  InOrder(q) <=> \A i, j \in DOMAIN q : i < j => Before(q[i], q[j])
BY DEF InOrder, Before

LEMMA AppendSlots ==
    ASSUME NEW S, NEW q \in Seq(S), NEW m \in S
    PROVE  \E n \in Nat : /\ DOMAIN q = 1 .. n /\ DOMAIN Append(q, m) = 1 .. n + 1
                          /\ \A k \in 1 .. n : Append(q, m)[k] = q[k]
                          /\ Append(q, m)[n + 1] = m
<1>1. /\ Append(q, m) \in Seq(S) /\ Len(Append(q, m)) = Len(q) + 1
      /\ \A k \in 1 .. Len(q) : Append(q, m)[k] = q[k]
      /\ Append(q, m)[Len(q) + 1] = m
  BY AppendProperties
<1>2. DOMAIN Append(q, m) = 1 .. Len(Append(q, m)) /\ DOMAIN q = 1 .. Len(q) /\ Len(q) \in Nat
  BY <1>1, LenProperties
<1> QED BY ONLY <1>1, <1>2

LEMMA AppendKeepsOrder ==
    ASSUME NEW S, NEW q \in Seq(S), NEW m \in S
    PROVE  /\ Elems(Append(q, m)) = Elems(q) \cup {m}
           /\ InOrder(q) /\ (\A x \in Elems(q) : Before(x, m)) => InOrder(Append(q, m))
<1> DEFINE r == Append(q, m)
<1>1. PICK n \in Nat : /\ DOMAIN q = 1 .. n /\ DOMAIN r = 1 .. n + 1
                       /\ \A k \in 1 .. n : r[k] = q[k]
                       /\ r[n + 1] = m
  BY AppendSlots
<1> HIDE DEF r
<1>2. 1 .. n + 1 = (1 .. n) \cup {n + 1}
  BY ONLY n \in Nat
<1>3. Elems(r) = Elems(q) \cup {m}
  BY ONLY <1>1, <1>2 DEF Elems
<1>4. ASSUME InOrder(q), \A x \in Elems(q) : Before(x, m) PROVE InOrder(r)
  <2> SUFFICES ASSUME NEW i \in 1 .. n + 1, NEW j \in 1 .. n + 1, i < j
               PROVE  Before(r[i], r[j])
    BY <1>1, InOrderPairs
  <2>1. i \in 1 .. n
    OBVIOUS
  <2>2. CASE j = n + 1
    BY <1>1, <1>4, <2>1, <2>2 DEF Elems
  <2>3. CASE j # n + 1
    <3>1. j \in 1 .. n
      BY <2>3
    <3> QED BY <1>1, <1>4, <2>1, <3>1, InOrderPairs
  <2> QED BY <2>2, <2>3
<1> QED BY <1>3, <1>4 DEF r

LEMMA TailKeepsOrder ==
    ASSUME NEW S, NEW q \in Seq(S), q # <<>>
    PROVE  /\ Head(q) \in Elems(q) /\ Elems(Tail(q)) \subseteq Elems(q)
           /\ InOrder(q) => InOrder(Tail(q)) /\ \A y \in Elems(Tail(q)) : Before(Head(q), y)
<1> DEFINE r == Tail(q)
<1>1. /\ r \in Seq(S) /\ Len(r) = Len(q) - 1 /\ Len(q) \in Nat /\ Len(q) >= 1
      /\ Head(q) = q[1] /\ \A k \in 1 .. Len(r) : r[k] = q[k + 1]
  BY HeadTailProperties, LenProperties, EmptySeq
<1>2. PICK n \in Nat : n = Len(r)
  BY <1>1, LenProperties
<1>3. /\ DOMAIN r = 1 .. n /\ DOMAIN q = 1 .. n + 1 /\ Head(q) = q[1]
      /\ \A k \in 1 .. n : r[k] = q[k + 1]
  <2>1. DOMAIN r = 1 .. Len(r) /\ DOMAIN q = 1 .. Len(q)
    BY <1>1, LenProperties
  <2>2. Len(q) = n + 1
    BY <1>1, <1>2
  <2> QED BY <1>1, <1>2, <2>1, <2>2
<1> HIDE DEF r
<1>4. \A k \in 1 .. n : k + 1 \in 1 .. n + 1 /\ 1 \in 1 .. n + 1 /\ 1 < k + 1
  OBVIOUS
<1>5. 1 \in 1 .. n + 1
  OBVIOUS
<1>6. Head(q) \in Elems(q) /\ Elems(r) \subseteq Elems(q)
  <2>1. Head(q) \in Elems(q)
    BY ONLY <1>3, <1>5 DEF Elems
  <2>2. ASSUME NEW k \in DOMAIN r PROVE r[k] \in Elems(q)
    BY ONLY <1>3, <1>4, k \in DOMAIN r DEF Elems
  <2> QED BY <2>1, <2>2 DEF Elems
<1>7. ASSUME InOrder(q) PROVE InOrder(r) /\ \A y \in Elems(r) : Before(Head(q), y)
  <2>1. \A y \in Elems(r) : Before(Head(q), y)
    <3> SUFFICES ASSUME NEW k \in 1 .. n PROVE Before(q[1], r[k])
      BY <1>3 DEF Elems
    <3> QED BY <1>3, <1>4, <1>5, <1>7, InOrderPairs
  <2>2. InOrder(r)
    <3> SUFFICES ASSUME NEW i \in 1 .. n, NEW j \in 1 .. n, i < j PROVE Before(r[i], r[j])
      BY <1>3, InOrderPairs
    <3>1. i + 1 \in 1 .. n + 1 /\ j + 1 \in 1 .. n + 1 /\ i + 1 < j + 1
      OBVIOUS
    <3> QED BY <1>3, <1>7, <3>1, InOrderPairs
  <2> QED BY <2>1, <2>2
<1> QED BY <1>6, <1>7 DEF r

LEMMA ConcatKeepsOrder ==
    ASSUME NEW S, NEW p \in Seq(S), NEW q \in Seq(S), InOrder(p), InOrder(q),
           \A x \in Elems(p), y \in Elems(q) : Before(x, y)
    PROVE  InOrder(p \o q)
<1> DEFINE r == p \o q
<1>1. PICK m \in Nat, n \in Nat : m = Len(p) /\ n = Len(q)
  BY LenProperties
<1>2. /\ DOMAIN p = 1 .. m /\ DOMAIN q = 1 .. n /\ DOMAIN r = 1 .. m + n
      /\ \A k \in 1 .. m : r[k] = p[k]
      /\ \A k \in 1 .. m + n : k > m => r[k] = q[k - m]
  <2>1. /\ DOMAIN p = 1 .. m /\ DOMAIN q = 1 .. n
        /\ r \in Seq(S) /\ Len(r) = m + n
        /\ \A k \in 1 .. m + n : r[k] = IF k <= m THEN p[k] ELSE q[k - m]
    BY <1>1, LenProperties, ConcatProperties
  <2>2. DOMAIN r = 1 .. m + n
    BY <2>1, LenProperties
  <2> HIDE DEF r
  <2>3. \A k \in 1 .. m : k \in 1 .. m + n /\ k <= m
    OBVIOUS
  <2>4. \A k \in 1 .. m + n : k > m => ~(k <= m)
    OBVIOUS
  <2> QED BY ONLY <2>1, <2>2, <2>3, <2>4
<1> HIDE DEF r
<1>3. SUFFICES ASSUME NEW i \in 1 .. m + n, NEW j \in 1 .. m + n, i < j
               PROVE  Before(r[i], r[j])
  BY <1>2, InOrderPairs DEF r
<1>4. CASE j <= m
  <2>1. i \in 1 .. m /\ j \in 1 .. m
    BY <1>3, <1>4
  <2> QED BY <1>2, <1>3, <2>1, InOrderPairs
<1>5. CASE i <= m /\ j > m
  <2>1. i \in 1 .. m /\ j - m \in 1 .. n
    BY <1>3, <1>5
  <2> QED BY <1>2, <1>5, <2>1 DEF Elems
<1>6. CASE i > m
  <2>1. i - m \in 1 .. n /\ j - m \in 1 .. n /\ i - m < j - m /\ j > m
    BY <1>3, <1>6
  <2>2. r[i] = q[i - m] /\ r[j] = q[j - m]
    BY <1>2, <1>6, <2>1
  <2> QED BY <1>2, <2>1, <2>2, InOrderPairs
<1> QED BY <1>4, <1>5, <1>6
(* The mailbox found is the first for the id, and no other number is. *)
LEMMA FirstFound ==
    ASSUME NEW q \in Seq(Boxes), NEW i
    PROVE  \/ FirstOf(q, i) = 0 /\ \A k \in DOMAIN q : q[k].id # i
           \/ /\ FirstOf(q, i) \in DOMAIN q /\ FirstOf(q, i) # 0 /\ q[FirstOf(q, i)].id = i
              /\ \A k \in DOMAIN q : q[k].id = i => FirstOf(q, i) <= k
<1> DEFINE found == {k \in DOMAIN q : q[k].id = i}
<1> HIDE DEF Boxes
<1>1. DOMAIN q = 1 .. Len(q) /\ Len(q) \in Nat
  BY LenProperties
<1>2. found \in SUBSET Nat /\ 0 \notin found
  BY <1>1
<1>3. CASE found # {}
  <2>1. PICK k \in found : \A l \in found : k <= l
    BY <1>2, <1>3, LeastElement
  <2>2. FirstOf(q, i) = CHOOSE j \in found : \A l \in found : j <= l
    BY <1>3 DEF FirstOf
  <2>3. FirstOf(q, i) \in found /\ \A l \in found : FirstOf(q, i) <= l
    BY <2>1, <2>2
  <2> QED BY <1>2, <2>3
<1>4. CASE found = {}
  BY <1>4 DEF FirstOf
<1> QED BY <1>3, <1>4

LEMMA FirstIs ==
    ASSUME NEW q \in Seq(Boxes), NEW i, NEW f \in DOMAIN q, q[f].id = i,
           \A k \in DOMAIN q : q[k].id = i => f <= k
    PROVE  FirstOf(q, i) = f /\ LinesIn(q, i) = q[f].lines
<1> HIDE DEF Boxes
<1>1. DOMAIN q \subseteq Nat \ {0}
  BY LenProperties
<1>2. FirstOf(q, i) \in DOMAIN q /\ q[FirstOf(q, i)].id = i /\ FirstOf(q, i) <= f
  BY FirstFound
<1>3. f <= FirstOf(q, i)
  BY <1>2
<1>4. FirstOf(q, i) = f
  <2>1. FirstOf(q, i) \in Nat /\ f \in Nat
    BY <1>1, <1>2
  <2> QED BY ONLY <2>1, <1>2, <1>3
<1> QED BY <1>1, <1>4 DEF LinesIn

LEMMA NoLines ==
    ASSUME NEW q, NEW i, \A k \in DOMAIN q : q[k].id # i PROVE LinesIn(q, i) = <<>>
<1>1. FirstOf(q, i) = 0
  BY DEF FirstOf
<1> QED BY <1>1 DEF LinesIn

LEMMA LinesTyped == ASSUME NEW q \in Seq(Boxes), NEW i PROVE LinesIn(q, i) \in Seq(Messages)
<1>1. CASE FirstOf(q, i) = 0
  BY <1>1, EmptySeq DEF LinesIn
<1>2. CASE FirstOf(q, i) # 0
  <2>1. FirstOf(q, i) \in DOMAIN q
    BY <1>2, FirstFound
  <2>2. q[FirstOf(q, i)] \in Boxes
    <3> HIDE DEF Boxes
    <3> QED BY <2>1, LenProperties, ElementOfSeq
  <2> QED BY <1>2, <2>2 DEF LinesIn, Boxes
<1> QED BY <1>1, <1>2

(* new_buffer puts the new mailbox behind the others. *)
LEMMA LinesOfAppended ==
    ASSUME NEW q \in Seq(Boxes), NEW b \in Boxes, b.lines = <<>>, NEW i
    PROVE  LinesIn(Append(q, b), i) = LinesIn(q, i)
<1> DEFINE r == Append(q, b)
<1> HIDE DEF Boxes
<1>1. r \in Seq(Boxes)
  BY AppendProperties
<1>2. PICK n \in Nat : /\ DOMAIN q = 1 .. n /\ DOMAIN r = 1 .. n + 1
                       /\ \A k \in 1 .. n : r[k] = q[k]
                       /\ r[n + 1] = b
  BY AppendSlots
<1> HIDE DEF r
<1>3. 1 .. n + 1 = (1 .. n) \cup {n + 1}
  BY ONLY n \in Nat
<1>4. CASE FirstOf(q, i) # 0
  <2> DEFINE f == FirstOf(q, i)
  <2>1. f \in 1 .. n /\ q[f].id = i /\ \A k \in 1 .. n : q[k].id = i => f <= k
    BY <1>2, <1>4, FirstFound
  <2> HIDE DEF f
  <2>2. f \in DOMAIN r /\ r[f] = q[f] /\ \A k \in DOMAIN r : r[k].id = i => f <= k
    BY <1>2, <1>3, <2>1
  <2>3. LinesIn(r, i) = r[f].lines
    BY <1>1, <2>1, <2>2, FirstIs
  <2> QED BY <1>4, <2>2, <2>3 DEF LinesIn, f, r
<1>5. CASE FirstOf(q, i) = 0
  <2>1. \A k \in 1 .. n : q[k].id # i
    BY <1>2, <1>5, FirstFound
  <2>2. LinesIn(q, i) = <<>>
    BY <1>5 DEF LinesIn
  <2>3. CASE b.id = i
    <3>1. n + 1 \in DOMAIN r /\ r[n + 1].id = i /\ \A k \in DOMAIN r : r[k].id = i => n + 1 <= k
      BY <1>2, <1>3, <2>1, <2>3
    <3>2. LinesIn(r, i) = r[n + 1].lines
      BY <1>1, <3>1, FirstIs
    <3> QED BY <1>2, <2>2, <3>2 DEF r
  <2>4. CASE b.id # i
    <3>1. \A k \in DOMAIN r : r[k].id # i
      BY <1>2, <1>3, <2>1, <2>4
    <3>2. LinesIn(r, i) = <<>>
      BY <3>1, NoLines
    <3> QED BY <2>2, <3>2 DEF r
  <2> QED BY <2>3, <2>4
<1> QED BY <1>4, <1>5

(* A write or a read changes the lines of the mailbox found and no others. *)
LEMMA LinesOfReplaced ==
    ASSUME NEW q \in Seq(Boxes), NEW r \in Seq(Boxes), NEW j, NEW f,
           f = FirstOf(q, j), f # 0, DOMAIN r = DOMAIN q, r[f].id = q[f].id,
           \A k \in DOMAIN q : k # f => r[k] = q[k]
    PROVE  /\ LinesIn(r, j) = r[f].lines
           /\ \A i : i # j => LinesIn(r, i) = LinesIn(q, i)
<1> HIDE DEF Boxes
<1>1. f \in DOMAIN q /\ q[f].id = j /\ \A k \in DOMAIN q : q[k].id = j => f <= k
  BY FirstFound
<1>2. \A k \in DOMAIN q : r[k].id = q[k].id
  OBVIOUS
<1>3. LinesIn(r, j) = r[f].lines
  <2>1. f \in DOMAIN r /\ r[f].id = j /\ \A k \in DOMAIN r : r[k].id = j => f <= k
    BY <1>1, <1>2
  <2> QED BY ONLY r \in Seq(Boxes), <2>1, FirstIs
<1>4. ASSUME NEW i, i # j PROVE LinesIn(r, i) = LinesIn(q, i)
  <2>1. CASE FirstOf(q, i) = 0
    <3>1. \A k \in DOMAIN r : r[k].id # i
      BY <1>2, <2>1, FirstFound
    <3> QED BY <2>1, <3>1, NoLines DEF LinesIn
  <2>2. CASE FirstOf(q, i) # 0
    <3> DEFINE g == FirstOf(q, i)
    <3>1. g \in DOMAIN q /\ q[g].id = i /\ \A k \in DOMAIN q : q[k].id = i => g <= k
      BY <2>2, FirstFound
    <3> HIDE DEF g
    <3>2. g # f /\ r[g] = q[g]
      BY <1>1, <1>4, <3>1
    <3>3. g \in DOMAIN r /\ r[g].id = i /\ \A k \in DOMAIN r : r[k].id = i => g <= k
      BY <1>2, <3>1
    <3>4. LinesIn(r, i) = r[g].lines
      BY ONLY r \in Seq(Boxes), <3>3, FirstIs
    <3>5. LinesIn(q, i) = q[g].lines
      BY <2>2 DEF LinesIn, g
    <3> QED BY <3>2, <3>4, <3>5
  <2> QED BY <2>1, <2>2
<1> QED BY <1>3, <1>4

-----------------------------------------------------------------------------
(* Every step keeps the order. *)

LEMMA EmptyLines == InOrder(<<>>) /\ Elems(<<>>) = {}
BY DEF InOrder, Elems

LEMMA InitOrder == Init => OrderInv
<1> SUFFICES ASSUME Init PROVE OrderInv
  OBVIOUS
<1>1. \A i : LinesIn(mailboxes, i) = <<>>
  BY NoLines DEF Init
<1>2. KeysUnique
  BY DEF Init, DbInit, KeysUnique
<1>3. Numbered /\ OneEntryEach
  BY DEF Init, Numbered, OneEntryEach, Handling, ChanStates
<1>4. BoxesInOrder
  BY <1>1, EmptyLines DEF BoxesInOrder
<1>5. SentInOrder
  BY EmptyLines DEF Init, SentInOrder
<1> QED BY <1>2, <1>3, <1>4, <1>5 DEF OrderInv

LEMMA KeysStay ==
    ASSUME KeysUnique, SessInv', NEW t \in Threads, Step(t)
    PROVE  KeysUnique'
<1>1. \A u, v \in users' : u.id = v.id \/ u.nick = v.nick => u = v
  BY DEF SessInv, UserKeys
<1>2. channels' = channels \/ AddChannel(t)
  BY DEF Step, ThreadStep, WriteStep, ClientStep, ReadNick, StoreUserId, RegisterNick, RefuseNick, GiveUpNick,
         StartSession, ReplyFails, AnswerNoUser, WriteTo, LoadChannelId, StoreChannelId,
         FindMember, LoadJoinId, StoreJoinId, JoinChannel, ListMembers, Disconnected, Deliver,
         Accept, ClientCloses, NickReadFails, ReceiveChat, ReceiveChan, ReceiveExit,
         ReceiveQuit, ReadPart, BodyEnds, PassMessage, tables
<1>3. joined' \subseteq joined \/ JoinChannel(t)
  BY DEF Step, ThreadStep, WriteStep, ClientStep, ReadNick, StoreUserId, RegisterNick, RefuseNick, GiveUpNick,
         StartSession, ReplyFails, AnswerNoUser, WriteTo, LoadChannelId, StoreChannelId,
         AddChannel, FindMember, LoadJoinId, StoreJoinId, ListMembers, Disconnected, Deliver,
         Accept, ClientCloses, NickReadFails, ReceiveChat, ReceiveChan, ReceiveExit,
         ReceiveQuit, ReadPart, BodyEnds, PassMessage, RemoveUser, DeleteMemberships,
         DeleteMembership, tables
<1>4. \A c, d \in channels' : c.id = d.id \/ c.name = d.name => c = d
  BY <1>2 DEF KeysUnique, AddChannel, InsertChannel, ChannelFits
<1>5. \A j, k \in joined' :
          j.joinid = k.joinid \/ <<j.userid, j.channelid>> = <<k.userid, k.channelid>> => j = k
  <2>1. CASE joined' \subseteq joined
    BY <2>1 DEF KeysUnique
  <2>2. CASE JoinChannel(t)
    <3> DEFINE rows == JoinRows(newid[t], nick[t], msg[t].to)
    <3>1. joined' = joined \/ (JoinFits(rows) /\ joined' = joined \cup rows)
      BY <2>2 DEF JoinChannel, InsertJoined
    <3> HIDE DEF rows
    <3> QED BY <3>1 DEF KeysUnique, JoinFits
  <2> QED BY <1>3, <2>1, <2>2
<1> QED BY <1>1, <1>4, <1>5 DEF KeysUnique

(* The users listed of a channel are listed once. *)
LEMMA ListedOnce ==
    ASSUME KeysUnique, Exact, TypeInv, NEW c \in Channels,
           NEW d \in MembersOf(c), NEW e \in MembersOf(c), d.userid = e.userid
    PROVE  d = e
<1>1. PICK u \in users, j \in joined, ch \in channels :
          /\ d = [userid |-> u.id, nick |-> u.nick, joinid |-> j.joinid]
          /\ u.id = j.userid /\ ch.id = j.channelid /\ Like(c, ch.name)
  BY DEF MembersOf, ChannelsLike
<1>2. PICK v \in users, k \in joined, dh \in channels :
          /\ e = [userid |-> v.id, nick |-> v.nick, joinid |-> k.joinid]
          /\ v.id = k.userid /\ dh.id = k.channelid /\ Like(c, dh.name)
  BY DEF MembersOf, ChannelsLike
<1>3. ch.name = c /\ dh.name = c
  BY <1>1, <1>2 DEF Exact, TypeInv, TypeOK, DbTypeOK
<1>4. u.id = v.id
  BY <1>1, <1>2
<1>5. u = v /\ ch = dh
  BY <1>3, <1>4 DEF KeysUnique
<1>6. j = k
  BY <1>1, <1>2, <1>5 DEF KeysUnique
<1> QED BY <1>1, <1>2, <1>5, <1>6

LEMMA OneEntryStays ==
    ASSUME OneEntryEach, KeysUnique, Exact, TypeInv, SessInv, NEW t \in Threads,
           Step(t)
    PROVE  OneEntryEach'
<1>1. \A u \in Threads : u # t => UNCHANGED <<pc[u], dests[u]>>
  BY OthersRest
<1>2. SUFFICES ASSUME pc'[t] = "write", NEW d \in dests'[t], NEW e \in dests'[t],
                      d.userid = e.userid
               PROVE  d = e
  BY <1>1 DEF OneEntryEach
<1> USE DEF TypeInv, TypeOK, ThreadTypes, Goto
<1>3. CASE NickStep(t)
  BY <1>2, <1>3 DEF NickStep, Accept, ReadNick, NickReadFails, StoreUserId, RefuseNick, GiveUpNick
<1>4. CASE RegisterNick(t) \/ ReplyFails(t) \/ ReceiveQuit(t) \/ Disconnected(t)
  BY <1>2, <1>4 DEF RegisterNick, ReplyFails, ReceiveQuit, Disconnected
<1>5. CASE StartSession(t) \/ AnswerNoUser(t) \/ LoadChannelId(t) \/ StoreChannelId(t) \/ AddChannel(t)
  BY <1>2, <1>5 DEF StartSession, AnswerNoUser, LoadChannelId, StoreChannelId, AddChannel
<1>6. CASE FindMember(t) \/ LoadJoinId(t) \/ StoreJoinId(t) \/ JoinChannel(t) \/ Deliver(t)
  BY <1>2, <1>6 DEF FindMember, LoadJoinId, StoreJoinId, JoinChannel, Deliver
<1>7. CASE \E c \in Channels : ReceiveChan(t, c) \/ ReceiveExit(t, c)
  BY <1>2, <1>7 DEF ReceiveChan, ReceiveExit
<1>8. CASE \E n \in Nicks \ {Empty} : ReceiveChat(t, n)
  <2>1. \A a, b \in dests'[t] : a = b
    BY <1>2, <1>8 DEF ReceiveChat
  <2> QED BY <2>1
<1>9. CASE ClientCloses(t)
  BY <1>2, <1>9 DEF ClientCloses, session, OneEntryEach
<1>10. CASE \E f \in dests[t] : WriteTo(t, f)
  <2>1. dests'[t] \subseteq dests[t] /\ pc[t] = "write"
    BY <1>10 DEF WriteTo
  <2> QED BY <1>2, <2>1 DEF OneEntryEach
<1>11. CASE ListMembers(t)
  <2>1. msg[t].to \in Channels
    BY <1>11 DEF ListMembers, MsgKnown, ChanStates
  <2>2. dests'[t] \subseteq MembersOf(msg[t].to)
    BY <1>11 DEF ListMembers, Others
  <2> QED BY <1>2, <2>1, <2>2, ListedOnce
<1>12. CASE WaitStep(t)
  BY <1>2, <1>12 DEF WaitStep, ReadPart, BodyEnds, PassMessage
<1> QED
  BY <1>3, <1>4, <1>5, <1>6, <1>7, <1>8, <1>9, <1>10, <1>11, <1>12, NextCases DEF SessionStep

LEMMA OthersKeep ==
    ASSUME TypeInv, NEW t \in Threads, Step(t), NEW u \in Threads, u # t
    PROVE  UNCHANGED <<outbox[u], sent[u]>>
<1> USE DEF TypeInv, TypeOK, TrafficTypes, CountTypes, EndSession, traffic, bounds
<1>1. CASE NickStep(t)
  BY <1>1 DEF NickStep, Accept, ReadNick, NickReadFails, StoreUserId, RefuseNick, GiveUpNick
<1>2. CASE RegisterNick(t) \/ ReplyFails(t) \/ ClientCloses(t) \/ ReceiveQuit(t) \/ Disconnected(t)
  BY <1>2 DEF RegisterNick, ReplyFails, ClientCloses, ReceiveQuit, Disconnected
<1>3. CASE StartSession(t) \/ AnswerNoUser(t) \/ LoadChannelId(t) \/ StoreChannelId(t) \/ AddChannel(t)
  BY <1>3 DEF StartSession, AnswerNoUser, Sent, LoadChannelId, StoreChannelId, AddChannel
<1>4. CASE FindMember(t) \/ LoadJoinId(t) \/ StoreJoinId(t) \/ JoinChannel(t) \/ ListMembers(t)
  BY <1>4 DEF FindMember, LoadJoinId, StoreJoinId, JoinChannel, ListMembers
<1>5. CASE Deliver(t) \/ \E d \in dests[t] : WriteTo(t, d)
  BY <1>5 DEF Deliver, Sent, WriteTo
<1>6. CASE \/ \E n \in Nicks \ {Empty} : ReceiveChat(t, n)
           \/ \E c \in Channels : ReceiveChan(t, c) \/ ReceiveExit(t, c)
  BY <1>6 DEF ReceiveChat, ReceiveChan, ReceiveExit, Receive
<1>7. CASE WaitStep(t)
  BY <1>7 DEF WaitStep, ReadPart, BodyEnds, PassMessage
<1> QED BY <1>1, <1>2, <1>3, <1>4, <1>5, <1>6, <1>7, NextCases DEF SessionStep

(* Steps that move no line: nobody gets more to write than before. *)
Quiet(t) ==
    /\ \A i \in Nat : LinesIn(mailboxes', i) = LinesIn(mailboxes, i)
    /\ sent'[t] = sent[t]
    /\ outbox'[t] = <<>> \/ (outbox'[t] = outbox[t] /\ uid'[t] = uid[t])
    /\ Live(t)' \/ outbox'[t] = <<>>
    /\ pc'[t] \in Handling =>
          /\ pc[t] \in Handling /\ msg'[t] = msg[t]
          /\ pc[t] \in ChanStates \/ (pc'[t] = "write" /\ dests'[t] \subseteq dests[t])

InvNow == OrderInv /\ TypeInv /\ SessInv

LEMMA QuietKeepsOrder ==
    ASSUME InvNow, NEW t \in Threads, Step(t), Quiet(t)
    PROVE  Numbered' /\ BoxesInOrder' /\ SentInOrder'
<1> USE DEF InvNow, OrderInv
<1>1. \A u \in Threads : u # t =>
          UNCHANGED <<pc[u], msg[u], dests[u], uid[u], outbox[u], sent[u]>>
  BY OthersRest, OthersKeep
<1>2. \A u \in Threads : sent'[u] = sent[u]
  BY <1>1 DEF Quiet
<1>3. \A u \in Threads : pc'[u] \in Handling => pc[u] \in Handling /\ msg'[u] = msg[u]
  BY <1>1 DEF Quiet
<1>4. \A u \in Threads, i \in Nat : Pending(u, i)' => Pending(u, i)
  BY <1>1 DEF Quiet, Pending, Handling
<1>5. \A x, i : i \in Nat /\ NotLater(x, i) => NotLater(x, i)'
  BY <1>2, <1>4 DEF NotLater
<1>6. Numbered'
  BY <1>2, <1>3 DEF Numbered
<1>7. BoxesInOrder'
  BY <1>5 DEF BoxesInOrder, Quiet
<1>8. SentInOrder'
  <2> SUFFICES ASSUME NEW u \in Threads, NEW i \in Nat
               PROVE  /\ InOrder(outbox'[u])
                      /\ ~Live(u)' => outbox'[u] = <<>>
                      /\ uid'[u] = i =>
                            \A x \in Elems(outbox'[u]) :
                                /\ NotLater(x, i)'
                                /\ \A y \in Elems(LinesIn(mailboxes', i)) : Before(x, y)
    BY DEF SentInOrder
  <2>1. ~Live(u)' => outbox'[u] = <<>>
    BY <1>1 DEF Quiet, Live, SentInOrder
  <2>2. CASE outbox'[u] = <<>>
    BY <2>1, <2>2, EmptyLines
  <2>3. CASE outbox'[u] = outbox[u] /\ uid'[u] = uid[u]
    BY <1>5, <2>1, <2>3 DEF SentInOrder, Quiet
  <2> QED BY <1>1, <2>2, <2>3 DEF Quiet
<1> QED BY <1>6, <1>7, <1>8

LEMMA QuietSteps ==
    ASSUME InvNow, NEW t \in Threads,
           \/ NickStep(t) \/ RegisterNick(t) \/ ReplyFails(t) \/ ClientCloses(t)
           \/ ReceiveQuit(t) \/ Disconnected(t) \/ StartSession(t)
           \/ LoadChannelId(t) \/ StoreChannelId(t) \/ AddChannel(t) \/ FindMember(t)
           \/ LoadJoinId(t) \/ StoreJoinId(t) \/ JoinChannel(t) \/ ListMembers(t)
           \/ BodyEnds(t) \/ PassMessage(t)
    PROVE  Quiet(t)
<1> USE DEF InvNow, OrderInv, TypeInv, TypeOK, ThreadTypes, TrafficTypes, CountTypes, Goto,
            session, traffic, bounds
<1>1. ~Live(t) => outbox[t] = <<>>
  BY 0 \in Nat DEF SentInOrder
<1>2. CASE NickStep(t)
  <2>1. /\ pc[t] \in BeforeSession /\ pc'[t] \in BeforeSession /\ sent' = sent
        /\ mailboxes' = mailboxes /\ (outbox'[t] = <<>> \/ outbox' = outbox)
    BY <1>2 DEF NickStep, Accept, ReadNick, NickReadFails, StoreUserId, RefuseNick, GiveUpNick,
                EndSession, BeforeSession
  <2> QED BY <1>1, <2>1 DEF Quiet, Live, BeforeSession, Handling, ChanStates
<1>3. CASE RegisterNick(t)
  BY <1>3 DEF RegisterNick, Quiet, Live, Handling, ChanStates
<1>4. CASE ReplyFails(t) \/ ReceiveQuit(t) \/ Disconnected(t)
  BY <1>4 DEF ReplyFails, ReceiveQuit, Disconnected, EndSession, Quiet, Live, Handling, ChanStates
<1>5. CASE ClientCloses(t)
  BY <1>1, <1>5 DEF ClientCloses, Quiet, Live, Handling, ChanStates
<1>6. CASE StartSession(t)
  <2> DEFINE box == [id |-> uid[t], lines |-> <<>>]
  <2>1. box \in Boxes /\ box.lines = <<>>
    BY EmptySeq DEF Boxes
  <2>2. mailboxes' = Append(mailboxes, box)
    BY <1>6 DEF StartSession
  <2> HIDE DEF box
  <2>3. mailboxes \in Seq(Boxes)
    BY BoxesTyped
  <2>4. \A i \in Nat : LinesIn(mailboxes', i) = LinesIn(mailboxes, i)
    BY ONLY <2>1, <2>2, <2>3, LinesOfAppended
  <2> QED BY <1>6, <2>4 DEF StartSession, Quiet, Live, Handling, ChanStates
<1>7. CASE LoadChannelId(t) \/ StoreChannelId(t) \/ AddChannel(t) \/ FindMember(t)
  BY <1>7 DEF LoadChannelId, StoreChannelId, AddChannel, FindMember, Quiet, Live, Handling, ChanStates
<1>8. CASE LoadJoinId(t) \/ StoreJoinId(t) \/ JoinChannel(t) \/ ListMembers(t)
  BY <1>8 DEF LoadJoinId, StoreJoinId, JoinChannel, ListMembers, Quiet, Live, Handling, ChanStates
<1>9. CASE BodyEnds(t) \/ PassMessage(t)
  BY <1>9 DEF BodyEnds, PassMessage, Quiet, Live, Handling, ChanStates
<1> QED BY <1>2, <1>3, <1>4, <1>5, <1>6, <1>7, <1>8, <1>9

LEMMA LinesAreMessages ==
    ASSUME TypeInv
    PROVE  /\ \A i : Elems(LinesIn(mailboxes, i)) \subseteq Messages
           /\ \A u \in Threads : Elems(outbox[u]) \subseteq Messages
<1>1. \A q \in Seq(Messages) : Elems(q) \subseteq Messages
  BY LenProperties, ElementOfSeq DEF Elems
<1>2. \A i : LinesIn(mailboxes, i) \in Seq(Messages)
  BY LinesTyped, BoxesTyped DEF TypeInv
<1> QED BY <1>1, <1>2 DEF TypeInv, TypeOK, TrafficTypes

(* What a client sends next has a number no line has. *)
LEMMA ArrivalKeepsOrder ==
    ASSUME InvNow, NEW t \in Threads, Step(t), UNCHANGED <<traffic, uid>>, Live(t)',
           sent' = [sent EXCEPT ![t] = @ + 1],
           pc'[t] \in Handling => msg'[t].src = t /\ msg'[t].n = sent'[t]
    PROVE  Numbered' /\ BoxesInOrder' /\ SentInOrder'
<1> USE DEF InvNow, OrderInv, traffic
<1>1. \A u \in Threads : u # t =>
          UNCHANGED <<pc[u], msg[u], dests[u], uid[u], outbox[u], sent[u]>>
  BY OthersRest, OthersKeep
<1>2. sent[t] \in Nat /\ sent'[t] = sent[t] + 1
  BY DEF TypeInv, TypeOK, CountTypes
<1>3. \A x, i : i \in Nat /\ NotLater(x, i) /\ x.n \in Nat => NotLater(x, i)'
  BY <1>1, <1>2 DEF NotLater, Pending
<1>4. Numbered'
  BY <1>1, <1>2 DEF Numbered
<1>5. \A i \in Nat : \A x \in Elems(LinesIn(mailboxes, i)) : x.n \in Nat
  BY LinesAreMessages DEF Messages
<1>6. \A u \in Threads : \A x \in Elems(outbox[u]) : x.n \in Nat
  BY LinesAreMessages DEF Messages
<1>7. BoxesInOrder'
  BY <1>3, <1>5 DEF BoxesInOrder
<1>8. \A u \in Threads : ~Live(u)' => outbox'[u] = <<>>
  BY <1>1, 0 \in Nat DEF SentInOrder, Live
<1>9. SentInOrder'
  BY <1>3, <1>6, <1>8 DEF SentInOrder
<1> QED BY <1>4, <1>7, <1>9

LEMMA ReceiveKeepsOrder ==
    ASSUME InvNow, NEW t \in Threads, Step(t),
           NEW kind \in {"chat", "chan", "exit"}, NEW to \in Nicks \cup Channels,
           Receive(t, kind, to), UNCHANGED <<traffic, uid>>, Live(t)'
    PROVE  Numbered' /\ BoxesInOrder' /\ SentInOrder'
<1>1. /\ sent' = [sent EXCEPT ![t] = @ + 1]
      /\ msg'[t].src = t /\ msg'[t].n = sent'[t]
  BY DEF Receive, InvNow, TypeInv, TypeOK, CountTypes, ThreadTypes
<1> QED BY <1>1, ArrivalKeepsOrder

LEMMA PartKeepsOrder ==
    ASSUME InvNow, NEW t \in Threads, ReadPart(t)
    PROVE  Numbered' /\ BoxesInOrder' /\ SentInOrder'
<1>1. Step(t) /\ UNCHANGED <<traffic, uid>> /\ sent' = [sent EXCEPT ![t] = @ + 1]
  BY DEF Step, ClientStep, ReadPart, session
<1>2. pc'[t] = "reading"
  BY DEF ReadPart, Goto, InvNow, TypeInv, TypeOK, ThreadTypes
<1>3. Live(t)' /\ pc'[t] \notin Handling
  BY <1>2 DEF Live, Handling, ChanStates
<1> QED BY <1>1, <1>3, ArrivalKeepsOrder

LEMMA AnswerKeepsOrder ==
    ASSUME InvNow, NEW t \in Threads, AnswerNoUser(t)
    PROVE  Numbered' /\ BoxesInOrder' /\ SentInOrder'
<1> USE DEF InvNow, OrderInv
<1>1. \A u \in Threads : u # t =>
          UNCHANGED <<pc[u], msg[u], dests[u], uid[u], outbox[u], sent[u]>>
  BY OthersRest, OthersKeep DEF Step, ThreadStep, WriteStep
<1>2. [msg[t] EXCEPT !.kind = "no_user"] \in Messages
  BY DEF TypeInv, TypeOK, ThreadTypes, Messages
<1>3. PICK m \in Messages : m = [msg[t] EXCEPT !.kind = "no_user"]
  BY <1>2
<1>4. /\ pc[t] = "no_user" /\ pc'[t] = "deliver"
      /\ UNCHANGED <<mailboxes, sent, uid, dests>>
      /\ outbox'[t] = outbox[t] \/ outbox'[t] = Append(outbox[t], m)
      /\ m.kind = "no_user" /\ outbox[t] \in Seq(Messages)
  BY <1>3
     DEF AnswerNoUser, Goto, Sent, session, bounds, TypeInv, TypeOK, ThreadTypes, TrafficTypes,
         Messages
<1>5. \A x, i : NotLater(x, i) => NotLater(x, i)'
  BY <1>1, <1>4 DEF NotLater, Pending, ChanStates
<1>6. Numbered'
  BY <1>1, <1>4 DEF Numbered, Handling, ChanStates
<1>7. BoxesInOrder'
  BY <1>4, <1>5 DEF BoxesInOrder
<1>8. \A x : Before(x, m) /\ Before(m, x)
  BY <1>4 DEF Before
<1>9. \A i : NotLater(m, i)'
  BY <1>4 DEF NotLater
<1>10. Elems(Append(outbox[t], m)) = Elems(outbox[t]) \cup {m}
      /\ (InOrder(outbox[t]) => InOrder(Append(outbox[t], m)))
  BY ONLY <1>4, <1>8, AppendKeepsOrder
<1>11. Live(t)' /\ \A u \in Threads : ~Live(u)' => outbox'[u] = <<>>
  BY <1>1, <1>4, 0 \in Nat DEF SentInOrder, Live
<1>12. \A u \in Threads : /\ InOrder(outbox'[u])
                          /\ Elems(outbox'[u]) \subseteq Elems(outbox[u]) \cup {m}
  BY <1>1, <1>4, <1>10, 0 \in Nat DEF SentInOrder
<1>13. SentInOrder'
  <2> SUFFICES ASSUME NEW u \in Threads, NEW i \in Nat, uid[u] = i, NEW x \in Elems(outbox'[u])
               PROVE  NotLater(x, i)' /\ \A y \in Elems(LinesIn(mailboxes, i)) : Before(x, y)
    BY <1>4, <1>11, <1>12 DEF SentInOrder
  <2>1. x # m => NotLater(x, i) /\ \A y \in Elems(LinesIn(mailboxes, i)) : Before(x, y)
    BY <1>12 DEF SentInOrder
  <2> QED BY <1>5, <1>8, <1>9, <2>1
<1> QED BY <1>6, <1>7, <1>13

(* A line written is newer than all of its sender that went this way, and  *)
(* its sender writes to this mailbox no more.                              *)
LEMMA WriteKeepsOrder ==
    ASSUME InvNow, NEW t \in Threads, NEW d \in dests[t], WriteTo(t, d)
    PROVE  Numbered' /\ BoxesInOrder' /\ SentInOrder'
<1> USE DEF InvNow, OrderInv
<1>1. \A u \in Threads : u # t =>
          UNCHANGED <<pc[u], msg[u], dests[u], uid[u], outbox[u], sent[u]>>
  BY OthersRest, OthersKeep DEF Step, ThreadStep, WriteStep
<1>2. PICK m \in Messages, j \in Nat : m = msg[t] /\ j = d.userid
  BY DEF TypeInv, TypeOK, ThreadTypes, Entries
<1>3. /\ pc[t] = "write" /\ pc'[t] \in {"write", "deliver"} /\ dests'[t] = dests[t] \ {d}
      /\ UNCHANGED <<msg, sent, uid, outbox>>
      /\ m.kind # "no_user" /\ m.src = t /\ m.n = sent[t] /\ sent[t] \in Nat
  BY <1>2 DEF WriteTo, bounds, TypeInv, TypeOK, ThreadTypes, CountTypes, MsgKnown, Numbered, Handling
<1>4. /\ Pending(t, j) /\ ~Pending(t, j)'
      /\ \A u \in Threads : \A i : Pending(u, i)' => Pending(u, i)
  <2>1. ~Pending(t, j)'
    BY <1>3, <1>2 DEF Pending, ChanStates, OneEntryEach
  <2>2. \A u \in Threads : \A i : Pending(u, i)' => Pending(u, i)
    BY <1>1, <1>3 DEF Pending, ChanStates
  <2>3. Pending(t, j)
    BY <1>3, <1>2 DEF Pending
  <2> QED BY <2>1, <2>2, <2>3
<1>5. \A x, i : NotLater(x, i) => NotLater(x, i)'
  BY <1>3, <1>4 DEF NotLater
<1>6. NotLater(m, j)'
  BY <1>3, <1>4 DEF NotLater
<1>7. \A x : NotLater(x, j) => Before(x, m)
  BY <1>3, <1>4 DEF NotLater, Before
<1>8. Numbered'
  BY <1>1, <1>3 DEF Numbered, Handling
<1>9. \/ \A i \in Nat : LinesIn(mailboxes', i) = LinesIn(mailboxes, i)
      \/ /\ LinesIn(mailboxes', j) = Append(LinesIn(mailboxes, j), m)
         /\ \A i : i # j => LinesIn(mailboxes', i) = LinesIn(mailboxes, i)
  <2> DEFINE k == FirstOf(mailboxes, j)
             old == LinesIn(mailboxes, j)
  <2>1. mailboxes \in Seq(Boxes) /\ old \in Seq(Messages)
    BY BoxesTyped, LinesTyped DEF TypeInv
  <2>2. MailboxOf(j) = k
    BY DEF MailboxOf, FirstOf
  <2>3. WriteToBuffer(j, m)
    BY <1>2 DEF WriteTo
  <2>4. CASE mailboxes' = mailboxes
    BY <2>4
  <2>5. CASE k # 0 /\ mailboxes' = [mailboxes EXCEPT ![k].lines = Put(@, m)]
    <3>1. mailboxes' = [mailboxes EXCEPT ![k].lines = Append(old, m)]
      BY <2>5 DEF Put, LinesIn
    <3>2. Append(old, m) \in Seq(Messages)
      BY ONLY <2>1, <1>3, AppendProperties
    <3>3. k = FirstOf(mailboxes, j) /\ k # 0 /\ k \in DOMAIN mailboxes /\ mailboxes[k] \in Boxes
      BY <2>1, <2>5, FirstFound, BoxesTyped DEF TypeInv
    <3>4. mailboxes' \in Seq(Boxes)
      BY WriteToTyped DEF TypeInv, TypeOK, TrafficTypes, Boxes
    <3> HIDE DEF old, k
    <3>5. /\ mailboxes'[k].lines = Append(old, m) /\ mailboxes'[k].id = mailboxes[k].id
          /\ DOMAIN mailboxes' = DOMAIN mailboxes
          /\ \A l \in DOMAIN mailboxes : l # k => mailboxes'[l] = mailboxes[l]
      BY ONLY <3>1, <3>3 DEF Boxes
    <3>6. /\ LinesIn(mailboxes', j) = mailboxes'[k].lines
          /\ \A i : i # j => LinesIn(mailboxes', i) = LinesIn(mailboxes, i)
      BY ONLY <2>1, <3>3, <3>4, <3>5, LinesOfReplaced
    <3> QED BY <3>5, <3>6 DEF old
  <2>6. \/ mailboxes' = mailboxes
        \/ k # 0 /\ mailboxes' = [mailboxes EXCEPT ![k].lines = Put(@, m)]
    <3> HIDE DEF k
    <3> QED BY <2>2, <2>3, Zenon DEF WriteToBuffer
  <2> QED BY <2>4, <2>5, <2>6
<1>10. LinesIn(mailboxes, j) \in Seq(Messages)
  BY BoxesTyped, LinesTyped DEF TypeInv
<1>11. /\ Elems(Append(LinesIn(mailboxes, j), m)) = Elems(LinesIn(mailboxes, j)) \cup {m}
       /\ InOrder(Append(LinesIn(mailboxes, j), m))
  <2>1. InOrder(LinesIn(mailboxes, j)) /\ \A x \in Elems(LinesIn(mailboxes, j)) : Before(x, m)
    BY <1>3, <1>7 DEF BoxesInOrder
  <2> QED BY ONLY <1>3, <1>10, <2>1, AppendKeepsOrder
<1>12. \A i \in Nat :
          /\ InOrder(LinesIn(mailboxes', i))
          /\ \/ Elems(LinesIn(mailboxes', i)) = Elems(LinesIn(mailboxes, i))
             \/ i = j /\ Elems(LinesIn(mailboxes', i)) = Elems(LinesIn(mailboxes, i)) \cup {m}
  BY <1>9, <1>11 DEF BoxesInOrder
<1>13. BoxesInOrder'
  BY <1>5, <1>6, <1>12 DEF BoxesInOrder
<1>14. \A u \in Threads : ~Live(u)' => outbox'[u] = <<>>
  BY <1>1, <1>3, 0 \in Nat DEF SentInOrder, Live
<1>15. SentInOrder'
  <2> SUFFICES ASSUME NEW u \in Threads, NEW i \in Nat, uid[u] = i, NEW x \in Elems(outbox[u])
               PROVE  NotLater(x, i)' /\ \A y \in Elems(LinesIn(mailboxes', i)) : Before(x, y)
    BY <1>3, <1>14 DEF SentInOrder
  <2>1. NotLater(x, i) /\ \A y \in Elems(LinesIn(mailboxes, i)) : Before(x, y)
    BY DEF SentInOrder
  <2> QED BY <1>5, <1>7, <1>12, <2>1
<1> QED BY <1>8, <1>13, <1>15

(* The line delivered is the oldest of the mailbox. *)
LEMMA DeliverKeepsOrder ==
    ASSUME InvNow, NEW t \in Threads, Deliver(t)
    PROVE  Numbered' /\ BoxesInOrder' /\ SentInOrder'
<1> USE DEF InvNow, OrderInv
<1>1. \A u \in Threads : u # t =>
          UNCHANGED <<pc[u], msg[u], dests[u], uid[u], outbox[u], sent[u]>>
  BY OthersRest, OthersKeep DEF Step, ThreadStep, WriteStep
<1>2. pc[t] \in {"loop", "deliver"} /\ pc'[t] \in {"loop", "pass"} /\ UNCHANGED <<sent, uid>>
  BY DEF Deliver, TurnGoesOn, bounds, TypeInv, TypeOK, ThreadTypes
<1>3. \A x, i : NotLater(x, i) => NotLater(x, i)'
  BY <1>1, <1>2 DEF NotLater, Pending, ChanStates
<1>4. Numbered'
  BY <1>1, <1>2 DEF Numbered, Handling, ChanStates
<1>5. \A u \in Threads : ~Live(u)' => outbox'[u] = <<>> /\ u # t
  BY <1>1, <1>2, 0 \in Nat DEF SentInOrder, Live
<1> DEFINE k == FirstOf(mailboxes, uid[t])
           old == LinesIn(mailboxes, uid[t])
<1>6. MailboxOf(uid[t]) = k /\ Mail(t) = old
  BY DEF MailboxOf, FirstOf, Mail, LinesIn
<1>7. mailboxes \in Seq(Boxes) /\ old \in Seq(Messages) /\ uid[t] \in Nat
  BY BoxesTyped, LinesTyped DEF TypeInv, TypeOK, ThreadTypes
<1>8. CASE old = <<>>
  <2>1. UNCHANGED <<mailboxes, outbox>>
    BY <1>6, <1>8 DEF Deliver
  <2> QED BY <1>2, <1>3, <1>4, <1>5, <2>1 DEF BoxesInOrder, SentInOrder
<1>9. CASE old # <<>>
  <2>1. k # 0 /\ mailboxes' = [mailboxes EXCEPT ![k].lines = Tail(old)]
    <3>1. k # 0
      BY <1>9 DEF LinesIn
    <3>2. mailboxes' = [mailboxes EXCEPT ![k].lines = Tail(@)]
      BY <1>6, <1>9 DEF Deliver
    <3> QED BY <3>1, <3>2 DEF LinesIn
  <2>2. outbox'[t] = outbox[t] \/ outbox'[t] = Append(outbox[t], Head(old))
    BY <1>6, <1>9 DEF Deliver, Sent, TypeInv, TypeOK, TrafficTypes
  <2>3. PICK i \in Nat : i = uid[t]
    BY <1>7
  <2>4. Tail(old) \in Seq(Messages) /\ Head(old) \in Messages
    BY ONLY <1>7, <1>9, HeadTailProperties
  <2>5. /\ LinesIn(mailboxes', i) = Tail(old)
        /\ \A l : l # i => LinesIn(mailboxes', l) = LinesIn(mailboxes, l)
    <3>1. k = FirstOf(mailboxes, i) /\ k # 0 /\ k \in DOMAIN mailboxes /\ mailboxes[k] \in Boxes
      BY <1>7, <2>1, <2>3, FirstFound, BoxesTyped DEF TypeInv
    <3>2. mailboxes' \in Seq(Boxes)
      BY DeliverTyped DEF TypeInv, TypeOK, TrafficTypes, Boxes
    <3> HIDE DEF old, k
    <3>3. /\ mailboxes'[k].lines = Tail(old) /\ mailboxes'[k].id = mailboxes[k].id
          /\ DOMAIN mailboxes' = DOMAIN mailboxes
          /\ \A l \in DOMAIN mailboxes : l # k => mailboxes'[l] = mailboxes[l]
      BY ONLY <2>1, <3>1 DEF Boxes
    <3>4. /\ LinesIn(mailboxes', i) = mailboxes'[k].lines
          /\ \A l : l # i => LinesIn(mailboxes', l) = LinesIn(mailboxes, l)
      BY ONLY <1>7, <3>1, <3>2, <3>3, LinesOfReplaced
    <3> QED BY <3>3, <3>4
  <2>6. InOrder(old) /\ \A x \in Elems(old) : NotLater(x, i)
    BY <2>3 DEF BoxesInOrder
  <2>7. /\ Head(old) \in Elems(old) /\ Elems(Tail(old)) \subseteq Elems(old)
        /\ InOrder(Tail(old)) /\ \A y \in Elems(Tail(old)) : Before(Head(old), y)
    BY ONLY <1>7, <1>9, <2>6, TailKeepsOrder
  <2>8. \A l \in Nat : /\ InOrder(LinesIn(mailboxes', l))
                       /\ Elems(LinesIn(mailboxes', l)) \subseteq Elems(LinesIn(mailboxes, l))
    <3> HIDE DEF old
    <3>1. LinesIn(mailboxes, i) = old
      BY <2>3 DEF old
    <3> QED BY <2>5, <2>7, <3>1 DEF BoxesInOrder
  <2>9. BoxesInOrder'
    BY <1>3, <2>8 DEF BoxesInOrder
  <2>10. /\ InOrder(outbox[t]) /\ outbox[t] \in Seq(Messages)
         /\ \A x \in Elems(outbox[t]) :
                NotLater(x, i) /\ \A y \in Elems(old) : Before(x, y)
    BY <2>3 DEF SentInOrder, TypeInv, TypeOK, TrafficTypes
  <2>11. /\ Elems(Append(outbox[t], Head(old))) = Elems(outbox[t]) \cup {Head(old)}
         /\ InOrder(Append(outbox[t], Head(old)))
    <3>1. \A x \in Elems(outbox[t]) : Before(x, Head(old))
      BY <2>7, <2>10
    <3> QED BY ONLY <2>4, <2>10, <3>1, AppendKeepsOrder
  <2>12. /\ InOrder(outbox'[t])
         /\ \A x \in Elems(outbox'[t]) :
                NotLater(x, i) /\ \A y \in Elems(Tail(old)) : Before(x, y)
    <3> HIDE DEF old
    <3> QED BY <2>2, <2>6, <2>7, <2>10, <2>11
  <2>13. ASSUME NEW u \in Threads, NEW l \in Nat
         PROVE  /\ InOrder(outbox'[u])
                /\ uid'[u] = l =>
                      \A x \in Elems(outbox'[u]) :
                          /\ NotLater(x, l)'
                          /\ \A y \in Elems(LinesIn(mailboxes', l)) : Before(x, y)
    <3> HIDE DEF old
    <3>1. CASE u = t
      BY <1>2, <1>3, <2>3, <2>5, <2>12, <3>1
    <3>2. CASE u # t
      BY <1>1, <1>3, <2>8, <3>2 DEF SentInOrder
    <3> QED BY <3>1, <3>2
  <2>14. SentInOrder'
    BY <1>5, <2>13 DEF SentInOrder
  <2> QED BY <1>4, <2>9, <2>14
<1> QED BY <1>8, <1>9

LEMMA CrashKeepsOrder == ASSUME InvNow, SessInv', NEW t \in Threads, Crash(t) PROVE OrderInv'
<1>1. \A i : LinesIn(mailboxes', i) = <<>>
  BY NoLines DEF Crash
<1>2. KeysUnique'
  BY DEF InvNow, OrderInv, KeysUnique, Crash, tables
<1>3. Numbered' /\ OneEntryEach'
  BY DEF Crash, Numbered, OneEntryEach, Handling, ChanStates
<1>4. BoxesInOrder'
  BY <1>1, EmptyLines DEF BoxesInOrder
<1>5. SentInOrder'
  BY EmptyLines DEF Crash, SentInOrder
<1> QED BY <1>2, <1>3, <1>4, <1>5 DEF OrderInv

LEMMA NextOrder ==
    ASSUME InvNow, SessInv', Exact, [Next]_vars PROVE OrderInv'
<1>1. CASE UNCHANGED vars
  <2>1. UNCHANGED <<tables, pc, uid, msg, dests, mailboxes, outbox, sent>>
    BY <1>1 DEF vars, session, traffic, bounds
  <2> QED BY <2>1 DEF tables, InvNow, OrderInv, KeysUnique, Numbered, OneEntryEach, BoxesInOrder,
                      SentInOrder, NotLater, Pending, Live
<1>2. ASSUME NEW t \in Threads, Step(t) PROVE OrderInv'
  <2>1. KeysUnique' /\ OneEntryEach'
    BY <1>2, KeysStay, OneEntryStays DEF InvNow, OrderInv
  <2>2. Numbered' /\ BoxesInOrder' /\ SentInOrder'
    <3>1. CASE Quiet(t)
      BY <1>2, <3>1, QuietKeepsOrder
    <3>2. CASE AnswerNoUser(t) \/ Deliver(t)
      BY <3>2, AnswerKeepsOrder, DeliverKeepsOrder
    <3>3. CASE \E d \in dests[t] : WriteTo(t, d)
      BY <3>3, WriteKeepsOrder
    <3>4. ASSUME NEW n \in Nicks \ {Empty}, ReceiveChat(t, n)
          PROVE  Numbered' /\ BoxesInOrder' /\ SentInOrder'
      <4>1. Receive(t, "chat", n) /\ UNCHANGED <<traffic, uid>> /\ Live(t)'
        BY <3>4 DEF ReceiveChat, Live, InvNow, TypeInv, TypeOK, ThreadTypes
      <4> QED BY <1>2, <4>1, ReceiveKeepsOrder
    <3>5. ASSUME NEW c \in Channels, ReceiveChan(t, c)
          PROVE  Numbered' /\ BoxesInOrder' /\ SentInOrder'
      <4>1. Receive(t, "chan", c) /\ UNCHANGED <<traffic, uid>> /\ Live(t)'
        BY <3>5 DEF ReceiveChan, Live, InvNow, TypeInv, TypeOK, ThreadTypes
      <4> QED BY <1>2, <4>1, ReceiveKeepsOrder
    <3>6. ASSUME NEW c \in Channels, ReceiveExit(t, c)
          PROVE  Numbered' /\ BoxesInOrder' /\ SentInOrder'
      <4>1. Receive(t, "exit", c) /\ UNCHANGED <<traffic, uid>> /\ Live(t)'
        BY <3>6 DEF ReceiveExit, Live, InvNow, TypeInv, TypeOK, ThreadTypes
      <4> QED BY <1>2, <4>1, ReceiveKeepsOrder
    <3>7. CASE ReadPart(t)
      BY <3>7, PartKeepsOrder
    <3> QED BY <1>2, <3>1, <3>2, <3>3, <3>4, <3>5, <3>6, <3>7, NextCases, QuietSteps
            DEF SessionStep, WaitStep
  <2> QED BY <2>1, <2>2 DEF OrderInv
<1>3. ASSUME NEW t \in Threads, Crash(t) PROVE OrderInv'
  BY <1>3, CrashKeepsOrder
<1> QED BY <1>1, <1>2, <1>3 DEF Next

(* Lines are in order wherever they are: in hand, in a mailbox, sent. *)
THEOREM OrderInvariance == ASSUME Exact PROVE Spec => []OrderInv
<1>1. Init => OrderInv
  BY InitOrder
<1>2. OrderInv /\ TypeInv /\ SessInv /\ SessInv' /\ [Next]_vars => OrderInv'
  BY NextOrder DEF InvNow
<1>3. Spec => []SessInv
  BY SessInvariance
<1>4. Spec => []TypeInv
  BY TypeInvariance
<1> QED BY <1>1, <1>2, <1>3, <1>4, PTL DEF Spec

(* What a client receives from one sender arrives in the order sent and    *)
(* never twice, for any number of threads, users, channels and mailbox     *)
(* lines, although ids and their mailboxes pass from user to user.         *)
THEOREM SenderOrder == ASSUME Exact PROVE Spec => []SenderOrderKept
<1>1. OrderInv /\ TypeInv => SenderOrderKept
  <2> SUFFICES ASSUME OrderInv, TypeInv, NEW t \in Threads
               PROVE  InOrder(outbox[t] \o (IF Live(t) THEN Mail(t) ELSE <<>>))
    BY DEF SenderOrderKept
  <2> DEFINE mail == LinesIn(mailboxes, uid[t])
  <2>1. Mail(t) = mail
    BY DEF Mail, MailboxOf, LinesIn, FirstOf
  <2>2. outbox[t] \in Seq(Messages) /\ mail \in Seq(Messages) /\ uid[t] \in Nat
    BY BoxesTyped, LinesTyped DEF TypeInv, TypeOK, TrafficTypes, ThreadTypes
  <2>3. /\ InOrder(outbox[t]) /\ InOrder(mail)
        /\ \A x \in Elems(outbox[t]), y \in Elems(mail) : Before(x, y)
    BY <2>2 DEF OrderInv, SentInOrder, BoxesInOrder
  <2> HIDE DEF mail
  <2>4. CASE Live(t)
    <3>1. InOrder(outbox[t] \o mail)
      BY ONLY <2>2, <2>3, ConcatKeepsOrder
    <3> QED BY <2>1, <2>4, <3>1
  <2>5. CASE ~Live(t)
    <3>1. InOrder(outbox[t] \o <<>>)
      <4>1. <<>> \in Seq(Messages)
        BY EmptySeq
      <4> QED BY ONLY <2>2, <2>3, <4>1, EmptyLines, ConcatKeepsOrder
    <3> QED BY <2>5, <3>1
  <2> QED BY <2>4, <2>5
<1> QED BY <1>1, OrderInvariance, TypeInvariance, PTL
=============================================================================
