----------------------------- MODULE ChatServer -----------------------------
(***************************************************************************)
(* The connection threads of the chachat server: process_connection of     *)
(* servermain.c with client_nick and the message handlers of serv.c, over  *)
(* the tables of DbTables and one bounded FIFO mailbox per registration    *)
(* (the list and rings of msg_buffers.c, as Mailbox and MsgBuffer have     *)
(* it).  A thread serves one client after the other.  Each step makes at   *)
(* most one access to what the threads share: a counter, an SQL statement, *)
(* a mailbox.  The two statements of remove_user are one step here, as no  *)
(* other thread gets between them (ChatDb).  Clients send their own nick as *)
(* sender_id.                                                              *)
(***************************************************************************)
EXTENDS DbTables, Sequences

CONSTANTS
    Threads,       \* connection threads
    Empty,         \* the empty nick, what a client that closed has sent
    Commands,      \* what clients send: subset of {"chat", "chan", "exit", "quit"}
    BufferLines,   \* BUFFER_LINE_AMOUNT
    NickTries,     \* proposals a client may make (3)
    MaxSessions,   \* bound: clients a thread serves
    MaxSends,      \* bound: messages (but /quit) and parts of them through each thread
    MaxCrashes     \* bound: times the process dies

ASSUME ServerAssumption ==
    /\ Empty \in Nicks
    /\ Commands \subseteq {"chat", "chan", "exit", "quit"}
    /\ BufferLines \in Nat \ {0}
    /\ NickTries \in Nat \ {0}
    /\ MaxSessions \in Nat /\ MaxSends \in [Threads -> Nat] /\ MaxCrashes \in Nat

VARIABLES
    pc,            \* where each thread is
    open,          \* the client's end of the thread's connection is open
    tries,         \* nick proposals refused so far
    nick,          \* user->nick, or the nick being proposed
    uid,           \* user->user_id, or the id being tried
    msg,           \* the message being handled
    newid,         \* channel or join id loaded from its counter
    dests,         \* memberships still to be written the message
    mailboxes,     \* the list of message buffers, in the order of creation
    outbox,        \* what has been written, or begun to be, to the client of the session
    sessions,      \* clients the thread has accepted
    sent,          \* messages and parts of messages the thread has read
    ghosts,        \* history: rows of users whose session ended without removing them
    asked,         \* history: channels the client of the session has written to
    crashes

session == <<tries, nick, uid, msg, newid, dests>>
traffic == <<mailboxes, outbox>>
bounds == <<sessions, sent, crashes>>
vars == <<tables, counters, pc, open, session, traffic, bounds, ghosts, asked>>

NoMsg == [kind |-> "none", src |-> "none", n |-> 0, to |-> Empty]

Init ==
    /\ DbInit
    /\ pc = [t \in Threads |-> "accept"]
    /\ open = [t \in Threads |-> FALSE]
    /\ tries = [t \in Threads |-> 0]
    /\ nick = [t \in Threads |-> Empty]
    /\ uid = [t \in Threads |-> 0]
    /\ msg = [t \in Threads |-> NoMsg]
    /\ newid = [t \in Threads |-> 0]
    /\ dests = [t \in Threads |-> {}]
    /\ mailboxes = <<>>
    /\ outbox = [t \in Threads |-> <<>>]
    /\ sessions = [t \in Threads |-> 0]
    /\ sent = [t \in Threads |-> 0]
    /\ ghosts = {}
    /\ asked = [t \in Threads |-> {}]
    /\ crashes = 0

Goto(t, from, to) == pc[t] = from /\ pc' = [pc EXCEPT ![t] = to]

Row(t) == [id |-> uid[t], nick |-> nick[t]]

(* The thread closes the connection and goes back to accept. *)
EndSession(t) ==
    /\ open' = [open EXCEPT ![t] = FALSE]
    /\ tries' = [tries EXCEPT ![t] = 0]
    /\ nick' = [nick EXCEPT ![t] = Empty]
    /\ uid' = [uid EXCEPT ![t] = 0]
    /\ msg' = [msg EXCEPT ![t] = NoMsg]
    /\ newid' = [newid EXCEPT ![t] = 0]
    /\ dests' = [dests EXCEPT ![t] = {}]
    /\ outbox' = [outbox EXCEPT ![t] = <<>>]
    /\ asked' = [asked EXCEPT ![t] = {}]

-----------------------------------------------------------------------------
(* Connecting *)

Accept(t) ==
    /\ Goto(t, "accept", "nick")
    /\ sessions[t] < MaxSessions
    /\ sessions' = [sessions EXCEPT ![t] = @ + 1]
    /\ open' = [open EXCEPT ![t] = TRUE]
    /\ UNCHANGED <<tables, counters, session, traffic, sent, crashes, ghosts, asked>>

(* The client, or its end of the network, goes away. *)
ClientCloses(t) ==
    /\ open[t]
    /\ open' = [open EXCEPT ![t] = FALSE]
    /\ UNCHANGED <<tables, counters, pc, session, traffic, bounds, ghosts, asked>>

(* client_nick reads a nick (of a closed connection: nothing, which is     *)
(* taken for the empty nick); add_user_server loads the counter.           *)
ReadNick(t, n) ==
    /\ Goto(t, "nick", "u_store")
    /\ n = Empty => ~open[t]
    /\ nick' = [nick EXCEPT ![t] = n]
    /\ uid' = [uid EXCEPT ![t] = next_user_id]
    /\ UNCHANGED <<tables, counters, open, tries, msg, newid, dests, traffic, bounds, ghosts, asked>>

(* read returns -1: the connection was reset. *)
NickReadFails(t) ==
    /\ Goto(t, "nick", "accept")
    /\ ~open[t]
    /\ EndSession(t)
    /\ UNCHANGED <<tables, counters, mailboxes, bounds, ghosts>>

StoreUserId(t) ==
    /\ Goto(t, "u_store", "u_insert")
    /\ next_user_id' = uid[t] + 1
    /\ UNCHANGED <<tables, next_channel_id, next_join_id, open, session, traffic, bounds,
                   ghosts, asked>>

RegisterNick(t) ==
    /\ Goto(t, "u_insert", "reply")
    /\ UserFits(uid[t], nick[t])
    /\ InsertUser(uid[t], nick[t])
    /\ UNCHANGED <<channels, joined, counters, open, session, traffic, bounds, ghosts, asked>>

MayRetry_OffByOne(t) == tries[t] < NickTries
MayRetry(t) == tries[t] + 1 < NickTries

(* The INSERT failed: '2' to the client, and another try. *)
RefuseNick(t) ==
    /\ Goto(t, "u_insert", "nick")
    /\ ~UserFits(uid[t], nick[t])
    /\ MayRetry(t)
    /\ tries' = [tries EXCEPT ![t] = @ + 1]
    /\ nick' = [nick EXCEPT ![t] = Empty]
    /\ uid' = [uid EXCEPT ![t] = 0]
    /\ UNCHANGED <<tables, counters, open, msg, newid, dests, traffic, bounds, ghosts, asked>>

(* The last try, or the '2' could not be written. *)
GiveUpNick(t) ==
    /\ Goto(t, "u_insert", "accept")
    /\ ~UserFits(uid[t], nick[t])
    /\ ~MayRetry(t) \/ ~open[t]
    /\ EndSession(t)
    /\ UNCHANGED <<tables, counters, mailboxes, bounds, ghosts>>

(* '1' to the client, then new_buffer. *)
StartSession(t) ==
    /\ Goto(t, "reply", "loop")
    /\ mailboxes' = Append(mailboxes, [id |-> uid[t], lines |-> <<>>])
    /\ UNCHANGED <<tables, counters, open, session, outbox, bounds, ghosts, asked>>

(* The '1' could not be written: the row stays. *)
ReplyFails(t) ==
    /\ Goto(t, "reply", "accept")
    /\ ~open[t]
    /\ ghosts' = ghosts \cup {Row(t)}
    /\ EndSession(t)
    /\ UNCHANGED <<tables, counters, mailboxes, bounds>>

-----------------------------------------------------------------------------
(* Mailboxes: both searches of the list stop at the first match. *)

MailboxOf(i) ==
    LET found == {k \in DOMAIN mailboxes : mailboxes[k].id = i}
    IN  IF found = {} THEN 0 ELSE CHOOSE k \in found : \A l \in found : k <= l

(* A mailbox that takes new lines at the wrong end. *)
Put_Front(q, m) == <<m>> \o q
Put(q, m) == Append(q, m)

(* A line for a mailbox that is missing or full is lost. *)
WriteToBuffer(i, m) ==
    LET k == MailboxOf(i) IN
    IF k # 0 /\ Len(mailboxes[k].lines) < BufferLines
    THEN mailboxes' = [mailboxes EXCEPT ![k].lines = Put(@, m)]
    ELSE UNCHANGED mailboxes

Mail(t) == LET k == MailboxOf(uid[t])
           IN  IF k = 0 THEN <<>> ELSE mailboxes[k].lines

(* What is written to a client that closed is lost. *)
Sent(t, m) == outbox' = IF open[t] THEN [outbox EXCEPT ![t] = Append(@, m)] ELSE outbox

-----------------------------------------------------------------------------
(* One turn of the loop: a message of the client, if there is one, then a  *)
(* line of the mailbox, if there is one.                                   *)

(* pselect has found something, but read_message needs the rest of the     *)
(* header or of the body: it waits for it, and the mailbox with it.        *)
ReadPart(t) ==
    /\ Goto(t, "loop", "reading")
    /\ sent[t] < MaxSends[t]
    /\ sent' = [sent EXCEPT ![t] = @ + 1]
    /\ UNCHANGED <<tables, counters, open, session, traffic, sessions, crashes, ghosts, asked>>

(* The connection ends in the middle of a body: read_message returns 0.    *)
BodyEnds(t) ==
    /\ Goto(t, "reading", "deliver")
    /\ ~open[t]
    /\ UNCHANGED <<tables, counters, open, session, traffic, bounds, ghosts, asked>>

(* A message is there at once, or after a part of it.                      *)
Reads(t) == pc[t] \in {"loop", "reading"}

Receive(t, kind, to) ==
    /\ Reads(t)
    /\ kind \in Commands
    /\ sent[t] < MaxSends[t]
    /\ sent' = [sent EXCEPT ![t] = @ + 1]
    /\ msg' = [msg EXCEPT ![t] =
                 [kind |-> kind, src |-> t, n |-> sent[t] + 1, to |-> to]]

(* chatMessageHandle: get_user_by_nick finds somebody, or nobody. *)
ReceiveChat(t, to) ==
    /\ Receive(t, "chat", to)
    /\ IF UsersLike(to) = {}
       THEN /\ pc' = [pc EXCEPT ![t] = "no_user"]
            /\ UNCHANGED dests
       ELSE /\ pc' = [pc EXCEPT ![t] = "write"]
            /\ dests' = [dests EXCEPT ![t] =
                  {[userid |-> UserByNick(to).id, nick |-> UserByNick(to).nick, joinid |-> 0]}]
    /\ UNCHANGED <<tables, counters, open, tries, nick, uid, newid, traffic, sessions, crashes,
                   ghosts, asked>>

(* "... doesn't exit!" straight to the sender; the write may have to wait  *)
(* for the client to read.                                                 *)
AnswerNoUser(t) ==
    /\ Goto(t, "no_user", "deliver")
    /\ Sent(t, [msg[t] EXCEPT !.kind = "no_user"])
    /\ UNCHANGED <<tables, counters, open, session, mailboxes, bounds, ghosts, asked>>

(* write_to_buffer of one addressee; its result is ignored. *)
WriteTo(t, d) ==
    /\ pc[t] = "write"
    /\ d \in dests[t]
    /\ WriteToBuffer(d.userid, msg[t])
    /\ dests' = [dests EXCEPT ![t] = @ \ {d}]
    /\ pc' = [pc EXCEPT ![t] = IF dests[t] = {d} THEN "deliver" ELSE "write"]
    /\ UNCHANGED <<tables, counters, open, tries, nick, uid, msg, newid, outbox, bounds,
                   ghosts, asked>>

(* chanMessageHandle: client_to_channel asks for the channel ... *)
ReceiveChan(t, c) ==
    /\ Receive(t, "chan", c)
    /\ pc' = [pc EXCEPT ![t] = IF ChannelsLike(c) = {} THEN "c_load" ELSE "members"]
    /\ asked' = [asked EXCEPT ![t] = @ \cup {c}]
    /\ UNCHANGED <<tables, counters, open, tries, nick, uid, newid, dests, traffic, sessions,
                   crashes, ghosts>>

(* ... adds it when there is none ... *)
LoadChannelId(t) ==
    /\ Goto(t, "c_load", "c_store")
    /\ newid' = [newid EXCEPT ![t] = next_channel_id]
    /\ UNCHANGED <<tables, counters, open, tries, nick, uid, msg, dests, traffic, bounds,
                   ghosts, asked>>

StoreChannelId(t) ==
    /\ Goto(t, "c_store", "c_insert")
    /\ next_channel_id' = newid[t] + 1
    /\ UNCHANGED <<tables, next_user_id, next_join_id, open, session, traffic, bounds, ghosts,
                   asked>>

AddChannel(t) ==
    /\ Goto(t, "c_insert", "members")
    /\ InsertChannel(newid[t], msg[t].to)
    /\ UNCHANGED <<users, joined, counters, open, session, traffic, bounds, ghosts, asked>>

IsMember(t) == \E m \in MembersOf(msg[t].to) : m.nick = nick[t]

(* ... and joins the sender to it when it is not a member. *)
FindMember(t) ==
    /\ pc[t] = "members"
    /\ pc' = [pc EXCEPT ![t] = IF IsMember(t) THEN "snapshot" ELSE "j_load"]
    /\ UNCHANGED <<tables, counters, open, session, traffic, bounds, ghosts, asked>>

LoadJoinId(t) ==
    /\ Goto(t, "j_load", "j_store")
    /\ newid' = [newid EXCEPT ![t] = next_join_id]
    /\ UNCHANGED <<tables, counters, open, tries, nick, uid, msg, dests, traffic, bounds,
                   ghosts, asked>>

StoreJoinId(t) ==
    /\ Goto(t, "j_store", "j_insert")
    /\ next_join_id' = newid[t] + 1
    /\ UNCHANGED <<tables, next_user_id, next_channel_id, open, session, traffic, bounds,
                   ghosts, asked>>

JoinChannel(t) ==
    /\ Goto(t, "j_insert", "snapshot")
    /\ InsertJoined(newid[t], nick[t], msg[t].to)
    /\ UNCHANGED <<users, channels, counters, open, session, traffic, bounds, ghosts, asked>>

(* Everybody but the sender, by nick. *)
Others_All(t, members) == members
Others(t, members) == {m \in members : m.nick # nick[t]}

(* The list of members the message goes to is read once. *)
ListMembers(t) ==
    /\ pc[t] = "snapshot"
    /\ dests' = [dests EXCEPT ![t] = Others(t, MembersOf(msg[t].to))]
    /\ pc' = [pc EXCEPT ![t] = IF dests'[t] = {} THEN "deliver" ELSE "write"]
    /\ UNCHANGED <<tables, counters, open, tries, nick, uid, msg, newid, traffic, bounds,
                   ghosts, asked>>

ReceiveExit(t, c) ==
    /\ Receive(t, "exit", c)
    /\ pc' = [pc EXCEPT ![t] = "deliver"]
    /\ DeleteMembership(nick[t], c)
    /\ UNCHANGED <<users, channels, counters, open, tries, nick, uid, newid, dests, traffic,
                   sessions, crashes, ghosts, asked>>

RemoveUser_KeepsJoined(n) == DeleteUsers(n) /\ UNCHANGED joined
RemoveUser(n) == DeleteMemberships(n) /\ DeleteUsers(n)

(* quitMessageHandle removes the user and process_connection returns. *)
ReceiveQuit(t) ==
    /\ Reads(t) /\ pc' = [pc EXCEPT ![t] = "accept"]
    /\ "quit" \in Commands
    /\ RemoveUser(nick[t])
    /\ EndSession(t)
    /\ UNCHANGED <<channels, counters, mailboxes, bounds, ghosts>>

(* A slip: the end of the connection is taken for an empty turn. *)
Disconnected_Continue(t) ==
    /\ Reads(t) /\ pc' = [pc EXCEPT ![t] = "deliver"]
    /\ UNCHANGED <<tables, counters, open, session, traffic, bounds, ghosts, asked>>

(* read_message fails: the loop ends and the user is removed.  A header    *)
(* that arrives in pieces is taken for a closed connection, once the rest  *)
(* of it has come.                                                         *)
Disconnected(t) ==
    /\ Reads(t) /\ pc' = [pc EXCEPT ![t] = "accept"]
    /\ RemoveUser(nick[t])
    /\ EndSession(t)
    /\ UNCHANGED <<channels, counters, mailboxes, bounds, ghosts>>

(* After the message, or when pselect times out (a closed connection       *)
(* counts as readable), the turn goes on to the mailbox.                   *)
TurnGoesOn_IfReceived(t) == pc[t] = "deliver"
TurnGoesOn(t) == pc[t] = "deliver" \/ (pc[t] = "loop" /\ open[t])

(* read_buffer, and pass_message begins to write: at most one line a turn. *)
Deliver(t) ==
    /\ TurnGoesOn(t)
    /\ IF Mail(t) = <<>>
       THEN /\ pc' = [pc EXCEPT ![t] = "loop"]
            /\ UNCHANGED <<mailboxes, outbox>>
       ELSE /\ pc' = [pc EXCEPT ![t] = "pass"]
            /\ mailboxes' = [mailboxes EXCEPT ![MailboxOf(uid[t])].lines = Tail(@)]
            /\ Sent(t, Head(Mail(t)))
    /\ msg' = [msg EXCEPT ![t] = NoMsg]
    /\ newid' = [newid EXCEPT ![t] = 0]
    /\ UNCHANGED <<tables, counters, open, tries, nick, uid, dests, bounds, ghosts,
                   asked>>

(* pass_message returns, whatever it returns: the socket has taken the     *)
(* line, for which the client may have to read first, or failed.           *)
PassMessage(t) ==
    /\ Goto(t, "pass", "loop")
    /\ UNCHANGED <<tables, counters, open, session, traffic, bounds, ghosts, asked>>

-----------------------------------------------------------------------------
(* Writing to a socket whose client is gone raises SIGPIPE, which nobody   *)
(* handles: the process dies with all its threads and is started again.    *)
(* The tables keep the rows of all sessions.                               *)
WritesToClosed(t) ==
    /\ ~open[t]
    /\ \/ pc[t] \in {"reply", "no_user", "pass"}
       \/ (pc[t] = "u_insert" /\ ~UserFits(uid[t], nick[t]))

Crash(t) ==
    /\ WritesToClosed(t)
    /\ crashes < MaxCrashes
    /\ crashes' = crashes + 1
    /\ pc' = [u \in Threads |-> "accept"]
    /\ open' = [u \in Threads |-> FALSE]
    /\ tries' = [u \in Threads |-> 0]
    /\ nick' = [u \in Threads |-> Empty]
    /\ uid' = [u \in Threads |-> 0]
    /\ msg' = [u \in Threads |-> NoMsg]
    /\ newid' = [u \in Threads |-> 0]
    /\ dests' = [u \in Threads |-> {}]
    /\ mailboxes' = <<>>
    /\ outbox' = [u \in Threads |-> <<>>]
    /\ asked' = [u \in Threads |-> {}]
    /\ ghosts' = users
    /\ LoadCounters
    /\ UNCHANGED <<tables, sessions, sent>>

-----------------------------------------------------------------------------
(* What a thread does without waiting for its client. *)
ThreadStep(t) ==
    \/ (~open[t] /\ ReadNick(t, Empty))
    \/ StoreUserId(t) \/ RegisterNick(t) \/ RefuseNick(t) \/ GiveUpNick(t)
    \/ StartSession(t) \/ ReplyFails(t)
    \/ (\E d \in dests[t] : WriteTo(t, d))
    \/ LoadChannelId(t) \/ StoreChannelId(t) \/ AddChannel(t) \/ FindMember(t)
    \/ LoadJoinId(t) \/ StoreJoinId(t) \/ JoinChannel(t) \/ ListMembers(t)
    \/ Deliver(t)
    \/ (~open[t] /\ (Disconnected(t) \/ BodyEnds(t) \/ AnswerNoUser(t) \/ PassMessage(t)))

(* A write to a client, which waits while the socket is full. *)
WriteStep(t) == AnswerNoUser(t) \/ PassMessage(t)

ClientStep(t) ==
    \/ Accept(t) \/ ClientCloses(t) \/ NickReadFails(t) \/ ReadPart(t)
    \/ \E n \in Nicks : ReadNick(t, n)
    \/ \E n \in Nicks \ {Empty} : ReceiveChat(t, n)
    \/ \E c \in Channels : ReceiveChan(t, c) \/ ReceiveExit(t, c)
    \/ ReceiveQuit(t) \/ Disconnected(t)

Step(t) == ThreadStep(t) \/ WriteStep(t) \/ ClientStep(t)

Next == \E t \in Threads : Step(t) \/ Crash(t)

Spec == Init /\ [][Next]_vars

(* The scheduler runs every thread that can go on; clients need not act,   *)
(* not even read.                                                          *)
FairSpec == Spec /\ \A t \in Threads : WF_vars(ThreadStep(t))

-----------------------------------------------------------------------------
(* A thread has a registered user: from the INSERT to the removal. *)
Live(t) == pc[t] \notin {"accept", "nick", "u_store", "u_insert"}

Messages == [kind : {"none", "chat", "chan", "exit", "no_user"},
             src : Threads \cup {"none"}, n : Nat, to : Nicks \cup Channels]
Entries == [userid : Nat, nick : Nicks, joinid : Nat]

ThreadTypes ==
    /\ pc \in [Threads -> {"accept", "nick", "u_store", "u_insert", "reply", "loop",
                           "reading", "no_user", "write", "c_load", "c_store", "c_insert",
                           "members", "j_load", "j_store", "j_insert", "snapshot", "deliver",
                           "pass"}]
    /\ open \in [Threads -> BOOLEAN]
    /\ nick \in [Threads -> Nicks]
    /\ uid \in [Threads -> Nat]
    /\ msg \in [Threads -> Messages]
    /\ newid \in [Threads -> Nat]
    /\ dests \in [Threads -> SUBSET Entries]
    /\ asked \in [Threads -> SUBSET Channels]

TrafficTypes ==
    /\ mailboxes \in Seq([id : Nat, lines : Seq(Messages)])
    /\ outbox \in [Threads -> Seq(Messages)]

CountTypes ==
    /\ tries \in [Threads -> 0 .. NickTries - 1]
    /\ sessions \in [Threads -> Nat] /\ sent \in [Threads -> Nat] /\ crashes \in Nat

(* Type invariant: in particular, nobody makes more proposals than allowed. *)
TypeOK ==
    /\ DbTypeOK /\ ThreadTypes /\ TrafficTypes /\ CountTypes
    /\ ghosts \subseteq [id : Nat, nick : Nicks]

(* The users table is exactly the live sessions and the ghosts: each       *)
(* session keeps its row until it ends itself, no two sessions have a nick *)
(* or an id (and so a mailbox) in common, and a row outlives its session   *)
(* only where the '1' could not be written or the process died.  Needs     *)
(* nicks that LIKE tells apart as UNIQUE does: see OwnRowStays.            *)
SessionsAreRows ==
    /\ users = ghosts \cup {Row(t) : t \in {u \in Threads : Live(u)}}
    /\ \A t \in Threads : Live(t) => Row(t) \notin ghosts
    /\ \A t, u \in Threads : Live(t) /\ Live(u) /\ t # u =>
          uid[t] # uid[u] /\ nick[t] # nick[u]

(* Quitting deletes the user's own information (README.md l.135) and not   *)
(* the row of a live session.  This, too, needs such nicks: when LIKE does *)
(* not tell "Bob" from "bob", remove_user of one deletes both.             *)
OwnRowStays == \A t \in Threads : Live(t) => Row(t) \in users

(* A session is a member of no channel its client has not written to, also *)
(* when its user id has been somebody else's before.                       *)
MembershipsAreAskedFor ==
    \A t \in Threads, j \in joined : Live(t) /\ j.userid = uid[t] =>
        \E ch \in channels : ch.id = j.channelid /\ ch.name \in asked[t]

(* A channel message does not come back to its sender: skipping the        *)
(* sender's nick is enough to keep it out of the sender's mailbox, though  *)
(* the list of members was read before the writes.                         *)
NoEcho ==
    \A t \in Threads : pc[t] = "write" /\ msg[t].kind = "chan" =>
        \A d \in dests[t] : d.userid # uid[t]

(* What a client receives from one sender arrives in the order sent and    *)
(* never twice, over private and channel messages alike.                   *)
InOrder(q) ==
    \A i, j \in DOMAIN q :
        i < j /\ q[i].src = q[j].src /\ "no_user" \notin {q[i].kind, q[j].kind} => q[i].n < q[j].n
SenderOrderKept ==
    \A t \in Threads : InOrder(outbox[t] \o (IF Live(t) THEN Mail(t) ELSE <<>>))

(* Every line in the mailbox of a session is taken to be sent to its       *)
(* client, unless the session ends: no turn of the loop can leave it there *)
(* for ever, whatever other lines arrive.  But the thread that polls the   *)
(* mailbox also waits for its client, in read_message and in pass_message: *)
(* the client must send the rest of what it has begun to send, and read,   *)
(* so that writes to it end.                                               *)
ClientKeepsUp(t) == []<>(pc[t] # "reading") /\ WF_vars(WriteStep(t))
Waits(t, u, i) == Live(t) /\ \E k \in DOMAIN Mail(t) : Mail(t)[k].src = u /\ Mail(t)[k].n = i
MailIsDelivered ==
    \A t \in Threads : ClientKeepsUp(t) =>
        \A u \in Threads : \A i \in 1 .. MaxSends[u] : Waits(t, u, i) ~> ~Waits(t, u, i)

(* A session whose client has closed ends, and so gives its nick back.     *)
ClosedSessionsEnd == \A t \in Threads : ~open[t] ~> pc[t] = "accept"

-----------------------------------------------------------------------------
(* What the documentation says and the code does not keep. *)

(* msg_buffers.h l.29-30: what is written to a client's buffer is read by  *)
(* that client's connection thread.                                        *)
OnlyAddresseeReceives ==
    \A t \in Threads : \A k \in DOMAIN outbox[t] :
        outbox[t][k].kind = "chat" => outbox[t][k].to = nick[t]
=============================================================================
