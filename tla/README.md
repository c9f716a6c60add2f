# chachat: a verification development

This directory holds TLA+ models of the chachat chat server and client, the TLC
configurations that check them on small instances, and TLAPS proofs of what matters
most for every instance.

## 1. The system

The root `Makefile` builds two programs.

*Server* (`server_side/servermain.c`, `serv.c`, `db.c`, `msg_buffers.c`,
`networking/netproto.c`).  `main` opens the database, forks a daemon and starts a fixed
pool of `THREAD_COUNT` connection threads.  Each thread loops: `accept` under
`accept_lock`, then `process_connection`: agree on a nick with the client
(`client_nick`), create a message buffer (`new_buffer`), and then, until the client
disconnects or quits, wait up to 200 ms for the socket, handle one incoming message, and
pass on one message of the thread's own buffer.  A private message is looked up by nick
in the database and written to the addressee's buffer; a channel message creates the
channel and the membership when they are missing and is written to the buffer of every
member but the sender.

*Client* (`client_side2/client.c`, `test_client_main.c`, `networking/netproto.c`).  The
main thread negotiates the nick and parses the keyboard; a reader thread prints what the
server sends.

### Components

| component | state | operations | interacts through |
|---|---|---|---|
| message buffer (one ring), `msg_buffers.c` | ring of lines, `first_line`, `line_count`, mutex, condition variable | `write_to_buffer`, `read_buffer`, `read_buffer_block` | shared by all connection threads |
| buffer list, `msg_buffers.c` | singly linked list, `first_buffer`, `last_buffer`, no lock; the memory of its items | `new_buffer`, `remove_buffer`, `clear_all_msg_buffers`, lookup by `client_id` | shared by all connection threads |
| database, `db.c` | tables `users`, `channels`, `joined`; the counters `next_user_id`, `next_channel_id`, `next_join_id` | add, look up, join, part, remove | SQLite (serialised, one statement at a time), survives a restart |
| session, `servermain.c` `process_connection`, `serv.c` | where the thread is, its nick and user id, the message in hand | nick negotiation, chat, channel chat, exit, quit, deliver | database, buffers, socket |
| connection pool, `servermain.c` `conn_thread`, `main` | `accept_lock`, the descriptor each thread serves, the descriptors `main` opens | start-up, accept, serve, close | the process's descriptor table |
| wire protocol, `netproto.c` | byte stream, 43-byte header and body | `read_message`, `pass_message` | TCP |
| client, `client.c`, `test_client_main.c` | command parser state, reader thread | nick, `/chat`, `/join`, `/exit`, `/quit`, `/help` | socket |

All seven parts are modelled, some with something left out (section 6).  Left alone are the
earlier clients and servers (`client_side/`, `client_side1/`, `simple_test_server.c`,
`client_handling.c`, `test/`), which the root `Makefile` does not build, the unit tests, and
SQLite itself; `PROJECT.json` lists them with the reason.

### What is hard, and what makes each part correct

| component | what is hard to test | what has to hold |
|---|---|---|
| message buffer | wrap-around at a full ring; writers and readers between lock, wait and broadcast; early returns under the lock | it is a bounded FIFO mailbox; no line is lost, doubled or leaked; no wakeup is lost |
| buffer list | appends and searches with no lock at all; an item in the list before it is cleared; `last_buffer` after its item was removed and its memory given out again | searches end; who was in the list is found; mail that comes after `new_buffer` is kept; nothing freed is used, nothing freed twice |
| database | three counters incremented by several threads; removals of two statements; crashes between statements; `LIKE` where `UNIQUE` compares exactly | keys stay keys; no membership without its user and channel, and none listed twice; no user inherits another's channels; a key in hand is nobody else's unless two insertions race |
| sessions | a client that leaves at any step; what was looked up is stale when it is used; ids that are given out again; the process dies of SIGPIPE; a client that sends half a message or does not read | one row per live session and no other, apart from what an aborted session leaves; nobody is in a channel unasked; order of what one user sends; mail is delivered to a client that keeps up; a closed connection is noticed |
| connection pool | descriptors are reused while two functions both close the same number; a daemon that closes 0 to 2 and counts on getting them back; results nobody looks at | nothing leaks, the damage does not multiply and never reaches listener or database, no client gets the server's output (if `/dev/null` can be opened), and nobody waits for `accept_lock` in vain |
| wire protocol | `read` returns less than was asked for, or fails with messages under way | what was sent is what is received, up to a reset; the reader ends with the connection |
| client | two threads and a peer that may die at any moment; counters of the handshake on both ends; one recipient for all conversations; names typed wrong or not at all | both ends agree where the handshake ends; no nick is left without an answer; text goes where the user said; the program ends |

The list of hazards, each at its line and with the properties that cover it, is in
`PROJECT.json`.

## 2. The modules

    Mailbox            what a message buffer promises
      ^ refinement
    MsgBuffer          one ring, its mutex and condition variable
      ^ EXTENDS
    NewBuffer          the ring while new_buffer is still clearing it
    BufferList         the list the rings are in, several threads
    BufferHeap         the same list, removal and memory, one thread
    DbTables           tables and SQL statements (no threads)
      ^ EXTENDS               ^ EXTENDS
    ChatDb             ChatServer
    (threads that      (connection threads: sessions over tables
     call db.c)         and mailboxes)
    ConnPool           start-up, threads, accept_lock, descriptors
    NetProto           messages over a byte stream
    Client             client program and its server thread

`MCxyz.tla` and `MCxyz*.cfg` are the instances TLC checks, `xyzProofs.tla` holds proofs
about `xyz`, `RingProofs` those about `MsgBuffer` and `NewBuffer`.
Definitions whose name ends in `_Something`, such as `Full_OffByOne`, are slips: changed
forms of the definition after them, each of which breaks a property.  They are used
nowhere else.

**MsgBuffer** is `write_to_buffer` and `read_buffer_internal` after the search: a step is
a lock, a test, a wait, a broadcast, or one update of the ring.  `buffer`, `first_line`
and `line_count` are the fields of `msg_buffer`; `owner` is the mutex, `pc[r] =
"r_parked"` the wait set of the condition variable.  A reader may wake up for no reason
(`ReadSpurious`), and the write's `malloc` may fail (`WriteNoMemory`).  The text of a
line is a model value.

**BufferList** is `new_buffer` and the searches in `read_buffer` and `write_to_buffer`,
one access to `first_buffer`, `last_buffer` or `next_buffer` a step, in the order of the
source.  Compiler and processor reordering is not modelled.

**NewBuffer** starts where `new_buffer` has linked its item and not yet cleared it: every
slot holds `Garbage`, `cleared` is the `i` of the loop, and all steps of `MsgBuffer` may
come in between, because the loop takes no lock.  For the same reason the write of a line
has a step for each load of `buffer[slot]`: `WriteMalloc` stores, `WriteTest` compares with
NULL, `WriteCopy` and `WriteEnd` go through the pointer.  If the loop has emptied the slot
by then, the write returns 3 and the line is leaked, or the server dies (`w_died`; nothing
happens after it, `Alive`).  Two histories: `early` has the lines whose write began before the
loop ended, `wiped` those whose pointer the loop overwrote.  Stores are taken to be seen in
the order in which they are made.

**BufferHeap** is the list with its memory, used by one thread as `thread_test_main.c`
does: `malloced` is what has been malloced and not freed, and `malloc` may give out any
block that is free.  `remove_buffer` never finds the first item and leaves `last_buffer`
as it was; what happens when `new_buffer` then writes through it is the two actions
`NewBuffer` (the memory was given out again, in the worst case for the new item itself)
and `NewBufferAfterFreed` (nobody notices, or anything may happen: `pc = "undefined"`).
`frees` counts how often each line was freed.

**DbTables** has one operator for each SQL statement that changes a table, with the constraints
of `CREATE TABLE`, and the look-ups: `UsersOfChannel` and `ChannelsOfUser` are the rows for
which the callbacks make an element each.  Which nicks `LIKE` takes for which is a constant.
**ChatDb** runs threads over it that call the functions of `db.c`: an insertion loads its
counter, stores it, and executes the INSERT; a removal executes two statements, each committed,
under the mutex of the handle that `sqlite3_exec` keeps.  `CrashRestart` may come anywhere and
recomputes the counters as `init_db2` does.  The history `raced` has the tables whose counter
one thread has loaded while another was between its load and its store, since the process was
started.

**ChatServer** is what a connection thread does from `accept` to the end of the session.
`pc[t]` is where it is, `uid` and `nick` are the fields of its `cc_user`, `msg` and
`dests` the message in hand and the members still to be written to, `mailboxes` the list
of buffers.  A step makes at most one access to anything shared, so that everything
other threads can see in between is there.  Three steps stand for more than one access,
each for a reason that another module checks: a write to and a read of a mailbox (atomic:
`MsgBuffer` implements `Mailbox`); `remove_user` (`RemovalIsCovered` in `ChatDb`, proved: no other
thread sees the state between the two statements); and the append to the list
(`BufferList` shows what else may happen when two sessions start at once).  The order in
which `get_users_by_channel_name` lists the members is left open.  Where the thread waits for
its client is a place of its own: `reading`, when a part of a message has come (`ReadPart`)
and `read_message` waits for the rest or the end (`Receive`, `BodyEnds`, `Disconnected`), and
the two writes that a client which does not read can hold up, `no_user` (`AnswerNoUser`) and
`pass` (`PassMessage`).  The one-byte answers of `client_nick` are at most three on a new
connection and always fit.

**ConnPool** is the process around it: `main` opens the database, forks (the child has the
parent's descriptors), closes 0 to 2 and opens `/dev/null` three times, calls `serv_listen` and
makes the threads, and any of these may fail where the code goes on regardless.  `main` does not
look at what `open` returned, which is `nullfd` here: after `OpenNullFails` the two `dup`s of -1
fail too, and 0 to 2 stay free.  Then `conn_thread` with `accept_lock`.  `table` holds the
descriptors of the process.  `accept`, `open`, `dup` and `socket` take the lowest free number,
`close` closes whatever is open under a number.  SQLite opens and closes its journal in the same
table.

**NetProto** is `pass_message` and the two loops of `read_message`, with a `read` that
returns any part of what has been written and at most what was asked for.  A byte is
named by its message and its place, so that the properties can say which bytes end up
where.  A header with pieces of something else may have any length.  A connection is closed in
order (`Close`), or reset at any time (`Reset`): then bytes that were passed and not yet
received are discarded, `lost` is the first of them, and the reader's `read` returns -1
(`ReadFails`).

**Client** is `client_nick`, `send_message` and `reader_thread` with the server's thread as the
peer.  Lines typed are told apart as the program does.  A name after `/chat` or `/join` is a
record (`NameToken`): its first mark, the marks it has anywhere, and what follows its first
character.  This is what the program asks of it: `strchr` looks for `@` or `#` anywhere,
`sscanf` drops the first character and takes the rest, or nothing (`Recipient`).  `name` keeps
its value when none is typed and holds anything at first (`Garbage`).  The locals of the two
`client_nick` are forgotten when it ends.  An overlong nick is a pair, of which the server reads
the front and finds the rest later.  The server may die at any moment; the client then reads
nothing and goes on with what `nickExist` was (`ReadNothing`), on the first answer whatever the
stack held.

Other simplifications: `sender_id` is always the sender's own nick in `ChatServer`
(`HandshakeAgrees` in `Client` is why, as long as nicks are short enough); the bytes
`/exit` sends as channel name are whatever was on the stack, so `ReceiveExit` takes any channel
and `Client` one `Unset`; the statement of `part_channel` and that of `remove_channel` are
read as what they delete.  `accept` is given the address of a pointer to write a
socket address to; the models assume that this overwrites nothing that is read later.

## 3. The runs

| run | instance | shows |
|---|---|---|
| `msgbuffer` | 2 writers, 1 polling and 2 blocking readers, 2 slots, 3 messages | `WindowHoldsMail`, `BlockedReadReturnsLine`, `NoLostWakeup`; `ImplementsMailbox`: the ring is the mailbox; `EveryLineTaken` |
| `newbuffer` | 2 writers, 1 polling and 1 blocking reader, 2 slots, 3 messages, the clearing loop | `WindowHoldsLateMail`, `OnlyEarlyLinesLost`, `LateLinesTaken`; `CountsLikeMailbox`: the same refinement, wiped lines counted as delivered, a write that loses its slot as none |
| `bufferlist` | 2 threads, 3 items, 2 ids | `PointsForward` in every interleaving; `SerialAppendsKeepList`, `SearchFindsReady` as long as appends do not overlap |
| `bufferheap` | 3 blocks for 4 items, 2 ids, 2 lines, 1 line a buffer | `ListIsLinked`, `NothingFreedIsUsed`, `LinesInOnePlace`, `LostOnlyAfterLastRemoved` |
| `chatdb` | 2 threads, 2 nicks `LIKE` does not tell apart, 1 channel, keys up to 2 | `ListsAgree`, `KeysInHandAreFree`, `NewUserHasNoChannels` |
| `server` | 2 threads, 2 nicks, 2 proposals, 1 channel, 2 messages or exits each, mailboxes of 2, 1 crash | `SessionsAreRows`, `MembershipsAreAskedFor`, `NoEcho`, `SenderOrderKept`, `TypeOK` |
| `server_live` | 2 threads, two private messages through one and one through the other, mailboxes of 2 | `MailIsDelivered`, `ClosedSessionsEnd` |
| `connpool` | 2 threads, 3 connections, 8 descriptors; `/dev/null`, listener and threads may fail | `NoLeak`, `StraysBounded`, `OutputGoesNowhere`, `KeptOpen`, `WaitingIsAccepted` |
| `netproto` | header of 2 bytes, bodies of 0 to 3, 3 messages, an end in order or a reset | `DamageStartsAtShortRead`, `EndLosesNothing`, `ReaderEnds`, `TypeOK` |
| `client` | 2 nicks, 1 overlong, 3 tries, limits of 1, 2 mistakes, 3 lines, 1 mail, names that are good, wrong, a mark alone or missing, the server's death | `HandshakeAgrees`, `TextInConversation`, `QuitEnds`, `NickIsAnswered`, `TypeOK` |
| `addressee` | 3 threads, private messages and quitting | violated: `OnlyAddresseeReceives` |
| `leaving` | a client that leaves by `/exit` or by mistakes | violated: `LeavingEnds` |

Invariants that are proved for every instance and follow from nothing a run adds (the type
invariants of the proved modules, `LockProtects`, `NoLineOutsideWindow`, `KeysUnique`,
`RefIntegrity`, `RemovalIsCovered`, `ClearFreesAll`, `OwnRowStays`) are in no run; add their
names to the `.cfg` to have TLC look at them.

Why the bounds are enough.  A ring of 2 slots with 3 messages fills, wraps and is reused; two
writers and two blocked readers are the least for a broadcast that wakes both and leaves one
without a line; in `newbuffer` both slots can be written before they are cleared, one of them
twice.  A list of 3 items has a first, a middle and a last item, and one item is appended after
two that overlapped; in `bufferheap` a fourth item takes the memory of one that was removed,
also when `last_buffer` points there.  In `chatdb` keys up to 2 allow an id to be given out
twice, by a lost update and by a restart, and every state between two statements with the other
thread anywhere.  `server` has two sessions at once, of which one may come to its nick or id
after the other lost it, by quitting or in the crash, and two messages from each sender so that
order can go wrong, and a member who leaves, quits and is listed meanwhile.  In `server_live` a
line waits in a mailbox behind another, each thread can be held up by its own client while the
other's mail comes in, and both can at once.  `connpool` needs 5 descriptors for what `main`
opens, one each for the two threads and one for the journal; a number is closed twice and handed
out again, to a connection and to the journal.  `netproto` has bodies shorter and longer than a
header, and three messages, so that one is out of step and one follows; a reset can come before,
in and after each.  In `client` all limits are reached, and a line with a wrong or missing name
has lines before and after it.  The bounds in the modules are `MaxId`, `MaxNew`, `MaxSessions`,
`MaxSends`, `MaxCrashes`, `MaxLen`, `MaxLines` and `MaxMail`; `NickTries`, `BufferLines`,
`BUFFER_LINE_AMOUNT`, `N`, `HDRSIZE`, `Mistakes`, `MAXCHAT` and `MAXCHAN` are constants of the
program that the instances make smaller.

Symmetry is used for threads (and nicks where none is special) in runs without liveness
only.  Deadlock is checked in `chatdb`; the other systems may stop when their clients do.

**Fairness.**  Threads are scheduled: weak fairness of what a thread does on its own
(`MsgBuffer` and `NewBuffer` for each thread, a reader comes back every 200 ms; `ChatServer`
`ThreadStep`, which has reads and writes of a closed connection, because these return at once,
and none of an open one; `ConnPool` `main`, `PoolStep` and the end of a statement; `Client` main
thread, reader and server thread; `NetProto` the reader).  The clearing loop of `NewBuffer` is
under no fairness, and the properties do not need it to end.  Nobody who uses the program has to
do anything: typing, sending, reading, connecting and disconnecting are not fair.
`MailIsDelivered` therefore has a premise for the one client it speaks of, `ClientKeepsUp`: it
does not leave a message half sent for ever, and it reads, so that a write to it ends.  Both
halves are needed: without the first TLC finds a thread that stays in `reading`, without the
second one that stays in `no_user`, each with mail in its box.  `ClosedSessionsEnd` needs
neither.  No strong fairness is assumed for the mutexes: a thread may lose the race for one
again and again, but then another reader takes the line, or another thread accepts the
connection.

## 4. The proofs

For any number of threads, clients, messages and slots, from the named assumptions on the
constants alone, unless stated otherwise:

| module | theorems | inductive invariant |
|---|---|---|
| `RingProofs` (`MsgBuffer`) | `TypeCorrect`, `MutualExclusion`, `RingHoldsMail`, `NothingOutsideWindow`, `BlockedReadReturns`, `NoWakeupIsLost`, `Refinement` | `IInv`: types, lock, window and what is outside of it |
| `RingProofs` (`NewBuffer`) | `NewTypeCorrect`, `LateMailKept`, `LateMailRead`, `CountingRefinement` | `NInv`: types, lock, window with `StandsFor` in place of equality, what the slot of a writer can hold between malloc and count, that what is wiped is early, and what was taken |
| `BufferListProofs` | `TypeCorrect`, `NoCycle` | `ListInv`: types, `PointsForward`, and `Ownership`: an item being appended belongs to one thread and is not linked yet |
| | `SerialListKept`, `SearchesFind` | `SerialInv`: `ListInv`, `LinkedOnce`, and until two calls overlap the shape of the list, that one thread appends, what an appender has loaded, and what a search has still before it |
| `BufferHeapProofs` | `TypeCorrect`, `ListKept`, `NoUseAfterFree`, `OnlyLastRemovalLoses`, `ClearIsComplete` | `IInv`: types, `ListIsLinked`, `WalksInList`: where a walk can be, and `LostOnlyAfterLastRemoved` |
| | `LinesKept` | `LinesApart` with `IInv`: unwritten, returned and stored lines are apart, no line is in two slots, and a line was freed once if it is none of these and else never |
| `ChatDbProofs` | `TypeCorrect`, `KeysAreKeys`, `ReferencesHold`, `RemovalsAreCovered`, `MembershipsListedOnce`, `NewUserStartsEmpty` | `DbInv`: types, keys, references, covered removals |
| | `KeysInHandFree`, `LoneThreadKeys` | `SerialInv`: for each table not in `raced`, `Serial` of its counter, its keys and the keys in hand |
| `ChatServerProofs` | `SessionsHaveRows`, `OwnRowsStay`, both under `Exact` | `SessInv`: types, `UserKeys`, and `SessionsAreRows` itself |
| | `ServerTypes` | `TypeInv`: types, and what kind of message a session has in hand where; `IdsBounded` |
| | `MembersAsked`, `NoEchoes`, both under `Exact` | `MemberInv`: memberships have users, and `MembershipsAreAskedFor` |
| | `SenderOrder`, under `Exact` | `OrderInv`: keys of all tables, `Numbered`, `OneEntryEach`, `BoxesInOrder`, `SentInOrder` |
| `ConnPoolProofs` | `TypeCorrect`, `NothingLeaks`, `FewStrays`, `OutputIsTheServers`, `MainsAreKept` | `PoolInv`: types, `NoLeak`, `Ownership`: nobody opens what another has open, and `StartInv`: the standard descriptors at each point of the start-up; `StrayInv` |
| `NetProtoProofs` | `TypeCorrect`, `DamageIsLate`, `EndIsComplete` | `NetInv`: types, `Writer`: the bytes in the stream were passed, `NoShortRead`: the reader's place, `Pieces`: what it has of a body, and `ShortReadAt` |
| `ClientProofs` | `TypeCorrect`, `HandshakeInStep`, `TextStays` | `ClientInv`: types, `Counts`, `InStep`: what is on the connection in each phase, and `Talk` |

*The ring.*  No invariant of the ring is inductive by itself: the slot a writer fills
must be outside the window (`NoLineOutsideWindow`), which needs the lock
(`LockProtects`), and modular arithmetic, in lemmas `SlotAt`, `SlotsDiffer` and `WrapShifts`, says
that different places in the window are different slots.  The refinement maps a write to
`WriteCount` and a read to `ReadTake`; all other steps stutter.

*The ring while it is cleared.*  The loop may empty a slot at every point of a write to
it.  So the window is not the mail but stands for it: each slot has its line, or nothing
when the line was wiped.  Garbage cannot be in the window, because a write stores to the slot
before it counts it.  From the `malloc` on, the slot a writer has not counted yet stands for
its line in the same way (`FilledSlot`).  Hence a writer that finds it empty had its line
wiped, or no memory; and a wiped line was handed in before the loop ended, for the loop wipes
nothing afterwards.  In the refinement the writer that leaves with 3 and the one that dies
have never counted: all their steps stutter.

*The list.*  Although overlapping appends break the list, an item is linked once, by
the thread that has made it, and so behind anything it can point to: `next_buffer` never points
to an item linked earlier.

As long as no two calls of `new_buffer` overlap, the one that appends knows more: between
its load of `last_buffer` and its link nobody else moves the end.  A search keeps the
promise `SearchFindsReady` because the item it looks for is not behind it: what it has
passed had another id, and items are only ever linked at the end, so what is before
it stays before it.

*The heap.*  The number of the call that made an item grows along the list, so that the
linked items form one chain from the first.  A removed item can be named by `last_buffer`
only, and no walk starts there.  `LinesInOnePlace` counts the places of a line;
the induction does not count, it says that the places are apart (`LinesApart`), and
the count follows, because a set in which any two members are equal is empty or has one.
What `free_buffer` frees is gone from the list, so each of its lines moves from a slot to
the freed ones.

*The tables.*  References hold between the two statements of a removal because the
memberships go first and the mutex keeps a join out (`RemovalIsCovered` is part of the
invariant).  Therefore a user id that is given out again has no memberships.  With the
keys it follows that the two lists `ListsAgree` speaks of have each membership once.

*The counters.*  That a key in hand is free is not inductive: it takes that the counter is past
every key of the table and past the keys of those who wait for their INSERT, that a thread
between load and store has loaded the value that is there still, and that there is at most one
such thread (`Serial`).  A load while another is there makes the last untrue, and is what `raced`
notes.  Removals only take keys away, and an INSERT puts in the key it has in hand.  A restart
recomputes the counters from the keys, and the hands are empty: so whatever raced before,
`Serial` holds again.

*Sessions.*  `Exact` says that `LIKE` matches only equal nicks.  It is needed: see section 5.
The invariant then is that the users table is the set of rows of live sessions and of `ghosts`,
whom no session can remove.  Primary keys make two sessions with one id impossible in spite of
the lost updates.

*Channels.*  A membership of a session's id was inserted by that session, because the row
was new when the session began and a new user has none.  This and `NoEchoes` need
`Exact` too: `JoinChannel` finds the user by `LIKE`, and a session whose row was taken may
have to share its id.  The types do not; when `LIKE` finds several rows,
`get_user_by_nick` returns the last, and there is a last because ids have a bound in every
state (`IdsBounded`).

*Order of a sender's messages.*  A thread handles one message at a time, with number
`sent`.  Whatever it wrote before has a smaller number, and the message in hand has not been
written yet to those still in `dests` (`NotLater`).  So a mailbox stays in order when a
line is appended, and what a client was sent comes before what is left in the mailbox.  Two
things could break it.  If a member were listed twice, it would get the message twice:
`OneEntryEach` follows from the key of `joined`, from `Exact` for the channel's name,
and from the keys of users and channels.  And a mailbox is found by id: when an id is given
out again, the next user goes on with the old mailbox, so the order is stated for all
mailboxes and ids (`BoxesInOrder`), whoever they belong to, and the new user's
`outbox` begins empty.

*Descriptors.*  A close of a wrong number takes the number from at most one victim
(`OneVictim`), and whoever closed it forgets its own number in that step, except in a handshake
that fails: so the strays are counted by the failed handshakes.  What `main` has open, and 0 to 2
among it when `/dev/null` could be opened, is safe because it is never free once
threads run, and a thread only closes numbers that were free when it was given them.

*Bytes.*  `InSync` says that the bytes in the stream follow each other as they were passed,
from a given byte on, and `NextWritten` is the byte the writer goes on with.  Until a
read in a header is short the reader is at the first byte of a header or of a body; while it
collects a body, what it has and what is in the stream are one run.  A write
extends the run at its end, a read takes from its front, and so a
message is returned as passed.  A reset shortens the stream from its end, so the run stays a run; it
ends before `lost`, and nothing is written any more.  What is complete before that byte, or
before the end of what was passed, is what a reader without short reads has returned when it ends.

*The handshake.*  While the server waits for a nick, the refusals it has sent are those the
client has counted and those under way (`Counts`); both stop at the same number.  `InStep` gives
for each phase what can be on the connection: one nick or one answer, then text one way and mail
the other.  It holds until a nick is sent that does not fit (`fits`).

*The conversation.*  `Talk` says that as long as the user's last request was clear, the mode and
`nameR` are what was asked for, if the mode is still that of a conversation.  A request that
is ignored, or taken in another sense than it was typed, is `Unclear`, until the next clear one.

Every safety property a passing run checks is stated by a theorem.  Only model-checked are
the liveness properties, which are beyond the prover: `EveryLineTaken`, `LateLinesTaken`,
`MailIsDelivered`, `ClosedSessionsEnd`, `ReaderEnds`, `QuitEnds`, `NickIsAnswered` and
`WaitingIsAccepted`.  The properties of `addressee` and `leaving` do not hold (section 5).

## 5. What the models show of the code

Two places where the program does not do what its documentation says, each with a run
that shows it:

- *Mail of an earlier owner of an id* (`addressee`, `db.c` l.677).  Two registrations
  load the same `next_user_id`; the delayed store of one puts the counter back, and an id is
  given out again after its owner quit.  Buffers are found by id and never removed: the
  new owner reads what was written to the old one.
- *A client that does not end* (`leaving`, `test_client_main.c` l.171).  After `/exit`
  or three mistakes, main thread, reader thread and server wait for each other.

The models contain further behaviour that the properties step around, by naming the
condition under which they hold:

- *A row removed by somebody else* (`ChatServer`, `Exact`; `db.c` l.759).  `remove_user` uses
  `LIKE`, registration `UNIQUE`: when Bob quits, bob is removed too.  `OwnRowsStay` is
  the proof that nothing else takes a session's row away.
- *A mailbox in use before it is cleared* (`NewBuffer`, `early`).  A line written before
  `new_buffer` returns may be wiped.  When it was counted, or is counted all the same, a reader
  gets nothing in its turn, once, and room is neither lost nor gained.  When the slot is emptied
  between `malloc` and test, 3 is returned and the line leaked.  When it is emptied between test and
  `memcpy` or the final `'\0'`, the write goes through a null pointer and the server dies.
- *Half a message, or a client that does not read* (`ChatServer`, `ClientKeepsUp`).  The thread
  of such a client waits in `read_message`, or in a write, as long as the connection is open;
  its mail fills the mailbox, and what comes then is lost.  Other threads are not held up.
- *No `/dev/null`* (`ConnPool`, `OpenNullFails`).  `main` goes on with 0 to 2 closed: the
  listener gets 0, whatever is opened next gets 1 and 2, which are the first two clients or
  SQLite's journal, and what the server prints goes there.
- *Insertions that race for a counter* (`ChatDb`, `raced`).  Two threads then hold one key, of
  which one INSERT is refused, or a counter is put back to keys that are in use, and insertions
  are refused until it is past them again.  A restart ends this.
- *The last item removed* (`BufferHeap`, `lastRemoved`).  `last_buffer` then points to freed
  memory; the next `new_buffer` writes there, or, when `malloc` returns just that block,
  makes the item point to itself, in no list.  The first item is never removed.
- *No listener* (`ConnPool`, `ServListenFails`).  `main` makes its threads all the same, and
  they call `accept` with -1 for ever.
- *A server that dies in the handshake* (`Client`, `ReadNothing`).  The client takes what
  `nickExist` was for the answer: it shows its prompt as if accepted, or asks for another nick.
- *Overlapping appends* (`BufferList`, `overlap`).  Between the stores to `first_buffer`
  and `last_buffer` by one thread another finds a first and no last item and writes
  through the null pointer (`LoadNull`).  Two that load the same `last_buffer` both link
  behind it, and one mailbox is in no list.  Two that both find the list empty may leave
  `first_buffer` and `last_buffer` at different items; then everything appended later is
  unreachable, and the mail for it is refused.
- *Two closes* (`ConnPool`, `Strays`).  After a failed handshake the number is closed
  twice; in between another thread may have been given it for its client, whose connection is
  closed, and whose own close then hits the next.
- *Short reads* (`NetProto`, `short`).  After the first short read in a header, its
  message and what follows are out of step; after one in a body, what follows.
- *A reset* (`NetProto`, `lost`).  Messages that were passed before the end are never
  returned, and nobody is told; the reader still ends, and what it returned is right.
- *Mail for a user without mailbox* (`ChatServer`, `WriteToBuffer`).  A user can be
  found in the table before `new_buffer` has made its buffer, and the line is lost; so is a
  line for a full buffer.  The sender is not told.
- *Ignored and misread commands* (`Client`, `Unclear`).  With both counters at their limits
  `/chat` and `/join` do nothing, and text goes to the conversation before.  A mark alone
  (`/chat @ bob`) opens a conversation with the previous recipient; a mark elsewhere (`/chat
  bob@`) one with `ob@`; and a command without a name takes the name scanned last, if there was
  one.
- *Overlong nicks* (`Client`, `fits`).  They are sent all the same after a refusal, and
  the rest is taken for the next nick or message.

## 6. Not modelled

`clear_db` and channel topics (unit test only); `server_read` of `netproto.c` (called by no
program); the layout of a header and of the string that `serialize_everything` makes of header
and body for a mailbox and `split_datas` takes apart again (a message is one value in
`ChatServer`, a sequence of named bytes in `NetProto`); the elements of the linked lists the SQL
callbacks build, beyond what is in them; address look-up, terminal modes and all output of the
client; a command word of more than five letters, which `sscanf` writes past the end of
`cmd[6]`.

`simple_test_server.c`, `client_handling.c` and `msgControl.c` are in no makefile.
`client_side1` and `client_side` are earlier forms of `client_side2` with the same
`client_nick`; there, a line of text starts another reader thread on the same socket, which
`client_side2` no longer does.  `test/testserver/serv.c` is a copy of `serv.c`.  The unit tests
call what the modules call, in one order.

Of the repository's lines three quarters are two copies of `sqlite3.h`, so the share of
all lines that a model can stand for is small; of what the root `Makefile` compiles most is
covered.

## 7. Plan

Done, in this order: `Mailbox` and `MsgBuffer`; `DbTables` and `ChatDb`; `ChatServer`;
`NetProto`; `Client`; `BufferList`; `ConnPool`; their proofs; `NewBuffer`; `BufferHeap`; the
look-ups of `DbTables`; start-up in `ConnPool`; the server's death in `Client`; the proofs of
all safety properties; the writes of `NewBuffer` load by load; the waits for the client in
`ChatServer`; the reset in `NetProto`; names in `Client`; the failing `open` in `ConnPool`;
races for the counters in `ChatDb`.

Next, the models:

1. `Client` and `NetProto` composed, so that the handshake runs over bytes.
2. The elements the callbacks build (`user_callback`, `multi_user_callback`,
   `free_cc_user`): what is freed once and what never.
3. The reader threads of `client_side1`, as a second system of `NetProto`'s reader.

And the proofs:

1. That mail reaches only whom it was meant for as long as no delayed store puts
   `next_user_id` back: what `addressee` refutes without the condition.
2. That `ChatServer` without crashes implements the tables of `ChatDb`, step by step.
