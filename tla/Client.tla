------------------------------- MODULE Client -------------------------------
(***************************************************************************)
(* The client: client_nick and send_message of client.c in the main thread *)
(* and reader_thread of test_client_main.c, with the server's thread at    *)
(* the other end of the connection (process_connection, client_nick; what  *)
(* it shares with other threads is in ChatServer).  The user types one     *)
(* line at a time; lines are told apart as the program tells them apart.   *)
(* Messages arrive whole (NetProto); a nick of more than MAX_NICKLEN - 1   *)
(* bytes is a pair: the server reads its front and finds the rest later.   *)
(***************************************************************************)
EXTENDS Naturals, Sequences

CONSTANTS
    Nicks,         \* nicks that fit
    LongNicks,     \* overlong nicks, pairs of nicks that fit
    Empty,         \* the empty line: nothing is written
    Recipients,    \* users, channels, and what is neither
    Typed,         \* what may follow /chat or /join (NameToken)
    NickTries,     \* tries for an overlong first nick, and answers read (3)
    MAXCHAT, MAXCHAN,
    Mistakes,      \* mistakes after which send_message returns (3)
    MaxLines,      \* bound: lines the user types at the prompt
    MaxMail        \* bound: messages from others

(* A name as it is typed: its first mark, '@' ("1") or '#' ("2"), if it     *)
(* begins with one; the marks it has anywhere; and what follows its first  *)
(* character, which may be nothing.                                        *)
NameToken(rests) == [first : {"0", "1", "2"}, marks : SUBSET {"1", "2"}, rest : rests]

Unset == "unset"
Blank == "blank"

ASSUME ClientAssumption ==
    /\ Typed \subseteq NameToken(Recipients \cup {Blank})
    /\ Empty \notin Nicks /\ LongNicks \subseteq Nicks \X Nicks
    /\ NickTries \in Nat \ {0} /\ MAXCHAT \in Nat /\ MAXCHAN \in Nat
    /\ Mistakes \in Nat \ {0} /\ MaxLines \in Nat /\ MaxMail \in Nat

VARIABLES
    pc,            \* main thread: "nick", "answer", "prompt", "leave" (pthread_join), "done",
                   \*   or "killed" by SIGPIPE or the user
    long,          \* overlong first nicks so far: 3 - nickCnt
    answers,       \* answers read: existCnt (both are forgotten with client_nick)
    nick,          \* the line typed last as a nick, then sender_id
    firstbyte, chtCnt, chnCnt, mstk,   \* locals of send_message
    name,          \* the name scanned last: stays as it was when none is typed
    nameR,         \* the recipient taken from it
    reader,        \* reader_thread: "none", "reads", "ended"
    up, down,      \* the connection, to the server and back
    srv,           \* the server's thread: "nick", "serves", "garbled", "closed"
    refused,       \* nicks it has refused (forgotten with the server's client_nick)
    user,          \* the nick it has registered
    lines, mails,  \* bounds
    talk,          \* history: the conversation the user asked for last
    fits           \* history: no overlong nick was sent

nicks == <<long, answers, nick>>
chat == <<firstbyte, name, nameR, chtCnt, chnCnt, mstk>>
server == <<srv, refused, user>>
history == <<talk, fits>>
vars == <<pc, nicks, chat, reader, up, down, server, lines, mails, history>>

(* /chat or /join was ignored, or taken without a name or with a wrong one. *)
Unclear == <<"?", Unset>>

(* name and nameR are not initialised: either mark may be found in name,   *)
(* and need not (Typo).                                                    *)
Garbage == [first |-> "0", marks |-> {"1", "2"}, rest |-> Unset]

Init ==
    /\ pc = "nick" /\ long = 0 /\ answers = 0 /\ nick = Empty
    /\ name = Garbage /\ nameR = Unset
    /\ firstbyte = "0" /\ chtCnt = 0 /\ chnCnt = 0 /\ mstk = 0
    /\ reader = "none"
    /\ up = <<>> /\ down = <<>>
    /\ srv = "nick" /\ refused = 0 /\ user = Empty
    /\ lines = 0 /\ mails = 0
    /\ talk = <<"0", Unset>> /\ fits = TRUE

-----------------------------------------------------------------------------
(* client_nick *)

Nick(n) == [kind |-> "nick", nick |-> n]

(* write: when the server has closed, the first write is lost, a later one *)
(* kills the client.                                                       *)
Write(items, to) ==
    IF srv = "closed" THEN pc' \in {to, "killed"} /\ UNCHANGED up
                      ELSE pc' = to /\ up' = up \o items

(* What write(sockfd, nick, strlen(nick)) puts on the connection. *)
Written(n) ==
    IF n = Empty THEN <<>> ELSE IF n \in LongNicks THEN <<Nick(n[1]), Nick(n[2])>> ELSE <<Nick(n)>>

(* Tries left after an overlong nick. *)
MayRetype_OffByOne == long < NickTries
MayRetype == long + 1 < NickTries

(* The first nick may be typed again when it is too long; the last try is  *)
(* sent whatever its length, and so is every nick typed after a refusal.   *)
NickTooLong(n) ==
    /\ pc = "nick" /\ answers = 0
    /\ n \in LongNicks /\ MayRetype
    /\ long' = long + 1
    /\ UNCHANGED <<pc, answers, nick, chat, reader, up, down, server, lines, mails, history>>

SendNick(n) ==
    /\ pc = "nick"
    /\ n \in LongNicks /\ answers = 0 => ~MayRetype
    /\ nick' = n
    /\ Write(Written(n), "answer")
    /\ fits' = (fits /\ n \notin LongNicks)
    /\ UNCHANGED <<long, answers, chat, reader, down, server, lines, mails, talk>>

(* A refusal leads to another nick, the last one to the prompt.  The       *)
(* reader thread starts before the prompt.                                 *)
AskAgain_TooFew(a) == a = "2" /\ answers + 2 < NickTries
AskAgain(a) == a = "2" /\ answers + 1 < NickTries

Answered(a) ==
    IF AskAgain(a)
    THEN pc' = "nick" /\ answers' = answers + 1 /\ UNCHANGED <<long, reader>>
    ELSE pc' = "prompt" /\ answers' = 0 /\ long' = 0 /\ reader' = "reads"

ReadAnswer ==
    /\ pc = "answer"
    /\ down # <<>>
    /\ down' = Tail(down)
    /\ Answered(Head(down))
    /\ UNCHANGED <<nick, chat, up, server, lines, mails, history>>

(* The server has closed: read returns 0 and leaves nickExist what it was, *)
(* at first whatever the stack holds ...                                   *)
NickExist == IF answers = 0 THEN {"1", "2", Unset} ELSE {"2"}

ReadNothing ==
    /\ pc = "answer"
    /\ down = <<>> /\ srv = "closed"
    /\ \E a \in NickExist : Answered(a)
    /\ UNCHANGED <<nick, chat, up, down, server, lines, mails, history>>

(* ... or fails, as the connection was reset, and main closes and ends.    *)
AnswerFails ==
    /\ pc = "answer"
    /\ srv = "closed"
    /\ pc' = "done"
    /\ UNCHANGED <<nicks, chat, reader, up, down, server, lines, mails, history>>

-----------------------------------------------------------------------------
(* send_message: one line typed at the prompt *)

Line == pc = "prompt" /\ lines < MaxLines /\ lines' = lines + 1

Send(m, to) == Write(<<m>>, to)
Message(fb, to, text) == [kind |-> "message", firstbyte |-> fb, to |-> to, text |-> text]

InConversation == \/ firstbyte = "1" /\ chtCnt # 0
                  \/ firstbyte = "2" /\ chnCnt # 0

(* The loop around /chat, /join and what is no command is not entered when *)
(* both counters stand at their limits.                                    *)
AtLimits == chtCnt = MAXCHAT /\ chnCnt = MAXCHAN

(* A mistake at which send_message may return; by then a name may have     *)
(* been scanned.                                                           *)
Mistake(scanned) ==
    IF AtLimits THEN UNCHANGED <<pc, chat>>
    ELSE /\ mstk' = mstk + 1
         /\ pc' = IF mstk' = Mistakes THEN "leave" ELSE "prompt"
         /\ name' = scanned
         /\ UNCHANGED <<firstbyte, nameR, chtCnt, chnCnt>>

(* A line without '/': sent in a conversation, a mistake outside.          *)
Text ==
    /\ Line
    /\ IF InConversation
       THEN Send(Message(firstbyte, nameR, TRUE), "prompt") /\ UNCHANGED chat
       ELSE Mistake(name) /\ UNCHANGED up
    /\ UNCHANGED <<nicks, reader, down, server, mails, history>>

(* sscanf takes what follows the first character of a name, its mark, for  *)
(* the recipient; when nothing follows, nameR stays as it was.             *)
Recipient(n) == IF n.rest = Blank THEN nameR ELSE n.rest

(* A slip: the recipient is taken before the mark is looked for. *)
Typo_TakesName(n) ==
    /\ Line
    /\ mstk' = mstk + 1
    /\ name' = n /\ nameR' = Recipient(n)
    /\ UNCHANGED <<pc, nicks, firstbyte, chtCnt, chnCnt, reader, up, down, server, mails, history>>
(* No command: a '/' in the middle, too long a line, a misspelt chat or    *)
(* join, or one whose name lacks the mark; n is the name it has, if any.   *)
Typo(n) ==
    /\ Line
    /\ Mistake(n)
    /\ UNCHANGED <<nicks, reader, up, down, server, mails, history>>

(* A misspelt exit, help or quit: counted, and no more. *)
Slip ==
    /\ Line
    /\ mstk' = mstk + 1
    /\ UNCHANGED <<pc, nicks, firstbyte, name, nameR, chtCnt, chnCnt, reader, up, down, server,
                   mails, history>>

(* /exit: leaves a channel when the last command was /join or a message to *)
(* a channel (recipient_id is NULL, its bytes are not set), the program    *)
(* when there was no command yet, and has no effect otherwise.             *)
Exit ==
    /\ Line
    /\ \/ /\ firstbyte = "2" /\ chnCnt >= 1
          /\ Send(Message("3", Unset, FALSE), "prompt")
          /\ firstbyte' = "3" /\ chnCnt' = chnCnt - 1
          /\ UNCHANGED <<name, nameR, chtCnt, mstk>>
       \/ /\ firstbyte = "0" /\ chnCnt = 0
          /\ pc' = "leave"
          /\ UNCHANGED <<up, chat>>
       \/ /\ ~(firstbyte = "2" /\ chnCnt >= 1) /\ ~(firstbyte = "0" /\ chnCnt = 0)
          /\ UNCHANGED <<pc, up, chat>>
    /\ UNCHANGED <<nicks, reader, down, server, mails, history>>

(* /help ends the conversation, too. *)
Help ==
    /\ Line
    /\ firstbyte' = "5"
    /\ UNCHANGED <<pc, nicks, name, nameR, chtCnt, chnCnt, mstk, reader, up, down, server, mails,
                   history>>

Quit_Silent ==
    /\ Line
    /\ firstbyte' = "4" /\ mstk' = Mistakes
    /\ pc' = "leave"
    /\ UNCHANGED <<nicks, name, nameR, chtCnt, chnCnt, reader, up, down, server, mails, history>>
Quit ==
    /\ Line
    /\ firstbyte' = "4" /\ mstk' = Mistakes
    /\ Send(Message("4", Unset, FALSE), "leave")
    /\ UNCHANGED <<nicks, name, nameR, chtCnt, chnCnt, reader, down, server, mails, history>>

(* /chat @name and /join #name: an empty message opens the conversation.   *)
(* The mark may be anywhere in the name (Recipient).  Without a name, the  *)
(* one scanned last is taken again.                                        *)
AskedFor(fb, n, typed) ==
    IF typed /\ n.first = fb /\ n.rest # Blank /\ ~AtLimits THEN <<fb, n.rest>> ELSE Unclear

Open(fb, n, typed) ==
    /\ Line
    /\ fb \in n.marks
    /\ talk' = AskedFor(fb, n, typed)
    /\ IF AtLimits
       THEN UNCHANGED <<pc, up, firstbyte, name, nameR>>
       ELSE /\ firstbyte' = fb /\ name' = n /\ nameR' = Recipient(n)
            /\ Send(Message(fb, Recipient(n), FALSE), "prompt")
    /\ UNCHANGED <<nicks, mstk, reader, down, server, mails, fits>>

Chat(n, typed) ==
    /\ Open("1", n, typed)
    /\ chtCnt' = chtCnt + (IF AtLimits THEN 0 ELSE 1)
    /\ UNCHANGED chnCnt

Join(n, typed) ==
    /\ Open("2", n, typed)
    /\ chnCnt' = chnCnt + (IF AtLimits THEN 0 ELSE 1)
    /\ UNCHANGED chtCnt

-----------------------------------------------------------------------------
(* The threads at the two ends of what the server sends. *)

(* pthread_join of the reader, then close. *)
Leave ==
    /\ pc = "leave" /\ reader = "ended"
    /\ pc' = "done"
    /\ UNCHANGED <<nicks, chat, reader, up, down, server, lines, mails, history>>

ReaderPrints ==
    /\ reader = "reads" /\ pc \notin {"done", "killed"}
    /\ down # <<>>
    /\ down' = Tail(down)
    /\ UNCHANGED <<pc, nicks, chat, reader, up, server, lines, mails, history>>

ReaderEnds ==
    /\ reader = "reads" /\ pc \notin {"done", "killed"}
    /\ down = <<>> /\ srv = "closed"
    /\ reader' = "ended"
    /\ UNCHANGED <<pc, nicks, chat, up, down, server, lines, mails, history>>

(* The user, tired of it, types ^C. *)
Interrupt ==
    /\ pc \notin {"done", "killed"}
    /\ pc' = "killed"
    /\ UNCHANGED <<nicks, chat, reader, up, down, server, lines, mails, history>>

(* client_nick of the server: '1' for a nick it can insert ... *)
Register ==
    /\ srv = "nick"
    /\ up # <<>>
    /\ up' = Tail(up)
    /\ srv' = "serves" /\ user' = Head(up).nick /\ refused' = 0
    /\ down' = Append(down, "1")
    /\ UNCHANGED <<pc, nicks, chat, reader, lines, mails, history>>

(* The third refusal is the last. *)
RefusedOnce ==
    IF refused + 1 < NickTries THEN refused' = refused + 1 /\ UNCHANGED srv
                               ELSE refused' = 0 /\ srv' = "closed"

(* A slip: the loop goes on before the answer is written. *)
Refuse_Silent ==
    /\ srv = "nick"
    /\ up # <<>>
    /\ up' = Tail(up)
    /\ RefusedOnce
    /\ UNCHANGED <<pc, nicks, chat, reader, down, user, lines, mails, history>>
(* ... '2' for one in use; after the third it closes the connection. *)
Refuse ==
    /\ srv = "nick"
    /\ up # <<>>
    /\ up' = Tail(up)
    /\ RefusedOnce
    /\ down' = Append(down, "2")
    /\ UNCHANGED <<pc, nicks, chat, reader, user, lines, mails, history>>

(* process_connection: a message, the last one '4'. *)
Serve ==
    /\ srv = "serves"
    /\ up # <<>> /\ Head(up).kind = "message"
    /\ up' = Tail(up)
    /\ srv' = IF Head(up).firstbyte = "4" THEN "closed" ELSE "serves"
    /\ UNCHANGED <<pc, nicks, chat, reader, down, refused, user, lines, mails, history>>

(* The rest of an overlong nick is taken for a header: from there on the   *)
(* thread reads what it does not understand, or gives up.                  *)
Garbled ==
    /\ srv = "serves" /\ up # <<>> /\ Head(up).kind = "nick"
    /\ up' = Tail(up)
    /\ srv' \in {"garbled", "closed"}
    /\ UNCHANGED <<pc, nicks, chat, reader, down, refused, user, lines, mails, history>>

ServeGarbled ==
    /\ srv = "garbled" /\ up # <<>>
    /\ up' = Tail(up)
    /\ srv' \in {"garbled", "closed"}
    /\ UNCHANGED <<pc, nicks, chat, reader, down, refused, user, lines, mails, history>>

(* The client is gone, and what it sent has been read.  (A thread that     *)
(* still waits for a nick takes this for an empty one first: ChatServer.)  *)
EndOfClient ==
    /\ srv # "closed"
    /\ pc = "killed" /\ up = <<>>
    /\ srv' = "closed"
    /\ UNCHANGED <<pc, nicks, chat, reader, up, down, refused, user, lines, mails, history>>

(* The server dies, of a SIGPIPE that another connection raises. *)
ServerDies ==
    /\ srv # "closed"
    /\ srv' = "closed"
    /\ UNCHANGED <<pc, nicks, chat, reader, up, down, refused, user, lines, mails, history>>

(* A message of another user, or the answer to one of this user. *)
Mail ==
    /\ srv \in {"serves", "garbled"}
    /\ mails < MaxMail
    /\ mails' = mails + 1
    /\ down' = Append(down, "mail")
    /\ UNCHANGED <<pc, nicks, chat, reader, up, server, lines, history>>

-----------------------------------------------------------------------------
UserStep ==
    \/ \E n \in Nicks \cup {Empty} : SendNick(n)
    \/ \E n \in LongNicks : NickTooLong(n) \/ SendNick(n)
    \/ Text \/ Slip \/ Exit \/ Help \/ Quit \/ Interrupt
    \/ \E n \in Typed : Typo(n) \/ Chat(n, TRUE) \/ Join(n, TRUE)
    \/ Typo(name) \/ Chat(name, FALSE) \/ Join(name, FALSE)

MainStep == ReadAnswer \/ ReadNothing \/ AnswerFails \/ Leave
ReaderStep == ReaderPrints \/ ReaderEnds
ServerStep == Register \/ Refuse \/ Serve \/ Garbled \/ ServeGarbled \/ EndOfClient

Next == UserStep \/ MainStep \/ ReaderStep \/ ServerStep \/ Mail \/ ServerDies

Spec == Init /\ [][Next]_vars

(* All threads are scheduled; the user may stop typing, others may not     *)
(* write, and the server need not die.                                     *)
FairSpec ==
    /\ Spec
    /\ WF_vars(MainStep) /\ WF_vars(ReaderStep) /\ WF_vars(ServerStep)

-----------------------------------------------------------------------------
AllNicks == Nicks \cup LongNicks \cup {Empty}
Names == Recipients \cup {Unset}
Up == [kind : {"nick"}, nick : Nicks] \cup
      [kind : {"message"}, firstbyte : {"1", "2", "3", "4"}, to : Names, text : BOOLEAN]

TypeOK ==
    /\ pc \in {"nick", "answer", "prompt", "leave", "done", "killed"}
    /\ long \in 0 .. NickTries - 1 /\ answers \in 0 .. NickTries - 1 /\ nick \in AllNicks
    /\ firstbyte \in {"0", "1", "2", "3", "4", "5"}
    /\ name \in NameToken(Names \cup {Blank}) /\ nameR \in Names
    /\ chtCnt \in Nat /\ chnCnt \in Nat /\ mstk \in Nat
    /\ reader \in {"none", "reads", "ended"}
    /\ up \in Seq(Up) /\ down \in Seq({"1", "2", "mail"})
    /\ srv \in {"nick", "serves", "garbled", "closed"}
    /\ refused \in 0 .. NickTries - 1 /\ user \in Nicks \cup {Empty}
    /\ lines \in Nat /\ mails \in Nat
    /\ talk \in {"0", "1", "2", "?"} \X Names /\ fits \in BOOLEAN

(* The handshake keeps its two ends in step over all refusals: as long as  *)
(* the user types nicks that fit, a client at its prompt signs with the    *)
(* nick the server knows it by, or the server has closed the connection,   *)
(* after the last refusal or in its death; no answer is taken for mail and no nick for a   *)
(* message.                                                                *)
HandshakeAgrees ==
    fits =>
      /\ srv # "garbled"
      /\ pc = "prompt" =>
            /\ srv = "serves" => user = nick
            /\ srv # "nick"
            /\ \A i \in DOMAIN down : down[i] = "mail"

(* Whoever has sent a nick gets on, whether the server takes it, refuses   *)
(* it, finds only its front, or dies: the two ends never both wait, unless *)
(* an empty line was typed as nick, of which nothing is written.           *)
NickIsAnswered == (pc = "answer" /\ nick # Empty) ~> pc # "answer"

Conversations == {"1", "2"} \X Names
SendsText(c) == up' = Append(up, Message(c[1], c[2], TRUE))

(* Text goes to the conversation the user asked for last, though one name, *)
(* one recipient and one mode are kept for all conversations, and /exit,   *)
(* /help, mistakes and refused names come in between.  Not so after /chat  *)
(* or /join is ignored at the limits, or taken without a name or with one  *)
(* that does not begin with the mark or is the mark alone: the client goes *)
(* on with another recipient and does not say so, until the next /chat or  *)
(* /join that names one.                                                   *)
TextInConversation ==
    [][\A c \in Conversations : SendsText(c) /\ talk # Unclear => c = talk]_vars

(* After /quit the client ends: the server closes the connection, and that *)
(* ends the reader, which the main thread waits for; mail that arrives     *)
(* meanwhile is printed first.                                             *)
QuitEnds == (pc = "leave" /\ firstbyte = "4" /\ fits) ~> pc \in {"done", "killed"}

-----------------------------------------------------------------------------
(* What the documentation says and the code does not keep. *)

(* client.c l.108: "To exit type /exit".  Who leaves the prompt without    *)
(* /quit waits for the reader, which waits for the server, which waits for *)
(* the client to close.                                                    *)
LeavingEnds == pc = "leave" ~> pc \in {"done", "killed"}
=============================================================================
