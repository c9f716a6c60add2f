---------------------------- MODULE ClientProofs ----------------------------
(***************************************************************************)
(* Proofs about Client, for any nicks, names, numbers of tries, limits and *)
(* bounds.                                                                 *)
(*                                                                         *)
(* The invariant has three parts.  Counts holds whatever is typed: as long *)
(* as the server waits for a nick, what it has refused is what the client  *)
(* has read and what is under way.  InStep says what is on the connection  *)
(* in each phase of the handshake if every nick sent fits.  Talk says that *)
(* mode and recipient are those the user asked for last, while that is     *)
(* clear.                                                                  *)
(***************************************************************************)
EXTENDS Client, SequenceTheorems, TLAPS

Counts ==
    /\ pc \in {"nick", "answer"} => answers < NickTries /\ reader = "none"
    /\ srv = "nick" =>
          /\ refused < NickTries
          /\ \A i \in DOMAIN up : up[i].kind = "nick"
          /\ pc \in {"nick", "answer", "killed"}
          /\ pc # "killed" =>
                refused = answers + Len(down) /\ \A i \in DOMAIN down : down[i] = "2"

(* Mail comes after the answer, if there is one. *)
MailAfterFirst == \A i \in DOMAIN down : i > 1 => down[i] = "mail"

(* On the connection while the client waits for the answer to its nick. *)
NickUnderWay ==
    /\ srv = "nick" => Len(up) + Len(down) <= 1 /\ (up # <<>> => up = <<Nick(nick)>>)
    /\ srv = "serves" =>
          user = nick /\ up = <<>> /\ down # <<>> /\ Head(down) = "1" /\ MailAfterFirst
    /\ srv = "closed" =>
          \/ down = <<>> \/ down = <<"2">>
          \/ Head(down) = "1" /\ MailAfterFirst

InStep ==
    fits =>
      /\ srv # "garbled"
      /\ srv = "nick" => Len(up) <= 1
      /\ srv = "serves" => \A i \in DOMAIN up : up[i].kind = "message"
      /\ pc = "nick" => down = <<>> /\ srv \in {"nick", "closed"} /\ (srv = "nick" => up = <<>>)
      /\ pc = "answer" => NickUnderWay
      /\ pc = "prompt" =>
            /\ srv = "serves" => user = nick
            /\ srv # "nick"
            /\ \A i \in DOMAIN down : down[i] = "mail"

Talk ==
    talk # Unclear => \A fb \in {"1", "2"} : firstbyte = fb => talk = <<fb, nameR>>

ClientInv == TypeOK /\ Counts /\ InStep /\ Talk

(* The two halves of TypeOK: what is on the connection, and the rest. *)
WireTypes == up \in Seq(Up) /\ down \in Seq({"1", "2", "mail"})

ProgramTypes ==
    /\ pc \in {"nick", "answer", "prompt", "leave", "done", "killed"}
    /\ long \in 0 .. NickTries - 1 /\ answers \in 0 .. NickTries - 1 /\ nick \in AllNicks
    /\ firstbyte \in {"0", "1", "2", "3", "4", "5"}
    /\ name \in NameToken(Names \cup {Blank}) /\ nameR \in Names
    /\ chtCnt \in Nat /\ chnCnt \in Nat /\ mstk \in Nat
    /\ reader \in {"none", "reads", "ended"}
    /\ srv \in {"nick", "serves", "garbled", "closed"}
    /\ refused \in 0 .. NickTries - 1 /\ user \in Nicks \cup {Empty}
    /\ lines \in Nat /\ mails \in Nat
    /\ talk \in {"0", "1", "2", "?"} \X Names /\ fits \in BOOLEAN

LEMMA TypeParts == TypeOK <=> WireTypes /\ ProgramTypes
BY DEF TypeOK, WireTypes, ProgramTypes

LEMMA InitClientInv == Init => ClientInv
<1> USE ClientAssumption DEF Init, Unset
<1>1. Init => TypeOK
  <2>1. Init => up \in Seq(Up) /\ down \in Seq({"1", "2", "mail"})
    OBVIOUS
  <2>2. Init => ProgramTypes
    <3>1. 0 \in 0 .. NickTries - 1
      BY ONLY ClientAssumption
    <3>2. Empty \in AllNicks /\ Unset \in Names /\ <<"0", Unset>> \in {"0", "1", "2", "?"} \X Names
          /\ Garbage \in NameToken(Names \cup {Blank})
      BY DEF AllNicks, Names, Garbage, NameToken
    <3>3. Init => nick \in AllNicks /\ user \in Nicks \cup {Empty} /\ nameR \in Names
                  /\ name \in NameToken(Names \cup {Blank})
                  /\ talk \in {"0", "1", "2", "?"} \X Names
      BY <3>2
    <3>4. Init => /\ long \in 0 .. NickTries - 1 /\ answers \in 0 .. NickTries - 1
                  /\ refused \in 0 .. NickTries - 1
      BY <3>1
    <3>5. Init => /\ pc \in {"nick", "answer", "prompt", "leave", "done", "killed"}
                  /\ firstbyte \in {"0", "1", "2", "3", "4", "5"}
                  /\ reader \in {"none", "reads", "ended"}
                  /\ srv \in {"nick", "serves", "garbled", "closed"}
                  /\ fits \in BOOLEAN
      OBVIOUS
    <3>6. Init => /\ chtCnt \in Nat /\ chnCnt \in Nat /\ mstk \in Nat
                  /\ lines \in Nat /\ mails \in Nat
      OBVIOUS
    <3> QED BY ONLY <3>3, <3>4, <3>5, <3>6 DEF ProgramTypes
  <2> QED BY <2>1, <2>2, TypeParts DEF WireTypes
<1>2. Init => Counts /\ InStep
  BY DEF Counts, InStep, NickUnderWay
<1>3. Init => Talk
  BY DEF Talk
<1> QED BY <1>1, <1>2, <1>3 DEF ClientInv

LEMMA ShortSeq ==
    ASSUME NEW S, NEW s \in Seq(S), Len(s) <= 1
    PROVE  s = <<>> \/ s = <<s[1]>>
<1>1. CASE Len(s) = 0
  BY <1>1, EmptySeq
<1>2. CASE Len(s) = 1
  <2>1. s = [i \in 1 .. 1 |-> s[i]]
    BY <1>2
  <2>2. <<s[1]>> = [i \in 1 .. 1 |-> s[i]]
    OBVIOUS
  <2> QED BY <2>1, <2>2
<1>3. Len(s) \in Nat
  BY LenProperties
<1>4. Len(s) = 0 \/ Len(s) = 1
  <2>1. \A k \in Nat : k <= 1 => k = 0 \/ k = 1
    OBVIOUS
  <2> QED BY <1>3, <2>1
<1> QED BY <1>1, <1>2, <1>4

(* What is written. *)
LEMMA NickInUp == ASSUME NEW n \in Nicks PROVE Nick(n) \in Up
BY DEF Nick, Up

LEMMA MessageInUp ==
    ASSUME NEW fb \in {"1", "2", "3", "4"}, NEW to \in Names, NEW text \in BOOLEAN
    PROVE  Message(fb, to, text) \in Up
BY DEF Message, Up

LEMMA WrittenInUp ==
    ASSUME NEW n \in Nicks \cup {Empty} \cup LongNicks
    PROVE  Written(n) \in Seq(Up)
<1>1. CASE n = Empty
  BY <1>1 DEF Written
<1>2. CASE n # Empty /\ n \in LongNicks
  <2>1. n[1] \in Nicks /\ n[2] \in Nicks
    BY <1>2, ClientAssumption
  <2>2. Nick(n[1]) \in Up /\ Nick(n[2]) \in Up
    BY <2>1, NickInUp
  <2> QED BY <1>2, <2>2 DEF Written
<1>3. CASE n # Empty /\ n \notin LongNicks
  <2>1. Nick(n) \in Up
    BY <1>3, NickInUp
  <2> QED BY <1>3, <2>1 DEF Written
<1> QED BY <1>1, <1>2, <1>3

(* Names typed and scanned are names, and name recipients. *)
Tokens == NameToken(Names \cup {Blank})

LEMMA TypedTokens == Typed \subseteq Tokens
BY ClientAssumption DEF Tokens, NameToken, Names

LEMMA TokenNames ==
    ASSUME NEW n \in Tokens, nameR \in Names
    PROVE  Recipient(n) \in Names
BY DEF Tokens, NameToken, Recipient

LEMMA WriteTyped ==
    ASSUME up \in Seq(Up), NEW items \in Seq(Up), NEW to, Write(items, to)
    PROVE  up' \in Seq(Up) /\ pc' \in {to, "killed"}
BY ConcatProperties DEF Write

LEMMA SendTyped ==
    ASSUME up \in Seq(Up), NEW m \in Up, NEW to, Send(m, to)
    PROVE  up' \in Seq(Up) /\ pc' \in {to, "killed"}
<1>1. <<m>> \in Seq(Up)
  OBVIOUS
<1> QED BY <1>1, WriteTyped DEF Send

LEMMA SendMoves == ASSUME NEW m, NEW to, Send(m, to) PROVE pc' \in {to, "killed"}
BY DEF Send, Write

LEMMA HeadOfUp ==
    ASSUME WireTypes, up # <<>>
    PROVE  Head(up) \in Up /\ Tail(up) \in Seq(Up)
BY DEF WireTypes

LEMMA StepWireTypes == ASSUME WireTypes, ProgramTypes, [Next]_vars PROVE WireTypes'
<1> USE ClientAssumption DEF nicks, chat, server, history, WireTypes
<1>1. ASSUME NEW n \in LongNicks, NickTooLong(n) PROVE WireTypes'
  BY <1>1 DEF NickTooLong
<1>2. ASSUME NEW n \in Nicks \cup {Empty} \cup LongNicks, SendNick(n) PROVE WireTypes'
  BY <1>2, WrittenInUp, WriteTyped DEF SendNick
<1>3. ASSUME ReadAnswer PROVE WireTypes'
  BY <1>3 DEF ReadAnswer, Answered
<1>4. ASSUME ReadNothing PROVE WireTypes'
  BY <1>4 DEF ReadNothing, Answered
<1>5. ASSUME AnswerFails PROVE WireTypes'
  BY <1>5 DEF AnswerFails
<1>6. ASSUME Text PROVE WireTypes'
  BY <1>6, MessageInUp, SendTyped DEF Text, Line, InConversation, Mistake, ProgramTypes
<1>7. ASSUME NEW n, Typo(n) PROVE WireTypes'
  BY <1>7 DEF Typo, Line, Mistake
<1>8. ASSUME Slip PROVE WireTypes'
  BY <1>8 DEF Slip, Line
<1>9. ASSUME Exit PROVE WireTypes'
  BY <1>9, MessageInUp, SendTyped DEF Exit, Line, Names
<1>10. ASSUME Help PROVE WireTypes'
  BY <1>10 DEF Help, Line
<1>11. ASSUME Quit PROVE WireTypes'
  BY <1>11, MessageInUp, SendTyped DEF Quit, Line, Names
<1>12. ASSUME NEW n \in Tokens, NEW typed, Chat(n, typed) \/ Join(n, typed) PROVE WireTypes'
  <2>1. Recipient(n) \in Names
    BY TokenNames DEF ProgramTypes
  <2> QED BY <1>12, <2>1, MessageInUp, SendTyped DEF Chat, Join, Open, Line
<1>13. Typed \subseteq Tokens /\ name \in Tokens
  BY TypedTokens DEF ProgramTypes, Tokens
<1>14. ASSUME Leave PROVE WireTypes'
  BY <1>14 DEF Leave
<1>15. ASSUME ReaderPrints PROVE WireTypes'
  BY <1>15 DEF ReaderPrints
<1>16. ASSUME ReaderEnds PROVE WireTypes'
  BY <1>16 DEF ReaderEnds
<1>17. ASSUME Interrupt PROVE WireTypes'
  BY <1>17 DEF Interrupt
<1>18. ASSUME Register PROVE WireTypes'
  BY <1>18 DEF Register
<1>19. ASSUME Refuse PROVE WireTypes'
  BY <1>19 DEF Refuse
<1>20. ASSUME Serve PROVE WireTypes'
  BY <1>20 DEF Serve
<1>21. ASSUME Garbled PROVE WireTypes'
  BY <1>21 DEF Garbled
<1>22. ASSUME ServeGarbled PROVE WireTypes'
  BY <1>22 DEF ServeGarbled
<1>23. ASSUME EndOfClient PROVE WireTypes'
  BY <1>23 DEF EndOfClient
<1>24. ASSUME ServerDies PROVE WireTypes'
  BY <1>24 DEF ServerDies
<1>25. ASSUME Mail PROVE WireTypes'
  BY <1>25 DEF Mail
<1>26. ASSUME UNCHANGED vars PROVE WireTypes'
  BY <1>26 DEF vars
<1> QED BY <1>1, <1>2, <1>3, <1>4, <1>5, <1>6, <1>7, <1>8, <1>9, <1>10, <1>11, <1>12, <1>13, <1>14, <1>15, <1>16, <1>17, <1>18, <1>19, <1>20, <1>21, <1>22, <1>23, <1>24, <1>25, <1>26
     DEF Next, UserStep, MainStep, ReaderStep, ServerStep

LEMMA AnswerTypes ==
    ASSUME ProgramTypes, Counts, pc = "answer", NEW a, Answered(a)
    PROVE  /\ answers' \in 0 .. NickTries - 1 /\ long' \in 0 .. NickTries - 1
           /\ pc' \in {"nick", "prompt"} /\ reader' \in {"none", "reads", "ended"}
<1>1. /\ answers \in 0 .. NickTries - 1 /\ long \in 0 .. NickTries - 1
      /\ answers' = 0 \/ (answers + 1 < NickTries /\ answers' = answers + 1)
      /\ long' \in {0, long}
  BY DEF Answered, AskAgain, ProgramTypes
<1>2. answers' \in 0 .. NickTries - 1 /\ long' \in 0 .. NickTries - 1
  BY ONLY <1>1, ClientAssumption
<1>3. reader \in {"none", "reads", "ended"}
  BY DEF ProgramTypes
<1>4. pc' \in {"nick", "prompt"} /\ reader' \in {reader, "reads"}
  BY DEF Answered
<1> QED BY <1>2, <1>3, <1>4

LEMMA StepProgramTypes == ASSUME WireTypes, ProgramTypes, Counts, [Next]_vars PROVE ProgramTypes'
<1> USE ClientAssumption DEF nicks, chat, server, history, ProgramTypes, AllNicks
<1>1. ASSUME NEW n \in LongNicks, NickTooLong(n) PROVE ProgramTypes'
  BY <1>1 DEF NickTooLong, MayRetype
<1>2. ASSUME NEW n \in Nicks \cup {Empty} \cup LongNicks, SendNick(n) PROVE ProgramTypes'
  BY <1>2 DEF SendNick, Write
<1>3. ASSUME ReadAnswer PROVE ProgramTypes'
  <2>1. /\ answers' \in 0 .. NickTries - 1 /\ long' \in 0 .. NickTries - 1
        /\ pc' \in {"nick", "prompt"} /\ reader' \in {"none", "reads", "ended"}
    BY <1>3, AnswerTypes DEF ReadAnswer
  <2>2. UNCHANGED <<nick, chat, server, lines, mails, history>>
    BY <1>3 DEF ReadAnswer
  <2> QED BY <2>1, <2>2
<1>4. ASSUME ReadNothing PROVE ProgramTypes'
  <2>1. /\ answers' \in 0 .. NickTries - 1 /\ long' \in 0 .. NickTries - 1
        /\ pc' \in {"nick", "prompt"} /\ reader' \in {"none", "reads", "ended"}
    BY <1>4, AnswerTypes DEF ReadNothing
  <2>2. UNCHANGED <<nick, chat, server, lines, mails, history>>
    BY <1>4 DEF ReadNothing
  <2> QED BY <2>1, <2>2
<1>5. ASSUME AnswerFails PROVE ProgramTypes'
  BY <1>5 DEF AnswerFails
<1>6. ASSUME Text PROVE ProgramTypes'
  <2>1. CASE InConversation
    <3>1. pc' \in {"prompt", "killed"}
      BY <1>6, <2>1, SendMoves DEF Text
    <3> QED BY <1>6, <2>1, <3>1 DEF Text, Line
  <2>2. CASE ~InConversation
    BY <1>6, <2>2 DEF Text, Line, Mistake
  <2> QED BY <2>1, <2>2
<1>7. ASSUME NEW n \in Tokens, Typo(n) PROVE ProgramTypes'
  BY <1>7 DEF Typo, Line, Mistake, Tokens
<1>8. ASSUME Slip PROVE ProgramTypes'
  BY <1>8 DEF Slip, Line
<1>9. ASSUME Exit PROVE ProgramTypes'
  <2>1. ASSUME firstbyte = "2" /\ chnCnt >= 1, Send(Message("3", Unset, FALSE), "prompt"),
               firstbyte' = "3" /\ chnCnt' = chnCnt - 1, UNCHANGED <<name, nameR, chtCnt, mstk>>
        PROVE  ProgramTypes'
    <3>1. pc' \in {"prompt", "killed"}
      BY <2>1, SendMoves
    <3> QED BY <1>9, <2>1, <3>1 DEF Exit, Line
  <2>2. ASSUME pc' \in {"leave", pc}, UNCHANGED chat
        PROVE  ProgramTypes'
    BY <1>9, <2>2 DEF Exit, Line
  <2> QED BY <1>9, <2>1, <2>2 DEF Exit
<1>10. ASSUME Help PROVE ProgramTypes'
  BY <1>10 DEF Help, Line
<1>11. ASSUME Quit PROVE ProgramTypes'
  <2>1. pc' \in {"leave", "killed"}
    BY <1>11, SendMoves DEF Quit
  <2>2. mstk' \in Nat /\ lines' \in Nat
    <3>1. Mistakes \in Nat /\ lines \in Nat
      OBVIOUS
    <3> QED BY ONLY <1>11, <3>1 DEF Quit, Line
  <2>3. firstbyte' = "4" /\ UNCHANGED <<nicks, name, nameR, chtCnt, chnCnt, reader, server, mails, history>>
    BY <1>11 DEF Quit
  <2> QED BY <2>1, <2>2, <2>3
<1>12. ASSUME NEW n \in Tokens, NEW typed, Chat(n, typed) \/ Join(n, typed) PROVE ProgramTypes'
  <2>1. PICK fb \in {"1", "2"} : Open(fb, n, typed)
    BY <1>12 DEF Chat, Join
  <2>2. pc' \in {pc, "prompt", "killed"}
    BY <2>1, SendMoves DEF Open
  <2>3. /\ firstbyte' \in {firstbyte, fb} /\ name' \in {name, n} /\ nameR' \in {nameR, Recipient(n)}
        /\ talk' = AskedFor(fb, n, typed)
    BY <2>1 DEF Open
  <2>4. chtCnt' \in Nat /\ chnCnt' \in Nat /\ lines' \in Nat
    <3>1. chtCnt \in Nat /\ chnCnt \in Nat /\ lines \in Nat
      OBVIOUS
    <3>2. chtCnt' \in {chtCnt, chtCnt + 0, chtCnt + 1} /\ chnCnt' \in {chnCnt, chnCnt + 0, chnCnt + 1}
      BY ONLY <1>12 DEF Chat, Join
    <3>3. lines' = lines + 1
      BY ONLY <2>1 DEF Open, Line
    <3> QED BY ONLY <3>1, <3>2, <3>3
  <2>5. /\ Recipient(n) \in Names
        /\ n.rest # Blank => Recipient(n) = n.rest
    BY TokenNames DEF Recipient
  <2>6. talk' \in {"0", "1", "2", "?"} \X Names
    BY <2>3, <2>5 DEF AskedFor, Unclear, Names
  <2>7. /\ nameR' \in Names /\ name' \in NameToken(Names \cup {Blank})
        /\ firstbyte' \in {"0", "1", "2", "3", "4", "5"}
    BY <2>3, <2>5 DEF Tokens
  <2>8. UNCHANGED <<nicks, mstk, reader, server, mails, fits>>
    BY <2>1 DEF Open
  <2>9. pc' \in {"nick", "answer", "prompt", "leave", "done", "killed"}
    BY <2>2
  <2> QED BY <2>4, <2>6, <2>7, <2>8, <2>9
<1>13. Typed \subseteq Tokens /\ name \in Tokens
  BY TypedTokens DEF Tokens
<1>14. ASSUME Leave PROVE ProgramTypes'
  BY <1>14 DEF Leave
<1>15. ASSUME ReaderPrints PROVE ProgramTypes'
  BY <1>15 DEF ReaderPrints
<1>16. ASSUME ReaderEnds PROVE ProgramTypes'
  BY <1>16 DEF ReaderEnds
<1>17. ASSUME Interrupt PROVE ProgramTypes'
  BY <1>17 DEF Interrupt
<1>18. ASSUME Register PROVE ProgramTypes'
  <2>1. Head(up) \in Up /\ Head(up).kind = "nick"
    <3>1. Head(up) = up[1] /\ 1 \in DOMAIN up
      <4>1. up \in Seq(Up) /\ up # <<>>
        BY <1>18 DEF Register, WireTypes
      <4> QED BY ONLY <4>1, EmptySeq, LenProperties
    <3> QED BY <1>18, <3>1, HeadOfUp DEF Register, Counts
  <2>2. Head(up).nick \in Nicks
    BY <2>1 DEF Up
  <2>3. /\ srv' = "serves" /\ user' = Head(up).nick /\ refused' = 0
        /\ UNCHANGED <<pc, nicks, chat, reader, lines, mails, history>>
    BY ONLY <1>18 DEF Register
  <2> QED BY <2>2, <2>3
<1>19. ASSUME Refuse PROVE ProgramTypes'
  <2>1. /\ refused' = 0 \/ (refused + 1 < NickTries /\ refused' = refused + 1)
        /\ srv' \in {"closed", srv}
    BY <1>19 DEF Refuse, RefusedOnce
  <2>2. refused' \in 0 .. NickTries - 1
    BY ONLY <2>1, refused \in 0 .. NickTries - 1, ClientAssumption
  <2> QED BY <1>19, <2>1, <2>2 DEF Refuse
<1>20. ASSUME Serve PROVE ProgramTypes'
  BY <1>20 DEF Serve
<1>21. ASSUME Garbled PROVE ProgramTypes'
  BY <1>21 DEF Garbled
<1>22. ASSUME ServeGarbled PROVE ProgramTypes'
  BY <1>22 DEF ServeGarbled
<1>23. ASSUME EndOfClient PROVE ProgramTypes'
  BY <1>23 DEF EndOfClient
<1>24. ASSUME ServerDies PROVE ProgramTypes'
  BY <1>24 DEF ServerDies
<1>25. ASSUME Mail PROVE ProgramTypes'
  <2>1. mails \in Nat
    OBVIOUS
  <2>2. mails' \in Nat
    BY ONLY <1>25, <2>1 DEF Mail
  <2>3. UNCHANGED <<pc, nicks, chat, reader, server, lines, history>>
    BY ONLY <1>25 DEF Mail
  <2> QED BY <2>2, <2>3
<1>26. ASSUME UNCHANGED vars PROVE ProgramTypes'
  BY <1>26 DEF vars
<1> QED BY <1>1, <1>2, <1>3, <1>4, <1>5, <1>6, <1>7, <1>8, <1>9, <1>10, <1>11, <1>12, <1>13, <1>14, <1>15, <1>16, <1>17, <1>18, <1>19, <1>20, <1>21, <1>22, <1>23, <1>24, <1>25, <1>26
     DEF Next, UserStep, MainStep, ReaderStep, ServerStep

LEMMA StepTypeOK == ASSUME TypeOK, Counts, [Next]_vars PROVE TypeOK'
<1>1. WireTypes'
  BY TypeParts, StepWireTypes
<1>2. ProgramTypes'
  BY TypeParts, StepProgramTypes
<1> QED BY <1>1, <1>2 DEF TypeOK, WireTypes, ProgramTypes

LEMMA SendKeepsMessages ==
    ASSUME up \in Seq(Up), \A i \in DOMAIN up : up[i].kind = "message",
           NEW m, m.kind = "message", NEW to, Send(m, to)
    PROVE  \A i \in DOMAIN up' : up'[i].kind = "message"
<1>1. CASE srv = "closed"
  BY <1>1 DEF Send, Write
<1>2. CASE srv # "closed"
  <2>1. up' = Append(up, m)
    BY <1>2 DEF Send, Write
  <2> QED BY <2>1
<1> QED BY <1>1, <1>2

LEMMA NicksWritten ==
    ASSUME up \in Seq(Up), \A i \in DOMAIN up : up[i].kind = "nick",
           NEW n \in Nicks \cup {Empty} \cup LongNicks
    PROVE  \A i \in DOMAIN (up \o Written(n)) : (up \o Written(n))[i].kind = "nick"
<1>1. Written(n) \in Seq(Up) /\ \A j \in DOMAIN Written(n) : Written(n)[j].kind = "nick"
  BY WrittenInUp DEF Written, Nick
<1> QED BY <1>1, ConcatProperties

LEMMA StepCounts == ASSUME TypeOK, Counts, [Next]_vars PROVE Counts'
<1> USE ClientAssumption DEF nicks, chat, server, history, TypeOK, Counts
<1>1. ASSUME NEW n \in LongNicks, NickTooLong(n) PROVE Counts'
  BY <1>1 DEF NickTooLong, MayRetype
<1>2. ASSUME NEW n \in Nicks \cup {Empty} \cup LongNicks, SendNick(n) PROVE Counts'
  <2>1. UNCHANGED <<srv, refused, answers, reader, down>> /\ pc = "nick" /\ pc' \in {"answer", "killed"}
    BY <1>2 DEF SendNick, Write
  <2>2. srv = "nick" => up' = up \o Written(n)
    BY <1>2 DEF SendNick, Write
  <2>3. srv = "nick" => \A i \in DOMAIN up' : up'[i].kind = "nick"
    <3>1. up \in Seq(Up) /\ (srv = "nick" => \A i \in DOMAIN up : up[i].kind = "nick")
      OBVIOUS
    <3>2. srv = "nick" => \A i \in DOMAIN (up \o Written(n)) : (up \o Written(n))[i].kind = "nick"
      BY ONLY <3>1, NicksWritten, n \in Nicks \cup {Empty} \cup LongNicks
    <3> QED BY ONLY <2>2, <3>2
  <2> QED BY <2>1, <2>3
<1>3. ASSUME ReadAnswer PROVE Counts'
  <2>1. CASE AskAgain(Head(down))
    BY <1>3, <2>1 DEF ReadAnswer, Answered, AskAgain
  <2>2. CASE ~AskAgain(Head(down))
    <3>1. pc' = "prompt" /\ srv' = srv /\ pc = "answer" /\ down # <<>> /\ UNCHANGED up
      BY <1>3, <2>2 DEF ReadAnswer, Answered
    <3>2. srv # "nick"
      <4>1. ASSUME srv = "nick" PROVE FALSE
        <5>1. refused < NickTries /\ refused = answers + Len(down) /\ down[1] = "2" /\ Len(down) >= 1
          BY <3>1, <4>1
        <5>2. ~(answers + 1 < NickTries)
          BY <2>2, <5>1 DEF AskAgain
        <5>3. answers \in Nat /\ refused \in Nat /\ Len(down) \in Nat
          OBVIOUS
        <5> QED BY ONLY <5>1, <5>2, <5>3, ClientAssumption
      <4> QED BY <4>1
    <3> QED BY <3>1, <3>2
  <2> QED BY <2>1, <2>2
<1>4. ASSUME ReadNothing PROVE Counts'
  BY <1>4 DEF ReadNothing, Answered, AskAgain, NickExist
<1>5. ASSUME AnswerFails PROVE Counts'
  BY <1>5 DEF AnswerFails
<1>6. ASSUME Text PROVE Counts'
  BY <1>6 DEF Text, Line, Send, Write, Message, InConversation, Mistake
<1>7. ASSUME NEW n, Typo(n) PROVE Counts'
  BY <1>7 DEF Typo, Line, Mistake
<1>8. ASSUME Slip PROVE Counts'
  BY <1>8 DEF Slip, Line
<1>9. ASSUME Exit PROVE Counts'
  BY <1>9 DEF Exit, Line, Send, Write, Message
<1>10. ASSUME Help PROVE Counts'
  BY <1>10 DEF Help, Line
<1>11. ASSUME Quit PROVE Counts'
  BY <1>11 DEF Quit, Line, Send, Write, Message
<1>12. ASSUME NEW n, NEW typed, Chat(n, typed) \/ Join(n, typed) PROVE Counts'
  BY <1>12 DEF Chat, Join, Open, Line, Send, Write, Message
<1>14. ASSUME Leave PROVE Counts'
  BY <1>14 DEF Leave
<1>15. ASSUME ReaderPrints PROVE Counts'
  BY <1>15 DEF ReaderPrints
<1>16. ASSUME ReaderEnds PROVE Counts'
  BY <1>16 DEF ReaderEnds
<1>17. ASSUME Interrupt PROVE Counts'
  BY <1>17 DEF Interrupt
<1>18. ASSUME Register PROVE Counts'
  BY <1>18 DEF Register
<1>19. ASSUME Refuse PROVE Counts'
  BY <1>19 DEF Refuse, RefusedOnce
<1>20. ASSUME Serve PROVE Counts'
  BY <1>20 DEF Serve
<1>21. ASSUME Garbled PROVE Counts'
  BY <1>21 DEF Garbled
<1>22. ASSUME ServeGarbled PROVE Counts'
  BY <1>22 DEF ServeGarbled
<1>23. ASSUME EndOfClient PROVE Counts'
  BY <1>23 DEF EndOfClient
<1>24. ASSUME ServerDies PROVE Counts'
  BY <1>24 DEF ServerDies
<1>25. ASSUME Mail PROVE Counts'
  BY <1>25 DEF Mail
<1>26. ASSUME UNCHANGED vars PROVE Counts'
  BY <1>26 DEF vars
<1> QED BY <1>1, <1>2, <1>3, <1>4, <1>5, <1>6, <1>7, <1>8, <1>9, <1>10, <1>11, <1>12, <1>14, <1>15, <1>16, <1>17, <1>18, <1>19, <1>20, <1>21, <1>22, <1>23, <1>24, <1>25, <1>26
     DEF Next, UserStep, MainStep, ReaderStep, ServerStep

(* Commands at the prompt write messages. *)
LEMMA PromptSends ==
    ASSUME TypeOK, InStep, pc = "prompt",
           NEW m, m.kind = "message", NEW to \in {"prompt", "leave"}, Send(m, to),
           UNCHANGED <<nick, down, server, fits>>
    PROVE  InStep'
<1>1. pc' \in {"prompt", "leave", "killed"}
  BY SendMoves
<1> SUFFICES ASSUME fits' PROVE InStep!2'
  BY DEF InStep
<1>2. fits /\ srv' = srv /\ srv \notin {"nick", "garbled"}
  BY DEF InStep, server
<1>3. srv = "serves" => \A i \in DOMAIN up' : up'[i].kind = "message"
  BY <1>2, SendKeepsMessages DEF InStep, TypeOK
<1> QED BY <1>1, <1>2, <1>3 DEF InStep, server

LEMMA StepInStep == ASSUME TypeOK, Counts, InStep, [Next]_vars PROVE InStep'
<1> USE ClientAssumption DEF nicks, chat, server, history, TypeOK, Counts, InStep, NickUnderWay, MailAfterFirst
<1>1. ASSUME NEW n \in LongNicks, NickTooLong(n) PROVE InStep'
  BY <1>1 DEF NickTooLong, MayRetype
<1>2. ASSUME NEW n \in Nicks \cup {Empty} \cup LongNicks, SendNick(n) PROVE InStep'
  <2> SUFFICES ASSUME fits' PROVE InStep!2'
    OBVIOUS
  <2>1. /\ fits /\ n \notin LongNicks /\ pc = "nick" /\ pc' \in {"answer", "killed"}
        /\ nick' = n /\ srv' = srv /\ down' = <<>> /\ srv \in {"nick", "closed"}
    BY <1>2 DEF SendNick, Write
  <2>2. srv = "nick" => up' = Written(n)
    BY <1>2, <2>1 DEF SendNick, Write, Written
  <2>3. Written(n) \in {<<>>, <<Nick(n)>>}
    BY <2>1 DEF Written
  <2>4. Len(<<>>) = 0 /\ Len(<<Nick(n)>>) = 1
    OBVIOUS
  <2>5. CASE srv = "nick"
    <3>1. up' \in {<<>>, <<Nick(n)>>}
      BY <2>2, <2>3, <2>5
    <3>2. Len(up') <= 1 /\ Len(up') + Len(down') <= 1
      <4>1. Len(<<>>) <= 1 /\ Len(<<Nick(n)>>) <= 1
            /\ Len(<<>>) + Len(<<>>) <= 1 /\ Len(<<Nick(n)>>) + Len(<<>>) <= 1
        BY ONLY <2>4
      <4> QED BY ONLY <4>1, <2>1, <3>1
    <3>3. up' # <<>> => up' = <<Nick(nick')>>
      BY <2>1, <3>1
    <3> QED BY <2>1, <2>5, <3>2, <3>3
  <2>6. CASE srv = "closed"
    BY <2>1, <2>6
  <2> QED BY <2>1, <2>5, <2>6
<1>3. ASSUME ReadAnswer PROVE InStep'
  BY <1>3 DEF ReadAnswer, Answered, AskAgain
<1>4. ASSUME ReadNothing PROVE InStep'
  BY <1>4 DEF ReadNothing, Answered, AskAgain, NickExist
<1>5. ASSUME AnswerFails PROVE InStep'
  BY <1>5 DEF AnswerFails
<1>6. ASSUME Text PROVE InStep'
  <2>1. CASE InConversation
    BY <1>6, <2>1, PromptSends DEF Text, Line, Message
  <2>2. CASE ~InConversation
    BY <1>6, <2>2 DEF Text, Line, Mistake
  <2> QED BY <2>1, <2>2
<1>7. ASSUME NEW n, Typo(n) PROVE InStep'
  BY <1>7 DEF Typo, Line, Mistake
<1>8. ASSUME Slip PROVE InStep'
  BY <1>8 DEF Slip, Line
<1>9. ASSUME Exit PROVE InStep'
  <2>1. ASSUME Send(Message("3", Unset, FALSE), "prompt") PROVE InStep'
    BY <1>9, <2>1, PromptSends DEF Exit, Line, Message
  <2>2. ASSUME pc' \in {"leave", pc}, UNCHANGED up PROVE InStep'
    BY <1>9, <2>2 DEF Exit, Line
  <2> QED BY <1>9, <2>1, <2>2 DEF Exit
<1>10. ASSUME Help PROVE InStep'
  BY <1>10 DEF Help, Line
<1>11. ASSUME Quit PROVE InStep'
  BY <1>11, PromptSends DEF Quit, Line, Message
<1>12. ASSUME NEW n, NEW typed, Chat(n, typed) \/ Join(n, typed) PROVE InStep'
  <2>1. PICK fb : Open(fb, n, typed)
    BY <1>12 DEF Chat, Join
  <2>2. CASE AtLimits
    BY <2>1, <2>2 DEF Open, Line
  <2>3. CASE ~AtLimits
    BY <2>1, <2>3, PromptSends DEF Open, Line, Message
  <2> QED BY <2>2, <2>3
<1>14. ASSUME Leave PROVE InStep'
  BY <1>14 DEF Leave
<1>15. ASSUME ReaderPrints PROVE InStep'
  BY <1>15 DEF ReaderPrints
<1>16. ASSUME ReaderEnds PROVE InStep'
  BY <1>16 DEF ReaderEnds
<1>17. ASSUME Interrupt PROVE InStep'
  BY <1>17 DEF Interrupt
<1>18. ASSUME Register PROVE InStep'
  <2> SUFFICES ASSUME fits' PROVE InStep!2'
    OBVIOUS
  <2>1. fits /\ pc \in {"answer", "killed"} /\ pc' = pc /\ srv' = "serves" /\ nick' = nick
    BY <1>18 DEF Register
  <2>2. up' = <<>>
    BY <1>18, <2>1 DEF Register
  <2>3. ASSUME pc = "answer" PROVE user' = nick /\ down' = <<"1">>
    <3>1. up = <<Nick(nick)>> /\ Len(up) = 1 /\ Len(down) = 0
      BY <1>18, <2>1, <2>3 DEF Register
    <3>2. Head(up).nick = nick
      BY ONLY <3>1 DEF Nick
    <3>3. down = <<>>
      BY <3>1, EmptySeq
    <3> QED BY <1>18, <3>2, <3>3 DEF Register
  <2> QED BY <2>1, <2>2, <2>3
<1>19. ASSUME Refuse PROVE InStep'
  <2> SUFFICES ASSUME fits' PROVE InStep!2'
    OBVIOUS
  <2>1. fits /\ pc \in {"answer", "killed"} /\ pc' = pc /\ srv' \in {"nick", "closed"}
    BY <1>19 DEF Refuse, RefusedOnce
  <2>2. up' = <<>>
    BY <1>19, <2>1 DEF Refuse
  <2>3. ASSUME pc = "answer" PROVE down' = <<"2">>
    <3>1. up = <<Nick(nick)>> /\ Len(up) = 1 /\ Len(down) = 0
      BY <1>19, <2>1, <2>3 DEF Refuse
    <3>2. down = <<>>
      BY <3>1, EmptySeq
    <3> QED BY <1>19, <3>2 DEF Refuse
  <2>4. pc = "answer" => Len(up') + Len(down') <= 1
    <3>1. Len(<<>>) + Len(<<"2">>) <= 1
      BY ONLY TRUE
    <3> QED BY ONLY <2>2, <2>3, <3>1
  <2>5. pc = "answer" => NickUnderWay'
    BY <2>1, <2>2, <2>3, <2>4
  <2> QED BY <2>1, <2>2, <2>5
<1>20. ASSUME Serve PROVE InStep'
  BY <1>20 DEF Serve
<1>21. ASSUME Garbled PROVE InStep'
  BY <1>21 DEF Garbled
<1>22. ASSUME ServeGarbled PROVE InStep'
  BY <1>22 DEF ServeGarbled
<1>23. ASSUME EndOfClient PROVE InStep'
  BY <1>23 DEF EndOfClient
<1>24. ASSUME ServerDies PROVE InStep'
  <2> SUFFICES ASSUME fits' PROVE InStep!2'
    OBVIOUS
  <2>1. fits /\ srv \in {"nick", "serves"} /\ srv' = "closed" /\ UNCHANGED <<pc, down>>
    BY <1>24 DEF ServerDies
  <2>2. pc = "answer" => \/ down = <<>> \/ down = <<"2">>
                         \/ Head(down) = "1" /\ MailAfterFirst
    <3>1. CASE srv = "nick"
      <4>1. pc = "answer" => Len(down) <= 1 /\ \A i \in DOMAIN down : down[i] = "2"
        BY <2>1, <3>1
      <4>2. ASSUME Len(down) <= 1, \A i \in DOMAIN down : down[i] = "2"
            PROVE  down = <<>> \/ down = <<"2">>
        <5>1. down \in Seq({"1", "2", "mail"})
          OBVIOUS
        <5>2. down = <<>> \/ down = <<down[1]>>
          BY ONLY <4>2, <5>1, ShortSeq
        <5>3. CASE down = <<down[1]>>
          <6>1. 1 \in DOMAIN <<down[1]>>
            OBVIOUS
          <6> QED BY ONLY <4>2, <5>3, <6>1
        <5> QED BY ONLY <5>2, <5>3
      <4> QED BY <4>1, <4>2
    <3>2. CASE srv = "serves"
      BY <2>1, <3>2
    <3> QED BY <2>1, <3>1, <3>2
  <2> QED BY <2>1, <2>2
<1>25. ASSUME Mail PROVE InStep'
  <2> SUFFICES ASSUME fits' PROVE InStep!2'
    OBVIOUS
  <2>1. /\ fits /\ srv = "serves" /\ pc # "nick" /\ UNCHANGED <<pc, nick, srv, user, up>>
        /\ down' = Append(down, "mail")
    BY <1>25 DEF Mail
  <2>2. pc = "answer" => down' # <<>> /\ Head(down') = "1" /\ MailAfterFirst'
    BY <2>1
  <2>3. pc = "prompt" => \A i \in DOMAIN down' : down'[i] = "mail"
    BY <2>1
  <2> QED BY <2>1, <2>2, <2>3
<1>26. ASSUME UNCHANGED vars PROVE InStep'
  BY <1>26 DEF vars
<1> QED BY <1>1, <1>2, <1>3, <1>4, <1>5, <1>6, <1>7, <1>8, <1>9, <1>10, <1>11, <1>12, <1>14, <1>15, <1>16, <1>17, <1>18, <1>19, <1>20, <1>21, <1>22, <1>23, <1>24, <1>25, <1>26
     DEF Next, UserStep, MainStep, ReaderStep, ServerStep

LEMMA StepTalk == ASSUME TypeOK, Talk, [Next]_vars PROVE Talk'
<1> USE ClientAssumption DEF nicks, chat, server, history, Talk
<1>1. ASSUME NEW n \in LongNicks, NickTooLong(n) PROVE Talk'
  BY <1>1 DEF NickTooLong, MayRetype
<1>2. ASSUME NEW n \in Nicks \cup {Empty} \cup LongNicks, SendNick(n) PROVE Talk'
  BY <1>2 DEF SendNick, Write, Written, Nick
<1>3. ASSUME ReadAnswer PROVE Talk'
  BY <1>3 DEF ReadAnswer, Answered, AskAgain
<1>4. ASSUME ReadNothing PROVE Talk'
  BY <1>4 DEF ReadNothing, Answered, AskAgain, NickExist
<1>5. ASSUME AnswerFails PROVE Talk'
  BY <1>5 DEF AnswerFails
<1>6. ASSUME Text PROVE Talk'
  BY <1>6 DEF Text, Line, Send, Write, Message, InConversation, Mistake
<1>7. ASSUME NEW n, Typo(n) PROVE Talk'
  BY <1>7 DEF Typo, Line, Mistake
<1>8. ASSUME Slip PROVE Talk'
  BY <1>8 DEF Slip, Line
<1>9. ASSUME Exit PROVE Talk'
  BY <1>9 DEF Exit, Line, Send, Write, Message
<1>10. ASSUME Help PROVE Talk'
  BY <1>10 DEF Help, Line
<1>11. ASSUME Quit PROVE Talk'
  BY <1>11 DEF Quit, Line, Send, Write, Message
<1>12. ASSUME NEW n, NEW typed, Chat(n, typed) \/ Join(n, typed) PROVE Talk'
  BY <1>12 DEF Chat, Join, Open, Line, Send, Write, Message, AskedFor, Recipient
<1>14. ASSUME Leave PROVE Talk'
  BY <1>14 DEF Leave
<1>15. ASSUME ReaderPrints PROVE Talk'
  BY <1>15 DEF ReaderPrints
<1>16. ASSUME ReaderEnds PROVE Talk'
  BY <1>16 DEF ReaderEnds
<1>17. ASSUME Interrupt PROVE Talk'
  BY <1>17 DEF Interrupt
<1>18. ASSUME Register PROVE Talk'
  BY <1>18 DEF Register
<1>19. ASSUME Refuse PROVE Talk'
  BY <1>19 DEF Refuse, RefusedOnce
<1>20. ASSUME Serve PROVE Talk'
  BY <1>20 DEF Serve
<1>21. ASSUME Garbled PROVE Talk'
  BY <1>21 DEF Garbled
<1>22. ASSUME ServeGarbled PROVE Talk'
  BY <1>22 DEF ServeGarbled
<1>23. ASSUME EndOfClient PROVE Talk'
  BY <1>23 DEF EndOfClient
<1>24. ASSUME ServerDies PROVE Talk'
  BY <1>24 DEF ServerDies
<1>25. ASSUME Mail PROVE Talk'
  BY <1>25 DEF Mail
<1>26. ASSUME UNCHANGED vars PROVE Talk'
  BY <1>26 DEF vars
<1> QED BY <1>1, <1>2, <1>3, <1>4, <1>5, <1>6, <1>7, <1>8, <1>9, <1>10, <1>11, <1>12, <1>14, <1>15, <1>16, <1>17, <1>18, <1>19, <1>20, <1>21, <1>22, <1>23, <1>24, <1>25, <1>26
     DEF Next, UserStep, MainStep, ReaderStep, ServerStep

(* What is appended to the connection is not what was there, nor less. *)
LEMMA AppendIsNew ==
    ASSUME up \in Seq(Up), NEW m
    PROVE  Append(up, m) # up /\ Append(up, m) # Tail(up)
<1>1. Len(Append(up, m)) = Len(up) + 1 /\ Len(up) \in Nat
  BY AppendProperties, LenProperties
<1>2. up # <<>> => Len(Tail(up)) = Len(up) - 1
  BY HeadTailProperties
<1>3. up = <<>> => Tail(up) = <<>> /\ Len(up) = 0
  OBVIOUS
<1>4. \A k \in Nat : k + 1 # k /\ k + 1 # k - 1
  OBVIOUS
<1>5. CASE up = <<>>
  BY <1>1, <1>3, <1>4, <1>5
<1>6. CASE up # <<>>
  BY <1>1, <1>2, <1>4, <1>6
<1> QED BY <1>5, <1>6

(* The first element added stands after what was there. *)
LEMMA AppendedAt == ASSUME up \in Seq(Up), NEW m PROVE Append(up, m)[Len(up) + 1] = m
OBVIOUS

LEMMA ConcatenatedAt ==
    ASSUME up \in Seq(Up), NEW w \in Seq(Up), w # <<>>
    PROVE  (up \o w)[Len(up) + 1] = w[1]
<1>1. Len(up) \in Nat /\ Len(w) \in Nat /\ Len(w) # 0
  BY LenProperties, EmptySeq
<1>2. Len(up \o w) = Len(up) + Len(w)
  BY ConcatProperties
<1>3. Len(up) + 1 \in 1 .. Len(up) + Len(w) /\ Len(up) + 1 > Len(up)
  BY <1>1
<1>4. (Len(up) + 1) - Len(up) = 1
  BY <1>1
<1> QED BY <1>2, <1>3, <1>4, ConcatProperties

LEMMA SentIsLast ==
    ASSUME up \in Seq(Up), NEW m, NEW sent, NEW to, Send(sent, to), up' = Append(up, m)
    PROVE  sent = m
<1>1. up' # up
  BY AppendIsNew
<1>2. up' = Append(up, sent)
  BY <1>1 DEF Send, Write
<1>3. Append(up, sent)[Len(up) + 1] = sent /\ Append(up, m)[Len(up) + 1] = m
  BY AppendedAt
<1> QED BY <1>2, <1>3

LEMMA TextIsTyped ==
    ASSUME TypeOK, Next, NEW c \in Conversations, SendsText(c)
    PROVE  /\ c = <<firstbyte, nameR>>
           /\ UNCHANGED talk
<1> DEFINE m == Message(c[1], c[2], TRUE)
<1> USE DEF nicks, chat, server, history
<1>0. up \in Seq(Up) /\ up' = Append(up, m)
  BY DEF TypeOK, SendsText
<1>a. up' # up /\ up' # Tail(up)
  BY <1>0, AppendIsNew
<1>b. ASSUME NEW fb, NEW to, NEW pcTo, Send(Message(fb, to, FALSE), pcTo) PROVE FALSE
  <2>1. Message(fb, to, FALSE) = m
    BY <1>b, <1>0, SentIsLast
  <2> QED BY <2>1 DEF Message
<1>2. ASSUME NEW n \in Nicks \cup {Empty} \cup LongNicks, SendNick(n) PROVE FALSE
  <2>1. up' = up \o Written(n)
    BY <1>2, <1>a DEF SendNick, Write
  <2>2. Written(n) \in Seq(Up) /\ (Written(n) = <<>> \/ Written(n)[1].kind = "nick")
    BY WrittenInUp DEF Written, Nick
  <2>3. Written(n) # <<>>
    BY <1>0, <1>a, <2>1, ConcatEmptySeq
  <2>4. up'[Len(up) + 1] = Written(n)[1]
    BY <1>0, <2>1, <2>2, <2>3, ConcatenatedAt
  <2>5. up'[Len(up) + 1] = m
    BY <1>0, AppendedAt
  <2> QED BY <2>2, <2>3, <2>4, <2>5 DEF Message
<1>6. CASE Text
  <2>1. InConversation /\ Send(Message(firstbyte, nameR, TRUE), "prompt")
    BY <1>6, <1>a DEF Text
  <2>2. Message(firstbyte, nameR, TRUE) = m
    BY <2>1, <1>0, SentIsLast
  <2>3. c[1] = firstbyte /\ c[2] = nameR
    BY <2>2 DEF Message
  <2> QED BY <1>6, <2>3 DEF Text, Conversations
<1>9. CASE Exit
  BY <1>9, <1>a, <1>b DEF Exit
<1>11. CASE Quit
  BY <1>11, <1>b DEF Quit
<1>12. ASSUME NEW n, NEW typed, Chat(n, typed) \/ Join(n, typed) PROVE FALSE
  BY <1>12, <1>a, <1>b DEF Chat, Join, Open
<1>14. CASE (\E n \in LongNicks : NickTooLong(n)) \/ (\E n : Typo(n)) \/ Slip \/ Help \/ Interrupt
  BY <1>14, <1>a DEF NickTooLong, Typo, Slip, Help, Interrupt
<1>15. CASE MainStep \/ ReaderStep
  BY <1>15, <1>a DEF MainStep, ReaderStep, ReadAnswer, ReadNothing, AnswerFails, Leave,
                    ReaderPrints, ReaderEnds
<1>16. CASE ServerStep \/ Mail \/ ServerDies
  BY <1>16, <1>a DEF ServerStep, Register, Refuse, Serve, Garbled, ServeGarbled, EndOfClient,
                    Mail, ServerDies
<1> QED BY <1>2, <1>6, <1>9, <1>11, <1>12, <1>14, <1>15, <1>16 DEF Next, UserStep

(* The invariant holds of every behaviour of client and server. *)
THEOREM Invariance == Spec => []ClientInv
<1>1. Init => ClientInv
  BY InitClientInv
<1>2. ClientInv /\ [Next]_vars => ClientInv'
  BY StepTypeOK, StepCounts, StepInStep, StepTalk DEF ClientInv
<1> QED BY <1>1, <1>2, PTL DEF Spec

(* The counters of client_nick, send_message and the server's loop stay in *)
(* range, and only nicks and messages are ever on the connection.          *)
THEOREM TypeCorrect == Spec => []TypeOK
<1>1. ClientInv => TypeOK
  BY DEF ClientInv
<1> QED BY <1>1, Invariance, PTL

(* However many nicks are refused and whichever end dies, the user at the  *)
(* prompt signs with the nick the server has registered.                   *)
THEOREM HandshakeInStep == Spec => []HandshakeAgrees
<1>1. ClientInv => HandshakeAgrees
  BY DEF ClientInv, InStep, HandshakeAgrees
<1> QED BY <1>1, Invariance, PTL

(* Text goes to the conversation asked for last, unless that /chat or      *)
(* /join was ignored at the limits or taken with no name or a wrong one.   *)
THEOREM TextStays == Spec => TextInConversation
<1> DEFINE Stays == \A c \in Conversations : SendsText(c) /\ talk # Unclear => c = talk
<1>1. ClientInv /\ [Next]_vars => [Stays]_vars
  <2> SUFFICES ASSUME TypeOK, Talk, Next, NEW c \in Conversations, SendsText(c), talk # Unclear
               PROVE  c = talk
    BY DEF ClientInv
  <2>1. c = <<firstbyte, nameR>> /\ c[1] \in {"1", "2"}
    BY TextIsTyped DEF Conversations
  <2> QED BY <2>1 DEF Talk
<1>2. Spec => [][Stays]_vars
  BY <1>1, Invariance, PTL DEF Spec
<1> QED BY <1>2 DEF TextInConversation

=============================================================================
