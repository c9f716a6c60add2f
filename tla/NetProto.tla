------------------------------ MODULE NetProto ------------------------------
(***************************************************************************)
(* Messages on a connection: pass_message and read_message of netproto.c,  *)
(* one thread at each end.  A message is a header of HDRSIZE bytes, which  *)
(* holds the length of the body, and the body.  TCP carries bytes: a read  *)
(* returns what has arrived, at most what was asked for.  Byte k of message *)
(* m is the pair <<m, k>>.  A connection ends in order, after the last     *)
(* byte, or is reset, which may keep from the reader what was written.     *)
(***************************************************************************)
EXTENDS Naturals, Sequences

CONSTANTS
    HDRSIZE,       \* bytes of a header (43)
    MaxLen,        \* bound: bytes of a body (the field is 16 bits, as MAXMSG)
    MaxSends       \* bound: messages passed

ASSUME SizeAssumption == HDRSIZE \in Nat \ {0} /\ MaxLen \in Nat /\ MaxSends \in Nat

VARIABLES
    sent,          \* msglen of each message passed
    owed,          \* body bytes between the two writes of pass_message
    closed,        \* the writer has closed its end
    stream,        \* bytes written and not read
    lost,          \* first byte that a reset keeps from the reader (or NoByte)
    pc,            \* loop of read_message: "header" or "body"; "ended" after -1
    hdr,           \* header of the message whose body is read
    msglen,        \* its msglen
    buffer,        \* what the loop has read: hdrbuf, then buffer
    got,           \* messages read_message has returned
    short          \* history: message and part of the first read that was short

writer == <<sent, owed, closed, lost>>
reader == <<pc, hdr, msglen, buffer, got>>
vars == <<writer, stream, reader, short>>

Header(m) == [k \in 1 .. HDRSIZE |-> <<m, k>>]
Body(m, n) == [k \in 1 .. n |-> <<m, HDRSIZE + k>>]
Message(m) == [hdr |-> Header(m), body |-> Body(m, sent[m])]

NoByte == <<0, 0>>

(* The byte that is written next. *)
NextByte == IF owed > 0 THEN <<Len(sent), HDRSIZE + 1>> ELSE <<Len(sent) + 1, 1>>

Whole == [at |-> 0, part |-> "none"]

Init ==
    /\ sent = <<>> /\ owed = 0 /\ closed = FALSE
    /\ stream = <<>> /\ lost = NoByte
    /\ pc = "header" /\ hdr = <<>> /\ msglen = 0 /\ buffer = <<>>
    /\ got = <<>>
    /\ short = Whole

-----------------------------------------------------------------------------
(* pass_message *)

WriteHeader(n) ==
    /\ ~closed /\ owed = 0
    /\ Len(sent) < MaxSends
    /\ sent' = Append(sent, n)
    /\ owed' = n
    /\ stream' = stream \o Header(Len(sent'))
    /\ UNCHANGED <<closed, lost, reader, short>>

WriteBody ==
    /\ ~closed /\ owed > 0
    /\ stream' = stream \o Body(Len(sent), owed)
    /\ owed' = 0
    /\ UNCHANGED <<sent, closed, lost, reader, short>>

(* The writer closes the connection, or dies. *)
Close ==
    /\ ~closed
    /\ closed' = TRUE
    /\ UNCHANGED <<sent, owed, stream, lost, reader, short>>

(* The connection is reset: the writer has closed it, or died, with bytes  *)
(* it had not read, or the network fails.  What is still on its way is     *)
(* discarded; j bytes are with the reader already.                         *)
Reset(j) ==
    /\ lost = NoByte
    /\ closed' = TRUE
    /\ stream' = SubSeq(stream, 1, j)
    /\ lost' = IF j < Len(stream) THEN stream[j + 1] ELSE NextByte
    /\ UNCHANGED <<sent, owed, reader, short>>

-----------------------------------------------------------------------------
(* read_message *)

(* read of at most n bytes returns k of them. *)
Read(n, k) ==
    /\ k \in 1 .. Len(stream) /\ k <= n
    /\ stream' = SubSeq(stream, k + 1, Len(stream))
    /\ short' = IF short = Whole /\ k < n THEN [at |-> Len(got) + 1, part |-> pc] ELSE short
    /\ UNCHANGED writer

(* A slip: a later piece is put in front of the earlier ones. *)
Filled_Front(k) == SubSeq(stream, 1, k) \o buffer
(* The loop has read this much when the read returns k bytes. *)
Filled(k) == buffer \o SubSeq(stream, 1, k)

(* A slip: the loop reads on when it has n bytes. *)
ReadMore_AtMost(n, k) ==
    /\ Read(n, k)
    /\ Len(buffer) + k <= n
    /\ buffer' = Filled(k)
    /\ UNCHANGED <<pc, hdr, msglen, got>>
(* Less than n bytes so far: the next read asks for n bytes again. *)
ReadMore(n, k) ==
    /\ Read(n, k)
    /\ Len(buffer) + k < n
    /\ buffer' = Filled(k)
    /\ UNCHANGED <<pc, hdr, msglen, got>>

HeaderMore(k) == pc = "header" /\ ReadMore(HDRSIZE, k)

(* The size of the last read decides whether there was a header. *)
HeaderFails_AtMost(k) == k <= HDRSIZE
HeaderFails(k) == k < HDRSIZE

EndHeader(k) ==
    /\ pc = "header"
    /\ Read(HDRSIZE, k)
    /\ Len(buffer) + k >= HDRSIZE
    /\ \/ HeaderFails(k)
       \/ Len(buffer) > 0     \* the read wrote past hdrbuf and the process may die
    /\ buffer' = <<>>
    /\ pc' = "ended"
    /\ UNCHANGED <<hdr, msglen, got>>

(* msglen of a header; anything, when the bytes are not a header's. *)
Lengths(h) ==
    LET from == {m \in DOMAIN sent : h = Header(m)}
    IN  IF from = {} THEN 0 .. MaxLen ELSE {sent[m] : m \in from}

Return(h, b) == got' = Append(got, [hdr |-> h, body |-> b])

(* What was read past the header is dropped.  Without a body, the message  *)
(* is complete.                                                            *)
ReadHeader(k, n) ==
    LET h == SubSeq(Filled(k), 1, HDRSIZE) IN
    /\ pc = "header"
    /\ Read(HDRSIZE, k)
    /\ Len(buffer) + k >= HDRSIZE /\ ~HeaderFails(k)
    /\ n \in Lengths(h)
    /\ buffer' = <<>>
    /\ IF n = 0 THEN Return(h, <<>>) /\ UNCHANGED <<pc, hdr, msglen>>
                ELSE pc' = "body" /\ hdr' = h /\ msglen' = n /\ UNCHANGED got

BodyMore(k) == pc = "body" /\ ReadMore(msglen, k)

(* What was read past the body is dropped. *)
ReadBody(k) ==
    /\ pc = "body"
    /\ Read(msglen, k)
    /\ Len(buffer) + k >= msglen
    /\ Return(hdr, SubSeq(Filled(k), 1, msglen))
    /\ buffer' = <<>>
    /\ pc' = "header" /\ hdr' = <<>> /\ msglen' = 0

(* read returns 0: in a header that is -1; in a body read_message returns  *)
(* 0, and a server's thread drops the message and reads the next, a        *)
(* client's reader ends.                                                   *)
AtEnd_Ignored == {"header"}
AtEnd == IF pc = "header" THEN {"ended"} ELSE {"header", "ended"}

ReadEnd ==
    /\ pc # "ended"
    /\ closed /\ stream = <<>> /\ lost = NoByte
    /\ pc' \in AtEnd
    /\ buffer' = <<>> /\ hdr' = <<>> /\ msglen' = 0
    /\ UNCHANGED <<writer, stream, got, short>>

(* After a reset, read returns -1 when there is nothing more to read, and  *)
(* so does read_message, in a header and in a body.                        *)
ReadFails ==
    /\ pc # "ended"
    /\ stream = <<>> /\ lost # NoByte
    /\ pc' = "ended"
    /\ buffer' = <<>> /\ hdr' = <<>> /\ msglen' = 0
    /\ UNCHANGED <<writer, stream, got, short>>

-----------------------------------------------------------------------------
ReaderStep ==
    \/ ReadEnd \/ ReadFails
    \/ \E k \in 1 .. Len(stream) :
          \/ HeaderMore(k) \/ EndHeader(k) \/ BodyMore(k) \/ ReadBody(k)
          \/ \E n \in 0 .. MaxLen : ReadHeader(k, n)

WriterStep == WriteBody \/ Close \/ \E n \in 0 .. MaxLen : WriteHeader(n)

Next == ReaderStep \/ WriterStep \/ \E j \in 0 .. Len(stream) : Reset(j)

Spec == Init /\ [][Next]_vars

(* The reader's thread is scheduled, and a read returns when there is      *)
(* something to return.                                                    *)
FairSpec == Spec /\ WF_vars(ReaderStep)

-----------------------------------------------------------------------------
Bytes == (1 .. MaxSends) \X (1 .. HDRSIZE + MaxLen)

(* Type invariant: the loops never hold a complete header or body. *)
TypeOK ==
    /\ sent \in Seq(0 .. MaxLen) /\ owed \in 0 .. MaxLen /\ closed \in BOOLEAN
    /\ stream \in Seq(Bytes)
    /\ lost \in {NoByte} \cup (1 .. MaxSends + 1) \X (1 .. HDRSIZE + MaxLen)
    /\ pc \in {"header", "body", "ended"}
    /\ hdr \in Seq(Bytes) /\ buffer \in Seq(Bytes)
    /\ msglen \in 0 .. MaxLen
    /\ Len(buffer) < IF pc = "body" THEN msglen ELSE HDRSIZE
    /\ got \in Seq([hdr : Seq(Bytes), body : Seq(Bytes)])
    /\ short \in [at : 0 .. MaxSends + 1, part : {"none", "header", "body"}]

(* The messages that a short read can not have damaged: all of them when   *)
(* no read was short.  A body that arrives in pieces is put together, so   *)
(* damage starts with the message after; a header that arrives in pieces   *)
(* damages its own message.                                                *)
Safe(i) ==
    \/ short = Whole
    \/ i < short.at
    \/ i = short.at /\ short.part = "body"

(* A short read damages nothing before it: every message returned up to    *)
(* there is the message passed, in the order passed, bytes of header and   *)
(* body, also when the writer stops between its two writes.                *)
DamageStartsAtShortRead ==
    \A i \in DOMAIN got : Safe(i) => i <= Len(sent) /\ got[i] = Message(i)

(* The first byte the reader can not have got. *)
FirstMissing == IF lost = NoByte THEN NextByte ELSE lost

(* Without a short read, the reader takes the end of the connection for    *)
(* the end only when it has returned every message that got through: all   *)
(* that were passed completely or, after a reset, all those before the     *)
(* first byte that the reset discarded.                                    *)
EndLosesNothing ==
    pc = "ended" /\ short = Whole => Len(got) = FirstMissing[1] - 1

(* Whatever arrives, in whatever pieces, the reader ends when the          *)
(* connection does: no length field and no damage makes it wait on.        *)
ReaderEnds == closed ~> pc = "ended"

=============================================================================
