--------------------------- MODULE NetProtoProofs ---------------------------
(***************************************************************************)
(* Proofs about NetProto, for any size of header, any lengths of bodies    *)
(* and any number of messages.                                             *)
(*                                                                         *)
(* The invariant follows the reader's place among the bytes passed.  The   *)
(* bytes in the stream are consecutive (InSync); as long as no read was    *)
(* short the next one is the first of a header or of a body, or the        *)
(* connection is over; a body whose pieces are read is consecutive with    *)
(* what is still in the stream.                                            *)
(***************************************************************************)
EXTENDS NetProto, SequenceTheorems, NaturalsInduction, WellFoundedInduction, TLAPS

(* The byte passed after byte b. *)
After(b) == IF b[2] < HDRSIZE + sent[b[1]] THEN <<b[1], b[2] + 1>> ELSE <<b[1] + 1, 1>>

(* The byte that is or, if it comes at all, will be in place j of the stream. *)
At(j) == IF j \in 1 .. Len(stream) THEN stream[j] ELSE FirstMissing

(* The reader finds byte c next, and the bytes passed after it in order. *)
InSync(c) == At(1) = c /\ \A j \in 1 .. Len(stream) : At(j + 1) = After(At(j))

Passed(b) ==
    /\ b \in (1 .. Len(sent)) \X (1 .. HDRSIZE + MaxLen)
    /\ b[2] <= HDRSIZE + sent[b[1]]

Writer ==
    /\ Len(sent) <= MaxSends
    /\ owed > 0 => sent # <<>> /\ sent[Len(sent)] = owed
    /\ \A j \in 1 .. Len(stream) : Passed(stream[j])
    /\ lost # NoByte => closed

(* The next message to be returned, when no byte was lost before it. *)
Due == Len(got) + 1

AtHeader == pc = "header" /\ buffer = <<>> /\ InSync(<<Due, 1>>)

InBody ==
    /\ pc = "body" /\ Due <= Len(sent)
    /\ hdr = Header(Due) /\ msglen = sent[Due]
    /\ \A i \in 1 .. Len(buffer) : buffer[i] = <<Due, HDRSIZE + i>>
    /\ InSync(<<Due, HDRSIZE + Len(buffer) + 1>>)

Over ==
    /\ closed /\ stream = <<>> /\ buffer = <<>> /\ pc # "body"
    /\ Len(got) = FirstMissing[1] - 1

NoShortRead ==
    short = Whole =>
      /\ buffer = <<>> /\ Len(got) <= Len(sent)
      /\ AtHeader \/ InBody \/ Over

(* The message whose body was read in pieces is returned next, or never. *)
Pieces == short.part = "body" /\ Len(got) < short.at => InBody \/ (stream = <<>> /\ pc # "body" /\ closed)

ShortReadAt == Len(got) + 1 >= short.at

NetInv == TypeOK /\ Writer /\ NoShortRead /\ Pieces /\ ShortReadAt /\ DamageStartsAtShortRead

-----------------------------------------------------------------------------
(* The reader's place. *)

LEMMA LeastNatural ==
    ASSUME NEW T \in SUBSET Nat, T # {}
    PROVE  \E n \in T : \A k \in T : n <= k
<1>1. PICK n \in T : \A k \in Nat : <<k, n>> \in OpToRel(<, Nat) => k \notin T
  BY NatLessThanWellFounded, WFMin
<1>2. \A k \in T : ~(k < n)
  BY <1>1 DEF OpToRel
<1> QED BY <1>2

(* From byte k of a message on, its bytes follow each other. *)
LEMMA Run ==
    ASSUME NEW m \in Nat, NEW k \in Nat, InSync(<<m, k>>), stream \in Seq(Bytes),
           HDRSIZE + sent[m] \in Nat
    PROVE  \A d \in 0 .. Len(stream) :
             k + d <= HDRSIZE + sent[m] => At(1 + d) = <<m, k + d>>
<1> DEFINE T == {d \in 0 .. Len(stream) : k + d <= HDRSIZE + sent[m] /\ At(1 + d) # <<m, k + d>>}
<1> SUFFICES ASSUME T # {} PROVE FALSE
  OBVIOUS
<1>0. Len(stream) \in Nat
  OBVIOUS
<1>1. PICK d \in T : \A e \in T : d <= e
  <2>1. T \in SUBSET Nat
    BY <1>0
  <2> QED BY <2>1, LeastNatural
<1>2. d # 0
  <2>1. At(1 + 0) = <<m, k + 0>>
    BY DEF InSync
  <2> QED BY <1>1, <2>1
<1>3. d - 1 \in 0 .. Len(stream) /\ k + (d - 1) <= HDRSIZE + sent[m] /\ ~(d <= d - 1)
  BY <1>0, <1>1, <1>2
<1>4. At(1 + (d - 1)) = <<m, k + (d - 1)>>
  BY <1>1, <1>3
<1>5. 1 + (d - 1) = d /\ d \in 1 .. Len(stream) /\ d + 1 = 1 + d
  BY <1>0, <1>1, <1>2
<1>6. At(d + 1) = After(At(d))
  BY <1>5 DEF InSync
<1>7. At(d) = <<m, k + (d - 1)>>
  BY <1>4, <1>5
<1>8. k + (d - 1) < HDRSIZE + sent[m] /\ k + (d - 1) + 1 = k + d
  BY <1>1, <1>3
<1>9. After(At(d)) = <<m, k + d>>
  BY <1>7, <1>8 DEF After
<1> QED BY <1>1, <1>5, <1>6, <1>9

(* A read moves the reader's place. *)
LEMMA Shift ==
    ASSUME NEW c, InSync(c), stream \in Seq(Bytes), NEW j \in 1 .. Len(stream),
           stream' = SubSeq(stream, j + 1, Len(stream)), UNCHANGED <<sent, owed, lost>>,
           NEW b, b = At(j + 1)
    PROVE  InSync(b)'
<1>0. Len(stream) \in Nat
  OBVIOUS
<1>1. /\ Len(stream') = Len(stream) - j
      /\ \A i \in 1 .. Len(stream) - j : stream'[i] = stream[j + i]
  BY SubSeqProperties
<1>2. FirstMissing' = FirstMissing /\ \A a : After(a)' = After(a)
  BY DEF FirstMissing, NextByte, After
<1>3. \A i \in 1 .. Len(stream) - j + 1 : At(i)' = At(j + i)
  <2> TAKE i \in 1 .. Len(stream) - j + 1
  <2>1. CASE i \in 1 .. Len(stream) - j
    <3>1. j + i \in 1 .. Len(stream)
      BY <1>0, <2>1
    <3> QED BY <1>1, <2>1, <3>1 DEF At
  <2>2. CASE i = Len(stream) - j + 1
    <3>1. j + i \notin 1 .. Len(stream) /\ i \notin 1 .. Len(stream) - j
      BY <1>0, <2>2
    <3> QED BY <1>1, <1>2, <3>1 DEF At
  <2> QED BY <1>0, <2>1, <2>2
<1>4. 1 \in 1 .. Len(stream) - j + 1
  BY <1>0
<1>5. At(1)' = b
  BY <1>3, <1>4
<1>6. ASSUME NEW i \in 1 .. Len(stream) - j PROVE At(i + 1)' = After(At(i))'
  <2>1. i \in 1 .. Len(stream) - j + 1 /\ i + 1 \in 1 .. Len(stream) - j + 1
        /\ j + i \in 1 .. Len(stream) /\ (j + i) + 1 = j + (i + 1)
    BY <1>0
  <2>2. At(i)' = At(j + i) /\ At(i + 1)' = At((j + i) + 1)
    BY <1>3, <2>1
  <2>3. At((j + i) + 1) = After(At(j + i))
    BY <2>1 DEF InSync
  <2> QED BY <1>2, <2>2, <2>3
<1> QED BY <1>1, <1>5, <1>6 DEF InSync

(* The last byte of a message, or one before it, has been read. *)
LEMMA ReadOn ==
    ASSUME NEW m \in Nat, NEW k \in Nat, InSync(<<m, k>>), stream \in Seq(Bytes),
           HDRSIZE + sent[m] \in Nat, NEW j \in 1 .. Len(stream),
           stream' = SubSeq(stream, j + 1, Len(stream)), UNCHANGED <<sent, owed, lost>>
    PROVE  /\ k + j <= HDRSIZE + sent[m] => InSync(<<m, k + j>>)'
           /\ k + j = HDRSIZE + sent[m] + 1 => InSync(<<m + 1, 1>>)'
<1>0. Len(stream) \in Nat
  OBVIOUS
<1>1. ASSUME k + j <= HDRSIZE + sent[m] PROVE InSync(<<m, k + j>>)'
  <2>1. At(1 + j) = <<m, k + j>>
    BY <1>0, <1>1, Run
  <2>2. 1 + j = j + 1
    BY <1>0
  <2> QED BY <2>1, <2>2, Shift
<1>2. ASSUME k + j = HDRSIZE + sent[m] + 1 PROVE InSync(<<m + 1, 1>>)'
  <2>1. j - 1 \in 0 .. Len(stream) /\ k + (j - 1) <= HDRSIZE + sent[m] /\ 1 + (j - 1) = j
        /\ ~(k + (j - 1) < HDRSIZE + sent[m])
    BY <1>0, <1>2
  <2>2. At(j) = <<m, k + (j - 1)>>
    BY <2>1, Run
  <2>3. At(j + 1) = After(At(j))
    BY DEF InSync
  <2>4. At(j + 1) = <<m + 1, 1>>
    BY <2>1, <2>2, <2>3 DEF After
  <2> QED BY <2>4, Shift
<1> QED BY <1>1, <1>2

-----------------------------------------------------------------------------
(* What is written continues what has been written. *)

LEMMA Lengths0 ==
    ASSUME TypeOK
    PROVE  /\ Len(sent) \in Nat /\ Len(stream) \in Nat /\ Len(buffer) \in Nat /\ Len(got) \in Nat
           /\ \A m \in 1 .. Len(sent) : sent[m] \in 0 .. MaxLen
           /\ owed \in Nat /\ HDRSIZE \in Nat /\ HDRSIZE > 0
           /\ \A m \in 1 .. Len(sent) : HDRSIZE + sent[m] \in Nat
<1>1. /\ Len(sent) \in Nat /\ Len(stream) \in Nat /\ Len(buffer) \in Nat /\ Len(got) \in Nat
      /\ \A m \in 1 .. Len(sent) : sent[m] \in 0 .. MaxLen
  <2>1. /\ sent \in Seq(0 .. MaxLen) /\ stream \in Seq(Bytes) /\ buffer \in Seq(Bytes)
        /\ got \in Seq([hdr : Seq(Bytes), body : Seq(Bytes)])
    BY DEF TypeOK
  <2> QED BY ONLY <2>1, LenProperties, ElementOfSeq
<1>2. owed \in 0 .. MaxLen /\ HDRSIZE \in Nat \ {0} /\ MaxLen \in Nat
  BY SizeAssumption DEF TypeOK
<1> QED BY ONLY <1>1, <1>2

LEMMA FunctionIsSeq ==
    ASSUME NEW S, NEW n \in Nat, NEW f \in [1 .. n -> S]
    PROVE  f \in Seq(S) /\ Len(f) = n
OBVIOUS

LEMMA HeaderAppended ==
    ASSUME TypeOK, Writer, NEW n \in 0 .. MaxLen, WriteHeader(n)
    PROVE  /\ Len(sent') = Len(sent) + 1 /\ sent'[Len(sent) + 1] = n
           /\ \A m \in 1 .. Len(sent) : sent'[m] = sent[m]
           /\ Len(stream') = Len(stream) + HDRSIZE
           /\ \A j \in 1 .. Len(stream) : stream'[j] = stream[j]
           /\ \A j \in Len(stream) + 1 .. Len(stream) + HDRSIZE :
                stream'[j] = <<Len(sent) + 1, j - Len(stream)>>
<1>1. sent \in Seq(0 .. MaxLen) /\ stream \in Seq(Bytes) /\ HDRSIZE \in Nat
  BY SizeAssumption DEF TypeOK
<1>2. sent' = Append(sent, n)
  BY DEF WriteHeader
<1>3. /\ Len(sent') = Len(sent) + 1 /\ sent'[Len(sent) + 1] = n
      /\ \A m \in 1 .. Len(sent) : sent'[m] = sent[m]
  BY ONLY <1>1, <1>2, AppendProperties, n \in 0 .. MaxLen
<1>4. stream' = stream \o Header(Len(sent) + 1)
  BY <1>3 DEF WriteHeader
<1> DEFINE h == Header(Len(sent) + 1)
<1>5. h \in Seq(Bytes) /\ Len(h) = HDRSIZE /\ \A k \in 1 .. HDRSIZE : h[k] = <<Len(sent) + 1, k>>
  <2>1. \A k \in 1 .. HDRSIZE : <<Len(sent) + 1, k>> \in Bytes
    BY <1>1, SizeAssumption DEF WriteHeader, Bytes
  <2> QED BY <1>1, <2>1 DEF Header
<1> HIDE DEF h
<1>7. /\ Len(stream \o h) = Len(stream) + HDRSIZE
      /\ \A j \in 1 .. Len(stream) + HDRSIZE :
           (stream \o h)[j] = IF j <= Len(stream) THEN stream[j] ELSE h[j - Len(stream)]
  BY <1>1, <1>5, ConcatProperties
<1>8. Len(stream) \in Nat
  BY <1>1
<1>9. /\ \A j \in 1 .. Len(stream) : (stream \o h)[j] = stream[j]
      /\ \A j \in Len(stream) + 1 .. Len(stream) + HDRSIZE :
           (stream \o h)[j] = <<Len(sent) + 1, j - Len(stream)>>
  BY <1>1, <1>5, <1>7, <1>8
<1> QED BY <1>3, <1>4, <1>7, <1>9 DEF h

LEMMA HeaderKeepsSync ==
    ASSUME TypeOK, Writer, NEW n \in 0 .. MaxLen, WriteHeader(n), NEW c, InSync(c)
    PROVE  InSync(c)'
<1>l. PICK L \in Nat : L = Len(stream)
  BY Lengths0
<1>n. PICK N \in Nat : N = Len(sent)
  BY Lengths0
<1>0. L \in Nat /\ N \in Nat /\ HDRSIZE \in Nat /\ HDRSIZE > 0 /\ n \in Nat
  BY Lengths0
<1>1. owed = 0 /\ owed' = n /\ lost = NoByte /\ lost' = lost
  BY DEF WriteHeader, Writer
<1>a. Len(sent') = N + 1 /\ sent'[N + 1] = n /\ (\A m \in 1 .. N : sent'[m] = sent[m])
  BY <1>n, HeaderAppended
<1>b. /\ Len(stream') = L + HDRSIZE
      /\ \A j \in 1 .. L : stream'[j] = stream[j]
      /\ \A j \in L + 1 .. L + HDRSIZE : stream'[j] = <<N + 1, j - L>>
  BY <1>l, <1>n, HeaderAppended
<1>2. FirstMissing = <<N + 1, 1>> /\ FirstMissing' = IF n > 0 THEN <<N + 1, HDRSIZE + 1>> ELSE <<N + 2, 1>>
  BY <1>0, <1>1, <1>a, <1>n DEF FirstMissing, NextByte
<1>3. \A j \in 1 .. L : At(j) = stream[j] /\ At(j)' = stream[j]
  BY <1>0, <1>b, <1>l DEF At
<1>4. \A k \in 1 .. HDRSIZE : At(L + k)' = <<N + 1, k>>
  <2> TAKE k \in 1 .. HDRSIZE
  <2>1. L + k \in L + 1 .. L + HDRSIZE /\ L + k \in 1 .. L + HDRSIZE /\ (L + k) - L = k
    BY <1>0
  <2> QED BY <1>b, <2>1 DEF At
<1>5. At(L + 1) = FirstMissing /\ At(L + HDRSIZE + 1)' = FirstMissing'
  BY <1>0, <1>b, <1>l DEF At
<1>6. \A j \in 1 .. L + 1 : At(j)' = At(j)
  <2> TAKE j \in 1 .. L + 1
  <2>1. CASE j \in 1 .. L
    BY <1>3, <2>1
  <2>2. CASE j = L + 1
    <3>1. 1 \in 1 .. HDRSIZE
      BY <1>0
    <3> QED BY <1>2, <1>4, <1>5, <2>2, <3>1
  <2> QED BY <1>0, <2>1, <2>2
<1>7. ASSUME NEW j \in 1 .. L PROVE At(j + 1)' = After(At(j))'
  <2>1. j \in 1 .. L + 1 /\ j + 1 \in 1 .. L + 1
    BY <1>0
  <2>2. At(j + 1) = After(At(j))
    BY <1>l DEF InSync
  <2>3. sent'[At(j)[1]] = sent[At(j)[1]]
    BY <1>3, <1>a, <1>l, <1>n DEF Writer, Passed
  <2> QED BY <1>6, <2>1, <2>2, <2>3 DEF After
<1>8. ASSUME NEW k \in 1 .. HDRSIZE - 1 PROVE At((L + k) + 1)' = After(At(L + k))'
  <2>1. k \in 1 .. HDRSIZE /\ k + 1 \in 1 .. HDRSIZE /\ (L + k) + 1 = L + (k + 1) /\ k < HDRSIZE + n
    BY <1>0
  <2>2. At(L + k)' = <<N + 1, k>> /\ At(L + (k + 1))' = <<N + 1, k + 1>>
    BY <1>4, <2>1
  <2> QED BY <1>a, <2>1, <2>2 DEF After
<1>9. At((L + HDRSIZE) + 1)' = After(At(L + HDRSIZE))'
  <2>1. HDRSIZE \in 1 .. HDRSIZE /\ (HDRSIZE < HDRSIZE + n <=> n > 0) /\ N + 2 = (N + 1) + 1
    BY <1>0
  <2>2. At(L + HDRSIZE)' = <<N + 1, HDRSIZE>> /\ At((L + HDRSIZE) + 1)' = FirstMissing'
    BY <1>4, <1>5, <2>1
  <2>3. After(At(L + HDRSIZE))' = IF HDRSIZE < HDRSIZE + n THEN <<N + 1, HDRSIZE + 1>> ELSE <<(N + 1) + 1, 1>>
    BY <1>a, <2>2 DEF After
  <2>4. CASE n > 0
    BY <1>2, <2>1, <2>2, <2>3, <2>4
  <2>5. CASE ~(n > 0)
    BY <1>2, <2>1, <2>2, <2>3, <2>5
  <2> QED BY <2>4, <2>5
<1>10. \A j \in 1 .. L + HDRSIZE : At(j + 1)' = After(At(j))'
  <2> TAKE j \in 1 .. L + HDRSIZE
  <2>1. CASE j \in 1 .. L
    BY <1>7, <2>1
  <2>2. CASE j - L \in 1 .. HDRSIZE - 1
    <3>1. j = L + (j - L)
      BY <1>0
    <3> QED BY <1>8, <2>2, <3>1
  <2>3. CASE j = L + HDRSIZE
    BY <1>9, <2>3
  <2> QED BY <1>0, <2>1, <2>2, <2>3
<1>11. At(1)' = c
  BY <1>0, <1>6 DEF InSync
<1> QED BY <1>10, <1>11, <1>b DEF InSync

LEMMA BodyAppended ==
    ASSUME TypeOK, Writer, WriteBody
    PROVE  /\ Len(sent) \in 1 .. MaxSends /\ sent[Len(sent)] = owed /\ owed \in 1 .. MaxLen
           /\ Len(stream') = Len(stream) + owed
           /\ \A j \in 1 .. Len(stream) : stream'[j] = stream[j]
           /\ \A j \in Len(stream) + 1 .. Len(stream) + owed :
                stream'[j] = <<Len(sent), HDRSIZE + (j - Len(stream))>>
<1>1. /\ sent \in Seq(0 .. MaxLen) /\ stream \in Seq(Bytes) /\ HDRSIZE \in Nat /\ MaxSends \in Nat
      /\ HDRSIZE > 0 /\ MaxLen \in Nat
  BY SizeAssumption DEF TypeOK
<1>2. owed \in 1 .. MaxLen /\ sent # <<>> /\ sent[Len(sent)] = owed /\ Len(sent) <= MaxSends
  BY <1>1 DEF WriteBody, Writer, TypeOK
<1>3. Len(sent) \in 1 .. MaxSends
  BY <1>1, <1>2, LenProperties, EmptySeq
<1> DEFINE b == Body(Len(sent), owed)
<1>4. stream' = stream \o b
  BY DEF WriteBody
<1>5. b \in Seq(Bytes) /\ Len(b) = owed /\ \A k \in 1 .. owed : b[k] = <<Len(sent), HDRSIZE + k>>
  <2>1. \A k \in 1 .. owed : <<Len(sent), HDRSIZE + k>> \in Bytes
    BY <1>1, <1>2, <1>3 DEF Bytes
  <2>2. owed \in Nat
    BY <1>1, <1>2
  <2>3. b \in [1 .. owed -> Bytes] /\ \A k \in 1 .. owed : b[k] = <<Len(sent), HDRSIZE + k>>
    BY <2>1 DEF Body
  <2> HIDE DEF b
  <2> QED BY <2>2, <2>3, FunctionIsSeq
<1> HIDE DEF b
<1>6. /\ Len(stream \o b) = Len(stream) + owed
      /\ \A j \in 1 .. Len(stream) + owed :
           (stream \o b)[j] = IF j <= Len(stream) THEN stream[j] ELSE b[j - Len(stream)]
  BY <1>1, <1>5, ConcatProperties
<1>7. Len(stream) \in Nat
  BY <1>1
<1>8. /\ \A j \in 1 .. Len(stream) : (stream \o b)[j] = stream[j]
      /\ \A j \in Len(stream) + 1 .. Len(stream) + owed :
           (stream \o b)[j] = <<Len(sent), HDRSIZE + (j - Len(stream))>>
  BY <1>2, <1>5, <1>6, <1>7
<1> QED BY <1>2, <1>3, <1>4, <1>6, <1>8

LEMMA BodyKeepsSync ==
    ASSUME TypeOK, Writer, WriteBody, NEW c, InSync(c)
    PROVE  InSync(c)'
<1>l. PICK L \in Nat : L = Len(stream)
  BY Lengths0
<1>n. PICK N \in Nat : N = Len(sent)
  BY Lengths0
<1>o. PICK n \in 1 .. MaxLen : n = owed /\ n = sent[N]
  BY <1>n, BodyAppended
<1>0. HDRSIZE \in Nat /\ HDRSIZE > 0 /\ n \in Nat /\ n > 0
  BY Lengths0, SizeAssumption
<1>1. owed' = 0 /\ sent' = sent /\ lost = NoByte /\ lost' = lost
  BY DEF WriteBody, Writer
<1>2. FirstMissing = <<N, HDRSIZE + 1>> /\ FirstMissing' = <<N + 1, 1>>
  BY <1>0, <1>1, <1>n, <1>o DEF FirstMissing, NextByte
<1>b. /\ Len(stream') = L + n
      /\ \A j \in 1 .. L : stream'[j] = stream[j]
      /\ \A j \in L + 1 .. L + n : stream'[j] = <<N, HDRSIZE + (j - L)>>
  BY <1>l, <1>n, <1>o, BodyAppended
<1>3. \A j \in 1 .. L : At(j) = stream[j] /\ At(j)' = stream[j]
  BY <1>0, <1>b, <1>l DEF At
<1>4. \A k \in 1 .. n : At(L + k)' = <<N, HDRSIZE + k>>
  <2> TAKE k \in 1 .. n
  <2>1. L + k \in L + 1 .. L + n /\ L + k \in 1 .. L + n /\ (L + k) - L = k
    BY <1>0
  <2> QED BY <1>b, <2>1 DEF At
<1>5. At(L + 1) = FirstMissing /\ At(L + n + 1)' = FirstMissing'
  BY <1>0, <1>b, <1>l DEF At
<1>6. \A j \in 1 .. L + 1 : At(j)' = At(j)
  <2> TAKE j \in 1 .. L + 1
  <2>1. CASE j \in 1 .. L
    BY <1>3, <2>1
  <2>2. CASE j = L + 1
    <3>1. 1 \in 1 .. n
      BY <1>0
    <3> QED BY <1>2, <1>4, <1>5, <2>2, <3>1
  <2> QED BY <1>0, <2>1, <2>2
<1>7. ASSUME NEW j \in 1 .. L PROVE At(j + 1)' = After(At(j))'
  <2>1. j \in 1 .. L + 1 /\ j + 1 \in 1 .. L + 1
    BY <1>0
  <2>2. At(j + 1) = After(At(j))
    BY <1>l DEF InSync
  <2> QED BY <1>1, <1>6, <2>1, <2>2 DEF After
<1>8. ASSUME NEW k \in 1 .. n - 1 PROVE At((L + k) + 1)' = After(At(L + k))'
  <2>1. /\ k \in 1 .. n /\ k + 1 \in 1 .. n /\ (L + k) + 1 = L + (k + 1) /\ HDRSIZE + k < HDRSIZE + n
        /\ (HDRSIZE + k) + 1 = HDRSIZE + (k + 1)
    BY <1>0
  <2>2. At(L + k)' = <<N, HDRSIZE + k>> /\ At(L + (k + 1))' = <<N, HDRSIZE + (k + 1)>>
    BY <1>4, <2>1
  <2> QED BY <1>1, <1>o, <2>1, <2>2 DEF After
<1>9. At((L + n) + 1)' = After(At(L + n))'
  <2>1. n \in 1 .. n /\ ~(HDRSIZE + n < HDRSIZE + n)
    BY <1>0
  <2>2. At(L + n)' = <<N, HDRSIZE + n>> /\ At((L + n) + 1)' = <<N + 1, 1>>
    BY <1>2, <1>4, <1>5, <2>1
  <2> QED BY <1>1, <1>o, <2>1, <2>2 DEF After
<1>10. \A j \in 1 .. L + n : At(j + 1)' = After(At(j))'
  <2> TAKE j \in 1 .. L + n
  <2>1. CASE j \in 1 .. L
    BY <1>7, <2>1
  <2>2. CASE j - L \in 1 .. n - 1
    <3>1. j = L + (j - L)
      BY <1>0
    <3> QED BY <1>8, <2>2, <3>1
  <2>3. CASE j = L + n
    BY <1>9, <2>3
  <2> QED BY <1>0, <2>1, <2>2, <2>3
<1>11. At(1)' = c
  BY <1>0, <1>6 DEF InSync
<1> QED BY <1>10, <1>11, <1>b DEF InSync

(* The front of a sequence of bytes. *)
LEMMA FrontTyped ==
    ASSUME NEW f \in Seq(Bytes), NEW n \in Nat, n <= Len(f)
    PROVE  /\ SubSeq(f, 1, n) \in Seq(Bytes) /\ Len(SubSeq(f, 1, n)) = n
           /\ \A j \in 1 .. n : SubSeq(f, 1, n)[j] = f[j]
<1>1. CASE n = 0
  BY <1>1, SubSeqProperties
<1>2. CASE n # 0
  BY <1>2, SubSeqProperties
<1> QED BY <1>1, <1>2

(* What a reset leaves in the stream. *)
LEMMA ResetSplits ==
    ASSUME TypeOK, NEW j \in 0 .. Len(stream), Reset(j)
    PROVE  /\ j \in Nat /\ stream' \in Seq(Bytes) /\ Len(stream') = j
           /\ \A i \in 1 .. j : stream'[i] = stream[i]
<1>1. stream \in Seq(Bytes) /\ Len(stream) \in Nat /\ j \in Nat /\ j <= Len(stream)
  BY DEF TypeOK
<1>2. stream' = SubSeq(stream, 1, j)
  BY DEF Reset
<1> QED BY <1>1, <1>2, FrontTyped

(* The first byte that is missing then is the one after those. *)
LEMMA ResetKeepsSync ==
    ASSUME TypeOK, Writer, NEW j \in 0 .. Len(stream), Reset(j), NEW c, InSync(c)
    PROVE  InSync(c)'
<1>0. j \in Nat /\ Len(stream) \in Nat /\ j <= Len(stream) /\ Len(stream') = j
  BY ResetSplits, Lengths0
<1>1. lost = NoByte /\ UNCHANGED <<sent, owed>>
  BY DEF Reset
<1>2. FirstMissing' = At(j + 1)
  <2>1. lost' # NoByte
    <3>1. CASE j < Len(stream)
      <4>1. j + 1 \in 1 .. Len(stream) /\ lost' = stream[j + 1]
        BY <1>0, <3>1 DEF Reset
      <4>2. stream[j + 1] \in (1 .. Len(sent)) \X (1 .. HDRSIZE + MaxLen)
        BY <4>1 DEF Writer, Passed
      <4> QED BY <4>1, <4>2 DEF NoByte
    <3>2. CASE ~(j < Len(stream))
      <4>1. lost' = NextByte /\ HDRSIZE + 1 # 0
        BY <3>2, SizeAssumption DEF Reset
      <4> QED BY <4>1 DEF NextByte, NoByte
    <3> QED BY <3>1, <3>2
  <2>2. FirstMissing' = lost'
    BY <2>1 DEF FirstMissing
  <2>3. CASE j < Len(stream)
    <3>1. j + 1 \in 1 .. Len(stream) /\ lost' = stream[j + 1]
      BY <1>0, <2>3 DEF Reset
    <3> QED BY <2>2, <3>1 DEF At
  <2>4. CASE ~(j < Len(stream))
    <3>1. j + 1 \notin 1 .. Len(stream) /\ lost' = NextByte
      BY <1>0, <2>4 DEF Reset
    <3> QED BY <1>1, <2>2, <3>1 DEF At, FirstMissing
  <2> QED BY <2>3, <2>4
<1>3. \A i \in 1 .. j + 1 : At(i)' = At(i)
  <2> TAKE i \in 1 .. j + 1
  <2>1. CASE i \in 1 .. j
    <3>1. i \in 1 .. Len(stream) /\ stream'[i] = stream[i]
      BY <1>0, <2>1, ResetSplits
    <3> QED BY <1>0, <2>1, <3>1 DEF At
  <2>2. CASE i = j + 1
    <3>1. i \notin 1 .. j
      BY <1>0, <2>2
    <3> QED BY <1>0, <1>2, <2>2, <3>1 DEF At
  <2> QED BY <1>0, <2>1, <2>2
<1>4. 1 \in 1 .. j + 1 /\ \A i \in 1 .. j : i \in 1 .. j + 1 /\ i + 1 \in 1 .. j + 1 /\ i \in 1 .. Len(stream)
  BY <1>0
<1>5. \A b : After(b)' = After(b)
  BY <1>1 DEF After
<1> QED BY <1>0, <1>3, <1>4, <1>5 DEF InSync

-----------------------------------------------------------------------------
(* What a read leaves and what the loop has read then. *)

LEMMA ReadSplits ==
    ASSUME TypeOK, NEW n, NEW k, Read(n, k)
    PROVE  /\ k \in 1 .. Len(stream) /\ k <= n /\ k \in Nat
           /\ stream' = SubSeq(stream, k + 1, Len(stream)) /\ stream' \in Seq(Bytes)
           /\ Len(stream') = Len(stream) - k
           /\ \A j \in 1 .. Len(stream) - k : stream'[j] = stream[k + j]
           /\ Filled(k) \in Seq(Bytes) /\ Len(Filled(k)) = Len(buffer) + k
           /\ \A j \in 1 .. Len(buffer) : Filled(k)[j] = buffer[j]
           /\ \A j \in 1 .. k : Filled(k)[Len(buffer) + j] = stream[j]
<1>1. stream \in Seq(Bytes) /\ buffer \in Seq(Bytes) /\ Len(stream) \in Nat /\ Len(buffer) \in Nat
  BY DEF TypeOK
<1>2. k \in 1 .. Len(stream) /\ k <= n /\ stream' = SubSeq(stream, k + 1, Len(stream))
  BY DEF Read
<1>3. k \in Nat /\ k + 1 \in Int /\ 1 <= Len(stream) + 1
  BY <1>1, <1>2
<1>4. /\ stream' \in Seq(Bytes) /\ Len(stream') = Len(stream) - k
      /\ \A j \in 1 .. Len(stream) - k : stream'[j] = stream[k + j]
  BY <1>1, <1>2, <1>3, SubSeqProperties
<1> DEFINE p == SubSeq(stream, 1, k)
<1>5. p \in Seq(Bytes) /\ Len(p) = k /\ \A j \in 1 .. k : p[j] = stream[j]
  BY <1>1, <1>2, <1>3, SubSeqProperties
<1> HIDE DEF p
<1>6. Filled(k) = buffer \o p
  BY DEF Filled, p
<1>7. /\ Filled(k) \in Seq(Bytes) /\ Len(Filled(k)) = Len(buffer) + k
      /\ \A j \in 1 .. Len(buffer) + k :
           Filled(k)[j] = IF j <= Len(buffer) THEN buffer[j] ELSE p[j - Len(buffer)]
  BY <1>1, <1>5, <1>6, ConcatProperties
<1>8. \A j \in 1 .. Len(buffer) : Filled(k)[j] = buffer[j]
  BY <1>1, <1>3, <1>7
<1>9. \A j \in 1 .. k : Filled(k)[Len(buffer) + j] = stream[j]
  <2> TAKE j \in 1 .. k
  <2>1. Len(buffer) + j \in 1 .. Len(buffer) + k /\ ~(Len(buffer) + j <= Len(buffer))
        /\ (Len(buffer) + j) - Len(buffer) = j
    BY <1>1, <1>3
  <2> QED BY <1>5, <1>7, <2>1
<1> QED BY <1>2, <1>3, <1>4, <1>7, <1>8, <1>9

Shorts == [at : 0 .. MaxSends + 1, part : {"none", "header", "body"}]

LEMMA ReadNotesShort ==
    ASSUME TypeOK, Writer, NoShortRead, pc \in {"header", "body"}, NEW n, NEW k, Read(n, k)
    PROVE  short' \in Shorts
<1>1. short \in Shorts /\ MaxSends \in Nat /\ Len(got) \in Nat /\ Len(sent) \in Nat
  BY SizeAssumption, Lengths0 DEF TypeOK, Shorts
<1>2. CASE short = Whole /\ k < n
  <2>1. Len(got) + 1 \in 0 .. MaxSends + 1
    BY <1>1, <1>2 DEF NoShortRead, Writer
  <2>2. short' = [at |-> Len(got) + 1, part |-> pc]
    BY <1>2 DEF Read
  <2> QED BY <2>1, <2>2 DEF Shorts
<1>3. CASE ~(short = Whole /\ k < n)
  BY <1>1, <1>3 DEF Read
<1> QED BY <1>2, <1>3

-----------------------------------------------------------------------------
(* Types *)

Returned == [hdr : Seq(Bytes), body : Seq(Bytes)]

WriterTypes ==
    /\ sent \in Seq(0 .. MaxLen) /\ owed \in 0 .. MaxLen /\ closed \in BOOLEAN
    /\ lost \in {NoByte} \cup (1 .. MaxSends + 1) \X (1 .. HDRSIZE + MaxLen)
ReaderTypes ==
    /\ pc \in {"header", "body", "ended"} /\ msglen \in 0 .. MaxLen
    /\ hdr \in Seq(Bytes) /\ buffer \in Seq(Bytes)
    /\ Len(buffer) < IF pc = "body" THEN msglen ELSE HDRSIZE

LEMMA TypeParts ==
    TypeOK <=> /\ WriterTypes /\ ReaderTypes /\ stream \in Seq(Bytes)
               /\ got \in Seq(Returned) /\ short \in Shorts
BY DEF TypeOK, WriterTypes, ReaderTypes, Returned, Shorts

LEMMA ReturnTyped ==
    ASSUME got \in Seq(Returned), NEW h \in Seq(Bytes), NEW b \in Seq(Bytes), Return(h, b)
    PROVE  got' \in Seq(Returned)
<1>1. [hdr |-> h, body |-> b] \in Returned
  BY DEF Returned
<1> QED BY <1>1, AppendProperties DEF Return

(* Actions that only read on. *)
LEMMA MoreTyped ==
    ASSUME TypeOK, NEW n, NEW k, ReadMore(n, k), n = IF pc = "body" THEN msglen ELSE HDRSIZE
    PROVE  ReaderTypes'
<1>1. Filled(k) \in Seq(Bytes) /\ Len(Filled(k)) = Len(buffer) + k
  BY ReadSplits DEF ReadMore
<1>2. buffer' = Filled(k) /\ Len(buffer) + k < n /\ UNCHANGED <<pc, hdr, msglen>>
  BY DEF ReadMore
<1>3. ReaderTypes
  BY TypeParts
<1>4. Len(buffer') < IF pc' = "body" THEN msglen' ELSE HDRSIZE
  BY <1>1, <1>2
<1> QED BY <1>1, <1>2, <1>3, <1>4 DEF ReaderTypes

LEMMA StepTypeOK ==
    ASSUME TypeOK, Writer, NoShortRead, [Next]_vars
    PROVE  TypeOK'
<1> USE DEF writer, reader
<1>p. /\ WriterTypes /\ ReaderTypes /\ stream \in Seq(Bytes)
      /\ got \in Seq(Returned) /\ short \in Shorts
  BY TypeParts
<1>l. HDRSIZE \in Nat /\ HDRSIZE > 0 /\ MaxLen \in Nat /\ Len(buffer) \in Nat
      /\ <<>> \in Seq(Bytes) /\ Len(<<>>) = 0
  BY SizeAssumption, Lengths0
<1>1. ASSUME NEW n \in 0 .. MaxLen, WriteHeader(n) PROVE TypeOK'
  <2>1. WriterTypes'
    BY <1>1, <1>p DEF WriteHeader, WriterTypes
  <2>2. stream' \in Seq(Bytes)
    <3>1. Len(sent') = Len(sent) + 1 /\ Len(sent) \in Nat /\ Len(sent) < MaxSends
      BY <1>1, HeaderAppended, Lengths0 DEF WriteHeader
    <3>2. \A k \in 1 .. HDRSIZE : <<Len(sent'), k>> \in Bytes
      BY <1>l, <3>1, SizeAssumption DEF Bytes
    <3>3. Header(Len(sent')) \in [1 .. HDRSIZE -> Bytes]
      BY <3>2 DEF Header
    <3>4. Header(Len(sent')) \in Seq(Bytes)
      BY <1>l, <3>3, FunctionIsSeq
    <3> QED BY <1>1, <1>p, <3>4, ConcatProperties DEF WriteHeader
  <2>3. ReaderTypes' /\ got' \in Seq(Returned) /\ short' \in Shorts
    BY <1>1, <1>p DEF WriteHeader, ReaderTypes
  <2> QED BY <2>1, <2>2, <2>3, TypeParts DEF TypeOK, WriterTypes, ReaderTypes, Returned, Shorts
<1>2. ASSUME WriteBody PROVE TypeOK'
  <2>1. WriterTypes'
    BY <1>2, <1>l, <1>p DEF WriteBody, WriterTypes
  <2>2. stream' \in Seq(Bytes)
    <3>1. Len(sent) \in 1 .. MaxSends /\ owed \in 1 .. MaxLen
      BY <1>2, BodyAppended
    <3>2. \A k \in 1 .. owed : <<Len(sent), HDRSIZE + k>> \in Bytes
      BY <1>l, <3>1, SizeAssumption DEF Bytes
    <3>3. Body(Len(sent), owed) \in [1 .. owed -> Bytes]
      BY <3>2 DEF Body
    <3>4. owed \in Nat
      BY <1>l, <3>1
    <3>5. Body(Len(sent), owed) \in Seq(Bytes)
      BY <3>3, <3>4, FunctionIsSeq
    <3> QED BY <1>2, <1>p, <3>5, ConcatProperties DEF WriteBody
  <2>3. ReaderTypes' /\ got' \in Seq(Returned) /\ short' \in Shorts
    BY <1>2, <1>p DEF WriteBody, ReaderTypes
  <2> QED BY <2>1, <2>2, <2>3, TypeParts DEF TypeOK, WriterTypes, ReaderTypes, Returned, Shorts
<1>3. ASSUME Close PROVE TypeOK'
  BY <1>3, <1>p DEF Close, TypeOK, WriterTypes, ReaderTypes, Returned, Shorts
<1>4. ASSUME ReadEnd \/ ReadFails PROVE TypeOK'
  <2>1. ReaderTypes'
    <3>1. pc' \in {"header", "ended"} /\ buffer' = <<>> /\ hdr' = <<>> /\ msglen' = 0
      BY <1>4 DEF ReadEnd, ReadFails, AtEnd
    <3>2. 0 \in 0 .. MaxLen
      BY <1>l
    <3>3. Len(buffer') < IF pc' = "body" THEN msglen' ELSE HDRSIZE
      BY <1>l, <3>1
    <3> QED BY <1>l, <3>1, <3>2, <3>3 DEF ReaderTypes
  <2>2. UNCHANGED <<sent, owed, closed, lost, stream, got, short>>
    BY <1>4 DEF ReadEnd, ReadFails
  <2> QED BY <1>p, <2>1, <2>2, TypeParts DEF TypeOK, WriterTypes, ReaderTypes, Returned, Shorts
<1>5. ASSUME NEW n, NEW k, pc \in {"header", "body"}, Read(n, k),
             ReaderTypes', got' \in Seq(Returned)
      PROVE  TypeOK'
  <2>1. WriterTypes' /\ stream' \in Seq(Bytes)
    <3>1. UNCHANGED writer
      BY <1>5 DEF Read
    <3> QED BY <1>5, <1>p, <3>1, ReadSplits DEF WriterTypes
  <2>2. short' \in Shorts
    BY <1>5, ReadNotesShort
  <2> QED BY <1>5, <2>1, <2>2 DEF TypeOK, WriterTypes, ReaderTypes, Returned, Shorts
<1>6. ASSUME NEW k \in 1 .. Len(stream), HeaderMore(k) PROVE TypeOK'
  <2>1. ReaderTypes'
    BY <1>6, MoreTyped DEF HeaderMore
  <2> QED BY <1>5, <1>6, <1>p, <2>1 DEF HeaderMore, ReadMore
<1>7. ASSUME NEW k \in 1 .. Len(stream), BodyMore(k) PROVE TypeOK'
  <2>1. ReaderTypes'
    BY <1>7, MoreTyped DEF BodyMore
  <2> QED BY <1>5, <1>7, <1>p, <2>1 DEF BodyMore, ReadMore
<1>8. ASSUME NEW k \in 1 .. Len(stream), EndHeader(k) PROVE TypeOK'
  <2>1. ReaderTypes'
    BY <1>8, <1>l, <1>p DEF EndHeader, ReaderTypes
  <2> QED BY <1>5, <1>8, <1>p, <2>1 DEF EndHeader
<1>9. ASSUME NEW k \in 1 .. Len(stream), NEW n \in 0 .. MaxLen, ReadHeader(k, n) PROVE TypeOK'
  <2> DEFINE h == SubSeq(Filled(k), 1, HDRSIZE)
  <2>0. pc = "header" /\ Read(HDRSIZE, k) /\ HDRSIZE <= Len(buffer) + k
    BY <1>9, <1>l DEF ReadHeader
  <2>1. h \in Seq(Bytes)
    <3>1. Filled(k) \in Seq(Bytes) /\ Len(Filled(k)) = Len(buffer) + k
      BY <2>0, ReadSplits
    <3>2. HDRSIZE \in Nat /\ HDRSIZE <= Len(Filled(k))
      BY ONLY <1>l, <2>0, <3>1
    <3> QED BY ONLY <3>1, <3>2, FrontTyped
  <2>2. /\ buffer' = <<>>
        /\ IF n = 0 THEN Return(h, <<>>) /\ UNCHANGED <<pc, hdr, msglen>>
                    ELSE pc' = "body" /\ hdr' = h /\ msglen' = n /\ UNCHANGED got
    BY <1>9 DEF ReadHeader
  <2> HIDE DEF h
  <2>3. got' \in Seq(Returned)
    BY <1>l, <1>p, <2>1, <2>2, ReturnTyped
  <2>4. ReaderTypes'
    BY <1>l, <1>p, <2>0, <2>1, <2>2 DEF ReaderTypes
  <2> QED BY <1>5, <2>0, <2>3, <2>4
<1>10. ASSUME NEW k \in 1 .. Len(stream), ReadBody(k) PROVE TypeOK'
  <2> DEFINE b == SubSeq(Filled(k), 1, msglen)
  <2>0. pc = "body" /\ Read(msglen, k) /\ msglen <= Len(buffer) + k /\ msglen \in Nat
    BY <1>10, <1>l, <1>p DEF ReadBody, ReaderTypes
  <2>1. b \in Seq(Bytes)
    BY <2>0, ReadSplits, FrontTyped
  <2>2. Return(hdr, b) /\ buffer' = <<>> /\ pc' = "header" /\ hdr' = <<>> /\ msglen' = 0
    BY <1>10 DEF ReadBody
  <2> HIDE DEF b
  <2>3. got' \in Seq(Returned)
    BY <1>p, <2>1, <2>2, ReturnTyped DEF ReaderTypes
  <2>4. ReaderTypes'
    BY <1>l, <2>2 DEF ReaderTypes
  <2> QED BY <1>5, <2>0, <2>3, <2>4
<1>12. ASSUME NEW j \in 0 .. Len(stream), Reset(j) PROVE TypeOK'
  <2>1. stream' \in Seq(Bytes)
    BY <1>12, ResetSplits
  <2>2. NextByte \in (1 .. MaxSends + 1) \X (1 .. HDRSIZE + MaxLen)
    <3>1. /\ Len(sent) \in Nat /\ Len(sent) <= MaxSends /\ MaxSends \in Nat
          /\ owed \in 0 .. MaxLen /\ (owed > 0 => Len(sent) # 0)
      <4>1. sent # <<>> => Len(sent) # 0
        BY <1>p, EmptySeq DEF WriterTypes
      <4> QED BY <1>p, <4>1, Lengths0, SizeAssumption DEF Writer, WriterTypes
    <3>2. CASE owed > 0
      <4>1. NextByte = <<Len(sent), HDRSIZE + 1>>
        BY <3>2 DEF NextByte
      <4>2. Len(sent) \in 1 .. MaxSends + 1 /\ HDRSIZE + 1 \in 1 .. HDRSIZE + MaxLen
        BY <1>l, <3>1, <3>2
      <4> QED BY <4>1, <4>2
    <3>3. CASE ~(owed > 0)
      <4>1. NextByte = <<Len(sent) + 1, 1>>
        BY <3>3 DEF NextByte
      <4>2. Len(sent) + 1 \in 1 .. MaxSends + 1 /\ 1 \in 1 .. HDRSIZE + MaxLen
        BY <1>l, <3>1
      <4> QED BY <4>1, <4>2
    <3> QED BY <3>2, <3>3
  <2>3. lost' \in (1 .. MaxSends + 1) \X (1 .. HDRSIZE + MaxLen)
    <3>1. CASE j < Len(stream)
      <4>1. j + 1 \in 1 .. Len(stream) /\ lost' = stream[j + 1]
        BY <1>12, <3>1, Lengths0 DEF Reset
      <4>2. stream[j + 1] \in Bytes
        BY <1>p, <4>1, ElementOfSeq
      <4>3. 1 .. MaxSends \subseteq 1 .. MaxSends + 1
        BY SizeAssumption
      <4> QED BY <4>1, <4>2, <4>3 DEF Bytes
    <3>2. CASE ~(j < Len(stream))
      BY <1>12, <2>2, <3>2 DEF Reset
    <3> QED BY <3>1, <3>2
  <2>4. UNCHANGED <<sent, owed, pc, hdr, msglen, buffer, got, short>> /\ closed' = TRUE
    BY <1>12 DEF Reset
  <2>5. WriterTypes' /\ ReaderTypes'
    BY <1>p, <2>3, <2>4 DEF WriterTypes, ReaderTypes
  <2> QED BY <1>p, <2>1, <2>4, <2>5 DEF TypeOK, WriterTypes, ReaderTypes, Returned, Shorts
<1>11. ASSUME UNCHANGED vars PROVE TypeOK'
  BY <1>11, <1>p DEF vars, TypeOK, WriterTypes, ReaderTypes, Returned, Shorts
<1> QED BY <1>1, <1>2, <1>3, <1>4, <1>6, <1>7, <1>8, <1>9, <1>10, <1>11, <1>12
        DEF Next, ReaderStep, WriterStep

-----------------------------------------------------------------------------
(* The writer's part: only bytes passed are in the stream. *)

LEMMA StepWriter ==
    ASSUME TypeOK, Writer, [Next]_vars
    PROVE  Writer'
<1> USE DEF writer, reader
<1>l. Len(sent) \in Nat /\ Len(stream) \in Nat /\ HDRSIZE \in Nat /\ MaxLen \in Nat /\ MaxSends \in Nat
  BY SizeAssumption, Lengths0
<1>1. ASSUME NEW n \in 0 .. MaxLen, WriteHeader(n) PROVE Writer'
  <2>h. /\ Len(sent') = Len(sent) + 1 /\ sent'[Len(sent) + 1] = n
        /\ \A m \in 1 .. Len(sent) : sent'[m] = sent[m]
        /\ Len(stream') = Len(stream) + HDRSIZE
        /\ \A j \in 1 .. Len(stream) : stream'[j] = stream[j]
        /\ \A j \in Len(stream) + 1 .. Len(stream) + HDRSIZE :
             stream'[j] = <<Len(sent) + 1, j - Len(stream)>>
    BY <1>1, HeaderAppended
  <2>1. Len(sent') <= MaxSends
    BY <1>1, <1>l, <2>h DEF WriteHeader
  <2>2. owed' = n /\ sent' # <<>> /\ sent'[Len(sent')] = n
    BY <1>1, <1>l, <2>h DEF WriteHeader
  <2>3. ASSUME NEW j \in 1 .. Len(stream)
        PROVE  /\ stream'[j] \in (1 .. Len(sent')) \X (1 .. HDRSIZE + MaxLen)
               /\ stream'[j][2] <= HDRSIZE + sent'[stream'[j][1]]
    <3>1. PICK b : b = stream[j]
      OBVIOUS
    <3>2. b \in (1 .. Len(sent)) \X (1 .. HDRSIZE + MaxLen) /\ b[2] <= HDRSIZE + sent[b[1]]
      BY <3>1 DEF Writer, Passed
    <3>3. b[1] \in 1 .. Len(sent) /\ b[1] \in 1 .. Len(sent') /\ b[2] \in 1 .. HDRSIZE + MaxLen
          /\ b = <<b[1], b[2]>>
      BY <1>l, <2>h, <3>2
    <3>4. b \in (1 .. Len(sent')) \X (1 .. HDRSIZE + MaxLen) /\ b[2] <= HDRSIZE + sent'[b[1]]
      BY <2>h, <3>2, <3>3
    <3> QED BY <2>h, <3>1, <3>4
  <2>4. ASSUME NEW j \in Len(stream) + 1 .. Len(stream) + HDRSIZE
        PROVE  /\ stream'[j] \in (1 .. Len(sent')) \X (1 .. HDRSIZE + MaxLen)
               /\ stream'[j][2] <= HDRSIZE + sent'[stream'[j][1]]
    <3>1. PICK b : b = <<Len(sent) + 1, j - Len(stream)>>
      OBVIOUS
    <3>2. Len(sent) + 1 \in 1 .. Len(sent') /\ j - Len(stream) \in 1 .. HDRSIZE + MaxLen
          /\ j - Len(stream) <= HDRSIZE + sent'[Len(sent) + 1]
      BY <1>l, <2>h
    <3>3. b \in (1 .. Len(sent')) \X (1 .. HDRSIZE + MaxLen) /\ b[2] <= HDRSIZE + sent'[b[1]]
      BY <3>1, <3>2
    <3> QED BY <2>h, <3>1, <3>3
  <2>5. \A j \in 1 .. Len(stream') :
          /\ stream'[j] \in (1 .. Len(sent')) \X (1 .. HDRSIZE + MaxLen)
          /\ stream'[j][2] <= HDRSIZE + sent'[stream'[j][1]]
    <3> TAKE j \in 1 .. Len(stream')
    <3>1. CASE j \in 1 .. Len(stream)
      BY <2>3, <3>1
    <3>2. CASE j \in Len(stream) + 1 .. Len(stream) + HDRSIZE
      BY <2>4, <3>2
    <3> QED BY <1>l, <2>h, <3>1, <3>2
  <2>6. (lost # NoByte => closed)'
    BY <1>1 DEF Writer, WriteHeader
  <2> QED BY <2>1, <2>2, <2>5, <2>6 DEF Writer, Passed
<1>2. ASSUME WriteBody PROVE Writer'
  <2>h. /\ Len(sent) \in 1 .. MaxSends /\ sent[Len(sent)] = owed /\ owed \in 1 .. MaxLen
        /\ Len(stream') = Len(stream) + owed
        /\ \A j \in 1 .. Len(stream) : stream'[j] = stream[j]
        /\ \A j \in Len(stream) + 1 .. Len(stream) + owed :
             stream'[j] = <<Len(sent), HDRSIZE + (j - Len(stream))>>
    BY <1>2, BodyAppended
  <2>1. sent' = sent /\ owed' = 0 /\ Len(sent) <= MaxSends
    BY <1>2 DEF WriteBody, Writer
  <2>2. ASSUME NEW j \in Len(stream) + 1 .. Len(stream) + owed
        PROVE  /\ stream'[j] \in (1 .. Len(sent)) \X (1 .. HDRSIZE + MaxLen)
               /\ stream'[j][2] <= HDRSIZE + sent[stream'[j][1]]
    <3>1. PICK b : b = <<Len(sent), HDRSIZE + (j - Len(stream))>>
      OBVIOUS
    <3>2. Len(sent) \in 1 .. Len(sent) /\ HDRSIZE + (j - Len(stream)) \in 1 .. HDRSIZE + MaxLen
          /\ HDRSIZE + (j - Len(stream)) <= HDRSIZE + sent[Len(sent)]
      <4>1. /\ Len(stream) \in Nat /\ HDRSIZE \in Nat /\ MaxLen \in Nat
            /\ Len(sent) \in 1 .. MaxSends /\ MaxSends \in Nat
        BY <1>l, <2>h, SizeAssumption
      <4>2. PICK l \in Nat : l = Len(stream)
        BY <4>1
      <4>3. PICK o \in 1 .. MaxLen : o = owed /\ o = sent[Len(sent)]
        BY <2>h
      <4>4. j \in l + 1 .. l + o
        BY <4>2, <4>3
      <4>5. HDRSIZE + (j - l) \in 1 .. HDRSIZE + MaxLen /\ HDRSIZE + (j - l) <= HDRSIZE + o
        BY ONLY <4>1, <4>3, <4>4, l \in Nat, o \in 1 .. MaxLen
      <4> QED BY ONLY <4>1, <4>2, <4>3, <4>5
    <3>3. b \in (1 .. Len(sent)) \X (1 .. HDRSIZE + MaxLen) /\ b[2] <= HDRSIZE + sent[b[1]]
      BY <3>1, <3>2
    <3> QED BY <2>h, <3>1, <3>3
  <2>3. \A j \in 1 .. Len(stream') :
          /\ stream'[j] \in (1 .. Len(sent)) \X (1 .. HDRSIZE + MaxLen)
          /\ stream'[j][2] <= HDRSIZE + sent[stream'[j][1]]
    <3> TAKE j \in 1 .. Len(stream')
    <3>1. CASE j \in 1 .. Len(stream)
      BY <2>h, <3>1 DEF Passed, Writer
    <3>2. CASE j \in Len(stream) + 1 .. Len(stream) + owed
      BY <2>2, <3>2
    <3> QED BY <1>l, <2>h, <3>1, <3>2
  <2>4. (lost # NoByte => closed)'
    BY <1>2 DEF Writer, WriteBody
  <2> QED BY <2>1, <2>3, <2>4 DEF Writer, Passed
<1>3. ASSUME UNCHANGED <<sent, owed, stream, lost>>, closed' \in {closed, TRUE} PROVE Writer'
  BY <1>3 DEF Writer, Passed
<1>5. ASSUME NEW j \in 0 .. Len(stream), Reset(j) PROVE Writer'
  <2>1. Len(stream') = j /\ \A i \in 1 .. j : stream'[i] = stream[i] /\ i \in 1 .. Len(stream)
    BY <1>5, <1>l, ResetSplits
  <2>2. UNCHANGED <<sent, owed>> /\ closed' = TRUE
    BY <1>5 DEF Reset
  <2> QED BY <2>1, <2>2 DEF Writer, Passed
<1>4. ASSUME NEW n, NEW k, Read(n, k) PROVE Writer'
  <2>1. /\ k \in 1 .. Len(stream) /\ Len(stream') = Len(stream) - k
        /\ \A j \in 1 .. Len(stream) - k : stream'[j] = stream[k + j]
    BY <1>4, ReadSplits
  <2>2. UNCHANGED <<sent, owed, lost, closed>>
    BY <1>4 DEF Read
  <2>3. ASSUME NEW j \in 1 .. Len(stream') PROVE Passed(stream'[j])
    <3>1. j \in 1 .. Len(stream) - k /\ k + j \in 1 .. Len(stream)
      BY <1>l, <2>1
    <3> QED BY <2>1, <3>1 DEF Writer
  <2> QED BY <2>2, <2>3 DEF Writer, Passed
<1> QED BY <1>1, <1>2, <1>3, <1>4, <1>5 DEF Next, ReaderStep, WriterStep, Close, ReadEnd, ReadFails,
            HeaderMore, BodyMore, ReadMore, EndHeader, ReadHeader, ReadBody, vars

-----------------------------------------------------------------------------
(* The reader's part. *)

Reads == NoShortRead /\ Pieces /\ ShortReadAt /\ DamageStartsAtShortRead

(* Writing, closing and a reset do not move the reader. *)
LEMMA WritesKeep ==
    ASSUME TypeOK, Reads, UNCHANGED <<reader, short>>,
           Over => Over', stream = <<>> /\ closed => stream' = <<>> /\ closed',
           \A c : InSync(c) => InSync(c)', Len(sent') \in Nat, Len(sent) <= Len(sent'),
           \A m \in 1 .. Len(sent) : sent'[m] = sent[m]
    PROVE  Reads'
<1>0. UNCHANGED <<pc, hdr, msglen, buffer, got>> /\ short' = short
  BY DEF reader
<1>l. Len(got) \in Nat /\ Len(sent) \in Nat
  BY Lengths0
<1>g. PICK g : g = Due
  OBVIOUS
<1>k. PICK b : b = Len(buffer)
  OBVIOUS
<1>2. AtHeader => AtHeader'
  <2>1. InSync(<<g, 1>>) => InSync(<<g, 1>>)'
    OBVIOUS
  <2>2. Due' = g
    BY <1>0, <1>g DEF Due
  <2> QED BY <1>0, <1>g, <2>1, <2>2 DEF AtHeader, InSync
<1>3. InBody => InBody'
  <2> SUFFICES ASSUME InBody PROVE InBody'
    OBVIOUS
  <2>1. InSync(<<g, HDRSIZE + b + 1>>)'
    BY <1>g, <1>k DEF InBody
  <2>2. Due' = g /\ Len(buffer') = b
    BY <1>0, <1>g, <1>k DEF Due
  <2>3. g \in 1 .. Len(sent) /\ g <= Len(sent')
    BY <1>l, <1>g DEF InBody, Due
  <2>4. msglen' = sent'[g] /\ hdr' = Header(g) /\ pc' = "body"
    BY <1>0, <1>g, <2>3 DEF InBody
  <2>5. \A j \in 1 .. Len(buffer') : buffer'[j] = <<g, HDRSIZE + j>>
    BY <1>0, <1>g DEF InBody
  <2> QED BY <2>1, <2>2, <2>3, <2>4, <2>5 DEF InBody, InSync, Header
<1>4. NoShortRead'
  BY <1>0, <1>2, <1>3, <1>l DEF Reads, NoShortRead
<1>5. Pieces' /\ ShortReadAt'
  BY <1>0, <1>3 DEF Reads, Pieces, ShortReadAt
<1>6. DamageStartsAtShortRead'
  <2> SUFFICES ASSUME NEW i \in DOMAIN got, Safe(i)
               PROVE  i <= Len(sent') /\ got[i] = Message(i)'
    BY <1>0 DEF DamageStartsAtShortRead, Safe
  <2>1. i <= Len(sent) /\ got[i] = Message(i)
    BY DEF Reads, DamageStartsAtShortRead
  <2>2. i \in 1 .. Len(sent)
    BY <1>l, <2>1, LenProperties DEF TypeOK
  <2>3. Message(i)' = Message(i)
    BY <2>2 DEF Message, Body, Header
  <2> QED BY <1>l, <2>1, <2>3
<1> QED BY <1>4, <1>5, <1>6 DEF Reads

(* A short read of a header: nothing is promised from its message on. *)
LEMMA HeaderDamaged ==
    ASSUME TypeOK, Reads, pc = "header", NEW k, Read(HDRSIZE, k), UNCHANGED got,
           k < HDRSIZE \/ short # Whole
    PROVE  Reads'
<1>l. Len(got) \in Nat /\ stream # <<>> /\ sent' = sent
  BY Lengths0 DEF Read, writer
<1>1. IF short = Whole THEN short' = [at |-> Len(got) + 1, part |-> "header"] ELSE short' = short
  BY DEF Read
<1>2. short' # Whole
  BY <1>l, <1>1 DEF Whole
<1>3. Len(got) + 1 >= short'.at
  BY <1>l, <1>1 DEF Reads, ShortReadAt
<1>4. short'.part = "body" => short' = short
  BY <1>1
<1>5. ~(short.part = "body" /\ Len(got) < short.at)
  BY <1>l DEF Reads, Pieces, InBody
<1>6. Pieces'
  BY <1>4, <1>5 DEF Pieces
<1>7. DamageStartsAtShortRead'
  <2> SUFFICES ASSUME NEW i \in DOMAIN got, Safe(i)'
               PROVE  i <= Len(sent) /\ got[i] = Message(i)
    BY <1>l DEF DamageStartsAtShortRead, Message, Body
  <2>1. Safe(i)
    BY <1>1, <1>2 DEF Safe
  <2> QED BY <2>1 DEF Reads, DamageStartsAtShortRead
<1> QED BY <1>2, <1>3, <1>6, <1>7 DEF Reads, NoShortRead, ShortReadAt

(* A message is returned, and what was returned stays. *)
LEMMA ReturnKeeps ==
    ASSUME TypeOK, Reads, NEW h, NEW b, Return(h, b), UNCHANGED <<sent, short>>,
           Safe(Due) => Due <= Len(sent) /\ [hdr |-> h, body |-> b] = Message(Due)
    PROVE  /\ DamageStartsAtShortRead' /\ ShortReadAt'
           /\ Len(got') = Len(got) + 1 /\ Due' = Due + 1
<1>1. got \in Seq(Returned) /\ Len(got) \in Nat
  BY Lengths0, TypeParts
<1>2. got' = Append(got, [hdr |-> h, body |-> b])
  BY DEF Return
<1>3. /\ Len(got') = Len(got) + 1 /\ DOMAIN got' = 1 .. Len(got) + 1
      /\ got'[Len(got) + 1] = [hdr |-> h, body |-> b]
      /\ \A i \in 1 .. Len(got) : got'[i] = got[i] /\ i \in DOMAIN got
  BY <1>1, <1>2
<1>4. ASSUME NEW i \in DOMAIN got', Safe(i) PROVE i <= Len(sent) /\ got'[i] = Message(i)
  <2>1. CASE i = Due
    BY <1>3, <1>4, <2>1 DEF Due
  <2>2. CASE i \in 1 .. Len(got)
    BY <1>3, <1>4, <2>2 DEF Reads, DamageStartsAtShortRead
  <2> QED BY <1>1, <1>3, <2>1, <2>2 DEF Due
<1>5. DamageStartsAtShortRead'
  BY <1>4 DEF DamageStartsAtShortRead, Safe, Message, Body
<1>6. ShortReadAt'
  <2>1. short.at \in Nat
    BY SizeAssumption DEF TypeOK
  <2> QED BY <1>1, <1>3, <2>1 DEF Reads, ShortReadAt
<1> QED BY <1>1, <1>3, <1>5, <1>6 DEF Due

(* A header read at once, at its place, is the header passed, and its      *)
(* length field what it says.                                              *)
LEMMA HeaderInPlace ==
    ASSUME TypeOK, Writer, AtHeader, NEW k, Read(HDRSIZE, k), k = HDRSIZE
    PROVE  /\ Due \in 1 .. Len(sent)
           /\ SubSeq(Filled(k), 1, HDRSIZE) = Header(Due)
           /\ Lengths(Header(Due)) = {sent[Due]}
<1>l. HDRSIZE \in Nat /\ HDRSIZE > 0 /\ Len(got) \in Nat /\ Len(sent) \in Nat /\ Due \in Nat
      /\ stream \in Seq(Bytes) /\ Len(stream) \in Nat
  BY Lengths0 DEF Due, TypeOK
<1>r. /\ k \in 1 .. Len(stream) /\ Filled(k) \in Seq(Bytes) /\ Len(Filled(k)) = HDRSIZE
      /\ \A j \in 1 .. HDRSIZE : Filled(k)[j] = stream[j]
  <2>1. Len(buffer) = 0
    BY DEF AtHeader
  <2>2. \A j \in 1 .. HDRSIZE : 0 + j = j
    BY <1>l
  <2> QED BY <1>l, <2>1, <2>2, ReadSplits
<1>1. stream[1] = <<Due, 1>>
  BY <1>l, <1>r DEF AtHeader, InSync, At
<1>2. Due \in 1 .. Len(sent)
  BY <1>l, <1>r, <1>1 DEF Writer, Passed
<1>3. HDRSIZE + sent[Due] \in Nat /\ HDRSIZE <= HDRSIZE + sent[Due]
  BY <1>l, <1>2, Lengths0
<1>4. \A j \in 1 .. HDRSIZE : stream[j] = <<Due, j>>
  <2> TAKE j \in 1 .. HDRSIZE
  <2>1. j - 1 \in 0 .. Len(stream) /\ 1 + (j - 1) = j /\ 1 + (j - 1) <= HDRSIZE + sent[Due]
        /\ j \in 1 .. Len(stream)
    BY <1>l, <1>r, <1>3
  <2>2. At(1 + (j - 1)) = <<Due, 1 + (j - 1)>>
    BY <1>l, <1>3, <2>1, Run DEF AtHeader
  <2> QED BY <2>1, <2>2 DEF At
<1>5. SubSeq(Filled(k), 1, HDRSIZE) = Header(Due)
  <2>1. /\ SubSeq(Filled(k), 1, HDRSIZE) \in Seq(Bytes) /\ Len(SubSeq(Filled(k), 1, HDRSIZE)) = HDRSIZE
        /\ \A j \in 1 .. HDRSIZE : SubSeq(Filled(k), 1, HDRSIZE)[j] = <<Due, j>>
    <3>1. HDRSIZE <= Len(Filled(k))
      BY <1>l, <1>r
    <3>2. /\ SubSeq(Filled(k), 1, HDRSIZE) \in Seq(Bytes) /\ Len(SubSeq(Filled(k), 1, HDRSIZE)) = HDRSIZE
          /\ \A j \in 1 .. HDRSIZE : SubSeq(Filled(k), 1, HDRSIZE)[j] = Filled(k)[j]
      BY <1>l, <1>r, <3>1, FrontTyped
    <3> QED BY <1>r, <1>4, <3>2
  <2>2. SubSeq(Filled(k), 1, HDRSIZE) = [j \in 1 .. HDRSIZE |-> SubSeq(Filled(k), 1, HDRSIZE)[j]]
    BY <2>1
  <2> QED BY <2>1, <2>2 DEF Header
<1>6. \A m \in DOMAIN sent : Header(Due) = Header(m) <=> m = Due
  <2> SUFFICES ASSUME NEW m \in DOMAIN sent, Header(Due) = Header(m) PROVE m = Due
    OBVIOUS
  <2>1. Header(Due)[1] = <<Due, 1>> /\ Header(m)[1] = <<m, 1>>
    <3>1. 1 \in 1 .. HDRSIZE
      BY <1>l
    <3> QED BY <3>1 DEF Header
  <2>2. <<Due, 1>> = <<m, 1>>
    BY <2>1
  <2> QED BY <2>2
<1>7. DOMAIN sent = 1 .. Len(sent)
  BY DEF TypeOK
<1>8. {m \in DOMAIN sent : Header(Due) = Header(m)} = {Due}
  BY <1>2, <1>6, <1>7
<1>9. Lengths(Header(Due)) = {sent[m] : m \in {Due}}
  BY <1>8 DEF Lengths
<1> QED BY <1>2, <1>5, <1>9

LEMMA StepReadHeader ==
    ASSUME TypeOK, Writer, Reads, NEW k, NEW n \in 0 .. MaxLen, ReadHeader(k, n)
    PROVE  Reads'
<1> DEFINE h == SubSeq(Filled(k), 1, HDRSIZE)
<1>1. /\ pc = "header" /\ Read(HDRSIZE, k) /\ ~(k < HDRSIZE) /\ n \in Lengths(h) /\ buffer' = <<>>
      /\ IF n = 0 THEN Return(h, <<>>) /\ UNCHANGED <<pc, hdr, msglen>>
                  ELSE pc' = "body" /\ hdr' = h /\ msglen' = n /\ UNCHANGED got
  BY DEF ReadHeader, HeaderFails
<1>l. /\ HDRSIZE \in Nat /\ HDRSIZE > 0 /\ Len(got) \in Nat /\ Len(sent) \in Nat /\ Due \in Nat
      /\ stream \in Seq(Bytes) /\ Len(stream) \in Nat
  BY Lengths0 DEF Due, TypeOK
<1>r. /\ k \in 1 .. Len(stream) /\ k <= HDRSIZE /\ k \in Nat
      /\ stream' = SubSeq(stream, k + 1, Len(stream))
  BY <1>1, ReadSplits
<1>k. k = HDRSIZE /\ stream # <<>>
  BY <1>1, <1>l, <1>r
<1>2. UNCHANGED <<sent, owed, lost, short>>
  BY <1>1, <1>k, <1>l DEF Read, writer
<1> HIDE DEF h
<1>3. CASE short = Whole
  <2>1. AtHeader
    BY <1>1, <1>3, <1>k DEF Reads, NoShortRead, InBody, Over
  <2>2. Due \in 1 .. Len(sent) /\ h = Header(Due) /\ n = sent[Due]
    BY <1>1, <1>k, <2>1, HeaderInPlace DEF h
  <2>3. Pieces'
    BY <1>2, <1>3 DEF Pieces, Whole
  <2>g. PICK g : g = Due
    OBVIOUS
  <2>s. /\ n > 0 => InSync(<<g, HDRSIZE + 1>>)'
        /\ n = 0 => InSync(<<g + 1, 1>>)'
    <3>1. g \in Nat /\ HDRSIZE + sent[g] \in Nat /\ InSync(<<g, 1>>) /\ n \in Nat
      BY <1>l, <2>1, <2>2, <2>g, Lengths0 DEF AtHeader
    <3>2. /\ n > 0 => 1 + HDRSIZE <= HDRSIZE + sent[g]
          /\ n = 0 => 1 + HDRSIZE = HDRSIZE + sent[g] + 1
          /\ 1 + HDRSIZE = HDRSIZE + 1
      BY <1>l, <2>2, <2>g, <3>1
    <3> QED BY <1>2, <1>k, <1>l, <1>r, <3>1, <3>2, ReadOn
  <2>4. CASE n = 0
    <3>1. Return(h, <<>>) /\ pc' = "header"
      BY <1>1, <2>4
    <3>2. [hdr |-> h, body |-> <<>>] = Message(Due)
      <4>1. Body(Due, 0) = <<>>
        BY DEF Body
      <4> QED BY <2>2, <2>4, <4>1 DEF Message
    <3>3. DamageStartsAtShortRead' /\ ShortReadAt' /\ Len(got') = Len(got) + 1 /\ Due' = g + 1
      BY <1>2, <2>2, <2>g, <3>1, <3>2, ReturnKeeps
    <3>4. AtHeader'
      BY <1>1, <2>4, <2>s, <3>1, <3>3 DEF AtHeader, InSync
    <3>5. Len(got') <= Len(sent')
      BY <1>2, <1>l, <2>2, <3>3 DEF Due
    <3> QED BY <1>1, <2>3, <3>3, <3>4, <3>5 DEF Reads, NoShortRead
  <2>5. CASE n # 0
    <3>1. pc' = "body" /\ hdr' = h /\ msglen' = n /\ got' = got /\ Due' = g
      BY <1>1, <2>5, <2>g DEF Due
    <3>2. n > 0 /\ Len(<<>>) = 0 /\ HDRSIZE + 0 + 1 = HDRSIZE + 1 /\ g <= Len(sent)
      BY <1>l, <2>2, <2>5, <2>g, Lengths0
    <3>3. InBody'
      <4>1. Len(buffer') = 0
        BY <1>1, <3>2
      <4>2. InSync(<<g, HDRSIZE + 0 + 1>>)'
        BY <2>s, <3>2
      <4>3. hdr' = Header(g) /\ msglen' = sent'[g] /\ Due' <= Len(sent')
        BY <1>2, <2>2, <2>g, <3>1, <3>2
      <4> QED BY <3>1, <4>1, <4>2, <4>3 DEF InBody, InSync, Header
    <3>4. Len(got') <= Len(sent')
      BY <1>2, <1>l, <2>2, <3>1 DEF Due
    <3>5. DamageStartsAtShortRead' /\ ShortReadAt'
      BY <1>2, <3>1 DEF Reads, DamageStartsAtShortRead, ShortReadAt, Safe, Message, Body
    <3> QED BY <1>1, <2>3, <3>3, <3>4, <3>5 DEF Reads, NoShortRead
  <2> QED BY <2>4, <2>5
<1>4. CASE short # Whole
  <2>1. ~(short.part = "body" /\ Len(got) < short.at)
    BY <1>1, <1>k DEF Reads, Pieces, InBody
  <2>2. NoShortRead'
    BY <1>2, <1>4 DEF NoShortRead
  <2>3. ~Safe(Due)
    <3>1. short.at \in Nat
      BY SizeAssumption DEF TypeOK
    <3> QED BY <1>4, <1>l, <2>1, <3>1 DEF Safe, Due, Reads, ShortReadAt
  <2>4. CASE n = 0
    <3>1. DamageStartsAtShortRead' /\ ShortReadAt' /\ Len(got') = Len(got) + 1
      BY <1>1, <1>2, <2>3, <2>4, ReturnKeeps
    <3>2. Pieces'
      <4>1. short.at \in Nat
        BY SizeAssumption DEF TypeOK
      <4> QED BY <1>2, <1>l, <2>1, <3>1, <4>1 DEF Pieces
    <3> QED BY <2>2, <3>1, <3>2 DEF Reads
  <2>5. CASE n # 0
    <3>1. got' = got
      BY <1>1, <2>5
    <3> QED BY <1>2, <2>1, <2>2, <3>1
            DEF Reads, Pieces, DamageStartsAtShortRead, ShortReadAt, Safe, Message, Body
  <2> QED BY <2>4, <2>5
<1> QED BY <1>3, <1>4

(* Pieces of a body read in place are consecutive bytes of it. *)
LEMMA BodyFilled ==
    ASSUME TypeOK, InBody, NEW n, NEW k, Read(n, k)
    PROVE  /\ Due \in 1 .. Len(sent) /\ msglen \in Nat /\ HDRSIZE + sent[Due] = HDRSIZE + msglen
           /\ HDRSIZE + Len(buffer) + 1 \in Nat
           /\ \A i \in 1 .. Len(buffer) + k : i <= msglen => Filled(k)[i] = <<Due, HDRSIZE + i>>
<1>l. /\ HDRSIZE \in Nat /\ Len(got) \in Nat /\ Len(sent) \in Nat /\ Len(buffer) \in Nat /\ Due \in Nat
      /\ stream \in Seq(Bytes) /\ Len(stream) \in Nat
  BY Lengths0 DEF Due, TypeOK
<1>r. /\ k \in 1 .. Len(stream) /\ k \in Nat
      /\ \A j \in 1 .. Len(buffer) : Filled(k)[j] = buffer[j]
      /\ \A j \in 1 .. k : Filled(k)[Len(buffer) + j] = stream[j]
  BY ReadSplits
<1>1. Due \in 1 .. Len(sent) /\ msglen = sent[Due] /\ msglen \in Nat
  BY <1>l DEF InBody, Due, TypeOK
<1>2. HDRSIZE + sent[Due] \in Nat /\ HDRSIZE + Len(buffer) + 1 \in Nat
  BY <1>l, <1>1
<1>3. ASSUME NEW i \in 1 .. Len(buffer) + k, i <= msglen PROVE Filled(k)[i] = <<Due, HDRSIZE + i>>
  <2>1. CASE i \in 1 .. Len(buffer)
    BY <1>r, <2>1 DEF InBody
  <2>2. CASE i \notin 1 .. Len(buffer)
    <3>1. PICK j \in 1 .. k : i = Len(buffer) + j
      <4>1. i - Len(buffer) \in 1 .. k /\ i = Len(buffer) + (i - Len(buffer))
        BY <1>l, <1>r, <2>2
      <4> QED BY <4>1
    <3>2. /\ j - 1 \in 0 .. Len(stream) /\ j \in 1 .. Len(stream) /\ 1 + (j - 1) = j
          /\ (HDRSIZE + Len(buffer) + 1) + (j - 1) = HDRSIZE + i
          /\ HDRSIZE + i <= HDRSIZE + sent[Due]
      <4>1. /\ i \in Nat /\ j \in Nat /\ j \in 1 .. Len(stream)
            /\ i <= msglen /\ msglen = sent[Due]
        BY <1>l, <1>r, <1>1, <1>3, <3>1
      <4>2. \A h, c, d, l \in Nat : h + c + 1 + (d - 1) = h + (c + d) /\ (d <= l => h + d <= h + l)
        OBVIOUS
      <4>3. \A c, d \in Nat : d \in 1 .. c => d - 1 \in 0 .. c /\ 1 + (d - 1) = d
        OBVIOUS
      <4> HIDE DEF Due
      <4> QED BY <1>l, <1>1, <3>1, <4>1, <4>2, <4>3
    <3>3. At(1 + (j - 1)) = <<Due, (HDRSIZE + Len(buffer) + 1) + (j - 1)>>
      <4>1. InSync(<<Due, HDRSIZE + Len(buffer) + 1>>)
        BY DEF InBody
      <4>2. (HDRSIZE + Len(buffer) + 1) + (j - 1) <= HDRSIZE + sent[Due]
        BY <3>2
      <4> HIDE DEF Due
      <4> QED BY <1>l, <1>2, <3>2, <4>1, <4>2, Run
    <3>4. stream[j] = <<Due, HDRSIZE + i>>
      BY <3>2, <3>3 DEF At
    <3> QED BY <1>r, <3>1, <3>4
  <2> QED BY <2>1, <2>2
<1> QED BY <1>1, <1>2, <1>3

(* Where the place is known. *)
Live == short = Whole \/ (short.part = "body" /\ Len(got) < short.at)

LEMMA LiveInBody ==
    ASSUME Reads, Live, pc = "body"
    PROVE  InBody
BY DEF Reads, NoShortRead, Pieces, Live, AtHeader, Over

LEMMA StepBodyMore ==
    ASSUME TypeOK, Reads, NEW k, BodyMore(k)
    PROVE  Reads'
<1>1. /\ pc = "body" /\ Read(msglen, k) /\ Len(buffer) + k < msglen /\ buffer' = Filled(k)
      /\ UNCHANGED <<pc, hdr, msglen, got>>
  BY DEF BodyMore, ReadMore
<1>l. /\ HDRSIZE \in Nat /\ Len(got) \in Nat /\ Len(sent) \in Nat /\ Len(buffer) \in Nat /\ Due \in Nat
      /\ stream \in Seq(Bytes) /\ Len(stream) \in Nat /\ msglen \in Nat
  BY Lengths0 DEF Due, TypeOK
<1>r. /\ k \in 1 .. Len(stream) /\ k \in Nat /\ Len(Filled(k)) = Len(buffer) + k
      /\ stream' = SubSeq(stream, k + 1, Len(stream))
  BY <1>1, ReadSplits
<1>2. UNCHANGED <<sent, owed, closed, lost>> /\ k < msglen
  BY <1>1, <1>l, <1>r DEF Read, writer
<1>3. IF short = Whole THEN short' = [at |-> Len(got) + 1, part |-> "body"] ELSE short' = short
  BY <1>1, <1>2 DEF Read
<1>4. ASSUME InBody PROVE InBody'
  <2>f. /\ Due \in 1 .. Len(sent) /\ HDRSIZE + sent[Due] = HDRSIZE + msglen
        /\ HDRSIZE + Len(buffer) + 1 \in Nat
        /\ \A i \in 1 .. Len(buffer) + k : i <= msglen => Filled(k)[i] = <<Due, HDRSIZE + i>>
    BY <1>1, <1>4, BodyFilled
  <2>g. PICK g \in Nat : g = Due
    BY <1>l
  <2>b. PICK b \in Nat : b = Len(buffer)
    BY <1>l
  <2>1. InSync(<<g, (HDRSIZE + b + 1) + k>>)'
    <3>1. InSync(<<g, HDRSIZE + b + 1>>) /\ HDRSIZE + b + 1 \in Nat /\ HDRSIZE + sent[g] \in Nat
      BY <1>4, <1>l, <2>b, <2>f, <2>g DEF InBody
    <3>2. (HDRSIZE + b + 1) + k <= HDRSIZE + sent[g]
      <4>1. b + k < msglen /\ HDRSIZE + sent[g] = HDRSIZE + msglen
        BY <1>1, <2>b, <2>f, <2>g
      <4>2. \A h, c, n, l \in Nat : c + n < l => (h + c + 1) + n <= h + l
        OBVIOUS
      <4> QED BY <4>1, <4>2, <1>l, <1>r
    <3> QED BY <1>2, <1>l, <1>r, <3>1, <3>2, ReadOn
  <2>2. Len(buffer') = b + k /\ (HDRSIZE + b + 1) + k = HDRSIZE + (b + k) + 1
    BY <1>1, <1>l, <1>r, <2>b
  <2>3. \A i \in 1 .. Len(buffer') : buffer'[i] = <<g, HDRSIZE + i>>
    <3> TAKE i \in 1 .. Len(buffer')
    <3>1. i \in 1 .. Len(buffer) + k /\ i <= msglen
      BY <1>1, <1>l, <1>r, <2>2, <2>b
    <3> QED BY <1>1, <2>f, <2>g, <3>1
  <2>4. Due' = g /\ pc' = "body" /\ Due' <= Len(sent') /\ hdr' = Header(g) /\ msglen' = sent'[g]
    BY <1>1, <1>2, <1>4, <2>g DEF InBody, Due
  <2>5. InSync(<<g, HDRSIZE + (b + k) + 1>>)'
    BY <2>1, <2>2
  <2> QED BY <2>2, <2>3, <2>4, <2>5 DEF InBody, InSync, Header
<1>5. NoShortRead'
  BY <1>3, <1>l DEF NoShortRead, Whole
<1>6. Pieces'
  <2> SUFFICES ASSUME short'.part = "body", Len(got') < short'.at PROVE InBody'
    BY DEF Pieces
  <2>1. Live
    BY <1>1, <1>3 DEF Live
  <2> QED BY <1>1, <1>4, <2>1, LiveInBody
<1>7. ShortReadAt'
  BY <1>1, <1>3, <1>l DEF ShortReadAt, Reads
<1>8. DamageStartsAtShortRead'
  <2> SUFFICES ASSUME NEW i \in DOMAIN got, Safe(i)'
               PROVE  i <= Len(sent) /\ got[i] = Message(i)
    BY <1>1, <1>2 DEF DamageStartsAtShortRead, Message, Body
  <2>1. Safe(i)
    BY <1>3, <1>5 DEF Safe
  <2> QED BY <2>1 DEF Reads, DamageStartsAtShortRead
<1> QED BY <1>5, <1>6, <1>7, <1>8 DEF Reads

LEMMA StepReadBody ==
    ASSUME TypeOK, Reads, NEW k, ReadBody(k)
    PROVE  Reads'
<1> DEFINE d == SubSeq(Filled(k), 1, msglen)
<1>1. /\ pc = "body" /\ Read(msglen, k) /\ Len(buffer) + k >= msglen /\ Return(hdr, d)
      /\ buffer' = <<>> /\ pc' = "header"
  BY DEF ReadBody
<1>l. /\ HDRSIZE \in Nat /\ Len(got) \in Nat /\ Len(sent) \in Nat /\ Len(buffer) \in Nat /\ Due \in Nat
      /\ stream \in Seq(Bytes) /\ Len(stream) \in Nat /\ msglen \in Nat /\ short.at \in Nat
  BY Lengths0, SizeAssumption DEF Due, TypeOK
<1>r. /\ k \in 1 .. Len(stream) /\ k \in Nat /\ k <= msglen
      /\ Filled(k) \in Seq(Bytes) /\ Len(Filled(k)) = Len(buffer) + k
      /\ stream' = SubSeq(stream, k + 1, Len(stream))
  BY <1>1, ReadSplits
<1>w. short = Whole => k = msglen /\ Len(buffer) = 0
  <2>1. short = Whole => Len(buffer) = 0
    BY DEF Reads, NoShortRead
  <2> QED BY <1>1, <1>l, <1>r, <2>1
<1>2. UNCHANGED <<sent, owed, closed, lost, short>>
  <2>1. ~(short = Whole /\ k < msglen)
    BY <1>l, <1>w
  <2> QED BY <1>1, <2>1 DEF Read, writer
<1>d. d \in Seq(Bytes) /\ Len(d) = msglen /\ \A i \in 1 .. msglen : d[i] = Filled(k)[i]
  <2>1. msglen <= Len(Filled(k))
    BY <1>1, <1>l, <1>r
  <2> QED BY <1>l, <1>r, <2>1, FrontTyped
<1> HIDE DEF d
<1>3. ASSUME Live PROVE Due \in 1 .. Len(sent) /\ [hdr |-> hdr, body |-> d] = Message(Due)
  <2>1. InBody
    BY <1>1, <1>3, LiveInBody
  <2>2. /\ Due \in 1 .. Len(sent)
        /\ \A i \in 1 .. Len(buffer) + k : i <= msglen => Filled(k)[i] = <<Due, HDRSIZE + i>>
    BY <1>1, <2>1, BodyFilled
  <2>3. \A i \in 1 .. msglen : d[i] = <<Due, HDRSIZE + i>>
    <3> TAKE i \in 1 .. msglen
    <3>1. i \in 1 .. Len(buffer) + k /\ i <= msglen
      BY <1>1, <1>l, <1>r
    <3> QED BY <1>d, <2>2, <3>1
  <2>4. d = [i \in 1 .. msglen |-> d[i]]
    BY <1>d
  <2>5. d = Body(Due, msglen)
    BY <2>3, <2>4 DEF Body
  <2>6. hdr = Header(Due) /\ msglen = sent[Due]
    BY <2>1 DEF InBody
  <2> QED BY <2>2, <2>5, <2>6 DEF Message
<1>4. Safe(Due) => Live
  BY <1>l DEF Safe, Live, Due, Reads, ShortReadAt
<1>g. PICK g \in Nat : g = Due
  BY <1>l
<1>5. DamageStartsAtShortRead' /\ ShortReadAt' /\ Len(got') = Len(got) + 1 /\ Due' = g + 1
  BY <1>1, <1>2, <1>3, <1>4, <1>g, <1>l, ReturnKeeps
<1>6. Pieces'
  <2>1. short.part = "body" => ~(Len(got') < short.at)
    BY <1>5, <1>l DEF Reads, Pieces, ShortReadAt, Due, InBody
  <2> QED BY <1>2, <2>1 DEF Pieces
<1>7. NoShortRead'
  <2> SUFFICES ASSUME short = Whole PROVE Len(got') <= Len(sent') /\ AtHeader'
    BY <1>1, <1>2 DEF NoShortRead
  <2>1. InBody /\ Due \in 1 .. Len(sent)
    BY <1>1, <1>3, LiveInBody DEF Live
  <2>2. InSync(<<g + 1, 1>>)'
    <3>1. /\ HDRSIZE + sent[g] = HDRSIZE + msglen /\ InSync(<<g, HDRSIZE + Len(buffer) + 1>>)
          /\ HDRSIZE + Len(buffer) + 1 \in Nat
      BY <1>1, <1>g, <2>1, BodyFilled DEF InBody
    <3>2. HDRSIZE + Len(buffer) + 1 = HDRSIZE + 1 /\ HDRSIZE + 1 \in Nat /\ HDRSIZE + sent[g] \in Nat
          /\ (HDRSIZE + 1) + k = HDRSIZE + sent[g] + 1
      BY <1>l, <1>w, <3>1
    <3>3. InSync(<<g, HDRSIZE + 1>>)
      BY <3>1, <3>2
    <3> QED BY <1>2, <1>l, <1>r, <3>2, <3>3, ReadOn
  <2>3. AtHeader'
    BY <1>1, <1>5, <2>2 DEF AtHeader, InSync
  <2> QED BY <1>2, <1>5, <1>l, <2>1, <2>3 DEF Due
<1> QED BY <1>5, <1>6, <1>7 DEF Reads

(* The end of the connection, in order or after a reset, between two       *)
(* messages or within one.                                                 *)
LEMMA StepReadEnd ==
    ASSUME TypeOK, Writer, Reads, ReadEnd \/ ReadFails
    PROVE  Reads'
<1>1. /\ pc \in {"header", "body"} /\ closed /\ stream = <<>> /\ pc' \in {"header", "ended"}
      /\ (pc = "header" => pc' = "ended") /\ buffer' = <<>>
      /\ UNCHANGED <<sent, owed, closed, lost, stream, got, short>>
  BY DEF ReadEnd, ReadFails, AtEnd, writer, TypeOK, Writer
<1>l. Len(got) \in Nat /\ Len(got) = Due - 1 /\ UNCHANGED FirstMissing
  BY <1>1, Lengths0 DEF Due, FirstMissing, NextByte
<1>2. At(1) = FirstMissing
  BY <1>1 DEF At
<1>3. ASSUME short = Whole PROVE Over'
  <2>1. CASE AtHeader \/ InBody
    <3>1. FirstMissing[1] = Due
      BY <1>2, <2>1 DEF AtHeader, InBody, InSync
    <3> QED BY <1>1, <1>l, <3>1 DEF Over
  <2>2. CASE Over
    BY <1>1, <1>l, <2>2 DEF Over
  <2> QED BY <1>3, <2>1, <2>2 DEF Reads, NoShortRead
<1>4. NoShortRead'
  BY <1>1, <1>3 DEF Reads, NoShortRead
<1>5. Pieces' /\ ShortReadAt'
  BY <1>1 DEF Reads, Pieces, ShortReadAt
<1>6. DamageStartsAtShortRead'
  BY <1>1 DEF Reads, DamageStartsAtShortRead, Safe, Message, Body
<1> QED BY <1>4, <1>5, <1>6 DEF Reads

LEMMA StepReads ==
    ASSUME TypeOK, Writer, Reads, [Next]_vars
    PROVE  Reads'
<1>l. Len(sent) \in Nat
  BY Lengths0
<1>1. ASSUME NEW n \in 0 .. MaxLen, WriteHeader(n) PROVE Reads'
  <2>1. \A c : InSync(c) => InSync(c)'
    BY <1>1, HeaderKeepsSync
  <2>2. /\ Len(sent') = Len(sent) + 1
        /\ \A m \in 1 .. Len(sent) : sent'[m] = sent[m]
    BY <1>1, HeaderAppended
  <2>3. ~closed /\ ~Over /\ UNCHANGED <<reader, short>>
    BY <1>1 DEF WriteHeader, Over
  <2>4. Len(sent') \in Nat /\ Len(sent) <= Len(sent')
    BY <1>l, <2>2
  <2> QED BY <2>1, <2>2, <2>3, <2>4, WritesKeep
<1>2. ASSUME WriteBody PROVE Reads'
  <2>1. \A c : InSync(c) => InSync(c)'
    BY <1>2, BodyKeepsSync
  <2>2. ~closed /\ ~Over /\ UNCHANGED <<reader, short, sent>>
    BY <1>2 DEF WriteBody, Over
  <2> QED BY <1>l, <2>1, <2>2, WritesKeep
<1>3. ASSUME Close PROVE Reads'
  <2>1. ~closed /\ ~Over /\ UNCHANGED <<reader, short, sent, owed, lost, stream>>
    BY <1>3 DEF Close, Over
  <2>2. \A c : InSync(c) => InSync(c)'
    BY <2>1 DEF InSync, At, FirstMissing, NextByte, After
  <2> QED BY <1>l, <2>1, <2>2, WritesKeep
<1>r. ASSUME NEW j \in 0 .. Len(stream), Reset(j) PROVE Reads'
  <2>1. \A c : InSync(c) => InSync(c)'
    BY <1>r, ResetKeepsSync
  <2>2. UNCHANGED <<reader, short, sent, owed>> /\ closed' /\ lost = NoByte
    BY <1>r DEF Reset
  <2>3. stream = <<>> => stream' = <<>>
    <3>1. stream = <<>> => j = 0 /\ stream' \in Seq(Bytes) /\ Len(stream') = j
      BY <1>r, ResetSplits
    <3> QED BY <3>1, EmptySeq
  <2>4. stream = <<>> => FirstMissing' = FirstMissing
    <3> SUFFICES ASSUME stream = <<>> PROVE FirstMissing' = FirstMissing
      OBVIOUS
    <3>1. lost' = NextByte /\ NextByte' = NextByte
      BY <1>r DEF Reset, NextByte
    <3> QED BY <2>2, <3>1 DEF FirstMissing
  <2>5. Over => Over'
    BY <2>2, <2>3, <2>4 DEF Over, reader
  <2> QED BY <1>l, <2>1, <2>2, <2>3, <2>5, WritesKeep
<1>4. ASSUME NEW k, HeaderMore(k) PROVE Reads'
  <2>1. pc = "header" /\ Read(HDRSIZE, k) /\ UNCHANGED got /\ Len(buffer) + k < HDRSIZE
    BY <1>4 DEF HeaderMore, ReadMore
  <2>2. k < HDRSIZE
    <3>1. k \in Nat
      BY <2>1, ReadSplits
    <3> QED BY <2>1, <3>1, Lengths0
  <2> QED BY <2>1, <2>2, HeaderDamaged
<1>5. ASSUME NEW k, EndHeader(k) PROVE Reads'
  <2>1. pc = "header" /\ Read(HDRSIZE, k) /\ UNCHANGED got /\ (k < HDRSIZE \/ Len(buffer) > 0)
    BY <1>5 DEF EndHeader, HeaderFails
  <2>2. Len(buffer) > 0 => short # Whole
    <3>1. buffer = <<>> => ~(Len(buffer) > 0)
      OBVIOUS
    <3> QED BY <3>1 DEF Reads, NoShortRead
  <2> QED BY <2>1, <2>2, HeaderDamaged
<1>6. ASSUME UNCHANGED vars PROVE Reads'
  BY <1>6 DEF vars, writer, reader, Reads, NoShortRead, Pieces, ShortReadAt, DamageStartsAtShortRead,
              AtHeader, InBody, Over, InSync, At, FirstMissing, NextByte, After, Due, Safe, Message, Body, Header
<1> QED BY <1>1, <1>2, <1>3, <1>r, <1>4, <1>5, <1>6, StepReadHeader, StepBodyMore, StepReadBody, StepReadEnd
        DEF Next, ReaderStep, WriterStep

LEMMA InitNetInv == Init => TypeOK /\ Writer /\ Reads
<1> SUFFICES ASSUME Init PROVE TypeOK /\ Writer /\ Reads
  OBVIOUS
<1> USE SizeAssumption DEF Init
<1>1. TypeOK
  <2>1. Whole \in Shorts
    BY DEF Whole, Shorts
  <2>2. WriterTypes /\ ReaderTypes
    <3>1. 0 \in 0 .. MaxLen /\ 0 < HDRSIZE /\ Len(<<>>) = 0
      BY ONLY SizeAssumption
    <3>2. <<>> \in Seq(Bytes) /\ <<>> \in Seq(0 .. MaxLen)
      OBVIOUS
    <3>3. Len(buffer) < IF pc = "body" THEN msglen ELSE HDRSIZE
      BY <3>1
    <3> QED BY <3>1, <3>2, <3>3 DEF WriterTypes, ReaderTypes
  <2> QED BY <2>1, <2>2, TypeParts
<1>2. Writer
  BY DEF Writer
<1>3. AtHeader
  BY DEF AtHeader, InSync, At, FirstMissing, NextByte, Due
<1>4. Reads
  BY <1>3 DEF Reads, NoShortRead, Pieces, ShortReadAt, DamageStartsAtShortRead, Whole
<1> QED BY <1>1, <1>2, <1>4

-----------------------------------------------------------------------------
(* The invariant holds however the bytes are cut up on their way. *)
THEOREM Invariance == Spec => []NetInv
<1> DEFINE Inv == TypeOK /\ Writer /\ Reads
<1>1. Init => Inv
  BY InitNetInv
<1>2. Inv /\ [Next]_vars => Inv'
  <2> SUFFICES ASSUME Inv, [Next]_vars PROVE Inv'
    OBVIOUS
  <2>1. TypeOK'
    BY StepTypeOK DEF Reads
  <2>2. Writer'
    BY StepWriter
  <2>3. Reads'
    BY StepReads
  <2> QED BY <2>1, <2>2, <2>3
<1>3. Inv => NetInv
  BY DEF NetInv, Reads
<1> QED BY <1>1, <1>2, <1>3, PTL DEF Spec

(* The loops of read_message never hold a complete header or body, and     *)
(* never a byte that was not passed.                                       *)
THEOREM TypeCorrect == Spec => []TypeOK
<1>1. NetInv => TypeOK
  BY DEF NetInv
<1> QED BY <1>1, Invariance, PTL

(* Messages up to the first short read are returned as they were passed, a *)
(* body that arrives in pieces included.                                   *)
THEOREM DamageIsLate == Spec => []DamageStartsAtShortRead
<1>1. NetInv => DamageStartsAtShortRead
  BY DEF NetInv
<1> QED BY <1>1, Invariance, PTL

(* Without a short read the reader does not end before it has returned     *)
(* every message that got through, whether the connection ends in order or *)
(* is reset.                                                               *)
THEOREM EndIsComplete == Spec => []EndLosesNothing
<1>1. NetInv => EndLosesNothing
  BY DEF NetInv, NoShortRead, AtHeader, InBody, Over, EndLosesNothing
<1> QED BY <1>1, Invariance, PTL

=============================================================================
