---------------------------- MODULE ClientProofs ----------------------------
(***************************************************************************)
(* What the Client's operators return, and that its steps keep its types,  *)
(* for every value of its constants.  The proofs about the modules that    *)
(* compose a Client rest on these.                                         *)
(***************************************************************************)
EXTENDS Client, SequenceTheorems, TLAPS

\* What is left after n bytes of a sequence are consumed (client.consume).
LEMMA DropLemma ==
    ASSUME NEW S, NEW s \in Seq(S), NEW n \in 0..Len(s)
    PROVE  /\ Drop(s, n) \in Seq(S)
           /\ Len(Drop(s, n)) = Len(s) - n
           /\ \A i \in 1..Len(s) - n : Drop(s, n)[i] = s[i + n]
<1>1. Len(s) \in Nat
  BY LenProperties
<1>2. \A i \in n + 1..Len(s) : s[i] \in S
  BY <1>1, ElementOfSeq
<1>3. /\ SubSeq(s, n + 1, Len(s)) \in Seq(S)
      /\ Len(SubSeq(s, n + 1, Len(s))) = IF n + 1 <= Len(s) THEN Len(s) - (n + 1) + 1 ELSE 0
      /\ \A i \in 1..Len(s) - (n + 1) + 1 : SubSeq(s, n + 1, Len(s))[i] = s[(n + 1) + i - 1]
  BY <1>1, <1>2, SubSeqProperties
<1> QED
  BY <1>1, <1>3 DEF Drop

\* The first n bytes of what is on the line, as one Read returns them.
LEMMA PrefixLemma ==
    ASSUME NEW S, NEW s \in Seq(S), NEW n \in 0..Len(s)
    PROVE  /\ SubSeq(s, 1, n) \in Seq(S)
           /\ Len(SubSeq(s, 1, n)) = n
           /\ \A i \in 1..n : SubSeq(s, 1, n)[i] = s[i]
<1>1. Len(s) \in Nat
  BY LenProperties
<1>2. \A i \in 1..n : s[i] \in S
  BY <1>1, ElementOfSeq
<1> QED
  BY <1>1, <1>2, SubSeqProperties

\* An answer's bytes on the wire.
LEMMA BytesLemma ==
    ASSUME NEW m \in Msg
    PROVE  /\ Bytes(m) \in Seq(Wire)
           /\ Bytes(m) \in Seq(Byte)
           /\ Len(Bytes(m)) = Size[m]
           /\ \A i \in 1..Size[m] : Bytes(m)[i] = <<m, i>>
<1>1. Size[m] \in Nat
  BY ClientAssumption
<1>2. Bytes(m) \in [1..Size[m] -> Wire]
  BY DEF Bytes, Wire
<1>3. Bytes(m) \in Seq(Wire)
  BY <1>1, <1>2, SeqDef
<1>4. Wire \subseteq Byte
  BY DEF Byte
<1>5. Bytes(m) \in Seq(Byte)
  BY <1>3, <1>4, SeqMonotonic
<1>6. Len(Bytes(m)) = Size[m]
  BY <1>1, <1>2, <1>3, LenProperties DEF Bytes
<1> QED
  BY <1>3, <1>5, <1>6 DEF Bytes

\* parseLongFrame returns a long frame, or one of its four errors.
LEMMA ParseOutcomes ==
    ASSUME NEW b
    PROVE  \/ \E m \in LongMsg : parseLongFrame(b) = Parsed(m)
           \/ \E e \in Malformed \cup NeedMore : parseLongFrame(b) = Failed(e)
<1>1. ASSUME NEW m \in LongMsg
      PROVE  \/ ParseBody(b, m) = Parsed(m)
             \/ \E e \in Malformed \cup NeedMore : ParseBody(b, m) = Failed(e)
  BY DEF ParseBody, Malformed, NeedMore
<1>2. CASE Len(b) < HeadLen
  BY <1>2 DEF parseLongFrame, NeedMore
<1>3. CASE ~(Len(b) < HeadLen) /\ \E m \in LongMsg : StartsFrame(b, m)
  <2>1. (CHOOSE m \in LongMsg : StartsFrame(b, m)) \in LongMsg
    BY <1>3
  <2> QED
    BY <1>1, <1>3, <2>1 DEF parseLongFrame
<1>4. CASE ~(Len(b) < HeadLen) /\ ~\E m \in LongMsg : StartsFrame(b, m)
  BY <1>4 DEF parseLongFrame, Malformed
<1> QED
  BY <1>2, <1>3, <1>4

\* takeBufferedFrame returns a frame, or one of parseLongFrame's errors.
LEMMA TakeOutcomes ==
    ASSUME NEW b
    PROVE  \/ \E m \in Msg : takeBufferedFrame(b) = Parsed(m)
           \/ \E e \in Malformed \cup NeedMore : takeBufferedFrame(b) = Failed(e)
  BY ParseOutcomes, ClientAssumption DEF takeBufferedFrame, LongMsg, NeedMore

-----------------------------------------------------------------------------
(* The types                                                               *)

\* A call that returns with a sentinel of the package or a frame has a result
\* in Results.
LEMMA ReturnType ==
    ASSUME ClientTypeOK, op # "none",
           NEW e, NEW m \in Msg \cup {NoMsg}, Return(e, m),
           e \subseteq Malformed \cup CtxErrors \cup ConnErrors \cup {"ErrReadTimeout"}
    PROVE  /\ op' \in Ops \cup {"none"}
           /\ at' \in {"look", "fill"}
           /\ late' \in BOOLEAN
           /\ ret' \in Results
  BY DEF Return, ClientTypeOK, Results

\* fill's end leaves every variable in its type.
LEMMA GiveUpType ==
    ASSUME ClientTypeOK, op # "none",
           NEW e \in CtxErrors \cup ConnErrors \cup {"ErrReadTimeout"}, GiveUp(e)
    PROVE  ClientTypeOK'
<1> DEFINE err == IF op = "ReadSingleCharFrame" THEN {e} ELSE wrapFillErr(e)
<1>1. err \subseteq Malformed \cup CtxErrors \cup ConnErrors \cup {"ErrReadTimeout"}
  BY DEF wrapFillErr, Malformed
<1>2. Return(err, NoMsg) /\ UNCHANGED <<line, buf, conn, ctx>>
  BY DEF GiveUp
<1> HIDE DEF err
<1> QED
  BY <1>1, <1>2, ReturnType DEF ClientTypeOK

\* Dropping any number of bytes leaves a sequence of bytes.
LEMMA DropType ==
    ASSUME NEW S, NEW s \in Seq(S), NEW n \in Nat
    PROVE  Drop(s, n) \in Seq(S)
<1>1. Len(s) \in Nat
  BY LenProperties
<1>2. \A i \in n + 1..Len(s) : s[i] \in S
  BY <1>1, ElementOfSeq
<1> QED
  BY <1>1, <1>2, SubSeqProperties DEF Drop

\* A turn of a read loop keeps the types: in particular errNeedMore, which
\* parseLongFrame returns, is returned by no call.
LEMMA LookType ==
    ASSUME ClientTypeOK, Look
    PROVE  ClientTypeOK'
<1> USE DEF ClientTypeOK
<1>1. <<>> \in Seq(Byte)
  BY EmptySeq
<1>2. ASSUME NEW m \in Msg
      PROVE  Drop(buf, Size[m]) \in Seq(Byte) /\ Parsed(m).msg = m /\ Parsed(m).err = {}
  BY DropType, ClientAssumption DEF Parsed
<1>3. ASSUME NEW e
      PROVE  Failed(e).msg = NoMsg /\ Failed(e).err = {e} /\ Failed(e).err # {}
  BY DEF Failed
<1>4. CASE LookForLongFrame
  <2> DEFINE p == parseLongFrame(buf)
  <2>0. op # "none"
    BY <1>4 DEF LookForLongFrame
  <2>1. \/ \E m \in LongMsg : p = Parsed(m)
        \/ \E e \in Malformed \cup NeedMore : p = Failed(e)
    BY ParseOutcomes
  <2>2. CASE p.err = {} /\ buf' = Drop(buf, Size[p.msg]) /\ Return(p.err, p.msg)
    <3>1. PICK m \in Msg : p = Parsed(m)
      BY <2>1, <2>2, <1>3 DEF LongMsg
    <3>2. Return({}, m) /\ buf' \in Seq(Byte)
      BY <1>2, <2>2, <3>1
    <3> QED
      BY <1>4, <2>0, <3>2, ReturnType DEF LookForLongFrame
  <2>3. CASE GoFill /\ UNCHANGED buf
    BY <1>4, <2>3 DEF LookForLongFrame, GoFill
  <2>4. CASE p.err \notin {{}, NeedMore} /\ Return(p.err, NoMsg) /\ UNCHANGED buf
    <3>1. PICK e \in Malformed \cup NeedMore : p = Failed(e)
      BY <1>2, <2>1, <2>4 DEF LongMsg
    <3>2. p.err \subseteq Malformed
      BY <1>3, <2>4, <3>1 DEF NeedMore
    <3> QED
      BY <1>4, <2>0, <2>4, <3>2, ReturnType DEF LookForLongFrame
  <2> QED
    BY <1>4, <2>2, <2>3, <2>4 DEF LookForLongFrame
<1>5. CASE LookForSingleChar
  <2>0. op # "none"
    BY <1>5 DEF LookForSingleChar
  <2>1. CASE \E i \in 1..Len(buf) : buf' = Drop(buf, i) /\ Return({}, Ack)
    <3>1. buf' \in Seq(Byte)
      BY <2>1, DropType, LenProperties
    <3> QED
      BY <1>5, <2>0, <2>1, <3>1, ReturnType, ClientAssumption DEF LookForSingleChar
  <2>2. CASE buf' = <<>> /\ GoFill
    BY <1>1, <1>5, <2>2 DEF LookForSingleChar, GoFill
  <2> QED
    BY <1>5, <2>1, <2>2 DEF LookForSingleChar
<1>6. CASE LookForFirstByte
  BY <1>6 DEF LookForFirstByte, GoFill, Ops
<1>7. CASE LookForAnswer
  <2> DEFINE p == takeBufferedFrame(buf)
  <2>0. op # "none"
    BY <1>7 DEF LookForAnswer
  <2>1. \/ \E m \in Msg : p = Parsed(m)
        \/ \E e \in Malformed \cup NeedMore : p = Failed(e)
    BY TakeOutcomes
  <2>2. CASE p.err = {} /\ buf' = Drop(buf, Size[p.msg]) /\ Return(p.err, p.msg)
    <3>1. PICK m \in Msg : p = Parsed(m)
      BY <2>1, <2>2, <1>3
    <3>2. Return({}, m) /\ buf' \in Seq(Byte)
      BY <1>2, <2>2, <3>1
    <3> QED
      BY <1>7, <2>0, <3>2, ReturnType DEF LookForAnswer
  <2>3. CASE GoFill /\ UNCHANGED buf
    BY <1>7, <2>3 DEF LookForAnswer, GoFill
  <2>4. CASE p.err \notin {{}, NeedMore} /\ buf' = <<>> /\ Return(p.err, NoMsg)
    <3>1. PICK e \in Malformed \cup NeedMore : p = Failed(e)
      BY <1>2, <2>1, <2>4
    <3>2. p.err \subseteq Malformed
      BY <1>3, <2>4, <3>1 DEF NeedMore
    <3> QED
      BY <1>1, <1>7, <2>0, <2>4, <3>2, ReturnType DEF LookForAnswer
  <2> QED
    BY <1>7, <2>2, <2>3, <2>4 DEF LookForAnswer
<1> QED
  BY <1>4, <1>5, <1>6, <1>7 DEF Look

\* fill keeps the types.  It runs only inside a call (Busy).
LEMMA FillType ==
    ASSUME ClientTypeOK, op # "none", Fill
    PROVE  ClientTypeOK'
<1>1. CASE FillCtxEnded
  BY <1>1, GiveUpType DEF FillCtxEnded, CtxErr
<1>2. CASE FillTimedOut
  BY <1>2, GiveUpType DEF FillTimedOut
<1>3. ASSUME NEW n \in 1..Len(line), FillBytes(n)
      PROVE  ClientTypeOK'
  <2>1. line \in Seq(Byte) /\ Len(line) \in Nat
    BY LenProperties DEF ClientTypeOK
  <2>2. line' \in Seq(Byte)
    BY <1>3, <2>1, DropType DEF FillBytes
  <2>3. SubSeq(line, 1, n) \in Seq(Byte)
    BY <2>1, PrefixLemma
  <2>4. buf' \in Seq(Byte)
    BY <1>3, <2>3, ConcatProperties DEF FillBytes, ClientTypeOK
  <2> QED
    BY <1>3, <2>2, <2>4 DEF FillBytes, ClientTypeOK
<1>4. CASE FillConnFailed
  BY <1>4, GiveUpType DEF FillConnFailed, ClientTypeOK
<1> QED
  BY <1>1, <1>2, <1>3, <1>4 DEF Fill

-----------------------------------------------------------------------------
(* What a turn of a loop does                                              *)

\* fill gives up with an error, or a Read has returned bytes.
LEMMA FillOutcomes ==
    ASSUME ClientTypeOK, Fill
    PROVE  /\ at = "fill" /\ at' = "look" /\ UNCHANGED <<conn, ctx>>
           /\ \/ /\ op' = "none" /\ ~late' /\ ret'.err # {}
                 /\ UNCHANGED <<line, buf>>
                 /\ CtxErr \/ (~CtxErr /\ Past) \/ (conn # "up" /\ line = <<>>)
              \/ /\ \E c \in 1..Len(line) : FillBytes(c)
                 /\ op' = op /\ ~late' /\ ~late /\ ret' = ret /\ line # <<>>
<1>1. ASSUME NEW e, GiveUp(e)
      PROVE  /\ at' = "look" /\ op' = "none" /\ ~late' /\ ret'.err # {}
             /\ UNCHANGED <<line, buf, conn, ctx>>
  BY <1>1 DEF GiveUp, Return, wrapFillErr
<1>2. CASE FillCtxEnded
  BY <1>1, <1>2 DEF FillCtxEnded
<1>3. CASE FillTimedOut
  BY <1>1, <1>3 DEF FillTimedOut
<1>4. CASE FillConnFailed
  BY <1>1, <1>4 DEF FillConnFailed
<1>5. ASSUME NEW c \in 1..Len(line), FillBytes(c)
      PROVE  /\ at = "fill" /\ at' = "look" /\ UNCHANGED <<conn, ctx>>
             /\ op' = op /\ ~late' /\ ~late /\ ret' = ret /\ line # <<>>
  <2>1. line # <<>>
    <3>1. line \in Seq(Byte) /\ Len(line) \in Nat
      BY LenProperties DEF ClientTypeOK
    <3> QED
      BY <3>1, EmptySeq
  <2> QED
    BY <1>5, <2>1 DEF FillBytes, Past
<1> QED
  BY <1>2, <1>3, <1>4, <1>5 DEF Fill

\* A turn of ReadLongFrame's loop returns a frame, waits for more, or returns the
\* error that the head of the buffer is.
LEMMA LongOutcomes ==
    ASSUME op = "ReadLongFrame", Look
    PROVE  /\ at = "look" /\ UNCHANGED <<line, conn, ctx>>
           /\ \/ \E m \in LongMsg :
                    /\ parseLongFrame(buf) = Parsed(m) /\ buf' = Drop(buf, Size[m])
                    /\ op' = "none" /\ at' = "look" /\ ~late'
                    /\ ret'.err = {} /\ ret'.msg = m
              \/ /\ parseLongFrame(buf).err = NeedMore /\ buf' = buf
                 /\ at' = "fill" /\ UNCHANGED <<op, late, ret>>
              \/ /\ parseLongFrame(buf).err \cap Malformed # {} /\ buf' = buf
                 /\ op' = "none" /\ at' = "look" /\ ~late' /\ ret'.err # {}
<1> DEFINE p == parseLongFrame(buf)
<1>1. /\ LookForLongFrame
      /\ at = "look" /\ UNCHANGED <<line, conn, ctx>>
  BY DEF Look, LookForLongFrame, LookForSingleChar, LookForFirstByte, LookForAnswer
<1>2. /\ \A k : Parsed(k).msg = k /\ Parsed(k).err = {}
      /\ \A e : Failed(e).err = {e}
  BY DEF Parsed, Failed
<1>3. \/ \E m \in LongMsg : p = Parsed(m)
      \/ \E e \in Malformed \cup NeedMore : p = Failed(e)
  BY ParseOutcomes
<1>4. CASE p.err = {} /\ buf' = Drop(buf, Size[p.msg]) /\ Return(p.err, p.msg)
  <2>1. PICK m \in LongMsg : p = Parsed(m)
    BY <1>2, <1>3, <1>4
  <2>2. ret'.err = {} /\ ret'.msg = m /\ op' = "none" /\ at' = "look" /\ ~late'
    BY <1>2, <1>4, <2>1 DEF Return
  <2> QED
    BY <1>1, <1>2, <1>4, <2>1, <2>2
<1>5. CASE p.err = NeedMore /\ GoFill /\ UNCHANGED buf
  BY <1>1, <1>5 DEF GoFill
<1>6. CASE p.err \notin {{}, NeedMore} /\ Return(p.err, NoMsg) /\ UNCHANGED buf
  <2>1. PICK e \in Malformed \cup NeedMore : p = Failed(e)
    BY <1>2, <1>3, <1>6
  <2>2. e \in Malformed /\ p.err = {e}
    BY <1>2, <1>6, <2>1 DEF NeedMore
  <2>3. p.err \cap Malformed # {} /\ ret'.err # {} /\ op' = "none" /\ at' = "look" /\ ~late'
    BY <1>6, <2>2 DEF Return
  <2> QED
    BY <1>1, <1>6, <2>3
<1> QED
  BY <1>1, <1>4, <1>5, <1>6 DEF LookForLongFrame

\* A turn of ReadSingleCharFrame's loop returns the first E5h, or drops what there is.
LEMMA SingleOutcomes ==
    ASSUME op = "ReadSingleCharFrame", Look
    PROVE  /\ at = "look" /\ UNCHANGED <<line, conn, ctx>>
           /\ \/ /\ \E i \in 1..Len(buf) : FirstE5(buf, i) /\ buf' = Drop(buf, i)
                 /\ op' = "none" /\ at' = "look" /\ ~late' /\ ret'.err = {}
              \/ /\ \A i \in 1..Len(buf) : ~IsE5(buf[i])
                 /\ buf' = <<>> /\ at' = "fill" /\ UNCHANGED <<op, late, ret>>
<1>1. LookForSingleChar
  BY DEF Look, LookForLongFrame, LookForSingleChar, LookForFirstByte, LookForAnswer
<1> QED
  BY <1>1 DEF LookForSingleChar, Return, GoFill

-----------------------------------------------------------------------------
(* What the parser says of a reply and of what was buffered before it      *)

\* The bytes are neither a frame nor refused.
Starved(b) == takeBufferedFrame(b).err = NeedMore

\* After n bytes that earlier replies left, there are bytes of m, each at its
\* place or changed.
Reply(n, m) ==
    /\ Starved(SubSeq(buf, 1, n))
    /\ Len(buf) - n + Len(line) <= Size[m]
    /\ \A i \in n + 1..Len(buf) : buf[i] \in {<<m, i - n>>, Junk}
    /\ \A j \in 1..Len(line) : line[j] \in {<<m, Len(buf) - n + j>>, Junk}

\* A frame the parser finds at the head of b is there with all its bytes.
LEMMA ParsedIsThere ==
    ASSUME NEW b \in Seq(Byte), NEW k \in Msg, parseLongFrame(b) = Parsed(k)
    PROVE  /\ k \in LongMsg
           /\ Size[k] >= MinSize /\ Size[k] \in HeadLen..Len(b)
           /\ \A i \in 1..Size[k] : b[i] = <<k, i>>
<1>1. Len(b) \in Nat /\ HeadLen \in Nat \ {0} /\ MinSize \in Nat
  BY LenProperties, ClientAssumption
<1>2. \A e : Failed(e) # Parsed(k)
  <2> TAKE e
  <2>1. Failed(e).err # {} /\ Parsed(k).err = {}
    BY DEF Failed, Parsed
  <2> QED
    BY <2>1
<1>3. ~(Len(b) < HeadLen) /\ \E m \in LongMsg : StartsFrame(b, m)
  BY <1>2 DEF parseLongFrame
<1> DEFINE c == CHOOSE m \in LongMsg : StartsFrame(b, m)
<1>4. c \in LongMsg /\ ParseBody(b, c) = Parsed(k)
  BY <1>3 DEF parseLongFrame
<1> HIDE DEF c
<1>5. /\ ~(Size[c] < MinSize) /\ ~(Len(b) < Size[c])
      /\ \A i \in 1..Size[c] : b[i] = <<c, i>>
      /\ Parsed(c) = Parsed(k)
  BY <1>2, <1>4 DEF ParseBody
<1>6. c = k
  <2>1. Parsed(c).msg = c /\ Parsed(k).msg = k
    BY DEF Parsed
  <2> QED
    BY <1>5, <2>1
<1>7. Size[k] \in Nat /\ Size[k] > HeadLen
  BY <1>4, <1>6, ClientAssumption
<1> QED
  BY <1>1, <1>4, <1>5, <1>6, <1>7

\* Conversely, all the bytes of a legal frame at the head of b are that frame.
LEMMA ThereIsParsed ==
    ASSUME NEW b \in Seq(Byte), NEW k \in LongMsg,
           Size[k] >= MinSize, Size[k] <= Len(b),
           \A i \in 1..Size[k] : b[i] = <<k, i>>
    PROVE  parseLongFrame(b) = Parsed(k)
<1>1. /\ Len(b) \in Nat /\ HeadLen \in Nat \ {0} /\ MinSize \in Nat
      /\ Size[k] \in Nat /\ Size[k] > HeadLen
  BY LenProperties, ClientAssumption DEF LongMsg
<1>2. StartsFrame(b, k)
  BY <1>1 DEF StartsFrame
<1>3. ASSUME NEW m \in LongMsg, StartsFrame(b, m)
      PROVE  m = k
  <2>1. b[1] = <<m, 1>> /\ b[1] = <<k, 1>>
    BY <1>1, <1>2, <1>3 DEF StartsFrame
  <2> QED
    BY <2>1
<1>4. (CHOOSE m \in LongMsg : StartsFrame(b, m)) = k
  BY <1>2, <1>3
<1>5. ParseBody(b, k) = Parsed(k)
  BY <1>1 DEF ParseBody
<1>6. ~(Len(b) < HeadLen)
  BY <1>1
<1> QED
  BY <1>2, <1>4, <1>5, <1>6 DEF parseLongFrame

\* Bytes that call for more are no E5h and no whole frame.
LEMMA StarvedLemma ==
    ASSUME NEW b \in Seq(Byte), Starved(b), b # <<>>
    PROVE  ~IsE5(b[1]) /\ \A k : parseLongFrame(b) # Parsed(k)
<1>1. \A k : Parsed(k).err = {} /\ NeedMore # {}
  BY DEF Parsed, NeedMore
<1> QED
  BY <1>1 DEF Starved, takeBufferedFrame

\* An empty buffer calls for more.
LEMMA EmptyIsStarved == Starved(<<>>)
<1>1. takeBufferedFrame(<<>>) = Failed("errNeedMore")
  BY DEF takeBufferedFrame
<1> QED
  BY <1>1 DEF Starved, Failed, NeedMore

\* A frame found in what earlier answers left and a reply to this probe, damaged
\* or not, is that reply, and all of it.
LEMMA TakenIsTheReply ==
    ASSUME ClientTypeOK,
           NEW n \in 0..Len(buf), NEW m \in Msg, Reply(n, m),
           NEW k \in Msg, takeBufferedFrame(buf) = Parsed(k)
    PROVE  k = m /\ line = <<>> /\ Len(buf) = Size[k]
<1>1. /\ buf \in Seq(Byte) /\ Len(buf) \in Nat
      /\ line \in Seq(Byte) /\ Len(line) \in Nat
  BY LenProperties DEF ClientTypeOK
<1>2. /\ Size[m] \in Nat /\ Size[k] \in Nat /\ HeadLen \in Nat \ {0}
      /\ Size[Ack] = 1 /\ Ack \in Msg
      /\ \A j \in LongMsg : Size[j] > HeadLen
  BY ClientAssumption
<1>3. ASSUME NEW j \in Msg, NEW i \in 1..Size[j] PROVE <<j, i>> # Junk
  BY ClientAssumption DEF Wire
<1>4. buf # <<>>
  <2>1. Failed("errNeedMore").err # {} /\ Parsed(k).err = {}
    BY DEF Failed, Parsed
  <2> QED
    BY <2>1 DEF takeBufferedFrame
<1>5. Len(buf) >= 1
  BY <1>1, <1>4, EmptySeq
<1> DEFINE p == SubSeq(buf, 1, n)
<1>6. /\ p \in Seq(Byte) /\ Len(p) = n /\ Starved(p)
      /\ \A i \in 1..n : p[i] = buf[i]
  BY <1>1, PrefixLemma DEF Reply
<1> HIDE DEF p
<1>7. n \in Nat /\ n <= Len(buf)
  BY <1>1
<1>8. n > 0 => ~IsE5(buf[1]) /\ \A j : parseLongFrame(p) # Parsed(j)
  <2> SUFFICES ASSUME n > 0 PROVE ~IsE5(buf[1]) /\ \A j : parseLongFrame(p) # Parsed(j)
    OBVIOUS
  <2>1. p # <<>>
    BY <1>6, <1>7, EmptySeq
  <2>2. p[1] = buf[1]
    BY <1>6, <1>7
  <2> QED
    BY <1>6, <2>1, <2>2, StarvedLemma
<1>9. CASE IsE5(buf[1])
  <2>1. n = 0
    BY <1>7, <1>8, <1>9
  <2>2. buf[1] \in {<<m, 1>>, Junk}
    BY <1>1, <1>5, <2>1 DEF Reply
  <2>3. buf[1] = <<m, 1>> /\ m = Ack
    <3>1. CASE buf[1] = <<Ack, 1>>
      <4>1. <<Ack, 1>> # Junk
        BY <1>2, <1>3
      <4> QED
        BY <2>2, <3>1, <4>1
    <3>2. CASE buf[1] \in E5Bytes
      <4>0. PICK j \in LongMsg : \E i \in HeadLen + 1..Size[j] : buf[1] = <<j, i>>
        BY <3>2, ClientAssumption
      <4>1. PICK i \in HeadLen + 1..Size[j] : buf[1] = <<j, i>>
        BY <4>0
      <4>2. j \in Msg /\ Size[j] \in Nat
        BY ClientAssumption DEF LongMsg
      <4>3. i \in 1..Size[j] /\ i # 1
        BY <1>2, <4>1, <4>2
      <4>4. buf[1] # Junk
        BY <1>3, <4>1, <4>2, <4>3
      <4> QED
        BY <2>2, <4>1, <4>3, <4>4
    <3> QED
      BY <1>9, <3>1, <3>2 DEF IsE5
  <2>4. Len(buf) + Len(line) <= 1
    BY <1>1, <1>2, <2>1, <2>3 DEF Reply
  <2>5. Len(line) = 0 /\ Len(buf) = 1
    BY <1>1, <1>5, <2>4
  <2>6. k = Ack
    <3>1. Parsed(k) = Parsed(Ack)
      BY <1>4, <1>9 DEF takeBufferedFrame
    <3>2. Parsed(k).msg = k /\ Parsed(Ack).msg = Ack
      BY DEF Parsed
    <3> QED
      BY <3>1, <3>2
  <2> QED
    BY <1>1, <1>2, <2>3, <2>5, <2>6, EmptySeq
<1>10. CASE ~IsE5(buf[1])
  <2>1. parseLongFrame(buf) = Parsed(k)
    BY <1>4, <1>10 DEF takeBufferedFrame
  <2>2. /\ k \in LongMsg /\ Size[k] >= MinSize
        /\ Size[k] \in HeadLen..Len(buf)
        /\ \A i \in 1..Size[k] : buf[i] = <<k, i>>
    BY <1>1, <2>1, ParsedIsThere
  <2>3. n < Size[k]
    <3> SUFFICES ASSUME ~(n < Size[k]) PROVE FALSE
      OBVIOUS
    <3>1. n > 0 /\ Size[k] <= n
      BY <1>2, <1>7, <2>2
    <3>2. \A i \in 1..Size[k] : p[i] = <<k, i>>
      BY <1>2, <1>6, <1>7, <2>2, <3>1
    <3>3. parseLongFrame(p) = Parsed(k)
      BY <1>6, <2>2, <3>1, <3>2, ThereIsParsed
    <3> QED
      BY <1>8, <3>1, <3>3
  <2>4. n + 1 \in n + 1..Len(buf) /\ n + 1 \in 1..Size[k] /\ (n + 1) - n = 1
    BY <1>1, <1>2, <1>7, <2>2, <2>3
  <2>5. buf[n + 1] = <<k, n + 1>> /\ buf[n + 1] \in {<<m, 1>>, Junk}
    BY <2>2, <2>4 DEF Reply
  <2>6. <<k, n + 1>> # Junk
    BY <1>3, <2>4
  <2>7. k = m /\ n + 1 = 1
    BY <2>5, <2>6
  <2>8. n = 0
    BY <1>7, <2>7
  <2>9. Len(buf) + Len(line) <= Size[k]
    BY <1>1, <2>7, <2>8 DEF Reply
  <2>10. Len(line) = 0 /\ Len(buf) = Size[k]
    BY <1>1, <1>2, <2>2, <2>9
  <2> QED
    BY <1>1, <2>7, <2>10, EmptySeq
<1> QED
  BY <1>9, <1>10

\* What arrives instead of bytes are bytes.
LEMMA DamagedType ==
    ASSUME NEW t \in Seq(Byte), NEW s \in Damaged(t)
    PROVE  /\ s \in Seq(Byte) /\ Len(s) \in 0..Len(t)
           /\ \A i \in 1..Len(s) : s[i] \in {t[i], Junk}
<1>1. Len(t) \in Nat /\ Junk \in Byte
  BY LenProperties DEF Byte
<1>2. CASE \E n \in 0..(Len(t) - 1) : s = SubSeq(t, 1, n)
  BY <1>1, <1>2, PrefixLemma
<1>3. CASE \E j \in 1..Len(t) : s = [t EXCEPT ![j] = Junk]
  BY <1>1, <1>3, ExceptSeq
<1> QED
  BY <1>2, <1>3 DEF Damaged

\* Bytes of m, each at its place or changed.
Part(s, m) ==
    /\ Len(s) <= Size[m]
    /\ \A i \in 1..Len(s) : s[i] \in {<<m, i>>, Junk}

\* What arrives instead of bytes of m are bytes of m, too.
LEMMA PartLemma ==
    ASSUME NEW m \in Msg, NEW t \in Seq(Byte), Part(t, m), NEW s \in Damaged(t) \cup {t}
    PROVE  s \in Seq(Byte) /\ Part(s, m)
<1>1. Len(t) \in Nat /\ Size[m] \in Nat
  BY LenProperties, ClientAssumption
<1>2. CASE s = t
  BY <1>2
<1>3. CASE s \in Damaged(t)
  <2>1. /\ s \in Seq(Byte) /\ Len(s) \in 0..Len(t)
        /\ \A i \in 1..Len(s) : s[i] \in {t[i], Junk}
    BY <1>3, DamagedType
  <2>2. ASSUME NEW i \in 1..Len(s) PROVE s[i] \in {<<m, i>>, Junk}
    <3>1. i \in 1..Len(t)
      BY <1>1, <2>1
    <3> QED
      BY <2>1, <3>1 DEF Part
  <2> QED
    BY <1>1, <2>1, <2>2 DEF Part
<1> QED
  BY <1>2, <1>3

\* What arrives instead of a reply are bytes of it.
LEMMA DamagedLemma ==
    ASSUME NEW m \in Msg, NEW s \in Damaged(Bytes(m)) \cup {Bytes(m)}
    PROVE  s \in Seq(Byte) /\ Part(s, m)
<1>1. /\ Bytes(m) \in Seq(Byte) /\ Len(Bytes(m)) = Size[m] /\ Size[m] \in Nat
      /\ \A i \in 1..Size[m] : Bytes(m)[i] = <<m, i>>
  BY BytesLemma, ClientAssumption
<1>2. Part(Bytes(m), m)
  <2> DEFINE t == Bytes(m)
  <2>1. Len(t) <= Size[m] /\ \A i \in 1..Len(t) : t[i] = <<m, i>>
    BY <1>1
  <2> HIDE DEF t
  <2>2. Part(t, m)
    BY <2>1 DEF Part
  <2> QED
    BY <2>2 DEF t
<1> QED
  BY <1>1, <1>2, PartLemma

-----------------------------------------------------------------------------
(* How a reply comes in                                                    *)

\* The whole of a sequence is a prefix of it.
LEMMA WholePrefix ==
    ASSUME NEW S, NEW s \in Seq(S)
    PROVE  SubSeq(s, 1, Len(s)) = s
<1>1. Len(s) \in Nat /\ Len(s) \in 0..Len(s)
  BY LenProperties
<1>2. /\ SubSeq(s, 1, Len(s)) \in Seq(S)
      /\ Len(SubSeq(s, 1, Len(s))) = Len(s)
      /\ \A i \in 1..Len(s) : SubSeq(s, 1, Len(s))[i] = s[i]
  BY <1>1, PrefixLemma
<1> QED
  BY <1>2, SeqEqual

\* All the bytes of a sequence are consumed.
LEMMA DropAll ==
    ASSUME NEW S, NEW s \in Seq(S)
    PROVE  Drop(s, Len(s)) = <<>>
<1>1. Len(s) \in 0..Len(s) /\ Len(s) \in Nat
  BY LenProperties
<1>2. Drop(s, Len(s)) \in Seq(S) /\ Len(Drop(s, Len(s))) = 0
  BY <1>1, DropLemma
<1> QED
  BY <1>2, EmptySeq

\* One Read, byte for byte.
LEMMA ReadLemma ==
    ASSUME ClientTypeOK, NEW c \in 1..Len(line), FillBytes(c)
    PROVE  /\ Len(buf') = Len(buf) + c /\ buf' \in Seq(Byte)
           /\ \A i \in 1..Len(buf) : buf'[i] = buf[i]
           /\ \A i \in Len(buf) + 1..Len(buf) + c :
                 i - Len(buf) \in 1..Len(line) /\ buf'[i] = line[i - Len(buf)]
           /\ Len(line') = Len(line) - c /\ line' \in Seq(Byte)
           /\ \A j \in 1..Len(line) - c : line'[j] = line[j + c]
<1>1. /\ buf \in Seq(Byte) /\ Len(buf) \in Nat
      /\ line \in Seq(Byte) /\ Len(line) \in Nat /\ c \in 0..Len(line)
  BY LenProperties DEF ClientTypeOK
<1> DEFINE t == SubSeq(line, 1, c)
<1>2. t \in Seq(Byte) /\ Len(t) = c /\ \A i \in 1..c : t[i] = line[i]
  BY <1>1, PrefixLemma
<1>3. buf' = buf \o t /\ line' = Drop(line, c)
  BY DEF FillBytes
<1> HIDE DEF t
<1>4. /\ Len(buf') = Len(buf) + c /\ buf' \in Seq(Byte)
      /\ \A i \in 1..Len(buf) + c :
            buf'[i] = IF i <= Len(buf) THEN buf[i] ELSE t[i - Len(buf)]
  <2>1. /\ Len(buf \o t) = Len(buf) + Len(t) /\ buf \o t \in Seq(Byte)
        /\ \A i \in 1..Len(buf) + Len(t) :
              (buf \o t)[i] = IF i <= Len(buf) THEN buf[i] ELSE t[i - Len(buf)]
    BY <1>1, <1>2, ConcatProperties
  <2> QED
    BY <1>2, <1>3, <2>1
<1>5. ASSUME NEW i \in Len(buf) + 1..Len(buf) + c
      PROVE  i - Len(buf) \in 1..Len(line) /\ buf'[i] = line[i - Len(buf)]
  <2>1. /\ i - Len(buf) \in 1..c /\ i - Len(buf) \in 1..Len(line)
        /\ i \in 1..Len(buf) + c /\ ~(i <= Len(buf))
    BY <1>1
  <2> QED
    BY <1>2, <1>4, <2>1
<1>6. /\ Len(line') = Len(line) - c /\ line' \in Seq(Byte)
      /\ \A j \in 1..Len(line) - c : line'[j] = line[j + c]
  BY <1>1, <1>3, DropLemma
<1> QED
  BY <1>1, <1>4, <1>5, <1>6

\* A Read moves bytes from the line to the buffer, wherever it ends.
LEMMA FillConserves ==
    ASSUME ClientTypeOK, NEW c \in 1..Len(line), FillBytes(c)
    PROVE  buf' \o line' = buf \o line
<1>1. /\ buf \in Seq(Byte) /\ Len(buf) \in Nat
      /\ line \in Seq(Byte) /\ Len(line) \in Nat
  BY LenProperties DEF ClientTypeOK
<1>2. /\ Len(buf') = Len(buf) + c /\ buf' \in Seq(Byte)
      /\ \A i \in 1..Len(buf) : buf'[i] = buf[i]
      /\ \A i \in Len(buf) + 1..Len(buf) + c :
            i - Len(buf) \in 1..Len(line) /\ buf'[i] = line[i - Len(buf)]
      /\ Len(line') = Len(line) - c /\ line' \in Seq(Byte)
      /\ \A j \in 1..Len(line) - c : line'[j] = line[j + c]
  BY ReadLemma
<1>3. /\ buf \o line \in Seq(Byte) /\ Len(buf \o line) = Len(buf) + Len(line)
      /\ \A i \in 1..Len(buf) + Len(line) :
            (buf \o line)[i] = IF i <= Len(buf) THEN buf[i] ELSE line[i - Len(buf)]
  BY <1>1, ConcatProperties
<1>4. /\ buf' \o line' \in Seq(Byte) /\ Len(buf' \o line') = Len(buf') + Len(line')
      /\ \A i \in 1..Len(buf') + Len(line') :
            (buf' \o line')[i] = IF i <= Len(buf') THEN buf'[i] ELSE line'[i - Len(buf')]
  BY <1>2, ConcatProperties
<1>5. Len(buf') + Len(line') = Len(buf) + Len(line)
  BY <1>1, <1>2
<1>6. ASSUME NEW i \in 1..Len(buf) + Len(line)
      PROVE  (buf' \o line')[i] = (buf \o line)[i]
  <2>1. CASE i <= Len(buf)
    <3>1. i \in 1..Len(buf) /\ i <= Len(buf')
      BY <1>1, <1>2, <2>1
    <3> QED
      BY <1>2, <1>3, <1>4, <1>5, <2>1, <3>1
  <2>2. CASE i > Len(buf) /\ i <= Len(buf) + c
    <3>1. i \in Len(buf) + 1..Len(buf) + c /\ i <= Len(buf') /\ ~(i <= Len(buf))
      BY <1>1, <1>2, <2>2
    <3> QED
      BY <1>2, <1>3, <1>4, <1>5, <3>1
  <2>3. CASE i > Len(buf) + c
    <3>0. /\ Len(buf) \in Nat /\ Len(line) \in Nat /\ Len(buf') = Len(buf) + c
          /\ c \in 1..Len(line)
      BY <1>1, <1>2
    <3>1. PICK j \in 1..Len(line) - c : j = i - Len(buf')
      <4>1. /\ Len(buf) \in Nat /\ Len(line) \in Nat /\ c \in Nat /\ i \in Nat
            /\ i > Len(buf) + c /\ i <= Len(buf) + Len(line)
        BY <2>3, <3>0
      <4>2. i - (Len(buf) + c) \in 1..(Len(line) - c)
        BY <4>1
      <4> QED
        BY <3>0, <4>2
    <3>2. ~(i <= Len(buf)) /\ ~(i <= Len(buf')) /\ j + c = i - Len(buf)
      BY <2>3, <3>0, <3>1
    <3>3. (buf' \o line')[i] = line'[j] /\ line'[j] = line[j + c]
      BY <1>2, <1>4, <1>5, <3>1, <3>2
    <3> QED
      BY <1>3, <3>2, <3>3
  <2>4. Len(buf) \in Nat /\ c \in Nat /\ i \in Nat
    BY <1>1
  <2>5. i <= Len(buf) \/ (i > Len(buf) /\ i <= Len(buf) + c) \/ i > Len(buf) + c
    BY <2>4
  <2> QED
    BY <2>1, <2>2, <2>3, <2>5
<1> QED
  BY <1>3, <1>4, <1>5, <1>6, SeqEqual

\* A Read takes bytes from the line to the buffer: the reply stays what it is.
LEMMA ReplyReads ==
    ASSUME ClientTypeOK, NEW n \in 0..Len(buf), NEW m \in Msg, Reply(n, m),
           NEW c \in 1..Len(line), FillBytes(c)
    PROVE  n \in 0..Len(buf') /\ Reply(n, m)'
<1>1. /\ buf \in Seq(Byte) /\ Len(buf) \in Nat
      /\ line \in Seq(Byte) /\ Len(line) \in Nat /\ Size[m] \in Nat
  BY LenProperties, ClientAssumption DEF ClientTypeOK
<1>2. /\ Len(buf') = Len(buf) + c /\ buf' \in Seq(Byte)
      /\ \A i \in 1..Len(buf) : buf'[i] = buf[i]
      /\ \A i \in Len(buf) + 1..Len(buf) + c :
            i - Len(buf) \in 1..Len(line) /\ buf'[i] = line[i - Len(buf)]
      /\ Len(line') = Len(line) - c
      /\ \A j \in 1..Len(line) - c : line'[j] = line[j + c]
  BY ReadLemma
<1>3. n \in 0..Len(buf')
  BY <1>1, <1>2
<1>4. Starved(SubSeq(buf', 1, n))
  <2>1. /\ SubSeq(buf, 1, n) \in Seq(Byte) /\ SubSeq(buf', 1, n) \in Seq(Byte)
        /\ Len(SubSeq(buf, 1, n)) = n /\ Len(SubSeq(buf', 1, n)) = n
        /\ \A i \in 1..n : SubSeq(buf, 1, n)[i] = buf[i] /\ SubSeq(buf', 1, n)[i] = buf'[i]
    BY <1>1, <1>2, <1>3, PrefixLemma
  <2>2. \A i \in 1..n : buf'[i] = buf[i]
    BY <1>1, <1>2
  <2>3. SubSeq(buf', 1, n) = SubSeq(buf, 1, n)
    BY <2>1, <2>2, SeqEqual
  <2> QED
    BY <2>3 DEF Reply
<1>5. Len(buf') - n + Len(line') <= Size[m]
  BY <1>1, <1>2 DEF Reply
<1>6. ASSUME NEW i \in n + 1..Len(buf')
      PROVE  buf'[i] \in {<<m, i - n>>, Junk}
  <2>1. CASE i <= Len(buf)
    <3>1. i \in n + 1..Len(buf) /\ i \in 1..Len(buf)
      BY <1>1, <1>2, <2>1
    <3> QED
      BY <1>2, <3>1 DEF Reply
  <2>2. CASE ~(i <= Len(buf))
    <3> DEFINE j == i - Len(buf)
    <3>1. i \in Len(buf) + 1..Len(buf) + c /\ Len(buf) - n + j = i - n
      BY <1>1, <1>2, <2>2
    <3>2. j \in 1..Len(line) /\ buf'[i] = line[j]
      BY <1>2, <3>1
    <3>3. line[j] \in {<<m, Len(buf) - n + j>>, Junk}
      BY <3>2 DEF Reply
    <3> QED
      BY <3>1, <3>2, <3>3
  <2> QED
    BY <2>1, <2>2
<1>7. ASSUME NEW j \in 1..Len(line')
      PROVE  line'[j] \in {<<m, Len(buf') - n + j>>, Junk}
  <2>1. /\ j + c \in 1..Len(line) /\ j \in 1..Len(line) - c
        /\ Len(buf) - n + (j + c) = Len(buf') - n + j
    BY <1>1, <1>2
  <2>2. line'[j] = line[j + c]
    BY <1>2, <2>1
  <2>3. line[j + c] \in {<<m, Len(buf) - n + (j + c)>>, Junk}
    BY <2>1 DEF Reply
  <2> QED
    BY <2>1, <2>2, <2>3
<1> QED
  BY <1>3, <1>4, <1>5, <1>6, <1>7 DEF Reply, Starved

\* A reply comes, whole or damaged, behind what earlier ones left.
LEMMA ReplyArrives ==
    ASSUME ClientTypeOK, line = <<>>, Starved(buf),
           NEW m \in Msg, NEW s \in Seq(Byte), Part(s, m), Receive(s)
    PROVE  Len(buf) \in 0..Len(buf) /\ Reply(Len(buf), m)'
<1>1. /\ s \in Seq(Byte) /\ Len(s) <= Size[m]
      /\ \A i \in 1..Len(s) : s[i] \in {<<m, i>>, Junk}
  BY DEF Part
<1>2. line' = s /\ buf' = buf
  BY <1>1, EmptySeq, ConcatEmptySeq DEF Receive
<1>3. /\ buf \in Seq(Byte) /\ Len(buf) \in Nat /\ Len(s) \in Nat /\ Size[m] \in Nat
  BY <1>1, LenProperties, ClientAssumption DEF ClientTypeOK
<1>4. SubSeq(buf, 1, Len(buf)) = buf
  BY <1>3, WholePrefix
<1>5. \A j \in 1..Len(s) : s[j] \in {<<m, Len(buf) - Len(buf) + j>>, Junk}
  <2> TAKE j \in 1..Len(s)
  <2>1. Len(buf) - Len(buf) + j = j
    BY <1>3
  <2> QED
    BY <1>1, <2>1
<1>6. Len(buf) - Len(buf) + Len(s) <= Size[m]
  BY <1>1, <1>3
<1>7. \A i \in Len(buf) + 1..Len(buf) : buf[i] \in {<<m, i - Len(buf)>>, Junk}
  BY <1>3
<1>8. Len(buf) \in 0..Len(buf)
  BY <1>3
<1>9. Starved(SubSeq(buf', 1, Len(buf)))
  BY <1>2, <1>4
<1> QED
  BY <1>2, <1>5, <1>6, <1>7, <1>8, <1>9 DEF Reply, Starved

\* What is on its way is lost with the transport, or not.
LEMMA ReplyBreaks ==
    ASSUME ClientTypeOK, NEW n \in 0..Len(buf), NEW m \in Msg, Reply(n, m),
           buf' = buf, line' \in {line, <<>>}
    PROVE  Reply(n, m)'
<1>1. CASE line' = line
  BY <1>1 DEF Reply, Starved
<1>2. CASE line' = <<>>
  <2>1. Len(line') = 0 /\ Len(line) \in Nat /\ Len(buf) \in Nat /\ Size[m] \in Nat
    BY <1>2, EmptySeq, LenProperties, ClientAssumption DEF ClientTypeOK
  <2>2. Len(buf) - n <= Size[m]
    BY <2>1 DEF Reply
  <2> QED
    BY <2>1, <2>2 DEF Reply, Starved
<1> QED
  BY <1>1, <1>2

\* Noise is no E5h.
LEMMA JunkIsNoE5 == ~IsE5(Junk)
<1>1. Junk \notin Wire /\ Ack \in Msg /\ Size[Ack] = 1 /\ HeadLen \in Nat
  BY ClientAssumption
<1>2. Junk # <<Ack, 1>>
  BY <1>1 DEF Wire
<1>3. ASSUME Junk \in E5Bytes PROVE FALSE
  <2>1. PICK k \in LongMsg : \E i \in HeadLen + 1..Size[k] : Junk = <<k, i>>
    BY <1>3, ClientAssumption
  <2>2. PICK i \in HeadLen + 1..Size[k] : Junk = <<k, i>>
    BY <2>1
  <2>3. k \in Msg /\ Size[k] \in Nat
    BY ClientAssumption DEF LongMsg
  <2>4. i \in 1..Size[k]
    BY <1>1, <2>2, <2>3
  <2> QED
    BY <1>1, <2>2, <2>3, <2>4 DEF Wire
<1> QED
  BY <1>2, <1>3 DEF IsE5

\* The first byte of a long frame is no E5h.
LEMMA HeadIsNoE5 ==
    ASSUME NEW m \in LongMsg
    PROVE  ~IsE5(<<m, 1>>)
<1>1. HeadLen \in Nat \ {0} /\ m # Ack
  BY ClientAssumption DEF LongMsg
<1>2. ASSUME <<m, 1>> \in E5Bytes PROVE FALSE
  <2>1. PICK k \in LongMsg : \E i \in HeadLen + 1..Size[k] : <<m, 1>> = <<k, i>>
    BY <1>2, ClientAssumption
  <2>2. PICK i \in HeadLen + 1..Size[k] : <<m, 1>> = <<k, i>>
    BY <2>1
  <2>3. Size[k] \in Nat
    BY ClientAssumption DEF LongMsg
  <2> QED
    BY <1>1, <2>2, <2>3
<1> QED
  BY <1>1, <1>2 DEF IsE5

\* There is no E5h at the head of a long frame's reply.
LEMMA ReplyHead ==
    ASSUME ClientTypeOK, NEW n \in 0..Len(buf), NEW m \in LongMsg, Reply(n, m),
           buf # <<>>
    PROVE  ~IsE5(buf[1])
<1>1. buf \in Seq(Byte) /\ Len(buf) \in Nat /\ Len(buf) # 0
  BY LenProperties, EmptySeq DEF ClientTypeOK
<1>2. CASE n = 0
  <2>1. 1 \in n + 1..Len(buf) /\ 1 - n = 1
    BY <1>1, <1>2
  <2>2. buf[1] \in {<<m, 1>>, Junk}
    BY <2>1 DEF Reply
  <2> QED
    BY <2>2, HeadIsNoE5, JunkIsNoE5
<1>3. CASE n # 0
  <2>1. /\ SubSeq(buf, 1, n) \in Seq(Byte) /\ Len(SubSeq(buf, 1, n)) = n
        /\ SubSeq(buf, 1, n)[1] = buf[1]
    BY <1>1, <1>3, PrefixLemma
  <2>2. SubSeq(buf, 1, n) # <<>>
    BY <1>3, <2>1, EmptySeq
  <2> QED
    BY <2>1, <2>2, StarvedLemma DEF Reply
<1> QED
  BY <1>2, <1>3

\* Bytes that call for more do so for either parser, but for an E5h at the head.
LEMMA StarvedParse ==
    ASSUME NEW b \in Seq(Byte)
    PROVE  /\ Starved(b) => parseLongFrame(b).err = NeedMore
           /\ parseLongFrame(b).err = NeedMore /\ (b # <<>> => ~IsE5(b[1])) => Starved(b)
<1>1. CASE b = <<>>
  <2>1. Len(b) < HeadLen
    BY <1>1, EmptySeq, ClientAssumption
  <2>2. parseLongFrame(b).err = NeedMore
    BY <2>1 DEF parseLongFrame, Failed, NeedMore
  <2> QED
    BY <1>1, <2>2, EmptyIsStarved
<1>2. CASE b # <<>>
  <2>1. Parsed(Ack).err # NeedMore
    BY DEF Parsed, NeedMore
  <2> QED
    BY <1>2, <2>1 DEF Starved, takeBufferedFrame
<1> QED
  BY <1>1, <1>2

-----------------------------------------------------------------------------
(* A reply as it was sent                                                  *)

\* buf and line together are the answer m.
Split(m) ==
    /\ Len(buf) + Len(line) = Size[m]
    /\ \A i \in 1..Len(buf) : buf[i] = <<m, i>>
    /\ \A j \in 1..Len(line) : line[j] = <<m, Len(buf) + j>>

\* Part of an answer calls for more, and all of it is the answer.
LEMMA SoundTake ==
    ASSUME NEW b \in Seq(Byte), NEW m \in Msg, m # Ack => Size[m] >= MinSize,
           Len(b) <= Size[m],
           \A i \in 1..Len(b) : b[i] = <<m, i>>
    PROVE  \/ takeBufferedFrame(b) = Failed("errNeedMore") /\ Len(b) < Size[m]
           \/ takeBufferedFrame(b) = Parsed(m) /\ Len(b) = Size[m]
<1>1. /\ m \in Msg /\ Size[m] \in Nat \ {0} /\ Len(b) \in Nat
      /\ HeadLen \in Nat \ {0} /\ MinSize \in Nat /\ Size[Ack] = 1
      /\ m # Ack => m \in LongMsg /\ Size[m] > HeadLen /\ Size[m] >= MinSize
  <2>1. Size[m] \in Nat /\ HeadLen \in Nat \ {0}
    BY ClientAssumption
  <2>2. m # Ack => m \in LongMsg /\ Size[m] > HeadLen
    BY <2>1, ClientAssumption DEF LongMsg
  <2> QED
    BY <2>1, <2>2, LenProperties, ClientAssumption
<1>2. CASE b = <<>>
  BY <1>1, <1>2, EmptySeq DEF takeBufferedFrame
<1>3. CASE b # <<>> /\ m = Ack
  <2>1. Len(b) = 1
    <3>1. Len(b) \in Nat /\ Len(b) # 0
      BY <1>1, <1>3, EmptySeq
    <3>2. Size[m] = 1
      BY <1>1, <1>3
    <3> DEFINE l == Len(b)
    <3>3. l \in Nat /\ l # 0 /\ l <= 1
      BY <3>1, <3>2
    <3> HIDE DEF l
    <3>4. l = 1
      BY <3>3
    <3> QED
      BY <3>4 DEF l
  <2>2. b[1] = <<Ack, 1>>
    BY <1>3, <2>1
  <2> QED
    BY <1>1, <1>3, <2>1, <2>2 DEF takeBufferedFrame, IsE5
<1>4. CASE b # <<>> /\ m # Ack
  <2>1. 1 \in 1..Len(b) /\ b[1] = <<m, 1>>
    BY <1>1, <1>4, EmptySeq
  <2>2. ~IsE5(b[1])
    <3>1. <<m, 1>> # <<Ack, 1>>
      BY <1>4
    <3>2. b[1] \notin E5Bytes
      <4> SUFFICES ASSUME b[1] \in E5Bytes PROVE FALSE
        OBVIOUS
      <4>1. PICK k \in LongMsg : \E i \in HeadLen + 1..Size[k] : b[1] = <<k, i>>
        BY ClientAssumption
      <4>2. PICK i \in HeadLen + 1..Size[k] : b[1] = <<k, i>>
        BY <4>1
      <4>3. i = 1
        BY <2>1, <4>2
      <4> QED
        BY <1>1, <4>2, <4>3
    <3> QED
      BY <2>1, <3>1, <3>2 DEF IsE5
  <2>3. takeBufferedFrame(b) = parseLongFrame(b)
    BY <1>4, <2>2 DEF takeBufferedFrame
  <2>4. CASE Len(b) < HeadLen
    BY <1>1, <1>4, <2>3, <2>4 DEF parseLongFrame
  <2>5. CASE ~(Len(b) < HeadLen) /\ Len(b) < Size[m]
    <3>1. StartsFrame(b, m)
      BY <1>1, <2>5 DEF StartsFrame
    <3>2. ASSUME NEW k \in LongMsg, StartsFrame(b, k) PROVE k = m
      <4>1. b[1] = <<k, 1>>
        BY <1>1, <3>2 DEF StartsFrame
      <4> QED
        BY <2>1, <4>1
    <3>3. (CHOOSE k \in LongMsg : StartsFrame(b, k)) = m
      BY <1>1, <1>4, <3>1, <3>2
    <3>4. ParseBody(b, m) = Failed("errNeedMore")
      BY <1>1, <1>4, <2>5 DEF ParseBody
    <3> QED
      BY <1>1, <1>4, <2>3, <2>5, <3>1, <3>3, <3>4 DEF parseLongFrame
  <2>6. CASE Len(b) = Size[m]
    <3>1. parseLongFrame(b) = Parsed(m)
      BY <1>1, <1>4, <2>6, ThereIsParsed
    <3> QED
      BY <2>3, <2>6, <3>1
  <2> QED
    BY <1>1, <2>4, <2>5, <2>6
<1> QED
  BY <1>2, <1>3, <1>4

\* What is read of the answer so far calls for more or is the answer.
LEMMA SplitTake ==
    ASSUME ClientTypeOK, NEW m \in Msg, m # Ack => Size[m] >= MinSize, Split(m)
    PROVE  \/ takeBufferedFrame(buf) = Failed("errNeedMore") /\ line # <<>>
           \/ takeBufferedFrame(buf) = Parsed(m) /\ Len(buf) = Size[m] /\ line = <<>>
<1>1. /\ buf \in Seq(Byte) /\ Len(buf) \in Nat
      /\ line \in Seq(Byte) /\ Len(line) \in Nat
  BY LenProperties DEF ClientTypeOK
<1>2. Len(buf) <= Size[m] /\ \A i \in 1..Len(buf) : buf[i] = <<m, i>>
  BY <1>1 DEF Split
<1>3. Len(buf) + Len(line) = Size[m]
  BY DEF Split
<1>4. \/ takeBufferedFrame(buf) = Failed("errNeedMore") /\ Len(buf) < Size[m]
      \/ takeBufferedFrame(buf) = Parsed(m) /\ Len(buf) = Size[m]
  BY <1>1, <1>2, SoundTake
<1>5. Len(buf) < Size[m] => Len(line) # 0
  BY <1>1, <1>3
<1>6. Len(buf) = Size[m] => Len(line) = 0
  BY <1>1, <1>3
<1>7. line = <<>> <=> Len(line) = 0
  BY <1>1, EmptySeq
<1> QED
  BY <1>4, <1>5, <1>6, <1>7

\* A Read takes some of the answer from the line.
LEMMA SplitReads ==
    ASSUME ClientTypeOK, NEW m \in Msg, Split(m), NEW c \in 1..Len(line), FillBytes(c)
    PROVE  Split(m)'
<1>1. /\ buf \in Seq(Byte) /\ Len(buf) \in Nat
      /\ line \in Seq(Byte) /\ Len(line) \in Nat
  BY LenProperties DEF ClientTypeOK
<1>2. /\ Len(buf') = Len(buf) + c
      /\ \A i \in 1..Len(buf) : buf'[i] = buf[i]
      /\ \A i \in Len(buf) + 1..Len(buf) + c :
            i - Len(buf) \in 1..Len(line) /\ buf'[i] = line[i - Len(buf)]
      /\ Len(line') = Len(line) - c
      /\ \A j \in 1..Len(line) - c : line'[j] = line[j + c]
  BY ReadLemma
<1>3. Len(buf') + Len(line') = Size[m]
  BY <1>1, <1>2 DEF Split
<1>4. ASSUME NEW i \in 1..Len(buf') PROVE buf'[i] = <<m, i>>
  <2>1. CASE i <= Len(buf)
    <3>1. i \in 1..Len(buf)
      BY <1>1, <2>1
    <3> QED
      BY <1>2, <3>1 DEF Split
  <2>2. CASE ~(i <= Len(buf))
    <3>1. i \in Len(buf) + 1..Len(buf) + c /\ Len(buf) + (i - Len(buf)) = i
      BY <1>1, <1>2, <2>2
    <3>2. i - Len(buf) \in 1..Len(line) /\ buf'[i] = line[i - Len(buf)]
      BY <1>2, <3>1
    <3>3. line[i - Len(buf)] = <<m, Len(buf) + (i - Len(buf))>>
      BY <3>2 DEF Split
    <3> QED
      BY <3>1, <3>2, <3>3
  <2> QED
    BY <2>1, <2>2
<1>5. ASSUME NEW j \in 1..Len(line') PROVE line'[j] = <<m, Len(buf') + j>>
  <2>1. /\ j + c \in 1..Len(line) /\ j \in 1..Len(line) - c
        /\ Len(buf) + (j + c) = Len(buf') + j
    BY <1>1, <1>2
  <2>2. line'[j] = line[j + c] /\ line[j + c] = <<m, Len(buf) + (j + c)>>
    BY <1>2, <2>1 DEF Split
  <2> QED
    BY <2>1, <2>2
<1> QED
  BY <1>3, <1>4, <1>5 DEF Split

\* The answer goes on the line, as it is.
LEMMA SplitArrives ==
    ASSUME line = <<>>, buf = <<>>, NEW m \in Msg, Receive(Bytes(m))
    PROVE  Split(m)'
<1>1. /\ Bytes(m) \in Seq(Byte) /\ Len(Bytes(m)) = Size[m] /\ Size[m] \in Nat
      /\ \A i \in 1..Size[m] : Bytes(m)[i] = <<m, i>>
  BY BytesLemma, ClientAssumption
<1>2. line' = Bytes(m) /\ buf' = <<>> /\ Len(buf') = 0
  BY <1>1, ConcatEmptySeq, EmptySeq DEF Receive
<1> QED
  BY <1>1, <1>2 DEF Split

-----------------------------------------------------------------------------
(* A step of any call                                                      *)

\* A call's start keeps the client's types.
LEMMA CallType ==
    ASSUME ClientTypeOK, NEW o \in Ops, Call(o), UNCHANGED ctx
    PROVE  ClientTypeOK'
  BY DEF Call, ClientTypeOK, NoResult, Results

\* A turn of probeResponse's loops.
LEMMA ProbeOutcomes ==
    ASSUME op \in {"probeSilence", "probeResponse"}, Look
    PROVE  /\ at = "look" /\ UNCHANGED <<line, conn, ctx>>
           /\ \/ at' = "fill" /\ Starved(buf) /\ UNCHANGED <<buf, op, late, ret>>
              \/ op' = "probeResponse" /\ ~late' /\ UNCHANGED <<buf, at, ret>>
              \/ \E m \in Msg :
                    /\ takeBufferedFrame(buf) = Parsed(m) /\ buf' = Drop(buf, Size[m])
                    /\ op' = "none" /\ at' = "look" /\ ~late' /\ ~Starved(buf)
                    /\ ret'.err = {} /\ ret'.msg = m
              \/ \E e \in Malformed :
                    /\ takeBufferedFrame(buf) = Failed(e) /\ buf' = <<>>
                    /\ op' = "none" /\ at' = "look" /\ ~late' /\ ~Starved(buf)
                    /\ ret'.err = {e}
<1>1. LookForFirstByte \/ LookForAnswer
  BY DEF Look, LookForLongFrame, LookForSingleChar
<1>2. CASE LookForFirstByte
  BY <1>2, EmptyIsStarved DEF LookForFirstByte, GoFill
<1>3. CASE LookForAnswer
  <2> DEFINE p == takeBufferedFrame(buf)
  <2>1. /\ \A m : Parsed(m).err = {} /\ Parsed(m).msg = m
        /\ \A e : Failed(e).err = {e}
        /\ \A e \in Malformed : {e} # NeedMore
        /\ NeedMore # {}
    BY DEF Parsed, Failed, Malformed, NeedMore
  <2>2. \/ \E m \in Msg : p = Parsed(m)
        \/ \E e \in Malformed : p = Failed(e)
        \/ p = Failed("errNeedMore") /\ p.err = NeedMore
    BY <2>1, TakeOutcomes DEF NeedMore
  <2>3. /\ at = "look" /\ UNCHANGED <<line, conn, ctx>>
        /\ \/ p.err = {} /\ buf' = Drop(buf, Size[p.msg]) /\ Return(p.err, p.msg)
           \/ p.err = NeedMore /\ GoFill /\ UNCHANGED buf
           \/ p.err \notin {{}, NeedMore} /\ buf' = <<>> /\ Return(p.err, NoMsg)
    BY <1>3 DEF LookForAnswer
  <2>4. Starved(buf) <=> p.err = NeedMore
    BY DEF Starved
  <2> HIDE DEF p
  <2>5. \A e, m : Return(e, m) => /\ op' = "none" /\ at' = "look" /\ ~late'
                                  /\ ret'.err = e /\ ret'.msg = m
    BY DEF Return
  <2>6. CASE p.err = {}
    <3>1. PICK k \in Msg : p = Parsed(k)
      BY <2>1, <2>2, <2>6
    <3>2. p.msg = k /\ ~Starved(buf)
      BY <2>1, <2>4, <2>6, <3>1
    <3>3. buf' = Drop(buf, Size[k]) /\ Return({}, k)
      BY <2>1, <2>3, <2>6, <3>2
    <3> QED
      BY <2>3, <2>5, <3>1, <3>2, <3>3 DEF p
  <2>7. CASE p.err = NeedMore
    BY <2>1, <2>3, <2>4, <2>7 DEF GoFill
  <2>8. CASE p.err \notin {{}, NeedMore}
    <3>1. PICK e \in Malformed : p = Failed(e)
      BY <2>1, <2>2, <2>8
    <3>2. buf' = <<>> /\ Return({e}, NoMsg) /\ ~Starved(buf)
      BY <2>1, <2>3, <2>4, <2>8, <3>1
    <3> QED
      BY <2>3, <2>5, <3>1, <3>2 DEF p
  <2> QED
    BY <2>6, <2>7, <2>8
<1> QED
  BY <1>1, <1>2, <1>3

\* A Client's step is a step of the call in progress.
LEMMA ClientStepType ==
    ASSUME ClientTypeOK, op = "none" => at = "look", ClientStep
    PROVE  /\ op # "none" /\ ClientTypeOK'
           /\ op' \in {op, "none"} \/ (op = "probeSilence" /\ op' = "probeResponse")
           /\ op' = "none" => at' = "look"
           /\ UNCHANGED <<conn, ctx>>
<1>1. op # "none"
  BY DEF ClientStep, Look, LookForLongFrame, LookForSingleChar, LookForFirstByte,
     LookForAnswer, Fill, FillCtxEnded, FillTimedOut, FillBytes, FillConnFailed
<1>2. ClientTypeOK'
  BY <1>1, LookType, FillType DEF ClientStep
<1>3. /\ op' \in {op, "none"} \/ (op = "probeSilence" /\ op' = "probeResponse")
      /\ op' = "none" => at' = "look"
      /\ UNCHANGED <<conn, ctx>>
  BY <1>1 DEF ClientStep, Look, LookForLongFrame, LookForSingleChar, LookForFirstByte,
     LookForAnswer, Fill, FillCtxEnded, FillTimedOut, FillBytes, FillConnFailed,
     GiveUp, GoFill, Return
<1> QED
  BY <1>1, <1>2, <1>3

\* A frame taken from the buffer is there, and is not empty.
LEMMA TakenIsThere ==
    ASSUME NEW b \in Seq(Byte), NEW m \in Msg, takeBufferedFrame(b) = Parsed(m)
    PROVE  Size[m] \in 1..Len(b)
<1>1. Len(b) \in Nat /\ HeadLen \in Nat \ {0} /\ Size[Ack] = 1
  BY LenProperties, ClientAssumption
<1>2. b # <<>>
  BY DEF takeBufferedFrame, Failed, Parsed
<1>3. Len(b) # 0
  BY <1>2, EmptySeq
<1>4. CASE IsE5(b[1])
  <2>1. m = Ack
    BY <1>2, <1>4 DEF takeBufferedFrame, Parsed
  <2> QED
    BY <1>1, <1>3, <2>1
<1>5. CASE ~IsE5(b[1])
  <2>1. parseLongFrame(b) = Parsed(m)
    BY <1>2, <1>5 DEF takeBufferedFrame
  <2> QED
    BY <1>1, <2>1, ParsedIsThere
<1> QED
  BY <1>4, <1>5

\* A step of the call makes no bytes, and one that returns a frame takes some.
LEMMA StepConserves ==
    ASSUME ClientTypeOK, op = "none" => at = "look", ClientStep
    PROVE  /\ Len(buf') + Len(line') <= Len(buf) + Len(line)
           /\ op' = "none" /\ ret'.err = {} =>
                  Len(buf') + Len(line') < Len(buf) + Len(line)
<1>1. /\ buf \in Seq(Byte) /\ Len(buf) \in Nat
      /\ line \in Seq(Byte) /\ Len(line) \in Nat
  BY LenProperties DEF ClientTypeOK
<1>2. op \in Ops
  BY ClientStepType DEF ClientTypeOK
<1>3. ASSUME NEW n \in 1..Len(buf), buf' = Drop(buf, n), line' = line
      PROVE  Len(buf') + Len(line') < Len(buf) + Len(line)
  <2>1. n \in 0..Len(buf)
    BY <1>1
  <2>2. Len(buf') = Len(buf) - n
    BY <1>1, <1>3, <2>1, DropLemma
  <2> QED
    BY <1>1, <1>3, <2>2
<1>4. ASSUME buf' = <<>>, line' = line
      PROVE  Len(buf') + Len(line') <= Len(buf) + Len(line)
  BY <1>1, <1>4, EmptySeq
<1>5. CASE Fill
  <2>1. ASSUME NEW c \in 1..Len(line), FillBytes(c)
        PROVE  Len(buf') + Len(line') = Len(buf) + Len(line)
    <3>1. Len(buf') = Len(buf) + c /\ Len(line') = Len(line) - c
      BY <2>1, ReadLemma
    <3> QED
      BY <1>1, <3>1
  <2> QED
    BY <1>1, <1>2, <1>5, <2>1, FillOutcomes DEF Ops
<1>6. CASE Look /\ op = "ReadLongFrame"
  <2>1. ASSUME NEW m \in LongMsg, parseLongFrame(buf) = Parsed(m)
        PROVE  Size[m] \in 1..Len(buf)
    BY <1>1, <2>1, ParsedIsThere, ClientAssumption DEF LongMsg
  <2> QED
    BY <1>1, <1>3, <1>6, <2>1, LongOutcomes
<1>7. CASE Look /\ op = "ReadSingleCharFrame"
  BY <1>1, <1>3, <1>4, <1>7, SingleOutcomes DEF FirstE5
<1>8. CASE Look /\ op \in {"probeSilence", "probeResponse"}
  <2>1. /\ UNCHANGED line
        /\ \/ buf' = buf /\ op' # "none"
           \/ \E m \in Msg : takeBufferedFrame(buf) = Parsed(m) /\ buf' = Drop(buf, Size[m])
           \/ buf' = <<>> /\ ret'.err # {}
    BY <1>8, ProbeOutcomes
  <2>2. CASE buf' = buf /\ op' # "none"
    BY <1>1, <2>1, <2>2
  <2>3. ASSUME NEW m \in Msg, takeBufferedFrame(buf) = Parsed(m), buf' = Drop(buf, Size[m])
        PROVE  Len(buf') + Len(line') < Len(buf) + Len(line)
    BY <1>1, <1>3, <2>1, <2>3, TakenIsThere
  <2>4. CASE buf' = <<>> /\ ret'.err # {}
    BY <1>4, <2>1, <2>4
  <2> QED
    BY <1>1, <2>1, <2>2, <2>3, <2>4
<1> QED
  BY <1>2, <1>5, <1>6, <1>7, <1>8 DEF ClientStep, Ops

\* A step of the call finds no bytes but those there were.
LEMMA StepBytes ==
    ASSUME ClientTypeOK, op = "none" => at = "look", ClientStep,
           NEW S, buf \in Seq(S), line \in Seq(S)
    PROVE  buf' \in Seq(S) /\ line' \in Seq(S)
<1>1. op \in Ops
  BY ClientStepType DEF ClientTypeOK
<1>2. <<>> \in Seq(S) /\ \A n \in Nat : Drop(buf, n) \in Seq(S) /\ Drop(line, n) \in Seq(S)
  BY EmptySeq, DropType
<1>3. Len(line) \in Nat /\ Len(buf) \in Nat /\ Size \in [Msg -> Nat]
  BY LenProperties, ClientAssumption DEF ClientTypeOK
<1>4. CASE Fill
  <2>1. ASSUME NEW c \in 1..Len(line), FillBytes(c)
        PROVE  buf' \in Seq(S) /\ line' \in Seq(S)
    <3>1. c \in 0..Len(line) /\ c \in Nat
      BY <1>3
    <3>2. SubSeq(line, 1, c) \in Seq(S)
      BY <3>1, PrefixLemma
    <3> QED
      BY <1>2, <2>1, <3>1, <3>2, ConcatProperties DEF FillBytes
  <2> QED
    BY <1>4, <2>1, FillOutcomes
<1>5. CASE Look /\ op = "ReadLongFrame"
  BY <1>2, <1>3, <1>5, LongOutcomes DEF LongMsg
<1>6. CASE Look /\ op = "ReadSingleCharFrame"
  <2>1. \A i \in 1..Len(buf) : i \in Nat
    BY <1>3
  <2> QED
    BY <1>2, <1>6, <2>1, SingleOutcomes
<1>7. CASE Look /\ op \in {"probeSilence", "probeResponse"}
  BY <1>2, <1>3, <1>7, ProbeOutcomes
<1> QED
  BY <1>1, <1>4, <1>5, <1>6, <1>7 DEF ClientStep, Ops

\* Damage brings no byte but Junk.
LEMMA DamagedBytes ==
    ASSUME NEW S, Junk \in S, NEW t \in Seq(S), NEW s \in Damaged(t)
    PROVE  s \in Seq(S) /\ Len(s) <= Len(t)
<1>1. Len(t) \in Nat
  BY LenProperties
<1>2. CASE \E n \in 0..(Len(t) - 1) : s = SubSeq(t, 1, n)
  <2>1. PICK n \in 0..(Len(t) - 1) : s = SubSeq(t, 1, n)
    BY <1>2
  <2>2. n \in 0..Len(t) /\ n <= Len(t)
    BY <1>1
  <2> QED
    BY <2>1, <2>2, PrefixLemma
<1>3. CASE \E j \in 1..Len(t) : s = [t EXCEPT ![j] = Junk]
  BY <1>1, <1>3, ExceptSeq
<1> QED
  BY <1>2, <1>3 DEF Damaged

=============================================================================
