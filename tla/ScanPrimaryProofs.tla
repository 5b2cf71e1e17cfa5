------------------------- MODULE ScanPrimaryProofs -------------------------
(***************************************************************************)
(* CleanScanHasNoGhost and SoundScanIsExact, for any addresses, slaves,    *)
(* sizes, cuts, faults and failures, of slaves that are prompt.  The       *)
(* invariant of the first says of every state where the bytes come from    *)
(* that a probe may find: until a reply is refused with some of it unread, *)
(* there is nothing between two probes but a start of a frame in buf,      *)
(* which no later reply can complete.  That of the second says byte for    *)
(* byte what a probe gets to read while nothing has gone wrong.            *)
(***************************************************************************)
EXTENDS ScanPrimary, ClientProofs

Probing == {"none", "probeSilence", "probeResponse"}

\* Every variable has its type, and a call is in progress only where the sweep
\* waits for one.
ScanTypeOK ==
    /\ ClientTypeOK
    /\ outbox \in Seq(Seq(Byte))
    /\ step \in {"reset", "resetSent", "request", "requestSent", "over"}
    /\ addr \in Nat
    /\ found \in Seq(Nat)
    /\ clean \in BOOLEAN
    /\ op \in Probing
    /\ op = "none" => at = "look"
    /\ op # "none" => step \in {"resetSent", "requestSent"}

\* Nothing is under way, and nothing will come.
Fresh == Quiet /\ Starved(buf)

\* No byte is read any more: the context is over, or the transport is.
Deaf ==
    /\ Starved(buf)
    /\ ctx # "live" \/ (conn # "up" /\ line = <<>>)

\* The slave addressed has not yet sent its reply.
Waiting ==
    /\ op # "none" /\ ~late /\ addr \in Slaves
    /\ line = <<>> /\ Starved(buf)
    /\ \E m \in Msg : outbox = <<Bytes(m)>>

\* The slave addressed has sent its reply, and the probe reads it.
Arriving ==
    /\ op # "none" /\ addr \in Slaves
    /\ late => line = <<>>
    /\ outbox = <<>>
    /\ at = "fill" => Starved(buf)
    /\ \E n \in 0..Len(buf), m \in Msg : Reply(n, m)

Accounted == Fresh \/ Deaf \/ Waiting \/ Arriving

\* The address about to be counted has a slave.
CountIsTrue ==
    op = "none" /\ step = "requestSent" /\ ret.err = {} => addr \in Slaves

CleanInv == clean => NoGhost /\ CountIsTrue /\ Accounted

-----------------------------------------------------------------------------
(* The types                                                               *)

\* What waits in outbox is a reply.
LEMMA AnswersAreReplies ==
    ASSUME AnswerReset(addr) \/ AnswerRequest(addr) \/ UNCHANGED outbox
    PROVE  \/ outbox' = outbox
           \/ addr \in Slaves /\ \E m \in Msg : outbox' = Append(outbox, Bytes(m))
<1> USE DEF Answer
<1>2. Ack \in Msg /\ \A a \in Slaves : a \in Msg
  BY ScanPrimaryAssumption
<1>3. CASE AnswerReset(addr)
  BY <1>2, <1>3 DEF AnswerReset
<1>4. CASE AnswerRequest(addr)
  BY <1>2, <1>4, ScanPrimaryAssumption DEF AnswerRequest
<1> QED
  BY <1>3, <1>4

\* The types hold at first.
LEMMA InitScanType == Init => ScanTypeOK
<1> SUFFICES ASSUME Init PROVE ScanTypeOK
  OBVIOUS
<1>1. NoResult \in Results /\ <<>> \in Seq(Byte)
  BY EmptySeq DEF NoResult, Results
<1>2. ClientTypeOK
  BY <1>1 DEF Init, ClientInit, ClientTypeOK
<1>3. outbox \in Seq(Seq(Byte)) /\ found \in Seq(Nat) /\ addr \in Nat
  BY EmptySeq, ScanPrimaryAssumption DEF Init, BusInit, validRange, minPrimaryID, maxPrimaryID
<1> QED
  BY <1>2, <1>3 DEF Init, ClientInit, ScanTypeOK, Probing

\* Every step keeps the types.
LEMMA NextScanType == ScanTypeOK /\ [Next]_vars => ScanTypeOK'
<1> SUFFICES ASSUME ScanTypeOK, [Next]_vars PROVE ScanTypeOK'
  OBVIOUS
<1> USE DEF ScanTypeOK, Probing
<1>1. CASE SendReset \/ SendRequest
  <2>1. NoResult \in Results
    BY DEF NoResult, Results
  <2>2. Call("probeSilence") /\ UNCHANGED ctx /\ step' \in {"resetSent", "requestSent"}
        /\ UNCHANGED <<addr, found, clean>>
        /\ (AnswerReset(addr) \/ AnswerRequest(addr) \/ UNCHANGED outbox)
    BY <1>1 DEF SendReset, SendRequest
  <2>3. ClientTypeOK'
    BY <2>1, <2>2 DEF Call, ClientTypeOK, Ops
  <2>4. outbox' \in Seq(Seq(Byte))
    <3>1. CASE outbox' = outbox
      BY <3>1
    <3>2. ASSUME NEW m \in Msg, outbox' = Append(outbox, Bytes(m))
          PROVE  outbox' \in Seq(Seq(Byte))
      BY <3>2, BytesLemma, AppendProperties
    <3> QED
      BY <2>2, <3>1, <3>2, AnswersAreReplies
  <2> QED
    BY <2>2, <2>3, <2>4 DEF Call
<1>2. CASE ResetAnswered
  BY <1>2 DEF ResetAnswered, At, clientVars, busVars, ClientTypeOK
<1>3. CASE Counted
  <2>1. found' \in Seq(Nat)
    BY <1>3, AppendProperties DEF Counted
  <2> QED
    BY <1>3, <2>1 DEF Counted, At, clientVars, busVars, ClientTypeOK
<1>4. CASE WriteRefused \/ ProbeFailed
  <2>1. <<>> \in Seq(Nat)
    BY EmptySeq
  <2> QED
    BY <1>4, <2>1 DEF WriteRefused, ProbeFailed, Abort, At, clientVars, busVars, ClientTypeOK
<1>5. CASE Read
  <2>1. op # "none"
    BY <1>5 DEF Read, BusStep, ClientStep, Look, LookForLongFrame, LookForSingleChar,
       LookForFirstByte, LookForAnswer, Fill, FillCtxEnded, FillTimedOut, FillBytes,
       FillConnFailed
  <2>2. ClientTypeOK'
    BY <1>5, <2>1, LookType, FillType DEF Read, BusStep, ClientStep
  <2>3. op' \in Probing /\ (op' = "none" => at' = "look")
    BY <1>5, <2>1 DEF Read, BusStep, ClientStep, Look, LookForLongFrame, LookForSingleChar,
       LookForFirstByte, LookForAnswer, Fill, FillCtxEnded, FillTimedOut, FillBytes,
       FillConnFailed, GiveUp, GoFill, Return
  <2> QED
    BY <1>5, <2>1, <2>2, <2>3 DEF Read, BusStep, busVars, scanVars
<1>6. CASE Transmit
  <2>1. ASSUME NEW s \in Seq(Byte), Receive(s)
        PROVE  ClientTypeOK'
    BY <2>1, ConcatProperties DEF Receive, ClientTypeOK
  <2>2. outbox # <<>> /\ outbox' = Tail(outbox)
    BY <1>6 DEF Transmit, TransmitWhole, TransmitDamaged
  <2>3. Head(outbox) \in Seq(Byte) /\ outbox' \in Seq(Seq(Byte))
    BY <2>2, HeadTailProperties
  <2>4. \E s \in Seq(Byte) : Receive(s)
    <3>1. ASSUME NEW t \in Seq(Byte), NEW s \in Damaged(t)
          PROVE  s \in Seq(Byte)
      BY <3>1, DamagedType
    <3> QED
      BY <1>6, <2>3, <3>1 DEF Transmit, TransmitWhole, TransmitDamaged
  <2> QED
    BY <1>6, <2>1, <2>3, <2>4 DEF Transmit, TransmitWhole, TransmitDamaged, Receive, scanVars
<1>7. CASE Deadline
  BY <1>7 DEF Deadline, BusDeadline, DeadlinePasses, busVars, scanVars, ClientTypeOK
<1>8. CASE Cancel
  BY <1>8 DEF Cancel, CtxEnds, busVars, scanVars, ClientTypeOK, CtxErrors
<1>9. CASE Break
  <2>1. <<>> \in Seq(Byte)
    BY EmptySeq
  <2> QED
    BY <1>9, <2>1 DEF Break, ConnFails, busVars, scanVars, ClientTypeOK
<1>10. CASE UNCHANGED vars
  BY <1>10 DEF vars, clientVars, busVars, scanVars, ClientTypeOK
<1> QED
  BY <1>1, <1>2, <1>3, <1>4, <1>5, <1>6, <1>7, <1>8, <1>9, <1>10 DEF Next, Master

-----------------------------------------------------------------------------
(* The steps                                                               *)

\* Between calls nothing waits or arrives.
LEMMA BetweenCalls ==
    ASSUME Accounted, op = "none"
    PROVE  Fresh \/ Deaf
  BY DEF Accounted, Waiting, Arriving

\* In fill what is buffered calls for more.
LEMMA FillIsStarved ==
    ASSUME Accounted, at = "fill"
    PROVE  Starved(buf)
  BY DEF Accounted, Fresh, Deaf, Waiting, Arriving

\* A request makes nobody answer but the slave addressed.
LEMMA SendAccounted ==
    ASSUME ScanTypeOK, CleanInv, SendReset \/ SendRequest
    PROVE  CleanInv'
<1> SUFFICES ASSUME clean' PROVE NoGhost' /\ CountIsTrue' /\ Accounted'
  BY DEF CleanInv
<1>1. /\ op = "none" /\ op' = "probeSilence" /\ ~late'
      /\ UNCHANGED <<line, buf, conn, ctx, addr, found, clean>>
      /\ AnswerReset(addr) \/ AnswerRequest(addr) \/ UNCHANGED outbox
  BY DEF SendReset, SendRequest, Call
<1>2. NoGhost /\ (Fresh \/ Deaf)
  BY <1>1, BetweenCalls DEF CleanInv
<1>3. NoGhost' /\ CountIsTrue'
  BY <1>1, <1>2 DEF NoGhost, Found, CountIsTrue
<1>4. CASE Deaf
  BY <1>1, <1>3, <1>4 DEF Deaf, Starved, Accounted
<1>5. CASE Fresh /\ outbox' = outbox
  BY <1>1, <1>3, <1>5 DEF Fresh, Quiet, Starved, Accounted
<1>6. ASSUME Fresh, addr \in Slaves, NEW m \in Msg, outbox' = Append(outbox, Bytes(m))
      PROVE  Waiting'
  <2>1. outbox' = <<Bytes(m)>>
    BY <1>6 DEF Fresh, Quiet
  <2> QED
    BY <1>1, <1>6, <2>1 DEF Fresh, Quiet, Starved, Waiting
<1> QED
  BY <1>1, <1>2, <1>3, <1>4, <1>5, <1>6, AnswersAreReplies DEF Accounted

\* An address that is counted has answered.
LEMMA CountAccounted ==
    ASSUME ScanTypeOK, CleanInv, ResetAnswered \/ Counted \/ WriteRefused \/ ProbeFailed
    PROVE  CleanInv'
<1> SUFFICES ASSUME clean' PROVE NoGhost' /\ CountIsTrue' /\ Accounted'
  BY DEF CleanInv
<1>1. /\ op = "none" /\ UNCHANGED <<clientVars, busVars, clean>>
      /\ step' \in {"request", "over", "reset"}
  BY DEF ResetAnswered, Counted, WriteRefused, ProbeFailed, Abort, At
<1>2. NoGhost /\ CountIsTrue /\ (Fresh \/ Deaf)
  BY <1>1, BetweenCalls DEF CleanInv
<1>3. Accounted'
  BY <1>1, <1>2 DEF Fresh, Quiet, Deaf, Starved, Accounted, clientVars, busVars
<1>4. CountIsTrue'
  BY <1>1 DEF CountIsTrue
<1>5. NoGhost'
  <2>1. CASE UNCHANGED found
    BY <1>2, <2>1 DEF NoGhost, Found
  <2>2. CASE found' = <<>>
    BY <2>2 DEF NoGhost, Found
  <2>3. CASE Counted /\ ret.err = {} /\ found' = Append(found, addr)
    <3>1. addr \in Slaves
      BY <1>1, <1>2, <2>3 DEF Counted, At, CountIsTrue
    <3>2. /\ Len(found) \in Nat /\ Len(found') = Len(found) + 1
          /\ \A i \in 1..Len(found) : found'[i] = found[i]
          /\ found'[Len(found) + 1] = addr
      BY <2>3, AppendProperties, LenProperties DEF ScanTypeOK
    <3>3. ASSUME NEW i \in 1..Len(found') PROVE found'[i] \in Slaves
      BY <1>2, <3>1, <3>2, <3>3 DEF NoGhost, Found
    <3> QED
      BY <3>3 DEF NoGhost, Found
  <2> QED
    BY <2>1, <2>2, <2>3
       DEF ResetAnswered, Counted, WriteRefused, ProbeFailed, Abort
<1> QED
  BY <1>3, <1>4, <1>5

\* A turn of a probe's loops takes the reply, or refuses all of it, or waits.
LEMMA LookAccounted ==
    ASSUME ScanTypeOK, NoGhost, Accounted, Look,
           UNCHANGED <<busVars, scanVars>>,
           ret'.err \cap Malformed = {} \/ line' = <<>>
    PROVE  NoGhost' /\ CountIsTrue' /\ Accounted'
<1>0. NoGhost'
  BY DEF NoGhost, Found, scanVars
<1>1. CASE LookForLongFrame \/ LookForSingleChar
  BY <1>1 DEF LookForLongFrame, LookForSingleChar, ScanTypeOK, Probing
<1>2. CASE LookForFirstByte
  <2>1. /\ UNCHANGED <<line, buf, conn, ctx, outbox, addr>>
        /\ op # "none" /\ op' # "none"
        /\ late' => late
        /\ at' = "fill" => buf = <<>>
    BY <1>2 DEF LookForFirstByte, GoFill, busVars, scanVars
  <2>2. CountIsTrue'
    BY <2>1 DEF CountIsTrue
  <2>3. CASE Fresh \/ Deaf \/ Waiting
    BY <1>0, <2>1, <2>2, <2>3 DEF Fresh, Quiet, Deaf, Waiting, Starved, Accounted
  <2>4. CASE Arriving
    <3>1. at' = "fill" => Starved(buf')
      BY <2>1, EmptyIsStarved
    <3> QED
      BY <1>0, <2>1, <2>2, <2>4, <3>1 DEF Arriving, Reply, Starved, Accounted
  <2> QED
    BY <1>0, <2>2, <2>3, <2>4 DEF Accounted
<1>3. CASE LookForAnswer
  <2> DEFINE p == takeBufferedFrame(buf)
  <2>1. /\ op # "none" /\ UNCHANGED <<line, conn, ctx, outbox, addr>>
    BY <1>3 DEF LookForAnswer, busVars, scanVars
  <2>2. \/ \E k \in Msg : p = Parsed(k)
        \/ \E e \in Malformed \cup NeedMore : p = Failed(e)
    BY TakeOutcomes
  <2>3. /\ \A k : Parsed(k).err = {} /\ Parsed(k).msg = k
        /\ \A e : Failed(e).err = {e}
        /\ NeedMore # {}
    BY DEF Parsed, Failed, NeedMore
  <2>4. CASE p.err = {} /\ buf' = Drop(buf, Size[p.msg]) /\ Return(p.err, p.msg)
    <3>1. PICK k \in Msg : p = Parsed(k)
      BY <2>2, <2>3, <2>4
    <3>2. Arriving
      BY <2>3, <2>4 DEF Accounted, Fresh, Deaf, Waiting, Starved
    <3>3. PICK n \in 0..Len(buf), m \in Msg : Reply(n, m)
      BY <3>2 DEF Arriving
    <3>4. line = <<>> /\ Len(buf) = Size[k]
      BY <3>1, <3>3, TakenIsTheReply DEF ScanTypeOK
    <3>5. buf' = <<>>
      <4>1. buf' = Drop(buf, Len(buf)) /\ buf \in Seq(Byte)
        BY <2>3, <2>4, <3>1, <3>4 DEF ScanTypeOK, ClientTypeOK
      <4> QED
        BY <4>1, DropAll
    <3>6. Fresh'
      BY <2>1, <3>2, <3>4, <3>5, EmptyIsStarved DEF Arriving, Fresh, Quiet, Starved
    <3>7. CountIsTrue'
      BY <2>1, <3>2 DEF Arriving, CountIsTrue
    <3> QED
      BY <1>0, <3>6, <3>7 DEF Accounted
  <2>5. CASE p.err = NeedMore /\ GoFill /\ UNCHANGED buf
    <3>1. Starved(buf) /\ CountIsTrue'
      BY <2>1, <2>5 DEF Starved, GoFill, CountIsTrue
    <3>2. CASE Fresh \/ Deaf \/ Waiting
      BY <1>0, <2>1, <2>5, <3>1, <3>2
         DEF Fresh, Quiet, Deaf, Waiting, Starved, Accounted, GoFill
    <3>3. CASE Arriving
      BY <1>0, <2>1, <2>5, <3>1, <3>3 DEF Arriving, Reply, Starved, Accounted, GoFill
    <3> QED
      BY <3>2, <3>3 DEF Accounted
  <2>6. CASE p.err \notin {{}, NeedMore} /\ buf' = <<>> /\ Return(p.err, NoMsg)
    <3>1. Arriving
      BY <2>3, <2>6 DEF Accounted, Fresh, Deaf, Waiting, Starved
    <3>2. PICK e \in Malformed : p.err = {e}
      BY <2>2, <2>3, <2>6 DEF NeedMore
    <3>3. ret'.err = {e}
      BY <2>6, <3>2 DEF Return
    <3>4. line' = <<>>
      BY <3>3
    <3>5. Fresh'
      BY <2>1, <2>6, <3>1, <3>4, EmptyIsStarved DEF Arriving, Fresh, Quiet, Starved
    <3>6. CountIsTrue'
      BY <3>3 DEF CountIsTrue
    <3> QED
      BY <1>0, <3>5, <3>6 DEF Accounted
  <2> QED
    BY <1>3, <2>4, <2>5, <2>6 DEF LookForAnswer
<1> QED
  BY <1>1, <1>2, <1>3 DEF Look

\* fill reads on in a reply, or gives up once nothing more of it can come.
LEMMA FillAccounted ==
    ASSUME ScanTypeOK, NoGhost, Accounted, Fill,
           UNCHANGED <<busVars, scanVars>>
    PROVE  NoGhost' /\ CountIsTrue' /\ Accounted'
<1>0. NoGhost' /\ UNCHANGED <<outbox, step, addr>>
  BY DEF NoGhost, Found, scanVars, busVars
<1>1. at = "fill" /\ op # "none"
  BY DEF Fill, FillCtxEnded, FillTimedOut, FillBytes, FillConnFailed, ScanTypeOK
<1>2. Starved(buf)
  BY <1>1, FillIsStarved
<1>3. ASSUME NEW e, GiveUp(e), Fresh \/ Deaf
      PROVE  NoGhost' /\ CountIsTrue' /\ Accounted'
  <2>1. ret'.err # {} /\ UNCHANGED <<line, buf, conn, ctx>>
    BY <1>3 DEF GiveUp, Return, wrapFillErr
  <2> QED
    BY <1>0, <1>3, <2>1 DEF CountIsTrue, Fresh, Quiet, Deaf, Starved, Accounted
<1>4. CASE FillCtxEnded
  <2>1. ctx # "live" /\ GiveUp(ctx)
    BY <1>4 DEF FillCtxEnded, CtxErr, CtxErrors
  <2> QED
    BY <1>2, <1>3, <2>1 DEF Deaf
<1>5. CASE FillTimedOut
  <2>1. GiveUp("ErrReadTimeout") /\ (late \/ ctx = "past")
    BY <1>5 DEF FillTimedOut, Past
  <2>2. CASE ctx = "past"
    BY <1>2, <1>3, <2>1, <2>2 DEF Deaf
  <2>3. CASE late
    <3>1. Fresh \/ Deaf
      BY <1>2, <2>3 DEF Accounted, Waiting, Arriving, Fresh, Quiet
    <3> QED
      BY <1>3, <2>1, <3>1
  <2> QED
    BY <2>1, <2>2, <2>3
<1>6. CASE FillConnFailed
  <2>1. conn # "up" /\ line = <<>> /\ GiveUp(conn)
    BY <1>6 DEF FillConnFailed
  <2> QED
    BY <1>2, <1>3, <2>1 DEF Deaf
<1>7. ASSUME NEW c \in 1..Len(line), FillBytes(c)
      PROVE  NoGhost' /\ CountIsTrue' /\ Accounted'
  <2>1. line \in Seq(Byte) /\ Len(line) \in Nat
    BY LenProperties DEF ScanTypeOK, ClientTypeOK
  <2>2. line # <<>> /\ ctx = "live" /\ ~late
    <3>1. line # <<>>
      BY <1>7, <2>1, EmptySeq
    <3>2. ctx = "live"
      BY <1>7 DEF FillBytes, CtxErr, CtxErrors, Past, ScanTypeOK, ClientTypeOK
    <3> QED
      BY <1>7, <3>1, <3>2 DEF FillBytes, Past
  <2>3. Arriving
    BY <2>2 DEF Accounted, Fresh, Quiet, Deaf, Waiting
  <2>4. PICK n \in 0..Len(buf), m \in Msg : Reply(n, m)
    BY <2>3 DEF Arriving
  <2>5. \E k \in 0..Len(buf'), q \in Msg : Reply(k, q)'
    BY <1>7, <2>4, ReplyReads DEF ScanTypeOK
  <2>6. op' # "none" /\ at' = "look" /\ ~late'
    BY <1>1, <1>7, <2>2 DEF FillBytes
  <2> QED
    BY <1>0, <2>3, <2>5, <2>6 DEF Arriving, CountIsTrue, Accounted
<1> QED
  BY <1>4, <1>5, <1>6, <1>7 DEF Fill

\* A reply goes on the line, as it is or damaged.
LEMMA TransmitAccounted ==
    ASSUME ScanTypeOK, CleanInv, Transmit
    PROVE  CleanInv'
<1> SUFFICES ASSUME clean' PROVE NoGhost' /\ CountIsTrue' /\ Accounted'
  BY DEF CleanInv
<1>1. /\ UNCHANGED <<buf, conn, ctx, op, at, late, ret, step, addr, found, clean>>
      /\ conn = "up" /\ outbox # <<>> /\ outbox' = Tail(outbox)
  BY DEF Transmit, TransmitWhole, TransmitDamaged, Receive, scanVars
<1>2. NoGhost /\ CountIsTrue /\ Accounted
  BY <1>1 DEF CleanInv
<1>3. NoGhost' /\ CountIsTrue'
  BY <1>1, <1>2 DEF NoGhost, Found, CountIsTrue
<1>4. CASE Deaf
  BY <1>1, <1>3, <1>4 DEF Deaf, Starved, Accounted
<1>5. CASE Waiting
  <2>1. PICK m \in Msg : outbox = <<Bytes(m)>>
    BY <1>5 DEF Waiting
  <2>2. Head(outbox) = Bytes(m) /\ outbox' = <<>>
    BY <1>1, <2>1
  <2>3. PICK s \in Damaged(Bytes(m)) \cup {Bytes(m)} : Receive(s)
    BY <2>2 DEF Transmit, TransmitWhole, TransmitDamaged
  <2>4. Len(buf) \in 0..Len(buf') /\ Reply(Len(buf), m)'
    BY <1>1, <1>5, <2>3, DamagedLemma, ReplyArrives DEF ScanTypeOK, Waiting
  <2>5. Arriving'
    BY <1>1, <1>5, <2>2, <2>4 DEF Arriving, Waiting, Starved
  <2> QED
    BY <1>3, <2>5 DEF Accounted
<1> QED
  BY <1>1, <1>2, <1>4, <1>5 DEF Accounted, Fresh, Quiet, Arriving

\* A deadline that waits for the answer that is due leaves nothing of it behind;
\* an ended context or a transport that failed is not read from again.
LEMMA OutsideAccounted ==
    ASSUME Prompt, ScanTypeOK, CleanInv, Deadline \/ Cancel \/ Break
    PROVE  CleanInv'
<1> SUFFICES ASSUME clean' PROVE NoGhost' /\ CountIsTrue' /\ Accounted'
  BY DEF CleanInv
<1>1. UNCHANGED <<buf, op, at, ret, outbox, step, addr, found, clean>>
  BY DEF Deadline, BusDeadline, DeadlinePasses, Cancel, CtxEnds, Break, ConnFails,
         busVars, scanVars
<1>2. NoGhost /\ CountIsTrue /\ Accounted
  BY <1>1 DEF CleanInv
<1>3. NoGhost' /\ CountIsTrue'
  BY <1>1, <1>2 DEF NoGhost, Found, CountIsTrue
<1>4. CASE Deadline
  <2>1. Quiet /\ UNCHANGED <<line, conn, ctx>>
    BY <1>4 DEF Deadline, BusDeadline, DeadlinePasses
  <2>2. CASE Fresh \/ Deaf
    BY <1>1, <1>3, <2>1, <2>2 DEF Fresh, Quiet, Deaf, Starved, Accounted
  <2>3. ~Waiting
    BY <2>1 DEF Quiet, Waiting
  <2>4. CASE Arriving
    BY <1>1, <1>3, <2>1, <2>4 DEF Quiet, Arriving, Reply, Starved, Accounted
  <2> QED
    BY <1>2, <2>2, <2>3, <2>4 DEF Accounted
<1>5. CASE Cancel
  <2>1. ctx' # "live" /\ UNCHANGED <<line, conn, late>>
    BY <1>5 DEF Cancel, CtxEnds
  <2>2. CASE Fresh \/ Deaf \/ Waiting
    BY <1>1, <1>3, <2>1, <2>2 DEF Fresh, Quiet, Deaf, Waiting, Starved, Accounted
  <2>3. CASE Arriving
    BY <1>1, <1>3, <2>1, <2>3 DEF Arriving, Reply, Starved, Accounted
  <2> QED
    BY <1>2, <2>2, <2>3 DEF Accounted
<1>6. CASE Break
  <2>1. conn = "up" /\ line' \in {line, <<>>} /\ UNCHANGED <<ctx, late>>
    BY <1>6 DEF Break, ConnFails
  <2>2. CASE Fresh \/ Deaf \/ Waiting
    BY <1>1, <1>3, <2>1, <2>2 DEF Fresh, Quiet, Deaf, Waiting, Starved, Accounted
  <2>3. CASE Arriving
    <3>1. PICK n \in 0..Len(buf), m \in Msg : Reply(n, m)
      BY <2>3 DEF Arriving
    <3>2. Reply(n, m)'
      BY <1>1, <2>1, <3>1, ReplyBreaks DEF ScanTypeOK
    <3>3. late' => line' = <<>>
      BY <2>1, <2>3 DEF Arriving
    <3> QED
      BY <1>1, <1>3, <2>3, <3>2, <3>3 DEF Arriving, Starved, Accounted
  <2> QED
    BY <1>2, <2>2, <2>3 DEF Accounted
<1> QED
  BY <1>4, <1>5, <1>6

-----------------------------------------------------------------------------
(* The theorem                                                             *)

\* The sweep begins with nothing under way.
LEMMA InitClean == Init => CleanInv
<1> SUFFICES ASSUME Init PROVE CleanInv
  OBVIOUS
<1>1. Fresh
  BY EmptyIsStarved DEF Init, ClientInit, BusInit, Fresh, Quiet
<1>2. NoGhost /\ CountIsTrue
  BY DEF Init, NoGhost, Found, CountIsTrue
<1> QED
  BY <1>1, <1>2 DEF CleanInv, Accounted

\* Every step keeps the invariant.
LEMMA NextClean ==
    ASSUME Prompt, ScanTypeOK, CleanInv, [Next]_vars
    PROVE  CleanInv'
<1>1. CASE Read
  <2> SUFFICES ASSUME clean' PROVE NoGhost' /\ CountIsTrue' /\ Accounted'
    BY DEF CleanInv
  <2>1. /\ clean /\ UNCHANGED <<busVars, scanVars>> /\ (Look \/ Fill)
        /\ ret'.err \cap Malformed = {} \/ line' = <<>>
    BY <1>1 DEF Read, BusStep, ClientStep
  <2> QED
    BY <2>1, LookAccounted, FillAccounted DEF CleanInv
<1>2. CASE UNCHANGED vars
  BY <1>2 DEF vars, clientVars, busVars, scanVars, CleanInv, NoGhost, Found, CountIsTrue,
     Accounted, Fresh, Quiet, Deaf, Waiting, Arriving, Reply, Starved
<1> QED
  BY <1>1, <1>2, SendAccounted, CountAccounted, TransmitAccounted, OutsideAccounted
     DEF Next, Master

\* Where slaves answer within the deadline, ScanPrimary returns no address at which
\* there is no slave (scan.go 71-72), whatever is lost, damaged or left over from a
\* timeout, until a reply is refused before all of it was read.
THEOREM CleanScanIsTrue == Prompt => (Spec => []CleanScanHasNoGhost)
<1> SUFFICES ASSUME Prompt PROVE Spec => []CleanScanHasNoGhost
  OBVIOUS
<1>1. Init => ScanTypeOK /\ CleanInv
  BY InitScanType, InitClean
<1>2. ScanTypeOK /\ CleanInv /\ [Next]_vars => (ScanTypeOK /\ CleanInv)'
  BY NextScanType, NextClean
<1>3. CleanInv => CleanScanHasNoGhost
  BY DEF CleanInv, CleanScanHasNoGhost
<1> QED
  BY <1>1, <1>2, <1>3, PTL DEF Spec

-----------------------------------------------------------------------------
(* A sweep that no fault hit: what each probe gets to read, byte for byte, *)
(* and which addresses are already counted                                 *)

\* Frames are legal: their length field is three at least.
Legal == \A a \in Slaves : Size[a] >= MinSize

Sound == faults = 0 /\ conn = "up" /\ ctx = "live"

\* What the slave addressed answers.
ReplyOf ==
    IF step = "resetSent" THEN {m \in {Ack} : addr \in Slaves \ NoAck}
    ELSE IF addr \in AckOnly THEN {Ack}
    ELSE {addr} \cap Slaves

Idle == Quiet /\ buf = <<>>

Silent == Idle /\ ReplyOf = {}

Due ==
    /\ ~late
    /\ line = <<>> /\ buf = <<>>
    /\ \E m \in ReplyOf : outbox = <<Bytes(m)>>

Coming ==
    /\ outbox = <<>>
    /\ late => line = <<>>
    /\ at = "fill" => Starved(buf)
    /\ \E m \in ReplyOf : Split(m)

Heard == IF op = "none" THEN Idle ELSE Silent \/ Due \/ Coming

\* The answer to a request says whether there is a slave.
Told ==
    op = "none" /\ step = "requestSent" => (ret.err = {} <=> addr \in Slaves)

\* The slaves up to a have been found, in order.
Covers(a) ==
    /\ Found = Slaves \cap From..a
    /\ \A i, j \in 1..Len(found) : i < j => found[i] < found[j]

Swept ==
    /\ addr \in From..To
    /\ IF step = "over" THEN err = {} => Covers(To) ELSE Covers(addr - 1)

SoundInv ==
    /\ faults \in Nat
    /\ Sound => Heard /\ Told /\ Swept

\* What the slave addressed answers is an answer.
LEMMA ReplyIsMsg ==
    ASSUME NEW m \in ReplyOf
    PROVE  m \in Msg /\ (Legal /\ m # Ack => Size[m] >= MinSize)
  BY ScanPrimaryAssumption DEF ReplyOf, Legal

\* A request has an answer where there is a slave.
LEMMA RequestReply ==
    ASSUME step = "requestSent"
    PROVE  ReplyOf = {} <=> addr \notin Slaves
  BY ScanPrimaryAssumption DEF ReplyOf

-----------------------------------------------------------------------------
(* The steps                                                               *)

\* The sweep begins with no address counted.
LEMMA InitSound == Init => SoundInv
<1> SUFFICES ASSUME Init PROVE SoundInv
  OBVIOUS
<1>1. faults = 0 /\ Heard /\ Told
  BY DEF Init, BusInit, ClientInit, Heard, Idle, Quiet, Told
<1>2. From \in Nat /\ To \in Nat /\ From <= To
  BY ScanPrimaryAssumption DEF validRange, minPrimaryID, maxPrimaryID
<1>3. Covers(addr - 1)
  <2>1. found = <<>> /\ Len(found) = 0 /\ addr = From
    BY EmptySeq DEF Init
  <2> QED
    BY <1>2, <2>1 DEF Covers, Found
<1> QED
  BY <1>1, <1>2, <1>3 DEF Init, SoundInv, Swept

\* The slave addressed, and no other, has an answer due.
LEMMA SendSound ==
    ASSUME ScanTypeOK, SoundInv, SendReset \/ SendRequest
    PROVE  SoundInv'
<1>1. faults' \in Nat /\ (faults' = 0 => faults = 0 /\ ~Fault)
  BY DEF SendReset, SendRequest, Fault, SoundInv, AnswerReset, AnswerRequest, Answer, Call
<1> SUFFICES ASSUME Sound' PROVE Heard' /\ Told' /\ Swept'
  BY <1>1 DEF SoundInv
<1>2. /\ op = "none" /\ op' = "probeSilence" /\ ~late' /\ at' = "look"
      /\ UNCHANGED <<line, buf, conn, ctx, addr, found, err>>
      /\ step # "over" /\ step' # "over"
  BY DEF SendReset, SendRequest, Call, At
<1>3. Sound /\ ~Fault
  BY <1>1, <1>2 DEF Sound
<1>4. Idle /\ Swept
  BY <1>2, <1>3 DEF SoundInv, Heard
<1>5. Told' /\ Swept'
  BY <1>2, <1>4 DEF Told, Swept, Covers, Found
<1>6. \/ outbox' = outbox /\ ReplyOf' = {}
      \/ \E m \in ReplyOf' : outbox' = Append(outbox, Bytes(m))
  <2>1. CASE SendReset
    BY <1>2, <1>3, <2>1 DEF SendReset, AnswerReset, Answer, ReplyOf
  <2>2. CASE SendRequest
    <3>1. step' = "requestSent" /\ AnswerRequest(addr)
      BY <1>3, <2>2 DEF SendRequest
    <3> QED
      BY <1>2, <3>1 DEF AnswerRequest, Answer, ReplyOf
  <2> QED
    BY <2>1, <2>2
<1>7. CASE outbox' = outbox /\ ReplyOf' = {}
  BY <1>2, <1>4, <1>5, <1>7 DEF Idle, Quiet, Silent, Heard
<1>8. ASSUME NEW m \in ReplyOf', outbox' = Append(outbox, Bytes(m))
      PROVE  Due'
  <2>1. outbox' = <<Bytes(m)>>
    BY <1>4, <1>8 DEF Idle, Quiet
  <2> QED
    BY <1>2, <1>4, <2>1 DEF Idle, Quiet, Due
<1> QED
  BY <1>2, <1>5, <1>6, <1>7, <1>8 DEF Heard

\* The slave that has answered is counted, the address that has not is passed by.
LEMMA CountSound ==
    ASSUME ScanTypeOK, SoundInv, ResetAnswered \/ Counted \/ WriteRefused \/ ProbeFailed
    PROVE  SoundInv'
<1>1. op = "none" /\ UNCHANGED <<clientVars, busVars>> /\ step # "over"
  BY DEF ResetAnswered, Counted, WriteRefused, ProbeFailed, Abort, At
<1>2. faults' \in Nat
  BY <1>1 DEF SoundInv, busVars
<1> SUFFICES ASSUME Sound' PROVE Heard' /\ Told' /\ Swept'
  BY <1>2 DEF SoundInv
<1>3. Sound /\ Idle /\ Told /\ Swept
  BY <1>1 DEF Sound, SoundInv, Heard, clientVars, busVars
<1>4. Heard' /\ step' # "requestSent"
  BY <1>1, <1>3 DEF Heard, Idle, Quiet, clientVars, busVars,
     ResetAnswered, Counted, WriteRefused, ProbeFailed, Abort
<1>5. Told'
  BY <1>4 DEF Told
<1>6. From \in Nat /\ To \in Nat /\ From <= To /\ addr \in From..To /\ addr \in Nat
  BY <1>3, ScanPrimaryAssumption DEF validRange, minPrimaryID, maxPrimaryID, Swept, ScanTypeOK
<1>7. CASE ResetAnswered
  BY <1>1, <1>3, <1>4, <1>5, <1>7 DEF ResetAnswered, Swept, Covers, Found
<1>8. CASE WriteRefused
  BY <1>3, <1>8 DEF WriteRefused, MayRefuse, CtxErr, CtxErrors, Sound
<1>9. CASE ProbeFailed
  <2>1. err' # {} /\ step' = "over" /\ addr' = addr
    BY <1>9 DEF ProbeFailed, Abort
  <2> QED
    BY <1>3, <1>4, <1>5, <2>1 DEF Swept
<1>10. CASE Counted
  <2>1. /\ step = "requestSent" /\ (ret.err = {} <=> addr \in Slaves)
        /\ Covers(addr - 1) /\ UNCHANGED err
    BY <1>1, <1>3, <1>10 DEF Counted, At, Told, Swept
  <2>2. /\ Found' = Slaves \cap From..addr
        /\ \A i, j \in 1..Len(found') : i < j => found'[i] < found'[j]
    <3>1. From..(addr - 1) \cup {addr} = From..addr /\ addr \notin From..(addr - 1)
      BY <1>6
    <3>2. CASE addr \notin Slaves
      <4>1. found' = found
        BY <1>10, <2>1, <3>2 DEF Counted
      <4>2. Slaves \cap From..(addr - 1) = Slaves \cap From..addr
        BY <3>1, <3>2
      <4> QED
        BY <2>1, <4>1, <4>2 DEF Covers, Found
    <3>3. CASE addr \in Slaves
      <4>1. found' = Append(found, addr)
        BY <1>10, <2>1, <3>3 DEF Counted
      <4>2. /\ Len(found) \in Nat /\ Len(found') = Len(found) + 1
            /\ \A i \in 1..Len(found) : found'[i] = found[i]
            /\ found'[Len(found) + 1] = addr
        BY <4>1, AppendProperties, LenProperties DEF ScanTypeOK
      <4>3. \A i \in 1..Len(found) : found[i] \in Found
        BY DEF Found
      <4>4. \A i \in 1..Len(found) : found[i] \in From..(addr - 1)
        BY <2>1, <4>3 DEF Covers
      <4>5. Found' = Found \cup {addr}
        <5>1. ASSUME NEW x \in Found' PROVE x \in Found \cup {addr}
          <6>1. PICK i \in 1..Len(found') : x = found'[i]
            BY <5>1 DEF Found
          <6>2. CASE i \in 1..Len(found)
            BY <4>2, <4>3, <6>1, <6>2
          <6>3. CASE i = Len(found) + 1
            BY <4>2, <6>1, <6>3
          <6> QED
            BY <4>2, <6>2, <6>3
        <5>2. ASSUME NEW x \in Found PROVE x \in Found'
          <6>1. PICK i \in 1..Len(found) : x = found[i]
            BY <5>2 DEF Found
          <6>2. i \in 1..Len(found') /\ x = found'[i]
            BY <4>2, <6>1
          <6> QED
            BY <6>2 DEF Found
        <5>3. addr \in Found'
          <6>1. Len(found) + 1 \in 1..Len(found')
            BY <4>2
          <6> QED
            BY <4>2, <6>1 DEF Found
        <5> QED
          BY <5>1, <5>2, <5>3
      <4>6. Found' = Slaves \cap From..addr
        BY <2>1, <3>1, <3>3, <4>5 DEF Covers
      <4>7. ASSUME NEW i \in 1..Len(found'), NEW j \in 1..Len(found'), i < j
            PROVE  found'[i] < found'[j]
        <5>1. i \in 1..Len(found) /\ found'[i] = found[i]
          BY <4>2, <4>7
        <5>2. CASE j \in 1..Len(found)
          BY <2>1, <4>2, <4>7, <5>1, <5>2 DEF Covers
        <5>3. CASE j = Len(found) + 1
          BY <1>6, <4>2, <4>4, <5>1, <5>3
        <5> QED
          BY <4>2, <5>2, <5>3
      <4> QED
        BY <4>6, <4>7
    <3> QED
      BY <3>2, <3>3
  <2>3. CASE addr = To
    <3>1. step' = "over" /\ addr' = addr
      BY <1>10, <2>3 DEF Counted
    <3>2. Covers(To)'
      BY <2>2, <2>3 DEF Covers
    <3> QED
      BY <1>3, <1>4, <1>5, <3>1, <3>2 DEF Swept
  <2>4. CASE addr # To
    <3>1. step' = "reset" /\ addr' = addr + 1
      BY <1>10, <2>4 DEF Counted
    <3>2. addr' - 1 = addr /\ addr' \in From..To
      BY <1>6, <2>4, <3>1
    <3>3. Covers(addr - 1)'
      BY <2>2, <3>2 DEF Covers
    <3> QED
      BY <1>4, <1>5, <3>1, <3>2, <3>3 DEF Swept
  <2> QED
    BY <2>3, <2>4
<1> QED
  BY <1>7, <1>8, <1>9, <1>10

\* A probe's loops return the answer once all of it is there, and refuse nothing.
LEMMA LookSound ==
    ASSUME Legal, ScanTypeOK, Heard, Told, Swept, Look, UNCHANGED <<busVars, scanVars>>
    PROVE  Heard' /\ Told' /\ Swept'
<1>0. Swept' /\ ReplyOf' = ReplyOf /\ UNCHANGED <<outbox, addr, step>>
  BY DEF Swept, Covers, Found, ReplyOf, scanVars, busVars
<1>1. CASE LookForLongFrame \/ LookForSingleChar
  BY <1>1 DEF LookForLongFrame, LookForSingleChar, ScanTypeOK, Probing
<1>2. CASE LookForFirstByte
  <2>1. /\ UNCHANGED <<line, buf>> /\ op # "none" /\ op' # "none"
        /\ late' => late
        /\ at' = "fill" => buf = <<>>
    BY <1>2 DEF LookForFirstByte, GoFill
  <2>2. Told'
    BY <2>1 DEF Told
  <2>3. at' = "fill" => Starved(buf')
    BY <2>1, EmptyIsStarved
  <2> QED
    BY <1>0, <2>1, <2>2, <2>3 DEF Heard, Idle, Quiet, Silent, Due, Coming, Split, Starved
<1>3. CASE LookForAnswer
  <2> DEFINE p == takeBufferedFrame(buf)
  <2>1. op # "none" /\ UNCHANGED line
    BY <1>3 DEF LookForAnswer
  <2>2. /\ \A k : Parsed(k).err = {} /\ Parsed(k).msg = k
        /\ Failed("errNeedMore").err = NeedMore
        /\ NeedMore # {}
    BY DEF Parsed, Failed, NeedMore
  <2>3. CASE Silent \/ Due
    <3>1. buf = <<>>
      BY <2>3 DEF Silent, Idle, Due
    <3>2. p.err = NeedMore
      BY <3>1, EmptyIsStarved DEF Starved
    <3>3. GoFill /\ UNCHANGED buf
      BY <1>3, <2>2, <3>2 DEF LookForAnswer
    <3> QED
      BY <1>0, <2>1, <2>3, <3>3 DEF GoFill, Heard, Idle, Quiet, Silent, Due, Told
  <2>4. ASSUME Coming, NEW m \in ReplyOf, Split(m)
        PROVE  Heard' /\ Told' /\ Swept'
    <3>0. m \in Msg /\ (m # Ack => Size[m] >= MinSize)
      BY <2>4, ReplyIsMsg
    <3>1. CASE p = Failed("errNeedMore")
      <4>1. GoFill /\ UNCHANGED buf /\ Starved(buf)
        BY <1>3, <2>2, <3>1 DEF LookForAnswer, Starved
      <4> QED
        BY <1>0, <2>1, <2>4, <4>1 DEF GoFill, Heard, Coming, Split, Starved, Told
    <3>2. CASE p = Parsed(m) /\ Len(buf) = Size[m] /\ line = <<>>
      <4>1. buf' = Drop(buf, Len(buf)) /\ Return({}, m)
        BY <1>3, <2>2, <3>2 DEF LookForAnswer
      <4>2. buf' = <<>>
        <5>1. buf \in Seq(Byte)
          BY DEF ScanTypeOK, ClientTypeOK
        <5> QED
          BY <4>1, <5>1, DropAll
      <4>3. Idle' /\ op' = "none" /\ ret'.err = {}
        BY <1>0, <2>1, <2>4, <3>2, <4>1, <4>2 DEF Coming, Idle, Quiet, Return
      <4>4. step = "requestSent" => addr \in Slaves
        BY <2>4, RequestReply
      <4> QED
        BY <1>0, <4>3, <4>4 DEF Heard, Told
    <3> QED
      BY <2>4, <3>0, <3>1, <3>2, SplitTake DEF ScanTypeOK
  <2> QED
    BY <2>1, <2>3, <2>4 DEF Heard, Coming
<1> QED
  BY <1>1, <1>2, <1>3 DEF Look

\* fill gives up only where there is no answer to come.
LEMMA FillSound ==
    ASSUME Legal, ScanTypeOK, Sound, Heard, Told, Swept, Fill,
           UNCHANGED <<busVars, scanVars>>
    PROVE  Heard' /\ Told' /\ Swept'
<1>0. Swept' /\ ReplyOf' = ReplyOf /\ UNCHANGED <<outbox, addr, step>>
  BY DEF Swept, Covers, Found, ReplyOf, scanVars, busVars
<1>1. at = "fill" /\ op # "none"
  BY DEF Fill, FillCtxEnded, FillTimedOut, FillBytes, FillConnFailed, ScanTypeOK
<1>2. /\ buf \in Seq(Byte) /\ Len(buf) \in Nat
      /\ line \in Seq(Byte) /\ Len(line) \in Nat
  BY LenProperties DEF ScanTypeOK, ClientTypeOK
<1>3. ~FillCtxEnded /\ ~FillConnFailed
  BY DEF Sound, FillCtxEnded, CtxErr, CtxErrors, FillConnFailed
<1>4. CASE FillTimedOut
  <2>1. late /\ GiveUp("ErrReadTimeout")
    BY <1>4 DEF FillTimedOut, Past, Sound
  <2>2. ~Coming
    <3> SUFFICES ASSUME Coming PROVE FALSE
      OBVIOUS
    <3>1. PICK m \in ReplyOf : Split(m)
      BY DEF Coming
    <3>2. line = <<>> /\ Starved(buf)
      BY <1>1, <2>1 DEF Coming
    <3>3. m \in Msg /\ (m # Ack => Size[m] >= MinSize)
      BY <3>1, ReplyIsMsg
    <3>4. takeBufferedFrame(buf) = Parsed(m)
      BY <3>1, <3>2, <3>3, SplitTake DEF ScanTypeOK
    <3>5. Parsed(m).err = {} /\ NeedMore # {}
      BY DEF Parsed, NeedMore
    <3> QED
      BY <3>2, <3>4, <3>5 DEF Starved
  <2>3. Silent
    BY <1>1, <2>1, <2>2 DEF Heard, Due
  <2>4. ret'.err # {} /\ op' = "none" /\ UNCHANGED <<line, buf>>
    BY <2>1 DEF GiveUp, Return, wrapFillErr
  <2>5. step = "requestSent" => addr \notin Slaves
    BY <2>3, RequestReply DEF Silent
  <2> QED
    BY <1>0, <2>3, <2>4, <2>5 DEF Silent, Idle, Quiet, Heard, Told
<1>5. ASSUME NEW c \in 1..Len(line), FillBytes(c)
      PROVE  Heard' /\ Told' /\ Swept'
  <2>1. Len(line) # 0 /\ line # <<>>
    BY <1>2, EmptySeq
  <2>2. Coming
    BY <1>1, <2>1 DEF Heard, Silent, Idle, Quiet, Due
  <2>3. PICK m \in ReplyOf : Split(m)
    BY <2>2 DEF Coming
  <2>4. Split(m)'
    BY <1>5, <2>3, ReplyIsMsg, SplitReads DEF ScanTypeOK
  <2>5. op' # "none" /\ at' = "look" /\ ~late'
    BY <1>1, <1>5 DEF FillBytes, Past
  <2> QED
    BY <1>0, <2>2, <2>3, <2>4, <2>5 DEF Coming, Heard, Told
<1> QED
  BY <1>3, <1>4, <1>5 DEF Fill

\* The answer goes on the line as it is.
LEMMA TransmitSound ==
    ASSUME ScanTypeOK, SoundInv, Transmit
    PROVE  SoundInv'
<1>1. /\ UNCHANGED <<buf, conn, ctx, op, at, late, ret, step, addr, found, err>>
      /\ outbox # <<>> /\ outbox' = Tail(outbox)
  BY DEF Transmit, TransmitWhole, TransmitDamaged, Receive, scanVars
<1>2. faults' \in Nat /\ (faults' = 0 => faults = 0 /\ TransmitWhole)
  BY DEF Transmit, TransmitWhole, TransmitDamaged, Fault, SoundInv
<1> SUFFICES ASSUME Sound' PROVE Heard' /\ Told' /\ Swept'
  BY <1>2 DEF SoundInv
<1>3. Sound /\ TransmitWhole
  BY <1>1, <1>2 DEF Sound
<1>4. Heard /\ Told /\ Swept
  BY <1>3 DEF SoundInv
<1>5. Told' /\ Swept' /\ ReplyOf' = ReplyOf
  BY <1>1, <1>4 DEF Told, Swept, Covers, Found, ReplyOf
<1>6. op # "none" /\ Due
  BY <1>1, <1>4 DEF Heard, Silent, Idle, Quiet, Coming
<1>7. PICK m \in ReplyOf : outbox = <<Bytes(m)>>
  BY <1>6 DEF Due
<1>8. Head(outbox) = Bytes(m) /\ outbox' = <<>>
  BY <1>1, <1>7
<1>9. Split(m)' /\ buf' = <<>>
  BY <1>1, <1>3, <1>6, <1>7, <1>8, ReplyIsMsg, SplitArrives DEF Due, TransmitWhole
<1>10. Coming'
  <2>1. Starved(buf')
    BY <1>9, EmptyIsStarved
  <2> QED
    BY <1>1, <1>5, <1>6, <1>7, <1>8, <1>9, <2>1 DEF Coming, Due, Starved
<1> QED
  BY <1>1, <1>5, <1>6, <1>10 DEF Heard

\* No deadline passes before the answer that is due.
LEMMA OutsideSound ==
    ASSUME Prompt, ScanTypeOK, SoundInv, Deadline \/ Cancel \/ Break
    PROVE  SoundInv'
<1>1. UNCHANGED <<buf, op, at, ret, outbox, faults, step, addr, found, err>>
  BY DEF Deadline, BusDeadline, DeadlinePasses, Cancel, CtxEnds, Break, ConnFails,
         busVars, scanVars
<1> SUFFICES ASSUME Sound' PROVE Heard' /\ Told' /\ Swept'
  BY <1>1 DEF SoundInv
<1>2. Deadline
  BY DEF Cancel, CtxEnds, Break, ConnFails, Sound, ConnErrors
<1>3. Quiet /\ UNCHANGED <<line, conn, ctx>>
  BY <1>2 DEF Deadline, BusDeadline, DeadlinePasses
<1>4. Heard /\ Told /\ Swept
  BY <1>1, <1>3 DEF Sound, SoundInv
<1>5. Told' /\ Swept' /\ ReplyOf' = ReplyOf
  BY <1>1, <1>4 DEF Told, Swept, Covers, Found, ReplyOf
<1>6. ~Due
  BY <1>3 DEF Quiet, Due
<1> QED
  BY <1>1, <1>3, <1>4, <1>5, <1>6
     DEF Heard, Idle, Quiet, Silent, Coming, Split, Starved

-----------------------------------------------------------------------------
(* The theorem                                                             *)

\* Every step keeps the invariant.
LEMMA NextSound ==
    ASSUME Prompt, Legal, ScanTypeOK, SoundInv, [Next]_vars
    PROVE  SoundInv'
<1>1. CASE Read
  <2>1. UNCHANGED <<busVars, scanVars>> /\ (Look \/ Fill)
    BY <1>1 DEF Read, BusStep, ClientStep
  <2>2. faults' = faults /\ UNCHANGED <<conn, ctx>>
    BY <2>1 DEF busVars, Look, LookForLongFrame, LookForSingleChar, LookForFirstByte,
       LookForAnswer, Fill, FillCtxEnded, FillTimedOut, FillBytes, FillConnFailed, GiveUp
  <2> QED
    BY <2>1, <2>2, LookSound, FillSound DEF SoundInv, Sound
<1>2. CASE UNCHANGED vars
  BY <1>2 DEF vars, clientVars, busVars, scanVars, SoundInv, Sound, Heard, Told, Swept,
     Covers, Found, Idle, Quiet, Silent, Due, Coming, Split, Starved, ReplyOf
<1> QED
  BY <1>1, <1>2, SendSound, CountSound, TransmitSound, OutsideSound DEF Next, Master

\* Where slaves answer within the deadline and their frames are legal, a sweep that no
\* fault hit and no context or transport cut short returns exactly the addresses of
\* the slaves in its range, in ascending order (scan.go 71-75).
THEOREM SoundScanFindsAll == Prompt /\ Legal => (Spec => []SoundScanIsExact)
<1> SUFFICES ASSUME Prompt, Legal PROVE Spec => []SoundScanIsExact
  OBVIOUS
<1>1. Init => ScanTypeOK /\ SoundInv
  BY InitScanType, InitSound
<1>2. ScanTypeOK /\ SoundInv /\ [Next]_vars => (ScanTypeOK /\ SoundInv)'
  BY NextScanType, NextSound
<1>3. SoundInv => SoundScanIsExact
  BY DEF SoundInv, SoundScanIsExact, Sound, Swept, Covers
<1> QED
  BY <1>1, <1>2, <1>3, PTL DEF Spec

=============================================================================
