------------------------------- MODULE Client -------------------------------
(***************************************************************************)
(* The M-Bus master's side of one transport: the Client's buffer of bytes  *)
(* read and not yet consumed, and the three calls that consume them        *)
(* (ReadLongFrame, ReadSingleCharFrame, probeResponse).  The module is a   *)
(* component: it has the client's state and its steps, one per turn of the *)
(* calls' read loops, and the ways the transport and the context can       *)
(* change under a call.  Who calls what, and what is sent, is said by the  *)
(* modules that compose it (Stream, ReadAllFrames, ScanPrimary, ...).      *)
(*                                                                         *)
(* A byte is named by the answer it was sent as a part of and its place in *)
(* it, <<m, i>>; Junk is a byte that line noise made.  An error is the set *)
(* of sentinels errors.Is finds in it, and {} is success.                  *)
(***************************************************************************)
EXTENDS Integers, Sequences

CONSTANTS
    Msg,        \* what a slave can answer: long frames, and the E5h character
    Ack,        \* the E5h character among them
    Size,       \* Size[m]: the bytes of m on the wire
    HeadLen,    \* bytes of a long frame's start sequence, 68 L L 68
    MinSize,    \* bytes of the shortest legal long frame, L = 3
    ChunkSize,  \* bytes one transport Read returns at most
    Junk,       \* a byte that is part of no answer
    E5Bytes,    \* bytes inside long frames whose value happens to be E5h
    NoMsg       \* no frame

LongMsg == Msg \ {Ack}

\* The bytes of answers.
Wire == UNION {{<<m, i>> : i \in 1..Size[m]} : m \in Msg}

ASSUME ClientAssumption ==
    /\ Ack \in Msg
    /\ NoMsg \notin Msg
    /\ HeadLen \in Nat \ {0}
    /\ MinSize \in Nat
    /\ ChunkSize \in Nat \ {0}
    /\ Size \in [Msg -> Nat]
    /\ Size[Ack] = 1
    /\ \A m \in LongMsg : Size[m] > HeadLen
    /\ Junk \notin Wire
    /\ \A b \in E5Bytes : \E m \in LongMsg : \E i \in HeadLen + 1..Size[m] : b = <<m, i>>

VARIABLES
    line,   \* bytes sent to the master that no Read has returned yet
    buf,    \* Client.buf
    conn,   \* the transport: "up", or the error every Read returns from now on
    ctx,    \* the caller's context: see CtxErr and Past
    op,     \* the call in progress
    at,     \* where in its read loop: looking at buf, or in fill
    late,   \* the call's own deadline has passed
    ret     \* what the last call returned

clientVars == <<line, buf, conn, ctx, op, at, late, ret>>

-----------------------------------------------------------------------------
(* Bytes and frames                                                        *)

Byte == {Junk} \cup Wire

Bytes(m) == [i \in 1..Size[m] |-> <<m, i>>]

\* A byte equal to SingleCharacterFrame.
IsE5(b) == b = <<Ack, 1>> \/ b \in E5Bytes

\* client.consume: drop the first n bytes, keep the rest for the next read.
Drop(s, n) == SubSeq(s, n + 1, Len(s))

StartsFrame(b, m) == \A i \in 1..HeadLen : b[i] = <<m, i>>

Parsed(m) == [err |-> {}, msg |-> m]
Failed(e) == [err |-> {e}, msg |-> NoMsg]

\* Mutant: neither the stop byte nor the checksum is looked at.
ParseBodyUnchecked(b, m) ==
    IF Len(b) < Size[m] THEN Failed("errNeedMore") ELSE Parsed(m)

\* The long frame at the head of b, of which the start sequence is there.
ParseBody(b, m) ==
    IF Size[m] < MinSize THEN Failed("ErrInvalidFrame")
    ELSE IF Len(b) < Size[m] THEN Failed("errNeedMore")
    ELSE IF b[Size[m]] # <<m, Size[m]>> THEN Failed("ErrInvalidFrame")
    ELSE IF \E i \in 1..Size[m] : b[i] # <<m, i>> THEN Failed("ErrChecksumMismatch")
    ELSE Parsed(m)

\* Mutant: a start sequence cut by the end of a Read is no start sequence.
parseLongFrameImpatient(b) ==
    IF b = <<>> THEN Failed("errNeedMore")
    ELSE IF Len(b) >= HeadLen /\ \E m \in LongMsg : StartsFrame(b, m)
    THEN ParseBody(b, CHOOSE m \in LongMsg : StartsFrame(b, m))
    ELSE Failed("ErrNoLongFrameFound")

parseLongFrame(b) ==
    IF Len(b) < HeadLen THEN Failed("errNeedMore")
    ELSE IF \E m \in LongMsg : StartsFrame(b, m)
    THEN ParseBody(b, CHOOSE m \in LongMsg : StartsFrame(b, m))
    ELSE Failed("ErrNoLongFrameFound")

\* takeBufferedFrame: the same, and an E5h at the head is a frame of its own.
takeBufferedFrame(b) ==
    IF b = <<>> THEN Failed("errNeedMore")
    ELSE IF IsE5(b[1]) THEN Parsed(Ack)
    ELSE parseLongFrame(b)

NeedMore == {"errNeedMore"}

-----------------------------------------------------------------------------
(* Errors                                                                  *)

Malformed == {"ErrNoLongFrameFound", "ErrInvalidFrame", "ErrChecksumMismatch"}
CtxErrors == {"Canceled", "DeadlineExceeded"}
ConnErrors == {"EOF", "Broken"}

\* wrapFillErr: a transport failure with bytes buffered also reads as
\* ErrNoLongFrameFound; a timeout or a context error reads as itself.
wrapFillErr(e) ==
    IF e \in CtxErrors \cup {"ErrReadTimeout"} \/ buf = <<>>
    THEN {e}
    ELSE {"ErrNoLongFrameFound", e}

\* isBusNoise: "nothing usable came back", as opposed to "the scan must end".
isBusNoise(err) ==
    /\ err \cap (CtxErrors \cup {"EOF"}) = {}
    /\ err \cap (Malformed \cup {"ErrReadTimeout", "ErrUnsupportedCI"}) # {}

\* ctx is "live"; or "past": its deadline has come but its timer has not run,
\* so that ctx.Err() is still nil; or the error ctx.Err() returns.
CtxErr == ctx \in CtxErrors

\* !time.Now().Before(deadline): deadline is the call's own (late) or, when it
\* is earlier, that of the context (frameDeadline).
Past == late \/ ctx = "past"

-----------------------------------------------------------------------------
(* Calls                                                                   *)

\* probeResponse waits for a first byte ("probeSilence"), then for the frame.
Ops == {"ReadLongFrame", "ReadSingleCharFrame", "probeSilence", "probeResponse"}

Results ==
    [op : Ops \cup {"none"},
     err : SUBSET (Malformed \cup CtxErrors \cup ConnErrors \cup {"ErrReadTimeout"}),
     msg : Msg \cup {NoMsg}]

ClientTypeOK ==
    /\ line \in Seq(Byte)
    /\ buf \in Seq(Byte)
    /\ conn \in {"up"} \cup ConnErrors
    /\ ctx \in {"live", "past"} \cup CtxErrors
    /\ op \in Ops \cup {"none"}
    /\ at \in {"look", "fill"}
    /\ late \in BOOLEAN
    /\ ret \in Results

NoResult == [op |-> "none", err |-> {}, msg |-> NoMsg]

ClientInit ==
    /\ line = <<>>
    /\ buf = <<>>
    /\ conn = "up"
    /\ ctx = "live"
    /\ op = "none"
    /\ at = "look"
    /\ late = FALSE
    /\ ret = NoResult

\* The first step of a call: its deadline is set.  The caller says what its
\* context is.
Call(o) ==
    /\ op = "none"
    /\ op' = o
    /\ at' = "look"
    /\ late' = FALSE
    /\ ret' = NoResult
    /\ UNCHANGED <<line, buf, conn>>

Return(e, m) ==
    /\ ret' = [op |-> op, err |-> e, msg |-> m]
    /\ op' = "none"
    /\ at' = "look"
    /\ late' = FALSE

GoFill ==
    /\ at' = "fill"
    /\ UNCHANGED <<op, late, ret>>

\* Mutant: what a Read brought along behind the frame is dropped with it.
LookForLongFrameDropsAll ==
    /\ op = "ReadLongFrame" /\ at = "look"
    /\ LET p == parseLongFrame(buf) IN
          \/ /\ p.err = {}
             /\ buf' = <<>>
             /\ Return(p.err, p.msg)
          \/ /\ p.err = NeedMore
             /\ GoFill
             /\ UNCHANGED buf
    /\ UNCHANGED <<line, conn, ctx>>

\* Mutant: an incomplete frame is returned as the error it is inside the package.
LookForLongFrameLeaks ==
    /\ op = "ReadLongFrame" /\ at = "look"
    /\ LET p == parseLongFrame(buf) IN
          IF p.err = NeedMore /\ buf = <<>>
          THEN GoFill /\ UNCHANGED buf
          ELSE Return(p.err, p.msg) /\ UNCHANGED buf
    /\ UNCHANGED <<line, conn, ctx>>

\* A turn of ReadLongFrame's loop: a parse error leaves the bytes in buf.
LookForLongFrame ==
    /\ op = "ReadLongFrame" /\ at = "look"
    /\ LET p == parseLongFrame(buf) IN
          \/ /\ p.err = {}
             /\ buf' = Drop(buf, Size[p.msg])
             /\ Return(p.err, p.msg)
          \/ /\ p.err = NeedMore
             /\ GoFill
             /\ UNCHANGED buf
          \/ /\ p.err \notin {{}, NeedMore}
             /\ Return(p.err, NoMsg)
             /\ UNCHANGED buf
    /\ UNCHANGED <<line, conn, ctx>>

\* bytes.IndexByte(c.buf, SingleCharacterFrame)
FirstE5(b, i) ==
    /\ i \in 1..Len(b)
    /\ IsE5(b[i])
    /\ \A j \in 1..(i - 1) : ~IsE5(b[j])

\* Mutant: everything buffered goes with the E5h.
LookForSingleCharDropsAll ==
    /\ op = "ReadSingleCharFrame" /\ at = "look"
    /\ buf' = <<>>
    /\ \/ (\E i \in 1..Len(buf) : FirstE5(buf, i)) /\ Return({}, Ack)
       \/ (\A i \in 1..Len(buf) : ~IsE5(buf[i])) /\ GoFill
    /\ UNCHANGED <<line, conn, ctx>>

\* Mutant: bytes that are no E5h stay in the way.
LookForSingleCharAtHead ==
    /\ op = "ReadSingleCharFrame" /\ at = "look"
    /\ \/ /\ buf # <<>> /\ IsE5(buf[1])
          /\ buf' = Drop(buf, 1)
          /\ Return({}, Ack)
       \/ /\ ~(buf # <<>> /\ IsE5(buf[1]))
          /\ GoFill
          /\ UNCHANGED buf
    /\ UNCHANGED <<line, conn, ctx>>

\* A turn of ReadSingleCharFrame's loop: take the first E5h and what precedes
\* it, or drop everything and read on.
LookForSingleChar ==
    /\ op = "ReadSingleCharFrame" /\ at = "look"
    /\ \/ \E i \in 1..Len(buf) :
             /\ FirstE5(buf, i)
             /\ buf' = Drop(buf, i)
             /\ Return({}, Ack)
       \/ /\ \A i \in 1..Len(buf) : ~IsE5(buf[i])
          /\ buf' = <<>>
          /\ GoFill
    /\ UNCHANGED <<line, conn, ctx>>

\* probeResponse's first loop: until a byte is buffered.  Then the frame gets a
\* deadline of its own.
LookForFirstByte ==
    /\ op = "probeSilence" /\ at = "look"
    /\ \/ /\ buf = <<>>
          /\ GoFill
       \/ /\ buf # <<>>
          /\ op' = "probeResponse"
          /\ late' = FALSE
          /\ UNCHANGED <<at, ret>>
    /\ UNCHANGED <<line, buf, conn, ctx>>

\* A turn of probeResponse's second loop: bytes that are no frame are dropped.
LookForAnswer ==
    /\ op = "probeResponse" /\ at = "look"
    /\ LET p == takeBufferedFrame(buf) IN
          \/ /\ p.err = {}
             /\ buf' = Drop(buf, Size[p.msg])
             /\ Return(p.err, p.msg)
          \/ /\ p.err = NeedMore
             /\ GoFill
             /\ UNCHANGED buf
          \/ /\ p.err \notin {{}, NeedMore}
             /\ buf' = <<>>
             /\ Return(p.err, NoMsg)
    /\ UNCHANGED <<line, conn, ctx>>

Look == LookForLongFrame \/ LookForSingleChar \/ LookForFirstByte \/ LookForAnswer

\* fill gives up.  ReadSingleCharFrame passes its error on without wrapFillErr;
\* whatever is buffered stays.
GiveUp(e) ==
    /\ Return(IF op = "ReadSingleCharFrame" THEN {e} ELSE wrapFillErr(e), NoMsg)
    /\ UNCHANGED <<line, buf, conn, ctx>>

FillCtxEnded ==
    /\ at = "fill"
    /\ CtxErr
    /\ GiveUp(ctx)

\* Mutant: one silent poll counts as the deadline.
FillTimedOutEarly ==
    /\ at = "fill"
    /\ ~CtxErr
    /\ GiveUp("ErrReadTimeout")

\* Mutant: the deadline is not looked at once a byte has come.
FillTimedOutIfEmpty ==
    /\ at = "fill"
    /\ ~CtxErr /\ Past /\ buf = <<>>
    /\ GiveUp("ErrReadTimeout")

FillTimedOut ==
    /\ at = "fill"
    /\ ~CtxErr /\ Past
    /\ GiveUp("ErrReadTimeout")

\* Read returned n bytes.  A Read that times out, or returns (0, nil), leaves
\* everything as it is and fill goes round: a stuttering step.
FillBytes(n) ==
    /\ at = "fill"
    /\ ~CtxErr /\ ~Past
    /\ n \in 1..Len(line) /\ n <= ChunkSize
    /\ buf' = buf \o SubSeq(line, 1, n)
    /\ line' = Drop(line, n)
    /\ at' = "look"
    /\ UNCHANGED <<conn, ctx, op, late, ret>>

FillConnFailed ==
    /\ at = "fill"
    /\ ~CtxErr /\ ~Past
    /\ conn # "up" /\ line = <<>>
    /\ GiveUp(conn)

Fill ==
    \/ FillCtxEnded
    \/ FillTimedOut
    \/ \E n \in 1..Len(line) : FillBytes(n)
    \/ FillConnFailed

ClientStep == Look \/ Fill

\* Client.Close, between calls: a Read on the closed Conn fails, not with EOF.
Close ==
    /\ op = "none"
    /\ buf' = <<>>
    /\ line' = <<>>
    /\ conn' = "Broken"
    /\ UNCHANGED <<ctx, op, at, late, ret>>

-----------------------------------------------------------------------------
(* What happens to the client                                              *)

\* What can arrive instead of s: a part of it, possibly nothing, or one byte
\* changed.
Damaged(s) ==
    {SubSeq(s, 1, n) : n \in 0..(Len(s) - 1)}
        \cup {[s EXCEPT ![i] = Junk] : i \in 1..Len(s)}

\* The slaves put bytes on the line.
Receive(s) ==
    /\ line' = line \o s
    /\ UNCHANGED <<buf, conn, ctx, op, at, late, ret>>

DeadlinePasses ==
    /\ op # "none" /\ ~late
    /\ late' = TRUE
    /\ UNCHANGED <<line, buf, conn, ctx, op, at, ret>>

CtxEnds ==
    /\ \/ ctx = "live" /\ ctx' \in {"past", "Canceled"}
       \/ ctx = "past" /\ ctx' = "DeadlineExceeded"
    /\ UNCHANGED <<line, buf, conn, op, at, late, ret>>

\* The transport fails; what was on its way may be lost with it.
ConnFails ==
    /\ conn = "up"
    /\ conn' \in ConnErrors
    /\ line' \in {line, <<>>}
    /\ UNCHANGED <<buf, ctx, op, at, late, ret>>

=============================================================================
