---------------------------- MODULE ReadSession ----------------------------
(***************************************************************************)
(* One Client reading slaves, one operation after another: ReadAllFrames   *)
(* resets the link and walks the frame count bit through a slave's         *)
(* telegrams, ReadSingleFrame asks once.  The slaves follow the bit as its *)
(* use in ReadAllFrames presumes: a link reset starts them over, an        *)
(* unchanged bit repeats the last telegram, a changed one sends the next.  *)
(***************************************************************************)
EXTENDS Bus, FiniteSets

CONSTANTS
    Slaves,      \* the slaves, by their primary address
    Telegrams,   \* Telegrams[s]: how many frames s has
    Endless,     \* slaves that set the "more records follow" mark on every one
    Undecodable, \* frames Decode refuses (ErrUnsupportedCI)
    MaxFramesPerRead,
    Kinds,       \* the operations the caller uses
    MaxJobs,     \* bound: operations
    MayCancel    \* contexts may end and the transport fail, each a fault more

Frames == UNION {{<<s, k>> : k \in 1..Telegrams[s]} : s \in Slaves}

ASSUME SessionAssumption ==
    /\ Telegrams \in [Slaves -> Nat \ {0}]
    /\ Ack \notin Frames /\ Msg = {Ack} \cup Frames
    /\ Endless \subseteq Slaves
    /\ Undecodable \subseteq LongMsg
    /\ MaxFramesPerRead \in Nat \ {0}
    /\ Kinds \subseteq {"ReadAllFrames", "ReadSingleFrame"}
    /\ MaxJobs \in Nat
    /\ MayCancel \in BOOLEAN

VARIABLES
    job,      \* the operation in progress: what, from whom, where it is, and
              \* the frames and the frame count bit so far
    result,   \* what the last operation returned
    fcb,      \* fcb[s]: the bit of the last REQ_UD2 s saw; {} after a reset
    pos,      \* pos[s]: the telegram s sends for that bit
    jobs,     \* operations begun
    sound,    \* the operation began with nothing under way and no E5h left in
              \* the buffer, and no fault, late answer or end of its context
              \* hit it (a history variable)
    calm      \* no context has ended with an operation in progress, and no
              \* walk has begun with an E5h left over (a history variable)

slaveVars == <<fcb, pos>>
vars == <<clientVars, busVars, job, result, slaveVars, jobs, sound, calm>>

NoJob == [kind |-> "none"]

Init ==
    /\ ClientInit
    /\ BusInit
    /\ job = NoJob
    /\ result = NoJob
    /\ fcb = [s \in Slaves |-> {}]
    /\ pos = [s \in Slaves |-> 1]
    /\ jobs = 0
    /\ sound = TRUE
    /\ calm = TRUE

-----------------------------------------------------------------------------
(* The slaves                                                              *)

\* Mutant: the mark on a telegram that is not the last is missed.
HasMoreRecordsMissed(m) == m[1] \in Endless

HasMoreRecords(m) == m[1] \in Endless \/ m[2] < Telegrams[m[1]]

AnswerReset(s) ==
    /\ fcb' = [fcb EXCEPT ![s] = {}]
    /\ pos' = [pos EXCEPT ![s] = 1]
    /\ outbox' = Append(outbox, Bytes(Ack))

AnswerRequest(s, bit) ==
    LET next == IF pos[s] < Telegrams[s] THEN pos[s] + 1 ELSE 1
        k    == IF fcb[s] \subseteq {bit} THEN pos[s] ELSE next
    IN  /\ fcb' = [fcb EXCEPT ![s] = {bit}]
        /\ pos' = [pos EXCEPT ![s] = k]
        /\ outbox' = Append(outbox, Bytes(<<s, k>>))

\* A request the slave does not get.
Lost ==
    /\ Fault
    /\ sound' = FALSE
    /\ UNCHANGED <<outbox, slaveVars>>

-----------------------------------------------------------------------------
(* The master                                                              *)

HasE5(b) == \E i \in 1..Len(b) : IsE5(b[i])

\* An E5h sent before this operation, an acknowledgement or a byte of a frame, is
\* still to be looked at.
LeftE5 == HasE5(buf) \/ HasE5(line) \/ \E i \in 1..Len(outbox) : HasE5(outbox[i])

StartJob(kind, s) ==
    /\ job = NoJob /\ jobs < MaxJobs
    /\ job' = [kind |-> kind, slave |-> s, frames |-> <<>>, lastFCB |-> 1,
               step |-> IF kind = "ReadAllFrames" THEN "reset" ELSE "request"]
    /\ result' = NoJob
    /\ ctx' = "live"
    /\ jobs' = jobs + 1
    /\ sound' = (Quiet /\ conn = "up" /\ ~LeftE5)
    /\ calm' = (calm /\ (kind = "ReadAllFrames" => ~LeftE5))
    /\ UNCHANGED <<line, buf, conn, op, at, late, ret, busVars, slaveVars>>

Finish(err, frames) ==
    /\ job' = NoJob
    /\ result' = [kind |-> job.kind, slave |-> job.slave, err |-> err,
                  frames |-> IF err = {} THEN frames ELSE <<>>]
    /\ UNCHANGED <<clientVars, busVars, slaveVars, jobs, sound, calm>>

At(step) == job # NoJob /\ job.step = step /\ op = "none"

\* SND_NKE and the wait for its acknowledgement.
LinkReset ==
    /\ At("reset")
    /\ CanWrite
    /\ Call("ReadSingleCharFrame")
    /\ job' = [job EXCEPT !.step = "ack"]
    /\ \/ AnswerReset(job.slave) /\ UNCHANGED <<faults, sound>>
       \/ Lost
    /\ UNCHANGED <<ctx, result, jobs, calm>>

LinkResetDone ==
    /\ At("ack")
    /\ ret.err = {}
    /\ job' = [job EXCEPT !.step = "request"]
    /\ UNCHANGED <<clientVars, busVars, result, slaveVars, jobs, sound, calm>>

\* The bit alternates within a walk; ReadSingleFrame leaves it clear.
NextFCB == IF job.kind = "ReadAllFrames" /\ job.lastFCB = 0 THEN 1 ELSE 0

\* Mutant: one frame too many.
WalkIsFullOneLate ==
    job.kind = "ReadAllFrames" /\ Len(job.frames) > MaxFramesPerRead

WalkIsFull == job.kind = "ReadAllFrames" /\ Len(job.frames) >= MaxFramesPerRead

\* REQ_UD2 and the wait for its answer.
Request ==
    /\ At("request")
    /\ CanWrite /\ ~WalkIsFull
    /\ Call("ReadLongFrame")
    /\ job' = [job EXCEPT !.step = "response", !.lastFCB = NextFCB]
    /\ \/ AnswerRequest(job.slave, NextFCB) /\ UNCHANGED <<faults, sound>>
       \/ Lost
    /\ UNCHANGED <<ctx, result, jobs, calm>>

TooManyFrames ==
    /\ At("request")
    /\ ~CtxErr /\ WalkIsFull
    /\ Finish({"ErrTooManyFrames"}, <<>>)

WriteRefused ==
    /\ At("reset") \/ (At("request") /\ (CtxErr \/ ~WalkIsFull))
    /\ MayRefuse
    /\ Finish(WriteError, <<>>)

ReadFailed ==
    /\ At("ack") \/ At("response")
    /\ ret.err # {}
    /\ Finish(ret.err, <<>>)

\* The answer is decoded and kept; the walk goes on while it says there is more.
Response ==
    /\ At("response")
    /\ ret.err = {}
    /\ LET frames == Append(job.frames, ret.msg) IN
          \/ /\ ret.msg \in Undecodable
             /\ Finish({"ErrUnsupportedCI"}, <<>>)
          \/ /\ ret.msg \notin Undecodable
             /\ job.kind = "ReadAllFrames" /\ HasMoreRecords(ret.msg)
             /\ job' = [job EXCEPT !.step = "request", !.frames = frames]
             /\ UNCHANGED <<clientVars, busVars, result, slaveVars, jobs, sound, calm>>
          \/ /\ ret.msg \notin Undecodable
             /\ ~(job.kind = "ReadAllFrames" /\ HasMoreRecords(ret.msg))
             /\ Finish({}, frames)

Read ==
    /\ BusStep
    /\ UNCHANGED <<job, result, slaveVars, jobs, sound, calm>>

Master ==
    \/ LinkReset \/ LinkResetDone
    \/ Request \/ Response
    \/ TooManyFrames \/ WriteRefused \/ ReadFailed
    \/ Read

-----------------------------------------------------------------------------
(* The line and the context                                                *)

Transmit ==
    /\ \/ TransmitWhole /\ UNCHANGED sound
       \/ TransmitDamaged /\ sound' = FALSE
    /\ UNCHANGED <<job, result, slaveVars, jobs, calm>>

Deadline ==
    /\ BusDeadline
    /\ sound' = (sound /\ Quiet)
    /\ UNCHANGED <<job, result, slaveVars, jobs, calm>>

Cancel ==
    /\ MayCancel
    /\ job # NoJob
    /\ CtxEnds
    /\ IF ctx = "live" THEN Fault ELSE UNCHANGED faults
    /\ sound' = FALSE
    /\ calm' = FALSE
    /\ UNCHANGED <<outbox, job, result, slaveVars, jobs>>

Break ==
    /\ MayCancel
    /\ ConnFails
    /\ Fault
    /\ sound' = FALSE
    /\ UNCHANGED <<outbox, job, result, slaveVars, jobs, calm>>

Next ==
    \/ \E kind \in Kinds, s \in Slaves : StartJob(kind, s)
    \/ Master
    \/ Transmit
    \/ Deadline
    \/ Cancel
    \/ Break

\* The caller's goroutine runs, slaves send what they have, and time passes.
Fairness == WF_vars(Master) /\ WF_vars(Transmit) /\ WF_vars(Deadline)

Spec == Init /\ [][Next]_vars /\ Fairness

-----------------------------------------------------------------------------
Returned(kind) == result # NoJob /\ result.kind = kind /\ result.err = {}

\* A read returns frames of the slave it was asked for and of no other
\* (gombus.go 144, 201).
FramesFromTheSlave ==
    \A kind \in Kinds : Returned(kind) =>
        \A i \in 1..Len(result.frames) : result.frames[i][1] = result.slave

\* The part of it that the code keeps when slaves are prompt: what an earlier call
\* left is refused again by ReadLongFrame or skipped by the next walk's wait for its
\* acknowledgement.  A cancelled call may leave an answer still to come, and an E5h
\* may be taken for the acknowledgement, so that an answer is left behind it.
CalmFramesFromTheSlave == calm => FramesFromTheSlave

\* ReadAllFrames returns every frame of the slave, each once, in order: none
\* skipped or repeated by the frame count bit, lost requests or damaged
\* answers notwithstanding.
WalkIsComplete ==
    calm /\ Returned("ReadAllFrames") =>
        result.frames = [k \in 1..Telegrams[result.slave] |-> <<result.slave, k>>]

\* A slave that always reports more is given up after MaxFramesPerRead frames.
WalkIsBounded ==
    /\ job # NoJob => Len(job.frames) <= MaxFramesPerRead
    /\ calm /\ Returned("ReadAllFrames") => result.slave \notin Endless

Readable(s) ==
    /\ s \notin Endless
    /\ Telegrams[s] <= MaxFramesPerRead
    /\ \A k \in 1..Telegrams[s] : <<s, k>> \notin Undecodable

\* Whatever earlier operations left in the buffer, but for an E5h, ReadAllFrames
\* on a quiet bus that stays sound succeeds: the wait for the link reset's
\* acknowledgement drops the debris (read.go 125-127).
SoundWalkSucceeds ==
    result # NoJob /\ result.kind = "ReadAllFrames" /\ sound /\ Readable(result.slave)
        => result.err = {}

\* Every operation ends, whether or not the slaves answer.
EveryJobEnds == (job # NoJob) ~> (job = NoJob)

=============================================================================
