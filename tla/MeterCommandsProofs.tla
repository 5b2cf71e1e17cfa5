------------------------ MODULE MeterCommandsProofs ------------------------
(***************************************************************************)
(* What the commands of mbusctl write and read, for any meters, numbers,   *)
(* addresses, sizes, cuts, faults and any timing of the answers.  As a     *)
(* command dials, every byte it may find was sent by the meters it means,  *)
(* and the acknowledgement of one meter is one byte: when it has been      *)
(* taken, nothing is left that could be taken for the next.                *)
(***************************************************************************)
EXTENDS MeterCommands, ClientProofs, FiniteSetTheorems

Steps == {"select", "selecting", "reset", "resetting", "read", "set", "ending"}

Jobs == [kind : {"read", "set"}, target : Targets, new : Primaries,
         meant : SUBSET Meters, told : Seq(Byte), step : Steps]

\* Every variable has its type, and a call is in progress only where a command
\* waits for one.
CommandTypeOK ==
    /\ ClientTypeOK
    /\ outbox \in Seq(Seq(Byte)) /\ faults \in Nat
    /\ selected \in SUBSET Meters
    /\ primary \in [Meters -> Primaries]
    /\ job \in Jobs \cup {NoJob}
    /\ op = "none" => at = "look"
    /\ op # "none" => /\ job # NoJob
                      /\ op \in {"probeSilence", "probeResponse"} <=> job.step = "selecting"
                      /\ op = "ReadSingleCharFrame" =>
                             \/ job.step = "resetting"
                             \/ job.step = "ending" /\ job.kind = "set"
                      /\ op = "ReadLongFrame" => job.step = "ending" /\ job.kind = "read"
    /\ job # NoJob /\ job.step \in {"read", "set"} => job.step = job.kind
    /\ job # NoJob /\ job.step \in {"select", "selecting"} => job.target.secondary
    /\ job # NoJob /\ job.step \in {"reset", "resetting"} => ~job.target.secondary

-----------------------------------------------------------------------------
(* What there is to be read                                                *)

\* The bytes that the meters of S send, alone or together.
BytesOf(S) == {Junk, <<Ack, 1>>} \cup UNION {{<<m, i>> : i \in 1..Size[m]} : m \in S}

BytesInv ==
    job # NoJob => /\ buf \in Seq(BytesOf(job.meant))
                   /\ line \in Seq(BytesOf(job.meant))
                   /\ outbox \in Seq(Seq(BytesOf(job.meant)))

Void == outbox = <<>> /\ Len(buf) + Len(line) = 0

\* The call in progress gets no answer.
Mute == Void /\ (op = "none" => ret.err # {})

\* There is an acknowledgement to be read, at most, and it has been taken by a call
\* that has returned without an error.
Few ==
    /\ \/ outbox = <<Bytes(Ack)>> /\ Len(buf) + Len(line) = 0
       \/ outbox = <<>> /\ Len(buf) + Len(line) <= 1
    /\ op = "none" /\ ret.err = {} => Void

-----------------------------------------------------------------------------
(* Whom a command's frames reach                                           *)

TargetInv ==
    job # NoJob =>
        /\ job.target.secondary => job.meant = Matching(job.target.id)
        /\ ~job.target.secondary /\ job.step # "ending" => At(job.target.addr) \subseteq job.meant
        /\ job.step \in {"select", "reset"} => Void
        /\ job.step = "selecting" => selected = job.meant \/ Mute
        /\ job.step \in {"read", "set"} /\ job.target.secondary => selected = job.meant

\* A write to one meter is acknowledged by that meter, or by none.
WriteInv ==
    job # NoJob /\ job.kind = "set" /\ Cardinality(job.meant) = 1 =>
        /\ job.step \in {"selecting", "resetting"} => Few
        /\ job.step = "set" => Void
        /\ job.step = "ending" => Mute \/ \A m \in job.meant : primary[m] = job.new

\* What several meters acknowledge together waits, or has come, in pieces or whole.
Several ==
    /\ job.told \in Overlaps
    /\ \/ outbox = <<job.told>> /\ line = <<>> /\ buf = <<>>
       \/ outbox = <<>> /\ buf \o line = job.told

\* It is taken for the acknowledgement of one if it is that, or in part.
TakenForOne == job.told = Bytes(Ack) \/ line # <<>>

SoundInv ==
    job # NoJob /\ job.target.secondary /\ faults = 0 /\ Cardinality(job.meant) # 1 =>
        /\ job.step = "selecting" =>
               IF op = "none" THEN ret.err = {} /\ ret.msg = Ack /\ buf = <<>> => TakenForOne
               ELSE Void \/ Several
        /\ job.step = "set" => TakenForOne

ResultInv ==
    /\ job # NoJob => result = NoJob
    /\ job # NoJob /\ job.kind = "read" /\ job.step = "ending" /\ op = "none"
           /\ ret.err = {} => ret.msg \in job.meant
    /\ SetMeansWritten /\ ReadIsOfTheMeant

CommandInv ==
    /\ CommandTypeOK /\ BytesInv /\ TargetInv /\ WriteInv /\ SoundInv /\ ResultInv

-----------------------------------------------------------------------------
(* The values                                                              *)

\* A command in progress is none of the values that say there is none.
LEMMA JobLemma ==
    ASSUME NEW j \in Jobs
    PROVE  /\ j # NoJob
           /\ j.kind \in {"read", "set"} /\ j.target \in Targets /\ j.new \in Primaries
           /\ j.meant \in SUBSET Meters /\ j.step \in Steps
<1>1. j.kind \in {"read", "set"} /\ NoJob.kind = "none"
  BY DEF Jobs, NoJob
<1> QED
  BY <1>1 DEF Jobs

\* The next statement is of the same command.
GoesOn(step) ==
    /\ job' \in Jobs /\ job' # NoJob /\ job'.step = step /\ result' = result
    /\ job'.kind = job.kind /\ job'.target = job.target
    /\ job'.new = job.new /\ job'.meant = job.meant

LEMMA GotoLemma ==
    ASSUME job \in Jobs, NEW step \in Steps, Goto(step)
    PROVE  GoesOn(step) /\ job'.told = job.told
<1>1. job' = [job EXCEPT !.step = step]
  BY DEF Goto
<1>2. job' \in Jobs
  BY <1>1 DEF Jobs
<1> QED
  BY <1>1, <1>2, JobLemma DEF Goto, GoesOn, Jobs

\* A sequence is one of any larger set's.
LEMMA SeqGrows ==
    ASSUME NEW A, NEW B, A \subseteq B, NEW s \in Seq(A)
    PROVE  s \in Seq(B)
<1>1. Len(s) \in Nat /\ s \in [1..Len(s) -> A]
  BY LenProperties
<1>2. s \in [1..Len(s) -> B]
  BY <1>1
<1> QED
  BY <1>1, <1>2, SeqDef

\* What the meters of S send has only bytes of theirs.
LEMMA SentBytes ==
    ASSUME NEW S \in SUBSET Meters
    PROVE  /\ Junk \in BytesOf(S) /\ BytesOf(S) \subseteq Byte
           /\ Acks(S) \subseteq Seq(BytesOf(S))
           /\ Data(S) \subseteq Seq(BytesOf(S))
<1>1. Junk \in BytesOf(S) /\ <<Ack, 1>> \in BytesOf(S)
  BY DEF BytesOf
<1>2. S \subseteq Msg /\ Ack \in Msg /\ Size[Ack] = 1 /\ \A m \in Msg : Size[m] \in Nat
  BY SelectionAssumption, ClientAssumption
<1>3. BytesOf(S) \subseteq Byte
  BY <1>2 DEF BytesOf, Byte, Wire
<1>4. ASSUME NEW m \in Msg, \A i \in 1..Size[m] : <<m, i>> \in BytesOf(S)
      PROVE  Bytes(m) \in Seq(BytesOf(S))
  <2>1. Bytes(m) \in [1..Size[m] -> BytesOf(S)]
    BY <1>4 DEF Bytes
  <2> QED
    BY <1>2, <2>1, SeqDef
<1>5. Bytes(Ack) \in Seq(BytesOf(S))
  BY <1>1, <1>2, <1>4
<1>6. ASSUME NEW m \in S PROVE Bytes(m) \in Seq(BytesOf(S))
  <2>1. \A i \in 1..Size[m] : <<m, i>> \in BytesOf(S)
    BY <1>6 DEF BytesOf
  <2> QED
    BY <1>2, <1>4, <2>1
<1>7. <<>> \in Seq(BytesOf(S)) /\ <<Junk>> \in Seq(BytesOf(S))
  <2>1. <<Junk>> = Append(<<>>, Junk)
    BY AppendProperties
  <2> QED
    BY <1>1, <2>1, EmptySeq, AppendProperties
<1>8. Overlaps \subseteq Seq(BytesOf(S))
  <2>1. {<<Ack, 1>>, Junk} \subseteq BytesOf(S)
    BY <1>1
  <2> QED
    BY <2>1, SeqGrows, SelectionAssumption
<1>9. ASSUME NEW m \in S
      PROVE  SubSeq(Bytes(m), 1, Size[m] - 1) \o <<Junk>> \in Seq(BytesOf(S))
  <2>1. Bytes(m) \in Seq(BytesOf(S)) /\ Len(Bytes(m)) = Size[m] /\ Size[m] \in Nat
    BY <1>2, <1>6, BytesLemma
  <2>2. Size[m] # 0
    BY <1>2, ClientAssumption DEF LongMsg
  <2>3. Size[m] - 1 \in 0..Len(Bytes(m))
    BY <2>1, <2>2
  <2>4. SubSeq(Bytes(m), 1, Size[m] - 1) \in Seq(BytesOf(S))
    BY <2>1, <2>3, PrefixLemma
  <2> QED
    BY <1>7, <2>4, ConcatProperties
<1>10. Acks(S) \subseteq Seq(BytesOf(S))
  BY <1>5, <1>7, <1>8 DEF Acks
<1>11. Data(S) \subseteq Seq(BytesOf(S))
  BY <1>6, <1>7, <1>9 DEF Data
<1> QED
  BY <1>1, <1>3, <1>10, <1>11

\* An answer waits behind the others, or there is none.
LEMMA AnswersLemma ==
    ASSUME NEW B, outbox \in Seq(Seq(B)), NEW T, T \subseteq Seq(B), Answers(T)
    PROVE  /\ outbox' \in Seq(Seq(B))
           /\ outbox' # outbox => outbox'[Len(outbox')] \in T \ {<<>>}
           /\ outbox = <<>> =>
                 outbox' = <<>> \/ \E s \in T \ {<<>>} : outbox' = <<s>>
<1>1. PICK s \in T : outbox' = IF s = <<>> THEN outbox ELSE Append(outbox, s)
  BY DEF Answers
<1>2. Append(outbox, s) \in Seq(Seq(B))
  BY AppendProperties
<1>3. outbox = <<>> => Append(outbox, s) = <<s>>
  BY AppendProperties
<1>4. Append(outbox, s)[Len(Append(outbox, s))] = s
  BY AppendProperties, LenProperties
<1> QED
  BY <1>1, <1>2, <1>3, <1>4

\* A command means meters.
LEMMA MeantLemma ==
    ASSUME selected \in SUBSET Meters, NEW target
    PROVE  Meant(target) \in SUBSET Meters
  BY DEF Meant, Matching, At

\* A command on a primary address, the link having been reset, reaches no others.
LEMMA StillSelectedLemma ==
    ASSUME selected \in SUBSET Meters, NEW addr, selected' \in StillSelected(addr),
           UNCHANGED primary
    PROVE  /\ selected' \in SUBSET Meters
           /\ \A a : a = addr => At(a)' \subseteq At(a)
<1>1. selected' \subseteq selected
  BY DEF StillSelected
<1>2. addr # addrSecondarySelect => selected' = selected
  BY DEF StillSelected
<1> QED
  BY <1>1, <1>2 DEF At

\* Its frames reach meters.
LEMMA ReachedLemma ==
    ASSUME selected \in SUBSET Meters, NEW target
    PROVE  Reached(target) \in SUBSET Meters
  BY DEF Reached, At

\* The command waits for the answers to its selection, and tells what they are.
LEMMA SelectLemma ==
    ASSUME job \in Jobs, Select, outbox \in Seq(Seq(Byte))
    PROVE  /\ GoesOn("selecting")
           /\ job'.told = IF outbox' = outbox THEN <<>> ELSE outbox'[Len(outbox')]
<1> DEFINE t == IF outbox' = outbox THEN <<>> ELSE outbox'[Len(outbox')]
<1>1. /\ job' = [job EXCEPT !.step = "selecting", !.told = t] /\ result' = result
      /\ Answers(Acks(Matching(job.target.id))) \/ UNCHANGED outbox
  BY DEF Select, SendSelect, AnswerSelect
<1>2. t \in Seq(Byte)
  <2>1. CASE UNCHANGED outbox
    BY <2>1, EmptySeq
  <2>2. CASE outbox' # outbox
    <3>1. Acks(Matching(job.target.id)) \subseteq Seq(Byte)
      BY SentBytes, SeqGrows DEF Matching
    <3>2. outbox'[Len(outbox')] \in Acks(Matching(job.target.id))
      BY <1>1, <2>2, <3>1, AnswersLemma
    <3> QED
      BY <2>2, <3>1, <3>2
  <2> QED
    BY <2>1, <2>2
<1> HIDE DEF t
<1>3. job' \in Jobs /\ job'.told = t
  BY <1>1, <1>2 DEF Jobs, Steps
<1>4. GoesOn("selecting")
  BY <1>1, <1>3, JobLemma DEF GoesOn, Jobs
<1> QED
  BY <1>3, <1>4 DEF t

-----------------------------------------------------------------------------
(* The types                                                               *)

LEMMA InitCommandType == Init => CommandTypeOK
<1> SUFFICES ASSUME Init PROVE CommandTypeOK
  OBVIOUS
<1>1. <<>> \in Seq(Byte) /\ <<>> \in Seq(Seq(Byte))
  BY EmptySeq
<1>2. NoResult \in Results
  BY DEF NoResult, Results
<1> QED
  BY <1>1, <1>2, MeterCommandsAssumption
     DEF Init, ClientInit, BusInit, CommandTypeOK, ClientTypeOK

\* The start of a call, and the answers to what is sent with it.
LEMMA CallCommandType ==
    ASSUME CommandTypeOK, job \in Jobs, NEW o \in Ops, NEW step \in Steps,
           Call(o), GoesOn(step), ctx' = ctx,
           o = "probeSilence" <=> step = "selecting", o # "probeResponse",
           o = "ReadSingleCharFrame" => step = "resetting" \/ (step = "ending" /\ job.kind = "set"),
           o = "ReadLongFrame" => step = "ending" /\ job.kind = "read",
           step \in {"select", "selecting"} => job.target.secondary,
           step \in {"reset", "resetting"} => ~job.target.secondary,
           step \notin {"read", "set"},
           primary' \in [Meters -> Primaries], selected' \in SUBSET Meters,
           \/ \E S \in SUBSET Meters : Answers(Acks(S)) \/ Answers(Data(S))
           \/ UNCHANGED outbox,
           Fault \/ UNCHANGED faults
    PROVE  CommandTypeOK'
<1>1. ClientTypeOK'
  BY CallType DEF CommandTypeOK
<1>2. outbox' \in Seq(Seq(Byte))
  <2>1. outbox \in Seq(Seq(Byte))
    BY DEF CommandTypeOK
  <2>2. ASSUME NEW S \in SUBSET Meters
        PROVE  Acks(S) \subseteq Seq(Byte) /\ Data(S) \subseteq Seq(Byte)
    BY SentBytes, SeqGrows
  <2> QED
    BY <2>1, <2>2, AnswersLemma
<1>3. /\ job' \in Jobs /\ job' # NoJob /\ job'.step = step
      /\ job'.kind = job.kind /\ job'.target = job.target
  BY DEF GoesOn
<1>4. op' = o /\ at' = "look"
  BY DEF Call
<1>5. faults' \in Nat
  BY DEF Fault, CommandTypeOK
<1> QED
  BY <1>1, <1>2, <1>3, <1>4, <1>5 DEF CommandTypeOK

LEMMA NextCommandType == CommandTypeOK /\ [Next]_vars => CommandTypeOK'
<1> SUFFICES ASSUME CommandTypeOK, [Next]_vars PROVE CommandTypeOK'
  OBVIOUS
<1>0. job # NoJob => job \in Jobs
  BY DEF CommandTypeOK
<1>1. ASSUME NEW kind \in {"read", "set"}, NEW target \in Targets, NEW new \in Primaries,
             Start(kind, target, new)
      PROVE  CommandTypeOK'
  <2>1. job' \in Jobs
    <3>1. <<>> \in Seq(Byte) /\ Meant(target) \in SUBSET Meters
      BY EmptySeq, MeantLemma DEF CommandTypeOK
    <3> QED
      BY <1>1, <3>1 DEF Start, Jobs, Steps
  <2>2. /\ <<>> \in Seq(Byte) /\ <<>> \in Seq(Seq(Byte))
    BY EmptySeq
  <2>3. ClientTypeOK'
    BY <1>1, <2>2 DEF Start, CommandTypeOK, ClientTypeOK
  <2>4. /\ job = NoJob /\ job'.step = (IF target.secondary THEN "select" ELSE "reset")
        /\ job'.target = target /\ UNCHANGED <<op, at, outbox, faults, primary, selected>>
    BY <1>1 DEF Start, busVars
  <2> QED
    BY <2>1, <2>2, <2>3, <2>4 DEF CommandTypeOK
<1>2. CASE Select
  <2>1. /\ job \in Jobs /\ job.step = "select" /\ job.target.secondary
    BY <1>0, <1>2 DEF Select, Running, CommandTypeOK
  <2>2. /\ Call("probeSilence") /\ GoesOn("selecting") /\ UNCHANGED <<ctx, primary>>
        /\ \/ Answers(Acks(Matching(job.target.id))) /\ UNCHANGED faults
           \/ Fault /\ UNCHANGED outbox
    BY <1>2, <2>1, SelectLemma DEF Select, SendSelect, AnswerSelect, CommandTypeOK
  <2>3. Matching(job.target.id) \in SUBSET Meters /\ selected' \in SUBSET Meters
    BY <1>2 DEF Matching, Select, SendSelect, AnswerSelect, CommandTypeOK
  <2>4. "selecting" \in Steps /\ "probeSilence" \in Ops /\ primary' \in [Meters -> Primaries]
    BY <2>2 DEF Steps, Ops, CommandTypeOK
  <2> QED
    BY <2>1, <2>2, <2>3, <2>4, CallCommandType
<1>3. CASE Selected
  <2>1. /\ job \in Jobs /\ job.step = "selecting" /\ op = "none" /\ job.kind \in {"read", "set"}
        /\ UNCHANGED <<line, conn, ctx, op, at, late, ret, busVars, primary, selected>>
        /\ buf' \in {buf, <<>>}
        /\ Goto(job.kind) \/ job' = NoJob
    BY <1>0, <1>3, JobLemma
       DEF Selected, Running, Finish, Responded, Silent, Collision, SelectFailed
  <2>2. ClientTypeOK'
    BY <2>1, EmptySeq DEF CommandTypeOK, ClientTypeOK
  <2>3. Goto(job.kind) => job' \in Jobs /\ job'.step = job'.kind /\ job'.step \in {"read", "set"}
    BY <2>1, GotoLemma DEF Steps, GoesOn
  <2> QED
    BY <2>1, <2>2, <2>3 DEF CommandTypeOK, busVars
<1>4. CASE Reset
  <2>1. /\ job \in Jobs /\ job.step = "reset" /\ ~job.target.secondary
    BY <1>0, <1>4 DEF Reset, Running, CommandTypeOK
  <2>2. /\ Call("ReadSingleCharFrame") /\ GoesOn("resetting") /\ UNCHANGED <<ctx, primary>>
        /\ \/ Answers(Acks(Reached(job.target))) /\ UNCHANGED faults
           \/ Fault /\ UNCHANGED outbox
    BY <1>4, <2>1, GotoLemma DEF Reset, Steps
  <2>3. Reached(job.target) \in SUBSET Meters /\ selected' \in SUBSET Meters
    BY <1>4, ReachedLemma, StillSelectedLemma DEF Reset, CommandTypeOK
  <2>4. /\ "resetting" \in Steps /\ "ReadSingleCharFrame" \in Ops
        /\ primary' \in [Meters -> Primaries]
    BY <2>2 DEF Steps, Ops, CommandTypeOK
  <2> QED
    BY <2>1, <2>2, <2>3, <2>4, CallCommandType
<1>5. CASE ResetDone
  <2>1. /\ job \in Jobs /\ op = "none" /\ Goto(job.kind) /\ UNCHANGED <<clientVars, busVars, primary, selected>>
        /\ job.kind \in {"read", "set"}
    BY <1>0, <1>5, JobLemma DEF ResetDone, Running
  <2>2. job' \in Jobs /\ job'.step = job'.kind /\ job'.step \in {"read", "set"}
    BY <2>1, GotoLemma DEF Steps, GoesOn
  <2> QED
    BY <2>1, <2>2 DEF CommandTypeOK, ClientTypeOK, clientVars, busVars
<1>6. CASE Request
  <2>1. /\ job \in Jobs /\ job.step = "read" /\ job.kind = "read"
    BY <1>0, <1>6 DEF Request, Running, CommandTypeOK
  <2>2. /\ Call("ReadLongFrame") /\ GoesOn("ending") /\ UNCHANGED <<ctx, primary>>
        /\ \/ Answers(Data(Reached(job.target))) /\ UNCHANGED faults
           \/ Fault /\ UNCHANGED outbox
    BY <1>6, <2>1, GotoLemma DEF Request, Steps
  <2>3. /\ "ending" \in Steps /\ "ReadLongFrame" \in Ops /\ Reached(job.target) \in SUBSET Meters
        /\ primary' \in [Meters -> Primaries] /\ selected' \in SUBSET Meters
    BY <1>6, <2>2, ReachedLemma DEF Request, Steps, Ops, CommandTypeOK
  <2> QED
    BY <2>1, <2>2, <2>3, CallCommandType
<1>7. CASE SetAddress
  <2>1. /\ job \in Jobs /\ job.step = "set" /\ job.kind = "set" /\ job.new \in Primaries
    BY <1>0, <1>7, JobLemma DEF SetAddress, Running, CommandTypeOK
  <2>2. /\ Call("ReadSingleCharFrame") /\ GoesOn("ending") /\ UNCHANGED <<ctx, selected>>
        /\ \/ Answers(Acks(Reached(job.target))) /\ UNCHANGED faults
           \/ Fault /\ UNCHANGED outbox
    BY <1>7, <2>1, GotoLemma DEF SetAddress, Steps
  <2>3. /\ "ending" \in Steps /\ "ReadSingleCharFrame" \in Ops
        /\ Reached(job.target) \in SUBSET Meters /\ selected' \in SUBSET Meters
    BY <2>2, ReachedLemma DEF Steps, Ops, CommandTypeOK
  <2>4. primary' \in [Meters -> Primaries]
    BY <1>7, <2>1 DEF SetAddress, CommandTypeOK
  <2> QED
    BY <2>1, <2>2, <2>3, <2>4, CallCommandType
<1>8. ASSUME op = "none", NEW e, NEW m, Finish(e, m),
             UNCHANGED <<clientVars, busVars, selected, primary>>
      PROVE  CommandTypeOK'
  BY <1>8 DEF Finish, CommandTypeOK, ClientTypeOK, clientVars, busVars
<1>9. CASE End \/ WriteRefused \/ ReadFailed
  BY <1>8, <1>9 DEF End, WriteRefused, ReadFailed, Running
<1>10. CASE Read
  <2>1. ClientStep /\ UNCHANGED <<busVars, selected, primary, job>>
    BY <1>10 DEF Read, BusStep
  <2>2. /\ op # "none" /\ ClientTypeOK' /\ (op' = "none" => at' = "look")
        /\ op' \in {op, "none"} \/ (op = "probeSilence" /\ op' = "probeResponse")
    BY <2>1, ClientStepType DEF CommandTypeOK
  <2> QED
    BY <2>1, <2>2 DEF CommandTypeOK, busVars
<1>11. CASE Transmit
  <2>1. /\ outbox # <<>> /\ outbox' = Tail(outbox) /\ UNCHANGED <<selected, primary, job>>
        /\ \E s \in Damaged(Head(outbox)) \cup {Head(outbox)} : Receive(s)
        /\ Fault \/ UNCHANGED faults
    BY <1>11 DEF Transmit, TransmitWhole, TransmitDamaged
  <2>2. Head(outbox) \in Seq(Byte) /\ outbox' \in Seq(Seq(Byte))
    BY <2>1, HeadTailProperties DEF CommandTypeOK
  <2>3. PICK s \in Seq(Byte) : Receive(s)
    BY <2>1, <2>2, DamagedType
  <2>4. line' \in Seq(Byte)
    BY <2>3, ConcatProperties DEF Receive, CommandTypeOK, ClientTypeOK
  <2>5. ClientTypeOK' /\ UNCHANGED <<op, at>>
    BY <2>3, <2>4 DEF Receive, CommandTypeOK, ClientTypeOK
  <2>6. faults' \in Nat
    BY <2>1 DEF Fault, CommandTypeOK
  <2> QED
    BY <2>1, <2>2, <2>5, <2>6 DEF CommandTypeOK
<1>12. CASE Deadline
  BY <1>12 DEF Deadline, BusDeadline, DeadlinePasses, busVars, CommandTypeOK, ClientTypeOK
<1>13. CASE Cancel
  BY <1>13 DEF Cancel, CtxEnds, CtxErrors, busVars, CommandTypeOK, ClientTypeOK
<1>14. CASE UNCHANGED vars
  BY <1>14 DEF vars, clientVars, busVars, CommandTypeOK, ClientTypeOK
<1> QED
  BY <1>1, <1>2, <1>3, <1>4, <1>5, <1>6, <1>7, <1>9, <1>10, <1>11, <1>12, <1>13, <1>14
     DEF Next, Master

-----------------------------------------------------------------------------
(* Between calls                                                           *)

\* Where there is nothing to be read, the sequences are empty.
LEMMA VoidLemma ==
    ASSUME CommandTypeOK
    PROVE  /\ Void <=> outbox = <<>> /\ buf = <<>> /\ line = <<>>
           /\ Len(buf) \in Nat /\ Len(line) \in Nat
           /\ buf = <<>> <=> Len(buf) = 0
           /\ line = <<>> <=> Len(line) = 0
<1>1. Len(buf) \in Nat /\ Len(line) \in Nat /\ buf \in Seq(Byte) /\ line \in Seq(Byte)
  BY LenProperties DEF CommandTypeOK, ClientTypeOK
<1>2. (buf = <<>> <=> Len(buf) = 0) /\ (line = <<>> <=> Len(line) = 0)
  BY <1>1, EmptySeq
<1> QED
  BY <1>1, <1>2 DEF Void

\* A command begins on an empty line, and means who holds the number or address then.
LEMMA StartKeeps ==
    ASSUME CommandInv, NEW kind \in {"read", "set"}, NEW target \in Targets,
           NEW new \in Primaries, Start(kind, target, new)
    PROVE  BytesInv' /\ TargetInv' /\ WriteInv' /\ SoundInv' /\ ResultInv'
<1>1. /\ job' = [kind |-> kind, target |-> target, new |-> new, meant |-> Meant(target),
                 told |-> <<>>, step |-> IF target.secondary THEN "select" ELSE "reset"]
      /\ job = NoJob /\ result' = NoJob /\ line' = <<>> /\ buf' = <<>> /\ outbox' = <<>>
      /\ op' = op /\ primary' = primary /\ selected' = selected
  BY DEF Start, busVars
<1>2. \A B : <<>> \in Seq(B) /\ <<>> \in Seq(Seq(B))
  BY EmptySeq
<1>3. BytesInv'
  BY <1>1, <1>2 DEF BytesInv
<1>4. TargetInv'
  <2>1. Void'
    BY <1>1, EmptySeq DEF Void
  <2>2. ~target.secondary => Meant(target) = At(target.addr)'
    BY <1>1 DEF Meant, At
  <2> QED
    BY <1>1, <2>1, <2>2 DEF TargetInv, Meant
<1>5. WriteInv' /\ SoundInv'
  BY <1>1 DEF WriteInv, SoundInv
<1>6. ResultInv'
  BY <1>1 DEF ResultInv, SetMeansWritten, ReadIsOfTheMeant
<1> QED
  BY <1>3, <1>4, <1>5, <1>6

\* A command ends with an error, or with what it was to write or read.
LEMMA FinishKeeps ==
    ASSUME CommandInv, job # NoJob, NEW e, NEW m, Finish(e, m), UNCHANGED primary,
           e = {} /\ job.kind = "set" /\ Cardinality(job.meant) = 1 =>
               \A k \in job.meant : primary[k] = job.new,
           e = {} /\ job.kind = "read" => m \in job.meant
    PROVE  BytesInv' /\ TargetInv' /\ WriteInv' /\ SoundInv' /\ ResultInv'
<1>1. /\ job' = NoJob /\ primary' = primary
      /\ result' = [kind |-> job.kind, target |-> job.target, new |-> job.new,
                    meant |-> job.meant, err |-> e, msg |-> m]
  BY DEF Finish
<1>2. BytesInv' /\ TargetInv' /\ WriteInv' /\ SoundInv'
  BY <1>1 DEF BytesInv, TargetInv, WriteInv, SoundInv
<1>3. /\ result'.kind = job.kind /\ result'.new = job.new /\ result'.meant = job.meant
      /\ result'.err = e /\ result'.msg = m
  BY <1>1
<1>4. SetMeansWritten' /\ ReadIsOfTheMeant'
  BY <1>1, <1>3 DEF SetMeansWritten, ReadIsOfTheMeant
<1> QED
  BY <1>1, <1>2, <1>4 DEF ResultInv

\* A command fails.
LEMMA FailedKeeps ==
    ASSUME CommandInv, WriteRefused \/ ReadFailed
    PROVE  BytesInv' /\ TargetInv' /\ WriteInv' /\ SoundInv' /\ ResultInv'
<1>1. /\ job # NoJob /\ UNCHANGED primary
      /\ Finish(WriteError, NoMsg) \/ (ret.err # {} /\ Finish(ret.err, NoMsg))
  BY DEF WriteRefused, ReadFailed, Running
<1>2. WriteError # {}
  BY DEF WriteError
<1> QED
  BY <1>1, <1>2, FinishKeeps

\* A command succeeds.
LEMMA EndKeeps ==
    ASSUME CommandInv, End
    PROVE  BytesInv' /\ TargetInv' /\ WriteInv' /\ SoundInv' /\ ResultInv'
<1>1. /\ job # NoJob /\ job.step = "ending" /\ op = "none" /\ ret.err = {}
      /\ Finish({}, ret.msg) /\ UNCHANGED primary
  BY DEF End, Running
<1>2. job.kind = "set" /\ Cardinality(job.meant) = 1 =>
          \A k \in job.meant : primary[k] = job.new
  BY <1>1 DEF CommandInv, WriteInv, Mute
<1>3. job.kind = "read" => ret.msg \in job.meant
  BY <1>1 DEF CommandInv, ResultInv
<1> QED
  BY <1>1, <1>2, <1>3, FinishKeeps

\* One E5h with nothing behind it selects the meter meant; anything else ends the
\* command.
LEMMA SelectedKeeps ==
    ASSUME CommandInv, Selected
    PROVE  BytesInv' /\ TargetInv' /\ WriteInv' /\ SoundInv' /\ ResultInv'
<1>1. /\ job # NoJob /\ job \in Jobs /\ job.step = "selecting" /\ op = "none"
      /\ job.target.secondary /\ job.kind \in {"read", "set"}
      /\ UNCHANGED <<line, op, ret, outbox, faults, selected, primary>>
  BY JobLemma DEF Selected, Running, CommandInv, CommandTypeOK, busVars
<1>2. CASE Responded /\ Goto(job.kind)
  <2>1. /\ job' \in Jobs /\ job' # NoJob /\ job'.step = job.kind /\ result' = result
        /\ job'.kind = job.kind /\ job'.target = job.target
        /\ job'.new = job.new /\ job'.meant = job.meant /\ job'.told = job.told
    BY <1>1, <1>2, GotoLemma DEF Steps, GoesOn
  <2>2. ret.err = {} /\ ret.msg = Ack /\ buf = <<>> /\ buf' = buf
    BY <1>2 DEF Responded
  <2>3. Void' = Void
    BY <1>1, <2>2 DEF Void
  <2>4. BytesInv'
    BY <1>1, <2>1, <2>2 DEF CommandInv, BytesInv
  <2>5. TargetInv'
    <3>1. selected = job.meant /\ job.meant = Matching(job.target.id)
      BY <1>1, <2>2 DEF CommandInv, TargetInv, Mute
    <3> QED
      BY <1>1, <2>1, <3>1 DEF TargetInv
  <2>6. WriteInv'
    <3>1. job.kind = "set" /\ Cardinality(job.meant) = 1 => Void
      BY <1>1, <2>2 DEF CommandInv, WriteInv, Few
    <3> QED
      BY <1>1, <2>1, <2>3, <3>1 DEF WriteInv
  <2>7. SoundInv'
    <3>1. TakenForOne' = TakenForOne
      BY <1>1, <2>1 DEF TakenForOne
    <3> QED
      BY <1>1, <2>1, <2>2, <3>1 DEF CommandInv, SoundInv
  <2>8. ResultInv'
    <3>1. result = NoJob
      BY <1>1 DEF CommandInv, ResultInv
    <3> QED
      BY <1>1, <2>1, <3>1 DEF ResultInv, SetMeansWritten, ReadIsOfTheMeant
  <2> QED
    BY <2>4, <2>5, <2>6, <2>7, <2>8
<1>3. CASE \/ Silent /\ Finish({"ErrSelectNoAnswer"}, NoMsg)
           \/ Collision /\ Finish({"ErrSelectCollision"}, NoMsg)
           \/ SelectFailed /\ Finish(ret.err, NoMsg)
  BY <1>1, <1>3, FinishKeeps DEF SelectFailed
<1> QED
  BY <1>2, <1>3 DEF Selected

\* The acknowledgement of the link reset has been taken.
LEMMA ResetDoneKeeps ==
    ASSUME CommandInv, ResetDone
    PROVE  BytesInv' /\ TargetInv' /\ WriteInv' /\ SoundInv' /\ ResultInv'
<1>1. /\ job # NoJob /\ job \in Jobs /\ job.step = "resetting" /\ op = "none" /\ ret.err = {}
      /\ ~job.target.secondary /\ job.kind \in {"read", "set"}
      /\ UNCHANGED <<line, buf, op, ret, outbox, faults, selected, primary>>
      /\ Goto(job.kind)
  BY JobLemma DEF ResetDone, Running, CommandInv, CommandTypeOK, busVars, clientVars
<1>2. /\ job' \in Jobs /\ job' # NoJob /\ job'.step = job.kind /\ result' = result
      /\ job'.kind = job.kind /\ job'.target = job.target
      /\ job'.new = job.new /\ job'.meant = job.meant
  BY <1>1, GotoLemma DEF Steps, GoesOn
<1>3. Void' = Void
  BY <1>1 DEF Void
<1>4. BytesInv'
  BY <1>1, <1>2 DEF CommandInv, BytesInv
<1>5. TargetInv'
  <2>1. At(job.target.addr) \subseteq job.meant
    BY <1>1 DEF CommandInv, TargetInv
  <2>2. At(job.target.addr)' = At(job.target.addr)
    BY <1>1, <1>2 DEF At
  <2> QED
    BY <1>1, <1>2, <2>1, <2>2 DEF TargetInv
<1>6. WriteInv'
  <2>1. job.kind = "set" /\ Cardinality(job.meant) = 1 => Void
    BY <1>1 DEF CommandInv, WriteInv, Few
  <2> QED
    BY <1>1, <1>2, <1>3, <2>1 DEF WriteInv
<1>7. SoundInv'
  BY <1>1, <1>2 DEF SoundInv
<1>8. ResultInv'
  <2>1. result = NoJob
    BY <1>1 DEF CommandInv, ResultInv
  <2> QED
    BY <1>1, <1>2, <2>1 DEF ResultInv, SetMeansWritten, ReadIsOfTheMeant
<1> QED
  BY <1>4, <1>5, <1>6, <1>7, <1>8

\* What a call's start leaves: the bytes there were, and what is sent with it.
LEMMA CallLemma ==
    ASSUME CommandInv, job \in Jobs, NEW o, NEW step \in Steps, Call(o), GoesOn(step),
           o # "none"
    PROVE  /\ job' \in Jobs /\ job' # NoJob /\ job'.step = step /\ result' = NoJob
           /\ job'.kind = job.kind /\ job'.target = job.target
           /\ job'.new = job.new /\ job'.meant = job.meant
           /\ op' # "none" /\ UNCHANGED <<line, buf>>
           /\ outbox' \in Seq(Seq(BytesOf(job.meant))) => BytesInv'
           /\ ResultInv'
<1>1. /\ job' \in Jobs /\ job' # NoJob /\ job'.step = step /\ result' = result
      /\ job'.kind = job.kind /\ job'.target = job.target
      /\ job'.new = job.new /\ job'.meant = job.meant
  BY DEF GoesOn
<1>2. op' = o /\ UNCHANGED <<line, buf>>
  BY DEF Call
<1>3. result = NoJob
  BY JobLemma DEF CommandInv, ResultInv
<1>4. outbox' \in Seq(Seq(BytesOf(job.meant))) => BytesInv'
  BY <1>1, <1>2, JobLemma DEF CommandInv, BytesInv
<1>5. ResultInv'
  BY <1>1, <1>2, <1>3 DEF ResultInv, SetMeansWritten, ReadIsOfTheMeant
<1> QED
  BY <1>1, <1>2, <1>3, <1>4, <1>5

\* What waits after some of the meters meant were sent a frame they acknowledge.
LEMMA AcksLemma ==
    ASSUME CommandInv, job \in Jobs, NEW S, S \subseteq job.meant,
           \/ Answers(Acks(S)) /\ UNCHANGED faults
           \/ Fault /\ UNCHANGED outbox
    PROVE  /\ outbox' \in Seq(Seq(BytesOf(job.meant)))
           /\ Void => outbox' = <<>> \/ \E s \in Acks(S) \ {<<>>} : outbox' = <<s>>
<1>1. job.meant \in SUBSET Meters /\ outbox \in Seq(Seq(BytesOf(job.meant)))
  BY JobLemma DEF CommandInv, BytesInv
<1>2. CASE Answers(Acks(S))
  <2>1. Acks(S) \subseteq Seq(BytesOf(job.meant))
    <3>1. S \in SUBSET Meters /\ BytesOf(S) \subseteq BytesOf(job.meant)
      BY <1>1 DEF BytesOf
    <3>2. Acks(S) \subseteq Seq(BytesOf(S))
      BY <3>1, SentBytes
    <3> QED
      BY <3>1, <3>2, SeqGrows
  <2> QED
    BY <1>1, <1>2, <2>1, AnswersLemma DEF Void
<1>3. CASE UNCHANGED outbox
  BY <1>1, <1>3 DEF Void
<1> QED
  BY <1>2, <1>3

\* Of one meter, all are reached or none.
LEMMA OneMeant ==
    ASSUME NEW S \in SUBSET Meters, NEW T, Cardinality(S) = 1, T \subseteq S
    PROVE  T \in {{}, S}
<1>1. \E y : S = {y}
  BY SelectionAssumption, FS_Subset, FS_Singleton
<1> QED
  BY <1>1

\* It acknowledges with one E5h, where it is reached.
LEMMA OneAck ==
    ASSUME NEW S \in SUBSET Meters, NEW T, Cardinality(S) = 1, T \subseteq S
    PROVE  Acks(T) \ {<<>>} \subseteq {Bytes(Ack)}
<1>1. T = {} \/ T = S
  BY OneMeant
<1>2. T = {} => Acks(T) = {<<>>}
  BY DEF Acks
<1>3. T = S => T # {}
  BY FS_EmptySet
<1> QED
  BY <1>1, <1>2, <1>3 DEF Acks

\* The selection frame reaches all meters with the number, or none.
LEMMA SelectKeeps ==
    ASSUME CommandInv, Select
    PROVE  BytesInv' /\ TargetInv' /\ WriteInv' /\ SoundInv' /\ ResultInv'
<1>1. /\ job \in Jobs /\ job # NoJob /\ job.step = "select" /\ op = "none"
      /\ job.target.secondary /\ job.meant = Matching(job.target.id) /\ Void
      /\ job.meant \in SUBSET Meters /\ outbox \in Seq(Seq(Byte))
  BY JobLemma DEF Select, Running, CommandInv, CommandTypeOK, TargetInv
<1>2. /\ Call("probeSilence") /\ GoesOn("selecting") /\ UNCHANGED primary
      /\ job'.told = IF outbox' = outbox THEN <<>> ELSE outbox'[Len(outbox')]
  BY <1>1, SelectLemma DEF Select, SendSelect
<1>3. \/ selected' = job.meant /\ Answers(Acks(job.meant)) /\ UNCHANGED faults
      \/ Fault /\ UNCHANGED <<outbox, selected>>
  BY <1>1 DEF Select, SendSelect, AnswerSelect
<1>4. /\ job' \in Jobs /\ job' # NoJob /\ job'.step = "selecting" /\ result' = NoJob
      /\ job'.kind = job.kind /\ job'.target = job.target
      /\ job'.new = job.new /\ job'.meant = job.meant
      /\ op' # "none" /\ UNCHANGED <<line, buf>> /\ ResultInv'
      /\ outbox' \in Seq(Seq(BytesOf(job.meant))) => BytesInv'
  BY <1>1, <1>2, CallLemma DEF Steps
<1>5. /\ outbox' \in Seq(Seq(BytesOf(job.meant)))
      /\ outbox' = <<>> \/ \E s \in Acks(job.meant) \ {<<>>} : outbox' = <<s>>
  BY <1>1, <1>3, AcksLemma
<1>6. /\ outbox = <<>> /\ Len(buf') + Len(line') = 0 /\ buf' = <<>> /\ line' = <<>>
  BY <1>1, <1>4, VoidLemma DEF Void, CommandInv
<1>7. TargetInv'
  <2>1. selected' = job.meant \/ Mute'
    BY <1>3, <1>4, <1>6 DEF Mute, Void
  <2> QED
    BY <1>1, <1>4, <2>1 DEF TargetInv
<1>8. WriteInv'
  <2>1. Cardinality(job.meant) = 1 => Few'
    BY <1>1, <1>4, <1>5, <1>6, OneAck DEF Few
  <2> QED
    BY <1>4, <2>1 DEF WriteInv
<1>9. SoundInv'
  <2> SUFFICES ASSUME Cardinality(job.meant) # 1 PROVE Void' \/ Several'
    BY <1>4 DEF SoundInv
  <2>1. CASE outbox' = <<>>
    BY <1>6, <2>1 DEF Void
  <2>2. CASE outbox' # <<>>
    <3>1. PICK s \in Acks(job.meant) \ {<<>>} : outbox' = <<s>>
      BY <1>5, <2>2
    <3>2. s \in Overlaps
      BY <3>1 DEF Acks
    <3>3. job'.told = s
      BY <1>2, <1>6, <2>2, <3>1
    <3> QED
      BY <1>6, <3>1, <3>2, <3>3 DEF Several
  <2> QED
    BY <2>1, <2>2
<1> QED
  BY <1>4, <1>5, <1>7, <1>8, <1>9

\* The link reset of a primary address.
LEMMA ResetKeeps ==
    ASSUME CommandInv, Reset
    PROVE  BytesInv' /\ TargetInv' /\ WriteInv' /\ SoundInv' /\ ResultInv'
<1> DEFINE S == Reached(job.target)
<1>1. /\ job \in Jobs /\ job # NoJob /\ job.step = "reset" /\ op = "none"
      /\ ~job.target.secondary /\ S \subseteq job.meant /\ S = At(job.target.addr) /\ Void
      /\ job.meant \in SUBSET Meters /\ selected \in SUBSET Meters
  BY JobLemma DEF Reset, Running, CommandInv, CommandTypeOK, TargetInv, Reached
<1>2. Call("ReadSingleCharFrame") /\ GoesOn("resetting") /\ UNCHANGED primary
  BY <1>1, GotoLemma DEF Reset, Steps
<1>3. /\ \/ Answers(Acks(S)) /\ UNCHANGED faults
         \/ Fault /\ UNCHANGED outbox
      /\ selected' \in StillSelected(job.target.addr)
  BY DEF Reset, StillSelected
<1>4. /\ job' \in Jobs /\ job' # NoJob /\ job'.step = "resetting" /\ result' = NoJob
      /\ job'.kind = job.kind /\ job'.target = job.target
      /\ job'.new = job.new /\ job'.meant = job.meant
      /\ op' # "none" /\ UNCHANGED <<line, buf>> /\ ResultInv'
      /\ outbox' \in Seq(Seq(BytesOf(job.meant))) => BytesInv'
  BY <1>1, <1>2, CallLemma DEF Steps
<1>5. /\ outbox' \in Seq(Seq(BytesOf(job.meant)))
      /\ outbox' = <<>> \/ \E s \in Acks(S) \ {<<>>} : outbox' = <<s>>
  BY <1>1, <1>3, AcksLemma
<1>6. Len(buf') + Len(line') = 0
  BY <1>1, <1>4 DEF Void
<1>7. TargetInv'
  <2>1. PICK a : a = job.target.addr /\ a = job'.target.addr
    BY <1>4
  <2>2. At(a)' \subseteq job.meant
    BY <1>1, <1>2, <1>3, <2>1, StillSelectedLemma
  <2> QED
    BY <1>1, <1>4, <2>1, <2>2 DEF TargetInv
<1>8. WriteInv'
  <2>1. Cardinality(job.meant) = 1 => Few'
    BY <1>1, <1>4, <1>5, <1>6, OneAck DEF Few
  <2> QED
    BY <1>4, <2>1 DEF WriteInv
<1>9. SoundInv'
  BY <1>1, <1>4 DEF SoundInv
<1> QED
  BY <1>4, <1>5, <1>7, <1>8, <1>9

\* The request reaches no meters but those meant.
LEMMA RequestKeeps ==
    ASSUME CommandInv, Request
    PROVE  BytesInv' /\ TargetInv' /\ WriteInv' /\ SoundInv' /\ ResultInv'
<1> DEFINE S == Reached(job.target)
<1>1. /\ job \in Jobs /\ job # NoJob /\ job.step = "read" /\ job.kind = "read" /\ op = "none"
      /\ S \subseteq job.meant
      /\ job.target.secondary => job.meant = Matching(job.target.id)
      /\ job.meant \in SUBSET Meters /\ outbox \in Seq(Seq(BytesOf(job.meant)))
  BY JobLemma DEF Request, Running, CommandInv, CommandTypeOK, TargetInv, BytesInv, Reached
<1>2. Call("ReadLongFrame") /\ GoesOn("ending")
  BY <1>1, GotoLemma DEF Request, Steps
<1>3. /\ job' \in Jobs /\ job' # NoJob /\ job'.step = "ending" /\ result' = NoJob
      /\ job'.kind = job.kind /\ job'.target = job.target /\ job'.meant = job.meant
      /\ op' # "none" /\ ResultInv'
      /\ outbox' \in Seq(Seq(BytesOf(job.meant))) => BytesInv'
  BY <1>1, <1>2, CallLemma DEF Steps
<1>4. outbox' \in Seq(Seq(BytesOf(job.meant)))
  <2>1. Data(S) \subseteq Seq(BytesOf(job.meant))
    <3>1. S \in SUBSET Meters /\ BytesOf(S) \subseteq BytesOf(job.meant)
      BY <1>1 DEF BytesOf
    <3>2. Data(S) \subseteq Seq(BytesOf(S))
      BY <3>1, SentBytes
    <3> QED
      BY <3>1, <3>2, SeqGrows
  <2>2. Answers(Data(S)) \/ UNCHANGED outbox
    BY DEF Request
  <2> QED
    BY <1>1, <2>1, <2>2, AnswersLemma
<1> QED
  BY <1>1, <1>3, <1>4 DEF TargetInv, WriteInv, SoundInv

\* The write reaches no meters but those meant, and each that it reaches acknowledges.
LEMMA SetKeeps ==
    ASSUME CommandInv, SetAddress
    PROVE  /\ BytesInv' /\ TargetInv' /\ WriteInv' /\ SoundInv' /\ ResultInv'
           /\ \A m \in Meters : primary'[m] # primary[m] => m \in job.meant
<1> DEFINE S == Reached(job.target)
<1>1. /\ job \in Jobs /\ job # NoJob /\ job.step = "set" /\ job.kind = "set" /\ op = "none"
      /\ S \subseteq job.meant
      /\ job.target.secondary => job.meant = Matching(job.target.id)
      /\ job.meant \in SUBSET Meters
      /\ Cardinality(job.meant) = 1 => Void
  BY JobLemma DEF SetAddress, Running, CommandInv, CommandTypeOK, TargetInv, WriteInv, Reached
<1>2. Call("ReadSingleCharFrame") /\ GoesOn("ending")
  BY <1>1, GotoLemma DEF SetAddress, Steps
<1>3. \/ /\ primary' = [m \in Meters |-> IF m \in S THEN job.new ELSE primary[m]]
         /\ Answers(Acks(S)) /\ UNCHANGED faults
      \/ Fault /\ UNCHANGED <<outbox, primary>>
  BY DEF SetAddress
<1>4. /\ job' \in Jobs /\ job' # NoJob /\ job'.step = "ending" /\ result' = NoJob
      /\ job'.kind = job.kind /\ job'.target = job.target
      /\ job'.new = job.new /\ job'.meant = job.meant
      /\ op' # "none" /\ UNCHANGED <<line, buf>> /\ ResultInv'
      /\ outbox' \in Seq(Seq(BytesOf(job.meant))) => BytesInv'
  BY <1>1, <1>2, CallLemma DEF Steps
<1>5. /\ outbox' \in Seq(Seq(BytesOf(job.meant)))
      /\ Void => outbox' = <<>> \/ \E s \in Acks(S) \ {<<>>} : outbox' = <<s>>
  BY <1>1, <1>3, AcksLemma
<1>6. WriteInv'
  <2>1. ASSUME Cardinality(job.meant) = 1
        PROVE  Mute' \/ \A m \in job.meant : primary'[m] = job.new
    <3>1. CASE outbox' = <<>>
      BY <1>1, <1>4, <2>1, <3>1 DEF Mute, Void
    <3>2. CASE outbox' # <<>>
      <4>1. /\ S # {} /\ primary' = [m \in Meters |-> IF m \in S THEN job.new ELSE primary[m]]
        BY <1>1, <1>3, <1>5, <2>1, <3>2 DEF Acks, Void
      <4>2. S = job.meant
        BY <1>1, <2>1, <4>1, OneMeant
      <4> QED
        BY <1>1, <4>1, <4>2
    <3> QED
      BY <3>1, <3>2
  <2> QED
    BY <1>4, <2>1 DEF WriteInv
<1>7. \A m \in Meters : primary'[m] # primary[m] => m \in job.meant
  BY <1>1, <1>3
<1> QED
  BY <1>1, <1>4, <1>5, <1>6, <1>7 DEF TargetInv, SoundInv

-----------------------------------------------------------------------------
(* The calls                                                               *)

\* What several acknowledged together is taken for one E5h only if it is that, or if
\* the rest of it is still to be read.
LEMMA SeveralReads ==
    ASSUME CommandTypeOK, Several, BusStep, job' = job,
           op \in {"probeSilence", "probeResponse"}
    PROVE  IF op' = "none" THEN ret'.err = {} /\ ret'.msg = Ack /\ buf' = <<>> => TakenForOne'
           ELSE Several'
<1>1. /\ ClientTypeOK /\ ClientStep /\ outbox' = outbox
      /\ buf \in Seq(Byte) /\ line \in Seq(Byte) /\ Len(buf) \in Nat /\ Len(line) \in Nat
  BY VoidLemma DEF BusStep, busVars, CommandTypeOK, ClientTypeOK
<1>2. PICK s \in Overlaps : s = job.told /\ s = job'.told
  BY DEF Several
<1>3. s \in Seq({<<Ack, 1>>, Junk}) /\ s # <<>>
  BY SelectionAssumption
<1>4. CASE UNCHANGED <<line, buf>>
  <2>1. op' = "none" => ret'.err # {}
    BY <1>1, <1>4, StepConserves DEF CommandTypeOK
  <2>2. Several'
    BY <1>1, <1>4 DEF Several
  <2> QED
    BY <2>1, <2>2
<1>5. CASE Fill /\ ~UNCHANGED <<line, buf>>
  <2>1. PICK c \in 1..Len(line) : FillBytes(c) /\ op' = op
    BY <1>1, <1>5, FillOutcomes
  <2>2. buf' \o line' = buf \o line
    BY <1>1, <2>1, FillConserves
  <2>3. line # <<>>
    BY <1>1, <2>1, EmptySeq
  <2> QED
    BY <1>1, <2>1, <2>2, <2>3 DEF Several
<1>6. CASE Look /\ ~UNCHANGED <<line, buf>>
  <2>1. /\ line' = line
        /\ \/ \E m \in Msg : /\ takeBufferedFrame(buf) = Parsed(m)
                            /\ buf' = Drop(buf, Size[m]) /\ op' = "none" /\ ret'.msg = m
           \/ buf' = <<>> /\ op' = "none" /\ ret'.err # {}
    BY <1>6, ProbeOutcomes
  <2> SUFFICES ASSUME takeBufferedFrame(buf) = Parsed(Ack), buf' = Drop(buf, Size[Ack]),
                      buf' = <<>>, line = <<>>
               PROVE  s = Bytes(Ack)
    BY <1>2, <2>1 DEF TakenForOne
  <2>2. Size[Ack] = 1 /\ Ack \in Msg /\ Size[Ack] \in 1..Len(buf)
    BY <1>1, TakenIsThere, ClientAssumption
  <2>3. 1 \in 0..Len(buf)
    BY <1>1, <2>2
  <2>4. Len(Drop(buf, 1)) = Len(buf) - 1
    BY <1>1, <2>3, DropLemma
  <2>5. Len(buf) = 1 /\ buf # <<>>
    <3>1. Drop(buf, 1) = <<>> /\ Len(<<>>) = 0
      BY <2>2
    <3>2. Len(buf) - 1 = 0
      BY <2>4, <3>1
    <3>3. \A n \in Nat : n - 1 = 0 => n = 1
      OBVIOUS
    <3>4. Len(buf) = 1
      BY <1>1, <3>2, <3>3
    <3>5. buf # <<>>
      <4> SUFFICES ASSUME buf = <<>> PROVE FALSE
        OBVIOUS
      <4>1. Len(buf) = 0
        BY <3>1
      <4> QED
        BY <3>4, <4>1
    <3> QED
      BY <3>4, <3>5
  <2>6. buf = s
    <3>1. buf \o line = buf
      BY <1>1, ConcatEmptySeq
    <3> QED
      BY <1>2, <2>5, <3>1 DEF Several
  <2>7. IsE5(buf[1])
    <3>1. ASSUME ~IsE5(buf[1]) PROVE FALSE
      <4>1. parseLongFrame(buf) = Parsed(Ack)
        BY <2>5, <3>1 DEF takeBufferedFrame
      <4> QED
        BY <1>1, <2>2, <4>1, ParsedIsThere DEF LongMsg
    <3> QED
      BY <3>1
  <2>8. buf[1] = <<Ack, 1>>
    <3>1. buf[1] \in {<<Ack, 1>>, Junk}
      BY <1>3, <2>5, <2>6, ElementOfSeq
    <3> QED
      BY <2>7, <3>1, JunkIsNoE5
  <2>9. buf = Bytes(Ack)
    <3>1. /\ Bytes(Ack) \in Seq(Byte) /\ Len(Bytes(Ack)) = 1
          /\ \A i \in 1..1 : Bytes(Ack)[i] = <<Ack, i>>
      BY <2>2, BytesLemma
    <3>2. \A i \in 1..1 : buf[i] = Bytes(Ack)[i]
      BY <2>8, <3>1
    <3> QED
      BY <1>1, <2>5, <3>1, <3>2, SeqEqual
  <2> QED
    BY <2>6, <2>9
<1> QED
  BY <1>1, <1>4, <1>5, <1>6 DEF ClientStep

\* A call of the command goes on, or returns.
LEMMA ReadKeeps ==
    ASSUME CommandInv, Read
    PROVE  BytesInv' /\ TargetInv' /\ WriteInv' /\ SoundInv' /\ ResultInv'
<1>1. /\ ClientStep /\ ClientTypeOK /\ (op = "none" => at = "look")
      /\ UNCHANGED <<outbox, faults, selected, primary, job, result>>
  BY DEF Read, BusStep, busVars, CommandInv, CommandTypeOK
<1>2. /\ op # "none" /\ ClientTypeOK'
      /\ op' \in {op, "none"} \/ (op = "probeSilence" /\ op' = "probeResponse")
  BY <1>1, ClientStepType
<1>3. /\ job # NoJob /\ job \in Jobs /\ job.step \notin {"select", "reset", "read", "set"}
      /\ op \in {"probeSilence", "probeResponse"} <=> job.step = "selecting"
      /\ op = "ReadLongFrame" => job.step = "ending" /\ job.kind = "read"
      /\ op = "ReadSingleCharFrame" => job.step = "resetting" \/ (job.step = "ending" /\ job.kind = "set")
  BY <1>2 DEF CommandInv, CommandTypeOK, ClientTypeOK, Ops
<1>4. /\ Len(buf) \in Nat /\ Len(line) \in Nat /\ Len(buf') \in Nat /\ Len(line') \in Nat
      /\ Len(buf') + Len(line') <= Len(buf) + Len(line)
      /\ op' = "none" /\ ret'.err = {} => Len(buf') + Len(line') < Len(buf) + Len(line)
  BY <1>1, <1>2, StepConserves, LenProperties DEF ClientTypeOK
<1>5. Void => Mute' /\ Void'
  BY <1>1, <1>4 DEF Void, Mute
<1>6. BytesInv'
  BY <1>1, <1>3, StepBytes DEF CommandInv, BytesInv
<1>7. TargetInv'
  <2>1. At(job.target.addr)' = At(job.target.addr)
    BY <1>1 DEF At
  <2> QED
    BY <1>1, <1>3, <1>5, <2>1 DEF CommandInv, TargetInv, Mute
<1>8. WriteInv'
  <2>1. Few => Few'
    BY <1>1, <1>4 DEF Few, Void
  <2>2. Mute => Mute'
    BY <1>5 DEF Mute
  <2> QED
    BY <1>1, <1>3, <2>1, <2>2 DEF CommandInv, WriteInv
<1>9. SoundInv'
  <2> SUFFICES ASSUME faults = 0, job.target.secondary,
                      Cardinality(job.meant) # 1, job.step = "selecting"
               PROVE  IF op' = "none"
                      THEN ret'.err = {} /\ ret'.msg = Ack /\ buf' = <<>> => TakenForOne'
                      ELSE Void' \/ Several'
    BY <1>1, <1>3 DEF SoundInv
  <2>1. CASE Void
    BY <1>5, <2>1 DEF Mute
  <2>2. CASE Several
    BY <1>1, <1>3, <2>2, SeveralReads DEF Read, CommandInv
  <2> QED
    BY <1>2, <1>3, <2>1, <2>2 DEF CommandInv, SoundInv
<1>10. ResultInv'
  <2>1. ASSUME job.kind = "read", job.step = "ending", op' = "none", ret'.err = {}
        PROVE  ret'.msg \in job.meant
    <3>1. op = "ReadLongFrame"
      <4>1. op \in {"ReadLongFrame", "ReadSingleCharFrame", "probeSilence", "probeResponse"}
        BY <1>1, <1>2 DEF ClientTypeOK, Ops
      <4> QED
        BY <4>1, <1>3, <2>1
    <3>2. PICK m \in LongMsg : parseLongFrame(buf) = Parsed(m) /\ ret'.msg = m
      BY <1>1, <2>1, <3>1, LongOutcomes, FillOutcomes DEF ClientStep
    <3>3. /\ buf \in Seq(Byte) /\ buf \in Seq(BytesOf(job.meant))
          /\ m \in Msg /\ m # Ack /\ HeadLen \in Nat \ {0}
      BY <1>1, <1>3, ClientAssumption DEF CommandInv, BytesInv, ClientTypeOK, LongMsg
    <3>4. Size[m] \in HeadLen..Len(buf) /\ \A i \in 1..Size[m] : buf[i] = <<m, i>>
      BY <3>2, <3>3, ParsedIsThere
    <3>5. 1 \in 1..Size[m] /\ 1 \in 1..Len(buf)
      BY <1>4, <3>3, <3>4
    <3>6. <<m, 1>> \in BytesOf(job.meant)
      BY <3>3, <3>4, <3>5, ElementOfSeq
    <3>7. <<m, 1>> # Junk /\ <<m, 1>> # <<Ack, 1>>
      BY <3>3, <3>5, ClientAssumption DEF Wire
    <3> QED
      BY <3>2, <3>6, <3>7 DEF BytesOf
  <2> QED
    BY <1>1, <1>3, <2>1 DEF CommandInv, ResultInv, SetMeansWritten, ReadIsOfTheMeant
<1> QED
  BY <1>6, <1>7, <1>8, <1>9, <1>10

-----------------------------------------------------------------------------
(* The line and the context                                                *)

\* What goes on the line is bytes.
LEMMA TransmitSent ==
    ASSUME CommandInv, outbox # <<>>, NEW s \in Damaged(Head(outbox)) \cup {Head(outbox)}
    PROVE  s \in Seq(Byte)
<1>1. Head(outbox) \in Seq(Byte)
  BY HeadTailProperties DEF CommandInv, CommandTypeOK
<1> QED
  BY <1>1, DamagedType

\* An answer goes on the line, as it is or damaged.
LEMMA TransmitKeeps ==
    ASSUME CommandInv, Transmit
    PROVE  BytesInv' /\ TargetInv' /\ WriteInv' /\ SoundInv' /\ ResultInv'
<1>1. /\ outbox # <<>> /\ outbox' = Tail(outbox)
      /\ UNCHANGED <<buf, op, at, ret, selected, primary, job, result>>
  BY DEF Transmit, TransmitWhole, TransmitDamaged, Receive
<1>2. PICK s \in Damaged(Head(outbox)) \cup {Head(outbox)} :
          line' = line \o s /\ (faults' = 0 => s = Head(outbox))
  <2>1. Fault => faults' # 0
    BY DEF Fault, CommandInv, CommandTypeOK
  <2> QED
    BY <2>1 DEF Transmit, TransmitWhole, TransmitDamaged, Receive
<1>3. faults' = 0 => faults = 0
  BY DEF Transmit, TransmitWhole, TransmitDamaged, Fault, CommandInv, CommandTypeOK
<1>4. ~Void /\ ~Mute
  BY <1>1 DEF Void, Mute
<1>5. BytesInv'
  <2> SUFFICES ASSUME job # NoJob PROVE BytesInv'
    BY <1>1 DEF BytesInv
  <2> DEFINE B == BytesOf(job.meant)
  <2>1. /\ outbox \in Seq(Seq(B)) /\ line \in Seq(B) /\ buf \in Seq(B) /\ Junk \in B
    BY SentBytes, JobLemma DEF CommandInv, CommandTypeOK, BytesInv
  <2> HIDE DEF B
  <2>2. Head(outbox) \in Seq(B) /\ Tail(outbox) \in Seq(Seq(B))
    BY <1>1, <2>1, HeadTailProperties
  <2>3. s \in Seq(B)
    BY <1>2, <2>1, <2>2, DamagedBytes
  <2>4. line' \in Seq(B)
    BY <1>2, <2>1, <2>3, ConcatProperties
  <2> QED
    BY <1>1, <2>1, <2>2, <2>4 DEF BytesInv, B
<1>6. TargetInv'
  <2>1. At(job.target.addr)' = At(job.target.addr)
    BY <1>1 DEF At
  <2> QED
    BY <1>1, <1>4, <2>1 DEF CommandInv, TargetInv
<1>7. WriteInv'
  <2>1. ASSUME Few PROVE Few'
    <3>1. /\ outbox = <<Bytes(Ack)>> /\ Len(buf) + Len(line) = 0
          /\ ~(op = "none" /\ ret.err = {})
      BY <1>1, <1>4, <2>1 DEF Few
    <3>2. Head(outbox) = Bytes(Ack) /\ outbox' = <<>>
      BY <1>1, <3>1
    <3>3. Bytes(Ack) \in Seq(Byte) /\ Len(Bytes(Ack)) = 1 /\ Junk \in Byte
      BY BytesLemma, ClientAssumption DEF Byte
    <3>4. s \in Seq(Byte) /\ Len(s) <= 1
      BY <1>2, <3>2, <3>3, DamagedBytes
    <3>5. Len(buf) \in Nat /\ Len(line) \in Nat /\ line \in Seq(Byte) /\ Len(s) \in Nat
      BY <3>4, VoidLemma, LenProperties DEF CommandInv, CommandTypeOK, ClientTypeOK
    <3>6. Len(line') = Len(line) + Len(s)
      BY <1>2, <3>4, <3>5, ConcatProperties
    <3> QED
      BY <1>1, <3>1, <3>2, <3>4, <3>5, <3>6 DEF Few
  <2> QED
    BY <1>1, <1>4, <2>1 DEF CommandInv, WriteInv
<1>8. SoundInv'
  <2>1. ASSUME Several, faults' = 0 PROVE Several'
    <3>1. PICK q \in Overlaps : q = job.told /\ outbox = <<q>> /\ line = <<>> /\ buf = <<>>
      BY <1>1, <2>1 DEF Several
    <3>2. Head(outbox) = q /\ outbox' = <<>>
      BY <1>1, <3>1
    <3>3. line' = q /\ <<>> \o q = q
      BY <1>2, <2>1, <3>1, <3>2, ConcatEmptySeq, SelectionAssumption
    <3>4. buf' \o line' = q
      BY <1>1, <3>1, <3>3
    <3> QED
      BY <1>1, <3>1, <3>2, <3>4 DEF Several
  <2>2. TakenForOne => TakenForOne'
    <3>1. ASSUME line # <<>> PROVE line' # <<>>
      <4>1. line \in Seq(Byte) /\ s \in Seq(Byte)
        BY <1>1, <1>2, TransmitSent DEF CommandInv, CommandTypeOK, ClientTypeOK
      <4>2. Len(line) \in Nat \ {0} /\ Len(s) \in Nat /\ Len(line \o s) = Len(line) + Len(s)
        BY <3>1, <4>1, LenProperties, EmptySeq, ConcatProperties
      <4> QED
        BY <1>2, <4>2, EmptySeq
    <3> QED
      BY <1>1, <3>1 DEF TakenForOne
  <2> QED
    BY <1>1, <1>3, <1>4, <2>1, <2>2 DEF CommandInv, SoundInv
<1>9. ResultInv'
  BY <1>1 DEF CommandInv, ResultInv, SetMeansWritten, ReadIsOfTheMeant
<1> QED
  BY <1>5, <1>6, <1>7, <1>8, <1>9

\* Where the bytes, the meters and the command stay, so does all that is said of them.
LEMMA OutsideKeeps ==
    ASSUME CommandInv,
           UNCHANGED <<line, buf, outbox, op, ret, selected, primary, job, result>>,
           faults' = 0 => faults = 0
    PROVE  BytesInv' /\ TargetInv' /\ WriteInv' /\ SoundInv' /\ ResultInv'
<1>1. /\ At(job.target.addr)' = At(job.target.addr) /\ Void' = Void /\ Mute' = Mute
      /\ Few' = Few /\ Several' = Several /\ TakenForOne' = TakenForOne
  BY DEF At, Void, Mute, Few, Several, TakenForOne
<1>2. BytesInv'
  BY DEF CommandInv, BytesInv
<1>3. TargetInv'
  BY <1>1 DEF CommandInv, TargetInv
<1>4. WriteInv'
  BY <1>1 DEF CommandInv, WriteInv
<1>5. SoundInv'
  BY <1>1 DEF CommandInv, SoundInv
<1>6. ResultInv'
  BY DEF CommandInv, ResultInv, SetMeansWritten, ReadIsOfTheMeant
<1> QED
  BY <1>2, <1>3, <1>4, <1>5, <1>6

-----------------------------------------------------------------------------
(* The invariant                                                           *)

LEMMA InitCommand == Init => CommandInv
  BY InitCommandType
     DEF CommandInv, Init, BytesInv, TargetInv, WriteInv, SoundInv, ResultInv,
         SetMeansWritten, ReadIsOfTheMeant

LEMMA NextCommand == CommandInv /\ [Next]_vars => CommandInv'
<1> SUFFICES ASSUME CommandInv, [Next]_vars PROVE CommandInv'
  OBVIOUS
<1>1. CommandTypeOK'
  BY NextCommandType DEF CommandInv
<1>2. BytesInv' /\ TargetInv' /\ WriteInv' /\ SoundInv' /\ ResultInv'
  <2>1. CASE \E kind \in {"read", "set"}, target \in Targets, new \in Primaries :
               Start(kind, target, new)
    BY <2>1, StartKeeps
  <2>2. CASE Master
    BY <2>2, SelectKeeps, SelectedKeeps, ResetKeeps, ResetDoneKeeps, RequestKeeps, SetKeeps,
       EndKeeps, FailedKeeps, ReadKeeps DEF Master
  <2>3. CASE Transmit
    BY <2>3, TransmitKeeps
  <2>4. CASE Deadline \/ Cancel \/ UNCHANGED vars
    <3>1. UNCHANGED <<line, buf, outbox, op, ret, selected, primary, job, result, faults>>
      BY <2>4 DEF Deadline, BusDeadline, DeadlinePasses, Cancel, CtxEnds, vars, clientVars,
         busVars
    <3> QED
      BY <3>1, OutsideKeeps
  <2> QED
    BY <2>1, <2>2, <2>3, <2>4 DEF Next
<1> QED
  BY <1>1, <1>2 DEF CommandInv

\* Only SetAddress writes.
LEMMA OthersWriteNothing ==
    ASSUME [Next]_vars, ~SetAddress
    PROVE  primary' = primary
  BY DEF Next, Master, Start, Select, Selected, Reset, ResetDone, Request, End, WriteRefused,
     ReadFailed, Read, Transmit, Deadline, Cancel, vars

\* set-address that reports success has written the one meter it names (setaddr.go
\* 84-94), for any meters and addresses, whatever is lost, damaged or late: the one
\* acknowledgement before the write has been read, so that the next is the write's.
THEOREM SetIsWritten == Spec => []SetMeansWritten
<1>1. CommandInv => SetMeansWritten
  BY DEF CommandInv, ResultInv
<1> QED
  BY <1>1, InitCommand, NextCommand, PTL DEF Spec

\* What read returns was sent by a meter it means: a command has a line of its own,
\* and selects or addresses no other meter (cmd/mbusctl/read.go).
THEOREM ReadIsTrue == Spec => []ReadIsOfTheMeant
<1>1. CommandInv => ReadIsOfTheMeant
  BY DEF CommandInv, ResultInv
<1> QED
  BY <1>1, InitCommand, NextCommand, PTL DEF Spec

\* No command writes a meter it does not mean, whatever selection an earlier command
\* left behind, and to whatever target it is given: a selection that was not heard has
\* no answer and ends the command, and at 0xFD only what was selected when the command
\* began is written.
THEOREM OthersAreNotWritten == Spec => OnlyTheMeantAreWritten
<1> DEFINE A == \A m \in Meters : primary'[m] # primary[m] => m \in job.meant
<1>1. CommandInv /\ [Next]_vars => [A]_vars
  <2> SUFFICES ASSUME CommandInv, [Next]_vars PROVE A
    OBVIOUS
  <2>1. CASE SetAddress
    BY <2>1, SetKeeps
  <2>2. CASE ~SetAddress
    BY <2>2, OthersWriteNothing
  <2> QED
    BY <2>1, <2>2
<1> QED
  BY <1>1, InitCommand, NextCommand, PTL DEF Spec, OnlyTheMeantAreWritten

\* While no fault has occurred, a command that names an identification number writes
\* several meters only if their acknowledgements came as one E5h or the rest of them
\* was still to be read (setaddr.go 69-72 and scan.go 280), wherever the Reads end and
\* whatever several acknowledgements may arrive as.
THEOREM SelectionIsOfOne == Spec => OneIsToldFromSeveral
<1> DEFINE A == primary' # primary /\ job.target.secondary /\ faults = 0
                   => Cardinality(job.meant) = 1 \/ job.told = Bytes(Ack) \/ line # <<>>
<1>1. CommandInv /\ [Next]_vars => [A]_vars
  <2> SUFFICES ASSUME CommandInv, [Next]_vars, primary' # primary PROVE A
    OBVIOUS
  <2>1. SetAddress
    BY OthersWriteNothing
  <2>2. job # NoJob /\ job.step = "set"
    BY <2>1 DEF SetAddress, Running
  <2> QED
    BY <2>2 DEF CommandInv, SoundInv, TakenForOne
<1> QED
  BY <1>1, InitCommand, NextCommand, PTL DEF Spec, OneIsToldFromSeveral

=============================================================================
