--------------------------- MODULE MeterCommands ---------------------------
(***************************************************************************)
(* The commands of mbusctl that act on one meter: read and set-address, on *)
(* a meter named by its primary address or by its identification number.   *)
(* A command dials, so its Client and its line begin empty (withClient);   *)
(* and it is given when the meters have sent what they had to, so that an  *)
(* answer to the command before it goes nowhere.                           *)
(***************************************************************************)
EXTENDS Selection

CONSTANTS
    Primaries,      \* the primary addresses used
    FirstPrimary,   \* FirstPrimary[m]: the address m holds at first
    MaxJobs         \* bound: commands

addrSecondarySelect == 253
addrBroadcastReply == 254

ASSUME MeterCommandsAssumption ==
    /\ Primaries \subseteq 1..250
    /\ FirstPrimary \in [Meters -> Primaries]
    /\ MaxJobs \in Nat

VARIABLES
    primary,    \* primary[m]: the address m holds
    job,        \* the command in progress; its meant and told are history
                \* variables: whom it means, and what arrives of the answers
                \* to its selection
    result,     \* the last command, and the error it ended in or what it read
    jobs        \* commands begun

vars == <<clientVars, busVars, selected, primary, job, result, jobs>>

NoJob == [kind |-> "none"]

Init ==
    /\ ClientInit
    /\ BusInit
    /\ selected = {}
    /\ primary = FirstPrimary
    /\ job = NoJob
    /\ result = NoJob
    /\ jobs = 0

-----------------------------------------------------------------------------
\* parseTarget: an identification number, or a destination address.
Targets ==
    [secondary : {TRUE}, id : {Id[m] : m \in Meters}]
        \cup [secondary : {FALSE},
              addr : Primaries \cup {addrSecondarySelect, addrBroadcastReply}]

\* The meters a frame sent to a primary destination reaches: at 0xFD those that the
\* last selection they heard picked, be it of an earlier command.
At(addr) ==
    IF addr = addrSecondarySelect THEN selected
    ELSE IF addr = addrBroadcastReply THEN Meters
    ELSE {m \in Meters : primary[m] = addr}

\* The meters the command means when it begins.
Meant(target) ==
    IF target.secondary THEN Matching(target.id) ELSE At(target.addr)

\* Those its frames reach, the selection having been made.
Reached(target) == IF target.secondary THEN selected ELSE At(target.addr)

Running(step) == job # NoJob /\ job.step = step /\ op = "none"

Start(kind, target, new) ==
    /\ job = NoJob /\ jobs < MaxJobs
    /\ outbox = <<>>
    /\ job' = [kind |-> kind, target |-> target, new |-> new, meant |-> Meant(target),
               told |-> <<>>, step |-> IF target.secondary THEN "select" ELSE "reset"]
    /\ result' = NoJob
    /\ jobs' = jobs + 1
    /\ line' = <<>> /\ buf' = <<>>
    /\ conn' = "up" /\ ctx' = "live"
    /\ UNCHANGED <<op, at, late, ret, busVars, selected, primary>>

Finish(err, msg) ==
    /\ job' = NoJob
    /\ result' = [kind |-> job.kind, target |-> job.target, new |-> job.new,
                  meant |-> job.meant, err |-> err, msg |-> msg]

Goto(step) ==
    /\ job' = [job EXCEPT !.step = step]
    /\ UNCHANGED result

\* SelectSecondary.
Select ==
    /\ Running("select")
    /\ SendSelect(job.target.id)
    /\ job' = [job EXCEPT !.step = "selecting",
                          !.told = IF outbox' = outbox THEN <<>> ELSE outbox'[Len(outbox')]]
    /\ UNCHANGED <<ctx, primary, result, jobs>>

\* Mutant: silence is taken for success.
SelectedDespiteSilence ==
    /\ Running("selecting")
    /\ \/ (Responded \/ Silent) /\ Goto(job.kind)
       \/ Collision /\ Finish({"ErrSelectCollision"}, NoMsg)
    /\ UNCHANGED <<line, conn, ctx, op, at, late, ret, busVars, selected, primary, jobs>>

Selected ==
    /\ Running("selecting")
    /\ \/ Responded /\ Goto(job.kind)
       \/ Silent /\ Finish({"ErrSelectNoAnswer"}, NoMsg)
       \/ Collision /\ Finish({"ErrSelectCollision"}, NoMsg)
       \/ SelectFailed /\ Finish(ret.err, NoMsg)
    /\ UNCHANGED <<line, conn, ctx, op, at, late, ret, busVars, selected, primary, jobs>>

\* The meters that are selected after a link reset at addr.  What a meter makes of one
\* at 0xFD is in no source of the repository: it may be the end of its selection.
StillSelected(addr) == IF addr = addrSecondarySelect THEN SUBSET selected ELSE {selected}

\* linkReset, before a command goes to a primary address.
Reset ==
    /\ Running("reset")
    /\ CanWrite
    /\ Call("ReadSingleCharFrame")
    /\ Goto("resetting")
    /\ \/ /\ Answers(Acks(Reached(job.target)))
          /\ selected' \in StillSelected(job.target.addr)
          /\ UNCHANGED faults
       \/ Fault /\ UNCHANGED <<outbox, selected>>
    /\ UNCHANGED <<ctx, primary, jobs>>

ResetDone ==
    /\ Running("resetting")
    /\ ret.err = {}
    /\ Goto(job.kind)
    /\ UNCHANGED <<clientVars, busVars, selected, primary, jobs>>

\* ReadSingleFrame.
Request ==
    /\ Running("read")
    /\ CanWrite
    /\ Call("ReadLongFrame")
    /\ Goto("ending")
    /\ \/ Answers(Data(Reached(job.target))) /\ UNCHANGED faults
       \/ Fault /\ UNCHANGED outbox
    /\ UNCHANGED <<ctx, selected, primary, jobs>>

\* The SetPrimaryUsingPrimary frame: every meter it reaches takes the address
\* and acknowledges.
SetAddress ==
    /\ Running("set")
    /\ CanWrite
    /\ Call("ReadSingleCharFrame")
    /\ Goto("ending")
    /\ \/ /\ primary' = [m \in Meters |->
                            IF m \in Reached(job.target) THEN job.new ELSE primary[m]]
          /\ Answers(Acks(Reached(job.target)))
          /\ UNCHANGED faults
       \/ Fault /\ UNCHANGED <<outbox, primary>>
    /\ UNCHANGED <<ctx, selected, jobs>>

\* Mutant: the wait for the acknowledgement is not checked.
EndUnchecked ==
    /\ Running("ending")
    /\ Finish({}, ret.msg)
    /\ UNCHANGED <<clientVars, busVars, selected, primary, jobs>>

End ==
    /\ Running("ending")
    /\ ret.err = {}
    /\ Finish({}, ret.msg)
    /\ UNCHANGED <<clientVars, busVars, selected, primary, jobs>>

WriteRefused ==
    /\ \E step \in {"select", "reset", "read", "set"} : Running(step)
    /\ MayRefuse
    /\ Finish(WriteError, NoMsg)
    /\ UNCHANGED <<clientVars, busVars, selected, primary, jobs>>

ReadFailed ==
    /\ Running("resetting") \/ Running("ending")
    /\ ret.err # {}
    /\ Finish(ret.err, NoMsg)
    /\ UNCHANGED <<clientVars, busVars, selected, primary, jobs>>

Read ==
    /\ BusStep
    /\ UNCHANGED <<selected, primary, job, result, jobs>>

Master ==
    \/ Select \/ Selected
    \/ Reset \/ ResetDone
    \/ Request \/ SetAddress \/ End
    \/ WriteRefused \/ ReadFailed
    \/ Read

-----------------------------------------------------------------------------
Transmit ==
    /\ TransmitWhole \/ TransmitDamaged
    /\ UNCHANGED <<selected, primary, job, result, jobs>>

Deadline ==
    /\ BusDeadline
    /\ UNCHANGED <<selected, primary, job, result, jobs>>

Cancel ==
    /\ job # NoJob
    /\ CtxEnds
    /\ UNCHANGED <<busVars, selected, primary, job, result, jobs>>

Next ==
    \/ \E kind \in {"read", "set"}, target \in Targets, new \in Primaries :
          Start(kind, target, new)
    \/ Master
    \/ Transmit
    \/ Deadline
    \/ Cancel

Fairness == WF_vars(Master) /\ WF_vars(Transmit) /\ WF_vars(Deadline)

Spec == Init /\ [][Next]_vars /\ Fairness

-----------------------------------------------------------------------------
\* set-address acknowledged means set: the one meter it meant holds the new
\* address (setaddr.go 84-94), whatever was lost or damaged on the way.
SetMeansWritten ==
    result # NoJob /\ result.kind = "set" /\ result.err = {}
        /\ Cardinality(result.meant) = 1
        => \A m \in result.meant : primary[m] = result.new

\* set-address on an identification number fails when several meters have it, before
\* it writes (setaddr.go 69-72).
SecondarySetWritesOne ==
    [][primary' # primary /\ job.target.secondary => Cardinality(job.meant) = 1]_vars

\* The part of it that the code keeps, wherever a Read ends: several meters are
\* taken for one, and written, only if their acknowledgements came as one E5h, which
\* nothing can tell from one, or if the rest of them was still to be read when
\* sendSelect looked at what is buffered.
OneIsToldFromSeveral ==
    [][primary' # primary /\ job.target.secondary /\ faults = 0
        => Cardinality(job.meant) = 1 \/ job.told = Bytes(Ack) \/ line # <<>>]_vars

\* A command writes no meter but those it means: neither an earlier selection nor an
\* unheard one stands in for its own.  Only at 0xFD, which names no meter, it is the
\* selection in force when the command began.
OnlyTheMeantAreWritten ==
    [][\A m \in Meters : primary'[m] # primary[m] => m \in job.meant]_vars

\* What read returns is data of a meter it means.
ReadIsOfTheMeant ==
    result # NoJob /\ result.kind = "read" /\ result.err = {}
        => result.msg \in result.meant

=============================================================================
