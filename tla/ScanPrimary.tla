---------------------------- MODULE ScanPrimary ----------------------------
(***************************************************************************)
(* Client.ScanPrimary: a sweep of the primary addresses from..to, each     *)
(* probed with a link reset and a REQ_UD2, over a bus that may damage      *)
(* answers and lose requests, a context that may end and a transport that  *)
(* may fail.                                                               *)
(***************************************************************************)
EXTENDS Bus, FiniteSets

CONSTANTS
    From, To,   \* the addresses swept
    Slaves,     \* the addresses at which there is a slave
    NoAck,      \* slaves that skip the link reset's acknowledgement
    AckOnly,    \* slaves that answer REQ_UD2 with E5h
    Failures    \* how the transport may fail

minPrimaryID == 1
maxPrimaryID == 250

\* validateAssignableAddr and the range check that open ScanPrimary.
validRange(from, to) ==
    /\ from \in minPrimaryID..maxPrimaryID
    /\ to \in minPrimaryID..maxPrimaryID
    /\ from <= to

ASSUME ScanPrimaryAssumption ==
    /\ validRange(From, To)
    /\ Slaves \subseteq minPrimaryID..maxPrimaryID
    /\ NoAck \subseteq Slaves /\ AckOnly \subseteq Slaves
    /\ Msg = {Ack} \cup Slaves
    /\ Failures \subseteq ConnErrors

VARIABLES
    step,    \* where probePrimary is: about to send, or waiting for, the reset
             \* or the request; or the sweep is over
    addr,    \* the address probed
    found,   \* the addresses that answered, in the order they did
    err,     \* what ScanPrimary returned
    clean    \* no reply has been refused before all of it was read
             \* (a history variable)

scanVars == <<step, addr, found, err>>
vars == <<clientVars, busVars, scanVars, clean>>

Init ==
    /\ ClientInit
    /\ BusInit
    /\ step = "reset"
    /\ addr = From
    /\ found = <<>>
    /\ err = {}
    /\ clean = TRUE

-----------------------------------------------------------------------------
(* The slaves                                                              *)

Answer(s) == outbox' = Append(outbox, s)

AnswerReset(a) ==
    IF a \in Slaves \ NoAck THEN Answer(Bytes(Ack)) ELSE UNCHANGED outbox

AnswerRequest(a) ==
    IF a \in AckOnly THEN Answer(Bytes(Ack))
    ELSE IF a \in Slaves THEN Answer(Bytes(a))
    ELSE UNCHANGED outbox

-----------------------------------------------------------------------------
(* The sweep                                                               *)

At(s) == step = s /\ op = "none"

Abort(e) ==
    /\ step' = "over"
    /\ err' = e
    /\ found' = <<>>
    /\ UNCHANGED <<clientVars, busVars, addr, clean>>

\* The top of the loop, the link reset, and the wait for its answer.
SendReset ==
    /\ At("reset")
    /\ CanWrite
    /\ Call("probeSilence")
    /\ step' = "resetSent"
    /\ \/ AnswerReset(addr) /\ UNCHANGED faults
       \/ Fault /\ UNCHANGED outbox
    /\ UNCHANGED <<ctx, addr, found, err, clean>>

\* Whatever answered the reset, and silence, lead on to the request.
ResetAnswered ==
    /\ At("resetSent")
    /\ ret.err = {} \/ isBusNoise(ret.err)
    /\ step' = "request"
    /\ UNCHANGED <<clientVars, busVars, addr, found, err, clean>>

SendRequest ==
    /\ At("request")
    /\ CanWrite
    /\ Call("probeSilence")
    /\ step' = "requestSent"
    /\ \/ AnswerRequest(addr) /\ UNCHANGED faults
       \/ Fault /\ UNCHANGED outbox
    /\ UNCHANGED <<ctx, addr, found, err, clean>>

\* Mutant: an address is there when it answers with a long frame.
CountedIfLong ==
    /\ At("requestSent")
    /\ ret.err = {} \/ isBusNoise(ret.err)
    /\ found' = IF ret.err = {} /\ ret.msg # Ack THEN Append(found, addr) ELSE found
    /\ IF addr = To THEN step' = "over" /\ UNCHANGED addr
                    ELSE step' = "reset" /\ addr' = addr + 1
    /\ UNCHANGED <<clientVars, busVars, err, clean>>

\* The address has answered or is absent; the sweep moves on or is over.
Counted ==
    /\ At("requestSent")
    /\ ret.err = {} \/ isBusNoise(ret.err)
    /\ found' = IF ret.err = {} THEN Append(found, addr) ELSE found
    /\ IF addr = To THEN step' = "over" /\ UNCHANGED addr
                    ELSE step' = "reset" /\ addr' = addr + 1
    /\ UNCHANGED <<clientVars, busVars, err, clean>>

WriteRefused ==
    /\ At("reset") \/ At("request")
    /\ MayRefuse
    /\ Abort(WriteError)

ProbeFailed ==
    /\ At("resetSent") \/ At("requestSent")
    /\ ret.err # {} /\ ~isBusNoise(ret.err)
    /\ Abort(ret.err)

Read ==
    /\ BusStep
    /\ clean' = (clean /\ (ret'.err \cap Malformed = {} \/ line' = <<>>))
    /\ UNCHANGED scanVars

Master ==
    \/ SendReset \/ ResetAnswered
    \/ SendRequest \/ Counted
    \/ WriteRefused \/ ProbeFailed
    \/ Read

-----------------------------------------------------------------------------
(* The line, the transport and the context                                 *)

Transmit ==
    /\ TransmitWhole \/ TransmitDamaged
    /\ UNCHANGED <<scanVars, clean>>

Deadline ==
    /\ BusDeadline
    /\ UNCHANGED <<scanVars, clean>>

Cancel ==
    /\ step # "over"
    /\ CtxEnds
    /\ UNCHANGED <<busVars, scanVars, clean>>

Break ==
    /\ step # "over"
    /\ ConnFails
    /\ conn' \in Failures
    /\ UNCHANGED <<busVars, scanVars, clean>>

Next ==
    \/ Master
    \/ Transmit
    \/ Deadline
    \/ Cancel
    \/ Break

Fairness == WF_vars(Master) /\ WF_vars(Transmit) /\ WF_vars(Deadline)

Spec == Init /\ [][Next]_vars /\ Fairness

-----------------------------------------------------------------------------
Found == {found[i] : i \in 1..Len(found)}

\* No address is found at which there is no slave (scan.go 71-72).
NoGhost == Found \subseteq Slaves

\* The part of it that the code keeps: neither what a timeout leaves of a damaged
\* answer nor an answer to an earlier request counts for a later one, until a
\* reply is refused with some of it still to be read.
CleanScanHasNoGhost == clean => NoGhost

\* A sweep that no fault hit finds exactly the slaves, in ascending order
\* (scan.go 71-75), whatever they skip.
SoundScanIsExact ==
    step = "over" /\ err = {} /\ faults = 0 /\ conn = "up" /\ ctx = "live" =>
        /\ Found = Slaves \cap From..To
        /\ \A i, j \in 1..Len(found) : i < j => found[i] < found[j]

\* The sweep ends.
ScanEnds == <>(step = "over")

=============================================================================
