-------------------------------- MODULE Bus --------------------------------
(***************************************************************************)
(* The bus between a Client and the slaves, as the request handlers of the *)
(* modules that extend this one drive it: what a slave answers waits in    *)
(* outbox, in the order of the requests, and goes on the line whole or,    *)
(* while there are faults left, damaged.                                   *)
(***************************************************************************)
EXTENDS Client

CONSTANTS
    MaxFaults,  \* bound: lost requests and damaged answers
    Prompt      \* TRUE: a slave that answers at all answers within the deadline

VARIABLES
    outbox,     \* answers not yet on the line
    faults      \* faults so far

busVars == <<outbox, faults>>

BusInit ==
    /\ outbox = <<>>
    /\ faults = 0

Quiet == line = <<>> /\ outbox = <<>>

\* Something goes wrong, of the MaxFaults things that may.
Fault ==
    /\ faults < MaxFaults
    /\ faults' = faults + 1

\* Client.WriteFrame.  A Write armed with a deadline that has come may fail or,
\* where the transport ignores it, not; so may one to a peer that has sent the
\* end of its stream.
CanWrite == ~CtxErr /\ conn # "Broken"
MayRefuse == CtxErr \/ ctx = "past" \/ conn # "up"
WriteError == IF CtxErr THEN {ctx} ELSE {"Broken"}

BusStep == ClientStep /\ UNCHANGED busVars

TransmitWhole ==
    /\ outbox # <<>>
    /\ conn = "up"
    /\ Receive(Head(outbox))
    /\ outbox' = Tail(outbox)
    /\ UNCHANGED faults

TransmitDamaged ==
    /\ outbox # <<>>
    /\ conn = "up"
    /\ \E s \in Damaged(Head(outbox)) : Receive(s)
    /\ outbox' = Tail(outbox)
    /\ Fault

\* A call's deadline passes; when slaves are prompt, not while an answer is due.
BusDeadline ==
    /\ DeadlinePasses
    /\ Prompt => Quiet
    /\ UNCHANGED busVars

=============================================================================
