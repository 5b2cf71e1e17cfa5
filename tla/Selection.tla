----------------------------- MODULE Selection -----------------------------
(***************************************************************************)
(* Secondary addressing: the selection frames of sendSelect and the meters *)
(* they reach.  Every meter whose identification number matches the mask   *)
(* is selected, and all of them answer at once, here and to what is sent   *)
(* to 0xFD afterwards.                                                     *)
(***************************************************************************)
EXTENDS Bus, FiniteSets

CONSTANTS
    Meters,     \* the meters on the bus
    Id,         \* Id[m]: the digits of m's identification number
    Overlaps    \* what several acknowledgements sent at once may arrive as

ASSUME SelectionAssumption ==
    /\ Msg = {Ack} \cup Meters /\ Ack \notin Meters /\ IsFiniteSet(Meters)
    /\ \A m \in Meters : Id[m] \in Seq(Nat)
    /\ Overlaps \subseteq Seq({<<Ack, 1>>, Junk}) /\ Overlaps # {} /\ <<>> \notin Overlaps

VARIABLE selected   \* the meters the last selection that was heard reaches

\* A mask is the digits it fixes; the rest are wildcards.
Matches(mask, m) ==
    /\ Len(mask) <= Len(Id[m])
    /\ SubSeq(Id[m], 1, Len(mask)) = mask

Matching(mask) == {m \in Meters : Matches(mask, m)}

\* What the acknowledgements of S make on the line.
Acks(S) ==
    IF S = {} THEN {<<>>}
    ELSE IF Cardinality(S) = 1 THEN {Bytes(Ack)}
    ELSE Overlaps

\* What the data of S make on the line.
Data(S) ==
    IF S = {} THEN {<<>>}
    ELSE IF Cardinality(S) = 1 THEN {Bytes(m) : m \in S}
    ELSE {SubSeq(Bytes(m), 1, Size[m] - 1) \o <<Junk>> : m \in S}

Answers(T) ==
    \E s \in T : outbox' = IF s = <<>> THEN outbox ELSE Append(outbox, s)

AnswerSelect(mask) ==
    /\ selected' = Matching(mask)
    /\ Answers(Acks(Matching(mask)))

\* sendSelect's first half: the selection frame, and the wait for its answer.
SendSelect(mask) ==
    /\ CanWrite
    /\ Call("probeSilence")
    /\ \/ AnswerSelect(mask) /\ UNCHANGED faults
       \/ Fault /\ UNCHANGED <<outbox, selected>>

\* Mutant: what follows the E5h is not looked at.
RespondedInPart ==
    /\ ret.err = {} /\ ret.msg = Ack
    /\ UNCHANGED buf

\* Its second half: what the answer means.  Anything but one E5h with nothing
\* behind it in the buffer is a collision, whose debris is dropped.
Responded ==
    /\ ret.err = {} /\ ret.msg = Ack /\ buf = <<>>
    /\ UNCHANGED buf

Silent ==
    /\ "ErrReadTimeout" \in ret.err
    /\ UNCHANGED buf

Collision ==
    /\ \/ ret.err = {} /\ ~(ret.msg = Ack /\ buf = <<>>)
       \/ "ErrReadTimeout" \notin ret.err /\ isBusNoise(ret.err)
    /\ buf' = <<>>

SelectFailed ==
    /\ ret.err # {} /\ "ErrReadTimeout" \notin ret.err /\ ~isBusNoise(ret.err)
    /\ UNCHANGED buf

=============================================================================
