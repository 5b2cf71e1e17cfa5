------------------------------- MODULE Stream -------------------------------
(***************************************************************************)
(* A Client and its line, closed: the caller makes any of Calls in any     *)
(* order, the slaves transmit at any time, and every transport Read cuts   *)
(* the bytes where it likes.  A transmission is what arrives of an answer: *)
(* all its bytes, or what noise and collisions left of them.               *)
(***************************************************************************)
EXTENDS Client, FiniteSets

CONSTANTS
    Transmissions,  \* records [msg |-> the answer, bytes |-> what arrives]
    MaxSends,       \* bound: transmissions
    Calls,          \* the calls the caller makes
    MayFail         \* the transport may fail, and the Client be closed

Intact(t) == t.bytes = Bytes(t.msg)

ASSUME StreamAssumption ==
    /\ \A t \in Transmissions : t.msg \in Msg /\ t.bytes \in Seq(Byte)
    /\ Calls \subseteq Ops \ {"probeResponse"}
    /\ MaxSends \in Nat
    /\ MayFail \in BOOLEAN

VARIABLES
    sends,   \* transmissions so far
    credit   \* credit[m]: intact transmissions of m, less returns of m
             \* (a history variable, for NoAnswerInvented)

vars == <<clientVars, sends, credit>>

Init ==
    /\ ClientInit
    /\ sends = 0
    /\ credit = [m \in Msg |-> 0]

Begin(o) ==
    /\ Call(o)
    /\ ctx' = "live"
    /\ UNCHANGED <<sends, credit>>

Transmit(t) ==
    /\ conn = "up"
    /\ sends < MaxSends
    /\ Receive(t.bytes)
    /\ sends' = sends + 1
    /\ credit' = [credit EXCEPT ![t.msg] = @ + IF Intact(t) THEN 1 ELSE 0]

Returns == op # "none" /\ op' = "none" /\ ret'.err = {}

Step ==
    /\ ClientStep
    /\ credit' = IF Returns THEN [credit EXCEPT ![ret'.msg] = @ - 1] ELSE credit
    /\ UNCHANGED sends

Shut ==
    /\ MayFail
    /\ Close
    /\ UNCHANGED <<sends, credit>>

Fail ==
    /\ MayFail
    /\ ConnFails
    /\ UNCHANGED <<sends, credit>>

Deadline ==
    /\ DeadlinePasses
    /\ UNCHANGED <<sends, credit>>

Cancel ==
    /\ op # "none"
    /\ CtxEnds
    /\ UNCHANGED <<sends, credit>>

Next ==
    \/ \E o \in Calls : Begin(o)
    \/ \E t \in Transmissions : Transmit(t)
    \/ Step
    \/ Shut
    \/ Fail
    \/ Deadline
    \/ Cancel

\* The goroutine that made the call runs, its Reads return within
\* readPollInterval, and time passes.
Fairness == WF_vars(Step) /\ WF_vars(Deadline)

Spec == Init /\ [][Next]_vars /\ Fairness

-----------------------------------------------------------------------------
TypeOK ==
    /\ ClientTypeOK
    /\ sends \in 0..MaxSends
    /\ credit \in [Msg -> Int]

\* The line is sound: nothing is lost or altered on it, and the caller makes
\* none of the calls that drop bytes on purpose.
SoundLine ==
    /\ ~MayFail
    /\ \A t \in Transmissions : Intact(t)
    /\ \A m \in LongMsg : Size[m] >= MinSize
    /\ "ReadSingleCharFrame" \notin Calls

\* s is whole answers, one after the other: it begins with a first byte, the
\* bytes from a first byte on are those of its answer, and after its last comes
\* a first byte again.
Aligned(s) ==
    /\ \A i \in 1..Len(s) : s[i] \in Wire
    /\ s # <<>> => s[1][2] = 1
    /\ \A i \in 1..Len(s) : s[i][2] = 1 =>
         LET m == s[i][1] IN
         /\ i + Size[m] - 1 <= Len(s)
         /\ \A j \in 1..Size[m] : s[i + j - 1] = <<m, j>>
         /\ i + Size[m] <= Len(s) => s[i + Size[m]][2] = 1

\* On a sound line no byte is lost and none is taken twice, whatever the cuts
\* between Reads, timeouts and cancellations: what is buffered and in flight is
\* whole answers (read.go 92-110, scan.go 427-475).
StreamAligned == SoundLine => Aligned(buf \o line)

\* On a sound line no read reports a frame error, except ReadLongFrame when the
\* oldest answer is an E5h, which is no long frame.
NoSpuriousError ==
    SoundLine /\ ret.err \cap Malformed # {} =>
        ret.op = "ReadLongFrame" /\ buf # <<>> /\ buf[1] = <<Ack, 1>>

\* A long frame is returned at most as often as it was sent intact: no garbled,
\* truncated or spliced answer is taken for one, and none is returned twice.
NoAnswerInvented == \A m \in LongMsg : credit[m] >= 0

\* The call takes n bytes, then those of the frame it returns.
Takes(n) ==
    LET m == ret'.msg IN
    /\ n + Size[m] <= Len(buf)
    /\ IF m = Ack THEN IsE5(buf[n + 1])
       ELSE SubSeq(buf, n + 1, n + Size[m]) = Bytes(m)
    /\ buf' \o line' = Drop(buf \o line, n + Size[m])
    /\ op # "ReadSingleCharFrame" => n = 0
    /\ \A i \in 1..n : ~IsE5(buf[i])

\* A call that returns a frame takes from the buffer the frame's own bytes and,
\* for ReadSingleCharFrame, those before the first E5h; nothing after it.
ExactConsumption == [][Returns => \E n \in 0..Len(buf) : Takes(n)]_vars

Firsts(s) == {i \in 1..Len(s) : s[i][2] = 1}

\* The answer whose first byte is the k-th of those in s.
Kth(s, k) ==
    {s[i][1] : i \in {i \in Firsts(s) : Cardinality({j \in Firsts(s) : j <= i}) = k}}

\* The answers as the caller may still get them, oldest first.
Answers(s) == [k \in 1..Cardinality(Firsts(s)) |-> CHOOSE m \in Kth(s, k) : TRUE]

\* On a sound line the Client is a first-in first-out queue of answers: the
\* next one returned is the oldest one sent, and a failed read loses none.
Queue == INSTANCE AnswerQueue WITH queue <- Answers(buf \o line), got <- ret.msg
ImplementsQueue == Queue!Spec

=============================================================================
