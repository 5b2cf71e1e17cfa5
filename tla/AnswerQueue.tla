---------------------------- MODULE AnswerQueue ----------------------------
(***************************************************************************)
(* What a Client promises its caller while the line is sound (the type's   *)
(* comment in gombus.go): the slaves' answers are a queue, a read either   *)
(* takes the oldest one or, failing, takes nothing, however the transport  *)
(* cuts the bytes into Reads.                                              *)
(***************************************************************************)
EXTENDS Sequences

CONSTANTS Msg, NoMsg

VARIABLES
    queue,  \* the answers sent and not yet returned, oldest first
    got     \* what the last read returned; NoMsg while it runs or has failed

vars == <<queue, got>>

Init ==
    /\ queue = <<>>
    /\ got = NoMsg

\* A slave answers.
Arrive(m) ==
    /\ queue' = Append(queue, m)
    /\ UNCHANGED got

\* A read begins.
Begin ==
    /\ got' = NoMsg
    /\ UNCHANGED queue

\* A read returns the oldest answer.
Take ==
    /\ queue # <<>>
    /\ got = NoMsg
    /\ got' = Head(queue)
    /\ queue' = Tail(queue)

Next == (\E m \in Msg : Arrive(m)) \/ Begin \/ Take

Spec == Init /\ [][Next]_vars

=============================================================================
