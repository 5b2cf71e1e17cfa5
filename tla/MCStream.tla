------------------------------ MODULE MCStream ------------------------------
(***************************************************************************)
(* Two long frames and the E5h character, on a sound line and on a noisy   *)
(* one.                                                                    *)
(***************************************************************************)
EXTENDS Stream, TLC

CONSTANTS A, B

MCMsg == {A, B, Ack}
MCSize == (A :> 7) @@ (B :> 8) @@ (Ack :> 1)

Whole(m) == [msg |-> m, bytes |-> Bytes(m)]
Cut(m, n) == [msg |-> m, bytes |-> SubSeq(Bytes(m), 1, n)]
Garbled(m, i) == [msg |-> m, bytes |-> [Bytes(m) EXCEPT ![i] = Junk]]
\* collide, scan_test.go: the first of two slaves' frames is cut short by the
\* other.
Collided(m, n) == [msg |-> m, bytes |-> SubSeq(Bytes(m), 1, Size[m] - 2)
                                           \o SubSeq(Bytes(n), 1, 4)]

Sound == {Whole(m) : m \in MCMsg}

Noisy ==
    {Whole(A), Whole(Ack)}
    \cup {Cut(A, n) : n \in {2, 5}}
    \cup {Garbled(A, i) : i \in {1, 6, 7}}
    \cup {Collided(A, B)}

E5Inside == {<<A, 6>>}

QueueCalls == {"ReadLongFrame", "probeSilence"}
AllCalls == {"ReadLongFrame", "ReadSingleCharFrame", "probeSilence"}

=============================================================================
