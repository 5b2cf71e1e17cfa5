-------------------------- MODULE MCScanSecondary --------------------------
(***************************************************************************)
(* Numbers of two digits, each 0 to 3: K and L share the first digit, M    *)
(* and N are twins, P and Q have a first digit to themselves, and Q's      *)
(* answer does not tell its number.  A long frame has E5h among its bytes. *)
(***************************************************************************)
EXTENDS ScanSecondary, TLC

CONSTANTS K, L, M, N, P, Q

MCMeters == {K, L, M, N, P, Q}
MCMsg == {Ack} \cup MCMeters
MCSize == [m \in MCMsg |-> IF m = Ack THEN 1 ELSE 4]
MCId == (K :> <<0, 0>>) @@ (L :> <<0, 1>>) @@ (M :> <<1, 0>>) @@ (N :> <<1, 0>>)
            @@ (P :> <<2, 1>>) @@ (Q :> <<3, 1>>)
MCHeadless == {Q}
MCE5Bytes == {<<K, 3>>, <<M, 3>>, <<P, 3>>, <<P, 4>>}

\* Equal bytes sent together arrive as one, or one after the other, or as
\* several that are neither.
Plain == {Bytes(Ack), Bytes(Ack) \o Bytes(Ack), <<Junk, Junk>>}

=============================================================================
