-------------------------- MODULE MCMeterCommands --------------------------
(***************************************************************************)
(* Three meters, two of them of different makers with the same             *)
(* identification number, and two addresses.  A long frame has E5h among   *)
(* its bytes.                                                              *)
(***************************************************************************)
EXTENDS MeterCommands, TLC

CONSTANTS K, L, M

MCMeters == {K, L, M}
MCMsg == {Ack} \cup MCMeters
MCSize == [m \in MCMsg |-> IF m = Ack THEN 1 ELSE 5]
MCId == (K :> <<0>>) @@ (L :> <<1>>) @@ (M :> <<1>>)
MCPrimaries == {1, 2}
MCFirstPrimary == (K :> 1) @@ (L :> 2) @@ (M :> 2)
MCE5Bytes == {<<K, 3>>, <<M, 3>>, <<L, 3>>, <<L, 4>>}

\* Both acknowledgements arrive, one of them after the other or as one byte, or
\* bytes that are neither.
Told == {Bytes(Ack) \o Bytes(Ack), Bytes(Ack), <<Junk>>}
\* One of them after the other.
InTurn == {Bytes(Ack) \o Bytes(Ack)}

=============================================================================
