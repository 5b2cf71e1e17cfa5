--------------------------- MODULE MCReadSession ---------------------------
(***************************************************************************)
(* Slave A has two telegrams, B one it always says more follow, C one that *)
(* does not decode, D one.  A long frame is a start sequence of two bytes, *)
(* a byte that may be E5h, and a last one, and no Read returns all of it.  *)
(***************************************************************************)
EXTENDS ReadSession, TLC

CONSTANTS A, B, C, D

MCSlaves == {A, B, C, D}
MCTelegrams == (A :> 2) @@ (B :> 1) @@ (C :> 1) @@ (D :> 1)
MCMsg == {Ack, <<A, 1>>, <<A, 2>>, <<B, 1>>, <<C, 1>>, <<D, 1>>}
MCSize == [m \in MCMsg |-> IF m = Ack THEN 1 ELSE 4]
MCEndless == {B}
MCUndecodable == {<<C, 1>>}
MCE5Bytes == {<<<<D, 1>>, 3>>}

BothKinds == {"ReadAllFrames", "ReadSingleFrame"}

=============================================================================
