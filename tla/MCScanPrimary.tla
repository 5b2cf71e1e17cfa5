--------------------------- MODULE MCScanPrimary ---------------------------
(***************************************************************************)
(* Addresses 1..4: an ordinary slave, one that skips the link reset's      *)
(* acknowledgement, none, one that answers everything with E5h.  A long    *)
(* frame has more bytes than one Read returns, and E5h among them.         *)
(***************************************************************************)
EXTENDS ScanPrimary

MCMsg == {Ack, 1, 2, 4}
MCSize == [m \in MCMsg |-> IF m = Ack THEN 1 ELSE 5]
MCSlaves == {1, 2, 4}
MCNoAck == {2}
MCAckOnly == {4}
MCE5Bytes == {<<1, 3>>, <<1, 4>>, <<2, 4>>}
NoBreaks == {}

=============================================================================
