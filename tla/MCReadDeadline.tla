--------------------------- MODULE MCReadDeadline ---------------------------
(***************************************************************************)
(* The three kinds of transport, a frame timeout of more than two polls    *)
(* that is no multiple of one, and contexts whose deadline is past, within *)
(* the first poll, within the second, and later than the timeout.          *)
(***************************************************************************)
EXTENDS ReadDeadline

MCTransports == {"tcp", "serial", "heedless"}
MCCtxTimeouts == {-2, 1, 3}

=============================================================================
