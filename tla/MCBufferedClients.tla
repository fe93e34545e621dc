------------------------- MODULE MCBufferedClients -------------------------
(* Values for model checking BufferedClients. *)
EXTENDS BufferedClients

MCLimits == {<<6, 1>>, <<2, 4>>, <<3, 2>>}
=============================================================================
