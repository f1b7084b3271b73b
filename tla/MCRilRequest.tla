---------------------------- MODULE MCRilRequest ----------------------------
(* RilRequest for TLC: one channel of each of two sockets.                  *)
EXTENDS RilRequest

MCCids == {<<1, 3>>, <<2, 3>>}
=============================================================================
