----------------------------- MODULE MCRilEvent -----------------------------
(* A small instance of RilEvent: the wakeup event, one one-shot watch and   *)
(* a few timers.                                                            *)
EXTENDS RilEvent, TLC

CONSTANT sock

MCWatches == {Wake, sock}
MCPersist == {Wake}
MCFd == (Wake :> 1) @@ (sock :> 2)
=============================================================================
