----------------------------- MODULE MCConsumerAck -----------------------------
(* Two invocations whose rendezvous interleave on one event loop. *)
EXTENDS ConsumerAck

CONSTANTS c1, c2

MCCalls == {c1, c2}
=============================================================================
