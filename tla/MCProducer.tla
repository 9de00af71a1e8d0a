------------------------------- MODULE MCProducer ------------------------------
(* Two producers and one send on a small pool. *)
EXTENDS Producer

CONSTANTS i1, i2, m1

MCInstances == {i1, i2}
MCMessages  == {m1}
=============================================================================
