----------------------------- MODULE MCPushConsumer ----------------------------
(* Two consumers, as many addresses, so that one can be used again, and a   *)
(* message for each of them, whose listener competes for the pool with      *)
(* start and shutdown.                                                      *)
EXTENDS PushConsumer

CONSTANTS i1, i2, a1, a2, c1, c2

MCInstances == {i1, i2}
MCAddresses == {a1, a2}
MCCalls     == {c1, c2}

(* Consumers, addresses and messages are interchangeable, and no fairness   *)
(* obliges user code or a broker: it is enough to look at the behaviours in *)
(* which the first of each comes first.  A bound besides: user code forgets *)
(* only the first consumer.                                                 *)
InOrder ==
  /\ core'[i2] # "unborn" => core'[i1] # "unborn"
  /\ addr'[i1] # a2
  /\ phase'[c2] # "idle" => phase'[c1] # "idle"
  /\ i2 \in held => i2 \in held'
=============================================================================
