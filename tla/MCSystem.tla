-------------------------------- MODULE MCSystem -------------------------------
(* One consumer with two messages at a time, one producer, and a pool with  *)
(* one thread more than there are consumers.                                *)
EXTENDS System

CONSTANTS i1, p1, a1, c1, c2

MCInstances == {i1}
MCProducers == {p1}
MCAddresses == {a1}
MCCalls     == {c1, c2}

(* A bound: user code keeps the consumer, and forgets the producer at most  *)
(* under its first send and while it is stopped, when nothing else refers   *)
(* to it.  The messages are interchangeable, and nothing obliges the        *)
(* broker: the first comes first.                                           *)
DropsUnderSend ==
  /\ held \subseteq held'
  /\ p1 \in pHeld \ pHeld' =>
       /\ status[i1] = "STARTED" /\ pStatus[p1] = "STOPPED"
       /\ pSent = {c1} /\ ~Answered(c1)
  /\ phase'[c2] # "idle" => phase'[c1] # "idle"
=============================================================================
