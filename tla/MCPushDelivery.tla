---------------------------- MODULE MCPushDelivery -----------------------------
(* Small instances of PushDelivery: more invocations than consume threads. *)
EXTENDS PushDelivery, TLC

CONSTANTS c1, c2, c3

TwoCalls   == {c1, c2}
ThreeCalls == {c1, c2, c3}

MCSymmetry == Permutations(ThreeCalls)
=============================================================================
