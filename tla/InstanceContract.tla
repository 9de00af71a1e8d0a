---------------------------- MODULE InstanceContract ---------------------------
(***************************************************************************)
(* What the user of a Producer or PushConsumer sees of start() and         *)
(* shutdown(): one call at a time, each answered once, and an error ends   *)
(* the life of the object.  Lifecycle is shown to implement this module.   *)
(***************************************************************************)
CONSTANT Instances

VARIABLE state   \* [Instances -> States]

States == {"STOPPED", "STARTING", "STARTED", "STOPPING", "FAILED"}

ContractInit == state = [i \in Instances |-> "STOPPED"]

Moves == {<<"STOPPED", "STARTING">>,  <<"STARTING", "STARTED">>, <<"STARTING", "FAILED">>,
          <<"STARTED", "STOPPING">>,  <<"STOPPING", "STOPPED">>, <<"STOPPING", "FAILED">>}

MoveTo(i, to) == <<state[i], to>> \in Moves /\ state' = [state EXCEPT ![i] = to]

Move(i) == \E to \in States : MoveTo(i, to)

ContractNext == \E i \in Instances : Move(i)

ContractSpec == ContractInit /\ [][ContractNext]_state
=============================================================================
