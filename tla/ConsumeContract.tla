---------------------------- MODULE ConsumeContract ----------------------------
(***************************************************************************)
(* What a push consumer owes the RocketMQ C++ client for every invocation  *)
(* of its message callback, with threads, locks and the event loop left    *)
(* out.  An invocation is handed over by a consume thread, offered to the  *)
(* JavaScript listener, decided by the listener's ack.done(), and only     *)
(* then reported, with the very verdict the listener chose.                *)
(* ConsumerAck is shown to implement this module.                          *)
(***************************************************************************)
CONSTANTS
  Calls,      \* invocations of the message callback
  Verdicts,   \* what a callback may return (CConsumeStatus)
  Unset       \* no verdict yet

VARIABLES
  phase,      \* [Calls -> Phases]
  verdict,    \* what the listener decided
  report      \* what the callback returned to the C++ client

contractVars == <<phase, verdict, report>>

Phases == {"idle", "handed", "offered", "decided", "reported"}

ContractInit ==
  /\ phase = [c \in Calls |-> "idle"]
  /\ verdict = [c \in Calls |-> Unset]
  /\ report = [c \in Calls |-> Unset]

Advance(c, from, to) ==
  /\ phase[c] = from
  /\ phase' = [phase EXCEPT ![c] = to]

Hand(c) ==
  /\ Advance(c, "idle", "handed")
  /\ UNCHANGED <<verdict, report>>

Offer(c) ==
  /\ Advance(c, "handed", "offered")
  /\ UNCHANGED <<verdict, report>>

Decide(c) ==
  /\ Advance(c, "offered", "decided")
  /\ \E v \in Verdicts : verdict' = [verdict EXCEPT ![c] = v]
  /\ UNCHANGED report

Report(c) ==
  /\ Advance(c, "decided", "reported")
  /\ report' = [report EXCEPT ![c] = verdict[c]]
  /\ UNCHANGED verdict

ContractNext == \E c \in Calls : Hand(c) \/ Offer(c) \/ Decide(c) \/ Report(c)

ContractSpec == ContractInit /\ [][ContractNext]_contractVars
=============================================================================
