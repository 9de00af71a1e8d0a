------------------------------ MODULE ExampleTest ------------------------------
(***************************************************************************)
(* `npm test`: example/producer.js, then example/push_consumer.js, each a  *)
(* process of its own, with a broker (external) between them.  The two     *)
(* scripts drive a Producer and a PushConsumer; of these the module uses   *)
(* the contracts the detailed modules implement, InstanceContract for      *)
(* start() and shutdown() and ConsumeContract for each message.            *)
(***************************************************************************)
EXTENDS Naturals, Sequences, FiniteSets

CONSTANTS
  MessageCount,    \* messageCount of example/common.js
  MaxCalls,        \* bound: invocations of OnMessage
  Unset,           \* no verdict yet
  Failures,        \* may start(), send() and shutdown() fail?
  Redelivery       \* may the broker deliver a message more than once?

Calls    == 1..MaxCalls
Messages == 0..(MessageCount - 1)
Verdicts == {"E_CONSUME_SUCCESS", "E_RECONSUME_LATER"}

(* The bodies are sorted as texts: "baz 10" would come before "baz 2". *)
ASSUME ExampleAssumption ==
  /\ MessageCount \in 1..10
  /\ MaxCalls \in Nat /\ MaxCalls >= MessageCount
  /\ Unset \notin Verdicts /\ Unset \notin Messages
  /\ {Failures, Redelivery} \subseteq BOOLEAN

VARIABLES
  state,      \* of the producer and the consumer, see InstanceContract
  exit,       \* how the two processes have ended
  stored,     \* messages the broker has
  carried,    \* [Calls -> Messages]: what OnMessage was called with
  phase, verdict, report,   \* see ConsumeContract
  msgs        \* the array of push_consumer.js

consumeVars == <<carried, phase, verdict, report, msgs>>
vars        == <<state, exit, stored, consumeVars>>

Object  == INSTANCE InstanceContract WITH Instances <- {"producer", "consumer"}
Consume == INSTANCE ConsumeContract

Init ==
  /\ Object!ContractInit
  /\ exit = [producer |-> "running", consumer |-> "running"]
  /\ stored = {}
  /\ carried = [c \in Calls |-> Unset]
  /\ Consume!ContractInit
  /\ msgs = <<>>

Ends(process, how) == exit' = [exit EXCEPT ![process] = how]

(* co() reports a rejection to nobody.  Node.js ends the process from       *)
(* version 15 on and does not mind before, in version 10 of .travis.yml     *)
(* too.  No test meets two rejections, so that the choice stands for either *)
(* version.                                                                 *)
Unhandled(process) == Ends(process, "1") \/ UNCHANGED exit

-----------------------------------------------------------------------------
(* example/producer.js *)

ProducerRuns == exit["producer"] = "running" /\ UNCHANGED consumeVars

ProducerStart ==
  /\ ProducerRuns
  /\ Object!MoveTo("producer", "STARTING")
  /\ UNCHANGED <<exit, stored>>

(* start() is answered. *)
ProducerStarted ==
  /\ ProducerRuns
  /\ state["producer"] = "STARTING"
  /\ \/ Object!MoveTo("producer", "STARTED") /\ UNCHANGED exit
     \/ Failures /\ Object!MoveTo("producer", "FAILED") /\ Ends("producer", "4")
  /\ UNCHANGED stored

MoreToSend == Cardinality(stored) < MessageCount

(* One send() after the other; one that fails may have been stored. *)
SendNext ==
  /\ ProducerRuns
  /\ state["producer"] = "STARTED"
  /\ MoreToSend
  /\ LET more == stored \cup {Cardinality(stored)}
     IN \/ stored' = more /\ UNCHANGED exit
        \/ Failures /\ stored' \in {stored, more} /\ Ends("producer", "4")
  /\ UNCHANGED state

ProducerShutdown ==
  /\ ProducerRuns
  /\ ~MoreToSend
  /\ Object!MoveTo("producer", "STOPPING")
  /\ UNCHANGED <<exit, stored>>

(* Mutant: the interval stays. *)
IntervalStays == UNCHANGED exit

(* The interval is cleared: nothing keeps the process any longer. *)
IntervalGone == Ends("producer", "0")

(* shutdown() is answered.  If it has failed the interval stays: a process  *)
(* that does not mind goes on for ever.                                     *)
ProducerStopped ==
  /\ ProducerRuns
  /\ state["producer"] = "STOPPING"
  /\ \/ Object!MoveTo("producer", "STOPPED") /\ IntervalGone
     \/ Failures /\ Object!MoveTo("producer", "FAILED") /\ Unhandled("producer")
  /\ UNCHANGED stored

-----------------------------------------------------------------------------
(* example/push_consumer.js *)

OpenCalls == {c \in Calls : phase[c] \notin {"idle", "reported"}}

ConsumerRuns == exit["producer"] = "0" /\ exit["consumer"] = "running" /\ UNCHANGED stored

(* The event loop is between two turns. *)
LoopFree == \A c \in Calls : phase[c] # "offered"

(* new, subscribe, on and start() in one turn. *)
ConsumerStart ==
  /\ ConsumerRuns
  /\ Object!MoveTo("consumer", "STARTING")
  /\ UNCHANGED <<exit, consumeVars>>

ConsumerStarted ==
  /\ ConsumerRuns /\ LoopFree
  /\ state["consumer"] = "STARTING"
  /\ \/ Object!MoveTo("consumer", "STARTED") /\ UNCHANGED exit
     \/ Failures /\ Object!MoveTo("consumer", "FAILED") /\ Unhandled("consumer")
  /\ UNCHANGED consumeVars

(* A consumer that has not started has no interval: if nobody minds, its    *)
(* process ends well when no handle of a message is left.                   *)
ConsumerLoopEmpty ==
  /\ ConsumerRuns /\ LoopFree
  /\ state["consumer"] = "FAILED"
  /\ \A c \in Calls : phase[c] # "handed"
  /\ Ends("consumer", "0")
  /\ UNCHANGED <<state, consumeVars>>

(* The client consumes from the moment its start is under way until its     *)
(* threads are joined, and calls OnMessage.                                 *)
OnMessage(c, m) ==
  /\ ConsumerRuns
  /\ state["consumer"] \in {"STARTING", "STARTED", "STOPPING"}
  /\ m \in stored
  /\ \A d \in 1..(c - 1) : phase[d] # "idle"
  /\ Redelivery \/ \A d \in Calls : carried[d] # m
  /\ Consume!Hand(c)
  /\ carried' = [carried EXCEPT ![c] = m]
  /\ UNCHANGED <<state, exit, msgs>>

Emit(c) ==
  /\ ConsumerRuns /\ LoopFree
  /\ Consume!Offer(c)
  /\ UNCHANGED <<state, exit, carried, msgs>>

IsLast(n) == n = MessageCount

(* Mutant: the listener does not look at what it got. *)
AnythingIsExpected(list) == TRUE

(* Mutant: the messages are not sorted first. *)
Unsorted(list) == \A k \in DOMAIN list : list[k] = k - 1

(* assert.deepStrictEqual for every message of the sorted array. *)
AsExpected(list) == {list[k] : k \in DOMAIN list} = Messages

(* The listener: push, ack.done(), and on the last message the assertions   *)
(* and shutdown(), which asserts that the consumer is started.  A failed    *)
(* assertion is caught by nobody.                                           *)
Listener(c) ==
  /\ ConsumerRuns
  /\ Consume!Decide(c) /\ verdict'[c] = "E_CONSUME_SUCCESS"
  /\ msgs' = Append(msgs, carried[c])
  /\ IF ~IsLast(Len(msgs')) THEN UNCHANGED <<state, exit>>
     ELSE IF AsExpected(msgs') /\ state["consumer"] = "STARTED"
          THEN Object!MoveTo("consumer", "STOPPING") /\ UNCHANGED exit
          ELSE Ends("consumer", "assert") /\ UNCHANGED state
  /\ UNCHANGED carried

Return(c) ==
  /\ ConsumerRuns
  /\ Consume!Report(c)
  /\ UNCHANGED <<state, exit, carried, msgs>>

(* Mutant: shutdown() does not wait for messages in progress. *)
NotDrained == TRUE

Drained == OpenCalls = {}

(* shutdown() is answered: process.exit(0) or process.exit(4). *)
ConsumerStopped ==
  /\ ConsumerRuns /\ LoopFree
  /\ state["consumer"] = "STOPPING"
  /\ \/ Drained /\ Object!MoveTo("consumer", "STOPPED") /\ Ends("consumer", "0")
     \/ Failures /\ Object!MoveTo("consumer", "FAILED") /\ Ends("consumer", "4")
  /\ UNCHANGED consumeVars

-----------------------------------------------------------------------------
ProducerStep == ProducerStart \/ ProducerStarted \/ SendNext \/ ProducerShutdown \/ ProducerStopped
ConsumerStep == ConsumerStart \/ ConsumerStarted \/ ConsumerLoopEmpty \/ ConsumerStopped

Next ==
  \/ ProducerStep
  \/ ConsumerStep
  \/ \E c \in Calls : Emit(c) \/ Listener(c) \/ Return(c) \/ \E m \in Messages : OnMessage(c, m)

(* Both scripts and the threads go on when they can, calls are answered,    *)
(* and the broker delivers every message at least once.                     *)
Fairness ==
  /\ WF_vars(ProducerStep) /\ WF_vars(ConsumerStep)
  /\ \A c \in Calls : WF_vars(Emit(c)) /\ WF_vars(Listener(c)) /\ WF_vars(Return(c))
  /\ \A m \in Messages : WF_vars(\E c \in Calls : OnMessage(c, m))

Spec == Init /\ [][Next]_vars /\ Fairness

-----------------------------------------------------------------------------
TypeOK ==
  /\ state \in [{"producer", "consumer"} -> Object!States]
  /\ exit \in [{"producer", "consumer"} -> {"running", "0", "1", "4", "assert"}]
  /\ stored \subseteq Messages
  /\ carried \in [Calls -> Messages \cup {Unset}]
  /\ phase \in [Calls -> Consume!Phases]
  /\ msgs \in Seq(Messages) /\ Len(msgs) <= MaxCalls

(* A test that passes has stored, delivered and acknowledged every message, *)
(* and has left neither client nor message behind; or start() of the        *)
(* consumer has failed and Node.js did not mind.                            *)
PassMeansConsumed ==
  exit["consumer"] = "0" =>
    /\ state["producer"] = "STOPPED"
    /\ \/ /\ state["consumer"] = "STOPPED" /\ OpenCalls = {}
          /\ \A m \in Messages : \E c \in Calls : carried[c] = m /\ report[c] = "E_CONSUME_SUCCESS"
       \/ state["consumer"] = "FAILED"

(* shutdown() in the listener is called once, by the last message; the      *)
(* assertions fail only if a message came twice, if all came before start() *)
(* was answered, or if it was answered with a failure Node.js did not mind. *)
WhyAssertionsFail ==
  exit["consumer"] = "assert" =>
    \/ state["consumer"] \in {"STARTING", "FAILED"}
    \/ \E c, d \in Calls : c # d /\ carried[c] = carried[d] /\ carried[c] # Unset

(* The test ends, well or not, unless shutdown() of the producer has failed *)
(* and Node.js did not mind.                                                *)
TestEnds ==
  <>(\/ exit["producer"] \in {"1", "4"} \/ exit["consumer"] # "running"
     \/ state["producer"] = "FAILED")
=============================================================================
