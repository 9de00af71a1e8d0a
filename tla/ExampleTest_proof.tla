---------------------------- MODULE ExampleTest_proof ---------------------------
(***************************************************************************)
(* What `npm test` shows, for any number of messages and deliveries and    *)
(* whatever Node.js does with an unhandled rejection: when a test passes,  *)
(* and why its assertions fail.                                            *)
(***************************************************************************)
EXTENDS ExampleTest, FiniteSetTheorems, TLAPS

(* Messages the listener has answered, and whether they are all there are. *)
Answered    == {c \in Calls : phase[c] \in {"decided", "reported"}}
AllConsumed == \A m \in Messages : \E c \in Answered : carried[c] = m

Typed ==
  /\ state \in [{"producer", "consumer"} -> Object!States]
  /\ exit \in [{"producer", "consumer"} -> {"running", "0", "1", "4", "assert"}]
  /\ stored \subseteq Messages
  /\ carried \in [Calls -> Messages \cup {Unset}]
  /\ phase \in [Calls -> Consume!Phases]
  /\ verdict \in [Calls -> Verdicts \cup {Unset}]
  /\ report \in [Calls -> Verdicts \cup {Unset}]
  /\ msgs \in Seq(Messages)

(* The array of push_consumer.js holds the answered messages, one entry for *)
(* each.                                                                    *)
Noted ==
  /\ \A c \in Calls : phase[c] # "idle" => carried[c] \in Messages
  /\ \A c \in Answered : verdict[c] = "E_CONSUME_SUCCESS"
  /\ \A c \in Calls : phase[c] = "reported" => report[c] = "E_CONSUME_SUCCESS"
  /\ Len(msgs) = Cardinality(Answered)
  /\ \A k \in DOMAIN msgs : \E c \in Answered : msgs[k] = carried[c]
  /\ \A c \in Answered : \E k \in DOMAIN msgs : msgs[k] = carried[c]

(* How far the two processes are. *)
Ordered ==
  /\ exit["producer"] = "0" => state["producer"] = "STOPPED"
  /\ exit["consumer"] # "running" => exit["producer"] = "0"
  /\ exit["consumer"] = "running" /\ state["consumer"] = "STOPPED" => \A c \in Calls : phase[c] = "idle"
  /\ state["consumer"] = "STOPPING" => Len(msgs) >= MessageCount /\ AllConsumed
  /\ exit["consumer"] = "0" =>
       \/ state["consumer"] = "STOPPED" /\ OpenCalls = {} /\ AllConsumed
       \/ state["consumer"] = "FAILED"

ExInv == Typed /\ Noted /\ Ordered /\ WhyAssertionsFail

-----------------------------------------------------------------------------
LEMMA AnsweredFinite ==
  ASSUME NEW A \in SUBSET Calls
  PROVE  IsFiniteSet(A) /\ Cardinality(A) \in Nat /\ Cardinality(A) <= MaxCalls
<1>1. IsFiniteSet(Calls) /\ Cardinality(Calls) = MaxCalls
  BY ExampleAssumption, FS_Interval DEF Calls
<1> QED BY <1>1, FS_Subset, FS_CardinalityType

LEMMA MessagesFinite == IsFiniteSet(Messages) /\ Cardinality(Messages) = MessageCount
<1>1. MessageCount \in Nat \ {0}
  BY ExampleAssumption
<1> QED BY <1>1, FS_Interval DEF Messages

(* As many calls as there are messages, no two with the same: every message *)
(* is among them.                                                           *)
LEMMA NoneTwiceNoneMissing ==
  ASSUME NEW A \in SUBSET Calls, Cardinality(A) = MessageCount,
         NEW f \in [A -> Messages], \A c, d \in A : f[c] = f[d] => c = d
  PROVE  \A m \in Messages : \E c \in A : f[c] = m
<1>1. f \in Injection(A, Messages)
  BY DEF Injection, IsInjective
<1>2. f \in Surjection(A, Messages)
  BY <1>1, MessagesFinite, FS_Injection
<1> QED BY <1>2 DEF Surjection

LEMMA ExampleInit == Init => ExInv
<1> SUFFICES ASSUME Init PROVE ExInv
  OBVIOUS
<1> USE DEF Init, Object!ContractInit, Consume!ContractInit
<1>1. Typed
  BY DEF Typed, Object!States, Consume!Phases
<1>2. Answered = {} /\ Cardinality({}) = 0
  BY FS_EmptySet DEF Answered
<1>3. Noted
  BY <1>2 DEF Noted
<1>4. Ordered /\ WhyAssertionsFail
  BY DEF Ordered, WhyAssertionsFail
<1> QED BY <1>1, <1>3, <1>4 DEF ExInv

-----------------------------------------------------------------------------
(* While the producer runs the consumer has not begun. *)
LEMMA ProducerSteps ==
  ASSUME ExInv, ProducerStep
  PROVE  ExInv'
<1>1. /\ exit["producer"] = "running" /\ exit["consumer"] = "running"
      /\ UNCHANGED <<carried, phase, verdict, report, msgs>>
  BY DEF ExInv, Ordered, ProducerStep, ProducerStart, ProducerStarted, SendNext, ProducerShutdown,
         ProducerStopped, ProducerRuns, consumeVars
<1>2. /\ state' \in [{"producer", "consumer"} -> Object!States]
      /\ state'["consumer"] = state["consumer"]
  BY DEF ExInv, Typed, ProducerStep, ProducerStart, ProducerStarted, SendNext, ProducerShutdown,
         ProducerStopped, Object!MoveTo, Object!States
<1>3. /\ exit' \in [{"producer", "consumer"} -> {"running", "0", "1", "4", "assert"}]
      /\ exit'["consumer"] = "running"
      /\ exit'["producer"] = "0" => state'["producer"] = "STOPPED"
  BY <1>1 DEF ExInv, Typed, ProducerStep, ProducerStart, ProducerStarted, SendNext, ProducerShutdown,
         ProducerStopped, IntervalGone, Ends, Unhandled, Object!MoveTo, Object!States
<1>4. stored' \subseteq Messages
  <2>1. CASE SendNext
    <3>1. IsFiniteSet(stored) /\ Cardinality(stored) \in Nat
      BY MessagesFinite, FS_Subset, FS_CardinalityType DEF ExInv, Typed
    <3>2. Cardinality(stored) \in Messages
      BY <2>1, <3>1, ExampleAssumption DEF SendNext, MoreToSend, Messages
    <3> QED BY <2>1, <3>2 DEF SendNext, ExInv, Typed
  <2>2. CASE ~SendNext
    BY <2>2 DEF ExInv, Typed, ProducerStep, ProducerStart, ProducerStarted, ProducerShutdown, ProducerStopped
  <2> QED BY <2>1, <2>2
<1>5. Typed'
  BY <1>1, <1>2, <1>3, <1>4 DEF ExInv, Typed
<1>6. Noted'
  BY <1>1 DEF ExInv, Noted, Answered
<1>7. Ordered' /\ WhyAssertionsFail'
  BY <1>1, <1>2, <1>3 DEF ExInv, Ordered, WhyAssertionsFail, AllConsumed, Answered
<1> QED BY <1>5, <1>6, <1>7 DEF ExInv

(* The answers to start() and shutdown(). *)
LEMMA ConsumerSteps ==
  ASSUME ExInv, ConsumerStep
  PROVE  ExInv'
<1>1. /\ exit["producer"] = "0" /\ exit["consumer"] = "running"
      /\ UNCHANGED <<stored, carried, phase, verdict, report, msgs>>
  BY DEF ConsumerStep, ConsumerStart, ConsumerStarted, ConsumerLoopEmpty, ConsumerStopped, ConsumerRuns,
         consumeVars
<1>2. /\ state' \in [{"producer", "consumer"} -> Object!States]
      /\ state'["producer"] = state["producer"]
  BY DEF ExInv, Typed, ConsumerStep, ConsumerStart, ConsumerStarted, ConsumerLoopEmpty, ConsumerStopped,
         Object!MoveTo, Object!States
<1>3. /\ exit' \in [{"producer", "consumer"} -> {"running", "0", "1", "4", "assert"}]
      /\ exit'["producer"] = "0" /\ exit'["consumer"] # "assert"
  BY <1>1 DEF ExInv, Typed, ConsumerStep, ConsumerStart, ConsumerStarted, ConsumerLoopEmpty, ConsumerStopped,
               Ends, Unhandled
<1>4. Typed' /\ WhyAssertionsFail'
  BY <1>1, <1>2, <1>3 DEF ExInv, Typed, WhyAssertionsFail
<1>6. Noted'
  BY <1>1 DEF ExInv, Noted, Answered
<1>5. Ordered'
  <2> USE DEF ExInv, Typed, Object!MoveTo, Object!States, Object!Moves, Ends, Unhandled
  <2>1. CASE ConsumerStart
    BY <2>1, <1>1, <1>2, <1>3 DEF ConsumerStart, Ordered, AllConsumed, Answered
  <2>2. CASE ConsumerStarted
    BY <2>2, <1>1, <1>2, <1>3 DEF ConsumerStarted, Ordered, AllConsumed, Answered
  <2>3. CASE ConsumerLoopEmpty
    BY <2>3, <1>1, <1>2, <1>3 DEF ConsumerLoopEmpty, Ordered, AllConsumed, Answered
  <2>4. CASE ConsumerStopped
    <3>1. \/ state'["consumer"] = "STOPPED" /\ exit'["consumer"] = "0" /\ OpenCalls = {}
          \/ state'["consumer"] = "FAILED" /\ exit'["consumer"] = "4"
      BY <2>4 DEF ConsumerStopped, Drained
    <3>2. state["consumer"] = "STOPPING" /\ AllConsumed
      BY <2>4 DEF ConsumerStopped, Ordered
    <3>3. AllConsumed' /\ (OpenCalls' = OpenCalls)
      BY <3>2, <1>1 DEF AllConsumed, Answered, OpenCalls
    <3> QED BY <3>1, <3>3, <1>1, <1>2, <1>3 DEF Ordered
  <2> QED BY <2>1, <2>2, <2>3, <2>4 DEF ConsumerStep
<1> QED BY <1>4, <1>5, <1>6 DEF ExInv

(* A message on its way, before and after the listener has it. *)
LEMMA CallSteps ==
  ASSUME ExInv, NEW c \in Calls,
         Emit(c) \/ Return(c) \/ \E m \in Messages : OnMessage(c, m)
  PROVE  ExInv'
<1> USE DEF ExInv, Typed, Consume!Hand, Consume!Offer, Consume!Report, Consume!Advance
<1>1. /\ exit["producer"] = "0" /\ exit["consumer"] = "running"
      /\ UNCHANGED <<state, exit, stored, msgs, verdict>>
      /\ c \notin Answered => UNCHANGED report
  BY DEF Emit, Return, OnMessage, ConsumerRuns, Answered
<1>2. /\ phase' \in [Calls -> Consume!Phases]
      /\ \A d \in Calls \ {c} : phase'[d] = phase[d]
      /\ phase'[c] # "idle"
  BY DEF Emit, Return, OnMessage, Consume!Phases
<1>3. Answered' = Answered
  BY <1>2 DEF Emit, Return, OnMessage, Answered, Consume!Phases
<1>4. /\ carried' \in [Calls -> Messages \cup {Unset}]
      /\ \A d \in Calls : d # c \/ d \in Answered => carried'[d] = carried[d]
      /\ carried'[c] \in Messages
  BY DEF Emit, Return, OnMessage, Noted, Answered
<1>5. /\ report' \in [Calls -> Verdicts \cup {Unset}]
      /\ \A d \in Calls : phase'[d] = "reported" => report'[d] = "E_CONSUME_SUCCESS"
  BY DEF Emit, Return, OnMessage, Noted, Answered, Consume!Phases
<1>6. Typed'
  BY <1>1, <1>2, <1>4, <1>5
<1>7. Noted'
  <2>1. \A d \in Answered' : d \in Answered /\ d \in Calls /\ carried'[d] = carried[d]
    BY <1>3, <1>4 DEF Answered
  <2>2. \A d \in Calls : phase'[d] # "idle" => carried'[d] \in Messages
    BY <1>2, <1>4 DEF Noted
  <2>3. Cardinality(Answered') = Cardinality(Answered)
    BY <1>3
  <2>4. \A d \in Answered' : verdict'[d] = "E_CONSUME_SUCCESS"
    BY <1>1, <1>3 DEF Noted
  <2>5. /\ \A k \in DOMAIN msgs' : \E d \in Answered' : msgs'[k] = carried'[d]
        /\ \A d \in Answered' : \E k \in DOMAIN msgs' : msgs'[k] = carried'[d]
    <3>1. msgs' = msgs /\ Answered' = Answered /\ \A d \in Answered : carried'[d] = carried[d]
      BY <2>1, <1>1, <1>3
    <3>2. /\ \A k \in DOMAIN msgs : \E d \in Answered : msgs[k] = carried[d]
          /\ \A d \in Answered : \E k \in DOMAIN msgs : msgs[k] = carried[d]
      BY DEF Noted
    <3> HIDE DEF ExInv
    <3>3. /\ \A k \in DOMAIN msgs : \E d \in Answered : msgs[k] = carried'[d]
          /\ \A d \in Answered : \E k \in DOMAIN msgs : msgs[k] = carried'[d]
      BY <3>1, <3>2
    <3> QED BY <3>1, <3>3
  <2>6. Len(msgs') = Cardinality(Answered')
    BY <2>3, <1>1 DEF Noted
  <2> QED BY <2>2, <2>4, <2>5, <2>6, <1>5 DEF Noted
<1>8. Ordered'
  <2>1. AllConsumed => AllConsumed'
    BY <1>3, <1>4 DEF AllConsumed, Answered
  <2>2. state["consumer"] # "STOPPED"
    BY <1>1 DEF Emit, Return, OnMessage, Ordered
  <2> QED BY <2>1, <2>2, <1>1 DEF Ordered
<1>9. WhyAssertionsFail'
  BY <1>1 DEF WhyAssertionsFail
<1> QED BY <1>6, <1>7, <1>8, <1>9

(* The listener. *)
LEMMA ListenerStep ==
  ASSUME ExInv, NEW c \in Calls, Listener(c)
  PROVE  ExInv'
<1> DEFINE last == Len(msgs') = MessageCount
<1>1. /\ exit["producer"] = "0" /\ exit["consumer"] = "running"
      /\ UNCHANGED <<stored, carried, report>>
      /\ phase[c] = "offered" /\ phase' = [phase EXCEPT ![c] = "decided"]
      /\ verdict' \in [Calls -> Verdicts \cup {Unset}]
      /\ verdict'[c] = "E_CONSUME_SUCCESS"
      /\ \A d \in Calls \ {c} : verdict'[d] = verdict[d]
      /\ msgs' = Append(msgs, carried[c])
  BY DEF ExInv, Typed, Listener, ConsumerRuns, Consume!Decide, Consume!Advance
<1>2. c \notin Answered /\ Answered' = Answered \cup {c} /\ Answered' \subseteq Calls
  BY <1>1 DEF ExInv, Typed, Answered
<1>3. carried[c] \in Messages
  BY <1>1 DEF ExInv, Noted
<1>4. /\ msgs' \in Seq(Messages) /\ Len(msgs') = Len(msgs) + 1 /\ Len(msgs) \in Nat
      /\ DOMAIN msgs = 1..Len(msgs) /\ DOMAIN msgs' = 1..(Len(msgs) + 1)
      /\ \A k \in 1..Len(msgs) : msgs'[k] = msgs[k]
      /\ msgs'[Len(msgs) + 1] = carried[c]
  BY <1>1, <1>3 DEF ExInv, Typed
<1>5. Cardinality(Answered') = Cardinality(Answered) + 1
  BY <1>2, AnsweredFinite, FS_AddElement DEF Answered
<1>6. Noted'
  <2>1. \A k \in DOMAIN msgs' : \E d \in Answered' : msgs'[k] = carried'[d]
    BY <1>1, <1>2, <1>4 DEF ExInv, Noted
  <2>5. \A d \in Answered' : \E k \in DOMAIN msgs' : msgs'[k] = carried'[d]
    BY <1>1, <1>2, <1>4 DEF ExInv, Noted
  <2>2. Len(msgs') = Cardinality(Answered')
    BY <1>4, <1>5 DEF ExInv, Noted
  <2>3. \A d \in Answered' : verdict'[d] = "E_CONSUME_SUCCESS"
    BY <1>1, <1>2 DEF ExInv, Noted
  <2>4. \A d \in Calls : /\ phase'[d] # "idle" => carried'[d] \in Messages
                         /\ phase'[d] = "reported" => report'[d] = "E_CONSUME_SUCCESS"
    BY <1>1, <1>3 DEF ExInv, Typed, Noted
  <2> QED BY <2>1, <2>2, <2>3, <2>4, <2>5 DEF Noted
<1>7. \/ ~last /\ UNCHANGED <<state, exit>>
      \/ /\ last /\ AsExpected(msgs') /\ state["consumer"] = "STARTED"
         /\ state' = [state EXCEPT !["consumer"] = "STOPPING"] /\ UNCHANGED exit
      \/ /\ last /\ ~(AsExpected(msgs') /\ state["consumer"] = "STARTED")
         /\ exit' = [exit EXCEPT !["consumer"] = "assert"] /\ UNCHANGED state
  BY DEF Listener, IsLast, Object!MoveTo, Ends
<1>8. Typed'
  BY <1>1, <1>4, <1>7 DEF ExInv, Typed, Consume!Phases, Object!States
<1>9. state["consumer"] \in {"STARTING", "STARTED", "STOPPING", "FAILED"}
  BY <1>1 DEF ExInv, Typed, Ordered, Object!States
<1>10. AsExpected(msgs') => AllConsumed'
  BY <1>6 DEF AsExpected, Noted, AllConsumed
<1>11. AllConsumed => AllConsumed'
  BY <1>1, <1>2 DEF AllConsumed
<1>12. Ordered'
  <2>1. Len(msgs) \in Nat /\ MessageCount \in Nat
    BY ExampleAssumption DEF ExInv, Typed
  <2> QED BY <2>1, <1>1, <1>4, <1>7, <1>9, <1>10, <1>11 DEF ExInv, Typed, Ordered
<1>13. WhyAssertionsFail'
  <2> SUFFICES ASSUME exit'["consumer"] = "assert", state["consumer"] \notin {"STARTING", "FAILED"},
                      \A x, y \in Calls : carried[x] = carried[y] /\ carried[x] # Unset => x = y
               PROVE  FALSE
    BY <1>1, <1>7 DEF WhyAssertionsFail, ExInv, Typed
  <2>1. last /\ ~(AsExpected(msgs') /\ state["consumer"] = "STARTED")
    BY <1>1, <1>7
  <2>2. state["consumer"] # "STOPPING"
    <3>1. Len(msgs) \in Nat /\ MessageCount \in Nat
      BY ExampleAssumption DEF ExInv, Typed
    <3> QED BY <2>1, <3>1, <1>4 DEF ExInv, Ordered
  <2> DEFINE f == [d \in Answered' |-> carried[d]]
  <2>3. \A d \in Answered' : carried[d] \in Messages /\ carried[d] # Unset
    <3>1. \A d \in Answered : carried[d] \in Messages
      BY DEF ExInv, Noted, Answered
    <3> QED BY <3>1, <1>2, <1>3, ExampleAssumption
  <2>4. \A m \in Messages : \E d \in Answered' : f[d] = m
    <3>1. f \in [Answered' -> Messages] /\ \A x, y \in Answered' : f[x] = f[y] => x = y
      BY <1>2, <2>3
    <3>2. Answered' \in SUBSET Calls /\ Cardinality(Answered') = MessageCount
      BY <1>2, <1>6, <2>1 DEF Noted
    <3> HIDE DEF f
    <3> QED BY <3>1, <3>2, NoneTwiceNoneMissing
  <2>5. AsExpected(msgs')
    <3>1. \A m \in Messages : \E k \in DOMAIN msgs' : msgs'[k] = m
      BY <2>4, <1>1, <1>6 DEF Noted
    <3>2. \A k \in DOMAIN msgs' : msgs'[k] \in Messages
      BY <2>3, <1>1, <1>6 DEF Noted
    <3> QED BY <3>1, <3>2 DEF AsExpected
  <2> QED BY <2>1, <2>2, <2>5, <1>9
<1> QED BY <1>6, <1>8, <1>12, <1>13 DEF ExInv

-----------------------------------------------------------------------------
(* The array, the answers and the two processes fit together, whatever the  *)
(* broker redelivers and whichever call fails.                              *)
THEOREM ExampleInvariant == Spec => []ExInv
<1>1. ASSUME ExInv, [Next]_vars
      PROVE  ExInv'
  <2>1. CASE ProducerStep
    BY <1>1, <2>1, ProducerSteps
  <2>2. CASE ConsumerStep
    BY <1>1, <2>2, ConsumerSteps
  <2>3. CASE \E c \in Calls : Emit(c) \/ Return(c) \/ \E m \in Messages : OnMessage(c, m)
    BY <1>1, <2>3, CallSteps
  <2>4. CASE \E c \in Calls : Listener(c)
    BY <1>1, <2>4, ListenerStep
  <2>5. CASE UNCHANGED vars
    <3>1. UNCHANGED <<state, exit, stored, carried, phase, verdict, report, msgs>>
      BY <2>5 DEF vars, consumeVars
    <3>2. Typed' /\ Noted'
      BY <1>1, <3>1 DEF ExInv, Typed, Noted, Answered
    <3>3. Ordered' /\ WhyAssertionsFail'
      BY <1>1, <3>1 DEF ExInv, Ordered, WhyAssertionsFail, AllConsumed, Answered, OpenCalls
    <3> QED BY <3>2, <3>3 DEF ExInv
  <2> QED BY <1>1, <2>1, <2>2, <2>3, <2>4, <2>5 DEF Next
<1> QED BY ExampleInit, <1>1, PTL DEF Spec

(* npm test: every variable keeps its range; the array of messages is not   *)
(* longer than there were calls of the listener.                            *)
THEOREM ExampleTypeCorrect == Spec => []TypeOK
<1>1. ExInv => TypeOK
  BY AnsweredFinite DEF ExInv, Typed, Noted, Answered, TypeOK
<1> QED BY ExampleInvariant, <1>1, PTL

(* example/push_consumer.js: a test that passes has consumed every message  *)
(* and left neither client nor message behind, unless start() of its        *)
(* consumer has failed and Node.js did not mind.                            *)
THEOREM ExamplePassMeansConsumed == Spec => []PassMeansConsumed
<1>1. ASSUME ExInv, exit["consumer"] = "0", state["consumer"] # "FAILED"
      PROVE  /\ state["consumer"] = "STOPPED" /\ OpenCalls = {}
             /\ \A m \in Messages : \E c \in Calls : carried[c] = m /\ report[c] = "E_CONSUME_SUCCESS"
  <2>1. OpenCalls = {} /\ AllConsumed /\ state["consumer"] = "STOPPED"
    BY <1>1 DEF ExInv, Ordered
  <2>2. \A c \in Answered : report[c] = "E_CONSUME_SUCCESS"
    BY <1>1, <2>1 DEF ExInv, Noted, Answered, OpenCalls
  <2> QED BY <2>1, <2>2 DEF AllConsumed, Answered
<1>3. ASSUME ExInv, exit["consumer"] = "0" PROVE state["producer"] = "STOPPED"
  BY <1>3 DEF ExInv, Ordered
<1>2. ExInv => PassMeansConsumed
  BY <1>1, <1>3 DEF PassMeansConsumed
<1> QED BY ExampleInvariant, <1>2, PTL

(* example/push_consumer.js: an assertion fails only for a message that     *)
(* came twice, or for messages that all came before start() was answered or *)
(* to a consumer whose start() has failed.                                  *)
THEOREM ExampleWhyAssertionsFail == Spec => []WhyAssertionsFail
<1>1. ExInv => WhyAssertionsFail
  BY DEF ExInv
<1> QED BY ExampleInvariant, <1>1, PTL
=============================================================================
