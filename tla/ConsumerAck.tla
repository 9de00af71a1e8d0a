------------------------------ MODULE ConsumerAck ------------------------------
(***************************************************************************)
(* The rendezvous between a RocketMQ consume thread and the event loop:    *)
(* class ConsumerAckInner (mutex, condition variable, acked flag, status)  *)
(* which lives on the consume thread's stack inside OnMessage, and class   *)
(* ConsumerAck, the JavaScript `ack` object that points to it.             *)
(*                                                                         *)
(* Two actors meet on each invocation c of OnMessage:                      *)
(*   - the consume thread builds the ConsumerAckInner, sleeps in           *)
(*     WaitResult and destroys the object when OnMessage returns;          *)
(*   - the event-loop thread links the JavaScript object to it (SetInner)  *)
(*     and runs Ack when user code calls ack.done().                       *)
(* There is one event-loop thread: at most one Ack is running.             *)
(***************************************************************************)
CONSTANTS
  Calls,   \* invocations of OnMessage
  Unset    \* "no value": a CConsumeStatus that nobody assigned

Success  == "E_CONSUME_SUCCESS"
Later    == "E_RECONSUME_LATER"
Verdicts == {Success, Later}

ASSUME AckAssumption == Unset \notin Verdicts

VARIABLES
  waiter,   \* control of the consume thread in OnMessage / WaitResult
  acker,    \* control of the event-loop thread in ConsumerAck::Ack
  mutex,    \* owner of ConsumerAckInner::mutex, or "destroyed"
  acked,    \* ConsumerAckInner::acked
  status,   \* ConsumerAckInner::status, not initialised by the constructor
  ackObj,   \* the JavaScript object: "absent", "linked" (inner set), "nulled"
  asked,    \* the verdict passed to Ack by the first done()
  result    \* what WaitResult returned

ackVars == <<waiter, acker, mutex, acked, status, ackObj, asked, result>>

WaiterPC == {"out", "built", "check", "asleep", "relock", "read", "returned", "gone"}
AckerPC  == {"idle", "lock", "set", "unlock", "clear"}

AckInit ==
  /\ waiter = [c \in Calls |-> "out"]
  /\ acker  = [c \in Calls |-> "idle"]
  /\ mutex  = [c \in Calls |-> "free"]
  /\ acked  = [c \in Calls |-> FALSE]
  /\ status = [c \in Calls |-> Unset]
  /\ ackObj = [c \in Calls |-> "absent"]
  /\ asked  = [c \in Calls |-> Unset]
  /\ result = [c \in Calls |-> Unset]

(* The stack frame of OnMessage, and ack_inner in it, exists. *)
FrameAlive(c) == waiter[c] \notin {"out", "gone"}

WaiterGoes(c, from, to) ==
  /\ waiter[c] = from
  /\ waiter' = [waiter EXCEPT ![c] = to]

-----------------------------------------------------------------------------
(* The consume thread. *)

(* `ConsumerAckInner ack_inner;` acked is false, status is left as it was. *)
Construct(c) ==
  /\ WaiterGoes(c, "out", "built")
  /\ mutex' = [mutex EXCEPT ![c] = "free"]
  /\ acked' = [acked EXCEPT ![c] = FALSE]
  /\ UNCHANGED <<acker, status, ackObj, asked, result>>

(* WaitResult takes the mutex. *)
WaitLock(c) ==
  /\ mutex[c] = "free"
  /\ WaiterGoes(c, "built", "check")
  /\ mutex' = [mutex EXCEPT ![c] = "waiter"]
  /\ UNCHANGED <<acker, acked, status, ackObj, asked, result>>

(* Mutant: WaitResult sleeps without looking whether Ack was faster. *)
AlwaysSleeps(c) == FALSE

(* Mutant: WaitResult returns without waiting. *)
NeverWaits(c) == TRUE

(* The test that lets WaitResult skip the wait when Ack was faster. *)
AlreadyAcked(c) == acked[c]

(* With the mutex held: return at once, or release it and sleep. *)
WaitCheck(c) ==
  \/ /\ AlreadyAcked(c)
     /\ WaiterGoes(c, "check", "read")
     /\ UNCHANGED <<acker, mutex, acked, status, ackObj, asked, result>>
  \/ /\ ~AlreadyAcked(c)
     /\ WaiterGoes(c, "check", "asleep")
     /\ mutex' = [mutex EXCEPT ![c] = "free"]
     /\ UNCHANGED <<acker, acked, status, ackObj, asked, result>>

(* POSIX lets a platform wake a thread that nobody signalled; see PosixSpec. *)
SpuriousWake(c) ==
  /\ WaiterGoes(c, "asleep", "relock")
  /\ UNCHANGED <<acker, mutex, acked, status, ackObj, asked, result>>

(* uv_cond_wait reacquires the mutex before it returns. *)
WaitRelock(c) ==
  /\ mutex[c] = "free"
  /\ WaiterGoes(c, "relock", "read")
  /\ mutex' = [mutex EXCEPT ![c] = "waiter"]
  /\ UNCHANGED <<acker, acked, status, ackObj, asked, result>>

(* WaitResult copies status, unlocks and returns it.  A status nobody      *)
(* assigned is whatever the stack held, read as either verdict.            *)
WaitReturn(c) ==
  /\ WaiterGoes(c, "read", "returned")
  /\ \E s \in IF status[c] = Unset THEN Verdicts ELSE {status[c]} :
       result' = [result EXCEPT ![c] = s]
  /\ mutex' = [mutex EXCEPT ![c] = "free"]
  /\ UNCHANGED <<acker, acked, status, ackObj, asked>>

(* OnMessage returns: ~ConsumerAckInner destroys mutex and condition. *)
FrameExit(c) ==
  /\ WaiterGoes(c, "returned", "gone")
  /\ mutex' = [mutex EXCEPT ![c] = "destroyed"]
  /\ UNCHANGED <<acker, acked, status, ackObj, asked, result>>

-----------------------------------------------------------------------------
(* The event-loop thread. *)

LoopInAck == \E d \in Calls : acker[d] # "idle"

AckerGoes(c, from, to) ==
  /\ acker[c] = from
  /\ acker' = [acker EXCEPT ![c] = to]

SetInner(c) ==
  /\ ackObj' = [ackObj EXCEPT ![c] = "linked"]
  /\ UNCHANGED <<waiter, acker, mutex, acked, status, asked, result>>

(* The shapes of argument that ConsumerAck::Done tells apart. *)
DoneArgs == {"none", "undefined", "null", "truthy", "falsy"}

(* Mutant: the argument is handed on without being converted. *)
DoneStatusRaw(arg) == arg

DoneStatus(arg) == IF arg = "falsy" THEN Later ELSE Success

(* ack.done(arg): nothing happens when inner is NULL. *)
Done(c, arg) ==
  /\ ~LoopInAck
  /\ ackObj[c] = "linked"
  /\ AckerGoes(c, "idle", "lock")
  /\ asked' = [asked EXCEPT ![c] = DoneStatus(arg)]
  /\ UNCHANGED <<waiter, mutex, acked, status, ackObj, result>>

AckLock(c) ==
  /\ mutex[c] = "free"
  /\ AckerGoes(c, "lock", "set")
  /\ mutex' = [mutex EXCEPT ![c] = "acker"]
  /\ UNCHANGED <<waiter, acked, status, ackObj, asked, result>>

(* Mutant: the signal is forgotten. *)
NoSignal(c) == waiter

(* uv_cond_signal: a thread asleep must reacquire the mutex; a thread that *)
(* is not asleep does not notice.                                          *)
Signal(c) == IF waiter[c] = "asleep" THEN [waiter EXCEPT ![c] = "relock"] ELSE waiter

(* Mutant: acked is set, the status is not stored. *)
AckSetNoStatus(c) ==
  /\ AckerGoes(c, "set", "unlock")
  /\ acked' = [acked EXCEPT ![c] = TRUE]
  /\ waiter' = Signal(c)
  /\ UNCHANGED <<mutex, status, ackObj, asked, result>>

(* With the mutex held: an object acked before is left alone. *)
AckSet(c) ==
  /\ AckerGoes(c, "set", "unlock")
  /\ acked' = [acked EXCEPT ![c] = TRUE]
  /\ status' = [status EXCEPT ![c] = IF acked[c] THEN @ ELSE asked[c]]
  /\ waiter' = IF acked[c] THEN waiter ELSE Signal(c)
  /\ UNCHANGED <<mutex, ackObj, asked, result>>

AckUnlock(c) ==
  /\ AckerGoes(c, "unlock", "clear")
  /\ mutex' = [mutex EXCEPT ![c] = "free"]
  /\ UNCHANGED <<waiter, acked, status, ackObj, asked, result>>

(* Mutant: ConsumerAck::Ack keeps its pointer. *)
AckClearKeeps(c) ==
  /\ AckerGoes(c, "clear", "idle")
  /\ UNCHANGED <<waiter, mutex, acked, status, ackObj, asked, result>>

(* `inner = NULL;` once Ack has returned. *)
AckClear(c) ==
  /\ AckerGoes(c, "clear", "idle")
  /\ ackObj' = [ackObj EXCEPT ![c] = "nulled"]
  /\ UNCHANGED <<waiter, mutex, acked, status, asked, result>>

(* Nobody refers to the JavaScript object any more and it is collected:    *)
(* ~ConsumerAck forgets the pointer and the verdict is never given.        *)
CollectAck(c) ==
  /\ ~LoopInAck
  /\ ackObj[c] = "linked"
  /\ ackObj' = [ackObj EXCEPT ![c] = "nulled"]
  /\ UNCHANGED <<waiter, acker, mutex, acked, status, asked, result>>

-----------------------------------------------------------------------------
(* The caller links one new JavaScript object to a frame that exists. *)
OfferAck(c) ==
  /\ waiter[c] # "out"
  /\ ackObj[c] = "absent"
  /\ SetInner(c)

WaiterStep(c) ==
  WaitLock(c) \/ WaitCheck(c) \/ WaitRelock(c) \/ WaitReturn(c) \/ FrameExit(c)

AckerStep(c) == AckLock(c) \/ AckSet(c) \/ AckUnlock(c) \/ AckClear(c)

AckNext ==
  \E c \in Calls :
    \/ Construct(c) \/ WaiterStep(c)
    \/ OfferAck(c) \/ CollectAck(c) \/ AckerStep(c)
    \/ \E arg \in DoneArgs : Done(c, arg)

(* On a platform where uv_cond_wait returns only after a signal... *)
AckSpec == AckInit /\ [][AckNext]_ackVars

(* ...and on one where it also returns without. *)
PosixNext == AckNext \/ \E c \in Calls : SpuriousWake(c)
PosixSpec == AckInit /\ [][PosixNext]_ackVars

-----------------------------------------------------------------------------
(* Every variable keeps its range; in particular what is stored and        *)
(* returned is a CConsumeStatus, never the raw argument of done().         *)
AckTypeOK ==
  /\ waiter \in [Calls -> WaiterPC]
  /\ acker  \in [Calls -> AckerPC]
  /\ mutex  \in [Calls -> {"free", "waiter", "acker", "destroyed"}]
  /\ acked  \in [Calls -> BOOLEAN]
  /\ status \in [Calls -> Verdicts \cup {Unset}]
  /\ ackObj \in [Calls -> {"absent", "linked", "nulled"}]
  /\ asked  \in [Calls -> Verdicts \cup {Unset}]
  /\ result \in [Calls -> Verdicts \cup {Unset}]

(* No lost wakeup: a consume thread is never asleep in uv_cond_wait once   *)
(* Ack has set acked, whichever of Ack and WaitResult came first.          *)
NoLostWakeup == \A c \in Calls : waiter[c] = "asleep" => ~acked[c]

(* Whatever the event loop may still dereference exists: the frame under a *)
(* running Ack, and the frame a JavaScript ack object still points to      *)
(* (except between the unlock and `inner = NULL`, when it is not used).    *)
NoDanglingAck ==
  \A c \in Calls :
    /\ acker[c] \in {"lock", "set", "unlock"} => FrameAlive(c)
    /\ ackObj[c] = "linked" /\ acker[c] # "clear" => FrameAlive(c)

(* OnMessage returns what the listener asked for, and nothing before the   *)
(* listener asked.                                                         *)
ResultIsAsked == \A c \in Calls : result[c] # Unset => result[c] = asked[c]

(* The comment at WaitResult: it waits for Ack, whose signal ends the wait. *)
ReturnsOnlyAfterAck == \A c \in Calls : waiter[c] = "returned" => acked[c]

(* A done() that reached the frame makes OnMessage return. *)
DoneReleases == \A c \in Calls : asked[c] # Unset ~> waiter[c] = "gone"

-----------------------------------------------------------------------------
(* The contract: an invocation is offered when its JavaScript object is    *)
(* linked, decided when done() reaches the frame, reported when WaitResult *)
(* returns.                                                                *)
PhaseOf(c) ==
  IF result[c] # Unset    THEN "reported" ELSE
  IF asked[c] # Unset     THEN "decided"  ELSE
  IF ackObj[c] # "absent" THEN "offered"  ELSE
  IF waiter[c] # "out"    THEN "handed"   ELSE "idle"

Contract ==
  INSTANCE ConsumeContract WITH
    phase <- [c \in Calls |-> PhaseOf(c)], verdict <- asked, report <- result

(* Each step of the rendezvous is a step of the contract or none. *)
ImplementsContract == Contract!ContractSpec
=============================================================================
