--------------------------- MODULE PushDelivery_proof --------------------------
(***************************************************************************)
(* Proofs about the rendezvous of ConsumerAck, for any set of invocations, *)
(* and about PushDelivery, for any number of invocations, of consume       *)
(* threads and of consumers constructed meanwhile, with both data races.   *)
(***************************************************************************)
EXTENDS PushDelivery, FiniteSetTheorems, TLAPS

-----------------------------------------------------------------------------
(* Who holds the mutex is decided by where the two threads are. *)
MutexOwner ==
  \A c \in Calls :
    /\ mutex[c] = "waiter" <=> waiter[c] \in {"check", "read"}
    /\ mutex[c] = "acker" <=> acker[c] \in {"set", "unlock"}
    /\ mutex[c] = "destroyed" <=> waiter[c] = "gone"

(* The life of the JavaScript object: nothing is asked before it is linked, *)
(* it is linked while Ack runs, and once asked it never reaches Ack again.  *)
AckObjLife ==
  \A c \in Calls :
    /\ waiter[c] = "out" => ackObj[c] = "absent"
    /\ ackObj[c] = "absent" => asked[c] = Unset
    /\ acker[c] # "idle" => ackObj[c] = "linked" /\ asked[c] # Unset
    /\ acker[c] = "idle" /\ ackObj[c] = "linked" => asked[c] = Unset

(* acked means that the verdict asked for has been stored. *)
AckedStored ==
  \A c \in Calls :
    /\ acked[c] => asked[c] # Unset /\ acker[c] \notin {"lock", "set"}
    /\ acked[c] => status[c] = asked[c]

(* WaitResult is past its wait only if the frame was acked, and it has the  *)
(* mutex back only after Ack has released it.                               *)
PastWaitAcked ==
  \A c \in Calls :
    /\ waiter[c] \in {"relock", "read", "returned", "gone"} => acked[c]
    /\ waiter[c] \in {"read", "returned", "gone"} =>
         acker[c] \notin {"lock", "set", "unlock"}

(* A result exists from WaitReturn on and is the stored status. *)
ResultStored ==
  \A c \in Calls :
    /\ result[c] # Unset => waiter[c] \in {"returned", "gone"}
    /\ waiter[c] \in {"returned", "gone"} => result[c] = asked[c]

(* The inductive invariant of AckSpec, the platform without spurious wakeups. *)
AckInv ==
  /\ AckTypeOK
  /\ NoLostWakeup
  /\ MutexOwner
  /\ AckObjLife
  /\ AckedStored
  /\ PastWaitAcked
  /\ ResultStored

-----------------------------------------------------------------------------
LEMMA AckTypeStep ==
  ASSUME AckTypeOK, [PosixNext]_ackVars
  PROVE  AckTypeOK'
<1> USE DEF AckTypeOK, WaiterPC, AckerPC, WaiterGoes, AckerGoes
<1>1. CASE UNCHANGED ackVars
  BY <1>1 DEF ackVars
<1>2. ASSUME NEW c \in Calls, Construct(c) \/ SpuriousWake(c) PROVE AckTypeOK'
  BY <1>2 DEF Construct, SpuriousWake
<1>3. ASSUME NEW c \in Calls, WaiterStep(c) PROVE AckTypeOK'
  <2>1. CASE WaitReturn(c)
    BY <2>1 DEF WaitReturn
  <2>2. QED
    BY <1>3, <2>1 DEF WaiterStep, WaitLock, WaitCheck, WaitRelock, FrameExit
<1>4. ASSUME NEW c \in Calls, OfferAck(c) \/ CollectAck(c) PROVE AckTypeOK'
  BY <1>4 DEF OfferAck, SetInner, CollectAck
<1>5. ASSUME NEW c \in Calls, AckerStep(c) PROVE AckTypeOK'
  BY <1>5 DEF AckerStep, AckLock, AckSet, AckUnlock, AckClear, Signal
<1>6. ASSUME NEW c \in Calls, NEW arg \in DoneArgs, Done(c, arg) PROVE AckTypeOK'
  BY <1>6 DEF Done, DoneStatus, Verdicts
<1>7. QED
  BY <1>1, <1>2, <1>3, <1>4, <1>5, <1>6 DEF PosixNext, AckNext

(* Every variable keeps its range, spurious wakeups or not. *)
THEOREM AckTypeCorrect == PosixSpec => []AckTypeOK
<1>1. AckInit => AckTypeOK
  BY DEF AckInit, AckTypeOK, WaiterPC, AckerPC
<1>2. QED
  BY <1>1, AckTypeStep, PTL DEF PosixSpec

(* What holds on every platform holds on one without spurious wakeups. *)
LEMMA AckIsPosix == AckSpec => PosixSpec
<1>1. [AckNext]_ackVars => [PosixNext]_ackVars
  BY DEF PosixNext
<1>2. QED
  BY <1>1, PTL DEF AckSpec, PosixSpec

-----------------------------------------------------------------------------
(* No lost wakeup needs nothing from the platform: a thread falls asleep    *)
(* only in WaitCheck, with the mutex held and acked false, and Ack sets     *)
(* acked and wakes it in one critical section.                              *)
THEOREM AckNoLostWakeup == PosixSpec => []NoLostWakeup
<1>1. AckInit => NoLostWakeup
  BY DEF AckInit, NoLostWakeup
<1>2. AckTypeOK /\ NoLostWakeup /\ [PosixNext]_ackVars => NoLostWakeup'
  <2> SUFFICES ASSUME AckTypeOK, NoLostWakeup, [PosixNext]_ackVars PROVE NoLostWakeup'
    OBVIOUS
  <2> USE DEF AckTypeOK, NoLostWakeup, WaiterGoes, AckerGoes
  <2>1. CASE UNCHANGED ackVars
    BY <2>1 DEF ackVars
  <2>2. ASSUME NEW c \in Calls, Construct(c) \/ SpuriousWake(c) PROVE NoLostWakeup'
    BY <2>2 DEF Construct, SpuriousWake
  <2>3. ASSUME NEW c \in Calls, WaiterStep(c) PROVE NoLostWakeup'
    BY <2>3 DEF WaiterStep, WaitLock, WaitCheck, AlreadyAcked, WaitRelock, WaitReturn, FrameExit
  <2>4. ASSUME NEW c \in Calls, OfferAck(c) \/ CollectAck(c) PROVE NoLostWakeup'
    BY <2>4 DEF OfferAck, SetInner, CollectAck
  <2>5. ASSUME NEW c \in Calls, AckerStep(c) PROVE NoLostWakeup'
    BY <2>5 DEF AckerStep, AckLock, AckSet, AckUnlock, AckClear, Signal
  <2>6. ASSUME NEW c \in Calls, NEW arg \in DoneArgs, Done(c, arg) PROVE NoLostWakeup'
    BY <2>6 DEF Done
  <2>7. QED
    BY <2>1, <2>2, <2>3, <2>4, <2>5, <2>6 DEF PosixNext, AckNext
<1>3. QED
  BY <1>1, <1>2, AckTypeCorrect, PTL DEF PosixSpec

-----------------------------------------------------------------------------
(* AckInv is inductive where uv_cond_wait returns only after a signal. *)
LEMMA AckInvInit == AckInit => AckInv
BY AckAssumption DEF AckInit, AckInv, AckTypeOK, NoLostWakeup, MutexOwner, AckObjLife,
   AckedStored, PastWaitAcked, ResultStored, WaiterPC, AckerPC, Verdicts

LEMMA AckInvWaiter ==
  ASSUME AckInv, AckTypeOK', NEW c \in Calls, Construct(c) \/ WaiterStep(c)
  PROVE  AckInv'
<1> USE AckAssumption DEF AckInv, AckTypeOK, WaiterGoes, WaiterPC, AckerPC
<1>1. CASE Construct(c)
  BY <1>1 DEF Construct, NoLostWakeup, MutexOwner, AckObjLife, AckedStored, PastWaitAcked, ResultStored
<1>2. CASE WaitLock(c)
  BY <1>2 DEF WaitLock, NoLostWakeup, MutexOwner, AckObjLife, AckedStored, PastWaitAcked, ResultStored
<1>3. CASE WaitCheck(c)
  BY <1>3 DEF WaitCheck, AlreadyAcked, NoLostWakeup, MutexOwner, AckObjLife, AckedStored,
     PastWaitAcked, ResultStored
<1>4. CASE WaitRelock(c)
  BY <1>4 DEF WaitRelock, NoLostWakeup, MutexOwner, AckObjLife, AckedStored, PastWaitAcked, ResultStored
<1>5. CASE WaitReturn(c)
  <2>1. status[c] = asked[c] /\ asked[c] # Unset
    BY <1>5 DEF WaitReturn, PastWaitAcked, AckedStored
  <2>2. result' = [result EXCEPT ![c] = asked[c]]
    BY <1>5, <2>1 DEF WaitReturn
  <2>3. QED
    BY <1>5, <2>1, <2>2 DEF WaitReturn, NoLostWakeup, MutexOwner, AckObjLife, AckedStored,
       PastWaitAcked, ResultStored
<1>6. CASE FrameExit(c)
  BY <1>6 DEF FrameExit, NoLostWakeup, MutexOwner, AckObjLife, AckedStored, PastWaitAcked, ResultStored
<1>7. QED
  BY <1>1, <1>2, <1>3, <1>4, <1>5, <1>6 DEF WaiterStep

LEMMA AckInvLoop ==
  ASSUME AckInv, AckTypeOK', NEW c \in Calls,
         OfferAck(c) \/ CollectAck(c) \/ AckerStep(c) \/ \E arg \in DoneArgs : Done(c, arg)
  PROVE  AckInv'
<1> USE AckAssumption DEF AckInv, AckTypeOK, AckerGoes, WaiterPC, AckerPC
<1>1. CASE OfferAck(c)
  BY <1>1 DEF OfferAck, SetInner, NoLostWakeup, MutexOwner, AckObjLife, AckedStored, PastWaitAcked, ResultStored
<1>2. CASE CollectAck(c)
  BY <1>2 DEF CollectAck, LoopInAck, NoLostWakeup, MutexOwner, AckObjLife, AckedStored,
     PastWaitAcked, ResultStored
<1>3. CASE AckLock(c)
  BY <1>3 DEF AckLock, NoLostWakeup, MutexOwner, AckObjLife, AckedStored, PastWaitAcked, ResultStored
<1>4. CASE AckSet(c)
  BY <1>4 DEF AckSet, Signal, NoLostWakeup, MutexOwner, AckObjLife, AckedStored, PastWaitAcked, ResultStored
<1>5. CASE AckUnlock(c)
  BY <1>5 DEF AckUnlock, NoLostWakeup, MutexOwner, AckObjLife, AckedStored, PastWaitAcked, ResultStored
<1>6. CASE AckClear(c)
  BY <1>6 DEF AckClear, NoLostWakeup, MutexOwner, AckObjLife, AckedStored, PastWaitAcked, ResultStored
<1>7. ASSUME NEW arg \in DoneArgs, Done(c, arg) PROVE AckInv'
  <2>1. DoneStatus(arg) # Unset
    BY DEF DoneStatus, Verdicts
  <2>2. QED
    BY <1>7, <2>1 DEF Done, NoLostWakeup, MutexOwner, AckObjLife, AckedStored, PastWaitAcked, ResultStored
<1>8. QED
  BY <1>1, <1>2, <1>3, <1>4, <1>5, <1>6, <1>7 DEF AckerStep

THEOREM AckInvariant == AckSpec => []AckInv
<1>1. AckInv /\ AckTypeOK' /\ [AckNext]_ackVars => AckInv'
  <2> SUFFICES ASSUME AckInv, AckTypeOK', [AckNext]_ackVars PROVE AckInv'
    OBVIOUS
  <2>1. CASE UNCHANGED ackVars
    BY <2>1 DEF ackVars, AckInv, AckTypeOK, NoLostWakeup, MutexOwner, AckObjLife, AckedStored,
       PastWaitAcked, ResultStored
  <2>2. QED
    BY <2>1, AckInvWaiter, AckInvLoop DEF AckNext
<1>2. QED
  BY <1>1, AckInvInit, AckTypeCorrect, AckIsPosix, PTL DEF AckSpec

-----------------------------------------------------------------------------
(* The event loop never uses a frame that is gone. *)
THEOREM AckNoDangling == AckSpec => []NoDanglingAck
<1>1. AckInv => NoDanglingAck
  <2> SUFFICES ASSUME AckInv, NEW c \in Calls
               PROVE  /\ acker[c] \in {"lock", "set", "unlock"} => FrameAlive(c)
                      /\ ackObj[c] = "linked" /\ acker[c] # "clear" => FrameAlive(c)
    BY DEF NoDanglingAck
  <2>1. acker[c] \in AckerPC
    BY DEF AckInv, AckTypeOK
  <2>2. waiter[c] = "out" => ackObj[c] = "absent" /\ acker[c] = "idle"
    BY DEF AckInv, AckObjLife
  <2>3. waiter[c] = "gone" => asked[c] # Unset /\ acker[c] \notin {"lock", "set", "unlock"}
    BY DEF AckInv, AckedStored, PastWaitAcked
  <2>4. acker[c] = "idle" /\ ackObj[c] = "linked" => asked[c] = Unset
    BY DEF AckInv, AckObjLife
  <2>5. QED
    BY <2>1, <2>2, <2>3, <2>4 DEF FrameAlive, AckerPC
<1>2. QED
  BY <1>1, AckInvariant, PTL

(* OnMessage returns the verdict the listener chose. *)
THEOREM AckResultIsAsked == AckSpec => []ResultIsAsked
<1>1. AckInv => ResultIsAsked
  BY DEF AckInv, ResultIsAsked, ResultStored
<1>2. QED
  BY <1>1, AckInvariant, PTL

-----------------------------------------------------------------------------
(* One invocation changes phase, the others keep theirs. *)
LEMMA PhaseAdvance ==
  ASSUME NEW c \in Calls, NEW to,
         PhaseOf(c)' = to, \A d \in Calls \ {c} : PhaseOf(d)' = PhaseOf(d)
  PROVE  Contract!Advance(c, PhaseOf(c), to)
BY DEF Contract!Advance

(* The steps that no contract variable sees. *)
LEMMA AckStutters ==
  ASSUME AckInv, AckInv', UNCHANGED <<asked, result>>,
         \A c \in Calls : ackObj[c] = "absent" <=> ackObj'[c] = "absent",
         \A c \in Calls : waiter[c] = "out" <=> waiter'[c] = "out"
  PROVE  UNCHANGED Contract!contractVars
<1>1. \A c \in Calls : PhaseOf(c)' = PhaseOf(c)
  BY DEF PhaseOf
<1>2. QED
  BY <1>1 DEF Contract!contractVars

LEMMA AckStepMaps ==
  ASSUME AckInv, AckInv', AckNext
  PROVE  [Contract!ContractNext]_(Contract!contractVars)
<1> USE DEF AckInv, AckTypeOK
<1>1. ASSUME NEW c \in Calls, Construct(c) PROVE Contract!Hand(c)
  <2>1. PhaseOf(c) = "idle" /\ PhaseOf(c)' = "handed"
    BY <1>1 DEF Construct, WaiterGoes, PhaseOf, AckObjLife, ResultStored
  <2>2. \A d \in Calls \ {c} : PhaseOf(d)' = PhaseOf(d)
    BY <1>1 DEF Construct, WaiterGoes, PhaseOf
  <2>3. QED
    BY <1>1, <2>1, <2>2, PhaseAdvance DEF Contract!Hand, Construct, Contract!Advance
<1>2. ASSUME NEW c \in Calls, OfferAck(c) PROVE Contract!Offer(c)
  <2>1. asked[c] = Unset /\ result[c] = Unset
    BY <1>2 DEF OfferAck, AckObjLife, ResultStored
  <2>2. PhaseOf(c) = "handed" /\ PhaseOf(c)' = "offered"
    BY <1>2, <2>1 DEF OfferAck, SetInner, PhaseOf
  <2>3. \A d \in Calls \ {c} : PhaseOf(d)' = PhaseOf(d)
    BY <1>2 DEF OfferAck, SetInner, PhaseOf
  <2>4. QED
    BY <1>2, <2>2, <2>3, PhaseAdvance DEF Contract!Offer, OfferAck, SetInner, Contract!Advance
<1>3. ASSUME NEW c \in Calls, NEW arg \in DoneArgs, Done(c, arg) PROVE Contract!Decide(c)
  <2>1. DoneStatus(arg) \in Verdicts /\ DoneStatus(arg) # Unset
    BY AckAssumption DEF DoneStatus, Verdicts
  <2>2. asked[c] = Unset /\ result[c] = Unset
    BY <1>3 DEF Done, AckerGoes, AckObjLife, ResultStored
  <2>3. PhaseOf(c) = "offered" /\ PhaseOf(c)' = "decided"
    BY <1>3, <2>1, <2>2 DEF Done, AckerGoes, PhaseOf
  <2>4. \A d \in Calls \ {c} : PhaseOf(d)' = PhaseOf(d)
    BY <1>3 DEF Done, PhaseOf
  <2>5. QED
    BY <1>3, <2>1, <2>3, <2>4, PhaseAdvance DEF Contract!Decide, Done, Contract!Advance
<1>4. ASSUME NEW c \in Calls, WaitReturn(c) PROVE Contract!Report(c)
  <2>1. status[c] = asked[c] /\ asked[c] # Unset
    BY <1>4 DEF WaitReturn, WaiterGoes, PastWaitAcked, AckedStored
  <2>2. result' = [result EXCEPT ![c] = asked[c]] /\ result[c] = Unset
    BY <1>4, <2>1 DEF WaitReturn, WaiterGoes, ResultStored
  <2>3. PhaseOf(c) = "decided" /\ PhaseOf(c)' = "reported"
    BY <1>4, <2>1, <2>2 DEF WaitReturn, PhaseOf
  <2>4. \A d \in Calls \ {c} : PhaseOf(d)' = PhaseOf(d)
    BY <1>4, <2>2 DEF WaitReturn, WaiterGoes, PhaseOf
  <2>5. QED
    BY <1>4, <2>2, <2>3, <2>4, PhaseAdvance DEF Contract!Report, WaitReturn, Contract!Advance
<1>5. ASSUME NEW c \in Calls,
             WaitLock(c) \/ WaitCheck(c) \/ WaitRelock(c) \/ FrameExit(c)
      PROVE  UNCHANGED Contract!contractVars
  BY <1>5, AckStutters DEF WaitLock, WaitCheck, WaitRelock, FrameExit, WaiterGoes
<1>6. ASSUME NEW c \in Calls, AckerStep(c) \/ CollectAck(c)
      PROVE  UNCHANGED Contract!contractVars
  <2>1. CASE AckClear(c)
    BY <2>1, AckStutters DEF AckClear, AckerGoes, AckObjLife
  <2>2. CASE CollectAck(c)
    BY <2>2, AckStutters DEF CollectAck
  <2>3. CASE AckLock(c) \/ AckSet(c) \/ AckUnlock(c)
    BY <2>3, AckStutters DEF AckLock, AckSet, AckUnlock, AckerGoes, Signal
  <2>4. QED
    BY <1>6, <2>1, <2>2, <2>3 DEF AckerStep
<1>7. QED
  BY <1>1, <1>2, <1>3, <1>4, <1>5, <1>6 DEF AckNext, WaiterStep, Contract!ContractNext

(* Without spurious wakeups the rendezvous implements the contract: what a  *)
(* callback reports is the listener's decision, made after the offer.       *)
THEOREM AckImplementsContract == AckSpec => ImplementsContract
<1>1. AckInit => Contract!ContractInit
  BY DEF AckInit, Contract!ContractInit, PhaseOf
<1>2. AckInv /\ AckInv' /\ [AckNext]_ackVars => [Contract!ContractNext]_(Contract!contractVars)
  <2>1. CASE UNCHANGED ackVars
    BY <2>1 DEF ackVars, Contract!contractVars, PhaseOf
  <2>2. QED
    BY <2>1, AckStepMaps
<1>3. QED
  BY <1>1, <1>2, AckInvariant, PTL DEF AckSpec, ImplementsContract, Contract!ContractSpec

-----------------------------------------------------------------------------
(* How far the handle is tells how far the frame and the ack object are. *)
HandlePhase ==
  \A c \in Calls :
    /\ async[c] = "none" <=> waiter[c] = "out"
    /\ async[c] \in {"initing", "ready"} => waiter[c] = "built"
    /\ async[c] \in {"none", "initing", "ready", "sent"} =>
         ackObj[c] = "absent" /\ acker[c] = "idle"

DeliveryInv == TypeOK /\ HandlePhase

-----------------------------------------------------------------------------
LEMMA DeliveryInit == Init => DeliveryInv /\ AckInit
<1> SUFFICES ASSUME Init PROVE DeliveryInv /\ AckInit
  OBVIOUS
<1> USE DEF Init, AckInit
<1>1. AckTypeOK
  BY DEF AckTypeOK, WaiterPC, AckerPC
<1>2. TypeOK
  <2>1. inserts \in 0..MaxInserts
    BY PushAssumption
  <2>2. touched \in [Calls -> SUBSET Calls]
    BY Zenon
  <2>3. QED
    BY <1>1, <2>1, <2>2 DEF TypeOK, AsyncState
<1>3. HandlePhase
  BY DEF HandlePhase
<1>4. QED
  BY <1>2, <1>3 DEF DeliveryInv

(* Every step of the delivery is a step of the rendezvous or leaves it alone. *)
LEMMA DeliveryStepIsAckStep ==
  ASSUME DeliveryInv, [Next]_vars
  PROVE  [AckNext]_ackVars
<1> USE DEF DeliveryInv, TypeOK, HandlePhase
<1>1. CASE UNCHANGED vars
  BY <1>1 DEF vars
<1>2. CASE MapInsertBegin \/ MapInsertEnd
  BY <1>2 DEF MapInsertBegin, MapInsertEnd
<1>3. ASSUME NEW c \in Calls,
             OnMessageRefused(c) \/ AsyncInit(c) \/ AsyncSend(c) \/ HandlerReturn(c)
               \/ CloseAsyncDone(c)
      PROVE  UNCHANGED ackVars
  BY <1>3 DEF OnMessageRefused, AsyncInit, AsyncSend, HandlerReturn, CloseAsyncDone
<1>4. ASSUME NEW c \in Calls, OnMessage(c) PROVE AckNext
  BY <1>4 DEF OnMessage, AckNext
<1>5. ASSUME NEW c \in Calls, ThreadStep(c) \/ LoopAckStep(c) \/ UserDropsAck(c) PROVE AckNext
  BY <1>5 DEF ThreadStep, LoopAckStep, UserDropsAck, AckNext
<1>6. ASSUME NEW c \in Calls, HandleMessage(c) PROVE AckNext
  <2>1. OfferAck(c)
    BY <1>6 DEF HandleMessage, Dispatchable, AsyncGoes, OfferAck
  <2>2. QED
    BY <2>1 DEF AckNext
<1>7. ASSUME NEW c \in Calls, NEW arg \in DoneArgs, UserDone(c, arg) PROVE AckNext
  BY <1>7 DEF UserDone, AckNext
<1>8. QED
  BY <1>1, <1>2, <1>3, <1>4, <1>5, <1>6, <1>7 DEF Next

(* What the steps do to the links of the queue, however torn it is. *)
LEMMA TouchType ==
  ASSUME TypeOK, NEW S \in SUBSET Calls, Touch(S)
  PROVE  touched' \in [Calls -> SUBSET Calls]
BY DEF TypeOK, Touch

LEMMA RelinkType ==
  ASSUME TypeOK, NEW S \in SUBSET Calls, Relink(S)
  PROVE  registered' \subseteq Calls /\ links' \in {"whole", "cut", "wild"}
BY DEF TypeOK, Relink, Seen

LEMMA DeliveryTypeStep ==
  ASSUME DeliveryInv, AckTypeOK', [Next]_vars
  PROVE  TypeOK'
<1> USE PushAssumption DEF DeliveryInv, TypeOK, AsyncGoes, AsyncState, loopVars, queueVars, mapVars
<1>1. CASE UNCHANGED vars
  BY <1>1 DEF vars
<1>2. CASE MapInsertBegin \/ MapInsertEnd
  <2>1. inserts' \in 0..MaxInserts
    BY <1>2 DEF MapInsertBegin, MapInsertEnd
  <2>2. inserting' \in BOOLEAN
    BY <1>2, Zenon DEF MapInsertBegin, MapInsertEnd
  <2>3. UNCHANGED <<ackVars, loopVars, mapEntry, refused>>
    BY <1>2 DEF MapInsertBegin, MapInsertEnd
  <2>4. QED
    BY <2>1, <2>2, <2>3
<1>3. ASSUME NEW c \in Calls, OnMessage(c) PROVE TypeOK'
  BY <1>3 DEF OnMessage
<1>4. ASSUME NEW c \in Calls, OnMessageRefused(c) PROVE TypeOK'
  BY <1>4 DEF OnMessageRefused
<1>5. ASSUME NEW c \in Calls, AsyncInit(c) PROVE TypeOK'
  <2>1. registered' \subseteq Calls /\ links' \in {"whole", "cut", "wild"}
    BY <1>5 DEF AsyncInit, Insert, Seen, TornLinks
  <2>2. QED
    BY <1>5, <2>1, TouchType DEF AsyncInit
<1>6. ASSUME NEW c \in Calls, AsyncSend(c) PROVE TypeOK'
  BY <1>6 DEF AsyncSend
<1>7. ASSUME NEW c \in Calls, ThreadStep(c) \/ LoopAckStep(c) \/ UserDropsAck(c) PROVE TypeOK'
  BY <1>7 DEF ThreadStep, LoopAckStep, UserDropsAck
<1>8. ASSUME NEW c \in Calls, HandleMessage(c) PROVE TypeOK'
  BY <1>8, TouchType, RelinkType DEF HandleMessage
<1>9. ASSUME NEW c \in Calls, HandlerReturn(c) PROVE TypeOK'
  BY <1>9, TouchType, RelinkType DEF HandlerReturn
<1>10. ASSUME NEW c \in Calls, CloseAsyncDone(c) PROVE TypeOK'
  BY <1>10, TouchType DEF CloseAsyncDone
<1>11. ASSUME NEW c \in Calls, NEW arg \in DoneArgs, UserDone(c, arg) PROVE TypeOK'
  BY <1>11 DEF UserDone
<1>12. QED
  BY <1>1, <1>2, <1>3, <1>4, <1>5, <1>6, <1>7, <1>8, <1>9, <1>10, <1>11 DEF Next

LEMMA HandlePhaseStep ==
  ASSUME DeliveryInv, [Next]_vars
  PROVE  HandlePhase'
<1> USE DEF DeliveryInv, TypeOK, AckTypeOK, HandlePhase, AsyncGoes, AsyncState, WaiterPC,
        loopVars, ackVars
<1>1. CASE UNCHANGED vars
  BY <1>1 DEF vars
<1>2. CASE MapInsertBegin \/ MapInsertEnd
  BY <1>2 DEF MapInsertBegin, MapInsertEnd
<1>3. ASSUME NEW c \in Calls, OnMessage(c) PROVE HandlePhase'
  BY <1>3 DEF OnMessage, Construct, WaiterGoes
<1>4. ASSUME NEW c \in Calls, OnMessageRefused(c) PROVE HandlePhase'
  BY <1>4 DEF OnMessageRefused
<1>5. ASSUME NEW c \in Calls, AsyncInit(c) \/ AsyncSend(c) PROVE HandlePhase'
  BY <1>5 DEF AsyncInit, AsyncSend
<1>6. ASSUME NEW c \in Calls, ThreadStep(c) PROVE HandlePhase'
  BY <1>6 DEF ThreadStep, WaiterStep, WaiterGoes, WaitLock, WaitCheck, WaitRelock, WaitReturn,
     FrameExit
<1>7. ASSUME NEW c \in Calls, LoopAckStep(c) PROVE HandlePhase'
  <2>1. CASE AckSet(c)
    BY <1>7, <2>1 DEF LoopAckStep, AckSet, AckerGoes, Signal
  <2>2. QED
    BY <1>7, <2>1 DEF LoopAckStep, AckerStep, AckLock, AckUnlock, AckClear, AckerGoes
<1>8. ASSUME NEW c \in Calls, UserDropsAck(c) PROVE HandlePhase'
  BY <1>8 DEF UserDropsAck, CollectAck
<1>9. ASSUME NEW c \in Calls, HandleMessage(c) PROVE HandlePhase'
  BY <1>9 DEF HandleMessage, SetInner, Dispatchable
<1>10. ASSUME NEW c \in Calls, HandlerReturn(c) \/ CloseAsyncDone(c) PROVE HandlePhase'
  BY <1>10 DEF HandlerReturn, CloseAsyncDone
<1>11. ASSUME NEW c \in Calls, NEW arg \in DoneArgs, UserDone(c, arg) PROVE HandlePhase'
  BY <1>11 DEF UserDone, Done, AckerGoes
<1>12. QED
  BY <1>1, <1>2, <1>3, <1>4, <1>5, <1>6, <1>7, <1>8, <1>9, <1>10, <1>11 DEF Next

-----------------------------------------------------------------------------
(* AckTypeOK is kept by the rendezvous, hence by every step of the delivery. *)
LEMMA DeliveryInvariant == Spec => AckSpec /\ []DeliveryInv
<1>1. DeliveryInv /\ [Next]_vars => [AckNext]_ackVars
  BY DeliveryStepIsAckStep
<1>2. AckTypeOK /\ [AckNext]_ackVars => AckTypeOK'
  BY AckTypeStep DEF PosixNext
<1>3. DeliveryInv => AckTypeOK
  BY DEF DeliveryInv, TypeOK
<1>4. DeliveryInv /\ [Next]_vars => DeliveryInv'
  BY <1>1, <1>2, <1>3, DeliveryTypeStep, HandlePhaseStep DEF DeliveryInv
<1>5. QED
  BY <1>1, <1>4, DeliveryInit, PTL DEF Spec, AckSpec

(* Every variable of the delivery keeps its range. *)
THEOREM DeliveryTypeCorrect == Spec => []TypeOK
<1>1. DeliveryInv => TypeOK
  BY DEF DeliveryInv
<1>2. QED
  BY <1>1, DeliveryInvariant, PTL

(* The delivery uses the rendezvous as its classes intend: what is proved   *)
(* of AckSpec holds of every behaviour of the delivery.                     *)
THEOREM DeliveryUsesAckProtocol == Spec => UsesAckProtocol
<1>1. QED
  BY DeliveryInvariant, PTL DEF UsesAckProtocol

(* No consume thread leaves OnMessage while its handle may be dispatched.   *)
THEOREM DeliveryParamAlive == Spec => []ParamAlive
<1>1. DeliveryInv /\ AckInv => ParamAlive
  BY DEF DeliveryInv, HandlePhase, AckInv, AckedStored, PastWaitAcked, AckObjLife, ParamAlive, FrameAlive
<1>2. QED
  BY <1>1, DeliveryInvariant, AckInvariant, PTL

-----------------------------------------------------------------------------
(* A consume thread is busy with one invocation at a time. *)
ThreadsBounded ==
  IsFiniteSet(BusyThreads) /\ Cardinality(BusyThreads) <= ThreadCount

LEMMA ThreadsBoundedStep ==
  ASSUME DeliveryInv, ThreadsBounded, [Next]_vars
  PROVE  ThreadsBounded'
<1> USE DEF DeliveryInv, TypeOK, AckTypeOK
<1>1. ASSUME NEW c \in Calls, OnMessage(c) PROVE ThreadsBounded'
  <2>1. c \notin BusyThreads /\ BusyThreads' = BusyThreads \cup {c}
    BY <1>1 DEF OnMessage, Construct, WaiterGoes, BusyThreads, FrameAlive
  <2>2. Cardinality(BusyThreads) \in Nat /\ Cardinality(BusyThreads) < ThreadCount
    BY <1>1, FS_CardinalityType DEF OnMessage, Invoked, ThreadsBounded
  <2>3. IsFiniteSet(BusyThreads') /\ Cardinality(BusyThreads') = Cardinality(BusyThreads) + 1
    BY <2>1, FS_AddElement DEF ThreadsBounded
  <2>4. QED
    BY <2>2, <2>3, PushAssumption DEF ThreadsBounded
<1>2. ASSUME BusyThreads' \subseteq BusyThreads PROVE ThreadsBounded'
  <2>1. /\ IsFiniteSet(BusyThreads')
        /\ Cardinality(BusyThreads') <= Cardinality(BusyThreads)
    BY <1>2, FS_Subset DEF ThreadsBounded
  <2>2. Cardinality(BusyThreads) \in Nat /\ Cardinality(BusyThreads') \in Nat
    BY <2>1, FS_CardinalityType DEF ThreadsBounded
  <2>3. QED
    BY <2>1, <2>2, PushAssumption DEF ThreadsBounded
<1>3. ASSUME NEW c \in Calls, ThreadStep(c) PROVE BusyThreads' \subseteq BusyThreads
  BY <1>3 DEF ThreadStep, WaiterStep, WaiterGoes, WaitLock, WaitCheck, WaitRelock, WaitReturn,
     FrameExit, BusyThreads, FrameAlive
<1>4. ASSUME NEW c \in Calls, LoopAckStep(c) PROVE BusyThreads' \subseteq BusyThreads
  BY <1>4 DEF LoopAckStep, AckerStep, AckLock, AckSet, AckUnlock, AckClear, Signal, BusyThreads,
     FrameAlive
<1>5. ASSUME NEW c \in Calls,
             OnMessageRefused(c) \/ AsyncInit(c) \/ AsyncSend(c) \/ HandleMessage(c)
               \/ UserDropsAck(c) \/ HandlerReturn(c) \/ CloseAsyncDone(c)
      PROVE  BusyThreads' \subseteq BusyThreads
  BY <1>5 DEF OnMessageRefused, AsyncInit, AsyncSend, HandleMessage, SetInner, UserDropsAck,
     CollectAck, HandlerReturn, CloseAsyncDone, ackVars, BusyThreads, FrameAlive
<1>6. ASSUME NEW c \in Calls, NEW arg \in DoneArgs, UserDone(c, arg)
      PROVE  BusyThreads' \subseteq BusyThreads
  BY <1>6 DEF UserDone, Done, BusyThreads, FrameAlive
<1>7. CASE UNCHANGED vars \/ MapInsertBegin \/ MapInsertEnd
  <2>1. BusyThreads' \subseteq BusyThreads
    BY <1>7 DEF vars, ackVars, MapInsertBegin, MapInsertEnd, BusyThreads, FrameAlive
  <2>2. QED
    BY <2>1, <1>2
<1>8. QED
  BY <1>1, <1>2, <1>3, <1>4, <1>5, <1>6, <1>7 DEF Next

(* The consume threads bound what JavaScript has and has not answered: an   *)
(* unanswered ack object has a live frame under it, and a frame a thread.   *)
THEOREM DeliveryBackpressure == Spec => []UnansweredBounded
<1>1. Init => ThreadsBounded
  <2>1. ASSUME Init PROVE BusyThreads = {}
    BY <2>1 DEF Init, AckInit, BusyThreads, FrameAlive
  <2>2. QED
    BY <2>1, FS_EmptySet, PushAssumption DEF ThreadsBounded
<1>2. NoDanglingAck /\ ThreadsBounded => UnansweredBounded
  <2> DEFINE Unanswered == {c \in Calls : ackObj[c] = "linked" /\ acker[c] # "clear"}
  <2> SUFFICES ASSUME NoDanglingAck, ThreadsBounded PROVE Cardinality(Unanswered) <= ThreadCount
    BY DEF UnansweredBounded
  <2>1. Unanswered \subseteq BusyThreads
    BY DEF NoDanglingAck, BusyThreads
  <2>2. IsFiniteSet(Unanswered) /\ Cardinality(Unanswered) <= Cardinality(BusyThreads)
    BY <2>1, FS_Subset DEF ThreadsBounded
  <2>3. Cardinality(Unanswered) \in Nat /\ Cardinality(BusyThreads) \in Nat
    BY <2>2, FS_CardinalityType DEF ThreadsBounded
  <2>4. QED
    BY <2>2, <2>3, PushAssumption DEF ThreadsBounded
<1>3. Spec => []ThreadsBounded
  BY <1>1, ThreadsBoundedStep, DeliveryInvariant, PTL DEF Spec
<1>4. QED
  BY <1>2, <1>3, DeliveryInvariant, AckNoDangling, PTL
================================================================================
