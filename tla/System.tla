--------------------------------- MODULE System --------------------------------
(***************************************************************************)
(* One process with objects of both classes.  The classes have a counter   *)
(* and an interval each; what they share is the thread pool, and user code *)
(* joins them: a listener passes each message on with producer.send() and  *)
(* answers when its send is answered, as bridges between topics do.        *)
(***************************************************************************)
EXTENDS PushConsumer

CONSTANTS
  Producers,   \* objects of the class Producer
  NoAnswer     \* the callback of send() has not been called

VARIABLES
  pStatus, pRefs, pTimer, pNative, pRejected, pStarts,   \* lifecycle of the producers
  pCore, pHeld, pSent, pAnswer, pStored, pOrphans        \* see Producer

producerVars == <<pStatus, pRefs, pTimer, pNative, pRejected, pStarts,
                  pCore, pHeld, pSent, pAnswer, pStored, pOrphans>>
consumerVars == <<lifeVars, objVars, callVars>>
systemVars   == <<vars, producerVars>>

(* The message of call c is sent on under the same name. *)
P == INSTANCE Producer WITH
       Instances <- Producers, Messages <- Calls,
       status <- pStatus, refs <- pRefs, timer <- pTimer, native <- pNative,
       rejected <- pRejected, starts <- pStarts, core <- pCore, held <- pHeld,
       sent <- pSent, answer <- pAnswer, stored <- pStored, orphans <- pOrphans

ASSUME SystemAssumption ==
  /\ IsFiniteSet(Producers) /\ NoInstance \notin Producers
  /\ Instances \cap Producers = {}
  /\ NoAnswer \notin P!AnyStatusStr \cup {"error"}
  /\ ~ListenerUsesPool   \* its pool work is the send of this module

SystemInit == Init /\ P!Init

-----------------------------------------------------------------------------
Answered(c) == pAnswer[c] # NoAnswer

(* A listener that keeps its ack sends while there is a producer. *)
ListenerSends(c) ==
  /\ phase[c] = "offered"
  /\ c \notin forgotten
  /\ \E p \in Producers : P!Send(p, c)
  /\ UNCHANGED consumerVars

(* It answers when its send is answered, or without a producer to send by. *)
ListenerDone(c) ==
  /\ IF c \in pSent THEN Answered(c) ELSE pHeld = {}
  /\ Done(c)
  /\ UNCHANGED producerVars

ConsumerStep(i) ==
  /\ \/ Construct(i) \/ Subscribe(i) \/ UserCall(i) \/ LifecycleCallback(i)
     \/ Drop(i) \/ Collect(i) \/ ExecuteLifecycle(i)
     \/ \E c \in Calls : OnMessage(c, i)
  /\ UNCHANGED producerVars

MessageStep(c) == (Emit(c) \/ Return(c)) /\ UNCHANGED producerVars

ProducerStep(p) ==
  /\ P!Construct(p) \/ P!UserCall(p) \/ P!Drop(p) \/ P!Collect(p)
  /\ UNCHANGED consumerVars

ProducerThread(p) == P!ThreadStep(p) /\ UNCHANGED consumerVars
OrphanReturns(p)  == (\E c \in Calls : P!ExecuteOrphan(p, c)) /\ UNCHANGED consumerVars
ProducerLoop(p)   == P!LoopStep(p) /\ UNCHANGED consumerVars

SharedPoolTakes == PoolTakes /\ UNCHANGED producerVars

SystemNext ==
  \/ SharedPoolTakes
  \/ \E i \in Instances : ConsumerStep(i)
  \/ \E c \in Calls : MessageStep(c) \/ ListenerSends(c) \/ ListenerDone(c)
  \/ \E p \in Producers : ProducerStep(p) \/ ProducerThread(p) \/ OrphanReturns(p) \/ ProducerLoop(p)

(* As in PushConsumer and Producer; a listener also sends. *)
SystemFairness ==
  /\ WF_systemVars(SharedPoolTakes)
  /\ \A i \in Instances :
       WF_systemVars((ExecuteLifecycle(i) \/ LifecycleCallback(i)) /\ UNCHANGED producerVars)
  /\ \A p \in Producers : WF_systemVars(ProducerThread(p)) /\ WF_systemVars(ProducerLoop(p))
  /\ \A c \in Calls :
       WF_systemVars(MessageStep(c)) /\ WF_systemVars(ListenerSends(c) \/ ListenerDone(c))

SystemSpec == SystemInit /\ [][SystemNext]_systemVars /\ SystemFairness

-----------------------------------------------------------------------------
(* What keeps the loop alive: both intervals, workers, and the uv_async_t of *)
(* a message that has not been offered yet.                                  *)
SystemIdle ==
  /\ timer = NoInstance /\ P!LoopIdle
  /\ \A c \in Calls : phase[c] # "handed"

(* The process may end by itself only when no object of either class is     *)
(* started, no send waits, and no message is still at a listener, whose     *)
(* answer would be lost.                                                    *)
ExitLosesNothing ==
  SystemIdle =>
    /\ \A i \in Instances : status[i] # "STARTED" /\ OpenCallsOf(i) = {}
    /\ \A p \in Producers : pStatus[p] # "STARTED"
    /\ \A c \in pSent : Answered(c)

(* A shutdown whose Execute() cannot return before its listeners answer.    *)
Blocked == {ShutdownJob(i) : i \in {k \in Instances : ~ThreadsJoined(k)}}

(* A listener that can send, or answer. *)
ListenerGoesOn(c) == phase[c] = "offered" /\ c \notin forgotten /\ (c \in pSent => Answered(c))

(* A thread or the loop has a step to take that user code does not choose.  *)
SomethingMoves ==
  \/ finished # <<>>
  \/ queue # <<>> /\ ThreadFree
  \/ ~(running \subseteq Blocked)
  \/ \E c \in Calls : phase[c] \in {"handed", "decided"} \/ ListenerGoesOn(c)

(* Shutdowns, listeners and sends wait for one another on one pool.  With   *)
(* more threads than consumers, and no send on freed memory, they never all *)
(* wait: when nothing moves, no job is queued, and what is open is a        *)
(* message nobody will answer or the shutdown of a consumer that has one.   *)
NoDeadlock ==
  PoolHasRoom /\ P!Unorphaned /\ ~SomethingMoves =>
    /\ queue = <<>>
    /\ \A c \in Calls : phase[c] \in {"idle", "reported"} \/ c \in forgotten
    /\ \A x \in running : \E i \in Instances :
         x = ShutdownJob(i) /\ OpenCallsOf(i) \cap forgotten # {}

(* A shutdown of a consumer holds a pool thread until its listeners have    *)
(* answered, and those wait for sends, which need a pool thread.  With more *)
(* threads than consumers, and as long as no send loses its producer,       *)
(* nobody waits for ever: each call of either class is settled, except at a *)
(* consumer with a message nobody answers.                                  *)
PoolSuffices ==
  PoolHasRoom /\ []P!Unorphaned =>
    /\ OnlyOwnMessagesBlock
    /\ \A p \in Producers :
         pStatus[p] \in {"STARTING", "STOPPING"} ~> P!Settled(p)

(* Likewise each message is answered to the C++ client, also when the       *)
(* producer is shut down while the listener waits for its send.             *)
SendersAnswer == PoolHasRoom /\ []P!Unorphaned => EveryMessageAnswered
=============================================================================
