------------------------------ MODULE System_proof -----------------------------
(***************************************************************************)
(* What holds of both classes together, for every number of objects, every *)
(* pool, and listeners that send: no step of one class disturbs the        *)
(* invariant of the other, although they share the pool and the loop.      *)
(***************************************************************************)
EXTENDS System, PushConsumer_proof

(* The producers of System, with what is proved of their class. *)
PP == INSTANCE Producer_proof WITH
        Instances <- Producers, Messages <- Calls,
        status <- pStatus, refs <- pRefs, timer <- pTimer, native <- pNative,
        rejected <- pRejected, starts <- pStarts, core <- pCore, held <- pHeld,
        sent <- pSent, answer <- pAnswer, stored <- pStored,
        orphans <- pOrphans

AllJobs    == Jobs \cup PP!Jobs
AllResults == Outcomes \cup PP!Results

SystemInv ==
  /\ ConsInv(AllJobs, AllResults)
  /\ PP!ProdInv(AllJobs, AllResults)

(* What an idle status and a finished send tell. *)
SystemTells == TellsInv /\ PP!StoredInv

-----------------------------------------------------------------------------
(* The class of the producers is used within its assumptions. *)
LEMMA ProducersAssumed == PP!PoolAssumption /\ PP!LifecycleAssumption /\ PP!ProducerAssumption
BY PoolAssumption, LifecycleAssumption, ConsumerAssumption, SystemAssumption
DEF P!AnyStatusStr, PP!AnyStatusStr, P!SendStatusStr, PP!SendStatusStr, IsFiniteSet, PP!IsFiniteSet,
    PP!PoolAssumption, PP!LifecycleAssumption, PP!ProducerAssumption

(* The two names of the class, P of System and PP, and the pool of either   *)
(* class: what they say is the same.                                        *)
LEMMA SamePool ==
  /\ \A x : PP!PoolKeeps(x) <=> PoolKeeps(x)
  /\ \A x, o : PP!Reports(x, o) <=> Reports(x, o)
  /\ \A x, o : PP!Reports(x, o)' <=> Reports(x, o)'
  /\ \A S, O : PP!PoolTyped(S, O) <=> PoolTyped(S, O)
  /\ \A S, O : PP!PoolTyped(S, O)' <=> PoolTyped(S, O)'
  /\ \A J, R : PP!PoolMoves(J, R) <=> PoolMoves(J, R)
<1>1. \A x : PP!PoolKeeps(x) <=> PoolKeeps(x)
  BY DEF PP!PoolKeeps, PoolKeeps, PP!InPool, InPool, PP!Queued, Queued, PP!Finished, Finished,
         PP!OnePlace, OnePlace
<1>2. \A x, o : (PP!Reports(x, o) <=> Reports(x, o)) /\ (PP!Reports(x, o)' <=> Reports(x, o)')
  BY DEF PP!Reports, Reports
<1>3. \A S, O : (PP!PoolTyped(S, O) <=> PoolTyped(S, O)) /\ (PP!PoolTyped(S, O)' <=> PoolTyped(S, O)')
  BY DEF PP!PoolTyped, PoolTyped
<1>4. PP!PoolThreadTakes <=> PoolThreadTakes
  BY DEF PP!PoolThreadTakes, PoolThreadTakes, PP!ThreadFree, ThreadFree, Cardinality, PP!Cardinality
<1>5. \A J, R : PP!PoolMoves(J, R) <=> PoolMoves(J, R)
  BY <1>4
  DEF PP!PoolMoves, PoolMoves, PP!poolVars, poolVars, PP!AsyncQueueWorker, AsyncQueueWorker,
      PP!ExecuteReturns, ExecuteReturns, PP!CallBack, CallBack
<1> QED BY <1>1, <1>2, <1>3, <1>5

LEMMA SameClass ==
  /\ P!Init <=> PP!Init
  /\ P!Next <=> PP!Next
  /\ P!LoopIdle <=> PP!LoopIdle
<1>1. \A p : (P!Start(p) <=> PP!Start(p)) /\ (P!Shutdown(p) <=> PP!Shutdown(p))
  BY DEF P!Start, PP!Start, P!Shutdown, PP!Shutdown, P!StatusGoes, PP!StatusGoes,
         P!AsyncQueueWorker, PP!AsyncQueueWorker, P!StartJob, PP!StartJob, P!ShutdownJob, PP!ShutdownJob
<1>2. \A p : P!Settle(p) <=> PP!Settle(p)
  BY DEF P!Settle, PP!Settle, P!Rejected, PP!Rejected, P!Started, PP!Started, P!Stopped, PP!Stopped,
         P!TimerAtStart, PP!TimerAtStart, P!CallBack, PP!CallBack, P!JobsOf, PP!JobsOf,
         P!StartJob, PP!StartJob, P!ShutdownJob, PP!ShutdownJob, P!Outcomes, PP!Outcomes
<1>3. \A p : /\ P!ExecuteStart(p) <=> PP!ExecuteStart(p)
             /\ P!ExecuteShutdown(p) <=> PP!ExecuteShutdown(p)
  BY DEF P!ExecuteStart, PP!ExecuteStart, P!ExecuteShutdown, PP!ExecuteShutdown,
         P!ExecuteReturns, PP!ExecuteReturns, P!StartJob, PP!StartJob, P!ShutdownJob, PP!ShutdownJob,
         P!Outcomes, PP!Outcomes
<1>4. \A p, m : /\ P!Send(p, m) <=> PP!Send(p, m)
                /\ P!SendCallback(p, m) <=> PP!SendCallback(p, m)
                /\ P!ExecuteSend(p, m) <=> PP!ExecuteSend(p, m)
                /\ P!ExecuteOrphan(p, m) <=> PP!ExecuteOrphan(p, m)
  BY DEF P!Send, PP!Send, P!SendCallback, PP!SendCallback, P!ExecuteSend, PP!ExecuteSend,
         P!ExecuteOrphan, PP!ExecuteOrphan,
         P!AsyncQueueWorker, PP!AsyncQueueWorker, P!ExecuteReturns, PP!ExecuteReturns,
         P!CallBack, PP!CallBack, P!SendJob, PP!SendJob, P!Outcomes, PP!Outcomes,
         P!SendStatusStr, PP!SendStatusStr, P!AnyStatusStr, PP!AnyStatusStr, P!lifeVars, PP!lifeVars
<1>5. \A p : /\ P!Construct(p) <=> PP!Construct(p)
             /\ P!Drop(p) <=> PP!Drop(p)
             /\ P!Collect(p) <=> PP!Collect(p)
  BY DEF P!Construct, PP!Construct, P!Drop, PP!Drop, P!Collect, PP!Collect, P!Reachable, PP!Reachable,
         P!InPool, PP!InPool, P!Queued, PP!Queued, P!Finished, PP!Finished, P!JobsOf, PP!JobsOf,
         P!SendJob, PP!SendJob,
         P!StartJob, PP!StartJob, P!ShutdownJob, PP!ShutdownJob,
         P!lifeVars, PP!lifeVars, P!poolVars, PP!poolVars
<1>6. P!PoolTakes <=> PP!PoolTakes
  BY DEF P!PoolTakes, PP!PoolTakes, P!Take, PP!Take, P!PoolThreadTakes, PP!PoolThreadTakes,
         P!ThreadFree, PP!ThreadFree, P!Cardinality, PP!Cardinality, P!prodVars, PP!prodVars,
         P!lifeVars, PP!lifeVars
<1>7. P!Next <=> PP!Next
  BY <1>1, <1>2, <1>3, <1>4, <1>5, <1>6
  DEF P!Next, PP!Next, P!UserCall, PP!UserCall, P!LoopStep, PP!LoopStep, P!ThreadStep, PP!ThreadStep,
      P!LifecycleCallback, PP!LifecycleCallback, P!ExecuteLifecycle, PP!ExecuteLifecycle,
      P!prodVars, PP!prodVars
<1>8. P!Init <=> PP!Init
  BY DEF P!Init, PP!Init, P!LifeInit, PP!LifeInit, P!PoolInit, PP!PoolInit
<1>9. P!LoopIdle <=> PP!LoopIdle
  BY DEF P!LoopIdle, PP!LoopIdle
<1> QED BY <1>7, <1>8, <1>9

-----------------------------------------------------------------------------
(* A job says whose it is: the classes have no job in common. *)
LEMMA JobsApart == \A x \in PP!Jobs : x \notin Jobs
<1>1. ASSUME NEW i PROVE /\ StartJob(i).kind = "start" /\ ShutdownJob(i).kind = "shutdown"
                         /\ StartJob(i).inst = i /\ ShutdownJob(i).inst = i
  BY DEF StartJob, ShutdownJob
<1>2. ASSUME NEW p PROVE /\ PP!StartJob(p).kind = "start" /\ PP!ShutdownJob(p).kind = "shutdown"
                         /\ PP!StartJob(p).inst = p /\ PP!ShutdownJob(p).inst = p
  BY DEF PP!StartJob, PP!ShutdownJob
<1>3. ASSUME NEW p, NEW m PROVE PP!SendJob(p, m).kind = "send"
  BY DEF PP!SendJob
<1>4. ASSUME NEW c PROVE WorkJob(c).kind = "work"
  BY DEF WorkJob
<1>5. ASSUME NEW x \in Jobs
      PROVE  x.kind = "work" \/ (x.kind \in {"start", "shutdown"} /\ x.inst \in Instances)
  BY <1>1, <1>4 DEF Jobs, LifeJobs, WorkJobs, JobsOf
<1>6. ASSUME NEW x \in PP!Jobs
      PROVE  x.kind = "send" \/ (x.kind \in {"start", "shutdown"} /\ x.inst \in Producers)
  BY <1>2, <1>3 DEF PP!Jobs, PP!LifeJobs, PP!SendJobs, PP!JobsOf
<1> QED BY <1>5, <1>6, SystemAssumption

LEMMA AllHosted == Hosted(AllJobs, AllResults) /\ PP!Hosted(AllJobs, AllResults)
BY DEF Hosted, PP!Hosted, AllJobs, AllResults

(* A step of the process is a step of one class, or a thread that takes a   *)
(* job.                                                                     *)
LEMMA SystemSteps ==
  ASSUME [SystemNext]_systemVars
  PROVE  \/ [Next]_vars /\ UNCHANGED producerVars
         \/ PP!Next /\ UNCHANGED consumerVars
<1>1. CASE SharedPoolTakes
  BY <1>1 DEF SharedPoolTakes, Next
<1>2. ASSUME NEW i \in Instances, ConsumerStep(i) PROVE Next /\ UNCHANGED producerVars
  BY <1>2 DEF ConsumerStep, Next
<1>3. ASSUME NEW c \in Calls, MessageStep(c) \/ ListenerDone(c) PROVE Next /\ UNCHANGED producerVars
  BY <1>3 DEF MessageStep, ListenerDone, Next
<1>4. ASSUME NEW c \in Calls, ListenerSends(c) PROVE P!Next /\ UNCHANGED consumerVars
  BY <1>4 DEF ListenerSends, P!Next
<1>5. ASSUME NEW p \in Producers, \/ ProducerStep(p) \/ ProducerThread(p)
                                    \/ ProducerLoop(p) \/ OrphanReturns(p)
      PROVE  P!Next /\ UNCHANGED consumerVars
  BY <1>5 DEF ProducerStep, ProducerThread, ProducerLoop, OrphanReturns, P!Next
<1>6. CASE UNCHANGED systemVars
  BY <1>6 DEF systemVars
<1> QED BY <1>1, <1>2, <1>3, <1>4, <1>5, <1>6, SameClass DEF SystemNext

(* What a step of one class does to the pool the other does not see. *)
LEMMA ConsumersApart ==
  ASSUME ConsInv(AllJobs, AllResults), [Next]_vars
  PROVE  /\ PoolTyped(AllJobs, AllResults)'
         /\ \A x \in PP!Jobs : PoolKeeps(x) /\ \A o : Reports(x, o)' <=> Reports(x, o)
<1>1. Jobs \subseteq AllJobs /\ Outcomes \subseteq AllResults
  BY DEF AllJobs, AllResults
<1>2. PoolMoves(Jobs, Outcomes)
  BY ConsMoves
<1> QED BY <1>1, <1>2, MovesKeepOthers, JobsApart DEF ConsInv

LEMMA ProducersApart ==
  ASSUME ConsInv(AllJobs, AllResults), PP!Next
  PROVE  /\ PoolTyped(AllJobs, AllResults)'
         /\ \A x \in Jobs : PoolKeeps(x) /\ \A o : Reports(x, o)' <=> Reports(x, o)
<1>1. PP!Jobs \subseteq AllJobs /\ PP!Results \subseteq AllResults
  BY DEF AllJobs, AllResults
<1>2. PoolMoves(PP!Jobs, PP!Results)
  BY ProducersAssumed, PP!ProdMoves, SamePool
<1> QED BY <1>1, <1>2, MovesKeepOthers, JobsApart DEF ConsInv

LEMMA SystemInvStep ==
  ASSUME SystemInv, [SystemNext]_systemVars
  PROVE  SystemInv'
<1>1. ASSUME [Next]_vars, UNCHANGED producerVars
      PROVE  ConsInv(AllJobs, AllResults)' /\ PP!ProdInv(AllJobs, AllResults)'
  <2>1. ConsInv(AllJobs, AllResults)'
    BY <1>1, AllHosted, ConsStep DEF SystemInv
  <2>2. UNCHANGED <<PP!lifeVars, PP!prodVars>>
    BY <1>1 DEF producerVars, PP!lifeVars, PP!prodVars
  <2>3. PP!PoolTyped(AllJobs, AllResults)' /\ \A x \in PP!Jobs : PP!PoolKeeps(x)
    BY <1>1, ConsumersApart, SamePool DEF SystemInv
  <2> QED BY <2>1, <2>2, <2>3, AllHosted, ProducersAssumed, PP!ProdForeign DEF SystemInv
<1>2. ASSUME PP!Next, UNCHANGED consumerVars
      PROVE  ConsInv(AllJobs, AllResults)' /\ PP!ProdInv(AllJobs, AllResults)'
  <2>1. PP!ProdInv(AllJobs, AllResults)'
    BY <1>2, AllHosted, ProducersAssumed, PP!ProdStep DEF SystemInv
  <2>2. UNCHANGED <<lifeVars, objVars, callVars>>
    BY <1>2 DEF consumerVars
  <2>3. PoolTyped(AllJobs, AllResults)' /\ \A x \in LifeJobs : PoolKeeps(x)
    BY <1>2, ProducersApart DEF SystemInv, Jobs
  <2> QED BY <2>1, <2>2, <2>3, AllHosted, ConsForeign DEF SystemInv
<1> QED BY <1>1, <1>2, SystemSteps DEF SystemInv

(* The invariant of each class holds of the two together. *)
THEOREM SystemInvariant == SystemSpec => []SystemInv
<1>1. SystemInit => SystemInv
  BY ConsStarts, ProducersAssumed, PP!ProdStarts, SameClass DEF SystemInit, SystemInv
<1>2. SystemInv /\ [SystemNext]_systemVars => SystemInv'
  BY SystemInvStep
<1> QED BY <1>1, <1>2, PTL DEF SystemSpec

LEMMA SystemTellsStep ==
  ASSUME ~FailureCodes, SystemInv, SystemTells, [SystemNext]_systemVars
  PROVE  SystemTells'
<1>1. ASSUME [Next]_vars, UNCHANGED producerVars PROVE TellsInv' /\ PP!StoredInv'
  <2>1. TellsInv'
    <3>1. CASE Next
      BY <3>1, AllHosted, TellsStep DEF SystemInv, SystemTells
    <3>2. CASE UNCHANGED vars
      BY <3>2, TellsStutters DEF SystemTells
    <3> QED BY <1>1, <3>1, <3>2
  <2>2. UNCHANGED PP!prodVars
    BY <1>1 DEF producerVars, PP!prodVars
  <2>3. \A x \in PP!SendJobs : \A o : PP!Reports(x, o)' <=> PP!Reports(x, o)
    BY <1>1, ConsumersApart, SamePool DEF SystemInv, PP!Jobs
  <2> QED BY <2>1, <2>2, <2>3, ProducersAssumed, PP!StoredForeign DEF SystemTells
<1>2. ASSUME PP!Next, UNCHANGED consumerVars PROVE TellsInv' /\ PP!StoredInv'
  <2>1. PP!StoredInv'
    BY <1>2, AllHosted, ProducersAssumed, PP!StoredStep DEF SystemInv, SystemTells
  <2>2. UNCHANGED <<status, native>>
    BY <1>2 DEF consumerVars, lifeVars
  <2>3. \A x \in LifeJobs : \A o : Reports(x, o)' <=> Reports(x, o)
    BY <1>2, ProducersApart DEF SystemInv, Jobs
  <2> QED BY <2>1, <2>2, <2>3, AllHosted, TellsForeign DEF SystemInv, SystemTells
<1> QED BY <1>1, <1>2, SystemSteps DEF SystemTells

LEMMA SystemTellsInvariant == ASSUME ~FailureCodes PROVE SystemSpec => []SystemTells
<1>1. SystemInit => SystemTells
  BY TellsStarts, ProducersAssumed, PP!StoredStarts, SameClass DEF SystemInit, SystemTells
<1>2. SystemInv /\ SystemTells /\ [SystemNext]_systemVars => SystemTells'
  BY SystemTellsStep
<1> QED BY <1>1, <1>2, SystemInvariant, PTL DEF SystemSpec

-----------------------------------------------------------------------------
(* Both intervals, the workers and the handles of the messages keep the     *)
(* loop alive: when none is left, no object is started, every send has its  *)
(* answer and no message waits at a listener, whose answer would be lost.   *)
THEOREM SystemExit == ASSUME ~FailureCodes PROVE SystemSpec => []ExitLosesNothing
<1>1. SystemInv /\ SystemTells => ExitLosesNothing
  <2> SUFFICES ASSUME SystemInv, SystemTells, SystemIdle
               PROVE  /\ \A i \in Instances : status[i] # "STARTED" /\ OpenCallsOf(i) = {}
                      /\ \A p \in Producers : pStatus[p] # "STARTED"
                      /\ \A c \in pSent : Answered(c)
    BY DEF ExitLosesNothing
  <2>1. timer = NoInstance /\ P!LoopIdle
    BY DEF SystemIdle
  <2>2. /\ \A p \in Producers : pStatus[p] # "STARTED"
        /\ \A c \in pSent : pAnswer[c] # NoAnswer
    BY <2>1, SameClass, ProducersAssumed, PP!ClassIdle DEF SystemInv
  <2>3. Counted = {}
    <3>1. IsFiniteSet(Counted) /\ Cardinality(Counted) = 0
      BY <2>1, CountedFinite DEF SystemInv, ConsInv, LifeInv, RefCount
    <3> QED BY <3>1, FS_EmptySet
  <2>4. finished = <<>>
    BY <2>1 DEF P!LoopIdle
  <2>5. ASSUME NEW i \in Instances PROVE status[i] # "STARTED" /\ OpenCallsOf(i) = {}
    <3>1. status[i] \notin {"STARTED", "STOPPING"}
      BY <2>3 DEF Counted
    <3>2. ~Reports(StartJob(i), "ok")
      BY <2>4 DEF Reports
    <3>3. native[i] = "down"
      BY <3>1, <3>2 DEF SystemTells, TellsInv, UpSeen, SystemInv, ConsInv, LifeInv, LifeTypeOK
    <3> QED BY <3>1, <3>3 DEF SystemInv, ConsInv, ObjInv, DownDrained
  <2> QED BY <2>2, <2>5 DEF Answered
<1> QED BY <1>1, SystemInvariant, SystemTellsInvariant, PTL

-----------------------------------------------------------------------------
(* A message that belongs to a consumer has been handed to it. *)
OwnedOpen == \A c \in Calls : owner[c] # NoInstance => phase[c] # "idle"

LEMMA OwnedStep ==
  ASSUME SystemInv, OwnedOpen, [SystemNext]_systemVars
  PROVE  OwnedOpen'
<1>1. CASE UNCHANGED <<owner, phase>>
  BY <1>1 DEF OwnedOpen
<1>2. ASSUME NEW c \in Calls, Emit(c) \/ Done(c) \/ Return(c) PROVE OwnedOpen'
  <2>1. /\ UNCHANGED owner
        /\ \E to \in {"offered", "decided", "reported"} : phase' = [phase EXCEPT ![c] = to]
    BY <1>2 DEF Emit, Done, Return, Consume!Offer, Consume!Decide, Consume!Report, Consume!Advance
  <2> QED BY <2>1 DEF OwnedOpen, SystemInv, ConsInv, ObjInv, ConsTypeOK
<1>3. ASSUME NEW c \in Calls, NEW i \in Instances, OnMessage(c, i) PROVE OwnedOpen'
  <2>1. owner' = [owner EXCEPT ![c] = i] /\ phase' = [phase EXCEPT ![c] = "handed"]
    BY <1>3 DEF OnMessage, Consume!Hand, Consume!Advance
  <2> QED BY <2>1 DEF OwnedOpen, SystemInv, ConsInv, ObjInv, ConsTypeOK
<1>4. ASSUME [Next]_vars PROVE OwnedOpen'
  <2>1. ASSUME NEW i \in Instances,
               \/ Construct(i) \/ Subscribe(i) \/ UserCall(i) \/ LifecycleCallback(i)
               \/ Drop(i) \/ Collect(i) \/ ExecuteLifecycle(i)
        PROVE  UNCHANGED <<owner, phase>>
    BY <2>1 DEF Construct, Subscribe, UserCall, LifecycleCallback, Drop, Collect, ExecuteLifecycle, callVars
  <2>2. ASSUME NEW c \in Calls, ExecuteWork(c) PROVE UNCHANGED <<owner, phase>>
    BY <2>2 DEF ExecuteWork, callVars
  <2>3. PoolTakes \/ UNCHANGED vars => UNCHANGED <<owner, phase>>
    BY DEF PoolTakes, vars, callVars
  <2> QED BY <1>1, <1>2, <1>3, <1>4, <2>1, <2>2, <2>3 DEF Next
<1>5. ASSUME UNCHANGED consumerVars PROVE OwnedOpen'
  BY <1>1, <1>5 DEF consumerVars, callVars
<1> QED BY <1>4, <1>5, SystemSteps

(* When nothing moves, every thread that is busy is in a shutdown of a      *)
(* consumer of its own, so one is free and the queue is empty; a listener   *)
(* that waited for its send would have it in the pool.                      *)
LEMMA NothingMoves ==
  ASSUME SystemInv, OwnedOpen
  PROVE  NoDeadlock
<1> SUFFICES ASSUME PoolHasRoom, ~SomethingMoves
             PROVE  /\ queue = <<>>
                    /\ \A c \in Calls : phase[c] \in {"idle", "reported"} \/ c \in forgotten
                    /\ \A x \in running : \E i \in Instances :
                         x = ShutdownJob(i) /\ OpenCallsOf(i) \cap forgotten # {}
  BY DEF NoDeadlock
<1>1. /\ finished = <<>> /\ running \subseteq Blocked
      /\ queue = <<>> \/ ~ThreadFree
      /\ \A c \in Calls : phase[c] \notin {"handed", "decided"} /\ ~ListenerGoesOn(c)
  BY DEF SomethingMoves
<1>2. queue = <<>>
  <2> DEFINE Shutdowns == {ShutdownJob(i) : i \in Instances}
             jobOf     == [i \in Instances |-> ShutdownJob(i)]
  <2>1. jobOf \in Surjection(Instances, Shutdowns)
    BY DEF Surjection
  <2>2. IsFiniteSet(Shutdowns) /\ Cardinality(Shutdowns) <= Cardinality(Instances)
    BY <2>1, LifecycleAssumption, FS_Surjection
  <2>3. running \subseteq Shutdowns
    BY <1>1 DEF Blocked
  <2> HIDE DEF Shutdowns
  <2>4. IsFiniteSet(running) /\ Cardinality(running) <= Cardinality(Shutdowns)
    BY <2>2, <2>3, FS_Subset
  <2>5. /\ Cardinality(running) \in Nat /\ Cardinality(Shutdowns) \in Nat
        /\ Cardinality(Instances) \in Nat
    BY <2>2, <2>4, LifecycleAssumption, FS_CardinalityType
  <2>6. ThreadFree
    BY <2>2, <2>4, <2>5, PoolAssumption DEF ThreadFree, PoolHasRoom
  <2> QED BY <1>1, <2>6
<1>3. \A c \in pSent : Answered(c)
  <2> SUFFICES ASSUME NEW c \in pSent, pAnswer[c] = NoAnswer PROVE FALSE
    BY DEF Answered
  <2>1. PICK p \in Producers : PP!InPool(PP!SendJob(p, c))
    BY DEF SystemInv, PP!ProdInv, PP!SendsPending, PP!ProdTypeOK
  <2> DEFINE job == PP!SendJob(p, c)
  <2>2. job.kind = "send"
    BY DEF PP!SendJob
  <2> HIDE DEF job
  <2>3. job \in running
    BY <1>1, <1>2, <2>1 DEF job, PP!InPool, PP!Queued, PP!Finished
  <2>4. PICK i : job = ShutdownJob(i)
    BY <1>1, <2>3 DEF Blocked
  <2> QED BY <2>2, <2>4 DEF ShutdownJob
<1>4. ASSUME NEW c \in Calls PROVE phase[c] \in {"idle", "reported"} \/ c \in forgotten
  <2>1. phase[c] \in {"idle", "handed", "offered", "decided", "reported"}
    BY DEF SystemInv, ConsInv, ObjInv, ConsTypeOK, Consume!Phases
  <2> QED BY <1>1, <1>3, <2>1 DEF ListenerGoesOn
<1>5. ASSUME NEW x \in running
      PROVE  \E i \in Instances : x = ShutdownJob(i) /\ OpenCallsOf(i) \cap forgotten # {}
  <2>1. PICK i \in Instances : x = ShutdownJob(i) /\ ~ThreadsJoined(i)
    BY <1>1 DEF Blocked
  <2>2. PICK c \in Calls : owner[c] = i /\ phase[c] # "reported" /\ c \in OpenCallsOf(i)
    BY <2>1 DEF ThreadsJoined, OpenCallsOf, CallsOf
  <2>3. phase[c] # "idle"
    BY <2>2, LifecycleAssumption DEF OwnedOpen
  <2> QED BY <1>4, <2>1, <2>2, <2>3
<1> QED BY <1>2, <1>4, <1>5

(* Shutdowns that hold threads until listeners answer, listeners that wait  *)
(* for sends, and sends that wait for threads never all wait for each other *)
(* on a pool with more threads than consumers, as long as no send has lost  *)
(* its producer.                                                            *)
THEOREM SystemNoDeadlock == SystemSpec => []NoDeadlock
<1>1. SystemInit => OwnedOpen
  BY DEF SystemInit, Init, OwnedOpen
<1>2. SystemInv /\ OwnedOpen /\ [SystemNext]_systemVars => OwnedOpen'
  BY OwnedStep
<1>3. SystemInv /\ OwnedOpen => NoDeadlock
  BY NothingMoves
<1> QED BY <1>1, <1>2, <1>3, SystemInvariant, PTL DEF SystemSpec

-----------------------------------------------------------------------------
(* In the process each class keeps its promises: the counter and the        *)
(* interval of each agree with its own objects, no client has two calls at  *)
(* once, jobs have their native producer, messages their consumer.          *)
THEOREM SystemKeepsClasses ==
  SystemSpec => [](/\ RefCount /\ OneJob /\ MapFindsConsumer /\ CallsHaveConsumer
                   /\ PP!RefCount /\ PP!OneJob /\ PP!LifecycleJobsLive)
<1>1. SystemInv => RefCount /\ OneJob /\ PP!RefCount /\ PP!OneJob /\ PP!LifecycleJobsLive
  BY DEF SystemInv, ConsInv, LifeInv, PP!ProdInv, PP!LifeInv
<1>2. SystemInv => MapFindsConsumer
  BY DEF SystemInv, ConsInv, ObjInv, Addressed, MapFindsConsumer
<1>3. SystemInv => CallsHaveConsumer
  BY DEF SystemInv, ConsInv, ObjInv, CallsOwned, WiredLive, CallsHaveConsumer, OpenCallsOf, CallsOf
<1> QED BY <1>1, <1>2, <1>3, SystemInvariant, PTL

(* And what a status tells stays true when the other class shares the pool: *)
(* an answered shutdown leaves no message open, a send that is reported     *)
(* with a documented status, and kept its producer, is stored.              *)
THEOREM SystemKeepsAnswers ==
  ASSUME ~FailureCodes
  PROVE  SystemSpec => [](StatusTellsNative /\ ShutdownDrains /\ PP!SendOkIsStored)
<1>1. SystemInv /\ SystemTells => StatusTellsNative /\ PP!SendOkIsStored
  BY DEF SystemTells, TellsInv, PP!StoredInv
<1>2. SystemInv /\ StatusTellsNative => ShutdownDrains
  BY DEF SystemInv, ConsInv, ObjInv, DownDrained, StatusTellsNative, ShutdownDrains
<1> QED BY <1>1, <1>2, SystemInvariant, SystemTellsInvariant, PTL

(* The objects of both classes follow the contract their users see, however *)
(* they meet in listeners and in the pool.                                  *)
THEOREM SystemImplementsContracts ==
  SystemSpec => ImplementsInstanceContract /\ PP!ImplementsInstanceContract
<1>1. SystemInit => Contract!ContractInit /\ PP!Contract!ContractInit
  BY LifeStartsContract, PP!LifeStartsContract, ProducersAssumed, SameClass DEF SystemInit, Init, PP!Init
<1>2. SystemInv /\ [SystemNext]_systemVars => [Contract!ContractNext]_Seen
  <2> SUFFICES ASSUME SystemInv, [SystemNext]_systemVars PROVE [Contract!ContractNext]_Seen
    OBVIOUS
  <2>1. CASE [Next]_vars
    BY <2>1, ClassMaps DEF SystemInv
  <2>2. CASE UNCHANGED consumerVars
    BY <2>2 DEF consumerVars, lifeVars, Seen
  <2> QED BY <2>1, <2>2, SystemSteps
<1>3. SystemInv /\ [SystemNext]_systemVars => [PP!Contract!ContractNext]_(PP!Seen)
  <2> SUFFICES ASSUME SystemInv, [SystemNext]_systemVars PROVE [PP!Contract!ContractNext]_(PP!Seen)
    OBVIOUS
  <2>1. CASE PP!Next
    BY <2>1, ProducersAssumed, PP!ClassMaps DEF SystemInv
  <2>2. CASE UNCHANGED producerVars
    BY <2>2 DEF producerVars, PP!Seen
  <2> QED BY <2>1, <2>2, SystemSteps
<1> QED BY <1>1, <1>2, <1>3, SystemInvariant, PTL
    DEF SystemSpec, ImplementsInstanceContract, Contract!ContractSpec,
        PP!ImplementsInstanceContract, PP!Contract!ContractSpec
================================================================================
