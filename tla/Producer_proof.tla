----------------------------- MODULE Producer_proof ----------------------------
(***************************************************************************)
(* What holds of every number of producers and messages, every pool and    *)
(* every behaviour of the user, the garbage collector and the C functions. *)
(*                                                                         *)
(* The invariant adds to that of Lifecycle: user code holds live objects   *)
(* only; a job of start() or shutdown(), and the interval, belong to a     *)
(* live object; and a send that is not answered has its job in the pool.   *)
(***************************************************************************)
EXTENDS Producer, Lifecycle_proof

SendJobs == {SendJob(i, m) : i \in Instances, m \in Messages}
Jobs     == LifeJobs \cup SendJobs
Results  == Outcomes \cup SendStatusStr \cup {"code"}

ProdTypeOK ==
  /\ core \in [Instances -> {"unborn", "live", "destroyed"}]
  /\ held \subseteq Instances
  /\ sent \subseteq Messages
  /\ answer \in [Messages -> AnyStatusStr \cup {"error", NoAnswer}]
  /\ stored \subseteq sent /\ orphans \subseteq sent

HeldLive == \A i \in held : core[i] = "live"

SendsPending ==
  \A m \in Messages :
    /\ \A i \in Instances : InPool(SendJob(i, m)) => m \in sent
    /\ m \in sent /\ answer[m] = NoAnswer => \E i \in Instances : InPool(SendJob(i, m))

(* Each lemma speaks of a pool that may hold other jobs as well: of a set S *)
(* that hosts those of this class, with outcomes in O.                      *)
Hosted(S, O) == Jobs \subseteq S /\ Results \subseteq O

ProdInv(S, O) ==
  /\ LifeInv /\ PoolTyped(S, O)
  /\ ProdTypeOK /\ HeldLive /\ LifecycleJobsLive /\ SendsPending

LEMMA SendJobsApart ==
  /\ SendJobs \cap LifeJobs = {}
  /\ \A i, k \in Instances, m, n \in Messages : SendJob(i, m) = SendJob(k, n) => i = k /\ m = n
<1>1. ASSUME NEW i, NEW m
      PROVE  SendJob(i, m).kind = "send" /\ SendJob(i, m).inst = i /\ SendJob(i, m).msg = m
  BY DEF SendJob
<1>2. ASSUME NEW i PROVE StartJob(i).kind = "start" /\ ShutdownJob(i).kind = "shutdown"
  BY DEF StartJob, ShutdownJob
<1>3. SendJobs \cap LifeJobs = {}
  BY <1>1, <1>2 DEF SendJobs, LifeJobs, JobsOf
<1>4. ASSUME NEW i, NEW k, NEW m, NEW n, SendJob(i, m) = SendJob(k, n) PROVE i = k /\ m = n
  BY <1>1, <1>4
<1> QED BY <1>3, <1>4

LEMMA SendJobIsJob ==
  ASSUME NEW i \in Instances, NEW m \in Messages
  PROVE  SendJob(i, m) \in Jobs /\ SendJob(i, m) \notin LifeJobs
BY SendJobsApart DEF Jobs, SendJobs

-----------------------------------------------------------------------------
(* Steps that leave the pool and the lifecycle alone. *)
LEMMA QuietStep ==
  ASSUME NEW S, NEW O, Hosted(S, O), ProdInv(S, O),
         UNCHANGED poolVars, UNCHANGED <<status, refs, timer, rejected, starts>>,
         native' \in [Instances -> {"down", "up"}], ProdTypeOK', HeldLive', LifecycleJobsLive',
         UNCHANGED <<sent, answer>>
  PROVE  ProdInv(S, O)'
<1>1. PoolTyped(S, O)' /\ \A x : PoolKeeps(x)
  BY PoolUnchanged DEF ProdInv
<1>2. LifeInv'
  BY <1>1, OtherStep DEF ProdInv
<1>3. SendsPending'
  BY <1>1 DEF ProdInv, SendsPending, PoolKeeps
<1> QED BY <1>1, <1>2, <1>3 DEF ProdInv

LEMMA ConstructStep ==
  ASSUME NEW S, NEW O, Hosted(S, O), ProdInv(S, O),
         NEW i \in Instances, Construct(i)
  PROVE  ProdInv(S, O)'
<1>1. /\ core[i] = "unborn" /\ core' = [core EXCEPT ![i] = "live"] /\ held' \in {held, held \cup {i}}
      /\ UNCHANGED <<poolVars, lifeVars, sent, answer, stored, orphans>>
  BY DEF Construct
<1>2. /\ UNCHANGED poolVars /\ UNCHANGED <<status, refs, timer, native, rejected, starts>>
      /\ UNCHANGED <<sent, answer, stored, orphans>>
  BY <1>1 DEF lifeVars
<1>3. native' \in [Instances -> {"down", "up"}]
  BY <1>2 DEF ProdInv, LifeInv, LifeTypeOK
<1>4. ProdTypeOK' /\ HeldLive'
  BY <1>1, <1>2 DEF ProdInv, ProdTypeOK, HeldLive
<1>5. LifecycleJobsLive'
  <2>1. \A x : PoolKeeps(x)
    BY <1>2, PoolUnchanged DEF ProdInv
  <2>2. \A k \in Instances : core'[k] # "live" => core[k] # "live"
    BY <1>1 DEF ProdInv, ProdTypeOK
  <2>3. timer' = timer
    BY <1>2
  <2> QED BY <2>1, <2>2, <2>3 DEF ProdInv, LifecycleJobsLive, PoolKeeps, JobsOf, StartJob, ShutdownJob
<1> QED BY <1>2, <1>3, <1>4, <1>5, QuietStep

LEMMA DropStep ==
  ASSUME NEW S, NEW O, Hosted(S, O), ProdInv(S, O),
         NEW i \in Instances, Drop(i)
  PROVE  ProdInv(S, O)'
<1>1. /\ UNCHANGED poolVars /\ UNCHANGED <<status, refs, timer, native, rejected, starts>>
      /\ UNCHANGED <<core, sent, answer, stored, orphans>> /\ held' = held \ {i}
  BY DEF Drop, lifeVars
<1>2. native' \in [Instances -> {"down", "up"}]
  BY <1>1 DEF ProdInv, LifeInv, LifeTypeOK
<1>3. ProdTypeOK' /\ HeldLive'
  BY <1>1 DEF ProdInv, ProdTypeOK, HeldLive
<1>4. LifecycleJobsLive'
  <2>1. \A x : PoolKeeps(x)
    BY <1>1, PoolUnchanged DEF ProdInv
  <2> QED BY <1>1, <2>1 DEF ProdInv, LifecycleJobsLive, PoolKeeps, JobsOf, StartJob, ShutdownJob
<1> QED BY <1>1, <1>2, <1>3, <1>4, QuietStep

(* The collector takes an object that has no job and no interval. *)
LEMMA CollectStep ==
  ASSUME NEW S, NEW O, Hosted(S, O), ProdInv(S, O),
         NEW i \in Instances, Collect(i)
  PROVE  ProdInv(S, O)'
<1>1. /\ core[i] = "live" /\ ~Reachable(i)
      /\ core' = [core EXCEPT ![i] = "destroyed"] /\ native' = [native EXCEPT ![i] = "down"]
      /\ UNCHANGED poolVars /\ UNCHANGED <<status, refs, timer, rejected, starts>>
      /\ UNCHANGED <<held, sent, answer, stored>>
      /\ orphans' = orphans \cup
           {m \in Messages : Queued(SendJob(i, m)) \/ SendJob(i, m) \in running}
  BY DEF Collect
<1>2. native' \in [Instances -> {"down", "up"}]
  BY <1>1 DEF ProdInv, LifeInv, LifeTypeOK
<1>3. i \notin held /\ timer # i /\ \A x \in JobsOf(i) : ~InPool(x)
  BY <1>1 DEF Reachable
<1>4. ProdTypeOK' /\ HeldLive'
  <2>1. \A m \in Messages : Queued(SendJob(i, m)) \/ SendJob(i, m) \in running => m \in sent
    BY DEF ProdInv, SendsPending, InPool
  <2>2. orphans' \subseteq sent
    BY <1>1, <2>1 DEF ProdInv, ProdTypeOK
  <2> QED BY <1>1, <1>3, <2>2 DEF ProdInv, ProdTypeOK, HeldLive
<1>5. LifecycleJobsLive'
  <2>1. \A x : PoolKeeps(x)
    BY <1>1, PoolUnchanged DEF ProdInv
  <2>2. \A k \in Instances : core'[k] # "live" => core[k] # "live" \/ k = i
    BY <1>1 DEF ProdInv, ProdTypeOK
  <2> SUFFICES ASSUME NEW k \in Instances, core'[k] # "live"
               PROVE  timer' # k /\ \A x \in JobsOf(k) : ~InPool(x)'
    BY DEF LifecycleJobsLive, JobsOf, StartJob, ShutdownJob
  <2>3. timer # k /\ \A x \in JobsOf(k) : ~InPool(x)
    BY <1>3, <2>2 DEF ProdInv, LifecycleJobsLive
  <2> QED BY <1>1, <2>1, <2>3 DEF PoolKeeps
<1> QED BY <1>1, <1>2, <1>4, <1>5, QuietStep

-----------------------------------------------------------------------------
(* Steps of the lifecycle. *)

LEMMA UserCallStep ==
  ASSUME NEW S, NEW O, Hosted(S, O), ProdInv(S, O),
         NEW i \in Instances, UserCall(i)
  PROVE  ProdInv(S, O)'
<1>1. i \in held /\ (Start(i) \/ Shutdown(i)) /\ UNCHANGED <<core, held, sent, answer, stored, orphans>>
  BY DEF UserCall, prodVars
<1>2. LifeJobs \subseteq S
  BY DEF Hosted, Jobs
<1>3. LifeInv' /\ PoolTyped(S, O)'
  BY <1>1, <1>2, StartStep, ShutdownStep DEF ProdInv
<1>4. (\A x : x \notin JobsOf(i) => PoolKeeps(x)) /\ UNCHANGED timer
  BY <1>1, <1>2, CallsQueueOwnJob DEF ProdInv
<1>5. ProdTypeOK' /\ HeldLive'
  BY <1>1 DEF ProdInv, ProdTypeOK, HeldLive
<1>6. LifecycleJobsLive'
  <2> SUFFICES ASSUME NEW k \in Instances, core'[k] # "live"
               PROVE  timer' # k /\ \A x \in JobsOf(k) : ~InPool(x)'
    BY DEF LifecycleJobsLive, JobsOf, StartJob, ShutdownJob
  <2>1. core[k] # "live" /\ k # i
    BY <1>1 DEF ProdInv, HeldLive
  <2>2. \A x \in JobsOf(k) : x \notin JobsOf(i)
    BY <2>1, JobsDistinct DEF JobsOf
  <2> QED BY <1>4, <2>1, <2>2 DEF ProdInv, LifecycleJobsLive, PoolKeeps
<1>7. SendsPending'
  <2>1. \A k \in Instances, m \in Messages : PoolKeeps(SendJob(k, m))
    BY <1>4, SendJobIsJob DEF LifeJobs
  <2> QED BY <1>1, <2>1 DEF ProdInv, SendsPending, PoolKeeps, SendJob
<1> QED BY <1>3, <1>5, <1>6, <1>7 DEF ProdInv

LEMMA InnerStepKeeps ==
  ASSUME NEW S, NEW O, Hosted(S, O), ProdInv(S, O),
         InnerStep, UNCHANGED prodVars
  PROVE  ProdInv(S, O)'
<1>1. LifeJobs \subseteq S /\ Outcomes \subseteq O
  BY DEF Hosted, Jobs, Results
<1>2. LifeNext
  BY DEF InnerStep, LifeNext
<1>3. LifeInv' /\ PoolTyped(S, O)'
  BY <1>1, <1>2, LifeStep DEF ProdInv
<1>4. /\ \A x : InPool(x)' => InPool(x)
      /\ \A x : x \notin LifeJobs => PoolKeeps(x)
      /\ \A i \in Instances : timer' = i => timer = i \/ InPool(StartJob(i))
  BY <1>1, InnerStepsAddNoJob DEF ProdInv
<1>5. UNCHANGED <<core, held, sent, answer, stored, orphans>>
  BY DEF prodVars
<1>6. ProdTypeOK' /\ HeldLive'
  BY <1>5 DEF ProdInv, ProdTypeOK, HeldLive
<1>7. LifecycleJobsLive'
  <2> SUFFICES ASSUME NEW k \in Instances, core'[k] # "live"
               PROVE  timer' # k /\ \A x \in JobsOf(k) : ~InPool(x)'
    BY DEF LifecycleJobsLive, JobsOf, StartJob, ShutdownJob
  <2>1. timer # k /\ \A x \in JobsOf(k) : ~InPool(x)
    BY <1>5 DEF ProdInv, LifecycleJobsLive
  <2>2. ~InPool(StartJob(k))
    BY <2>1 DEF JobsOf
  <2> QED BY <1>4, <2>1, <2>2
<1>8. SendsPending'
  <2>1. \A k \in Instances, m \in Messages : PoolKeeps(SendJob(k, m))
    BY <1>4, SendJobIsJob
  <2> QED BY <1>5, <2>1 DEF ProdInv, SendsPending, PoolKeeps, SendJob
<1> QED BY <1>3, <1>6, <1>7, <1>8 DEF ProdInv

-----------------------------------------------------------------------------
(* Steps of a send. *)

LEMMA SendPoolStep ==
  ASSUME NEW S, NEW O, Hosted(S, O), ProdInv(S, O),
         UNCHANGED lifeVars, UNCHANGED <<core, held>>, ProdTypeOK', SendsPending',
         PoolTyped(S, O)', \A x \in LifeJobs : PoolKeeps(x)
  PROVE  ProdInv(S, O)'
<1>1. UNCHANGED <<status, refs, timer, rejected, starts>> /\ native' \in [Instances -> {"down", "up"}]
  BY DEF lifeVars, ProdInv, LifeInv, LifeTypeOK
<1>2. LifeInv'
  BY <1>1, OtherStep DEF ProdInv
<1>3. HeldLive'
  BY DEF ProdInv, HeldLive
<1>4. LifecycleJobsLive'
  <2> SUFFICES ASSUME NEW k \in Instances, core'[k] # "live"
               PROVE  timer' # k /\ \A x \in JobsOf(k) : ~InPool(x)'
    BY DEF LifecycleJobsLive, JobsOf, StartJob, ShutdownJob
  <2>1. timer # k /\ \A x \in JobsOf(k) : ~InPool(x) /\ PoolKeeps(x)
    BY DEF ProdInv, LifecycleJobsLive, LifeJobs
  <2> QED BY <1>1, <2>1 DEF PoolKeeps
<1> QED BY <1>2, <1>3, <1>4 DEF ProdInv

LEMMA SendStep ==
  ASSUME NEW S, NEW O, Hosted(S, O), ProdInv(S, O),
         NEW i \in Instances, NEW m \in Messages, Send(i, m)
  PROVE  ProdInv(S, O)'
<1>1. /\ m \notin sent /\ sent' = sent \cup {m} /\ AsyncQueueWorker(SendJob(i, m))
      /\ UNCHANGED lifeVars /\ UNCHANGED <<core, held, answer, stored, orphans>>
  BY DEF Send
<1>2. SendJob(i, m) \in Jobs /\ SendJob(i, m) \notin LifeJobs
  BY SendJobIsJob
<1>3. /\ PoolTyped(S, O)' /\ InPool(SendJob(i, m))'
      /\ \A x : x # SendJob(i, m) => PoolKeeps(x)
  <2> DEFINE job == SendJob(i, m)
  <2>1. job \in S /\ AsyncQueueWorker(job) /\ PoolTyped(S, O)
    BY <1>1, <1>2 DEF ProdInv, Hosted
  <2>2. PoolTyped(S, O)' /\ InPool(job)' /\ \A x : x # job => PoolKeeps(x)
    <3> HIDE DEF job
    <3> QED BY <2>1, QueueStep
  <2> QED BY <2>2
<1>4. ProdTypeOK'
  BY <1>1 DEF ProdInv, ProdTypeOK
<1>5. SendsPending'
  <2> SUFFICES ASSUME NEW n \in Messages
               PROVE  /\ \A k \in Instances : InPool(SendJob(k, n))' => n \in sent'
                      /\ n \in sent' /\ answer'[n] = NoAnswer =>
                           \E k \in Instances : InPool(SendJob(k, n))'
    BY DEF SendsPending, SendJob
  <2>1. CASE n = m
    BY <1>1, <1>3, <2>1
  <2>2. CASE n # m
    <3>1. \A k \in Instances : PoolKeeps(SendJob(k, n))
      BY <1>3, <2>2, SendJobsApart
    <3> QED BY <1>1, <2>2, <3>1 DEF ProdInv, SendsPending, PoolKeeps
  <2> QED BY <2>1, <2>2
<1> QED BY <1>1, <1>2, <1>3, <1>4, <1>5, SendPoolStep

(* Of a send with its producer, and of one without. *)
LEMMA ExecuteSendStep ==
  ASSUME NEW S, NEW O, Hosted(S, O), ProdInv(S, O),
         NEW i \in Instances, NEW m \in Messages, ExecuteSend(i, m) \/ ExecuteOrphan(i, m)
  PROVE  ProdInv(S, O)'
<1>1. PICK outcome \in Results : ExecuteReturns(SendJob(i, m), outcome)
  BY DEF ExecuteSend, ExecuteOrphan, Results, Outcomes
<1>2. UNCHANGED lifeVars /\ UNCHANGED <<core, held, sent, answer, orphans>>
      /\ stored' \subseteq stored \cup {m}
  BY DEF ExecuteSend, ExecuteOrphan
<1>3. PoolTyped(S, O)' /\ \A x : PoolKeeps(x)
  <2> DEFINE job == SendJob(i, m)
  <2>1. ExecuteReturns(job, outcome) /\ outcome \in O /\ PoolTyped(S, O)
    BY <1>1 DEF ProdInv, Hosted
  <2> HIDE DEF job
  <2> QED BY <2>1, ReturnStep
<1>4. m \in sent
  <2>1. InPool(SendJob(i, m))
    BY <1>1 DEF ExecuteReturns, InPool
  <2> QED BY <2>1 DEF ProdInv, SendsPending
<1>5. ProdTypeOK'
  BY <1>2, <1>4 DEF ProdInv, ProdTypeOK
<1>6. SendsPending'
  <2>1. \A k \in Instances, n \in Messages : PoolKeeps(SendJob(k, n))
    BY <1>3
  <2> QED BY <1>2, <2>1 DEF ProdInv, SendsPending, PoolKeeps, SendJob
<1> QED BY <1>2, <1>3, <1>5, <1>6, SendPoolStep

LEMMA SendCallbackStep ==
  ASSUME NEW S, NEW O, Hosted(S, O), ProdInv(S, O),
         NEW i \in Instances, NEW m \in Messages, SendCallback(i, m)
  PROVE  ProdInv(S, O)'
<1>1. PICK outcome \in SendStatusStr \cup {"code", "error"} :
        /\ CallBack(SendJob(i, m), outcome)
        /\ \E a \in IF outcome = "code" THEN AnyStatusStr ELSE {outcome} :
             answer' = [answer EXCEPT ![m] = a]
        /\ UNCHANGED <<lifeVars, core, held, sent, stored, orphans>>
  BY DEF SendCallback
<1>2. PICK a \in AnyStatusStr \cup {"error"} : answer' = [answer EXCEPT ![m] = a]
  BY <1>1 DEF AnyStatusStr
<1>3. /\ PoolTyped(S, O)' /\ InPool(SendJob(i, m))
      /\ \A x : x # SendJob(i, m) => PoolKeeps(x)
  <2> DEFINE job == SendJob(i, m)
  <2>1. CallBack(job, outcome) /\ PoolTyped(S, O)
    BY <1>1 DEF ProdInv
  <2>2. PoolTyped(S, O)' /\ InPool(job) /\ \A x : x # job => PoolKeeps(x)
    <3> HIDE DEF job
    <3> QED BY <2>1, CallBackStep
  <2> QED BY <2>2
<1>4. \A x \in LifeJobs : PoolKeeps(x)
  BY <1>3, SendJobIsJob
<1>5. ProdTypeOK' /\ answer'[m] # NoAnswer
  BY <1>1, <1>2, ProducerAssumption DEF ProdInv, ProdTypeOK
<1>6. SendsPending'
  <2> SUFFICES ASSUME NEW n \in Messages
               PROVE  /\ \A k \in Instances : InPool(SendJob(k, n))' => n \in sent'
                      /\ n \in sent' /\ answer'[n] = NoAnswer =>
                           \E k \in Instances : InPool(SendJob(k, n))'
    BY DEF SendsPending, SendJob
  <2>1. m \in sent /\ sent' = sent
    BY <1>1, <1>3 DEF ProdInv, SendsPending
  <2>2. CASE n = m
    BY <1>5, <2>1, <2>2
  <2>3. CASE n # m
    <3>1. \A k \in Instances : PoolKeeps(SendJob(k, n))
      BY <1>3, <2>3, SendJobsApart
    <3>2. answer'[n] = answer[n]
      BY <1>2, <2>3 DEF ProdInv, ProdTypeOK
    <3> QED BY <2>1, <3>1, <3>2 DEF ProdInv, SendsPending, PoolKeeps
  <2> QED BY <2>2, <2>3
<1>7. UNCHANGED lifeVars /\ UNCHANGED <<core, held>>
  BY <1>1
<1> QED BY <1>3, <1>4, <1>5, <1>6, <1>7, SendPoolStep

-----------------------------------------------------------------------------
LEMMA ProdStarts == ASSUME NEW S, NEW O, Init PROVE ProdInv(S, O)
<1>1. LifeInv /\ PoolTyped(S, O)
  BY LifeStarts DEF Init
<1>2. \A x : ~InPool(x)
  BY DEF Init, LifeInit, PoolInit, InPool, Queued, Finished
<1>3. ProdTypeOK /\ HeldLive
  BY DEF Init, ProdTypeOK, HeldLive
<1>4. LifecycleJobsLive
  BY <1>2, LifecycleAssumption DEF Init, LifeInit, LifecycleJobsLive
<1>5. SendsPending
  BY <1>2 DEF Init, SendsPending
<1> QED BY <1>1, <1>3, <1>4, <1>5 DEF ProdInv

LEMMA NextCases ==
  ASSUME Next
  PROVE  \/ InnerStep /\ UNCHANGED prodVars
         \/ \E i \in Instances :
              \/ Construct(i) \/ UserCall(i) \/ Drop(i) \/ Collect(i)
              \/ \E m \in Messages : \/ Send(i, m) \/ SendCallback(i, m)
                                     \/ ExecuteSend(i, m) \/ ExecuteOrphan(i, m)
BY DEF Next, PoolTakes, LoopStep, ThreadStep, LifecycleCallback, ExecuteLifecycle, InnerStep

LEMMA ProdStutters ==
  ASSUME NEW S, NEW O, Hosted(S, O), ProdInv(S, O), UNCHANGED vars
  PROVE  ProdInv(S, O)'
<1>1. /\ UNCHANGED poolVars /\ UNCHANGED <<status, refs, timer, native, rejected, starts>>
      /\ UNCHANGED <<core, held, sent, answer, stored, orphans>>
  BY DEF vars, lifeVars, prodVars
<1>2. ProdTypeOK' /\ HeldLive' /\ native' \in [Instances -> {"down", "up"}]
  BY <1>1 DEF ProdInv, ProdTypeOK, HeldLive, LifeInv, LifeTypeOK
<1>3. LifecycleJobsLive'
  BY <1>1 DEF poolVars, ProdInv, LifecycleJobsLive, InPool, Queued, Finished,
              JobsOf, StartJob, ShutdownJob
<1> QED BY <1>1, <1>2, <1>3, QuietStep

LEMMA ProdStep ==
  ASSUME NEW S, NEW O, Hosted(S, O), ProdInv(S, O), [Next]_vars
  PROVE  ProdInv(S, O)'
<1>1. CASE Next
  BY <1>1, NextCases, InnerStepKeeps, ConstructStep, UserCallStep, DropStep, CollectStep,
     SendStep, SendCallbackStep, ExecuteSendStep
<1>2. CASE UNCHANGED vars
  BY <1>2, ProdStutters
<1> QED BY <1>1, <1>2

(* The steps of other code on the same pool. *)
LEMMA ProdForeign ==
  ASSUME NEW S, NEW O, Hosted(S, O), ProdInv(S, O),
         UNCHANGED <<lifeVars, prodVars>>,
         PoolTyped(S, O)', \A x \in Jobs : PoolKeeps(x)
  PROVE  ProdInv(S, O)'
<1>1. UNCHANGED lifeVars /\ UNCHANGED <<core, held, sent, answer, stored, orphans>>
  BY DEF prodVars
<1>2. ProdTypeOK'
  BY <1>1 DEF ProdInv, ProdTypeOK
<1>3. SendsPending'
  <2>1. \A k \in Instances, m \in Messages : PoolKeeps(SendJob(k, m))
    BY SendJobIsJob
  <2> QED BY <1>1, <2>1 DEF ProdInv, SendsPending, PoolKeeps, SendJob
<1>4. \A x \in LifeJobs : PoolKeeps(x)
  BY DEF Jobs
<1> QED BY <1>1, <1>2, <1>3, <1>4, SendPoolStep

(* What this class does to the pool. *)
LEMMA ProdMoves == ASSUME [Next]_vars PROVE PoolMoves(Jobs, Results)
<1> USE DEF PoolMoves
<1>1. CASE PoolTakes
  BY <1>1 DEF PoolTakes, Take
<1>2. ASSUME NEW i \in Instances, Construct(i) \/ Drop(i) \/ Collect(i)
      PROVE  UNCHANGED poolVars
  BY <1>2 DEF Construct, Drop, Collect
<1>3. ASSUME NEW i \in Instances, UserCall(i) \/ LifecycleCallback(i) \/ ExecuteLifecycle(i)
      PROVE  PoolMoves(Jobs, Results)
  <2>1. StartJob(i) \in Jobs /\ ShutdownJob(i) \in Jobs /\ \A x \in JobsOf(i) : x \in Jobs
    BY DEF Jobs, LifeJobs, JobsOf
  <2>2. Outcomes \subseteq Results
    BY DEF Results
  <2>3. CASE UserCall(i)
    BY <2>1, <2>3 DEF UserCall, Start, Shutdown
  <2>4. CASE LifecycleCallback(i)
    BY <2>1, <2>4 DEF LifecycleCallback, Settle, Rejected, Started, Stopped
  <2>5. CASE ExecuteLifecycle(i)
    BY <2>1, <2>2, <2>5 DEF ExecuteLifecycle, ExecuteStart, ExecuteShutdown
  <2> QED BY <1>3, <2>3, <2>4, <2>5
<1>4. ASSUME NEW i \in Instances, NEW m \in Messages,
             Send(i, m) \/ SendCallback(i, m) \/ ExecuteSend(i, m) \/ ExecuteOrphan(i, m)
      PROVE  PoolMoves(Jobs, Results)
  <2>1. SendJob(i, m) \in Jobs
    BY SendJobIsJob
  <2>2. SendStatusStr \cup {"code", "error"} \subseteq Results /\ Outcomes \subseteq Results
    BY DEF Results, Outcomes
  <2> QED BY <1>4, <2>1, <2>2 DEF Send, SendCallback, ExecuteSend, ExecuteOrphan
<1>5. CASE UNCHANGED vars
  BY <1>5 DEF vars
<1> QED BY <1>1, <1>2, <1>3, <1>4, <1>5 DEF Next, LoopStep, ThreadStep

(* Where the class does not keep the loop alive, no object is started and   *)
(* no send waits.                                                           *)
LEMMA ClassIdle ==
  ASSUME NEW S, NEW O, ProdInv(S, O), LoopIdle
  PROVE  /\ \A i \in Instances : status[i] # "STARTED"
         /\ \A m \in sent : answer[m] # NoAnswer
<1>1. \A i \in Instances : status[i] # "STARTED"
  <2>1. IsFiniteSet(Counted) /\ Cardinality(Counted) = 0
    BY CountedFinite DEF ProdInv, LifeInv, LoopIdle, RefCount
  <2>2. Counted = {}
    BY <2>1, FS_EmptySet
  <2> QED BY <2>2 DEF Counted
<1>2. \A x : ~InPool(x)
  BY DEF LoopIdle, InPool, Queued, Finished
<1> QED BY <1>1, <1>2 DEF ProdInv, ProdTypeOK, SendsPending

(* The inductive invariant, of a process whose pool has no other jobs. *)
ClassInv == ProdInv(Jobs, Results)

LEMMA ClassHosted == Hosted(Jobs, Results)
BY DEF Hosted

THEOREM ProducerInvariant == Spec => []ClassInv
<1>1. Init => ClassInv
  BY ProdStarts DEF ClassInv
<1>2. ClassInv /\ [Next]_vars => ClassInv'
  BY ClassHosted, ProdStep DEF ClassInv
<1> QED BY <1>1, <1>2, PTL DEF Spec

(* Every variable of the class keeps its range. *)
THEOREM ProducerTypeCorrect == Spec => []TypeOK
<1>1. ClassInv => TypeOK
  BY DEF ClassInv, ProdInv, LifeInv, ProdTypeOK, TypeOK
<1> QED BY <1>1, ProducerInvariant, PTL

(* The counter and the interval agree with the status of the objects. *)
THEOREM ProducerRefCount == Spec => []RefCount
<1>1. ClassInv => RefCount
  BY DEF ClassInv, ProdInv, LifeInv
<1> QED BY <1>1, ProducerInvariant, PTL

(* The C client of an object never has two start or shutdown calls at once. *)
THEOREM ProducerOneJob == Spec => []OneJob
<1>1. ClassInv => OneJob
  BY DEF ClassInv, ProdInv, LifeInv
<1> QED BY <1>1, ProducerInvariant, PTL

(* No start or shutdown in progress loses its native producer. *)
THEOREM ProducerJobsLive == Spec => []LifecycleJobsLive
<1>1. ClassInv => LifecycleJobsLive
  BY DEF ClassInv, ProdInv
<1> QED BY <1>1, ProducerInvariant, PTL

(* The process cannot end by itself while an object is started or a send is *)
(* not answered.                                                            *)
THEOREM ProducerExit == Spec => []ExitOnlyWhenIdle
<1>1. ClassInv => ExitOnlyWhenIdle
  BY ClassIdle DEF ClassInv, ExitOnlyWhenIdle
<1> QED BY <1>1, ProducerInvariant, PTL

(* A step of the class is a step of the contract, or shows nothing in it. *)
LEMMA ClassMaps ==
  ASSUME NEW S, NEW O, ProdInv(S, O), [Next]_vars
  PROVE  [Contract!ContractNext]_Seen
<1> SUFFICES Contract!ContractNext \/ Seen' = Seen
  OBVIOUS
<1>1. CASE LifeNext
  BY <1>1, LifeStepImplements DEF ProdInv
<1>2. CASE UNCHANGED <<status, rejected>>
  BY <1>2 DEF Seen
<1>3. Next => LifeNext \/ UNCHANGED <<status, rejected>>
  BY NextCases DEF InnerStep, LifeNext, Construct, UserCall, Drop, Collect, Send, SendCallback,
                   ExecuteSend, ExecuteOrphan, lifeVars
<1>4. UNCHANGED vars => UNCHANGED <<status, rejected>>
  BY DEF vars, lifeVars
<1> QED BY <1>1, <1>2, <1>3, <1>4

(* The lifecycle of the objects is the contract their users see. *)
THEOREM ProducerImplementsContract == Spec => ImplementsInstanceContract
<1>1. Init => Contract!ContractInit
  BY LifeStartsContract DEF Init
<1>2. ClassInv /\ [Next]_vars => [Contract!ContractNext]_Seen
  BY ClassMaps DEF ClassInv
<1> QED BY <1>1, <1>2, ProducerInvariant, PTL DEF Spec, ImplementsInstanceContract, Contract!ContractSpec

-----------------------------------------------------------------------------
(* What a send reports, when the C client throws its failures. *)

(* A finished send that kept its producer is stored unless it failed, and   *)
(* does not report a code.                                                  *)
OkIsStored ==
  \A i \in Instances, m \in Messages \ orphans :
    /\ ~Reports(SendJob(i, m), "code")
    /\ \A s \in SendStatusStr : Reports(SendJob(i, m), s) => m \in stored

StoredInv == OkIsStored /\ SendOkIsStored

LEMMA StoredStep ==
  ASSUME ~FailureCodes, NEW S, NEW O, Hosted(S, O), ProdInv(S, O),
         StoredInv, Next
  PROVE  StoredInv'
<1>1. stored \subseteq stored' /\ orphans \subseteq orphans'
  BY NextCases DEF prodVars, Construct, UserCall, Drop, Collect, Send, SendCallback, ExecuteSend,
                   ExecuteOrphan
<1>2. "ok" \notin SendStatusStr \cup {"code"} /\ "error" \notin SendStatusStr \cup {"code"}
      /\ "code" \notin SendStatusStr /\ Outcomes = {"ok", "error"}
  BY DEF SendStatusStr, Outcomes
<1>3. ASSUME \A x, o : Reports(x, o)' => Reports(x, o) \/ x \notin SendJobs PROVE OkIsStored'
  <2> SUFFICES ASSUME NEW i \in Instances, NEW m \in Messages \ orphans'
               PROVE  /\ ~Reports(SendJob(i, m), "code")'
                      /\ \A s \in SendStatusStr : Reports(SendJob(i, m), s)' => m \in stored'
    BY DEF OkIsStored, SendJob
  <2>1. SendJob(i, m) \in SendJobs
    BY DEF SendJobs
  <2> QED BY <1>1, <1>3, <2>1 DEF StoredInv, OkIsStored
<1>4. ASSUME UNCHANGED finished PROVE OkIsStored'
  BY <1>3, <1>4 DEF Reports
<1>5. ASSUME UNCHANGED answer PROVE SendOkIsStored'
  BY <1>1, <1>5 DEF StoredInv, SendOkIsStored
<1>6. CASE InnerStep /\ UNCHANGED prodVars
  <2>1. \A x, o : Reports(x, o)' => Reports(x, o) \/ x \in LifeJobs
    <3>1. CASE Take
      BY <3>1 DEF Take, PoolThreadTakes, Reports
    <3>2. ASSUME NEW i \in Instances, ExecuteStart(i) \/ ExecuteShutdown(i)
          PROVE  \A x, o : Reports(x, o)' => Reports(x, o) \/ x \in LifeJobs
      <4>1. PICK job \in JobsOf(i), outcome \in Outcomes : ExecuteReturns(job, outcome)
        BY <3>2 DEF ExecuteStart, ExecuteShutdown, JobsOf
      <4>2. outcome \in O /\ job \in LifeJobs
        BY DEF Hosted, Results, LifeJobs
      <4> QED BY <4>1, <4>2, ReturnOutcome DEF ProdInv
    <3>3. ASSUME NEW i \in Instances, Settle(i)
          PROVE  \A x, o : Reports(x, o)' => Reports(x, o)
      <4>1. PICK job \in JobsOf(i) : \E outcome : CallBack(job, outcome)
        BY <3>3 DEF Settle, Rejected, Started, Stopped, JobsOf
      <4> QED BY <4>1, CallBackOutcome DEF ProdInv
    <3> QED BY <1>6, <3>1, <3>2, <3>3 DEF InnerStep
  <2>2. \A x \in LifeJobs : x \notin SendJobs
    BY SendJobsApart
  <2> QED BY <1>3, <1>5, <1>6, <2>1, <2>2 DEF prodVars, StoredInv
<1>7. ASSUME NEW i \in Instances, Construct(i) \/ UserCall(i) \/ Drop(i) \/ Collect(i)
      PROVE  StoredInv'
  <2>1. UNCHANGED <<finished, answer>>
    BY <1>7 DEF Construct, UserCall, Drop, Collect, Start, Shutdown, AsyncQueueWorker, poolVars, prodVars
  <2> QED BY <1>4, <1>5, <2>1 DEF StoredInv
<1>8. ASSUME NEW i \in Instances, NEW m \in Messages, Send(i, m) PROVE StoredInv'
  BY <1>4, <1>5, <1>8 DEF Send, AsyncQueueWorker, StoredInv
<1>9. ASSUME NEW i \in Instances, NEW m \in Messages, SendCallback(i, m) PROVE StoredInv'
  <2>1. PICK outcome \in SendStatusStr \cup {"code", "error"} :
          /\ CallBack(SendJob(i, m), outcome)
          /\ \E a \in IF outcome = "code" THEN AnyStatusStr ELSE {outcome} :
               answer' = [answer EXCEPT ![m] = a]
          /\ UNCHANGED stored
    BY <1>9 DEF SendCallback
  <2>2. Reports(SendJob(i, m), outcome) /\ \A x, o : Reports(x, o)' => Reports(x, o)
    <3> DEFINE job == SendJob(i, m)
    <3>1. CallBack(job, outcome) /\ PoolTyped(S, O)
      BY <2>1 DEF ProdInv
    <3>2. Reports(job, outcome) /\ \A x, o : Reports(x, o)' => Reports(x, o)
      <4> HIDE DEF job
      <4> QED BY <3>1, CallBackOutcome
    <3> QED BY <3>2
  <2>3. m \notin orphans => outcome # "code" /\ (outcome \in SendStatusStr => m \in stored)
    BY <2>2 DEF StoredInv, OkIsStored
  <2>4. m \notin orphans => answer' = [answer EXCEPT ![m] = outcome]
    BY <2>1, <2>3
  <2>5. SendOkIsStored'
    <3> SUFFICES ASSUME NEW n \in Messages \ orphans', answer'[n] \in SendStatusStr
                 PROVE  n \in stored'
      BY DEF SendOkIsStored
    <3>1. n \notin orphans
      BY <1>1
    <3>2. CASE n = m
      BY <1>1, <2>3, <2>4, <3>1, <3>2 DEF ProdInv, ProdTypeOK
    <3>3. CASE n # m
      <4>1. answer'[n] = answer[n]
        BY <2>1, <3>3 DEF ProdInv, ProdTypeOK
      <4> QED BY <1>1, <3>1, <4>1 DEF StoredInv, SendOkIsStored
    <3> QED BY <3>2, <3>3
  <2> QED BY <1>3, <2>2, <2>5 DEF StoredInv
<1>10. ASSUME NEW i \in Instances, NEW m \in Messages, ExecuteSend(i, m) \/ ExecuteOrphan(i, m)
       PROVE  StoredInv'
  <2>1. PICK outcome \in Results :
          /\ ExecuteReturns(SendJob(i, m), outcome)
          /\ m \notin orphans => outcome # "code" /\ (outcome \in SendStatusStr => m \in stored')
    <3>1. CASE ExecuteSend(i, m)
      <4>1. PICK outcome \in Results :
              /\ ExecuteReturns(SendJob(i, m), outcome)
              /\ outcome # "code" /\ (outcome \in SendStatusStr => m \in stored')
        BY <1>2, <3>1 DEF ExecuteSend, Results
      <4> QED BY <4>1
    <3>2. CASE ExecuteOrphan(i, m)
      BY <3>2 DEF ExecuteOrphan, Results, Outcomes
    <3> QED BY <1>10, <3>1, <3>2
  <2>2. \A x, o : Reports(x, o)' => Reports(x, o) \/ (x = SendJob(i, m) /\ o = outcome)
    <3> DEFINE job == SendJob(i, m)
    <3>1. ExecuteReturns(job, outcome) /\ outcome \in O /\ PoolTyped(S, O)
      BY <2>1 DEF ProdInv, Hosted
    <3>2. \A x, o : Reports(x, o)' => Reports(x, o) \/ (x = job /\ o = outcome)
      <4> HIDE DEF job
      <4> QED BY <3>1, ReturnOutcome
    <3> QED BY <3>2
  <2>3. OkIsStored'
    <3> SUFFICES ASSUME NEW k \in Instances, NEW n \in Messages \ orphans'
                 PROVE  /\ ~Reports(SendJob(k, n), "code")'
                        /\ \A s \in SendStatusStr : Reports(SendJob(k, n), s)' => n \in stored'
      BY DEF OkIsStored, SendJob
    <3>1. SendJob(k, n) = SendJob(i, m) => n = m
      BY SendJobsApart
    <3> QED BY <1>1, <2>1, <2>2, <3>1 DEF StoredInv, OkIsStored
  <2>4. UNCHANGED answer
    BY <1>10 DEF ExecuteSend, ExecuteOrphan
  <2> QED BY <1>5, <2>3, <2>4 DEF StoredInv
<1> QED BY <1>6, <1>7, <1>8, <1>9, <1>10, NextCases

(* Steps of other jobs. *)
LEMMA StoredForeign ==
  ASSUME StoredInv, UNCHANGED prodVars, \A x \in SendJobs : \A o : Reports(x, o)' <=> Reports(x, o)
  PROVE  StoredInv'
<1>1. UNCHANGED <<answer, stored, orphans>>
  BY DEF prodVars
<1>2. OkIsStored'
  <2> SUFFICES ASSUME NEW i \in Instances, NEW m \in Messages \ orphans'
               PROVE  /\ ~Reports(SendJob(i, m), "code")'
                      /\ \A s \in SendStatusStr : Reports(SendJob(i, m), s)' => m \in stored'
    BY DEF OkIsStored, SendJob
  <2>1. SendJob(i, m) \in SendJobs
    BY DEF SendJobs
  <2> QED BY <1>1, <2>1 DEF StoredInv, OkIsStored
<1> QED BY <1>1, <1>2 DEF StoredInv, SendOkIsStored

LEMMA StoredStarts == ASSUME Init PROVE StoredInv
BY ProducerAssumption DEF Init, LifeInit, PoolInit, StoredInv, OkIsStored, SendOkIsStored, Reports,
                          AnyStatusStr

(* With failures thrown, a send that is answered with a documented status   *)
(* is stored, whatever the pool, the user and the collector do, unless the  *)
(* collector destroyed its producer before it returned.                     *)
THEOREM ProducerOkIsStored == ASSUME ~FailureCodes PROVE Spec => []SendOkIsStored
<1>1. Init => StoredInv
  BY StoredStarts
<1>2. ClassInv /\ StoredInv /\ [Next]_vars => StoredInv'
  <2>1. ASSUME StoredInv, UNCHANGED vars PROVE StoredInv'
    BY <2>1 DEF vars, poolVars, prodVars, StoredInv, OkIsStored, SendOkIsStored, Reports, SendJob
  <2> QED BY <2>1, ClassHosted, StoredStep DEF ClassInv
<1>3. StoredInv => SendOkIsStored
  BY DEF StoredInv
<1> QED BY <1>1, <1>2, <1>3, ProducerInvariant, PTL DEF Spec
=============================================================================
