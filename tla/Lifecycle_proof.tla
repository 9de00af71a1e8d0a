---------------------------- MODULE Lifecycle_proof ----------------------------
(***************************************************************************)
(* Type correctness, the counter and the job discipline of one class, for  *)
(* any finite set of objects, any pool and every outcome of the C          *)
(* functions, and the refinement of InstanceContract step by step.         *)
(*                                                                         *)
(* The lemmas speak of one step, of jobs of any set S and of outcomes of   *)
(* any set O, so that Producer and PushConsumer, which put other jobs on   *)
(* the same pool, cite them too.                                           *)
(***************************************************************************)
EXTENDS Lifecycle, FiniteSetTheorems, TLAPS

-----------------------------------------------------------------------------
(* The thread pool: what each step does to the places a job may be in. *)

PoolTyped(S, O) ==
  /\ queue \in Seq(S)
  /\ running \subseteq S
  /\ finished \in Seq([job : S, outcome : O])

(* Job x is finished with outcome o. *)
Reports(x, o) == \E k \in DOMAIN finished : finished[k].job = x /\ finished[k].outcome = o

(* The step keeps x in the pool or out of it, and in one place. *)
PoolKeeps(x) == (InPool(x)' <=> InPool(x)) /\ (OnePlace(x) => OnePlace(x)')

-----------------------------------------------------------------------------
(* Nan::AsyncQueueWorker: the job is in the pool afterwards, once if it was *)
(* not there before, and nothing else changes.                             *)
LEMMA QueueStep ==
  ASSUME NEW S, NEW O, PoolTyped(S, O), NEW job \in S, AsyncQueueWorker(job)
  PROVE  /\ PoolTyped(S, O)'
         /\ \A x : x # job => PoolKeeps(x)
         /\ InPool(job)'
         /\ ~InPool(job) => OnePlace(job)'
<1> DEFINE n == Len(queue)
<1>1. /\ queue' = Append(queue, job) /\ running' = running /\ finished' = finished
      /\ queue \in Seq(S) /\ n \in Nat
  BY DEF AsyncQueueWorker, PoolTyped
<1>2. /\ queue' \in Seq(S)
      /\ DOMAIN queue = 1..n /\ DOMAIN queue' = 1..(n + 1)
      /\ queue'[n + 1] = job
      /\ \A k \in 1..n : queue'[k] = queue[k]
  BY <1>1
<1>3. PoolTyped(S, O)'
  BY <1>1, <1>2 DEF PoolTyped
<1>4. ASSUME NEW x, x # job PROVE PoolKeeps(x)
  <2>1. Queued(x)' <=> Queued(x)
    BY <1>1, <1>2, <1>4 DEF Queued
  <2>2. Finished(x)' <=> Finished(x)
    BY <1>1 DEF Finished
  <2>3. ASSUME OnePlace(x) PROVE OnePlace(x)'
    BY <1>1, <1>2, <1>4, <2>1, <2>2, <2>3 DEF OnePlace
  <2> QED BY <1>1, <2>1, <2>2, <2>3 DEF PoolKeeps, InPool
<1>5. InPool(job)'
  BY <1>1, <1>2 DEF InPool, Queued
<1>6. ASSUME ~InPool(job) PROVE OnePlace(job)'
  <2>1. ~Queued(job) /\ job \notin running /\ ~Finished(job)
    BY <1>6 DEF InPool
  <2>2. ~Finished(job)' /\ job \notin running'
    BY <1>1, <2>1 DEF Finished
  <2>3. \A k \in DOMAIN queue' : queue'[k] = job => k = n + 1
    BY <1>1, <1>2, <2>1 DEF Queued
  <2> QED BY <2>2, <2>3 DEF OnePlace, Finished
<1> QED BY <1>3, <1>4, <1>5, <1>6

(* A free thread takes the oldest job: every job stays where it was or goes *)
(* from the queue to a thread.                                             *)
LEMMA TakeStep ==
  ASSUME NEW S, NEW O, PoolTyped(S, O), PoolThreadTakes
  PROVE  PoolTyped(S, O)' /\ \A x : PoolKeeps(x)
<1> DEFINE n == Len(queue)
<1>1. /\ queue # <<>> /\ queue' = Tail(queue) /\ running' = running \cup {Head(queue)}
      /\ finished' = finished /\ queue \in Seq(S) /\ n \in Nat
  BY DEF PoolThreadTakes, PoolTyped
<1>2. /\ n > 0 /\ queue' \in Seq(S)
      /\ DOMAIN queue = 1..n /\ DOMAIN queue' = 1..(n - 1)
      /\ Head(queue) = queue[1] /\ Head(queue) \in S
      /\ \A k \in 1..(n - 1) : queue'[k] = queue[k + 1]
  BY <1>1
<1>3. PoolTyped(S, O)'
  BY <1>1, <1>2 DEF PoolTyped
<1>4. ASSUME NEW x PROVE PoolKeeps(x)
  <2>1. Finished(x)' <=> Finished(x)
    BY <1>1 DEF Finished
  <2>2. Queued(x) <=> Queued(x)' \/ x = queue[1]
    <3>1. ASSUME Queued(x), x # queue[1] PROVE Queued(x)'
      <4>1. PICK k \in 1..n : queue[k] = x
        BY <1>2, <3>1 DEF Queued
      <4>2. k - 1 \in 1..(n - 1) /\ queue'[k - 1] = x
        BY <1>1, <1>2, <3>1, <4>1
      <4> QED BY <1>2, <4>2 DEF Queued
    <3>2. ASSUME Queued(x)' PROVE Queued(x)
      <4>1. PICK k \in 1..(n - 1) : queue'[k] = x
        BY <1>2, <3>2 DEF Queued
      <4>2. k + 1 \in 1..n /\ queue[k + 1] = x
        BY <1>1, <1>2, <4>1
      <4> QED BY <1>2, <4>2 DEF Queued
    <3>3. queue[1] = x => Queued(x)
      BY <1>1, <1>2 DEF Queued
    <3> QED BY <3>1, <3>2, <3>3
  <2>3. ASSUME OnePlace(x) PROVE OnePlace(x)'
    <3>1. \A k, l \in DOMAIN queue' : queue'[k] = x /\ queue'[l] = x => k = l
      <4> SUFFICES ASSUME NEW k \in 1..(n - 1), NEW l \in 1..(n - 1), queue'[k] = x, queue'[l] = x
                   PROVE  k = l
        BY <1>2
      <4>1. queue[k + 1] = x /\ queue[l + 1] = x /\ k + 1 \in 1..n /\ l + 1 \in 1..n
        BY <1>1, <1>2
      <4>2. k + 1 = l + 1
        BY <1>2, <2>3, <4>1 DEF OnePlace
      <4> QED BY <4>2
    <3>2. Queued(x)' => x # queue[1]
      <4> SUFFICES ASSUME NEW k \in 1..(n - 1), queue'[k] = x, x = queue[1]
                   PROVE  FALSE
        BY <1>2 DEF Queued
      <4>1. queue[k + 1] = x /\ k + 1 \in 1..n /\ 1 \in 1..n
        BY <1>1, <1>2
      <4>2. k + 1 = 1
        BY <1>2, <2>3, <4>1 DEF OnePlace
      <4> QED BY <4>2
    <3>3. \A k, l \in DOMAIN finished' : finished'[k].job = x /\ finished'[l].job = x => k = l
      BY <1>1, <2>3 DEF OnePlace
    <3>4. Queued(x)' => x \notin running'
      BY <1>1, <1>2, <2>2, <2>3, <3>2 DEF OnePlace
    <3>5. Finished(x)' => x \notin running' /\ ~Queued(x)'
      BY <1>1, <1>2, <2>1, <2>2, <2>3 DEF OnePlace
    <3> QED BY <3>1, <3>3, <3>4, <3>5 DEF OnePlace
  <2> QED BY <1>1, <1>2, <2>1, <2>2, <2>3 DEF PoolKeeps, InPool
<1> QED BY <1>3, <1>4

(* Execute() returns: the job goes from its thread to the finished ones. *)
LEMMA ReturnStep ==
  ASSUME NEW S, NEW O, PoolTyped(S, O), NEW job, NEW outcome \in O, ExecuteReturns(job, outcome)
  PROVE  PoolTyped(S, O)' /\ \A x : PoolKeeps(x)
<1> DEFINE n == Len(finished)
           f == [job |-> job, outcome |-> outcome]
<1>1. /\ job \in running /\ running' = running \ {job} /\ queue' = queue
      /\ finished' = Append(finished, f) /\ job \in S
      /\ finished \in Seq([job : S, outcome : O]) /\ n \in Nat
  BY DEF ExecuteReturns, PoolTyped
<1>2. f \in [job : S, outcome : O] /\ f.job = job
  BY <1>1
<1> HIDE DEF f
<1>3. /\ finished' \in Seq([job : S, outcome : O])
      /\ DOMAIN finished = 1..n /\ DOMAIN finished' = 1..(n + 1)
      /\ finished'[n + 1].job = job
      /\ \A k \in 1..n : finished'[k] = finished[k]
  BY <1>1, <1>2
<1>4. PoolTyped(S, O)'
  BY <1>1, <1>3 DEF PoolTyped
<1>5. ASSUME NEW x PROVE PoolKeeps(x)
  <2>1. Queued(x)' <=> Queued(x)
    BY <1>1 DEF Queued
  <2>2. Finished(x)' <=> Finished(x) \/ x = job
    BY <1>1, <1>3 DEF Finished
  <2>3. ASSUME OnePlace(x) PROVE OnePlace(x)'
    <3>1. \A k, l \in DOMAIN finished' : finished'[k].job = x /\ finished'[l].job = x => k = l
      <4>1. x = job => \A k \in 1..n : finished[k].job # x
        BY <1>1, <1>3, <2>3 DEF OnePlace, Finished
      <4>2. \A k, l \in 1..n : finished[k].job = x /\ finished[l].job = x => k = l
        BY <1>3, <2>3 DEF OnePlace
      <4> QED BY <1>1, <1>3, <4>1, <4>2
    <3>2. \A k, l \in DOMAIN queue' : queue'[k] = x /\ queue'[l] = x => k = l
      BY <1>1, <2>3 DEF OnePlace
    <3>3. Queued(x)' => x \notin running'
      BY <1>1, <2>1, <2>3 DEF OnePlace
    <3>4. Finished(x)' => x \notin running' /\ ~Queued(x)'
      BY <1>1, <2>1, <2>2, <2>3 DEF OnePlace
    <3> QED BY <3>1, <3>2, <3>3, <3>4 DEF OnePlace
  <2> QED BY <1>1, <2>1, <2>2, <2>3 DEF PoolKeeps, InPool
<1> QED BY <1>4, <1>5

(* The loop calls the oldest finished worker back: a job that was in the    *)
(* pool once is gone, and every other job stays.                           *)
LEMMA CallBackStep ==
  ASSUME NEW S, NEW O, PoolTyped(S, O), NEW job, NEW outcome, CallBack(job, outcome)
  PROVE  /\ PoolTyped(S, O)'
         /\ \A x : x # job => PoolKeeps(x)
         /\ InPool(job) /\ job \in S
         /\ OnePlace(job) => ~InPool(job)' /\ OnePlace(job)'
<1> DEFINE n == Len(finished)
           T == [job : S, outcome : O]
<1>1. /\ finished # <<>> /\ finished' = Tail(finished)
      /\ Head(finished) = [job |-> job, outcome |-> outcome]
      /\ queue' = queue /\ running' = running
      /\ finished \in Seq(T) /\ n \in Nat
  BY DEF CallBack, PoolTyped
<1>2. /\ n > 0 /\ DOMAIN finished = 1..n /\ DOMAIN finished' = 1..(n - 1)
      /\ Head(finished) = finished[1] /\ finished[1] \in T
      /\ finished' \in Seq(T)
      /\ \A k \in 1..(n - 1) : finished'[k] = finished[k + 1]
  <2> HIDE DEF T
  <2> QED BY <1>1
<1>3. finished[1].job = job /\ job \in S /\ 1 \in 1..n
  BY <1>1, <1>2
<1>4. PoolTyped(S, O)'
  BY <1>1, <1>2 DEF PoolTyped
<1>5. ASSUME NEW x PROVE Finished(x)' => Finished(x)
  <2> SUFFICES ASSUME NEW k \in 1..(n - 1), finished'[k].job = x
               PROVE  Finished(x)
    BY <1>2 DEF Finished
  <2>1. k + 1 \in 1..n /\ finished[k + 1].job = x
    BY <1>1, <1>2
  <2> QED BY <1>2, <2>1 DEF Finished
<1>6. ASSUME NEW x, OnePlace(x)
      PROVE  \A k, l \in DOMAIN finished' : finished'[k].job = x /\ finished'[l].job = x => k = l
  <2> SUFFICES ASSUME NEW k \in 1..(n - 1), NEW l \in 1..(n - 1),
                      finished'[k].job = x, finished'[l].job = x
               PROVE  k = l
    BY <1>2
  <2>1. k + 1 \in 1..n /\ l + 1 \in 1..n /\ finished[k + 1].job = x /\ finished[l + 1].job = x
    BY <1>1, <1>2
  <2>2. k + 1 = l + 1
    BY <1>2, <1>6, <2>1 DEF OnePlace
  <2> QED BY <2>2
<1>7. ASSUME NEW x, x # job PROVE PoolKeeps(x)
  <2>1. ASSUME Finished(x) PROVE Finished(x)'
    <3>1. PICK k \in 1..n : finished[k].job = x
      BY <1>2, <2>1 DEF Finished
    <3>2. k - 1 \in 1..(n - 1) /\ finished'[k - 1].job = x
      BY <1>1, <1>2, <1>3, <1>7, <3>1
    <3> QED BY <1>2, <3>2 DEF Finished
  <2>2. Finished(x)' <=> Finished(x)
    BY <1>5, <2>1
  <2>3. Queued(x)' <=> Queued(x)
    BY <1>1 DEF Queued
  <2>4. ASSUME OnePlace(x) PROVE OnePlace(x)'
    BY <1>1, <1>6, <2>2, <2>3, <2>4 DEF OnePlace
  <2> QED BY <1>1, <2>2, <2>3, <2>4 DEF PoolKeeps, InPool
<1>8. Finished(job) /\ InPool(job)
  BY <1>2, <1>3 DEF InPool, Finished
<1>9. ASSUME OnePlace(job) PROVE ~InPool(job)' /\ OnePlace(job)'
  <2>1. ~Finished(job)'
    <3> SUFFICES ASSUME NEW k \in 1..(n - 1), finished'[k].job = job
                 PROVE  FALSE
      BY <1>2 DEF Finished
    <3>1. k + 1 \in 1..n /\ finished[k + 1].job = job
      BY <1>1, <1>2
    <3>2. k + 1 = 1
      BY <1>2, <1>3, <1>9, <3>1 DEF OnePlace
    <3> QED BY <3>2
  <2>2. job \notin running' /\ ~Queued(job)'
    BY <1>1, <1>8, <1>9 DEF OnePlace, Queued
  <2>3. \A k, l \in DOMAIN queue' : queue'[k] = job /\ queue'[l] = job => k = l
    BY <1>1, <1>9 DEF OnePlace
  <2> QED BY <1>6, <1>9, <2>1, <2>2, <2>3 DEF InPool, OnePlace
<1> QED BY <1>3, <1>4, <1>7, <1>8, <1>9

(* What a finished job reports comes from its own Execute(), the loop gets  *)
(* what a finished job reports, and every other report waits.               *)
LEMMA ReturnOutcome ==
  ASSUME NEW S, NEW O, PoolTyped(S, O), NEW job, NEW outcome \in O, ExecuteReturns(job, outcome)
  PROVE  \A x, o : Reports(x, o)' <=> Reports(x, o) \/ (x = job /\ o = outcome)
<1> DEFINE n == Len(finished)
           f == [job |-> job, outcome |-> outcome]
<1>1. /\ finished' = Append(finished, f) /\ job \in S
      /\ finished \in Seq([job : S, outcome : O]) /\ n \in Nat
  BY DEF ExecuteReturns, PoolTyped
<1>2. f \in [job : S, outcome : O] /\ f.job = job /\ f.outcome = outcome
  BY <1>1
<1> HIDE DEF f
<1>3. /\ DOMAIN finished = 1..n /\ DOMAIN finished' = 1..(n + 1)
      /\ finished'[n + 1] = f
      /\ \A k \in 1..n : finished'[k] = finished[k]
  BY <1>1, <1>2
<1> QED BY <1>2, <1>3 DEF Reports

LEMMA CallBackOutcome ==
  ASSUME NEW S, NEW O, PoolTyped(S, O), NEW job, NEW outcome, CallBack(job, outcome)
  PROVE  /\ Reports(job, outcome)
         /\ \A x, o : Reports(x, o)' => Reports(x, o)
         /\ \A x, o : Reports(x, o) => Reports(x, o)' \/ (x = job /\ o = outcome)
<1> DEFINE n == Len(finished)
           T == [job : S, outcome : O]
<1>1. /\ finished # <<>> /\ finished' = Tail(finished)
      /\ Head(finished) = [job |-> job, outcome |-> outcome]
      /\ finished \in Seq(T) /\ n \in Nat
  BY DEF CallBack, PoolTyped
<1>2. /\ n > 0 /\ DOMAIN finished = 1..n /\ DOMAIN finished' = 1..(n - 1)
      /\ Head(finished) = finished[1]
      /\ \A k \in 1..(n - 1) : finished'[k] = finished[k + 1] /\ k + 1 \in 1..n
  <2> HIDE DEF T
  <2> QED BY <1>1
<1>3. finished[1].job = job /\ finished[1].outcome = outcome /\ 1 \in 1..n
  BY <1>1, <1>2
<1>4. Reports(job, outcome)
  BY <1>2, <1>3 DEF Reports
<1>5. ASSUME NEW x, NEW o, Reports(x, o)' PROVE Reports(x, o)
  <2>1. PICK k \in 1..(n - 1) : finished'[k].job = x /\ finished'[k].outcome = o
    BY <1>2, <1>5 DEF Reports
  <2> QED BY <1>2, <2>1 DEF Reports
<1>6. ASSUME NEW x, NEW o, Reports(x, o), ~(x = job /\ o = outcome) PROVE Reports(x, o)'
  <2>1. PICK k \in 1..n : finished[k].job = x /\ finished[k].outcome = o
    BY <1>2, <1>6 DEF Reports
  <2>2. k # 1
    BY <1>3, <1>6, <2>1
  <2>3. k - 1 \in 1..(n - 1) /\ finished'[k - 1] = finished[k]
    BY <1>1, <1>2, <2>2
  <2> QED BY <1>2, <2>1, <2>3 DEF Reports
<1> QED BY <1>4, <1>5, <1>6

(* A step that leaves the pool alone. *)
LEMMA PoolUnchanged ==
  ASSUME NEW S, NEW O, PoolTyped(S, O), UNCHANGED poolVars
  PROVE  PoolTyped(S, O)' /\ \A x : PoolKeeps(x)
BY DEF PoolTyped, PoolKeeps, InPool, Queued, Finished, OnePlace, poolVars

(* A step that queues, executes or answers one of the jobs J, or takes any, *)
(* with outcomes in R.                                                      *)
PoolMoves(J, R) ==
  \/ UNCHANGED poolVars
  \/ PoolThreadTakes
  \/ \E job \in J :
       \/ AsyncQueueWorker(job)
       \/ \E outcome \in R : ExecuteReturns(job, outcome)
       \/ \E outcome : CallBack(job, outcome)

(* Nothing shows of such a step in the places and reports of other jobs. *)
LEMMA MovesKeepOthers ==
  ASSUME NEW S, NEW O, NEW J, NEW R, J \subseteq S, R \subseteq O, PoolTyped(S, O), PoolMoves(J, R)
  PROVE  /\ PoolTyped(S, O)'
         /\ \A x : x \notin J => PoolKeeps(x) /\ \A o : Reports(x, o)' <=> Reports(x, o)
<1>1. CASE UNCHANGED poolVars
  <2>1. \A x, o : Reports(x, o)' <=> Reports(x, o)
    BY <1>1 DEF Reports, poolVars
  <2> QED BY <1>1, <2>1, PoolUnchanged
<1>2. CASE PoolThreadTakes
  <2>1. \A x, o : Reports(x, o)' <=> Reports(x, o)
    BY <1>2 DEF Reports, PoolThreadTakes
  <2> QED BY <1>2, <2>1, TakeStep
<1>3. ASSUME NEW job \in J, AsyncQueueWorker(job)
      PROVE  /\ PoolTyped(S, O)'
             /\ \A x : x \notin J => PoolKeeps(x) /\ \A o : Reports(x, o)' <=> Reports(x, o)
  <2>1. \A x, o : Reports(x, o)' <=> Reports(x, o)
    BY <1>3 DEF Reports, AsyncQueueWorker
  <2> QED BY <1>3, <2>1, QueueStep
<1>4. ASSUME NEW job \in J, NEW outcome \in R, ExecuteReturns(job, outcome)
      PROVE  /\ PoolTyped(S, O)'
             /\ \A x : x \notin J => PoolKeeps(x) /\ \A o : Reports(x, o)' <=> Reports(x, o)
  <2>1. outcome \in O
    OBVIOUS
  <2> QED BY <1>4, <2>1, ReturnStep, ReturnOutcome
<1>5. ASSUME NEW job \in J, NEW outcome, CallBack(job, outcome)
      PROVE  /\ PoolTyped(S, O)'
             /\ \A x : x \notin J => PoolKeeps(x) /\ \A o : Reports(x, o)' <=> Reports(x, o)
  BY <1>5, CallBackStep, CallBackOutcome
<1> QED BY <1>1, <1>2, <1>3, <1>4, <1>5 DEF PoolMoves

-----------------------------------------------------------------------------
(* The lifecycle. *)

(* An error leaves its object in STARTING or STOPPING for ever. *)
RejectedStuck == \A i \in rejected : status[i] \in {"STARTING", "STOPPING"}

LifeInv == LifeTypeOK /\ RejectedStuck /\ OneJob /\ RefCount

LifeJobs == UNION {JobsOf(i) : i \in Instances}

(* The step concerns no object but i. *)
OthersKeep(i) ==
  \A k \in Instances \ {i} : status'[k] = status[k] /\ (k \in rejected' <=> k \in rejected)

-----------------------------------------------------------------------------
LEMMA JobsDistinct ==
  ASSUME NEW i, NEW k
  PROVE  /\ StartJob(i) # ShutdownJob(k)
         /\ i # k => StartJob(i) # StartJob(k) /\ ShutdownJob(i) # ShutdownJob(k)
<1>1. StartJob(i).kind = "start" /\ ShutdownJob(k).kind = "shutdown"
  BY DEF StartJob, ShutdownJob
<1>2. /\ StartJob(i).inst = i /\ StartJob(k).inst = k
      /\ ShutdownJob(i).inst = i /\ ShutdownJob(k).inst = k
  BY DEF StartJob, ShutdownJob
<1> QED BY <1>1, <1>2

(* The objects that count are finitely many, and no more than there are. *)
LEMMA CountedFinite ==
  ASSUME LifeTypeOK
  PROVE  /\ IsFiniteSet(Counted) /\ Cardinality(Counted) \in Nat
         /\ Cardinality(Instances) \in Nat
         /\ \A T \in SUBSET Instances : Cardinality(T) <= Cardinality(Instances)
<1>1. Counted \subseteq Instances /\ IsFiniteSet(Instances)
  BY LifecycleAssumption DEF Counted
<1>2. IsFiniteSet(Counted) /\ \A T \in SUBSET Instances : Cardinality(T) <= Cardinality(Instances)
  BY <1>1, FS_Subset
<1> QED BY <1>1, <1>2, FS_CardinalityType

(* What a step does to one job of one object decides OneJob: the pool keeps *)
(* every other job, and the status of the object waits for no other job     *)
(* before or after the step.                                                *)
LEMMA OneJobStep ==
  ASSUME NEW i \in Instances, NEW job \in JobsOf(i),
         OneJob, OthersKeep(i),
         \A x : x # job => PoolKeeps(x),
         \A x \in JobsOf(i) \ {job} : ~WaitsFor(i, x) /\ ~WaitsFor(i, x)',
         OnePlace(job)',
         InPool(job)' <=> WaitsFor(i, job)'
  PROVE  OneJob'
<1> SUFFICES ASSUME NEW k \in Instances, NEW x \in JobsOf(k)
             PROVE  OnePlace(x)' /\ (InPool(x)' <=> WaitsFor(k, x)')
  BY DEF OneJob, JobsOf, StartJob, ShutdownJob
<1>1. CASE x = job
  <2>1. k = i
    BY <1>1, JobsDistinct DEF JobsOf
  <2> QED BY <1>1, <2>1
<1>2. CASE x # job
  <2>1. PoolKeeps(x) /\ OnePlace(x) /\ (InPool(x) <=> WaitsFor(k, x))
    BY <1>2 DEF OneJob
  <2>2. WaitsFor(k, x)' <=> WaitsFor(k, x)
    <3>1. CASE k = i
      BY <1>2, <3>1
    <3>2. CASE k # i
      BY <3>2 DEF OthersKeep, WaitsFor, StartJob
    <3> QED BY <3>1, <3>2
  <2> QED BY <2>1, <2>2 DEF PoolKeeps
<1> QED BY <1>1, <1>2

(* A step that concerns no object and no job of one, like a send. *)
LEMMA OtherStep ==
  ASSUME LifeInv,
         UNCHANGED <<status, refs, timer, rejected, starts>>,
         native' \in [Instances -> {"down", "up"}],
         \A x \in LifeJobs : PoolKeeps(x)
  PROVE  LifeInv'
<1>1. LifeTypeOK' /\ RejectedStuck' /\ RefCount'
  BY DEF LifeInv, LifeTypeOK, RejectedStuck, RefCount, Counted
<1>2. OneJob'
  <2> SUFFICES ASSUME NEW k \in Instances, NEW x \in JobsOf(k)
               PROVE  OnePlace(x)' /\ (InPool(x)' <=> WaitsFor(k, x)')
    BY DEF OneJob, JobsOf, StartJob, ShutdownJob
  <2>1. PoolKeeps(x)
    BY DEF LifeJobs
  <2>2. OnePlace(x) /\ (InPool(x) <=> WaitsFor(k, x))
    BY DEF LifeInv, OneJob
  <2>3. WaitsFor(k, x)' <=> WaitsFor(k, x)
    BY DEF WaitsFor, StartJob
  <2> QED BY <2>1, <2>2, <2>3 DEF PoolKeeps
<1> QED BY <1>1, <1>2 DEF LifeInv

-----------------------------------------------------------------------------
(* One lemma for each operation. *)

LEMMA StartStep ==
  ASSUME NEW S, NEW O, LifeJobs \subseteq S, PoolTyped(S, O), LifeInv, NEW i \in Instances, Start(i)
  PROVE  LifeInv' /\ PoolTyped(S, O)'
<1> DEFINE job == StartJob(i)
<1>1. job \in S /\ job \in JobsOf(i)
  BY DEF LifeJobs, JobsOf
<1>2. AsyncQueueWorker(job)
  BY DEF Start
<1>3. /\ PoolTyped(S, O)' /\ InPool(job)' /\ (~InPool(job) => OnePlace(job)')
      /\ \A x : x # job => PoolKeeps(x)
  BY <1>1, <1>2, QueueStep
<1>4. /\ status[i] = "STOPPED" /\ status' = [status EXCEPT ![i] = "STARTING"]
      /\ starts' = [starts EXCEPT ![i] = @ + 1] /\ starts[i] < MaxStarts
      /\ UNCHANGED <<refs, timer, native, rejected>>
  BY DEF Start, StatusGoes
<1>5. /\ status \in [Instances -> Statuses] /\ i \notin rejected
      /\ status' \in [Instances -> Statuses] /\ status'[i] = "STARTING"
  BY <1>4 DEF LifeInv, LifeTypeOK, RejectedStuck, Statuses
<1>6. LifeTypeOK'
  BY <1>4, <1>5, LifecycleAssumption DEF LifeInv, LifeTypeOK
<1>7. RejectedStuck'
  BY <1>4, <1>5 DEF LifeInv, LifeTypeOK, RejectedStuck
<1>8. OneJob'
  <2>1. \A x \in JobsOf(i) : ~WaitsFor(i, x)
    BY <1>4 DEF WaitsFor
  <2>2. \A x \in JobsOf(i) : WaitsFor(i, x)' <=> x = job
    BY <1>4, <1>5, JobsDistinct DEF WaitsFor, JobsOf, StartJob
  <2>3. ~InPool(job)
    BY <1>1, <2>1 DEF LifeInv, OneJob
  <2>4. OthersKeep(i)
    BY <1>4, <1>5 DEF OthersKeep
  <2> HIDE DEF job
  <2> QED BY <1>1, <1>3, <2>1, <2>2, <2>3, <2>4, OneJobStep DEF LifeInv
<1>9. RefCount'
  <2>1. Counted' = Counted
    BY <1>4, <1>5 DEF Counted
  <2> QED BY <1>4, <2>1 DEF LifeInv, RefCount
<1> QED BY <1>3, <1>6, <1>7, <1>8, <1>9 DEF LifeInv

LEMMA ShutdownStep ==
  ASSUME NEW S, NEW O, LifeJobs \subseteq S, PoolTyped(S, O), LifeInv, NEW i \in Instances, Shutdown(i)
  PROVE  LifeInv' /\ PoolTyped(S, O)'
<1> DEFINE job == ShutdownJob(i)
<1>1. job \in S /\ job \in JobsOf(i)
  BY DEF LifeJobs, JobsOf
<1>2. AsyncQueueWorker(job)
  BY DEF Shutdown
<1>3. /\ PoolTyped(S, O)' /\ InPool(job)' /\ (~InPool(job) => OnePlace(job)')
      /\ \A x : x # job => PoolKeeps(x)
  BY <1>1, <1>2, QueueStep
<1>4. /\ status[i] = "STARTED" /\ status' = [status EXCEPT ![i] = "STOPPING"]
      /\ UNCHANGED <<refs, timer, native, rejected, starts>>
  BY DEF Shutdown, StatusGoes
<1>5. /\ status \in [Instances -> Statuses] /\ i \notin rejected
      /\ status' \in [Instances -> Statuses] /\ status'[i] = "STOPPING"
  BY <1>4 DEF LifeInv, LifeTypeOK, RejectedStuck, Statuses
<1>6. LifeTypeOK'
  BY <1>4, <1>5 DEF LifeInv, LifeTypeOK
<1>7. RejectedStuck'
  BY <1>4, <1>5 DEF LifeInv, LifeTypeOK, RejectedStuck
<1>8. OneJob'
  <2>1. \A x \in JobsOf(i) : ~WaitsFor(i, x)
    BY <1>4 DEF WaitsFor
  <2>2. \A x \in JobsOf(i) : WaitsFor(i, x)' <=> x = job
    BY <1>4, <1>5, JobsDistinct DEF WaitsFor, JobsOf, StartJob
  <2>3. ~InPool(job)
    BY <1>1, <2>1 DEF LifeInv, OneJob
  <2>4. OthersKeep(i)
    BY <1>4, <1>5 DEF OthersKeep
  <2> HIDE DEF job
  <2> QED BY <1>1, <1>3, <2>1, <2>2, <2>3, <2>4, OneJobStep DEF LifeInv
<1>9. RefCount'
  <2>1. Counted' = Counted
    BY <1>4, <1>5 DEF Counted
  <2> QED BY <1>4, <2>1 DEF LifeInv, RefCount
<1> QED BY <1>3, <1>6, <1>7, <1>8, <1>9 DEF LifeInv

(* What the callbacks have in common: the job was the one its object waited *)
(* for, and it leaves the pool.                                             *)
LEMMA AnsweredJob ==
  ASSUME NEW S, NEW O, PoolTyped(S, O), LifeInv, NEW i \in Instances, NEW job \in JobsOf(i),
         NEW outcome, CallBack(job, outcome)
  PROVE  /\ PoolTyped(S, O)' /\ \A x : x # job => PoolKeeps(x)
         /\ ~InPool(job)' /\ OnePlace(job)'
         /\ i \notin rejected
         /\ status[i] = IF job = StartJob(i) THEN "STARTING" ELSE "STOPPING"
         /\ \A x \in JobsOf(i) \ {job} : ~WaitsFor(i, x)
<1>1. /\ PoolTyped(S, O)' /\ \A x : x # job => PoolKeeps(x)
      /\ InPool(job) /\ (OnePlace(job) => ~InPool(job)' /\ OnePlace(job)')
  BY CallBackStep
<1>2. OnePlace(job) /\ WaitsFor(i, job)
  BY <1>1 DEF LifeInv, OneJob
<1>3. i \notin rejected /\ status[i] = IF job = StartJob(i) THEN "STARTING" ELSE "STOPPING"
  BY <1>2 DEF WaitsFor
<1>4. \A x \in JobsOf(i) \ {job} : ~WaitsFor(i, x)
  BY <1>3, JobsDistinct DEF WaitsFor, JobsOf
<1> QED BY <1>1, <1>2, <1>3, <1>4

LEMMA RejectedStep ==
  ASSUME NEW S, NEW O, PoolTyped(S, O), LifeInv, NEW i \in Instances, Rejected(i)
  PROVE  LifeInv' /\ PoolTyped(S, O)'
<1>1. PICK job \in JobsOf(i) : CallBack(job, "error")
  BY DEF Rejected
<1>2. rejected' = rejected \cup {i} /\ UNCHANGED <<status, refs, timer, native, starts>>
  BY DEF Rejected
<1>3. /\ PoolTyped(S, O)' /\ \A x : x # job => PoolKeeps(x)
      /\ ~InPool(job)' /\ OnePlace(job)'
      /\ status[i] \in {"STARTING", "STOPPING"}
      /\ \A x \in JobsOf(i) \ {job} : ~WaitsFor(i, x)
  BY <1>1, AnsweredJob
<1>4. LifeTypeOK' /\ RejectedStuck' /\ RefCount'
  BY <1>2, <1>3 DEF LifeInv, LifeTypeOK, RejectedStuck, RefCount, Counted
<1>5. OneJob'
  <2>1. \A x \in JobsOf(i) : ~WaitsFor(i, x)'
    BY <1>2 DEF WaitsFor
  <2>2. OthersKeep(i)
    BY <1>2 DEF OthersKeep
  <2> QED BY <1>3, <2>1, <2>2, OneJobStep DEF LifeInv
<1> QED BY <1>3, <1>4, <1>5 DEF LifeInv

LEMMA StartedStep ==
  ASSUME NEW S, NEW O, PoolTyped(S, O), LifeInv, NEW i \in Instances, Started(i)
  PROVE  LifeInv' /\ PoolTyped(S, O)'
<1> DEFINE job == StartJob(i)
<1>1. PICK outcome \in Outcomes \ {"error"} : CallBack(job, outcome)
  BY DEF Started
<1>2. /\ status' = [status EXCEPT ![i] = "STARTED"]
      /\ timer' = IF refs = 0 THEN i ELSE timer
      /\ refs' = refs + 1
      /\ UNCHANGED <<native, rejected, starts>>
  BY DEF Started, TimerAtStart
<1>3. job \in JobsOf(i)
  BY DEF JobsOf
<1>4. /\ PoolTyped(S, O)' /\ \A x : x # job => PoolKeeps(x)
      /\ ~InPool(job)' /\ OnePlace(job)'
      /\ i \notin rejected /\ status[i] = "STARTING"
      /\ \A x \in JobsOf(i) \ {job} : ~WaitsFor(i, x)
  <2> HIDE DEF job
  <2>1. status[i] = IF job = StartJob(i) THEN "STARTING" ELSE "STOPPING"
    BY <1>1, <1>3, AnsweredJob
  <2> QED BY <1>1, <1>3, <2>1, AnsweredJob DEF job
<1>5. /\ status \in [Instances -> Statuses] /\ status' \in [Instances -> Statuses]
      /\ status'[i] = "STARTED"
  BY <1>2 DEF LifeInv, LifeTypeOK, Statuses
<1>6. Counted' = Counted \cup {i} /\ i \notin Counted
  BY <1>2, <1>4, <1>5 DEF Counted
<1>7. refs \in Nat /\ Cardinality(Counted') = refs + 1 /\ refs + 1 <= Cardinality(Instances)
  <2>1. /\ IsFiniteSet(Counted) /\ Cardinality(Counted) \in Nat /\ Cardinality(Instances) \in Nat
        /\ \A T \in SUBSET Instances : Cardinality(T) <= Cardinality(Instances)
    BY CountedFinite DEF LifeInv
  <2>2. Cardinality(Counted \cup {i}) = Cardinality(Counted) + 1
    BY <1>6, <2>1, FS_AddElement
  <2>3. Counted \cup {i} \subseteq Instances
    BY DEF Counted
  <2>4. Cardinality(Counted \cup {i}) <= Cardinality(Instances)
    BY <2>1, <2>3
  <2> QED BY <1>6, <2>1, <2>2, <2>4 DEF LifeInv, RefCount
<1>8. LifeTypeOK'
  <2>1. refs' \in 0..Cardinality(Instances)
    BY <1>2, <1>7, CountedFinite DEF LifeInv
  <2> QED BY <1>2, <1>5, <2>1 DEF LifeInv, LifeTypeOK
<1>9. RejectedStuck'
  BY <1>2, <1>4, <1>5 DEF LifeInv, LifeTypeOK, RejectedStuck
<1>10. OneJob'
  <2>1. \A x \in JobsOf(i) : ~WaitsFor(i, x)'
    BY <1>5 DEF WaitsFor
  <2>2. OthersKeep(i)
    BY <1>2, <1>5 DEF OthersKeep
  <2> HIDE DEF job
  <2> QED BY <1>3, <1>4, <2>1, <2>2, OneJobStep DEF LifeInv
<1>11. RefCount'
  <2>1. timer' # NoInstance /\ refs' > 0
    BY <1>2, <1>7, LifecycleAssumption DEF LifeInv, RefCount
  <2> QED BY <1>2, <1>7, <2>1 DEF RefCount
<1> QED BY <1>4, <1>8, <1>9, <1>10, <1>11 DEF LifeInv

LEMMA StoppedStep ==
  ASSUME NEW S, NEW O, PoolTyped(S, O), LifeInv, NEW i \in Instances, Stopped(i)
  PROVE  LifeInv' /\ PoolTyped(S, O)'
<1> DEFINE job == ShutdownJob(i)
<1>1. PICK outcome \in Outcomes \ {"error"} : CallBack(job, outcome)
  BY DEF Stopped
<1>2. /\ status' = [status EXCEPT ![i] = "STOPPED"]
      /\ refs' = refs - 1
      /\ timer' = IF refs - 1 = 0 THEN NoInstance ELSE timer
      /\ UNCHANGED <<native, rejected, starts>>
  BY DEF Stopped
<1>3. job \in JobsOf(i) /\ job # StartJob(i)
  BY JobsDistinct DEF JobsOf
<1>4. /\ PoolTyped(S, O)' /\ \A x : x # job => PoolKeeps(x)
      /\ ~InPool(job)' /\ OnePlace(job)'
      /\ i \notin rejected /\ status[i] = "STOPPING"
      /\ \A x \in JobsOf(i) \ {job} : ~WaitsFor(i, x)
  <2> HIDE DEF job
  <2>1. status[i] = IF job = StartJob(i) THEN "STARTING" ELSE "STOPPING"
    BY <1>1, <1>3, AnsweredJob
  <2> QED BY <1>1, <1>3, <2>1, AnsweredJob
<1>5. /\ status \in [Instances -> Statuses] /\ status' \in [Instances -> Statuses]
      /\ status'[i] = "STOPPED"
  BY <1>2 DEF LifeInv, LifeTypeOK, Statuses
<1>6. Counted' = Counted \ {i} /\ i \in Counted
  BY <1>2, <1>4, <1>5 DEF Counted
<1>7. refs \in Nat /\ refs > 0 /\ Cardinality(Counted') = refs - 1
  <2>1. Cardinality(Counted \ {i}) = Cardinality(Counted) - 1 /\ Cardinality(Counted \ {i}) \in Nat
    BY <1>6, CountedFinite, FS_RemoveElement, FS_CardinalityType DEF LifeInv
  <2> QED BY <1>6, <2>1, CountedFinite DEF LifeInv, RefCount
<1>8. LifeTypeOK'
  <2>1. refs' \in 0..Cardinality(Instances)
    BY <1>2, <1>7, CountedFinite DEF LifeInv, LifeTypeOK
  <2> QED BY <1>2, <1>5, <2>1 DEF LifeInv, LifeTypeOK
<1>9. RejectedStuck'
  BY <1>2, <1>4, <1>5 DEF LifeInv, LifeTypeOK, RejectedStuck
<1>10. OneJob'
  <2>1. \A x \in JobsOf(i) : ~WaitsFor(i, x)'
    BY <1>5 DEF WaitsFor
  <2>2. OthersKeep(i)
    BY <1>2, <1>5 DEF OthersKeep
  <2> HIDE DEF job
  <2> QED BY <1>3, <1>4, <2>1, <2>2, OneJobStep DEF LifeInv
<1>11. RefCount'
  <2>1. timer # NoInstance
    BY <1>7 DEF LifeInv, RefCount
  <2> QED BY <1>2, <1>7, <2>1 DEF RefCount
<1> QED BY <1>4, <1>8, <1>9, <1>10, <1>11 DEF LifeInv

LEMMA ExecuteStep ==
  ASSUME NEW S, NEW O, Outcomes \subseteq O, PoolTyped(S, O), LifeInv, NEW i \in Instances,
         ExecuteStart(i) \/ ExecuteShutdown(i)
  PROVE  LifeInv' /\ PoolTyped(S, O)'
<1>1. PICK job \in JobsOf(i), outcome \in Outcomes : ExecuteReturns(job, outcome)
  BY DEF ExecuteStart, ExecuteShutdown, JobsOf
<1>2. PoolTyped(S, O)' /\ \A x : PoolKeeps(x)
  BY <1>1, ReturnStep
<1>3. UNCHANGED <<status, refs, timer, rejected, starts>>
  BY DEF ExecuteStart, ExecuteShutdown
<1>4. native' \in [Instances -> {"down", "up"}]
  BY DEF ExecuteStart, ExecuteShutdown, LifeInv, LifeTypeOK
<1> QED BY <1>2, <1>3, <1>4, OtherStep

LEMMA LifeTakeStep ==
  ASSUME NEW S, NEW O, PoolTyped(S, O), LifeInv, Take
  PROVE  LifeInv' /\ PoolTyped(S, O)'
<1>1. PoolTyped(S, O)' /\ \A x : PoolKeeps(x)
  BY TakeStep DEF Take
<1>2. UNCHANGED <<status, refs, timer, rejected, starts>> /\ native' \in [Instances -> {"down", "up"}]
  BY DEF Take, lifeVars, LifeInv, LifeTypeOK
<1> QED BY <1>1, <1>2, OtherStep

-----------------------------------------------------------------------------
(* What the steps of the lifecycle do to jobs, in the terms the two classes *)
(* need.                                                                    *)

(* start() and shutdown() put a job of their own object on the pool. *)
LEMMA CallsQueueOwnJob ==
  ASSUME NEW S, NEW O, LifeJobs \subseteq S, PoolTyped(S, O), NEW i \in Instances,
         Start(i) \/ Shutdown(i)
  PROVE  /\ \A x : x \notin JobsOf(i) => PoolKeeps(x)
         /\ UNCHANGED <<timer, native, finished>>
<1>1. PICK job \in JobsOf(i) : AsyncQueueWorker(job)
  BY DEF Start, Shutdown, JobsOf
<1>2. job \in S
  BY DEF LifeJobs
<1>3. \A x : x # job => PoolKeeps(x)
  BY <1>1, <1>2, QueueStep
<1> QED BY <1>1, <1>3 DEF Start, Shutdown, AsyncQueueWorker

InnerStep == Take \/ \E i \in Instances : ExecuteStart(i) \/ ExecuteShutdown(i) \/ Settle(i)

(* Every other step leaves the jobs of other kinds where they are and adds  *)
(* none, and the interval belongs to an object whose start is answered.     *)
LEMMA InnerStepsAddNoJob ==
  ASSUME NEW S, NEW O, Outcomes \subseteq O, PoolTyped(S, O), InnerStep
  PROVE  /\ \A x : InPool(x)' => InPool(x)
         /\ \A x : x \notin LifeJobs => PoolKeeps(x)
         /\ \A i \in Instances : timer' = i => timer = i \/ InPool(StartJob(i))
<1>1. CASE Take
  <2>1. \A x : PoolKeeps(x)
    BY <1>1, TakeStep DEF Take
  <2> QED BY <1>1, <2>1 DEF Take, lifeVars, PoolKeeps
<1>2. ASSUME NEW i \in Instances, ExecuteStart(i) \/ ExecuteShutdown(i)
      PROVE  (\A x : PoolKeeps(x)) /\ UNCHANGED timer
  <2>1. PICK job \in JobsOf(i), outcome \in Outcomes : ExecuteReturns(job, outcome)
    BY <1>2 DEF ExecuteStart, ExecuteShutdown, JobsOf
  <2>2. \A x : PoolKeeps(x)
    BY <2>1, ReturnStep
  <2> QED BY <1>2, <2>2 DEF ExecuteStart, ExecuteShutdown
<1>3. ASSUME NEW i \in Instances, Settle(i)
      PROVE  /\ \A x : InPool(x)' => InPool(x)
             /\ \A x : x \notin LifeJobs => PoolKeeps(x)
             /\ \A k \in Instances : timer' = k => timer = k \/ InPool(StartJob(k))
  <2>1. ASSUME NEW job \in JobsOf(i), NEW outcome, CallBack(job, outcome)
        PROVE  /\ \A x : InPool(x)' => InPool(x)
               /\ \A x : x \notin LifeJobs => PoolKeeps(x)
               /\ InPool(job)
    <3>1. InPool(job) /\ \A x : x # job => PoolKeeps(x)
      BY <2>1, CallBackStep
    <3>2. job \in LifeJobs
      BY DEF LifeJobs
    <3> QED BY <3>1, <3>2 DEF PoolKeeps
  <2>2. CASE Rejected(i)
    BY <2>1, <2>2 DEF Rejected
  <2>3. CASE Started(i)
    <3>1. StartJob(i) \in JobsOf(i)
      BY DEF JobsOf
    <3>2. timer' = i \/ timer' = timer
      BY <2>3 DEF Started, TimerAtStart
    <3> QED BY <2>1, <2>3, <3>1, <3>2 DEF Started
  <2>4. CASE Stopped(i)
    <3>1. ShutdownJob(i) \in JobsOf(i)
      BY DEF JobsOf
    <3>2. timer' = NoInstance \/ timer' = timer
      BY <2>4 DEF Stopped
    <3> QED BY <2>1, <2>4, <3>1, <3>2, LifecycleAssumption DEF Stopped
  <2> QED BY <1>3, <2>2, <2>3, <2>4 DEF Settle
<1> QED BY <1>1, <1>2, <1>3 DEF InnerStep, PoolKeeps

-----------------------------------------------------------------------------
(* Every step of the lifecycle keeps the invariant. *)
LEMMA LifeStep ==
  ASSUME NEW S, NEW O, LifeJobs \subseteq S, Outcomes \subseteq O, PoolTyped(S, O),
         LifeInv, LifeNext
  PROVE  LifeInv' /\ PoolTyped(S, O)'
<1>1. CASE Take
  BY <1>1, LifeTakeStep
<1>2. ASSUME NEW i \in Instances,
             Start(i) \/ Shutdown(i) \/ ExecuteStart(i) \/ ExecuteShutdown(i) \/ Settle(i)
      PROVE  LifeInv' /\ PoolTyped(S, O)'
  BY <1>2, StartStep, ShutdownStep, ExecuteStep, RejectedStep, StartedStep, StoppedStep DEF Settle
<1> QED BY <1>1, <1>2 DEF LifeNext

LEMMA LifeStarts ==
  ASSUME NEW S, NEW O, LifeInit
  PROVE  LifeInv /\ PoolTyped(S, O)
<1>1. PoolTyped(S, O) /\ \A x : ~InPool(x) /\ OnePlace(x)
  BY DEF LifeInit, PoolInit, PoolTyped, InPool, OnePlace, Queued, Finished
<1>2. Counted = {} /\ Cardinality(Counted) = 0
  BY FS_EmptySet DEF LifeInit, Counted
<1>3. Cardinality(Instances) \in Nat
  BY LifecycleAssumption, FS_CardinalityType
<1>4. LifeTypeOK /\ RejectedStuck
  BY <1>3, LifecycleAssumption DEF LifeInit, LifeTypeOK, RejectedStuck, Statuses
<1>5. OneJob
  BY <1>1 DEF LifeInit, OneJob, WaitsFor
<1>6. RefCount
  BY <1>2 DEF LifeInit, RefCount
<1> QED BY <1>1, <1>4, <1>5, <1>6 DEF LifeInv

(* One class by itself keeps the invariant for ever. *)
THEOREM LifecycleInvariant == LifeSpec => []LifeInv
<1> DEFINE I == LifeInv /\ PoolTyped(LifeJobs, Outcomes)
<1>1. LifeInit => I
  BY LifeStarts
<1>2. I /\ [LifeNext]_<<poolVars, lifeVars>> => I'
  <2>1. I /\ LifeNext => I'
    BY LifeStep
  <2>2. ASSUME I, UNCHANGED <<poolVars, lifeVars>> PROVE I'
    <3>1. PoolTyped(LifeJobs, Outcomes)' /\ \A x : PoolKeeps(x)
      BY <2>2, PoolUnchanged
    <3>2. /\ UNCHANGED <<status, refs, timer, rejected, starts>>
          /\ native' \in [Instances -> {"down", "up"}]
      BY <2>2 DEF lifeVars, LifeInv, LifeTypeOK
    <3> QED BY <2>2, <3>1, <3>2, OtherStep
  <2> QED BY <2>1, <2>2
<1>3. I => LifeInv
  OBVIOUS
<1> HIDE DEF I
<1> QED BY <1>1, <1>2, <1>3, PTL DEF LifeSpec

-----------------------------------------------------------------------------
(* The refinement. *)

LEMMA LifeStartsContract == ASSUME LifeInit PROVE Contract!ContractInit
BY DEF LifeInit, Seen, Contract!ContractInit

(* A step of the lifecycle is a move of one object, or none is seen. *)
LEMMA LifeStepImplements ==
  ASSUME NEW S, NEW O, PoolTyped(S, O), LifeInv, LifeNext
  PROVE  Contract!ContractNext \/ Seen' = Seen
<1>1. ASSUME NEW i \in Instances, NEW to \in Contract!States,
             <<Seen[i], to>> \in Contract!Moves, Seen' = [Seen EXCEPT ![i] = to]
      PROVE  Contract!ContractNext
  BY <1>1 DEF Seen, Contract!ContractNext, Contract!Move, Contract!MoveTo
<1>2. CASE Take
  BY <1>2 DEF Take, lifeVars, Seen
<1>3. ASSUME NEW i \in Instances, Start(i) PROVE Contract!ContractNext
  <2>1. status[i] = "STOPPED" /\ status' = [status EXCEPT ![i] = "STARTING"] /\ rejected' = rejected
    BY <1>3 DEF Start, StatusGoes
  <2>2. i \notin rejected /\ status \in [Instances -> Statuses]
    BY <2>1 DEF LifeInv, LifeTypeOK, RejectedStuck
  <2>3. Seen' = [Seen EXCEPT ![i] = "STARTING"] /\ Seen[i] = "STOPPED"
    BY <2>1, <2>2 DEF Seen
  <2> QED BY <1>1, <2>3 DEF Contract!States, Contract!Moves
<1>4. ASSUME NEW i \in Instances, Shutdown(i) PROVE Contract!ContractNext
  <2>1. status[i] = "STARTED" /\ status' = [status EXCEPT ![i] = "STOPPING"] /\ rejected' = rejected
    BY <1>4 DEF Shutdown, StatusGoes
  <2>2. i \notin rejected /\ status \in [Instances -> Statuses]
    BY <2>1 DEF LifeInv, LifeTypeOK, RejectedStuck
  <2>3. Seen' = [Seen EXCEPT ![i] = "STOPPING"] /\ Seen[i] = "STARTED"
    BY <2>1, <2>2 DEF Seen
  <2> QED BY <1>1, <2>3 DEF Contract!States, Contract!Moves
<1>5. ASSUME NEW i \in Instances, ExecuteStart(i) \/ ExecuteShutdown(i) PROVE Seen' = Seen
  BY <1>5 DEF ExecuteStart, ExecuteShutdown, Seen
<1>6. ASSUME NEW i \in Instances, Rejected(i) PROVE Contract!ContractNext
  <2>1. PICK job \in JobsOf(i) : CallBack(job, "error")
    BY <1>6 DEF Rejected
  <2>2. i \notin rejected /\ status[i] \in {"STARTING", "STOPPING"}
    BY <2>1, AnsweredJob
  <2>3. rejected' = rejected \cup {i} /\ status' = status
    BY <1>6 DEF Rejected
  <2>4. Seen' = [Seen EXCEPT ![i] = "FAILED"] /\ Seen[i] \in {"STARTING", "STOPPING"}
    BY <2>2, <2>3 DEF Seen
  <2> QED BY <1>1, <2>4 DEF Contract!States, Contract!Moves
<1>7. ASSUME NEW i \in Instances, Started(i) PROVE Contract!ContractNext
  <2>1. PICK outcome \in Outcomes \ {"error"} : CallBack(StartJob(i), outcome)
    BY <1>7 DEF Started
  <2>2. StartJob(i) \in JobsOf(i)
    BY DEF JobsOf
  <2>3. i \notin rejected /\ status[i] = "STARTING"
    <3> DEFINE job == StartJob(i)
    <3>1. job \in JobsOf(i) /\ CallBack(job, outcome)
      BY <2>1, <2>2
    <3> HIDE DEF job
    <3>2. i \notin rejected /\ status[i] = IF job = StartJob(i) THEN "STARTING" ELSE "STOPPING"
      BY <3>1, AnsweredJob
    <3> QED BY <3>2 DEF job
  <2>4. status' = [status EXCEPT ![i] = "STARTED"] /\ rejected' = rejected
    BY <1>7 DEF Started
  <2>5. Seen' = [Seen EXCEPT ![i] = "STARTED"] /\ Seen[i] = "STARTING"
    BY <2>3, <2>4 DEF Seen, LifeInv, LifeTypeOK
  <2> QED BY <1>1, <2>5 DEF Contract!States, Contract!Moves
<1>8. ASSUME NEW i \in Instances, Stopped(i) PROVE Contract!ContractNext
  <2>1. PICK outcome \in Outcomes \ {"error"} : CallBack(ShutdownJob(i), outcome)
    BY <1>8 DEF Stopped
  <2>2. i \notin rejected /\ status[i] = "STOPPING"
    <3> DEFINE job == ShutdownJob(i)
    <3>1. job \in JobsOf(i) /\ CallBack(job, outcome) /\ job # StartJob(i)
      BY <2>1, JobsDistinct DEF JobsOf
    <3> HIDE DEF job
    <3> QED BY <3>1, AnsweredJob
  <2>3. status' = [status EXCEPT ![i] = "STOPPED"] /\ rejected' = rejected
    BY <1>8 DEF Stopped
  <2>4. Seen' = [Seen EXCEPT ![i] = "STOPPED"] /\ Seen[i] = "STOPPING"
    BY <2>2, <2>3 DEF Seen, LifeInv, LifeTypeOK
  <2> QED BY <1>1, <2>4 DEF Contract!States, Contract!Moves
<1> QED BY <1>2, <1>3, <1>4, <1>5, <1>6, <1>7, <1>8 DEF LifeNext, Settle
===============================================================================
