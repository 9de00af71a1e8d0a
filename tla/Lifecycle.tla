------------------------------- MODULE Lifecycle -------------------------------
(***************************************************************************)
(* start() and shutdown() of the classes RocketMQProducer and              *)
(* RocketMQPushConsumer: the status field of each object, the worker it    *)
(* queues on the thread pool, the callback, and the counter and 24-hour    *)
(* timer all objects of a class share to keep the process alive.  The two  *)
(* classes have the same code, each with its own counter and timer; this   *)
(* module is one class with all its objects.                               *)
(***************************************************************************)
EXTENDS WorkerPool

CONSTANTS
  Instances,     \* objects of the class
  NoInstance,    \* no object
  MaxStarts,     \* bound: accepted start() calls of each object
  FailureCodes   \* may the C API report a failure by its return value?

ASSUME LifecycleAssumption ==
  /\ IsFiniteSet(Instances)
  /\ NoInstance \notin Instances
  /\ MaxStarts \in Nat
  /\ FailureCodes \in BOOLEAN

VARIABLES
  status,     \* this.status
  refs,       \* producerRef
  timer,      \* the object whose callback set the interval, or NoInstance
  native,     \* is the C++ client of the object running?
  rejected,   \* objects whose last start() or shutdown() was answered by an error
  starts      \* accepted start() calls

lifeVars == <<status, refs, timer, native, rejected, starts>>

Statuses == {"STOPPED", "STARTING", "STARTED", "STOPPING"}

(* The C function succeeds, returns a failure code or throws. *)
Outcomes == {"ok", "error"} \cup (IF FailureCodes THEN {"code"} ELSE {})

StartJob(i)    == [kind |-> "start", inst |-> i]
ShutdownJob(i) == [kind |-> "shutdown", inst |-> i]
JobsOf(i)      == {StartJob(i), ShutdownJob(i)}

LifeInit ==
  /\ PoolInit
  /\ status   = [i \in Instances |-> "STOPPED"]
  /\ refs     = 0
  /\ timer    = NoInstance
  /\ native   = [i \in Instances |-> "down"]
  /\ rejected = {}
  /\ starts   = [i \in Instances |-> 0]

StatusGoes(i, from, to) ==
  /\ status[i] = from
  /\ status' = [status EXCEPT ![i] = to]

-----------------------------------------------------------------------------
(* JavaScript. *)

(* Mutant: start() does not assert that the object is stopped. *)
StartUnchecked(i) ==
  /\ starts[i] < MaxStarts
  /\ status' = [status EXCEPT ![i] = "STARTING"]
  /\ starts' = [starts EXCEPT ![i] = @ + 1]
  /\ AsyncQueueWorker(StartJob(i))
  /\ UNCHANGED <<refs, timer, native, rejected>>

(* start(): an object that is not stopped throws AssertionError and is left *)
(* alone.                                                                   *)
Start(i) ==
  /\ starts[i] < MaxStarts
  /\ StatusGoes(i, "STOPPED", "STARTING")
  /\ starts' = [starts EXCEPT ![i] = @ + 1]
  /\ AsyncQueueWorker(StartJob(i))
  /\ UNCHANGED <<refs, timer, native, rejected>>

(* Mutant: shutdown() does not assert that the object is started. *)
ShutdownUnchecked(i) ==
  /\ status' = [status EXCEPT ![i] = "STOPPING"]
  /\ AsyncQueueWorker(ShutdownJob(i))
  /\ UNCHANGED <<refs, timer, native, rejected, starts>>

(* shutdown(): likewise for an object that is not started. *)
Shutdown(i) ==
  /\ StatusGoes(i, "STARTED", "STOPPING")
  /\ AsyncQueueWorker(ShutdownJob(i))
  /\ UNCHANGED <<refs, timer, native, rejected, starts>>

(* Mutant: an error answers nobody. *)
RejectedSilently(i) ==
  /\ \E job \in JobsOf(i) : CallBack(job, "error")
  /\ UNCHANGED lifeVars

(* The callback with an error: reject, and nothing else. *)
Rejected(i) ==
  /\ \E job \in JobsOf(i) : CallBack(job, "error")
  /\ rejected' = rejected \cup {i}
  /\ UNCHANGED <<status, refs, timer, native, starts>>

(* Mutant: the counter is incremented before it is tested. *)
TimerAtStartLate(i) == IF refs = 1 THEN i ELSE timer

TimerAtStart(i) == IF refs = 0 THEN i ELSE timer

(* Mutant: the callback of start() does not look at its error. *)
StartedAnyway(i) ==
  /\ \E outcome \in Outcomes : CallBack(StartJob(i), outcome)
  /\ status' = [status EXCEPT ![i] = "STARTED"]
  /\ timer' = TimerAtStart(i)
  /\ refs' = refs + 1
  /\ UNCHANGED <<native, rejected, starts>>

(* The callback of start(): any return value of the C function is success. *)
Started(i) ==
  /\ \E outcome \in Outcomes \ {"error"} : CallBack(StartJob(i), outcome)
  /\ status' = [status EXCEPT ![i] = "STARTED"]
  /\ timer' = TimerAtStart(i)
  /\ refs' = refs + 1
  /\ UNCHANGED <<native, rejected, starts>>

(* The callback of shutdown(). *)
Stopped(i) ==
  /\ \E outcome \in Outcomes \ {"error"} : CallBack(ShutdownJob(i), outcome)
  /\ status' = [status EXCEPT ![i] = "STOPPED"]
  /\ refs' = refs - 1
  /\ timer' = IF refs - 1 = 0 THEN NoInstance ELSE timer
  /\ UNCHANGED <<native, rejected, starts>>

-----------------------------------------------------------------------------
(* Pool threads: Execute() of the two StartOrShutdown workers. *)

Take ==
  /\ PoolThreadTakes
  /\ UNCHANGED lifeVars

(* StartProducer or StartPushConsumer: up only if it succeeds. *)
ExecuteStart(i) ==
  \E outcome \in Outcomes :
    /\ ExecuteReturns(StartJob(i), outcome)
    /\ native' = [native EXCEPT ![i] = IF outcome = "ok" THEN "up" ELSE @]
    /\ UNCHANGED <<status, refs, timer, rejected, starts>>

(* ShutdownProducer or ShutdownPushConsumer: a failure may come before or   *)
(* after the client has stopped.                                            *)
ExecuteShutdown(i) ==
  \E outcome \in Outcomes :
    /\ ExecuteReturns(ShutdownJob(i), outcome)
    /\ \E n \in IF outcome = "ok" THEN {"down"} ELSE {"down", native[i]} :
         native' = [native EXCEPT ![i] = n]
    /\ UNCHANGED <<status, refs, timer, rejected, starts>>

-----------------------------------------------------------------------------
Settle(i) == Rejected(i) \/ Started(i) \/ Stopped(i)

LifeNext ==
  \/ Take
  \/ \E i \in Instances :
       Start(i) \/ Shutdown(i) \/ ExecuteStart(i) \/ ExecuteShutdown(i) \/ Settle(i)

LifeSpec == LifeInit /\ [][LifeNext]_<<poolVars, lifeVars>>

LifeTypeOK ==
  /\ status \in [Instances -> Statuses]
  /\ refs \in 0..Cardinality(Instances)
  /\ timer \in Instances \cup {NoInstance}
  /\ native \in [Instances -> {"down", "up"}]
  /\ rejected \subseteq Instances
  /\ starts \in [Instances -> 0..MaxStarts]

(* Started, or being shut down (a failed shutdown included). *)
Counted == {i \in Instances : status[i] \in {"STARTED", "STOPPING"}}

(* producerRef counts the objects that are started or being shut down, and  *)
(* the interval that keeps the process alive is set exactly while there is  *)
(* one: no order of calls, answers and failures loses or doubles an update. *)
RefCount ==
  /\ refs = Cardinality(Counted)
  /\ timer # NoInstance <=> refs > 0

(* The status i has while job is in the pool. *)
WaitsFor(i, job) ==
  /\ i \notin rejected
  /\ status[i] = IF job = StartJob(i) THEN "STARTING" ELSE "STOPPING"

(* The C client of an object never has two start or shutdown calls at once: *)
(* the pool holds exactly the job the status waits for, in one place.       *)
OneJob ==
  \A i \in Instances : \A job \in JobsOf(i) :
    OnePlace(job) /\ (InPool(job) <=> WaitsFor(i, job))

(* When failures are thrown, an idle object tells whether its client runs. *)
StatusTellsNative ==
  \A i \in Instances :
    /\ status[i] = "STARTED" => native[i] = "up"
    /\ status[i] = "STOPPED" => native[i] = "down"

(* The last start() or shutdown() is answered. *)
Settled(i) == status[i] \in {"STARTED", "STOPPED"} \/ i \in rejected

(* What the contract sees of an object. *)
Seen == [i \in Instances |-> IF i \in rejected THEN "FAILED" ELSE status[i]]

Contract == INSTANCE InstanceContract WITH state <- Seen

(* Each step of the lifecycle is one move of one object or none. *)
ImplementsInstanceContract == Contract!ContractSpec
=============================================================================
