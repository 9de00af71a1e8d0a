------------------------------- MODULE WorkerPool ------------------------------
(***************************************************************************)
(* The libuv thread pool as Nan::AsyncWorker uses it (external code).      *)
(* Nan::AsyncQueueWorker appends a worker to one queue of the process; a   *)
(* free pool thread takes the oldest and runs Execute(); when Execute()    *)
(* returns, the worker waits for the event loop, which calls               *)
(* HandleOKCallback() or the error callback and destroys it.               *)
(***************************************************************************)
EXTENDS Naturals, Sequences, FiniteSets

CONSTANT PoolSize   \* threads of the pool (UV_THREADPOOL_SIZE)

ASSUME PoolAssumption == PoolSize \in Nat \ {0}

VARIABLES
  queue,      \* jobs no thread has taken yet, oldest first
  running,    \* jobs whose Execute() is running
  finished    \* executed jobs and their outcome, not yet delivered to the loop

poolVars == <<queue, running, finished>>

PoolInit == queue = <<>> /\ running = {} /\ finished = <<>>

AsyncQueueWorker(job) ==
  /\ queue' = Append(queue, job)
  /\ UNCHANGED <<running, finished>>

Queued(job)   == \E k \in DOMAIN queue : queue[k] = job
Finished(job) == \E k \in DOMAIN finished : finished[k].job = job
InPool(job)   == Queued(job) \/ job \in running \/ Finished(job)

(* The job is in the pool once or not at all. *)
OnePlace(job) ==
  /\ \A k, l \in DOMAIN queue : queue[k] = job /\ queue[l] = job => k = l
  /\ \A k, l \in DOMAIN finished : finished[k].job = job /\ finished[l].job = job => k = l
  /\ Queued(job) => job \notin running
  /\ Finished(job) => job \notin running /\ ~Queued(job)

(* Mutant: one job at a time. *)
OneAtATime == running = {}

ThreadFree == Cardinality(running) < PoolSize

PoolThreadTakes ==
  /\ queue # <<>>
  /\ ThreadFree
  /\ running' = running \cup {Head(queue)}
  /\ queue' = Tail(queue)
  /\ UNCHANGED finished

(* Execute() returns; an outcome "error" stands for SetErrorMessage. *)
ExecuteReturns(job, outcome) ==
  /\ job \in running
  /\ running' = running \ {job}
  /\ finished' = Append(finished, [job |-> job, outcome |-> outcome])
  /\ UNCHANGED queue

(* The loop calls the oldest finished worker back. *)
CallBack(job, outcome) ==
  /\ finished # <<>>
  /\ Head(finished) = [job |-> job, outcome |-> outcome]
  /\ finished' = Tail(finished)
  /\ UNCHANGED <<queue, running>>
=============================================================================
