-------------------------------- MODULE Producer -------------------------------
(***************************************************************************)
(* The Producer class: the lifecycle of its objects, send(), and the life  *)
(* of the native object under each JavaScript object, which the garbage    *)
(* collector ends.  A lifecycle call keeps its object reachable through    *)
(* its callback; a send keeps neither its object nor the native producer,  *)
(* which its worker goes on to use.                                        *)
(***************************************************************************)
EXTENDS Lifecycle

CONSTANTS
  Messages,     \* calls of send()
  NoAnswer,     \* the callback of send() has not been called
  UserDrops     \* may user code forget an object with calls in progress?

VARIABLES
  core,      \* the native RocketMQProducer: "unborn", "live", "destroyed"
  held,      \* objects user code still refers to
  sent,      \* messages passed to send()
  answer,    \* what the callback of send() got
  stored,    \* messages a broker has stored
  orphans    \* sends whose native producer was destroyed before they returned

prodVars == <<core, held, sent, answer, stored, orphans>>
vars     == <<poolVars, lifeVars, prodVars>>

(* SEND_RESULT_STATUS_STR, and the name of every other number. *)
SendStatusStr == {"OK", "FLUSH_DISK_TIMEOUT", "FLUSH_SLAVE_TIMEOUT", "SLAVE_NOT_AVAILABLE"}
AnyStatusStr  == SendStatusStr \cup {"UNKNOWN"}

ASSUME ProducerAssumption ==
  /\ UserDrops \in BOOLEAN
  /\ NoAnswer \notin AnyStatusStr \cup {"error"}

SendJob(i, m) == [kind |-> "send", inst |-> i, msg |-> m]

Init ==
  /\ LifeInit
  /\ core   = [i \in Instances |-> "unborn"]
  /\ held   = {}
  /\ sent   = {}
  /\ answer = [m \in Messages |-> NoAnswer]
  /\ stored = {}
  /\ orphans = {}

-----------------------------------------------------------------------------
(* JavaScript and the event loop. *)

(* new Producer(): when SetOptions throws, the constructor does too and     *)
(* leaves a native object nobody refers to.                                 *)
Construct(i) ==
  /\ core[i] = "unborn"
  /\ core' = [core EXCEPT ![i] = "live"]
  /\ held' \in {held, held \cup {i}}
  /\ UNCHANGED <<poolVars, lifeVars, sent, answer, stored, orphans>>

UserCall(i) ==
  /\ i \in held
  /\ Start(i) \/ Shutdown(i)
  /\ UNCHANGED prodVars

(* send(): no assertion on the status. *)
Send(i, m) ==
  /\ i \in held
  /\ m \notin sent
  /\ sent' = sent \cup {m}
  /\ AsyncQueueWorker(SendJob(i, m))
  /\ UNCHANGED <<lifeVars, core, held, answer, stored, orphans>>

LifecycleCallback(i) ==
  /\ Settle(i)
  /\ UNCHANGED prodVars

(* Mutant: the callback does not look at its error. *)
SendCallbackBlind(i, m) ==
  \E outcome \in SendStatusStr \cup {"code", "error"} :
    /\ CallBack(SendJob(i, m), outcome)
    /\ answer' = [answer EXCEPT ![m] = "OK"]
    /\ UNCHANGED <<lifeVars, core, held, sent, stored, orphans>>

(* Mutant: an error answers nobody. *)
SendCallbackSilent(i, m) ==
  \E outcome \in SendStatusStr \cup {"code", "error"} :
    /\ CallBack(SendJob(i, m), outcome)
    /\ answer' = [answer EXCEPT ![m] = IF outcome = "error" THEN @ ELSE outcome]
    /\ UNCHANGED <<lifeVars, core, held, sent, stored, orphans>>

(* The callback of send().  send_ret has no initializer: if SendMessageSync *)
(* returned a failure code instead of filling it, any number may be there.  *)
SendCallback(i, m) ==
  \E outcome \in SendStatusStr \cup {"code", "error"} :
    /\ CallBack(SendJob(i, m), outcome)
    /\ \E a \in IF outcome = "code" THEN AnyStatusStr ELSE {outcome} :
         answer' = [answer EXCEPT ![m] = a]
    /\ UNCHANGED <<lifeVars, core, held, sent, stored, orphans>>

(* The last reference in user code goes. *)
Drop(i) ==
  /\ UserDrops
  /\ i \in held
  /\ held' = held \ {i}
  /\ UNCHANGED <<poolVars, lifeVars, core, sent, answer, stored, orphans>>

(* Mutant: the callbacks of start() and shutdown() do not refer to `this`. *)
ReachableByTimer(i) == i \in held \/ timer = i

(* What keeps the JavaScript object: user code, the callback of a pending   *)
(* start() or shutdown(), and the interval, created inside such a callback. *)
Reachable(i) == i \in held \/ timer = i \/ \E job \in JobsOf(i) : InPool(job)

(* ~RocketMQProducer: ShutdownProducer and DestroyProducer, then the object *)
(* is freed, also under a send() that waits for a thread or has one.        *)
Collect(i) ==
  /\ core[i] = "live"
  /\ ~Reachable(i)
  /\ core' = [core EXCEPT ![i] = "destroyed"]
  /\ native' = [native EXCEPT ![i] = "down"]
  /\ orphans' = orphans \cup
       {m \in Messages : Queued(SendJob(i, m)) \/ SendJob(i, m) \in running}
  /\ UNCHANGED <<poolVars, status, refs, timer, rejected, starts, held, sent, answer, stored>>

-----------------------------------------------------------------------------
(* Pool threads. *)

PoolTakes == Take /\ UNCHANGED prodVars

ExecuteLifecycle(i) ==
  /\ ExecuteStart(i) \/ ExecuteShutdown(i)
  /\ UNCHANGED prodVars

(* SendMessageSync: succeeds on a running client, with one of the statuses; *)
(* a failure may come before or after a broker has stored the message.      *)
ExecuteSend(i, m) ==
  /\ m \notin orphans
  /\ \/ /\ native[i] = "up"
        /\ \E s \in SendStatusStr : ExecuteReturns(SendJob(i, m), s)
        /\ stored' = stored \cup {m}
     \/ /\ \E failure \in Outcomes \ {"ok"} : ExecuteReturns(SendJob(i, m), failure)
        /\ stored' \in {stored, IF native[i] = "up" THEN stored \cup {m} ELSE stored}
  /\ UNCHANGED <<lifeVars, core, held, sent, answer, orphans>>

(* producer->GetProducer() and SendMessageSync on freed memory: undefined.  *)
(* Any result may come back, with or without a message sent (the memory may *)
(* be that of another producer by now), or none: nothing obliges this step, *)
(* and no other where the process dies.                                     *)
ExecuteOrphan(i, m) ==
  /\ m \in orphans
  /\ \E outcome \in SendStatusStr \cup {"code", "error"} : ExecuteReturns(SendJob(i, m), outcome)
  /\ stored' \in {stored, stored \cup {m}}
  /\ UNCHANGED <<lifeVars, core, held, sent, answer, orphans>>

-----------------------------------------------------------------------------
LoopStep(i) == LifecycleCallback(i) \/ \E m \in Messages : SendCallback(i, m)
ThreadStep(i) == ExecuteLifecycle(i) \/ \E m \in Messages : ExecuteSend(i, m)

Next ==
  \/ PoolTakes
  \/ \E i \in Instances :
       \/ Construct(i) \/ UserCall(i) \/ Drop(i) \/ Collect(i)
       \/ LoopStep(i) \/ ThreadStep(i)
       \/ \E m \in Messages : Send(i, m) \/ ExecuteOrphan(i, m)

Spec == Init /\ [][Next]_vars

(* Pool threads take jobs, SendMessageSync and the others return, the loop  *)
(* calls back.  Nobody has to call or to forget anything, and the collector *)
(* may never run.                                                           *)
Fairness ==
  /\ WF_vars(PoolTakes)
  /\ \A i \in Instances :
       /\ WF_vars(ExecuteLifecycle(i)) /\ WF_vars(LoopStep(i))
       /\ \A m \in Messages : WF_vars(ExecuteSend(i, m))

FairSpec == Spec /\ Fairness

-----------------------------------------------------------------------------
TypeOK ==
  /\ LifeTypeOK
  /\ core \in [Instances -> {"unborn", "live", "destroyed"}]
  /\ held \subseteq Instances
  /\ sent \subseteq Messages
  /\ answer \in [Messages -> AnyStatusStr \cup {"error", NoAnswer}]
  /\ stored \subseteq sent /\ orphans \subseteq sent

(* A start or shutdown in progress, and an object the interval belongs to,  *)
(* has its native producer, whatever user code forgets.                     *)
LifecycleJobsLive ==
  \A i \in Instances :
    core[i] # "live" => timer # i /\ \A job \in JobsOf(i) : ~InPool(job)

(* What keeps the event loop of the process alive: the interval and workers *)
(* that wait, run or have finished.                                         *)
LoopIdle == timer = NoInstance /\ queue = <<>> /\ running = {} /\ finished = <<>>

(* The process may end by itself only when no object is started and every   *)
(* send is answered.                                                        *)
ExitOnlyWhenIdle ==
  LoopIdle =>
    /\ \A i \in Instances : status[i] # "STARTED"
    /\ \A m \in sent : answer[m] # NoAnswer

(* README: status 0 is OK.  A callback without error and with a documented  *)
(* status is for a message that a broker has stored, unless the collector   *)
(* took the producer before the send returned.                              *)
SendOkIsStored ==
  \A m \in Messages \ orphans : answer[m] \in SendStatusStr => m \in stored

(* From the first send on freed memory on nothing can be promised. *)
Unorphaned == orphans = {}

(* Every start() and shutdown() is answered, unless a send has lost its     *)
(* producer: such a send may keep its thread or end the process.            *)
EveryCallSettles ==
  \A i \in Instances : status[i] \in {"STARTING", "STOPPING"} ~> Settled(i) \/ ~Unorphaned

(* Likewise every send, once its object was started or not, and whatever    *)
(* happens to the object as long as the collector leaves it.                *)
EverySendAnswered == \A m \in Messages : m \in sent ~> answer[m] # NoAnswer \/ ~Unorphaned
=============================================================================
