------------------------------ MODULE PushConsumer -----------------------------
(***************************************************************************)
(* The PushConsumer class: the lifecycle of its objects, the process-wide  *)
(* map from C++ consumers to native objects, the life of those objects,    *)
(* and the messages their consume threads bring.  How one message crosses  *)
(* to the event loop and back is the subject of PushDelivery; here it is   *)
(* the ConsumeContract that PushDelivery's rendezvous implements.          *)
(***************************************************************************)
EXTENDS Lifecycle

CONSTANTS
  Addresses,         \* values a CPushConsumer* can have
  NoAddress,
  Calls,             \* invocations of OnMessage
  Unset,             \* no verdict yet
  UserDrops,         \* may user code forget an object?
  ListenerUsesPool   \* does the listener wait for pool work, as producer.send()?

Verdicts == {"E_CONSUME_SUCCESS", "E_RECONSUME_LATER"}

ASSUME ConsumerAssumption ==
  /\ NoAddress \notin Addresses
  /\ Unset \notin Verdicts
  /\ UserDrops \in BOOLEAN
  /\ ListenerUsesPool \in BOOLEAN

VARIABLES
  core,         \* the native RocketMQPushConsumer: "unborn", "live", "destroyed"
  addr,         \* its consumer_ptr
  map,          \* _push_consumer_map; NoInstance where there is no entry
  wired,        \* objects whose constructor got as far as setListener
  held,         \* objects user code still refers to
  subscribed,   \* objects with a subscription
  owner,        \* the C++ consumer that invoked OnMessage
  target,       \* the native object the map gave
  forgotten,    \* messages whose ack.done() will never be called
  phase, verdict, report   \* see ConsumeContract

objVars  == <<core, addr, map, wired, held, subscribed>>
callVars == <<owner, target, forgotten, phase, verdict, report>>
vars     == <<poolVars, lifeVars, objVars, callVars>>

Consume == INSTANCE ConsumeContract

Init ==
  /\ LifeInit
  /\ core = [i \in Instances |-> "unborn"]
  /\ addr = [i \in Instances |-> NoAddress]
  /\ map = [a \in Addresses |-> NoInstance]
  /\ wired = {} /\ held = {} /\ subscribed = {}
  /\ owner = [c \in Calls |-> NoInstance]
  /\ target = [c \in Calls |-> NoInstance]
  /\ forgotten = {}
  /\ Consume!ContractInit

CallsOf(i)     == {c \in Calls : owner[c] = i}
OpenCallsOf(i) == {c \in CallsOf(i) : phase[c] # "reported"}

-----------------------------------------------------------------------------
(* JavaScript and the event loop. *)

(* Mutant: an entry that is already in the map is kept. *)
MapEntryKept(a, i) == IF map[a] = NoInstance THEN i ELSE map[a]

(* _push_consumer_map[consumer_ptr] = this *)
MapEntry(a, i) == i

(* new PushConsumer(): allocate the C++ consumer, enter it in the map, set  *)
(* the options, set the listener.  When SetOptions throws, the constructor  *)
(* does too, before the listener is set.                                    *)
Construct(i) ==
  /\ core[i] = "unborn"
  /\ core' = [core EXCEPT ![i] = "live"]
  /\ \E a \in Addresses \ {addr[k] : k \in Instances} :
       /\ addr' = [addr EXCEPT ![i] = a]
       /\ map' = [map EXCEPT ![a] = MapEntry(a, i)]
  /\ \E made \in SUBSET {i} : wired' = wired \cup made /\ held' = held \cup made
  /\ UNCHANGED <<poolVars, lifeVars, subscribed, callVars>>

(* subscribe(): only while stopped; the C++ client may throw instead. *)
Subscribe(i) ==
  /\ i \in held
  /\ status[i] = "STOPPED"
  /\ subscribed' = subscribed \cup {i}
  /\ UNCHANGED <<poolVars, lifeVars, core, addr, map, wired, held, callVars>>

UserCall(i) ==
  /\ i \in held
  /\ Start(i) \/ Shutdown(i)
  /\ UNCHANGED <<objVars, callVars>>

LifecycleCallback(i) ==
  /\ Settle(i)
  /\ UNCHANGED <<objVars, callVars>>

Drop(i) ==
  /\ UserDrops
  /\ i \in held
  /\ held' = held \ {i}
  /\ UNCHANGED <<poolVars, lifeVars, core, addr, map, wired, subscribed, callVars>>

(* Mutant: the listener is not held by a persistent handle. *)
ReachableByUser(i) == i \in held

(* listener_func is persistent and bound to the object: once the listener   *)
(* is set the object is never collected, whatever else lets go of it.       *)
Reachable(i) == i \in held \/ i \in wired

(* ~RocketMQPushConsumer: the map entry goes unless ShutdownPushConsumer    *)
(* throws; the address is free again in any case.                           *)
Collect(i) ==
  /\ core[i] = "live"
  /\ ~Reachable(i)
  /\ core' = [core EXCEPT ![i] = "destroyed"]
  /\ native' = [native EXCEPT ![i] = "down"]
  /\ map' \in {map, [map EXCEPT ![addr[i]] = NoInstance]}
  /\ addr' = [addr EXCEPT ![i] = NoAddress]
  /\ UNCHANGED <<poolVars, status, refs, timer, rejected, starts, wired, held, subscribed, callVars>>

WorkJob(c) == [kind |-> "work", call |-> c]

(* The "message" event.  There may be no listener, or it throws or loses    *)
(* its ack; else it starts what it has to do first, if it is pool work.     *)
Emit(c) ==
  /\ Consume!Offer(c)
  /\ \/ forgotten' = forgotten \cup {c} /\ UNCHANGED poolVars
     \/ /\ IF ListenerUsesPool THEN AsyncQueueWorker(WorkJob(c)) ELSE UNCHANGED poolVars
        /\ UNCHANGED forgotten
  /\ UNCHANGED <<lifeVars, objVars, owner, target>>

(* ack.done() *)
Done(c) ==
  /\ c \notin forgotten
  /\ Consume!Decide(c)
  /\ IF ListenerUsesPool THEN CallBack(WorkJob(c), "ok") ELSE UNCHANGED poolVars
  /\ UNCHANGED <<lifeVars, objVars, owner, target, forgotten>>

-----------------------------------------------------------------------------
(* Consume threads. *)

(* The C++ client of i calls OnMessage, which looks its consumer up (a      *)
(* message whose consumer is not found is refused and leaves no trace here). *)
OnMessage(c, i) ==
  /\ native[i] = "up"
  /\ i \in subscribed
  /\ ShutdownJob(i) \notin running
  /\ addr[i] # NoAddress /\ map[addr[i]] # NoInstance
  /\ Consume!Hand(c)
  /\ owner' = [owner EXCEPT ![c] = i]
  /\ target' = [target EXCEPT ![c] = map[addr[i]]]
  /\ UNCHANGED <<poolVars, lifeVars, objVars, forgotten>>

Return(c) ==
  /\ Consume!Report(c)
  /\ UNCHANGED <<poolVars, lifeVars, objVars, owner, target, forgotten>>

-----------------------------------------------------------------------------
(* Pool threads. *)

PoolTakes == Take /\ UNCHANGED <<objVars, callVars>>

(* Mutant: ShutdownPushConsumer does not wait for its consume threads. *)
NoJoin(i) == TRUE

(* ShutdownPushConsumer joins the consume threads of its client. *)
ThreadsJoined(i) == OpenCallsOf(i) = {}

ExecuteLifecycle(i) ==
  /\ ExecuteStart(i) \/ (ExecuteShutdown(i) /\ ThreadsJoined(i))
  /\ UNCHANGED <<objVars, callVars>>

ExecuteWork(c) ==
  /\ ExecuteReturns(WorkJob(c), "ok")
  /\ UNCHANGED <<lifeVars, objVars, callVars>>

-----------------------------------------------------------------------------
Next ==
  \/ PoolTakes
  \/ \E i \in Instances :
       \/ Construct(i) \/ Subscribe(i) \/ UserCall(i) \/ LifecycleCallback(i)
       \/ Drop(i) \/ Collect(i) \/ ExecuteLifecycle(i)
       \/ \E c \in Calls : OnMessage(c, i)
  \/ \E c \in Calls : Emit(c) \/ Done(c) \/ Return(c) \/ ExecuteWork(c)

Spec == Init /\ [][Next]_vars

(* Threads and loop run, C functions return, and a listener that keeps its  *)
(* ack calls done().  Nobody has to construct, start, shut down or forget   *)
(* anything.                                                                *)
Fairness ==
  /\ WF_vars(PoolTakes)
  /\ \A i \in Instances : WF_vars(ExecuteLifecycle(i)) /\ WF_vars(LifecycleCallback(i))
  /\ \A c \in Calls :
       WF_vars(Emit(c)) /\ WF_vars(Done(c)) /\ WF_vars(Return(c)) /\ WF_vars(ExecuteWork(c))

FairSpec == Spec /\ Fairness

-----------------------------------------------------------------------------
TypeOK ==
  /\ LifeTypeOK
  /\ core \in [Instances -> {"unborn", "live", "destroyed"}]
  /\ addr \in [Instances -> Addresses \cup {NoAddress}]
  /\ map \in [Addresses -> Instances \cup {NoInstance}]
  /\ held \subseteq wired /\ wired \subseteq Instances
  /\ subscribed \subseteq wired
  /\ owner \in [Calls -> Instances \cup {NoInstance}]
  /\ target \in [Calls -> Instances \cup {NoInstance}]
  /\ forgotten \subseteq Calls
  /\ phase \in [Calls -> Consume!Phases]
  /\ verdict \in [Calls -> Verdicts \cup {Unset}]

(* The map leads every C++ consumer to its own native object, also when its *)
(* address was that of a consumer whose entry the destructor left behind.   *)
MapFindsConsumer == \A i \in Instances : core[i] = "live" => map[addr[i]] = i

(* A message in progress is at the consumer it was meant for, and that      *)
(* consumer has its native object.                                          *)
CallsHaveConsumer ==
  \A i \in Instances, c \in Calls :
    c \in OpenCallsOf(i) => target[c] = i /\ core[i] = "live"

(* Once shutdown() is answered no listener is owed an answer or a message.  *)
ShutdownDrains == \A i \in Instances : status[i] = "STOPPED" => OpenCallsOf(i) = {}

(* A shutdown holds a pool thread until its listeners have answered, and    *)
(* those may wait for pool work.  With as many consumers shutting down as   *)
(* there are threads nobody goes on.                                        *)
PoolHasRoom == Cardinality(Instances) < PoolSize

(* On a pool with more threads than consumers every message handed to       *)
(* OnMessage is answered to the C++ client, unless user code never answers  *)
(* it.                                                                      *)
EveryMessageAnswered ==
  PoolHasRoom =>
    \A c \in Calls : phase[c] # "idle" ~> phase[c] = "reported" \/ c \in forgotten

(* WaitResult has no timeout: a message nobody answers blocks its thread    *)
(* and the shutdown of its own consumer for ever.  On such a pool it blocks *)
(* nothing else: the other consumers still start and shut down.             *)
OnlyOwnMessagesBlock ==
  PoolHasRoom =>
    \A i \in Instances :
      status[i] \in {"STARTING", "STOPPING"} ~> Settled(i) \/ CallsOf(i) \cap forgotten # {}
=============================================================================
