# Formal models of rocketmq-client-nodejs

TLA+ modules that model the Node.js client of RocketMQ (`src/`), TLC
configurations that check them on small instances, and TLAPS proofs of the
properties that matter most. `PROJECT.json` lists the components, the runs, the
mutants of the code that each property catches, the map from every definition
to the source lines it stands for, the hazards, the findings and the theorems.

    tlc -workers 4 -config PushDeliveryLive.cfg MCPushDelivery.tla
    tlapm PushDelivery_proof.tla

## 1. The system

A JavaScript class per role (`lib/producer.js`, `lib/push_consumer.js`) wraps a
native object (`src/producer.cpp`, `src/push_consumer.cpp`), which wraps an
object of the RocketMQ C++ client. Four kinds of thread meet:

* the **event-loop thread** runs all JavaScript, the callbacks of finished
  workers, `HandleMessageInEventLoop` and the garbage collector;
* the **libuv pool threads** run `Execute()` of the three workers (start or
  shutdown of each class, send);
* the **consume threads** of the C++ client (option `threadCount`) call
  `OnMessage` and block in it until JavaScript answers;
* the C++ client's other threads, which are outside the repository.

### Inventory

| component | state it keeps | operations | interacts with |
|---|---|---|---|
| `ConsumerAckInner` | `mutex`, `cond`, `acked`, `status` (uninitialised) | constructor, `Ack`, `WaitResult`, destructor | consume thread that owns it, event loop that acks |
| `ConsumerAck` (the JS `ack`) | `inner`, a pointer into `OnMessage`'s frame | `SetInner`, `done`, destructor | `ConsumerAckInner`, user code |
| `OnMessage` and `HandleMessageInEventLoop` | one `uv_async_t` and one `MessageHandlerParam` per invocation; `_push_consumer_map` | invocation, `uv_async_init`, `uv_async_send`, handling, `close_async_done` | C++ client, event loop, the listener |
| start/shutdown (both classes) | `this.status`; `producerRef` and `timer` shared by the class | `start`, `shutdown`, worker `Execute`, callback | pool, C client, the process's lifetime |
| producer | native object, `producer_ptr` | `new`, `send`, worker, callback, destructor | pool, C client, garbage collector |
| push consumer | native object, `consumer_ptr`, persistent `listener_func`, map entry | `new`, `subscribe`, `setListener`, destructor | map, consume threads, pool, garbage collector |
| installation scripts | `writeTimes`, the streams, `urls` | ask, pipe, finish, error, exit | `npm install`, the network, the disk |
| options, message fields | none after construction | conversions of `SetOptions`, columns of a message | C client |
| examples (`npm test`) | `msgs` of the consumer script | send `messageCount` messages; receive, compare, shut down, exit | both classes, a broker |

### What is hard, and what correctness means

* **Rendezvous.** `ack.done()` may come before, during or after `WaitResult`.
  No wakeup may be lost, no status invented, and the JavaScript object, which
  lives longer than the stack frame it points to, must never reach a dead frame.
* **Delivery.** `async->data` points into a stack frame of another thread. The
  frame has to outlive every dispatch of the handle; every handle must be freed;
  no message may be lost between the consume thread and the listener. Two
  operations are used outside their thread: `uv_async_init` (not thread-safe)
  and `_push_consumer_map` (no lock).
* **Lifecycle.** Calls come in any order, answers later, failures as exceptions
  or as return codes that nobody reads. Counter and timer are shared. The C
  client must see one call at a time, every accepted call must be answered, and
  the process may not end while something is started or unanswered.
* **Collection.** The collector ends native objects that workers, consume
  threads or the map may still refer to.
* **Shutdown.** `ShutdownPushConsumer` holds a pool thread until the consume
  threads are done, and these wait for listeners, which may wait for the pool.
* **Installation.** Downloads run beside the coroutine that starts them, and
  some errors reach `process.exit(4)` and some reach nobody.
* **Conversions.** An option has two places in the call, a name or a number, a
  default, and a width; a text loses what follows its first NUL.
* **Examples.** `npm test` ends the consumer from inside its own listener, counts
  messages a broker may deliver twice, and leaves rejections to Node.js.

Every place where such a thing bites is a hazard in `PROJECT.json`, with the
properties that would see it go wrong.

## 2. The modules

    ConsumeContract <--implements-- ConsumerAck <--EXTENDS-- PushDelivery
      ^    ^
      |    +---------------INSTANCE-----------------+
      |                                             |
      |  WorkerPool <--EXTENDS-- Lifecycle <--EXTENDS-- PushConsumer
      |                             |     \--EXTENDS-- Producer
      |                             \--implements--> InstanceContract
      |                                                   ^
      +------------------INSTANCE--- ExampleTest ---------+

    System --EXTENDS--> PushConsumer,  System --INSTANCE--> Producer

    DistroRoute <--EXTENDS-- InstallScript              Conversions

Proofs are in modules of their own, `X_proof` beside `X`; those of the rendezvous are
in `PushDelivery_proof`, those of the pool in `Lifecycle_proof`, which `Producer_proof`
and `PushConsumer_proof` EXTEND. `System_proof` EXTENDS `PushConsumer_proof` and takes
`Producer_proof` by INSTANCE, as `System` does with the modules they are about.

| module | stands for | state and actions |
|---|---|---|
| `ConsumeContract` | what a consume thread is promised about one message | phases idle, handed, offered, decided, reported; the verdict reported is the one decided |
| `ConsumerAck` | `consumer_ack_inner.{h,cpp}`, `consumer_ack.{h,cpp}` | `waiter` and `acker` are the program counters of the consume thread (`Construct`, `WaitLock`, `WaitCheck`, `WaitRelock`, `WaitReturn`, `FrameExit`) and of the loop (`Done`, `AckLock`, `AckSet`, `AckUnlock`, `AckClear`); `mutex`, `acked`, `status` are the fields; `ackObj` is `inner` of the JavaScript object |
| `PushDelivery` | `OnMessage`, `HandleMessageInEventLoop`, `close_async_done` | `async` follows each `uv_async_t`; `registered` holds the handles the loop finds in its queue, `links` tells whether the queue is whole, cut off or leads into freed memory, `touched` what has changed while a `uv_async_init` runs; `mapEntry` and `inserting` are `_push_consumer_map` |
| `WorkerPool` | libuv's pool and `Nan::AsyncWorker` (external) | `queue`, `running`, `finished` |
| `Lifecycle` | `start`, `shutdown` and `[START_OR_SHUTDOWN]` of both classes with their workers | `status`, `refs` (`producerRef`), `timer`; `native` is what the C client really does |
| `InstanceContract` | the life of one object as its user sees it | STOPPED, STARTING, STARTED, STOPPING, FAILED |
| `Producer` | `lib/producer.js`, `producer.cpp`, `send_message.h` | `core` is the native object, `held` what user code refers to; `Send`, `ExecuteSend`, `SendCallback`, `Collect`; `orphans` are sends whose producer was collected before they returned, `ExecuteOrphan` what becomes of them |
| `PushConsumer` | `lib/push_consumer.js`, `push_consumer.cpp` without the crossing | `addr`, `map`, `wired` (listener set); a message is a `ConsumeContract` of its `owner` at its `target` |
| `System` | both classes in one process | the variables of `PushConsumer`, those of `Producer` with a `p`, one pool; `ListenerSends` and `ListenerDone` join a message to a send |
| `DistroRoute` | `realGetLinuxDistroRoute` | pure operators; `halves` is twice a release because the code divides by two without rounding |
| `Conversions` | both constructors, `SetOptions`, `setSessionCredentials`, `Send`, `GetMessageColumn` | one step each: `New` (options to the C client), `SetSessionCredentials`, `Transfer` (a message from `send()` to the listener) |
| `ExampleTest` | `example/producer.js`, `example/push_consumer.js` | two processes; `state` of the two objects as in `InstanceContract`, each message as in `ConsumeContract`, `msgs`, `exit` |
| `InstallScript` | `download_lib.js` | `step` of the coroutine, `file` on disk, `writeTimes`, `exitCode` |

`PushDelivery` EXTENDS `ConsumerAck` and constrains when its actions happen;
`UsesAckProtocol` says, and a theorem proves, that it never steps outside it.
`PushConsumer` does not repeat the crossing: it uses the contract that the
crossing is proved to implement. `ExampleTest` stands on the two contracts alone:
`Producer` and `PushConsumer` are shown to implement `InstanceContract`, so a
step of the scripts is a step the classes can take.

Abstractions. A message, an object, an address is a model value. Topic, body and
columns are left to `Conversions`, where a text is a short sequence of characters of
three kinds (kept, NUL, not UTF-8) and the largest `int` is a constant, `MaxInt`; elsewhere
only the five shapes of the argument of `done()` matter. A C function returns, returns a failure code, or throws.
An uninitialised `status` or `send_ret` is any value the reader could find.
A data race is the choice of its outcomes. A `uv_async_init` that overlaps another
one, or the loop walking, closing or freeing handles, may lose its own handle and
those linked or moved meanwhile, cut the queue off for every later handle, or, when
a handle it met is closed or freed, lead the queue into freed memory, where the loop
may then find any handle or none. A lookup that meets an insertion may miss. A
`send()` whose producer is collected under it calls a method of a freed object:
it reports an error, reports any status for a message stored or not, or never returns and
keeps its thread. What else a process does that has written to freed memory, a crash
included, is left out: no property could be stated of it. Only one `Ack` runs
at a time, because one thread runs JavaScript.

External, modelled from use: libuv's pool and handle queue, `uv_cond_wait`,
`Nan::AsyncWorker`, the C++ client (its submodule is empty here), Node's exit
code when nothing is left to do and what it does with a rejection nobody handles,
the broker, user code, the collector.

## 3. The runs

Deadlock is not an error in any run (`CHECK_DEADLOCK FALSE`): user code may stop calling, messages and starts
are bounded, and an installation ends.

| run | bounds | what it asks |
|---|---|---|
| `ConsumerAckSpurious` | 2 invocations, `PosixSpec` | *violated:* `ReturnsOnlyAfterAck`, the comment at the wait |
| `PushDeliverySafety` | 3 invocations on 2 threads, both races on | `ParamAlive`, `UnansweredBounded`, `UsesAckProtocol` |
| `PushDeliveryLive` | 2 invocations on 2 threads, races off | `NoLostWakeup`, `NoDanglingAck`, `ResultIsAsked`, refinement `ImplementsContract`, `EveryMessageOffered`, `EveryHandleFreed`, `DoneReleases` |
| `PushDeliveryInitRace` | the same with the `uv_async_init` race | *violated:* `EveryMessageOffered` |
| `Producer` | 2 objects, 2 starts each, 1 send, pool of 2, failures thrown, objects forgotten at any time | `RefCount`, `OneJob`, `LifecycleJobsLive`, `ExitOnlyWhenIdle`, `SendOkIsStored`, refinement `ImplementsInstanceContract`, `EveryCallSettles`, `EverySendAnswered` |
| `ProducerSendCode` | 1 start each, pool of 1, failures returned | *violated:* `SendOkIsStored` |
| `PushConsumer` | 2 objects, 2 addresses, 1 start each, 2 messages, pool of 3, the listener needs the pool or forgets its ack, one object may be forgotten | `MapFindsConsumer`, `CallsHaveConsumer`, `ShutdownDrains`, `StatusTellsNative`, `EveryMessageAnswered`, `OnlyOwnMessagesBlock` |
| `System` | 1 consumer, 2 messages at a time, 1 producer, which may be forgotten under a send, 1 start each, pool of 2 | `ExitLosesNothing`, `NoDeadlock`, `PoolSuffices`, `SendersAnswer` |
| `InstallScript` | all platforms and distributions, releases to 20 and none | `SuccessMeansLibraries` |
| `InstallNode10` | the same, and a response cut short ends like a whole one | *violated:* `BuildHasLibraries` |
| `Conversions` | `MaxInt` 7 (an `int` of 4 bits), every number from -1 past its end, bodies to 2 characters | `OptionsArrive`, `MessageArrives` |
| `ExampleTest` | 3 messages, 4 deliveries, failures, redelivery, a rejection ends the process or goes unnoticed | `PassMeansConsumed`, `WhyAssertionsFail`, `TestEnds` |

`PushDeliverySafety`, `Producer`, `PushConsumer` and `InstallScript` also have the type
invariant of their module; the one of `ExampleTest` is proved. The rendezvous is checked inside
`PushDelivery`, whose steps are steps of it, and the lifecycle inside `Producer`
and `PushConsumer`.

Why the bounds are enough. Invocations meet only through the one event-loop
thread, the loop's handle queue and the thread limit: two show every pairwise
interleaving and a third waits for a free thread. Objects of a class meet in the
counter, the timer and the pool: two tell "the first" and "the last" from the
rest, and restarts (in `Producer`) let the interval be set again by the other object. Two
addresses let the address of a destroyed consumer be reused while another lives.
Two consumers with a message each, whose shutdowns hold a thread each while the
listeners wait for the third, are the worst that `PoolHasRoom` allows.
Three messages and four deliveries let a
message that came twice stand in for a missing one, early or late. An `int` of four
bits has every kind of number an `int` of 32 has, and the enumerated numbers go
round it once. Release 20 lies beyond every comparison in the route. Symmetry is used only in
`PushDeliverySafety`, whose properties are all safety properties. `PushConsumer` has
`InOrder` instead, an action constraint that keeps of the behaviours that differ only in
names the one in which the first consumer, address and message come first, and lets user
code forget only the first consumer. `System` has `DropsUnderSend`, which orders its
messages and lets user code forget the producer only under its first send and while it is
stopped, when nothing else refers to it. Fairness obliges nobody to take the steps they
leave out.

**Fairness.** Consume threads, pool threads and the loop go on when they can
(operating system, libuv); a C function that was called returns. User code never
has to construct, start, shut down, send or forget, and the collector never has
to run. `PushDeliveryLive` assumes that a listener *returns*, not that it calls
`done()`: what `done()` releases is `DoneReleases`. In `PushConsumer` a listener
may forget its ack (`forgotten`: no listener, an exception, a lost ack object).
`WaitResult` has no timeout, so that message stays open; `OnlyOwnMessagesBlock`
says how far the damage goes: to calls of its own consumer. `ExampleTest` adds a
broker that delivers every stored message at least once.

**Node.js versions.** `co()` gives a rejection to nobody. From version 15 on that ends the
process; the Node.js 10 of `.travis.yml` goes on. `Unhandled` allows both, so each
property of `ExampleTest` holds on either and says what the older version costs:
a failed `shutdown()` of the producer leaves its interval set and the test never ends
(the exception in `TestEnds`), and a failed `start()` of the consumer ends with exit
code 0 and nothing consumed (the exception in `PassMeansConsumed`). The installation
has the same choice in `Uncaught`, and `AbortedEnds` for a response cut short.

**Collected producers.** `ExecuteOrphan` may do anything to its own message and thread.
`SendOkIsStored` is about the other messages; `EverySendAnswered` and `EveryCallSettles`
about executions without an orphan (`Unorphaned`), because one that never returns keeps its
thread from everybody else; `PoolSuffices`, `SendersAnswer` and `NoDeadlock`
likewise. The other properties of `Producer` hold with orphans.

**Deadlock bound.** A shutdown of a consumer holds a pool thread until its
listeners have answered. With as many consumers shutting down as the pool has
threads, each with a message whose listener waits for `producer.send()`, nothing
moves: with `PoolSize = 1` TLC finds a behaviour of `System` in which neither
message nor shutdown is ever answered, and so it does in `PushConsumer` with two
consumers, a message each and `PoolSize = 2`. `NoDeadlock`, `PoolSuffices` and `SendersAnswer`, and
in `PushConsumer` `EveryMessageAnswered` and `OnlyOwnMessagesBlock`, have the bound, more
threads than consumers (`PoolHasRoom`), as their premise, and the runs are at its
edge: one consumer and two threads, two consumers and three threads. `NoDeadlock` says in a state what the other two say
of a behaviour: `SomethingMoves` lists the steps of threads and loop that nobody chooses,
spelled out because ENABLED is out of the prover's reach, and when there is none only
forgotten messages are open. It is proved for every number of objects, messages and
threads, so what TLC shows about liveness does not rest on a small pool alone. `PushConsumer` has a second consumer, and abstract pool
work in place of a send. In `System` the producer may also be shut down under a waiting
listener; its send then fails and the listener answers. Two consumers on three
threads with real sends are beyond what TLC ends in minutes (more than 13 million states).

**What the findings say.** Details and quotes are in `PROJECT.json`.

1. `uv_cond_wait` outside a loop with `status` uninitialised: a spurious wakeup
   returns an arbitrary verdict.
2. `uv_async_init` on consume threads may lose handles, its own and later ones, and with
   them messages and their threads; it may also link to a handle the loop has just
   closed or freed, for which one consume thread is enough.
3. The return code of `SendMessageSync` is ignored and `send_ret` is not
   initialised: OK may be reported for a message nobody stored.
4. Failures outside the two `try` blocks of `download_lib.js`, and responses cut
   short, may leave exit code 0 without a library.

Also in the model, without a sentence in the repository to hold it against: the
example's listener calls `shutdown()`, which asserts STARTED, so that `npm test` fails
when all messages are handled before the answer to `start()` (the first case of
`WhyAssertionsFail`); a lookup in `_push_consumer_map` beside an insertion may refuse a message
(`MapRace`); the collector may destroy a producer whose `send()` is running,
because the callback of `send()` does not refer to `this`, and `send_message.h:46`
then calls a method of a freed object (`ExecuteOrphan`; `LifecycleJobsLive` shows that start and shutdown are not
exposed to this); an object whose start or shutdown failed can never be used
again; `(major + 2) / 2` gives Debian 8, 9 and 10 the routes UBUNTU/5.04, 5.5.04
and 6.04, where Ubuntu has 14.04, 16.04 and 18.04 only (`DebianRoute`); Ubuntu 16 and 18 get
libraries of their own (`UbuntuRoute`), where the repository's `README.md:14` says that Ubuntu from 16 on is
not supported; a
`logFileSize` from 2^31 on loses 2^32 in an `Int32Value` although the C
function takes 64 bits (`Int32`, and `OptionsArrive` says so); `new Producer(group, undefined, options)` names
the instance "undefined" (`InstanceName`), because only `null` counts as no name; `setSessionCredentials()` returns
`true` or `false` (`Negated`), where its comment (`lib/producer.js:87`) announces a number.
Routes and credentials have no property: what could be said of them, where no document
names the right answer, repeats their definitions.

## 4. The proofs

Each theorem holds for every value of the constants: any invocations, threads,
objects, addresses, pool, and both races.

| theorem | property | of |
|---|---|---|
| `AckTypeCorrect`, `AckNoLostWakeup` | `AckTypeOK`, `NoLostWakeup` | `PosixSpec` of `ConsumerAck` |
| `AckInvariant`, `AckNoDangling`, `AckResultIsAsked` | `AckInv`, `NoDanglingAck`, `ResultIsAsked` | `AckSpec` |
| `AckImplementsContract` | `ConsumeContract` is implemented | `AckSpec` |
| `DeliveryTypeCorrect`, `DeliveryUsesAckProtocol` | `TypeOK`, `UsesAckProtocol` | `Spec` of `PushDelivery` |
| `DeliveryParamAlive`, `DeliveryBackpressure` | `ParamAlive`, `UnansweredBounded` | the same |
| `LifecycleInvariant` | `LifeInv` | `LifeSpec` of `Lifecycle` |
| `ProducerTypeCorrect`, `ProducerRefCount`, `ProducerOneJob` | `TypeOK`, `RefCount`, `OneJob` | `Spec` of `Producer` |
| `ProducerJobsLive`, `ProducerExit` | `LifecycleJobsLive`, `ExitOnlyWhenIdle` | the same |
| `ProducerImplementsContract` | `InstanceContract` is implemented | the same |
| `ProducerOkIsStored` | `SendOkIsStored`, if failures are thrown | the same |
| `PushConsumerTypeCorrect`, `PushConsumerMap`, `PushConsumerCalls` | `TypeOK`, `MapFindsConsumer`, `CallsHaveConsumer` | `Spec` of `PushConsumer` |
| `PushConsumerImplementsContract` | `InstanceContract` is implemented | the same |
| `PushConsumerStatus`, `PushConsumerDrains` | `StatusTellsNative`, `ShutdownDrains`, if failures are thrown | the same |
| `InstallTypeCorrect` | `TypeOK` | `Spec` of `InstallScript` |
| `InstallSuccess` | `SuccessMeansLibraries`, if a response cut short is an error | the same |
| `ConversionOptions`, `ConversionMessage` | `OptionsArrive`, `MessageArrives` | `Spec` of `Conversions` |
| `ExampleTypeCorrect`, `ExamplePassMeansConsumed`, `ExampleWhyAssertionsFail` | `TypeOK`, `PassMeansConsumed`, `WhyAssertionsFail` | `Spec` of `ExampleTest` |
| `SystemInvariant` | `SystemInv`, the invariants of both classes | `SystemSpec` of `System` |
| `SystemExit` | `ExitLosesNothing`, if failures are thrown | the same |
| `SystemNoDeadlock` | `NoDeadlock` | the same |
| `SystemKeepsClasses` | `RefCount`, `OneJob`, `MapFindsConsumer`, `CallsHaveConsumer`, and of the producers `RefCount`, `OneJob`, `LifecycleJobsLive` | the same |
| `SystemKeepsAnswers` | `StatusTellsNative`, `ShutdownDrains`, and of the producers `SendOkIsStored`, if failures are thrown | the same |
| `SystemImplementsContracts` | `InstanceContract` is implemented by both classes | the same |

The conditions ("if ...") are ASSUMEs of the theorem about a constant of the
module. They are needed: `ProducerSendCode` and `InstallNode10` show what happens
without two of them, and `System` with `FailureCodes = TRUE` violates
`ExitLosesNothing`: a shutdown that fails by its return code stops the counting of an
object whose client still runs.

Beside them the assumptions are those of the modules: finitely many objects, a pool
with a thread, `Unset` is no verdict, `NoAnswer` no status, `NoCall` no
invocation, a C `int` can hold the number of a log level and the default size of a log
file, the two classes have no object in common, and there is at least one consume thread. `AckSpec` is a platform
where `uv_cond_wait` returns only after a signal, and `PushDelivery` is built on
it; `PosixSpec` adds the wakeups POSIX allows without one. The difference is
needed: with such wakeups the frame may disappear under a linked ack object, and
the run `ConsumerAckSpurious` shows where it starts.

*The inductive invariant.* `NoLostWakeup` and `NoDanglingAck` are not inductive
alone. `AckInv` ties both program counters to the data: the mutex belongs to the
thread whose counter says so; `acked` is set exactly from `AckSet` on, and then
`status = asked`; a waiter past the wait has seen `acked`; and the acker may be
between `AckLock` and `AckUnlock` only while the waiter is before the point where
it needs the mutex, which keeps the frame alive. Each action is one step of the
proof. `DeliveryInv` adds that `async` is at least "sent" before the consume
thread can wait, and that a handle before "running" has no ack object yet, so its
frame waits. `UnansweredBounded` follows because an unanswered message has a
living frame and busy frames never exceed `ThreadCount` (`ThreadsBounded`), by
cardinality of subsets. `UsesAckProtocol` is proved step by step: each action of the delivery
is an action of the rendezvous or leaves its variables alone; with it the
invariants of the rendezvous carry over and are not proved twice.

*The pool.* `Lifecycle_proof` says what one step does to one job: `QueueStep`,
`TakeStep`, `ReturnStep` and `CallBackStep` move it from place to place and keep
every other job (`PoolKeeps`); `ReturnOutcome` and `CallBackOutcome` say which
outcome a finished job carries. They speak of any set of jobs, so that producer
and consumer cite them for jobs the lifecycle does not know. The lemmas of the two
classes speak in turn of a pool that may hold jobs that are not theirs: `Hosted(S, O)`,
a set `S` of jobs and a set `O` of outcomes that contain their own. `PoolMoves(J, R)` says
that a step moves at most jobs of `J`, and `MovesKeepOthers` that it then keeps all others.

*The lifecycle.* `OneJob` is not inductive alone: a rejected object must stay in
STARTING or STOPPING (`RejectedStuck`), or a second job could be queued for it.
With `LifeInv` a call back finds the status its job was queued with, so the counter
moves with the set `Counted` by one element, and `RefCount` follows by cardinality.

*The producer.* `ProdInv` adds that user code holds live objects only (`HeldLive`)
and that a send nobody has answered has its job in the pool (`SendsPending`), which
is why an idle loop has answered every send. `SendOkIsStored` needs in addition
that a finished job with a documented status is for a stored message or an orphan.

*The push consumer.* `ObjInv` says which objects a step can concern at all: only
wired ones are held, started or get messages (`UnwiredStopped`, `CallsOwned`); they
are never collected (`WiredLive`); the addresses of live objects lead to them in the
map (`Addressed`, from which it follows that they differ); and a client that is down
has no open message (`DownDrained`). `TellsInv` follows the outcome of each job to
the client it left behind; with `DownDrained` it gives `ShutdownDrains`.

*The installation.* `InstallInv`: urls before `next` have a file, the others none
(`Asked`), the counter is the number of files that are over (`Typed`), and, where a
response cut short is an error, a running process has lost no file (`Lossless`); so the
counter reaches the number of urls only when all are whole.

*The example.* `ExInv`: the array has one entry for each answered message
(`Noted`), and the consumer is shut down only with all of them (`Ordered`). As many
distinct messages as there are must be all of them (`NoneTwiceNoneMissing`, by
injection between finite sets), so a failed comparison needs a duplicate.

*The conversions.* `ConvInv` is inductive at once, since each behaviour is one step; what
has to be proved is the data. `CStringEnds` gives the part of a text before its first
NUL from `SelectInSeq`, whose minimum exists because the order of the numbers is
well-founded (`MinIsLeast`); `CStringOnce` that it is not cut a second time;
`DecodedPrefix` that decoding keeps positions; `Int32Keeps` that an `int` keeps every
number up to its largest and `Int32Wraps` that a larger one loses 2^32. Then `OptionArrives` takes each option, `NewArrives` each form
of the constructor call, `TransferArrives` each column.

*The process.* `SystemInv` is the invariant of either class on the pool of both. A step of
`System` is a step of one class (`SystemSteps`), which moves jobs of that class only; the
classes have no job in common (`JobsApart`), so for the other it is a step of somebody
else, which `ConsForeign` and the lemma of the same name for producers allow
(`ConsumersApart`, `ProducersApart`). `ExitLosesNothing` then follows without a look at steps:
no interval means that the counter is 0 and no object counted; a client that runs
is seen in the status or will be by the callback (`UpSeen`), so with nothing finished
every client is down, and a client that is down has no open message (`DownDrained`);
an unanswered send would have its job in the pool (`SendsPending`). `NoDeadlock` is a
counting argument: when nothing moves, all busy threads are in shutdowns of different
consumers, so fewer than there are threads, one is free and nothing is queued; a
listener that waited for its send would have it in that queue, among the finished or
on a thread, and it is in none of them.

*The refinements.* A lifecycle step moves the state the contract sees by one edge of
one object, or not at all (`LifeStepImplements`). For the rendezvous, `PhaseOf` maps a rendezvous to its phase; `PhaseAdvance`,
`AckStutters` and `AckStepMaps` show that each step advances one phase or
stutters.

*Only model-checked:* liveness (`EveryMessageOffered`, `EveryHandleFreed`,
`DoneReleases`, `EveryCallSettles`, `EverySendAnswered`, `EveryMessageAnswered`,
`OnlyOwnMessagesBlock`, `PoolSuffices`, `SendersAnswer`, `TestEnds`): fairness and
ENABLED are out of the prover's reach. Every invariant a passing run checks is
proved; no module that is proved about has a RECURSIVE operator.

## 5. Not modelled

* NaN and fractional numbers as options; characters beyond the three kinds.
* Out of memory in `malloc` or a failing `uv_async_init`; their results are not
  looked at.
* Loading of the addon, `env_init.js`, logging.
* The C++ client itself, and what a broker does beyond delivering at least once.

## 6. The plan

Done, in this order: `ConsumerAck` with its contract; `PushDelivery`; the proofs
of both; `WorkerPool` and `Lifecycle` with its contract; `Producer`;
`PushConsumer`; the installation; the proofs of pool, lifecycle, producer and
consumer; `Conversions`; `ExampleTest` on the contracts; the proofs of installation
and example; `System` with both classes on one pool; the proofs of `System` and of the
conversions.

Left: action properties worth a theorem that no run asks for yet, such as how the
exit code of the installation may change; the proofs themselves, where a step can be
said more simply.
