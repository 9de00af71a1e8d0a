--------------------------- MODULE PushConsumer_proof --------------------------
(***************************************************************************)
(* What holds of every number of push consumers, addresses and messages,   *)
(* every pool, listener, user and collector.                               *)
(*                                                                         *)
(* Beside the invariant of Lifecycle, ObjInv says which objects a step can *)
(* concern at all: only wired ones, which are never collected, are started *)
(* or get messages, and a client that is down has none in progress.        *)
(***************************************************************************)
EXTENDS PushConsumer, Lifecycle_proof

WorkJobs == {WorkJob(c) : c \in Calls}
Jobs     == LifeJobs \cup WorkJobs

ConsTypeOK ==
  /\ core \in [Instances -> {"unborn", "live", "destroyed"}]
  /\ addr \in [Instances -> Addresses \cup {NoAddress}]
  /\ map \in [Addresses -> Instances \cup {NoInstance}]
  /\ held \subseteq wired /\ wired \subseteq Instances
  /\ subscribed \subseteq wired
  /\ owner \in [Calls -> Instances \cup {NoInstance}]
  /\ target \in [Calls -> Instances \cup {NoInstance}]
  /\ forgotten \subseteq Calls
  /\ phase \in [Calls -> Consume!Phases]
  /\ verdict \in [Calls -> Verdicts \cup {Unset}]

WiredLive == \A i \in wired : core[i] = "live"

UnwiredStopped == \A i \in Instances : i \notin wired => status[i] = "STOPPED"

Addressed ==
  \A i \in Instances : core[i] = "live" => addr[i] \in Addresses /\ map[addr[i]] = i

CallsOwned ==
  \A c \in Calls : owner[c] \in Instances => owner[c] \in wired /\ target[c] = owner[c]

DownDrained == \A i \in Instances : native[i] = "down" => OpenCallsOf(i) = {}

ObjInv ==
  ConsTypeOK /\ WiredLive /\ UnwiredStopped /\ Addressed /\ CallsOwned /\ DownDrained

(* Each lemma speaks of a pool that may hold other jobs as well: of a set S *)
(* that hosts those of this class, with outcomes in O.                      *)
Hosted(S, O) == Jobs \subseteq S /\ Outcomes \subseteq O

ConsInv(S, O) == LifeInv /\ PoolTyped(S, O) /\ ObjInv

LEMMA OwnJobs ==
  ASSUME NEW i
  PROVE  StartJob(i) \in JobsOf(i) /\ ShutdownJob(i) \in JobsOf(i) /\ ShutdownJob(i) # StartJob(i)
BY JobsDistinct DEF JobsOf

LEMMA WorkJobsApart == WorkJobs \cap LifeJobs = {}
<1>1. ASSUME NEW c PROVE WorkJob(c).kind = "work"
  BY DEF WorkJob
<1>2. ASSUME NEW i PROVE StartJob(i).kind = "start" /\ ShutdownJob(i).kind = "shutdown"
  BY DEF StartJob, ShutdownJob
<1> QED BY <1>1, <1>2 DEF WorkJobs, LifeJobs, JobsOf

-----------------------------------------------------------------------------
(* The lifecycle part: what a step does to it. *)

(* Steps that leave the lifecycle alone and at most move jobs of listeners. *)
LEMMA PoolPart ==
  ASSUME NEW S, NEW O, Hosted(S, O), ConsInv(S, O),
         UNCHANGED <<status, refs, timer, rejected, starts>>,
         native' \in [Instances -> {"down", "up"}],
         PoolTyped(S, O)', \A x \in LifeJobs : PoolKeeps(x), ObjInv'
  PROVE  ConsInv(S, O)'
BY OtherStep DEF ConsInv

(* Steps that leave the pool alone. *)
LEMMA QuietPart ==
  ASSUME NEW S, NEW O, Hosted(S, O), ConsInv(S, O),
         UNCHANGED poolVars, UNCHANGED <<status, refs, timer, rejected, starts>>,
         native' \in [Instances -> {"down", "up"}], ObjInv'
  PROVE  ConsInv(S, O)'
<1>1. PoolTyped(S, O)' /\ \A x : PoolKeeps(x)
  BY PoolUnchanged DEF ConsInv
<1> QED BY <1>1, PoolPart

(* An object that is wired, or waits for a job, is not collected. *)
LEMMA WaitingIsWired ==
  ASSUME NEW S, NEW O, Hosted(S, O), ConsInv(S, O),
         NEW i \in Instances, NEW x \in JobsOf(i), InPool(x)
  PROVE  i \in wired
<1>1. status[i] \in {"STARTING", "STOPPING"}
  BY DEF ConsInv, LifeInv, OneJob, WaitsFor
<1> QED BY <1>1 DEF ConsInv, ObjInv, UnwiredStopped

(* Steps that do not touch the objects and their messages: what is left to  *)
(* show is where status and native go.                                      *)
LEMMA ObjectsKept ==
  ASSUME ObjInv, UNCHANGED <<objVars, callVars>>, UnwiredStopped', DownDrained'
  PROVE  ObjInv'
<1>1. /\ UNCHANGED <<core, addr, map, wired, held, subscribed>>
      /\ UNCHANGED <<owner, target, forgotten, phase, verdict, report>>
  BY DEF objVars, callVars
<1>2. ConsTypeOK' /\ WiredLive' /\ Addressed' /\ CallsOwned'
  BY <1>1 DEF ObjInv, ConsTypeOK, WiredLive, Addressed, CallsOwned
<1> QED BY <1>2 DEF ObjInv

-----------------------------------------------------------------------------
(* Objects. *)

LEMMA ConstructStep ==
  ASSUME NEW S, NEW O, Hosted(S, O), ConsInv(S, O),
         NEW i \in Instances, Construct(i)
  PROVE  ConsInv(S, O)'
<1>1. PICK a \in Addresses \ {addr[k] : k \in Instances} :
        addr' = [addr EXCEPT ![i] = a] /\ map' = [map EXCEPT ![a] = i]
  BY DEF Construct, MapEntry
<1>2. PICK made \in SUBSET {i} : wired' = wired \cup made /\ held' = held \cup made
  BY DEF Construct
<1>3. /\ core[i] = "unborn" /\ core' = [core EXCEPT ![i] = "live"]
      /\ UNCHANGED poolVars /\ UNCHANGED <<status, refs, timer, native, rejected, starts>>
      /\ UNCHANGED <<subscribed, owner, target, forgotten, phase, verdict, report>>
  BY DEF Construct, lifeVars, callVars
<1>4. ConsTypeOK'
  BY <1>1, <1>2, <1>3 DEF ConsInv, ObjInv, ConsTypeOK
<1>5. WiredLive' /\ UnwiredStopped'
  BY <1>2, <1>3 DEF ConsInv, ObjInv, ConsTypeOK, WiredLive, UnwiredStopped
<1>6. Addressed'
  <2> SUFFICES ASSUME NEW k \in Instances, core'[k] = "live"
               PROVE  addr'[k] \in Addresses /\ map'[addr'[k]] = k
    BY DEF Addressed
  <2>1. CASE k = i
    BY <1>1, <2>1 DEF ConsInv, ObjInv, ConsTypeOK
  <2>2. CASE k # i
    <3>1. core[k] = "live" /\ addr'[k] = addr[k] /\ addr[k] # a
      BY <1>1, <1>3, <2>2 DEF ConsInv, ObjInv, ConsTypeOK
    <3> QED BY <1>1, <3>1 DEF ConsInv, ObjInv, ConsTypeOK, Addressed
  <2> QED BY <2>1, <2>2
<1>7. CallsOwned' /\ DownDrained'
  BY <1>2, <1>3 DEF ConsInv, ObjInv, CallsOwned, DownDrained, OpenCallsOf, CallsOf
<1>8. native' \in [Instances -> {"down", "up"}]
  BY <1>3 DEF ConsInv, LifeInv, LifeTypeOK
<1> QED BY <1>3, <1>4, <1>5, <1>6, <1>7, <1>8, QuietPart DEF ObjInv

LEMMA SubscribeStep ==
  ASSUME NEW S, NEW O, Hosted(S, O), ConsInv(S, O),
         NEW i \in Instances, Subscribe(i) \/ Drop(i)
  PROVE  ConsInv(S, O)'
<1>1. /\ subscribed' \subseteq subscribed \cup held /\ held' \subseteq held
      /\ UNCHANGED poolVars /\ UNCHANGED <<status, refs, timer, native, rejected, starts>>
      /\ UNCHANGED <<core, addr, map, wired, owner, target, forgotten, phase, verdict, report>>
  BY DEF Subscribe, Drop, lifeVars, callVars
<1>2. ObjInv'
  BY <1>1 DEF ConsInv, ObjInv, ConsTypeOK, WiredLive, UnwiredStopped, Addressed, CallsOwned,
              DownDrained, OpenCallsOf, CallsOf
<1>3. native' \in [Instances -> {"down", "up"}]
  BY <1>1 DEF ConsInv, LifeInv, LifeTypeOK
<1> QED BY <1>1, <1>2, <1>3, QuietPart

(* Only an object whose construction failed is collected. *)
LEMMA CollectStep ==
  ASSUME NEW S, NEW O, Hosted(S, O), ConsInv(S, O),
         NEW i \in Instances, Collect(i)
  PROVE  ConsInv(S, O)'
<1>1. /\ core[i] = "live" /\ i \notin wired
      /\ core' = [core EXCEPT ![i] = "destroyed"] /\ native' = [native EXCEPT ![i] = "down"]
      /\ map' \in {map, [map EXCEPT ![addr[i]] = NoInstance]}
      /\ addr' = [addr EXCEPT ![i] = NoAddress]
      /\ UNCHANGED poolVars /\ UNCHANGED <<status, refs, timer, rejected, starts>>
      /\ UNCHANGED <<wired, held, subscribed, owner, target, forgotten, phase, verdict, report>>
  BY DEF Collect, Reachable, callVars
<1>2. native' \in [Instances -> {"down", "up"}]
  BY <1>1 DEF ConsInv, LifeInv, LifeTypeOK
<1>3. ConsTypeOK'
  BY <1>1 DEF ConsInv, ObjInv, ConsTypeOK
<1>4. WiredLive' /\ UnwiredStopped' /\ CallsOwned'
  BY <1>1 DEF ConsInv, ObjInv, ConsTypeOK, WiredLive, UnwiredStopped, CallsOwned
<1>5. Addressed'
  <2> SUFFICES ASSUME NEW k \in Instances, core'[k] = "live"
               PROVE  addr'[k] \in Addresses /\ map'[addr'[k]] = k
    BY DEF Addressed
  <2>1. k # i /\ core[k] = "live" /\ addr'[k] = addr[k]
    BY <1>1 DEF ConsInv, ObjInv, ConsTypeOK
  <2>2. addr[k] \in Addresses /\ map[addr[k]] = k /\ addr[i] \in Addresses /\ map[addr[i]] = i
    BY <1>1, <2>1 DEF ConsInv, ObjInv, Addressed
  <2> QED BY <1>1, <2>1, <2>2 DEF ConsInv, ObjInv, ConsTypeOK
<1>6. DownDrained'
  <2>1. OpenCallsOf(i) = {}
    BY <1>1 DEF ConsInv, ObjInv, CallsOwned, OpenCallsOf, CallsOf
  <2> QED BY <1>1, <2>1 DEF ConsInv, ObjInv, DownDrained, OpenCallsOf, CallsOf, LifeInv, LifeTypeOK
<1> QED BY <1>1, <1>2, <1>3, <1>4, <1>5, <1>6, QuietPart DEF ObjInv

-----------------------------------------------------------------------------
(* The lifecycle. *)

LEMMA UserCallStep ==
  ASSUME NEW S, NEW O, Hosted(S, O), ConsInv(S, O),
         NEW i \in Instances, UserCall(i)
  PROVE  ConsInv(S, O)'
<1>1. i \in held /\ (Start(i) \/ Shutdown(i)) /\ UNCHANGED <<objVars, callVars>>
  BY DEF UserCall
<1>2. LifeJobs \subseteq S
  BY DEF Hosted, Jobs
<1>3. LifeInv' /\ PoolTyped(S, O)'
  BY <1>1, <1>2, StartStep, ShutdownStep DEF ConsInv
<1>4. i \in wired /\ native' = native /\ OthersKeep(i)
  BY <1>1 DEF ConsInv, ObjInv, ConsTypeOK, Start, Shutdown, StatusGoes, OthersKeep, LifeInv, LifeTypeOK
<1>5. UnwiredStopped' /\ DownDrained'
  BY <1>1, <1>4 DEF ConsInv, ObjInv, UnwiredStopped, DownDrained, OpenCallsOf, CallsOf, OthersKeep,
                    objVars, callVars
<1> QED BY <1>1, <1>3, <1>5, ObjectsKept DEF ConsInv

LEMMA CallbackStep ==
  ASSUME NEW S, NEW O, Hosted(S, O), ConsInv(S, O),
         NEW i \in Instances, LifecycleCallback(i)
  PROVE  ConsInv(S, O)'
<1>1. Settle(i) /\ UNCHANGED <<objVars, callVars>>
  BY DEF LifecycleCallback
<1>2. LifeInv' /\ PoolTyped(S, O)'
  BY <1>1, RejectedStep, StartedStep, StoppedStep DEF ConsInv, Settle
<1>3. i \in wired
  <2>1. PICK job \in JobsOf(i) : \E outcome : CallBack(job, outcome)
    BY <1>1 DEF Settle, Rejected, Started, Stopped, JobsOf
  <2>2. InPool(job)
    BY <2>1, CallBackStep DEF ConsInv
  <2> QED BY <2>2, WaitingIsWired
<1>4. native' = native /\ \A k \in Instances \ {i} : status'[k] = status[k]
  BY <1>1 DEF Settle, Rejected, Started, Stopped, ConsInv, LifeInv, LifeTypeOK
<1>5. UnwiredStopped' /\ DownDrained'
  BY <1>1, <1>3, <1>4 DEF ConsInv, ObjInv, UnwiredStopped, DownDrained, OpenCallsOf, CallsOf,
                          objVars, callVars
<1> QED BY <1>1, <1>2, <1>5, ObjectsKept DEF ConsInv

(* The client goes down only when its consume threads are joined. *)
LEMMA ExecuteLifecycleStep ==
  ASSUME NEW S, NEW O, Hosted(S, O), ConsInv(S, O),
         NEW i \in Instances, ExecuteLifecycle(i)
  PROVE  ConsInv(S, O)'
<1>1. /\ ExecuteStart(i) \/ (ExecuteShutdown(i) /\ OpenCallsOf(i) = {})
      /\ UNCHANGED <<objVars, callVars>>
  BY DEF ExecuteLifecycle, ThreadsJoined
<1>2. LifeInv' /\ PoolTyped(S, O)'
  BY <1>1, ExecuteStep DEF ConsInv, Hosted
<1>3. status' = status
  BY <1>1 DEF ExecuteStart, ExecuteShutdown
<1>4. \A k \in Instances : native'[k] = "down" => native[k] = "down" \/ OpenCallsOf(k) = {}
  BY <1>1 DEF ExecuteStart, ExecuteShutdown, ConsInv, LifeInv, LifeTypeOK
<1>5. UnwiredStopped' /\ DownDrained'
  BY <1>1, <1>3, <1>4 DEF ConsInv, ObjInv, UnwiredStopped, DownDrained, OpenCallsOf, CallsOf,
                          objVars, callVars
<1> QED BY <1>1, <1>2, <1>5, ObjectsKept DEF ConsInv

LEMMA PoolTakesStep ==
  ASSUME NEW S, NEW O, Hosted(S, O), ConsInv(S, O),
         PoolTakes
  PROVE  ConsInv(S, O)'
<1>1. Take /\ UNCHANGED <<objVars, callVars>> /\ UNCHANGED <<status, native>>
  BY DEF PoolTakes, Take, lifeVars
<1>2. LifeInv' /\ PoolTyped(S, O)'
  BY <1>1, LifeTakeStep DEF ConsInv
<1>3. UnwiredStopped' /\ DownDrained'
  BY <1>1 DEF ConsInv, ObjInv, UnwiredStopped, DownDrained, OpenCallsOf, CallsOf, objVars, callVars
<1> QED BY <1>1, <1>2, <1>3, ObjectsKept DEF ConsInv

-----------------------------------------------------------------------------
(* Messages. *)

(* A message in progress goes on: no other starts, and none changes owner. *)
LEMMA MessageGoesOn ==
  ASSUME NEW S, NEW O, Hosted(S, O), ConsInv(S, O),
         UNCHANGED lifeVars, UNCHANGED <<objVars, owner, target>>,
         PoolTyped(S, O)', \A x \in LifeJobs : PoolKeeps(x),
         forgotten' \subseteq Calls, phase' \in [Calls -> Consume!Phases],
         verdict' \in [Calls -> Verdicts \cup {Unset}],
         \A c \in Calls : phase[c] = "reported" => phase'[c] = "reported"
  PROVE  ConsInv(S, O)'
<1>1. /\ UNCHANGED <<core, addr, map, wired, held, subscribed, owner, target>>
      /\ UNCHANGED <<status, refs, timer, native, rejected, starts>>
  BY DEF objVars, lifeVars
<1>2. ConsTypeOK' /\ WiredLive' /\ UnwiredStopped' /\ Addressed' /\ CallsOwned'
  BY <1>1 DEF ConsInv, ObjInv, ConsTypeOK, WiredLive, UnwiredStopped, Addressed, CallsOwned
<1>3. DownDrained'
  BY <1>1 DEF ConsInv, ObjInv, DownDrained, OpenCallsOf, CallsOf
<1>4. native' \in [Instances -> {"down", "up"}]
  BY <1>1 DEF ConsInv, LifeInv, LifeTypeOK
<1> QED BY <1>1, <1>2, <1>3, <1>4, PoolPart DEF ObjInv

LEMMA WorkJobIsJob ==
  ASSUME NEW c \in Calls
  PROVE  WorkJob(c) \in Jobs /\ WorkJob(c) \notin LifeJobs
BY WorkJobsApart DEF Jobs, WorkJobs

LEMMA PhaseMoves ==
  ASSUME NEW S, NEW O, Hosted(S, O), ConsInv(S, O),
         NEW c \in Calls, NEW from \in Consume!Phases, NEW to \in Consume!Phases,
         Consume!Advance(c, from, to), from # "reported"
  PROVE  /\ phase' \in [Calls -> Consume!Phases]
         /\ \A d \in Calls : phase[d] = "reported" => phase'[d] = "reported"
BY DEF Consume!Advance, ConsInv, ObjInv, ConsTypeOK

LEMMA EmitStep ==
  ASSUME NEW S, NEW O, Hosted(S, O), ConsInv(S, O),
         NEW c \in Calls, Emit(c)
  PROVE  ConsInv(S, O)'
<1>1. /\ Consume!Advance(c, "handed", "offered") /\ verdict' = verdict
      /\ forgotten' \subseteq Calls
      /\ UNCHANGED lifeVars /\ UNCHANGED <<objVars, owner, target>>
      /\ AsyncQueueWorker(WorkJob(c)) \/ UNCHANGED poolVars
  BY DEF Emit, Consume!Offer, ConsInv, ObjInv, ConsTypeOK
<1>2. PoolTyped(S, O)' /\ \A x \in LifeJobs : PoolKeeps(x)
  <2>1. CASE AsyncQueueWorker(WorkJob(c))
    <3> DEFINE job == WorkJob(c)
    <3>1. job \in Jobs /\ job \notin LifeJobs /\ AsyncQueueWorker(job)
      BY <2>1, WorkJobIsJob
    <3> HIDE DEF job
    <3> QED BY <3>1, QueueStep DEF ConsInv, Hosted
  <2>2. CASE UNCHANGED poolVars
    BY <2>2, PoolUnchanged DEF ConsInv
  <2> QED BY <1>1, <2>1, <2>2
<1>3. /\ phase' \in [Calls -> Consume!Phases]
      /\ \A d \in Calls : phase[d] = "reported" => phase'[d] = "reported"
  <2>1. "handed" \in Consume!Phases /\ "offered" \in Consume!Phases
    BY DEF Consume!Phases
  <2> QED BY <1>1, <2>1, PhaseMoves
<1>4. verdict' \in [Calls -> Verdicts \cup {Unset}]
  BY <1>1 DEF ConsInv, ObjInv, ConsTypeOK
<1> QED BY <1>1, <1>2, <1>3, <1>4, MessageGoesOn

LEMMA DoneStep ==
  ASSUME NEW S, NEW O, Hosted(S, O), ConsInv(S, O),
         NEW c \in Calls, Done(c)
  PROVE  ConsInv(S, O)'
<1>1. /\ Consume!Advance(c, "offered", "decided")
      /\ \E v \in Verdicts : verdict' = [verdict EXCEPT ![c] = v]
      /\ UNCHANGED lifeVars /\ UNCHANGED <<objVars, owner, target, forgotten>>
      /\ CallBack(WorkJob(c), "ok") \/ UNCHANGED poolVars
  BY DEF Done, Consume!Decide
<1>2. PoolTyped(S, O)' /\ \A x \in LifeJobs : PoolKeeps(x)
  <2>1. CASE CallBack(WorkJob(c), "ok")
    <3> DEFINE job == WorkJob(c)
    <3>1. job \notin LifeJobs /\ CallBack(job, "ok")
      BY <2>1, WorkJobIsJob
    <3> HIDE DEF job
    <3> QED BY <3>1, CallBackStep DEF ConsInv
  <2>2. CASE UNCHANGED poolVars
    BY <2>2, PoolUnchanged DEF ConsInv
  <2> QED BY <1>1, <2>1, <2>2
<1>3. /\ phase' \in [Calls -> Consume!Phases]
      /\ \A d \in Calls : phase[d] = "reported" => phase'[d] = "reported"
  <2>1. "offered" \in Consume!Phases /\ "decided" \in Consume!Phases
    BY DEF Consume!Phases
  <2> QED BY <1>1, <2>1, PhaseMoves
<1>4. verdict' \in [Calls -> Verdicts \cup {Unset}] /\ forgotten' \subseteq Calls
  BY <1>1 DEF ConsInv, ObjInv, ConsTypeOK
<1> QED BY <1>1, <1>2, <1>3, <1>4, MessageGoesOn

LEMMA ReturnedStep ==
  ASSUME NEW S, NEW O, Hosted(S, O), ConsInv(S, O),
         NEW c \in Calls, Return(c)
  PROVE  ConsInv(S, O)'
<1>1. /\ Consume!Advance(c, "decided", "reported") /\ verdict' = verdict
      /\ UNCHANGED poolVars /\ UNCHANGED lifeVars /\ UNCHANGED <<objVars, owner, target, forgotten>>
  BY DEF Return, Consume!Report
<1>2. PoolTyped(S, O)' /\ \A x : PoolKeeps(x)
  BY <1>1, PoolUnchanged DEF ConsInv
<1>3. /\ phase' \in [Calls -> Consume!Phases]
      /\ \A d \in Calls : phase[d] = "reported" => phase'[d] = "reported"
  <2>1. "decided" \in Consume!Phases /\ "reported" \in Consume!Phases
    BY DEF Consume!Phases
  <2> QED BY <1>1, <2>1, PhaseMoves
<1>4. verdict' \in [Calls -> Verdicts \cup {Unset}] /\ forgotten' \subseteq Calls
  BY <1>1 DEF ConsInv, ObjInv, ConsTypeOK
<1> QED BY <1>1, <1>2, <1>3, <1>4, MessageGoesOn

LEMMA ExecuteWorkStep ==
  ASSUME NEW S, NEW O, Hosted(S, O), ConsInv(S, O),
         NEW c \in Calls, ExecuteWork(c)
  PROVE  ConsInv(S, O)'
<1>1. /\ ExecuteReturns(WorkJob(c), "ok") /\ UNCHANGED lifeVars /\ UNCHANGED <<objVars, owner, target>>
      /\ UNCHANGED <<forgotten, phase, verdict>>
  BY DEF ExecuteWork, callVars
<1>2. PoolTyped(S, O)' /\ \A x : PoolKeeps(x)
  <2> DEFINE job == WorkJob(c)
  <2>1. ExecuteReturns(job, "ok") /\ "ok" \in Outcomes
    BY <1>1 DEF Outcomes
  <2> HIDE DEF job
  <2> QED BY <2>1, ReturnStep DEF ConsInv, Hosted
<1>3. /\ phase' \in [Calls -> Consume!Phases] /\ verdict' \in [Calls -> Verdicts \cup {Unset}]
      /\ forgotten' \subseteq Calls
      /\ \A d \in Calls : phase[d] = "reported" => phase'[d] = "reported"
  BY <1>1 DEF ConsInv, ObjInv, ConsTypeOK
<1> QED BY <1>1, <1>2, <1>3, MessageGoesOn

(* A new message comes from a client that is up, and the map leads to its   *)
(* own object.                                                              *)
LEMMA OnMessageStep ==
  ASSUME NEW S, NEW O, Hosted(S, O), ConsInv(S, O),
         NEW c \in Calls, NEW i \in Instances, OnMessage(c, i)
  PROVE  ConsInv(S, O)'
<1>1. /\ native[i] = "up" /\ i \in subscribed
      /\ Consume!Advance(c, "idle", "handed") /\ verdict' = verdict
      /\ owner' = [owner EXCEPT ![c] = i] /\ target' = [target EXCEPT ![c] = map[addr[i]]]
      /\ UNCHANGED poolVars /\ UNCHANGED <<status, refs, timer, native, rejected, starts>>
      /\ UNCHANGED <<core, addr, map, wired, held, subscribed, forgotten>>
  BY DEF OnMessage, Consume!Hand, lifeVars, objVars
<1>2. i \in wired /\ map[addr[i]] = i
  BY <1>1 DEF ConsInv, ObjInv, ConsTypeOK, WiredLive, Addressed
<1>3. "idle" \in Consume!Phases /\ "handed" \in Consume!Phases
  BY DEF Consume!Phases
<1>4. phase' \in [Calls -> Consume!Phases] /\ \A d \in Calls \ {c} : phase'[d] = phase[d]
  BY <1>1, <1>3 DEF Consume!Advance, ConsInv, ObjInv, ConsTypeOK
<1>5. ConsTypeOK'
  BY <1>1, <1>2, <1>4 DEF ConsInv, ObjInv, ConsTypeOK
<1>6. WiredLive' /\ UnwiredStopped' /\ Addressed'
  BY <1>1 DEF ConsInv, ObjInv, WiredLive, UnwiredStopped, Addressed
<1>7. CallsOwned'
  BY <1>1, <1>2 DEF ConsInv, ObjInv, ConsTypeOK, CallsOwned
<1>8. DownDrained'
  BY <1>1, <1>4 DEF ConsInv, ObjInv, ConsTypeOK, DownDrained, OpenCallsOf, CallsOf
<1>9. native' \in [Instances -> {"down", "up"}]
  BY <1>1 DEF ConsInv, LifeInv, LifeTypeOK
<1> QED BY <1>1, <1>5, <1>6, <1>7, <1>8, <1>9, QuietPart DEF ObjInv

-----------------------------------------------------------------------------
LEMMA ConsStarts == ASSUME NEW S, NEW O, Init PROVE ConsInv(S, O)
<1>1. LifeInv /\ PoolTyped(S, O)
  BY LifeStarts DEF Init
<1>2. ObjInv
  BY LifecycleAssumption
  DEF Init, LifeInit, Consume!ContractInit, ObjInv, ConsTypeOK, WiredLive, UnwiredStopped,
      Addressed, CallsOwned, DownDrained, OpenCallsOf, CallsOf, Consume!Phases
<1> QED BY <1>1, <1>2 DEF ConsInv

LEMMA ConsStutters ==
  ASSUME NEW S, NEW O, Hosted(S, O), ConsInv(S, O), UNCHANGED vars
  PROVE  ConsInv(S, O)'
<1>1. /\ UNCHANGED poolVars /\ UNCHANGED lifeVars /\ UNCHANGED <<objVars, owner, target>>
      /\ UNCHANGED <<forgotten, phase, verdict>>
  BY DEF vars, callVars
<1>2. PoolTyped(S, O)' /\ \A x : PoolKeeps(x)
  BY <1>1, PoolUnchanged DEF ConsInv
<1>3. /\ phase' \in [Calls -> Consume!Phases] /\ verdict' \in [Calls -> Verdicts \cup {Unset}]
      /\ forgotten' \subseteq Calls
      /\ \A d \in Calls : phase[d] = "reported" => phase'[d] = "reported"
  BY <1>1 DEF ConsInv, ObjInv, ConsTypeOK
<1> QED BY <1>1, <1>2, <1>3, MessageGoesOn

LEMMA ConsStep ==
  ASSUME NEW S, NEW O, Hosted(S, O), ConsInv(S, O), [Next]_vars
  PROVE  ConsInv(S, O)'
<1>1. CASE Next
  BY <1>1, PoolTakesStep, ConstructStep, SubscribeStep, UserCallStep, CallbackStep, CollectStep,
     ExecuteLifecycleStep, OnMessageStep, EmitStep, DoneStep, ReturnedStep, ExecuteWorkStep DEF Next
<1>2. CASE UNCHANGED vars
  BY <1>2, ConsStutters
<1> QED BY <1>1, <1>2

(* The steps of other code on the same pool. *)
LEMMA ConsForeign ==
  ASSUME NEW S, NEW O, Hosted(S, O), ConsInv(S, O),
         UNCHANGED <<lifeVars, objVars, callVars>>,
         PoolTyped(S, O)', \A x \in LifeJobs : PoolKeeps(x)
  PROVE  ConsInv(S, O)'
<1>1. UNCHANGED lifeVars /\ UNCHANGED <<objVars, owner, target>> /\ UNCHANGED <<forgotten, phase, verdict>>
  BY DEF callVars
<1>2. /\ phase' \in [Calls -> Consume!Phases] /\ verdict' \in [Calls -> Verdicts \cup {Unset}]
      /\ forgotten' \subseteq Calls
      /\ \A d \in Calls : phase[d] = "reported" => phase'[d] = "reported"
  BY <1>1 DEF ConsInv, ObjInv, ConsTypeOK
<1> QED BY <1>1, <1>2, MessageGoesOn

(* What this class does to the pool. *)
LEMMA ConsMoves == ASSUME [Next]_vars PROVE PoolMoves(Jobs, Outcomes)
<1> USE DEF PoolMoves
<1>1. CASE PoolTakes
  BY <1>1 DEF PoolTakes, Take
<1>2. ASSUME NEW i \in Instances,
             Construct(i) \/ Subscribe(i) \/ Drop(i) \/ Collect(i) \/ \E c \in Calls : OnMessage(c, i)
      PROVE  UNCHANGED poolVars
  BY <1>2 DEF Construct, Subscribe, Drop, Collect, OnMessage
<1>3. ASSUME NEW i \in Instances, UserCall(i) \/ LifecycleCallback(i) \/ ExecuteLifecycle(i)
      PROVE  PoolMoves(Jobs, Outcomes)
  <2>1. StartJob(i) \in Jobs /\ ShutdownJob(i) \in Jobs /\ \A x \in JobsOf(i) : x \in Jobs
    BY OwnJobs DEF Jobs, LifeJobs
  <2>2. CASE UserCall(i)
    BY <2>1, <2>2 DEF UserCall, Start, Shutdown
  <2>3. CASE LifecycleCallback(i)
    BY <2>1, <2>3 DEF LifecycleCallback, Settle, Rejected, Started, Stopped
  <2>4. CASE ExecuteLifecycle(i)
    BY <2>1, <2>4 DEF ExecuteLifecycle, ExecuteStart, ExecuteShutdown
  <2> QED BY <1>3, <2>2, <2>3, <2>4
<1>4. ASSUME NEW c \in Calls, Emit(c) \/ Done(c) \/ Return(c) \/ ExecuteWork(c)
      PROVE  PoolMoves(Jobs, Outcomes)
  <2>1. WorkJob(c) \in Jobs /\ "ok" \in Outcomes
    BY WorkJobIsJob DEF Outcomes
  <2> QED BY <1>4, <2>1 DEF Emit, Done, Return, ExecuteWork
<1>5. CASE UNCHANGED vars
  BY <1>5 DEF vars
<1> QED BY <1>1, <1>2, <1>3, <1>4, <1>5 DEF Next

(* The inductive invariant, of a process whose pool has no other jobs. *)
ClassInv == ConsInv(Jobs, Outcomes)

LEMMA ClassHosted == Hosted(Jobs, Outcomes)
BY DEF Hosted

THEOREM PushConsumerInvariant == Spec => []ClassInv
<1>1. Init => ClassInv
  BY ConsStarts DEF ClassInv
<1>2. ClassInv /\ [Next]_vars => ClassInv'
  BY ClassHosted, ConsStep DEF ClassInv
<1> QED BY <1>1, <1>2, PTL DEF Spec

(* Every variable of the class keeps its range. *)
THEOREM PushConsumerTypeCorrect == Spec => []TypeOK
<1>1. ClassInv => TypeOK
  BY DEF ClassInv, ConsInv, LifeInv, ObjInv, ConsTypeOK, TypeOK
<1> QED BY <1>1, PushConsumerInvariant, PTL

(* The map leads every C++ consumer to its own object. *)
THEOREM PushConsumerMap == Spec => []MapFindsConsumer
<1>1. ClassInv => MapFindsConsumer
  BY DEF ClassInv, ConsInv, ObjInv, Addressed, MapFindsConsumer
<1> QED BY <1>1, PushConsumerInvariant, PTL

(* A message in progress is at its own consumer, which is not destroyed. *)
THEOREM PushConsumerCalls == Spec => []CallsHaveConsumer
<1>1. ClassInv => CallsHaveConsumer
  BY DEF ClassInv, ConsInv, ObjInv, CallsOwned, WiredLive, CallsHaveConsumer, OpenCallsOf, CallsOf
<1> QED BY <1>1, PushConsumerInvariant, PTL

(* A step of the class is a step of the contract, or shows nothing in it. *)
LEMMA ClassMaps ==
  ASSUME NEW S, NEW O, ConsInv(S, O), [Next]_vars
  PROVE  [Contract!ContractNext]_Seen
<1> SUFFICES Contract!ContractNext \/ Seen' = Seen
  OBVIOUS
<1>1. CASE LifeNext
  BY <1>1, LifeStepImplements DEF ConsInv
<1>2. CASE UNCHANGED <<status, rejected>>
  BY <1>2 DEF Seen
<1>3. ASSUME NEW i \in Instances, UserCall(i) \/ LifecycleCallback(i) \/ ExecuteLifecycle(i)
      PROVE  LifeNext
  BY <1>3 DEF LifeNext, UserCall, LifecycleCallback, ExecuteLifecycle
<1>4. ASSUME NEW i \in Instances, Construct(i) \/ Subscribe(i) \/ Drop(i) \/ Collect(i)
      PROVE  UNCHANGED <<status, rejected>>
  BY <1>4 DEF Construct, Subscribe, Drop, Collect, lifeVars
<1>5. ASSUME NEW c \in Calls,
             \/ Emit(c) \/ Done(c) \/ Return(c) \/ ExecuteWork(c)
             \/ \E i \in Instances : OnMessage(c, i)
      PROVE  UNCHANGED <<status, rejected>>
  BY <1>5 DEF Emit, Done, Return, ExecuteWork, OnMessage, lifeVars
<1>6. Next => LifeNext \/ UNCHANGED <<status, rejected>>
  BY <1>3, <1>4, <1>5 DEF Next, PoolTakes, LifeNext
<1>7. UNCHANGED vars => UNCHANGED <<status, rejected>>
  BY DEF vars, lifeVars
<1> QED BY <1>1, <1>2, <1>6, <1>7

(* The lifecycle of the objects is the contract their users see, and no     *)
(* message and no collection shows in it.                                   *)
THEOREM PushConsumerImplementsContract == Spec => ImplementsInstanceContract
<1>1. Init => Contract!ContractInit
  BY LifeStartsContract DEF Init
<1>2. ClassInv /\ [Next]_vars => [Contract!ContractNext]_Seen
  BY ClassMaps DEF ClassInv
<1> QED BY <1>1, <1>2, PushConsumerInvariant, PTL DEF Spec, ImplementsInstanceContract, Contract!ContractSpec

-----------------------------------------------------------------------------
(* What an idle status tells, when the C client throws its failures. *)

(* The client is where a finished job without error says it is. *)
JobTellsNative ==
  \A i \in Instances :
    /\ Reports(StartJob(i), "ok") => native[i] = "up"
    /\ Reports(ShutdownJob(i), "ok") => native[i] = "down"

(* A client that runs is seen in the status, or will be by the callback. *)
UpSeen ==
  \A i \in Instances :
    native[i] = "up" => status[i] \in {"STARTED", "STOPPING"} \/ Reports(StartJob(i), "ok")

TellsInv == JobTellsNative /\ StatusTellsNative /\ UpSeen

(* A job that reports is finished, and its object waits for it alone. *)
LEMMA ReportingJob ==
  ASSUME NEW S, NEW O, Hosted(S, O), ConsInv(S, O),
         NEW i \in Instances, NEW job \in JobsOf(i), NEW o, Reports(job, o)
  PROVE  /\ \A x \in JobsOf(i) : x \notin running
         /\ status[i] = IF job = StartJob(i) THEN "STARTING" ELSE "STOPPING"
<1>1. Finished(job) /\ InPool(job)
  BY DEF Reports, Finished, InPool
<1>2. job \notin running /\ WaitsFor(i, job)
  BY <1>1 DEF ConsInv, LifeInv, OneJob, OnePlace
<1>3. ASSUME NEW x \in JobsOf(i), x # job PROVE x \notin running
  <2>1. ~WaitsFor(i, x)
    BY <1>2, <1>3, JobsDistinct DEF WaitsFor, JobsOf
  <2> QED BY <2>1 DEF ConsInv, LifeInv, OneJob, InPool
<1> QED BY <1>2, <1>3 DEF WaitsFor

LEMMA RunningJob ==
  ASSUME NEW S, NEW O, Hosted(S, O), ConsInv(S, O),
         NEW i \in Instances, NEW job \in JobsOf(i), job \in running
  PROVE  status[i] = IF job = StartJob(i) THEN "STARTING" ELSE "STOPPING"
<1>1. InPool(job)
  BY DEF InPool
<1> QED BY <1>1 DEF ConsInv, LifeInv, OneJob, WaitsFor

(* Steps that add no report of a lifecycle job and leave the client alone. *)
LEMMA TellsKept ==
  ASSUME NEW S, NEW O, Hosted(S, O), ConsInv(S, O),
         TellsInv, UNCHANGED native, StatusTellsNative', UpSeen',
         \A x \in LifeJobs : \A o : Reports(x, o)' => Reports(x, o)
  PROVE  TellsInv'
<1> SUFFICES ASSUME NEW i \in Instances
             PROVE  /\ Reports(StartJob(i), "ok")' => native'[i] = "up"
                    /\ Reports(ShutdownJob(i), "ok")' => native'[i] = "down"
  BY DEF TellsInv, JobTellsNative, StartJob, ShutdownJob
<1>1. StartJob(i) \in LifeJobs /\ ShutdownJob(i) \in LifeJobs
  BY OwnJobs DEF LifeJobs
<1> QED BY <1>1 DEF TellsInv, JobTellsNative

(* Steps of other jobs. *)
LEMMA TellsForeign ==
  ASSUME NEW S, NEW O, Hosted(S, O), ConsInv(S, O),
         TellsInv, UNCHANGED <<status, native>>,
         \A x \in LifeJobs : \A o : Reports(x, o)' <=> Reports(x, o)
  PROVE  TellsInv'
<1>1. StatusTellsNative'
  BY DEF TellsInv, StatusTellsNative
<1>2. UpSeen'
  <2> SUFFICES ASSUME NEW k \in Instances, native[k] = "up",
                      status[k] \notin {"STARTED", "STOPPING"}
               PROVE  Reports(StartJob(k), "ok")'
    BY DEF UpSeen, StartJob
  <2>1. StartJob(k) \in LifeJobs /\ Reports(StartJob(k), "ok")
    BY OwnJobs DEF LifeJobs, TellsInv, UpSeen
  <2> QED BY <2>1
<1> QED BY <1>1, <1>2, TellsKept

LEMMA TellsExecute ==
  ASSUME NEW S, NEW O, Hosted(S, O), ConsInv(S, O),
         TellsInv, NEW i \in Instances, NEW job \in JobsOf(i), NEW outcome \in Outcomes,
         ExecuteReturns(job, outcome), status' = status,
         \A k \in Instances \ {i} : native'[k] = native[k],
         IF job = StartJob(i)
           THEN native'[i] = IF outcome = "ok" THEN "up" ELSE native[i]
           ELSE outcome = "ok" => native'[i] = "down"
  PROVE  TellsInv'
<1>1. job \in running
  BY DEF ExecuteReturns
<1>2. \A x \in JobsOf(i) : \A o : ~Reports(x, o)
  BY <1>1, ReportingJob
<1>3. \A x, o : Reports(x, o)' <=> Reports(x, o) \/ (x = job /\ o = outcome)
  BY ReturnOutcome DEF ConsInv, Hosted
<1>4. status[i] \in {"STARTING", "STOPPING"}
  <2>1. InPool(job)
    BY <1>1 DEF InPool
  <2> QED BY <2>1 DEF ConsInv, LifeInv, OneJob, WaitsFor
<1>5. JobTellsNative'
  <2> SUFFICES ASSUME NEW k \in Instances
               PROVE  /\ Reports(StartJob(k), "ok")' => native'[k] = "up"
                      /\ Reports(ShutdownJob(k), "ok")' => native'[k] = "down"
    BY DEF JobTellsNative, StartJob, ShutdownJob
  <2>1. CASE k = i
    BY <1>2, <1>3, <2>1, OwnJobs
  <2>2. CASE k # i
    <3>1. StartJob(k) # job /\ ShutdownJob(k) # job
      BY <2>2, JobsDistinct DEF JobsOf
    <3> QED BY <1>3, <2>2, <3>1 DEF TellsInv, JobTellsNative
  <2> QED BY <2>1, <2>2
<1>6. StatusTellsNative'
  BY <1>4 DEF TellsInv, StatusTellsNative
<1>7. UpSeen'
  <2> SUFFICES ASSUME NEW k \in Instances, native'[k] = "up", status'[k] \notin {"STARTED", "STOPPING"}
               PROVE  Reports(StartJob(k), "ok")'
    BY DEF UpSeen, StartJob
  <2>1. CASE k = i
    <3>1. job = StartJob(i)
      BY <1>1, <2>1, RunningJob
    <3>2. outcome = "ok" \/ native[i] = "up"
      BY <2>1, <3>1
    <3> QED BY <1>2, <1>3, <2>1, <3>1, <3>2, OwnJobs DEF TellsInv, UpSeen
  <2>2. CASE k # i
    BY <1>3, <2>2 DEF TellsInv, UpSeen
  <2> QED BY <2>1, <2>2
<1> QED BY <1>5, <1>6, <1>7 DEF TellsInv

LEMMA TellsStep ==
  ASSUME ~FailureCodes, NEW S, NEW O, Hosted(S, O), ConsInv(S, O),
         TellsInv, Next
  PROVE  TellsInv'
<1>1. Outcomes = {"ok", "error"}
  BY DEF Outcomes
<1>2. ASSUME UNCHANGED <<finished, status, native>> PROVE TellsInv'
  BY <1>2, TellsKept DEF Reports, TellsInv, StatusTellsNative, UpSeen, StartJob
<1>3. CASE PoolTakes
  BY <1>2, <1>3 DEF PoolTakes, Take, PoolThreadTakes, lifeVars
<1>4. ASSUME NEW i \in Instances, Construct(i) \/ Subscribe(i) \/ Drop(i) PROVE TellsInv'
  BY <1>2, <1>4 DEF Construct, Subscribe, Drop, poolVars, lifeVars
<1>5. ASSUME NEW i \in Instances, Collect(i) PROVE TellsInv'
  <2>1. /\ native' = [native EXCEPT ![i] = "down"] /\ UNCHANGED <<finished, status>>
        /\ status[i] = "STOPPED"
    BY <1>5 DEF Collect, Reachable, ConsInv, ObjInv, UnwiredStopped, poolVars
  <2>2. \A x \in JobsOf(i) : \A o : ~Reports(x, o)
    BY <2>1, ReportingJob
  <2>3. JobTellsNative'
    <3> SUFFICES ASSUME NEW k \in Instances
                 PROVE  /\ Reports(StartJob(k), "ok") => native'[k] = "up"
                        /\ Reports(ShutdownJob(k), "ok") => native'[k] = "down"
      BY <2>1 DEF JobTellsNative, StartJob, ShutdownJob, Reports
    <3> QED BY <2>1, <2>2, OwnJobs DEF TellsInv, JobTellsNative, ConsInv, LifeInv, LifeTypeOK
  <2>4. StatusTellsNative'
    BY <2>1 DEF TellsInv, StatusTellsNative, ConsInv, LifeInv, LifeTypeOK
  <2>5. UpSeen'
    BY <2>1 DEF TellsInv, UpSeen, Reports, StartJob, ConsInv, LifeInv, LifeTypeOK
  <2> QED BY <2>3, <2>4, <2>5 DEF TellsInv
<1>6. ASSUME NEW i \in Instances, UserCall(i) PROVE TellsInv'
  <2>1. UNCHANGED <<finished, native>> /\ StatusTellsNative'
    BY <1>6 DEF UserCall, Start, Shutdown, StatusGoes, AsyncQueueWorker, TellsInv, StatusTellsNative,
                ConsInv, LifeInv, LifeTypeOK
  <2>2. UpSeen'
    BY <1>6, <2>1 DEF UserCall, Start, Shutdown, StatusGoes, TellsInv, StatusTellsNative, UpSeen,
                      Reports, StartJob, ConsInv, LifeInv, LifeTypeOK
  <2> QED BY <2>1, <2>2, TellsKept DEF Reports
<1>7. ASSUME NEW i \in Instances, LifecycleCallback(i) PROVE TellsInv'
  <2>1. ASSUME NEW job \in JobsOf(i), NEW outcome, CallBack(job, outcome)
        PROVE  /\ Reports(job, outcome) /\ \A x, o : Reports(x, o)' => Reports(x, o)
               /\ \A x, o : Reports(x, o) => Reports(x, o)' \/ (x = job /\ o = outcome)
    BY <2>1, CallBackOutcome DEF ConsInv
  <2>2. CASE Rejected(i)
    <3>1. /\ \A x, o : Reports(x, o)' => Reports(x, o)
          /\ \A x : Reports(x, "ok") => Reports(x, "ok")'
      BY <2>1, <2>2 DEF Rejected
    <3>2. UNCHANGED <<status, native>>
      BY <2>2 DEF Rejected
    <3>3. StatusTellsNative' /\ UpSeen'
      BY <3>1, <3>2 DEF TellsInv, StatusTellsNative, UpSeen, StartJob
    <3> QED BY <3>1, <3>2, <3>3, TellsKept
  <2>3. CASE Started(i)
    <3>1. CallBack(StartJob(i), "ok") /\ status' = [status EXCEPT ![i] = "STARTED"] /\ native' = native
      BY <1>1, <2>3 DEF Started
    <3>2. /\ Reports(StartJob(i), "ok") /\ \A x, o : Reports(x, o)' => Reports(x, o)
          /\ \A x : x # StartJob(i) /\ Reports(x, "ok") => Reports(x, "ok")'
      <4> DEFINE job == StartJob(i)
      <4>1. job \in JobsOf(i) /\ CallBack(job, "ok")
        BY <3>1, OwnJobs
      <4>2. /\ Reports(job, "ok") /\ \A x, o : Reports(x, o)' => Reports(x, o)
            /\ \A x : x # job /\ Reports(x, "ok") => Reports(x, "ok")'
        <5> HIDE DEF job
        <5> QED BY <2>1, <4>1
      <4> QED BY <4>2
    <3>3. StatusTellsNative'
      BY <3>1, <3>2 DEF TellsInv, JobTellsNative, StatusTellsNative, ConsInv, LifeInv, LifeTypeOK
    <3>4. UpSeen'
      <4> SUFFICES ASSUME NEW k \in Instances, native'[k] = "up", k # i,
                          status'[k] \notin {"STARTED", "STOPPING"}
                   PROVE  Reports(StartJob(k), "ok")'
        BY <3>1 DEF UpSeen, StartJob, ConsInv, LifeInv, LifeTypeOK
      <4>1. Reports(StartJob(k), "ok") /\ StartJob(k) # StartJob(i)
        BY <3>1, JobsDistinct DEF TellsInv, UpSeen, ConsInv, LifeInv, LifeTypeOK
      <4> QED BY <3>2, <4>1
    <3> QED BY <3>1, <3>2, <3>3, <3>4, TellsKept
  <2>4. CASE Stopped(i)
    <3>1. CallBack(ShutdownJob(i), "ok") /\ status' = [status EXCEPT ![i] = "STOPPED"] /\ native' = native
      BY <1>1, <2>4 DEF Stopped
    <3>2. /\ Reports(ShutdownJob(i), "ok") /\ \A x, o : Reports(x, o)' => Reports(x, o)
          /\ \A x : x # ShutdownJob(i) /\ Reports(x, "ok") => Reports(x, "ok")'
      <4> DEFINE job == ShutdownJob(i)
      <4>1. job \in JobsOf(i) /\ CallBack(job, "ok")
        BY <3>1, OwnJobs
      <4>2. /\ Reports(job, "ok") /\ \A x, o : Reports(x, o)' => Reports(x, o)
            /\ \A x : x # job /\ Reports(x, "ok") => Reports(x, "ok")'
        <5> HIDE DEF job
        <5> QED BY <2>1, <4>1
      <4> QED BY <4>2
    <3>3. StatusTellsNative'
      BY <3>1, <3>2 DEF TellsInv, JobTellsNative, StatusTellsNative, ConsInv, LifeInv, LifeTypeOK
    <3>4. UpSeen'
      <4> SUFFICES ASSUME NEW k \in Instances, native'[k] = "up", k # i,
                          status'[k] \notin {"STARTED", "STOPPING"}
                   PROVE  Reports(StartJob(k), "ok")'
        BY <3>1, <3>2 DEF UpSeen, StartJob, TellsInv, JobTellsNative
      <4>1. Reports(StartJob(k), "ok") /\ StartJob(k) # ShutdownJob(i)
        BY <3>1, JobsDistinct DEF TellsInv, UpSeen, ConsInv, LifeInv, LifeTypeOK
      <4> QED BY <3>2, <4>1
    <3> QED BY <3>1, <3>2, <3>3, <3>4, TellsKept
  <2> QED BY <1>7, <2>2, <2>3, <2>4 DEF LifecycleCallback, Settle
<1>8. ASSUME NEW i \in Instances, ExecuteLifecycle(i) PROVE TellsInv'
  <2>1. CASE ExecuteStart(i)
    <3> DEFINE job == StartJob(i)
    <3>1. PICK outcome \in Outcomes :
            /\ ExecuteReturns(job, outcome)
            /\ native' = [native EXCEPT ![i] = IF outcome = "ok" THEN "up" ELSE @]
            /\ status' = status
      BY <2>1 DEF ExecuteStart
    <3>2. /\ job \in JobsOf(i) /\ job = StartJob(i)
          /\ native'[i] = IF outcome = "ok" THEN "up" ELSE native[i]
          /\ \A k \in Instances \ {i} : native'[k] = native[k]
      BY <3>1, OwnJobs DEF ConsInv, LifeInv, LifeTypeOK
    <3> HIDE DEF job
    <3> QED BY <3>1, <3>2, TellsExecute
  <2>2. CASE ExecuteShutdown(i)
    <3> DEFINE job == ShutdownJob(i)
    <3>1. PICK outcome \in Outcomes :
            /\ ExecuteReturns(job, outcome)
            /\ \E n \in IF outcome = "ok" THEN {"down"} ELSE {"down", native[i]} :
                 native' = [native EXCEPT ![i] = n]
            /\ status' = status
      BY <2>2 DEF ExecuteShutdown
    <3>2. /\ job \in JobsOf(i) /\ job # StartJob(i)
          /\ outcome = "ok" => native'[i] = "down"
          /\ \A k \in Instances \ {i} : native'[k] = native[k]
      BY <3>1, OwnJobs DEF ConsInv, LifeInv, LifeTypeOK
    <3> HIDE DEF job
    <3> QED BY <3>1, <3>2, TellsExecute
  <2> QED BY <1>8, <2>1, <2>2 DEF ExecuteLifecycle
<1>9. ASSUME NEW c \in Calls, NEW i \in Instances, OnMessage(c, i) PROVE TellsInv'
  BY <1>2, <1>9 DEF OnMessage, poolVars, lifeVars
<1>10. ASSUME NEW c \in Calls, Emit(c) \/ Return(c) PROVE TellsInv'
  BY <1>2, <1>10 DEF Emit, Return, AsyncQueueWorker, poolVars, lifeVars
<1>11. ASSUME NEW c \in Calls, Done(c) \/ ExecuteWork(c) PROVE TellsInv'
  <2>1. UNCHANGED <<status, native>>
    BY <1>11 DEF Done, ExecuteWork, lifeVars
  <2>2. \A x \in LifeJobs : \A o : Reports(x, o)' <=> Reports(x, o)
    <3> DEFINE job == WorkJob(c)
    <3>1. job \notin LifeJobs
      BY WorkJobIsJob
    <3>2. UNCHANGED finished \/ CallBack(job, "ok") \/ ExecuteReturns(job, "ok")
      BY <1>11 DEF Done, ExecuteWork, poolVars
    <3>3. "ok" \in Outcomes
      BY DEF Outcomes
    <3> HIDE DEF job
    <3>4. CASE UNCHANGED finished
      BY <3>4 DEF Reports
    <3>5. CASE CallBack(job, "ok")
      BY <3>1, <3>5, CallBackOutcome DEF ConsInv
    <3>6. CASE ExecuteReturns(job, "ok")
      BY <3>1, <3>3, <3>6, ReturnOutcome DEF ConsInv, Hosted
    <3> QED BY <3>2, <3>4, <3>5, <3>6
  <2> QED BY <2>1, <2>2, TellsForeign
<1> QED BY <1>3, <1>4, <1>5, <1>6, <1>7, <1>8, <1>9, <1>10, <1>11 DEF Next

LEMMA TellsStarts == ASSUME Init PROVE TellsInv
BY DEF Init, LifeInit, PoolInit, TellsInv, JobTellsNative, StatusTellsNative, UpSeen, Reports

LEMMA TellsStutters == ASSUME TellsInv, UNCHANGED vars PROVE TellsInv'
BY DEF vars, poolVars, lifeVars, TellsInv, JobTellsNative, StatusTellsNative, UpSeen, Reports,
       StartJob, ShutdownJob

LEMMA TellsInvariant == ASSUME ~FailureCodes PROVE Spec => []TellsInv
<1>1. Init => TellsInv
  BY TellsStarts
<1>2. ClassInv /\ TellsInv /\ [Next]_vars => TellsInv'
  BY ClassHosted, TellsStep, TellsStutters DEF ClassInv
<1> QED BY <1>1, <1>2, PushConsumerInvariant, PTL DEF Spec

(* With failures thrown, an idle object tells whether its client runs. *)
THEOREM PushConsumerStatus == ASSUME ~FailureCodes PROVE Spec => []StatusTellsNative
<1>1. TellsInv => StatusTellsNative
  BY DEF TellsInv
<1> QED BY <1>1, TellsInvariant, PTL

(* With failures thrown, no listener is owed an answer once shutdown() is   *)
(* answered.                                                                *)
THEOREM PushConsumerDrains == ASSUME ~FailureCodes PROVE Spec => []ShutdownDrains
<1>1. ClassInv /\ TellsInv => ShutdownDrains
  BY DEF ClassInv, ConsInv, ObjInv, DownDrained, TellsInv, StatusTellsNative, ShutdownDrains
<1> QED BY <1>1, PushConsumerInvariant, TellsInvariant, PTL
=============================================================================
