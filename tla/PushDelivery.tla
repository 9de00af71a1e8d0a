----------------------------- MODULE PushDelivery ------------------------------
(***************************************************************************)
(* How a message travels from a consume thread of the C++ client to the    *)
(* JavaScript "message" listener and back: RocketMQPushConsumer::OnMessage *)
(* on the consume threads, HandleMessageInEventLoop on the event loop, one *)
(* uv_async_t per invocation between them, and the rendezvous of           *)
(* ConsumerAck for the answer.  The consumer is started and its listener   *)
(* is set (the JavaScript constructor does it).                            *)
(***************************************************************************)
EXTENDS ConsumerAck, Naturals, FiniteSets

CONSTANTS
  NoCall,         \* the event loop is not handling a message
  ThreadCount,    \* consume threads of the C++ client (option threadCount)
  MaxInserts,     \* bound: other PushConsumers constructed meanwhile
  AsyncInitRace,  \* may two threads be inside the loop's handle queue at once?
  MapRace         \* may a lookup meet an insertion into _push_consumer_map?

ASSUME PushAssumption ==
  /\ NoCall \notin Calls
  /\ ThreadCount \in Nat \ {0}
  /\ MaxInserts \in Nat
  /\ AsyncInitRace \in BOOLEAN
  /\ MapRace \in BOOLEAN

VARIABLES
  async,       \* state of the uv_async_t that OnMessage(c) allocated
  touched,     \* handles whose links changed while uv_async_init(c) runs
  registered,  \* handles the loop finds in its queue
  links,       \* of that queue: "whole", "cut" or "wild"
  handling,    \* the invocation whose HandleMessageInEventLoop is running
  inserting,   \* the event-loop thread is inside _push_consumer_map[..] = this
  inserts,     \* other consumers constructed so far
  mapEntry,    \* what _push_consumer_map holds for this consumer
  refused      \* invocations answered E_RECONSUME_LATER by OnMessage itself

queueVars == <<touched, registered, links>>
loopVars == <<async, queueVars, handling>>
mapVars  == <<inserting, inserts, mapEntry, refused>>
vars     == <<ackVars, loopVars, mapVars>>

AsyncState == {"none", "initing", "ready", "sent", "running", "closing", "freed"}

Init ==
  /\ AckInit
  /\ async      = [c \in Calls |-> "none"]
  /\ touched    = [c \in Calls |-> {}]
  /\ registered = {}
  /\ links      = "whole"
  /\ handling   = NoCall
  /\ inserting  = FALSE
  /\ inserts    = 0
  /\ mapEntry   = "this"
  /\ refused    = {}

AsyncGoes(c, from, to) ==
  /\ async[c] = from
  /\ async' = [async EXCEPT ![c] = to]

BusyThreads == {c \in Calls : FrameAlive(c)}

(* The event-loop thread is in JavaScript or between two callbacks. *)
InScript == ~LoopInAck /\ ~inserting

-----------------------------------------------------------------------------
(* The loop's queue of handles, a linked list without a lock.  The loop     *)
(* thread walks it and unlinks handles; uv_async_init appends to it on a    *)
(* consume thread, between OnMessage and AsyncInit below.                   *)

(* Links of the handles in S change under every uv_async_init in progress. *)
Touch(S) ==
  touched' = [c \in Calls |-> IF async'[c] = "initing" THEN touched[c] \cup S ELSE {}]

Raced(c) == AsyncInitRace /\ touched[c] # {}

(* What an insertion among changing links may leave out of the loop's reach: *)
(* the handle itself and those that were inserted or moved meanwhile.        *)
Torn(c) == touched[c] \cup {c}

(* The tail that uv_async_init linked its handle to is being closed or freed. *)
TailGone(c) == \E d \in touched[c] : async[d] \in {"closing", "freed"}

(* What it may do to the queue: cut its end off, so that later insertions    *)
(* are out of reach too, or lead it into a handle that is closed or freed.   *)
TornLinks(c) == {"whole", "cut"} \cup (IF TailGone(c) THEN {"wild"} ELSE {})

(* A queue that leads into freed memory may show any of its handles; what    *)
(* else a program does that writes there is left out.                        *)
Seen(S) == IF links = "wild" THEN SUBSET S ELSE {S}

Insert(c) ==
  \/ ~Raced(c) /\ links = "whole" /\ registered' = registered \cup {c} /\ UNCHANGED links
  \/ links = "cut" /\ UNCHANGED <<registered, links>>
  \/ links = "wild" /\ registered' \in Seen(registered \cup {c}) /\ UNCHANGED links
  \/ /\ Raced(c) /\ links # "wild"
     /\ \E lost \in SUBSET Torn(c) : registered' = (registered \cup {c}) \ lost
     /\ links' \in TornLinks(c)

(* The loop relinks its handles, which leaves those of S; it may by chance  *)
(* mend an end that was cut off.                                            *)
Relink(S) ==
  /\ registered' \in Seen(S)
  /\ links' \in IF links = "cut" THEN {"whole", "cut"} ELSE {links}

-----------------------------------------------------------------------------
(* Consume threads. *)

(* The C++ client has a message for a free thread and calls OnMessage once *)
(* for it; c stands for that invocation.                                   *)
Invoked(c) ==
  /\ waiter[c] = "out"
  /\ c \notin refused
  /\ Cardinality(BusyThreads) < ThreadCount

(* The consumer is found: build ack_inner and param on the stack, allocate *)
(* the handle and enter uv_async_init.                                     *)
OnMessage(c) ==
  /\ Invoked(c)
  /\ mapEntry = "this"
  /\ Construct(c)
  /\ AsyncGoes(c, "none", "initing")
  /\ UNCHANGED <<queueVars, handling, mapVars>>

(* operator[] does not find the consumer and adds a null entry: the        *)
(* message goes back to the broker.  A lookup that overlaps an insertion   *)
(* may miss an entry that is there, and may leave it shadowed.             *)
OnMessageRefused(c) ==
  /\ Invoked(c)
  /\ \/ mapEntry = "null" /\ UNCHANGED mapEntry
     \/ MapRace /\ inserting /\ mapEntry' \in {"this", "null"}
  /\ refused' = refused \cup {c}
  /\ UNCHANGED <<ackVars, loopVars, inserting, inserts>>

AsyncInit(c) ==
  /\ AsyncGoes(c, "initing", "ready")
  /\ Insert(c)
  /\ Touch({c})
  /\ UNCHANGED <<ackVars, handling, mapVars>>

(* Mutant: the handle is never sent. *)
NoSend(c) ==
  /\ AsyncGoes(c, "ready", "ready")
  /\ UNCHANGED <<ackVars, queueVars, handling, mapVars>>

(* async->data = &param, then uv_async_send. *)
AsyncSend(c) ==
  /\ AsyncGoes(c, "ready", "sent")
  /\ UNCHANGED <<ackVars, queueVars, handling, mapVars>>

(* OnMessage goes on to WaitResult only after the send. *)
ThreadStep(c) ==
  /\ async[c] \notin {"none", "initing", "ready"}
  /\ WaiterStep(c)
  /\ UNCHANGED <<loopVars, mapVars>>

-----------------------------------------------------------------------------
(* The event-loop thread. *)

Dispatchable(c) == c \in registered /\ async[c] = "sent"

(* HandleMessageInEventLoop up to the call of the listener: read param,    *)
(* create the ack object, link it, copy the five message columns.  The walk *)
(* that finds the handle takes each handle out of the queue and appends it. *)
HandleMessage(c) ==
  /\ InScript
  /\ handling = NoCall
  /\ Dispatchable(c)
  /\ AsyncGoes(c, "sent", "running")
  /\ SetInner(c)
  /\ handling' = c
  /\ Touch(registered)
  /\ Relink(registered)
  /\ UNCHANGED mapVars

(* The user's code, inside a listener or in any other turn. *)
UserDone(c, arg) ==
  /\ ~inserting
  /\ Done(c, arg)
  /\ UNCHANGED <<loopVars, mapVars>>

LoopAckStep(c) ==
  /\ AckerStep(c)
  /\ UNCHANGED <<loopVars, mapVars>>

UserDropsAck(c) ==
  /\ ~inserting
  /\ handling # c
  /\ CollectAck(c)
  /\ UNCHANGED <<loopVars, mapVars>>

(* Mutant: the handle is sent again instead of closed. *)
HandlerReturnRearms(c) ==
  /\ InScript
  /\ handling = c
  /\ AsyncGoes(c, "running", "sent")
  /\ handling' = NoCall
  /\ UNCHANGED <<ackVars, queueVars, mapVars>>

(* Mutant: the handle is not closed. *)
HandlerReturnUnclosed(c) ==
  /\ InScript
  /\ handling = c
  /\ handling' = NoCall
  /\ UNCHANGED <<ackVars, async, queueVars, mapVars>>

(* The listener returns; uv_close takes the handle out of the queue. *)
HandlerReturn(c) ==
  /\ InScript
  /\ handling = c
  /\ AsyncGoes(c, "running", "closing")
  /\ handling' = NoCall
  /\ Touch({c})
  /\ Relink(registered \ {c})
  /\ UNCHANGED <<ackVars, mapVars>>

(* The loop's closing phase takes the handle out of the list of all handles *)
(* and calls close_async_done, which frees it.                              *)
CloseAsyncDone(c) ==
  /\ InScript
  /\ handling = NoCall
  /\ AsyncGoes(c, "closing", "freed")
  /\ Touch({c})
  /\ UNCHANGED <<ackVars, registered, links, handling, mapVars>>

(* Another PushConsumer is constructed: _push_consumer_map[..] = this. *)
MapInsertBegin ==
  /\ InScript
  /\ inserts < MaxInserts
  /\ inserting' = TRUE
  /\ inserts' = inserts + 1
  /\ UNCHANGED <<ackVars, loopVars, mapEntry, refused>>

MapInsertEnd ==
  /\ inserting
  /\ inserting' = FALSE
  /\ UNCHANGED <<ackVars, loopVars, inserts, mapEntry, refused>>

-----------------------------------------------------------------------------
Next ==
  \/ MapInsertBegin
  \/ MapInsertEnd
  \/ \E c \in Calls :
       \/ OnMessage(c) \/ OnMessageRefused(c)
       \/ AsyncInit(c) \/ AsyncSend(c) \/ ThreadStep(c)
       \/ HandleMessage(c) \/ LoopAckStep(c) \/ UserDropsAck(c)
       \/ HandlerReturn(c) \/ CloseAsyncDone(c)
       \/ \E arg \in DoneArgs : UserDone(c, arg)

Spec == Init /\ [][Next]_vars

(* Threads that can run do run; the loop serves every pending handle and   *)
(* finishes what it began, which includes that a listener returns.  Nobody *)
(* has to send a message, call done() or construct a consumer.             *)
Fairness ==
  /\ WF_vars(MapInsertEnd)
  /\ \A c \in Calls :
       /\ WF_vars(AsyncInit(c)) /\ WF_vars(AsyncSend(c)) /\ WF_vars(ThreadStep(c))
       /\ WF_vars(HandleMessage(c)) /\ WF_vars(LoopAckStep(c))
       /\ WF_vars(HandlerReturn(c)) /\ WF_vars(CloseAsyncDone(c))

FairSpec == Spec /\ Fairness

-----------------------------------------------------------------------------
TypeOK ==
  /\ AckTypeOK
  /\ async \in [Calls -> AsyncState]
  /\ touched \in [Calls -> SUBSET Calls]
  /\ registered \subseteq Calls
  /\ links \in {"whole", "cut", "wild"}
  /\ handling \in Calls \cup {NoCall}
  /\ inserting \in BOOLEAN
  /\ inserts \in 0..MaxInserts
  /\ mapEntry \in {"this", "null"}
  /\ refused \subseteq Calls

(* The event loop uses the rendezvous as its two classes intend: it links  *)
(* one new ack object to one frame, once.                                  *)
UsesAckProtocol == AckSpec

(* async->data and the message point into OnMessage's stack frame: the     *)
(* frame exists as long as the handle may still be dispatched.             *)
ParamAlive ==
  \A c \in Calls : async[c] \in {"initing", "ready", "sent"} => FrameAlive(c)

(* Backpressure: the messages JavaScript has and has not answered are      *)
(* never more than the consume threads.                                    *)
UnansweredBounded ==
  Cardinality({c \in Calls : ackObj[c] = "linked" /\ acker[c] # "clear"}) <= ThreadCount

(* Every message a consume thread brings reaches the listener: its consumer *)
(* is found, and its handle is not lost on the way.                        *)
EveryMessageOffered ==
  \A c \in Calls : FrameAlive(c) \/ c \in refused ~> ackObj[c] # "absent"

(* Every handle that is allocated is freed, answered or not. *)
EveryHandleFreed == \A c \in Calls : async[c] # "none" ~> async[c] = "freed"
=============================================================================
