------------------------------- MODULE Router -------------------------------
(***************************************************************************)
(* The message router (internal/router): consumers poll a queue and route  *)
(* each copy through the in-flight tracker to a pool; a pool serves each   *)
(* message group through one drainer goroutine and IMMEDIATE messages      *)
(* through one goroutine each; both deliver through the mediator, retry in *)
(* the pipeline and acknowledge at the broker.  Pools and consumers come   *)
(* and go while goroutines started by earlier ones are still running.      *)
(*                                                                         *)
(* A step is one critical section (pool, tracker or manager mutex), one    *)
(* atomic counter update or one broker call; anything can happen between.  *)
(* Only a decrement next to a tracker removal is one step with it.         *)
(***************************************************************************)
EXTENDS Integers, Sequences, FiniteSets, FiniteSetsExt, InFlightTracker

CONSTANTS
  Group,          \* message groups
  GroupId,        \* application message -> its group
  Immediate,      \* application messages in IMMEDIATE dispatch mode
  Code,           \* pool codes
  DefaultPool,    \* DEFAULT-POOL
  PoolCode,       \* application message -> pool code
  Pool,           \* pool objects; a code is served by one at a time
  Consumer,       \* consumer incarnations of the one queue
  Worker,         \* goroutines that may run at once
  MaxPoll,        \* messages per poll (10 in the code)
  Concurrency,    \* semaphore slots of a pool
  Capacity,       \* max(concurrency * 20, 50)
  U32,            \* modulus of the uint32 queueSize (2^32 in the code)
  StableIds,      \* redeliveries keep the broker id (SQS, Postgres; not NATS)
  RemembersAcks,  \* the client remembers failed acknowledgements (SQS)
  Operations      \* the management operations this instance exercises

ASSUME RouterAssumption ==
  /\ GroupId \in [Message -> Group]
  /\ Immediate \subseteq Message
  /\ DefaultPool \in Code
  /\ PoolCode \in [Message -> Code]
  /\ MaxPoll \in Nat \ {0}
  /\ Concurrency \in Nat \ {0}
  /\ Capacity \in Nat \ {0}
  /\ U32 \in Nat /\ U32 > Capacity
  /\ None \notin Group \cup Pool \cup Consumer
  /\ StableIds \in BOOLEAN /\ RemembersAcks \in BOOLEAN
  /\ Operations \subseteq {"pools", "shutdown", "queue", "restart", "reap", "forceNack"}

VARIABLES
  broker,     \* per broker message: lease state and current receipt handle
  tracker,    \* InFlightTracker
  groupQs,    \* per pool and group: the groupQueue
  queueSize,  \* per pool: the pending counter
  stopped,    \* per pool: the stopped flag
  pools,      \* Manager.pools: the pool object serving each code
  mgr,        \* what Reconfigure or Shutdown does while holding Manager.mu
  current,    \* Manager.consumers: the registered consumer
  ctxDone,    \* per consumer: its context is cancelled
  cons,       \* per consumer: its poll loop
  go,         \* goroutines of the pools
  stall,      \* the entry the stall detector has just force-nacked
  settled     \* history: messages with a terminal outcome

poolVars == <<groupQs, queueSize, stopped>>
mgrVars == <<pools, mgr, current, ctxDone>>
vars == <<broker, tracker, poolVars, mgrVars, cons, go, stall, settled>>

-----------------------------------------------------------------------------
(* State *)

NoQueue == [present |-> FALSE, working |-> FALSE, msgs |-> << >>]

WorkerPC == { "off", "top", "dec", "acquire", "park", "parkCount", "clear", "proc",
              "dupAck", "mediate", "ackRead", "ackSend", "ackRemove",
              "requeue", "requeueCount", "backoff" }

Off == [pc |-> "off", pool |-> None, group |-> None, ctx |-> None, msg |-> None, rh |-> None]

ConsumerPC == { "unused", "poll", "register", "kick", "ackDup", "resolve",
                "submit", "immediate", "enqueue", "count", "drain" }

Loop(pc) == [pc |-> pc, batch |-> << >>, pool |-> None]

NoStop == [todo |-> {}, pool |-> None, left |-> {}]

Delivery == [ st : {"unsent", "visible", "leased", "deleted"}, receipt : Handle \cup {None},
              pendingDelete : SUBSET Consumer ]

groupQueue == [present : BOOLEAN, working : BOOLEAN, msgs : Seq(Copy)]

Stopping == [todo : SUBSET Code, pool : Pool \cup {None}, left : SUBSET Copy]

PollLoop == [pc : ConsumerPC, batch : Seq(Copy), pool : Pool \cup {None}]

Routine == [ pc : WorkerPC, pool : Pool \cup {None}, group : Group \cup {None},
             ctx : Consumer \cup {None}, msg : Copy \cup {None}, rh : Handle \cup {None} ]

TypeOK ==
  /\ broker \in [Broker -> Delivery]
  /\ tracker \in Tracker
  /\ groupQs \in [Pool -> [Group -> groupQueue]]
  /\ queueSize \in [Pool -> 0 .. (U32 - 1)]
  /\ stopped \in [Pool -> BOOLEAN]
  /\ pools \in [Code -> Pool \cup {None}]
  /\ mgr \in Stopping
  /\ current \in Consumer \cup {None}
  /\ ctxDone \in [Consumer -> BOOLEAN]
  /\ cons \in [Consumer -> PollLoop]
  /\ go \in [Worker -> Routine]
  /\ stall \in BrokerId \cup {None}
  /\ settled \in SUBSET Message

Init ==
  /\ broker = [b \in Broker |-> [st |-> "unsent", receipt |-> None, pendingDelete |-> {}]]
  /\ tracker = NewInFlightTracker
  /\ groupQs = [p \in Pool |-> [g \in Group |-> NoQueue]]
  /\ queueSize = [p \in Pool |-> 0]
  /\ stopped = [p \in Pool |-> FALSE]
  /\ pools \in {f \in [Code -> Pool] : \A k, l \in Code : k # l => f[k] # f[l]}
  /\ mgr = NoStop
  /\ current \in Consumer
  /\ ctxDone = [c \in Consumer |-> FALSE]
  /\ cons = [c \in Consumer |-> Loop(IF c = current THEN "poll" ELSE "unused")]
  /\ go = [w \in Worker |-> Off]
  /\ stall = None
  /\ settled = {}

-----------------------------------------------------------------------------
(* Broker.  Nack is a no-op on SQS; elsewhere it makes the message visible  *)
(* early, which Lapse allows at any time.                                   *)

Publish(b) ==
  /\ broker[b].st = "unsent"
  /\ broker' = [broker EXCEPT ![b].st = "visible"]
  /\ UNCHANGED <<tracker, poolVars, mgrVars, cons, go, stall, settled>>

\* The visibility timeout (ack wait) of a leased message runs out.
Lapse(b) ==
  /\ broker[b].st = "leased"
  /\ broker' = [broker EXCEPT ![b].st = "visible"]
  /\ UNCHANGED <<tracker, poolVars, mgrVars, cons, go, stall, settled>>

\* A NATS receipt names the message, an SQS or Postgres one the delivery.
Valid(h) ==
  /\ broker[h[1]].st \in {"visible", "leased"}
  /\ StableIds => broker[h[1]].receipt = h

Gone == [st |-> "deleted", receipt |-> None, pendingDelete |-> {}]

\* Ack by the client of consumer c: the message is deleted, or the call fails
\* (always when the caller's context is cancelled) and an SQS client that knows
\* the receipt remembers the message.
Ack(c, h, ctx) ==
  \/ ~ctxDone[ctx] /\ Valid(h) /\ broker' = [broker EXCEPT ![h[1]] = Gone]
  \/ UNCHANGED broker
  \/ /\ RemembersAcks /\ broker[h[1]].st \in {"visible", "leased"}
     /\ broker' = [broker EXCEPT ![h[1]].pendingDelete = @ \cup {c}]

-----------------------------------------------------------------------------
(* Counters, queues and goroutines *)

Inc(p) == queueSize' = [queueSize EXCEPT ![p] = (@ + 1) % U32]

\* A signed counter; not what the code does.
DecSigned(p) == queueSize' = [queueSize EXCEPT ![p] = @ - 1]

Dec(p) == queueSize' = [queueSize EXCEPT ![p] = (@ + U32 - 1) % U32]

Goto(w, pc) == go' = [go EXCEPT ![w].pc = pc]

Spawn(r) == \E w \in Worker : go[w].pc = "off" /\ go' = [go EXCEPT ![w] = r]

Goroutine(pc, p, g, c, x) ==
  [pc |-> pc, pool |-> p, group |-> g, ctx |-> c, msg |-> x, rh |-> None]

\* tryDrainGroup starts a second drainer; not what the code does.
DrainAlways(p, g, c) ==
  LET gq == groupQs[p][g] IN
  IF gq.present /\ gq.msgs # << >>
  THEN /\ groupQs' = [groupQs EXCEPT ![p][g].working = TRUE]
       /\ Spawn(Goroutine("top", p, g, c, None))
  ELSE UNCHANGED <<groupQs, go>>

tryDrainGroup(p, g, c) ==
  LET gq == groupQs[p][g] IN
  IF gq.present /\ ~gq.working /\ gq.msgs # << >>
  THEN /\ groupQs' = [groupQs EXCEPT ![p][g].working = TRUE]
       /\ Spawn(Goroutine("top", p, g, c, None))
  ELSE UNCHANGED <<groupQs, go>>

Put(p, g, s) == groupQs' = [groupQs EXCEPT ![p][g].present = TRUE, ![p][g].msgs = s]

\* Goroutines inside processOne hold a semaphore slot.
Active(w) ==
  \/ go[w].pc \in {"proc", "dupAck", "mediate", "ackRead", "ackSend", "ackRemove"}
  \/ go[w].pc = "dec" /\ go[w].group = None

SlotFree(p) == Cardinality({w \in Worker : go[w].pool = p /\ Active(w)}) < Concurrency

-----------------------------------------------------------------------------
(* Manager: pool lookup and back-pressure, under Manager.mu *)

MgrFree == mgr = NoStop

poolByCode(m) == IF pools[PoolCode[m]] # None THEN pools[PoolCode[m]] ELSE pools[DefaultPool]

hasPoolCapacity == \E k \in Code : pools[k] # None /\ queueSize[pools[k]] < Capacity

-----------------------------------------------------------------------------
(* Consumer poll loop: runConsumer and route *)

Elems(s) == {s[i] : i \in 1 .. Len(s)}

Copies ==
  UNION ( {Elems(cons[c].batch) : c \in Consumer}
          \cup {Elems(groupQs[p][g].msgs) : p \in Pool, g \in Group}
          \cup {mgr.left, {go[w].msg : w \in Worker} \ {None}} )

Handles ==
  {x.receipt : x \in Copies}
    \cup {go[w].rh : w \in Worker}
    \cup {broker[b].receipt : b \in Broker}
    \cup {tracker.byBroker[i].receipt : i \in {j \in BrokerId : tracker.byBroker[j] # None}}

HandleFree(b) == \E n \in 1 .. HandleBound : <<b, n>> \notin Handles

FreshHandle(b) == <<b, CHOOSE n \in 1 .. HandleBound : <<b, n>> \notin Handles>>

\* The BrokerMessageID of a delivery: NATS includes the delivery sequence.
IdOf(h) == <<h[1], IF StableIds THEN 0 ELSE h[2]>>

Delivered(b) == [id |-> IdOf(FreshHandle(b)), receipt |-> FreshHandle(b), retried |-> FALSE]

\* One poll: lease up to MaxPoll visible messages; paused while every pool is full.
Poll(c) ==
  /\ cons[c].pc = "poll"
  /\ ~ctxDone[c]
  /\ MgrFree /\ hasPoolCapacity
  /\ \E n \in 1 .. MaxPoll :
     \E s \in [1 .. n -> {b \in Broker : broker[b].st = "visible" /\ HandleFree(b)}] :
       /\ \A i, j \in 1 .. n : i # j => s[i] # s[j]
       /\ cons' = [cons EXCEPT ![c].pc = "register",
                               ![c].batch = [i \in 1 .. n |-> Delivered(s[i])]]
       /\ broker' = [b \in Broker |->
            IF b \in Elems(s) THEN [st |-> "leased", receipt |-> FreshHandle(b),
                                    pendingDelete |-> broker[b].pendingDelete \ {c}]
            ELSE broker[b]]
  /\ UNCHANGED <<tracker, poolVars, mgrVars, go, stall, settled>>

\* A poll of the SQS client deletes a message it remembers from a failed Ack, and
\* hands it to nobody; once the memory has expired, Poll delivers it again. A delete
\* that fails here leaves the message to lapse and come back, as if not received.
DeleteAcked(c, b) ==
  /\ cons[c].pc = "poll"
  /\ ~ctxDone[c]
  /\ MgrFree /\ hasPoolCapacity
  /\ broker[b].st = "visible" /\ c \in broker[b].pendingDelete
  /\ broker' = [broker EXCEPT ![b] = Gone]
  /\ UNCHANGED <<tracker, poolVars, mgrVars, cons, go, stall, settled>>

NextMsg(c) ==
  cons' = [cons EXCEPT ![c] = [pc |-> IF Len(cons[c].batch) = 1 THEN "poll" ELSE "register",
                               batch |-> Tail(cons[c].batch), pool |-> None]]

Step(c, pc) == cons' = [cons EXCEPT ![c].pc = pc]

Ordered(m) == m \notin Immediate

RegisterCopy(c) ==
  LET x == Head(cons[c].batch)
      outcome == RegisterOutcome(tracker, x) IN
  /\ cons[c].pc = "register"
  /\ tracker' = Register(tracker, x)
  /\ CASE outcome = "New" -> Step(c, "resolve")
       [] outcome = "ExternalRequeue" -> Step(c, "ackDup")
       [] outcome = "Redelivery" -> IF Ordered(Msg(x)) THEN Step(c, "kick") ELSE NextMsg(c)
  /\ UNCHANGED <<broker, poolVars, mgrVars, go, stall, settled>>

\* The redelivered copy is only dropped; not what the code does.
KickNothing(c) ==
  /\ cons[c].pc = "kick"
  /\ NextMsg(c)
  /\ UNCHANGED <<broker, tracker, poolVars, mgrVars, go, stall, settled>>

\* A redelivery is the resume signal for a group whose drainer is gone: the
\* pool is looked up, and StartDrain follows.
Kick(c) ==
  LET p == poolByCode(Msg(Head(cons[c].batch))) IN
  /\ cons[c].pc = "kick"
  /\ MgrFree
  /\ \/ p = None /\ NextMsg(c)
     \/ p # None /\ cons' = [cons EXCEPT ![c].pc = "drain", ![c].pool = p]
  /\ UNCHANGED <<broker, tracker, poolVars, mgrVars, go, stall, settled>>

AckExternalRequeue(c) ==
  /\ cons[c].pc = "ackDup"
  /\ Ack(c, Head(cons[c].batch).receipt, c)
  /\ NextMsg(c)
  /\ UNCHANGED <<tracker, poolVars, mgrVars, go, stall, settled>>

\* The copy leaves the pipeline: its entry goes and the broker redelivers it.
Release(c) ==
  /\ tracker' = Remove(tracker, Head(cons[c].batch))
  /\ NextMsg(c)

Resolve(c) ==
  LET p == poolByCode(Msg(Head(cons[c].batch))) IN
  /\ cons[c].pc = "resolve"
  /\ MgrFree
  /\ \/ p = None /\ Release(c)
     \/ /\ p # None
        /\ cons' = [cons EXCEPT ![c].pc = "submit", ![c].pool = p]
        /\ UNCHANGED tracker
  /\ UNCHANGED <<broker, poolVars, mgrVars, go, stall, settled>>

Submit(c) ==
  LET p == cons[c].pool
      reject == stopped[p] \/ queueSize[p] >= Capacity IN
  /\ cons[c].pc = "submit"
  /\ \/ reject /\ Release(c)
     \/ /\ ~reject
        /\ Step(c, IF Ordered(Msg(Head(cons[c].batch))) THEN "enqueue" ELSE "immediate")
        /\ UNCHANGED tracker
  /\ UNCHANGED <<broker, poolVars, mgrVars, go, stall, settled>>

\* An IMMEDIATE message is counted and gets a goroutine, whatever has become of
\* the pool since the checks.
StartImmediate(c) ==
  /\ cons[c].pc = "immediate"
  /\ Inc(cons[c].pool)
  /\ Spawn(Goroutine("acquire", cons[c].pool, None, c, Head(cons[c].batch)))
  /\ NextMsg(c)
  /\ UNCHANGED <<broker, tracker, groupQs, stopped, mgrVars, stall, settled>>

\* enqueue without the check for a stopped pool; not what the code does.
EnqueueUnchecked(c) ==
  LET x == Head(cons[c].batch)
      p == cons[c].pool
      g == GroupId[Msg(x)] IN
  /\ cons[c].pc = "enqueue"
  /\ Put(p, g, Append(groupQs[p][g].msgs, x))
  /\ Step(c, "count")
  /\ UNCHANGED <<broker, tracker, queueSize, stopped, mgrVars, go, stall, settled>>

Enqueue(c) ==
  LET x == Head(cons[c].batch)
      p == cons[c].pool
      g == GroupId[Msg(x)] IN
  /\ cons[c].pc = "enqueue"
  /\ \/ stopped[p] /\ Release(c) /\ UNCHANGED groupQs
     \/ /\ ~stopped[p]
        /\ Put(p, g, Append(groupQs[p][g].msgs, x))
        /\ Step(c, "count")
        /\ UNCHANGED tracker
  /\ UNCHANGED <<broker, queueSize, stopped, mgrVars, go, stall, settled>>

CountEnqueued(c) ==
  /\ cons[c].pc = "count"
  /\ Inc(cons[c].pool)
  /\ Step(c, "drain")
  /\ UNCHANGED <<broker, tracker, groupQs, stopped, mgrVars, go, stall, settled>>

StartDrain(c) ==
  /\ cons[c].pc = "drain"
  /\ tryDrainGroup(cons[c].pool, GroupId[Msg(Head(cons[c].batch))], c)
  /\ NextMsg(c)
  /\ UNCHANGED <<broker, tracker, queueSize, stopped, mgrVars, stall, settled>>

RunConsumer(c) ==
  \/ RegisterCopy(c) \/ Kick(c) \/ AckExternalRequeue(c) \/ Resolve(c)
  \/ Submit(c) \/ StartImmediate(c) \/ Enqueue(c) \/ CountEnqueued(c) \/ StartDrain(c)

-----------------------------------------------------------------------------
(* Pool goroutines: drainGroup (group # None), runImmediate (group = None)  *)
(* and processOne, which both of them call.                                 *)

IsImmediate(w) == go[w].group = None

Exit(w) == go' = [go EXCEPT ![w] = Off]

\* drainGroup takes the head of its group, or removes the empty queue and exits.
Pop(w) ==
  LET p == go[w].pool
      g == go[w].group
      gq == groupQs[p][g] IN
  /\ go[w].pc = "top"
  /\ \/ /\ ~gq.present \/ gq.msgs = << >>
        /\ groupQs' = [groupQs EXCEPT ![p][g] = NoQueue]
        /\ Exit(w)
     \/ /\ gq.present /\ gq.msgs # << >>
        /\ groupQs' = [groupQs EXCEPT ![p][g].msgs = Tail(@)]
        /\ go' = [go EXCEPT ![w].pc = "dec", ![w].msg = Head(gq.msgs)]
  /\ UNCHANGED <<broker, tracker, queueSize, stopped, mgrVars, cons, stall, settled>>

\* A drainer leaves the pending count before it waits for a slot, an
\* IMMEDIATE goroutine once it holds one.
LeaveQueue(w) ==
  /\ go[w].pc = "dec"
  /\ Dec(go[w].pool)
  /\ Goto(w, IF IsImmediate(w) THEN "proc" ELSE "acquire")
  /\ UNCHANGED <<broker, tracker, groupQs, stopped, mgrVars, cons, stall, settled>>

AcquireSlot(w) ==
  /\ go[w].pc = "acquire"
  /\ SlotFree(go[w].pool)
  /\ Goto(w, IF IsImmediate(w) THEN "dec" ELSE "proc")
  /\ UNCHANGED <<broker, tracker, poolVars, mgrVars, cons, stall, settled>>

\* An IMMEDIATE goroutine whose context ends is no longer pending and lets go
\* of its message.
AbandonImmediate(w) ==
  /\ Dec(go[w].pool)
  /\ tracker' = Remove(tracker, go[w].msg)
  /\ Exit(w)

CancelledAcquire(w) ==
  /\ go[w].pc = "acquire"
  /\ ctxDone[go[w].ctx]
  /\ \/ IsImmediate(w) /\ AbandonImmediate(w)
     \/ ~IsImmediate(w) /\ Goto(w, "park") /\ UNCHANGED <<tracker, queueSize>>
  /\ UNCHANGED <<broker, groupQs, stopped, mgrVars, cons, stall, settled>>

\* A failed message goes to the back of its group; not what the code does.
RequeueAtBack(w) ==
  LET p == go[w].pool
      g == go[w].group IN
  /\ go[w].pc \in {"park", "requeue"}
  /\ ~stopped[p]
  /\ Put(p, g, Append(groupQs[p][g].msgs, go[w].msg))
  /\ go' = [go EXCEPT ![w].pc = IF @ = "park" THEN "parkCount" ELSE "requeueCount",
                      ![w].msg = None]
  /\ UNCHANGED <<broker, tracker, queueSize, stopped, mgrVars, cons, stall, settled>>

\* enqueueFront, or nackMsg when the pool has stopped meanwhile.
Refront(w) ==
  LET p == go[w].pool
      g == go[w].group IN
  /\ go[w].pc \in {"park", "requeue"}
  /\ \/ /\ stopped[p]
        /\ tracker' = Remove(tracker, go[w].msg)
        /\ Exit(w)
        /\ UNCHANGED groupQs
     \/ /\ ~stopped[p]
        /\ Put(p, g, <<go[w].msg>> \o groupQs[p][g].msgs)
        /\ go' = [go EXCEPT ![w].pc = IF @ = "park" THEN "parkCount" ELSE "requeueCount",
                            ![w].msg = None]
        /\ UNCHANGED tracker
  /\ UNCHANGED <<broker, queueSize, stopped, mgrVars, cons, stall, settled>>

\* A cancelled drainer that returns with its flag still set; not what the code does.
LeaveWorking(w) ==
  /\ go[w].pc = "clear"
  /\ Exit(w)
  /\ UNCHANGED <<broker, tracker, poolVars, mgrVars, cons, stall, settled>>

\* A requeued message is not counted again; not what the code does.
RequeueUncounted(w) ==
  /\ go[w].pc \in {"parkCount", "requeueCount"}
  /\ Goto(w, IF go[w].pc = "parkCount" THEN "clear" ELSE "backoff")
  /\ UNCHANGED <<broker, tracker, poolVars, mgrVars, cons, stall, settled>>

CountFront(w) ==
  /\ go[w].pc \in {"parkCount", "requeueCount"}
  /\ Inc(go[w].pool)
  /\ Goto(w, IF go[w].pc = "parkCount" THEN "clear" ELSE "backoff")
  /\ UNCHANGED <<broker, tracker, groupQs, stopped, mgrVars, cons, stall, settled>>

ClearWorking(w) ==
  /\ go[w].pc = "clear"
  /\ groupQs' = [groupQs EXCEPT ![go[w].pool][go[w].group].working = FALSE]
  /\ Exit(w)
  /\ UNCHANGED <<broker, tracker, queueSize, stopped, mgrVars, cons, stall, settled>>

BackoffElapsed(w) ==
  /\ go[w].pc = "backoff"
  /\ ~ctxDone[go[w].ctx]
  /\ Goto(w, IF IsImmediate(w) THEN "acquire" ELSE "top")
  /\ UNCHANGED <<broker, tracker, poolVars, mgrVars, cons, stall, settled>>

CancelledBackoff(w) ==
  /\ go[w].pc = "backoff"
  /\ ctxDone[go[w].ctx]
  /\ \/ IsImmediate(w) /\ AbandonImmediate(w)
     \/ ~IsImmediate(w) /\ Goto(w, "clear") /\ UNCHANGED <<tracker, queueSize>>
  /\ UNCHANGED <<broker, groupQs, stopped, mgrVars, cons, stall, settled>>

\* processOne is over: the slot is free, the drainer takes the next message.
Done(w) ==
  go' = [go EXCEPT ![w] = IF IsImmediate(w) THEN Off
                          ELSE [@ EXCEPT !.pc = "top", !.msg = None, !.rh = None]]

\* processOne's backstop on the first dispatch of a copy.
EnsureOwned(w) ==
  LET x == go[w].msg IN
  /\ go[w].pc = "proc"
  /\ \/ /\ x.retried \/ EnsureTrackedOk(tracker, x)
        /\ tracker' = IF x.retried THEN tracker ELSE EnsureTracked(tracker, x)
        /\ Goto(w, "mediate")
     \/ /\ ~x.retried /\ ~EnsureTrackedOk(tracker, x)
        /\ Goto(w, "dupAck")
        /\ UNCHANGED tracker
  /\ UNCHANGED <<broker, poolVars, mgrVars, cons, stall, settled>>

AckDuplicate(w) ==
  /\ go[w].pc = "dupAck"
  /\ MgrFree
  /\ IF current # None THEN Ack(current, go[w].msg.receipt, go[w].ctx) ELSE UNCHANGED broker
  /\ Done(w)
  /\ UNCHANGED <<tracker, poolVars, mgrVars, cons, stall, settled>>

\* Delivered (2xx) or dropped as undeliverable (4xx).
MediateTerminal(w) ==
  /\ go[w].pc = "mediate"
  /\ ~ctxDone[go[w].ctx]
  /\ settled' = settled \cup {Msg(go[w].msg)}
  /\ Goto(w, "ackRead")
  /\ UNCHANGED <<broker, tracker, poolVars, mgrVars, cons, stall>>

\* 5xx, 429, connection error, open breaker, cancelled context or panic.
MediateRetry(w) ==
  /\ go[w].pc = "mediate"
  /\ tracker' = MarkRetrying(tracker, go[w].msg)
  /\ go' = [go EXCEPT ![w].pc = IF IsImmediate(w) THEN "requeueCount" ELSE "requeue",
                      ![w].msg.retried = TRUE]
  /\ UNCHANGED <<broker, poolVars, mgrVars, cons, stall, settled>>

\* ackTracked: read the freshest handle, acknowledge, clear the entry.
AckRead(w) ==
  /\ go[w].pc = "ackRead"
  /\ go' = [go EXCEPT ![w].pc = "ackSend", ![w].rh = CurrentReceipt(tracker, go[w].msg)]
  /\ UNCHANGED <<broker, tracker, poolVars, mgrVars, cons, stall, settled>>

AckSend(w) ==
  /\ go[w].pc = "ackSend"
  /\ MgrFree
  /\ IF current # None THEN Ack(current, go[w].rh, go[w].ctx) ELSE UNCHANGED broker
  /\ Goto(w, "ackRemove")
  /\ UNCHANGED <<tracker, poolVars, mgrVars, cons, stall, settled>>

\* The acknowledged message stays tracked; not what the code does.
AckKeepEntry(w) ==
  /\ go[w].pc = "ackRemove"
  /\ Done(w)
  /\ UNCHANGED <<broker, tracker, poolVars, mgrVars, cons, stall, settled>>

AckRemove(w) ==
  /\ go[w].pc = "ackRemove"
  /\ tracker' = Remove(tracker, go[w].msg)
  /\ Done(w)
  /\ UNCHANGED <<broker, poolVars, mgrVars, cons, stall, settled>>

RunGoroutine(w) ==
  \/ Pop(w) \/ LeaveQueue(w) \/ AcquireSlot(w) \/ CancelledAcquire(w)
  \/ Refront(w) \/ CountFront(w) \/ ClearWorking(w)
  \/ BackoffElapsed(w) \/ CancelledBackoff(w)
  \/ EnsureOwned(w) \/ AckDuplicate(w) \/ MediateTerminal(w) \/ MediateRetry(w)
  \/ AckRead(w) \/ AckSend(w) \/ AckRemove(w)

-----------------------------------------------------------------------------
(* Manager: reconfiguration, shutdown, consumer restart *)

UnusedPool == {p \in Pool : ~stopped[p] /\ \A k \in Code : pools[k] # p}

UnusedConsumer == {c \in Consumer : cons[c].pc = "unused"}

\* Reconfigure drops pools that are no longer configured (never DEFAULT-POOL).
RemovePools ==
  /\ "pools" \in Operations
  /\ MgrFree
  /\ \E S \in (SUBSET {k \in Code \ {DefaultPool} : pools[k] # None}) \ {{}} :
       mgr' = [NoStop EXCEPT !.todo = S]
  /\ UNCHANGED <<broker, tracker, poolVars, pools, current, ctxDone, cons, go, stall, settled>>

\* Shutdown (leadership lost or process exit) cancels the consumer, then
\* stops every pool.
Shutdown ==
  /\ "shutdown" \in Operations
  /\ MgrFree
  /\ current # None
  /\ mgr' = [NoStop EXCEPT !.todo = {k \in Code : pools[k] # None}]
  /\ ctxDone' = [ctxDone EXCEPT ![current] = TRUE]
  /\ current' = None
  /\ UNCHANGED <<broker, tracker, poolVars, pools, cons, go, stall, settled>>

\* Pool.Stop raises the flag first ...
StopPool(k) ==
  /\ k \in mgr.todo
  /\ mgr.pool = None
  /\ stopped' = [stopped EXCEPT ![pools[k]] = TRUE]
  /\ mgr' = [mgr EXCEPT !.pool = pools[k]]
  /\ UNCHANGED <<broker, tracker, groupQs, queueSize, pools, current, ctxDone, cons, go, stall, settled>>

\* ... then empties every group buffer under the pool's mutex ...
Flush ==
  LET p == mgr.pool IN
  /\ p # None /\ mgr.left = {} /\ \E g \in Group : groupQs[p][g].present
  /\ mgr' = [mgr EXCEPT !.left = UNION {Elems(groupQs[p][g].msgs) : g \in Group}]
  /\ groupQs' = [groupQs EXCEPT ![p] = [g \in Group |-> NoQueue]]
  /\ UNCHANGED <<broker, tracker, queueSize, stopped, pools, current, ctxDone, cons, go, stall, settled>>

\* The flushed copies stay tracked; not what the code does.
FlushKeepEntries ==
  /\ \E x \in mgr.left : mgr' = [mgr EXCEPT !.left = @ \ {x}]
  /\ Dec(mgr.pool)
  /\ UNCHANGED <<broker, tracker, groupQs, stopped, pools, current, ctxDone, cons, go, stall, settled>>

\* The flushed copies stay counted; not what the code does.
FlushKeepCount ==
  /\ \E x \in mgr.left : /\ tracker' = Remove(tracker, x)
                         /\ mgr' = [mgr EXCEPT !.left = @ \ {x}]
  /\ UNCHANGED <<broker, poolVars, pools, current, ctxDone, cons, go, stall, settled>>

\* ... and releases the flushed copies one by one.
ReleaseFlushed ==
  /\ \E x \in mgr.left : /\ tracker' = Remove(tracker, x)
                         /\ mgr' = [mgr EXCEPT !.left = @ \ {x}]
  /\ Dec(mgr.pool)
  /\ UNCHANGED <<broker, groupQs, stopped, pools, current, ctxDone, cons, go, stall, settled>>

\* The stopped pool leaves the map; with the last one the lock is released.
StopDone(k) ==
  LET p == mgr.pool IN
  /\ k \in mgr.todo /\ p # None /\ pools[k] = p
  /\ mgr.left = {} /\ \A g \in Group : ~groupQs[p][g].present
  /\ pools' = [pools EXCEPT ![k] = None]
  /\ mgr' = [mgr EXCEPT !.todo = @ \ {k}, !.pool = None]
  /\ UNCHANGED <<broker, tracker, poolVars, current, ctxDone, cons, go, stall, settled>>

\* Reconfigure starts missing pools, DEFAULT-POOL always among them.
AddPools ==
  /\ MgrFree
  /\ \E S \in (SUBSET {k \in Code : pools[k] = None}) \ {{}} : \E f \in [S -> UnusedPool] :
       /\ \A k, l \in S : k # l => f[k] # f[l]
       /\ pools[DefaultPool] = None => DefaultPool \in S
       /\ pools' = [k \in Code |-> IF k \in S THEN f[k] ELSE pools[k]]
  /\ UNCHANGED <<broker, tracker, poolVars, mgr, current, ctxDone, cons, go, stall, settled>>

\* Reconfigure starts the queue's consumer.
AddConsumer ==
  /\ MgrFree
  /\ current = None
  /\ \E c \in UnusedConsumer :
       /\ current' = c
       /\ cons' = [cons EXCEPT ![c] = Loop("poll")]
  /\ UNCHANGED <<broker, tracker, poolVars, pools, mgr, ctxDone, go, stall, settled>>

\* RestartStalledConsumers first cancels and stops, without the manager's lock,
\* the consumer it found stalled (a poll that hangs, or one that pauses because
\* every pool is full); Reconfigure does the same to the consumer of a changed
\* queue.
CancelConsumer ==
  /\ "restart" \in Operations
  /\ current # None
  /\ ~ctxDone[current]
  /\ UnusedConsumer # {}    \* bound on the restarts
  /\ ctxDone' = [ctxDone EXCEPT ![current] = TRUE]
  /\ UNCHANGED <<broker, tracker, poolVars, pools, mgr, current, cons, go, stall, settled>>

\* Reconfigure drops the consumer of a queue that is gone, or whose new
\* connection cannot be built.
RemoveConsumer ==
  /\ "queue" \in Operations
  /\ MgrFree
  /\ current # None
  /\ ctxDone' = [ctxDone EXCEPT ![current] = TRUE]
  /\ current' = None
  /\ UNCHANGED <<broker, tracker, poolVars, pools, mgr, cons, go, stall, settled>>

\* It is replaced once a new connection is built.
ReplaceConsumer ==
  /\ MgrFree
  /\ current # None
  /\ ctxDone[current]
  /\ \E c \in UnusedConsumer :
       /\ current' = c
       /\ cons' = [cons EXCEPT ![c] = Loop("poll")]
  /\ UNCHANGED <<broker, tracker, poolVars, pools, mgr, ctxDone, go, stall, settled>>

RunManager ==
  \/ \E k \in Code : StopPool(k) \/ StopDone(k)
  \/ Flush
  \/ ReleaseFlushed

-----------------------------------------------------------------------------
(* Reaper and stall detector *)

\* maxAge passes without a redelivery: with a visibility timeout far below
\* maxAge that takes a time in which nothing is polled.
Aging ==
  /\ "reap" \in Operations
  /\ \A c \in Consumer : cons[c].pc \in {"unused", "poll"}
  /\ current = None \/ ctxDone[current] \/ ~hasPoolCapacity
  /\ tracker' = Stale(tracker)
  /\ UNCHANGED <<broker, poolVars, mgrVars, cons, go, stall, settled>>

ReapTracker ==
  /\ "reap" \in Operations
  /\ tracker' = Reap(tracker)
  /\ UNCHANGED <<broker, poolVars, mgrVars, cons, go, stall, settled>>

\* StallDetector.tick: a message in flight for too long, unless it is being
\* retried, is handed back to the broker ...
ForceNackStalled(m) ==
  LET i == tracker.byMessage[m] IN
  /\ "forceNack" \in Operations
  /\ stall = None
  /\ MgrFree /\ current # None
  /\ i # None /\ ~tracker.byBroker[i].retrying
  /\ stall' = i
  /\ UNCHANGED <<broker, tracker, poolVars, mgrVars, cons, go, settled>>

\* ... and then forgotten, whoever owns the entry by now.
ForgetStalled ==
  /\ stall # None
  /\ tracker' = Remove(tracker, [id |-> stall])
  /\ stall' = None
  /\ UNCHANGED <<broker, poolVars, mgrVars, cons, go, settled>>

-----------------------------------------------------------------------------
Next ==
  \/ \E b \in Broker : Publish(b) \/ Lapse(b)
  \/ \E c \in Consumer : Poll(c) \/ RunConsumer(c) \/ \E b \in Broker : DeleteAcked(c, b)
  \/ \E w \in Worker : RunGoroutine(w)
  \/ RunManager
  \/ RemovePools \/ Shutdown
  \/ AddPools \/ AddConsumer \/ RemoveConsumer \/ CancelConsumer \/ ReplaceConsumer
  \/ Aging \/ ReapTracker
  \/ ForgetStalled
  \/ \E m \in Message : ForceNackStalled(m)

Spec == Init /\ [][Next]_vars

\* Goroutines and poll loops are scheduled, timers fire and slots are granted in
\* turn; leases run out and the broker keeps offering every message; the
\* endpoint does not fail for ever; management completes what it begins.
FairSpec ==
  /\ Spec
  /\ \A b \in Broker : WF_vars(Lapse(b))
  /\ \A c \in Consumer :
       /\ WF_vars(RunConsumer(c))
       /\ \A b \in Broker :
            SF_vars(Poll(c) /\ broker[b].st = "visible" /\ broker'[b].st = "leased")
  /\ \A w \in Worker :
       WF_vars(RunGoroutine(w)) /\ SF_vars(AcquireSlot(w)) /\ SF_vars(MediateTerminal(w))
  /\ WF_vars(RunManager) /\ WF_vars(AddPools)
  /\ WF_vars(AddConsumer) /\ WF_vars(ReplaceConsumer)

-----------------------------------------------------------------------------
(* Safety properties *)

Drainers(p, g) == {w \in Worker : go[w].pc # "off" /\ go[w].pool = p /\ go[w].group = g}

\* At most one drainer serves a group of a pool, across consumer restarts,
\* cancellations, stops and retries (the invariant clearWorking relies on).
SingleDrainer ==
  \A p \in Pool, g \in Group : \A v, w \in Drainers(p, g) : v = w

\* Until its pool stops, a group is marked working exactly while a drainer
\* runs for it: no exit path leaves the flag set and the group wedged, and no
\* drainer runs without the flag.
WorkingIffDrained ==
  \A p \in Pool, g \in Group :
    ~stopped[p] => (groupQs[p][g].working <=> Drainers(p, g) # {})

\* The two maps of the tracker are updated together: a message index never
\* names an entry the broker index has lost.
TrackerMapsAgree ==
  \A m \in Message : tracker.byMessage[m] # None => tracker.byBroker[tracker.byMessage[m]] # None

InPipeline ==
  UNION {Elems(groupQs[p][g].msgs) : p \in Pool, g \in Group}
    \cup ({go[w].msg : w \in Worker} \ {None})
    \cup mgr.left
    \cup {Head(cons[c].batch) : c \in {d \in Consumer : cons[d].pc \in {"resolve", "submit", "immediate", "enqueue"}}}

\* Every tracked entry belongs to a copy that is still buffered, in a
\* goroutine's hands or being routed.  An entry without one would make every
\* redelivery a duplicate of nothing and the message untouchable.
TrackedHasOwner ==
  \A i \in BrokerId : tracker.byBroker[i] # None => \E x \in InPipeline : x.id = i

\* A message the broker has been given is either settled or still held by the
\* broker, so a crash of the router at any point loses nothing.  It holds with the
\* reaper or with consumer restarts, not with both and a requeued copy: route then
\* acknowledges each of the two copies as the requeue of the other.
NoLoss ==
  \A m \in Message :
    LET held == {b \in Broker : AppId[b] = m /\ broker[b].st # "unsent"} IN
    held # {} => m \in settled \/ \E b \in held : broker[b].st # "deleted"

Waiting(w) == IsImmediate(w) /\ go[w].pc \in {"acquire", "dec", "backoff"}
Popped(w) == ~IsImmediate(w) /\ go[w].pc = "dec"
Uncounted(w) == ~IsImmediate(w) /\ go[w].pc \in {"parkCount", "requeueCount"}

Buffered(p) == MapThenSumSet(LAMBDA g : Len(groupQs[p][g].msgs), Group)

\* queueSize counts the buffered and waiting messages exactly, up to the
\* updates its goroutines have yet to make: no path leaks or doubles capacity.
QueueSizeAccounts ==
  \A p \in Pool :
    LET at(P(_)) == Cardinality({w \in Worker : go[w].pc # "off" /\ go[w].pool = p /\ P(w)})
        flushed == IF mgr.pool = p THEN Cardinality(mgr.left) ELSE 0
        late == Cardinality({c \in Consumer : cons[c].pc = "count" /\ cons[c].pool = p})
    IN queueSize[p] = (Buffered(p) + flushed + at(Waiting) + at(Popped) - at(Uncounted) - late)
                        % U32

\* A pool that has been stopped and dropped holds nothing: neither a late
\* enqueue nor a drainer that re-fronts its message strands one, with a live
\* tracker entry, in the abandoned buffer.
NothingStranded ==
  \A p \in Pool : stopped[p] /\ mgr.pool # p =>
    \A g \in Group : groupQs[p][g] = NoQueue

-----------------------------------------------------------------------------
(* The pool implements GroupFifo: a lane holds the copy in its drainer's     *)
(* hands followed by the buffer.                                             *)

Bare(x) == [id |-> x.id, receipt |-> x.receipt]

InHand(p, g) == {w \in Drainers(p, g) : go[w].msg # None}

LaneQueue(l) ==
  LET p == l[1]
      g == l[2]
      buf == [i \in 1 .. Len(groupQs[p][g].msgs) |-> Bare(groupQs[p][g].msgs[i])]
  IN IF InHand(p, g) = {} THEN buf
     ELSE <<Bare(go[CHOOSE w \in InHand(p, g) : TRUE].msg)>> \o buf

Fifo == INSTANCE GroupFifo WITH
  Accepted <- [id : BrokerId, receipt : Handle],
  queue    <- [l \in Pool \X Group |-> LaneQueue(l)],
  serving  <- [l \in Pool \X Group |-> \E w \in Drainers(l[1], l[2]) : Active(w)],
  closed   <- stopped

\* Within a pool, an ordered group is delivered first-in first-out by one
\* server: a failing message is retried before any later one starts, through
\* parking, restarts of the consumer and stops of the pool.
GroupOrder == Fifo!Spec

-----------------------------------------------------------------------------
(* Liveness *)

Served(p) == \E k \in Code : pools[k] = p

\* A group whose drainer went away with its consumer while it still holds an
\* undelivered message is picked up again ("the working flag cleared so a
\* replacement drainer resumes the group").
ParkedGroupResumes ==
  \A p \in Pool, g \in Group :
    LET pending == {x \in Elems(groupQs[p][g].msgs) : Msg(x) \notin settled} IN
    []<>(~Served(p) \/ pending = {} \/ Drainers(p, g) # {})

\* Every published message eventually reaches a terminal outcome: time and again
\* there is none that has not.
EventuallySettled ==
  []<>(\A b \in Broker : broker[b].st # "unsent" => AppId[b] \in settled)
=============================================================================
