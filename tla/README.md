# FlowCatalyst: TLA+ specifications of the delivery pipeline

FlowCatalyst carries events and dispatch jobs from an application's database to
subscribers' webhooks. This directory specifies the part of it where several
processes share state and things go wrong in combinations: the message router,
the life of a dispatch job, the outbox processor, the leader election that gates
them, and the circuit breaker in front of the endpoints. TLC checks the
specifications on small instances; TLAPS proves the central invariants of the
router, the dispatch job and the election for every instance.

`PROJECT.json` has the machine-readable side: the source lines behind each
definition, the runs, a mutation of the code's behaviour that each property
detects, the hazards, the findings and the theorems.

## 1. The system

    application tx -> outbox table -> outbox processor -> platform API -> msg_events
      -> stream fan-out -> msg_dispatch_jobs (PENDING)
      -> scheduler (QUEUED, publish) -> queue (SQS | Postgres | NATS)
      -> router: poll -> in-flight tracker -> pool -> mediator (circuit breaker)
      -> POST /api/dispatch/process (PROCESSING) -> webhook
      -> COMPLETED | PENDING with backoff | FAILED

A Redis election gates the scheduler, the stream processor, the outbox processor
and the router's pools, each on a lock of its own.

### Inventory

| Part | State | Operations | What is hard |
|---|---|---|---|
| Router manager (`internal/router/manager.go`) | pools by code, consumers, contexts | poll, route, reconfigure, restart stalled consumer, shutdown | a batch in hand outlives its consumer; a pool resolved earlier is stopped; back-pressure against redelivery |
| Pool (`pool.go`) | group buffers, working flags, pending counter, semaphore, stopped flag | submit, drain a group, run an IMMEDIATE message, retry, stop | one drainer per group through every cancellation exit; counters updated outside the lock |
| In-flight tracker (`inflight.go`) | two maps, receipts, ages | Register, EnsureTracked, CurrentReceipt, MarkRetrying, Remove, Reap, force-NACK | redelivery or requeue; entry reaped or replaced under its owner |
| Circuit breaker (`circuit_breaker.go`) | state, ring buffer, last failure | Allow, RecordSuccess, RecordFailure, Reset, Get, Evict | late results; ring arithmetic; a breaker that never recovers |
| Queue backends (`internal/queue`) | messages, leases, receipts | Poll, Ack, Nack, Publish, PublishBatch | leases that lapse, ids that change, partial publishes |
| Scheduler (`internal/platform/scheduler`) | rows, row locks, paused cache | claim, filter, commit, publish, revert, stale recovery | crash between commit and publish; LIMIT before filter; two leaders |
| Processing endpoint (`internal/platform/dispatchjob/processing`) | row | load, MarkInProgress, deliver, advance | duplicate calls; writes by id; a write that fails |
| Outbox (`internal/outbox`) | rows, group states, buffers, in-flight counter | claim, submit, drain, record, block, release, recover, pause, unblock | state in memory and in rows; failed statements; restarts |
| Election (`internal/standby`) | Redis lock, IsLeader | heartbeat, SET NX, refresh, release | time; executed calls whose answer is lost |
| Stream (`internal/stream`) | events, projections, subscription cache | fan out, project, manage partitions | stale cache; exactly one fan-out per event |
| Scheduled jobs (`internal/platform/scheduledjob`) | firings, instances | poll, claim, report | missed and double firings |
| Platform configuration, identity, SDK, MCP, server assembly | rows | request handlers | outside the pipeline |

### What correctness means here

* A message handed to the broker is never lost: it is settled or the broker still
  holds it, whatever the router is doing.
* Within an ordered group, messages are delivered one at a time and in order, and
  a failing one is retried before a later one starts.
* Nothing wedges: no group, counter, tracker entry, breaker, row or lock is left in
  a state that no later step repairs.
* A job reaches a terminal status and keeps it, within its retry budget.
* There is at most one leader, and after failures there is one again.

## 2. The modules

| Module | Models | Abstractions |
|---|---|---|
| `InFlightTracker` | the tracker as operators on a pair of maps | an age is "stale" or not |
| `Router` | manager, poll loops, pools, goroutines, broker, reaper, stall detector | payloads, HTTP and rate limits are left out; one queue |
| `GroupFifo` | abstract: what a pool promises for ordered groups | |
| `CircuitBreaker` | breaker, registry and the calls that use them | time is counted in units; the rate threshold is a fraction |
| `DispatchJob` | scheduler, queue, processing endpoint, operators | a row is status, attempt count and whether it is due |
| `Outbox` | poll goroutine, group drains, ungrouped batches, repository, operator controls | ungrouped items are of one type; an outcome is a success, retryable or permanent |
| `Standby` | election goroutines, Redis lock, clock | discrete time |
| `RouterProofs`, `RouterDrainProofs` | proofs about `Router` | |
| `DispatchJobProofs` | proofs about `DispatchJob` | |
| `StandbyProofs` | proofs about `Standby` | |
| `MC*` | constants and symmetry for TLC | |

### Router

A step is one critical section, one atomic counter update or one broker call, so
TLC interleaves at the places where Go can. The program counters in `cons`
(poll loops) and `go` (goroutines) are the points between two such steps: a
redelivery looks its pool up under the manager's lock (`Kick`) and starts a drain
under the pool's (`StartDrain`); an IMMEDIATE message passes `submit`'s checks
(`Submit`) before it is counted (`StartImmediate`). Two exceptions: a decrement
next to a removal of a tracker entry is one step, and so are the two loads of
`submit` (stopped, then the counter). What the latter leaves out is a message that
finds a full pool running, and then has room because the pool was stopped and
flushed in between; it goes on like one accepted just before the stop.

| State | Code |
|---|---|
| `broker` | the queue: `unsent`, `visible`, `leased`, `deleted`, the receipt of the latest delivery, and the clients that remember the message as acknowledged (`pendingDelete` of the SQS client) |
| `tracker` | `InFlightTracker.byMessage`, `byBroker` |
| `groupQs`, `queueSize`, `stopped` | `Pool.groupQs`, `queueSize` (a `uint32`, modulo `U32`), `stopped` |
| `pools`, `mgr`, `current`, `ctxDone` | `Manager.pools`, the progress of `Reconfigure`/`Shutdown` under `Manager.mu`, `consumers`, consumer contexts |
| `cons` | `runConsumer` and `route`: the batch and where it is |
| `go` | `drainGroup`, `runImmediate` and `processOne` |
| `stall` | the entry `StallDetector.tick` has nacked and not yet removed |
| `settled` | history: messages with a terminal outcome |

A delivery carries a fresh receipt, `<<broker message, n>>`. `HandleBound` is the
number of receipts of a message that can exist at once; handles nobody holds are
reused, so it bounds copies and not deliveries. With `StableIds = FALSE` the
broker id differs for each delivery, as on NATS. With `RemembersAcks = TRUE` an
acknowledgement that fails may be remembered, as on SQS: a later poll of the same
client deletes the message unseen (`DeleteAcked`), or, when the memory has expired,
delivers it.

### DispatchJob

`poll[s]` is `pollOnce` of scheduler `s`: claim rows under lock, hold back paused
and blocked ones, commit QUEUED, publish, and revert if the publish fails.
`call[<<c, j>>]` is a call of the processing endpoint: load, MarkInProgress,
deliver, advance, and the router's acknowledgement. `queue[j]` counts the messages
of a job in the broker. When a router stops waiting (`GiveUp`) its message goes back
to the queue and the handler runs on as the caller `"abandoned"`, beside whatever
call the redelivery starts; it ends when it has written its outcome, or when it
notices the end of its request context and every later write fails (`Cut`, which
is also a crash, or a failed load answered without an acknowledgement). `Abort`
ends a poll. `unrecorded` remembers the jobs whose outcome could not be written, or
whose last message was dropped as the duplicate of a call that was already over.

### Outbox

`tick` holds the claimed items that are not yet submitted (`byType`: the ungrouped
ones, which go into one batch at the end), `drain[g]` is the goroutine of a group,
`aborters` are drains that gave up their group and release its remaining items,
`batches` the `dispatchBatch` goroutines. Each SQL statement takes `ok`: it
succeeds, or it fails, in which case it may have been executed all the same. An
item the platform skipped is a success, as in `parseItemStatus`. The rows a claim
returns come in any order, as RETURNING does not keep the order of the CTE. The
deferred decrement of the in-flight counter (`Return`, `EndBatch`) is a step of its
own. `Crash` empties everything that lives in memory.

### Standby

`loop[i]` is the election goroutine: SET NX, its answer, the refresh script, its
answer. A call can fail before or after Redis executed it. `Tick` advances the
clock; it waits for heartbeats that are due and calls that must end, which is the
timing assumption `MaxLatency <= Heartbeat` and `Heartbeat + MaxLatency < LockTTL`
(heartbeat 10 s and time to live 30 s by default). `Stop` ends the loop, releases
the lock and leaves the instance `stopped`; `IsLeader` goes on answering what it
last answered, since `Stop` does not reset it.

### CircuitBreaker

Calls hold the breaker object they were given, also after the registry evicted it.
`recent` is a history variable with the outcomes since the window was last
cleared; the ring buffer is compared with it.

## 3. Runs

| Run | Instance | Shows |
|---|---|---|
| `breaker` | 2 calls, 2 breaker objects, window 2 | `WindowCountsRecent`, `OpenHasFailureTime`, `TripsExactlyOnRate`, `HealthyEndpointCloses` |
| `router_ordered` | 2 messages of a group, 2 consumers, 2 pool objects, 2 goroutines; restart, queue removal, shutdown | `SingleDrainer`, `WorkingIffDrained`, `QueueSizeAccounts`, and `GroupOrder`: `Router` implements `GroupFifo` |
| `router_pools` | an ordered and an IMMEDIATE message, 2 codes, 3 pool objects; pools come and go | `NothingStranded`, `TrackedHasOwner`, `QueueSizeAccounts` |
| `router_reap` | a message and its external requeue, 2 receipts each; reaper and stall detector | `TrackerMapsAgree`, `TrackedHasOwner`, `NoLoss` |
| `router_live` | a message, 2 consumers, room in the pool | `ParkedGroupResumes`, `EventuallySettled`, with `TrackedHasOwner` and `NoLoss` |
| `router_nats` | per-delivery ids | violation of `NoLoss` |
| `router_live_full` | as `router_live`, pool of capacity 1 | violation of `ParkedGroupResumes` |
| `jobs` | 1 job, a router and an abandoned handler, 2 queue copies, 2 attempts; requeue, pause | `NoJobForgotten`, `WithinRetryBudget`, `JobSettles` |
| `jobs_starved` | 2 jobs, batch of 1, a paused connection | violation of `UnblockedIsDispatched` |
| `jobs_overlap` | 1 job, 2 routers | violation of `TerminalStays` |
| `outbox` | 2 items of a group and an ungrouped one, batches of 2, 2 attempts; all operator actions, crashes, failed statements | `InFlightAccounts`, `AtMostOnePastBlock`, `ItemsSettle` |
| `standby` | 3 instances, heartbeat 2, latency 1, time to live 4 | `LeadersExclusive`, `LockNotStolen`, `LeaderElected` |

Each module's `TypeOK` is an invariant of one of its runs.

### Why the bounds are enough

* Two messages show every order violation of a group; two goroutines are what a
  second drainer takes. Three pool objects allow a pool to be removed, replaced
  and removed again; two consumers allow one restart with a batch in hand.
* `Capacity` 1 to 3 reaches both the full pool and the transient wrap of the
  counter (`U32 = 8` keeps the wrap apart from every value the counter can have).
* Window 2 makes the ring wrap; two calls give late results; two objects an
  orphan after an eviction.
* `router_ordered` and `router_pools` have one receipt for each message, so a
  message is redelivered there only once nobody holds the earlier delivery; overlapping
  deliveries of a message are in `router_reap` and `router_live`, and in the theorems.
* `router_live` has no remembered acknowledgements, which would double its states:
  they take visible messages away and delay none, and the safety runs have them.
* Two copies of a message, a router and an abandoned handler give duplicate
  publishes, stale recovery, a revert of a batch that was partly published, and two
  calls that overlap. A second scheduler adds a late revert or publish, which the
  stale scan and the duplicates already have; a second router adds another call. The
  theorems hold for any number of both.
* `MaxInFlight` 1 with batches of 2 reaches the back-pressure of the outbox; two
  items of a group that is held fill a batch, one does not.
* Heartbeat 2, latency 1 and time to live 4 are the smallest values in which a
  refresh can come too late for the next one and still in time for the lock.

Deadlock checking is off where an instance may really stop: when every message is
settled and the bounded restarts, pools or copies are used up.

### Fairness

* `Router`: weak fairness for poll loops, goroutines and the manager (Go schedules
  them, locks are held briefly); strong fairness for a waiting semaphore acquire
  (channel operations are first-come first-served) and for a broker that keeps
  offering a visible message to a consumer that keeps polling; strong fairness for
  a terminal outcome: an endpoint does not fail for ever.
* `DispatchJob`, `Outbox` and `Standby`: crashes, failed statements and lost calls
  are finitely many (`<>[][Work]_vars`), everything the loops and timers do is
  weakly fair, and what competes for locks or slots strongly fair. In `DispatchJob`
  and `Outbox` operators, too, act finitely often, and they owe nothing: no liveness
  property relies on an unblock, a resume or a restart.
* `CircuitBreaker`: calls end, time passes, and a healthy endpoint is called.

## 4. What the violations show

1. `router_nats`: `internal/queue/nats/nats.go:282` makes the broker id from the
   consumer sequence. A redelivery has another id, is taken for an external requeue
   and acknowledged, and the message is then only in the router's memory.
2. `router_live_full`: after a consumer restart, parked messages can fill every
   pool. Polling then pauses (`internal/router/manager.go:408`), so the redelivery
   that would resume the group never arrives.
3. `jobs_starved`: the claim's LIMIT (`internal/platform/scheduler/poller.go:166`)
   comes before the filters. A batch full of held rows is claimed at every poll.
4. `jobs_overlap`: two routers with two messages of a job both pass the terminal
   check; the second call's writes, by id alone, move a terminal row.

The passing properties name the exceptions the code has, and are violated without
them:

* `WithinRetryBudget`: the budget is checked against the count a call loaded, while
  `ScheduleRetry` increments the row, so overlapping calls overrun it, by at most one
  attempt each. Without overlap (`Cardinality(Caller) = 1`) it would be exact.
* `NoJobForgotten` and `JobSettles` except `unrecorded`: the write of an outcome that
  fails is only logged (`processing.go:188-214`) and the message acknowledged, which
  leaves the row in PROCESSING for good. So does a router that has a call of a job
  answered and not yet acknowledged, and drops the message of another call, since
  cut, as its duplicate.
* `AtMostOnePastBlock`: "the group never silently advances past it"
  (`processor.go:250`) up to one item, which `tick` found active (`:155`) before the
  drain blocked the group and submits (`:160`) after.
* `ItemsSettle` excepts `Crowded`: as at the scheduler, the claim's LIMIT
  (`internal/outbox/postgres/postgres.go:86`) comes before the held groups are
  skipped. With g1 paused its two rows are claimed and released for ever, and the
  ungrouped item behind them is never sent.

`NoLoss` holds with the reaper (`router_reap`) and with consumer restarts
(`router_live`). An instance with a requeued copy and both has a counterexample: the
copy is acknowledged as a requeue of the original; the original's entry is reaped
while it waits; an earlier delivery of the copy, still in the batch of a cancelled
consumer, registers as new; and the original's redelivery is acknowledged as a
requeue of the copy. Both broker messages are then deleted and the job is only in
memory.

## 5. Proofs

TLAPS proves, for every set of messages, groups, pools, consumers and goroutines
that satisfies `RouterAssumption` and `TrackerAssumption`, for every set of jobs,
schedulers and (finitely many) routers that satisfies `JobAssumption`, and for every
set of instances and all times that satisfy `StandbyAssumption`:

| Theorem | Module | Statement |
|---|---|---|
| `TypeCorrect` | `RouterProofs` | `Spec => []TypeOK` |
| `TrackerMapsAlwaysAgree` | `RouterProofs` | `Spec => []TrackerMapsAgree` |
| `OneDrainerPerGroup` | `RouterDrainProofs` | `Spec => []SingleDrainer` |
| `FlagTellsDrainer` | `RouterDrainProofs` | `Spec => []WorkingIffDrained` |
| `StopStrandsNothing` | `RouterDrainProofs` | `Spec => []NothingStranded` |
| `NoJobIsForgotten` | `DispatchJobProofs` | `Spec => []NoJobForgotten` |
| `RetryBudgetKept` | `DispatchJobProofs` | `Spec => []WithinRetryBudget` |
| `ElectionTypes` | `StandbyProofs` | `Spec => []TypeOK` |
| `OneLeader` | `StandbyProofs` | `Spec => []LeadersExclusive` |
| `NoLockStolen` | `StandbyProofs` | `Spec => LockNotStolen` |

*Type correctness* is not inductive: a handler reads the fields its program counter
promises. `Sound` adds them (a poll loop beyond `poll` has a batch, one at `submit`
has a pool, a goroutine at `proc` a message) together with the agreement of the two
tracker maps, without which `CurrentReceipt` would read an entry that is not there.
The lemmas are one for each tracker operation, one for each way a poll loop or a
goroutine moves, and one for each group of actions.

*Drainers*: `DrainInv` strengthens `SingleDrainer`, `WorkingIffDrained` and
`NothingStranded`, which hold each other up. A second drainer is excluded by the
flag; the flag is right because every exit of a drainer clears it; and in a stopped
pool, where the flush removes the queue and its flag from under a running drainer,
uniqueness survives because nothing is enqueued any more, hence no drainer starts.
The lemmas are: steps that change no drainer, a change of a queue's messages, a
start and an end; the actions are then cases of these four.

*Jobs*: neither property is inductive. That a row in PROCESSING has a message could
be undone by an acknowledgement under way, so `JobInv` says that it has one more
than the calls that are about to acknowledge, and that every waiting router has a
message of its own, which is why a duplicate can be dropped. That the budget holds
could be undone by calls that loaded an old count, so `JobInv` charges the row in
advance for every call that may still schedule a retry (`Spenders`):
`attempt_count + Cardinality(Spenders) + 2 <= MaxRetries + Cardinality(Caller)`. A
call that loads the row becomes a spender only if its count leaves room for it, and
turns its charge into an attempt when it writes. The lemmas count what a step does
to the three sets of calls; the actions are then cases of a few frames.

*Election*: that two instances never lead at once does not follow from the lock
alone, because `isLeader` is only refreshed once a heartbeat and the lock may expire
in between. `LeaseInv` bounds how stale it can be: since the call that made the
instance leader the lock has lost at most the age of the heartbeat
(`lock.ttl + age >= LockTTL`), and one `Heartbeat` more while the next call is under
way. With `Heartbeat + MaxLatency < LockTTL` the lock of a leader is therefore still
there and still its own, and its owner is unique. The inequality is an assumption on
configuration and network that the code does not check. `StandbyAssumption` also asks
for `MaxLatency <= Heartbeat`, so with the default 10 s and 30 s the theorem covers
calls of up to 10 s for a heartbeat.

Out of the prover's reach and checked by TLC alone: every liveness property. Not
yet proved: `QueueSizeAccounts` (it sums over goroutines), `TrackedHasOwner`,
`NoLoss`, the refinement `GroupOrder`, and everything about `CircuitBreaker` and
`Outbox`.

## 6. Not modelled

* The order of a group across a refusal for capacity: it rests on the broker's own
  FIFO groups. `GroupFifo` speaks of what a pool has accepted.
* An outbox processor that has lost its lead: its polling stops
  (`internal/outbox/processor.go:110`) and its drains and batches run on beside those
  of the new leader. Ungrouped items of more than one type. The SQLite and MongoDB
  repositories.
* More than one abandoned handler of a job at a time.
* The dispatch modes and the order of jobs within a group at the scheduler.
* The router's leadership gate and the channel that feeds it; config sync.
* The stream processor and the scheduled jobs.
* Connection pools, rate limits, metrics, warnings and health.
* Request handlers of the platform, the SDK and the MCP server.

## 7. Plan

In order:

1. `LeaderGate` over `Standby`: the subscription channel that drops the newest
   event, and the gate that starts and drains the router's pools.
2. `FanOut`: claim of events, cached subscriptions, insertion of jobs, two
   instances; abstract specification: each event is fanned out exactly once. Then
   the projections.
3. `Outbox`: a second processor, and an abstract specification of the order in which
   the items of a group are accepted, with the restart as the exception.
4. `DispatchJob`: dispatch modes, sequences and the order within a group; an
   abstract life cycle that the detailed one refines.
5. `ScheduledJobs`: polling, claiming and reporting of firings.
6. Composition of the scheduler and the router over one queue.
7. Proofs: `InFlightAccounts` of `Outbox`; `WindowCountsRecent` of `CircuitBreaker`;
   `NoLoss` and `GroupOrder` of `Router`.

## 8. Running

    tlc -workers 2 -config RouterOrdered.cfg MCRouter
    tlapm RouterDrainProofs.tla
    tlapm DispatchJobProofs.tla
    tlapm StandbyProofs.tla

The runs take between a second and three minutes; the proofs, from nothing,
several minutes (about eight for `RouterProofs`). Leaves marked `Zenon` are the ones
whose translation for SMT is larger than the fact they establish.
