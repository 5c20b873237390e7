---------------------------- MODULE DispatchJob ----------------------------
(***************************************************************************)
(* The life of a dispatch job: the scheduler (internal/platform/scheduler) *)
(* claims PENDING rows and publishes them, the router calls the processing *)
(* endpoint (internal/platform/dispatchjob/processing), which delivers the *)
(* webhook and advances the row; stale recovery and operators put rows     *)
(* back.  The row is only ever changed by single SQL statements, the queue *)
(* delivers at least once, and either side can crash between two steps.    *)
(*                                                                         *)
(* Jobs are numbered in the poller's ORDER BY message_group, sequence,     *)
(* created_at.                                                             *)
(***************************************************************************)
EXTENDS Naturals, FiniteSets

CONSTANTS
  Job,           \* dispatch jobs, numbered in claim order
  MessageGroup,  \* job -> its message_group, or None
  Subscription,  \* job -> its subscription, or None
  Scheduler,     \* scheduler instances that believe they lead
  Router,        \* router instances; one never waits for two calls of a job
  BatchSize,     \* jobs claimed per poll
  MaxRetries,    \* delivery attempts a job may use up
  MaxCopies,     \* bound: queue messages per job that are told apart
  Operations,    \* the operator actions this instance exercises
  None

ASSUME JobAssumption ==
  /\ Job \subseteq Nat
  /\ BatchSize \in Nat \ {0}
  /\ MaxRetries \in Nat \ {0}
  /\ MaxCopies \in Nat \ {0}
  /\ IsFiniteSet(Router) /\ "abandoned" \notin Router
  /\ Operations \subseteq {"requeue", "pause"}

VARIABLES
  row,          \* msg_dispatch_jobs: status, attempt_count, scheduled_for passed
  queue,        \* job -> its messages in the broker, delivered or not
  poll,         \* per scheduler: pollOnce
  pausedCache,  \* per scheduler: the paused subscriptions it knows; None when stale
  paused,       \* subscriptions whose connection is PAUSED
  call,         \* per caller and job: a call of the processing endpoint
  unrecorded    \* history: jobs whose latest outcome was not or will not be written

vars == <<row, queue, poll, pausedCache, paused, call, unrecorded>>

Terminal == {"COMPLETED", "FAILED"}

IsTerminal(j) == row[j].status \in Terminal

Row == [ status : {"PENDING", "QUEUED", "PROCESSING"} \cup Terminal,
         attempt_count : Nat, due : BOOLEAN ]

\* The routers, and the handler of a call its router has stopped waiting for.
\* Bound: one such handler per job.
Caller == Router \cup {"abandoned"}

Idle == [pc |-> "idle", locked |-> {}, batch |-> {}]

NoCall == [pc |-> "none", attempts |-> 0, result |-> None]

Subscribed == {Subscription[j] : j \in Job} \ {None}

Result == {"success", "deferral", "failure"}

TypeOK ==
  /\ row \in [Job -> Row]
  /\ queue \in [Job -> 0 .. MaxCopies]
  /\ pausedCache \in [Scheduler -> {None} \cup SUBSET Subscribed]
  /\ paused \subseteq Subscribed
  /\ poll \in [Scheduler -> [ pc : {"idle", "claimed", "checked", "publish", "revert"},
                              locked : SUBSET Job, batch : SUBSET Job ]]
  /\ call \in [Caller \X Job -> [ pc : {"none", "load", "mark", "deliver", "advance", "ack"},
                                  attempts : Nat, result : Result \cup {None} ]]
  /\ unrecorded \subseteq Job

Init ==
  /\ row = [j \in Job |-> [status |-> "PENDING", attempt_count |-> 0, due |-> TRUE]]
  /\ queue = [j \in Job |-> 0]
  /\ poll = [s \in Scheduler |-> Idle]
  /\ pausedCache = [s \in Scheduler |-> None]
  /\ paused = {}
  /\ call = [c \in Caller \X Job |-> NoCall]
  /\ unrecorded = {}

\* A claimed row is locked until its scheduler's transaction ends.
Locked(j) == \E s \in Scheduler : j \in poll[s].locked

-----------------------------------------------------------------------------
(* Scheduler: pollOnce *)

First(S, n) == {j \in S : Cardinality({k \in S : k < j}) < n}

Claimable == {j \in Job : row[j].status = "PENDING" /\ row[j].due /\ ~Locked(j)}

PausedSubscriptionIDs(s) == IF pausedCache[s] = None THEN paused ELSE pausedCache[s]

filterPausedSubscriptions(s, claims) == {j \in claims : Subscription[j] \notin PausedSubscriptionIDs(s)}

\* The claim query, FOR UPDATE SKIP LOCKED, and the paused-subscription filter.
\* A poll that claims nothing ends here.
Claim(s) ==
  LET claims == First(Claimable, BatchSize) IN
  /\ poll[s].pc = "idle"
  /\ claims # {}
  /\ poll' = [poll EXCEPT ![s] = [pc |-> "claimed", locked |-> claims,
                                  batch |-> filterPausedSubscriptions(s, claims)]]
  /\ pausedCache' = [pausedCache EXCEPT ![s] = PausedSubscriptionIDs(s)]
  /\ UNCHANGED <<row, queue, paused, call, unrecorded>>

\* Jobs without a group share the bucket, and so the holding back, of "default".
messageGroupKey(j) == IF MessageGroup[j] = None THEN "default" ELSE MessageGroup[j]

\* Groups with a FAILED job; a job without a group never blocks.
blockedGroups == {MessageGroup[j] : j \in {k \in Job : row[k].status = "FAILED"}} \ {None}

\* Jobs of blocked groups stay PENDING, whatever their dispatch mode.
HoldBack(s) ==
  /\ poll[s].pc = "claimed"
  /\ poll' = [poll EXCEPT ![s].pc = "checked",
                          ![s].batch = {j \in @ : messageGroupKey(j) \notin blockedGroups}]
  /\ UNCHANGED <<row, queue, pausedCache, paused, call, unrecorded>>

\* The update to QUEUED and the commit; the locks go.
Commit(s) ==
  /\ poll[s].pc = "checked"
  /\ row' = [j \in Job |-> IF j \in poll[s].batch THEN [row[j] EXCEPT !.status = "QUEUED"] ELSE row[j]]
  /\ poll' = [poll EXCEPT ![s].pc = IF poll[s].batch = {} THEN "idle" ELSE "publish",
                          ![s].locked = {}]
  /\ UNCHANGED <<queue, pausedCache, paused, call, unrecorded>>

\* A failed statement, a lost leadership or a crash: the transaction rolls
\* back, or the committed batch is never published.
Abort(s) ==
  /\ poll[s].pc # "idle"
  /\ poll' = [poll EXCEPT ![s] = Idle]
  /\ UNCHANGED <<row, queue, pausedCache, paused, call, unrecorded>>

\* PublishBatch: any part of the batch reaches the queue, whether the call
\* then succeeds (a broker may drop or deduplicate messages) or fails.
SubmitBatch(s) ==
  /\ poll[s].pc = "publish"
  /\ \E stored \in SUBSET poll[s].batch :
       queue' = [j \in Job |-> IF j \in stored /\ queue[j] < MaxCopies THEN queue[j] + 1 ELSE queue[j]]
  /\ \/ poll' = [poll EXCEPT ![s] = Idle]
     \/ poll' = [poll EXCEPT ![s].pc = "revert"]
  /\ UNCHANGED <<row, pausedCache, paused, call, unrecorded>>

\* After a failed publish the rows that are still QUEUED go back to PENDING.
Revert(s) ==
  /\ poll[s].pc = "revert"
  /\ row' = [j \in Job |-> IF j \in poll[s].batch /\ row[j].status = "QUEUED"
                           THEN [row[j] EXCEPT !.status = "PENDING"] ELSE row[j]]
  /\ poll' = [poll EXCEPT ![s] = Idle]
  /\ UNCHANGED <<queue, pausedCache, paused, call, unrecorded>>

\* Not what the code does: the stale scan looks for the wrong status.
RecoverPending(stale) ==
  /\ stale # {} /\ \A j \in stale : row[j].status = "PENDING"
  /\ row' = [j \in Job |-> IF j \in stale THEN [row[j] EXCEPT !.status = "PENDING"] ELSE row[j]]
  /\ UNCHANGED <<queue, poll, pausedCache, paused, call, unrecorded>>

\* StaleQueuedJobPoller: rows that have been QUEUED for too long.
recoverOnce(stale) ==
  /\ stale # {} /\ \A j \in stale : row[j].status = "QUEUED"
  /\ row' = [j \in Job |-> IF j \in stale THEN [row[j] EXCEPT !.status = "PENDING"] ELSE row[j]]
  /\ UNCHANGED <<queue, poll, pausedCache, paused, call, unrecorded>>

BackoffElapsed(j) ==
  /\ ~row[j].due
  /\ row' = [row EXCEPT ![j].due = TRUE]
  /\ UNCHANGED <<queue, poll, pausedCache, paused, call, unrecorded>>

\* PausedCacheTTL passes.
CacheExpires(s) ==
  /\ "pause" \in Operations
  /\ pausedCache[s] # None
  /\ pausedCache' = [pausedCache EXCEPT ![s] = None]
  /\ UNCHANGED <<row, queue, poll, paused, call, unrecorded>>

-----------------------------------------------------------------------------
(* Router and processing endpoint: POST /api/dispatch/process *)

Waiting(j) == {r \in Router : call[<<r, j>>].pc # "none"}

Undelivered(j) == queue[j] > Cardinality(Waiting(j))

CallStep(c, j, pc) == call' = [call EXCEPT ![<<c, j>>].pc = pc]

\* serve answers; nobody hears the answer to an abandoned call.
Answered(c) == IF c \in Router THEN [NoCall EXCEPT !.pc = "ack"] ELSE NoCall

Receive(r, j) ==
  /\ call[<<r, j>>].pc = "none"
  /\ Undelivered(j)
  /\ CallStep(r, j, "load")
  /\ UNCHANGED <<row, queue, poll, pausedCache, paused, unrecorded>>

\* Not what the code does: the drop acknowledges the message being processed.
DropOwner(r, j) ==
  /\ call[<<r, j>>].pc # "none"
  /\ queue' = [queue EXCEPT ![j] = @ - 1]
  /\ UNCHANGED <<row, poll, pausedCache, paused, call, unrecorded>>

\* A second message of a job the router has in flight is acknowledged and dropped.
\* If the router's call is over, a row that another call has left in PROCESSING
\* may have lost its last message with it.
DropDuplicate(r, j) ==
  /\ call[<<r, j>>].pc # "none"
  /\ Undelivered(j)
  /\ queue' = [queue EXCEPT ![j] = @ - 1]
  /\ unrecorded' = IF call[<<r, j>>].pc = "ack" /\ row[j].status = "PROCESSING"
                   THEN unrecorded \cup {j} ELSE unrecorded
  /\ UNCHANGED <<row, poll, pausedCache, paused, call>>

\* serve loads the job; a terminal one is acknowledged at once.
Load(c, j) ==
  /\ call[<<c, j>>].pc = "load"
  /\ call' = [call EXCEPT ![<<c, j>>] =
       IF IsTerminal(j) THEN Answered(c)
       ELSE [@ EXCEPT !.pc = "mark", !.attempts = row[j].attempt_count]]
  /\ UNCHANGED <<row, queue, poll, pausedCache, paused, unrecorded>>

\* The write may fail; delivery goes ahead regardless.
MarkInProgress(c, j) ==
  /\ call[<<c, j>>].pc = "mark"
  /\ \/ /\ ~Locked(j)
        /\ row' = [row EXCEPT ![j].status = "PROCESSING"]
        /\ unrecorded' = unrecorded \ {j}
     \/ UNCHANGED <<row, unrecorded>>
  /\ CallStep(c, j, "deliver")
  /\ UNCHANGED <<queue, poll, pausedCache, paused>>

\* The webhook: 2xx, a deferral (ack=false or 429), anything else or no answer.
deliver(c, j) ==
  /\ call[<<c, j>>].pc = "deliver"
  /\ \E res \in Result :
       call' = [call EXCEPT ![<<c, j>>] = [@ EXCEPT !.pc = "advance", !.result = res]]
  /\ UNCHANGED <<row, queue, poll, pausedCache, paused, unrecorded>>

Retry(b, spent) == [status |-> "PENDING", attempt_count |-> b.attempt_count + spent, due |-> FALSE]

\* Not what the code does: one attempt more than the budget.
AdvancedLate(b, c) ==
  CASE c.result = "success" -> [b EXCEPT !.status = "COMPLETED"]
    [] c.result = "deferral" -> Retry(b, 0)
    [] c.result = "failure" /\ c.attempts >= MaxRetries -> [b EXCEPT !.status = "FAILED"]
    [] OTHER -> Retry(b, 1)

\* MarkCompleted, Reschedule, MarkFailed or ScheduleRetry on row b.
Advanced(b, c) ==
  CASE c.result = "success" -> [b EXCEPT !.status = "COMPLETED"]
    [] c.result = "deferral" -> Retry(b, 0)
    [] c.result = "failure" /\ c.attempts + 1 >= MaxRetries -> [b EXCEPT !.status = "FAILED"]
    [] OTHER -> Retry(b, 1)

\* Not what the code does: the outcome is written after the acknowledgement.
AdvanceLater(c, j) ==
  /\ call[<<c, j>>].pc = "advance"
  /\ UNCHANGED <<row, unrecorded>>
  /\ call' = [call EXCEPT ![<<c, j>>] = Answered(c)]
  /\ UNCHANGED <<queue, poll, pausedCache, paused>>

\* Every write is by id alone.
advance(c, j) ==
  /\ call[<<c, j>>].pc = "advance"
  /\ ~Locked(j)
  /\ row' = [row EXCEPT ![j] = Advanced(@, call[<<c, j>>])]
  /\ unrecorded' = unrecorded \ {j}
  /\ call' = [call EXCEPT ![<<c, j>>] = Answered(c)]
  /\ UNCHANGED <<queue, poll, pausedCache, paused>>

\* A write of advance that fails is only logged; the message is acknowledged.
LoseOutcome(c, j) ==
  /\ call[<<c, j>>].pc = "advance"
  /\ unrecorded' = unrecorded \cup {j}
  /\ call' = [call EXCEPT ![<<c, j>>] = Answered(c)]
  /\ UNCHANGED <<row, queue, poll, pausedCache, paused>>

\* The router acknowledges; if that fails the message is delivered again.
Acknowledge(r, j) ==
  /\ call[<<r, j>>].pc = "ack"
  /\ queue' = [queue EXCEPT ![j] = @ - 1]
  /\ call' = [call EXCEPT ![<<r, j>>] = NoCall]
  /\ UNCHANGED <<row, poll, pausedCache, paused, unrecorded>>

\* The router stops waiting and lets the message go back; the handler runs on
\* until it notices that its request context has ended.
GiveUp(r, j) ==
  /\ call[<<r, j>>].pc \in {"load", "mark", "deliver", "advance"}
  /\ call[<<"abandoned", j>>].pc = "none"
  /\ call' = [call EXCEPT ![<<"abandoned", j>>] = call[<<r, j>>], ![<<r, j>>] = NoCall]
  /\ UNCHANGED <<row, queue, poll, pausedCache, paused, unrecorded>>

\* The endpoint or the router goes down, or the end of the request context is
\* noticed, and with it fails every later write of the call.
Cut(c, j) ==
  /\ call[<<c, j>>].pc # "none"
  /\ call' = [call EXCEPT ![<<c, j>>] = NoCall]
  /\ unrecorded' = IF c \notin Router /\ call[<<c, j>>].pc \in {"deliver", "advance"}
                   THEN unrecorded \cup {j} ELSE unrecorded
  /\ UNCHANGED <<row, queue, poll, pausedCache, paused>>

-----------------------------------------------------------------------------
(* Operators *)

\* A fresh delivery cycle, from any status.
Requeue(j) ==
  /\ "requeue" \in Operations
  /\ ~Locked(j)
  /\ row' = [row EXCEPT ![j] = [status |-> "PENDING", attempt_count |-> 0, due |-> TRUE]]
  /\ unrecorded' = unrecorded \ {j}
  /\ UNCHANGED <<queue, poll, pausedCache, paused, call>>

\* A connection is paused or reactivated.
TogglePaused(sub) ==
  /\ "pause" \in Operations
  /\ paused' = IF sub \in paused THEN paused \ {sub} ELSE paused \cup {sub}
  /\ UNCHANGED <<row, queue, poll, pausedCache, call, unrecorded>>

-----------------------------------------------------------------------------
pollOnce(s) == Claim(s) \/ HoldBack(s) \/ Commit(s) \/ SubmitBatch(s) \/ Revert(s)

serve(c, j) == Load(c, j) \/ MarkInProgress(c, j) \/ deliver(c, j) \/ advance(c, j) \/ LoseOutcome(c, j)

\* What the system does while nothing fails.
Work ==
  \/ \E s \in Scheduler : Claim(s) \/ HoldBack(s) \/ Commit(s) \/ SubmitBatch(s) \/ CacheExpires(s)
  \/ \E stale \in SUBSET Job : recoverOnce(stale)
  \/ \E j \in Job : BackoffElapsed(j)
  \/ \E r \in Router, j \in Job : Receive(r, j) \/ DropDuplicate(r, j) \/ Acknowledge(r, j)
  \/ \E c \in Caller, j \in Job : Load(c, j) \/ MarkInProgress(c, j) \/ deliver(c, j) \/ advance(c, j)

\* Failures, and what operators do.
Trouble ==
  \/ \E s \in Scheduler : Abort(s) \/ Revert(s)
  \/ \E r \in Router, j \in Job : GiveUp(r, j)
  \/ \E c \in Caller, j \in Job : Cut(c, j) \/ LoseOutcome(c, j)
  \/ \E j \in Job : Requeue(j)
  \/ \E sub \in Subscribed : TogglePaused(sub)

Next == Work \/ Trouble

Spec == Init /\ [][Next]_vars

\* Crashes, lost leaderships, failed publishes, timed-out calls, failed writes of
\* an outcome and operator actions are finitely many, the loops tick, timers run out, row locks are
\* granted in turn, a published job reaches the queue now and then, and a
\* subscriber does not defer for ever.
FairSpec ==
  /\ Spec
  /\ <>[][Work]_vars
  /\ \A s \in Scheduler : WF_vars(pollOnce(s)) /\ WF_vars(CacheExpires(s))
  /\ \A j \in Job :
       /\ WF_vars(\E stale \in SUBSET Job : j \in stale /\ recoverOnce(stale))
       /\ WF_vars(BackoffElapsed(j))
       /\ \A s \in Scheduler : SF_vars(SubmitBatch(s) /\ j \in poll[s].batch /\ queue'[j] > 0)
       /\ \A r \in Router : WF_vars(Receive(r, j)) /\ WF_vars(Acknowledge(r, j))
       /\ \A c \in Caller : /\ WF_vars(serve(c, j))
                            /\ SF_vars(deliver(c, j) /\ call'[<<c, j>>].result # "deferral")

-----------------------------------------------------------------------------
(* Properties *)

\* A terminal status changes only when an operator requeues the job: no late or
\* duplicate call, no revert and no recovery moves a COMPLETED or FAILED job
\* ("IsTerminal reports whether a status will not change further").  The endpoint
\* writes by id alone, so a call that overlaps another one does.
TerminalStays ==
  [][\A j \in Job : IsTerminal(j) /\ row'[j].status # row[j].status => Requeue(j)]_vars

\* A job in PROCESSING, which neither the poller nor the stale scan picks up, has
\* a message in the queue or a call that will still write its outcome, unless the
\* write of an outcome failed or a router dropped the message as the duplicate of
\* a call that was over: no crash, timeout, cut call or other duplicate leaves a
\* row in PROCESSING that nobody will ever touch again.
NoJobForgotten ==
  \A j \in Job : row[j].status = "PROCESSING" =>
    \/ queue[j] > 0
    \/ call[<<"abandoned", j>>].pc \in {"deliver", "advance"}
    \/ j \in unrecorded

\* attempt_count, which ScheduleRetry increments in the row, overruns the budget,
\* which advance checks against the count it loaded, by at most one attempt for
\* each other call at work at the same time: without overlap it stays below the
\* budget, and no order of late outcomes makes the overruns add up.
WithinRetryBudget ==
  \A j \in Job : row[j].attempt_count < MaxRetries + Cardinality(Caller) - 1

Held(j) == messageGroupKey(j) \in blockedGroups \/ Subscription[j] \in paused

\* A due PENDING job of a group without a failure, and whose connection is
\* not paused, is dispatched ("resolved group must dispatch on the next poll").
UnblockedIsDispatched ==
  \A j \in Job : (row[j].status = "PENDING" /\ row[j].due /\ ~Held(j))
                   ~> (row[j].status # "PENDING" \/ Held(j))

\* Once failures and operators leave the system alone every job ends up COMPLETED
\* or FAILED, unless a paused connection or a failed sibling holds it back or its
\* outcome was lost: no stale claim, timed-out call, duplicate or cached pause
\* keeps it in between.
JobSettles == []<>(\A j \in Job : IsTerminal(j) \/ Held(j) \/ j \in unrecorded)
=============================================================================
