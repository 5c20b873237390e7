------------------------------- MODULE Outbox -------------------------------
(***************************************************************************)
(* The outbox processor (internal/outbox): one poll goroutine claims       *)
(* PENDING rows, one drain goroutine per group sends its items in turn and *)
(* stops at the first failure, one goroutine per claim sends the ungrouped *)
(* items in a batch, and operators pause, unblock and skip groups.  Rows   *)
(* change by single SQL statements; group state, buffers and counters die  *)
(* with the process.  BlockOnError is on, as by default, and the ungrouped *)
(* items are of one type.                                                  *)
(*                                                                         *)
(* Items are numbered in ClaimPending's ORDER BY message_group, created_at,*)
(* which has those without a group last.                                   *)
(***************************************************************************)
EXTENDS Naturals, FiniteSets, Sequences, SequencesExt

CONSTANTS
  Item,                 \* outbox rows, numbered in claim order
  MessageGroup,         \* item -> its message_group, or None
  BatchSize,            \* rows claimed per tick
  MaxRetries,           \* attempts before a retryable failure is permanent
  MaxInFlight,          \* the poll loop pauses at this many items in memory
  MaxConcurrentGroups,  \* drains that run at the same time
  Operations,           \* what operators and the environment do in this instance
  None

ASSUME OutboxAssumption ==
  /\ Item \subseteq Nat
  /\ BatchSize \in Nat \ {0}
  /\ MaxRetries \in Nat \ {0}
  /\ MaxInFlight \in Nat \ {0}
  /\ MaxConcurrentGroups \in Nat \ {0}
  /\ Operations \subseteq {"pause", "unblock", "crash", "dbError"}

VARIABLES
  row,       \* outbox_messages; DELETED once dispatched
  tick,      \* the claimed items the poll goroutine has in hand
  pending,   \* per group: groupQueue.pending
  drain,     \* per group: the goroutine that owns the group's entry
  aborters,  \* drains that have given up their group and release the rest
  batches,   \* dispatchBatch goroutines
  groups,    \* GroupStateManager
  clearing,  \* the poison item an UnblockGroup call has yet to requeue
  inFlight

vars == <<row, tick, pending, drain, aborters, batches, groups, clearing, inFlight>>

Group == {MessageGroup[i] : i \in Item} \ {None}

\* An item as claimed: AttemptCount is the row's retry_count at that time.
Copy == [id : Item, attempts : Nat]

Row == [status : {"PENDING", "IN_PROGRESS", "FAILED", "DELETED"}, retry_count : Nat]

\* What parseItemStatus and the status code come to: SKIPPED, an item the
\* platform chose not to store, is a success like SUCCESS.
Outcome == {"success", "retryable", "permanent"}

NoTick == [items |-> << >>, active |-> FALSE, byType |-> << >>]

NoDrain == [pc |-> "none", item |-> None, outcome |-> None]

Running == [status |-> "RUNNING", blockedItemID |-> None]

TypeOK ==
  /\ row \in [Item -> Row]
  /\ tick \in [items : Seq(Copy), active : BOOLEAN, byType : Seq(Copy)]
  /\ tick.active => tick.items # << >>
  /\ pending \in [Group -> Seq(Copy)]
  /\ drain \in [Group -> [ pc : {"none", "wait", "top", "send", "record", "block", "done", "fail", "stop"},
                           item : Copy \cup {None}, outcome : Outcome \cup {None} ]]
  /\ \A g \in Group : pending[g] # << >> => drain[g].pc # "none"
  /\ aborters \in Seq(Seq(Copy))
  /\ batches \in Seq([ size : Nat, items : Seq(Copy), succeeded : SUBSET Item,
                       failed : Seq([copy : Copy, outcome : Outcome]) ])
  /\ groups \in [Group -> [ status : {"RUNNING", "PAUSED", "BLOCKED"},
                            blockedItemID : Item \cup {None} ]]
  /\ clearing \in Item \cup {None}
  /\ inFlight \in Nat

Init ==
  /\ row = [i \in Item |-> [status |-> "PENDING", retry_count |-> 0]]
  /\ tick = NoTick
  /\ pending = [g \in Group |-> << >>]
  /\ drain = [g \in Group |-> NoDrain]
  /\ aborters = << >>
  /\ batches = << >>
  /\ groups = [g \in Group |-> Running]
  /\ clearing = None
  /\ inFlight = 0

\* Release: only a row that is still IN_PROGRESS goes back.
Released(i) == IF row[i].status = "IN_PROGRESS" THEN [row EXCEPT ![i].status = "PENDING"] ELSE row

\* What a statement that leaves row as new does: ok tells whether it succeeds.
\* One that fails may have been executed before its answer was lost.
Execute(ok, new) == IF ok THEN row' = new ELSE "dbError" \in Operations /\ row' \in {row, new}

-----------------------------------------------------------------------------
(* Poll goroutine *)

First(S, n) == {i \in S : Cardinality({k \in S : k < i}) < n}

Idle == tick.items = << >> /\ tick.byType = << >>

\* The UPDATE marks the first rows in claim order; RETURNING promises no order.
\* tick goes through the grouped items first and starts the batch at the end.
ClaimPending(ok) ==
  LET claims == First({i \in Item : row[i].status = "PENDING"}, BatchSize) IN
  /\ Idle
  /\ inFlight < MaxInFlight
  /\ claims # {}
  /\ Execute(ok, [i \in Item |-> IF i \in claims THEN [row[i] EXCEPT !.status = "IN_PROGRESS"]
                                 ELSE row[i]])
  /\ \E order \in SetToSeqs(claims) :
       LET items == [n \in DOMAIN order |-> [id |-> order[n], attempts |-> row[order[n]].retry_count]] IN
       tick' = IF ok THEN [ items  |-> SelectSeq(items, LAMBDA c : MessageGroup[c.id] # None),
                            active |-> FALSE,
                            byType |-> SelectSeq(items, LAMBDA c : MessageGroup[c.id] = None) ]
               ELSE tick
  /\ UNCHANGED <<pending, drain, aborters, batches, groups, clearing, inFlight>>

NextItem == MessageGroup[Head(tick.items).id]

Rest == [tick EXCEPT !.items = Tail(@), !.active = FALSE]

\* Not what the code does: the state of the group is not looked at.
IsActiveAlways(ok) ==
  /\ tick.items # << >> /\ ~tick.active
  /\ ok /\ tick' = [tick EXCEPT !.active = TRUE]
  /\ UNCHANGED <<row, pending, drain, aborters, batches, groups, clearing, inFlight>>

\* tick reads the state of the item's group; an inactive one is released.
IsActive(ok) ==
  /\ tick.items # << >> /\ ~tick.active
  /\ IF groups[NextItem].status = "RUNNING"
     THEN ok /\ tick' = [tick EXCEPT !.active = TRUE] /\ UNCHANGED row
     ELSE tick' = Rest /\ Execute(ok, Released(Head(tick.items).id))
  /\ UNCHANGED <<pending, drain, aborters, batches, groups, clearing, inFlight>>

\* Submit: a group without an entry gets one, and a drain.
Submit ==
  /\ tick.active
  /\ tick' = Rest
  /\ inFlight' = inFlight + 1
  /\ pending' = [pending EXCEPT ![NextItem] = Append(@, Head(tick.items))]
  /\ drain' = IF drain[NextItem].pc # "none" THEN drain
              ELSE [drain EXCEPT ![NextItem] = [NoDrain EXCEPT !.pc = "wait"]]
  /\ UNCHANGED <<row, aborters, batches, groups, clearing>>

\* The ungrouped items of the claim go to a goroutine of their own.
StartBatch ==
  /\ tick.items = << >> /\ tick.byType # << >>
  /\ tick' = NoTick
  /\ inFlight' = inFlight + Len(tick.byType)
  /\ batches' = Append(batches, [size |-> Len(tick.byType), items |-> tick.byType, succeeded |-> {}, failed |-> << >>])
  /\ UNCHANGED <<row, pending, drain, aborters, groups, clearing>>

\* Not what the code does: the recovery looks for the wrong status.
RecoverPending(i) == Idle /\ row[i].status = "PENDING" /\ UNCHANGED vars

\* The recovery tick of the same goroutine: rows claimed too long ago, whether
\* their claimant crashed or still holds them; one row of the UPDATE at a time.
RecoverStuck(i) ==
  /\ Idle
  /\ row[i].status = "IN_PROGRESS"
  /\ row' = [row EXCEPT ![i].status = "PENDING"]
  /\ UNCHANGED <<tick, pending, drain, aborters, batches, groups, clearing, inFlight>>

-----------------------------------------------------------------------------
(* Outcomes *)

Requeued(c, out) == out = "retryable" /\ c.attempts + 1 < MaxRetries

\* MarkFailed changes a row that is still there, whatever its status.
MarkFailed(c, out) ==
  IF row[c.id].status = "DELETED" THEN row
  ELSE [row EXCEPT ![c.id] = [ status |-> IF Requeued(c, out) THEN "PENDING" ELSE "FAILED",
                               retry_count |-> @.retry_count + 1 ]]

\* MarkSuccess deletes the rows.
MarkSuccess(ids) == [i \in Item |-> IF i \in ids THEN [status |-> "DELETED", retry_count |-> 0] ELSE row[i]]

-----------------------------------------------------------------------------
(* dispatchBatch: the n-th goroutine with ungrouped items *)

\* One answer for each item, or the same failure for all of them.
SendBatch(n) ==
  LET b == batches[n] IN
  /\ b.items # << >>
  /\ \E outcomes \in [DOMAIN b.items -> Outcome] :
       LET results == [k \in DOMAIN b.items |-> [copy |-> b.items[k], outcome |-> outcomes[k]]] IN
       batches' = [batches EXCEPT ![n] =
         [@ EXCEPT !.items = << >>,
                   !.succeeded = {r.copy.id : r \in {x \in Range(results) : x.outcome = "success"}},
                   !.failed = SelectSeq(results, LAMBDA r : r.outcome # "success")]]
  /\ UNCHANGED <<row, tick, pending, drain, aborters, groups, clearing, inFlight>>

\* MarkFailed item by item; a failed statement is only logged.
RecordBatchFailure(n, ok) ==
  LET b == batches[n] IN
  /\ b.failed # << >>
  /\ Execute(ok, MarkFailed(Head(b.failed).copy, Head(b.failed).outcome))
  /\ batches' = [batches EXCEPT ![n].failed = Tail(@)]
  /\ UNCHANGED <<tick, pending, drain, aborters, groups, clearing, inFlight>>

\* MarkSuccess for the others at once.
RecordBatchSuccess(n, ok) ==
  LET b == batches[n] IN
  /\ b.failed = << >> /\ b.succeeded # {}
  /\ Execute(ok, MarkSuccess(b.succeeded))
  /\ batches' = [batches EXCEPT ![n].succeeded = {}]
  /\ UNCHANGED <<tick, pending, drain, aborters, groups, clearing, inFlight>>

\* dispatchBatch returns and gives the places of its items back.
EndBatch(n) ==
  /\ batches[n].items = << >> /\ batches[n].failed = << >> /\ batches[n].succeeded = {}
  /\ batches' = RemoveAt(batches, n)
  /\ inFlight' = inFlight - batches[n].size
  /\ UNCHANGED <<row, tick, pending, drain, aborters, groups, clearing>>

-----------------------------------------------------------------------------
(* Drain goroutine of group g *)

Draining == {g \in Group : drain[g].pc \notin {"none", "wait"}}

\* The group-concurrency semaphore; a drain keeps its slot while it aborts.
AcquireSlot(g) ==
  /\ drain[g].pc = "wait"
  /\ Cardinality(Draining) + Len(aborters) < MaxConcurrentGroups
  /\ drain' = [drain EXCEPT ![g].pc = "top"]
  /\ UNCHANGED <<row, tick, pending, aborters, batches, groups, clearing, inFlight>>

\* The next item, or the end of the drain and of the group's entry.
Take(g) ==
  /\ drain[g].pc = "top"
  /\ IF pending[g] = << >>
     THEN drain' = [drain EXCEPT ![g] = NoDrain] /\ UNCHANGED pending
     ELSE /\ drain' = [drain EXCEPT ![g] = [NoDrain EXCEPT !.pc = "send", !.item = Head(pending[g])]]
          /\ pending' = [pending EXCEPT ![g] = Tail(@)]
  /\ UNCHANGED <<row, tick, aborters, batches, groups, clearing, inFlight>>

\* dispatcher.Send of the item.
Send(g) ==
  /\ drain[g].pc = "send"
  /\ \E out \in Outcome : drain' = [drain EXCEPT ![g] = [@ EXCEPT !.pc = "record", !.outcome = out]]
  /\ UNCHANGED <<row, tick, pending, aborters, batches, groups, clearing, inFlight>>

\* If MarkSuccess fails the item counts as failed.
RecordSuccess(g, ok) ==
  /\ drain[g].pc = "record" /\ drain[g].outcome = "success"
  /\ Execute(ok, MarkSuccess({drain[g].item.id}))
  /\ drain' = [drain EXCEPT ![g] = [@ EXCEPT !.pc = IF ok THEN "done" ELSE "fail", !.outcome = None]]
  /\ UNCHANGED <<tick, pending, aborters, batches, groups, clearing, inFlight>>

\* A failed item is requeued, or marked for good and blocks its group next.
RecordFailure(g, ok) ==
  LET c == drain[g].item  out == drain[g].outcome IN
  /\ drain[g].pc = "record" /\ out # "success"
  /\ Execute(ok, MarkFailed(c, out))
  /\ drain' = [drain EXCEPT ![g] = [@ EXCEPT !.pc = IF Requeued(c, out) THEN "fail" ELSE "block", !.outcome = None]]
  /\ UNCHANGED <<tick, pending, aborters, batches, groups, clearing, inFlight>>

Block(g) ==
  /\ drain[g].pc = "block"
  /\ groups' = [groups EXCEPT ![g] = [status |-> "BLOCKED", blockedItemID |-> drain[g].item.id]]
  /\ drain' = [drain EXCEPT ![g].pc = "fail"]
  /\ UNCHANGED <<row, tick, pending, aborters, batches, clearing, inFlight>>

\* Not what the code does: the place is given back on success only.
ReturnOnSuccess(g) ==
  /\ drain[g].pc \in {"done", "fail"}
  /\ drain' = [drain EXCEPT ![g] = [NoDrain EXCEPT !.pc = IF drain[g].pc = "done" THEN "top" ELSE "stop"]]
  /\ inFlight' = IF drain[g].pc = "done" THEN inFlight - 1 ELSE inFlight
  /\ UNCHANGED <<row, tick, pending, aborters, batches, groups, clearing>>

\* dispatch returns and gives its place in flight back.
Return(g) ==
  /\ drain[g].pc \in {"done", "fail"}
  /\ drain' = [drain EXCEPT ![g] = [NoDrain EXCEPT !.pc = IF drain[g].pc = "done" THEN "top" ELSE "stop"]]
  /\ inFlight' = inFlight - 1
  /\ UNCHANGED <<row, tick, pending, aborters, batches, groups, clearing>>

\* Not what the code does: the entry goes idle with its items in it.
StopGroupKeeping(g) ==
  /\ drain[g].pc = "stop"
  /\ drain' = [drain EXCEPT ![g] = NoDrain]
  /\ UNCHANGED <<row, tick, pending, aborters, batches, groups, clearing, inFlight>>

\* Block-on-error: the entry goes, and the drain turns to releasing the rest.
StopGroup(g) ==
  /\ drain[g].pc = "stop"
  /\ aborters' = IF pending[g] = << >> THEN aborters ELSE Append(aborters, pending[g])
  /\ pending' = [pending EXCEPT ![g] = << >>]
  /\ drain' = [drain EXCEPT ![g] = NoDrain]
  /\ UNCHANGED <<row, tick, batches, groups, clearing, inFlight>>

\* onAbort of the next item of the n-th aborting drain.
OnAbort(n, ok) ==
  /\ n \in DOMAIN aborters
  /\ aborters' = IF Len(aborters[n]) = 1 THEN RemoveAt(aborters, n)
                 ELSE [aborters EXCEPT ![n] = Tail(@)]
  /\ Execute(ok, Released(Head(aborters[n]).id))
  /\ inFlight' = inFlight - 1
  /\ UNCHANGED <<tick, pending, drain, batches, groups, clearing>>

-----------------------------------------------------------------------------
(* Operators and crashes *)

Pause(g) ==
  /\ "pause" \in Operations
  /\ groups[g].status = "RUNNING"
  /\ groups' = [groups EXCEPT ![g].status = "PAUSED"]
  /\ UNCHANGED <<row, tick, pending, drain, aborters, batches, clearing, inFlight>>

Resume(g) ==
  /\ groups[g].status = "PAUSED"
  /\ groups' = [groups EXCEPT ![g] = Running]
  /\ UNCHANGED <<row, tick, pending, drain, aborters, batches, clearing, inFlight>>

\* UnblockGroup and SkipGroup: ClearBlock, after which UnblockGroup requeues
\* the poison item.  One call at a time.
ClearBlock(g) ==
  /\ "unblock" \in Operations
  /\ clearing = None
  /\ groups[g].status = "BLOCKED"
  /\ groups' = [groups EXCEPT ![g] = Running]
  /\ clearing' \in {groups[g].blockedItemID, None}
  /\ UNCHANGED <<row, tick, pending, drain, aborters, batches, inFlight>>

\* Requeue resets a row that is still there, from any status.
Requeue(ok) ==
  /\ clearing # None
  /\ clearing' = None
  /\ Execute(ok, IF row[clearing].status = "DELETED" THEN row
                 ELSE [row EXCEPT ![clearing] = [status |-> "PENDING", retry_count |-> 0]])
  /\ UNCHANGED <<tick, pending, drain, aborters, batches, groups, inFlight>>

\* The process dies and starts again with empty memory.
Crash ==
  /\ "crash" \in Operations
  /\ tick' = NoTick
  /\ pending' = [g \in Group |-> << >>]
  /\ drain' = [g \in Group |-> NoDrain]
  /\ aborters' = << >>
  /\ batches' = << >>
  /\ groups' = [g \in Group |-> Running]
  /\ clearing' = None
  /\ inFlight' = 0
  /\ UNCHANGED row

-----------------------------------------------------------------------------
Step(g, ok) ==
  \/ ok /\ (AcquireSlot(g) \/ Take(g) \/ Send(g) \/ Block(g) \/ Return(g) \/ StopGroup(g))
  \/ RecordSuccess(g, ok) \/ RecordFailure(g, ok)

dispatchBatch(n, ok) ==
  \/ ok /\ (SendBatch(n) \/ EndBatch(n))
  \/ RecordBatchFailure(n, ok) \/ RecordBatchSuccess(n, ok)

Poll(ok) ==
  \/ ok /\ (Submit \/ StartBatch)
  \/ ClaimPending(ok) \/ IsActive(ok)

\* What the processor does, with statements that succeed or fail.
Work(ok) ==
  \/ Poll(ok)
  \/ ok /\ \E i \in Item : RecoverStuck(i)
  \/ \E g \in Group : Step(g, ok)
  \/ \E n \in DOMAIN aborters : OnAbort(n, ok)
  \/ \E n \in DOMAIN batches : dispatchBatch(n, ok)
  \/ Requeue(ok)

Operate == \E g \in Group : Pause(g) \/ Resume(g) \/ ClearBlock(g)

Next == Work(TRUE) \/ Work(FALSE) \/ Operate \/ Crash

Spec == Init /\ [][Next]_vars

\* Crashes, failed statements and operator calls are finitely many, the goroutines
\* run on, the recovery tick comes round, and a waiting drain gets a slot that
\* keeps coming free.
FairSpec ==
  /\ Spec
  /\ <>[][Work(TRUE)]_vars
  /\ WF_vars(Poll(TRUE))
  /\ \A i \in Item : SF_vars(RecoverStuck(i))
  /\ \A g \in Group : SF_vars(AcquireSlot(g)) /\ WF_vars(Step(g, TRUE))
  /\ WF_vars(OnAbort(1, TRUE)) /\ WF_vars(1 \in DOMAIN batches /\ dispatchBatch(1, TRUE))
  /\ WF_vars(Requeue(TRUE))

-----------------------------------------------------------------------------
(* Properties *)

\* inFlight, which gates polling, counts exactly the items in memory: buffered,
\* in dispatch, in a batch, or waiting to be released.  Every path of dispatch,
\* dispatchBatch and onAbort gives back what tick took, so back-pressure never sticks.
InFlightAccounts ==
  inFlight = FoldFunction(LAMBDA q, n : Len(q) + n, 0, pending)
               + Cardinality({g \in Group : drain[g].item # None})
               + FoldLeft(LAMBDA n, q : n + Len(q), 0, aborters)
               + FoldLeft(LAMBDA n, b : n + b.size, 0, batches)

\* The items of g that will be sent, or are being sent, whatever the group's
\* state becomes: submitted to a drain that goes on, or about to be submitted.
Loose(g) ==
  (IF drain[g].pc \in {"fail", "stop"} THEN 0
   ELSE Len(pending[g]) + IF drain[g].item # None THEN 1 ELSE 0)
    + IF tick.active /\ NextItem = g THEN 1 ELSE 0

\* At most one item is sent past a block, the one tick found its group active
\* for just before: the drain that blocks releases the rest of its buffer, and
\* nothing is added while the block lasts.  (dispatch: "the group never silently
\* advances past it"; one item can, because tick checks before it submits.)
AtMostOnePastBlock ==
  [][\A g \in Group : groups'[g].status = "BLOCKED" =>
       Loose(g)' <= IF groups[g].status = "BLOCKED" THEN Loose(g) ELSE 1]_vars

Unsettled(i) == row[i].status \in {"PENDING", "IN_PROGRESS"}

Held(i) == MessageGroup[i] # None /\ groups[MessageGroup[i]].status # "RUNNING"

\* The rows of held groups that sort before i fill a claim: LIMIT comes before
\* tick looks at the groups, so ClaimPending returns the same rows for ever.
Crowded(i) == Cardinality({k \in Item : k < i /\ Unsettled(k) /\ Held(k)}) >= BatchSize

\* Once failures and operators leave it alone the outbox comes to rest: every item
\* dispatched or failed for good, unless its group is paused or blocked or a batch
\* of held rows sorts before it.  No release, failed statement, recovered claim or
\* crash strands a row, and fewer held rows delay nobody.
ItemsSettle == []<>(\A i \in Item : ~Unsettled(i) \/ Held(i) \/ Crowded(i))
=============================================================================
