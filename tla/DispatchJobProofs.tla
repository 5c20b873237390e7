------------------------- MODULE DispatchJobProofs -------------------------
(***************************************************************************)
(* Proofs about DispatchJob, for any jobs, groups, subscriptions,          *)
(* schedulers, routers, batch size and retry budget: no job is forgotten   *)
(* in PROCESSING, and attempt_count overruns the budget by at most one     *)
(* attempt for each other call at work.                                    *)
(***************************************************************************)
EXTENDS DispatchJob, FiniteSetTheorems, TLAPS

PollState == [ pc : {"idle", "claimed", "checked", "publish", "revert"},
               locked : SUBSET Job, batch : SUBSET Job ]

CallState == [ pc : {"none", "load", "mark", "deliver", "advance", "ack"},
               attempts : Nat, result : Result \cup {None} ]

\* Routers whose call has been answered and who will acknowledge.
Acking(j) == {r \in Router : call[<<r, j>>].pc = "ack"}

\* Calls that will schedule a retry, and count it, if they fail.
Spenders(j) == {c \in Caller : /\ call[<<c, j>>].pc \in {"mark", "deliver", "advance"}
                               /\ call[<<c, j>>].attempts + 1 < MaxRetries}

Abandoned(j) == call[<<"abandoned", j>>].pc \in {"deliver", "advance"}

\* Every waiting router has a message of its own; a row in PROCESSING has one that
\* no acknowledgement under way will take; and what is spent, with what the calls
\* at work may still spend, is bounded.
JobInv(j) ==
  /\ Cardinality(Waiting(j)) <= queue[j]
  /\ row[j].status = "PROCESSING" =>
       queue[j] > Cardinality(Acking(j)) \/ Abandoned(j) \/ j \in unrecorded
  /\ row[j].attempt_count + Cardinality(Spenders(j)) + 2 <= MaxRetries + Cardinality(Caller)
  /\ \A c \in Caller : call[<<c, j>>].pc = "advance" => call[<<c, j>>].result \in Result

Inv == TypeOK /\ \A j \in Job : JobInv(j)

-----------------------------------------------------------------------------
(* Counting *)

\* What becomes of the size of a set when x may come or go.
Counted(S, T, x) ==
  /\ Cardinality(S) \in Nat /\ Cardinality(T) \in Nat
  /\ (x \in S <=> x \in T) => Cardinality(T) = Cardinality(S)
  /\ x \notin S /\ x \in T => Cardinality(T) = Cardinality(S) + 1
  /\ x \in S /\ x \notin T => Cardinality(S) = Cardinality(T) + 1

LEMMA CardChange ==
  ASSUME NEW S, NEW T, NEW x, IsFiniteSet(S), \A y : y # x => (y \in S <=> y \in T)
  PROVE  Counted(S, T, x)
<1> USE DEF Counted
<1>1. CASE x \in S <=> x \in T
  <2>1. S = T
    BY <1>1
  <2> QED BY <1>1, <2>1, FS_CardinalityType
<1>2. CASE x \notin S /\ x \in T
  <2>1. T = S \cup {x}
    BY <1>2
  <2> QED BY <1>2, <2>1, FS_AddElement, FS_CardinalityType
<1>3. CASE x \in S /\ x \notin T
  <2>1. T = S \ {x}
    BY <1>3
  <2>2. IsFiniteSet(T) /\ Cardinality(T) = Cardinality(S) - 1 /\ Cardinality(S) \in Nat
    BY <1>3, <2>1, FS_RemoveElement, FS_CardinalityType
  <2> QED BY <1>3, <2>2, FS_CardinalityType
<1> QED BY <1>1, <1>2, <1>3

LEMMA CallersFinite ==
  /\ IsFiniteSet(Caller) /\ Cardinality(Caller) \in Nat /\ Cardinality(Caller) >= 1
<1>1. IsFiniteSet(Router) /\ Cardinality(Router) \in Nat
  BY JobAssumption, FS_CardinalityType
<1>2. IsFiniteSet(Caller) /\ Cardinality(Caller) = Cardinality(Router) + 1
  BY <1>1, JobAssumption, FS_AddElement DEF Caller
<1> QED BY <1>1, <1>2

LEMMA SetsFinite ==
  ASSUME NEW j \in Job
  PROVE  /\ IsFiniteSet(Waiting(j)) /\ Cardinality(Waiting(j)) \in Nat
         /\ IsFiniteSet(Acking(j)) /\ Cardinality(Acking(j)) \in Nat
         /\ IsFiniteSet(Spenders(j)) /\ Cardinality(Spenders(j)) \in Nat
         /\ Cardinality(Spenders(j)) <= Cardinality(Caller)
<1>1. Waiting(j) \subseteq Router /\ Acking(j) \subseteq Router /\ Spenders(j) \subseteq Caller
  BY DEF Waiting, Acking, Spenders
<1> QED BY <1>1, JobAssumption, CallersFinite, FS_Subset, FS_CardinalityType

\* A router that waits and is not about to acknowledge has a message beyond those
\* that will be acknowledged.
LEMMA SpareMessage ==
  ASSUME NEW j \in Job, NEW r \in Router, call[<<r, j>>].pc \notin {"none", "ack"}
  PROVE  Cardinality(Acking(j)) < Cardinality(Waiting(j))
<1>1. Acking(j) \subseteq Waiting(j) /\ r \in Waiting(j) /\ r \notin Acking(j)
  BY DEF Acking, Waiting
<1>2. Acking(j) # Waiting(j)
  BY <1>1
<1>3. IsFiniteSet(Waiting(j)) /\ Cardinality(Waiting(j)) \in Nat /\ Cardinality(Acking(j)) \in Nat
  BY SetsFinite
<1> QED BY <1>1, <1>2, <1>3, FS_Subset

-----------------------------------------------------------------------------
(* Types *)

Status == {"PENDING", "QUEUED", "PROCESSING"} \cup Terminal

LEMMA StatusRow ==
  ASSUME NEW x \in Row, NEW st \in Status
  PROVE  [x EXCEPT !.status = st] \in Row
  BY DEF Row, Status

\* The statements of the scheduler set the status of rows.
LEMMA StatusRows ==
  ASSUME row \in [Job -> Row]
  PROVE  \A j \in Job : /\ [row[j] EXCEPT !.status = "QUEUED"] \in Row
                         /\ [row[j] EXCEPT !.status = "PENDING"] \in Row
<1>1. "QUEUED" \in Status /\ "PENDING" \in Status
  BY DEF Status
<1> QED BY <1>1, StatusRow

LEMMA PollFun ==
  ASSUME NEW S, poll \in [Scheduler -> S], NEW s \in Scheduler, NEW x \in S, poll' = [poll EXCEPT ![s] = x]
  PROVE  poll' \in [Scheduler -> S]
  OBVIOUS

LEMMA PollTypes ==
  ASSUME TypeOK, NEW s \in Scheduler, Claim(s) \/ HoldBack(s) \/ Commit(s) \/ Abort(s) \/ Revert(s)
  PROVE  TypeOK' /\ UNCHANGED <<call, queue>>
<1> USE DEF TypeOK, PollState
<1>0. poll \in [Scheduler -> PollState] /\ row \in [Job -> Row]
  OBVIOUS
<1>1. CASE Claim(s)
  <2>1. First(Claimable, BatchSize) \subseteq Job
    BY DEF First, Claimable
  <2>2. filterPausedSubscriptions(s, First(Claimable, BatchSize)) \subseteq Job
    BY <2>1 DEF filterPausedSubscriptions
  <2>3. PausedSubscriptionIDs(s) \in SUBSET Subscribed
    BY DEF PausedSubscriptionIDs
  <2>4. poll' \in [Scheduler -> PollState]
    BY <1>1, <2>1, <2>2 DEF Claim
  <2> QED BY <1>1, <2>3, <2>4 DEF Claim
<1>2. CASE HoldBack(s)
  <2> DEFINE kept == {j \in poll[s].batch : messageGroupKey(j) \notin blockedGroups}
  <2>1. poll[s] \in PollState /\ kept \subseteq Job
    OBVIOUS
  <2>2. poll' = [poll EXCEPT ![s] = [poll[s] EXCEPT !.pc = "checked", !.batch = kept]]
    BY <1>2, Zenon DEF HoldBack
  <2>3. [poll[s] EXCEPT !.pc = "checked", !.batch = kept] \in PollState
    BY <2>1
  <2>4. poll' \in [Scheduler -> PollState]
    <3> HIDE DEF PollState, kept
    <3> QED BY <1>0, <2>2, <2>3, PollFun, Zenon
  <2>5. UNCHANGED <<row, queue, pausedCache, paused, call, unrecorded>>
    BY <1>2, Zenon DEF HoldBack
  <2> QED BY <2>4, <2>5
<1>3. CASE Commit(s)
  <2> DEFINE pc == IF poll[s].batch = {} THEN "idle" ELSE "publish"
  <2>1. poll' = [poll EXCEPT ![s] = [poll[s] EXCEPT !.pc = pc, !.locked = {}]]
    BY <1>3, Zenon DEF Commit
  <2>2. [poll[s] EXCEPT !.pc = pc, !.locked = {}] \in PollState
    <3>1. pc \in {"idle", "publish"} /\ poll[s] \in PollState
      BY <1>0
    <3> HIDE DEF pc, TypeOK
    <3> QED BY <3>1
  <2>3. poll' \in [Scheduler -> PollState]
    <3> HIDE DEF PollState, pc
    <3> QED BY <1>0, <2>1, <2>2, PollFun, Zenon
  <2>4. /\ row' = [j \in Job |-> IF j \in poll[s].batch THEN [row[j] EXCEPT !.status = "QUEUED"] ELSE row[j]]
        /\ UNCHANGED <<queue, pausedCache, paused, call, unrecorded>>
    BY <1>3, Zenon DEF Commit
  <2>5. row' \in [Job -> Row]
    <3>1. \A j \in Job : [row[j] EXCEPT !.status = "QUEUED"] \in Row /\ row[j] \in Row
      BY <1>0, StatusRows
    <3> QED BY <2>4, <3>1, Zenon
  <2> QED BY <2>3, <2>4, <2>5
<1>4. CASE Abort(s)
  BY <1>4 DEF Abort, Idle
<1>5. CASE Revert(s)
  <2> DEFINE S == {j \in poll[s].batch : row[j].status = "QUEUED"}
  <2>1. row' = [j \in Job |-> IF j \in S THEN [row[j] EXCEPT !.status = "PENDING"] ELSE row[j]]
    BY <1>5 DEF Revert
  <2>2. row' \in [Job -> Row]
    <3> HIDE DEF S
    <3>1. \A j \in Job : [row[j] EXCEPT !.status = "PENDING"] \in Row /\ row[j] \in Row
      BY <1>0, StatusRows
    <3> QED BY <2>1, <3>1, Zenon
  <2> QED BY <1>5, <2>2 DEF Revert, Idle
<1> QED BY <1>1, <1>2, <1>3, <1>4, <1>5

LEMMA SubmitBatchTypes ==
  ASSUME TypeOK, NEW s \in Scheduler, SubmitBatch(s)
  PROVE  TypeOK' /\ UNCHANGED call /\ \A j \in Job : queue[j] <= queue'[j]
<1>1. PICK stored \in SUBSET poll[s].batch :
        queue' = [j \in Job |-> IF j \in stored /\ queue[j] < MaxCopies THEN queue[j] + 1 ELSE queue[j]]
  BY DEF SubmitBatch
<1>2. queue' \in [Job -> 0 .. MaxCopies] /\ \A j \in Job : queue[j] <= queue'[j]
  BY <1>1, JobAssumption DEF TypeOK
<1>3. poll' \in [Scheduler -> PollState]
  BY DEF SubmitBatch, TypeOK, Idle, PollState
<1> QED BY <1>2, <1>3 DEF SubmitBatch, TypeOK, PollState

LEMMA OtherTypes ==
  ASSUME TypeOK,
         \/ \E s \in Scheduler : CacheExpires(s)
         \/ \E stale \in SUBSET Job : recoverOnce(stale)
         \/ \E j \in Job : BackoffElapsed(j) \/ Requeue(j)
         \/ \E sub \in Subscribed : TogglePaused(sub)
         \/ UNCHANGED vars
  PROVE  TypeOK' /\ UNCHANGED <<call, queue>>
<1> USE DEF TypeOK
<1>1. CASE \E s \in Scheduler : CacheExpires(s)
  BY <1>1 DEF CacheExpires
<1>2. CASE \E stale \in SUBSET Job : recoverOnce(stale)
  <2>1. PICK stale \in SUBSET Job : recoverOnce(stale)
    BY <1>2
  <2>2. /\ row' = [j \in Job |-> IF j \in stale THEN [row[j] EXCEPT !.status = "PENDING"] ELSE row[j]]
        /\ UNCHANGED <<queue, poll, pausedCache, paused, call, unrecorded>>
    BY <2>1, Zenon DEF recoverOnce
  <2>3. row' \in [Job -> Row]
    <3>1. \A j \in Job : [row[j] EXCEPT !.status = "PENDING"] \in Row /\ row[j] \in Row
      BY StatusRows
    <3> QED BY <2>2, <3>1, Zenon
  <2> QED BY <2>2, <2>3
<1>3. CASE \E j \in Job : BackoffElapsed(j)
  <2>1. PICK j \in Job : BackoffElapsed(j)
    BY <1>3
  <2>2. row[j] \in Row /\ row' = [row EXCEPT ![j] = [row[j] EXCEPT !.due = TRUE]]
    BY <2>1 DEF BackoffElapsed
  <2>3. [row[j] EXCEPT !.due = TRUE] \in Row
    BY <2>2 DEF Row
  <2> QED BY <2>1, <2>2, <2>3 DEF BackoffElapsed
<1>4. CASE \E j \in Job : Requeue(j)
  BY <1>4 DEF Requeue, Row, Terminal
<1>5. CASE \E sub \in Subscribed : TogglePaused(sub)
  BY <1>5 DEF TogglePaused
<1>6. CASE UNCHANGED vars
  BY <1>6 DEF vars
<1> QED BY <1>1, <1>2, <1>3, <1>4, <1>5, <1>6

LEMMA CallFun ==
  ASSUME TypeOK, NEW c \in Caller, NEW j \in Job, NEW x \in CallState,
         call' = [call EXCEPT ![<<c, j>>] = x]
  PROVE  /\ call' \in [Caller \X Job -> CallState] /\ call'[<<c, j>>] = x
         /\ \A d \in Caller, k \in Job : <<d, k>> # <<c, j>> => call'[<<d, k>>] = call[<<d, k>>]
  BY DEF TypeOK, CallState

LEMMA AnsweredType ==
  ASSUME NEW c \in Caller
  PROVE  Answered(c) \in CallState /\ Answered(c).pc = IF c \in Router THEN "ack" ELSE "none"
  BY DEF Answered, NoCall, CallState

\* What a step of the handler makes of its call, and of the row.
LEMMA ServeEffect ==
  ASSUME TypeOK, NEW c \in Caller, NEW j \in Job, serve(c, j)
  PROVE  /\ call[<<c, j>>].pc \in {"load", "mark", "deliver", "advance"}
         /\ UNCHANGED queue
         /\ \E x \in CallState :
              /\ call' = [call EXCEPT ![<<c, j>>] = x]
              /\ \/ /\ Load(c, j) /\ IsTerminal(j) /\ x = Answered(c) /\ UNCHANGED <<row, unrecorded>>
                 \/ /\ Load(c, j) /\ ~IsTerminal(j) /\ UNCHANGED <<row, unrecorded>>
                    /\ x.pc = "mark" /\ x.attempts = row[j].attempt_count
                 \/ /\ MarkInProgress(c, j) /\ call[<<c, j>>].pc = "mark"
                    /\ x.pc = "deliver" /\ x.attempts = call[<<c, j>>].attempts
                 \/ /\ deliver(c, j) /\ call[<<c, j>>].pc = "deliver" /\ UNCHANGED <<row, unrecorded>>
                    /\ x.pc = "advance" /\ x.attempts = call[<<c, j>>].attempts /\ x.result \in Result
                 \/ /\ advance(c, j) /\ call[<<c, j>>].pc = "advance" /\ x = Answered(c)
                 \/ /\ LoseOutcome(c, j) /\ call[<<c, j>>].pc = "advance" /\ x = Answered(c)
<1>1. call[<<c, j>>] \in CallState /\ row[j] \in Row
  BY DEF TypeOK, CallState
<1>2. Answered(c) \in CallState
  BY AnsweredType
<1>3. CASE Load(c, j)
  <2> DEFINE x == [call[<<c, j>>] EXCEPT !.pc = "mark", !.attempts = row[j].attempt_count]
  <2>1. x \in CallState /\ x.pc = "mark" /\ x.attempts = row[j].attempt_count
    BY <1>1 DEF CallState, Row
  <2>2. /\ call[<<c, j>>].pc = "load" /\ UNCHANGED <<row, queue, unrecorded>>
        /\ call' = [call EXCEPT ![<<c, j>>] = IF IsTerminal(j) THEN Answered(c) ELSE x]
    BY <1>3, Zenon DEF Load
  <2> HIDE DEF x
  <2>3. CASE IsTerminal(j)
    BY <1>2, <1>3, <2>2, <2>3
  <2>4. CASE ~IsTerminal(j)
    BY <1>3, <2>1, <2>2, <2>4
  <2> QED BY <2>3, <2>4
<1>4. CASE MarkInProgress(c, j)
  <2> DEFINE x == [call[<<c, j>>] EXCEPT !.pc = "deliver"]
  <2>1. x \in CallState /\ x.pc = "deliver" /\ x.attempts = call[<<c, j>>].attempts
    BY <1>1 DEF CallState
  <2>2. call[<<c, j>>].pc = "mark" /\ UNCHANGED queue /\ call' = [call EXCEPT ![<<c, j>>] = x]
    BY <1>4, Zenon DEF MarkInProgress, CallStep
  <2> HIDE DEF x
  <2> QED BY <1>4, <2>1, <2>2
<1>5. CASE deliver(c, j)
  <2>1. PICK res \in Result :
          call' = [call EXCEPT ![<<c, j>>] = [call[<<c, j>>] EXCEPT !.pc = "advance", !.result = res]]
    BY <1>5, Zenon DEF deliver
  <2> DEFINE x == [call[<<c, j>>] EXCEPT !.pc = "advance", !.result = res]
  <2>2. x \in CallState /\ x.pc = "advance" /\ x.attempts = call[<<c, j>>].attempts /\ x.result \in Result
    BY <1>1 DEF CallState
  <2>3. call[<<c, j>>].pc = "deliver" /\ UNCHANGED <<row, queue, unrecorded>>
    BY <1>5, Zenon DEF deliver
  <2> HIDE DEF x
  <2> QED BY <1>5, <2>1, <2>2, <2>3 DEF x
<1>6. CASE advance(c, j)
  <2>1. call[<<c, j>>].pc = "advance" /\ UNCHANGED queue /\ call' = [call EXCEPT ![<<c, j>>] = Answered(c)]
    BY <1>6, Zenon DEF advance
  <2> QED BY <1>2, <1>6, <2>1
<1>7. CASE LoseOutcome(c, j)
  <2>1. call[<<c, j>>].pc = "advance" /\ UNCHANGED queue /\ call' = [call EXCEPT ![<<c, j>>] = Answered(c)]
    BY <1>7, Zenon DEF LoseOutcome
  <2> QED BY <1>2, <1>7, <2>1
<1> QED BY <1>3, <1>4, <1>5, <1>6, <1>7 DEF serve

\* What the handler's writes make of the row.
LEMMA AdvancedRow ==
  ASSUME NEW b \in Row, NEW x \in CallState, x.result \in Result
  PROVE  /\ Advanced(b, x) \in Row
         /\ Advanced(b, x).status # "PROCESSING"
         /\ \/ Advanced(b, x).attempt_count = b.attempt_count
            \/ /\ Advanced(b, x).attempt_count = b.attempt_count + 1
               /\ x.attempts + 1 < MaxRetries
<1> USE JobAssumption DEF Row, Terminal, CallState, Result
<1>1. CASE x.result = "success"
  BY <1>1 DEF Advanced
<1>2. CASE x.result = "deferral"
  BY <1>2 DEF Advanced, Retry
<1>3. CASE x.result = "failure" /\ x.attempts + 1 >= MaxRetries
  BY <1>3 DEF Advanced
<1>4. CASE x.result = "failure" /\ x.attempts + 1 < MaxRetries
  BY <1>4 DEF Advanced, Retry
<1> QED BY <1>1, <1>2, <1>3, <1>4

-----------------------------------------------------------------------------
(* The invariant *)

\* A step that leaves the calls of j alone, takes no message from it, spends no
\* attempt and does not bring it to PROCESSING.
LEMMA QuietKeeps ==
  ASSUME TypeOK, TypeOK', NEW j \in Job, JobInv(j), \A c \in Caller : call'[<<c, j>>] = call[<<c, j>>],
         queue[j] <= queue'[j], row'[j].attempt_count <= row[j].attempt_count,
         row'[j].status = "PROCESSING" =>
           row[j].status = "PROCESSING" /\ (j \in unrecorded => j \in unrecorded')
  PROVE  JobInv(j)'
<1>1. Router \subseteq Caller /\ "abandoned" \in Caller
  BY DEF Caller
<1>2. Waiting(j)' = Waiting(j) /\ Acking(j)' = Acking(j) /\ Spenders(j)' = Spenders(j)
  BY <1>1 DEF Waiting, Acking, Spenders
<1>3. Abandoned(j)' = Abandoned(j)
  BY <1>1 DEF Abandoned
<1>4. /\ queue[j] \in Nat /\ queue'[j] \in Nat
      /\ row[j].attempt_count \in Nat /\ row'[j].attempt_count \in Nat
  BY DEF TypeOK, Row
<1>5. /\ Cardinality(Waiting(j)) \in Nat /\ Cardinality(Acking(j)) \in Nat
      /\ Cardinality(Spenders(j)) \in Nat /\ Cardinality(Caller) \in Nat /\ MaxRetries \in Nat
  BY SetsFinite, CallersFinite, JobAssumption
<1>6. Cardinality(Waiting(j)') <= queue'[j]
  BY <1>2, <1>4, <1>5 DEF JobInv
<1>7. row'[j].status = "PROCESSING" =>
        queue'[j] > Cardinality(Acking(j)') \/ Abandoned(j)' \/ j \in unrecorded'
  BY <1>2, <1>3, <1>4, <1>5 DEF JobInv
<1>8. row'[j].attempt_count + Cardinality(Spenders(j)') + 2 <= MaxRetries + Cardinality(Caller)
  BY <1>2, <1>4, <1>5 DEF JobInv
<1>9. \A c \in Caller : call'[<<c, j>>].pc = "advance" => call'[<<c, j>>].result \in Result
  BY DEF JobInv
<1> QED BY <1>6, <1>7, <1>8, <1>9 DEF JobInv

\* How the three counts of j change when one of its calls changes.
LEMMA CallChange ==
  ASSUME TypeOK, NEW j \in Job, NEW c \in Caller, NEW x \in CallState,
         call' = [call EXCEPT ![<<c, j>>] = x]
  PROVE  /\ Counted(Waiting(j), Waiting(j)', c)
         /\ Counted(Acking(j), Acking(j)', c)
         /\ Counted(Spenders(j), Spenders(j)', c)
         /\ c \in Waiting(j) <=> c \in Router /\ call[<<c, j>>].pc # "none"
         /\ c \in Waiting(j)' <=> c \in Router /\ x.pc # "none"
         /\ c \in Acking(j) <=> c \in Router /\ call[<<c, j>>].pc = "ack"
         /\ c \in Acking(j)' <=> c \in Router /\ x.pc = "ack"
         /\ c \in Spenders(j) <=> /\ call[<<c, j>>].pc \in {"mark", "deliver", "advance"}
                                  /\ call[<<c, j>>].attempts + 1 < MaxRetries
         /\ c \in Spenders(j)' <=> /\ x.pc \in {"mark", "deliver", "advance"}
                                   /\ x.attempts + 1 < MaxRetries
         /\ c # "abandoned" => Abandoned(j)' = Abandoned(j)
<1>1. call'[<<c, j>>] = x /\ \A d \in Caller : d # c => call'[<<d, j>>] = call[<<d, j>>]
  BY CallFun
<1>2. Router \subseteq Caller /\ "abandoned" \in Caller
  BY DEF Caller
<1>3. Counted(Waiting(j), Waiting(j)', c)
  <2>1. \A y : y # c => (y \in Waiting(j) <=> y \in Waiting(j)')
    BY <1>1, <1>2 DEF Waiting
  <2> QED BY <2>1, SetsFinite, CardChange
<1>4. Counted(Acking(j), Acking(j)', c)
  <2>1. \A y : y # c => (y \in Acking(j) <=> y \in Acking(j)')
    BY <1>1, <1>2 DEF Acking
  <2> QED BY <2>1, SetsFinite, CardChange
<1>5. Counted(Spenders(j), Spenders(j)', c)
  <2>1. \A y : y # c => (y \in Spenders(j) <=> y \in Spenders(j)')
    BY <1>1, <1>2 DEF Spenders
  <2> QED BY <2>1, SetsFinite, CardChange
<1>6. c # "abandoned" => Abandoned(j)' = Abandoned(j)
  BY <1>1, <1>2 DEF Abandoned
<1>7. /\ c \in Waiting(j) <=> c \in Router /\ call[<<c, j>>].pc # "none"
      /\ c \in Waiting(j)' <=> c \in Router /\ x.pc # "none"
      /\ c \in Acking(j) <=> c \in Router /\ call[<<c, j>>].pc = "ack"
      /\ c \in Acking(j)' <=> c \in Router /\ x.pc = "ack"
  BY <1>1 DEF Waiting, Acking
<1>8. /\ c \in Spenders(j) <=> /\ call[<<c, j>>].pc \in {"mark", "deliver", "advance"}
                               /\ call[<<c, j>>].attempts + 1 < MaxRetries
      /\ c \in Spenders(j)' <=> /\ x.pc \in {"mark", "deliver", "advance"}
                                /\ x.attempts + 1 < MaxRetries
  BY <1>1 DEF Spenders
<1> QED BY <1>3, <1>4, <1>5, <1>6, <1>7, <1>8

LEMMA ResultsKept ==
  ASSUME TypeOK, NEW j \in Job, JobInv(j), NEW c \in Caller, NEW x \in CallState,
         call' = [call EXCEPT ![<<c, j>>] = x], x.pc = "advance" => x.result \in Result
  PROVE  \A d \in Caller : call'[<<d, j>>].pc = "advance" => call'[<<d, j>>].result \in Result
<1>1. call'[<<c, j>>] = x /\ \A d \in Caller : d # c => call'[<<d, j>>] = call[<<d, j>>]
  BY CallFun
<1> QED BY <1>1 DEF JobInv

LEMMA Numbers ==
  ASSUME TypeOK, NEW j \in Job
  PROVE  /\ queue[j] \in Nat /\ row[j].attempt_count \in Nat
         /\ Cardinality(Caller) \in Nat /\ MaxRetries \in Nat
  BY CallersFinite, JobAssumption DEF TypeOK, Row

\* A step of a handler.
LEMMA ServeKeeps ==
  ASSUME Inv, TypeOK', NEW c \in Caller, NEW j \in Job, serve(c, j)
  PROVE  JobInv(j)'
<1>0. TypeOK /\ JobInv(j)
  BY DEF Inv
<1>1. PICK x \in CallState :
        /\ call' = [call EXCEPT ![<<c, j>>] = x]
        /\ \/ /\ Load(c, j) /\ IsTerminal(j) /\ x = Answered(c) /\ UNCHANGED <<row, unrecorded>>
           \/ /\ Load(c, j) /\ ~IsTerminal(j) /\ UNCHANGED <<row, unrecorded>>
              /\ x.pc = "mark" /\ x.attempts = row[j].attempt_count
           \/ /\ MarkInProgress(c, j) /\ call[<<c, j>>].pc = "mark"
              /\ x.pc = "deliver" /\ x.attempts = call[<<c, j>>].attempts
           \/ /\ deliver(c, j) /\ call[<<c, j>>].pc = "deliver" /\ UNCHANGED <<row, unrecorded>>
              /\ x.pc = "advance" /\ x.attempts = call[<<c, j>>].attempts /\ x.result \in Result
           \/ /\ advance(c, j) /\ call[<<c, j>>].pc = "advance" /\ x = Answered(c)
           \/ /\ LoseOutcome(c, j) /\ call[<<c, j>>].pc = "advance" /\ x = Answered(c)
  BY <1>0, ServeEffect
<1>2. call[<<c, j>>].pc \in {"load", "mark", "deliver", "advance"} /\ UNCHANGED queue
  BY <1>0, ServeEffect
<1>3. /\ Counted(Waiting(j), Waiting(j)', c)
      /\ Counted(Acking(j), Acking(j)', c)
      /\ Counted(Spenders(j), Spenders(j)', c)
      /\ c \in Waiting(j) <=> c \in Router /\ call[<<c, j>>].pc # "none"
      /\ c \in Waiting(j)' <=> c \in Router /\ x.pc # "none"
      /\ c \in Acking(j) <=> c \in Router /\ call[<<c, j>>].pc = "ack"
      /\ c \in Acking(j)' <=> c \in Router /\ x.pc = "ack"
      /\ c \in Spenders(j) <=> /\ call[<<c, j>>].pc \in {"mark", "deliver", "advance"}
                               /\ call[<<c, j>>].attempts + 1 < MaxRetries
      /\ c \in Spenders(j)' <=> /\ x.pc \in {"mark", "deliver", "advance"}
                                /\ x.attempts + 1 < MaxRetries
      /\ c # "abandoned" => Abandoned(j)' = Abandoned(j)
  BY <1>0, <1>1, CallChange
<1>4. /\ queue[j] \in Nat /\ row[j].attempt_count \in Nat /\ row'[j].attempt_count \in Nat
      /\ Cardinality(Caller) \in Nat /\ MaxRetries \in Nat
  BY <1>0, Numbers DEF TypeOK, Row
<1>5. Answered(c).pc = IF c \in Router THEN "ack" ELSE "none"
  BY AnsweredType
<1>6. c \in Router => x.pc # "none"
  BY <1>1, <1>5
<1>7. Cardinality(Waiting(j)') <= queue'[j]
  BY <1>0, <1>2, <1>3, <1>4, <1>6 DEF JobInv, Counted
<1>8. x.pc = "advance" => x.result \in Result
  BY <1>1, <1>5
<1>9. \A d \in Caller : call'[<<d, j>>].pc = "advance" => call'[<<d, j>>].result \in Result
  BY <1>0, <1>1, <1>8, ResultsKept
<1>10. row'[j].status = "PROCESSING" =>
         queue'[j] > Cardinality(Acking(j)') \/ Abandoned(j)' \/ j \in unrecorded'
  <2> SUFFICES ASSUME row'[j].status = "PROCESSING"
               PROVE  queue'[j] > Cardinality(Acking(j)') \/ Abandoned(j)' \/ j \in unrecorded'
    OBVIOUS
  <2>1. c \notin Router => c = "abandoned"
    BY DEF Caller
  <2>2. CASE Load(c, j) /\ IsTerminal(j) /\ UNCHANGED row
    BY <2>2 DEF IsTerminal, Terminal
  <2>3. CASE /\ UNCHANGED <<row, unrecorded>> /\ x.pc \in {"mark", "advance"}
             /\ x.pc = "mark" => call[<<c, j>>].pc = "load"
    <3>1. Cardinality(Acking(j)') = Cardinality(Acking(j))
      BY <1>2, <1>3, <2>3 DEF Counted
    <3>2. Abandoned(j) => Abandoned(j)'
      <4>1. CASE c = "abandoned"
        <5>1. call'[<<"abandoned", j>>] = x
          BY <1>0, <1>1, <4>1, CallFun
        <5> QED BY <2>3, <4>1, <5>1 DEF Abandoned
      <4> QED BY <1>3, <4>1
    <3>3. row[j].status = "PROCESSING" => queue[j] > Cardinality(Acking(j)) \/ Abandoned(j) \/ j \in unrecorded
      BY <1>0 DEF JobInv
    <3> QED BY <1>2, <2>3, <3>1, <3>2, <3>3
  <2>4. CASE x.pc = "deliver" /\ call[<<c, j>>].pc = "mark"
    <3>1. CASE c \in Router
      <4>1. Cardinality(Acking(j)) < Cardinality(Waiting(j))
        BY <2>4, <3>1, SpareMessage
      <4>2. Cardinality(Acking(j)') = Cardinality(Acking(j))
        BY <2>4, <1>3 DEF Counted
      <4>3. Cardinality(Waiting(j)) <= queue[j]
        BY <1>0 DEF JobInv
      <4>4. Cardinality(Acking(j)) \in Nat /\ Cardinality(Waiting(j)) \in Nat
        BY <1>3 DEF Counted
      <4> QED BY <1>2, <1>4, <4>1, <4>2, <4>3, <4>4
    <3>2. CASE c = "abandoned"
      <4>1. call'[<<"abandoned", j>>] = x
        BY <1>0, <1>1, <3>2, CallFun
      <4> QED BY <2>4, <4>1 DEF Abandoned
    <3> QED BY <2>1, <3>1, <3>2
  <2>5. CASE advance(c, j) /\ call[<<c, j>>].pc = "advance"
    <3>1. row'[j] = Advanced(row[j], call[<<c, j>>])
      BY <1>0, <2>5 DEF advance, TypeOK
    <3>2. row[j] \in Row /\ call[<<c, j>>] \in CallState /\ call[<<c, j>>].result \in Result
      BY <1>0, <2>5 DEF TypeOK, CallState, JobInv
    <3> QED BY <3>1, <3>2, AdvancedRow
  <2>6. CASE LoseOutcome(c, j)
    BY <2>6 DEF LoseOutcome
  <2>7. Load(c, j) => call[<<c, j>>].pc = "load"
    BY DEF Load
  <2> QED BY <1>1, <2>2, <2>3, <2>4, <2>5, <2>6, <2>7
<1>11. row'[j].attempt_count + Cardinality(Spenders(j)') + 2 <= MaxRetries + Cardinality(Caller)
  <2>1. /\ row[j].attempt_count + Cardinality(Spenders(j)) + 2 <= MaxRetries + Cardinality(Caller)
        /\ Cardinality(Spenders(j)) \in Nat /\ Cardinality(Spenders(j)') \in Nat
    BY <1>0, <1>3 DEF JobInv, Counted
  <2>2. CASE UNCHANGED row /\ c \notin Spenders(j)'
    <3>1. Cardinality(Spenders(j)') <= Cardinality(Spenders(j))
      BY <1>3, <2>2 DEF Counted
    <3> QED BY <1>4, <2>1, <2>2, <3>1
  <2>3. CASE UNCHANGED row /\ x.pc = "mark" /\ x.attempts = row[j].attempt_count /\ c \in Spenders(j)'
    <3>1. row[j].attempt_count + 1 < MaxRetries
      BY <1>3, <2>3
    <3>2. Cardinality(Spenders(j)') <= Cardinality(Caller)
      <4>1. Spenders(j)' \subseteq Caller
        BY DEF Spenders
      <4> QED BY <4>1, CallersFinite, FS_Subset
    <3> QED BY <1>4, <2>1, <2>3, <3>1, <3>2
  <2>4. CASE /\ row'[j].attempt_count = row[j].attempt_count
             /\ x.attempts = call[<<c, j>>].attempts
             /\ x.pc \in {"deliver", "advance"} /\ call[<<c, j>>].pc \in {"mark", "deliver"}
    BY <1>3, <1>4, <2>1, <2>4 DEF Counted
  <2>5. CASE advance(c, j) /\ call[<<c, j>>].pc = "advance" /\ x = Answered(c)
    <3>1. row'[j] = Advanced(row[j], call[<<c, j>>])
      BY <1>0, <2>5 DEF advance, TypeOK
    <3>2. row[j] \in Row /\ call[<<c, j>>] \in CallState /\ call[<<c, j>>].result \in Result
      BY <1>0, <2>5 DEF TypeOK, CallState, JobInv
    <3>3. c \notin Spenders(j)'
      BY <1>3, <1>5, <2>5
    <3>4. \/ row'[j].attempt_count = row[j].attempt_count
          \/ row'[j].attempt_count = row[j].attempt_count + 1 /\ c \in Spenders(j)
      BY <1>3, <2>5, <3>1, <3>2, AdvancedRow
    <3> QED BY <1>3, <1>4, <2>1, <3>3, <3>4 DEF Counted
  <2>6. MarkInProgress(c, j) => row'[j].attempt_count = row[j].attempt_count
    <3>1. row[j] \in Row
      BY <1>0 DEF TypeOK
    <3>2. MarkInProgress(c, j) => UNCHANGED row \/ row' = [row EXCEPT ![j] = [row[j] EXCEPT !.status = "PROCESSING"]]
      BY Zenon DEF MarkInProgress
    <3> QED BY <1>0, <3>1, <3>2 DEF TypeOK, Row
  <2>7. LoseOutcome(c, j) => UNCHANGED row
    BY DEF LoseOutcome
  <2>8. x = Answered(c) => c \notin Spenders(j)'
    BY <1>3, <1>5
  <2> QED BY <1>1, <2>2, <2>3, <2>4, <2>5, <2>6, <2>7, <2>8
<1> QED BY <1>7, <1>9, <1>10, <1>11 DEF JobInv

LEMMA ServeTypes ==
  ASSUME Inv, NEW c \in Caller, NEW j \in Job, serve(c, j)
  PROVE  TypeOK'
<1>0. TypeOK /\ JobInv(j)
  BY DEF Inv
<1>1. PICK x \in CallState : call' = [call EXCEPT ![<<c, j>>] = x]
  BY <1>0, ServeEffect
<1>2. call' \in [Caller \X Job -> CallState] /\ UNCHANGED queue
  BY <1>0, <1>1, CallFun, ServeEffect
<1>3. UNCHANGED <<poll, pausedCache, paused>>
  BY DEF serve, Load, MarkInProgress, deliver, advance, LoseOutcome
<1>4. row' \in [Job -> Row] /\ unrecorded' \subseteq Job
  <2>1. row \in [Job -> Row] /\ unrecorded \subseteq Job /\ row[j] \in Row /\ call[<<c, j>>] \in CallState
    BY <1>0 DEF TypeOK, CallState
  <2>2. CASE Load(c, j) \/ deliver(c, j) \/ LoseOutcome(c, j)
    BY <2>1, <2>2 DEF Load, deliver, LoseOutcome
  <2>3. CASE MarkInProgress(c, j)
    <3>1. [row[j] EXCEPT !.status = "PROCESSING"] \in Row
      BY <2>1, StatusRow DEF Status
    <3>2. row' = [row EXCEPT ![j] = [row[j] EXCEPT !.status = "PROCESSING"]] \/ row' = row
      BY <2>3, Zenon DEF MarkInProgress
    <3>3. unrecorded' = unrecorded \ {j} \/ unrecorded' = unrecorded
      BY <2>3, Zenon DEF MarkInProgress
    <3> QED BY <2>1, <3>1, <3>2, <3>3
  <2>4. CASE advance(c, j)
    <3>1. Advanced(row[j], call[<<c, j>>]) \in Row
      <4>1. call[<<c, j>>].result \in Result
        BY <1>0, <2>4 DEF advance, JobInv
      <4> QED BY <2>1, <4>1, AdvancedRow
    <3> QED BY <2>1, <2>4, <3>1 DEF advance
  <2> QED BY <2>2, <2>3, <2>4 DEF serve
<1> QED BY <1>0, <1>2, <1>3, <1>4 DEF TypeOK, CallState

\* Receive, DropDuplicate and Acknowledge: the router and its messages.
LEMMA ReceiveKeeps ==
  ASSUME Inv, NEW r \in Router, NEW j \in Job, Receive(r, j)
  PROVE  TypeOK' /\ JobInv(j)'
<1>0. TypeOK /\ JobInv(j) /\ r \in Caller
  BY DEF Inv, Caller
<1> DEFINE x == [call[<<r, j>>] EXCEPT !.pc = "load"]
<1>1. x \in CallState /\ x.pc = "load"
  <2>1. call[<<r, j>>] \in CallState
    BY <1>0 DEF TypeOK, CallState
  <2> QED BY <2>1 DEF CallState
<1>2. /\ call' = [call EXCEPT ![<<r, j>>] = x] /\ call[<<r, j>>].pc = "none" /\ Undelivered(j)
      /\ UNCHANGED <<row, queue, poll, pausedCache, paused, unrecorded>>
  BY Zenon DEF Receive, CallStep
<1> HIDE DEF x
<1>3. call' \in [Caller \X Job -> CallState]
  BY <1>0, <1>1, <1>2, CallFun
<1>4. TypeOK'
  BY <1>0, <1>2, <1>3 DEF TypeOK, CallState
<1>5. /\ Counted(Waiting(j), Waiting(j)', r) /\ Counted(Acking(j), Acking(j)', r)
      /\ Counted(Spenders(j), Spenders(j)', r)
      /\ r \notin Waiting(j) /\ r \in Waiting(j)' /\ r \notin Acking(j) /\ r \notin Acking(j)'
      /\ r \notin Spenders(j) /\ r \notin Spenders(j)' /\ Abandoned(j)' = Abandoned(j)
  <2>1. r # "abandoned"
    BY JobAssumption
  <2> QED BY <1>0, <1>1, <1>2, <2>1, CallChange
<1>6. \A d \in Caller : call'[<<d, j>>].pc = "advance" => call'[<<d, j>>].result \in Result
  BY <1>0, <1>1, <1>2, ResultsKept
<1>7. Cardinality(Waiting(j)) < queue[j] /\ queue[j] \in Nat
  BY <1>0, <1>2, Numbers, SetsFinite DEF Undelivered
<1>8. Cardinality(Waiting(j)') <= queue'[j]
  BY <1>2, <1>5, <1>7 DEF Counted
<1>9. Cardinality(Acking(j)') = Cardinality(Acking(j)) /\ Cardinality(Spenders(j)') = Cardinality(Spenders(j))
  BY <1>5 DEF Counted
<1> QED BY <1>0, <1>2, <1>4, <1>5, <1>6, <1>8, <1>9 DEF JobInv

LEMMA DropDuplicateKeeps ==
  ASSUME Inv, NEW r \in Router, NEW j \in Job, DropDuplicate(r, j)
  PROVE  TypeOK' /\ JobInv(j)'
<1>0. TypeOK /\ JobInv(j)
  BY DEF Inv
<1>1. /\ call[<<r, j>>].pc # "none" /\ Undelivered(j) /\ queue' = [queue EXCEPT ![j] = @ - 1]
      /\ unrecorded' = IF call[<<r, j>>].pc = "ack" /\ row[j].status = "PROCESSING"
                       THEN unrecorded \cup {j} ELSE unrecorded
      /\ UNCHANGED <<row, poll, pausedCache, paused, call>>
  BY DEF DropDuplicate
<1>2. /\ Cardinality(Waiting(j)) \in Nat /\ Cardinality(Acking(j)) \in Nat
      /\ Cardinality(Waiting(j)) < queue[j] /\ queue[j] \in 0 .. MaxCopies /\ MaxCopies \in Nat
  BY <1>0, <1>1, SetsFinite, JobAssumption DEF Undelivered, TypeOK
<1>3. queue'[j] = queue[j] - 1 /\ queue' \in [Job -> 0 .. MaxCopies]
  <2>1. queue[j] - 1 \in 0 .. MaxCopies
    BY <1>2
  <2> QED BY <1>0, <1>1, <2>1 DEF TypeOK
<1>4. TypeOK'
  BY <1>0, <1>1, <1>3 DEF TypeOK
<1>5. /\ Waiting(j)' = Waiting(j) /\ Acking(j)' = Acking(j) /\ Spenders(j)' = Spenders(j)
      /\ Abandoned(j)' = Abandoned(j)
  BY <1>1 DEF Waiting, Acking, Spenders, Abandoned
<1>6. Cardinality(Waiting(j)') <= queue'[j]
  BY <1>2, <1>3, <1>5
<1>7. row'[j].status = "PROCESSING" =>
        queue'[j] > Cardinality(Acking(j)') \/ Abandoned(j)' \/ j \in unrecorded'
  <2>1. CASE call[<<r, j>>].pc = "ack"
    BY <1>1, <2>1
  <2>2. CASE call[<<r, j>>].pc # "ack"
    <3>1. Cardinality(Acking(j)) < Cardinality(Waiting(j))
      BY <1>1, <2>2, SpareMessage
    <3> QED BY <1>2, <1>3, <1>5, <3>1
  <2> QED BY <2>1, <2>2
<1> QED BY <1>0, <1>1, <1>4, <1>5, <1>6, <1>7 DEF JobInv

LEMMA AcknowledgeKeeps ==
  ASSUME Inv, NEW r \in Router, NEW j \in Job, Acknowledge(r, j)
  PROVE  TypeOK' /\ JobInv(j)'
<1>0. TypeOK /\ JobInv(j) /\ r \in Caller
  BY DEF Inv, Caller
<1>1. /\ call[<<r, j>>].pc = "ack" /\ queue' = [queue EXCEPT ![j] = @ - 1]
      /\ call' = [call EXCEPT ![<<r, j>>] = NoCall]
      /\ UNCHANGED <<row, poll, pausedCache, paused, unrecorded>>
  BY DEF Acknowledge
<1>2. NoCall \in CallState /\ NoCall.pc = "none"
  BY DEF NoCall, CallState
<1>3. /\ Counted(Waiting(j), Waiting(j)', r) /\ Counted(Acking(j), Acking(j)', r)
      /\ Counted(Spenders(j), Spenders(j)', r)
      /\ r \in Waiting(j) /\ r \notin Waiting(j)' /\ r \in Acking(j) /\ r \notin Acking(j)'
      /\ r \notin Spenders(j) /\ r \notin Spenders(j)' /\ Abandoned(j)' = Abandoned(j)
  <2>1. r # "abandoned"
    BY JobAssumption
  <2> QED BY <1>0, <1>1, <1>2, <2>1, CallChange
<1>4. /\ Cardinality(Waiting(j)) \in Nat /\ Cardinality(Waiting(j)') \in Nat
      /\ Cardinality(Waiting(j)) = Cardinality(Waiting(j)') + 1
      /\ Cardinality(Acking(j)) \in Nat /\ Cardinality(Acking(j)') \in Nat
      /\ Cardinality(Acking(j)) = Cardinality(Acking(j)') + 1
      /\ Cardinality(Spenders(j)') = Cardinality(Spenders(j))
  BY <1>3 DEF Counted
<1>5. Cardinality(Waiting(j)) <= queue[j] /\ queue[j] \in 0 .. MaxCopies /\ MaxCopies \in Nat
  BY <1>0, JobAssumption DEF JobInv, TypeOK
<1>6. queue'[j] = queue[j] - 1 /\ queue' \in [Job -> 0 .. MaxCopies]
  <2>1. queue[j] - 1 \in 0 .. MaxCopies
    BY <1>4, <1>5
  <2> QED BY <1>0, <1>1, <2>1 DEF TypeOK
<1>7. call' \in [Caller \X Job -> CallState]
  BY <1>0, <1>1, <1>2, CallFun
<1>8. TypeOK'
  BY <1>0, <1>1, <1>6, <1>7 DEF TypeOK, CallState
<1>9. \A d \in Caller : call'[<<d, j>>].pc = "advance" => call'[<<d, j>>].result \in Result
  BY <1>0, <1>1, <1>2, ResultsKept
<1>10. Cardinality(Waiting(j)') <= queue'[j]
  BY <1>4, <1>5, <1>6
<1>11. row'[j].status = "PROCESSING" =>
         queue'[j] > Cardinality(Acking(j)') \/ Abandoned(j)' \/ j \in unrecorded'
  BY <1>0, <1>1, <1>3, <1>4, <1>5, <1>6 DEF JobInv
<1>12. row'[j].attempt_count + Cardinality(Spenders(j)') + 2 <= MaxRetries + Cardinality(Caller)
  BY <1>0, <1>1, <1>4 DEF JobInv
<1> QED BY <1>8, <1>9, <1>10, <1>11, <1>12 DEF JobInv

LEMMA CutKeeps ==
  ASSUME Inv, NEW c \in Caller, NEW j \in Job, Cut(c, j)
  PROVE  TypeOK' /\ JobInv(j)'
<1>0. TypeOK /\ JobInv(j)
  BY DEF Inv
<1>1. /\ call' = [call EXCEPT ![<<c, j>>] = NoCall]
      /\ unrecorded' = IF c \notin Router /\ call[<<c, j>>].pc \in {"deliver", "advance"}
                       THEN unrecorded \cup {j} ELSE unrecorded
      /\ UNCHANGED <<row, queue, poll, pausedCache, paused>>
  BY DEF Cut
<1>2. NoCall \in CallState /\ NoCall.pc = "none"
  BY DEF NoCall, CallState
<1>3. /\ Counted(Waiting(j), Waiting(j)', c) /\ Counted(Acking(j), Acking(j)', c)
      /\ Counted(Spenders(j), Spenders(j)', c)
      /\ c \notin Waiting(j)' /\ c \notin Acking(j)' /\ c \notin Spenders(j)'
      /\ c # "abandoned" => Abandoned(j)' = Abandoned(j)
  BY <1>0, <1>1, <1>2, CallChange
<1>4. /\ Cardinality(Waiting(j)) \in Nat /\ Cardinality(Waiting(j)') \in Nat
      /\ Cardinality(Waiting(j)') <= Cardinality(Waiting(j))
      /\ Cardinality(Acking(j)) \in Nat /\ Cardinality(Acking(j)') \in Nat
      /\ Cardinality(Acking(j)') <= Cardinality(Acking(j))
      /\ Cardinality(Spenders(j)) \in Nat /\ Cardinality(Spenders(j)') \in Nat
      /\ Cardinality(Spenders(j)') <= Cardinality(Spenders(j))
  BY <1>3 DEF Counted
<1>5. call' \in [Caller \X Job -> CallState]
  BY <1>0, <1>1, <1>2, CallFun
<1>6. TypeOK'
  BY <1>0, <1>1, <1>5 DEF TypeOK, CallState
<1>7. \A d \in Caller : call'[<<d, j>>].pc = "advance" => call'[<<d, j>>].result \in Result
  BY <1>0, <1>1, <1>2, ResultsKept
<1>8. queue[j] \in Nat /\ row[j].attempt_count \in Nat /\ Cardinality(Caller) \in Nat /\ MaxRetries \in Nat
  BY <1>0, Numbers
<1>9. row'[j].status = "PROCESSING" =>
        queue'[j] > Cardinality(Acking(j)') \/ Abandoned(j)' \/ j \in unrecorded'
  <2>1. c = "abandoned" /\ Abandoned(j) => j \in unrecorded'
    BY <1>1, JobAssumption DEF Abandoned
  <2>2. /\ row[j] = row'[j] /\ queue'[j] = queue[j]
        /\ j \in unrecorded => j \in unrecorded'
    BY <1>1
  <2>3. row[j].status = "PROCESSING" =>
          queue[j] > Cardinality(Acking(j)) \/ Abandoned(j) \/ j \in unrecorded
    BY <1>0 DEF JobInv
  <2>4. queue[j] > Cardinality(Acking(j)) => queue'[j] > Cardinality(Acking(j)')
    BY <1>4, <1>8, <2>2
  <2> QED BY <1>3, <2>1, <2>2, <2>3, <2>4
<1>10. /\ Cardinality(Waiting(j)') <= queue'[j]
       /\ row'[j].attempt_count + Cardinality(Spenders(j)') + 2 <= MaxRetries + Cardinality(Caller)
  BY <1>0, <1>1, <1>4, <1>8 DEF JobInv
<1> QED BY <1>6, <1>7, <1>9, <1>10 DEF JobInv

\* A spender stays one when its router gives up on it.
LEMMA GiveUpKeeps ==
  ASSUME Inv, NEW r \in Router, NEW j \in Job, GiveUp(r, j)
  PROVE  TypeOK' /\ JobInv(j)'
<1>0. TypeOK /\ JobInv(j)
  BY DEF Inv
<1>1. r \in Caller /\ "abandoned" \in Caller /\ r # "abandoned" /\ "abandoned" \notin Router
  BY JobAssumption DEF Caller
<1>2. /\ call[<<r, j>>].pc \in {"load", "mark", "deliver", "advance"}
      /\ call[<<"abandoned", j>>].pc = "none"
      /\ call' = [call EXCEPT ![<<"abandoned", j>>] = call[<<r, j>>], ![<<r, j>>] = NoCall]
      /\ UNCHANGED <<row, queue, poll, pausedCache, paused, unrecorded>>
  BY DEF GiveUp
<1>3. NoCall \in CallState /\ NoCall.pc = "none" /\ call[<<r, j>>] \in CallState
  BY <1>0, <1>1 DEF NoCall, CallState, TypeOK
<1>4. /\ call' \in [Caller \X Job -> CallState]
      /\ call'[<<"abandoned", j>>] = call[<<r, j>>] /\ call'[<<r, j>>] = NoCall
      /\ \A d \in Caller : d \notin {r, "abandoned"} => call'[<<d, j>>] = call[<<d, j>>]
  BY <1>0, <1>1, <1>2, <1>3 DEF TypeOK, CallState
<1>5. TypeOK'
  BY <1>0, <1>2, <1>4 DEF TypeOK, CallState
<1>6. Counted(Waiting(j), Waiting(j)', r) /\ r \notin Waiting(j)'
  <2>1. \A y : y # r => (y \in Waiting(j) <=> y \in Waiting(j)')
    BY <1>1, <1>4 DEF Waiting, Caller
  <2>2. r \notin Waiting(j)'
    BY <1>3, <1>4 DEF Waiting
  <2> QED BY <2>1, <2>2, SetsFinite, CardChange
<1>7. Acking(j)' = Acking(j)
  BY <1>1, <1>2, <1>3, <1>4 DEF Acking, Caller
<1>8. Cardinality(Spenders(j)') = Cardinality(Spenders(j))
  <2>1. "abandoned" \notin Spenders(j) /\ r \notin Spenders(j)'
    BY <1>2, <1>3, <1>4 DEF Spenders
  <2>2. "abandoned" \in Spenders(j)' <=> r \in Spenders(j)
    BY <1>1, <1>4 DEF Spenders
  <2>3. \A y : y \notin {r, "abandoned"} => (y \in Spenders(j) <=> y \in Spenders(j)')
    BY <1>4 DEF Spenders
  <2> DEFINE S == Spenders(j) \ {r}
  <2>4. Counted(Spenders(j), S, r) /\ IsFiniteSet(S)
    <3>1. IsFiniteSet(Spenders(j)) /\ \A y : y # r => (y \in Spenders(j) <=> y \in S)
      BY SetsFinite
    <3>2. IsFiniteSet(S)
      BY <3>1, FS_Subset
    <3> QED BY <3>1, <3>2, CardChange
  <2>5. Counted(S, Spenders(j)', "abandoned")
    <3>1. \A y : y # "abandoned" => (y \in S <=> y \in Spenders(j)')
      BY <2>1, <2>3
    <3> HIDE DEF S
    <3> QED BY <2>4, <3>1, CardChange
  <2>6. r \notin S /\ "abandoned" \notin S
    BY <2>1
  <2> HIDE DEF S
  <2> QED BY <2>1, <2>2, <2>4, <2>5, <2>6 DEF Counted
<1>9. queue[j] \in Nat
  BY <1>0, Numbers
<1>10. Cardinality(Waiting(j)') <= queue'[j]
  BY <1>0, <1>2, <1>6, <1>9 DEF JobInv, Counted
<1>11. ~Abandoned(j)
  BY <1>2 DEF Abandoned
<1>12. \A d \in Caller : call'[<<d, j>>].pc = "advance" => call'[<<d, j>>].result \in Result
  BY <1>0, <1>1, <1>3, <1>4 DEF JobInv
<1> QED BY <1>0, <1>2, <1>5, <1>7, <1>8, <1>10, <1>11, <1>12 DEF JobInv

\* Calls, messages and outcomes of one job are nothing to another.
LEMMA OthersKeep ==
  ASSUME Inv, TypeOK', NEW j \in Job, NEW k \in Job, k # j,
         \/ \E c \in Caller : serve(c, j) \/ Cut(c, j)
         \/ \E r \in Router : \/ Receive(r, j) \/ DropDuplicate(r, j) \/ Acknowledge(r, j)
                              \/ GiveUp(r, j)
  PROVE  JobInv(k)'
<1>0. TypeOK /\ JobInv(k) /\ queue[k] \in Nat /\ row[k].attempt_count \in Nat
  BY Numbers DEF Inv
<1>1. row \in [Job -> Row] /\ queue \in [Job -> 0 .. MaxCopies] /\ call \in [Caller \X Job -> CallState]
  BY <1>0 DEF TypeOK, CallState
<1>2. /\ \A d \in Caller : call'[<<d, k>>] = call[<<d, k>>]
      /\ row'[k] = row[k] /\ queue'[k] = queue[k]
      /\ k \in unrecorded <=> k \in unrecorded'
  <2>1. CASE \E c \in Caller : serve(c, j)
    <3>1. PICK c \in Caller : serve(c, j)
      BY <2>1
    <3>2. UNCHANGED queue /\ \E x \in CallState : call' = [call EXCEPT ![<<c, j>>] = x]
      BY <1>0, <3>1, ServeEffect
    <3>3. \A d \in Caller : call'[<<d, k>>] = call[<<d, k>>]
      BY <1>0, <3>2, CallFun
    <3>4. row'[k] = row[k] /\ (k \in unrecorded <=> k \in unrecorded')
      <4>1. CASE Load(c, j) \/ deliver(c, j)
        BY <4>1 DEF Load, deliver
      <4>2. CASE MarkInProgress(c, j) \/ advance(c, j)
        BY <1>1, <4>2 DEF MarkInProgress, advance
      <4>3. CASE LoseOutcome(c, j)
        BY <4>3 DEF LoseOutcome
      <4> QED BY <3>1, <4>1, <4>2, <4>3 DEF serve
    <3> QED BY <3>2, <3>3, <3>4
  <2>2. CASE \E c \in Caller : Cut(c, j)
    BY <1>1, <2>2 DEF Cut
  <2>3. CASE \E r \in Router : Receive(r, j)
    BY <1>1, <2>3 DEF Receive, CallStep, Caller
  <2>4. CASE \E r \in Router : DropDuplicate(r, j)
    BY <1>1, <2>4 DEF DropDuplicate
  <2>5. CASE \E r \in Router : Acknowledge(r, j)
    BY <1>1, <2>5 DEF Acknowledge, Caller
  <2>6. CASE \E r \in Router : GiveUp(r, j)
    BY <1>1, <2>6 DEF GiveUp, Caller
  <2> QED BY <2>1, <2>2, <2>3, <2>4, <2>5, <2>6
<1>3. queue[k] <= queue'[k] /\ row'[k].attempt_count <= row[k].attempt_count
  <2>1. \A n \in Nat : n <= n
    OBVIOUS
  <2> QED BY Zenon, <1>0, <1>2, <2>1
<1>4. row'[k].status = "PROCESSING" =>
        row[k].status = "PROCESSING" /\ (k \in unrecorded => k \in unrecorded')
  BY <1>2
<1> QED BY Zenon, <1>0, <1>2, <1>3, <1>4, QuietKeeps

\* Scheduler, recovery and operators.
LEMMA QuietSteps ==
  ASSUME Inv,
         \/ \E s \in Scheduler : \/ Claim(s) \/ HoldBack(s) \/ Commit(s) \/ SubmitBatch(s)
                                 \/ Revert(s) \/ Abort(s) \/ CacheExpires(s)
         \/ \E stale \in SUBSET Job : recoverOnce(stale)
         \/ \E j \in Job : BackoffElapsed(j) \/ Requeue(j)
         \/ \E sub \in Subscribed : TogglePaused(sub)
         \/ UNCHANGED vars
  PROVE  Inv'
<1>0. TypeOK /\ row \in [Job -> Row]
  BY DEF Inv, TypeOK
<1>1. TypeOK' /\ UNCHANGED call /\ \A k \in Job : queue[k] <= queue'[k]
  <2>1. CASE \E s \in Scheduler : SubmitBatch(s)
    BY <1>0, <2>1, SubmitBatchTypes
  <2>2. CASE ~\E s \in Scheduler : SubmitBatch(s)
    <3>1. TypeOK' /\ UNCHANGED <<call, queue>>
      BY <1>0, <2>2, PollTypes, OtherTypes
    <3> QED BY <1>0, <3>1, Numbers
  <2> QED BY <2>1, <2>2
<1>2. ASSUME NEW k \in Job
      PROVE  /\ row'[k].attempt_count <= row[k].attempt_count
             /\ row'[k].status = "PROCESSING" =>
                  row[k].status = "PROCESSING" /\ (k \in unrecorded => k \in unrecorded')
  <2>0. row[k] \in Row /\ row[k].attempt_count \in Nat
    BY <1>0 DEF Row
  <2>1. CASE /\ UNCHANGED unrecorded
             /\ \/ row'[k] = row[k]
                \/ \E st \in {"QUEUED", "PENDING"} : row'[k] = [row[k] EXCEPT !.status = st]
                \/ row'[k] = [row[k] EXCEPT !.due = TRUE]
    BY <2>0, <2>1 DEF Row
  <2>2. CASE \E s \in Scheduler : Claim(s) \/ HoldBack(s) \/ SubmitBatch(s) \/ Abort(s) \/ CacheExpires(s)
    BY <2>1, <2>2, Zenon DEF Claim, HoldBack, SubmitBatch, Abort, CacheExpires
  <2>3. CASE \E s \in Scheduler : Commit(s)
    <3>1. /\ UNCHANGED unrecorded
          /\ row'[k] = row[k] \/ row'[k] = [row[k] EXCEPT !.status = "QUEUED"]
      BY <2>3 DEF Commit
    <3> QED BY <2>1, <3>1
  <2>4. CASE \E s \in Scheduler : Revert(s)
    <3>1. /\ UNCHANGED unrecorded
          /\ row'[k] = row[k] \/ row'[k] = [row[k] EXCEPT !.status = "PENDING"]
      BY <2>4 DEF Revert
    <3> QED BY <2>1, <3>1
  <2>5. CASE \E stale \in SUBSET Job : recoverOnce(stale)
    <3>1. /\ UNCHANGED unrecorded
          /\ row'[k] = row[k] \/ row'[k] = [row[k] EXCEPT !.status = "PENDING"]
      BY <2>5 DEF recoverOnce
    <3> QED BY <2>1, <3>1
  <2>6. CASE \E j \in Job : BackoffElapsed(j)
    <3>1. PICK j \in Job : BackoffElapsed(j)
      BY <2>6
    <3>2. UNCHANGED unrecorded /\ row' = [row EXCEPT ![j] = [row[j] EXCEPT !.due = TRUE]]
      BY <3>1 DEF BackoffElapsed
    <3> QED BY <1>0, <2>1, <3>2
  <2>7. CASE \E j \in Job : Requeue(j)
    <3>1. PICK j \in Job : Requeue(j)
      BY <2>7
    <3>2. /\ row' = [row EXCEPT ![j] = [status |-> "PENDING", attempt_count |-> 0, due |-> TRUE]]
          /\ unrecorded' = unrecorded \ {j}
      BY <3>1 DEF Requeue
    <3>3. CASE k = j
      BY <1>0, <2>0, <3>2, <3>3
    <3>4. CASE k # j
      BY <1>0, <2>0, <3>2, <3>4
    <3> QED BY <3>3, <3>4
  <2>8. CASE (\E sub \in Subscribed : TogglePaused(sub)) \/ UNCHANGED vars
    BY <2>1, <2>8, Zenon DEF TogglePaused, vars
  <2> QED BY <2>2, <2>3, <2>4, <2>5, <2>6, <2>7, <2>8
<1>3. ASSUME NEW k \in Job
      PROVE  JobInv(k)'
  BY <1>0, <1>1, <1>2, <1>3, QuietKeeps DEF Inv
<1> QED BY <1>1, <1>3 DEF Inv

LEMMA InvInit == Init => Inv
<1> SUFFICES ASSUME Init PROVE Inv
  OBVIOUS
<1>1. call = [c \in Caller \X Job |-> NoCall] /\ NoCall \in CallState /\ NoCall.pc = "none"
  BY DEF Init, NoCall, CallState
<1>2. Idle \in PollState /\ \A j \in Job : row[j] \in Row
  BY DEF Init, Idle, PollState, Row
<1>3. TypeOK
  BY <1>1, <1>2, JobAssumption DEF Init, TypeOK, CallState, PollState
<1>4. ASSUME NEW j \in Job
      PROVE  JobInv(j)
  <2>1. \A c \in Caller : call[<<c, j>>].pc = "none"
    BY <1>1
  <2>2. Waiting(j) = {} /\ Acking(j) = {} /\ Spenders(j) = {}
    BY <2>1 DEF Waiting, Acking, Spenders, Caller
  <2>3. queue[j] = 0 /\ row[j].status = "PENDING" /\ row[j].attempt_count = 0
    BY DEF Init
  <2>4. Cardinality(Caller) \in Nat /\ Cardinality(Caller) >= 1 /\ MaxRetries \in Nat /\ MaxRetries >= 1
    BY CallersFinite, JobAssumption
  <2> QED BY <2>1, <2>2, <2>3, <2>4, FS_EmptySet DEF JobInv
<1> QED BY <1>3, <1>4 DEF Inv

LEMMA InvNext == Inv /\ [Next]_vars => Inv'
<1> SUFFICES ASSUME Inv, [Next]_vars PROVE Inv'
  OBVIOUS
<1>1. CASE \E c \in Caller, j \in Job : serve(c, j) \/ Cut(c, j)
  <2>1. PICK c \in Caller, j \in Job : serve(c, j) \/ Cut(c, j)
    BY <1>1
  <2>2. TypeOK' /\ JobInv(j)'
    BY <2>1, ServeTypes, ServeKeeps, CutKeeps
  <2>3. \A k \in Job : k # j => JobInv(k)'
    BY <2>1, <2>2, OthersKeep
  <2> QED BY <2>2, <2>3 DEF Inv
<1>2. CASE \E r \in Router, j \in Job : \/ Receive(r, j) \/ DropDuplicate(r, j) \/ Acknowledge(r, j)
                                        \/ GiveUp(r, j)
  <2>1. PICK r \in Router, j \in Job : \/ Receive(r, j) \/ DropDuplicate(r, j) \/ Acknowledge(r, j)
                                       \/ GiveUp(r, j)
    BY <1>2
  <2>2. TypeOK' /\ JobInv(j)'
    BY <2>1, ReceiveKeeps, DropDuplicateKeeps, AcknowledgeKeeps, GiveUpKeeps
  <2>3. \A k \in Job : k # j => JobInv(k)'
    BY <2>1, <2>2, OthersKeep
  <2> QED BY <2>2, <2>3 DEF Inv
<1>3. CASE \/ \E s \in Scheduler : \/ Claim(s) \/ HoldBack(s) \/ Commit(s) \/ SubmitBatch(s)
                                   \/ Revert(s) \/ Abort(s) \/ CacheExpires(s)
           \/ \E stale \in SUBSET Job : recoverOnce(stale)
           \/ \E j \in Job : BackoffElapsed(j) \/ Requeue(j)
           \/ \E sub \in Subscribed : TogglePaused(sub)
           \/ UNCHANGED vars
  BY <1>3, QuietSteps
<1> QED BY <1>1, <1>2, <1>3, Zenon DEF Next, Work, Trouble, serve

\* The invariant holds throughout: each waiting router has a queue message of its
\* own, a PROCESSING row has one that no pending acknowledgement takes, and no
\* call can spend more than the budget and the overlap allow.
THEOREM JobsConsistent == Spec => []Inv
<1>1. Init => Inv
  BY InvInit
<1>2. Inv /\ [Next]_vars => Inv'
  BY InvNext
<1> QED BY <1>1, <1>2, PTL DEF Spec

\* However many routers, schedulers and duplicates there are, a row in PROCESSING
\* keeps a message or a call at work, with the two exceptions that serve has: a
\* write of an outcome that failed, and a message dropped behind a finished call.
THEOREM NoJobIsForgotten == Spec => []NoJobForgotten
<1>1. Inv => NoJobForgotten
  <2> SUFFICES ASSUME Inv, NEW j \in Job, row[j].status = "PROCESSING"
               PROVE  \/ queue[j] > 0
                      \/ call[<<"abandoned", j>>].pc \in {"deliver", "advance"}
                      \/ j \in unrecorded
    BY DEF NoJobForgotten
  <2>1. queue[j] > Cardinality(Acking(j)) \/ Abandoned(j) \/ j \in unrecorded
    BY DEF Inv, JobInv
  <2>2. queue[j] \in Nat /\ Cardinality(Acking(j)) \in Nat
    BY Numbers, SetsFinite DEF Inv
  <2> QED BY <2>1, <2>2 DEF Abandoned
<1> QED BY <1>1, JobsConsistent, PTL

\* For any number of routers, attempt_count overruns MaxRetries by less than the
\* number of calls that can be at work on the job at once.
THEOREM RetryBudgetKept == Spec => []WithinRetryBudget
<1>1. Inv => WithinRetryBudget
  <2> SUFFICES ASSUME Inv, NEW j \in Job
               PROVE  row[j].attempt_count < MaxRetries + Cardinality(Caller) - 1
    BY DEF WithinRetryBudget
  <2>1. row[j].attempt_count + Cardinality(Spenders(j)) + 2 <= MaxRetries + Cardinality(Caller)
    BY DEF Inv, JobInv
  <2>2. /\ row[j].attempt_count \in Nat /\ Cardinality(Spenders(j)) \in Nat
        /\ Cardinality(Caller) \in Nat /\ MaxRetries \in Nat
    BY Numbers, SetsFinite DEF Inv
  <2> QED BY <2>1, <2>2
<1> QED BY <1>1, JobsConsistent, PTL
=============================================================================
