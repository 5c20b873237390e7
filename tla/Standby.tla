------------------------------ MODULE Standby ------------------------------
(***************************************************************************)
(* Leader election over a Redis lock with a time to live                   *)
(* (internal/standby): every instance calls tryAcquire at each heartbeat,  *)
(* SET NX first and refresh-if-mine if the lock is taken, and believes it  *)
(* leads until a call tells it otherwise.                                  *)
(*                                                                         *)
(* Time is discrete.  A heartbeat is not late, and the calls of one        *)
(* tryAcquire end, with an answer or an error, within MaxLatency.          *)
(***************************************************************************)
EXTENDS Naturals, FiniteSets

CONSTANTS
  Instance,
  Heartbeat,   \* HeartbeatIntervalSeconds
  LockTTL,     \* LockTTLSeconds
  MaxLatency,  \* bound on the duration of one tryAcquire
  None

ASSUME StandbyAssumption ==
  /\ Heartbeat \in Nat \ {0}
  /\ MaxLatency \in 1 .. Heartbeat
  /\ LockTTL \in Nat \ {0}
  /\ Heartbeat + MaxLatency < LockTTL
  /\ None \notin Instance \cup {"yes", "no", "error"}

VARIABLES
  lock,      \* the Redis key: owner, and seconds to live
  loop,      \* per instance: the election goroutine
  age,       \* per instance: time since its latest heartbeat was due
  isLeader   \* per instance: what IsLeader reports

vars == <<lock, loop, age, isLeader>>

Free == [owner |-> None, ttl |-> 0]

Calling == {"setnx", "setnxReply", "refresh", "refreshReply"}

\* The answer of a Redis call under way, or None.
NoReply(pc) == [pc |-> pc, reply |-> None]

TypeOK ==
  /\ lock \in [owner : Instance \cup {None}, ttl : 0 .. LockTTL]
  /\ lock.owner = None <=> lock.ttl = 0
  /\ loop \in [Instance -> [ pc : {"down", "wait", "stopping", "stopped"} \cup Calling,
                             reply : {"yes", "no", "error", None} ]]
  /\ age \in [Instance -> 0 .. Heartbeat]
  /\ isLeader \in [Instance -> BOOLEAN]

Init ==
  /\ lock = Free
  /\ loop = [i \in Instance |-> NoReply("down")]
  /\ age = [i \in Instance |-> 0]
  /\ isLeader = [i \in Instance |-> FALSE]

-----------------------------------------------------------------------------
(* The election goroutine *)

\* Start; the loop makes its first call at once.
Start(i) ==
  /\ loop[i].pc = "down"
  /\ loop' = [loop EXCEPT ![i] = NoReply("setnx")]
  /\ age' = [age EXCEPT ![i] = 0]
  /\ UNCHANGED <<lock, isLeader>>

Beat(i) ==
  /\ loop[i].pc = "wait"
  /\ age[i] = Heartbeat
  /\ loop' = [loop EXCEPT ![i] = NoReply("setnx")]
  /\ age' = [age EXCEPT ![i] = 0]
  /\ UNCHANGED <<lock, isLeader>>

Answer(i, pc, reply) == loop' = [loop EXCEPT ![i] = [pc |-> pc, reply |-> reply]]

\* A call that fails may have been executed before its answer was lost.
AnswerOrError(i, pc, reply) == Answer(i, pc, reply) \/ Answer(i, pc, "error")

\* Redis executes SET key id NX EX ttl.
SetNX(i) ==
  /\ loop[i].pc = "setnx"
  /\ IF lock = Free
     THEN /\ lock' = [owner |-> i, ttl |-> LockTTL]
          /\ AnswerOrError(i, "setnxReply", "yes")
     ELSE /\ UNCHANGED lock
          /\ AnswerOrError(i, "setnxReply", "no")
  /\ UNCHANGED <<age, isLeader>>

\* Not what the code does: the script extends a lock of any owner.
RefreshAny(i) ==
  /\ loop[i].pc = "refresh"
  /\ lock' = IF lock = Free THEN lock ELSE [lock EXCEPT !.ttl = LockTTL]
  /\ AnswerOrError(i, "refreshReply", IF lock.owner = i THEN "yes" ELSE "no")
  /\ UNCHANGED <<age, isLeader>>

\* Redis executes the refreshIfMine script.
refreshIfMine(i) ==
  /\ loop[i].pc = "refresh"
  /\ IF lock.owner = i
     THEN /\ lock' = [lock EXCEPT !.ttl = LockTTL]
          /\ AnswerOrError(i, "refreshReply", "yes")
     ELSE /\ UNCHANGED lock
          /\ AnswerOrError(i, "refreshReply", "no")
  /\ UNCHANGED <<age, isLeader>>

\* The call never reaches Redis.
Unreachable(i) ==
  /\ loop[i].pc \in {"setnx", "refresh"}
  /\ Answer(i, IF loop[i].pc = "setnx" THEN "setnxReply" ELSE "refreshReply", "error")
  /\ UNCHANGED <<lock, age, isLeader>>

\* Not what the code does: an error leaves the instance in the lead.
AcquireKeeping(i) ==
  /\ loop[i].pc \in {"setnxReply", "refreshReply"}
  /\ IF loop[i] = [pc |-> "setnxReply", reply |-> "no"]
     THEN loop' = [loop EXCEPT ![i] = NoReply("refresh")] /\ UNCHANGED isLeader
     ELSE /\ loop' = [loop EXCEPT ![i] = NoReply("wait")]
          /\ isLeader' = [isLeader EXCEPT
               ![i] = loop[i].reply \in (IF @ THEN {"yes", "error"} ELSE {"yes"})]
  /\ UNCHANGED <<lock, age>>

\* tryAcquire acts on an answer: a refused SET NX is followed by the refresh,
\* anything else decides who leads.
tryAcquire(i) ==
  /\ loop[i].pc \in {"setnxReply", "refreshReply"}
  /\ IF loop[i] = [pc |-> "setnxReply", reply |-> "no"]
     THEN loop' = [loop EXCEPT ![i] = NoReply("refresh")] /\ UNCHANGED isLeader
     ELSE /\ loop' = [loop EXCEPT ![i] = NoReply("wait")]
          /\ isLeader' = [isLeader EXCEPT ![i] = loop[i].reply = "yes"]
  /\ UNCHANGED <<lock, age>>

\* Stop, or the end of the context: the loop ends between two calls.
StopLoop(i) ==
  /\ loop[i].pc = "wait"
  /\ loop' = [loop EXCEPT ![i] = NoReply("stopping")]
  /\ UNCHANGED <<lock, age, isLeader>>

\* Not what the code does: DEL without looking whose lock it is.
ReleaseAny(i) ==
  /\ loop[i].pc = "stopping"
  /\ lock' = IF isLeader[i] THEN Free ELSE lock
  /\ loop' = [loop EXCEPT ![i] = NoReply("stopped")]
  /\ UNCHANGED <<age, isLeader>>

\* Not what the code does: the release leaves the time to live behind.
ReleaseOwnerOnly(i) ==
  /\ loop[i].pc = "stopping"
  /\ lock' = IF isLeader[i] /\ lock.owner = i THEN [lock EXCEPT !.owner = None] ELSE lock
  /\ loop' = [loop EXCEPT ![i] = NoReply("stopped")]
  /\ UNCHANGED <<age, isLeader>>

\* releaseUnsafe, if the instance believes it leads, which IsLeader goes on
\* reporting until the process ends.
releaseIfMine(i) ==
  /\ loop[i].pc = "stopping"
  /\ lock' = IF isLeader[i] /\ lock.owner = i THEN Free ELSE lock
  /\ loop' = [loop EXCEPT ![i] = NoReply("stopped")]
  /\ UNCHANGED <<age, isLeader>>

\* The process ends: after Stop, in the midst of it, when its release fails, or at
\* any other time.
Crash(i) ==
  /\ loop[i].pc # "down"
  /\ loop' = [loop EXCEPT ![i] = NoReply("down")]
  /\ isLeader' = [isLeader EXCEPT ![i] = FALSE]
  /\ UNCHANGED <<lock, age>>

-----------------------------------------------------------------------------
(* Time *)

Live(i) == loop[i].pc \notin {"down", "stopping", "stopped"}

\* A second passes: no heartbeat and no call is overdue, and Redis drops a lock
\* that has lived its time.
Tick ==
  /\ \A i \in Instance : /\ loop[i].pc = "wait" => age[i] < Heartbeat
                         /\ loop[i].pc \in Calling => age[i] < MaxLatency
  /\ age' = [i \in Instance |-> IF Live(i) THEN age[i] + 1 ELSE age[i]]
  /\ lock' = IF lock.ttl <= 1 THEN Free ELSE [lock EXCEPT !.ttl = @ - 1]
  /\ UNCHANGED <<loop, isLeader>>

Work ==
  \/ \E i \in Instance : \/ Start(i) \/ Beat(i) \/ SetNX(i) \/ refreshIfMine(i)
                         \/ tryAcquire(i) \/ releaseIfMine(i)
  \/ Tick

Trouble == \E i \in Instance : StopLoop(i) \/ Crash(i) \/ Unreachable(i)

Next == Work \/ Trouble

Spec == Init /\ [][Next]_vars

\* No call fails any more.
Sound == \A i \in Instance : loop'[i].reply # "error"

\* Stops, crashes and Redis failures end some day, and time passes; nobody need
\* restart an instance that is down.
FairSpec ==
  /\ Spec
  /\ <>[][Work /\ Sound]_vars
  /\ WF_vars(Tick)
  /\ \A i \in Instance : /\ WF_vars(Beat(i)) /\ WF_vars(SetNX(i)) /\ WF_vars(refreshIfMine(i))
                         /\ WF_vars(tryAcquire(i)) /\ WF_vars(releaseIfMine(i))

-----------------------------------------------------------------------------
(* Properties *)

\* At most one instance whose loop runs believes it leads, although IsLeader
\* is a cached answer that outlives the call that gave it: an instance that
\* cannot refresh has stopped leading before its lock expires.
LeadersExclusive ==
  \A i, j \in Instance : isLeader[i] /\ isLeader[j] /\ Live(i) /\ Live(j) => i = j

\* A lock is lost by expiry, or by its owner's own release: no late SET NX,
\* refresh or release of another instance takes it away.
LockNotStolen ==
  [][lock.owner # None /\ lock'.owner # lock.owner
       => \/ lock.ttl = 1 /\ Tick
          \/ \E i \in Instance : lock.owner = i /\ releaseIfMine(i)]_vars

\* Once the failures end, an instance that keeps running leads or watches
\* another lead, for good: neither the lock of a leader that crashed and never
\* came back nor the attempts of the others keep the lead vacant.
LeaderElected ==
  \A i \in Instance : <>[]Live(i) => <>[](\E j \in Instance : isLeader[j] /\ Live(j))
=============================================================================
