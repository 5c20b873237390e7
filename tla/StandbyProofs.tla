--------------------------- MODULE StandbyProofs ---------------------------
(***************************************************************************)
(* At most one instance leads, and no lock is stolen, for every number of  *)
(* instances and all times with Heartbeat + MaxLatency < LockTTL.          *)
(***************************************************************************)
EXTENDS Standby, TLAPS

State == [ pc : {"down", "wait", "stopping", "stopped"} \cup Calling, reply : {"yes", "no", "error", None} ]

Owns(i) == lock.owner = i

\* A state of the election goroutine that can occur: an answer is there exactly
\* when the call has ended, and a call is not overdue.
LoopOK(i) ==
  /\ loop[i].reply # None <=> loop[i].pc \in {"setnxReply", "refreshReply"}
  /\ loop[i].pc \in Calling => age[i] <= MaxLatency
  /\ isLeader[i] => loop[i].pc # "down"

\* How fresh the lock of a leader is.  Since the call that made it leader the
\* lock has lost no more than the age of the heartbeat; while the next call is
\* under way, no more than one heartbeat on top of it.
LeaseOK(i) ==
  /\ loop[i].reply = "yes" => Owns(i) /\ lock.ttl + age[i] >= LockTTL
  /\ isLeader[i] /\ loop[i].pc = "wait" => Owns(i) /\ lock.ttl + age[i] >= LockTTL
  /\ isLeader[i] /\ loop[i].pc \in Calling => Owns(i) /\ lock.ttl + age[i] + Heartbeat >= LockTTL

LeaseInv ==
  /\ TypeOK
  /\ \A i \in Instance : LoopOK(i) /\ LeaseOK(i)

LEMMA StandbyInit == Init => LeaseInv
BY StandbyAssumption DEF Init, LeaseInv, LoopOK, LeaseOK, TypeOK, Free, NoReply, Calling

\* One instance moves, and the lock is untouched or was not another's.
LEMMA InstanceStep ==
  ASSUME LeaseInv, NEW i \in Instance, NEW s \in State, NEW n \in 0 .. Heartbeat, NEW b \in BOOLEAN,
         loop' = [loop EXCEPT ![i] = s], age' = [age EXCEPT ![i] = n],
         isLeader' = [isLeader EXCEPT ![i] = b],
         lock' \in [owner : Instance \cup {None}, ttl : 0 .. LockTTL],
         lock'.owner = None <=> lock'.ttl = 0,
         lock' = lock \/ \A j \in Instance \ {i} : ~Owns(j),
         LoopOK(i)', LeaseOK(i)'
  PROVE  LeaseInv'
<1>1. TypeOK' BY DEF LeaseInv, TypeOK, State
<1>2. ASSUME NEW j \in Instance, j # i PROVE LoopOK(j)' /\ LeaseOK(j)'
  <2>1. loop'[j] = loop[j] /\ age'[j] = age[j] /\ isLeader'[j] = isLeader[j]
    BY <1>2 DEF LeaseInv, TypeOK
  <2>2. LoopOK(j) /\ LeaseOK(j) BY DEF LeaseInv
  <2>3. LoopOK(j)' BY <2>1, <2>2 DEF LoopOK
  <2>4. LeaseOK(j)' BY <1>2, <2>1, <2>2 DEF LeaseOK, Owns
  <2> QED BY <2>3, <2>4
<1> QED BY <1>1, <1>2 DEF LeaseInv

\* An instance's loop moves, and nothing else.
LEMMA LoopStep ==
  ASSUME LeaseInv, NEW i \in Instance, NEW s \in State,
         loop' = [loop EXCEPT ![i] = s], UNCHANGED <<age, isLeader>>,
         lock' \in [owner : Instance \cup {None}, ttl : 0 .. LockTTL],
         lock'.owner = None <=> lock'.ttl = 0,
         lock' = lock \/ \A j \in Instance \ {i} : ~Owns(j),
         LoopOK(i)', LeaseOK(i)'
  PROVE  LeaseInv'
<1>1. age' = [age EXCEPT ![i] = age[i]] /\ age[i] \in 0 .. Heartbeat BY DEF LeaseInv, TypeOK
<1>2. isLeader' = [isLeader EXCEPT ![i] = isLeader[i]] /\ isLeader[i] \in BOOLEAN
  BY DEF LeaseInv, TypeOK
<1> QED BY <1>1, <1>2, InstanceStep

\* The typed state of one instance, as the steps below need it.
LEMMA InstanceTypes ==
  ASSUME LeaseInv, NEW i \in Instance
  PROVE  /\ loop[i] \in State /\ loop \in [Instance -> State]
         /\ age[i] \in 0 .. Heartbeat /\ age \in [Instance -> 0 .. Heartbeat]
         /\ isLeader[i] \in BOOLEAN /\ isLeader \in [Instance -> BOOLEAN]
         /\ lock \in [owner : Instance \cup {None}, ttl : 0 .. LockTTL]
         /\ lock.owner = None <=> lock.ttl = 0
         /\ LoopOK(i) /\ LeaseOK(i)
BY DEF LeaseInv, TypeOK, State

LEMMA StartKeeps == ASSUME LeaseInv, NEW i \in Instance, Start(i) PROVE LeaseInv'
<1> DEFINE s == NoReply("setnx")
<1>1. s \in State /\ s.pc = "setnx" /\ s.reply = None BY DEF State, NoReply, Calling
<1>2. loop' = [loop EXCEPT ![i] = s] /\ age' = [age EXCEPT ![i] = 0] BY DEF Start
<1> HIDE DEF s
<1>3. loop'[i] = s /\ age'[i] = 0 /\ isLeader'[i] = isLeader[i] /\ lock' = lock
  BY <1>2, InstanceTypes DEF Start
<1>4. ~isLeader[i] BY InstanceTypes DEF Start, LoopOK
<1>5. LoopOK(i)' BY <1>1, <1>3, <1>4, StandbyAssumption DEF LoopOK, Calling
<1>6. LeaseOK(i)' BY <1>1, <1>3, <1>4, StandbyAssumption DEF LeaseOK
<1>7. isLeader' = [isLeader EXCEPT ![i] = isLeader[i]] BY InstanceTypes DEF Start
<1>8. 0 \in 0 .. Heartbeat BY StandbyAssumption
<1> QED BY <1>1, <1>2, <1>3, <1>5, <1>6, <1>7, <1>8, InstanceTypes, InstanceStep

LEMMA BeatKeeps == ASSUME LeaseInv, NEW i \in Instance, Beat(i) PROVE LeaseInv'
<1> DEFINE s == NoReply("setnx")
<1>1. s \in State /\ s.pc = "setnx" /\ s.reply = None BY DEF State, NoReply, Calling
<1>2. loop' = [loop EXCEPT ![i] = s] /\ age' = [age EXCEPT ![i] = 0] BY DEF Beat
<1> HIDE DEF s
<1>3. loop'[i] = s /\ age'[i] = 0 /\ isLeader'[i] = isLeader[i] /\ lock' = lock
  BY <1>2, InstanceTypes DEF Beat
<1>4. isLeader[i] => Owns(i) /\ lock.ttl + Heartbeat >= LockTTL
  BY InstanceTypes DEF Beat, LeaseOK
<1>5. LoopOK(i)' BY <1>1, <1>3, StandbyAssumption DEF LoopOK, Calling
<1>6. LeaseOK(i)' BY <1>1, <1>3, <1>4, StandbyAssumption, InstanceTypes DEF LeaseOK, Owns
<1>7. isLeader' = [isLeader EXCEPT ![i] = isLeader[i]] BY InstanceTypes DEF Beat
<1>8. 0 \in 0 .. Heartbeat BY StandbyAssumption
<1> QED BY <1>1, <1>2, <1>3, <1>5, <1>6, <1>7, <1>8, InstanceTypes, InstanceStep

\* Redis is asked, and the answer is the truth or an error.
LEMMA AnswerKeeps ==
  ASSUME LeaseInv, NEW i \in Instance, NEW pc \in {"setnxReply", "refreshReply"},
         NEW r \in {"yes", "no", "error"}, Answer(i, pc, r),
         loop[i].pc \in Calling, UNCHANGED <<age, isLeader>>,
         \/ lock' = lock /\ r # "yes"
         \/ lock.owner \in {i, None} /\ lock' = [owner |-> i, ttl |-> LockTTL]
  PROVE  LeaseInv'
<1> DEFINE s == [pc |-> pc, reply |-> r]
<1>1. s \in State /\ s.pc = pc /\ s.reply = r BY DEF State, Calling
<1>2. loop' = [loop EXCEPT ![i] = s] BY DEF Answer
<1> HIDE DEF s
<1>3. loop'[i] = s /\ age'[i] = age[i] /\ isLeader'[i] = isLeader[i] BY <1>2, InstanceTypes
<1>4. LoopOK(i)' BY <1>1, <1>3, StandbyAssumption, InstanceTypes DEF LoopOK, Calling
<1>5. CASE lock' = lock /\ r # "yes"
  <2>1. LeaseOK(i)' BY <1>1, <1>3, <1>5, InstanceTypes DEF LeaseOK, Owns, Calling
  <2> QED BY <1>1, <1>2, <1>4, <1>5, <2>1, InstanceTypes, LoopStep
<1>6. CASE lock.owner \in {i, None} /\ lock' = [owner |-> i, ttl |-> LockTTL]
  <2>1. lock'.owner = i /\ lock'.ttl = LockTTL BY <1>6
  <2>2. /\ lock' \in [owner : Instance \cup {None}, ttl : 0 .. LockTTL]
        /\ lock'.owner = None <=> lock'.ttl = 0
    BY <1>6, <2>1, StandbyAssumption
  <2>3. LeaseOK(i)' BY <1>3, <2>1, StandbyAssumption, InstanceTypes DEF LeaseOK, Owns
  <2>4. \A j \in Instance \ {i} : ~Owns(j) BY <1>6, StandbyAssumption DEF Owns
  <2> QED BY <1>1, <1>2, <1>4, <2>2, <2>3, <2>4, LoopStep
<1> QED BY <1>5, <1>6

LEMMA SetNXKeeps == ASSUME LeaseInv, NEW i \in Instance, SetNX(i) PROVE LeaseInv'
<1>1. loop[i].pc \in Calling BY DEF SetNX, Calling
<1>2. CASE lock = Free
  <2>1. lock.owner = None BY <1>2 DEF Free
  <2>2. PICK r \in {"yes", "error"} : Answer(i, "setnxReply", r)
    BY <1>2 DEF SetNX, AnswerOrError
  <2>3. lock' = [owner |-> i, ttl |-> LockTTL] BY <1>2 DEF SetNX
  <2> QED BY <1>1, <2>1, <2>2, <2>3, AnswerKeeps DEF SetNX
<1>3. CASE lock # Free
  <2>1. PICK r \in {"no", "error"} : Answer(i, "setnxReply", r)
    BY <1>3 DEF SetNX, AnswerOrError
  <2> QED BY <1>1, <1>3, <2>1, AnswerKeeps DEF SetNX
<1> QED BY <1>2, <1>3

LEMMA RefreshKeeps == ASSUME LeaseInv, NEW i \in Instance, refreshIfMine(i) PROVE LeaseInv'
<1>1. loop[i].pc \in Calling BY DEF refreshIfMine, Calling
<1>2. CASE lock.owner = i
  <2>1. PICK r \in {"yes", "error"} : Answer(i, "refreshReply", r)
    BY <1>2 DEF refreshIfMine, AnswerOrError
  <2>2. lock' = [owner |-> i, ttl |-> LockTTL]
    BY <1>2, InstanceTypes DEF refreshIfMine
  <2> QED BY <1>1, <1>2, <2>1, <2>2, AnswerKeeps DEF refreshIfMine
<1>3. CASE lock.owner # i
  <2>1. PICK r \in {"no", "error"} : Answer(i, "refreshReply", r)
    BY <1>3 DEF refreshIfMine, AnswerOrError
  <2> QED BY <1>1, <1>3, <2>1, AnswerKeeps DEF refreshIfMine
<1> QED BY <1>2, <1>3

LEMMA UnreachableKeeps == ASSUME LeaseInv, NEW i \in Instance, Unreachable(i) PROVE LeaseInv'
<1>1. loop[i].pc \in Calling BY DEF Unreachable, Calling
<1>2. PICK pc \in {"setnxReply", "refreshReply"} : Answer(i, pc, "error") BY DEF Unreachable
<1> QED BY <1>1, <1>2, AnswerKeeps DEF Unreachable

LEMMA AcquireKeeps == ASSUME LeaseInv, NEW i \in Instance, tryAcquire(i) PROVE LeaseInv'
<1>1. loop[i].pc \in {"setnxReply", "refreshReply"} BY DEF tryAcquire
<1>2. CASE loop[i] = [pc |-> "setnxReply", reply |-> "no"]
  <2> DEFINE s == NoReply("refresh")
  <2>1. s \in State /\ s.pc = "refresh" /\ s.reply = None BY DEF State, NoReply, Calling
  <2>2. loop' = [loop EXCEPT ![i] = s] /\ UNCHANGED <<lock, age, isLeader>>
    BY <1>2 DEF tryAcquire
  <2> HIDE DEF s
  <2>3. loop'[i] = s BY <2>2, InstanceTypes
  <2>4. LoopOK(i)' BY <1>1, <2>1, <2>2, <2>3, InstanceTypes DEF LoopOK, Calling
  <2>5. LeaseOK(i)' BY <1>1, <2>1, <2>2, <2>3, StandbyAssumption, InstanceTypes DEF LeaseOK, Owns, Calling
  <2> QED BY <2>1, <2>2, <2>4, <2>5, InstanceTypes, LoopStep
<1>3. CASE loop[i] # [pc |-> "setnxReply", reply |-> "no"]
  <2> DEFINE s == NoReply("wait")
             b == loop[i].reply = "yes"
  <2>1. s \in State /\ s.pc = "wait" /\ s.reply = None BY DEF State, NoReply
  <2>2. /\ loop' = [loop EXCEPT ![i] = s] /\ UNCHANGED <<lock, age>>
        /\ isLeader' = [isLeader EXCEPT ![i] = b]
    BY <1>3 DEF tryAcquire
  <2>3. b => Owns(i) /\ lock.ttl + age[i] >= LockTTL BY InstanceTypes DEF LeaseOK
  <2>4. b \in BOOLEAN OBVIOUS
  <2> HIDE DEF s, b
  <2>5. loop'[i] = s /\ isLeader'[i] = b BY <2>2, InstanceTypes
  <2>6. LoopOK(i)' BY <2>1, <2>5 DEF LoopOK, Calling
  <2>7. LeaseOK(i)' BY <2>1, <2>2, <2>3, <2>5, StandbyAssumption DEF LeaseOK, Owns, Calling
  <2>8. age' = [age EXCEPT ![i] = age[i]] BY <2>2, InstanceTypes
  <2> QED BY <2>1, <2>2, <2>4, <2>6, <2>7, <2>8, InstanceTypes, InstanceStep
<1> QED BY <1>2, <1>3

\* An instance that no longer runs its loop has no lease to keep.
LEMMA EndKeeps ==
  ASSUME LeaseInv, NEW i \in Instance, NEW b \in BOOLEAN, NEW pc \in {"stopping", "stopped", "down"},
         loop' = [loop EXCEPT ![i] = NoReply(pc)], isLeader' = [isLeader EXCEPT ![i] = b],
         pc = "down" => ~b, UNCHANGED age,
         lock' = lock \/ (Owns(i) /\ lock' = Free)
  PROVE  LeaseInv'
<1> DEFINE s == NoReply(pc)
<1>1. s \in State /\ s.pc = pc /\ s.reply = None BY DEF State, NoReply
<1>2. loop' = [loop EXCEPT ![i] = s] OBVIOUS
<1> HIDE DEF s
<1>3. loop'[i] = s /\ isLeader'[i] = b BY <1>2, InstanceTypes
<1>4. LoopOK(i)' BY <1>1, <1>3 DEF LoopOK, Calling
<1>5. LeaseOK(i)' BY <1>1, <1>3, StandbyAssumption DEF LeaseOK, Calling
<1>6. age' = [age EXCEPT ![i] = age[i]] BY InstanceTypes
<1>7. /\ lock' \in [owner : Instance \cup {None}, ttl : 0 .. LockTTL]
      /\ lock'.owner = None <=> lock'.ttl = 0
  BY InstanceTypes, StandbyAssumption DEF Free
<1>8. lock' = lock \/ \A j \in Instance \ {i} : ~Owns(j) BY DEF Owns
<1> QED BY <1>1, <1>2, <1>4, <1>5, <1>6, <1>7, <1>8, InstanceTypes, InstanceStep

LEMMA StopKeeps ==
  ASSUME LeaseInv, NEW i \in Instance, StopLoop(i) \/ releaseIfMine(i) \/ Crash(i)
  PROVE  LeaseInv'
<1>1. CASE StopLoop(i)
  <2>1. isLeader' = [isLeader EXCEPT ![i] = isLeader[i]] BY <1>1, InstanceTypes DEF StopLoop
  <2> QED BY <1>1, <2>1, InstanceTypes, EndKeeps DEF StopLoop
<1>2. CASE releaseIfMine(i)
  <2>1. isLeader' = [isLeader EXCEPT ![i] = isLeader[i]] BY <1>2, InstanceTypes DEF releaseIfMine
  <2> QED BY <1>2, <2>1, InstanceTypes, EndKeeps DEF releaseIfMine, Owns
<1>3. CASE Crash(i) BY <1>3, EndKeeps DEF Crash
<1> QED BY <1>1, <1>2, <1>3

\* Time never outruns a lease: what a leader has left exceeds one second.
LEMMA TickKeeps == ASSUME LeaseInv, Tick PROVE LeaseInv'
<1>1. /\ lock' \in [owner : Instance \cup {None}, ttl : 0 .. LockTTL]
      /\ lock'.owner = None <=> lock'.ttl = 0
  BY StandbyAssumption DEF LeaseInv, TypeOK, Tick, Free
<1>2. ASSUME NEW i \in Instance
      PROVE  /\ age'[i] = (IF Live(i) THEN age[i] + 1 ELSE age[i]) /\ age'[i] \in 0 .. Heartbeat
             /\ LoopOK(i)' /\ LeaseOK(i)'
  <2>1. /\ loop'[i] = loop[i] /\ isLeader'[i] = isLeader[i]
        /\ age'[i] = IF Live(i) THEN age[i] + 1 ELSE age[i]
    BY DEF Tick
  <2>2. loop[i].pc = "wait" => age[i] < Heartbeat BY DEF Tick
  <2>3. loop[i].pc \in Calling => age[i] < MaxLatency BY DEF Tick
  <2>4. Live(i) <=> loop[i].pc = "wait" \/ loop[i].pc \in Calling
    BY InstanceTypes DEF Live, State, Calling
  <2>5. age'[i] \in 0 .. Heartbeat BY <2>1, <2>2, <2>3, <2>4, InstanceTypes, StandbyAssumption
  <2>6. LoopOK(i)' BY <2>1, <2>3, <2>4, InstanceTypes, StandbyAssumption DEF LoopOK
  <2>7. lock.ttl > 1 => lock'.owner = lock.owner /\ lock'.ttl = lock.ttl - 1
    BY InstanceTypes, StandbyAssumption DEF Tick
  <2>8. loop[i].reply = "yes" => loop[i].pc \in Calling
    BY InstanceTypes, StandbyAssumption DEF LoopOK, Calling
  <2>9. LeaseOK(i)'
    BY <2>1, <2>2, <2>3, <2>4, <2>7, <2>8, InstanceTypes, StandbyAssumption DEF LeaseOK, Owns
  <2> QED BY <2>1, <2>5, <2>6, <2>9
<1>3. TypeOK'
  <2>1. age' \in [Instance -> 0 .. Heartbeat] BY <1>2 DEF Tick
  <2> QED BY <1>1, <2>1 DEF LeaseInv, TypeOK, Tick
<1> QED BY <1>2, <1>3 DEF LeaseInv

LEMMA StandbyNext == LeaseInv /\ [Next]_vars => LeaseInv'
<1>1. ASSUME LeaseInv, UNCHANGED vars PROVE LeaseInv'
  BY <1>1 DEF LeaseInv, LoopOK, LeaseOK, Owns, TypeOK, vars
<1> QED
  BY <1>1, StartKeeps, BeatKeeps, SetNXKeeps, RefreshKeeps, AcquireKeeps, StopKeeps,
     UnreachableKeeps, TickKeeps
  DEF Next, Work, Trouble

LEMMA LeaseInvAlways == Spec => []LeaseInv
BY StandbyInit, StandbyNext, PTL DEF Spec

\* The election (tryAcquire, Stop and the two scripts) is type correct, and the
\* lock has an owner exactly while it has time to live.
THEOREM ElectionTypes == Spec => []TypeOK
<1>1. LeaseInv => TypeOK BY DEF LeaseInv
<1> QED BY <1>1, LeaseInvAlways, PTL

\* There are never two leaders, for any number of instances: what tryAcquire
\* cached in isLeader is withdrawn before the Redis lock expires.
THEOREM OneLeader == Spec => []LeadersExclusive
<1>1. LeaseInv => LeadersExclusive
  <2> SUFFICES ASSUME LeaseInv, NEW i \in Instance, NEW j \in Instance,
                      isLeader[i], isLeader[j], Live(i), Live(j)
               PROVE  i = j
    BY DEF LeadersExclusive
  <2>1. ASSUME NEW k \in Instance, isLeader[k], Live(k) PROVE Owns(k)
    <3>1. loop[k].pc = "wait" \/ loop[k].pc \in Calling
      BY <2>1, InstanceTypes DEF Live, State, Calling
    <3> QED BY <2>1, <3>1, InstanceTypes DEF LeaseOK
  <2> QED BY <2>1 DEF Owns
<1> QED BY <1>1, LeaseInvAlways, PTL

\* Nobody loses the lock but by expiry or by its own release: SET NX leaves a
\* taken lock alone, and the scripts check whose it is.
THEOREM NoLockStolen == Spec => LockNotStolen
<1> DEFINE A == lock.owner # None /\ lock'.owner # lock.owner
                  => \/ lock.ttl = 1 /\ Tick
                     \/ \E i \in Instance : lock.owner = i /\ releaseIfMine(i)
<1>1. LeaseInv /\ [Next]_vars => [A]_vars
  <2> SUFFICES ASSUME LeaseInv, Next, lock.owner # None, lock'.owner # lock.owner
               PROVE  \/ lock.ttl = 1 /\ Tick
                      \/ \E i \in Instance : lock.owner = i /\ releaseIfMine(i)
    OBVIOUS
  <2>1. CASE Tick
    <3>1. /\ lock \in [owner : Instance \cup {None}, ttl : 0 .. LockTTL]
          /\ lock.owner = None <=> lock.ttl = 0
      BY DEF LeaseInv, TypeOK
    <3>2. lock.ttl > 1 => lock'.owner = lock.owner BY <2>1, <3>1, StandbyAssumption DEF Tick
    <3> QED BY <2>1, <3>1, <3>2, StandbyAssumption
  <2>2. ASSUME NEW i \in Instance, SetNX(i) PROVE FALSE
    BY <2>2 DEF SetNX, Free
  <2>3. ASSUME NEW i \in Instance, refreshIfMine(i) PROVE FALSE
    BY <2>3 DEF refreshIfMine, LeaseInv, TypeOK
  <2>4. ASSUME NEW i \in Instance, releaseIfMine(i)
        PROVE  lock.owner = i
    BY <2>4 DEF releaseIfMine
  <2> QED
    BY <2>1, <2>2, <2>3, <2>4
    DEF Next, Work, Trouble, Start, Beat, tryAcquire, StopLoop, Crash, Unreachable
<1> QED BY <1>1, LeaseInvAlways, PTL DEF Spec, LockNotStolen
=============================================================================
