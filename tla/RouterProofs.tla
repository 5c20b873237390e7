---------------------------- MODULE RouterProofs ----------------------------
(***************************************************************************)
(* Proofs about the router for every number of messages, groups, pools,    *)
(* consumers and goroutines: it is type correct, and the two maps of the   *)
(* in-flight tracker agree.  RouterDrainProofs builds on them.             *)
(***************************************************************************)
EXTENDS Router, SequenceTheorems, TLAPS

-----------------------------------------------------------------------------
(* What typing rests on: which fields are set at which program counter.      *)

InRoute == {"register", "kick", "ackDup", "resolve", "submit", "immediate", "enqueue", "count", "drain"}

LoopOK(r) ==
  /\ r \in PollLoop
  /\ r.pc \in InRoute => r.batch # << >>
  /\ r.pc \in {"submit", "immediate", "enqueue", "count", "drain"} => r.pool \in Pool

Holding == {"dec", "acquire", "park", "proc", "dupAck", "mediate",
            "ackRead", "ackSend", "ackRemove", "requeue"}

RoutineOK(r) ==
  /\ r \in Routine
  /\ r.pc # "off" => r.pool \in Pool /\ r.ctx \in Consumer
  /\ r.pc \in {"top", "park", "parkCount", "clear", "requeue"} => r.group \in Group
  /\ r.pc \in Holding => r.msg \in Copy
  /\ r.pc # "off" /\ r.group = None => r.msg \in Copy
  /\ r.pc = "ackSend" => r.rh \in Handle

LoopsOK == cons \in [Consumer -> PollLoop] /\ \A c \in Consumer : LoopOK(cons[c])

RoutinesOK == go \in [Worker -> Routine] /\ \A w \in Worker : RoutineOK(go[w])

\* The pools being stopped are pool objects, and the one at hand has its flag up.
StoppingOK ==
  /\ \A k \in mgr.todo : pools[k] \in Pool
  /\ mgr.pool # None => stopped[mgr.pool]
  /\ mgr.left # {} => mgr.pool # None

\* A message index names a live entry, of the same application message.
TrackerOK(t) ==
  /\ t \in Tracker
  /\ \A m \in Message : t.byMessage[m] # None =>
       t.byBroker[t.byMessage[m]] # None /\ AppId[t.byMessage[m][1]] = m

Messages == broker \in [Broker -> Delivery]

Queues == groupQs \in [Pool -> [Group -> groupQueue]]

Counters == queueSize \in [Pool -> 0 .. (U32 - 1)]

ManagerOK ==
  /\ stopped \in [Pool -> BOOLEAN]
  /\ pools \in [Code -> Pool \cup {None}]
  /\ mgr \in Stopping
  /\ current \in Consumer \cup {None}
  /\ ctxDone \in [Consumer -> BOOLEAN]
  /\ stall \in BrokerId \cup {None}
  /\ settled \in SUBSET Message
  /\ StoppingOK

\* The inductive strengthening of TypeOK.
Sound ==
  /\ Messages
  /\ TrackerOK(tracker)
  /\ Queues
  /\ Counters
  /\ ManagerOK
  /\ LoopsOK
  /\ RoutinesOK

-----------------------------------------------------------------------------
(* The tracker's operations preserve TrackerOK.                              *)

LEMMA TrackerFields ==
  ASSUME NEW t, TrackerOK(t)
  PROVE  /\ t.byBroker \in [BrokerId -> Entry \cup {None}]
         /\ t.byMessage \in [Message -> BrokerId \cup {None}]
         /\ \A m \in Message : t.byMessage[m] # None =>
              /\ t.byMessage[m] \in BrokerId
              /\ t.byBroker[t.byMessage[m]] \in Entry
              /\ AppId[t.byMessage[m][1]] = m
BY DEF TrackerOK, Tracker

\* Updating or dropping an entry, with the index following.
LEMMA TrackerBuilt ==
  ASSUME NEW bb \in [BrokerId -> Entry \cup {None}],
         NEW bm \in [Message -> BrokerId \cup {None}],
         \A m \in Message : bm[m] # None => bb[bm[m]] # None /\ AppId[bm[m][1]] = m
  PROVE  TrackerOK([byBroker |-> bb, byMessage |-> bm])
BY DEF TrackerOK, Tracker

LEMMA CopyFields ==
  ASSUME NEW x \in Copy
  PROVE  x.id \in BrokerId /\ x.id[1] \in Broker /\ x.receipt \in Handle /\ Msg(x) \in Message
BY TrackerAssumption DEF Copy, BrokerId, Msg

LEMMA InsertOK ==
  ASSUME NEW t, TrackerOK(t), NEW x \in Copy
  PROVE  TrackerOK(Insert(t, x))
<1> DEFINE e == [receipt |-> x.receipt, retrying |-> FALSE, fresh |-> TRUE]
           bb == [t.byBroker EXCEPT ![x.id] = e]
           bm == [t.byMessage EXCEPT ![Msg(x)] = x.id]
<1>0. e \in Entry
  BY CopyFields DEF Entry
<1> HIDE DEF e
<1>1. e \in Entry /\ e # None
  BY <1>0, TrackerAssumption
<1>2. bb \in [BrokerId -> Entry \cup {None}] /\ bm \in [Message -> BrokerId \cup {None}]
  BY <1>1, CopyFields, TrackerFields
<1>3. ASSUME NEW m \in Message, bm[m] # None
      PROVE  bb[bm[m]] # None /\ AppId[bm[m][1]] = m
  <2>1. CASE m = Msg(x)
    BY <2>1, <1>1, CopyFields, TrackerFields DEF Msg
  <2>2. CASE m # Msg(x)
    BY <2>2, <1>1, <1>3, CopyFields, TrackerFields, TrackerAssumption
  <2> QED BY <2>1, <2>2
<1>4. TrackerOK([byBroker |-> bb, byMessage |-> bm])
  <2> HIDE DEF bb, bm
  <2> QED BY <1>2, <1>3, TrackerBuilt
<1> QED BY <1>4 DEF Insert, e

\* Replacing a live entry by another entry.
LEMMA ReplaceOK ==
  ASSUME NEW t, TrackerOK(t), NEW i \in BrokerId, NEW e \in Entry
  PROVE  TrackerOK([byBroker |-> [t.byBroker EXCEPT ![i] = e], byMessage |-> t.byMessage])
<1> DEFINE bb == [t.byBroker EXCEPT ![i] = e]
<1>1. e # None BY TrackerAssumption
<1>2. bb \in [BrokerId -> Entry \cup {None}] BY TrackerFields
<1>3. \A m \in Message : t.byMessage[m] # None =>
        bb[t.byMessage[m]] # None /\ AppId[t.byMessage[m][1]] = m
  BY <1>1, TrackerFields, TrackerAssumption
<1> HIDE DEF bb
<1>4. t.byMessage \in [Message -> BrokerId \cup {None}] BY TrackerFields
<1>5. TrackerOK([byBroker |-> bb, byMessage |-> t.byMessage])
  BY <1>2, <1>3, <1>4, TrackerBuilt
<1> QED BY <1>5 DEF bb

LEMMA SwapOK ==
  ASSUME NEW t, TrackerOK(t), NEW x \in Copy, t.byBroker[x.id] # None
  PROVE  TrackerOK(Swap(t, x))
<1>1. t.byBroker[x.id] \in Entry BY CopyFields, TrackerFields
<1>2. [receipt |-> x.receipt, retrying |-> t.byBroker[x.id].retrying, fresh |-> TRUE] \in Entry
  BY <1>1, CopyFields DEF Entry
<1> QED BY <1>2, ReplaceOK, CopyFields DEF Swap

LEMMA RegisterOK ==
  ASSUME NEW t, TrackerOK(t), NEW x \in Copy
  PROVE  TrackerOK(Register(t, x))
BY SwapOK, InsertOK DEF Register, RegisterOutcome

LEMMA EnsureTrackedIsOK ==
  ASSUME NEW t, TrackerOK(t), NEW x \in Copy
  PROVE  TrackerOK(EnsureTracked(t, x))
BY InsertOK DEF EnsureTracked

LEMMA MarkRetryingOK ==
  ASSUME NEW t, TrackerOK(t), NEW x \in Copy
  PROVE  TrackerOK(MarkRetrying(t, x))
<1> DEFINE owner == IF t.byMessage[Msg(x)] # None THEN t.byMessage[Msg(x)] ELSE x.id
           e == [receipt |-> t.byBroker[owner].receipt, retrying |-> TRUE,
                 fresh |-> t.byBroker[owner].fresh]
<1>1. owner \in BrokerId BY CopyFields, TrackerFields
<1>2. CASE t.byBroker[owner] = None BY <1>2 DEF MarkRetrying
<1>3. CASE t.byBroker[owner] # None
  <2>1. t.byBroker[owner] \in Entry
    <3> HIDE DEF owner
    <3> QED BY <1>1, <1>3, TrackerFields
  <2>2. e \in Entry
    <3> HIDE DEF owner
    <3> QED BY <2>1 DEF Entry
  <2>3. MarkRetrying(t, x) = [byBroker |-> [t.byBroker EXCEPT ![owner] = e], byMessage |-> t.byMessage]
    BY <1>3 DEF MarkRetrying
  <2> HIDE DEF owner, e
  <2> QED BY <1>1, <2>2, <2>3, ReplaceOK
<1> QED BY <1>2, <1>3

LEMMA RemoveOK ==
  ASSUME NEW t, TrackerOK(t), NEW x, x.id \in BrokerId
  PROVE  TrackerOK(Remove(t, x))
<1> DEFINE bb == [t.byBroker EXCEPT ![x.id] = None]
           bm == [t.byMessage EXCEPT ![Msg(x)] = None]
<1>0. Msg(x) \in Message BY TrackerAssumption DEF Msg, BrokerId
<1>2. bb \in [BrokerId -> Entry \cup {None}] /\ bm \in [Message -> BrokerId \cup {None}]
  BY <1>0, TrackerFields
<1>3. ASSUME NEW m \in Message, bm[m] # None
      PROVE  bb[bm[m]] # None /\ AppId[bm[m][1]] = m
  <2>1. m # Msg(x) /\ bm[m] = t.byMessage[m] BY <1>0, <1>3, TrackerFields
  <2>2. t.byMessage[m] # x.id BY <2>1, <1>3, TrackerFields DEF Msg
  <2> QED BY <2>1, <2>2, <1>3, TrackerFields, TrackerAssumption
<1> HIDE DEF bb, bm
<1>4. TrackerOK([byBroker |-> bb, byMessage |-> bm]) BY <1>2, <1>3, TrackerBuilt
<1> QED BY <1>4 DEF Remove, bb, bm

LEMMA ReapOK ==
  ASSUME NEW t, TrackerOK(t)
  PROVE  TrackerOK(Reap(t))
<1> DEFINE Old(m) == LET i == t.byMessage[m] IN
                     i # None /\ ~t.byBroker[i].retrying /\ ~t.byBroker[i].fresh
           bm == [m \in Message |-> IF Old(m) THEN None ELSE t.byMessage[m]]
           bb == [i \in BrokerId |-> IF bm[AppId[i[1]]] = i THEN t.byBroker[i] ELSE None]
<1>1. bm \in [Message -> BrokerId \cup {None}] BY TrackerFields
<1>2. bb \in [BrokerId -> Entry \cup {None}] BY TrackerFields
<1>3. ASSUME NEW m \in Message, bm[m] # None
      PROVE  bb[bm[m]] # None /\ AppId[bm[m][1]] = m
  <2>1. bm[m] = t.byMessage[m] BY <1>3
  <2>2. /\ bm[m] \in BrokerId /\ t.byBroker[bm[m]] \in Entry /\ AppId[bm[m][1]] = m
    BY <2>1, <1>3, TrackerFields
  <2> HIDE DEF bm
  <2> QED BY <2>2, TrackerAssumption
<1>4. TrackerOK([byBroker |-> bb, byMessage |-> bm])
  <2> HIDE DEF bb, bm
  <2> QED BY <1>1, <1>2, <1>3, TrackerBuilt
<1> QED BY Zenon, <1>4 DEF Reap

LEMMA StaleOK ==
  ASSUME NEW t, TrackerOK(t)
  PROVE  TrackerOK(Stale(t))
<1> DEFINE e(i) == [receipt |-> t.byBroker[i].receipt, retrying |-> t.byBroker[i].retrying,
                    fresh |-> FALSE]
           bb == [i \in BrokerId |-> IF t.byBroker[i] = None THEN None ELSE e(i)]
<1>1. \A i \in BrokerId : t.byBroker[i] # None => e(i) \in Entry
  BY TrackerFields DEF Entry
<1> HIDE DEF e
<1>2. bb \in [BrokerId -> Entry \cup {None}] BY <1>1, TrackerFields
<1>3. \A m \in Message : t.byMessage[m] # None =>
        bb[t.byMessage[m]] # None /\ AppId[t.byMessage[m][1]] = m
  BY <1>1, TrackerFields, TrackerAssumption
<1>4. t.byMessage \in [Message -> BrokerId \cup {None}] BY TrackerFields
<1>5. TrackerOK([byBroker |-> bb, byMessage |-> t.byMessage])
  <2> HIDE DEF bb
  <2> QED BY <1>2, <1>3, <1>4, TrackerBuilt
<1> QED BY <1>5 DEF Stale, e

LEMMA CurrentReceiptOK ==
  ASSUME NEW t, TrackerOK(t), NEW x \in Copy
  PROVE  CurrentReceipt(t, x) \in Handle
BY CopyFields, TrackerFields DEF CurrentReceipt, Entry

-----------------------------------------------------------------------------
(* Updates of poll loops, goroutines, queues, counters and broker messages.  *)

LEMMA SetLoop ==
  ASSUME LoopsOK, NEW c \in Consumer, NEW r, LoopOK(r), cons' = [cons EXCEPT ![c] = r]
  PROVE  LoopsOK'
BY DEF LoopsOK, LoopOK

LEMMA StepLoop ==
  ASSUME LoopsOK, NEW c \in Consumer, NEW pc \in InRoute, cons[c].pc \in InRoute,
         pc \in {"submit", "immediate", "enqueue", "count", "drain"} => cons[c].pool \in Pool,
         Step(c, pc)
  PROVE  LoopsOK'
<1> DEFINE r == [cons[c] EXCEPT !.pc = pc]
<1>1. cons[c] \in PollLoop /\ cons[c].batch # << >> BY DEF LoopsOK, LoopOK
<1>2. pc \in ConsumerPC BY DEF InRoute, ConsumerPC
<1>3. LoopOK(r) BY <1>1, <1>2 DEF LoopOK, PollLoop
<1>4. cons' = [cons EXCEPT ![c] = r] BY DEF Step
<1> HIDE DEF r
<1> QED BY Zenon, <1>3, <1>4, SetLoop

LEMMA NextMsgLoop ==
  ASSUME LoopsOK, NEW c \in Consumer, cons[c].pc \in InRoute, NextMsg(c)
  PROVE  LoopsOK'
<1> DEFINE s == cons[c].batch
           r == [pc |-> IF Len(s) = 1 THEN "poll" ELSE "register", batch |-> Tail(s), pool |-> None]
<1>1. s \in Seq(Copy) /\ s # << >> BY DEF LoopsOK, LoopOK, PollLoop
<1>2. Tail(s) \in Seq(Copy) /\ (Len(s) # 1 => Tail(s) # << >>)
  <2> HIDE DEF s
  <2>1. Tail(s) \in Seq(Copy) /\ Len(Tail(s)) = Len(s) - 1 /\ Len(s) \in Nat BY <1>1
  <2>2. Len(s) # 1 => Len(Tail(s)) # 0 BY <2>1
  <2>3. Tail(s) = << >> => Len(Tail(s)) = 0 BY <2>1
  <2> QED BY <2>1, <2>2, <2>3
<1>3. LoopOK(r)
  <2> HIDE DEF s
  <2> QED BY <1>2 DEF LoopOK, PollLoop, ConsumerPC, InRoute
<1>4. cons' = [cons EXCEPT ![c] = r] BY DEF NextMsg
<1> HIDE DEF r
<1> QED BY Zenon, <1>3, <1>4, SetLoop

LEMMA HeadIsCopy ==
  ASSUME LoopsOK, NEW c \in Consumer, cons[c].pc \in InRoute
  PROVE  Head(cons[c].batch) \in Copy
BY DEF LoopsOK, LoopOK, PollLoop

LEMMA SetRoutine ==
  ASSUME RoutinesOK, NEW w \in Worker, NEW r, RoutineOK(r), go' = [go EXCEPT ![w] = r]
  PROVE  RoutinesOK'
BY DEF RoutinesOK, RoutineOK

LEMMA ExitOK ==
  ASSUME RoutinesOK, NEW w \in Worker, Exit(w)
  PROVE  RoutinesOK'
<1>1. RoutineOK(Off) BY DEF RoutineOK, Off, Routine, WorkerPC, Holding
<1> QED BY Zenon, <1>1, SetRoutine DEF Exit

LEMMA SpawnOK ==
  ASSUME RoutinesOK, NEW r, RoutineOK(r), Spawn(r)
  PROVE  RoutinesOK'
BY Zenon, SetRoutine DEF Spawn

LEMMA GotoOK ==
  ASSUME RoutinesOK, NEW w \in Worker, go[w].pc # "off", NEW pc \in WorkerPC,
         pc \in {"top", "park", "parkCount", "clear", "requeue"} => go[w].group \in Group,
         pc \in Holding => go[w].msg \in Copy,
         pc # "ackSend",
         Goto(w, pc)
  PROVE  RoutinesOK'
<1> DEFINE r == [go[w] EXCEPT !.pc = pc]
<1>1. RoutineOK(go[w]) BY DEF RoutinesOK
<1>2. RoutineOK(r) BY <1>1 DEF RoutineOK, Routine
<1>3. go' = [go EXCEPT ![w] = r] BY DEF Goto
<1> HIDE DEF r
<1> QED BY Zenon, <1>2, <1>3, SetRoutine

LEMMA DoneOK ==
  ASSUME RoutinesOK, NEW w \in Worker, go[w].pc # "off", Done(w)
  PROVE  RoutinesOK'
<1>1. RoutineOK(go[w]) BY DEF RoutinesOK
<1>2. CASE IsImmediate(w)
  BY Zenon, <1>2, ExitOK DEF Done, Exit
<1>3. CASE ~IsImmediate(w)
  <2> DEFINE r == [go[w] EXCEPT !.pc = "top", !.msg = None, !.rh = None]
  <2>1. go[w].group \in Group BY <1>1, <1>3 DEF RoutineOK, Routine, IsImmediate
  <2>2. RoutineOK(r)
    <3>1. "top" \in WorkerPC BY DEF WorkerPC
    <3> QED BY Zenon, <1>1, <2>1, <3>1, RouterAssumption DEF RoutineOK, Routine, Holding
  <2>3. go' = [go EXCEPT ![w] = r] BY <1>3 DEF Done
  <2> HIDE DEF r
  <2> QED BY Zenon, <2>2, <2>3, SetRoutine
<1> QED BY <1>2, <1>3

LEMMA SetQueue ==
  ASSUME Queues, NEW p \in Pool, NEW g \in Group, NEW q \in groupQueue,
         groupQs' = [groupQs EXCEPT ![p][g] = q]
  PROVE  Queues'
BY DEF Queues

LEMMA PutOK ==
  ASSUME Queues, NEW p \in Pool, NEW g \in Group, NEW s \in Seq(Copy), Put(p, g, s)
  PROVE  Queues'
<1> DEFINE q == [groupQs[p][g] EXCEPT !.present = TRUE, !.msgs = s]
<1>1. groupQs[p][g] \in groupQueue BY DEF Queues
<1>2. q \in groupQueue BY Zenon, <1>1 DEF groupQueue
<1>3. groupQs' = [groupQs EXCEPT ![p][g] = q] BY Zenon DEF Put, Queues
<1> HIDE DEF q
<1> QED BY Zenon, <1>2, <1>3, SetQueue

LEMMA TryDrainOK ==
  ASSUME Queues, RoutinesOK, NEW p \in Pool, NEW g \in Group, NEW c \in Consumer,
         tryDrainGroup(p, g, c)
  PROVE  Queues' /\ RoutinesOK'
<1> DEFINE r == Goroutine("top", p, g, c, None)
           q == [groupQs[p][g] EXCEPT !.working = TRUE]
<1>1. CASE UNCHANGED <<groupQs, go>>
  BY <1>1 DEF Queues, RoutinesOK
<1>2. CASE groupQs' = [groupQs EXCEPT ![p][g].working = TRUE] /\ Spawn(r)
  <2>1. groupQs[p][g] \in groupQueue BY DEF Queues
  <2>2. q \in groupQueue BY Zenon, <2>1 DEF groupQueue
  <2>3. groupQs' = [groupQs EXCEPT ![p][g] = q] BY <1>2 DEF Queues
  <2>4. Queues'
    <3> HIDE DEF q
    <3> QED BY Zenon, <2>2, <2>3, SetQueue
  <2>5. RoutineOK(r)
    <3>1. "top" \in WorkerPC BY DEF WorkerPC
    <3> QED BY <3>1, RouterAssumption DEF RoutineOK, Goroutine, Routine, Holding
  <2>6. RoutinesOK'
    <3> HIDE DEF r
    <3> QED BY <1>2, <2>5, SpawnOK
  <2> QED BY <2>4, <2>6
<1> QED BY <1>1, <1>2 DEF tryDrainGroup

LEMMA IncOK ==
  ASSUME Counters, NEW p \in Pool, Inc(p) \/ Dec(p)
  PROVE  Counters'
<1>1. U32 \in Nat /\ U32 > 0 BY RouterAssumption
<1>2. queueSize[p] \in 0 .. (U32 - 1) BY DEF Counters
<1>3. (queueSize[p] + 1) % U32 \in 0 .. (U32 - 1) /\ (queueSize[p] + U32 - 1) % U32 \in 0 .. (U32 - 1)
  BY <1>1, <1>2
<1> QED BY <1>3 DEF Counters, Inc, Dec

LEMMA AckOK ==
  ASSUME Messages, NEW h \in Handle, NEW a \in Consumer, NEW c, Ack(a, h, c)
  PROVE  Messages'
<1>1. h[1] \in Broker BY DEF Handle
<1>2. Gone \in Delivery BY DEF Gone, Delivery
<1>3. [broker[h[1]] EXCEPT !.pendingDelete = @ \cup {a}] \in Delivery BY <1>1 DEF Messages, Delivery
<1> QED BY <1>1, <1>2, <1>3 DEF Messages, Ack

LEMMA DeliveredOK ==
  ASSUME NEW b \in Broker, HandleFree(b)
  PROVE  FreshHandle(b) \in Handle /\ Delivered(b) \in Copy
<1>1. FreshHandle(b) \in Handle BY DEF FreshHandle, HandleFree, Handle
<1>2. IdOf(FreshHandle(b)) \in BrokerId
  BY <1>1, TrackerAssumption DEF IdOf, Handle, BrokerId
<1> QED BY <1>1, <1>2 DEF Delivered, Copy

-----------------------------------------------------------------------------
(* Sound holds initially and is preserved by every step.                     *)

LEMMA SoundInit == Init => Sound
<1> SUFFICES ASSUME Init PROVE Sound
  OBVIOUS
<1>1. Messages BY DEF Init, Messages, Delivery
<1>2. TrackerOK(tracker) BY DEF Init, TrackerOK, Tracker, NewInFlightTracker
<1>3. Queues BY DEF Init, Queues, groupQueue, NoQueue
<1>4. Counters BY RouterAssumption DEF Init, Counters
<1>5. ManagerOK BY DEF Init, ManagerOK, StoppingOK, Stopping, NoStop
<1>6. LoopsOK BY DEF Init, LoopsOK, LoopOK, PollLoop, Loop, ConsumerPC, InRoute
<1>7. RoutinesOK BY DEF Init, RoutinesOK, RoutineOK, Routine, Off, WorkerPC, Holding
<1> QED BY <1>1, <1>2, <1>3, <1>4, <1>5, <1>6, <1>7 DEF Sound

LEMMA SoundTypes == Sound => TypeOK
BY DEF Sound, TypeOK, Messages, TrackerOK, Queues, Counters, ManagerOK, LoopsOK, RoutinesOK

LEMMA ManagerFrame ==
  ASSUME ManagerOK, UNCHANGED <<stopped, mgrVars, stall>>, settled' \in SUBSET Message
  PROVE  ManagerOK'
BY DEF ManagerOK, StoppingOK, mgrVars

\* Every part of the state is as before or sound again.
LEMMA SoundFrame ==
  ASSUME Sound, ManagerOK',
         UNCHANGED broker \/ Messages', UNCHANGED tracker \/ TrackerOK(tracker'),
         UNCHANGED groupQs \/ Queues', UNCHANGED queueSize \/ Counters',
         UNCHANGED cons \/ LoopsOK', UNCHANGED go \/ RoutinesOK'
  PROVE  Sound'
BY DEF Sound, Messages, Queues, Counters, LoopsOK, RoutinesOK

LEMMA SoundPoll ==
  ASSUME Sound, NEW c \in Consumer, Poll(c)
  PROVE  Sound'
<1>1. PICK n \in 1 .. MaxPoll :
        \E s \in [1 .. n -> {b \in Broker : broker[b].st = "visible" /\ HandleFree(b)}] :
          /\ cons' = [cons EXCEPT ![c].pc = "register",
                                  ![c].batch = [i \in 1 .. n |-> Delivered(s[i])]]
          /\ broker' = [b \in Broker |->
               IF b \in Elems(s)
               THEN [st |-> "leased", receipt |-> FreshHandle(b),
                     pendingDelete |-> broker[b].pendingDelete \ {c}]
               ELSE broker[b]]
  BY Zenon DEF Poll
<1>2. PICK s \in [1 .. n -> {b \in Broker : broker[b].st = "visible" /\ HandleFree(b)}] :
          /\ cons' = [cons EXCEPT ![c].pc = "register",
                                  ![c].batch = [i \in 1 .. n |-> Delivered(s[i])]]
          /\ broker' = [b \in Broker |->
               IF b \in Elems(s)
               THEN [st |-> "leased", receipt |-> FreshHandle(b),
                     pendingDelete |-> broker[b].pendingDelete \ {c}]
               ELSE broker[b]]
  BY Zenon, <1>1
<1>3. n \in Nat /\ n > 0 BY RouterAssumption
<1>4. Messages'
  <2>1. ASSUME NEW b \in Elems(s) PROVE b \in Broker /\ FreshHandle(b) \in Handle
    <3>1. Len(s) = n BY <1>3, LenProperties
    <3>2. PICK i \in 1 .. n : b = s[i] BY <3>1 DEF Elems
    <3>3. s[i] \in Broker /\ HandleFree(s[i]) BY <1>2
    <3> QED BY <3>2, <3>3, DeliveredOK
  <2>2. \A b \in Elems(s) : [st |-> "leased", receipt |-> FreshHandle(b),
                              pendingDelete |-> broker[b].pendingDelete \ {c}] \in Delivery
    BY <2>1 DEF Delivery, Messages, Sound
  <2> QED BY <1>2, <2>2 DEF Messages, Sound
<1>5. LoopsOK'
  <2> DEFINE t == [i \in 1 .. n |-> Delivered(s[i])]
             r == [cons[c] EXCEPT !.pc = "register", !.batch = t]
  <2>1. \A i \in 1 .. n : Delivered(s[i]) \in Copy BY DeliveredOK
  <2>2. t \in Seq(Copy) /\ t # << >>
    <3>1. t \in [1 .. n -> Copy] BY <2>1
    <3>2. t \in Seq(Copy) BY <3>1, <1>3, IsASeq
    <3>3. t[1] \in Copy BY <3>1, <1>3
    <3>4. DOMAIN t = 1 .. n /\ 1 \in 1 .. n BY <1>3
    <3> QED BY <3>2, <3>4, EmptySeq
  <2> HIDE DEF t
  <2>3. cons[c] \in PollLoop BY DEF Sound, LoopsOK
  <2>4. LoopOK(r) BY Zenon, <2>2, <2>3 DEF LoopOK, PollLoop, ConsumerPC, InRoute
  <2>5. cons' = [cons EXCEPT ![c] = r] BY Zenon, <1>2 DEF t
  <2> HIDE DEF r
  <2> QED BY Zenon, <2>4, <2>5, SetLoop DEF Sound
<1>6. ManagerOK' BY ManagerFrame DEF Sound, Poll, poolVars, ManagerOK
<1> QED BY <1>4, <1>5, <1>6, SoundFrame DEF Poll, poolVars

\* A copy that leaves the pipeline while it is being routed.
LEMMA ReleaseOK ==
  ASSUME Sound, NEW c \in Consumer, cons[c].pc \in InRoute, Release(c)
  PROVE  TrackerOK(tracker') /\ LoopsOK'
<1>1. Head(cons[c].batch).id \in BrokerId BY HeadIsCopy, CopyFields DEF Sound
<1> QED BY <1>1, RemoveOK, NextMsgLoop DEF Release, Sound

LEMMA SoundConsumer ==
  ASSUME Sound, NEW c \in Consumer, RunConsumer(c)
  PROVE  Sound'
<1> DEFINE x == Head(cons[c].batch)
<1>a. cons[c].pc \in InRoute
  BY Zenon DEF RunConsumer, RegisterCopy, Kick, AckExternalRequeue, Resolve, Submit, StartImmediate, Enqueue,
         CountEnqueued, StartDrain, InRoute
<1>b. x \in Copy BY <1>a, HeadIsCopy DEF Sound
<1>c. GroupId[Msg(x)] \in Group /\ Msg(x) \in Message
  BY <1>b, CopyFields, RouterAssumption
<1>d. \A pc \in {"kick", "ackDup", "resolve", "submit", "immediate", "enqueue", "count", "drain"} : pc \in InRoute
  BY DEF InRoute
<1>e. cons[c].pc \in {"submit", "immediate", "enqueue", "count", "drain"} => cons[c].pool \in Pool
  BY DEF Sound, LoopsOK, LoopOK
<1>f. ManagerOK'
  <2>1. UNCHANGED <<stopped, mgrVars, stall, settled>>
    BY Zenon DEF RunConsumer, RegisterCopy, Kick, AckExternalRequeue, Resolve, Submit, StartImmediate, Enqueue,
           CountEnqueued, StartDrain, poolVars
  <2> QED BY <2>1, ManagerFrame DEF Sound, ManagerOK
<1> HIDE DEF x
<1>g. ASSUME NEW pc \in {"submit", "drain"}, NEW p \in Pool,
             cons' = [cons EXCEPT ![c].pc = pc, ![c].pool = p]
      PROVE  LoopsOK'
  <2> DEFINE r == [cons[c] EXCEPT !.pc = pc, !.pool = p]
  <2>1. LoopOK(cons[c]) BY DEF Sound, LoopsOK
  <2>2. LoopOK(r)
    <3>1. pc \in ConsumerPC BY DEF ConsumerPC
    <3> QED BY Zenon, <2>1, <1>a, <3>1 DEF LoopOK, PollLoop, InRoute
  <2>3. cons' = [cons EXCEPT ![c] = r] BY Zenon, <1>g
  <2> HIDE DEF r
  <2> QED BY Zenon, <2>2, <2>3, SetLoop DEF Sound
<1>1. CASE RegisterCopy(c)
  <2>1. TrackerOK(tracker') BY <1>1, <1>b, RegisterOK DEF RegisterCopy, x, Sound
  <2>2. LoopsOK'
    <3>1. \/ Step(c, "resolve") \/ Step(c, "ackDup") \/ Step(c, "kick") \/ NextMsg(c)
      BY Zenon, <1>1 DEF RegisterCopy, RegisterOutcome
    <3> QED BY <3>1, <1>a, <1>d, StepLoop, NextMsgLoop DEF Sound
  <2>u. UNCHANGED <<broker, groupQs, queueSize, go>> BY Zenon, <1>1 DEF RegisterCopy, poolVars
  <2> QED BY Zenon, <2>1, <2>2, <1>f, <2>u, SoundFrame
<1>2. CASE Kick(c)
  <2>1. LoopsOK'
    <3> DEFINE p == poolByCode(Msg(x))
    <3>1. CASE p = None /\ NextMsg(c) BY <3>1, <1>a, NextMsgLoop DEF Sound
    <3>2. CASE p # None /\ cons' = [cons EXCEPT ![c].pc = "drain", ![c].pool = p]
      BY <3>2, <1>a, <1>c, <1>g, RouterAssumption DEF poolByCode, Sound, ManagerOK
    <3> QED BY <1>2, <3>1, <3>2 DEF Kick, x
  <2>u. UNCHANGED <<broker, tracker, groupQs, queueSize, go>> BY Zenon, <1>2 DEF Kick, poolVars
  <2> QED BY Zenon, <2>1, <1>f, <2>u, SoundFrame
<1>3. CASE AckExternalRequeue(c)
  <2>1. LoopsOK' BY <1>3, <1>a, NextMsgLoop DEF AckExternalRequeue, Sound
  <2>2. Messages' BY <1>3, <1>b, CopyFields, AckOK DEF AckExternalRequeue, Sound, x
  <2>u. UNCHANGED <<tracker, groupQs, queueSize, go>> BY Zenon, <1>3 DEF AckExternalRequeue, poolVars
  <2> QED BY Zenon, <2>1, <2>2, <1>f, <2>u, SoundFrame
<1>4. CASE Resolve(c)
  <2>1. TrackerOK(tracker') /\ LoopsOK'
    <3> DEFINE p == poolByCode(Msg(x))
    <3>1. CASE p = None /\ Release(c) BY <3>1, <1>a, ReleaseOK
    <3>2. CASE p # None /\ cons' = [cons EXCEPT ![c].pc = "submit", ![c].pool = p] /\ UNCHANGED tracker
      <4>1. p \in Pool BY <3>2, <1>c, RouterAssumption DEF poolByCode, Sound, ManagerOK
      <4> HIDE DEF p
      <4> QED BY <3>2, <4>1, <1>g DEF Sound
    <3> QED BY <1>4, <3>1, <3>2 DEF Resolve, x
  <2>u. UNCHANGED <<broker, groupQs, queueSize, go>> BY Zenon, <1>4 DEF Resolve, poolVars
  <2> QED BY Zenon, <2>1, <1>f, <2>u, SoundFrame
<1>5. CASE Submit(c)
  <2>1. CASE Release(c)
    <3>1. TrackerOK(tracker') /\ LoopsOK' BY <2>1, <1>a, ReleaseOK
    <3>u. UNCHANGED <<broker, groupQs, queueSize, go>> BY Zenon, <1>5 DEF Submit, poolVars
    <3> QED BY Zenon, <3>1, <1>f, <3>u, SoundFrame
  <2>2. CASE (Step(c, "enqueue") \/ Step(c, "immediate")) /\ UNCHANGED tracker
    <3>0. cons[c].pool \in Pool BY <1>5, <1>e DEF Submit
    <3>1. LoopsOK' BY <2>2, <3>0, <1>a, <1>d, StepLoop DEF Sound
    <3>u. UNCHANGED <<broker, tracker, groupQs, queueSize, go>> BY Zenon, <1>5, <2>2 DEF Submit, poolVars
    <3> QED BY Zenon, <3>1, <1>f, <3>u, SoundFrame
  <2> QED BY <1>5, <2>1, <2>2 DEF Submit
<1>9. CASE StartImmediate(c)
  <2> DEFINE p == cons[c].pool
  <2>0. p \in Pool BY <1>9, <1>e DEF StartImmediate
  <2>1. RoutineOK(Goroutine("acquire", p, None, c, x))
    <3>1. "acquire" \in WorkerPC BY DEF WorkerPC
    <3> QED BY <2>0, <1>b, <3>1 DEF RoutineOK, Goroutine, Routine
  <2>2. RoutinesOK' BY <1>9, <2>1, SpawnOK DEF StartImmediate, Sound, x
  <2>3. LoopsOK' BY <1>9, <1>a, NextMsgLoop DEF StartImmediate, Sound
  <2>4. Counters' BY <1>9, <2>0, IncOK DEF StartImmediate, Sound
  <2>u. UNCHANGED <<broker, tracker, groupQs>> BY Zenon, <1>9 DEF StartImmediate, poolVars
  <2> QED BY Zenon, <2>2, <2>3, <2>4, <1>f, <2>u, SoundFrame
<1>6. CASE Enqueue(c)
  <2> DEFINE p == cons[c].pool
             g == GroupId[Msg(x)]
  <2>0. p \in Pool BY <1>6, <1>e DEF Enqueue
  <2>1. CASE Release(c) /\ UNCHANGED groupQs
    <3>1. TrackerOK(tracker') /\ LoopsOK' BY <2>1, <1>a, ReleaseOK
    <3>u. UNCHANGED <<broker, groupQs, queueSize, go>> BY Zenon, <1>6, <2>1 DEF Enqueue, poolVars
    <3> QED BY Zenon, <3>1, <1>f, <3>u, SoundFrame
  <2>2. CASE Put(p, g, Append(groupQs[p][g].msgs, x)) /\ Step(c, "count") /\ UNCHANGED tracker
    <3>0. groupQs[p][g] \in groupQueue BY <2>0, <1>c DEF Sound, Queues
    <3>1. Append(groupQs[p][g].msgs, x) \in Seq(Copy) BY <3>0, <1>b DEF groupQueue
    <3>2. Queues' BY Zenon, <2>0, <2>2, <1>c, <3>1, PutOK DEF Sound
    <3>3. LoopsOK' BY <2>0, <2>2, <1>a, <1>d, StepLoop DEF Sound
    <3>u. UNCHANGED <<broker, tracker, queueSize, go>> BY Zenon, <1>6, <2>2 DEF Enqueue, poolVars
    <3> QED BY Zenon, <3>2, <3>3, <1>f, <3>u, SoundFrame
  <2> QED BY Zenon, <1>6, <2>1, <2>2 DEF Enqueue, x
<1>7. CASE CountEnqueued(c)
  <2>1. cons[c].pool \in Pool BY <1>7, <1>e DEF CountEnqueued
  <2>2. Counters' BY <1>7, <2>1, IncOK DEF Sound, CountEnqueued
  <2>3. LoopsOK' BY <1>7, <2>1, <1>a, <1>d, StepLoop DEF Sound, CountEnqueued
  <2>u. UNCHANGED <<broker, tracker, groupQs, go>> BY Zenon, <1>7 DEF CountEnqueued, poolVars
  <2> QED BY Zenon, <2>2, <2>3, <1>f, <2>u, SoundFrame
<1>8. CASE StartDrain(c)
  <2>1. cons[c].pool \in Pool BY <1>8, <1>e DEF StartDrain
  <2>2. Queues' /\ RoutinesOK' BY <1>8, <2>1, <1>c, TryDrainOK DEF Sound, StartDrain, x
  <2>3. LoopsOK' BY <1>8, <1>a, NextMsgLoop DEF Sound, StartDrain
  <2>u. UNCHANGED <<broker, tracker, queueSize>> BY Zenon, <1>8 DEF StartDrain, poolVars
  <2> QED BY Zenon, <2>2, <2>3, <1>f, <2>u, SoundFrame
<1> QED BY <1>1, <1>2, <1>3, <1>4, <1>5, <1>6, <1>7, <1>8, <1>9 DEF RunConsumer

LEMMA AbandonOK ==
  ASSUME Sound, NEW w \in Worker, go[w].pc # "off", IsImmediate(w), AbandonImmediate(w)
  PROVE  Counters' /\ TrackerOK(tracker') /\ RoutinesOK'
<1>1. go[w].pool \in Pool /\ go[w].msg \in Copy
  BY DEF Sound, RoutinesOK, RoutineOK, IsImmediate
<1> QED BY <1>1, IncOK, RemoveOK, CopyFields, ExitOK DEF AbandonImmediate, Sound

LEMMA SoundGoroutine ==
  ASSUME Sound, NEW w \in Worker, RunGoroutine(w)
  PROVE  Sound'
<1> DEFINE p == go[w].pool
           g == go[w].group
           x == go[w].msg
<1> USE DEF poolVars
<1>a. go[w].pc # "off"
  BY Zenon DEF RunGoroutine, Pop, LeaveQueue, AcquireSlot, CancelledAcquire, Refront, CountFront,
         ClearWorking, BackoffElapsed, CancelledBackoff, EnsureOwned, AckDuplicate,
         MediateTerminal, MediateRetry, AckRead, AckSend, AckRemove
<1>b. RoutineOK(go[w]) BY DEF Sound, RoutinesOK
<1>c. p \in Pool /\ go[w].ctx \in Consumer BY <1>a, <1>b DEF RoutineOK
<1>d. ~IsImmediate(w) => g \in Group BY <1>b DEF RoutineOK, Routine, IsImmediate
<1>e. IsImmediate(w) => x \in Copy BY <1>a, <1>b DEF RoutineOK, IsImmediate
<1>f. settled' \in SUBSET Message => ManagerOK'
  <2>1. UNCHANGED <<stopped, mgrVars, stall>>
    BY Zenon DEF RunGoroutine, Pop, LeaveQueue, AcquireSlot, CancelledAcquire, Refront, CountFront,
           ClearWorking, BackoffElapsed, CancelledBackoff, EnsureOwned, AckDuplicate,
           MediateTerminal, MediateRetry, AckRead, AckSend, AckRemove
  <2>2. ManagerOK BY DEF Sound
  <2> QED BY <2>1, <2>2, ManagerFrame
<1>g. UNCHANGED cons /\ LoopsOK'
  <2>1. UNCHANGED cons
    BY Zenon DEF RunGoroutine, Pop, LeaveQueue, AcquireSlot, CancelledAcquire, Refront, CountFront,
           ClearWorking, BackoffElapsed, CancelledBackoff, EnsureOwned, AckDuplicate,
           MediateTerminal, MediateRetry, AckRead, AckSend, AckRemove
  <2>2. LoopsOK BY DEF Sound
  <2> QED BY <2>1, <2>2 DEF LoopsOK
<1>h. settled \in SUBSET Message BY DEF Sound, ManagerOK
<1>i. WorkerPC = { "off", "top", "dec", "acquire", "park", "parkCount", "clear", "proc",
                   "dupAck", "mediate", "ackRead", "ackSend", "ackRemove",
                   "requeue", "requeueCount", "backoff" }
  BY DEF WorkerPC
<1>1. CASE Pop(w)
  <2>0. g \in Group BY Zenon, <1>1, <1>b DEF Pop, RoutineOK
  <2>1. groupQs[p][g] \in groupQueue BY <1>c, <2>0 DEF Sound, Queues
  <2>2. CASE groupQs' = [groupQs EXCEPT ![p][g] = NoQueue] /\ Exit(w)
    <3>1. NoQueue \in groupQueue BY DEF NoQueue, groupQueue
    <3>2. Queues' BY Zenon, <1>c, <2>0, <2>2, <3>1, SetQueue DEF Sound
    <3>3. RoutinesOK' BY <2>2, ExitOK DEF Sound
    <3>u. UNCHANGED <<broker, tracker, queueSize, settled>> BY Zenon, <1>1 DEF Pop
    <3> QED BY Zenon, <3>2, <3>3, <1>f, <1>g, <1>h, <3>u, SoundFrame
  <2>3. CASE /\ groupQs[p][g].msgs # << >>
             /\ groupQs' = [groupQs EXCEPT ![p][g].msgs = Tail(@)]
             /\ go' = [go EXCEPT ![w].pc = "dec", ![w].msg = Head(groupQs[p][g].msgs)]
    <3> DEFINE s == groupQs[p][g].msgs
               q == [groupQs[p][g] EXCEPT !.msgs = Tail(s)]
               r == [go[w] EXCEPT !.pc = "dec", !.msg = Head(s)]
    <3>1. s \in Seq(Copy) BY <2>1 DEF groupQueue
    <3>2. Tail(s) \in Seq(Copy) /\ Head(s) \in Copy
      <4>1. s # << >> BY Zenon, <2>3
      <4> HIDE DEF s
      <4> QED BY <3>1, <4>1, HeadTailProperties
    <3>3. q \in groupQueue
      <4> HIDE DEF s
      <4> QED BY Zenon, <2>1, <3>2 DEF groupQueue
    <3>4. groupQs' = [groupQs EXCEPT ![p][g] = q] BY Zenon, <2>3, <1>c, <2>0 DEF Sound, Queues
    <3>5. Queues'
      <4> HIDE DEF q
      <4> QED BY Zenon, <1>c, <2>0, <3>3, <3>4, SetQueue DEF Sound
    <3>6. RoutineOK(r)
      <4> HIDE DEF s
      <4>1. "dec" \in WorkerPC BY <1>i
      <4>2. go[w] \in Routine BY <1>b DEF RoutineOK
      <4>3. r \in Routine BY Zenon, <4>1, <4>2, <3>2 DEF Routine
      <4>4. /\ r.pc = "dec" /\ r.msg = Head(s) /\ r.pool = go[w].pool
            /\ r.group = go[w].group /\ r.ctx = go[w].ctx
        BY <4>2 DEF Routine
      <4> HIDE DEF r
      <4> QED BY <4>3, <4>4, <1>a, <1>b, <3>2 DEF RoutineOK
    <3>7. go' = [go EXCEPT ![w] = r] BY Zenon, <2>3
    <3>8. RoutinesOK'
      <4> HIDE DEF r
      <4> QED BY Zenon, <3>6, <3>7, SetRoutine DEF Sound
    <3>u. UNCHANGED <<broker, tracker, queueSize, settled>> BY Zenon, <1>1 DEF Pop
    <3> QED BY Zenon, <3>5, <3>8, <1>f, <1>g, <1>h, <3>u, SoundFrame
  <2> QED BY Zenon, <1>1, <2>2, <2>3 DEF Pop
<1>2. CASE LeaveQueue(w)
  <2>1. Counters' BY <1>2, <1>c, IncOK DEF LeaveQueue, Sound
  <2>2. x \in Copy BY <1>2, <1>b DEF LeaveQueue, RoutineOK, Holding
  <2>3. RoutinesOK' BY <1>2, <1>a, <1>i, <2>2, GotoOK DEF LeaveQueue, Sound
  <2>u. UNCHANGED <<broker, tracker, groupQs, settled>> BY Zenon, <1>2 DEF LeaveQueue
  <2> QED BY Zenon, <2>1, <2>3, <1>f, <1>g, <1>h, <2>u, SoundFrame
<1>3. CASE AcquireSlot(w)
  <2>2. x \in Copy BY <1>3, <1>b DEF AcquireSlot, RoutineOK, Holding
  <2>3. RoutinesOK' BY <1>3, <1>a, <1>i, <2>2, GotoOK DEF AcquireSlot, Sound
  <2>u. UNCHANGED <<broker, tracker, groupQs, queueSize, settled>> BY Zenon, <1>3 DEF AcquireSlot
  <2> QED BY Zenon, <2>3, <1>f, <1>g, <1>h, <2>u, SoundFrame
<1>4. CASE CancelledAcquire(w)
  <2>1. CASE IsImmediate(w) /\ AbandonImmediate(w)
    <3>1. Counters' /\ TrackerOK(tracker') /\ RoutinesOK' BY <2>1, <1>a, AbandonOK
    <3>u. UNCHANGED <<broker, groupQs, settled>> BY Zenon, <1>4 DEF CancelledAcquire
    <3> QED BY Zenon, <3>1, <1>f, <1>g, <1>h, <3>u, SoundFrame
  <2>2. CASE ~IsImmediate(w) /\ Goto(w, "park") /\ UNCHANGED <<tracker, queueSize>>
    <3>2. x \in Copy BY <1>4, <1>b DEF CancelledAcquire, RoutineOK, Holding
    <3>3. RoutinesOK' BY <2>2, <1>a, <1>d, <1>i, <3>2, GotoOK DEF Sound
    <3>u. UNCHANGED <<broker, tracker, groupQs, queueSize, settled>> BY Zenon, <1>4, <2>2 DEF CancelledAcquire
    <3> QED BY Zenon, <3>3, <1>f, <1>g, <1>h, <3>u, SoundFrame
  <2> QED BY <1>4, <2>1, <2>2 DEF CancelledAcquire
<1>5. CASE Refront(w)
  <2>0. g \in Group /\ x \in Copy BY <1>5, <1>b DEF Refront, RoutineOK, Holding
  <2>1. CASE tracker' = Remove(tracker, x) /\ Exit(w) /\ UNCHANGED groupQs
    <3>1. TrackerOK(tracker') BY <2>0, <2>1, RemoveOK, CopyFields DEF Sound
    <3>2. RoutinesOK' BY <2>1, ExitOK DEF Sound
    <3>u. UNCHANGED <<broker, groupQs, queueSize, settled>> BY Zenon, <1>5, <2>1 DEF Refront
    <3> QED BY Zenon, <3>1, <3>2, <1>f, <1>g, <1>h, <3>u, SoundFrame
  <2>2. CASE /\ Put(p, g, <<x>> \o groupQs[p][g].msgs)
             /\ go' = [go EXCEPT ![w].pc = IF @ = "park" THEN "parkCount" ELSE "requeueCount",
                                 ![w].msg = None]
             /\ UNCHANGED tracker
    <3> DEFINE pc == IF go[w].pc = "park" THEN "parkCount" ELSE "requeueCount"
               r == [go[w] EXCEPT !.pc = pc, !.msg = None]
    <3>1. groupQs[p][g] \in groupQueue BY <1>c, <2>0 DEF Sound, Queues
    <3>2. <<x>> \o groupQs[p][g].msgs \in Seq(Copy)
      <4>1. <<x>> \in Seq(Copy) /\ groupQs[p][g].msgs \in Seq(Copy) BY <3>1, <2>0 DEF groupQueue
      <4> HIDE DEF x
      <4> QED BY <4>1, ConcatProperties
    <3>3. Queues' BY Zenon, <1>c, <2>0, <2>2, <3>2, PutOK DEF Sound
    <3>4. RoutineOK(r)
      <4>1. pc \in WorkerPC BY <1>i
      <4>2. pc \in {"parkCount", "requeueCount"} OBVIOUS
      <4> HIDE DEF pc
      <4> QED BY Zenon, <4>1, <4>2, <1>a, <1>b, <2>0, RouterAssumption DEF RoutineOK, Routine, Holding
    <3>5. go' = [go EXCEPT ![w] = r] BY Zenon, <2>2
    <3>6. RoutinesOK'
      <4> HIDE DEF r
      <4> QED BY Zenon, <3>4, <3>5, SetRoutine DEF Sound
    <3>u. UNCHANGED <<broker, tracker, queueSize, settled>> BY Zenon, <1>5, <2>2 DEF Refront
    <3> QED BY Zenon, <3>3, <3>6, <1>f, <1>g, <1>h, <3>u, SoundFrame
  <2> QED BY <1>5, <2>1, <2>2 DEF Refront
<1>6. CASE CountFront(w)
  <2>1. Counters' BY <1>6, <1>c, IncOK DEF CountFront, Sound
  <2>2. go[w].pc = "parkCount" => g \in Group BY <1>b DEF RoutineOK
  <2>3. RoutinesOK' BY <1>6, <1>a, <1>i, <2>2, GotoOK DEF CountFront, Sound, Holding
  <2>u. UNCHANGED <<broker, tracker, groupQs, settled>> BY Zenon, <1>6 DEF CountFront
  <2> QED BY Zenon, <2>1, <2>3, <1>f, <1>g, <1>h, <2>u, SoundFrame
<1>7. CASE ClearWorking(w)
  <2> DEFINE q == [groupQs[p][g] EXCEPT !.working = FALSE]
  <2>0. g \in Group BY <1>7, <1>b DEF ClearWorking, RoutineOK
  <2>1. groupQs[p][g] \in groupQueue BY <1>c, <2>0 DEF Sound, Queues
  <2>2. q \in groupQueue BY Zenon, <2>1 DEF groupQueue
  <2>3. groupQs' = [groupQs EXCEPT ![p][g] = q] BY <1>7, <1>c, <2>0 DEF ClearWorking, Sound, Queues
  <2>4. Queues'
    <3> HIDE DEF q
    <3> QED BY Zenon, <1>c, <2>0, <2>2, <2>3, SetQueue DEF Sound
  <2>5. RoutinesOK' BY <1>7, ExitOK DEF ClearWorking, Sound
  <2>u. UNCHANGED <<broker, tracker, queueSize, settled>> BY Zenon, <1>7 DEF ClearWorking
  <2> QED BY Zenon, <2>4, <2>5, <1>f, <1>g, <1>h, <2>u, SoundFrame
<1>8. CASE BackoffElapsed(w)
  <2>1. RoutinesOK' BY <1>8, <1>a, <1>d, <1>e, <1>i, GotoOK DEF BackoffElapsed, Sound, Holding
  <2>u. UNCHANGED <<broker, tracker, groupQs, queueSize, settled>> BY Zenon, <1>8 DEF BackoffElapsed
  <2> QED BY Zenon, <2>1, <1>f, <1>g, <1>h, <2>u, SoundFrame
<1>9. CASE CancelledBackoff(w)
  <2>1. CASE IsImmediate(w) /\ AbandonImmediate(w)
    <3>1. Counters' /\ TrackerOK(tracker') /\ RoutinesOK' BY <2>1, <1>a, AbandonOK
    <3>u. UNCHANGED <<broker, groupQs, settled>> BY Zenon, <1>9 DEF CancelledBackoff
    <3> QED BY Zenon, <3>1, <1>f, <1>g, <1>h, <3>u, SoundFrame
  <2>2. CASE ~IsImmediate(w) /\ Goto(w, "clear") /\ UNCHANGED <<tracker, queueSize>>
    <3>1. RoutinesOK' BY <2>2, <1>a, <1>d, <1>i, GotoOK DEF Sound, Holding
    <3>u. UNCHANGED <<broker, tracker, groupQs, queueSize, settled>> BY Zenon, <1>9, <2>2 DEF CancelledBackoff
    <3> QED BY Zenon, <3>1, <1>f, <1>g, <1>h, <3>u, SoundFrame
  <2> QED BY <1>9, <2>1, <2>2 DEF CancelledBackoff
<1>10. CASE EnsureOwned(w)
  <2>0. x \in Copy BY <1>10, <1>b DEF EnsureOwned, RoutineOK, Holding
  <2>1. TrackerOK(tracker') BY <1>10, <2>0, EnsureTrackedIsOK DEF EnsureOwned, Sound
  <2>2. RoutinesOK' BY <1>10, <1>a, <1>i, <2>0, GotoOK DEF EnsureOwned, Sound
  <2>u. UNCHANGED <<broker, groupQs, queueSize, settled>> BY Zenon, <1>10 DEF EnsureOwned
  <2> QED BY Zenon, <2>1, <2>2, <1>f, <1>g, <1>h, <2>u, SoundFrame
<1>11. CASE AckDuplicate(w)
  <2>0. x.receipt \in Handle BY <1>11, <1>b, CopyFields DEF AckDuplicate, RoutineOK, Holding
  <2>1. Messages'
    <3>1. (current # None /\ Ack(current, x.receipt, go[w].ctx)) \/ UNCHANGED broker BY <1>11 DEF AckDuplicate
    <3>2. Messages BY DEF Sound
    <3>3. CASE current # None /\ Ack(current, x.receipt, go[w].ctx)
      BY <2>0, <3>2, <3>3, AckOK DEF Sound, ManagerOK
    <3>4. CASE UNCHANGED broker BY <3>2, <3>4 DEF Messages
    <3> QED BY <3>1, <3>3, <3>4
  <2>2. RoutinesOK' BY Zenon, <1>11, <1>a, DoneOK DEF AckDuplicate, Sound
  <2>u. UNCHANGED <<tracker, groupQs, queueSize, settled>> BY Zenon, <1>11 DEF AckDuplicate
  <2> QED BY Zenon, <2>1, <2>2, <1>f, <1>g, <1>h, <2>u, SoundFrame
<1>12. CASE MediateTerminal(w)
  <2>0. x \in Copy BY <1>12, <1>b DEF MediateTerminal, RoutineOK, Holding
  <2>1. settled' \in SUBSET Message BY <1>12, <2>0, <1>h, CopyFields DEF MediateTerminal
  <2>2. RoutinesOK' BY <1>12, <1>a, <1>i, <2>0, GotoOK DEF MediateTerminal, Sound
  <2>u. UNCHANGED <<broker, tracker, groupQs, queueSize>> BY Zenon, <1>12 DEF MediateTerminal
  <2> QED BY Zenon, <2>1, <2>2, <1>f, <1>g, <2>u, SoundFrame
<1>13. CASE MediateRetry(w)
  <2> DEFINE y == [x EXCEPT !.retried = TRUE]
             pc == IF IsImmediate(w) THEN "requeueCount" ELSE "requeue"
             r == [go[w] EXCEPT !.pc = pc, !.msg = y]
  <2>0. x \in Copy BY <1>13, <1>b DEF MediateRetry, RoutineOK, Holding
  <2>1. TrackerOK(tracker') BY <1>13, <2>0, MarkRetryingOK DEF MediateRetry, Sound
  <2>2. y \in Copy
    <3> HIDE DEF x
    <3> QED BY Zenon, <2>0 DEF Copy
  <2>3. pc \in WorkerPC /\ pc # "off" /\ pc # "ackSend" /\ (pc = "requeue" => g \in Group)
        /\ pc \notin {"top", "park", "parkCount", "clear"}
    BY <1>d, <1>i
  <2>4. go' = [go EXCEPT ![w] = r] BY Zenon, <1>13 DEF MediateRetry
  <2>5. RoutineOK(r)
    <3> HIDE DEF y, pc
    <3> QED BY Zenon, <1>a, <1>b, <2>2, <2>3 DEF RoutineOK, Routine
  <2>6. RoutinesOK'
    <3> HIDE DEF r
    <3> QED BY Zenon, <2>4, <2>5, SetRoutine DEF Sound
  <2>u. UNCHANGED <<broker, groupQs, queueSize, settled>> BY Zenon, <1>13 DEF MediateRetry
  <2> QED BY Zenon, <2>1, <2>6, <1>f, <1>g, <1>h, <2>u, SoundFrame
<1>14. CASE AckRead(w)
  <2> DEFINE h == CurrentReceipt(tracker, x)
             r == [go[w] EXCEPT !.pc = "ackSend", !.rh = h]
  <2>0. x \in Copy BY <1>14, <1>b DEF AckRead, RoutineOK, Holding
  <2>1. h \in Handle BY <2>0, CurrentReceiptOK DEF Sound
  <2>2. go' = [go EXCEPT ![w] = r] BY Zenon, <1>14 DEF AckRead
  <2>3. RoutineOK(r)
    <3>1. "ackSend" \in WorkerPC BY <1>i
    <3> HIDE DEF h
    <3> QED BY Zenon, <1>a, <1>b, <2>0, <2>1, <3>1 DEF RoutineOK, Routine
  <2>4. RoutinesOK'
    <3> HIDE DEF r
    <3> QED BY Zenon, <2>2, <2>3, SetRoutine DEF Sound
  <2>u. UNCHANGED <<broker, tracker, groupQs, queueSize, settled>> BY Zenon, <1>14 DEF AckRead
  <2> QED BY Zenon, <2>4, <1>f, <1>g, <1>h, <2>u, SoundFrame
<1>15. CASE AckSend(w)
  <2>0. go[w].rh \in Handle /\ x \in Copy BY <1>15, <1>b DEF AckSend, RoutineOK, Holding
  <2>1. Messages'
    <3>1. (current # None /\ Ack(current, go[w].rh, go[w].ctx)) \/ UNCHANGED broker BY <1>15 DEF AckSend
    <3>2. Messages BY DEF Sound
    <3>3. CASE current # None /\ Ack(current, go[w].rh, go[w].ctx)
      BY <2>0, <3>2, <3>3, AckOK DEF Sound, ManagerOK
    <3>4. CASE UNCHANGED broker BY <3>2, <3>4 DEF Messages
    <3> QED BY <3>1, <3>3, <3>4
  <2>2. RoutinesOK' BY Zenon, <1>15, <1>a, <1>i, <2>0, GotoOK DEF AckSend, Sound
  <2>u. UNCHANGED <<tracker, groupQs, queueSize, settled>> BY Zenon, <1>15 DEF AckSend
  <2> QED BY Zenon, <2>1, <2>2, <1>f, <1>g, <1>h, <2>u, SoundFrame
<1>16. CASE AckRemove(w)
  <2>0. x \in Copy BY <1>16, <1>b DEF AckRemove, RoutineOK, Holding
  <2>1. TrackerOK(tracker') BY <1>16, <2>0, RemoveOK, CopyFields DEF AckRemove, Sound
  <2>2. RoutinesOK' BY <1>16, <1>a, DoneOK DEF AckRemove, Sound
  <2>u. UNCHANGED <<broker, groupQs, queueSize, settled>> BY Zenon, <1>16 DEF AckRemove
  <2> QED BY Zenon, <2>1, <2>2, <1>f, <1>g, <1>h, <2>u, SoundFrame
<1> QED BY Zenon, <1>1, <1>2, <1>3, <1>4, <1>5, <1>6, <1>7, <1>8, <1>9, <1>10, <1>11, <1>12, <1>13,
           <1>14, <1>15, <1>16 DEF RunGoroutine

-----------------------------------------------------------------------------
(* Manager, broker, reaper and stall detector.                               *)

LEMMA SoundManager ==
  ASSUME Sound, RunManager
  PROVE  Sound'
<1> USE DEF poolVars, mgrVars
<1>a. ManagerOK /\ mgr \in Stopping BY DEF Sound, ManagerOK
<1>b. None \notin Pool BY RouterAssumption
<1>1. ASSUME NEW k \in Code, StopPool(k) PROVE Sound'
  <2>1. k \in mgr.todo /\ pools[k] \in Pool BY <1>1, <1>a DEF StopPool, ManagerOK, StoppingOK
  <2>2. mgr' = [todo |-> mgr.todo, pool |-> pools[k], left |-> mgr.left]
    BY <1>1, <1>a DEF StopPool, Stopping
  <2>3. mgr' \in Stopping BY <2>1, <2>2, <1>a DEF Stopping
  <2>4. stopped' \in [Pool -> BOOLEAN] /\ stopped'[pools[k]] = TRUE
    BY <1>1, <2>1, <1>a DEF StopPool, ManagerOK
  <2>5. StoppingOK'
    BY <1>1, <2>1, <2>2, <2>4, <1>a, <1>b DEF StopPool, ManagerOK, StoppingOK
  <2> QED BY <1>1, <2>3, <2>4, <2>5
          DEF StopPool, Sound, ManagerOK, Messages, Queues, Counters, LoopsOK, RoutinesOK
<1>2. ASSUME NEW k \in Code, StopDone(k) PROVE Sound'
  <2>1. mgr' = [todo |-> mgr.todo \ {k}, pool |-> None, left |-> mgr.left]
    BY Zenon, <1>2, <1>a DEF StopDone, Stopping
  <2>2. mgr' \in Stopping BY <2>1, <1>a DEF Stopping
  <2>3. pools' \in [Code -> Pool \cup {None}] BY <1>2, <1>a DEF StopDone, ManagerOK
  <2>4. StoppingOK'
    BY <1>2, <2>1, <2>3, <1>a DEF StopDone, ManagerOK, StoppingOK, Stopping
  <2> QED BY <1>2, <2>2, <2>3, <2>4
          DEF StopDone, Sound, ManagerOK, Messages, Queues, Counters, LoopsOK, RoutinesOK
<1>3. CASE Flush
  <2> DEFINE p == mgr.pool
             left == UNION {Elems(groupQs[p][g].msgs) : g \in Group}
             qs == [g \in Group |-> NoQueue]
  <2>1. p \in Pool BY <1>3, <1>a DEF Flush, Stopping
  <2>2. left \in SUBSET Copy
    <3>1. ASSUME NEW g \in Group PROVE Elems(groupQs[p][g].msgs) \subseteq Copy
      <4>1. groupQs[p][g].msgs \in Seq(Copy) BY <2>1 DEF Sound, Queues, groupQueue
      <4> QED BY <4>1, ElementOfSeq DEF Elems
    <3> QED BY <3>1
  <2>3. mgr' = [todo |-> mgr.todo, pool |-> p, left |-> left]
    BY Zenon, <1>3, <1>a DEF Flush, Stopping
  <2>4. mgr' \in Stopping
    <3> HIDE DEF left
    <3> QED BY <2>2, <2>3, <1>a DEF Stopping
  <2>5. StoppingOK'
    <3> HIDE DEF left
    <3> QED BY <1>3, <2>3, <1>a DEF Flush, ManagerOK, StoppingOK
  <2>6. Queues'
    <3>1. NoQueue \in groupQueue BY DEF NoQueue, groupQueue
    <3>2. qs \in [Group -> groupQueue] BY <3>1
    <3>3. groupQs' = [groupQs EXCEPT ![p] = qs] BY <1>3 DEF Flush
    <3> HIDE DEF qs
    <3> QED BY <2>1, <3>2, <3>3 DEF Sound, Queues
  <2> QED BY <1>3, <2>4, <2>5, <2>6
          DEF Flush, Sound, ManagerOK, Messages, Counters, LoopsOK, RoutinesOK
<1>4. CASE ReleaseFlushed
  <2>0. PICK x \in mgr.left : /\ tracker' = Remove(tracker, x)
                              /\ mgr' = [mgr EXCEPT !.left = @ \ {x}]
    BY <1>4 DEF ReleaseFlushed
  <2>1. x \in Copy BY <1>a DEF Stopping
  <2>2. mgr.pool \in Pool BY <1>a DEF ManagerOK, StoppingOK, Stopping
  <2>3. TrackerOK(tracker') BY <2>0, <2>1, CopyFields, RemoveOK DEF Sound
  <2>4. Counters' BY <1>4, <2>2, IncOK DEF ReleaseFlushed, Sound
  <2>5. mgr' = [todo |-> mgr.todo, pool |-> mgr.pool, left |-> mgr.left \ {x}]
    BY <2>0, <1>a DEF Stopping
  <2>6. mgr' \in Stopping BY <2>5, <1>a DEF Stopping
  <2>7. StoppingOK'
    BY <1>4, <2>5, <2>2, <1>a, <1>b DEF ReleaseFlushed, ManagerOK, StoppingOK
  <2> QED BY <1>4, <2>3, <2>4, <2>6, <2>7
          DEF ReleaseFlushed, Sound, ManagerOK, Messages, Queues, LoopsOK, RoutinesOK
<1> QED BY <1>1, <1>2, <1>3, <1>4 DEF RunManager

LEMMA SoundOperator ==
  ASSUME Sound,
         \/ RemovePools \/ Shutdown \/ AddPools \/ AddConsumer
         \/ RemoveConsumer \/ CancelConsumer \/ ReplaceConsumer
  PROVE  Sound'
<1> USE DEF poolVars, mgrVars
<1>a. ManagerOK /\ mgr \in Stopping BY DEF Sound, ManagerOK
<1>b. None \notin Pool /\ None \notin Consumer BY RouterAssumption
<1>c. UNCHANGED <<broker, tracker, groupQs, queueSize, stopped, go, stall, settled>>
  BY DEF RemovePools, Shutdown, AddPools, AddConsumer, RemoveConsumer, CancelConsumer, ReplaceConsumer
<1>d. Messages' /\ TrackerOK(tracker') /\ Queues' /\ Counters' /\ RoutinesOK'
  BY <1>c DEF Sound, Messages, Queues, Counters, RoutinesOK
<1>e. ASSUME NEW c \in Consumer, cons' = [cons EXCEPT ![c] = Loop("poll")] PROVE LoopsOK'
  <2>1. LoopOK(Loop("poll")) BY EmptySeq DEF LoopOK, Loop, PollLoop, ConsumerPC, InRoute
  <2> QED BY Zenon, <1>e, <2>1, SetLoop DEF Sound
<1>f. ASSUME NEW S \in SUBSET Code, \A k \in S : pools[k] # None,
             mgr' = [NoStop EXCEPT !.todo = S], UNCHANGED pools
      PROVE  mgr' \in Stopping /\ StoppingOK'
  <2>1. mgr' = [todo |-> S, pool |-> None, left |-> {}] BY <1>f DEF NoStop
  <2>2. \A k \in S : pools[k] \in Pool BY <1>f, <1>a DEF ManagerOK
  <2>3. mgr' \in Stopping BY <2>1 DEF Stopping
  <2>4. mgr'.todo = S /\ mgr'.pool = None /\ mgr'.left = {} BY <2>1
  <2>5. StoppingOK' BY <1>f, <2>2, <2>4 DEF StoppingOK
  <2> QED BY <2>3, <2>5
<1>1. CASE RemovePools
  <2>1. mgr' \in Stopping /\ StoppingOK'
    <3>1. PICK S \in SUBSET Code : (\A k \in S : pools[k] # None) /\ mgr' = [NoStop EXCEPT !.todo = S]
      BY <1>1 DEF RemovePools
    <3> QED BY <1>1, <3>1, <1>f DEF RemovePools
  <2> QED BY <1>1, <1>c, <1>d, <2>1 DEF RemovePools, Sound, ManagerOK, LoopsOK
<1>2. CASE Shutdown
  <2>1. mgr' \in Stopping /\ StoppingOK'
    <3> DEFINE S == {k \in Code : pools[k] # None}
    <3>1. S \in SUBSET Code /\ (\A k \in S : pools[k] # None) OBVIOUS
    <3>2. mgr' = [NoStop EXCEPT !.todo = S] /\ UNCHANGED pools BY <1>2 DEF Shutdown
    <3> HIDE DEF S
    <3> QED BY <3>1, <3>2, <1>f
  <2>2. ctxDone' \in [Consumer -> BOOLEAN] BY <1>2, <1>a DEF Shutdown, ManagerOK
  <2> QED BY <1>2, <1>c, <1>d, <2>1, <2>2 DEF Shutdown, Sound, ManagerOK, LoopsOK
<1>3. CASE AddPools
  <2>1. PICK S \in SUBSET {k \in Code : pools[k] = None} : \E f \in [S -> UnusedPool] :
          pools' = [k \in Code |-> IF k \in S THEN f[k] ELSE pools[k]]
    BY <1>3 DEF AddPools
  <2>2. PICK f \in [S -> UnusedPool] : pools' = [k \in Code |-> IF k \in S THEN f[k] ELSE pools[k]]
    BY <2>1
  <2>3. pools' \in [Code -> Pool \cup {None}] BY <2>2, <1>a DEF ManagerOK, UnusedPool
  <2>4. mgr' = NoStop BY <1>3 DEF AddPools, MgrFree
  <2>5. mgr' \in Stopping /\ StoppingOK' BY <2>4 DEF NoStop, Stopping, StoppingOK
  <2> QED BY <1>3, <1>c, <1>d, <2>3, <2>5 DEF AddPools, Sound, ManagerOK, LoopsOK
<1>4. ASSUME AddConsumer \/ ReplaceConsumer PROVE Sound'
  <2>1. PICK c \in UnusedConsumer : current' = c /\ cons' = [cons EXCEPT ![c] = Loop("poll")]
    BY <1>4 DEF AddConsumer, ReplaceConsumer
  <2>2. c \in Consumer BY DEF UnusedConsumer
  <2>3. LoopsOK' BY Zenon, <2>1, <2>2, <1>e
  <2>4. StoppingOK' BY <1>4, <1>a, <1>c DEF AddConsumer, ReplaceConsumer, ManagerOK, StoppingOK
  <2> QED BY <1>4, <1>c, <1>d, <2>1, <2>2, <2>3, <2>4 DEF AddConsumer, ReplaceConsumer, Sound, ManagerOK
<1>5. ASSUME RemoveConsumer \/ CancelConsumer PROVE Sound'
  <2>1. ctxDone' \in [Consumer -> BOOLEAN] BY Zenon, <1>5, <1>a DEF RemoveConsumer, CancelConsumer, ManagerOK
  <2>2. StoppingOK' BY Zenon, <1>5, <1>a, <1>c DEF RemoveConsumer, CancelConsumer, ManagerOK, StoppingOK
  <2> QED BY <1>5, <1>c, <1>d, <2>1, <2>2 DEF RemoveConsumer, CancelConsumer, Sound, ManagerOK, LoopsOK
<1> QED BY <1>1, <1>2, <1>3, <1>4, <1>5

LEMMA SoundBroker ==
  ASSUME Sound, NEW b \in Broker,
         Publish(b) \/ Lapse(b) \/ \E c \in Consumer : DeleteAcked(c, b)
  PROVE  Sound'
<1> DEFINE d == [broker[b] EXCEPT !.st = "visible"]
<1>1. d \in Delivery /\ Gone \in Delivery BY DEF Sound, Messages, Delivery, Gone
<1>2. \/ broker' = [broker EXCEPT ![b] = d]
      \/ broker' = [broker EXCEPT ![b] = Gone]
  BY DEF Publish, Lapse, DeleteAcked
<1>3. Messages'
  <2> HIDE DEF d
  <2> QED BY <1>1, <1>2 DEF Sound, Messages
<1> QED BY <1>3, ManagerFrame
        DEF Publish, Lapse, DeleteAcked, Sound, Queues, Counters, LoopsOK, RoutinesOK, poolVars, mgrVars, ManagerOK

LEMMA SoundTracking ==
  ASSUME Sound,
         Aging \/ ReapTracker \/ ForgetStalled \/ \E m \in Message : ForceNackStalled(m)
  PROVE  Sound'
<1> USE DEF poolVars, mgrVars
<1>1. TrackerOK(tracker')
  <2>1. CASE Aging BY Zenon, <2>1, StaleOK DEF Aging, Sound
  <2>2. CASE ReapTracker BY <2>2, ReapOK DEF ReapTracker, Sound
  <2>3. CASE ForgetStalled
    <3>1. [id |-> stall].id \in BrokerId BY <2>3 DEF ForgetStalled, Sound, ManagerOK
    <3> QED BY <2>3, <3>1, RemoveOK DEF ForgetStalled, Sound
  <2>4. CASE \E m \in Message : ForceNackStalled(m) BY Zenon, <2>4 DEF ForceNackStalled, Sound
  <2> QED BY <2>1, <2>2, <2>3, <2>4
<1>2. stall' \in BrokerId \cup {None}
  <2>1. CASE Aging \/ ReapTracker \/ ForgetStalled
    BY Zenon, <2>1 DEF Aging, ReapTracker, ForgetStalled, Sound, ManagerOK
  <2>2. CASE \E m \in Message : ForceNackStalled(m)
    <3>1. PICK m \in Message : ForceNackStalled(m) BY <2>2
    <3>2. stall' = tracker.byMessage[m] BY <3>1 DEF ForceNackStalled
    <3>3. tracker.byMessage \in [Message -> BrokerId \cup {None}]
      BY TrackerFields DEF Sound
    <3> QED BY <3>2, <3>3
  <2> QED BY <2>1, <2>2
<1>3. UNCHANGED <<broker, poolVars, mgrVars, cons, go, settled>>
  BY DEF Aging, ReapTracker, ForgetStalled, ForceNackStalled
<1> QED BY Zenon, <1>1, <1>2, <1>3
        DEF Sound, Messages, Queues, Counters, LoopsOK, RoutinesOK, ManagerOK, StoppingOK

LEMMA SoundStutter == Sound /\ UNCHANGED vars => Sound'
BY Zenon DEF vars, poolVars, mgrVars, Sound, Messages, Queues, Counters, LoopsOK, RoutinesOK,
       ManagerOK, StoppingOK

LEMMA SoundNext == Sound /\ [Next]_vars => Sound'
BY SoundBroker, SoundPoll, SoundConsumer, SoundGoroutine, SoundManager, SoundOperator,
   SoundTracking, SoundStutter DEF Next

LEMMA SoundAlways == Spec => []Sound
BY SoundInit, SoundNext, PTL DEF Spec

\* The router is type correct: every goroutine and poll loop finds the pool,
\* group, message and handle its program counter needs.
THEOREM TypeCorrect == Spec => []TypeOK
BY SoundAlways, SoundTypes, PTL

\* The tracker's two maps agree whatever the consumers, drainers, the reaper
\* and the stall detector do: a message index never outlives its broker entry.
THEOREM TrackerMapsAlwaysAgree == Spec => []TrackerMapsAgree
<1>1. Sound => TrackerMapsAgree BY DEF Sound, TrackerOK, TrackerMapsAgree
<1> QED BY <1>1, SoundAlways, PTL
=============================================================================
