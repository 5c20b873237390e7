------------------------- MODULE RouterDrainProofs -------------------------
(***************************************************************************)
(* A group of a pool never has two drainers, its working flag tells        *)
(* exactly whether one runs, and a stopped pool strands nothing.           *)
(***************************************************************************)
EXTENDS RouterProofs

\* Goroutine w drains group g of pool p.
Drains(w, p, g) == go[w].pc # "off" /\ go[w].pool = p /\ go[w].group = g

\* The inductive strengthening of SingleDrainer, WorkingIffDrained and
\* NothingStranded.  A drainer runs under its flag, until a stop flushes the
\* queue from under it; while its pool is live, a set flag has a drainer; an
\* absent queue has no flag; a pool once stopped and let go stays empty.
DrainInv ==
  /\ \A v, w \in Worker, p \in Pool, g \in Group : Drains(v, p, g) /\ Drains(w, p, g) => v = w
  /\ \A w \in Worker, p \in Pool, g \in Group :
       Drains(w, p, g) => groupQs[p][g].working \/ (stopped[p] /\ groupQs[p][g] = NoQueue)
  /\ \A p \in Pool, g \in Group :
       ~stopped[p] /\ groupQs[p][g].working => \E w \in Worker : Drains(w, p, g)
  /\ \A p \in Pool, g \in Group : groupQs[p][g].present \/ groupQs[p][g] = NoQueue
  /\ \A p \in Pool, g \in Group : stopped[p] /\ mgr.pool # p => groupQs[p][g] = NoQueue

SameDrainers ==
  \A w \in Worker, p \in Pool, g \in Group : Drains(w, p, g)' = Drains(w, p, g)

-----------------------------------------------------------------------------
(* How steps change goroutines, queues and flags.                            *)

\* Nothing the invariant speaks of changes.
LEMMA DrainKeep ==
  ASSUME DrainInv, UNCHANGED <<groupQs, stopped>>, mgr'.pool = mgr.pool, SameDrainers
  PROVE  DrainInv'
BY DEF DrainInv, SameDrainers

\* A goroutine moves within its group.
LEMMA MoveKeeps ==
  ASSUME Sound, NEW w \in Worker, NEW r, go' = [go EXCEPT ![w] = r],
         go[w].pc # "off", r.pc # "off", r.pool = go[w].pool, r.group = go[w].group
  PROVE  SameDrainers
BY DEF SameDrainers, Drains, Sound, RoutinesOK

LEMMA GotoKeeps ==
  ASSUME Sound, NEW w \in Worker, NEW pc, Goto(w, pc), go[w].pc # "off", pc # "off"
  PROVE  SameDrainers
<1> DEFINE r == [go[w] EXCEPT !.pc = pc]
<1>1. go[w] \in Routine BY DEF Sound, RoutinesOK
<1>2. r.pc = pc /\ r.pool = go[w].pool /\ r.group = go[w].group BY <1>1 DEF Routine
<1>3. go' = [go EXCEPT ![w] = r] BY DEF Goto
<1> HIDE DEF r
<1> QED BY Zenon, <1>2, <1>3, MoveKeeps

\* A goroutine without a group comes or goes.
LEMMA ImmediateKeeps ==
  ASSUME Sound, NEW w \in Worker, NEW r, go' = [go EXCEPT ![w] = r],
         go[w].pc = "off" \/ go[w].group = None, r.pc = "off" \/ r.group = None
  PROVE  SameDrainers
<1>1. None \notin Group BY RouterAssumption
<1> QED BY <1>1 DEF SameDrainers, Drains, Sound, RoutinesOK

\* processOne is over: the drainer stays, an IMMEDIATE goroutine goes.
LEMMA DoneKeeps ==
  ASSUME Sound, NEW w \in Worker, go[w].pc # "off", Done(w)
  PROVE  SameDrainers
<1>1. CASE IsImmediate(w)
  <2>1. go' = [go EXCEPT ![w] = Off] BY <1>1 DEF Done
  <2>2. Off.pc = "off" BY DEF Off
  <2> QED BY Zenon, <1>1, <2>1, <2>2, ImmediateKeeps DEF IsImmediate
<1>2. CASE ~IsImmediate(w)
  <2> DEFINE r == [go[w] EXCEPT !.pc = "top", !.msg = None, !.rh = None]
  <2>1. go[w] \in Routine BY DEF Sound, RoutinesOK
  <2>2. r.pc = "top" /\ r.pool = go[w].pool /\ r.group = go[w].group BY <2>1 DEF Routine
  <2>3. go' = [go EXCEPT ![w] = r] BY <1>2 DEF Done
  <2> HIDE DEF r
  <2> QED BY Zenon, <2>2, <2>3, MoveKeeps
<1> QED BY <1>1, <1>2

\* The messages of one present or live queue change.
LEMMA DrainRefill ==
  ASSUME Sound, DrainInv, NEW p \in Pool, NEW g \in Group, NEW q,
         groupQs' = [groupQs EXCEPT ![p][g] = q],
         q.present, q.working = groupQs[p][g].working,
         groupQs[p][g].present \/ ~stopped[p],
         UNCHANGED stopped, mgr'.pool = mgr.pool, SameDrainers
  PROVE  DrainInv'
<1>1. ~NoQueue.present BY DEF NoQueue
<1>2. ~(stopped[p] /\ mgr.pool # p) BY <1>1 DEF DrainInv
<1>3. groupQs'[p][g] = q BY DEF Sound, Queues
<1>4. ASSUME NEW k \in Pool, NEW h \in Group, k # p \/ h # g PROVE groupQs'[k][h] = groupQs[k][h]
  BY <1>4 DEF Sound, Queues
<1>5. stopped[p] /\ groupQs[p][g] = NoQueue => FALSE BY <1>1
<1>6. \A w \in Worker, k \in Pool, h \in Group :
        Drains(w, k, h)' => (groupQs[k][h].working \/ (stopped[k] /\ groupQs[k][h] = NoQueue))'
  BY <1>3, <1>4, <1>5 DEF DrainInv, SameDrainers
<1>7. \A k \in Pool, h \in Group :
        (~stopped[k] /\ groupQs[k][h].working)' => \E w \in Worker : Drains(w, k, h)'
  <2> SUFFICES ASSUME NEW k \in Pool, NEW h \in Group, (~stopped[k] /\ groupQs[k][h].working)'
               PROVE  \E w \in Worker : Drains(w, k, h)'
    OBVIOUS
  <2>1. ~stopped[k] /\ groupQs[k][h].working BY <1>3, <1>4
  <2>2. PICK w \in Worker : Drains(w, k, h) BY <2>1 DEF DrainInv
  <2> QED BY <2>2 DEF SameDrainers
<1>8. \A k \in Pool, h \in Group : (groupQs[k][h].present \/ groupQs[k][h] = NoQueue)'
  BY <1>3, <1>4 DEF DrainInv
<1>9. \A k \in Pool, h \in Group : (stopped[k] /\ mgr.pool # k)' => groupQs'[k][h] = NoQueue
  BY <1>2, <1>4 DEF DrainInv
<1>10. \A v, w \in Worker, k \in Pool, h \in Group : (Drains(v, k, h) /\ Drains(w, k, h))' => v = w
  BY DEF DrainInv, SameDrainers
<1> QED BY <1>6, <1>7, <1>8, <1>9, <1>10 DEF DrainInv

\* tryDrainGroup: a drainer starts where the flag was clear.
LEMMA DrainStart ==
  ASSUME Sound, DrainInv, NEW p \in Pool, NEW g \in Group, NEW c, tryDrainGroup(p, g, c),
         UNCHANGED stopped, mgr'.pool = mgr.pool
  PROVE  DrainInv'
<1>1. CASE UNCHANGED <<groupQs, go>>
  BY <1>1, DrainKeep DEF SameDrainers, Drains
<1>2. CASE /\ groupQs[p][g].present /\ ~groupQs[p][g].working
           /\ groupQs' = [groupQs EXCEPT ![p][g].working = TRUE]
           /\ Spawn(Goroutine("top", p, g, c, None))
  <2> DEFINE r == Goroutine("top", p, g, c, None)
             q == [groupQs[p][g] EXCEPT !.working = TRUE]
  <2>1. PICK u \in Worker : go[u].pc = "off" /\ go' = [go EXCEPT ![u] = r]
    BY Zenon, <1>2 DEF Spawn
  <2>2. r.pc # "off" /\ r.pool = p /\ r.group = g BY DEF Goroutine
  <2>3. groupQs' = [groupQs EXCEPT ![p][g] = q] BY <1>2
  <2>4. groupQs[p][g] \in groupQueue BY DEF Sound, Queues
  <2>5. q.present /\ q.working BY <1>2, <2>4 DEF groupQueue
  <2> HIDE DEF r, q
  <2>6. groupQs'[p][g] = q BY <2>3 DEF Sound, Queues
  <2>7. ASSUME NEW k \in Pool, NEW h \in Group, k # p \/ h # g PROVE groupQs'[k][h] = groupQs[k][h]
    BY <2>3, <2>7 DEF Sound, Queues
  <2>8. ~NoQueue.present BY DEF NoQueue
  <2>9. \A w \in Worker : ~Drains(w, p, g) BY <1>2, <2>8 DEF DrainInv
  <2>10. \A w \in Worker, k \in Pool, h \in Group :
           Drains(w, k, h)' <=> (w = u /\ k = p /\ h = g) \/ (w # u /\ Drains(w, k, h))
    BY <2>1, <2>2 DEF Drains, Sound, RoutinesOK
  <2>11. ~Drains(u, p, g) /\ \A k \in Pool, h \in Group : ~Drains(u, k, h) BY <2>1 DEF Drains
  <2>12. \A v, w \in Worker, k \in Pool, h \in Group : (Drains(v, k, h) /\ Drains(w, k, h))' => v = w
    BY <2>9, <2>10 DEF DrainInv
  <2>13. \A w \in Worker, k \in Pool, h \in Group :
           Drains(w, k, h)' => (groupQs[k][h].working \/ (stopped[k] /\ groupQs[k][h] = NoQueue))'
    BY <2>5, <2>6, <2>7, <2>10 DEF DrainInv
  <2>14. \A k \in Pool, h \in Group :
           (~stopped[k] /\ groupQs[k][h].working)' => \E w \in Worker : Drains(w, k, h)'
    <3> SUFFICES ASSUME NEW k \in Pool, NEW h \in Group, (~stopped[k] /\ groupQs[k][h].working)'
                 PROVE  \E w \in Worker : Drains(w, k, h)'
      OBVIOUS
    <3>1. CASE k = p /\ h = g BY <3>1, <2>10
    <3>2. CASE k # p \/ h # g
      <4>1. ~stopped[k] /\ groupQs[k][h].working BY <3>2, <2>7
      <4>2. PICK w \in Worker : Drains(w, k, h) BY <4>1 DEF DrainInv
      <4> QED BY <4>2, <2>10, <2>11
    <3> QED BY <3>1, <3>2
  <2>15. \A k \in Pool, h \in Group : (groupQs[k][h].present \/ groupQs[k][h] = NoQueue)'
    BY <2>5, <2>6, <2>7 DEF DrainInv
  <2>16. \A k \in Pool, h \in Group : (stopped[k] /\ mgr.pool # k)' => groupQs'[k][h] = NoQueue
    BY <1>2, <2>7, <2>8 DEF DrainInv
  <2> QED BY <2>12, <2>13, <2>14, <2>15, <2>16 DEF DrainInv
<1> QED BY <1>1, <1>2 DEF tryDrainGroup

\* A drainer ends and leaves an unflagged queue, or ends in a stopped pool.
LEMMA DrainEnd ==
  ASSUME Sound, DrainInv, NEW u \in Worker, NEW p \in Pool, NEW g \in Group, NEW q,
         Drains(u, p, g), Exit(u),
         groupQs' = [groupQs EXCEPT ![p][g] = q],
         q.present \/ q = NoQueue,
         q.working => stopped[p] /\ q = groupQs[p][g],
         stopped[p] /\ mgr.pool # p => q = NoQueue,
         UNCHANGED stopped, mgr'.pool = mgr.pool
  PROVE  DrainInv'
<1>1. groupQs'[p][g] = q BY DEF Sound, Queues
<1>2. ASSUME NEW k \in Pool, NEW h \in Group, k # p \/ h # g PROVE groupQs'[k][h] = groupQs[k][h]
  BY <1>2 DEF Sound, Queues
<1>3. \A w \in Worker, k \in Pool, h \in Group : Drains(w, k, h)' <=> w # u /\ Drains(w, k, h)
  <2>1. go' = [go EXCEPT ![u] = Off] /\ Off.pc = "off" BY DEF Exit, Off
  <2> QED BY <2>1 DEF Drains, Sound, RoutinesOK
<1>4. \A k \in Pool, h \in Group : Drains(u, k, h) => k = p /\ h = g BY DEF Drains
<1>5. \A w \in Worker : ~Drains(w, p, g)' BY <1>3 DEF DrainInv
<1>6. \A v, w \in Worker, k \in Pool, h \in Group : (Drains(v, k, h) /\ Drains(w, k, h))' => v = w
  BY <1>3 DEF DrainInv
<1>7. \A w \in Worker, k \in Pool, h \in Group :
        Drains(w, k, h)' => (groupQs[k][h].working \/ (stopped[k] /\ groupQs[k][h] = NoQueue))'
  BY <1>2, <1>3, <1>5 DEF DrainInv
<1>8. \A k \in Pool, h \in Group :
        (~stopped[k] /\ groupQs[k][h].working)' => \E w \in Worker : Drains(w, k, h)'
  <2> SUFFICES ASSUME NEW k \in Pool, NEW h \in Group, (~stopped[k] /\ groupQs[k][h].working)'
               PROVE  \E w \in Worker : Drains(w, k, h)'
    OBVIOUS
  <2>1. k # p \/ h # g BY <1>1
  <2>2. ~stopped[k] /\ groupQs[k][h].working BY <2>1, <1>2
  <2>3. PICK w \in Worker : Drains(w, k, h) BY <2>2 DEF DrainInv
  <2> QED BY <2>1, <2>3, <1>3, <1>4
<1>9. \A k \in Pool, h \in Group : (groupQs[k][h].present \/ groupQs[k][h] = NoQueue)'
  BY <1>1, <1>2 DEF DrainInv
<1>10. \A k \in Pool, h \in Group : (stopped[k] /\ mgr.pool # k)' => groupQs'[k][h] = NoQueue
  BY <1>1, <1>2 DEF DrainInv
<1> QED BY <1>6, <1>7, <1>8, <1>9, <1>10 DEF DrainInv

-----------------------------------------------------------------------------
(* DrainInv holds initially and is preserved by every step.                  *)

LEMMA DrainInit == Init => DrainInv
<1> SUFFICES ASSUME Init PROVE DrainInv
  OBVIOUS
<1>1. \A w \in Worker : go[w].pc = "off" BY DEF Init, Off
<1>2. \A p \in Pool, g \in Group : groupQs[p][g] = NoQueue BY DEF Init
<1>3. ~NoQueue.working BY DEF NoQueue
<1> QED BY <1>1, <1>2, <1>3 DEF DrainInv, Drains

LEMMA DrainConsumer ==
  ASSUME Sound, DrainInv, NEW c \in Consumer, RunConsumer(c)
  PROVE  DrainInv'
<1> USE DEF poolVars, mgrVars
<1> DEFINE x == Head(cons[c].batch)
           g == GroupId[Msg(x)]
<1>a. cons[c].pc \in InRoute
  BY Zenon DEF RunConsumer, RegisterCopy, Kick, AckExternalRequeue, Resolve, Submit, StartImmediate, Enqueue,
         CountEnqueued, StartDrain, InRoute
<1>b. x \in Copy BY <1>a, HeadIsCopy DEF Sound
<1>c. Msg(x) \in Message /\ g \in Group BY <1>b, CopyFields, RouterAssumption
<1>d. cons[c].pc \in {"submit", "immediate", "enqueue", "count", "drain"} => cons[c].pool \in Pool
  BY DEF Sound, LoopsOK, LoopOK
<1>e. UNCHANGED <<stopped, mgr>>
  BY Zenon DEF RunConsumer, RegisterCopy, Kick, AckExternalRequeue, Resolve, Submit, StartImmediate, Enqueue,
         CountEnqueued, StartDrain
<1>f. UNCHANGED <<groupQs, go>> => DrainInv'
  BY <1>e, DrainKeep DEF SameDrainers, Drains
<1>1. CASE \/ RegisterCopy(c) \/ Kick(c) \/ AckExternalRequeue(c) \/ Resolve(c) \/ Submit(c)
           \/ CountEnqueued(c)
  BY Zenon, <1>1, <1>f DEF RegisterCopy, Kick, AckExternalRequeue, Resolve, Submit, CountEnqueued
<1>2. CASE StartDrain(c)
  BY <1>2, <1>c, <1>d, <1>e, DrainStart DEF StartDrain
<1>3. CASE StartImmediate(c)
  <2> DEFINE r == Goroutine("acquire", cons[c].pool, None, c, x)
  <2>1. r.group = None BY DEF Goroutine
  <2>2. PICK w \in Worker : go[w].pc = "off" /\ go' = [go EXCEPT ![w] = r]
    BY Zenon, <1>3 DEF StartImmediate, Spawn
  <2> HIDE DEF r
  <2>3. SameDrainers BY ZenonT(30), <2>1, <2>2, ImmediateKeeps
  <2> QED BY <1>3, <2>3, <1>e, DrainKeep DEF StartImmediate
<1>4. CASE Enqueue(c)
  <2> DEFINE p == cons[c].pool
             t == Append(groupQs[p][g].msgs, x)
             q == [groupQs[p][g] EXCEPT !.present = TRUE, !.msgs = t]
  <2>1. CASE UNCHANGED groupQs BY <1>4, <2>1, <1>f DEF Enqueue
  <2>2. CASE ~stopped[p] /\ Put(p, g, t)
    <3>1. p \in Pool BY <1>4, <1>d DEF Enqueue
    <3>2. groupQs[p][g] \in groupQueue BY <3>1, <1>c DEF Sound, Queues
    <3>3. groupQs' = [groupQs EXCEPT ![p][g] = q]
      <4> HIDE DEF t
      <4> QED BY Zenon, <2>2, <3>1, <1>c DEF Put, Sound, Queues
    <3>4. q.present /\ q.working = groupQs[p][g].working
      <4> HIDE DEF t
      <4> QED BY <3>2 DEF groupQueue
    <3>5. SameDrainers BY <1>4 DEF Enqueue, SameDrainers, Drains
    <3> HIDE DEF q
    <3> QED BY ZenonT(30), <2>2, <3>1, <3>3, <3>4, <3>5, <1>c, <1>e, DrainRefill
  <2> QED BY <1>4, <2>1, <2>2 DEF Enqueue
<1> QED BY <1>1, <1>2, <1>3, <1>4 DEF RunConsumer

LEMMA DrainGoroutine ==
  ASSUME Sound, DrainInv, NEW w \in Worker, RunGoroutine(w)
  PROVE  DrainInv'
<1> USE DEF poolVars, mgrVars
<1> DEFINE p == go[w].pool
           g == go[w].group
<1>a. go[w].pc # "off"
  BY Zenon DEF RunGoroutine, Pop, LeaveQueue, AcquireSlot, CancelledAcquire, Refront, CountFront,
         ClearWorking, BackoffElapsed, CancelledBackoff, EnsureOwned, AckDuplicate,
         MediateTerminal, MediateRetry, AckRead, AckSend, AckRemove
<1>b. UNCHANGED <<stopped, mgr>>
  BY Zenon DEF RunGoroutine, Pop, LeaveQueue, AcquireSlot, CancelledAcquire, Refront, CountFront,
         ClearWorking, BackoffElapsed, CancelledBackoff, EnsureOwned, AckDuplicate,
         MediateTerminal, MediateRetry, AckRead, AckSend, AckRemove
<1>c. RoutineOK(go[w]) /\ go[w] \in Routine BY DEF Sound, RoutinesOK
<1>d. p \in Pool BY <1>a, <1>c DEF RoutineOK
<1>e. UNCHANGED groupQs /\ SameDrainers => DrainInv' BY <1>b, DrainKeep
<1>f. ~NoQueue.working /\ ~NoQueue.present BY DEF NoQueue
<1>g. AbandonImmediate(w) /\ IsImmediate(w) => SameDrainers
  <2>1. Off.pc = "off" BY DEF Off
  <2> QED BY Zenon, <2>1, ImmediateKeeps DEF AbandonImmediate, IsImmediate, Exit
<1>h. go[w].pc \in {"top", "park", "requeue", "clear"} => g \in Group /\ Drains(w, p, g)
  BY <1>a, <1>c DEF RoutineOK, Drains
<1>1. CASE Pop(w)
  <2>0. g \in Group /\ Drains(w, p, g) BY Zenon, <1>1, <1>h DEF Pop
  <2>1. CASE groupQs' = [groupQs EXCEPT ![p][g] = NoQueue] /\ Exit(w)
    BY Zenon, <2>0, <2>1, <1>b, <1>d, <1>f, DrainEnd
  <2>2. CASE /\ groupQs[p][g].present
             /\ groupQs' = [groupQs EXCEPT ![p][g].msgs = Tail(@)]
             /\ go' = [go EXCEPT ![w].pc = "dec", ![w].msg = Head(groupQs[p][g].msgs)]
    <3> DEFINE t == Tail(groupQs[p][g].msgs)
               y == Head(groupQs[p][g].msgs)
               q == [groupQs[p][g] EXCEPT !.msgs = t]
               r == [go[w] EXCEPT !.pc = "dec", !.msg = y]
    <3>1. groupQs' = [groupQs EXCEPT ![p][g] = q] BY <2>2, <1>d, <2>0 DEF Sound, Queues
    <3>2. go' = [go EXCEPT ![w] = r] BY Zenon, <2>2
    <3> HIDE DEF t, y
    <3>3. groupQs[p][g] \in groupQueue BY <1>d, <2>0 DEF Sound, Queues
    <3>4. q.present /\ q.working = groupQs[p][g].working BY Zenon, <2>2, <3>3 DEF groupQueue
    <3>5. r.pc # "off" /\ r.pool = p /\ r.group = g BY <1>c DEF Routine
    <3> HIDE DEF q, r
    <3>6. SameDrainers BY Zenon, <3>2, <3>5, <1>a, MoveKeeps
    <3> QED BY ZenonT(30), <2>0, <2>2, <3>1, <3>4, <3>6, <1>b, <1>d, DrainRefill
  <2> QED BY Zenon, <1>1, <2>1, <2>2 DEF Pop
<1>2. CASE LeaveQueue(w) \/ AcquireSlot(w) \/ CountFront(w) \/ BackoffElapsed(w)
           \/ EnsureOwned(w) \/ MediateTerminal(w) \/ AckSend(w)
  <2>1. UNCHANGED groupQs
    BY <1>2 DEF LeaveQueue, AcquireSlot, CountFront, BackoffElapsed, EnsureOwned, MediateTerminal, AckSend
  <2>2. \E pc \in WorkerPC \ {"off"} : Goto(w, pc)
    BY <1>2 DEF LeaveQueue, AcquireSlot, CountFront, BackoffElapsed, EnsureOwned,
                MediateTerminal, AckSend, WorkerPC
  <2> QED BY <2>1, <2>2, <1>a, <1>e, GotoKeeps
<1>3. CASE CancelledAcquire(w)
  <2>1. CASE IsImmediate(w) /\ AbandonImmediate(w)
    BY <1>3, <2>1, <1>e, <1>g DEF CancelledAcquire
  <2>2. CASE Goto(w, "park") BY <1>3, <2>2, <1>a, <1>e, GotoKeeps DEF CancelledAcquire
  <2> QED BY <1>3, <2>1, <2>2 DEF CancelledAcquire
<1>4. CASE CancelledBackoff(w)
  <2>1. CASE IsImmediate(w) /\ AbandonImmediate(w)
    BY <1>4, <2>1, <1>e, <1>g DEF CancelledBackoff
  <2>2. CASE Goto(w, "clear") BY <1>4, <2>2, <1>a, <1>e, GotoKeeps DEF CancelledBackoff
  <2> QED BY <1>4, <2>1, <2>2 DEF CancelledBackoff
<1>5. CASE Refront(w)
  <2>0. g \in Group /\ Drains(w, p, g) BY <1>5, <1>h DEF Refront
  <2>1. CASE stopped[p] /\ Exit(w) /\ UNCHANGED groupQs
    <3> DEFINE q == groupQs[p][g]
    <3>1. groupQs' = [groupQs EXCEPT ![p][g] = q] BY <2>0, <2>1, <1>d DEF Sound, Queues
    <3>2. (q.present \/ q = NoQueue) /\ (stopped[p] /\ mgr.pool # p => q = NoQueue)
      BY <2>0, <1>d DEF DrainInv
    <3> QED BY Zenon, <2>0, <2>1, <3>1, <3>2, <1>b, <1>d, DrainEnd
  <2>2. CASE /\ ~stopped[p]
             /\ Put(p, g, <<go[w].msg>> \o groupQs[p][g].msgs)
             /\ go' = [go EXCEPT ![w].pc = IF @ = "park" THEN "parkCount" ELSE "requeueCount",
                                 ![w].msg = None]
    <3> DEFINE t == <<go[w].msg>> \o groupQs[p][g].msgs
               q == [groupQs[p][g] EXCEPT !.present = TRUE, !.msgs = t]
               pc == IF go[w].pc = "park" THEN "parkCount" ELSE "requeueCount"
               r == [go[w] EXCEPT !.pc = pc, !.msg = None]
    <3>1. groupQs' = [groupQs EXCEPT ![p][g] = q]
      <4> HIDE DEF t
      <4> QED BY Zenon, <2>2, <1>d, <2>0 DEF Put, Sound, Queues, t
    <3>2. go' = [go EXCEPT ![w] = r] BY Zenon, <2>2
    <3>3. pc # "off" OBVIOUS
    <3> HIDE DEF t, pc
    <3>4. groupQs[p][g] \in groupQueue BY <1>d, <2>0 DEF Sound, Queues
    <3>5. q.present /\ q.working = groupQs[p][g].working BY <3>4 DEF groupQueue
    <3>6. r.pc # "off" /\ r.pool = p /\ r.group = g BY <3>3, <1>c DEF Routine
    <3> HIDE DEF q, r
    <3>7. SameDrainers BY Zenon, <3>2, <3>6, <1>a, MoveKeeps
    <3> QED BY Zenon, <2>0, <2>2, <3>1, <3>5, <3>7, <1>b, <1>d, DrainRefill
  <2> QED BY <1>5, <2>1, <2>2 DEF Refront
<1>6. CASE ClearWorking(w)
  <2> DEFINE q == [groupQs[p][g] EXCEPT !.working = FALSE]
  <2>0. g \in Group /\ Drains(w, p, g) BY <1>6, <1>h DEF ClearWorking
  <2>1. groupQs' = [groupQs EXCEPT ![p][g] = q] /\ Exit(w) BY <1>6, <1>d, <2>0 DEF ClearWorking, Sound, Queues
  <2>2. groupQs[p][g] \in groupQueue BY <1>d, <2>0 DEF Sound, Queues
  <2>3. ~q.working /\ q.present = groupQs[p][g].present BY <2>2 DEF groupQueue
  <2>4. groupQs[p][g] = NoQueue => q = NoQueue
    <3> DEFINE n == [NoQueue EXCEPT !.working = FALSE]
    <3>1. NoQueue \in groupQueue BY DEF NoQueue, groupQueue
    <3>2. n \in groupQueue BY Zenon, <3>1 DEF groupQueue
    <3>3. n.present = NoQueue.present /\ n.msgs = NoQueue.msgs BY <3>1 DEF groupQueue
    <3>4. n.working = NoQueue.working BY <3>1 DEF groupQueue, NoQueue
    <3> HIDE DEF n
    <3>5. n = NoQueue BY <3>1, <3>2, <3>3, <3>4 DEF groupQueue
    <3> QED BY <3>5 DEF n
  <2> HIDE DEF q
  <2>5. (q.present \/ q = NoQueue) /\ (stopped[p] /\ mgr.pool # p => q = NoQueue)
    BY <2>0, <2>3, <2>4, <1>d DEF DrainInv
  <2> QED BY Zenon, <2>0, <2>1, <2>3, <2>5, <1>b, <1>d, DrainEnd
<1>7. CASE AckDuplicate(w) \/ AckRemove(w)
  BY <1>7, <1>a, <1>e, DoneKeeps DEF AckDuplicate, AckRemove
<1>8. CASE MediateRetry(w)
  <2> DEFINE y == [go[w].msg EXCEPT !.retried = TRUE]
             pc == IF IsImmediate(w) THEN "requeueCount" ELSE "requeue"
             r == [go[w] EXCEPT !.pc = pc, !.msg = y]
  <2>1. go' = [go EXCEPT ![w] = r] BY Zenon, <1>8 DEF MediateRetry
  <2>2. pc # "off" OBVIOUS
  <2> HIDE DEF y, pc
  <2>3. r.pc # "off" /\ r.pool = p /\ r.group = g BY <2>2, <1>c DEF Routine
  <2> HIDE DEF r
  <2> QED BY Zenon, <1>8, <2>1, <2>3, <1>a, <1>e, MoveKeeps DEF MediateRetry
<1>9. CASE AckRead(w)
  <2> DEFINE h == CurrentReceipt(tracker, go[w].msg)
             r == [go[w] EXCEPT !.pc = "ackSend", !.rh = h]
  <2>1. go' = [go EXCEPT ![w] = r] BY Zenon, <1>9 DEF AckRead
  <2> HIDE DEF h
  <2>2. r.pc # "off" /\ r.pool = p /\ r.group = g BY <1>c DEF Routine
  <2> HIDE DEF r
  <2> QED BY Zenon, <1>9, <2>1, <2>2, <1>a, <1>e, MoveKeeps DEF AckRead
<1> QED BY <1>1, <1>2, <1>3, <1>4, <1>5, <1>6, <1>7, <1>8, <1>9 DEF RunGoroutine

LEMMA DrainManager ==
  ASSUME Sound, DrainInv, RunManager
  PROVE  DrainInv'
<1> USE DEF poolVars, mgrVars
<1>a. mgr \in Stopping /\ StoppingOK BY DEF Sound, ManagerOK
<1>b. SameDrainers
  BY Zenon DEF RunManager, StopPool, StopDone, Flush, ReleaseFlushed, SameDrainers, Drains
<1>c. ~NoQueue.working /\ ~NoQueue.present BY DEF NoQueue
<1>d. stopped \in [Pool -> BOOLEAN] /\ None \notin Pool BY RouterAssumption DEF Sound, ManagerOK
<1>1. ASSUME NEW k \in Code, StopPool(k) PROVE DrainInv'
  <2>1. pools[k] \in Pool BY <1>1, <1>a DEF StopPool, StoppingOK
  <2>2. mgr'.pool = pools[k] BY <1>1, <1>a DEF StopPool, Stopping
  <2>3. mgr.pool = None /\ UNCHANGED groupQs BY <1>1 DEF StopPool
  <2>4. \A p \in Pool : stopped'[p] = (stopped[p] \/ p = pools[k]) BY Zenon, <1>1, <2>1, <1>d DEF StopPool
  <2> QED BY <2>1, <2>2, <2>3, <2>4, <1>b, <1>d DEF DrainInv, SameDrainers
<1>2. ASSUME NEW k \in Code, StopDone(k) PROVE DrainInv'
  <2>1. mgr'.pool = None BY <1>2, <1>a DEF StopDone, Stopping
  <2>2. \A g \in Group : ~groupQs[mgr.pool][g].present BY <1>2 DEF StopDone
  <2>3. UNCHANGED <<groupQs, stopped>> BY <1>2 DEF StopDone
  <2> QED BY <2>1, <2>2, <2>3, <1>b DEF DrainInv, SameDrainers
<1>3. CASE Flush
  <2> DEFINE p == mgr.pool
  <2>1. p \in Pool /\ stopped[p] BY <1>3, <1>a DEF Flush, Stopping, StoppingOK
  <2>2. \A g \in Group : groupQs'[p][g] = NoQueue BY <1>3, <2>1 DEF Flush, Sound, Queues
  <2>3. \A k \in Pool, g \in Group : k # p => groupQs'[k][g] = groupQs[k][g]
    BY <1>3, <2>1 DEF Flush, Sound, Queues
  <2>4. mgr'.pool = p /\ UNCHANGED stopped BY <1>3, <1>a DEF Flush, Stopping
  <2> HIDE DEF p
  <2>5. \A k \in Pool, g \in Group : groupQs'[k][g] = IF k = p THEN NoQueue ELSE groupQs[k][g]
    BY <2>2, <2>3
  <2>6. \A v, w \in Worker, k \in Pool, g \in Group : (Drains(v, k, g) /\ Drains(w, k, g))' => v = w
    BY <1>b DEF DrainInv, SameDrainers
  <2>7. \A w \in Worker, k \in Pool, g \in Group :
          Drains(w, k, g)' => (groupQs[k][g].working \/ (stopped[k] /\ groupQs[k][g] = NoQueue))'
    BY <2>1, <2>4, <2>5, <1>b DEF DrainInv, SameDrainers
  <2>8. \A k \in Pool, g \in Group :
          (~stopped[k] /\ groupQs[k][g].working)' => \E w \in Worker : Drains(w, k, g)'
    <3> SUFFICES ASSUME NEW k \in Pool, NEW g \in Group, (~stopped[k] /\ groupQs[k][g].working)'
                 PROVE  \E w \in Worker : Drains(w, k, g)'
      OBVIOUS
    <3>1. ~stopped[k] /\ groupQs[k][g].working BY <2>1, <2>4, <2>5
    <3>2. PICK w \in Worker : Drains(w, k, g) BY <3>1 DEF DrainInv
    <3> QED BY <3>2, <1>b DEF SameDrainers
  <2>9. \A k \in Pool, g \in Group : (groupQs[k][g].present \/ groupQs[k][g] = NoQueue)'
    BY <2>5 DEF DrainInv
  <2>10. \A k \in Pool, g \in Group : (stopped[k] /\ mgr.pool # k)' => groupQs'[k][g] = NoQueue
    BY <2>4, <2>5 DEF DrainInv, p
  <2> QED BY <2>6, <2>7, <2>8, <2>9, <2>10 DEF DrainInv
<1>4. CASE ReleaseFlushed
  BY <1>4, <1>a, <1>b, DrainKeep DEF ReleaseFlushed, Stopping
<1> QED BY <1>1, <1>2, <1>3, <1>4 DEF RunManager

LEMMA DrainNext == Sound /\ DrainInv /\ [Next]_vars => DrainInv'
<1> SUFFICES ASSUME Sound, DrainInv, [Next]_vars PROVE DrainInv'
  OBVIOUS
<1> USE DEF poolVars, mgrVars
<1>1. ASSUME UNCHANGED <<groupQs, stopped, go>>, mgr'.pool = mgr.pool PROVE DrainInv'
  BY <1>1, DrainKeep DEF SameDrainers, Drains
<1>2. CASE \/ \E b \in Broker : Publish(b) \/ Lapse(b)
           \/ \E c \in Consumer : Poll(c) \/ \E b \in Broker : DeleteAcked(c, b)
           \/ AddPools \/ AddConsumer \/ RemoveConsumer \/ CancelConsumer \/ ReplaceConsumer
           \/ Aging \/ ReapTracker \/ ForgetStalled \/ \E m \in Message : ForceNackStalled(m)
  BY Zenon, <1>1, <1>2 DEF Publish, Lapse, Poll, DeleteAcked, AddPools, AddConsumer, RemoveConsumer, CancelConsumer,
                    ReplaceConsumer, Aging, ReapTracker, ForgetStalled, ForceNackStalled
<1>3. CASE RemovePools \/ Shutdown
  <2>1. mgr.pool = None /\ mgr'.pool = None BY <1>3 DEF RemovePools, Shutdown, MgrFree, NoStop
  <2> QED BY <1>1, <1>3, <2>1 DEF RemovePools, Shutdown
<1>4. CASE UNCHANGED vars BY <1>1, <1>4 DEF vars
<1> QED BY <1>2, <1>3, <1>4, DrainConsumer, DrainGoroutine, DrainManager DEF Next

LEMMA DrainInvAlways == Spec => []DrainInv
BY SoundAlways, DrainInit, DrainNext, PTL DEF Spec

\* At most one drainer ever serves a group, whatever consumer restarts,
\* cancellations, retries and stops interleave (clearWorking's invariant).
THEOREM OneDrainerPerGroup == Spec => []SingleDrainer
<1>1. DrainInv => SingleDrainer BY DEF DrainInv, Drains, SingleDrainer, Drainers
<1> QED BY <1>1, DrainInvAlways, PTL

\* In a live pool the working flag is set exactly while a drainer runs: every
\* exit of drainGroup leaves its group resumable.
THEOREM FlagTellsDrainer == Spec => []WorkingIffDrained
<1>1. DrainInv => WorkingIffDrained
  <2> SUFFICES ASSUME DrainInv, NEW p \in Pool, NEW g \in Group, ~stopped[p]
               PROVE  groupQs[p][g].working <=> Drainers(p, g) # {}
    BY DEF WorkingIffDrained
  <2> QED BY DEF DrainInv, Drains, Drainers
<1> QED BY <1>1, DrainInvAlways, PTL

\* A pool that was stopped and let go holds no message for ever after: a late
\* enqueue or enqueueFront cannot slip past Stop's flush.
THEOREM StopStrandsNothing == Spec => []NothingStranded
<1>1. DrainInv => NothingStranded BY DEF DrainInv, NothingStranded
<1> QED BY <1>1, DrainInvAlways, PTL
=============================================================================
