----------------------------- MODULE GroupFifo -----------------------------
(***************************************************************************)
(* What a pool promises for its ordered message groups: every lane (a      *)
(* group of a pool) is a FIFO of which only the head is ever served, by    *)
(* one server at a time.  A head that could not be delivered stays the     *)
(* head.  Only closing the pool takes items out of a lane unserved.        *)
(***************************************************************************)
EXTENDS Naturals, Sequences

CONSTANTS
  Pool,
  Group,
  Accepted   \* the copies a lane may hold

Lane == Pool \X Group

VARIABLES
  queue,     \* per lane: accepted and not yet finished, oldest first
  serving,   \* per lane: its head is being delivered
  closed     \* per pool: it has stopped

vars == <<queue, serving, closed>>

Init ==
  /\ queue = [l \in Lane |-> << >>]
  /\ serving = [l \in Lane |-> FALSE]
  /\ closed = [p \in Pool |-> FALSE]

Accept(l) ==
  /\ ~closed[l[1]]
  /\ Len(queue'[l]) = Len(queue[l]) + 1
  /\ \E x \in Accepted : queue' = [queue EXCEPT ![l] = Append(@, x)]
  /\ UNCHANGED <<serving, closed>>

Serve(l) ==
  /\ queue[l] # << >> /\ ~serving[l]
  /\ serving' = [serving EXCEPT ![l] = TRUE]
  /\ UNCHANGED <<queue, closed>>

\* The delivery failed for now: the item stays at the head.
Retry(l) ==
  /\ serving[l]
  /\ serving' = [serving EXCEPT ![l] = FALSE]
  /\ UNCHANGED <<queue, closed>>

Finish(l) ==
  /\ serving[l]
  /\ serving' = [serving EXCEPT ![l] = FALSE]
  /\ queue' = [queue EXCEPT ![l] = Tail(@)]
  /\ UNCHANGED closed

Close(p) ==
  /\ ~closed[p]
  /\ closed' = [closed EXCEPT ![p] = TRUE]
  /\ UNCHANGED <<queue, serving>>

\* A closed pool's lanes are emptied, all but a head in a server's hands ...
Flush(p) ==
  /\ closed[p]
  /\ DOMAIN queue' = Lane
  /\ \A l \in Lane :
       IF l[1] # p THEN queue'[l] = queue[l]
       ELSE \/ queue'[l] = << >> /\ ~serving[l]
            \/ queue[l] # << >> /\ queue'[l] = <<Head(queue[l])>>
  /\ UNCHANGED <<serving, closed>>

\* ... which the server gives back once it finds the pool closed.
GiveBack(l) ==
  /\ closed[l[1]] /\ ~serving[l] /\ queue[l] # << >>
  /\ queue' = [queue EXCEPT ![l] = Tail(@)]
  /\ UNCHANGED <<serving, closed>>

Next ==
  \/ \E l \in Lane : Accept(l) \/ Serve(l) \/ Retry(l) \/ Finish(l) \/ GiveBack(l)
  \/ \E p \in Pool : Close(p) \/ Flush(p)

Spec == Init /\ [][Next]_vars
=============================================================================
