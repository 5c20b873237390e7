--------------------------- MODULE InFlightTracker ---------------------------
(***************************************************************************)
(* The router's in-flight tracker (internal/router/inflight.go) as         *)
(* functions of its state; each is one critical section under the          *)
(* tracker's mutex.                                                        *)
(*                                                                         *)
(* A broker message is delivered as copies.  A copy carries the broker     *)
(* message id, the receipt handle of its delivery and whether it has been  *)
(* retried in the pipeline.  Both maps of the tracker point at the same    *)
(* entry object, which is named here by the broker id it was created for:  *)
(* byBroker holds the object, byMessage its name.                          *)
(***************************************************************************)
EXTENDS Naturals

CONSTANTS
  Broker,       \* messages held by the broker
  Message,      \* application messages
  AppId,        \* broker message -> application message id
  HandleBound,  \* handle numbers per broker message that may be live at once
  None          \* nil / absent

Handle == Broker \X (1 .. HandleBound)      \* receipt handles
BrokerId == Broker \X (0 .. HandleBound)    \* broker message ids, see IdOf

Copy == [id : BrokerId, receipt : Handle, retried : BOOLEAN]

Msg(x) == AppId[x.id[1]]                    \* Message.ID of a copy

Entry == [receipt : Handle, retrying : BOOLEAN, fresh : BOOLEAN]

ASSUME TrackerAssumption ==
  /\ AppId \in [Broker -> Message]
  /\ HandleBound \in Nat \ {0}
  /\ None \notin Handle \cup BrokerId
  /\ None \notin Copy
  /\ None \notin Entry

Tracker ==
  [ byBroker  : [BrokerId -> Entry \cup {None}],
    byMessage : [Message -> BrokerId \cup {None}] ]

NewInFlightTracker ==
  [ byBroker  |-> [i \in BrokerId |-> None],
    byMessage |-> [m \in Message |-> None] ]

-----------------------------------------------------------------------------
\* The broker id is not looked up; not what the code does.
OutcomeByMessage(t, x) ==
  IF t.byMessage[Msg(x)] # None THEN "ExternalRequeue" ELSE "New"

RegisterOutcome(t, x) ==
  IF t.byBroker[x.id] # None THEN "Redelivery"
  ELSE IF t.byMessage[Msg(x)] # None THEN "ExternalRequeue" ELSE "New"

\* UpdateReceiptHandle: adopt the handle and refresh LastSeenAt.
Swap(t, x) ==
  [ byBroker  |-> [t.byBroker EXCEPT ![x.id] = [receipt |-> x.receipt,
                                                retrying |-> @.retrying, fresh |-> TRUE]],
    byMessage |-> t.byMessage ]

Insert(t, x) ==
  [ byBroker  |-> [t.byBroker EXCEPT ![x.id] = [receipt |-> x.receipt,
                                                retrying |-> FALSE, fresh |-> TRUE]],
    byMessage |-> [t.byMessage EXCEPT ![Msg(x)] = x.id] ]

Register(t, x) ==
  CASE RegisterOutcome(t, x) = "Redelivery" -> Swap(t, x)
    [] RegisterOutcome(t, x) = "New" -> Insert(t, x)
    [] OTHER -> t

\* A copy without its own entry counts as a duplicate; not what the code does.
EnsureTrackedStrict(t, x) == t.byBroker[x.id] # None

\* FALSE when a different copy of the application message owns the pipeline.
EnsureTrackedOk(t, x) == t.byBroker[x.id] # None \/ t.byMessage[Msg(x)] = None

EnsureTracked(t, x) ==
  IF t.byBroker[x.id] = None /\ t.byMessage[Msg(x)] = None THEN Insert(t, x) ELSE t

\* Broker id preferred, message id fallback, else the copy's own handle
\* (ackTracked).
CurrentReceipt(t, x) ==
  LET owner == t.byMessage[Msg(x)] IN
  IF t.byBroker[x.id] # None THEN t.byBroker[x.id].receipt
  ELSE IF owner # None THEN t.byBroker[owner].receipt
  ELSE x.receipt

\* Message id preferred, broker id fallback.
MarkRetrying(t, x) ==
  LET owner == IF t.byMessage[Msg(x)] # None THEN t.byMessage[Msg(x)] ELSE x.id IN
  IF t.byBroker[owner] = None THEN t
  ELSE [ byBroker  |-> [t.byBroker EXCEPT ![owner] = [receipt |-> @.receipt,
                                                      retrying |-> TRUE, fresh |-> @.fresh]],
         byMessage |-> t.byMessage ]

Remove(t, x) ==
  [ byBroker  |-> [t.byBroker EXCEPT ![x.id] = None],
    byMessage |-> [t.byMessage EXCEPT ![Msg(x)] = None] ]

\* Only the broker index is pruned; not what the code does.
ReapBrokerOnly(t) ==
  [t EXCEPT !.byBroker = [i \in BrokerId |->
     IF @[i] # None /\ ~@[i].retrying /\ ~@[i].fresh THEN None ELSE @[i]]]

\* Entries unseen for maxAge and not being retried go; then every broker
\* alias that its message no longer points at goes.
Reap(t) ==
  LET Old(m) == LET i == t.byMessage[m] IN
                i # None /\ ~t.byBroker[i].retrying /\ ~t.byBroker[i].fresh
      kept == [m \in Message |-> IF Old(m) THEN None ELSE t.byMessage[m]]
  IN [ byMessage |-> kept,
       byBroker  |-> [i \in BrokerId |-> IF kept[AppId[i[1]]] = i THEN t.byBroker[i] ELSE None] ]

\* Time passes without a redelivery of any tracked message.
Stale(t) ==
  [ byBroker  |-> [i \in BrokerId |->
                     IF t.byBroker[i] = None THEN None
                     ELSE [receipt |-> t.byBroker[i].receipt,
                           retrying |-> t.byBroker[i].retrying, fresh |-> FALSE]],
    byMessage |-> t.byMessage ]
=============================================================================
