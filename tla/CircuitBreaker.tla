--------------------------- MODULE CircuitBreaker ---------------------------
(***************************************************************************)
(* The per-endpoint circuit breaker of the message router, the registry    *)
(* entry it is reached through, and the mediator calls that consult it     *)
(* (internal/router/circuit_breaker.go, HTTPMediator.Mediate).             *)
(*                                                                         *)
(* One endpoint URL is modelled: registry entries of different URLs share  *)
(* nothing but the map.  A breaker object outlives its registry entry for  *)
(* as long as a call holds it, so objects and the entry are kept apart.    *)
(* Time is a discrete clock read through two saturating ages per breaker:  *)
(* since the last failure and since the last activity.                     *)
(***************************************************************************)
EXTENDS Integers, Sequences, FiniteSets

CONSTANTS
  Calls,             \* concurrent Mediate calls against the endpoint
  Breakers,          \* breaker objects; one nobody references is reused
  NoBreaker,         \* absence of a registry entry
  BufferSize,        \* sliding-window length in samples
  MinCalls,          \* samples needed before the rate is evaluated
  SuccessThreshold,  \* half-open successes that close the breaker
  ResetTimeout,      \* ticks an Open breaker waits after the last failure
  MaxIdle,           \* ticks without activity after which Evict may drop it
  RateNum, RateDen   \* FailureRateThreshold as the fraction RateNum / RateDen

ASSUME BreakerAssumption ==
  /\ BufferSize \in Nat \ {0}
  /\ MinCalls \in Nat \ {0}
  /\ SuccessThreshold \in Nat \ {0}
  /\ ResetTimeout \in Nat \ {0}
  /\ MaxIdle \in Nat \ {0}
  /\ RateNum \in Nat \ {0}
  /\ RateDen \in Nat \ {0}
  /\ NoBreaker \notin Breakers

VARIABLES
  m,         \* the registry entry of the URL
  cb,        \* the breaker objects
  call,      \* where each Mediate call is and which object it holds
  evicting,  \* Evict is between its read-locked scan and its write lock
  healthy,   \* whether the endpoint currently answers (environment)
  recent     \* history: outcomes since the window was cleared, newest last

vars == <<m, cb, call, evicting, healthy, recent>>

-----------------------------------------------------------------------------
(* Breaker objects *)

NoFailure == -1   \* lastFailureNano = 0: no failure since creation or Reset

Slots == 0 .. (BufferSize - 1)

CircuitState == {"Closed", "Open", "HalfOpen"}

Breaker ==
  [ state             : CircuitState,
    window            : [Slots -> BOOLEAN],
    head              : Slots,
    count             : 0 .. BufferSize,
    halfOpenSuccesses : 0 .. SuccessThreshold,
    sinceFailure      : (0 .. ResetTimeout) \cup {NoFailure},
    idleFor           : 0 .. MaxIdle ]

NewCircuitBreaker ==
  [ state |-> "Closed", window |-> [i \in Slots |-> FALSE],
    head |-> 0, count |-> 0, halfOpenSuccesses |-> 0,
    sinceFailure |-> NoFailure, idleFor |-> 0 ]

\* A clear that only rewinds the count; not what the code does.
ClearCountOnly(b) == [b EXCEPT !.count = 0]

clearWindowLocked(b) == [b EXCEPT !.head = 0, !.count = 0]

\* A push that runs off the end of the window; not what the code does.
PushPastEnd(b, ok) ==
  [b EXCEPT !.window[b.head] = ok,
            !.head  = b.head + 1,
            !.count = IF b.count < BufferSize THEN b.count + 1 ELSE b.count]

pushLocked(b, ok) ==
  [b EXCEPT !.window[b.head] = ok,
            !.head  = (b.head + 1) % BufferSize,
            !.count = IF b.count < BufferSize THEN b.count + 1 ELSE b.count]

failuresLocked(b) ==
  Cardinality({i \in 0 .. (b.count - 1) : ~b.window[i]})

\* A strict comparison; not what the code does.
RateExceeded(b) ==
  /\ b.count >= MinCalls
  /\ failuresLocked(b) * RateDen > RateNum * b.count

\* count >= MinCalls /\ failureRateLocked() >= FailureRateThreshold
RateReached(b) ==
  /\ b.count >= MinCalls
  /\ failuresLocked(b) * RateDen >= RateNum * b.count

Touch(b) == [b EXCEPT !.idleFor = 0]

Fail(b) == [pushLocked(Touch(b), FALSE) EXCEPT !.sinceFailure = 0]

\* A failure that is not time-stamped; not what the code does.
UnstampedFailure(b) ==
  LET f == pushLocked(Touch(b), FALSE) IN
  IF b.state = "Closed" /\ RateReached(f) THEN [f EXCEPT !.state = "Open"] ELSE f

RecordFailure(b) ==
  LET f == Fail(b) IN
  CASE b.state = "Closed" /\ RateReached(f) -> [f EXCEPT !.state = "Open"]
    [] b.state = "HalfOpen" -> [f EXCEPT !.state = "Open", !.halfOpenSuccesses = 0]
    [] OTHER -> f

\* Half-open successes never add up; not what the code does.
ForgetfulSuccess(b) == pushLocked(Touch(b), TRUE)

RecordSuccess(b) ==
  LET s == pushLocked(Touch(b), TRUE) IN
  IF b.state # "HalfOpen" THEN s
  ELSE IF b.halfOpenSuccesses + 1 >= SuccessThreshold
       THEN [clearWindowLocked(s) EXCEPT !.state = "Closed", !.halfOpenSuccesses = 0]
       ELSE [s EXCEPT !.halfOpenSuccesses = b.halfOpenSuccesses + 1]

Reset(b) ==
  [clearWindowLocked(Touch(b)) EXCEPT
     !.state = "Closed", !.halfOpenSuccesses = 0, !.sinceFailure = NoFailure]

CooledDown(b) == b.sinceFailure # NoFailure /\ b.sinceFailure >= ResetTimeout

Allowed(b) == b.state # "Open" \/ CooledDown(b)

Allow(b) ==
  IF b.state = "Open" /\ CooledDown(b)
  THEN [Touch(b) EXCEPT !.state = "HalfOpen", !.halfOpenSuccesses = 0]
  ELSE Touch(b)

\* History: the reference window.
Remember(r, ok) ==
  LET all == Append(r, ok) IN
  IF Len(all) > BufferSize THEN Tail(all) ELSE all

-----------------------------------------------------------------------------
TypeOK ==
  /\ m \in Breakers \cup {NoBreaker}
  /\ cb \in [Breakers -> Breaker]
  /\ call \in [Calls -> [pc : {"idle", "got", "calling"}, obj : Breakers \cup {NoBreaker}]]
  /\ evicting \in BOOLEAN
  /\ healthy \in BOOLEAN
  /\ recent \in [Breakers -> Seq(BOOLEAN)]

Init ==
  /\ m = NoBreaker
  /\ cb = [b \in Breakers |-> NewCircuitBreaker]
  /\ call = [c \in Calls |-> [pc |-> "idle", obj |-> NoBreaker]]
  /\ evicting = FALSE
  /\ healthy \in BOOLEAN
  /\ recent = [b \in Breakers |-> << >>]

Referenced == {m} \cup {call[c].obj : c \in Calls}

\* BreakerRegistry.Get: the registered object, or a fresh one registered under
\* the write lock after the second lookup.
Get(c) ==
  /\ call[c].pc = "idle"
  /\ \/ /\ m # NoBreaker
        /\ call' = [call EXCEPT ![c] = [pc |-> "got", obj |-> m]]
        /\ UNCHANGED <<m, cb, recent>>
     \/ /\ m = NoBreaker
        /\ \E b \in Breakers \ Referenced :
             /\ m' = b
             /\ cb' = [cb EXCEPT ![b] = NewCircuitBreaker]
             /\ recent' = [recent EXCEPT ![b] = << >>]
             /\ call' = [call EXCEPT ![c] = [pc |-> "got", obj |-> b]]
  /\ UNCHANGED <<evicting, healthy>>

\* Mediate's admission: an open breaker short-circuits the call.
Admit(c) ==
  LET b == call[c].obj IN
  /\ call[c].pc = "got"
  /\ cb' = [cb EXCEPT ![b] = Allow(cb[b])]
  /\ call' = [call EXCEPT ![c] = IF Allowed(cb[b])
                                 THEN [pc |-> "calling", obj |-> b]
                                 ELSE [pc |-> "idle", obj |-> NoBreaker]]
  /\ UNCHANGED <<m, evicting, healthy, recent>>

Return(c) == call' = [call EXCEPT ![c] = [pc |-> "idle", obj |-> NoBreaker]]

\* Mediate records the outcome of deliverWithRetry: 2xx and 4xx are successes.
Succeed(c) ==
  LET b == call[c].obj IN
  /\ call[c].pc = "calling"
  /\ healthy
  /\ cb' = [cb EXCEPT ![b] = RecordSuccess(cb[b])]
  /\ recent' = [recent EXCEPT ![b] =
                  IF cb[b].state = "HalfOpen" /\ cb'[b].state = "Closed"
                  THEN << >> ELSE Remember(@, TRUE)]
  /\ Return(c)
  /\ UNCHANGED <<m, evicting, healthy>>

\* 5xx, timeouts and connection errors are failures.
FailCall(c) ==
  LET b == call[c].obj IN
  /\ call[c].pc = "calling"
  /\ ~healthy
  /\ cb' = [cb EXCEPT ![b] = RecordFailure(cb[b])]
  /\ recent' = [recent EXCEPT ![b] = Remember(@, FALSE)]
  /\ Return(c)
  /\ UNCHANGED <<m, evicting, healthy>>

\* A 429 is recorded as neither.
Throttled(c) ==
  /\ call[c].pc = "calling"
  /\ Return(c)
  /\ UNCHANGED <<m, cb, evicting, healthy, recent>>

\* Operator reset of the registered breaker (BreakerRegistry.Reset, ResetAll).
ResetBreaker ==
  /\ m # NoBreaker
  /\ cb' = [cb EXCEPT ![m] = Reset(cb[m])]
  /\ recent' = [recent EXCEPT ![m] = << >>]
  /\ UNCHANGED <<m, call, evicting, healthy>>

Idle(b) == cb[b].idleFor = MaxIdle

\* Evict, first phase: collect idle candidates under the read lock.
EvictScan ==
  /\ ~evicting
  /\ m # NoBreaker /\ Idle(m)
  /\ evicting' = TRUE
  /\ UNCHANGED <<m, cb, call, healthy, recent>>

\* Evict, second phase: drop the candidate unless activity has resumed.
EvictDrop ==
  /\ evicting
  /\ m' = IF m # NoBreaker /\ Idle(m) THEN NoBreaker ELSE m
  /\ evicting' = FALSE
  /\ UNCHANGED <<cb, call, healthy, recent>>

Age(b) ==
  [b EXCEPT !.idleFor = IF @ < MaxIdle THEN @ + 1 ELSE @,
            !.sinceFailure = IF @ = NoFailure \/ @ >= ResetTimeout THEN @ ELSE @ + 1]

Tick ==
  /\ cb' = [b \in Breakers |-> Age(cb[b])]
  /\ UNCHANGED <<m, call, evicting, healthy, recent>>

EndpointFlips ==
  /\ healthy' = ~healthy
  /\ UNCHANGED <<m, cb, call, evicting, recent>>

Next ==
  \/ \E c \in Calls : Get(c) \/ Admit(c) \/ Succeed(c) \/ FailCall(c) \/ Throttled(c)
  \/ ResetBreaker
  \/ EvictScan
  \/ EvictDrop
  \/ Tick
  \/ EndpointFlips

Spec == Init /\ [][Next]_vars

\* Messages keep flowing to the endpoint and the clock runs; operators, the
\* idle reaper and the endpoint's health are unconstrained.
FairSpec ==
  /\ Spec
  /\ WF_vars(Tick)
  /\ \A c \in Calls : /\ WF_vars(Get(c) \/ Admit(c))
                      /\ SF_vars(Succeed(c))
                      /\ WF_vars(FailCall(c))

-----------------------------------------------------------------------------
(* Properties *)

Failures(s) == Cardinality({i \in 1 .. Len(s) : ~s[i]})

\* The ring buffer counts exactly the outcomes recorded since it was last
\* cleared, at most the BufferSize newest of them, whatever sequence of
\* records, closes and resets went before (failuresLocked scans slots
\* 0 .. count-1 and not the slots behind head).
WindowCountsRecent ==
  \A b \in Breakers : /\ cb[b].count = Len(recent[b])
                      /\ failuresLocked(cb[b]) = Failures(recent[b])

\* A Closed breaker trips in exactly the step that records the failure that
\* brings the recent outcomes to MinCalls samples and the threshold rate.
TripsExactlyOnRate ==
  [][\A b \in Breakers :
       (cb[b].state = "Closed" /\ cb'[b].state # "Closed")
         <=> /\ cb[b].state = "Closed"
             /\ \E c \in Calls : call[c].obj = b /\ FailCall(c)
             /\ Len(recent'[b]) >= MinCalls
             /\ Failures(recent'[b]) * RateDen >= RateNum * Len(recent'[b])]_vars

\* An Open breaker always carries a last-failure time.  Allow never leaves
\* Open without one, so an Open breaker lacking it would reject every message
\* for the endpoint until an operator resets it.
OpenHasFailureTime ==
  \A b \in Breakers : cb[b].state = "Open" => cb[b].sinceFailure # NoFailure

\* An endpoint that becomes and stays healthy is eventually served through a
\* Closed breaker, whatever state late failures, evictions and resets left it in.
HealthyEndpointCloses ==
  (<>[]healthy) => <>[](m # NoBreaker => cb[m].state = "Closed")
=============================================================================
