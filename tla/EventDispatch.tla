---------------------------- MODULE EventDispatch ----------------------------
(***************************************************************************)
(* Webhooks to the tenants' own endpoints (packages/events): an event is   *)
(* matched with the subscriptions of its tenant.  dispatch makes one       *)
(* signed attempt from the prior outcome its host hands it, and returns    *)
(* the next: delivered, failed with the time of a retry after a growing    *)
(* delay, or a dead letter after MaxAttempts.  It keeps nothing, so two    *)
(* ticks of the host may start from one prior; the host (external) keeps   *)
(* what it was last returned.  A request or its answer may be lost, slow,  *)
(* or end in an exception, which returns nothing; the endpoint checks the  *)
(* signature's age (verifySignature) and drops a key it has seen.          *)
(***************************************************************************)
EXTENDS Integers, Sequences, FiniteSets

CONSTANTS
  Endpoints,     \* the subscriptions: [id, tenant, active, filter]
  Envelopes,     \* the events: [id, tenant, name]
  AnyEvent,      \* the filter "*"
  Ticks,         \* the calls of dispatch that may run at once
  MaxAttempts,   \* policy.maxAttempts
  BaseRetry, BackoffFactor,
  Skew,          \* the endpoint's tolerance of a signature's age
  MaxClock       \* bound on the clock

ASSUME DispatchAssumption ==
  /\ MaxAttempts \in Nat \ {0} /\ BaseRetry \in Nat /\ BackoffFactor \in Nat
  /\ Skew \in Nat /\ MaxClock \in Nat

VARIABLES
  clock,
  outcome,       \* the DeliveryOutcome the host keeps for each delivery
  sent,          \* the attempt each tick awaits, or None
  failures,      \* history: how many attempts the provider reported as failed
  processed      \* the idempotency keys the endpoints have acted on, with counts

dispatching == <<clock, outcome, sent, failures, processed>>

SubscriptionMatches(s, e) ==
  /\ s.active
  /\ s.tenant = e.tenant
  /\ s.filter = AnyEvent \/ e.name \in s.filter

\* deliveryIdempotencyKey: the same for every attempt at a delivery.
Deliveries == {d \in Endpoints \X Envelopes : SubscriptionMatches(d[1], d[2])}

NotTried == [status |-> "new", attempts |-> 0, due |-> 0]
None == [at |-> -1]
Terminal(d) == outcome[d].status \in {"delivered", "dead_letter"}
NextRetryDelay(attempt) == BaseRetry * BackoffFactor^(attempt - 1)

DispatchInit ==
  /\ clock = 0
  /\ outcome = [d \in Deliveries |-> NotTried]
  /\ sent = [t \in Ticks |-> None]
  /\ failures = [d \in Deliveries |-> 0]
  /\ processed = [d \in Deliveries |-> 0]

\* buildDelivery for the attempt after those of the prior outcome; the signature
\* carries the now of the tick.
Signed(d, now) ==
  [delivery |-> d, attempt |-> outcome[d].attempts + 1, at |-> now, answer |-> "none"]
Fresh(attempt) == attempt.at - Skew <= clock /\ clock <= attempt.at + Skew

\* As if every prior outcome were returned unchanged, not only a terminal one.
Mutant_ReturnsAnyPrior(t, d, now) ==
  /\ sent[t] = None
  /\ outcome[d].status = "new"
  /\ sent' = [sent EXCEPT ![t] = Signed(d, now)]
  /\ UNCHANGED <<clock, outcome, failures, processed>>

\* dispatch up to its await: a terminal prior is returned unchanged; nothing is
\* asked of the time or of other ticks.
Attempt(t, d, now) ==
  /\ sent[t] = None
  /\ ~Terminal(d)
  /\ sent' = [sent EXCEPT ![t] = Signed(d, now)]
  /\ UNCHANGED <<clock, outcome, failures, processed>>

\* The endpoint: verifySignature, then the check of the key.
Receive(t) ==
  /\ sent[t] # None /\ sent[t].answer = "none"
  /\ LET fresh == Fresh(sent[t])
     IN /\ sent' = [sent EXCEPT ![t].answer = IF fresh THEN "delivered" ELSE "failed"]
        /\ processed' = [processed EXCEPT ![sent[t].delivery] =
                           IF fresh /\ @ = 0 THEN 1 ELSE @]
  /\ UNCHANGED <<clock, outcome, failures>>

\* The request, or its answer, does not arrive: the provider reports a failure ...
Lose(t) ==
  /\ sent[t] # None /\ sent[t].answer # "failed"
  /\ sent' = [sent EXCEPT ![t].answer = "failed"]
  /\ UNCHANGED <<clock, outcome, failures, processed>>

\* ... or rejects: dispatch ends with the exception, and its attempt counts
\* nowhere.
Throw(t) ==
  /\ sent[t] # None
  /\ sent' = [sent EXCEPT ![t] = None]
  /\ UNCHANGED <<clock, outcome, failures, processed>>

\* dispatch after its await, on the prior it was called with.  The delay counts
\* from the now of the tick.
Record(t) ==
  /\ sent[t] # None /\ sent[t].answer # "none"
  /\ LET d == sent[t].delivery
         n == sent[t].attempt
         status == IF sent[t].answer = "delivered" THEN "delivered"
                   ELSE IF n >= MaxAttempts THEN "dead_letter" ELSE "failed"
     IN /\ outcome' = [outcome EXCEPT ![d] =
             [status |-> status, attempts |-> n,
              due |-> IF status = "failed" THEN sent[t].at + NextRetryDelay(n) ELSE 0]]
        /\ failures' = [failures EXCEPT ![d] = IF status = "delivered" THEN @ ELSE @ + 1]
  /\ sent' = [sent EXCEPT ![t] = None]
  /\ UNCHANGED <<clock, processed>>

\* The clock stops at its bound only once nothing waits for it.
ClockTicks ==
  /\ \/ clock < MaxClock
     \/ \E d \in Deliveries : ~Terminal(d) /\ clock < outcome[d].due
  /\ clock' = clock + 1
  /\ UNCHANGED <<outcome, sent, failures, processed>>

\* The host calls dispatch when it likes: by the clock, or, as
\* dispatchUntilSettled does, by the time the retry is due.
DispatchNext ==
  \/ \E t \in Ticks :
       \/ \E d \in Deliveries : \E now \in {clock, outcome[d].due} : Attempt(t, d, now)
       \/ Receive(t) \/ Lose(t) \/ Throw(t) \/ Record(t)
  \/ ClockTicks

\* A scheduler keeps calling dispatch while a retry is due and gives each delivery
\* its turn, a call ends one way or another, and time passes.
DispatchFairness ==
  /\ WF_dispatching(ClockTicks)
  /\ \A d \in Deliveries :
       SF_dispatching(\E t \in Ticks : clock >= outcome[d].due /\ Attempt(t, d, clock))
  /\ \A t \in Ticks :
       /\ WF_dispatching(Receive(t) \/ Lose(t) \/ Throw(t))
       /\ WF_dispatching(Record(t) \/ Throw(t))
DispatchSpec == DispatchInit /\ [][DispatchNext]_dispatching /\ DispatchFairness

-----------------------------------------------------------------------------
DispatchTypeOK ==
  /\ clock \in Nat
  /\ \A d \in Deliveries :
       /\ outcome[d].status \in {"new", "failed", "delivered", "dead_letter"}
       /\ outcome[d].attempts \in 0 .. MaxAttempts
       /\ failures[d] \in Nat /\ processed[d] \in 0 .. 1

\* However the ticks overlap, a delivery reported as made was acted on by its
\* endpoint, one that is given up used up every attempt, and every failed attempt
\* an outcome counts is one that the provider reported.
OutcomeIsTrue ==
  \A d \in Deliveries :
    /\ outcome[d].status = "delivered" => processed[d] = 1
    /\ outcome[d].status = "dead_letter" => outcome[d].attempts = MaxAttempts
    /\ failures[d] >= outcome[d].attempts - (IF outcome[d].status = "delivered" THEN 1 ELSE 0)

\* Every matched delivery ends for good, delivered or in the dead letters, with no
\* attempt on its way, however many requests and answers are lost and although a
\* late tick may reopen it, unless the provider's exceptions for it never end.
Quiet(d) == Terminal(d) /\ \A t \in Ticks : sent[t] # None => sent[t].delivery # d
Throws(d) == \E t \in Ticks : sent[t] # None /\ sent[t].delivery = d /\ Throw(t)
DeliverySettles ==
  \A d \in Deliveries : <>[]Quiet(d) \/ []<><<Throws(d)>>_dispatching

\* What the code does not keep: with two ticks, that no success is recorded of an
\* event recorded as delivered, and, with exceptions, that every delivery settles.
NeverDoubleDelivered ==
  [][\A t \in Ticks : Record(t) /\ sent[t].answer = "delivered"
       => outcome[sent[t].delivery].status # "delivered"]_dispatching
AlwaysSettles == \A d \in Deliveries : <>Terminal(d)
=============================================================================
