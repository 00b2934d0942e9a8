---------------------------- MODULE DurableOutbox ----------------------------
(***************************************************************************)
(* The durable outbox of migration 0016: rows that workers lease, perform  *)
(* and acknowledge through four functions of the database.                 *)
(*                                                                         *)
(* A function is one transaction that locks the rows it changes, hence one *)
(* step.  Workers are outside the database: between a lease and its        *)
(* acknowledgement they may be slow, die, perform the effect twice for two *)
(* leases, or miss the answer of a call and make it again.  A lease is     *)
(* named by its generation: the fresh token that goes with it is compared  *)
(* wherever the generation is.                                             *)
(***************************************************************************)
EXTENDS Naturals, FiniteSets

CONSTANTS
  Keys,          \* dedup keys of one tenant
  Envelopes,     \* booking, event type and attempt limit, without the key
  MaxAttempts,   \* max_attempts of an envelope
  Workers,
  Limit,         \* rows a lease call may take
  None

Failure == {"transient", "rate_limited", "permanent", "lease_expired"}

\* due: available_at has come.  over: lease_until has come.
Row == [envelope : Envelopes, state : {"ready", "leased", "completed", "dead"},
        attempts : Nat, generation : Nat, due : BOOLEAN, over : BOOLEAN,
        failure : Failure \cup {None}]

ASSUME OutboxAssumption ==
  /\ MaxAttempts \in [Envelopes -> 1 .. 10]
  /\ Limit \in Nat \ {0}
  /\ None \notin Row

VARIABLES
  row,        \* the rows of durable_outbox, by dedup key
  tickets,    \* the leases each worker still knows of
  effects,    \* external effects performed for each key
  accepted,   \* keys with the envelope whose enqueue returned an id
  confirmed   \* keys whose ack a worker saw succeed

vars == <<row, tickets, effects, accepted, confirmed>>

Ticket == [key : Keys, generation : Nat, performed : BOOLEAN]

Exists(k) == row[k] # None
LimitOf(k) == MaxAttempts[row[k].envelope]
Spent(k) == row[k].attempts >= LimitOf(k)
-----------------------------------------------------------------------------
\* outbox_enqueue: insert, or find the row of the same key and compare.
Enqueue(k, e) ==
  /\ \/ /\ ~ Exists(k)
        /\ row' = [row EXCEPT ![k] =
             [envelope |-> e, state |-> "ready", attempts |-> 0,
              generation |-> 0, due |-> TRUE, over |-> FALSE,
              failure |-> None]]
     \/ Exists(k) /\ row[k].envelope = e /\ UNCHANGED row
  /\ accepted' = accepted \cup {<<k, e>>}
  /\ UNCHANGED <<tickets, effects, confirmed>>

\* outbox_lease: first the leases that ran out on the last attempt are given
\* up, then up to Limit rows are taken; rows locked by others are skipped.
Exhausted == {k \in Keys : Exists(k) /\ row[k].state = "leased"
                           /\ row[k].over /\ Spent(k)}

Candidates ==
  {k \in Keys : /\ Exists(k) /\ ~ Spent(k)
                /\ \/ row[k].state = "ready" /\ row[k].due
                   \/ row[k].state = "leased" /\ row[k].over}

Mutant_SameGeneration(r) ==
  [r EXCEPT !.state = "leased", !.attempts = @ + 1, !.over = FALSE]

Leased(r) ==
  [r EXCEPT !.state = "leased", !.attempts = @ + 1, !.generation = @ + 1,
            !.over = FALSE]

Mutant_NeverDead(r) == r

GivenUp(r) ==
  [r EXCEPT !.state = "dead", !.over = FALSE, !.failure = "lease_expired"]

Lease(w) ==
  \E D \in SUBSET Exhausted, S \in SUBSET Candidates :
    /\ Cardinality(S) <= Limit
    /\ D \cup S # {}
    /\ row' = [k \in Keys |-> IF k \in S THEN Leased(row[k])
                              ELSE IF k \in D THEN GivenUp(row[k])
                              ELSE row[k]]
    /\ tickets' = [tickets EXCEPT ![w] = @ \cup
         {[key |-> k, generation |-> row[k].generation + 1,
           performed |-> FALSE] : k \in S}]
    /\ UNCHANGED <<effects, accepted, confirmed>>
-----------------------------------------------------------------------------
\* The worker's own part: the effect, once for each lease it got.
Perform(w, t) ==
  /\ ~ t.performed
  /\ effects' = [effects EXCEPT ![t.key] = @ + 1]
  /\ tickets' = [tickets EXCEPT ![w] =
                   (@ \ {t}) \cup {[t EXCEPT !.performed = TRUE]}]
  /\ UNCHANGED <<row, accepted, confirmed>>

\* The lease a call names is the last one given of its row.
Matches(t) == row[t.key].generation = t.generation

LiveLease(k) == row[k].state = "leased" /\ ~ row[k].over

\* The worker sees the answer and forgets the lease, or misses it.
Answered(w, t) ==
  tickets' \in {tickets, [tickets EXCEPT ![w] = @ \ {t}]}

\* outbox_ack, which a worker calls after the effect.
AckFails(w, t) ==
  /\ ~ (Matches(t) /\ (row[t.key].state = "completed" \/ LiveLease(t.key)))
  /\ UNCHANGED <<row, confirmed>>

AckAgain(w, t) ==
  /\ Matches(t) /\ row[t.key].state = "completed"
  /\ confirmed' \in {confirmed, confirmed \cup {t.key}}
  /\ UNCHANGED row

AckCompletes(w, t) ==
  /\ Matches(t) /\ LiveLease(t.key)
  /\ row' = [row EXCEPT ![t.key].state = "completed"]
  /\ confirmed' \in {confirmed, confirmed \cup {t.key}}

Ack(w, t) ==
  /\ t.performed
  /\ AckFails(w, t) \/ AckAgain(w, t) \/ AckCompletes(w, t)
  /\ Answered(w, t)
  /\ UNCHANGED <<effects, accepted>>

\* outbox_retry: the worker reports a failure, before or after the effect.
Mutant_RetryUnfenced(t, reason) ==
  row' = [row EXCEPT ![t.key].state = "ready", ![t.key].failure = reason,
                     ![t.key].due = FALSE, ![t.key].over = FALSE]

RetryReopens(t, reason) ==
  IF Matches(t) /\ LiveLease(t.key)
  THEN row' = [row EXCEPT
         ![t.key].state = IF Spent(t.key) \/ reason = "permanent"
                          THEN "dead" ELSE "ready",
         ![t.key].failure = reason,
         ![t.key].due = FALSE]
  ELSE UNCHANGED row

Retry(w, t) ==
  /\ \E reason \in {"transient", "rate_limited", "permanent"} :
       RetryReopens(t, reason)
  /\ Answered(w, t)
  /\ UNCHANGED <<effects, accepted, confirmed>>

Crash(w) ==
  /\ tickets[w] # {}
  /\ tickets' = [tickets EXCEPT ![w] = {}]
  /\ UNCHANGED <<row, effects, accepted, confirmed>>
-----------------------------------------------------------------------------
\* Time: lease_until and available_at pass.
LeaseEnds(k) ==
  /\ Exists(k) /\ LiveLease(k)
  /\ row' = [row EXCEPT ![k].over = TRUE]
  /\ UNCHANGED <<tickets, effects, accepted, confirmed>>

ComesDue(k) ==
  /\ Exists(k) /\ row[k].state = "ready" /\ ~ row[k].due
  /\ row' = [row EXCEPT ![k].due = TRUE]
  /\ UNCHANGED <<tickets, effects, accepted, confirmed>>
-----------------------------------------------------------------------------
Init ==
  /\ row = [k \in Keys |-> None]
  /\ tickets = [w \in Workers |-> {}]
  /\ effects = [k \in Keys |-> 0]
  /\ accepted = {}
  /\ confirmed = {}

WorkerStep(w) ==
  \/ Lease(w)
  \/ \E t \in tickets[w] : Perform(w, t) \/ Ack(w, t) \/ Retry(w, t)
  \/ Crash(w)

Next ==
  \/ \E k \in Keys, e \in Envelopes : Enqueue(k, e)
  \/ \E w \in Workers : WorkerStep(w)
  \/ \E k \in Keys : LeaseEnds(k) \/ ComesDue(k)

Spec == Init /\ [][Next]_vars

\* Time passes, and a consumer keeps asking for work.  No worker must ever
\* finish what it leased.
FairSpec ==
  /\ Spec
  /\ WF_vars(\E w \in Workers : Lease(w))
  /\ \A k \in Keys : WF_vars(LeaseEnds(k)) /\ WF_vars(ComesDue(k))
-----------------------------------------------------------------------------
\* With the CHECK constraints of the table: only a leased row has an end of
\* its lease, and only a row somebody leased has spent an attempt.
TypeOK ==
  /\ row \in [Keys -> Row \cup {None}]
  /\ \A k \in Keys : Exists(k) =>
       /\ row[k].over => row[k].state = "leased"
       /\ row[k].generation = row[k].attempts
       /\ row[k].attempts = 0 => row[k].state = "ready"
  /\ tickets \in [Workers -> SUBSET Ticket]
  /\ effects \in [Keys -> Nat]
  /\ accepted \subseteq Keys \X Envelopes
  /\ confirmed \subseteq Keys

\* Fencing: a lease that was given again is held by nobody else.  A slow
\* worker whose lease ran out can not acknowledge or reopen what another
\* worker has taken over.
OneHolder ==
  /\ \A w \in Workers : \A t \in tickets[w] :
       Exists(t.key) /\ t.generation <= row[t.key].generation
  /\ \A v, w \in Workers : \A t \in tickets[v], u \in tickets[w] :
       t.key = u.key /\ t.generation = u.generation => v = w /\ t = u

\* The effect is repeated only as often as the writer allowed attempts: every
\* effect is the effect of a lease of its own.
AttemptsBoundEffects ==
  \A k \in Keys :
    IF Exists(k) THEN effects[k] <= row[k].attempts /\ row[k].attempts <= LimitOf(k)
                 ELSE effects[k] = 0

\* An event is given up only when every attempt was used or a worker called
\* it permanently undeliverable.
DeadIsJustified ==
  \A k \in Keys : Exists(k) /\ row[k].state = "dead" =>
    Spent(k) \/ row[k].failure = "permanent"

\* A worker that saw its acknowledgement succeed can rely on it.
ConfirmedIsDone ==
  \A k \in confirmed : Exists(k) /\ row[k].state = "completed"

\* A writer whose enqueue returned an id has exactly its event in the outbox,
\* also when it repeats the call or another writer uses the same key.
AcceptedIsStored ==
  \A a \in accepted : Exists(a[1]) /\ row[a[1]].envelope = a[2]

\* A lease has one holder, effects are bounded by attempts, and what was
\* accepted, confirmed or given up stays so.
LeasesHold ==
  OneHolder /\ AttemptsBoundEffects /\ ConfirmedIsDone /\ AcceptedIsStored /\ DeadIsJustified

StatusOf(r) ==
  IF r = None THEN "absent"
  ELSE IF r.state \in {"completed", "dead"} THEN r.state ELSE "open"

Status == [k \in Keys |-> StatusOf(row[k])]

Promise == INSTANCE OutboxPromise WITH status <- Status

\* At least once, and settled once: the outbox implements its promise.
KeepsPromise == Promise!Spec

\* Nothing is left open for ever although workers crash, stall or fail on
\* every attempt.
EventuallySettled ==
  \A k \in Keys : Exists(k) ~> Exists(k) /\ row[k].state \in {"completed", "dead"}
=============================================================================
