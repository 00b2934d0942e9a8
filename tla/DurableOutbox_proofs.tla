------------------------ MODULE DurableOutbox_proofs ------------------------
(***************************************************************************)
(* Proofs about DurableOutbox, for every set of keys, envelopes and        *)
(* workers and every limit on attempts.                                    *)
(***************************************************************************)
EXTENDS DurableOutbox, FiniteSetTheorems, TLAPS

-----------------------------------------------------------------------------
(***************************************************************************)
(* Rows.                                                                   *)
(***************************************************************************)

\* What is true of one row whatever the others are.
RowSound(r) ==
  /\ r \in Row
  /\ r.over => r.state = "leased"
  /\ r.generation = r.attempts
  /\ r.attempts = 0 => r.state = "ready"
  /\ r.attempts <= MaxAttempts[r.envelope]
  /\ r.state = "dead" =>
       r.attempts >= MaxAttempts[r.envelope] \/ r.failure = "permanent"

RowInv ==
  /\ row \in [Keys -> Row \cup {None}]
  /\ \A k \in Keys : Exists(k) => RowSound(row[k])

\* A row stays, keeps its envelope, never goes back to an older lease, and is
\* not touched any more once it is settled.
Follows(r, s) ==
  /\ s # None
  /\ s.envelope = r.envelope
  /\ s.generation >= r.generation
  /\ r.state \in {"completed", "dead"} => s.state = r.state

RowsFollow == \A k \in Keys : Exists(k) => Follows(row[k], row'[k])

\* A sound row is a row.
LEMMA SoundIsRow ==
  ASSUME NEW r, RowSound(r)
  PROVE  r # None
BY OutboxAssumption DEF RowSound

\* A row stored by an enqueue is sound.
LEMMA NewSound ==
  ASSUME NEW e \in Envelopes
  PROVE  RowSound([envelope |-> e, state |-> "ready", attempts |-> 0,
                   generation |-> 0, due |-> TRUE, over |-> FALSE,
                   failure |-> None])
BY OutboxAssumption DEF RowSound, Row

\* Leasing a row with an attempt left keeps it sound.
LEMMA LeasedSound ==
  ASSUME NEW r, RowSound(r), r.attempts < MaxAttempts[r.envelope],
         r.state \in {"ready", "leased"}
  PROVE  RowSound(Leased(r)) /\ Follows(r, Leased(r))
<1>0. r \in Row /\ r.attempts + 1 \in Nat /\ r.generation + 1 \in Nat
  BY DEF RowSound, Row
<1>1. Leased(r) \in Row
  BY <1>0 DEF Row, Leased
<1>4. /\ Leased(r).envelope = r.envelope
      /\ Leased(r).generation = r.generation + 1
      /\ Leased(r).attempts = r.attempts + 1
      /\ Leased(r).state = "leased" /\ Leased(r).over = FALSE
  BY DEF RowSound, Row, Leased
<1>2. MaxAttempts[r.envelope] \in Nat /\ r.attempts \in Nat /\ r.generation \in Nat
  BY OutboxAssumption DEF RowSound, Row
<1>3. RowSound(Leased(r))
  BY <1>1, <1>2, <1>4 DEF RowSound
<1>5. r.state \notin {"completed", "dead"} /\ Leased(r) # None
  BY <1>3, SoundIsRow
<1> QED
  BY <1>2, <1>3, <1>4, <1>5 DEF Follows

\* Giving up a row whose attempts are spent keeps it sound.
LEMMA GivenUpSound ==
  ASSUME NEW r, RowSound(r), r.attempts >= MaxAttempts[r.envelope],
         r.state = "leased"
  PROVE  RowSound(GivenUp(r)) /\ Follows(r, GivenUp(r))
<1>1. GivenUp(r) \in Row
  BY DEF RowSound, Row, GivenUp, Failure
<1>2. /\ GivenUp(r).envelope = r.envelope
      /\ GivenUp(r).generation = r.generation
      /\ GivenUp(r).attempts = r.attempts
      /\ GivenUp(r).state = "dead" /\ GivenUp(r).over = FALSE
  BY DEF RowSound, Row, GivenUp
<1>3. RowSound(GivenUp(r))
  BY <1>1, <1>2 DEF RowSound
<1>4. r.state \notin {"completed", "dead"} /\ GivenUp(r) # None
  BY <1>3, SoundIsRow
<1>5. r.generation \in Nat
  BY DEF RowSound, Row
<1> QED
  BY <1>2, <1>3, <1>4, <1>5 DEF Follows

\* An unchanged row follows itself.
LEMMA SameFollows ==
  ASSUME NEW r, RowSound(r)
  PROVE  Follows(r, r)
<1>1. r # None /\ r.generation \in Nat
  BY SoundIsRow DEF RowSound, Row
<1> QED
  BY <1>1 DEF Follows

\* Setting only a flag of time yields a row that follows the old one.
LEMMA FlagFollows ==
  ASSUME NEW r, NEW s, RowSound(r), RowSound(s), s.envelope = r.envelope,
         s.generation = r.generation, s.state = r.state
  PROVE  Follows(r, s)
<1>1. s # None /\ r.generation \in Nat
  BY SoundIsRow DEF RowSound, Row
<1> QED
  BY <1>1 DEF Follows

\* Replacing one sound row by a sound row that follows it.
LEMMA OneRow ==
  ASSUME RowInv, NEW k \in Keys, NEW s, row' = [row EXCEPT ![k] = s],
         RowSound(s), Exists(k) => Follows(row[k], s)
  PROVE  RowInv' /\ RowsFollow
BY SameFollows DEF RowInv, RowsFollow, Exists, RowSound

\* Nothing happens to the rows.
LEMMA NoRow ==
  ASSUME RowInv, UNCHANGED row
  PROVE  RowInv' /\ RowsFollow
BY SameFollows DEF RowInv, RowsFollow, Exists, RowSound, LimitOf, Spent

\* Enqueue.
LEMMA EnqueueRow ==
  ASSUME RowInv, NEW k \in Keys, NEW e \in Envelopes, Enqueue(k, e)
  PROVE  RowInv' /\ RowsFollow
<1>1. CASE ~ Exists(k) /\ row' = [row EXCEPT ![k] =
             [envelope |-> e, state |-> "ready", attempts |-> 0,
              generation |-> 0, due |-> TRUE, over |-> FALSE,
              failure |-> None]]
  BY <1>1, NewSound, OneRow
<1>2. CASE UNCHANGED row
  BY <1>2, NoRow
<1> QED
  BY <1>1, <1>2 DEF Enqueue

\* Lease: each row is leased, given up or left alone.
LEMMA LeaseRow ==
  ASSUME RowInv, NEW w \in Workers, Lease(w)
  PROVE  RowInv' /\ RowsFollow
<1>1. PICK D \in SUBSET Exhausted, S \in SUBSET Candidates :
        row' = [k \in Keys |-> IF k \in S THEN Leased(row[k])
                               ELSE IF k \in D THEN GivenUp(row[k])
                               ELSE row[k]]
  BY DEF Lease
<1>2. ASSUME NEW k \in Keys
      PROVE  /\ row'[k] = None <=> row[k] = None
             /\ Exists(k) => RowSound(row'[k]) /\ Follows(row[k], row'[k])
  <2>1. CASE k \in S
    <3>1. /\ Exists(k) /\ row[k].attempts < MaxAttempts[row[k].envelope]
          /\ row[k].state \in {"ready", "leased"} /\ RowSound(row[k])
      <4>1. Exists(k) /\ ~ Spent(k) /\ row[k].state \in {"ready", "leased"}
        BY <2>1 DEF Candidates
      <4>2. RowSound(row[k])
        BY <4>1 DEF RowInv
      <4>3. row[k].attempts \in Nat /\ MaxAttempts[row[k].envelope] \in Nat
        BY <4>2, OutboxAssumption DEF RowSound, Row
      <4> QED
        BY <4>1, <4>2, <4>3 DEF Spent, LimitOf
    <3>2. row'[k] = Leased(row[k])
      BY <1>1, <2>1
    <3> QED
      BY <3>1, <3>2, LeasedSound, SoundIsRow DEF Exists
  <2>2. CASE k \in D /\ k \notin S
    <3>1. /\ Exists(k) /\ row[k].attempts >= MaxAttempts[row[k].envelope]
          /\ row[k].state = "leased" /\ RowSound(row[k])
      BY <2>2 DEF Exhausted, Spent, LimitOf, RowInv
    <3>2. row'[k] = GivenUp(row[k])
      BY <1>1, <2>2
    <3> QED
      BY <3>1, <3>2, GivenUpSound, SoundIsRow DEF Exists
  <2>3. CASE k \notin D /\ k \notin S
    BY <1>1, <2>3, SameFollows DEF RowInv
  <2> QED
    BY <2>1, <2>2, <2>3
<1>3. row' \in [Keys -> Row \cup {None}]
  <2>1. \A k \in Keys : row'[k] \in Row \cup {None}
    BY <1>2 DEF Exists, RowSound
  <2> QED
    BY <1>1, <2>1
<1> QED
  BY <1>2, <1>3 DEF RowInv, RowsFollow, Exists

\* A ticket of a worker, and the row it is for.
LEMMA TicketRow ==
  ASSUME RowInv, tickets \in [Workers -> SUBSET Ticket],
         NEW w \in Workers, NEW t \in tickets[w], Exists(t.key)
  PROVE  t.key \in Keys /\ RowSound(row[t.key])
BY DEF RowInv, Ticket

\* Ack completes a row under its live lease, or leaves the rows alone.
LEMMA AckRow ==
  ASSUME RowInv, tickets \in [Workers -> SUBSET Ticket],
         NEW w \in Workers, NEW t \in tickets[w], Exists(t.key), Ack(w, t)
  PROVE  RowInv' /\ RowsFollow
<1>1. CASE UNCHANGED row
  BY <1>1, NoRow
<1>2. CASE AckCompletes(w, t)
  <2> DEFINE k == t.key
             s == [row[k] EXCEPT !.state = "completed"]
  <2>1. k \in Keys /\ RowSound(row[k])
    BY TicketRow
  <2>2. row' = [row EXCEPT ![k] = s]
    BY <1>2 DEF AckCompletes
  <2>3. row[k].state = "leased" /\ ~ row[k].over
    BY <1>2 DEF AckCompletes, LiveLease
  <2>4. RowSound(s)
    BY <2>1, <2>3 DEF RowSound, Row
  <2>5. Follows(row[k], s)
    BY <2>1, <2>3, <2>4, SoundIsRow DEF Follows, RowSound, Row
  <2> HIDE DEF s, k
  <2> QED
    BY <2>1, <2>2, <2>4, <2>5, OneRow
<1> QED
  BY <1>1, <1>2 DEF Ack, AckFails, AckAgain

\* Retry reopens a row under its live lease or gives it up, or leaves the rows
\* alone.
LEMMA RetryRow ==
  ASSUME RowInv, tickets \in [Workers -> SUBSET Ticket],
         NEW w \in Workers, NEW t \in tickets[w], Exists(t.key), Retry(w, t)
  PROVE  RowInv' /\ RowsFollow
<1>1. PICK reason \in {"transient", "rate_limited", "permanent"} :
        RetryReopens(t, reason)
  BY DEF Retry
<1>2. CASE UNCHANGED row
  BY <1>2, NoRow
<1>3. CASE Matches(t) /\ LiveLease(t.key)
  <2> DEFINE k == t.key
             s == [row[k] EXCEPT
                    !.state = IF Spent(k) \/ reason = "permanent"
                              THEN "dead" ELSE "ready",
                    !.failure = reason, !.due = FALSE]
  <2>1. k \in Keys /\ RowSound(row[k])
    BY TicketRow
  <2>2. row' = [row EXCEPT ![k] = s]
    BY <1>1, <1>3, <2>1 DEF RetryReopens, RowInv
  <2>3. row[k].state = "leased" /\ ~ row[k].over
    BY <1>3 DEF LiveLease
  <2>6. /\ s.envelope = row[k].envelope
        /\ s.generation = row[k].generation /\ s.attempts = row[k].attempts
        /\ s.over = row[k].over /\ s.failure = reason
        /\ s.state \in {"dead", "ready"}
        /\ s.state = "dead" => Spent(k) \/ reason = "permanent"
    BY <2>1 DEF RowSound, Row
  <2>7. s \in Row
    BY <2>1 DEF RowSound, Row, Failure
  <2>4. RowSound(s)
    BY <2>1, <2>3, <2>6, <2>7 DEF RowSound, Spent, LimitOf
  <2>8. row[k].generation \in Nat /\ s # None
    BY <2>1, <2>4, SoundIsRow DEF RowSound, Row
  <2>5. Follows(row[k], s)
    BY <2>3, <2>6, <2>8 DEF Follows
  <2> HIDE DEF s, k
  <2> QED
    BY <2>1, <2>2, <2>4, <2>5, OneRow
<1> QED
  BY <1>1, <1>2, <1>3 DEF RetryReopens

\* Time passes for one row.
LEMMA TimeRow ==
  ASSUME RowInv, NEW k \in Keys, LeaseEnds(k) \/ ComesDue(k)
  PROVE  RowInv' /\ RowsFollow
<1>0. Exists(k) /\ RowSound(row[k])
  BY DEF LeaseEnds, ComesDue, RowInv
<1>1. CASE LeaseEnds(k)
  <2>1. RowSound([row[k] EXCEPT !.over = TRUE])
    BY <1>0, <1>1 DEF LeaseEnds, LiveLease, RowSound, Row
  <2>4. LET s == [row[k] EXCEPT !.over = TRUE]
        IN  s.envelope = row[k].envelope /\ s.state = row[k].state
            /\ s.generation = row[k].generation
    BY <1>0 DEF RowSound, Row
  <2>2. Follows(row[k], [row[k] EXCEPT !.over = TRUE])
    BY <1>0, <2>1, <2>4, FlagFollows
  <2>3. row' = [row EXCEPT ![k] = [row[k] EXCEPT !.over = TRUE]]
    BY <1>1, <1>0 DEF LeaseEnds, RowInv
  <2> QED
    BY <2>1, <2>2, <2>3, OneRow
<1>2. CASE ComesDue(k)
  <2>1. RowSound([row[k] EXCEPT !.due = TRUE])
    BY <1>0, <1>2 DEF ComesDue, RowSound, Row
  <2>4. LET s == [row[k] EXCEPT !.due = TRUE]
        IN  s.envelope = row[k].envelope /\ s.state = row[k].state
            /\ s.generation = row[k].generation
    BY <1>0 DEF RowSound, Row
  <2>2. Follows(row[k], [row[k] EXCEPT !.due = TRUE])
    BY <1>0, <2>1, <2>4, FlagFollows
  <2>3. row' = [row EXCEPT ![k] = [row[k] EXCEPT !.due = TRUE]]
    BY <1>2, <1>0 DEF ComesDue, RowInv
  <2> QED
    BY <2>1, <2>2, <2>3, OneRow
<1> QED
  BY <1>1, <1>2

-----------------------------------------------------------------------------
(***************************************************************************)
(* Leases and effects.                                                     *)
(***************************************************************************)
TicketsTyped == tickets \in [Workers -> SUBSET Ticket]

\* Every lease in a worker's hands is of a stored row and not newer than it.
TicketsKnown ==
  \A w \in Workers : \A t \in tickets[w] :
    Exists(t.key) /\ t.generation <= row[t.key].generation

\* No two leases of one row have one generation.
TicketsDiffer ==
  \A v, w \in Workers : \A t \in tickets[v], u \in tickets[w] :
    t.key = u.key /\ t.generation = u.generation => v = w /\ t = u

\* A lease marked as performed has had its effect.
TicketsPerformed ==
  /\ effects \in [Keys -> Nat]
  /\ \A w \in Workers : \A t \in tickets[w] :
       t.performed => effects[t.key] > 0

TicketInv == TicketsTyped /\ TicketsKnown /\ TicketsDiffer /\ TicketsPerformed

\* Leases that were there before, or fewer, stay good while rows follow.
LEMMA FewerTickets ==
  ASSUME TicketInv, RowInv, RowInv', RowsFollow, UNCHANGED effects,
         tickets' \in [Workers -> SUBSET Ticket],
         \A w \in Workers : tickets'[w] \subseteq tickets[w]
  PROVE  TicketInv'
<1>1. TicketsKnown'
  <2> SUFFICES ASSUME NEW w \in Workers, NEW t \in tickets'[w]
               PROVE  row'[t.key] # None
                      /\ t.generation <= row'[t.key].generation
    BY DEF TicketsKnown, Exists
  <2>1. /\ t \in Ticket /\ Exists(t.key)
        /\ t.generation <= row[t.key].generation
    BY DEF TicketInv, TicketsTyped, TicketsKnown
  <2>2. t.key \in Keys /\ t.generation \in Nat
    BY <2>1 DEF Ticket
  <2>3. Follows(row[t.key], row'[t.key])
    BY <2>1, <2>2 DEF RowsFollow
  <2>4. row'[t.key].generation \in Nat /\ row[t.key].generation \in Nat
    BY <2>1, <2>2, <2>3 DEF RowInv, RowSound, Row, Follows, Exists
  <2> QED
    BY <2>1, <2>2, <2>3, <2>4 DEF Follows
<1>2. TicketsDiffer'
  BY DEF TicketInv, TicketsDiffer
<1>3. TicketsPerformed'
  BY DEF TicketInv, TicketsPerformed
<1> QED
  BY <1>1, <1>2, <1>3 DEF TicketInv, TicketsTyped

\* Forgetting a lease, or none.
LEMMA AnsweredTickets ==
  ASSUME TicketInv, RowInv, RowInv', RowsFollow, UNCHANGED effects,
         NEW w \in Workers, NEW t, Answered(w, t)
  PROVE  TicketInv'
<1>1. /\ tickets' \in [Workers -> SUBSET Ticket]
      /\ \A v \in Workers : tickets'[v] \subseteq tickets[v]
  BY DEF Answered, TicketInv, TicketsTyped
<1> QED
  BY <1>1, FewerTickets

\* Lease: every new lease is newer than all leases of its row.
LEMMA LeaseTickets ==
  ASSUME TicketInv, RowInv, NEW w \in Workers, Lease(w)
  PROVE  TicketInv'
<1>1. PICK D \in SUBSET Exhausted, S \in SUBSET Candidates :
        /\ row' = [k \in Keys |-> IF k \in S THEN Leased(row[k])
                                  ELSE IF k \in D THEN GivenUp(row[k])
                                  ELSE row[k]]
        /\ tickets' = [tickets EXCEPT ![w] = @ \cup
             {[key |-> k, generation |-> row[k].generation + 1,
               performed |-> FALSE] : k \in S}]
        /\ UNCHANGED effects
  BY DEF Lease
<1>2. RowInv' /\ RowsFollow
  BY LeaseRow
<1>3. ASSUME NEW k \in S
      PROVE  /\ k \in Keys /\ Exists(k) /\ row[k].generation \in Nat
             /\ row'[k] # None /\ row'[k].generation = row[k].generation + 1
  <2>1. k \in Keys /\ Exists(k)
    BY DEF Candidates
  <2>2. RowSound(row[k])
    BY <2>1 DEF RowInv
  <2>3. row'[k].generation = row[k].generation + 1
    BY <1>1, <2>1, <2>2 DEF Leased, RowSound, Row
  <2>4. row'[k] # None
    BY <1>2, <2>1 DEF RowsFollow, Follows
  <2> QED
    BY <2>1, <2>2, <2>3, <2>4 DEF RowSound, Row
<1> DEFINE New == {[key |-> k, generation |-> row[k].generation + 1,
                    performed |-> FALSE] : k \in S}
<1>4. \A t \in New : /\ t.key \in S /\ t \in Ticket /\ t.performed = FALSE
                     /\ t.generation = row[t.key].generation + 1
  <2> TAKE t \in New
  <2>1. PICK k \in S : t = [key |-> k, performed |-> FALSE,
                            generation |-> row[k].generation + 1]
    OBVIOUS
  <2>2. k \in Keys /\ row[k].generation + 1 \in Nat
    BY <1>3
  <2> QED
    BY <2>1, <2>2 DEF Ticket
<1>5. \A v \in Workers : tickets'[v] = IF v = w THEN tickets[v] \cup New
                                                ELSE tickets[v]
  BY <1>1 DEF TicketInv, TicketsTyped
<1>6. \A t, u \in New : t.key = u.key => t = u
  <2> TAKE t, u \in New
  <2>1. PICK k \in S : t = [key |-> k, performed |-> FALSE,
                            generation |-> row[k].generation + 1]
    OBVIOUS
  <2>2. PICK l \in S : u = [key |-> l, performed |-> FALSE,
                            generation |-> row[l].generation + 1]
    OBVIOUS
  <2> QED
    BY <2>1, <2>2
<1>7. tickets' \in [Workers -> SUBSET Ticket]
  <2>1. tickets[w] \cup New \in SUBSET Ticket
    BY <1>4 DEF TicketInv, TicketsTyped
  <2> QED
    BY <1>1, <2>1 DEF TicketInv, TicketsTyped
<1> HIDE DEF New
<1>8. ASSUME NEW v \in Workers, NEW t \in tickets[v]
      PROVE  /\ t \in Ticket /\ t.key \in Keys /\ t.generation \in Nat
             /\ row'[t.key] # None
             /\ t.generation <= row'[t.key].generation
             /\ t.generation <= row[t.key].generation
             /\ row[t.key].generation \in Nat
  <2>1. /\ t \in Ticket /\ Exists(t.key)
        /\ t.generation <= row[t.key].generation
    BY DEF TicketInv, TicketsTyped, TicketsKnown
  <2>2. t.key \in Keys /\ t.generation \in Nat
    BY <2>1 DEF Ticket
  <2>3. Follows(row[t.key], row'[t.key])
    BY <1>2, <2>1, <2>2 DEF RowsFollow
  <2>4. row'[t.key].generation \in Nat /\ row[t.key].generation \in Nat
    BY <1>2, <2>1, <2>2, <2>3 DEF RowInv, RowSound, Row, Follows, Exists
  <2> QED
    BY <2>1, <2>2, <2>3, <2>4 DEF Follows
<1>9. TicketsKnown'
  <2> SUFFICES ASSUME NEW v \in Workers, NEW t \in tickets'[v]
               PROVE  row'[t.key] # None
                      /\ t.generation <= row'[t.key].generation
    BY DEF TicketsKnown, Exists
  <2>1. CASE t \in tickets[v]
    BY <2>1, <1>8
  <2>2. CASE t \in New
    <3>1. t.key \in S /\ t.generation = row'[t.key].generation
          /\ row[t.key].generation \in Nat
      BY <2>2, <1>3, <1>4
    <3> QED
      BY <3>1, <1>3, <1>4, <2>2
  <2> QED
    BY <2>1, <2>2, <1>5
<1>10. TicketsDiffer'
  <2> SUFFICES ASSUME NEW u \in Workers, NEW v \in Workers,
                      NEW s \in tickets'[u], NEW t \in tickets'[v],
                      s.key = t.key, s.generation = t.generation
               PROVE  u = v /\ s = t
    BY DEF TicketsDiffer
  <2>1. CASE s \in tickets[u] /\ t \in tickets[v]
    BY <2>1 DEF TicketInv, TicketsDiffer
  <2>2. CASE s \in New /\ t \in tickets[v]
    BY <2>2, <1>3, <1>4, <1>8
  <2>3. CASE s \in tickets[u] /\ t \in New
    BY <2>3, <1>3, <1>4, <1>8
  <2>4. CASE u = w /\ v = w /\ s \in New /\ t \in New
    BY <2>4, <1>6
  <2> QED
    BY <2>1, <2>2, <2>3, <2>4, <1>5
<1>11. TicketsPerformed'
  <2> SUFFICES ASSUME NEW v \in Workers, NEW t \in tickets'[v], t.performed
               PROVE  effects[t.key] > 0
    BY <1>1 DEF TicketInv, TicketsPerformed
  <2>1. t \in tickets[v]
    BY <1>4, <1>5
  <2> QED
    BY <2>1 DEF TicketInv, TicketsPerformed
<1> QED
  BY <1>7, <1>9, <1>10, <1>11 DEF TicketInv, TicketsTyped

\* Perform: the lease is replaced by itself marked as performed, and its key
\* has one effect more.
LEMMA PerformTickets ==
  ASSUME TicketInv, RowInv, NEW w \in Workers, NEW t \in tickets[w],
         Perform(w, t)
  PROVE  TicketInv'
<1> DEFINE p == [t EXCEPT !.performed = TRUE]
<1>0. t \in Ticket
  BY DEF TicketInv, TicketsTyped
<1>1. /\ t \in Ticket /\ p \in Ticket /\ p.key = t.key
      /\ p.generation = t.generation /\ t.key \in Keys
  BY <1>0 DEF Ticket
<1>2. tickets' = [tickets EXCEPT ![w] = (@ \ {t}) \cup {p}]
  BY DEF Perform
<1> HIDE DEF p
<1>3. /\ tickets' \in [Workers -> SUBSET Ticket]
      /\ \A v \in Workers : tickets'[v] = IF v = w THEN (tickets[v] \ {t}) \cup {p}
                                                   ELSE tickets[v]
  <2>1. (tickets[w] \ {t}) \cup {p} \in SUBSET Ticket
    BY <1>1 DEF TicketInv, TicketsTyped
  <2> QED
    BY <1>2, <2>1 DEF TicketInv, TicketsTyped
<1>4. /\ effects' \in [Keys -> Nat]
      /\ \A k \in Keys : effects'[k] >= effects[k]
      /\ effects'[t.key] > 0
  BY <1>1 DEF Perform, TicketInv, TicketsPerformed
<1>5. UNCHANGED row
  BY DEF Perform
<1>6. TicketsKnown'
  BY <1>1, <1>3, <1>5 DEF TicketInv, TicketsKnown, Exists
<1>7. TicketsDiffer'
  <2> SUFFICES ASSUME NEW u \in Workers, NEW v \in Workers,
                      NEW r \in tickets'[u], NEW s \in tickets'[v],
                      r.key = s.key, r.generation = s.generation
               PROVE  u = v /\ r = s
    BY DEF TicketsDiffer
  <2>1. CASE r \in tickets[u] /\ s \in tickets[v]
    BY <2>1 DEF TicketInv, TicketsDiffer
  <2>2. CASE r = p /\ u = w /\ s \in tickets[v] /\ s # p
    <3>1. v = w /\ s = t
      BY <2>2, <1>1 DEF TicketInv, TicketsDiffer
    <3> QED
      BY <3>1, <2>2, <1>3
  <2>3. CASE s = p /\ v = w /\ r \in tickets[u] /\ r # p
    <3>1. u = w /\ r = t
      BY <2>3, <1>1 DEF TicketInv, TicketsDiffer
    <3> QED
      BY <3>1, <2>3, <1>3
  <2>4. CASE r = p /\ s = p
    <3>1. ASSUME NEW x \in Workers, p \in tickets'[x] PROVE x = w
      BY <3>1, <1>1, <1>3 DEF TicketInv, TicketsDiffer
    <3> QED
      BY <2>4, <3>1
  <2> QED
    BY <2>1, <2>2, <2>3, <2>4, <1>3
<1>8. TicketsPerformed'
  <2> SUFFICES ASSUME NEW v \in Workers, NEW s \in tickets'[v], s.performed
               PROVE  effects'[s.key] > 0
    BY <1>4 DEF TicketsPerformed
  <2>1. CASE s = p
    BY <2>1, <1>1, <1>4
  <2>2. CASE s \in tickets[v]
    <3>1. effects[s.key] > 0 /\ s.key \in Keys
      BY <2>2 DEF TicketInv, TicketsPerformed, TicketsTyped, Ticket
    <3>2. effects[s.key] \in Nat /\ effects'[s.key] \in Nat
      BY <3>1, <1>4 DEF TicketInv, TicketsPerformed
    <3> QED
      BY <3>1, <3>2, <1>4
  <2> QED
    BY <2>1, <2>2, <1>3
<1> QED
  BY <1>3, <1>6, <1>7, <1>8 DEF TicketInv, TicketsTyped

-----------------------------------------------------------------------------
(***************************************************************************)
(* The inductive invariant.                                                *)
(***************************************************************************)
AcceptedInv == accepted \subseteq Keys \X Envelopes /\ AcceptedIsStored

ConfirmedInv == confirmed \subseteq Keys /\ ConfirmedIsDone

IInv == RowInv /\ TicketInv /\ AcceptedInv /\ ConfirmedInv

\* Nothing is stored, leased, accepted or confirmed at the start.
LEMMA InitInv ==
  ASSUME Init
  PROVE  IInv
<1>1. RowInv
  BY DEF Init, RowInv, Exists
<1>2. TicketInv
  BY DEF Init, TicketInv, TicketsTyped, TicketsKnown, TicketsDiffer,
         TicketsPerformed
<1> QED
  BY <1>1, <1>2
  DEF Init, IInv, AcceptedInv, ConfirmedInv, AcceptedIsStored, ConfirmedIsDone

\* What was accepted stays stored while rows follow.
LEMMA AcceptedStays ==
  ASSUME AcceptedInv, RowsFollow, UNCHANGED accepted
  PROVE  AcceptedInv'
<1> SUFFICES ASSUME NEW a \in accepted
             PROVE  row'[a[1]] # None /\ row'[a[1]].envelope = a[2]
  BY DEF AcceptedInv, AcceptedIsStored, Exists
<1>1. a[1] \in Keys /\ Exists(a[1]) /\ row[a[1]].envelope = a[2]
  BY DEF AcceptedInv, AcceptedIsStored
<1> QED
  BY <1>1 DEF RowsFollow, Follows

\* What was confirmed stays completed while rows follow.
LEMMA ConfirmedStays ==
  ASSUME ConfirmedInv, RowsFollow, UNCHANGED confirmed
  PROVE  ConfirmedInv'
BY DEF ConfirmedInv, ConfirmedIsDone, RowsFollow, Follows, Exists

\* Enqueue.
LEMMA EnqueueInv ==
  ASSUME IInv, NEW k \in Keys, NEW e \in Envelopes, Enqueue(k, e)
  PROVE  IInv'
<1>1. RowInv' /\ RowsFollow
  BY EnqueueRow DEF IInv
<1>2. TicketInv'
  BY <1>1, FewerTickets DEF IInv, Enqueue, TicketInv, TicketsTyped
<1>3. row'[k] # None /\ row'[k].envelope = e
  BY OutboxAssumption, NewSound, SoundIsRow DEF Enqueue, IInv, RowInv, Exists
<1>4. AcceptedInv'
  <2> SUFFICES ASSUME NEW a \in accepted'
               PROVE  /\ a \in Keys \X Envelopes
                      /\ row'[a[1]] # None /\ row'[a[1]].envelope = a[2]
    BY DEF AcceptedInv, AcceptedIsStored, Exists
  <2>1. CASE a \in accepted
    <3>1. /\ a \in Keys \X Envelopes
          /\ Exists(a[1]) /\ row[a[1]].envelope = a[2]
      BY <2>1 DEF IInv, AcceptedInv, AcceptedIsStored
    <3>2. a[1] \in Keys
      BY <3>1
    <3> QED
      BY <1>1, <3>1, <3>2 DEF RowsFollow, Follows
  <2>2. CASE a = <<k, e>>
    BY <2>2, <1>3
  <2> QED
    BY <2>1, <2>2 DEF Enqueue
<1>5. ConfirmedInv'
  BY <1>1, ConfirmedStays DEF IInv, Enqueue
<1> QED
  BY <1>1, <1>2, <1>4, <1>5 DEF IInv

\* Lease.
LEMMA LeaseInv ==
  ASSUME IInv, NEW w \in Workers, Lease(w)
  PROVE  IInv'
<1>1. RowInv' /\ RowsFollow
  BY LeaseRow DEF IInv
<1>2. TicketInv'
  BY LeaseTickets DEF IInv
<1>3. AcceptedInv' /\ ConfirmedInv'
  BY <1>1, AcceptedStays, ConfirmedStays DEF IInv, Lease
<1> QED
  BY <1>1, <1>2, <1>3 DEF IInv

\* A ticket's row exists.
LEMMA TicketExists ==
  ASSUME IInv, NEW w \in Workers, NEW t \in tickets[w]
  PROVE  /\ Exists(t.key) /\ t.key \in Keys /\ TicketsTyped
         /\ RowSound(row[t.key])
<1>1. Exists(t.key) /\ TicketsTyped /\ RowInv
  BY DEF IInv, TicketInv, TicketsKnown
<1> QED
  BY <1>1, TicketRow DEF TicketsTyped

\* Perform.
LEMMA PerformInv ==
  ASSUME IInv, NEW w \in Workers, NEW t \in tickets[w], Perform(w, t)
  PROVE  IInv'
<1>1. RowInv' /\ RowsFollow
  BY NoRow DEF IInv, Perform
<1>2. TicketInv'
  BY PerformTickets DEF IInv
<1>3. AcceptedInv' /\ ConfirmedInv'
  BY <1>1, AcceptedStays, ConfirmedStays DEF IInv, Perform
<1> QED
  BY <1>1, <1>2, <1>3 DEF IInv

\* Ack: what becomes confirmed is completed.
LEMMA AckInv ==
  ASSUME IInv, NEW w \in Workers, NEW t \in tickets[w], Ack(w, t)
  PROVE  IInv'
<1>1. RowInv' /\ RowsFollow
  BY AckRow, TicketExists DEF IInv, TicketsTyped
<1>2. TicketInv'
  BY <1>1, AnsweredTickets DEF IInv, Ack
<1>3. AcceptedInv'
  BY <1>1, AcceptedStays DEF IInv, Ack
<1>4. CASE UNCHANGED confirmed
  BY <1>1, <1>2, <1>3, <1>4, ConfirmedStays DEF IInv
<1>5. CASE /\ AckAgain(w, t) \/ AckCompletes(w, t)
           /\ confirmed' = confirmed \cup {t.key}
  <2>1. t.key \in Keys /\ row[t.key] \in Row /\ row[t.key] # None
    BY TicketExists DEF RowSound, Exists
  <2>2. row'[t.key].state = "completed"
    BY <1>5, <2>1 DEF AckAgain, AckCompletes, IInv, RowInv, Row
  <2>3. row'[t.key] # None
    BY <1>1, <2>1 DEF RowsFollow, Follows, Exists
  <2>4. ConfirmedInv'
    BY <1>1, <1>5, <2>1, <2>2, <2>3
    DEF IInv, ConfirmedInv, ConfirmedIsDone, RowsFollow, Follows, Exists
  <2> QED
    BY <1>1, <1>2, <1>3, <2>4 DEF IInv
<1> QED
  BY <1>4, <1>5 DEF Ack, AckFails, AckAgain, AckCompletes

\* Retry.
LEMMA RetryInv ==
  ASSUME IInv, NEW w \in Workers, NEW t \in tickets[w], Retry(w, t)
  PROVE  IInv'
<1>1. RowInv' /\ RowsFollow
  BY RetryRow, TicketExists DEF IInv, TicketsTyped
<1>2. TicketInv'
  BY <1>1, AnsweredTickets DEF IInv, Retry
<1>3. AcceptedInv' /\ ConfirmedInv'
  BY <1>1, AcceptedStays, ConfirmedStays DEF IInv, Retry
<1> QED
  BY <1>1, <1>2, <1>3 DEF IInv

\* A worker that dies forgets its leases.
LEMMA CrashInv ==
  ASSUME IInv, NEW w \in Workers, Crash(w)
  PROVE  IInv'
<1>1. RowInv' /\ RowsFollow
  BY NoRow DEF IInv, Crash
<1>2. /\ tickets' \in [Workers -> SUBSET Ticket]
      /\ \A v \in Workers : tickets'[v] \subseteq tickets[v]
  BY DEF Crash, IInv, TicketInv, TicketsTyped
<1>3. TicketInv'
  BY <1>1, <1>2, FewerTickets DEF IInv, Crash
<1>4. AcceptedInv' /\ ConfirmedInv'
  BY <1>1, AcceptedStays, ConfirmedStays DEF IInv, Crash
<1> QED
  BY <1>1, <1>3, <1>4 DEF IInv

\* Time.
LEMMA TimeInv ==
  ASSUME IInv, NEW k \in Keys, LeaseEnds(k) \/ ComesDue(k)
  PROVE  IInv'
<1>1. RowInv' /\ RowsFollow
  BY TimeRow DEF IInv
<1>2. UNCHANGED <<tickets, effects, accepted, confirmed>>
  BY DEF LeaseEnds, ComesDue
<1>3. TicketInv'
  BY <1>1, <1>2, FewerTickets DEF IInv, TicketInv, TicketsTyped
<1>4. AcceptedInv' /\ ConfirmedInv'
  BY <1>1, <1>2, AcceptedStays, ConfirmedStays DEF IInv
<1> QED
  BY <1>1, <1>3, <1>4 DEF IInv

\* A stutter.
LEMMA StutterInv ==
  ASSUME IInv, UNCHANGED vars
  PROVE  IInv'
<1>1. RowInv' /\ RowsFollow
  BY NoRow DEF IInv, vars
<1>2. TicketInv'
  BY <1>1, FewerTickets DEF IInv, vars, TicketInv, TicketsTyped
<1>3. AcceptedInv' /\ ConfirmedInv'
  BY <1>1, AcceptedStays, ConfirmedStays DEF IInv, vars
<1> QED
  BY <1>1, <1>2, <1>3 DEF IInv

\* The invariant holds always.
THEOREM OutboxInvariant == Spec => []IInv
<1>1. Init => IInv
  BY InitInv
<1>2. IInv /\ [Next]_vars => IInv'
  BY EnqueueInv, LeaseInv, PerformInv, AckInv, RetryInv, CrashInv, TimeInv,
     StutterInv
  DEF Next, WorkerStep
<1> QED
  BY <1>1, <1>2, PTL DEF Spec

\* The rows keep the constraints of the table (0016:7-30), whatever the
\* workers do.
THEOREM OutboxTypes == Spec => []TypeOK
<1>1. IInv => TypeOK
  BY DEF IInv, RowInv, RowSound, TicketInv, TicketsTyped, TicketsPerformed,
         AcceptedInv, ConfirmedInv, TypeOK
<1> QED
  BY <1>1, OutboxInvariant, PTL

\* Fencing: a lease is in the hands of one worker, and a row is never back at
\* an older lease.
THEOREM OutboxFencing == Spec => []OneHolder
<1>1. IInv => OneHolder
  BY DEF IInv, TicketInv, TicketsKnown, TicketsDiffer, OneHolder
<1> QED
  BY <1>1, OutboxInvariant, PTL

\* An acknowledged event is completed for ever, an accepted one is stored as
\* its writer gave it, and one that is given up used all its attempts or was
\* called undeliverable.
THEOREM OutboxKeeps ==
  Spec => [](ConfirmedIsDone /\ AcceptedIsStored /\ DeadIsJustified)
<1>1. IInv => ConfirmedIsDone /\ AcceptedIsStored
  BY DEF IInv, AcceptedInv, ConfirmedInv
<1>2. IInv => DeadIsJustified
  BY DEF IInv, RowInv, RowSound, DeadIsJustified, Spent, LimitOf
<1> QED
  BY <1>1, <1>2, OutboxInvariant, PTL

-----------------------------------------------------------------------------
(***************************************************************************)
(* Effects.  A lease yields at most one effect, so the effects of a row    *)
(* and the leases that may still have theirs are no more than the leases   *)
(* ever given of it.                                                       *)
(***************************************************************************)

\* The leases of k in somebody's hands whose effect has not happened.
Unperformed(k) ==
  {n \in Nat : \E w \in Workers : \E t \in tickets[w] :
                 t.key = k /\ t.generation = n /\ ~ t.performed}

EffectsOf(k) ==
  IF Exists(k) THEN /\ IsFiniteSet(Unperformed(k))
                    /\ effects[k] + Cardinality(Unperformed(k)) <= row[k].generation
               ELSE effects[k] = 0

EffectsInv == \A k \in Keys : EffectsOf(k)

\* The numbers that are added are natural ones.
LEMMA EffectTypes ==
  ASSUME IInv, NEW k \in Keys
  PROVE  /\ effects[k] \in Nat
         /\ Exists(k) => row[k].generation \in Nat /\ row[k].attempts = row[k].generation
                         /\ row[k].attempts <= LimitOf(k)
BY DEF IInv, TicketInv, TicketsPerformed, RowInv, RowSound, Row, LimitOf

\* The same of the next state.
LEMMA NextTypes ==
  ASSUME IInv', NEW k \in Keys
  PROVE  Exists(k)' => row'[k].generation \in Nat
BY DEF IInv, RowInv, RowSound, Row

\* A row that follows another is stored, and not of an older lease.
LEMMA RowGrows ==
  ASSUME IInv', RowsFollow, NEW k \in Keys, Exists(k)
  PROVE  Exists(k)' /\ row'[k].generation \in Nat
         /\ row'[k].generation >= row[k].generation
BY NextTypes DEF RowsFollow, Follows, Exists

\* A row without leases that may still have an effect, at the start or where
\* none is stored.
LEMMA NoneUnperformed ==
  ASSUME IInv, NEW k \in Keys, ~ Exists(k)
  PROVE  Unperformed(k) = {}
BY DEF IInv, TicketInv, TicketsKnown, Unperformed

\* Fewer leases and the same effects keep the bound.
LEMMA FewerEffects ==
  ASSUME IInv, IInv', EffectsInv, RowsFollow, UNCHANGED effects,
         \A w \in Workers : tickets'[w] \subseteq tickets[w]
  PROVE  EffectsInv'
<1> SUFFICES ASSUME NEW k \in Keys
             PROVE  EffectsOf(k)'
  BY DEF EffectsInv
<1>1. Unperformed(k)' \subseteq Unperformed(k)
  BY DEF Unperformed
<1>2. effects[k] \in Nat /\ effects'[k] = effects[k]
  BY EffectTypes
<1>3. CASE Exists(k)
  <2>1. /\ IsFiniteSet(Unperformed(k))
        /\ effects[k] + Cardinality(Unperformed(k)) <= row[k].generation
    BY <1>3 DEF EffectsInv, EffectsOf
  <2>2. /\ IsFiniteSet(Unperformed(k)')
        /\ Cardinality(Unperformed(k)') <= Cardinality(Unperformed(k))
    BY <1>1, <2>1, FS_Subset
  <2>3. Cardinality(Unperformed(k)) \in Nat /\ Cardinality(Unperformed(k)') \in Nat
    BY <2>1, <2>2, FS_CardinalityType
  <2>4. /\ Exists(k)' /\ row'[k].generation \in Nat
        /\ row'[k].generation >= row[k].generation /\ row[k].generation \in Nat
    BY <1>3, EffectTypes, RowGrows
  <2> QED
    BY <1>2, <2>1, <2>2, <2>3, <2>4 DEF EffectsOf
<1>4. CASE ~ Exists(k)
  <2>1. Unperformed(k)' = {} /\ effects'[k] = 0
    BY <1>1, <1>2, <1>4, NoneUnperformed DEF EffectsInv, EffectsOf
  <2>2. IsFiniteSet(Unperformed(k)') /\ Cardinality(Unperformed(k)') = 0
    BY <2>1, FS_EmptySet
  <2>3. Exists(k)' => row'[k].generation \in Nat
    BY NextTypes
  <2> QED
    BY <2>1, <2>2, <2>3 DEF EffectsOf
<1> QED
  BY <1>3, <1>4

\* A lease adds one attempt and one lease that may have its effect.
LEMMA LeaseEffects ==
  ASSUME IInv, IInv', EffectsInv, NEW w \in Workers, Lease(w)
  PROVE  EffectsInv'
<1> SUFFICES ASSUME NEW k \in Keys
             PROVE  EffectsOf(k)'
  BY DEF EffectsInv
<1>1. PICK D \in SUBSET Exhausted, S \in SUBSET Candidates :
        /\ row' = [j \in Keys |-> IF j \in S THEN Leased(row[j])
                                  ELSE IF j \in D THEN GivenUp(row[j])
                                  ELSE row[j]]
        /\ tickets' = [tickets EXCEPT ![w] = @ \cup
             {[key |-> j, generation |-> row[j].generation + 1,
               performed |-> FALSE] : j \in S}]
        /\ UNCHANGED effects
  BY DEF Lease
<1> DEFINE More == {[key |-> j, generation |-> row[j].generation + 1,
                     performed |-> FALSE] : j \in S}
<1>2. \A v \in Workers : tickets'[v] \subseteq tickets[v] \cup More
  BY <1>1 DEF IInv, TicketInv, TicketsTyped
<1>3. RowsFollow
  BY LeaseRow DEF IInv
<1>4. effects[k] \in Nat /\ effects'[k] = effects[k]
  BY <1>1, EffectTypes
<1>5. CASE k \in S
  <2>1. Exists(k) /\ row[k].generation \in Nat
    BY <1>5, EffectTypes DEF Candidates
  <2>2. /\ IsFiniteSet(Unperformed(k))
        /\ effects[k] + Cardinality(Unperformed(k)) <= row[k].generation
    BY <2>1 DEF EffectsInv, EffectsOf
  <2>3. Unperformed(k)' \subseteq Unperformed(k) \cup {row[k].generation + 1}
    BY <1>2 DEF Unperformed
  <2>4. /\ IsFiniteSet(Unperformed(k) \cup {row[k].generation + 1})
        /\ Cardinality(Unperformed(k)) \in Nat
        /\ Cardinality(Unperformed(k) \cup {row[k].generation + 1})
             <= Cardinality(Unperformed(k)) + 1
    <3>1. Cardinality(Unperformed(k)) \in Nat
      BY <2>2, FS_CardinalityType
    <3>2. IsFiniteSet(Unperformed(k) \cup {row[k].generation + 1})
      BY <2>2, FS_AddElement
    <3>3. Cardinality(Unperformed(k) \cup {row[k].generation + 1})
            \in {Cardinality(Unperformed(k)), Cardinality(Unperformed(k)) + 1}
      BY <2>2, FS_AddElement
    <3> QED
      BY <3>1, <3>2, <3>3
  <2>5. /\ IsFiniteSet(Unperformed(k)')
        /\ Cardinality(Unperformed(k)')
             <= Cardinality(Unperformed(k) \cup {row[k].generation + 1})
        /\ Cardinality(Unperformed(k)') \in Nat
        /\ Cardinality(Unperformed(k) \cup {row[k].generation + 1}) \in Nat
    BY <2>3, <2>4, FS_Subset, FS_CardinalityType
  <2>6. row[k] \in Row /\ row'[k] = Leased(row[k])
    BY <1>1, <1>5, <2>1 DEF IInv, RowInv, RowSound
  <2>7. row'[k].generation = row[k].generation + 1
    BY <2>6 DEF Leased, Row
  <2>8. Exists(k)'
    BY <1>3, <2>1 DEF RowsFollow, Follows, Exists
  <2> QED
    BY <1>4, <2>1, <2>2, <2>4, <2>5, <2>7, <2>8 DEF EffectsOf
<1>6. CASE k \notin S
  <2>1. Unperformed(k)' \subseteq Unperformed(k)
    BY <1>2, <1>6 DEF Unperformed
  <2>2. CASE Exists(k)
    <3>1. /\ IsFiniteSet(Unperformed(k))
          /\ effects[k] + Cardinality(Unperformed(k)) <= row[k].generation
      BY <2>2 DEF EffectsInv, EffectsOf
    <3>2. /\ IsFiniteSet(Unperformed(k)')
          /\ Cardinality(Unperformed(k)') <= Cardinality(Unperformed(k))
      BY <2>1, <3>1, FS_Subset
    <3>3. Cardinality(Unperformed(k)) \in Nat /\ Cardinality(Unperformed(k)') \in Nat
      BY <3>1, <3>2, FS_CardinalityType
    <3>4. /\ Exists(k)' /\ row'[k].generation \in Nat
          /\ row'[k].generation >= row[k].generation /\ row[k].generation \in Nat
      BY <1>3, <2>2, EffectTypes, RowGrows
    <3> QED
      BY <1>4, <3>1, <3>2, <3>3, <3>4 DEF EffectsOf
  <2>3. CASE ~ Exists(k)
    <3>1. k \notin D /\ ~ Exists(k)'
      BY <1>1, <1>6, <2>3 DEF Exhausted, Exists
    <3> QED
      BY <1>4, <2>3, <3>1 DEF EffectsInv, EffectsOf
  <2> QED
    BY <2>2, <2>3
<1> QED
  BY <1>5, <1>6

\* An effect uses up its lease, of which nobody else has a copy.
LEMMA PerformEffects ==
  ASSUME IInv, IInv', EffectsInv, NEW w \in Workers, NEW t \in tickets[w],
         Perform(w, t)
  PROVE  EffectsInv'
<1> SUFFICES ASSUME NEW k \in Keys
             PROVE  EffectsOf(k)'
  BY DEF EffectsInv
<1>1. /\ t \in Ticket /\ t.key \in Keys /\ t.generation \in Nat /\ ~ t.performed
      /\ Exists(t.key)
  BY TicketExists DEF TicketsTyped, Ticket, Perform
<1> DEFINE p == [t EXCEPT !.performed = TRUE]
<1>2. p.performed
  BY <1>1 DEF Ticket
<1>3. \A v \in Workers : tickets'[v] \subseteq tickets[v] \cup {p}
  BY DEF Perform, IInv, TicketInv, TicketsTyped
<1>4. t \notin tickets'[w]
  BY <1>1, <1>2 DEF Perform, IInv, TicketInv, TicketsTyped
<1> HIDE DEF p
<1>5. Unperformed(k)' \subseteq Unperformed(k)
  BY <1>2, <1>3 DEF Unperformed
<1>6. row' = row /\ Exists(k)' = Exists(k)
  BY DEF Perform, Exists
<1>7. CASE k = t.key
  <2>1. t.generation \notin Unperformed(k)'
    <3> SUFFICES ASSUME NEW v \in Workers, NEW u \in tickets'[v],
                        u.key = k, u.generation = t.generation, ~ u.performed
                 PROVE  FALSE
      BY DEF Unperformed
    <3>1. u \in tickets[v]
      BY <1>2, <1>3
    <3>2. v = w /\ u = t
      BY <1>7, <3>1 DEF IInv, TicketInv, TicketsDiffer
    <3> QED
      BY <1>4, <3>2
  <2>2. t.generation \in Unperformed(k)
    BY <1>1, <1>7 DEF Unperformed
  <2>3. /\ IsFiniteSet(Unperformed(k)) /\ Exists(k)
        /\ effects[k] + Cardinality(Unperformed(k)) <= row[k].generation
    BY <1>1, <1>7 DEF EffectsInv, EffectsOf
  <2>4. /\ IsFiniteSet(Unperformed(k) \ {t.generation})
        /\ Cardinality(Unperformed(k) \ {t.generation}) = Cardinality(Unperformed(k)) - 1
    BY <2>2, <2>3, FS_RemoveElement
  <2>5. /\ IsFiniteSet(Unperformed(k)')
        /\ Cardinality(Unperformed(k)') <= Cardinality(Unperformed(k) \ {t.generation})
    <3>1. Unperformed(k)' \in SUBSET (Unperformed(k) \ {t.generation})
      BY <1>5, <2>1
    <3> QED
      BY <2>4, <3>1, FS_Subset
  <2>6. Cardinality(Unperformed(k)) \in Nat /\ Cardinality(Unperformed(k)') \in Nat
    BY <2>3, <2>5, FS_CardinalityType
  <2>7. effects[k] \in Nat /\ row[k].generation \in Nat
    BY <2>3, EffectTypes
  <2>8. effects'[k] = effects[k] + 1
    BY <1>7 DEF Perform, IInv, TicketInv, TicketsPerformed
  <2> QED
    BY <1>6, <2>3, <2>4, <2>5, <2>6, <2>7, <2>8 DEF EffectsOf
<1>8. CASE k # t.key
  <2>1. effects'[k] = effects[k] /\ effects[k] \in Nat
    BY <1>8, EffectTypes DEF Perform, IInv, TicketInv, TicketsPerformed
  <2>2. CASE Exists(k)
    <3>1. /\ IsFiniteSet(Unperformed(k))
          /\ effects[k] + Cardinality(Unperformed(k)) <= row[k].generation
      BY <2>2 DEF EffectsInv, EffectsOf
    <3>2. /\ IsFiniteSet(Unperformed(k)')
          /\ Cardinality(Unperformed(k)') <= Cardinality(Unperformed(k))
      BY <1>5, <3>1, FS_Subset
    <3>3. Cardinality(Unperformed(k)) \in Nat /\ Cardinality(Unperformed(k)') \in Nat
      BY <3>1, <3>2, FS_CardinalityType
    <3>4. row[k].generation \in Nat
      BY <2>2, EffectTypes
    <3> QED
      BY <1>6, <2>1, <2>2, <3>1, <3>2, <3>3, <3>4 DEF EffectsOf
  <2>3. CASE ~ Exists(k)
    BY <1>6, <2>1, <2>3 DEF EffectsInv, EffectsOf
  <2> QED
    BY <2>2, <2>3
<1> QED
  BY <1>7, <1>8

\* However workers crash, stall and take over, the effects of an event are no
\* more than the attempts its writer allowed.
THEOREM OutboxBoundsEffects == Spec => []AttemptsBoundEffects
<1>1. Init => EffectsInv
  BY DEF Init, EffectsInv, EffectsOf, Exists
<1>2. ASSUME IInv, IInv', EffectsInv, [Next]_vars
      PROVE  EffectsInv'
  <2>1. ASSUME NEW k \in Keys, NEW e \in Envelopes, Enqueue(k, e)
        PROVE  EffectsInv'
    <3>1. RowsFollow
      BY <1>2, <2>1, EnqueueRow DEF IInv
    <3> QED
      BY <1>2, <2>1, <3>1, FewerEffects DEF Enqueue
  <2>2. ASSUME NEW w \in Workers, Lease(w)
        PROVE  EffectsInv'
    BY <1>2, <2>2, LeaseEffects
  <2>3. ASSUME NEW w \in Workers, NEW t \in tickets[w], Perform(w, t)
        PROVE  EffectsInv'
    BY <1>2, <2>3, PerformEffects
  <2>4. ASSUME NEW w \in Workers, NEW t \in tickets[w], Ack(w, t) \/ Retry(w, t)
        PROVE  EffectsInv'
    <3>1. RowsFollow
      BY <1>2, <2>4, AckRow, RetryRow, TicketExists DEF IInv, TicketsTyped
    <3>2. UNCHANGED effects /\ \A v \in Workers : tickets'[v] \subseteq tickets[v]
      BY <1>2, <2>4 DEF Ack, Retry, Answered, IInv, TicketInv, TicketsTyped
    <3> QED
      BY <1>2, <3>1, <3>2, FewerEffects
  <2>5. ASSUME NEW w \in Workers, Crash(w)
        PROVE  EffectsInv'
    <3>1. RowsFollow
      BY <1>2, <2>5, NoRow DEF IInv, Crash
    <3>2. \A v \in Workers : tickets'[v] \subseteq tickets[v]
      BY <1>2, <2>5 DEF Crash, IInv, TicketInv, TicketsTyped
    <3> QED
      BY <1>2, <2>5, <3>1, <3>2, FewerEffects DEF Crash
  <2>6. ASSUME NEW k \in Keys, LeaseEnds(k) \/ ComesDue(k)
        PROVE  EffectsInv'
    <3>1. RowsFollow
      BY <1>2, <2>6, TimeRow DEF IInv
    <3>2. UNCHANGED <<tickets, effects>>
      BY <2>6 DEF LeaseEnds, ComesDue
    <3> QED
      BY <1>2, <3>1, <3>2, FewerEffects
  <2>7. CASE UNCHANGED vars
    <3>1. RowsFollow
      BY <1>2, <2>7, NoRow DEF IInv, vars
    <3> QED
      BY <1>2, <2>7, <3>1, FewerEffects DEF vars
  <2> QED
    BY <1>2, <2>1, <2>2, <2>3, <2>4, <2>5, <2>6, <2>7 DEF Next, WorkerStep
<1>3. IInv /\ EffectsInv => AttemptsBoundEffects
  <2> SUFFICES ASSUME IInv, EffectsInv, NEW k \in Keys
               PROVE  IF Exists(k) THEN effects[k] <= row[k].attempts /\ row[k].attempts <= LimitOf(k)
                                   ELSE effects[k] = 0
    BY DEF AttemptsBoundEffects
  <2>1. CASE Exists(k)
    <3>1. /\ IsFiniteSet(Unperformed(k))
          /\ effects[k] + Cardinality(Unperformed(k)) <= row[k].generation
      BY <2>1 DEF EffectsInv, EffectsOf
    <3>2. Cardinality(Unperformed(k)) \in Nat
      BY <3>1, FS_CardinalityType
    <3> QED
      BY <2>1, <3>1, <3>2, EffectTypes
  <2>2. CASE ~ Exists(k)
    BY <2>2 DEF EffectsInv, EffectsOf
  <2> QED
    BY <2>1, <2>2
<1> QED
  BY <1>1, <1>2, <1>3, OutboxInvariant, PTL DEF Spec

\* All of it: a lease has one holder, effects are bounded, what was accepted,
\* confirmed or given up stays so.
THEOREM OutboxIsSafe == Spec => []LeasesHold
<1>1. OneHolder /\ AttemptsBoundEffects /\ ConfirmedIsDone /\ AcceptedIsStored
        /\ DeadIsJustified => LeasesHold
  BY DEF LeasesHold
<1> QED
  BY <1>1, OutboxFencing, OutboxBoundsEffects, OutboxKeeps, PTL

-----------------------------------------------------------------------------
(***************************************************************************)
(* The outbox implements its promise.                                      *)
(***************************************************************************)

\* The status of a key, now and after the step.
LEMMA StatusAt ==
  ASSUME NEW k \in Keys
  PROVE  Status[k] = StatusOf(row[k]) /\ Status'[k] = StatusOf(row'[k])
BY DEF Status, StatusOf

\* The statuses change for one key.
LEMMA StatusMoves ==
  ASSUME NEW k \in Keys, \A l \in Keys \ {k} : row'[l] = row[l]
  PROVE  Status' = [Status EXCEPT ![k] = StatusOf(row'[k])]
<1>1. \A l \in Keys \ {k} : Status'[l] = Status[l]
  BY StatusAt
<1> QED
  BY <1>1, StatusAt DEF Status

\* The statuses stay when every row keeps its own.
LEMMA StatusStays ==
  ASSUME \A k \in Keys : StatusOf(row'[k]) = StatusOf(row[k])
  PROVE  UNCHANGED Status
BY DEF Status, StatusOf

\* Some rows are given up and no other row changes its status.
LEMMA GiveUpStep ==
  ASSUME NEW S \in SUBSET Keys, UNCHANGED effects,
         \A k \in S : StatusOf(row[k]) = "open" /\ StatusOf(row'[k]) = "dead",
         \A k \in Keys \ S : StatusOf(row'[k]) = StatusOf(row[k])
  PROVE  Promise!GiveUp
<1>1. S \in SUBSET {k \in Keys : Status[k] = "open"}
  BY StatusAt
<1>2. Status' = [k \in Keys |-> IF k \in S THEN "dead" ELSE Status[k]]
  BY StatusAt DEF Status
<1> QED
  BY <1>1, <1>2 DEF Promise!GiveUp

\* Enqueue accepts an absent key, or repeats an accepted one.
LEMMA EnqueueMaps ==
  ASSUME IInv, NEW k \in Keys, NEW e \in Envelopes, Enqueue(k, e)
  PROVE  Promise!Accept(k) \/ UNCHANGED Promise!vars
<1>1. CASE UNCHANGED row
  BY <1>1, StatusStays DEF Enqueue, Promise!vars
<1>2. CASE ~ Exists(k) /\ row' # row
  <2>1. /\ \A l \in Keys \ {k} : row'[l] = row[l]
        /\ row'[k].state = "ready" /\ row'[k] # None
    BY <1>2, NewSound, SoundIsRow DEF Enqueue, IInv, RowInv
  <2>2. StatusOf(row'[k]) = "open" /\ Status[k] = "absent"
    BY <1>2, <2>1, StatusAt DEF StatusOf, Exists
  <2>3. Status' = [Status EXCEPT ![k] = "open"]
    BY <2>1, <2>2, StatusMoves
  <2> QED
    BY <2>2, <2>3 DEF Enqueue, Promise!Accept, Promise!Settle
<1> QED
  BY <1>1, <1>2 DEF Enqueue

\* Lease gives up the rows of its first statement.
LEMMA LeaseMaps ==
  ASSUME IInv, NEW w \in Workers, Lease(w)
  PROVE  Promise!GiveUp
<1>1. PICK D \in SUBSET Exhausted, S \in SUBSET Candidates :
        row' = [k \in Keys |-> IF k \in S THEN Leased(row[k])
                               ELSE IF k \in D THEN GivenUp(row[k])
                               ELSE row[k]]
  BY DEF Lease
<1>2. UNCHANGED effects /\ RowsFollow
  BY LeaseRow DEF Lease, IInv
<1>3. ASSUME NEW k \in S
      PROVE  StatusOf(row'[k]) = "open" /\ StatusOf(row[k]) = "open"
  <2>1. k \in Keys /\ Exists(k) /\ row[k].state \in {"ready", "leased"}
    BY DEF Candidates
  <2>2. row'[k].state = "leased" /\ row'[k] # None
    BY <1>1, <1>2, <2>1
    DEF Leased, IInv, RowInv, RowSound, Row, RowsFollow, Follows
  <2> QED
    BY <2>1, <2>2 DEF StatusOf, Exists
<1>4. ASSUME NEW k \in D \ S
      PROVE  StatusOf(row'[k]) = "dead" /\ StatusOf(row[k]) = "open"
  <2>1. k \in Keys /\ Exists(k) /\ row[k].state = "leased"
    BY DEF Exhausted
  <2>2. row'[k].state = "dead" /\ row'[k] # None
    BY <1>1, <1>2, <2>1
    DEF GivenUp, IInv, RowInv, RowSound, Row, RowsFollow, Follows
  <2> QED
    BY <2>1, <2>2 DEF StatusOf, Exists
<1>5. \A k \in Keys \ (D \ S) : StatusOf(row'[k]) = StatusOf(row[k])
  BY <1>1, <1>3
<1>6. D \ S \in SUBSET Keys
  BY DEF Exhausted
<1> QED
  BY <1>2, <1>4, <1>5, <1>6, GiveUpStep

\* Perform is an effect of an accepted key.
LEMMA PerformMaps ==
  ASSUME IInv, NEW w \in Workers, NEW t \in tickets[w], Perform(w, t)
  PROVE  t.key \in Keys /\ Promise!Perform(t.key)
<1>1. t.key \in Keys /\ Exists(t.key)
  BY TicketExists
<1>2. row[t.key].state # "absent"
  BY TicketExists DEF RowSound, Row
<1>3. Status[t.key] # "absent"
  BY <1>1, <1>2, StatusAt DEF StatusOf, Exists
<1>4. UNCHANGED Status
  BY StatusStays DEF Perform
<1> QED
  BY <1>1, <1>3, <1>4 DEF Perform, Promise!Perform

\* Ack settles an open key whose effect has happened, or changes no status.
LEMMA AckMaps ==
  ASSUME IInv, NEW w \in Workers, NEW t \in tickets[w], Ack(w, t)
  PROVE  t.key \in Keys /\ (Promise!Finish(t.key) \/ UNCHANGED Promise!vars)
<1>1. t.key \in Keys /\ Exists(t.key) /\ row[t.key] \in Row
  BY TicketExists DEF RowSound
<1>2. CASE UNCHANGED row
  BY <1>1, <1>2, StatusStays DEF Ack, Promise!vars
<1>3. CASE AckCompletes(w, t)
  <2>1. /\ \A l \in Keys \ {t.key} : row'[l] = row[l]
        /\ row'[t.key].state = "completed" /\ row[t.key].state = "leased"
    BY <1>1, <1>3 DEF AckCompletes, LiveLease, IInv, RowInv, Row
  <2>2. row'[t.key] # None
    BY <1>1, AckRow, TicketExists DEF IInv, TicketsTyped, RowsFollow, Follows
  <2>3. StatusOf(row'[t.key]) = "completed" /\ Status[t.key] = "open"
    BY <1>1, <2>1, <2>2, StatusAt DEF StatusOf, Exists
  <2>4. Status' = [Status EXCEPT ![t.key] = "completed"]
    BY <1>1, <2>1, <2>3, StatusMoves
  <2>5. effects[t.key] > 0
    BY DEF Ack, IInv, TicketInv, TicketsPerformed
  <2> QED
    BY <1>1, <2>3, <2>4, <2>5 DEF Ack, Promise!Finish, Promise!Settle
<1> QED
  BY <1>2, <1>3 DEF Ack, AckFails, AckAgain

\* Retry gives its row up, or changes no status.
LEMMA RetryMaps ==
  ASSUME IInv, NEW w \in Workers, NEW t \in tickets[w], Retry(w, t)
  PROVE  Promise!GiveUp \/ UNCHANGED Promise!vars
<1>1. t.key \in Keys /\ Exists(t.key) /\ row[t.key] \in Row
  BY TicketExists DEF RowSound
<1>2. CASE UNCHANGED row
  BY <1>2, StatusStays DEF Retry, Promise!vars
<1>3. CASE row' # row
  <2>1. PICK reason \in {"transient", "rate_limited", "permanent"} :
          RetryReopens(t, reason)
    BY DEF Retry
  <2>2. row[t.key].state = "leased" /\ \A l \in Keys \ {t.key} : row'[l] = row[l]
    BY <1>1, <1>3, <2>1 DEF RetryReopens, LiveLease, IInv, RowInv
  <2>3. row'[t.key].state \in {"dead", "ready"}
    BY <1>1, <1>3, <2>1 DEF RetryReopens, IInv, RowInv, Row
  <2>4. row'[t.key] # None
    BY <1>1, RetryRow, TicketExists DEF IInv, TicketsTyped, RowsFollow, Follows
  <2>5. StatusOf(row[t.key]) = "open"
    BY <1>1, <2>2 DEF StatusOf, Exists
  <2>6. CASE row'[t.key].state = "dead"
    <3>1. StatusOf(row'[t.key]) = "dead"
      BY <2>4, <2>6 DEF StatusOf
    <3>2. \A k \in Keys \ {t.key} : StatusOf(row'[k]) = StatusOf(row[k])
      BY <2>2
    <3>3. Promise!GiveUp
      BY <1>1, <2>5, <3>1, <3>2, GiveUpStep DEF Retry
    <3> QED
      BY <3>3
  <2>7. CASE row'[t.key].state = "ready"
    <3>1. StatusOf(row'[t.key]) = "open"
      BY <2>4, <2>7 DEF StatusOf
    <3>2. \A k \in Keys : StatusOf(row'[k]) = StatusOf(row[k])
      BY <2>2, <2>5, <3>1
    <3> QED
      BY <3>2, StatusStays DEF Retry, Promise!vars
  <2> QED
    BY <2>3, <2>6, <2>7
<1> QED
  BY <1>2, <1>3

\* Time changes no status.
LEMMA TimeMaps ==
  ASSUME IInv, NEW k \in Keys, LeaseEnds(k) \/ ComesDue(k)
  PROVE  UNCHANGED Promise!vars
<1>1. Exists(k) /\ row[k] \in Row
  BY DEF LeaseEnds, ComesDue, IInv, RowInv, RowSound
<1>2. /\ \A l \in Keys \ {k} : row'[l] = row[l]
      /\ row'[k].state = row[k].state
  BY <1>1 DEF LeaseEnds, ComesDue, IInv, RowInv, Row
<1>3. row'[k] # None
  BY <1>1, TimeRow DEF IInv, RowsFollow, Follows
<1>4. \A l \in Keys : StatusOf(row'[l]) = StatusOf(row[l])
  BY <1>1, <1>2, <1>3 DEF StatusOf, Exists
<1> QED
  BY <1>4, StatusStays DEF LeaseEnds, ComesDue, Promise!vars

\* Every step of the outbox is a step its promise allows, or changes nothing
\* the promise speaks of: an event is settled once, and as completed only after
\* its effect.
THEOREM OutboxKeepsPromise == Spec => KeepsPromise
<1>1. Init => Promise!Init
  BY DEF Init, Promise!Init, Status, StatusOf
<1>2. IInv /\ [Next]_vars => [Promise!Next]_Promise!vars
  <2> SUFFICES ASSUME IInv, [Next]_vars
               PROVE  Promise!Next \/ UNCHANGED Promise!vars
    OBVIOUS
  <2>1. ASSUME NEW k \in Keys, NEW e \in Envelopes, Enqueue(k, e)
        PROVE  Promise!Next \/ UNCHANGED Promise!vars
    BY <2>1, EnqueueMaps DEF Promise!Next
  <2>2. ASSUME NEW w \in Workers, Lease(w)
        PROVE  Promise!Next
    BY <2>2, LeaseMaps DEF Promise!Next
  <2>3. ASSUME NEW w \in Workers, NEW t \in tickets[w], Perform(w, t)
        PROVE  Promise!Next
    BY <2>3, PerformMaps DEF Promise!Next
  <2>4. ASSUME NEW w \in Workers, NEW t \in tickets[w], Ack(w, t)
        PROVE  Promise!Next \/ UNCHANGED Promise!vars
    BY <2>4, AckMaps DEF Promise!Next
  <2>5. ASSUME NEW w \in Workers, NEW t \in tickets[w], Retry(w, t)
        PROVE  Promise!Next \/ UNCHANGED Promise!vars
    BY <2>5, RetryMaps DEF Promise!Next
  <2>6. ASSUME NEW w \in Workers, Crash(w)
        PROVE  UNCHANGED Promise!vars
    BY <2>6, StatusStays DEF Crash, Promise!vars
  <2>7. ASSUME NEW k \in Keys, LeaseEnds(k) \/ ComesDue(k)
        PROVE  UNCHANGED Promise!vars
    BY <2>7, TimeMaps
  <2>8. CASE UNCHANGED vars
    BY <2>8, StatusStays DEF vars, Promise!vars
  <2> QED
    BY <2>1, <2>2, <2>3, <2>4, <2>5, <2>6, <2>7, <2>8 DEF Next, WorkerStep
<1> QED
  BY <1>1, <1>2, OutboxInvariant, PTL DEF Spec, KeepsPromise, Promise!Spec
=============================================================================
