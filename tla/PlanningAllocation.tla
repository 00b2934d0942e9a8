-------------------------- MODULE PlanningAllocation --------------------------
(***************************************************************************)
(* The API's allocator of planning groups: planning-allocation-repository  *)
(* drives one transaction of allocate_planning_group and says what became  *)
(* of it, also when an abort, a deadline or a lost connection leaves the   *)
(* driver and the server apart.  A call's client and its backend are two   *)
(* processes: what the backend was sent it may still do after the client   *)
(* was thrown away.  The schedule's own checks (policy, shifts, lead time) *)
(* are left out; what contends is the crews' workers.                      *)
(***************************************************************************)
EXTENDS Integers, Sequences, FiniteSets, SequencesExt

CONSTANTS Bookings,        \* draft bookings, all at the same time
          Crews, Workers(_),   \* crews and the workers of one
          Calls,           \* calls of allocate, each made once
          PoolMax,         \* connections of the pool
          GroupTTL,        \* ttl_seconds of the policy
          CallBudget,      \* the 10 seconds of a call, in steps of the clock
          PlanningHorizon, \* the clock's last step
          MaxGenerations

ASSUME PlanningAssumption == GroupTTL \in Nat /\ MaxGenerations \in Nat

VARIABLES clock,           \* the server's clock, and the wall's when it is right
          lag,             \* how far this host's wall clock was set back
          group,           \* per booking, its generations; the last is current
          call,            \* per call, the client's side
          backend          \* per call, the server's side
planning == <<clock, lag, group, call, backend>>

Asks == [booking : Bookings, crew : Crews, target : 1..MaxGenerations]
NoGroup == [crew |-> "none", expires |-> 0, status |-> "none", by |-> {}]
Idle == [phase |-> "idle", kind |-> "none", usable |-> FALSE,
         entry |-> 0, lagAtEntry |-> 0, expires |-> 0, toldAt |-> 0]
NoBackend == [at |-> "none", ask |-> CHOOSE a \in Asks : TRUE, new |-> NoGroup]

PlanningInit ==
  /\ clock = 0 /\ lag = 0
  /\ group = [b \in Bookings |-> <<>>]
  /\ call = [c \in Calls |-> Idle]
  /\ backend = [c \in Calls |-> NoBackend]

Elapsed(c) == clock - call[c].entry
Unsettled(c) == call[c].phase \notin {"idle", "settled"}
\* SHARE ROW EXCLUSIVE on allocation_group_heads: one writer at a time.
Writing == {c \in Calls : backend[c].at \in {"wrote", "refused"}}

\* allocate: the clocks are read before anything else.
Allocate(c, a) ==
  /\ call[c].phase = "idle"
  /\ call' = [call EXCEPT ![c] = [@ EXCEPT !.phase = "acquiring", !.entry = clock,
                                           !.lagAtEntry = lag]]
  /\ backend' = [backend EXCEPT ![c].ask = a]
  /\ UNCHANGED <<clock, lag, group>>

Settled(kind) == [Idle EXCEPT !.phase = "settled", !.kind = kind]
StopKind(c) == IF call[c].phase = "committing" THEN "unknown_commit" ELSE "failed"
\* finish(..., bad): the connection is thrown away, the backend is on its own.
Finish(c, kind) ==
  /\ call' = [call EXCEPT ![c] = Settled(kind)]
  /\ UNCHANGED <<clock, lag, group, backend>>
\* stop: an abort, close, an error of the client or a deadline, at any time.
StopCall(c) == Unsettled(c) /\ Finish(c, StopKind(c))

\* pool.connect answers a call still wanted, and BEGIN follows.
Acquire(c) ==
  /\ call[c].phase = "acquiring"
  /\ Elapsed(c) < CallBudget
  /\ Cardinality({d \in Calls : call[d].phase \in {"in_transaction", "committing"}}) < PoolMax
  /\ call' = [call EXCEPT ![c].phase = "in_transaction"]
  /\ backend' = [backend EXCEPT ![c].at = "open"]
  /\ UNCHANGED <<clock, lag, group>>

\* Workers held at this moment for another group.
Held(b) == {g \in Range(group[b]) : g.status = "held" /\ g.expires > clock}
TakenBut(b) == UNION {UNION {Workers(g.crew) : g \in Held(d)} : d \in Bookings \ {b}}

Current(b) == IF group[b] = <<>> THEN NoGroup ELSE Last(group[b])
Retry(a) == a.target = Len(group[a.booking]) /\ Current(a.booking).crew = a.crew
Renewal(a) ==
  /\ a.target = Len(group[a.booking]) + 1
  /\ Current(a.booking).status # "held"
  /\ Workers(a.crew) \cap TakenBut(a.booking) = {}

\* allocate_planning_group: the same target again answers with what is stored,
\* the next one takes the workers, anything else is refused.
Unlocked == Writing = {}
RunAllocate(c) ==
  /\ backend[c].at = "open"
  /\ Unlocked
  /\ LET a == backend[c].ask
         fresh == [crew |-> a.crew, expires |-> clock + GroupTTL, status |-> "held", by |-> {c}]
     IN backend' = [backend EXCEPT ![c].at = IF Retry(a) \/ Renewal(a) THEN "wrote" ELSE "refused",
                                   ![c].new = IF Retry(a) THEN Current(a.booking)
                                              ELSE IF Renewal(a) THEN fresh ELSE NoGroup]
  /\ UNCHANGED <<clock, lag, group, call>>

\* The answer of the SELECT: a receipt is followed by COMMIT, an error ends the call.
Answered(c) ==
  /\ call[c].phase = "in_transaction"
  /\ \/ /\ backend[c].at = "wrote" /\ Elapsed(c) < CallBudget
        /\ call' = [call EXCEPT ![c].phase = "committing",
                                ![c].expires = backend[c].new.expires]
        /\ UNCHANGED <<clock, lag, group, backend>>
     \/ backend[c].at = "refused" /\ Finish(c, "failed")

\* The server ends a transaction: it commits one whose COMMIT was sent, also after
\* its client is gone, and rolls back any other that lost its client, or by itself.
CommitSent(c) == call[c].phase = "committing" \/ call[c].kind = "unknown_commit"
ServerCommits(c) ==
  /\ backend[c].at = "wrote" /\ CommitSent(c)
  /\ backend' = [backend EXCEPT ![c].at = "committed"]
  /\ LET a == backend[c].ask
     IN group' = IF a.target > Len(group[a.booking])
                 THEN [group EXCEPT ![a.booking] = Append(@, backend[c].new)]
                 ELSE group
  /\ UNCHANGED <<clock, lag, call>>
ServerRollsBack(c) ==
  /\ backend[c].at \in {"open", "wrote", "refused"}
  /\ call[c].phase \in {"settled", "committing"}
  /\ backend' = [backend EXCEPT ![c].at = "rolled_back", ![c].new = NoGroup]
  /\ UNCHANGED <<clock, lag, group, call>>

\* The answer of COMMIT.  A receipt is usable when neither the wall clock nor the
\* wall at entry with the monotonic time spent since has passed its expiry.
Wall == clock - lag
Comparison(c) == LET floor == call[c].entry - call[c].lagAtEntry + Elapsed(c)
                 IN IF floor > Wall THEN floor ELSE Wall
CommitAnswered(c) ==
  /\ call[c].phase = "committing"
  /\ \/ backend[c].at = "rolled_back" /\ Finish(c, "failed")
     \/ /\ backend[c].at = "committed"
        /\ IF Elapsed(c) >= CallBudget THEN Finish(c, "withheld")
           ELSE /\ call' = [call EXCEPT ![c] = [@ EXCEPT
                     !.phase = "settled", !.kind = "receipt", !.toldAt = clock, !.entry = 0,
                     !.usable = backend[c].new.status = "held" /\ Comparison(c) < call[c].expires]]
                /\ UNCHANGED <<clock, lag, group, backend>>

\* release_planning_group: only the current generation, once.
ReleaseGroup(b) ==
  /\ Unlocked
  /\ group[b] # <<>> /\ Current(b).status = "held"
  /\ group' = [group EXCEPT ![b][Len(group[b])].status =
                IF clock >= Current(b).expires THEN "expired" ELSE "released"]
  /\ UNCHANGED <<clock, lag, call, backend>>

Tick == clock < PlanningHorizon /\ clock' = clock + 1 /\ UNCHANGED <<lag, group, call, backend>>
SetBack == lag = 0 /\ clock > 0 /\ lag' = 1 /\ UNCHANGED <<clock, group, call, backend>>

PlanningNext ==
  \/ \E c \in Calls :
       \/ \E a \in Asks : Allocate(c, a)
       \/ StopCall(c) \/ Acquire(c) \/ RunAllocate(c) \/ Answered(c)
       \/ ServerCommits(c) \/ ServerRollsBack(c) \/ CommitAnswered(c)
  \/ \E b \in Bookings : ReleaseGroup(b)
  \/ Tick \/ SetBack

PlanningSpec == PlanningInit /\ [][PlanningNext]_planning
-----------------------------------------------------------------------------
\* What a caller is told holds from then on: after "failed" this call's group is
\* never stored, by no answer that comes late; after "committed" the group asked
\* for is; and a receipt called usable had not expired on the server's clock, even
\* if this host's clock was set back during the call.
AllocationToldTrue ==
  \A c \in Calls :
    LET a == backend[c].ask IN
    /\ call[c].kind = "failed" => \A b \in Bookings : \A g \in Range(group[b]) : c \notin g.by
    /\ call[c].kind \in {"receipt", "withheld"} =>
         Len(group[a.booking]) >= a.target /\ group[a.booking][a.target].crew = a.crew
    /\ call[c].usable /\ call[c].lagAtEntry = 0 => call[c].toldAt < call[c].expires

\* No worker is held for two bookings at once, whatever calls were retried, cut
\* off in their COMMIT or overtaken by a release and the next generation.
NoWorkerTwice ==
  \A b, d \in Bookings : b # d =>
    \A g \in Held(b), h \in Held(d) : Workers(g.crew) \cap Workers(h.crew) = {}

\* Told truly, and never twice the same worker.
AllocationHolds == AllocationToldTrue /\ NoWorkerTwice
=============================================================================
