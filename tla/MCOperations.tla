---------------------------- MODULE MCOperations ----------------------------
(***************************************************************************)
(* The components of a merchant's operations, as MCLibrary: a behaviour is  *)
(* one of the component named by focus.                                    *)
(***************************************************************************)
EXTENDS BookingEngine, PlanningAllocation, PortalDesk, ResourceReading,
        ServiceLifecycle, OwnerAdmission, GroupLocks, TLC

VARIABLE focus

\* BookingEngine: a request is its slot; transition may ask for the end states
\* only, since completed and refunded differ from cancelled in nothing a
\* property reads.
RequestIsSlot == [r \in Requests |-> r]
Asked == {"failed", "cancelled"}
CallersAndKeys == Permutations(Callers) \cup Permutations(Keys)

\* PlanningAllocation: two crews that share a worker.
MCWorkers(crew) == IF crew = "one" THEN {"ann"} ELSE {"ann", "bea"}

\* PortalDesk: bookings of every kind of day and state, one of another tenant.
Row(id, tenant, email, seed, day, total) ==
  [id |-> id, tenant |-> tenant, email |-> email, seed |-> seed, day |-> day, total |-> total]
MCDeskBookings ==
  {Row("k1", "us", "ann", "confirmed", 1, 3), Row("k2", "us", "bea", "confirmed", 8, 5),
   Row("k3", "us", "ann", "pending_payment", 2, 7), Row("k4", "them", "ann", "confirmed", 1, 9)}
MCDeskCustomers ==
  {[id |-> "ca", tenant |-> "us", email |-> "ann"], [id |-> "cb", tenant |-> "us", email |-> "bea"],
   [id |-> "cx", tenant |-> "them", email |-> "ann"]}
MCDeskServices == {[id |-> "s1", tenant |-> "us"], [id |-> "s2", tenant |-> "them"]}

\* ResourceReading: a van booked whole and a crew of two; the job takes both.
MCUnits == {[id |-> "van", mode |-> "exclusive", capacity |-> 1],
            [id |-> "crew", mode |-> "pooled", capacity |-> 2]}
MCWindows == {[from |-> 0, to |-> 2], [from |-> 1, to |-> 3], [from |-> 2, to |-> 3]}
MCNeeds == <<[unit |-> "crew", quantity |-> 1], [unit |-> "van", quantity |-> 1]>>

\* OwnerAdmission: two changes of different flows, a read and a profile; rate
\* limits that three requests reach.
MCOwnerAsks ==
  LET Ask(kind, scope, flow) == [kind |-> kind, scope |-> scope, flow |-> flow]
  IN {Ask("mutation", "ann", "f"), Ask("mutation", "ann", "g"), Ask("read", "ann", "none"),
      Ask("profile", "ann profile", "none")}
MCRateLimit == [global |-> 3, address |-> 2, read |-> 1, mutation |-> 1]

vars == <<focus, engine, planning, porting, resourcing, service, admission, locking>>

Init ==
  /\ focus \in {"engine", "plan", "portal", "avail", "serve", "admit", "lock"}
  /\ EngineInit /\ PlanningInit /\ PortalInit /\ ReadingInit
  /\ ServiceInit /\ (focus # "serve" => host = "local")
  /\ AdmissionInit /\ LockInit

Next ==
  /\ UNCHANGED focus
  /\ \/ /\ focus = "engine" /\ EngineNext
        /\ UNCHANGED <<planning, porting, resourcing, service, admission, locking>>
     \/ /\ focus = "plan" /\ PlanningNext
        /\ UNCHANGED <<engine, porting, resourcing, service, admission, locking>>
     \/ /\ focus = "portal" /\ PortalNext
        /\ UNCHANGED <<engine, planning, resourcing, service, admission, locking>>
     \/ /\ focus = "avail" /\ ReadingNext
        /\ UNCHANGED <<engine, planning, porting, service, admission, locking>>
     \/ /\ focus = "serve" /\ ServiceNext
        /\ UNCHANGED <<engine, planning, porting, resourcing, admission, locking>>
     \/ /\ focus = "admit" /\ AdmissionNext
        /\ UNCHANGED <<engine, planning, porting, resourcing, service, locking>>
     \/ /\ focus = "lock" /\ LockNext
        /\ UNCHANGED <<engine, planning, porting, resourcing, service, admission>>

Spec == Init /\ [][Next]_vars

\* Planning groups: an allocation is taken, kept and reported whole, and the locks
\* it takes never meet the locks of another transaction in a circle but in the
\* inversion the migration names.
PlanningHolds ==
  /\ focus = "plan" => AllocationHolds
  /\ focus = "lock" => OnlyInvertedWritersDeadlock

\* ResourceReading: the reader of resource rows shows what their writer grants.
ReaderIsWriter == focus = "avail" => ReaderAgrees

\* The owner's service: a close leaves nothing behind, and admission lets in no
\* more than it can, whatever is answered before it has ended.
OwnerServiceHolds == CloseIsClean /\ AdmissionStaysExact /\ NothingEntersStopped
=============================================================================
