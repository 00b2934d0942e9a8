---------------------------- MODULE ResourceReading ----------------------------
(***************************************************************************)
(* packages/resources: the reader that says which units are free, next to  *)
(* the database's writer that grants them under its lock.  Checkout marks  *)
(* a slot by the reader; the writer decides later.                         *)
(***************************************************************************)
EXTENDS Integers, Sequences, FiniteSets, SequencesExt, FiniteSetsExt

CONSTANTS Units,           \* records [id, mode, capacity]
          Windows,         \* records [from, to], half open
          Holders,         \* bookings
          Needs,           \* the service's requirements: records [unit, quantity]
          RowQuantities,      \* units one reservation of the writer may hold
          HoldFor,         \* a hold's time to live
          LastMoment

\* What the schemas admit: an exclusive unit has one place, an id names one
\* unit, and a requirement asks for one unit or more.
ASSUME ReadingAssumption ==
  /\ \A u \in Units : u.capacity \in Nat \ {0} /\ (u.mode = "exclusive" => u.capacity = 1)
  /\ \A u, v \in Units : u.id = v.id => u = v
  /\ 1 \in DOMAIN Needs /\ \A i \in DOMAIN Needs : Needs[i].quantity \in Nat \ {0}

VARIABLES now, rows,       \* the clock and the reservations
          idle             \* units switched off
resourcing == <<now, rows, idle>>

ReadingInit == now = 0 /\ rows = {} /\ idle = {}

\* The writer, lumin.reserve_resource_quantity: it adds up quantities.  A booking
\* has one slot, and holds a resource once.
Overlap(a, b) == a.from < b.to /\ b.from < a.to
SumOf(S) == MapThenSumSet(LAMBDA r : r.quantity, S)
InForce(r) == r.status = "consumed" \/ (r.status = "held" /\ r.expires > now)
Counted(u, w) == {r \in rows : r.unit = u.id /\ InForce(r) /\ Overlap(r.window, w)}
Grants(u, w, q) == u \notin idle /\ SumOf(Counted(u, w)) + q <= u.capacity
NewRow(h, u, w, q) == [holder |-> h, unit |-> u.id, window |-> w, quantity |-> q,
                       status |-> "held", expires |-> now + HoldFor]
Reserve(h, u, w, q) ==
  /\ \A r \in rows : r.holder = h => r.unit # u.id /\ r.window = w
  /\ Grants(u, w, q)
  /\ rows' = rows \cup {NewRow(h, u, w, q)}
  /\ UNCHANGED <<now, idle>>
End(h, status) ==
  /\ \E r \in rows : r.holder = h /\ r.status = "held"
  /\ rows' = {IF r.holder = h /\ r.status = "held" THEN [r EXCEPT !.status = status, !.expires = 0] ELSE r : r \in rows}
  /\ UNCHANGED <<now, idle>>
SwitchOff(u) == idle' = idle \cup {u} /\ UNCHANGED <<now, rows>>
Pass == now < LastMoment /\ now' = now + 1 /\ UNCHANGED <<rows, idle>>

ReadingNext ==
  \/ \E h \in Holders, u \in Units, w \in Windows, q \in RowQuantities : Reserve(h, u, w, q)
  \/ \E h \in Holders, status \in {"consumed", "released", "expired"} : End(h, status)
  \/ \E u \in Units : SwitchOff(u)
  \/ Pass

ReadingSpec == ReadingInit /\ [][ReadingNext]_resourcing

\* The reader counts rows.
Mutant_HeldForEver(r, w) == r.status \in {"consumed", "held"} /\ Overlap(r.window, w)
ReservationConsumes(r, w) ==
  /\ r.status = "consumed" \/ (r.status = "held" /\ r.expires > now)
  /\ Overlap(r.window, w)
EffectiveCapacity(u) == IF u.mode = "exclusive" THEN 1 ELSE u.capacity
ResourceAvailability(u, w) ==
  LET left == EffectiveCapacity(u)
              - Cardinality({r \in rows : r.unit = u.id /\ ReservationConsumes(r, w)})
  IN IF u \in idle \/ left < 0 THEN 0 ELSE left
CanReserve(u, w, quantity) == quantity >= 1 /\ ResourceAvailability(u, w) >= quantity

\* resolveServiceRequirements: line by line; a line whose resource is unknown is
\* not met.  Checkout shows the first line's resource.
Satisfied(need, w) ==
  \E u \in Units : u.id = need.unit /\ ResourceAvailability(u, w) >= need.quantity
Shortfalls(w) == {i \in DOMAIN Needs : ~Satisfied(Needs[i], w)}
ResourceStatusForSlot(w) ==
  LET primary == {u \in Units : u.id = Needs[1].unit}
  IN [satisfiable |-> Shortfalls(w) = {},
      remaining |-> SumSet({ResourceAvailability(u, w) : u \in primary}),
      capacity |-> SumSet({EffectiveCapacity(u) : u \in primary})]
-----------------------------------------------------------------------------
\* The reader and the writer do not disagree about who holds a unit: what one
\* would hand out at this moment is what the other would grant, a slot shown as
\* bookable is one whose every requirement the writer would grant to one more
\* booking, and the badge never shows more than there is.
ReaderAgrees ==
  \A w \in Windows :
    /\ \A u \in Units : \A q \in 1..u.capacity : CanReserve(u, w, q) = Grants(u, w, q)
    /\ LET shown == ResourceStatusForSlot(w) IN
       /\ shown.satisfiable =
            \A i \in DOMAIN Needs : \E u \in Units : u.id = Needs[i].unit /\ Grants(u, w, Needs[i].quantity)
       /\ shown.remaining <= shown.capacity
       /\ shown.satisfiable => shown.remaining >= Needs[1].quantity
=============================================================================
