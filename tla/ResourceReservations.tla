------------------------ MODULE ResourceReservations ------------------------
(***************************************************************************)
(* Reservations of one resource: reserve_resource_quantity (0020) and the  *)
(* functions that consume and release holds (0012), the trigger and the    *)
(* exclusion constraint behind them (0031), and the owner's changes of the *)
(* resource's capacity.                                                    *)
(*                                                                         *)
(* Reservations of one resource are serialised by an advisory lock and     *)
(* share-lock the resource's row, so a function executes in one step.  But *)
(* now() is the time its transaction began, which may be long before: a    *)
(* call begins in a step of its own, and its wait may span an expiry if    *)
(* its kind is in Spanning.  clock_timestamp() is the time of the step.    *)
(***************************************************************************)
EXTENDS Integers, FiniteSets, FiniteSetsExt

CONSTANTS
  Bookings,
  Workers,
  Slots,       \* intervals, each the set of its moments
  Quantities,  \* that callers ask for
  Capacities,  \* that the owner may give the resource
  Spanning,    \* kinds of calls that may wait across an expiry
  Direct,      \* TRUE: rows are also inserted past the functions
  Absent

Moments == UNION Slots

Row == [slot : Slots, quantity : Nat \ {0}, elapsed : BOOLEAN,
        status : {"held", "consumed", "released", "expired"},
        exclusive : BOOLEAN]

VARIABLES
  capacity,  \* resources.capacity
  active,    \* resources.active
  rsv,       \* resource_reservations of the resource, by booking
  call       \* the call each worker has begun

vars == <<capacity, active, rsv, call>>

\* past: the holds whose time was over when the transaction began.
Call == [kind : {"reserve"}, booking : Bookings, slot : Slots,
         quantity : Nat \ {0}, past : SUBSET Bookings]
        \cup [kind : {"consume"}, booking : Bookings, past : SUBSET Bookings]

ASSUME ReservationAssumption ==
  /\ IsFiniteSet(Bookings)
  /\ Capacities \subseteq Nat \ {0}
  /\ Quantities \subseteq Int
  /\ Spanning \subseteq {"reserve", "consume"}
  /\ Direct \in BOOLEAN
  /\ Absent \notin Row /\ Absent \notin Call

Overlap(s, t) == s \cap t # {}
-----------------------------------------------------------------------------
(***************************************************************************)
(* The table: forced flag, reaping and exclusion.                          *)
(***************************************************************************)
Counted(r) == r # Absent /\ r.status \in {"held", "consumed"}

Forced(r) == [r EXCEPT !.exclusive = (capacity = 1)]

Mutant_ReapAnyHeld(r, b, past) ==
  {c \in Bookings \ {b} : /\ rsv[c] # Absent /\ rsv[c].status = "held"
                          /\ Overlap(rsv[c].slot, r.slot)}

Mutant_NoReap(r, b, past) == {}

\* Holds that a write of a counted row of an exclusive resource turns expired.
Reaped(r, b, past) ==
  {c \in Bookings \ {b} : /\ rsv[c] # Absent /\ rsv[c].status = "held"
                          /\ c \in past
                          /\ Overlap(rsv[c].slot, r.slot)}

\* The table after the trigger and the write of row r for booking b.
Stored(r, b, past) ==
  [c \in Bookings |->
     IF c = b THEN Forced(r)
     ELSE IF capacity = 1 /\ Counted(r) /\ c \in Reaped(r, b, past)
          THEN Forced([rsv[c] EXCEPT !.status = "expired"])
          ELSE rsv[c]]

\* resource_reservations_no_exclusive_overlap
Excludes(f) ==
  \A a, b \in Bookings :
    /\ a # b
    /\ Counted(f[a]) /\ Counted(f[b])
    /\ f[a].exclusive /\ f[b].exclusive
    => ~ Overlap(f[a].slot, f[b].slot)

\* A write that the constraint rejects leaves the table as it was.
Write(r, b, past) ==
  rsv' = IF Excludes(Stored(r, b, past)) THEN Stored(r, b, past) ELSE rsv
-----------------------------------------------------------------------------
(***************************************************************************)
(* The functions.                                                          *)
(***************************************************************************)
Holds(b) == rsv[b] # Absent /\ rsv[b].status = "held"
Live(b) == Holds(b) /\ ~ rsv[b].elapsed
Consumed(b) == rsv[b] # Absent /\ rsv[b].status = "consumed"

\* Who takes units away from a request of booking b for slot.
Takers(b, slot) ==
  {c \in Bookings \ {b} : (Consumed(c) \/ Live(c)) /\ Overlap(rsv[c].slot, slot)}

UnitsOf(c) == rsv[c].quantity

HasUnits(b, slot, quantity) ==
  MapThenSumSet(UnitsOf, Takers(b, slot)) + quantity <= capacity

\* A transaction that may span an expiry keeps its idea of what is over.
Over == {b \in Bookings : rsv[b] # Absent /\ rsv[b].elapsed}

Past(c) == IF c.kind \in Spanning THEN c.past ELSE Over

ValidRequest(quantity) == quantity >= 1

PastAtBegin(kind) == IF kind \in Spanning THEN Over ELSE {}

BeginReserve(w, b, slot, quantity) ==
  /\ call[w] = Absent
  /\ ValidRequest(quantity)
  /\ call' = [call EXCEPT ![w] =
       [kind |-> "reserve", booking |-> b, slot |-> slot,
        quantity |-> quantity, past |-> PastAtBegin("reserve")]]
  /\ UNCHANGED <<capacity, active, rsv>>

BeginConsume(w, b) ==
  /\ call[w] = Absent
  /\ call' = [call EXCEPT ![w] =
       [kind |-> "consume", booking |-> b, past |-> PastAtBegin("consume")]]
  /\ UNCHANGED <<capacity, active, rsv>>

\* The call of w returns.  A hold with a new expiry is not over for anybody.
Returned(w, renewed) ==
  call' = [v \in Workers |->
             IF v = w \/ call[v] = Absent THEN Absent
             ELSE [call[v] EXCEPT !.past = @ \ renewed]]

\* A consumed or live row is the answer to a repeated request, or conflicts
\* with a different one: nothing is written in either case.
AlreadyReserved(b) == Consumed(b) \/ Live(b)

Accepts(c) ==
  active /\ ~ AlreadyReserved(c.booking) /\ HasUnits(c.booking, c.slot, c.quantity)

Granted(c) ==
  [slot |-> c.slot, quantity |-> c.quantity, elapsed |-> FALSE,
   status |-> "held", exclusive |-> FALSE]

Reserve(w) ==
  /\ call[w] # Absent /\ call[w].kind = "reserve"
  /\ LET c == call[w] IN
       IF Accepts(c)
       THEN /\ Write(Granted(c), c.booking, Past(c))
            /\ Returned(w, IF rsv' = rsv THEN {} ELSE {c.booking})
       ELSE UNCHANGED rsv /\ Returned(w, {})
  /\ UNCHANGED <<capacity, active>>

\* consume_resource_holds
Consume(w) ==
  /\ call[w] # Absent /\ call[w].kind = "consume"
  /\ LET c == call[w] IN
       IF Holds(c.booking) /\ c.booking \notin Past(c)
       THEN Write([rsv[c.booking] EXCEPT !.status = "consumed"],
                  c.booking, Past(c))
       ELSE UNCHANGED rsv
  /\ Returned(w, {})
  /\ UNCHANGED <<capacity, active>>

\* release_resource_holds
Release(b) ==
  /\ Holds(b)
  /\ Write([rsv[b] EXCEPT !.status = "released"], b, Over)
  /\ UNCHANGED <<capacity, active, call>>

\* A privileged writer that does not use the functions.
DirectInsert(b, slot, quantity) ==
  /\ Direct /\ rsv[b] = Absent /\ quantity >= 1
  /\ \E s \in {"held", "consumed"} :
       Write([slot |-> slot, quantity |-> quantity, elapsed |-> FALSE,
              status |-> s, exclusive |-> FALSE], b, Over)
  /\ UNCHANGED <<capacity, active, call>>
-----------------------------------------------------------------------------
(***************************************************************************)
(* The owner, and time.                                                    *)
(***************************************************************************)
Mutant_NoResync(c) == rsv

\* The flags of counted rows follow a change of the capacity.
Resynced(c) ==
  [b \in Bookings |->
     IF Counted(rsv[b]) THEN [rsv[b] EXCEPT !.exclusive = (c = 1)] ELSE rsv[b]]

ChangeCapacity(c) ==
  /\ c # capacity
  /\ Excludes(Resynced(c))
  /\ capacity' = c
  /\ rsv' = Resynced(c)
  /\ UNCHANGED <<active, call>>

Switch ==
  /\ active' = ~ active
  /\ UNCHANGED <<capacity, rsv, call>>

\* Only of a hold does the expiry matter.
Elapse(b) ==
  /\ Live(b)
  /\ rsv' = [rsv EXCEPT ![b].elapsed = TRUE]
  /\ UNCHANGED <<capacity, active, call>>
-----------------------------------------------------------------------------
Init ==
  /\ capacity \in Capacities
  /\ active = TRUE
  /\ rsv = [b \in Bookings |-> Absent]
  /\ call = [w \in Workers |-> Absent]

Next ==
  \/ \E w \in Workers, b \in Bookings, s \in Slots, q \in Quantities :
       BeginReserve(w, b, s, q)
  \/ \E w \in Workers, b \in Bookings : BeginConsume(w, b)
  \/ \E w \in Workers : Reserve(w) \/ Consume(w)
  \/ \E b \in Bookings, s \in Slots, q \in Quantities : DirectInsert(b, s, q)
  \/ \E b \in Bookings : Release(b) \/ Elapse(b)
  \/ \E c \in Capacities : ChangeCapacity(c)
  \/ Switch

Spec == Init /\ [][Next]_vars
-----------------------------------------------------------------------------
\* Requests that reach the table ask for at least one unit.
TypeOK ==
  /\ capacity \in Capacities
  /\ active \in BOOLEAN
  /\ rsv \in [Bookings -> Row \cup {Absent}]
  /\ call \in [Workers -> Call \cup {Absent}]

\* An exclusive unit is never promised twice for one moment, whoever writes:
\* neither by a direct insert nor by making a shared resource exclusive while
\* several bookings share it.
NoDoubleUse ==
  capacity = 1 =>
    \A a, b \in Bookings :
      a # b /\ Counted(rsv[a]) /\ Counted(rsv[b])
      => ~ Overlap(rsv[a].slot, rsv[b].slot)

\* Units promised for a moment: consumed, or held and not over.
Using(m) == {b \in Bookings : (Consumed(b) \/ Live(b)) /\ m \in rsv[b].slot}
Used(m) == MapThenSumSet(UnitsOf, Using(m))

\* A call of the functions never takes the units of a moment beyond the
\* capacity, although the owner may have lowered it below what is promised.
CallsFit ==
  [][\A w \in Workers : call[w] # Absent /\ call'[w] = Absent =>
       \A m \in Moments : Used(m)' <= Used(m) \/ Used(m)' <= capacity]_vars

\* What a booking was promised is not taken away by the traffic of others: a
\* live hold stays, with its interval and its units, until its own booking
\* consumes or releases it, and a consumed one stays for ever.
PromiseIsKept ==
  [][\A b \in Bookings : Consumed(b) \/ Live(b) =>
       /\ rsv'[b].slot = rsv[b].slot /\ rsv'[b].quantity = rsv[b].quantity
       /\ \/ rsv'[b].status = rsv[b].status
          \/ rsv[b].status = "held" /\ rsv'[b].status \in {"consumed", "released"}]_vars

\* The count and the constraint agree on what takes units: a request for which
\* the function found room is stored, unless a hold ran out while it waited.
RoomIsGranted ==
  [][\A w \in Workers, b \in Bookings :
       /\ call[w] # Absent /\ call'[w] = Absent
       /\ call[w].kind = "reserve" /\ call[w].booking = b
       /\ Accepts(call[w]) /\ Past(call[w]) = Over
       => Live(b)']_vars

\* A call is granted what is free, and only that.
GrantsAreFair == CallsFit /\ RoomIsGranted
=============================================================================
