-------------------------- MODULE Repositories_proofs --------------------------
(***************************************************************************)
(* Proofs about the two components whose rows the database's own           *)
(* transactions guard.                                                     *)
(*                                                                         *)
(* ResourceReservations, for every set of bookings, intervals and workers, *)
(* every capacity, any calls that span expiries, and with direct inserts.  *)
(*                                                                         *)
(* OwnerJourney, for every set of portals, any assignment of actors and    *)
(* any number of operations and sign-ins: whatever deadlines cut one layer *)
(* off from the next, what an owner is told of a change is so, a portal    *)
(* has one change that may still happen, and no change is made to settings *)
(* its owner had not seen.                                                 *)
(***************************************************************************)
EXTENDS ResourceReservations, OwnerJourney, Summation, FiniteSetTheorems, TLAPS

-----------------------------------------------------------------------------
(* Resource reservations *)

RowsTyped == rsv \in [Bookings -> Row \cup {Absent}]

\* The flag of a counted row is the truth about its resource.
FlagsAgree ==
  \A b \in Bookings : Counted(rsv[b]) => rsv[b].exclusive = (capacity = 1)

TableInv ==
  /\ capacity \in Capacities
  /\ RowsTyped /\ FlagsAgree /\ Excludes(rsv)

CallsTyped ==
  /\ active \in BOOLEAN
  /\ call \in [Workers -> Call \cup {Absent}]

\* What a waiting call takes for over is over.
PastIsOver ==
  \A w \in Workers : call[w] # Absent => call[w].past \subseteq Over

IInv == TableInv /\ CallsTyped /\ PastIsOver

\* A row is not the absence of one.
LEMMA RowExists ==
  ASSUME NEW r \in Row
  PROVE  r # Absent
BY ReservationAssumption

-----------------------------------------------------------------------------
(***************************************************************************)
(* The table.                                                              *)
(***************************************************************************)

\* Forcing the flag changes nothing else.
LEMMA ForcedRow ==
  ASSUME NEW r \in Row
  PROVE  /\ Forced(r) \in Row /\ Forced(r).exclusive = (capacity = 1)
         /\ Forced(r).slot = r.slot /\ Forced(r).quantity = r.quantity
         /\ Forced(r).elapsed = r.elapsed /\ Forced(r).status = r.status
BY DEF Forced, Row

\* A reaped row is the old one, expired.
LEMMA ReapedRow ==
  ASSUME RowsTyped, NEW r, NEW b \in Bookings, NEW past,
         NEW c \in Reaped(r, b, past)
  PROVE  LET s == Forced([rsv[c] EXCEPT !.status = "expired"])
         IN  s \in Row /\ s.status = "expired" /\ s.elapsed = rsv[c].elapsed
<1>1. c \in Bookings /\ rsv[c] \in Row
  BY DEF Reaped, RowsTyped
<1>2. /\ [rsv[c] EXCEPT !.status = "expired"] \in Row
      /\ [rsv[c] EXCEPT !.status = "expired"].status = "expired"
      /\ [rsv[c] EXCEPT !.status = "expired"].elapsed = rsv[c].elapsed
  BY <1>1 DEF Row
<1> QED
  BY <1>2, ForcedRow

\* The three kinds of rows in the table after a write.
LEMMA StoredRows ==
  ASSUME RowsTyped, NEW r \in Row, NEW b \in Bookings, NEW past,
         NEW c \in Bookings
  PROVE  \/ c = b /\ Stored(r, b, past)[c] = Forced(r)
         \/ /\ c # b /\ c \in Reaped(r, b, past)
            /\ Stored(r, b, past)[c] \in Row
            /\ Stored(r, b, past)[c].status = "expired"
            /\ Stored(r, b, past)[c].elapsed = rsv[c].elapsed
         \/ c # b /\ Stored(r, b, past)[c] = rsv[c]
BY ReapedRow DEF Stored

\* A write keeps the table, whether the constraint accepts it or not.
LEMMA WriteInv ==
  ASSUME TableInv, NEW r \in Row, NEW b \in Bookings, NEW past,
         Write(r, b, past), UNCHANGED capacity
  PROVE  TableInv'
<1>1. CASE rsv' = rsv
  BY <1>1 DEF TableInv, RowsTyped, FlagsAgree, Counted, Excludes
<1>2. CASE Excludes(Stored(r, b, past)) /\ rsv' = Stored(r, b, past)
  <2>1. RowsTyped'
    <3>1. \A c \in Bookings : rsv'[c] \in Row \cup {Absent}
      BY <1>2, StoredRows, ForcedRow DEF TableInv, RowsTyped
    <3>2. rsv' = [c \in Bookings |-> rsv'[c]]
      BY <1>2 DEF Stored
    <3> QED
      BY <3>1, <3>2 DEF RowsTyped
  <2>2. FlagsAgree'
    <3> SUFFICES ASSUME NEW c \in Bookings, Counted(rsv'[c])
                 PROVE  rsv'[c].exclusive = (capacity = 1)
      BY DEF FlagsAgree
    <3>1. CASE c = b
      BY <1>2, <3>1, ForcedRow DEF Stored
    <3>2. CASE c # b
      <4>1. rsv'[c].status = "expired" \/ rsv'[c] = rsv[c]
        BY <1>2, <3>2, StoredRows DEF TableInv
      <4> QED
        BY <4>1 DEF Counted, TableInv, FlagsAgree
    <3> QED
      BY <3>1, <3>2
  <2>3. Excludes(rsv')
    BY <1>2
  <2> QED
    BY <2>1, <2>2, <2>3 DEF TableInv
<1> QED
  BY <1>1, <1>2 DEF Write

\* A write makes no row younger but the one it is for.
LEMMA WriteOver ==
  ASSUME TableInv, NEW r \in Row, NEW b \in Bookings, NEW past,
         Write(r, b, past), NEW c \in Over, c # b
  PROVE  c \in Over'
<1>1. c \in Bookings /\ rsv[c] # Absent /\ rsv[c].elapsed
  BY DEF Over
<1>2. rsv'[c] # Absent /\ rsv'[c].elapsed
  <2>1. CASE rsv' = rsv
    BY <1>1, <2>1
  <2>2. CASE rsv' = Stored(r, b, past)
    BY <1>1, <2>2, StoredRows, RowExists DEF TableInv
  <2> QED
    BY <2>1, <2>2 DEF Write
<1> QED
  BY <1>1, <1>2 DEF Over

\* An exclusive resource is not used twice.
LEMMA TableExcludes ==
  ASSUME TableInv
  PROVE  NoDoubleUse
BY DEF TableInv, FlagsAgree, Excludes, NoDoubleUse

-----------------------------------------------------------------------------
(***************************************************************************)
(* Calls.                                                                  *)
(***************************************************************************)

\* A returning call leaves typed calls.
LEMMA ReturnedTyped ==
  ASSUME CallsTyped, NEW w \in Workers, NEW renewed, Returned(w, renewed)
  PROVE  call' \in [Workers -> Call \cup {Absent}]
<1>1. ASSUME NEW v \in Workers, call[v] # Absent
      PROVE  [call[v] EXCEPT !.past = @ \ renewed] \in Call
  BY <1>1 DEF CallsTyped, Call
<1> QED
  BY <1>1 DEF Returned, CallsTyped

\* What other calls take for over stays over, but for renewed holds.
LEMMA ReturnedPast ==
  ASSUME CallsTyped, PastIsOver, NEW w \in Workers, NEW renewed,
         Returned(w, renewed), \A c \in Over \ renewed : c \in Over'
  PROVE  PastIsOver'
<1> SUFFICES ASSUME NEW v \in Workers, call'[v] # Absent
             PROVE  call'[v].past \subseteq Over'
  BY DEF PastIsOver
<1>1. call[v] # Absent /\ call'[v] = [call[v] EXCEPT !.past = @ \ renewed]
  BY DEF Returned
<1>2. call[v] \in Call
  BY <1>1 DEF CallsTyped
<1>3. call'[v].past = call[v].past \ renewed
  BY <1>1, <1>2 DEF Call
<1> QED
  BY <1>1, <1>3 DEF PastIsOver

\* What a call takes for over, it takes rightly.
LEMMA PastOver ==
  ASSUME IInv, NEW w \in Workers, call[w] # Absent
  PROVE  Past(call[w]) \subseteq Over
BY DEF IInv, PastIsOver, Past

\* The row of a granted request.
LEMMA GrantedRow ==
  ASSUME CallsTyped, NEW w \in Workers, call[w] # Absent,
         call[w].kind = "reserve"
  PROVE  Granted(call[w]) \in Row /\ call[w].booking \in Bookings
<1>1. /\ call[w].booking \in Bookings /\ call[w].slot \in Slots
      /\ call[w].quantity \in Nat \ {0}
  BY DEF CallsTyped, Call
<1> QED
  BY <1>1 DEF Granted, Row

\* A call names a booking.
LEMMA CallBooking ==
  ASSUME CallsTyped, NEW w \in Workers, call[w] # Absent
  PROVE  call[w].booking \in Bookings
BY DEF CallsTyped, Call

\* A row with another status is a row.
LEMMA StatusRow ==
  ASSUME NEW r \in Row, NEW s \in {"held", "consumed", "released", "expired"}
  PROVE  LET q == [r EXCEPT !.status = s]
         IN  /\ q \in Row /\ q.slot = r.slot /\ q.quantity = r.quantity
             /\ q.elapsed = r.elapsed /\ q.status = s
BY DEF Row

-----------------------------------------------------------------------------
(***************************************************************************)
(* The invariant.                                                          *)
(***************************************************************************)

\* Reserve.
LEMMA ReserveInv ==
  ASSUME IInv, NEW w \in Workers, Reserve(w)
  PROVE  IInv'
<1> DEFINE c == call[w]
<1>1. /\ CallsTyped /\ PastIsOver /\ TableInv /\ c # Absent
      /\ c.kind = "reserve" /\ UNCHANGED <<capacity, active>>
  BY DEF IInv, Reserve
<1>2. Granted(c) \in Row /\ c.booking \in Bookings
  BY <1>1, GrantedRow
<1>3. CASE /\ Write(Granted(c), c.booking, Past(c))
           /\ Returned(w, IF rsv' = rsv THEN {} ELSE {c.booking})
  <2>1. TableInv'
    BY <1>1, <1>2, <1>3, WriteInv
  <2>2. \A d \in Over \ (IF rsv' = rsv THEN {} ELSE {c.booking}) : d \in Over'
    BY <1>1, <1>2, <1>3, WriteOver DEF Over
  <2>3. PastIsOver' /\ CallsTyped'
    BY <1>1, <1>3, <2>2, ReturnedPast, ReturnedTyped DEF CallsTyped
  <2> QED
    BY <2>1, <2>3 DEF IInv
<1>4. CASE UNCHANGED rsv /\ Returned(w, {})
  <2>1. TableInv'
    BY <1>1, <1>4 DEF TableInv, RowsTyped, FlagsAgree, Counted, Excludes
  <2>2. \A d \in Over \ {} : d \in Over'
    BY <1>4 DEF Over
  <2>3. PastIsOver' /\ CallsTyped'
    BY <1>1, <1>4, <2>2, ReturnedPast, ReturnedTyped DEF CallsTyped
  <2> QED
    BY <2>1, <2>3 DEF IInv
<1> QED
  BY <1>3, <1>4 DEF Reserve

\* Consume.
LEMMA ConsumeInv ==
  ASSUME IInv, NEW w \in Workers, Consume(w)
  PROVE  IInv'
<1> DEFINE c == call[w]
           r == [rsv[c.booking] EXCEPT !.status = "consumed"]
<1>1. /\ CallsTyped /\ PastIsOver /\ TableInv /\ c # Absent
      /\ Returned(w, {}) /\ UNCHANGED <<capacity, active>>
  BY DEF IInv, Consume
<1>2. c.booking \in Bookings
  BY <1>1, CallBooking
<1>3. CASE Holds(c.booking) /\ Write(r, c.booking, Past(c))
  <2>1. rsv[c.booking] \in Row
    BY <1>1, <1>2, <1>3 DEF TableInv, RowsTyped, Holds
  <2>2. r \in Row /\ r.elapsed = rsv[c.booking].elapsed
    BY <2>1, StatusRow
  <2>3. TableInv'
    BY <1>1, <1>2, <1>3, <2>2, WriteInv
  <2>4. ASSUME NEW d \in Over PROVE d \in Over'
    <3>1. CASE d # c.booking
      BY <3>1, <1>1, <1>2, <1>3, <2>2, WriteOver
    <3>2. CASE d = c.booking
      <4>1. rsv[d].elapsed
        BY DEF Over
      <4>2. rsv'[d] = Forced(r) \/ rsv' = rsv
        BY <1>2, <1>3, <3>2 DEF Write, Stored
      <4>3. rsv'[d] # Absent /\ rsv'[d].elapsed
        BY <2>1, <2>2, <3>2, <4>1, <4>2, ForcedRow, RowExists
      <4> QED
        BY <1>2, <3>2, <4>3 DEF Over
    <3> QED
      BY <3>1, <3>2
  <2>5. PastIsOver' /\ CallsTyped'
    BY <1>1, <2>4, ReturnedPast, ReturnedTyped DEF CallsTyped
  <2> QED
    BY <2>3, <2>5 DEF IInv
<1>4. CASE UNCHANGED rsv
  <2>1. TableInv'
    BY <1>1, <1>4 DEF TableInv, RowsTyped, FlagsAgree, Counted, Excludes
  <2>2. \A d \in Over \ {} : d \in Over'
    BY <1>4 DEF Over
  <2>3. PastIsOver' /\ CallsTyped'
    BY <1>1, <2>2, ReturnedPast, ReturnedTyped DEF CallsTyped
  <2> QED
    BY <2>1, <2>3 DEF IInv
<1> QED
  BY <1>3, <1>4 DEF Consume

\* Release.
LEMMA ReleaseInv ==
  ASSUME IInv, NEW b \in Bookings, Release(b)
  PROVE  IInv'
<1> DEFINE r == [rsv[b] EXCEPT !.status = "released"]
<1>1. /\ CallsTyped /\ PastIsOver /\ TableInv /\ Holds(b)
      /\ Write(r, b, Over) /\ UNCHANGED <<capacity, active, call>>
  BY DEF IInv, Release
<1>2. rsv[b] \in Row
  BY <1>1 DEF TableInv, RowsTyped, Holds
<1>3. r \in Row /\ r.elapsed = rsv[b].elapsed
  BY <1>2, StatusRow
<1>4. TableInv'
  BY <1>1, <1>3, WriteInv
<1>5. ASSUME NEW d \in Over PROVE d \in Over'
  <2>1. CASE d # b
    BY <2>1, <1>1, <1>3, WriteOver
  <2>2. CASE d = b
    <3>1. rsv[d].elapsed
      BY DEF Over
    <3>2. rsv'[d] = Forced(r) \/ rsv' = rsv
      BY <1>1, <2>2 DEF Write, Stored
    <3>3. rsv'[d] # Absent /\ rsv'[d].elapsed
      BY <1>2, <1>3, <2>2, <3>1, <3>2, ForcedRow, RowExists
    <3> QED
      BY <2>2, <3>3 DEF Over
  <2> QED
    BY <2>1, <2>2
<1>6. PastIsOver' /\ CallsTyped'
  BY <1>1, <1>5 DEF PastIsOver, CallsTyped
<1> QED
  BY <1>4, <1>6 DEF IInv

\* A direct insert.
LEMMA DirectInv ==
  ASSUME IInv, NEW b \in Bookings, NEW s \in Slots, NEW q \in Quantities,
         DirectInsert(b, s, q)
  PROVE  IInv'
<1>1. PICK t \in {"held", "consumed"} :
        Write([slot |-> s, quantity |-> q, elapsed |-> FALSE,
               status |-> t, exclusive |-> FALSE], b, Over)
  BY DEF DirectInsert
<1> DEFINE r == [slot |-> s, quantity |-> q, elapsed |-> FALSE,
                 status |-> t, exclusive |-> FALSE]
<1>2. r \in Row
  BY ReservationAssumption DEF DirectInsert, Row
<1>3. /\ CallsTyped /\ PastIsOver /\ TableInv /\ rsv[b] = Absent
      /\ UNCHANGED <<capacity, active, call>>
  BY DEF IInv, DirectInsert
<1>4. TableInv'
  BY <1>1, <1>2, <1>3, WriteInv
<1>5. \A d \in Over : d \in Over'
  BY <1>1, <1>2, <1>3, WriteOver DEF Over
<1>6. PastIsOver' /\ CallsTyped'
  BY <1>3, <1>5 DEF PastIsOver, CallsTyped
<1> QED
  BY <1>4, <1>6 DEF IInv

\* The owner's change of the capacity takes the flags along.
LEMMA CapacityInv ==
  ASSUME IInv, NEW c \in Capacities, ChangeCapacity(c)
  PROVE  IInv'
<1>1. /\ CallsTyped /\ PastIsOver /\ TableInv /\ Excludes(rsv')
      /\ capacity' = c /\ rsv' = Resynced(c) /\ UNCHANGED <<active, call>>
  BY DEF IInv, ChangeCapacity
<1>2. ASSUME NEW b \in Bookings
      PROVE  \/ /\ Counted(rsv[b]) /\ rsv'[b] \in Row
                /\ rsv'[b].exclusive = (c = 1)
                /\ rsv'[b].elapsed = rsv[b].elapsed
             \/ ~ Counted(rsv[b]) /\ rsv'[b] = rsv[b]
  <2>1. CASE Counted(rsv[b])
    <3>1. rsv[b] \in Row
      BY <1>1, <2>1 DEF TableInv, RowsTyped, Counted
    <3>2. rsv'[b] = [rsv[b] EXCEPT !.exclusive = (c = 1)]
      BY <1>1, <2>1 DEF Resynced
    <3> QED
      BY <2>1, <3>1, <3>2 DEF Row
  <2> QED
    BY <1>1, <2>1 DEF Resynced
<1>3. RowsTyped'
  <2>1. \A b \in Bookings : rsv'[b] \in Row \cup {Absent}
    BY <1>1, <1>2 DEF TableInv, RowsTyped
  <2> QED
    BY <1>1, <2>1 DEF RowsTyped, Resynced
<1>4. FlagsAgree'
  BY <1>1, <1>2 DEF FlagsAgree
<1>5. TableInv'
  BY <1>1, <1>3, <1>4 DEF TableInv
<1>6. \A d \in Over : d \in Over'
  BY <1>2, RowExists DEF Over
<1>7. PastIsOver' /\ CallsTyped'
  BY <1>1, <1>6 DEF PastIsOver, CallsTyped
<1> QED
  BY <1>5, <1>7 DEF IInv

\* Time.
LEMMA ElapseInv ==
  ASSUME IInv, NEW b \in Bookings, Elapse(b)
  PROVE  IInv'
<1>1. /\ CallsTyped /\ PastIsOver /\ TableInv /\ rsv[b] # Absent
      /\ rsv' = [rsv EXCEPT ![b] = [rsv[b] EXCEPT !.elapsed = TRUE]]
      /\ UNCHANGED <<capacity, active, call>>
  BY DEF IInv, Elapse, Live, Holds
<1> DEFINE r == [rsv[b] EXCEPT !.elapsed = TRUE]
<1>2. rsv[b] \in Row
  BY <1>1 DEF TableInv, RowsTyped
<1>3. /\ r \in Row /\ r.slot = rsv[b].slot /\ r.status = rsv[b].status
      /\ r.exclusive = rsv[b].exclusive /\ r.elapsed
  BY <1>2 DEF Row
<1>4. \A c \in Bookings : rsv'[c] = IF c = b THEN r ELSE rsv[c]
  BY <1>1 DEF TableInv, RowsTyped
<1> HIDE DEF r
<1>5. r # Absent
  BY <1>3, RowExists
<1>6. \A c \in Bookings : Counted(rsv'[c]) <=> Counted(rsv[c])
  BY <1>1, <1>3, <1>4, <1>5 DEF Counted
<1>7. RowsTyped'
  BY <1>1, <1>3 DEF TableInv, RowsTyped, r
<1>8. FlagsAgree'
  BY <1>1, <1>3, <1>4, <1>6 DEF TableInv, FlagsAgree
<1>9. Excludes(rsv')
  BY <1>1, <1>3, <1>4, <1>6 DEF TableInv, Excludes
<1>10. \A d \in Over : d \in Over'
  BY <1>3, <1>4, <1>5 DEF Over
<1>11. PastIsOver' /\ CallsTyped'
  BY <1>1, <1>10 DEF PastIsOver, CallsTyped
<1> QED
  BY <1>1, <1>7, <1>8, <1>9, <1>11 DEF TableInv, IInv

\* Beginning a call writes nothing and sees what is over.
LEMMA BeginInv ==
  ASSUME IInv, NEW w \in Workers, NEW b \in Bookings,
         \/ BeginConsume(w, b)
         \/ \E s \in Slots, q \in Quantities : BeginReserve(w, b, s, q)
  PROVE  IInv'
<1>1. PICK c \in Call : /\ call' = [call EXCEPT ![w] = c] /\ c.past \subseteq Over
                        /\ UNCHANGED <<capacity, active, rsv>>
  <2>1. Over \subseteq Bookings
    BY DEF Over
  <2>2. CASE BeginConsume(w, b)
    <3> DEFINE c == [kind |-> "consume", booking |-> b,
                     past |-> PastAtBegin("consume")]
    <3>1. c \in Call /\ c.past \subseteq Over
      BY <2>1 DEF Call, PastAtBegin
    <3> QED
      BY <2>2, <3>1 DEF BeginConsume
  <2>3. ASSUME NEW s \in Slots, NEW q \in Quantities, BeginReserve(w, b, s, q)
        PROVE  \E c \in Call : /\ call' = [call EXCEPT ![w] = c]
                               /\ c.past \subseteq Over
                               /\ UNCHANGED <<capacity, active, rsv>>
    <3> DEFINE c == [kind |-> "reserve", booking |-> b, slot |-> s,
                     quantity |-> q, past |-> PastAtBegin("reserve")]
    <3>1. q \in Nat \ {0}
      BY <2>3, ReservationAssumption DEF BeginReserve, ValidRequest
    <3>2. c \in Call /\ c.past \subseteq Over
      BY <2>1, <3>1 DEF Call, PastAtBegin
    <3> QED
      BY <2>3, <3>2 DEF BeginReserve
  <2> QED
    BY <2>2, <2>3
<1>2. TableInv'
  BY <1>1 DEF IInv, TableInv, RowsTyped, FlagsAgree, Counted, Excludes
<1>3. CallsTyped'
  BY <1>1 DEF IInv, CallsTyped
<1>4. PastIsOver'
  BY <1>1 DEF IInv, CallsTyped, PastIsOver, Over
<1> QED
  BY <1>2, <1>3, <1>4 DEF IInv

\* Switching the resource on or off, and a stutter.
LEMMA SwitchInv ==
  ASSUME IInv, Switch \/ UNCHANGED vars
  PROVE  IInv'
<1>1. UNCHANGED <<capacity, rsv, call>> /\ active' \in BOOLEAN
  BY DEF Switch, vars, IInv, CallsTyped
<1>2. TableInv'
  BY <1>1 DEF IInv, TableInv, RowsTyped, FlagsAgree, Counted, Excludes
<1>3. CallsTyped' /\ PastIsOver'
  BY <1>1 DEF IInv, CallsTyped, PastIsOver, Over
<1> QED
  BY <1>2, <1>3 DEF IInv

\* At the start nothing is reserved.
LEMMA InitInv ==
  ASSUME Init
  PROVE  IInv
BY DEF Init, IInv, TableInv, RowsTyped, FlagsAgree, Counted, Excludes,
       CallsTyped, PastIsOver

\* The invariant holds always.
THEOREM ReservationInvariant == Spec => []IInv
<1>1. Init => IInv
  BY InitInv
<1>2. IInv /\ [Next]_vars => IInv'
  BY BeginInv, ReserveInv, ConsumeInv, ReleaseInv, DirectInv, CapacityInv,
     ElapseInv, SwitchInv
  DEF Next
<1> QED
  BY <1>1, <1>2, PTL DEF Spec

\* Rows and calls are well formed whatever is requested.
THEOREM ReservationTypes == Spec => []TypeOK
<1>1. IInv => TypeOK
  BY DEF IInv, TableInv, RowsTyped, CallsTyped, TypeOK
<1> QED
  BY <1>1, ReservationInvariant, PTL

\* The backstop of 0031 does what it promises: while a resource's capacity is
\* one, no two counted reservations of it overlap, whoever wrote them and
\* whatever the capacity was before.
THEOREM ExclusiveIsExclusive == Spec => []NoDoubleUse
<1>1. IInv => NoDoubleUse
  BY TableExcludes DEF IInv
<1> QED
  BY <1>1, ReservationInvariant, PTL

-----------------------------------------------------------------------------
(***************************************************************************)
(* Promises are kept.                                                      *)
(***************************************************************************)
Promised(b) == Consumed(b) \/ Live(b)

Kept(b) ==
  /\ rsv'[b].slot = rsv[b].slot /\ rsv'[b].quantity = rsv[b].quantity
  /\ \/ rsv'[b].status = rsv[b].status
     \/ rsv[b].status = "held" /\ rsv'[b].status \in {"consumed", "released"}

\* A write keeps the promises to other bookings, if it reaps only what is over.
LEMMA WriteKeepsOthers ==
  ASSUME TableInv, NEW r \in Row, NEW d \in Bookings, NEW past,
         past \subseteq Over, Write(r, d, past),
         NEW b \in Bookings, b # d, Promised(b)
  PROVE  Kept(b)
<1>1. b \notin Reaped(r, d, past)
  BY DEF Reaped, Promised, Consumed, Live, Over
<1>2. rsv'[b] = rsv[b]
  BY <1>1 DEF Write, Stored
<1> QED
  BY <1>2 DEF Kept

\* A write of its own row with another status keeps a booking's promise.
LEMMA WriteKeepsOwn ==
  ASSUME TableInv, NEW b \in Bookings, Holds(b), NEW past,
         NEW s \in {"consumed", "released"},
         Write([rsv[b] EXCEPT !.status = s], b, past)
  PROVE  Kept(b)
<1> DEFINE r == [rsv[b] EXCEPT !.status = s]
<1>1. rsv[b] \in Row
  BY DEF TableInv, RowsTyped, Holds
<1>2. /\ r \in Row /\ r.slot = rsv[b].slot /\ r.quantity = rsv[b].quantity
      /\ r.status = s
  BY <1>1 DEF Row
<1>0. Write(r, b, past)
  OBVIOUS
<1> HIDE DEF r
<1>3. rsv' = rsv \/ rsv'[b] = Forced(r)
  BY <1>0 DEF Write, Stored
<1>4. CASE rsv'[b] = Forced(r)
  BY <1>2, <1>4, ForcedRow DEF Kept, Holds
<1>5. CASE rsv' = rsv
  BY <1>5 DEF Kept
<1> QED
  BY <1>3, <1>4, <1>5

\* Nothing written, nothing broken.
LEMMA SameKept ==
  ASSUME NEW b, UNCHANGED rsv
  PROVE  Kept(b)
BY DEF Kept

\* Every step keeps every promise.
LEMMA StepKeeps ==
  ASSUME IInv, [Next]_vars, NEW b \in Bookings, Promised(b)
  PROVE  Kept(b)
<1>0. TableInv /\ CallsTyped /\ Over \subseteq Over
  BY DEF IInv
<1>1. ASSUME NEW w \in Workers, Reserve(w)
      PROVE  Kept(b)
  <2> DEFINE c == call[w]
  <2>1. c # Absent /\ c.kind = "reserve"
    BY <1>1 DEF Reserve
  <2>2. Granted(c) \in Row /\ c.booking \in Bookings /\ Past(c) \subseteq Over
    BY <1>0, <2>1, GrantedRow, PastOver
  <2>3. CASE Accepts(c) /\ Write(Granted(c), c.booking, Past(c))
    <3>1. b # c.booking
      BY <2>3 DEF Accepts, AlreadyReserved, Promised
    <3> QED
      BY <1>0, <2>2, <2>3, <3>1, WriteKeepsOthers
  <2>4. CASE UNCHANGED rsv
    BY <2>4, SameKept
  <2> QED
    BY <1>1, <2>3, <2>4 DEF Reserve
<1>2. ASSUME NEW w \in Workers, Consume(w)
      PROVE  Kept(b)
  <2> DEFINE c == call[w]
             r == [rsv[c.booking] EXCEPT !.status = "consumed"]
  <2>1. c # Absent
    BY <1>2 DEF Consume
  <2>2. c.booking \in Bookings /\ Past(c) \subseteq Over
    BY <1>0, <2>1, CallBooking, PastOver
  <2>3. CASE Holds(c.booking) /\ Write(r, c.booking, Past(c))
    <3>1. r \in Row
      BY <1>0, <2>2, <2>3, StatusRow DEF TableInv, RowsTyped, Holds
    <3>2. CASE b # c.booking
      BY <1>0, <2>2, <2>3, <3>1, <3>2, WriteKeepsOthers
    <3>3. CASE b = c.booking
      BY <1>0, <2>3, <3>3, WriteKeepsOwn
    <3> QED
      BY <3>2, <3>3
  <2>4. CASE UNCHANGED rsv
    BY <2>4, SameKept
  <2> QED
    BY <1>2, <2>3, <2>4 DEF Consume
<1>3. ASSUME NEW d \in Bookings, Release(d)
      PROVE  Kept(b)
  <2> DEFINE r == [rsv[d] EXCEPT !.status = "released"]
  <2>1. Holds(d) /\ Write(r, d, Over)
    BY <1>3 DEF Release
  <2>2. r \in Row
    BY <1>0, <2>1, StatusRow DEF TableInv, RowsTyped, Holds
  <2>3. CASE b # d
    BY <1>0, <2>1, <2>2, <2>3, WriteKeepsOthers
  <2>4. CASE b = d
    BY <1>0, <2>1, <2>4, WriteKeepsOwn
  <2> QED
    BY <2>3, <2>4
<1>4. ASSUME NEW d \in Bookings, NEW s \in Slots, NEW q \in Quantities,
             DirectInsert(d, s, q)
      PROVE  Kept(b)
  <2>1. PICK t \in {"held", "consumed"} :
          Write([slot |-> s, quantity |-> q, elapsed |-> FALSE,
                 status |-> t, exclusive |-> FALSE], d, Over)
    BY <1>4 DEF DirectInsert
  <2>2. [slot |-> s, quantity |-> q, elapsed |-> FALSE,
         status |-> t, exclusive |-> FALSE] \in Row
    BY <1>4, ReservationAssumption DEF DirectInsert, Row
  <2>3. b # d
    BY <1>4 DEF DirectInsert, Promised, Consumed, Live, Holds
  <2> QED
    BY <1>0, <2>1, <2>2, <2>3, WriteKeepsOthers
<1>5. ASSUME NEW c \in Capacities, ChangeCapacity(c)
      PROVE  Kept(b)
  <2>1. rsv[b] \in Row /\ Counted(rsv[b])
    BY <1>0 DEF TableInv, RowsTyped, Promised, Consumed, Live, Holds, Counted
  <2>2. rsv'[b] = [rsv[b] EXCEPT !.exclusive = (c = 1)]
    BY <1>5, <2>1 DEF ChangeCapacity, Resynced
  <2> QED
    BY <2>1, <2>2 DEF Row, Kept
<1>6. ASSUME NEW d \in Bookings, Elapse(d)
      PROVE  Kept(b)
  <2>1. rsv[b] \in Row
    BY <1>0 DEF TableInv, RowsTyped, Promised, Consumed, Live, Holds
  <2>2. rsv'[b] = [rsv[b] EXCEPT !.elapsed = TRUE] \/ rsv'[b] = rsv[b]
    BY <1>0, <1>6 DEF Elapse, TableInv, RowsTyped
  <2> QED
    BY <2>1, <2>2 DEF Row, Kept
<1>7. CASE UNCHANGED rsv
  BY <1>7, SameKept
<1> QED
  BY <1>1, <1>2, <1>3, <1>4, <1>5, <1>6, <1>7
  DEF Next, vars, BeginReserve, BeginConsume, Switch

\* A live hold stays as it was granted until its own booking consumes or
\* releases it, and a consumed one stays for ever: neither the reaping of the
\* trigger nor a change of the capacity takes it away.
THEOREM PromisesAreKept == Spec => PromiseIsKept
<1>1. IInv /\ [Next]_vars =>
        [\A b \in Bookings : Consumed(b) \/ Live(b) =>
           /\ rsv'[b].slot = rsv[b].slot /\ rsv'[b].quantity = rsv[b].quantity
           /\ \/ rsv'[b].status = rsv[b].status
              \/ rsv[b].status = "held"
                 /\ rsv'[b].status \in {"consumed", "released"}]_vars
  BY StepKeeps DEF Promised, Kept
<1> QED
  BY <1>1, ReservationInvariant, PTL DEF Spec, PromiseIsKept

-----------------------------------------------------------------------------
(***************************************************************************)
(* Units: what is used of a moment is a sum over the rows that use it.     *)
(***************************************************************************)

\* What units some bookings use, as a total.
LEMMA UnitsTotal ==
  ASSUME NEW R, NEW C, IsFiniteSet(C), NEW f, \A b \in C : f[b] \in Int /\ f[b] = R[b].quantity
  PROVE  MapThenSumSet(LAMBDA b : R[b].quantity, C) = Total(f, C)
<1> DEFINE B(it) == [s \in SUBSET C |->
                       IF s = {} THEN 0 ELSE R[Chosen(s)].quantity + it[s \ {Chosen(s)}]]
           g == CHOOSE it : it = B(it)
<1>1. MapThenSumSet(LAMBDA b : R[b].quantity, C) = g[C]
  BY DEF MapThenSumSet, MapThenFoldSet, Chosen
<1>2. \A s \in SUBSET C : s # {} => Chosen(s) \in C
  BY DEF Chosen
<1>3. PICK h \in [SUBSET C -> Int] : Sums(f, C, h)
  BY SumsExist
<1>4. h = B(h)
  BY <1>2, <1>3 DEF Sums
<1>5. g = B(g)
  BY <1>4
<1> HIDE DEF g
<1>6. Sums(f, C, g)
  BY <1>2, <1>5 DEF Sums
<1>7. QED
  BY <1>1, <1>6, SumIsTotal

\* The units of each booking's row.
Units(R) == [b \in Bookings |-> IF R[b] = Absent THEN 0 ELSE R[b].quantity]

\* They are numbers, and a row has at least one.
LEMMA UnitsTyped ==
  ASSUME NEW R \in [Bookings -> Row \cup {Absent}]
  PROVE  /\ \A b \in Bookings : Units(R)[b] \in Nat
         /\ \A b \in Bookings : R[b] # Absent => Units(R)[b] = R[b].quantity /\ Units(R)[b] >= 1
<1>1. \A b \in Bookings : R[b] # Absent => R[b].quantity \in Nat \ {0}
  BY DEF Row
<1>2. QED
  BY <1>1 DEF Units

UsedIsTotal(m) ==
  /\ Used(m) = Total(Units(rsv), Using(m))
  /\ IsFiniteSet(Using(m)) /\ Using(m) \in SUBSET Bookings

\* What is used of a moment is a total of units.
LEMMA UsedTotal ==
  ASSUME NEW m
  PROVE  RowsTyped => UsedIsTotal(m)
<1> SUFFICES ASSUME RowsTyped PROVE UsedIsTotal(m)
  OBVIOUS
<1>1. IsFiniteSet(Using(m)) /\ Using(m) \in SUBSET Bookings
  <2>1. Using(m) \in SUBSET Bookings
    BY DEF Using
  <2>2. QED
    BY <2>1, FS_Subset, ReservationAssumption
<1>2. \A b \in Using(m) : Units(rsv)[b] \in Int /\ Units(rsv)[b] = rsv[b].quantity
  BY UnitsTyped DEF RowsTyped, Using, Consumed, Live, Holds
<1>3. MapThenSumSet(LAMBDA b : rsv[b].quantity, Using(m)) = Total(Units(rsv), Using(m))
  BY <1>1, <1>2, UnitsTotal
<1>4. Used(m) = MapThenSumSet(LAMBDA b : rsv[b].quantity, Using(m))
  BY DEF Used, UnitsOf
<1>5. QED
  BY <1>1, <1>3, <1>4 DEF UsedIsTotal

\* And after a step.
LEMMA UsedAfter ==
  ASSUME NEW m
  PROVE  RowsTyped' => UsedIsTotal(m)'
<1>1. RowsTyped => UsedIsTotal(m)
  BY UsedTotal
<1>2. QED
  BY <1>1, PTL

\* So are the units that a request finds taken.
LEMMA TakenTotal ==
  ASSUME RowsTyped, NEW b, NEW slot
  PROVE  /\ \A q : HasUnits(b, slot, q) <=> Total(Units(rsv), Takers(b, slot)) + q <= capacity
         /\ IsFiniteSet(Takers(b, slot)) /\ Takers(b, slot) \in SUBSET Bookings
<1> DEFINE T == Takers(b, slot)
<1>1. IsFiniteSet(T) /\ T \in SUBSET Bookings
  <2>1. T \in SUBSET Bookings
    BY DEF Takers
  <2>2. QED
    BY <2>1, FS_Subset, ReservationAssumption
<1>2. \A c \in T : Units(rsv)[c] \in Int /\ Units(rsv)[c] = rsv[c].quantity
  BY UnitsTyped DEF RowsTyped, Takers, Consumed, Live, Holds
<1>3. MapThenSumSet(LAMBDA c : rsv[c].quantity, T) = Total(Units(rsv), T)
  <2> HIDE DEF T
  <2>1. QED
    BY <1>1, <1>2, UnitsTotal
<1>4. \A q : HasUnits(b, slot, q) <=> MapThenSumSet(LAMBDA c : rsv[c].quantity, T) + q <= capacity
  BY DEF HasUnits, UnitsOf
<1>5. QED
  BY <1>1, <1>3, <1>4

\* Fewer bookings with the units they had use no more.
LEMMA FewerUse ==
  ASSUME NEW R \in [Bookings -> Row \cup {Absent}], NEW Q \in [Bookings -> Row \cup {Absent}],
         NEW S \in SUBSET Bookings, NEW T \in SUBSET S, \A b \in T : Q[b] # Absent /\ R[b] # Absent
                                                      /\ Q[b].quantity = R[b].quantity
  PROVE  /\ Total(Units(Q), T) <= Total(Units(R), S)
         /\ Total(Units(Q), T) \in Int /\ Total(Units(R), S) \in Int
<1>1. IsFiniteSet(S) /\ IsFiniteSet(T)
  BY FS_Subset, ReservationAssumption
<1> DEFINE f == Units(R)
           k == Units(Q)
<1>2. /\ \A b \in S : f[b] \in Nat
      /\ \A b \in T : f[b] \in Int /\ k[b] = f[b]
  BY UnitsTyped
<1> HIDE DEF f, k
<1>3. Total(k, T) = Total(f, T)
  BY <1>1, <1>2, TotalSame
<1>4. Total(f, T) <= Total(f, S)
  BY <1>1, <1>2, TotalPart
<1>5. Total(f, T) \in Int /\ Total(f, S) \in Int
  BY <1>1, <1>2, TotalInt
<1>6. QED
  BY <1>3, <1>4, <1>5 DEF f, k

\* A write gives nobody else units.
LEMMA OthersUse ==
  ASSUME RowsTyped, NEW r \in Row, NEW b \in Bookings, NEW past, Write(r, b, past),
         NEW m, NEW c \in Bookings, c # b, c \in Using(m)'
  PROVE  c \in Using(m) /\ rsv'[c] = rsv[c]
<1>1. rsv'[c] = rsv[c] \/ rsv'[c].status = "expired"
  BY StoredRows DEF Write
<1>2. QED
  BY <1>1 DEF Using, Consumed, Live, Holds

\* A reservation takes units that are free.
LEMMA ReserveFits ==
  ASSUME IInv, IInv', NEW w \in Workers, Reserve(w), NEW m
  PROVE  Used(m)' <= Used(m) \/ Used(m)' <= capacity
<1> DEFINE c == call[w]
           b == c.booking
<1>1. RowsTyped /\ RowsTyped' /\ CallsTyped
  BY DEF IInv, TableInv
<1>2. capacity \in Nat
  BY ReservationAssumption DEF IInv, TableInv
<1>3. /\ Used(m) = Total(Units(rsv), Using(m)) /\ Using(m) \in SUBSET Bookings
      /\ Used(m)' = Total(Units(rsv'), Using(m)') /\ Using(m)' \in SUBSET Bookings
      /\ IsFiniteSet(Using(m)')
  BY <1>1, UsedTotal, UsedAfter DEF UsedIsTotal
<1>4. CASE \A d \in Using(m)' : d \in Using(m) /\ rsv'[d] = rsv[d]
  <2>1. \A d \in Using(m)' : rsv'[d] # Absent
    BY DEF Using, Consumed, Live, Holds
  <2>2. Using(m)' \in SUBSET Using(m)
    BY <1>4
  <2>3. Total(Units(rsv'), Using(m)') <= Total(Units(rsv), Using(m))
    BY <1>1, <1>3, <1>4, <2>1, <2>2, FewerUse DEF RowsTyped
  <2>4. QED
    BY <1>3, <2>3
<1>5. CASE \E d \in Using(m)' : ~ (d \in Using(m) /\ rsv'[d] = rsv[d])
  <2>1. rsv' # rsv
    BY <1>5 DEF Using, Consumed, Live, Holds
  <2>2. /\ c # Absent /\ c.kind = "reserve" /\ Accepts(c)
        /\ Write(Granted(c), b, Past(c)) /\ rsv' = Stored(Granted(c), b, Past(c))
    BY <2>1 DEF Reserve, Write
  <2>3. Granted(c) \in Row /\ b \in Bookings
    BY <1>1, <2>2, GrantedRow
  <2>4. \A d \in Using(m)' \ {b} : d \in Using(m) /\ rsv'[d] = rsv[d]
    BY <1>1, <1>3, <2>2, <2>3, OthersUse
  <2>5. b \in Using(m)'
    BY <1>5, <2>4
  <2>6. /\ rsv'[b] # Absent /\ rsv'[b].slot = c.slot /\ rsv'[b].quantity = c.quantity
    <3>1. rsv'[b] = Forced(Granted(c))
      BY <2>2, <2>3 DEF Stored
    <3>2. QED
      BY <2>3, <3>1, ForcedRow, RowExists DEF Granted
  <2>7. m \in c.slot
    BY <2>5, <2>6 DEF Using
  <2> DEFINE T == Takers(b, c.slot)
             U == Using(m)' \ {b}
  <2>8. U \in SUBSET T /\ T \in SUBSET Bookings
    <3>1. \A d \in U : d \in T
      BY <1>3, <2>4, <2>7 DEF Using, Takers, Overlap
    <3>2. QED
      BY <3>1 DEF Takers
  <2>9. Total(Units(rsv), T) + c.quantity <= capacity
    BY <1>1, <2>2, TakenTotal DEF Accepts
  <2>10. \A d \in U : rsv'[d] # Absent /\ rsv[d] # Absent /\ rsv'[d].quantity = rsv[d].quantity
    BY <2>4 DEF Using, Consumed, Live, Holds
  <2>11. /\ Total(Units(rsv'), U) <= Total(Units(rsv), T)
         /\ Total(Units(rsv'), U) \in Int /\ Total(Units(rsv), T) \in Int
    <3> HIDE DEF T, U
    <3>1. QED
      BY <1>1, <2>8, <2>10, FewerUse DEF RowsTyped
  <2>12. Total(Units(rsv'), Using(m)') = c.quantity + Total(Units(rsv'), U)
    <3> DEFINE k == Units(rsv')
               S == Using(m)'
    <3>1. IsFiniteSet(S) /\ \A d \in S : k[d] \in Int
      BY <1>1, <1>3, UnitsTyped DEF RowsTyped
    <3>2. b \in S /\ k[b] = c.quantity
      BY <1>1, <2>3, <2>5, <2>6, UnitsTyped DEF RowsTyped
    <3> HIDE DEF k, S
    <3>3. Total(k, S) = k[b] + Total(k, S \ {b})
      BY <3>1, <3>2, TotalRemove
    <3>4. QED
      BY <3>2, <3>3 DEF k, S
  <2>13. c.quantity \in Nat
    BY <1>1, <2>2 DEF CallsTyped, Call
  <2>14. QED
    BY <1>2, <1>3, <2>9, <2>11, <2>12, <2>13
<1>6. QED
  BY <1>4, <1>5

\* A hold that is consumed in time keeps the units it had.
LEMMA ConsumeFits ==
  ASSUME "consume" \notin Spanning, IInv, IInv', NEW w \in Workers, Consume(w), NEW m
  PROVE  Used(m)' <= Used(m)
<1> DEFINE c == call[w]
           b == c.booking
           r == [rsv[b] EXCEPT !.status = "consumed"]
<1>1. RowsTyped /\ RowsTyped' /\ CallsTyped /\ c # Absent /\ c.kind = "consume"
  BY DEF IInv, TableInv, Consume
<1>2. Past(c) = Over /\ b \in Bookings
  BY <1>1, CallBooking DEF Past
<1>3. /\ Used(m) = Total(Units(rsv), Using(m)) /\ Using(m) \in SUBSET Bookings
      /\ Used(m)' = Total(Units(rsv'), Using(m)') /\ Using(m)' \in SUBSET Bookings
  BY <1>1, UsedTotal, UsedAfter DEF UsedIsTotal
<1>4. \A d \in Using(m)' : d \in Using(m) /\ rsv'[d].quantity = rsv[d].quantity
  <2>1. CASE rsv' = rsv
    BY <2>1 DEF Using, Consumed, Live, Holds
  <2>2. CASE rsv' # rsv
    <3>1. Holds(b) /\ b \notin Over /\ Write(r, b, Over) /\ rsv' = Stored(r, b, Over)
      BY <1>2, <2>2 DEF Consume, Write
    <3>2. rsv[b] \in Row /\ Live(b)
      BY <1>1, <1>2, <3>1 DEF RowsTyped, Holds, Live, Over
    <3>3. r \in Row /\ r.slot = rsv[b].slot /\ r.quantity = rsv[b].quantity
      BY <3>2, StatusRow
    <3>4. rsv'[b].slot = rsv[b].slot /\ rsv'[b].quantity = rsv[b].quantity
      <4>1. rsv'[b] = Forced(r)
        BY <1>2, <3>1 DEF Stored
      <4>2. QED
        BY <3>3, <4>1, ForcedRow
    <3>5. ASSUME NEW d \in Using(m)' PROVE d \in Using(m) /\ rsv'[d].quantity = rsv[d].quantity
      <4>1. CASE d = b
        BY <1>2, <3>2, <3>4, <4>1 DEF Using
      <4>2. CASE d # b
        BY <1>1, <1>2, <1>3, <3>1, <3>3, <4>2, OthersUse
      <4>3. QED
        BY <4>1, <4>2
    <3>6. QED
      BY <3>5
  <2>3. QED
    BY <2>1, <2>2
<1>5. \A d \in Using(m)' : rsv'[d] # Absent /\ rsv[d] # Absent
  BY <1>4 DEF Using, Consumed, Live, Holds
<1>6. Using(m)' \in SUBSET Using(m)
  BY <1>4
<1>7. Total(Units(rsv'), Using(m)') <= Total(Units(rsv), Using(m))
  BY <1>1, <1>3, <1>4, <1>5, <1>6, FewerUse DEF RowsTyped
<1>8. QED
  BY <1>3, <1>7

\* A request for which there is room is stored, unless it waited across an expiry.
LEMMA ReserveStores ==
  ASSUME IInv, IInv', NEW w \in Workers, Reserve(w), Accepts(call[w]), Past(call[w]) = Over
  PROVE  \A b \in Bookings : b = call[w].booking => Live(b)'
<1> SUFFICES ASSUME NEW b \in Bookings, b = call[w].booking PROVE Live(b)'
  OBVIOUS
<1> DEFINE c == call[w]
           r == Granted(c)
<1>1. RowsTyped /\ CallsTyped /\ FlagsAgree /\ Excludes(rsv) /\ c # Absent /\ c.kind = "reserve"
  BY DEF IInv, TableInv, Reserve
<1>2. r \in Row /\ b \in Bookings /\ c.quantity \in Nat \ {0}
  <2>1. r \in Row /\ b \in Bookings
    BY <1>1, GrantedRow
  <2>2. QED
    BY <1>1, <2>1 DEF CallsTyped, Call
<1>3. Write(r, b, Over)
  BY DEF Reserve
<1> DEFINE f == Stored(r, b, Over)
<1>4. /\ f[b] = Forced(r) /\ f[b] \in Row /\ f[b].exclusive = (capacity = 1)
      /\ f[b].slot = c.slot /\ f[b].status = "held" /\ ~f[b].elapsed
  <2>1. f[b] = Forced(r)
    BY <1>2 DEF Stored
  <2>2. QED
    BY <1>2, <2>1, ForcedRow DEF Granted
<1>5. \A d \in Bookings \ {b} : Counted(f[d]) => f[d] = rsv[d]
  BY <1>1, <1>2, StoredRows DEF Counted
<1>6. ASSUME capacity = 1, NEW d \in Bookings \ {b}, Counted(f[d]), Overlap(f[d].slot, c.slot)
      PROVE  FALSE
  <2>1. f[d] = rsv[d] /\ rsv[d] \in Row
    BY <1>1, <1>5, <1>6 DEF Counted, RowsTyped
  <2>2. CASE Consumed(d) \/ Live(d)
    <3> DEFINE T == Takers(b, c.slot)
    <3>1. {d} \in SUBSET T /\ T \in SUBSET Bookings
      BY <1>6, <2>1, <2>2 DEF Takers
    <3>2. Total(Units(rsv), T) + c.quantity <= capacity
      BY <1>1, TakenTotal DEF Accepts
    <3>3. rsv[d] # Absent
      BY <2>1, RowExists
    <3>4. Total(Units(rsv), {d}) <= Total(Units(rsv), T) /\ Total(Units(rsv), T) \in Int
      <4> HIDE DEF T
      <4>1. QED
        BY <1>1, <3>1, <3>3, FewerUse DEF RowsTyped
    <3>5. Total(Units(rsv), {d}) >= 1
      <4> DEFINE k == Units(rsv)
      <4>1. k[d] \in Int /\ k[d] >= 1
        BY <1>1, <3>3, UnitsTyped DEF RowsTyped
      <4> HIDE DEF k
      <4>2. IsFiniteSet({}) /\ {} \cup {d} = {d} /\ d \notin {}
        BY FS_EmptySet
      <4>3. Total(k, {} \cup {d}) = k[d] + Total(k, {})
        BY <4>1, <4>2, TotalAdd
      <4>4. QED
        BY <4>1, <4>2, <4>3, TotalEmpty DEF k
    <3>6. Total(Units(rsv), {d}) \in Int
      BY <1>1, <3>3, FewerUse DEF RowsTyped
    <3>7. QED
      BY <1>2, <1>6, <3>2, <3>4, <3>5, <3>6
  <2>3. CASE ~ (Consumed(d) \/ Live(d))
    <3>1. rsv[d].status = "held" /\ d \in Over
      BY <1>6, <2>1, <2>3 DEF Counted, Consumed, Live, Holds, Over
    <3>2. d \in Reaped(r, b, Over)
      BY <1>2, <1>6, <2>1, <3>1, RowExists DEF Reaped, Granted
    <3>3. Counted(r)
      BY <1>2, RowExists DEF Counted, Granted
    <3>4. f[d].status = "expired"
      <4>1. f[d] = Forced([rsv[d] EXCEPT !.status = "expired"])
        BY <1>6, <3>2, <3>3 DEF Stored
      <4>2. QED
        BY <1>1, <1>2, <3>2, <4>1, ReapedRow
    <3>5. QED
      BY <1>6, <3>4 DEF Counted
  <2>4. QED
    BY <2>2, <2>3
<1>7. Excludes(f)
  <2> SUFFICES ASSUME NEW d \in Bookings, NEW e \in Bookings, d # e, Counted(f[d]), Counted(f[e]),
                      f[d].exclusive, f[e].exclusive, Overlap(f[d].slot, f[e].slot)
               PROVE  FALSE
    BY DEF Excludes
  <2>1. CASE d = b
    <3>1. capacity = 1 /\ Overlap(f[e].slot, c.slot)
      BY <1>4, <2>1 DEF Overlap
    <3>2. QED
      BY <1>6, <2>1, <3>1
  <2>2. CASE e = b
    <3>1. capacity = 1 /\ Overlap(f[d].slot, c.slot)
      BY <1>4, <2>2 DEF Overlap
    <3>2. QED
      BY <1>6, <2>2, <3>1
  <2>3. CASE d # b /\ e # b
    <3>1. f[d] = rsv[d] /\ f[e] = rsv[e]
      BY <1>5, <2>3
    <3> HIDE DEF f
    <3>2. QED
      BY <1>1, <3>1 DEF Excludes
  <2>4. QED
    BY <2>1, <2>2, <2>3
<1>8. rsv'[b] = f[b]
  BY <1>3, <1>7 DEF Write
<1>9. QED
  BY <1>4, <1>8, RowExists DEF Live, Holds

\* A request that is over when its call returns was not answered by another's.
LEMMA CallsReturn ==
  ASSUME IInv, NEW v \in Workers, NEW renewed, Returned(v, renewed),
         NEW w \in Workers, w # v, call[w] # Absent
  PROVE  call'[w] # Absent
<1>1. call[w] \in Call /\ call'[w] = [call[w] EXCEPT !.past = @ \ renewed]
  BY DEF IInv, CallsTyped, Returned
<1>2. [call[w] EXCEPT !.past = @ \ renewed] \in Call
  BY <1>1 DEF Call
<1>3. QED
  BY <1>1, <1>2, ReservationAssumption

\* What ends a call is its own function.
LEMMA EndsByItself ==
  ASSUME IInv, [Next]_vars, NEW w \in Workers, call[w] # Absent, call'[w] = Absent
  PROVE  Reserve(w) \/ Consume(w)
<1>0. call \in [Workers -> Call \cup {Absent}]
  BY DEF IInv, CallsTyped
<1>1. CASE UNCHANGED vars
  BY <1>1 DEF vars
<1>2. ASSUME NEW v \in Workers, NEW b \in Bookings, NEW s \in Slots, NEW q \in Quantities,
             BeginReserve(v, b, s, q) \/ BeginConsume(v, b)
      PROVE  FALSE
  BY <1>0, <1>2 DEF BeginReserve, BeginConsume
<1>3. ASSUME NEW v \in Workers, Reserve(v) \/ Consume(v)
      PROVE  Reserve(w) \/ Consume(w)
  <2>1. PICK renewed : Returned(v, renewed)
    BY <1>3 DEF Reserve, Consume
  <2>2. v = w
    BY <2>1, CallsReturn
  <2>3. QED
    BY <1>3, <2>2
<1>4. ASSUME NEW v \in Workers, NEW b \in Bookings, BeginConsume(v, b)
      PROVE  FALSE
  BY <1>0, <1>4 DEF BeginConsume
<1>5. ASSUME NEW b \in Bookings, NEW s \in Slots, NEW q \in Quantities,
             DirectInsert(b, s, q) \/ Release(b) \/ Elapse(b)
      PROVE  FALSE
  BY <1>5 DEF DirectInsert, Release, Elapse
<1>6. ASSUME NEW b \in Bookings, Release(b) \/ Elapse(b)
      PROVE  FALSE
  BY <1>6 DEF Release, Elapse
<1>7. ASSUME NEW c \in Capacities, ChangeCapacity(c) PROVE FALSE
  BY <1>7 DEF ChangeCapacity
<1>8. CASE Switch
  BY <1>8 DEF Switch
<1>9. QED
  BY <1>1, <1>2, <1>3, <1>4, <1>5, <1>6, <1>7, <1>8 DEF Next

\* A call takes no more than is free, and a request for what is free is granted, for any
\* bookings, slots, capacities and quantities, as long as no consume call waits
\* across an expiry (with one that does, CallsFit is violated).
THEOREM GrantsStayFair ==
  ASSUME "consume" \notin Spanning
  PROVE  Spec => GrantsAreFair
<1>1. IInv /\ IInv' /\ [Next]_vars =>
        [\A w \in Workers : call[w] # Absent /\ call'[w] = Absent =>
           \A m \in Moments : Used(m)' <= Used(m) \/ Used(m)' <= capacity]_vars
  BY EndsByItself, ReserveFits, ConsumeFits
<1>2. IInv /\ IInv' /\ [Next]_vars =>
        [\A w \in Workers, b \in Bookings :
           /\ call[w] # Absent /\ call'[w] = Absent
           /\ call[w].kind = "reserve" /\ call[w].booking = b
           /\ Accepts(call[w]) /\ Past(call[w]) = Over
           => Live(b)']_vars
  <2> SUFFICES ASSUME IInv, IInv', [Next]_vars, NEW w \in Workers, NEW b \in Bookings,
                      call[w] # Absent, call'[w] = Absent,
                      call[w].kind = "reserve", call[w].booking = b,
                      Accepts(call[w]), Past(call[w]) = Over
               PROVE  Live(b)'
    OBVIOUS
  <2>1. Reserve(w)
    BY EndsByItself DEF Consume
  <2>2. QED
    BY <2>1, ReserveStores
<1>3. QED
  BY <1>1, <1>2, ReservationInvariant, PTL DEF Spec, GrantsAreFair, CallsFit, RoomIsGranted

-----------------------------------------------------------------------------
(* Owner journeys *)

\* An operation begins with its request, and the layers below follow: nothing
\* is known of one that was not sent, only a dispatched request is in the
\* repository, only a working call has a transaction, and it commits itself.
Follows(n) ==
  /\ server[n].state = "none" =>
       operation[n].by = None /\ told[n] = "nothing" /\ server[n].answer = "none"
  /\ server[n].state \in {"none", "sent"} => repository[n] = "none"
  /\ repository[n] = "none" => database[n] = "none"
  /\ InRepository(n) => server[n].state = "dispatched"
  /\ repository[n] = "working" => database[n] \in {"none", "ran", "gone"}
SentInOrder ==
  \A n \in Operations : \A m \in 1 .. n - 1 :
    server[n].state # "none" => server[m].state # "none"
LayersFollow == SentInOrder /\ \A n \in Operations : Follows(n)

\* Too late to be made: the call is over, or never was, and no commit is out.
Hopeless(n) ==
  /\ server[n].state = "answered" /\ repository[n] \in {"none", "settled"}
  /\ database[n] \notin {"sent", "committed"}

\* What is told, and what is about to be: an answer on its way is as true.
AnswersHold ==
  \A n \in Operations :
    /\ server[n].answer \in {"not_dispatched", "failed", "conflict"} => Hopeless(n)
    /\ server[n].answer = "committed" => database[n] = "committed"
    /\ told[n] = "failed" => Hopeless(n)
    /\ told[n] = "recorded" => database[n] = "committed"

\* A change whose outcome its owner does not know is pending in the portal that
\* asked for it, or marked unresolved there.
IsTracked(n) ==
  operation[n].by # None /\ told[n] \in {"nothing", "unknown"} =>
    LET p == operation[n].by
    IN portal[p].signedIn /\ (portal[p].pending = n \/ portal[p].unresolved)
Tracks(p) ==
  /\ portal[p].pending # 0 => operation[portal[p].pending].by = p
  /\ portal[p].pending # 0 /\ portal[p].busy = "sending" => told[portal[p].pending] = "nothing"
  /\ portal[p].recorded => /\ portal[p].busy # "sending"
                           /\ portal[p].pending # 0 => told[portal[p].pending] = "recorded"
Tracked == (\A n \in Operations : IsTracked(n)) /\ \A p \in Portals : Tracks(p)

\* One transaction has the flow's row, over the revision it compared; what was
\* committed before it compared a lower one.
HasRow(n) == database[n] \in {"ran", "sent"}
OneHasRow == \A m, n \in Operations : HasRow(m) /\ HasRow(n) => m = n
ComparesNow(n) ==
  operation[n].kind = "change" =>
    /\ HasRow(n) => operation[n].expected = revision
    /\ database[n] = "committed" => operation[n].expected < revision
RowIsHeld == OneHasRow /\ \A n \in Operations : ComparesNow(n)

\* No revision without a commit of its own.
Committed == {n \in Operations : database[n] = "committed"}
RevisionsCounted == revision <= Cardinality(Committed)

Inv == /\ JourneyTypeOK /\ LayersFollow /\ AnswersHold /\ Tracked /\ RowIsHeld
       /\ RevisionsCounted /\ OneChangeAtATime /\ NoLostUpdate

-----------------------------------------------------------------------------
\* The steps in the order of JourneyNext.
LEMMA StepCases ==
  ASSUME [JourneyNext]_journey
  PROVE  \/ \E p \in Portals :
              \/ Login(p) \/ Logout(p) \/ Check(p) \/ Checked(p) \/ Refreshed(p)
              \/ RefreshNow(p) \/ Abandon(p) \/ Abandoned(p) \/ TrackingExpires(p)
         \/ \E p \in Portals, n \in Operations : Answer(p, n) \/ DeliveryUncertain(p, n)
         \/ \E p \in Portals, n \in Operations, kind \in Kinds : Mutate(p, n, kind)
         \/ \E n \in Operations :
              \/ Reject(n) \/ Dispatch(n) \/ StopRequest(n) \/ Run(n) \/ SendCommit(n)
              \/ StopCall(n) \/ Acknowledge(n) \/ Commit(n) \/ RollBack(n)
         \/ UNCHANGED journey
BY DEF JourneyNext

\* What an answer changes: the request's, which nobody may wait for any more.
LEMMA Responds ==
  ASSUME JourneyTypeOK, NEW n \in Operations, NEW answer \in Answers, Respond(n, answer)
  PROVE  /\ server' \in [Operations -> [state : Servers, answer : Answers]]
         /\ server'[n].state = "answered" /\ server'[n].answer \in {answer, "none"}
         /\ \A m \in Operations \ {n} : server'[m] = server[m]
BY DEF JourneyTypeOK, Respond, Servers, Answers

\* The layers of a single operation, whatever step is taken.
LEMMA FollowsStep ==
  ASSUME JourneyTypeOK, LayersFollow, Tracked, [JourneyNext]_journey, NEW m \in Operations
  PROVE  /\ Follows(m)' /\ (server'[m].state = "none" => server[m].state = "none")
         /\ server[m].state = "none" /\ server'[m].state # "none" =>
              \A l \in 1 .. m - 1 : server[l].state # "none"
<1> DEFINE StillFollows ==
             /\ Follows(m)' /\ (server'[m].state = "none" => server[m].state = "none")
             /\ server[m].state = "none" /\ server'[m].state # "none" =>
                  \A l \in 1 .. m - 1 : server[l].state # "none"
<1>0. /\ Follows(m)
      /\ told \in [Operations -> Tellings]
      /\ server \in [Operations -> [state : Servers, answer : Answers]]
      /\ repository \in [Operations -> Calls] /\ database \in [Operations -> Backends]
      /\ operation \in [Operations -> [by : Portals \union {None}, kind : Kinds \union {None},
                                       expected : 0..MaxOperations]]
  BY DEF LayersFollow, JourneyTypeOK
<1> USE <1>0 DEF Follows, InRepository, Servers, Answers, Calls, Backends, Tellings
<1>1. ASSUME NEW p \in Portals,
             \/ Login(p) \/ Check(p) \/ Refreshed(p) \/ RefreshNow(p) \/ Abandon(p)
             \/ TrackingExpires(p)
      PROVE  StillFollows
  BY <1>1 DEF Login, Check, Refreshed, RefreshNow, Abandon, TrackingExpires
<1>2. ASSUME NEW p \in Portals, Logout(p)
      PROVE  StillFollows
  <2>1. server'[m].state = server[m].state /\ server'[m].answer \in {server[m].answer, "none"}
    BY <1>2 DEF Logout
  <2>2. server[m].state = "none" => told'[m] = told[m]
    BY <1>2, JourneyAssumption DEF Logout, Dropped
  <2> QED
    BY <1>2, <2>1, <2>2 DEF Logout
<1>3. ASSUME NEW p \in Portals, Checked(p)
      PROVE  StillFollows
  BY <1>3 DEF Checked
<1>4. ASSUME NEW p \in Portals, Abandoned(p)
      PROVE  StillFollows
  BY <1>4, JourneyAssumption DEF Abandoned, Dropped
<1>5. ASSUME NEW p \in Portals, NEW n \in Operations, NEW kind \in Kinds, Mutate(p, n, kind)
      PROVE  StillFollows
  BY <1>5 DEF Mutate
<1>6. ASSUME NEW p \in Portals, NEW n \in Operations, Answer(p, n) \/ DeliveryUncertain(p, n)
      PROVE  StillFollows
  <2>1. server[n].state # "none"
    <3>1. CASE Answer(p, n)
      BY <3>1 DEF Answer
    <3>2. CASE DeliveryUncertain(p, n)
      <4>1. portal[p].pending = n /\ n # 0
        BY <3>2, JourneyAssumption DEF DeliveryUncertain, Awaits, Operations
      <4>2. operation[n].by = p /\ p # None
        BY <4>1, JourneyAssumption DEF Tracked, Tracks
      <4> QED
        BY <4>2 DEF LayersFollow, Follows
    <3> QED
      BY <1>6, <3>1, <3>2
  <2>2. /\ server' = [server EXCEPT ![n].answer = "none"]
        /\ m # n => told'[m] = told[m]
        /\ UNCHANGED <<operation, repository, database>>
    BY <1>6 DEF Answer, DeliveryUncertain
  <2> QED
    BY <2>1, <2>2
<1>7. ASSUME NEW n \in Operations, Reject(n)
      PROVE  StillFollows
  BY <1>7, Responds DEF Reject
<1>8. ASSUME NEW n \in Operations, StopCall(n)
      PROVE  StillFollows
  BY <1>8, Responds DEF StopCall
<1>9. ASSUME NEW n \in Operations, Dispatch(n) \/ SendCommit(n) \/ Commit(n) \/ RollBack(n)
      PROVE  StillFollows
  BY <1>9 DEF Dispatch, SendCommit, Commit, RollBack
<1>10. ASSUME NEW n \in Operations, StopRequest(n)
       PROVE  StillFollows
  BY <1>10, Responds DEF StopRequest
<1>11. ASSUME NEW n \in Operations, Run(n)
       PROVE  StillFollows
  BY <1>11, Responds DEF Run
<1>12. ASSUME NEW n \in Operations, Acknowledge(n)
       PROVE  StillFollows
  BY <1>12, Responds DEF Acknowledge
<1>13. CASE UNCHANGED journey
  BY <1>13 DEF journey
<1> QED
  BY <1>1, <1>2, <1>3, <1>4, <1>5, <1>6, <1>7, <1>8, <1>9, <1>10, <1>11, <1>12, <1>13, StepCases

\* Every step leaves the layers of a service in their order.
LEMMA LayersStep ==
  ASSUME JourneyTypeOK, LayersFollow, Tracked, [JourneyNext]_journey
  PROVE  LayersFollow'
<1>1. \A n \in Operations : \A m \in 1 .. n - 1 : m \in Operations
  BY JourneyAssumption DEF Operations
<1>2. SentInOrder'
  BY <1>1, FollowsStep DEF SentInOrder, LayersFollow
<1> QED
  BY <1>2, FollowsStep DEF LayersFollow

-----------------------------------------------------------------------------
\* What hopeless means stays so.
LEMMA HopelessStays ==
  ASSUME JourneyTypeOK, [JourneyNext]_journey, NEW m \in Operations, Hopeless(m)
  PROVE  Hopeless(m)'
<1> USE DEF Hopeless
<1>0. /\ server \in [Operations -> [state : Servers, answer : Answers]]
      /\ repository \in [Operations -> Calls] /\ database \in [Operations -> Backends]
  BY DEF JourneyTypeOK
<1>1. ASSUME NEW p \in Portals,
             \/ Login(p) \/ Logout(p) \/ Check(p) \/ Checked(p) \/ Refreshed(p)
             \/ RefreshNow(p) \/ Abandon(p) \/ Abandoned(p) \/ TrackingExpires(p)
      PROVE  Hopeless(m)'
  <2>1. server'[m].state = server[m].state /\ UNCHANGED <<repository, database>>
    BY <1>0, <1>1 DEF Login, Logout, Check, Checked, Refreshed, RefreshNow, Abandon, Abandoned,
                      TrackingExpires
  <2> QED
    BY <2>1
<1>2. ASSUME NEW p \in Portals, NEW n \in Operations,
             Answer(p, n) \/ DeliveryUncertain(p, n) \/ \E kind \in Kinds : Mutate(p, n, kind)
      PROVE  Hopeless(m)'
  BY <1>0, <1>2 DEF Answer, DeliveryUncertain, Mutate
<1>3. ASSUME NEW n \in Operations, Reject(n) \/ StopRequest(n) \/ StopCall(n) \/ Acknowledge(n)
      PROVE  Hopeless(m)'
  <2>1. n # m
    BY <1>3 DEF Reject, StopRequest, StopCall, Acknowledge, InRepository
  <2>2. server'[m] = server[m] /\ UNCHANGED database
    BY <1>0, <1>3, <2>1 DEF Reject, StopRequest, StopCall, Acknowledge, Respond
  <2>3. repository'[m] = repository[m]
    BY <1>0, <1>3, <2>1 DEF Reject, StopRequest, StopCall, Acknowledge
  <2> QED
    BY <2>1, <2>2, <2>3
<1>4. ASSUME NEW n \in Operations,
             Dispatch(n) \/ Run(n) \/ SendCommit(n) \/ Commit(n) \/ RollBack(n)
      PROVE  Hopeless(m)'
  <2>1. CASE Run(n)
    <3>1. n # m
      BY <2>1 DEF Run
    <3>2. server'[m] = server[m] /\ repository'[m] = repository[m] /\ database'[m] = database[m]
      BY <1>0, <2>1, <3>1 DEF Run, Respond
    <3> QED
      BY <3>2
  <2>2. CASE Dispatch(n) \/ SendCommit(n) \/ Commit(n) \/ RollBack(n)
    BY <1>0, <2>2 DEF Dispatch, SendCommit, Commit, RollBack
  <2> QED
    BY <1>4, <2>1, <2>2
<1>5. CASE UNCHANGED journey
  BY <1>5 DEF journey
<1> QED
  BY <1>1, <1>2, <1>3, <1>4, <1>5, StepCases

\* And what is committed.
LEMMA CommittedStays ==
  ASSUME JourneyTypeOK, [JourneyNext]_journey, NEW m \in Operations, database[m] = "committed"
  PROVE  database'[m] = "committed"
<1>0. database \in [Operations -> Backends]
  BY DEF JourneyTypeOK
<1>1. UNCHANGED database \/ \E n \in Operations : Run(n) \/ SendCommit(n) \/ Commit(n) \/ RollBack(n)
  BY StepCases DEF Login, Logout, Check, Checked, Refreshed, RefreshNow, Abandon, Abandoned,
                   TrackingExpires, Answer, DeliveryUncertain, Mutate, Reject, Dispatch,
                   StopRequest, StopCall, Acknowledge, journey
<1> QED
  BY <1>0, <1>1 DEF Run, SendCommit, Commit, RollBack

\* An answer is put on its way only when it is true, and told as it is.
LEMMA AnswersStep ==
  ASSUME JourneyTypeOK, LayersFollow, AnswersHold, [JourneyNext]_journey
  PROVE  AnswersHold'
<1> SUFFICES ASSUME NEW m \in Operations
             PROVE  /\ server'[m].answer \in {"not_dispatched", "failed", "conflict"} => Hopeless(m)'
                    /\ server'[m].answer = "committed" => database'[m] = "committed"
                    /\ told'[m] = "failed" => Hopeless(m)'
                    /\ told'[m] = "recorded" => database'[m] = "committed"
  BY DEF AnswersHold
<1>0. /\ told \in [Operations -> Tellings]
      /\ server \in [Operations -> [state : Servers, answer : Answers]]
      /\ repository \in [Operations -> Calls] /\ database \in [Operations -> Backends]
  BY DEF JourneyTypeOK
<1>1. Hopeless(m) => Hopeless(m)'
  BY HopelessStays
<1>2. database[m] = "committed" => database'[m] = "committed"
  BY CommittedStays
<1> DEFINE Truthful ==
      /\ server'[m].answer \in {"not_dispatched", "failed", "conflict"} =>
           server'[m].answer = server[m].answer \/ Hopeless(m)'
      /\ server'[m].answer = "committed" =>
           server'[m].answer = server[m].answer \/ database'[m] = "committed"
<1>3. Truthful
  <2>1. CASE \E p \in Portals :
               \/ Login(p) \/ Logout(p) \/ Check(p) \/ Checked(p) \/ Refreshed(p)
               \/ RefreshNow(p) \/ Abandon(p) \/ Abandoned(p) \/ TrackingExpires(p)
    BY <1>0, <2>1 DEF Login, Logout, Check, Checked, Refreshed, RefreshNow, Abandon, Abandoned,
                      TrackingExpires
  <2>2. CASE \E p \in Portals, n \in Operations :
               Answer(p, n) \/ DeliveryUncertain(p, n) \/ \E kind \in Kinds : Mutate(p, n, kind)
    BY <1>0, <2>2 DEF Answer, DeliveryUncertain, Mutate
  <2>3. CASE \E n \in Operations : Dispatch(n) \/ SendCommit(n) \/ Commit(n) \/ RollBack(n)
    BY <1>0, <2>3 DEF Dispatch, SendCommit, Commit, RollBack
  <2>4. ASSUME NEW n \in Operations, Reject(n)
        PROVE  Truthful
    BY <1>0, <2>4, Responds DEF Reject, Hopeless, LayersFollow, Follows, Answers
  <2>5. ASSUME NEW n \in Operations, StopRequest(n)
        PROVE  Truthful
    BY <2>5, Responds DEF StopRequest, Answers
  <2>6. ASSUME NEW n \in Operations, Run(n)
        PROVE  Truthful
    BY <1>0, <2>6, Responds DEF Run, Hopeless, Answers
  <2>7. ASSUME NEW n \in Operations, StopCall(n)
        PROVE  Truthful
    <3>1. CASE repository[n] = "committing"
      BY <2>7, <3>1, Responds DEF StopCall, Answers
    <3>2. CASE repository[n] # "committing"
      BY <1>0, <2>7, <3>2, Responds DEF StopCall, InRepository, Hopeless, LayersFollow, Follows,
                                        Answers
    <3> QED
      BY <3>1, <3>2
  <2>8. ASSUME NEW n \in Operations, Acknowledge(n)
        PROVE  Truthful
    BY <2>8, Responds DEF Acknowledge, Answers
  <2>9. CASE UNCHANGED journey
    BY <2>9 DEF journey
  <2> QED
    BY <2>1, <2>2, <2>3, <2>4, <2>5, <2>6, <2>7, <2>8, <2>9, StepCases
<1>4. /\ told'[m] = "failed" =>
           told[m] = "failed" \/ server[m].answer \in {"not_dispatched", "failed", "conflict"}
      /\ told'[m] = "recorded" =>
           told[m] = "recorded" \/ server[m].answer = "committed" \/ database[m] = "committed"
  <2>1. CASE \E p \in Portals : Logout(p) \/ Abandoned(p)
    BY <1>0, <2>1 DEF Logout, Abandoned, Dropped, Tellings
  <2>2. CASE \E p \in Portals : Checked(p)
    BY <1>0, <2>2 DEF Checked
  <2>3. CASE \E p \in Portals, n \in Operations : Answer(p, n) \/ DeliveryUncertain(p, n)
    BY <1>0, <2>3 DEF Answer, DeliveryUncertain, Answers
  <2>4. CASE UNCHANGED told
    BY <2>4
  <2> QED
    BY <2>1, <2>2, <2>3, <2>4, StepCases
       DEF Login, Check, Refreshed, RefreshNow, Abandon, TrackingExpires, Mutate, Reject, Dispatch,
           StopRequest, Run, SendCommit, StopCall, Acknowledge, Commit, RollBack, journey
<1>5. /\ server[m].answer \in {"not_dispatched", "failed", "conflict"} => Hopeless(m)
      /\ server[m].answer = "committed" => database[m] = "committed"
      /\ told[m] = "failed" => Hopeless(m)
      /\ told[m] = "recorded" => database[m] = "committed"
  BY DEF AnswersHold
<1> QED
  BY <1>1, <1>2, <1>3, <1>4, <1>5


-----------------------------------------------------------------------------
\* Tracking ends with the outcome, or with a word to the owner.
LEMMA IsTrackedStep ==
  ASSUME JourneyTypeOK, LayersFollow, Tracked, [JourneyNext]_journey, NEW m \in Operations
  PROVE  IsTracked(m)'
<1>0. /\ portal \in [Portals -> [signedIn : BOOLEAN, busy : Busy, pending : {0} \union Operations,
                                 recorded : BOOLEAN, unresolved : BOOLEAN,
                                 unavailable : BOOLEAN, seen : 0..MaxOperations,
                                 signIns : 0..MaxSignIns]]
      /\ told \in [Operations -> Tellings]
      /\ operation \in [Operations -> [by : Portals \union {None}, kind : Kinds \union {None},
                                       expected : 0..MaxOperations]]
  BY DEF JourneyTypeOK
<1>1. 0 \notin Operations
  BY JourneyAssumption DEF Operations
<1>2. IsTracked(m) /\ \A p \in Portals : Tracks(p)
  BY DEF Tracked
<1> USE <1>0, <1>1, <1>2 DEF IsTracked, Tracks
<1>3. ASSUME NEW p \in Portals, Login(p)
      PROVE  IsTracked(m)'
  BY <1>3 DEF Login, SignedIn, SignedOut
<1>4. ASSUME NEW p \in Portals, Logout(p)
      PROVE  IsTracked(m)'
  BY <1>4 DEF Logout, SignedOut, Dropped
<1>5. ASSUME NEW p \in Portals, NEW n \in Operations, NEW kind \in Kinds, Mutate(p, n, kind)
      PROVE  IsTracked(m)'
  BY <1>5 DEF Mutate, Locked
<1>6. ASSUME NEW p \in Portals, NEW n \in Operations, Answer(p, n)
      PROVE  IsTracked(m)'
  <2>1. operation[n].by = p /\ portal[p].pending = n
    BY <1>6 DEF Answer, Awaits
  <2>2. \A q \in Portals \ {p} : portal'[q] = portal[q]
    BY <1>6 DEF Answer, Settle
  <2>3. CASE m = n
    BY <1>6, <2>3 DEF Answer, Settle, Awaits
  <2>4. CASE m # n
    <3>1. told'[m] = told[m] /\ operation' = operation
      BY <1>6, <2>4 DEF Answer
    <3>2. portal'[p].signedIn = portal[p].signedIn /\ portal'[p].unresolved = portal[p].unresolved
      BY <1>6 DEF Answer, Settle
    <3> QED
      BY <2>1, <2>2, <2>4, <3>1, <3>2
  <2> QED
    BY <2>3, <2>4
<1>7. ASSUME NEW p \in Portals, NEW n \in Operations, DeliveryUncertain(p, n)
      PROVE  IsTracked(m)'
  BY <1>7 DEF DeliveryUncertain, Awaits
<1>8. ASSUME NEW p \in Portals, Check(p) \/ Refreshed(p) \/ RefreshNow(p) \/ Abandon(p)
      PROVE  IsTracked(m)'
  <2>1. CASE Check(p) \/ RefreshNow(p) \/ Abandon(p)
    BY <2>1 DEF Check, RefreshNow, Abandon
  <2>2. CASE Refreshed(p)
    <3>1. UNCHANGED <<told, operation>> /\ \A r \in Portals \ {p} : portal'[r] = portal[r]
      BY <2>2 DEF Refreshed
    <3>2. /\ portal'[p].signedIn = portal[p].signedIn
          /\ portal'[p].unresolved = portal[p].unresolved
          /\ portal'[p].pending = portal[p].pending \/ portal[p].recorded
      BY <2>2 DEF Refreshed
    <3> QED
      BY <3>1, <3>2
  <2> QED
    BY <1>8, <2>1, <2>2
<1>9. ASSUME NEW p \in Portals, Checked(p)
      PROVE  IsTracked(m)'
  <2>1. CASE told' = told /\ portal' = [portal EXCEPT ![p].busy = "no"]
    BY <1>9, <2>1 DEF Checked
  <2>2. CASE /\ told' = [told EXCEPT ![portal[p].pending] = "recorded"]
             /\ portal' = [portal EXCEPT ![p].busy = "refreshing", ![p].recorded = TRUE]
    BY <1>9, <2>2 DEF Checked
  <2> QED
    BY <1>9, <2>1, <2>2 DEF Checked
<1>10. ASSUME NEW p \in Portals, Abandoned(p)
       PROVE  IsTracked(m)'
  <2>1. CASE told' = Dropped(p) /\ portal' = [portal EXCEPT ![p] = SignedIn(revision, portal[p].signIns)]
    <3>1. operation' = operation /\ \A r \in Portals \ {p} : portal'[r] = portal[r]
      BY <1>10, <2>1 DEF Abandoned
    <3>2. portal'[p] = SignedIn(revision, portal[p].signIns)
      BY <2>1
    <3>3. portal'[p].pending = 0 /\ ~ portal'[p].recorded
      BY <3>2 DEF SignedIn, SignedOut
    <3> QED
      BY <2>1, <3>1, <3>3 DEF Dropped
  <2>2. CASE /\ told' = told
             /\ \/ portal' = [portal EXCEPT ![p].busy = "no"]
                \/ portal' = [portal EXCEPT ![p].seen = revision, ![p].unavailable = FALSE,
                                            ![p].busy = "no"]
    BY <1>10, <2>2, <1>2 DEF Abandoned, IsTracked
  <2>3. \/ told' = Dropped(p) /\ portal' = [portal EXCEPT ![p] = SignedIn(revision, portal[p].signIns)]
        \/ /\ told' = told
           /\ \/ portal' = [portal EXCEPT ![p].busy = "no"]
              \/ portal' = [portal EXCEPT ![p].seen = revision, ![p].unavailable = FALSE,
                                          ![p].busy = "no"]
    BY <1>10 DEF Abandoned
  <2> QED
    BY <2>1, <2>2, <2>3
<1>11. ASSUME NEW p \in Portals, TrackingExpires(p)
       PROVE  IsTracked(m)'
  BY <1>11 DEF TrackingExpires
<1>12. CASE UNCHANGED <<portal, told, operation>>
  BY <1>12
<1> QED
  BY <1>3, <1>4, <1>5, <1>6, <1>7, <1>8, <1>9, <1>10, <1>11, <1>12, StepCases
     DEF Reject, Dispatch, StopRequest, Run, SendCommit, StopCall, Acknowledge, Commit, RollBack,
         journey

\* Every step leaves each portal with what its own row or an answer told it.
LEMMA TracksStep ==
  ASSUME JourneyTypeOK, LayersFollow, Tracked, [JourneyNext]_journey, NEW q \in Portals
  PROVE  Tracks(q)'
<1>0. /\ portal \in [Portals -> [signedIn : BOOLEAN, busy : Busy, pending : {0} \union Operations,
                                 recorded : BOOLEAN, unresolved : BOOLEAN,
                                 unavailable : BOOLEAN, seen : 0..MaxOperations,
                                 signIns : 0..MaxSignIns]]
      /\ told \in [Operations -> Tellings]
      /\ operation \in [Operations -> [by : Portals \union {None}, kind : Kinds \union {None},
                                       expected : 0..MaxOperations]]
  BY DEF JourneyTypeOK
<1>1. 0 \notin Operations
  BY JourneyAssumption DEF Operations
<1>2. \A p \in Portals : Tracks(p)
  BY DEF Tracked
<1> USE <1>0, <1>1, <1>2 DEF Tracks
<1>3. ASSUME NEW p \in Portals, Login(p)
      PROVE  Tracks(q)'
  BY <1>3 DEF Login, SignedIn, SignedOut
<1>4. ASSUME NEW p \in Portals, Logout(p)
      PROVE  Tracks(q)'
  BY <1>4 DEF Logout, SignedOut, Dropped
<1>5. ASSUME NEW p \in Portals, NEW n \in Operations, NEW kind \in Kinds, Mutate(p, n, kind)
      PROVE  Tracks(q)'
  BY <1>5 DEF Mutate, Locked, LayersFollow, Follows
<1>6. ASSUME NEW p \in Portals, NEW n \in Operations, Answer(p, n)
      PROVE  Tracks(q)'
  BY <1>6 DEF Answer, Awaits, Settle
<1>7. ASSUME NEW p \in Portals, NEW n \in Operations, DeliveryUncertain(p, n)
      PROVE  Tracks(q)'
  BY <1>7 DEF DeliveryUncertain, Awaits
<1>8. ASSUME NEW p \in Portals, Check(p) \/ Refreshed(p) \/ RefreshNow(p) \/ Abandon(p)
      PROVE  Tracks(q)'
  <2>1. CASE Check(p) \/ RefreshNow(p) \/ Abandon(p)
    BY <2>1 DEF Check, RefreshNow, Abandon
  <2>2. CASE Refreshed(p)
    BY <2>2 DEF Refreshed
  <2> QED
    BY <1>8, <2>1, <2>2
<1>9. ASSUME NEW p \in Portals, Checked(p)
      PROVE  Tracks(q)'
  <2>1. CASE told' = told /\ portal' = [portal EXCEPT ![p].busy = "no"]
    BY <1>9, <2>1 DEF Checked
  <2>2. CASE /\ told' = [told EXCEPT ![portal[p].pending] = "recorded"]
             /\ portal' = [portal EXCEPT ![p].busy = "refreshing", ![p].recorded = TRUE]
    <3>1. operation' = operation /\ portal[p].busy = "checking"
      BY <1>9 DEF Checked
    <3>2. CASE q = p
      BY <2>2, <3>1, <3>2
    <3>3. CASE q # p
      BY <2>2, <3>1, <3>3
    <3> QED
      BY <3>2, <3>3
  <2> QED
    BY <1>9, <2>1, <2>2 DEF Checked
<1>10. ASSUME NEW p \in Portals, Abandoned(p)
       PROVE  Tracks(q)'
  <2>1. CASE told' = Dropped(p) /\ portal' = [portal EXCEPT ![p] = SignedIn(revision, portal[p].signIns)]
    <3>1. operation' = operation /\ \A r \in Portals \ {p} : portal'[r] = portal[r]
      BY <1>10, <2>1 DEF Abandoned
    <3>2. portal'[p] = SignedIn(revision, portal[p].signIns)
      BY <2>1
    <3>3. portal'[p].pending = 0 /\ ~ portal'[p].recorded
      BY <3>2 DEF SignedIn, SignedOut
    <3> QED
      BY <2>1, <3>1, <3>3 DEF Dropped
  <2>2. CASE /\ told' = told
             /\ \/ portal' = [portal EXCEPT ![p].busy = "no"]
                \/ portal' = [portal EXCEPT ![p].seen = revision, ![p].unavailable = FALSE,
                                            ![p].busy = "no"]
    BY <1>10, <2>2 DEF Abandoned
  <2> QED
    BY <1>10, <2>1, <2>2 DEF Abandoned
<1>11. ASSUME NEW p \in Portals, TrackingExpires(p)
       PROVE  Tracks(q)'
  BY <1>11 DEF TrackingExpires
<1>12. CASE UNCHANGED <<portal, told, operation>>
  BY <1>12
<1> QED
  BY <1>3, <1>4, <1>5, <1>6, <1>7, <1>8, <1>9, <1>10, <1>11, <1>12, StepCases
     DEF Reject, Dispatch, StopRequest, Run, SendCommit, StopCall, Acknowledge, Commit, RollBack,
         journey

\* And so for all portals at once.
LEMMA TrackedStep ==
  ASSUME JourneyTypeOK, LayersFollow, Tracked, [JourneyNext]_journey
  PROVE  Tracked'
BY IsTrackedStep, TracksStep DEF Tracked

-----------------------------------------------------------------------------
\* The row of the flow passes from one transaction to the next.
LEMMA RowStep ==
  ASSUME JourneyTypeOK, LayersFollow, RowIsHeld, [JourneyNext]_journey
  PROVE  RowIsHeld'
<1>0. /\ database \in [Operations -> Backends] /\ revision \in Nat
      /\ operation \in [Operations -> [by : Portals \union {None}, kind : Kinds \union {None},
                                       expected : 0..MaxOperations]]
      /\ \A n \in Operations : operation[n].expected \in Nat
  BY JourneyAssumption DEF JourneyTypeOK
<1>1. OneHasRow /\ \A n \in Operations : ComparesNow(n)
  BY DEF RowIsHeld
<1> DEFINE Unmoved == UNCHANGED <<operation, database, revision>>
<1>2. ASSUME NEW n \in Operations, Run(n)
      PROVE  RowIsHeld'
  <2>1. CASE UNCHANGED database
    BY <1>1, <1>2, <2>1 DEF Run, RowIsHeld, OneHasRow, ComparesNow, HasRow
  <2>2. CASE Matches(n) /\ database' = [database EXCEPT ![n] = "ran"]
    <3>1. UNCHANGED <<operation, revision>> /\ \A m \in Operations \ {n} : ~ HasRow(m)
      BY <1>2 DEF Run, FlowIsFree, HasRow
    <3>2. operation[n].kind = "change" => operation[n].expected = revision
      BY <2>2 DEF Matches
    <3> QED
      BY <1>0, <1>1, <2>2, <3>1, <3>2 DEF RowIsHeld, OneHasRow, ComparesNow, HasRow
  <2> QED
    BY <1>2, <2>1, <2>2 DEF Run
<1>3. ASSUME NEW n \in Operations, SendCommit(n)
      PROVE  RowIsHeld'
  BY <1>0, <1>1, <1>3 DEF SendCommit, RowIsHeld, OneHasRow, ComparesNow, HasRow
<1>4. ASSUME NEW n \in Operations, RollBack(n)
      PROVE  RowIsHeld'
  BY <1>0, <1>1, <1>4 DEF RollBack, RowIsHeld, OneHasRow, ComparesNow, HasRow
<1>5. ASSUME NEW n \in Operations, Commit(n)
      PROVE  RowIsHeld'
  <2>1. /\ HasRow(n) /\ \A m \in Operations \ {n} : ~ HasRow(m)
        /\ database' = [database EXCEPT ![n] = "committed"] /\ operation' = operation
    BY <1>1, <1>5 DEF Commit, HasRow, OneHasRow
  <2>2. \A m \in Operations : ~ HasRow(m)'
    BY <1>0, <2>1 DEF HasRow
  <2>3. /\ revision' \in Nat /\ revision <= revision'
        /\ operation[n].kind = "change" => revision < revision'
    BY <1>0, <1>5 DEF Commit
  <2>4. ASSUME NEW m \in Operations
        PROVE  ComparesNow(m)'
    <3>1. ComparesNow(m) /\ ComparesNow(n)
      BY <1>1
    <3> QED
      BY <1>0, <2>1, <2>2, <2>3, <3>1 DEF ComparesNow
  <2> QED
    BY <2>2, <2>4 DEF RowIsHeld, OneHasRow
<1>6. ASSUME NEW p \in Portals, NEW n \in Operations, NEW kind \in Kinds, Mutate(p, n, kind)
      PROVE  RowIsHeld'
  <2>1. database[n] = "none" /\ UNCHANGED <<database, revision>>
    BY <1>6 DEF Mutate, LayersFollow, Follows
  <2>2. \A m \in Operations \ {n} : operation'[m] = operation[m]
    BY <1>0, <1>6 DEF Mutate
  <2> QED
    BY <1>1, <2>1, <2>2 DEF RowIsHeld, OneHasRow, ComparesNow, HasRow
<1>7. CASE Unmoved
  BY <1>1, <1>7 DEF RowIsHeld, OneHasRow, ComparesNow, HasRow
<1> QED
  BY <1>2, <1>3, <1>4, <1>5, <1>6, <1>7, StepCases
     DEF Login, Logout, Check, Checked, Refreshed, RefreshNow, Abandon, Abandoned, TrackingExpires,
         Answer, DeliveryUncertain, Reject, Dispatch, StopRequest, StopCall, Acknowledge, journey

\* What is committed was so, or is by this step, and as it was asked.
LEMMA CommittedBefore ==
  ASSUME JourneyTypeOK, LayersFollow, [JourneyNext]_journey,
         NEW m \in Operations, database'[m] = "committed"
  PROVE  operation'[m] = operation[m] /\ (database[m] = "committed" \/ Commit(m))
<1>0. /\ database \in [Operations -> Backends]
      /\ operation \in [Operations -> [by : Portals \union {None}, kind : Kinds \union {None},
                                       expected : 0..MaxOperations]]
  BY DEF JourneyTypeOK
<1>1. ASSUME NEW n \in Operations, Run(n) \/ SendCommit(n) \/ Commit(n) \/ RollBack(n)
      PROVE  operation'[m] = operation[m] /\ (database[m] = "committed" \/ Commit(m))
  BY <1>0, <1>1 DEF Run, SendCommit, Commit, RollBack
<1>2. ASSUME NEW p \in Portals, NEW n \in Operations, NEW kind \in Kinds, Mutate(p, n, kind)
      PROVE  operation'[m] = operation[m] /\ database[m] = "committed"
  BY <1>0, <1>2 DEF Mutate, LayersFollow, Follows
<1>3. CASE UNCHANGED <<operation, database>>
  BY <1>3
<1> QED
  BY <1>1, <1>2, <1>3, StepCases
     DEF Login, Logout, Check, Checked, Refreshed, RefreshNow, Abandon, Abandoned, TrackingExpires,
         Answer, DeliveryUncertain, Reject, Dispatch, StopRequest, StopCall, Acknowledge, journey

\* A second commit of a change compared a higher revision than the first.
LEMMA NoLostUpdateStep ==
  ASSUME JourneyTypeOK, LayersFollow, RowIsHeld, NoLostUpdate, [JourneyNext]_journey
  PROVE  NoLostUpdate'
<1> SUFFICES ASSUME NEW m \in Operations, NEW n \in Operations, m # n,
                    database'[m] = "committed", database'[n] = "committed",
                    operation'[m].kind = "change", operation'[n].kind = "change"
             PROVE  operation'[m].expected # operation'[n].expected
  BY DEF NoLostUpdate
<1>1. /\ operation'[m] = operation[m] /\ operation'[n] = operation[n]
      /\ database[m] = "committed" \/ Commit(m)
      /\ database[n] = "committed" \/ Commit(n)
  BY CommittedBefore
<1>2. operation[m].expected \in Nat /\ operation[n].expected \in Nat /\ revision \in Nat
  BY JourneyAssumption DEF JourneyTypeOK
<1>3. ComparesNow(m) /\ ComparesNow(n)
  BY DEF RowIsHeld
<1>4. ~ (Commit(m) /\ Commit(n))
  BY DEF Commit, RowIsHeld, OneHasRow, HasRow
<1>5. CASE database[m] = "committed" /\ database[n] = "committed"
  BY <1>1, <1>5 DEF NoLostUpdate
<1>6. CASE database[m] = "committed" /\ Commit(n)
  BY <1>1, <1>2, <1>3, <1>6 DEF ComparesNow, HasRow, Commit
<1>7. CASE Commit(m) /\ database[n] = "committed"
  BY <1>1, <1>2, <1>3, <1>7 DEF ComparesNow, HasRow, Commit
<1> QED
  BY <1>1, <1>4, <1>5, <1>6, <1>7

\* Only what is over is followed by another change of the same portal.
LEMMA OneChangeStep ==
  ASSUME JourneyTypeOK, LayersFollow, Tracked, OneChangeAtATime, [JourneyNext]_journey
  PROVE  OneChangeAtATime'
<1> SUFFICES ASSUME NEW m \in Operations, NEW n \in Operations, m < n,
                    operation'[n].by # None, operation'[m].by = operation'[n].by
             PROVE  told'[m] \in {"failed", "recorded", "discarded"}
  BY DEF OneChangeAtATime
<1>0. /\ told \in [Operations -> Tellings]
      /\ operation \in [Operations -> [by : Portals \union {None}, kind : Kinds \union {None},
                                       expected : 0..MaxOperations]]
      /\ m \in 1 .. n - 1 /\ 0 \notin Operations
  BY JourneyAssumption DEF JourneyTypeOK, Operations
<1> DEFINE IsOver(t) == t \in {"failed", "recorded", "discarded"}
<1>1. ASSUME NEW p \in Portals, NEW k \in Operations, NEW kind \in Kinds, Mutate(p, k, kind)
      PROVE  IsOver(told'[m])
  <2>1. k # m
    <3>1. SUFFICES ASSUME k = m PROVE FALSE
      OBVIOUS
    <3>2. operation'[n] = operation[n] /\ server[m].state = "none"
      BY <1>0, <1>1, <3>1 DEF Mutate
    <3>3. server[n].state = "none"
      BY <1>0, <3>2 DEF LayersFollow, SentInOrder
    <3> QED
      BY <3>2, <3>3 DEF LayersFollow, Follows
  <2>2. CASE k = n
    <3>1. operation[m].by = p
      BY <1>0, <1>1, <2>1, <2>2 DEF Mutate
    <3>2. ~ Locked(p) /\ told' = told
      BY <1>1 DEF Mutate
    <3>3. told[m] \notin {"nothing", "unknown"}
      BY <1>0, <3>1, <3>2, JourneyAssumption DEF Tracked, IsTracked, Locked
    <3> QED
      BY <1>0, <3>2, <3>3 DEF Tellings
  <2>3. CASE k # n
    BY <1>0, <1>1, <2>1, <2>3 DEF Mutate, OneChangeAtATime
  <2> QED
    BY <2>2, <2>3
<1>2. ASSUME UNCHANGED operation
      PROVE  IsOver(told[m])
  BY <1>2 DEF OneChangeAtATime
<1>3. ASSUME NEW p \in Portals, Logout(p) \/ Abandoned(p)
      PROVE  IsOver(told'[m])
  BY <1>0, <1>2, <1>3 DEF Logout, Abandoned, Dropped
<1>4. ASSUME NEW p \in Portals, Checked(p)
      PROVE  IsOver(told'[m])
  BY <1>0, <1>2, <1>4 DEF Checked
<1>5. ASSUME NEW p \in Portals, NEW k \in Operations, Answer(p, k) \/ DeliveryUncertain(p, k)
      PROVE  IsOver(told'[m])
  <2>1. m # k
    <3>1. portal[p].pending = k /\ portal[p].busy = "sending"
      BY <1>5 DEF Answer, DeliveryUncertain, Awaits
    <3>2. told[k] = "nothing"
      BY <1>0, <3>1 DEF Tracked, Tracks
    <3>3. UNCHANGED operation
      BY <1>5 DEF Answer, DeliveryUncertain
    <3> QED
      BY <1>2, <3>2, <3>3
  <2> QED
    BY <1>0, <1>2, <1>5, <2>1 DEF Answer, DeliveryUncertain
<1> QED
  BY <1>1, <1>2, <1>3, <1>4, <1>5, StepCases
     DEF Login, Check, Refreshed, RefreshNow, Abandon, TrackingExpires, Reject, Dispatch,
         StopRequest, Run, SendCommit, StopCall, Acknowledge, Commit, RollBack, journey

-----------------------------------------------------------------------------
\* Each revision is counted by the commit that made it, so the operations bound it.
LEMMA CountStep ==
  ASSUME JourneyTypeOK, LayersFollow, RevisionsCounted, [JourneyNext]_journey
  PROVE  RevisionsCounted' /\ revision' \in 0 .. MaxOperations
<1>0. database \in [Operations -> Backends] /\ revision \in Nat /\ MaxOperations \in Nat
  BY JourneyAssumption DEF JourneyTypeOK
<1>1. IsFiniteSet(Operations) /\ Cardinality(Operations) = MaxOperations
  BY <1>0, FS_Interval DEF Operations
<1>2. /\ IsFiniteSet(Committed) /\ IsFiniteSet(Committed')
      /\ Cardinality(Committed) \in Nat /\ Cardinality(Committed') \in Nat
      /\ Cardinality(Committed') <= MaxOperations
  BY <1>1, FS_Subset, FS_CardinalityType DEF Committed
<1>3. revision' \in Nat /\ revision' <= Cardinality(Committed')
  <2>1. ASSUME NEW n \in Operations, Commit(n)
        PROVE  revision' \in Nat /\ revision' <= Cardinality(Committed')
    <3>1. n \notin Committed /\ Committed' = Committed \cup {n}
      BY <1>0, <2>1 DEF Commit, Committed
    <3>2. Cardinality(Committed') = Cardinality(Committed) + 1
      BY <1>2, <3>1, FS_AddElement
    <3> QED
      BY <1>0, <1>2, <2>1, <3>2 DEF Commit, RevisionsCounted
  <2>2. CASE UNCHANGED revision
    <3>1. Committed \subseteq Committed'
      BY CommittedStays DEF Committed
    <3>2. Cardinality(Committed) <= Cardinality(Committed')
      BY <1>2, <3>1, FS_Subset
    <3> QED
      BY <1>0, <1>2, <2>2, <3>2 DEF RevisionsCounted
  <2> QED
    BY <2>1, <2>2, StepCases
       DEF Login, Logout, Check, Checked, Refreshed, RefreshNow, Abandon, Abandoned,
           TrackingExpires, Answer, DeliveryUncertain, Mutate, Reject, Dispatch, StopRequest,
           Run, SendCommit, StopCall, Acknowledge, RollBack, journey
<1> QED
  BY <1>0, <1>2, <1>3 DEF RevisionsCounted

\* A portal's refs, one portal at a time.
PortalShape == [signedIn : BOOLEAN, busy : Busy, pending : {0} \union Operations,
                recorded : BOOLEAN, unresolved : BOOLEAN, unavailable : BOOLEAN,
                seen : 0..MaxOperations, signIns : 0..MaxSignIns]
\* A portal that signed in, or is signed out, has the shape of one.
LEMMA SignedInShape ==
  ASSUME NEW r \in 0..MaxOperations, NEW k \in 0..MaxSignIns
  PROVE  SignedIn(r, k) \in PortalShape /\ [SignedOut EXCEPT !.signIns = k] \in PortalShape
<1>1. 0 \in 0..MaxOperations
  BY JourneyAssumption
<1> QED
  BY <1>1 DEF SignedIn, SignedOut, PortalShape, Busy

\* Every step leaves each portal the shape of one.
LEMMA PortalStep ==
  ASSUME JourneyTypeOK, [JourneyNext]_journey
  PROVE  portal' \in [Portals -> PortalShape]
<1>0. portal \in [Portals -> PortalShape] /\ revision \in 0..MaxOperations
  BY DEF JourneyTypeOK, PortalShape
<1> DEFINE Changes(p) == /\ portal' = [portal EXCEPT ![p] = portal'[p]]
                         /\ portal'[p] \in PortalShape
<1>1. ASSUME NEW p \in Portals, Changes(p)
      PROVE  portal' \in [Portals -> PortalShape]
  <2> DEFINE r == portal'[p]
  <2>1. portal' = [portal EXCEPT ![p] = r] /\ r \in PortalShape
    BY <1>1
  <2> HIDE DEF r
  <2> QED
    BY <1>0, <2>1
<1> USE DEF Busy, PortalShape
<1>2. ASSUME NEW p \in Portals, Login(p)
      PROVE  Changes(p)
  <2>1. portal[p].signIns + 1 \in 0..MaxSignIns
    BY <1>0, <1>2, JourneyAssumption DEF Login
  <2>2. SignedIn(revision, portal[p].signIns + 1) \in PortalShape
    BY <1>0, <2>1, SignedInShape
  <2> QED
    BY <1>0, <1>2, <2>2 DEF Login
<1>3. ASSUME NEW p \in Portals, Logout(p)
      PROVE  Changes(p)
  <2>1. [SignedOut EXCEPT !.signIns = portal[p].signIns] \in PortalShape
    BY <1>0, SignedInShape
  <2> QED
    BY <1>0, <1>3, <2>1 DEF Logout
<1>4. ASSUME NEW p \in Portals, NEW n \in Operations, NEW kind \in Kinds, Mutate(p, n, kind)
      PROVE  Changes(p)
  BY <1>0, <1>4 DEF Mutate
<1>5. ASSUME NEW p \in Portals, NEW n \in Operations, Answer(p, n)
      PROVE  Changes(p)
  BY <1>0, <1>5 DEF Answer, Settle
<1>6. ASSUME NEW p \in Portals, NEW n \in Operations, DeliveryUncertain(p, n)
      PROVE  Changes(p)
  BY <1>0, <1>6 DEF DeliveryUncertain
<1>7. ASSUME NEW p \in Portals, Check(p) \/ RefreshNow(p) \/ Abandon(p) \/ TrackingExpires(p)
      PROVE  Changes(p)
  BY <1>0, <1>7 DEF Check, RefreshNow, Abandon, TrackingExpires
<1>8. ASSUME NEW p \in Portals, Checked(p)
      PROVE  Changes(p)
  BY <1>0, <1>8 DEF Checked
<1>9. ASSUME NEW p \in Portals, Refreshed(p)
      PROVE  Changes(p)
  BY <1>0, <1>9 DEF Refreshed
<1>10. ASSUME NEW p \in Portals, Abandoned(p)
       PROVE  Changes(p)
  <2>1. SignedIn(revision, portal[p].signIns) \in PortalShape
    BY <1>0, SignedInShape
  <2>2. CASE portal' = [portal EXCEPT ![p] = SignedIn(revision, portal[p].signIns)]
    BY <1>0, <2>1, <2>2
  <2>3. CASE \/ portal' = [portal EXCEPT ![p].busy = "no"]
             \/ portal' = [portal EXCEPT ![p].seen = revision, ![p].unavailable = FALSE,
                                         ![p].busy = "no"]
    BY <1>0, <2>3
  <2> QED
    BY <1>10, <2>2, <2>3 DEF Abandoned
<1>11. CASE UNCHANGED portal
  BY <1>0, <1>11
<1> HIDE DEF Changes
<1> QED
  BY <1>1, <1>2, <1>3, <1>4, <1>5, <1>6, <1>7, <1>8, <1>9, <1>10, <1>11, StepCases
     DEF Reject, Dispatch, StopRequest, Run, SendCommit, StopCall, Acknowledge, Commit, RollBack,
         journey

\* Every step keeps the types, revisions within their bound included.
LEMMA TypeStep ==
  ASSUME JourneyTypeOK, LayersFollow, RevisionsCounted, [JourneyNext]_journey
  PROVE  JourneyTypeOK'
<1> DEFINE Told == told' \in [Operations -> Tellings]
           Asked == operation' \in [Operations -> [by : Portals \union {None},
                                                  kind : Kinds \union {None},
                                                  expected : 0..MaxOperations]]
           Layers == /\ server' \in [Operations -> [state : Servers, answer : Answers]]
                     /\ repository' \in [Operations -> Calls]
                     /\ database' \in [Operations -> Backends]
<1>0. /\ portal \in [Portals -> PortalShape]
      /\ told \in [Operations -> Tellings]
      /\ operation \in [Operations -> [by : Portals \union {None}, kind : Kinds \union {None},
                                       expected : 0..MaxOperations]]
      /\ server \in [Operations -> [state : Servers, answer : Answers]]
      /\ repository \in [Operations -> Calls]
      /\ database \in [Operations -> Backends]
  BY DEF JourneyTypeOK, PortalShape
<1>1. portal' \in [Portals -> PortalShape] /\ revision' \in 0..MaxOperations
  BY CountStep, PortalStep
<1> USE DEF Tellings, Servers, Answers, Calls, Backends
<1>2. ASSUME NEW p \in Portals, Logout(p)
      PROVE  Told /\ Asked /\ Layers
  BY <1>0, <1>2 DEF Logout, Dropped
<1>3. ASSUME NEW p \in Portals, NEW n \in Operations, NEW kind \in Kinds, Mutate(p, n, kind)
      PROVE  Told /\ Asked /\ Layers
  BY <1>0, <1>3 DEF Mutate, PortalShape
<1>4. ASSUME NEW p \in Portals, NEW n \in Operations, Answer(p, n) \/ DeliveryUncertain(p, n)
      PROVE  Told /\ Asked /\ Layers
  <2>1. Asked /\ server' = [server EXCEPT ![n].answer = "none"]
    BY <1>0, <1>4 DEF Answer, DeliveryUncertain
  <2>2. Told
    BY <1>0, <1>4 DEF Answer, DeliveryUncertain
  <2>3. UNCHANGED <<repository, database>>
    BY <1>4 DEF Answer, DeliveryUncertain
  <2> QED
    BY <1>0, <2>1, <2>2, <2>3
<1>5. ASSUME NEW p \in Portals, Checked(p)
      PROVE  Told /\ Asked /\ Layers
  BY <1>0, <1>5 DEF Checked
<1>6. ASSUME NEW p \in Portals, Abandoned(p)
      PROVE  Told /\ Asked /\ Layers
  BY <1>0, <1>6 DEF Abandoned, Dropped
<1>7. ASSUME NEW n \in Operations, Reject(n)
      PROVE  Told /\ Asked /\ Layers
  BY <1>0, <1>7, Responds DEF Reject
<1>8. ASSUME NEW n \in Operations, Dispatch(n) \/ SendCommit(n) \/ Commit(n) \/ RollBack(n)
      PROVE  Told /\ Asked /\ Layers
  <2>1. Told /\ Asked
    BY <1>0, <1>8 DEF Dispatch, SendCommit, Commit, RollBack
  <2>2. CASE Dispatch(n)
    BY <1>0, <2>1, <2>2 DEF Dispatch
  <2>3. CASE SendCommit(n)
    BY <1>0, <2>1, <2>3 DEF SendCommit
  <2>4. CASE Commit(n) \/ RollBack(n)
    BY <1>0, <2>1, <2>4 DEF Commit, RollBack
  <2> QED
    BY <1>8, <2>2, <2>3, <2>4
<1>9. ASSUME NEW n \in Operations, StopRequest(n)
      PROVE  Told /\ Asked /\ Layers
  BY <1>0, <1>9, Responds DEF StopRequest
<1>10. ASSUME NEW n \in Operations, Run(n)
       PROVE  Told /\ Asked /\ Layers
  BY <1>0, <1>10, Responds DEF Run
<1>11. ASSUME NEW n \in Operations, StopCall(n)
       PROVE  Told /\ Asked /\ Layers
  BY <1>0, <1>11, Responds DEF StopCall
<1>12. ASSUME NEW n \in Operations, Acknowledge(n)
       PROVE  Told /\ Asked /\ Layers
  BY <1>0, <1>12, Responds DEF Acknowledge
<1>13. ASSUME UNCHANGED <<told, operation, server, repository, database>>
       PROVE  Told /\ Asked /\ Layers
  <2>1. Told /\ Asked
    BY <1>0, <1>13
  <2>2. Layers
    BY <1>0, <1>13
  <2> QED
    BY <2>1, <2>2
<1>14. Told /\ Asked /\ Layers
  <2>1. ASSUME NEW p \in Portals,
               \/ Login(p) \/ Check(p) \/ Refreshed(p) \/ RefreshNow(p) \/ Abandon(p)
               \/ TrackingExpires(p)
        PROVE  Told /\ Asked /\ Layers
    <3>1. UNCHANGED <<told, operation, server, repository, database>>
      BY <2>1 DEF Login, Check, Refreshed, RefreshNow, Abandon, TrackingExpires
    <3> HIDE DEF Told, Asked, Layers
    <3> QED
      BY <1>13, <3>1
  <2>2. CASE UNCHANGED journey
    <3>1. UNCHANGED <<told, operation, server, repository, database>>
      BY <2>2 DEF journey
    <3> HIDE DEF Told, Asked, Layers
    <3> QED
      BY <1>13, <3>1
  <2> HIDE DEF Told, Asked, Layers
  <2> QED
    BY <1>2, <1>3, <1>4, <1>5, <1>6, <1>7, <1>8, <1>9, <1>10, <1>11, <1>12, <2>1, <2>2, StepCases
<1> QED
  BY <1>1, <1>14 DEF JourneyTypeOK, PortalShape

-----------------------------------------------------------------------------
\* Nothing is stored or on its way at the start.
LEMMA InvInit == JourneyInit => Inv
<1> SUFFICES ASSUME JourneyInit
             PROVE  Inv
  OBVIOUS
<1>1. JourneyTypeOK
  BY JourneyAssumption DEF JourneyInit, JourneyTypeOK, SignedOut, Busy, Tellings, Servers, Answers,
                           Calls, Backends
<1>2. LayersFollow /\ AnswersHold
  BY DEF JourneyInit, LayersFollow, SentInOrder, Follows, InRepository, AnswersHold, Hopeless
<1>3. Tracked /\ RowIsHeld
  BY DEF JourneyInit, Tracked, IsTracked, Tracks, SignedOut, RowIsHeld, OneHasRow, ComparesNow,
         HasRow
<1>4. Committed = {} /\ Cardinality({}) = 0
  BY FS_EmptySet DEF JourneyInit, Committed
<1>5. RevisionsCounted
  BY <1>4 DEF JourneyInit, RevisionsCounted
<1>6. OneChangeAtATime /\ NoLostUpdate
  BY DEF JourneyInit, OneChangeAtATime, NoLostUpdate
<1> QED
  BY <1>1, <1>2, <1>3, <1>5, <1>6 DEF Inv

\* Every step of the journey keeps the invariant, part by part.
LEMMA InvStep == Inv /\ [JourneyNext]_journey => Inv'
BY TypeStep, LayersStep, AnswersStep, TrackedStep, RowStep, CountStep, OneChangeStep,
   NoLostUpdateStep DEF Inv

\* The invariant, of any behaviour with or without the fairness of JourneySpec.
LEMMA JourneyInv == JourneySpec => []Inv
BY InvInit, InvStep, PTL DEF JourneySpec

\* The shapes of the portals' refs and of the three layers, with no more
\* revisions than operations.
THEOREM JourneyTypes == JourneySpec => []JourneyTypeOK
<1>1. Inv => JourneyTypeOK
  BY DEF Inv
<1> QED
  BY <1>1, JourneyInv, PTL

\* What an owner is told of her change is so, whatever was cut off from what:
\* one reported as not made is not made later by a transaction that outlives
\* its request, and one reported as recorded is committed.
THEOREM OwnersAreToldTrue == JourneySpec => []ToldIsTrue
<1>1. Inv => ToldIsTrue
  BY DEF Inv, AnswersHold, Hopeless, ToldIsTrue
<1> QED
  BY <1>1, JourneyInv, PTL

\* A portal starts no change while one of its own may still happen.
THEOREM OneChangeOfAPortal == JourneySpec => []OneChangeAtATime
<1>1. Inv => OneChangeAtATime
  BY DEF Inv
<1> QED
  BY <1>1, JourneyInv, PTL

\* No two changes that were made compared the same revision: every one was
\* made to the settings its owner had seen.
THEOREM NoUpdateIsLost == JourneySpec => []NoLostUpdate
<1>1. Inv => NoLostUpdate
  BY DEF Inv
<1> QED
  BY <1>1, JourneyInv, PTL
================================================================================
