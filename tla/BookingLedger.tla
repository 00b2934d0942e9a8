--------------------------- MODULE BookingLedger ---------------------------
(***************************************************************************)
(* What the booking engine promises, with no process, hold or message in   *)
(* it: every booking walks the legal edges of its life cycle, one edge at  *)
(* a time; a booking is sold only for the full price, and only while       *)
(* every moment of its slot has room; it is marked refunded only once the  *)
(* whole price went back.                                                  *)
(***************************************************************************)
EXTENDS Naturals, FiniteSets

CONSTANTS
  Bookings,   \* bookings of one service of one tenant
  SlotOf,     \* the moments each booking's slot covers
  Capacity,   \* how many bookings may share a moment
  Amount      \* price of a booking, in money units

VARIABLES
  state,      \* life-cycle state of each booking
  paid,       \* money captured for each booking
  returned    \* money given back for each booking

vars == <<state, paid, returned>>

BookingState == {"draft", "pending_payment", "confirmed", "completed",
                 "cancelled", "refunded", "failed"}

\* contracts/src/booking.ts: BOOKING_TRANSITIONS, enforced by a trigger.
Transitions ==
  [ draft           |-> {"pending_payment", "failed"},
    pending_payment |-> {"confirmed", "failed"},
    confirmed       |-> {"completed", "cancelled", "refunded"},
    completed       |-> {"refunded"},
    cancelled       |-> {"refunded"},
    refunded        |-> {},
    failed          |-> {} ]

\* A sold booking is one whose customer was promised the slot.
Sold == {"confirmed", "completed"}

Selling(t) == {b \in Bookings : state[b] \in Sold /\ t \in SlotOf[b]}

Init ==
  /\ state = [b \in Bookings |-> "draft"]
  /\ paid = [b \in Bookings |-> 0]
  /\ returned = [b \in Bookings |-> 0]

\* Money moves at the payment provider; a booking's money is captured once
\* and never more is returned than was captured.
Capture(b) ==
  /\ paid[b] = 0
  /\ paid'[b] \in Nat \ {0}
  /\ paid' = [paid EXCEPT ![b] = paid'[b]]
  /\ UNCHANGED <<state, returned>>

Return(b) ==
  /\ returned'[b] \in (returned[b] + 1) .. paid[b]
  /\ returned' = [returned EXCEPT ![b] = returned'[b]]
  /\ UNCHANGED <<state, paid>>

Move(b, s) ==
  /\ s \in Transitions[state[b]]
  /\ state' = [state EXCEPT ![b] = s]
  /\ UNCHANGED <<paid, returned>>

Sell(b) ==
  /\ paid[b] = Amount
  /\ \A t \in SlotOf[b] : Cardinality(Selling(t)) < Capacity
  /\ Move(b, "confirmed")

Refund(b) ==
  /\ returned[b] >= Amount
  /\ Move(b, "refunded")

Next ==
  \E b \in Bookings :
    \/ Capture(b)
    \/ Return(b)
    \/ Sell(b)
    \/ Refund(b)
    \/ \E s \in BookingState \ {"confirmed", "refunded"} : Move(b, s)

Spec == Init /\ [][Next]_vars
=============================================================================
