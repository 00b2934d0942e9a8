--------------------------- MODULE PaymentRuntime ---------------------------
(***************************************************************************)
(* The trusted payment runtime: the two edge functions that may move a     *)
(* booking through payment (create-payment-intent and stripe-webhook), the *)
(* database rows they share, and the payment provider as they use it.      *)
(*                                                                         *)
(* The bookings are those of one service of one tenant, the scope of the   *)
(* advisory lock of reserve_capacity.  A call of an edge function is run   *)
(* by a worker, one statement that reads or writes shared state at a time: *)
(* what a call read earlier may be stale when it acts on it.  Calls die    *)
(* between two statements, statements whose result the code ignores are    *)
(* lost, the provider fails, and webhook events are delivered in any order *)
(* and as often as the provider likes.                                     *)
(***************************************************************************)
EXTENDS Naturals, FiniteSets, FiniteSetsExt

CONSTANTS
  Bookings, Workers,
  SlotOf,           \* the moments each booking's slot covers
  Capacity,         \* capacity of every slot (availability rules)
  Amount,           \* the server's price of a booking
  CapturedAmounts,  \* what the provider may report as captured
  MerchantRefunds,  \* part refunds the merchant issues at the provider
  RefundFeed,       \* which refund events the endpoint is subscribed to
  DeclinesMayHappen,\* whether a payment attempt may be declined
  Lossy,            \* unchecked statements whose failure goes unnoticed
  MaxFaults,        \* bound: deaths, lost statements and provider errors
  None

ASSUME RuntimeAssumption ==
  /\ IsFiniteSet(Bookings)
  /\ Capacity \in Nat \ {0}
  /\ Amount \in Nat \ {0}
  /\ CapturedAmounts \subseteq Nat \ {0}
  /\ MerchantRefunds \subseteq Nat \ {0}
  /\ RefundFeed \subseteq {"charge", "refund"}
  /\ DeclinesMayHappen \in BOOLEAN
  /\ MaxFaults \in Nat
  /\ None \notin Bookings

VARIABLES
  booking,    \* bookings.state
  linked,     \* bookings.payment_id is set
  hold,       \* the booking's row of capacity_holds
  payment,    \* payments.state of the booking's intent
  ledger,     \* the booking's rows of refunds
  secretOut,  \* a client secret was handed out
  captured,   \* provider: money captured by the booking's intent
  refunded,   \* provider: money refunded so far
  events,     \* provider: webhook events that exist
  acked,      \* provider: events answered 200
  call,       \* what each worker is doing
  faults      \* faults so far

rows == <<booking, linked, hold, payment, ledger>>
provider == <<captured, refunded, events>>
vars == <<booking, linked, hold, payment, ledger, secretOut, captured,
          refunded, events, acked, call, faults>>

BookingState == {"draft", "pending_payment", "confirmed", "completed",
                 "cancelled", "refunded", "failed"}

\* "live" is an active hold before expires_at, "lapsed" an active one after
\* it: no code ever writes the status 'expired'.
HoldState == {"none", "live", "lapsed", "consumed", "released"}

PaymentState == {"none", "requires_payment", "succeeded", "failed",
                 "refunded", "partially_refunded"}

Event == [kind : {"succeeded", "failed", "refund"},
          booking : Bookings, id : Nat, amount : Nat]

CheckoutSteps == {"assess", "reserve", "create_intent", "record",
                  "undo_hold", "advance", "respond"}
HonourSteps == {"honour", "undraft", "consume", "link", "confirm"}
CompensateSteps == {"refund", "log_refund", "mark_refunded",
                    "return_slot", "fail_refunded"}
WebhookSteps == {"read_booking", "replay", "read_hold", "mark_failed",
                 "drop_hold", "fail_booking", "record_refund",
                 "settle_payment", "settle_booking"}
                \cup HonourSteps \cup CompensateSteps

Call == [step : CheckoutSteps \cup WebhookSteps, booking : Bookings,
         event : Event \cup {None}, sawBooking : BookingState \cup {None},
         sawPayment : PaymentState \cup {None}, sawLive : BOOLEAN,
         refundId : Nat]

Idle == [step |-> "idle", booking |-> None, event |-> None,
         sawBooking |-> None, sawPayment |-> None, sawLive |-> FALSE,
         refundId |-> 0]
-----------------------------------------------------------------------------
(***************************************************************************)
(* The control of a call.                                                  *)
(***************************************************************************)
At(w, s) == call[w].step = s
B(w) == call[w].booking

Goto(w, s) == call' = [call EXCEPT ![w].step = s]
Return(w) == call' = [call EXCEPT ![w] = Idle] /\ UNCHANGED acked

\* The webhook answers 200: the provider stops retrying the event.
Ack(w) == /\ acked' = acked \cup {call[w].event}
          /\ call' = [call EXCEPT ![w] = Idle]

NoFault == UNCHANGED faults
Fault == faults < MaxFaults /\ faults' = faults + 1

\* A statement whose error the code does not look at: it takes effect, or,
\* if it is one of the lossy ones, it may be lost without notice.
Unchecked(label, effect, noEffect) ==
  \/ effect /\ NoFault
  \/ label \in Lossy /\ noEffect /\ Fault

\* A read whose error the code takes for the absence of the row.
ReadFails(label) == label \in Lossy /\ Fault
-----------------------------------------------------------------------------
(***************************************************************************)
(* The database: slots, and the three functions on capacity_holds.         *)
(***************************************************************************)
Overlap(b, c) == SlotOf[b] \cap SlotOf[c] # {}

\* reserve_capacity counts a live hold, and a booking of a consuming state
\* that has no live hold of its own.
Mutant_PendingIsFree(c) ==
  hold[c] = "live" \/ booking[c] \in {"confirmed", "completed"}

Consumes(c) ==
  \/ hold[c] = "live"
  \/ booking[c] \in {"pending_payment", "confirmed", "completed"}

ConsumersAgainst(b) == {c \in Bookings \ {b} : Overlap(b, c) /\ Consumes(c)}

AlreadyGranted(b) == hold[b] \in {"live", "consumed"}

HasCapacity(b) == Cardinality(ConsumersAgainst(b)) < Capacity

ReserveCapacity(b) ==
  \/ AlreadyGranted(b) /\ UNCHANGED hold
  \/ /\ ~ AlreadyGranted(b)
     /\ HasCapacity(b)
     /\ hold' = [hold EXCEPT ![b] = "live"]

ConsumeHold(b) ==
  hold' = [hold EXCEPT ![b] = IF @ = "live" THEN "consumed" ELSE @]

Mutant_ReleaseAny(b) ==
  hold' = [hold EXCEPT ![b] = IF @ = "none" THEN @ ELSE "released"]

ReleaseHold(b) ==
  hold' = [hold EXCEPT ![b] = IF @ \in {"live", "lapsed"} THEN "released"
                                                          ELSE @]

Mutant_MoveAlways(b, from, s) == booking' = [booking EXCEPT ![b] = s]

\* update bookings set state = s where state in (from)
MoveBooking(b, from, s) ==
  booking' = [booking EXCEPT ![b] = IF @ \in from THEN s ELSE @]

\* expires_at passes: fifteen minutes after the hold was granted.
HoldExpires(b) ==
  /\ hold[b] = "live"
  /\ hold' = [hold EXCEPT ![b] = "lapsed"]
  /\ UNCHANGED <<booking, linked, payment, ledger, secretOut, captured,
                 refunded, events, acked, call, faults>>
-----------------------------------------------------------------------------
(***************************************************************************)
(* create-payment-intent                                                   *)
(***************************************************************************)
\* Load the booking and check that it may still be paid.
OpenCheckout(w, b) ==
  /\ call[w] = Idle
  /\ booking[b] \in {"draft", "pending_payment"}
  /\ call' = [call EXCEPT ![w] =
                [Idle EXCEPT !.step = "assess", !.booking = b,
                             !.sawBooking = booking[b]]]
  /\ UNCHANGED <<rows, secretOut, provider, acked, faults>>

\* Availability against the tenant's pending and confirmed bookings.
SlotAvailable(b) ==
  Cardinality({c \in Bookings \ {b} :
      Overlap(b, c) /\ booking[c] \in {"pending_payment", "confirmed"}})
  < Capacity

AssessSlot(w) ==
  /\ At(w, "assess")
  /\ \/ SlotAvailable(B(w)) /\ Goto(w, "reserve") /\ UNCHANGED acked
     \/ ~ SlotAvailable(B(w)) /\ Return(w)
  /\ UNCHANGED <<rows, secretOut, provider, faults>>

Reserve(w) ==
  /\ At(w, "reserve")
  /\ \/ ReserveCapacity(B(w)) /\ Goto(w, "create_intent") /\ UNCHANGED acked
     \/ /\ ~ AlreadyGranted(B(w)) /\ ~ HasCapacity(B(w))
        /\ Return(w) /\ UNCHANGED hold
  /\ UNCHANGED <<booking, linked, payment, ledger, secretOut, provider,
                 faults>>

\* The idempotency key makes a repeated call reuse the booking's intent.
CreateIntent(w) ==
  /\ At(w, "create_intent")
  /\ \/ Goto(w, "record") /\ NoFault
     \/ Goto(w, "undo_hold") /\ Fault
  /\ UNCHANGED <<rows, secretOut, provider, acked>>

\* The upsert writes the state of the provider's answer, which for a reused
\* idempotency key is the answer the first call got.
RecordPayment(w) ==
  /\ At(w, "record")
  /\ \/ /\ payment' = [payment EXCEPT ![B(w)] = "requires_payment"]
        /\ Goto(w, "advance")
        /\ NoFault
     \/ UNCHANGED payment /\ Goto(w, "undo_hold") /\ Fault
  /\ UNCHANGED <<booking, linked, hold, ledger, secretOut, provider, acked>>

UndoHold(w) ==
  /\ At(w, "undo_hold")
  /\ Return(w)
  /\ Unchecked("undo_hold", ReleaseHold(B(w)), UNCHANGED hold)
  /\ UNCHANGED <<booking, linked, payment, ledger, secretOut, provider>>

\* Only a call that read the booking as a draft advances it.
AdvanceBooking(w) ==
  /\ At(w, "advance")
  /\ Goto(w, "respond")
  /\ IF call[w].sawBooking = "draft"
     THEN Unchecked("advance",
                    MoveBooking(B(w), {"draft"}, "pending_payment"),
                    UNCHANGED booking)
     ELSE UNCHANGED booking /\ NoFault
  /\ UNCHANGED <<linked, hold, payment, ledger, secretOut, provider, acked>>

Respond(w) ==
  /\ At(w, "respond")
  /\ secretOut' = [secretOut EXCEPT ![B(w)] = TRUE]
  /\ Return(w)
  /\ UNCHANGED <<rows, provider, faults>>
-----------------------------------------------------------------------------
(***************************************************************************)
(* The payment provider and the customer, as the runtime uses them.        *)
(***************************************************************************)
Pay(b) ==
  /\ secretOut[b]
  /\ captured[b] = 0
  /\ \E m \in CapturedAmounts :
       /\ captured' = [captured EXCEPT ![b] = m]
       /\ events' = events \cup
            {[kind |-> "succeeded", booking |-> b, id |-> 0, amount |-> m]}
  /\ UNCHANGED <<rows, secretOut, refunded, acked, call, faults>>

\* A declined attempt is reported, and the intent stays payable.
Decline(b) ==
  /\ DeclinesMayHappen
  /\ secretOut[b]
  /\ captured[b] = 0
  /\ events' = events \cup
       {[kind |-> "failed", booking |-> b, id |-> 0, amount |-> 0]}
  /\ UNCHANGED <<rows, secretOut, captured, refunded, acked, call, faults>>

\* A refund is named by the total it brings the intent to.  The charge event
\* reports that total, the refund event only the refund's own amount.
RefundEvents(b, m) ==
  LET total == refunded[b] + m
  IN  {[kind |-> "refund", booking |-> b, id |-> total,
        amount |-> IF f = "charge" THEN total ELSE m] : f \in RefundFeed}

Accepts(b, m) == refunded[b] + m <= captured[b]

GiveBack(b, m) ==
  /\ refunded' = [refunded EXCEPT ![b] = @ + m]
  /\ events' = events \cup RefundEvents(b, m)

MerchantRefund(b) ==
  /\ \E m \in MerchantRefunds : Accepts(b, m) /\ GiveBack(b, m)
  /\ UNCHANGED <<rows, secretOut, captured, acked, call, faults>>
-----------------------------------------------------------------------------
(***************************************************************************)
(* stripe-webhook                                                          *)
(***************************************************************************)
FirstStep(kind) ==
  CASE kind = "succeeded" -> "read_booking"
    [] kind = "failed"    -> "mark_failed"
    [] kind = "refund"    -> "record_refund"

\* A delivery, first or repeated, loads the payments row; an intent without
\* one, or whose row could not be read, is answered 200.
Deliver(w, e) ==
  /\ call[w] = Idle
  /\ \/ /\ (payment[e.booking] = "none" /\ NoFault) \/ ReadFails("lookup")
        /\ acked' = acked \cup {e} /\ UNCHANGED call
     \/ /\ payment[e.booking] # "none" /\ NoFault
        /\ call' = [call EXCEPT ![w] =
                [Idle EXCEPT !.step = FirstStep(e.kind),
                             !.booking = e.booking, !.event = e,
                             !.sawPayment = payment[e.booking]]]
        /\ UNCHANGED acked
  /\ UNCHANGED <<rows, secretOut, provider>>

\* payment_intent.succeeded: read the booking; a replay only marks the
\* payment, an intent already compensated is left alone.  A booking that could
\* not be read is in no state.
ReadBooking(w) ==
  /\ At(w, "read_booking")
  /\ \E saw \in BookingState \cup {None} :
       /\ \/ saw = booking[B(w)] /\ NoFault
          \/ saw = None /\ ReadFails("read_booking")
       /\ \/ /\ saw = "confirmed"
             /\ Goto(w, "replay") /\ UNCHANGED acked
          \/ /\ saw # "confirmed" /\ call[w].sawPayment = "refunded"
             /\ Ack(w)
          \/ /\ saw # "confirmed" /\ call[w].sawPayment # "refunded"
             /\ call' = [call EXCEPT ![w].step = "read_hold", ![w].sawBooking = saw]
             /\ UNCHANGED acked
  /\ UNCHANGED <<rows, secretOut, provider>>

MarkReplay(w) ==
  /\ At(w, "replay")
  /\ Unchecked("replay", payment' = [payment EXCEPT ![B(w)] = "succeeded"],
               UNCHANGED payment)
  /\ Ack(w)
  /\ UNCHANGED <<booking, linked, hold, ledger, secretOut, provider>>

\* The amount guard and the hold check: honour the payment or compensate, also
\* when the hold could not be read.
AmountOk(w) == call[w].event.amount = Amount
HoldHonoured(b) == hold[b] \in {"live", "consumed"}

ReadHold(w) ==
  LET b == B(w) IN
  /\ At(w, "read_hold")
  /\ \/ /\ call' = [call EXCEPT
             ![w].step = IF AmountOk(w) /\ HoldHonoured(b) THEN "honour"
                                                           ELSE "refund",
             ![w].sawLive = (hold[b] = "live")]
        /\ NoFault
     \/ /\ call' = [call EXCEPT ![w].step = "refund", ![w].sawLive = FALSE]
        /\ ReadFails("read_hold")
  /\ UNCHANGED <<rows, secretOut, provider, acked>>

HonourPayment(w) ==
  /\ At(w, "honour")
  /\ Goto(w, "undraft")
  /\ Unchecked("honour", payment' = [payment EXCEPT ![B(w)] = "succeeded"],
               UNCHANGED payment)
  /\ UNCHANGED <<booking, linked, hold, ledger, secretOut, provider, acked>>

Undraft(w) ==
  /\ At(w, "undraft")
  /\ Goto(w, "consume")
  /\ IF call[w].sawBooking = "draft"
     THEN Unchecked("undraft",
                    MoveBooking(B(w), {"draft"}, "pending_payment"),
                    UNCHANGED booking)
     ELSE UNCHANGED booking /\ NoFault
  /\ UNCHANGED <<linked, hold, payment, ledger, secretOut, provider, acked>>

\* The result of consume_hold is not looked at.
Consume(w) ==
  /\ At(w, "consume")
  /\ Goto(w, "link")
  /\ IF call[w].sawLive
     THEN Unchecked("consume", ConsumeHold(B(w)), UNCHANGED hold)
     ELSE UNCHANGED hold /\ NoFault
  /\ UNCHANGED <<booking, linked, payment, ledger, secretOut, provider, acked>>

LinkPayment(w) ==
  /\ At(w, "link")
  /\ Goto(w, "confirm")
  /\ Unchecked("link", linked' = [linked EXCEPT ![B(w)] = TRUE],
               UNCHANGED linked)
  /\ UNCHANGED <<booking, hold, payment, ledger, secretOut, provider, acked>>

Confirm(w) ==
  /\ At(w, "confirm")
  /\ Unchecked("confirm",
               MoveBooking(B(w), {"pending_payment"}, "confirmed"),
               UNCHANGED booking)
  /\ Ack(w)
  /\ UNCHANGED <<linked, hold, payment, ledger, secretOut, provider>>

\* Marks the payment refunded before it asks the provider.
Mutant_MarkThenRefund(w) ==
  LET b == B(w) IN
  /\ At(w, "refund")
  /\ payment' = [payment EXCEPT ![b] = "refunded"]
  /\ \/ /\ Accepts(b, Amount) /\ GiveBack(b, Amount)
        /\ call' = [call EXCEPT ![w].step = "log_refund",
                                ![w].refundId = refunded[b] + Amount]
        /\ UNCHANGED <<acked, faults>>
     \/ ~ Accepts(b, Amount) /\ Return(w) /\ UNCHANGED <<refunded, events, faults>>
     \/ Fault /\ Return(w) /\ UNCHANGED <<refunded, events>>
  /\ UNCHANGED <<booking, linked, hold, ledger, secretOut, captured>>

\* Compensation.  The provider rejects a refund beyond what was captured,
\* and the call then answers 500: the event is not acknowledged.
CompensateRefund(w) ==
  LET b == B(w) IN
  /\ At(w, "refund")
  /\ \/ /\ Accepts(b, Amount)
        /\ GiveBack(b, Amount)
        /\ call' = [call EXCEPT ![w].step = "log_refund",
                                ![w].refundId = refunded[b] + Amount]
        /\ UNCHANGED <<acked, faults>>
     \/ /\ ~ Accepts(b, Amount)
        /\ Return(w)
        /\ UNCHANGED <<refunded, events, faults>>
     \/ Fault /\ Return(w) /\ UNCHANGED <<refunded, events>>
  /\ UNCHANGED <<rows, secretOut, captured>>

\* Insert into refunds, on conflict of the refund id do nothing.
LedgerInsert(b, rid, m) ==
  ledger' = [ledger EXCEPT ![b] =
               IF \E r \in @ : r.id = rid THEN @
               ELSE @ \cup {[id |-> rid, amount |-> m]}]

LogCompensation(w) ==
  /\ At(w, "log_refund")
  /\ Goto(w, "mark_refunded")
  /\ Unchecked("log_refund", LedgerInsert(B(w), call[w].refundId, Amount),
               UNCHANGED ledger)
  /\ UNCHANGED <<booking, linked, hold, payment, secretOut, provider, acked>>

MarkRefunded(w) ==
  /\ At(w, "mark_refunded")
  /\ Goto(w, "return_slot")
  /\ Unchecked("mark_refunded",
               payment' = [payment EXCEPT ![B(w)] = "refunded"],
               UNCHANGED payment)
  /\ UNCHANGED <<booking, linked, hold, ledger, secretOut, provider, acked>>

ReturnSlot(w) ==
  /\ At(w, "return_slot")
  /\ Goto(w, "fail_refunded")
  /\ Unchecked("return_slot", ReleaseHold(B(w)), UNCHANGED hold)
  /\ UNCHANGED <<booking, linked, payment, ledger, secretOut, provider, acked>>

FailRefunded(w) ==
  /\ At(w, "fail_refunded")
  /\ Unchecked("fail_refunded",
               MoveBooking(B(w), {"draft", "pending_payment"}, "failed"),
               UNCHANGED booking)
  /\ Ack(w)
  /\ UNCHANGED <<linked, hold, payment, ledger, secretOut, provider>>

\* payment_intent.payment_failed and payment_intent.canceled
MarkFailed(w) ==
  /\ At(w, "mark_failed")
  /\ Goto(w, "drop_hold")
  /\ Unchecked("mark_failed",
               payment' = [payment EXCEPT ![B(w)] = "failed"],
               UNCHANGED payment)
  /\ UNCHANGED <<booking, linked, hold, ledger, secretOut, provider, acked>>

DropHold(w) ==
  /\ At(w, "drop_hold")
  /\ Goto(w, "fail_booking")
  /\ Unchecked("drop_hold", ReleaseHold(B(w)), UNCHANGED hold)
  /\ UNCHANGED <<booking, linked, payment, ledger, secretOut, provider, acked>>

FailBooking(w) ==
  /\ At(w, "fail_booking")
  /\ Unchecked("fail_booking",
               MoveBooking(B(w), {"draft", "pending_payment"}, "failed"),
               UNCHANGED booking)
  /\ Ack(w)
  /\ UNCHANGED <<linked, hold, payment, ledger, secretOut, provider>>

Mutant_AnyRefundIsFull(w) == call[w].event.amount > 0

\* charge.refunded, refund.created and refund.updated
FullyRefunded(w) == call[w].event.amount >= Amount

RecordRefund(w) ==
  /\ At(w, "record_refund")
  /\ Goto(w, "settle_payment")
  /\ Unchecked("record_refund",
               LedgerInsert(B(w), call[w].event.id, call[w].event.amount),
               UNCHANGED ledger)
  /\ UNCHANGED <<booking, linked, hold, payment, secretOut, provider, acked>>

SettlePayment(w) ==
  /\ At(w, "settle_payment")
  /\ Goto(w, "settle_booking")
  /\ Unchecked("settle_payment",
               payment' = [payment EXCEPT ![B(w)] =
                   IF FullyRefunded(w) THEN "refunded"
                                       ELSE "partially_refunded"],
               UNCHANGED payment)
  /\ UNCHANGED <<booking, linked, hold, ledger, secretOut, provider, acked>>

SettleBooking(w) ==
  /\ At(w, "settle_booking")
  /\ IF FullyRefunded(w)
     THEN Unchecked("settle_booking",
                    MoveBooking(B(w), {"confirmed", "completed", "cancelled"},
                                "refunded"),
                    UNCHANGED booking)
     ELSE UNCHANGED booking /\ NoFault
  /\ Ack(w)
  /\ UNCHANGED <<linked, hold, payment, ledger, secretOut, provider>>
-----------------------------------------------------------------------------
\* A function instance dies between two statements.
Die(w) ==
  /\ call[w] # Idle
  /\ Fault
  /\ Return(w)
  /\ UNCHANGED <<rows, secretOut, provider>>

\* A member of the tenant completes or cancels a confirmed booking.
MemberMove(b) ==
  /\ booking[b] = "confirmed"
  /\ \E s \in {"completed", "cancelled"} :
       booking' = [booking EXCEPT ![b] = s]
  /\ UNCHANGED <<linked, hold, payment, ledger, secretOut, provider, acked,
                 call, faults>>
-----------------------------------------------------------------------------
Init ==
  /\ booking = [b \in Bookings |-> "draft"]
  /\ linked = [b \in Bookings |-> FALSE]
  /\ hold = [b \in Bookings |-> "none"]
  /\ payment = [b \in Bookings |-> "none"]
  /\ ledger = [b \in Bookings |-> {}]
  /\ secretOut = [b \in Bookings |-> FALSE]
  /\ captured = [b \in Bookings |-> 0]
  /\ refunded = [b \in Bookings |-> 0]
  /\ events = {}
  /\ acked = {}
  /\ call = [w \in Workers |-> Idle]
  /\ faults = 0

CheckoutStep(w) ==
  \/ AssessSlot(w) \/ Reserve(w) \/ CreateIntent(w) \/ RecordPayment(w)
  \/ UndoHold(w) \/ AdvanceBooking(w) \/ Respond(w)

WebhookStep(w) ==
  \/ ReadBooking(w) \/ MarkReplay(w) \/ ReadHold(w)
  \/ HonourPayment(w) \/ Undraft(w) \/ Consume(w) \/ LinkPayment(w)
  \/ Confirm(w)
  \/ CompensateRefund(w) \/ LogCompensation(w) \/ MarkRefunded(w)
  \/ ReturnSlot(w) \/ FailRefunded(w)
  \/ MarkFailed(w) \/ DropHold(w) \/ FailBooking(w)
  \/ RecordRefund(w) \/ SettlePayment(w) \/ SettleBooking(w)

Next ==
  \/ \E w \in Workers :
       \/ \E b \in Bookings : OpenCheckout(w, b)
       \/ \E e \in events : Deliver(w, e)
       \/ CheckoutStep(w)
       \/ WebhookStep(w)
       \/ Die(w)
  \/ \E b \in Bookings :
       \/ HoldExpires(b) \/ Pay(b) \/ Decline(b) \/ MerchantRefund(b)
       \/ MemberMove(b)

Spec == Init /\ [][Next]_vars

\* Every call that does not die runs on, and the provider delivers an event
\* again until it is acknowledged.  Nobody must open a checkout or pay.
EventsOf(b, k, n) ==
  {e \in events \ acked : e.booking = b /\ e.kind = k /\ e.id = n}

FairSpec ==
  /\ Spec
  /\ \A w \in Workers : WF_vars(CheckoutStep(w) \/ WebhookStep(w))
  /\ \A b \in Bookings, k \in {"succeeded", "failed", "refund"},
        n \in 0 .. Amount :
       SF_vars(\E w \in Workers : \E e \in EventsOf(b, k, n) : Deliver(w, e))
  /\ \A b \in Bookings : WF_vars(HoldExpires(b))
-----------------------------------------------------------------------------
TypeOK ==
  /\ booking \in [Bookings -> BookingState]
  /\ linked \in [Bookings -> BOOLEAN]
  /\ hold \in [Bookings -> HoldState]
  /\ payment \in [Bookings -> PaymentState]
  /\ ledger \in [Bookings -> SUBSET [id : Nat, amount : Nat]]
  /\ secretOut \in [Bookings -> BOOLEAN]
  /\ captured \in [Bookings -> Nat]
  /\ refunded \in [Bookings -> Nat]
  /\ events \in SUBSET Event
  /\ acked \in SUBSET Event
  /\ call \in [Workers -> Call \cup {Idle}]
  /\ faults \in 0 .. MaxFaults

Moments == UNION {SlotOf[b] : b \in Bookings}

Serving(t) == {b \in Bookings : booking[b] \in {"confirmed", "completed"}
                                /\ t \in SlotOf[b]}

\* However calls, deliveries, expiries, deaths and lost statements interleave,
\* no moment is ever sold to more bookings than the slot has capacity
\* (reserve_capacity before the intent, the hold check before the confirm).
NoOversell == \A t \in Moments : Cardinality(Serving(t)) <= Capacity

\* Why NoOversell holds.  Nothing can be paid, and no webhook call can be
\* running, before a client secret was handed out, and none is handed out for
\* a booking that is still a draft.
OfferedBeforePaid ==
  /\ \A b \in Bookings : secretOut[b] => booking[b] # "draft"
  /\ \A b \in Bookings : captured[b] > 0 => secretOut[b]
  /\ \A b \in Bookings : hold[b] = "consumed" => booking[b] # "draft"
  /\ \A e \in events : secretOut[e.booking]
  /\ \A w \in Workers :
       /\ call[w].step \in WebhookSteps => secretOut[call[w].booking]
       /\ At(w, "respond") => booking[call[w].booking] # "draft"
       /\ call[w].step \in CheckoutSteps /\ call[w].sawBooking # "draft"
            => booking[call[w].booking] # "draft"

\* A call that has passed the hold check of stripe-webhook for b.
Honouring(w, b) == call[w].step \in HonourSteps /\ call[w].booking = b

\* A booking is entitled to its slot while it has a live hold, once it is
\* sold, and while it waits for a payment that was, or is being, honoured.
Entitled(b) ==
  \/ hold[b] = "live"
  \/ booking[b] \in {"confirmed", "completed"}
  \/ /\ booking[b] = "pending_payment"
     /\ hold[b] = "consumed" \/ \E w \in Workers : Honouring(w, b)

EntitledAt(t) == {b \in Bookings : Entitled(b) /\ t \in SlotOf[b]}

RoomForEntitled == \A t \in Moments : Cardinality(EntitledAt(t)) <= Capacity

\* What a call knows of its event is still true of the provider's money.
EventsAreTrue ==
  /\ \A e \in events :
       /\ e.kind = "succeeded" => captured[e.booking] = e.amount
                                  /\ e.amount > 0
       /\ e.kind = "refund" => e.amount <= refunded[e.booking]
  /\ \A w \in Workers :
       /\ call[w].step \in WebhookSteps =>
            call[w].event \in events /\ call[w].event.booking = call[w].booking
       /\ call[w].step \in {"read_booking", "read_hold"} \cup HonourSteps =>
            call[w].event.kind = "succeeded"
       /\ call[w].step \in HonourSteps => call[w].event.amount = Amount
       /\ call[w].step \in {"record_refund", "settle_payment",
                            "settle_booking"} =>
            call[w].event.kind = "refund"
       /\ call[w].step \in {"log_refund", "mark_refunded"} =>
            refunded[call[w].booking] >= Amount

Ledger == INSTANCE BookingLedger
            WITH state <- booking, paid <- captured, returned <- refunded

\* Every step of the runtime is a step the booking ledger allows: the legal
\* edges of the life cycle only, a sale only for the full price and with room
\* in the slot, the refunded state only when the whole price went back.
ImplementsLedger == Ledger!Spec
-----------------------------------------------------------------------------
Quiet(b) ==
  /\ \A e \in events : e.booking = b => e \in acked
  /\ \A w \in Workers : call[w].booking # b

\* When every event of a paid booking has been answered 200 and nothing runs
\* for it, the customer has the booking (or had it) or all the money back:
\* the webhook's promise of a deterministic refund.
MoneyOrService ==
  \A b \in Bookings :
    (Quiet(b) /\ captured[b] > 0) =>
      \/ booking[b] \in {"confirmed", "completed", "cancelled", "refunded"}
      \/ refunded[b] = captured[b]

\* And never both: when nothing is left to process, a booking whose money
\* went back entirely does not stay confirmed or completed.
NoFreeService ==
  \A b \in Bookings :
    (Quiet(b) /\ captured[b] > 0 /\ refunded[b] = captured[b]) =>
      booking[b] \notin {"confirmed", "completed"}

\* A payment is recorded as refunded only when the provider really returned
\* the whole price, whatever part refunds and replays came before.
RefundedMeansReturned ==
  \A b \in Bookings : payment[b] = "refunded" => refunded[b] >= Amount

\* A hold converted for a paid booking is never given up, expired or
\* reserved again, by a late failure event or by another checkout call.
ConsumedHoldIsKept ==
  [][\A b \in Bookings : hold[b] = "consumed" => hold'[b] = "consumed"]_vars

\* The refunds recorded for a booking never add up to more than went back.
LedgerTotal(b) == MapThenSumSet(LAMBDA r : r.amount, ledger[b])
LedgerNotOverstated == \A b \in Bookings : LedgerTotal(b) <= refunded[b]

\* Every webhook event is answered 200 in the end.
EventuallyAcked ==
  \A b \in Bookings, k \in {"succeeded", "failed", "refund"}, n \in 0 .. Amount :
    (\E e \in events : e.booking = b /\ e.kind = k /\ e.id = n)
      ~> EventsOf(b, k, n) = {}

\* A captured payment is resolved in the end: the booking is confirmed or the
\* money is returned.
PaidIsResolved ==
  \A b \in Bookings :
    captured[b] > 0 ~>
      \/ booking[b] \in {"confirmed", "completed", "cancelled", "refunded"}
      \/ refunded[b] = captured[b]

\* An abandoned checkout returns its slot: a booking whose hold lapsed before
\* any money was captured stops consuming capacity, or is taken up again.
AbandonedSlotReturns ==
  \A b \in Bookings :
    (hold[b] = "lapsed" /\ captured[b] = 0) ~>
      (~ Consumes(b) \/ hold[b] = "live" \/ captured[b] > 0)
=============================================================================
