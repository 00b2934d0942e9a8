------------------------ MODULE PaymentRuntime_proofs ------------------------
(***************************************************************************)
(* Proofs about PaymentRuntime, for every set of bookings and workers,     *)
(* every layout of slots and every capacity.                               *)
(***************************************************************************)
EXTENDS PaymentRuntime, FiniteSetTheorems, TLAPS

\* What every action is made of.
USE DEF At, B, Goto, Return, Ack, NoFault, Fault, Unchecked, ReadFails, rows, provider

-----------------------------------------------------------------------------
(***************************************************************************)
(* Types.                                                                  *)
(***************************************************************************)
RowsTyped ==
  /\ booking \in [Bookings -> BookingState]
  /\ linked \in [Bookings -> BOOLEAN]
  /\ hold \in [Bookings -> HoldState]
  /\ payment \in [Bookings -> PaymentState]
  /\ ledger \in [Bookings -> SUBSET [id : Nat, amount : Nat]]

ProviderTyped ==
  /\ secretOut \in [Bookings -> BOOLEAN]
  /\ captured \in [Bookings -> Nat]
  /\ refunded \in [Bookings -> Nat]
  /\ events \in SUBSET Event

CallsTyped ==
  /\ acked \in SUBSET Event
  /\ call \in [Workers -> Call \cup {Idle}]

FaultsTyped == faults \in 0 .. MaxFaults

\* The type invariant is the conjunction of its four parts.
LEMMA TypeParts ==
  TypeOK <=> RowsTyped /\ ProviderTyped /\ CallsTyped /\ FaultsTyped
BY DEF TypeOK, RowsTyped, ProviderTyped, CallsTyped, FaultsTyped

\* A statement that counts a fault stays within the bound.
LEMMA FaultCount ==
  ASSUME FaultsTyped, NoFault \/ Fault
  PROVE  FaultsTyped'
BY RuntimeAssumption DEF FaultsTyped

\* A running call is a record of Call for one of the bookings.
LEMMA Running ==
  ASSUME TypeOK, NEW w \in Workers,
         call[w].step \in CheckoutSteps \cup WebhookSteps
  PROVE  /\ call[w] \in Call
         /\ B(w) \in Bookings
         /\ call[w].step \in WebhookSteps /\ call[w].event # None
              => call[w].event \in Event
<1>1. Idle.step \notin CheckoutSteps \cup WebhookSteps
  BY DEF Idle, CheckoutSteps, WebhookSteps, HonourSteps, CompensateSteps
<1>2. call[w] \in Call
  BY <1>1 DEF TypeOK
<1> QED
  BY <1>2 DEF Call

\* Going on to the next statement keeps the call typed; so does returning.
LEMMA GotoType ==
  ASSUME CallsTyped, NEW w \in Workers, call[w] \in Call,
         NEW s \in CheckoutSteps \cup WebhookSteps, Goto(w, s)
  PROVE  call' \in [Workers -> Call \cup {Idle}]
<1>1. [call[w] EXCEPT !.step = s] \in Call
  BY DEF Call
<1> QED
  BY <1>1 DEF CallsTyped

\* A call that returns is idle, which is a typed call.
LEMMA ReturnType ==
  ASSUME CallsTyped, NEW w \in Workers, call' = [call EXCEPT ![w] = Idle]
  PROVE  call' \in [Workers -> Call \cup {Idle}]
BY DEF CallsTyped

\* A conditional update of bookings.state keeps the rows typed.
LEMMA MoveType ==
  ASSUME RowsTyped, NEW b \in Bookings, NEW from, NEW s \in BookingState,
         MoveBooking(b, from, s)
  PROVE  booking' \in [Bookings -> BookingState]
BY DEF RowsTyped, MoveBooking

\* reserve_capacity, consume_hold and release_hold keep the holds typed.
LEMMA HoldType ==
  ASSUME RowsTyped, NEW b \in Bookings,
         ReserveCapacity(b) \/ ConsumeHold(b) \/ ReleaseHold(b)
  PROVE  hold' \in [Bookings -> HoldState]
BY DEF RowsTyped, ReserveCapacity, ConsumeHold, ReleaseHold, HoldState

\* An insert into refunds keeps the ledger rows typed.
LEMMA InsertType ==
  ASSUME RowsTyped, NEW b \in Bookings, NEW i \in Nat, NEW m \in Nat,
         LedgerInsert(b, i, m)
  PROVE  ledger' \in [Bookings -> SUBSET [id : Nat, amount : Nat]]
BY DEF RowsTyped, LedgerInsert

\* The initial rows, money and calls are typed.
LEMMA InitType == Init => TypeOK
BY RuntimeAssumption DEF Init, TypeOK, BookingState, HoldState, PaymentState

\* Every statement of create-payment-intent keeps the types.
LEMMA CheckoutType ==
  ASSUME TypeOK, NEW w \in Workers, CheckoutStep(w)
  PROVE  TypeOK'
<1>1. call[w].step \in CheckoutSteps
  BY DEF CheckoutStep, AssessSlot, Reserve, CreateIntent, RecordPayment,
         UndoHold, AdvanceBooking, Respond, CheckoutSteps
<1>2. call[w] \in Call /\ B(w) \in Bookings
  BY <1>1, Running
<1>3. RowsTyped /\ ProviderTyped /\ CallsTyped /\ FaultsTyped
  BY TypeParts
<1>4. CallsTyped'
  <2>1. acked' = acked
    BY DEF CheckoutStep, AssessSlot, Reserve, CreateIntent, RecordPayment,
           UndoHold, AdvanceBooking, Respond
  <2>2. \/ \E s \in CheckoutSteps : Goto(w, s)
        \/ call' = [call EXCEPT ![w] = Idle]
    BY DEF CheckoutStep, AssessSlot, Reserve, CreateIntent, RecordPayment,
           UndoHold, AdvanceBooking, Respond, CheckoutSteps
  <2>3. call' \in [Workers -> Call \cup {Idle}]
    BY <1>2, <1>3, <2>2, GotoType, ReturnType
  <2> QED
    BY <1>3, <2>1, <2>3 DEF CallsTyped
<1>5. FaultsTyped'
  <2>1. NoFault \/ Fault
    BY DEF CheckoutStep, AssessSlot, Reserve, CreateIntent, RecordPayment,
           UndoHold, AdvanceBooking, Respond
  <2> QED
    BY <1>3, <2>1, FaultCount
<1>6. ProviderTyped'
  BY <1>2, <1>3
  DEF ProviderTyped, CheckoutStep, AssessSlot, Reserve, CreateIntent,
      RecordPayment, UndoHold, AdvanceBooking, Respond
<1>7. RowsTyped'
  <2>1. booking' \in [Bookings -> BookingState]
    <3>1. booking' = booking
            \/ MoveBooking(B(w), {"draft"}, "pending_payment")
      BY DEF CheckoutStep, AssessSlot, Reserve, CreateIntent, RecordPayment,
             UndoHold, AdvanceBooking, Respond
    <3> QED
      BY <1>2, <1>3, <3>1, MoveType DEF RowsTyped, BookingState
  <2>2. hold' \in [Bookings -> HoldState]
    <3>1. hold' = hold \/ ReserveCapacity(B(w)) \/ ReleaseHold(B(w))
      BY DEF CheckoutStep, AssessSlot, Reserve, CreateIntent, RecordPayment,
             UndoHold, AdvanceBooking, Respond
    <3> QED
      BY <1>2, <1>3, <3>1, HoldType DEF RowsTyped
  <2>3. payment' \in [Bookings -> PaymentState]
    <3>1. \/ payment' = payment
          \/ payment' = [payment EXCEPT ![B(w)] = "requires_payment"]
      BY DEF CheckoutStep, AssessSlot, Reserve, CreateIntent, RecordPayment,
             UndoHold, AdvanceBooking, Respond
    <3> QED
      BY <1>2, <1>3, <3>1 DEF RowsTyped, PaymentState
  <2>4. linked' = linked /\ ledger' = ledger
    BY DEF CheckoutStep, AssessSlot, Reserve, CreateIntent, RecordPayment,
           UndoHold, AdvanceBooking, Respond
  <2> QED
    BY <1>3, <2>1, <2>2, <2>3, <2>4 DEF RowsTyped
<1> QED
  BY <1>4, <1>5, <1>6, <1>7
  DEF TypeOK, RowsTyped, ProviderTyped, CallsTyped, FaultsTyped

\* A webhook call works on an event the provider sent.
EventKnown ==
  \A w \in Workers :
    call[w].step \in WebhookSteps => call[w].event \in events

\* A call that takes a webhook step is inside the webhook.
LEMMA WebhookRunning ==
  ASSUME NEW w \in Workers, WebhookStep(w)
  PROVE  call[w].step \in WebhookSteps
BY DEF WebhookStep, ReadBooking, MarkReplay, ReadHold, HonourPayment, Undraft,
       Consume, LinkPayment, Confirm, CompensateRefund, LogCompensation,
       MarkRefunded, ReturnSlot, FailRefunded, MarkFailed, DropHold,
       FailBooking, RecordRefund, SettlePayment, SettleBooking, WebhookSteps, HonourSteps, CompensateSteps

\* Where a webhook call can go next: back to idle, or on to another
\* statement of the webhook for the same booking and event.
LEMMA WebhookControl ==
  ASSUME NEW w \in Workers, WebhookStep(w)
  PROVE  \/ \E s \in WebhookSteps : Goto(w, s)
         \/ call' = [call EXCEPT ![w] = Idle]
         \/ ReadBooking(w)
         \/ ReadHold(w)
         \/ CompensateRefund(w)
BY DEF WebhookStep, ReadBooking, MarkReplay, ReadHold, HonourPayment, Undraft,
       Consume, LinkPayment, Confirm, CompensateRefund, LogCompensation,
       MarkRefunded, ReturnSlot, FailRefunded, MarkFailed, DropHold,
       FailBooking, RecordRefund, SettlePayment, SettleBooking, WebhookSteps, HonourSteps, CompensateSteps

\* Which rows a webhook statement may write, and how.
LEMMA WebhookRows ==
  ASSUME NEW w \in Workers, WebhookStep(w)
  PROVE  /\ \/ booking' = booking
            \/ Undraft(w) /\ MoveBooking(B(w), {"draft"}, "pending_payment")
            \/ Confirm(w) /\ MoveBooking(B(w), {"pending_payment"}, "confirmed")
            \/ MoveBooking(B(w), {"draft", "pending_payment"}, "failed")
            \/ /\ SettleBooking(w) /\ FullyRefunded(w)
               /\ MoveBooking(B(w), {"confirmed", "completed", "cancelled"},
                              "refunded")
         /\ \/ hold' = hold
            \/ Consume(w) /\ ConsumeHold(B(w))
            \/ ReleaseHold(B(w))
         /\ \/ linked' = linked
            \/ linked' = [linked EXCEPT ![B(w)] = TRUE]
         /\ \/ payment' = payment
            \/ payment' = [payment EXCEPT ![B(w)] = "succeeded"]
            \/ payment' = [payment EXCEPT ![B(w)] = "failed"]
            \/ /\ MarkRefunded(w)
               /\ payment' = [payment EXCEPT ![B(w)] = "refunded"]
            \/ /\ SettlePayment(w)
               /\ payment' = [payment EXCEPT ![B(w)] =
                     IF FullyRefunded(w) THEN "refunded"
                                         ELSE "partially_refunded"]
         /\ \/ ledger' = ledger
            \/ LedgerInsert(B(w), call[w].refundId, Amount)
            \/ /\ RecordRefund(w)
               /\ LedgerInsert(B(w), call[w].event.id, call[w].event.amount)
         /\ UNCHANGED <<secretOut, captured>>
         /\ \/ UNCHANGED <<refunded, events>>
            \/ /\ CompensateRefund(w)
               /\ Accepts(B(w), Amount) /\ GiveBack(B(w), Amount)
         /\ NoFault \/ Fault
         /\ acked' = acked \/ acked' = acked \cup {call[w].event}
<1>1. CASE ReadBooking(w) \/ MarkReplay(w) \/ ReadHold(w)
  BY <1>1 DEF ReadBooking, MarkReplay, ReadHold
<1>2. CASE HonourPayment(w) \/ Undraft(w) \/ Consume(w) \/ LinkPayment(w)
  BY <1>2 DEF HonourPayment, Undraft, Consume, LinkPayment
<1>3. CASE Confirm(w) \/ FailRefunded(w) \/ FailBooking(w)
  BY <1>3 DEF Confirm, FailRefunded, FailBooking
<1>4. CASE CompensateRefund(w)
  BY <1>4 DEF CompensateRefund
<1>5. CASE LogCompensation(w) \/ MarkRefunded(w) \/ ReturnSlot(w)
  BY <1>5 DEF LogCompensation, MarkRefunded, ReturnSlot
<1>6. CASE MarkFailed(w) \/ DropHold(w)
  BY <1>6 DEF MarkFailed, DropHold
<1>7. CASE RecordRefund(w) \/ SettlePayment(w) \/ SettleBooking(w)
  BY <1>7 DEF RecordRefund, SettlePayment, SettleBooking
<1> QED
  BY <1>1, <1>2, <1>3, <1>4, <1>5, <1>6, <1>7 DEF WebhookStep

\* A refund keeps the provider's money and events typed.
LEMMA GiveBackType ==
  ASSUME ProviderTyped, NEW b \in Bookings, NEW m \in Nat, GiveBack(b, m)
  PROVE  /\ refunded' \in [Bookings -> Nat]
         /\ events' \in SUBSET Event
<1>1. RefundEvents(b, m) \subseteq Event
  BY DEF RefundEvents, Event, ProviderTyped
<1> QED
  BY <1>1 DEF GiveBack, ProviderTyped

\* Every statement of stripe-webhook keeps the types.
LEMMA WebhookType ==
  ASSUME TypeOK, EventKnown, NEW w \in Workers, WebhookStep(w)
  PROVE  TypeOK'
<1>1. /\ call[w] \in Call /\ B(w) \in Bookings
      /\ call[w].event \in Event /\ call[w].event \in events
  BY WebhookRunning, Running DEF EventKnown, TypeOK
<1>2. RowsTyped /\ ProviderTyped /\ CallsTyped /\ FaultsTyped
  BY TypeParts
<1>3. RowsTyped'
  <2>1. booking' \in [Bookings -> BookingState]
    BY <1>1, <1>2, WebhookRows, MoveType DEF RowsTyped, BookingState
  <2>2. hold' \in [Bookings -> HoldState]
    BY <1>1, <1>2, WebhookRows, HoldType DEF RowsTyped
  <2>3. payment' \in [Bookings -> PaymentState]
    <3> DEFINE p == payment'[B(w)]
    <3>1. \/ payment' = payment
          \/ \E q \in PaymentState : payment' = [payment EXCEPT ![B(w)] = q]
      BY WebhookRows DEF PaymentState
    <3> QED
      BY <1>1, <1>2, <3>1 DEF RowsTyped
  <2>4. linked' \in [Bookings -> BOOLEAN]
    BY <1>1, <1>2, WebhookRows DEF RowsTyped
  <2>5. ledger' \in [Bookings -> SUBSET [id : Nat, amount : Nat]]
    <3>1. /\ call[w].refundId \in Nat
          /\ call[w].event.id \in Nat /\ call[w].event.amount \in Nat
      BY <1>1 DEF Call, Event
    <3> QED
      BY <1>1, <1>2, <3>1, WebhookRows, InsertType, RuntimeAssumption
      DEF RowsTyped
  <2> QED
    BY <2>1, <2>2, <2>3, <2>4, <2>5 DEF RowsTyped
<1>4. ProviderTyped'
  BY <1>1, <1>2, WebhookRows, GiveBackType, RuntimeAssumption
  DEF ProviderTyped
<1>5. CallsTyped'
  <2>1. acked' \in SUBSET Event
    BY <1>1, <1>2, WebhookRows DEF CallsTyped
  <2>2. CASE \/ \E s \in WebhookSteps : Goto(w, s)
             \/ call' = [call EXCEPT ![w] = Idle]
    BY <1>1, <1>2, <2>1, <2>2, GotoType, ReturnType DEF CallsTyped
  <2>3. CASE ReadBooking(w)
    <3>1. PICK saw \in BookingState \cup {None} :
            \/ Goto(w, "replay")
            \/ call' = [call EXCEPT ![w] = Idle]
            \/ call' = [call EXCEPT ![w].step = "read_hold", ![w].sawBooking = saw]
      BY <2>3 DEF ReadBooking
    <3>2. [call[w] EXCEPT !.step = "read_hold", !.sawBooking = saw] \in Call
      BY <1>1 DEF Call, WebhookSteps
    <3> QED
      BY <1>1, <1>2, <2>1, <3>1, <3>2, GotoType, ReturnType
      DEF CallsTyped, WebhookSteps
  <2>4. CASE ReadHold(w)
    <3>1. ASSUME NEW s \in {"honour", "refund"}, NEW live \in BOOLEAN
          PROVE  [call[w] EXCEPT !.step = s, !.sawLive = live] \in Call
      BY <1>1 DEF Call, WebhookSteps, HonourSteps, CompensateSteps
    <3>2. \E s \in {"honour", "refund"}, live \in BOOLEAN :
            call' = [call EXCEPT ![w].step = s, ![w].sawLive = live]
      BY <2>4 DEF ReadHold
    <3> QED
      BY <1>1, <1>2, <2>1, <3>1, <3>2 DEF CallsTyped
  <2>5. CASE CompensateRefund(w)
    <3>1. refunded[B(w)] + Amount \in Nat
      BY <1>1, <1>2, RuntimeAssumption DEF ProviderTyped
    <3>2. [call[w] EXCEPT !.step = "log_refund",
                          !.refundId = refunded[B(w)] + Amount] \in Call
      BY <1>1, <3>1 DEF Call, WebhookSteps, CompensateSteps
    <3>3. \/ call' = [call EXCEPT ![w] = Idle]
          \/ call' = [call EXCEPT ![w].step = "log_refund",
                                  ![w].refundId = refunded[B(w)] + Amount]
      BY <2>5 DEF CompensateRefund
    <3> QED
      BY <1>1, <1>2, <2>1, <3>2, <3>3, ReturnType DEF CallsTyped
  <2> QED
    BY <2>2, <2>3, <2>4, <2>5, WebhookControl
<1>6. FaultsTyped'
  BY <1>2, WebhookRows, FaultCount
<1> QED
  BY <1>3, <1>4, <1>5, <1>6
  DEF TypeOK, RowsTyped, ProviderTyped, CallsTyped, FaultsTyped

\* Whatever a worker does keeps the types.
LEMMA WorkerType ==
  ASSUME TypeOK, NEW w \in Workers,
         \/ \E b \in Bookings : OpenCheckout(w, b)
         \/ \E e \in events : Deliver(w, e)
         \/ Die(w)
  PROVE  TypeOK'
<1>1. RowsTyped /\ ProviderTyped /\ CallsTyped /\ FaultsTyped
  BY TypeParts
<1>2. ASSUME NEW b \in Bookings, OpenCheckout(w, b) PROVE TypeOK'
  <2>1. [Idle EXCEPT !.step = "assess", !.booking = b,
                     !.sawBooking = booking[b]] \in Call
    BY <1>1 DEF Idle, Call, CheckoutSteps, RowsTyped
  <2> QED
    BY <1>1, <1>2, <2>1
    DEF OpenCheckout, TypeOK, RowsTyped, ProviderTyped, CallsTyped, FaultsTyped
<1>3. ASSUME NEW e \in events, Deliver(w, e) PROVE TypeOK'
  <2>1. e \in Event
    BY <1>1 DEF ProviderTyped
  <2>2. [Idle EXCEPT !.step = FirstStep(e.kind), !.booking = e.booking,
                     !.event = e, !.sawPayment = payment[e.booking]] \in Call
    <3>1. FirstStep(e.kind) \in WebhookSteps
      BY <2>1 DEF Event, FirstStep, WebhookSteps
    <3> QED
      BY <1>1, <2>1, <3>1 DEF Idle, Call, RowsTyped, Event
  <2>3. CallsTyped'
    BY <1>1, <1>3, <2>1, <2>2 DEF Deliver, CallsTyped
  <2>4. FaultsTyped'
    <3>1. NoFault \/ Fault
      BY <1>3 DEF Deliver
    <3> QED
      BY <1>1, <3>1, RuntimeAssumption DEF FaultsTyped
  <2>5. UNCHANGED <<booking, linked, hold, payment, ledger, secretOut,
                    captured, refunded, events>>
    BY <1>3 DEF Deliver
  <2>6. RowsTyped' /\ ProviderTyped'
    BY <1>1, <2>5 DEF RowsTyped, ProviderTyped
  <2> QED
    BY <2>3, <2>4, <2>6, TypeParts DEF TypeOK, RowsTyped, ProviderTyped, CallsTyped, FaultsTyped
<1>4. CASE Die(w)
  BY <1>1, <1>4, FaultCount, ReturnType
  DEF Die, TypeOK, RowsTyped, ProviderTyped, CallsTyped, FaultsTyped
<1> QED
  BY <1>2, <1>3, <1>4

\* Whatever the clock, the customer, the provider or a member does to a
\* booking keeps the types.
LEMMA BookingType ==
  ASSUME TypeOK, NEW b \in Bookings,
         \/ HoldExpires(b) \/ Pay(b) \/ Decline(b) \/ MerchantRefund(b)
         \/ MemberMove(b)
  PROVE  TypeOK'
<1>1. RowsTyped /\ ProviderTyped /\ CallsTyped /\ FaultsTyped
  BY TypeParts
<1>5. CASE HoldExpires(b)
  BY <1>1, <1>5
  DEF HoldExpires, HoldState, TypeOK, RowsTyped, ProviderTyped, CallsTyped,
      FaultsTyped
<1>6. CASE Pay(b)
  <2>1. PICK m \in CapturedAmounts :
          /\ captured' = [captured EXCEPT ![b] = m]
          /\ events' = events \cup
               {[kind |-> "succeeded", booking |-> b, id |-> 0, amount |-> m]}
    BY <1>6 DEF Pay
  <2>2. m \in Nat
    BY RuntimeAssumption
  <2>3. ProviderTyped'
    BY <1>1, <1>6, <2>1, <2>2 DEF Pay, ProviderTyped, Event
  <2> QED
    BY <1>1, <1>6, <2>3
    DEF Pay, TypeOK, RowsTyped, ProviderTyped, CallsTyped, FaultsTyped
<1>7. CASE Decline(b)
  <2>1. ProviderTyped'
    BY <1>1, <1>7 DEF Decline, ProviderTyped, Event
  <2> QED
    BY <1>1, <1>7, <2>1
    DEF Decline, TypeOK, RowsTyped, ProviderTyped, CallsTyped, FaultsTyped
<1>8. CASE MerchantRefund(b)
  <2>1. ProviderTyped'
    BY <1>1, <1>8, RuntimeAssumption, GiveBackType
    DEF MerchantRefund, ProviderTyped
  <2> QED
    BY <1>1, <1>8, <2>1
    DEF MerchantRefund, TypeOK, RowsTyped, ProviderTyped, CallsTyped,
        FaultsTyped
<1>9. CASE MemberMove(b)
  BY <1>1, <1>9
  DEF MemberMove, BookingState, TypeOK, RowsTyped, ProviderTyped, CallsTyped,
      FaultsTyped
<1> QED
  BY <1>5, <1>6, <1>7, <1>8, <1>9

\* A stuttering step keeps the types.
LEMMA StutterType == ASSUME TypeOK, UNCHANGED vars PROVE TypeOK'
BY DEF TypeOK, vars

\* The type invariant is preserved by every step.
LEMMA NextType == ASSUME TypeOK, EventKnown, [Next]_vars PROVE TypeOK'
BY CheckoutType, WebhookType, WorkerType, BookingType, StutterType DEF Next

-----------------------------------------------------------------------------
(***************************************************************************)
(* What each kind of step may change.                                      *)
(***************************************************************************)
\* What a statement of the checkout call may do to bookings and holds.
LEMMA CheckoutRows ==
  ASSUME NEW w \in Workers, CheckoutStep(w)
  PROVE  /\ call[w].step \in CheckoutSteps
         /\ \/ booking' = booking
            \/ /\ AdvanceBooking(w) /\ call[w].sawBooking = "draft"
               /\ MoveBooking(B(w), {"draft"}, "pending_payment")
         /\ \/ hold' = hold
            \/ Reserve(w) /\ ReserveCapacity(B(w))
            \/ ReleaseHold(B(w))
         /\ \/ payment' = payment
            \/ payment' = [payment EXCEPT ![B(w)] = "requires_payment"]
         /\ \/ secretOut' = secretOut
            \/ Respond(w) /\ secretOut' = [secretOut EXCEPT ![B(w)] = TRUE]
         /\ UNCHANGED <<linked, ledger, captured, refunded, events, acked>>
         /\ \/ call' = [call EXCEPT ![w] = Idle]
            \/ AdvanceBooking(w) /\ Goto(w, "respond")
            \/ \E s \in CheckoutSteps \ {"respond"} : Goto(w, s)
<1>1. CASE AssessSlot(w) \/ Reserve(w) \/ CreateIntent(w)
  BY <1>1 DEF AssessSlot, Reserve, CreateIntent, CheckoutSteps
<1>2. CASE RecordPayment(w) \/ UndoHold(w)
  BY <1>2 DEF RecordPayment, UndoHold, CheckoutSteps
<1>3. CASE AdvanceBooking(w) \/ Respond(w)
  BY <1>3 DEF AdvanceBooking, Respond, CheckoutSteps
<1> QED
  BY <1>1, <1>2, <1>3 DEF CheckoutStep

\* How a checkout statement moves its call.
LEMMA CheckoutMoves ==
  ASSUME NEW w \in Workers, CheckoutStep(w), TypeOK
  PROVE  /\ \A v \in Workers \ {w} : call'[v] = call[v]
         /\ \/ call'[w] = Idle
            \/ /\ call'[w].step \in CheckoutSteps
               /\ call'[w].step = "respond" => AdvanceBooking(w)
               /\ call'[w].booking = call[w].booking
               /\ call'[w].sawBooking = call[w].sawBooking
         /\ call'[w].step \notin WebhookSteps
<1>1. call[w] \in Call /\ Idle.step \notin WebhookSteps
  BY CheckoutRows, Running
  DEF Idle, WebhookSteps, HonourSteps, CompensateSteps
<1>2. CASE call' = [call EXCEPT ![w] = Idle]
  BY <1>1, <1>2 DEF TypeOK
<1>3. ASSUME NEW s \in CheckoutSteps, Goto(w, s), s = "respond" => AdvanceBooking(w)
      PROVE  /\ \A v \in Workers \ {w} : call'[v] = call[v]
             /\ call'[w].step = s
             /\ call'[w].booking = call[w].booking
             /\ call'[w].sawBooking = call[w].sawBooking
  BY <1>1, <1>3 DEF Call, TypeOK
<1>4. CheckoutSteps \cap WebhookSteps = {}
  BY DEF CheckoutSteps, WebhookSteps, HonourSteps, CompensateSteps
<1>5. ASSUME NEW s \in CheckoutSteps, Goto(w, s), s # "respond"
      PROVE  /\ \A v \in Workers \ {w} : call'[v] = call[v]
             /\ call'[w].step = s
             /\ call'[w].booking = call[w].booking
             /\ call'[w].sawBooking = call[w].sawBooking
  BY <1>3, <1>5
<1>6. "respond" \in CheckoutSteps
  BY DEF CheckoutSteps
<1> QED
  BY <1>2, <1>3, <1>4, <1>5, <1>6, CheckoutRows

\* How a webhook statement moves its call.
LEMMA WebhookMoves ==
  ASSUME NEW w \in Workers, WebhookStep(w), TypeOK
  PROVE  /\ \A v \in Workers \ {w} : call'[v] = call[v]
         /\ \/ call'[w] = Idle
            \/ /\ call'[w].step \in WebhookSteps
               /\ call'[w].booking = call[w].booking
               /\ call'[w].event = call[w].event
               /\ call'[w].step \in HonourSteps =>
                    \/ call[w].step \in HonourSteps
                    \/ /\ ReadHold(w) /\ AmountOk(w)
                       /\ HoldHonoured(B(w))
               /\ call'[w].step = "read_hold" => call[w].step = "read_booking"
               /\ call'[w].step # "read_booking"
               /\ call'[w].step \in {"settle_payment", "settle_booking"} =>
                    call[w].step \in {"record_refund", "settle_payment"}
               /\ call'[w].step # "record_refund"
               /\ call'[w].step = "log_refund" =>
                    CompensateRefund(w) /\ GiveBack(B(w), Amount)
               /\ call'[w].step = "mark_refunded" => call[w].step = "log_refund"
<1>1. call[w].step \in WebhookSteps /\ call[w] \in Call
  BY WebhookRunning, Running
<1> USE <1>1 DEF Call, TypeOK, WebhookSteps, HonourSteps, CompensateSteps
<1>2. CASE ReadBooking(w) \/ MarkReplay(w)
  BY <1>2 DEF ReadBooking, MarkReplay
<1>3. CASE ReadHold(w)
  BY <1>3 DEF ReadHold
<1>4. CASE HonourPayment(w) \/ Undraft(w) \/ Consume(w) \/ LinkPayment(w)
  BY <1>4 DEF HonourPayment, Undraft, Consume, LinkPayment
<1>5. CASE Confirm(w) \/ FailRefunded(w) \/ FailBooking(w) \/ SettleBooking(w)
  BY <1>5 DEF Confirm, FailRefunded, FailBooking, SettleBooking
<1>6. CASE CompensateRefund(w)
  BY <1>6 DEF CompensateRefund
<1>7. CASE LogCompensation(w) \/ MarkRefunded(w) \/ ReturnSlot(w)
  BY <1>7 DEF LogCompensation, MarkRefunded, ReturnSlot
<1>8. CASE MarkFailed(w) \/ DropHold(w) \/ RecordRefund(w) \/ SettlePayment(w)
  BY <1>8 DEF MarkFailed, DropHold, RecordRefund, SettlePayment
<1> QED
  BY <1>2, <1>3, <1>4, <1>5, <1>6, <1>7, <1>8 DEF WebhookStep

-----------------------------------------------------------------------------
(***************************************************************************)
(* What calls know of their events stays true.                             *)
(***************************************************************************)
\* An event the runtime remembers is one the provider made.
LEMMA EventsKnown == EventsAreTrue => EventKnown
BY DEF EventsAreTrue, EventKnown

\* There is no event at the start.
LEMMA InitEvents == Init => EventsAreTrue
BY DEF Init, EventsAreTrue, Idle, WebhookSteps, HonourSteps, CompensateSteps

\* After a refund, old and new events are true of the provider's money.
LEMMA EventsOnGiveBack ==
  ASSUME TypeOK, EventsAreTrue, NEW b \in Bookings, NEW m \in Nat \ {0},
         GiveBack(b, m), UNCHANGED captured,
         NEW e \in events'
  PROVE  /\ e.kind = "succeeded" => captured'[e.booking] = e.amount
                                    /\ e.amount > 0
         /\ e.kind = "refund" => e.amount <= refunded'[e.booking]
<1>1. \A c \in Bookings : /\ refunded[c] \in Nat /\ refunded'[c] \in Nat
                            /\ refunded'[c] >= refunded[c]
  BY DEF TypeOK, GiveBack
<1>2. CASE e \in events
  <2>1. e.booking \in Bookings /\ e.amount \in Nat
    BY <1>2 DEF TypeOK, Event
  <2>2. /\ e.kind = "succeeded" => captured[e.booking] = e.amount /\ e.amount > 0
        /\ e.kind = "refund" => e.amount <= refunded[e.booking]
    BY <1>2 DEF EventsAreTrue
  <2> QED
    BY <1>1, <2>1, <2>2
<1>3. CASE e \in RefundEvents(b, m)
  <2>1. e.kind = "refund" /\ e.booking = b /\ e.amount \in {refunded[b] + m, m}
    BY <1>3 DEF RefundEvents
  <2>2. refunded'[b] = refunded[b] + m
    BY DEF GiveBack, TypeOK
  <2> QED
    BY <1>1, <2>1, <2>2
<1> QED
  BY <1>2, <1>3 DEF GiveBack

\* What events and calls say of the money stays true: money captured is
\* captured once, and what went back only grows.
LEMMA EventsNext ==
  ASSUME TypeOK, EventsAreTrue, [Next]_vars
  PROVE  EventsAreTrue'
<1> DEFINE Fine(e, cap, ref) ==
             /\ e.kind = "succeeded" => cap[e.booking] = e.amount
                                        /\ e.amount > 0
             /\ e.kind = "refund" => e.amount <= ref[e.booking]
           Calls == \A w \in Workers :
             /\ call[w].step \in WebhookSteps =>
                  /\ call[w].event \in events
                  /\ call[w].event.booking = call[w].booking
             /\ call[w].step \in {"read_booking", "read_hold"} \cup HonourSteps
                  => call[w].event.kind = "succeeded"
             /\ call[w].step \in HonourSteps => call[w].event.amount = Amount
             /\ call[w].step \in {"record_refund", "settle_payment",
                                  "settle_booking"} =>
                  call[w].event.kind = "refund"
             /\ call[w].step \in {"log_refund", "mark_refunded"} =>
                  refunded[call[w].booking] >= Amount
<1>1. (\A e \in events : Fine(e, captured, refunded)) /\ Calls
  BY DEF EventsAreTrue
<1>2. TypeOK'
  BY EventsKnown, NextType
<1>3. ASSUME UNCHANGED <<captured, refunded, events>>
      PROVE  \A e \in events' : Fine(e, captured', refunded')
  BY <1>1, <1>3
<1>4. ASSUME events \subseteq events', UNCHANGED call,
             \A b \in Bookings : refunded'[b] >= refunded[b]
      PROVE  Calls'
  <2>1. ASSUME NEW w \in Workers,
               call[w].step \in {"log_refund", "mark_refunded"}
        PROVE  refunded'[call[w].booking] >= Amount
    <3>1. call[w].booking \in Bookings
      BY <2>1, Running DEF WebhookSteps, CompensateSteps
    <3>2. refunded[call[w].booking] >= Amount
      BY <1>1, <2>1
    <3> QED
      BY <1>2, <1>4, <3>1, <3>2, RuntimeAssumption DEF TypeOK
  <2>2. events \subseteq events' /\ call' = call
    BY <1>4
  <2>3. \A w \in Workers : call[w].step \in WebhookSteps
                              => call[w].event \in events'
    BY <1>1, <2>2
  <2> QED
    BY <1>1, <2>1, <2>2, <2>3
<1>5. ASSUME NEW w \in Workers, CheckoutStep(w)
      PROVE  EventsAreTrue'
  <2>1. /\ UNCHANGED <<captured, refunded, events>>
        /\ call'[w].step \notin WebhookSteps
        /\ \A v \in Workers \ {w} : call'[v] = call[v]
    BY <1>5, CheckoutRows, CheckoutMoves
  <2>2. Calls'
    BY <1>1, <2>1 DEF WebhookSteps, HonourSteps, CompensateSteps
  <2> QED
    BY <1>3, <2>1, <2>2 DEF EventsAreTrue
<1>6. ASSUME NEW w \in Workers, WebhookStep(w)
      PROVE  EventsAreTrue'
  <2>1. call[w].step \in WebhookSteps /\ B(w) \in Bookings
    BY <1>6, WebhookRunning, Running
  <2>2. \A e \in events' : Fine(e, captured', refunded')
    BY <1>3, <1>6, <2>1, WebhookRows, EventsOnGiveBack, RuntimeAssumption
  <2>3. events \subseteq events' /\ \A b \in Bookings :
          refunded[b] \in Nat /\ refunded'[b] \in Nat /\ refunded'[b] >= refunded[b]
    BY <1>6, <2>1, WebhookRows, RuntimeAssumption DEF GiveBack, TypeOK
  <2>4. ASSUME NEW v \in Workers,
               call'[v].step \in {"log_refund", "mark_refunded"}
        PROVE  refunded'[call'[v].booking] >= Amount
    <3>2. CASE v # w
      <4>1. call'[v] = call[v]
        BY <1>6, <3>2, WebhookMoves
      <4>2. call[v].booking \in Bookings /\ refunded[call[v].booking] >= Amount
        BY <1>1, <2>4, <4>1, Running DEF WebhookSteps, CompensateSteps
      <4> QED
        BY <2>3, <4>1, <4>2, RuntimeAssumption
    <3>3. CASE v = w
      <4>1. call'[w] # Idle
        BY <2>4, <3>3 DEF Idle
      <4>2. call'[w].booking = B(w)
        BY <1>6, <4>1, WebhookMoves
      <4>3. CASE GiveBack(B(w), Amount)
        BY <2>1, <2>3, <3>3, <4>2, <4>3, RuntimeAssumption DEF GiveBack, TypeOK
      <4>4. CASE call[w].step = "log_refund"
        <5>1. refunded[B(w)] >= Amount
          BY <1>1, <4>4
        <5> QED
          BY <2>1, <2>3, <3>3, <4>2, <5>1, RuntimeAssumption
      <4> QED
        BY <1>6, <2>4, <3>3, <4>1, <4>3, <4>4, WebhookMoves
    <3> QED
      BY <3>2, <3>3
  <2>5. ASSUME NEW v \in Workers
        PROVE  /\ call'[v].step \in WebhookSteps =>
                    /\ call'[v].event \in events'
                    /\ call'[v].event.booking = call'[v].booking
               /\ call'[v].step \in {"read_booking", "read_hold"} \cup HonourSteps
                    => call'[v].event.kind = "succeeded"
               /\ call'[v].step \in HonourSteps => call'[v].event.amount = Amount
               /\ call'[v].step \in {"record_refund", "settle_payment",
                                     "settle_booking"} =>
                    call'[v].event.kind = "refund"
    <3>1. CASE v # w
      BY <1>1, <1>6, <2>3, <3>1, WebhookMoves
    <3>2. CASE v = w /\ call'[w] = Idle
      BY <3>2 DEF Idle, WebhookSteps, HonourSteps, CompensateSteps
    <3>3. CASE v = w /\ call'[w] # Idle
      <4>1. call'[w].event = call[w].event /\ call'[w].booking = call[w].booking
        BY <1>6, <3>3, WebhookMoves
      <4>2. /\ call[w].event \in events /\ call[w].event.booking = call[w].booking
        BY <1>1, <2>1
      <4>3. ReadHold(w) => call[w].step = "read_hold"
        BY DEF ReadHold
      <4>4. call'[w].step \in {"read_booking", "read_hold"} \cup HonourSteps
              => call[w].event.kind = "succeeded"
        BY <1>1, <1>6, <3>3, <4>3, WebhookMoves
      <4>5. call'[w].step \in HonourSteps => call[w].event.amount = Amount
        BY <1>1, <1>6, <3>3, WebhookMoves DEF AmountOk
      <4>6. call'[w].step \in {"record_refund", "settle_payment",
                               "settle_booking"} => call[w].event.kind = "refund"
        BY <1>1, <1>6, <3>3, WebhookMoves
      <4> QED
        BY <2>3, <3>3, <4>1, <4>2, <4>4, <4>5, <4>6
    <3> QED
      BY <3>1, <3>2, <3>3
  <2> QED
    BY <2>2, <2>4, <2>5 DEF EventsAreTrue
<1>7. ASSUME NEW w \in Workers, NEW b \in Bookings, OpenCheckout(w, b)
      PROVE  EventsAreTrue'
  <2>1. /\ UNCHANGED <<captured, refunded, events>>
        /\ call'[w].step \notin WebhookSteps
        /\ \A v \in Workers \ {w} : call'[v] = call[v]
    BY <1>7
    DEF OpenCheckout, TypeOK, Idle, WebhookSteps, HonourSteps, CompensateSteps
  <2>2. Calls'
    BY <1>1, <2>1 DEF WebhookSteps, HonourSteps, CompensateSteps
  <2> QED
    BY <1>3, <2>1, <2>2 DEF EventsAreTrue
<1>8. ASSUME NEW w \in Workers, NEW e \in events, Deliver(w, e)
      PROVE  EventsAreTrue'
  <2>1. e \in Event
    BY DEF TypeOK
  <2>2. UNCHANGED <<captured, refunded, events>>
    BY <1>8 DEF Deliver
  <2>3. CASE UNCHANGED call
    BY <1>3, <1>4, <2>2, <2>3, <1>1, <1>2 DEF EventsAreTrue, TypeOK
  <2>4. CASE call' = [call EXCEPT ![w] =
                [Idle EXCEPT !.step = FirstStep(e.kind),
                             !.booking = e.booking, !.event = e,
                             !.sawPayment = payment[e.booking]]]
    <3>1. /\ call'[w].event = e /\ call'[w].booking = e.booking
          /\ call'[w].step = FirstStep(e.kind)
          /\ \A v \in Workers \ {w} : call'[v] = call[v]
      BY <2>4 DEF TypeOK, Idle
    <3>2. /\ FirstStep(e.kind) \notin HonourSteps \cup {"read_hold",
               "settle_payment", "settle_booking", "log_refund", "mark_refunded"}
          /\ FirstStep(e.kind) = "read_booking" => e.kind = "succeeded"
          /\ FirstStep(e.kind) = "record_refund" => e.kind = "refund"
      BY <2>1 DEF Event, FirstStep, HonourSteps
    <3>3. Calls'
      BY <1>1, <2>2, <3>1, <3>2
    <3> QED
      BY <1>3, <2>2, <3>3 DEF EventsAreTrue
  <2> QED
    BY <1>8, <2>3, <2>4 DEF Deliver
<1>9. ASSUME NEW w \in Workers, Die(w)
      PROVE  EventsAreTrue'
  <2>1. /\ UNCHANGED <<captured, refunded, events>>
        /\ call'[w].step \notin WebhookSteps
        /\ \A v \in Workers \ {w} : call'[v] = call[v]
    BY <1>9 DEF Die, TypeOK, Idle, WebhookSteps, HonourSteps, CompensateSteps
  <2>2. Calls'
    BY <1>1, <2>1 DEF WebhookSteps, HonourSteps, CompensateSteps
  <2> QED
    BY <1>3, <2>1, <2>2 DEF EventsAreTrue
<1>10. ASSUME NEW b \in Bookings, Pay(b)
       PROVE  EventsAreTrue'
  <2>1. PICK m \in CapturedAmounts :
          /\ captured' = [captured EXCEPT ![b] = m]
          /\ events' = events \cup
               {[kind |-> "succeeded", booking |-> b, id |-> 0, amount |-> m]}
    BY <1>10 DEF Pay
  <2>2. captured[b] = 0 /\ UNCHANGED <<refunded, call>> /\ m > 0
    BY <1>10, RuntimeAssumption DEF Pay
  <2>3. ASSUME NEW e \in events' PROVE Fine(e, captured', refunded')
    <3>1. CASE e \in events
      <4>1. e \in Event
        BY <3>1 DEF TypeOK
      <4>2. e.kind = "succeeded" => e.booking # b
        BY <1>1, <2>2, <3>1
      <4> QED
        BY <1>1, <2>1, <2>2, <3>1, <4>1, <4>2 DEF TypeOK, Event
    <3>2. CASE e = [kind |-> "succeeded", booking |-> b, id |-> 0, amount |-> m]
      BY <2>1, <2>2, <3>2 DEF TypeOK
    <3> QED
      BY <2>1, <3>1, <3>2
  <2>4. Calls'
    BY <1>2, <1>4, <2>1, <2>2 DEF TypeOK
  <2> QED
    BY <2>3, <2>4 DEF EventsAreTrue
<1>11. ASSUME NEW b \in Bookings, Decline(b)
       PROVE  EventsAreTrue'
  <2>1. /\ UNCHANGED <<captured, refunded, call>>
        /\ events' = events \cup
             {[kind |-> "failed", booking |-> b, id |-> 0, amount |-> 0]}
    BY <1>11 DEF Decline
  <2>2. \A e \in events' : Fine(e, captured', refunded')
    BY <1>1, <2>1
  <2>3. Calls'
    BY <1>2, <1>4, <2>1 DEF TypeOK
  <2> QED
    BY <2>2, <2>3 DEF EventsAreTrue
<1>12. ASSUME NEW b \in Bookings, MerchantRefund(b)
       PROVE  EventsAreTrue'
  <2>1. PICK m \in MerchantRefunds : Accepts(b, m) /\ GiveBack(b, m)
    BY <1>12 DEF MerchantRefund
  <2>2. UNCHANGED <<captured, call>> /\ m \in Nat \ {0}
    BY <1>12, RuntimeAssumption DEF MerchantRefund
  <2>3. \A e \in events' : Fine(e, captured', refunded')
    BY <2>1, <2>2, EventsOnGiveBack
  <2>4. Calls'
    BY <1>4, <2>1, <2>2 DEF GiveBack, TypeOK
  <2> QED
    BY <2>3, <2>4 DEF EventsAreTrue
<1>13. ASSUME NEW b \in Bookings,
              \/ HoldExpires(b) \/ MemberMove(b) \/ UNCHANGED vars
       PROVE  EventsAreTrue'
  BY <1>1, <1>13 DEF HoldExpires, MemberMove, vars, EventsAreTrue
<1>14. CASE UNCHANGED vars
  BY <1>1, <1>14 DEF vars, EventsAreTrue
<1> QED
  BY <1>5, <1>6, <1>7, <1>8, <1>9, <1>10, <1>11, <1>12, <1>13, <1>14 DEF Next

-----------------------------------------------------------------------------
\* Types, and the truth of events, hold in every reachable state, whatever
\* statements are lost.
THEOREM TypesAndEvents == Spec => [](TypeOK /\ EventsAreTrue)
<1>1. Init => TypeOK /\ EventsAreTrue
  BY InitType, InitEvents
<1>2. TypeOK /\ EventsAreTrue /\ [Next]_vars => (TypeOK /\ EventsAreTrue)'
  BY NextType, EventsNext, EventsKnown
<1> QED
  BY <1>1, <1>2, PTL DEF Spec

-----------------------------------------------------------------------------
(***************************************************************************)
(* Nothing is paid before it was offered.  Here the advance from draft to  *)
(* pending_payment must not be lost: see run lost_advance.                 *)
(***************************************************************************)
\* No step takes a booking back to draft.
LEMMA NeverDraftAgain ==
  ASSUME TypeOK, EventsAreTrue, [Next]_vars,
         NEW b \in Bookings, booking[b] # "draft"
  PROVE  booking'[b] # "draft"
<1>1. ASSUME NEW c \in Bookings, NEW from, NEW s \in BookingState \ {"draft"},
             MoveBooking(c, from, s)
      PROVE  booking'[b] # "draft"
  BY <1>1 DEF MoveBooking, TypeOK
<1>2. ASSUME NEW w \in Workers, CheckoutStep(w) PROVE booking'[b] # "draft"
  <2>1. B(w) \in Bookings
    BY <1>2, CheckoutRows, Running
  <2> QED
    BY <1>1, <1>2, <2>1, CheckoutRows DEF BookingState
<1>3. ASSUME NEW w \in Workers, WebhookStep(w) PROVE booking'[b] # "draft"
  <2>1. B(w) \in Bookings
    BY <1>3, WebhookRunning, Running
  <2> QED
    BY <1>1, <1>3, <2>1, WebhookRows DEF BookingState
<1>4. ASSUME NEW c \in Bookings, MemberMove(c) PROVE booking'[b] # "draft"
  BY <1>4 DEF MemberMove, TypeOK
<1>5. ASSUME UNCHANGED booking PROVE booking'[b] # "draft"
  BY <1>5
<1> QED
  BY <1>2, <1>3, <1>4, <1>5
  DEF Next, OpenCheckout, Deliver, Die, HoldExpires, Pay, Decline,
      MerchantRefund, vars

\* Nothing is offered at the start.
LEMMA InitOffered == Init => OfferedBeforePaid
BY DEF Init, OfferedBeforePaid, Idle, WebhookSteps, HonourSteps,
       CompensateSteps, CheckoutSteps

\* Every step keeps OfferedBeforePaid, if the advance is not lost.
LEMMA OfferedNext ==
  ASSUME "advance" \notin Lossy, TypeOK, EventsAreTrue, OfferedBeforePaid,
         [Next]_vars
  PROVE  OfferedBeforePaid'
<1> DEFINE Out == \A b \in Bookings : secretOut[b] => booking[b] # "draft"
           Cap == \A b \in Bookings : captured[b] > 0 => secretOut[b]
           Con == \A b \in Bookings : hold[b] = "consumed" => booking[b] # "draft"
           Evs == \A e \in events : secretOut[e.booking]
           Calls(v) == /\ call[v].step \in WebhookSteps => secretOut[call[v].booking]
                       /\ At(v, "respond") => booking[call[v].booking] # "draft"
                       /\ call[v].step \in CheckoutSteps /\ call[v].sawBooking # "draft"
                            => booking[call[v].booking] # "draft"
<1>1. Out /\ Cap /\ Con /\ Evs /\ \A v \in Workers : Calls(v)
  BY DEF OfferedBeforePaid
<1>2. \A b \in Bookings : booking[b] # "draft" => booking'[b] # "draft"
  BY NeverDraftAgain
\* A call that does not move keeps what it knows.
<1>3. ASSUME NEW v \in Workers, call'[v] = call[v],
             \A b \in Bookings : secretOut[b] => secretOut'[b]
      PROVE  Calls(v)'
  <2>1. call[v].step \in CheckoutSteps \cup WebhookSteps
          => call[v].booking \in Bookings
    BY Running
  <2>2. "respond" \in CheckoutSteps
    BY DEF CheckoutSteps
  <2> QED
    BY <1>1, <1>2, <1>3, <2>1, <2>2
<1>4. ASSUME NEW w \in Workers, CheckoutStep(w)
      PROVE  OfferedBeforePaid'
  <2>1. B(w) \in Bookings /\ call[w].step \in CheckoutSteps
    BY <1>4, CheckoutRows, Running
  <2>2. /\ \A b \in Bookings : secretOut[b] => secretOut'[b]
        /\ \A b \in Bookings : secretOut'[b] /\ ~ secretOut[b] =>
             b = B(w) /\ booking[b] # "draft"
    BY <1>1, <1>4, <2>1, CheckoutRows DEF Respond, TypeOK
  <2>3. Out' /\ Cap' /\ Evs'
    BY <1>1, <1>2, <1>4, <2>2, CheckoutRows DEF TypeOK, Event
  <2>4. \A b \in Bookings : hold'[b] = "consumed" => hold[b] = "consumed"
    BY <1>4, <2>1, CheckoutRows DEF ReserveCapacity, ReleaseHold, TypeOK
  <2>5. Con'
    BY <1>1, <1>2, <2>4
  <2>6. Calls(w)'
    <3>1. CASE call'[w] = Idle
      BY <3>1 DEF Idle, CheckoutSteps, WebhookSteps, HonourSteps, CompensateSteps
    <3>2. CASE call'[w] # Idle
      <4>1. /\ call'[w].step \notin WebhookSteps
            /\ call'[w].step = "respond" => AdvanceBooking(w)
            /\ call'[w].booking = call[w].booking
            /\ call'[w].sawBooking = call[w].sawBooking
        BY <1>4, <3>2, CheckoutMoves
      <4>2. call[w].sawBooking # "draft" => booking'[B(w)] # "draft"
        BY <1>1, <1>2, <2>1
      <4>3. AdvanceBooking(w) => booking'[B(w)] # "draft"
        BY <2>1, <4>2 DEF AdvanceBooking, MoveBooking, TypeOK
      <4> QED
        BY <4>1, <4>2, <4>3
    <3> QED
      BY <3>1, <3>2
  <2>7. \A v \in Workers : Calls(v)'
    BY <1>3, <1>4, <2>2, <2>6, CheckoutMoves
  <2> QED
    BY <2>3, <2>5, <2>7 DEF OfferedBeforePaid
<1>5. ASSUME NEW w \in Workers, WebhookStep(w)
      PROVE  OfferedBeforePaid'
  <2>1. B(w) \in Bookings /\ call[w].step \in WebhookSteps /\ secretOut[B(w)]
    BY <1>1, <1>5, WebhookRunning, Running
  <2>2. UNCHANGED <<secretOut, captured>>
    BY <1>5, WebhookRows
  <2>3. Out' /\ Cap'
    BY <1>1, <1>2, <2>2
  <2>4. \A b \in Bookings : hold'[b] = "consumed" =>
           hold[b] = "consumed" \/ b = B(w)
    BY <1>5, <2>1, WebhookRows DEF ConsumeHold, ReleaseHold, TypeOK
  <2>5. Con'
    BY <1>1, <1>2, <2>1, <2>4
  <2>6. \A e \in events' : e \in events \/ e.booking = B(w)
    BY <1>5, WebhookRows DEF GiveBack, RefundEvents
  <2>7. Evs'
    BY <1>1, <2>1, <2>2, <2>6
  <2>8. Calls(w)'
    <3>1. CASE call'[w] = Idle
      BY <3>1 DEF Idle, CheckoutSteps, WebhookSteps, HonourSteps, CompensateSteps
    <3>2. CASE call'[w] # Idle
      <4>1. /\ call'[w].step \in WebhookSteps
            /\ call'[w].booking = call[w].booking
        BY <1>5, <3>2, WebhookMoves
      <4>2. call'[w].step \notin CheckoutSteps /\ "respond" \in CheckoutSteps
        BY <4>1 DEF CheckoutSteps, WebhookSteps, HonourSteps, CompensateSteps
      <4> QED
        BY <2>1, <2>2, <4>1, <4>2
    <3> QED
      BY <3>1, <3>2
  <2>9. \A v \in Workers : Calls(v)'
    BY <1>3, <1>5, <2>2, <2>8, WebhookMoves
  <2> QED
    BY <2>3, <2>5, <2>7, <2>9 DEF OfferedBeforePaid
<1>6. ASSUME NEW w \in Workers,
             \/ \E b \in Bookings : OpenCheckout(w, b)
             \/ \E e \in events : Deliver(w, e)
             \/ Die(w)
      PROVE  OfferedBeforePaid'
  <2>1. UNCHANGED <<rows, secretOut, provider>>
    BY <1>6 DEF OpenCheckout, Deliver, Die
  <2>2. \A v \in Workers \ {w} : call'[v] = call[v]
    BY <1>6 DEF OpenCheckout, Deliver, Die, TypeOK
  <2>3. Calls(w)'
    <3>1. ASSUME NEW b \in Bookings, OpenCheckout(w, b) PROVE Calls(w)'
      <4>1. /\ call'[w].step = "assess" /\ call'[w].booking = b
            /\ call'[w].sawBooking = booking[b]
        BY <3>1 DEF OpenCheckout, Idle, TypeOK
      <4>2. "assess" \notin WebhookSteps
        BY DEF WebhookSteps, HonourSteps, CompensateSteps
      <4> QED
        BY <2>1, <4>1, <4>2
    <3>2. ASSUME NEW e \in events, Deliver(w, e) PROVE Calls(w)'
      <4>1. e \in Event
        BY DEF TypeOK
      <4>2. CASE UNCHANGED call
        BY <1>3, <2>1, <4>2
      <4>3. CASE /\ call'[w].step = FirstStep(e.kind)
                 /\ call'[w].booking = e.booking
        <5>1. FirstStep(e.kind) \notin CheckoutSteps /\ "respond" \in CheckoutSteps
          BY <4>1 DEF Event, FirstStep, CheckoutSteps
        <5> QED
          BY <1>1, <2>1, <4>3, <5>1
      <4> QED
        BY <3>2, <4>2, <4>3 DEF Deliver, Idle, TypeOK
    <3>3. CASE Die(w)
      BY <3>3 DEF Die, Idle, TypeOK, CheckoutSteps, WebhookSteps, HonourSteps,
                  CompensateSteps
    <3> QED
      BY <1>6, <3>1, <3>2, <3>3
  <2>4. \A v \in Workers : Calls(v)'
    BY <1>3, <2>1, <2>2, <2>3
  <2> QED
    BY <1>1, <2>1, <2>4 DEF OfferedBeforePaid
<1>7. ASSUME NEW b \in Bookings,
             \/ HoldExpires(b) \/ Pay(b) \/ Decline(b) \/ MerchantRefund(b)
             \/ MemberMove(b)
      PROVE  OfferedBeforePaid'
  <2>1. UNCHANGED <<secretOut, call>>
    BY <1>7 DEF HoldExpires, Pay, Decline, MerchantRefund, MemberMove
  <2>2. \A v \in Workers : Calls(v)'
    BY <1>3, <2>1
  <2>3. \A c \in Bookings : hold'[c] = "consumed" => hold[c] = "consumed"
    BY <1>7 DEF HoldExpires, Pay, Decline, MerchantRefund, MemberMove, TypeOK
  <2>4. \A c \in Bookings : captured'[c] > 0 => captured[c] > 0 \/ secretOut[c]
    BY <1>7 DEF HoldExpires, Pay, Decline, MerchantRefund, MemberMove, TypeOK
  <2>5. ASSUME MerchantRefund(b) PROVE secretOut[b]
    <3>1. PICK m \in MerchantRefunds : refunded[b] + m <= captured[b]
      BY <2>5 DEF MerchantRefund, Accepts
    <3>2. m \in Nat \ {0} /\ refunded[b] \in Nat /\ captured[b] \in Nat
      BY RuntimeAssumption DEF TypeOK
    <3> QED
      BY <1>1, <3>1, <3>2
  <2>6. \A e \in events' : e \in events \/ (e.booking = b /\ secretOut[b])
    BY <1>7, <2>5
    DEF HoldExpires, Pay, Decline, MerchantRefund, MemberMove, GiveBack,
        RefundEvents
  <2> QED
    BY <1>1, <1>2, <2>1, <2>2, <2>3, <2>4, <2>6 DEF OfferedBeforePaid
<1>8. CASE UNCHANGED vars
  BY <1>1, <1>8 DEF vars, OfferedBeforePaid
<1> QED
  BY <1>4, <1>5, <1>6, <1>7, <1>8 DEF Next

-----------------------------------------------------------------------------
(***************************************************************************)
(* No step but a grant of reserve_capacity entitles a booking to its slot, *)
(* and the grant counted every booking that was entitled.                  *)
(***************************************************************************)
GrantTo(b) ==
  \E w \in Workers : /\ Reserve(w) /\ B(w) = b
                      /\ HasCapacity(b)
                      /\ hold' = [hold EXCEPT ![b] = "live"]

\* A call starts to honour a booking only by the hold check of the webhook.
LEMMA HonouringStep ==
  ASSUME TypeOK, [Next]_vars,
         NEW v \in Workers, NEW b \in Bookings, Honouring(v, b)'
  PROVE  \/ Honouring(v, b)
         \/ /\ WebhookStep(v) /\ B(v) = b
            /\ UNCHANGED <<booking, hold>> /\ HoldHonoured(b)
<1>1. ASSUME call'[v] = call[v] PROVE Honouring(v, b)
  BY <1>1 DEF Honouring
<1>2. call'[v] # Idle /\ call'[v].step \in HonourSteps /\ call'[v].booking = b
  BY DEF Honouring, Idle, HonourSteps
<1>3. ASSUME NEW w \in Workers, CheckoutStep(w) PROVE Honouring(v, b)
  <2>1. CASE v = w
    BY <1>2, <1>3, <2>1, CheckoutMoves DEF WebhookSteps
  <2>2. CASE v # w
    BY <1>1, <1>3, <2>2, CheckoutMoves
  <2> QED
    BY <2>1, <2>2
<1>4. ASSUME NEW w \in Workers, WebhookStep(w), w # v PROVE Honouring(v, b)
  BY <1>1, <1>4, WebhookMoves
<1>5. ASSUME WebhookStep(v), ~ Honouring(v, b)
      PROVE  B(v) = b /\ UNCHANGED <<booking, hold>> /\ HoldHonoured(b)
  <2>1. B(v) = b /\ ReadHold(v) /\ HoldHonoured(B(v))
    BY <1>2, <1>5, WebhookMoves DEF Honouring
  <2> QED
    BY <2>1 DEF ReadHold
<1>6. ASSUME NEW w \in Workers,
             \/ \E c \in Bookings : OpenCheckout(w, c)
             \/ \E e \in events : Deliver(w, e)
             \/ Die(w)
      PROVE  Honouring(v, b)
  <2>1. CASE v # w
    BY <1>1, <1>6, <2>1 DEF OpenCheckout, Deliver, Die, TypeOK
  <2>2. CASE v = w
    <3>1. ASSUME NEW e \in events, Deliver(w, e) PROVE Honouring(v, b)
      <4>1. e \in Event
        BY DEF TypeOK
      <4> DEFINE begun == [Idle EXCEPT !.step = FirstStep(e.kind),
                                       !.booking = e.booking, !.event = e,
                                       !.sawPayment = payment[e.booking]]
      <4>2. UNCHANGED call \/ call' = [call EXCEPT ![w] = begun]
        BY <3>1 DEF Deliver
      <4>3. call' # [call EXCEPT ![w] = begun]
        <5>1. begun.step = FirstStep(e.kind)
          BY DEF Idle
        <5>2. FirstStep(e.kind) \notin HonourSteps
          BY <4>1 DEF Event, FirstStep, HonourSteps
        <5> QED
          BY <1>2, <2>2, <5>1, <5>2 DEF TypeOK
      <4> QED
        BY <1>1, <4>2, <4>3
    <3>2. ASSUME NEW c \in Bookings, OpenCheckout(w, c) PROVE Honouring(v, b)
      <4>1. call'[w].step = "assess"
        BY <3>2 DEF OpenCheckout, Idle, TypeOK
      <4> QED
        BY <1>2, <2>2, <4>1 DEF HonourSteps
    <3>3. ASSUME Die(w) PROVE Honouring(v, b)
      BY <1>2, <2>2, <3>3 DEF Die, Return, TypeOK
    <3> QED
      BY <1>6, <3>1, <3>2, <3>3
  <2> QED
    BY <2>1, <2>2
<1>7. ASSUME UNCHANGED call PROVE Honouring(v, b)
  BY <1>1, <1>7
<1> QED
  BY <1>3, <1>4, <1>5, <1>6, <1>7
  DEF Next, HoldExpires, Pay, Decline, MerchantRefund, MemberMove, vars

\* A hold becomes live only by a grant, and consumed only when it was live.
LEMMA HoldSteps ==
  ASSUME TypeOK, [Next]_vars, NEW b \in Bookings
  PROVE  /\ hold'[b] = "live" => hold[b] = "live" \/ GrantTo(b)
         /\ hold'[b] = "consumed" => hold[b] \in {"live", "consumed"}
<1>1. ASSUME NEW w \in Workers, CheckoutStep(w)
      PROVE  /\ hold'[b] = "live" => hold[b] = "live" \/ GrantTo(b)
             /\ hold'[b] = "consumed" => hold[b] \in {"live", "consumed"}
  <2>1. B(w) \in Bookings
    BY <1>1, CheckoutRows, Running
  <2>2. CASE hold' = hold \/ ReleaseHold(B(w))
    BY <2>1, <2>2 DEF ReleaseHold, TypeOK
  <2>3. CASE Reserve(w) /\ ReserveCapacity(B(w)) /\ hold' # hold
    BY <2>1, <2>3 DEF ReserveCapacity, GrantTo, TypeOK
  <2> QED
    BY <1>1, <2>2, <2>3, CheckoutRows
<1>2. ASSUME NEW w \in Workers, WebhookStep(w)
      PROVE  /\ hold'[b] = "live" => hold[b] = "live"
             /\ hold'[b] = "consumed" => hold[b] \in {"live", "consumed"}
  <2>1. B(w) \in Bookings
    BY <1>2, WebhookRunning, Running
  <2> QED
    BY <1>2, <2>1, WebhookRows DEF ConsumeHold, ReleaseHold, TypeOK
<1>3. ASSUME NEW c \in Bookings, HoldExpires(c)
      PROVE  /\ hold'[b] = "live" => hold[b] = "live"
             /\ hold'[b] = "consumed" => hold[b] \in {"live", "consumed"}
  BY <1>3 DEF HoldExpires, TypeOK
<1>4. ASSUME UNCHANGED hold
      PROVE  /\ hold'[b] = "live" => hold[b] = "live"
             /\ hold'[b] = "consumed" => hold[b] \in {"live", "consumed"}
  BY <1>4
<1> QED
  BY <1>1, <1>2, <1>3, <1>4
  DEF Next, OpenCheckout, Deliver, Die, Pay, Decline, MerchantRefund,
      MemberMove, vars

\* How a booking comes to wait for payment, to be confirmed, or completed.
LEMMA BookingSteps ==
  ASSUME TypeOK, EventsAreTrue, OfferedBeforePaid, [Next]_vars,
         NEW b \in Bookings
  PROVE  /\ booking'[b] = "pending_payment" /\ booking[b] # "pending_payment" =>
              /\ booking[b] = "draft" /\ ~ secretOut[b]
              /\ \E w \in Workers : CheckoutStep(w) /\ AdvanceBooking(w) /\ B(w) = b
         /\ booking'[b] = "confirmed" /\ booking[b] # "confirmed" =>
              /\ booking[b] = "pending_payment"
              /\ \E w \in Workers : Confirm(w) /\ B(w) = b
         /\ booking'[b] = "completed" /\ booking[b] # "completed" =>
              booking[b] = "confirmed"
<1> DEFINE P == booking'[b] = "pending_payment" /\ booking[b] # "pending_payment"
           C == booking'[b] = "confirmed" /\ booking[b] # "confirmed"
           D == booking'[b] = "completed" /\ booking[b] # "completed"
<1>1. ASSUME NEW w \in Workers, CheckoutStep(w)
      PROVE  /\ P => /\ booking[b] = "draft" /\ ~ secretOut[b]
                     /\ AdvanceBooking(w) /\ B(w) = b
             /\ ~ C /\ ~ D
  <2>1. B(w) \in Bookings
    BY <1>1, CheckoutRows, Running
  <2> QED
    BY <1>1, <2>1, CheckoutRows DEF MoveBooking, TypeOK, OfferedBeforePaid
<1>2. ASSUME NEW w \in Workers, WebhookStep(w)
      PROVE  /\ C => booking[b] = "pending_payment" /\ Confirm(w) /\ B(w) = b
             /\ ~ P /\ ~ D
  <2>1. B(w) \in Bookings /\ booking[B(w)] # "draft"
    BY <1>2, WebhookRunning, Running DEF OfferedBeforePaid
  <2> QED
    BY <1>2, <2>1, WebhookRows DEF MoveBooking, TypeOK
<1>3. ASSUME NEW c \in Bookings, MemberMove(c)
      PROVE  ~ P /\ ~ C /\ (D => booking[b] = "confirmed")
  BY <1>3 DEF MemberMove, TypeOK
<1>4. ASSUME UNCHANGED booking PROVE ~ P /\ ~ C /\ ~ D
  BY <1>4
<1> QED
  BY <1>1, <1>2, <1>3, <1>4
  DEF Next, OpenCheckout, Deliver, Die, HoldExpires, Pay, Decline,
      MerchantRefund, vars

\* A booking becomes entitled to its slot only by a grant.
LEMMA EntitledOnlyByGrant ==
  ASSUME TypeOK, EventsAreTrue, OfferedBeforePaid, [Next]_vars,
         NEW b \in Bookings, Entitled(b)'
  PROVE  Entitled(b) \/ GrantTo(b)
<1>1. CASE hold'[b] = "live"
  BY <1>1, HoldSteps DEF Entitled
<1>2. CASE booking'[b] \in {"confirmed", "completed"}
  BY <1>2, BookingSteps DEF Entitled, Honouring, Confirm, HonourSteps
<1>3. CASE booking'[b] = "pending_payment" /\ hold'[b] = "consumed"
  <2>1. hold[b] \in {"live", "consumed"}
    BY <1>3, HoldSteps
  <2>2. CASE booking[b] = "pending_payment"
    BY <2>1, <2>2 DEF Entitled
  <2>3. CASE booking[b] # "pending_payment"
    BY <1>3, <2>1, <2>3, BookingSteps DEF Entitled, OfferedBeforePaid
  <2> QED
    BY <2>2, <2>3
<1>4. ASSUME NEW v \in Workers, Honouring(v, b)', booking'[b] = "pending_payment"
      PROVE  Entitled(b)
  <2>1. CASE booking[b] = "pending_payment"
    BY <1>4, <2>1, HonouringStep DEF Entitled, HoldHonoured
  <2>2. CASE booking[b] # "pending_payment"
    <3>1. booking[b] = "draft" /\ ~ secretOut[b]
      BY <1>4, <2>2, BookingSteps
    <3>2. Honouring(v, b)
      BY <1>4, <2>2, HonouringStep
    <3> QED
      BY <3>1, <3>2 DEF Honouring, OfferedBeforePaid, WebhookSteps
  <2> QED
    BY <2>1, <2>2
<1> QED
  BY <1>1, <1>2, <1>3, <1>4 DEF Entitled

\* The grant to b was made with every other entitled booking counted.
LEMMA GrantCountsEntitled ==
  ASSUME NEW b \in Bookings, NEW t \in SlotOf[b]
  PROVE  EntitledAt(t) \ {b} \subseteq ConsumersAgainst(b)
BY DEF EntitledAt, Entitled, ConsumersAgainst, Consumes, Overlap

\* After a grant to b its slot is not over its capacity.
LEMMA FewEntitled ==
  ASSUME NEW b \in Bookings, NEW t \in SlotOf[b], HasCapacity(b)
  PROVE  Cardinality((EntitledAt(t) \ {b}) \cup {b}) <= Capacity
<1> DEFINE Others == EntitledAt(t) \ {b}
<1>1. IsFiniteSet(ConsumersAgainst(b))
  BY FS_Subset, RuntimeAssumption DEF ConsumersAgainst
<1>2. IsFiniteSet(Others) /\ Cardinality(Others) <= Cardinality(ConsumersAgainst(b))
  BY <1>1, GrantCountsEntitled, FS_Subset
<1>3. Cardinality(Others) \in Nat /\ Cardinality(ConsumersAgainst(b)) \in Nat
  BY <1>1, <1>2, FS_CardinalityType
<1>4. Cardinality(Others \cup {b}) = Cardinality(Others) + 1
  BY <1>2, FS_AddElement
<1> HIDE DEF Others
<1>5. Cardinality(Others) < Capacity
  BY <1>2, <1>3, RuntimeAssumption DEF HasCapacity
<1> QED
  BY <1>3, <1>4, <1>5, RuntimeAssumption DEF Others

\* At the start no booking is entitled to anything.
LEMMA InitRoom == Init => RoomForEntitled
<1> SUFFICES ASSUME Init, NEW t \in Moments
             PROVE  Cardinality(EntitledAt(t)) <= Capacity
  BY DEF RoomForEntitled
<1>1. EntitledAt(t) = {}
  BY DEF Init, EntitledAt, Entitled, Idle
<1> QED
  BY <1>1, FS_EmptySet, RuntimeAssumption

\* Every step keeps room for the entitled bookings.
LEMMA RoomNext ==
  ASSUME TypeOK, EventsAreTrue, OfferedBeforePaid, RoomForEntitled,
         [Next]_vars
  PROVE  RoomForEntitled'
<1> SUFFICES ASSUME NEW t \in Moments
             PROVE  Cardinality(EntitledAt(t)') <= Capacity
  BY DEF RoomForEntitled, Moments
<1>1. Cardinality(EntitledAt(t)) <= Capacity /\ IsFiniteSet(EntitledAt(t))
  BY FS_Subset, RuntimeAssumption DEF RoomForEntitled, EntitledAt
<1>2. EntitledAt(t)' = {b \in Bookings : Entitled(b)' /\ t \in SlotOf[b]}
  BY DEF EntitledAt
<1>3. CASE EntitledAt(t)' \subseteq EntitledAt(t)
  <2>1. Cardinality(EntitledAt(t)') <= Cardinality(EntitledAt(t))
    BY <1>1, <1>3, FS_Subset
  <2>2. Cardinality(EntitledAt(t)') \in Nat /\ Cardinality(EntitledAt(t)) \in Nat
    BY <1>1, <1>3, FS_Subset, FS_CardinalityType
  <2> QED
    BY <1>1, <2>1, <2>2, RuntimeAssumption
<1>4. ASSUME NEW b \in EntitledAt(t)', b \notin EntitledAt(t)
      PROVE  Cardinality(EntitledAt(t)') <= Capacity
  <2>1. b \in Bookings /\ t \in SlotOf[b] /\ Entitled(b)' /\ ~ Entitled(b)
    BY <1>2, <1>4 DEF EntitledAt
  <2>2. GrantTo(b)
    BY <2>1, EntitledOnlyByGrant
  <2>3. ASSUME NEW c \in Bookings \ {b}, Entitled(c)' PROVE Entitled(c)
    <3>1. CASE GrantTo(c)
      <4>1. hold'[c] = "live" /\ hold'[c] = hold[c]
        BY <2>2, <3>1 DEF GrantTo, TypeOK
      <4> QED
        BY <4>1 DEF Entitled
    <3> QED
      BY <2>3, <3>1, EntitledOnlyByGrant
  <2>4. EntitledAt(t)' \subseteq (EntitledAt(t) \ {b}) \cup {b}
    BY <1>2, <2>3 DEF EntitledAt
  <2>5. Cardinality((EntitledAt(t) \ {b}) \cup {b}) <= Capacity
    BY <2>1, <2>2, FewEntitled DEF GrantTo
  <2>6. IsFiniteSet((EntitledAt(t) \ {b}) \cup {b})
    BY <1>1, FS_Subset, FS_AddElement
  <2>7. /\ Cardinality(EntitledAt(t)') <= Cardinality((EntitledAt(t) \ {b}) \cup {b})
        /\ Cardinality(EntitledAt(t)') \in Nat
        /\ Cardinality((EntitledAt(t) \ {b}) \cup {b}) \in Nat
    BY <2>4, <2>6, FS_Subset, FS_CardinalityType
  <2> QED
    BY <2>5, <2>7, RuntimeAssumption
<1> QED
  BY <1>3, <1>4

\* Sold bookings are entitled ones: room for the latter is no oversell.
LEMMA EntitledAreFew ==
  ASSUME RoomForEntitled PROVE NoOversell
<1> SUFFICES ASSUME NEW t \in Moments
             PROVE  Cardinality(Serving(t)) <= Capacity
  BY DEF NoOversell
<1>1. Serving(t) \subseteq EntitledAt(t)
  BY DEF Serving, EntitledAt, Entitled
<1>2. IsFiniteSet(EntitledAt(t))
  BY FS_Subset, RuntimeAssumption DEF EntitledAt
<1>3. /\ Cardinality(Serving(t)) <= Cardinality(EntitledAt(t))
      /\ Cardinality(Serving(t)) \in Nat /\ Cardinality(EntitledAt(t)) \in Nat
  BY <1>1, <1>2, FS_Subset, FS_CardinalityType
<1> QED
  BY <1>3, RuntimeAssumption DEF RoomForEntitled

\* The inductive invariant of the capacity argument.
CapacityInv ==
  TypeOK /\ EventsAreTrue /\ OfferedBeforePaid /\ RoomForEntitled

\* The inductive invariant holds in every reachable state.
LEMMA CapacityInvHolds ==
  ASSUME "advance" \notin Lossy
  PROVE  Spec => []CapacityInv
<1>1. Init => CapacityInv
  BY InitType, InitEvents, InitOffered, InitRoom DEF CapacityInv
<1>2. CapacityInv /\ [Next]_vars => CapacityInv'
  BY NextType, EventsKnown, EventsNext, OfferedNext, RoomNext DEF CapacityInv
<1> QED
  BY <1>1, <1>2, PTL DEF Spec

\* No interleaving of checkout calls, webhook deliveries, hold expiries,
\* deaths and lost statements sells a moment beyond the capacity of its slot,
\* as long as the advance to pending_payment (create-payment-intent, lines
\* 259-263) is not lost.
THEOREM CapacityIsSafe ==
  ASSUME "advance" \notin Lossy
  PROVE  Spec => []NoOversell
<1>1. CapacityInv => NoOversell
  BY EntitledAreFew DEF CapacityInv
<1> QED
  BY <1>1, CapacityInvHolds, PTL

\* A client secret is handed out only for a booking that has left draft, and
\* room for every entitled booking is kept: the reason of CapacityIsSafe.
THEOREM OfferedFirst ==
  ASSUME "advance" \notin Lossy
  PROVE  Spec => [](OfferedBeforePaid /\ RoomForEntitled)
<1>1. CapacityInv => OfferedBeforePaid /\ RoomForEntitled
  BY DEF CapacityInv
<1> QED
  BY <1>1, CapacityInvHolds, PTL
-----------------------------------------------------------------------------
(***************************************************************************)
(* Money that is recorded as returned, and holds that were paid for.       *)
(***************************************************************************)
\* Money that went back stays back.
LEMMA RefundsGrow ==
  ASSUME TypeOK, [Next]_vars, NEW b \in Bookings
  PROVE  /\ refunded[b] \in Nat /\ refunded'[b] \in Nat
         /\ refunded'[b] >= refunded[b]
<1>1. refunded[b] \in Nat
  BY DEF TypeOK
<1>2. ASSUME NEW c \in Bookings, NEW m \in Nat, GiveBack(c, m)
      PROVE  refunded'[b] \in Nat /\ refunded'[b] >= refunded[b]
  BY <1>2 DEF GiveBack, TypeOK
<1>3. ASSUME UNCHANGED refunded
      PROVE  refunded'[b] \in Nat /\ refunded'[b] >= refunded[b]
  BY <1>1, <1>3
<1>4. ASSUME NEW w \in Workers, WebhookStep(w)
      PROVE  refunded'[b] \in Nat /\ refunded'[b] >= refunded[b]
  BY <1>2, <1>3, <1>4, WebhookRows, WebhookRunning, Running, RuntimeAssumption
<1>5. ASSUME NEW w \in Workers, CheckoutStep(w) PROVE UNCHANGED refunded
  BY <1>5, CheckoutRows
<1>6. ASSUME NEW c \in Bookings, MerchantRefund(c)
      PROVE  refunded'[b] \in Nat /\ refunded'[b] >= refunded[b]
  BY <1>2, <1>6, RuntimeAssumption DEF MerchantRefund
<1> QED
  BY <1>1, <1>3, <1>4, <1>5, <1>6
  DEF Next, OpenCheckout, Deliver, Die, HoldExpires, Pay, Decline,
      MemberMove, vars

\* Only a compensation that returned the price, or an event that reports it,
\* writes the refunded state.
LEMMA RefundedNow ==
  ASSUME TypeOK, EventsAreTrue, [Next]_vars, NEW b \in Bookings,
         payment'[b] = "refunded", payment[b] # "refunded"
  PROVE  refunded[b] >= Amount
<1>1. ASSUME NEW w \in Workers, CheckoutStep(w) PROVE FALSE
  BY <1>1, CheckoutRows DEF TypeOK
<1>2. ASSUME NEW w \in Workers, WebhookStep(w) PROVE refunded[b] >= Amount
  <2>1. B(w) \in Bookings
    BY <1>2, WebhookRunning, Running
  <2>2. \/ MarkRefunded(w) /\ B(w) = b
        \/ SettlePayment(w) /\ FullyRefunded(w) /\ B(w) = b
    BY <1>2, <2>1, WebhookRows DEF TypeOK
  <2>3. CASE MarkRefunded(w) /\ B(w) = b
    BY <2>3 DEF MarkRefunded, EventsAreTrue
  <2>4. CASE SettlePayment(w) /\ FullyRefunded(w) /\ B(w) = b
    <3>1. /\ call[w].event \in events /\ call[w].event.booking = b
          /\ call[w].event.kind = "refund"
      BY <2>4 DEF SettlePayment, EventsAreTrue, WebhookSteps
    <3>2. call[w].event.amount <= refunded[b]
      BY <3>1 DEF EventsAreTrue
    <3>3. call[w].event.amount \in Nat /\ refunded[b] \in Nat
      BY <3>1 DEF TypeOK, Event
    <3> QED
      BY <2>4, <3>2, <3>3, RuntimeAssumption DEF FullyRefunded
  <2> QED
    BY <2>2, <2>3, <2>4
<1>3. ASSUME UNCHANGED payment PROVE FALSE
  BY <1>3
<1> QED
  BY <1>1, <1>2, <1>3
  DEF Next, OpenCheckout, Deliver, Die, HoldExpires, Pay, Decline,
      MerchantRefund, MemberMove, vars

\* A payment recorded as refunded (stripe-webhook, lines 204 and 249-252) is
\* one whose whole price the provider returned, whatever statements are lost
\* and however deliveries interleave.
THEOREM RefundsAreReal == Spec => []RefundedMeansReturned
<1>1. Init => RefundedMeansReturned
  BY DEF Init, RefundedMeansReturned
<1>2. ASSUME TypeOK, EventsAreTrue, RefundedMeansReturned, [Next]_vars
      PROVE  RefundedMeansReturned'
  <2> SUFFICES ASSUME NEW b \in Bookings, payment'[b] = "refunded"
               PROVE  refunded'[b] >= Amount
    BY DEF RefundedMeansReturned
  <2>1. refunded[b] >= Amount
    BY <1>2, RefundedNow DEF RefundedMeansReturned
  <2> QED
    BY <1>2, <2>1, RefundsGrow, RuntimeAssumption
<1> QED
  BY <1>1, <1>2, TypesAndEvents, PTL DEF Spec

\* A hold that consume_hold converted is never released, expired or granted
\* again by any step of any call (0010: only active holds are released).
THEOREM ConsumedHoldsStay == Spec => ConsumedHoldIsKept
<1>1. ASSUME TypeOK, [Next]_vars, NEW b \in Bookings, hold[b] = "consumed"
      PROVE  hold'[b] = "consumed"
  <2>1. ASSUME NEW w \in Workers, CheckoutStep(w) PROVE hold'[b] = "consumed"
    <3>1. B(w) \in Bookings
      BY <1>1, <2>1, CheckoutRows, Running
    <3> QED
      BY <1>1, <2>1, <3>1, CheckoutRows
      DEF ReserveCapacity, AlreadyGranted, ReleaseHold, TypeOK
  <2>2. ASSUME NEW w \in Workers, WebhookStep(w) PROVE hold'[b] = "consumed"
    <3>1. B(w) \in Bookings
      BY <1>1, <2>2, WebhookRunning, Running
    <3> QED
      BY <1>1, <2>2, <3>1, WebhookRows DEF ConsumeHold, ReleaseHold, TypeOK
  <2>3. ASSUME NEW c \in Bookings, HoldExpires(c) PROVE hold'[b] = "consumed"
    BY <1>1, <2>3 DEF HoldExpires, TypeOK
  <2> QED
    BY <1>1, <2>1, <2>2, <2>3
    DEF Next, OpenCheckout, Deliver, Die, Pay, Decline, MerchantRefund,
        MemberMove, vars
<1>2. TypeOK /\ [Next]_vars =>
        [\A b \in Bookings : hold[b] = "consumed" => hold'[b] = "consumed"]_vars
  BY <1>1
<1> QED
  BY <1>2, TypesAndEvents, PTL DEF Spec, ConsumedHoldIsKept
-----------------------------------------------------------------------------
(***************************************************************************)
(* The runtime implements the booking ledger.                              *)
(***************************************************************************)
ledgerVars == <<booking, captured, refunded>>

\* The ledger counts sets as this module does.
LEMMA LedgerCounts == \A S : Ledger!Cardinality(S) = Cardinality(S)
BY DEF Ledger!Cardinality, Cardinality

\* A conditional update of bookings.state along legal edges is a Move of the
\* ledger, or no step of it.
LEMMA MoveIsLegal ==
  ASSUME TypeOK, NEW b \in Bookings, NEW from \in SUBSET BookingState,
         NEW s \in BookingState \ {"confirmed", "refunded"},
         \A q \in from : s \in Ledger!Transitions[q],
         MoveBooking(b, from, s), UNCHANGED <<captured, refunded>>
  PROVE  Ledger!Next \/ UNCHANGED ledgerVars
<1>1. CASE booking[b] \in from
  <2>1. Ledger!Move(b, s)
    BY <1>1 DEF Ledger!Move, MoveBooking, TypeOK
  <2>2. s \in Ledger!BookingState
    BY DEF Ledger!BookingState, BookingState
  <2> QED
    BY <2>1, <2>2 DEF Ledger!Next
<1>2. CASE booking[b] \notin from
  BY <1>2 DEF MoveBooking, TypeOK, ledgerVars
<1> QED
  BY <1>1, <1>2

\* A refund the provider accepts is a Return of the ledger.
LEMMA ReturnIsLegal ==
  ASSUME TypeOK, NEW b \in Bookings, NEW m \in Nat \ {0},
         Accepts(b, m), GiveBack(b, m), UNCHANGED <<booking, captured>>
  PROVE  Ledger!Next
<1>1. /\ refunded[b] \in Nat /\ captured[b] \in Nat
      /\ refunded'[b] = refunded[b] + m
      /\ refunded' = [refunded EXCEPT ![b] = refunded'[b]]
  BY DEF GiveBack, TypeOK
<1>2. refunded'[b] \in (refunded[b] + 1) .. captured[b]
  BY <1>1 DEF Accepts
<1>3. Ledger!Return(b)
  BY <1>1, <1>2 DEF Ledger!Return
<1> QED
  BY <1>3 DEF Ledger!Next

\* A confirmation is a sale for the full price of a slot that has room.
LEMMA ConfirmIsLegal ==
  ASSUME CapacityInv, NEW w \in Workers, Confirm(w),
         MoveBooking(B(w), {"pending_payment"}, "confirmed"),
         UNCHANGED <<captured, refunded>>
  PROVE  Ledger!Next \/ UNCHANGED ledgerVars
<1> DEFINE b == B(w)
<1>1. TypeOK /\ b \in Bookings /\ call[w].step = "confirm"
  BY Running DEF CapacityInv, Confirm, WebhookSteps, HonourSteps
<1>2. CASE booking[b] # "pending_payment"
  BY <1>1, <1>2 DEF MoveBooking, TypeOK, ledgerVars
<1>3. CASE booking[b] = "pending_payment"
  <2>1. captured[b] = Amount
    BY <1>1 DEF CapacityInv, EventsAreTrue, HonourSteps, WebhookSteps
  <2>2. Entitled(b)
    BY <1>1, <1>3 DEF Entitled, Honouring, HonourSteps
  <2>3. ASSUME NEW t \in SlotOf[b] PROVE Cardinality(Ledger!Selling(t)) < Capacity
    <3>1. Ledger!Selling(t) \subseteq EntitledAt(t) \ {b}
      BY <1>3 DEF Ledger!Selling, Ledger!Sold, EntitledAt, Entitled
    <3>2. b \in EntitledAt(t) /\ t \in Moments
      BY <1>1, <2>2 DEF EntitledAt, Moments
    <3>3. IsFiniteSet(EntitledAt(t)) /\ Cardinality(EntitledAt(t)) <= Capacity
      BY <3>2, FS_Subset, RuntimeAssumption
      DEF EntitledAt, CapacityInv, RoomForEntitled
    <3>4. /\ IsFiniteSet(EntitledAt(t) \ {b})
          /\ Cardinality(EntitledAt(t) \ {b}) = Cardinality(EntitledAt(t)) - 1
      BY <3>2, <3>3, FS_RemoveElement
    <3>5. /\ Cardinality(Ledger!Selling(t)) <= Cardinality(EntitledAt(t) \ {b})
          /\ Cardinality(Ledger!Selling(t)) \in Nat
          /\ Cardinality(EntitledAt(t)) \in Nat
          /\ Cardinality(EntitledAt(t) \ {b}) \in Nat
      BY <3>1, <3>3, <3>4, FS_Subset, FS_CardinalityType
    <3> QED
      BY <3>3, <3>4, <3>5, RuntimeAssumption
  <2>4. Ledger!Move(b, "confirmed")
    BY <1>1, <1>3 DEF Ledger!Move, Ledger!Transitions, MoveBooking, TypeOK
  <2>5. Ledger!Sell(b)
    BY <2>1, <2>3, <2>4, LedgerCounts DEF Ledger!Sell
  <2> QED
    BY <1>1, <2>5 DEF Ledger!Next
<1> QED
  BY <1>2, <1>3

\* A booking is marked refunded after the whole price went back.
LEMMA SettleIsLegal ==
  ASSUME TypeOK, EventsAreTrue, NEW w \in Workers,
         SettleBooking(w), FullyRefunded(w),
         MoveBooking(B(w), {"confirmed", "completed", "cancelled"}, "refunded"),
         UNCHANGED <<captured, refunded>>
  PROVE  Ledger!Next \/ UNCHANGED ledgerVars
<1> DEFINE b == B(w)
<1>1. b \in Bookings /\ call[w].step = "settle_booking"
  BY Running DEF SettleBooking, WebhookSteps
<1>2. CASE booking[b] \notin {"confirmed", "completed", "cancelled"}
  BY <1>1, <1>2 DEF MoveBooking, TypeOK, ledgerVars
<1>3. CASE booking[b] \in {"confirmed", "completed", "cancelled"}
  <2>1. /\ call[w].event \in events /\ call[w].event.booking = b
        /\ call[w].event.kind = "refund"
    BY <1>1 DEF EventsAreTrue, WebhookSteps
  <2>2. call[w].event.amount <= refunded[b]
    BY <2>1 DEF EventsAreTrue
  <2>3. call[w].event.amount \in Nat /\ refunded[b] \in Nat
    BY <2>1 DEF TypeOK, Event
  <2>4. refunded[b] >= Amount
    BY <2>2, <2>3, RuntimeAssumption DEF FullyRefunded
  <2>5. Ledger!Move(b, "refunded")
    BY <1>1, <1>3 DEF Ledger!Move, Ledger!Transitions, MoveBooking, TypeOK
  <2> QED
    BY <1>1, <2>4, <2>5 DEF Ledger!Next, Ledger!Refund
<1> QED
  BY <1>2, <1>3

\* Every step of the runtime is a step of the ledger or none.
LEMMA StepIsLegal ==
  ASSUME CapacityInv, [Next]_vars
  PROVE  Ledger!Next \/ UNCHANGED ledgerVars
<1> USE DEF CapacityInv
<1>1. /\ \A q \in {"draft"} : "pending_payment" \in Ledger!Transitions[q]
      /\ \A q \in {"draft", "pending_payment"} : "failed" \in Ledger!Transitions[q]
      /\ {"draft"} \in SUBSET BookingState
      /\ {"draft", "pending_payment"} \in SUBSET BookingState
      /\ {"pending_payment", "failed"} \subseteq BookingState \ {"confirmed", "refunded"}
  BY DEF Ledger!Transitions, BookingState
<1>2. ASSUME NEW w \in Workers, CheckoutStep(w)
      PROVE  Ledger!Next \/ UNCHANGED ledgerVars
  <2>1. B(w) \in Bookings /\ UNCHANGED <<captured, refunded>>
    BY <1>2, CheckoutRows, Running
  <2>2. CASE MoveBooking(B(w), {"draft"}, "pending_payment")
    BY <1>1, <2>1, <2>2, MoveIsLegal
  <2> QED
    BY <1>2, <2>1, <2>2, CheckoutRows DEF ledgerVars
<1>3. ASSUME NEW w \in Workers, WebhookStep(w)
      PROVE  Ledger!Next \/ UNCHANGED ledgerVars
  <2>1. B(w) \in Bookings /\ UNCHANGED captured
    BY <1>3, WebhookRunning, WebhookRows, Running
  <2>2. CASE CompensateRefund(w) /\ Accepts(B(w), Amount) /\ GiveBack(B(w), Amount)
    BY <2>1, <2>2, ReturnIsLegal, RuntimeAssumption DEF CompensateRefund
  <2>3. CASE UNCHANGED refunded
    <3>1. CASE MoveBooking(B(w), {"draft"}, "pending_payment")
      BY <1>1, <2>1, <2>3, <3>1, MoveIsLegal
    <3>2. CASE MoveBooking(B(w), {"draft", "pending_payment"}, "failed")
      BY <1>1, <2>1, <2>3, <3>2, MoveIsLegal
    <3> QED
      BY <1>3, <2>1, <2>3, <3>1, <3>2, WebhookRows, ConfirmIsLegal,
         SettleIsLegal DEF ledgerVars
  <2> QED
    BY <1>3, <2>2, <2>3, WebhookRows
<1>4. ASSUME NEW b \in Bookings, MemberMove(b) PROVE Ledger!Next
  <2>1. PICK s \in {"completed", "cancelled"} : booking' = [booking EXCEPT ![b] = s]
    BY <1>4 DEF MemberMove
  <2>2. s \in Ledger!Transitions[booking[b]]
    BY <1>4, <2>1 DEF Ledger!Transitions, MemberMove
  <2>4. Ledger!Move(b, s)
    BY <1>4, <2>1, <2>2 DEF Ledger!Move, MemberMove
  <2>3. s \in Ledger!BookingState \ {"confirmed", "refunded"}
    BY <2>1 DEF Ledger!BookingState
  <2> QED
    BY <2>3, <2>4 DEF Ledger!Next
<1>5. ASSUME NEW b \in Bookings, Pay(b) PROVE Ledger!Next
  <2>1. PICK m \in CapturedAmounts : captured' = [captured EXCEPT ![b] = m]
    BY <1>5 DEF Pay
  <2>2. captured'[b] = m /\ m \in Nat \ {0}
    BY <2>1, RuntimeAssumption DEF TypeOK
  <2>3. Ledger!Capture(b)
    BY <1>5, <2>1, <2>2 DEF Ledger!Capture, Pay
  <2> QED
    BY <2>3 DEF Ledger!Next
<1>6. ASSUME NEW b \in Bookings, MerchantRefund(b) PROVE Ledger!Next
  <2>1. PICK m \in MerchantRefunds : Accepts(b, m) /\ GiveBack(b, m)
    BY <1>6 DEF MerchantRefund
  <2> QED
    BY <1>6, <2>1, ReturnIsLegal, RuntimeAssumption DEF MerchantRefund
<1>7. ASSUME UNCHANGED <<booking, captured, refunded>> PROVE UNCHANGED ledgerVars
  BY <1>7 DEF ledgerVars
<1> QED
  BY <1>2, <1>3, <1>4, <1>5, <1>6, <1>7
  DEF Next, OpenCheckout, Deliver, Die, HoldExpires, Decline, vars

\* Every step of the runtime, with any number of calls, deaths and lost
\* statements other than the advance, is a step the ledger allows.
THEOREM RuntimeImplementsLedger ==
  ASSUME "advance" \notin Lossy
  PROVE  Spec => ImplementsLedger
<1>1. Init => Ledger!Init
  BY DEF Init, Ledger!Init
<1>2. CapacityInv /\ [Next]_vars => [Ledger!Next]_(Ledger!vars)
  BY StepIsLegal DEF Ledger!vars, ledgerVars
<1> QED
  BY <1>1, <1>2, CapacityInvHolds, PTL DEF Spec, ImplementsLedger, Ledger!Spec
=============================================================================
