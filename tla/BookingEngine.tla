--------------------------- MODULE BookingEngine ---------------------------
(***************************************************************************)
(* The in-memory booking engine (packages/core/src/booking.ts) and the     *)
(* payment provider it is given (packages/adapters/src/mockPayment.ts).    *)
(*                                                                         *)
(* Both are single-threaded: what runs between two awaits is one action,   *)
(* and every await is a point where other calls run.  Creations are named  *)
(* by their idempotency key, since calls of one key join one creation;     *)
(* confirmations are made by Callers.  One tenant.  A record is named by   *)
(* its place in the order of creation, an intent by its payment key.       *)
(***************************************************************************)
EXTENDS Naturals, Sequences, FiniteSets

CONSTANTS
  Callers,        \* concurrent calls of confirmFromPayment
  Keys,           \* idempotency keys
  Requests,       \* selection, time and customer of a booking
  Slots,
  SlotOf,         \* the slot of a request
  Priceable,      \* requests whose selection the pricing engine accepts
  Capacity,       \* of each slot
  Price,          \* total and deposit of a request
  MemberStates,   \* states the caller of transition may ask for
  MaxRecords, MaxAttempts

ASSUME EngineAssumption ==
  /\ SlotOf \in [Requests -> Slots]
  /\ Priceable \subseteq Requests
  /\ Capacity \in Nat \ {0} /\ Price \in Nat \ {0}
  /\ MaxRecords \in Nat /\ MaxAttempts \in Nat

VARIABLES
  record,     \* bookings ever made; live while they are in the engine's map
  byKey,      \* the record of each key, 0 if there is none
  pending,    \* the record whose creation is in flight for the key, or 0
  attempts,   \* payment attempts of each key so far
  intent,     \* provider: the intent of each payment key
  bookingOf,  \* the engine's booking of an intent, 0 if it never minted it
  offered,    \* slots that rules, policy and clock still offer
  confirming        \* each confirmation: what it awaits, or its last answer

engine == <<record, byKey, pending, attempts, intent, bookingOf, offered, confirming>>

BookingState == {"draft", "pending_payment", "confirmed", "completed",
                 "cancelled", "refunded", "failed"}
Transitions ==
  [ draft           |-> {"pending_payment", "failed"},
    pending_payment |-> {"confirmed", "failed"},
    confirmed       |-> {"completed", "cancelled", "refunded"},
    completed       |-> {"refunded"},
    cancelled       |-> {"refunded"},
    refunded        |-> {},
    failed          |-> {} ]

\* The first attempt uses the booking's key, a later one key#retryN.
PaymentKeys == Keys \X (0 .. MaxAttempts)
NoIntent == <<>>
Ids == 1 .. MaxRecords
IntentState == {"none", "requires_payment", "succeeded", "failed",
                "partially_refunded", "refunded"}

Recorded == [key : Keys, attempt : 0 .. MaxAttempts, request : Requests,
             state : BookingState, live : BOOLEAN,
             intent : PaymentKeys \cup {NoIntent}]
NoCall == [step |-> "idle"]
Call == {NoCall}
   \cup [step : {"verify"}, booking : Ids, intent : PaymentKeys, saw : IntentState]

EngineTypeOK ==
  /\ record \in Seq(Recorded) /\ Len(record) <= MaxRecords
  /\ byKey \in [Keys -> 0 .. Len(record)]
  /\ pending \in [Keys -> 0 .. Len(record)]
  /\ attempts \in [Keys -> 0 .. MaxAttempts]
  /\ intent \in [PaymentKeys -> [state : IntentState, refunded : 0 .. Price]]
  /\ bookingOf \in [PaymentKeys -> 0 .. Len(record)]
  /\ offered \subseteq Slots
  /\ confirming \in [Callers -> Call]

EngineInit ==
  /\ record = <<>>
  /\ byKey = [k \in Keys |-> 0] /\ pending = [k \in Keys |-> 0]
  /\ attempts = [k \in Keys |-> 0]
  /\ intent = [i \in PaymentKeys |-> [state |-> "none", refunded |-> 0]]
  /\ bookingOf = [i \in PaymentKeys |-> 0]
  /\ offered = Slots
  /\ confirming = [c \in Callers |-> NoCall]
-----------------------------------------------------------------------------
\* activeHolds: what consumes capacity.
Holding(s) == {b \in DOMAIN record :
                 /\ record[b].live
                 /\ record[b].state \in {"pending_payment", "confirmed"}
                 /\ SlotOf[record[b].request] = s}
HasRoom(s) == s \in offered /\ Cardinality(Holding(s)) < Capacity

CanMove(b, to) == to \in Transitions[record[b].state]
Move(b, to) == record' = [record EXCEPT ![b].state = to]

\* A call of createBooking whose key is in flight or settled gets that record.
Joined(k) == IF pending[k] # 0 THEN pending[k] ELSE byKey[k]
Mutant_JoinsInFlight(k) == pending[k] # 0

Joins(k) == pending[k] # 0 \/ (byKey[k] # 0 /\ record[byKey[k]].state # "failed")

\* A failed booking does not keep its key.
Superseding(k) ==
  IF byKey[k] = 0 THEN record ELSE [record EXCEPT ![byKey[k]].live = FALSE]

\* createSync, up to the first await: reprice, check the slot, insert the
\* record with its hold and its key.
Create(k, r) ==
  /\ ~ Joins(k)
  /\ attempts[k] < MaxAttempts /\ Len(record) < MaxRecords
  /\ r \in Priceable /\ HasRoom(SlotOf[r])
  /\ record' = Append(Superseding(k),
                      [key |-> k, attempt |-> attempts[k], request |-> r,
                       state |-> "pending_payment", live |-> TRUE,
                       intent |-> NoIntent])
  /\ byKey' = [byKey EXCEPT ![k] = Len(record) + 1]
  /\ pending' = [pending EXCEPT ![k] = Len(record) + 1]
  /\ attempts' = [attempts EXCEPT ![k] = @ + 1]
  /\ UNCHANGED <<intent, bookingOf, offered, confirming>>

\* createSync throws: nothing is reserved, but the failed record is gone and
\* the attempt is counted.
CreateRefused(k, r) ==
  /\ ~ Joins(k)
  /\ attempts[k] < MaxAttempts
  /\ r \notin Priceable \/ ~ HasRoom(SlotOf[r])
  /\ record' = Superseding(k)
  /\ byKey' = [byKey EXCEPT ![k] = 0]
  /\ attempts' = [attempts EXCEPT ![k] = @ + 1]
  /\ UNCHANGED <<pending, intent, bookingOf, offered, confirming>>

Refusal(r) == IF r \notin Priceable THEN "INVALID_SELECTION" ELSE "SLOT_UNAVAILABLE"

PaymentKey(b) == <<record[b].key, record[b].attempt>>

\* The provider creates the intent, or finds the one of the same payment key.
ProviderCreates(k) ==
  /\ pending[k] # 0
  /\ LET i == PaymentKey(pending[k]) IN
       /\ intent[i].state = "none"
       /\ intent' = [intent EXCEPT ![i].state = "requires_payment"]
  /\ UNCHANGED <<record, byKey, pending, attempts, bookingOf, offered, confirming>>

\* createWithPayment goes on after the await.
IntentReady(k) ==
  /\ pending[k] # 0
  /\ LET b == pending[k]  i == PaymentKey(b) IN
       /\ intent[i].state # "none"
       /\ bookingOf' = [bookingOf EXCEPT ![i] = b]
       /\ record' = [record EXCEPT ![b].intent = i]
  /\ pending' = [pending EXCEPT ![k] = 0]
  /\ UNCHANGED <<byKey, attempts, intent, offered, confirming>>

\* The provider threw: the booking fails, unless it left the state meanwhile.
IntentRefused(k) ==
  /\ pending[k] # 0
  /\ intent[PaymentKey(pending[k])].state = "none"
  /\ IF CanMove(pending[k], "failed") THEN Move(pending[k], "failed")
                                      ELSE UNCHANGED record
  /\ pending' = [pending EXCEPT ![k] = 0]
  /\ UNCHANGED <<byKey, attempts, intent, bookingOf, offered, confirming>>

\* transition never confirms.
Transition(b, to) ==
  /\ record[b].live /\ to # "confirmed" /\ CanMove(b, to)
  /\ Move(b, to)
  /\ UNCHANGED <<byKey, pending, attempts, intent, bookingOf, offered, confirming>>

\* confirmFromPayment up to its await of getIntent; a confirmed record is
\* returned without one.
ConfirmStart(c, i) ==
  LET b == bookingOf[i] IN
  /\ confirming[c] = NoCall
  /\ b # 0 /\ record[b].live /\ record[b].state # "confirmed"
  /\ confirming' = [confirming EXCEPT ![c] = [step |-> "verify", booking |-> b, intent |-> i,
                                  saw |-> intent[i].state]]
  /\ UNCHANGED <<record, byKey, pending, attempts, intent, bookingOf, offered>>

\* What it answers after the await; the record may have moved meanwhile.
Verdict(c) ==
  LET p == confirming[c] IN
  IF p.saw # "succeeded" THEN "PAYMENT_FAILED"
  ELSE IF record[p.booking].state # "pending_payment" THEN "ILLEGAL_TRANSITION"
  ELSE "confirmed"

ConfirmFinish(c) ==
  /\ confirming[c].step = "verify"
  /\ LET p == confirming[c]  waiting == record[p.booking].state = "pending_payment" IN
       IF p.saw = "failed" /\ waiting THEN Move(p.booking, "failed")
       ELSE IF Verdict(c) = "confirmed" THEN Move(p.booking, "confirmed")
       ELSE UNCHANGED record
  /\ confirming' = [confirming EXCEPT ![c] = NoCall]
  /\ UNCHANGED <<byKey, pending, attempts, intent, bookingOf, offered>>

\* The payment settles at the provider; cancelIntent fails it too.
CompletePayment(i, outcome) ==
  /\ intent[i].state = "requires_payment"
  /\ intent' = [intent EXCEPT ![i].state = outcome]
  /\ UNCHANGED <<record, byKey, pending, attempts, bookingOf, offered, confirming>>

RefundPayment(i, amount) ==
  /\ intent[i].state \in {"succeeded", "partially_refunded"}
  /\ intent[i].refunded + amount <= Price
  /\ intent' = [intent EXCEPT ![i] =
       [state |-> IF @.refunded + amount = Price THEN "refunded"
                                                 ELSE "partially_refunded",
        refunded |-> @.refunded + amount]]
  /\ UNCHANGED <<record, byKey, pending, attempts, bookingOf, offered, confirming>>

\* Lead time and horizon move with the clock.
SlotCloses(s) ==
  /\ offered' = offered \ {s} /\ s \in offered
  /\ UNCHANGED <<record, byKey, pending, attempts, intent, bookingOf, confirming>>

EngineNext ==
  \/ \E k \in Keys, r \in Requests : Create(k, r) \/ CreateRefused(k, r)
  \/ \E k \in Keys : ProviderCreates(k) \/ IntentReady(k) \/ IntentRefused(k)
  \/ \E b \in DOMAIN record, to \in MemberStates : Transition(b, to)
  \/ \E c \in Callers, i \in PaymentKeys : ConfirmStart(c, i)
  \/ \E c \in Callers : ConfirmFinish(c)
  \/ \E i \in PaymentKeys :
       \/ \E outcome \in {"succeeded", "failed"} : CompletePayment(i, outcome)
       \/ \E amount \in 1 .. Price : RefundPayment(i, amount)
  \/ \E s \in Slots : SlotCloses(s)

EngineSpec == EngineInit /\ [][EngineNext]_engine
-----------------------------------------------------------------------------
Captured(i) == intent[i].state \in {"succeeded", "partially_refunded", "refunded"}

\* Two submits of one key never leave two bookings that hold or sold a slot,
\* whatever failed and was superseded in between, and a booking the engine
\* dropped is a failed one.
OneBookingPerKey ==
  /\ \A a, b \in DOMAIN record :
       record[a].key = record[b].key
         /\ record[a].state # "failed" /\ record[b].state # "failed" => a = b
  /\ \A b \in DOMAIN record : ~ record[b].live => record[b].state = "failed"

\* Checks and inserts happen without an await in between, so that concurrent
\* creations never share the last place of a slot.
NoSlotOversold == \A s \in Slots : Cardinality(Holding(s)) <= Capacity

\* However confirmations, failures and refunds overlap, a booking that is or
\* was confirmed has an intent of its own that captured its price.
SoldIsPaid ==
  \A b \in DOMAIN record :
    record[b].state \in {"confirmed", "completed", "cancelled", "refunded"} =>
      /\ record[b].intent # NoIntent /\ Captured(record[b].intent)
      /\ bookingOf[record[b].intent] = b

\* A second confirmation of one intent returns the confirmed record: a call
\* is not refused while the booking it is about is confirmed.
RepeatIsConfirmed ==
  [][\A c \in Callers :
       (ConfirmFinish(c) /\ record[confirming[c].booking].state = "confirmed")
         => Verdict(c) = "confirmed"]_engine

\* One booking for a key, one place for a booking, and no sale without payment.
BookingsAreSound == OneBookingPerKey /\ NoSlotOversold /\ SoldIsPaid
=============================================================================
