---------------------------- MODULE StripePayments ----------------------------
(***************************************************************************)
(* The Stripe adapter (packages/adapters/src/stripePayment.ts): one HTTP   *)
(* call per operation, nothing kept and nothing retried, and the           *)
(* verification and reading of Stripe's events.  Stripe itself is the      *)
(* environment, as the adapter relies on it: it replays the first answer   *)
(* to an idempotency key, refuses what a status does not allow, and sends  *)
(* an event for what happened, once or more and in any order, signed anew  *)
(* each time.  An answer may be lost, and the caller then calls again.     *)
(***************************************************************************)
EXTENDS Integers, Sequences, FiniteSets, SequencesExt, FiniteSetsExt

CONSTANTS
  IntentKeys,      \* the idempotency keys: a booking's own
  IntentAmounts,   \* the amounts callers ask for
  MaxIntents, MaxRefunds

ASSUME StripeAssumption ==
  /\ "none" \notin IntentKeys
  /\ IntentAmounts \subseteq Int /\ MaxIntents \in Nat /\ MaxRefunds \in Nat

VARIABLES
  intents,       \* Stripe's intents: [key, amount, status, refunds]
  request,       \* the call under way, as Stripe gets it
  refs,          \* the references callers were given, with the key they asked for
  sentEvents,    \* the events Stripe sends
  readEvents     \* what parseWebhook and interpretRefundEvent made of them

stripe == <<intents, request, refs, sentEvents, readEvents>>

NoRequest == [op |-> "none"]

MapIntentStatus(status) ==
  CASE status = "processing" -> "processing"
    [] status = "succeeded" -> "succeeded"
    [] status = "canceled" -> "failed"
    [] OTHER -> "requires_payment"

ToRef(i, intent) == [intent |-> i, state |-> MapIntentStatus(intent.status),
                     amount |-> intent.amount]

Added(amounts) == FoldSeq(+, 0, amounts)
Refunded(intent) == Added(intent.refunds)

StripeInit ==
  /\ intents = << >> /\ request = NoRequest
  /\ refs = {} /\ sentEvents = {} /\ readEvents = {}

Ask(r) == request = NoRequest /\ request' = r

\* createIntent: an amount that is not positive never reaches Stripe.
CreateIntent(k, amount) ==
  /\ amount > 0
  /\ Ask([op |-> "create", key |-> k, by |-> k, amount |-> amount])
  /\ UNCHANGED <<intents, refs, sentEvents, readEvents>>

GetIntent(i) ==
  /\ Ask([op |-> "get", intent |-> i])
  /\ UNCHANGED <<intents, refs, sentEvents, readEvents>>

CancelIntent(i) ==
  /\ Ask([op |-> "cancel", intent |-> i])
  /\ UNCHANGED <<intents, refs, sentEvents, readEvents>>

\* refund: no idempotency key goes with it.
RefundIntent(i, amount) ==
  /\ amount > 0
  /\ Ask([op |-> "refund", intent |-> i, amount |-> amount])
  /\ UNCHANGED <<intents, refs, sentEvents, readEvents>>

\* Stripe's part: the original intent for a known key.
WithKey(k) == {i \in DOMAIN intents : k # "none" /\ intents[i].key = k}
\* An event; total is -1 where it says nothing of a charge's refunds.
Notice(type, object, i, n, amount, total) ==
  [type |-> type, object |-> object, intent |-> i, id |-> <<i, n>>,
   amount |-> amount, total |-> total]
Signal(type, i) ==
  sentEvents' = sentEvents \cup {Notice(type, "payment_intent", i, 0, intents[i].amount, -1)}

StripeCreates(answered) ==
  /\ request.op = "create"
  /\ LET known == WithKey(request.key)
         after == IF known # {} THEN intents
                  ELSE Append(intents, [key |-> request.key, amount |-> request.amount,
                                        status |-> "requires_payment_method", refunds |-> << >>])
         i == IF known # {} THEN Max(known) ELSE Len(after)
     IN /\ Len(after) <= MaxIntents
        /\ intents' = after
        /\ refs' = IF answered THEN refs \cup {<<request.by, ToRef(i, after[i])>>} ELSE refs
  /\ request' = NoRequest
  /\ UNCHANGED <<sentEvents, readEvents>>

\* The answer to getIntent, which 404s to null for an unknown id.
StripeShows ==
  /\ request.op = "get"
  /\ LET i == request.intent
     IN refs' = refs \cup {<<intents[i].key, ToRef(i, intents[i])>>}
  /\ request' = NoRequest
  /\ UNCHANGED <<intents, sentEvents, readEvents>>

\* A call that Stripe refuses, or that never reaches it, throws: nothing changes.
CallFails ==
  /\ request # NoRequest
  /\ request' = NoRequest
  /\ UNCHANGED <<intents, refs, sentEvents, readEvents>>

StripeCancels ==
  /\ request.op = "cancel"
  /\ intents[request.intent].status \notin {"succeeded", "canceled"}
  /\ intents' = [intents EXCEPT ![request.intent].status = "canceled"]
  /\ Signal("payment_intent.canceled", request.intent)
  /\ request' = NoRequest
  /\ UNCHANGED <<refs, readEvents>>

\* A refund over what was captured is refused.  The charge's event carries the
\* total and every refund so far, the newest last; the refund's own carries its
\* own amount.
StripeRefunds ==
  /\ request.op = "refund"
  /\ LET i == request.intent
         refunds == Append(intents[i].refunds, request.amount)
     IN /\ intents[i].status = "succeeded"
        /\ Len(refunds) <= MaxRefunds
        /\ Added(refunds) <= intents[i].amount
        /\ intents' = [intents EXCEPT ![i].refunds = refunds]
        /\ sentEvents' = sentEvents \cup
             {Notice("charge.refunded", "charge", i, Len(refunds), intents[i].amount, Added(refunds)),
              Notice("refund.created", "refund", i, Len(refunds), request.amount, -1)}
  /\ request' = NoRequest
  /\ UNCHANGED <<refs, readEvents>>

\* The customer's card: a failed payment leaves the intent open.
Confirm(i, type) ==
  /\ intents[i].status = "requires_payment_method"
  /\ intents' = [intents EXCEPT ![i].status =
                   IF type = "payment_intent.succeeded" THEN "succeeded" ELSE @]
  /\ Signal(type, i)
  /\ UNCHANGED <<request, refs, readEvents>>

\* normalizeEvent.
Kind(event) ==
  CASE event.type = "payment_intent.succeeded" -> "payment_succeeded"
    [] event.type \in {"payment_intent.payment_failed", "payment_intent.canceled"} -> "payment_failed"
    [] event.type \in {"charge.refunded", "refund.updated", "refund.created"} -> "refund_completed"
    [] OTHER -> "unrecognized"

\* As if the charge's own amount were taken for what was refunded of it.
Mutant_WholeCharge(event, serverAmount) ==
  [refundId |-> event.id, refundedTotal |-> event.amount, full |-> event.amount >= serverAmount]

\* interpretRefundEvent: a bare refund has no total, so its own amount stands in.
InterpretRefundEvent(event, serverAmount) ==
  LET total == IF event.total >= 0 THEN event.total ELSE event.amount
  IN [refundId |-> event.id, refundedTotal |-> total, full |-> total >= serverAmount]

NoRefund == [refundId |-> <<0, 0>>, refundedTotal |-> 0, full |-> FALSE]

\* parseWebhook, of an event Stripe signed just now: an older copy is refused.
ParseWebhook(event) ==
  /\ LET refund == IF Kind(event) = "refund_completed"
                   THEN InterpretRefundEvent(event, intents[event.intent].amount) ELSE NoRefund
     IN readEvents' = readEvents \cup
          {[kind |-> Kind(event), intent |-> event.intent, refundId |-> refund.refundId,
            refundedTotal |-> refund.refundedTotal, full |-> refund.full]}
  /\ UNCHANGED <<intents, request, refs, sentEvents>>

StripeNext ==
  \/ \E k \in IntentKeys, amount \in IntentAmounts : CreateIntent(k, amount)
  \/ \E i \in DOMAIN intents :
       \/ GetIntent(i) \/ CancelIntent(i)
       \/ \E amount \in IntentAmounts : RefundIntent(i, amount)
       \/ \E type \in {"payment_intent.succeeded", "payment_intent.payment_failed"} :
            Confirm(i, type)
  \/ \E answered \in BOOLEAN : StripeCreates(answered)
  \/ StripeShows \/ StripeCancels \/ StripeRefunds \/ CallFails
  \/ \E event \in sentEvents : ParseWebhook(event)
StripeSpec == StripeInit /\ [][StripeNext]_stripe

-----------------------------------------------------------------------------
\* However often a create is repeated after a lost answer, and with whatever
\* amount, the callers of one key hold one intent, for the amount asked first:
\* the adapter passes the key on, and returns the amount Stripe has.
OneChargePerKey ==
  \A a, b \in refs :
    a[1] = b[1] => a[2].intent = b[2].intent /\ a[2].amount = b[2].amount

\* A reference that says paid, and an event read late, twice or out of order,
\* never make a payment look more refunded, or paid, than it is: a bare
\* refund's own amount stands for the total only from below.
EventsReadTrue ==
  /\ \A r \in refs : r[2].state = "succeeded" => intents[r[2].intent].status = "succeeded"
  /\ \A e \in readEvents :
       /\ e.kind = "payment_succeeded" => intents[e.intent].status = "succeeded"
       /\ e.refundedTotal <= Refunded(intents[e.intent])
       /\ e.full => Refunded(intents[e.intent]) = intents[e.intent].amount

\* Charged once for a key, and never taken for more than the provider did.
StripeIsReadTrue == OneChargePerKey /\ EventsReadTrue
=============================================================================
