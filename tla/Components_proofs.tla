-------------------------- MODULE Components_proofs --------------------------
(***************************************************************************)
(* What TLAPS proves of the components that run beside the payment and the *)
(* flow runtime: OAuth connections (Integrations), subscriptions           *)
(* (Billing), merchants' charges (MerchantCharges), webhook deliveries     *)
(* (EventDispatch), the hosted request form (HostedRequests), owners       *)
(* editing one questionnaire (FlowAuthoring), the free times of a service  *)
(* (Scheduling), payments at Stripe (StripePayments), the configurable     *)
(* questionnaire (ConfigurableForm), messages to the customer              *)
(* (Notifications), external calendars (CalendarBusy) and images           *)
(* (MediaLibrary).  They share no variable; each part has its own          *)
(* inductive invariant.                                                    *)
(***************************************************************************)
EXTENDS Integrations, Billing, MerchantCharges, EventDispatch, HostedRequests,
        FlowAuthoring, Scheduling, StripePayments, ConfigurableForm, Notifications, CalendarBusy,
        MediaLibrary, Sorting, Summation, SequenceTheorems

-----------------------------------------------------------------------------
(* Connections: a callback is accepted once.                               *)

Acceptance == [nonce : Nonces, for : Tenants, at : Nat, again : BOOLEAN]
Token == [tid : Tenants, exp : Nat]
\* A nonce is consumed by the callback accepted under it, and the token of an
\* accepted callback is never handed out again.
LinkInv ==
  /\ time \in Nat
  /\ begun \in [Nonces -> {NoToken} \cup Token]
  /\ accepted \subseteq Acceptance
  /\ consumed = {a.nonce : a \in accepted}
  /\ \A a \in accepted : /\ Verifies(a.nonce)
                         /\ begun[a.nonce].tid = a.for
                         /\ a.at < begun[a.nonce].exp
                         /\ ~a.again
  /\ \A a, b \in accepted : a.nonce = b.nonce => a = b

\* No nonce is issued at the start.
LEMMA LinkStarts == LinkInit => LinkInv
BY DEF LinkInit, LinkInv

\* Beginning a connection issues a nonce of its own to the tenant.
LEMMA LinkBegins ==
  ASSUME LinkInv, NEW t \in Tenants, NEW n \in Nonces, BeginOAuth(t, n)
  PROVE LinkInv'
<1>1. time' = time /\ accepted' = accepted /\ consumed' = consumed /\ ~Verifies(n)
  BY DEF BeginOAuth
<1>2. StatePayload(t) \in Token BY OAuthAssumption DEF StatePayload, Token, LinkInv
<1>3. begun' \in [Nonces -> {NoToken} \cup Token] BY <1>2 DEF BeginOAuth, LinkInv
<1>4. \A m \in Nonces : Verifies(m) => begun'[m] = begun[m]
  BY <1>1 DEF BeginOAuth, LinkInv
<1>5. \A a \in accepted : a.nonce \in Nonces BY DEF LinkInv, Acceptance
<1>6. \A a \in accepted : begun'[a.nonce] = begun[a.nonce]
  BY <1>4, <1>5 DEF LinkInv
<1> QED BY <1>1, <1>3, <1>6 DEF LinkInv, Verifies

\* A callback that is accepted consumes its nonce.
LEMMA LinkVerifies ==
  ASSUME LinkInv, NEW n \in Nonces, NEW r \in Nonces, NEW t \in Tenants,
         VerifyCallback(n, r, t)
  PROVE LinkInv'
<1> DEFINE a0 == [nonce |-> n, for |-> t, at |-> time,
                  again |-> n \in {a.nonce : a \in accepted}]
<1>1. /\ time' = time /\ begun' = begun
      /\ consumed' = consumed \cup {n} /\ accepted' = accepted \cup {a0}
  BY DEF VerifyCallback, Consume
<1>2. /\ Verifies(n) /\ begun[n].tid = t /\ ~(time >= begun[n].exp)
      /\ n \notin consumed
  BY DEF VerifyCallback, Verdict
<1>3. begun[n].exp \in Nat BY <1>2 DEF LinkInv, Verifies, Token
<1>4. /\ a0 \in Acceptance /\ a0.nonce = n /\ a0.for = t /\ a0.at = time /\ ~a0.again
  <2>1. (n \in {a.nonce : a \in accepted}) = FALSE BY <1>2 DEF LinkInv
  <2>2. a0 = [nonce |-> n, for |-> t, at |-> time, again |-> FALSE] BY <2>1
  <2> HIDE DEF a0
  <2> QED BY <2>2 DEF LinkInv, Acceptance
<1>5. \A a \in accepted : a.nonce # n BY <1>2 DEF LinkInv
<1> HIDE DEF a0
<1>6. consumed' = {a.nonce : a \in accepted'}
  BY <1>1, <1>4 DEF LinkInv
<1>7. a0.at < begun[n].exp BY <1>2, <1>3, <1>4 DEF LinkInv
<1>8. /\ time' \in Nat /\ begun' \in [Nonces -> {NoToken} \cup Token]
      /\ accepted' \subseteq Acceptance
  BY <1>1, <1>4 DEF LinkInv
<1>9. \A a \in accepted' : /\ Verifies(a.nonce)' /\ begun'[a.nonce].tid = a.for
                           /\ a.at < begun'[a.nonce].exp /\ ~a.again
  BY <1>1, <1>2, <1>4, <1>7 DEF LinkInv, Verifies
<1>10. \A a, b \in accepted' : a.nonce = b.nonce => a = b
  BY <1>1, <1>4, <1>5 DEF LinkInv
<1> QED BY <1>6, <1>8, <1>9, <1>10 DEF LinkInv

\* Every step of connecting keeps what is counted of each nonce.
LEMMA LinkKeeps == LinkInv /\ [LinkNext]_linking => LinkInv'
<1> SUFFICES ASSUME LinkInv, [LinkNext]_linking PROVE LinkInv'
  OBVIOUS
<1>1. CASE \E t \in Tenants, n \in Nonces : BeginOAuth(t, n) BY <1>1, LinkBegins
<1>2. CASE \E n, r \in Nonces, t \in Tenants : VerifyCallback(n, r, t)
  BY <1>2, LinkVerifies
<1>3. ASSUME time' \in Nat, UNCHANGED <<begun, consumed, accepted>> PROVE LinkInv'
  BY <1>3 DEF LinkInv, Verifies
<1>4. CASE \E t \in Tenants : \/ ConnectConnection(t) \/ DisconnectConnection(t)
                              \/ RevokeConnection(t) \/ MarkConnectionError(t)
  BY <1>3, <1>4 DEF ConnectConnection, DisconnectConnection, RevokeConnection,
                    MarkConnectionError, LinkInv
<1>5. CASE TimePasses BY <1>3, <1>5 DEF TimePasses, LinkInv
<1>6. CASE UNCHANGED linking BY <1>3, <1>6 DEF linking, LinkInv
<1> QED BY <1>1, <1>2, <1>4, <1>5, <1>6 DEF LinkNext

\* A callback is accepted once, for the tenant that began the flow and before its
\* token expires (verifyCallback of oauth.ts), for every set of tenants and nonces.
THEOREM CallbacksCountOnce == LinkSpec => []CallbackOnce
<1>1. LinkInv => CallbackOnce BY DEF LinkInv, CallbackOnce
<1> QED BY <1>1, LinkStarts, LinkKeeps, PTL DEF LinkSpec

-----------------------------------------------------------------------------
(* Subscriptions: no period without its invoice, and canceled is final.    *)

PaidFor(docs, from) ==
  \E i \in DOMAIN docs : docs[i].status = "paid" /\ docs[i].from = from
\* What is true of a subscription and its invoices.
SubHolds(sub, docs) ==
  /\ ~sub.trial => PaidFor(docs, sub.from)
  /\ sub.addons \subseteq AddonsOf[sub.plan]
BillingInv ==
  /\ subs \in [Subscriptions -> Subscription \cup {NoSubscription}]
  /\ invoices \in [Subscriptions -> Seq(Invoice)]
  /\ \A s \in Existing : SubHolds(subs[s], invoices[s])

\* The states of a subscription; a cancelled one has no way out.
LEMMA TheMoves ==
  /\ SubscriptionStatus = {"incomplete", "trialing", "active", "past_due", "canceled"}
  /\ SubscriptionMoves["canceled"] = {}
BY DEF SubscriptionStatus, SubscriptionMoves

\* No subscription exists at the start.
LEMMA BillingStarts == BillingInit => BillingInv
BY DEF BillingInit, BillingInv, Existing

\* What is known of one subscription that exists.
LEMMA ExistingIsSubscription ==
  ASSUME BillingInv, NEW s \in Existing
  PROVE s \in Subscriptions /\ subs[s] \in Subscription /\ SubHolds(subs[s], invoices[s])
BY DEF BillingInv, Existing

\* It is enough that the one subscription put holds with its invoices.
LEMMA BillingPuts ==
  ASSUME BillingInv, NEW s \in Subscriptions, NEW sub \in Subscription,
         subs' = [subs EXCEPT ![s] = sub],
         invoices' \in [Subscriptions -> Seq(Invoice)],
         \A r \in Subscriptions : r # s => invoices'[r] = invoices[r],
         SubHolds(sub, invoices'[s])
  PROVE BillingInv'
<1>1. subs' \in [Subscriptions -> Subscription \cup {NoSubscription}] BY DEF BillingInv
<1>2. ASSUME NEW r \in Existing' PROVE SubHolds(subs[r], invoices[r])'
  <2>1. r \in Subscriptions /\ subs'[r] # NoSubscription BY <1>2 DEF Existing
  <2>2. CASE r = s
    <3>1. subs'[r] = sub BY <2>2 DEF BillingInv
    <3> QED BY <2>2, <3>1 DEF SubHolds, PaidFor
  <2>3. CASE r # s
    <3>1. subs'[r] = subs[r] /\ invoices'[r] = invoices[r] BY <2>1, <2>3 DEF BillingInv
    <3>2. SubHolds(subs[r], invoices[r]) BY <2>1, <3>1 DEF BillingInv, Existing
    <3> QED BY <3>1, <3>2 DEF SubHolds, PaidFor
  <2> QED BY <2>2, <2>3
<1> QED BY <1>1, <1>2 DEF BillingInv

\* A change of an existing record that leaves its period, its trial and its
\* invoices, and keeps its add-ons within its plan's.
LEMMA BillingRewrites ==
  ASSUME BillingInv, NEW s \in Existing, NEW sub \in Subscription, PutOnly(s, sub),
         sub.from = subs[s].from, sub.trial = subs[s].trial,
         sub.addons \subseteq AddonsOf[sub.plan]
  PROVE BillingInv'
<1>1. subs' = [subs EXCEPT ![s] = sub] /\ invoices' = invoices BY DEF PutOnly, Put
<1>2. s \in Subscriptions /\ SubHolds(subs[s], invoices[s]) BY ExistingIsSubscription
<1>3. SubHolds(sub, invoices'[s]) BY <1>1, <1>2 DEF SubHolds
<1> QED BY <1>1, <1>2, <1>3, BillingPuts DEF BillingInv

\* An invoice is added, and nothing of the others is lost.
LEMMA InvoiceAdded ==
  ASSUME BillingInv, NEW s \in Subscriptions, NEW sub \in Subscription,
         NEW status \in {"paid", "open"}, AddInvoice(s, sub, status)
  PROVE /\ invoices' \in [Subscriptions -> Seq(Invoice)]
        /\ \A r \in Subscriptions : r # s => invoices'[r] = invoices[r]
        /\ status = "paid" => PaidFor(invoices'[s], sub.from)
<1> DEFINE doc == [status |-> status, plan |-> sub.plan, from |-> sub.from]
<1>1. doc \in Invoice BY DEF Invoice, Subscription
<1>2. invoices' = [invoices EXCEPT ![s] = Append(invoices[s], doc)] BY DEF AddInvoice
<1>3. doc.status = status /\ doc.from = sub.from OBVIOUS
<1> HIDE DEF doc
<1>4. Append(invoices[s], doc) \in Seq(Invoice) BY <1>1 DEF BillingInv
<1>5. invoices'[s] = Append(invoices[s], doc) BY <1>2 DEF BillingInv
<1>6. /\ Len(invoices[s]) + 1 \in DOMAIN Append(invoices[s], doc)
      /\ Append(invoices[s], doc)[Len(invoices[s]) + 1] = doc
  BY <1>1 DEF BillingInv
<1>7. status = "paid" => PaidFor(invoices'[s], sub.from)
  BY <1>3, <1>5, <1>6 DEF PaidFor
<1> QED BY <1>2, <1>4, <1>7 DEF BillingInv

\* A new subscription has its first invoice, paid unless it is on trial.
LEMMA BillingCreates ==
  ASSUME BillingInv, NEW s \in Subscriptions, NEW p \in Plans, NEW a \in SUBSET Addons,
         NEW t \in 0 .. MaxPeriod, CreateSubscription(s, p, a, t)
  PROVE BillingInv'
<1> DEFINE trialing == p \in TrialPlans
           sub == [plan |-> p, status |-> IF trialing THEN "trialing" ELSE "active",
                   from |-> t, to |-> t + 1, trial |-> trialing,
                   ending |-> FALSE, addons |-> a]
           paid == IF trialing THEN "open" ELSE "paid"
<1>1. a \subseteq AddonsOf[p] /\ Put(s, sub) /\ AddInvoice(s, sub, paid)
  BY DEF CreateSubscription
<1>2. /\ sub.from = t /\ sub.addons = a /\ sub.plan = p /\ (sub.trial <=> trialing)
  OBVIOUS
<1>3. sub \in Subscription
  <2>1. trialing \in BOOLEAN OBVIOUS
  <2>2. t \in Nat /\ t + 1 \in Nat BY BillingAssumption
  <2>3. (IF trialing THEN "trialing" ELSE "active") \in SubscriptionStatus BY TheMoves
  <2> HIDE DEF trialing
  <2> QED BY <2>1, <2>2, <2>3 DEF Subscription
<1> HIDE DEF sub
<1>4. SubHolds(sub, invoices'[s]) BY <1>1, <1>2, <1>3, InvoiceAdded DEF SubHolds
<1>5. subs' = [subs EXCEPT ![s] = sub] BY <1>1 DEF Put
<1> QED BY <1>1, <1>3, <1>4, <1>5, InvoiceAdded, BillingPuts

\* A renewal opens a period and has its paid invoice.
LEMMA BillingRenews ==
  ASSUME BillingInv, NEW s \in Existing, NEW from \in Nat, NEW to \in Nat, Renewed(s, from, to)
  PROVE BillingInv'
<1> DEFINE sub == [subs[s] EXCEPT !.status = "active", !.from = from, !.to = to,
                                  !.trial = FALSE]
<1>1. Put(s, sub) /\ AddInvoice(s, sub, "paid") BY DEF Renewed
<1>2. /\ s \in Subscriptions /\ subs[s] \in Subscription /\ SubHolds(subs[s], invoices[s])
  BY ExistingIsSubscription
<1>3. /\ sub \in Subscription /\ sub.from = from /\ sub.plan = subs[s].plan
      /\ sub.addons = subs[s].addons
  BY <1>2, TheMoves DEF Subscription
<1> HIDE DEF sub
<1>4. SubHolds(sub, invoices'[s]) BY <1>1, <1>2, <1>3, InvoiceAdded DEF SubHolds
<1>5. subs' = [subs EXCEPT ![s] = sub] BY <1>1 DEF Put
<1> QED BY <1>1, <1>2, <1>3, <1>4, <1>5, InvoiceAdded, BillingPuts

\* An immediate cancellation bills nothing.
LEMMA BillingCancels ==
  ASSUME BillingInv, NEW s \in Existing, NEW at \in Nat, CancelImmediately(s, at)
  PROVE BillingInv'
<1> DEFINE sub == [subs[s] EXCEPT !.status = "canceled", !.ending = TRUE, !.to = at]
<1>1. PutOnly(s, sub) BY DEF CancelImmediately
<1>2. subs[s] \in Subscription /\ SubHolds(subs[s], invoices[s]) BY ExistingIsSubscription
<1>3. /\ sub \in Subscription /\ sub.from = subs[s].from /\ sub.trial = subs[s].trial
      /\ sub.plan = subs[s].plan /\ sub.addons = subs[s].addons
  BY <1>2, TheMoves DEF Subscription
<1> HIDE DEF sub
<1> QED BY <1>1, <1>2, <1>3, BillingRewrites DEF SubHolds

\* A payment that fails or comes late changes the status only.
LEMMA BillingBecomes ==
  ASSUME BillingInv, NEW s \in Existing, NEW status \in {"active", "past_due"},
         PutOnly(s, [subs[s] EXCEPT !.status = status])
  PROVE BillingInv'
<1> DEFINE sub == [subs[s] EXCEPT !.status = status]
<1>2. subs[s] \in Subscription /\ SubHolds(subs[s], invoices[s]) BY ExistingIsSubscription
<1>3. /\ sub \in Subscription /\ sub.from = subs[s].from /\ sub.trial = subs[s].trial
      /\ sub.plan = subs[s].plan /\ sub.addons = subs[s].addons
  BY <1>2, TheMoves DEF Subscription
<1> HIDE DEF sub
<1>4. PutOnly(s, sub) BY DEF sub
<1> QED BY <1>2, <1>3, <1>4, BillingRewrites DEF SubHolds

\* Ending with the period, or taking that back, leaves the invoices.
LEMMA BillingEnds ==
  ASSUME BillingInv, NEW s \in Existing, NEW ending \in BOOLEAN,
         PutOnly(s, [subs[s] EXCEPT !.ending = ending])
  PROVE BillingInv'
<1> DEFINE sub == [subs[s] EXCEPT !.ending = ending]
<1>2. subs[s] \in Subscription /\ SubHolds(subs[s], invoices[s]) BY ExistingIsSubscription
<1>3. /\ sub \in Subscription /\ sub.from = subs[s].from /\ sub.trial = subs[s].trial
      /\ sub.plan = subs[s].plan /\ sub.addons = subs[s].addons
  BY <1>2 DEF Subscription
<1> HIDE DEF sub
<1>4. PutOnly(s, sub) BY DEF sub
<1> QED BY <1>2, <1>3, <1>4, BillingRewrites DEF SubHolds

\* A change of plan keeps the add-ons that the new plan has.
LEMMA BillingChangesPlan ==
  ASSUME BillingInv, NEW s \in Existing, NEW p \in Plans, ChangePlan(s, p)
  PROVE BillingInv'
<1> DEFINE sub == [subs[s] EXCEPT !.plan = p, !.addons = @ \cap AddonsOf[p]]
<1>1. PutOnly(s, sub) BY DEF ChangePlan
<1>2. subs[s] \in Subscription BY ExistingIsSubscription
<1>3. /\ sub \in Subscription /\ sub.from = subs[s].from /\ sub.trial = subs[s].trial
      /\ sub.plan = p /\ sub.addons = subs[s].addons \cap AddonsOf[p]
  BY <1>2 DEF Subscription
<1> HIDE DEF sub
<1> QED BY <1>1, <1>3, BillingRewrites

\* Every step of billing keeps the invariant.
LEMMA BillingKeeps == BillingInv /\ [BillingNext]_billing => BillingInv'
<1> SUFFICES ASSUME BillingInv, [BillingNext]_billing PROVE BillingInv'
  OBVIOUS
<1>1. CASE \E s \in Subscriptions, p \in Plans, a \in SUBSET Addons, t \in 0 .. MaxPeriod :
             CreateSubscription(s, p, a, t)
  BY <1>1, BillingCreates
<1>2. ASSUME NEW s \in Existing, NEW p \in Plans, ChangePlan(s, p) PROVE BillingInv'
  BY <1>2, BillingChangesPlan
<1>3. ASSUME NEW s \in Existing, CancelAtPeriodEnd(s) PROVE BillingInv'
  BY <1>3, BillingEnds DEF CancelAtPeriodEnd
<1>4. ASSUME NEW s \in Existing, NEW at \in 0 .. MaxPeriod, CancelImmediately(s, at)
      PROVE BillingInv'
  BY <1>4, BillingCancels, BillingAssumption
<1>5. ASSUME NEW s \in Existing, Reactivate(s) PROVE BillingInv'
  BY <1>5, BillingBecomes, BillingEnds DEF Reactivate
<1>6. ASSUME NEW s \in Existing, NEW status \in {"active", "past_due"}, Become(s, status)
      PROVE BillingInv'
  BY <1>6, BillingBecomes DEF Become
<1>7. ASSUME NEW s \in Existing, NEW success \in BOOLEAN, SimulateRenewal(s, success)
      PROVE BillingInv'
  <2>1. subs[s].to \in Nat BY <1>7, ExistingIsSubscription DEF Subscription
  <2> QED BY <1>6, <1>7, <2>1, BillingCancels, BillingRenews DEF SimulateRenewal
<1>8. ASSUME NEW s \in Existing, NEW from \in 0 .. MaxPeriod, SyncRenewal(s, from)
      PROVE BillingInv'
  <2>1. from \in Nat /\ from + 1 \in Nat BY BillingAssumption
  <2> QED BY <1>8, <2>1, BillingRenews DEF SyncRenewal
<1>9. ASSUME NEW s \in Existing, SyncFailure(s) \/ SyncRecovery(s) \/ SyncTrialEnd(s)
      PROVE BillingInv'
  BY <1>6, <1>9 DEF SyncFailure, SyncRecovery, SyncTrialEnd
<1>10. ASSUME UNCHANGED <<subs, invoices>> PROVE BillingInv'
  BY <1>10 DEF BillingInv, Existing, SubHolds, PaidFor
<1>11. CASE \E s \in Existing : RecordUsage(s) BY <1>11, <1>10 DEF RecordUsage
<1>12. CASE UNCHANGED billing BY <1>12, <1>10 DEF billing
<1> QED
  BY <1>1, <1>2, <1>3, <1>4, <1>5, <1>7, <1>8, <1>9, <1>11, <1>12 DEF BillingNext

\* A canceled subscription is touched by no step.
LEMMA CanceledStays ==
  ASSUME BillingInv, [BillingNext]_billing, NEW s \in Existing, subs[s].status = "canceled"
  PROVE subs'[s] = subs[s] /\ invoices'[s] = invoices[s]
<1>1. s \in Subscriptions BY ExistingIsSubscription
<1>2. ASSUME NEW r \in Subscriptions, NEW sub, r # s, Put(r, sub) PROVE subs'[s] = subs[s]
  BY <1>1, <1>2 DEF Put, BillingInv
<1>3. ASSUME NEW r \in Subscriptions, NEW sub, r # s, PutOnly(r, sub)
      PROVE subs'[s] = subs[s] /\ invoices'[s] = invoices[s]
  BY <1>2, <1>3 DEF PutOnly
<1>4. ASSUME NEW r \in Subscriptions, NEW sub, NEW status, r # s, AddInvoice(r, sub, status)
      PROVE invoices'[s] = invoices[s]
  BY <1>1, <1>4 DEF AddInvoice, BillingInv
<1>5. CASE \E r \in Subscriptions, p \in Plans, a \in SUBSET Addons, t \in 0 .. MaxPeriod :
             CreateSubscription(r, p, a, t)
  <2> PICK r \in Subscriptions, p \in Plans, a \in SUBSET Addons, t \in 0 .. MaxPeriod :
        CreateSubscription(r, p, a, t)
    BY <1>5
  <2>1. r # s BY DEF CreateSubscription
  <2> QED BY <2>1, <1>2, <1>4 DEF CreateSubscription
<1>6. \A status : ~(MayBecome(s, status)) BY TheMoves DEF MayBecome
<1>7. ASSUME NEW r \in Existing, NEW status, Become(r, status)
      PROVE subs'[s] = subs[s] /\ invoices'[s] = invoices[s]
  <2>1. r # s /\ r \in Subscriptions BY <1>6, <1>7, ExistingIsSubscription DEF Become
  <2> QED BY <1>3, <1>7, <2>1 DEF Become
<1>8. ASSUME NEW r \in Existing, NEW from, NEW to, Renewed(r, from, to)
      PROVE subs'[s] = subs[s] /\ invoices'[s] = invoices[s]
  <2>1. r # s /\ r \in Subscriptions BY <1>6, <1>8, ExistingIsSubscription DEF Renewed
  <2> QED BY <1>2, <1>4, <1>8, <2>1 DEF Renewed
<1>9. ASSUME NEW r \in Existing, NEW at, CancelImmediately(r, at)
      PROVE subs'[s] = subs[s] /\ invoices'[s] = invoices[s]
  <2>1. r # s /\ r \in Subscriptions BY <1>6, <1>9, ExistingIsSubscription DEF CancelImmediately
  <2> QED BY <1>3, <1>9, <2>1 DEF CancelImmediately
<1>10. ASSUME NEW r \in Existing,
              CancelAtPeriodEnd(r) \/ Reactivate(r) \/ \E p \in Plans : ChangePlan(r, p)
       PROVE subs'[s] = subs[s] /\ invoices'[s] = invoices[s]
  <2>1. r # s /\ r \in Subscriptions
    BY <1>10, ExistingIsSubscription DEF CancelAtPeriodEnd, Reactivate, ChangePlan
  <2> QED BY <1>3, <1>10, <2>1 DEF CancelAtPeriodEnd, Reactivate, ChangePlan
<1>11. ASSUME NEW r \in Existing,
              \/ \E success \in BOOLEAN : SimulateRenewal(r, success)
              \/ \E from \in 0 .. MaxPeriod : SyncRenewal(r, from)
              \/ SyncFailure(r) \/ SyncRecovery(r) \/ SyncTrialEnd(r)
       PROVE subs'[s] = subs[s] /\ invoices'[s] = invoices[s]
  BY <1>7, <1>8, <1>9, <1>11
     DEF SimulateRenewal, SyncRenewal, SyncFailure, SyncRecovery, SyncTrialEnd
<1>12. CASE \E r \in Existing : RecordUsage(r) BY <1>12 DEF RecordUsage
<1>13. CASE UNCHANGED billing BY <1>13 DEF billing
<1> QED BY <1>5, <1>9, <1>10, <1>11, <1>12, <1>13 DEF BillingNext

\* Whatever sequence of requests and provider events: a subscription without a
\* trial is in a period with a paid invoice, its add-ons are its plan's, and a
\* canceled one changes no more (provider.ts, subscription.ts).
THEOREM SubscriptionsHold == BillingSpec => SubscriptionHolds
<1>1. BillingInv => PeriodIsPaid
  <2> SUFFICES ASSUME BillingInv, NEW s \in Existing
      PROVE /\ ~subs[s].trial => PaidFor(invoices[s], subs[s].from)
            /\ Grants(subs[s]) => ActiveAddons(subs[s]) = subs[s].addons
    BY DEF PeriodIsPaid, PaidFor
  <2>1. SubHolds(subs[s], invoices[s]) BY ExistingIsSubscription
  <2> QED BY <2>1 DEF SubHolds, ActiveAddons
<1>2. BillingInv /\ [BillingNext]_billing =>
        [\A s \in Existing : subs[s].status = "canceled" =>
           subs'[s] = subs[s] /\ invoices'[s] = invoices[s]]_billing
  BY CanceledStays
<1> QED BY <1>1, <1>2, BillingStarts, BillingKeeps, PTL
     DEF BillingSpec, SubscriptionHolds, CanceledIsFinal

-----------------------------------------------------------------------------
(* Charges: amounts, states and keys agree.                                *)

ChargeShape ==
  [state : MerchantPaymentState, amount : Nat, currency : Currencies,
   captured : Nat, refunded : Nat, key : Keys]
\* What is true of one charge: its amounts agree with each other and with its state.
Balanced(c) ==
  /\ c.amount > 0 /\ c.refunded <= c.captured /\ c.captured <= c.amount
  /\ (c.state = "authorized" <=> c.captured = 0)
  /\ (c.state = "refunded" <=> (c.captured > 0 /\ c.refunded = c.captured))
  /\ (c.state = "partially_refunded" <=> (0 < c.refunded /\ c.refunded < c.captured))
ChargesInv ==
  /\ charges \in [Providers -> Seq(ChargeShape)]
  /\ byKey \in [Providers -> [Keys -> Nat]]
  /\ \A p \in Providers : \A i \in DOMAIN charges[p] :
       Balanced(charges[p][i]) /\ byKey[p][charges[p][i].key] = i
\* What a step may do to a charge.
Follows(old, new) ==
  /\ new.refunded >= old.refunded
  /\ old.captured > 0 => new.captured = old.captured
ChargesFollow ==
  \A p \in Providers : \A i \in DOMAIN charges[p] : Follows(charges[p][i], charges'[p][i])

\* No charge exists at the start.
LEMMA ChargesStart == ChargesInit => ChargesInv
BY DEF ChargesInit, ChargesInv

\* What is known of one charge.
LEMMA ChargesAreCharges ==
  ASSUME ChargesInv, NEW p \in Providers, NEW i \in DOMAIN charges[p]
  PROVE /\ charges[p] \in Seq(ChargeShape) /\ charges[p][i] \in ChargeShape
        /\ i \in Nat \ {0} /\ i <= Len(charges[p]) /\ Balanced(charges[p][i])
        /\ byKey[p][charges[p][i].key] = i /\ charges[p][i].key \in Keys
<1>1. charges[p] \in Seq(ChargeShape) BY DEF ChargesInv
<1>2. i \in 1 .. Len(charges[p]) /\ charges[p][i] \in ChargeShape BY <1>1
<1>3. i \in Nat \ {0} /\ i <= Len(charges[p]) BY <1>1, <1>2
<1>4. charges[p][i].key \in Keys BY <1>2 DEF ChargeShape
<1> QED BY <1>1, <1>2, <1>3, <1>4 DEF ChargesInv

\* A charge that stays as it was follows itself.
LEMMA UntouchedFollow ==
  ASSUME NEW c \in ChargeShape PROVE Follows(c, c)
BY DEF Follows, ChargeShape

\* A new charge takes an unused key, and leaves the others.
LEMMA ChargesTaken ==
  ASSUME ChargesInv, NEW p \in Providers, NEW k \in Keys, NEW amount \in 1 .. MaxAmount,
         NEW currency \in Currencies, NEW state \in {"authorized", "captured"},
         NewCharge(p, k, amount, currency, state)
  PROVE ChargesInv' /\ ChargesFollow
<1> DEFINE c == [state |-> state, amount |-> amount, currency |-> currency,
                 captured |-> IF state = "captured" THEN amount ELSE 0,
                 refunded |-> 0, key |-> k]
           n == Len(charges[p]) + 1
<1>1. amount \in Nat /\ amount > 0 BY ChargesAssumption
<1>2. c \in ChargeShape /\ c.key = k
  BY <1>1 DEF ChargeShape, MerchantPaymentState
<1>3. Balanced(c) BY <1>1 DEF Balanced
<1>4. /\ byKey[p][k] = 0
      /\ charges' = [charges EXCEPT ![p] = Append(charges[p], c)]
      /\ byKey' = [byKey EXCEPT ![p][k] = Len(charges'[p])]
  BY DEF NewCharge
<1> HIDE DEF c
<1>5. charges[p] \in Seq(ChargeShape) BY DEF ChargesInv
<1>6. /\ charges'[p] = Append(charges[p], c)
      /\ \A q \in Providers : q # p => charges'[q] = charges[q]
      /\ charges' \in [Providers -> Seq(ChargeShape)]
  BY <1>2, <1>4, <1>5 DEF ChargesInv
<1>7. /\ Len(charges'[p]) = n /\ n \in Nat /\ charges'[p][n] = c
      /\ \A i \in 1 .. Len(charges[p]) : charges'[p][i] = charges[p][i]
      /\ DOMAIN charges'[p] = 1 .. n /\ DOMAIN charges[p] = 1 .. Len(charges[p])
  BY <1>2, <1>5, <1>6
<1>8. /\ byKey' \in [Providers -> [Keys -> Nat]]
      /\ byKey'[p][k] = n
      /\ \A l \in Keys : l # k => byKey'[p][l] = byKey[p][l]
      /\ \A q \in Providers : q # p => byKey'[q] = byKey[q]
  BY <1>4, <1>7 DEF ChargesInv
<1> HIDE DEF n
<1>9. ASSUME NEW q \in Providers, NEW i \in DOMAIN charges'[q]
      PROVE Balanced(charges'[q][i]) /\ byKey'[q][charges'[q][i].key] = i
  <2>1. CASE q # p
    <3>1. charges'[q] = charges[q] /\ byKey'[q] = byKey[q] BY <2>1, <1>6, <1>8
    <3> QED BY <3>1, <1>9, ChargesAreCharges
  <2>2. CASE q = p /\ i = n BY <2>2, <1>2, <1>3, <1>7, <1>8
  <2>3. CASE q = p /\ i # n
    <3>1. i \in DOMAIN charges[p] BY <2>3, <1>7, <1>9 DEF n
    <3>2. charges'[p][i] = charges[p][i] BY <3>1, <1>7
    <3>3. /\ Balanced(charges[p][i]) /\ byKey[p][charges[p][i].key] = i
          /\ charges[p][i].key \in Keys /\ i # 0
      BY <3>1, ChargesAreCharges
    <3>4. charges[p][i].key # k BY <3>3, <1>4
    <3> QED BY <2>3, <3>2, <3>3, <3>4, <1>8
  <2> QED BY <2>1, <2>2, <2>3
<1>10. ChargesInv' BY <1>6, <1>8, <1>9 DEF ChargesInv
<1>11. ASSUME NEW q \in Providers, NEW i \in DOMAIN charges[q]
       PROVE Follows(charges[q][i], charges'[q][i])
  <2>1. charges'[q][i] = charges[q][i] BY <1>6, <1>7, <1>11
  <2> QED BY <2>1, <1>11, ChargesAreCharges, UntouchedFollow
<1> QED BY <1>10, <1>11 DEF ChargesFollow

\* An amended charge that balances and follows its state is enough.
LEMMA ChargesAmended ==
  ASSUME ChargesInv, NEW p \in Providers, NEW i \in DOMAIN charges[p], NEW c \in ChargeShape,
         Amend(p, i, c), Balanced(c), c.key = charges[p][i].key, Follows(charges[p][i], c)
  PROVE ChargesInv' /\ ChargesFollow
<1>1. charges' = [charges EXCEPT ![p][i] = c] /\ byKey' = byKey BY DEF Amend
<1>2. charges[p] \in Seq(ChargeShape) BY DEF ChargesInv
<1>3. /\ charges'[p] = [charges[p] EXCEPT ![i] = c]
      /\ \A q \in Providers : q # p => charges'[q] = charges[q]
      /\ DOMAIN charges' = Providers /\ charges' = [q \in Providers |-> charges'[q]]
  BY <1>1 DEF ChargesInv
<1>4. [charges[p] EXCEPT ![i] = c] \in Seq(ChargeShape) BY <1>2
<1>5. charges' \in [Providers -> Seq(ChargeShape)]
  <2>1. ASSUME NEW q \in Providers PROVE charges'[q] \in Seq(ChargeShape)
    <3>1. CASE q = p BY <3>1, <1>3, <1>4
    <3>2. CASE q # p
      <4>1. charges'[q] = charges[q] BY <3>2, <1>3
      <4> QED BY <4>1 DEF ChargesInv
    <3> QED BY <3>1, <3>2
  <2> QED BY <2>1, <1>3
<1>6. /\ DOMAIN charges'[p] = DOMAIN charges[p] /\ charges'[p][i] = c
      /\ \A j \in DOMAIN charges[p] : j # i => charges'[p][j] = charges[p][j]
  BY <1>2, <1>3
<1>7. ASSUME NEW q \in Providers, NEW j \in DOMAIN charges'[q]
      PROVE Balanced(charges'[q][j]) /\ byKey'[q][charges'[q][j].key] = j
  <2>1. CASE q # p
    <3>1. charges'[q] = charges[q] BY <2>1, <1>3
    <3> QED BY <3>1, <1>1, <1>7, ChargesAreCharges
  <2>2. CASE q = p /\ j = i BY <2>2, <1>1, <1>6, ChargesAreCharges
  <2>3. CASE q = p /\ j # i BY <2>3, <1>1, <1>6, <1>7, ChargesAreCharges
  <2> QED BY <2>1, <2>2, <2>3
<1>8. ChargesInv' BY <1>1, <1>5, <1>7 DEF ChargesInv
<1>9. ASSUME NEW q \in Providers, NEW j \in DOMAIN charges[q]
      PROVE Follows(charges[q][j], charges'[q][j])
  <2>1. CASE q = p /\ j = i BY <2>1, <1>6
  <2>2. CASE ~(q = p /\ j = i)
    <3>1. charges'[q][j] = charges[q][j] BY <2>2, <1>3, <1>6, <1>9
    <3> QED BY <3>1, <1>9, ChargesAreCharges, UntouchedFollow
  <2> QED BY <2>1, <2>2
<1> QED BY <1>8, <1>9 DEF ChargesFollow

\* A capture takes at most what was authorized.
LEMMA ChargesCaptured ==
  ASSUME ChargesInv, NEW p \in Providers, NEW i \in DOMAIN charges[p],
         NEW amount \in 1 .. MaxAmount, NEW currency, Capture(p, i, amount, currency)
  PROVE ChargesInv' /\ ChargesFollow
<1> DEFINE old == charges[p][i]
           c == [old EXCEPT !.state = "captured", !.captured = amount]
<1>1. Amend(p, i, c) /\ old.state = "authorized" /\ amount <= old.amount BY DEF Capture
<1>2. old \in ChargeShape /\ Balanced(old) BY ChargesAreCharges
<1>3. amount \in Nat /\ amount > 0 BY ChargesAssumption
<1> HIDE DEF old
<1>4. /\ c \in ChargeShape /\ c.state = "captured" /\ c.captured = amount
      /\ c.refunded = old.refunded /\ c.amount = old.amount /\ c.key = old.key
  BY <1>2, <1>3 DEF ChargeShape, MerchantPaymentState
<1> HIDE DEF c
<1>5. old.captured = 0 /\ old.refunded = 0 BY <1>1, <1>2 DEF Balanced, ChargeShape
<1>6. Balanced(c) BY <1>1, <1>2, <1>3, <1>4, <1>5 DEF Balanced, ChargeShape
<1>7. Follows(old, c) BY <1>4, <1>5 DEF Follows
<1> QED BY <1>1, <1>4, <1>6, <1>7, ChargesAmended DEF old

\* A full refund returns what is left of the captured amount.
LEMMA ChargesRefunded ==
  ASSUME ChargesInv, NEW p \in Providers, NEW i \in DOMAIN charges[p], Refund(p, i)
  PROVE ChargesInv' /\ ChargesFollow
<1> DEFINE old == charges[p][i]
           c == [old EXCEPT !.state = "refunded", !.refunded = old.captured]
<1>1. Amend(p, i, c) /\ old.state = "captured" BY DEF Refund
<1>2. old \in ChargeShape /\ Balanced(old) BY ChargesAreCharges
<1> HIDE DEF old
<1>4. /\ c \in ChargeShape /\ c.state = "refunded" /\ c.captured = old.captured
      /\ c.refunded = old.captured /\ c.amount = old.amount /\ c.key = old.key
  BY <1>2 DEF ChargeShape, MerchantPaymentState
<1> HIDE DEF c
<1>6. Balanced(c) BY <1>1, <1>2, <1>4 DEF Balanced, ChargeShape
<1>7. Follows(old, c) BY <1>2, <1>4 DEF Follows, Balanced, ChargeShape
<1> QED BY <1>1, <1>4, <1>6, <1>7, ChargesAmended DEF old

\* A partial refund returns at most what is left of it.
LEMMA ChargesPartlyRefunded ==
  ASSUME ChargesInv, NEW p \in Providers, NEW i \in DOMAIN charges[p],
         NEW amount \in 1 .. MaxAmount, NEW currency, PartialRefund(p, i, amount, currency)
  PROVE ChargesInv' /\ ChargesFollow
<1> DEFINE old == charges[p][i]
           total == old.refunded + amount
           state == IF total = old.captured THEN "refunded" ELSE "partially_refunded"
           c == [old EXCEPT !.refunded = total, !.state = state]
<1>1. /\ Amend(p, i, c) /\ old.state \in {"captured", "partially_refunded"}
      /\ total <= old.captured
  BY DEF PartialRefund
<1>2. old \in ChargeShape /\ Balanced(old) BY ChargesAreCharges
<1>3. amount \in Nat /\ amount > 0 BY ChargesAssumption
<1> HIDE DEF old
<1>4. total \in Nat /\ total > old.refunded BY <1>2, <1>3 DEF ChargeShape
<1>5. /\ state \in MerchantPaymentState BY DEF MerchantPaymentState
<1>6. /\ total = old.captured => state = "refunded"
      /\ total # old.captured => state = "partially_refunded"
  OBVIOUS
<1> HIDE DEF total, state
<1>7. /\ c \in ChargeShape /\ c.state = state /\ c.captured = old.captured
      /\ c.refunded = total /\ c.amount = old.amount /\ c.key = old.key
  BY <1>2, <1>4, <1>5 DEF ChargeShape
<1> HIDE DEF c
<1>8. Balanced(c) BY <1>1, <1>2, <1>4, <1>6, <1>7 DEF Balanced, ChargeShape
<1>9. Follows(old, c) BY <1>2, <1>4, <1>7 DEF Follows, ChargeShape
<1> QED BY <1>1, <1>7, <1>8, <1>9, ChargesAmended DEF old

\* Every step keeps the charges, each following its former state.
LEMMA ChargesKeep == ChargesInv /\ [ChargesNext]_charging => ChargesInv' /\ [ChargesFollow]_charging
<1> SUFFICES ASSUME ChargesInv, [ChargesNext]_charging PROVE ChargesInv' /\ [ChargesFollow]_charging
  OBVIOUS
<1>1. ASSUME UNCHANGED <<charges, byKey>> PROVE ChargesInv' /\ ChargesFollow
  <2>1. ChargesInv' BY <1>1 DEF ChargesInv
  <2>2. ASSUME NEW p \in Providers, NEW i \in DOMAIN charges[p]
        PROVE Follows(charges[p][i], charges'[p][i])
    BY <1>1, <2>2, ChargesAreCharges, UntouchedFollow
  <2> QED BY <2>1, <2>2 DEF ChargesFollow
<1>2. CASE UNCHANGED charging BY <1>1, <1>2 DEF charging
<1>3. CASE ChargesNext
  <2> PICK p \in Providers, country \in Countries, currency \in Currencies,
           amount \in 1 .. MaxAmount, method \in Methods :
        \/ \E k \in Keys :
             \/ CreateCharge(p, k, amount, country, currency, method)
             \/ Authorize(p, k, amount, country, currency, method)
             \/ ChargeSavedMethod(p, method, k, amount, country, currency)
        \/ \E i \in DOMAIN charges[p] :
             \/ Capture(p, i, amount, currency)
             \/ Refund(p, i)
             \/ PartialRefund(p, i, amount, currency)
        \/ SaveMethod(p, method)
        \/ OnboardMarketplaceAccount(p, country)
    BY <1>3 DEF ChargesNext
  <2>1. CASE \E k \in Keys : \/ CreateCharge(p, k, amount, country, currency, method)
                             \/ Authorize(p, k, amount, country, currency, method)
                             \/ ChargeSavedMethod(p, method, k, amount, country, currency)
    BY <2>1, ChargesTaken DEF CreateCharge, Authorize, ChargeSavedMethod
  <2>2. CASE \E i \in DOMAIN charges[p] : \/ Capture(p, i, amount, currency)
                                          \/ Refund(p, i)
                                          \/ PartialRefund(p, i, amount, currency)
    BY <2>2, ChargesCaptured, ChargesRefunded, ChargesPartlyRefunded
  <2>3. CASE SaveMethod(p, method) \/ OnboardMarketplaceAccount(p, country)
    BY <2>3, <1>1 DEF SaveMethod, OnboardMarketplaceAccount
  <2> QED BY <2>1, <2>2, <2>3
<1> QED BY <1>2, <1>3

\* No charge captures more than was agreed or returns more than was captured,
\* its state says how much is back, a key buys once, and no step takes a capture
\* or a refund back (packages/payments), for every registry of providers.
THEOREM ChargesAreHeld == ChargesSpec => ChargesHold
<1>1. ChargesInv => ChargesBalance
  <2> SUFFICES ASSUME ChargesInv, NEW p \in Providers, NEW i \in DOMAIN charges[p]
      PROVE LET c == charges[p][i]
            IN /\ c.refunded <= c.captured /\ c.captured <= c.amount
               /\ (c.state = "authorized" <=> c.captured = 0)
               /\ (c.state = "refunded" <=> (c.captured > 0 /\ c.refunded = c.captured))
               /\ (c.state = "partially_refunded" <=> (0 < c.refunded /\ c.refunded < c.captured))
               /\ byKey[p][c.key] = i
    BY DEF ChargesBalance
  <2> QED BY ChargesAreCharges DEF Balanced
<1>2. ChargesInv /\ [ChargesNext]_charging =>
        [\A p \in Providers : \A i \in DOMAIN charges[p] :
           LET old == charges[p][i]
               new == charges'[p][i]
           IN /\ new.refunded >= old.refunded
              /\ old.captured > 0 => new.captured = old.captured]_charging
  BY ChargesKeep DEF ChargesFollow, Follows
<1> QED BY <1>1, <1>2, ChargesStart, ChargesKeep, PTL
     DEF ChargesSpec, ChargesHold, RefundsOnlyGrow

-----------------------------------------------------------------------------
(* Deliveries: what is reported happened.                                  *)

\* Of a delivery: a success was acted on, a dead letter used up its attempts, what
\* is neither has some left, and each failure counted was reported.
DeliveryHolds(o, failed, acted) ==
  /\ failed \in Nat /\ acted \in {0, 1}
  /\ o.attempts \in 0 .. MaxAttempts
  /\ o.status \in {"new", "failed", "delivered", "dead_letter"}
  /\ o.status = "delivered" => acted = 1 /\ o.attempts - 1 <= failed
  /\ o.status = "dead_letter" => o.attempts = MaxAttempts
  /\ o.status \in {"new", "failed"} => o.attempts < MaxAttempts
  /\ o.status # "delivered" => o.attempts <= failed
\* Of an attempt on its way: it follows failures that were reported, however old
\* the outcome it started from is by now, and a good answer was earned.
AttemptHolds(way) ==
  /\ way = [delivery |-> way.delivery, attempt |-> way.attempt, at |-> way.at,
            answer |-> way.answer]
  /\ way.delivery \in Deliveries
  /\ way.attempt \in 1 .. MaxAttempts /\ way.attempt - 1 <= failures[way.delivery]
  /\ way.answer \in {"none", "delivered", "failed"}
  /\ way.answer = "delivered" => processed[way.delivery] = 1
DispatchInv ==
  /\ outcome = [d \in Deliveries |-> outcome[d]]
  /\ failures \in [Deliveries -> Nat]
  /\ processed \in [Deliveries -> {0, 1}]
  /\ sent = [t \in Ticks |-> sent[t]]
  /\ \A d \in Deliveries : DeliveryHolds(outcome[d], failures[d], processed[d])
  /\ \A t \in Ticks : sent[t] # None => AttemptHolds(sent[t])

\* No delivery was tried at the start.
LEMMA DispatchStarts == DispatchInit => DispatchInv
BY DispatchAssumption DEF DispatchInit, DispatchInv, DeliveryHolds, NotTried, None

\* A step of one tick, which may tell more of one delivery.
LEMMA OneTick ==
  ASSUME DispatchInv, NEW t \in Ticks, NEW way, sent' = [sent EXCEPT ![t] = way],
         NEW d \in Deliveries, NEW o, NEW failed, NEW acted,
         outcome' = [outcome EXCEPT ![d] = o],
         failures' = [failures EXCEPT ![d] = failed], failed >= failures[d],
         processed' = [processed EXCEPT ![d] = acted], acted >= processed[d],
         DeliveryHolds(o, failed, acted),
         way # None => AttemptHolds(way)'
  PROVE DispatchInv'
<1>1. failed \in Nat /\ acted \in {0, 1} BY DEF DeliveryHolds
<1>2. /\ outcome' = [e \in Deliveries |-> outcome'[e]]
      /\ failures' \in [Deliveries -> Nat]
      /\ processed' \in [Deliveries -> {0, 1}]
      /\ sent' = [u \in Ticks |-> sent'[u]]
  BY <1>1 DEF DispatchInv
<1>3. ASSUME NEW e \in Deliveries
      PROVE /\ failures'[e] >= failures[e]
            /\ processed[e] = 1 => processed'[e] = 1
            /\ DeliveryHolds(outcome'[e], failures'[e], processed'[e])
  <2>1. CASE e = d
    <3>1. outcome'[e] = o /\ failures'[e] = failed /\ processed'[e] = acted
      BY <2>1 DEF DispatchInv
    <3>2. processed[e] \in {0, 1} BY DEF DispatchInv
    <3> QED BY <2>1, <3>1, <3>2, <1>1
  <2>2. CASE e # d
    <3>1. /\ outcome'[e] = outcome[e] /\ failures'[e] = failures[e]
          /\ processed'[e] = processed[e] /\ failures[e] \in Nat
      BY <2>2 DEF DispatchInv
    <3> QED BY <3>1 DEF DispatchInv
  <2> QED BY <2>1, <2>2
<1>4. ASSUME NEW u \in Ticks, sent'[u] # None PROVE AttemptHolds(sent[u])'
  <2>1. CASE u = t
    <3>1. sent'[u] = way BY <2>1 DEF DispatchInv
    <3> QED BY <3>1, <1>4 DEF AttemptHolds
  <2>2. CASE u # t
    <3>1. sent'[u] = sent[u] /\ AttemptHolds(sent[u])
      BY <2>2, <1>4 DEF DispatchInv
    <3>2. /\ failures[sent[u].delivery] \in Nat /\ failures'[sent[u].delivery] \in Nat
      BY <3>1, <1>2 DEF AttemptHolds, DispatchInv
    <3> QED BY <3>1, <3>2, <1>3 DEF AttemptHolds
  <2> QED BY <2>1, <2>2
<1> QED
  <2>1. \A e \in Deliveries : DeliveryHolds(outcome[e], failures[e], processed[e])'
    BY <1>3 DEF DeliveryHolds
  <2> QED BY <1>2, <1>4, <2>1 DEF DispatchInv

\* A function updated with its own value at a delivery is the same.
LEMMA DeliveryAsItWas ==
  ASSUME DispatchInv, NEW d \in Deliveries
  PROVE /\ outcome = [outcome EXCEPT ![d] = outcome[d]]
        /\ failures = [failures EXCEPT ![d] = failures[d]] /\ failures[d] \in Nat
        /\ processed = [processed EXCEPT ![d] = processed[d]]
        /\ processed[d] \in {0, 1}
        /\ DeliveryHolds(outcome[d], failures[d], processed[d])
BY DEF DispatchInv

\* A step of a tick that tells nothing new of any delivery.
LEMMA OnlyTheTick ==
  ASSUME DispatchInv, NEW t \in Ticks, NEW way, sent' = [sent EXCEPT ![t] = way],
         UNCHANGED <<outcome, failures, processed>>, way # None => AttemptHolds(way)
  PROVE DispatchInv'
<1>1. way # None => AttemptHolds(way)' BY DEF AttemptHolds
<1>2. CASE \E d \in Deliveries : TRUE
  <2>1. PICK d \in Deliveries : TRUE BY <1>2
  <2>2. failures[d] >= failures[d] /\ processed[d] >= processed[d] BY DeliveryAsItWas
  <2>3. /\ outcome' = [outcome EXCEPT ![d] = outcome[d]]
        /\ failures' = [failures EXCEPT ![d] = failures[d]]
        /\ processed' = [processed EXCEPT ![d] = processed[d]]
    BY DeliveryAsItWas
  <2> QED BY <1>1, <2>2, <2>3, DeliveryAsItWas, OneTick
<1>3. CASE ~\E d \in Deliveries : TRUE
  <2>1. sent' = [u \in Ticks |-> sent'[u]] BY DEF DispatchInv
  <2>2. ASSUME NEW u \in Ticks, sent'[u] # None PROVE FALSE
    <3>1. sent'[u] = IF u = t THEN way ELSE sent[u] BY DEF DispatchInv
    <3> QED BY <3>1, <2>2, <1>3 DEF DispatchInv, AttemptHolds
  <2> QED BY <1>3, <2>1, <2>2 DEF DispatchInv
<1> QED BY <1>2, <1>3

\* An attempt follows the failures of the outcome it starts from.
LEMMA DispatchAttempts ==
  ASSUME DispatchInv, NEW t \in Ticks, NEW d \in Deliveries, NEW now, Attempt(t, d, now)
  PROVE DispatchInv'
<1>0. PICK way : way = Signed(d, now) OBVIOUS
<1>1. /\ way = [delivery |-> d, attempt |-> way.attempt, at |-> way.at, answer |-> "none"]
      /\ way.attempt = outcome[d].attempts + 1
  BY <1>0 DEF Signed
<1>2. outcome[d].status \in {"new", "failed"}
  BY DeliveryAsItWas DEF Attempt, Terminal, DeliveryHolds
<1>3. AttemptHolds(way)
  BY <1>1, <1>2, DeliveryAsItWas, DispatchAssumption DEF AttemptHolds, DeliveryHolds
<1> QED BY <1>0, <1>3, OnlyTheTick DEF Attempt

\* A good answer is that of an endpoint that acted on the event.
LEMMA DispatchReceives ==
  ASSUME DispatchInv, NEW t \in Ticks, Receive(t)
  PROVE DispatchInv'
<1>1. AttemptHolds(sent[t]) BY DEF DispatchInv, Receive
<1>2. PICK d : d = sent[t].delivery OBVIOUS
<1>3. PICK fresh \in BOOLEAN : fresh <=> Fresh(sent[t]) OBVIOUS
<1>4. PICK way : way = [sent[t] EXCEPT !.answer = IF fresh THEN "delivered" ELSE "failed"]
  OBVIOUS
<1>5. PICK acted : acted = IF fresh /\ processed[d] = 0 THEN 1 ELSE processed[d]
  OBVIOUS
<1>6. d \in Deliveries BY <1>1, <1>2 DEF AttemptHolds
<1>7. sent' = [sent EXCEPT ![t] = way] /\ UNCHANGED <<outcome, failures>>
  BY <1>3, <1>4 DEF Receive, DispatchInv
<1>8. processed' = [processed EXCEPT ![d] = acted]
  BY <1>2, <1>3, <1>5, <1>6 DEF Receive, DispatchInv
<1>9. /\ way = [delivery |-> d, attempt |-> sent[t].attempt, at |-> sent[t].at,
                answer |-> IF fresh THEN "delivered" ELSE "failed"]
      /\ acted \in {0, 1} /\ acted >= processed[d] /\ (fresh => acted = 1)
  BY <1>1, <1>2, <1>4, <1>5, <1>6, DeliveryAsItWas DEF AttemptHolds
<1>10. /\ outcome' = [outcome EXCEPT ![d] = outcome[d]]
       /\ failures' = [failures EXCEPT ![d] = failures[d]]
       /\ failures[d] >= failures[d] /\ processed'[d] = acted
       /\ DeliveryHolds(outcome[d], failures[d], acted)
  BY <1>6, <1>7, <1>8, <1>9, DeliveryAsItWas DEF DeliveryHolds, DispatchInv
<1>11. AttemptHolds(way)'
  BY <1>1, <1>2, <1>6, <1>7, <1>9, <1>10 DEF AttemptHolds
<1> QED BY <1>6, <1>7, <1>8, <1>9, <1>10, <1>11, OneTick

\* A lost answer is a failure, and an exception leaves nothing on its way.
LEMMA DispatchLoses ==
  ASSUME DispatchInv, NEW t \in Ticks, Lose(t) \/ Throw(t)
  PROVE DispatchInv'
<1>1. AttemptHolds(sent[t]) BY DEF DispatchInv, Lose, Throw
<1>2. CASE Lose(t)
  <2>0. PICK way : way = [sent[t] EXCEPT !.answer = "failed"] OBVIOUS
  <2>1. way = [delivery |-> sent[t].delivery, attempt |-> sent[t].attempt,
               at |-> sent[t].at, answer |-> "failed"]
    BY <1>1, <2>0 DEF AttemptHolds
  <2>2. AttemptHolds(way) BY <1>1, <2>1 DEF AttemptHolds
  <2> QED BY <1>2, <2>0, <2>2, OnlyTheTick DEF Lose
<1>3. CASE Throw(t) BY <1>3, OnlyTheTick DEF Throw
<1> QED BY <1>2, <1>3

\* What is recorded of an attempt is what came of it, whatever was recorded since
\* it was made.
LEMMA DispatchRecords ==
  ASSUME DispatchInv, NEW t \in Ticks, Record(t)
  PROVE DispatchInv'
<1> DEFINE d == sent[t].delivery
           n == sent[t].attempt
           status == IF sent[t].answer = "delivered" THEN "delivered"
                     ELSE IF n >= MaxAttempts THEN "dead_letter" ELSE "failed"
           o == [status |-> status, attempts |-> n,
                 due |-> IF status = "failed" THEN sent[t].at + NextRetryDelay(n) ELSE 0]
           failed == IF status = "delivered" THEN failures[d] ELSE failures[d] + 1
<1>1. AttemptHolds(sent[t]) BY DEF DispatchInv, Record
<1>2. d \in Deliveries /\ n \in 1 .. MaxAttempts /\ n - 1 <= failures[d]
  BY <1>1 DEF AttemptHolds
<1>3. /\ outcome' = [outcome EXCEPT ![d] = o] /\ sent' = [sent EXCEPT ![t] = None]
      /\ failures' = [failures EXCEPT ![d] = failed]
      /\ processed' = [processed EXCEPT ![d] = processed[d]]
  BY <1>2, DeliveryAsItWas DEF Record, DispatchInv
<1>4. o.status = status /\ o.attempts = n OBVIOUS
<1>5. /\ status \in {"delivered", "dead_letter", "failed"}
      /\ status = "delivered" => processed[d] = 1
      /\ status = "dead_letter" => n >= MaxAttempts
      /\ status = "failed" => ~(n >= MaxAttempts)
      /\ failed = IF status = "delivered" THEN failures[d] ELSE failures[d] + 1
  BY <1>1 DEF AttemptHolds
<1>6. failures[d] \in Nat /\ processed[d] \in {0, 1}
  BY <1>2, DeliveryAsItWas
<1> HIDE DEF d, n, o, status, failed
<1>7. DeliveryHolds(o, failed, processed[d]) /\ failed >= failures[d]
  BY <1>2, <1>4, <1>5, <1>6, DispatchAssumption DEF DeliveryHolds
<1>8. processed[d] >= processed[d] BY <1>6
<1> QED BY <1>2, <1>3, <1>7, <1>8, OneTick

\* Every step of the dispatch keeps the invariant.
LEMMA DispatchKeeps == DispatchInv /\ [DispatchNext]_dispatching => DispatchInv'
<1> SUFFICES ASSUME DispatchInv, [DispatchNext]_dispatching PROVE DispatchInv'
  OBVIOUS
<1>1. ASSUME NEW t \in Ticks, NEW d \in Deliveries,
             \E now \in {clock, outcome[d].due} : Attempt(t, d, now)
      PROVE DispatchInv'
  BY <1>1, DispatchAttempts
<1>2. ASSUME NEW t \in Ticks, Receive(t) \/ Lose(t) \/ Throw(t) \/ Record(t)
      PROVE DispatchInv'
  BY <1>2, DispatchReceives, DispatchLoses, DispatchRecords
<1>3. CASE ClockTicks \/ UNCHANGED dispatching
  <2>1. UNCHANGED <<outcome, sent, failures, processed>>
    BY <1>3 DEF ClockTicks, dispatching
  <2> QED BY <2>1 DEF DispatchInv, DeliveryHolds, AttemptHolds
<1> QED BY <1>1, <1>2, <1>3 DEF DispatchNext

\* However many ticks overlap and exceptions end them, a delivery reported as made
\* was acted on by its endpoint, one in the dead letters used up its attempts, and
\* no outcome counts a failure that was not reported (dispatch).
THEOREM OutcomesAreTrue == DispatchSpec => []OutcomeIsTrue
<1>1. DispatchInv => OutcomeIsTrue
  BY DEF DispatchInv, DeliveryHolds, OutcomeIsTrue
<1> QED BY <1>1, DispatchStarts, DispatchKeeps, PTL DEF DispatchSpec

-----------------------------------------------------------------------------
(* The hosted form: one body per session.                                  *)

Body == [key : Nat, content : Contents \cup {NoContent}]
PageShape == [session : 0 .. MaxSessions, form : Contents \cup {NoContent},
              pending : Body, busy : BOOLEAN, reference : Nat]
SessionShape == [status : {"none", "open", "expired"}, stored : Body]
SessionIds == Pages \X (1 .. MaxSessions)

HostedTypes ==
  /\ page \in [Pages -> PageShape]
  /\ session \in [SessionIds -> SessionShape]
  /\ keysDrawn \in Nat
\* A page's sessions are numbered from one without a gap.
Numbered == \A p \in Pages : \E k \in 0 .. MaxSessions :
  \A n \in 1 .. MaxSessions : (session[<<p, n>>].status # "none" <=> n <= k)
Untouched == \A s \in SessionIds : session[s].status = "none" => session[s] = NoSession
\* What travels was sent by a session that exists, and says something.
Sent(w) ==
  /\ w.page \in Pages /\ w.session \in SessionIds /\ w.session[1] = w.page
  /\ w.body \in Body /\ w.body # NoBody
  /\ session[w.session].status # "none"
\* A page in a session has one body: what it waits for, what travels under
\* its session and what is stored there are the same.
OneBody(p) ==
  /\ page[p].session = 0 => page[p].pending = NoBody
  /\ page[p].session > 0 =>
       /\ session[Mine(p)].status # "none"
       /\ session[Mine(p)].stored \in {NoBody, page[p].pending}
       /\ \A w \in onWire : w.session = Mine(p) => w.body = page[p].pending
HostedInv == /\ HostedTypes /\ Numbered /\ Untouched
             /\ \A w \in onWire : Sent(w)
             /\ \A p \in Pages : OneBody(p)

\* The values that stand for nothing have their shapes.
LEMMA BlankBodies == NoBody \in Body /\ Opening \in PageShape /\ NoSession \in SessionShape
  /\ NoSession.status = "none" /\ NoSession.stored = NoBody
  /\ Opening.session = 0 /\ Opening.pending = NoBody
BY HostedAssumption DEF Body, PageShape, SessionShape, NoBody, Opening, NoSession

\* A page opened with a session, or with a reference, awaits nothing.
LEMMA OpenedAnew ==
  /\ \A n \in 0 .. MaxSessions : LET o == [Opening EXCEPT !.session = n]
       IN o \in PageShape /\ o.session = n /\ o.pending = NoBody
  /\ \A n \in Nat : LET o == [Opening EXCEPT !.reference = n]
       IN o \in PageShape /\ o.session = 0 /\ o.pending = NoBody
BY BlankBodies DEF Opening, PageShape

\* No session exists at the start.
LEMMA HostedStarts == HostedInit => HostedInv
<1> SUFFICES ASSUME HostedInit PROVE HostedInv OBVIOUS
<1>1. HostedTypes BY BlankBodies DEF HostedInit, HostedTypes, SessionIds
<1>2. \A s \in SessionIds : session[s] = NoSession BY DEF HostedInit, SessionIds
<1>3. Untouched BY <1>2 DEF Untouched
<1>4. Numbered
  <2> SUFFICES ASSUME NEW p \in Pages
      PROVE \A n \in 1 .. MaxSessions : (session[<<p, n>>].status # "none" <=> n <= 0)
    BY HostedAssumption DEF Numbered
  <2> TAKE n \in 1 .. MaxSessions
  <2>1. <<p, n>> \in SessionIds BY DEF SessionIds
  <2> QED BY <2>1, <1>2, BlankBodies
<1>5. \A w \in onWire : Sent(w) BY DEF HostedInit
<1>6. \A p \in Pages : OneBody(p) BY BlankBodies DEF HostedInit, OneBody
<1> QED BY <1>1, <1>3, <1>4, <1>5, <1>6 DEF HostedInv

\* The session of a page that has one is a session.
LEMMA MineIsASession ==
  ASSUME HostedTypes, NEW p \in Pages, page[p].session > 0
  PROVE Mine(p) \in SessionIds
BY HostedAssumption DEF HostedTypes, PageShape, Mine, SessionIds

\* A step that leaves the pages' sessions and bodies, what is stored and which
\* sessions exist as they were, and sends nothing.
LEMMA HostedSteady ==
  ASSUME HostedInv, HostedTypes', onWire' \subseteq onWire,
         \A p \in Pages : /\ page'[p].session = page[p].session
                          /\ page'[p].pending = page[p].pending,
         \A s \in SessionIds : /\ (session'[s].status = "none" <=> session[s].status = "none")
                               /\ session'[s].stored = session[s].stored
  PROVE HostedInv'
<1>1. Numbered' 
  <2>1. \A p \in Pages, n \in 1 .. MaxSessions : <<p, n>> \in SessionIds BY DEF SessionIds
  <2> QED BY <2>1 DEF HostedInv, Numbered
<1>2. Untouched'
  <2> SUFFICES ASSUME NEW s \in SessionIds, session'[s].status = "none"
      PROVE session'[s] = NoSession
    BY DEF Untouched
  <2>1. session'[s].stored = NoBody BY BlankBodies DEF HostedInv, Untouched
  <2> QED BY <2>1 DEF HostedTypes, SessionShape, NoSession
<1>3. \A w \in onWire' : Sent(w)' BY DEF HostedInv, Sent
<1>4. ASSUME NEW p \in Pages PROVE OneBody(p)'
  <2>1. Mine(p)' = Mine(p) BY DEF Mine
  <2>2. page[p].session > 0 => Mine(p) \in SessionIds BY MineIsASession DEF HostedInv
  <2> QED BY <2>1, <2>2 DEF HostedInv, OneBody
<1> QED BY <1>1, <1>2, <1>3, <1>4 DEF HostedInv

\* A page opens a session of its own.
LEMMA HostedOpens ==
  ASSUME HostedInv, NEW p \in Pages, OpenPage(p)
  PROVE HostedInv'
<1> DEFINE n == Opened(p) + 1
           fresh == [NoSession EXCEPT !.status = "open"]
<1>1. PICK k \in 0 .. MaxSessions :
        \A m \in 1 .. MaxSessions : (session[<<p, m>>].status # "none" <=> m <= k)
  BY DEF HostedInv, Numbered
<1>2. Opened(p) = k
  <2>1. \A m \in 1 .. MaxSessions : (session[<<p, m>>] # NoSession <=> m <= k)
    <3> TAKE m \in 1 .. MaxSessions
    <3>1. <<p, m>> \in SessionIds BY DEF SessionIds
    <3> QED BY <3>1, <1>1, BlankBodies DEF HostedInv, Untouched
  <2>2. {m \in 1 .. MaxSessions : session[<<p, m>>] # NoSession} = 1 .. k
    BY <2>1, HostedAssumption
  <2>3. Cardinality(1 .. k) = k BY FS_Interval
  <2> QED BY <2>2, <2>3 DEF Opened
<1>3. n = k + 1 /\ n \in 1 .. MaxSessions /\ <<p, n>> \in SessionIds
  BY <1>2, HostedAssumption DEF OpenPage, SessionIds
<1>4. session[<<p, n>>] = NoSession
  BY <1>1, <1>3 DEF HostedInv, Untouched
<1>5. /\ fresh \in SessionShape /\ fresh.status = "open" /\ fresh.stored = NoBody
  BY BlankBodies DEF NoSession, SessionShape
<1>6. session' = [session EXCEPT ![<<p, n>>] = fresh]
  BY <1>3, <1>4 DEF OpenPage, HostedInv, HostedTypes
<1> DEFINE opened == [Opening EXCEPT !.session = n]
<1>7. /\ opened \in PageShape /\ opened.session = n /\ opened.pending = NoBody
  <2>1. n \in 0 .. MaxSessions BY <1>3, HostedAssumption
  <2> QED BY <2>1, OpenedAnew
<1>8. /\ page' = [page EXCEPT ![p] = opened] /\ onWire' = onWire /\ keysDrawn' = keysDrawn
  BY DEF OpenPage
<1> HIDE DEF n, fresh, opened
<1>9. HostedTypes' BY <1>3, <1>5, <1>6, <1>7, <1>8 DEF HostedInv, HostedTypes
<1>10. /\ session'[<<p, n>>] = fresh
       /\ \A s \in SessionIds : s # <<p, n>> => session'[s] = session[s]
  BY <1>3, <1>6 DEF HostedInv, HostedTypes
<1>11. Numbered'
  <2> SUFFICES ASSUME NEW q \in Pages
      PROVE \E j \in 0 .. MaxSessions : \A m \in 1 .. MaxSessions :
              (session'[<<q, m>>].status # "none" <=> m <= j)
    BY DEF Numbered
  <2>1. \A m \in 1 .. MaxSessions : <<q, m>> \in SessionIds BY DEF SessionIds
  <2>2. CASE q = p
    <3>1. \A m \in 1 .. MaxSessions : (session'[<<q, m>>].status # "none" <=> m <= n)
      <4> TAKE m \in 1 .. MaxSessions
      <4>1. CASE m = n BY <4>1, <2>2, <1>5, <1>10
      <4>2. CASE m # n
        <5>1. session'[<<q, m>>] = session[<<q, m>>] BY <4>2, <2>1, <1>10
        <5> QED BY <5>1, <4>2, <2>2, <1>1, <1>3
      <4> QED BY <4>1, <4>2
    <3> QED BY <3>1, <1>3
  <2>3. CASE q # p
    <3>1. \A m \in 1 .. MaxSessions : session'[<<q, m>>] = session[<<q, m>>]
      BY <2>1, <2>3, <1>10
    <3> QED BY <3>1 DEF HostedInv, Numbered
  <2> QED BY <2>2, <2>3
<1>12. Untouched' BY <1>5, <1>10 DEF HostedInv, Untouched
<1>13. \A s \in SessionIds : session[s].status # "none" =>
          s # <<p, n>> /\ session'[s] = session[s]
  BY <1>4, <1>10, BlankBodies
<1>14. \A w \in onWire' : Sent(w)' BY <1>8, <1>13 DEF HostedInv, Sent
<1>15. ASSUME NEW q \in Pages PROVE OneBody(q)'
  <2>1. CASE q = p
    <3>1. page'[q] = opened /\ Mine(q)' = <<p, n>>
      BY <2>1, <1>7, <1>8 DEF HostedInv, HostedTypes, Mine
    <3>2. \A w \in onWire' : w.session # <<p, n>> BY <1>8, <1>13 DEF HostedInv, Sent
    <3> QED BY <3>1, <3>2, <1>3, <1>5, <1>7, <1>10 DEF OneBody
  <2>2. CASE q # p
    <3>1. page'[q] = page[q] /\ Mine(q)' = Mine(q)
      BY <2>2, <1>8 DEF HostedInv, HostedTypes, Mine
    <3>2. page[q].session > 0 => Mine(q) \in SessionIds BY MineIsASession DEF HostedInv
    <3> QED BY <3>1, <3>2, <1>8, <1>13 DEF HostedInv, OneBody
  <2> QED BY <2>1, <2>2
<1> QED BY <1>9, <1>11, <1>12, <1>14, <1>15 DEF HostedInv

\* What is submitted is what the page awaits, the same when repeated.
LEMMA HostedSubmits ==
  ASSUME HostedInv, NEW p \in Pages, Submit(p)
  PROVE HostedInv'
<1> DEFINE first == page[p].pending = NoBody
           drawn == [key |-> keysDrawn + 1, content |-> page[p].form]
           body == IF first THEN drawn ELSE page[p].pending
<1>1. /\ page[p].session > 0 /\ session' = session
  BY DEF Submit
<1>2. drawn \in Body /\ drawn # NoBody
  BY DEF HostedInv, HostedTypes, PageShape, Body, NoBody
<1>3. body \in Body /\ body # NoBody BY <1>2 DEF HostedInv, HostedTypes, PageShape
<1>4. onWire' = onWire \cup {Wire(p, body)} /\ keysDrawn' \in Nat
  BY DEF Submit, HostedInv, HostedTypes
<1>5. page' = [page EXCEPT ![p].busy = TRUE, ![p].pending = body]
  <2>1. CASE first BY <2>1 DEF Submit
  <2>2. CASE ~first
    <3>1. page' = [page EXCEPT ![p].busy = TRUE] BY <2>2 DEF Submit
    <3>2. [page EXCEPT ![p].busy = TRUE] =
          [page EXCEPT ![p].busy = TRUE, ![p].pending = page[p].pending]
      BY DEF HostedInv, HostedTypes, PageShape
    <3> QED BY <3>1, <3>2, <2>2
  <2> QED BY <2>1, <2>2
<1>6. first => \A w \in onWire : w.session # Mine(p)
  BY <1>1 DEF HostedInv, OneBody, Sent
<1>7. session[Mine(p)].stored \in {NoBody, body} /\ session[Mine(p)].status # "none"
  BY <1>1 DEF HostedInv, OneBody
<1>8. \A w \in onWire : w.session = Mine(p) => w.body = body
  BY <1>1, <1>6 DEF HostedInv, OneBody
<1>9. Mine(p) \in SessionIds /\ Mine(p)[1] = p BY <1>1, MineIsASession DEF HostedInv, Mine
<1> HIDE DEF first, drawn, body
<1>10. page' \in [Pages -> PageShape] BY <1>3, <1>5 DEF HostedInv, HostedTypes, PageShape
<1>11. HostedTypes' BY <1>1, <1>4, <1>10 DEF HostedInv, HostedTypes
<1>12. Numbered' /\ Untouched' BY <1>1 DEF HostedInv, Numbered, Untouched
<1>13. \A q \in Pages : page'[q].session = page[q].session /\ Mine(q)' = Mine(q)
  BY <1>5 DEF HostedInv, HostedTypes, PageShape, Mine
<1>14. page'[p].pending = body /\ \A q \in Pages : q # p => page'[q] = page[q]
  BY <1>5 DEF HostedInv, HostedTypes, PageShape
<1>15. \A w \in onWire' : Sent(w)'
  BY <1>1, <1>3, <1>4, <1>7, <1>9 DEF HostedInv, Sent, Wire
<1>16. ASSUME NEW q \in Pages PROVE OneBody(q)'
  <2>1. CASE q = p BY <2>1, <1>1, <1>4, <1>7, <1>8, <1>13, <1>14 DEF OneBody, Wire, HostedInv
  <2>2. CASE q # p
    <3>1. Mine(p) # Mine(q) BY <2>2 DEF Mine
    <3> QED BY <2>2, <3>1, <1>1, <1>4, <1>13, <1>14 DEF OneBody, Wire, HostedInv
  <2> QED BY <2>1, <2>2
<1> QED BY <1>11, <1>12, <1>15, <1>16 DEF HostedInv

\* A body that arrives is stored under its session, and answered or not.
LEMMA HostedServes ==
  ASSUME HostedInv, NEW w \in onWire, NEW answered \in BOOLEAN, Serve(w, answered)
  PROVE HostedInv'
<1>1. /\ Sent(w) /\ session[w.session].status = "open"
      /\ session' = [session EXCEPT ![w.session].stored = w.body]
      /\ onWire' = onWire \ {w} /\ keysDrawn' = keysDrawn
  BY DEF Serve, Accepts, HostedInv
<1>2. session' \in [SessionIds -> SessionShape]
  BY <1>1 DEF HostedInv, HostedTypes, SessionShape, Sent
<1>3. /\ \A s \in SessionIds : session'[s].status = session[s].status
      /\ \A s \in SessionIds : s # w.session => session'[s] = session[s]
      /\ session'[w.session].stored = w.body
  BY <1>1 DEF HostedInv, HostedTypes, SessionShape, Sent
<1>4. /\ \A q \in Pages : \/ page'[q].session = page[q].session
                             /\ page'[q].pending = page[q].pending
                          \/ page'[q].session = 0 /\ page'[q].pending = NoBody
      /\ page' \in [Pages -> PageShape]
  <2> DEFINE closed == [Opening EXCEPT !.reference = w.session[2]]
  <2>1. closed \in PageShape /\ closed.session = 0 /\ closed.pending = NoBody
    <3>1. w.session[2] \in Nat BY <1>1, HostedAssumption DEF Sent, SessionIds
    <3> QED BY <3>1, OpenedAnew
  <2>2. CASE answered /\ Waits(w)
    <3>1. page' = [page EXCEPT ![w.page] = closed] BY <2>2 DEF Serve
    <3> HIDE DEF closed
    <3> QED BY <3>1, <2>1 DEF HostedInv, HostedTypes
  <2>3. CASE ~(answered /\ Waits(w)) /\ Waits(w)
    <3>1. page' = [page EXCEPT ![w.page].busy = FALSE] BY <2>3 DEF Serve
    <3> QED BY <3>1 DEF HostedInv, HostedTypes, PageShape
  <2>4. CASE ~Waits(w) BY <2>4 DEF Serve, HostedInv, HostedTypes
  <2> QED BY <2>2, <2>3, <2>4
<1>5. HostedTypes' BY <1>1, <1>2, <1>4 DEF HostedInv, HostedTypes
<1>6. \A p \in Pages, n \in 1 .. MaxSessions : <<p, n>> \in SessionIds BY DEF SessionIds
<1>7. Numbered' BY <1>3, <1>6 DEF HostedInv, Numbered
<1>8. Untouched' BY <1>1, <1>3 DEF HostedInv, Untouched
<1>9. \A v \in onWire' : Sent(v)' BY <1>1, <1>3 DEF HostedInv, Sent
<1>10. ASSUME NEW q \in Pages PROVE OneBody(q)'
  <2>1. CASE page'[q].session = 0 /\ page'[q].pending = NoBody BY <2>1 DEF OneBody
  <2>2. CASE page'[q].session = page[q].session /\ page'[q].pending = page[q].pending
    <3>1. Mine(q)' = Mine(q) BY <2>2 DEF Mine
    <3>2. page[q].session > 0 => Mine(q) \in SessionIds BY MineIsASession DEF HostedInv
    <3>3. page[q].session > 0 /\ Mine(q) = w.session => w.body = page[q].pending
      BY DEF HostedInv, OneBody
    <3> QED BY <2>2, <3>1, <3>2, <3>3, <1>1, <1>3 DEF HostedInv, OneBody
  <2> QED BY <2>1, <2>2, <1>4
<1> QED BY <1>5, <1>7, <1>8, <1>9, <1>10 DEF HostedInv

\* Every step of the hosted form keeps the invariant.
LEMMA HostedKeeps == HostedInv /\ [HostedNext]_hosting => HostedInv'
<1> SUFFICES ASSUME HostedInv, [HostedNext]_hosting PROVE HostedInv'
  OBVIOUS
<1>1. CASE \E p \in Pages : OpenPage(p) BY <1>1, HostedOpens
<1>2. CASE \E p \in Pages : Submit(p) BY <1>2, HostedSubmits
<1>3. CASE \E w \in onWire, answered \in BOOLEAN : Serve(w, answered) BY <1>3, HostedServes
<1>4. ASSUME page' \in [Pages -> PageShape], onWire' \subseteq onWire,
             session' = session, keysDrawn' = keysDrawn,
             \A p \in Pages : /\ page'[p].session = page[p].session
                              /\ page'[p].pending = page[p].pending
      PROVE HostedInv'
  <2>1. HostedTypes' BY <1>4 DEF HostedInv, HostedTypes
  <2> QED BY <2>1, <1>4, HostedSteady
<1>5. CASE \E p \in Pages, c \in Contents : FillIn(p, c)
  <2> PICK p \in Pages, c \in Contents : FillIn(p, c) BY <1>5
  <2>1. page' = [page EXCEPT ![p].form = c] BY DEF FillIn
  <2>2. /\ page' \in [Pages -> PageShape]
        /\ \A q \in Pages : page'[q].session = page[q].session /\ page'[q].pending = page[q].pending
    BY <2>1 DEF HostedInv, HostedTypes, PageShape
  <2> QED BY <2>2, <1>4 DEF FillIn
<1>6. CASE \E w \in onWire : Fail(w) \/ GiveUpWaiting(w)
  <2> PICK w \in onWire : Fail(w) \/ GiveUpWaiting(w) BY <1>6
  <2>1. page' = page \/ page' = [page EXCEPT ![w.page].busy = FALSE]
    BY DEF Fail, GiveUpWaiting
  <2>3. w.page \in Pages BY DEF HostedInv, Sent
  <2>2. /\ page' \in [Pages -> PageShape]
        /\ \A q \in Pages : page'[q].session = page[q].session /\ page'[q].pending = page[q].pending
    <3>1. CASE page' = page BY <3>1 DEF HostedInv, HostedTypes
    <3>2. CASE page' = [page EXCEPT ![w.page].busy = FALSE]
      BY <3>2, <2>3 DEF HostedInv, HostedTypes, PageShape
    <3> QED BY <2>1, <3>1, <3>2
  <2> QED BY <2>2, <1>4 DEF Fail, GiveUpWaiting
<1>7. CASE \E s \in DOMAIN session : Expire(s)
  <2> PICK s \in DOMAIN session : Expire(s) BY <1>7
  <2>1. /\ session' = [session EXCEPT ![s].status = "expired"] /\ session[s].status = "open"
        /\ UNCHANGED <<page, keysDrawn, onWire>>
    BY DEF Expire
  <2>2. /\ session' \in [SessionIds -> SessionShape]
        /\ \A r \in SessionIds : /\ session'[r].stored = session[r].stored
                                 /\ (session'[r].status = "none" <=> session[r].status = "none")
    BY <2>1 DEF HostedInv, HostedTypes, SessionShape
  <2>3. HostedTypes' BY <2>1, <2>2 DEF HostedInv, HostedTypes
  <2> QED BY <2>1, <2>2, <2>3, HostedSteady
<1>8. CASE UNCHANGED hosting BY <1>8, <1>4 DEF hosting, HostedInv, HostedTypes
<1> QED BY <1>1, <1>2, <1>3, <1>5, <1>6, <1>7, <1>8 DEF HostedNext

\* The request a page keeps offering to repeat is the one its session stores,
\* when it stores any (HostedFlow, submit_flow_request).
THEOREM RequestsRepeat == HostedSpec => []RepeatIsStored
<1>1. HostedInv => RepeatIsStored
  <2> SUFFICES ASSUME HostedInv, NEW p \in Pages, page[p].pending # NoBody,
                      session[Mine(p)].stored # NoBody
      PROVE session[Mine(p)].stored = page[p].pending
    BY DEF RepeatIsStored
  <2>1. page[p].session > 0
    BY HostedAssumption DEF HostedInv, HostedTypes, PageShape, OneBody
  <2> QED BY <2>1 DEF HostedInv, OneBody
<1> QED BY <1>1, HostedStarts, HostedKeeps, PTL DEF HostedSpec

-----------------------------------------------------------------------------
(* Authoring: an editor knows what it replaces.                            *)

Text == Docs \cup {NoDoc}
EditorShape == [doc : Text, revision : Nat, base : Text, dirty : BOOLEAN, hosted : Nat]
LoadCall == [stage |-> "sent", op |-> "load"]
SaveCall(r, d, b) ==
  [stage |-> "sent", op |-> "save", expected |-> r, doc |-> d, base |-> b]
PublishCall(r) == [stage |-> "sent", op |-> "publish", expected |-> r]
Answer(o, r, d, v) ==
  [stage |-> "answered", op |-> o, revision |-> r, shown |-> d, version |-> v]

\* A revision that is still the draft's goes with the draft's document.
UpToDate(r, d) ==
  r \in Nat /\ d \in Text /\ r <= draft.revision /\ (r = draft.revision => d = draft.doc)
\* A link that leads to the document d.
LeadsTo(v, d) == v \in 1 .. Len(published) /\ published[v] = d

DraftHolds ==
  /\ draft \in [revision : Nat, doc : Text]
  /\ draft.revision = 0 => draft.doc = NoDoc
  /\ published \in Seq(Text)
EditorHolds(e) ==
  /\ e \in EditorShape
  /\ UpToDate(e.revision, e.base)
  /\ ~e.dirty /\ e.revision > 0 => e.doc = e.base
  /\ e.hosted > 0 => LeadsTo(e.hosted, e.doc)
\* What a call says of the editor that awaits it.
Awaits(c, e) ==
  \/ c = NoCall
  \/ c = LoadCall
  \/ c = SaveCall(e.revision, e.doc, e.base)
  \/ c = PublishCall(e.revision) /\ ~e.dirty /\ e.revision > 0
  \/ \E r \in Nat, d \in Text, v \in Nat :
       \/ c = Answer("load", r, d, v) /\ UpToDate(r, d)
       \/ c = Answer("save", r, d, v) /\ UpToDate(r, d) /\ d = e.doc
       \/ c = Answer("publish", r, d, v) /\ LeadsTo(v, e.doc)
\* A call that nobody awaits.
Orphaned(c) ==
  \/ \E r \in Nat, d \in Text, b \in Text : c = SaveCall(r, d, b) /\ UpToDate(r, b)
  \/ \E r \in Nat : c = PublishCall(r)
AuthoringInv ==
  /\ DraftHolds
  /\ editor \in [Tabs -> EditorShape]
  /\ DOMAIN awaited = Tabs /\ awaited = [t \in Tabs |-> awaited[t]]
  /\ \A t \in Tabs : EditorHolds(editor[t]) /\ Awaits(awaited[t], editor[t])
  /\ \A c \in orphans : Orphaned(c)

\* There is an empty draft, and no tab is open, at the start.
LEMMA AuthoringStarts == AuthoringInit => AuthoringInv
<1> SUFFICES ASSUME AuthoringInit PROVE AuthoringInv OBVIOUS
<1>1. DraftHolds BY DEF AuthoringInit, DraftHolds, Text
<1>2. EditorHolds(Closed)
  BY DEF AuthoringInit, EditorHolds, Closed, EditorShape, Text, UpToDate
<1>3. Awaits(NoCall, Closed) BY DEF Awaits
<1>4. Closed \in EditorShape BY <1>2 DEF EditorHolds
<1> QED BY <1>1, <1>2, <1>3, <1>4 DEF AuthoringInit, AuthoringInv

\* A closed editor claims nothing.
LEMMA ClosedHolds == DraftHolds => EditorHolds(Closed) /\ Closed \in EditorShape
BY DEF DraftHolds, EditorHolds, Closed, EditorShape, Text, UpToDate

\* What the calls are.
LEMMA TheCalls ==
  ASSUME NEW r, NEW d, NEW b, NEW v, NEW o
  PROVE /\ NoCall.op = "none"
        /\ LoadCall.op = "load" /\ LoadCall.stage = "sent"
        /\ LET c == SaveCall(r, d, b) IN
             /\ c.op = "save" /\ c.stage = "sent"
             /\ c.expected = r /\ c.doc = d /\ c.base = b
        /\ LET c == PublishCall(r) IN c.op = "publish" /\ c.stage = "sent" /\ c.expected = r
        /\ LET c == Answer(o, r, d, v) IN
             c.op = o /\ c.stage = "answered" /\ c.revision = r /\ c.shown = d /\ c.version = v
BY DEF NoCall, LoadCall, SaveCall, PublishCall, Answer

\* The operation of a save.
LEMMA SavesSave == \A r, d, b : SaveCall(r, d, b).op = "save" BY DEF SaveCall
\* The operation of a publication.
LEMMA PublicationsPublish == \A r : PublishCall(r).op = "publish" BY DEF PublishCall
\* The stage of an answer.
LEMMA AnswersAnswer == \A o, r, d, v : Answer(o, r, d, v).stage = "answered" BY DEF Answer

\* A step that leaves the draft and the versions as they were.
LEMMA AuthoringSteady ==
  ASSUME AuthoringInv, UNCHANGED <<draft, published>>,
         editor' \in [Tabs -> EditorShape],
         DOMAIN awaited' = Tabs, awaited' = [t \in Tabs |-> awaited'[t]],
         \A t \in Tabs : EditorHolds(editor'[t]) /\ Awaits(awaited'[t], editor'[t]),
         \A c \in orphans' : Orphaned(c)
  PROVE AuthoringInv'
<1>1. DraftHolds' BY DEF AuthoringInv, DraftHolds
<1>2. \A r, d : UpToDate(r, d)' <=> UpToDate(r, d) BY DEF UpToDate
<1>3. \A v, d : LeadsTo(v, d)' <=> LeadsTo(v, d) BY DEF LeadsTo
<1>4. \A t \in Tabs : EditorHolds(editor[t])' BY <1>2, <1>3 DEF EditorHolds
<1>5. \A t \in Tabs : Awaits(awaited[t], editor[t])' BY <1>2, <1>3 DEF Awaits
<1>6. \A c \in orphans' : Orphaned(c)' BY <1>2 DEF Orphaned
<1> QED BY <1>1, <1>4, <1>5, <1>6 DEF AuthoringInv

\* A step of one tab.
LEMMA OneTab ==
  ASSUME AuthoringInv, UNCHANGED <<draft, published>>,
         NEW t \in Tabs, NEW e, NEW c, EditorHolds(e), Awaits(c, e),
         editor' = [editor EXCEPT ![t] = e], awaited' = [awaited EXCEPT ![t] = c],
         \A o \in orphans' : Orphaned(o)
  PROVE AuthoringInv'
<1>1. editor' \in [Tabs -> EditorShape] BY DEF AuthoringInv, EditorHolds
<1>2. DOMAIN awaited' = Tabs /\ awaited' = [u \in Tabs |-> awaited'[u]] BY DEF AuthoringInv
<1>3. /\ editor'[t] = e /\ awaited'[t] = c
      /\ \A u \in Tabs : u # t => editor'[u] = editor[u] /\ awaited'[u] = awaited[u]
  BY DEF AuthoringInv
<1>4. \A u \in Tabs : EditorHolds(editor'[u]) /\ Awaits(awaited'[u], editor'[u])
  BY <1>3 DEF AuthoringInv
<1> QED BY <1>1, <1>2, <1>4, AuthoringSteady

\* The functions that a step of one tab leaves alone.
LEMMA TabAsItWas ==
  ASSUME AuthoringInv, NEW t \in Tabs
  PROVE /\ editor = [editor EXCEPT ![t] = editor[t]]
        /\ awaited = [awaited EXCEPT ![t] = awaited[t]]
        /\ EditorHolds(editor[t]) /\ Awaits(awaited[t], editor[t])
        /\ \A o \in orphans : Orphaned(o)
BY DEF AuthoringInv

\* Writing changes what the tab shows, not what it says is stored.
LEMMA AuthoringWrites ==
  ASSUME AuthoringInv, NEW t \in Tabs, NEW d \in Docs, FreshDoc(t, d) \/ Edit(t, d)
  PROVE AuthoringInv'
<1>1. CASE FreshDoc(t, d)
  <2> DEFINE e == [Closed EXCEPT !.doc = d, !.dirty = TRUE]
  <2>1. /\ awaited[t] = NoCall /\ UNCHANGED <<draft, published, awaited, orphans>>
        /\ editor' = [editor EXCEPT ![t] = e]
    BY <1>1 DEF FreshDoc, Busy
  <2>2. /\ e \in EditorShape /\ e.revision = 0 /\ e.base = NoDoc /\ e.dirty /\ e.hosted = 0
    BY DEF Closed, EditorShape, Text
  <2> HIDE DEF e
  <2>3. EditorHolds(e)
    BY <2>2 DEF EditorHolds, UpToDate, AuthoringInv, DraftHolds, Text
  <2>4. Awaits(NoCall, e) BY DEF Awaits
  <2> QED BY <2>1, <2>3, <2>4, TabAsItWas, OneTab
<1>2. CASE Edit(t, d)
  <2> DEFINE e == [editor[t] EXCEPT !.doc = d, !.dirty = TRUE, !.hosted = 0]
  <2>1. /\ awaited[t] = NoCall /\ UNCHANGED <<draft, published, awaited, orphans>>
    BY <1>2 DEF Edit, Busy
  <2>2. editor' = [editor EXCEPT ![t] = e]
    BY <1>2 DEF Edit, AuthoringInv, EditorShape
  <2>3. /\ e \in EditorShape /\ e.revision = editor[t].revision /\ e.base = editor[t].base
        /\ e.dirty /\ e.hosted = 0
    BY DEF AuthoringInv, EditorShape, Text
  <2> HIDE DEF e
  <2>4. EditorHolds(e) BY <2>3, TabAsItWas DEF EditorHolds
  <2>5. Awaits(NoCall, e) BY DEF Awaits
  <2> QED BY <2>1, <2>2, <2>4, <2>5, TabAsItWas, OneTab
<1> QED BY <1>1, <1>2

\* A call carries the revision and the document of its editor.
LEMMA AuthoringCalls ==
  ASSUME AuthoringInv, NEW t \in Tabs, Reload(t) \/ Save(t) \/ Publish(t)
  PROVE AuthoringInv'
<1> DEFINE e == editor[t]
<1>1. ASSUME NEW c, Awaits(c, e), awaited' = [awaited EXCEPT ![t] = c],
             UNCHANGED <<draft, published, editor, orphans>>
      PROVE AuthoringInv'
  <2>1. editor' = [editor EXCEPT ![t] = e] BY <1>1, TabAsItWas
  <2> QED BY <2>1, <1>1, TabAsItWas, OneTab
<1>2. CASE Reload(t)
  <2>1. awaited' = [awaited EXCEPT ![t] = LoadCall] /\ UNCHANGED <<draft, published, editor, orphans>>
    BY <1>2 DEF Reload, Call, LoadCall
  <2> QED BY <2>1, <1>1 DEF Awaits
<1>3. CASE Save(t)
  <2>1. /\ awaited' = [awaited EXCEPT ![t] = SaveCall(e.revision, e.doc, e.base)]
        /\ UNCHANGED <<draft, published, editor, orphans>>
    BY <1>3 DEF Save, Call, SaveCall
  <2> QED BY <2>1, <1>1 DEF Awaits
<1>4. CASE Publish(t)
  <2>1. /\ awaited' = [awaited EXCEPT ![t] = PublishCall(e.revision)]
        /\ ~e.dirty /\ e.revision > 0
        /\ UNCHANGED <<draft, published, editor, orphans>>
    BY <1>4 DEF Publish, Call, PublishCall
  <2> QED BY <2>1, <1>1 DEF Awaits
<1> QED BY <1>2, <1>3, <1>4

\* What a tab gives up is served as it was sent, or not at all.
LEMMA GivenUpCalls ==
  ASSUME AuthoringInv, NEW t \in Tabs, NEW o \in GivenUp(t)
  PROVE Orphaned(o)
<1>1. CASE o \in orphans BY <1>1, TabAsItWas
<1>2. CASE o \notin orphans
  <2> DEFINE e == editor[t]
  <2>1. o = awaited[t] /\ o.op \in {"save", "publish"} /\ o.stage = "sent"
    BY <1>2 DEF GivenUp
  <2>2. \/ o = SaveCall(e.revision, e.doc, e.base) \/ o = PublishCall(e.revision)
    <3>1. awaited[t] # NoCall /\ awaited[t] # LoadCall BY <2>1, TheCalls
    <3>2. \A p, r, d, v : awaited[t] # Answer(p, r, d, v) BY <2>1, AnswersAnswer
    <3>3. Awaits(awaited[t], e) BY TabAsItWas
    <3> QED BY <2>1, <3>1, <3>2, <3>3 DEF Awaits
  <2>3. /\ e.revision \in Nat /\ e.doc \in Text /\ e.base \in Text
        /\ UpToDate(e.revision, e.base)
    BY TabAsItWas DEF EditorHolds, EditorShape
  <2> QED BY <2>2, <2>3 DEF Orphaned
<1> QED BY <1>1, <1>2

\* A lost call is dropped, or goes on with nobody waiting for it.
LEMMA AuthoringLoses ==
  ASSUME AuthoringInv, NEW t \in Tabs, NEW late \in BOOLEAN,
         CallIsLost(t, late) \/ Leave(t, late)
  PROVE AuthoringInv'
<1>1. /\ UNCHANGED <<draft, published>> /\ awaited' = [awaited EXCEPT ![t] = NoCall]
      /\ (orphans' = GivenUp(t) \/ orphans' = orphans)
  BY DEF CallIsLost, Leave, Returns
<1>2. \A o \in orphans' : Orphaned(o) BY <1>1, GivenUpCalls, TabAsItWas
<1>3. CASE CallIsLost(t, late)
  <2>1. editor' = [editor EXCEPT ![t] = editor[t]] BY <1>3, TabAsItWas DEF CallIsLost
  <2>2. Awaits(NoCall, editor[t]) BY DEF Awaits
  <2> QED BY <2>1, <2>2, <1>1, <1>2, TabAsItWas, OneTab
<1>4. CASE Leave(t, late)
  <2>1. editor' = [editor EXCEPT ![t] = Closed] BY <1>4 DEF Leave
  <2>2. Awaits(NoCall, Closed) BY DEF Awaits
  <2>3. EditorHolds(Closed) BY ClosedHolds DEF AuthoringInv
  <2> QED BY <2>1, <2>2, <2>3, <1>1, <1>2, OneTab
<1> QED BY <1>3, <1>4

\* What an answer tells its editor is what the draft then was.
LEMMA AuthoringReturns ==
  ASSUME AuthoringInv, NEW t \in Tabs, Loaded(t) \/ Saved(t) \/ PublishedNow(t)
  PROVE AuthoringInv'
<1> DEFINE e == editor[t]
<1>1. /\ UNCHANGED <<draft, published, orphans>> /\ awaited' = [awaited EXCEPT ![t] = NoCall]
      /\ awaited[t].stage = "answered"
  BY DEF Loaded, Saved, PublishedNow, Returns
<1>2. ASSUME NEW f, EditorHolds(f), editor' = [editor EXCEPT ![t] = f] PROVE AuthoringInv'
  <2>1. Awaits(NoCall, f) BY DEF Awaits
  <2> QED BY <2>1, <1>1, <1>2, TabAsItWas, OneTab
<1>3. PICK r \in Nat, d \in Text, v \in Nat :
        \/ awaited[t] = Answer("load", r, d, v) /\ UpToDate(r, d)
        \/ awaited[t] = Answer("save", r, d, v) /\ UpToDate(r, d) /\ d = e.doc
        \/ awaited[t] = Answer("publish", r, d, v) /\ LeadsTo(v, e.doc)
  <2>1. awaited[t] # NoCall BY DEF Loaded, Saved, PublishedNow, Busy
  <2>2. Awaits(awaited[t], e) BY TabAsItWas
  <2>3. awaited[t] # LoadCall BY <1>1, TheCalls
  <2>4. \A p, q, b : awaited[t] # SaveCall(p, q, b) /\ awaited[t] # PublishCall(p)
    BY <1>1, TheCalls
  <2> QED BY <2>1, <2>2, <2>3, <2>4 DEF Awaits
<1>4. /\ awaited[t].revision = r /\ awaited[t].shown = d /\ awaited[t].version = v
  BY <1>3, TheCalls
<1>5. e \in EditorShape /\ EditorHolds(e) BY TabAsItWas DEF EditorHolds
<1> HIDE DEF e
<1>6. CASE Loaded(t)
  <2> DEFINE f == [doc |-> d, revision |-> r, base |-> d, dirty |-> FALSE, hosted |-> 0]
  <2>1. editor' = [editor EXCEPT ![t] = f] BY <1>4, <1>6 DEF Loaded
  <2>2. UpToDate(r, d) BY <1>3, <1>6, TheCalls DEF Loaded
  <2>3. EditorHolds(f) BY <2>2 DEF EditorHolds, EditorShape
  <2> QED BY <2>1, <2>3, <1>2
<1>7. CASE Saved(t)
  <2> DEFINE f == [e EXCEPT !.revision = r, !.base = d, !.dirty = FALSE]
  <2>1. editor' = [editor EXCEPT ![t] = f]
    BY <1>4, <1>5, <1>7 DEF Saved, AuthoringInv, EditorShape, e
  <2>2. UpToDate(r, d) /\ d = e.doc BY <1>3, <1>7, TheCalls DEF Saved
  <2>3. /\ f \in EditorShape /\ f.revision = r /\ f.base = d /\ f.doc = e.doc
        /\ f.hosted = e.hosted
    BY <1>5 DEF EditorShape
  <2> HIDE DEF f
  <2>4. EditorHolds(f) BY <2>2, <2>3, <1>5 DEF EditorHolds
  <2> QED BY <2>1, <2>4, <1>2
<1>8. CASE PublishedNow(t)
  <2> DEFINE f == [e EXCEPT !.hosted = v]
  <2>1. editor' = [editor EXCEPT ![t] = f]
    BY <1>4, <1>5, <1>8 DEF PublishedNow, AuthoringInv, EditorShape, e
  <2>2. LeadsTo(v, e.doc) BY <1>3, <1>8, TheCalls DEF PublishedNow
  <2>3. /\ f \in EditorShape /\ f.revision = e.revision /\ f.base = e.base
        /\ f.doc = e.doc /\ f.hosted = v /\ (f.dirty <=> e.dirty)
    BY <1>5 DEF EditorShape
  <2> HIDE DEF f
  <2>4. EditorHolds(f) BY <2>2, <2>3, <1>5 DEF EditorHolds
  <2> QED BY <2>1, <2>4, <1>2
<1> QED BY <1>6, <1>7, <1>8

\* What a stored save and a publication leave true of everything else.
Survives ==
  /\ \A r, d : UpToDate(r, d) => UpToDate(r, d)'
  /\ \A v, d : LeadsTo(v, d) => LeadsTo(v, d)'

\* What a served call leaves of the other editors and calls.
LEMMA SurvivingServed ==
  ASSUME Survives, NEW e, NEW c
  PROVE /\ EditorHolds(e) => EditorHolds(e)'
        /\ Awaits(c, e) => Awaits(c, e)'
        /\ Orphaned(c) => Orphaned(c)'
<1>1. EditorHolds(e) => EditorHolds(e)' BY DEF Survives, EditorHolds
<1>2. Awaits(c, e) => Awaits(c, e)' BY DEF Survives, Awaits
<1>3. Orphaned(c) => Orphaned(c)' BY DEF Survives, Orphaned
<1> QED BY <1>1, <1>2, <1>3

\* A save that is stored was made at the draft's revision, and moves it on.
LEMMA StoringServed ==
  ASSUME AuthoringInv, NEW r, NEW d \in Text, NEW b, Stores(SaveCall(r, d, b))
  PROVE /\ DraftHolds' /\ Survives /\ r = draft.revision
        /\ draft' = [revision |-> draft.revision + 1, doc |-> d]
        /\ UpToDate(draft.revision, d)'
<1>1. /\ draft' = [revision |-> draft.revision + 1, doc |-> d]
      /\ published' = published /\ r = draft.revision
  BY TheCalls DEF Stores
<1>2. draft'.revision = draft.revision + 1 /\ draft'.doc = d BY <1>1
<1>3. draft.revision \in Nat BY DEF AuthoringInv, DraftHolds
<1>4. DraftHolds' BY <1>1, <1>3 DEF AuthoringInv, DraftHolds
<1>5. \A s, x : UpToDate(s, x) => UpToDate(s, x)' BY <1>2, <1>3 DEF UpToDate
<1>6. \A v, x : LeadsTo(v, x) => LeadsTo(v, x)' BY <1>1 DEF LeadsTo
<1>7. UpToDate(draft.revision, d)' BY <1>2, <1>3 DEF UpToDate
<1> QED BY <1>1, <1>4, <1>5, <1>6, <1>7 DEF Survives

\* A publication leaves the draft and adds its document as a version.
LEMMA PublishingServed ==
  ASSUME AuthoringInv, NEW r, Publishes(PublishCall(r))
  PROVE /\ DraftHolds' /\ Survives /\ r = draft.revision /\ draft' = draft
        /\ LeadsTo(Len(published), draft.doc)'
<1>1. /\ published' = Append(published, draft.doc) /\ draft' = draft /\ r = draft.revision
  BY TheCalls DEF Publishes
<1>2. published \in Seq(Text) /\ draft.doc \in Text BY DEF AuthoringInv, DraftHolds
<1>3. /\ published' \in Seq(Text) /\ Len(published') = Len(published) + 1
      /\ published'[Len(published')] = draft.doc
      /\ \A v \in 1 .. Len(published) : published'[v] = published[v]
  BY <1>1, <1>2
<1>4. Len(published) \in Nat BY <1>2
<1>5. DraftHolds' BY <1>1, <1>3 DEF AuthoringInv, DraftHolds
<1>6. \A s, x : UpToDate(s, x) => UpToDate(s, x)' BY <1>1 DEF UpToDate
<1>7. \A v, x : LeadsTo(v, x) => LeadsTo(v, x)' BY <1>3, <1>4 DEF LeadsTo
<1>8. LeadsTo(Len(published), draft.doc)' BY <1>1, <1>3, <1>4 DEF LeadsTo
<1> QED BY <1>1, <1>5, <1>6, <1>7, <1>8 DEF Survives

\* A step of the server: one tab's call has its answer, or an orphan is served.
LEMMA ServedKeep ==
  ASSUME AuthoringInv, DraftHolds', Survives, editor' = editor,
         \A c \in orphans' : c \in orphans,
         DOMAIN awaited' = Tabs, awaited' = [t \in Tabs |-> awaited'[t]],
         \A t \in Tabs : awaited'[t] = awaited[t] \/ Awaits(awaited[t], editor[t])'
  PROVE AuthoringInv'
<1>1. \A t \in Tabs : EditorHolds(editor[t])'
  <2> TAKE t \in Tabs
  <2>1. EditorHolds(editor[t]) BY DEF AuthoringInv
  <2> DEFINE e == editor[t]
  <2>2. e = editor'[t] OBVIOUS
  <2> QED BY <2>1, <2>2 DEF Survives, EditorHolds
<1>2. \A t \in Tabs : Awaits(awaited[t], editor[t])'
  <2> TAKE t \in Tabs
  <2>1. CASE awaited'[t] = awaited[t]
    <3>1. Awaits(awaited[t], editor[t]) BY DEF AuthoringInv
    <3> QED BY <2>1, <3>1 DEF Survives, Awaits
  <2> QED BY <2>1
<1>3. \A c \in orphans' : Orphaned(c)' BY SurvivingServed DEF AuthoringInv
<1> QED BY <1>1, <1>2, <1>3 DEF AuthoringInv

\* Serving a call that its tab awaits keeps the invariant.
LEMMA AuthoringAnswers ==
  ASSUME AuthoringInv, NEW t \in Tabs, ServerAnswers(t)
  PROVE AuthoringInv'
<1> PICK e : e = editor[t] OBVIOUS
<1> PICK c : c = awaited[t] OBVIOUS
<1> PICK a : a = Answer(c.op, draft'.revision, draft'.doc, Len(published')) OBVIOUS
<1>1. /\ awaited' = [awaited EXCEPT ![t] = a] /\ UNCHANGED <<editor, orphans>>
      /\ c # NoCall
  BY DEF ServerAnswers, WithAnswer, Answer, Busy
<1>2. /\ DOMAIN awaited' = Tabs /\ awaited' = [u \in Tabs |-> awaited'[u]]
      /\ awaited'[t] = a /\ \A u \in Tabs : u # t => awaited'[u] = awaited[u]
  BY <1>1 DEF AuthoringInv
<1>3. Awaits(c, e) /\ EditorHolds(e) /\ e \in EditorShape BY TabAsItWas DEF EditorHolds
<1>4. ASSUME DraftHolds', Survives, Awaits(a, e)' PROVE AuthoringInv'
  <2>1. Awaits(awaited[t], editor[t])' BY <1>1, <1>2, <1>4 DEF Awaits
  <2> QED BY <2>1, <1>1, <1>2, <1>4, ServedKeep
<1>5. DraftHolds' => draft'.revision \in Nat /\ draft'.doc \in Text /\ Len(published') \in Nat
  BY DEF DraftHolds
<1>6. CASE Shows(c)
  <2>1. UNCHANGED <<draft, published>> /\ c.op = "load" BY <1>6 DEF Shows
  <2>2. DraftHolds' /\ Survives
    BY <2>1 DEF AuthoringInv, DraftHolds, Survives, UpToDate, LeadsTo
  <2>3. UpToDate(draft.revision, draft.doc)' BY <2>2 DEF DraftHolds, UpToDate
  <2>4. Awaits(a, e)' BY <2>1, <2>2, <2>3, <1>5 DEF Awaits
  <2> QED BY <2>2, <2>4, <1>4
<1>7. CASE Stores(c)
  <2>1. c.op = "save" /\ c.stage = "sent" BY <1>7 DEF Stores
  <2>2. c = SaveCall(e.revision, e.doc, e.base)
    <3>1. c # LoadCall BY <2>1, TheCalls
    <3>2. \A p, r, d, v : c # Answer(p, r, d, v) BY <2>1, AnswersAnswer
    <3>3. \A p, r, d : c # PublishCall(r) BY <2>1, PublicationsPublish
    <3> QED BY <1>1, <1>3, <3>1, <3>2, <3>3 DEF Awaits
  <2>3. e.doc \in Text BY <1>3 DEF EditorShape
  <2>4. /\ DraftHolds' /\ Survives /\ UpToDate(draft.revision, e.doc)'
        /\ draft' = [revision |-> draft.revision + 1, doc |-> e.doc]
    BY <2>2, <2>3, <1>7, StoringServed
  <2>5. draft'.doc = e.doc BY <2>4
  <2>6. Awaits(a, e)' BY <2>1, <2>4, <2>5, <1>5 DEF Awaits
  <2> QED BY <2>4, <2>6, <1>4
<1>8. CASE Publishes(c)
  <2>1. c.op = "publish" /\ c.stage = "sent" BY <1>8 DEF Publishes
  <2>2. c = PublishCall(e.revision) /\ ~e.dirty /\ e.revision > 0
    <3>1. c # LoadCall BY <2>1, TheCalls
    <3>2. \A p, r, d, v : c # Answer(p, r, d, v) BY <2>1, AnswersAnswer
    <3>3. \A p, r, d : c # SaveCall(p, r, d) BY <2>1, SavesSave
    <3> QED BY <1>1, <1>3, <3>1, <3>2, <3>3 DEF Awaits
  <2>3. UpToDate(e.revision, e.base) /\ e.doc = e.base BY <1>3, <2>2 DEF EditorHolds
  <2>4. /\ DraftHolds' /\ Survives /\ e.revision = draft.revision /\ draft' = draft
        /\ LeadsTo(Len(published), draft.doc)'
    BY <2>2, <1>8, PublishingServed
  <2>5. e.doc = draft.doc BY <2>3, <2>4 DEF UpToDate
  <2>6. Awaits(a, e)' BY <2>1, <2>4, <2>5, <1>5 DEF Awaits
  <2> QED BY <2>4, <2>6, <1>4
<1> QED BY <1>6, <1>7, <1>8 DEF ServerAnswers, Served

\* And so does serving one that nobody awaits.
LEMMA AuthoringServesOrphans ==
  ASSUME AuthoringInv, NEW c \in orphans, ServeOrphan(c)
  PROVE AuthoringInv'
<1>1. Orphaned(c) BY DEF AuthoringInv
<1>2. UNCHANGED <<editor, awaited>> /\ \A o \in orphans' : o \in orphans BY DEF ServeOrphan
<1>3. DraftHolds' /\ Survives
  <2>1. CASE Stores(c)
    <3>1. c.op = "save" BY <2>1 DEF Stores
    <3>2. \A r : c # PublishCall(r) BY <3>1, TheCalls
    <3>3. PICK r \in Nat, d \in Text, b \in Text : c = SaveCall(r, d, b)
      BY <1>1, <3>2 DEF Orphaned
    <3> QED BY <2>1, <3>3, StoringServed
  <2>2. CASE Publishes(c)
    <3>1. c.op = "publish" BY <2>2 DEF Publishes
    <3>2. \A r, d, b : c # SaveCall(r, d, b) BY <3>1, TheCalls
    <3>3. PICK r \in Nat : c = PublishCall(r) BY <1>1, <3>2 DEF Orphaned
    <3> QED BY <2>2, <3>3, PublishingServed
  <2>3. CASE Shows(c)
    <3>1. UNCHANGED <<draft, published>> BY <2>3 DEF Shows
    <3> QED BY <3>1 DEF AuthoringInv, DraftHolds, Survives, UpToDate, LeadsTo
  <2> QED BY <2>1, <2>2, <2>3 DEF ServeOrphan, Served
<1> QED BY <1>2, <1>3, ServedKeep DEF AuthoringInv

\* Every step of authoring keeps the invariant.
LEMMA AuthoringKeeps == AuthoringInv /\ [AuthoringNext]_authoring => AuthoringInv'
<1> SUFFICES ASSUME AuthoringInv, [AuthoringNext]_authoring PROVE AuthoringInv'
  OBVIOUS
<1>1. CASE \E t \in Tabs, d \in Docs : FreshDoc(t, d) \/ Edit(t, d)
  BY <1>1, AuthoringWrites
<1>2. CASE \E t \in Tabs : Reload(t) \/ Save(t) \/ Publish(t) BY <1>2, AuthoringCalls
<1>3. CASE \E t \in Tabs : ServerAnswers(t) BY <1>3, AuthoringAnswers
<1>4. CASE \E t \in Tabs : Loaded(t) \/ Saved(t) \/ PublishedNow(t) BY <1>4, AuthoringReturns
<1>5. CASE \E t \in Tabs, late \in BOOLEAN : CallIsLost(t, late) \/ Leave(t, late)
  BY <1>5, AuthoringLoses
<1>6. CASE \E c \in orphans : ServeOrphan(c) BY <1>6, AuthoringServesOrphans
<1>7. CASE UNCHANGED authoring
  <2>1. UNCHANGED <<draft, published, editor, awaited, orphans>> BY <1>7 DEF authoring
  <2> QED BY <2>1, AuthoringSteady DEF AuthoringInv
<1> QED BY <1>1, <1>2, <1>3, <1>4, <1>5, <1>6, <1>7 DEF AuthoringNext

\* A save that is stored was sent for the document it replaces.
LEMMA StoresWhatWasSeen ==
  ASSUME AuthoringInv, [AuthoringNext]_authoring, draft'.doc # draft.doc
  PROVE \E c \in orphans \cup {awaited[t] : t \in Tabs} :
          /\ c.op = "save" /\ c.stage = "sent"
          /\ c.doc = draft'.doc /\ c.base = draft.doc
<1>1. ASSUME NEW r, NEW d \in Text, NEW b, Stores(SaveCall(r, d, b)), UpToDate(r, b)
      PROVE LET c == SaveCall(r, d, b)
            IN /\ c.op = "save" /\ c.stage = "sent"
               /\ c.doc = draft'.doc /\ c.base = draft.doc
  <2>1. r = draft.revision /\ draft' = [revision |-> draft.revision + 1, doc |-> d]
    BY <1>1, StoringServed
  <2>2. draft'.doc = d /\ b = draft.doc BY <2>1, <1>1 DEF UpToDate
  <2> QED BY <2>2, TheCalls
<1>2. CASE \E c \in orphans : ServeOrphan(c)
  <2> PICK c \in orphans : ServeOrphan(c) BY <1>2
  <2>1. Stores(c) BY DEF ServeOrphan, Served, Publishes, Shows
  <2>2. c.op = "save" /\ Orphaned(c) BY <2>1 DEF Stores, AuthoringInv
  <2>3. \A r : c # PublishCall(r) BY <2>2, TheCalls
  <2>4. PICK r \in Nat, d \in Text, b \in Text : c = SaveCall(r, d, b) /\ UpToDate(r, b)
    BY <2>2, <2>3 DEF Orphaned
  <2> QED BY <2>1, <2>4, <1>1
<1>3. CASE \E t \in Tabs : ServerAnswers(t)
  <2> PICK t \in Tabs : ServerAnswers(t) BY <1>3
  <2> DEFINE c == awaited[t]
             e == editor[t]
  <2>1. Stores(c) /\ c # NoCall BY DEF ServerAnswers, Served, Publishes, Shows, Busy
  <2>2. c.op = "save" /\ c.stage = "sent" BY <2>1 DEF Stores
  <2>3. Awaits(c, e) /\ EditorHolds(e) /\ e.doc \in Text
    BY TabAsItWas DEF EditorHolds, EditorShape
  <2>4. c = SaveCall(e.revision, e.doc, e.base)
    <3>1. c # LoadCall BY <2>2, TheCalls
    <3>2. \A p, r, d, v : c # Answer(p, r, d, v) /\ c # PublishCall(r) BY <2>2, TheCalls
    <3> QED BY <2>1, <2>3, <3>1, <3>2 DEF Awaits
  <2>5. UpToDate(e.revision, e.base) BY <2>3 DEF EditorHolds
  <2> HIDE DEF e
  <2>6. /\ c.op = "save" /\ c.stage = "sent"
        /\ c.doc = draft'.doc /\ c.base = draft.doc
    BY <2>1, <2>3, <2>4, <2>5, <1>1
  <2> QED BY <2>6
<1>4. CASE \E t \in Tabs :
             \/ \E d \in Docs : FreshDoc(t, d) \/ Edit(t, d)
             \/ Reload(t) \/ Save(t) \/ Publish(t)
             \/ Loaded(t) \/ Saved(t) \/ PublishedNow(t)
             \/ \E late \in BOOLEAN : CallIsLost(t, late) \/ Leave(t, late)
  <2>1. draft' = draft
    BY <1>4 DEF FreshDoc, Edit, Reload, Save, Publish, Loaded, Saved, PublishedNow,
                CallIsLost, Leave
  <2> QED BY <2>1
<1>5. CASE UNCHANGED authoring BY <1>5 DEF authoring
<1> QED BY <1>2, <1>3, <1>4, <1>5 DEF AuthoringNext

\* What a tab holds is what is stored at the revision it names, and a link it
\* shows leads to the questionnaire it shows, for every number of tabs.
THEOREM EditorsAreCurrent == AuthoringSpec => []EditorIsCurrent
<1>1. AuthoringInv => EditorIsCurrent
  <2> SUFFICES ASSUME AuthoringInv, NEW t \in Tabs
      PROVE /\ editor[t].revision > 0 /\ editor[t].revision = draft.revision
                 => editor[t].base = draft.doc
            /\ editor[t].hosted > 0 => published[editor[t].hosted] = editor[t].doc
    BY DEF EditorIsCurrent
  <2> QED BY TabAsItWas DEF EditorHolds, UpToDate, LeadsTo
<1> QED BY <1>1, AuthoringStarts, AuthoringKeeps, PTL DEF AuthoringSpec

\* A save, however late it is served, replaces the document its owner had before
\* them (save_bound_flow_draft takes the row of the expected revision or none).
THEOREM NothingIsOverwritten == AuthoringSpec => NothingOverwritten
<1>1. AuthoringInv /\ [AuthoringNext]_authoring =>
        [draft'.doc # draft.doc =>
           \E c \in orphans \cup {awaited[t] : t \in Tabs} :
             /\ c.op = "save" /\ c.stage = "sent"
             /\ c.doc = draft'.doc /\ c.base = draft.doc]_authoring
  BY StoresWhatWasSeen
<1> QED BY <1>1, AuthoringStarts, AuthoringKeeps, PTL DEF AuthoringSpec, NothingOverwritten

-----------------------------------------------------------------------------
(* Availability: a slot is offered as often as there are places.            *)

\* What one blackout leaves of some windows are windows, finitely many.
LEMMA SubtractTyped ==
  ASSUME NEW Names, NEW ws \in SUBSET [start : Int, end : Int, capacity : Nat, name : Names], IsFiniteSet(ws),
         NEW b, b.start \in Int, b.end \in Int
  PROVE  /\ SubtractInterval(ws, b) \in SUBSET [start : Int, end : Int, capacity : Nat, name : Names]
         /\ IsFiniteSet(SubtractInterval(ws, b))
<1> DEFINE W == [start : Int, end : Int, capacity : Nat, name : Names]
           Split == {w \in ws : b.end > w.start /\ b.start < w.end}
           Halves(w) == {[w EXCEPT !.end = b.start], [w EXCEPT !.start = b.end]}
           e == [w \in Split |-> Halves(w)]
<1>1. SubtractInterval(ws, b) \in SUBSET W
  BY DEF SubtractInterval
<1>2. IsFiniteSet(Split) /\ IsFiniteSet({w \in ws : b.end <= w.start \/ b.start >= w.end})
  BY FS_Subset
<1>3. IsFiniteSet({e[w] : w \in Split})
  <2> HIDE DEF e, Split
  <2>1. QED
    BY <1>2, FiniteImage
<1>4. {e[w] : w \in Split} = {Halves(w) : w \in Split}
  OBVIOUS
<1>5. \A T \in {Halves(w) : w \in Split} : IsFiniteSet(T)
  <2>1. ASSUME NEW x, NEW y PROVE IsFiniteSet({x, y})
    <3>1. IsFiniteSet({x} \cup {y})
      BY FS_Singleton, FS_AddElement
    <3>2. {x} \cup {y} = {x, y}
      OBVIOUS
    <3>3. QED
      BY <3>1, <3>2
  <2>2. \A w : IsFiniteSet(Halves(w))
    BY <2>1
  <2>3. QED
    BY <2>2
<1>6. IsFiniteSet(UNION {Halves(w) : w \in Split})
  <2> DEFINE H == {Halves(w) : w \in Split}
  <2>1. IsFiniteSet(H) /\ \A T \in H : IsFiniteSet(T)
    BY <1>3, <1>4, <1>5
  <2> HIDE DEF H
  <2>2. IsFiniteSet(UNION H)
    BY <2>1, FS_UNION
  <2>3. QED
    BY <2>2 DEF H
<1>7. SubtractInterval(ws, b) = {w \in ws : b.end <= w.start \/ b.start >= w.end} \cup UNION {Halves(w) : w \in Split}
  BY DEF SubtractInterval
<1>8. IsFiniteSet(SubtractInterval(ws, b))
  <2> DEFINE U == UNION {Halves(w) : w \in Split}
             K == {w \in ws : b.end <= w.start \/ b.start >= w.end}
  <2>1. IsFiniteSet(U) /\ IsFiniteSet(K) /\ SubtractInterval(ws, b) = K \cup U
    BY <1>2, <1>6, <1>7
  <2> HIDE DEF U, K
  <2>2. QED
    BY <2>1, FS_Union
<1>9. QED
  BY <1>1, <1>8

\* The rows a day's windows come from.
WindowsOver(Names) == [start : Int, end : Int, capacity : Nat, name : Names]
FiniteWindowSets(Names) == {ws \in SUBSET WindowsOver(Names) : IsFiniteSet(ws)}

\* And so for all blackouts of a day.
LEMMA BlackoutsTyped ==
  ASSUME NEW Names, NEW ws \in FiniteWindowSets(Names), NEW covering, IsFiniteSet(covering),
         \A b \in covering : b.start \in Int /\ b.end \in Int
  PROVE  SubtractAll(ws, covering) \in FiniteWindowSets(Names)
<1> DEFINE V == FiniteWindowSets(Names)
           h == [p \in covering \X V |-> SubtractInterval(p[2], p[1])]
           B(it) == [s \in SUBSET covering |->
                       IF s = {} THEN ws
                       ELSE SubtractInterval(it[s \ {Chosen(s)}], Chosen(s))]
           g == CHOOSE it : it = B(it)
<1>1. SubtractAll(ws, covering) = g[covering]
  BY DEF SubtractAll, FoldSet, MapThenFoldSet, Chosen
<1>2. \A b \in covering, old \in V : SubtractInterval(old, b) \in V
  BY SubtractTyped DEF FiniteWindowSets, WindowsOver
<1> HIDE DEF V
<1>3. h \in [covering \X V -> V]
  BY <1>2
<1> HIDE DEF h
<1>4. PICK k \in [SUBSET covering -> V] : FoldsTo(covering, ws, h, k)
  <2>1. ws \in V
    BY DEF V
  <2>2. QED
    BY <1>3, <2>1, FoldExists
<1>5. \A s \in SUBSET covering : s # {} => Chosen(s) \in covering
  BY DEF Chosen
<1>6. k = B(k)
  BY <1>4, <1>5 DEF FoldsTo, h
<1>7. g = B(g)
  BY <1>6
<1> HIDE DEF g
<1>8. ASSUME NEW s \in SUBSET covering, s = {} \/ g[s \ {Chosen(s)}] = k[s \ {Chosen(s)}]
      PROVE  g[s] = k[s]
  BY <1>6, <1>7, <1>8
<1>9. g[covering] \in V
  <2> DEFINE F == {s \in SUBSET covering : g[s] = k[s]}
  <2>1. \A s \in SUBSET covering : (s = {} \/ s \ {Chosen(s)} \in F) => s \in F
    BY <1>8
  <2> HIDE DEF F
  <2>2. \A s \in SUBSET covering : s \in F
    BY <2>1, FoldInduction
  <2>3. QED
    BY <2>2 DEF F
<1>10. QED
  BY <1>1, <1>9 DEF V

Labels == {x.name : x \in setup.rules \cup setup.overrides}

\* A weekday's windows are finitely many, each with a capacity and one of the labels.
LEMMA WindowsTyped ==
  ASSUME setup \in Calendars, NEW d \in Dates
  PROVE  Windows(d) \in FiniteWindowSets(Labels)
<1> DEFINE inForce == {r \in setup.rules : RuleEffectiveOn(r, d)}
           rows == setup.rules \cup setup.overrides
           base == BaseWindows(d, inForce)
           covering == {b \in setup.blackouts : BlackoutCovers(b, d)}
           rest == SubtractAll(base, covering)
<1>1. IsFiniteSet(rows)
  BY CalendarRows, FS_Union
<1>2. base \in FiniteWindowSets(Labels)
  <2> DEFINE overrides == OwnOrAll({o \in setup.overrides : o.date = d /\ AppliesTo(o)})
             open == {o \in overrides : o.kind = "open"}
             rules == OwnOrAll({r \in inForce : r.weekday = Weekday[d] /\ AppliesTo(r)})
             used == {x \in (IF open # {} THEN open ELSE rules) : x.start < x.end}
             e == [x \in used |-> Span(x)]
  <2>1. used \in SUBSET rows
    BY DEF OwnOrAll
  <2>2. base = {} \/ base = {Span(x) : x \in used}
    BY DEF BaseWindows
  <2> HIDE DEF used, base
  <2>3. IsFiniteSet(used) /\ {e[x] : x \in used} = {Span(x) : x \in used}
    BY <1>1, <2>1, FS_Subset
  <2>4. IsFiniteSet({e[x] : x \in used})
    <3> HIDE DEF e
    <3>1. QED
      BY <2>3, FiniteImage
  <2>5. \A x \in used : Span(x) \in WindowsOver(Labels)
    <3>1. \A x \in used : x.start \in Int /\ x.end \in Int /\ x.capacity \in Nat /\ x.name \in Labels
      BY <2>1, CalendarRows DEF Labels
    <3>2. QED
      BY <3>1 DEF Span, WindowsOver
  <2>6. QED
    BY <2>2, <2>3, <2>4, <2>5, FS_EmptySet DEF FiniteWindowSets
<1>3. IsFiniteSet(covering) /\ \A b \in covering : b.start \in Int /\ b.end \in Int
  BY CalendarRows, FS_Subset
<1> HIDE DEF base, covering
<1>4. rest \in FiniteWindowSets(Labels)
  BY <1>2, <1>3, BlackoutsTyped
<1>5. Windows(d) \in SUBSET rest
  BY DEF Windows, ApplyBlackouts, base, covering, inForce
<1> HIDE DEF rest
<1>6. QED
  BY <1>4, <1>5, FS_Subset DEF FiniteWindowSets

Places == [p \in DayWindows |-> p[2].capacity]

\* So are the windows of all days.
LEMMA DayWindowsTyped ==
  ASSUME setup \in Calendars
  PROVE  /\ IsFiniteSet(DayWindows)
         /\ \A p \in DayWindows : /\ p = <<p[1], p[2]>> /\ p[1] \in Dates /\ p[2] \in Windows(p[1])
                                  /\ p[2].start \in Int /\ p[2].end \in Int /\ p[2].capacity \in Nat
<1> DEFINE e == [d \in Dates |-> {d} \X Windows(d)]
<1>1. \A d \in Dates : IsFiniteSet(Windows(d)) /\ Windows(d) \in SUBSET WindowsOver(Labels)
  BY WindowsTyped DEF FiniteWindowSets
<1>2. \A d \in Dates : IsFiniteSet(e[d])
  BY <1>1, FS_Singleton, FS_Product
<1>3. DayWindows = UNION {e[d] : d \in Dates}
  BY DEF DayWindows
<1>4. IsFiniteSet({e[d] : d \in Dates})
  <2> HIDE DEF e
  <2>1. QED
    BY SchedulingAssumption, FiniteImage
<1>5. IsFiniteSet(DayWindows)
  <2> DEFINE E == {e[d] : d \in Dates}
  <2>1. IsFiniteSet(E) /\ (\A T \in E : IsFiniteSet(T)) /\ DayWindows = UNION E
    BY <1>2, <1>3, <1>4
  <2> HIDE DEF E
  <2>2. QED
    BY <2>1, FS_UNION
<1>6. ASSUME NEW p \in DayWindows
      PROVE  /\ p = <<p[1], p[2]>> /\ p[1] \in Dates /\ p[2] \in Windows(p[1])
  BY DEF DayWindows
<1>7. ASSUME NEW p \in DayWindows
      PROVE  p[2].start \in Int /\ p[2].end \in Int /\ p[2].capacity \in Nat
  BY <1>1, <1>6 DEF WindowsOver
<1>8. QED
  BY <1>5, <1>6, <1>7

\* A wall minute maps to a moment.
LEMMA UtcInt ==
  ASSUME setup \in Calendars, NEW d \in Dates, NEW m \in Int
  PROVE  LocalToUtc(d, m) \in Int
<1>1. d \in Int /\ DayLength \in Int
  BY SchedulingAssumption
<1>2. \A u \in Int : Offset(u) \in Int
  BY CalendarRows DEF Offset
<1> HIDE DEF Offset
<1>3. QED
  BY <1>1, <1>2 DEF LocalToUtc

\* What is offered at a start is within the places of the windows that cover
\* any moment of its appointment.
LEMMA OffersFit ==
  ASSUME setup \in Calendars, NeverPutForward, NEW start \in Int,
         NEW u \in Int, start <= u, u < start + Duration
  PROVE  LET offers == Offers([d \in Dates |-> Windows(d)])
         IN CapacityAt(offers, start) <= Total(Places, Covering(u))
            /\ CapacityAt(offers, start) \in Int
<1> DEFINE offers == Offers([d \in Dates |-> Windows(d)])
           A == {o \in offers : o.at = start}
           e == [o \in A |-> <<o.date, o.window>>]
           k == [o \in A |-> o.window.capacity]
           E == {e[o] : o \in A}
<1>1. ASSUME NEW o \in A
      PROVE  /\ <<o.date, o.window>> \in DayWindows
             /\ o.minute \in o.window.start .. o.window.end - Duration
             /\ LocalToUtc(o.date, o.minute) = start
             /\ o = [at |-> start, date |-> o.date, minute |-> o.minute, window |-> o.window]
  <2>1. PICK p \in DayWindows : \E m \in Minutes(p[2]) :
               o = [at |-> LocalToUtc(p[1], m), date |-> p[1], minute |-> m, window |-> p[2]]
    BY DEF Offers, DayWindows
  <2>2. PICK m \in Minutes(p[2]) :
               o = [at |-> LocalToUtc(p[1], m), date |-> p[1], minute |-> m, window |-> p[2]]
    BY <2>1
  <2>3. p = <<p[1], p[2]>>
    BY DayWindowsTyped
  <2>4. o.date = p[1] /\ o.window = p[2] /\ o.minute = m /\ o.at = LocalToUtc(p[1], m)
    BY <2>2
  <2>5. o.at = start
    OBVIOUS
  <2>6. QED
    BY <2>2, <2>3, <2>4, <2>5 DEF Minutes
<1>2. ASSUME NEW o \in A
      PROVE  /\ o.date \in Dates /\ o.window \in Windows(o.date)
             /\ o.window.start \in Int /\ o.window.end \in Int /\ o.window.capacity \in Nat
             /\ o.minute \in o.window.start .. o.window.end /\ o.minute + Duration <= o.window.end
             /\ o.window.start \in o.window.start .. o.window.end
             /\ o.window.end \in o.window.start .. o.window.end
  <2>1. <<o.date, o.window>> \in DayWindows
    BY <1>1
  <2>2. /\ o.date \in Dates /\ o.window \in Windows(o.date)
        /\ o.window.start \in Int /\ o.window.end \in Int /\ o.window.capacity \in Nat
    <3> DEFINE p == <<o.date, o.window>>
    <3>1. p \in DayWindows /\ p[1] = o.date /\ p[2] = o.window
      BY <2>1
    <3> HIDE DEF p
    <3>2. QED
      BY <3>1, DayWindowsTyped
  <2>3. o.minute \in o.window.start .. o.window.end - Duration
    BY <1>1
  <2>4. QED
    BY <2>2, <2>3, SchedulingAssumption
<1>3. ASSUME NEW o \in A, NEW q \in A, e[o] = e[q] PROVE o = q
  <2>1. o.date = q.date /\ o.window = q.window
    BY <1>3
  <2>2. o.minute = q.minute
    <3> DEFINE L(m) == LocalToUtc(o.date, m)
    <3>1. L(o.minute) = L(q.minute) /\ L(o.minute) \in Int
      BY <1>1, <1>2, <2>1, UtcInt
    <3>2. o.minute <= q.minute => L(q.minute) - L(o.minute) >= q.minute - o.minute
      BY <1>2, <2>1 DEF NeverPutForward
    <3>3. q.minute <= o.minute => L(o.minute) - L(q.minute) >= o.minute - q.minute
      BY <1>2, <2>1 DEF NeverPutForward
    <3>4. o.minute \in Int /\ q.minute \in Int
      BY <1>2
    <3> HIDE DEF L
    <3>5. QED
      BY <3>1, <3>2, <3>3, <3>4
  <2>3. QED
    BY <1>1, <2>1, <2>2
<1>4. ASSUME NEW o \in A PROVE e[o] \in Covering(u)
  <2> DEFINE L(m) == LocalToUtc(o.date, m)
  <2>1. L(o.minute) - L(o.window.start) >= o.minute - o.window.start
    BY <1>2 DEF NeverPutForward
  <2>2. L(o.window.end) - L(o.minute) >= o.window.end - o.minute
    BY <1>2 DEF NeverPutForward
  <2>3. L(o.minute) = start
    BY <1>1
  <2>4. L(o.window.start) \in Int /\ L(o.window.end) \in Int
    BY <1>2, UtcInt
  <2>5. L(o.window.start) <= u /\ u < L(o.window.end)
    <3> HIDE DEF L
    <3>1. QED
      BY <1>2, <2>1, <2>2, <2>3, <2>4, SchedulingAssumption
  <2>6. QED
    BY <1>1, <2>5 DEF Covering
<1>5. IsFiniteSet(DayWindows) /\ Covering(u) \in SUBSET DayWindows
      /\ IsFiniteSet(Covering(u)) /\ \A p \in Covering(u) : Places[p] \in Nat
  <2>1. IsFiniteSet(DayWindows) /\ Covering(u) \in SUBSET DayWindows
    BY DayWindowsTyped DEF Covering
  <2>2. \A p \in DayWindows : Places[p] \in Nat
    BY DayWindowsTyped DEF Places
  <2>3. QED
    BY <2>1, <2>2, FS_Subset
<1>6. IsFiniteSet(A)
  <2>1. e \in Injection(A, Covering(u))
    BY <1>3, <1>4 DEF Injection, IsInjective
  <2> HIDE DEF e, A
  <2>2. QED
    BY <1>5, <2>1, FS_Injection
<1>7. CapacityAt(offers, start) = Total(k, A)
  <2> DEFINE B(it) == [s \in SUBSET A |->
                         IF s = {} THEN 0
                         ELSE Chosen(s).window.capacity + it[s \ {Chosen(s)}]]
             g == CHOOSE it : it = B(it)
  <2>1. CapacityAt(offers, start) = g[A]
    BY DEF CapacityAt, MapThenSumSet, MapThenFoldSet, Chosen
  <2>2. \A o \in A : k[o] \in Int /\ k[o] = o.window.capacity
    BY <1>2
  <2>3. \A s \in SUBSET A : s # {} => Chosen(s) \in A
    BY DEF Chosen
  <2> HIDE DEF A, k
  <2>4. PICK h \in [SUBSET A -> Int] : Sums(k, A, h)
    BY <1>6, <2>2, SumsExist
  <2>5. h = B(h)
    BY <2>2, <2>3, <2>4 DEF Sums
  <2>6. g = B(g)
    BY <2>5
  <2> HIDE DEF g
  <2>7. Sums(k, A, g)
    BY <2>2, <2>3, <2>6 DEF Sums
  <2>8. QED
    BY <1>6, <2>1, <2>2, <2>7, SumIsTotal
<1>8. ASSUME NEW o \in A PROVE Places[e[o]] \in Int /\ k[o] = Places[e[o]]
  <2>1. e[o] = <<o.date, o.window>> /\ e[o] \in DayWindows /\ k[o] = o.window.capacity
    BY <1>1
  <2>2. e[o][2] = o.window
    BY <2>1
  <2> HIDE DEF e, k
  <2>3. Places[e[o]] = o.window.capacity
    BY <2>1, <2>2 DEF Places
  <2>4. QED
    BY <1>2, <2>1, <2>3
<1>9. Total(Places, E) = Total(k, A)
  <2> HIDE DEF e, k, A
  <2>1. \A x, y \in A : e[x] = e[y] => x = y
    BY <1>3
  <2>2. QED
    BY <1>6, <1>8, <2>1, TotalImage
<1>10. E \in SUBSET Covering(u)
  BY <1>4
<1>11. Total(Places, E) <= Total(Places, Covering(u)) /\ Total(Places, E) \in Int
  <2> HIDE DEF E
  <2>1. Total(Places, E) <= Total(Places, Covering(u))
    BY <1>5, <1>10, TotalPart
  <2>2. IsFiniteSet(E) /\ \A p \in E : Places[p] \in Int
    BY <1>5, <1>10, FS_Subset
  <2>3. QED
    BY <2>1, <2>2, TotalInt
<1> HIDE DEF offers, A, e, k, E
<1>12. QED
  BY <1>7, <1>9, <1>11 DEF offers

\* At no moment do the appointments exceed the places.
WithinPlaces ==
  /\ setup \in Calendars /\ booked \in Seq(Int)
  /\ \A u \in Int : Cardinality(Taken(u)) <= Total(Places, Covering(u))

\* The places that cover a moment add up to a number.
LEMMA CoverTotals ==
  ASSUME setup \in Calendars, NEW u \in Int
  PROVE  Total(Places, Covering(u)) \in Nat
<1>1. IsFiniteSet(DayWindows) /\ Covering(u) \in SUBSET DayWindows
  BY DayWindowsTyped DEF Covering
<1>2. \A p \in DayWindows : Places[p] \in Nat
  BY DayWindowsTyped DEF Places
<1>3. IsFiniteSet(Covering(u)) /\ \A p \in Covering(u) : Places[p] \in Nat
  BY <1>1, <1>2, FS_Subset
<1>4. Total(Places, Covering(u)) \in Int
  BY <1>3, TotalInt
<1>5. Total(Places, {}) <= Total(Places, Covering(u))
  BY <1>3, TotalPart
<1>6. QED
  BY <1>4, <1>5, TotalEmpty

\* The bookings at a moment are finitely many.
LEMMA TakenFinite ==
  ASSUME booked \in Seq(Int), NEW u \in Int
  PROVE  IsFiniteSet(DOMAIN booked) /\ IsFiniteSet(Taken(u)) /\ Cardinality(Taken(u)) \in Nat
<1>1. IsFiniteSet(DOMAIN booked)
  <2>1. DOMAIN booked = 1 .. Len(booked) /\ Len(booked) \in Int /\ 1 \in Int
    OBVIOUS
  <2>2. QED
    BY <2>1, FS_Interval
<1>2. IsFiniteSet(Taken(u))
  BY <1>1, FS_Subset DEF Taken
<1>3. QED
  BY <1>1, <1>2, FS_CardinalityType

\* The windows, and so the places, are the configuration's: they stay.
LEMMA PlacesStay ==
  ASSUME setup' = setup
  PROVE  /\ NeverPutForward' = NeverPutForward
         /\ Places' = Places /\ \A u \in Int : Covering(u)' = Covering(u)
<1>1. \A d \in Dates : Windows(d)' = Windows(d)
  BY DEF Windows, ApplyBlackouts, BaseWindows, OwnOrAll, AppliesTo, BlackoutCovers
<1>2. \A d, m : LocalToUtc(d, m)' = LocalToUtc(d, m)
  BY DEF LocalToUtc, Offset
<1>3. DayWindows' = DayWindows
  BY <1>1 DEF DayWindows
<1>4. NeverPutForward' = NeverPutForward
  BY <1>1, <1>2 DEF NeverPutForward
<1>5. Places' = Places
  BY <1>3 DEF Places
<1>6. \A u \in Int : Covering(u)' = Covering(u)
  BY <1>2, <1>3 DEF Covering
<1>7. QED
  BY <1>4, <1>5, <1>6

\* A booking takes one of the places its start was offered.
LEMMA BookWithinPlaces ==
  ASSUME WithinPlaces, NeverPutForward, NEW start \in Slots, Book(start)
  PROVE  WithinPlaces'
<1> DEFINE offers == Offers([d \in Dates |-> Windows(d)])
           n == Len(booked)
<1>1. /\ setup \in Calendars /\ booked \in Seq(Int) /\ setup' = setup
      /\ booked' = Append(booked, start)
      /\ \A u \in Int : Cardinality(Taken(u)) <= Total(Places, Covering(u))
  BY DEF WithinPlaces, Book
<1>2. start \in Int
  <2>1. PICK p \in DayWindows : \E m \in Minutes(p[2]) : start = LocalToUtc(p[1], m)
    BY DEF Slots, SlotsAmong, Offers, DayWindows
  <2>2. p[1] \in Dates /\ p[2].start \in Int /\ p[2].end \in Int
    BY <1>1, DayWindowsTyped
  <2>3. PICK m \in Int : start = LocalToUtc(p[1], m)
    BY <2>1, <2>2 DEF Minutes
  <2>4. QED
    BY <1>1, <2>2, <2>3, UtcInt
<1>3. CapacityAt(offers, start) - Consumed(start) >= 1
  BY DEF Slots, SlotsAmong, Remaining
<1>4. /\ n \in Nat /\ DOMAIN booked = 1 .. n /\ booked' \in Seq(Int) /\ DOMAIN booked' = 1 .. n + 1
      /\ booked'[n + 1] = start /\ \A i \in 1 .. n : booked'[i] = booked[i] /\ booked[i] \in Int
  BY <1>1, <1>2
<1>5. ASSUME NEW u \in Int PROVE Cardinality(Taken(u)') <= Total(Places, Covering(u))
  <2> DEFINE grown == {i \in 1 .. n + 1 : booked'[i] <= u /\ u < booked'[i] + Duration}
  <2>1. Taken(u)' = grown
    BY <1>4 DEF Taken
  <2>2. CASE start <= u /\ u < start + Duration
    <3>1. grown = Taken(u) \cup {n + 1} /\ n + 1 \notin Taken(u)
      BY <1>4, <2>2 DEF Taken
    <3>2. Cardinality(grown) = Cardinality(Taken(u)) + 1
      BY <1>1, <3>1, TakenFinite, FS_AddElement
    <3> DEFINE near == {i \in DOMAIN booked :
                          booked[i] < start + Duration /\ booked[i] + Duration > start}
    <3>3. Taken(u) \in SUBSET near
      BY <1>2, <1>4, <2>2, SchedulingAssumption DEF Taken
    <3>4. IsFiniteSet(near) /\ Cardinality(near) \in Nat
      BY <1>1, TakenFinite, FS_Subset, FS_CardinalityType
    <3>5. Cardinality(Taken(u)) <= Cardinality(near) /\ Consumed(start) = Cardinality(near)
      BY <3>3, <3>4, FS_Subset DEF Consumed
    <3>6. /\ CapacityAt(offers, start) <= Total(Places, Covering(u))
          /\ CapacityAt(offers, start) \in Int
      BY <1>1, <1>2, <2>2, OffersFit
    <3>7. Cardinality(Taken(u)) \in Nat /\ Total(Places, Covering(u)) \in Nat
      BY <1>1, TakenFinite, CoverTotals
    <3> HIDE DEF offers, near, grown
    <3>8. QED
      BY <1>3, <2>1, <3>2, <3>4, <3>5, <3>6, <3>7
  <2>3. CASE ~(start <= u /\ u < start + Duration)
    <3>1. grown = Taken(u)
      BY <1>4, <2>3 DEF Taken
    <3>2. QED
      BY <1>1, <2>1, <3>1
  <2>4. QED
    BY <2>2, <2>3
<1>6. QED
  BY <1>1, <1>4, <1>5, PlacesStay DEF WithinPlaces

\* Giving one up leaves fewer taken.
LEMMA ReleaseWithinPlaces ==
  ASSUME WithinPlaces, NEW k \in DOMAIN booked, ReleaseBooking(k)
  PROVE  WithinPlaces'
<1> DEFINE n == Len(booked)
<1>1. /\ setup \in Calendars /\ booked \in Seq(Int) /\ setup' = setup
      /\ \A u \in Int : Cardinality(Taken(u)) <= Total(Places, Covering(u))
  BY DEF WithinPlaces, ReleaseBooking
<1>2. n \in Nat \ {0} /\ k \in 1 .. n /\ DOMAIN booked = 1 .. n /\ \A i \in 1 .. n : booked[i] \in Int
  BY <1>1
<1>3. booked' = [j \in 1 .. n - 1 |-> IF j < k THEN booked[j] ELSE booked[j + 1]]
  BY DEF ReleaseBooking
<1>4. booked' \in Seq(Int) /\ DOMAIN booked' = 1 .. n - 1
  <2>1. \A j \in 1 .. n - 1 : (IF j < k THEN booked[j] ELSE booked[j + 1]) \in Int
    BY <1>2
  <2>2. booked' \in [1 .. n - 1 -> Int] /\ n - 1 \in Nat
    BY <1>2, <1>3, <2>1
  <2>3. QED
    BY <2>2
<1>5. ASSUME NEW u \in Int PROVE Cardinality(Taken(u)') <= Total(Places, Covering(u))
  <2> DEFINE left == {i \in 1 .. n - 1 : booked'[i] <= u /\ u < booked'[i] + Duration}
             e == [j \in left |-> IF j < k THEN j ELSE j + 1]
  <2>1. Taken(u)' = left
    BY <1>4 DEF Taken
  <2>2. ASSUME NEW j \in left PROVE e[j] \in Taken(u)
    BY <1>2, <1>3 DEF Taken
  <2>3. ASSUME NEW i \in left, NEW j \in left, e[i] = e[j] PROVE i = j
    BY <1>2, <2>3
  <2>4. e \in Injection(left, Taken(u))
    BY <2>2, <2>3 DEF Injection, IsInjective
  <2> HIDE DEF e, left
  <2>5. IsFiniteSet(left) /\ Cardinality(left) <= Cardinality(Taken(u))
    BY <1>1, <2>4, TakenFinite, FS_Injection
  <2>6. Cardinality(left) \in Nat /\ Cardinality(Taken(u)) \in Nat /\ Total(Places, Covering(u)) \in Nat
    BY <1>1, <2>5, TakenFinite, CoverTotals, FS_CardinalityType
  <2>7. QED
    BY <1>1, <2>1, <2>5, <2>6
<1>6. QED
  BY <1>1, <1>4, <1>5, PlacesStay DEF WithinPlaces

\* The sum of the capacities that cover a moment, as a total.
LEMMA PlacesTotal ==
  ASSUME NEW C, IsFiniteSet(C), NEW f, \A p \in C : f[p] \in Int /\ f[p] = p[2].capacity
  PROVE  PlacesOf(C) = Total(f, C)
<1> DEFINE B(it) == [s \in SUBSET C |->
                       IF s = {} THEN 0 ELSE Chosen(s)[2].capacity + it[s \ {Chosen(s)}]]
           g == CHOOSE it : it = B(it)
<1>1. PlacesOf(C) = g[C]
  BY DEF PlacesOf, MapThenSumSet, MapThenFoldSet, Chosen
<1>2. \A s \in SUBSET C : s # {} => Chosen(s) \in C
  BY DEF Chosen
<1>3. PICK h \in [SUBSET C -> Int] : Sums(f, C, h)
  BY SumsExist
<1>4. h = B(h)
  BY <1>2, <1>3 DEF Sums
<1>5. g = B(g)
  BY <1>4
<1> HIDE DEF g
<1>6. Sums(f, C, g)
  BY <1>2, <1>5 DEF Sums
<1>7. QED
  BY <1>1, <1>6, SumIsTotal

\* Bookings within the places are within the capacity.
LEMMA PlacesSuffice ==
  ASSUME WithinPlaces
  PROVE  NeverOverCapacity
<1> SUFFICES ASSUME NEW u \in {booked[i] + k : i \in DOMAIN booked, k \in 0 .. Duration - 1}
             PROVE  Cardinality(Taken(u)) <= PlacesOf(Covering(u))
  BY DEF NeverOverCapacity
<1>1. setup \in Calendars /\ booked \in Seq(Int)
  BY DEF WithinPlaces
<1>2. u \in Int
  BY <1>1, SchedulingAssumption
<1>3. Cardinality(Taken(u)) <= Total(Places, Covering(u))
  BY <1>2 DEF WithinPlaces
<1>4. PlacesOf(Covering(u)) = Total(Places, Covering(u))
  <2>1. IsFiniteSet(DayWindows) /\ Covering(u) \in SUBSET DayWindows
    BY <1>1, DayWindowsTyped DEF Covering
  <2>2. \A p \in DayWindows : Places[p] \in Int /\ Places[p] = p[2].capacity
    BY <1>1, DayWindowsTyped DEF Places
  <2>3. IsFiniteSet(Covering(u)) /\ \A p \in Covering(u) : Places[p] \in Int /\ Places[p] = p[2].capacity
    BY <2>1, <2>2, FS_Subset
  <2>4. QED
    BY <2>3, PlacesTotal
<1>5. QED
  BY <1>3, <1>4

\* Where no window spans a clock that is put forward, every appointment has
\* a place: bookings at any moment are no more than the capacities of the windows
\* that cover it, for any calendars, slots and lengths.
THEOREM SchedulingWithinPlaces ==
  SchedulingSpec /\ NeverPutForward => []NeverOverCapacity
<1>1. SchedulingInit => WithinPlaces
  <2> SUFFICES ASSUME SchedulingInit PROVE WithinPlaces
    OBVIOUS
  <2>1. setup \in Calendars /\ booked = <<>>
    BY DEF SchedulingInit
  <2>2. booked \in Seq(Int) /\ \A u \in Int : Taken(u) = {}
    BY <2>1 DEF Taken
  <2>3. Cardinality({}) = 0
    BY FS_EmptySet
  <2>4. ASSUME NEW u \in Int PROVE Cardinality(Taken(u)) <= Total(Places, Covering(u))
    <3>1. Cardinality(Taken(u)) = 0
      BY <2>2, <2>3
    <3>2. Total(Places, Covering(u)) \in Nat
      BY <2>1, CoverTotals
    <3>3. QED
      BY <3>1, <3>2
  <2>5. QED
    BY <2>1, <2>2, <2>4 DEF WithinPlaces
<1>2. WithinPlaces /\ NeverPutForward /\ [SchedulingNext]_schedule => WithinPlaces' /\ NeverPutForward'
  <2> SUFFICES ASSUME WithinPlaces, NeverPutForward, [SchedulingNext]_schedule
               PROVE  WithinPlaces' /\ NeverPutForward'
    OBVIOUS
  <2>1. ASSUME NEW s \in Slots, Book(s) PROVE WithinPlaces' /\ setup' = setup
    BY <2>1, BookWithinPlaces DEF Book
  <2>2. ASSUME NEW i \in DOMAIN booked, ReleaseBooking(i) PROVE WithinPlaces' /\ setup' = setup
    BY <2>2, ReleaseWithinPlaces DEF ReleaseBooking
  <2>3. ASSUME DayPasses \/ UNCHANGED schedule PROVE WithinPlaces' /\ setup' = setup
    <3>1. setup' = setup /\ booked' = booked
      BY <2>3 DEF DayPasses, schedule
    <3>2. \A u \in Int : Taken(u)' = Taken(u)
      BY <3>1 DEF Taken
    <3>3. QED
      BY <3>1, <3>2, PlacesStay DEF WithinPlaces
  <2>4. QED
    BY <2>1, <2>2, <2>3, PlacesStay DEF SchedulingNext
<1>3. QED
  BY <1>1, <1>2, PlacesSuffice, PTL DEF SchedulingSpec

-----------------------------------------------------------------------------
(* Payments: references and events never say more than Stripe did.          *)

StripeAmounts == Nat \ {0}
IntentStates == {"requires_payment_method", "succeeded", "canceled"}
IntentShape == [key : IntentKeys, amount : StripeAmounts, status : IntentStates, refunds : Seq(StripeAmounts)]

\* What amounts add up to is a total.
LEMMA AddedTotal ==
  ASSUME NEW s \in Seq(StripeAmounts)
  PROVE  Added(s) = Total(s, DOMAIN s)
<1> DEFINE S == DOMAIN s
           B(it) == [t \in SUBSET S |->
                       IF t = {} THEN 0 ELSE s[Chosen(t)] + it[t \ {Chosen(t)}]]
           g == CHOOSE it : it = B(it)
<1>1. Added(s) = g[S]
  BY DEF Added, FoldSeq, FoldFunction, FoldFunctionOnSet, MapThenFoldSet, Chosen
<1>2. \A t \in SUBSET S : t # {} => Chosen(t) \in S
  BY DEF Chosen
<1>3. IsFiniteSet(S) /\ \A i \in S : s[i] \in Int
  BY FS_Interval DEF StripeAmounts
<1>4. PICK h \in [SUBSET S -> Int] : Sums(s, S, h)
  BY <1>3, SumsExist
<1>5. h = B(h)
  BY <1>2, <1>3, <1>4 DEF Sums
<1>6. g = B(g)
  BY <1>5
<1> HIDE DEF g
<1>7. Sums(s, S, g)
  BY <1>2, <1>3, <1>6 DEF Sums
<1>8. g[S] = Total(s, S)
  BY <1>3, <1>7, SumIsTotal
<1>9. QED
  BY <1>1, <1>8

\* One amount more adds to it.
LEMMA AddedAppend ==
  ASSUME NEW s \in Seq(StripeAmounts), NEW x \in StripeAmounts
  PROVE  Added(s) \in Nat /\ Added(Append(s, x)) = Added(s) + x
<1> DEFINE t == Append(s, x)
           n == Len(s)
           S == 1..n
<1>1. n \in Nat /\ DOMAIN s = S /\ t \in Seq(StripeAmounts) /\ DOMAIN t = S \cup {n + 1}
      /\ t[n + 1] = x /\ (\A i \in S : t[i] = s[i]) /\ n + 1 \notin S
  OBVIOUS
<1>2. IsFiniteSet(S) /\ IsFiniteSet({})
  BY <1>1, FS_Interval, FS_EmptySet
<1>3. \A i \in S : s[i] \in Nat /\ s[i] \in Int
  BY <1>1 DEF StripeAmounts
<1>4. Added(s) = Total(s, S) /\ Added(t) = Total(t, S \cup {n + 1})
  BY <1>1, AddedTotal
<1> HIDE DEF t, S, n
<1>5. Total(t, S) = Total(s, S)
  BY <1>1, <1>2, <1>3, TotalSame
<1>6. Total(t, S \cup {n + 1}) = t[n + 1] + Total(t, S)
  <2>1. \A i \in S \cup {n + 1} : t[i] \in Int
    BY <1>1, <1>3 DEF StripeAmounts
  <2>2. QED
    BY <1>1, <1>2, <2>1, TotalAdd
<1>7. Total(s, S) \in Int
  BY <1>2, <1>3, TotalInt
<1>8. Total(s, {}) <= Total(s, S) /\ Total(s, {}) = 0
  BY <1>2, <1>3, TotalPart, TotalEmpty
<1> DEFINE U == S \cup {n + 1}
<1>9. Added(t) = Total(t, U) /\ Total(t, U) = t[n + 1] + Total(t, S)
  BY <1>4, <1>6
<1> HIDE DEF U
<1>10. Added(s) \in Nat
  BY <1>4, <1>7, <1>8
<1>11. x \in Int /\ Added(t) = Added(s) + x
  BY <1>1, <1>4, <1>5, <1>7, <1>9 DEF StripeAmounts
<1>12. QED
  BY <1>10, <1>11 DEF t

\* No amounts add up to nothing.
LEMMA AddedNone == Added(<<>>) = 0
<1> DEFINE s == <<>>
<1>1. s \in Seq(StripeAmounts) /\ Len(s) = 0
  BY EmptySeq
<1> HIDE DEF s
<1>2. DOMAIN s = {}
  BY <1>1
<1>3. Added(s) = Total(s, {})
  BY <1>1, <1>2, AddedTotal
<1>4. QED
  BY <1>3, TotalEmpty DEF s

\* What amounts add up to is never negative.
LEMMA AddedNat ==
  ASSUME NEW s \in Seq(StripeAmounts)
  PROVE  Added(s) \in Nat
<1>1. 1 \in StripeAmounts
  BY DEF StripeAmounts
<1>2. QED
  BY <1>1, AddedAppend

\* Only what has succeeded is read as succeeded.
LEMMA StatusRead ==
  ASSUME NEW s
  PROVE  MapIntentStatus(s) = "succeeded" => s = "succeeded"
  BY Zenon DEF MapIntentStatus

\* Only an intent's success is read as paid, and only refund events as refunds.
LEMMA KindRead ==
  ASSUME NEW e
  PROVE  /\ Kind(e) = "payment_succeeded" => e.type = "payment_intent.succeeded"
         /\ Kind(e) = "refund_completed" => e.type \in {"charge.refunded", "refund.updated", "refund.created"}
  BY Zenon DEF Kind


\* What holds between steps: one intent for a key, refunded within its amount; every
\* call under way, reference, event and reading fits the intent it names.
RequestHolds ==
  /\ request.op \in {"none", "create", "get", "cancel", "refund"}
  /\ request.op = "create" => /\ request.key \in IntentKeys /\ request.by = request.key
                              /\ request.amount \in StripeAmounts
  /\ request.op \in {"get", "cancel", "refund"} => request.intent \in DOMAIN intents
  /\ request.op = "refund" => request.amount \in StripeAmounts
RefHolds(r) ==
  /\ r[2].intent \in DOMAIN intents
  /\ intents[r[2].intent].key = r[1] /\ intents[r[2].intent].amount = r[2].amount
  /\ r[2].state = "succeeded" => intents[r[2].intent].status = "succeeded"
EventHolds(e) ==
  /\ e.intent \in DOMAIN intents
  /\ e.type = "payment_intent.succeeded" => intents[e.intent].status = "succeeded"
  /\ e.type \in {"charge.refunded", "refund.updated", "refund.created"} =>
       /\ e.total \in Int /\ e.total <= Refunded(intents[e.intent])
       /\ e.total < 0 => e.amount \in Int /\ e.amount <= Refunded(intents[e.intent])
ReadingHolds(e) ==
  /\ e.intent \in DOMAIN intents
  /\ e.kind = "payment_succeeded" => intents[e.intent].status = "succeeded"
  /\ e.refundedTotal \in Int /\ e.refundedTotal <= Refunded(intents[e.intent])
  /\ e.full => Refunded(intents[e.intent]) = intents[e.intent].amount
IntentsHold ==
  /\ intents \in Seq(IntentShape)
  /\ \A i, j \in DOMAIN intents : intents[i].key = intents[j].key => i = j
  /\ \A i \in DOMAIN intents : Refunded(intents[i]) <= intents[i].amount
StripeInv ==
  /\ IntentsHold /\ RequestHolds
  /\ \A r \in refs : RefHolds(r)
  /\ \A e \in sentEvents : EventHolds(e)
  /\ \A e \in readEvents : ReadingHolds(e)

\* Intents only move on: what they are stays, what is paid stays paid, and what is
\* refunded only grows.
MoveOn ==
  \A i \in DOMAIN intents :
    /\ i \in DOMAIN intents'
    /\ intents'[i].key = intents[i].key /\ intents'[i].amount = intents[i].amount
    /\ intents[i].status = "succeeded" => intents'[i].status = "succeeded"
    /\ Refunded(intents[i]) <= Refunded(intents'[i])

\* What an intent's refunds add up to is a number.
LEMMA RefundedNat ==
  ASSUME IntentsHold, NEW i \in DOMAIN intents
  PROVE  Refunded(intents[i]) \in Nat /\ intents[i].amount \in StripeAmounts /\ intents[i] \in IntentShape
<1>1. intents[i] \in IntentShape
  BY DEF IntentsHold
<1>2. QED
  BY <1>1, AddedNat DEF Refunded, IntentShape

\* What was given out or read of intents before they moved on holds after.
LEMMA StaysTrue ==
  ASSUME IntentsHold, IntentsHold', MoveOn
  PROVE  /\ \A r \in refs : RefHolds(r) => RefHolds(r)'
         /\ \A e \in sentEvents : EventHolds(e) => EventHolds(e)'
         /\ \A e \in readEvents : ReadingHolds(e) => ReadingHolds(e)'
<1>1. ASSUME NEW r \in refs, RefHolds(r) PROVE RefHolds(r)'
  BY <1>1 DEF RefHolds, MoveOn
<1>2. ASSUME NEW i \in DOMAIN intents
      PROVE  /\ Refunded(intents[i]) \in Nat /\ Refunded(intents'[i]) \in Nat
             /\ intents[i].amount \in Nat /\ Refunded(intents[i]) <= Refunded(intents'[i])
             /\ Refunded(intents'[i]) <= intents[i].amount /\ i \in DOMAIN intents'
             /\ intents'[i].amount = intents[i].amount
             /\ intents[i].status = "succeeded" => intents'[i].status = "succeeded"
  <2>1. i \in DOMAIN intents' /\ intents'[i].amount = intents[i].amount
        /\ Refunded(intents[i]) <= Refunded(intents'[i])
        /\ (intents[i].status = "succeeded" => intents'[i].status = "succeeded")
    BY DEF MoveOn
  <2>2. intents'[i] \in IntentShape
    BY <2>1 DEF IntentsHold
  <2>3. Refunded(intents'[i]) \in Nat
    BY <2>2, AddedNat DEF Refunded, IntentShape
  <2>4. Refunded(intents'[i]) <= intents'[i].amount
    BY <2>1 DEF IntentsHold
  <2>5. QED
    BY <2>1, <2>3, <2>4, RefundedNat DEF StripeAmounts
<1>3. ASSUME NEW e \in sentEvents, EventHolds(e) PROVE EventHolds(e)'
  <2> DEFINE i == e.intent
  <2>1. i \in DOMAIN intents
    BY <1>3 DEF EventHolds
  <2>2. \A x \in Int : x <= Refunded(intents[i]) => x <= Refunded(intents'[i])
    BY <1>2, <2>1
  <2>3. QED
    BY <1>2, <1>3, <2>1, <2>2 DEF EventHolds
<1>4. ASSUME NEW e \in readEvents, ReadingHolds(e) PROVE ReadingHolds(e)'
  <2> DEFINE i == e.intent
  <2>1. i \in DOMAIN intents
    BY <1>4 DEF ReadingHolds
  <2>2. e.refundedTotal <= Refunded(intents'[i])
    BY <1>2, <1>4, <2>1 DEF ReadingHolds
  <2>3. e.full => Refunded(intents'[i]) = intents'[i].amount
    BY <1>2, <1>4, <2>1 DEF ReadingHolds
  <2>4. QED
    BY <1>2, <1>4, <2>1, <2>2, <2>3 DEF ReadingHolds
<1>5. QED
  BY <1>1, <1>3, <1>4

\* One intent moving on.
LEMMA OneMovesOn ==
  ASSUME IntentsHold, NEW j \in DOMAIN intents, NEW new \in IntentShape,
         intents' = [intents EXCEPT ![j] = new],
         new.key = intents[j].key, new.amount = intents[j].amount,
         intents[j].status = "succeeded" => new.status = "succeeded",
         Refunded(intents[j]) <= Refunded(new), Refunded(new) <= new.amount
  PROVE  IntentsHold' /\ MoveOn /\ DOMAIN intents' = DOMAIN intents
<1>1. intents \in Seq(IntentShape) /\ intents' \in Seq(IntentShape) /\ DOMAIN intents' = DOMAIN intents
      /\ intents'[j] = new /\ \A i \in DOMAIN intents : i # j => intents'[i] = intents[i]
  BY DEF IntentsHold
<1>2. \A i \in DOMAIN intents : Refunded(intents[i]) \in Nat
  BY RefundedNat
<1>3. MoveOn
  BY <1>1, <1>2 DEF MoveOn
<1>4. \A i, k \in DOMAIN intents : intents'[i].key = intents'[k].key => i = k
  <2>1. \A i \in DOMAIN intents : intents'[i].key = intents[i].key
    BY <1>3 DEF MoveOn
  <2>2. QED
    BY <2>1 DEF IntentsHold
<1>5. \A i \in DOMAIN intents : Refunded(intents'[i]) <= intents'[i].amount
  BY <1>1 DEF IntentsHold
<1>6. QED
  BY <1>1, <1>3, <1>4, <1>5 DEF IntentsHold

\* A create answers with the one intent of its key.
LEMMA CreatesHolds ==
  ASSUME StripeInv, NEW answered \in BOOLEAN, StripeCreates(answered)
  PROVE  StripeInv'
<1> DEFINE known == WithKey(request.key)
           fresh == [key |-> request.key, amount |-> request.amount,
                     status |-> "requires_payment_method", refunds |-> << >>]
           after == IF known # {} THEN intents ELSE Append(intents, fresh)
           i == IF known # {} THEN Max(known) ELSE Len(after)
<1>1. /\ request.key \in IntentKeys /\ request.by = request.key /\ request.amount \in StripeAmounts
      /\ intents' = after /\ request' = NoRequest /\ UNCHANGED <<sentEvents, readEvents>>
      /\ refs' = IF answered THEN refs \cup {<<request.by, ToRef(i, after[i])>>} ELSE refs
  BY DEF StripeInv, RequestHolds, StripeCreates
<1>2. request.key # "none"
  BY <1>1, StripeAssumption
<1>3. IntentsHold /\ RequestHolds
  BY DEF StripeInv
<1>4. IntentsHold' /\ MoveOn /\ i \in DOMAIN intents' /\ intents'[i] = after[i] /\ after[i].key = request.key
  <2>1. CASE known # {}
    <3>1. PICK j \in DOMAIN intents : known = {j} /\ intents[j].key = request.key
      BY <1>2, <1>3, <2>1 DEF WithKey, IntentsHold
    <3>2. Max(known) = j
      <4>1. j >= j
        BY <1>3 DEF IntentsHold
      <4>2. QED
        BY <3>1, <4>1 DEF Max
    <3>3. intents' = intents /\ i = j /\ after[i] = intents[j]
      BY <1>1, <2>1, <3>2
    <3>4. MoveOn
      <4>1. \A k \in DOMAIN intents : Refunded(intents[k]) \in Nat
        BY <1>3, RefundedNat
      <4>2. QED
        BY <3>3, <4>1 DEF MoveOn
    <3>5. IntentsHold'
      BY <1>3, <3>3 DEF IntentsHold
    <3> HIDE DEF i, after, known
    <3>6. QED
      BY <3>1, <3>3, <3>4, <3>5
  <2>2. CASE known = {}
    <3>1. fresh \in IntentShape /\ fresh.key = request.key /\ fresh.refunds = <<>> /\ fresh.amount \in StripeAmounts
      <4>1. <<>> \in Seq(StripeAmounts)
        BY EmptySeq
      <4>2. QED
        BY <1>1, <4>1 DEF IntentShape, IntentStates
    <3>2. \A k \in DOMAIN intents : intents[k].key # request.key
      BY <1>2, <2>2 DEF WithKey
    <3> DEFINE n == Len(intents)
    <3>3. intents' = Append(intents, fresh) /\ i = n + 1 /\ after = intents'
      BY <1>1, <1>3, <2>2 DEF IntentsHold
    <3> HIDE DEF fresh, i, after, known
    <3>4. n \in Nat /\ DOMAIN intents = 1..n /\ intents' \in Seq(IntentShape) /\ DOMAIN intents' = 1..(n + 1)
          /\ intents'[n + 1] = fresh /\ \A k \in 1..n : intents'[k] = intents[k]
      BY <1>3, <3>1, <3>3 DEF IntentsHold
    <3> HIDE DEF n
    <3>5. MoveOn
      <4>1. \A k \in DOMAIN intents : Refunded(intents[k]) \in Nat
        BY <1>3, RefundedNat
      <4>2. QED
        BY <3>4, <4>1 DEF MoveOn
    <3>6. \A k \in DOMAIN intents' : (k \in DOMAIN intents /\ intents'[k] = intents[k]) \/ k = n + 1
      BY <3>4
    <3>7. Refunded(fresh) = 0 /\ 0 <= fresh.amount
      BY <3>1, AddedNone DEF Refunded, StripeAmounts
    <3>8. \A k \in DOMAIN intents' : Refunded(intents'[k]) <= intents'[k].amount
      BY <1>3, <3>4, <3>6, <3>7 DEF IntentsHold
    <3>9. \A j, k \in DOMAIN intents' : intents'[j].key = intents'[k].key => j = k
      BY <1>3, <3>1, <3>2, <3>4, <3>6 DEF IntentsHold
    <3>10. IntentsHold'
      BY <3>4, <3>8, <3>9 DEF IntentsHold
    <3>11. QED
      BY <3>1, <3>3, <3>4, <3>5, <3>10
  <2>3. QED
    BY <2>1, <2>2
<1> DEFINE ref == <<request.by, ToRef(i, after[i])>>
<1>5. ASSUME NEW r, r = ref PROVE RefHolds(r)'
  <2>1. ref[1] = request.key /\ ref[2].intent = i /\ ref[2].amount = after[i].amount
        /\ ref[2].state = MapIntentStatus(after[i].status)
    BY <1>1 DEF ToRef
  <2> HIDE DEF ref, i, after
  <2>2. QED
    BY <1>4, <1>5, <2>1, StatusRead DEF RefHolds
<1>6. RequestHolds'
  BY <1>1 DEF RequestHolds, NoRequest
<1>7. /\ \A r \in refs : RefHolds(r)' 
      /\ \A e \in sentEvents : EventHolds(e)'
      /\ \A e \in readEvents : ReadingHolds(e)'
  BY <1>3, <1>4, StaysTrue DEF StripeInv
<1>8. refs' \subseteq refs \cup {ref}
  BY <1>1
<1> HIDE DEF ref, i, after
<1>9. \A r \in refs' : RefHolds(r)'
  BY <1>5, <1>7, <1>8
<1>10. QED
  BY <1>1, <1>4, <1>6, <1>7, <1>9 DEF StripeInv

\* A lookup answers with the intent as it is.
LEMMA ShowsHolds ==
  ASSUME StripeInv, StripeShows
  PROVE  StripeInv'
<1> DEFINE i == request.intent
           ref == <<intents[i].key, ToRef(i, intents[i])>>
<1>1. i \in DOMAIN intents /\ refs' = refs \cup {ref} /\ request' = NoRequest
      /\ UNCHANGED <<intents, sentEvents, readEvents>>
  BY DEF StripeInv, RequestHolds, StripeShows
<1>2. ref[1] = intents[i].key /\ ref[2].intent = i /\ ref[2].amount = intents[i].amount
      /\ ref[2].state = MapIntentStatus(intents[i].status)
  BY DEF ToRef
<1> HIDE DEF i, ref
<1>3. RefHolds(ref)
  BY <1>1, <1>2, StatusRead DEF RefHolds
<1>4. \A r \in refs' : RefHolds(r)'
  BY <1>1, <1>3 DEF RefHolds, StripeInv
<1>5. RequestHolds' /\ IntentsHold'
  BY <1>1 DEF StripeInv, RequestHolds, NoRequest, IntentsHold
<1>6. (\A e \in sentEvents' : EventHolds(e)') /\ (\A e \in readEvents' : ReadingHolds(e)')
  BY <1>1 DEF StripeInv, EventHolds, ReadingHolds
<1>7. QED
  BY <1>4, <1>5, <1>6 DEF StripeInv

\* A step that moves one intent on, and sends events that tell of it.
LEMMA MovedOnHolds ==
  ASSUME StripeInv, IntentsHold', MoveOn, DOMAIN intents' = DOMAIN intents,
         request' = NoRequest \/ UNCHANGED request, UNCHANGED <<refs, readEvents>>,
         \A e \in sentEvents' \ sentEvents : EventHolds(e)'
  PROVE  StripeInv'
<1>1. /\ \A r \in refs : RefHolds(r)' 
      /\ \A e \in sentEvents : EventHolds(e)'
      /\ \A e \in readEvents : ReadingHolds(e)'
  BY StaysTrue DEF StripeInv
<1>2. RequestHolds'
  BY DEF StripeInv, RequestHolds, NoRequest
<1>3. QED
  BY <1>1, <1>2 DEF StripeInv

\* A cancel stops what was not paid.
LEMMA CancelsHolds ==
  ASSUME StripeInv, StripeCancels
  PROVE  StripeInv'
<1> DEFINE j == request.intent
           new == [intents[j] EXCEPT !.status = "canceled"]
           e == Notice("payment_intent.canceled", "payment_intent", j, 0, intents[j].amount, -1)
<1>1. /\ j \in DOMAIN intents /\ intents[j].status # "succeeded" /\ intents[j] \in IntentShape
      /\ IntentsHold
  BY DEF StripeInv, RequestHolds, StripeCancels, IntentsHold
<1>2. intents' = [intents EXCEPT ![j] = new] /\ request' = NoRequest /\ UNCHANGED <<refs, readEvents>>
      /\ sentEvents' = sentEvents \cup {e}
  BY DEF StripeCancels, Signal
<1>3. new \in IntentShape /\ new.key = intents[j].key /\ new.amount = intents[j].amount
      /\ new.refunds = intents[j].refunds
  BY <1>1 DEF IntentShape, IntentStates
<1>4. e.intent = j /\ e.type = "payment_intent.canceled"
  BY DEF Notice
<1> HIDE DEF j, new, e
<1>5. Refunded(new) = Refunded(intents[j]) /\ Refunded(intents[j]) \in Nat
      /\ Refunded(intents[j]) <= intents[j].amount
  BY <1>1, <1>3, RefundedNat DEF Refunded, IntentsHold
<1>6. IntentsHold' /\ MoveOn /\ DOMAIN intents' = DOMAIN intents
  <2>1. Refunded(intents[j]) <= Refunded(new) /\ Refunded(new) <= new.amount
    BY <1>3, <1>5
  <2>2. QED
    BY <1>1, <1>2, <1>3, <2>1, OneMovesOn
<1>7. ASSUME NEW d, d = e PROVE EventHolds(d)'
  BY <1>1, <1>4, <1>6, <1>7 DEF EventHolds
<1>8. QED
  BY <1>2, <1>6, <1>7, MovedOnHolds

\* A card pays an intent or leaves it open.
LEMMA ConfirmHolds ==
  ASSUME StripeInv, NEW j \in DOMAIN intents,
         NEW type \in {"payment_intent.succeeded", "payment_intent.payment_failed"}, Confirm(j, type)
  PROVE  StripeInv'
<1> DEFINE new == [intents[j] EXCEPT !.status =
                     IF type = "payment_intent.succeeded" THEN "succeeded" ELSE @]
           e == Notice(type, "payment_intent", j, 0, intents[j].amount, -1)
<1>1. intents[j].status # "succeeded" /\ intents[j] \in IntentShape /\ IntentsHold
  BY DEF StripeInv, Confirm, IntentsHold
<1>2. intents' = [intents EXCEPT ![j] = new] /\ UNCHANGED <<request, refs, readEvents>>
      /\ sentEvents' = sentEvents \cup {e}
  BY DEF Confirm, Signal
<1>3. new \in IntentShape /\ new.key = intents[j].key /\ new.amount = intents[j].amount
      /\ new.refunds = intents[j].refunds /\ (type = "payment_intent.succeeded" => new.status = "succeeded")
  BY <1>1 DEF IntentShape, IntentStates
<1>4. e.intent = j /\ e.type = type
  BY DEF Notice
<1> HIDE DEF new, e
<1>5. Refunded(new) = Refunded(intents[j]) /\ Refunded(intents[j]) \in Nat
      /\ Refunded(intents[j]) <= intents[j].amount
  BY <1>1, <1>3, RefundedNat DEF Refunded, IntentsHold
<1>6. IntentsHold' /\ MoveOn /\ DOMAIN intents' = DOMAIN intents
  <2>1. Refunded(intents[j]) <= Refunded(new) /\ Refunded(new) <= new.amount
    BY <1>3, <1>5
  <2>2. QED
    BY <1>1, <1>2, <1>3, <2>1, OneMovesOn
<1>7. intents'[j] = new
  BY <1>1, <1>2 DEF IntentsHold
<1>8. ASSUME NEW d, d = e PROVE EventHolds(d)'
  BY <1>3, <1>4, <1>6, <1>7, <1>8 DEF EventHolds
<1>9. QED
  BY <1>2, <1>6, <1>8, MovedOnHolds

\* A refund adds to what was refunded, within the amount, and its events say no more.
LEMMA RefundsHolds ==
  ASSUME StripeInv, StripeRefunds
  PROVE  StripeInv'
<1> DEFINE j == request.intent
           x == request.amount
           refunds == Append(intents[j].refunds, x)
           new == [intents[j] EXCEPT !.refunds = refunds]
           whole == Notice("charge.refunded", "charge", j, Len(refunds), intents[j].amount, Added(refunds))
           bare == Notice("refund.created", "refund", j, Len(refunds), x, -1)
<1>1. /\ j \in DOMAIN intents /\ intents[j] \in IntentShape /\ IntentsHold
      /\ x \in StripeAmounts /\ Added(refunds) <= intents[j].amount /\ intents[j].status = "succeeded"
  BY DEF StripeInv, RequestHolds, StripeRefunds, IntentsHold
<1>2. intents' = [intents EXCEPT ![j] = new] /\ request' = NoRequest /\ UNCHANGED <<refs, readEvents>>
      /\ sentEvents' = sentEvents \cup {whole, bare}
  BY DEF StripeRefunds
<1>3. intents[j].refunds \in Seq(StripeAmounts) /\ refunds \in Seq(StripeAmounts)
  BY <1>1 DEF IntentShape
<1>4. Added(refunds) = Refunded(intents[j]) + x /\ Refunded(intents[j]) \in Nat
  BY <1>1, <1>3, AddedAppend DEF Refunded
<1>5. whole.intent = j /\ whole.type = "charge.refunded" /\ whole.total = Added(refunds)
      /\ bare.intent = j /\ bare.type = "refund.created" /\ bare.total = -1 /\ bare.amount = x
  BY DEF Notice
<1> HIDE DEF refunds
<1>6. new \in IntentShape /\ new.key = intents[j].key /\ new.amount = intents[j].amount
      /\ new.refunds = refunds /\ new.status = intents[j].status
  BY <1>1, <1>3 DEF IntentShape
<1> HIDE DEF j, new, whole, bare, x
<1>7. Refunded(new) = Added(refunds)
  BY <1>6 DEF Refunded
<1>8. x \in Nat /\ Added(refunds) \in Nat
  BY <1>1, <1>4 DEF StripeAmounts
<1>9. IntentsHold' /\ MoveOn /\ DOMAIN intents' = DOMAIN intents
  <2>1. Refunded(intents[j]) <= Refunded(new) /\ Refunded(new) <= new.amount
    BY <1>1, <1>4, <1>6, <1>7, <1>8
  <2>2. intents[j].status = "succeeded" => new.status = "succeeded"
    BY <1>6
  <2>3. QED
    BY <1>1, <1>2, <1>6, <2>1, <2>2, OneMovesOn
<1>10. intents'[j] = new
  BY <1>1, <1>2 DEF IntentsHold
<1>11. ASSUME NEW d, d = whole PROVE EventHolds(d)'
  BY <1>1, <1>5, <1>7, <1>8, <1>9, <1>10, <1>11 DEF EventHolds
<1>12. ASSUME NEW d, d = bare PROVE EventHolds(d)'
  <2>1. x \in Int /\ x <= Refunded(new) /\ -1 <= Refunded(new)
    BY <1>4, <1>7, <1>8
  <2>2. QED
    BY <1>1, <1>5, <1>9, <1>10, <1>12, <2>1 DEF EventHolds
<1>13. QED
  BY <1>2, <1>9, <1>11, <1>12, MovedOnHolds

\* An event, whenever it is read, is read as no more than it says.
LEMMA ParseHolds ==
  ASSUME StripeInv, NEW event \in sentEvents, ParseWebhook(event)
  PROVE  StripeInv'
<1> DEFINE i == event.intent
           refund == IF Kind(event) = "refund_completed"
                     THEN InterpretRefundEvent(event, intents[i].amount) ELSE NoRefund
           e == [kind |-> Kind(event), intent |-> i, refundId |-> refund.refundId,
                 refundedTotal |-> refund.refundedTotal, full |-> refund.full]
<1>1. readEvents' = readEvents \cup {e} /\ UNCHANGED <<intents, request, refs, sentEvents>>
  BY DEF ParseWebhook
<1>2. EventHolds(event) /\ i \in DOMAIN intents /\ IntentsHold
  BY DEF StripeInv, EventHolds
<1>3. Refunded(intents[i]) \in Nat /\ intents[i].amount \in Nat /\ Refunded(intents[i]) <= intents[i].amount
  BY <1>2, RefundedNat DEF IntentsHold, StripeAmounts
<1>4. /\ refund.refundedTotal \in Int /\ refund.refundedTotal <= Refunded(intents[i])
      /\ refund.full => Refunded(intents[i]) = intents[i].amount
  <2>1. CASE Kind(event) = "refund_completed"
    <3> DEFINE total == IF event.total >= 0 THEN event.total ELSE event.amount
    <3>1. event.type \in {"charge.refunded", "refund.updated", "refund.created"}
      BY <2>1, KindRead
    <3>2. total \in Int /\ total <= Refunded(intents[i])
      BY <1>2, <3>1 DEF EventHolds
    <3>3. refund.refundedTotal = total /\ refund.full = (total >= intents[i].amount)
      BY <2>1 DEF InterpretRefundEvent
    <3> DEFINE all == Refunded(intents[i])
               paid == intents[i].amount
    <3>4. all \in Nat /\ paid \in Nat /\ all <= paid /\ total \in Int /\ total <= all
      BY <1>3, <3>2
    <3> HIDE DEF total, all, paid
    <3>5. (total >= paid) => all = paid
      BY <3>4
    <3>6. QED
      BY <3>3, <3>4, <3>5 DEF all, paid
  <2>2. CASE Kind(event) # "refund_completed"
    <3>1. refund.refundedTotal = 0 /\ refund.full = FALSE
      BY <2>2 DEF NoRefund
    <3> HIDE DEF refund, i
    <3>2. QED
      BY <1>3, <3>1
  <2>3. QED
    BY <2>1, <2>2
<1>5. ReadingHolds(e)
  <2>1. e.kind = Kind(event) /\ e.intent = i /\ e.refundedTotal = refund.refundedTotal /\ e.full = refund.full
    OBVIOUS
  <2>2. Kind(event) = "payment_succeeded" => intents[i].status = "succeeded"
    BY <1>2, KindRead DEF EventHolds
  <2> HIDE DEF e, refund, i
  <2>3. QED
    BY <1>2, <1>4, <2>1, <2>2 DEF ReadingHolds
<1> HIDE DEF e
<1>6. \A d \in readEvents' : ReadingHolds(d)'
  BY <1>1, <1>5 DEF ReadingHolds, StripeInv
<1>7. IntentsHold' /\ RequestHolds'
  BY <1>1 DEF StripeInv, RequestHolds, IntentsHold
<1>8. (\A r \in refs' : RefHolds(r)') /\ (\A d \in sentEvents' : EventHolds(d)')
  BY <1>1 DEF StripeInv, EventHolds, RefHolds
<1>9. QED
  BY <1>6, <1>7, <1>8 DEF StripeInv

\* A call on its way, or one that came to nothing, changes no intent.
LEMMA AskHolds ==
  ASSUME StripeInv, RequestHolds', UNCHANGED <<intents, refs, sentEvents, readEvents>>
  PROVE  StripeInv'
<1>1. IntentsHold' /\ (\A r \in refs' : RefHolds(r)')
  BY DEF StripeInv, IntentsHold, RefHolds
<1>2. (\A e \in sentEvents' : EventHolds(e)') /\ (\A e \in readEvents' : ReadingHolds(e)')
  BY DEF StripeInv, EventHolds, ReadingHolds
<1>3. QED
  BY <1>1, <1>2 DEF StripeInv

\* Every step of the adapter and of Stripe keeps the invariant.
LEMMA StripeKeeps == StripeInv /\ [StripeNext]_stripe => StripeInv'
<1> SUFFICES ASSUME StripeInv, [StripeNext]_stripe PROVE StripeInv'
  OBVIOUS
<1>1. ASSUME NEW k \in IntentKeys, NEW amount \in IntentAmounts, CreateIntent(k, amount) PROVE StripeInv'
  <2>1. amount \in StripeAmounts
    BY <1>1, StripeAssumption DEF CreateIntent, StripeAmounts
  <2>2. RequestHolds'
    BY <1>1, <2>1 DEF CreateIntent, Ask, RequestHolds
  <2>3. QED
    BY <1>1, <2>2, AskHolds DEF CreateIntent
<1>2. ASSUME NEW i \in DOMAIN intents, GetIntent(i) \/ CancelIntent(i) PROVE StripeInv'
  <2>1. RequestHolds'
    BY <1>2 DEF GetIntent, CancelIntent, Ask, RequestHolds
  <2>2. QED
    BY <1>2, <2>1, AskHolds DEF GetIntent, CancelIntent
<1>3. ASSUME NEW i \in DOMAIN intents, NEW amount \in IntentAmounts, RefundIntent(i, amount) PROVE StripeInv'
  <2>1. amount \in StripeAmounts
    BY <1>3, StripeAssumption DEF RefundIntent, StripeAmounts
  <2>2. RequestHolds'
    BY <1>3, <2>1 DEF RefundIntent, Ask, RequestHolds
  <2>3. QED
    BY <1>3, <2>2, AskHolds DEF RefundIntent
<1>4. ASSUME CallFails PROVE StripeInv'
  <2>1. RequestHolds'
    BY <1>4 DEF CallFails, NoRequest, RequestHolds
  <2>2. QED
    BY <1>4, <2>1, AskHolds DEF CallFails
<1>5. ASSUME UNCHANGED stripe PROVE StripeInv'
  <2>1. RequestHolds'
    BY <1>5 DEF stripe, RequestHolds, StripeInv
  <2>2. QED
    BY <1>5, <2>1, AskHolds DEF stripe
<1>6. QED
  BY <1>1, <1>2, <1>3, <1>4, <1>5, CreatesHolds, ShowsHolds, CancelsHolds, RefundsHolds, ConfirmHolds, ParseHolds
     DEF StripeNext

\* One intent for a key, and no reference or event ever read as more than the provider
\* did: for any keys, amounts, and number of intents and refunds.
THEOREM StripeReadTrue == StripeSpec => []StripeIsReadTrue
<1>1. StripeInit => StripeInv
  <2> SUFFICES ASSUME StripeInit PROVE StripeInv
    OBVIOUS
  <2>1. intents \in Seq(IntentShape) /\ DOMAIN intents = {}
    <3>1. intents \in Seq(IntentShape) /\ Len(intents) = 0
      BY EmptySeq DEF StripeInit
    <3>2. QED
      BY <3>1
  <2>2. QED
    BY <2>1 DEF StripeInit, NoRequest, StripeInv, IntentsHold, RequestHolds
<1>2. StripeInv => StripeIsReadTrue
  <2> SUFFICES ASSUME StripeInv PROVE StripeIsReadTrue
    OBVIOUS
  <2>1. OneChargePerKey
    BY DEF StripeInv, IntentsHold, RefHolds, OneChargePerKey
  <2>2. EventsReadTrue
    BY DEF StripeInv, RefHolds, ReadingHolds, EventsReadTrue
  <2>3. QED
    BY <2>1, <2>2 DEF StripeIsReadTrue
<1>3. QED
  BY <1>1, <1>2, StripeKeeps, PTL DEF StripeSpec

-----------------------------------------------------------------------------
(* The questionnaire: each question is asked once, the required ones of    *)
(* everybody, a condition follows its source, and only what is visible is  *)
(* answered, with what the catalog has.                                    *)

Condition == [field : DOMAIN Questions, value : UNION {Questions[q].choices : q \in DOMAIN Questions}]
StepShape == [question : DOMAIN Questions, required : BOOLEAN, when : {Always} \cup Condition]

\* A questionnaire asks each question once.
AsksOnce(ss) == \A i, j \in DOMAIN ss : ss[i].question = ss[j].question => i = j

\* A required question of the catalog is asked of everybody.
AsksRequired(ss) ==
  \A q \in DOMAIN Questions : Questions[q].required =>
    \E i \in DOMAIN ss : ss[i].question = q /\ ss[i].required /\ ss[i].when = Always

\* A condition's source comes before it and is asked of everybody.
StepsHold == steps \in Seq(StepShape) /\ AsksOnce(steps) /\ AsksRequired(steps) /\ Dependencies(steps)

\* Only what is visible is answered, with choices the catalog has, one where there is one.
AnswerFits(q) ==
  q \notin Quantities =>
    /\ answers[q] \subseteq Questions[q].choices
    /\ Questions[q].kind = "single_choice" => Cardinality(answers[q]) = 1
AnswersFit ==
  /\ DOMAIN answers \subseteq VisibleQuestions(answers)
  /\ \A q \in DOMAIN answers : AnswerFits(q)

FormInv == StepsHold /\ AnswersFit

\* The step of a question that is asked once is the one that asks it.
LEMMA StepOfIs ==
  ASSUME NEW ss, AsksOnce(ss), NEW i \in DOMAIN ss
  PROVE  StepOf(ss, ss[i].question) = i
BY DEF AsksOnce, StepOf

\* A required question is asked of everybody: of the list, or of the step it names.
LEMMA FloorIs ==
  ASSUME NEW ss, AsksOnce(ss)
  PROVE  AsksRequired(ss) <=> RequiredFloor(ss)
<1>1. ASSUME AsksRequired(ss) PROVE RequiredFloor(ss)
  <2> SUFFICES ASSUME NEW q \in DOMAIN Questions, Questions[q].required
               PROVE  q \in Included(ss) /\ ss[StepOf(ss, q)].required /\ ss[StepOf(ss, q)].when = Always
    BY DEF RequiredFloor
  <2>1. PICK i \in DOMAIN ss : ss[i].question = q /\ ss[i].required /\ ss[i].when = Always
    BY <1>1 DEF AsksRequired
  <2>2. StepOf(ss, q) = i
    BY <2>1, StepOfIs
  <2>3. QED
    BY <2>1, <2>2 DEF Included
<1>2. ASSUME RequiredFloor(ss) PROVE AsksRequired(ss)
  <2> SUFFICES ASSUME NEW q \in DOMAIN Questions, Questions[q].required
               PROVE  \E i \in DOMAIN ss : ss[i].question = q /\ ss[i].required /\ ss[i].when = Always
    BY DEF AsksRequired
  <2>1. PICK i \in DOMAIN ss : ss[i].question = q
    BY <1>2 DEF RequiredFloor, Included
  <2>2. StepOf(ss, q) = i
    BY <2>1, StepOfIs
  <2>3. QED
    BY <1>2, <2>1, <2>2 DEF RequiredFloor
<1>3. QED
  BY <1>1, <1>2

\* An edit clears the answers.
LEMMA EditKeeps ==
  ASSUME NEW ss, NEW bs, EditTo(ss, bs), ss \in Seq(StepShape), AsksOnce(ss), AsksRequired(ss),
         Dependencies(ss)
  PROVE  FormInv'
<1>1. steps' = ss /\ answers' = << >>
  BY DEF EditTo
<1>2. StepsHold'
  BY <1>1 DEF StepsHold
<1>3. DOMAIN answers' = {}
  BY <1>1, EmptySeq
<1>4. AnswersFit'
  BY <1>3 DEF AnswersFit
<1>5. QED
  BY <1>2, <1>4 DEF FormInv

\* Adding a question: after all the others, asked of everybody.
LEMMA IncludeKeeps ==
  ASSUME FormInv, NEW q \in DOMAIN Questions, IncludeQuestion(q)
  PROVE  FormInv'
<1> DEFINE s == [question |-> q, required |-> FALSE, when |-> Always]
           ss == Append(steps, s)
<1>1. /\ steps \in Seq(StepShape) /\ AsksOnce(steps) /\ AsksRequired(steps) /\ Dependencies(steps)
      /\ q \notin Included(steps) /\ EditTo(ss, bounds)
  BY DEF FormInv, StepsHold, IncludeQuestion
<1>2. s \in StepShape
  BY DEF StepShape
<1>3. /\ ss \in Seq(StepShape) /\ DOMAIN ss = 1 .. Len(steps) + 1
      /\ ss[Len(steps) + 1] = s /\ \A i \in DOMAIN steps : ss[i] = steps[i]
      /\ DOMAIN steps = 1 .. Len(steps) /\ Len(steps) \in Nat
  BY <1>1, <1>2, AppendProperties
<1> HIDE DEF ss
<1>4. AsksOnce(ss)
  <2>1. \A i \in DOMAIN steps : steps[i].question # q
    BY <1>1 DEF Included
  <2>2. \A i \in DOMAIN ss : i \in DOMAIN steps \/ i = Len(steps) + 1
    BY <1>3
  <2>3. QED
    BY <1>1, <1>3, <2>1, <2>2 DEF AsksOnce
<1>5. AsksRequired(ss)
  <2>1. \A i \in DOMAIN steps : i \in DOMAIN ss
    BY <1>3
  <2>2. QED
    BY <1>1, <1>3, <2>1 DEF AsksRequired
<1>6. Dependencies(ss)
  <2> SUFFICES ASSUME NEW i \in DOMAIN ss, ss[i].when # Always
               PROVE  \E j \in 1 .. i - 1 :
                        /\ ss[j].question = ss[i].when.field /\ ss[j].when = Always
                        /\ Questions[ss[j].question].kind # "quantity"
                        /\ ss[i].when.value \in Questions[ss[j].question].choices
    BY DEF Dependencies
  <2>1. i \in DOMAIN steps /\ ss[i] = steps[i]
    BY <1>3
  <2>2. PICK j \in 1 .. i - 1 :
               /\ steps[j].question = steps[i].when.field /\ steps[j].when = Always
               /\ Questions[steps[j].question].kind # "quantity"
               /\ steps[i].when.value \in Questions[steps[j].question].choices
    BY <1>1, <2>1 DEF Dependencies
  <2>3. j \in DOMAIN steps /\ ss[j] = steps[j]
    BY <1>3, <2>1
  <2>4. QED
    BY <2>1, <2>2, <2>3
<1>7. QED
  BY <1>1, <1>3, <1>4, <1>5, <1>6, EditKeeps

\* A sequence without one of its elements.
LEMMA Removed ==
  ASSUME NEW S, NEW ss \in Seq(S), NEW k \in 1 .. Len(ss)
  PROVE  LET r == RemoveAt(ss, k)
         IN  /\ r \in Seq(S) /\ Len(r) = Len(ss) - 1
             /\ \A i \in 1 .. Len(r) : r[i] = IF i < k THEN ss[i] ELSE ss[i + 1]
<1> DEFINE a == SubSeq(ss, 1, k - 1)
           b == SubSeq(ss, k + 1, Len(ss))
<1>1. /\ a \in Seq(S) /\ Len(a) = k - 1 /\ \A i \in 1 .. k - 1 : a[i] = ss[i]
  BY SubSeqProperties
<1>2. /\ b \in Seq(S) /\ Len(b) = Len(ss) - k /\ \A i \in 1 .. Len(ss) - k : b[i] = ss[k + i]
  <2>1. Len(ss) \in Nat /\ k \in Nat
    OBVIOUS
  <2>2. QED
    BY <2>1, SubSeqProperties
<1> HIDE DEF a, b
<1>3. /\ a \o b \in Seq(S) /\ Len(a \o b) = Len(a) + Len(b)
      /\ \A i \in 1 .. Len(a) + Len(b) : (a \o b)[i] = IF i <= Len(a) THEN a[i] ELSE b[i - Len(a)]
  BY <1>1, <1>2, ConcatProperties
<1>4. RemoveAt(ss, k) = a \o b
  BY DEF RemoveAt, a, b
<1> DEFINE r == a \o b
<1>5. r \in Seq(S) /\ Len(r) = Len(ss) - 1
  BY <1>1, <1>2, <1>3
<1>6. ASSUME NEW i \in 1 .. Len(ss) - 1 PROVE r[i] = IF i < k THEN ss[i] ELSE ss[i + 1]
  <2>1. CASE i < k
    BY <1>1, <1>2, <1>3, <2>1
  <2>2. CASE ~ (i < k)
    <3>1. r[i] = b[i - (k - 1)] /\ i - (k - 1) \in 1 .. Len(ss) - k
      BY <1>1, <1>2, <1>3, <2>2
    <3>2. b[i - (k - 1)] = ss[k + (i - (k - 1))] /\ k + (i - (k - 1)) = i + 1
      BY <1>2, <3>1
    <3>3. QED
      BY <2>2, <3>1, <3>2
  <2>3. QED
    BY <2>1, <2>2
<1> HIDE DEF r
<1>7. QED
  BY <1>4, <1>5, <1>6 DEF r

\* Leaving a question out: none of the steps that stay asks about it.
LEMMA ExcludeKeeps ==
  ASSUME FormInv, NEW q \in DOMAIN Questions, ExcludeQuestion(q)
  PROVE  FormInv'
<1> DEFINE k == StepOf(steps, q)
           ss == RemoveAt(steps, k)
           n == Len(steps)
           bs == [p \in DOMAIN bounds |-> IF p = q THEN CatalogBounds[q] ELSE bounds[p]]
<1>1. /\ steps \in Seq(StepShape) /\ AsksOnce(steps) /\ AsksRequired(steps) /\ Dependencies(steps)
      /\ q \in Included(steps) /\ ~Questions[q].required /\ ~Used(q) /\ EditTo(ss, bs)
  BY DEF FormInv, StepsHold, ExcludeQuestion
<1>2. n \in Nat /\ DOMAIN steps = 1 .. n
  BY <1>1
<1>3. k \in DOMAIN steps /\ steps[k].question = q
  <2>1. PICK i \in DOMAIN steps : steps[i].question = q
    BY <1>1 DEF Included
  <2>2. QED
    BY <1>1, <2>1, StepOfIs
<1> HIDE DEF k
<1>4. /\ ss \in Seq(StepShape) /\ Len(ss) = n - 1
      /\ \A i \in 1 .. n - 1 : ss[i] = IF i < k THEN steps[i] ELSE steps[i + 1]
  BY <1>1, <1>2, <1>3, Removed
<1>5. DOMAIN ss = 1 .. n - 1
  BY <1>4
<1> HIDE DEF ss, n
<1>6. AsksOnce(ss)
  <2> SUFFICES ASSUME NEW i \in DOMAIN ss, NEW j \in DOMAIN ss, ss[i].question = ss[j].question
               PROVE  i = j
    BY DEF AsksOnce
  <2> DEFINE u(x) == IF x < k THEN x ELSE x + 1
  <2>1. u(i) \in DOMAIN steps /\ u(j) \in DOMAIN steps
    BY <1>2, <1>5
  <2>2. ss[i] = steps[u(i)] /\ ss[j] = steps[u(j)]
    BY <1>4, <1>5
  <2>3. u(i) = u(j)
    BY <1>1, <2>1, <2>2 DEF AsksOnce
  <2>4. k \in Int /\ i \in Int /\ j \in Int
    BY <1>2, <1>3, <1>5
  <2>5. QED
    BY <2>3, <2>4
\* Where a step that stays is afterwards.
<1> DEFINE at(x) == IF x < k THEN x ELSE x - 1
<1>7. ASSUME NEW x \in DOMAIN steps, x # k
      PROVE  at(x) \in DOMAIN ss /\ ss[at(x)] = steps[x]
  <2>1. x \in 1 .. n /\ k \in 1 .. n
    BY <1>2, <1>3
  <2>2. CASE x < k
    BY <1>2, <1>4, <1>5, <2>1, <2>2
  <2>3. CASE x > k
    <3>1. at(x) = x - 1 /\ x - 1 \in 1 .. n - 1 /\ ~ (x - 1 < k) /\ (x - 1) + 1 = x
      BY <1>2, <2>1, <2>3
    <3>2. QED
      BY <1>4, <1>5, <3>1
  <2>4. QED
    BY <1>2, <1>7, <2>1, <2>2, <2>3
<1>8. AsksRequired(ss)
  <2> SUFFICES ASSUME NEW p \in DOMAIN Questions, Questions[p].required
               PROVE  \E i \in DOMAIN ss : ss[i].question = p /\ ss[i].required /\ ss[i].when = Always
    BY DEF AsksRequired
  <2>1. PICK i \in DOMAIN steps : steps[i].question = p /\ steps[i].required /\ steps[i].when = Always
    BY <1>1 DEF AsksRequired
  <2>2. i # k
    BY <1>1, <1>3, <2>1
  <2>3. at(i) \in DOMAIN ss /\ ss[at(i)] = steps[i]
    BY <1>7, <2>2
  <2> HIDE DEF at
  <2>4. QED
    BY <2>1, <2>3
<1>9. Dependencies(ss)
  <2> SUFFICES ASSUME NEW y \in DOMAIN ss, ss[y].when # Always
               PROVE  \E j \in 1 .. y - 1 :
                        /\ ss[j].question = ss[y].when.field /\ ss[j].when = Always
                        /\ Questions[ss[j].question].kind # "quantity"
                        /\ ss[y].when.value \in Questions[ss[j].question].choices
    BY DEF Dependencies
  <2> DEFINE x == IF y < k THEN y ELSE y + 1
  <2>1. x \in DOMAIN steps /\ ss[y] = steps[x] /\ x \in Int /\ y \in Int /\ k \in Int
    BY <1>2, <1>3, <1>4, <1>5
  <2>2. PICK j \in 1 .. x - 1 :
               /\ steps[j].question = steps[x].when.field /\ steps[j].when = Always
               /\ Questions[steps[j].question].kind # "quantity"
               /\ steps[x].when.value \in Questions[steps[j].question].choices
    BY <1>1, <2>1 DEF Dependencies
  <2>3. j # k
    BY <1>1, <1>3, <2>1, <2>2 DEF Used
  <2>4. j \in DOMAIN steps
    BY <1>2, <2>1
  <2>5. at(j) \in DOMAIN ss /\ ss[at(j)] = steps[j]
    BY <1>7, <2>3, <2>4
  <2>6. at(j) \in 1 .. y - 1
    <3>1. at(j) \in Int /\ at(j) >= 1
      BY <1>2, <1>5, <2>5
    <3>2. at(j) < y
      BY <2>1, <2>3
    <3>3. QED
      BY <2>1, <3>1, <3>2
  <2> HIDE DEF at
  <2>7. QED
    BY <2>1, <2>2, <2>5, <2>6
<1>10. QED
  BY <1>1, <1>4, <1>6, <1>8, <1>9, EditKeeps

\* Moving a step up: only to where the questionnaire can be stored.
LEMMA MoveKeeps ==
  ASSUME FormInv, NEW i \in DOMAIN steps, MoveUp(i)
  PROVE  FormInv'
<1> DEFINE ss == [steps EXCEPT ![i - 1] = steps[i], ![i] = steps[i - 1]]
<1>1. /\ steps \in Seq(StepShape) /\ AsksOnce(steps) /\ i > 1
      /\ Publishable(ss, bounds) /\ EditTo(ss, bounds)
  BY DEF FormInv, StepsHold, MoveUp
<1>2. Len(steps) \in Nat /\ DOMAIN steps = 1 .. Len(steps) /\ \A j \in DOMAIN steps : steps[j] \in StepShape
  BY <1>1
<1>3. i \in 2 .. Len(steps) /\ i - 1 \in DOMAIN steps
  BY <1>1, <1>2
<1>4. /\ DOMAIN ss = DOMAIN steps
      /\ \A j \in DOMAIN steps : ss[j] = IF j = i THEN steps[i - 1] ELSE IF j = i - 1 THEN steps[i] ELSE steps[j]
  BY <1>2, <1>3
<1>5. ss \in Seq(StepShape)
  <2>1. ss \in [1 .. Len(steps) -> StepShape]
    BY <1>2, <1>3
  <2> HIDE DEF ss
  <2>2. QED
    BY <1>2, <2>1
<1> HIDE DEF ss
<1>6. AsksOnce(ss)
  <2> SUFFICES ASSUME NEW x \in DOMAIN ss, NEW y \in DOMAIN ss, ss[x].question = ss[y].question
               PROVE  x = y
    BY DEF AsksOnce
  <2> DEFINE u(z) == IF z = i THEN i - 1 ELSE IF z = i - 1 THEN i ELSE z
  <2>1. u(x) \in DOMAIN steps /\ u(y) \in DOMAIN steps /\ ss[x] = steps[u(x)] /\ ss[y] = steps[u(y)]
    BY <1>3, <1>4
  <2>2. u(x) = u(y)
    BY <1>1, <2>1 DEF AsksOnce
  <2>3. x \in Int /\ y \in Int /\ i \in Int
    BY <1>2, <1>3, <1>4
  <2>4. QED
    BY <2>2, <2>3
<1>7. RequiredFloor(ss) /\ Dependencies(ss)
  BY <1>1 DEF Publishable
<1>8. AsksRequired(ss)
  BY <1>6, <1>7, FloorIs
<1>9. QED
  BY <1>1, <1>5, <1>6, <1>7, <1>8, EditKeeps

\* An edit of one step that keeps its question.
LEMMA StepEditKeeps ==
  ASSUME FormInv, NEW i \in DOMAIN steps, NEW s \in StepShape, s.question = steps[i].question,
         ~Questions[s.question].required,
         EditTo([steps EXCEPT ![i] = s], bounds),
         \/ s.when = Always
         \/ s.when = steps[i].when
         \/ /\ ~Used(s.question)
            /\ \E j \in 1 .. i - 1 :
                 /\ steps[j].question = s.when.field /\ steps[j].when = Always
                 /\ Questions[steps[j].question].kind # "quantity"
                 /\ s.when.value \in Questions[steps[j].question].choices
  PROVE  FormInv'
<1> DEFINE ss == [steps EXCEPT ![i] = s]
<1>1. /\ steps \in Seq(StepShape) /\ AsksOnce(steps) /\ AsksRequired(steps) /\ Dependencies(steps)
      /\ EditTo(ss, bounds)
  BY DEF FormInv, StepsHold
<1>2. Len(steps) \in Nat /\ DOMAIN steps = 1 .. Len(steps) /\ \A j \in DOMAIN steps : steps[j] \in StepShape
  BY <1>1
<1>3. /\ DOMAIN ss = DOMAIN steps
      /\ \A j \in DOMAIN steps : ss[j] = IF j = i THEN s ELSE steps[j]
  BY <1>2
<1>4. ss \in Seq(StepShape)
  <2>1. ss \in [1 .. Len(steps) -> StepShape]
    BY <1>2
  <2> HIDE DEF ss
  <2>2. QED
    BY <1>2, <2>1
<1> HIDE DEF ss
<1>5. AsksOnce(ss)
  BY <1>1, <1>3 DEF AsksOnce
<1>6. AsksRequired(ss)
  <2> SUFFICES ASSUME NEW p \in DOMAIN Questions, Questions[p].required
               PROVE  \E x \in DOMAIN ss : ss[x].question = p /\ ss[x].required /\ ss[x].when = Always
    BY DEF AsksRequired
  <2>1. PICK x \in DOMAIN steps : steps[x].question = p /\ steps[x].required /\ steps[x].when = Always
    BY <1>1 DEF AsksRequired
  <2>2. x # i
    BY <2>1
  <2>3. QED
    BY <1>3, <2>1, <2>2
<1>7. Dependencies(ss)
  <2> SUFFICES ASSUME NEW y \in DOMAIN ss, ss[y].when # Always
               PROVE  \E j \in 1 .. y - 1 :
                        /\ ss[j].question = ss[y].when.field /\ ss[j].when = Always
                        /\ Questions[ss[j].question].kind # "quantity"
                        /\ ss[y].when.value \in Questions[ss[j].question].choices
    BY DEF Dependencies
  <2>1. PICK j \in 1 .. y - 1 :
               /\ steps[j].question = ss[y].when.field /\ steps[j].when = Always
               /\ Questions[steps[j].question].kind # "quantity"
               /\ ss[y].when.value \in Questions[steps[j].question].choices
    <3>1. CASE ss[y].when = steps[y].when
      BY <1>1, <1>3, <3>1 DEF Dependencies
    <3>2. CASE ss[y].when # steps[y].when
      BY <1>3, <3>2
    <3>3. QED
      BY <3>1, <3>2
  <2>2. j \in DOMAIN steps
    BY <1>2, <1>3
  <2>3. ss[j].question = steps[j].question
    BY <1>3, <2>2
  <2>4. ss[j].when = Always
    <3>1. CASE j # i
      BY <1>3, <2>1, <2>2, <3>1
    <3>2. CASE j = i /\ s.when \in {Always, steps[i].when}
      BY <1>3, <2>1, <2>2, <3>2
    <3>3. CASE j = i /\ s.when \notin {Always, steps[i].when}
      <4>1. y # i /\ y \in DOMAIN steps /\ ss[y] = steps[y]
        BY <1>2, <1>3, <3>3
      <4>2. Used(s.question)
        BY <2>1, <3>3, <4>1 DEF Used
      <4>3. QED
        BY <3>3, <4>2
    <3>4. QED
      BY <3>1, <3>2, <3>3
  <2>5. QED
    BY <2>1, <2>3, <2>4
<1>8. QED
  BY <1>1, <1>4, <1>5, <1>6, <1>7, EditKeeps

\* Making a step required, conditional or always visible.
LEMMA ConditionsKeep ==
  ASSUME FormInv, NEW i \in DOMAIN steps,
         \/ SetRequired(i) \/ ShowAlways(i) \/ \E j \in DOMAIN steps : ShowWhen(i, j)
  PROVE  FormInv'
<1>1. steps \in Seq(StepShape) /\ steps[i] \in StepShape
  <2>1. steps \in Seq(StepShape)
    BY DEF FormInv, StepsHold
  <2>2. QED
    BY <2>1
<1>2. CASE SetRequired(i)
  <2> DEFINE s == [steps[i] EXCEPT !.required = ~@]
  <2>1. s \in StepShape /\ s.question = steps[i].question /\ s.when = steps[i].when
    BY <1>1 DEF StepShape
  <2>2. [steps EXCEPT ![i].required = ~@] = [steps EXCEPT ![i] = s]
    BY <1>1
  <2>3. ~Questions[s.question].required /\ EditTo([steps EXCEPT ![i] = s], bounds)
    BY <1>2, <2>1, <2>2 DEF SetRequired
  <2> HIDE DEF s
  <2>4. QED
    BY <2>1, <2>3, StepEditKeeps
<1>3. CASE ShowAlways(i)
  <2> DEFINE s == [steps[i] EXCEPT !.when = Always]
  <2>1. s \in StepShape /\ s.question = steps[i].question /\ s.when = Always
    BY <1>1 DEF StepShape
  <2>2. [steps EXCEPT ![i].when = Always] = [steps EXCEPT ![i] = s]
    BY <1>1
  <2>3. ~Questions[s.question].required /\ EditTo([steps EXCEPT ![i] = s], bounds)
    BY <1>3, <2>1, <2>2 DEF ShowAlways
  <2> HIDE DEF s
  <2>4. QED
    BY <2>1, <2>3, StepEditKeeps
<1>4. ASSUME NEW j \in DOMAIN steps, ShowWhen(i, j) PROVE FormInv'
  <2>1. PICK c \in Questions[steps[j].question].choices :
             EditTo([steps EXCEPT ![i].when = [field |-> steps[j].question, value |-> c]], bounds)
    BY <1>4 DEF ShowWhen
  <2> DEFINE w == [field |-> steps[j].question, value |-> c]
             s == [steps[i] EXCEPT !.when = w]
  <2>2. steps[j] \in StepShape
    BY <1>1
  <2>3. w \in Condition /\ w.field = steps[j].question /\ w.value = c
    BY <2>2 DEF Condition, StepShape
  <2>4. s \in StepShape /\ s.question = steps[i].question /\ s.when = w
    <3> HIDE DEF w
    <3>1. QED
      BY <1>1, <2>3 DEF StepShape
  <2>5. [steps EXCEPT ![i].when = w] = [steps EXCEPT ![i] = s]
    BY <1>1
  <2>6. /\ ~Questions[s.question].required /\ ~Used(s.question)
        /\ EditTo([steps EXCEPT ![i] = s], bounds)
    BY <1>4, <2>1, <2>4, <2>5 DEF ShowWhen
  <2>7. /\ j \in 1 .. i - 1 /\ steps[j].when = Always
        /\ Questions[steps[j].question].kind # "quantity"
    BY <1>4 DEF ShowWhen, Sources
  <2> HIDE DEF s, w
  <2>8. QED
    BY <2>3, <2>4, <2>6, <2>7, StepEditKeeps
<1>5. QED
  BY <1>2, <1>3, <1>4

\* Setting a quantity's limits.
LEMMA BoundsKeep ==
  ASSUME FormInv, NEW q, NEW b, SetBounds(q, b)
  PROVE  FormInv'
BY EditKeeps DEF FormInv, StepsHold, SetBounds

\* The customer's answers: clearing what a change hides leaves only what is visible,
\* as no condition asks about a conditional question.
LEMMA ClearedIsVisible ==
  ASSUME StepsHold, NEW given
  PROVE  LET kept == ClearHiddenAnswers(given)
         IN  /\ DOMAIN kept \subseteq VisibleQuestions(kept) /\ DOMAIN kept \subseteq DOMAIN given
             /\ \A q \in DOMAIN kept : kept[q] = given[q]
<1> DEFINE kept == ClearHiddenAnswers(given)
<1>1. /\ DOMAIN kept = DOMAIN given \cap VisibleQuestions(given)
      /\ \A q \in DOMAIN kept : kept[q] = given[q]
  BY DEF ClearHiddenAnswers, Restrict
<1> HIDE DEF kept
<1>2. ASSUME NEW q \in DOMAIN kept PROVE q \in VisibleQuestions(kept)
  <2>1. PICK i \in DOMAIN steps : steps[i].question = q /\ VisibleStep(steps[i], given)
    BY <1>1 DEF VisibleQuestions
  <2>2. CASE steps[i].when = Always
    BY <2>1, <2>2 DEF VisibleQuestions, VisibleStep
  <2>3. CASE steps[i].when # Always
    <3>1. PICK j \in 1 .. i - 1 : steps[j].question = steps[i].when.field /\ steps[j].when = Always
      BY <2>3 DEF StepsHold, Dependencies
    <3>2. j \in DOMAIN steps
      BY <3>1 DEF StepsHold
    <3>3. Meets(steps[i].when, given)
      BY <2>1, <2>3 DEF VisibleStep
    <3>4. steps[i].when.field \in VisibleQuestions(given)
      BY <3>1, <3>2 DEF VisibleQuestions, VisibleStep
    <3>5. steps[i].when.field \in DOMAIN kept
      BY <1>1, <3>3, <3>4 DEF Meets
    <3>6. Meets(steps[i].when, kept)
      BY <1>1, <3>3, <3>5 DEF Meets
    <3>7. QED
      BY <2>1, <3>6 DEF VisibleQuestions, VisibleStep
  <2>4. QED
    BY <2>2, <2>3
<1>3. QED
  BY <1>1, <1>2 DEF kept

\* Giving an answer the catalog has.
LEMMA GiveKeeps ==
  ASSUME FormInv, NEW q, NEW value, Give(q, value),
         q \notin Quantities =>
           /\ value \subseteq Questions[q].choices
           /\ Questions[q].kind = "single_choice" => Cardinality(value) = 1
  PROVE  FormInv'
<1> DEFINE given == [p \in DOMAIN answers \cup {q} |-> IF p = q THEN value ELSE answers[p]]
<1>1. StepsHold /\ AnswersFit /\ answers' = ClearHiddenAnswers(given) /\ UNCHANGED <<steps, bounds>>
  BY DEF FormInv, Give
<1>2. \A p \in DOMAIN given : given[p] = IF p = q THEN value ELSE answers[p]
  OBVIOUS
<1>3. \A p \in DOMAIN given : p = q \/ p \in DOMAIN answers
  OBVIOUS
<1> HIDE DEF given
<1>4. /\ DOMAIN answers' \subseteq VisibleQuestions(answers') /\ DOMAIN answers' \subseteq DOMAIN given
      /\ \A p \in DOMAIN answers' : answers'[p] = given[p]
  BY <1>1, ClearedIsVisible
<1>5. StepsHold' /\ VisibleQuestions(answers)' = VisibleQuestions(answers')
  BY <1>1 DEF StepsHold, VisibleQuestions
<1>6. ASSUME NEW p \in DOMAIN answers' PROVE AnswerFits(p)'
  <2>1. CASE p = q
    BY <1>2, <1>4, <1>6, <2>1 DEF AnswerFits
  <2>2. CASE p # q
    BY <1>1, <1>2, <1>3, <1>4, <1>6, <2>2 DEF AnswerFits, AnswersFit
  <2>3. QED
    BY <2>1, <2>2
<1>7. QED
  BY <1>4, <1>5, <1>6 DEF FormInv, AnswersFit

\* Taking an answer back.
LEMMA WithdrawKeeps ==
  ASSUME FormInv, NEW q, Withdraw(q)
  PROVE  FormInv'
<1> DEFINE given == Restrict(answers, DOMAIN answers \ {q})
<1>1. StepsHold /\ AnswersFit /\ answers' = ClearHiddenAnswers(given) /\ UNCHANGED <<steps, bounds>>
  BY DEF FormInv, Withdraw
<1>2. DOMAIN given \subseteq DOMAIN answers /\ \A p \in DOMAIN given : given[p] = answers[p]
  BY DEF Restrict
<1> HIDE DEF given
<1>3. /\ DOMAIN answers' \subseteq VisibleQuestions(answers') /\ DOMAIN answers' \subseteq DOMAIN given
      /\ \A p \in DOMAIN answers' : answers'[p] = given[p]
  BY <1>1, ClearedIsVisible
<1>4. StepsHold' /\ VisibleQuestions(answers)' = VisibleQuestions(answers')
  BY <1>1 DEF StepsHold, VisibleQuestions
<1>5. ASSUME NEW p \in DOMAIN answers' PROVE AnswerFits(p)'
  BY <1>1, <1>2, <1>3, <1>5 DEF AnswerFits, AnswersFit
<1>6. QED
  BY <1>3, <1>4, <1>5 DEF FormInv, AnswersFit

\* Choosing: one of the choices, or one more or fewer of them.
LEMMA ChooseKeeps ==
  ASSUME FormInv, NEW q \in VisibleQuestions(answers), q \notin Quantities, Choose(q)
  PROVE  FormInv'
<1>1. PICK c \in Questions[q].choices :
        IF Questions[q].kind = "single_choice" THEN Give(q, {c})
        ELSE LET picked == IF q \in DOMAIN answers THEN answers[q] ELSE {}
                 next == IF c \in picked THEN picked \ {c} ELSE picked \cup {c}
             IN IF next = {} THEN Withdraw(q) ELSE Give(q, next)
  BY DEF Choose
<1>2. CASE Questions[q].kind = "single_choice"
  <2>1. {c} \subseteq Questions[q].choices /\ Cardinality({c}) = 1
    BY FS_Singleton
  <2>2. QED
    BY <1>1, <1>2, <2>1, GiveKeeps
<1>3. CASE Questions[q].kind # "single_choice"
  <2> DEFINE picked == IF q \in DOMAIN answers THEN answers[q] ELSE {}
             next == IF c \in picked THEN picked \ {c} ELSE picked \cup {c}
  <2>1. next \subseteq Questions[q].choices
    BY DEF FormInv, AnswersFit, AnswerFits
  <2>2. Withdraw(q) \/ Give(q, next)
    BY <1>1, <1>3
  <2> HIDE DEF next
  <2>3. QED
    BY <1>3, <2>1, <2>2, GiveKeeps, WithdrawKeeps
<1>4. QED
  BY <1>2, <1>3

\* Entering a quantity.
LEMMA CountKeeps ==
  ASSUME FormInv, NEW q \in Quantities, Count(q)
  PROVE  FormInv'
BY GiveKeeps DEF Count

\* Every step keeps it.
LEMMA FormKeeps == FormInv /\ [FormNext]_forming => FormInv'
<1> SUFFICES ASSUME FormInv, [FormNext]_forming PROVE FormInv'
  OBVIOUS
<1>1. CASE UNCHANGED forming
  BY <1>1 DEF forming, FormInv, StepsHold, AnswersFit, AnswerFits, VisibleQuestions
<1>2. ASSUME NEW q \in DOMAIN Questions, IncludeQuestion(q) \/ ExcludeQuestion(q) PROVE FormInv'
  BY <1>2, IncludeKeeps, ExcludeKeeps
<1>3. ASSUME NEW i \in DOMAIN steps, MoveUp(i) PROVE FormInv'
  BY <1>3, MoveKeeps
<1>4. ASSUME NEW i \in DOMAIN steps, SetRequired(i) \/ ShowAlways(i) \/ \E j \in DOMAIN steps : ShowWhen(i, j)
      PROVE  FormInv'
  BY <1>4, ConditionsKeep
<1>5. ASSUME NEW q \in Quantities, NEW min \in Amounts, NEW max \in Amounts,
             SetBounds(q, [min |-> min, max |-> max])
      PROVE  FormInv'
  BY <1>5, BoundsKeep
<1>6. ASSUME NEW q \in VisibleQuestions(answers),
             \/ q \in Quantities /\ Count(q)
             \/ q \notin Quantities /\ Choose(q)
             \/ Withdraw(q)
      PROVE  FormInv'
  BY <1>6, CountKeeps, ChooseKeeps, WithdrawKeeps
<1>7. CASE FormNext
  BY <1>2, <1>3, <1>4, <1>5, <1>6, <1>7 DEF FormNext
<1>8. QED
  BY <1>1, <1>7

\* A new questionnaire asks the required questions, each once and of everybody.
LEMMA FormStarts == FormInit => FormInv
<1> SUFFICES ASSUME FormInit PROVE FormInv
  OBVIOUS
<1> DEFINE S == {q \in DOMAIN Questions : Questions[q].required}
           floor == SetToSeq(S)
           n == Cardinality(S)
<1>1. IsFiniteSet(S)
  BY FormAssumption, FS_Subset
<1>2. /\ floor \in [1 .. n -> S] /\ n \in Nat
      /\ \A a, b \in DOMAIN floor : floor[a] = floor[b] => a = b
      /\ \A e \in S : \E i \in 1 .. n : floor[i] = e
  BY <1>1, InARow
<1>3. steps = [i \in DOMAIN floor |-> [question |-> floor[i], required |-> TRUE, when |-> Always]]
  BY DEF FormInit, Selected
<1>4. \A e \in S : e \in DOMAIN Questions
  OBVIOUS
<1>5. \A q \in DOMAIN Questions : Questions[q].required => q \in S
  OBVIOUS
<1> HIDE DEF S, floor, n
<1>6. DOMAIN steps = 1 .. n /\ \A i \in 1 .. n : steps[i] = [question |-> floor[i], required |-> TRUE, when |-> Always]
  BY <1>2, <1>3
<1>7. steps \in Seq(StepShape)
  <2>1. ASSUME NEW i \in 1 .. n PROVE steps[i] \in StepShape
    <3>1. floor[i] \in DOMAIN Questions
      BY <1>2, <1>4
    <3>2. [question |-> floor[i], required |-> TRUE, when |-> Always] \in StepShape
      BY <3>1 DEF StepShape
    <3>3. QED
      BY <1>6, <3>2
  <2>2. steps \in [1 .. n -> StepShape]
    <3>1. steps = [i \in 1 .. n |-> steps[i]]
      BY <1>2, <1>3
    <3>2. QED
      BY <2>1, <3>1
  <2>3. QED
    BY <1>2, <2>2, SeqDef
<1>8. AsksOnce(steps)
  BY <1>2, <1>6 DEF AsksOnce
<1>9. AsksRequired(steps)
  BY <1>2, <1>5, <1>6 DEF AsksRequired
<1>10. Dependencies(steps)
  BY <1>6 DEF Dependencies
<1>11. AnswersFit
  <2>1. DOMAIN answers = {}
    BY EmptySeq DEF FormInit
  <2>2. QED
    BY <2>1 DEF AnswersFit
<1>12. QED
  BY <1>7, <1>8, <1>9, <1>10, <1>11 DEF FormInv, StepsHold

\* A condition's source is asked before it, so the answers accepted so far decide
\* it as all of them do.
LEMMA AcceptedDecides ==
  ASSUME StepsHold, NEW i \in DOMAIN steps
  PROVE  VisibleStep(steps[i], AcceptedBefore(i - 1)) <=> VisibleStep(steps[i], answers)
<1> DEFINE earlier == AcceptedBefore(i - 1)
           w == steps[i].when
<1>1. CASE w = Always
  BY <1>1 DEF VisibleStep
<1>2. CASE w # Always
  <2>1. PICK j \in 1 .. i - 1 : steps[j].question = w.field
    BY <1>2 DEF StepsHold, Dependencies
  <2>2. /\ DOMAIN earlier \subseteq DOMAIN answers
        /\ w.field \in DOMAIN answers => w.field \in DOMAIN earlier
        /\ \A q \in DOMAIN earlier : earlier[q] = answers[q]
    BY <2>1 DEF AcceptedBefore, Restrict
  <2> HIDE DEF earlier
  <2>3. Meets(w, earlier) <=> Meets(w, answers)
    BY <2>2 DEF Meets
  <2>4. QED
    BY <1>2, <2>3 DEF VisibleStep, earlier
<1>3. QED
  BY <1>1, <1>2

\* What the form lets through is earlier.
LEMMA WhatIsSentIsStored == FormInv => FormIsAccepted
<1> SUFFICES ASSUME FormInv, BrowserValid PROVE ValidateAnswers
  BY DEF FormIsAccepted
<1>1. StepsHold /\ AnswersFit /\ AsksOnce(steps)
  BY DEF FormInv, StepsHold
<1>2. DOMAIN answers \subseteq Included(steps)
  BY <1>1 DEF AnswersFit, VisibleQuestions, Included
<1>3. ASSUME NEW i \in DOMAIN steps, VisibleStep(steps[i], answers), steps[i].question \in DOMAIN answers
      PROVE  LET q == steps[i].question
             IN  /\ q \in Quantities => InBounds(q)
                 /\ q \notin Quantities => answers[q] \subseteq Questions[q].choices
                 /\ Questions[q].kind = "single_choice" => Cardinality(answers[q]) = 1
  <2> DEFINE q == steps[i].question
  <2>1. q \in Quantities => InBounds(q)
    BY <1>3 DEF BrowserValid
  <2>2. AnswerFits(q)
    BY <1>1, <1>3 DEF AnswersFit
  <2>3. Questions[q].kind = "single_choice" => q \notin Quantities
    BY DEF Quantities
  <2>4. QED
    BY <2>1, <2>2, <2>3 DEF AnswerFits
<1>4. ASSUME NEW i \in DOMAIN steps, VisibleStep(steps[i], answers), steps[i].question \notin DOMAIN answers
      PROVE  ~steps[i].required
  BY <1>4 DEF BrowserValid
<1>5. ASSUME NEW i \in DOMAIN steps, steps[i].question \in DOMAIN answers
      PROVE  VisibleStep(steps[i], answers)
  <2>1. PICK j \in DOMAIN steps : steps[j].question = steps[i].question /\ VisibleStep(steps[j], answers)
    BY <1>1, <1>5 DEF AnswersFit, VisibleQuestions
  <2>2. QED
    BY <1>1, <2>1 DEF AsksOnce
<1>6. \A i \in DOMAIN steps : VisibleStep(steps[i], AcceptedBefore(i - 1)) <=> VisibleStep(steps[i], answers)
  BY <1>1, AcceptedDecides
<1>7. QED
  BY <1>2, <1>3, <1>4, <1>5, <1>6 DEF ValidateAnswers

\* Whatever the owner edits and the customer answers, the questionnaire keeps its
\* rules and what the form lets through is accepted where it is stored.
THEOREM FormsFollowRules == FormSpec => []FormFollowsRules
<1>1. FormInv => FormFollowsRules
  <2> SUFFICES ASSUME FormInv PROVE FormFollowsRules
    OBVIOUS
  <2>1. EditorKeepsRules
    BY FloorIs DEF FormInv, StepsHold, EditorKeepsRules
  <2>2. QED
    BY <2>1, WhatIsSentIsStored DEF FormFollowsRules
<1>2. QED
  BY <1>1, FormStarts, FormKeeps, PTL DEF FormSpec

-----------------------------------------------------------------------------
(* Messages to the customer: what a batch knows was sent, and what a look  *)
(* for reminders has planned.                                              *)

\* How often a bag has an element is a number.
Counts(bag) == \A e \in DOMAIN bag : bag[e] \in Nat

\* One more of an element.
LEMMA OneMore ==
  ASSUME NEW bag, Counts(bag), NEW k
  PROVE  LET more == bag (+) SetToBag({k})
         IN  Counts(more) /\ \A e : Times(e, more) = Times(e, bag) + (IF e = k THEN 1 ELSE 0)
<1> DEFINE more == bag (+) SetToBag({k})
<1>1. more = [e \in DOMAIN bag \cup {k} |->
               (IF e \in DOMAIN bag THEN bag[e] ELSE 0) + (IF e \in {k} THEN 1 ELSE 0)]
  BY DEF (+), SetToBag, BagToSet
<1>2. QED
  BY <1>1 DEF Counts, Times, BagIn, BagToSet

\* The reminders a rule can have.
Note == {Rendered("reminder", c, r.id) : c \in STRING, r \in ReminderRules}

\* What is rendered for a rule is a sequence.
LEMMA RenderedInOrder ==
  ASSUME NEW r \in ReminderRules
  PROVE  RenderAll("reminder", r.channels, r.id) \in Seq(Note)
<1> DEFINE channels == r.channels
           n == Len(channels)
           V == Seq(Note)
           Step(v, i) == WithChannel(v, "reminder", channels[i], r.id)
           B(g) == [s \in SUBSET (1 .. n) |-> IF s = {} THEN << >> ELSE Step(g[s \ {Max(s)}], Max(s))]
           h == [p \in (1 .. n) \X V |-> Step(p[2], p[1])]
           g == CHOOSE it : it = B(it)
<1>1. channels \in Seq(STRING) /\ n \in Nat /\ DOMAIN channels = 1 .. n /\ \A i \in 1 .. n : channels[i] \in STRING
  BY NoticeAssumption
<1>2. RenderAll("reminder", r.channels, r.id) = g[1 .. n]
  BY <1>1 DEF RenderAll, FoldLeft, MapThenFoldSet
<1>3. ASSUME NEW v \in V, NEW i \in 1 .. n PROVE Step(v, i) \in V
  <2>1. Rendered("reminder", channels[i], r.id) \in Note
    BY <1>1 DEF Note
  <2>2. Append(v, Rendered("reminder", channels[i], r.id)) \in V
    BY <2>1, AppendProperties
  <2>3. QED
    BY <2>2 DEF WithChannel
<1>4. << >> \in V
  BY EmptySeq
<1> HIDE DEF Step, V, n
<1>5. h \in [(1 .. n) \X V -> V]
  BY <1>3
<1>6. \A p \in (1 .. n) \X V : h[p] = Step(p[2], p[1])
  OBVIOUS
<1> HIDE DEF h
<1>7. PICK k \in [SUBSET (1 .. n) -> V] : FoldsLeft(n, << >>, h, k)
  BY <1>1, <1>4, <1>5, FoldLeftExists
<1>8. ASSUME NEW s \in SUBSET (1 .. n), s # {} PROVE k[s] = Step(k[s \ {Max(s)}], Max(s))
  <2>1. Max(s) \in 1 .. n /\ k[s \ {Max(s)}] \in V
    BY <1>1, <1>7, <1>8, GreatestIndex
  <2>2. k[s] = h[<<Max(s), k[s \ {Max(s)}]>>]
    BY <1>7, <1>8 DEF FoldsLeft
  <2>3. QED
    BY <1>6, <2>1, <2>2
<1>9. k[{}] = << >>
  BY <1>7 DEF FoldsLeft
<1>10. k = B(k)
  BY <1>7, <1>8, <1>9
<1>11. g = B(g)
  BY <1>10
<1> HIDE DEF g
<1> DEFINE F == {s \in SUBSET (1 .. n) : g[s] \in V}
<1>12. ASSUME NEW s \in SUBSET (1 .. n), s = {} \/ (Max(s) \in s /\ s \ {Max(s)} \in F)
       PROVE  s \in F
  BY <1>3, <1>4, <1>11, <1>12
<1>13. 1 .. n \in F
  <2> HIDE DEF F
  <2>1. QED
    BY <1>1, <1>12, FoldLeftInduction
<1>14. QED
  BY <1>2, <1>13 DEF V

\* What is rendered for any rule that is due is among the reminders.
LEMMA DueAreRendered ==
  ASSUME bookingState = "confirmed", NEW r \in ReminderRules, Due(r)
  PROVE  KeysOf(RenderAll("reminder", r.channels, r.id)) \subseteq KeysOf(DueReminders)
<1> DEFINE R(q) == RenderAll("reminder", q.channels, q.id)
           due == {q \in ReminderRules : Due(q)}
           rules == SetToSeq(due)
           n == Cardinality(due)
           V == Seq(Note)
           Step(v, i) == v \o R(rules[i])
           B(g) == [s \in SUBSET (1 .. n) |-> IF s = {} THEN << >> ELSE Step(g[s \ {Max(s)}], Max(s))]
           h == [p \in (1 .. n) \X V |-> Step(p[2], p[1])]
           g == CHOOSE it : it = B(it)
<1>1. IsFiniteSet(due)
  BY NoticeAssumption, FS_Subset
<1>2. /\ rules \in [1 .. n -> due] /\ n \in Nat /\ DOMAIN rules = 1 .. n
      /\ \A e \in due : \E i \in 1 .. n : rules[i] = e
  <2> HIDE DEF due
  <2>1. QED
    BY <1>1, InARow
<1>3. DueReminders = g[1 .. n]
  BY <1>2 DEF DueReminders, FoldLeft, MapThenFoldSet
<1>4. \A i \in 1 .. n : R(rules[i]) \in V
  <2>1. \A q \in due : q \in ReminderRules
    OBVIOUS
  <2> HIDE DEF due, rules, n
  <2>2. QED
    BY <1>2, <2>1, RenderedInOrder
<1>5. r \in due
  OBVIOUS
<1>6. << >> \in V
  BY EmptySeq
<1> HIDE DEF R, due, rules, n
<1>7. ASSUME NEW v \in V, NEW i \in 1 .. n PROVE Step(v, i) \in V
  BY <1>4, ConcatProperties
<1>8. ASSUME NEW v \in V, NEW i \in 1 .. n
      PROVE  KeysOf(v) \subseteq KeysOf(Step(v, i)) /\ KeysOf(R(rules[i])) \subseteq KeysOf(Step(v, i))
  <2> DEFINE w == R(rules[i])
  <2>1. w \in V
    BY <1>4
  <2> HIDE DEF w
  <2>2. /\ v \o w \in Seq(Note) /\ Len(v) \in Nat /\ Len(w) \in Nat /\ DOMAIN (v \o w) = 1 .. Len(v) + Len(w)
        /\ DOMAIN v = 1 .. Len(v) /\ DOMAIN w = 1 .. Len(w)
        /\ \A j \in 1 .. Len(v) + Len(w) : (v \o w)[j] = IF j <= Len(v) THEN v[j] ELSE w[j - Len(v)]
    BY <2>1, ConcatProperties, LenProperties
  <2> DEFINE u == v \o w
  <2>3. \A j \in DOMAIN v : j \in DOMAIN u /\ u[j] = v[j]
    BY <2>2
  <2>4. ASSUME NEW j \in DOMAIN w PROVE Len(v) + j \in DOMAIN u /\ u[Len(v) + j] = w[j]
    <3>1. j \in 1 .. Len(w) /\ Len(v) + j \in 1 .. Len(v) + Len(w)
      BY <2>2
    <3>2. ~ (Len(v) + j <= Len(v)) /\ (Len(v) + j) - Len(v) = j
      BY <2>2, <3>1
    <3>3. QED
      BY <2>2, <3>1, <3>2
  <2> HIDE DEF u
  <2>5. KeysOf(v) \subseteq KeysOf(u) /\ KeysOf(w) \subseteq KeysOf(u)
    BY <2>3, <2>4 DEF KeysOf
  <2>6. QED
    BY <2>5 DEF u, w
<1> HIDE DEF Step, V
<1>9. h \in [(1 .. n) \X V -> V]
  BY <1>7
<1>10. \A p \in (1 .. n) \X V : h[p] = Step(p[2], p[1])
  OBVIOUS
<1> HIDE DEF h
<1>11. PICK k \in [SUBSET (1 .. n) -> V] : FoldsLeft(n, << >>, h, k)
  BY <1>2, <1>6, <1>9, FoldLeftExists
<1>12. ASSUME NEW s \in SUBSET (1 .. n), s # {} PROVE k[s] = Step(k[s \ {Max(s)}], Max(s))
  <2>1. Max(s) \in 1 .. n /\ k[s \ {Max(s)}] \in V
    BY <1>2, <1>11, <1>12, GreatestIndex
  <2>2. k[s] = h[<<Max(s), k[s \ {Max(s)}]>>]
    BY <1>11, <1>12 DEF FoldsLeft
  <2>3. QED
    BY <1>10, <2>1, <2>2
<1>13. k[{}] = << >>
  BY <1>11 DEF FoldsLeft
<1>14. k = B(k)
  BY <1>11, <1>12, <1>13
<1>15. g = B(g)
  BY <1>14
<1> HIDE DEF g
<1> DEFINE Has(s) == \A i \in s : KeysOf(R(rules[i])) \subseteq KeysOf(g[s])
           F == {s \in SUBSET (1 .. n) : g[s] \in V /\ Has(s)}
<1>16. ASSUME NEW s \in SUBSET (1 .. n), s = {} \/ (Max(s) \in s /\ s \ {Max(s)} \in F)
       PROVE  s \in F
  <2>1. CASE s = {}
    BY <1>6, <1>15, <2>1
  <2>2. CASE s # {}
    <3> DEFINE m == Max(s)
               t == s \ {m}
    <3>1. m \in s /\ m \in 1 .. n /\ t \in SUBSET (1 .. n) /\ g[t] \in V /\ Has(t)
      BY <1>16, <2>2
    <3>2. g[s] = Step(g[t], m)
      BY <1>15, <2>2
    <3>3. \A i \in s : i \in t \/ i = m
      OBVIOUS
    <3> HIDE DEF m, t
    <3>4. g[s] \in V
      BY <1>7, <3>1, <3>2
    <3>5. KeysOf(g[t]) \subseteq KeysOf(g[s]) /\ KeysOf(R(rules[m])) \subseteq KeysOf(g[s])
      BY <1>8, <3>1, <3>2
    <3>6. Has(s)
      BY <3>1, <3>3, <3>5
    <3>7. QED
      BY <3>4, <3>6
  <2>3. QED
    BY <2>1, <2>2
<1>17. 1 .. n \in F
  <2> HIDE DEF F
  <2>1. QED
    BY <1>2, <1>16, FoldLeftInduction
<1>18. PICK i \in 1 .. n : rules[i] = r
  BY <1>2, <1>5
<1>19. KeysOf(R(r)) \subseteq KeysOf(g[1 .. n])
  BY <1>17, <1>18
<1>20. QED
  BY <1>3, <1>19 DEF R

\* A batch knows what it sent and, from its start, what the batches before it
\* were told was sent; so each batch that runs has a key taken at most once with an
\* answer, and a batch that begins after the answer not at all.
Having(k) == {b \in Batches : k \in batch[b].seen}
Answered(k) == Times(k, delivered) - Times(k, unanswered)
BatchShape ==
  /\ DOMAIN batch = Batches
  /\ \A b \in Batches : /\ batch[b] = [todo |-> batch[b].todo, seen |-> batch[b].seen, awaits |-> batch[b].awaits]
                        /\ batch[b].awaits => Current(b) \notin batch[b].seen
SentInv ==
  /\ BatchShape
  /\ Counts(delivered) /\ Counts(unanswered)
  /\ \A k : /\ k \notin alreadySent => Answered(k) <= 0
            /\ Answered(k) <= Cardinality(Having(k))

\* A confirmed booking that has had a look since the reminder came within the horizon
\* has the reminder planned, and no horizon passes without a look.
KeysFor(r) == KeysOf(RenderAll("reminder", r.channels, r.id))
LookedFor(r) ==
  /\ bookingState = "confirmed"
  /\ confirmedAt + ReminderHorizon <= SlotStart - r.offset
  /\ lastLook + ReminderHorizon > SlotStart - r.offset
LookInv ==
  /\ noticeTime \in Nat /\ lastLook \in Nat /\ confirmedAt \in Int
  /\ lastLook <= noticeTime /\ noticeTime <= lastLook + ReminderHorizon
  /\ \A r \in ReminderRules : LookedFor(r) => KeysFor(r) \subseteq planned
NoticeInv == SentInv /\ LookInv

\* Nothing is sent, looked for or due at the start.
LEMMA NoticeStarts == NoticeInit => NoticeInv
<1> SUFFICES ASSUME NoticeInit PROVE NoticeInv
  OBVIOUS
<1>1. DOMAIN delivered = {} /\ DOMAIN unanswered = {}
  BY DEF NoticeInit, EmptyBag, SetToBag
<1>2. Counts(delivered) /\ Counts(unanswered) /\ \A k : Answered(k) = 0
  BY <1>1 DEF Counts, Answered, Times, BagIn, BagToSet
<1>3. \A k : Cardinality(Having(k)) >= 0
  <2> TAKE k
  <2>1. IsFiniteSet(Having(k))
    BY NoticeAssumption, FS_Subset DEF Having
  <2>2. QED
    BY <2>1, FS_CardinalityType
<1>4. BatchShape
  BY DEF NoticeInit, BatchShape, Idle
<1>5. LookInv
  BY NoticeAssumption DEF NoticeInit, LookInv, LookedFor
<1>6. SentInv
  <2>1. \A k : Cardinality(Having(k)) >= Answered(k) /\ Answered(k) <= 0
    BY <1>2, <1>3
  <2>2. QED
    BY <1>2, <1>4, <2>1 DEF SentInv
<1>7. QED
  BY <1>5, <1>6 DEF NoticeInv

\* Having a key is having one of finitely many batches.
LEMMA HavingSize ==
  ASSUME NEW k
  PROVE  IsFiniteSet(Having(k)) /\ Cardinality(Having(k)) \in Nat /\ Cardinality(Having(k)) <= Cardinality(Batches)
         /\ Cardinality(Batches) \in Nat
BY NoticeAssumption, FS_Subset, FS_CardinalityType DEF Having

\* A step in which every batch keeps what it has seen of what was sent, and which sees no
\* answer.
LEMMA SentStays ==
  ASSUME SentInv, BatchShape',
         \A c \in Batches : \A k \in alreadySent : k \in batch[c].seen => k \in batch'[c].seen,
         alreadySent' = alreadySent, Counts(delivered)', Counts(unanswered)',
         \A k : Answered(k)' = Answered(k)
  PROVE  SentInv'
<1>1. ASSUME NEW k \in alreadySent PROVE Cardinality(Having(k)) <= Cardinality(Having(k)')
  <2>1. Having(k) \subseteq Having(k)'
    BY DEF Having
  <2>2. IsFiniteSet(Having(k)')
    BY NoticeAssumption, FS_Subset DEF Having
  <2>3. QED
    BY <2>1, <2>2, FS_Subset
<1>2. \A k : Answered(k) \in Int
  BY DEF SentInv, Counts, Answered, Times, BagIn, BagToSet
<1>3. \A k : Cardinality(Having(k)) \in Nat /\ Cardinality(Having(k)') \in Nat
  <2> TAKE k
  <2>1. IsFiniteSet(Having(k)')
    BY NoticeAssumption, FS_Subset DEF Having
  <2>2. QED
    BY <2>1, HavingSize, FS_CardinalityType
<1>4. ASSUME NEW k PROVE /\ k \notin alreadySent' => Answered(k)' <= 0
                         /\ Answered(k)' <= Cardinality(Having(k)')
  BY <1>1, <1>2, <1>3 DEF SentInv
<1>5. QED
  BY <1>4 DEF SentInv

\* Steps that take no message leave the counts.
LEMMA UntakenStays ==
  ASSUME SentInv, UNCHANGED <<delivered, unanswered>>
  PROVE  Counts(delivered)' /\ Counts(unanswered)' /\ \A k : Answered(k)' = Answered(k)
BY DEF SentInv, Counts, Answered, Times, BagIn, BagToSet

\* A booking that moves, and time: every batch stays as it is.
LEMMA SentWaits ==
  ASSUME SentInv, UNCHANGED <<batch, alreadySent, delivered, unanswered>>
  PROVE  SentInv'
<1>1. BatchShape'
  BY DEF SentInv, BatchShape, Current
<1>2. QED
  BY <1>1, UntakenStays, SentStays

\* A batch begins: it knows all that was sent.
LEMMA SentBegins ==
  ASSUME SentInv, NEW b \in Batches, NEW todo, Begin(b, todo),
         UNCHANGED <<alreadySent, delivered, unanswered>>
  PROVE  SentInv'
<1>1. batch' = [batch EXCEPT ![b] = [todo |-> todo, seen |-> alreadySent, awaits |-> FALSE]]
  BY DEF Begin
<1>2. BatchShape'
  BY <1>1 DEF SentInv, BatchShape, Current
<1>3. \A c \in Batches : \A k \in alreadySent : k \in batch[c].seen => k \in batch'[c].seen
  BY <1>1 DEF SentInv, BatchShape
<1>4. QED
  BY <1>2, <1>3, UntakenStays, SentStays

\* A batch skips what it has seen, or calls the provider.
LEMMA SentGoesOn ==
  ASSUME SentInv, NEW b \in Batches, SkipSeen(b) \/ Send(b)
  PROVE  SentInv'
<1>1. /\ batch' = Advanced(b) \/ (batch' = [batch EXCEPT ![b].awaits = TRUE] /\ Current(b) \notin batch[b].seen)
      /\ UNCHANGED <<alreadySent, delivered, unanswered>>
  BY DEF SkipSeen, Send
<1>2. DOMAIN batch = Batches /\ DOMAIN batch[b] = {"todo", "seen", "awaits"}
  BY DEF SentInv, BatchShape
<1>3. BatchShape'
  BY <1>1, <1>2 DEF SentInv, BatchShape, Current, Advanced
<1>4. \A c \in Batches : batch'[c].seen = batch[c].seen
  BY <1>1, <1>2 DEF Advanced
<1>5. QED
  BY <1>1, <1>3, <1>4, UntakenStays, SentStays

\* An answer arrives: the batch has the key, which it had not, and the next ones will.
LEMMA SentAccepts ==
  ASSUME SentInv, NEW b \in Batches, Accepted(b)
  PROVE  SentInv'
<1>0. PICK k : k = Current(b)
  OBVIOUS
<1>1. /\ batch[b].awaits /\ k \notin batch[b].seen
      /\ delivered' = delivered (+) SetToBag({k}) /\ unanswered' = unanswered
      /\ batch' = [Advanced(b) EXCEPT ![b].seen = @ \cup {k}]
      /\ alreadySent' = alreadySent \cup {k}
  BY <1>0 DEF Accepted, Takes, SentInv, BatchShape
<1>2. DOMAIN batch = Batches /\ DOMAIN batch[b] = {"todo", "seen", "awaits"}
  BY DEF SentInv, BatchShape
<1>3. /\ batch'[b].seen = batch[b].seen \cup {k}
      /\ \A c \in Batches : c # b => batch'[c] = batch[c]
  BY <1>1, <1>2 DEF Advanced
<1>4. BatchShape'
  BY <1>1, <1>2 DEF SentInv, BatchShape, Current, Advanced
<1>5. /\ Counts(delivered)' /\ Counts(unanswered)'
      /\ \A e : Times(e, delivered') = Times(e, delivered) + (IF e = k THEN 1 ELSE 0)
      /\ \A e : Times(e, unanswered') = Times(e, unanswered)
  BY <1>1, OneMore DEF SentInv, Counts
<1>6. \A e : Times(e, delivered) \in Nat /\ Times(e, unanswered) \in Nat
  BY DEF SentInv, Counts, Times, BagIn, BagToSet
<1>7. \A e : Answered(e)' = Answered(e) + (IF e = k THEN 1 ELSE 0) /\ Answered(e) \in Int
  BY <1>5, <1>6 DEF Answered
<1>8. Having(k)' = Having(k) \cup {b} /\ b \notin Having(k)
  BY <1>1, <1>3 DEF Having
<1>9. Cardinality(Having(k)') = Cardinality(Having(k)) + 1
  BY <1>8, HavingSize, FS_AddElement
<1>10. \A e : e # k => Having(e)' = Having(e)
  BY <1>3 DEF Having
<1>11. ASSUME NEW e PROVE /\ e \notin alreadySent' => Answered(e)' <= 0
                          /\ Answered(e)' <= Cardinality(Having(e)')
  <2>1. Answered(e) <= Cardinality(Having(e)) /\ Cardinality(Having(e)) \in Nat
    BY HavingSize DEF SentInv
  <2>2. CASE e = k
    BY <1>1, <1>7, <1>9, <2>1, <2>2
  <2>3. CASE e # k
    BY <1>1, <1>7, <1>10, <2>1, <2>3 DEF SentInv
  <2>4. QED
    BY <2>2, <2>3
<1>12. QED
  BY <1>4, <1>5, <1>11 DEF SentInv

\* A call fails: what was taken without an answer counts on both sides.
LEMMA SentFails ==
  ASSUME SentInv, NEW b \in Batches, NEW taken \in BOOLEAN, Fails(b, taken)
  PROVE  SentInv'
<1> DEFINE k == Current(b)
<1>1. batch' = Advanced(b) /\ alreadySent' = alreadySent
  BY DEF Fails
<1>2. DOMAIN batch = Batches /\ DOMAIN batch[b] = {"todo", "seen", "awaits"}
  BY DEF SentInv, BatchShape
<1>3. BatchShape'
  BY <1>1, <1>2 DEF SentInv, BatchShape, Current, Advanced
<1>4. \A c \in Batches : batch'[c].seen = batch[c].seen
  BY <1>1, <1>2 DEF Advanced
<1>5. Counts(delivered)' /\ Counts(unanswered)' /\ \A e : Answered(e)' = Answered(e)
  <2>1. CASE taken
    <3>1. delivered' = delivered (+) SetToBag({k}) /\ unanswered' = unanswered (+) SetToBag({k})
      BY <2>1 DEF Fails, Takes
    <3> HIDE DEF k
    <3>2. Counts(delivered) /\ Counts(unanswered)
      BY DEF SentInv
    <3>3. /\ Counts(delivered') /\ Counts(unanswered')
          /\ \A e : Times(e, delivered') = Times(e, delivered) + (IF e = k THEN 1 ELSE 0)
          /\ \A e : Times(e, unanswered') = Times(e, unanswered) + (IF e = k THEN 1 ELSE 0)
      BY <3>1, <3>2, OneMore
    <3>4. \A e : Times(e, delivered) \in Nat /\ Times(e, unanswered) \in Nat
      BY <3>2 DEF Counts, Times, BagIn, BagToSet
    <3>5. \A e : Times(e, delivered)' = Times(e, delivered') /\ Times(e, unanswered)' = Times(e, unanswered')
      OBVIOUS
    <3>6. QED
      BY <3>3, <3>4, <3>5 DEF Answered, Counts
  <2>2. CASE ~taken
    BY <2>2, UntakenStays DEF Fails
  <2>3. QED
    BY <2>1, <2>2
<1>6. QED
  BY <1>1, <1>3, <1>4, <1>5, SentStays

\* A look at a reminder's time plans it; one after it comes after one that did.
LEMMA LookReminds ==
  ASSUME LookInv, NEW b \in Batches, Remind(b)
  PROVE  LookInv'
<1>1. /\ planned' = planned \cup KeysOf(DueReminders) /\ lastLook' = noticeTime
      /\ UNCHANGED <<noticeTime, bookingState, confirmedAt>>
  BY DEF Remind, Begin
<1>2. ASSUME NEW r \in ReminderRules, LookedFor(r)' PROVE KeysFor(r) \subseteq planned'
  <2>1. /\ bookingState = "confirmed" /\ noticeTime \in Nat /\ lastLook \in Nat
        /\ SlotStart \in Nat /\ r.offset \in Nat /\ ReminderHorizon \in Nat
        /\ confirmedAt + ReminderHorizon <= SlotStart - r.offset
        /\ noticeTime + ReminderHorizon > SlotStart - r.offset
        /\ noticeTime <= lastLook + ReminderHorizon
    BY <1>1, <1>2, NoticeAssumption DEF LookedFor, LookInv
  <2>2. CASE noticeTime <= SlotStart - r.offset
    <3>1. Due(r)
      BY <2>1, <2>2 DEF Due
    <3>2. QED
      BY <1>1, <2>1, <3>1, DueAreRendered DEF KeysFor
  <2>3. CASE noticeTime > SlotStart - r.offset
    <3>1. LookedFor(r)
      BY <2>1, <2>3 DEF LookedFor
    <3>2. QED
      BY <1>1, <3>1 DEF LookInv
  <2>4. QED
    BY <2>1, <2>2, <2>3
<1>3. \A r \in ReminderRules : KeysFor(r)' = KeysFor(r)
  BY DEF KeysFor
<1>4. lastLook' <= noticeTime' /\ noticeTime' <= lastLook' + ReminderHorizon
  BY <1>1, NoticeAssumption DEF LookInv
<1>5. QED
  BY <1>1, <1>2, <1>3, <1>4 DEF LookInv

\* Every other step.
LEMMA LookStays ==
  ASSUME LookInv, planned \subseteq planned', lastLook' = lastLook,
         \/ NoticeTimePasses
         \/ \E from, to \in {"pending_payment", "confirmed", "cancelled"} : Moves(from, to)
         \/ UNCHANGED <<noticeTime, bookingState, confirmedAt>>
  PROVE  LookInv'
<1>1. \A r \in ReminderRules : KeysFor(r)' = KeysFor(r)
  BY DEF KeysFor
<1>2. CASE NoticeTimePasses
  BY <1>1, <1>2, NoticeAssumption DEF NoticeTimePasses, LookInv, LookedFor
<1>3. ASSUME NEW from, NEW to, Moves(from, to) PROVE LookInv'
  <2>1. CASE to = "confirmed"
    <3>1. confirmedAt' = noticeTime /\ noticeTime' = noticeTime
      BY <1>3, <2>1 DEF Moves
    <3>2. \A r \in ReminderRules : ~LookedFor(r)'
      BY <3>1, NoticeAssumption DEF LookedFor, LookInv
    <3>3. QED
      BY <3>1, <3>2 DEF LookInv
  <2>2. CASE to # "confirmed"
    BY <1>1, <1>3, <2>2 DEF Moves, LookInv, LookedFor
  <2>3. QED
    BY <2>1, <2>2
<1>4. CASE UNCHANGED <<noticeTime, bookingState, confirmedAt>>
  BY <1>1, <1>4 DEF LookInv, LookedFor
<1>5. QED
  BY <1>2, <1>3, <1>4

\* Every step keeps both.
LEMMA NoticeKeeps == NoticeInv /\ [NoticeNext]_noticing => NoticeInv'
<1> SUFFICES ASSUME SentInv, LookInv, [NoticeNext]_noticing PROVE SentInv' /\ LookInv'
  BY DEF NoticeInv
<1>1. CASE UNCHANGED noticing
  BY <1>1, SentWaits, LookStays DEF noticing
<1>2. ASSUME NEW from \in {"pending_payment", "confirmed", "cancelled"},
             NEW to \in {"pending_payment", "confirmed", "cancelled"}, Moves(from, to)
      PROVE  SentInv' /\ LookInv'
  <2>1. UNCHANGED <<batch, alreadySent, delivered, unanswered, planned, lastLook>>
    BY <1>2 DEF Moves
  <2>2. QED
    BY <1>2, <2>1, SentWaits, LookStays
<1>3. ASSUME NEW b \in Batches, Announce(b) PROVE SentInv' /\ LookInv'
  <2>1. /\ Begin(b, PlanNotifications("booking." \o bookingState)) /\ planned \subseteq planned'
        /\ UNCHANGED <<alreadySent, delivered, unanswered, lastLook, noticeTime, bookingState, confirmedAt>>
    BY <1>3 DEF Announce, Begin
  <2>2. QED
    BY <2>1, SentBegins, LookStays
<1>4. ASSUME NEW b \in Batches, Remind(b) PROVE SentInv' /\ LookInv'
  <2>1. Begin(b, DueReminders) /\ UNCHANGED <<alreadySent, delivered, unanswered>>
    BY <1>4 DEF Remind
  <2>2. QED
    BY <1>4, <2>1, SentBegins, LookReminds
<1>5. ASSUME NEW b \in Batches,
             \/ SkipSeen(b) \/ Send(b) \/ Accepted(b)
             \/ \E taken \in BOOLEAN : Fails(b, taken)
      PROVE  SentInv' /\ LookInv'
  <2>1. UNCHANGED <<noticeTime, bookingState, confirmedAt, lastLook, planned>>
    BY <1>5 DEF SkipSeen, Send, Accepted, Fails
  <2>2. QED
    BY <1>5, <2>1, SentGoesOn, SentAccepts, SentFails, LookStays
<1>6. CASE NoticeTimePasses
  <2>1. UNCHANGED <<batch, alreadySent, delivered, unanswered, planned, lastLook>>
    BY <1>6 DEF NoticeTimePasses
  <2>2. QED
    BY <1>6, <2>1, SentWaits, LookStays
<1>7. CASE NoticeNext
  BY <1>2, <1>3, <1>4, <1>5, <1>6, <1>7 DEF NoticeNext
<1>8. QED
  BY <1>1, <1>7

\* No message is taken too often, and no reminder missed, for any number of batches, rules
\* and templates: sendNotifications marks what was answered before the next batch copies the set.
THEOREM NoticesAreRight == NoticeSpec => []NoticesHold
<1>1. NoticeInv => NoticesHold
  <2> SUFFICES ASSUME SentInv, LookInv PROVE NoticesHold
    BY DEF NoticeInv
  <2>1. DuplicatesAreExplained
    <3> SUFFICES ASSUME NEW k \in BagToSet(delivered)
                 PROVE  Times(k, delivered) <= Cardinality(Batches) + Times(k, unanswered)
      BY DEF DuplicatesAreExplained
    <3>1. Times(k, delivered) \in Nat /\ Times(k, unanswered) \in Nat
      BY DEF SentInv, Counts, Times, BagIn, BagToSet
    <3>2. Answered(k) <= Cardinality(Having(k))
      BY DEF SentInv
    <3>3. QED
      BY <3>1, <3>2, HavingSize DEF Answered
  <2>2. NoReminderMissed
    <3> SUFFICES ASSUME NEW r \in ReminderRules, bookingState = "confirmed",
                        noticeTime > SlotStart - r.offset,
                        SlotStart - r.offset - confirmedAt >= ReminderHorizon
                 PROVE  KeysFor(r) \subseteq planned
      BY DEF NoReminderMissed, KeysFor
    <3>1. LookedFor(r)
      BY NoticeAssumption DEF LookInv, LookedFor
    <3>2. QED
      BY <3>1 DEF LookInv
  <2>3. QED
    BY <2>1, <2>2 DEF NoticesHold
<1>2. QED
  BY <1>1, NoticeStarts, NoticeKeeps, PTL DEF NoticeSpec

-----------------------------------------------------------------------------
(* Sorting: what sort and filter return.                                   *)

\* A sequence with one more element.
LEMMA Inserted ==
  ASSUME NEW S, NEW ss \in Seq(S), NEW k \in 1 .. Len(ss) + 1, NEW e \in S
  PROVE  LET r == InsertAt(ss, k, e)
         IN  /\ r \in Seq(S) /\ Len(r) = Len(ss) + 1
             /\ \A i \in 1 .. Len(ss) + 1 : r[i] = IF i < k THEN ss[i] ELSE IF i = k THEN e ELSE ss[i - 1]
<1> DEFINE a == SubSeq(ss, 1, k - 1)
           b == SubSeq(ss, k, Len(ss))
           m == a \o <<e>>
           n == Len(ss)
<1>0. n \in Nat /\ k \in 1 .. n + 1
  OBVIOUS
<1>1. /\ a \in Seq(S) /\ Len(a) = k - 1 /\ \A i \in 1 .. k - 1 : a[i] = ss[i]
  BY <1>0, SubSeqProperties
<1>2. /\ b \in Seq(S) /\ Len(b) = n - k + 1 /\ \A i \in 1 .. n - k + 1 : b[i] = ss[k + i - 1]
  BY <1>0, SubSeqProperties
<1>3. InsertAt(ss, k, e) = m \o b
  BY DEF InsertAt
<1> HIDE DEF a, b, n
<1>4. <<e>> \in Seq(S) /\ Len(<<e>>) = 1 /\ <<e>>[1] = e
  OBVIOUS
<1>5. /\ m \in Seq(S) /\ Len(m) = k
      /\ \A i \in 1 .. k : m[i] = IF i < k THEN ss[i] ELSE e
  <2> DEFINE c == <<e>>
  <2>1. c \in Seq(S) /\ Len(c) = 1 /\ c[1] = e
    BY <1>4
  <2> HIDE DEF c
  <2>2. /\ a \o c \in Seq(S) /\ Len(a \o c) = Len(a) + Len(c)
        /\ \A i \in 1 .. Len(a) + Len(c) : (a \o c)[i] = IF i <= Len(a) THEN a[i] ELSE c[i - Len(a)]
    BY <1>1, <2>1, ConcatProperties
  <2> DEFINE m0 == a \o c
  <2>3. /\ m0 \in Seq(S) /\ Len(m0) = k
        /\ \A i \in 1 .. k : m0[i] = IF i <= k - 1 THEN a[i] ELSE c[i - (k - 1)]
    BY <1>0, <1>1, <2>1, <2>2
  <2> HIDE DEF m0
  <2>4. ASSUME NEW i \in 1 .. k PROVE m0[i] = IF i < k THEN ss[i] ELSE e
    <3>1. CASE i < k
      BY <1>0, <1>1, <2>3, <3>1
    <3>2. CASE i = k
      <4>1. m0[i] = c[i - (k - 1)] /\ i - (k - 1) = 1
        BY <1>0, <2>3, <3>2
      <4>2. QED
        BY <2>1, <3>2, <4>1
    <3>3. QED
      BY <1>0, <3>1, <3>2
  <2>5. m = m0
    BY DEF m0, c
  <2>6. QED
    BY <2>3, <2>4, <2>5
<1> HIDE DEF m
<1>6. /\ m \o b \in Seq(S) /\ Len(m \o b) = Len(m) + Len(b)
      /\ \A i \in 1 .. Len(m) + Len(b) : (m \o b)[i] = IF i <= Len(m) THEN m[i] ELSE b[i - Len(m)]
  BY <1>2, <1>5, ConcatProperties
<1> DEFINE r == m \o b
<1>7. /\ r \in Seq(S) /\ Len(r) = n + 1
      /\ \A i \in 1 .. n + 1 : r[i] = IF i <= k THEN m[i] ELSE b[i - k]
  BY <1>0, <1>2, <1>5, <1>6
<1> HIDE DEF r
<1>8. ASSUME NEW i \in 1 .. n + 1
      PROVE  r[i] = IF i < k THEN ss[i] ELSE IF i = k THEN e ELSE ss[i - 1]
  <2>1. CASE i <= k
    BY <1>0, <1>5, <1>7, <2>1
  <2>2. CASE i > k
    <3>0. i - k \in 1 .. n - k + 1 /\ ~ (i <= k)
      BY <1>0, <2>2
    <3>1. r[i] = b[i - k] /\ i - k \in 1 .. n - k + 1
      BY <1>7, <3>0
    <3>2. b[i - k] = ss[k + (i - k) - 1] /\ k + (i - k) - 1 = i - 1
      BY <1>0, <1>2, <3>1
    <3>3. QED
      BY <1>0, <2>2, <3>1, <3>2
  <2>3. QED
    BY <1>0, <2>1, <2>2
<1>9. QED
  BY <1>3, <1>7, <1>8 DEF n, r

\* A comparison decides between any two, and of three in a row the first and last.
Orders(R, S) ==
  /\ \A x, y \in S : <<x, y>> \in R \/ <<y, x>> \in R
  /\ \A x, y, z \in S : <<x, y>> \in R /\ <<y, z>> \in R => <<x, z>> \in R
InOrder(R, s) == \A i, j \in DOMAIN s : i <= j => <<s[i], s[j]>> \in R

\* An element is put where it belongs.
LEMMA InsertSorts ==
  ASSUME NEW R, NEW S, Orders(R, S), NEW out \in Seq(S), InOrder(R, out), NEW w \in S
  PROVE  LET r == InsertBy(R, w, out)
         IN  r \in Seq(S) /\ Len(r) = Len(out) + 1 /\ InOrder(R, r) /\ ToSet(r) = ToSet(out) \cup {w}
<1> DEFINE n == Len(out)
           no == {0} \cup {i \in DOMAIN out : <<out[i], w>> \in R}
           k == Max(no)
           r == InsertAt(out, 1 + k, w)
<1>1. n \in Nat /\ DOMAIN out = 1 .. n /\ \A i \in 1 .. n : out[i] \in S
  BY ElementOfSeq, LenProperties
<1>2. k \in no /\ \A i \in no : i <= k
  <2>1. no \in SUBSET (0 .. n) /\ no # {}
    BY <1>1
  <2> HIDE DEF no, n
  <2>2. QED
    BY <1>1, <2>1, GreatestOf
<1>3. /\ k \in 0 .. n /\ (\A i \in 1 .. n : i > k => ~ (<<out[i], w>> \in R))
      /\ (k > 0 => <<out[k], w>> \in R)
  <2> HIDE DEF k, n
  <2>1. QED
    BY <1>1, <1>2
<1>4. InsertBy(R, w, out) = r
  BY DEF InsertBy
<1> HIDE DEF k, n, no
<1>5. /\ r \in Seq(S) /\ Len(r) = n + 1
      /\ \A i \in 1 .. n + 1 : r[i] = IF i < 1 + k THEN out[i] ELSE IF i = 1 + k THEN w ELSE out[i - 1]
  <2>1. PICK p : p = 1 + k
    OBVIOUS
  <2>2. p \in 1 .. Len(out) + 1 /\ r = InsertAt(out, p, w)
    BY <1>1, <1>3, <2>1 DEF n
  <2> HIDE DEF r
  <2>3. /\ r \in Seq(S) /\ Len(r) = Len(out) + 1
        /\ \A i \in 1 .. Len(out) + 1 : r[i] = IF i < p THEN out[i] ELSE IF i = p THEN w ELSE out[i - 1]
    BY <2>2, Inserted
  <2>4. QED
    BY <2>1, <2>3 DEF n
<1> HIDE DEF r
<1>6. DOMAIN r = 1 .. n + 1
  BY <1>5, LenProperties
<1>7. \A i \in 1 .. n : i > k => <<w, out[i]>> \in R
  BY <1>1, <1>3 DEF Orders
<1>8. ASSUME NEW i \in DOMAIN r, NEW j \in DOMAIN r, i <= j PROVE <<r[i], r[j]>> \in R
  <2>1. i \in 1 .. n + 1 /\ j \in 1 .. n + 1
    BY <1>6
  <2>2. CASE i < 1 + k
    <3>1. i \in 1 .. n /\ r[i] = out[i]
      BY <1>1, <1>3, <1>5, <2>1, <2>2
    <3>2. CASE j < 1 + k
      <4>1. j \in 1 .. n /\ r[j] = out[j]
        BY <1>1, <1>3, <1>5, <2>1, <3>2
      <4>2. QED
        BY <1>1, <1>8, <3>1, <4>1 DEF InOrder
    <3>3. CASE j = 1 + k
      <4>1. r[j] = w /\ k \in 1 .. n /\ i <= k
        BY <1>1, <1>3, <1>5, <2>1, <2>2, <3>1, <3>3
      <4>2. <<out[i], out[k]>> \in R /\ <<out[k], w>> \in R
        BY <1>1, <1>3, <3>1, <4>1 DEF InOrder
      <4>3. QED
        BY <1>1, <3>1, <4>1, <4>2 DEF Orders
    <3>4. CASE j > 1 + k
      <4>1. j - 1 \in 1 .. n /\ r[j] = out[j - 1] /\ i <= j - 1
        BY <1>1, <1>3, <1>5, <2>1, <2>2, <3>4
      <4>2. QED
        BY <1>1, <3>1, <4>1 DEF InOrder
    <3>5. QED
      BY <1>3, <2>1, <3>2, <3>3, <3>4
  <2>3. CASE i = 1 + k
    <3>1. r[i] = w
      BY <1>3, <1>5, <2>1, <2>3
    <3>2. CASE j = i
      <4>1. <<w, w>> \in R
        BY DEF Orders
      <4>2. QED
        BY <3>1, <3>2, <4>1
    <3>3. CASE j > i
      <4>1. j - 1 \in 1 .. n /\ r[j] = out[j - 1] /\ j - 1 > k
        BY <1>1, <1>3, <1>5, <2>1, <2>3, <3>3
      <4>2. QED
        BY <1>7, <3>1, <4>1
    <3>4. QED
      BY <1>8, <2>1, <3>2, <3>3
  <2>4. CASE i > 1 + k
    <3>1. i - 1 \in 1 .. n /\ r[i] = out[i - 1] /\ j - 1 \in 1 .. n /\ r[j] = out[j - 1] /\ i - 1 <= j - 1
      BY <1>1, <1>3, <1>5, <1>8, <2>1, <2>4
    <3>2. QED
      BY <1>1, <3>1 DEF InOrder
  <2>5. QED
    BY <1>3, <2>1, <2>2, <2>3, <2>4
<1>9. ToSet(r) = ToSet(out) \cup {w}
  <2>1. ASSUME NEW i \in 1 .. n + 1 PROVE r[i] \in ToSet(out) \cup {w}
    <3>1. CASE i = 1 + k
      BY <1>3, <1>5, <3>1
    <3>2. CASE i # 1 + k
      <4>1. \E j \in 1 .. n : r[i] = out[j]
        BY <1>1, <1>3, <1>5, <3>2
      <4>2. QED
        BY <1>1, <4>1 DEF ToSet
    <3>3. QED
      BY <3>1, <3>2
  <2>2. ASSUME NEW i \in 1 .. n PROVE \E j \in 1 .. n + 1 : r[j] = out[i]
    <3>1. CASE i < 1 + k
      BY <1>1, <1>3, <1>5, <3>1
    <3>2. CASE i >= 1 + k
      <4>1. i + 1 \in 1 .. n + 1 /\ r[i + 1] = out[(i + 1) - 1] /\ (i + 1) - 1 = i
        BY <1>1, <1>3, <1>5, <3>2
      <4>2. QED
        BY <4>1
    <3>3. QED
      BY <1>3, <3>1, <3>2
  <2>3. 1 + k \in 1 .. n + 1 /\ r[1 + k] = w
    BY <1>1, <1>3, <1>5
  <2>4. QED
    BY <1>1, <1>6, <2>1, <2>2, <2>3 DEF ToSet
<1>10. QED
  BY <1>4, <1>5, <1>8, <1>9 DEF InOrder, n

\* A set in the order of a comparison: every element, once.
LEMMA SortedIsInOrder ==
  ASSUME NEW S, IsFiniteSet(S), NEW R, Orders(R, S)
  PROVE  LET s == SortedBy(R, S)
         IN  s \in Seq(S) /\ InOrder(R, s) /\ ToSet(s) = S /\ Len(s) = Cardinality(S)
<1> DEFINE V == {s \in Seq(S) : InOrder(R, s)}
           B(g) == [t \in SUBSET S |-> IF t = {} THEN <<>> ELSE InsertBy(R, Chosen(t), g[t \ {Chosen(t)}])]
           h == [p \in S \X V |-> InsertBy(R, p[1], p[2])]
           g == CHOOSE it : it = B(it)
<1>1. SortedBy(R, S) = g[S]
  BY DEF SortedBy, FoldSet, MapThenFoldSet, Chosen
<1>2. <<>> \in V /\ ToSet(<<>>) = {} /\ Len(<<>>) = 0
  BY EmptySeq DEF InOrder, ToSet
<1>3. ASSUME NEW w \in S, NEW v \in V
      PROVE  /\ InsertBy(R, w, v) \in V /\ ToSet(InsertBy(R, w, v)) = ToSet(v) \cup {w}
             /\ Len(InsertBy(R, w, v)) = Len(v) + 1
  BY InsertSorts
<1>4. \A t \in SUBSET S : t # {} => Chosen(t) \in t
  BY DEF Chosen
<1> HIDE DEF V
<1>5. h \in [S \X V -> V]
  BY <1>3
<1>6. \A p \in S \X V : h[p] = InsertBy(R, p[1], p[2])
  OBVIOUS
<1> HIDE DEF h
<1>7. PICK k \in [SUBSET S -> V] : FoldsTo(S, <<>>, h, k)
  BY <1>2, <1>5, FoldExists
<1>8. ASSUME NEW t \in SUBSET S, t # {} PROVE k[t] = InsertBy(R, Chosen(t), k[t \ {Chosen(t)}])
  <2>1. Chosen(t) \in S /\ k[t \ {Chosen(t)}] \in V
    BY <1>4, <1>7, <1>8
  <2>2. k[t] = h[<<Chosen(t), k[t \ {Chosen(t)}]>>]
    BY <1>7, <1>8 DEF FoldsTo
  <2>3. QED
    BY <1>6, <2>1, <2>2
<1>9. k[{}] = <<>>
  BY <1>7 DEF FoldsTo
<1>10. k = B(k)
  BY <1>7, <1>8, <1>9
<1>11. g = B(g)
  BY <1>10
<1> HIDE DEF g
<1> DEFINE F == {t \in SUBSET S : g[t] \in V /\ ToSet(g[t]) = t /\ Len(g[t]) = Cardinality(t)}
<1>12. ASSUME NEW t \in SUBSET S, t = {} \/ t \ {Chosen(t)} \in F PROVE t \in F
  <2>1. CASE t = {}
    BY <1>2, <1>11, <2>1, FS_EmptySet
  <2>2. CASE t # {}
    <3> DEFINE c == Chosen(t)
               u == t \ {c}
    <3>1. /\ c \in S /\ c \in t /\ u \in SUBSET S /\ u \cup {c} = t
          /\ g[u] \in V /\ ToSet(g[u]) = u /\ Len(g[u]) = Cardinality(u)
      BY <1>4, <1>12, <2>2
    <3>2. g[t] = InsertBy(R, c, g[u])
      BY <1>11, <2>2
    <3>3. Cardinality(t) \in Nat /\ Cardinality(u) = Cardinality(t) - 1
      BY <3>1, FS_Subset, FS_CardinalityType, FS_RemoveElement
    <3>4. Cardinality(t) = Cardinality(u) + 1
      BY <3>3
    <3> HIDE DEF c, u
    <3>5. QED
      BY <1>3, <3>1, <3>2, <3>4
  <2>3. QED
    BY <2>1, <2>2
<1>13. S \in F
  <2> HIDE DEF F
  <2>1. \A t \in SUBSET S : t \in F
    BY <1>12, FoldInduction
  <2>2. QED
    BY <2>1
<1>14. QED
  BY <1>1, <1>13 DEF V

\* The elements that are in a set, and no other.
LEMMA FilteredElements ==
  ASSUME NEW T, NEW s \in Seq(T), NEW S
  PROVE  Filtered(s, S) \in Seq(T) /\ ToSet(Filtered(s, S)) = ToSet(s) \cap S
<1> DEFINE n == Len(s)
           V == Seq(T)
           Step(v, i) == IF s[i] \in S THEN Append(v, s[i]) ELSE v
           B(g) == [t \in SUBSET (1 .. n) |-> IF t = {} THEN <<>> ELSE Step(g[t \ {Max(t)}], Max(t))]
           h == [p \in (1 .. n) \X V |-> Step(p[2], p[1])]
           g == CHOOSE it : it = B(it)
<1>1. n \in Nat /\ DOMAIN s = 1 .. n /\ \A i \in 1 .. n : s[i] \in T
  BY ElementOfSeq, LenProperties
<1>2. Filtered(s, S) = g[1 .. n]
  BY <1>1 DEF Filtered, FoldLeft, MapThenFoldSet
<1>3. <<>> \in V /\ ToSet(<<>>) = {}
  BY EmptySeq DEF ToSet
<1> HIDE DEF n
<1>4. ASSUME NEW v \in V, NEW i \in 1 .. n
      PROVE  Step(v, i) \in V /\ ToSet(Step(v, i)) = ToSet(v) \cup ({s[i]} \cap S)
  <2>1. CASE s[i] \in S
    <3> DEFINE e == s[i]
               a == Append(v, e)
    <3>1. e \in T
      BY <1>1
    <3> HIDE DEF e
    <3>2. /\ a \in V /\ Len(v) \in Nat /\ DOMAIN v = 1 .. Len(v) /\ DOMAIN a = 1 .. Len(v) + 1
          /\ a[Len(v) + 1] = e /\ \A j \in 1 .. Len(v) : a[j] = v[j]
      BY <3>1, AppendProperties, LenProperties
    <3> HIDE DEF a, V
    <3>3. PICK m : m = Len(v)
      OBVIOUS
    <3>4. \A j \in 1 .. m + 1 : j \in 1 .. m \/ j = m + 1
      BY <3>2, <3>3
    <3>5. m + 1 \in 1 .. m + 1 /\ \A j \in 1 .. m : j \in 1 .. m + 1
      BY <3>2, <3>3
    <3>6. ToSet(a) = ToSet(v) \cup {e}
      BY <3>2, <3>3, <3>4, <3>5 DEF ToSet
    <3>7. Step(v, i) = a
      BY <2>1 DEF a, e
    <3>8. {s[i]} \cap S = {e}
      BY <2>1 DEF e
    <3>9. QED
      BY <3>2, <3>6, <3>7, <3>8
  <2>2. CASE s[i] \notin S
    BY <2>2
  <2>3. QED
    BY <2>1, <2>2
<1> HIDE DEF Step, V
<1>5. h \in [(1 .. n) \X V -> V]
  BY <1>4
<1>6. \A p \in (1 .. n) \X V : h[p] = Step(p[2], p[1])
  OBVIOUS
<1> HIDE DEF h
<1>7. PICK k \in [SUBSET (1 .. n) -> V] : FoldsLeft(n, <<>>, h, k)
  BY <1>1, <1>3, <1>5, FoldLeftExists
<1>8. ASSUME NEW t \in SUBSET (1 .. n), t # {} PROVE k[t] = Step(k[t \ {Max(t)}], Max(t))
  <2>1. Max(t) \in 1 .. n /\ k[t \ {Max(t)}] \in V
    BY <1>1, <1>7, <1>8, GreatestIndex
  <2>2. k[t] = h[<<Max(t), k[t \ {Max(t)}]>>]
    BY <1>7, <1>8 DEF FoldsLeft
  <2>3. QED
    BY <1>6, <2>1, <2>2
<1>9. k[{}] = <<>>
  BY <1>7 DEF FoldsLeft
<1>10. k = B(k)
  BY <1>7, <1>8, <1>9
<1>11. g = B(g)
  BY <1>10
<1> HIDE DEF g
<1> DEFINE Of(t) == {s[i] : i \in t}
           F == {t \in SUBSET (1 .. n) : g[t] \in V /\ ToSet(g[t]) = Of(t) \cap S}
<1>12. ASSUME NEW t \in SUBSET (1 .. n), t = {} \/ (Max(t) \in t /\ t \ {Max(t)} \in F)
       PROVE  t \in F
  <2>1. CASE t = {}
    BY <1>3, <1>11, <2>1
  <2>2. CASE t # {}
    <3> DEFINE c == Max(t)
               u == t \ {c}
    <3>1. c \in 1 .. n /\ u \in SUBSET (1 .. n) /\ g[u] \in V /\ ToSet(g[u]) = Of(u) \cap S
      BY <1>12, <2>2
    <3>2. g[t] = Step(g[u], c)
      BY <1>11, <2>2
    <3>3. t = u \cup {c}
      BY <1>12, <2>2
    <3> HIDE DEF c, u
    <3>4. Of(t) = Of(u) \cup {s[c]}
      BY <3>3
    <3>5. g[t] \in V /\ ToSet(g[t]) = (Of(u) \cap S) \cup ({s[c]} \cap S)
      BY <1>4, <3>1, <3>2
    <3> HIDE DEF Of
    <3>6. QED
      BY <3>4, <3>5
  <2>3. QED
    BY <2>1, <2>2
<1>13. 1 .. n \in F
  <2> HIDE DEF F
  <2>1. QED
    BY <1>1, <1>12, FoldLeftInduction
<1>14. Of(1 .. n) = ToSet(s)
  BY <1>1 DEF ToSet
<1>15. QED
  BY <1>2, <1>13, <1>14 DEF V

-----------------------------------------------------------------------------
(* External calendars: what the merge shows as busy.                       *)

\* A window that takes time, of an owner's calendar or the platform's.
Lasting == {w \in [start : Int, end : Int, source : {"internal", "external"}] : w.start < w.end}
Ascends(s) == \A i, j \in DOMAIN s : i <= j => s[i].start <= s[j].start

\* The windows in the order of their starts.
LEMMA SortedByStart ==
  ASSUME NEW real \in SUBSET Lasting, IsFiniteSet(real)
  PROVE  LET s == SortedBy({p \in real \X real : p[1].start <= p[2].start}, real)
         IN  s \in Seq(Lasting) /\ Ascends(s) /\ ToSet(s) = real
<1> DEFINE R == {p \in real \X real : p[1].start <= p[2].start}
           s == SortedBy(R, real)
<1>1. \A x \in real : x.start \in Int
  BY DEF Lasting
<1>2. \A x, y \in real : <<x, y>> \in R <=> x.start <= y.start
  OBVIOUS
<1> HIDE DEF R
<1>3. Orders(R, real)
  BY <1>1, <1>2 DEF Orders
<1>4. s \in Seq(real) /\ InOrder(R, s) /\ ToSet(s) = real
  BY <1>3, SortedIsInOrder
<1> HIDE DEF s
<1>5. s \in Seq(Lasting) /\ \A i \in DOMAIN s : s[i] \in real
  BY <1>4, ElementOfSeq
<1>6. Ascends(s)
  BY <1>2, <1>4, <1>5 DEF Ascends, InOrder
<1>7. QED
  BY <1>4, <1>5, <1>6 DEF R, s

\* What the merged windows say of those absorbed so far: each window lies in one of them,
\* an internal one in an internal one; each of them starts with a window, is busy when some
\* window is, and is internal because of one; and there is a gap between any two.
Covers(m, ws) ==
  \A w \in ws : \E v \in ToSet(m) :
    v.start <= w.start /\ w.end <= v.end /\ (w.source = "internal" => v.source = "internal")
Covered(m, ws) ==
  \A v \in ToSet(m) :
    /\ \E w \in ws : v.start = w.start
    /\ \A u \in Int : v.start <= u /\ u < v.end => \E w \in ws : w.start <= u /\ u < w.end
    /\ v.source = "internal" =>
         \E w \in ws : w.source = "internal" /\ v.start <= w.start /\ w.end <= v.end
Apart(m) == \A i \in 1 .. Len(m) - 1 : m[i].end < m[i + 1].start
Merges(m, ws) == m \in Seq(Lasting) /\ Covers(m, ws) /\ Covered(m, ws) /\ Apart(m)

\* Absorbing a window that starts no earlier than those before it.
LEMMA AbsorbMerges ==
  ASSUME NEW ws \in SUBSET Lasting, NEW m, Merges(m, ws), NEW w \in Lasting,
         \A x \in ws : x.start <= w.start
  PROVE  Merges(Absorb(m, w), ws \cup {w})
<1> DEFINE n == Len(m)
           last == m[n]
           all == ws \cup {w}
<1>1. /\ m \in Seq(Lasting) /\ n \in Nat /\ DOMAIN m = 1 .. n /\ \A i \in 1 .. n : m[i] \in Lasting
      /\ Covers(m, ws) /\ Covered(m, ws) /\ Apart(m)
  BY ElementOfSeq, LenProperties DEF Merges
<1>2. /\ w.start \in Int /\ w.end \in Int /\ w.start < w.end /\ w.source \in {"internal", "external"}
      /\ w = [start |-> w.start, end |-> w.end, source |-> w.source]
  BY DEF Lasting
<1>3. \A i \in 1 .. n : m[i] \in ToSet(m)
  BY <1>1 DEF ToSet
<1>4. \A v \in ToSet(m) : \E i \in 1 .. n : v = m[i]
  BY <1>1 DEF ToSet
<1>5. m # <<>> <=> n > 0
  BY <1>1, EmptySeq
<1>6. CASE m # <<>> /\ w.start <= last.end
  <2> DEFINE both == [start |-> last.start,
                      end |-> IF w.end > last.end THEN w.end ELSE last.end,
                      source |-> IF "internal" \in {w.source, last.source} THEN "internal" ELSE last.source]
             r == [m EXCEPT ![n] = both]
  <2>1. Absorb(m, w) = r
    BY <1>6 DEF Absorb
  <2>2. n \in 1 .. n /\ last \in Lasting /\ last \in ToSet(m)
    BY <1>1, <1>3, <1>5, <1>6
  <2>3. /\ last.start \in Int /\ last.end \in Int /\ last.start < last.end
        /\ last.source \in {"internal", "external"}
    BY <2>2 DEF Lasting
  <2>4. last.start <= w.start
    BY <1>1, <2>2 DEF Covered
  <2> HIDE DEF last
  <2>5. both \in Lasting
    BY <1>2, <2>3 DEF Lasting
  <2>6. /\ both.start = last.start /\ both.end \in Int /\ last.end <= both.end /\ w.end <= both.end
        /\ (both.end = last.end \/ both.end = w.end)
        /\ both.source = "internal" <=> (w.source = "internal" \/ last.source = "internal")
    BY <1>2, <2>3
  <2> HIDE DEF both
  <2>7. /\ DOMAIN r = 1 .. n /\ r[n] = both /\ \A i \in 1 .. n : i # n => r[i] = m[i]
    BY <1>1, <2>2
  <2>8. r \in Seq(Lasting) /\ Len(r) = n
    <3>1. r \in [1 .. n -> Lasting]
      BY <1>1, <2>5
    <3> HIDE DEF r
    <3>2. QED
      BY <1>1, <3>1
  <2> HIDE DEF r, n
  <2>9. \A v \in ToSet(r) : v = both \/ v \in ToSet(m)
    BY <1>3, <2>7 DEF ToSet
  <2>10. both \in ToSet(r) /\ \A v \in ToSet(m) : v # last => v \in ToSet(r)
    BY <1>4, <2>2, <2>7 DEF ToSet, last
  <2>11. Covers(r, all)
    <3> SUFFICES ASSUME NEW x \in all
                 PROVE  \E v \in ToSet(r) : /\ v.start <= x.start /\ x.end <= v.end
                                            /\ x.source = "internal" => v.source = "internal"
      BY DEF Covers
    <3>1. CASE x = w
      BY <1>2, <2>3, <2>4, <2>6, <2>10, <3>1
    <3>2. CASE x \in ws
      <4>1. PICK v \in ToSet(m) : /\ v.start <= x.start /\ x.end <= v.end
                                  /\ x.source = "internal" => v.source = "internal"
        BY <1>1, <3>2 DEF Covers
      <4>2. CASE v = last
        <5>1. x.end \in Int
          BY <3>2 DEF Lasting
        <5>2. both.start <= x.start /\ x.end <= both.end
          BY <2>3, <2>6, <4>1, <4>2, <5>1
        <5>3. x.source = "internal" => both.source = "internal"
          BY <2>6, <4>1, <4>2
        <5>4. QED
          BY <2>10, <5>2, <5>3
      <4>3. CASE v # last
        BY <2>10, <4>1, <4>3
      <4>4. QED
        BY <4>2, <4>3
    <3>3. QED
      BY <3>1, <3>2
  <2>12. Covered(r, all)
    <3>1. ASSUME NEW v \in ToSet(m)
          PROVE  /\ \E x \in all : v.start = x.start
                 /\ \A u \in Int : v.start <= u /\ u < v.end => \E x \in all : x.start <= u /\ u < x.end
                 /\ v.source = "internal" =>
                      \E x \in all : x.source = "internal" /\ v.start <= x.start /\ x.end <= v.end
      BY <1>1, <3>1 DEF Covered
    <3>2. \E x \in all : both.start = x.start
      BY <2>2, <2>6, <3>1
    <3>3. ASSUME NEW u \in Int, both.start <= u, u < both.end
          PROVE  \E x \in all : x.start <= u /\ u < x.end
      <4>1. CASE u < last.end
        BY <2>2, <2>3, <2>6, <3>1, <3>3, <4>1
      <4>2. CASE last.end <= u
        <5>1. w.start <= u /\ u < w.end
          BY <1>2, <1>6, <2>3, <2>6, <3>3, <4>2 DEF last
        <5>2. QED
          BY <5>1
      <4>3. QED
        BY <2>3, <4>1, <4>2
    <3>4. ASSUME both.source = "internal"
          PROVE  \E x \in all : x.source = "internal" /\ both.start <= x.start /\ x.end <= both.end
      <4>1. CASE w.source = "internal"
        BY <2>4, <2>6, <4>1
      <4>2. CASE last.source = "internal"
        <5>1. PICK x \in ws : x.source = "internal" /\ last.start <= x.start /\ x.end <= last.end
          BY <1>1, <2>2, <4>2 DEF Covered
        <5>2. x \in all /\ x.end \in Int /\ x.end <= last.end /\ last.start <= x.start
          BY <5>1 DEF Lasting
        <5>3. both.start <= x.start /\ x.end <= both.end
          BY <2>3, <2>6, <5>2
        <5>4. QED
          BY <5>1, <5>2, <5>3
      <4>3. w.source = "internal" \/ last.source = "internal"
        BY <2>6, <3>4
      <4>4. QED
        BY <4>1, <4>2, <4>3
    <3> HIDE DEF all
    <3>5. QED
      BY <2>9, <3>1, <3>2, <3>3, <3>4 DEF Covered
  <2>13. Apart(r)
    <3> SUFFICES ASSUME NEW i \in 1 .. n - 1 PROVE r[i].end < r[i + 1].start
      BY <2>8 DEF Apart
    <3>1. i \in 1 .. n /\ i + 1 \in 1 .. n /\ i # n
      BY <1>1
    <3>2. m[i].end < m[i + 1].start
      BY <1>1 DEF Apart, n
    <3>3. r[i] = m[i] /\ r[i + 1].start = m[i + 1].start
      BY <2>6, <2>7, <3>1 DEF last
    <3>4. QED
      BY <3>2, <3>3
  <2>14. QED
    BY <2>1, <2>8, <2>11, <2>12, <2>13 DEF Merges
<1>7. CASE ~ (m # <<>> /\ w.start <= last.end)
  <2> DEFINE r == Append(m, w)
  <2>1. Absorb(m, w) = r
    BY <1>7 DEF Absorb
  <2>2. /\ r \in Seq(Lasting) /\ Len(r) = n + 1 /\ DOMAIN r = 1 .. n + 1
        /\ r[n + 1] = w /\ \A i \in 1 .. n : r[i] = m[i]
    BY <1>1, AppendProperties
  <2> HIDE DEF r
  <2>3. ToSet(r) = ToSet(m) \cup {w}
    <3>1. \A i \in 1 .. n + 1 : i \in 1 .. n \/ i = n + 1
      BY <1>1
    <3>2. \A i \in 1 .. n : i \in 1 .. n + 1
      BY <1>1
    <3>3. n + 1 \in 1 .. n + 1
      BY <1>1
    <3> HIDE DEF n
    <3>4. QED
      BY <1>1, <2>2, <3>1, <3>2, <3>3 DEF ToSet
  <2>4. Covers(r, all)
    BY <1>1, <1>2, <2>3 DEF Covers
  <2>5. Covered(r, all)
    <3>1. ASSUME NEW v \in ToSet(m)
          PROVE  /\ \E x \in all : v.start = x.start
                 /\ \A u \in Int : v.start <= u /\ u < v.end => \E x \in all : x.start <= u /\ u < x.end
                 /\ v.source = "internal" =>
                      \E x \in all : x.source = "internal" /\ v.start <= x.start /\ x.end <= v.end
      BY <1>1, <3>1 DEF Covered
    <3>2. w \in all /\ w.start <= w.start /\ w.end <= w.end
      BY <1>2
    <3> HIDE DEF all
    <3>3. QED
      BY <2>3, <3>1, <3>2 DEF Covered
  <2>6. Apart(r)
    <3> SUFFICES ASSUME NEW i \in 1 .. n PROVE r[i].end < r[i + 1].start
      BY <1>1, <2>2 DEF Apart
    <3>1. CASE i = n
      <4>1. last.end \in Int /\ last.end < w.start
        BY <1>1, <1>2, <1>5, <1>7, <3>1 DEF Lasting
      <4>2. QED
        BY <2>2, <3>1, <4>1
    <3>2. CASE i # n
      <4>0. n \in Nat
        BY <1>1
      <4> HIDE DEF n
      <4>1. i \in 1 .. n - 1 /\ i + 1 \in 1 .. n
        BY <3>2, <4>0
      <4>2. m[i].end < m[i + 1].start
        BY <1>1, <4>1 DEF Apart, n
      <4>3. r[i] = m[i] /\ r[i + 1] = m[i + 1]
        BY <2>2, <4>1
      <4>4. QED
        BY <4>2, <4>3
    <3>3. QED
      BY <3>1, <3>2
  <2>7. QED
    BY <2>1, <2>2, <2>4, <2>5, <2>6 DEF Merges
<1>8. QED
  BY <1>6, <1>7

\* Whatever is absorbed, the merged windows take time.
LEMMA AbsorbStays ==
  ASSUME NEW m \in Seq(Lasting), NEW w \in Lasting
  PROVE  Absorb(m, w) \in Seq(Lasting)
<1> DEFINE n == Len(m)
           last == m[n]
           both == [start |-> last.start,
                    end |-> IF w.end > last.end THEN w.end ELSE last.end,
                    source |-> IF "internal" \in {w.source, last.source} THEN "internal" ELSE last.source]
<1>1. n \in Nat /\ DOMAIN m = 1 .. n /\ \A i \in 1 .. n : m[i] \in Lasting
  BY ElementOfSeq, LenProperties
<1>2. CASE m # <<>> /\ w.start <= last.end
  <2>1. n \in 1 .. n
    BY <1>1, <1>2, EmptySeq
  <2>2. both \in Lasting
    BY <1>1, <2>1 DEF Lasting
  <2>3. Absorb(m, w) = [m EXCEPT ![n] = both]
    BY <1>2 DEF Absorb
  <2> HIDE DEF both, n, last
  <2>4. [m EXCEPT ![n] = both] \in [1 .. n -> Lasting]
    BY <1>1, <2>2
  <2> DEFINE r == [m EXCEPT ![n] = both]
  <2> HIDE DEF r
  <2>5. r \in [1 .. n -> Lasting]
    BY <2>4 DEF r
  <2>6. QED
    BY <1>1, <2>3, <2>5 DEF r
<1>3. CASE ~ (m # <<>> /\ w.start <= last.end)
  BY <1>3, AppendProperties DEF Absorb
<1>4. QED
  BY <1>2, <1>3

\* Sorted windows, absorbed from left to right.
LEMMA MergedInOrder ==
  ASSUME NEW sorted \in Seq(Lasting), Ascends(sorted)
  PROVE  Merges(FoldLeft(Absorb, <<>>, sorted), ToSet(sorted))
<1> DEFINE n == Len(sorted)
           V == Seq(Lasting)
           B(g) == [s \in SUBSET (1 .. n) |->
                      IF s = {} THEN <<>> ELSE Absorb(g[s \ {Max(s)}], sorted[Max(s)])]
           h == [p \in (1 .. n) \X V |-> Absorb(p[2], sorted[p[1]])]
           g == CHOOSE it : it = B(it)
<1>1. n \in Nat /\ DOMAIN sorted = 1 .. n /\ \A i \in 1 .. n : sorted[i] \in Lasting
  BY ElementOfSeq, LenProperties
<1>2. FoldLeft(Absorb, <<>>, sorted) = g[1 .. n]
  BY <1>1 DEF FoldLeft, MapThenFoldSet
<1>3. <<>> \in V
  BY EmptySeq
<1> HIDE DEF n, V
<1>4. ASSUME NEW v \in V, NEW i \in 1 .. n PROVE Absorb(v, sorted[i]) \in V
  BY <1>1, AbsorbStays DEF V
<1>5. h \in [(1 .. n) \X V -> V]
  BY <1>4
<1>6. \A p \in (1 .. n) \X V : h[p] = Absorb(p[2], sorted[p[1]])
  OBVIOUS
<1> HIDE DEF h
<1>7. PICK k \in [SUBSET (1 .. n) -> V] : FoldsLeft(n, <<>>, h, k)
  BY <1>1, <1>3, <1>5, FoldLeftExists
<1>8. ASSUME NEW s \in SUBSET (1 .. n), s # {}
      PROVE  k[s] = Absorb(k[s \ {Max(s)}], sorted[Max(s)])
  <2>1. Max(s) \in 1 .. n /\ k[s \ {Max(s)}] \in V
    BY <1>1, <1>7, <1>8, GreatestIndex
  <2>2. k[s] = h[<<Max(s), k[s \ {Max(s)}]>>]
    BY <1>7, <1>8 DEF FoldsLeft
  <2>3. QED
    BY <1>6, <2>1, <2>2
<1>9. k[{}] = <<>>
  BY <1>7 DEF FoldsLeft
<1>10. k = B(k)
  BY <1>7, <1>8, <1>9
<1>11. g = B(g)
  BY <1>10
<1> HIDE DEF g
<1> DEFINE Of(s) == {sorted[i] : i \in s}
           F == {s \in SUBSET (1 .. n) : Merges(g[s], Of(s))}
<1>12. ASSUME NEW s \in SUBSET (1 .. n), s = {} \/ (Max(s) \in s /\ s \ {Max(s)} \in F)
       PROVE  s \in F
  <2>1. CASE s = {}
    <3>1. g[s] = <<>> /\ Of(s) = {}
      BY <1>11, <2>1
    <3>2. <<>> \in Seq(Lasting) /\ Len(<<>>) = 0 /\ ToSet(<<>>) = {}
      BY EmptySeq DEF ToSet
    <3> HIDE DEF Of
    <3>3. Merges(<<>>, {})
      BY <3>2 DEF Merges, Covers, Covered, Apart
    <3>4. QED
      BY <3>1, <3>3
  <2>2. CASE s # {}
    <3> DEFINE c == Max(s)
               t == s \ {c}
    <3>0. \A i \in s : i <= c
      <4>1. s \in SUBSET (0 .. n)
        BY <1>1
      <4>2. QED
        BY <1>1, <2>2, <4>1, GreatestOf
    <3>1. c \in s /\ c \in 1 .. n /\ t \in SUBSET (1 .. n) /\ Merges(g[t], Of(t))
      BY <1>12, <2>2
    <3>2. g[s] = Absorb(g[t], sorted[c])
      BY <1>11, <2>2
    <3>3. s = t \cup {c}
      BY <3>1
    <3> HIDE DEF c, t
    <3>4. Of(s) = Of(t) \cup {sorted[c]}
      BY <3>3
    <3>5. Of(t) \in SUBSET Lasting /\ sorted[c] \in Lasting
      BY <1>1, <3>1
    <3>6. \A x \in Of(t) : x.start <= sorted[c].start
      BY <1>1, <3>0, <3>1, <3>3 DEF Ascends
    <3> DEFINE z == g[t]
               e == sorted[c]
               ws == Of(t)
    <3>7. ws \in SUBSET Lasting /\ e \in Lasting /\ Merges(z, ws) /\ \A x \in ws : x.start <= e.start
      BY <3>1, <3>5, <3>6
    <3>8. Of(s) = ws \cup {e} /\ g[s] = Absorb(z, e)
      BY <3>2, <3>4
    <3> HIDE DEF z, e, ws, Of
    <3>9. Merges(Absorb(z, e), ws \cup {e})
      BY <3>7, AbsorbMerges
    <3>10. QED
      BY <3>8, <3>9
  <2>3. QED
    BY <2>1, <2>2
<1>13. 1 .. n \in F
  <2> HIDE DEF F
  <2>1. QED
    BY <1>1, <1>12, FoldLeftInduction
<1>14. Of(1 .. n) = ToSet(sorted)
  BY <1>1 DEF ToSet
<1>15. QED
  BY <1>2, <1>13, <1>14

\* A list's windows with where they come from.
Both(holds, external) ==
  {Tagged(w, "internal") : w \in holds} \cup {Tagged(w, "external") : w \in external}
Real(holds, external) == {w \in Both(holds, external) : w.end > w.start}

\* There are finitely many windows within the horizon.
LEMMA RealIsFinite ==
  ASSUME NEW holds \in SUBSET Window, NEW external \in SUBSET Window
  PROVE  IsFiniteSet(Real(holds, external)) /\ Real(holds, external) \in SUBSET Lasting
<1> DEFINE T == 0 .. Horizon
           O == {"internal", "external"}
           D == (T \X T) \X O
           R == [start : T, end : T, source : O]
           f == [p \in D |-> [start |-> p[1][1], end |-> p[1][2], source |-> p[2]]]
<1>0. Horizon \in Nat
  BY CalendarAssumption
<1>1. IsFiniteSet(T)
  BY <1>0, FS_Interval
<1>2. IsFiniteSet(O)
  <2>1. IsFiniteSet({"internal"}) /\ IsFiniteSet({"external"})
    BY FS_Singleton
  <2>2. O = {"internal"} \cup {"external"}
    OBVIOUS
  <2>3. QED
    BY <2>1, <2>2, FS_Union
<1> HIDE DEF T, O
<1>3. IsFiniteSet(D)
  <2>1. IsFiniteSet(T \X T)
    BY <1>1, FS_Product
  <2>2. QED
    BY <1>2, <2>1, FS_Product
<1>4. f \in [D -> R]
  OBVIOUS
<1>5. ASSUME NEW r \in R PROVE \E p \in D : f[p] = r
  <2> DEFINE p == <<<<r.start, r.end>>, r.source>>
  <2>1. p \in D /\ r = [start |-> r.start, end |-> r.end, source |-> r.source]
    OBVIOUS
  <2>2. f[p] = r
    BY <2>1
  <2>3. QED
    BY <2>1, <2>2
<1>6. IsFiniteSet(R)
  <2> HIDE DEF D, R, f
  <2>1. f \in Surjection(D, R)
    BY <1>4, <1>5 DEF Surjection
  <2>2. QED
    BY <1>3, <2>1, FS_Surjection
<1>7. ASSUME NEW w \in Window, NEW o \in O
      PROVE  Tagged(w, o) \in R
  BY DEF Window, Tagged, T
<1>8. "internal" \in O /\ "external" \in O
  BY DEF O
<1>9. Both(holds, external) \in SUBSET R
  BY <1>7, <1>8 DEF Both
<1>10. Real(holds, external) \in SUBSET R
  BY <1>9 DEF Real
<1>11. IsFiniteSet(Real(holds, external))
  BY <1>6, <1>10, FS_Subset
<1>12. ASSUME NEW w \in R, w.end > w.start PROVE w \in Lasting
  <2>1. w.start \in Int /\ w.end \in Int
    BY <1>0 DEF T
  <2>2. QED
    BY <1>12, <2>1 DEF Lasting, O
<1>13. QED
  BY <1>10, <1>11, <1>12 DEF Real

\* The merge of any holds with any external windows.
LEMMA MergeIsRight ==
  ASSUME NEW holds \in SUBSET Window, NEW external \in SUBSET Window
  PROVE  LET merged == MergeBusy(holds, external)
             internal == {w \in ToSet(merged) : w.source = "internal"}
         IN /\ At(ToSet(merged)) = At(holds) \cup At(external)
            /\ \A i \in 1 .. Len(merged) - 1 : merged[i].end < merged[i + 1].start
            /\ At(holds) \subseteq At(internal)
            /\ \A w \in internal : At({w}) \cap At(holds) # {}
<1> DEFINE real == Real(holds, external)
           sorted == SortedBy({p \in real \X real : p[1].start <= p[2].start}, real)
           m == MergeBusy(holds, external)
           ms == ToSet(m)
           internal == {w \in ms : w.source = "internal"}
<1>1. m = FoldLeft(Absorb, <<>>, sorted)
  BY DEF MergeBusy, Both, Real
<1>2. IsFiniteSet(real) /\ real \in SUBSET Lasting
  BY RealIsFinite
<1> HIDE DEF real, m
<1>3. sorted \in Seq(Lasting) /\ Ascends(sorted) /\ ToSet(sorted) = real
  BY <1>2, SortedByStart
<1> HIDE DEF sorted
<1>4. Merges(m, real)
  BY <1>1, <1>3, MergedInOrder
<1>5. Covers(m, real) /\ Covered(m, real) /\ Apart(m)
  BY <1>4 DEF Merges
<1>6. Horizon \in Nat
  BY CalendarAssumption
<1>7. \A w \in holds \cup external : w.start \in 0 .. Horizon /\ w.end \in 0 .. Horizon
  BY DEF Window
<1>8. ASSUME NEW w \in holds, w.start < w.end
      PROVE  \E x \in real : x.start = w.start /\ x.end = w.end /\ x.source = "internal"
  <2> DEFINE x == Tagged(w, "internal")
  <2>1. x.start = w.start /\ x.end = w.end /\ x.source = "internal"
    BY DEF Tagged
  <2>2. x \in real
    BY <1>7, <1>8, <2>1 DEF real, Real, Both
  <2>3. QED
    BY <2>1, <2>2
<1>9. ASSUME NEW w \in external, w.start < w.end
      PROVE  \E x \in real : x.start = w.start /\ x.end = w.end
  <2> DEFINE x == Tagged(w, "external")
  <2>1. x.start = w.start /\ x.end = w.end
    BY DEF Tagged
  <2>2. x \in real
    BY <1>7, <1>9, <2>1 DEF real, Real, Both
  <2>3. QED
    BY <2>1, <2>2
<1>10. ASSUME NEW x \in real
       PROVE  /\ x.start < x.end
              /\ \E w \in holds \cup external : x.start = w.start /\ x.end = w.end
              /\ x.source = "internal" => \E w \in holds : x.start = w.start /\ x.end = w.end
  <2>1. x.start < x.end
    BY <1>2 DEF Lasting
  <2>2. x \in Both(holds, external)
    BY DEF real, Real
  <2>3. CASE \E w \in holds : x = Tagged(w, "internal")
    BY <2>1, <2>3 DEF Tagged
  <2>4. CASE \E w \in external : x = Tagged(w, "external")
    BY <2>1, <2>4 DEF Tagged
  <2>5. QED
    BY <2>2, <2>3, <2>4 DEF Both
<1>11. \A v \in ms : v.start \in Int /\ v.end \in Int
  <2>1. m \in Seq(Lasting)
    BY <1>4 DEF Merges
  <2>2. \A v \in ms : v \in Lasting
    BY <2>1, ElementOfSeq DEF ToSet
  <2>3. QED
    BY <2>2 DEF Lasting
<1>12. \A x \in real : x.start \in Int /\ x.end \in Int
  BY <1>2 DEF Lasting
<1> HIDE DEF ms
<1>13. ASSUME NEW u \in At(ms) PROVE u \in At(holds) \cup At(external)
  <2>1. u \in 0 .. Horizon - 1 /\ \E v \in ms : v.start <= u /\ u < v.end
    BY DEF At
  <2>2. PICK x \in real : x.start <= u /\ u < x.end
    BY <1>5, <2>1 DEF Covered, ms
  <2>3. PICK w \in holds \cup external : x.start = w.start /\ x.end = w.end
    BY <1>10
  <2>4. QED
    BY <2>1, <2>2, <2>3 DEF At
<1>14. ASSUME NEW u \in 0 .. Horizon - 1, NEW x \in real, x.start <= u, u < x.end
       PROVE  \E v \in ms : v.start <= u /\ u < v.end /\ (x.source = "internal" => v.source = "internal")
  <2>1. PICK v \in ms : v.start <= x.start /\ x.end <= v.end /\ (x.source = "internal" => v.source = "internal")
    BY <1>5 DEF Covers, ms
  <2>2. v.start <= u /\ u < v.end
    BY <1>6, <1>11, <1>12, <1>14, <2>1
  <2>3. QED
    BY <2>1, <2>2
<1>15. ASSUME NEW u \in At(holds) PROVE u \in At(ms) /\ u \in At(internal)
  <2>1. u \in 0 .. Horizon - 1
    BY DEF At
  <2>2. PICK w \in holds : w.start <= u /\ u < w.end
    BY DEF At
  <2>3. w.start < w.end
    BY <1>6, <1>7, <2>1, <2>2
  <2>4. PICK x \in real : x.start = w.start /\ x.end = w.end /\ x.source = "internal"
    BY <1>8, <2>3
  <2>5. PICK v \in ms : v.start <= u /\ u < v.end /\ v.source = "internal"
    BY <1>14, <2>1, <2>2, <2>4
  <2>6. QED
    BY <2>1, <2>5 DEF At
<1>16. ASSUME NEW u \in At(external) PROVE u \in At(ms)
  <2>1. u \in 0 .. Horizon - 1
    BY DEF At
  <2>2. PICK w \in external : w.start <= u /\ u < w.end
    BY DEF At
  <2>3. w.start < w.end
    BY <1>6, <1>7, <2>1, <2>2
  <2>4. PICK x \in real : x.start = w.start /\ x.end = w.end
    BY <1>9, <2>3
  <2>5. PICK v \in ms : v.start <= u /\ u < v.end
    BY <1>14, <2>1, <2>2, <2>4
  <2>6. QED
    BY <2>1, <2>5 DEF At
<1>17. ASSUME NEW v \in internal PROVE At({v}) \cap At(holds) # {}
  <2>1. PICK x \in real : x.source = "internal" /\ v.start <= x.start /\ x.end <= v.end
    BY <1>5 DEF Covered, ms
  <2>2. PICK w \in holds : x.start = w.start /\ x.end = w.end
    BY <1>10, <2>1
  <2>3. w.start < w.end /\ w.start \in 0 .. Horizon - 1 /\ v.start \in Int /\ v.end \in Int
    BY <1>6, <1>7, <1>10, <1>11, <2>2
  <2>4. w.start \in At(holds)
    BY <1>7, <2>3 DEF At
  <2>5. v.start <= w.start /\ w.start < v.end
    BY <2>1, <2>2, <2>3, <1>7
  <2>6. w.start \in At({v})
    BY <2>3, <2>5 DEF At
  <2>7. QED
    BY <2>4, <2>6
<1>18. At(ms) = At(holds) \cup At(external)
  BY <1>13, <1>15, <1>16
<1>19. At(holds) \subseteq At(internal)
  BY <1>15
<1>20. QED
  BY <1>5, <1>17, <1>18, <1>19 DEF Apart, m, ms

\* The adapter's events lie in the horizon.
EventWindow == [tenant : CalendarTenants, start : 0 .. Horizon, end : 0 .. Horizon]
CalendarTypes == events \in Seq(EventWindow \cup {NoEvent})

\* Of an event that is written, moved or deleted.
LEMMA CalendarTyped == CalendarSpec => []CalendarTypes
<1>1. CalendarInit => CalendarTypes
  BY EmptySeq DEF CalendarInit, CalendarTypes
<1>2. CalendarTypes /\ [CalendarNext]_calendar => CalendarTypes'
  <2> SUFFICES ASSUME CalendarTypes, [CalendarNext]_calendar PROVE CalendarTypes'
    OBVIOUS
  <2> DEFINE E == EventWindow \cup {NoEvent}
  <2>0. events \in Seq(E) /\ Len(events) \in Nat /\ DOMAIN events = 1 .. Len(events)
    BY LenProperties DEF CalendarTypes
  <2>1. CASE UNCHANGED calendar
    BY <2>0, <2>1 DEF CalendarTypes, calendar
  <2>2. ASSUME NEW t \in CalendarTenants, NEW w \in Window, CreateEvent(t, w) PROVE CalendarTypes'
    <3>1. [tenant |-> t, start |-> w.start, end |-> w.end] \in E
      BY DEF Window, EventWindow
    <3>2. events' = Append(events, [tenant |-> t, start |-> w.start, end |-> w.end])
      BY <2>2 DEF CreateEvent
    <3> HIDE DEF E
    <3>3. events' \in Seq(E)
      BY <2>0, <3>1, <3>2, AppendProperties
    <3>4. QED
      BY <3>3 DEF CalendarTypes, E
  <2>3. ASSUME NEW e \in DOMAIN events, NEW x \in E, events' = [events EXCEPT ![e] = x] PROVE CalendarTypes'
    <3> HIDE DEF E
    <3>1. events' \in [1 .. Len(events) -> E]
      BY <2>0, <2>3, ElementOfSeq
    <3>2. events' \in Seq(E)
      BY <2>0, <3>1
    <3>3. QED
      BY <3>2 DEF CalendarTypes, E
  <2>4. ASSUME NEW t \in CalendarTenants, NEW e \in DOMAIN events, DeleteEvent(t, e) PROVE CalendarTypes'
    BY <2>3, <2>4 DEF DeleteEvent
  <2>5. ASSUME NEW t \in CalendarTenants, NEW e \in DOMAIN events, NEW w \in Window, UpdateEvent(t, e, w)
        PROVE  CalendarTypes'
    <3>1. events[e] \in EventWindow
      BY <2>0, <2>5, ElementOfSeq DEF UpdateEvent, OwnEvent
    <3> DEFINE x == [events[e] EXCEPT !.start = w.start, !.end = w.end]
    <3>2. x \in EventWindow
      BY <3>1 DEF EventWindow, Window
    <3>3. events' = [events EXCEPT ![e] = x]
      BY <2>5 DEF UpdateEvent
    <3> HIDE DEF x
    <3>4. QED
      BY <2>3, <3>2, <3>3
  <2>6. QED
    BY <2>1, <2>2, <2>4, <2>5 DEF CalendarNext
<1>3. QED
  BY <1>1, <1>2, PTL DEF CalendarSpec

\* Whatever events are written, moved and deleted, and for every calendar, holds and
\* horizon: calendar.ts's merged windows are busy exactly when a hold or the calendar is,
\* stand apart, show the platform's own time as internal, and a busy answer has no time of
\* another tenant's event.
THEOREM BusyMerges == CalendarSpec => []BusyIsMerged
<1>1. ASSUME CalendarTypes PROVE BusyIsMerged
  <2> SUFFICES ASSUME NEW t \in CalendarTenants
               PROVE  LET range == [start |-> 0, end |-> Horizon]
                          external == ReadBusyEvents(t, range)
                          merged == MergeBusy(Holds, external)
                          internal == {w \in ToSet(merged) : w.source = "internal"}
                      IN /\ At(ToSet(merged)) = At(Holds) \cup At(external)
                         /\ \A i \in 1 .. Len(merged) - 1 : merged[i].end < merged[i + 1].start
                         /\ At(Holds) \subseteq At(internal)
                         /\ \A w \in internal : At({w}) \cap At(Holds) # {}
                         /\ At(external) \subseteq At(ReadBusyQuery(t, range)) \cup At(EventsOf(t))
    BY DEF BusyIsMerged
  <2> DEFINE range == [start |-> 0, end |-> Horizon]
             mine == {[start |-> e.start, end |-> e.end] : e \in EventsOf(t)}
             external == ReadBusyEvents(t, range)
  <2>1. ASSUME NEW e \in EventsOf(t) PROVE e \in EventWindow
    <3>1. e \in ToSet(events) /\ e # NoEvent
      BY DEF EventsOf
    <3>2. e \in EventWindow \cup {NoEvent}
      BY <1>1, <3>1, ElementOfSeq DEF CalendarTypes, ToSet
    <3>3. QED
      BY <3>1, <3>2
  <2>2. mine \in SUBSET Window
    BY <2>1 DEF EventWindow, Window
  <2>3. external = {w \in Seed \cup mine : Overlaps(w, range)}
    BY DEF ReadBusyEvents, InRange
  <2>4. external \in SUBSET Window /\ Holds \in SUBSET Window
    BY <2>2, <2>3, CalendarAssumption
  <2>5. ASSUME NEW u \in At(external) PROVE u \in At(ReadBusyQuery(t, range)) \cup At(EventsOf(t))
    <3>1. u \in 0 .. Horizon - 1
      BY DEF At
    <3>2. PICK w \in external : w.start <= u /\ u < w.end
      BY DEF At
    <3>3. CASE w \in Seed
      <4>1. w \in ReadBusyQuery(t, range)
        BY <2>3, <3>2, <3>3 DEF ReadBusyQuery, InRange
      <4>2. QED
        BY <3>1, <3>2, <4>1 DEF At
    <3>4. CASE w \in mine
      <4>1. PICK e \in EventsOf(t) : w.start = e.start /\ w.end = e.end
        BY <3>4
      <4>2. QED
        BY <3>1, <3>2, <4>1 DEF At
    <3>5. QED
      BY <2>3, <3>2, <3>3, <3>4
  <2> HIDE DEF external, range
  <2>6. QED
    BY <2>4, <2>5, MergeIsRight DEF external, range
<1>2. QED
  BY <1>1, CalendarTyped, PTL

-----------------------------------------------------------------------------
(* Media: keys, variants and cards.                                        *)

\* An image whose narrowest variant is at least half a pixel high.
NotFlat ==
  \A w, h \in Sides : \A p \in DOMAIN Breakpoints : w <= 2 * ClampWidth(Breakpoints[p], w) * h

\* Rounding down.
LEMMA Quotient ==
  ASSUME NEW n \in Int, NEW d \in Nat \ {0}
  PROVE  n \div d \in Int /\ (n \div d) * d <= n /\ n < (n \div d) * d + d
  OBVIOUS

\* The arithmetic of a scaled height.
LEMMA HeightIsNear ==
  ASSUME NEW width \in Nat \ {0}, NEW height \in Nat \ {0}, NEW w \in Nat \ {0}, w <= width
  PROVE  LET s == ScaledHeight(w, width, height)
         IN  /\ s \in 0 .. height
             /\ width <= 2 * w * height => s >= 1
             /\ 2 * Gap(s * width, w * height) <= width
<1> DEFINE s == ScaledHeight(w, width, height)
           n == 2 * w * height + width
           d == 2 * width
<1>1. n \in Int /\ d \in Nat \ {0} /\ s = n \div d
  BY DEF ScaledHeight
<1>2. s \in Int /\ s * d <= n /\ n < s * d + d
  <2> HIDE DEF n, d, s
  <2>1. QED
    BY <1>1, Quotient
<1> HIDE DEF s
<1> DEFINE a == s * width
           b == w * height
<1>3. a \in Int /\ b \in Int /\ s * d = 2 * a /\ n = 2 * b + width /\ d = 2 * width
  BY <1>2
<1> HIDE DEF n, d
<1>4. 2 * a <= 2 * b + width /\ 2 * b + width < 2 * a + 2 * width
  BY <1>2, <1>3
<1>5. b <= height * width /\ b >= 1
  OBVIOUS
<1>6. s <= height
  <2> SUFFICES ASSUME s >= height + 1 PROVE FALSE
    BY <1>2
  <2>1. s * width >= (height + 1) * width
    BY <1>2
  <2>2. (height + 1) * width = height * width + width
    OBVIOUS
  <2>3. a >= height * width + width
    BY <2>1, <2>2
  <2> DEFINE c == height * width
  <2>4. c \in Int /\ a >= c + width /\ b <= c
    BY <1>5, <2>3
  <2> HIDE DEF a, b, c
  <2>5. QED
    BY <1>3, <1>4, <2>4
<1>7. s >= 0
  <2> SUFFICES ASSUME s <= -1 PROVE FALSE
    BY <1>2
  <2>1. a <= - width
    BY <1>2
  <2> HIDE DEF a, b
  <2>2. QED
    BY <1>3, <1>4, <1>5, <2>1
<1>8. ASSUME width <= 2 * w * height PROVE s >= 1
  <2> SUFFICES ASSUME s = 0 PROVE FALSE
    BY <1>2, <1>7
  <2>1. a = 0 /\ width <= 2 * b
    BY <1>8
  <2> HIDE DEF a, b
  <2>2. QED
    BY <1>3, <1>4, <2>1
<1>9. 2 * Gap(a, b) <= width
  <2> HIDE DEF a, b
  <2>1. QED
    BY <1>3, <1>4 DEF Gap
<1>10. QED
  BY <1>2, <1>6, <1>7, <1>8, <1>9 DEF s

\* The variants of one image.
LEMMA PlanIsRight ==
  ASSUME NEW size \in Sides \X Sides, NotFlat
  PROVE  LET plan == PlanVariants(size)
         IN /\ Len(plan) = Cardinality(DOMAIN Breakpoints)
            /\ \A i \in DOMAIN plan :
                 /\ plan[i].width <= size[1] /\ plan[i].height \in 1 .. size[2]
                 /\ 2 * Gap(plan[i].height * size[1], plan[i].width * size[2]) <= size[1]
                 /\ \A j \in DOMAIN plan : i < j => plan[i].width <= plan[j].width
<1> DEFINE P == DOMAIN Breakpoints
           variants == {Variant(p, size) : p \in P}
           Ascending(v, w) ==
             \/ v.width < w.width
             \/ v.width = w.width /\ Breakpoints[v.purpose] <= Breakpoints[w.purpose]
           R == {p \in variants \X variants : Ascending(p[1], p[2])}
           plan == SortedBy(R, variants)
<1>1. PlanVariants(size) = plan
  BY DEF PlanVariants
<1>2. size[1] \in Nat \ {0} /\ size[2] \in Nat \ {0} /\ size[1] \in Sides /\ size[2] \in Sides
  BY MediaAssumption
<1>3. ASSUME NEW p \in P
      PROVE  LET v == Variant(p, size)
             IN  /\ v.purpose = p /\ v.width \in Nat \ {0} /\ v.width <= size[1] /\ v.height \in 1 .. size[2]
                 /\ 2 * Gap(v.height * size[1], v.width * size[2]) <= size[1]
  <2> DEFINE w == ClampWidth(Breakpoints[p], size[1])
             s == ScaledHeight(w, size[1], size[2])
  <2>1. w \in Nat \ {0} /\ w <= size[1]
    BY <1>2, MediaAssumption DEF ClampWidth
  <2>2. size[1] <= 2 * w * size[2]
    BY <1>2 DEF NotFlat
  <2>3. Variant(p, size) = [purpose |-> p, width |-> w, height |-> s]
    BY DEF Variant
  <2> HIDE DEF w
  <2>4. s \in 0 .. size[2] /\ s >= 1 /\ 2 * Gap(s * size[1], w * size[2]) <= size[1]
    BY <1>2, <2>1, <2>2, HeightIsNear
  <2> HIDE DEF s
  <2>5. s \in 1 .. size[2]
    BY <1>2, <2>4
  <2>6. QED
    BY <2>1, <2>3, <2>4, <2>5
<1>4. \A v \in variants : /\ v.purpose \in P /\ v = Variant(v.purpose, size) /\ v.width \in Nat
                          /\ Breakpoints[v.purpose] \in Nat
  BY <1>3, MediaAssumption
<1>5. \A x, y \in variants : <<x, y>> \in R <=> Ascending(x, y)
  OBVIOUS
<1>6. IsFiniteSet(variants) /\ Cardinality(variants) = Cardinality(P)
  <2> DEFINE f == [p \in P |-> Variant(p, size)]
  <2>1. f \in [P -> variants] /\ \A p \in P : f[p] = Variant(p, size)
    OBVIOUS
  <2>2. \A p, q \in P : f[p] = f[q] => p = q
    BY <1>3, <2>1
  <2>3. \A v \in variants : \E p \in P : f[p] = v
    BY <2>1
  <2>4. IsFiniteSet(P)
    BY MediaAssumption
  <2> HIDE DEF f, variants, P
  <2>5. f \in Surjection(P, variants) /\ f \in Injection(P, variants)
    BY <2>1, <2>2, <2>3 DEF Surjection, Injection, IsInjective
  <2>6. QED
    BY <2>4, <2>5, FS_Surjection
<1> HIDE DEF R
<1>7. Orders(R, variants)
  <2> SUFFICES /\ \A x, y \in variants : Ascending(x, y) \/ Ascending(y, x)
               /\ \A x, y, z \in variants : Ascending(x, y) /\ Ascending(y, z) => Ascending(x, z)
    BY <1>5 DEF Orders
  <2> HIDE DEF variants
  <2>1. QED
    BY <1>4
<1> HIDE DEF variants, Ascending
<1>8. /\ plan \in Seq(variants) /\ InOrder(R, plan) /\ ToSet(plan) = variants
      /\ Len(plan) = Cardinality(variants)
  BY <1>6, <1>7, SortedIsInOrder
<1> HIDE DEF plan
<1>9. DOMAIN plan = 1 .. Len(plan) /\ Len(plan) \in Nat /\ \A i \in DOMAIN plan : plan[i] \in variants
  BY <1>8, ElementOfSeq, LenProperties
<1>10. ASSUME NEW i \in DOMAIN plan
       PROVE  /\ plan[i].width <= size[1] /\ plan[i].height \in 1 .. size[2]
              /\ 2 * Gap(plan[i].height * size[1], plan[i].width * size[2]) <= size[1]
  BY <1>3, <1>4, <1>9
<1>11. ASSUME NEW i \in DOMAIN plan, NEW j \in DOMAIN plan, i < j PROVE plan[i].width <= plan[j].width
  <2>1. i <= j
    BY <1>9, <1>11
  <2>2. Ascending(plan[i], plan[j]) /\ plan[i].width \in Nat /\ plan[j].width \in Nat
    BY <1>4, <1>5, <1>8, <1>9, <2>1 DEF InOrder
  <2>3. QED
    BY <2>2 DEF Ascending
<1>12. QED
  BY <1>1, <1>6, <1>8, <1>10, <1>11

-----------------------------------------------------------------------------
\* What every reachable state of the store and its rows has.
MediaInv ==
  /\ OwnMediaOnly
  /\ DOMAIN stored = ObjectKeys
  /\ DOMAIN assets \subseteq AssetNames
  /\ \A a \in DOMAIN assets : assets[a] \in Sides \X Sides
  /\ attachments \in Seq(Media)

\* It holds at the start.
LEMMA MediaStarts == MediaInit => MediaInv
BY EmptySeq DEF MediaInit, MediaInv, OwnMediaOnly

\* Every operation keeps it.
LEMMA MediaKeeps == MediaInv /\ [MediaNext]_mediating => MediaInv'
<1> SUFFICES ASSUME MediaInv, [MediaNext]_mediating PROVE MediaInv'
  OBVIOUS
<1> USE DEF MediaInv, OwnMediaOnly
<1>1. CASE UNCHANGED mediating
  BY <1>1 DEF mediating
<1>2. ASSUME NEW t \in MediaTenants, NEW key \in ObjectKeys, PutObject(t, key) PROVE MediaInv'
  BY <1>2 DEF PutObject, AssertTenantKey, IsTenantKey
<1>3. ASSUME NEW t \in MediaTenants, NEW key \in ObjectKeys, GetObject(t, key) PROVE MediaInv'
  BY <1>3 DEF GetObject, AssertTenantKey, IsTenantKey
<1>4. ASSUME NEW t \in MediaTenants, NEW key \in ObjectKeys, DeleteObject(t, key) PROVE MediaInv'
  BY <1>4 DEF DeleteObject
<1>5. ASSUME NEW a \in AssetNames, NEW w \in Sides, NEW h \in Sides, AddAsset(a, w, h) PROVE MediaInv'
  BY <1>5 DEF AddAsset
<1>6. ASSUME NEW a \in AssetNames, DropAsset(a) PROVE MediaInv'
  BY <1>6 DEF DropAsset
<1>7. ASSUME NEW m \in Media, Attach(m) PROVE MediaInv'
  <2>1. attachments' \in Seq(Media)
    BY <1>7, AppendProperties DEF Attach
  <2>2. QED
    BY <1>7, <2>1 DEF Attach
<1>8. QED
  BY <1>1, <1>2, <1>3, <1>4, <1>5, <1>6, <1>7 DEF MediaNext

\* The rows in the order they are shown in.
LEMMA GalleryIsOrdered ==
  ASSUME MediaInv
  PROVE  OrderGallery \in Seq(DOMAIN attachments) /\ ToSet(OrderGallery) = DOMAIN attachments
<1> DEFINE rows == DOMAIN attachments
           Earlier(i, j) ==
             \/ attachments[i].order < attachments[j].order
             \/ attachments[i].order = attachments[j].order /\ i <= j
           R == {p \in rows \X rows : Earlier(p[1], p[2])}
<1>1. rows = 1 .. Len(attachments) /\ Len(attachments) \in Nat
  BY LenProperties DEF MediaInv
<1>2. \A i \in rows : attachments[i].order \in Int /\ i \in Int
  <2>1. \A i \in rows : attachments[i] \in Media
    BY <1>1, ElementOfSeq DEF MediaInv
  <2>2. QED
    BY <1>1, <2>1 DEF Media
<1>3. IsFiniteSet(rows)
  BY <1>1, FS_Interval
<1>4. \A x, y \in rows : <<x, y>> \in R <=> Earlier(x, y)
  OBVIOUS
<1>5. OrderGallery = SortedBy(R, rows)
  BY DEF OrderGallery
<1> HIDE DEF R, rows
<1>6. Orders(R, rows)
  <2> SUFFICES /\ \A x, y \in rows : Earlier(x, y) \/ Earlier(y, x)
               /\ \A x, y, z \in rows : Earlier(x, y) /\ Earlier(y, z) => Earlier(x, z)
    BY <1>4 DEF Orders
  <2>1. QED
    BY <1>2
<1>7. QED
  BY <1>3, <1>5, <1>6, SortedIsInOrder DEF rows

\* What a card shows.
LEMMA CardsAreWhole ==
  ASSUME MediaInv
  PROVE  CardIsWhole
<1> DEFINE rows == DOMAIN attachments
           kept == {i \in rows : attachments[i].asset \in DOMAIN assets}
           covers == OfRole("cover")
           shown == OfRole("gallery")
           found == Filtered(shown, kept)
           first == covers \o shown
<1>1. OrderGallery \in Seq(rows) /\ ToSet(OrderGallery) = rows
  BY GalleryIsOrdered
<1>2. covers \in Seq(rows) /\ shown \in Seq(rows)
  BY <1>1, FilteredElements DEF OfRole
<1> HIDE DEF covers, shown
<1>3. found \in Seq(rows) /\ ToSet(found) = ToSet(shown) \cap kept
  BY <1>2, FilteredElements
<1>4. Gallery = [i \in DOMAIN found |-> attachments[found[i]].asset]
  BY DEF Gallery, shown
<1>5. CoverImage = IF first = <<>> \/ attachments[Head(first)].asset \notin DOMAIN assets
                     THEN Absent ELSE attachments[Head(first)].asset
  BY DEF CoverImage, covers, shown
<1> HIDE DEF found
<1>6. DOMAIN found = 1 .. Len(found) /\ Len(found) \in Nat /\ \A i \in DOMAIN found : found[i] \in kept
  <2>1. DOMAIN found = 1 .. Len(found) /\ Len(found) \in Nat
    BY <1>3, LenProperties
  <2>2. \A i \in DOMAIN found : found[i] \in ToSet(found)
    BY DEF ToSet
  <2>3. QED
    BY <1>3, <2>1, <2>2
<1>7. Range(Gallery) \subseteq DOMAIN assets
  BY <1>4, <1>6 DEF Range
<1>8. CoverImage \in {Absent} \cup DOMAIN assets
  BY <1>5
<1>9. ASSUME Gallery # <<>>, CoverImage = Absent
      PROVE  \E i \in rows : attachments[i].asset \notin DOMAIN assets
  <2>1. shown # <<>>
    <3> SUFFICES ASSUME shown = <<>> PROVE FALSE
      OBVIOUS
    <3>1. ToSet(shown) = {}
      BY DEF ToSet
    <3>2. DOMAIN found = {}
      BY <1>3, <1>6, <3>1 DEF ToSet
    <3>3. Len(found) = 0
      BY <1>6, <3>2
    <3>4. found = <<>>
      BY <1>3, <3>3, EmptySeq
    <3>5. Gallery = <<>>
      BY <1>4, <3>2
    <3>6. QED
      BY <1>9, <3>5
  <2>2. first \in Seq(rows) /\ first # <<>>
    BY <1>2, <2>1, ConcatProperties, EmptySeq
  <2> HIDE DEF first
  <2>3. Head(first) \in rows
    BY <2>2, HeadTailProperties
  <2>4. Absent \notin DOMAIN assets
    BY MediaAssumption DEF MediaInv
  <2>5. attachments[Head(first)].asset \notin DOMAIN assets
    BY <1>5, <1>9, <2>2, <2>4
  <2>6. QED
    BY <2>3, <2>5
<1>10. QED
  BY <1>7, <1>8, <1>9 DEF CardIsWhole

\* Whatever is stored, planned, attached and dropped, for any tenants, assets, breakpoints
\* and sizes: storage.ts gives a tenant only what she wrote, and gallery.ts shows nothing
\* that was dropped; and when no image is so flat that a height rounds to 0, variants.ts
\* plans only variants of at least a pixel, at the original's ratio to half a pixel.
THEOREM MediaSound == MediaSpec => [](OwnMediaOnly /\ CardIsWhole /\ (NotFlat => MediaIsSound))
<1>1. ASSUME MediaInv PROVE OwnMediaOnly /\ CardIsWhole /\ (NotFlat => MediaIsSound)
  <2>1. ASSUME NotFlat PROVE PlanServes
    <3>1. \A a \in DOMAIN assets : assets[a] \in Sides \X Sides
      BY <1>1 DEF MediaInv
    <3>2. QED
      BY <2>1, <3>1, PlanIsRight DEF PlanServes
  <2>2. QED
    BY <1>1, <2>1, CardsAreWhole DEF MediaInv, MediaIsSound
<1>2. QED
  BY <1>1, MediaStarts, MediaKeeps, PTL DEF MediaSpec
=============================================================================
