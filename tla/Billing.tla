------------------------------ MODULE Billing ------------------------------
(***************************************************************************)
(* A tenant's subscription to the platform (packages/billing): the         *)
(* status machine of subscription.ts, driven by the operations of the      *)
(* in-memory provider (provider.ts) and by the normalized events of a real *)
(* one, which may arrive late, twice or in any order.  Time is counted in  *)
(* billing periods: a period, and a trial, is one unit long.               *)
(***************************************************************************)
EXTENDS Integers, Sequences, FiniteSets

CONSTANTS
  Subscriptions,   \* the identifiers the provider hands out
  Plans,           \* the keys of the catalog's plans
  Addons,          \* the keys of the catalog's add-ons
  AddonsOf,        \* the add-ons each plan permits (Plan.addonKeys)
  TrialPlans,      \* the plans with trialDays > 0
  MaxPeriod,       \* bound: the last period an event may carry
  MaxInvoices,     \* bound: invoices of one subscription
  MaxUsage         \* bound: usage records of one subscription

\* makePlanCatalog refuses a plan with an add-on the catalog does not have.
SoundCatalog == TrialPlans \subseteq Plans /\ AddonsOf \in [Plans -> SUBSET Addons]

ASSUME BillingAssumption ==
  SoundCatalog /\ MaxPeriod \in Nat /\ MaxInvoices \in Nat /\ MaxUsage \in Nat

VARIABLES
  subs,        \* the provider's records, NoSubscription before createSubscription
  invoices,    \* the documents of each subscription, oldest first
  usage        \* the number of usage records of each

billing == <<subs, invoices, usage>>

\* SUBSCRIPTION_TRANSITIONS
SubscriptionMoves ==
  [incomplete |-> {"trialing", "active", "canceled"},
   trialing   |-> {"active", "past_due", "canceled"},
   active     |-> {"past_due", "canceled"},
   past_due   |-> {"active", "canceled"},
   canceled   |-> {}]
SubscriptionStatus == DOMAIN SubscriptionMoves

\* trial: trialEnd is defined; ending: cancelAtPeriodEnd.
Subscription ==
  [plan : Plans, status : SubscriptionStatus, from : Nat, to : Nat,
   trial : BOOLEAN, ending : BOOLEAN, addons : SUBSET Addons]
NoSubscription == [status |-> "none"]
Invoice == [status : {"paid", "open"}, plan : Plans, from : Nat]

Existing == {s \in Subscriptions : subs[s] # NoSubscription}
MayBecome(s, status) == status \in SubscriptionMoves[subs[s].status]

BillingInit ==
  /\ subs = [s \in Subscriptions |-> NoSubscription]
  /\ invoices = [s \in Subscriptions |-> <<>>]
  /\ usage = [s \in Subscriptions |-> 0]

\* The record of s changes and nothing else.
Put(s, sub) == subs' = [subs EXCEPT ![s] = sub] /\ UNCHANGED usage
PutOnly(s, sub) == Put(s, sub) /\ UNCHANGED invoices
AddInvoice(s, sub, status) ==
  /\ Len(invoices[s]) < MaxInvoices
  /\ invoices' = [invoices EXCEPT ![s] =
       Append(@, [status |-> status, plan |-> sub.plan, from |-> sub.from])]

CreateSubscription(s, p, addons, start) ==
  /\ s \notin Existing
  /\ addons \subseteq AddonsOf[p]           \* else INVALID_ADDON, nothing kept
  /\ LET trialing == p \in TrialPlans
         sub == [plan |-> p, status |-> IF trialing THEN "trialing" ELSE "active",
                 from |-> start, to |-> start + 1, trial |-> trialing,
                 ending |-> FALSE, addons |-> addons]
     IN Put(s, sub) /\ AddInvoice(s, sub, IF trialing THEN "open" ELSE "paid")

\* As if a plan change came through whatever the status.
Mutant_ChangeAnyPlan(s, p) ==
  PutOnly(s, [subs[s] EXCEPT !.plan = p, !.addons = @ \cap AddonsOf[p]])

\* The add-ons the new plan does not permit are pruned; the status stays.
ChangePlan(s, p) ==
  /\ subs[s].status # "canceled"
  /\ PutOnly(s, [subs[s] EXCEPT !.plan = p, !.addons = @ \cap AddonsOf[p]])

CancelAtPeriodEnd(s) ==
  /\ subs[s].status # "canceled"
  /\ PutOnly(s, [subs[s] EXCEPT !.ending = TRUE])

CancelImmediately(s, at) ==
  /\ MayBecome(s, "canceled")
  /\ PutOnly(s, [subs[s] EXCEPT !.status = "canceled", !.ending = TRUE, !.to = at])

\* A past due subscription recovers and keeps a cancellation it has scheduled;
\* any other that is not canceled drops the cancellation.
Reactivate(s) ==
  \/ /\ subs[s].status = "past_due"
     /\ PutOnly(s, [subs[s] EXCEPT !.status = "active"])
  \/ /\ subs[s].status \notin {"past_due", "canceled"}
     /\ PutOnly(s, [subs[s] EXCEPT !.ending = FALSE])

Become(s, status) ==
  MayBecome(s, status) /\ PutOnly(s, [subs[s] EXCEPT !.status = status])

\* A renewed period: the subscription is active in it, the trial is over and
\* the period has its paid invoice.
Renewed(s, from, to) ==
  /\ subs[s].status = "active" \/ MayBecome(s, "active")
  /\ LET sub == [subs[s] EXCEPT !.status = "active", !.from = from, !.to = to,
                                !.trial = FALSE]
     IN Put(s, sub) /\ AddInvoice(s, sub, "paid")

\* The job at the end of a period (simulateRenewal).
SimulateRenewal(s, success) ==
  \/ subs[s].ending /\ CancelImmediately(s, subs[s].to)
  \/ ~subs[s].ending /\ ~success /\ Become(s, "past_due")
  \/ /\ ~subs[s].ending /\ success /\ subs[s].to < MaxPeriod
     /\ Renewed(s, subs[s].to, subs[s].to + 1)

\* syncFromProviderEvent: what the provider reports, whenever and however often
\* the report arrives; an event the status machine refuses throws.
SyncRenewal(s, from) == Renewed(s, from, from + 1)
SyncFailure(s) == Become(s, "past_due")
SyncRecovery(s) == Become(s, "active")
SyncTrialEnd(s) == subs[s].status = "trialing" /\ Become(s, "past_due")

\* Usage is recorded whatever the status.
RecordUsage(s) ==
  /\ usage[s] < MaxUsage
  /\ usage' = [usage EXCEPT ![s] = @ + 1]
  /\ UNCHANGED <<subs, invoices>>

BillingNext ==
  \/ \E s \in Subscriptions, p \in Plans, a \in SUBSET Addons, t \in 0 .. MaxPeriod :
       CreateSubscription(s, p, a, t)
  \/ \E s \in Existing :
       \/ \E p \in Plans : ChangePlan(s, p)
       \/ CancelAtPeriodEnd(s)
       \/ \E at \in 0 .. MaxPeriod : CancelImmediately(s, at)
       \/ Reactivate(s)
       \/ \E success \in BOOLEAN : SimulateRenewal(s, success)
       \/ \E from \in 0 .. MaxPeriod : SyncRenewal(s, from)
       \/ SyncFailure(s)
       \/ SyncRecovery(s)
       \/ SyncTrialEnd(s)
       \/ RecordUsage(s)

BillingSpec == BillingInit /\ [][BillingNext]_billing

-----------------------------------------------------------------------------
\* entitlement.ts: what a subscription grants now.
Grants(sub) == sub.status \in {"trialing", "active", "past_due"}
ActiveAddons(sub) == IF Grants(sub) THEN sub.addons \cap AddonsOf[sub.plan] ELSE {}

BillingTypeOK ==
  /\ subs \in [Subscriptions -> Subscription \cup {NoSubscription}]
  /\ usage \in [Subscriptions -> 0 .. MaxUsage]
  /\ \A s \in Subscriptions :
       /\ Len(invoices[s]) <= MaxInvoices
       /\ \A i \in DOMAIN invoices[s] : invoices[s][i] \in Invoice

\* "canceled" is terminal: whatever event or request comes late, a canceled
\* subscription never grants access again, changes no plan or period, and is
\* never charged again.
CanceledIsFinal ==
  [][\A s \in Existing : subs[s].status = "canceled" =>
       subs'[s] = subs[s] /\ invoices'[s] = invoices[s]]_billing

\* A subscription with no trial, or whose trial was ended by a renewal, is in a
\* period it has a paid invoice for, whichever sequence of renewals, failures
\* and recoveries brought it there; and the add-ons it lists are exactly those
\* it is granted while it has access.
PeriodIsPaid ==
  \A s \in Existing :
    /\ ~subs[s].trial =>
         \E i \in DOMAIN invoices[s] :
           invoices[s][i].status = "paid" /\ invoices[s][i].from = subs[s].from
    /\ Grants(subs[s]) => ActiveAddons(subs[s]) = subs[s].addons

\* What subscription.ts says of cancelAtPeriodEnd: "the subscription will
\* terminate at `currentPeriodEnd` instead of renewing".
EndsInsteadOfRenewing ==
  [][\A s \in Existing :
       subs[s].ending /\ subs'[s].from # subs[s].from => ~subs'[s].ending]_billing

\* No access without payment, and none again after the end.
SubscriptionHolds == []PeriodIsPaid /\ CanceledIsFinal
=============================================================================
