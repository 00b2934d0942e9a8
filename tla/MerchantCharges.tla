--------------------------- MODULE MerchantCharges ---------------------------
(***************************************************************************)
(* The merchants' payment providers (packages/payments): charges that are  *)
(* taken at once or authorized and captured later, refunds in full or in   *)
(* part, saved payment methods, and the choice of a provider from what     *)
(* each declares it can do.  Amounts are whole minor units of the charge's *)
(* own currency.                                                           *)
(***************************************************************************)
EXTENDS Integers, Sequences, FiniteSets

CONSTANTS
  Registry,    \* the ProviderCapability records; a provider's name is its
               \* place in the order of the names
  Keys,        \* idempotency keys
  Countries, Currencies, Methods,
  MaxAmount,   \* bound: the largest amount a caller asks for
  MaxCharges   \* bound: charges of one provider

Providers == {c.provider : c \in Registry}
CapabilityFor(p) == CHOOSE c \in Registry : c.provider = p

ASSUME ChargesAssumption ==
  /\ MaxAmount \in Nat /\ MaxCharges \in Nat
  /\ \A c \in Registry : c.provider \in Nat
  /\ \A c, d \in Registry : c.provider = d.provider => c = d

VARIABLES
  charges,     \* the charges of each provider, in the order of their ids
  byKey,       \* per provider, the charge an idempotency key names (0: none)
  savedAs,     \* the methods saved with each provider
  accounts     \* the marketplace accounts opened with each provider

charging == <<charges, byKey, savedAs, accounts>>

ServesCountry(c, country) == country \in c.countries
ServesCurrency(c, currency) == currency \in c.currencies
ServesMethod(c, method) == method \in c.methods
Serves(p, country, currency, method) ==
  LET c == CapabilityFor(p)
  IN ServesCountry(c, country) /\ ServesCurrency(c, currency) /\ ServesMethod(c, method)

MerchantPaymentState ==
  {"authorized", "captured", "refunded", "partially_refunded"}
\* key: the idempotency key the charge was made with, for the properties only.
MerchantCharge ==
  [state : MerchantPaymentState, amount : 1 .. MaxAmount, currency : Currencies,
   captured : 0 .. MaxAmount, refunded : 0 .. MaxAmount, key : Keys]

ChargesInit ==
  /\ charges = [p \in Providers |-> <<>>]
  /\ byKey = [p \in Providers |-> [k \in Keys |-> 0]]
  /\ savedAs = [p \in Providers |-> {}]
  /\ accounts = [p \in Providers |-> {}]

\* A key that already names a charge returns it as it is now: nothing changes.
NewCharge(p, k, amount, currency, state) ==
  /\ byKey[p][k] = 0
  /\ Len(charges[p]) < MaxCharges
  /\ charges' = [charges EXCEPT ![p] = Append(@,
       [state |-> state, amount |-> amount, currency |-> currency,
        captured |-> IF state = "captured" THEN amount ELSE 0,
        refunded |-> 0, key |-> k])]
  /\ byKey' = [byKey EXCEPT ![p][k] = Len(charges'[p])]
  /\ UNCHANGED <<savedAs, accounts>>

CreateCharge(p, k, amount, country, currency, method) ==
  /\ Serves(p, country, currency, method)
  /\ NewCharge(p, k, amount, currency, "captured")

Authorize(p, k, amount, country, currency, method) ==
  /\ CapabilityFor(p).supportsAuthCapture
  /\ Serves(p, country, currency, method)
  /\ NewCharge(p, k, amount, currency, "authorized")

\* The method is the saved one, whatever the request names.
ChargeSavedMethod(p, saved, k, amount, country, currency) ==
  /\ CapabilityFor(p).supportsSavedMethods
  /\ saved \in savedAs[p]
  /\ Serves(p, country, currency, saved)
  /\ NewCharge(p, k, amount, currency, "captured")

Amend(p, i, charge) ==
  /\ charges' = [charges EXCEPT ![p][i] = charge]
  /\ UNCHANGED <<byKey, savedAs, accounts>>

\* As if a captured charge could be captured again.
Mutant_CaptureAgain(p, i, amount, currency) ==
  LET charge == charges[p][i]
  IN /\ CapabilityFor(p).supportsAuthCapture
     /\ charge.state \in {"authorized", "captured"}
     /\ currency = charge.currency
     /\ amount <= charge.amount
     /\ Amend(p, i, [charge EXCEPT !.state = "captured", !.captured = amount])

Capture(p, i, amount, currency) ==
  LET charge == charges[p][i]
  IN /\ CapabilityFor(p).supportsAuthCapture
     /\ charge.state = "authorized"
     /\ currency = charge.currency
     /\ amount <= charge.amount
     /\ Amend(p, i, [charge EXCEPT !.state = "captured", !.captured = amount])

Refund(p, i) ==
  LET charge == charges[p][i]
  IN /\ charge.state = "captured"
     /\ Amend(p, i, [charge EXCEPT !.state = "refunded", !.refunded = charge.captured])

PartialRefund(p, i, amount, currency) ==
  LET charge == charges[p][i]
      total  == charge.refunded + amount
  IN /\ CapabilityFor(p).supportsPartialRefund
     /\ currency = charge.currency
     /\ charge.state \in {"captured", "partially_refunded"}
     /\ total <= charge.captured
     /\ Amend(p, i, [charge EXCEPT !.refunded = total,
          !.state = IF total = charge.captured THEN "refunded" ELSE "partially_refunded"])

SaveMethod(p, method) ==
  /\ CapabilityFor(p).supportsSavedMethods
  /\ ServesMethod(CapabilityFor(p), method)
  /\ savedAs' = [savedAs EXCEPT ![p] = @ \cup {method}]
  /\ UNCHANGED <<charges, byKey, accounts>>

OnboardMarketplaceAccount(p, country) ==
  /\ CapabilityFor(p).supportsMarketplace
  /\ ServesCountry(CapabilityFor(p), country)
  /\ accounts' = [accounts EXCEPT ![p] = @ \cup {country}]
  /\ UNCHANGED <<charges, byKey, savedAs>>

ChargesNext ==
  \E p \in Providers, country \in Countries, currency \in Currencies,
     amount \in 1 .. MaxAmount, method \in Methods :
    \/ \E k \in Keys :
         \/ CreateCharge(p, k, amount, country, currency, method)
         \/ Authorize(p, k, amount, country, currency, method)
         \/ ChargeSavedMethod(p, method, k, amount, country, currency)
    \/ \E i \in DOMAIN charges[p] :
         \/ Capture(p, i, amount, currency)
         \/ Refund(p, i)
         \/ PartialRefund(p, i, amount, currency)
    \/ SaveMethod(p, method)
    \/ OnboardMarketplaceAccount(p, country)

ChargesSpec == ChargesInit /\ [][ChargesNext]_charging

-----------------------------------------------------------------------------
(***************************************************************************)
(* routing.ts: the choice of a provider.  Open stands for a preference, a  *)
(* method or a geography the request leaves out.                           *)
(***************************************************************************)
Open == "open"

Candidates(registry, r) ==
  {c \in registry : /\ ServesCountry(c, r.country)
                    /\ ServesCurrency(c, r.currency)
                    /\ r.geography = Open \/ ServesCountry(c, r.geography)}
Satisfies(c, r) == r.method = Open \/ ServesMethod(c, r.method)

\* rank: the most specific provider first (fewest countries, then currencies),
\* then by name.
Ranked(c, d) ==
  LET countries(x) == Cardinality(x.countries)
      currencies(x) == Cardinality(x.currencies)
  IN \/ countries(c) < countries(d)
     \/ countries(c) = countries(d) /\ currencies(c) < currencies(d)
     \/ /\ countries(c) = countries(d) /\ currencies(c) = currencies(d)
        /\ c.provider < d.provider

NoProvider(reason) == [outcome |-> "no_provider", reason |-> reason]
Matched(c, r) ==
  [outcome |-> "matched", provider |-> c.provider, methodSatisfied |-> Satisfies(c, r)]

\* An eligible preferred provider wins even if it does not present the method.
SelectProvider(registry, r) ==
  LET candidates == Candidates(registry, r)
      preferred  == {c \in candidates : c.provider = r.preference}
      satisfiers == {c \in candidates : Satisfies(c, r)}
      inCountry  == {c \in registry : ServesCountry(c, r.country)}
  IN IF candidates = {}
       THEN NoProvider(IF inCountry = {} THEN "NO_COUNTRY"
                       ELSE IF \A c \in inCountry : ~ServesCurrency(c, r.currency)
                              THEN "NO_CURRENCY" ELSE "NO_GEOGRAPHY")
     ELSE IF preferred # {} THEN Matched(CHOOSE c \in preferred : TRUE, r)
     ELSE IF satisfiers = {} THEN NoProvider("NO_METHOD")
     ELSE Matched(CHOOSE c \in satisfiers :
                    \A d \in satisfiers \ {c} : Ranked(c, d), r)

-----------------------------------------------------------------------------
ChargesTypeOK ==
  /\ \A p \in Providers : \A i \in DOMAIN charges[p] : charges[p][i] \in MerchantCharge
  /\ byKey \in [Providers -> [Keys -> 0 .. MaxCharges]]
  /\ savedAs \in [Providers -> SUBSET Methods]
  /\ accounts \in [Providers -> SUBSET Countries]

\* However charges are captured and refunded, in whole or in steps, no charge
\* captures more than was agreed or returns more than was captured, its state
\* says exactly how much of the money is back, and a key never buys twice.
ChargesBalance ==
  \A p \in Providers : \A i \in DOMAIN charges[p] :
    LET c == charges[p][i]
    IN /\ c.refunded <= c.captured /\ c.captured <= c.amount
       /\ c.state = "authorized" <=> c.captured = 0
       /\ c.state = "refunded" <=> (c.captured > 0 /\ c.refunded = c.captured)
       /\ c.state = "partially_refunded" <=> (0 < c.refunded /\ c.refunded < c.captured)
       /\ byKey[p][c.key] = i

\* Money moves one way: what was captured is never changed afterwards and a
\* refund is never taken back, in whatever order the calls arrive.
RefundsOnlyGrow ==
  [][\A p \in Providers : \A i \in DOMAIN charges[p] :
       LET old == charges[p][i]
           new == charges'[p][i]
       IN /\ new.refunded >= old.refunded
          /\ old.captured > 0 => new.captured = old.captured]_charging

\* The books of a charge are right at every moment and from one to the next.
ChargesHold == []ChargesBalance /\ RefundsOnlyGrow
=============================================================================
