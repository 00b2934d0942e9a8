---------------------------- MODULE CheckoutPage ----------------------------
(***************************************************************************)
(* The checkout application (apps/checkout): the reducer of                *)
(* state/checkout.tsx, the wizard's steps that dispatch to it, and the     *)
(* Payment step that drives the booking engine and the mock provider,      *)
(* which live in the memory of the page (engines.ts).                      *)
(*                                                                         *)
(* One customer and one page.  An asynchronous function of the page is the *)
(* job; the state it captured when it started is in the job, and the page  *)
(* may have changed when it goes on.  A reload keeps what the reducer      *)
(* persisted and loses the job, the engine and the provider.               *)
(***************************************************************************)
EXTENDS BookingEngine

CONSTANTS
  Services,
  Configurable,     \* services with items, add-ons or questions
  Selections, ServiceOf, EmptySelection, Valid,
  Customers,
  None, Page,       \* Page is the page's own call of confirmFromPayment
  MaxReloads

ASSUME PageAssumption ==
  /\ Keys \subseteq Nat /\ 1 \in Keys /\ Page \in Callers
  /\ EmptySelection \in [Services -> Selections] /\ None \notin Selections
  /\ \A sv \in Services : ServiceOf[EmptySelection[sv]] = sv

VARIABLES
  page,     \* CheckoutState of the reducer
  shown,    \* slots the mounted SlotPicker offers, None before it loaded
  job,      \* the asynchronous function that is running
  mounting, \* the Payment step was entered and its effect has not run
  reloads

vars == <<engine, page, shown, job, mounting, reloads>>

Steps == <<"service", "configure", "summary", "slot", "customer", "payment",
           "confirmation">>
RequestOf(sel, slot, customer) ==
  [selection |-> sel, slot |-> slot, customer |-> customer]
NoJob == [stage |-> "none"]
JobKinds == {"setup", "succeeded", "failed"}

PageTypeOK ==
  /\ EngineTypeOK
  /\ page \in [step : {Steps[n] : n \in DOMAIN Steps},
               selection : Selections \cup {None}, slot : Slots \cup {None},
               slotPending : BOOLEAN, customer : Customers \cup {None},
               key : Keys, booking : 0 .. MaxRecords,
               intent : PaymentKeys \cup {NoIntent},
               status : {"idle", "working", "failed", "succeeded"}]
  /\ shown \in SUBSET Slots \cup {None}
  /\ job \in {NoJob}
       \cup [stage : {"create"}, kind : JobKinds, key : Keys, booking : Ids]
       \cup [stage : {"charge", "ask", "confirm"}, kind : JobKinds, booking : Ids,
             intent : PaymentKeys]
  /\ mounting \in BOOLEAN /\ reloads \in 0 .. MaxReloads

Fresh(key) ==
  [step |-> "service", selection |-> None, slot |-> None, slotPending |-> FALSE,
   customer |-> None, key |-> key, booking |-> 0, intent |-> NoIntent,
   status |-> "idle"]

PageInit ==
  /\ EngineInit
  /\ page = Fresh(1) /\ shown = None /\ job = NoJob
  /\ mounting = FALSE /\ reloads = 0
-----------------------------------------------------------------------------
\* The reducer.  A request that changes after a booking was made under its
\* key gets a new key; keys are drawn in order.
NextKey == page.key + 1
MayRotate == page.booking = 0 \/ NextKey \in Keys

Mutant_SameKey(s) ==
  [s EXCEPT !.booking = 0, !.intent = NoIntent, !.status = "idle", !.slotPending = FALSE]

Invalidated(s) ==
  [s EXCEPT !.booking = 0, !.intent = NoIntent, !.status = "idle",
            !.slotPending = FALSE,
            !.key = IF s.booking # 0 THEN NextKey ELSE @]
SelectService(sv) ==
  LET to == IF sv \in Configurable THEN "configure" ELSE "summary"
      same == page.selection # None /\ ServiceOf[page.selection] = sv IN
  IF same THEN [page EXCEPT !.step = to]
  ELSE Invalidated([page EXCEPT !.step = to, !.slot = None,
                                !.selection = EmptySelection[sv]])
SetSelection(sel) == Invalidated([page EXCEPT !.selection = sel, !.slot = None])
SetSlot(s) == Invalidated([page EXCEPT !.slot = s])
ConfirmCustomer(c) ==
  IF c = page.customer THEN page ELSE Invalidated([page EXCEPT !.customer = c])
Goto(s, step) == [s EXCEPT !.step = step, !.slotPending = (step = "slot")]
ReturnTo(step, clear) ==
  [page EXCEPT !.step = step, !.slot = IF clear THEN None ELSE @,
               !.booking = 0, !.intent = NoIntent, !.status = "idle",
               !.slotPending = (step = "slot")]

\* Entering a step mounts its component: SlotPicker starts to load, Payment
\* runs its effect.
Enter(next) ==
  /\ page' = next
  /\ shown' = None
  /\ mounting' = (next.step = "payment" /\ page.step # "payment")
-----------------------------------------------------------------------------
\* visibleStepsFor: a service without options has no step for them.
HasOptions(sel) == sel = None \/ ServiceOf[sel] \in Configurable
VisibleSteps ==
  IF HasOptions(page.selection) THEN Steps
  ELSE <<"service", "summary", "slot", "customer", "payment", "confirmation">>
Index == CHOOSE n \in DOMAIN VisibleSteps : VisibleSteps[n] = page.step
InWizard == page.step \notin {"payment", "confirmation"}
StepValid ==
  CASE page.step = "service" -> page.selection # None
    [] page.step \in {"configure", "summary"} -> page.selection \in Valid
    [] page.step = "slot" -> page.slot # None /\ ~ page.slotPending
    [] OTHER -> FALSE

ChooseService(sv) ==
  /\ page.step = "service" /\ MayRotate
  /\ Enter(SelectService(sv))
  /\ UNCHANGED <<engine, job, reloads>>

Configure(sel) ==
  /\ page.step = "configure" /\ MayRotate
  /\ ServiceOf[sel] = ServiceOf[page.selection] /\ sel # page.selection
  /\ page' = SetSelection(sel)
  /\ UNCHANGED <<engine, shown, job, mounting, reloads>>

Continue ==
  /\ InWizard /\ StepValid
  /\ Enter(Goto(page, VisibleSteps[Index + 1]))
  /\ UNCHANGED <<engine, job, reloads>>

ContinueAsCustomer(c) ==
  /\ page.step = "customer" /\ MayRotate
  /\ Enter(Goto(ConfirmCustomer(c), "payment"))
  /\ UNCHANGED <<engine, job, reloads>>

Back ==
  /\ InWizard /\ Index > 1 /\ MayRotate
  /\ Enter(Goto(page, VisibleSteps[Index - 1]))
  /\ UNCHANGED <<engine, job, reloads>>

\* SlotPicker: the slots arrive, and a chosen one that is gone is cleared.
SlotsArrive ==
  /\ page.step = "slot" /\ shown = None
  /\ shown' = {s \in Slots : HasRoom(s)}
  /\ page' = [(IF page.slot \in shown' \cup {None} THEN page ELSE SetSlot(None))
                EXCEPT !.slotPending = FALSE]
  /\ UNCHANGED <<engine, job, mounting, reloads>>

\* A start time, or another date: None.
PickSlot(s) ==
  /\ page.step = "slot" /\ shown # None /\ MayRotate
  /\ IF s = None THEN page.slot # None ELSE s \in shown
  /\ page' = SetSlot(s)
  /\ UNCHANGED <<engine, shown, job, mounting, reloads>>
-----------------------------------------------------------------------------
\* The Payment step.
Current == RequestOf(page.selection, page.slot, page.customer)

\* createBookingAndIntent up to its await, for the setup or for a payment; an
\* error sends the customer back to the slots or to the options.
CreateBooking(kind, from) ==
  \/ /\ Joins(page.key)
     /\ job' = [stage |-> "create", kind |-> kind, key |-> page.key,
                booking |-> Joined(page.key)]
     /\ page' = from /\ mounting' = FALSE
     /\ UNCHANGED <<engine, shown>>
  \/ /\ Create(page.key, Current)
     /\ job' = [stage |-> "create", kind |-> kind, key |-> page.key,
                booking |-> Len(record')]
     /\ page' = from /\ mounting' = FALSE
     /\ UNCHANGED shown
  \/ /\ CreateRefused(page.key, Current)
     /\ job' = NoJob
     /\ IF Refusal(Current) = "SLOT_UNAVAILABLE" THEN Enter(ReturnTo("slot", TRUE))
        ELSE Enter(ReturnTo(IF ServiceOf[page.selection] \in Configurable
                            THEN "configure" ELSE "service", FALSE))

Setup ==
  /\ page.step = "payment" /\ job = NoJob
  /\ CreateBooking("setup", [page EXCEPT !.status = "working"])
  /\ UNCHANGED reloads

\* The effect of the mounted step, once.
Mounted ==
  /\ mounting /\ page.step = "payment"
  /\ IF page.booking = 0 \/ page.intent = NoIntent
     THEN Setup
     ELSE mounting' = FALSE /\ UNCHANGED <<engine, page, shown, job, reloads>>

RetrySetup ==
  /\ ~ mounting /\ page.status = "failed"
  /\ page.booking = 0 \/ page.intent = NoIntent
  /\ Setup

\* ensureUsable: a pending booking whose intent the provider still knows and
\* has not failed is paid for, otherwise a new one is made.
Usable ==
  /\ page.booking # 0 /\ record[page.booking].state = "pending_payment"
  /\ page.intent # NoIntent
  /\ intent[page.intent].state \notin {"none", "failed"}

Pay(outcome) ==
  /\ page.step = "payment" /\ ~ mounting /\ job = NoJob
  /\ page.booking # 0 /\ page.intent # NoIntent /\ page.status # "working"
  /\ IF Usable
     THEN /\ job' = [stage |-> "charge", kind |-> outcome,
                     booking |-> page.booking, intent |-> page.intent]
          /\ UNCHANGED <<engine, page, shown, mounting>>
     ELSE CreateBooking(outcome, page)
  /\ UNCHANGED reloads

Mutant_NoFailure ==
  /\ job.stage = "create" /\ pending[job.key] = 0
  /\ LET b == job.booking  made == [page EXCEPT !.booking = b] IN
     IF record[b].state = "failed" \/ record[b].intent = NoIntent
     THEN page' = made /\ job' = NoJob
     ELSE LET ready == [made EXCEPT !.intent = record[b].intent] IN
          IF job.kind = "setup"
          THEN page' = [ready EXCEPT !.status = "idle"] /\ job' = NoJob
          ELSE /\ page' = ready
               /\ job' = [stage |-> "charge", kind |-> job.kind,
                          booking |-> b, intent |-> record[b].intent]
  /\ UNCHANGED <<engine, shown, mounting, reloads>>

\* The booking is there: its record, then its intent.
BookingCreated ==
  /\ job.stage = "create" /\ pending[job.key] = 0
  /\ LET b == job.booking  made == [page EXCEPT !.booking = b] IN
     IF record[b].state = "failed" \/ record[b].intent = NoIntent
     THEN page' = [made EXCEPT !.status = "failed"] /\ job' = NoJob
     ELSE LET ready == [made EXCEPT !.intent = record[b].intent] IN
          IF job.kind = "setup"
          THEN page' = [ready EXCEPT !.status = "idle"] /\ job' = NoJob
          ELSE /\ page' = ready
               /\ job' = [stage |-> "charge", kind |-> job.kind,
                          booking |-> b, intent |-> record[b].intent]
  /\ UNCHANGED <<engine, shown, mounting, reloads>>

\* The customer's money moves at the provider, then the engine is asked.
Charge ==
  /\ job.stage = "charge"
  /\ IF intent[job.intent].state = "requires_payment"
     THEN CompletePayment(job.intent, job.kind) ELSE UNCHANGED engine
  /\ job' = [job EXCEPT !.stage = "ask"]
  /\ UNCHANGED <<page, shown, mounting, reloads>>

AskEngine ==
  /\ job.stage = "ask" /\ ConfirmStart(Page, job.intent)
  /\ job' = [job EXCEPT !.stage = "confirm"]
  /\ UNCHANGED <<page, shown, mounting, reloads>>

\* A declined payment shows the booking again; a success ends the checkout.
Answered ==
  /\ job.stage = "confirm" /\ ConfirmFinish(Page)
  /\ page' = [page EXCEPT !.booking = job.booking,
       !.status = IF job.kind = "failed" \/ Verdict(Page) # "confirmed"
                  THEN "failed" ELSE "succeeded",
       !.step = IF job.kind = "succeeded" /\ Verdict(Page) = "confirmed"
                THEN "confirmation" ELSE @]
  /\ job' = NoJob
  /\ UNCHANGED <<shown, mounting, reloads>>

BackFromPayment ==
  /\ page.step = "payment" /\ ~ mounting
  /\ job = NoJob /\ page.status # "working"
  /\ Enter(Goto(page, "customer"))
  /\ UNCHANGED <<engine, job, reloads>>

StartOver ==
  /\ page.step = "confirmation" /\ NextKey \in Keys
  /\ Enter(Fresh(NextKey))
  /\ UNCHANGED <<engine, job, reloads>>

\* loadPersistedState in a new page: engine and provider start empty, and what
\* is left of a record is the copy in the page.
Reload ==
  /\ reloads < MaxReloads /\ reloads' = reloads + 1
  /\ record' = [b \in DOMAIN record |-> [record[b] EXCEPT !.live = FALSE]]
  /\ byKey' = [k \in Keys |-> 0] /\ pending' = [k \in Keys |-> 0]
  /\ attempts' = [k \in Keys |-> 0]
  /\ intent' = [i \in PaymentKeys |-> [state |-> "none", refunded |-> 0]]
  /\ bookingOf' = [i \in PaymentKeys |-> 0]
  /\ confirming' = [c \in Callers |-> NoCall]
  /\ page' = [page EXCEPT !.slotPending = (page.step = "slot"),
                          !.status = IF @ = "succeeded" THEN @ ELSE "idle"]
  /\ shown' = None /\ job' = NoJob /\ mounting' = (page.step = "payment")
  /\ UNCHANGED offered

EngineGoesOn ==
  /\ \E k \in Keys : ProviderCreates(k) \/ IntentReady(k) \/ IntentRefused(k)
  /\ UNCHANGED <<page, shown, job, mounting, reloads>>

ClockMoves ==
  /\ \E s \in Slots : SlotCloses(s)
  /\ UNCHANGED <<page, shown, job, mounting, reloads>>

PageNext ==
  \/ \E sv \in Services : ChooseService(sv)
  \/ \E sel \in Selections : Configure(sel)
  \/ Continue \/ Back \/ SlotsArrive \/ BackFromPayment \/ StartOver \/ Reload
  \/ \E c \in Customers : ContinueAsCustomer(c)
  \/ \E s \in Slots \cup {None} : PickSlot(s)
  \/ Mounted \/ RetrySetup \/ BookingCreated \/ Charge \/ AskEngine \/ Answered
  \/ \E outcome \in {"succeeded", "failed"} : Pay(outcome)
  \/ EngineGoesOn \/ ClockMoves

\* The page's own code and its engine run on; the customer need not act.
PageSpec ==
  /\ PageInit /\ [][PageNext]_vars
  /\ WF_vars(SlotsArrive) /\ WF_vars(Mounted) /\ WF_vars(BookingCreated)
  /\ WF_vars(Charge) /\ WF_vars(AskEngine) /\ WF_vars(Answered)
  /\ WF_vars(EngineGoesOn)
-----------------------------------------------------------------------------
\* The booking a page shows is for the request on the page: however often
\* the customer goes back and changes service, options, time or details, and
\* through reloads, she never pays for another request than she sees.
BookingIsForRequest ==
  page.booking # 0 => record[page.booking].request = Current

\* A payable booking on the page comes with its own intent, not with the
\* intent of an attempt that failed before it.
IntentIsOfBooking ==
  (page.booking # 0 /\ record[page.booking].state = "pending_payment"
     /\ page.intent # NoIntent /\ job.stage # "create")
    => record[page.booking].intent = page.intent

\* What the page tells is true: success stands for a confirmed booking, and
\* the message of a failure, that nothing was charged, for a key under which
\* nothing was captured (a retry that runs is not over yet).
PageTellsTruth ==
  /\ page.status = "succeeded" => record[page.booking].state = "confirmed"
  /\ page.status = "failed" /\ job = NoJob =>
       \A i \in PaymentKeys : i[1] = page.key => ~ Captured(i)

\* What the page shows and says, of its booking, its intent and its charge.
PageIsTrue == BookingIsForRequest /\ IntentIsOfBooking /\ PageTellsTruth

\* The wizard never hangs: working ends, and so does the wait for slots.
NothingHangs ==
  /\ page.status = "working" ~> page.status # "working"
  /\ page.slotPending ~> ~ page.slotPending
=============================================================================
