----------------------------- MODULE MCLibrary  -----------------------------
(***************************************************************************)
(* The packages' components that share no state with one another: a        *)
(* behaviour of this module is a behaviour of the one named by focus.      *)
(***************************************************************************)
EXTENDS Billing, MerchantCharges, Integrations, EventDispatch, CalendarBusy,
        Scheduling, Notifications, StripePayments, Configurator, TLC

CONSTANTS basic, plus, sms, extra, t1, t2, n1, n2, s1, k1, k2

VARIABLE focus

\* Billing: a plan with a trial and one without, sharing an add-on.
MCAddonsOf == (basic :> {sms}) @@ (plus :> {sms, extra})

\* MerchantCharges: a provider that can do everything, as the tests build one,
\* and one that can only charge and refund.
Capability(p, can) ==
  [provider |-> p, countries |-> {"DE"}, currencies |-> {"EUR"}, methods |-> {"card"},
   supportsAuthCapture |-> can, supportsPartialRefund |-> can,
   supportsSavedMethods |-> can, supportsMarketplace |-> can]
MCRegistry == {Capability(1, FALSE), Capability(3, TRUE)}

\* EventDispatch: one delivery that matches, and subscriptions that do not.
MCEndpoints ==
  {[id |-> 1, tenant |-> t1, active |-> TRUE, filter |-> AnyEvent],
   [id |-> 2, tenant |-> t1, active |-> TRUE, filter |-> {"payment.succeeded"}],
   [id |-> 3, tenant |-> t2, active |-> TRUE, filter |-> AnyEvent],
   [id |-> 4, tenant |-> t1, active |-> FALSE, filter |-> AnyEvent]}
MCEnvelopes == {[id |-> 1, tenant |-> t1, name |-> "booking.created"]}

\* CalendarBusy: two windows of the provider's own, one of them empty, and two
\* holds that touch.
MCSeed == {[start |-> 3, end |-> 4], [start |-> 2, end |-> 2]}
MCHolds == {[start |-> 2, end |-> 3], [start |-> 0, end |-> 1]}

\* Scheduling: times are minutes of a short day.
Always == [from |-> 0, to |-> 9]
Rule(srv, weekday, start, end, capacity) ==
  [name |-> "rule", service |-> srv, weekday |-> weekday, start |-> start, end |-> end,
   capacity |-> capacity, from |-> 0, to |-> 9]
Override(srv, date, kind, start, end, capacity) ==
  [name |-> "override", service |-> srv, date |-> date, kind |-> kind,
   start |-> start, end |-> end, capacity |-> capacity]
Blackout(srv, from, to, start, end) ==
  [service |-> srv, from |-> from, to |-> to, start |-> start, end |-> end]
Clock(before, after, jump) == [before |-> before, after |-> after, jump |-> jump]
Setup(rules, overrides, blackouts, tz) ==
  [rules |-> rules, overrides |-> overrides, blackouts |-> blackouts,
   before |-> tz.before, after |-> tz.after, jump |-> tz.jump]
Weekly == {Rule("any", 1, 2, 8, 1), Rule("any", 1, 4, 10, 1), Rule("any", 2, 2, 8, 2)}
MCCalendars ==
  {\* two rules of one day overlap, and the clock is put back in the night
   Setup(Weekly, {}, {}, Clock(1, 0, 9)),
   \* the service's own rule replaces them, and a blackout cuts into it
   Setup(Weekly \cup {Rule("visit", 1, 0, 8, 2)}, {},
         {Blackout("any", 0, 1, 3, 5), Blackout("other", 0, 1, 0, 12)}, Clock(0, 0, 0)),
   \* an open override replaces the day's rules, a whole-day blackout the next
   Setup({[Rule("any", 1, 0, 6, 1) EXCEPT !.from = 1], Rule("any", 2, 0, 6, 1)},
         {Override("any", 0, "open", 2, 10, 2)}, {Blackout("visit", 1, 1, 0, 0)},
         Clock(-1, -1, 0)),
   \* the override closes the day
   Setup(Weekly, {Override("visit", 1, "closed", 0, 0, 0)}, {}, Clock(0, 0, 0))}
MCWeekday == (0 :> 1) @@ (1 :> 2)

\* Notifications: a policy that names a channel twice and one nobody wrote a
\* template for, a template in the customer's language and in the default one.
MCChannelPolicy ==
  ("booking.confirmed" :> <<"email", "sms", "email">>) @@ ("booking.cancelled" :> <<"sms">>)
MCReminderRules == {[id |-> 1, offset |-> 2, channels |-> <<"sms", "email">>]}
MCTemplates ==
  LET Text(trigger, channel, locale) ==
        [trigger |-> trigger, channel |-> channel, locale |-> locale]
  IN <<Text("booking.confirmed", "email", "en-US"), Text("booking.confirmed", "email", "es-ES"),
       Text("reminder", "email", "en-US"), Text("booking.cancelled", "sms", "en-US")>>
MCLanguages == ("en-US" :> "en") @@ ("es-ES" :> "es") @@ ("es-MX" :> "es")

\* Configurator: services and flows by what the demo tenant and the templates
\* use: a cart, a questionnaire with a flow like that of the car detailing
\* service, one with counted questions, and a rental.
Item(id, price, min, max) == [id |-> id, price |-> price, min |-> min, max |-> max]
Addon(id, price) == [id |-> id, price |-> price]
Choice(id, delta, bp) == [id |-> id, delta |-> delta, bp |-> bp]
Question(id, kind, required, choices) ==
  [id |-> id, kind |-> kind, required |-> required, choices |-> choices,
   unitPrice |-> Absent, min |-> Absent, max |-> Absent]
Counted(id, required, unitPrice, min, max) ==
  [id |-> id, kind |-> "quantity", required |-> required, choices |-> <<>>,
   unitPrice |-> unitPrice, min |-> min, max |-> max]

\* A step that drives a question; the rest of a step is absent unless set.
Step(question, required) ==
  [question |-> question, required |-> required, visibleWhen |-> Absent,
   requiredWhen |-> Absent, disqualify |-> Absent, effect |-> Absent]
Cmp(field, op, kind, value) ==
  [op |-> op, field |-> field, value |-> [kind |-> kind, value |-> value]]
Answered(field) == [op |-> "answered", field |-> field]
Not(c) == [op |-> "not", of |-> <<c>>]
And(c, d) == [op |-> "and", of |-> <<c, d>>]
Either(c, d) == [op |-> "or", of |-> <<c, d>>]

Cart ==
  [service |->
     [base |-> 5, items |-> <<Item("sofa", 7, 0, 2), Item("piano", 33, 0, 1)>>,
      addons |-> <<Addon("wrap", 4), Addon("haul", 9)>>,
      questions |-> <<Question("stairs", "single_choice", FALSE,
                               <<Choice("lift", 0, 10000), Choice("walk", 3, 12500)>>),
                      Question("when", "multi_choice", FALSE,
                               <<Choice("night", 1, 15000), Choice("rush", -2, 10333)>>)>>,
      rental |-> Absent, tax |-> 1900],
   flow |-> <<>>, periods |-> Absent]

Detailing ==
  [service |->
     [base |-> 0, items |-> <<>>,
      addons |-> <<Addon("engine", 11), Addon("ceramic", 25)>>,
      questions |-> <<Question("package", "single_choice", TRUE,
                               <<Choice("basic", 50, 10000), Choice("full", 90, 10000)>>),
                      Question("vehicle", "single_choice", TRUE,
                               <<Choice("car", 0, 10000), Choice("truck", 0, 13333)>>)>>,
      rental |-> Absent, tax |-> 825],
   flow |->
     <<Step("package", TRUE),
       [Step("vehicle", TRUE) EXCEPT !.visibleWhen = Answered("package")],
       [Step(Absent, FALSE) EXCEPT
          !.effect = [target |-> "addon", id |-> "engine",
                      when |-> Cmp("vehicle", "eq", "one", <<"truck">>)]]>>,
   periods |-> Absent]

Cleaning ==
  [service |->
     [base |-> 20, items |-> <<Item("kit", 6, 0, 2)>>, addons |-> <<>>,
      questions |-> <<Counted("rooms", TRUE, 15, 1, 3),
                      Counted("windows", FALSE, 2, Absent, 2),
                      Question("extras", "multi_choice", FALSE,
                               <<Choice("oven", 8, 10000), Choice("fridge", 0, 11000),
                                 Choice("pets", 5, 10000)>>)>>,
      rental |-> Absent, tax |-> 0],
   flow |->
     <<[Step("rooms", TRUE) EXCEPT
          !.disqualify = And(Cmp("rooms", "gte", "number", <<3>>),
                             Cmp("extras", "includes", "one", <<"pets">>))],
       [Step("windows", FALSE) EXCEPT
          !.effect = [target |-> "item", id |-> "kit", quantity |-> 2,
                      when |-> Cmp("windows", "gt", "number", <<1>>)]],
       [Step("extras", FALSE) EXCEPT
          !.requiredWhen = Not(Cmp("rooms", "lte", "number", <<2>>)),
          !.effect = [target |-> "choice", id |-> "extras", choiceIds |-> <<"pets">>,
                      when |-> Either(Cmp("extras", "in", "many", <<"oven", "fridge">>),
                                      Cmp("rooms", "lt", "number", <<2>>))]]>>,
   periods |-> Absent]

Rental ==
  [service |->
     [base |-> 3, items |-> <<>>, addons |-> <<Addon("cover", 7)>>,
      questions |-> <<Question("size", "single_choice", TRUE,
                               <<Choice("small", -1, 9000), Choice("large", 0, 20000)>>)>>,
      rental |-> [min |-> 1, max |-> 4, price |-> 12, deposit |-> 40], tax |-> 700],
   flow |-> <<>>, periods |-> 3]

\* A booking whose flow does not pass the check: a required gift is hidden by
\* its own answer.
Gifts(visibleWhen) ==
  [service |->
     [base |-> 8, items |-> <<>>, addons |-> <<>>,
      questions |-> <<Question("gift", "single_choice", FALSE,
                               <<Choice("none", 0, 10000), Choice("box", 4, 10000)>>),
                      Question("paper", "single_choice", FALSE,
                               <<Choice("red", 0, 10000), Choice("blue", 1, 10000)>>)>>,
      rental |-> Absent, tax |-> 0],
   flow |-> <<[Step("gift", TRUE) EXCEPT !.visibleWhen = visibleWhen], Step("paper", TRUE)>>,
   periods |-> Absent]
HidesItself == Gifts(Not(Cmp("gift", "eq", "one", <<"none">>)))

MCConfigurations == {Cart, Detailing, Cleaning, Rental, HidesItself}

\* ... and one shown by a later answer.
MCForward == {Gifts(Answered("paper"))}

\* A question the flow hides again once its condition is taken back.
Hiding ==
  [service |->
     [base |-> 10, items |-> <<>>, addons |-> <<Addon("wax", 2)>>,
      questions |-> <<Question("plan", "single_choice", TRUE,
                               <<Choice("basic", 0, 10000), Choice("full", 30, 10000)>>),
                      Question("paint", "single_choice", FALSE,
                               <<Choice("matt", 15, 10000), Choice("gloss", 20, 10000)>>)>>,
      rental |-> Absent, tax |-> 0],
   flow |-> <<Step("plan", TRUE),
              [Step("paint", FALSE) EXCEPT
                 !.visibleWhen = Cmp("plan", "eq", "one", <<"full">>)]>>,
   periods |-> Absent]
MCHiding == {Hiding}

vars == <<focus, billing, charging, linking, dispatching, calendar, schedule, noticing,
          stripe, configuring>>

Init ==
  /\ focus \in {"billing", "charges", "linking", "dispatch", "calendar", "schedule",
               "notice", "stripe", "configure"}
  /\ BillingInit /\ ChargesInit /\ LinkInit /\ DispatchInit
  /\ CalendarInit /\ SchedulingInit /\ NoticeInit /\ StripeInit /\ ConfiguratorInit
  \* a component out of focus has one initial state
  /\ focus # "schedule" => setup = CHOOSE s \in Calendars : TRUE
  /\ focus # "configure" => service = Cart.service

Next ==
  /\ UNCHANGED focus
  /\ \/ /\ focus = "billing" /\ BillingNext
        /\ UNCHANGED <<charging, linking, dispatching, calendar, schedule, noticing,
                       stripe, configuring>>
     \/ /\ focus = "charges" /\ ChargesNext
        /\ UNCHANGED <<billing, linking, dispatching, calendar, schedule, noticing,
                       stripe, configuring>>
     \/ /\ focus = "linking" /\ LinkNext
        /\ UNCHANGED <<billing, charging, dispatching, calendar, schedule, noticing,
                       stripe, configuring>>
     \/ /\ focus = "dispatch" /\ DispatchNext
        /\ UNCHANGED <<billing, charging, linking, calendar, schedule, noticing, stripe,
                       configuring>>
     \/ /\ focus = "calendar" /\ CalendarNext
        /\ UNCHANGED <<billing, charging, linking, dispatching, schedule, noticing,
                       stripe, configuring>>
     \/ /\ focus = "schedule" /\ SchedulingNext
        /\ UNCHANGED <<billing, charging, linking, dispatching, calendar, noticing,
                       stripe, configuring>>
     \/ /\ focus = "notice" /\ NoticeNext
        /\ UNCHANGED <<billing, charging, linking, dispatching, calendar, schedule,
                       stripe, configuring>>
     \/ /\ focus = "stripe" /\ StripeNext
        /\ UNCHANGED <<billing, charging, linking, dispatching, calendar, schedule,
                       noticing, configuring>>
     \/ /\ focus = "configure" /\ ConfiguratorNext
        /\ UNCHANGED <<billing, charging, linking, dispatching, calendar, schedule,
                       noticing, stripe>>

Spec == Init /\ [][Next]_vars /\ (focus = "dispatch" => DispatchFairness)

\* EventDispatch: what is reported of a delivery is so, and each is settled.
Settles == []OutcomeIsTrue /\ (focus = "dispatch" => DeliverySettles)
=============================================================================
