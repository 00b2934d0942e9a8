---------------------------- MODULE Configurator ----------------------------
(***************************************************************************)
(* What a customer picks, what the service's flow makes of it, and what it *)
(* costs: the configure step of the checkout, packages/workflow and the    *)
(* pricing engine of packages/core with the copy the server charges by.    *)
(* A configuration pairs a service with its flow (a flow without steps     *)
(* stands for none) and, for a rental, the periods its caller asks for:    *)
(* the page itself never does.  Names are opaque: no choice's name is part *)
(* of another's.                                                           *)
(***************************************************************************)
EXTENDS Integers, Sequences, FiniteSets, SequencesExt, FiniteSetsExt

CONSTANTS
  Configurations,  \* [service |-> ..., flow |-> a sequence of steps, periods |-> ...]
  MaxSafe,         \* the largest exact integer
  Absent,            \* an absent field
  DefaultMax,      \* the most of a quantity whose maximum is unset: the price
  StepperMax       \* ... and the page's stepper

VARIABLES
  service, workflow, selection

configuring == <<service, workflow, selection>>

Get(f, k, d) == IF k \in DOMAIN f THEN f[k] ELSE d
Or(x, d) == IF x = Absent THEN d ELSE x
With(f, k, x) == [j \in DOMAIN f \cup {k} |-> IF j = k THEN x ELSE f[j]]
Collect(Part(_), s) == FlattenSeq([i \in DOMAIN s |-> Part(s[i])])
NoAnswer == [choiceIds |-> <<>>, quantity |-> Absent]

-----------------------------------------------------------------------------
(*                                  The price                              *)

\* Math.round(amount * bp / 10000): halves are rounded up.
Round(amount, bp) == (2 * amount * bp + 10000) \div 20000
Safe(n) == -MaxSafe <= n /\ n <= MaxSafe

Line(code, amount, quantity) == [code |-> code, amount |-> amount, quantity |-> quantity]

Answer(sel, q) == Get(sel.answers, q.id, NoAnswer)
\* As if choices counted in the order they were picked in.
Mutant_InPickOrder(sel, q) ==
  LET ids == Answer(sel, q).choiceIds
  IN [i \in DOMAIN ids |-> CHOOSE c \in ToSet(q.choices) : c.id = ids[i]]

\* In the order of the configuration, not of the picks.
Picked(sel, q) == SelectSeq(q.choices, LAMBDA c : Contains(Answer(sel, q).choiceIds, c.id))
Ids(s) == {s[i].id : i \in DOMAIN s}

ItemsValid(srv, sel) ==
  /\ DOMAIN sel.itemQuantities \subseteq Ids(srv.items)
  /\ \A i \in DOMAIN srv.items :
       Get(sel.itemQuantities, srv.items[i].id, 0) \in srv.items[i].min .. srv.items[i].max

AddonsValid(srv, sel) ==
  IsInjective(sel.addonIds) /\ \A i \in DOMAIN sel.addonIds : sel.addonIds[i] \in Ids(srv.addons)

QuestionValid(sel, q) ==
  LET a == Answer(sel, q) IN
  IF q.kind = "quantity"
    THEN /\ a.choiceIds = <<>>
         /\ a.quantity = Absent => ~q.required
         /\ a.quantity # Absent => a.quantity \in Or(q.min, 0) .. Or(q.max, DefaultMax)
    ELSE /\ a.quantity = Absent
         /\ a.choiceIds = <<>> => ~q.required
         /\ q.kind = "single_choice" => Len(a.choiceIds) <= 1
         /\ IsInjective(a.choiceIds)
         /\ \A i \in DOMAIN a.choiceIds : a.choiceIds[i] \in Ids(q.choices)

QuestionsValid(srv, sel) ==
  /\ DOMAIN sel.answers \subseteq Ids(srv.questions)
  /\ \A i \in DOMAIN srv.questions : QuestionValid(sel, srv.questions[i])

RentalValid(srv, sel) ==
  IF srv.rental = Absent THEN sel.rentalPeriods = Absent
  ELSE sel.rentalPeriods # Absent /\ sel.rentalPeriods \in srv.rental.min .. srv.rental.max

BaseLine(srv) == IF srv.base > 0 THEN <<Line(<<"base">>, srv.base, 1)>> ELSE <<>>
ItemLine(sel, i) ==
  LET n == Get(sel.itemQuantities, i.id, 0)
  IN IF n > 0 THEN <<Line(<<"item", i.id>>, i.price, n)>> ELSE <<>>
AddonLine(srv, id) ==
  LET addon == CHOOSE a \in ToSet(srv.addons) : a.id = id
  IN Line(<<"addon", id>>, addon.price, 1)
ChoiceLine(q, c) ==
  IF c.delta # 0 THEN <<Line(<<"question", q.id, c.id>>, c.delta, 1)>> ELSE <<>>
QuestionLine(sel, q) ==
  LET n == Or(Answer(sel, q).quantity, 0)
      Choice(c) == ChoiceLine(q, c)
  IN IF q.kind # "quantity" THEN Collect(Choice, Picked(sel, q))
     ELSE IF n > 0 /\ Or(q.unitPrice, 0) # 0
       THEN <<Line(<<"question", q.id>>, q.unitPrice, n)>> ELSE <<>>
RentalLine(srv, sel) ==
  IF srv.rental # Absent /\ srv.rental.price # 0
    THEN <<Line(<<"rental">>, srv.rental.price, sel.rentalPeriods)>> ELSE <<>>

AddedLines(srv, sel) ==
  LET Item(i) == ItemLine(sel, i)
      Addon(id) == <<AddonLine(srv, id)>>
      Question(q) == QuestionLine(sel, q)
  IN BaseLine(srv) \o Collect(Item, srv.items) \o Collect(Addon, sel.addonIds)
       \o Collect(Question, srv.questions) \o RentalLine(srv, sel)

\* The multipliers of the picked choices, in the order of the questions.
Multipliers(srv, sel) ==
  LET Of(q) == Collect(LAMBDA c : IF c.bp = 10000 THEN <<>>
                                  ELSE <<[code |-> <<"multiplier", q.id, c.id>>, bp |-> c.bp]>>,
                       IF q.kind = "quantity" THEN <<>> ELSE Picked(sel, q))
  IN Collect(Of, srv.questions)

Invalid == [ok |-> FALSE]

\* Each multiplier is a line of what it changes, rounded before the next one.
Price(srv, sel) ==
  LET lines == AddedLines(srv, sel)
      Add(p, l) == [p EXCEPT !.sum = @ + l.amount * l.quantity,
                             !.safe = @ /\ Safe(l.amount * l.quantity)
                                        /\ Safe(p.sum + l.amount * l.quantity)]
      added == FoldLeft(Add, [sum |-> 0, safe |-> TRUE, lines |-> lines], lines)
      Multiply(p, m) ==
        LET next == Round(p.sum, m.bp)
        IN [sum |-> next, safe |-> p.safe /\ Safe(next),
            lines |-> IF next = p.sum THEN p.lines
                      ELSE Append(p.lines, Line(m.code, next - p.sum, 1))]
      priced == FoldLeft(Multiply, added, Multipliers(srv, sel))
      tax == Round(priced.sum, srv.tax)
  IN IF /\ RentalValid(srv, sel) /\ ItemsValid(srv, sel)
        /\ AddonsValid(srv, sel) /\ QuestionsValid(srv, sel)
     THEN IF priced.safe /\ priced.sum >= 0 /\ Safe(tax) /\ Safe(priced.sum + tax)
            THEN [ok |-> TRUE, lines |-> priced.lines, subtotal |-> priced.sum, tax |-> tax,
                  deposit |-> IF srv.rental = Absent THEN 0 ELSE srv.rental.deposit,
                  total |-> priced.sum + tax]
            ELSE Invalid
     ELSE Invalid

\* What the server's copy (supabase/functions/_shared/pricing.ts) makes of a
\* selection, here by what is picked, whatever the order it was sent in.
ServerSubtotal(srv, sel) ==
  LET picks(q) == {c \in ToSet(q.choices) : c.id \in ToSet(Answer(sel, q).choiceIds)}
      asked(counted) == {q \in ToSet(srv.questions) : (q.kind = "quantity") = counted}
      items == MapThenSumSet(LAMBDA i : i.price * Get(sel.itemQuantities, i.id, 0),
                             ToSet(srv.items))
      addons == MapThenSumSet(LAMBDA a : a.price,
                              {a \in ToSet(srv.addons) : a.id \in ToSet(sel.addonIds)})
      counts == MapThenSumSet(LAMBDA q : Or(q.unitPrice, 0) * Or(Answer(sel, q).quantity, 0),
                              asked(TRUE))
      chosen == MapThenSumSet(LAMBDA q : MapThenSumSet(LAMBDA c : c.delta, picks(q)),
                              asked(FALSE))
      rented == IF srv.rental = Absent THEN 0 ELSE srv.rental.price * sel.rentalPeriods
      Scale(n, q) == FoldLeft(LAMBDA m, c : IF c \in picks(q) THEN Round(m, c.bp) ELSE m,
                              n, IF q.kind = "quantity" THEN <<>> ELSE q.choices)
  IN FoldLeft(Scale, srv.base + items + addons + counts + chosen + rented, srv.questions)

\* chargeAmount: the total and the deposit, and never nothing.
ChargeAmount(breakdown) ==
  IF breakdown.ok /\ breakdown.total + breakdown.deposit > 0
    THEN breakdown.total + breakdown.deposit ELSE Absent

-----------------------------------------------------------------------------
(*                                  The flow                               *)

\* answersFromSelection: what conditions see of an answer.
Flattened(sel) ==
  [k \in DOMAIN sel.answers |->
     LET a == sel.answers[k]
     IN IF a.quantity # Absent THEN [kind |-> "number", value |-> <<a.quantity>>]
        ELSE [kind |-> IF Len(a.choiceIds) = 1 THEN "one" ELSE "many", value |-> a.choiceIds]]

Same(x, y) == x.kind = y.kind /\ x.value = y.value
IsAnswered(x) == x.kind = "many" => x.value # <<>>

\* A comparison with a missing answer is false, whatever it compares.
Compare(c, answers) ==
  /\ c.field \in DOMAIN answers
  /\ LET raw == answers[c.field] IN
     CASE c.op = "answered" -> IsAnswered(raw)
       [] c.op = "eq" -> Same(raw, c.value)
       [] c.op = "ne" -> ~Same(raw, c.value)
       [] c.op = "in" -> raw.kind = "one" /\ Contains(c.value.value, raw.value[1])
       [] c.op = "includes" -> raw.kind # "number" /\ Contains(raw.value, c.value.value[1])
       [] c.op = "gt" -> raw.kind = "number" /\ raw.value[1] > c.value.value[1]
       [] c.op = "gte" -> raw.kind = "number" /\ raw.value[1] >= c.value.value[1]
       [] c.op = "lt" -> raw.kind = "number" /\ raw.value[1] < c.value.value[1]
       [] c.op = "lte" -> raw.kind = "number" /\ raw.value[1] <= c.value.value[1]

RECURSIVE Evaluate(_, _)
Evaluate(c, answers) ==
  CASE c.op = "and" -> \A i \in DOMAIN c.of : Evaluate(c.of[i], answers)
    [] c.op = "or"  -> \E i \in DOMAIN c.of : Evaluate(c.of[i], answers)
    [] c.op = "not" -> ~Evaluate(c.of[1], answers)
    [] OTHER -> Compare(c, answers)

\* An absent condition leaves a step visible and fires an effect; it neither
\* requires an answer nor disqualifies.
WhenAny(c, answers) == c = Absent \/ Evaluate(c, answers)
When(c, answers) == c # Absent /\ Evaluate(c, answers)

Visible(step, answers) == WhenAny(step.visibleWhen, answers)
StepRequired(step, answers) == step.required \/ When(step.requiredWhen, answers)

\* nextState, less the wording.
RequiredUnanswered(steps, answers) ==
  SelectSeq(steps, LAMBDA s : /\ Visible(s, answers)
                              /\ s.question # Absent /\ StepRequired(s, answers)
                              /\ s.question \in DOMAIN answers => ~IsAnswered(answers[s.question]))
Disqualified(steps, answers) ==
  SelectSeq(steps, LAMBDA s : Visible(s, answers) /\ When(s.disqualify, answers))
Complete(steps, answers) ==
  RequiredUnanswered(steps, answers) = <<>> /\ Disqualified(steps, answers) = <<>>

Adding(s, xs) == FoldLeft(LAMBDA t, x : IF Contains(t, x) THEN t ELSE Append(t, x), s, xs)

\* computePricingEffects: an effect fires by its own condition, whether or not
\* its step is shown.
Effects(steps, answers) ==
  SelectSeq(steps, LAMBDA s : s.effect # Absent /\ WhenAny(s.effect.when, answers))

\* applyToSelection: add-ons and choices are added to what was picked, an
\* item's quantity replaces it.
Apply(sel, step) ==
  LET e == step.effect
      a == Get(sel.answers, e.id, NoAnswer)
  IN CASE e.target = "addon" -> [sel EXCEPT !.addonIds = Adding(@, <<e.id>>)]
       [] e.target = "item" -> [sel EXCEPT !.itemQuantities = With(@, e.id, e.quantity)]
       [] e.target = "choice" ->
            [sel EXCEPT !.answers = With(@, e.id, [a EXCEPT !.choiceIds = Adding(@, e.choiceIds)])]

\* workflowView: what is hidden, and the selection that is priced and charged.
Hidden(steps, sel) ==
  {s.question : s \in {s \in ToSet(steps) : s.question # Absent /\ ~Visible(s, Flattened(sel))}}
Effective(steps, sel) == FoldLeft(Apply, sel, Effects(steps, Flattened(sel)))

\* validateSelection: may the customer continue?  Hidden questions are not asked.
SelectionIssues(srv, sel, hidden) ==
  LET count(i) == Get(sel.itemQuantities, i.id, 0)
      outside == {i \in ToSet(srv.items) : count(i) \notin i.min .. i.max}
      asked == {q \in ToSet(srv.questions) : q.id \notin hidden /\ q.required}
      few(q) == q.kind = "quantity" /\ Or(Answer(sel, q).quantity, 0) < Or(q.min, 0)
      open(q) == q.kind # "quantity" /\ Answer(sel, q).choiceIds = <<>>
  IN {i.id : i \in outside} \cup {q.id : q \in {q \in asked : few(q) \/ open(q)}}
     \cup (IF srv.items # <<>> /\ \A i \in ToSet(srv.items) : count(i) = 0 THEN {"items"} ELSE {})

MayContinue ==
  /\ Disqualified(workflow, Flattened(selection)) = <<>>
  /\ SelectionIssues(service, selection, Hidden(workflow, selection)) = {}

-----------------------------------------------------------------------------
(*                     The check of a flow before it is published          *)

RECURSIVE Fields(_)
Fields(c) ==
  IF c = Absent THEN {}
  ELSE IF c.op \in {"and", "or", "not"} THEN UNION {Fields(c.of[i]) : i \in DOMAIN c.of}
  ELSE {c.field}

FieldsOf(step) ==
  Fields(step.visibleWhen) \cup Fields(step.requiredWhen) \cup Fields(step.disqualify)
    \cup (IF step.effect = Absent THEN {} ELSE Fields(step.effect.when))

QuestionStepIndex(steps, q) == {i \in DOMAIN steps : steps[i].question = q}
IsPotentiallyRequired(step) == step.required \/ step.requiredWhen # Absent

\* As if a step could not be hidden by its own answer.
Mutant_OnlyLater(steps) ==
  \E i \in DOMAIN steps : \E f \in Fields(steps[i].visibleWhen) :
    /\ IsPotentiallyRequired(steps[i])
    /\ QuestionStepIndex(steps, f) # {} /\ Min(QuestionStepIndex(steps, f)) > i

DuplicateQuestionKey(steps) ==
  \E q \in {s.question : s \in ToSet(steps)} \ {Absent} :
    Cardinality(QuestionStepIndex(steps, q)) > 1
UnknownFieldRef(steps) ==
  \E s \in ToSet(steps) : \E f \in FieldsOf(s) : QuestionStepIndex(steps, f) = {}
ForwardHiddenRequired(steps) ==
  \E i \in DOMAIN steps : \E f \in Fields(steps[i].visibleWhen) :
    /\ IsPotentiallyRequired(steps[i])
    /\ QuestionStepIndex(steps, f) # {} /\ Min(QuestionStepIndex(steps, f)) >= i

\* validate finds nothing; the key of a step is its place.
Sound(steps) ==
  ~DuplicateQuestionKey(steps) /\ ~UnknownFieldRef(steps) /\ ~ForwardHiddenRequired(steps)

\* snapshotFlowPublication: what the server requires is asked of everyone.
Publishes(steps, requiredQuestionKeys) ==
  /\ Sound(steps)
  /\ \A q \in requiredQuestionKeys :
       /\ QuestionStepIndex(steps, q) # {}
       /\ LET step == steps[Min(QuestionStepIndex(steps, q))]
          IN step.required /\ step.visibleWhen = Absent

-----------------------------------------------------------------------------
(*                              The configure step                         *)

ConfiguratorInit ==
  \E c \in Configurations :
    /\ service = c.service /\ workflow = c.flow
    /\ selection = [itemQuantities |-> <<>>, addonIds |-> <<>>, answers |-> <<>>,
                    rentalPeriods |-> c.periods]

Select(sel) == selection' = sel /\ UNCHANGED <<service, workflow>>

\* The buttons of a stepper, which stop at its bounds.
Steps(n, min, max) == {m \in {n - 1, n + 1} : IF m < n THEN min < n ELSE n < max}

SetItemQty(i) ==
  \E n \in Steps(Get(selection.itemQuantities, i.id, 0), i.min, i.max) :
    Select([selection EXCEPT !.itemQuantities = With(@, i.id, n)])

Toggle(s, x) == IF Contains(s, x) THEN Remove(s, x) ELSE Append(s, x)
ToggleAddon(a) == Select([selection EXCEPT !.addonIds = Toggle(@, a.id)])

Shown == {q \in ToSet(service.questions) : q.id \notin Hidden(workflow, selection)}
SetAnswer(q, choiceIds, n) ==
  /\ q \in Shown
  /\ Select([selection EXCEPT !.answers =
                With(@, q.id, [choiceIds |-> choiceIds, quantity |-> n])])

SetSingleChoice(q, c) == q.kind = "single_choice" /\ SetAnswer(q, <<c.id>>, Absent)
ToggleMultiChoice(q, c) ==
  q.kind = "multi_choice" /\ SetAnswer(q, Toggle(Answer(selection, q).choiceIds, c.id), Absent)
SetQuantityAnswer(q) ==
  /\ q.kind = "quantity"
  /\ \E n \in Steps(Or(Answer(selection, q).quantity, Or(q.min, 0)),
                    Or(q.min, 0), Or(q.max, StepperMax)) : SetAnswer(q, <<>>, n)

ConfiguratorNext ==
  \/ \E i \in ToSet(service.items) : SetItemQty(i)
  \/ \E a \in ToSet(service.addons) : ToggleAddon(a)
  \/ \E q \in ToSet(service.questions) :
       \/ SetQuantityAnswer(q)
       \/ \E c \in ToSet(q.choices) : SetSingleChoice(q, c) \/ ToggleMultiChoice(q, c)

ConfiguratorSpec == ConfiguratorInit /\ [][ConfiguratorNext]_configuring

-----------------------------------------------------------------------------
\* For whatever the customer and the flow have put together, in whatever
\* order: the breakdown shown adds up line by line to its subtotal although
\* each multiplier is rounded, and the total is what the server's copy of the
\* price arrives at from the same picks.
PricesAgree ==
  LET sel == Effective(workflow, selection)
      shown == Price(service, sel)
      subtotal == ServerSubtotal(service, sel)
  IN shown.ok =>
       /\ FoldLeft(LAMBDA n, l : n + l.amount * l.quantity, 0, shown.lines) = shown.subtotal
       /\ shown.total = subtotal + Round(subtotal, service.tax)

\* Whoever may continue from the configure step has a selection that the
\* server will price: nobody is sent on to a booking that is refused.  (For
\* services without a required question the flow hides, whose effects choose
\* only among several choices, and whose required quantities have a minimum.)
FinishedIsPriceable == MayContinue => ChargeAmount(Price(service, Effective(workflow, selection))) # Absent

\* The questions of a flow that passed the check come in their order: whether a
\* step that may be required is shown changes only with the answer to a question
\* all of whose steps are before it, so that nobody who went past a step finds it
\* open again.
ComesInOrder ==
  [][Publishes(workflow, {}) =>
       \A i \in DOMAIN workflow :
         /\ IsPotentiallyRequired(workflow[i])
         /\ Visible(workflow[i], Flattened(selection))
              # Visible(workflow[i], Flattened(selection'))
         => \E j \in 1 .. i - 1 :
              LET q == workflow[j].question
              IN /\ Get(selection.answers, q, NoAnswer) # Get(selection'.answers, q, NoAnswer)
                 /\ QuestionStepIndex(workflow, q) \subseteq 1 .. i - 1]_configuring
\* A published flow is not complete before what the server requires is answered.
RequiredIsAnswered ==
  Complete(workflow, Flattened(selection)) =>
    \A q \in {s.question : s \in ToSet(workflow)} :
      Publishes(workflow, {q}) =>
        q \in DOMAIN selection.answers /\ IsAnswered(Flattened(selection)[q])
\* The wizard leads on: forward only, and to a selection that can be sold.
WizardLeadsOn == [](FinishedIsPriceable /\ RequiredIsAnswered) /\ ComesInOrder

\* What validate says of a step it calls forward_hidden_required: that it can
\* never be shown.
NeverShown ==
  \A i \in DOMAIN workflow :
    /\ \E f \in Fields(workflow[i].visibleWhen) :
         QuestionStepIndex(workflow, f) # {} /\ Min(QuestionStepIndex(workflow, f)) >= i
    /\ IsPotentiallyRequired(workflow[i])
    => ~Visible(workflow[i], Flattened(selection))

\* What apps/checkout/src/lib/workflow.ts says of the questions the flow is
\* hiding: their answers do not count.
HiddenDoesNotCount ==
  LET hidden == Hidden(workflow, selection)
      asked == [selection EXCEPT !.answers =
                  [k \in DOMAIN selection.answers \ hidden |-> selection.answers[k]]]
  IN MayContinue =>
       Price(service, Effective(workflow, selection)) = Price(service, Effective(workflow, asked))
=============================================================================
