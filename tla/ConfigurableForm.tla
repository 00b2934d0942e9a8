--------------------------- MODULE ConfigurableForm ---------------------------
(***************************************************************************)
(* A configurable questionnaire: the owner's editing of its steps          *)
(* (ConfigurableEditor), the rules it must meet to be stored and published *)
(* (normalizeConfigurablePublication), and the customer's answering of it  *)
(* (ConfigurableQuestionForm), which is judged again where it is stored    *)
(* (validateConfigurableAnswers).  Prompts and labels are left out.        *)
(***************************************************************************)
EXTENDS Integers, Sequences, FiniteSets, SequencesExt, Functions

CONSTANTS
  Questions,      \* the catalog: question -> [kind, required, choices, min, max]
  Always,         \* the condition of a step that is always visible
  Amounts         \* the quantities and bounds tried

ASSUME FormAssumption ==
  /\ Amounts \subseteq Nat /\ IsFiniteSet(DOMAIN Questions)
  /\ \A q \in DOMAIN Questions : Questions[q].kind \in {"quantity", "single_choice", "multi_choice"}

VARIABLES
  steps,          \* config.steps: [question, required, when]
  bounds,         \* questionOverrides of the quantities: question -> [min, max]
  answers         \* the answers in the form

forming == <<steps, bounds, answers>>

Quantities == {q \in DOMAIN Questions : Questions[q].kind = "quantity"}
CatalogBounds == [q \in Quantities |-> [min |-> Questions[q].min, max |-> Questions[q].max]]
StepOf(ss, q) == CHOOSE i \in DOMAIN ss : ss[i].question = q
Included(ss) == {ss[i].question : i \in DOMAIN ss}

\* normalizeConfigurablePublication: REQUIRED_FLOOR, INVALID_DEPENDENCY and
\* INVALID_OVERRIDE.
RequiredFloor(ss) ==
  \A q \in DOMAIN Questions :
    Questions[q].required =>
      q \in Included(ss) /\ ss[StepOf(ss, q)].required /\ ss[StepOf(ss, q)].when = Always

Dependencies(ss) ==
  \A i \in DOMAIN ss :
    ss[i].when # Always =>
      \E j \in 1 .. i - 1 :
        /\ ss[j].question = ss[i].when.field
        /\ ss[j].when = Always
        /\ Questions[ss[j].question].kind # "quantity"
        /\ ss[i].when.value \in Questions[ss[j].question].choices

BoundsHold(bs) ==
  \A q \in DOMAIN bs :
    Questions[q].min <= bs[q].min /\ bs[q].min <= bs[q].max /\ bs[q].max <= Questions[q].max

Publishable(ss, bs) ==
  /\ ss # << >>
  /\ Cardinality(Included(ss)) = Len(ss)
  /\ RequiredFloor(ss) /\ Dependencies(ss) /\ BoundsHold(bs)

\* selectService: the required questions, in the catalog's order.
Selected ==
  LET floor == SetToSeq({q \in DOMAIN Questions : Questions[q].required})
  IN [i \in DOMAIN floor |-> [question |-> floor[i], required |-> TRUE, when |-> Always]]

FormInit == steps = Selected /\ bounds = CatalogBounds /\ answers = << >>

\* A question that a condition asks about is neither left out nor made
\* conditional.
Used(q) == \E i \in DOMAIN steps : steps[i].when # Always /\ steps[i].when.field = q

\* edit: what was answered in the preview goes.
EditTo(ss, bs) == steps' = ss /\ bounds' = bs /\ answers' = << >>

IncludeQuestion(q) ==
  /\ q \notin Included(steps)
  /\ EditTo(Append(steps, [question |-> q, required |-> FALSE, when |-> Always]), bounds)

\* The filter over the steps takes one away: a question is asked once.
ExcludeQuestion(q) ==
  /\ q \in Included(steps) /\ ~Questions[q].required /\ ~Used(q)
  /\ EditTo(RemoveAt(steps, StepOf(steps, q)),
            [p \in DOMAIN bounds |-> IF p = q THEN CatalogBounds[q] ELSE bounds[p]])

\* move: only to where the questionnaire could be stored.
MoveUp(i) ==
  /\ i > 1
  /\ LET moved == [steps EXCEPT ![i - 1] = steps[i], ![i] = steps[i - 1]]
     IN Publishable(moved, bounds) /\ EditTo(moved, bounds)

SetRequired(i) ==
  /\ ~Questions[steps[i].question].required
  /\ EditTo([steps EXCEPT ![i].required = ~@], bounds)

SetBounds(q, b) == q \in Included(steps) /\ EditTo(steps, [bounds EXCEPT ![q] = b])

Sources(i) == {j \in 1 .. i - 1 : /\ steps[j].when = Always
                                  /\ Questions[steps[j].question].kind # "quantity"}

\* The condition's source, then the choice that shows the question.
ShowWhen(i, j) ==
  /\ ~Questions[steps[i].question].required /\ ~Used(steps[i].question) /\ j \in Sources(i)
  /\ \E c \in Questions[steps[j].question].choices :
       EditTo([steps EXCEPT ![i].when = [field |-> steps[j].question, value |-> c]], bounds)

ShowAlways(i) ==
  /\ ~Questions[steps[i].question].required /\ ~Used(steps[i].question)
  /\ EditTo([steps EXCEPT ![i].when = Always], bounds)

\* evaluate, and visibleSteps for the form: an answer is a quantity or a set of
\* choices, eq asks for the one choice and includes for one of them.
Meets(when, given) ==
  /\ when.field \in DOMAIN given
  /\ IF Questions[when.field].kind = "single_choice"
     THEN given[when.field] = {when.value}
     ELSE when.value \in given[when.field]
VisibleStep(s, given) == s.when = Always \/ Meets(s.when, given)
VisibleQuestions(given) ==
  {steps[i].question : i \in {j \in DOMAIN steps : VisibleStep(steps[j], given)}}

\* As if hidden answers were kept for when the question comes back.
Mutant_KeepHidden(given) == given

ClearHiddenAnswers(given) == Restrict(given, DOMAIN given \cap VisibleQuestions(given))

\* QuestionControl: a control shows for a visible question, and its value goes
\* through clearHiddenAnswers; an emptied control leaves no answer.
Give(q, value) ==
  /\ Publishable(steps, bounds)
  /\ q \in VisibleQuestions(answers)
  /\ answers' = ClearHiddenAnswers([p \in DOMAIN answers \cup {q} |->
                                      IF p = q THEN value ELSE answers[p]])
  /\ UNCHANGED <<steps, bounds>>
Withdraw(q) ==
  /\ q \in DOMAIN answers
  /\ answers' = ClearHiddenAnswers(Restrict(answers, DOMAIN answers \ {q}))
  /\ UNCHANGED <<steps, bounds>>
Choose(q) ==
  \E c \in Questions[q].choices :
    IF Questions[q].kind = "single_choice" THEN Give(q, {c})
    ELSE LET picked == IF q \in DOMAIN answers THEN answers[q] ELSE {}
             next == IF c \in picked THEN picked \ {c} ELSE picked \cup {c}
         IN IF next = {} THEN Withdraw(q) ELSE Give(q, next)
Count(q) == \E n \in Amounts : Give(q, n)

FormNext ==
  \/ \E q \in DOMAIN Questions : IncludeQuestion(q) \/ ExcludeQuestion(q)
  \/ \E i \in DOMAIN steps :
       MoveUp(i) \/ SetRequired(i) \/ ShowAlways(i) \/ \E j \in DOMAIN steps : ShowWhen(i, j)
  \/ \E q \in Quantities, min, max \in Amounts : SetBounds(q, [min |-> min, max |-> max])
  \/ \E q \in VisibleQuestions(answers) :
       \/ q \in Quantities /\ Count(q)
       \/ q \notin Quantities /\ Choose(q)
       \/ Withdraw(q)
FormSpec == FormInit /\ [][FormNext]_forming

\* What the browser lets the customer send: every visible required question
\* answered, every quantity within its limits.
InBounds(q) == answers[q] \in bounds[q].min .. bounds[q].max
BrowserValid ==
  /\ \A i \in DOMAIN steps :
       VisibleStep(steps[i], answers) /\ steps[i].required => steps[i].question \in DOMAIN answers
  /\ \A q \in DOMAIN answers \cap Quantities : InBounds(q)

\* validateConfigurableAnswers, which evaluates each condition over the answers
\* it has accepted so far, step by step.
AcceptedBefore(before) == Restrict(answers, {steps[j].question : j \in 1 .. before} \cap DOMAIN answers)
ValidateAnswers ==
  /\ DOMAIN answers \subseteq Included(steps)
  /\ \A i \in DOMAIN steps :
       LET q == steps[i].question
       IN IF VisibleStep(steps[i], AcceptedBefore(i - 1))
          THEN IF q \in DOMAIN answers
               THEN /\ q \in Quantities => InBounds(q)
                    /\ q \notin Quantities => answers[q] \subseteq Questions[q].choices
                    /\ Questions[q].kind = "single_choice" => Cardinality(answers[q]) = 1
               ELSE ~steps[i].required
          ELSE q \notin DOMAIN answers

-----------------------------------------------------------------------------
\* No sequence of edits leads to a questionnaire whose required questions can
\* be skipped or whose conditions do not follow their source, whatever the
\* editor disables and whatever it leaves to the check before saving; only its
\* limits, or having no question at all, can keep it from being saved.
EditorKeepsRules == RequiredFloor(steps) /\ Dependencies(steps)

\* Answers the form lets through are accepted where they are stored: clearing
\* the hidden ones once is enough, as no condition asks about a conditional
\* question.
FormIsAccepted == Publishable(steps, bounds) /\ BrowserValid => ValidateAnswers

\* From the editor to the form: what the owner can draw up can be published
\* with its rules, and what the customer can send can be stored.
FormFollowsRules == EditorKeepsRules /\ FormIsAccepted
=============================================================================
