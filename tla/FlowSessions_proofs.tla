-------------------------- MODULE FlowSessions_proofs --------------------------
(***************************************************************************)
(* Proofs about FlowSessions, for every set of contexts and intents and    *)
(* any lives, patience, clocks and number of calls: whatever stops a call  *)
(* while its transaction goes on, callers are told and the process keeps   *)
(* only what the database has, and an owner who changes the installation   *)
(* is not overtaken by a transaction that had already looked.              *)
(***************************************************************************)
EXTENDS FlowSessions, TLAPS

\* A call and its transaction: what was asked, how far the one lets the other
\* be, and that an answer fits the transaction it is about, for ever.
CallHolds(n) ==
  /\ call[n].phase # "none" =>
       /\ call[n].context \in Contexts
       /\ \/ call[n].method = "issue" /\ call[n].asked \in Expectation
          \/ call[n].method = "submit" /\ call[n].asked \in Intents
  /\ call[n].phase \in {"none", "acquiring", "acquired"} => backend[n].state = "none"
  /\ call[n].phase = "transaction" => backend[n].state \in {"open", "ran", "refused", "gone"}
  /\ call[n].phase = "committing" =>
       backend[n].state \in {"sent", "committed", "rolledback", "gone"}
  /\ call[n].phase # "settled" => call[n].outcome = None
  /\ call[n].outcome = "failed" => backend[n].state \notin {"sent", "committed"}
  /\ call[n].outcome \in {"session", "receipt", "withheld"} => backend[n].state = "committed"
  /\ call[n].outcome = "session" => call[n].method = "issue"
  /\ call[n].outcome = "receipt" => call[n].method = "submit"

\* What a transaction read and would write, as long as it shares the row of the
\* installation: permitted now, and no other row than the one stored.
ReadsTrue(n) ==
  LET e == call[n].context
      data == backend[n].result
  IN  Holding(n) =>
        IF call[n].method = "issue"
        THEN /\ data \in SessionRow /\ data.target = call[n].asked.target
             /\ Permitted(data)
             /\ \/ session[e] = None /\ data.target = installation.target
                \/ session[e] = data
        ELSE /\ data \in RequestRow /\ data.intent = call[n].asked
             /\ session[e] # None /\ Permitted(session[e])
             /\ request[e] \in {None, data}

\* What it has written is there.
WroteIt(n) ==
  LET e == call[n].context
      data == backend[n].result
  IN  backend[n].state = "committed" =>
        IF call[n].method = "issue"
        THEN data \in SessionRow /\ data.target = call[n].asked.target /\ session[e] = data
        ELSE data \in RequestRow /\ data.intent = call[n].asked /\ request[e] = data

\* Transactions of one context run one after the other.
OneHolds ==
  \A m, n \in Calls :
    Holding(m) /\ Holding(n) /\ call[m].context = call[n].context => m = n

\* What the process may keep of a context: what was asked for it, and rows that are stored.
KeepsTrue(r, e) ==
  /\ r.state \notin {"unused", "forgotten"} \/ r.busy # 0 => r.asked \in Expectation
  /\ r.state = "accepted" => r.receipt # None
  /\ r.receipt # None => session[e] = r.receipt
  /\ r.reference # 0 => request[e] # None /\ request[e].ref = r.reference

Remembers(e) == KeepsTrue(entry[e], e)

Inv ==
  /\ SessionTypeOK /\ OneHolds
  /\ \A n \in Calls : CallHolds(n) /\ ReadsTrue(n) /\ WroteIt(n)
  /\ \A e \in Contexts : Remembers(e)

---------------------------------------------------------------------------
(* Shapes.                                                                 *)

EntryShape == [state : EntryStates, started : 0..MaxTime, asked : Expectation \union {None},
               busy : {0} \union Calls, receipt : SessionRow \union {None},
               reference : {0} \union Calls, pending : Intents \union {None}]
CallShape == [method : {"issue", "submit", None}, context : Contexts \union {None},
              asked : Expectation \union Intents \union {None},
              phase : Phases, started : 0..MaxTime, outcome : Outcomes \union {None}]
BackendShape == [state : Backends, result : SessionRow \union RequestRow \union {None}]

\* The constants a proof needs about numbers.
LEMMA Numbers ==
  /\ MaxCalls \in Nat /\ MaxTime \in Nat /\ MaxRevision \in Nat
  /\ Life \in Nat /\ Patience \in Nat /\ Skew \in Nat
  /\ 0 \in 0..MaxTime /\ 0 \in Revisions
  /\ \A n \in Calls : n # 0
BY SessionsAssumption DEF Calls, Revisions

\* The type invariant, said with the shapes.
LEMMA Typed ==
  SessionTypeOK <=>
    /\ now \in 0..MaxTime
    /\ installation \in [target : Revisions, policy : Revisions, enabled : BOOLEAN]
    /\ session \in [Contexts -> SessionRow \union {None}]
    /\ request \in [Contexts -> RequestRow \union {None}]
    /\ entry \in [Contexts -> EntryShape]
    /\ call \in [Calls -> CallShape]
    /\ backend \in [Calls -> BackendShape]
    /\ shut \in BOOLEAN
BY DEF SessionTypeOK, EntryShape, CallShape, BackendShape

\* None is no row, no request, no intent and no answer.
LEMMA NoneApart ==
  /\ \A r \in SessionRow \union RequestRow \union Expectation : r # None
  /\ \A o \in Outcomes : o # None
BY NoneIsNothing

\* A context that was forgotten keeps nothing.
LEMMA ForgottenHolds ==
  /\ Forgotten \in EntryShape
  /\ \A e : KeepsTrue(Forgotten, e)
  /\ Forgotten.busy = 0
BY Numbers DEF Forgotten, Unused, EntryShape, KeepsTrue, EntryStates

---------------------------------------------------------------------------
(* The start.                                                              *)

\* Nothing is stored or called at the start.
LEMMA InitHolds == SessionInit => Inv
<1> SUFFICES ASSUME SessionInit PROVE Inv
  OBVIOUS
<1>1. Unused \in EntryShape /\ NoCall \in CallShape /\ NoBackend \in BackendShape
  BY Numbers DEF Unused, NoCall, NoBackend, EntryShape, CallShape, BackendShape,
                 EntryStates, Phases, Backends
<1>2. SessionTypeOK
  BY <1>1, Typed, Numbers DEF SessionInit
<1>3. \A n \in Calls : backend[n].state = "none"
  BY DEF SessionInit, NoBackend
<1>4. OneHolds
  BY <1>3 DEF OneHolds, Holding
<1>5. ASSUME NEW n \in Calls PROVE CallHolds(n) /\ ReadsTrue(n) /\ WroteIt(n)
  <2>1. call[n] = NoCall
    BY DEF SessionInit
  <2>2. call[n].phase = "none" /\ call[n].outcome = None
    BY <2>1 DEF NoCall
  <2>3. CallHolds(n)
    BY <2>2, <1>3, NoneApart DEF CallHolds, Outcomes
  <2> QED
    BY <2>3, <1>3 DEF ReadsTrue, WroteIt, Holding
<1>6. ASSUME NEW e \in Contexts PROVE Remembers(e)
  BY DEF SessionInit, Remembers, KeepsTrue, Unused
<1> QED
  BY <1>2, <1>4, <1>5, <1>6 DEF Inv

---------------------------------------------------------------------------
(* What the transactions hold, kept by every step that neither looks at a  *)
(* row nor writes one.                                                     *)

\* A transaction's call is the same call.
SameCall(m) ==
  /\ call'[m].method = call[m].method
  /\ call'[m].context = call[m].context
  /\ call'[m].asked = call[m].asked

\* No transaction has looked at more rows than before, and none has committed.
Looked(m) ==
  /\ Holding(m)' => Holding(m) /\ SameCall(m) /\ backend'[m].result = backend[m].result
  /\ backend'[m].state = "committed" =>
       backend[m].state = "committed" /\ SameCall(m) /\ backend'[m].result = backend[m].result

\* While the rows stay, what the calls read stays true.
LEMMA KeepsReading ==
  ASSUME Inv, UNCHANGED <<installation, session, request>>, \A m \in Calls : Looked(m)
  PROVE  /\ OneHolds'
         /\ \A n \in Calls : ReadsTrue(n)' /\ WroteIt(n)'
<1>1. OneHolds'
  BY DEF OneHolds, Inv, Looked, SameCall, Holding
<1>2. ASSUME NEW n \in Calls PROVE ReadsTrue(n)'
  <2>1. ReadsTrue(n) /\ Looked(n)
    BY DEF Inv
  <2> SUFFICES ASSUME Holding(n)' PROVE ReadsTrue(n)'
    BY DEF ReadsTrue
  <2>2. Holding(n) /\ SameCall(n) /\ backend'[n].result = backend[n].result
    BY <2>1 DEF Looked
  <2> QED
    BY <2>1, <2>2 DEF ReadsTrue, SameCall, Permitted
<1>3. ASSUME NEW n \in Calls PROVE WroteIt(n)'
  <2>1. WroteIt(n) /\ Looked(n)
    BY DEF Inv
  <2> QED
    BY <2>1 DEF WroteIt, Looked, SameCall
<1> QED
  BY <1>1, <1>2, <1>3

\* A transaction that its call has not begun holds nothing.
LEMMA NotBegun ==
  ASSUME Inv, NEW m \in Calls, call[m].phase \in {"none", "acquiring", "acquired"}
  PROVE  backend[m].state = "none" /\ ~Holding(m)
BY DEF Inv, CallHolds, Holding

\* A running call has a context and what it asks for.
LEMMA RunningHas ==
  ASSUME Inv, NEW n \in Calls, Running(n)
  PROVE  /\ call[n].context \in Contexts
         /\ \/ call[n].method = "issue" /\ call[n].asked \in Expectation
            \/ call[n].method = "submit" /\ call[n].asked \in Intents
BY DEF Inv, CallHolds, Running

---------------------------------------------------------------------------
(* Answers.                                                                *)

\* An answer that its transaction bears out.
Borne(n, outcome) ==
  /\ outcome = "failed" => backend[n].state \notin {"sent", "committed"}
  /\ outcome \in {"session", "receipt", "withheld"} => backend[n].state = "committed"
  /\ outcome = "session" => call[n].method = "issue"
  /\ outcome = "receipt" => call[n].method = "submit"

\* An answered call is a call, and stays the call it was.
LEMMA AnsweredHolds ==
  ASSUME Inv, NEW n \in Calls, Running(n), NEW outcome \in Outcomes,
         Borne(n, outcome), call'[n] = Answered(n, outcome), backend' = backend
  PROVE  /\ Answered(n, outcome) \in CallShape
         /\ CallHolds(n)' /\ SameCall(n)
<1>1. call[n] \in CallShape
  BY Typed DEF Inv
<1>2. Answered(n, outcome) \in CallShape
  BY <1>1, Numbers DEF Answered, CallShape, Phases
<1>3. /\ call'[n].phase = "settled" /\ call'[n].outcome = outcome
      /\ call'[n].method = call[n].method /\ call'[n].context = call[n].context
      /\ call'[n].asked = call[n].asked
  BY <1>1 DEF Answered, CallShape
<1> QED
  BY <1>2, <1>3, RunningHas DEF CallHolds, SameCall, Borne

\* What a call cut short may claim is borne out.
LEMMA CutIsBorne ==
  ASSUME Inv, NEW n \in Calls, Running(n)
  PROVE  Cut(n) \in Outcomes /\ Borne(n, Cut(n))
<1>1. CallHolds(n) /\ call[n].phase \in Phases
  BY Typed DEF Inv, CallShape
<1> QED
  BY <1>1 DEF CallHolds, Phases, Running, Cut, Outcomes, Borne

\* After an issue the context keeps what is stored, or nothing.
LEMMA AfterIssueHolds ==
  ASSUME Inv, NEW n \in Calls, Running(n), call[n].method = "issue",
         NEW outcome \in Outcomes, Borne(n, outcome), NEW why, Owns(n)
  PROVE  /\ AfterIssue(n, outcome, why) \in EntryShape
         /\ KeepsTrue(AfterIssue(n, outcome, why), call[n].context)
<1> DEFINE e == call[n].context
           data == backend[n].result
           brought == backend[n].state = "committed" /\ outcome \in {"session", "withheld"}
           known == IF brought THEN [entry[e] EXCEPT !.receipt = data] ELSE entry[e]
<1>1. e \in Contexts
  BY RunningHas
<1>2. entry[e] \in EntryShape /\ KeepsTrue(entry[e], e)
  BY <1>1, Typed DEF Inv, Remembers
<1>3. entry[e].asked \in Expectation
  BY <1>2, Numbers DEF Owns, KeepsTrue
<1>4. brought => data \in SessionRow /\ session[e] = data /\ data # None
  BY NoneApart DEF Inv, WroteIt
<1>5. /\ known \in EntryShape /\ known.asked \in Expectation
      /\ known.receipt # None => session[e] = known.receipt
      /\ known.reference # 0 => request[e] # None /\ request[e].ref = known.reference
      /\ brought => known.receipt # None
  BY <1>2, <1>3, <1>4 DEF EntryShape, KeepsTrue
<1>6. outcome = "session" => brought
  BY DEF Borne
<1> HIDE DEF known, brought
<1>7. ASSUME NEW s \in {"uncertain", "withheld"}
      PROVE  LET r == [known EXCEPT !.state = s, !.busy = 0]
             IN  r \in EntryShape /\ KeepsTrue(r, e)
  BY <1>5 DEF EntryShape, KeepsTrue, EntryStates
<1>8. ASSUME brought
      PROVE  LET r == [known EXCEPT !.state = "accepted", !.busy = 0]
             IN  r \in EntryShape /\ KeepsTrue(r, e)
  BY <1>5, <1>8 DEF EntryShape, KeepsTrue, EntryStates
<1>9. \/ /\ outcome = "session"
         /\ AfterIssue(n, outcome, why) = [known EXCEPT !.state = "accepted", !.busy = 0]
      \/ \E s \in {"uncertain", "withheld"} :
            AfterIssue(n, outcome, why) = [known EXCEPT !.state = s, !.busy = 0]
      \/ AfterIssue(n, outcome, why) = Forgotten
  BY DEF AfterIssue, known, brought
<1> QED
  BY <1>6, <1>7, <1>8, <1>9, ForgottenHolds

\* After a submission, too.
LEMMA AfterSubmitHolds ==
  ASSUME Inv, NEW n \in Calls, Running(n), call[n].method # "issue",
         NEW outcome \in Outcomes, Borne(n, outcome), NEW why, Owns(n)
  PROVE  /\ AfterSubmit(n, outcome, why) \in EntryShape
         /\ KeepsTrue(AfterSubmit(n, outcome, why), call[n].context)
<1> DEFINE e == call[n].context
           data == backend[n].result
           free == [entry[e] EXCEPT !.busy = 0]
<1>1. e \in Contexts /\ call[n].asked \in Intents
  BY RunningHas
<1>2. entry[e] \in EntryShape /\ KeepsTrue(entry[e], e)
  BY <1>1, Typed DEF Inv, Remembers
<1>3. entry[e].asked \in Expectation
  BY <1>2, Numbers DEF Owns, KeepsTrue
<1>4. outcome \in {"receipt", "withheld"} =>
        data \in RequestRow /\ request[e] = data /\ data # None
  BY NoneApart DEF Inv, WroteIt, Borne
<1>5. free \in EntryShape /\ KeepsTrue(free, e) /\ free.asked \in Expectation
  BY <1>2, <1>3 DEF EntryShape, KeepsTrue
<1> HIDE DEF free
<1>6. LET r == [free EXCEPT !.pending = call[n].asked]
      IN  r \in EntryShape /\ KeepsTrue(r, e)
  BY <1>1, <1>5 DEF EntryShape, KeepsTrue
<1>7. ASSUME outcome \in {"receipt", "withheld"}
      PROVE  LET r == [free EXCEPT !.pending = None, !.reference = data.ref]
             IN  r \in EntryShape /\ KeepsTrue(r, e)
  BY <1>4, <1>5, <1>7 DEF EntryShape, KeepsTrue, RequestRow
<1>8. \/ AfterSubmit(n, outcome, why) = [free EXCEPT !.pending = call[n].asked]
      \/ /\ outcome \in {"receipt", "withheld"}
         /\ AfterSubmit(n, outcome, why) = [free EXCEPT !.pending = None, !.reference = data.ref]
      \/ AfterSubmit(n, outcome, why) = free
      \/ AfterSubmit(n, outcome, why) = Forgotten
  BY DEF AfterSubmit, free
<1> QED
  BY <1>5, <1>6, <1>7, <1>8, ForgottenHolds

---------------------------------------------------------------------------
(* Steps that touch neither the rows nor the transactions.                 *)

\* Calls that go on, or stop with an answer that is borne out, and contexts
\* that keep what is true.
LEMMA CallSteps ==
  ASSUME Inv, SessionTypeOK',
         UNCHANGED <<installation, session, request, backend>>,
         \A m \in Calls : /\ CallHolds(m)'
                          /\ backend[m].state # "none" => SameCall(m),
         \A e \in Contexts : KeepsTrue(entry'[e], e)
  PROVE  Inv'
<1>1. \A m \in Calls : Looked(m)
  BY DEF Looked, Holding
<1>2. OneHolds' /\ \A n \in Calls : ReadsTrue(n)' /\ WroteIt(n)'
  BY <1>1, KeepsReading
<1>3. \A e \in Contexts : Remembers(e)'
  BY DEF Remembers, KeepsTrue
<1> QED
  BY <1>2, <1>3 DEF Inv

\* A call that does not change holds.
LEMMA CallStays ==
  ASSUME Inv, NEW m \in Calls, call'[m] = call[m], backend'[m] = backend[m]
  PROVE  CallHolds(m)' /\ SameCall(m)
BY DEF Inv, CallHolds, SameCall

\* A call that ends with an outcome it can bear out ends well.
LEMMA FinishKeeps ==
  ASSUME Inv, NEW n \in Calls, Running(n), NEW outcome \in Outcomes, NEW why,
         Borne(n, outcome), Finish(n, outcome, why),
         UNCHANGED <<now, installation, session, request, backend, shut>>
  PROVE  Inv'
<1> DEFINE e == call[n].context
<1>0. e \in Contexts /\ entry \in [Contexts -> EntryShape] /\ call \in [Calls -> CallShape]
  BY RunningHas, Typed DEF Inv
<1>1. call'[n] = Answered(n, outcome) /\ \A m \in Calls \ {n} : call'[m] = call[m]
  BY <1>0 DEF Finish
<1>2. Answered(n, outcome) \in CallShape /\ CallHolds(n)' /\ SameCall(n)
  BY <1>1, AnsweredHolds
<1>3. call' \in [Calls -> CallShape]
  BY <1>0, <1>2 DEF Finish
<1>4. ASSUME Owns(n)
      PROVE  \E r \in EntryShape : KeepsTrue(r, e) /\ entry' = [entry EXCEPT ![e] = r]
  <2>1. CASE call[n].method = "issue"
    BY <1>4, <2>1, AfterIssueHolds DEF Finish
  <2>2. CASE call[n].method # "issue"
    BY <1>4, <2>2, AfterSubmitHolds DEF Finish
  <2> QED
    BY <2>1, <2>2
<1>5. /\ entry' \in [Contexts -> EntryShape]
      /\ \A c \in Contexts : KeepsTrue(entry'[c], c)
  <2>1. \A c \in Contexts : KeepsTrue(entry[c], c)
    BY DEF Inv, Remembers
  <2>2. CASE Owns(n)
    <3>1. PICK r \in EntryShape : KeepsTrue(r, e) /\ entry' = [entry EXCEPT ![e] = r]
      BY <1>4, <2>2
    <3>2. \A c \in Contexts : entry'[c] = IF c = e THEN r ELSE entry[c]
      BY <1>0, <3>1
    <3> QED
      BY <1>0, <2>1, <3>1, <3>2
  <2>3. CASE ~Owns(n)
    BY <1>0, <2>1, <2>3 DEF Finish
  <2> QED
    BY <2>2, <2>3
<1>6. SessionTypeOK'
  BY <1>3, <1>5, Typed DEF Inv, SessionTypeOK, EntryShape, CallShape
<1>7. \A m \in Calls : CallHolds(m)' /\ SameCall(m)
  BY <1>1, <1>2, CallStays
<1> QED
  BY <1>5, <1>6, <1>7, CallSteps

\* The primed type invariant, said with the shapes.
LEMMA TypedNext ==
  ASSUME now' \in 0..MaxTime,
         installation' \in [target : Revisions, policy : Revisions, enabled : BOOLEAN],
         session' \in [Contexts -> SessionRow \union {None}],
         request' \in [Contexts -> RequestRow \union {None}],
         entry' \in [Contexts -> EntryShape], call' \in [Calls -> CallShape],
         backend' \in [Calls -> BackendShape], shut' \in BOOLEAN
  PROVE  SessionTypeOK'
BY DEF SessionTypeOK, EntryShape, CallShape, BackendShape

---------------------------------------------------------------------------
(* The calls' own steps.                                                   *)

\* A call starts having read and written nothing.
LEMMA StartKeeps ==
  ASSUME Inv, NEW n \in Calls, NEW e \in Contexts, NEW method, NEW asked,
         \/ method = "issue" /\ asked \in Expectation
         \/ method = "submit" /\ asked \in Intents,
         Start(n, e, method, asked),
         NEW r \in EntryShape, KeepsTrue(r, e), entry' = [entry EXCEPT ![e] = r]
  PROVE  Inv'
<1> DEFINE c == [method |-> method, context |-> e, asked |-> asked,
                 phase |-> "acquiring", started |-> now, outcome |-> None]
<1>0. /\ entry \in [Contexts -> EntryShape] /\ call \in [Calls -> CallShape]
      /\ now \in 0..MaxTime /\ call[n].phase = "none"
      /\ \A m \in Contexts : KeepsTrue(entry[m], m)
  BY Typed DEF Inv, Start, Remembers
<1>1. c \in CallShape
  BY <1>0 DEF CallShape, Phases
<1>2. call' = [call EXCEPT ![n] = c]
  BY DEF Start
<1>3. call' \in [Calls -> CallShape] /\ call'[n] = c /\ \A m \in Calls \ {n} : call'[m] = call[m]
  BY <1>0, <1>1, <1>2
<1>4. entry' \in [Contexts -> EntryShape] /\ \A m \in Contexts : KeepsTrue(entry'[m], m)
  BY <1>0
<1>5. SessionTypeOK'
  BY <1>3, <1>4, Typed, TypedNext DEF Inv, Start
<1>6. backend' = backend /\ backend[n].state = "none"
  BY <1>0, NotBegun DEF Start
<1>7. CallHolds(n)'
  BY <1>3, <1>6, NoneApart DEF CallHolds, Outcomes
<1>8. \A m \in Calls : CallHolds(m)' /\ (backend[m].state # "none" => SameCall(m))
  BY <1>3, <1>6, <1>7, CallStays
<1> QED
  BY <1>4, <1>5, <1>8, CallSteps DEF Start

\* A context is issued at the expectation that was asked.
LEMMA IssueKeeps ==
  ASSUME Inv, NEW n \in Calls, NEW e \in Contexts, Issue(n, e)
  PROVE  Inv'
<1>1. PICK t \in 0..installation.target, p \in 0..installation.policy :
        LET asked == [target |-> t, policy |-> p]
        IN  /\ Start(n, e, "issue", asked)
            /\ entry' = [entry EXCEPT ![e] = [Unused EXCEPT !.state = "issuing", !.started = now,
                                              !.asked = asked, !.busy = n]]
  BY DEF Issue
<1> DEFINE asked == [target |-> t, policy |-> p]
           r == [Unused EXCEPT !.state = "issuing", !.started = now, !.asked = asked, !.busy = n]
<1>2. installation.target \in Revisions /\ installation.policy \in Revisions /\ now \in 0..MaxTime
  BY Typed DEF Inv
<1>3. asked \in Expectation
  BY <1>2, Numbers DEF Expectation, Revisions
<1>4. r \in EntryShape /\ KeepsTrue(r, e)
  BY <1>2, <1>3, Numbers DEF Unused, EntryShape, EntryStates, KeepsTrue
<1> QED
  BY <1>1, <1>3, <1>4, StartKeeps

\* Recovery asks for what the context was issued at.
LEMMA RecoverKeeps ==
  ASSUME Inv, NEW n \in Calls, NEW e \in Contexts, RecoverIssue(n, e)
  PROVE  Inv'
<1> DEFINE r == [entry[e] EXCEPT !.state = "recovering", !.busy = n]
<1>0. entry \in [Contexts -> EntryShape] /\ entry[e] \in EntryShape /\ KeepsTrue(entry[e], e)
  BY Typed DEF Inv, Remembers
<1>1. entry[e].asked \in Expectation
  BY <1>0 DEF RecoverIssue, KeepsTrue
<1>2. r \in EntryShape /\ KeepsTrue(r, e)
  BY <1>0, <1>1 DEF EntryShape, EntryStates, KeepsTrue
<1>3. entry' = [entry EXCEPT ![e] = r]
  BY <1>0 DEF RecoverIssue
<1> QED
  BY <1>1, <1>2, <1>3, StartKeeps DEF RecoverIssue

\* A submission asks for its intent.
LEMMA SubmitKeeps ==
  ASSUME Inv, NEW n \in Calls, NEW e \in Contexts, NEW i \in Intents, Submit(n, e, i)
  PROVE  Inv'
<1> DEFINE r == [entry[e] EXCEPT !.busy = n]
<1>0. entry \in [Contexts -> EntryShape] /\ entry[e] \in EntryShape /\ KeepsTrue(entry[e], e)
  BY Typed DEF Inv, Remembers
<1>1. r \in EntryShape /\ KeepsTrue(r, e)
  BY <1>0 DEF Submit, EntryShape, KeepsTrue
<1>2. entry' = [entry EXCEPT ![e] = r]
  BY <1>0 DEF Submit
<1> QED
  BY <1>1, <1>2, StartKeeps DEF Submit

\* A call that has a connection has read nothing by it.
LEMMA ConnectKeeps ==
  ASSUME Inv, NEW n \in Calls, Connect(n)
  PROVE  Inv'
<1> DEFINE c == [call[n] EXCEPT !.phase = "acquired"]
<1>0. call \in [Calls -> CallShape] /\ call[n] \in CallShape /\ CallHolds(n)
  BY Typed DEF Inv
<1>1. call' = [call EXCEPT ![n] = c] /\ c \in CallShape
  BY <1>0 DEF Connect, CallShape, Phases
<1>2. call' \in [Calls -> CallShape] /\ call'[n] = c /\ \A m \in Calls \ {n} : call'[m] = call[m]
  BY <1>0, <1>1
<1>3. SessionTypeOK'
  BY <1>2, Typed, TypedNext DEF Inv, Connect
<1>4. CallHolds(n)' /\ SameCall(n)
  BY <1>0, <1>2 DEF Connect, CallHolds, SameCall, CallShape
<1>5. \A m \in Calls : CallHolds(m)' /\ SameCall(m)
  BY <1>2, <1>4, CallStays DEF Connect
<1>6. \A e \in Contexts : KeepsTrue(entry'[e], e)
  BY DEF Connect, Inv, Remembers
<1> QED
  BY <1>3, <1>5, <1>6, CallSteps DEF Connect

\* A call without a connection has done nothing.
LEMMA NotConnectedKeeps ==
  ASSUME Inv, NEW n \in Calls, NotConnected(n)
  PROVE  Inv'
<1>1. backend[n].state = "none"
  BY NotBegun DEF NotConnected
<1>2. Borne(n, "failed")
  BY <1>1 DEF Borne
<1> QED
  BY <1>2, FinishKeeps DEF NotConnected, Guard, Outcomes

\* A call that is stopped says no more than it knows.
LEMMA StopKeeps ==
  ASSUME Inv, NEW n \in Calls, NEW why, Stop(n, why)
  PROVE  Inv'
BY CutIsBorne, FinishKeeps DEF Stop

\* What a process keeps of a context, the commit stored.
LEMMA AcknowledgeKeeps ==
  ASSUME Inv, NEW n \in Calls, Acknowledge(n)
  PROVE  Inv'
<1>1. Running(n) /\ CallHolds(n)
  BY DEF Acknowledge, Owns, Inv
<1>2. \/ call[n].method = "issue" \/ call[n].method = "submit"
  BY <1>1, RunningHas
<1>3. PICK outcome \in Outcomes, why \in {"none", "DEADLINE", "EXPIRED", "INTERNAL_ERROR", "COMMIT_UNCERTAIN"} :
        Borne(n, outcome) /\ Finish(n, outcome, why)
  <2>1. CASE backend[n].state = "committed"
    <3>1. CASE Guard(n) /\ Retained(n)
      BY <1>2, <2>1, <3>1 DEF Acknowledge, Borne, Outcomes
    <3>2. CASE ~(Guard(n) /\ Retained(n))
      BY <1>2, <2>1, <3>2 DEF Acknowledge, Borne, Outcomes
    <3> QED
      BY <3>1, <3>2
  <2>2. CASE backend[n].state = "rolledback"
    BY <2>2 DEF Acknowledge, Borne, Outcomes
  <2>3. CASE backend[n].state = "gone"
    BY <2>3 DEF Acknowledge, Borne, Outcomes
  <2> QED
    BY <2>1, <2>2, <2>3 DEF Acknowledge
<1> QED
  BY <1>1, <1>3, FinishKeeps DEF Acknowledge

---------------------------------------------------------------------------
(* The clocks and the end of the process.                                  *)

\* Calls that are cut short or left as they are, and contexts that are
\* forgotten or left as they are.
LEMMA CutsKeep ==
  ASSUME Inv, UNCHANGED <<now, installation, session, request, backend>>, shut' \in BOOLEAN,
         call' \in [Calls -> CallShape], entry' \in [Contexts -> EntryShape],
         \A m \in Calls : \/ call'[m] = call[m]
                          \/ Running(m) /\ call'[m] = Answered(m, Cut(m)),
         \A e \in Contexts : entry'[e] \in {entry[e], Forgotten}
  PROVE  Inv'
<1>1. SessionTypeOK'
  BY Typed, TypedNext DEF Inv
<1>2. ASSUME NEW m \in Calls PROVE CallHolds(m)' /\ SameCall(m)
  <2>1. CASE call'[m] = call[m]
    BY <2>1, CallStays
  <2>2. CASE Running(m) /\ call'[m] = Answered(m, Cut(m))
    BY <2>2, CutIsBorne, AnsweredHolds
  <2> QED
    BY <2>1, <2>2
<1>3. \A e \in Contexts : KeepsTrue(entry'[e], e)
  BY ForgottenHolds DEF Inv, Remembers
<1> QED
  BY <1>1, <1>2, <1>3, CallSteps

\* A call cut short is a call.
LEMMA CutShape ==
  ASSUME Inv, NEW m \in Calls, Running(m)
  PROVE  Answered(m, Cut(m)) \in CallShape
<1>1. call[m] \in CallShape /\ Cut(m) \in Outcomes
  BY Typed, CutIsBorne DEF Inv
<1> QED
  BY <1>1, Numbers DEF Answered, CallShape, Phases

\* A context that aged is forgotten, and the call it had is cut off.
LEMMA ExpireContextKeeps ==
  ASSUME Inv, NEW e \in Contexts, ExpireContext(e)
  PROVE  Inv'
<1>0. call \in [Calls -> CallShape] /\ entry \in [Contexts -> EntryShape] /\ shut \in BOOLEAN
  BY Typed DEF Inv
<1>1. \A m \in Calls : \/ call'[m] = call[m]
                       \/ Running(m) /\ call'[m] = Answered(m, Cut(m))
  BY DEF ExpireContext, Owns
<1>2. call' \in [Calls -> CallShape]
  BY <1>0, CutShape DEF ExpireContext, Owns
<1>3. entry' \in [Contexts -> EntryShape] /\ \A c \in Contexts : entry'[c] \in {entry[c], Forgotten}
  BY <1>0, ForgottenHolds DEF ExpireContext
<1> QED
  BY <1>0, <1>1, <1>2, <1>3, CutsKeep DEF ExpireContext

\* A context that is used too late is forgotten.
LEMMA UseExpiredKeeps ==
  ASSUME Inv, NEW e \in Contexts, UseExpired(e)
  PROVE  Inv'
<1>0. call \in [Calls -> CallShape] /\ entry \in [Contexts -> EntryShape] /\ shut \in BOOLEAN
  BY Typed DEF Inv
<1>1. entry' \in [Contexts -> EntryShape] /\ \A c \in Contexts : entry'[c] \in {entry[c], Forgotten}
  BY <1>0, ForgottenHolds DEF UseExpired
<1> QED
  BY <1>0, <1>1, CutsKeep DEF UseExpired

\* A shutdown forgets the contexts and cuts every call off.
LEMMA ShutDownKeeps ==
  ASSUME Inv, ShutDown
  PROVE  Inv'
<1>0. call \in [Calls -> CallShape] /\ entry \in [Contexts -> EntryShape]
  BY Typed DEF Inv
<1>1. \A m \in Calls : \/ call'[m] = call[m]
                       \/ Running(m) /\ call'[m] = Answered(m, Cut(m))
  BY DEF ShutDown
<1>2. call' \in [Calls -> CallShape]
  BY <1>0, CutShape DEF ShutDown
<1>3. entry' \in [Contexts -> EntryShape] /\ \A c \in Contexts : entry'[c] \in {entry[c], Forgotten}
  BY <1>0, ForgottenHolds DEF ShutDown
<1> QED
  BY <1>1, <1>2, <1>3, CutsKeep DEF ShutDown

---------------------------------------------------------------------------
(* The transactions.                                                       *)

\* A step of one transaction that neither looks nor writes.
LEMMA TransactionSteps ==
  ASSUME Inv, NEW n \in Calls, NEW s \in Backends,
         UNCHANGED <<now, installation, session, request, entry, shut>>,
         backend' = [backend EXCEPT ![n].state = s],
         s \in {"ran", "sent"} => Holding(n), s # "committed",
         call' \in [Calls -> CallShape], \A m \in Calls \ {n} : call'[m] = call[m],
         CallHolds(n)', SameCall(n)
  PROVE  Inv'
<1>0. backend \in [Calls -> BackendShape]
  BY Typed DEF Inv
<1>1. /\ backend' \in [Calls -> BackendShape]
      /\ backend'[n].state = s /\ backend'[n].result = backend[n].result
      /\ \A m \in Calls \ {n} : backend'[m] = backend[m]
  BY <1>0 DEF BackendShape
<1>2. SessionTypeOK'
  BY <1>1, Typed, TypedNext DEF Inv
<1>3. \A m \in Calls : CallHolds(m)' /\ SameCall(m)
  BY <1>1, CallStays
<1>4. \A m \in Calls : Looked(m)
  BY <1>1, <1>3 DEF Looked, Holding
<1>5. OneHolds' /\ \A m \in Calls : ReadsTrue(m)' /\ WroteIt(m)'
  BY <1>4, KeepsReading
<1>6. \A e \in Contexts : Remembers(e)'
  BY DEF Inv, Remembers, KeepsTrue
<1> QED
  BY <1>2, <1>3, <1>5, <1>6 DEF Inv

\* A transaction that begins has read and written nothing.
LEMMA BeginKeeps ==
  ASSUME Inv, NEW n \in Calls, Begin(n)
  PROVE  Inv'
<1> DEFINE c == [call[n] EXCEPT !.phase = "transaction"]
<1>0. /\ call \in [Calls -> CallShape] /\ call[n] \in CallShape /\ CallHolds(n)
      /\ backend \in [Calls -> BackendShape]
  BY Typed DEF Inv
<1>1. call' = [call EXCEPT ![n] = c] /\ c \in CallShape
  BY <1>0 DEF Begin, CallShape, Phases
<1>2. call' \in [Calls -> CallShape] /\ call'[n] = c /\ \A m \in Calls \ {n} : call'[m] = call[m]
  BY <1>0, <1>1
<1>3. backend'[n].state = "open"
  BY <1>0 DEF Begin, BackendShape
<1>4. CallHolds(n)' /\ SameCall(n)
  BY <1>0, <1>2, <1>3 DEF Begin, CallHolds, SameCall, CallShape
<1> QED
  BY <1>2, <1>4, TransactionSteps DEF Begin, Backends

\* What a call hears of its statement ends it, or sends its commit.
LEMMA ReceiveKeeps ==
  ASSUME Inv, NEW n \in Calls, Receive(n)
  PROVE  Inv'
<1>1. CASE \E why \in {"SQL", "INTERNAL_ERROR", "EXPIRED"} :
             Finish(n, "failed", why) /\ UNCHANGED backend
  <2>1. Running(n) /\ Borne(n, "failed")
    BY DEF Receive, Guard, Borne
  <2> QED
    BY <1>1, <2>1, FinishKeeps DEF Receive, Outcomes
<1>2. CASE backend[n].state = "ran" /\ SendCommit(n)
  <2> DEFINE c == [call[n] EXCEPT !.phase = "committing"]
  <2>0. /\ call \in [Calls -> CallShape] /\ call[n] \in CallShape /\ CallHolds(n)
        /\ backend \in [Calls -> BackendShape]
    BY Typed DEF Inv
  <2>1. call' = [call EXCEPT ![n] = c] /\ c \in CallShape
    BY <1>2, <2>0 DEF SendCommit, CallShape, Phases
  <2>2. call' \in [Calls -> CallShape] /\ call'[n] = c /\ \A m \in Calls \ {n} : call'[m] = call[m]
    BY <2>0, <2>1
  <2>3. backend'[n].state = "sent"
    BY <1>2, <2>0 DEF SendCommit, BackendShape
  <2>4. CallHolds(n)' /\ SameCall(n)
    BY <2>0, <2>2, <2>3, NoneApart DEF Receive, CallHolds, SameCall, CallShape, Outcomes
  <2> QED
    BY <1>2, <2>2, <2>4, TransactionSteps DEF Receive, SendCommit, Backends, Holding
<1> QED
  BY <1>1, <1>2 DEF Receive

\* A transaction that is refused, lost or rolled back stores nothing.
LEMMA EndsKeeps ==
  ASSUME Inv, NEW n \in Calls, Ends(n)
  PROVE  Inv'
<1>0. call \in [Calls -> CallShape] /\ CallHolds(n) /\ backend \in [Calls -> BackendShape]
  BY Typed DEF Inv
<1>1. PICK s \in {"refused", "gone", "rolledback"} :
        /\ backend' = [backend EXCEPT ![n].state = s]
        /\ backend[n].state \in {"open", "ran", "sent"}
        /\ s = "refused" => backend[n].state = "open"
        /\ s = "rolledback" => backend[n].state = "sent"
  BY DEF Ends
<1>2. backend'[n].state = s
  BY <1>0, <1>1 DEF BackendShape
<1>3. CallHolds(n)' /\ SameCall(n)
  BY <1>0, <1>1, <1>2 DEF Ends, CallHolds, SameCall
<1> QED
  BY <1>0, <1>1, <1>3, TransactionSteps DEF Ends, Backends

\* What mode_issue_flow_session finds is the row of the token or a new one,
\* permitted as the installation stands.
LEMMA IssueReads ==
  ASSUME Inv, NEW n \in Calls, call[n].method = "issue", call[n].context \in Contexts,
         call[n].asked \in Expectation, IssueResult(n) # None
  PROVE  LET data == IssueResult(n)
         IN  /\ data \in SessionRow /\ data.target = call[n].asked.target
             /\ Permitted(data)
             /\ \/ session[call[n].context] = None /\ data.target = installation.target
                \/ session[call[n].context] = data
<1> DEFINE row == session[call[n].context]
           asked == call[n].asked
<1>0. row \in SessionRow \union {None} /\ now \in 0..MaxTime
  BY Typed DEF Inv
<1>1. CASE row = None
  <2>1. IssueResult(n) = [target |-> asked.target, policy |-> asked.policy, until |-> now + Life]
    BY <1>1 DEF IssueResult
  <2>2. Permitted(asked) /\ asked.target = installation.target
    BY <1>1 DEF IssueResult
  <2>3. now + Life \in 0..(MaxTime + Life)
    BY <1>0, Numbers
  <2>4. IssueResult(n) \in SessionRow
    BY <2>1, <2>3 DEF SessionRow, Expectation
  <2> QED
    BY <1>1, <2>1, <2>2, <2>4 DEF Permitted
<1>2. CASE row # None
  BY <1>0, <1>2 DEF IssueResult
<1> QED
  BY <1>1, <1>2

\* What mode_submit_flow_request finds is the accepted request or a new one,
\* under a session that is still permitted.
LEMMA SubmitReads ==
  ASSUME Inv, NEW n \in Calls, call[n].context \in Contexts,
         call[n].asked \in Intents, SubmitResult(n) # None
  PROVE  LET data == SubmitResult(n)
             e == call[n].context
         IN  /\ data \in RequestRow /\ data.intent = call[n].asked
             /\ session[e] # None /\ Permitted(session[e])
             /\ request[e] \in {None, data}
<1>1. request[call[n].context] \in RequestRow \union {None}
  BY Typed DEF Inv
<1> QED
  BY <1>1 DEF SubmitResult, RequestRow

\* A statement that gets its row reads it, and keeps it to the end.
LEMMA RunKeeps ==
  ASSUME Inv, NEW n \in Calls, Run(n)
  PROVE  Inv'
<1> DEFINE result == IF call[n].method = "issue" THEN IssueResult(n) ELSE SubmitResult(n)
           b == [state |-> IF result = None THEN "refused" ELSE "ran", result |-> result]
<1>0. /\ backend \in [Calls -> BackendShape] /\ backend[n].state = "open"
      /\ CallHolds(n) /\ call[n].phase # "none"
  BY Typed DEF Inv, Run, CallHolds
<1>1. /\ call[n].context \in Contexts
      /\ \/ call[n].method = "issue" /\ call[n].asked \in Expectation
         \/ call[n].method = "submit" /\ call[n].asked \in Intents
  BY <1>0 DEF CallHolds
<1>3. result \in SessionRow \union RequestRow \union {None}
  BY <1>1, IssueReads, SubmitReads
<1>4. backend' = [backend EXCEPT ![n] = b]
  BY DEF Run
<1>5. b \in BackendShape
  BY <1>3 DEF BackendShape, Backends
<1>6. /\ backend' \in [Calls -> BackendShape] /\ backend'[n] = b
      /\ \A m \in Calls \ {n} : backend'[m] = backend[m]
  BY <1>0, <1>4, <1>5
<1>7. call' = call /\ session' = session /\ request' = request /\ installation' = installation
  BY DEF Run
<1>8. SessionTypeOK'
  BY <1>6, Typed, TypedNext DEF Inv, Run
<1>9. OneHolds'
  <2>1. \A m \in Calls \ {n} : Holding(m)' => Holding(m) /\ call[m].context # call[n].context
    BY <1>6 DEF Holding, Run, MayLock
  <2> QED
    BY <1>7, <2>1 DEF OneHolds, Inv
<1>10. ASSUME NEW m \in Calls PROVE CallHolds(m)' /\ ReadsTrue(m)' /\ WroteIt(m)'
  <2>1. CASE m # n
    BY <1>6, <1>7, <2>1 DEF Inv, CallHolds, ReadsTrue, WroteIt, Holding, Permitted
  <2>2. CASE m = n
    <3>1. CallHolds(n)' /\ WroteIt(n)'
      BY <1>0, <1>6, <1>7 DEF CallHolds, WroteIt
    <3>2. Holding(n)' => result # None
      BY <1>6 DEF Holding
    <3>3. backend'[n].result = result
      BY <1>6
    <3>4. ASSUME call[n].method = "issue" PROVE ReadsTrue(n)'
      <4>1. result = IssueResult(n)
        BY <3>4
      <4> HIDE DEF result
      <4>2. result # None =>
              /\ result \in SessionRow /\ result.target = call[n].asked.target
              /\ Permitted(result)
              /\ \/ session[call[n].context] = None /\ result.target = installation.target
                 \/ session[call[n].context] = result
        BY <1>1, <3>4, <4>1, IssueReads
      <4> QED
        BY <1>7, <3>2, <3>3, <3>4, <4>2 DEF ReadsTrue, Permitted
    <3>5. ASSUME call[n].method # "issue" PROVE ReadsTrue(n)'
      <4>1. result = SubmitResult(n)
        BY <3>5
      <4> HIDE DEF result
      <4>2. result # None =>
              /\ result \in RequestRow /\ result.intent = call[n].asked
              /\ session[call[n].context] # None /\ Permitted(session[call[n].context])
              /\ request[call[n].context] \in {None, result}
        BY <1>1, <3>5, <4>1, SubmitReads
      <4> QED
        BY <1>7, <3>2, <3>3, <3>5, <4>2 DEF ReadsTrue, Permitted
    <3> QED
      BY <2>2, <3>1, <3>4, <3>5
  <2> QED
    BY <2>1, <2>2
<1>11. \A e \in Contexts : Remembers(e)'
  BY DEF Run, Inv, Remembers, KeepsTrue
<1> QED
  BY <1>8, <1>9, <1>10, <1>11 DEF Inv

\* A commit writes the row it read: no row, once stored, is another.
LEMMA CommitStores ==
  ASSUME Inv, NEW n \in Calls, Commit(n)
  PROVE  /\ session' \in [Contexts -> SessionRow \union {None}]
         /\ request' \in [Contexts -> RequestRow \union {None}]
         /\ \A e \in Contexts : /\ session[e] # None => session'[e] = session[e]
                                /\ request[e] # None => request'[e] = request[e]
         /\ \A e \in Contexts \ {call[n].context} :
              session'[e] = session[e] /\ request'[e] = request[e]
         /\ IF call[n].method = "issue"
            THEN session'[call[n].context] = backend[n].result
            ELSE request'[call[n].context] = backend[n].result
<1>1. /\ session \in [Contexts -> SessionRow \union {None}]
      /\ request \in [Contexts -> RequestRow \union {None}]
      /\ ReadsTrue(n) /\ Holding(n) /\ CallHolds(n)
  BY Typed DEF Inv, Commit, Holding
<1>2. call[n].context \in Contexts
  BY <1>1 DEF CallHolds, Holding
<1>3. CASE call[n].method = "issue"
  <2>1. backend[n].result \in SessionRow /\ session[call[n].context] \in {None, backend[n].result}
    BY <1>1, <1>3 DEF ReadsTrue
  <2> QED
    BY <1>1, <1>2, <1>3, <2>1 DEF Commit
<1>4. CASE call[n].method # "issue"
  <2>1. backend[n].result \in RequestRow /\ request[call[n].context] \in {None, backend[n].result}
    BY <1>1, <1>4 DEF ReadsTrue
  <2> QED
    BY <1>1, <1>2, <1>4, <2>1 DEF Commit
<1> QED
  BY <1>3, <1>4

\* A commit stores what the transaction wrote.
LEMMA CommitKeeps ==
  ASSUME Inv, NEW n \in Calls, Commit(n)
  PROVE  Inv'
<1>0. /\ backend \in [Calls -> BackendShape] /\ backend[n].state = "sent" /\ Holding(n)
      /\ CallHolds(n) /\ ReadsTrue(n)
      /\ call' = call /\ installation' = installation /\ entry' = entry
  BY Typed DEF Inv, Commit, Holding
<1>1. /\ backend' \in [Calls -> BackendShape]
      /\ backend'[n].state = "committed" /\ backend'[n].result = backend[n].result
      /\ \A m \in Calls \ {n} : backend'[m] = backend[m]
  BY <1>0 DEF Commit, BackendShape, Backends
<1>2. SessionTypeOK'
  BY <1>1, CommitStores, Typed, TypedNext DEF Inv, Commit
<1>3. \A m \in Calls : Holding(m)' => m # n /\ Holding(m)
  BY <1>1 DEF Holding
<1>4. OneHolds'
  BY <1>0, <1>3 DEF OneHolds, Inv
<1>5. ASSUME NEW m \in Calls PROVE CallHolds(m)'
  BY <1>0, <1>1, NoneApart DEF Inv, CallHolds, Outcomes
<1>6. ASSUME NEW m \in Calls PROVE ReadsTrue(m)'
  <2> SUFFICES ASSUME Holding(m)' PROVE ReadsTrue(m)'
    BY DEF ReadsTrue
  <2>1. Holding(m) /\ m # n /\ call[m].context # call[n].context /\ backend'[m] = backend[m]
    BY <1>0, <1>1, <1>3 DEF Inv, OneHolds
  <2>2. call[m].context \in Contexts
    BY <2>1 DEF Inv, CallHolds, Holding
  <2>3. /\ session'[call[m].context] = session[call[m].context]
        /\ request'[call[m].context] = request[call[m].context]
    BY <2>1, <2>2, CommitStores
  <2> QED
    BY <1>0, <2>1, <2>3 DEF Inv, ReadsTrue, Permitted
<1>7. ASSUME NEW m \in Calls PROVE WroteIt(m)'
  <2>1. CASE m = n
    BY <1>0, <1>1, <2>1, CommitStores DEF WroteIt, ReadsTrue
  <2>2. CASE m # n
    <3> SUFFICES ASSUME backend[m].state = "committed" PROVE WroteIt(m)'
      BY <1>1, <2>2 DEF WroteIt
    <3>1. call[m].context \in Contexts /\ WroteIt(m)
      BY DEF Inv, CallHolds
    <3> QED
      BY <1>0, <1>1, <2>2, <3>1, CommitStores, NoneApart DEF WroteIt
  <2> QED
    BY <2>1, <2>2
<1>8. ASSUME NEW e \in Contexts PROVE Remembers(e)'
  BY <1>0, CommitStores DEF Inv, Remembers, KeepsTrue
<1> QED
  BY <1>2, <1>4, <1>5, <1>6, <1>7, <1>8 DEF Inv

---------------------------------------------------------------------------
(* The owner and the clock.                                                *)

\* The owner's changes wait for the transactions that share the row.
LEMMA OwnerKeeps ==
  ASSUME Inv, Retarget \/ ChangePolicy
  PROVE  Inv'
<1>0. /\ \A m \in Calls : ~Holding(m)
      /\ UNCHANGED <<now, session, request, entry, call, backend, shut>>
  BY DEF Retarget, ChangePolicy, Unshared
<1>1. installation' \in [target : Revisions, policy : Revisions, enabled : BOOLEAN]
  <2>1. installation \in [target : Revisions, policy : Revisions, enabled : BOOLEAN]
    BY Typed DEF Inv
  <2>2. CASE Retarget
    BY <2>1, <2>2, Numbers DEF Retarget, Revisions
  <2>3. CASE ChangePolicy
    <3>1. installation.policy + 1 \in Revisions
      <4>1. installation.policy \in Revisions /\ installation.policy < MaxRevision
        BY <2>1, <2>3 DEF ChangePolicy
      <4> QED
        BY <4>1, Numbers DEF Revisions
    <3>2. ASSUME NEW on \in BOOLEAN
          PROVE  [installation EXCEPT !.policy = installation.policy + 1, !.enabled = on]
                   \in [target : Revisions, policy : Revisions, enabled : BOOLEAN]
      BY <2>1, <3>1
    <3> QED
      BY <2>3, <3>2 DEF ChangePolicy
  <2> QED
    BY <2>2, <2>3
<1>2. SessionTypeOK'
  BY <1>0, <1>1, Typed, TypedNext DEF Inv
<1>3. OneHolds' /\ \A m \in Calls : CallHolds(m)' /\ ReadsTrue(m)' /\ WroteIt(m)'
  BY <1>0 DEF Inv, OneHolds, CallHolds, ReadsTrue, WroteIt, Holding
<1>4. \A e \in Contexts : Remembers(e)'
  BY <1>0 DEF Inv, Remembers, KeepsTrue
<1> QED
  BY <1>2, <1>3, <1>4 DEF Inv

\* Time passes over the rows.
LEMMA TickKeeps ==
  ASSUME Inv, Tick
  PROVE  Inv'
<1>1. now' \in 0..MaxTime
  BY Typed, Numbers DEF Inv, Tick
<1>2. SessionTypeOK'
  BY <1>1, Typed, TypedNext DEF Inv, Tick
<1>3. \A m \in Calls : CallHolds(m)' /\ SameCall(m)
  BY CallStays DEF Tick
<1>4. \A e \in Contexts : KeepsTrue(entry'[e], e)
  BY DEF Tick, Inv, Remembers
<1> QED
  BY <1>2, <1>3, <1>4, CallSteps DEF Tick

\* A step of something else.
LEMMA StutterKeeps ==
  ASSUME Inv, UNCHANGED sessions
  PROVE  Inv'
<1>1. SessionTypeOK'
  BY Typed, TypedNext DEF Inv, sessions
<1>2. \A m \in Calls : CallHolds(m)' /\ SameCall(m)
  BY CallStays DEF sessions
<1>3. \A e \in Contexts : KeepsTrue(entry'[e], e)
  BY DEF sessions, Inv, Remembers
<1> QED
  BY <1>1, <1>2, <1>3, CallSteps DEF sessions

---------------------------------------------------------------------------
(* The theorems.                                                           *)

\* Every step of the sessions keeps the invariant.
LEMMA StepKeeps == Inv /\ [SessionNext]_sessions => Inv'
BY IssueKeeps, RecoverKeeps, SubmitKeeps, ConnectKeeps, NotConnectedKeeps, BeginKeeps,
   ReceiveKeeps, AcknowledgeKeeps, StopKeeps, RunKeeps, CommitKeeps, EndsKeeps,
   ExpireContextKeeps, UseExpiredKeeps, ShutDownKeeps, OwnerKeeps, TickKeeps, StutterKeeps
DEF SessionNext

\* The invariant, of any behaviour of the sessions.
LEMMA Inductive == SessionSpec => []Inv
BY InitHolds, StepKeeps, PTL DEF SessionSpec

\* The rows, the calls and the transactions keep their shapes.
THEOREM SessionTypes == SessionSpec => []SessionTypeOK
<1>1. Inv => SessionTypeOK
  BY DEF Inv
<1> QED
  BY <1>1, Inductive, PTL

\* What callers are told and what the process remembers is what the database
\* has: a call answered "failed" never commits behind the caller's back, one
\* answered as committed has committed, with the session and the request the
\* caller asked for (the guards, the answers and the memory of
\* mode-session-repository.ts, the transactions of migration 0030).
THEOREM AnswersHold == SessionSpec => []AnswersAreTrue
<1>1. Inv => AnswersAreTrue
  <2> SUFFICES ASSUME Inv PROVE ClaimsAreTrue /\ MemoryIsTrue
    BY DEF AnswersAreTrue
  <2>1. ClaimsAreTrue
    BY DEF Inv, CallHolds, WroteIt, ClaimsAreTrue
  <2>2. MemoryIsTrue
    BY DEF Inv, Remembers, KeepsTrue, MemoryIsTrue
  <2> QED
    BY <2>1, <2>2
<1> QED
  BY <1>1, Inductive, PTL

\* An owner who revokes or changes a policy is not overtaken: what a commit
\* stores is permitted at that very moment, though it was looked up earlier
\* (FOR SHARE in mode_issue_flow_session and mode_submit_flow_request).
THEOREM PolicyIsNotOvertaken == SessionSpec => PolicyHolds
<1>1. ASSUME Inv, [SessionNext]_sessions
      PROVE  [\A e \in Contexts :
                /\ session'[e] # session[e] =>
                     Permitted(session'[e]) /\ session'[e].target = installation.target
                /\ request'[e] # request[e] => session[e] # None /\ Permitted(session[e])]_sessions
  <2>1. CASE UNCHANGED <<session, request>>
    BY <2>1
  <2>2. ASSUME NEW n \in Calls, Commit(n)
        PROVE  \A e \in Contexts :
                 /\ session'[e] # session[e] =>
                      Permitted(session'[e]) /\ session'[e].target = installation.target
                 /\ request'[e] # request[e] => session[e] # None /\ Permitted(session[e])
    <3>1. ReadsTrue(n) /\ Holding(n)
      BY <1>1, <2>2 DEF Inv, Commit, Holding
    <3>2. \A e \in Contexts \ {call[n].context} :
             session'[e] = session[e] /\ request'[e] = request[e]
      BY <1>1, <2>2, CommitStores
    <3>3. CASE call[n].method = "issue"
      <4>1. request' = request /\ session'[call[n].context] = backend[n].result
        BY <1>1, <2>2, <3>3, CommitStores DEF Commit
      <4> QED
        BY <3>1, <3>2, <3>3, <4>1, <2>2 DEF ReadsTrue, Commit
    <3>4. CASE call[n].method # "issue"
      BY <3>1, <3>2, <3>4, <2>2 DEF ReadsTrue, Commit
    <3> QED
      BY <3>3, <3>4
  <2>3. \/ UNCHANGED <<session, request>>
        \/ \E n \in Calls : Commit(n)
    BY <1>1 DEF SessionNext, sessions, Issue, RecoverIssue, Submit, Start, Connect, NotConnected,
                Begin, Receive, Acknowledge, Stop, Run, Ends, ExpireContext, UseExpired,
                ShutDown, Retarget, ChangePolicy, Tick
  <2> QED
    BY <2>1, <2>2, <2>3
<1> QED
  BY <1>1, Inductive, PTL DEF SessionSpec, PolicyHolds
=============================================================================
