---------------------------- MODULE HostedRequests ----------------------------
(***************************************************************************)
(* The hosted request form (HostedFlow) and the customer's session on the  *)
(* server (flow_sessions, submit_flow_request): a session is pinned to the *)
(* version its installation had, takes one request, and expires.  The page *)
(* keeps the body it sent and repeats it until an answer arrives; a page   *)
(* can be left while its call is under way, and opened again.              *)
(***************************************************************************)
EXTENDS Integers, FiniteSets

CONSTANTS
  Pages,          \* the customers' pages
  Contents,       \* what a customer asks for: answers, name and time
  MaxSessions,    \* sessions a page opens
  MaxKeys         \* idempotency keys, drawn at random

ASSUME HostedAssumption == MaxSessions \in Nat /\ MaxKeys \in Nat

VARIABLES
  page,           \* what each page holds
  session,        \* flow_sessions and flow_requests, by page and number
  keysDrawn, onWire

hosting == <<page, session, keysDrawn, onWire>>

NoContent == "none"
NoBody == [key |-> 0, content |-> NoContent]
NoSession == [status |-> "none", stored |-> NoBody]
Opening == [session |-> 0, form |-> NoContent, pending |-> NoBody, busy |-> FALSE, reference |-> 0]

HostedInit ==
  /\ page = [p \in Pages |-> Opening]
  /\ session = [s \in Pages \X (1 .. MaxSessions) |-> NoSession]
  /\ keysDrawn = 0
  /\ onWire = {}

Mine(p) == <<p, page[p].session>>
Opened(p) == Cardinality({n \in 1 .. MaxSessions : session[<<p, n>>] # NoSession})

\* The page opens, or is opened again, with nothing of before: issue_flow_session.
OpenPage(p) ==
  /\ Opened(p) < MaxSessions
  /\ LET n == Opened(p) + 1
     IN /\ page' = [page EXCEPT ![p] = [Opening EXCEPT !.session = n]]
        /\ session' = [session EXCEPT ![<<p, n>>].status = "open"]
  /\ UNCHANGED <<keysDrawn, onWire>>

\* The form is locked while a body waits for its answer.
FillIn(p, c) ==
  /\ page[p].session > 0 /\ page[p].reference = 0
  /\ ~page[p].busy /\ page[p].pending = NoBody
  /\ page' = [page EXCEPT ![p].form = c]
  /\ UNCHANGED <<session, keysDrawn, onWire>>

Wire(p, body) == [page |-> p, session |-> Mine(p), body |-> body]

\* As if every press sent what the form says, under a key of its own.
Mutant_NewKey(p) ==
  /\ page[p].session > 0 /\ page[p].reference = 0 /\ ~page[p].busy
  /\ page[p].form # NoContent
  /\ keysDrawn < MaxKeys
  /\ keysDrawn' = keysDrawn + 1
  /\ LET body == [key |-> keysDrawn', content |-> page[p].form]
     IN /\ page' = [page EXCEPT ![p].busy = TRUE, ![p].pending = body]
        /\ onWire' = onWire \cup {Wire(p, body)}
  /\ UNCHANGED session

\* submit: the first press checks the form and draws the key, any other repeats
\* the body kept.
Submit(p) ==
  /\ page[p].session > 0 /\ page[p].reference = 0 /\ ~page[p].busy
  /\ IF page[p].pending = NoBody
     THEN /\ page[p].form # NoContent
          /\ keysDrawn < MaxKeys
          /\ keysDrawn' = keysDrawn + 1
          /\ LET body == [key |-> keysDrawn', content |-> page[p].form]
             IN /\ page' = [page EXCEPT ![p].busy = TRUE, ![p].pending = body]
                /\ onWire' = onWire \cup {Wire(p, body)}
     ELSE /\ page' = [page EXCEPT ![p].busy = TRUE]
          /\ onWire' = onWire \cup {Wire(p, page[p].pending)}
          /\ UNCHANGED keysDrawn
  /\ UNCHANGED session

\* submit_flow_request: the first request of an open session is stored with its
\* booking; the same one again is answered the same, any other refused.
Accepts(w) ==
  /\ session[w.session].status = "open"
  /\ session[w.session].stored \in {NoBody, w.body}
Waits(w) == page[w.page].busy /\ Mine(w.page) = w.session /\ page[w.page].pending = w.body

\* An answer reaches the page that still waits for this body, or is lost.
Serve(w, answered) ==
  /\ w \in onWire
  /\ Accepts(w)
  /\ session' = [session EXCEPT ![w.session].stored = w.body]
  /\ onWire' = onWire \ {w}
  /\ page' = IF answered /\ Waits(w)
             THEN [page EXCEPT ![w.page] = [Opening EXCEPT !.reference = w.session[2]]]
             ELSE IF Waits(w) THEN [page EXCEPT ![w.page].busy = FALSE] ELSE page
  /\ UNCHANGED keysDrawn

\* Refused, or never arrived: the page offers the same request again.
Fail(w) ==
  /\ w \in onWire
  /\ onWire' = onWire \ {w}
  /\ page' = IF Waits(w) THEN [page EXCEPT ![w.page].busy = FALSE] ELSE page
  /\ UNCHANGED <<session, keysDrawn>>

\* The answer is given up while the server still has the request.
GiveUpWaiting(w) ==
  /\ w \in onWire /\ Waits(w)
  /\ page' = [page EXCEPT ![w.page].busy = FALSE]
  /\ UNCHANGED <<session, keysDrawn, onWire>>

Expire(s) ==
  /\ session[s].status = "open"
  /\ session' = [session EXCEPT ![s].status = "expired"]
  /\ UNCHANGED <<page, keysDrawn, onWire>>

HostedNext ==
  \/ \E p \in Pages : OpenPage(p) \/ Submit(p) \/ \E c \in Contents : FillIn(p, c)
  \/ \E w \in onWire : Fail(w) \/ GiveUpWaiting(w) \/ \E answered \in BOOLEAN : Serve(w, answered)
  \/ \E s \in DOMAIN session : Expire(s)
HostedSpec == HostedInit /\ [][HostedNext]_hosting

-----------------------------------------------------------------------------
\* The request a page keeps offering to repeat is the one that is stored, when
\* any is: a customer whose answer was lost never has one request stored while
\* the page is about to send another, which could only be refused.
RepeatIsStored ==
  \A p \in Pages :
    page[p].pending # NoBody /\ session[Mine(p)].stored # NoBody
      => session[Mine(p)].stored = page[p].pending
=============================================================================
