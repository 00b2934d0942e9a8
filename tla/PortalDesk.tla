------------------------------ MODULE PortalDesk ------------------------------
(***************************************************************************)
(* The owner portal's desk: its pages over the in-memory store of all      *)
(* tenants, each read and change scoped to the tenant signed in.  A change *)
(* of a booking touches its row, its history and the event log; the pages  *)
(* add up the rows each in a way of its own.  The store's clock stands     *)
(* still, as STORE_NOW does.                                               *)
(***************************************************************************)
EXTENDS Integers, Sequences, FiniteSets, SequencesExt, FiniteSetsExt

CONSTANTS Us,                  \* the tenant signed in
          DeskBookings,        \* records [id, tenant, email, seed, day, total]
          DeskCustomers,       \* records [id, tenant, email]
          DeskServices,        \* records [id, tenant]
          UpcomingLimit,       \* 5 rows
          MaxEdits             \* settings edits explored

BookingTransitions ==
  [draft |-> {"pending_payment", "failed"}, pending_payment |-> {"confirmed", "failed"},
   confirmed |-> {"completed", "cancelled", "refunded"}, completed |-> {"refunded"},
   cancelled |-> {"refunded"}, refunded |-> {}, failed |-> {}]

\* As createStore makes them: ids are uuids, totals amounts; a tenant's customers
\* have an e-mail each and its bookings are theirs.
ASSUME DeskAssumption ==
  /\ IsFiniteSet(DeskBookings) /\ IsFiniteSet(DeskCustomers)
  /\ \A b \in DeskBookings : b.total \in Nat /\ b.id # "tenant" /\ b.seed \in DOMAIN BookingTransitions
  /\ \A a, b \in DeskBookings : a.id = b.id => a = b
  /\ \A b \in DeskBookings :
       b.tenant = Us => \E c \in DeskCustomers : c.tenant = Us /\ c.email = b.email
  /\ \A c, d \in DeskCustomers : c.tenant = Us /\ d.tenant = Us /\ c.email = d.email => c = d
  /\ UpcomingLimit \in Nat

VARIABLES states,              \* the bookings' current states
          past,                \* store.history: changes since the seed
          log,                 \* store.events
          active,              \* the services switched on
          screen               \* what the owner has before her
porting == <<states, past, log, active, screen>>

Nothing == "nothing"
Page(name) == [page |-> name, tab |-> "all", search |-> Nothing, selected |-> Nothing]
PortalInit ==
  /\ states = [b \in DeskBookings |-> b.seed]
  /\ past = [b \in DeskBookings |-> <<>>]
  /\ log = <<>>
  /\ active = DeskServices
  /\ screen = Page("dashboard")

Scoped(rows) == {r \in rows : r.tenant = Us}

\* listBookings: the tab, then the words searched for.
ListBookings(tab, search) ==
  {b \in Scoped(DeskBookings) : /\ tab \in {"all", states[b]}
                                /\ search \in {Nothing, b.email}}
GetBooking(id) == {b \in Scoped(DeskBookings) : b.id = id}
LegalNextStates(s) == BookingTransitions[s] \cap {"completed", "cancelled"}

\* The dashboard.
Awaited == {b \in Scoped(DeskBookings) :
              states[b] \in {"confirmed", "pending_payment"} /\ b.day >= 0}
UpcomingRows == IF Cardinality(Awaited) < UpcomingLimit THEN Cardinality(Awaited) ELSE UpcomingLimit
Worth(rows) == FoldSet(LAMBDA b, sum : b.total + sum, 0, rows)
WeekRevenue == Worth({b \in Scoped(DeskBookings) : states[b] = "confirmed" /\ b.day \in 0..6})
StateCount(s) == Cardinality({b \in Scoped(DeskBookings) : states[b] = s})

\* The customers' page: a customer's bookings are found by her e-mail.
ListCustomerBookings(c) ==
  IF c.tenant # Us THEN {} ELSE {b \in Scoped(DeskBookings) : b.email = c.email}
LifetimeValue(c) ==
  Worth({b \in ListCustomerBookings(c) : states[b] \in {"confirmed", "completed"}})

Event(name, about) == [tenant |-> Us, name |-> name, about |-> about]
Visit(name) == screen' = Page(name) /\ UNCHANGED <<states, past, log, active>>
ShowTab(tab) ==
  /\ screen.page = "bookings" /\ screen' = [screen EXCEPT !.tab = tab]
  /\ UNCHANGED <<states, past, log, active>>
Search(words) ==
  /\ screen.page = "bookings" /\ screen' = [screen EXCEPT !.search = words]
  /\ UNCHANGED <<states, past, log, active>>
\* A row opens the drawer, which stays open when its row leaves the list.
OpenBooking(b) ==
  /\ screen.page = "bookings" /\ b \in ListBookings(screen.tab, screen.search)
  /\ screen' = [screen EXCEPT !.selected = b.id]
  /\ UNCHANGED <<states, past, log, active>>
OpenCustomer(c) ==
  /\ screen.page = "customers" /\ c \in Scoped(DeskCustomers)
  /\ screen' = [screen EXCEPT !.selected = c.id]
  /\ UNCHANGED <<states, past, log, active>>
CloseDrawer ==
  /\ screen.selected # Nothing /\ screen' = [screen EXCEPT !.selected = Nothing]
  /\ UNCHANGED <<states, past, log, active>>

\* transitionBooking, from a button of the drawer.
Mutant_StateFirst(b, to) ==
  /\ states' = [states EXCEPT ![b] = to]
  /\ past' = [past EXCEPT ![b] = Append(@, [from |-> states'[b], to |-> to])]
  /\ log' = Append(log, Event(to, b.id))
TransitionBooking(b, to) ==
  /\ past' = [past EXCEPT ![b] = Append(@, [from |-> states[b], to |-> to])]
  /\ states' = [states EXCEPT ![b] = to]
  /\ log' = Append(log, Event(to, b.id))
Mark(to) ==
  /\ screen.page = "bookings"
  /\ \E b \in GetBooking(screen.selected) :
       to \in LegalNextStates(states[b]) /\ TransitionBooking(b, to)
  /\ UNCHANGED <<active, screen>>

\* setServiceActive, the checkbox of a service's card.
SetServiceActive(s, on) ==
  /\ screen.page = "services" /\ s \in Scoped(DeskServices)
  /\ active' = IF on THEN active \cup {s} ELSE active \ {s}
  /\ UNCHANGED <<states, past, log, screen>>
\* updateTenantSettings: one event for each keystroke.
Edits == Cardinality({i \in DOMAIN log : log[i].about = "tenant"})
UpdateTenantSettings ==
  /\ screen.page = "settings" /\ Edits < MaxEdits
  /\ log' = Append(log, Event("settings_updated", "tenant"))
  /\ UNCHANGED <<states, past, active, screen>>

PortalNext ==
  \/ \E name \in {"dashboard", "bookings", "customers", "services", "settings"} : Visit(name)
  \/ \E tab \in {"all", "confirmed", "completed"} : ShowTab(tab)
  \/ \E words \in {Nothing} \cup {c.email : c \in DeskCustomers} : Search(words)
  \/ \E b \in DeskBookings : OpenBooking(b)
  \/ \E c \in DeskCustomers : OpenCustomer(c)
  \/ \E to \in {"completed", "cancelled"} : Mark(to)
  \/ \E s \in DeskServices, on \in BOOLEAN : SetServiceActive(s, on)
  \/ CloseDrawer \/ UpdateTenantSettings

PortalSpec == PortalInit /\ [][PortalNext]_porting
-----------------------------------------------------------------------------
\* How many of the first events are about a booking.
Told(story, i, id) == Cardinality({j \in 1..i : story[j].about = id})

\* A booking's history leads by legal steps from its seed to its state, and the
\* event log tells the same story in the same order; of another tenant's bookings
\* and services nothing moves.
TrailRebuildsDesk ==
  \A b \in DeskBookings :
    LET h == past[b]
    IN /\ \A i \in DOMAIN h :
            /\ h[i].from = IF i = 1 THEN b.seed ELSE h[i - 1].to
            /\ h[i].to \in BookingTransitions[h[i].from]
       /\ Told(log, Len(log), b.id) = Len(h)
       /\ \A i \in DOMAIN log :
            log[i].about = b.id => log[i] = Event(h[Told(log, i, b.id)].to, b.id)
       /\ states[b] = IF h = <<>> THEN b.seed ELSE Last(h).to
       /\ b.tenant # Us => h = <<>>

\* The pages add up: what the customers are worth together is what the confirmed
\* and completed bookings are worth, the week's revenue is part of it, and the
\* dashboard lists as many bookings as the counts of their states allow.
Earned == {b \in Scoped(DeskBookings) : states[b] \in {"confirmed", "completed"}}
PagesAddUp ==
  /\ FoldSet(LAMBDA c, sum : LifetimeValue(c) + sum, 0, DeskCustomers) = Worth(Earned)
  /\ WeekRevenue <= Worth(Earned)
  /\ UpcomingRows <= StateCount("confirmed") + StateCount("pending_payment")
  /\ DeskServices \ active \subseteq Scoped(DeskServices)

\* The event log accounts for every row, and the pages for the same money.
DeskAgrees == TrailRebuildsDesk /\ PagesAddUp
=============================================================================
