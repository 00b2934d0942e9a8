---------------------------- MODULE CalendarBusy ----------------------------
(***************************************************************************)
(* The external calendars of packages/integrations (calendar.ts): events   *)
(* written for bookings, what each kind of provider answers as busy, and   *)
(* the merge of that with the platform's own holds.  Windows are half-open *)
(* intervals of whole time units.  A list of windows that is only filtered *)
(* and then sorted is a set here: the merge shows neither its order nor a  *)
(* window that is listed twice.                                            *)
(***************************************************************************)
EXTENDS Sorting

CONSTANTS
  CalendarTenants,
  Seed,          \* the busy windows the provider starts with
  Holds,         \* the platform's own holds
  Horizon,       \* windows lie in 0 .. Horizon
  MaxEvents      \* bound: events created

Window == [start : 0 .. Horizon, end : 0 .. Horizon]

ASSUME CalendarAssumption ==
  /\ Horizon \in Nat /\ MaxEvents \in Nat
  /\ Seed \subseteq Window /\ Holds \subseteq Window

VARIABLES
  events,        \* the adapter's events by number; NoEvent once deleted
  cancelled      \* the numbers of the deleted events, in order

calendar == <<events, cancelled>>

NoEvent == [tenant |-> "none"]
Tagged(w, source) == [start |-> w.start, end |-> w.end, source |-> source]
Overlaps(w, range) == w.start < range.end /\ w.end > range.start

CalendarInit == events = <<>> /\ cancelled = <<>>

CreateEvent(t, w) ==
  /\ Len(events) < MaxEvents
  /\ events' = Append(events, [tenant |-> t, start |-> w.start, end |-> w.end])
  /\ UNCHANGED cancelled

\* An event of another tenant, or none, is left alone.
OwnEvent(t, e) == events[e] # NoEvent /\ events[e].tenant = t

UpdateEvent(t, e, w) ==
  /\ OwnEvent(t, e)
  /\ events' = [events EXCEPT ![e] = [@ EXCEPT !.start = w.start, !.end = w.end]]
  /\ UNCHANGED cancelled

DeleteEvent(t, e) ==
  /\ OwnEvent(t, e)
  /\ events' = [events EXCEPT ![e] = NoEvent]
  /\ cancelled' = Append(cancelled, e)

CalendarNext ==
  \E t \in CalendarTenants :
    \/ \E w \in Window : CreateEvent(t, w)
    \/ \E e \in DOMAIN events : DeleteEvent(t, e) \/ \E w \in Window : UpdateEvent(t, e, w)

CalendarSpec == CalendarInit /\ [][CalendarNext]_calendar

-----------------------------------------------------------------------------
\* A free/busy provider knows its own windows; one that lists events adds the
\* tenant's events, which mirror the platform's bookings.
InRange(ws, range) == {w \in ws : Overlaps(w, range)}
EventsOf(t) == {e \in ToSet(events) : e # NoEvent /\ e.tenant = t}
ReadBusyQuery(t, range) == InRange(Seed, range)
ReadBusyEvents(t, range) ==
  InRange(Seed \cup {[start |-> e.start, end |-> e.end] : e \in EventsOf(t)}, range)

\* As if a window ended the last one's time whenever it is merged into it.
Mutant_EndsEarly(merged, w) ==
  LET last == merged[Len(merged)]
      source == IF w.source = "internal" THEN "internal" ELSE last.source
  IN IF merged # <<>> /\ w.start <= last.end
       THEN [merged EXCEPT ![Len(merged)] =
               [start |-> last.start, end |-> w.end, source |-> source]]
       ELSE Append(merged, w)

\* One pass over the windows in the order of their starts: a window that
\* overlaps or touches the last one extends it, and an internal hold makes the
\* whole of it internal.
Absorb(merged, w) ==
  LET last == merged[Len(merged)]
      both == [start |-> last.start,
               end |-> IF w.end > last.end THEN w.end ELSE last.end,
               source |-> IF "internal" \in {w.source, last.source}
                            THEN "internal" ELSE last.source]
  IN IF merged # <<>> /\ w.start <= last.end
       THEN [merged EXCEPT ![Len(merged)] = both]
       ELSE Append(merged, w)

MergeBusy(internal, external) ==
  LET all == {Tagged(w, "internal") : w \in internal} \cup {Tagged(w, "external") : w \in external}
      real == {w \in all : w.end > w.start}
      byStart == {p \in real \X real : p[1].start <= p[2].start}
  IN FoldLeft(Absorb, <<>>, SortedBy(byStart, real))

\* The moments a set of windows takes.
At(ws) == {u \in 0 .. Horizon - 1 : \E w \in ws : w.start <= u /\ u < w.end}

\* Whatever events are written, moved and deleted, the merged windows are busy
\* exactly when a hold or the calendar is, leave a gap between any two of them,
\* and show a hold's time as internal, that of the platform itself; and a busy
\* answer names no event of another tenant.
BusyIsMerged ==
  \A t \in CalendarTenants :
    LET range == [start |-> 0, end |-> Horizon]
        external == ReadBusyEvents(t, range)
        merged == MergeBusy(Holds, external)
        internal == {w \in ToSet(merged) : w.source = "internal"}
    IN /\ At(ToSet(merged)) = At(Holds) \cup At(external)
       /\ \A i \in 1 .. Len(merged) - 1 : merged[i].end < merged[i + 1].start
       /\ At(Holds) \subseteq At(internal)
       /\ \A w \in internal : At({w}) \cap At(Holds) # {}
       /\ At(external) \subseteq At(ReadBusyQuery(t, range)) \cup At(EventsOf(t))
=============================================================================
