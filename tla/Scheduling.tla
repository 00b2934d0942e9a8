----------------------------- MODULE Scheduling -----------------------------
(***************************************************************************)
(* Which appointment times a tenant offers (packages/core availability.ts, *)
(* and the server's copy of it).  A business day is a weekly rule, or a    *)
(* dated override, less the blackouts that cover the date; a window offers *)
(* a start at every interval, with the window's capacity, and each booking *)
(* takes one place of every start it overlaps.  Time is counted in whole   *)
(* units, a day has DayLength of them, and the tenant's clock may jump.    *)
(***************************************************************************)
EXTENDS Integers, Sequences, FiniteSets, FiniteSetsExt

CONSTANTS
  Calendars,     \* the configurations a tenant may have: rules, overrides,
                 \* blackouts and the clock's offset before and after a jump
  Service,       \* the service asked for; Anyone stands for serviceId null
  Anyone,
  DayLength, Dates,
  Weekday,       \* the weekday of each date
  Duration, Interval, LeadTime, HorizonLength,
  MaxBookings    \* bound: bookings made

ASSUME SchedulingAssumption ==
  /\ DayLength \in Nat \ {0} /\ Dates \subseteq Nat /\ IsFiniteSet(Dates)
  /\ Duration \in Nat \ {0} /\ Interval \in Nat \ {0}
  /\ LeadTime \in Nat /\ HorizonLength \in Nat /\ MaxBookings \in Nat

\* The rows of a configuration: times of day, and the places of a window.
ASSUME CalendarRows ==
  \A c \in Calendars :
    /\ IsFiniteSet(c.rules) /\ IsFiniteSet(c.overrides) /\ IsFiniteSet(c.blackouts)
    /\ \A x \in c.rules \cup c.overrides : x.start \in Int /\ x.end \in Int /\ x.capacity \in Nat
    /\ \A b \in c.blackouts : b.start \in Int /\ b.end \in Int
    /\ c.before \in Int /\ c.after \in Int

VARIABLES
  setup,         \* the tenant's configuration
  present,       \* now
  booked         \* the start of each booking, in the order they were made

schedule == <<setup, present, booked>>

-----------------------------------------------------------------------------
\* tzOffsetMs: local time minus UTC at an instant.  The clock jumps at
\* setup.jump from setup.before to setup.after.
Offset(utc) == IF utc < setup.jump THEN setup.before ELSE setup.after

\* localMinuteToUtcMs: a first guess with the offset at the wall time read as
\* an instant, then the offset at the guess.
LocalToUtc(date, minute) ==
  LET wall  == date * DayLength + minute
      guess == wall - Offset(wall)
  IN wall - Offset(guess)

AppliesTo(x) == x.service \in {Anyone, Service}

\* What is the service's own replaces what is everyone's.
OwnOrAll(s) == LET own == {x \in s : x.service = Service} IN IF own # {} THEN own ELSE s

RuleEffectiveOn(r, date) == r.from <= date /\ date <= r.to
BlackoutCovers(b, date) ==
  AppliesTo(b) /\ Min({b.from, b.to}) <= date /\ date <= Max({b.from, b.to})

Span(x) == [start |-> x.start, end |-> x.end, capacity |-> x.capacity, name |-> x.name]

\* A closed override empties the day, open ones replace the rules in force,
\* and a malformed one offers nothing.
BaseWindows(date, inForce) ==
  LET overrides == OwnOrAll({o \in setup.overrides : o.date = date /\ AppliesTo(o)})
      open  == {o \in overrides : o.kind = "open"}
      rules == OwnOrAll({r \in inForce : r.weekday = Weekday[date] /\ AppliesTo(r)})
  IN IF \E o \in overrides : o.kind = "closed" THEN {}
     ELSE {Span(x) : x \in {x \in (IF open # {} THEN open ELSE rules) : x.start < x.end}}

\* What a blackout leaves of the windows of its day.
SubtractInterval(windows, b) ==
  {w \in windows : b.end <= w.start \/ b.start >= w.end}
  \cup UNION {{[w EXCEPT !.end = b.start], [w EXCEPT !.start = b.end]} :
                w \in {w \in windows : b.end > w.start /\ b.start < w.end}}
SubtractAll(windows, covering) ==
  FoldSet(LAMBDA b, ws : SubtractInterval(ws, b), windows, covering)

\* A blackout without a time of day, or a malformed one, empties the day.
ApplyBlackouts(date, windows) ==
  LET covering == {b \in setup.blackouts : BlackoutCovers(b, date)}
  IN IF \E b \in covering : b.start >= b.end THEN {}
     ELSE {w \in SubtractAll(windows, covering) : w.start < w.end}

Windows(date) ==
  ApplyBlackouts(date, BaseWindows(date, {r \in setup.rules : RuleEffectiveOn(r, date)}))

EffectiveFrom == present + LeadTime
EffectiveTo == present + HorizonLength

\* The starts a window offers, each as the minute of its day.
Minutes(w) == {m \in w.start .. w.end - Duration : (m - w.start) % Interval = 0}

\* capacityByStart: a start that several windows, or several minutes of one,
\* offer has the sum of their capacities.
Offers(windows) ==
  UNION {{[at |-> LocalToUtc(p[1], m), date |-> p[1], minute |-> m, window |-> p[2]] :
            m \in Minutes(p[2])} : p \in UNION {{d} \X windows[d] : d \in Dates}}
CapacityAt(offers, start) ==
  MapThenSumSet(LAMBDA o : o.window.capacity, {o \in offers : o.at = start})

\* As if a booking took a place of its own start only.
Mutant_SameStart(start) == Cardinality({i \in DOMAIN booked : booked[i] = start})

\* A booking takes a place of every start whose appointment it overlaps.
Consumed(start) ==
  Cardinality({i \in DOMAIN booked :
                 booked[i] < start + Duration /\ booked[i] + Duration > start})

Remaining(offers, start) == CapacityAt(offers, start) - Consumed(start)
SlotsAmong(offers) ==
  {s \in {o.at : o \in offers} : /\ EffectiveFrom <= s /\ s <= EffectiveTo
                                 /\ Remaining(offers, s) >= 1}
Slots == SlotsAmong(Offers([d \in Dates |-> Windows(d)]))

\* The server's copy knows neither blackouts nor the dates a rule is in force.
ServerWindows(date) == BaseWindows(date, setup.rules)
ServerSlots == SlotsAmong(Offers([d \in Dates |-> ServerWindows(d)]))

-----------------------------------------------------------------------------
SchedulingInit == setup \in Calendars /\ present = 0 /\ booked = <<>>

Book(start) ==
  /\ Len(booked) < MaxBookings
  /\ start \in Slots
  /\ booked' = Append(booked, start)
  /\ UNCHANGED <<setup, present>>

ReleaseBooking(i) ==
  /\ booked' = [j \in 1 .. Len(booked) - 1 |-> IF j < i THEN booked[j] ELSE booked[j + 1]]
  /\ UNCHANGED <<setup, present>>

DayPasses ==
  /\ present < Max(Dates) * DayLength
  /\ present' = present + DayLength
  /\ UNCHANGED <<setup, booked>>

SchedulingNext ==
  \/ \E s \in Slots : Book(s)
  \/ \E i \in DOMAIN booked : ReleaseBooking(i)
  \/ DayPasses

SchedulingSpec == SchedulingInit /\ [][SchedulingNext]_schedule

-----------------------------------------------------------------------------
DayWindows == UNION {{d} \X Windows(d) : d \in Dates}
PlacesOf(windows) == MapThenSumSet(LAMBDA p : p[2].capacity, windows)
Covering(u) ==
  {p \in DayWindows : LocalToUtc(p[1], p[2].start) <= u /\ u < LocalToUtc(p[1], p[2].end)}
Taken(u) == {i \in DOMAIN booked : booked[i] <= u /\ u < booked[i] + Duration}

\* Within a window the clock is never put forward: at least as much time passes
\* between two of its minutes as the minutes say.  Where it is, two minutes are
\* one instant, and capacityByStart counts the window's places twice.
NeverPutForward ==
  \A d \in Dates : \A w \in Windows(d) : \A m, n \in w.start .. w.end :
    m <= n => LocalToUtc(d, n) - LocalToUtc(d, m) >= n - m

\* Whatever windows overlap and in whatever order the offered times are taken
\* and given back, no moment is ever booked beyond the places of the windows
\* that cover it: a moment of a blackout, which none covers, not at all.
NeverOverCapacity ==
  \A u \in {booked[i] + k : i \in DOMAIN booked, k \in 0 .. Duration - 1} :
    Cardinality(Taken(u)) <= PlacesOf(Covering(u))

\* What _shared/availability.ts says of itself: it is in lock-step with the
\* engine.
LockStep == ServerSlots = Slots
=============================================================================
