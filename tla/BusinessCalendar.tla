-------------------------- MODULE BusinessCalendar --------------------------
(***************************************************************************)
(* Working time of one published calendar version (sla/calendar.py).       *)
(*                                                                         *)
(* Instants are ticks of UTC.  Local[t] is what the wall clock of the      *)
(* calendar's time zone reads at t, as a number of ticks since the         *)
(* midnight of date 0: a reading may be skipped (the clock is put forward) *)
(* or occur twice (put back).  Hours are pairs of clock readings of a day. *)
(* A calendar version the code refuses to evaluate is not a Calendar.      *)
(***************************************************************************)
EXTENDS Integers, FiniteSetsExt

CONSTANTS
    Local,          \* the wall clock of the time zone, by instant
    DayLength,      \* ticks of a local day
    WeekLength,     \* days of a week
    Calendar        \* [always, periods, exceptions] of the calendar version

Clock == 0 .. DayLength - 1

\* _validated_periods: the hours of a weekday are not empty and do not overlap.
ValidPeriods ==
    /\ DOMAIN Calendar.periods = 0 .. WeekLength - 1
    /\ \A day \in 0 .. WeekLength - 1 : \A h \in Calendar.periods[day] :
         /\ h \in Clock \X Clock /\ h[1] < h[2]
         /\ \A k \in Calendar.periods[day] \ {h} : h[2] <= k[1] \/ k[2] <= h[1]

\* _validated_exceptions: a closed date has no hours, other exceptions have some.
ValidExceptions ==
    \A x \in Calendar.exceptions :
        IF x.closed THEN x.hours = << >> ELSE x.hours \in Clock \X Clock /\ x.hours[1] < x.hours[2]

ASSUME CalendarAssumption ==
    /\ DayLength \in Nat \ {0} /\ WeekLength \in Nat \ {0}
    /\ DOMAIN Local \subseteq Nat /\ IsFiniteSet(DOMAIN Local)
    /\ \A t \in DOMAIN Local : Local[t] \in Nat
    /\ Calendar.always \in BOOLEAN /\ ValidPeriods /\ ValidExceptions

Instants == DOMAIN Local
DateOf(t) == Local[t] \div DayLength
Dates == {DateOf(t) : t \in Instants}

Readings(naive) == {t \in Instants : Local[t] = naive}

\* _local_boundary: a period starts when its reading first occurs and ends when it last
\* does; a reading that is skipped stands for the next one that is not.
Boundary(naive, end) ==
    IF Readings(naive) # {} THEN IF end THEN Max(Readings(naive)) ELSE Min(Readings(naive))
    ELSE Min({t \in Instants : Local[t] > naive})

\* The hours of a date: a closed exception, else its custom hours, else those of the weekday.
Hours(date) ==
    LET exceptions == {x \in Calendar.exceptions : x.date = date}
        custom == {x.hours : x \in exceptions}
    IN  IF \E x \in exceptions : x.closed THEN {}
        ELSE IF exceptions # {} THEN custom
        ELSE Calendar.periods[date % WeekLength]

\* _intervals: what the merged intervals of a date cover.
Intervals(date) ==
    LET midnight == date * DayLength
        Covered(from, to) == Boundary(from, FALSE) .. Boundary(to, TRUE) - 1
    IN  IF Calendar.always THEN Covered(midnight, midnight + DayLength)
        ELSE UNION {Covered(midnight + h[1], midnight + h[2]) : h \in Hours(date)}

\* A date is open on that date only.  Left out is a clock put back over midnight while
\* open: the code then counts the repeated time twice, once for either date.
ASSUME DatesAssumption ==
    \A date \in Dates : \A t \in Instants \cap Intervals(date) : DateOf(t) = date

OpenTicks == UNION {Intervals(date) : date \in Dates}

Open(t) == t \in OpenTicks

\* business_seconds_between: open ticks in the half-open interval [a, b).
Between(a, b) == Cardinality(OpenTicks \cap (a .. b - 1))

\* Mutant of Add: a deadline that ignores closed hours.
Add_WallClock(t, n) == t + n

\* add_business_seconds: the instant reached after consuming n open ticks.
Add(t, n) ==
    IF n = 0 THEN t
    ELSE 1 + (CHOOSE u \in Instants : Open(u) /\ Between(t, u + 1) = n)

=============================================================================
