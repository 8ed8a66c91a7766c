------------------------------ MODULE TimeWindow ------------------------------
(***************************************************************************)
(* The time window in which kured may start a reboot (pkg/timewindow).     *)
(*                                                                         *)
(* Real time is counted in instants, two to each unit of the schedule: the *)
(* first one of the unit and its last nanosecond.  24 hours have DayUnits  *)
(* units.  A zone is a record: on zone.day its clock is set back by        *)
(* zone.by units when it is due to show zone.at + zone.by, or forward from *)
(* zone.at by -zone.by units; with zone.by = 0 it never changes.           *)
(***************************************************************************)
EXTENDS Integers

CONSTANT DayUnits

ASSUME DayUnitsAssumption == DayUnits \in Nat \ {0}

\* The first unit of day d, counted from the first unit of day 0.
DayStart(zone, d) == d * DayUnits + (IF d > zone.day THEN zone.by ELSE 0)

\* By how much the clock is changed, in either direction.
Change(zone) == IF zone.by >= 0 THEN zone.by ELSE 0 - zone.by

\* The change begins and ends within the day.
IsZone(zone) ==
    /\ zone \in [day : Nat, at : Nat, by : Int]
    /\ zone.at + Change(zone) < DayUnits

IsWindow(window) ==
    window \in [days : SUBSET (0..6), start : 0..(DayUnits - 1), end : 0..(DayUnits - 1)]

\* The unit of that day in which it happens.
ChangeUnit(zone) == IF zone.by > 0 THEN zone.at + zone.by ELSE zone.at

Unit(t) == t \div 2

DayOf(zone, t) ==
    CHOOSE d \in 0..(Unit(t) \div DayUnits + 1) :
        DayStart(zone, d) <= Unit(t) /\ Unit(t) < DayStart(zone, d + 1)

Weekday(d) == d % 7

\* What a clock on the wall shows, in units.
WallClock(zone, t) ==
    LET d == DayOf(zone, t)
        i == Unit(t) - DayStart(zone, d)
    IN  IF d = zone.day /\ i >= ChangeUnit(zone) THEN i - zone.by ELSE i

\* time.Date: the first or last instant of the unit of day d at which the clock
\* shows w.  Of a time that the clock shows twice or not at all it promises only
\* that it is right by one of the two offsets.
Date(zone, d, w, last) ==
    LET before == 2 * (DayStart(zone, d) + w) + last
        after == before + 2 * zone.by
    IN  CASE d # zone.day \/ w < zone.at -> {before}
          [] d = zone.day /\ w >= zone.at + Change(zone) -> {after}
          [] OTHER -> {before, after}

-----------------------------------------------------------------------------

Hours24 == 2 * DayUnits

Wraps(window) == window.start > window.end

ClosesEarly(zone, window, t) ==  \* mutant: end without its last second
    Date(zone, DayOf(zone, t), window.end, 0)

\* The two ends of the window on the day of t, as time.Date may take them.
Opens(zone, window, t) == Date(zone, DayOf(zone, t), window.start, 0)
Closes(zone, window, t) == Date(zone, DayOf(zone, t), window.end, 1)

\* mutant: a wrapped window is widened at both ends
BetweenWidened(window, t, start, end) ==
    IF ~Wraps(window) THEN start <= t /\ t <= end
    ELSE start - Hours24 <= t /\ t <= end + Hours24

\* A window whose start is after its end began 24 hours earlier or ends 24 hours
\* later.
Between(window, t, start, end) ==
    IF ~Wraps(window) THEN start <= t /\ t <= end
    ELSE IF t < end THEN start - Hours24 <= t /\ t <= end
    ELSE start <= t /\ t <= end + Hours24

Contains(zone, window, t, start, end) ==
    /\ Weekday(DayOf(zone, t)) \in window.days
    /\ Between(window, t, start, end)

-----------------------------------------------------------------------------
(* What the flags say: --reboot-days, "schedule reboot on these days";     *)
(* --start-time, "only after this time of day"; --end-time, "only before   *)
(* this time of day".                                                      *)

InWindow(zone, window, t) ==
    LET w == WallClock(zone, t)
    IN  /\ Weekday(DayOf(zone, t)) \in window.days
        /\ IF Wraps(window) THEN w >= window.start \/ w <= window.end
                            ELSE w >= window.start /\ w <= window.end

\* On the day of the change the clock shows w twice or not at all.
Doubtful(zone, d, w) == d = zone.day /\ w >= zone.at /\ w < zone.at + Change(zone)

BothEndsClear(zone, window, t) ==
    LET d == DayOf(zone, t)
    IN  ~Doubtful(zone, d, window.start) /\ ~Doubtful(zone, d, window.end)

\* The day on which the clock is set back is longer than 24 hours.
IsLongDay(zone, t) == DayOf(zone, t) = zone.day /\ zone.by > 0

\* The instant at which a wrapped window is taken to go on for a day, and is
\* compared with the wrong start.
IsLastInstant(zone, window, t) ==
    Wraps(window) /\ WallClock(zone, t) = window.end /\ t % 2 = 1
=============================================================================
