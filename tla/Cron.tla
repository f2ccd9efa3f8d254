-------------------------------- MODULE Cron --------------------------------
(***************************************************************************)
(* The schedule expressions of the announcements: five fields parsed into   *)
(* sets of values, the test the scanner makes each minute, and the list of   *)
(* the next firings the cards show.  The calendar is a parameter, so that a  *)
(* small one (two minutes to the hour ...) can be explored completely; the  *)
(* rules that combine the fields are the code's.                             *)
(***************************************************************************)
EXTENDS Naturals, FiniteSets

CONSTANTS
    MinutesPerHour, HoursPerDay, DaysPerWeek, DaysPerMonth, MonthsPerYear,
    ScanDays          \* NEXT_SCAN_MAX_DAYS: how far the next firings are searched

ASSUME CronConstants ==
    {MinutesPerHour, HoursPerDay, DaysPerWeek, DaysPerMonth, MonthsPerYear, ScanDays}
        \subseteq Nat \ {0}

MinutesPerDay == MinutesPerHour * HoursPerDay

(* The local date of minute t, counted from minute 0.                        *)
DayOf(t)     == t \div MinutesPerDay
MinuteAt(t)  == t % MinutesPerHour
HourAt(t)    == (t \div MinutesPerHour) % HoursPerDay
WeekdayOf(d) == d % DaysPerWeek
DateOf(d)    == 1 + (d % DaysPerMonth)
MonthOf(d)   == 1 + ((d \div DaysPerMonth) % MonthsPerYear)

-----------------------------------------------------------------------------
(* A field is a set of items: "*", a value, a range, each with a step.  The  *)
(* result names a refused field by an empty set of values.                   *)
Item == [star : BOOLEAN, lo : Nat, hi : Nat, step : Nat, stepped : BOOLEAN]

ItemOk(item, min, max) ==
    /\ item.step > 0
    /\ \/ item.star
       \/ item.lo \in min .. max /\ item.hi \in item.lo .. max

ItemFrom(item, min) == IF item.star THEN min ELSE item.lo

(* A single value with a step runs to the end of the field ("5/10").         *)
ItemTo(item, max) ==
    IF item.star \/ (item.stepped /\ item.lo = item.hi) THEN max ELSE item.hi

ItemValues(item, min, max) ==
    {v \in ItemFrom(item, min) .. ItemTo(item, max) :
        (v - ItemFrom(item, min)) % item.step = 0}

ParseField(items, min, max) ==
    IF items # {} /\ \A item \in items : ItemOk(item, min, max)
    THEN UNION {ItemValues(item, min, max) : item \in items}
    ELSE {}

Wildcard(items) == \E item \in items : item.star

(* parseCronExpression: any refused field refuses the expression.  The last  *)
(* weekday number is another name of Sunday.                                 *)
SpecOf(e) ==
    [minutes |-> ParseField(e.minute, 0, MinutesPerHour - 1),
     hours   |-> ParseField(e.hour, 0, HoursPerDay - 1),
     days    |-> ParseField(e.day, 1, DaysPerMonth),
     months  |-> ParseField(e.month, 1, MonthsPerYear),
     weekdays |-> {v % DaysPerWeek : v \in ParseField(e.week, 0, DaysPerWeek)},
     domRestricted |-> ~Wildcard(e.day),
     dowRestricted |-> ~Wildcard(e.week)]

Parses(e) ==
    LET spec == SpecOf(e)
    IN  {} \notin {spec.minutes, spec.hours, spec.days, spec.months, spec.weekdays}

-----------------------------------------------------------------------------
(* With both the date and the weekday restricted, either one is enough.      *)
DayMatches(spec, d) ==
    LET day  == DateOf(d) \in spec.days
        week == WeekdayOf(d) \in spec.weekdays
    IN  \/ spec.domRestricted /\ spec.dowRestricted /\ (day \/ week)
        \/ spec.domRestricted /\ ~spec.dowRestricted /\ day
        \/ ~spec.domRestricted /\ spec.dowRestricted /\ week
        \/ ~spec.domRestricted /\ ~spec.dowRestricted

CronMatches(spec, t) ==
    /\ MinuteAt(t) \in spec.minutes
    /\ HourAt(t) \in spec.hours
    /\ MonthOf(DayOf(t)) \in spec.months
    /\ DayMatches(spec, DayOf(t))

(* The n earliest members of a set of minutes.                               *)
Earliest(n, times) == {t \in times : Cardinality({u \in times : u < t}) < n}

(* nextFireTimes: day by day from the day of `from`, the hours and minutes   *)
(* of each day that matches, only those after the minute of `from`.          *)
Candidates(spec, from) ==
    {d * MinutesPerDay + h * MinutesPerHour + m :
        d \in {d \in DayOf(from) .. DayOf(from) + ScanDays - 1 :
                    MonthOf(d) \in spec.months /\ DayMatches(spec, d)},
        h \in spec.hours, m \in spec.minutes}

(* A bug for the runs to find: the minute of `from` itself is listed.         *)
NextFireTimesIncl(spec, from, n) ==
    Earliest(n, {t \in Candidates(spec, from) : t >= from})

(* `from` is excluded to the minute.                                         *)
NextFireTimes(spec, from, n) ==
    Earliest(n, {t \in Candidates(spec, from) : t > from})
=============================================================================
