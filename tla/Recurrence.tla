------------------------------ MODULE Recurrence ------------------------------
(***************************************************************************)
(* The recurrence of an event.  Exchange keeps a pattern and a range in    *)
(* the time zone of the organiser; graph_recurrence_to_rrule translates    *)
(* both into an RRULE, and graph_event_to_ics puts it beside a DTSTART     *)
(* that Graph has converted to UTC.  What a calendar makes of the result   *)
(* is compared with what Exchange shows.                                   *)
(*                                                                         *)
(* Days are numbered from a Sunday that begins a month and a year; a day   *)
(* has Slots times, a month MonthDays days, a year YearMonths months.  The *)
(* organiser is Offset slots ahead of UTC, after the day Change by another *)
(* offset (summer time).  An event has one slot, its duration is left out. *)
(***************************************************************************)
EXTENDS Integers, FiniteSets

CONSTANTS
    Slots, MonthDays, YearMonths,
    Horizon,    \* bound: last day looked at
    Change,     \* day from which the second offset holds
    Offsets,    \* pairs of offsets, before and after the change
    StartDays,  \* first days of events, before the change
    EndDays,    \* end dates of ranges
    WeekStarts, \* first days of the week
    Intervals, DaySets, Counts

ASSUME CalendarAssumption ==
    /\ Slots \in Nat \ {0} /\ MonthDays \in Nat \ {0} /\ YearMonths \in Nat \ {0}
    /\ Horizon \in Nat /\ Change \in Int
    /\ Offsets \subseteq (-Slots..Slots) \X (-Slots..Slots)

ASSUME EventAssumption ==
    /\ StartDays \subseteq Nat /\ EndDays \subseteq Int /\ WeekStarts \subseteq 0..6
    /\ DaySets \subseteq (SUBSET (0..6)) \ {{}}
    /\ Intervals \subseteq Nat \ {0} /\ Counts \subseteq Nat \ {0}

VARIABLES
    event,  \* what Graph answers
    ics     \* the event as it is put, once it has been converted: a set of one

vars == <<event, ics>>

Weekday(d)    == d % 7
Week(d, wkst) == (d - wkst) \div 7
Month(d)      == d \div MonthDays
DayOfMonth(d) == d % MonthDays
Year(d)       == Month(d) \div YearMonths
MonthOfYear(d) == Month(d) % YearMonths

\* d is the first, the second or the last day of a set.
IsNth(index, S, d) ==
    /\ d \in S
    /\ CASE index = "last"   -> \A x \in S : x <= d
         [] index = "first"  -> \A x \in S : d <= x
         [] index = "second" -> Cardinality({x \in S : x < d}) = 1

Firsts(S, n) == {d \in S : Cardinality({x \in S : x < d}) < n}

-----------------------------------------------------------------------------
(* Exchange: the days an event takes place, where its organiser is.        *)

Types == {"daily", "weekly", "absoluteMonthly", "relativeMonthly",
          "absoluteYearly", "relativeYearly"}

Every(n, a, b) == (b - a) % n = 0

OnPattern(e, d) ==
    LET alike == {x \in 0..Horizon + MonthDays :
                    Month(x) = Month(d) /\ Weekday(x) \in e.days}
        sameDay == DayOfMonth(d) = DayOfMonth(e.day)
        sameMonth == MonthOfYear(d) = MonthOfYear(e.day)
        indexed == IsNth(e.index, alike, d)
    IN  CASE e.type = "daily"  -> Every(e.interval, e.day, d)
          [] e.type = "weekly" -> /\ Weekday(d) \in e.days
                                  /\ Every(e.interval, Week(e.day, e.wkst), Week(d, e.wkst))
          [] e.type = "absoluteMonthly" -> sameDay /\ Every(e.interval, Month(e.day), Month(d))
          [] e.type = "relativeMonthly" -> indexed /\ Every(e.interval, Month(e.day), Month(d))
          [] e.type = "absoluteYearly"  -> sameDay /\ sameMonth /\ Every(e.interval, Year(e.day), Year(d))
          [] e.type = "relativeYearly"  -> indexed /\ sameMonth /\ Every(e.interval, Year(e.day), Year(d))

DaysOf(e) ==
    LET all == {d \in e.day..Horizon : OnPattern(e, d)}
    IN  CASE e.range = "endDate"  -> {d \in all : d <= e.end}
          [] e.range = "numbered" -> Firsts(all, e.count)
          [] e.range = "noEnd"    -> all

Events ==
    {e \in [type : Types, interval : Intervals, days : DaySets, index : {"first", "second", "last"},
            wkst : WeekStarts, range : {"endDate", "numbered", "noEnd"}, count : Counts,
            end : EndDays, day : StartDays, slot : 0..Slots - 1,
            offset : Offsets] :
        /\ OnPattern(e, e.day)
        /\ e.type \notin {"relativeMonthly", "relativeYearly"} => e.index = "first"
        /\ e.type # "weekly" => e.wkst = 0
        /\ e.type \in {"daily", "absoluteMonthly", "absoluteYearly"} =>
             e.days = CHOOSE S \in DaySets : TRUE}

-----------------------------------------------------------------------------
(* The conversion.  0 and {} stand for a part the rule does not have.      *)

Freq(type) ==
    CASE type = "daily" -> "DAILY"
      [] type = "weekly" -> "WEEKLY"
      [] type \in {"absoluteMonthly", "relativeMonthly"} -> "MONTHLY"
      [] type \in {"absoluteYearly", "relativeYearly"} -> "YEARLY"

Relative(e) == e.type \in {"relativeMonthly", "relativeYearly"}
Absolute(e) == e.type \in {"absoluteMonthly", "absoluteYearly"}
Yearly(e)   == e.type \in {"absoluteYearly", "relativeYearly"}

\* Midnight of the end date, in UTC.
Until(e) == e.end * Slots + Slots - 1

NoEnd == (Horizon + 2) * Slots

\* Mutant: every week begins on Sunday.
WkstSunday(e) == 0

Wkst(e) == e.wkst

\* Mutant: the days of the week are given whatever the pattern.
ByDayAlways(e) == e.days

ByDay(e) == IF e.type = "weekly" \/ Relative(e) THEN e.days ELSE {}

Rule(e) ==
    [freq |-> Freq(e.type), interval |-> e.interval, wkst |-> Wkst(e),
     byday      |-> ByDay(e),
     bymonthday |-> IF Absolute(e) THEN {DayOfMonth(e.day)} ELSE {},
     bymonth    |-> IF Yearly(e) THEN {MonthOfYear(e.day)} ELSE {},
     bysetpos   |-> IF Relative(e) THEN {e.index} ELSE {},
     until      |-> IF e.range = "endDate" THEN Until(e) ELSE NoEnd,
     count      |-> IF e.range = "numbered" THEN e.count ELSE 0]

\* Graph's answer is in UTC; the rule is not.
DtStart(e) == e.day * Slots + e.slot - e.offset[1]

Init == event \in Events /\ ics = {}

Convert ==
    /\ ics = {}
    /\ ics' = {[dtstart |-> DtStart(event), rule |-> Rule(event)]}
    /\ UNCHANGED event

Put == ics # {} /\ UNCHANGED vars

Next == Convert \/ Put

Spec == Init /\ [][Next]_vars

-----------------------------------------------------------------------------
(* A calendar: the times of a DTSTART and an RRULE, by RFC 5545.           *)

Period(r, d) ==
    CASE r.freq = "DAILY"   -> d
      [] r.freq = "WEEKLY"  -> Week(d, r.wkst)
      [] r.freq = "MONTHLY" -> Month(d)
      [] r.freq = "YEARLY"  -> Year(d)

Expanded(r, d) ==
    /\ r.byday # {} => Weekday(d) \in r.byday
    /\ r.bymonthday # {} => DayOfMonth(d) \in r.bymonthday
    /\ r.bymonth # {} => MonthOfYear(d) \in r.bymonth

OnRule(r, first, d) ==
    LET alike == {x \in 0..Horizon + MonthDays * YearMonths :
                    Period(r, x) = Period(r, d) /\ Expanded(r, x)}
    IN  /\ Every(r.interval, Period(r, first), Period(r, d))
        /\ Expanded(r, d)
        /\ r.bysetpos # {} => \E index \in r.bysetpos : IsNth(index, alike, d)

Times(c) ==
    LET r == c.rule
        first == c.dtstart \div Slots
        all == {d \in first..Horizon + 1 : OnRule(r, first, d)}
        counted == IF r.count = 0 THEN all ELSE Firsts(all, r.count)
    IN  {t \in {d * Slots + (c.dtstart % Slots) : d \in counted} : t <= r.until}

-----------------------------------------------------------------------------
(* Properties.                                                             *)

Local(e, t) == t + e.offset[IF t < Change * Slots THEN 1 ELSE 2]

Shown(e, c) == {t \in {Local(e, u) : u \in Times(c)} : t \div Slots <= Horizon}

SameDay(e, c) ==
    \A k \in {1, 2} : (c.dtstart % Slots) + e.offset[k] \in 0..Slots - 1

\* An event whose day is the same in UTC takes place on the days it has in
\* Exchange: rule and end date are translated faithfully, summer time or not.
RuleKeepsDays ==
    \A c \in ics :
        SameDay(event, c) => {t \div Slots : t \in Shown(event, c)} = DaysOf(event)

\* A daily event without an end date takes place at the times it has in
\* Exchange, whatever the day in UTC, as long as there is no summer time.
DailyKeepsTimes ==
    \A c \in ics :
        event.type = "daily" /\ event.range # "endDate" /\ event.offset[1] = event.offset[2] =>
            Shown(event, c) = {d * Slots + event.slot : d \in DaysOf(event)}
=============================================================================
