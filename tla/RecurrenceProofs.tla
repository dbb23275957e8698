--------------------------- MODULE RecurrenceProofs ---------------------------
(***************************************************************************)
(* Theorems about Recurrence, for any length of days, months and years, any *)
(* time zone and any set of events.                                        *)
(***************************************************************************)
EXTENDS Recurrence, FiniteSetTheorems, TLAPS

-----------------------------------------------------------------------------
(* Division.                                                               *)

LEMMA DivMod ==
    ASSUME NEW n \in Nat \ {0}, NEW a \in Int
    PROVE  /\ a \div n \in Int /\ a % n \in 0..n - 1
           /\ a = n * (a \div n) + (a % n)
OBVIOUS

LEMMA DivUnique ==
    ASSUME NEW n \in Nat \ {0}, NEW q \in Int, NEW r \in 0..n - 1,
           NEW p \in Int, NEW s \in 0..n - 1, n * q + r = n * p + s
    PROVE  q = p /\ r = s
<1>1. ~(q >= p + 1)
  <2>1. SUFFICES ASSUME q >= p + 1 PROVE FALSE
    OBVIOUS
  <2>2. n * q >= n * (p + 1)
    BY <2>1
  <2>3. n * (p + 1) = n * p + n
    OBVIOUS
  <2> QED
    BY <2>2, <2>3
<1>2. ~(p >= q + 1)
  <2>1. SUFFICES ASSUME p >= q + 1 PROVE FALSE
    OBVIOUS
  <2>2. n * p >= n * (q + 1)
    BY <2>1
  <2>3. n * (q + 1) = n * q + n
    OBVIOUS
  <2> QED
    BY <2>2, <2>3
<1> QED
  BY <1>1, <1>2

LEMMA DivOf ==
    ASSUME NEW n \in Nat \ {0}, NEW q \in Int, NEW r \in 0..n - 1
    PROVE  (q * n + r) \div n = q /\ (q * n + r) % n = r
<1> DEFINE a == q * n + r
<1>1. a \in Int /\ a = n * q + r
  OBVIOUS
<1>2. /\ a \div n \in Int /\ a % n \in 0..n - 1
      /\ a = n * (a \div n) + (a % n)
  BY <1>1, DivMod
<1> QED
  BY <1>1, <1>2, DivUnique

-----------------------------------------------------------------------------
(* Events and calendars.                                                   *)

\* The event as it is put.
Converted(e) == [dtstart |-> DtStart(e), rule |-> Rule(e)]

LEMMA EventFacts ==
    ASSUME NEW e \in Events
    PROVE  /\ e.type \in Types /\ e.range \in {"endDate", "numbered", "noEnd"}
           /\ e.interval \in Nat \ {0} /\ e.count \in Nat \ {0}
           /\ e.days \in DaySets /\ e.days # {} /\ e.wkst \in 0..6
           /\ e.day \in Nat /\ e.end \in Int /\ e.slot \in 0..Slots - 1
           /\ e.offset[1] \in -Slots..Slots /\ e.offset[2] \in -Slots..Slots
  BY EventAssumption, CalendarAssumption DEF Events

LEMMA CalendarFacts ==
    ASSUME NEW d \in Int
    PROVE  /\ Weekday(d) \in 0..6 /\ Month(d) \in Int /\ DayOfMonth(d) \in 0..MonthDays - 1
           /\ Year(d) \in Int /\ MonthOfYear(d) \in 0..YearMonths - 1
           /\ d = MonthDays * Month(d) + DayOfMonth(d)
           /\ Month(d) = YearMonths * Year(d) + MonthOfYear(d)
<1>1. Month(d) \in Int /\ DayOfMonth(d) \in 0..MonthDays - 1
      /\ d = MonthDays * Month(d) + DayOfMonth(d)
  BY DivMod, CalendarAssumption DEF Month, DayOfMonth
<1>2. Year(d) \in Int /\ MonthOfYear(d) \in 0..YearMonths - 1
      /\ Month(d) = YearMonths * Year(d) + MonthOfYear(d)
  BY <1>1, DivMod, CalendarAssumption DEF Year, MonthOfYear
<1>3. Weekday(d) \in 0..6
  BY DEF Weekday
<1> QED
  BY <1>1, <1>2, <1>3

\* The days of a month lie together.
LEMMA MonthIsShort ==
    ASSUME NEW d \in Int, NEW x \in Int, Month(x) = Month(d)
    PROVE  x < d + MonthDays
<1>1. /\ d = MonthDays * Month(d) + DayOfMonth(d) /\ DayOfMonth(d) \in 0..MonthDays - 1
      /\ x = MonthDays * Month(d) + DayOfMonth(x) /\ DayOfMonth(x) \in 0..MonthDays - 1
      /\ MonthDays * Month(d) \in Int
  BY CalendarFacts, CalendarAssumption
<1> QED
  BY <1>1, CalendarAssumption

LEMMA SameMonth ==
    ASSUME NEW d \in Int, NEW x \in Int
    PROVE  Month(x) = Month(d) <=> Year(x) = Year(d) /\ MonthOfYear(x) = MonthOfYear(d)
<1>1. ASSUME Year(x) = Year(d), MonthOfYear(x) = MonthOfYear(d) PROVE Month(x) = Month(d)
  BY <1>1, CalendarFacts
<1>2. ASSUME Month(x) = Month(d) PROVE Year(x) = Year(d) /\ MonthOfYear(x) = MonthOfYear(d)
  BY <1>2 DEF Year, MonthOfYear
<1> QED
  BY <1>1, <1>2

-----------------------------------------------------------------------------
(* The rule names the days of the pattern.                                 *)

LEMMA RuleParts ==
    ASSUME NEW e \in Events
    PROVE  LET r == Rule(e) IN
           /\ r.interval = e.interval /\ r.wkst = e.wkst
           /\ r.count = (IF e.range = "numbered" THEN e.count ELSE 0)
           /\ r.until = (IF e.range = "endDate" THEN e.end * Slots + Slots - 1
                         ELSE (Horizon + 2) * Slots)
  BY DEF Rule, Wkst, Until, NoEnd

\* For patterns without an index.
LEMMA PlainPattern ==
    ASSUME NEW e \in Events, NEW d \in Int,
           e.type \in {"daily", "weekly", "absoluteMonthly", "absoluteYearly"}
    PROVE  OnRule(Rule(e), e.day, d) <=> OnPattern(e, d)
<1> USE EventFacts
<1> DEFINE r == Rule(e)
<1>1. r.bysetpos = {}
  BY DEF Rule, Relative
<1>2. OnRule(r, e.day, d) <=> Every(r.interval, Period(r, e.day), Period(r, d)) /\ Expanded(r, d)
  BY <1>1 DEF OnRule
<1>3. CASE e.type = "daily"
  <2>1. /\ r.freq = "DAILY" /\ r.interval = e.interval
        /\ r.byday = {} /\ r.bymonthday = {} /\ r.bymonth = {}
    BY <1>3 DEF Rule, Freq, ByDay, Relative, Absolute, Yearly
  <2>2. Expanded(r, d) /\ Period(r, d) = d /\ Period(r, e.day) = e.day
    BY <2>1 DEF Expanded, Period
  <2>3. OnPattern(e, d) <=> Every(e.interval, e.day, d)
    BY <1>3 DEF OnPattern
  <2> QED
    BY <1>2, <2>1, <2>2, <2>3
<1>4. CASE e.type = "weekly"
  <2>1. /\ r.freq = "WEEKLY" /\ r.interval = e.interval /\ r.wkst = e.wkst
        /\ r.byday = e.days /\ r.bymonthday = {} /\ r.bymonth = {}
    BY <1>4 DEF Rule, Freq, ByDay, Relative, Absolute, Yearly, Wkst
  <2>2. /\ Expanded(r, d) <=> Weekday(d) \in e.days
        /\ Period(r, d) = Week(d, e.wkst) /\ Period(r, e.day) = Week(e.day, e.wkst)
    BY <2>1 DEF Expanded, Period
  <2>3. OnPattern(e, d) <=> /\ Weekday(d) \in e.days
                            /\ Every(e.interval, Week(e.day, e.wkst), Week(d, e.wkst))
    BY <1>4 DEF OnPattern
  <2> QED
    BY <1>2, <2>1, <2>2, <2>3
<1>5. CASE e.type = "absoluteMonthly"
  <2>1. /\ r.freq = "MONTHLY" /\ r.interval = e.interval
        /\ r.byday = {} /\ r.bymonthday = {DayOfMonth(e.day)} /\ r.bymonth = {}
    BY <1>5 DEF Rule, Freq, ByDay, Relative, Absolute, Yearly
  <2>2. /\ Expanded(r, d) <=> DayOfMonth(d) = DayOfMonth(e.day)
        /\ Period(r, d) = Month(d) /\ Period(r, e.day) = Month(e.day)
    BY <2>1 DEF Expanded, Period
  <2>3. OnPattern(e, d) <=> /\ DayOfMonth(d) = DayOfMonth(e.day)
                            /\ Every(e.interval, Month(e.day), Month(d))
    BY <1>5 DEF OnPattern
  <2> QED
    BY <1>2, <2>1, <2>2, <2>3
<1>6. CASE e.type = "absoluteYearly"
  <2>1. /\ r.freq = "YEARLY" /\ r.interval = e.interval /\ r.byday = {}
        /\ r.bymonthday = {DayOfMonth(e.day)} /\ r.bymonth = {MonthOfYear(e.day)}
    BY <1>6 DEF Rule, Freq, ByDay, Relative, Absolute, Yearly
  <2>2. /\ Expanded(r, d) <=> /\ DayOfMonth(d) = DayOfMonth(e.day)
                              /\ MonthOfYear(d) = MonthOfYear(e.day)
        /\ Period(r, d) = Year(d) /\ Period(r, e.day) = Year(e.day)
    BY <2>1 DEF Expanded, Period
  <2>3. OnPattern(e, d) <=> /\ DayOfMonth(d) = DayOfMonth(e.day)
                            /\ MonthOfYear(d) = MonthOfYear(e.day)
                            /\ Every(e.interval, Year(e.day), Year(d))
    BY <1>6 DEF OnPattern
  <2> QED
    BY <1>2, <2>1, <2>2, <2>3
<1> QED
  BY <1>3, <1>4, <1>5, <1>6

\* The days that compete for an index are those of the month, in the pattern as
\* in the rule.
LEMMA IndexedPattern ==
    ASSUME NEW e \in Events, NEW d \in 0..Horizon,
           e.type \in {"relativeMonthly", "relativeYearly"}
    PROVE  OnRule(Rule(e), e.day, d) <=> OnPattern(e, d)
<1> USE EventFacts, CalendarAssumption
<1> DEFINE r == Rule(e)
           ruled == {x \in 0..Horizon + MonthDays * YearMonths :
                       Period(r, x) = Period(r, d) /\ Expanded(r, x)}
           alike == {x \in 0..Horizon + MonthDays : Month(x) = Month(d) /\ Weekday(x) \in e.days}
<1> SUFFICES OnRule(r, e.day, d) <=> OnPattern(e, d)
  OBVIOUS
<1>0. /\ r.bysetpos = {e.index} /\ r.interval = e.interval
      /\ r.byday = e.days /\ r.bymonthday = {}
  BY DEF Rule, Relative, Absolute, ByDay
<1>1. OnRule(r, e.day, d) <=> /\ Every(e.interval, Period(r, e.day), Period(r, d))
                              /\ Expanded(r, d) /\ IsNth(e.index, ruled, d)
  <2> HIDE DEF r
  <2>1. r.bysetpos # {}
    BY <1>0
  <2> QED
    BY <1>0, <2>1 DEF OnRule
<1>2. MonthDays * YearMonths >= MonthDays /\ MonthDays * YearMonths \in Nat
  OBVIOUS
<1>3. ASSUME NEW x \in Nat, Month(x) = Month(d)
      PROVE  x \in 0..Horizon + MonthDays /\ x \in 0..Horizon + MonthDays * YearMonths
  BY <1>2, <1>3, MonthIsShort
<1>4. \A S : IsNth(e.index, S, d) => d \in S
  BY DEF IsNth
<1>5. CASE e.type = "relativeMonthly"
  <2>1. r.freq = "MONTHLY" /\ r.bymonth = {}
    BY <1>5 DEF Rule, Freq, Yearly
  <2>2. \A x \in Int : /\ Expanded(r, x) <=> Weekday(x) \in e.days
                       /\ Period(r, x) = Month(x)
    BY <1>0, <2>1 DEF Expanded, Period
  <2>3. ruled = alike
    BY <1>2, <1>3, <2>2
  <2>4. OnPattern(e, d) <=> /\ IsNth(e.index, alike, d)
                            /\ Every(e.interval, Month(e.day), Month(d))
    BY <1>5 DEF OnPattern
  <2>5. IsNth(e.index, alike, d) => Weekday(d) \in e.days
    BY <1>4
  <2>6. d \in Int /\ e.day \in Int
    OBVIOUS
  <2> HIDE DEF r, ruled, alike
  <2> QED
    BY <1>1, <2>2, <2>3, <2>4, <2>5, <2>6
<1>6. CASE e.type = "relativeYearly"
  <2>1. r.freq = "YEARLY" /\ r.bymonth = {MonthOfYear(e.day)}
    BY <1>6 DEF Rule, Freq, Yearly
  <2>2. \A x \in Int : /\ Expanded(r, x) <=> /\ Weekday(x) \in e.days
                                             /\ MonthOfYear(x) = MonthOfYear(e.day)
                       /\ Period(r, x) = Year(x)
    BY <1>0, <2>1 DEF Expanded, Period
  <2>3. ASSUME MonthOfYear(d) = MonthOfYear(e.day) PROVE ruled = alike
    <3>1. \A x \in Nat : Period(r, x) = Period(r, d) /\ Expanded(r, x)
                           <=> Month(x) = Month(d) /\ Weekday(x) \in e.days
      BY <2>2, <2>3, SameMonth
    <3> QED
      BY <1>2, <1>3, <3>1
  <2>4. OnPattern(e, d) <=> /\ IsNth(e.index, alike, d)
                            /\ MonthOfYear(d) = MonthOfYear(e.day)
                            /\ Every(e.interval, Year(e.day), Year(d))
    BY <1>6 DEF OnPattern
  <2>5. IsNth(e.index, alike, d) => Weekday(d) \in e.days
    BY <1>4
  <2>6. d \in Int /\ e.day \in Int
    OBVIOUS
  <2> HIDE DEF r, ruled, alike
  <2> QED
    BY <1>1, <2>2, <2>3, <2>4, <2>5, <2>6
<1> QED
  BY <1>5, <1>6

LEMMA RuleIsPattern ==
    ASSUME NEW e \in Events, NEW d \in 0..Horizon
    PROVE  OnRule(Rule(e), e.day, d) <=> OnPattern(e, d)
  BY EventFacts, PlainPattern, IndexedPattern DEF Types

-----------------------------------------------------------------------------
(* Numbered occurrences.                                                   *)

\* Which are the first depends on nothing that comes later.
LEMMA FirstsLocal ==
    ASSUME NEW S \in SUBSET Int, NEW T \in SUBSET Int, NEW n, NEW d \in Int,
           \A x \in Int : x <= d => (x \in S <=> x \in T)
    PROVE  d \in Firsts(S, n) <=> d \in Firsts(T, n)
<1>1. {x \in S : x < d} = {x \in T : x < d}
  <2>1. \A x \in Int : x \in S /\ x < d <=> x \in T /\ x < d
    OBVIOUS
  <2> QED
    BY <2>1, Zenon
<1>2. d \in S <=> d \in T
  OBVIOUS
<1> QED
  BY <1>1, <1>2 DEF Firsts

\* Nor on where the days are counted from.
LEMMA FirstsShifted ==
    ASSUME NEW S \in SUBSET Int, NEW T \in SUBSET Int, IsFiniteSet(S),
           NEW k \in Int, NEW n, NEW d \in Int,
           \A x \in Int : x <= d => (x \in S <=> x + k \in T)
    PROVE  d \in Firsts(S, n) <=> d + k \in Firsts(T, n)
<1> DEFINE P == {x \in S : x < d}
           Q == {x \in T : x < d + k}
           f == [x \in P |-> x + k]
<1>1. IsFiniteSet(P)
  BY FS_Subset
<1>2. f \in Bijection(P, Q)
  <2>1. \A x \in P : x \in Int /\ x + k \in Q
    OBVIOUS
  <2>2. \A y \in Q : y - k \in P /\ f[y - k] = y
    <3> SUFFICES ASSUME NEW y \in Q PROVE y - k \in P /\ f[y - k] = y
      OBVIOUS
    <3>1. y \in Int /\ y - k \in Int /\ y - k < d /\ (y - k) + k = y
      OBVIOUS
    <3>2. y - k \in P
      BY <3>1
    <3> QED
      BY <3>1, <3>2
  <2>3. f \in [P -> Q]
    BY <2>1
  <2>4. \A x, y \in P : f[x] = f[y] => x = y
    BY <2>1
  <2> QED
    BY <2>2, <2>3, <2>4 DEF Bijection, Injection, Surjection, IsInjective
<1>3. Cardinality(P) = Cardinality(Q)
  <2>1. ExistsBijection(P, Q)
    BY <1>2 DEF ExistsBijection
  <2> QED
    BY <1>1, <2>1, FS_Bijection
<1>4. d \in S <=> d + k \in T
  OBVIOUS
<1> QED
  BY <1>3, <1>4 DEF Firsts

-----------------------------------------------------------------------------
(* The days of an event that has the same day in UTC.                      *)

\* The days a calendar counts, as in Times.
OfRule(r, first) == {d \in first..Horizon + 1 : OnRule(r, first, d)}
Counted(r, first) ==
    IF r.count = 0 THEN OfRule(r, first) ELSE Firsts(OfRule(r, first), r.count)

LEMMA TimesAre ==
    ASSUME NEW c
    PROVE  Times(c) = {t \in {d * Slots + (c.dtstart % Slots) :
                                d \in Counted(c.rule, c.dtstart \div Slots)} :
                         t <= c.rule.until}
  BY DEF Times, Counted, OfRule

LEMMA CountedDays ==
    ASSUME NEW r, NEW first \in Int
    PROVE  Counted(r, first) \in SUBSET (first..Horizon + 1)
  BY CalendarAssumption DEF Counted, OfRule, Firsts

\* A time is before the end of a day when its day is no later.
LEMMA BeforeEnd ==
    ASSUME NEW d \in Int, NEW m \in Int, NEW k \in 0..Slots - 1
    PROVE  d * Slots + k <= m * Slots + Slots - 1 <=> d <= m
<1> USE CalendarAssumption
<1>1. ASSUME d <= m PROVE d * Slots <= m * Slots
  BY <1>1
<1>2. ASSUME d >= m + 1 PROVE d * Slots >= m * Slots + Slots
  <2>1. d * Slots >= (m + 1) * Slots
    BY <1>2
  <2> QED
    BY <2>1
<1> QED
  BY <1>1, <1>2

LEMMA DaysOfRule ==
    ASSUME NEW e \in Events, NEW d \in Int, d <= Horizon, NEW k \in 0..Slots - 1
    PROVE  d \in Counted(Rule(e), e.day) /\ d * Slots + k <= Rule(e).until
             <=> d \in DaysOf(e)
<1> USE CalendarAssumption, EventFacts
<1> DEFINE r == Rule(e)
           all == {x \in e.day..Horizon : OnPattern(e, x)}
<1>1. \A x \in Int : x <= Horizon => (x \in OfRule(r, e.day) <=> x \in all)
  BY RuleIsPattern DEF OfRule
<1>2. OfRule(r, e.day) \in SUBSET Int /\ all \in SUBSET Int
  BY DEF OfRule
<1>3. /\ r.count = (IF e.range = "numbered" THEN e.count ELSE 0)
      /\ r.until = (IF e.range = "endDate" THEN e.end * Slots + Slots - 1
                    ELSE (Horizon + 2) * Slots)
  BY RuleParts
<1>4. d * Slots + k <= (Horizon + 2) * Slots
  <2>1. d * Slots + k <= Horizon * Slots + Slots - 1
    BY BeforeEnd
  <2>2. (Horizon + 2) * Slots = Horizon * Slots + Slots + Slots
    OBVIOUS
  <2> QED
    BY <2>1, <2>2
<1> HIDE DEF r, all
<1>5. CASE e.range = "endDate"
  <2>1. DaysOf(e) = {x \in all : x <= e.end}
    BY <1>5 DEF DaysOf, all
  <2>2. Counted(r, e.day) = OfRule(r, e.day)
    BY <1>3, <1>5 DEF Counted
  <2>3. d * Slots + k <= r.until <=> d <= e.end
    BY <1>3, <1>5, BeforeEnd
  <2> QED
    BY <1>1, <2>1, <2>2, <2>3 DEF r
<1>6. CASE e.range = "numbered"
  <2>1. DaysOf(e) = Firsts(all, e.count)
    BY <1>6 DEF DaysOf, all
  <2>2. Counted(r, e.day) = Firsts(OfRule(r, e.day), e.count)
    BY <1>3, <1>6 DEF Counted
  <2>3. d \in Firsts(OfRule(r, e.day), e.count) <=> d \in Firsts(all, e.count)
    BY <1>1, <1>2, FirstsLocal
  <2> QED
    BY <1>3, <1>4, <1>6, <2>1, <2>2, <2>3 DEF r
<1>7. CASE e.range = "noEnd"
  <2>1. DaysOf(e) = all
    BY <1>7 DEF DaysOf, all
  <2>2. Counted(r, e.day) = OfRule(r, e.day)
    BY <1>3, <1>7 DEF Counted
  <2> QED
    BY <1>1, <1>3, <1>4, <1>7, <2>1, <2>2 DEF r
<1> QED
  BY <1>5, <1>6, <1>7

\* A time is shown on the day the rule names, when neither offset leaves it.
LEMMA ShownOn ==
    ASSUME NEW e \in Events, NEW d \in Int, NEW k \in 0..Slots - 1,
           k + e.offset[1] \in 0..Slots - 1, k + e.offset[2] \in 0..Slots - 1
    PROVE  Local(e, d * Slots + k) \div Slots = d
<1> USE CalendarAssumption, EventFacts
<1> DEFINE t == d * Slots + k
<1>1. PICK i \in {1, 2} : Local(e, t) = t + e.offset[i]
  BY DEF Local
<1>2. k + e.offset[i] \in 0..Slots - 1
  BY <1>1
<1>3. Local(e, t) = d * Slots + (k + e.offset[i])
  BY <1>1, <1>2
<1> QED
  BY <1>2, <1>3, DivOf

LEMMA DayOfTime ==
    ASSUME NEW s \in Int, NEW o \in Int, NEW d \in Int, NEW r \in 0..Slots - 1,
           s + o = Slots * d + r, (s % Slots) + o \in 0..Slots - 1
    PROVE  s \div Slots = d
<1> USE CalendarAssumption
<1>1. s \div Slots \in Int /\ s % Slots \in 0..Slots - 1
      /\ s = Slots * (s \div Slots) + (s % Slots)
  BY DivMod
<1> DEFINE q == s \div Slots
           k == s % Slots
<1>2. Slots * q \in Int /\ Slots * d \in Int
  BY <1>1
<1> HIDE DEF q, k
<1>3. Slots * q + (k + o) = Slots * d + r
  BY <1>1, <1>2 DEF q, k
<1> QED
  BY <1>1, <1>3, DivUnique DEF q, k

LEMMA DayInUtc ==
    ASSUME NEW e \in Events, SameDay(e, Converted(e))
    PROVE  LET s == DtStart(e) IN
           /\ s \div Slots = e.day
           /\ s % Slots \in 0..Slots - 1
           /\ (s % Slots) + e.offset[1] \in 0..Slots - 1
           /\ (s % Slots) + e.offset[2] \in 0..Slots - 1
<1> USE CalendarAssumption, EventFacts
<1> DEFINE s == DtStart(e)
           q == s \div Slots
           k == s % Slots
<1>1. s \in Int /\ s + e.offset[1] = Slots * e.day + e.slot
  BY DEF DtStart
<1>2. q \in Int /\ k \in 0..Slots - 1 /\ s = Slots * q + k
  BY <1>1, DivMod
<1>3. k + e.offset[1] \in 0..Slots - 1 /\ k + e.offset[2] \in 0..Slots - 1
  BY DEF SameDay, Converted
<1>4. q = e.day
  <2>1. e.offset[1] \in Int /\ e.day \in Int /\ e.slot \in 0..Slots - 1
    OBVIOUS
  <2> HIDE DEF s
  <2> QED
    BY <1>1, <1>3, <2>1, DayOfTime
<1> QED
  BY <1>2, <1>3, <1>4

LEMMA DaysKept ==
    ASSUME NEW e \in Events, SameDay(e, Converted(e))
    PROVE  {t \div Slots : t \in Shown(e, Converted(e))} = DaysOf(e)
<1> USE CalendarAssumption, EventFacts
<1> DEFINE c == Converted(e)
           k == DtStart(e) % Slots
           days == {t \div Slots : t \in Shown(e, c)}
<1>1. /\ c.dtstart \div Slots = e.day /\ c.dtstart % Slots = k /\ c.rule = Rule(e)
      /\ k \in 0..Slots - 1
      /\ k + e.offset[1] \in 0..Slots - 1 /\ k + e.offset[2] \in 0..Slots - 1
  BY DayInUtc DEF Converted
<1> HIDE DEF k, c
<1>2. Times(c) = {t \in {d * Slots + k : d \in Counted(Rule(e), e.day)} : t <= Rule(e).until}
  BY <1>1, TimesAre
<1>3. Counted(Rule(e), e.day) \in SUBSET Int
  BY CountedDays
<1>4. \A d \in Int : Local(e, d * Slots + k) \div Slots = d
  BY <1>1, ShownOn
<1>5. ASSUME NEW d \in days PROVE d \in DaysOf(e)
  <2>1. PICK u \in Times(c) : d = Local(e, u) \div Slots /\ d <= Horizon
    BY DEF Shown
  <2>2. PICK b \in Counted(Rule(e), e.day) : u = b * Slots + k /\ u <= Rule(e).until
    BY <1>2, <2>1
  <2>3. d = b /\ b \in Int
    BY <1>3, <1>4, <2>1, <2>2
  <2> QED
    BY <1>1, <2>1, <2>2, <2>3, DaysOfRule
<1>6. ASSUME NEW d \in DaysOf(e) PROVE d \in days
  <2>1. d \in Int /\ d <= Horizon
    BY DEF DaysOf, Firsts
  <2>2. d \in Counted(Rule(e), e.day) /\ d * Slots + k <= Rule(e).until
    BY <1>1, <2>1, DaysOfRule
  <2>3. d * Slots + k \in Times(c)
    BY <1>2, <2>2
  <2>4. Local(e, d * Slots + k) \div Slots = d
    BY <1>4, <2>1
  <2>5. Local(e, d * Slots + k) \in Shown(e, c)
    BY <2>1, <2>3, <2>4 DEF Shown
  <2> QED
    BY <2>4, <2>5
<1> QED
  BY <1>5, <1>6 DEF c

\* What is put is the event converted.
ConvertInv == event \in Events /\ ics \subseteq {Converted(event)}

LEMMA ConvertCorrect == Spec => []ConvertInv
<1>1. Init => ConvertInv
  BY DEF Init, ConvertInv
<1>2. ConvertInv /\ [Next]_vars => ConvertInv'
  BY DEF ConvertInv, Next, Convert, Put, vars, Converted
<1> QED
  BY <1>1, <1>2, PTL DEF Spec

\* An event of any pattern and range that has the same day in UTC takes place in
\* mailcow on the days it has in Exchange, in summer time or not.
THEOREM RulesKeepDays == Spec => []RuleKeepsDays
<1>1. ConvertInv => RuleKeepsDays
  BY DaysKept DEF ConvertInv, RuleKeepsDays
<1> QED
  BY <1>1, ConvertCorrect, PTL

-----------------------------------------------------------------------------
(* The times of a daily event, wherever its day is in UTC.                 *)

\* An event begins at most a day later in UTC, and its times are those of its own
\* time zone as many days apart as their days are.
LEMMA ShiftedDay ==
    ASSUME NEW e \in Events, e.offset[1] = e.offset[2]
    PROVE  LET first == DtStart(e) \div Slots
               k == DtStart(e) % Slots
           IN  /\ first \in Int /\ k \in 0..Slots - 1 /\ e.day - first >= -1
               /\ \A d \in Int :
                    Local(e, d * Slots + k) = (d + (e.day - first)) * Slots + e.slot
<1> DEFINE s == DtStart(e)
           first == s \div Slots
           k == s % Slots
           o == e.offset[1]
<1> SUFFICES /\ first \in Int /\ k \in 0..Slots - 1 /\ e.day - first >= -1
             /\ \A d \in Int :
                  Local(e, d * Slots + k) = (d + (e.day - first)) * Slots + e.slot
  OBVIOUS
<1>1. s \in Int /\ o \in -Slots..Slots /\ s = e.day * Slots + e.slot - o
  BY CalendarAssumption, EventFacts DEF DtStart
<1>2. first \in Int /\ k \in 0..Slots - 1 /\ s = Slots * first + k
  BY <1>1, DivMod, CalendarAssumption
<1>3. e.day \in Int /\ e.slot \in 0..Slots - 1 /\ Slots \in Nat \ {0}
  BY CalendarAssumption, EventFacts
<1>4. \A d \in Int : Local(e, d * Slots + k) = d * Slots + k + o
  BY <1>1, <1>2, <1>3, CalendarAssumption DEF Local
<1> HIDE DEF s, first, k, o
<1>5. first <= e.day + 1
  <2>1. (e.day + 1) * Slots = e.day * Slots + Slots /\ first * Slots = Slots * first
    BY <1>2, <1>3
  <2>2. first * Slots + k <= (e.day + 1) * Slots + Slots - 1
    BY <1>1, <1>2, <1>3, <2>1
  <2>3. e.day + 1 \in Int
    BY <1>3
  <2> QED
    BY <1>2, <2>2, <2>3, BeforeEnd, Zenon
<1>6. ASSUME NEW d \in Int
      PROVE  Local(e, d * Slots + k) = (d + (e.day - first)) * Slots + e.slot
  <2> DEFINE p == d * Slots
             b == e.day * Slots
             f == Slots * first
             g == (e.day - first) * Slots
             w == (d + (e.day - first)) * Slots
  <2>1. e.day - first \in Int /\ Slots \in Int
    BY <1>2, <1>3
  <2>2. p \in Int /\ b \in Int /\ f \in Int /\ g \in Int
    BY <1>2, <1>3, <2>1
  <2>3. w = p + g
    BY <2>1
  <2>4. g = b - f
    BY <1>2, <1>3
  <2>5. f + k = b + e.slot - o
    BY <1>1, <1>2
  <2>6. Local(e, d * Slots + k) = p + k + o
    BY <1>4
  <2> HIDE DEF p, b, f, g, w
  <2>7. p + k + o = w + e.slot
    BY <1>1, <1>2, <1>3, <2>2, <2>3, <2>4, <2>5
  <2> QED
    BY <2>6, <2>7 DEF w
<1> QED
  BY <1>2, <1>3, <1>5, <1>6

LEMMA DailyDays ==
    ASSUME NEW e \in Events, e.type = "daily", e.range # "endDate",
           NEW first \in Int, e.day - first >= -1,
           NEW d \in Int, d + (e.day - first) <= Horizon
    PROVE  d \in Counted(Rule(e), first) <=> d + (e.day - first) \in DaysOf(e)
<1> USE CalendarAssumption, EventFacts
<1> DEFINE r == Rule(e)
           shift == e.day - first
           all == {y \in e.day..Horizon : OnPattern(e, y)}
<1>1. \A x \in Int : OnRule(r, first, x) <=> Every(e.interval, first, x)
  <2>1. /\ r.freq = "DAILY" /\ r.interval = e.interval /\ r.bysetpos = {}
        /\ r.byday = {} /\ r.bymonthday = {} /\ r.bymonth = {}
    BY DEF Rule, Freq, ByDay, Relative, Absolute, Yearly
  <2> HIDE DEF r
  <2> QED
    BY <2>1 DEF OnRule, Expanded, Period
<1>2. \A y \in Int : OnPattern(e, y) <=> Every(e.interval, e.day, y)
  BY DEF OnPattern
<1>3. r.count = (IF e.range = "numbered" THEN e.count ELSE 0)
  BY RuleParts
<1>4. e.day \in Nat /\ shift \in Int
  OBVIOUS
<1> HIDE DEF r
<1>5. ASSUME NEW x \in Int, x <= d PROVE x \in OfRule(r, first) <=> x + shift \in all
  <2>1. Every(e.interval, first, x) <=> Every(e.interval, e.day, x + shift)
    <3>1. x - first = (x + shift) - e.day
      BY <1>4
    <3> QED
      BY <3>1 DEF Every
  <2>2. x \in first..Horizon + 1 <=> x >= first
    BY <1>5
  <2>3. x + shift \in e.day..Horizon <=> x >= first
    BY <1>5
  <2> QED
    BY <1>1, <1>2, <2>1, <2>2, <2>3 DEF OfRule
<1>6. /\ OfRule(r, first) \in SUBSET Int /\ all \in SUBSET Int
      /\ IsFiniteSet(OfRule(r, first))
  <2>1. OfRule(r, first) \subseteq first..Horizon + 1 /\ all \in SUBSET Int
    BY DEF OfRule
  <2>2. IsFiniteSet(first..Horizon + 1)
    <3>1. Horizon + 1 \in Int
      OBVIOUS
    <3> QED
      BY <3>1, FS_Interval
  <2> QED
    BY <2>1, <2>2, FS_Subset
<1>7. CASE e.range = "numbered"
  <2>1. DaysOf(e) = Firsts(all, e.count) /\ Counted(r, first) = Firsts(OfRule(r, first), e.count)
    BY <1>3, <1>7 DEF DaysOf, Counted
  <2>3. \A x \in Int : x <= d => (x \in OfRule(r, first) <=> x + shift \in all)
    BY <1>5
  <2> HIDE DEF shift, all
  <2>2. d \in Firsts(OfRule(r, first), e.count) <=> d + shift \in Firsts(all, e.count)
    BY <1>4, <1>6, <2>3, FirstsShifted
  <2> QED
    BY <2>1, <2>2 DEF shift, r
<1>8. CASE e.range = "noEnd"
  <2>1. DaysOf(e) = all /\ Counted(r, first) = OfRule(r, first)
    BY <1>3, <1>8 DEF DaysOf, Counted
  <2> QED
    BY <1>5, <2>1 DEF r
<1> QED
  BY <1>7, <1>8

LEMMA TimesKept ==
    ASSUME NEW e \in Events, e.type = "daily", e.range # "endDate",
           e.offset[1] = e.offset[2]
    PROVE  Shown(e, Converted(e)) = {d * Slots + e.slot : d \in DaysOf(e)}
<1> USE CalendarAssumption, EventFacts
<1> DEFINE c == Converted(e)
           first == DtStart(e) \div Slots
           k == DtStart(e) % Slots
           shift == e.day - first
<1>1. /\ first \in Int /\ k \in 0..Slots - 1 /\ shift >= -1 /\ shift \in Int
      /\ \A d \in Int : Local(e, d * Slots + k) = (d + shift) * Slots + e.slot
  BY ShiftedDay
<1>2. c.dtstart \div Slots = first /\ c.dtstart % Slots = k /\ c.rule = Rule(e)
  BY DEF Converted
<1>3. \A d \in Int : d + shift <= Horizon =>
        (d \in Counted(Rule(e), first) <=> d + shift \in DaysOf(e))
  BY <1>1, DailyDays
<1>4. Rule(e).until = (Horizon + 2) * Slots
  BY RuleParts
<1>5. Counted(Rule(e), first) \in SUBSET (first..Horizon + 1)
  BY <1>1, CountedDays
<1> HIDE DEF c, first, k, shift
<1>6. Times(c) = {t \in {d * Slots + k : d \in Counted(Rule(e), first)} :
                    t <= (Horizon + 2) * Slots}
  BY <1>2, <1>4, TimesAre
<1>7. \A d \in Int : ((d + shift) * Slots + e.slot) \div Slots = d + shift
  <2> SUFFICES ASSUME NEW d \in Int
               PROVE  ((d + shift) * Slots + e.slot) \div Slots = d + shift
    OBVIOUS
  <2>1. d + shift \in Int /\ e.slot \in 0..Slots - 1
    BY <1>1
  <2> QED
    BY <2>1, DivOf
<1>8. ASSUME NEW t \in Shown(e, c) PROVE \E d \in DaysOf(e) : t = d * Slots + e.slot
  <2>1. PICK u \in Times(c) : t = Local(e, u) /\ t \div Slots <= Horizon
    BY DEF Shown
  <2>2. PICK b \in Counted(Rule(e), first) : u = b * Slots + k
    BY <1>6, <2>1
  <2>3. b \in Int /\ t = (b + shift) * Slots + e.slot
    <3>1. b \in Int
      BY <1>5
    <3> QED
      BY <1>1, <2>1, <2>2, <3>1
  <2>4. b + shift <= Horizon
    BY <1>7, <2>1, <2>3
  <2> QED
    BY <1>3, <2>2, <2>3, <2>4
<1>9. ASSUME NEW d \in DaysOf(e) PROVE d * Slots + e.slot \in Shown(e, c)
  <2>1. d \in Int /\ d <= Horizon
    BY DEF DaysOf, Firsts
  <2> DEFINE b == d - shift
  <2>2. b \in Int /\ b + shift = d /\ b <= Horizon + 1
    BY <1>1, <2>1
  <2> HIDE DEF b
  <2>3. b \in Counted(Rule(e), first)
    BY <1>3, <2>1, <2>2
  <2>4. b * Slots + k <= (Horizon + 2) * Slots
    <3>1. b * Slots + k <= (Horizon + 1) * Slots + Slots - 1
      BY <1>1, <2>2, BeforeEnd
    <3>2. (Horizon + 2) * Slots = (Horizon + 1) * Slots + Slots /\ (Horizon + 1) * Slots \in Int
      OBVIOUS
    <3>3. b * Slots \in Int
      BY <2>2
    <3> QED
      BY <1>1, <3>1, <3>2, <3>3
  <2>5. b * Slots + k \in Times(c)
    BY <1>6, <2>3, <2>4
  <2>6. Local(e, b * Slots + k) = d * Slots + e.slot
    BY <1>1, <2>2
  <2>7. (d * Slots + e.slot) \div Slots = d
    BY <2>1, DivOf
  <2> QED
    BY <2>1, <2>5, <2>6, <2>7 DEF Shown
<1> QED
  BY <1>8, <1>9 DEF c

\* A daily event without an end date takes place in mailcow at the times it has in
\* Exchange, as long as there is no summer time: it does not matter that its day
\* in UTC may be another.
THEOREM DailyEventsKeepTimes == Spec => []DailyKeepsTimes
<1>1. ConvertInv => DailyKeepsTimes
  BY TimesKept DEF ConvertInv, DailyKeepsTimes
<1> QED
  BY <1>1, ConvertCorrect, PTL
=============================================================================
