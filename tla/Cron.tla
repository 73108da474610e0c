------------------------------- MODULE Cron -------------------------------
(***************************************************************************)
(* The occurrence engine of a deployment's schedule                        *)
(* (src/internal/cron/cron.go): a five-field expression matched against    *)
(* the wall clock of a timezone.                                           *)
(*                                                                         *)
(* Instants and wall clocks are minutes counted from one epoch, on a       *)
(* calendar whose hours, days, weeks and months are as short as the        *)
(* constants make them; the algorithm reads its calendar from them, so the *)
(* walk is the code's own.  A zone is the function that gives the offset   *)
(* in force at every instant.  An expression is the five fields, each a    *)
(* set of list elements; text is left out.                                 *)
(***************************************************************************)
EXTENDS Integers, Sequences, FiniteSets, FiniteSetsExt

CONSTANTS
    MinutesPerHour, HoursPerDay, DaysPerWeek,
    MonthDays,          \* the days of each month of the year, a sequence
    SearchYears,
    AmbiguityMargin,    \* minutes the walk reaches past each of its bounds
    ProbeDistance,      \* minutes from a day's noon to its two outer probes
    Expressions, Zones, Counts, FirstAfter, LastAfter, WindowLength

VARIABLES
    query               \* what is asked: an expression, a zone, a bound, a count

Star == [star |-> TRUE, lo |-> 0, hi |-> 0, step |-> 0]

---------------------------------------------------------------------------
(* The calendar (package time).                                            *)

MinutesPerDay == MinutesPerHour * HoursPerDay

\* The day of the year on which month m begins.
MonthStart[m \in 1 .. Len(MonthDays) + 1] ==
    IF m = 1 THEN 0 ELSE MonthStart[m - 1] + MonthDays[m - 1]

DaysPerYear == MonthStart[Len(MonthDays) + 1]

DayNo(w) == w \div MinutesPerDay

YearOf(w) == DayNo(w) \div DaysPerYear

MonthOf(w) ==
    CHOOSE m \in DOMAIN MonthDays :
        LET d == DayNo(w) % DaysPerYear
        IN  MonthStart[m] <= d /\ d < MonthStart[m] + MonthDays[m]

DayOf(w) == (DayNo(w) % DaysPerYear) - MonthStart[MonthOf(w)] + 1

Weekday(w) == DayNo(w) % DaysPerWeek

HourOf(w) == (w % MinutesPerDay) \div MinutesPerHour

MinuteOf(w) == w % MinutesPerHour

\* The wall clock a zone shows at an instant.
In(zone, u) == u + zone[u]

---------------------------------------------------------------------------
(* The expression.                                                         *)

Fields == <<[min |-> 0, max |-> MinutesPerHour - 1],
            [min |-> 0, max |-> HoursPerDay - 1],
            [min |-> 1, max |-> Max({ MonthDays[m] : m \in DOMAIN MonthDays })],
            [min |-> 1, max |-> Len(MonthDays)],
            [min |-> 0, max |-> DaysPerWeek]>>

\* parseValue: a number inside the field.
ParseValue(v, f) == v \in f.min .. f.max

\* parseField's refusals for one element: a step below one (0 stands for no
\* step), a value outside the field, a range that runs backwards (-1 stands
\* for no upper end).
ElementOk(e, f) ==
    /\ e.step >= 0
    /\ ~e.star => /\ ParseValue(e.lo, f)
                  /\ e.hi # -1 => ParseValue(e.hi, f) /\ e.lo <= e.hi

\* The values one element selects: a star spans the field, a lone value
\* only itself unless a step carries it to the field's top, and a step past
\* the top selects the first value alone.
Selected(e, f) ==
    LET lo == IF e.star THEN f.min ELSE e.lo
        hi == CASE e.star -> f.max
                [] ~e.star /\ e.hi # -1 -> e.hi
                [] ~e.star /\ e.hi = -1 /\ e.step > 0 -> f.max
                [] OTHER -> lo
    IN  { v \in lo .. hi : (v - lo) % Max({e.step, 1}) = 0 }

ParseField(elements, f) == UNION { Selected(e, f) : e \in elements }

ParseOk(expr) ==
    \A i \in 1 .. 5 : expr[i] # {} /\ \A e \in expr[i] : ElementOk(e, Fields[i])

\* parse: the five masks, which day fields were written as other than a
\* star, and the week's last number folded onto its first.
Parse(expr) ==
    LET dow == ParseField(expr[5], Fields[5])
    IN  [minute |-> ParseField(expr[1], Fields[1]),
         hour   |-> ParseField(expr[2], Fields[2]),
         dom    |-> ParseField(expr[3], Fields[3]),
         month  |-> ParseField(expr[4], Fields[4]),
         dow    |-> IF DaysPerWeek \in dow THEN dow \union {0} ELSE dow,
         domRestricted |-> expr[3] # {Star},
         dowRestricted |-> expr[5] # {Star}]

\* RestrictsBothDays: what a create or an update refuses.
RestrictsBothDays(s) == s.domRestricted /\ s.dowRestricted

\* With both day fields restricted either is enough, as POSIX has it.
MatchesDay(s, w) ==
    CASE s.domRestricted /\ s.dowRestricted -> DayOf(w) \in s.dom \/ Weekday(w) \in s.dow
      [] s.domRestricted /\ ~s.dowRestricted -> DayOf(w) \in s.dom
      [] ~s.domRestricted /\ s.dowRestricted -> Weekday(w) \in s.dow
      [] OTHER -> TRUE

---------------------------------------------------------------------------
(* The walk.                                                               *)

NextMinute(w) == w + 1

NextHour(w) == (w \div MinutesPerHour + 1) * MinutesPerHour

NextDay(w) == (DayNo(w) + 1) * MinutesPerDay

NextMonth(w) ==
    (YearOf(w) * DaysPerYear + MonthStart[MonthOf(w) + 1]) * MinutesPerDay

\* instantsFor: the instants that show wall clock w, found by trying the
\* offsets in force at the day's noon and at a probe on either side of it.
InstantsFor(zone, w) ==
    LET noon == DayNo(w) * MinutesPerDay + MinutesPerDay \div 2
        offsets == { zone[noon + k] : k \in {-ProbeDistance, 0, ProbeDistance} }
    IN  { u \in { w - off : off \in offsets } : In(zone, u) = w }

\* Where the walk's cursor goes from a wall clock that does not match: past
\* the first field that refuses it.
Skip(s, w) ==
    CASE MonthOf(w) \notin s.month -> NextMonth(w)
      [] MonthOf(w) \in s.month /\ ~MatchesDay(s, w) -> NextDay(w)
      [] MonthOf(w) \in s.month /\ MatchesDay(s, w) /\ HourOf(w) \notin s.hour -> NextHour(w)
      [] OTHER -> NextMinute(w)

Matches(s, w) ==
    /\ MonthOf(w) \in s.month
    /\ MatchesDay(s, w)
    /\ HourOf(w) \in s.hour
    /\ MinuteOf(w) \in s.minute

\* The loop of walk from cursor w: out are the instants found, stopAt the
\* wall clock past which none can still count (-1 while unknown), until is
\* -1 when there is no upper bound and n is -1 when there is no count.
RECURSIVE WalkFrom(_, _, _, _, _, _, _, _)
WalkFrom(s, zone, after, until, n, w, out, stopAt) ==
    IF YearOf(w) > YearOf(In(zone, after)) + SearchYears THEN out
    ELSE IF ~Matches(s, w)
    THEN WalkFrom(s, zone, after, until, n, Skip(s, w), out, stopAt)
    ELSE IF stopAt # -1 /\ w > stopAt THEN out
    ELSE LET found == out \union { u \in InstantsFor(zone, w) :
                                     u > after /\ (until # -1 => u <= until) }
             stop  == IF n > 0 /\ stopAt = -1 /\ Cardinality(found) >= n
                      THEN w + AmbiguityMargin ELSE stopAt
         IN  WalkFrom(s, zone, after, until, n, NextMinute(w), found, stop)

\* sortUnique.
Ascending(S) ==
    [i \in 1 .. Cardinality(S) |->
        CHOOSE u \in S : Cardinality({ v \in S : v < u }) = i - 1]

FirstN(seq, n) == IF n > 0 /\ Len(seq) > n THEN SubSeq(seq, 1, n) ELSE seq

\* A margin of nothing: the walk starts and stops at its bounds' own wall
\* clocks, as one that forgot the repeated hour would.
WalkBare(s, zone, after, until, n) ==
    FirstN(Ascending(
        WalkFrom(s, zone, after, until, n, In(zone, after), {},
                 IF until = -1 THEN -1 ELSE In(zone, until))), n)

Walk(s, zone, after, until, n) ==
    FirstN(Ascending(
        WalkFrom(s, zone, after, until, n,
                 In(zone, after - AmbiguityMargin), {},
                 IF until = -1 THEN -1 ELSE In(zone, until) + AmbiguityMargin)), n)

Due(s, zone, from, to) == Walk(s, zone, from, to, -1)

Upcoming(s, zone, after, n) == IF n = 0 THEN <<>> ELSE Walk(s, zone, after, -1, n)

NextRun(s, zone, after) == Upcoming(s, zone, after, 1)

---------------------------------------------------------------------------
(* Properties.                                                             *)

\* The reference: every instant of a window at which the zone's wall clock
\* matches the expression.
Occurrences(s, zone, from, to) ==
    { u \in from + 1 .. to : Matches(s, In(zone, u)) }

\* The questions put to the engine, one bound after another.
CronInit ==
    query \in [expr : Expressions, zone : Zones, after : {FirstAfter}, n : Counts]

CronNext ==
    /\ query.after < LastAfter
    /\ query' = [query EXCEPT !.after = @ + 1]

\* The walk is exact over daylight-saving changes: Due returns every instant
\* of (from, to] that shows a matching wall clock, once each and in order, a
\* repeated wall clock at both its instants and a skipped one never; and
\* Upcoming's list is the first n of the same instants, so the times a user
\* reads in upcoming_runs_at are the ones the scheduler fires (walk,
\* instantsFor, Due, Upcoming).
WalkIsExact ==
    ParseOk(query.expr) =>
        LET s == Parse(query.expr)
            all(to) == Ascending(Occurrences(s, query.zone, query.after, to))
            last == query.after + WindowLength
            up == Upcoming(s, query.zone, query.after, query.n)
            k == Min({query.n, Len(all(last))})
        IN  /\ \A to \in query.after .. last : Due(s, query.zone, query.after, to) = all(to)
            /\ Len(up) >= k
            /\ \A i \in 1 .. k : up[i] = all(last)[i]

===========================================================================
