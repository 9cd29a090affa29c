--------------------------- MODULE CronExpression ---------------------------
(***************************************************************************)
(* A schedule's cron expression (scheduler/cron.go): the values a field    *)
(* stands for, which minutes match, and the next of them.  Time is the     *)
(* number of minutes since an epoch of a small calendar, whose hours have  *)
(* MinutesPerHour minutes; a field is a set of items [base, step] with     *)
(* base <<>> for "*" or <<first, last>>, and step 0 where none is given.   *)
(* A definition marked "Mutant" is a bug that could have been made in the  *)
(* next one; no specification uses it.                                     *)
(***************************************************************************)
EXTENDS Integers, FiniteSets, Sequences

CONSTANTS
    MinutesPerHour, HoursPerDay,
    MonthDays,   \* sequence: the days of each month
    Years,       \* Next gives up after five years; here after this many
    FieldsOf     \* FieldsOf["minute" ...]: the fields that are tried

VARIABLES
    expr,        \* Expression: by field, the items
    after        \* the time Next starts from

vars == <<expr, after>>

Least == [minute |-> 0, hour |-> 0, day |-> 1, month |-> 1, weekday |-> 0]
Most == [minute |-> MinutesPerHour - 1, hour |-> HoursPerDay - 1, day |-> 31,
         month |-> Len(MonthDays), weekday |-> 7]

Stride(i) == IF i.step = 0 THEN 1 ELSE i.step

\* The loop of parseField over one item.
\* Mutant: steps count from zero instead of the start of the range.
ItemFromZero(i, lo, hi) ==
    LET r == IF i.base = <<>> THEN <<lo, hi>> ELSE i.base
    IN {v \in r[1]..r[2] : v % Stride(i) = 0}
Item(i, lo, hi) ==
    LET r == IF i.base = <<>> THEN <<lo, hi>> ELSE i.base
    IN {v \in r[1]..r[2] : (v - r[1]) % Stride(i) = 0}

\* Mutant: 7 stays 7.
SundayKept(f, v) == v
Sunday(f, v) == IF f = "weekday" /\ v = 7 THEN 0 ELSE v

Values(f, items) ==
    {Sunday(f, v) : v \in UNION {Item(i, Least[f], Most[f]) : i \in items}}

\* raw == "*": "*/1" and "*/2" restrict, and so does a list.
Wildcard(items) == items = {[base |-> <<>>, step |-> 0]}

YearDays == LET upTo[n \in Nat] == IF n = 0 THEN 0 ELSE upTo[n - 1] + MonthDays[n]
            IN upTo
Local(t) ==
    LET days == t \div (MinutesPerHour * HoursPerDay)
        ofYear == days % YearDays[Len(MonthDays)]
        mth == CHOOSE n \in 1..Len(MonthDays) : YearDays[n - 1] <= ofYear /\ ofYear < YearDays[n]
    IN [minute |-> t % MinutesPerHour, hour |-> (t \div MinutesPerHour) % HoursPerDay,
        day |-> ofYear - YearDays[mth - 1] + 1, month |-> mth, weekday |-> days % 7]

Contains(f, t) == Local(t)[f] \in Values(f, expr[f])

\* Mutant: a day must match both fields.
DayBoth(t) == Contains("day", t) /\ Contains("weekday", t)
DayMatches(t) ==
    IF Wildcard(expr.day) \/ Wildcard(expr.weekday)
    THEN Contains("day", t) /\ Contains("weekday", t)
    ELSE Contains("day", t) \/ Contains("weekday", t)

Matches(t) == (\A f \in {"minute", "hour", "month"} : Contains(f, t)) /\ DayMatches(t)

Limit == Years * YearDays[Len(MonthDays)] * MinutesPerHour * HoursPerDay

\* Mutant: the minute is added before and after the truncation.
FirstLater(t) == t + 2
First(t) == t + 1

Never == -1
NextTime(t) ==
    LET search[c \in Nat] ==
          IF c > First(t) + Limit THEN Never
          ELSE IF Matches(c) THEN c ELSE search[c + 1]
    IN search[First(t)]

Init ==
    /\ expr \in [minute : FieldsOf["minute"], hour : FieldsOf["hour"], day : FieldsOf["day"],
                 month : FieldsOf["month"], weekday : FieldsOf["weekday"]]
    /\ after = 0

\* The manager asks for the occurrence after the one that came due.
Advance ==
    /\ NextTime(after) # Never /\ after < Limit
    /\ after' = NextTime(after)
    /\ UNCHANGED expr

Next == Advance

Spec == Init /\ [][Next]_vars

-----------------------------------------------------------------------------
(* Properties *)

\* A field stands for days, hours and minutes that exist, and for no empty
\* set; Sunday is 0, also where it was written 7 (TestSundaySevenIsNormalized).
FieldTypeOK ==
    \A f \in DOMAIN expr :
        /\ Values(f, expr[f]) # {}
        /\ Values(f, expr[f]) \subseteq Least[f]..(IF f = "weekday" THEN 6 ELSE Most[f])

\* A stepped item takes the start of its range and every step-th after it
\* (TestExpressionNextSupportsListsRangesStepsAndTimezone).
StepsFromTheStart ==
    \A f \in DOMAIN expr : \A i \in expr[f] :
        LET vs == Item(i, Least[f], Most[f])
            start == IF i.base = <<>> THEN Least[f] ELSE i.base[1]
            end == IF i.base = <<>> THEN Most[f] ELSE i.base[2]
        IN /\ start \in vs
           /\ \A v \in vs : v + Stride(i) > end \/ v + Stride(i) \in vs
           /\ \A v \in vs : v = start \/ v - Stride(i) \in vs

\* A day matches if it matches a restricted field, one of them being enough
\* (TestExpressionUsesStandardDayOrWeekdaySemantics).
DayOrWeekday ==
    \A t \in 0..Limit :
        LET d == Local(t).day \in Values("day", expr.day)
            w == Local(t).weekday \in Values("weekday", expr.weekday)
        IN /\ d /\ w => DayMatches(t)
           /\ ~d /\ ~w => ~DayMatches(t)
           /\ ~Wildcard(expr.day) /\ ~Wildcard(expr.weekday) => (DayMatches(t) <=> (d \/ w))

\* A schedule that is advanced from one occurrence to the next skips none and
\* repeats none ("the first matching minute strictly after the supplied time").
NoOccurrenceSkipped ==
    /\ after' > after
    /\ Matches(after')
    /\ \A t \in (after + 1)..(after' - 1) : ~Matches(t)
=============================================================================
