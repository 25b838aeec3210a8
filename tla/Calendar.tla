------------------------------ MODULE Calendar ------------------------------
(***************************************************************************)
(* Calendar events (calendar/*.go): what is made of the text of a          *)
(* schedule, when the event happens next, and the text it is shown as.     *)
(*                                                                         *)
(* The calendar itself is a parameter: a small one has all the cases of    *)
(* the real one (a leap year, months of different lengths, weeks that do   *)
(* not divide months).  Time is counted in minutes from its first day.  A  *)
(* text is what the patterns of event_parse.go take apart: the parts that  *)
(* are there, each a list of units, a unit being a number or a range.      *)
(***************************************************************************)
EXTENDS Integers, Sequences, FiniteSets, SequencesExt

CONSTANTS
  Dates,          \* the days one after the other: year, month, day of the month
  Week,           \* the number of days of a week; Sunday is 0, and again Week
  HoursADay, MinutesAnHour,
  NoEvent,        \* the outcome of a text that cannot be parsed
  NoTime          \* the zero time

Field == {"WeekDay", "Year", "Month", "Day", "Hour", "Minute", "Second"}
Keyword == {"minutely", "hourly", "daily", "weekly", "monthly", "quarterly",
            "semiannually", "yearly", "annually"}

\* What a field may be: no value stands for any.
Value == [values : SUBSET Nat, single : BOOLEAN]

ASSUME CalendarAssumption ==
  /\ Dates \in Seq(Nat \X (1..12) \X (Nat \ {0}))
  /\ Dates # <<>>
  /\ \A i, j \in DOMAIN Dates : Dates[i] = Dates[j] => i = j
  /\ \A i \in 1..(Len(Dates) - 1) : Dates[i + 1][1] - Dates[i][1] \in 0..1
  /\ {Week, HoursADay, MinutesAnHour} \subseteq Nat \ {0}
  /\ NoEvent \notin [Field -> Value]
  /\ NoTime \notin Nat

Unit == [1..1 -> Nat] \cup [1..2 -> Nat]
Units == Seq(Unit)
Text ==
  [keyword : {""} \cup Keyword,
   weekday : {<<>>} \cup [1..1 -> Units],
   date : {<<>>} \cup [1..3 -> Units],
   time : {<<>>} \cup [1..2 -> Units] \cup [1..3 -> Units]]

(* The calendar *)

MinutesADay == HoursADay * MinutesAnHour
LongestMonth == Max({Dates[i][3] : i \in DOMAIN Dates})
Horizon == Len(Dates) * MinutesADay - 1

\* The fields of every minute; the calendar begins on a Sunday.
Clock ==
  [t \in 0..Horizon |->
     LET date == Dates[t \div MinutesADay + 1]
     IN [Year |-> date[1], Month |-> date[2], Day |-> date[3],
         WeekDay |-> (t \div MinutesADay) % Week,
         Hour |-> (t % MinutesADay) \div MinutesAnHour,
         Minute |-> t % MinutesAnHour]]
At(t) == Clock[t]

(* Values of a field *)

Bounds(f) ==
  CASE f = "WeekDay" -> 0..Week
    [] f = "Year" -> 2000..2200
    [] f = "Month" -> 1..12
    [] f = "Day" -> 1..LongestMonth
    [] f = "Hour" -> 0..(HoursADay - 1)
    [] f = "Minute" -> 0..(MinutesAnHour - 1)
    [] f = "Second" -> 0..59

\* single: exactly one number was added, once.
AnyValue == [values |-> {}, single |-> FALSE]
SingleValue(x) == [values |-> {x}, single |-> TRUE]
HasValue(v) == v.values # {}

\* AddRange adds the numbers between both ends, whichever is the lower one.
UnitValues(u) ==
  IF Len(u) = 1 THEN {u[1]}
  ELSE Min({u[1], u[2]})..Max({u[1], u[2]})
ValueOf(units) ==
  [values |-> UNION {UnitValues(units[i]) : i \in DOMAIN units},
   single |-> Len(units) = 1 /\ Cardinality(UnitValues(units[1])) = 1]

\* The longest ranges of contiguous values.
GetRanges(v) ==
  {r \in v.values \X v.values :
     /\ r[1]..r[2] \subseteq v.values /\ r[1] <= r[2]
     /\ r[1] - 1 \notin v.values /\ r[2] + 1 \notin v.values}

\* Ranges are only shown when three values follow each other.
HasLongContiguousRange(v) == \E x \in v.values : {x + 1, x + 2} \subseteq v.values
Ascending(S) ==
  [i \in 1..Cardinality(S) |->
     CHOOSE x \in S : Cardinality({y \in S : y[1] < x[1]}) = i - 1]
ValueText(v) ==
  IF HasLongContiguousRange(v)
    THEN Ascending({IF r[1] = r[2] THEN <<r[1]>> ELSE r : r \in GetRanges(v)})
    ELSE Ascending({<<x>> : x \in v.values})

(* Parsing *)

\* If Sunday were the last day at the end of a range only.
SundayEndsRange(units) ==
  [i \in DOMAIN units |->
     [j \in DOMAIN units[i] |->
        IF units[i][j] = 0 /\ j > 1 THEN Week ELSE units[i][j]]]
\* "sunday" is 0, but 7 at the end of a range and after a comma.
WeekDayUnits(units) ==
  [i \in DOMAIN units |->
     [j \in DOMAIN units[i] |->
        IF units[i][j] = 0 /\ <<i, j>> # <<1, 1>> THEN Week ELSE units[i][j]]]

YearUnits(units) ==
  [i \in DOMAIN units |->
     [j \in DOMAIN units[i] |->
        units[i][j] + (IF units[i][j] < 1000 THEN 2000 ELSE 0)]]

\* If a date without a time left the hour and the minute open.
AnyTime == AnyValue
\* Without a time the event is at midnight, without a second at second 0.
Midnight == SingleValue(0)

ParseParts(text) ==
  LET date == [i \in 1..3 |-> IF text.date = <<>> THEN <<>> ELSE text.date[i]]
      time(i) == IF Len(text.time) < i THEN Midnight ELSE ValueOf(text.time[i])
  IN [WeekDay |-> IF text.weekday = <<>> THEN AnyValue
                  ELSE ValueOf(WeekDayUnits(text.weekday[1])),
      Year |-> ValueOf(YearUnits(date[1])),
      Month |-> ValueOf(date[2]),
      Day |-> ValueOf(date[3]),
      Hour |-> time(1), Minute |-> time(2), Second |-> time(3)]

\* The fields a keyword sets; the others may have any value.
KeywordValues ==
  LET minute == [f \in Field |-> IF f = "Second" THEN SingleValue(0) ELSE AnyValue]
      hour == [minute EXCEPT !.Minute = SingleValue(0)]
      day == [hour EXCEPT !.Hour = SingleValue(0)]
      month == [day EXCEPT !.Day = SingleValue(1)]
      year == [month EXCEPT !.Month = SingleValue(1)]
  IN [minutely |-> minute,
      hourly |-> hour,
      daily |-> day,
      weekly |-> [day EXCEPT !.WeekDay = SingleValue(1)],
      monthly |-> month,
      quarterly |-> [month EXCEPT !.Month = ValueOf(<<<<1>>, <<4>>, <<7>>, <<10>>>>)],
      semiannually |-> [month EXCEPT !.Month = ValueOf(<<<<1>>, <<7>>>>)],
      yearly |-> year,
      annually |-> year]

\* A number out of its bounds fails the whole text.
Parse(text) ==
  IF text.keyword \in Keyword
    THEN KeywordValues[text.keyword]
    ELSE LET e == ParseParts(text)
         IN IF \A f \in Field : e[f].values \subseteq Bounds(f) THEN e ELSE NoEvent

\* String: the normal form, in which both Sundays are called by their name.
EventText(e) ==
  LET named(units) ==
        [i \in DOMAIN units |-> [j \in DOMAIN units[i] |-> units[i][j] % Week]]
  IN [keyword |-> "",
      weekday |-> IF HasValue(e.WeekDay) THEN <<named(ValueText(e.WeekDay))>> ELSE <<>>,
      date |-> <<ValueText(e.Year), ValueText(e.Month), ValueText(e.Day)>>,
      time |-> <<ValueText(e.Hour), ValueText(e.Minute), ValueText(e.Second)>>]

(* When an event happens *)

\* match: seconds are not looked at.
Match(e, t) ==
  \A f \in {"Year", "Month", "Day", "WeekDay", "Hour", "Minute"} :
    HasValue(e[f]) => At(t)[f] \in e[f].values

\* The search ends with the second year after the one it begins in.
NextTime(e, from) ==
  LET found == {t \in from..Horizon :
                  At(t).Year <= At(from).Year + 2 /\ Match(e, t)}
  IN IF found = {} THEN NoTime ELSE Min(found)

\* The times from start on and before end.  The loop ends when the next one
\* is not before end, which the zero time always is: it never ends then.
GetAllInBetween(e, start, end) == {t \in start..(end - 1) : Match(e, t)}
NeverEnds(e, start, end) ==
  LET all == GetAllInBetween(e, start, end)
  IN NextTime(e, IF all = {} THEN start ELSE Max(all) + 1) = NoTime

\* What time.Parse takes for the seconds of a normal form: a number, or two
\* that are listed, of which it reads the second as a fraction.
ParsableSecond(v) == Cardinality(v.values) \in 1..2

\* One point in time, when the normal form can be parsed and the date exists.
AsTime(e) ==
  IF /\ ~HasValue(e.WeekDay)
     /\ \A f \in {"Year", "Month", "Day", "Hour", "Minute"} : e[f].single
     /\ ParsableSecond(e.Second)
     /\ \E t \in 0..Horizon : Match(e, t)
  THEN CHOOSE t \in 0..Horizon : Match(e, t)
  ELSE NoTime
IsDaily(e) == ~\E f \in {"Year", "Month", "Day", "WeekDay"} : HasValue(e[f])
IsWeekly(e) ==
  HasValue(e.WeekDay) /\ ~\E f \in {"Year", "Month", "Day"} : HasValue(e[f])
IsMonthly(e) == ~HasValue(e.Year) /\ (HasValue(e.Month) \/ HasValue(e.Day))
=============================================================================
