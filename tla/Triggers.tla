------------------------------ MODULE Triggers ------------------------------
(***************************************************************************)
(* What a schedule is turned into for each scheduler: the fields of a      *)
(* crontab entry (crond/entry.go), the calendar intervals of launchd       *)
(* (schedule/tree_darwin.go, handler_darwin.go), the triggers of the       *)
(* Windows Task Scheduler (schtasks/taskscheduler.go), and, external, the  *)
(* minutes at which each scheduler then starts the job.                    *)
(*                                                                         *)
(* Definitions whose comment begins with "If" are deviations: what a       *)
(* plausible slip would make of the definition they precede.               *)
(***************************************************************************)
EXTENDS Calendar

CONSTANT MaxTriggers   \* the number of triggers a task may need (60)

ASSUME TriggerAssumption == MaxTriggers \in Nat \ {0}

Same(f, x, y) == x = y \/ (f = "WeekDay" /\ x % Week = y % Week)

(* crond: a field of an entry is a set of ranges, {} is "*" *)

\* If two contiguous values were not told from a longer range by its length.
RangeEnds(ranges) == {<<r[1], r[1]>> : r \in ranges} \cup {<<r[2], r[2]>> : r \in ranges}
\* Two contiguous values are listed, more are a range.
FormatRange(ranges) ==
  UNION {IF r[2] - r[1] > 1 THEN {r} ELSE {<<r[1], r[1]>>, <<r[2], r[2]>>} : r \in ranges}

\* Days of the week are listed one by one, the second Sunday as the first.
FormatWeekDays(values) ==
  {LET d == IF x >= Week THEN x - Week ELSE x IN <<d, d>> : x \in values}

CrontabEntry(e) ==
  LET range(f) == FormatRange(GetRanges(e[f]))
  IN [Minute |-> range("Minute"), Hour |-> range("Hour"),
      Day |-> range("Day"), Month |-> range("Month"),
      WeekDay |-> FormatWeekDays(e.WeekDay.values)]

\* External.  cron starts a job on either day when both are restricted.
CronStarts(entry, t) ==
  LET open(f) == entry[f] = {}
      holds(f) == \E r \in entry[f] : At(t)[f] \in r[1]..r[2]
  IN /\ \A f \in {"Minute", "Hour", "Month"} : open(f) \/ holds(f)
     /\ IF open("Day") \/ open("WeekDay")
        THEN \A f \in {"Day", "WeekDay"} : open(f) \/ holds(f)
        ELSE holds("Day") \/ holds("WeekDay")

(* launchd: an interval gives the fields that are restricted a value *)

ValuesOrder == <<"Month", "Day", "WeekDay", "Hour", "Minute">>

Child(branch, f, x) ==
  [g \in DOMAIN branch \cup {f} |-> IF g = f THEN x ELSE branch[g]]

\* One level of the tree: each branch gets a child for each value.
GrowTree(tree, f, values) ==
  IF values = {} THEN tree
  ELSE {Child(branch, f, x) : branch \in (IF tree = {} THEN {<<>>} ELSE tree), x \in values}

CalendarIntervals(e) ==
  LET tree[n \in 0..Len(ValuesOrder)] ==
        IF n = 0 THEN {}
        ELSE GrowTree(tree[n - 1], ValuesOrder[n], e[ValuesOrder[n]].values)
  IN tree[Len(ValuesOrder)]

\* External (launchd.plist(5)).  A job without intervals is only started by
\* hand, one whose interval has both days on either.
LaunchdStarts(intervals, t) ==
  \E i \in intervals :
    LET days == DOMAIN i \cap {"Day", "WeekDay"}
        holds(f) == Same(f, i[f], At(t)[f])
    IN /\ \A f \in DOMAIN i \ days : holds(f)
       /\ days # {} => \E f \in days : holds(f)

(* Windows: a task is a set of triggers *)

Trigger(kind, start) ==
  [kind |-> kind, start |-> start, interval |-> 0, duration |-> 0,
   weekdays |-> {}, days |-> {}, months |-> {}]
Repeated(trigger, interval, duration) ==
  [trigger EXCEPT !.interval = interval, !.duration = duration]

\* The second Sunday has the bit of the first; no day at all sets no bit.
WeekdaysBitmap(values) == {x % Week : x \in values}
\* Without values all bits are set.
MonthsBitmap(values) == IF values = {} THEN 1..12 ELSE values
DaysBitmap(values) == IF values = {} THEN Bounds("Day") ELSE values

Differences(times) ==
  {Min({t \in times : t > s}) - s : s \in times \ {Max(times)}}

\* If the repetition ended with the last time but one.
ShortDuration(start, times) == Max(times \ {Max(times)}) - start
\* Repeated every minute all day long, the last one included.
RepetitionDuration(start, times) ==
  LET d == Max(times) - start IN IF d = MinutesADay - 1 THEN MinutesADay ELSE d

\* Daily and weekly triggers: one when the event happens once in 24 hours or
\* at regular intervals, else one for each time unless they are too many.
RepeatingTriggers(trigger, start, times) ==
  IF Cardinality(times) = 1
    THEN {[trigger EXCEPT !.start = start]}
  ELSE IF Cardinality(Differences(times)) = 1
    THEN {Repeated([trigger EXCEPT !.start = start],
                   CHOOSE d \in Differences(times) : TRUE,
                   RepetitionDuration(start, times))}
  ELSE IF Cardinality(times) > MaxTriggers THEN {}
  ELSE {[trigger EXCEPT !.start = t] : t \in times}

DailyTriggers(start, times) == RepeatingTriggers(Trigger("daily", start), start, times)

WeeklyTriggers(e, start, times) ==
  RepeatingTriggers([Trigger("weekly", start)
                       EXCEPT !.weekdays = WeekdaysBitmap(e.WeekDay.values)],
                    start, times)

\* A day of the month and a day of the week together have no trigger.
MonthlyTriggers(e, times) ==
  LET months == MonthsBitmap(e.Month.values)
      dow == [Trigger("monthlyDOW", 0)
                EXCEPT !.weekdays = WeekdaysBitmap(e.WeekDay.values), !.months = months]
      dom == [Trigger("monthly", 0)
                EXCEPT !.days = DaysBitmap(e.Day.values), !.months = months]
  IN IF \/ Cardinality(times) > MaxTriggers
        \/ HasValue(e.WeekDay) /\ HasValue(e.Day) THEN {}
     ELSE {[(IF HasValue(e.WeekDay) THEN dow ELSE dom) EXCEPT !.start = t] : t \in times}

\* createSchedules, for an event that is not one point in time and whose
\* next times were found.  Events of certain years have no trigger.
CreateSchedules(e, now) ==
  LET start == NextTime(e, now)
      times == GetAllInBetween(e, start, start + MinutesADay)
  IN CASE IsDaily(e) -> DailyTriggers(start, times)
       [] IsWeekly(e) -> WeeklyTriggers(e, start, times)
       [] IsMonthly(e) -> MonthlyTriggers(e, times)
       [] OTHER -> {}

\* External.  A trigger is active from its start on, at the time of its start
\* on the days it names, and is repeated from there for its duration.
FirstOfDay(tr, t) ==
  /\ t >= tr.start
  /\ t % MinutesADay = tr.start % MinutesADay
  /\ CASE tr.kind = "once" -> t = tr.start
       [] tr.kind = "daily" -> TRUE
       [] tr.kind = "weekly" -> At(t).WeekDay \in tr.weekdays
       [] tr.kind = "monthly" -> At(t).Day \in tr.days /\ At(t).Month \in tr.months
       [] tr.kind = "monthlyDOW" -> At(t).WeekDay \in tr.weekdays /\ At(t).Month \in tr.months

WindowsStarts(triggers, t) ==
  \E tr \in triggers :
    IF tr.interval = 0 THEN FirstOfDay(tr, t)
    ELSE \E k \in 0..(tr.duration \div tr.interval) :
           /\ t >= k * tr.interval
           /\ FirstOfDay(tr, t - k * tr.interval)
=============================================================================
