--------------------------- MODULE ScheduleTimes ----------------------------
(***************************************************************************)
(* From the text of a schedule to the minutes at which its job starts: a   *)
(* text is parsed (schedule/schedules.go), the event it stands for is      *)
(* handed to one of the schedulers, and the scheduler starts the job.      *)
(* Parsing and conversion are in Calendar and Triggers; here they are put  *)
(* one after the other, and what comes out is compared with what the text  *)
(* says (systemd.time), defined without them.                              *)
(***************************************************************************)
EXTENDS Triggers

CONSTANTS
  Texts,     \* the texts of schedules
  Times,     \* the minutes at which a schedule may be created
  NoJob,     \* nothing is scheduled yet
  Hung       \* the command never ends

ASSUME TextAssumption == Texts \subseteq Text
ASSUME TimesAssumption == Times \subseteq 0..Horizon

VARIABLES
  text,      \* the text of the schedule
  event,     \* what it was parsed into, NoEvent before and when it cannot be
  error,     \* whether the command has failed
  given,     \* what was given to the scheduler
  now        \* when

timesVars == <<text, event, error, given, now>>

TimesInit ==
  /\ text \in Texts
  /\ now \in Times
  /\ event = NoEvent
  /\ error = FALSE
  /\ given = NoJob

ParseSchedule ==
  /\ event = NoEvent /\ ~error
  /\ event' = Parse(text)
  /\ error' = (event' = NoEvent)
  /\ UNCHANGED <<text, given, now>>

Create(system, definition) ==
  /\ event # NoEvent /\ given = NoJob
  /\ given' = [system |-> system, definition |-> definition]
  /\ UNCHANGED <<text, event, error, now>>

CreateCrond == Create("crond", CrontabEntry(event))
CreateLaunchd == Create("launchd", CalendarIntervals(event))

OneTime == {[Trigger("once", 0) EXCEPT !.start = AsTime(event)]}
Recurring == IsDaily(event) \/ IsWeekly(event) \/ IsMonthly(event)
\* Whether the search for the times of a day comes to an end.
Endless ==
  LET start == NextTime(event, now)
  IN IF start = NoTime THEN TRUE ELSE NeverEnds(event, start, start + MinutesADay)

CreateOneTime ==
  /\ event # NoEvent /\ AsTime(event) # NoTime
  /\ Create("windows", OneTime)

CreateTask ==
  /\ event # NoEvent /\ AsTime(event) = NoTime
  /\ Recurring => ~Endless
  /\ Create("windows", IF Recurring THEN CreateSchedules(event, now) ELSE {})

\* No time is found within two years.  What the search from the zero time
\* finds is left open: nothing in the first day, or nothing ever.
CreateNothing ==
  /\ event # NoEvent /\ AsTime(event) = NoTime
  /\ Recurring /\ NextTime(event, now) = NoTime
  /\ Create("windows", {})

HangCreating ==
  /\ event # NoEvent /\ AsTime(event) = NoTime /\ given = NoJob
  /\ Recurring /\ Endless
  /\ given' = Hung
  /\ UNCHANGED <<text, event, error, now>>

TimesNext ==
  \/ ParseSchedule
  \/ CreateCrond
  \/ CreateLaunchd
  \/ CreateOneTime \/ CreateTask \/ CreateNothing \/ HangCreating

TimesSpec == TimesInit /\ [][TimesNext]_timesVars

(***************************************************************************)
(* What a text says                                                        *)
(***************************************************************************)

Star == <<>>
OnlyOne == <<<<1>>>>
Shorthand ==
  LET on(weekday, months, days) ==
        [keyword |-> "", weekday |-> weekday, date |-> <<Star, months, days>>, time |-> <<>>]
      at(hours, minutes) ==
        [on(<<>>, Star, Star) EXCEPT !.time = <<hours, minutes>>]
  IN [minutely |-> at(Star, Star),
      hourly |-> at(Star, <<<<0>>>>),
      daily |-> on(<<>>, Star, Star),
      weekly |-> on(<<OnlyOne>>, Star, Star),
      monthly |-> on(<<>>, Star, OnlyOne),
      quarterly |-> on(<<>>, <<<<1>>, <<4>>, <<7>>, <<10>>>>, OnlyOne),
      semiannually |-> on(<<>>, <<<<1>>, <<7>>>>, OnlyOne),
      yearly |-> on(<<>>, OnlyOne, OnlyOne),
      annually |-> on(<<>>, OnlyOne, OnlyOne)]
Expanded(tx) == IF tx.keyword = "" THEN tx ELSE Shorthand[tx.keyword]

\* x is one of the numbers listed; a week may end with its Sunday.
Lists(f, units, x) ==
  \/ units = Star
  \/ \E i \in DOMAIN units :
       LET u == units[i]
       IN IF Len(u) = 1 THEN Same(f, u[1], x)
          ELSE \/ x \in u[1]..u[2]
               \/ f = "WeekDay" /\ x = 0 /\ u[2] \in {0, Week}
               \/ f = "WeekDay" /\ u[2] = 0 /\ x >= u[1]

Says(tx, t) ==
  LET full == Expanded(tx)
      year == IF full.date = <<>> THEN Star ELSE YearUnits(full.date[1])
  IN /\ full.weekday # <<>> => Lists("WeekDay", full.weekday[1], At(t).WeekDay)
     /\ Lists("Year", year, At(t).Year)
     /\ full.date # <<>> => /\ Lists("Month", full.date[2], At(t).Month)
                            /\ Lists("Day", full.date[3], At(t).Day)
     /\ IF full.time = <<>> THEN t % MinutesADay = 0
        ELSE /\ Lists("Hour", full.time[1], At(t).Hour)
             /\ Lists("Minute", full.time[2], At(t).Minute)

\* The ranges go forward; one of days that begins with Sunday comes first.
Forward(f, units) ==
  \A i \in DOMAIN units :
    Len(units[i]) = 2 =>
      \/ units[i][1] < units[i][2] /\ (f = "WeekDay" => i = 1 \/ units[i][1] > 0)
      \/ f = "WeekDay" /\ units[i][1] > 0 /\ units[i][2] = 0
Plain(tx) ==
  /\ \A i \in DOMAIN tx.weekday : Forward("WeekDay", tx.weekday[i])
  /\ \A i \in DOMAIN tx.date : Forward("Date", tx.date[i])
  /\ \A i \in DOMAIN tx.time : Forward("Time", tx.time[i])

Scheduled(system) == given \notin {NoJob, Hung} /\ given.system = system /\ Plain(text)
Yearly == HasValue(event.Year)

(***************************************************************************)
(* Properties                                                              *)
(***************************************************************************)

\* crond starts the job at the minutes the text says and at no others, when
\* the text has no year and not both a day of the month and one of the week:
\* crond has no years, and takes the two days for alternatives.
CrondOnTime ==
  Scheduled("crond") /\ ~Yearly /\ ~(HasValue(event.Day) /\ HasValue(event.WeekDay)) =>
    \A t \in 0..Horizon : CronStarts(given.definition, t) <=> Says(text, t)

\* launchd too, with the same two exceptions, when the text restricts
\* something: a job without any interval would not be started at all.
LaunchdOnTime ==
  /\ Scheduled("launchd") /\ ~Yearly /\ ~(HasValue(event.Day) /\ HasValue(event.WeekDay))
  /\ \E f \in Field \ {"Second"} : HasValue(event[f])
  =>
    \A t \in 0..Horizon : LaunchdStarts(given.definition, t) <=> Says(text, t)

\* The Task Scheduler too, from now on, for one point in time, for times of
\* every day that are regular or not too many, and for one time on days of
\* the week or of the month that Next can find (it knows the first Sunday).
Regular ==
  LET start == NextTime(event, now)
      times == GetAllInBetween(event, start, start + MinutesADay)
  IN Cardinality(times) <= MaxTriggers \/ Cardinality(Differences(times)) = 1
WindowsOnTime ==
  /\ Scheduled("windows")
  /\ \/ AsTime(event) # NoTime
     \/ IsDaily(event) /\ Regular
     \/ /\ IsWeekly(event) \/ IsMonthly(event)
        /\ \A f \in {"Hour", "Minute"} : Cardinality(event[f].values) = 1
        /\ Week \notin event.WeekDay.values
        /\ ~(HasValue(event.Day) /\ HasValue(event.WeekDay))
        /\ NextTime(event, now) # NoTime
  => \A t \in now..Horizon : WindowsStarts(given.definition, t) <=> Says(text, t)

\* The normal form that is shown to the user stands for the same event: only
\* the second Sunday, alone, comes back as the first.
NormalForm ==
  event # NoEvent =>
    LET shown == Parse(EventText(event))
    IN /\ shown # NoEvent
       /\ \A f \in Field :
            \/ shown[f].values = event[f].values
            \/ f = "WeekDay" /\ event[f].values = {Week} /\ shown[f].values = {0}
=============================================================================
