-------------------------- MODULE MCScheduleTimes ---------------------------
(***************************************************************************)
(* A small calendar for ScheduleTimes: four years of twelve months of one  *)
(* or two days, the third a leap year, weeks of three days, days of four   *)
(* hours of two minutes.  The texts combine some weekdays with some dates  *)
(* and some times: lists, ranges, backward ranges, both Sundays, a day     *)
(* only leap years have, years with and without their century, seconds     *)
(* that are open, listed or a range.                                       *)
(***************************************************************************)
EXTENDS ScheduleTimes

MonthDays(year, month) == IF month = 2 /\ year # 2003 THEN 1 ELSE 2
MCDates ==
  FlattenSeq([y \in 1..4 |-> FlattenSeq([m \in 1..12 |->
    [d \in 1..MonthDays(2000 + y, m) |-> <<2000 + y, m, d>>]])])

WeekdayTexts ==
  {<<>>, <<<<<<1>>>>>>, <<<<<<2>>, <<0>>>>>>, <<<<<<2>>, <<3>>>>>>, <<<<<<1, 0>>>>>>, <<<<<<0, 1>>>>>>,
   <<<<<<2, 1>>>>>>, <<<<<<3>>>>>>, <<<<<<1>>, <<0, 1>>>>>>}
DateTexts ==
  {<<>>, <<Star, Star, <<<<2>>>>>>, <<Star, <<<<2>>>>, <<<<2>>>>>>,
   <<Star, <<<<3, 5>>, <<8>>, <<9>>, <<12>>>>, Star>>, <<Star, <<<<4>>>>, <<<<1>>, <<2>>>>>>,
   <<Star, <<<<7, 5>>>>, <<<<1>>>>>>, <<<<<<2>>>>, <<<<2>>>>, <<<<2>>>>>>,
   <<<<<<2001, 2002>>>>, Star, <<<<1>>>>>>, <<<<<<2002>>>>, <<<<5>>>>, <<<<2>>>>>>, <<Star, <<<<13>>>>, Star>>}
TimeTexts ==
  {<<>>, <<Star, Star>>, <<Star, <<<<0>>>>>>, <<<<<<1>>>>, <<<<1>>>>>>,
   <<<<<<0>>, <<3>>>>, <<<<1>>>>>>, <<<<<<0>>, <<1>>, <<3>>>>, <<<<0>>>>>>,
   <<<<<<1, 3>>>>, <<<<0>>>>, <<<<1>>>>>>, <<<<<<3, 1>>>>, Star, Star>>, <<<<<<0>>, <<2>>>>, Star>>}
  \cup {<<<<<<1>>>>, <<<<1>>>>, seconds>> :
          seconds \in {Star, <<<<10>>, <<20>>>>, <<<<10, 12>>>>}}

MCTexts ==
  {[keyword |-> k, weekday |-> <<>>, date |-> <<>>, time |-> <<>>] : k \in Keyword}
  \cup {tx \in [keyword : {""}, weekday : WeekdayTexts, date : DateTexts, time : TimeTexts] :
          tx.weekday # <<>> \/ tx.date # <<>> \/ tx.time # <<>>}
MCTimes == {3, 60, 181}
=============================================================================
