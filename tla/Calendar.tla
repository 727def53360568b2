------------------------------ MODULE Calendar ------------------------------
(***************************************************************************)
(* The next time of a schedule (server/src/schedule.rs next_run), in local *)
(* time: Seoul has one offset all year, so a local time is an instant.     *)
(* Months are counted from January of First, days from its first day, and  *)
(* a day has DayLength instants, which stand for hour, minute and second.  *)
(*                                                                         *)
(* cal is a schedule that is asked again and again, as the loop asks it:   *)
(*   s      [unit, every, at, day, month], the columns of the row          *)
(*   after  the time it was last asked at                                  *)
(*   due    what next_run answered, None for an error                      *)
(*   was    the answer before                                              *)
(***************************************************************************)
EXTENDS Integers, FiniteSetsExt

CONSTANTS
  First,      \* the year months are counted from
  Months,     \* how many of them are known
  DayLength,  \* instants of a day
  Schedule,   \* schedules
  Start,      \* the times they are saved at
  MaxLate,    \* how much later than due the loop may ask
  MaxAsked,   \* bound on how often it asks
  None

VARIABLE cal

-----------------------------------------------------------------------------
(* Dates, as the library for dates knows them                              *)

Leap(y) == y % 4 = 0 /\ (y % 100 # 0 \/ y % 400 = 0)
MonthLength(k) ==
  CASE k % 12 = 1 -> IF Leap(First + k \div 12) THEN 29 ELSE 28
    [] k % 12 \in {3, 5, 8, 10} -> 30
    [] OTHER -> 31

MonthStart[k \in 0..Months] == IF k = 0 THEN 0 ELSE MonthStart[k - 1] + MonthLength(k - 1)

Day(t) == t \div DayLength
Month(t) == CHOOSE k \in 0..(Months - 1) : MonthStart[k] <= Day(t) /\ Day(t) < MonthStart[k + 1]
DayOfMonth(t) == Day(t) - MonthStart[Month(t)] + 1

-----------------------------------------------------------------------------
(* next_run                                                                *)

\* The last day of a month is the day before the first of the next.
DaysInMonth(k) == MonthStart[k + 1] - MonthStart[k]

\* The time of a schedule in month k, in its last days where the day is missing.
Candidate(s, k) == (MonthStart[k] + Min({s.day, DaysInMonth(k)}) - 1) * DayLength + s.at

NextDaily(s, after) ==
  LET today == Day(after) * DayLength + s.at IN
  IF today > after THEN today ELSE today + s.every * DayLength

\* The month of this schedule in or next to the time it is asked at, and the one after.
NextMonthly(s, after) ==
  LET yearly == s.unit = "year"
      k == IF yearly THEN 12 * (Month(after) \div 12) + s.month - 1 ELSE Month(after)
      step == IF yearly THEN 12 * s.every ELSE s.every
  IN IF Candidate(s, k) > after THEN Candidate(s, k)
     ELSE IF Candidate(s, k + step) > after THEN Candidate(s, k + step)
     ELSE None

NextRun(s, after) ==
  CASE s.unit = "hour" -> after + s.every
    [] s.unit = "day" -> NextDaily(s, after)
    [] OTHER -> NextMonthly(s, after)

-----------------------------------------------------------------------------
Asked(s, after, was, n) ==
  [s |-> s, after |-> after, due |-> NextRun(s, after), was |-> was, asked |-> n]

\* create and update ask when the schedule is saved, the loop when it is due or late.
Init == \E s \in Schedule, t \in Start : cal = Asked(s, t, None, 1)
Next ==
  /\ cal.asked < MaxAsked /\ cal.due # None
  /\ \E late \in 0..MaxLate : cal' = Asked(cal.s, cal.due + late, cal.due, cal.asked + 1)

-----------------------------------------------------------------------------
ByMonth == cal.s.unit \in {"month", "year"}

\* Two attempts are enough: there is always a next time, and it is later.
AlwaysLater == cal.due # None /\ cal.due > cal.after

\* A month that is too short for the day shifts the time to its end, and only for that
\* month; a year keeps its month.
OnItsDay ==
  /\ ByMonth => DayOfMonth(cal.due) = Min({cal.s.day, MonthLength(Month(cal.due))})
  /\ cal.s.unit = "year" => Month(cal.due) % 12 = cal.s.month - 1
  /\ cal.s.unit # "hour" => cal.due % DayLength = cal.s.at

\* With an interval of one no time of the schedule is passed over.
NoneSkipped ==
  ByMonth /\ cal.s.every = 1 =>
    \A k \in Month(cal.after)..Month(cal.due) :
      \/ cal.s.unit = "year" /\ k % 12 # cal.s.month - 1
      \/ Candidate(cal.s, k) \notin (cal.after + 1)..(cal.due - 1)

\* Asked on the day it was due, a schedule keeps its interval.  (Asked past midnight it
\* does not: the new day or month counts as one it has not run in yet.)
KeepsInterval ==
  cal.was # None /\ Day(cal.after) = Day(cal.was) =>
    CASE cal.s.unit = "hour" -> cal.due = cal.after + cal.s.every
      [] cal.s.unit = "day" -> Day(cal.due) = Day(cal.was) + cal.s.every
      [] cal.s.unit = "month" -> Month(cal.due) = Month(cal.was) + cal.s.every
      [] OTHER -> Month(cal.due) = Month(cal.was) + 12 * cal.s.every

TimesAreRight == AlwaysLater /\ OnItsDay /\ NoneSkipped /\ KeepsInterval
=============================================================================
