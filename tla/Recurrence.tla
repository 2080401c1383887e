------------------------------ MODULE Recurrence ------------------------------
(***************************************************************************)
(* Recurrence rules: on which dates a recurring session takes place.       *)
(*                                                                         *)
(* Time is counted in ticks, two a day: 2d is day d before the rule's time *)
(* of day, 2d + 1 from that time on, so the occurrence on day d is at      *)
(* 2d + 1.  Day 0 is the first day of a week and of a month; a week has    *)
(* DaysPerWeek days, and the months' lengths repeat as in MonthLengths, so *)
(* that a month can lack the day a rule asks for (the 31st).               *)
(***************************************************************************)
EXTENDS Integers, Sequences, FiniteSetsExt

CONSTANTS
  DaysPerWeek,      \* 7 in the code
  MonthLengths,     \* 31, 28, ... in the calendar
  MaxMonthSearches  \* recurrence.go's maxMonthSearches

ASSUME RecurrenceAssumption ==
  /\ DaysPerWeek \in Nat \ {0}
  /\ MonthLengths \in Seq(Nat \ {0}) /\ MonthLengths # <<>>
  /\ MaxMonthSearches \in Nat \ {0}

\* RecurrenceRule.endsAt is NULL.
Never == -1

Frequencies == {"daily", "weekly", "monthly"}

\* day is dayOfWeek (0 for the first day) or dayOfMonth (1 for the first).
NewRecurrenceRule(r, now) ==
  /\ r.frequency \in Frequencies
  /\ r.interval >= 1
  /\ r.frequency = "weekly" => r.day \in 0..(DaysPerWeek - 1)
  /\ r.frequency = "monthly" => r.day >= 1
  /\ r.endsAt # Never => r.endsAt >= now

Day(t) == t \div 2
At(d) == 2 * d + 1

MonthLength(m) == MonthLengths[(m % Len(MonthLengths)) + 1]

\* Any day some month has is found in every run of MaxMonthSearches months
\* (recurrence.go:230: within a year at interval 1).
ASSUME MonthsAssumption ==
  \A m, n \in 0..(Len(MonthLengths) - 1) :
    \E i \in 0..(MaxMonthSearches - 1) : MonthLength(m + i) >= MonthLength(n)

\* The first day of month m.
MonthStart[m \in Nat] == IF m = 0 THEN 0 ELSE MonthStart[m - 1] + MonthLength(m - 1)

MonthOf(d) == CHOOSE m \in 0..d : d \in MonthStart[m] .. (MonthStart[m + 1] - 1)

\* time.Date carries a day the month does not have over into the next one.
HasDay(m, k) == k <= MonthLength(m)

DateIn(m, k) == At(MonthStart[m] + k - 1)

-----------------------------------------------------------------------------
(***************************************************************************)
(* The next occurrence, as the code computes it: today's candidate, or     *)
(* when that is not later, the candidate one interval on.                  *)
(***************************************************************************)

\* Faulty variant: the date itself is not after itself, but is returned again.
nextDailyNotAfter(r, after) ==
  LET candidate == At(Day(after))
  IN IF candidate >= after THEN candidate ELSE candidate + 2 * r.interval

nextDaily(r, after) ==
  LET candidate == At(Day(after))
  IN IF candidate > after THEN candidate ELSE candidate + 2 * r.interval

nextWeekly(r, after) ==
  LET daysUntil == (r.day - (Day(after) % DaysPerWeek) + DaysPerWeek) % DaysPerWeek
      candidate == At(Day(after) + daysUntil)
  IN IF candidate > after THEN candidate ELSE candidate + 2 * DaysPerWeek * r.interval

\* The first month with that day, looking at every interval-th one.
nextValidMonth(r, month) ==
  LET steps == {i \in 0..(MaxMonthSearches - 1) : HasDay(month + i * r.interval, r.day)}
  IN IF steps = {} THEN {} ELSE {DateIn(month + Min(steps) * r.interval, r.day)}

\* Faulty variant: a month without the day lets its date spill into the next.
nextMonthlySpilled(r, after) ==
  LET month == MonthOf(Day(after))
      candidate == DateIn(month, r.day)
  IN IF candidate > after THEN {candidate} ELSE nextValidMonth(r, month + r.interval)

\* Empty when the rule has no date at all.
nextMonthly(r, after) ==
  LET month == MonthOf(Day(after))
      candidate == DateIn(month, r.day)
  IN IF candidate > after /\ HasDay(month, r.day)
     THEN {candidate}
     ELSE nextValidMonth(r, month + r.interval)

\* The next occurrence after that time, or nothing: the series is over.
NextOccurrenceAfter(r, after) ==
  LET next == CASE r.frequency = "daily" -> {nextDaily(r, after)}
                [] r.frequency = "weekly" -> {nextWeekly(r, after)}
                [] r.frequency = "monthly" -> nextMonthly(r, after)
  IN {t \in next : r.endsAt = Never \/ t <= r.endsAt}

HasEnded(r, now) == r.endsAt # Never /\ now > r.endsAt

-----------------------------------------------------------------------------
(***************************************************************************)
(* What a rule means, read off its fields: the dates it names.             *)
(***************************************************************************)

\* t is a date of the rule's frequency, whatever its interval.
OnCalendar(r, t) ==
  /\ t % 2 = 1
  /\ r.endsAt = Never \/ t <= r.endsAt
  /\ CASE r.frequency = "daily" -> TRUE
       [] r.frequency = "weekly" -> Day(t) % DaysPerWeek = r.day
       [] r.frequency = "monthly" -> Day(t) - MonthStart[MonthOf(Day(t))] + 1 = r.day
=============================================================================
