----------------------------- MODULE Recurrence -----------------------------
(***************************************************************************)
(* When a recurring event falls due (src/engine/Recurrence.c).  A date is  *)
(* a day number; the calendar, GLib's GDate, is given by the lengths of    *)
(* its months and the weekday of day 1.  A recurrence is a record of its   *)
(* first date, its period and what is done about weekends.                 *)
(***************************************************************************)
EXTENDS Integers, Sequences, FiniteSetsExt

CONSTANTS MonthDays,      \* the lengths of the calendar's months, in order
          FirstWeekday    \* the weekday of day 1; Monday is 1, Sunday is 7

ASSUME CalendarAssumption ==
  /\ MonthDays \in Seq(28..31) /\ Len(MonthDays) > 0
  /\ FirstWeekday \in 1..7

(***************************************************************************)
(* The calendar.  Months are numbered through, years being twelve of them: *)
(* the code only ever uses differences of months.                          *)
(***************************************************************************)
LastMonth == Len(MonthDays)
MonthEnd[m \in 0..LastMonth] ==
  IF m = 0 THEN 0 ELSE MonthEnd[m - 1] + MonthDays[m]
Days == 1..MonthEnd[LastMonth]
NoDate == 0               \* the cleared, invalid GDate
Month == [d \in Days |-> CHOOSE m \in 1..LastMonth :
                           MonthEnd[m - 1] < d /\ d <= MonthEnd[m]]
Day(d) == d - MonthEnd[Month[d] - 1]
Weekday(d) == ((d + FirstWeekday - 2) % 7) + 1
Saturday == 6
Sunday == 7
IsLastOfMonth(d) == d = MonthEnd[Month[d]]
InMonth(m, day) == MonthEnd[m - 1] + Min({day, MonthDays[m]})
AddMonths(d, n) == InMonth(Month[d] + n, Day(d))

(***************************************************************************)
(* Making a recurrence.                                                    *)
(***************************************************************************)
Monthly  == {"month", "end of month", "nth weekday", "last weekday", "year"}
Adjusted == {"month", "end of month", "year"}
PeriodTypes == {"once", "day", "week"} \cup Monthly
Adjustments == {"none", "back", "forward"}

LastSameWeekday(d) == Max({e \in d..MonthEnd[Month[d]] : Weekday(e) = Weekday(d)})

\* recurrenceSet: whatever is asked for, the start agrees with the phase.
RecurrenceSet(mult, pt, start, wadj) ==
  LET asked == IF pt \in PeriodTypes THEN pt ELSE "month"
      type  == IF asked = "nth weekday" /\ (Day(start) - 1) \div 7 = 4
               THEN "last weekday" ELSE asked
  IN [ptype |-> type,
      mult  |-> IF pt = "once" THEN 0 ELSE Max({mult, 1}),
      start |-> CASE asked = "end of month" -> MonthEnd[Month[start]]
                  [] asked = "last weekday" -> LastSameWeekday(start)
                  [] OTHER -> start,
      wadj  |-> IF type \in Adjusted THEN wadj ELSE "none"]

(***************************************************************************)
(* The occurrence after a date.                                            *)
(***************************************************************************)
\* nth_weekday_compare: how far the wanted weekday of d's month is from d.
NthWeekdayOffset(start, d, pt) ==
  LET week  == Min({(Day(start) - 1) \div 7, 3})
      match == 7 * week + ((Day(d) - Weekday(d) + Weekday(start) + 7) % 7)
      fifth == pt = "last weekday" /\ MonthDays[Month[d]] - match >= 7
  IN match + (IF fifth THEN 7 ELSE 0) - Day(d)

\* A weekend that an occurrence may have been moved back from is left by the
\* same Friday.
LeaveWeekend(d) == CASE Weekday(d) = Saturday -> d - 1
                     [] Weekday(d) = Sunday   -> d - 2
                     [] OTHER                 -> d

\* The occurrence of this month is the Friday itself, or moved back to it.
FridayForward(r, fri, n) ==
  LET sat == fri + 1
      sun == fri + 2
      day == Day(r.start)
  IN IF r.ptype = "end of month"
     THEN AddMonths(fri, IF \E d \in fri..sun : IsLastOfMonth(d) THEN n ELSE n - 1)
     ELSE IF Day(sat) = day THEN AddMonths(sat, n)
     ELSE IF Day(sun) = day THEN AddMonths(sun, n)
     ELSE IF Day(fri) >= day \/ IsLastOfMonth(fri) THEN AddMonths(fri, n)
     ELSE IF IsLastOfMonth(sat) THEN AddMonths(sat, n)
     ELSE IF IsLastOfMonth(sun) THEN AddMonths(sun, n)
     ELSE AddMonths(fri, n - 1)

\* Step 1: forward one period, passing exactly one occurrence.
Forward(r, ref, n) ==
  LET moved == r.wadj = "back" /\ r.ptype \in Adjusted
      d     == IF moved THEN LeaveWeekend(ref) ELSE ref
      passed == \/ IsLastOfMonth(d)
                \/ r.ptype \in {"month", "year"} /\ Day(d) >= Day(r.start)
                \/ /\ r.ptype \in {"nth weekday", "last weekday"}
                   /\ NthWeekdayOffset(r.start, d, r.ptype) <= 0
  IN IF moved /\ Weekday(d) = Saturday - 1 THEN FridayForward(r, d, n)
     ELSE AddMonths(d, IF passed THEN n ELSE n - 1)

\* An occurrence on a weekend moves to the working day before or after it.
AdjustWeekend(d, wadj) ==
  CASE wadj = "back"    /\ Weekday(d) \in {Saturday, Sunday} -> LeaveWeekend(d)
    [] wadj = "forward" /\ Weekday(d) \in {Saturday, Sunday} ->
         IF Weekday(d) = Saturday THEN d + 2 ELSE d + 1
    [] OTHER -> d

\* Mutant: the phase is counted from the calendar's first month.
AlignToCalendar(r, d, n) ==
  LET m == Month[d] - (Month[d] % n)
  IN CASE r.ptype \in {"nth weekday", "last weekday"} ->
            LET e == AddMonths(d, m - Month[d])
            IN e + NthWeekdayOffset(r.start, e, r.ptype)
       [] r.ptype = "end of month" -> AdjustWeekend(MonthEnd[m], r.wadj)
       [] OTHER -> AdjustWeekend(InMonth(m, Day(r.start)), r.wadj)

\* Step 2: back to the phase of the start date.
Align(r, d, n) ==
  LET m == Month[d] - ((Month[d] - Month[r.start]) % n)
      e == AddMonths(d, m - Month[d])
  IN CASE r.ptype \in {"nth weekday", "last weekday"} ->
            e + NthWeekdayOffset(r.start, e, r.ptype)
       [] r.ptype = "end of month" -> AdjustWeekend(MonthEnd[m], r.wadj)
       [] OTHER -> AdjustWeekend(InMonth(m, Day(r.start)), r.wadj)

\* recurrenceNextInstance
NextInstance(r, ref) ==
  IF ref < r.start THEN r.start
  ELSE IF r.ptype = "once" THEN NoDate
  ELSE IF r.ptype \in Monthly
       THEN LET n == IF r.ptype = "year" THEN 12 * r.mult ELSE r.mult
            IN Align(r, Forward(r, ref, n), n)
       ELSE LET n == IF r.ptype = "week" THEN 7 * r.mult ELSE r.mult
            IN ref + n - ((ref + n - r.start) % n)

\* recurrenceListNextInstance: the earliest of several schedules.
EarliestOf(dates) == IF dates = {} THEN NoDate ELSE Min(dates)
ListNextInstance(rs, ref) ==
  EarliestOf({NextInstance(rs[i], ref) : i \in DOMAIN rs} \ {NoDate})

(***************************************************************************)
(* What is promised of them: Recurrence.h, "strict and precise             *)
(* post-conditions".  Occurrence k is k periods away from the first date,  *)
(* on the day the phase asks for and then off the weekend; the first one   *)
(* is the first date itself.                                               *)
(***************************************************************************)
WeekdaysOf(m, start) ==
  {d \in (MonthEnd[m - 1] + 1)..MonthEnd[m] : Weekday(d) = Weekday(start)}

Occurrence(r, k) ==
  LET m == Month[r.start] + k * r.mult * (IF r.ptype = "year" THEN 12 ELSE 1)
      week == (Day(r.start) - 1) \div 7
  IN IF k = 0 THEN r.start ELSE
     CASE r.ptype = "day"           -> r.start + k * r.mult
       [] r.ptype = "week"          -> r.start + 7 * k * r.mult
       [] r.ptype = "end of month"  -> AdjustWeekend(MonthEnd[m], r.wadj)
       [] r.ptype = "last weekday"  -> Max(WeekdaysOf(m, r.start))
       [] r.ptype = "nth weekday"   ->
            CHOOSE d \in WeekdaysOf(m, r.start) : (d - MonthEnd[m - 1] - 1) \div 7 = week
       [] OTHER                     -> AdjustWeekend(InMonth(m, Day(r.start)), r.wadj)

\* The earliest of the first `many' occurrences after a date.
EarliestAfter(r, ref, many) ==
  EarliestOf({d \in {Occurrence(r, k) : k \in 0..many} : d > ref})
=============================================================================
