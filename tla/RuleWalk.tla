------------------------------ MODULE RuleWalk ------------------------------
(***************************************************************************)
(* One recurrence and all the dates it may be asked about, which is what   *)
(* the rest of the program does with one (src/engine/Recurrence.c): it is  *)
(* made by recurrenceSet and never changes afterwards.                     *)
(***************************************************************************)
EXTENDS Recurrence

CONSTANTS RuleTypes, Multipliers, RuleStarts,  \* what recurrences are made of
          LastRef                              \* the last date asked about

\* Months from one occurrence to the next
MonthsApart(r) == IF r.ptype = "year" THEN 12 * r.mult ELSE r.mult
DaysApart(r) == IF r.ptype = "week" THEN 7 * r.mult ELSE r.mult

Rules == {RecurrenceSet(mult, pt, start, wadj) :
            mult \in Multipliers, pt \in RuleTypes, start \in RuleStarts,
            wadj \in Adjustments}

\* The calendar begins a weekend before the first date and goes on until there
\* is an occurrence after the last date asked about.
Covered(r, last) ==
  /\ r.start > 2
  /\ r.ptype \in Monthly =>
       Max({Month[last], Month[r.start]}) + MonthsApart(r) < LastMonth

ASSUME RuleWalkAssumption ==
  /\ Multipliers \subseteq Nat /\ RuleStarts \subseteq Days /\ LastRef \in Days
  /\ \A r \in Rules : Covered(r, LastRef)

VARIABLES
  rule,   \* the recurrence, or none
  asked   \* the date it is asked about

walkvars == <<rule, asked>>

WalkInit ==
  /\ rule \in {<<>>} \cup {<<r>> : r \in Rules}
  /\ asked = 0
AskNext ==
  /\ rule # <<>> /\ asked < LastRef
  /\ asked' = asked + 1
  /\ UNCHANGED rule
WalkSpec == WalkInit /\ [][AskNext]_walkvars

\* As many periods as end after the last date asked about, and one more
Periods(r, last) ==
  CASE r.ptype = "once"    -> 0
    [] r.ptype \in Monthly ->
         (Max({Month[last] + 1, Month[r.start]}) - Month[r.start]) \div MonthsApart(r) + 1
    [] OTHER -> (Max({last, r.start}) - r.start) \div DaysApart(r) + 1

(* Whatever date it is asked about, before, on, between or after           *)
(* occurrences, recurrenceNextInstance finds the earliest occurrence of    *)
(* the rule that is strictly later: never the same one again, none skipped.*)
(* ("nth weekday" is left out, as what breaks StrictlyLater; and an        *)
(* occurrence that is moved forward from a weekend is not looked for from  *)
(* within that weekend: the code only knows how to look back.)             *)
NextIsEarliest ==
  \A i \in DOMAIN rule :
    /\ rule[i].ptype # "nth weekday"
    /\ ~(rule[i].wadj = "forward" /\ Weekday(asked) \in {Saturday, Sunday})
    => NextInstance(rule[i], asked) = EarliestAfter(rule[i], asked, Periods(rule[i], LastRef))

(* Recurrence.h promises that 'nextDate' "will be strictly later than the  *)
(* 'refDate'" of any recurrence that goes on.                              *)
StrictlyLater ==
  \A i \in DOMAIN rule :
    rule[i].ptype # "once" => NextInstance(rule[i], asked) > asked
=============================================================================
