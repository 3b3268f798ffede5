------------------------------- MODULE MCUpkeep -------------------------------
(***************************************************************************)
(* What the engine does with a book's transactions by itself: schedules    *)
(* create them, on the dates that recurrences give, scrubbing sorts their  *)
(* splits into lots, and the log keeps their edits; and the numbers all of *)
(* it is reckoned in.  The five parts share no state: one run checks them  *)
(* all, each behaviour being of one part.                                  *)
(***************************************************************************)
EXTENDS SchedXaction, RuleWalk, Lots, TransLog, Reckoning

CONSTANT Parts   \* the parts that a run looks at

VARIABLE part

allvars == <<part, operands, sxvars, walkvars, lotvars, logvars>>

\* A calendar of three years, so that every period occurs more than once.
Year == <<31, 28, 31, 30, 31, 30, 31, 31, 30, 31, 30, 31>>
ThreeYears == Year \o Year \o Year

\* Every other day from the second, and every week from the third.
Mixed == { << [ptype |-> "day",  mult |-> 2, start |-> 2, wadj |-> "none"],
              [ptype |-> "week", mult |-> 1, start |-> 3, wadj |-> "none"] >> }
\* What the theorems about schedules assume of their recurrences.
ASSUME MixedIsRegular == Regular

BuyOrSell == {2, -1}

\* Ends and middles of months, weekends, and what a leap day would be.
Edges == {3, 4, 14, 15, 16, 17, 28, 29, 30, 31, 32, 44, 45, 46, 57, 58, 59, 60}
AllButNth == PeriodTypes \ {"nth weekday"}
OnlyNth == {"nth weekday"}

Idle == /\ ~sx.auto /\ ~sx.notify /\ sx.total = 0 /\ sx.end = NoDate
        /\ created = <<>>

\* A new account and a new split, and a memo that is cleared.
Line(account, memo, n) == [acc |-> account, memo |-> memo, amt |-> n]
TwoAndTwo ==
  { [s \in {1, 2} |-> IF s = 1 THEN Line("bank", NoMemo, 1) ELSE Line("food", "x", -1)],
    [s \in {1, 2} |-> IF s = 1 THEN Line("bank", NoMemo, 2) ELSE Line("food", NoMemo, -2)],
    [s \in {1, 3} |-> IF s = 1 THEN Line("bank", NoMemo, 2) ELSE Line("rent", "x", -2)] }
Untouched == \A t \in Transactions : ledger[t] = Absent

\* Both ends, around a half and a quarter, and small ones
AroundTheEnds == {-31, -16, -7, 0, 3, 5, 16}
WholeAndReciprocal == {1, 2, 3, 7, 10, 16, -1, -2, -3, -7}

Init ==
  /\ part \in Parts
  /\ SxInit /\ (part # "schedules" => Idle)
  /\ LotInit
  /\ LogInit /\ (part # "log" => Untouched)
  /\ WalkInit /\ (part = "recurrences" <=> rule # <<>>)
  /\ ReckonInit /\ (part = "numbers" <=> operands # <<>>)

Next ==
  /\ UNCHANGED <<part, operands>>
  /\ \/ part = "schedules" /\ SxNext /\ UNCHANGED <<walkvars, lotvars, logvars>>
     \/ part = "recurrences" /\ AskNext /\ UNCHANGED <<sxvars, lotvars, logvars>>
     \/ part = "lots" /\ LotNext /\ UNCHANGED <<sxvars, walkvars, logvars>>
     \/ part = "log" /\ LogNext /\ UNCHANGED <<sxvars, walkvars, lotvars>>

Spec == Init /\ [][Next]_allvars
=============================================================================
