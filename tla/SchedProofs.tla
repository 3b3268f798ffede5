----------------------------- MODULE SchedProofs -----------------------------
(***************************************************************************)
(* Proofs about SchedXaction and about the recurrences that give its       *)
(* dates.                                                                  *)
(*                                                                         *)
(* Those about SchedXaction assume that the recurrences of a schedule are  *)
(* Regular; those that recurrenceSet makes are, with two exceptions        *)
(* (MadeSchedulesAreRegular).                                              *)
(*                                                                         *)
(* The inductive invariant SchedInv says of the book where every           *)
(* occurrence up to the last date is (Placement) and what remains of them  *)
(* (Limited), and of the dialog that what it shows is either what the      *)
(* schedule would generate now, the states aside (Current), or what an     *)
(* automatic schedule has just carried out (Behind). A pass of             *)
(* gnc_sx_instance_model_effect_change over either is a run of successive  *)
(* occurrences followed by reminders (IsRun), and PassInv says what its    *)
(* first k instances have done.                                            *)
(*                                                                         *)
(* NumberInv, the second inductive invariant, says that the counters of    *)
(* the schedule, of the instances listed and of what was created agree     *)
(* with the dates as long as nothing was put off.                          *)
(*                                                                         *)
(* Of a recurrence by the month, whose arithmetic is that of a calendar    *)
(* (IsCalendar), Base is the day a month's occurrence falls on before      *)
(* weekends and Due the one it is moved to. Step 1 of                      *)
(* recurrenceNextInstance goes a period forward, less one month when the   *)
(* occurrence of the month asked about is still to come, which it is after *)
(* Passed (ForwardMonth); step 2 goes back to a whole number of periods    *)
(* after the first date (NextStep, AlignIs). NextFound puts this together  *)
(* with the rules by the day, by the week and once.                        *)
(***************************************************************************)
EXTENDS SchedXaction, RuleWalk, InductionLemmas

-----------------------------------------------------------------------------
(* Schedules: types and dates.                                             *)

Tsd == [last : 0..Horizon, remain : Int, num : Int]
SxType ==
  [schedule : Schedules, start : Starts, end : Ends, total : Totals,
   last : 0..Horizon, remain : Nat, num : Int, deferred : Seq(Tsd),
   enabled : BOOLEAN, auto : BOOLEAN, notify : BOOLEAN]
Inst == [orig : States, state : States, date : 1..Horizon, tsd : Tsd]

\* The date is that of an occurrence.
Placed(s, tsd) == tsd.last = NoDate \/ s.start <= tsd.last
RefDate(s, tsd) == IF tsd.last = NoDate THEN s.start - 1 ELSE tsd.last

LEMMA ScheduleBounds ==
  /\ Horizon \in Nat /\ LastDay \in 0..Horizon /\ LastDay \in Nat
  /\ AdvanceCreate \in Nat /\ AdvanceRemind \in Nat
  /\ Starts \subseteq 1..LastDay /\ Totals \subseteq Nat /\ Ends \subseteq Nat
  /\ NoDate = 0
BY SchedXactionAssumption DEF Horizon, Days, NoDate

LEMMA AfterFacts ==
  ASSUME Regular, NEW s \in SxType, NEW tsd \in Tsd, Placed(s, tsd)
  PROVE  /\ InstanceAfter(s, tsd) \in Nat
         /\ InstanceAfter(s, tsd) # NoDate =>
              /\ s.start <= InstanceAfter(s, tsd) /\ tsd.last < InstanceAfter(s, tsd)
              /\ InBounds(s, tsd, InstanceAfter(s, tsd))
              /\ InstanceAfter(s, tsd) = ListNextInstance(s.schedule, RefDate(s, tsd))
         /\ NextOccurrence(s, tsd) = InstanceAfter(s, tsd)
         /\ RefDate(s, tsd) \in 0..Horizon /\ tsd.last <= RefDate(s, tsd)
         /\ s.start - 1 <= RefDate(s, tsd)
<1> DEFINE ref == RefDate(s, tsd)
           date == ListNextInstance(s.schedule, ref)
<1>1. s.start \in 1..LastDay /\ tsd.last \in 0..Horizon /\ s.schedule \in Schedules
  BY ScheduleBounds DEF SxType, Tsd
<1>2. ref \in 0..Horizon /\ tsd.last <= ref /\ s.start - 1 <= ref
  BY <1>1, ScheduleBounds DEF RefDate, Placed
<1>3. date \in Nat /\ (date = NoDate \/ ref < date)
  BY <1>1, <1>2 DEF Regular
<1>4. InstanceAfter(s, tsd) = IfInBounds(s, tsd, date)
  BY DEF InstanceAfter, OccursAfter, RefDate
<1>5. IfInBounds(s, tsd, date) =
        IF InBounds(s, tsd, date) THEN date ELSE NoDate
  BY DEF IfInBounds
<1>6. (IF tsd.last = NoDate THEN s.start - 1 ELSE Max({tsd.last, s.start})) = ref
  <2>1. tsd.last # NoDate => Max({tsd.last, s.start}) = tsd.last
    BY <1>1, ScheduleBounds DEF Placed, Max
  <2> QED
    BY <2>1 DEF RefDate
<1>7. NextOccurrence(s, tsd) = InstanceAfter(s, tsd)
  BY <1>4, <1>6 DEF NextOccurrence, OccursAfter
<1> HIDE DEF ref, date
<1>8. date # NoDate => s.start <= date /\ tsd.last < date
  BY <1>1, <1>2, <1>3, ScheduleBounds
<1> QED
  BY <1>2, <1>3, <1>4, <1>5, <1>7, <1>8, ScheduleBounds DEF ref, date

\* The occurrence depends on the last date and on whether any remain.
LEMMA AfterSame ==
  ASSUME NEW s, NEW r, NEW tsd,
         s.schedule = r.schedule, s.start = r.start, s.end = r.end, s.total = r.total
  PROVE  /\ InstanceAfter(s, tsd) = InstanceAfter(r, tsd)
         /\ NextOccurrence(s, tsd) = NextOccurrence(r, tsd)
BY DEF InstanceAfter, NextOccurrence, OccursAfter, IfInBounds, InBounds

LEMMA IncrFacts ==
  ASSUME Regular, NEW s \in SxType, NEW tsd \in Tsd, Placed(s, tsd),
         InstanceAfter(s, tsd) \in 1..Horizon
  PROVE  /\ IncrState(s, tsd) \in Tsd /\ Placed(s, IncrState(s, tsd))
         /\ IncrState(s, tsd).last = InstanceAfter(s, tsd)
         /\ IncrState(s, tsd).num = tsd.num + 1
         /\ IncrState(s, tsd).remain = IF s.total # 0 THEN tsd.remain - 1 ELSE tsd.remain
<1>1. tsd.remain \in Int /\ tsd.num \in Int
  BY DEF Tsd
<1>2. s.start <= InstanceAfter(s, tsd)
  BY AfterFacts, ScheduleBounds
<1> QED
  BY <1>1, <1>2, ScheduleBounds DEF IncrState, Tsd, Placed

LEMMA TemporalFacts ==
  ASSUME NEW s \in SxType
  PROVE  /\ TemporalState(s) \in Tsd
         /\ TemporalState(s).last = s.last /\ TemporalState(s).remain = s.remain
         /\ TemporalState(s).num = s.num
BY DEF TemporalState, SxType, Tsd

-----------------------------------------------------------------------------
(* The instances of a schedule: the loop of _gnc_sx_gen_instances.         *)

\* The temporal state after the first n instances of a list.
IsAfter(s, list, n, tsd) ==
  /\ tsd \in Tsd /\ Placed(s, tsd)
  /\ tsd.last = IF n = 0 THEN s.last ELSE list[n].date
  /\ tsd.num = s.num + n
  /\ tsd.remain = IF s.total # 0 THEN s.remain - n ELSE s.remain

IsMade(s, createEnd, inst) ==
  /\ inst.date = InstanceAfter(s, inst.tsd) /\ inst.date <= createEnd + AdvanceRemind
  /\ inst.state = IF inst.date <= createEnd THEN "to-create" ELSE "reminder"
  /\ inst.orig = inst.state

IsChain(s, createEnd, list) ==
  /\ list \in Seq(Inst)
  /\ \A i \in DOMAIN list : /\ IsMade(s, createEnd, list[i])
                           /\ IsAfter(s, list, i - 1, list[i].tsd)
                           /\ s.last < list[i].date
  /\ \A i, j \in DOMAIN list : i < j => list[i].date < list[j].date

Ended(s, createEnd, tsd) ==
  InstanceAfter(s, tsd) = NoDate \/ InstanceAfter(s, tsd) > createEnd + AdvanceRemind

LoopInv(s, createEnd, at) ==
  /\ IsChain(s, createEnd, at.insts)
  /\ IsAfter(s, at.insts, Len(at.insts), at.tsd)
  /\ Len(at.insts) <= at.tsd.last

LEMMA RoundKeeps ==
  ASSUME Regular, NEW s \in SxType, NEW createEnd \in Nat,
         createEnd + AdvanceRemind \in 0..Horizon,
         NEW at, LoopInv(s, createEnd, at)
  PROVE  /\ LoopInv(s, createEnd, Round(s, createEnd, at))
         /\ Ended(s, createEnd, at.tsd) => Round(s, createEnd, at) = at
         /\ ~Ended(s, createEnd, at.tsd) =>
              Len(Round(s, createEnd, at).insts) = Len(at.insts) + 1
<1> DEFINE date == InstanceAfter(s, at.tsd)
           new == NewInstance(IF date <= createEnd THEN "to-create" ELSE "reminder",
                              date, at.tsd)
           L == at.insts
           n == Len(L)
           M == Append(L, new)
           tsd == IncrState(s, at.tsd)
<1>1. L \in Seq(Inst) /\ n \in Nat /\ DOMAIN L = 1..n /\ at.tsd \in Tsd /\ Placed(s, at.tsd)
  BY DEF LoopInv, IsChain, IsAfter
<1>2. date \in Nat /\ (date # NoDate => s.start <= date /\ at.tsd.last < date)
  BY <1>1, AfterFacts
<1>3. CASE Ended(s, createEnd, at.tsd)
  <2>1. Round(s, createEnd, at) = at
    BY <1>3 DEF Round, Ended
  <2> QED
    BY <1>3, <2>1
<1>4. CASE ~Ended(s, createEnd, at.tsd)
  <2>1. Round(s, createEnd, at) = [insts |-> M, tsd |-> tsd]
    BY <1>4 DEF Round, Ended
  <2>2. date # NoDate /\ date <= createEnd + AdvanceRemind
    BY <1>2, <1>4 DEF Ended
  <2>3. date \in 1..Horizon
    BY <1>2, <2>2, ScheduleBounds
  <2>4. new \in Inst
    BY <1>1, <2>3 DEF NewInstance, Inst, States
  <2>5. M \in Seq(Inst) /\ Len(M) = n + 1 /\ DOMAIN M = 1..(n + 1)
        /\ M[n + 1] = new /\ \A i \in 1..n : M[i] = L[i]
    BY <1>1, <2>4
  <2>6. new.date = date /\ new.tsd = at.tsd /\ new.orig = new.state
        /\ new.state = IF date <= createEnd THEN "to-create" ELSE "reminder"
    BY DEF NewInstance
  <2>7. tsd \in Tsd /\ Placed(s, tsd) /\ tsd.last = date /\ tsd.num = at.tsd.num + 1
        /\ tsd.remain = IF s.total # 0 THEN at.tsd.remain - 1 ELSE at.tsd.remain
    BY <1>1, <2>3, IncrFacts
  <2>8. IsAfter(s, L, n, at.tsd) /\ n <= at.tsd.last
    BY DEF LoopInv
  <2>9. s.last \in Nat /\ s.num \in Int /\ s.remain \in Nat /\ at.tsd.last \in Nat
    BY <1>1, ScheduleBounds DEF SxType, Tsd
  <2>10. \A i \in 1..n : L[i] \in Inst /\ L[i].date \in Nat /\ s.last < L[i].date
    <3> SUFFICES ASSUME NEW i \in 1..n
                 PROVE  L[i] \in Inst /\ L[i].date \in Nat /\ s.last < L[i].date
      OBVIOUS
    <3>1. L[i] \in Inst
      BY <1>1
    <3>2. L[i].date \in Nat
      BY <3>1, ScheduleBounds DEF Inst
    <3>3. s.last < L[i].date
      BY <1>1 DEF LoopInv, IsChain
    <3> QED
      BY <3>1, <3>2, <3>3
  <2>11. \A i \in 1..n : L[i].date <= at.tsd.last
    <3> SUFFICES ASSUME NEW i \in 1..n PROVE L[i].date <= at.tsd.last
      OBVIOUS
    <3>1. n # 0 /\ n \in 1..n /\ at.tsd.last = L[n].date
      BY <1>1, <2>8 DEF IsAfter
    <3>2. i < n => L[i].date < L[n].date
      BY <1>1, <3>1 DEF LoopInv, IsChain
    <3> QED
      BY <1>1, <2>10, <3>1, <3>2
  <2>12. s.last <= at.tsd.last
    <3>1. n = 0 => at.tsd.last = s.last
      BY <2>8 DEF IsAfter
    <3>2. CASE n # 0
      <4> DEFINE a == s.last  b == L[n].date  c == at.tsd.last
      <4>1. n \in 1..n
        BY <1>1, <3>2
      <4>2. a \in Nat /\ b \in Nat /\ c \in Nat /\ a < b /\ b <= c
        BY <2>9, <2>10, <2>11, <4>1
      <4> HIDE DEF a, b, c
      <4>3. a <= c
        BY <4>2
      <4> QED
        BY <4>3 DEF a, c
    <3> QED
      BY <2>9, <3>1, <3>2
  <2> HIDE DEF date, new, tsd, M, L, n
  <2>13. ASSUME NEW i \in DOMAIN M
         PROVE  /\ IsMade(s, createEnd, M[i]) /\ IsAfter(s, M, i - 1, M[i].tsd)
                /\ s.last < M[i].date
    <3>1. CASE i = n + 1
      <4>1. IsMade(s, createEnd, M[i])
        BY <2>2, <2>5, <2>6, <3>1 DEF IsMade, date
      <4>2. IsAfter(s, M, n, at.tsd)
        <5>1. n # 0 => M[n] = L[n]
          BY <1>1, <2>5
        <5> QED
          BY <2>8, <5>1 DEF IsAfter
      <4>3. i - 1 = n
        BY <1>1, <3>1
      <4>4. s.last < date
        BY <1>2, <2>2, <2>9, <2>12
      <4> QED
        BY <2>5, <2>6, <3>1, <4>1, <4>2, <4>3, <4>4
    <3>2. CASE i \in 1..n
      <4>1. IsMade(s, createEnd, L[i]) /\ IsAfter(s, L, i - 1, L[i].tsd) /\ s.last < L[i].date
        BY <1>1, <3>2 DEF LoopInv, IsChain, L
      <4>2. i - 1 # 0 => M[i - 1] = L[i - 1]
        BY <1>1, <2>5, <3>2
      <4>3. IsAfter(s, M, i - 1, L[i].tsd)
        BY <4>1, <4>2 DEF IsAfter
      <4> QED
        BY <2>5, <3>2, <4>1, <4>3
    <3> QED
      BY <1>1, <2>5, <3>1, <3>2
  <2>14. ASSUME NEW i \in DOMAIN M, NEW j \in DOMAIN M, i < j
         PROVE  M[i].date < M[j].date
    <3>1. i \in 1..n /\ M[i] = L[i]
      BY <1>1, <2>5, <2>14
    <3>2. CASE j = n + 1
      BY <1>2, <2>2, <2>5, <2>6, <2>9, <2>10, <2>11, <3>1, <3>2
    <3>3. CASE j \in 1..n
      BY <1>1, <2>5, <2>14, <3>1, <3>3 DEF LoopInv, IsChain, L
    <3> QED
      BY <1>1, <2>5, <3>2, <3>3
  <2>15. IsChain(s, createEnd, M)
    BY <2>5, <2>13, <2>14 DEF IsChain
  <2>16. IsAfter(s, M, n + 1, tsd)
    <3>1. n + 1 # 0 /\ M[n + 1].date = date
      BY <1>1, <2>5, <2>6
    <3> DEFINE oldNum == at.tsd.num  newNum == tsd.num
               oldRemain == at.tsd.remain  newRemain == tsd.remain
    <3>2. /\ oldNum = s.num + n /\ newNum = oldNum + 1
          /\ oldRemain = IF s.total # 0 THEN s.remain - n ELSE s.remain
          /\ newRemain = IF s.total # 0 THEN oldRemain - 1 ELSE oldRemain
      BY <2>7, <2>8 DEF IsAfter
    <3>3. /\ tsd.num = s.num + (n + 1)
          /\ tsd.remain = IF s.total # 0 THEN s.remain - (n + 1) ELSE s.remain
      <4> DEFINE num == s.num  remain == s.remain  limited == s.total # 0
      <4>1. /\ num \in Int /\ remain \in Nat /\ n \in Nat
            /\ oldNum = num + n /\ newNum = oldNum + 1
            /\ limited => oldRemain = remain - n /\ newRemain = oldRemain - 1
            /\ ~limited => oldRemain = remain /\ newRemain = oldRemain
        BY <1>1, <2>9, <3>2
      <4> HIDE DEF n, num, remain, limited, oldNum, oldRemain, newNum, newRemain
      <4>2. newNum = num + (n + 1)
        BY <4>1
      <4>3. limited => newRemain = remain - (n + 1)
        BY <4>1
      <4>4. ~limited => newRemain = remain
        BY <4>1
      <4> QED
        BY <4>2, <4>3, <4>4 DEF num, remain, limited, newNum, newRemain
    <3> QED
      BY <2>7, <3>1, <3>3 DEF IsAfter
  <2>17. n + 1 <= tsd.last
    BY <1>1, <1>2, <2>2, <2>7, <2>8, <2>9
  <2>18. LoopInv(s, createEnd, [insts |-> M, tsd |-> tsd])
    BY <2>5, <2>15, <2>16, <2>17 DEF LoopInv
  <2>19. Len([insts |-> M, tsd |-> tsd].insts) = n + 1
    BY <2>5
  <2> QED
    BY <1>4, <2>1, <2>18, <2>19 DEF n, L
<1> QED
  BY <1>3, <1>4

AreRounds(f, s, createEnd, N) ==
  f = [n \in 0..N |-> IF n = 0 THEN [insts |-> <<>>, tsd |-> TemporalState(s)]
                      ELSE Round(s, createEnd, f[n - 1])]

LEMMA RoundsExist ==
  ASSUME NEW s, NEW createEnd, NEW N \in Nat
  PROVE  \E f : AreRounds(f, s, createEnd, N)
<1> DEFINE first == [insts |-> <<>>, tsd |-> TemporalState(s)]
           S == {n \in Nat : \E f : AreRounds(f, s, createEnd, n)}
<1>1. 0 \in S
  <2> DEFINE f == [n \in 0..0 |-> first]
  <2>1. AreRounds(f, s, createEnd, 0)
    BY DEF AreRounds
  <2> QED
    BY <2>1
<1>2. ASSUME NEW m \in 0..(N - 1), m \in S
      PROVE  m + 1 \in S
  <2>1. PICK f : AreRounds(f, s, createEnd, m)
    BY <1>2
  <2> HIDE DEF first
  <2> DEFINE g == [n \in 0..(m + 1) |-> IF n = 0 THEN first ELSE Round(s, createEnd, f[n - 1])]
  <2>2. ASSUME NEW n \in 0..(m + 1), n # 0
        PROVE  g[n - 1] = f[n - 1]
    <3>1. n - 1 \in 0..m /\ n - 1 \in 0..(m + 1)
      BY <2>2
    <3> DEFINE i == n - 1
    <3> HIDE DEF i
    <3>2. g[i] = IF i = 0 THEN first ELSE Round(s, createEnd, f[i - 1])
      BY <3>1 DEF i
    <3>3. f[i] = IF i = 0 THEN first ELSE Round(s, createEnd, f[i - 1])
      BY <2>1, <3>1 DEF AreRounds, i, first
    <3> QED
      BY <3>2, <3>3 DEF i
  <2>3. AreRounds(g, s, createEnd, m + 1)
    BY <2>2 DEF AreRounds, first
  <2> QED
    BY <2>3
<1>3. \A n \in 0..N : n \in S
  <2> HIDE DEF S
  <2> QED
    BY <1>1, <1>2, UpTo
<1> QED
  BY <1>3

\* The instances of a schedule follow each other from its last date on, up to
\* the first occurrence that is too far ahead or beyond the schedule's end.
LEMMA InstancesFromFacts ==
  ASSUME Regular, NEW s \in SxType, Placed(s, TemporalState(s)), NEW createEnd \in Nat,
         createEnd + AdvanceRemind \in 0..Horizon
  PROVE  /\ IsChain(s, createEnd, InstancesFrom(s, createEnd))
         /\ \E tsd : /\ IsAfter(s, InstancesFrom(s, createEnd),
                                Len(InstancesFrom(s, createEnd)), tsd)
                     /\ Ended(s, createEnd, tsd)
<1> DEFINE N == createEnd + AdvanceRemind
           first == [insts |-> <<>>, tsd |-> TemporalState(s)]
           f == CHOOSE f : AreRounds(f, s, createEnd, N)
<1>1. N \in Nat
  BY ScheduleBounds
<1>2. AreRounds(f, s, createEnd, N)
  BY <1>1, RoundsExist
<1>3. InstancesFrom(s, createEnd) = f[N].insts
  BY DEF InstancesFrom, AreRounds
<1> HIDE DEF f
<1>4. f[0] = first /\ \A n \in 0..(N - 1) : f[n + 1] = Round(s, createEnd, f[n])
  <2>1. f[0] = first
    BY <1>1, <1>2 DEF AreRounds
  <2>2. ASSUME NEW n \in 0..(N - 1)  PROVE f[n + 1] = Round(s, createEnd, f[n])
    <3>1. n + 1 \in 0..N /\ n + 1 # 0 /\ (n + 1) - 1 = n
      BY <1>1
    <3> HIDE DEF first, N
    <3>2. f[n + 1] = Round(s, createEnd, f[(n + 1) - 1])
      BY <1>2, <3>1 DEF AreRounds
    <3> QED
      BY <3>1, <3>2
  <2> QED
    BY <2>1, <2>2
<1>5. LoopInv(s, createEnd, first)
  <2>1. first.insts = <<>> /\ first.insts \in Seq(Inst) /\ Len(first.insts) = 0
        /\ DOMAIN first.insts = {}
    OBVIOUS
  <2>2. IsChain(s, createEnd, first.insts)
    BY <2>1 DEF IsChain
  <2>3. first.tsd = TemporalState(s) /\ s.last \in 0..Horizon /\ s.num \in Int /\ s.remain \in Nat
    BY DEF SxType
  <2>4. IsAfter(s, first.insts, 0, first.tsd) /\ 0 <= first.tsd.last
    BY <2>3, TemporalFacts, ScheduleBounds DEF IsAfter
  <2> QED
    BY <2>1, <2>2, <2>4 DEF LoopInv
<1> DEFINE S == {n \in 0..N : /\ LoopInv(s, createEnd, f[n])
                              /\ Ended(s, createEnd, f[n].tsd) \/ Len(f[n].insts) = n}
<1>6. 0 \in S
  <2>1. Len(first.insts) = 0
    OBVIOUS
  <2> QED
    BY <1>1, <1>4, <1>5, <2>1
<1>7. ASSUME NEW n \in 0..(N - 1), n \in S
      PROVE  n + 1 \in S
  <2>1. LoopInv(s, createEnd, f[n]) /\ (Ended(s, createEnd, f[n].tsd) \/ Len(f[n].insts) = n)
    BY <1>7
  <2>2. f[n + 1] = Round(s, createEnd, f[n]) /\ n + 1 \in 0..N
    BY <1>1, <1>4
  <2> QED
    BY <2>1, <2>2, RoundKeeps
<1>8. \A n \in 0..N : n \in S
  <2> HIDE DEF S, N
  <2> QED
    BY <1>1, <1>6, <1>7, UpTo
<1>9. LoopInv(s, createEnd, f[N]) /\ (Ended(s, createEnd, f[N].tsd) \/ Len(f[N].insts) = N)
  <2>1. N \in 0..N
    BY <1>1
  <2> QED
    BY <1>8, <2>1
<1> HIDE DEF S
<1>10. Ended(s, createEnd, f[N].tsd)
  <2> SUFFICES ASSUME Len(f[N].insts) = N  PROVE Ended(s, createEnd, f[N].tsd)
    BY <1>9
  <2> DEFINE tsd == f[N].tsd
  <2>1. tsd \in Tsd /\ Placed(s, tsd) /\ N <= tsd.last
    BY <1>9 DEF LoopInv, IsAfter
  <2> HIDE DEF tsd
  <2>2. InstanceAfter(s, tsd) \in Nat /\ (InstanceAfter(s, tsd) # NoDate => tsd.last < InstanceAfter(s, tsd))
    BY <2>1, AfterFacts
  <2>3. tsd.last \in Nat
    BY <2>1, ScheduleBounds DEF Tsd
  <2>4. InstanceAfter(s, tsd) # NoDate => InstanceAfter(s, tsd) > N
    BY <1>1, <2>1, <2>2, <2>3
  <2> QED
    BY <2>4 DEF Ended, tsd
<1> HIDE DEF N
<1> QED
  BY <1>3, <1>9, <1>10 DEF LoopInv

-----------------------------------------------------------------------------
(* What is generated: the instances put off, then those of the loop.       *)

\* The schedule is after an occurrence, and what is put off is not later.
SxInv(s) ==
  /\ s \in SxType
  /\ Placed(s, TemporalState(s))
  /\ s.total = 0 \/ s.end = NoDate
  /\ s.total = 0 => s.remain = 0
  /\ s.end # NoDate => s.last <= s.end
  /\ \A i \in DOMAIN s.deferred :
       /\ Placed(s, s.deferred[i])
       /\ InstanceAfter(s, s.deferred[i]) \in 1..s.last

\* The date that the schedule is after when it has passed the first m instances.
LastAt(s, insts, m) == IF m = Len(s.deferred) THEN s.last ELSE insts[m].date

StateAt(s, insts, m, tsd) ==
  /\ tsd \in Tsd /\ Placed(s, tsd) /\ tsd.last = LastAt(s, insts, m)
  /\ tsd.num = s.num + (m - Len(s.deferred))
  /\ tsd.remain = IF s.total # 0 THEN s.remain - (m - Len(s.deferred)) ELSE s.remain

IsPutOff(s, inst, tsd) ==
  inst.tsd = tsd /\ inst.date = InstanceAfter(s, tsd) /\ inst.orig = "postponed"

Generated(s, createEnd, insts) ==
  /\ insts \in Seq(Inst) /\ Len(s.deferred) <= Len(insts)
  /\ \A i \in 1..Len(s.deferred) :
       IsPutOff(s, insts[i], s.deferred[i]) /\ insts[i].state = "postponed"
  /\ \A i \in (Len(s.deferred) + 1)..Len(insts) :
       /\ IsMade(s, createEnd, insts[i]) /\ StateAt(s, insts, i - 1, insts[i].tsd)
       /\ s.last < insts[i].date
  /\ \A i, j \in (Len(s.deferred) + 1)..Len(insts) : i < j => insts[i].date < insts[j].date
  /\ \E tsd : StateAt(s, insts, Len(insts), tsd) /\ Ended(s, createEnd, tsd)

LEMMA SecondPart ==
  ASSUME NEW S, NEW u \in Seq(S), NEW v \in Seq(S),
         NEW i \in (Len(u) + 1)..(Len(u) + Len(v))
  PROVE  /\ i - Len(u) \in 1..Len(v) /\ i - Len(u) \in DOMAIN v
         /\ (u \o v)[i] = v[i - Len(u)]
<1>1. Len(u) \in Nat /\ Len(v) \in Nat /\ i \in Int
  OBVIOUS
<1>2. i - Len(u) \in 1..Len(v) /\ i \in 1..(Len(u) + Len(v)) /\ ~(i <= Len(u))
  BY <1>1
<1> QED
  BY <1>1, <1>2

LEMMA BothParts ==
  ASSUME NEW S, NEW u \in Seq(S), NEW v \in Seq(S)
  PROVE  u \o v \in Seq(S) /\ Len(u \o v) = Len(u) + Len(v)
OBVIOUS

LEMMA FirstPart ==
  ASSUME NEW S, NEW u \in Seq(S), NEW v \in Seq(S), NEW i \in 1..Len(u)
  PROVE  (u \o v)[i] = u[i]
OBVIOUS

LEMMA GenFacts ==
  ASSUME Regular, NEW s, SxInv(s), NEW end \in 0..LastDay
  PROVE  Generated(s, end + AdvanceCreate, GenInstances(s, end))
<1> DEFINE ce == end + AdvanceCreate
           D == s.deferred
           n == Len(D)
           C == InstancesFrom(s, ce)
           P == [i \in DOMAIN D |-> NewInstance("postponed", NextOccurrence(s, D[i]), D[i])]
           G == GenInstances(s, end)
<1>1. s \in SxType /\ D \in Seq(Tsd) /\ n \in Nat /\ DOMAIN D = 1..n /\ s.last \in 0..Horizon
  BY DEF SxInv, SxType
<1>2. ce \in Nat /\ ce + AdvanceRemind \in 0..Horizon
  BY ScheduleBounds DEF Horizon
<1>3. IsChain(s, ce, C) /\ \E tsd : IsAfter(s, C, Len(C), tsd) /\ Ended(s, ce, tsd)
  BY <1>1, <1>2, InstancesFromFacts DEF SxInv
<1>4. C \in Seq(Inst) /\ Len(C) \in Nat /\ DOMAIN C = 1..Len(C)
  BY <1>3 DEF IsChain
<1>5. ASSUME NEW i \in 1..n
      PROVE  P[i] \in Inst /\ IsPutOff(s, P[i], D[i]) /\ P[i].state = "postponed"
  <2>1. D[i] \in Tsd /\ Placed(s, D[i]) /\ InstanceAfter(s, D[i]) \in 1..s.last
    BY <1>1 DEF SxInv
  <2>2. NextOccurrence(s, D[i]) = InstanceAfter(s, D[i])
    BY <1>1, <2>1, AfterFacts
  <2>3. P[i] = NewInstance("postponed", InstanceAfter(s, D[i]), D[i])
    BY <1>1, <2>2
  <2>4. InstanceAfter(s, D[i]) \in 1..Horizon
    BY <1>1, <2>1, ScheduleBounds
  <2> QED
    BY <2>1, <2>3, <2>4 DEF NewInstance, Inst, States, IsPutOff
<1>6. P \in Seq(Inst) /\ Len(P) = n
  <2>1. \A i \in 1..n : P[i] \in Inst
    BY <1>5
  <2>2. P = [i \in 1..n |-> P[i]]
    BY <1>1
  <2> HIDE DEF P
  <2> QED
    BY <1>1, <2>1, <2>2
<1>7. G = P \o C
  BY DEF GenInstances
<1> HIDE DEF P, C, G, n, D, ce
<1>8. G \in Seq(Inst) /\ Len(G) = n + Len(C) /\ DOMAIN G = 1..(n + Len(C))
  <2>1. P \o C \in Seq(Inst)
    BY <1>4, <1>6
  <2>2. Len(P \o C) = Len(P) + Len(C)
    BY <1>4, <1>6
  <2> QED
    BY <1>6, <1>7, <2>1, <2>2
<1>9. \A i \in 1..n : G[i] = P[i]
  BY <1>1, <1>4, <1>6, <1>7
<1>10. ASSUME NEW i \in (n + 1)..Len(G)
       PROVE  /\ i - n \in DOMAIN C /\ G[i] = C[i - n]
              /\ LastAt(s, G, i - 1) = IF i - n = 1 THEN s.last ELSE C[(i - n) - 1].date
  <2>1. i - n \in DOMAIN C /\ G[i] = C[i - n]
    <3>1. i \in (Len(P) + 1)..(Len(P) + Len(C))
      BY <1>6, <1>8
    <3> QED
      BY <1>4, <1>6, <1>7, <3>1, SecondPart
  <2>2. CASE i - 1 = n
    BY <1>1, <2>1, <2>2 DEF LastAt, n, D
  <2>3. CASE i - 1 # n
    <3>1. i - 1 \in (n + 1)..Len(G) /\ (i - 1) - n = (i - n) - 1 /\ i - n # 1
      BY <1>1, <1>8, <2>3
    <3>2. G[i - 1] = C[(i - 1) - n]
      BY <1>4, <1>6, <1>7, <1>8, <3>1, SecondPart
    <3> QED
      BY <2>1, <2>3, <3>1, <3>2 DEF LastAt, n, D
  <2> QED
    BY <2>1, <2>2, <2>3
<1>11. ASSUME NEW i \in (n + 1)..Len(G)
       PROVE  IsMade(s, ce, G[i]) /\ StateAt(s, G, i - 1, G[i].tsd) /\ s.last < G[i].date
  <2>1. /\ IsMade(s, ce, C[i - n]) /\ IsAfter(s, C, (i - n) - 1, C[i - n].tsd)
        /\ s.last < C[i - n].date
    BY <1>3, <1>10 DEF IsChain
  <2>2. i \in Int /\ n \in Int /\ (i - n) - 1 = (i - 1) - n /\ ((i - n) - 1 = 0 <=> i - n = 1)
    BY <1>1, <1>8
  <2> DEFINE tsd == G[i].tsd
  <2>3. tsd = C[i - n].tsd
    BY <1>10
  <2> HIDE DEF tsd
  <2>4. tsd.last = LastAt(s, G, i - 1)
    BY <1>10, <2>1, <2>2, <2>3 DEF IsAfter
  <2>5. tsd.num = s.num + ((i - 1) - n)
        /\ tsd.remain = IF s.total # 0 THEN s.remain - ((i - 1) - n) ELSE s.remain
    BY <2>1, <2>2, <2>3 DEF IsAfter
  <2>6. StateAt(s, G, i - 1, tsd)
    BY <2>1, <2>3, <2>4, <2>5 DEF StateAt, IsAfter, n, D
  <2> QED
    BY <1>10, <2>1, <2>6 DEF tsd
<1>12. ASSUME NEW i \in (n + 1)..Len(G), NEW j \in (n + 1)..Len(G), i < j
       PROVE  G[i].date < G[j].date
  <2>1. i - n < j - n
    BY <1>1, <1>8, <1>12
  <2> QED
    BY <1>3, <1>10, <2>1 DEF IsChain
<1>13. \E tsd : StateAt(s, G, Len(G), tsd) /\ Ended(s, ce, tsd)
  <2>1. PICK tsd : IsAfter(s, C, Len(C), tsd) /\ Ended(s, ce, tsd)
    BY <1>3
  <2>2. Len(G) - n = Len(C)
    BY <1>1, <1>4, <1>8
  <2>3. LastAt(s, G, Len(G)) = IF Len(C) = 0 THEN s.last ELSE C[Len(C)].date
    <3>1. CASE Len(C) = 0
      BY <1>1, <1>8, <3>1 DEF LastAt, n, D
    <3>2. CASE Len(C) # 0
      <4>1. Len(G) \in (n + 1)..Len(G) /\ Len(G) # n
        BY <1>1, <1>4, <1>8, <3>2
      <4>2. G[Len(G)] = C[Len(C)]
        BY <1>10, <2>2, <4>1
      <4> QED
        BY <3>2, <4>1, <4>2 DEF LastAt, n, D
    <3> QED
      BY <3>1, <3>2
  <2>4. StateAt(s, G, Len(G), tsd)
    BY <2>1, <2>2, <2>3 DEF StateAt, IsAfter, n, D
  <2> QED
    BY <2>1, <2>4
<1>14. n <= Len(G)
  BY <1>1, <1>4, <1>8
<1>15. \A i \in 1..n : IsPutOff(s, G[i], D[i]) /\ G[i].state = "postponed"
  BY <1>5, <1>9
<1> QED
  BY <1>8, <1>11, <1>12, <1>13, <1>14, <1>15 DEF Generated, n, D, ce, G

-----------------------------------------------------------------------------
(* What the dialog shows.                                                  *)

RemindersEnd(insts) ==
  \A i, j \in 1..Len(insts) :
    i < j /\ insts[i].state = "reminder" => insts[j].state = "reminder"

Shown(s, createEnd, insts) ==
  /\ insts \in Seq(Inst) /\ Len(s.deferred) <= Len(insts)
  /\ \A i \in 1..Len(insts) :
       /\ Placed(s, insts[i].tsd) /\ insts[i].date = InstanceAfter(s, insts[i].tsd)
       /\ insts[i].state = "created" => insts[i].date <= createEnd
  /\ \A i \in 1..Len(s.deferred) :
       IsPutOff(s, insts[i], s.deferred[i]) /\ insts[i].state # "created"
  /\ \A i \in (Len(s.deferred) + 1)..Len(insts) : insts[i].orig # "postponed"
  /\ RemindersEnd(insts)

\* It shows the occurrences that would be found now, ...
Current(insts, new) ==
  /\ Len(insts) = Len(new)
  /\ \A i \in 1..Len(new) : insts[i].date = new[i].date /\ insts[i].state # "created"

\* ... or has created on its own all there was to create.
OnlyReminders(s, new) ==
  \A i \in (Len(s.deferred) + 1)..Len(new) : new[i].state = "reminder"
Behind(s, insts, new) ==
  /\ \A i \in (Len(s.deferred) + 1)..Len(insts) : insts[i].state \in {"created", "reminder"}
  /\ OnlyReminders(s, new)

Listed(s, end, insts) ==
  /\ Shown(s, end + AdvanceCreate, insts)
  /\ Current(insts, GenInstances(s, end)) \/ Behind(s, insts, GenInstances(s, end))

LEMMA GenIsShown ==
  ASSUME Regular, NEW s, SxInv(s), NEW end \in 0..LastDay
  PROVE  /\ Shown(s, end + AdvanceCreate, GenInstances(s, end))
         /\ Current(GenInstances(s, end), GenInstances(s, end))
<1> DEFINE ce == end + AdvanceCreate
           n == Len(s.deferred)
           G == GenInstances(s, end)
<1>1. Generated(s, ce, G)
  BY GenFacts
<1>2. s \in SxType /\ s.deferred \in Seq(Tsd) /\ n \in Nat /\ DOMAIN s.deferred = 1..n
      /\ ce \in Nat
  BY ScheduleBounds DEF SxInv, SxType
<1> HIDE DEF G, n, ce
<1>3. G \in Seq(Inst) /\ n <= Len(G) /\ Len(G) \in Nat
  BY <1>1 DEF Generated, n
<1>4. ASSUME NEW i \in 1..n
      PROVE  /\ IsPutOff(s, G[i], s.deferred[i]) /\ G[i].state = "postponed"
             /\ Placed(s, G[i].tsd) /\ G[i].date = InstanceAfter(s, G[i].tsd)
  BY <1>1, <1>2 DEF Generated, n, SxInv, IsPutOff
<1>5. ASSUME NEW i \in (n + 1)..Len(G)
      PROVE  /\ Placed(s, G[i].tsd) /\ G[i].date = InstanceAfter(s, G[i].tsd)
             /\ G[i].state = IF G[i].date <= ce THEN "to-create" ELSE "reminder"
             /\ G[i].orig = G[i].state
  BY <1>1 DEF Generated, n, IsMade, StateAt
<1>6. \A i \in 1..Len(G) : i \in 1..n \/ i \in (n + 1)..Len(G)
  BY <1>2, <1>3
<1>7. \A i \in 1..Len(G) : G[i].state # "created"
  BY <1>4, <1>5, <1>6
<1>8. RemindersEnd(G)
  <2> SUFFICES ASSUME NEW i \in 1..Len(G), NEW j \in 1..Len(G), i < j,
                      G[i].state = "reminder"
               PROVE  G[j].state = "reminder"
    BY DEF RemindersEnd
  <2>1. i \in (n + 1)..Len(G)
    BY <1>4, <1>6
  <2>2. j \in (n + 1)..Len(G)
    BY <1>2, <1>3, <2>1
  <2>3. G[i].date < G[j].date
    BY <1>1, <2>1, <2>2 DEF Generated, n
  <2>4. ~(G[i].date <= ce)
    BY <1>5, <2>1
  <2>5. G[i] \in Inst /\ G[j] \in Inst
    BY <1>3
  <2>6. G[i].date \in Int /\ G[j].date \in Int
    BY <2>5, ScheduleBounds DEF Inst
  <2>7. ~(G[j].date <= ce)
    BY <1>2, <2>3, <2>4, <2>6
  <2> QED
    BY <1>5, <2>2, <2>7
<1>9. \A i \in 1..Len(G) : Placed(s, G[i].tsd) /\ G[i].date = InstanceAfter(s, G[i].tsd)
  BY <1>4, <1>5, <1>6
<1>10. Shown(s, ce, G)
  BY <1>3, <1>4, <1>5, <1>7, <1>8, <1>9 DEF Shown, n
<1>11. Current(G, G)
  BY <1>7 DEF Current
<1> QED
  BY <1>10, <1>11 DEF G, ce

IsRestated(insts, new, i, state, j) ==
  /\ new[j] = [insts[j] EXCEPT !.state = new[j].state]
  /\ new[j].orig = insts[j].orig /\ new[j].date = insts[j].date /\ new[j].tsd = insts[j].tsd
  /\ j < i => new[j].state = IF insts[i].state # state /\ state # "reminder"
                                /\ insts[j].state = "reminder"
                             THEN "postponed" ELSE insts[j].state
  /\ j > i => new[j].state = IF insts[i].state # state /\ state = "reminder"
                             THEN "reminder" ELSE insts[j].state

LEMMA WithStateFacts ==
  ASSUME NEW insts \in Seq(Inst), NEW i \in 1..Len(insts), NEW state \in States
  PROVE  /\ WithState(insts, i, state) \in Seq(Inst)
         /\ Len(WithState(insts, i, state)) = Len(insts)
         /\ WithState(insts, i, state)[i].state = state
         /\ \A j \in 1..Len(insts) : IsRestated(insts, WithState(insts, i, state), i, state, j)
<1> DEFINE W == WithState(insts, i, state)
           n == Len(insts)
<1>1. n \in Nat /\ DOMAIN insts = 1..n /\ \A j \in 1..n : insts[j] \in Inst
  OBVIOUS
<1>2. CASE insts[i].state = state
  <2>1. W = insts
    BY <1>2 DEF WithState
  <2> HIDE DEF W
  <2>2. ASSUME NEW j \in 1..n PROVE insts[j] = [insts[j] EXCEPT !.state = insts[j].state]
    <3>1. insts[j] \in Inst
      BY <1>1
    <3> QED
      BY <3>1 DEF Inst
  <2>3. \A j \in 1..n : IsRestated(insts, insts, i, state, j)
    BY <1>2, <2>2 DEF IsRestated
  <2> QED
    BY <1>2, <2>1, <2>3 DEF W
<1>3. CASE insts[i].state # state
  <2> DEFINE N(j) == CASE j = i -> state
                       [] j < i /\ state # "reminder" /\ insts[j].state = "reminder" -> "postponed"
                       [] j > i /\ state = "reminder" -> "reminder"
                       [] OTHER -> insts[j].state
  <2>1. W = [j \in 1..n |-> [insts[j] EXCEPT !.state = N(j)]]
    BY <1>1, <1>3 DEF WithState
  <2>2. ASSUME NEW j \in 1..n  PROVE N(j) \in States
    <3>1. insts[j].state \in States
      BY <1>1 DEF Inst
    <3> QED
      BY <1>1, <3>1 DEF States
  <2>3. ASSUME NEW j \in 1..n
        PROVE  /\ [insts[j] EXCEPT !.state = N(j)] \in Inst
               /\ [insts[j] EXCEPT !.state = N(j)].state = N(j)
               /\ [insts[j] EXCEPT !.state = N(j)].orig = insts[j].orig
               /\ [insts[j] EXCEPT !.state = N(j)].date = insts[j].date
               /\ [insts[j] EXCEPT !.state = N(j)].tsd = insts[j].tsd
    <3> DEFINE new == N(j)
    <3>1. insts[j] \in Inst /\ new \in States
      BY <1>1, <2>2
    <3> HIDE DEF new
    <3>2. /\ [insts[j] EXCEPT !.state = new] \in Inst
          /\ [insts[j] EXCEPT !.state = new].state = new
          /\ [insts[j] EXCEPT !.state = new].orig = insts[j].orig
          /\ [insts[j] EXCEPT !.state = new].date = insts[j].date
          /\ [insts[j] EXCEPT !.state = new].tsd = insts[j].tsd
      BY <3>1 DEF Inst
    <3> QED
      BY <3>2 DEF new
  <2>4. ASSUME NEW j \in 1..n
        PROVE  /\ j = i => N(j) = state
               /\ j < i => N(j) = IF state # "reminder" /\ insts[j].state = "reminder"
                                  THEN "postponed" ELSE insts[j].state
               /\ j > i => N(j) = IF state = "reminder" THEN "reminder" ELSE insts[j].state
    BY <1>1
  <2> HIDE DEF N
  <2>5. W \in Seq(Inst) /\ Len(W) = n
    <3>1. W \in [1..n -> Inst]
      BY <2>1, <2>3
    <3> HIDE DEF W
    <3> QED
      BY <1>1, <3>1
  <2>6. \A j \in 1..n : W[j] = [insts[j] EXCEPT !.state = N(j)]
    BY <2>1
  <2> HIDE DEF W, n
  <2>7. W[i].state = state
    BY <2>3, <2>4, <2>6 DEF n
  <2>8. ASSUME NEW j \in 1..n
        PROVE  /\ W[j].state = N(j) /\ W[j] = [insts[j] EXCEPT !.state = W[j].state]
               /\ W[j].orig = insts[j].orig /\ W[j].date = insts[j].date
               /\ W[j].tsd = insts[j].tsd
    BY <2>3, <2>6
  <2>9. i \in 1..n
    BY DEF n
  <2>10. ASSUME NEW j \in 1..n  PROVE IsRestated(insts, W, i, state, j)
    <3>1. j < i => W[j].state = IF state # "reminder" /\ insts[j].state = "reminder"
                                THEN "postponed" ELSE insts[j].state
      BY <2>4, <2>8
    <3>2. j > i => W[j].state = IF state = "reminder" THEN "reminder" ELSE insts[j].state
      BY <2>4, <2>8
    <3> QED
      BY <1>3, <2>8, <3>1, <3>2 DEF IsRestated
  <2> QED
    BY <2>5, <2>7, <2>10 DEF W, n
<1> QED
  BY <1>2, <1>3

\* A change of state keeps what the instances stand for.
LEMMA WithStateShown ==
  ASSUME NEW s \in SxType, NEW createEnd, NEW insts, Shown(s, createEnd, insts),
         NEW i \in 1..Len(insts), NEW state \in States \ {"created"}
  PROVE  /\ Shown(s, createEnd, WithState(insts, i, state))
         /\ \A new : Current(insts, new) => Current(WithState(insts, i, state), new)
<1> DEFINE W == WithState(insts, i, state)
           m == Len(insts)
           n == Len(s.deferred)
<1>1. insts \in Seq(Inst) /\ m \in Nat /\ n \in Nat /\ n <= m /\ state \in States
  BY DEF Shown, SxType
<1>2. /\ W \in Seq(Inst) /\ Len(W) = m /\ W[i].state = state
      /\ \A j \in 1..m : IsRestated(insts, W, i, state, j)
  BY <1>1, WithStateFacts
<1> HIDE DEF W, m, n
<1>3. i \in 1..m /\ \A j \in 1..m : j = i \/ j < i \/ j > i
  BY <1>1 DEF m
<1>4. ASSUME NEW j \in 1..m
      PROVE  /\ W[j].tsd = insts[j].tsd /\ W[j].date = insts[j].date
             /\ W[j].orig = insts[j].orig
             /\ W[j].state = "created" => insts[j].state = "created"
  BY <1>2, <1>3 DEF IsRestated
<1>5. RemindersEnd(W)
  <2> SUFFICES ASSUME NEW j \in 1..m, NEW k \in 1..m, j < k, W[j].state = "reminder"
               PROVE  W[k].state = "reminder"
    BY <1>2 DEF RemindersEnd
  <2>1. insts[j].state = "reminder" => insts[k].state = "reminder"
    BY DEF Shown, RemindersEnd, m
  <2>2. CASE insts[i].state = state
    <3>1. W[j].state = insts[j].state /\ W[k].state = insts[k].state
      BY <1>2, <1>3, <2>2 DEF IsRestated
    <3> QED
      BY <2>1, <3>1
  <2>3. CASE insts[i].state # state /\ state = "reminder"
    <3>1. k > i => W[k].state = "reminder"
      BY <1>2, <2>3 DEF IsRestated
    <3>2. k = i => W[k].state = "reminder"
      BY <1>2, <2>3
    <3>3. k < i => W[k].state = insts[k].state /\ j < i
      BY <1>1, <1>2, <1>3, <2>3 DEF IsRestated
    <3>4. j < i => W[j].state = insts[j].state
      BY <1>2, <2>3 DEF IsRestated
    <3> QED
      BY <1>3, <2>1, <3>1, <3>2, <3>3, <3>4
  <2>4. CASE insts[i].state # state /\ state # "reminder"
    <3>1. ~(j < i) /\ j # i
      BY <1>2, <2>4 DEF IsRestated
    <3>2. j > i /\ k > i
      BY <1>1, <1>3, <3>1
    <3> QED
      BY <1>2, <2>1, <2>4, <3>2 DEF IsRestated
  <2> QED
    BY <2>2, <2>3, <2>4
<1>6. \A j \in 1..n : j \in 1..m
  BY <1>1
<1>7. \A j \in (n + 1)..m : j \in 1..m
  BY <1>1
<1>8. Shown(s, createEnd, W)
  <2>1. \A j \in 1..m :
          /\ Placed(s, W[j].tsd) /\ W[j].date = InstanceAfter(s, W[j].tsd)
          /\ W[j].state = "created" => W[j].date <= createEnd
    BY <1>4 DEF Shown, m
  <2>2. \A j \in 1..n : IsPutOff(s, W[j], s.deferred[j]) /\ W[j].state # "created"
    BY <1>4, <1>6 DEF Shown, m, n, IsPutOff
  <2>3. \A j \in (n + 1)..m : W[j].orig # "postponed"
    BY <1>4, <1>7 DEF Shown, m, n
  <2> QED
    BY <1>1, <1>2, <1>5, <2>1, <2>2, <2>3 DEF Shown, n
<1>9. ASSUME NEW new, Current(insts, new)  PROVE Current(W, new)
  BY <1>2, <1>4, <1>9 DEF Current, m
<1> QED
  BY <1>8, <1>9 DEF W

IsAligned(existing, new, k, result) ==
  /\ k \in 0..Len(new) /\ k <= Len(existing)
  /\ \A i \in 1..k : existing[i].date = new[i].date
  /\ \A m \in 0..Len(new) :
       m <= Len(existing) /\ (\A i \in 1..m : existing[i].date = new[i].date) => m <= k
  /\ result \in Seq(Inst) /\ Len(result) = Len(new)
  /\ \A i \in 1..k : result[i] = existing[i]
  /\ \A i \in (k + 1)..Len(new) : result[i] = new[i]

LEMMA AlignedFacts ==
  ASSUME NEW existing \in Seq(Inst), NEW new \in Seq(Inst)
  PROVE  \E k : IsAligned(existing, new, k, Aligned(existing, new))
<1> DEFINE a == Len(existing)
           b == Len(new)
           N == Min({a, b})
           T == {n \in 0..N : \A i \in 1..n : existing[i].date = new[i].date}
           k == Max(T)
           u == SubSeq(existing, 1, k)
           v == SubSeq(new, k + 1, b)
<1>1. a \in Nat /\ b \in Nat
  OBVIOUS
<1>2. N \in Nat /\ N <= a /\ N <= b /\ \A m \in Nat : m <= a /\ m <= b => m <= N
  BY <1>1, MinIsLeast
<1>3. Aligned(existing, new) = u \o v
  BY DEF Aligned
<1> HIDE DEF N
<1>4. 0 \in T /\ T \in SUBSET (0..N)
  BY <1>2
<1>5. k \in T /\ \A y \in T : y <= k
  <2> HIDE DEF T
  <2> QED
    BY <1>2, <1>4, MaxIsGreatest
<1>6. k \in 0..N /\ \A i \in 1..k : existing[i].date = new[i].date
  BY <1>5
<1>7. \A m \in 0..b : m <= a /\ (\A i \in 1..m : existing[i].date = new[i].date) => m <= k
  BY <1>1, <1>2, <1>5
<1> HIDE DEF T, k
<1>8. k \in Nat /\ k <= a /\ k <= b
  BY <1>1, <1>2, <1>6
<1>9. u \in Seq(Inst) /\ Len(u) = k /\ \A i \in 1..k : u[i] = existing[i]
  BY <1>1, <1>8
<1>10. v \in Seq(Inst) /\ Len(v) = b - k /\ \A i \in 1..(b - k) : v[i] = new[k + i]
  BY <1>1, <1>8
<1> HIDE DEF u, v, a, b
<1>11. u \o v \in Seq(Inst) /\ Len(u \o v) = b
  <2>1. u \o v \in Seq(Inst) /\ Len(u \o v) = Len(u) + Len(v)
    BY <1>9, <1>10, BothParts
  <2>2. Len(u) + Len(v) = b
    BY <1>1, <1>8, <1>9, <1>10
  <2> QED
    BY <2>1, <2>2
<1>12. \A i \in 1..k : (u \o v)[i] = existing[i]
  BY <1>1, <1>8, <1>9, <1>10, FirstPart
<1>13. ASSUME NEW i \in (k + 1)..b  PROVE (u \o v)[i] = new[i]
  <2>1. i \in (Len(u) + 1)..(Len(u) + Len(v))
    BY <1>1, <1>8, <1>9, <1>10
  <2>2. i - k \in 1..Len(v) /\ (u \o v)[i] = v[i - k]
    BY <1>9, <1>10, <2>1, SecondPart
  <2>3. i - k \in 1..(b - k) /\ k + (i - k) = i
    BY <1>1, <1>8
  <2> QED
    BY <1>10, <2>2, <2>3
<1>14. k \in 0..b /\ k <= a
  BY <1>1, <1>8
<1>15. IsAligned(existing, new, k, u \o v)
  BY <1>6, <1>7, <1>11, <1>12, <1>13, <1>14 DEF IsAligned, a, b
<1> QED
  BY <1>3, <1>15

\* An update shows what would be found now; what the user chose for the same
\* occurrences stays.
LEMMA UpdateShown ==
  ASSUME Regular, NEW s, SxInv(s), NEW end \in 0..LastDay, NEW insts,
         Shown(s, end + AdvanceCreate, insts),
         Current(insts, GenInstances(s, end)) \/ OnlyReminders(s, GenInstances(s, end))
  PROVE  /\ Shown(s, end + AdvanceCreate, Update(s, insts, end))
         /\ Current(Update(s, insts, end), GenInstances(s, end))
<1> DEFINE ce == end + AdvanceCreate
           n == Len(s.deferred)
           G == GenInstances(s, end)
           R == Update(s, insts, end)
           len == Len(G)
<1>1. Generated(s, ce, G) /\ Shown(s, ce, G) /\ Current(G, G)
  BY GenFacts, GenIsShown
<1>2. s \in SxType /\ n \in Nat /\ ce \in Nat
  BY ScheduleBounds DEF SxInv, SxType
<1>3. insts \in Seq(Inst) /\ n <= Len(insts) /\ Len(insts) \in Nat
  BY DEF Shown
<1>4. G \in Seq(Inst) /\ n <= len /\ len \in Nat
  BY <1>1 DEF Generated
<1>5. PICK k : IsAligned(insts, G, k, R)
  BY <1>3, <1>4, AlignedFacts DEF Update
<1>6. Shown(s, ce, insts) /\ (Current(insts, G) \/ OnlyReminders(s, G))
  OBVIOUS
<1> HIDE DEF G, R, n, ce, len
<1>7. k \in 0..len /\ k <= Len(insts) /\ R \in Seq(Inst) /\ Len(R) = len
  BY <1>5 DEF IsAligned, len
<1>8. n <= k
  <2>1. \A i \in 1..n : insts[i].date = G[i].date
    BY <1>1, <1>6 DEF Shown, Generated, IsPutOff, n
  <2> QED
    BY <1>2, <1>3, <1>4, <1>5, <2>1 DEF IsAligned, len
<1>9. Current(insts, G) => k = len
  <2> SUFFICES ASSUME Current(insts, G) PROVE k = len
    OBVIOUS
  <2>1. Len(insts) = len /\ \A i \in 1..len : insts[i].date = G[i].date
    BY DEF Current, len
  <2>2. len <= k
    BY <1>4, <1>5, <2>1 DEF IsAligned, len
  <2> QED
    BY <1>4, <1>7, <2>2
<1>10. \A i \in 1..k : R[i] = insts[i] /\ insts[i].date = G[i].date /\ i \in 1..Len(insts)
  BY <1>3, <1>5, <1>7 DEF IsAligned
<1>11. \A i \in (k + 1)..len : R[i] = G[i] /\ i \in 1..len /\ i \in (n + 1)..len
  BY <1>2, <1>4, <1>5, <1>7, <1>8 DEF IsAligned, len
<1>12. \A i \in 1..len : i \in 1..k \/ i \in (k + 1)..len
  BY <1>4, <1>7
<1>13. ASSUME NEW i \in 1..k  PROVE insts[i].state # "created"
  <2>1. CASE Current(insts, G)
    BY <1>4, <1>7, <2>1 DEF Current, len
  <2>2. CASE OnlyReminders(s, G)
    <3> SUFFICES ASSUME insts[i].state = "created" PROVE FALSE
      OBVIOUS
    <3>1. ~(i \in 1..n)
      BY <1>6 DEF Shown, n
    <3>2. i \in (n + 1)..len
      BY <1>2, <1>4, <1>7, <1>8, <3>1
    <3>3. G[i].state = "reminder"
      BY <2>2, <3>2 DEF OnlyReminders, n, len
    <3>4. ~(G[i].date <= ce)
      BY <1>1, <3>2, <3>3 DEF Generated, IsMade, n, len
    <3>5. insts[i].date <= ce /\ insts[i].date = G[i].date
      BY <1>6, <1>10 DEF Shown
    <3> QED
      BY <3>4, <3>5
  <2> QED
    BY <1>6, <2>1, <2>2
<1>14. Current(R, G)
  <2>1. ASSUME NEW i \in 1..len  PROVE R[i].date = G[i].date /\ R[i].state # "created"
    <3>1. CASE i \in 1..k
      BY <1>10, <1>13, <3>1
    <3>2. CASE i \in (k + 1)..len
      BY <1>1, <1>11, <3>2 DEF Current, len
    <3> QED
      BY <1>12, <3>1, <3>2
  <2> QED
    BY <1>7, <2>1 DEF Current, len
<1>15. RemindersEnd(R)
  <2> SUFFICES ASSUME NEW i \in 1..len, NEW j \in 1..len, i < j, R[i].state = "reminder"
               PROVE  R[j].state = "reminder"
    BY <1>7 DEF RemindersEnd
  <2>1. CASE j \in 1..k
    <3>1. i \in 1..k
      BY <1>4, <1>7, <2>1
    <3> QED
      BY <1>6, <1>10, <2>1, <3>1 DEF Shown, RemindersEnd
  <2>2. CASE j \in (k + 1)..len
    <3>1. ~Current(insts, G)
      BY <1>4, <1>7, <1>9, <2>2
    <3>2. G[j].state = "reminder"
      BY <1>6, <1>11, <2>2, <3>1 DEF OnlyReminders, n, len
    <3> QED
      BY <1>11, <2>2, <3>2
  <2> QED
    BY <1>12, <2>1, <2>2
<1>16. ASSUME NEW i \in 1..len
       PROVE  /\ Placed(s, R[i].tsd) /\ R[i].date = InstanceAfter(s, R[i].tsd)
              /\ R[i].state = "created" => R[i].date <= ce
              /\ i \in (n + 1)..len => R[i].orig # "postponed"
  <2>1. CASE i \in 1..k
    <3>1. i \in (n + 1)..len => i \in (n + 1)..Len(insts)
      BY <1>2, <1>3, <1>4, <1>7, <2>1
    <3> QED
      BY <1>6, <1>10, <2>1, <3>1 DEF Shown, n
  <2>2. CASE i \in (k + 1)..len
    BY <1>1, <1>11, <2>2 DEF Shown, n, len
  <2> QED
    BY <1>12, <2>1, <2>2
<1>17. ASSUME NEW i \in 1..n
       PROVE  IsPutOff(s, R[i], s.deferred[i]) /\ R[i].state # "created"
  <2>1. i \in 1..k
    BY <1>2, <1>7, <1>8
  <2> QED
    BY <1>6, <1>10, <2>1 DEF Shown, n
<1>18. \A i \in (n + 1)..Len(R) : R[i].orig # "postponed"
  <2>1. \A i \in (n + 1)..len : i \in 1..len
    BY <1>2, <1>4
  <2> QED
    BY <1>7, <1>16, <2>1
<1>19. \A i \in 1..Len(R) :
         /\ Placed(s, R[i].tsd) /\ R[i].date = InstanceAfter(s, R[i].tsd)
         /\ R[i].state = "created" => R[i].date <= ce
  BY <1>7, <1>16
<1>20. Shown(s, ce, R)
  BY <1>4, <1>7, <1>15, <1>17, <1>18, <1>19 DEF Shown, n
<1> QED
  BY <1>14, <1>20 DEF G, R, ce

-----------------------------------------------------------------------------
(* The list of deferred states.                                            *)

IsWith(list, tsd, result) ==
  \E p \in 1..(Len(list) + 1) :
    /\ Len(result) = Len(list) + 1 /\ result[p] = tsd
    /\ \A i \in 1..(p - 1) : result[i] = list[i]
    /\ \A i \in (p + 1)..(Len(list) + 1) : result[i] = list[i - 1]

IsWithout(list, tsd, result) ==
  \/ result = list /\ \A i \in 1..Len(list) : ~Alike(list[i], tsd)
  \/ \E p \in 1..Len(list) :
       /\ Alike(list[p], tsd) /\ Len(result) = Len(list) - 1
       /\ \A i \in 1..(p - 1) : result[i] = list[i]
       /\ \A i \in p..(Len(list) - 1) : result[i] = list[i + 1]

LEMMA AddFacts ==
  ASSUME NEW list \in Seq(Tsd), NEW tsd \in Tsd
  PROVE  /\ AddDeferred(list, tsd) \in Seq(Tsd)
         /\ IsWith(list, tsd, AddDeferred(list, tsd))
<1> DEFINE T == {i \in DOMAIN list : ~Later(tsd, list[i])} \cup {Len(list) + 1}
           p == Min(T)
           len == Len(list)
           u == SubSeq(list, 1, p - 1)
           x == <<tsd>>
           v == SubSeq(list, p, len)
           R == AddDeferred(list, tsd)
<1>1. len \in Nat /\ DOMAIN list = 1..len
  OBVIOUS
<1>2. p \in T
  <2>1. T \in SUBSET Nat /\ T # {}
    BY <1>1
  <2> HIDE DEF T
  <2> QED
    BY <2>1, MinIsLeast
<1>3. p \in 1..(len + 1)
  BY <1>1, <1>2
<1>4. R = (u \o x) \o v
  BY DEF AddDeferred
<1> HIDE DEF T, p, R
<1>5. u \in Seq(Tsd) /\ Len(u) = p - 1 /\ \A i \in 1..(p - 1) : u[i] = list[i]
  BY <1>1, <1>3
<1>6. x \in Seq(Tsd) /\ Len(x) = 1 /\ x[1] = tsd
  OBVIOUS
<1>7. v \in Seq(Tsd) /\ Len(v) = len - (p - 1) /\ \A i \in 1..(len - (p - 1)) : v[i] = list[(p - 1) + i]
  BY <1>1, <1>3
<1> HIDE DEF u, v, x, len
<1>8. u \o x \in Seq(Tsd) /\ Len(u \o x) = p
  <2>1. u \o x \in Seq(Tsd) /\ Len(u \o x) = Len(u) + Len(x)
    BY <1>5, <1>6, BothParts
  <2> QED
    BY <1>3, <1>5, <1>6, <2>1
<1>9. R \in Seq(Tsd) /\ Len(R) = len + 1
  <2>1. R \in Seq(Tsd) /\ Len(R) = Len(u \o x) + Len(v)
    BY <1>4, <1>7, <1>8, BothParts
  <2>2. p + (len - (p - 1)) = len + 1
    BY <1>1, <1>3
  <2> QED
    BY <1>7, <1>8, <2>1, <2>2
<1>10. \A i \in 1..p : R[i] = (u \o x)[i]
  BY <1>4, <1>7, <1>8, FirstPart
<1>11. ASSUME NEW i \in 1..(p - 1)  PROVE R[i] = list[i]
  <2>1. i \in 1..p
    BY <1>3
  <2>2. (u \o x)[i] = u[i]
    BY <1>5, <1>6, FirstPart
  <2> QED
    BY <1>5, <1>10, <2>1, <2>2
<1>12. R[p] = tsd
  <2>1. p \in 1..p /\ p \in (Len(u) + 1)..(Len(u) + Len(x)) /\ p - Len(u) = 1
    BY <1>3, <1>5, <1>6
  <2>2. (u \o x)[p] = x[p - Len(u)]
    BY <1>5, <1>6, <2>1, SecondPart
  <2> QED
    BY <1>6, <1>10, <2>1, <2>2
<1>13. ASSUME NEW i \in (p + 1)..(len + 1)  PROVE R[i] = list[i - 1]
  <2>1. i \in (p + 1)..(p + Len(v)) /\ i - p \in 1..(len - (p - 1)) /\ (p - 1) + (i - p) = i - 1
    BY <1>1, <1>3, <1>7
  <2> DEFINE y == u \o x
  <2>2. y \in Seq(Tsd) /\ Len(y) = p /\ v \in Seq(Tsd) /\ R = y \o v
    BY <1>4, <1>7, <1>8
  <2> HIDE DEF y
  <2>3. i \in (Len(y) + 1)..(Len(y) + Len(v))
    BY <2>1, <2>2
  <2>4. (y \o v)[i] = v[i - Len(y)]
    BY <2>2, <2>3, SecondPart
  <2>5. R[i] = v[i - p]
    BY <2>2, <2>4
  <2> QED
    BY <1>7, <2>1, <2>5
<1>14. IsWith(list, tsd, R)
  BY <1>3, <1>9, <1>11, <1>12, <1>13 DEF IsWith, len
<1> QED
  BY <1>9, <1>14 DEF R

LEMMA RemoveFacts ==
  ASSUME NEW list \in Seq(Tsd), NEW tsd \in Tsd
  PROVE  /\ RemoveDeferred(list, tsd) \in Seq(Tsd)
         /\ IsWithout(list, tsd, RemoveDeferred(list, tsd))
<1> DEFINE T == {i \in DOMAIN list : Alike(list[i], tsd)}
           p == Min(T)
           len == Len(list)
           u == SubSeq(list, 1, p - 1)
           v == SubSeq(list, p + 1, len)
           R == RemoveDeferred(list, tsd)
<1>1. len \in Nat /\ DOMAIN list = 1..len
  OBVIOUS
<1>2. CASE T = {}
  <2>1. R = list
    BY <1>2 DEF RemoveDeferred
  <2>2. \A i \in 1..len : ~Alike(list[i], tsd)
    BY <1>1, <1>2
  <2> QED
    BY <2>1, <2>2 DEF IsWithout
<1>3. CASE T # {}
  <2>1. R = u \o v
    BY <1>3 DEF RemoveDeferred
  <2>2. p \in T
    <3>1. T \in SUBSET Nat
      BY <1>1
    <3> HIDE DEF T
    <3> QED
      BY <1>3, <3>1, MinIsLeast
  <2>3. p \in 1..len /\ Alike(list[p], tsd)
    BY <1>1, <2>2
  <2> HIDE DEF T, p, R
  <2>4. u \in Seq(Tsd) /\ Len(u) = p - 1 /\ \A i \in 1..(p - 1) : u[i] = list[i]
    BY <1>1, <2>3
  <2>5. v \in Seq(Tsd) /\ Len(v) = len - p /\ \A i \in 1..(len - p) : v[i] = list[p + i]
    <3> DEFINE q == p + 1
    <3>1. q \in 1..(len + 1) /\ len - p = len - (q - 1) /\ \A i \in 1..(len - p) : p + i = (q - 1) + i
      BY <1>1, <2>3
    <3> HIDE DEF q
    <3>2. LET w == SubSeq(list, q, len)
          IN w \in Seq(Tsd) /\ Len(w) = len - (q - 1)
             /\ \A i \in 1..(len - (q - 1)) : w[i] = list[(q - 1) + i]
      BY <1>1, <3>1
    <3>3. v = SubSeq(list, q, len)
      BY DEF q
    <3> HIDE DEF v
    <3> QED
      BY <3>1, <3>2, <3>3
  <2> HIDE DEF u, v, len
  <2>6. R \in Seq(Tsd) /\ Len(R) = len - 1
    <3>1. R \in Seq(Tsd) /\ Len(R) = Len(u) + Len(v)
      BY <2>1, <2>4, <2>5, BothParts
    <3>2. (p - 1) + (len - p) = len - 1
      BY <1>1, <2>3
    <3> QED
      BY <2>4, <2>5, <3>1, <3>2
  <2>7. ASSUME NEW i \in 1..(p - 1)  PROVE R[i] = list[i]
    BY <2>1, <2>4, <2>5, FirstPart
  <2>8. ASSUME NEW i \in p..(len - 1)  PROVE R[i] = list[i + 1]
    <3>1. /\ i \in ((p - 1) + 1)..((p - 1) + (len - p)) /\ i - (p - 1) \in 1..(len - p)
          /\ p + (i - (p - 1)) = i + 1
      BY <1>1, <2>3
    <3>2. i \in (Len(u) + 1)..(Len(u) + Len(v))
      BY <2>4, <2>5, <3>1
    <3>3. (u \o v)[i] = v[i - Len(u)]
      BY <2>4, <2>5, <3>2, SecondPart
    <3>4. R[i] = v[i - (p - 1)]
      BY <2>1, <2>4, <3>3
    <3> QED
      BY <2>5, <3>1, <3>4
  <2>9. IsWithout(list, tsd, R)
    BY <2>3, <2>6, <2>7, <2>8 DEF IsWithout, len
  <2> QED
    BY <2>6, <2>9 DEF R
<1> QED
  BY <1>2, <1>3

-----------------------------------------------------------------------------
(* One instance carried out: the step of gnc_sx_instance_model_effect_change. *)

EffectType ==
  [last : 0..Horizon, num : Int, remain : Nat, deferred : Seq(Tsd), insts : Seq(Inst),
   created : Seq(Nat \X Int), ignored : SUBSET Nat, putOff : SUBSET Nat,
   forgotten : SUBSET Nat]

Effective == {"ignored", "postponed", "to-create"}

Undeferred(inst) == inst.orig = "postponed" /\ inst.state # "postponed"

IsEffect(acc, i, r) ==
  LET inst == acc.insts[i]
  IN /\ r.last = IF inst.state \in Effective /\ (acc.last = NoDate \/ acc.last <= inst.date)
                 THEN inst.date ELSE acc.last
     /\ r.num = IF inst.state \in Effective THEN inst.tsd.num + 1 ELSE acc.num
     /\ r.remain = IF inst.state \in Effective /\ acc.remain > 0 THEN acc.remain - 1
                   ELSE acc.remain
     /\ r.deferred = IF Undeferred(inst) THEN RemoveDeferred(acc.deferred, inst.tsd)
                     ELSE IF inst.state = "postponed" /\ inst.orig # "postponed"
                     THEN AddDeferred(acc.deferred, inst.tsd) ELSE acc.deferred
     /\ r.insts = IF inst.state = "to-create" THEN WithState(acc.insts, i, "created")
                  ELSE acc.insts
     /\ r.created = IF inst.state = "to-create"
                    THEN Append(acc.created, <<inst.date, inst.tsd.num>>) ELSE acc.created
     /\ r.ignored = IF inst.state = "ignored" THEN acc.ignored \cup {inst.date} ELSE acc.ignored
     /\ r.putOff = IF inst.state = "postponed" THEN acc.putOff \cup {inst.tsd.last}
                   ELSE acc.putOff
     /\ r.forgotten = IF Undeferred(inst) /\ inst.state = "reminder"
                      THEN acc.forgotten \cup {inst.date} ELSE acc.forgotten

LEMMA EffectFields ==
  ASSUME NEW acc \in EffectType, NEW i \in 1..Len(acc.insts)
  PROVE  Effect(acc, i) \in EffectType /\ IsEffect(acc, i, Effect(acc, i))
<1> DEFINE inst == acc.insts[i]
           r == Effect(acc, i)
           u == Undefer(acc, inst)
           w == IncrementSxState(u, inst)
           def == IF Undeferred(inst) THEN RemoveDeferred(acc.deferred, inst.tsd) ELSE acc.deferred
           forg == IF Undeferred(inst) /\ inst.state = "reminder"
                   THEN acc.forgotten \cup {inst.date} ELSE acc.forgotten
           last == IF acc.last = NoDate \/ acc.last <= inst.date THEN inst.date ELSE acc.last
           rem == IF acc.remain > 0 THEN acc.remain - 1 ELSE acc.remain
<1>1. inst \in Inst
  BY DEF EffectType
<1>2. inst.date \in 1..Horizon /\ inst.tsd \in Tsd /\ inst.state \in States /\ inst.orig \in States
      /\ inst.tsd.last \in 0..Horizon /\ inst.tsd.num \in Int
  BY <1>1 DEF Inst, Tsd
<1>3. /\ acc.last \in 0..Horizon /\ acc.num \in Int /\ acc.remain \in Nat
      /\ acc.deferred \in Seq(Tsd) /\ acc.insts \in Seq(Inst) /\ acc.created \in Seq(Nat \X Int)
      /\ acc.ignored \in SUBSET Nat /\ acc.putOff \in SUBSET Nat /\ acc.forgotten \in SUBSET Nat
  BY DEF EffectType
<1>4. /\ def \in Seq(Tsd) /\ AddDeferred(acc.deferred, inst.tsd) \in Seq(Tsd)
      /\ forg \in SUBSET Nat /\ last \in 0..Horizon /\ rem \in Nat
      /\ WithState(acc.insts, i, "created") \in Seq(Inst)
      /\ Append(acc.created, <<inst.date, inst.tsd.num>>) \in Seq(Nat \X Int)
      /\ acc.ignored \cup {inst.date} \in SUBSET Nat
      /\ acc.putOff \cup {inst.tsd.last} \in SUBSET Nat
  <2>1. def \in Seq(Tsd) /\ AddDeferred(acc.deferred, inst.tsd) \in Seq(Tsd)
    BY <1>2, <1>3, RemoveFacts, AddFacts
  <2>2. inst.date \in Nat /\ inst.tsd.last \in Nat
    BY <1>2, ScheduleBounds
  <2>3. forg \in SUBSET Nat /\ rem \in Nat /\ acc.ignored \cup {inst.date} \in SUBSET Nat
        /\ acc.putOff \cup {inst.tsd.last} \in SUBSET Nat
    <3>1. rem \in Nat
      BY <1>3
    <3>2. acc.forgotten \cup {inst.date} \in SUBSET Nat
      BY <1>3, <2>2
    <3>3. acc.ignored \cup {inst.date} \in SUBSET Nat
      BY <1>3, <2>2
    <3>4. acc.putOff \cup {inst.tsd.last} \in SUBSET Nat
      BY <1>3, <2>2
    <3>5. forg \in SUBSET Nat
      BY <1>3, <3>2
    <3> QED
      BY <3>1, <3>3, <3>4, <3>5
  <2>4. last \in 0..Horizon
    BY <1>2, <1>3, ScheduleBounds
  <2>5. WithState(acc.insts, i, "created") \in Seq(Inst)
    BY <1>3, WithStateFacts DEF States
  <2>6. Append(acc.created, <<inst.date, inst.tsd.num>>) \in Seq(Nat \X Int)
    BY <1>2, <1>3, <2>2
  <2> QED
    BY <2>1, <2>3, <2>4, <2>5, <2>6
<1>5. u = [acc EXCEPT !.deferred = def, !.forgotten = forg]
  BY DEF Undefer, Undeferred, EffectType
<1>6. w = [u EXCEPT !.last = IF @ = NoDate \/ @ <= inst.date THEN inst.date ELSE @,
                    !.num = inst.tsd.num + 1,
                    !.remain = IF @ > 0 THEN @ - 1 ELSE @]
  BY DEF IncrementSxState
<1> HIDE DEF inst, u, w, def, forg, last, rem
<1>7. /\ u \in EffectType
      /\ u.last = acc.last /\ u.num = acc.num /\ u.remain = acc.remain /\ u.deferred = def
      /\ u.insts = acc.insts /\ u.created = acc.created /\ u.ignored = acc.ignored
      /\ u.putOff = acc.putOff /\ u.forgotten = forg
  BY <1>4, <1>5 DEF EffectType
<1>8. w = [u EXCEPT !.last = last, !.num = inst.tsd.num + 1, !.remain = rem]
  BY <1>6, <1>7 DEF last, rem, EffectType
<1>9. /\ w \in EffectType
      /\ w.last = last /\ w.num = inst.tsd.num + 1 /\ w.remain = rem /\ w.deferred = def
      /\ w.insts = acc.insts /\ w.created = acc.created /\ w.ignored = acc.ignored
      /\ w.putOff = acc.putOff /\ w.forgotten = forg
  <2> DEFINE num == inst.tsd.num + 1
  <2>1. num \in Int /\ last \in 0..Horizon /\ rem \in Nat
    BY <1>2, <1>4
  <2>2. w = [u EXCEPT !.last = last, !.num = num, !.remain = rem]
    BY <1>8
  <2> HIDE DEF num
  <2>3. w \in EffectType /\ w.last = last /\ w.num = num /\ w.remain = rem
    BY <1>7, <2>1, <2>2 DEF EffectType
  <2>4. /\ w.deferred = u.deferred /\ w.insts = u.insts /\ w.created = u.created
        /\ w.ignored = u.ignored /\ w.putOff = u.putOff /\ w.forgotten = u.forgotten
    BY <1>7, <2>2 DEF EffectType
  <2> QED
    BY <1>7, <2>3, <2>4 DEF num
<1>10. CASE inst.state = "ignored"
  <2>1. r = [w EXCEPT !.ignored = @ \cup {inst.date}]
    BY <1>10 DEF Effect, inst, w, u
  <2> HIDE DEF r
  <2>2. r = [w EXCEPT !.ignored = acc.ignored \cup {inst.date}]
    BY <1>9, <2>1
  <2>3. r \in EffectType /\ r.ignored = acc.ignored \cup {inst.date}
    BY <1>4, <1>9, <2>2 DEF EffectType
  <2>4. /\ r.last = last /\ r.num = inst.tsd.num + 1 /\ r.remain = rem /\ r.deferred = def
        /\ r.insts = acc.insts /\ r.created = acc.created
        /\ r.putOff = acc.putOff /\ r.forgotten = forg
    BY <1>9, <2>2 DEF EffectType
  <2> QED
    BY <1>10, <2>3, <2>4 DEF IsEffect, Effective, Undeferred, inst, def, forg, last, rem, r
<1>11. CASE inst.state = "postponed"
  <2> DEFINE put == IF inst.orig = "postponed" THEN def ELSE AddDeferred(def, inst.tsd)
  <2>1. r = [w EXCEPT !.putOff = @ \cup {inst.tsd.last},
                      !.deferred = IF inst.orig = "postponed" THEN @ ELSE AddDeferred(@, inst.tsd)]
    BY <1>11 DEF Effect, inst, w, u
  <2>2. def = acc.deferred
    BY <1>11 DEF def, Undeferred
  <2>3. put \in Seq(Tsd)
    BY <1>4, <2>2
  <2> HIDE DEF r
  <2>4. r = [w EXCEPT !.putOff = acc.putOff \cup {inst.tsd.last}, !.deferred = put]
    BY <1>9, <2>1
  <2> HIDE DEF put
  <2>5. r \in EffectType /\ r.putOff = acc.putOff \cup {inst.tsd.last} /\ r.deferred = put
    BY <1>4, <1>9, <2>3, <2>4 DEF EffectType
  <2>6. /\ r.last = last /\ r.num = inst.tsd.num + 1 /\ r.remain = rem
        /\ r.insts = acc.insts /\ r.created = acc.created
        /\ r.ignored = acc.ignored /\ r.forgotten = forg
    BY <1>9, <2>4 DEF EffectType
  <2> QED
    BY <1>11, <2>2, <2>5, <2>6
       DEF IsEffect, Effective, Undeferred, inst, def, forg, last, rem, r, put
<1>12. CASE inst.state = "to-create"
  <2>1. r = [w EXCEPT !.created = Append(@, <<inst.date, inst.tsd.num>>),
                      !.insts = WithState(@, i, "created")]
    BY <1>12 DEF Effect, inst, w, u
  <2> HIDE DEF r
  <2>2. r = [w EXCEPT !.created = Append(acc.created, <<inst.date, inst.tsd.num>>),
                      !.insts = WithState(acc.insts, i, "created")]
    BY <1>9, <2>1
  <2>3. /\ r \in EffectType
        /\ r.created = Append(acc.created, <<inst.date, inst.tsd.num>>)
        /\ r.insts = WithState(acc.insts, i, "created")
    BY <1>4, <1>9, <2>2 DEF EffectType
  <2>4. /\ r.last = last /\ r.num = inst.tsd.num + 1 /\ r.remain = rem /\ r.deferred = def
        /\ r.ignored = acc.ignored /\ r.putOff = acc.putOff /\ r.forgotten = forg
    BY <1>9, <2>2 DEF EffectType
  <2> QED
    BY <1>12, <2>3, <2>4 DEF IsEffect, Effective, Undeferred, inst, def, forg, last, rem, r
<1>13. CASE inst.state \notin Effective
  <2>1. r = u
    BY <1>13 DEF Effect, Effective, inst, u
  <2> HIDE DEF r
  <2> QED
    BY <1>7, <1>13, <2>1 DEF IsEffect, Effective, Undeferred, inst, def, forg, r
<1> QED
  BY <1>10, <1>11, <1>12, <1>13 DEF Effective

-----------------------------------------------------------------------------
(* The occurrences up to a date.                                           *)

PastOf(s, last) == {d \in s.start..last : ListNextInstance(s.schedule, d - 1) = d}
NextDate(s, last) ==
  ListNextInstance(s.schedule, IF last = NoDate THEN s.start - 1 ELSE last)

\* The next occurrence is the one that its own date adds.
LEMMA StartFacts ==
  ASSUME NEW s \in SxType
  PROVE  /\ s.start \in 1..LastDay /\ s.start \in Nat /\ s.start >= 1 /\ s.start <= LastDay
         /\ s.schedule \in Schedules
<1>1. s.start \in Starts /\ s.schedule \in Schedules
  BY DEF SxType
<1>2. s.start \in 1..LastDay /\ LastDay \in Nat
  BY <1>1, ScheduleBounds
<1> QED
  BY <1>1, <1>2

LEMMA PastStep ==
  ASSUME Regular, NEW s \in SxType, NEW last \in 0..Horizon,
         last = NoDate \/ s.start <= last, NextDate(s, last) \in 1..Horizon
  PROVE  /\ PastOf(s, NextDate(s, last)) = PastOf(s, last) \cup {NextDate(s, last)}
         /\ NextDate(s, last) \notin PastOf(s, last)
         /\ last < NextDate(s, last) /\ s.start <= NextDate(s, last)
<1> DEFINE ref == IF last = NoDate THEN s.start - 1 ELSE last
           d == NextDate(s, last)
<1>1. s.start \in 1..LastDay /\ s.schedule \in Schedules /\ s.start \in Nat /\ s.start >= 1
  BY StartFacts
<1>2. ref \in 0..Horizon /\ last <= ref /\ s.start - 1 <= ref /\ last \in Nat /\ Horizon \in Nat
      /\ (last # NoDate => ref = last) /\ (last = NoDate => ref = s.start - 1)
  <2>1. last \in Nat /\ Horizon \in Nat /\ last <= Horizon /\ LastDay <= Horizon /\ NoDate = 0
        /\ s.start <= LastDay
    BY StartFacts, ScheduleBounds
  <2>2. CASE last = NoDate
    <3>1. ref = s.start - 1
      BY <2>2
    <3> HIDE DEF ref
    <3>2. ref \in Int /\ 0 <= ref /\ ref <= Horizon
      <4> DEFINE st == s.start
      <4>1. st \in Nat /\ st >= 1 /\ st <= LastDay /\ LastDay <= Horizon /\ Horizon \in Nat
            /\ LastDay \in Nat /\ ref = st - 1
        BY <1>1, <2>1, <3>1, ScheduleBounds
      <4> HIDE DEF st
      <4> QED
        BY <4>1
    <3> QED
      BY <1>1, <2>1, <2>2, <3>1, <3>2
  <2>3. CASE last # NoDate
    <3>1. ref = last /\ s.start <= last
      BY <2>3
    <3> QED
      BY <1>1, <2>1, <2>3, <3>1
  <2> QED
    BY <2>2, <2>3
<1>3. d = ListNextInstance(s.schedule, ref) /\ d \in 1..Horizon /\ d # NoDate
  BY ScheduleBounds DEF NextDate
<1> HIDE DEF ref, d
<1>4. ref < d
  BY <1>1, <1>2, <1>3 DEF Regular
<1>5. \A e \in ref..Horizon : e < d => ListNextInstance(s.schedule, e) = d
  BY <1>1, <1>2, <1>3 DEF Regular
<1>6. last < d /\ s.start <= d /\ d \in Nat
  BY <1>1, <1>2, <1>3, <1>4
<1>7. d \notin PastOf(s, last)
  BY <1>1, <1>2, <1>6 DEF PastOf
<1>8. ASSUME NEW e \in PastOf(s, d)  PROVE e \in PastOf(s, last) \cup {d}
  <2>1. e \in s.start..d /\ ListNextInstance(s.schedule, e - 1) = e
    BY DEF PastOf
  <2>2. CASE e <= last
    BY <1>1, <1>2, <2>1, <2>2 DEF PastOf
  <2>3. CASE ~(e <= last)
    <3>1. e - 1 \in ref..Horizon /\ e - 1 < d
      BY <1>1, <1>2, <1>3, <1>6, <2>1, <2>3, ScheduleBounds
    <3> QED
      BY <1>5, <2>1, <3>1
  <2> QED
    BY <2>2, <2>3
<1>9. d \in PastOf(s, d)
  <2>1. d - 1 \in ref..Horizon /\ d - 1 < d
    BY <1>2, <1>3, <1>4
  <2>2. d \in s.start..d
    BY <1>1, <1>6
  <2> QED
    BY <1>5, <2>1, <2>2 DEF PastOf
<1>10. \A e \in PastOf(s, last) : e \in PastOf(s, d)
  BY <1>1, <1>2, <1>6 DEF PastOf
<1> QED
  BY <1>6, <1>7, <1>8, <1>9, <1>10 DEF d

LEMMA PastFinite ==
  ASSUME NEW s \in SxType, NEW last \in 0..Horizon
  PROVE  /\ IsFiniteSet(PastOf(s, last)) /\ PastOf(s, last) \subseteq 1..Horizon
         /\ last = NoDate => PastOf(s, last) = {}
<1>1. s.start \in Nat /\ s.start >= 1 /\ last \in Nat /\ Horizon \in Nat /\ last <= Horizon
  BY StartFacts, ScheduleBounds
<1>2. IsFiniteSet(s.start..last)
  BY <1>1, FS_Interval
<1>3. PastOf(s, last) \subseteq s.start..last
  BY DEF PastOf
<1>4. IsFiniteSet(PastOf(s, last))
  BY <1>2, <1>3, FS_Subset
<1>5. s.start..last \subseteq 1..Horizon
  <2>1. \A e \in s.start..last : e \in Int /\ 1 <= e /\ e <= Horizon
    BY <1>1
  <2> QED
    BY <1>1, <2>1
<1>6. last = NoDate => s.start..last = {}
  BY <1>1, ScheduleBounds
<1> QED
  BY <1>3, <1>4, <1>5, <1>6

\* The occurrence after a temporal state whose bounds it is within.
LEMMA AfterIsNext ==
  ASSUME NEW s, NEW tsd, InstanceAfter(s, tsd) # NoDate
  PROVE  /\ InstanceAfter(s, tsd) = NextDate(s, tsd.last)
         /\ s.end # NoDate => InstanceAfter(s, tsd) <= s.end
         /\ s.end = NoDate /\ s.total # 0 => tsd.remain # 0
BY DEF InstanceAfter, OccursAfter, IfInBounds, InBounds, NextDate

-----------------------------------------------------------------------------
(* Counting: a set whose elements are each in one of two lists or two sets, *)
(* once only.                                                              *)

Elems(list) == {list[i] : i \in 1..Len(list)}

IsCut(list, p, result) ==
  /\ p \in 1..Len(list) /\ Len(result) = Len(list) - 1
  /\ \A i \in 1..(p - 1) : result[i] = list[i]
  /\ \A i \in p..(Len(list) - 1) : result[i] = list[i + 1]

LEMMA ElemsBound ==
  ASSUME NEW S, NEW list \in Seq(S)
  PROVE  /\ IsFiniteSet(Elems(list)) /\ Cardinality(Elems(list)) \in Nat
         /\ Cardinality(Elems(list)) <= Len(list)
<1> DEFINE n == Len(list)
           f == [i \in 1..n |-> list[i]]
<1>1. n \in Nat
  OBVIOUS
<1>2. IsFiniteSet(1..n) /\ Cardinality(1..n) = n
  <2> HIDE DEF n
  <2>1. /\ IsFiniteSet(1..n)
        /\ Cardinality(1..n) = IF 1 > n THEN 0 ELSE n - 1 + 1
    BY <1>1, FS_Interval
  <2> QED
    BY <1>1, <2>1
<1>3. f \in Surjection(1..n, Elems(list))
  BY DEF Surjection, Elems
<1> HIDE DEF f, n
<1>4. IsFiniteSet(Elems(list)) /\ Cardinality(Elems(list)) <= Cardinality(1..n)
  BY <1>2, <1>3, FS_Surjection
<1>5. Cardinality(Elems(list)) \in Nat
  BY <1>4, FS_CardinalityType
<1> QED
  BY <1>2, <1>4, <1>5 DEF n

LEMMA ElemsWith ==
  ASSUME NEW S, NEW list \in Seq(S), NEW x, NEW result, IsWith(list, x, result)
  PROVE  Len(result) = Len(list) + 1 /\ Elems(result) = Elems(list) \cup {x}
<1> DEFINE n == Len(list)
<1>1. n \in Nat
  OBVIOUS
<1>2. PICK p \in 1..(n + 1) :
        /\ Len(result) = n + 1 /\ result[p] = x
        /\ \A i \in 1..(p - 1) : result[i] = list[i]
        /\ \A i \in (p + 1)..(n + 1) : result[i] = list[i - 1]
  BY DEF IsWith
<1> HIDE DEF n
<1>3. ASSUME NEW i \in 1..(n + 1)  PROVE result[i] \in Elems(list) \cup {x}
  <2>1. CASE i < p
    <3>1. i \in 1..(p - 1) /\ i \in 1..n
      BY <1>1, <1>2, <2>1
    <3> QED
      BY <1>2, <3>1 DEF Elems, n
  <2>2. CASE i = p
    BY <1>2, <2>2
  <2>3. CASE i > p
    <3>1. i \in (p + 1)..(n + 1) /\ i - 1 \in 1..n
      BY <1>1, <1>2, <2>3
    <3> QED
      BY <1>2, <3>1 DEF Elems, n
  <2> QED
    BY <1>1, <2>1, <2>2, <2>3
<1>4. ASSUME NEW i \in 1..n  PROVE list[i] \in Elems(result)
  <2>1. CASE i < p
    <3>1. i \in 1..(p - 1) /\ i \in 1..(n + 1)
      BY <1>1, <1>2, <2>1
    <3> QED
      BY <1>2, <3>1 DEF Elems
  <2>2. CASE i >= p
    <3> DEFINE j == i + 1
    <3>1. j \in (p + 1)..(n + 1) /\ j \in 1..(n + 1) /\ j - 1 = i
      BY <1>1, <1>2, <2>2
    <3> HIDE DEF j
    <3>2. result[j] = list[i]
      BY <1>2, <3>1
    <3> QED
      BY <1>2, <3>1, <3>2 DEF Elems
  <2> QED
    BY <1>1, <1>2, <2>1, <2>2
<1>5. x \in Elems(result)
  BY <1>2 DEF Elems
<1> QED
  BY <1>2, <1>3, <1>4, <1>5 DEF Elems, n

IsPart(list, p, result) ==
  /\ \A i \in 1..Len(list) : i # p => \E j \in 1..Len(result) : result[j] = list[i]
  /\ \A j \in 1..Len(result) : \E i \in 1..Len(list) : result[j] = list[i]

LEMMA ElemsCut ==
  ASSUME NEW S, NEW list \in Seq(S), NEW p, NEW result, IsCut(list, p, result)
  PROVE  /\ Len(result) = Len(list) - 1 /\ Elems(list) = Elems(result) \cup {list[p]}
         /\ IsPart(list, p, result)
<1> DEFINE n == Len(list)
<1>1. n \in Nat
  OBVIOUS
<1>2. /\ p \in 1..n /\ Len(result) = n - 1
      /\ \A i \in 1..(p - 1) : result[i] = list[i]
      /\ \A i \in p..(n - 1) : result[i] = list[i + 1]
  BY DEF IsCut
<1> HIDE DEF n
<1>3. ASSUME NEW i \in 1..(n - 1)  PROVE \E j \in 1..n : result[i] = list[j]
  <2>1. CASE i < p
    <3>1. i \in 1..(p - 1) /\ i \in 1..n
      BY <1>1, <1>2, <2>1
    <3> QED
      BY <1>2, <3>1
  <2>2. CASE i >= p
    <3>1. i \in p..(n - 1) /\ i + 1 \in 1..n
      BY <1>1, <1>2, <2>2
    <3>2. result[i] = list[i + 1]
      BY <1>2, <3>1
    <3> QED
      BY <3>1, <3>2
  <2>3. i < p \/ i >= p
    BY <1>1, <1>2
  <2> QED
    BY <2>1, <2>2, <2>3
<1>4. ASSUME NEW i \in 1..n, i # p  PROVE \E j \in 1..(n - 1) : result[j] = list[i]
  <2>1. CASE i < p
    <3>1. i \in 1..(p - 1) /\ i \in 1..(n - 1)
      BY <1>1, <1>2, <2>1
    <3> QED
      BY <1>2, <3>1
  <2>2. CASE i > p
    <3> DEFINE j == i - 1
    <3>1. j \in p..(n - 1) /\ j \in 1..(n - 1) /\ j + 1 = i
      BY <1>1, <1>2, <2>2
    <3> HIDE DEF j
    <3>2. result[j] = list[i]
      BY <1>2, <3>1
    <3> QED
      BY <3>1, <3>2
  <2>3. i < p \/ i > p
    BY <1>1, <1>2, <1>4
  <2> QED
    BY <2>1, <2>2, <2>3
<1>5. Elems(list) = Elems(result) \cup {list[p]}
  <2>1. ASSUME NEW e \in Elems(list)  PROVE e \in Elems(result) \cup {list[p]}
    <3>1. PICK i \in 1..n : e = list[i]
      BY DEF Elems, n
    <3>2. i # p => \E j \in 1..Len(result) : result[j] = e
      BY <1>2, <1>4, <3>1
    <3> QED
      BY <3>1, <3>2 DEF Elems
  <2>2. ASSUME NEW e \in Elems(result)  PROVE e \in Elems(list)
    <3>1. PICK j \in 1..(n - 1) : e = result[j]
      BY <1>2 DEF Elems
    <3> QED
      BY <1>3, <3>1 DEF Elems, n
  <2>3. list[p] \in Elems(list)
    BY <1>2 DEF Elems, n
  <2> QED
    BY <2>1, <2>2, <2>3
<1> QED
  BY <1>2, <1>3, <1>4, <1>5 DEF n, IsPart

Balanced(P, A, I, B, F) ==
  /\ P = (Elems(A) \cup I) \cup (Elems(B) \cup F)
  /\ Cardinality(P) = Len(A) + Cardinality(I) + Len(B) + Cardinality(F)

LEMMA UnionBound ==
  ASSUME NEW S, NEW T, IsFiniteSet(S), IsFiniteSet(T)
  PROVE  /\ IsFiniteSet(S \cup T) /\ Cardinality(S \cup T) \in Nat
         /\ Cardinality(S \cup T) <= Cardinality(S) + Cardinality(T)
<1>1. /\ IsFiniteSet(S \cup T) /\ IsFiniteSet(S \cap T)
      /\ Cardinality(S \cup T) = Cardinality(S) + Cardinality(T) - Cardinality(S \cap T)
  BY FS_Union, FS_Intersection
<1>2. Cardinality(S) \in Nat /\ Cardinality(T) \in Nat /\ Cardinality(S \cap T) \in Nat
      /\ Cardinality(S \cup T) \in Nat
  BY <1>1, FS_CardinalityType
<1> QED
  BY <1>1, <1>2

\* Room for one more: a new element goes to any of the four.
LEMMA BalanceAdd ==
  ASSUME NEW P, NEW S, NEW A \in Seq(S), NEW B \in Seq(S), NEW I, NEW F,
         IsFiniteSet(I), IsFiniteSet(F), Balanced(P, A, I, B, F), NEW d, d \notin P
  PROVE  /\ \A A2 : IsWith(A, d, A2) => Balanced(P \cup {d}, A2, I, B, F)
         /\ \A B2 : IsWith(B, d, B2) => Balanced(P \cup {d}, A, I, B2, F)
         /\ Balanced(P \cup {d}, A, I \cup {d}, B, F)
         /\ Balanced(P \cup {d}, A, I, B, F \cup {d})
<1>1. /\ IsFiniteSet(P) /\ Len(A) \in Nat /\ Len(B) \in Nat
      /\ Cardinality(I) \in Nat /\ Cardinality(F) \in Nat
  <2>1. IsFiniteSet(Elems(A)) /\ IsFiniteSet(Elems(B))
    BY ElemsBound
  <2>2. IsFiniteSet(Elems(A) \cup I) /\ IsFiniteSet(Elems(B) \cup F)
    BY <2>1, UnionBound
  <2>3. IsFiniteSet(P)
    BY <2>2, UnionBound DEF Balanced
  <2> QED
    BY <2>3, FS_CardinalityType
<1>2. /\ P = (Elems(A) \cup I) \cup (Elems(B) \cup F)
      /\ Cardinality(P) = Len(A) + Cardinality(I) + Len(B) + Cardinality(F)
  BY DEF Balanced
<1>3. Cardinality(P \cup {d}) = Cardinality(P) + 1
  BY <1>1, FS_AddElement
<1>4. d \notin I /\ d \notin F
  BY <1>2
<1>5. Cardinality(I \cup {d}) = Cardinality(I) + 1 /\ Cardinality(F \cup {d}) = Cardinality(F) + 1
  BY <1>4, FS_AddElement
<1>6. ASSUME NEW A2, IsWith(A, d, A2)  PROVE Balanced(P \cup {d}, A2, I, B, F)
  <2>1. Len(A2) = Len(A) + 1 /\ Elems(A2) = Elems(A) \cup {d}
    BY <1>6, ElemsWith
  <2>2. P \cup {d} = (Elems(A2) \cup I) \cup (Elems(B) \cup F)
    BY <1>2, <2>1
  <2>3. Cardinality(P \cup {d}) = Len(A2) + Cardinality(I) + Len(B) + Cardinality(F)
    BY <1>1, <1>2, <1>3, <2>1
  <2> QED
    BY <2>2, <2>3 DEF Balanced
<1>7. ASSUME NEW B2, IsWith(B, d, B2)  PROVE Balanced(P \cup {d}, A, I, B2, F)
  <2>1. Len(B2) = Len(B) + 1 /\ Elems(B2) = Elems(B) \cup {d}
    BY <1>7, ElemsWith
  <2>2. P \cup {d} = (Elems(A) \cup I) \cup (Elems(B2) \cup F)
    BY <1>2, <2>1
  <2>3. Cardinality(P \cup {d}) = Len(A) + Cardinality(I) + Len(B2) + Cardinality(F)
    BY <1>1, <1>2, <1>3, <2>1
  <2> QED
    BY <2>2, <2>3 DEF Balanced
<1>8. Balanced(P \cup {d}, A, I \cup {d}, B, F)
  <2>1. P \cup {d} = (Elems(A) \cup (I \cup {d})) \cup (Elems(B) \cup F)
    BY <1>2
  <2>2. Cardinality(P \cup {d}) = Len(A) + Cardinality(I \cup {d}) + Len(B) + Cardinality(F)
    BY <1>1, <1>2, <1>3, <1>5
  <2> QED
    BY <2>1, <2>2 DEF Balanced
<1>9. Balanced(P \cup {d}, A, I, B, F \cup {d})
  <2>1. P \cup {d} = (Elems(A) \cup I) \cup (Elems(B) \cup (F \cup {d}))
    BY <1>2
  <2>2. Cardinality(P \cup {d}) = Len(A) + Cardinality(I) + Len(B) + Cardinality(F \cup {d})
    BY <1>1, <1>2, <1>3, <1>5
  <2> QED
    BY <2>1, <2>2 DEF Balanced
<1> QED
  BY <1>6, <1>7, <1>8, <1>9

\* What is taken from the second list is nowhere else.
LEMMA BalanceCut ==
  ASSUME NEW P, NEW S, NEW A \in Seq(S), NEW B \in Seq(S), NEW I, NEW F,
         IsFiniteSet(I), IsFiniteSet(F), Balanced(P, A, I, B, F),
         NEW p, NEW B2 \in Seq(S), IsCut(B, p, B2)
  PROVE  /\ B[p] \in P /\ Balanced(P \ {B[p]}, A, I, B2, F)
         /\ B[p] \notin Elems(B2)
<1> DEFINE d == B[p]
           Q == (Elems(A) \cup I) \cup (Elems(B2) \cup F)
<1>1. /\ IsFiniteSet(Elems(A)) /\ Cardinality(Elems(A)) \in Nat /\ Cardinality(Elems(A)) <= Len(A)
      /\ IsFiniteSet(Elems(B2)) /\ Cardinality(Elems(B2)) \in Nat /\ Cardinality(Elems(B2)) <= Len(B2)
  BY ElemsBound
<1>2. Len(A) \in Nat /\ Len(B) \in Nat /\ Cardinality(I) \in Nat /\ Cardinality(F) \in Nat
  BY FS_CardinalityType
<1>3. Len(B2) = Len(B) - 1 /\ Elems(B) = Elems(B2) \cup {d}
  BY ElemsCut
<1>4. P = Q \cup {d}
  BY <1>3 DEF Balanced
<1>5. Cardinality(P) = Len(A) + Cardinality(I) + Len(B) + Cardinality(F)
  BY DEF Balanced
<1>6. IsFiniteSet(Q) /\ Cardinality(Q) \in Nat
      /\ Cardinality(Q) <= Len(A) + Cardinality(I) + (Len(B) - 1) + Cardinality(F)
  <2> DEFINE U == Elems(A) \cup I
             V == Elems(B2) \cup F
  <2>1. /\ IsFiniteSet(U) /\ Cardinality(U) \in Nat
        /\ Cardinality(U) <= Cardinality(Elems(A)) + Cardinality(I)
    BY <1>1, UnionBound
  <2>2. /\ IsFiniteSet(V) /\ Cardinality(V) \in Nat
        /\ Cardinality(V) <= Cardinality(Elems(B2)) + Cardinality(F)
    BY <1>1, UnionBound
  <2>3. Q = U \cup V
    OBVIOUS
  <2> HIDE DEF U, V, Q
  <2>4. IsFiniteSet(Q) /\ Cardinality(Q) \in Nat /\ Cardinality(Q) <= Cardinality(U) + Cardinality(V)
    BY <2>1, <2>2, <2>3, UnionBound
  <2> DEFINE a == Len(A)  b == Len(B2)  c == Cardinality(I)  e == Cardinality(F)
             x == Cardinality(Elems(A))  y == Cardinality(Elems(B2))
             w == Cardinality(U)  z == Cardinality(V)  q == Cardinality(Q)
  <2>5. /\ x \in Nat /\ x <= a /\ y \in Nat /\ y <= b /\ w <= x + c /\ z <= y + e
        /\ q <= w + z /\ a \in Nat /\ c \in Nat /\ e \in Nat /\ b = Len(B) - 1
        /\ w \in Nat /\ z \in Nat /\ q \in Nat /\ Len(B) \in Nat
    BY <1>1, <1>2, <1>3, <2>1, <2>2, <2>4
  <2> HIDE DEF a, b, c, e, x, y, w, z, q
  <2>6. q <= a + c + b + e
    BY <2>5
  <2> QED
    BY <2>4, <2>5, <2>6 DEF a, c, e, q
<1> HIDE DEF Q, d
<1>7. d \notin Q
  <2> SUFFICES ASSUME d \in Q PROVE FALSE
    OBVIOUS
  <2>1. P = Q
    BY <1>4
  <2> QED
    BY <1>2, <1>5, <1>6, <2>1
<1>8. Cardinality(P) = Cardinality(Q) + 1
  BY <1>4, <1>6, <1>7, FS_AddElement
<1>9. P \ {d} = Q
  BY <1>4, <1>7
<1>10. Balanced(Q, A, I, B2, F)
  <2> DEFINE a == Len(A)  b == Len(B)  c == Cardinality(I)  f == Cardinality(F)
             x == Cardinality(P)  y == Cardinality(Q)  z == Len(B2)
  <2>1. y = a + c + z + f
    <3>1. /\ a \in Nat /\ b \in Nat /\ c \in Nat /\ f \in Nat /\ y \in Nat
          /\ x = a + c + b + f /\ x = y + 1 /\ z = b - 1
      BY <1>2, <1>3, <1>5, <1>6, <1>8
    <3> HIDE DEF a, b, c, f, x, y, z
    <3> QED
      BY <3>1
  <2> QED
    BY <2>1 DEF Balanced, Q
<1> QED
  BY <1>4, <1>7, <1>9, <1>10 DEF Q, d

-----------------------------------------------------------------------------
(* The pass of gnc_sx_instance_model_effect_change over all instances.     *)

Made(inst) == [inst EXCEPT !.state = "created"]

InstsPart(insts, k, acc) ==
  /\ Len(acc.insts) = Len(insts)
  /\ \A j \in 1..Len(insts) :
       acc.insts[j] = IF j <= k /\ insts[j].state = "to-create" THEN Made(insts[j]) ELSE insts[j]

LEMMA InstsStep ==
  ASSUME NEW insts \in Seq(Inst), RemindersEnd(insts), NEW k \in 0..(Len(insts) - 1),
         NEW acc \in EffectType, InstsPart(insts, k, acc),
         NEW r, IsEffect(acc, k + 1, r)
  PROVE  acc.insts[k + 1] = insts[k + 1] /\ InstsPart(insts, k + 1, r)
<1> DEFINE i == k + 1
           len == Len(insts)
           L == acc.insts
           W == WithState(L, i, "created")
<1>1. len \in Nat /\ i \in 1..len /\ k \in Nat /\ k < i /\ L \in Seq(Inst) /\ Len(L) = len
      /\ \A j \in 1..len : (j <= i <=> j <= k \/ j = i) /\ (j < i <=> j <= k)
  BY DEF EffectType, InstsPart
<1>2. r.insts = IF L[i].state = "to-create" THEN W ELSE L
  BY DEF IsEffect
<1> HIDE DEF i, len, L, W
<1>3. \A j \in 1..len :
        L[j] = IF j <= k /\ insts[j].state = "to-create" THEN Made(insts[j]) ELSE insts[j]
  BY DEF InstsPart, L, len
<1>4. L[i] = insts[i]
  <2>1. ~(i <= k)
    BY <1>1
  <2> QED
    BY <1>1, <1>3, <2>1
<1>5. CASE insts[i].state # "to-create"
  <2>1. r.insts = L
    BY <1>2, <1>4, <1>5
  <2>2. \A j \in 1..len :
          L[j] = IF j <= i /\ insts[j].state = "to-create" THEN Made(insts[j]) ELSE insts[j]
    BY <1>1, <1>3, <1>4, <1>5
  <2>3. InstsPart(insts, i, r)
    BY <1>1, <2>1, <2>2 DEF InstsPart, len
  <2> QED
    BY <1>4, <2>3 DEF i, L
<1>6. CASE insts[i].state = "to-create"
  <2>1. r.insts = W
    BY <1>2, <1>4, <1>6
  <2>2. /\ W \in Seq(Inst) /\ Len(W) = len /\ W[i].state = "created"
        /\ \A j \in 1..len : IsRestated(L, W, i, "created", j)
    BY <1>1, WithStateFacts DEF W, States
  <2>3. ASSUME NEW j \in 1..len
        PROVE  W[j] = IF j <= i /\ insts[j].state = "to-create" THEN Made(insts[j]) ELSE insts[j]
    <3>1. IsRestated(L, W, i, "created", j) /\ L[j] \in Inst
      BY <1>1, <2>2
    <3>2. CASE j = i
      <4>1. W[i] = [L[i] EXCEPT !.state = "created"]
        BY <2>2, <3>1, <3>2 DEF IsRestated
      <4>2. j <= i
        BY <1>1, <3>2
      <4> QED
        BY <1>4, <1>6, <3>2, <4>1, <4>2 DEF Made
    <3>3. CASE j < i
      <4>1. L[j].state # "reminder"
        <5> SUFFICES ASSUME L[j].state = "reminder" PROVE FALSE
          OBVIOUS
        <5>1. insts[j] \in Inst
          BY DEF len
        <5>2. Made(insts[j]).state = "created"
          BY <5>1 DEF Made, Inst
        <5>3. insts[j].state = "reminder"
          BY <1>3, <5>2
        <5>4. insts[i].state = "reminder"
          BY <1>1, <3>3, <5>3 DEF RemindersEnd, len
        <5> QED
          BY <1>6, <5>4
      <4>2. W[j].state = L[j].state
        BY <3>1, <3>3, <4>1 DEF IsRestated
      <4>3. W[j] = [L[j] EXCEPT !.state = L[j].state]
        BY <3>1, <4>2 DEF IsRestated
      <4>4. W[j] = L[j]
        BY <3>1, <4>3 DEF Inst
      <4>5. j <= k /\ j <= i
        BY <1>1, <3>3
      <4> QED
        BY <1>3, <4>4, <4>5
    <3>4. CASE j > i
      <4>1. W[j].state = L[j].state
        BY <3>1, <3>4 DEF IsRestated
      <4>2. W[j] = [L[j] EXCEPT !.state = L[j].state]
        BY <3>1, <4>1 DEF IsRestated
      <4>3. W[j] = L[j]
        BY <3>1, <4>2 DEF Inst
      <4>4. ~(j <= k) /\ ~(j <= i)
        BY <1>1, <3>4
      <4> QED
        BY <1>3, <4>3, <4>4
    <3> QED
      BY <1>1, <3>2, <3>3, <3>4
  <2>4. InstsPart(insts, i, r)
    BY <2>1, <2>2, <2>3 DEF InstsPart, len
  <2> QED
    BY <1>4, <2>4 DEF i, L
<1> QED
  BY <1>5, <1>6

\* After those put off, the first m are carried out, in the order of their
\* dates, and the rest is not.
IsRun(s, insts, m) ==
  /\ m \in Len(s.deferred)..Len(insts)
  /\ \A i \in (Len(s.deferred) + 1)..Len(insts) : insts[i].state \in Effective <=> i <= m
  /\ \A i \in (Len(s.deferred) + 1)..m :
       /\ insts[i].date = NextDate(s, LastAt(s, insts, i - 1))
       /\ s.end # NoDate => insts[i].date <= s.end
  /\ s.total # 0 => m - Len(s.deferred) <= s.remain

LEMMA LastAtPlaced ==
  ASSUME Regular, NEW s, SxInv(s), NEW ce, NEW insts, Shown(s, ce, insts),
         NEW i \in Len(s.deferred)..Len(insts)
  PROVE  /\ LastAt(s, insts, i) \in 0..Horizon
         /\ LastAt(s, insts, i) = NoDate \/ s.start <= LastAt(s, insts, i)
<1>1. s \in SxType /\ s.last \in 0..Horizon /\ Placed(s, TemporalState(s))
  BY DEF SxInv, SxType
<1>2. CASE i = Len(s.deferred)
  <2>1. LastAt(s, insts, i) = s.last
    BY <1>2 DEF LastAt
  <2>2. s.last = NoDate \/ s.start <= s.last
    BY <1>1, TemporalFacts DEF Placed
  <2> QED
    BY <1>1, <2>1, <2>2
<1>3. CASE i # Len(s.deferred)
  <2>1. LastAt(s, insts, i) = insts[i].date
    BY <1>3 DEF LastAt
  <2>2. i \in 1..Len(insts) /\ insts \in Seq(Inst)
    <3>1. s.deferred \in Seq(Tsd)
      BY <1>1 DEF SxType
    <3> QED
      BY <1>3, <3>1 DEF Shown
  <2>3. insts[i] \in Inst
    BY <2>2
  <2>4. insts[i].date \in 1..Horizon /\ insts[i].tsd \in Tsd
    BY <2>3 DEF Inst
  <2>5. Placed(s, insts[i].tsd) /\ insts[i].date = InstanceAfter(s, insts[i].tsd)
    BY <2>2 DEF Shown
  <2>6. s.start <= insts[i].date
    BY <1>1, <2>4, <2>5, AfterFacts, ScheduleBounds
  <2> QED
    BY <2>1, <2>4, <2>6, ScheduleBounds
<1> QED
  BY <1>2, <1>3

\* Where the pass is among the new instances.
Reached(s, m, k) == IF k <= Len(s.deferred) THEN Len(s.deferred) ELSE IF k <= m THEN k ELSE m

CountPart(s, insts, m, k, acc) ==
  /\ acc.last = LastAt(s, insts, Reached(s, m, k))
  /\ s.total # 0 => acc.remain + (Reached(s, m, k) - Len(s.deferred)) <= s.remain
  /\ s.total = 0 => acc.remain = 0

LEMMA ReachedStep ==
  ASSUME NEW n \in Nat, NEW len \in Nat, NEW s, n = Len(s.deferred), NEW m \in n..len,
         NEW k \in 0..(len - 1)
  PROVE  /\ Reached(s, m, k) \in n..len
         /\ k + 1 <= n => Reached(s, m, k + 1) = n /\ Reached(s, m, k) = n
         /\ n < k + 1 /\ k + 1 <= m => Reached(s, m, k + 1) = k + 1 /\ Reached(s, m, k) = k
         /\ m < k + 1 /\ n < k + 1 => Reached(s, m, k + 1) = Reached(s, m, k)
         /\ k + 1 <= n \/ (n < k + 1 /\ k + 1 <= m) \/ (n < k + 1 /\ m < k + 1)
BY DEF Reached

\* How far one step of the pass takes the last date.
Advances(s, i, inst, acc, r) ==
  /\ acc.last <= r.last
  /\ inst.state \in Effective /\ Len(s.deferred) < i =>
       /\ r.last = inst.date
       /\ PastOf(s, r.last) = PastOf(s, acc.last) \cup {inst.date}
       /\ inst.date \notin PastOf(s, acc.last)
  /\ ~(inst.state \in Effective /\ Len(s.deferred) < i) => r.last = acc.last

LEMMA CountStep ==
  ASSUME Regular, NEW s, SxInv(s), NEW ce, NEW insts, Shown(s, ce, insts),
         NEW m, IsRun(s, insts, m), NEW k \in 0..(Len(insts) - 1),
         NEW acc \in EffectType, CountPart(s, insts, m, k, acc),
         acc.insts[k + 1] = insts[k + 1], NEW r, IsEffect(acc, k + 1, r)
  PROVE  CountPart(s, insts, m, k + 1, r) /\ Advances(s, k + 1, insts[k + 1], acc, r)
<1> DEFINE i == k + 1
           n == Len(s.deferred)
           len == Len(insts)
           inst == insts[i]
           last == LastAt(s, insts, Reached(s, m, k))
<1>1. s \in SxType /\ n \in Nat /\ len \in Nat /\ n <= len /\ insts \in Seq(Inst)
      /\ i \in 1..len /\ s.last \in 0..Horizon /\ s.remain \in Nat
  <2>1. s \in SxType /\ insts \in Seq(Inst) /\ n <= len
    BY DEF SxInv, Shown
  <2>2. n \in Nat /\ s.last \in 0..Horizon /\ s.remain \in Nat
    BY <2>1 DEF SxType
  <2> QED
    BY <2>1, <2>2
<1>2. m \in n..len
  BY DEF IsRun
<1> HIDE DEF len
<1>3. /\ Reached(s, m, k) \in n..len
      /\ i <= n => Reached(s, m, i) = n /\ Reached(s, m, k) = n
      /\ n < i /\ i <= m => Reached(s, m, i) = i /\ Reached(s, m, k) = k
      /\ m < i /\ n < i => Reached(s, m, i) = Reached(s, m, k)
      /\ i <= n \/ (n < i /\ i <= m) \/ (n < i /\ m < i)
  BY <1>1, <1>2, ReachedStep DEF len
<1>4. last \in 0..Horizon /\ (last = NoDate \/ s.start <= last)
  BY <1>3, LastAtPlaced DEF len
<1>5. acc.last = last /\ acc.remain \in Nat
  BY DEF CountPart, EffectType
<1>6. /\ s.total # 0 => acc.remain + (Reached(s, m, k) - n) <= s.remain
      /\ s.total = 0 => acc.remain = 0
  BY DEF CountPart
<1>7. /\ r.last = IF inst.state \in Effective /\ (acc.last = NoDate \/ acc.last <= inst.date)
                  THEN inst.date ELSE acc.last
      /\ r.remain = IF inst.state \in Effective /\ acc.remain > 0 THEN acc.remain - 1
                    ELSE acc.remain
  BY DEF IsEffect
<1>8. inst \in Inst
  BY <1>1 DEF len
<1>9. inst.date \in 1..Horizon
  BY <1>8 DEF Inst
<1>10. i <= n => inst.date \in 1..s.last
  <2> SUFFICES ASSUME i <= n PROVE inst.date \in 1..s.last
    OBVIOUS
  <2>1. i \in 1..n
    BY <1>1
  <2>2. inst.date = InstanceAfter(s, s.deferred[i])
    BY <2>1 DEF Shown, IsPutOff
  <2>3. s.deferred \in Seq(Tsd)
    BY <1>1 DEF SxType
  <2>4. i \in DOMAIN s.deferred
    BY <2>1, <2>3
  <2> QED
    BY <2>2, <2>4 DEF SxInv
<1>11. n < i => (inst.state \in Effective <=> i <= m)
  <2> SUFFICES ASSUME n < i PROVE inst.state \in Effective <=> i <= m
    OBVIOUS
  <2>1. i \in (n + 1)..len
    BY <1>1
  <2> QED
    BY <2>1 DEF IsRun, len
<1> HIDE DEF i, n, last, inst
<1>12. CASE i <= n
  <2>1. last = s.last
    BY <1>3, <1>12 DEF last, LastAt, n
  <2>2. r.last = last
    <3> DEFINE a == acc.last  b == inst.date
    <3>1. /\ a = last /\ a \in Nat /\ b \in 1..a
          /\ r.last = IF inst.state \in Effective /\ (a = NoDate \/ a <= b) THEN b ELSE a
      BY <1>4, <1>5, <1>7, <1>10, <1>12, <2>1, ScheduleBounds
    <3> HIDE DEF a, b
    <3>2. a <= b => b = a
      BY <3>1
    <3>3. a # NoDate
      BY <3>1, ScheduleBounds
    <3> QED
      BY <3>1, <3>2, <3>3
  <2>3. r.remain \in Nat /\ r.remain <= acc.remain
    BY <1>5, <1>7
  <2>4. CountPart(s, insts, m, i, r)
    <3>1. r.last = LastAt(s, insts, Reached(s, m, i))
      BY <1>3, <1>12, <2>2 DEF last
    <3>2. s.total # 0 => r.remain + (Reached(s, m, i) - n) <= s.remain
      BY <1>1, <1>3, <1>5, <1>6, <1>12, <2>3
    <3>3. s.total = 0 => r.remain = 0
      BY <1>5, <1>6, <2>3
    <3> QED
      BY <3>1, <3>2, <3>3 DEF CountPart, n
  <2>5. ~(n < i)
    BY <1>1, <1>12
  <2>6. acc.last <= r.last
    BY <1>4, <1>5, <2>2, ScheduleBounds
  <2> QED
    BY <1>5, <2>2, <2>4, <2>5, <2>6 DEF i, n, inst, Advances
<1>13. CASE n < i /\ i <= m
  <2>1. inst.state \in Effective
    BY <1>11, <1>13
  <2>2. k = i - 1 /\ i \in (n + 1)..m
    BY <1>1, <1>2, <1>13 DEF i
  <2>3. inst.date = NextDate(s, last)
    BY <1>3, <1>13, <2>2 DEF IsRun, n, inst, last
  <2>4. /\ PastOf(s, inst.date) = PastOf(s, last) \cup {inst.date}
        /\ inst.date \notin PastOf(s, last) /\ last < inst.date
    BY <1>1, <1>4, <1>9, <2>3, PastStep
  <2>5. r.last = inst.date
    BY <1>4, <1>5, <1>7, <1>9, <2>1, <2>4, ScheduleBounds
  <2>6. inst.date = LastAt(s, insts, i)
    <3>1. i # n
      BY <1>1, <1>13
    <3> QED
      BY <3>1 DEF LastAt, inst, n
  <2>7. s.total # 0 => i - n <= s.remain
    BY <1>1, <1>2, <1>13 DEF IsRun, n
  <2>8. CountPart(s, insts, m, i, r)
    <3>1. r.last = LastAt(s, insts, Reached(s, m, i))
      BY <1>3, <1>13, <2>5, <2>6
    <3>2. s.total # 0 => r.remain + (i - n) <= s.remain
      <4> SUFFICES ASSUME s.total # 0 PROVE r.remain + (i - n) <= s.remain
        OBVIOUS
      <4>1. acc.remain + ((i - 1) - n) <= s.remain
        BY <1>3, <1>6, <1>13, <2>2
      <4>2. i \in Int /\ n \in Int
        BY <1>1
      <4> QED
        BY <1>1, <1>5, <1>7, <2>1, <2>7, <4>1, <4>2
    <3>3. s.total = 0 => r.remain = 0
      BY <1>5, <1>6, <1>7
    <3> QED
      BY <1>3, <1>13, <3>1, <3>2, <3>3 DEF CountPart, n
  <2>9. acc.last <= r.last
    BY <1>4, <1>5, <1>9, <2>4, <2>5, ScheduleBounds
  <2> QED
    BY <1>5, <1>13, <2>1, <2>4, <2>5, <2>8, <2>9 DEF i, n, inst, Advances
<1>14. CASE n < i /\ m < i
  <2>1. inst.state \notin Effective
    BY <1>1, <1>2, <1>11, <1>14
  <2>2. r.last = acc.last /\ r.remain = acc.remain
    BY <1>7, <2>1
  <2>3. CountPart(s, insts, m, i, r)
    BY <1>3, <1>5, <1>6, <1>14, <2>2 DEF CountPart, n, last
  <2>4. acc.last <= r.last
    BY <1>4, <1>5, <2>2, ScheduleBounds
  <2> QED
    BY <2>1, <2>2, <2>3, <2>4 DEF i, n, inst, Advances
<1> QED
  BY <1>3, <1>12, <1>13, <1>14

-----------------------------------------------------------------------------
(* What is put off, created, ignored and forgotten in the pass.            *)

DeferredPart(s, acc) ==
  \A p \in 1..Len(acc.deferred) :
    /\ Placed(s, acc.deferred[p])
    /\ InstanceAfter(s, acc.deferred[p]) \in 1..acc.last
    /\ acc.deferred[p].last \in acc.putOff

PutDates(s, list) == [p \in 1..Len(list) |-> InstanceAfter(s, list[p])]
Within(s, list, last) == \A p \in 1..Len(list) : InstanceAfter(s, list[p]) \in 1..last
CreatedDates(list) == [p \in 1..Len(list) |-> list[p][1]]

LEMMA PutDatesType ==
  ASSUME NEW s, NEW list \in Seq(Tsd), NEW last, Within(s, list, last)
  PROVE  /\ PutDates(s, list) \in Seq(Nat) /\ Len(PutDates(s, list)) = Len(list)
         /\ \A p \in 1..Len(list) : PutDates(s, list)[p] = InstanceAfter(s, list[p])
<1> DEFINE n == Len(list)
           D == PutDates(s, list)
<1>1. n \in Nat
  OBVIOUS
<1>2. \A p \in 1..n : InstanceAfter(s, list[p]) \in Nat
  BY DEF Within
<1>3. D = [p \in 1..n |-> InstanceAfter(s, list[p])]
  BY DEF PutDates
<1> HIDE DEF n
<1>4. D \in [1..n -> Nat]
  BY <1>2, <1>3
<1>5. \A p \in 1..n : D[p] = InstanceAfter(s, list[p])
  BY <1>3
<1> HIDE DEF D
<1>6. D \in Seq(Nat) /\ Len(D) = n
  BY <1>1, <1>4
<1> QED
  BY <1>5, <1>6 DEF n, D

LEMMA CreatedDatesType ==
  ASSUME NEW list \in Seq(Nat \X Int)
  PROVE  /\ CreatedDates(list) \in Seq(Nat) /\ Len(CreatedDates(list)) = Len(list)
         /\ \A x \in Nat \X Int : IsWith(CreatedDates(list), x[1], CreatedDates(Append(list, x)))
<1> DEFINE n == Len(list)
           D == CreatedDates(list)
<1>1. n \in Nat /\ \A p \in 1..n : list[p] \in Nat \X Int
  OBVIOUS
<1>2. D = [p \in 1..n |-> list[p][1]]
  BY DEF CreatedDates
<1>3. D \in [1..n -> Nat] /\ \A p \in 1..n : D[p] = list[p][1]
  <2>1. ASSUME NEW p \in 1..n  PROVE list[p][1] \in Nat
    <3>1. list[p] \in Nat \X Int
      BY <1>1
    <3> QED
      BY <3>1
  <2> HIDE DEF D, n
  <2> QED
    BY <1>2, <2>1
<1> HIDE DEF D
<1>4. D \in Seq(Nat) /\ Len(D) = n
  <2> HIDE DEF n
  <2> QED
    BY <1>1, <1>3
<1>5. ASSUME NEW x \in Nat \X Int  PROVE IsWith(D, x[1], CreatedDates(Append(list, x)))
  <2> DEFINE M == Append(list, x)
             E == CreatedDates(M)
  <2>1. M \in Seq(Nat \X Int) /\ Len(M) = n + 1 /\ M[n + 1] = x
        /\ \A p \in 1..n : M[p] = list[p]
    OBVIOUS
  <2>2. E = [p \in 1..(n + 1) |-> M[p][1]]
    BY <2>1 DEF CreatedDates
  <2> HIDE DEF M
  <2>3. \A p \in 1..(n + 1) : E[p] = M[p][1]
    BY <2>2
  <2>4. DOMAIN E = 1..(n + 1)
    BY <2>2
  <2>5. E \in [1..(n + 1) -> Nat]
    <3>1. \A p \in 1..(n + 1) : M[p][1] \in Nat
      <4>1. \A p \in 1..(n + 1) : M[p] \in Nat \X Int
        BY <2>1
      <4> QED
        BY <4>1
    <3> QED
      BY <2>2, <3>1
  <2> HIDE DEF E, n
  <2>6. E \in Seq(Nat) /\ Len(E) = n + 1
    <3>1. n + 1 \in Nat
      BY <1>1
    <3> QED
      BY <2>5, <3>1
  <2>7. E[n + 1] = x[1] /\ \A p \in 1..n : E[p] = D[p]
    <3>1. n + 1 \in 1..(n + 1) /\ \A p \in 1..n : p \in 1..(n + 1)
      BY <1>1
    <3>2. E[n + 1] = M[n + 1][1] /\ \A p \in 1..n : E[p] = M[p][1]
      BY <2>3, <3>1
    <3>3. \A p \in 1..n : M[p] = list[p] /\ D[p] = list[p][1]
      BY <1>3, <2>1 DEF n
    <3> QED
      BY <2>1, <3>2, <3>3 DEF n
  <2>8. IsWith(D, x[1], E)
    <3>1. n + 1 \in 1..(Len(D) + 1)
      BY <1>1, <1>4
    <3>2. \A p \in 1..((n + 1) - 1) : E[p] = D[p]
      BY <1>1, <2>7
    <3>3. \A p \in ((n + 1) + 1)..(Len(D) + 1) : E[p] = D[p - 1]
      BY <1>1, <1>4
    <3> QED
      BY <1>4, <2>6, <2>7, <3>1, <3>2, <3>3 DEF IsWith
  <2> QED
    BY <2>8 DEF E, M
<1> QED
  BY <1>4, <1>5 DEF n, D

LEMMA PutDatesWith ==
  ASSUME NEW s, NEW list \in Seq(Tsd), NEW x, NEW result \in Seq(Tsd), IsWith(list, x, result),
         NEW last, Within(s, list, last), NEW later, Within(s, result, later)
  PROVE  IsWith(PutDates(s, list), InstanceAfter(s, x), PutDates(s, result))
<1> DEFINE n == Len(list)
           D == PutDates(s, list)
           E == PutDates(s, result)
<1>1. n \in Nat
  OBVIOUS
<1>2. PICK p \in 1..(n + 1) :
        /\ Len(result) = n + 1 /\ result[p] = x
        /\ \A i \in 1..(p - 1) : result[i] = list[i]
        /\ \A i \in (p + 1)..(n + 1) : result[i] = list[i - 1]
  BY DEF IsWith
<1>3. Len(D) = n /\ \A i \in 1..n : D[i] = InstanceAfter(s, list[i])
  BY PutDatesType
<1>4. Len(E) = n + 1 /\ \A i \in 1..(n + 1) : E[i] = InstanceAfter(s, result[i])
  BY <1>2, PutDatesType
<1> HIDE DEF D, E, n
<1>5. E[p] = InstanceAfter(s, x)
  BY <1>2, <1>4
<1>6. ASSUME NEW i \in 1..(p - 1)  PROVE E[i] = D[i]
  <2>1. i \in 1..n /\ i \in 1..(n + 1)
    BY <1>1, <1>2
  <2> QED
    BY <1>2, <1>3, <1>4, <2>1
<1>7. ASSUME NEW i \in (p + 1)..(n + 1)  PROVE E[i] = D[i - 1]
  <2>1. i - 1 \in 1..n /\ i \in 1..(n + 1)
    BY <1>1, <1>2
  <2> QED
    BY <1>2, <1>3, <1>4, <2>1
<1>8. IsWith(D, InstanceAfter(s, x), E)
  BY <1>2, <1>3, <1>4, <1>5, <1>6, <1>7 DEF IsWith
<1> QED
  BY <1>8 DEF D, E

LEMMA PutDatesCut ==
  ASSUME NEW s, NEW list \in Seq(Tsd), NEW p, NEW result \in Seq(Tsd), IsCut(list, p, result),
         NEW last, Within(s, list, last), NEW later, Within(s, result, later)
  PROVE  IsCut(PutDates(s, list), p, PutDates(s, result))
<1> DEFINE n == Len(list)
           D == PutDates(s, list)
           E == PutDates(s, result)
<1>1. n \in Nat
  OBVIOUS
<1>2. /\ p \in 1..n /\ Len(result) = n - 1
      /\ \A i \in 1..(p - 1) : result[i] = list[i]
      /\ \A i \in p..(n - 1) : result[i] = list[i + 1]
  BY DEF IsCut
<1>3. Len(D) = n /\ \A i \in 1..n : D[i] = InstanceAfter(s, list[i])
  BY PutDatesType
<1>4. Len(E) = n - 1 /\ \A i \in 1..(n - 1) : E[i] = InstanceAfter(s, result[i])
  BY <1>2, PutDatesType
<1> HIDE DEF D, E, n
<1>5. ASSUME NEW i \in 1..(p - 1)  PROVE E[i] = D[i]
  <2>1. i \in 1..n /\ i \in 1..(n - 1)
    BY <1>1, <1>2
  <2> QED
    BY <1>2, <1>3, <1>4, <2>1
<1>6. ASSUME NEW i \in p..(n - 1)  PROVE E[i] = D[i + 1]
  <2>1. i + 1 \in 1..n /\ i \in 1..(n - 1)
    BY <1>1, <1>2
  <2> QED
    BY <1>2, <1>3, <1>4, <2>1
<1>7. IsCut(D, p, E)
  BY <1>2, <1>3, <1>4, <1>5, <1>6 DEF IsCut
<1> QED
  BY <1>7 DEF D, E

\* What is put off in the pass is new, and the occurrence is its last one.
LEMMA DeferredStep ==
  ASSUME NEW s \in SxType, NEW ce, NEW insts, Shown(s, ce, insts),
         NEW i \in 1..Len(insts), NEW acc \in EffectType, DeferredPart(s, acc),
         acc.insts[i] = insts[i], NEW r \in EffectType, IsEffect(acc, i, r),
         Advances(s, i, insts[i], acc, r)
  PROVE  DeferredPart(s, r) /\ acc.putOff \subseteq r.putOff
<1> DEFINE inst == insts[i]
           L == acc.deferred
           M == r.deferred
<1>1. L \in Seq(Tsd) /\ M \in Seq(Tsd) /\ acc.last \in Nat /\ r.last \in Nat
  BY ScheduleBounds DEF EffectType
<1>2. acc.putOff \subseteq r.putOff
  BY DEF IsEffect
<1>3. acc.last <= r.last
      /\ (inst.state \in Effective /\ Len(s.deferred) < i => r.last = inst.date)
  BY DEF Advances
<1>4. M = IF Undeferred(inst) THEN RemoveDeferred(L, inst.tsd)
          ELSE IF inst.state = "postponed" /\ inst.orig # "postponed"
          THEN AddDeferred(L, inst.tsd) ELSE L
  BY DEF IsEffect
<1>5. insts \in Seq(Inst) /\ inst \in Inst /\ inst.tsd \in Tsd /\ inst.date \in 1..Horizon
  <2>1. insts \in Seq(Inst)
    BY DEF Shown
  <2>2. inst \in Inst
    BY <2>1
  <2> QED
    BY <2>1, <2>2 DEF Inst
<1> DEFINE Fits(tsd, last, put) ==
             Placed(s, tsd) /\ InstanceAfter(s, tsd) \in 1..last /\ tsd.last \in put
<1>6. \A p \in 1..Len(L) : Fits(L[p], r.last, r.putOff)
  <2> SUFFICES ASSUME NEW p \in 1..Len(L) PROVE Fits(L[p], r.last, r.putOff)
    OBVIOUS
  <2>1. Placed(s, L[p]) /\ InstanceAfter(s, L[p]) \in 1..acc.last /\ L[p].last \in acc.putOff
    BY DEF DeferredPart
  <2> QED
    BY <1>1, <1>2, <1>3, <2>1
<1> HIDE DEF L, M, Fits
<1>7. CASE Undeferred(inst)
  <2>1. IsWithout(L, inst.tsd, M)
    BY <1>1, <1>4, <1>5, <1>7, RemoveFacts
  <2>2. ASSUME NEW p \in 1..Len(M)  PROVE \E q \in 1..Len(L) : M[p] = L[q]
    <3>1. CASE M = L
      BY <2>2, <3>1
    <3>2. CASE \E q \in 1..Len(L) : IsCut(L, q, M)
      <4>1. PICK q \in 1..Len(L) : IsCut(L, q, M)
        BY <3>2
      <4>2. IsPart(L, q, M)
        BY <1>1, <4>1, ElemsCut
      <4> QED
        BY <4>2 DEF IsPart
    <3>3. IsWithout(L, inst.tsd, M) => M = L \/ \E q \in 1..Len(L) : IsCut(L, q, M)
      BY DEF IsWithout, IsCut
    <3> QED
      BY <2>1, <3>1, <3>2, <3>3
  <2>3. \A p \in 1..Len(M) : Fits(M[p], r.last, r.putOff)
    BY <1>6, <2>2
  <2> QED
    BY <1>2, <2>3 DEF DeferredPart, Fits, M
<1>8. CASE ~Undeferred(inst) /\ inst.state = "postponed" /\ inst.orig # "postponed"
  <2>1. IsWith(L, inst.tsd, M)
    BY <1>1, <1>4, <1>5, <1>8, AddFacts
  <2>2. ASSUME NEW p \in 1..Len(M)  PROVE M[p] = inst.tsd \/ \E q \in 1..Len(L) : M[p] = L[q]
    <3>1. Elems(M) = Elems(L) \cup {inst.tsd}
      BY <1>1, <2>1, ElemsWith
    <3>2. M[p] \in Elems(M)
      BY DEF Elems
    <3> QED
      BY <3>1, <3>2 DEF Elems
  <2>3. Len(s.deferred) < i
    <3> SUFFICES ASSUME ~(Len(s.deferred) < i) PROVE FALSE
      OBVIOUS
    <3>1. s.deferred \in Seq(Tsd)
      BY DEF SxType
    <3>2. i \in 1..Len(s.deferred)
      BY <1>5, <3>1
    <3>3. inst.orig = "postponed"
      BY <3>2 DEF Shown, IsPutOff
    <3> QED
      BY <1>8, <3>3
  <2>4. r.last = inst.date
    BY <1>8, <1>3, <2>3 DEF Effective
  <2>5. Placed(s, inst.tsd) /\ inst.date = InstanceAfter(s, inst.tsd)
    BY DEF Shown
  <2>6. inst.tsd.last \in r.putOff
    BY <1>8 DEF IsEffect
  <2>7. inst.date \in 1..inst.date
    BY <1>5, ScheduleBounds
  <2>8. Fits(inst.tsd, r.last, r.putOff)
    BY <2>4, <2>5, <2>6, <2>7 DEF Fits
  <2>9. \A p \in 1..Len(M) : Fits(M[p], r.last, r.putOff)
    BY <1>6, <2>2, <2>8
  <2> QED
    BY <1>2, <2>9 DEF DeferredPart, Fits, M
<1>9. CASE ~Undeferred(inst) /\ ~(inst.state = "postponed" /\ inst.orig # "postponed")
  <2>1. M = L
    BY <1>4, <1>9
  <2> QED
    BY <1>2, <1>6, <2>1 DEF DeferredPart, Fits, M
<1> QED
  BY <1>7, <1>8, <1>9

BalancedAt(s, acc) ==
  Balanced(PastOf(s, acc.last), CreatedDates(acc.created), acc.ignored,
           PutDates(s, acc.deferred), acc.forgotten)

Distinct(s) ==
  \A i, j \in 1..Len(s.deferred) :
    i # j => InstanceAfter(s, s.deferred[i]) # InstanceAfter(s, s.deferred[j])

BalancePart(s, k, acc) ==
  NoDate \notin acc.putOff =>
    /\ BalancedAt(s, acc) /\ Distinct(s)
    /\ \A j \in (k + 1)..Len(s.deferred) : \E p \in 1..Len(acc.deferred) :
         acc.deferred[p].last = s.deferred[j].last

LEMMA BalanceFacts ==
  ASSUME NEW s \in SxType, NEW acc \in EffectType, DeferredPart(s, acc), BalancedAt(s, acc)
  PROVE  /\ IsFiniteSet(acc.ignored) /\ IsFiniteSet(acc.forgotten)
         /\ CreatedDates(acc.created) \in Seq(Nat)
         /\ PutDates(s, acc.deferred) \in Seq(Nat)
         /\ Len(PutDates(s, acc.deferred)) = Len(acc.deferred)
         /\ \A p \in 1..Len(acc.deferred) :
              PutDates(s, acc.deferred)[p] = InstanceAfter(s, acc.deferred[p])
         /\ Within(s, acc.deferred, acc.last)
<1>1. acc.last \in 0..Horizon /\ acc.deferred \in Seq(Tsd) /\ acc.created \in Seq(Nat \X Int)
  BY DEF EffectType
<1>2. IsFiniteSet(PastOf(s, acc.last))
  BY <1>1, PastFinite
<1>3. acc.ignored \subseteq PastOf(s, acc.last) /\ acc.forgotten \subseteq PastOf(s, acc.last)
  BY DEF BalancedAt, Balanced
<1>4. IsFiniteSet(acc.ignored) /\ IsFiniteSet(acc.forgotten)
  BY <1>2, <1>3, FS_Subset
<1>5. Within(s, acc.deferred, acc.last)
  BY DEF Within, DeferredPart
<1> QED
  BY <1>1, <1>4, <1>5, CreatedDatesType, PutDatesType

\* A new occurrence is created, ignored or put off.
LEMMA BalanceNew ==
  ASSUME NEW s \in SxType, NEW acc \in EffectType, DeferredPart(s, acc), BalancedAt(s, acc),
         NEW i \in 1..Len(acc.insts), NEW r \in EffectType, IsEffect(acc, i, r),
         DeferredPart(s, r),
         acc.insts[i].state \in Effective, acc.insts[i].orig # "postponed",
         acc.insts[i].date = InstanceAfter(s, acc.insts[i].tsd),
         PastOf(s, r.last) = PastOf(s, acc.last) \cup {acc.insts[i].date},
         acc.insts[i].date \notin PastOf(s, acc.last)
  PROVE  BalancedAt(s, r)
<1> DEFINE inst == acc.insts[i]
           d == inst.date
           A == CreatedDates(acc.created)
           B == PutDates(s, acc.deferred)
           P == PastOf(s, acc.last)
<1>1. /\ IsFiniteSet(acc.ignored) /\ IsFiniteSet(acc.forgotten)
      /\ A \in Seq(Nat) /\ B \in Seq(Nat) /\ Within(s, acc.deferred, acc.last)
  BY BalanceFacts
<1>2. Balanced(P, A, acc.ignored, B, acc.forgotten) /\ d \notin P
  BY DEF BalancedAt
<1>3. inst \in Inst /\ d \in Nat /\ inst.tsd \in Tsd /\ inst.tsd.num \in Int
  <2>1. inst \in Inst
    BY DEF EffectType
  <2>2. d \in 1..Horizon /\ inst.tsd \in Tsd
    BY <2>1 DEF Inst
  <2> QED
    BY <2>1, <2>2, ScheduleBounds DEF Tsd
<1>4. ~Undeferred(inst)
  BY DEF Undeferred
<1>5. /\ r.deferred = IF inst.state = "postponed" THEN AddDeferred(acc.deferred, inst.tsd)
                      ELSE acc.deferred
      /\ r.created = IF inst.state = "to-create"
                     THEN Append(acc.created, <<inst.date, inst.tsd.num>>) ELSE acc.created
      /\ r.ignored = IF inst.state = "ignored" THEN acc.ignored \cup {d} ELSE acc.ignored
      /\ r.forgotten = acc.forgotten
  BY <1>4 DEF IsEffect
<1>6. acc.deferred \in Seq(Tsd) /\ r.deferred \in Seq(Tsd) /\ acc.created \in Seq(Nat \X Int)
  BY DEF EffectType
<1> HIDE DEF A, B, P, inst, d
<1>7. /\ \A A2 : IsWith(A, d, A2) => Balanced(P \cup {d}, A2, acc.ignored, B, acc.forgotten)
      /\ \A B2 : IsWith(B, d, B2) => Balanced(P \cup {d}, A, acc.ignored, B2, acc.forgotten)
      /\ Balanced(P \cup {d}, A, acc.ignored \cup {d}, B, acc.forgotten)
  BY <1>1, <1>2, BalanceAdd
<1>8. CASE inst.state = "postponed"
  <2>1. IsWith(acc.deferred, inst.tsd, r.deferred)
    BY <1>3, <1>5, <1>6, <1>8, AddFacts
  <2>2. Within(s, r.deferred, r.last)
    BY DEF Within, DeferredPart
  <2>3. IsWith(B, InstanceAfter(s, inst.tsd), PutDates(s, r.deferred))
    BY <1>1, <1>6, <2>1, <2>2, PutDatesWith DEF B
  <2>4. InstanceAfter(s, inst.tsd) = d
    BY DEF inst, d
  <2>5. Balanced(P \cup {d}, A, acc.ignored, PutDates(s, r.deferred), acc.forgotten)
    BY <1>7, <2>3, <2>4
  <2> QED
    BY <1>5, <1>8, <2>5 DEF BalancedAt, A, P, d, inst
<1>9. CASE inst.state = "to-create"
  <2> DEFINE x == <<d, inst.tsd.num>>
  <2>1. x \in Nat \X Int /\ x[1] = d
    BY <1>3
  <2>2. r.created = Append(acc.created, x)
    BY <1>5, <1>9 DEF d
  <2> HIDE DEF x
  <2>3. IsWith(A, d, CreatedDates(r.created))
    BY <1>6, <2>1, <2>2, CreatedDatesType DEF A
  <2>4. Balanced(P \cup {d}, CreatedDates(r.created), acc.ignored, B, acc.forgotten)
    BY <1>7, <2>3
  <2> QED
    BY <1>5, <1>9, <2>4 DEF BalancedAt, B, P, d, inst
<1>10. CASE inst.state = "ignored"
  BY <1>5, <1>7, <1>10 DEF BalancedAt, A, B, P, d, inst
<1> QED
  BY <1>8, <1>9, <1>10 DEF Effective, inst

\* One state with the date of this one was taken off the list.
Taken(list, tsd, result) ==
  \E p \in 1..Len(list) : IsCut(list, p, result) /\ list[p].last = tsd.last

\* One that was put off is created, ignored or forgotten, and no longer put off.
LEMMA BalanceUndeferred ==
  ASSUME NEW s \in SxType, NEW acc \in EffectType, DeferredPart(s, acc), BalancedAt(s, acc),
         NEW i \in 1..Len(acc.insts), NEW r \in EffectType, IsEffect(acc, i, r),
         DeferredPart(s, r), r.last = acc.last,
         Undeferred(acc.insts[i]), acc.insts[i].state # "created",
         acc.insts[i].date = InstanceAfter(s, acc.insts[i].tsd), NoDate \notin acc.putOff,
         NEW q \in 1..Len(acc.deferred), acc.deferred[q].last = acc.insts[i].tsd.last
  PROVE  BalancedAt(s, r) /\ Taken(acc.deferred, acc.insts[i].tsd, r.deferred)
<1> DEFINE inst == acc.insts[i]
           d == inst.date
           A == CreatedDates(acc.created)
           B == PutDates(s, acc.deferred)
           P == PastOf(s, acc.last)
           I == acc.ignored
           F == acc.forgotten
           L == acc.deferred
           M == r.deferred
<1>1. /\ IsFiniteSet(I) /\ IsFiniteSet(F)
      /\ A \in Seq(Nat) /\ B \in Seq(Nat) /\ Within(s, L, acc.last)
      /\ \A p \in 1..Len(L) : B[p] = InstanceAfter(s, L[p])
  BY BalanceFacts
<1>2. Balanced(P, A, I, B, F)
  BY DEF BalancedAt
<1>3. inst \in Inst /\ d \in Nat /\ d # NoDate /\ inst.tsd \in Tsd /\ inst.tsd.num \in Int
  <2>1. inst \in Inst
    BY DEF EffectType
  <2>2. d \in 1..Horizon /\ inst.tsd \in Tsd
    BY <2>1 DEF Inst
  <2>3. inst.tsd.num \in Int
    BY <2>2 DEF Tsd
  <2>4. d \in Nat /\ d # NoDate
    <3> HIDE DEF d
    <3> QED
      BY <2>2, ScheduleBounds
  <2> QED
    BY <2>1, <2>2, <2>3, <2>4
<1>4. /\ M = RemoveDeferred(L, inst.tsd)
      /\ r.created = IF inst.state = "to-create"
                     THEN Append(acc.created, <<inst.date, inst.tsd.num>>) ELSE acc.created
      /\ r.ignored = IF inst.state = "ignored" THEN I \cup {d} ELSE I
      /\ r.forgotten = IF inst.state = "reminder" THEN F \cup {d} ELSE F
  BY DEF IsEffect
<1>5. L \in Seq(Tsd) /\ M \in Seq(Tsd) /\ acc.created \in Seq(Nat \X Int)
  BY DEF EffectType
<1>6. inst.state \in {"ignored", "to-create", "reminder"}
  BY <1>3 DEF Undeferred, Inst, States
<1>7. \A p \in 1..Len(L) : L[p].last # NoDate /\ InstanceAfter(s, L[p]) # NoDate
  BY ScheduleBounds DEF DeferredPart
<1>8. L[q].last = inst.tsd.last /\ inst.date = InstanceAfter(s, inst.tsd)
  OBVIOUS
<1> HIDE DEF A, B, P, I, F, L, M, inst, d
<1>9. q \in 1..Len(L) /\ inst.tsd.last # NoDate
  BY <1>7, <1>8 DEF L
<1>10. PICK p \in 1..Len(L) : IsCut(L, p, M) /\ Alike(L[p], inst.tsd)
  <2>1. IsWithout(L, inst.tsd, M)
    BY <1>3, <1>4, <1>5, RemoveFacts
  <2>2. Alike(L[q], inst.tsd)
    BY <1>8 DEF Alike
  <2> QED
    BY <1>9, <2>1, <2>2 DEF IsWithout, IsCut
<1>11. L[p].last = inst.tsd.last
  BY <1>7, <1>9, <1>10 DEF Alike
<1>12. B[p] = d
  <2>1. InstanceAfter(s, L[p]) = NextDate(s, L[p].last)
    BY <1>7, AfterIsNext
  <2>2. InstanceAfter(s, inst.tsd) = NextDate(s, inst.tsd.last)
    BY <1>3, <1>8, AfterIsNext DEF d
  <2> QED
    BY <1>1, <1>8, <1>11, <2>1, <2>2 DEF d
<1>13. Within(s, M, r.last)
  BY DEF Within, DeferredPart, M
<1> DEFINE B2 == PutDates(s, M)
<1>14. B2 \in Seq(Nat) /\ IsCut(B, p, B2)
  <2>1. B2 \in Seq(Nat)
    BY <1>5, <1>13, PutDatesType
  <2>2. IsCut(B, p, B2)
    <3>1. Within(s, L, acc.last) /\ IsCut(L, p, M)
      BY <1>1, <1>10
    <3>2. IsCut(PutDates(s, L), p, PutDates(s, M))
      BY <1>5, <1>13, <3>1, PutDatesCut
    <3> QED
      BY <3>2 DEF B, L
  <2> QED
    BY <2>1, <2>2
<1> HIDE DEF B2
<1>15. d \in P /\ Balanced(P \ {d}, A, I, B2, F)
  BY <1>1, <1>2, <1>12, <1>14, BalanceCut
<1>16. /\ \A A2 : IsWith(A, d, A2) => Balanced((P \ {d}) \cup {d}, A2, I, B2, F)
       /\ Balanced((P \ {d}) \cup {d}, A, I \cup {d}, B2, F)
       /\ Balanced((P \ {d}) \cup {d}, A, I, B2, F \cup {d})
  <2> DEFINE Q == P \ {d}
  <2>1. d \notin Q
    OBVIOUS
  <2> HIDE DEF Q
  <2>2. Balanced(Q, A, I, B2, F)
    BY <1>15 DEF Q
  <2>3. /\ \A A2 : IsWith(A, d, A2) => Balanced(Q \cup {d}, A2, I, B2, F)
        /\ Balanced(Q \cup {d}, A, I \cup {d}, B2, F)
        /\ Balanced(Q \cup {d}, A, I, B2, F \cup {d})
    BY <1>1, <1>14, <2>1, <2>2, BalanceAdd
  <2> QED
    BY <2>3 DEF Q
<1>17. (P \ {d}) \cup {d} = P /\ PastOf(s, r.last) = P
  BY <1>15 DEF P
<1>18. CASE inst.state = "to-create"
  <2> DEFINE x == <<d, inst.tsd.num>>
  <2>1. x \in Nat \X Int /\ x[1] = d
    BY <1>3
  <2>2. r.created = Append(acc.created, x)
    BY <1>4, <1>18 DEF d
  <2> HIDE DEF x
  <2>3. IsWith(A, d, CreatedDates(r.created))
    BY <1>5, <2>1, <2>2, CreatedDatesType DEF A
  <2>4. Balanced(P, CreatedDates(r.created), I, B2, F)
    BY <1>16, <1>17, <2>3
  <2> QED
    BY <1>4, <1>10, <1>11, <1>17, <1>18, <2>4 DEF BalancedAt, Taken, B2, M, L, inst
<1>19. CASE inst.state = "ignored"
  <2>1. Balanced(P, A, r.ignored, B2, F)
    BY <1>4, <1>16, <1>17, <1>19
  <2> QED
    BY <1>4, <1>10, <1>11, <1>17, <1>19, <2>1 DEF BalancedAt, Taken, A, B2, M, L, inst
<1>20. CASE inst.state = "reminder"
  <2>1. Balanced(P, A, I, B2, r.forgotten)
    BY <1>4, <1>16, <1>17, <1>20
  <2> QED
    BY <1>4, <1>10, <1>11, <1>17, <1>20, <2>1 DEF BalancedAt, Taken, A, B2, M, L, inst
<1> QED
  BY <1>6, <1>18, <1>19, <1>20

LEMMA CutExists ==
  ASSUME NEW S, NEW list \in Seq(S), NEW p \in 1..Len(list)
  PROVE  \E result \in Seq(S) : IsCut(list, p, result)
<1> DEFINE n == Len(list)
           R == [i \in 1..(n - 1) |-> IF i < p THEN list[i] ELSE list[i + 1]]
<1>1. n \in Nat /\ n - 1 \in Nat /\ p \in 1..n /\ \A i \in 1..n : list[i] \in S
  OBVIOUS
<1> HIDE DEF n
<1>2. \A i \in 1..(n - 1) : i \in 1..n /\ i + 1 \in 1..n
  BY <1>1
<1>3. R \in [1..(n - 1) -> S]
  BY <1>1, <1>2
<1>4. \A i \in 1..(n - 1) : R[i] = IF i < p THEN list[i] ELSE list[i + 1]
  OBVIOUS
<1> HIDE DEF R
<1>5. R \in Seq(S) /\ Len(R) = n - 1
  BY <1>1, <1>3
<1>6. ASSUME NEW i \in 1..(p - 1)  PROVE R[i] = list[i]
  <2>1. i \in 1..(n - 1) /\ i < p
    BY <1>1
  <2> QED
    BY <1>4, <2>1
<1>7. ASSUME NEW i \in p..(n - 1)  PROVE R[i] = list[i + 1]
  <2>1. i \in 1..(n - 1) /\ ~(i < p)
    BY <1>1
  <2> QED
    BY <1>4, <2>1
<1>8. IsCut(list, p, R)
  BY <1>1, <1>5, <1>6, <1>7 DEF IsCut, n
<1> QED
  BY <1>5, <1>8

LEMMA BalanceDistinct ==
  ASSUME NEW s \in SxType, NEW acc \in EffectType, DeferredPart(s, acc), BalancedAt(s, acc),
         acc.deferred = s.deferred
  PROVE  Distinct(s)
<1> DEFINE A == CreatedDates(acc.created)
           B == PutDates(s, acc.deferred)
           P == PastOf(s, acc.last)
<1>1. /\ IsFiniteSet(acc.ignored) /\ IsFiniteSet(acc.forgotten)
      /\ A \in Seq(Nat) /\ B \in Seq(Nat) /\ Len(B) = Len(s.deferred)
      /\ \A p \in 1..Len(s.deferred) : B[p] = InstanceAfter(s, s.deferred[p])
  BY BalanceFacts
<1>2. Balanced(P, A, acc.ignored, B, acc.forgotten)
  BY DEF BalancedAt
<1> HIDE DEF A, B, P
<1>3. ASSUME NEW i \in 1..Len(s.deferred), NEW j \in 1..Len(s.deferred), i # j
      PROVE  B[i] # B[j]
  <2>1. PICK C \in Seq(Nat) : IsCut(B, i, C)
    BY <1>1, CutExists
  <2>2. /\ B[i] \in P /\ Balanced(P \ {B[i]}, A, acc.ignored, C, acc.forgotten)
        /\ B[i] \notin Elems(C)
    BY <1>1, <1>2, <2>1, BalanceCut
  <2>3. \E q \in 1..Len(C) : C[q] = B[j]
    <3>1. IsPart(B, i, C)
      BY <1>1, <2>1, ElemsCut
    <3> QED
      BY <1>1, <1>3, <3>1 DEF IsPart
  <2>4. B[j] \in Elems(C)
    BY <2>3 DEF Elems
  <2> QED
    BY <2>2, <2>4
<1> QED
  BY <1>1, <1>3 DEF Distinct

LEMMA BalanceStep ==
  ASSUME Regular, NEW s, SxInv(s), NEW ce, NEW insts, Shown(s, ce, insts),
         NEW k \in 0..(Len(insts) - 1), NEW acc \in EffectType, DeferredPart(s, acc),
         BalancePart(s, k, acc), Len(acc.insts) = Len(insts), acc.insts[k + 1] = insts[k + 1],
         NEW r \in EffectType, IsEffect(acc, k + 1, r), DeferredPart(s, r),
         acc.putOff \subseteq r.putOff,
         Advances(s, k + 1, insts[k + 1], acc, r)
  PROVE  BalancePart(s, k + 1, r)
<1> DEFINE i == k + 1
           n == Len(s.deferred)
           inst == insts[i]
<1>1. s \in SxType /\ s.deferred \in Seq(Tsd) /\ n \in Nat /\ insts \in Seq(Inst)
      /\ Len(insts) \in Nat /\ n <= Len(insts)
  BY DEF SxInv, SxType, Shown
<1>2. i \in 1..Len(insts) /\ i \in 1..Len(acc.insts) /\ i \in Nat
  BY <1>1
<1>3. inst \in Inst /\ inst.state \in States /\ inst.date = InstanceAfter(s, inst.tsd)
  <2>1. inst \in Inst
    BY <1>1, <1>2
  <2> QED
    BY <1>2, <2>1 DEF Inst, Shown
<1>4. /\ i <= n => inst.tsd = s.deferred[i] /\ inst.orig = "postponed" /\ inst.state # "created"
      /\ ~(i <= n) => inst.orig # "postponed"
  <2>1. i <= n => i \in 1..n
    BY <1>1, <1>2
  <2>2. ~(i <= n) => i \in (n + 1)..Len(insts)
    BY <1>1, <1>2
  <2> QED
    BY <2>1, <2>2 DEF Shown, IsPutOff
<1> SUFFICES ASSUME NoDate \notin r.putOff
             PROVE  /\ BalancedAt(s, r) /\ Distinct(s)
                    /\ \A j \in (i + 1)..n : \E p \in 1..Len(r.deferred) :
                         r.deferred[p].last = s.deferred[j].last
  BY DEF BalancePart
<1>5. /\ NoDate \notin acc.putOff /\ BalancedAt(s, acc) /\ Distinct(s)
      /\ \A j \in i..n : \E p \in 1..Len(acc.deferred) :
           acc.deferred[p].last = s.deferred[j].last
  BY DEF BalancePart
<1>6. acc.insts[i] = inst /\ IsEffect(acc, i, r)
  OBVIOUS
<1>7. /\ inst.state \in Effective /\ n < i =>
           /\ PastOf(s, r.last) = PastOf(s, acc.last) \cup {inst.date}
           /\ inst.date \notin PastOf(s, acc.last)
      /\ ~(inst.state \in Effective /\ n < i) => r.last = acc.last
  BY DEF Advances
<1>8. \A j \in (i + 1)..n : j \in i..n /\ j \in 1..n /\ j # i
  BY <1>1, <1>2
<1> HIDE DEF i, inst, n
<1>9. CASE i <= n /\ inst.state = "postponed"
  <2>1. ~Undeferred(inst) /\ ~(n < i) /\ inst.orig = "postponed"
    BY <1>1, <1>2, <1>4, <1>9 DEF Undeferred
  <2>2. /\ r.deferred = acc.deferred /\ r.created = acc.created /\ r.ignored = acc.ignored
        /\ r.forgotten = acc.forgotten
    BY <1>6, <1>9, <2>1 DEF IsEffect
  <2>3. r.last = acc.last
    BY <1>7, <2>1
  <2> QED
    BY <1>5, <1>8, <2>2, <2>3 DEF BalancedAt
<1>10. CASE i <= n /\ inst.state # "postponed"
  <2>1. Undeferred(inst) /\ ~(n < i) /\ i \in i..n /\ i \in 1..n
    BY <1>1, <1>2, <1>4, <1>10 DEF Undeferred
  <2>2. PICK q \in 1..Len(acc.deferred) : acc.deferred[q].last = s.deferred[i].last
    BY <1>5, <2>1
  <2>3. acc.deferred[q].last = inst.tsd.last
    BY <1>4, <1>10, <2>2
  <2>4. r.last = acc.last
    BY <1>7, <2>1
  <2>5. BalancedAt(s, r) /\ Taken(acc.deferred, inst.tsd, r.deferred)
    <3>1. /\ i \in 1..Len(acc.insts) /\ Undeferred(acc.insts[i]) /\ acc.insts[i].state # "created"
          /\ acc.insts[i].date = InstanceAfter(s, acc.insts[i].tsd)
          /\ acc.deferred[q].last = acc.insts[i].tsd.last
      BY <1>2, <1>3, <1>4, <1>6, <1>10, <2>1, <2>3
    <3>2. BalancedAt(s, r) /\ Taken(acc.deferred, acc.insts[i].tsd, r.deferred)
      BY <1>1, <1>5, <1>6, <2>4, <3>1, BalanceUndeferred
    <3> QED
      BY <1>6, <3>2
  <2>6. PICK p \in 1..Len(acc.deferred) :
          IsCut(acc.deferred, p, r.deferred) /\ acc.deferred[p].last = inst.tsd.last
    BY <2>5 DEF Taken
  <2>7. ASSUME NEW j \in (i + 1)..n
        PROVE  \E x \in 1..Len(r.deferred) : r.deferred[x].last = s.deferred[j].last
    <3>1. PICK y \in 1..Len(acc.deferred) : acc.deferred[y].last = s.deferred[j].last
      BY <1>5, <1>8
    <3>2. InstanceAfter(s, s.deferred[j]) # InstanceAfter(s, s.deferred[i])
      BY <1>5, <1>8, <2>1 DEF Distinct, n
    <3>3. InstanceAfter(s, s.deferred[j]) # NoDate /\ InstanceAfter(s, s.deferred[i]) # NoDate
      <4>1. j \in DOMAIN s.deferred /\ i \in DOMAIN s.deferred
        BY <1>1, <1>8, <2>1 DEF n
      <4>2. InstanceAfter(s, s.deferred[j]) \in 1..s.last /\ InstanceAfter(s, s.deferred[i]) \in 1..s.last
        BY <4>1 DEF SxInv
      <4> QED
        BY <4>2, ScheduleBounds
    <3>4. s.deferred[j].last # s.deferred[i].last
      BY <3>2, <3>3, AfterIsNext
    <3>5. y # p
      BY <1>4, <1>10, <2>6, <3>1, <3>4
    <3>6. acc.deferred \in Seq(Tsd)
      BY DEF EffectType
    <3>7. \E x \in 1..Len(r.deferred) : r.deferred[x] = acc.deferred[y]
      <4>1. IsPart(acc.deferred, p, r.deferred)
        BY <2>6, <3>6, ElemsCut
      <4> QED
        BY <3>5, <4>1 DEF IsPart
    <3> QED
      BY <3>1, <3>7
  <2> QED
    BY <1>5, <2>5, <2>7
<1>11. CASE ~(i <= n) /\ inst.state \in Effective
  <2>1. n < i /\ (i + 1)..n = {}
    BY <1>1, <1>2, <1>11
  <2>2. BalancedAt(s, r)
    BY <1>1, <1>2, <1>3, <1>4, <1>5, <1>6, <1>7, <1>11, <2>1, BalanceNew
  <2> QED
    BY <1>5, <2>1, <2>2
<1>12. CASE ~(i <= n) /\ inst.state \notin Effective
  <2>1. ~Undeferred(inst) /\ (i + 1)..n = {} /\ r.last = acc.last
    BY <1>1, <1>2, <1>4, <1>7, <1>12 DEF Undeferred
  <2>2. /\ r.deferred = acc.deferred /\ r.created = acc.created /\ r.ignored = acc.ignored
        /\ r.forgotten = acc.forgotten
    BY <1>6, <1>12, <2>1 DEF IsEffect, Effective
  <2> QED
    BY <1>5, <2>1, <2>2 DEF BalancedAt
<1> QED
  BY <1>9, <1>10, <1>11, <1>12

-----------------------------------------------------------------------------
(* The whole pass.                                                         *)

PastPart(s, m, k, acc) ==
  Cardinality(PastOf(s, acc.last)) =
    Cardinality(PastOf(s, s.last)) + (Reached(s, m, k) - Len(s.deferred))

LEMMA PastPartStep ==
  ASSUME Regular, NEW s, SxInv(s), NEW ce, NEW insts, Shown(s, ce, insts),
         NEW m, IsRun(s, insts, m), NEW k \in 0..(Len(insts) - 1),
         NEW acc \in EffectType, PastPart(s, m, k, acc),
         NEW r, Advances(s, k + 1, insts[k + 1], acc, r)
  PROVE  PastPart(s, m, k + 1, r)
<1> DEFINE i == k + 1
           n == Len(s.deferred)
           len == Len(insts)
           inst == insts[i]
           old == Cardinality(PastOf(s, acc.last))
           base == Cardinality(PastOf(s, s.last))
<1>1. s \in SxType /\ n \in Nat /\ len \in Nat /\ n <= len /\ i \in 1..len
      /\ s.last \in 0..Horizon /\ acc.last \in 0..Horizon
  <2>1. s \in SxType /\ insts \in Seq(Inst) /\ n <= len
    BY DEF SxInv, Shown
  <2>2. n \in Nat /\ s.last \in 0..Horizon
    BY <2>1 DEF SxType
  <2> QED
    BY <2>1, <2>2 DEF EffectType
<1>2. m \in n..len
  BY DEF IsRun
<1> HIDE DEF len
<1>3. /\ Reached(s, m, k) \in n..len
      /\ i <= n => Reached(s, m, i) = n /\ Reached(s, m, k) = n
      /\ n < i /\ i <= m => Reached(s, m, i) = i /\ Reached(s, m, k) = k
      /\ m < i /\ n < i => Reached(s, m, i) = Reached(s, m, k)
      /\ i <= n \/ (n < i /\ i <= m) \/ (n < i /\ m < i)
  BY <1>1, <1>2, ReachedStep DEF len
<1>4. n < i => (inst.state \in Effective <=> i <= m)
  <2> SUFFICES ASSUME n < i PROVE inst.state \in Effective <=> i <= m
    OBVIOUS
  <2>1. i \in (n + 1)..len
    BY <1>1
  <2> QED
    BY <2>1 DEF IsRun, len
<1>5. IsFiniteSet(PastOf(s, acc.last)) /\ old \in Nat /\ base \in Nat
  <2>1. IsFiniteSet(PastOf(s, acc.last)) /\ IsFiniteSet(PastOf(s, s.last))
    BY <1>1, PastFinite
  <2> QED
    BY <2>1, FS_CardinalityType
<1>6. old = base + (Reached(s, m, k) - n)
  BY DEF PastPart
<1> HIDE DEF old, base, i, n, inst
<1>7. CASE n < i /\ i <= m
  <2>1. PastOf(s, r.last) = PastOf(s, acc.last) \cup {inst.date}
        /\ inst.date \notin PastOf(s, acc.last)
    BY <1>4, <1>7 DEF Advances, i, n, inst
  <2>2. Cardinality(PastOf(s, r.last)) = old + 1
    BY <1>5, <2>1, FS_AddElement DEF old
  <2>3. old + 1 = base + (i - n)
    <3>1. Reached(s, m, k) = i - 1
      BY <1>1, <1>3, <1>7 DEF i
    <3>2. i \in Int
      BY <1>1
    <3> QED
      BY <1>1, <1>5, <1>6, <3>1, <3>2
  <2> QED
    BY <1>3, <1>7, <2>2, <2>3 DEF PastPart, i, n, base
<1>8. CASE i <= n \/ (n < i /\ m < i)
  <2>1. ~(inst.state \in Effective /\ n < i)
    BY <1>1, <1>2, <1>4, <1>8
  <2>2. r.last = acc.last
    BY <2>1 DEF Advances, i, n, inst
  <2>3. Reached(s, m, i) = Reached(s, m, k)
    BY <1>3, <1>8
  <2> QED
    BY <1>6, <2>2, <2>3 DEF PastPart, i, n, old, base
<1> QED
  BY <1>3, <1>7, <1>8

\* Automatic ones leave what was put off alone.
Quiet(insts) ==
  \A i \in 1..Len(insts) :
    ~Undeferred(insts[i]) /\ (insts[i].state = "postponed" => insts[i].orig = "postponed")
QuietPart(s, insts, acc) == Quiet(insts) => acc.deferred = s.deferred

PassInv(s, insts, m, k, acc) ==
  /\ acc \in EffectType /\ InstsPart(insts, k, acc) /\ CountPart(s, insts, m, k, acc)
  /\ DeferredPart(s, acc) /\ BalancePart(s, k, acc)
  /\ PastPart(s, m, k, acc) /\ QuietPart(s, insts, acc)

\* What a pass starts from.
Before(s, insts) ==
  [last |-> s.last, num |-> s.num, remain |-> s.remain,
   deferred |-> s.deferred, insts |-> insts, created |-> created,
   ignored |-> ignored, putOff |-> putOff, forgotten |-> forgotten]

HistoryType ==
  /\ created \in Seq(Nat \X Int) /\ ignored \in SUBSET Nat
  /\ putOff \in SUBSET Nat /\ forgotten \in SUBSET Nat

\* Each occurrence up to the last date is in one place.
Placement(s) ==
  /\ \A p \in 1..Len(s.deferred) : s.deferred[p].last \in putOff
  /\ NoDate \notin putOff =>
       Balanced(PastOf(s, s.last), CreatedDates(created), ignored,
                PutDates(s, s.deferred), forgotten)

IsPass(f, s, insts, N) ==
  f = [k \in 0..N |-> IF k = 0 THEN Before(s, insts) ELSE Effect(f[k - 1], k)]

LEMMA PassExists ==
  ASSUME NEW s, NEW insts, NEW N \in Nat
  PROVE  \E f : IsPass(f, s, insts, N)
<1> DEFINE first == Before(s, insts)
           S == {n \in Nat : \E f : IsPass(f, s, insts, n)}
<1>1. 0 \in S
  <2> DEFINE f == [n \in 0..0 |-> first]
  <2>1. IsPass(f, s, insts, 0)
    BY DEF IsPass
  <2> QED
    BY <2>1
<1>2. ASSUME NEW m \in 0..(N - 1), m \in S
      PROVE  m + 1 \in S
  <2>1. PICK f : IsPass(f, s, insts, m)
    BY <1>2
  <2> HIDE DEF first
  <2> DEFINE g == [n \in 0..(m + 1) |-> IF n = 0 THEN first ELSE Effect(f[n - 1], n)]
  <2>2. ASSUME NEW n \in 0..(m + 1), n # 0
        PROVE  g[n - 1] = f[n - 1]
    <3>1. n - 1 \in 0..m /\ n - 1 \in 0..(m + 1)
      BY <2>2
    <3> DEFINE i == n - 1
    <3> HIDE DEF i
    <3>2. g[i] = IF i = 0 THEN first ELSE Effect(f[i - 1], i)
      BY <3>1 DEF i
    <3>3. f[i] = IF i = 0 THEN first ELSE Effect(f[i - 1], i)
      BY <2>1, <3>1 DEF IsPass, i, first
    <3> QED
      BY <3>2, <3>3 DEF i
  <2>3. IsPass(g, s, insts, m + 1)
    BY <2>2 DEF IsPass, first
  <2> QED
    BY <2>3
<1>3. \A n \in 0..N : n \in S
  <2> HIDE DEF S
  <2> QED
    BY <1>1, <1>2, UpTo
<1> QED
  BY <1>3

LEMMA PassStep ==
  ASSUME Regular, NEW s, SxInv(s), NEW ce, NEW insts, Shown(s, ce, insts),
         NEW m, IsRun(s, insts, m), NEW k \in 0..(Len(insts) - 1),
         NEW acc, PassInv(s, insts, m, k, acc)
  PROVE  PassInv(s, insts, m, k + 1, Effect(acc, k + 1))
<1> DEFINE i == k + 1
           r == Effect(acc, i)
<1>1. acc \in EffectType /\ Len(acc.insts) = Len(insts) /\ insts \in Seq(Inst)
      /\ s \in SxType /\ RemindersEnd(insts)
  BY DEF PassInv, InstsPart, Shown, SxInv
<1>2. i \in 1..Len(insts) /\ i \in 1..Len(acc.insts)
  BY <1>1
<1>3. r \in EffectType /\ IsEffect(acc, i, r)
  BY <1>1, <1>2, EffectFields
<1>4. InstsPart(insts, k, acc) /\ CountPart(s, insts, m, k, acc) /\ DeferredPart(s, acc)
      /\ BalancePart(s, k, acc)
  BY DEF PassInv
<1> HIDE DEF r
<1>5. acc.insts[i] = insts[i] /\ InstsPart(insts, i, r)
  BY <1>1, <1>3, <1>4, InstsStep
<1>6. CountPart(s, insts, m, i, r) /\ Advances(s, i, insts[i], acc, r)
  BY <1>1, <1>3, <1>4, <1>5, CountStep
<1>7. DeferredPart(s, r) /\ acc.putOff \subseteq r.putOff
  BY <1>1, <1>2, <1>3, <1>4, <1>5, <1>6, DeferredStep
<1>8. BalancePart(s, i, r)
  BY <1>1, <1>3, <1>4, <1>5, <1>6, <1>7, BalanceStep
<1>9. PastPart(s, m, i, r)
  <2>1. PastPart(s, m, k, acc)
    BY DEF PassInv
  <2> QED
    BY <1>1, <1>6, <2>1, PastPartStep
<1>10. QuietPart(s, insts, r)
  <2> SUFFICES ASSUME Quiet(insts) PROVE r.deferred = s.deferred
    BY DEF QuietPart
  <2>1. acc.deferred = s.deferred
    BY DEF PassInv, QuietPart
  <2>2. ~Undeferred(insts[i]) /\ (insts[i].state = "postponed" => insts[i].orig = "postponed")
    BY <1>2 DEF Quiet
  <2> QED
    BY <1>3, <1>5, <2>1, <2>2 DEF IsEffect
<1> QED
  BY <1>3, <1>5, <1>6, <1>7, <1>8, <1>9, <1>10 DEF PassInv, r

LEMMA PassStart ==
  ASSUME Regular, NEW s, SxInv(s), NEW ce, NEW insts, Shown(s, ce, insts),
         NEW m, IsRun(s, insts, m), HistoryType, Placement(s)
  PROVE  PassInv(s, insts, m, 0, Before(s, insts))
<1> DEFINE acc == Before(s, insts)
           n == Len(s.deferred)
<1>1. /\ s \in SxType /\ s.last \in 0..Horizon /\ s.num \in Int /\ s.remain \in Nat
      /\ s.deferred \in Seq(Tsd) /\ insts \in Seq(Inst) /\ n \in Nat /\ Len(insts) \in Nat
  BY DEF SxInv, SxType, Shown
<1>2. /\ acc.last = s.last /\ acc.num = s.num /\ acc.remain = s.remain
      /\ acc.deferred = s.deferred /\ acc.insts = insts /\ acc.created = created
      /\ acc.ignored = ignored /\ acc.putOff = putOff /\ acc.forgotten = forgotten
  BY DEF Before
<1>3. acc \in EffectType
  BY <1>1 DEF Before, EffectType, HistoryType
<1> HIDE DEF acc, n
<1>4. InstsPart(insts, 0, acc)
  <2>1. \A j \in 1..Len(insts) : ~(j <= 0)
    BY <1>1
  <2> QED
    BY <1>2, <2>1 DEF InstsPart
<1>5. CountPart(s, insts, m, 0, acc)
  <2>1. Reached(s, m, 0) = n
    BY <1>1 DEF Reached, n
  <2>2. s.total = 0 => s.remain = 0
    BY DEF SxInv
  <2>3. s.remain + (n - n) <= s.remain
    BY <1>1
  <2> QED
    BY <1>2, <2>1, <2>2, <2>3 DEF CountPart, LastAt, n
<1>6. DeferredPart(s, acc)
  <2>1. DOMAIN s.deferred = 1..n
    BY <1>1 DEF n
  <2> QED
    BY <1>2, <2>1 DEF DeferredPart, SxInv, Placement, n
<1>7. BalancePart(s, 0, acc)
  <2> SUFFICES ASSUME NoDate \notin putOff
               PROVE  /\ BalancedAt(s, acc) /\ Distinct(s)
                      /\ \A j \in (0 + 1)..n : \E p \in 1..Len(acc.deferred) :
                           acc.deferred[p].last = s.deferred[j].last
    BY <1>2 DEF BalancePart, n
  <2>1. BalancedAt(s, acc)
    BY <1>2 DEF BalancedAt, Placement
  <2>2. Distinct(s)
    BY <1>1, <1>2, <1>3, <1>6, <2>1, BalanceDistinct
  <2>3. \A j \in (0 + 1)..n : j \in 1..n /\ acc.deferred[j].last = s.deferred[j].last
    BY <1>1, <1>2
  <2> QED
    BY <1>2, <2>1, <2>2, <2>3 DEF n
<1>8. PastPart(s, m, 0, acc)
  <2>1. Reached(s, m, 0) = n
    BY <1>1 DEF Reached, n
  <2>2. Cardinality(PastOf(s, s.last)) \in Nat
    BY <1>1, PastFinite, FS_CardinalityType
  <2> DEFINE c == Cardinality(PastOf(s, s.last))
  <2>3. c = c + (n - n)
    <3> HIDE DEF c
    <3> QED
      BY <1>1, <2>2 DEF c
  <2> QED
    BY <1>2, <2>1, <2>3 DEF PastPart, n
<1>9. QuietPart(s, insts, acc)
  BY <1>2 DEF QuietPart
<1> QED
  BY <1>3, <1>4, <1>5, <1>6, <1>7, <1>8, <1>9 DEF PassInv, acc

\* Each round of the pass keeps PassInv.
IsPassOf(f, s, insts, m) ==
  /\ f[0] = Before(s, insts) /\ f[Len(insts)] = EffectChange(s, insts)
  /\ \A k \in 0..(Len(insts) - 1) : f[k + 1] = Effect(f[k], k + 1)
  /\ \A k \in 0..Len(insts) : PassInv(s, insts, m, k, f[k])

LEMMA PassStates ==
  ASSUME Regular, NEW s, SxInv(s), NEW ce, NEW insts, Shown(s, ce, insts),
         NEW m, IsRun(s, insts, m), HistoryType, Placement(s)
  PROVE  \E f : IsPassOf(f, s, insts, m)
<1> DEFINE N == Len(insts)
           f == CHOOSE f : IsPass(f, s, insts, N)
<1>1. N \in Nat
  BY DEF Shown
<1>2. IsPass(f, s, insts, N)
  BY <1>1, PassExists
<1>3. EffectChange(s, insts) = f[N]
  BY DEF EffectChange, IsPass, Before
<1> HIDE DEF f
<1>4. f[0] = Before(s, insts) /\ \A k \in 0..(N - 1) : f[k + 1] = Effect(f[k], k + 1)
  <2>1. f[0] = Before(s, insts)
    BY <1>1, <1>2 DEF IsPass
  <2>2. ASSUME NEW k \in 0..(N - 1)  PROVE f[k + 1] = Effect(f[k], k + 1)
    <3>1. k + 1 \in 0..N /\ k + 1 # 0 /\ (k + 1) - 1 = k
      BY <1>1
    <3> HIDE DEF N
    <3>2. f[k + 1] = Effect(f[(k + 1) - 1], k + 1)
      BY <1>2, <3>1 DEF IsPass
    <3> QED
      BY <3>1, <3>2
  <2> QED
    BY <2>1, <2>2
<1> DEFINE S == {k \in 0..N : PassInv(s, insts, m, k, f[k])}
<1>5. 0 \in S
  BY <1>1, <1>4, PassStart
<1>6. ASSUME NEW k \in 0..(N - 1), k \in S
      PROVE  k + 1 \in S
  <2>1. PassInv(s, insts, m, k, f[k]) /\ f[k + 1] = Effect(f[k], k + 1) /\ k + 1 \in 0..N
    BY <1>1, <1>4, <1>6
  <2>2. PassInv(s, insts, m, k + 1, Effect(f[k], k + 1))
    BY <2>1, PassStep
  <2> QED
    BY <2>1, <2>2
<1>7. \A k \in 0..N : k \in S
  <2> HIDE DEF S, N
  <2> QED
    BY <1>1, <1>5, <1>6, UpTo
<1>8. IsPassOf(f, s, insts, m)
  BY <1>3, <1>4, <1>7 DEF IsPassOf
<1> QED
  BY <1>8

LEMMA PassFacts ==
  ASSUME Regular, NEW s, SxInv(s), NEW ce, NEW insts, Shown(s, ce, insts),
         NEW m, IsRun(s, insts, m), HistoryType, Placement(s)
  PROVE  PassInv(s, insts, m, Len(insts), EffectChange(s, insts))
<1>1. PICK f : IsPassOf(f, s, insts, m)
  BY PassStates
<1>2. Len(insts) \in 0..Len(insts)
  BY DEF Shown
<1> QED
  BY <1>1, <1>2 DEF IsPassOf

-----------------------------------------------------------------------------
(* The schedule after a pass.                                              *)

After(s, acc) ==
  [s EXCEPT !.last = acc.last, !.num = acc.num, !.remain = acc.remain,
            !.deferred = acc.deferred]

SameRule(s, r) ==
  s.schedule = r.schedule /\ s.start = r.start /\ s.end = r.end /\ s.total = r.total

LEMMA RuleFacts ==
  ASSUME NEW s, NEW r, SameRule(s, r)
  PROVE  /\ \A tsd : InstanceAfter(r, tsd) = InstanceAfter(s, tsd)
         /\ \A tsd : Placed(r, tsd) <=> Placed(s, tsd)
         /\ \A last : PastOf(r, last) = PastOf(s, last)
         /\ \A last : NextDate(r, last) = NextDate(s, last)
         /\ \A list : PutDates(r, list) = PutDates(s, list)
<1>1. /\ s.schedule = r.schedule /\ s.start = r.start /\ s.end = r.end /\ s.total = r.total
  BY DEF SameRule
<1>2. ASSUME NEW tsd  PROVE InstanceAfter(r, tsd) = InstanceAfter(s, tsd)
  BY <1>1, AfterSame
<1>3. \A tsd : Placed(r, tsd) <=> Placed(s, tsd)
  BY <1>1 DEF Placed
<1>4. \A last : PastOf(r, last) = PastOf(s, last)
  BY <1>1 DEF PastOf
<1>5. \A last : NextDate(r, last) = NextDate(s, last)
  BY <1>1 DEF NextDate
<1>6. \A list : PutDates(r, list) = PutDates(s, list)
  BY <1>2 DEF PutDates
<1> QED
  BY <1>2, <1>3, <1>4, <1>5, <1>6

LEMMA AfterFields ==
  ASSUME NEW s \in SxType, NEW acc \in EffectType
  PROVE  /\ After(s, acc) \in SxType /\ SameRule(s, After(s, acc))
         /\ After(s, acc).last = acc.last /\ After(s, acc).remain = acc.remain
         /\ After(s, acc).num = acc.num /\ After(s, acc).deferred = acc.deferred
         /\ After(s, acc).enabled = s.enabled
<1>1. /\ acc.last \in 0..Horizon /\ acc.num \in Int /\ acc.remain \in Nat /\ acc.deferred \in Seq(Tsd)
  BY DEF EffectType
<1>2. After(s, acc) \in SxType
  BY <1>1 DEF After, SxType
<1>3. /\ After(s, acc).schedule = s.schedule /\ After(s, acc).start = s.start
      /\ After(s, acc).end = s.end /\ After(s, acc).total = s.total
      /\ After(s, acc).enabled = s.enabled
  BY DEF After, SxType
<1>4. /\ After(s, acc).last = acc.last /\ After(s, acc).remain = acc.remain
      /\ After(s, acc).num = acc.num /\ After(s, acc).deferred = acc.deferred
  BY DEF After, SxType
<1> QED
  BY <1>2, <1>3, <1>4 DEF SameRule

\* Never more occurrences than the schedule was given.
Limited(s) == s.total # 0 => Cardinality(PastOf(s, s.last)) + s.remain <= s.total

LEMMA ReachedLast ==
  ASSUME NEW s \in SxType, NEW ce, NEW insts, Shown(s, ce, insts), NEW m, IsRun(s, insts, m)
  PROVE  Reached(s, m, Len(insts)) = m
<1>1. insts \in Seq(Inst) /\ s.deferred \in Seq(Tsd) /\ m \in Len(s.deferred)..Len(insts)
  BY DEF Shown, SxType, IsRun
<1>2. Len(insts) \in Nat /\ Len(s.deferred) \in Nat
  BY <1>1
<1> QED
  BY <1>1, <1>2 DEF Reached

LEMMA AfterPass ==
  ASSUME Regular, NEW s, SxInv(s), NEW ce, NEW insts, Shown(s, ce, insts),
         NEW m, IsRun(s, insts, m), NEW acc, PassInv(s, insts, m, Len(insts), acc)
  PROVE  SxInv(After(s, acc)) /\ (Limited(s) => Limited(After(s, acc)))
<1> DEFINE r == After(s, acc)
           n == Len(s.deferred)
<1>1. s \in SxType /\ acc \in EffectType /\ acc.last \in 0..Horizon /\ acc.remain \in Nat
      /\ s.last \in 0..Horizon /\ s.remain \in Nat /\ n \in Nat /\ s.total \in Nat
  <2>1. s \in SxType /\ acc \in EffectType
    BY DEF SxInv, PassInv
  <2> QED
    <3>1. /\ acc.last \in 0..Horizon /\ acc.remain \in Nat
          /\ s.last \in 0..Horizon /\ s.remain \in Nat /\ n \in Nat /\ s.total \in Totals
      BY <2>1 DEF SxType, EffectType
    <3> HIDE DEF n
    <3> QED
      BY <2>1, <3>1, ScheduleBounds
<1>2. /\ r \in SxType /\ SameRule(s, r) /\ r.last = acc.last /\ r.remain = acc.remain
      /\ r.num = acc.num /\ r.deferred = acc.deferred
  BY <1>1, AfterFields
<1>3. /\ \A tsd : InstanceAfter(r, tsd) = InstanceAfter(s, tsd)
      /\ \A tsd : Placed(r, tsd) <=> Placed(s, tsd)
      /\ PastOf(r, acc.last) = PastOf(s, acc.last)
  BY <1>2, RuleFacts
<1>4. r.total = s.total /\ r.end = s.end /\ r.start = s.start
  BY <1>2 DEF SameRule
<1>5. CountPart(s, insts, m, Len(insts), acc) /\ DeferredPart(s, acc)
      /\ PastPart(s, m, Len(insts), acc) /\ Reached(s, m, Len(insts)) = m
  BY <1>1, ReachedLast DEF PassInv
<1>6. /\ acc.last = LastAt(s, insts, m)
      /\ s.total # 0 => acc.remain + (m - n) <= s.remain
      /\ s.total = 0 => acc.remain = 0
      /\ Cardinality(PastOf(s, acc.last)) = Cardinality(PastOf(s, s.last)) + (m - n)
  BY <1>5 DEF CountPart, PastPart
<1>7. m \in n..Len(insts)
  BY DEF IsRun
<1> HIDE DEF r, n
<1>8. Placed(r, TemporalState(r))
  <2>1. acc.last = NoDate \/ s.start <= acc.last
    BY <1>6, <1>7, LastAtPlaced DEF n
  <2>2. TemporalState(r).last = acc.last
    BY <1>2, TemporalFacts
  <2> QED
    BY <1>4, <2>1, <2>2 DEF Placed
<1>9. r.end # NoDate => r.last <= r.end
  <2> SUFFICES ASSUME s.end # NoDate PROVE acc.last <= s.end
    BY <1>2, <1>4
  <2>1. CASE m = n
    BY <1>6, <2>1 DEF LastAt, SxInv, n
  <2>2. CASE m # n
    <3>1. m \in (n + 1)..m
      BY <1>1, <1>7, <2>2
    <3>2. insts[m].date <= s.end
      BY <3>1 DEF IsRun, n
    <3> QED
      BY <1>6, <2>2, <3>2 DEF LastAt, n
  <2> QED
    BY <2>1, <2>2
<1>10. \A i \in DOMAIN r.deferred :
         Placed(r, r.deferred[i]) /\ InstanceAfter(r, r.deferred[i]) \in 1..r.last
  <2>1. DOMAIN r.deferred = 1..Len(acc.deferred)
    BY <1>1, <1>2 DEF EffectType
  <2> QED
    BY <1>2, <1>3, <1>5, <2>1 DEF DeferredPart
<1>11. r.total = 0 \/ r.end = NoDate
  BY <1>4 DEF SxInv
<1>12. SxInv(r)
  BY <1>2, <1>4, <1>6, <1>8, <1>9, <1>10, <1>11 DEF SxInv
<1>13. Limited(s) => Limited(r)
  <2> SUFFICES ASSUME Limited(s), s.total # 0
               PROVE  Cardinality(PastOf(s, acc.last)) + acc.remain <= s.total
    BY <1>2, <1>3, <1>4 DEF Limited
  <2> DEFINE c == Cardinality(PastOf(s, s.last))
             d == Cardinality(PastOf(s, acc.last))
  <2>1. c \in Nat /\ d \in Nat
    BY <1>1, PastFinite, FS_CardinalityType
  <2>2. c + s.remain <= s.total /\ d = c + (m - n) /\ acc.remain + (m - n) <= s.remain
    BY <1>6 DEF Limited
  <2> DEFINE a == acc.remain  b == s.remain  e == s.total
  <2>3. /\ a \in Int /\ b \in Int /\ e \in Int /\ m \in Int /\ n \in Int
        /\ c + b <= e /\ d = c + (m - n) /\ a + (m - n) <= b
    <3>1. acc.remain \in Int /\ s.remain \in Int
      BY <1>1 DEF EffectType, SxType
    <3>2. s.total \in Int
      BY <1>1, ScheduleBounds DEF SxType
    <3> QED
      BY <1>1, <1>7, <2>2, <3>1, <3>2
  <2> HIDE DEF a, b, c, d, e
  <2>4. d + a <= e
    BY <2>1, <2>3
  <2> QED
    BY <2>4 DEF a, d, e
<1> QED
  BY <1>12, <1>13 DEF r

-----------------------------------------------------------------------------
(* What the dialog shows is a run.                                         *)

LEMMA MadeNext ==
  ASSUME Regular, NEW s, SxInv(s), NEW ce, NEW G, Generated(s, ce, G),
         NEW i \in (Len(s.deferred) + 1)..Len(G)
  PROVE  /\ G[i].date = NextDate(s, LastAt(s, G, i - 1))
         /\ s.end # NoDate => G[i].date <= s.end
         /\ s.total # 0 => s.remain # (i - 1) - Len(s.deferred)
<1>1. IsMade(s, ce, G[i]) /\ StateAt(s, G, i - 1, G[i].tsd)
  BY DEF Generated
<1>2. G[i] \in Inst
  <2>1. G \in Seq(Inst) /\ s.deferred \in Seq(Tsd)
    BY DEF Generated, SxInv, SxType
  <2>2. i \in 1..Len(G)
    BY <2>1
  <2> QED
    BY <2>1, <2>2
<1>3. G[i].date \in 1..Horizon
  BY <1>2 DEF Inst
<1>4. G[i].date = InstanceAfter(s, G[i].tsd) /\ G[i].date # NoDate
  BY <1>1, <1>3, ScheduleBounds DEF IsMade
<1>5. /\ G[i].date = NextDate(s, G[i].tsd.last)
      /\ s.end # NoDate => G[i].date <= s.end
      /\ s.end = NoDate /\ s.total # 0 => G[i].tsd.remain # 0
  BY <1>4, AfterIsNext
<1>6. s.total = 0 \/ s.end = NoDate
  BY DEF SxInv
<1>7. s.total # 0 => G[i].tsd.remain = s.remain - ((i - 1) - Len(s.deferred))
  BY <1>1 DEF StateAt
<1>8. s.remain \in Nat /\ i - 1 \in Int /\ Len(s.deferred) \in Nat
  <2>1. s \in SxType
    BY DEF SxInv
  <2> QED
    BY <2>1 DEF SxType
<1>9. s.total # 0 => s.remain # (i - 1) - Len(s.deferred)
  <2> SUFFICES ASSUME s.total # 0, s.remain = (i - 1) - Len(s.deferred) PROVE FALSE
    OBVIOUS
  <2> DEFINE a == s.remain  b == (i - 1) - Len(s.deferred)
  <2>1. G[i].tsd.remain = a - b /\ G[i].tsd.remain # 0
    BY <1>5, <1>6, <1>7
  <2>2. a = b /\ a \in Int
    BY <1>8
  <2> HIDE DEF a, b
  <2> QED
    BY <2>1, <2>2
<1> QED
  BY <1>1, <1>5, <1>9 DEF StateAt

LEMMA CurrentRun ==
  ASSUME Regular, NEW s, SxInv(s), NEW ce, NEW insts, Shown(s, ce, insts),
         NEW G, Generated(s, ce, G), Current(insts, G)
  PROVE  \E m : IsRun(s, insts, m)
<1> DEFINE n == Len(s.deferred)
           N == Len(insts)
           T == {i \in n..N : i = n \/ insts[i].state \in Effective}
           m == Max(T)
<1>1. n \in Nat /\ N \in Nat /\ n <= N /\ insts \in Seq(Inst) /\ Len(G) = N /\ s.remain \in Nat
  <2>1. s \in SxType /\ insts \in Seq(Inst) /\ n <= N /\ Len(G) = N
    BY DEF SxInv, Shown, Current
  <2> QED
    BY <2>1 DEF SxType
<1> HIDE DEF N
<1>2. m \in T /\ \A x \in T : x <= m
  <2>1. n \in T /\ T \in SUBSET (0..N)
    BY <1>1
  <2> HIDE DEF T
  <2> QED
    BY <1>1, <2>1, MaxIsGreatest
<1>3. m \in n..N /\ (m # n => insts[m].state \in Effective)
  BY <1>2
<1>4. ASSUME NEW i \in (n + 1)..N  PROVE insts[i].state \in Effective <=> i <= m
  <2>1. i \in n..N /\ i \in 1..N /\ i # n
    BY <1>1
  <2>2. insts[i].state \in Effective => i <= m
    BY <1>2, <2>1
  <2>3. ASSUME i <= m, insts[i].state \notin Effective  PROVE FALSE
    <3>1. insts[i] \in Inst /\ insts[i].state # "created"
      BY <1>1, <2>1 DEF Current, N
    <3>2. insts[i].state = "reminder"
      BY <2>3, <3>1 DEF Inst, States, Effective
    <3>3. m # n /\ m \in 1..N /\ i # m /\ i < m
      BY <1>1, <1>3, <2>1, <2>3
    <3>4. insts[m].state = "reminder"
      BY <2>1, <3>2, <3>3 DEF Shown, RemindersEnd, N
    <3> QED
      BY <1>3, <3>3, <3>4 DEF Effective
  <2> QED
    BY <2>2, <2>3
<1> HIDE DEF T, m
<1>5. \A i \in 1..N : insts[i].date = G[i].date
  BY <1>1 DEF Current, N
<1>6. ASSUME NEW i \in (n + 1)..N
      PROVE  /\ insts[i].date = NextDate(s, LastAt(s, insts, i - 1))
             /\ s.end # NoDate => insts[i].date <= s.end
             /\ s.total # 0 => s.remain # (i - 1) - n
  <2>1. i \in 1..N /\ i \in (n + 1)..Len(G)
    BY <1>1
  <2>2. i - 1 # n => i - 1 \in 1..N
    BY <1>1
  <2>3. LastAt(s, insts, i - 1) = LastAt(s, G, i - 1)
    BY <1>5, <2>2 DEF LastAt, n
  <2>4. /\ G[i].date = NextDate(s, LastAt(s, G, i - 1))
        /\ s.end # NoDate => G[i].date <= s.end
        /\ s.total # 0 => s.remain # (i - 1) - n
    BY <2>1, MadeNext DEF n
  <2> QED
    BY <1>5, <2>1, <2>3, <2>4
<1>7. s.total # 0 => m - n <= s.remain
  <2> SUFFICES ASSUME s.total # 0, ~(m - n <= s.remain)  PROVE FALSE
    OBVIOUS
  <2> DEFINE i == n + s.remain + 1
  <2>1. i \in (n + 1)..N /\ (i - 1) - n = s.remain
    BY <1>1, <1>3
  <2> HIDE DEF i
  <2> QED
    BY <1>6, <2>1
<1>8. \A i \in (n + 1)..m : i \in (n + 1)..N
  BY <1>1, <1>3
<1>9. \A i \in (n + 1)..m :
        /\ insts[i].date = NextDate(s, LastAt(s, insts, i - 1))
        /\ s.end # NoDate => insts[i].date <= s.end
  BY <1>6, <1>8
<1>10. IsRun(s, insts, m)
  BY <1>3, <1>4, <1>7, <1>9 DEF IsRun, n, N
<1> QED
  BY <1>10

LEMMA BehindRun ==
  ASSUME NEW s, SxInv(s), NEW ce, NEW insts, Shown(s, ce, insts),
         NEW G, Behind(s, insts, G)
  PROVE  IsRun(s, insts, Len(s.deferred))
<1> DEFINE n == Len(s.deferred)
<1>1. n \in Nat /\ insts \in Seq(Inst) /\ n <= Len(insts) /\ Len(insts) \in Nat /\ s.remain \in Nat
  <2>1. s \in SxType /\ insts \in Seq(Inst) /\ n <= Len(insts)
    BY DEF SxInv, Shown
  <2> QED
    BY <2>1 DEF SxType
<1>2. n \in n..Len(insts) /\ (n + 1)..n = {} /\ n - n <= s.remain
  BY <1>1
<1>3. ASSUME NEW i \in (n + 1)..Len(insts)
      PROVE  insts[i].state \notin Effective /\ ~(i <= n)
  BY <1>1 DEF Behind, Effective
<1> QED
  BY <1>2, <1>3 DEF IsRun

\* Once all there was to create has been created, only reminders are found.
LEMMA OnlyRemindersLeft ==
  ASSUME Regular, NEW s, SxInv(s), NEW ce \in Nat, NEW G, Generated(s, ce, G),
         NEW m, IsRun(s, G, m), NEW acc, PassInv(s, G, m, Len(G), acc),
         NEW H, Generated(After(s, acc), ce, H)
  PROVE  OnlyReminders(After(s, acc), H)
<1> DEFINE r == After(s, acc)
           k == Len(r.deferred)
           n == Len(s.deferred)
           N == Len(G)
<1>1. s \in SxType /\ acc \in EffectType
  BY DEF SxInv, PassInv
<1>2. /\ r \in SxType /\ SameRule(s, r) /\ r.last = acc.last /\ r.remain = acc.remain
  BY <1>1, AfterFields
<1>3. r.end = s.end /\ r.total = s.total
  BY <1>2 DEF SameRule
<1>4. /\ \A tsd : InstanceAfter(r, tsd) = InstanceAfter(s, tsd)
      /\ \A last : NextDate(r, last) = NextDate(s, last)
  BY <1>2, RuleFacts
<1>5. /\ G \in Seq(Inst) /\ n \in Nat /\ N \in Nat /\ m \in n..N /\ acc.remain \in Nat
      /\ s.remain \in Nat
  <2>1. G \in Seq(Inst) /\ m \in n..N
    BY DEF Generated, IsRun
  <2>2. acc.remain \in Nat
    BY <1>1 DEF EffectType
  <2>3. s.remain \in Nat /\ s.deferred \in Seq(Tsd)
    BY <1>1 DEF SxType
  <2> QED
    BY <2>1, <2>2, <2>3
<1>6. H \in Seq(Inst) /\ k \in Nat /\ Len(H) \in Nat /\ AdvanceRemind \in Nat
  <2>1. H \in Seq(Inst)
    BY DEF Generated
  <2> QED
    BY <1>2, <2>1, ScheduleBounds DEF SxType
<1>7. /\ acc.last = LastAt(s, G, m)
      /\ s.total # 0 => acc.remain + (m - n) <= s.remain
  <2> DEFINE R == Reached(s, m, N)
  <2>1. R = m
    <3>1. N >= n
      BY <1>5
    <3> QED
      BY <1>5, <3>1 DEF Reached
  <2>2. CountPart(s, G, m, N, acc)
    BY DEF PassInv
  <2> QED
    BY <2>1, <2>2 DEF CountPart
<1>8. Generated(r, ce, H) /\ Generated(s, ce, G) /\ IsRun(s, G, m)
  OBVIOUS
<1> HIDE DEF r, k, n, N
<1> SUFFICES ASSUME NEW i \in (k + 1)..Len(H)  PROVE H[i].state = "reminder"
  BY DEF OnlyReminders, r, k
<1> DEFINE j == k + 1
           d == H[j].date
<1>9. j \in (k + 1)..Len(H) /\ i \in (k + 1)..Len(H) /\ (j < i \/ j = i)
      /\ j \in 1..Len(H) /\ i \in 1..Len(H) /\ j - 1 = k
  BY <1>6
<1>10. /\ IsMade(r, ce, H[j]) /\ StateAt(r, H, j - 1, H[j].tsd) /\ IsMade(r, ce, H[i])
       /\ (j < i => d < H[i].date)
  BY <1>8, <1>9 DEF Generated, k
<1>11. d \in 1..Horizon /\ H[i].date \in 1..Horizon
  <2>1. H[j] \in Inst /\ H[i] \in Inst
    BY <1>6, <1>9
  <2> QED
    BY <2>1 DEF Inst
<1> DEFINE tsd == H[j].tsd
<1>12. tsd.last = acc.last /\ (s.total # 0 => tsd.remain = acc.remain)
  <2>1. LastAt(r, H, k) = r.last
    BY DEF LastAt, k
  <2>2. (j - 1) - Len(r.deferred) = 0 /\ acc.remain - 0 = acc.remain
    BY <1>5, <1>6, <1>9 DEF k
  <2> QED
    BY <1>2, <1>3, <1>9, <1>10, <2>1, <2>2 DEF StateAt
<1>13. d = InstanceAfter(s, tsd) /\ d <= ce + AdvanceRemind
  BY <1>4, <1>10 DEF IsMade
<1> HIDE DEF j, d, tsd
<1>14. d # NoDate
  BY <1>11, ScheduleBounds
<1>15. /\ d = NextDate(s, acc.last) /\ (s.end # NoDate => d <= s.end)
       /\ s.end = NoDate /\ s.total # 0 => acc.remain # 0
  BY <1>12, <1>13, <1>14, AfterIsNext
<1>16. ~(d <= ce)
  <2>1. CASE m < N
    <3> DEFINE q == m + 1
    <3>1. q \in (n + 1)..N /\ ~(q <= m) /\ q - 1 = m
      BY <1>5, <2>1
    <3> HIDE DEF q
    <3>2. G[q].state \notin Effective
      BY <1>8, <3>1 DEF IsRun, n, N
    <3>3. IsMade(s, ce, G[q])
      BY <1>8, <3>1 DEF Generated, n, N
    <3>4. ~(G[q].date <= ce)
      BY <3>2, <3>3 DEF IsMade, Effective
    <3>5. G[q].date = NextDate(s, LastAt(s, G, q - 1))
      BY <1>8, <3>1, MadeNext DEF n, N
    <3> QED
      BY <1>7, <1>15, <3>1, <3>4, <3>5
  <2>2. CASE ~(m < N)
    <3>1. m = N
      BY <1>5, <2>2
    <3>2. PICK t : StateAt(s, G, N, t) /\ Ended(s, ce, t)
      BY <1>8 DEF Generated, N
    <3>3. /\ t.last = acc.last
          /\ s.total # 0 => t.remain = s.remain - (m - n)
      BY <1>7, <3>1, <3>2 DEF StateAt, n
    <3>4. InBounds(s, t, d)
      <4>1. CASE s.end # NoDate
        BY <1>15, <4>1 DEF InBounds
      <4>2. CASE s.end = NoDate
        <5>1. s.total # 0 => t.remain # 0
          <6> SUFFICES ASSUME s.total # 0 PROVE t.remain # 0
            OBVIOUS
          <6>1. acc.remain # 0 /\ acc.remain + (m - n) <= s.remain
            BY <1>7, <1>15, <4>2
          <6>2. t.remain = s.remain - (m - n) /\ m \in Int
            BY <1>5, <3>3
          <6> QED
            BY <1>5, <6>1, <6>2
        <5> QED
          BY <4>2, <5>1 DEF InBounds
      <4> QED
        BY <4>1, <4>2
    <3>5. InstanceAfter(s, t) = d
      <4>1. NextDate(s, t.last) = d
        BY <1>15, <3>3
      <4> QED
        BY <3>4, <4>1 DEF InstanceAfter, OccursAfter, IfInBounds, NextDate
    <3>6. d > ce + AdvanceRemind
      BY <1>14, <3>2, <3>5 DEF Ended
    <3>7. d \in Int /\ ce \in Int /\ AdvanceRemind \in Int
      BY <1>6, <1>11
    <3> QED
      BY <1>13, <3>6, <3>7
  <2> QED
    BY <2>1, <2>2
<1>17. ~(H[i].date <= ce)
  <2>1. CASE i = j
    BY <1>16, <2>1 DEF d
  <2>2. CASE j < i
    BY <1>10, <1>11, <1>16, <2>2
  <2> QED
    BY <1>9, <2>1, <2>2
<1> QED
  BY <1>10, <1>17 DEF IsMade

\* What is carried out without asking is shown as created.
LEMMA AutoListed ==
  ASSUME Regular, NEW s, SxInv(s), NEW end \in 0..LastDay,
         NEW m, IsRun(s, GenInstances(s, end), m),
         NEW acc, PassInv(s, GenInstances(s, end), m, Len(GenInstances(s, end)), acc)
  PROVE  Listed(After(s, acc), end, acc.insts)
<1> DEFINE G == GenInstances(s, end)
           ce == end + AdvanceCreate
           r == After(s, acc)
           n == Len(s.deferred)
           N == Len(G)
           L == acc.insts
<1>1. Generated(s, ce, G) /\ Shown(s, ce, G) /\ ce \in Nat
  BY GenFacts, GenIsShown, ScheduleBounds
<1>2. s \in SxType /\ acc \in EffectType /\ IsRun(s, G, m) /\ PassInv(s, G, m, N, acc)
  BY DEF SxInv, PassInv
<1>3. SxInv(r)
  BY <1>1, <1>2, AfterPass
<1>4. Generated(r, ce, GenInstances(r, end))
  BY <1>3, GenFacts
<1> HIDE DEF G, ce, r, N, n
<1>5. OnlyReminders(r, GenInstances(r, end))
  BY <1>1, <1>2, <1>4, OnlyRemindersLeft DEF r, N
<1>6. SameRule(s, r) /\ r.deferred = acc.deferred
  BY <1>2, AfterFields DEF r
<1>7. /\ \A tsd : InstanceAfter(r, tsd) = InstanceAfter(s, tsd)
      /\ \A tsd : Placed(r, tsd) <=> Placed(s, tsd)
  BY <1>6, RuleFacts
<1>8. G \in Seq(Inst) /\ n \in Nat /\ N \in Nat /\ n <= N
  BY <1>1, <1>2 DEF Generated, SxType, n, N
<1>9. L \in Seq(Inst) /\ Len(L) = N
      /\ \A j \in 1..N : L[j] = IF j <= N /\ G[j].state = "to-create" THEN Made(G[j]) ELSE G[j]
  BY <1>2 DEF PassInv, InstsPart, EffectType, N
<1>10. ASSUME NEW j \in 1..N
       PROVE  /\ L[j].tsd = G[j].tsd /\ L[j].date = G[j].date /\ L[j].orig = G[j].orig
              /\ L[j].state = IF G[j].state = "to-create" THEN "created" ELSE G[j].state
  <2>1. G[j] \in Inst /\ j <= N
    BY <1>8 DEF N
  <2>2. /\ Made(G[j]).tsd = G[j].tsd /\ Made(G[j]).date = G[j].date
        /\ Made(G[j]).orig = G[j].orig /\ Made(G[j]).state = "created"
    BY <2>1 DEF Made, Inst
  <2> QED
    BY <1>9, <2>1, <2>2
<1>11. ASSUME NEW j \in 1..n
       PROVE  j \in 1..N /\ IsPutOff(s, G[j], s.deferred[j]) /\ G[j].state = "postponed"
  BY <1>1, <1>8 DEF Generated, n
<1>12. ASSUME NEW j \in (n + 1)..N
       PROVE  /\ j \in 1..N /\ IsMade(s, ce, G[j])
              /\ G[j].state \in {"to-create", "reminder"} /\ G[j].orig = G[j].state
  BY <1>1, <1>8 DEF Generated, IsMade, n, N
<1>13. \A j \in 1..N : j \in 1..n \/ j \in (n + 1)..N
  BY <1>8
<1>14. acc.deferred = s.deferred
  <2>1. Quiet(G)
    <3> SUFFICES ASSUME NEW j \in 1..N
                 PROVE  ~Undeferred(G[j]) /\ (G[j].state = "postponed" => G[j].orig = "postponed")
      BY DEF Quiet, N
    <3>1. CASE j \in 1..n
      BY <1>11, <3>1 DEF IsPutOff, Undeferred
    <3>2. CASE j \in (n + 1)..N
      BY <1>12, <3>2 DEF Undeferred
    <3> QED
      BY <1>13, <3>1, <3>2
  <2> QED
    BY <1>2, <2>1 DEF PassInv, QuietPart
<1>15. Len(r.deferred) = n
  BY <1>6, <1>14 DEF n
<1>16. Shown(r, ce, L)
  <2>1. ASSUME NEW j \in 1..N
        PROVE  /\ Placed(r, L[j].tsd) /\ L[j].date = InstanceAfter(r, L[j].tsd)
               /\ L[j].state = "created" => L[j].date <= ce
    <3>1. Placed(s, G[j].tsd) /\ G[j].date = InstanceAfter(s, G[j].tsd)
          /\ (G[j].state = "created" => G[j].date <= ce)
      BY <1>1 DEF Shown, N
    <3>2. G[j].state = "to-create" => G[j].date <= ce
      <4>1. CASE j \in 1..n
        BY <1>11, <4>1
      <4>2. CASE j \in (n + 1)..N
        BY <1>12, <4>2 DEF IsMade
      <4> QED
        BY <1>13, <4>1, <4>2
    <3> QED
      BY <1>7, <1>10, <3>1, <3>2
  <2>2. \A j \in 1..n : IsPutOff(r, L[j], r.deferred[j]) /\ L[j].state # "created"
    BY <1>6, <1>7, <1>10, <1>11, <1>14 DEF IsPutOff
  <2>3. \A j \in (n + 1)..N : L[j].orig # "postponed"
    BY <1>10, <1>12
  <2>4. RemindersEnd(L)
    <3> SUFFICES ASSUME NEW i \in 1..N, NEW j \in 1..N, i < j, L[i].state = "reminder"
                 PROVE  L[j].state = "reminder"
      BY <1>9 DEF RemindersEnd
    <3>1. G[i].state = "reminder"
      BY <1>10
    <3>2. G[j].state = "reminder"
      BY <1>1, <3>1 DEF Shown, RemindersEnd, N
    <3> QED
      BY <1>10, <3>2
  <2> QED
    BY <1>8, <1>9, <1>15, <2>1, <2>2, <2>3, <2>4 DEF Shown
<1>17. Behind(r, L, GenInstances(r, end))
  <2>1. \A j \in (n + 1)..N : L[j].state \in {"created", "reminder"}
    BY <1>10, <1>12
  <2> QED
    BY <1>5, <1>9, <1>15, <2>1 DEF Behind
<1> QED
  BY <1>16, <1>17 DEF Listed, ce, r

-----------------------------------------------------------------------------
(* The inductive invariant.                                                *)

DialogInv ==
  /\ instances \in [end : 0..LastDay, listed : BOOLEAN, insts : Seq(Inst)]
  /\ instances.listed => Listed(sx, instances.end, instances.insts)
  /\ ~instances.listed => instances.insts = <<>>

BookInv == SxInv(sx) /\ HistoryType /\ Placement(sx) /\ Limited(sx)

SchedInv == today \in 1..LastDay /\ BookInv /\ DialogInv

LEMMA ClosedDialog ==
  Closed \in [end : 0..LastDay, listed : BOOLEAN, insts : Seq(Inst)]
  /\ Closed.listed = FALSE /\ Closed.insts = <<>>
<1>1. NoDate \in 0..LastDay
  BY ScheduleBounds
<1>2. <<>> \in Seq(Inst)
  OBVIOUS
<1> QED
  BY <1>1, <1>2 DEF Closed

\* The first occurrence, if there has been one, is the only one.
LEMMA InitPlacement ==
  ASSUME Regular, SxInit
  PROVE  BookInv
<1>1. PICK rs \in Schedules, start \in Starts, end \in Ends, n \in Totals,
           auto \in BOOLEAN, notify \in BOOLEAN, fresh \in Fresh :
        LET first == ListNextInstance(rs, start - 1)
        IN /\ end = NoDate \/ n = 0
           /\ ~fresh => /\ first \in start..start + AdvanceCreate
                        /\ end = NoDate \/ first <= end
           /\ sx = [schedule |-> rs, start |-> start, end |-> end, total |-> n,
                    last    |-> IF fresh THEN NoDate ELSE first,
                    remain  |-> IF fresh \/ n = 0 THEN n ELSE n - 1,
                    num     |-> IF fresh THEN 1 ELSE 2,
                    deferred |-> <<>>, enabled |-> TRUE,
                    auto |-> auto, notify |-> notify]
           /\ created = IF fresh THEN <<>> ELSE << <<first, 1>> >>
  BY DEF SxInit
<1> DEFINE first == ListNextInstance(rs, start - 1)
           last == IF fresh THEN NoDate ELSE first
           remain == IF fresh \/ n = 0 THEN n ELSE n - 1
           num == IF fresh THEN 1 ELSE 2
<1>2. /\ end = NoDate \/ n = 0
      /\ ~fresh => first \in start..start + AdvanceCreate /\ (end = NoDate \/ first <= end)
      /\ sx = [schedule |-> rs, start |-> start, end |-> end, total |-> n, last |-> last,
               remain |-> remain, num |-> num, deferred |-> <<>>, enabled |-> TRUE,
               auto |-> auto, notify |-> notify]
      /\ created = IF fresh THEN <<>> ELSE << <<first, 1>> >>
  BY <1>1
<1>3. ignored = {} /\ putOff = {} /\ forgotten = {}
  BY DEF SxInit
<1>4. start \in Nat /\ start >= 1 /\ start <= LastDay /\ n \in Nat /\ AdvanceCreate \in Nat
      /\ AdvanceRemind \in Nat /\ LastDay \in Nat /\ Horizon = LastDay + AdvanceCreate + AdvanceRemind
      /\ NoDate = 0
  <2>1. start \in 1..LastDay
    BY ScheduleBounds
  <2>2. n \in Nat
    BY ScheduleBounds
  <2> QED
    BY <2>1, <2>2, ScheduleBounds DEF Horizon
<1> HIDE DEF first
<1>5. ~fresh => first \in 1..Horizon /\ start <= first
  BY <1>2, <1>4
<1>6. last \in 0..Horizon /\ (fresh => last = NoDate) /\ (~fresh => last = first)
  <2>1. NoDate \in 0..Horizon
    BY ScheduleBounds
  <2>2. CASE fresh
    BY <2>1, <2>2
  <2>3. CASE ~fresh
    <3>1. first \in 0..Horizon
      BY <1>5, <2>3, ScheduleBounds
    <3> QED
      BY <2>3, <3>1
  <2> QED
    BY <2>2, <2>3
<1>7. /\ remain \in Nat /\ num \in Int
      /\ n # 0 => remain = IF fresh THEN n ELSE n - 1
      /\ n = 0 => remain = 0
  BY <1>4
<1> HIDE DEF last, remain, num
<1>8. /\ sx.schedule = rs /\ sx.start = start /\ sx.end = end /\ sx.total = n
      /\ sx.last = last /\ sx.remain = remain /\ sx.num = num /\ sx.deferred = <<>>
      /\ sx.enabled = TRUE /\ sx.auto = auto /\ sx.notify = notify
  BY <1>2
<1>9. sx \in SxType
  <2>1. <<>> \in Seq(Tsd)
    OBVIOUS
  <2> QED
    BY <1>2, <1>6, <1>7, <2>1 DEF SxType
<1>10. SxInv(sx)
  <2>1. Placed(sx, TemporalState(sx))
    BY <1>5, <1>6, <1>8, <1>9, TemporalFacts DEF Placed
  <2>2. end # NoDate => last <= end
    <3>1. end \in Nat
      BY ScheduleBounds
    <3> QED
      BY <1>2, <1>4, <1>6, <3>1
  <2>3. DOMAIN sx.deferred = {}
    BY <1>8
  <2> QED
    BY <1>2, <1>7, <1>8, <1>9, <2>1, <2>2, <2>3 DEF SxInv
<1>11. HistoryType
  <2>1. ~fresh => <<first, 1>> \in Nat \X Int
    BY <1>5, ScheduleBounds
  <2>2. created \in Seq(Nat \X Int)
    <3>1. CASE fresh
      <4>1. <<>> \in Seq(Nat \X Int)
        OBVIOUS
      <4> QED
        BY <1>2, <3>1, <4>1
    <3>2. CASE ~fresh
      <4> DEFINE one == <<first, 1>>
      <4>1. one \in Nat \X Int
        BY <2>1, <3>2
      <4> HIDE DEF one
      <4>2. <<one>> \in Seq(Nat \X Int)
        BY <4>1
      <4> QED
        BY <1>2, <3>2, <4>2 DEF one
    <3> QED
      BY <3>1, <3>2
  <2> QED
    BY <1>3, <2>2 DEF HistoryType
<1>12. CreatedDates(created) = (IF fresh THEN <<>> ELSE <<first>>) /\ PutDates(sx, sx.deferred) = <<>>
  <2>1. fresh => CreatedDates(created) = <<>>
    BY <1>2 DEF CreatedDates
  <2>2. ~fresh => CreatedDates(created) = <<first>>
    BY <1>2 DEF CreatedDates
  <2>3. PutDates(sx, sx.deferred) = <<>>
    BY <1>8 DEF PutDates
  <2> QED
    BY <2>1, <2>2, <2>3
<1>13. PastOf(sx, last) = (IF fresh THEN {} ELSE {first})
  <2>1. PastOf(sx, NoDate) = {}
    BY <1>4, <1>9, PastFinite, ScheduleBounds
  <2>2. CASE fresh
    BY <1>6, <2>1, <2>2
  <2>3. CASE ~fresh
    <3>1. NextDate(sx, NoDate) = first
      BY <1>8 DEF NextDate, first
    <3>2. NextDate(sx, NoDate) \in 1..Horizon /\ NoDate \in 0..Horizon
      BY <1>5, <2>3, <3>1, ScheduleBounds
    <3>3. PastOf(sx, NextDate(sx, NoDate)) = PastOf(sx, NoDate) \cup {NextDate(sx, NoDate)}
      BY <1>9, <3>2, PastStep
    <3> QED
      BY <1>6, <2>1, <2>3, <3>1, <3>3
  <2> QED
    BY <2>2, <2>3
<1>14. Cardinality(PastOf(sx, last)) = (IF fresh THEN 0 ELSE 1)
  BY <1>13, FS_EmptySet, FS_Singleton
<1>15. Placement(sx)
  <2>1. Len(sx.deferred) = 0
    BY <1>8
  <2>2. Elems(<<>>) = {} /\ Elems(<<first>>) = {first}
    BY DEF Elems
  <2>3. Cardinality({}) = 0
    BY FS_EmptySet
  <2>4. Balanced(PastOf(sx, last), CreatedDates(created), {}, <<>>, {})
    BY <1>12, <1>13, <1>14, <2>2, <2>3 DEF Balanced
  <2> QED
    BY <1>3, <1>8, <1>12, <2>1, <2>4 DEF Placement
<1>16. Limited(sx)
  <2> SUFFICES ASSUME n # 0
               PROVE  Cardinality(PastOf(sx, last)) + remain <= n
    BY <1>8 DEF Limited
  <2> QED
    BY <1>4, <1>7, <1>14
<1> QED
  BY <1>10, <1>11, <1>15, <1>16 DEF BookInv

\* Carrying out what is shown keeps the book.
LEMMA CarriedKeeps ==
  ASSUME Regular, BookInv, NEW ce, NEW insts, Shown(sx, ce, insts),
         NEW m, IsRun(sx, insts, m), Carried(EffectChange(sx, insts))
  PROVE  BookInv'
<1> DEFINE acc == EffectChange(sx, insts)
<1>1. SxInv(sx) /\ HistoryType /\ Placement(sx) /\ Limited(sx) /\ sx \in SxType
  BY DEF BookInv, SxInv
<1>2. PassInv(sx, insts, m, Len(insts), acc)
  BY <1>1, PassFacts
<1>3. /\ sx' = After(sx, acc) /\ created' = acc.created /\ ignored' = acc.ignored
      /\ putOff' = acc.putOff /\ forgotten' = acc.forgotten
  BY DEF Carried, After
<1> HIDE DEF acc
<1>4. SxInv(sx') /\ Limited(sx')
  BY <1>1, <1>2, <1>3, AfterPass
<1>5. HistoryType'
  BY <1>2, <1>3 DEF PassInv, EffectType, HistoryType
<1>6. acc \in EffectType
  BY <1>2 DEF PassInv
<1>7. SameRule(sx, sx') /\ sx'.last = acc.last /\ sx'.deferred = acc.deferred
  BY <1>1, <1>3, <1>6, AfterFields
<1>8. PastOf(sx', acc.last) = PastOf(sx, acc.last)
      /\ PutDates(sx', acc.deferred) = PutDates(sx, acc.deferred)
  BY <1>7, RuleFacts
<1>9. /\ \A p \in 1..Len(sx'.deferred) : sx'.deferred[p].last \in putOff'
      /\ NoDate \notin putOff' =>
           Balanced(PastOf(sx', sx'.last), CreatedDates(created'), ignored',
                    PutDates(sx', sx'.deferred), forgotten')
  <2>1. \A p \in 1..Len(acc.deferred) : acc.deferred[p].last \in acc.putOff
    BY <1>2 DEF PassInv, DeferredPart
  <2>2. NoDate \notin acc.putOff => BalancedAt(sx, acc)
    BY <1>2 DEF PassInv, BalancePart
  <2> QED
    BY <1>3, <1>7, <1>8, <2>1, <2>2 DEF BalancedAt
<1>10. Placement(sx)'
  BY <1>9 DEF Placement
<1> QED
  BY <1>4, <1>5, <1>10 DEF BookInv, Limited, SxInv

\* Nothing shown, nothing carried out.
LEMMA EmptyPass ==
  ASSUME sx \in SxType, Carried(EffectChange(sx, <<>>))
  PROVE  UNCHANGED <<sx, history>>
<1> DEFINE f == CHOOSE f : IsPass(f, sx, <<>>, 0)
<1>1. IsPass(f, sx, <<>>, 0)
  BY PassExists
<1>2. Len(<<>>) = 0
  OBVIOUS
<1>3. EffectChange(sx, <<>>) = f[0]
  BY <1>2 DEF EffectChange, IsPass, Before
<1> HIDE DEF f
<1>4. f[0] = Before(sx, <<>>)
  BY <1>1 DEF IsPass
<1>5. Carried(Before(sx, <<>>))
  BY <1>3, <1>4
<1>6. created' = created /\ ignored' = ignored /\ putOff' = putOff /\ forgotten' = forgotten
  BY <1>5 DEF Carried, Before
<1>7. sx' = [sx EXCEPT !.last = sx.last, !.num = sx.num, !.remain = sx.remain,
                       !.deferred = sx.deferred]
  BY <1>5 DEF Carried, Before
<1>8. sx' = sx
  BY <1>7 DEF SxType
<1> QED
  BY <1>6, <1>8 DEF history

LEMMA SchedInit ==
  ASSUME Regular, SxInit
  PROVE  SchedInv
<1>1. BookInv
  BY InitPlacement
<1>2. sx \in SxType
  BY <1>1 DEF BookInv, SxInv
<1>3. today \in 1..LastDay
  BY <1>2, StartFacts DEF SxInit
<1>4. DialogInv
  BY ClosedDialog DEF SxInit, DialogInv
<1> QED
  BY <1>1, <1>3, <1>4 DEF SchedInv

-----------------------------------------------------------------------------
(* The actions.                                                            *)

LEMMA BookUnchanged ==
  ASSUME BookInv, UNCHANGED <<sx, history>>
  PROVE  BookInv'
BY DEF history, BookInv, SxInv, HistoryType, Placement, Limited, CreatedDates

\* The dialog that is opened, or not, with what is listed.
LEMMA OfferedDialog ==
  ASSUME today \in 1..LastDay, NEW insts, instances' \in {Model(insts, today), Closed},
         Listed(sx', today, insts)
  PROVE  DialogInv'
<1>1. CASE instances' = Closed
  BY <1>1, ClosedDialog DEF DialogInv
<1>2. CASE instances' = Model(insts, today)
  <2>1. insts \in Seq(Inst) /\ today \in 0..LastDay
    BY ScheduleBounds DEF Listed, Shown
  <2>2. /\ instances'.end = today /\ instances'.insts = insts /\ instances'.listed = TRUE
        /\ instances' \in [end : 0..LastDay, listed : BOOLEAN, insts : Seq(Inst)]
    BY <1>2, <2>1 DEF Model
  <2> QED
    BY <2>2 DEF DialogInv
<1> QED
  BY <1>1, <1>2

LEMMA SinceLastRunKeeps ==
  ASSUME Regular, SchedInv, SinceLastRun
  PROVE  SchedInv'
<1> DEFINE G == GenInstances(sx, today)
           acc == EffectChange(sx, G)
<1>1. today \in 1..LastDay /\ today \in 0..LastDay /\ today' = today /\ SxInv(sx)
  BY ScheduleBounds DEF SchedInv, BookInv, SinceLastRun
<1>2. CASE ~sx.enabled
  <2>1. UNCHANGED <<sx, history, instances>>
    BY <1>2 DEF SinceLastRun
  <2>2. BookInv'
    BY <2>1, BookUnchanged DEF SchedInv
  <2>3. DialogInv'
    BY <2>1 DEF SchedInv, DialogInv
  <2> QED
    BY <1>1, <2>2, <2>3 DEF SchedInv
<1>3. CASE sx.enabled
  <2>1. Offered(G, acc)
    BY <1>3 DEF SinceLastRun
  <2>2. /\ Shown(sx, today + AdvanceCreate, G) /\ Current(G, G)
        /\ Generated(sx, today + AdvanceCreate, G)
    BY <1>1, GenIsShown, GenFacts
  <2>3. instances' \in {Model(IF sx.auto THEN acc.insts ELSE G, today), Closed}
    BY <2>1 DEF Offered
  <2> HIDE DEF G, acc
  <2>4. CASE ~sx.auto
    <3>1. UNCHANGED <<sx, history>> /\ instances' \in {Model(G, today), Closed}
      BY <2>1, <2>3, <2>4 DEF Offered
    <3>2. BookInv'
      BY <3>1, BookUnchanged DEF SchedInv
    <3>3. Listed(sx', today, G)
      BY <2>2, <3>1 DEF Listed, G
    <3>4. DialogInv'
      BY <1>1, <3>1, <3>3, OfferedDialog
    <3> QED
      BY <1>1, <3>2, <3>4 DEF SchedInv
  <2>5. CASE sx.auto
    <3>1. Carried(acc) /\ instances' \in {Model(acc.insts, today), Closed}
      BY <2>1, <2>3, <2>5 DEF Offered
    <3>2. PICK m : IsRun(sx, G, m)
      BY <1>1, <2>2, CurrentRun
    <3>3. BookInv'
      BY <2>2, <3>1, <3>2, CarriedKeeps DEF SchedInv, acc
    <3>4. PassInv(sx, G, m, Len(G), acc)
      BY <1>1, <2>2, <3>2, PassFacts DEF SchedInv, BookInv, acc
    <3>5. sx' = After(sx, acc)
      BY <3>1 DEF Carried, After
    <3>6. Listed(sx', today, acc.insts)
      BY <1>1, <3>2, <3>4, <3>5, AutoListed DEF G
    <3>7. DialogInv'
      BY <1>1, <3>1, <3>6, OfferedDialog
    <3> QED
      BY <1>1, <3>3, <3>7 DEF SchedInv
  <2> QED
    BY <2>4, <2>5
<1> QED
  BY <1>2, <1>3

LEMMA ChangeStateKeeps ==
  ASSUME Regular, SchedInv, NEW i, NEW state \in States \ {"created"}, ChangeState(i, state)
  PROVE  SchedInv'
<1> DEFINE insts == instances.insts
           end == instances.end
           W == WithState(insts, i, state)
           U == Update(sx, W, end)
           G == GenInstances(sx, end)
<1>1. /\ UNCHANGED <<today, sx, history>> /\ i \in DOMAIN insts
      /\ instances' = [instances EXCEPT !.insts = U]
  BY DEF ChangeState
<1>2. /\ SxInv(sx) /\ sx \in SxType
      /\ instances \in [end : 0..LastDay, listed : BOOLEAN, insts : Seq(Inst)]
  BY DEF SchedInv, BookInv, DialogInv, SxInv
<1>3. instances.listed
  <2>1. DOMAIN <<>> = {}
    OBVIOUS
  <2> QED
    BY <1>1, <2>1 DEF SchedInv, DialogInv
<1>4. Shown(sx, end + AdvanceCreate, insts) /\ (Current(insts, G) \/ Behind(sx, insts, G))
  BY <1>3 DEF SchedInv, DialogInv, Listed
<1>5. insts \in Seq(Inst) /\ end \in 0..LastDay /\ i \in 1..Len(insts)
  BY <1>1, <1>2
<1> HIDE DEF insts, end
<1>6. Shown(sx, end + AdvanceCreate, W) /\ (Current(insts, G) => Current(W, G))
  BY <1>2, <1>4, <1>5, WithStateShown
<1>7. Current(W, G) \/ OnlyReminders(sx, G)
  BY <1>4, <1>6 DEF Behind
<1> HIDE DEF W
<1>8. Shown(sx, end + AdvanceCreate, U) /\ Current(U, G)
  BY <1>2, <1>5, <1>6, <1>7, UpdateShown
<1>9. Listed(sx', end, U)
  BY <1>1, <1>8 DEF Listed
<1>10. DialogInv'
  <2>1. U \in Seq(Inst)
    BY <1>8 DEF Shown
  <2> HIDE DEF U
  <2>2. /\ instances' \in [end : 0..LastDay, listed : BOOLEAN, insts : Seq(Inst)]
        /\ instances'.end = end /\ instances'.insts = U /\ instances'.listed
    BY <1>1, <1>2, <1>3, <2>1 DEF end
  <2> QED
    BY <1>9, <2>2 DEF DialogInv
<1>11. BookInv'
  BY <1>1, BookUnchanged DEF SchedInv
<1> QED
  BY <1>1, <1>10, <1>11 DEF SchedInv

LEMMA AcceptKeeps ==
  ASSUME Regular, SchedInv, Accept
  PROVE  SchedInv'
<1> DEFINE insts == instances.insts
           ce == instances.end + AdvanceCreate
<1>1. Carried(EffectChange(sx, insts)) /\ instances' = Closed /\ today' = today
  BY DEF Accept
<1>2. SxInv(sx) /\ sx \in SxType /\ BookInv /\ instances.end \in 0..LastDay
  BY DEF SchedInv, BookInv, SxInv, DialogInv
<1>3. BookInv'
  <2>1. CASE ~instances.listed
    <3>1. insts = <<>>
      BY <2>1 DEF SchedInv, DialogInv
    <3>2. UNCHANGED <<sx, history>>
      BY <1>1, <1>2, <3>1, EmptyPass
    <3> QED
      BY <1>2, <3>2, BookUnchanged
  <2>2. CASE instances.listed
    <3> DEFINE G == GenInstances(sx, instances.end)
    <3>1. Shown(sx, ce, insts) /\ (Current(insts, G) \/ Behind(sx, insts, G))
      BY <2>2 DEF SchedInv, DialogInv, Listed
    <3>2. Generated(sx, ce, G)
      BY <1>2, GenFacts
    <3> HIDE DEF G, insts, ce
    <3>3. \E m : IsRun(sx, insts, m)
      BY <1>2, <3>1, <3>2, CurrentRun, BehindRun
    <3> QED
      BY <1>1, <1>2, <3>1, <3>3, CarriedKeeps DEF insts
  <2> QED
    BY <2>1, <2>2
<1>4. DialogInv'
  BY <1>1, ClosedDialog DEF DialogInv
<1> QED
  BY <1>1, <1>3, <1>4 DEF SchedInv

LEMMA SetEnabledKeeps ==
  ASSUME Regular, SchedInv, NEW b \in BOOLEAN, SetEnabled(b)
  PROVE  SchedInv'
<1>1. /\ sx' = [sx EXCEPT !.enabled = b] /\ UNCHANGED <<today, history>>
      /\ instances' = CASE instances = Closed -> Closed
                        [] instances # Closed /\ b /\ ~instances.listed ->
                             Model(GenInstances(sx', instances.end), instances.end)
                        [] OTHER -> [instances EXCEPT !.listed = FALSE, !.insts = <<>>]
  BY DEF SetEnabled
<1>2. /\ SxInv(sx) /\ sx \in SxType /\ BookInv
      /\ instances \in [end : 0..LastDay, listed : BOOLEAN, insts : Seq(Inst)]
  BY DEF SchedInv, BookInv, SxInv, DialogInv
<1>3. /\ sx' \in SxType /\ SameRule(sx, sx') /\ sx'.last = sx.last /\ sx'.remain = sx.remain
      /\ sx'.deferred = sx.deferred /\ TemporalState(sx') = TemporalState(sx)
      /\ sx'.end = sx.end /\ sx'.total = sx.total
  <2>1. sx' \in SxType
    BY <1>1, <1>2 DEF SxType
  <2>2. /\ sx'.schedule = sx.schedule /\ sx'.start = sx.start /\ sx'.end = sx.end
        /\ sx'.total = sx.total /\ sx'.last = sx.last /\ sx'.remain = sx.remain
        /\ sx'.num = sx.num /\ sx'.deferred = sx.deferred
    BY <1>1, <1>2 DEF SxType
  <2> QED
    BY <2>1, <2>2 DEF SameRule, TemporalState
<1>4. /\ \A tsd : InstanceAfter(sx', tsd) = InstanceAfter(sx, tsd)
      /\ \A tsd : Placed(sx', tsd) <=> Placed(sx, tsd)
      /\ \A last : PastOf(sx', last) = PastOf(sx, last)
      /\ \A list : PutDates(sx', list) = PutDates(sx, list)
  BY <1>3, RuleFacts
<1>5. SxInv(sx')
  BY <1>2, <1>3, <1>4 DEF SxInv
<1>6. BookInv'
  <2>1. Placement(sx)' /\ HistoryType'
    <3>1. created' = created /\ ignored' = ignored /\ putOff' = putOff /\ forgotten' = forgotten
      BY <1>1 DEF history
    <3>2. CreatedDates(created') = CreatedDates(created)
      BY <3>1
    <3>3. /\ \A p \in 1..Len(sx'.deferred) : sx'.deferred[p].last \in putOff'
          /\ NoDate \notin putOff' =>
               Balanced(PastOf(sx', sx'.last), CreatedDates(created'), ignored',
                        PutDates(sx', sx'.deferred), forgotten')
      BY <1>2, <1>3, <1>4, <3>1, <3>2 DEF BookInv, Placement
    <3> QED
      BY <1>2, <3>1, <3>3 DEF BookInv, Placement, HistoryType
  <2>2. Limited(sx')
    BY <1>2, <1>3, <1>4 DEF BookInv, Limited
  <2> QED
    BY <1>5, <2>1, <2>2 DEF BookInv, Limited, SxInv
<1>7. DialogInv'
  <2>1. CASE instances' = Closed
    BY <2>1, ClosedDialog DEF DialogInv
  <2>2. CASE instances' = [instances EXCEPT !.listed = FALSE, !.insts = <<>>]
    <3>1. <<>> \in Seq(Inst)
      OBVIOUS
    <3> QED
      BY <1>2, <2>2, <3>1 DEF DialogInv
  <2>3. CASE instances' = Model(GenInstances(sx', instances.end), instances.end)
    <3> DEFINE end == instances.end
               G == GenInstances(sx', end)
    <3>1. end \in 0..LastDay
      BY <1>2
    <3>2. Shown(sx', end + AdvanceCreate, G) /\ Current(G, G)
      BY <1>5, <3>1, GenIsShown
    <3>3. Listed(sx', end, G) /\ G \in Seq(Inst)
      BY <3>2 DEF Listed, Shown
    <3> HIDE DEF end, G
    <3>4. instances' = Model(G, end)
      BY <2>3 DEF end, G
    <3>5. /\ instances' \in [end : 0..LastDay, listed : BOOLEAN, insts : Seq(Inst)]
          /\ instances'.end = end /\ instances'.insts = G /\ instances'.listed
      BY <3>1, <3>3, <3>4 DEF Model
    <3> QED
      BY <3>3, <3>5 DEF DialogInv
  <2> QED
    BY <1>1, <2>1, <2>2, <2>3
<1>8. today' \in 1..LastDay
  BY <1>1 DEF SchedInv
<1> QED
  BY <1>6, <1>7, <1>8 DEF SchedInv

LEMMA SchedStep ==
  ASSUME Regular, SchedInv, [SxNext]_sxvars
  PROVE  SchedInv'
<1>1. CASE NewDay
  <2>1. UNCHANGED <<sx, instances, history>> /\ today' \in 1..LastDay
    BY <1>1, ScheduleBounds DEF NewDay, SchedInv
  <2>2. BookInv'
    BY <2>1, BookUnchanged DEF SchedInv
  <2> QED
    BY <2>1, <2>2 DEF SchedInv, DialogInv
<1>2. CASE SinceLastRun
  BY <1>2, SinceLastRunKeeps
<1>3. CASE Accept
  BY <1>3, AcceptKeeps
<1>4. CASE Cancel
  <2>1. UNCHANGED <<today, sx, history>> /\ instances' = Closed
    BY <1>4 DEF Cancel
  <2>2. BookInv'
    BY <2>1, BookUnchanged DEF SchedInv
  <2>3. DialogInv'
    BY <2>1, ClosedDialog DEF DialogInv
  <2> QED
    BY <2>1, <2>2, <2>3 DEF SchedInv
<1>5. CASE \E i \in 1..LastDay, state \in States \ {"created"} : ChangeState(i, state)
  BY <1>5, ChangeStateKeeps
<1>6. CASE \E b \in BOOLEAN : SetEnabled(b)
  BY <1>6, SetEnabledKeeps
<1>7. CASE UNCHANGED sxvars
  <2>1. UNCHANGED <<today, sx, instances, history>>
    BY <1>7 DEF sxvars
  <2>2. BookInv'
    BY <2>1, BookUnchanged DEF SchedInv
  <2> QED
    BY <2>1, <2>2 DEF SchedInv, DialogInv
<1> QED
  BY <1>1, <1>2, <1>3, <1>4, <1>5, <1>6, <1>7 DEF SxNext

-----------------------------------------------------------------------------
(* What the invariant says of the properties that are checked.             *)

LEMMA ShownInOrder ==
  ASSUME SchedInv
  PROVE  RemindersLast
<1> SUFFICES ASSUME NEW i \in DOMAIN instances.insts, NEW j \in DOMAIN instances.insts,
                    i < j, instances.insts[i].state = "reminder"
             PROVE  instances.insts[j].state = "reminder"
  BY DEF RemindersLast
<1> DEFINE insts == instances.insts
<1>1. insts \in Seq(Inst)
  BY DEF SchedInv, DialogInv
<1>2. instances.listed
  <2>1. DOMAIN <<>> = {}
    OBVIOUS
  <2> QED
    BY <2>1 DEF SchedInv, DialogInv
<1>3. RemindersEnd(insts)
  BY <1>2 DEF SchedInv, DialogInv, Listed, Shown
<1>4. DOMAIN insts = 1..Len(insts)
  BY <1>1
<1> QED
  BY <1>3, <1>4 DEF RemindersEnd

LEMMA WithinLimits ==
  ASSUME SchedInv
  PROVE  NeverTooMany
<1>1. sx \in SxType /\ (sx.end # NoDate => sx.last <= sx.end) /\ Limited(sx)
  BY DEF SchedInv, BookInv, SxInv
<1>2. Past = PastOf(sx, sx.last)
  BY DEF Past, PastOf
<1>3. sx.last \in Nat /\ sx.end \in Nat /\ sx.remain \in Nat /\ sx.total \in Nat /\ sx.start \in Nat
  <2>1. /\ sx.last \in 0..Horizon /\ sx.end \in Ends /\ sx.remain \in Nat /\ sx.total \in Totals
        /\ sx.start \in Nat
    BY <1>1, StartFacts DEF SxType
  <2>2. sx.last \in Nat
    BY <2>1, ScheduleBounds
  <2> QED
    BY <2>1, <2>2, ScheduleBounds
<1>4. Cardinality(Past) \in Nat
  <2>1. IsFiniteSet(Past)
    BY <1>1, <1>2, PastFinite DEF SxType
  <2> QED
    BY <2>1, FS_CardinalityType
<1>5. sx.total # 0 => Cardinality(Past) <= sx.total
  <2> DEFINE c == Cardinality(Past)  r == sx.remain  t == sx.total
  <2>1. t # 0 => c + r <= t
    BY <1>1, <1>2 DEF Limited
  <2>2. c \in Nat /\ r \in Nat /\ t \in Nat
    BY <1>3, <1>4
  <2> HIDE DEF c, r, t
  <2>3. t # 0 => c <= t
    BY <2>1, <2>2
  <2> QED
    BY <2>3 DEF c, t
<1>6. ASSUME sx.end # NoDate, NEW d \in Past
      PROVE  d <= sx.end
  <2>1. d \in sx.start..sx.last
    BY <1>6 DEF Past
  <2>2. sx.last <= sx.end
    BY <1>1, <1>6
  <2> DEFINE a == sx.start  b == sx.last  c == sx.end
  <2>3. a \in Nat /\ b \in Nat /\ c \in Nat /\ d \in a..b /\ b <= c
    BY <1>3, <2>1, <2>2
  <2> HIDE DEF a, b, c
  <2>4. d <= c
    BY <2>3
  <2> QED
    BY <2>4 DEF c
<1> QED
  BY <1>5, <1>6 DEF NeverTooMany

LEMMA PlacedOnce ==
  ASSUME Regular, SchedInv
  PROVE  EachOnce
<1> SUFFICES ASSUME NoDate \notin putOff
             PROVE  /\ Past = UNION {Created, ignored, Deferred, forgotten}
                    /\ Cardinality(Past) = Len(created) + Cardinality(ignored)
                                           + Len(sx.deferred) + Cardinality(forgotten)
  BY DEF EachOnce
<1> DEFINE A == CreatedDates(created)
           B == PutDates(sx, sx.deferred)
<1>1. SxInv(sx) /\ sx \in SxType /\ HistoryType /\ Placement(sx)
  BY DEF SchedInv, BookInv, SxInv
<1>2. /\ Past = (Elems(A) \cup ignored) \cup (Elems(B) \cup forgotten)
      /\ Cardinality(Past) = Len(A) + Cardinality(ignored) + Len(B) + Cardinality(forgotten)
  BY <1>1 DEF Placement, Balanced, Past, PastOf
<1>3. created \in Seq(Nat \X Int) /\ sx.deferred \in Seq(Tsd)
  BY <1>1 DEF HistoryType, SxType
<1>4. Len(A) = Len(created) /\ DOMAIN created = 1..Len(created)
      /\ \A p \in 1..Len(created) : A[p] = created[p][1]
  BY <1>3 DEF CreatedDates
<1>5. Len(B) = Len(sx.deferred) /\ DOMAIN sx.deferred = 1..Len(sx.deferred)
      /\ \A p \in 1..Len(sx.deferred) : B[p] = InstanceAfter(sx, sx.deferred[p])
  BY <1>3 DEF PutDates
<1>6. \A p \in 1..Len(sx.deferred) :
        NextOccurrence(sx, sx.deferred[p]) = InstanceAfter(sx, sx.deferred[p])
  <2> TAKE p \in 1..Len(sx.deferred)
  <2>1. sx.deferred[p] \in Tsd /\ Placed(sx, sx.deferred[p])
    BY <1>1, <1>3, <1>5 DEF SxInv
  <2> QED
    BY <1>1, <2>1, AfterFacts
<1> HIDE DEF A, B
<1>7. Elems(A) = Created
  BY <1>4 DEF Elems, Created
<1>8. Elems(B) = Deferred
  BY <1>5, <1>6 DEF Elems, Deferred
<1> QED
  BY <1>2, <1>4, <1>5, <1>7, <1>8

-----------------------------------------------------------------------------
(* Which schedules are regular: those that recur every so many days or     *)
(* weeks, or once.                                                         *)

LEMMA Multiple ==
  ASSUME NEW n \in Nat, n > 0, NEW k \in Int
  PROVE  n * k \in Int /\ (k > 0 => n * k >= n) /\ (k < 0 => n * k <= -n)
OBVIOUS

LEMMA OneQuotient ==
  ASSUME NEW n \in Nat, n > 0, NEW q \in Int, NEW s \in 0..(n - 1)
  PROVE  (n * q + s) % n = s
<1> DEFINE b == n * q + s
           p == b \div n
           r == b % n
           k == q - p
<1>1. n * q \in Int /\ b \in Int
  BY Multiple
<1>2. b = n * p + r /\ r \in 0..(n - 1) /\ p \in Int
  <2> HIDE DEF b
  <2> QED
    BY <1>1
<1> HIDE DEF p, r
<1>3. k \in Int /\ n * k = n * q - n * p
  BY <1>2
<1>4. n * p \in Int
  BY <1>2, Multiple
<1>5. n * k = r - s
  <2> DEFINE x == n * q  y == n * p  z == n * k
  <2>1. z = x - y /\ x + s = y + r /\ x \in Int /\ y \in Int
    BY <1>1, <1>2, <1>3, <1>4
  <2> HIDE DEF x, y, z
  <2>2. z = r - s
    BY <1>2, <2>1
  <2> QED
    BY <2>2 DEF z
<1> HIDE DEF k
<1>6. ~(n * k >= n) /\ ~(n * k <= -n)
  <2> DEFINE z == n * k
  <2>1. z = r - s
    BY <1>5
  <2> HIDE DEF z
  <2>2. ~(z >= n) /\ ~(z <= -n)
    BY <1>2, <2>1
  <2> QED
    BY <2>2 DEF z
<1>7. k = 0
  <2>1. (k > 0 => n * k >= n) /\ (k < 0 => n * k <= -n)
    BY <1>3, Multiple
  <2> QED
    BY <1>3, <1>6, <2>1
<1>8. r - s = 0
  BY <1>5, <1>7
<1> QED
  BY <1>2, <1>8 DEF r

LEMMA ModSame ==
  ASSUME NEW a \in Nat, NEW n \in Nat, n > 0, NEW e \in Nat, e < n - (a % n)
  PROVE  /\ a % n \in 0..(n - 1)
         /\ (a + e) % n = (a % n) + e
<1>1. a = n * (a \div n) + (a % n) /\ a % n \in 0..(n-1) /\ a \div n \in Int
  OBVIOUS
<1> DEFINE q == a \div n
           r == a % n
<1>2. a + e = n * q + (r + e) /\ r + e \in 0..(n - 1) /\ q \in Int
  BY <1>1
<1> HIDE DEF q, r
<1>3. (n * q + (r + e)) % n = r + e
  BY <1>2, OneQuotient
<1> QED
  BY <1>1, <1>2, <1>3 DEF r

-----------------------------------------------------------------------------
(* The calendar.                                                           *)

IsCalendar(f, m) ==
  /\ f = [n \in 0..m |-> IF n = 0 THEN 0 ELSE f[n - 1] + MonthDays[n]]
  /\ \A n \in 0..m : f[n] \in Nat

LEMMA MonthsOf ==
  /\ LastMonth \in Nat /\ LastMonth > 0
  /\ \A m \in 1..LastMonth : MonthDays[m] \in 28..31
BY CalendarAssumption DEF LastMonth

LEMMA CalendarExists == \E f : IsCalendar(f, LastMonth)
<1> DEFINE S == {m \in 0..LastMonth : \E f : IsCalendar(f, m)}
<1>1. 0 \in S
  <2> DEFINE f == [n \in 0..0 |-> 0]
  <2>1. f = [n \in 0..0 |-> IF n = 0 THEN 0 ELSE f[n - 1] + MonthDays[n]]
        /\ \A n \in 0..0 : f[n] \in Nat
    OBVIOUS
  <2>2. IsCalendar(f, 0)
    <3> HIDE DEF f
    <3> QED
      BY <2>1 DEF IsCalendar
  <2> QED
    BY <2>2, MonthsOf
<1>2. ASSUME NEW m \in 0..(LastMonth - 1), m \in S
      PROVE  m + 1 \in S
  <2>1. PICK f : IsCalendar(f, m)
    BY <1>2
  <2>2. m \in Nat /\ m + 1 \in 1..LastMonth /\ m + 1 \in 0..LastMonth
    BY MonthsOf
  <2>3. f[m] \in Nat /\ MonthDays[m + 1] \in Nat
    <3>1. m \in 0..m
      BY <2>2
    <3>2. f[m] \in Nat
      BY <2>1, <3>1 DEF IsCalendar
    <3>3. MonthDays[m + 1] \in 28..31
      BY <2>2, MonthsOf
    <3> QED
      BY <3>2, <3>3
  <2> DEFINE g == [n \in 0..(m + 1) |-> IF n = m + 1 THEN f[m] + MonthDays[m + 1] ELSE f[n]]
  <2>4. \A n \in 0..(m + 1) : n = m + 1 \/ n \in 0..m
    BY <2>2
  <2>5. \A n \in 0..(m + 1) : g[n] \in Nat
    BY <2>1, <2>2, <2>3, <2>4 DEF IsCalendar
  <2>6. \A n \in 0..(m + 1) : g[n] = IF n = 0 THEN 0 ELSE g[n - 1] + MonthDays[n]
    <3> TAKE n \in 0..(m + 1)
    <3>1. CASE n = m + 1
      <4>1. n - 1 = m /\ n # 0 /\ m \in 0..(m + 1) /\ m # m + 1
        BY <2>2, <3>1
      <4> QED
        BY <3>1, <4>1
    <3>2. CASE n # m + 1
      <4>1. n \in 0..m /\ (n # 0 => n - 1 \in 0..m /\ n - 1 \in 0..(m + 1) /\ n - 1 # m + 1)
        BY <2>2, <3>2
      <4>2. f[n] = IF n = 0 THEN 0 ELSE f[n - 1] + MonthDays[n]
        BY <2>1, <4>1 DEF IsCalendar
      <4> QED
        BY <3>2, <4>1, <4>2
    <3> QED
      BY <3>1, <3>2
  <2>7. g = [n \in 0..(m + 1) |-> g[n]]
    OBVIOUS
  <2> HIDE DEF g
  <2>8. IsCalendar(g, m + 1)
    BY <2>5, <2>6, <2>7 DEF IsCalendar
  <2> QED
    BY <2>2, <2>8
<1>3. \A m \in 0..LastMonth : m \in S
  <2> HIDE DEF S
  <2> QED
    BY <1>1, <1>2, MonthsOf, UpTo
<1>4. LastMonth \in S
  BY <1>3, MonthsOf
<1> QED
  BY <1>4

LEMMA CalendarFacts ==
  /\ MonthEnd[0] = 0
  /\ \A m \in 0..LastMonth : MonthEnd[m] \in Nat
  /\ \A m \in 1..LastMonth :
       /\ m - 1 \in 0..LastMonth /\ m \in 0..LastMonth
       /\ MonthDays[m] \in 28..31
       /\ MonthEnd[m] = MonthEnd[m - 1] + MonthDays[m]
<1> DEFINE Is(f) == f = [n \in 0..LastMonth |-> IF n = 0 THEN 0 ELSE f[n - 1] + MonthDays[n]]
<1>1. PICK f : IsCalendar(f, LastMonth)
  BY CalendarExists
<1>2. Is(f)
  BY <1>1 DEF IsCalendar
<1>3. MonthEnd = CHOOSE g : Is(g)
  BY DEF MonthEnd
<1>4. Is(MonthEnd)
  <2> HIDE DEF Is
  <2> QED
    BY <1>2, <1>3
<1>5. \A n \in 0..LastMonth : MonthEnd[n] = IF n = 0 THEN 0 ELSE MonthEnd[n - 1] + MonthDays[n]
  <2> DEFINE h == MonthEnd
  <2>1. Is(h)
    BY <1>4
  <2> HIDE DEF h
  <2>2. \A n \in 0..LastMonth : h[n] = IF n = 0 THEN 0 ELSE h[n - 1] + MonthDays[n]
    BY <2>1
  <2> QED
    BY <2>2 DEF h
<1>6. \A m \in 1..LastMonth : m - 1 \in 0..LastMonth /\ m \in 0..LastMonth /\ m # 0
  BY MonthsOf
<1>7. MonthEnd[0] = 0
  BY <1>5, MonthsOf
<1> DEFINE T == {m \in 0..LastMonth : MonthEnd[m] \in Nat}
<1>8. 0 \in T
  BY <1>7, MonthsOf
<1>9. ASSUME NEW m \in 0..(LastMonth - 1), m \in T  PROVE m + 1 \in T
  <2>1. m + 1 \in 1..LastMonth /\ (m + 1) - 1 = m /\ m + 1 \in 0..LastMonth /\ m + 1 # 0
    BY MonthsOf
  <2>2. MonthEnd[m + 1] = MonthEnd[m] + MonthDays[m + 1]
    BY <1>5, <2>1
  <2>3. MonthEnd[m] \in Nat /\ MonthDays[m + 1] \in 28..31
    BY <1>9, <2>1, MonthsOf
  <2> QED
    BY <2>1, <2>2, <2>3
<1>10. \A m \in 0..LastMonth : m \in T
  <2> HIDE DEF T
  <2> QED
    BY <1>8, <1>9, MonthsOf, UpTo
<1> QED
  BY <1>5, <1>6, <1>7, <1>10, MonthsOf

LEMMA MonthsInOrder ==
  ASSUME NEW a \in 0..LastMonth, NEW b \in 0..LastMonth, a <= b
  PROVE  /\ MonthEnd[a] <= MonthEnd[b]
         /\ a < b => MonthEnd[a] + 28 <= MonthEnd[b]
<1> DEFINE T == {m \in 0..LastMonth : a <= m => MonthEnd[a] <= MonthEnd[m]}
<1>1. LastMonth \in Nat /\ \A m \in 0..LastMonth : MonthEnd[m] \in Nat
  BY MonthsOf, CalendarFacts
<1>2. 0 \in T
  BY <1>1
<1>3. ASSUME NEW m \in 0..(LastMonth - 1), m \in T  PROVE m + 1 \in T
  <2>1. m + 1 \in 1..LastMonth /\ (m + 1) - 1 = m /\ m + 1 \in 0..LastMonth
        /\ m \in 0..LastMonth
    BY <1>1
  <2>2. MonthEnd[m + 1] = MonthEnd[m] + MonthDays[m + 1] /\ MonthDays[m + 1] \in 28..31
    BY <2>1, CalendarFacts
  <2>3. MonthEnd[m + 1] >= MonthEnd[m]
    BY <1>1, <2>1, <2>2
  <2>4. CASE a = m + 1
    BY <1>1, <2>1, <2>4
  <2>5. CASE a # m + 1
    <3>1. a <= m + 1 => a <= m
      BY <1>1, <2>5
    <3> QED
      BY <1>1, <1>3, <2>1, <2>3, <3>1
  <2> QED
    BY <2>4, <2>5
<1>4. \A m \in 0..LastMonth : m \in T
  <2> HIDE DEF T
  <2> QED
    BY <1>1, <1>2, <1>3, UpTo
<1>5. \A m \in 0..LastMonth : a <= m => MonthEnd[a] <= MonthEnd[m]
  BY <1>4
<1>6. ASSUME a < b  PROVE MonthEnd[a] + 28 <= MonthEnd[b]
  <2>1. b \in 1..LastMonth /\ b - 1 \in 0..LastMonth /\ a <= b - 1
    BY <1>1, <1>6
  <2>2. MonthEnd[b] = MonthEnd[b - 1] + MonthDays[b] /\ MonthDays[b] \in 28..31
    BY <2>1, CalendarFacts
  <2>3. MonthEnd[a] <= MonthEnd[b - 1]
    BY <1>5, <2>1
  <2> QED
    BY <1>1, <2>1, <2>2, <2>3
<1> QED
  BY <1>5, <1>6

LEMMA MonthOfDay ==
  ASSUME NEW d \in Days
  PROVE  /\ d \in Nat /\ d > 0
         /\ Month[d] \in 1..LastMonth
         /\ MonthEnd[Month[d] - 1] < d /\ d <= MonthEnd[Month[d]]
<1>1. LastMonth \in Nat /\ LastMonth > 0 /\ \A m \in 0..LastMonth : MonthEnd[m] \in Nat
  BY MonthsOf, CalendarFacts
<1>2. LastMonth \in 0..LastMonth
  BY <1>1
<1>3. MonthEnd[LastMonth] \in Nat /\ d \in 1..MonthEnd[LastMonth]
  BY <1>1, <1>2 DEF Days
<1>4. d \in Nat /\ d > 0
  BY <1>3
<1> DEFINE T == {m \in 0..LastMonth : d <= MonthEnd[m]}
<1>5. T \in SUBSET Nat /\ LastMonth \in T
  BY <1>1, <1>2, <1>3
<1>6. PICK m \in T : \A k \in T : m <= k
  <2> HIDE DEF T
  <2> QED
    BY <1>5, LeastExists
<1>7. m \in 1..LastMonth
  <2>1. m # 0
    BY <1>4, <1>6, CalendarFacts
  <2> QED
    BY <1>1, <1>6, <2>1
<1>8. m - 1 \in 0..LastMonth /\ m - 1 \notin T
  <2>1. m - 1 \in 0..LastMonth /\ ~(m <= m - 1)
    BY <1>1, <1>7
  <2> QED
    BY <1>6, <2>1
<1>9. MonthEnd[m - 1] < d /\ d <= MonthEnd[m]
  BY <1>1, <1>4, <1>6, <1>8
<1>10. Month[d] = CHOOSE k \in 1..LastMonth : MonthEnd[k - 1] < d /\ d <= MonthEnd[k]
  BY DEF Month
<1> QED
  BY <1>4, <1>7, <1>9, <1>10

LEMMA MonthIs ==
  ASSUME NEW d \in Int, NEW m \in 1..LastMonth, MonthEnd[m - 1] < d, d <= MonthEnd[m]
  PROVE  d \in Days /\ Month[d] = m
<1>1. LastMonth \in Nat /\ LastMonth > 0 /\ \A k \in 0..LastMonth : MonthEnd[k] \in Nat
  BY MonthsOf, CalendarFacts
<1>2. m \in 0..LastMonth /\ m - 1 \in 0..LastMonth /\ LastMonth \in 0..LastMonth /\ m <= LastMonth
  BY <1>1
<1>3. MonthEnd[m] <= MonthEnd[LastMonth]
  BY <1>2, MonthsInOrder
<1>4. d \in Days
  BY <1>1, <1>2, <1>3 DEF Days
<1> DEFINE k == Month[d]
<1>5. k \in 1..LastMonth /\ MonthEnd[k - 1] < d /\ d <= MonthEnd[k]
  BY <1>4, MonthOfDay
<1> HIDE DEF k
<1>6. k \in 0..LastMonth /\ k - 1 \in 0..LastMonth
  BY <1>1, <1>5
<1>7. ~(k < m)
  <2>1. ASSUME k < m  PROVE FALSE
    <3>1. k <= m - 1
      BY <1>1, <1>5, <2>1
    <3>2. MonthEnd[k] <= MonthEnd[m - 1]
      BY <1>2, <1>6, <3>1, MonthsInOrder
    <3> QED
      BY <1>1, <1>2, <1>5, <1>6, <3>2
  <2> QED
    BY <2>1
<1>8. ~(m < k)
  <2>1. ASSUME m < k  PROVE FALSE
    <3>1. m <= k - 1
      BY <1>1, <1>5, <2>1
    <3>2. MonthEnd[m] <= MonthEnd[k - 1]
      BY <1>2, <1>6, <3>1, MonthsInOrder
    <3> QED
      BY <1>1, <1>2, <1>5, <1>6, <3>2
  <2> QED
    BY <2>1
<1>9. k = m
  BY <1>1, <1>5, <1>7, <1>8
<1> QED
  BY <1>4, <1>9 DEF k

LEMMA LaterMonth ==
  ASSUME NEW d \in Days, NEW e \in Days, d <= e
  PROVE  Month[d] <= Month[e]
<1> DEFINE k == Month[d]
           m == Month[e]
<1>1. LastMonth \in Nat /\ \A j \in 0..LastMonth : MonthEnd[j] \in Nat
  BY MonthsOf, CalendarFacts
<1>2. d \in Nat /\ e \in Nat
      /\ k \in 1..LastMonth /\ MonthEnd[k - 1] < d /\ d <= MonthEnd[k]
      /\ m \in 1..LastMonth /\ MonthEnd[m - 1] < e /\ e <= MonthEnd[m]
  BY MonthOfDay
<1> HIDE DEF k, m
<1>3. k - 1 \in 0..LastMonth /\ m \in 0..LastMonth
  BY <1>1, <1>2
<1>4. ~(m < k)
  <2>1. ASSUME m < k  PROVE FALSE
    <3>1. m <= k - 1
      BY <1>1, <1>2, <2>1
    <3>2. MonthEnd[m] <= MonthEnd[k - 1]
      BY <1>3, <3>1, MonthsInOrder
    <3> QED
      BY <1>1, <1>2, <1>3, <3>2
  <2> QED
    BY <2>1
<1>5. k <= m
  BY <1>1, <1>2, <1>4
<1> QED
  BY <1>5 DEF k, m

LEMMA DayFacts ==
  ASSUME NEW d \in Days
  PROVE  /\ Day(d) \in 1..31 /\ Day(d) <= MonthDays[Month[d]]
         /\ MonthDays[Month[d]] \in 28..31
         /\ d = MonthEnd[Month[d] - 1] + Day(d)
         /\ MonthEnd[Month[d]] = MonthEnd[Month[d] - 1] + MonthDays[Month[d]]
<1> DEFINE m == Month[d]
           x == MonthEnd[m]
           y == MonthEnd[m - 1]
           n == MonthDays[m]
<1>1. d \in Nat /\ m \in 1..LastMonth /\ y < d /\ d <= x
  BY MonthOfDay
<1>2. x = y + n /\ n \in 28..31 /\ y \in Nat
  BY <1>1, CalendarFacts
<1>3. Day(d) = d - y
  BY DEF Day
<1> HIDE DEF m, x, y, n
<1>4. Day(d) \in 1..31 /\ Day(d) <= n /\ d = y + Day(d)
  BY <1>1, <1>2, <1>3
<1> QED
  BY <1>2, <1>4 DEF m, x, y, n

LEMMA MinOfTwo ==
  ASSUME NEW a \in Int, NEW b \in Int
  PROVE  /\ Min({a, b}) = IF a <= b THEN a ELSE b
         /\ Max({a, b}) = IF a <= b THEN b ELSE a
<1> DEFINE lo == IF a <= b THEN a ELSE b
           hi == IF a <= b THEN b ELSE a
<1>1. lo \in {a, b} /\ \A y \in {a, b} : lo <= y
  OBVIOUS
<1>2. hi \in {a, b} /\ \A y \in {a, b} : hi >= y
  OBVIOUS
<1>3. \A x \in {a, b} : (\A y \in {a, b} : x <= y) => x = lo
  OBVIOUS
<1>4. \A x \in {a, b} : (\A y \in {a, b} : x >= y) => x = hi
  OBVIOUS
<1> HIDE DEF lo, hi
<1>5. Min({a, b}) = lo
  BY <1>1, <1>3 DEF Min
<1>6. Max({a, b}) = hi
  BY <1>2, <1>4 DEF Max
<1> QED
  BY <1>5, <1>6 DEF lo, hi

LEMMA InMonthFacts ==
  ASSUME NEW m \in 1..LastMonth, NEW day \in 1..31
  PROVE  /\ InMonth(m, day) = MonthEnd[m - 1] + (IF day <= MonthDays[m] THEN day ELSE MonthDays[m])
         /\ InMonth(m, day) \in Days /\ Month[InMonth(m, day)] = m
         /\ InMonth(m, day) \in Int
<1> DEFINE x == MonthEnd[m]
           y == MonthEnd[m - 1]
           n == MonthDays[m]
           s == IF day <= n THEN day ELSE n
           d == y + s
<1>1. x = y + n /\ n \in 28..31 /\ y \in Nat
  BY CalendarFacts
<1>2. Min({day, n}) = s
  <2> HIDE DEF n
  <2> QED
    BY <1>1, MinOfTwo
<1>3. InMonth(m, day) = d
  BY <1>2 DEF InMonth
<1> HIDE DEF x, y, n
<1>4. s \in 1..31 /\ s <= n /\ d \in Int /\ y < d /\ d <= x
  BY <1>1
<1> HIDE DEF s, d
<1>5. d \in Days /\ Month[d] = m
  BY <1>4, MonthIs DEF x, y
<1> QED
  BY <1>3, <1>4, <1>5 DEF d, s, x, y, n

-----------------------------------------------------------------------------
(* Weekends.                                                               *)

LEMMA WeekdayFacts ==
  ASSUME NEW d \in Int
  PROVE  /\ Weekday(d) \in 1..7
         /\ Weekday(d + 1) = IF Weekday(d) = 7 THEN 1 ELSE Weekday(d) + 1
         /\ Weekday(d + 2) = IF Weekday(d) >= 6 THEN Weekday(d) - 5 ELSE Weekday(d) + 2
         /\ Weekday(d - 1) = IF Weekday(d) = 1 THEN 7 ELSE Weekday(d) - 1
         /\ Weekday(d - 2) = IF Weekday(d) <= 2 THEN Weekday(d) + 5 ELSE Weekday(d) - 2
<1> DEFINE x == d + FirstWeekday - 2
<1>1. FirstWeekday \in Int /\ x \in Int
  BY CalendarAssumption
<1>2. /\ (d + 1) + FirstWeekday - 2 = x + 1 /\ (d + 2) + FirstWeekday - 2 = x + 2
      /\ (d - 1) + FirstWeekday - 2 = x - 1 /\ (d - 2) + FirstWeekday - 2 = x - 2
  BY <1>1
<1> HIDE DEF x
<1>3. /\ (x % 7) \in 0..6
      /\ (x + 1) % 7 = IF x % 7 = 6 THEN 0 ELSE (x % 7) + 1
      /\ (x + 2) % 7 = IF x % 7 >= 5 THEN (x % 7) - 5 ELSE (x % 7) + 2
      /\ (x - 1) % 7 = IF x % 7 = 0 THEN 6 ELSE (x % 7) - 1
      /\ (x - 2) % 7 = IF x % 7 <= 1 THEN (x % 7) + 5 ELSE (x % 7) - 2
  BY <1>1
<1>4. /\ Weekday(d) = (x % 7) + 1
      /\ Weekday(d + 1) = ((x + 1) % 7) + 1 /\ Weekday(d + 2) = ((x + 2) % 7) + 1
      /\ Weekday(d - 1) = ((x - 1) % 7) + 1 /\ Weekday(d - 2) = ((x - 2) % 7) + 1
  BY <1>2 DEF Weekday, x
<1> DEFINE w == x % 7
<1> HIDE DEF w
<1>5. /\ w \in 0..6 /\ Weekday(d) = w + 1
      /\ Weekday(d + 1) = (IF w = 6 THEN 0 ELSE w + 1) + 1
      /\ Weekday(d + 2) = (IF w >= 5 THEN w - 5 ELSE w + 2) + 1
      /\ Weekday(d - 1) = (IF w = 0 THEN 6 ELSE w - 1) + 1
      /\ Weekday(d - 2) = (IF w <= 1 THEN w + 5 ELSE w - 2) + 1
  BY <1>3, <1>4 DEF w
<1> QED
  BY <1>5

LEMMA LeaveFacts ==
  ASSUME NEW d \in Int
  PROVE  /\ LeaveWeekend(d) \in Int /\ d - 2 <= LeaveWeekend(d) /\ LeaveWeekend(d) <= d
         /\ Weekday(LeaveWeekend(d)) \in 1..5
         /\ Weekday(d) \in 1..5 => LeaveWeekend(d) = d
         /\ Weekday(d) = 6 => LeaveWeekend(d) = d - 1 /\ Weekday(d - 1) = 5
         /\ Weekday(d) = 7 => LeaveWeekend(d) = d - 2 /\ Weekday(d - 2) = 5
<1> DEFINE w == Weekday(d)
<1>1. /\ w \in 1..7
      /\ Weekday(d - 1) = IF w = 1 THEN 7 ELSE w - 1
      /\ Weekday(d - 2) = IF w <= 2 THEN w + 5 ELSE w - 2
  BY WeekdayFacts
<1>2. LeaveWeekend(d) = CASE w = 6 -> d - 1 [] w = 7 -> d - 2 [] OTHER -> d
  BY DEF LeaveWeekend, Saturday, Sunday
<1>3. w = 6 => LeaveWeekend(d) = d - 1 /\ Weekday(d - 1) = 5
  BY <1>1, <1>2
<1>4. w = 7 => LeaveWeekend(d) = d - 2 /\ Weekday(d - 2) = 5
  BY <1>1, <1>2
<1>5. w \in 1..5 => LeaveWeekend(d) = d
  BY <1>1, <1>2
<1> QED
  BY <1>1, <1>3, <1>4, <1>5

\* Two days that are not on a weekend, or have left it
LEMMA LeaveOrder ==
  ASSUME NEW a \in Int, NEW b \in Int
  PROVE  /\ Weekday(a) \in 1..5 /\ a <= b => a <= LeaveWeekend(b)
         /\ Weekday(a) \in 1..4 /\ a < b => a < LeaveWeekend(b)
         /\ Weekday(a) = 5 => (LeaveWeekend(b) <= a <=> b <= a + 2)
         /\ Weekday(a) = 5 => Weekday(a + 1) = 6 /\ Weekday(a + 2) = 7 /\ Weekday(a + 3) = 1
<1>1. /\ LeaveWeekend(b) \in Int /\ b - 2 <= LeaveWeekend(b) /\ LeaveWeekend(b) <= b
      /\ Weekday(b) \in 1..5 => LeaveWeekend(b) = b
      /\ Weekday(b) = 6 => LeaveWeekend(b) = b - 1 /\ Weekday(b - 1) = 5
      /\ Weekday(b) = 7 => LeaveWeekend(b) = b - 2 /\ Weekday(b - 2) = 5
  BY LeaveFacts
<1>2. /\ Weekday(a) \in 1..7 /\ Weekday(b) \in 1..7
      /\ Weekday(a + 1) = IF Weekday(a) = 7 THEN 1 ELSE Weekday(a) + 1
      /\ Weekday(a + 2) = IF Weekday(a) >= 6 THEN Weekday(a) - 5 ELSE Weekday(a) + 2
      /\ Weekday(b - 1) = IF Weekday(b) = 1 THEN 7 ELSE Weekday(b) - 1
  BY WeekdayFacts
<1>3. Weekday(a) = 5 => Weekday(a + 3) = 1
  <2>1. Weekday((a + 1) + 2) = IF Weekday(a + 1) >= 6 THEN Weekday(a + 1) - 5 ELSE Weekday(a + 1) + 2
    <3> DEFINE c == a + 1
    <3>1. c \in Int
      OBVIOUS
    <3> HIDE DEF c
    <3>2. Weekday(c + 2) = IF Weekday(c) >= 6 THEN Weekday(c) - 5 ELSE Weekday(c) + 2
      BY <3>1, WeekdayFacts
    <3> QED
      BY <3>2 DEF c
  <2>2. (a + 1) + 2 = a + 3
    OBVIOUS
  <2> QED
    BY <1>2, <2>1, <2>2
<1> DEFINE l == LeaveWeekend(b)
           wa == Weekday(a)
           wb == Weekday(b)
<1>4. wa = 5 => Weekday(a + 1) = 6 /\ Weekday(a + 2) = 7
  BY <1>2
<1>5. ASSUME wa \in 1..5, a <= b  PROVE a <= l
  <2>1. CASE wb \in 1..5
    BY <1>1, <1>5, <2>1
  <2>2. CASE wb = 6
    <3>1. a # b
      BY <1>5, <2>2
    <3> QED
      BY <1>1, <1>5, <2>2, <3>1
  <2>3. CASE wb = 7
    <3>1. a # b /\ a # b - 1
      BY <1>2, <1>5, <2>3
    <3> QED
      BY <1>1, <1>5, <2>3, <3>1
  <2> QED
    BY <1>2, <2>1, <2>2, <2>3
<1>6. ASSUME wa \in 1..4, a < b  PROVE a < l
  <2>1. wa \in 1..5 /\ a <= b
    BY <1>6
  <2>2. a <= l
    BY <1>5, <2>1
  <2>3. a # l
    <3>1. CASE wb \in 1..5
      BY <1>1, <1>6, <3>1
    <3>2. CASE wb = 6
      BY <1>1, <1>6, <3>2
    <3>3. CASE wb = 7
      BY <1>1, <1>6, <3>3
    <3> QED
      BY <1>2, <3>1, <3>2, <3>3
  <2> QED
    BY <1>1, <2>2, <2>3
<1>7. ASSUME wa = 5  PROVE l <= a <=> b <= a + 2
  <2>1. ASSUME l <= a  PROVE b <= a + 2
    BY <1>1, <2>1
  <2>2. ASSUME b <= a + 2  PROVE l <= a
    <3>1. CASE b <= a
      BY <1>1, <3>1
    <3>2. CASE b = a + 1
      BY <1>1, <1>4, <1>7, <3>2
    <3>3. CASE b = a + 2
      BY <1>1, <1>4, <1>7, <3>3
    <3> QED
      BY <2>2, <3>1, <3>2, <3>3
  <2> QED
    BY <2>1, <2>2
<1> QED
  BY <1>3, <1>4, <1>5, <1>6, <1>7

LEMMA AdjustFacts ==
  ASSUME NEW d \in Int
  PROVE  /\ AdjustWeekend(d, "none") = d
         /\ AdjustWeekend(d, "back") = LeaveWeekend(d)
         /\ AdjustWeekend(d, "forward") \in d..(d + 2)
         /\ \A x \in Int : Weekday(x) \in 1..5 /\ d <= x => AdjustWeekend(d, "forward") <= x
<1>1. Weekday(d) \in 1..7 /\ Weekday(d + 1) = (IF Weekday(d) = 7 THEN 1 ELSE Weekday(d) + 1)
  BY WeekdayFacts
<1>2. Weekday(d) \notin {6, 7} => LeaveWeekend(d) = d
  BY DEF LeaveWeekend, Saturday, Sunday
<1>3. AdjustWeekend(d, "none") = d
  BY DEF AdjustWeekend
<1>4. AdjustWeekend(d, "back") = LeaveWeekend(d)
  BY <1>2 DEF AdjustWeekend, Saturday, Sunday
<1>5. AdjustWeekend(d, "forward") = IF Weekday(d) = 6 THEN d + 2 ELSE IF Weekday(d) = 7 THEN d + 1 ELSE d
  BY DEF AdjustWeekend, Saturday, Sunday
<1>6. ASSUME NEW x \in Int, Weekday(x) \in 1..5, d <= x  PROVE AdjustWeekend(d, "forward") <= x
  <2>1. CASE Weekday(d) = 6
    <3>1. x # d /\ x # d + 1
      BY <1>1, <1>6, <2>1
    <3> QED
      BY <1>5, <1>6, <2>1, <3>1
  <2>2. CASE Weekday(d) = 7
    <3>1. x # d
      BY <1>6, <2>2
    <3> QED
      BY <1>5, <1>6, <2>2, <3>1
  <2>3. CASE Weekday(d) \notin {6, 7}
    BY <1>5, <1>6, <2>3
  <2> QED
    BY <2>1, <2>2, <2>3
<1> QED
  BY <1>3, <1>4, <1>5, <1>6

-----------------------------------------------------------------------------
(* The last weekday of a month.                                            *)

LEMMA SameWeekday ==
  ASSUME NEW a \in Int, NEW b \in Int
  PROVE  /\ Weekday(a) = Weekday(b) /\ a - b \in -6..6 => a = b
         /\ Weekday(a + 7) = Weekday(a) /\ Weekday(a - 7) = Weekday(a)
         /\ Weekday(a + ((Weekday(b) - Weekday(a) + 7) % 7)) = Weekday(b)
<1> DEFINE x == a + FirstWeekday - 2
           y == b + FirstWeekday - 2
           k == (Weekday(b) - Weekday(a) + 7) % 7
<1>1. FirstWeekday \in Int /\ x \in Int /\ y \in Int
  BY CalendarAssumption
<1>2. Weekday(a) = (x % 7) + 1 /\ Weekday(b) = (y % 7) + 1
  BY DEF Weekday
<1>3. a - b = x - y
  BY <1>1
<1>4. (a + 7) + FirstWeekday - 2 = x + 7 /\ (a - 7) + FirstWeekday - 2 = x - 7
  BY <1>1
<1>5. Weekday(a + 7) = ((x + 7) % 7) + 1 /\ Weekday(a - 7) = ((x - 7) % 7) + 1
  BY <1>4 DEF Weekday
<1>6. k = ((y % 7) - (x % 7) + 7) % 7
  BY <1>1, <1>2
<1>7. k \in Int
  BY <1>1, <1>6
<1>8. (a + k) + FirstWeekday - 2 = x + k
  BY <1>1, <1>7
<1>9. Weekday(a + k) = ((x + k) % 7) + 1
  BY <1>8 DEF Weekday
<1> HIDE DEF x, y, k
<1>10. x % 7 = y % 7 /\ x - y \in -6..6 => x = y
  BY <1>1
<1>11. (x + 7) % 7 = x % 7 /\ (x - 7) % 7 = x % 7
  BY <1>1
<1>12. (x + k) % 7 = y % 7
  BY <1>1, <1>6
<1>13. Weekday(a) = Weekday(b) /\ a - b \in -6..6 => a = b
  <2>1. ASSUME Weekday(a) = Weekday(b), a - b \in -6..6  PROVE a = b
    <3>1. x % 7 = y % 7
      BY <1>1, <1>2, <2>1
    <3>2. x - y \in -6..6
      BY <1>3, <2>1
    <3>3. x = y
      BY <1>10, <3>1, <3>2
    <3> QED
      BY <1>1, <1>3, <3>3
  <2> QED
    BY <2>1
<1> QED
  BY <1>2, <1>5, <1>9, <1>11, <1>12, <1>13 DEF k

LEMMA LastWeekdayFacts ==
  ASSUME NEW m \in 1..LastMonth, NEW start \in Int
  PROVE  /\ Max(WeekdaysOf(m, start)) \in (MonthEnd[m] - 6)..MonthEnd[m]
         /\ Weekday(Max(WeekdaysOf(m, start))) = Weekday(start)
         /\ \A x \in (MonthEnd[m] - 6)..MonthEnd[m] :
              Weekday(x) = Weekday(start) => x = Max(WeekdaysOf(m, start))
<1> DEFINE e == MonthEnd[m]
           W == WeekdaysOf(m, start)
           a == e - 6
           k == (Weekday(start) - Weekday(a) + 7) % 7
           x == a + k
<1>1. e \in Nat /\ MonthEnd[m - 1] \in Nat /\ e >= MonthEnd[m - 1] + 28
  BY CalendarFacts
<1>2. a \in Int /\ k \in 0..6 /\ Weekday(start) \in 1..7
  BY <1>1, WeekdayFacts
<1>3. Weekday(x) = Weekday(start)
  <2> HIDE DEF a
  <2> QED
    BY <1>2, SameWeekday
<1> HIDE DEF k
<1>4. x \in Int /\ e - 6 <= x /\ x <= e /\ MonthEnd[m - 1] + 1 <= x
  BY <1>1, <1>2
<1>5. \A d : d \in W <=> d \in (MonthEnd[m - 1] + 1)..e /\ Weekday(d) = Weekday(start)
  BY DEF WeekdaysOf
<1> HIDE DEF e, W, x
<1>6. x \in W
  BY <1>1, <1>3, <1>4, <1>5
<1>7. W \in SUBSET (0..e)
  BY <1>1, <1>5
<1>8. Max(W) \in W /\ \A y \in W : y <= Max(W)
  BY <1>1, <1>6, <1>7, MaxIsGreatest
<1>9. Max(W) \in (e - 6)..e /\ Weekday(Max(W)) = Weekday(start)
  BY <1>1, <1>4, <1>5, <1>6, <1>7, <1>8
<1>10. \A y \in (e - 6)..e : Weekday(y) = Weekday(start) => y = Max(W)
  <2> DEFINE w == Max(W)
  <2>1. w \in (e - 6)..e /\ Weekday(w) = Weekday(start)
    BY <1>9
  <2> HIDE DEF w
  <2>2. ASSUME NEW y \in (e - 6)..e, Weekday(y) = Weekday(start)  PROVE y = w
    <3>1. y \in Int /\ w \in Int /\ y - w \in -6..6
      BY <1>1, <2>1
    <3> QED
      BY <2>1, <2>2, <3>1, SameWeekday
  <2> QED
    BY <2>2 DEF w
<1> QED
  BY <1>9, <1>10 DEF e, W

LEMMA LastWeekdayIs ==
  ASSUME NEW start \in Days, NEW d \in Days, Day(start) >= 22
  PROVE  d + NthWeekdayOffset(start, d, "last weekday") = Max(WeekdaysOf(Month[d], start))
<1> DEFINE m == Month[d]
           a == MonthEnd[m - 1]
           n == MonthDays[m]
           k == (Day(d) - Weekday(d) + Weekday(start) + 7) % 7
           match == 21 + k
           x == a + match + (IF n - match >= 7 THEN 7 ELSE 0)
<1>1. /\ d \in Int /\ m \in 1..LastMonth /\ Day(d) \in 1..31 /\ n \in 28..31 /\ d = a + Day(d)
      /\ MonthEnd[m] = a + n /\ a \in Nat
  BY MonthOfDay, DayFacts, CalendarFacts
<1>2. Weekday(d) \in 1..7 /\ Weekday(start) \in 1..7 /\ start \in Int
  BY <1>1, MonthOfDay, WeekdayFacts
<1>3. k \in 0..6
  BY <1>1, <1>2
<1>4. Min({(Day(start) - 1) \div 7, 3}) = 3
  <2> DEFINE q == (Day(start) - 1) \div 7
  <2>1. q \in Int /\ q >= 3
    BY DayFacts
  <2> HIDE DEF q
  <2>2. Min({q, 3}) = IF q <= 3 THEN q ELSE 3
    BY <2>1, MinOfTwo
  <2> QED
    BY <2>1, <2>2 DEF q
<1>5. NthWeekdayOffset(start, d, "last weekday") =
        match + (IF n - match >= 7 THEN 7 ELSE 0) - Day(d)
  BY <1>4 DEF NthWeekdayOffset
<1>6. Weekday(a + match) = Weekday(start)
  <2> DEFINE y == d + FirstWeekday - 2
             z == start + FirstWeekday - 2
  <2>1. FirstWeekday \in Int /\ y \in Int /\ z \in Int
    BY <1>1, <1>2, CalendarAssumption
  <2>2. Weekday(d) = (y % 7) + 1 /\ Weekday(start) = (z % 7) + 1
    BY DEF Weekday
  <2>3. (a + match) + FirstWeekday - 2 = y - Day(d) + match
    BY <1>1, <1>3, <2>1
  <2>4. Weekday(a + match) = ((y - Day(d) + match) % 7) + 1
    BY <2>3 DEF Weekday
  <2>5. k = (Day(d) - (y % 7) + (z % 7) + 7) % 7
    BY <1>1, <1>2, <2>1, <2>2
  <2> DEFINE u == Day(d) - (y % 7) + (z % 7) + 7
             p == y \div 7
             t == u \div 7
             v == p + 4 - t
  <2>6. y = 7 * p + (y % 7) /\ p \in Int /\ (y % 7) \in 0..6 /\ (z % 7) \in 0..6
    <3> HIDE DEF y, z
    <3> QED
      BY <2>1
  <2>7. u \in Int
    <3> HIDE DEF y, z
    <3> QED
      BY <1>1, <2>6
  <2>8. u = 7 * t + k /\ t \in Int
    <3> HIDE DEF y, z, k
    <3> HIDE DEF u
    <3> QED
      BY <2>5, <2>7 DEF u
  <2> DEFINE ry == y % 7
             rz == z % 7
  <2>9. ry \in 0..6 /\ rz \in 0..6 /\ y = 7 * p + ry /\ p \in Int /\ u = Day(d) - ry + rz + 7
    BY <2>6
  <2> HIDE DEF y, z, k, ry, rz, u, p, t
  <2>10. y - Day(d) + (21 + k) = 7 * v + rz /\ v \in Int
    BY <1>1, <1>3, <2>1, <2>8, <2>9
  <2> HIDE DEF v
  <2>11. (7 * v + rz) % 7 = rz
    BY <2>9, <2>10
  <2>12. (y - Day(d) + (21 + k)) % 7 = z % 7
    BY <2>10, <2>11 DEF rz
  <2> QED
    BY <2>2, <2>4, <2>12
<1>7. Weekday(a + match + 7) = Weekday(start)
  <2> DEFINE c == a + match
  <2>1. c \in Int
    BY <1>1, <1>3
  <2>2. Weekday(c) = Weekday(start)
    BY <1>6
  <2> HIDE DEF c
  <2>3. Weekday(c + 7) = Weekday(start)
    BY <2>1, <2>2, SameWeekday
  <2> QED
    BY <2>3 DEF c
<1> HIDE DEF k
<1>8. x \in (MonthEnd[m] - 6)..MonthEnd[m]
  <2> HIDE DEF a, n, m
  <2> QED
    BY <1>1, <1>3
<1>9. Weekday(x) = Weekday(start)
  <2>1. CASE n - match >= 7
    <3>1. x = a + match + 7
      BY <2>1
    <3> QED
      BY <1>7, <3>1
  <2>2. CASE ~(n - match >= 7)
    <3>1. x = a + match
      BY <1>1, <1>3, <2>2
    <3> QED
      BY <1>6, <3>1
  <2> QED
    BY <2>1, <2>2
<1>10. d + NthWeekdayOffset(start, d, "last weekday") = x
  <2> DEFINE off == NthWeekdayOffset(start, d, "last weekday")
             f == IF n - match >= 7 THEN 7 ELSE 0
             day == Day(d)
  <2>1. off = match + f - day
    BY <1>5
  <2>2. f \in Int /\ match \in Int /\ day \in Int /\ a \in Int /\ d = a + day
    BY <1>1, <1>3
  <2> HIDE DEF off, f, day, a, n, m, match
  <2>3. d + off = a + match + f
    BY <2>1, <2>2
  <2> QED
    BY <2>3 DEF off, f
<1> HIDE DEF x, m
<1>11. x = Max(WeekdaysOf(m, start))
  BY <1>1, <1>2, <1>8, <1>9, LastWeekdayFacts
<1> QED
  BY <1>10, <1>11 DEF m

-----------------------------------------------------------------------------
(* What recurrenceSet makes, and the day it asks for in each month.        *)

\* (Named because the prover's arithmetic does not take strings with blanks.)
AtEnd(pt)  == pt = "end of month"
OnLast(pt) == pt = "last weekday"
OnNth(pt)  == pt = "nth weekday"

WellMade(r) ==
  /\ r.start \in Days
  /\ r.ptype \in PeriodTypes /\ ~OnNth(r.ptype)
  /\ r.mult \in Nat /\ (r.ptype # "once" => r.mult > 0)
  /\ r.wadj \in Adjustments /\ (r.ptype \notin Adjusted => r.wadj = "none")
  /\ AtEnd(r.ptype) => r.start = MonthEnd[Month[r.start]]
  /\ OnLast(r.ptype) => r.start + 7 > MonthEnd[Month[r.start]]

\* The day of the month, before the weekend is considered
Base(r, m) ==
  IF OnLast(r.ptype) THEN Max(WeekdaysOf(m, r.start))
  ELSE InMonth(m, IF AtEnd(r.ptype) THEN 31 ELSE Day(r.start))
Due(r, m) == AdjustWeekend(Base(r, m), r.wadj)

LEMMA LastSameFacts ==
  ASSUME NEW d \in Days
  PROVE  /\ LastSameWeekday(d) \in Days
         /\ LastSameWeekday(d) + 7 > MonthEnd[Month[LastSameWeekday(d)]]
<1> DEFINE m == Month[d]
           e == MonthEnd[m]
           W == {x \in d..e : Weekday(x) = Weekday(d)}
           x == LastSameWeekday(d)
<1>1. d \in Nat /\ d > 0 /\ m \in 1..LastMonth /\ MonthEnd[m - 1] < d /\ d <= e
  BY MonthOfDay
<1>2. e \in Nat /\ MonthEnd[m - 1] \in Nat
  BY <1>1, CalendarFacts
<1>3. x = Max(W)
  BY DEF LastSameWeekday
<1>4. \A y : y \in W <=> y \in d..e /\ Weekday(y) = Weekday(d)
  OBVIOUS
<1> HIDE DEF e, W, x, m
<1>5. d \in W /\ W \in SUBSET (0..e)
  BY <1>1, <1>2, <1>4
<1>6. x \in W /\ \A y \in W : y <= x
  BY <1>2, <1>3, <1>5, MaxIsGreatest
<1>7. x \in Int /\ d <= x /\ x <= e /\ Weekday(x) = Weekday(d)
  BY <1>1, <1>2, <1>4, <1>6
<1>8. x \in Days /\ Month[x] = m
  <2>1. MonthEnd[m - 1] < x
    BY <1>1, <1>2, <1>7
  <2> QED
    BY <1>1, <1>7, <2>1, MonthIs DEF e
<1>9. ~(x + 7 <= e)
  <2>1. ASSUME x + 7 <= e  PROVE FALSE
    <3>1. Weekday(x + 7) = Weekday(d)
      BY <1>7, SameWeekday
    <3>2. x + 7 \in W
      BY <1>1, <1>2, <1>4, <1>7, <2>1, <3>1
    <3> QED
      BY <1>6, <1>7, <3>2
  <2> QED
    BY <2>1
<1>10. x + 7 > MonthEnd[Month[x]]
  BY <1>2, <1>7, <1>8, <1>9 DEF e
<1> QED
  BY <1>8, <1>10 DEF x

LEMMA MonthEndFacts ==
  ASSUME NEW m \in 1..LastMonth
  PROVE  MonthEnd[m] \in Days /\ Month[MonthEnd[m]] = m
<1>1. MonthEnd[m] \in Int /\ MonthEnd[m - 1] < MonthEnd[m]
  BY CalendarFacts
<1> QED
  BY <1>1, MonthIs

LEMMA MadeWell ==
  ASSUME NEW mult \in Nat, NEW pt, NEW start \in Days, NEW wadj \in Adjustments,
         ~OnNth(RecurrenceSet(mult, pt, start, wadj).ptype)
  PROVE  WellMade(RecurrenceSet(mult, pt, start, wadj))
<1> DEFINE asked1 == IF pt \in PeriodTypes THEN pt ELSE "month"
           fifth == (Day(start) - 1) \div 7 = 4
           type == IF OnNth(asked1) /\ fifth THEN "last weekday" ELSE asked1
           mm == IF pt = "once" THEN 0 ELSE Max({mult, 1})
           st == CASE AtEnd(asked1) -> MonthEnd[Month[start]]
                   [] OnLast(asked1) -> LastSameWeekday(start)
                   [] OTHER -> start
           wa == IF type \in Adjusted THEN wadj ELSE "none"
           r == RecurrenceSet(mult, pt, start, wadj)
<1>1. r = [ptype |-> type, mult |-> mm, start |-> st, wadj |-> wa]
  BY DEF RecurrenceSet, AtEnd, OnLast, OnNth
<1>2. r.ptype = type /\ r.mult = mm /\ r.start = st /\ r.wadj = wa
  <2> HIDE DEF type, mm, st, wa, r
  <2> QED
    BY <1>1
<1>3. asked1 \in PeriodTypes /\ type \in PeriodTypes /\ ~OnNth(type)
  <2>1. asked1 \in PeriodTypes
    BY DEF PeriodTypes, Monthly
  <2>2. type \in PeriodTypes
    BY <2>1 DEF PeriodTypes, Monthly
  <2>3. ~OnNth(type)
    BY <1>2
  <2> QED
    BY <2>1, <2>2, <2>3
<1>4. mm \in Nat /\ (type # "once" => mm > 0)
  <2>1. Max({mult, 1}) = IF mult <= 1 THEN 1 ELSE mult
    <3> HIDE DEF asked1, fifth, type, mm, st, wa, r
    <3>1. mult \in Int /\ 1 \in Int
      OBVIOUS
    <3> QED
      BY ONLY <3>1, MinOfTwo
  <2>2. pt = "once" => type = "once"
    BY DEF PeriodTypes, OnNth
  <2>3. mm = IF pt = "once" THEN 0 ELSE IF mult <= 1 THEN 1 ELSE mult
    BY <2>1
  <2>4. type # "once" => pt # "once"
    BY <2>2
  <2> HIDE DEF asked1, fifth, type, mm, st, wa, r
  <2> QED
    BY <2>3, <2>4
<1>5. wa \in Adjustments /\ (type \notin Adjusted => wa = "none")
  BY DEF Adjustments
<1>6. Month[start] \in 1..LastMonth /\ start <= MonthEnd[Month[start]]
  BY MonthOfDay
<1>10. ASSUME st \in Days,
             AtEnd(type) => st = MonthEnd[Month[st]],
             OnLast(type) => st + 7 > MonthEnd[Month[st]]
      PROVE  WellMade(r)
  <2> HIDE DEF asked1, fifth, st, type, mm, wa, r
  <2>1. r.start \in Days /\ r.ptype \in PeriodTypes /\ ~OnNth(r.ptype)
    BY <1>2, <1>3, <1>10
  <2>2. r.mult \in Nat
    BY <1>2, <1>4
  <2>3. r.ptype # "once" => r.mult > 0
    BY <1>2, <1>4
  <2>4. r.wadj \in Adjustments /\ (r.ptype \notin Adjusted => r.wadj = "none")
    BY <1>2, <1>5
  <2>5. AtEnd(r.ptype) => r.start = MonthEnd[Month[r.start]]
    BY <1>2, <1>10
  <2>6. OnLast(r.ptype) => r.start + 7 > MonthEnd[Month[r.start]]
    BY <1>2, <1>10
  <2> QED
    BY <2>1, <2>2, <2>3, <2>4, <2>5, <2>6 DEF WellMade
<1>7. CASE AtEnd(asked1)
  <2>1. st = MonthEnd[Month[start]] /\ AtEnd(type) /\ ~OnLast(type)
    BY <1>7 DEF AtEnd, OnLast, OnNth
  <2>2. st \in Days /\ st = MonthEnd[Month[st]]
    <3> HIDE DEF st
    <3> QED
      BY <1>6, <2>1, MonthEndFacts
  <2> QED
    BY <1>10, <2>1, <2>2
<1>8. CASE OnLast(asked1)
  <2>1. st = LastSameWeekday(start) /\ OnLast(type) /\ ~AtEnd(type)
    BY <1>8 DEF AtEnd, OnLast, OnNth
  <2>2. st \in Days /\ st + 7 > MonthEnd[Month[st]]
    <3> HIDE DEF st
    <3> QED
      BY <2>1, LastSameFacts
  <2> QED
    BY <1>10, <2>1, <2>2
<1>9. CASE ~AtEnd(asked1) /\ ~OnLast(asked1)
  <2>1. st = start /\ ~AtEnd(type)
    BY <1>9 DEF AtEnd
  <2>2. OnLast(type) => start + 7 > MonthEnd[Month[start]]
    <3>1. ASSUME OnLast(type)  PROVE start + 7 > MonthEnd[Month[start]]
      <4>1. fifth
        BY <1>9, <3>1 DEF OnLast
      <4> DEFINE day == Day(start)
                 a == MonthEnd[Month[start] - 1]
                 n == MonthDays[Month[start]]
                 e == MonthEnd[Month[start]]
      <4>2. day \in 1..31 /\ n \in 28..31 /\ start = a + day /\ e = a + n /\ a \in Nat
        BY <1>6, DayFacts, CalendarFacts
      <4>3. (day - 1) \div 7 = 4
        BY <4>1
      <4> HIDE DEF day, a, n, e, fifth, asked1, type, mm, st, wa, r
      <4>4. day - 1 >= 28
        BY ONLY <4>2, <4>3
      <4>5. start + 7 > e
        BY ONLY <4>2, <4>4
      <4> QED
        BY <4>5 DEF e
    <3> QED
      BY <3>1
  <2> QED
    BY <1>10, <2>1, <2>2
<1> QED
  BY <1>7, <1>8, <1>9

LEMMA WellFields ==
  ASSUME NEW r, WellMade(r)
  PROVE  /\ r.start \in Days /\ r.start \in Nat /\ r.start > 0
         /\ Month[r.start] \in 1..LastMonth
         /\ Day(r.start) \in 1..31
         /\ r.wadj \in {"none", "back", "forward"}
<1> DEFINE s == r.start
<1>1. s \in Days
  BY DEF WellMade
<1>2. r.wadj \in {"none", "back", "forward"}
  BY DEF WellMade, Adjustments
<1> HIDE DEF s
<1>3. s \in Nat /\ s > 0 /\ Month[s] \in 1..LastMonth /\ Day(s) \in 1..31
  BY <1>1, MonthOfDay, DayFacts
<1> QED
  BY <1>1, <1>2, <1>3 DEF s

LEMMA BaseFacts ==
  ASSUME NEW r, WellMade(r), r.ptype \in Monthly, NEW m \in 1..LastMonth
  PROVE  /\ Base(r, m) \in Days /\ Month[Base(r, m)] = m
         /\ Base(r, m) \in Int /\ MonthEnd[m - 1] < Base(r, m) /\ Base(r, m) <= MonthEnd[m]
         /\ Due(r, m) \in Int /\ Base(r, m) - 2 <= Due(r, m) /\ Due(r, m) <= Base(r, m) + 2
<1> DEFINE b == Base(r, m)
<1>1. MonthEnd[m] \in Nat /\ MonthEnd[m - 1] \in Nat /\ MonthEnd[m] >= MonthEnd[m - 1] + 28
  BY CalendarFacts
<1>2. r.start \in Days /\ r.start \in Int /\ Day(r.start) \in 1..31
  BY WellFields
<1>3. b \in Days /\ Month[b] = m
  <2>1. CASE OnLast(r.ptype)
    <3>1. b = Max(WeekdaysOf(m, r.start))
      BY <2>1 DEF Base
    <3> HIDE DEF b
    <3>2. b \in (MonthEnd[m] - 6)..MonthEnd[m]
      BY <1>2, <3>1, LastWeekdayFacts
    <3>3. b \in Int /\ MonthEnd[m - 1] < b /\ b <= MonthEnd[m]
      BY <1>1, <3>2
    <3> QED
      BY <3>3, MonthIs
  <2>2. CASE ~OnLast(r.ptype)
    <3> DEFINE s == Day(r.start)
               day == IF AtEnd(r.ptype) THEN 31 ELSE s
    <3>1. day \in 1..31
      <4>1. s \in 1..31
        BY <1>2
      <4> HIDE DEF s
      <4>2. AtEnd(r.ptype) => day = 31
        OBVIOUS
      <4>3. ~AtEnd(r.ptype) => day = s
        OBVIOUS
      <4> HIDE DEF day
      <4> QED
        BY <4>1, <4>2, <4>3
    <3>2. b = InMonth(m, day)
      BY <2>2 DEF Base
    <3> HIDE DEF day, b
    <3> QED
      BY <3>1, <3>2, InMonthFacts
  <2> QED
    BY <2>1, <2>2
<1> HIDE DEF b
<1>4. b \in Int /\ MonthEnd[m - 1] < b /\ b <= MonthEnd[m]
  BY <1>3, MonthOfDay
<1>5. Due(r, m) \in Int /\ b - 2 <= Due(r, m) /\ Due(r, m) <= b + 2
  <2>1. Due(r, m) = AdjustWeekend(b, r.wadj)
    BY DEF Due, b
  <2>2. r.wadj \in {"none", "back", "forward"}
    BY WellFields
  <2>3. /\ AdjustWeekend(b, "none") = b
        /\ AdjustWeekend(b, "back") = LeaveWeekend(b)
        /\ AdjustWeekend(b, "forward") \in b..(b + 2)
        /\ LeaveWeekend(b) \in Int /\ b - 2 <= LeaveWeekend(b) /\ LeaveWeekend(b) <= b
    BY <1>4, AdjustFacts, LeaveFacts
  <2> DEFINE u == Due(r, m)
  <2>4. CASE r.wadj = "none"
    BY <1>4, <2>1, <2>3, <2>4
  <2>5. CASE r.wadj = "back"
    BY <1>4, <2>1, <2>3, <2>5
  <2>6. CASE r.wadj = "forward"
    <3>1. u \in b..(b + 2)
      BY <2>1, <2>3, <2>6
    <3> HIDE DEF u
    <3>2. u \in Int /\ b - 2 <= u /\ u <= b + 2
      BY <1>4, <3>1
    <3> QED
      BY <3>2 DEF u
  <2> QED
    BY <2>2, <2>4, <2>5, <2>6
<1> QED
  BY <1>3, <1>4, <1>5 DEF b

LEMMA BaseOfStart ==
  ASSUME NEW r, WellMade(r), r.ptype \in Monthly
  PROVE  Base(r, Month[r.start]) = r.start
<1> DEFINE s == r.start
           m == Month[s]
<1>1. s \in Days /\ s \in Int /\ m \in 1..LastMonth /\ s <= MonthEnd[m] /\ MonthEnd[m] \in Nat
  <2>1. s \in Days
    BY WellFields
  <2> HIDE DEF s
  <2> QED
    BY <2>1, MonthOfDay, CalendarFacts
<1>2. CASE OnLast(r.ptype)
  <2>1. s \in (MonthEnd[m] - 6)..MonthEnd[m]
    <3>1. s + 7 > MonthEnd[m]
      BY <1>2 DEF WellMade
    <3> HIDE DEF s, m
    <3> QED
      BY <1>1, <3>1
  <2>2. Weekday(s) = Weekday(s)
    OBVIOUS
  <2> HIDE DEF s, m
  <2>3. s = Max(WeekdaysOf(m, s))
    BY <1>1, <2>1, LastWeekdayFacts
  <2> QED
    BY <1>2, <2>3 DEF Base, s, m
<1>3. CASE AtEnd(r.ptype)
  <2>1. InMonth(m, 31) = MonthEnd[m - 1] + (IF 31 <= MonthDays[m] THEN 31 ELSE MonthDays[m])
    <3> HIDE DEF m
    <3> QED
      BY <1>1, InMonthFacts
  <2>2. MonthDays[m] \in 28..31 /\ MonthEnd[m] = MonthEnd[m - 1] + MonthDays[m]
    BY <1>1, CalendarFacts
  <2>3. InMonth(m, 31) = MonthEnd[m]
    BY <2>1, <2>2
  <2>4. MonthEnd[m] = s
    BY <1>3 DEF WellMade
  <2>5. ~OnLast(r.ptype)
    BY <1>3 DEF AtEnd, OnLast
  <2> QED
    BY <1>3, <2>3, <2>4, <2>5 DEF Base
<1>4. CASE ~OnLast(r.ptype) /\ ~AtEnd(r.ptype)
  <2>1. Day(s) \in 1..31 /\ Day(s) <= MonthDays[m] /\ s = MonthEnd[m - 1] + Day(s)
    BY <1>1, DayFacts
  <2>2. InMonth(m, Day(s)) = MonthEnd[m - 1] + (IF Day(s) <= MonthDays[m] THEN Day(s) ELSE MonthDays[m])
    <3> HIDE DEF m
    <3> QED
      BY <1>1, <2>1, InMonthFacts
  <2>3. InMonth(m, Day(s)) = s
    BY <2>1, <2>2
  <2> QED
    BY <1>4, <2>3 DEF Base
<1> QED
  BY <1>2, <1>3, <1>4

-----------------------------------------------------------------------------
(* Which months' days are passed on a date, and how the code asks.         *)

Passed(r, x) == IF Base(r, Month[x]) <= x THEN Month[x] ELSE Month[x] - 1

LEMMA Passing ==
  ASSUME NEW r, WellMade(r), r.ptype \in Monthly, NEW x \in Days
  PROVE  /\ Passed(r, x) \in 0..LastMonth /\ Passed(r, x) \in {Month[x], Month[x] - 1}
         /\ \A m \in 1..LastMonth : Base(r, m) <= x <=> m <= Passed(r, x)
<1> DEFINE k == Month[x]
           c == Passed(r, x)
           b == Base(r, k)
<1>1. /\ k \in 1..LastMonth /\ x \in Int /\ MonthEnd[k - 1] < x /\ x <= MonthEnd[k]
      /\ LastMonth \in Nat
  BY MonthOfDay, MonthsOf
<1>2. c = IF b <= x THEN k ELSE k - 1
  BY DEF Passed
<1>3. b \in Int
  BY <1>1, BaseFacts
<1> HIDE DEF k, c
<1>4. c \in 0..LastMonth /\ c \in {k, k - 1}
  BY <1>1, <1>2, <1>3
<1>5. ASSUME NEW m \in 1..LastMonth  PROVE Base(r, m) <= x <=> m <= c
  <2> DEFINE a == Base(r, m)
  <2>1. a \in Int /\ MonthEnd[m - 1] < a /\ a <= MonthEnd[m]
    BY BaseFacts
  <2>2. /\ m \in 0..LastMonth /\ m - 1 \in 0..LastMonth
        /\ k \in 0..LastMonth /\ k - 1 \in 0..LastMonth
    BY <1>1
  <2>3. /\ MonthEnd[m] \in Int /\ MonthEnd[m - 1] \in Int
        /\ MonthEnd[k] \in Int /\ MonthEnd[k - 1] \in Int
    BY <2>2, CalendarFacts
  <2>4. CASE m = k
    <3>1. a = b
      BY <2>4
    <3> HIDE DEF a, b
    <3> QED
      BY <1>1, <1>2, <1>3, <2>4, <3>1 DEF a
  <2> HIDE DEF a, b
  <2>5. CASE m < k
    <3>1. m <= k - 1
      BY <1>1, <2>5
    <3>2. MonthEnd[m] <= MonthEnd[k - 1]
      BY <2>2, <3>1, MonthsInOrder
    <3>3. a <= x /\ m <= c
      BY <1>1, <1>4, <2>1, <2>3, <3>1, <3>2
    <3> QED
      BY <3>3 DEF a
  <2>6. CASE m > k
    <3>1. k <= m - 1
      BY <1>1, <2>6
    <3>2. MonthEnd[k] <= MonthEnd[m - 1]
      BY <2>2, <3>1, MonthsInOrder
    <3>3. ~(a <= x) /\ ~(m <= c)
      BY <1>1, <1>4, <2>1, <2>3, <2>6, <3>2
    <3> QED
      BY <3>3 DEF a
  <2> QED
    BY <1>1, <2>4, <2>5, <2>6
<1> QED
  BY <1>4, <1>5 DEF k, c

ByDay(pt) == pt \in {"month", "year"}

LEMMA KindFacts ==
  ASSUME NEW r, WellMade(r), r.ptype \in Monthly
  PROVE  /\ AtEnd(r.ptype) => ~ByDay(r.ptype) /\ ~OnLast(r.ptype) /\ r.ptype \in Adjusted
         /\ OnLast(r.ptype) => ~ByDay(r.ptype) /\ ~AtEnd(r.ptype) /\ r.ptype \notin Adjusted
         /\ ByDay(r.ptype) => ~OnLast(r.ptype) /\ ~AtEnd(r.ptype) /\ r.ptype \in Adjusted
         /\ AtEnd(r.ptype) \/ OnLast(r.ptype) \/ ByDay(r.ptype)
         /\ ~OnNth(r.ptype)
         /\ r.ptype \notin Adjusted => r.wadj = "none"
<1>1. ~OnNth(r.ptype) /\ (r.ptype \notin Adjusted => r.wadj = "none")
  BY DEF WellMade
<1> QED
  BY <1>1 DEF AtEnd, OnLast, OnNth, ByDay, Monthly, Adjusted

\* The code's test of whether this month's day has passed
LEMMA PassedTest ==
  ASSUME NEW r, WellMade(r), r.ptype \in Monthly, NEW d \in Days
  PROVE  Base(r, Month[d]) <= d <=>
           \/ IsLastOfMonth(d)
           \/ ByDay(r.ptype) /\ Day(d) >= Day(r.start)
           \/ OnLast(r.ptype) /\ NthWeekdayOffset(r.start, d, r.ptype) <= 0
<1> DEFINE m == Month[d]
           b == Base(r, m)
           n == MonthDays[m]
           a == MonthEnd[m - 1]
           day == Day(d)
           s == Day(r.start)
           last == IsLastOfMonth(d)
<1>1. /\ m \in 1..LastMonth /\ d \in Int /\ day \in 1..31 /\ day <= n /\ n \in 28..31
      /\ d = a + day /\ MonthEnd[m] = a + n /\ a \in Nat
  <2>1. m \in 1..LastMonth /\ d \in Int /\ a \in Nat
    BY MonthOfDay, CalendarFacts
  <2>2. day \in 1..31 /\ day <= n /\ n \in 28..31 /\ d = a + day /\ MonthEnd[m] = a + n
    BY DayFacts
  <2> QED
    BY <2>1, <2>2
<1>2. last <=> day = n
  <2>1. last <=> d = MonthEnd[m]
    BY DEF IsLastOfMonth
  <2> HIDE DEF m, last, n, a, day
  <2> QED
    BY <1>1, <2>1
<1>3. r.start \in Days /\ s \in 1..31
  BY WellFields
<1>4. CASE AtEnd(r.ptype)
  <2>1. ~ByDay(r.ptype) /\ ~OnLast(r.ptype)
    BY <1>4, KindFacts
  <2>2. b = InMonth(m, 31)
    BY <1>4, <2>1 DEF Base
  <2> HIDE DEF m, b, last, n, a, day
  <2>3. b = a + (IF 31 <= n THEN 31 ELSE n)
    BY <1>1, <2>2, InMonthFacts DEF a, n
  <2>4. b <= d <=> last
    BY <1>1, <1>2, <2>3
  <2> QED
    BY <2>1, <2>4 DEF m, b, last
<1>5. CASE ByDay(r.ptype)
  <2>1. ~AtEnd(r.ptype) /\ ~OnLast(r.ptype)
    BY <1>5, KindFacts
  <2>2. b = InMonth(m, s)
    BY <2>1 DEF Base
  <2> HIDE DEF m, b, last, n, a, day, s
  <2>3. b = a + (IF s <= n THEN s ELSE n)
    BY <1>1, <1>3, <2>2, InMonthFacts DEF a, n
  <2>4. b <= d <=> last \/ day >= s
    BY <1>1, <1>2, <1>3, <2>3
  <2> QED
    BY <1>5, <2>1, <2>4 DEF m, b, last, day, s
<1>6. CASE OnLast(r.ptype)
  <2>1. ~AtEnd(r.ptype) /\ ~ByDay(r.ptype)
    BY <1>6, KindFacts
  <2>2. b = Max(WeekdaysOf(m, r.start))
    BY <1>6 DEF Base
  <2> DEFINE off == NthWeekdayOffset(r.start, d, "last weekday")
             st == r.start
  <2>3. s >= 22
    <3> DEFINE k == Month[st]
    <3>1. st + 7 > MonthEnd[k]
      BY <1>6 DEF WellMade
    <3>2. st = MonthEnd[k - 1] + s /\ MonthEnd[k] = MonthEnd[k - 1] + MonthDays[k]
          /\ MonthDays[k] \in 28..31
      BY <1>3, DayFacts
    <3>3. MonthEnd[k - 1] \in Nat
      BY <1>3, MonthOfDay, CalendarFacts
    <3> HIDE DEF k, s, st
    <3> QED
      BY <1>3, <3>1, <3>2, <3>3
  <2>4. d + off = Max(WeekdaysOf(m, st))
    BY <1>3, <2>3, LastWeekdayIs
  <2>5. d + off = b
    BY <2>2, <2>4
  <2>6. b \in (MonthEnd[m] - 6)..MonthEnd[m]
    <3>1. st \in Int
      BY <1>3, MonthOfDay
    <3> HIDE DEF m, b, st
    <3> QED
      BY <1>1, <2>2, <3>1, LastWeekdayFacts DEF st
  <2>7. off \in Int
    <3> DEFINE mm == 7 * Min({(Day(st) - 1) \div 7, 3})
                     + ((Day(d) - Weekday(d) + Weekday(st) + 7) % 7)
    <3>1. Min({(Day(st) - 1) \div 7, 3}) \in Int
      <4> DEFINE q == (Day(st) - 1) \div 7
      <4>1. q \in Int
        BY <1>3
      <4> HIDE DEF q
      <4>2. Min({q, 3}) = IF q <= 3 THEN q ELSE 3
        BY <4>1, MinOfTwo
      <4> QED
        BY <4>1, <4>2 DEF q
    <3>2. (Day(d) - Weekday(d) + Weekday(st) + 7) % 7 \in Int
      <4>1. Weekday(d) \in 1..7 /\ Weekday(st) \in 1..7
        <5>1. st \in Days /\ d \in Int
          BY <1>1, <1>3
        <5> HIDE DEF st
        <5>2. st \in Int
          BY <5>1, MonthOfDay
        <5> QED
          BY <5>1, <5>2, WeekdayFacts
      <4> HIDE DEF st, m, n, a
      <4> QED
        BY <1>1, <4>1
    <3>3. mm \in Int
      <4> DEFINE u == Min({(Day(st) - 1) \div 7, 3})
                 v == (Day(d) - Weekday(d) + Weekday(st) + 7) % 7
      <4>1. u \in Int /\ v \in Int /\ mm = 7 * u + v
        BY <3>1, <3>2
      <4> HIDE DEF u, v, mm
      <4> QED
        BY <4>1
    <3>4. off = mm + (IF TRUE /\ MonthDays[Month[d]] - mm >= 7 THEN 7 ELSE 0) - Day(d)
      BY DEF NthWeekdayOffset
    <3>5. (IF TRUE /\ MonthDays[Month[d]] - mm >= 7 THEN 7 ELSE 0) \in Int
      OBVIOUS
    <3> HIDE DEF mm, off
    <3> QED
      BY <1>1, <3>3, <3>4, <3>5
  <2> HIDE DEF m, b, last, n, a, day, s, off, st
  <2>8. b <= d <=> last \/ off <= 0
    BY <1>1, <1>2, <2>5, <2>6, <2>7
  <2>9. NthWeekdayOffset(r.start, d, r.ptype) = off
    BY <1>6 DEF off, OnLast
  <2> QED
    BY <1>6, <2>1, <2>8, <2>9 DEF m, b, last
<1> QED
  BY <1>4, <1>5, <1>6, KindFacts

-----------------------------------------------------------------------------
(* Forward one period.                                                     *)

LEMMA AddMonthsFacts ==
  ASSUME NEW d \in Days, NEW k \in Int, Month[d] + k \in 1..LastMonth
  PROVE  AddMonths(d, k) \in Days /\ Month[AddMonths(d, k)] = Month[d] + k
<1> DEFINE m == Month[d] + k
           day == Day(d)
<1>1. m \in 1..LastMonth /\ day \in 1..31
  BY DayFacts
<1>2. AddMonths(d, k) = InMonth(m, day)
  BY DEF AddMonths
<1> HIDE DEF m, day
<1>3. InMonth(m, day) \in Days /\ Month[InMonth(m, day)] = m
  BY <1>1, InMonthFacts
<1> QED
  BY <1>2, <1>3 DEF m

LEMMA NextDay ==
  ASSUME NEW d \in Days, Month[d] < LastMonth
  PROVE  /\ d + 1 \in Days
         /\ IsLastOfMonth(d) => Month[d + 1] = Month[d] + 1 /\ Day(d + 1) = 1
         /\ ~IsLastOfMonth(d) => Month[d + 1] = Month[d] /\ Day(d + 1) = Day(d) + 1
         /\ IsLastOfMonth(d) => Day(d) >= 28
         /\ IsLastOfMonth(d + 1) => Day(d + 1) >= 28
<1> DEFINE m == Month[d]
           n == MonthDays[m]
           a == MonthEnd[m - 1]
           day == Day(d)
           last == IsLastOfMonth(d)
           e == d + 1
<1>1. /\ m \in 1..LastMonth /\ d \in Int /\ day \in 1..31 /\ day <= n /\ n \in 28..31
      /\ d = a + day /\ MonthEnd[m] = a + n /\ a \in Nat /\ m < LastMonth /\ LastMonth \in Nat
  <2>1. m \in 1..LastMonth /\ d \in Int /\ a \in Nat
    BY MonthOfDay, CalendarFacts
  <2>2. day \in 1..31 /\ day <= n /\ n \in 28..31 /\ d = a + day /\ MonthEnd[m] = a + n
    BY DayFacts
  <2> QED
    BY <2>1, <2>2, MonthsOf
<1>2. last <=> d = MonthEnd[m]
  BY DEF IsLastOfMonth
<1>3. m + 1 \in 1..LastMonth /\ (m + 1) - 1 = m
  <2> HIDE DEF m
  <2> QED
    BY <1>1
<1>4. CASE last
  <2>1. MonthEnd[m + 1] = MonthEnd[m] + MonthDays[m + 1] /\ MonthDays[m + 1] \in 28..31
    <3> HIDE DEF m
    <3> QED
      BY <1>3, CalendarFacts
  <2>2. e \in Int /\ MonthEnd[(m + 1) - 1] < e /\ e <= MonthEnd[m + 1] /\ day >= 28
    <3> HIDE DEF m, n, a, day, last
    <3> QED
      BY <1>1, <1>2, <1>3, <1>4, <2>1
  <2>3. e \in Days /\ Month[e] = m + 1
    <3> DEFINE j == m + 1
    <3> HIDE DEF m, e
    <3> HIDE DEF j
    <3>1. j \in 1..LastMonth /\ e \in Int /\ MonthEnd[j - 1] < e /\ e <= MonthEnd[j]
      BY <1>3, <2>2 DEF j
    <3>2. e \in Days /\ Month[e] = j
      BY <3>1, MonthIs
    <3> QED
      BY <3>2 DEF j
  <2>4. Day(e) = e - MonthEnd[m]
    BY <1>3, <2>3 DEF Day
  <2>5. Day(e) = 1
    <3> HIDE DEF m, n, a, day, last
    <3> QED
      BY <1>1, <1>2, <1>4, <2>4
  <2>6. ~IsLastOfMonth(e)
    <3>1. IsLastOfMonth(e) <=> e = MonthEnd[m + 1]
      BY <2>3 DEF IsLastOfMonth
    <3> HIDE DEF m, n, a, day, last
    <3> QED
      BY <1>1, <1>2, <1>4, <2>1, <3>1
  <2> QED
    BY <1>4, <2>2, <2>3, <2>5, <2>6
<1>5. CASE ~last
  <2>1. e \in Int /\ MonthEnd[m - 1] < e /\ e <= MonthEnd[m]
    <3> HIDE DEF m, n, day, last
    <3> QED
      BY <1>1, <1>2, <1>5
  <2>2. e \in Days /\ Month[e] = m
    <3> HIDE DEF m, e
    <3> QED
      BY <1>1, <2>1, MonthIs
  <2>3. Day(e) = e - a
    BY <2>2 DEF Day
  <2>4. Day(e) = day + 1
    <3> HIDE DEF m, n, a, day, last
    <3> QED
      BY <1>1, <2>3
  <2>5. IsLastOfMonth(e) => Day(e) >= 28
    <3>1. IsLastOfMonth(e) <=> e = MonthEnd[m]
      BY <2>2 DEF IsLastOfMonth
    <3> HIDE DEF m, n, a, day, last
    <3> QED
      BY <1>1, <2>3, <3>1
  <2> QED
    BY <1>5, <2>2, <2>4, <2>5
<1> QED
  BY <1>4, <1>5

\* From the Friday that an occurrence may have been moved back to
LEMMA FromFriday ==
  ASSUME NEW r, WellMade(r), r.ptype \in Monthly, r.ptype \in Adjusted,
         NEW fri \in Days, NEW n \in Nat, n > 0, Month[fri] + n < LastMonth
  PROVE  /\ fri + 2 \in Days /\ Month[fri + 2] \in {Month[fri], Month[fri] + 1}
         /\ FridayForward(r, fri, n) \in Days
         /\ Month[FridayForward(r, fri, n)] = Passed(r, fri + 2) + n
<1> DEFINE sat == fri + 1
           sun == fri + 2
           m == Month[fri]
           lf == IsLastOfMonth(fri)
           ls == IsLastOfMonth(sat)
           lu == IsLastOfMonth(sun)
           s == Day(r.start)
           df == Day(fri)
           ds == Day(sat)
           du == Day(sun)
           ms == Month[sat]
           mu == Month[sun]
           c == Passed(r, sun)
           to == FridayForward(r, fri, n)
<1>1. m \in 1..LastMonth /\ LastMonth \in Nat /\ m + n < LastMonth /\ fri \in Int
      /\ s \in 1..31 /\ df \in 1..31
  BY MonthOfDay, MonthsOf, WellFields, DayFacts
<1>2. /\ sat \in Days
      /\ lf => ms = m + 1 /\ ds = 1
      /\ ~lf => ms = m /\ ds = df + 1
      /\ lf => df >= 28
      /\ ls => ds >= 28
  <2>1. m < LastMonth
    <3> HIDE DEF m
    <3> QED
      BY <1>1
  <2> QED
    BY <2>1, NextDay
<1>3. ms \in 1..LastMonth /\ ms < LastMonth
  <2> HIDE DEF m, ms, lf, ls
  <2> QED
    BY <1>1, <1>2
<1>4. /\ sun \in Days
      /\ ls => mu = ms + 1 /\ du = 1
      /\ ~ls => mu = ms /\ du = ds + 1
      /\ lu => du >= 28
  <2>1. sat + 1 = sun
    BY <1>1
  <2> HIDE DEF sat
  <2> QED
    BY <1>2, <1>3, <2>1, NextDay
<1>5. ByDay(r.ptype) <=> ~AtEnd(r.ptype)
  BY KindFacts
<1>6. ~OnLast(r.ptype)
  BY KindFacts
<1>7. c = IF lu \/ (ByDay(r.ptype) /\ du >= s) THEN mu ELSE mu - 1
  <2> HIDE DEF sun
  <2>1. Base(r, Month[sun]) <= sun <=>
           \/ IsLastOfMonth(sun)
           \/ ByDay(r.ptype) /\ Day(sun) >= Day(r.start)
    BY <1>4, <1>6, PassedTest
  <2> QED
    BY <2>1 DEF Passed
<1>8. \E d \in {fri, sat, sun} : \E k \in {n, n - 1} :
        to = AddMonths(d, k) /\ Month[d] + k = c + n
  <2>1. CASE AtEnd(r.ptype)
    <3>1. \A d \in fri..sun : d \in {fri, sat, sun}
      BY <1>1
    <3>2. fri \in fri..sun /\ sat \in fri..sun /\ sun \in fri..sun
      BY <1>1
    <3>3. (\E d \in fri..sun : IsLastOfMonth(d)) <=> lf \/ ls \/ lu
      <4> HIDE DEF sat, sun
      <4> QED
        BY <3>1, <3>2 DEF lf, ls, lu
    <3>4. to = AddMonths(fri, IF lf \/ ls \/ lu THEN n ELSE n - 1)
      <4> HIDE DEF lf, ls, lu
      <4> QED
        BY <2>1, <3>3 DEF FridayForward, AtEnd
    <3>5. ~ByDay(r.ptype)
      BY <1>5, <2>1
    <3> DEFINE k == IF lf \/ ls \/ lu THEN n ELSE n - 1
    <3>6. k \in {n, n - 1} /\ m + k = c + n
      <4> HIDE DEF m, c, lf, ls, lu, ms, mu, ds, du, df
      <4> QED
        BY <1>1, <1>2, <1>4, <1>7, <3>5
    <3> QED
      BY <3>4, <3>6
  <2>2. CASE ~AtEnd(r.ptype)
    <3>1. ByDay(r.ptype)
      BY <1>5, <2>2
    <3>2. to = IF ds = s THEN AddMonths(sat, n)
               ELSE IF du = s THEN AddMonths(sun, n)
               ELSE IF df >= s \/ lf THEN AddMonths(fri, n)
               ELSE IF ls THEN AddMonths(sat, n)
               ELSE IF lu THEN AddMonths(sun, n)
               ELSE AddMonths(fri, n - 1)
      BY <2>2 DEF FridayForward, AtEnd
    <3>3. CASE ds = s
      <4>1. ms + n = c + n
        <5> HIDE DEF m, c, lf, ls, lu, ms, mu, ds, du, df, s
        <5> QED
          BY <1>1, <1>2, <1>3, <1>4, <1>7, <3>1, <3>3
      <4>2. to = AddMonths(sat, n)
        BY <3>2, <3>3
      <4> QED
        BY <4>1, <4>2
    <3>4. CASE ds # s /\ du = s
      <4>1. mu + n = c + n
        <5> HIDE DEF m, c, lf, ls, lu, ms, mu, ds, du, df, s
        <5> QED
          BY <1>1, <1>2, <1>3, <1>4, <1>7, <3>1, <3>4
      <4>2. to = AddMonths(sun, n)
        BY <3>2, <3>4
      <4> QED
        BY <4>1, <4>2
    <3>5. CASE ds # s /\ du # s /\ (df >= s \/ lf)
      <4>1. m + n = c + n
        <5> HIDE DEF m, c, lf, ls, lu, ms, mu, ds, du, df, s
        <5> QED
          BY <1>1, <1>2, <1>3, <1>4, <1>7, <3>1, <3>5
      <4>2. to = AddMonths(fri, n)
        BY <3>2, <3>5
      <4> QED
        BY <4>1, <4>2
    <3>6. CASE ds # s /\ du # s /\ ~(df >= s \/ lf) /\ ls
      <4>1. ms + n = c + n
        <5> HIDE DEF m, c, lf, ls, lu, ms, mu, ds, du, df, s
        <5> QED
          BY <1>1, <1>2, <1>3, <1>4, <1>7, <3>1, <3>6
      <4>2. to = AddMonths(sat, n)
        BY <3>2, <3>6
      <4> QED
        BY <4>1, <4>2
    <3>7. CASE ds # s /\ du # s /\ ~(df >= s \/ lf) /\ ~ls /\ lu
      <4>1. mu + n = c + n
        <5> HIDE DEF m, c, lf, ls, lu, ms, mu, ds, du, df, s
        <5> QED
          BY <1>1, <1>2, <1>3, <1>4, <1>7, <3>1, <3>7
      <4>2. to = AddMonths(sun, n)
        BY <3>2, <3>7
      <4> QED
        BY <4>1, <4>2
    <3>8. CASE ds # s /\ du # s /\ ~(df >= s \/ lf) /\ ~ls /\ ~lu
      <4>1. m + (n - 1) = c + n
        <5> HIDE DEF m, c, lf, ls, lu, ms, mu, ds, du, df, s
        <5> QED
          BY <1>1, <1>2, <1>3, <1>4, <1>7, <3>1, <3>8
      <4>2. to = AddMonths(fri, n - 1)
        BY <3>2, <3>8
      <4> QED
        BY <4>1, <4>2
    <3> QED
      BY <3>3, <3>4, <3>5, <3>6, <3>7, <3>8
  <2> QED
    BY <2>1, <2>2
<1>9. mu \in {m, m + 1}
  <2> HIDE DEF m, ms, mu, lf, ls, lu
  <2> QED
    BY <1>1, <1>2, <1>4
<1>10. c + n \in 1..LastMonth
  <2> HIDE DEF m, mu, lu, c
  <2> QED
    BY <1>1, <1>7, <1>9
<1>11. to \in Days /\ Month[to] = c + n
  <2>1. PICK d \in {fri, sat, sun}, k \in {n, n - 1} : to = AddMonths(d, k) /\ Month[d] + k = c + n
    BY <1>8
  <2>2. d \in Days /\ k \in Int
    BY <1>2, <1>4
  <2> HIDE DEF c, to, sat, sun
  <2> QED
    BY <1>10, <2>1, <2>2, AddMonthsFacts
<1> QED
  BY <1>4, <1>9, <1>11

LEMMA DueWhen ==
  ASSUME NEW r, WellMade(r), r.ptype \in Monthly, NEW m \in 1..LastMonth, NEW ref \in Int,
         r.wadj = "forward" => Weekday(ref) \in 1..5
  PROVE  /\ ~(r.wadj = "back" /\ Weekday(LeaveWeekend(ref)) = 5)
              => (Due(r, m) <= ref <=> Base(r, m) <= ref)
         /\ r.wadj = "back" /\ Weekday(LeaveWeekend(ref)) = 5
              => (Due(r, m) <= ref <=> Base(r, m) <= LeaveWeekend(ref) + 2)
<1> DEFINE b == Base(r, m)
           u == Due(r, m)
           f == LeaveWeekend(ref)
<1>1. b \in Int /\ u = AdjustWeekend(b, r.wadj) /\ u \in Int
  BY BaseFacts DEF Due
<1>2. r.wadj \in {"none", "back", "forward"}
  BY WellFields
<1> HIDE DEF b, u
<1>3. CASE r.wadj = "none"
  <2>1. u = b
    BY <1>1, <1>3, AdjustFacts
  <2> QED
    BY <1>3, <2>1 DEF b, u
<1>4. CASE r.wadj = "forward"
  <2>1. u = AdjustWeekend(b, "forward")
    BY <1>1, <1>4
  <2>2. u \in b..(b + 2)
    BY <1>1, <2>1, AdjustFacts
  <2>3. Weekday(ref) \in 1..5 /\ b <= ref => u <= ref
    BY <1>1, <2>1, AdjustFacts
  <2>4. Weekday(ref) \in 1..5
    BY <1>4
  <2>5. u <= ref <=> b <= ref
    BY <1>1, <2>2, <2>3, <2>4
  <2> QED
    BY <1>4, <2>5 DEF b, u
<1>5. CASE r.wadj = "back"
  <2>1. u = LeaveWeekend(b)
    BY <1>1, <1>5, AdjustFacts
  <2>2. u <= b /\ Weekday(u) \in 1..5
    BY <1>1, <2>1, LeaveFacts
  <2>3. /\ f \in Int /\ ref - 2 <= f /\ f <= ref /\ Weekday(f) \in 1..5
        /\ Weekday(ref) \in 1..5 => f = ref
        /\ Weekday(ref) = 6 => f = ref - 1 /\ Weekday(ref - 1) = 5
        /\ Weekday(ref) = 7 => f = ref - 2 /\ Weekday(ref - 2) = 5
    BY LeaveFacts
  <2>4. Weekday(ref) \in 1..7
    BY WeekdayFacts
  <2>5. CASE Weekday(f) = 5
    <3>1. u <= f <=> b <= f + 2
      <4> HIDE DEF f
      <4> QED
        BY <1>1, <2>1, <2>3, <2>5, LeaveOrder
    <3>2. u <= ref => u <= f
      <4> HIDE DEF f
      <4>1. Weekday(u) \in 1..5 /\ u <= ref => u <= LeaveWeekend(ref)
        BY <1>1, LeaveOrder
      <4> QED
        BY <2>2, <4>1 DEF f
    <3>3. u <= ref <=> b <= f + 2
      <4> HIDE DEF f
      <4> QED
        BY <1>1, <2>3, <3>1, <3>2
    <3> QED
      BY <1>5, <2>5, <3>3 DEF b, u
  <2>6. CASE Weekday(f) # 5
    <3>1. Weekday(ref) \in 1..4 /\ f = ref
      <4>1. CASE Weekday(ref) \in 1..5
        BY <2>3, <2>6, <4>1
      <4>2. CASE Weekday(ref) = 6
        BY <2>3, <2>6, <4>2
      <4>3. CASE Weekday(ref) = 7
        BY <2>3, <2>6, <4>3
      <4> QED
        BY <2>4, <4>1, <4>2, <4>3
    <3>2. ref < b => ref < u
      BY <1>1, <2>1, <3>1, LeaveOrder
    <3>3. u <= ref <=> b <= ref
      BY <1>1, <2>2, <3>2
    <3> QED
      BY <2>6, <3>3 DEF b, u
  <2> QED
    BY <2>5, <2>6
<1> QED
  BY <1>2, <1>3, <1>4, <1>5

\* Step 1 passes exactly the month whose occurrence is the last one by then.
LEMMA ForwardMonth ==
  ASSUME NEW r, WellMade(r), r.ptype \in Monthly, NEW ref \in Days, r.start <= ref, ref > 2,
         r.wadj = "forward" => Weekday(ref) \in 1..5,
         NEW n \in Nat, n > 0, Month[ref] + n < LastMonth
  PROVE  \E c \in 1..LastMonth :
           /\ Month[r.start] <= c /\ c <= Month[ref] + 1
           /\ \A m \in 1..LastMonth : Due(r, m) <= ref <=> m <= c
           /\ Forward(r, ref, n) \in Days /\ Month[Forward(r, ref, n)] = c + n
<1> DEFINE M0 == Month[r.start]
           f == LeaveWeekend(ref)
           back == r.wadj = "back"
           to == Forward(r, ref, n)
<1>1. ref \in Nat /\ Month[ref] \in 1..LastMonth /\ LastMonth \in Nat
  BY MonthOfDay, MonthsOf
<1>2. r.start \in Days /\ r.start \in Int /\ M0 \in 1..LastMonth /\ Base(r, M0) = r.start
  BY WellFields, BaseOfStart
<1>3. back => r.ptype \in Adjusted
  BY KindFacts
<1> HIDE DEF to
<1>4. \E x \in Days :
        /\ r.start <= x
        /\ Passed(r, x) <= Month[ref] + 1
        /\ \A m \in 1..LastMonth : Due(r, m) <= ref <=> Base(r, m) <= x
        /\ to \in Days /\ Month[to] = Passed(r, x) + n
  <2>1. f \in Int /\ f <= ref /\ ref - 2 <= f
    BY <1>1, LeaveFacts
  <2>2. f \in Days /\ Month[f] <= Month[ref] /\ Month[f] \in 1..LastMonth
    <3>1. f \in Days
      <4>1. MonthEnd[LastMonth] \in Int
        BY <1>1, CalendarFacts
      <4>2. ref <= MonthEnd[LastMonth]
        BY DEF Days
      <4> HIDE DEF f
      <4> QED
        BY <1>1, <2>1, <4>1, <4>2 DEF Days
    <3> HIDE DEF f
    <3> QED
      BY <2>1, <3>1, LaterMonth, MonthOfDay
  <2>3. CASE back /\ Weekday(f) = 5
    <3> DEFINE x == f + 2
    <3>1. Month[f] + n < LastMonth
      <4> HIDE DEF f
      <4> QED
        BY <1>1, <2>2
    <3>2. /\ x \in Days /\ Month[x] \in {Month[f], Month[f] + 1}
          /\ FridayForward(r, f, n) \in Days
          /\ Month[FridayForward(r, f, n)] = Passed(r, x) + n
      <4> HIDE DEF f
      <4> QED
        BY <1>3, <2>2, <2>3, <3>1, FromFriday
    <3>3. to = FridayForward(r, f, n)
      <4> DEFINE moved == r.wadj = "back" /\ r.ptype \in Adjusted
                 dd == IF moved THEN LeaveWeekend(ref) ELSE ref
                 passed == \/ IsLastOfMonth(dd)
                           \/ r.ptype \in {"month", "year"} /\ Day(dd) >= Day(r.start)
                           \/ /\ r.ptype \in {"nth weekday", "last weekday"}
                              /\ NthWeekdayOffset(r.start, dd, r.ptype) <= 0
      <4>1. to = IF moved /\ Weekday(dd) = Saturday - 1 THEN FridayForward(r, dd, n)
                 ELSE AddMonths(dd, IF passed THEN n ELSE n - 1)
        BY DEF to, Forward
      <4>2. moved /\ dd = f
        BY <1>3, <2>3
      <4>3. Weekday(f) = Saturday - 1
        BY <2>3 DEF Saturday
      <4> HIDE DEF moved, dd, passed, f
      <4> QED
        BY <4>1, <4>2, <4>3
    <3>4. \A m \in 1..LastMonth : Due(r, m) <= ref <=> Base(r, m) <= x
      BY <1>1, <2>3, DueWhen
    <3>5. r.start <= x
      <4> HIDE DEF f
      <4> QED
        BY <1>1, <1>2, <2>1
    <3>6. Passed(r, x) <= Month[ref] + 1
      <4>1. Passed(r, x) \in {Month[x], Month[x] - 1}
        <5> HIDE DEF x
        <5> QED
          BY <3>2, Passing
      <4> HIDE DEF x, f
      <4> QED
        BY <1>1, <2>2, <3>2, <4>1
    <3> HIDE DEF x, f
    <3> QED
      BY <3>2, <3>3, <3>4, <3>5, <3>6
  <2>4. CASE ~(back /\ Weekday(f) = 5)
    <3>1. \A m \in 1..LastMonth : Due(r, m) <= ref <=> Base(r, m) <= ref
      BY <1>1, <2>4, DueWhen
    <3>2. Passed(r, ref) \in {Month[ref], Month[ref] - 1} /\ Passed(r, ref) \in 0..LastMonth
      BY Passing
    <3> DEFINE d == IF back THEN f ELSE ref
               test == \/ IsLastOfMonth(d)
                       \/ ByDay(r.ptype) /\ Day(d) >= Day(r.start)
                       \/ OnLast(r.ptype) /\ NthWeekdayOffset(r.start, d, r.ptype) <= 0
    <3>3. d = ref
      <4>1. ASSUME back  PROVE f = ref
        <5>1. Weekday(f) # 5
          BY <2>4, <4>1
        <5>2. Weekday(ref) \in 1..7
          BY <1>1, WeekdayFacts
        <5>3. /\ Weekday(ref) \in 1..5 => f = ref
              /\ Weekday(ref) = 6 => f = ref - 1 /\ Weekday(ref - 1) = 5
              /\ Weekday(ref) = 7 => f = ref - 2 /\ Weekday(ref - 2) = 5
          BY <1>1, LeaveFacts
        <5>4. Weekday(ref) # 6
          <6>1. Weekday(ref) = 6 => Weekday(f) = 5
            BY <5>3
          <6> QED
            BY <5>1, <6>1
        <5>5. Weekday(ref) # 7
          <6>1. Weekday(ref) = 7 => Weekday(f) = 5
            BY <5>3
          <6> QED
            BY <5>1, <6>1
        <5>6. Weekday(ref) \in 1..5
          BY <5>2, <5>4, <5>5
        <5> QED
          BY <5>3, <5>6
      <4> QED
        BY <4>1
    <3>4. test <=> Base(r, Month[ref]) <= ref
      BY <3>3, PassedTest
    <3>5. to = AddMonths(d, IF test THEN n ELSE n - 1)
      <4>1. ~OnNth(r.ptype)
        BY KindFacts
      <4>2. r.ptype \in {"nth weekday", "last weekday"} <=> OnLast(r.ptype)
        BY <4>1 DEF OnNth, OnLast
      <4>3. back /\ r.ptype \in Adjusted <=> back
        BY <1>3
      <4> DEFINE moved == r.wadj = "back" /\ r.ptype \in Adjusted
                 dd == IF moved THEN LeaveWeekend(ref) ELSE ref
                 passed == \/ IsLastOfMonth(dd)
                           \/ r.ptype \in {"month", "year"} /\ Day(dd) >= Day(r.start)
                           \/ /\ r.ptype \in {"nth weekday", "last weekday"}
                              /\ NthWeekdayOffset(r.start, dd, r.ptype) <= 0
      <4>4. to = IF moved /\ Weekday(dd) = Saturday - 1 THEN FridayForward(r, dd, n)
                 ELSE AddMonths(dd, IF passed THEN n ELSE n - 1)
        BY DEF to, Forward
      <4>5. (moved <=> back) /\ dd = d
        BY <4>3
      <4>6. passed <=> test
        <5> HIDE DEF d, moved
        <5>1. dd = d
          BY <4>5
        <5> HIDE DEF dd
        <5> QED
          BY <4>2, <5>1 DEF ByDay
      <4>7. ~(moved /\ Weekday(dd) = Saturday - 1)
        <5>1. Saturday - 1 = 5
          BY DEF Saturday
        <5>2. back => dd = f
          BY <4>5
        <5> HIDE DEF dd, d
        <5> QED
          BY <2>4, <4>5, <5>1, <5>2
      <4>8. to = AddMonths(dd, IF passed THEN n ELSE n - 1)
        <5> HIDE DEF moved, dd, passed
        <5> QED
          BY <4>4, <4>7
      <4> HIDE DEF moved, passed, test, d
      <4> QED
        BY <4>5, <4>6, <4>8
    <3> DEFINE c == Passed(r, ref)
               k == IF test THEN n ELSE n - 1
    <3>6. c = IF test THEN Month[ref] ELSE Month[ref] - 1
      <4> HIDE DEF test
      <4> QED
        BY <3>4 DEF Passed
    <3>7. to = AddMonths(ref, k)
      <4> HIDE DEF test
      <4> HIDE DEF d
      <4> QED
        BY <3>3, <3>5
    <3>8. k \in Int /\ Month[ref] + k = c + n /\ Month[ref] + k \in 1..LastMonth
      <4> HIDE DEF test, c
      <4> QED
        BY <1>1, <3>6
    <3> HIDE DEF k, c, test, d
    <3>9. to \in Days /\ Month[to] = c + n
      BY <3>7, <3>8, AddMonthsFacts
    <3>10. c <= Month[ref] + 1
      BY <1>1, <3>6
    <3> QED
      BY <3>1, <3>9, <3>10 DEF c
  <2> QED
    BY <2>3, <2>4
<1>5. PICK x \in Days :
        /\ r.start <= x
        /\ Passed(r, x) <= Month[ref] + 1
        /\ \A m \in 1..LastMonth : Due(r, m) <= ref <=> Base(r, m) <= x
        /\ to \in Days /\ Month[to] = Passed(r, x) + n
  BY <1>4
<1> DEFINE c == Passed(r, x)
<1>6. c \in 0..LastMonth /\ \A m \in 1..LastMonth : Base(r, m) <= x <=> m <= c
  BY Passing
<1>7. M0 <= c
  <2> HIDE DEF M0, c
  <2> QED
    BY <1>2, <1>6, <1>5
<1>8. c \in 1..LastMonth
  <2> HIDE DEF M0, c
  <2> QED
    BY <1>1, <1>2, <1>6, <1>7
<1>9. \A m \in 1..LastMonth : Due(r, m) <= ref <=> m <= c
  BY <1>6, <1>5
<1> HIDE DEF c, M0
<1>10. c <= Month[ref] + 1 /\ to \in Days /\ Month[to] = c + n
  BY <1>5 DEF c
<1> QED
  BY <1>7, <1>8, <1>9, <1>10 DEF M0, to

-----------------------------------------------------------------------------
(* Back to the phase of the start date.                                    *)

LEMMA Scaled ==
  ASSUME NEW n \in Nat, NEW a \in Int, NEW b \in Int, a <= b
  PROVE  n * a \in Int /\ n * b \in Int /\ n * a <= n * b
<1> DEFINE e == b - a
<1>1. e \in Nat /\ b = a + e
  OBVIOUS
<1> HIDE DEF e
<1>2. n * e \in Nat
  BY <1>1
<1>3. n * b = n * a + n * e
  BY <1>1
<1> QED
  BY <1>1, <1>2, <1>3

\* m0 + n * k is the first step after c.
FirstStep(n, m0, c, k) ==
  /\ (c + n) - ((c + n - m0) % n) = m0 + n * k
  /\ c < m0 + n * k /\ m0 + n * k <= c + n
  /\ \A j \in Nat : /\ n * j \in Nat
                    /\ j < k => m0 + n * j <= c
                    /\ j >= k => m0 + n * k <= m0 + n * j

LEMMA NextStep ==
  ASSUME NEW n \in Nat, n > 0, NEW m0 \in Int, NEW c \in Int, m0 <= c
  PROVE  \E k \in Nat : k > 0 /\ FirstStep(n, m0, c, k)
<1> DEFINE x == c + n - m0
           k == x \div n
           s == x % n
<1>1. x \in Nat /\ x >= n /\ c + n = m0 + x
  OBVIOUS
<1>2. x = n * k + s /\ k \in Int /\ s \in 0..(n - 1)
  <2> HIDE DEF x
  <2> QED
    BY <1>1
<1> HIDE DEF x, k
<1> HIDE DEF s
<1>3. n * k \in Int
  BY <1>2, Scaled
<1>4. k > 0
  <2>1. CASE k <= 0
    <3>1. n * k <= n * 0
      BY <1>2, <2>1, Scaled
    <3>2. n * k <= 0
      BY <3>1
    <3> QED
      BY ONLY <1>1, <1>2, <1>3, <3>2
  <2> QED
    BY <1>2, <2>1
<1>5. (c + n) - s = m0 + n * k /\ c < m0 + n * k /\ m0 + n * k <= c + n
  BY <1>1, <1>2, <1>3
<1>6. ASSUME NEW j \in Nat
      PROVE  /\ n * j \in Nat
             /\ j < k => m0 + n * j <= c
             /\ j >= k => m0 + n * k <= m0 + n * j
  <2>1. n * j \in Nat
    OBVIOUS
  <2>2. ASSUME j < k  PROVE m0 + n * j <= c
    <3>1. k - 1 \in Int /\ j <= k - 1
      BY <1>2, <2>2
    <3>2. n * j <= n * (k - 1)
      BY <3>1, Scaled
    <3>3. n * (k - 1) = n * k - n
      BY <1>2
    <3> QED
      BY <1>1, <1>2, <1>3, <2>1, <3>2, <3>3
  <2>3. ASSUME j >= k  PROVE m0 + n * k <= m0 + n * j
    <3>1. n * k <= n * j
      BY <1>2, <2>3, Scaled
    <3> QED
      BY <1>3, <2>1, <3>1
  <2> QED
    BY <2>1, <2>2, <2>3
<1>7. (c + n) - ((c + n - m0) % n) = m0 + n * k
  BY <1>5 DEF s, x
<1>8. FirstStep(n, m0, c, k)
  BY <1>5, <1>6, <1>7 DEF FirstStep
<1> QED
  BY <1>2, <1>4, <1>8

LEMMA PeriodBound ==
  ASSUME NEW n \in Nat, n > 0, NEW x \in Nat
  PROVE  /\ x \div n + 1 \in Nat
         /\ n * (x \div n + 1) \in Nat /\ n * (x \div n + 1) <= x + n
         /\ \A k \in Nat : n * k <= x + n => k <= x \div n + 1
<1> DEFINE q == x \div n
           s == x % n
           p == q + 1
<1>1. x = n * q + s /\ q \in Int /\ s \in 0..(n - 1)
  OBVIOUS
<1> HIDE DEF q, s
<1>2. q >= 0
  <2>1. CASE q <= -1
    <3>1. n * q <= n * (-1)
      BY <1>1, <2>1, Scaled
    <3>2. n * q <= -n
      BY <3>1
    <3> QED
      BY <1>1, <3>2
  <2> QED
    BY <1>1, <2>1
<1>3. n * p = n * q + n /\ n * q \in Int /\ p \in Nat
  BY <1>1, <1>2
<1>4. n * p \in Nat /\ n * p <= x + n
  BY <1>1, <1>3
<1>5. ASSUME NEW k \in Nat, n * k <= x + n  PROVE k <= p
  <2>1. CASE k >= p + 1
    <3>1. n * (p + 1) <= n * k
      BY <1>3, <2>1, Scaled
    <3>2. n * (p + 1) = n * q + n + n
      BY <1>1, <1>3
    <3>3. n * k \in Int
      OBVIOUS
    <3> QED
      BY <1>1, <1>3, <1>5, <3>1, <3>2, <3>3
  <2> QED
    BY <1>3, <2>1
<1> QED
  BY <1>3, <1>4, <1>5 DEF q

LEMMA EndOfMonthIs ==
  ASSUME NEW m \in 1..LastMonth
  PROVE  InMonth(m, 31) = MonthEnd[m]
<1>1. MonthDays[m] \in 28..31 /\ MonthEnd[m] = MonthEnd[m - 1] + MonthDays[m]
      /\ MonthEnd[m - 1] \in Nat
  BY CalendarFacts
<1>2. InMonth(m, 31) = MonthEnd[m - 1] + (IF 31 <= MonthDays[m] THEN 31 ELSE MonthDays[m])
  BY InMonthFacts
<1> QED
  BY <1>1, <1>2

\* Step 2 finds the occurrence of the month it goes back to.
LEMMA AlignIs ==
  ASSUME NEW r, WellMade(r), r.ptype \in Monthly, NEW d \in Days, NEW n \in Nat, n > 0,
         NEW m \in 1..LastMonth, m = Month[d] - ((Month[d] - Month[r.start]) % n)
  PROVE  Align(r, d, n) = Due(r, m)
<1> DEFINE e == AddMonths(d, m - Month[d])
<1>1. Month[d] \in 1..LastMonth /\ r.start \in Days /\ LastMonth \in Nat
  BY MonthOfDay, WellFields, MonthsOf
<1>2. m - Month[d] \in Int /\ Month[d] + (m - Month[d]) = m
  BY <1>1
<1>3. e \in Days /\ Month[e] = m
  <2> DEFINE k == m - Month[d]
  <2>1. k \in Int /\ Month[d] + k = m
    BY <1>2
  <2> HIDE DEF k
  <2>2. AddMonths(d, k) \in Days /\ Month[AddMonths(d, k)] = m
    BY <2>1, AddMonthsFacts
  <2> QED
    BY <2>2 DEF k
<1>4. Align(r, d, n) =
        CASE r.ptype \in {"nth weekday", "last weekday"} ->
               e + NthWeekdayOffset(r.start, e, r.ptype)
          [] r.ptype = "end of month" -> AdjustWeekend(MonthEnd[m], r.wadj)
          [] OTHER -> AdjustWeekend(InMonth(m, Day(r.start)), r.wadj)
  BY DEF Align
<1> HIDE DEF e
<1>5. CASE OnLast(r.ptype)
  <2>1. ~AtEnd(r.ptype) /\ r.wadj = "none"
    BY <1>5, KindFacts
  <2>2. Align(r, d, n) = e + NthWeekdayOffset(r.start, e, "last weekday")
    BY <1>4, <1>5 DEF OnLast
  <2>3. Day(r.start) >= 22
    <3> DEFINE st == r.start
               k == Month[st]
               s == Day(st)
    <3>1. st + 7 > MonthEnd[k]
      BY <1>5 DEF WellMade
    <3>2. st = MonthEnd[k - 1] + s /\ MonthEnd[k] = MonthEnd[k - 1] + MonthDays[k]
          /\ MonthDays[k] \in 28..31 /\ s \in 1..31
      BY <1>1, DayFacts
    <3>3. MonthEnd[k - 1] \in Nat
      BY <1>1, MonthOfDay, CalendarFacts
    <3>4. s >= 22
      <4> HIDE DEF k, s, st
      <4> QED
        BY <3>1, <3>2, <3>3
    <3> QED
      BY <3>4
  <2>4. e + NthWeekdayOffset(r.start, e, "last weekday") = Max(WeekdaysOf(m, r.start))
    BY <1>1, <1>3, <2>3, LastWeekdayIs
  <2>5. Base(r, m) = Max(WeekdaysOf(m, r.start))
    BY <1>5 DEF Base
  <2>6. Due(r, m) = Base(r, m)
    BY <2>1, BaseFacts, AdjustFacts DEF Due
  <2> QED
    BY <2>2, <2>4, <2>5, <2>6
<1>6. CASE AtEnd(r.ptype)
  <2>1. ~OnLast(r.ptype)
    BY <1>6, KindFacts
  <2>2. Align(r, d, n) = AdjustWeekend(MonthEnd[m], r.wadj)
    BY <1>4, <1>6 DEF AtEnd
  <2>3. Base(r, m) = MonthEnd[m]
    BY <1>6, <2>1, EndOfMonthIs DEF Base
  <2> QED
    BY <2>2, <2>3 DEF Due
<1>7. CASE ByDay(r.ptype)
  <2>1. ~OnLast(r.ptype) /\ ~AtEnd(r.ptype)
    BY <1>7, KindFacts
  <2>2. Align(r, d, n) = AdjustWeekend(InMonth(m, Day(r.start)), r.wadj)
    BY <1>4, <1>7 DEF ByDay
  <2>3. Base(r, m) = InMonth(m, Day(r.start))
    BY <2>1 DEF Base
  <2> QED
    BY <2>2, <2>3 DEF Due
<1> QED
  BY <1>5, <1>6, <1>7, KindFacts

LEMMA OccurrenceIs ==
  ASSUME NEW r, WellMade(r), r.ptype \in Monthly, NEW k \in Nat, k > 0,
         Month[r.start] + MonthsApart(r) * k \in 1..LastMonth
  PROVE  Occurrence(r, k) = Due(r, Month[r.start] + MonthsApart(r) * k)
<1> DEFINE M0 == Month[r.start]
           m == M0 + k * r.mult * (IF r.ptype = "year" THEN 12 ELSE 1)
           n == MonthsApart(r)
           mu == r.mult
<1>1. M0 \in Int /\ mu \in Nat /\ r.start \in Days
  BY WellFields DEF WellMade
<1>2. m = M0 + n * k
  <2>1. n = IF r.ptype = "year" THEN 12 * mu ELSE mu
    BY DEF MonthsApart
  <2> HIDE DEF M0, n, mu
  <2>2. CASE r.ptype = "year"
    <3>1. m = M0 + k * mu * 12 /\ n = 12 * mu
      BY <2>1, <2>2 DEF mu
    <3>2. k * mu * 12 = (12 * mu) * k
      BY <1>1
    <3> QED
      BY <3>1, <3>2
  <2>3. CASE r.ptype # "year"
    <3>1. m = M0 + k * mu * 1 /\ n = mu
      BY <2>1, <2>3 DEF mu
    <3>2. k * mu * 1 = mu * k
      BY <1>1
    <3> QED
      BY <3>1, <3>2
  <2> QED
    BY <2>2, <2>3
<1>3. m \in 1..LastMonth
  BY <1>2
<1>4. k # 0
  OBVIOUS
<1>5. /\ OnLast(r.ptype) => Occurrence(r, k) = Max(WeekdaysOf(m, r.start))
      /\ AtEnd(r.ptype) => Occurrence(r, k) = AdjustWeekend(MonthEnd[m], r.wadj)
      /\ ByDay(r.ptype) => Occurrence(r, k) = AdjustWeekend(InMonth(m, Day(r.start)), r.wadj)
  <2>1. m = M0 + k * r.mult * (IF r.ptype = "year" THEN 12 ELSE 1)
    OBVIOUS
  <2> HIDE DEF m
  <2>2. ASSUME r.ptype = "last weekday"
        PROVE  Occurrence(r, k) = Max(WeekdaysOf(m, r.start))
    BY <1>4, <2>1, <2>2, Zenon DEF Occurrence
  <2>3. ASSUME r.ptype = "end of month"
        PROVE  Occurrence(r, k) = AdjustWeekend(MonthEnd[m], r.wadj)
    BY <1>4, <2>1, <2>3, Zenon DEF Occurrence
  <2>4. ASSUME r.ptype = "month"
        PROVE  Occurrence(r, k) = AdjustWeekend(InMonth(m, Day(r.start)), r.wadj)
    BY <1>4, <2>1, <2>4, Zenon DEF Occurrence
  <2>5. ASSUME r.ptype = "year"
        PROVE  Occurrence(r, k) = AdjustWeekend(InMonth(m, Day(r.start)), r.wadj)
    BY <1>4, <2>1, <2>5, Zenon DEF Occurrence
  <2> QED
    BY <2>2, <2>3, <2>4, <2>5 DEF OnLast, AtEnd, ByDay
<1> HIDE DEF m
<1>6. CASE OnLast(r.ptype)
  <2>1. r.wadj = "none"
    BY <1>6, KindFacts
  <2>2. Occurrence(r, k) = Max(WeekdaysOf(m, r.start))
    BY <1>5, <1>6
  <2>3. Base(r, m) = Max(WeekdaysOf(m, r.start))
    BY <1>6 DEF Base
  <2>4. Due(r, m) = Base(r, m)
    BY <1>3, <2>1, BaseFacts, AdjustFacts DEF Due
  <2> QED
    BY <1>2, <2>2, <2>3, <2>4
<1>7. CASE AtEnd(r.ptype)
  <2>1. ~OnLast(r.ptype)
    BY <1>7, KindFacts
  <2>2. Occurrence(r, k) = AdjustWeekend(MonthEnd[m], r.wadj)
    BY <1>5, <1>7
  <2>3. Base(r, m) = MonthEnd[m]
    BY <1>3, <1>7, <2>1, EndOfMonthIs DEF Base
  <2> QED
    BY <1>2, <2>2, <2>3 DEF Due
<1>8. CASE ByDay(r.ptype)
  <2>1. ~OnLast(r.ptype) /\ ~AtEnd(r.ptype)
    BY <1>8, KindFacts
  <2>2. Occurrence(r, k) = AdjustWeekend(InMonth(m, Day(r.start)), r.wadj)
    BY <1>5, <1>8
  <2>3. Base(r, m) = InMonth(m, Day(r.start))
    BY <2>1 DEF Base
  <2> QED
    BY <1>2, <2>2, <2>3 DEF Due
<1> QED
  BY <1>6, <1>7, <1>8, KindFacts

-----------------------------------------------------------------------------
(* The next occurrence is the earliest one that is strictly later.         *)

LEMMA EarliestIs ==
  ASSUME NEW S, NEW x \in S, x \in Int, \A y \in S : y \in Int /\ x <= y
  PROVE  EarliestOf(S) = x
<1>1. Min(S) = x
  <2>1. \A z \in S : (\A y \in S : z <= y) => z = x
    OBVIOUS
  <2> QED
    BY <2>1 DEF Min
<1> QED
  BY <1>1 DEF EarliestOf

LEMMA NextIs ==
  ASSUME NEW r, NEW ref \in Int, NEW P \in Nat, NEW k \in 0..P,
         Occurrence(r, k) \in Int, Occurrence(r, k) > ref,
         \A j \in 0..P : /\ Occurrence(r, j) \in Int
                         /\ Occurrence(r, j) <= ref \/ Occurrence(r, k) <= Occurrence(r, j)
  PROVE  EarliestAfter(r, ref, P) = Occurrence(r, k)
<1> DEFINE S == {d \in {Occurrence(r, j) : j \in 0..P} : d > ref}
           x == Occurrence(r, k)
<1>1. x \in S
  OBVIOUS
<1>2. \A y \in S : y \in Int /\ x <= y
  <2> TAKE y \in S
  <2>1. PICK j \in 0..P : y = Occurrence(r, j)
    OBVIOUS
  <2>2. y \in Int /\ y > ref /\ (y <= ref \/ x <= y)
    BY <2>1
  <2> HIDE DEF S, x
  <2> QED
    BY <2>2
<1>3. EarliestAfter(r, ref, P) = EarliestOf(S)
  BY DEF EarliestAfter
<1>4. x \in Int
  OBVIOUS
<1> HIDE DEF S, x
<1> QED
  BY <1>1, <1>2, <1>3, <1>4, EarliestIs DEF x

LEMMA NoneLeft ==
  ASSUME NEW r, NEW ref \in Int, Occurrence(r, 0) \in Int, Occurrence(r, 0) <= ref
  PROVE  EarliestAfter(r, ref, 0) = NoDate
<1>1. {d \in {Occurrence(r, k) : k \in 0..0} : d > ref} = {}
  <2>1. \A k \in 0..0 : k = 0
    OBVIOUS
  <2>2. ~(Occurrence(r, 0) > ref)
    OBVIOUS
  <2> QED
    BY <2>1, <2>2
<1> QED
  BY <1>1 DEF EarliestAfter, EarliestOf

LEMMA DueLater ==
  ASSUME NEW r, WellMade(r), r.ptype \in Monthly,
         NEW m \in 1..LastMonth, NEW k \in 1..LastMonth, m < k
  PROVE  Base(r, m) < Due(r, k) /\ Due(r, m) <= Due(r, k)
<1> DEFINE a == Base(r, m)
           b == Base(r, k)
           u == Due(r, m)
           v == Due(r, k)
<1>1. /\ a \in Int /\ a <= MonthEnd[m] /\ u \in Int /\ u <= a + 2
      /\ b \in Int /\ MonthEnd[k - 1] < b /\ v \in Int /\ b - 2 <= v
  BY BaseFacts
<1>2. /\ m - 1 \in 0..LastMonth /\ m \in 0..LastMonth /\ k - 1 \in 0..LastMonth /\ m <= k - 1
      /\ LastMonth \in Nat
  BY MonthsOf
<1>3. MonthEnd[m] <= MonthEnd[k - 1] /\ MonthEnd[m] \in Int /\ MonthEnd[k - 1] \in Int
  BY <1>2, MonthsInOrder, CalendarFacts
<1>4. CASE OnLast(r.ptype)
  <2>1. r.wadj = "none"
    BY <1>4, KindFacts
  <2>2. u = a /\ v = b
    BY <1>1, <2>1, AdjustFacts DEF Due
  <2> HIDE DEF a, b, u, v
  <2>3. a < v /\ u <= v
    BY <1>1, <1>3, <2>2
  <2> QED
    BY <2>3 DEF a, b, u, v
<1>5. CASE ~OnLast(r.ptype)
  <2> DEFINE s == Day(r.start)
             p == IF AtEnd(r.ptype) THEN 31 ELSE s
             L == MonthDays[m]
             K == MonthDays[k]
             e == MonthEnd[m - 1]
             f == MonthEnd[k - 1]
  <2>1. p \in 1..31
    <3>1. s \in 1..31
      BY WellFields
    <3> HIDE DEF s
    <3> QED
      BY <3>1
  <2>2. a = InMonth(m, p) /\ b = InMonth(k, p)
    BY <1>5 DEF Base
  <2> HIDE DEF p
  <2>3. /\ a = e + (IF p <= L THEN p ELSE L)
        /\ b = f + (IF p <= K THEN p ELSE K)
    <3> HIDE DEF a, b
    <3> QED
      BY <2>1, <2>2, InMonthFacts
  <2>4. L \in 28..31 /\ K \in 28..31 /\ MonthEnd[m] = e + L /\ e \in Nat
    BY CalendarFacts
  <2> HIDE DEF a, b, u, v, L, K, e
  <2>5. a + 28 <= b
    <3> HIDE DEF f
    <3> QED
      BY <1>3, <2>1, <2>3, <2>4 DEF f
  <2>6. a < v /\ u <= v
    BY <1>1, <2>5
  <2> QED
    BY <2>6 DEF a, b, u, v
<1> QED
  BY <1>4, <1>5

\* The months of the periods that end after the last date asked about
LEMMA MonthlyPeriods ==
  ASSUME NEW r, WellMade(r), r.ptype \in Monthly, NEW last \in Days, Covered(r, last)
  PROVE  /\ MonthsApart(r) \in Nat /\ MonthsApart(r) > 0
         /\ Periods(r, last) \in Nat
         /\ Month[last] + MonthsApart(r) < LastMonth
         /\ \A j \in 0..Periods(r, last) :
              /\ MonthsApart(r) * j \in Nat
              /\ Month[r.start] + MonthsApart(r) * j \in 1..LastMonth
         /\ \A c \in Nat, k \in Nat :
              /\ Month[r.start] <= c /\ c <= Month[last] + 1
              /\ Month[r.start] + MonthsApart(r) * k <= c + MonthsApart(r)
              => k <= Periods(r, last)
<1> DEFINE M0 == Month[r.start]
           n == MonthsApart(r)
           ml == Month[last]
           h == Max({ml + 1, M0})
           x == h - M0
           P == Periods(r, last)
<1>1. M0 \in 1..LastMonth /\ ml \in 1..LastMonth /\ LastMonth \in Nat
  BY WellFields, MonthOfDay, MonthsOf
<1>2. n \in Nat /\ n > 0
  <2>1. r.mult \in Nat /\ r.mult > 0
    BY DEF WellMade, Monthly
  <2>2. n = IF r.ptype = "year" THEN 12 * r.mult ELSE r.mult
    BY DEF MonthsApart
  <2> DEFINE mu == r.mult
  <2> HIDE DEF mu, n
  <2>3. CASE r.ptype = "year"
    <3>1. n = 12 * mu /\ mu \in Nat /\ mu > 0
      BY <2>1, <2>2, <2>3 DEF mu
    <3> QED
      BY <3>1
  <2>4. CASE r.ptype # "year"
    BY <2>1, <2>2, <2>4
  <2> QED
    BY <2>3, <2>4
<1>3. P = x \div n + 1
  <2>1. r.ptype # "once"
    BY DEF Monthly
  <2>2. Periods(r, last) = (Max({Month[last] + 1, Month[r.start]}) - Month[r.start]) \div MonthsApart(r) + 1
    BY <2>1, Zenon DEF Periods
  <2> QED
    BY <2>2
<1>4. Max({ml, M0}) + n < LastMonth
  BY DEF Covered
<1> HIDE DEF n, P
<1>5. h = IF ml + 1 <= M0 THEN M0 ELSE ml + 1
  <2> HIDE DEF ml, M0
  <2>1. ml + 1 \in Int /\ M0 \in Int
    BY <1>1
  <2> QED
    BY <2>1, MinOfTwo
<1>6. Max({ml, M0}) = IF ml <= M0 THEN M0 ELSE ml
  <2> HIDE DEF ml, M0
  <2>1. ml \in Int /\ M0 \in Int
    BY <1>1
  <2> QED
    BY <2>1, MinOfTwo
<1> HIDE DEF h
<1>7. x \in Nat /\ ml + n < LastMonth /\ M0 + x + n <= LastMonth /\ ml + 1 <= M0 + x
  <2> HIDE DEF ml, M0
  <2> QED
    BY <1>1, <1>2, <1>4, <1>5, <1>6
<1> HIDE DEF x, ml, M0
<1>8. /\ P \in Nat /\ n * P \in Nat /\ n * P <= x + n
      /\ \A k \in Nat : n * k <= x + n => k <= P
  BY <1>2, <1>3, <1>7, PeriodBound
<1>9. ASSUME NEW j \in 0..P
      PROVE  n * j \in Nat /\ M0 + n * j \in 1..LastMonth
  <2>1. n * 0 <= n * j /\ n * j <= n * P /\ n * j \in Int /\ n * 0 = 0
    BY <1>2, <1>8, Scaled
  <2> QED
    BY <1>1, <1>2, <1>7, <1>8, <2>1
<1>10. ASSUME NEW c \in Nat, NEW k \in Nat,
              M0 <= c, c <= ml + 1, M0 + n * k <= c + n
       PROVE  k <= P
  <2>1. n * k \in Nat
    BY <1>2
  <2>2. n * k <= x + n
    BY <1>1, <1>2, <1>7, <1>10, <2>1
  <2> QED
    BY <1>8, <2>2
<1> QED
  BY <1>2, <1>7, <1>8, <1>9, <1>10 DEF M0, n, ml, P

LEMMA MonthlyFirst ==
  ASSUME NEW r, WellMade(r), r.ptype \in Monthly, NEW last \in Days, Covered(r, last),
         NEW ref \in Nat, ref < r.start
  PROVE  NextInstance(r, ref) = EarliestAfter(r, ref, Periods(r, last))
<1> DEFINE M0 == Month[r.start]
           n == MonthsApart(r)
           P == Periods(r, last)
<1>1. /\ n \in Nat /\ n > 0 /\ P \in Nat
      /\ \A j \in 0..P : n * j \in Nat /\ M0 + n * j \in 1..LastMonth
  BY MonthlyPeriods
<1>2. M0 \in 1..LastMonth /\ Base(r, M0) = r.start /\ r.start \in Int
  BY WellFields, BaseOfStart
<1>3. Occurrence(r, 0) = r.start
  BY DEF Occurrence
<1>4. ASSUME NEW j \in 0..P, j # 0
      PROVE  Occurrence(r, j) \in Int /\ r.start <= Occurrence(r, j)
  <2> DEFINE m == M0 + n * j
  <2>1. m \in 1..LastMonth /\ j \in Nat /\ j > 0 /\ n * j \in Nat
    BY <1>1, <1>4
  <2>2. Occurrence(r, j) = Due(r, m)
    BY <2>1, OccurrenceIs
  <2>3. M0 < m
    <3>1. n * 1 <= n * j
      <4> HIDE DEF n
      <4> QED
        BY <1>1, <2>1, Scaled
    <3> HIDE DEF n, M0
    <3> QED
      BY <1>1, <1>2, <2>1, <3>1
  <2> HIDE DEF m, M0
  <2>4. r.start < Due(r, m) /\ Due(r, m) \in Int
    BY <1>2, <2>1, <2>3, DueLater, BaseFacts
  <2> QED
    BY <1>2, <2>2, <2>4
<1>5. \A j \in 0..P : Occurrence(r, j) \in Int /\ Occurrence(r, 0) <= Occurrence(r, j)
  BY <1>2, <1>3, <1>4
<1>6. 0 \in 0..P
  BY <1>1
<1>7. EarliestAfter(r, ref, P) = r.start
  <2> HIDE DEF P
  <2> QED
    BY <1>1, <1>2, <1>3, <1>5, <1>6, NextIs
<1>8. NextInstance(r, ref) = r.start
  BY Zenon DEF NextInstance
<1> QED
  BY <1>7, <1>8

LEMMA MonthlyNext ==
  ASSUME NEW r, WellMade(r), r.ptype \in Monthly, NEW last \in Days, Covered(r, last),
         NEW ref \in Nat, r.start <= ref, ref <= last,
         r.wadj = "forward" => Weekday(ref) \in 1..5
  PROVE  /\ NextInstance(r, ref) = EarliestAfter(r, ref, Periods(r, last))
         /\ NextInstance(r, ref) \in Nat /\ NextInstance(r, ref) > ref
<1> DEFINE M0 == Month[r.start]
           n == MonthsApart(r)
           P == Periods(r, last)
           d == Forward(r, ref, n)
<1>1. /\ n \in Nat /\ n > 0 /\ P \in Nat /\ Month[last] + n < LastMonth
      /\ \A j \in 0..P : n * j \in Nat /\ M0 + n * j \in 1..LastMonth
      /\ \A c \in Nat, k \in Nat :
           M0 <= c /\ c <= Month[last] + 1 /\ M0 + n * k <= c + n => k <= P
  BY MonthlyPeriods
<1>2. M0 \in 1..LastMonth /\ r.start \in Nat /\ r.start > 2 /\ LastMonth \in Nat
  BY WellFields, MonthsOf DEF Covered
<1>3. ref \in Days /\ ref > 2 /\ Month[ref] <= Month[last] /\ Month[ref] \in 1..LastMonth
      /\ Month[last] \in 1..LastMonth
  <2>1. last \in Nat /\ last <= MonthEnd[LastMonth] /\ MonthEnd[LastMonth] \in Int
    BY <1>2, CalendarFacts DEF Days
  <2>2. ref \in Days
    BY <1>2, <2>1 DEF Days
  <2> QED
    BY <1>2, <2>2, LaterMonth, MonthOfDay
<1>4. Month[ref] + n < LastMonth
  <2> HIDE DEF n
  <2> QED
    BY <1>1, <1>2, <1>3
<1>5. PICK c \in 1..LastMonth :
           /\ M0 <= c /\ c <= Month[ref] + 1
           /\ \A m \in 1..LastMonth : Due(r, m) <= ref <=> m <= c
           /\ d \in Days /\ Month[d] = c + n
  <2> HIDE DEF n
  <2> QED
    BY <1>1, <1>3, <1>4, ForwardMonth
<1>6. NextInstance(r, ref) = Align(r, d, n)
  <2>1. ~(ref < r.start)
    BY <1>2
  <2>2. r.ptype # "once"
    BY DEF Monthly
  <2>3. NextInstance(r, ref) =
          LET nn == IF r.ptype = "year" THEN 12 * r.mult ELSE r.mult
          IN Align(r, Forward(r, ref, nn), nn)
    BY <2>1, <2>2, Zenon DEF NextInstance
  <2>4. n = IF r.ptype = "year" THEN 12 * r.mult ELSE r.mult
    BY DEF MonthsApart
  <2> QED
    BY <2>3, <2>4
<1>7. PICK k \in Nat : k > 0 /\ FirstStep(n, M0, c, k)
  <2> HIDE DEF n, M0
  <2>1. M0 \in Int /\ c \in Int /\ M0 <= c
    BY <1>2, <1>5
  <2> QED
    BY <1>1, <2>1, NextStep
<1> DEFINE m == M0 + n * k
<1>8. /\ (c + n) - ((c + n - M0) % n) = m /\ c < m /\ m <= c + n
      /\ \A j \in Nat : /\ n * j \in Nat
                        /\ j < k => M0 + n * j <= c
                        /\ j >= k => m <= M0 + n * j
  BY <1>7 DEF FirstStep
<1>9. k \in 0..P
  <2> HIDE DEF n, M0, P
  <2>1. c <= Month[last] + 1 /\ c \in Nat
    BY <1>2, <1>3, <1>5
  <2>2. k <= P
    BY <1>1, <1>5, <1>8, <2>1
  <2> QED
    BY <1>1, <2>2
<1>10. m \in 1..LastMonth
  BY <1>1, <1>9
<1>11. Align(r, d, n) = Due(r, m)
  <2> HIDE DEF n, d
  <2>1. m = Month[d] - ((Month[d] - Month[r.start]) % n)
    <3>1. Month[d] = c + n /\ (c + n) - ((c + n - M0) % n) = m
      BY <1>5, <1>8
    <3> DEFINE md == Month[d]
    <3>2. md = c + n
      BY <3>1
    <3>3. (c + n) - ((c + n - M0) % n) = m
      BY <3>1
    <3> HIDE DEF m, md, M0
    <3>4. m = md - ((md - M0) % n)
      <4>1. c \in Int /\ n \in Nat /\ n > 0 /\ M0 \in Int
        BY <1>1, <1>2
      <4> QED
        BY ONLY <3>2, <3>3, <4>1
    <3> QED
      BY <3>4 DEF md, M0
  <2> HIDE DEF m
  <2> QED
    BY <1>1, <1>5, <1>10, <2>1, AlignIs
<1>12. Occurrence(r, k) = Due(r, m)
  BY <1>7, <1>10, OccurrenceIs
<1>13. Due(r, m) \in Int /\ Due(r, m) > ref
  <2> HIDE DEF m
  <2>1. Due(r, m) \in Int
    BY <1>10, BaseFacts
  <2>2. ~(m <= c)
    BY <1>8, <1>10
  <2> QED
    BY <1>5, <1>10, <2>1, <2>2
<1>14. ASSUME NEW j \in 0..P
       PROVE  /\ Occurrence(r, j) \in Int
              /\ Occurrence(r, j) <= ref \/ Occurrence(r, k) <= Occurrence(r, j)
  <2>1. CASE j = 0
    <3>1. Occurrence(r, 0) = r.start
      BY DEF Occurrence
    <3> QED
      BY <1>2, <2>1, <3>1
  <2>2. CASE j # 0
    <3> DEFINE i == M0 + n * j
    <3>1. i \in 1..LastMonth /\ j \in Nat /\ j > 0
      BY <1>1, <2>2
    <3>2. Occurrence(r, j) = Due(r, i)
      BY <3>1, OccurrenceIs
    <3>3. (j < k => i <= c) /\ (j >= k => m <= i)
      <4> HIDE DEF m
      <4> QED
        BY <1>8, <3>1
    <3> HIDE DEF i, m
    <3>4. Due(r, i) \in Int
      BY <3>1, BaseFacts
    <3>5. CASE j < k
      <4>1. Due(r, i) <= ref
        BY <1>5, <3>1, <3>3, <3>5
      <4> QED
        BY <3>2, <3>4, <4>1
    <3>6. CASE j >= k
      <4>1. m = i \/ m < i
        BY <1>10, <3>1, <3>3, <3>6
      <4>2. Due(r, m) <= Due(r, i)
        BY <1>10, <1>13, <3>1, <4>1, DueLater
      <4> QED
        BY <1>12, <3>2, <3>4, <4>2
    <3> QED
      BY <3>1, <3>5, <3>6
  <2> QED
    BY <2>1, <2>2
<1>15. EarliestAfter(r, ref, P) = Occurrence(r, k)
  <2>1. Occurrence(r, k) \in Int /\ Occurrence(r, k) > ref
    BY <1>12, <1>13
  <2>2. \A j \in 0..P : /\ Occurrence(r, j) \in Int
                        /\ Occurrence(r, j) <= ref \/ Occurrence(r, k) <= Occurrence(r, j)
    BY <1>14
  <2>3. ref \in Int /\ P \in Nat
    BY <1>1
  <2> HIDE DEF m, P, n
  <2> QED
    BY <1>9, <2>1, <2>2, <2>3, NextIs
<1> HIDE DEF m, d, n, P
<1>16. NextInstance(r, ref) = EarliestAfter(r, ref, P)
  BY <1>6, <1>11, <1>12, <1>15
<1>17. NextInstance(r, ref) \in Nat /\ NextInstance(r, ref) > ref
  BY <1>6, <1>11, <1>13
<1> QED
  BY <1>16, <1>17 DEF P

LEMMA DailyNext ==
  ASSUME NEW r, WellMade(r), r.ptype \in {"day", "week"}, NEW last \in Nat,
         NEW ref \in Nat, ref <= last
  PROVE  /\ NextInstance(r, ref) = EarliestAfter(r, ref, Periods(r, last))
         /\ NextInstance(r, ref) \in Nat /\ NextInstance(r, ref) > ref
<1> DEFINE st == r.start
           n == DaysApart(r)
           h == Max({last, st})
           x == h - st
           P == Periods(r, last)
           mu == r.mult
<1>1. st \in Nat /\ st > 0 /\ mu \in Nat /\ mu > 0
  BY WellFields DEF WellMade
<1>2. n = IF r.ptype = "week" THEN 7 * mu ELSE mu
  BY DEF DaysApart
<1>3. n \in Nat /\ n > 0
  <2> HIDE DEF n, mu
  <2>1. CASE r.ptype = "week"
    <3>1. n = 7 * mu
      BY <1>2, <2>1
    <3> QED
      BY <1>1, <3>1
  <2>2. CASE r.ptype # "week"
    BY <1>1, <1>2, <2>2
  <2> QED
    BY <2>1, <2>2
<1>4. r.ptype # "once" /\ r.ptype \notin Monthly
  BY DEF Monthly
<1>5. P = x \div n + 1
  BY <1>4 DEF Periods
<1>6. Occurrence(r, 0) = st
  BY DEF Occurrence
<1>7. ASSUME NEW j \in Nat  PROVE Occurrence(r, j) = st + n * j
  <2>1. CASE j = 0
    <3>1. n * 0 = 0
      <4> HIDE DEF n
      <4> QED
        BY <1>3
    <3> HIDE DEF n
    <3> QED
      BY <1>1, <1>6, <2>1, <3>1
  <2>2. CASE j # 0
    <3>1. CASE r.ptype = "day"
      <4>1. Occurrence(r, j) = st + j * mu
        BY <2>2, <3>1 DEF Occurrence
      <4>2. n = mu
        BY <1>2, <3>1
      <4>3. j * mu = mu * j
        <5> HIDE DEF mu
        <5> QED
          BY <1>1
      <4> QED
        BY <4>1, <4>2, <4>3
    <3>2. CASE r.ptype = "week"
      <4>1. Occurrence(r, j) = st + 7 * j * mu
        BY <2>2, <3>2 DEF Occurrence
      <4>2. n = 7 * mu
        BY <1>2, <3>2
      <4>3. 7 * j * mu = (7 * mu) * j
        <5> HIDE DEF mu
        <5> QED
          BY <1>1
      <4> QED
        BY <4>1, <4>2, <4>3
    <3> QED
      BY <3>1, <3>2
  <2> QED
    BY <2>1, <2>2
<1>8. h = IF last <= st THEN st ELSE last
  <2> HIDE DEF st
  <2>1. last \in Int /\ st \in Int
    BY <1>1
  <2> QED
    BY <2>1, MinOfTwo
<1> HIDE DEF h
<1>9. x \in Nat /\ last <= st + x
  <2> HIDE DEF st
  <2> QED
    BY <1>1, <1>8
<1> HIDE DEF n, P, x
<1>10. P \in Nat /\ \A k \in Nat : n * k <= x + n => k <= P
  BY <1>3, <1>5, <1>9, PeriodBound
<1>11. CASE ref < st
  <2>1. NextInstance(r, ref) = st
    BY <1>11 DEF NextInstance
  <2>2. \A j \in 0..P : Occurrence(r, j) \in Int /\ Occurrence(r, 0) <= Occurrence(r, j)
    <3> HIDE DEF st
    <3> TAKE j \in 0..P
    <3>1. j \in Nat
      BY <1>10
    <3>2. n * j \in Nat
      BY <1>3, <3>1
    <3> QED
      BY <1>1, <1>6, <1>7, <3>1, <3>2
  <2>3. 0 \in 0..P
    BY <1>10
  <2> HIDE DEF st
  <2>4. EarliestAfter(r, ref, P) = st
    BY <1>1, <1>6, <1>10, <1>11, <2>2, <2>3, NextIs
  <2> QED
    BY <1>1, <1>11, <2>1, <2>4 DEF P
<1>12. CASE st <= ref
  <2>1. PICK k \in Nat : k > 0 /\ FirstStep(n, st, ref, k)
    <3> HIDE DEF st
    <3> QED
      BY <1>1, <1>3, <1>12, NextStep
  <2> DEFINE to == st + n * k
  <2>2. /\ (ref + n) - ((ref + n - st) % n) = to /\ ref < to /\ to <= ref + n
        /\ \A j \in Nat : /\ n * j \in Nat
                          /\ j < k => st + n * j <= ref
                          /\ j >= k => to <= st + n * j
    BY <2>1 DEF FirstStep
  <2>3. NextInstance(r, ref) = to
    <3>1. ~(ref < st)
      BY <1>1, <1>12
    <3>2. NextInstance(r, ref) = ref + n - ((ref + n - st) % n)
      <4>1. n = IF r.ptype = "week" THEN 7 * r.mult ELSE r.mult
        BY <1>2
      <4>2. NextInstance(r, ref) =
              LET nn == IF r.ptype = "week" THEN 7 * r.mult ELSE r.mult
              IN ref + nn - ((ref + nn - r.start) % nn)
        BY <1>4, <3>1, Zenon DEF NextInstance
      <4> QED
        BY <4>1, <4>2, Zenon
    <3>3. (ref + n) - ((ref + n - st) % n) = to
      BY <2>2
    <3>4. st \in Nat /\ n \in Nat /\ n > 0
      BY <1>1, <1>3
    <3> HIDE DEF st, to
    <3> QED
      BY ONLY <3>2, <3>3, <3>4
  <2>4. Occurrence(r, k) = to
    BY <1>7
  <2>5. n * k \in Nat
    BY <2>2
  <2>6. to \in Nat
    <3> HIDE DEF st
    <3> QED
      BY <1>1, <2>5
  <2>7. k \in 0..P
    <3> HIDE DEF st
    <3>1. n * k <= x + n
      BY <1>1, <1>3, <1>9, <2>2, <2>5
    <3> QED
      BY <1>10, <3>1
  <2>8. ASSUME NEW j \in 0..P
        PROVE  /\ Occurrence(r, j) \in Int
               /\ Occurrence(r, j) <= ref \/ Occurrence(r, k) <= Occurrence(r, j)
    <3>1. j \in Nat
      BY <1>10
    <3>2. n * j \in Nat /\ (j < k => st + n * j <= ref) /\ (j >= k => to <= st + n * j)
      BY <2>2, <3>1
    <3>3. Occurrence(r, j) = st + n * j
      BY <1>7, <3>1
    <3> DEFINE o == st + n * j
    <3>4. o \in Int
      <4> HIDE DEF st
      <4> QED
        BY <1>1, <3>2
    <3>5. o <= ref \/ to <= o
      <4> HIDE DEF to, o
      <4>1. (j < k => o <= ref) /\ (j >= k => to <= o)
        BY <3>2 DEF o
      <4> QED
        BY <3>1, <4>1
    <3> HIDE DEF o, to
    <3> QED
      BY <2>4, <3>3, <3>4, <3>5 DEF o
  <2> HIDE DEF to
  <2>9. Occurrence(r, k) \in Int /\ Occurrence(r, k) > ref
    BY <2>2, <2>4, <2>6
  <2>10. EarliestAfter(r, ref, P) = Occurrence(r, k)
    BY <1>10, <2>7, <2>8, <2>9, NextIs
  <2>11. NextInstance(r, ref) = EarliestAfter(r, ref, P)
    BY <2>3, <2>4, <2>10
  <2> QED
    BY <2>2, <2>3, <2>6, <2>11 DEF P
<1>13. ref < st \/ st <= ref
  BY <1>1
<1> QED
  BY <1>11, <1>12, <1>13

LEMMA OnceNext ==
  ASSUME NEW r, WellMade(r), r.ptype = "once", NEW last, NEW ref \in Nat
  PROVE  NextInstance(r, ref) = EarliestAfter(r, ref, Periods(r, last))
<1> DEFINE st == r.start
<1>1. st \in Nat /\ st > 0
  BY WellFields
<1>2. Periods(r, last) = 0
  BY Zenon DEF Periods, Monthly
<1>3. Occurrence(r, 0) = st
  BY DEF Occurrence
<1>4. CASE ref < st
  <2>1. NextInstance(r, ref) = st
    BY <1>4 DEF NextInstance
  <2>2. \A j \in 0..0 : Occurrence(r, j) \in Int /\ Occurrence(r, 0) <= Occurrence(r, j)
    <3>1. \A j \in 0..0 : j = 0
      OBVIOUS
    <3> HIDE DEF st
    <3> QED
      BY <1>1, <1>3, <3>1
  <2>3. EarliestAfter(r, ref, 0) = Occurrence(r, 0)
    <3>1. 0 \in 0..0 /\ 0 \in Nat /\ ref \in Int
      OBVIOUS
    <3>2. Occurrence(r, 0) \in Int /\ Occurrence(r, 0) > ref
      <4> HIDE DEF st
      <4> QED
        BY <1>1, <1>3, <1>4
    <3> HIDE DEF st
    <3> QED
      BY <2>2, <3>1, <3>2, NextIs
  <2> QED
    BY <1>2, <1>3, <2>1, <2>3
<1>5. CASE ~(ref < st)
  <2>1. NextInstance(r, ref) = NoDate
    BY <1>5 DEF NextInstance
  <2>2. EarliestAfter(r, ref, 0) = NoDate
    <3> HIDE DEF st
    <3> QED
      BY <1>1, <1>3, <1>5, NoneLeft
  <2> QED
    BY <1>2, <2>1, <2>2
<1> QED
  BY <1>4, <1>5

\* The occurrences that a date is looked for among are dates.
LEMMA OccurrencesInt ==
  ASSUME NEW r, WellMade(r), NEW last \in Days, Covered(r, last)
  PROVE  \A k \in 0..Periods(r, last) : Occurrence(r, k) \in Int
<1> TAKE k \in 0..Periods(r, last)
<1>1. r.ptype \in Monthly \/ r.ptype \in {"day", "week"} \/ r.ptype = "once"
  BY DEF WellMade, PeriodTypes
<1>2. r.start \in Int /\ r.mult \in Nat
  BY WellFields DEF WellMade
<1>3. CASE k = 0
  BY <1>2, <1>3 DEF Occurrence
<1>4. CASE k # 0 /\ r.ptype \in Monthly
  <2> DEFINE m == Month[r.start] + MonthsApart(r) * k
  <2>1. Periods(r, last) \in Nat /\ m \in 1..LastMonth
    BY <1>4, MonthlyPeriods
  <2>2. k \in Nat /\ k > 0
    BY <1>4, <2>1
  <2>3. Occurrence(r, k) = Due(r, m)
    BY <1>4, <2>1, <2>2, OccurrenceIs
  <2> HIDE DEF m
  <2> QED
    BY <1>4, <2>1, <2>3, BaseFacts
<1>5. CASE k # 0 /\ r.ptype \in {"day", "week"}
  <2> DEFINE st == r.start
             mu == r.mult
  <2>1. Occurrence(r, k) \in {st + k * mu, st + 7 * k * mu}
    <3>1. CASE r.ptype = "day"
      BY <1>5, <3>1 DEF Occurrence
    <3>2. CASE r.ptype = "week"
      BY <1>5, <3>2 DEF Occurrence
    <3> QED
      BY <1>5, <3>1, <3>2
  <2>2. k \in Int
    OBVIOUS
  <2> HIDE DEF st, mu
  <2>3. st \in Int /\ mu \in Int
    BY <1>2 DEF st, mu
  <2> QED
    BY <2>1, <2>2, <2>3
<1>6. CASE k # 0 /\ r.ptype = "once"
  <2>1. Periods(r, last) = 0
    BY <1>6, Zenon DEF Periods, Monthly
  <2> QED
    BY <1>6, <2>1
<1> QED
  BY <1>1, <1>3, <1>4, <1>5, <1>6

\* Whatever the period
LEMMA NextFound ==
  ASSUME NEW r, WellMade(r), NEW last \in Days, Covered(r, last),
         NEW ref \in Nat, ref <= last,
         r.wadj = "forward" => Weekday(ref) \in 1..5
  PROVE  NextInstance(r, ref) = EarliestAfter(r, ref, Periods(r, last))
<1>1. r.ptype \in Monthly \/ r.ptype \in {"day", "week"} \/ r.ptype = "once"
  BY DEF WellMade, PeriodTypes
<1>2. CASE r.ptype \in Monthly
  <2>1. r.start \in Nat
    BY WellFields
  <2>2. CASE ref < r.start
    BY <1>2, <2>2, MonthlyFirst
  <2>3. CASE r.start <= ref
    BY <1>2, <2>3, MonthlyNext
  <2> QED
    BY <2>1, <2>2, <2>3
<1>3. CASE r.ptype \in {"day", "week"}
  <2>1. last \in Nat
    BY MonthOfDay
  <2> QED
    BY <1>3, <2>1, DailyNext
<1>4. CASE r.ptype = "once"
  BY <1>4, OnceNext
<1> QED
  BY <1>1, <1>2, <1>3, <1>4

-----------------------------------------------------------------------------
WalkInv ==
  /\ rule \in {<<>>} \cup {<<r>> : r \in Rules}
  /\ asked \in 0..LastRef

LEMMA WalkAlways == WalkSpec => []WalkInv
<1>1. WalkInit => WalkInv
  BY RuleWalkAssumption, MonthOfDay DEF WalkInit, WalkInv
<1>2. WalkInv /\ [AskNext]_walkvars => WalkInv'
  <2>1. LastRef \in Nat
    BY RuleWalkAssumption, MonthOfDay
  <2>2. WalkInv /\ AskNext => WalkInv'
    BY <2>1 DEF WalkInv, AskNext
  <2>3. WalkInv /\ UNCHANGED walkvars => WalkInv'
    BY DEF WalkInv, walkvars
  <2> QED
    BY <2>2, <2>3
<1> QED
  BY <1>1, <1>2, PTL DEF WalkSpec

(* A recurrence that recurrenceSet makes, of any type but "nth weekday",   *)
(* asked about any date from the first day on, names the earliest of its   *)
(* occurrences that is later, in any calendar with months of 28 to 31 days *)
(* (recurrenceNextInstance); one that is moved forward off weekends does   *)
(* when the date asked about is not in a weekend.                          *)
THEOREM NextIsEarliestAlways == WalkSpec => []NextIsEarliest
<1>1. WalkInv => NextIsEarliest
  <2> SUFFICES ASSUME WalkInv, NEW i \in DOMAIN rule,
                      ~OnNth(rule[i].ptype),
                      ~(rule[i].wadj = "forward" /\ Weekday(asked) \in {Saturday, Sunday})
               PROVE  NextInstance(rule[i], asked)
                        = EarliestAfter(rule[i], asked, Periods(rule[i], LastRef))
    BY Zenon DEF NextIsEarliest, OnNth
  <2>1. PICK r \in Rules : rule = <<r>>
    <3>1. rule # <<>>
      OBVIOUS
    <3> QED
      BY <3>1 DEF WalkInv
  <2>2. i = 1 /\ rule[i] = r
    BY <2>1
  <2>3. PICK mult \in Multipliers, pt \in RuleTypes, start \in RuleStarts, wadj \in Adjustments :
          r = RecurrenceSet(mult, pt, start, wadj)
    BY DEF Rules
  <2>4. mult \in Nat /\ start \in Days /\ LastRef \in Days /\ Covered(r, LastRef)
    BY RuleWalkAssumption
  <2>5. ~OnNth(RecurrenceSet(mult, pt, start, wadj).ptype)
    BY <2>2, <2>3
  <2>6. WellMade(RecurrenceSet(mult, pt, start, wadj))
    BY <2>4, <2>5, MadeWell
  <2>7. WellMade(r)
    BY <2>3, <2>6
  <2>8. LastRef \in Nat
    BY <2>4, MonthOfDay
  <2>9. asked \in Nat /\ asked <= LastRef
    BY <2>8 DEF WalkInv
  <2>10. r.wadj = "forward" => Weekday(asked) \in 1..5
    <3>1. Weekday(asked) \in 1..7
      BY <2>9, WeekdayFacts
    <3>2. r.wadj = "forward" => Weekday(asked) # 6 /\ Weekday(asked) # 7
      BY <2>2 DEF Saturday, Sunday
    <3> QED
      BY <3>1, <3>2
  <2>11. NextInstance(r, asked) = EarliestAfter(r, asked, Periods(r, LastRef))
    BY <2>4, <2>7, <2>9, <2>10, NextFound
  <2> QED
    BY <2>2, <2>11
<1> QED
  BY <1>1, WalkAlways, PTL

-----------------------------------------------------------------------------
(* What schedules need of their recurrences.                               *)

Plain(r) ==
  /\ r.ptype \in {"once", "day", "week"} /\ r.start \in Nat /\ r.mult \in Nat
  /\ r.ptype # "once" => r.mult > 0

Steady(r, last) ==
  \A ref \in 0..last :
    /\ NextInstance(r, ref) \in Nat
    /\ NextInstance(r, ref) = NoDate \/ ref < NextInstance(r, ref)
    /\ \A d \in 0..last :
         ref <= d /\ (NextInstance(r, ref) = NoDate \/ d < NextInstance(r, ref)) =>
           NextInstance(r, d) = NextInstance(r, ref)

LEMMA PlainIsSteady ==
  ASSUME NEW r, Plain(r), NEW last \in Nat
  PROVE  Steady(r, last)
<1> SUFFICES ASSUME NEW ref \in Nat
             PROVE  LET next == NextInstance(r, ref)
                    IN /\ next \in Nat
                       /\ next = NoDate \/ ref < next
                       /\ \A d \in Nat : ref <= d /\ (next = NoDate \/ d < next) =>
                            NextInstance(r, d) = next
  <2>1. \A d \in 0..last : d \in Nat
    OBVIOUS
  <2> QED
    BY <2>1 DEF Steady
<1> DEFINE st == r.start
           n == IF r.ptype = "week" THEN 7 * r.mult ELSE r.mult
<1>1. st \in Nat /\ n \in Nat /\ (r.ptype # "once" => n > 0) /\ r.ptype \notin Monthly
  <2>1. st \in Nat /\ r.ptype \notin Monthly
    BY DEF Plain, Monthly
  <2>2. r.mult \in Nat /\ (r.ptype # "once" => r.mult > 0)
    BY DEF Plain
  <2> DEFINE k == r.mult
  <2>3. 7 * k \in Nat /\ (k > 0 => 7 * k > 0)
    <3>1. k \in Nat
      BY <2>2
    <3> HIDE DEF k
    <3> QED
      BY <3>1
  <2> QED
    BY <2>1, <2>2, <2>3
<1>2. ASSUME NEW d \in Nat
      PROVE  NextInstance(r, d) = IF d < st THEN st
                                  ELSE IF r.ptype = "once" THEN NoDate
                                  ELSE d + n - ((d + n - st) % n)
  BY <1>1 DEF NextInstance
<1> HIDE DEF st, n
<1>3. CASE ref < st
  <2>1. NextInstance(r, ref) = st
    BY <1>2, <1>3
  <2>2. st # NoDate
    BY <1>1, <1>3 DEF NoDate
  <2> QED
    BY <1>1, <1>2, <1>3, <2>1, <2>2
<1>4. CASE ref >= st /\ r.ptype = "once"
  <2>1. ASSUME NEW d \in Nat, ref <= d  PROVE NextInstance(r, d) = NoDate
    <3>1. ~(d < st)
      BY <1>1, <1>4, <2>1
    <3> QED
      BY <1>2, <1>4, <3>1
  <2>2. NextInstance(r, ref) = NoDate
    BY <2>1
  <2> QED
    BY <2>1, <2>2 DEF NoDate
<1>5. CASE ref >= st /\ r.ptype # "once"
  <2> DEFINE a == ref + n - st
             m == a % n
             next == ref + n - m
  <2>1. a \in Nat /\ n > 0
    BY <1>1, <1>5
  <2>2. NextInstance(r, ref) = next
    BY <1>1, <1>2, <1>5
  <2>3. m \in 0..(n - 1)
    <3> HIDE DEF a
    <3>1. 0 < n - (a % n)
      BY <1>1, <2>1
    <3> QED
      BY <1>1, <2>1, <3>1, ModSame
  <2>4. next \in Nat /\ ref < next
    <3> HIDE DEF m
    <3> QED
      BY <1>1, <2>3
  <2>5. ASSUME NEW d \in Nat, ref <= d, d < next  PROVE NextInstance(r, d) = next
    <3> DEFINE e == d - ref
    <3>1. e \in Nat /\ e < n - m /\ d + n - st = a + e
      <4> HIDE DEF m
      <4> QED
        BY <1>1, <1>5, <2>3, <2>5
    <3>2. (a + e) % n = m + e
      <4> HIDE DEF a, e
      <4>1. a \in Nat /\ n \in Nat /\ n > 0 /\ e \in Nat /\ e < n - (a % n)
        BY <1>1, <2>1, <3>1
      <4> QED
        BY <4>1, ModSame, Zenon
    <3>3. NextInstance(r, d) = d + n - ((d + n - st) % n)
      <4>1. ~(d < st)
        BY <1>1, <1>5, <2>5
      <4> QED
        BY <1>2, <1>5, <4>1
    <3>4. NextInstance(r, d) = d + n - (m + e)
      BY <3>1, <3>2, <3>3
    <3>5. d + n - (m + e) = next
      <4> HIDE DEF m
      <4> QED
        BY <1>1, <2>3
    <3> QED
      BY <3>4, <3>5
  <2> HIDE DEF next
  <2>6. next # NoDate
    BY <2>4 DEF NoDate
  <2> QED
    BY <2>2, <2>4, <2>5, <2>6
<1>6. ref < st \/ ref >= st
  BY <1>1
<1> QED
  BY <1>3, <1>4, <1>5, <1>6

\* The earliest of several is as steady as they are.
LEMMA ListIsSteady ==
  ASSUME NEW rs, NEW last \in Nat, \A i \in DOMAIN rs : Steady(rs[i], last),
         NEW ref \in 0..last
  PROVE  LET next == ListNextInstance(rs, ref)
         IN /\ next \in Nat
            /\ next = NoDate \/ ref < next
            /\ \A d \in 0..last : ref <= d /\ (next = NoDate \/ d < next) =>
                 ListNextInstance(rs, d) = next
<1> DEFINE S(d) == {NextInstance(rs[i], d) : i \in DOMAIN rs} \ {NoDate}
           next == ListNextInstance(rs, ref)
<1>1. \A d : ListNextInstance(rs, d) = EarliestOf(S(d))
  BY DEF ListNextInstance
<1>2. \A i \in DOMAIN rs : NextInstance(rs[i], ref) \in Nat
  BY DEF Steady
<1>3. S(ref) \in SUBSET Nat
  BY <1>2
<1>4. ASSUME NEW i \in DOMAIN rs, NextInstance(rs[i], ref) # NoDate
      PROVE  ref < NextInstance(rs[i], ref)
  BY <1>4 DEF Steady
<1>5. ASSUME NEW d \in 0..last, ref <= d,
             \A x \in S(ref) : d < x
      PROVE  S(d) = S(ref)
  <2>1. ASSUME NEW i \in DOMAIN rs  PROVE NextInstance(rs[i], d) = NextInstance(rs[i], ref)
    <3>1. NextInstance(rs[i], ref) = NoDate \/ NextInstance(rs[i], ref) \in S(ref)
      OBVIOUS
    <3>2. NextInstance(rs[i], ref) = NoDate \/ d < NextInstance(rs[i], ref)
      BY <1>5, <3>1
    <3> QED
      BY <1>5, <3>2 DEF Steady
  <2> QED
    BY <2>1
<1>6. CASE S(ref) = {}
  <2>1. next = NoDate
    BY <1>1, <1>6 DEF EarliestOf
  <2>2. ASSUME NEW d \in 0..last, ref <= d  PROVE ListNextInstance(rs, d) = next
    <3>1. \A x \in S(ref) : d < x
      BY <1>6
    <3>2. S(d) = S(ref)
      BY <1>5, <2>2, <3>1
    <3> QED
      BY <1>1, <3>2
  <2> HIDE DEF next
  <2>3. next \in Nat
    BY <2>1 DEF NoDate
  <2> QED
    BY <2>1, <2>2, <2>3 DEF next
<1>7. CASE S(ref) # {}
  <2>1. next = Min(S(ref))
    BY <1>1, <1>7 DEF EarliestOf
  <2>2. Min(S(ref)) \in S(ref) /\ \A y \in S(ref) : Min(S(ref)) <= y
    <3> HIDE DEF S
    <3> QED
      BY <1>3, <1>7, MinIsLeast
  <2>3. next \in Nat /\ next # NoDate /\ ref < next
    <3>1. PICK i \in DOMAIN rs : next = NextInstance(rs[i], ref)
      BY <2>1, <2>2
    <3>2. next # NoDate
      BY <2>1, <2>2
    <3> HIDE DEF next
    <3> QED
      BY <1>2, <1>4, <3>1, <3>2
  <2>4. ASSUME NEW d \in 0..last, ref <= d, d < next  PROVE ListNextInstance(rs, d) = next
    <3>1. ASSUME NEW x \in S(ref)  PROVE d < x
      <4>1. next <= x /\ x \in Nat
        BY <1>3, <2>1, <2>2
      <4> HIDE DEF next, S
      <4> QED
        BY <2>3, <2>4, <4>1
    <3>2. S(d) = S(ref)
      BY <1>5, <2>4, <3>1
    <3> QED
      BY <1>1, <3>2
  <2> HIDE DEF next
  <2> QED
    BY <2>3, <2>4 DEF next
<1> QED
  BY <1>6, <1>7

\* The earliest of a rule's occurrences is the same from every date before it.
LEMMA FoundIsSteady ==
  ASSUME NEW r, WellMade(r), r.wadj # "forward", NEW last \in Days, Covered(r, last)
  PROVE  Steady(r, last)
<1> DEFINE P == Periods(r, last)
           S(d) == {o \in {Occurrence(r, k) : k \in 0..P} : o > d}
<1>1. last \in Nat
  BY MonthOfDay
<1>2. ASSUME NEW d \in 0..last  PROVE NextInstance(r, d) = EarliestOf(S(d))
  <2>1. d \in Nat /\ d <= last
    BY <1>1
  <2>2. NextInstance(r, d) = EarliestAfter(r, d, P)
    BY <2>1, NextFound
  <2> QED
    BY <2>2 DEF EarliestAfter
<1>3. \A k \in 0..P : Occurrence(r, k) \in Int
  BY OccurrencesInt
<1> SUFFICES ASSUME NEW ref \in 0..last
             PROVE  /\ EarliestOf(S(ref)) \in Nat
                    /\ EarliestOf(S(ref)) = NoDate \/ ref < EarliestOf(S(ref))
                    /\ \A d \in 0..last :
                         ref <= d /\ (EarliestOf(S(ref)) = NoDate \/ d < EarliestOf(S(ref))) =>
                           EarliestOf(S(d)) = EarliestOf(S(ref))
  BY <1>2 DEF Steady
<1>4. \A d : \A o : o \in S(d) <=> (\E k \in 0..P : o = Occurrence(r, k)) /\ o > d
  OBVIOUS
<1> HIDE DEF S
<1>5. \A d \in 0..last : S(d) \in SUBSET Nat
  <2> TAKE d \in 0..last
  <2>1. \A o \in S(d) : o \in Int /\ o > d
    BY <1>3, <1>4
  <2> QED
    BY <1>1, <2>1
<1>6. CASE S(ref) = {}
  <2>1. EarliestOf(S(ref)) = 0
    BY <1>6 DEF EarliestOf, NoDate
  <2>2. ASSUME NEW d \in 0..last, ref <= d  PROVE S(d) = S(ref)
    <3>1. \A o \in S(d) : o \in S(ref)
      <4> TAKE o \in S(d)
      <4>1. o \in Nat /\ o > d /\ \E k \in 0..P : o = Occurrence(r, k)
        BY <1>4, <1>5
      <4>2. o > ref
        BY <1>1, <2>2, <4>1
      <4> QED
        BY <1>4, <4>1, <4>2
    <3> QED
      BY <1>6, <3>1
  <2> QED
    BY <2>1, <2>2 DEF NoDate
<1>7. CASE S(ref) # {}
  <2> DEFINE x == Min(S(ref))
  <2>1. EarliestOf(S(ref)) = x
    BY <1>7 DEF EarliestOf
  <2>2. x \in S(ref) /\ \A y \in S(ref) : x <= y
    BY <1>5, <1>7, MinIsLeast
  <2> HIDE DEF x
  <2>3. x \in Nat /\ x > ref /\ x # NoDate
    <3>1. x \in Nat /\ x > ref
      BY <1>4, <1>5, <2>2
    <3> QED
      BY <1>1, <3>1 DEF NoDate
  <2>4. ASSUME NEW d \in 0..last, ref <= d, d < x  PROVE S(d) = S(ref)
    <3>1. \A o \in S(d) : o \in S(ref)
      <4> TAKE o \in S(d)
      <4>1. o \in Nat /\ o > d /\ \E k \in 0..P : o = Occurrence(r, k)
        BY <1>4, <1>5
      <4>2. o > ref
        BY <1>1, <2>4, <4>1
      <4> QED
        BY <1>4, <4>1, <4>2
    <3>2. \A o \in S(ref) : o \in S(d)
      <4> TAKE o \in S(ref)
      <4>1. o \in Nat /\ x <= o /\ \E k \in 0..P : o = Occurrence(r, k)
        BY <1>4, <1>5, <2>2
      <4>2. o > d
        BY <1>1, <2>3, <2>4, <4>1
      <4> QED
        BY <1>4, <4>1, <4>2
    <3> QED
      BY <3>1, <3>2
  <2> QED
    BY <2>1, <2>3, <2>4
<1> QED
  BY <1>6, <1>7

LEMMA SteadyIsRegular ==
  ASSUME \A rs \in Schedules : \A i \in DOMAIN rs : Steady(rs[i], Horizon)
  PROVE  Regular
<1> SUFFICES ASSUME NEW rs \in Schedules, NEW ref \in 0..Horizon
             PROVE  LET next == ListNextInstance(rs, ref)
                    IN /\ next \in Nat
                       /\ next = NoDate \/ ref < next
                       /\ \A d \in ref..Horizon :
                            next = NoDate \/ d < next => ListNextInstance(rs, d) = next
  BY DEF Regular
<1>1. Horizon \in Nat /\ \A d \in ref..Horizon : d \in 0..Horizon /\ ref <= d
  BY ScheduleBounds
<1> QED
  BY <1>1, ListIsSteady

(* Schedules by the day and by the week, and those that occur once, are    *)
(* regular, however many of them make up one schedule                      *)
(* (recurrenceNextInstance, recurrenceListNextInstance).                   *)
THEOREM PlainSchedulesAreRegular ==
  ASSUME \A rs \in Schedules : \A i \in DOMAIN rs : Plain(rs[i])
  PROVE  Regular
<1>1. ASSUME NEW rs \in Schedules, NEW i \in DOMAIN rs  PROVE Steady(rs[i], Horizon)
  BY PlainIsSteady, ScheduleBounds
<1> QED
  BY <1>1, SteadyIsRegular

(* So are schedules of any periods but "nth weekday", as recurrenceSet     *)
(* makes them, with weekends left alone or moved back from, in any         *)
(* calendar that reaches beyond the last date the dialog looks at.         *)
THEOREM MadeSchedulesAreRegular ==
  ASSUME \A rs \in Schedules : \A i \in DOMAIN rs :
           /\ \E mult \in Nat, pt \in PeriodTypes, start \in Days, wadj \in {"none", "back"} :
                rs[i] = RecurrenceSet(mult, pt, start, wadj)
           /\ rs[i].ptype # "nth weekday"
           /\ Covered(rs[i], Horizon)
  PROVE  Regular
<1>1. ASSUME NEW rs \in Schedules, NEW i \in DOMAIN rs  PROVE Steady(rs[i], Horizon)
  <2> DEFINE r == rs[i]
  <2>1. PICK mult \in Nat, pt \in PeriodTypes, start \in Days, wadj \in {"none", "back"} :
          r = RecurrenceSet(mult, pt, start, wadj)
    BY <1>1
  <2>2. ~OnNth(r.ptype) /\ Covered(r, Horizon)
    BY <1>1, Zenon DEF OnNth
  <2>3. wadj \in Adjustments
    BY DEF Adjustments
  <2> HIDE DEF r
  <2>4. ~OnNth(RecurrenceSet(mult, pt, start, wadj).ptype)
    BY <2>1, <2>2
  <2>5. WellMade(RecurrenceSet(mult, pt, start, wadj))
    BY <2>3, <2>4, MadeWell
  <2>6. WellMade(r)
    BY <2>1, <2>5
  <2>7. r.wadj # "forward"
    BY <2>1 DEF RecurrenceSet
  <2>8. Horizon \in Days
    BY SchedXactionAssumption DEF Horizon
  <2>9. Steady(r, Horizon)
    BY <2>2, <2>6, <2>7, <2>8, FoundIsSteady
  <2> QED
    BY <2>9 DEF r
<1> QED
  BY <1>1, SteadyIsRegular

-----------------------------------------------------------------------------
LEMMA SchedAlways ==
  ASSUME Regular
  PROVE  SxSpec => []SchedInv
<1>1. SxInit => SchedInv
  BY SchedInit
<1>2. SchedInv /\ [SxNext]_sxvars => SchedInv'
  BY SchedStep
<1> QED
  BY <1>1, <1>2, PTL DEF SxSpec

(* However the user answers, and whatever the dialog makes of it: a        *)
(* reminder is followed by reminders only                                  *)
(* (gnc_sx_instance_model_change_instance_state, _update_sx_instances).    *)
THEOREM RemindersLastAlways ==
  ASSUME Regular
  PROVE  SxSpec => []RemindersLast
<1>1. SchedInv => RemindersLast
  BY ShownInOrder
<1> QED
  BY <1>1, SchedAlways, PTL

(* A schedule never has more occurrences than it was given, and none after *)
(* its end (increment_sx_state, xaccSchedXactionGetInstanceAfter).         *)
THEOREM NeverTooManyAlways ==
  ASSUME Regular
  PROVE  SxSpec => []NeverTooMany
<1>1. SchedInv => NeverTooMany
  BY WithinLimits
<1> QED
  BY <1>1, SchedAlways, PTL

(* Every occurrence up to the last date was created, ignored, is put off   *)
(* or was forgotten: one of them, and once only, as long as the first of   *)
(* all occurrences was never put off                                       *)
(* (gnc_sx_instance_model_effect_change and the list of deferred states).  *)
THEOREM EachOnceAlways ==
  ASSUME Regular
  PROVE  SxSpec => []EachOnce
<1>1. SchedInv => EachOnce
  BY PlacedOnce
<1> QED
  BY <1>1, SchedAlways, PTL

-----------------------------------------------------------------------------
(* The counters.  A temporal state bears the number of the occurrence that *)
(* follows it; that of the schedule, of each instance shown and of each    *)
(* transaction created agree with the dates, until something is put off.   *)

Numbered(s, tsd) == tsd.num = Cardinality(PastOf(s, tsd.last)) + 1
AllNumbered(s, insts) == \A i \in 1..Len(insts) : Numbered(s, insts[i].tsd)
CreatedNumbered(s, list) ==
  \A p \in 1..Len(list) : list[p][2] = Cardinality(PastOf(s, list[p][1]))
Reckoned(s, last, num, remain) ==
  /\ num = Cardinality(PastOf(s, last)) + 1
  /\ s.total # 0 => remain = s.total - Cardinality(PastOf(s, last))

LEMMA PastCount ==
  ASSUME NEW s \in SxType, NEW last \in 0..Horizon
  PROVE  Cardinality(PastOf(s, last)) \in Nat
BY PastFinite, FS_CardinalityType

LEMMA NextCount ==
  ASSUME Regular, NEW s \in SxType, NEW last \in 0..Horizon,
         last = NoDate \/ s.start <= last, NextDate(s, last) \in 1..Horizon
  PROVE  Cardinality(PastOf(s, NextDate(s, last))) = Cardinality(PastOf(s, last)) + 1
<1> DEFINE d == NextDate(s, last)
           P == PastOf(s, last)
<1>1. PastOf(s, d) = P \cup {d} /\ d \notin P
  BY PastStep
<1>2. IsFiniteSet(P)
  BY PastFinite
<1> HIDE DEF d, P
<1>3. Cardinality(P \cup {d}) = Cardinality(P) + 1
  BY <1>1, <1>2, FS_AddElement
<1> QED
  BY <1>1, <1>3 DEF d, P

\* An occurrence has the number of the state that it follows.
LEMMA NumberOfDate ==
  ASSUME Regular, NEW s \in SxType, NEW tsd \in Tsd, Placed(s, tsd), Numbered(s, tsd),
         InstanceAfter(s, tsd) \in 1..Horizon
  PROVE  Cardinality(PastOf(s, InstanceAfter(s, tsd))) = tsd.num
<1>1. InstanceAfter(s, tsd) = NextDate(s, tsd.last)
  <2>1. InstanceAfter(s, tsd) # NoDate
    BY ScheduleBounds
  <2> QED
    BY <2>1, AfterIsNext
<1>2. tsd.last \in 0..Horizon /\ (tsd.last = NoDate \/ s.start <= tsd.last)
  BY DEF Tsd, Placed
<1> QED
  BY <1>1, <1>2, NextCount DEF Numbered

\* So do the instances that are generated.
LEMMA GenNumbered ==
  ASSUME Regular, NEW s, SxInv(s), NEW ce, NEW G, Generated(s, ce, G), Shown(s, ce, G),
         s.deferred = <<>>, Numbered(s, TemporalState(s))
  PROVE  AllNumbered(s, G)
<1> DEFINE N == Len(G)
           count(k) == Cardinality(PastOf(s, LastAt(s, G, k)))
           base == Cardinality(PastOf(s, s.last))
           S == {k \in 0..N : count(k) = base + k}
<1>1. s \in SxType /\ s.last \in 0..Horizon /\ s.num \in Int /\ Len(s.deferred) = 0
      /\ G \in Seq(Inst) /\ N \in Nat
  BY DEF SxInv, SxType, Generated
<1>2. base \in Nat /\ s.num = base + 1
  <2>1. Numbered(s, TemporalState(s))
    OBVIOUS
  <2> QED
    BY <1>1, <2>1, PastCount, TemporalFacts DEF Numbered
<1>3. 0 \in S
  <2>1. LastAt(s, G, 0) = s.last /\ 0 \in 0..N
    BY <1>1 DEF LastAt
  <2> QED
    BY <1>2, <2>1
<1>4. ASSUME NEW k \in 0..(N - 1), k \in S
      PROVE  k + 1 \in S
  <2> DEFINE last == LastAt(s, G, k)
  <2>1. k \in 0..N /\ k + 1 \in 0..N /\ k + 1 \in 1..N /\ k + 1 # 0 /\ (k + 1) - 1 = k
    BY <1>1
  <2>2. last \in 0..Horizon /\ (last = NoDate \/ s.start <= last)
    BY <1>1, <2>1, LastAtPlaced
  <2>3. G[k + 1].date = NextDate(s, last)
    <3>1. k + 1 \in (Len(s.deferred) + 1)..Len(G)
      BY <1>1, <2>1
    <3> QED
      BY <2>1, <3>1, MadeNext
  <2>4. G[k + 1].date \in 1..Horizon
    <3>1. G[k + 1] \in Inst
      BY <1>1, <2>1
    <3> QED
      BY <3>1 DEF Inst
  <2>5. LastAt(s, G, k + 1) = G[k + 1].date
    BY <1>1, <2>1 DEF LastAt
  <2> HIDE DEF last
  <2>6. Cardinality(PastOf(s, NextDate(s, last))) = Cardinality(PastOf(s, last)) + 1
    BY <1>1, <2>2, <2>3, <2>4, NextCount
  <2>7. count(k) = base + k /\ count(k + 1) = count(k) + 1
    BY <1>4, <2>3, <2>5, <2>6 DEF last
  <2> HIDE DEF count, base, N
  <2>8. count(k + 1) = base + (k + 1)
    BY <1>2, <2>1, <2>7
  <2> QED
    BY <2>1, <2>8 DEF count, base
<1>5. \A k \in 0..N : k \in S
  <2> HIDE DEF S, N
  <2> QED
    BY <1>1, <1>3, <1>4, UpTo
<1> SUFFICES ASSUME NEW i \in 1..N  PROVE Numbered(s, G[i].tsd)
  BY DEF AllNumbered
<1> DEFINE k == i - 1
<1>6. k \in 0..N /\ i \in (Len(s.deferred) + 1)..Len(G) /\ k - 0 = k /\ k \in Int
  BY <1>1
<1>7. /\ G[i].tsd.last = LastAt(s, G, k)
      /\ G[i].tsd.num = s.num + (k - Len(s.deferred))
  BY <1>6 DEF Generated, StateAt
<1>8. count(k) = base + k
  BY <1>5, <1>6
<1>9. G[i].tsd.num = s.num + k
  BY <1>1, <1>6, <1>7
<1> HIDE DEF base, k
<1>10. G[i].tsd.num = (base + k) + 1
  BY <1>2, <1>6, <1>9
<1> QED
  BY <1>7, <1>8, <1>10 DEF Numbered

\* A change of state and the update that follows keep or renew them.
LEMMA UpdateNumbered ==
  ASSUME NEW s, NEW insts \in Seq(Inst), AllNumbered(s, insts),
         NEW i \in 1..Len(insts), NEW state \in States, NEW end,
         GenInstances(s, end) \in Seq(Inst), AllNumbered(s, GenInstances(s, end))
  PROVE  AllNumbered(s, Update(s, WithState(insts, i, state), end))
<1> DEFINE W == WithState(insts, i, state)
           G == GenInstances(s, end)
           R == Update(s, W, end)
<1>1. /\ W \in Seq(Inst) /\ Len(W) = Len(insts)
      /\ \A j \in 1..Len(insts) : W[j].tsd = insts[j].tsd
  <2>1. \A j \in 1..Len(insts) : IsRestated(insts, W, i, state, j)
    BY WithStateFacts
  <2>2. W \in Seq(Inst) /\ Len(W) = Len(insts)
    BY WithStateFacts
  <2> HIDE DEF W
  <2> QED
    BY <2>1, <2>2 DEF IsRestated
<1> HIDE DEF W
<1>2. AllNumbered(s, W)
  BY <1>1 DEF AllNumbered, Numbered
<1>3. R = Aligned(W, G)
  BY DEF Update
<1> HIDE DEF G, R
<1>4. PICK k : IsAligned(W, G, k, R)
  BY <1>1, <1>3, AlignedFacts DEF G
<1>5. /\ k \in 0..Len(G) /\ k <= Len(W) /\ Len(R) = Len(G)
      /\ \A j \in 1..k : R[j] = W[j]
      /\ \A j \in (k + 1)..Len(G) : R[j] = G[j]
  BY <1>4 DEF IsAligned
<1>6. Len(G) \in Nat /\ Len(W) \in Nat
  BY <1>1 DEF G
<1> SUFFICES ASSUME NEW j \in 1..Len(R)  PROVE Numbered(s, R[j].tsd)
  BY DEF AllNumbered, R, W
<1>7. CASE j \in 1..k
  <2>1. j \in 1..Len(W)
    BY <1>5, <1>6, <1>7
  <2> QED
    BY <1>2, <1>5, <1>7, <2>1 DEF AllNumbered
<1>8. CASE j \in (k + 1)..Len(G)
  <2>1. j \in 1..Len(G)
    BY <1>5
  <2> QED
    BY <1>5, <1>8, <2>1 DEF AllNumbered, G
<1> QED
  BY <1>5, <1>6, <1>7, <1>8

\* One instance carried out, when nothing is put off.
Counted(s, acc) ==
  acc.putOff = {} => /\ Reckoned(s, acc.last, acc.num, acc.remain)
                     /\ CreatedNumbered(s, acc.created)

LEMMA CreatedMore ==
  ASSUME NEW s, NEW list \in Seq(Nat \X Int), CreatedNumbered(s, list),
         NEW d \in Nat, NEW num \in Int, Cardinality(PastOf(s, d)) = num
  PROVE  CreatedNumbered(s, Append(list, <<d, num>>))
<1> DEFINE x == <<d, num>>
           M == Append(list, x)
<1>1. x \in Nat \X Int /\ x[1] = d /\ x[2] = num
  OBVIOUS
<1> HIDE DEF x
<1>2. Len(list) \in Nat /\ Len(M) = Len(list) + 1 /\ M[Len(list) + 1] = x
      /\ \A p \in 1..Len(list) : M[p] = list[p]
  BY <1>1
<1> HIDE DEF M
<1> SUFFICES ASSUME NEW p \in 1..Len(M)  PROVE M[p][2] = Cardinality(PastOf(s, M[p][1]))
  BY DEF CreatedNumbered, M, x
<1>3. CASE p = Len(list) + 1
  BY <1>1, <1>2, <1>3
<1>4. CASE p \in 1..Len(list)
  BY <1>2, <1>4 DEF CreatedNumbered
<1> QED
  BY <1>2, <1>3, <1>4

LEMMA CountedStep ==
  ASSUME Regular, NEW s, SxInv(s), NEW ce, NEW insts, Shown(s, ce, insts),
         NEW m, IsRun(s, insts, m), NEW k \in 0..(Len(insts) - 1),
         s.deferred = <<>>, AllNumbered(s, insts),
         Reckoned(s, s.last, s.num, s.remain),
         NEW acc, PassInv(s, insts, m, k, acc), Counted(s, acc)
  PROVE  Counted(s, Effect(acc, k + 1))
<1> DEFINE i == k + 1
           inst == insts[i]
           d == inst.date
           r == Effect(acc, i)
           count(last) == Cardinality(PastOf(s, last))
<1>1. /\ s \in SxType /\ acc \in EffectType /\ insts \in Seq(Inst) /\ Len(insts) \in Nat
      /\ i \in 1..Len(insts) /\ i \in 1..Len(acc.insts) /\ Len(s.deferred) = 0 /\ i \in (0 + 1)..Len(insts)
  <2>1. /\ s \in SxType /\ acc \in EffectType /\ insts \in Seq(Inst)
        /\ Len(acc.insts) = Len(insts)
    BY DEF SxInv, PassInv, Shown, InstsPart
  <2> QED
    BY <2>1
<1>2. r \in EffectType /\ IsEffect(acc, i, r)
  BY <1>1, EffectFields
<1>3. acc.putOff \subseteq r.putOff
  BY <1>2 DEF IsEffect
<1>4. acc.insts[i] = inst
  BY <1>1, <1>2, InstsStep DEF PassInv, Shown
<1>5. CountPart(s, insts, m, k, acc) /\ PastPart(s, m, k, acc)
  BY DEF PassInv
<1> HIDE DEF r
<1>6. CountPart(s, insts, m, i, r) /\ Advances(s, i, inst, acc, r)
  BY <1>1, <1>2, <1>4, <1>5, CountStep
<1>7. inst \in Inst /\ d \in 1..Horizon /\ inst.tsd \in Tsd /\ d \in Nat /\ inst.tsd.num \in Int
  <2>1. inst \in Inst
    BY <1>1
  <2>2. d \in 1..Horizon /\ inst.tsd \in Tsd
    BY <2>1 DEF Inst
  <2> QED
    BY <2>1, <2>2 DEF Tsd
<1>8. count(d) = inst.tsd.num
  <2>1. Placed(s, inst.tsd) /\ d = InstanceAfter(s, inst.tsd) /\ Numbered(s, inst.tsd)
    BY <1>1 DEF Shown, AllNumbered
  <2> QED
    BY <1>1, <1>7, <2>1, NumberOfDate
<1> HIDE DEF i, d, inst, count
<1>9. SUFFICES ASSUME r.putOff = {}
               PROVE  Reckoned(s, r.last, r.num, r.remain) /\ CreatedNumbered(s, r.created)
  BY <1>3 DEF Counted, r, i
<1>10. /\ Reckoned(s, acc.last, acc.num, acc.remain) /\ CreatedNumbered(s, acc.created)
  BY <1>3, <1>9 DEF Counted
<1>11. CreatedNumbered(s, r.created)
  <2>1. r.created = IF inst.state = "to-create"
                    THEN Append(acc.created, <<d, inst.tsd.num>>) ELSE acc.created
    BY <1>2, <1>4 DEF IsEffect, d
  <2>2. acc.created \in Seq(Nat \X Int)
    BY <1>1 DEF EffectType
  <2>3. CreatedNumbered(s, Append(acc.created, <<d, inst.tsd.num>>))
    BY <1>7, <1>8, <1>10, <2>2, CreatedMore DEF count
  <2> QED
    BY <1>10, <2>1, <2>3
<1>12. CASE inst.state \notin Effective
  <2>1. r.last = acc.last /\ r.num = acc.num /\ r.remain = acc.remain
    BY <1>2, <1>4, <1>6, <1>12 DEF IsEffect, Advances
  <2> QED
    BY <1>10, <1>11, <2>1
<1>13. CASE inst.state \in Effective
  <2>1. r.last = d /\ PastOf(s, d) = PastOf(s, acc.last) \cup {d} /\ d \notin PastOf(s, acc.last)
    BY <1>1, <1>6, <1>13 DEF Advances, d
  <2>2. r.num = inst.tsd.num + 1
    BY <1>2, <1>4, <1>13 DEF IsEffect
  <2>3. count(d) = count(acc.last) + 1 /\ count(acc.last) \in Nat
    <3>1. acc.last \in 0..Horizon
      BY <1>1 DEF EffectType
    <3>2. IsFiniteSet(PastOf(s, acc.last)) /\ count(acc.last) \in Nat
      BY <1>1, <3>1, PastFinite, PastCount DEF count
    <3> QED
      BY <2>1, <3>2, FS_AddElement DEF count
  <2>4. s.total # 0 => r.remain = s.total - count(d)
    <3> SUFFICES ASSUME s.total # 0  PROVE r.remain = s.total - count(d)
      OBVIOUS
    <3>1. i <= m /\ m \in Int /\ m <= s.remain
      <4>1. inst.state \in Effective <=> i <= m
        BY <1>1 DEF IsRun, inst
      <4>2. m \in Int /\ m - 0 <= s.remain /\ s.remain \in Nat
        BY <1>1 DEF IsRun, SxType
      <4> QED
        BY <1>13, <4>1, <4>2
    <3>2. Reached(s, m, k) = k
      BY <1>1, <3>1 DEF Reached, i
    <3>3. count(acc.last) = count(s.last) + (k - 0)
      BY <1>1, <1>5, <3>2 DEF PastPart, count
    <3>4. acc.remain = s.total - count(acc.last) /\ s.remain = s.total - count(s.last)
      BY <1>10 DEF Reckoned, count
    <3>5. r.remain = IF acc.remain > 0 THEN acc.remain - 1 ELSE acc.remain
      BY <1>2, <1>4, <1>13 DEF IsEffect
    <3>6. s.total \in Nat /\ count(s.last) \in Nat
      <4>1. s.total \in Totals /\ s.last \in 0..Horizon
        BY <1>1 DEF SxType
      <4> QED
        BY <1>1, <4>1, ScheduleBounds, PastCount DEF count
    <3> DEFINE t == s.total  a == acc.remain  b == s.remain  x == count(acc.last)
               y == count(s.last)  z == count(d)  q == r.remain
    <3>7. /\ t \in Nat /\ x \in Nat /\ y \in Nat /\ z = x + 1 /\ k \in Nat /\ m \in Int
          /\ k + 1 <= m /\ m <= b /\ x = y + (k - 0) /\ a = t - x /\ b = t - y
          /\ q = IF a > 0 THEN a - 1 ELSE a
      BY <1>1, <2>3, <3>1, <3>3, <3>4, <3>5, <3>6 DEF i
    <3> HIDE DEF t, a, b, x, y, z, q
    <3>8. q = t - z
      BY <3>7
    <3> QED
      BY <3>8 DEF t, z, q
  <2>5. Reckoned(s, r.last, r.num, r.remain)
    BY <1>8, <2>1, <2>2, <2>4 DEF Reckoned, count
  <2> QED
    BY <1>11, <2>5
<1> QED
  BY <1>12, <1>13

LEMMA CountedPass ==
  ASSUME Regular, NEW s, SxInv(s), NEW ce, NEW insts, Shown(s, ce, insts),
         NEW m, IsRun(s, insts, m), HistoryType, Placement(s),
         s.deferred = <<>>, AllNumbered(s, insts),
         Reckoned(s, s.last, s.num, s.remain), CreatedNumbered(s, created)
  PROVE  Counted(s, EffectChange(s, insts))
<1> DEFINE N == Len(insts)
<1>1. PICK f : IsPassOf(f, s, insts, m)
  BY PassStates
<1>2. N \in Nat /\ N \in 0..N
  BY DEF Shown
<1>3. /\ f[0] = Before(s, insts) /\ f[N] = EffectChange(s, insts)
      /\ \A k \in 0..(N - 1) : f[k + 1] = Effect(f[k], k + 1)
      /\ \A k \in 0..N : PassInv(s, insts, m, k, f[k])
  BY <1>1 DEF IsPassOf
<1> DEFINE S == {k \in 0..N : Counted(s, f[k])}
<1>4. 0 \in S
  <2>1. Counted(s, Before(s, insts))
    BY DEF Counted, Before
  <2> QED
    BY <1>2, <1>3, <2>1
<1>5. ASSUME NEW k \in 0..(N - 1), k \in S
      PROVE  k + 1 \in S
  <2>1. k \in 0..N /\ k + 1 \in 0..N /\ PassInv(s, insts, m, k, f[k]) /\ Counted(s, f[k])
    BY <1>2, <1>3, <1>5
  <2>2. Counted(s, Effect(f[k], k + 1))
    BY <2>1, CountedStep
  <2> QED
    BY <1>3, <2>1, <2>2
<1>6. \A k \in 0..N : k \in S
  <2> HIDE DEF S, N
  <2> QED
    BY <1>2, <1>4, <1>5, UpTo
<1> QED
  BY <1>2, <1>3, <1>6

\* Nothing put off, nothing deferred.
LEMMA NothingDeferred ==
  ASSUME NEW s \in SxType, Placement(s), putOff = {}
  PROVE  s.deferred = <<>>
<1>1. s.deferred \in Seq(Tsd)
  BY DEF SxType
<1>2. ~ \E p \in 1..Len(s.deferred) : TRUE
  BY DEF Placement
<1>3. Len(s.deferred) = 0
  BY <1>1, <1>2
<1> QED
  BY <1>1, <1>3

\* Nothing that was put off is forgotten to be so.
LEMMA PutOffStays ==
  ASSUME Regular, NEW s, SxInv(s), NEW ce, NEW insts, Shown(s, ce, insts),
         NEW m, IsRun(s, insts, m), HistoryType, Placement(s)
  PROVE  putOff \subseteq EffectChange(s, insts).putOff
<1> DEFINE N == Len(insts)
<1>1. PICK f : IsPassOf(f, s, insts, m)
  BY PassStates
<1>2. N \in Nat /\ N \in 0..N /\ insts \in Seq(Inst)
  BY DEF Shown
<1>3. /\ f[0] = Before(s, insts) /\ f[N] = EffectChange(s, insts)
      /\ \A k \in 0..(N - 1) : f[k + 1] = Effect(f[k], k + 1)
      /\ \A k \in 0..N : PassInv(s, insts, m, k, f[k])
  BY <1>1 DEF IsPassOf
<1> DEFINE S == {k \in 0..N : putOff \subseteq f[k].putOff}
<1>4. 0 \in S
  BY <1>2, <1>3 DEF Before
<1>5. ASSUME NEW k \in 0..(N - 1), k \in S
      PROVE  k + 1 \in S
  <2>1. k \in 0..N /\ k + 1 \in 0..N /\ k + 1 \in 1..N /\ PassInv(s, insts, m, k, f[k])
    BY <1>2, <1>3
  <2>2. f[k] \in EffectType /\ k + 1 \in 1..Len(f[k].insts)
    BY <2>1 DEF PassInv, InstsPart
  <2>3. IsEffect(f[k], k + 1, Effect(f[k], k + 1))
    BY <2>2, EffectFields
  <2>4. f[k].putOff \subseteq f[k + 1].putOff
    BY <1>3, <2>3 DEF IsEffect
  <2> QED
    BY <1>5, <2>1, <2>4
<1>6. \A k \in 0..N : k \in S
  <2> HIDE DEF S, N
  <2> QED
    BY <1>2, <1>4, <1>5, UpTo
<1> QED
  BY <1>2, <1>3, <1>6

-----------------------------------------------------------------------------
(* The second inductive invariant, on top of SchedInv.                     *)

NumberInv ==
  putOff = {} => /\ Reckoned(sx, sx.last, sx.num, sx.remain)
                 /\ CreatedNumbered(sx, created)
                 /\ AllNumbered(sx, instances.insts)

LEMMA NumberFacts ==
  ASSUME NEW s, NEW r, SameRule(s, r)
  PROVE  /\ \A last, num, remain : Reckoned(s, last, num, remain) => Reckoned(r, last, num, remain)
         /\ \A insts : AllNumbered(s, insts) => AllNumbered(r, insts)
         /\ \A list : CreatedNumbered(s, list) => CreatedNumbered(r, list)
<1>1. r.total = s.total /\ \A last : PastOf(r, last) = PastOf(s, last)
  BY RuleFacts DEF SameRule
<1>2. \A last, num, remain : Reckoned(s, last, num, remain) => Reckoned(r, last, num, remain)
  BY <1>1 DEF Reckoned
<1>3. \A insts : AllNumbered(s, insts) => AllNumbered(r, insts)
  BY <1>1 DEF AllNumbered, Numbered
<1>4. \A list : CreatedNumbered(s, list) => CreatedNumbered(r, list)
  BY <1>1 DEF CreatedNumbered
<1> QED
  BY <1>2, <1>3, <1>4

LEMMA NoneNumbered ==
  ASSUME NEW s
  PROVE  AllNumbered(s, <<>>) /\ AllNumbered(s, Closed.insts)
<1>1. \A i \in 1..Len(<<>>) : FALSE
  OBVIOUS
<1> QED
  BY <1>1 DEF AllNumbered, Closed

\* What a schedule generates.
LEMMA ListedNumbered ==
  ASSUME Regular, NEW s, SxInv(s), NEW end \in 0..LastDay, s.deferred = <<>>,
         Reckoned(s, s.last, s.num, s.remain)
  PROVE  AllNumbered(s, GenInstances(s, end)) /\ GenInstances(s, end) \in Seq(Inst)
<1>1. /\ Generated(s, end + AdvanceCreate, GenInstances(s, end))
      /\ Shown(s, end + AdvanceCreate, GenInstances(s, end))
  BY GenFacts, GenIsShown
<1>2. Numbered(s, TemporalState(s))
  BY TemporalFacts DEF SxInv, Reckoned, Numbered
<1>3. AllNumbered(s, GenInstances(s, end))
  BY <1>1, <1>2, GenNumbered
<1> QED
  BY <1>1, <1>3 DEF Generated

LEMMA InitNumbers ==
  ASSUME Regular, SxInit
  PROVE  NumberInv
<1>1. PICK rs \in Schedules, start \in Starts, end \in Ends, n \in Totals,
           auto \in BOOLEAN, notify \in BOOLEAN, fresh \in Fresh :
        LET first == ListNextInstance(rs, start - 1)
        IN /\ end = NoDate \/ n = 0
           /\ ~fresh => /\ first \in start..start + AdvanceCreate
                        /\ end = NoDate \/ first <= end
           /\ sx = [schedule |-> rs, start |-> start, end |-> end, total |-> n,
                    last    |-> IF fresh THEN NoDate ELSE first,
                    remain  |-> IF fresh \/ n = 0 THEN n ELSE n - 1,
                    num     |-> IF fresh THEN 1 ELSE 2,
                    deferred |-> <<>>, enabled |-> TRUE,
                    auto |-> auto, notify |-> notify]
           /\ created = IF fresh THEN <<>> ELSE << <<first, 1>> >>
  BY DEF SxInit
<1> DEFINE first == ListNextInstance(rs, start - 1)
           last == IF fresh THEN NoDate ELSE first
<1>2. /\ ~fresh => first \in start..start + AdvanceCreate
      /\ sx.schedule = rs /\ sx.start = start /\ sx.total = n /\ sx.last = last
      /\ sx.remain = (IF fresh \/ n = 0 THEN n ELSE n - 1)
      /\ sx.num = (IF fresh THEN 1 ELSE 2)
      /\ created = IF fresh THEN <<>> ELSE << <<first, 1>> >>
  BY <1>1
<1> HIDE DEF first
<1>3. sx \in SxType /\ start \in 1..LastDay /\ n \in Nat
  <2>1. BookInv
    BY InitPlacement
  <2> QED
    BY <2>1, ScheduleBounds DEF BookInv, SxInv
<1>4. ~fresh => first \in 1..Horizon /\ last = first
  <2>1. AdvanceCreate \in Nat /\ AdvanceRemind \in Nat /\ LastDay \in Nat
        /\ Horizon = LastDay + AdvanceCreate + AdvanceRemind
    BY ScheduleBounds DEF Horizon
  <2> QED
    BY <1>2, <1>3, <2>1
<1>5. Cardinality(PastOf(sx, NoDate)) = 0
  <2>1. NoDate \in 0..Horizon
    BY ScheduleBounds
  <2>2. PastOf(sx, NoDate) = {}
    BY <1>3, <2>1, PastFinite
  <2> QED
    BY <2>2, FS_EmptySet
<1>6. ~fresh => Cardinality(PastOf(sx, first)) = 1
  <2> SUFFICES ASSUME ~fresh  PROVE Cardinality(PastOf(sx, first)) = 1
    OBVIOUS
  <2>1. NextDate(sx, NoDate) = first
    BY <1>2 DEF NextDate, first
  <2>2. NoDate \in 0..Horizon /\ NextDate(sx, NoDate) \in 1..Horizon
    BY <1>4, <2>1, ScheduleBounds
  <2>3. Cardinality(PastOf(sx, NextDate(sx, NoDate))) = Cardinality(PastOf(sx, NoDate)) + 1
    BY <1>3, <2>2, NextCount
  <2> QED
    BY <1>5, <2>1, <2>3
<1>7. Reckoned(sx, sx.last, sx.num, sx.remain)
  <2>1. CASE fresh
    BY <1>2, <1>3, <1>5, <2>1 DEF Reckoned
  <2>2. CASE ~fresh
    BY <1>2, <1>3, <1>4, <1>6, <2>2 DEF Reckoned
  <2> QED
    BY <2>1, <2>2
<1>8. CreatedNumbered(sx, created)
  <2>1. CASE fresh
    <3>1. \A p \in 1..Len(<<>>) : FALSE
      OBVIOUS
    <3> QED
      BY <1>2, <2>1, <3>1 DEF CreatedNumbered
  <2>2. CASE ~fresh
    <3>1. Len(created) = 1 /\ created[1][1] = first /\ created[1][2] = 1
      BY <1>2, <2>2
    <3>2. \A p \in 1..1 : p = 1
      OBVIOUS
    <3> QED
      BY <1>6, <2>2, <3>1, <3>2 DEF CreatedNumbered
  <2> QED
    BY <2>1, <2>2
<1>9. AllNumbered(sx, instances.insts)
  BY NoneNumbered DEF SxInit
<1> QED
  BY <1>7, <1>8, <1>9 DEF NumberInv

\* Carrying out what is shown.
LEMMA CarriedNumbers ==
  ASSUME Regular, BookInv, NEW ce, NEW insts, Shown(sx, ce, insts),
         NEW m, IsRun(sx, insts, m), Carried(EffectChange(sx, insts)),
         putOff' = {},
         putOff = {} => /\ Reckoned(sx, sx.last, sx.num, sx.remain)
                        /\ CreatedNumbered(sx, created) /\ AllNumbered(sx, insts)
  PROVE  /\ Reckoned(sx', sx'.last, sx'.num, sx'.remain) /\ CreatedNumbered(sx', created')
         /\ AllNumbered(sx', insts) /\ AllNumbered(sx', EffectChange(sx, insts).insts)
<1> DEFINE acc == EffectChange(sx, insts)
           r == After(sx, acc)
<1>1. SxInv(sx) /\ HistoryType /\ Placement(sx) /\ sx \in SxType
  BY DEF BookInv, SxInv
<1>2. PassInv(sx, insts, m, Len(insts), acc)
  BY <1>1, PassFacts
<1>3. sx' = r /\ created' = acc.created /\ putOff' = acc.putOff
  BY DEF Carried, After
<1>4. putOff = {} /\ acc.putOff = {}
  BY <1>1, <1>3, PutOffStays
<1>5. sx.deferred = <<>>
  BY <1>1, <1>4, NothingDeferred
<1>6. Counted(sx, acc)
  BY <1>1, <1>4, <1>5, CountedPass
<1> HIDE DEF acc, r
<1>7. Reckoned(sx, acc.last, acc.num, acc.remain) /\ CreatedNumbered(sx, acc.created)
  BY <1>4, <1>6 DEF Counted
<1>8. SameRule(sx, r) /\ r.last = acc.last /\ r.num = acc.num /\ r.remain = acc.remain
  BY <1>1, <1>2, AfterFields DEF PassInv, r
<1>9. AllNumbered(sx, insts)
  BY <1>4
<1>10. AllNumbered(sx, acc.insts)
  <2>1. InstsPart(insts, Len(insts), acc) /\ insts \in Seq(Inst)
    BY <1>2 DEF PassInv, Shown
  <2> SUFFICES ASSUME NEW j \in 1..Len(acc.insts)  PROVE Numbered(sx, acc.insts[j].tsd)
    BY DEF AllNumbered
  <2>2. j \in 1..Len(insts)
        /\ (acc.insts[j] = Made(insts[j]) \/ acc.insts[j] = insts[j])
    BY <2>1 DEF InstsPart
  <2>3. insts[j] \in Inst
    BY <2>1, <2>2
  <2>4. Made(insts[j]).tsd = insts[j].tsd
    BY <2>3 DEF Made, Inst
  <2> QED
    BY <1>9, <2>2, <2>4 DEF AllNumbered
<1> QED
  BY <1>3, <1>7, <1>8, <1>9, <1>10, NumberFacts DEF acc

LEMMA SinceLastRunNumbers ==
  ASSUME Regular, SchedInv, NumberInv, SinceLastRun
  PROVE  NumberInv'
<1> DEFINE G == GenInstances(sx, today)
           acc == EffectChange(sx, G)
<1>1. /\ today \in 0..LastDay /\ SxInv(sx) /\ sx \in SxType /\ BookInv /\ Placement(sx)
      /\ HistoryType
  BY ScheduleBounds DEF SchedInv, BookInv, SxInv
<1> SUFFICES ASSUME putOff' = {}
             PROVE  /\ Reckoned(sx', sx'.last, sx'.num, sx'.remain)
                    /\ CreatedNumbered(sx', created') /\ AllNumbered(sx', instances'.insts)
  BY DEF NumberInv, CreatedNumbered, AllNumbered, Numbered, Reckoned, PastOf
<1>2. CASE ~sx.enabled
  <2>1. UNCHANGED <<sx, history, instances>>
    BY <1>2 DEF SinceLastRun
  <2> QED
    BY <2>1 DEF NumberInv, history
<1>3. CASE sx.enabled
  <2>1. Offered(G, acc)
    BY <1>3 DEF SinceLastRun
  <2>2. /\ Shown(sx, today + AdvanceCreate, G) /\ Current(G, G)
        /\ Generated(sx, today + AdvanceCreate, G)
    BY <1>1, GenIsShown, GenFacts
  <2>3. /\ putOff = {} => AllNumbered(sx, G)
        /\ putOff = {} => Reckoned(sx, sx.last, sx.num, sx.remain) /\ CreatedNumbered(sx, created)
    BY <1>1, NothingDeferred, ListedNumbered DEF NumberInv
  <2>4. instances'.insts \in {IF sx.auto THEN acc.insts ELSE G, Closed.insts}
    BY <2>1 DEF Offered, Model
  <2> HIDE DEF G, acc
  <2>5. CASE ~sx.auto
    <3>1. UNCHANGED <<sx, history>>
      BY <2>1, <2>5 DEF Offered
    <3> QED
      BY <2>3, <2>4, <2>5, <3>1, NoneNumbered DEF history
  <2>6. CASE sx.auto
    <3>1. Carried(acc)
      BY <2>1, <2>6 DEF Offered
    <3>2. PICK m : IsRun(sx, G, m)
      BY <1>1, <2>2, CurrentRun
    <3>3. /\ Reckoned(sx', sx'.last, sx'.num, sx'.remain) /\ CreatedNumbered(sx', created')
          /\ AllNumbered(sx', acc.insts)
      BY <1>1, <2>2, <2>3, <3>1, <3>2, CarriedNumbers DEF acc
    <3> QED
      BY <2>4, <2>6, <3>3, NoneNumbered
  <2> QED
    BY <2>5, <2>6
<1> QED
  BY <1>2, <1>3

LEMMA AcceptNumbers ==
  ASSUME Regular, SchedInv, NumberInv, Accept
  PROVE  NumberInv'
<1> DEFINE insts == instances.insts
           ce == instances.end + AdvanceCreate
<1>1. Carried(EffectChange(sx, insts)) /\ instances' = Closed
  BY DEF Accept
<1>2. SxInv(sx) /\ sx \in SxType /\ BookInv /\ instances.end \in 0..LastDay
  BY DEF SchedInv, BookInv, SxInv, DialogInv
<1> SUFFICES ASSUME putOff' = {}
             PROVE  /\ Reckoned(sx', sx'.last, sx'.num, sx'.remain)
                    /\ CreatedNumbered(sx', created') /\ AllNumbered(sx', instances'.insts)
  BY DEF NumberInv, CreatedNumbered, AllNumbered, Numbered, Reckoned, PastOf
<1>3. AllNumbered(sx', instances'.insts)
  BY <1>1, NoneNumbered
<1>4. CASE ~instances.listed
  <2>1. insts = <<>>
    BY <1>4 DEF SchedInv, DialogInv
  <2>2. UNCHANGED <<sx, history>>
    BY <1>1, <1>2, <2>1, EmptyPass
  <2> QED
    BY <1>3, <2>2 DEF NumberInv, history
<1>5. CASE instances.listed
  <2> DEFINE G == GenInstances(sx, instances.end)
  <2>1. Shown(sx, ce, insts) /\ (Current(insts, G) \/ Behind(sx, insts, G))
    BY <1>5 DEF SchedInv, DialogInv, Listed
  <2>2. Generated(sx, ce, G)
    BY <1>2, GenFacts
  <2>3. putOff = {} => /\ Reckoned(sx, sx.last, sx.num, sx.remain)
                       /\ CreatedNumbered(sx, created) /\ AllNumbered(sx, insts)
    BY DEF NumberInv
  <2> HIDE DEF G, insts, ce
  <2>4. PICK m : IsRun(sx, insts, m)
    BY <1>2, <2>1, <2>2, CurrentRun, BehindRun
  <2> QED
    BY <1>1, <1>2, <1>3, <2>1, <2>3, <2>4, CarriedNumbers DEF insts
<1> QED
  BY <1>4, <1>5

LEMMA ChangeStateNumbers ==
  ASSUME Regular, SchedInv, NumberInv, NEW i, NEW state \in States \ {"created"},
         ChangeState(i, state)
  PROVE  NumberInv'
<1> DEFINE insts == instances.insts
           end == instances.end
           U == Update(sx, WithState(insts, i, state), end)
<1>1. /\ UNCHANGED <<today, sx, history>> /\ i \in DOMAIN insts
      /\ instances' = [instances EXCEPT !.insts = U]
  BY DEF ChangeState
<1>2. /\ SxInv(sx) /\ sx \in SxType /\ Placement(sx)
      /\ instances \in [end : 0..LastDay, listed : BOOLEAN, insts : Seq(Inst)]
  BY DEF SchedInv, BookInv, DialogInv, SxInv
<1>3. insts \in Seq(Inst) /\ end \in 0..LastDay /\ i \in 1..Len(insts) /\ state \in States
  BY <1>1, <1>2
<1>4. sx' = sx /\ created' = created /\ putOff' = putOff /\ instances'.insts = U
  BY <1>1, <1>2 DEF history
<1> SUFFICES ASSUME putOff = {}
             PROVE  /\ Reckoned(sx, sx.last, sx.num, sx.remain)
                    /\ CreatedNumbered(sx, created) /\ AllNumbered(sx, U)
  BY <1>4 DEF NumberInv, CreatedNumbered, AllNumbered, Numbered, Reckoned, PastOf
<1>5. /\ Reckoned(sx, sx.last, sx.num, sx.remain) /\ CreatedNumbered(sx, created)
      /\ AllNumbered(sx, insts)
  BY DEF NumberInv
<1> HIDE DEF insts, end
<1>6. AllNumbered(sx, GenInstances(sx, end)) /\ GenInstances(sx, end) \in Seq(Inst)
  BY <1>2, <1>3, <1>5, NothingDeferred, ListedNumbered
<1>7. AllNumbered(sx, U)
  BY <1>3, <1>5, <1>6, UpdateNumbered
<1> QED
  BY <1>5, <1>7

LEMMA SetEnabledNumbers ==
  ASSUME Regular, SchedInv, NumberInv, NEW b \in BOOLEAN, SetEnabled(b)
  PROVE  NumberInv'
<1>1. /\ sx' = [sx EXCEPT !.enabled = b] /\ UNCHANGED history
      /\ \/ instances' = Closed
         \/ instances' = Model(GenInstances(sx', instances.end), instances.end)
         \/ instances' = [instances EXCEPT !.listed = FALSE, !.insts = <<>>]
  BY DEF SetEnabled
<1>2. /\ SxInv(sx) /\ sx \in SxType /\ BookInv /\ Placement(sx)
      /\ instances \in [end : 0..LastDay, listed : BOOLEAN, insts : Seq(Inst)]
  BY DEF SchedInv, BookInv, SxInv, DialogInv
<1>3. /\ sx'.schedule = sx.schedule /\ sx'.start = sx.start /\ sx'.end = sx.end
      /\ sx'.total = sx.total /\ sx'.last = sx.last /\ sx'.remain = sx.remain
      /\ sx'.num = sx.num /\ sx'.deferred = sx.deferred
  BY <1>1, <1>2 DEF SxType
<1>4. SxInv(sx')
  <2>1. SchedInv'
    BY SetEnabledKeeps
  <2>2. SxInv(sx)'
    BY <2>1 DEF SchedInv, BookInv
  <2> QED
    BY <2>2 DEF SxInv
<1>5. SameRule(sx, sx')
  BY <1>3 DEF SameRule
<1>6. created' = created /\ putOff' = putOff
  BY <1>1 DEF history
<1> SUFFICES ASSUME putOff = {}
             PROVE  /\ Reckoned(sx', sx'.last, sx'.num, sx'.remain)
                    /\ CreatedNumbered(sx', created') /\ AllNumbered(sx', instances'.insts)
  BY <1>6 DEF NumberInv, CreatedNumbered, AllNumbered, Numbered, Reckoned, PastOf
<1>7. /\ Reckoned(sx, sx.last, sx.num, sx.remain) /\ CreatedNumbered(sx, created)
  BY DEF NumberInv
<1>8. Reckoned(sx', sx'.last, sx'.num, sx'.remain) /\ CreatedNumbered(sx', created')
  BY <1>3, <1>5, <1>6, <1>7, NumberFacts
<1>9. AllNumbered(sx', instances'.insts)
  <2>1. AllNumbered(sx', <<>>) /\ AllNumbered(sx', Closed.insts)
    BY NoneNumbered
  <2>2. AllNumbered(sx', GenInstances(sx', instances.end))
    <3>1. sx'.deferred = <<>>
      BY <1>2, <1>3, NothingDeferred
    <3>2. instances.end \in 0..LastDay
      BY <1>2
    <3> QED
      BY <1>4, <1>8, <3>1, <3>2, ListedNumbered
  <2>3. instances'.insts \in {Closed.insts, GenInstances(sx', instances.end), <<>>}
    <3> DEFINE G == GenInstances(sx', instances.end)
    <3>1. Model(G, instances.end).insts = G
      BY DEF Model
    <3>2. [instances EXCEPT !.listed = FALSE, !.insts = <<>>].insts = <<>>
      BY <1>2
    <3> HIDE DEF G
    <3> QED
      BY <1>1, <3>1, <3>2 DEF G
  <2> QED
    BY <2>1, <2>2, <2>3
<1> QED
  BY <1>8, <1>9

LEMMA NumbersStep ==
  ASSUME Regular, SchedInv, NumberInv, [SxNext]_sxvars
  PROVE  NumberInv'
<1>1. CASE UNCHANGED <<sx, history>> /\ instances' \in {instances, Closed}
  <2>1. sx' = sx /\ created' = created /\ putOff' = putOff
    BY <1>1 DEF history
  <2>2. AllNumbered(sx, Closed.insts)
    BY NoneNumbered
  <2>3. NumberInv => (putOff' = {} => /\ Reckoned(sx', sx'.last, sx'.num, sx'.remain)
                                      /\ CreatedNumbered(sx', created')
                                      /\ AllNumbered(sx', instances'.insts))
    BY <1>1, <2>1, <2>2 DEF NumberInv
  <2> QED
    BY <2>3 DEF NumberInv, CreatedNumbered, AllNumbered, Numbered, Reckoned, PastOf
<1>2. CASE NewDay
  BY <1>1, <1>2 DEF NewDay
<1>3. CASE SinceLastRun
  BY <1>3, SinceLastRunNumbers
<1>4. CASE Accept
  BY <1>4, AcceptNumbers
<1>5. CASE Cancel
  BY <1>1, <1>5 DEF Cancel
<1>6. CASE \E i \in 1..LastDay, state \in States \ {"created"} : ChangeState(i, state)
  BY <1>6, ChangeStateNumbers
<1>7. CASE \E b \in BOOLEAN : SetEnabled(b)
  BY <1>7, SetEnabledNumbers
<1>8. CASE UNCHANGED sxvars
  BY <1>1, <1>8 DEF sxvars
<1> QED
  BY <1>2, <1>3, <1>4, <1>5, <1>6, <1>7, <1>8 DEF SxNext

\* What it says of the property that is checked.
LEMMA CountersAgree ==
  ASSUME SchedInv, NumberInv
  PROVE  CountersAsOfLastDate
<1> SUFFICES ASSUME putOff = {}
             PROVE  /\ sx.num = Cardinality(Past) + 1
                    /\ sx.remain = IF sx.total = 0 THEN 0 ELSE sx.total - Cardinality(Past)
                    /\ \A i \in DOMAIN created :
                         created[i][2] = Cardinality({d \in Past : d <= created[i][1]})
  BY DEF CountersAsOfLastDate
<1>1. /\ SxInv(sx) /\ sx \in SxType /\ HistoryType /\ Placement(sx)
      /\ Reckoned(sx, sx.last, sx.num, sx.remain) /\ CreatedNumbered(sx, created)
  BY DEF SchedInv, BookInv, SxInv, NumberInv
<1>2. Past = PastOf(sx, sx.last)
  BY DEF Past, PastOf
<1>3. sx.total = 0 => sx.remain = 0
  BY <1>1 DEF SxInv
<1>4. created \in Seq(Nat \X Int) /\ DOMAIN created = 1..Len(created)
  BY <1>1 DEF HistoryType
<1>5. sx.last \in Nat /\ sx.start \in Nat
  BY <1>1, StartFacts, ScheduleBounds DEF SxType
<1>6. ASSUME NEW i \in 1..Len(created)
      PROVE  created[i][2] = Cardinality({d \in Past : d <= created[i][1]})
  <2> DEFINE c == created[i][1]
  <2>1. c \in PastOf(sx, sx.last)
    <3> DEFINE A == CreatedDates(created)
    <3>1. Len(A) = Len(created) /\ A[i] = c
      BY <1>4 DEF CreatedDates
    <3> HIDE DEF A
    <3>2. c \in Elems(A)
      BY <1>4, <3>1 DEF Elems
    <3>3. Elems(A) \subseteq PastOf(sx, sx.last)
      BY <1>1 DEF Placement, Balanced, A
    <3> QED
      BY <3>2, <3>3
  <2>2. created[i][2] = Cardinality(PastOf(sx, c))
    BY <1>1 DEF CreatedNumbered
  <2> HIDE DEF c
  <2>3. c \in sx.start..sx.last
    BY <2>1 DEF PastOf
  <2>4. {d \in Past : d <= c} = PastOf(sx, c)
    BY <1>2, <1>5, <2>3 DEF PastOf
  <2> QED
    BY <2>2, <2>4 DEF c
<1> QED
  BY <1>1, <1>2, <1>3, <1>4, <1>6 DEF Reckoned

(* CountersAsOfLastDate for every schedule, calendar and horizon: the      *)
(* number that gnc_sx_incr_temporal_state gives an instance when it is     *)
(* listed is still the right one when it is carried out, whatever was      *)
(* answered, updated or disabled in between.                               *)
THEOREM CountersAlways ==
  ASSUME Regular
  PROVE  SxSpec => []CountersAsOfLastDate
<1>1. SxInit => SchedInv /\ NumberInv
  BY SchedInit, InitNumbers
<1>2. SchedInv /\ NumberInv /\ [SxNext]_sxvars => (SchedInv /\ NumberInv)'
  BY SchedStep, NumbersStep
<1>3. SchedInv /\ NumberInv => CountersAsOfLastDate
  BY CountersAgree
<1> QED
  BY <1>1, <1>2, <1>3, PTL DEF SxSpec
=============================================================================
