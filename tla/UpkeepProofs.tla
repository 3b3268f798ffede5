---------------------------- MODULE UpkeepProofs ----------------------------
(***************************************************************************)
(* Proofs about the log and about lots.                                    *)
(*                                                                         *)
(* A replay of the transaction log brings back what was committed, after   *)
(* any number of crashes and replays.  A replay is a recursion over the    *)
(* records; what it computes is proved with UpTo of InductionLemmas, for   *)
(* one transaction at a time, and the invariant LogInv then says what a    *)
(* replay would give at any moment.                                        *)
(*                                                                         *)
(* Scrubbing lots is loops in loops.  Every step of theirs takes an account*)
(* to one that it Scrubs to: the lists still agree, the parts of each      *)
(* transaction add up to the same, and cached answers that were right      *)
(* still are.  LoopExists makes that a fact about the loops, and IInvLots  *)
(* is the invariant.                                                       *)
(*                                                                         *)
(* First in, first out needs more: while users only enter splits, the      *)
(* account is Orderly (TidyInv) at every call, and in every round of the   *)
(* loops but for the parts that are being put into lots.  Then every lot   *)
(* keeps the order of the splits put into it, and scrubbing a lot finds    *)
(* nothing to do.                                                          *)
(***************************************************************************)
EXTENDS TransLog, Lots, InductionLemmas, SequenceTheorems

-----------------------------------------------------------------------------
(* Types of the log.                                                       *)

Homes == Saved \cup Opened \cup {Orphans, Imbalances}
Line == [acc : Homes \cup {Nowhere}, memo : STRING \cup {NoMemo}, amt : Int]

\* The split that balances a transaction is in the account for imbalances.
Splits ==
  {c \in UNION {[S -> Line] : S \in {T \in SUBSET Nat : IsFiniteSet(T)}} :
     Imbalance \in DOMAIN c => c[Imbalance].acc = Imbalances}

Entries ==
  {e \in [is : {"absent", "live", "deleted"}, splits : Splits] :
     e.is = "live" \/ e.splits = NoSplits}
Books == [Transactions -> Entries]
Records == [flag : {"B", "C", "R", "D"}, trans : Transactions, splits : Splits,
            torn : BOOLEAN]
KnownHomes(known) == known \subseteq Homes /\ Imbalances \in known

\* Every split of a scrubbed transaction has an account, or none has.
Homed(c) == \A s \in DOMAIN c : c[s].acc # Nowhere

LEMMA NowhereIsNoHome == Nowhere \notin Homes
BY TransLogAssumption DEF Homes, Nowhere, Orphans, Imbalances

LEMMA SplitsFacts ==
  ASSUME NEW c \in Splits
  PROVE  /\ c \in [DOMAIN c -> Line] /\ DOMAIN c \subseteq Nat /\ IsFiniteSet(DOMAIN c)
         /\ \A s \in DOMAIN c :
              /\ c[s] \in Line /\ c[s].amt \in Int /\ c[s].memo \in STRING \cup {NoMemo}
              /\ c[s].acc \in Homes \cup {Nowhere}
         /\ Imbalance \in DOMAIN c => c[Imbalance].acc = Imbalances
<1>1. PICK S \in SUBSET Nat : IsFiniteSet(S) /\ c \in [S -> Line]
  BY DEF Splits
<1>2. DOMAIN c = S
  BY <1>1
<1>3. \A s \in S : c[s] \in Line
  BY <1>1
<1> QED
  BY <1>1, <1>2, <1>3 DEF Splits, Line

LEMMA MakeSplits ==
  ASSUME NEW S \in SUBSET Nat, IsFiniteSet(S), NEW c \in [S -> Line],
         Imbalance \in S => c[Imbalance].acc = Imbalances
  PROVE  c \in Splits
BY DEF Splits

LEMMA EmptyEntries ==
  NoSplits \in Splits /\ Absent \in Entries /\ Deleted \in Entries /\ DOMAIN NoSplits = {}
<1>1. NoSplits \in [{} -> Line] /\ DOMAIN NoSplits = {}
  BY DEF NoSplits
<1>2. IsFiniteSet({})
  BY FS_EmptySet
<1>3. NoSplits \in Splits
  BY <1>1, <1>2, MakeSplits
<1> QED
  BY <1>1, <1>3 DEF Entries, Absent, Deleted

LEMMA LiveEntry ==
  ASSUME NEW c \in Splits
  PROVE  Live(c) \in Entries /\ Live(c).is = "live" /\ Live(c).splits = c
BY DEF Entries, Live

LEMMA OverFacts ==
  ASSUME NEW c \in Splits, NEW d \in Splits
  PROVE  /\ Over(c, d) \in Splits
         /\ DOMAIN Over(c, d) = DOMAIN c \cup DOMAIN d
         /\ \A s \in DOMAIN c : Over(c, d)[s] = c[s]
         /\ \A s \in DOMAIN d \ DOMAIN c : Over(c, d)[s] = d[s]
<1> DEFINE m == Over(c, d)
           S == DOMAIN c \cup DOMAIN d
<1>1. /\ m \in [S -> Line]
      /\ \A s \in DOMAIN c : m[s] = c[s]
      /\ \A s \in DOMAIN d \ DOMAIN c : m[s] = d[s]
  BY SplitsFacts DEF Over
<1>2. S \in SUBSET Nat /\ IsFiniteSet(S)
  BY SplitsFacts, FS_Union
<1>3. Imbalance \in S => m[Imbalance].acc = Imbalances
  BY <1>1, SplitsFacts
<1> HIDE DEF m, S
<1>4. m \in Splits /\ DOMAIN m = S
  BY <1>1, <1>2, <1>3, MakeSplits
<1> QED
  BY <1>1, <1>4 DEF m, S

-----------------------------------------------------------------------------
(* Scrubbing.                                                              *)

AmountsOf(c) == [s \in DOMAIN c |-> c[s].amt]

LEMMA ValueIsInt ==
  ASSUME NEW c \in Splits
  PROVE  Value(c) \in Int
<1>1. IsFiniteSet(DOMAIN c) /\ \A s \in DOMAIN c : AmountsOf(c)[s] \in Int
  BY SplitsFacts DEF AmountsOf
<1> QED
  BY <1>1, SumIsInt DEF Value, AmountsOf

\* The value is that of the balance split and of the others.
LEMMA ValueApart ==
  ASSUME NEW c \in Splits, Imbalance \in DOMAIN c
  PROVE  /\ SumFunctionOnSet(AmountsOf(c), DOMAIN c \ {Imbalance}) \in Int
         /\ Value(c) = c[Imbalance].amt
                       + SumFunctionOnSet(AmountsOf(c), DOMAIN c \ {Imbalance})
<1> DEFINE f == AmountsOf(c)
           S == DOMAIN c
<1>1. /\ IsFiniteSet(S) /\ IsFiniteSet(S \ {Imbalance}) /\ \A s \in S : f[s] \in Int
      /\ f[Imbalance] = c[Imbalance].amt
  BY SplitsFacts, FS_Subset DEF AmountsOf
<1>2. Value(c) = SumFunctionOnSet(f, S)
  BY DEF Value, AmountsOf
<1> HIDE DEF f, S
<1>3. Imbalance \in S
  BY DEF S
<1>4. SumFunctionOnSet(f, S \ {Imbalance}) \in Int
  BY <1>1, SumIsInt
<1>5. Value(c) = f[Imbalance] + SumFunctionOnSet(f, S \ {Imbalance})
  BY <1>1, <1>2, <1>3, SumRemove
<1> QED
  BY <1>1, <1>4, <1>5 DEF f, S

LEMMA SameValues ==
  ASSUME NEW c \in Splits, NEW d \in Splits, NEW S, IsFiniteSet(S),
         S \subseteq DOMAIN c, S \subseteq DOMAIN d,
         \A s \in S : c[s].amt = d[s].amt
  PROVE  SumFunctionOnSet(AmountsOf(c), S) = SumFunctionOnSet(AmountsOf(d), S)
<1> DEFINE f == AmountsOf(c)
           g == AmountsOf(d)
<1>1. \A s \in S : f[s] = g[s] /\ f[s] \in Int
  BY SplitsFacts DEF AmountsOf
<1> HIDE DEF f, g
<1>2. SumFunctionOnSet(f, S) = SumFunctionOnSet(g, S)
  BY <1>1, SumSame
<1> QED
  BY <1>2 DEF f, g

\* What scrubbing makes of a split other than the balance split.
Rehomed(c, s) ==
  IF c[s].acc = Nowhere /\ ~Homeless(c) THEN [c[s] EXCEPT !.acc = Orphans] ELSE c[s]

LEMMA ScrubbedFacts ==
  ASSUME NEW c \in Splits
  PROVE  /\ Scrubbed(c) \in Splits
         /\ DOMAIN c \subseteq DOMAIN Scrubbed(c)
         /\ DOMAIN Scrubbed(c) \subseteq DOMAIN c \cup {Imbalance}
         /\ \A s \in DOMAIN c \ {Imbalance} : Scrubbed(c)[s] = Rehomed(c, s)
         /\ Homeless(c) => Scrubbed(c) = c
         /\ ~Homeless(c) => /\ Homed(Scrubbed(c)) /\ ~Homeless(Scrubbed(c))
                            /\ Value(Scrubbed(c)) = 0
<1>1. CASE Homeless(c)
  <2>1. Scrubbed(c) = c
    BY <1>1 DEF Scrubbed
  <2> QED
    BY <1>1, <2>1 DEF Rehomed
<1>2. CASE ~Homeless(c)
  <2> DEFINE S == DOMAIN c
             homed == [s \in S |-> IF c[s].acc = Nowhere
                                     THEN [c[s] EXCEPT !.acc = Orphans] ELSE c[s]]
             rest == [acc |-> Imbalances, memo |-> NoMemo, amt |-> BalanceOf(c)]
             one == [s \in {Imbalance} |-> rest]
  <2>1. /\ S \in SUBSET Nat /\ IsFiniteSet(S)
        /\ Imbalance \in S => c[Imbalance].acc = Imbalances
        /\ \A s \in S : c[s] \in Line /\ c[s].acc \in Homes \cup {Nowhere}
    BY SplitsFacts
  <2>2. Orphans \in Homes /\ Imbalances \in Homes /\ Nowhere \notin Homes
    BY NowhereIsNoHome DEF Homes
  <2>3. \A s \in S : /\ homed[s] \in Line /\ homed[s].acc # Nowhere
                     /\ homed[s].amt = c[s].amt /\ homed[s] = Rehomed(c, s)
                     /\ c[s].acc # Nowhere => homed[s] = c[s]
    BY <1>2, <2>1, <2>2 DEF Line, Rehomed
  <2>4. homed \in [S -> Line] /\ DOMAIN homed = S
    BY <2>3
  <2>5. homed \in Splits
    <3>1. Imbalance \in S => homed[Imbalance].acc = Imbalances
      BY <2>1, <2>2, <2>3
    <3> HIDE DEF homed, S
    <3> QED
      BY <2>1, <2>4, <3>1, MakeSplits
  <2>6. BalanceOf(c) \in Int
    BY <2>1, ValueIsInt DEF BalanceOf, Line
  <2>7. rest \in Line /\ rest.acc = Imbalances /\ rest.amt = BalanceOf(c)
    BY <2>2, <2>6 DEF Line
  <2>8. one \in Splits /\ DOMAIN one = {Imbalance} /\ one[Imbalance] = rest
    <3> HIDE DEF rest
    <3>1. one \in [{Imbalance} -> Line] /\ {Imbalance} \in SUBSET Nat
      BY <2>7 DEF Imbalance
    <3> QED
      BY <2>7, <3>1, FS_Singleton, MakeSplits
  <2>9. Scrubbed(c) = IF Value(c) = 0 THEN homed ELSE Over(one, homed)
    BY <1>2 DEF Scrubbed
  <2> HIDE DEF S, homed, rest, one
  <2>10. PICK u \in S : c[u].acc # Nowhere
    BY <1>2 DEF Homeless, S
  <2>11. CASE Value(c) = 0
    <3>1. Scrubbed(c) = homed
      BY <2>9, <2>11
    <3>2. Value(homed) = Value(c)
      <4>1. SumFunctionOnSet(AmountsOf(homed), S) = SumFunctionOnSet(AmountsOf(c), S)
        BY <2>1, <2>3, <2>4, <2>5, SameValues DEF S
      <4> QED
        BY <2>4, <4>1 DEF Value, AmountsOf, S
    <3> QED
      BY <1>2, <2>3, <2>4, <2>5, <2>10, <2>11, <3>1, <3>2 DEF Homed, Homeless, S
  <2>12. CASE Value(c) # 0
    <3> DEFINE y == Over(one, homed)
               T == S \ {Imbalance}
    <3>1. Scrubbed(c) = y
      BY <2>9, <2>12
    <3>2. /\ y \in Splits /\ DOMAIN y = {Imbalance} \cup S
          /\ y[Imbalance] = rest /\ \A s \in T : y[s] = homed[s]
      BY <2>4, <2>5, <2>8, OverFacts
    <3> HIDE DEF y, T
    <3>3. Homed(y) /\ ~Homeless(y)
      BY <2>2, <2>3, <2>7, <3>2 DEF Homed, Homeless, T
    <3>4. /\ T = DOMAIN y \ {Imbalance} /\ T = DOMAIN c \ {Imbalance}
          /\ IsFiniteSet(T) /\ \A s \in T : s \in S
      BY <2>1, <3>2, FS_Subset DEF T, S
    <3>5. SumFunctionOnSet(AmountsOf(y), T) = SumFunctionOnSet(AmountsOf(c), T)
      <4>1. \A s \in T : y[s].amt = c[s].amt
        BY <2>3, <3>2, <3>4
      <4>2. T \subseteq DOMAIN y /\ T \subseteq DOMAIN c
        BY <3>4
      <4> QED
        BY <3>2, <3>4, <4>1, <4>2, SameValues
    <3> DEFINE sum == SumFunctionOnSet(AmountsOf(c), T)
    <3>6. Value(y) = BalanceOf(c) + sum
      <4>1. Imbalance \in DOMAIN y
        BY <3>2
      <4> QED
        BY <2>7, <3>2, <3>4, <3>5, <4>1, ValueApart
    <3>7. BalanceOf(c) = -sum /\ sum \in Int
      <4>1. CASE Imbalance \in DOMAIN c
        <5>1. sum \in Int /\ Value(c) = c[Imbalance].amt + sum /\ c[Imbalance].amt \in Int
          BY <3>4, <4>1, ValueApart, SplitsFacts
        <5>2. BalanceOf(c) = c[Imbalance].amt - Value(c)
          BY <4>1 DEF BalanceOf
        <5> HIDE DEF sum
        <5> QED
          BY <5>1, <5>2
      <4>2. CASE Imbalance \notin DOMAIN c
        <5>1. Value(c) = sum
          BY <3>4, <4>2 DEF Value, AmountsOf
        <5>2. BalanceOf(c) = 0 - Value(c)
          BY <4>2 DEF BalanceOf
        <5> HIDE DEF sum
        <5> QED
          BY <5>1, <5>2, ValueIsInt
      <4> QED
        BY <4>1, <4>2
    <3>8. Value(y) = 0
      <4> HIDE DEF sum
      <4> QED
        BY <3>6, <3>7
    <3> QED
      BY <1>2, <2>3, <3>1, <3>2, <3>3, <3>8 DEF S, T
  <2> QED
    BY <2>11, <2>12
<1> QED
  BY <1>1, <1>2

-----------------------------------------------------------------------------
(* A replay takes one record after the other.                              *)

IsRun(f, b, known, records, N) ==
  f = [n \in 0..N |-> IF n = 0 THEN b ELSE ReplayRecord(f[n - 1], known, records[n])]

LEMMA RunExists ==
  ASSUME NEW b, NEW known, NEW records, NEW N \in Nat
  PROVE  \E f : IsRun(f, b, known, records, N)
<1> DEFINE S == {n \in Nat : \E f : IsRun(f, b, known, records, n)}
<1>1. 0 \in S
  <2> DEFINE f == [n \in 0..0 |-> b]
  <2>1. IsRun(f, b, known, records, 0)
    BY DEF IsRun
  <2> QED
    BY <2>1
<1>2. ASSUME NEW m \in 0..(N - 1), m \in S
      PROVE  m + 1 \in S
  <2>1. PICK f : IsRun(f, b, known, records, m)
    BY <1>2
  <2> DEFINE g == [n \in 0..(m + 1) |-> IF n = 0 THEN b
                                        ELSE ReplayRecord(f[n - 1], known, records[n])]
  <2>2. ASSUME NEW n \in 0..(m + 1), n # 0
        PROVE  g[n - 1] = f[n - 1]
    <3>1. n - 1 \in 0..m /\ n - 1 \in 0..(m + 1)
      BY <2>2
    <3> DEFINE i == n - 1
    <3> HIDE DEF i
    <3>2. g[i] = IF i = 0 THEN b ELSE ReplayRecord(f[i - 1], known, records[i])
      BY <3>1 DEF i
    <3>3. f[i] = IF i = 0 THEN b ELSE ReplayRecord(f[i - 1], known, records[i])
      BY <2>1, <3>1 DEF IsRun, i
    <3> QED
      BY <3>2, <3>3 DEF i
  <2>3. IsRun(g, b, known, records, m + 1)
    BY <2>2 DEF IsRun
  <2> QED
    BY <2>3
<1>3. \A n \in 0..N : n \in S
  <2> HIDE DEF S
  <2> QED
    BY <1>1, <1>2, UpTo
<1> QED
  BY <1>3

LEMMA ReplayRun ==
  ASSUME NEW b, NEW known, NEW records, Len(records) \in Nat
  PROVE  \E f : /\ f[0] = b
                /\ \A n \in 1..Len(records) :
                     f[n] = ReplayRecord(f[n - 1], known, records[n])
                /\ f[Len(records)] = Replay(b, known, records)
<1> DEFINE N == Len(records)
           f == CHOOSE f : IsRun(f, b, known, records, N)
<1>1. IsRun(f, b, known, records, N)
  BY RunExists
<1>2. Replay(b, known, records) = f[N]
  BY DEF Replay, IsRun
<1> HIDE DEF f, N
<1>3. N \in Nat
  BY DEF N
<1>4. f[0] = b
  BY <1>1, <1>3 DEF IsRun
<1>5. ASSUME NEW n \in 1..N
      PROVE  f[n] = ReplayRecord(f[n - 1], known, records[n])
  BY <1>1, <1>3 DEF IsRun
<1> QED
  BY <1>2, <1>4, <1>5 DEF N

LEMMA ReplayIsRun ==
  ASSUME NEW b, NEW known, NEW records, Len(records) \in Nat, NEW g, g[0] = b,
         \A n \in 1..Len(records) : g[n] = ReplayRecord(g[n - 1], known, records[n])
  PROVE  g[Len(records)] = Replay(b, known, records)
<1> DEFINE N == Len(records)
<1>1. PICK f : /\ f[0] = b
               /\ \A n \in 1..N : f[n] = ReplayRecord(f[n - 1], known, records[n])
               /\ f[N] = Replay(b, known, records)
  BY ReplayRun
<1>2. N \in Nat
  OBVIOUS
<1> DEFINE S == {n \in 0..N : f[n] = g[n]}
<1>3. 0 \in S
  BY <1>1, <1>2
<1>4. ASSUME NEW n \in 0..(N - 1), n \in S
      PROVE  n + 1 \in S
  <2>1. n + 1 \in 1..N /\ (n + 1) - 1 = n /\ n + 1 \in 0..N
    BY <1>2
  <2>2. f[n] = g[n]
    BY <1>4
  <2>3. f[n + 1] = ReplayRecord(f[n], known, records[n + 1])
    BY <1>1, <2>1
  <2>4. g[n + 1] = ReplayRecord(g[n], known, records[n + 1])
    BY <2>1
  <2> QED
    BY <2>1, <2>2, <2>3, <2>4
<1>5. \A n \in 0..N : n \in S
  <2> HIDE DEF S, N
  <2> QED
    BY <1>2, <1>3, <1>4, UpTo
<1>6. N \in 0..N
  BY <1>2
<1> QED
  BY <1>1, <1>5, <1>6

LEMMA ReplayEmpty ==
  ASSUME NEW b, NEW known
  PROVE  Replay(b, known, <<>>) = b
<1>1. Len(<<>>) = 0
  OBVIOUS
<1> QED
  BY <1>1, ReplayRun

LEMMA ReplayAppend ==
  ASSUME NEW R, NEW b, NEW known, NEW records \in Seq(R), NEW r \in R
  PROVE  Replay(b, known, Append(records, r)) =
           ReplayRecord(Replay(b, known, records), known, r)
<1> DEFINE N == Len(records)
           more == Append(records, r)
<1>1. /\ N \in Nat /\ Len(more) = N + 1 /\ more[N + 1] = r
      /\ \A n \in 1..N : more[n] = records[n]
  OBVIOUS
<1>2. PICK f : /\ f[0] = b
               /\ \A n \in 1..N : f[n] = ReplayRecord(f[n - 1], known, records[n])
               /\ f[N] = Replay(b, known, records)
  <2> HIDE DEF more
  <2>1. Len(records) \in Nat
    BY <1>1
  <2> QED
    BY ONLY <2>1, ReplayRun DEF N
<1> DEFINE g == [n \in 0..(N + 1) |-> IF n = N + 1 THEN ReplayRecord(f[N], known, r)
                                       ELSE f[n]]
<1> HIDE DEF more, N
<1>3. g[0] = b
  BY <1>1, <1>2
<1>4. ASSUME NEW n \in 1..(N + 1)
      PROVE  g[n] = ReplayRecord(g[n - 1], known, more[n])
  <2>1. CASE n = N + 1
    <3>1. n - 1 = N /\ N \in 0..(N + 1) /\ N # N + 1
      BY <1>1, <2>1
    <3>2. g[n - 1] = f[N]
      BY <3>1
    <3>3. g[n] = ReplayRecord(f[N], known, r)
      BY <1>1, <2>1
    <3> HIDE DEF g
    <3> QED
      BY <1>1, <2>1, <3>2, <3>3
  <2>2. CASE n # N + 1
    <3>1. n \in 1..N /\ n - 1 \in 0..(N + 1) /\ n - 1 # N + 1 /\ n \in 0..(N + 1)
      BY <1>1, <2>2
    <3>2. g[n - 1] = f[n - 1] /\ g[n] = f[n]
      BY <2>2, <3>1
    <3> HIDE DEF g
    <3> QED
      BY <1>1, <1>2, <3>1, <3>2
  <2> QED
    BY <2>1, <2>2
<1>5. g[N + 1] = ReplayRecord(f[N], known, r)
  BY <1>1
<1>6. g[Len(more)] = Replay(b, known, more)
  <2> HIDE DEF g
  <2> QED
    BY <1>1, <1>3, <1>4, ReplayIsRun
<1> QED
  BY <1>1, <1>2, <1>5, <1>6 DEF more, N

-----------------------------------------------------------------------------
(* What one record makes of one transaction.                               *)

Blank == [acc |-> Nowhere, memo |-> NoMemo, amt |-> 0]
Was(old, s) == IF s \in DOMAIN old THEN old[s] ELSE Blank
Reads(old, d, known) == [s \in DOMAIN d |-> ReadLine(Was(old, s), d[s], known)]
Merged(old, d, known) == Over(Reads(old, d, known), old)

Tells(r, t) == r.trans = t /\ r.flag \in {"C", "D"}
Step(e, t, r, known) ==
  CASE ~Tells(r, t)  -> e
    [] Tells(r, t) /\ r.flag = "C" -> Live(Scrubbed(Merged(e.splits, r.splits, known)))
    [] Tells(r, t) /\ r.flag = "D" -> IF e.is = "live" THEN Deleted ELSE e

LEMMA BlankIsLine == Blank \in Line
BY DEF Blank, Line

LEMMA ReadFacts ==
  ASSUME NEW was \in Line, NEW line \in Line, NEW known, KnownHomes(known)
  PROVE  /\ ReadLine(was, line, known) \in Line
         /\ ReadLine(was, line, known).amt = line.amt
         /\ ReadLine(was, line, known).memo =
              IF line.memo = NoMemo THEN was.memo ELSE line.memo
         /\ ReadLine(was, line, known).acc = IF line.acc \in known THEN line.acc ELSE was.acc
BY DEF ReadLine, Line

IsMerged(m, old, d, known) ==
  /\ m \in Splits
  /\ DOMAIN m = DOMAIN d \cup DOMAIN old
  /\ \A s \in DOMAIN d :
       Was(old, s) \in Line /\ m[s] = ReadLine(Was(old, s), d[s], known)
  /\ \A s \in DOMAIN old \ DOMAIN d : m[s] = old[s]

LEMMA MergedFacts ==
  ASSUME NEW old \in Splits, NEW d \in Splits, NEW known, KnownHomes(known)
  PROVE  IsMerged(Merged(old, d, known), old, d, known)
<1> DEFINE f == Reads(old, d, known)
           S == DOMAIN d
<1>1. \A s : Was(old, s) \in Line
  BY SplitsFacts, BlankIsLine DEF Was
<1>2. \A s \in S : d[s] \in Line
  BY SplitsFacts
<1>3. /\ DOMAIN f = S
      /\ \A s \in S : f[s] = ReadLine(Was(old, s), d[s], known)
      /\ f = [s \in S |-> ReadLine(Was(old, s), d[s], known)]
  BY DEF Reads
<1>4. \A s \in S : ReadLine(Was(old, s), d[s], known) \in Line
  BY <1>1, <1>2, ReadFacts
<1>5. f \in [S -> Line]
  <2> HIDE DEF f
  <2> QED
    BY <1>3, <1>4
<1>6. S \in SUBSET Nat /\ IsFiniteSet(S)
  BY SplitsFacts
<1>7. Imbalance \in S => f[Imbalance].acc = Imbalances
  <2>1. Imbalance \in S => d[Imbalance].acc = Imbalances /\ d[Imbalance].acc \in known
    BY SplitsFacts DEF KnownHomes
  <2>2. ASSUME NEW was \in Line, NEW line \in Line, line.acc \in known
        PROVE  ReadLine(was, line, known).acc = line.acc
    BY <2>2, ReadFacts
  <2>3. \A s \in S : d[s].acc \in known => f[s].acc = d[s].acc
    <3> HIDE DEF f, S
    <3> QED
      BY <1>1, <1>2, <1>3, <2>2
  <2> HIDE DEF f
  <2> QED
    BY <2>1, <2>3
<1> HIDE DEF f, S
<1>8. f \in Splits
  BY <1>5, <1>6, <1>7, MakeSplits
<1>9. /\ Over(f, old) \in Splits
      /\ DOMAIN Over(f, old) = S \cup DOMAIN old
      /\ \A s \in S : Over(f, old)[s] = f[s]
      /\ \A s \in DOMAIN old \ S : Over(f, old)[s] = old[s]
  BY <1>3, <1>8, OverFacts
<1> QED
  BY <1>1, <1>3, <1>9 DEF IsMerged, Merged, f, S

LEMMA ReplayRecordIs ==
  ASSUME NEW b \in Books, NEW r \in Records, NEW known
  PROVE  ReplayRecord(b, known, r) =
           [t \in Transactions |-> Step(b[t], t, r, known)]
<1> DEFINE T == r.trans
           rec == ReplayRecord(b, known, r)
           steps == [t \in Transactions |-> Step(b[t], t, r, known)]
<1>1. T \in Transactions /\ r.flag \in {"B", "C", "R", "D"} /\ b \in [Transactions -> Entries]
  BY DEF Records, Books
<1>2. \A t \in Transactions : t # T => steps[t] = b[t]
  BY DEF Step, Tells
<1>3. CASE r.flag = "C"
  <2> DEFINE live == Live(Scrubbed(Merged(b[T].splits, r.splits, known)))
  <2>1. rec = [b EXCEPT ![T] = live]
    BY <1>3 DEF ReplayRecord, ReplayCommit, Merged, Reads, Was, Blank
  <2>2. steps[T] = live
    BY <1>1, <1>3 DEF Step, Tells
  <2> HIDE DEF live
  <2>3. \A t \in Transactions : rec[t] = steps[t]
    BY <1>1, <1>2, <2>1, <2>2
  <2> QED
    BY <1>1, <2>1, <2>3
<1>4. CASE r.flag = "D"
  <2>1. rec = IF b[T].is = "live" THEN [b EXCEPT ![T] = Deleted] ELSE b
    BY <1>4 DEF ReplayRecord, ReplayDelete
  <2>2. steps[T] = IF b[T].is = "live" THEN Deleted ELSE b[T]
    BY <1>1, <1>4 DEF Step, Tells
  <2> HIDE DEF rec
  <2>3. \A t \in Transactions : rec[t] = steps[t]
    BY <1>1, <1>2, <2>1, <2>2
  <2>4. rec = [t \in Transactions |-> rec[t]]
    BY <1>1, <2>1
  <2> HIDE DEF T
  <2> QED
    BY <2>3, <2>4 DEF rec
<1>5. CASE r.flag \notin {"C", "D"}
  <2>1. rec = b
    BY <1>5 DEF ReplayRecord
  <2>2. \A t \in Transactions : steps[t] = b[t]
    BY <1>5 DEF Step, Tells
  <2> QED
    BY <1>1, <2>1, <2>2
<1> QED
  BY <1>3, <1>4, <1>5

\* Every commit leaves a transaction balanced, or without any account.
Even(c) == Homeless(c) \/ Value(c) = 0
Tidy(c) == Homeless(c) \/ (Homed(c) /\ Value(c) = 0)

\* What a replayed commit makes of the splits old, d being those of the record.
Committing(old, d, known) == Scrubbed(Merged(old, d, known))

\* The lines of the record replace those there were, field by field.
Rewritten(y, old, d, known) ==
  \A s \in DOMAIN d \ {Imbalance} :
    /\ y[s].amt = d[s].amt
    /\ y[s].memo = IF d[s].memo = NoMemo THEN Was(old, s).memo ELSE d[s].memo
    /\ d[s].acc \in known => y[s].acc = d[s].acc
    /\ d[s].acc \notin known /\ Was(old, s).acc # Nowhere => y[s].acc = Was(old, s).acc
Retained(y, old, d) ==
  \A s \in DOMAIN old \ (DOMAIN d \cup {Imbalance}) :
    /\ y[s].amt = old[s].amt /\ y[s].memo = old[s].memo
    /\ old[s].acc # Nowhere => y[s].acc = old[s].acc
TellsHome(d, known) == \E s \in DOMAIN d : d[s].acc \in known

LEMMA CommittingFacts ==
  ASSUME NEW old \in Splits, NEW d \in Splits, NEW known, KnownHomes(known)
  PROVE  LET y == Committing(old, d, known)
         IN  /\ y \in Splits
             /\ DOMAIN d \cup DOMAIN old \subseteq DOMAIN y
             /\ DOMAIN y \subseteq DOMAIN d \cup DOMAIN old \cup {Imbalance}
             /\ Rewritten(y, old, d, known) /\ Retained(y, old, d)
             /\ Homeless(y) <=> (Homeless(old) /\ ~TellsHome(d, known))
             /\ Tidy(y)
<1> DEFINE m == Merged(old, d, known)
           y == Committing(old, d, known)
<1>1. /\ m \in Splits
      /\ DOMAIN m = DOMAIN d \cup DOMAIN old
      /\ \A s \in DOMAIN d :
           Was(old, s) \in Line /\ m[s] = ReadLine(Was(old, s), d[s], known)
      /\ \A s \in DOMAIN old \ DOMAIN d : m[s] = old[s]
  <2>1. IsMerged(m, old, d, known)
    BY MergedFacts
  <2> HIDE DEF m
  <2> QED
    BY <2>1 DEF IsMerged
<1>2. y = Scrubbed(m)
  BY DEF Committing
<1> HIDE DEF m, y
<1>3. /\ y \in Splits /\ DOMAIN m \subseteq DOMAIN y
      /\ DOMAIN y \subseteq DOMAIN m \cup {Imbalance}
      /\ \A s \in DOMAIN m \ {Imbalance} : y[s] = Rehomed(m, s)
      /\ Homeless(m) => y = m
      /\ ~Homeless(m) => Homed(y) /\ ~Homeless(y) /\ Value(y) = 0
  BY <1>1, <1>2, ScrubbedFacts
<1>4. ASSUME NEW s \in DOMAIN m \ {Imbalance}
      PROVE  /\ y[s].amt = m[s].amt /\ y[s].memo = m[s].memo
             /\ m[s].acc # Nowhere => y[s].acc = m[s].acc
  <2>1. y[s] = Rehomed(m, s) /\ m[s] \in Line
    BY <1>1, <1>3, SplitsFacts
  <2> QED
    BY <2>1 DEF Rehomed, Line
<1>5. ASSUME NEW s \in DOMAIN d
      PROVE  /\ m[s].amt = d[s].amt
             /\ m[s].memo = IF d[s].memo = NoMemo THEN Was(old, s).memo ELSE d[s].memo
             /\ m[s].acc = IF d[s].acc \in known THEN d[s].acc ELSE Was(old, s).acc
  <2> DEFINE was == Was(old, s)
             line == d[s]
  <2>1. was \in Line /\ m[s] = ReadLine(was, line, known) /\ line \in Line
    BY <1>1, SplitsFacts
  <2> HIDE DEF was, line
  <2>2. /\ m[s].amt = line.amt
        /\ m[s].memo = IF line.memo = NoMemo THEN was.memo ELSE line.memo
        /\ m[s].acc = IF line.acc \in known THEN line.acc ELSE was.acc
    BY <2>1, ReadFacts
  <2> QED
    BY <2>2 DEF was, line
<1>6. \A a \in known : a # Nowhere
  BY NowhereIsNoHome DEF KnownHomes
<1>7. Rewritten(y, old, d, known)
  <2>1. ASSUME NEW s \in DOMAIN d \ {Imbalance}
        PROVE  /\ y[s].amt = d[s].amt
               /\ y[s].memo = IF d[s].memo = NoMemo THEN Was(old, s).memo ELSE d[s].memo
               /\ d[s].acc \in known => y[s].acc = d[s].acc
               /\ d[s].acc \notin known /\ Was(old, s).acc # Nowhere =>
                    y[s].acc = Was(old, s).acc
    <3>1. s \in DOMAIN m \ {Imbalance} /\ s \in DOMAIN d
      BY <1>1
    <3> QED
      BY <1>4, <1>5, <1>6, <3>1
  <2> QED
    BY <2>1 DEF Rewritten
<1>8. Retained(y, old, d)
  <2>1. ASSUME NEW s \in DOMAIN old \ (DOMAIN d \cup {Imbalance})
        PROVE  s \in DOMAIN m \ {Imbalance} /\ m[s] = old[s]
    BY <1>1
  <2> QED
    BY <1>4, <2>1 DEF Retained
<1>9. Homeless(m) <=> (Homeless(old) /\ ~TellsHome(d, known))
  <2>1. ASSUME Homeless(m)  PROVE Homeless(old) /\ ~TellsHome(d, known)
    <3>1. \A s \in DOMAIN m : m[s].acc = Nowhere
      BY <2>1 DEF Homeless
    <3>2. ASSUME NEW s \in DOMAIN d  PROVE d[s].acc \notin known /\ Was(old, s).acc = Nowhere
      BY <1>1, <1>5, <1>6, <3>1
    <3>3. ASSUME NEW s \in DOMAIN old  PROVE old[s].acc = Nowhere
      <4>1. CASE s \in DOMAIN d
        BY <3>2, <4>1 DEF Was
      <4>2. CASE s \notin DOMAIN d
        <5>1. m[s] = old[s] /\ s \in DOMAIN m
          BY <1>1, <4>2
        <5> QED
          BY <3>1, <5>1
      <4> QED
        BY <4>1, <4>2
    <3> QED
      BY <3>2, <3>3 DEF Homeless, TellsHome
  <2>2. ASSUME Homeless(old), ~TellsHome(d, known)  PROVE Homeless(m)
    <3>1. ASSUME NEW s \in DOMAIN m  PROVE m[s].acc = Nowhere
      <4>1. CASE s \in DOMAIN d
        <5>1. d[s].acc \notin known
          BY <2>2, <4>1 DEF TellsHome
        <5>2. Was(old, s).acc = Nowhere
          BY <2>2 DEF Was, Homeless, Blank
        <5> QED
          BY <1>5, <4>1, <5>1, <5>2
      <4>2. CASE s \notin DOMAIN d
        <5>1. m[s] = old[s] /\ s \in DOMAIN old
          BY <1>1, <4>2
        <5> QED
          BY <2>2, <5>1 DEF Homeless
      <4> QED
        BY <4>1, <4>2
    <3> QED
      BY <3>1 DEF Homeless
  <2> QED
    BY <2>1, <2>2
<1>10. Homeless(y) <=> Homeless(m)
  BY <1>3
<1>11. Tidy(y)
  BY <1>3 DEF Tidy
<1>12. DOMAIN d \cup DOMAIN old \subseteq DOMAIN y
       /\ DOMAIN y \subseteq DOMAIN d \cup DOMAIN old \cup {Imbalance}
  BY <1>1, <1>3
<1> QED
  BY <1>3, <1>7, <1>8, <1>9, <1>10, <1>11, <1>12 DEF y

LEMMA EntryFacts ==
  ASSUME NEW e \in Entries
  PROVE  /\ e.splits \in Splits /\ e.is \in {"absent", "live", "deleted"}
         /\ e.is # "live" => e.splits = NoSplits
         /\ e.is = "live" => e = Live(e.splits)
         /\ e.is = "deleted" => e = Deleted
BY DEF Entries, Live, Deleted

LEMMA RecordFacts ==
  ASSUME NEW r \in Records
  PROVE  /\ r.trans \in Transactions /\ r.splits \in Splits
         /\ r.flag \in {"B", "C", "R", "D"} /\ r.torn \in BOOLEAN
BY DEF Records

LEMMA StepIs ==
  ASSUME NEW e \in Entries, NEW t, NEW r \in Records, NEW known, KnownHomes(known)
  PROVE  /\ Step(e, t, r, known) \in Entries
         /\ ~Tells(r, t) => Step(e, t, r, known) = e
         /\ Tells(r, t) /\ r.flag = "C" =>
              /\ Step(e, t, r, known).is = "live"
              /\ Step(e, t, r, known).splits = Committing(e.splits, r.splits, known)
         /\ Tells(r, t) /\ r.flag # "C" =>
              /\ r.flag = "D"
              /\ Step(e, t, r, known) = IF e.is = "live" THEN Deleted ELSE e
              /\ Step(e, t, r, known).splits = NoSplits
<1> DEFINE y == Committing(e.splits, r.splits, known)
<1>1. e.splits \in Splits /\ r.splits \in Splits
  BY EntryFacts, RecordFacts
<1>2. y \in Splits
  BY <1>1, CommittingFacts
<1>3. /\ ~Tells(r, t) => Step(e, t, r, known) = e
      /\ Tells(r, t) /\ r.flag = "C" => Step(e, t, r, known) = Live(y)
      /\ Tells(r, t) /\ r.flag # "C" =>
           r.flag = "D" /\ Step(e, t, r, known) = IF e.is = "live" THEN Deleted ELSE e
  BY DEF Step, Tells, Committing
<1> HIDE DEF y
<1>4. Live(y) \in Entries /\ Live(y).is = "live" /\ Live(y).splits = y
  BY <1>2, LiveEntry
<1>5. Deleted \in Entries /\ Deleted.splits = NoSplits
  BY EmptyEntries DEF Deleted
<1>6. e.is # "live" => e.splits = NoSplits
  BY EntryFacts
<1> QED
  BY <1>3, <1>4, <1>5, <1>6 DEF y

-----------------------------------------------------------------------------
(* What a whole log makes of one transaction.                              *)

IsEntryRun(e, first, t, records, known) ==
  /\ e \in [0..Len(records) -> Entries]
  /\ e[0] = first
  /\ \A n \in 1..Len(records) : e[n] = Step(e[n - 1], t, records[n], known)

LEMMA ReplayedBooks ==
  ASSUME NEW b \in Books, NEW records \in Seq(Records), NEW known, KnownHomes(known)
  PROVE  /\ Replay(b, known, records) \in Books
         /\ \A t \in Transactions : \E e :
              /\ IsEntryRun(e, b[t], t, records, known)
              /\ e[Len(records)] = Replay(b, known, records)[t]
<1> DEFINE N == Len(records)
<1>1. PICK f : /\ f[0] = b
               /\ \A n \in 1..N : f[n] = ReplayRecord(f[n - 1], known, records[n])
               /\ f[N] = Replay(b, known, records)
  BY ReplayRun
<1>2. N \in Nat /\ \A n \in 1..N : records[n] \in Records
  OBVIOUS
<1> HIDE DEF N
<1>3. ASSUME NEW n \in 1..N, f[n - 1] \in Books
      PROVE  f[n] = [t \in Transactions |-> Step(f[n - 1][t], t, records[n], known)]
  <2> DEFINE c == f[n - 1]
             r == records[n]
  <2>1. c \in Books /\ r \in Records /\ f[n] = ReplayRecord(c, known, r)
    BY <1>1, <1>2, <1>3
  <2> HIDE DEF c, r
  <2>2. f[n] = [t \in Transactions |-> Step(c[t], t, r, known)]
    BY <2>1, ReplayRecordIs
  <2> QED
    BY <2>2 DEF c, r
<1> DEFINE S == {n \in 0..N : f[n] \in Books}
<1>4. 0 \in S
  BY <1>1, <1>2
<1>5. ASSUME NEW n \in 0..(N - 1), n \in S
      PROVE  n + 1 \in S
  <2>1. n + 1 \in 1..N /\ (n + 1) - 1 = n /\ n + 1 \in 0..N /\ f[n] \in Books
    BY <1>2, <1>5
  <2> DEFINE r == records[n + 1]
             c == f[n]
  <2>2. f[n + 1] = [t \in Transactions |-> Step(c[t], t, r, known)]
    BY <1>3, <2>1
  <2>3. r \in Records /\ \A t \in Transactions : c[t] \in Entries
    BY <1>2, <2>1 DEF Books
  <2> HIDE DEF r, c
  <2>4. \A t \in Transactions : Step(c[t], t, r, known) \in Entries
    BY <2>3, StepIs
  <2>5. f[n + 1] \in Books
    BY <2>2, <2>4 DEF Books
  <2> QED
    BY <2>1, <2>5
<1>6. \A n \in 0..N : f[n] \in Books
  <2>1. \A n \in 0..N : n \in S
    <3> HIDE DEF S
    <3> QED
      BY <1>2, <1>4, <1>5, UpTo
  <2> QED
    BY <2>1
<1>7. N \in 0..N /\ 0 \in 0..N
  BY <1>2
<1>8. ASSUME NEW t \in Transactions
      PROVE  \E e : IsEntryRun(e, b[t], t, records, known) /\ e[N] = Replay(b, known, records)[t]
  <2> DEFINE e == [n \in 0..N |-> f[n][t]]
  <2>1. \A n \in 0..N : f[n][t] \in Entries
    BY <1>6 DEF Books
  <2>2. e \in [0..N -> Entries] /\ \A n \in 0..N : e[n] = f[n][t]
    BY <2>1
  <2> HIDE DEF e
  <2>3. e[0] = b[t] /\ e[N] = Replay(b, known, records)[t]
    BY <1>1, <1>7, <2>2
  <2>4. ASSUME NEW n \in 1..N
        PROVE  e[n] = Step(e[n - 1], t, records[n], known)
    <3>1. n \in 0..N /\ n - 1 \in 0..N
      BY <1>2
    <3>2. f[n] = [u \in Transactions |-> Step(f[n - 1][u], u, records[n], known)]
      BY <1>3, <1>6, <3>1
    <3>3. f[n][t] = Step(f[n - 1][t], t, records[n], known)
      BY <3>2
    <3> QED
      BY <2>2, <3>1, <3>3
  <2>5. IsEntryRun(e, b[t], t, records, known)
    BY <2>2, <2>3, <2>4 DEF IsEntryRun, N
  <2> QED
    BY <2>3, <2>5
<1> QED
  BY <1>1, <1>6, <1>7, <1>8 DEF N

\* A transaction that no record tells of stays as it was.
LEMMA Untold ==
  ASSUME NEW b \in Books, NEW records \in Seq(Records), NEW known, KnownHomes(known),
         NEW t \in Transactions, \A n \in 1..Len(records) : ~Tells(records[n], t)
  PROVE  Replay(b, known, records)[t] = b[t]
<1> DEFINE N == Len(records)
<1>1. PICK e : /\ IsEntryRun(e, b[t], t, records, known)
               /\ e[N] = Replay(b, known, records)[t]
  BY ReplayedBooks
<1>2. N \in Nat
  OBVIOUS
<1> DEFINE S == {n \in 0..N : e[n] = b[t]}
<1>3. 0 \in S
  BY <1>1, <1>2 DEF IsEntryRun
<1>4. ASSUME NEW n \in 0..(N - 1), n \in S
      PROVE  n + 1 \in S
  <2>1. n + 1 \in 1..N /\ (n + 1) - 1 = n /\ n + 1 \in 0..N /\ e[n] = b[t]
    BY <1>2, <1>4
  <2>2. e[n + 1] = Step(e[n], t, records[n + 1], known)
    BY <1>1, <2>1 DEF IsEntryRun
  <2>3. e[n + 1] = e[n]
    BY <2>1, <2>2 DEF Step
  <2> QED
    BY <2>1, <2>3
<1>5. \A n \in 0..N : n \in S
  <2> HIDE DEF S, N
  <2> QED
    BY <1>2, <1>3, <1>4, UpTo
<1>6. e[N] = b[t]
  BY <1>2, <1>5
<1> QED
  BY <1>1, <1>6

\* The records that tell of a transaction, as RecordsOf(t) has them of the log.
Telling(records, t) == {n \in 1..Len(records) : Tells(records[n], t)}
LinesOf(records, t) == UNION {DOMAIN records[n].splits : n \in Telling(records, t)}

\* A replay adds no split but those of the records and a balance split.
LEMMA NoOtherSplits ==
  ASSUME NEW b \in Books, NEW records \in Seq(Records), NEW known, KnownHomes(known),
         NEW t \in Transactions
  PROVE  DOMAIN Replay(b, known, records)[t].splits
           \subseteq DOMAIN b[t].splits \cup LinesOf(records, t) \cup {Imbalance}
<1> DEFINE N == Len(records)
           all == DOMAIN b[t].splits \cup LinesOf(records, t) \cup {Imbalance}
<1>1. PICK e : /\ IsEntryRun(e, b[t], t, records, known)
               /\ e[N] = Replay(b, known, records)[t]
  BY ReplayedBooks
<1>2. N \in Nat /\ \A n \in 1..N : records[n] \in Records
  OBVIOUS
<1> DEFINE S == {n \in 0..N : DOMAIN e[n].splits \subseteq all}
<1>3. 0 \in S
  BY <1>1, <1>2 DEF IsEntryRun
<1>4. ASSUME NEW n \in 0..(N - 1), n \in S
      PROVE  n + 1 \in S
  <2> DEFINE r == records[n + 1]
             old == e[n]
             new == e[n + 1]
  <2>1. n + 1 \in 1..N /\ (n + 1) - 1 = n /\ n + 1 \in 0..N /\ n \in 0..N
    BY <1>2, <1>4
  <2>2. /\ new = Step(old, t, r, known) /\ old \in Entries /\ r \in Records
        /\ DOMAIN old.splits \subseteq all
    BY <1>1, <1>2, <1>4, <2>1 DEF IsEntryRun
  <2>3. Tells(r, t) => DOMAIN r.splits \subseteq all
    BY <2>1 DEF LinesOf, Telling
  <2>4. Imbalance \in all
    OBVIOUS
  <2> HIDE DEF r, old, new, all
  <2>5. DOMAIN new.splits \subseteq all
    <3>1. CASE ~Tells(r, t)
      BY <2>2, <3>1, StepIs
    <3>2. CASE Tells(r, t) /\ r.flag = "C"
      <4> DEFINE y == Committing(old.splits, r.splits, known)
      <4>1. new.splits = y
        BY <2>2, <3>2, StepIs
      <4>2. old.splits \in Splits /\ r.splits \in Splits
        BY <2>2, EntryFacts, RecordFacts
      <4>3. DOMAIN y \subseteq DOMAIN r.splits \cup DOMAIN old.splits \cup {Imbalance}
        BY <4>2, CommittingFacts
      <4> HIDE DEF y
      <4> QED
        BY <2>2, <2>3, <2>4, <3>2, <4>1, <4>3
    <3>3. CASE Tells(r, t) /\ r.flag # "C"
      <4>1. new.splits = NoSplits
        BY <2>2, <3>3, StepIs
      <4> QED
        BY <4>1, EmptyEntries
    <3> QED
      BY <3>1, <3>2, <3>3
  <2> QED
    BY <2>1, <2>5 DEF new
<1>5. \A n \in 0..N : n \in S
  <2> HIDE DEF S, N
  <2> QED
    BY <1>2, <1>3, <1>4, UpTo
<1>6. DOMAIN e[N].splits \subseteq all
  BY <1>2, <1>5
<1> QED
  BY <1>1, <1>6

\* A transaction that a record tells of ends up tidy.
LEMMA NoSplitsTidy == Homeless(NoSplits) /\ Tidy(NoSplits) /\ Even(NoSplits)
BY EmptyEntries DEF Homeless, Tidy, Even

LEMMA TidyStep ==
  ASSUME NEW e \in Entries, NEW t, NEW r \in Records, Tells(r, t), NEW known, KnownHomes(known)
  PROVE  Tidy(Step(e, t, r, known).splits)
<1>1. CASE r.flag = "C"
  <2> DEFINE y == Committing(e.splits, r.splits, known)
  <2>1. e.splits \in Splits /\ r.splits \in Splits
    BY EntryFacts, RecordFacts
  <2>2. Tidy(y)
    BY <2>1, CommittingFacts
  <2>3. Step(e, t, r, known).splits = y
    BY <1>1, StepIs
  <2> QED
    BY <2>2, <2>3
<1>2. CASE r.flag # "C"
  BY <1>2, StepIs, NoSplitsTidy
<1> QED
  BY <1>1, <1>2

LEMMA TidyAfterReplay ==
  ASSUME NEW b \in Books, NEW records \in Seq(Records), NEW known, KnownHomes(known),
         NEW t \in Transactions, Telling(records, t) # {}
  PROVE  Tidy(Replay(b, known, records)[t].splits)
<1> DEFINE N == Len(records)
<1>1. PICK e : /\ IsEntryRun(e, b[t], t, records, known)
               /\ e[N] = Replay(b, known, records)[t]
  BY ReplayedBooks
<1>2. N \in Nat /\ \A n \in 1..N : records[n] \in Records
  OBVIOUS
<1>3. PICK m \in 1..N : Tells(records[m], t)
  BY DEF Telling
<1> DEFINE S == {n \in 0..N : n >= m => Tidy(e[n].splits)}
<1>4. 0 \in S
  BY <1>2, <1>3
<1>5. ASSUME NEW n \in 0..(N - 1), n \in S
      PROVE  n + 1 \in S
  <2> DEFINE r == records[n + 1]
             old == e[n]
             new == e[n + 1]
  <2>1. n + 1 \in 1..N /\ (n + 1) - 1 = n /\ n + 1 \in 0..N /\ n \in 0..N
    BY <1>2, <1>5
  <2>2. new = Step(old, t, r, known) /\ old \in Entries /\ r \in Records
    BY <1>1, <1>2, <2>1 DEF IsEntryRun
  <2>3. n >= m => Tidy(old.splits)
    BY <1>5
  <2>4. n + 1 >= m => n >= m \/ Tells(r, t)
    <3>1. n + 1 >= m => n >= m \/ n + 1 = m
      BY <1>3, <2>1
    <3> QED
      BY <1>3, <3>1
  <2> HIDE DEF r, old, new
  <2>5. Tells(r, t) => Tidy(new.splits)
    BY <2>2, TidyStep
  <2>6. ~Tells(r, t) => new = old
    BY <2>2, StepIs
  <2>7. n + 1 >= m => Tidy(new.splits)
    BY <2>3, <2>4, <2>5, <2>6
  <2> QED
    BY <2>1, <2>7 DEF new
<1>6. \A n \in 0..N : n \in S
  <2> HIDE DEF S, N
  <2> QED
    BY <1>2, <1>4, <1>5, UpTo
<1>7. Tidy(e[N].splits)
  BY <1>2, <1>3, <1>6
<1> QED
  BY <1>1, <1>7

-----------------------------------------------------------------------------
(* Replaying the same records again.                                       *)

\* Two entries differ in nothing but their balance split.
Same(x, y) ==
  /\ x.is = y.is
  /\ DOMAIN x.splits \ {Imbalance} = DOMAIN y.splits \ {Imbalance}
  /\ \A s \in DOMAIN y.splits \ {Imbalance} : x.splits[s] = y.splits[s]
  /\ Homeless(x.splits) <=> Homeless(y.splits)

\* A field of split s is as it ended up in the first replay, or as it was there
\* after as many records.
Follows(g, f, last, s) ==
  /\ g[s].amt = last[s].amt \/ (s \in DOMAIN f /\ g[s].amt = f[s].amt)
  /\ g[s].memo = last[s].memo \/ (s \in DOMAIN f /\ g[s].memo = f[s].memo)
  /\ g[s].acc = last[s].acc \/ (s \in DOMAIN f /\ g[s].acc = f[s].acc)

LEMMA FollowsStep ==
  ASSUME NEW g \in Splits, NEW f \in Splits, NEW last \in Splits, NEW d \in Splits,
         NEW known, KnownHomes(known),
         NEW s, s # Imbalance, s \in DOMAIN g, s \in DOMAIN last, Follows(g, f, last, s),
         \/ g[s].acc # Nowhere
         \/ Homeless(g) /\ ~TellsHome(d, known) /\ last[s].acc = Nowhere
  PROVE  /\ Follows(Committing(g, d, known), Committing(f, d, known), last, s)
         /\ g[s].acc # Nowhere => Committing(g, d, known)[s].acc # Nowhere
<1> DEFINE gy == Committing(g, d, known)
           fy == Committing(f, d, known)
<1>1. /\ gy \in Splits /\ DOMAIN d \cup DOMAIN g \subseteq DOMAIN gy
      /\ Rewritten(gy, g, d, known) /\ Retained(gy, g, d)
      /\ Homeless(gy) <=> (Homeless(g) /\ ~TellsHome(d, known))
  BY CommittingFacts
<1>2. /\ DOMAIN d \cup DOMAIN f \subseteq DOMAIN fy
      /\ Rewritten(fy, f, d, known) /\ Retained(fy, f, d)
  BY CommittingFacts
<1> HIDE DEF gy, fy
<1>3. Was(g, s) = g[s] /\ (s \in DOMAIN f => Was(f, s) = f[s])
  BY DEF Was
<1>4. \A a \in known : a # Nowhere
  BY NowhereIsNoHome DEF KnownHomes
<1>5. CASE s \in DOMAIN d
  <2>1. /\ gy[s].amt = d[s].amt /\ fy[s].amt = d[s].amt /\ s \in DOMAIN fy
        /\ gy[s].memo = IF d[s].memo = NoMemo THEN g[s].memo ELSE d[s].memo
        /\ fy[s].memo = IF d[s].memo = NoMemo THEN Was(f, s).memo ELSE d[s].memo
        /\ d[s].acc \in known => gy[s].acc = d[s].acc /\ fy[s].acc = d[s].acc
        /\ d[s].acc \notin known =>
             /\ g[s].acc # Nowhere => gy[s].acc = g[s].acc
             /\ Was(f, s).acc # Nowhere => fy[s].acc = Was(f, s).acc
    BY <1>1, <1>2, <1>3, <1>5 DEF Rewritten
  <2>2. \/ gy[s].memo = last[s].memo
        \/ s \in DOMAIN fy /\ gy[s].memo = fy[s].memo
    BY <1>3, <2>1 DEF Follows
  <2>3. CASE g[s].acc # Nowhere
    <3>1. \/ gy[s].acc = last[s].acc
          \/ s \in DOMAIN fy /\ gy[s].acc = fy[s].acc
      <4>1. CASE d[s].acc \in known
        BY <2>1, <4>1
      <4>2. CASE d[s].acc \notin known
        <5>1. gy[s].acc = g[s].acc
          BY <2>1, <2>3, <4>2
        <5> QED
          BY <1>3, <2>1, <2>3, <4>2, <5>1 DEF Follows
      <4> QED
        BY <4>1, <4>2
    <3>2. gy[s].acc # Nowhere
      BY <1>4, <2>1, <2>3
    <3> QED
      BY <2>1, <2>2, <3>1, <3>2 DEF Follows, gy, fy
  <2>4. CASE g[s].acc = Nowhere
    <3>1. gy[s].acc = Nowhere /\ last[s].acc = Nowhere
      BY <1>1, <2>4 DEF Homeless
    <3> QED
      BY <2>1, <2>2, <2>4, <3>1 DEF Follows, gy, fy
  <2> QED
    BY <2>3, <2>4
<1>6. CASE s \notin DOMAIN d
  <2>1. /\ gy[s].amt = g[s].amt /\ gy[s].memo = g[s].memo
        /\ g[s].acc # Nowhere => gy[s].acc = g[s].acc
    BY <1>1, <1>6 DEF Retained
  <2>2. s \in DOMAIN f => /\ s \in DOMAIN fy
                          /\ fy[s].amt = f[s].amt /\ fy[s].memo = f[s].memo
                          /\ f[s].acc # Nowhere => fy[s].acc = f[s].acc
    BY <1>2, <1>6 DEF Retained
  <2>3. \/ gy[s].acc = last[s].acc
        \/ s \in DOMAIN fy /\ gy[s].acc = fy[s].acc
    <3>1. CASE g[s].acc # Nowhere
      BY <2>1, <2>2, <3>1 DEF Follows
    <3>2. CASE g[s].acc = Nowhere
      <4>1. gy[s].acc = Nowhere /\ last[s].acc = Nowhere
        BY <1>1, <3>2 DEF Homeless
      <4> QED
        BY <4>1
    <3> QED
      BY <3>1, <3>2
  <2>4. /\ gy[s].amt = last[s].amt \/ (s \in DOMAIN fy /\ gy[s].amt = fy[s].amt)
        /\ gy[s].memo = last[s].memo \/ (s \in DOMAIN fy /\ gy[s].memo = fy[s].memo)
    BY <2>1, <2>2 DEF Follows
  <2> QED
    BY <2>1, <2>3, <2>4 DEF Follows, gy, fy
<1> QED
  BY <1>5, <1>6

\* As records go by, splits and homes only come.
LEMMA OnlyMore ==
  ASSUME NEW e, NEW first, NEW t, NEW records \in Seq(Records), NEW known, KnownHomes(known),
         IsEntryRun(e, first, t, records, known),
         \A n \in Telling(records, t) : records[n].flag = "C"
  PROVE  LET N == Len(records)
         IN  /\ \A n \in 0..N : /\ DOMAIN e[n].splits \subseteq DOMAIN e[N].splits
                                /\ Homeless(e[N].splits) => Homeless(e[n].splits)
             /\ \A n \in Telling(records, t) :
                  /\ DOMAIN records[n].splits \subseteq DOMAIN e[N].splits
                  /\ Homeless(e[N].splits) => ~TellsHome(records[n].splits, known)
<1> DEFINE N == Len(records)
           grows(m, n) == /\ DOMAIN e[m].splits \subseteq DOMAIN e[n].splits
                          /\ Homeless(e[n].splits) => Homeless(e[m].splits)
           holds(m, n) == /\ DOMAIN records[m].splits \subseteq DOMAIN e[n].splits
                          /\ Homeless(e[n].splits) => ~TellsHome(records[m].splits, known)
           S == {n \in 0..N : /\ \A m \in 0..n : grows(m, n)
                              /\ \A m \in 1..n : Tells(records[m], t) => holds(m, n)}
<1>1. N \in Nat /\ \A n \in 1..N : records[n] \in Records
  OBVIOUS
<1>2. 0 \in S
  <2>1. \A m \in 0..0 : m = 0
    OBVIOUS
  <2>2. 1..0 = {}
    OBVIOUS
  <2> QED
    BY <1>1, <2>1, <2>2
<1>3. ASSUME NEW n \in 0..(N - 1), n \in S
      PROVE  n + 1 \in S
  <2> DEFINE k == n + 1
             r == records[k]
  <2>1. k \in 1..N /\ k - 1 = n /\ k \in 0..N /\ n \in 0..N
    BY <1>1, <1>3
  <2>2. e[k] = Step(e[n], t, r, known) /\ e[n] \in Entries /\ r \in Records
    BY <1>1, <2>1 DEF IsEntryRun
  <2>3. Tells(r, t) => r.flag = "C"
    BY <2>1 DEF Telling
  <2>4. grows(n, k) /\ (Tells(r, t) => holds(k, k))
    <3>1. CASE ~Tells(r, t)
      <4>1. e[k] = e[n]
        BY <2>2, <3>1, StepIs
      <4> QED
        BY <3>1, <4>1
    <3>2. CASE Tells(r, t)
      <4> DEFINE old == e[n].splits
                 d == r.splits
                 y == Committing(old, d, known)
      <4>1. e[k].splits = y
        BY <2>2, <2>3, <3>2, StepIs
      <4>2. old \in Splits /\ d \in Splits
        BY <2>2, EntryFacts, RecordFacts
      <4>3. /\ DOMAIN d \cup DOMAIN old \subseteq DOMAIN y
            /\ Homeless(y) => Homeless(old) /\ ~TellsHome(d, known)
        <5> HIDE DEF old, d
        <5> QED
          BY <4>2, CommittingFacts
      <4> HIDE DEF y
      <4> QED
        BY <4>1, <4>3
    <3> QED
      BY <3>1, <3>2
  <2>5. (\A m \in 0..n : grows(m, n)) /\ (\A m \in 1..n : Tells(records[m], t) => holds(m, n))
    BY <1>3
  <2>6. ASSUME NEW m \in 0..k  PROVE grows(m, k)
    <3>1. m \in 0..n \/ m = k
      BY <2>1
    <3> QED
      BY <2>4, <2>5, <3>1
  <2>7. ASSUME NEW m \in 1..k, Tells(records[m], t)  PROVE holds(m, k)
    <3>1. m \in 1..n \/ m = k
      BY <2>1
    <3>2. CASE m \in 1..n
      BY <2>4, <2>5, <2>7, <3>2
    <3>3. CASE m = k
      BY <2>4, <2>7, <3>3
    <3> QED
      BY <3>1, <3>2, <3>3
  <2> QED
    BY <2>1, <2>6, <2>7
<1>4. \A n \in 0..N : n \in S
  <2> HIDE DEF S, N
  <2> QED
    BY <1>1, <1>2, <1>3, UpTo
<1>5. N \in S
  BY <1>1, <1>4
<1> QED
  BY <1>5 DEF Telling

LEMMA EndsLive ==
  ASSUME NEW e, NEW first, NEW t, NEW records \in Seq(Records), NEW known, KnownHomes(known),
         IsEntryRun(e, first, t, records, known), Telling(records, t) # {},
         \A n \in Telling(records, t) : records[n].flag = "C"
  PROVE  e[Len(records)].is = "live"
<1> DEFINE N == Len(records)
<1>1. N \in Nat /\ \A n \in 1..N : records[n] \in Records
  OBVIOUS
<1>2. PICK m \in 1..N : Tells(records[m], t)
  BY DEF Telling
<1> DEFINE S == {n \in 0..N : n >= m => e[n].is = "live"}
<1>3. 0 \in S
  BY <1>1, <1>2
<1>4. ASSUME NEW n \in 0..(N - 1), n \in S
      PROVE  n + 1 \in S
  <2> DEFINE k == n + 1
             r == records[k]
  <2>1. k \in 1..N /\ k - 1 = n /\ k \in 0..N /\ n \in 0..N
    BY <1>1, <1>4
  <2>2. e[k] = Step(e[n], t, r, known) /\ e[n] \in Entries /\ r \in Records
    BY <1>1, <2>1 DEF IsEntryRun
  <2>3. Tells(r, t) => r.flag = "C"
    BY <2>1 DEF Telling
  <2>4. k >= m => n >= m \/ Tells(r, t)
    <3>1. k >= m => n >= m \/ k = m
      BY <1>2, <2>1
    <3> QED
      BY <1>2, <3>1
  <2>5. n >= m => e[n].is = "live"
    BY <1>4
  <2> HIDE DEF k, r
  <2>6. Tells(r, t) => e[k].is = "live"
    BY <2>2, <2>3, StepIs
  <2>7. ~Tells(r, t) => e[k] = e[n]
    BY <2>2, StepIs
  <2>8. k >= m => e[k].is = "live"
    BY <2>4, <2>5, <2>6, <2>7
  <2> QED
    BY <2>1, <2>8 DEF k
<1>5. \A n \in 0..N : n \in S
  <2> HIDE DEF S, N
  <2> QED
    BY <1>1, <1>3, <1>4, UpTo
<1> QED
  BY <1>1, <1>2, <1>5

LEMMA CommitsAgain ==
  ASSUME NEW b \in Books, NEW x \in Books, NEW records \in Seq(Records),
         NEW known, KnownHomes(known), NEW t \in Transactions,
         Telling(records, t) # {}, \A n \in Telling(records, t) : records[n].flag = "C",
         Same(x[t], Replay(b, known, records)[t])
  PROVE  Same(Replay(x, known, records)[t], Replay(b, known, records)[t])
<1> DEFINE N == Len(records)
<1>1. PICK f : /\ IsEntryRun(f, b[t], t, records, known)
               /\ f[N] = Replay(b, known, records)[t]
  BY ReplayedBooks
<1>2. PICK e : /\ IsEntryRun(e, x[t], t, records, known)
               /\ e[N] = Replay(x, known, records)[t]
  BY ReplayedBooks
<1>3. N \in Nat /\ \A n \in 1..N : records[n] \in Records
  OBVIOUS
<1> DEFINE last == f[N].splits
           D == DOMAIN last \ {Imbalance}
<1>4. /\ \A n \in Telling(records, t) :
           /\ DOMAIN records[n].splits \subseteq DOMAIN last
           /\ Homeless(last) => ~TellsHome(records[n].splits, known)
  BY <1>1, OnlyMore
<1>5. f[N].is = "live"
  BY <1>1, EndsLive
<1>6. Tidy(last) /\ last \in Splits
  <2>1. Tidy(last)
    BY <1>1, TidyAfterReplay
  <2>2. f[N] \in Entries
    BY <1>1, <1>3 DEF IsEntryRun
  <2> QED
    BY <2>1, <2>2, EntryFacts
<1> HIDE DEF last, D
<1> DEFINE good(n) ==
             /\ e[n].is = "live"
             /\ DOMAIN e[n].splits \ {Imbalance} = D
             /\ Homeless(e[n].splits) <=> Homeless(last)
             /\ \A s \in D : /\ Follows(e[n].splits, f[n].splits, last, s)
                             /\ ~Homeless(last) => e[n].splits[s].acc # Nowhere
           S == {n \in 0..N : good(n)}
<1>7. 0 \in S
  <2>1. e[0] = x[t]
    BY <1>2 DEF IsEntryRun
  <2>2. Same(e[0], f[N])
    BY <1>1, <2>1
  <2>3. \A s \in D : e[0].splits[s] = last[s] /\ s \in DOMAIN last
    BY <2>2 DEF Same, last, D
  <2>4. \A s \in DOMAIN last : ~Homeless(last) => last[s].acc # Nowhere
    BY <1>6 DEF Tidy, Homed
  <2>5. /\ e[0].is = "live" /\ DOMAIN e[0].splits \ {Imbalance} = D
        /\ Homeless(e[0].splits) <=> Homeless(last)
    BY <1>5, <2>2 DEF Same, last, D
  <2> QED
    BY <1>3, <2>3, <2>4, <2>5 DEF Follows
<1>8. ASSUME NEW n \in 0..(N - 1), n \in S
      PROVE  n + 1 \in S
  <2> DEFINE k == n + 1
             r == records[k]
  <2>1. k \in 1..N /\ k - 1 = n /\ k \in 0..N /\ n \in 0..N
    BY <1>3, <1>8
  <2>2. /\ e[k] = Step(e[n], t, r, known) /\ e[n] \in Entries /\ r \in Records
        /\ f[k] = Step(f[n], t, r, known) /\ f[n] \in Entries
    BY <1>1, <1>2, <1>3, <2>1 DEF IsEntryRun
  <2>3. Tells(r, t) => /\ r.flag = "C"
                       /\ DOMAIN r.splits \subseteq DOMAIN last
                       /\ Homeless(last) => ~TellsHome(r.splits, known)
    BY <1>4, <2>1 DEF Telling
  <2>4. good(n)
    BY <1>8
  <2>5. CASE ~Tells(r, t)
    <3>1. e[k] = e[n] /\ f[k] = f[n]
      BY <2>2, <2>5, StepIs
    <3>2. good(k)
      <4> HIDE DEF k
      <4> QED
        BY <2>4, <3>1
    <3> QED
      BY <2>1, <3>2
  <2>6. CASE Tells(r, t)
    <3> DEFINE g == e[n].splits
               h == f[n].splits
               d == r.splits
               gy == Committing(g, d, known)
               hy == Committing(h, d, known)
    <3>1. g \in Splits /\ h \in Splits /\ d \in Splits
      BY <2>2, EntryFacts, RecordFacts
    <3>2. e[k].is = "live" /\ e[k].splits = gy /\ f[k].splits = hy
      BY <2>2, <2>3, <2>6, StepIs
    <3>3. /\ DOMAIN d \subseteq DOMAIN last
          /\ Homeless(last) => ~TellsHome(d, known)
          /\ DOMAIN g \ {Imbalance} = D
          /\ Homeless(g) <=> Homeless(last)
          /\ \A s \in D : /\ Follows(g, h, last, s)
                          /\ ~Homeless(last) => g[s].acc # Nowhere
      BY <2>3, <2>4, <2>6
    <3> HIDE DEF g, h, d
    <3>4. /\ DOMAIN d \cup DOMAIN g \subseteq DOMAIN gy
          /\ DOMAIN gy \subseteq DOMAIN d \cup DOMAIN g \cup {Imbalance}
          /\ Homeless(gy) <=> (Homeless(g) /\ ~TellsHome(d, known))
      BY <3>1, CommittingFacts
    <3>5. ASSUME NEW s \in D
          PROVE  /\ Follows(gy, hy, last, s)
                 /\ ~Homeless(last) => gy[s].acc # Nowhere
      <4>1. s # Imbalance /\ s \in DOMAIN g /\ s \in DOMAIN last
        BY <3>3 DEF D
      <4>2. \/ g[s].acc # Nowhere
            \/ Homeless(g) /\ ~TellsHome(d, known) /\ last[s].acc = Nowhere
        BY <3>3, <4>1 DEF Homeless
      <4>3. Follows(g, h, last, s)
        BY <3>3
      <4> HIDE DEF gy, hy
      <4>4. /\ Follows(gy, hy, last, s)
            /\ g[s].acc # Nowhere => gy[s].acc # Nowhere
        BY <1>6, <3>1, <4>1, <4>2, <4>3, FollowsStep DEF gy, hy
      <4> QED
        BY <3>3, <4>4
    <3>6. DOMAIN gy \ {Imbalance} = D
      <4> HIDE DEF gy
      <4> QED
        BY <3>3, <3>4 DEF D
    <3>7. Homeless(gy) <=> Homeless(last)
      BY <3>3, <3>4
    <3> HIDE DEF gy, hy, k
    <3>8. good(k)
      BY <3>2, <3>5, <3>6, <3>7
    <3> QED
      BY <2>1, <3>8 DEF k
  <2> QED
    BY <2>5, <2>6
<1>9. \A n \in 0..N : n \in S
  <2> HIDE DEF S, N
  <2> QED
    BY <1>3, <1>7, <1>8, UpTo
<1>10. good(N)
  BY <1>3, <1>9
<1>11. e[N] \in Entries /\ N \in 0..N
  BY <1>2, <1>3 DEF IsEntryRun
<1>12. ASSUME NEW s \in D
       PROVE  e[N].splits[s] = last[s]
  <2> DEFINE g == e[N].splits
  <2>1. g \in Splits /\ DOMAIN g \ {Imbalance} = D /\ Follows(g, last, last, s)
    BY <1>10, <1>11, EntryFacts DEF last
  <2> HIDE DEF g
  <2>2. g[s] \in Line /\ last[s] \in Line
    BY <1>6, <2>1, SplitsFacts DEF D
  <2>3. g[s].amt = last[s].amt /\ g[s].memo = last[s].memo /\ g[s].acc = last[s].acc
    BY <2>1 DEF Follows
  <2>4. g[s] = last[s]
    BY <2>2, <2>3 DEF Line
  <2> QED
    BY <2>4 DEF g
<1>13. Same(e[N], f[N])
  BY <1>5, <1>10, <1>12 DEF Same, last, D
<1> QED
  BY <1>1, <1>2, <1>13

\* Nothing is recorded of a transaction after its deletion.
DeletedLast(records, t) ==
  \A n \in Telling(records, t) :
    records[n].flag = "D" => \A m \in Telling(records, t) : m <= n
ToldDeleted(records, t) == \E n \in Telling(records, t) : records[n].flag = "D"

LEMMA DeletionAgain ==
  ASSUME NEW x \in Books, NEW records \in Seq(Records), NEW known, KnownHomes(known),
         NEW t \in Transactions, DeletedLast(records, t), ToldDeleted(records, t),
         x[t].is # "absent"
  PROVE  Replay(x, known, records)[t] = Deleted
<1> DEFINE N == Len(records)
<1>1. PICK e : /\ IsEntryRun(e, x[t], t, records, known)
               /\ e[N] = Replay(x, known, records)[t]
  BY ReplayedBooks
<1>2. N \in Nat /\ \A n \in 1..N : records[n] \in Records
  OBVIOUS
<1>3. PICK i \in 1..N : /\ Tells(records[i], t) /\ records[i].flag = "D"
                        /\ \A m \in Telling(records, t) : m <= i
  BY DEF ToldDeleted, DeletedLast, Telling
<1> DEFINE S == {n \in 0..N : e[n].is # "absent" /\ (n >= i => e[n] = Deleted)}
<1>4. 0 \in S
  BY <1>1, <1>2, <1>3 DEF IsEntryRun
<1>5. ASSUME NEW n \in 0..(N - 1), n \in S
      PROVE  n + 1 \in S
  <2> DEFINE k == n + 1
             r == records[k]
  <2>1. k \in 1..N /\ k - 1 = n /\ k \in 0..N /\ n \in 0..N
    BY <1>2, <1>5
  <2>2. e[k] = Step(e[n], t, r, known) /\ e[n] \in Entries /\ r \in Records
    BY <1>1, <1>2, <2>1 DEF IsEntryRun
  <2>3. e[n].is # "absent" /\ (n >= i => e[n] = Deleted)
    BY <1>5
  <2>4. Tells(r, t) => k <= i
    BY <1>3, <2>1 DEF Telling
  <2>5. k = i => r.flag = "D" /\ Tells(r, t)
    BY <1>3
  <2>6. Deleted.is = "deleted"
    BY DEF Deleted
  <2> HIDE DEF r
  <2>7. e[k].is # "absent"
    <3> DEFINE old == e[n]
               new == e[k]
    <3> HIDE DEF old, new
    <3>1. /\ new = Step(old, t, r, known) /\ old \in Entries /\ old.is # "absent"
          /\ r \in Records
      BY <2>2, <2>3 DEF old, new
    <3>2. ~Tells(r, t) => new.is # "absent"
      BY <3>1, StepIs
    <3>3. Tells(r, t) /\ r.flag = "C" => new.is # "absent"
      BY <3>1, StepIs
    <3>4. Tells(r, t) /\ r.flag # "C" => new.is # "absent"
      BY <2>6, <3>1, StepIs
    <3>5. new.is # "absent"
      BY <3>2, <3>3, <3>4
    <3> QED
      BY <3>5 DEF new
  <2>8. k >= i => n >= i \/ k = i
    BY <1>3, <2>1
  <2>9. ASSUME k = i  PROVE e[k] = Deleted
    <3>1. e[n].is = "deleted" => e[n] = Deleted
      BY <2>2, EntryFacts
    <3>2. e[n].is = "live" \/ e[n].is = "deleted"
      BY <2>2, <2>3, EntryFacts
    <3> QED
      BY <2>2, <2>5, <2>9, <3>1, <3>2, StepIs
  <2>10. ASSUME n >= i  PROVE e[k] = Deleted
    <3>1. ~(k <= i)
      BY <1>3, <2>1, <2>10
    <3> QED
      BY <2>2, <2>3, <2>4, <2>10, <3>1, StepIs
  <2> QED
    BY <2>1, <2>7, <2>8, <2>9, <2>10
<1>6. \A n \in 0..N : n \in S
  <2> HIDE DEF S, N
  <2> QED
    BY <1>2, <1>4, <1>5, UpTo
<1>7. e[N] = Deleted
  BY <1>2, <1>3, <1>6
<1> QED
  BY <1>1, <1>7

LEMMA SameIsSame ==
  ASSUME NEW x
  PROVE  Same(x, x)
BY DEF Same

\* Replaying the records on top of what they gave changes no more than the
\* balance split.
LEMMA ReplayedAgain ==
  ASSUME NEW b \in Books, NEW x \in Books, NEW records \in Seq(Records),
         NEW known, KnownHomes(known), NEW t \in Transactions, DeletedLast(records, t),
         ToldDeleted(records, t) => Replay(b, known, records)[t] = Deleted,
         Same(x[t], Replay(b, known, records)[t])
  PROVE  Same(Replay(x, known, records)[t], Replay(b, known, records)[t])
<1>1. CASE Telling(records, t) = {}
  <2>1. \A n \in 1..Len(records) : ~Tells(records[n], t)
    BY <1>1 DEF Telling
  <2>2. Replay(x, known, records)[t] = x[t]
    BY <2>1, Untold
  <2> QED
    BY <2>2
<1>2. CASE Telling(records, t) # {} /\ ~ToldDeleted(records, t)
  <2>1. \A n \in Telling(records, t) : records[n].flag = "C"
    BY <1>2 DEF ToldDeleted, Telling, Tells
  <2> QED
    BY <1>2, <2>1, CommitsAgain
<1>3. CASE ToldDeleted(records, t)
  <2>1. x[t].is # "absent"
    BY <1>3 DEF Same, Deleted
  <2>2. Replay(x, known, records)[t] = Deleted
    BY <1>3, <2>1, DeletionAgain
  <2> QED
    BY <1>3, <2>2, SameIsSame
<1> QED
  BY <1>1, <1>2, <1>3

-----------------------------------------------------------------------------
(* One more record.                                                        *)

IsDoubtful(records, open, t) ==
  IF Telling(records, t) = {} THEN t \in open ELSE records[Max(Telling(records, t))].torn

LEMMA TellingIs ==
  ASSUME NEW records \in Seq(Records), NEW t
  PROVE  /\ Telling(records, t) = {i \in DOMAIN records : records[i].trans = t
                                                /\ records[i].flag \in {"C", "D"}}
         /\ Telling(records, t) \in SUBSET (0..Len(records))
         /\ \A i \in Telling(records, t) : i \in 1..Len(records) /\ records[i] \in Records
BY DEF Telling, Tells

\* What an untold record leaves alone.
Untouched(more, records, t) ==
  /\ Telling(more, t) = Telling(records, t)
  /\ \A i \in Telling(records, t) : more[i] = records[i]
  /\ \A open : IsDoubtful(more, open, t) <=> IsDoubtful(records, open, t)
Told(more, records, r, t) ==
  /\ Telling(more, t) = Telling(records, t) \cup {Len(records) + 1}
  /\ more[Len(records) + 1] = r
  /\ \A i \in Telling(records, t) : more[i] = records[i] /\ i < Len(records) + 1
  /\ \A open : IsDoubtful(more, open, t) <=> r.torn

LEMMA OneMore ==
  ASSUME NEW records \in Seq(Records), NEW r \in Records, NEW t
  PROVE  /\ Append(records, r) \in Seq(Records)
         /\ ~Tells(r, t) => Untouched(Append(records, r), records, t)
         /\ Tells(r, t) => Told(Append(records, r), records, r, t)
<1> DEFINE more == Append(records, r)
           N == Len(records)
           T == Telling(records, t)
<1>1. /\ more \in Seq(Records) /\ N \in Nat /\ Len(more) = N + 1 /\ more[N + 1] = r
      /\ \A i \in 1..N : more[i] = records[i] /\ i < N + 1
      /\ 1..(N + 1) = (1..N) \cup {N + 1}
  OBVIOUS
<1>2. \A i \in T : i \in 1..N
  BY DEF Telling
<1> HIDE DEF more
<1>3. CASE ~Tells(r, t)
  <2>1. Telling(more, t) = T
    BY <1>1, <1>3 DEF Telling
  <2>2. T # {} => Max(T) \in T
    <3>1. T \in SUBSET (0..N)
      BY <1>2
    <3> HIDE DEF T, N
    <3> QED
      BY <1>1, <3>1, MaxIsGreatest
  <2>3. \A i \in T : more[i] = records[i]
    BY <1>1, <1>2
  <2>4. ASSUME NEW open  PROVE IsDoubtful(more, open, t) <=> IsDoubtful(records, open, t)
    <3>1. IsDoubtful(more, open, t) = IsDoubtful(records, open, t)
      <4> HIDE DEF T
      <4> QED
        BY <2>1, <2>2, <2>3 DEF IsDoubtful, T
    <3> QED
      BY <3>1
  <2> QED
    BY <1>1, <1>3, <2>1, <2>3, <2>4 DEF Untouched, more
<1>4. CASE Tells(r, t)
  <2> DEFINE U == T \cup {N + 1}
  <2>1. Telling(more, t) = U
    BY <1>1, <1>4 DEF Telling
  <2>2. Max(U) = N + 1
    <3>1. U \in SUBSET (0..(N + 1)) /\ U # {} /\ N + 1 \in U /\ \A i \in U : i <= N + 1
      BY <1>1, <1>2
    <3> HIDE DEF U, N
    <3>2. N + 1 \in Nat
      BY <1>1
    <3>3. Max(U) \in U /\ \A i \in U : i <= Max(U)
      BY <3>1, <3>2, MaxIsGreatest
    <3>4. Max(U) <= N + 1 /\ N + 1 <= Max(U) /\ Max(U) \in 0..(N + 1)
      BY <3>1, <3>3
    <3> QED
      BY <3>2, <3>4
  <2>3. \A open : IsDoubtful(more, open, t) <=> r.torn
    <3>1. U # {}
      OBVIOUS
    <3> HIDE DEF U
    <3> QED
      BY <1>1, <2>1, <2>2, <3>1 DEF IsDoubtful
  <2>4. \A i \in T : more[i] = records[i] /\ i < N + 1
    BY <1>1, <1>2
  <2> QED
    BY <1>1, <1>4, <2>1, <2>3, <2>4 DEF Told, more
<1> QED
  BY <1>3, <1>4

-----------------------------------------------------------------------------
(* The inductive invariant.                                                *)

\* What a replay of the log, on the book as it was saved, would give.
Redone == Replay(file.book, file.accounts, log)

Types ==
  /\ ledger \in Books /\ before \in Books
  /\ copy \in [Transactions -> Entries \cup {NotOpen}]
  /\ KnownHomes(accounts) /\ KnownHomes(file.accounts)
  /\ file.book \in Books
  /\ log \in Seq(Records)
  /\ phase \in {"running", "crashed", "recovered"}

\* A deletion is final.
Settled(t) ==
  /\ DeletedLast(log, t)
  /\ ToldDeleted(log, t) =>
       /\ Redone[t] = Deleted
       /\ phase # "crashed" => ledger[t] = Deleted /\ ~IsOpen(t)
  /\ IsOpen(t) => /\ copy[t].is # "deleted" /\ ledger[t].is # "deleted"
                  /\ copy[t].is = "live" => ledger[t].is = "live"

\* The log keeps up with what is committed.
Logged(t) ==
  phase # "crashed" =>
    /\ Committed[t].is = "live" => Redone[t].is = "live"
    /\ ~IsDoubtful(log, file.open, t) => Covers(Redone[t], Committed[t])
    /\ Telling(log, t) # {} => Even(Committed[t].splits)

\* After a crash, it still holds what was committed then.
Survives(t) ==
  phase # "running" /\ ~IsDoubtful(log, file.open, t) =>
    /\ Covers(Redone[t], before[t])
    /\ Telling(log, t) # {} => Even(before[t].splits)

\* Any number of replays gives what one gives, up to the balance split.
Restored(t) ==
  phase = "recovered" =>
    /\ accounts = file.accounts /\ ~IsOpen(t)
    /\ Same(ledger[t], Redone[t])
    /\ Telling(log, t) = {} => ledger[t] = Redone[t]
    /\ Telling(log, t) # {} => Tidy(ledger[t].splits)

Recoverable(t) == Settled(t) /\ Logged(t) /\ Survives(t) /\ Restored(t)
LogInv == Types /\ \A t \in Transactions : Recoverable(t)

-----------------------------------------------------------------------------
(* Transactions that a step does not touch.                                *)

Kept(t) ==
  /\ ledger'[t] = ledger[t] /\ copy'[t] = copy[t]
  /\ file' = file /\ Redone'[t] = Redone[t] /\ Untouched(log', log, t)

LEMMA KeptIsSettled ==
  ASSUME NEW t \in Transactions, Settled(t), Kept(t), phase # "crashed" \/ phase' = "crashed"
  PROVE  Settled(t)'
<1>1. DeletedLast(log', t) /\ (ToldDeleted(log', t) <=> ToldDeleted(log, t))
  BY DEF Settled, DeletedLast, ToldDeleted, Kept, Untouched
<1>2. IsOpen(t)' <=> IsOpen(t)
  BY DEF IsOpen, Kept
<1> QED
  BY <1>1, <1>2 DEF Settled, Kept

LEMMA KeptIsCommitted ==
  ASSUME NEW t \in Transactions, Kept(t)
  PROVE  Committed'[t] = Committed[t] /\ (IsOpen(t)' <=> IsOpen(t))
BY DEF Kept, Committed, IsOpen

LEMMA KeptWhileRunning ==
  ASSUME NEW t \in Transactions, Recoverable(t), Kept(t),
         phase # "crashed", phase' = "running"
  PROVE  Recoverable(t)'
<1>1. Settled(t)'
  BY KeptIsSettled DEF Recoverable
<1>2. Logged(t)'
  <2>1. /\ Telling(log', t) = Telling(log, t)
        /\ IsDoubtful(log', file'.open, t) <=> IsDoubtful(log, file.open, t)
        /\ Redone'[t] = Redone[t] /\ Committed'[t] = Committed[t]
    BY KeptIsCommitted DEF Kept, Untouched
  <2>2. Covers(Redone[t], Committed[t]) => Covers(Redone[t], Committed[t])'
    BY <2>1 DEF Covers, Kept
  <2> QED
    BY <2>1, <2>2 DEF Recoverable, Logged
<1> QED
  BY <1>1, <1>2 DEF Recoverable, Survives, Restored

LEMMA KeptByCrash ==
  ASSUME NEW t \in Transactions, Recoverable(t), Kept(t),
         phase = "running", phase' = "crashed", before' = Committed
  PROVE  Recoverable(t)'
<1>1. Settled(t)'
  BY KeptIsSettled DEF Recoverable
<1>2. Survives(t)'
  <2>1. /\ Telling(log', t) = Telling(log, t)
        /\ IsDoubtful(log', file'.open, t) <=> IsDoubtful(log, file.open, t)
        /\ Redone'[t] = Redone[t] /\ before'[t] = Committed[t]
    BY DEF Kept, Untouched
  <2>2. Covers(Redone[t], Committed[t]) => Covers(Redone[t], before[t])'
    BY <2>1 DEF Covers, Kept
  <2>3. Logged(t)
    BY DEF Recoverable
  <2> QED
    BY <2>1, <2>2, <2>3 DEF Survives, Logged
<1> QED
  BY <1>1, <1>2 DEF Recoverable, Logged, Restored

LEMMA RedoMore ==
  ASSUME NEW b \in Books, NEW known, KnownHomes(known), NEW records \in Seq(Records),
         NEW r \in Records
  PROVE  Replay(b, known, Append(records, r)) =
           [t \in Transactions |-> Step(Replay(b, known, records)[t], t, r, known)]
<1> DEFINE c == Replay(b, known, records)
<1>1. c \in Books
  BY ReplayedBooks
<1>2. Replay(b, known, Append(records, r)) = ReplayRecord(c, known, r)
  BY ReplayAppend
<1> HIDE DEF c
<1>3. ReplayRecord(c, known, r) = [t \in Transactions |-> Step(c[t], t, r, known)]
  BY <1>1, ReplayRecordIs
<1> QED
  BY <1>2, <1>3 DEF c

LEMMA OneRecord ==
  ASSUME NEW records \in Seq(Records), NEW r \in Records
  PROVE  records \o <<r>> = Append(records, r)
OBVIOUS

LEMMA TwoRecords ==
  ASSUME NEW records \in Seq(Records), NEW r \in Records, NEW q \in Records
  PROVE  records \o <<r, q>> = Append(Append(records, r), q)
OBVIOUS

\* A step that adds one record keeps every transaction it does not tell of.
LEMMA AddRecord ==
  ASSUME Types, NEW r \in Records, log' = log \o <<r>>, file' = file
  PROVE  /\ log' \in Seq(Records)
         /\ \A t \in Transactions :
              /\ ~Tells(r, t) => /\ Untouched(log', log, t) /\ Redone'[t] = Redone[t]
              /\ Tells(r, t) => /\ Told(log', log, r, t)
                                /\ Redone'[t] = Step(Redone[t], t, r, file.accounts)
<1>1. log' = Append(log, r)
  BY OneRecord DEF Types
<1>2. Redone' = [t \in Transactions |-> Step(Redone[t], t, r, file.accounts)]
  <2>1. Redone' = Replay(file'.book, file'.accounts, log')
    BY DEF Redone
  <2>2. Redone' = Replay(file.book, file.accounts, Append(log, r))
    BY <1>1, <2>1
  <2>3. file.book \in Books /\ KnownHomes(file.accounts) /\ log \in Seq(Records)
    BY DEF Types
  <2> QED
    BY ONLY <2>2, <2>3, r \in Records, RedoMore DEF Redone
<1>3. \A t \in Transactions : ~Tells(r, t) => Step(Redone[t], t, r, file.accounts) = Redone[t]
  BY DEF Step
<1>4. log \in Seq(Records)
  BY DEF Types
<1> HIDE DEF Redone
<1> QED
  BY <1>1, <1>2, <1>3, <1>4, OneMore

-----------------------------------------------------------------------------
(* Types.                                                                  *)

LEMMA NoneInBooks == None \in Books
BY EmptyEntries DEF None, Books

LEMMA ContentsFacts ==
  ASSUME NEW c \in Contents
  PROVE  c \in Splits
<1>1. /\ DOMAIN c \in SUBSET Nat /\ IsFiniteSet(DOMAIN c) /\ Imbalance \notin DOMAIN c
      /\ c \in [DOMAIN c -> [acc : Saved \cup Opened, memo : STRING, amt : Int]]
  BY TransLogAssumption
<1>2. c \in [DOMAIN c -> Line]
  <2>1. \A s \in DOMAIN c : c[s] \in [acc : Saved \cup Opened, memo : STRING, amt : Int]
    BY <1>1
  <2>2. \A s \in DOMAIN c : c[s] \in Line
    BY <2>1 DEF Line, Homes
  <2> QED
    BY <1>1, <2>2
<1> DEFINE S == DOMAIN c
<1> HIDE DEF S
<1>3. S \in SUBSET Nat /\ IsFiniteSet(S) /\ c \in [S -> Line] /\ Imbalance \notin S
  BY <1>1, <1>2 DEF S
<1> QED
  BY <1>3, MakeSplits

LEMMA MakeRecord ==
  ASSUME NEW flag \in {"B", "C", "R", "D"}, NEW t \in Transactions, NEW c \in Splits
  PROVE  /\ Record(flag, t, c) \in Records
         /\ Record(flag, t, c).flag = flag /\ Record(flag, t, c).trans = t
         /\ Record(flag, t, c).splits = c /\ ~Record(flag, t, c).torn
BY DEF Record, Records

LEMMA TypeFacts ==
  ASSUME Types, NEW t \in Transactions
  PROVE  /\ ledger[t] \in Entries /\ ledger[t].splits \in Splits
         /\ copy[t] \in Entries \cup {NotOpen} /\ copy[t].splits \in Splits
         /\ IsOpen(t) => copy[t] \in Entries
         /\ ~IsOpen(t) => copy[t] = NotOpen /\ copy[t].splits = NoSplits
         /\ Committed[t] = (IF IsOpen(t) THEN copy[t] ELSE ledger[t])
         /\ Committed[t] \in Entries
         /\ Redone[t] \in Entries
<1>1. ledger[t] \in Entries /\ copy[t] \in Entries \cup {NotOpen}
  BY DEF Types, Books
<1>2. NotOpen.splits = NoSplits /\ NoSplits \in Splits
  BY EmptyEntries DEF NotOpen
<1>3. Redone[t] \in Entries
  <2>1. Redone \in Books
    BY ReplayedBooks DEF Types, Redone
  <2> QED
    BY <2>1 DEF Books
<1>4. Committed[t] = IF IsOpen(t) THEN copy[t] ELSE ledger[t]
  BY DEF Committed
<1> QED
  BY <1>1, <1>2, <1>3, <1>4, EntryFacts DEF IsOpen

LEMMA CommittedTyped ==
  ASSUME Types
  PROVE  Committed \in Books
<1>1. \A t \in Transactions : Committed[t] \in Entries
  BY TypeFacts
<1>2. Committed = [t \in Transactions |-> Committed[t]]
  BY DEF Committed
<1> HIDE DEF Committed
<1> QED
  BY <1>1, <1>2 DEF Books

\* The steps of one edit keep every type.
LEMMA TypesKept ==
  ASSUME Types, Running, ledger' \in Books,
         copy' \in [Transactions -> Entries \cup {NotOpen}],
         file' = file, log' \in Seq(Records), KnownHomes(accounts')
  PROVE  Types'
BY NoneInBooks DEF Types, Running

\* Where what is committed does not change, it stays recoverable.
LEMMA SameCommitted ==
  ASSUME NEW t \in Transactions, Recoverable(t), Settled(t)',
         file' = file, Redone'[t] = Redone[t], Untouched(log', log, t),
         Committed'[t] = Committed[t], phase # "crashed", phase' = "running"
  PROVE  Recoverable(t)'
<1>1. /\ Telling(log', t) = Telling(log, t)
      /\ IsDoubtful(log', file'.open, t) <=> IsDoubtful(log, file.open, t)
  BY DEF Untouched
<1>2. Covers(Redone[t], Committed[t]) => Covers(Redone[t], Committed[t])'
  BY DEF Covers
<1>3. Logged(t)'
  BY <1>1, <1>2 DEF Recoverable, Logged
<1> QED
  BY <1>3 DEF Recoverable, Survives, Restored

LEMMA LogUntouched ==
  ASSUME NEW t
  PROVE  Untouched(log, log, t)
BY DEF Untouched

-----------------------------------------------------------------------------
(* The steps of an edit.                                                   *)

LEMMA BeginKeeps ==
  ASSUME LogInv, NEW t \in Transactions, BeginEdit(t)
  PROVE  LogInv'
<1> DEFINE r == Record("B", t, ledger[t].splits)
<1>1. Types /\ \A u \in Transactions : Recoverable(u)
  BY DEF LogInv
<1>2. r \in Records /\ \A u : ~Tells(r, u)
  <2>1. ledger[t].splits \in Splits
    BY <1>1, TypeFacts
  <2>2. r \in Records /\ r.flag = "B"
    BY <2>1, MakeRecord
  <2> HIDE DEF r
  <2> QED
    BY <2>2 DEF Tells
<1> HIDE DEF r
<1>3. /\ Running /\ ~IsOpen(t) /\ ledger[t] # Deleted /\ log' = log \o <<r>>
      /\ copy' = [copy EXCEPT ![t] = ledger[t]] /\ ledger' = ledger
      /\ accounts' = accounts /\ file' = file
  BY DEF BeginEdit, Logs, r
<1>4. /\ log' \in Seq(Records)
      /\ \A u \in Transactions : Untouched(log', log, u) /\ Redone'[u] = Redone[u]
  BY <1>1, <1>2, <1>3, AddRecord
<1>5. ledger[t] \in Entries /\ copy \in [Transactions -> Entries \cup {NotOpen}]
  BY <1>1, TypeFacts DEF Types
<1>6. copy'[t] = ledger[t] /\ \A u \in Transactions : u # t => copy'[u] = copy[u]
  BY <1>3, <1>5
<1>7. Types'
  <2>1. copy' \in [Transactions -> Entries \cup {NotOpen}]
    BY <1>3, <1>5
  <2> QED
    BY <1>1, <1>3, <1>4, <2>1, TypesKept DEF Types
<1>8. ASSUME NEW u \in Transactions, u # t  PROVE Recoverable(u)'
  <2>1. Kept(u)
    BY <1>3, <1>4, <1>6, <1>8 DEF Kept
  <2> QED
    BY <1>1, <1>3, <2>1, KeptWhileRunning DEF Running
<1>9. Recoverable(t)'
  <2>1. ledger[t].is # "deleted"
    BY <1>3, <1>5, EntryFacts
  <2>2. Settled(t) /\ phase # "crashed"
    BY <1>1, <1>3 DEF Recoverable, Running
  <2>3. ~ToldDeleted(log, t)
    BY <1>3, <2>2 DEF Settled
  <2>4. DeletedLast(log', t) /\ ~ToldDeleted(log', t)
    BY <1>4, <2>2, <2>3 DEF Settled, DeletedLast, ToldDeleted, Untouched
  <2>5. Settled(t)'
    BY <1>3, <1>6, <2>1, <2>4 DEF Settled
  <2>6. Committed'[t] = Committed[t]
    BY <1>3, <1>6 DEF Committed
  <2> QED
    BY <1>1, <1>3, <1>4, <2>2, <2>5, <2>6, SameCommitted DEF Running
<1> QED
  BY <1>7, <1>8, <1>9 DEF LogInv

LEMMA EditKeeps ==
  ASSUME LogInv, NEW t \in Transactions, NEW c \in Contents, Edit(t, c)
  PROVE  LogInv'
<1>1. Types /\ \A u \in Transactions : Recoverable(u)
  BY DEF LogInv
<1>2. c \in Splits /\ Live(c) \in Entries /\ Live(c).is = "live"
  BY ContentsFacts, LiveEntry
<1>3. /\ Running /\ IsOpen(t) /\ ledger' = [ledger EXCEPT ![t] = Live(c)]
      /\ copy' = copy /\ accounts' = accounts /\ file' = file /\ log' = log
  BY DEF Edit
<1>4. /\ ledger \in [Transactions -> Entries]
      /\ ledger'[t] = Live(c) /\ \A u \in Transactions : u # t => ledger'[u] = ledger[u]
  BY <1>1, <1>3 DEF Types, Books
<1>5. Types'
  <2>1. ledger' \in Books
    BY <1>2, <1>3, <1>4 DEF Books
  <2> QED
    BY <1>1, <1>3, <2>1, TypesKept DEF Types
<1>6. \A u \in Transactions : Untouched(log', log, u) /\ Redone'[u] = Redone[u]
  BY <1>3, LogUntouched DEF Redone
<1>7. ASSUME NEW u \in Transactions, u # t  PROVE Recoverable(u)'
  <2>1. Kept(u)
    BY <1>3, <1>4, <1>6, <1>7 DEF Kept
  <2> QED
    BY <1>1, <1>3, <2>1, KeptWhileRunning DEF Running
<1>8. Recoverable(t)'
  <2>1. Settled(t) /\ phase # "crashed"
    BY <1>1, <1>3 DEF Recoverable, Running
  <2>2. IsOpen(t)'
    BY <1>3 DEF IsOpen
  <2>3. Settled(t)'
    BY <1>2, <1>3, <1>4, <2>1, <2>2 DEF Settled
  <2>4. Committed'[t] = Committed[t]
    BY <1>3, <2>2 DEF Committed, IsOpen
  <2> QED
    BY <1>1, <1>3, <1>6, <2>1, <2>3, <2>4, SameCommitted DEF Running
<1> QED
  BY <1>5, <1>7, <1>8 DEF LogInv

LEMMA RollbackKeeps ==
  ASSUME LogInv, NEW t \in Transactions, RollbackEdit(t)
  PROVE  LogInv'
<1> DEFINE r == Record("R", t, copy[t].splits)
<1>1. Types /\ \A u \in Transactions : Recoverable(u)
  BY DEF LogInv
<1>2. r \in Records /\ \A u : ~Tells(r, u)
  <2>1. copy[t].splits \in Splits
    BY <1>1, TypeFacts
  <2>2. r \in Records /\ r.flag = "R"
    BY <2>1, MakeRecord
  <2> HIDE DEF r
  <2> QED
    BY <2>2 DEF Tells
<1> HIDE DEF r
<1>3. /\ Running /\ IsOpen(t) /\ log' = log \o <<r>>
      /\ ledger' = [ledger EXCEPT ![t] = copy[t]]
      /\ copy' = [copy EXCEPT ![t] = NotOpen]
      /\ accounts' = accounts /\ file' = file
  BY DEF RollbackEdit, Logs, r
<1>4. /\ log' \in Seq(Records)
      /\ \A u \in Transactions : Untouched(log', log, u) /\ Redone'[u] = Redone[u]
  BY <1>1, <1>2, <1>3, AddRecord
<1>5. /\ copy[t] \in Entries /\ copy \in [Transactions -> Entries \cup {NotOpen}]
      /\ ledger \in [Transactions -> Entries]
  BY <1>1, <1>3, TypeFacts DEF Types, Books
<1>6. /\ copy'[t] = NotOpen /\ ledger'[t] = copy[t]
      /\ \A u \in Transactions : u # t => copy'[u] = copy[u] /\ ledger'[u] = ledger[u]
  BY <1>3, <1>5
<1>7. Types'
  <2>1. copy' \in [Transactions -> Entries \cup {NotOpen}] /\ ledger' \in Books
    BY <1>3, <1>5 DEF Books
  <2> QED
    BY <1>1, <1>3, <1>4, <2>1, TypesKept DEF Types
<1>8. ASSUME NEW u \in Transactions, u # t  PROVE Recoverable(u)'
  <2>1. Kept(u)
    BY <1>3, <1>4, <1>6, <1>8 DEF Kept
  <2> QED
    BY <1>1, <1>3, <2>1, KeptWhileRunning DEF Running
<1>9. Recoverable(t)'
  <2>1. Settled(t) /\ phase # "crashed"
    BY <1>1, <1>3 DEF Recoverable, Running
  <2>2. ~ToldDeleted(log, t)
    BY <1>3, <2>1 DEF Settled
  <2>3. DeletedLast(log', t) /\ ~ToldDeleted(log', t)
    BY <1>4, <2>1, <2>2 DEF Settled, DeletedLast, ToldDeleted, Untouched
  <2>4. ~IsOpen(t)'
    BY <1>6 DEF IsOpen
  <2>5. Settled(t)'
    BY <2>3, <2>4 DEF Settled
  <2>6. Committed'[t] = Committed[t]
    BY <1>3, <1>6 DEF Committed, IsOpen
  <2> QED
    BY <1>1, <1>3, <1>4, <2>1, <2>5, <2>6, SameCommitted DEF Running
<1> QED
  BY <1>7, <1>8, <1>9 DEF LogInv

LEMMA TidyIsEven ==
  ASSUME NEW c, Tidy(c)
  PROVE  Even(c)
BY DEF Tidy, Even

LEMMA ScrubbedIsEven ==
  ASSUME NEW c \in Splits
  PROVE  Scrubbed(c) \in Splits /\ Even(Scrubbed(c))
BY ScrubbedFacts DEF Even

\* After the replay of a commit, the transaction is there with every split.
LEMMA CommitCovers ==
  ASSUME KnownHomes(file.accounts), NEW e \in Entries, NEW t, NEW r \in Records,
         Tells(r, t), r.flag = "C"
  PROVE  Covers(Step(e, t, r, file.accounts), Live(r.splits))
<1> DEFINE d == r.splits
           old == e.splits
           k == file.accounts
           y == Committing(old, d, k)
           now == Step(e, t, r, k)
<1>1. old \in Splits /\ d \in Splits
  BY EntryFacts, RecordFacts
<1>2. now.is = "live" /\ now.splits = y
  BY StepIs
<1>3. DOMAIN d \subseteq DOMAIN y /\ Rewritten(y, old, d, k)
  BY <1>1, CommittingFacts
<1>4. Live(d).is = "live" /\ Live(d).splits = d
  BY DEF Live
<1> HIDE DEF d, old, y, now
<1> SUFFICES Covers(now, Live(d))
  BY DEF now, d
<1>5. \A s \in DOMAIN d \ {Imbalance} :
        /\ s \in DOMAIN y /\ y[s].amt = d[s].amt
        /\ d[s].acc \in file.accounts => y[s].acc = d[s].acc
        /\ d[s].memo # NoMemo => y[s].memo = d[s].memo
  BY <1>3 DEF Rewritten
<1> QED
  BY <1>2, <1>4, <1>5 DEF Covers

LEMMA CommitKeeps ==
  ASSUME LogInv, NEW t \in Transactions, CommitEdit(t)
  PROVE  LogInv'
<1> DEFINE c == Scrubbed(ledger[t].splits)
           r == Record("C", t, c)
<1>1. Types /\ \A u \in Transactions : Recoverable(u)
  BY DEF LogInv
<1>2. c \in Splits /\ Even(c)
  BY <1>1, TypeFacts, ScrubbedIsEven
<1>3. /\ Running /\ IsOpen(t) /\ ledger[t].is = "live"
      /\ ledger' = [ledger EXCEPT ![t].splits = c]
      /\ copy' = [copy EXCEPT ![t] = NotOpen]
      /\ log' = log \o <<Record("C", t, ledger'[t].splits)>>
      /\ accounts' = accounts /\ file' = file
  BY DEF CommitEdit, Logs
<1> HIDE DEF c
<1>4. /\ ledger[t] \in Entries /\ copy \in [Transactions -> Entries \cup {NotOpen}]
      /\ ledger \in [Transactions -> Entries] /\ KnownHomes(file.accounts)
      /\ Redone[t] \in Entries
  BY <1>1, TypeFacts DEF Types, Books
<1>5. /\ ledger'[t] = Live(c) /\ copy'[t] = NotOpen
      /\ ledger' = [ledger EXCEPT ![t] = Live(c)]
      /\ \A u \in Transactions : u # t => ledger'[u] = ledger[u] /\ copy'[u] = copy[u]
  <2>1. ledger[t] = Live(ledger[t].splits)
    BY <1>3, <1>4, EntryFacts
  <2>2. [ledger[t] EXCEPT !.splits = c] = Live(c)
    BY <2>1 DEF Live
  <2>3. ledger' = [ledger EXCEPT ![t] = Live(c)]
    BY <1>3, <2>2
  <2> QED
    BY <1>3, <1>4, <2>3
<1>6. Live(c) \in Entries /\ Live(c).is = "live" /\ Live(c).splits = c
  BY <1>2, LiveEntry
<1>7. /\ r \in Records /\ r.flag = "C" /\ r.splits = c /\ ~r.torn
      /\ \A u : Tells(r, u) <=> u = t
  <2>1. r \in Records /\ r.flag = "C" /\ r.splits = c /\ ~r.torn /\ r.trans = t
    BY <1>2, MakeRecord
  <2> HIDE DEF r
  <2> QED
    BY <2>1 DEF Tells
<1>8. log' = log \o <<r>>
  BY <1>3, <1>5, <1>6
<1> HIDE DEF r
<1>9. /\ log' \in Seq(Records)
      /\ \A u \in Transactions : u # t => Untouched(log', log, u) /\ Redone'[u] = Redone[u]
      /\ Told(log', log, r, t) /\ Redone'[t] = Step(Redone[t], t, r, file.accounts)
  BY <1>1, <1>3, <1>7, <1>8, AddRecord
<1>10. Types'
  <2>1. copy' \in [Transactions -> Entries \cup {NotOpen}] /\ ledger' \in Books
    BY <1>3, <1>4, <1>5, <1>6 DEF Books
  <2> QED
    BY <1>1, <1>3, <1>9, <2>1, TypesKept DEF Types
<1>11. ASSUME NEW u \in Transactions, u # t  PROVE Recoverable(u)'
  <2>1. Kept(u)
    BY <1>3, <1>5, <1>9, <1>11 DEF Kept
  <2> QED
    BY <1>1, <1>3, <2>1, KeptWhileRunning DEF Running
<1>12. Recoverable(t)'
  <2>1. Settled(t) /\ phase # "crashed" /\ phase' = "running"
    BY <1>1, <1>3 DEF Recoverable, Running
  <2>2. ~ToldDeleted(log, t)
    BY <1>3, <2>1 DEF Settled
  <2>3. DeletedLast(log', t) /\ ~ToldDeleted(log', t)
    <3>1. \A n \in Telling(log', t) : log'[n].flag # "D"
      BY <1>7, <1>9, <2>2 DEF ToldDeleted, Told
    <3> QED
      BY <3>1 DEF DeletedLast, ToldDeleted
  <2>4. ~IsOpen(t)'
    BY <1>5 DEF IsOpen
  <2>5. Settled(t)'
    BY <2>3, <2>4 DEF Settled
  <2>6. Committed'[t] = Live(c)
    BY <1>5, <2>4 DEF Committed, IsOpen
  <2>7. Logged(t)'
    <3>1. Redone'[t].is = "live"
      BY <1>4, <1>7, <1>9, StepIs, SMTT(40)
    <3>2. Covers(Redone'[t], Live(c))
      BY <1>4, <1>7, <1>9, CommitCovers
    <3>3. Covers(Redone[t], Committed[t])'
      BY <1>3, <2>6, <3>2 DEF Covers
    <3> QED
      BY <1>2, <1>6, <2>6, <3>1, <3>3 DEF Logged
  <2> QED
    BY <2>1, <2>5, <2>7 DEF Recoverable, Survives, Restored
<1> QED
  BY <1>10, <1>11, <1>12 DEF LogInv

LEMMA DeletedLines == Deleted.is = "deleted" /\ Deleted.splits = NoSplits /\ DOMAIN NoSplits = {}
BY EmptyEntries DEF Deleted

LEMMA DeleteKeeps ==
  ASSUME LogInv, NEW t \in Transactions, DeleteTrans(t)
  PROVE  LogInv'
<1> DEFINE r == Record("B", t, ledger[t].splits)
           q == Record("D", t, ledger[t].splits)
           mid == Append(log, r)
<1>1. Types /\ \A u \in Transactions : Recoverable(u)
  BY DEF LogInv
<1>2. /\ Running /\ ~IsOpen(t) /\ ledger[t].is = "live"
      /\ ledger' = [ledger EXCEPT ![t] = Deleted] /\ log' = log \o <<r, q>>
      /\ copy' = copy /\ accounts' = accounts /\ file' = file
  BY DEF DeleteTrans, Logs
<1>3. /\ r \in Records /\ q \in Records /\ q.flag = "D" /\ ~q.torn
      /\ \A u : ~Tells(r, u) /\ (Tells(q, u) <=> u = t)
  <2>1. ledger[t].splits \in Splits
    BY <1>1, TypeFacts
  <2>2. /\ r \in Records /\ r.flag = "B"
        /\ q \in Records /\ q.flag = "D" /\ q.trans = t /\ ~q.torn
    BY <2>1, MakeRecord
  <2> HIDE DEF r, q
  <2> QED
    BY <2>2 DEF Tells
<1> HIDE DEF r, q
<1>4. /\ log \in Seq(Records) /\ file.book \in Books /\ KnownHomes(file.accounts)
      /\ ledger \in [Transactions -> Entries] /\ ledger[t] \in Entries
      /\ Redone[t] \in Entries
  BY <1>1, TypeFacts DEF Types, Books
<1>5. mid \in Seq(Records) /\ \A u : Untouched(mid, log, u)
  BY <1>3, <1>4, OneMore
<1>6. log' = Append(mid, q)
  BY <1>2, <1>3, <1>4, TwoRecords
<1> DEFINE known == file.accounts
           between == Replay(file.book, known, mid)
<1>7. between = [u \in Transactions |-> Step(Redone[u], u, r, known)]
  BY <1>3, <1>4, RedoMore DEF Redone
<1> HIDE DEF mid
<1>8. Replay(file.book, known, log') = [u \in Transactions |-> Step(between[u], u, q, known)]
  BY <1>3, <1>4, <1>5, <1>6, RedoMore
<1>9. Redone' = Replay(file.book, known, log')
  <2>1. Redone' = Replay(file'.book, file'.accounts, log')
    BY DEF Redone
  <2> QED
    BY <1>2, <2>1
<1>10. \A u \in Transactions : Redone'[u] = Step(Redone[u], u, q, known)
  <2>1. \A u \in Transactions : between[u] = Redone[u]
    <3> HIDE DEF between
    <3> QED
      BY <1>3, <1>7 DEF Step
  <2> HIDE DEF between, known
  <2> QED
    BY <1>8, <1>9, <2>1
<1> HIDE DEF between, known
<1>11. /\ log' \in Seq(Records)
       /\ \A u : u # t => Untouched(log', mid, u)
       /\ Told(log', mid, q, t)
  BY <1>3, <1>5, <1>6, OneMore
<1>12. /\ \A u \in Transactions : u # t => Untouched(log', log, u) /\ Redone'[u] = Redone[u]
  <2>1. ASSUME NEW u \in Transactions, u # t
        PROVE  Untouched(log', log, u) /\ Redone'[u] = Redone[u]
    <3>1. Redone'[u] = Redone[u]
      BY <1>3, <1>10, <2>1 DEF Step
    <3>2. Untouched(log', log, u)
      BY <1>5, <1>11, <2>1 DEF Untouched
    <3> QED
      BY <3>1, <3>2
  <2> QED
    BY <2>1
<1>13. /\ ledger'[t] = Deleted
       /\ \A u \in Transactions : u # t => ledger'[u] = ledger[u]
  BY <1>2, <1>4
<1>14. Types'
  <2>1. ledger' \in Books
    BY <1>2, <1>4, EmptyEntries DEF Books
  <2>2. copy' \in [Transactions -> Entries \cup {NotOpen}]
    BY <1>1, <1>2 DEF Types
  <2> QED
    BY <1>1, <1>2, <1>11, <2>1, <2>2, TypesKept DEF Types
<1>15. ASSUME NEW u \in Transactions, u # t  PROVE Recoverable(u)'
  <2>1. Kept(u)
    BY <1>2, <1>12, <1>13, <1>15 DEF Kept
  <2> QED
    BY <1>1, <1>2, <2>1, KeptWhileRunning DEF Running
<1>16. Recoverable(t)'
  <2>1. Settled(t) /\ Logged(t) /\ phase # "crashed" /\ phase' = "running"
    BY <1>1, <1>2 DEF Recoverable, Running
  <2>2. ~ToldDeleted(log, t)
    BY <1>2, <2>1, DeletedLines DEF Settled
  <2>3. Redone'[t] = Deleted
    <3>1. Committed[t] = ledger[t]
      BY <1>1, <1>2, TypeFacts
    <3>2. Redone[t].is = "live"
      BY <1>2, <2>1, <3>1 DEF Logged
    <3> QED
      BY <1>3, <1>10, <3>2 DEF Step
  <2>4. ~IsOpen(t)'
    BY <1>2 DEF IsOpen
  <2>5. DeletedLast(log', t)
    <3>1. \A n \in Telling(log, t) : log[n].flag # "D"
      BY <2>2 DEF ToldDeleted
    <3>2. /\ Telling(log', t) = Telling(log, t) \cup {Len(mid) + 1}
          /\ \A n \in Telling(log, t) : log'[n] = log[n] /\ n < Len(mid) + 1
      BY <1>5, <1>11 DEF Told, Untouched
    <3>3. Len(mid) + 1 \in Int /\ \A n \in Telling(log, t) : n \in Int
      BY <1>4, <1>5 DEF Telling
    <3> QED
      BY <3>1, <3>2, <3>3 DEF DeletedLast
  <2>6. Settled(t)'
    BY <1>13, <2>3, <2>4, <2>5 DEF Settled
  <2>7. Committed'[t] = Deleted
    BY <1>13, <2>4 DEF Committed, IsOpen
  <2>8. Logged(t)'
    <3>1. Covers(Redone[t], Committed[t])'
      BY <2>3, <2>7, DeletedLines DEF Covers
    <3>2. Even(Committed'[t].splits)
      BY <2>7, DeletedLines, NoSplitsTidy
    <3> QED
      BY <2>3, <2>7, <3>1, <3>2 DEF Logged
  <2> QED
    BY <2>1, <2>6, <2>8 DEF Recoverable, Survives, Restored
<1> QED
  BY <1>14, <1>15, <1>16 DEF LogInv

LEMMA OpenAccountKeeps ==
  ASSUME LogInv, NEW a \in Opened, OpenAccount(a)
  PROVE  LogInv'
<1>1. Types /\ \A u \in Transactions : Recoverable(u)
  BY DEF LogInv
<1>2. /\ Running /\ ledger' = ledger /\ copy' = copy /\ file' = file /\ log' = log
      /\ accounts' = accounts \cup {a}
  BY DEF OpenAccount
<1>3. KnownHomes(accounts')
  BY <1>1, <1>2 DEF Types, KnownHomes, Homes
<1>4. Types'
  BY <1>1, <1>2, <1>3, TypesKept DEF Types
<1>5. ASSUME NEW u \in Transactions  PROVE Recoverable(u)'
  <2>1. Redone' = Redone
    BY <1>2 DEF Redone
  <2>2. Kept(u)
    BY <1>2, <2>1, LogUntouched DEF Kept
  <2> QED
    BY <1>1, <1>2, <2>2, KeptWhileRunning DEF Running
<1> QED
  BY <1>4, <1>5 DEF LogInv

LEMMA NothingToReplay ==
  ASSUME NEW b, NEW known, NEW t
  PROVE  /\ Replay(b, known, <<>>) = b /\ <<>> \in Seq(Records)
         /\ Telling(<<>>, t) = {}
         /\ DeletedLast(<<>>, t) /\ ~ToldDeleted(<<>>, t)
         /\ \A open : IsDoubtful(<<>>, open, t) <=> t \in open
<1>1. Telling(<<>>, t) = {}
  BY DEF Telling
<1> QED
  BY <1>1, ReplayEmpty DEF DeletedLast, ToldDeleted, IsDoubtful

\* A save holds what is committed, and the open edits on top of it.
SavedEntry(t) ==
  IF ledger[t].is = "live" THEN Live(Over(ledger[t].splits, copy[t].splits)) ELSE ledger[t]

LEMMA SavedEntryFacts ==
  ASSUME Types, NEW t \in Transactions, Settled(t)
  PROVE  /\ SavedEntry(t) \in Entries
         /\ Committed[t].is = "live" => SavedEntry(t).is = "live"
         /\ ~IsOpen(t) =>
              /\ SavedEntry(t).is = ledger[t].is
              /\ DOMAIN SavedEntry(t).splits = DOMAIN ledger[t].splits
              /\ \A s \in DOMAIN ledger[t].splits :
                   SavedEntry(t).splits[s] = ledger[t].splits[s]
<1> DEFINE c == ledger[t].splits
           d == copy[t].splits
           m == Over(c, d)
<1>1. /\ ledger[t] \in Entries /\ c \in Splits /\ d \in Splits
      /\ ~IsOpen(t) => d = NoSplits
      /\ Committed[t] = (IF IsOpen(t) THEN copy[t] ELSE ledger[t])
  BY TypeFacts
<1>2. /\ m \in Splits /\ DOMAIN m = DOMAIN c \cup DOMAIN d
      /\ \A s \in DOMAIN c : m[s] = c[s]
  <2> HIDE DEF c, d
  <2> QED
    BY <1>1, OverFacts
<1>3. SavedEntry(t) = IF ledger[t].is = "live" THEN Live(m) ELSE ledger[t]
  BY DEF SavedEntry
<1> HIDE DEF m
<1>4. Live(m) \in Entries /\ Live(m).is = "live" /\ Live(m).splits = m
  BY <1>2, LiveEntry
<1>5. Committed[t].is = "live" => ledger[t].is = "live"
  BY <1>1 DEF Settled
<1>6. ~IsOpen(t) => DOMAIN m = DOMAIN c
  BY <1>1, <1>2, EmptyEntries
<1> QED
  BY <1>1, <1>2, <1>3, <1>4, <1>5, <1>6

LEMMA SaveKeeps ==
  ASSUME LogInv, Save
  PROVE  LogInv'
<1>1. Types /\ \A u \in Transactions : Recoverable(u) /\ Settled(u)
  BY DEF LogInv, Recoverable
<1>2. /\ Running /\ log' = <<>> /\ ledger' = ledger /\ copy' = copy /\ accounts' = accounts
      /\ file'.book = [t \in Transactions |-> SavedEntry(t)]
      /\ file'.accounts = accounts /\ file'.open = {t \in Transactions : IsOpen(t)}
  BY DEF Save, SavedEntry
<1>3. Types'
  <2>1. file'.book \in Books
    BY <1>1, <1>2, SavedEntryFacts DEF Books
  <2>2. <<>> \in Seq(Records)
    OBVIOUS
  <2>3. before' \in Books /\ phase' = "running"
    BY <1>2, NoneInBooks DEF Running
  <2> QED
    BY <1>1, <1>2, <2>1, <2>2, <2>3 DEF Types
<1>4. ASSUME NEW t \in Transactions  PROVE Recoverable(t)'
  <2>1. phase # "crashed" /\ phase' = "running"
    BY <1>2 DEF Running
  <2>2. Redone'[t] = SavedEntry(t)
    <3>1. Redone' = Replay(file'.book, file'.accounts, log')
      BY DEF Redone
    <3>2. Redone' = file'.book
      BY <1>2, <3>1, NothingToReplay
    <3> QED
      BY <1>2, <3>2
  <2>3. /\ Telling(log', t) = {} /\ DeletedLast(log', t) /\ ~ToldDeleted(log', t)
        /\ IsDoubtful(log', file'.open, t) <=> IsOpen(t)
    BY <1>2, NothingToReplay
  <2>4. IsOpen(t)' <=> IsOpen(t)
    BY <1>2 DEF IsOpen
  <2>5. Committed'[t] = Committed[t]
    BY <1>2, <2>4 DEF Committed, IsOpen
  <2>6. Settled(t)'
    BY <1>1, <1>2, <2>3, <2>4 DEF Settled
  <2>7. ~IsOpen(t) => Covers(Redone[t], Committed[t])'
    <3>1. ASSUME ~IsOpen(t)  PROVE Committed[t] = ledger[t]
      BY <1>1, <3>1, TypeFacts
    <3>2. ASSUME ~IsOpen(t)
          PROVE  /\ Redone'[t].is = Committed'[t].is
                 /\ \A s \in DOMAIN Committed'[t].splits :
                      /\ s \in DOMAIN Redone'[t].splits
                      /\ Redone'[t].splits[s] = Committed'[t].splits[s]
      BY <1>1, <2>2, <2>5, <3>1, <3>2, SavedEntryFacts
    <3> QED
      BY <3>2 DEF Covers
  <2>8. Logged(t)'
    BY <1>1, <2>2, <2>3, <2>5, <2>7, SavedEntryFacts DEF Logged
  <2> QED
    BY <2>1, <2>6, <2>8 DEF Recoverable, Survives, Restored
<1> QED
  BY <1>3, <1>4 DEF LogInv

-----------------------------------------------------------------------------
(* Crashes and replays.                                                    *)

LEMMA CrashKeeps ==
  ASSUME LogInv, Crash
  PROVE  LogInv'
<1>1. Types /\ \A u \in Transactions : Recoverable(u)
  BY DEF LogInv
<1>2. /\ phase = "running" /\ phase' = "crashed" /\ before' = Committed
      /\ ledger' = ledger /\ copy' = copy /\ accounts' = accounts /\ file' = file /\ log' = log
  BY DEF Crash, Crashes
<1>3. Types'
  BY <1>1, <1>2, CommittedTyped DEF Types
<1>4. ASSUME NEW u \in Transactions  PROVE Recoverable(u)'
  <2>1. Redone' = Redone
    BY <1>2 DEF Redone
  <2>2. Kept(u)
    BY <1>2, <2>1, LogUntouched DEF Kept
  <2> QED
    BY <1>1, <1>2, <2>2, KeptByCrash
<1> QED
  BY <1>3, <1>4 DEF LogInv

LEMMA RestrictedSplits ==
  ASSUME NEW c \in Splits, NEW S \in SUBSET DOMAIN c
  PROVE  Restrict(c, S) \in Splits
<1> DEFINE d == Restrict(c, S)
<1>1. d = [s \in S |-> c[s]]
  BY DEF Restrict
<1>2. /\ S \in SUBSET Nat /\ IsFiniteSet(S) /\ \A s \in S : c[s] \in Line
      /\ Imbalance \in S => c[Imbalance].acc = Imbalances
  BY SplitsFacts, FS_Subset
<1> HIDE DEF d
<1>3. d \in [S -> Line] /\ (Imbalance \in S => d[Imbalance].acc = Imbalances)
  BY <1>1, <1>2
<1>4. d \in Splits
  BY <1>2, <1>3, MakeSplits
<1> QED
  BY <1>4 DEF d

LEMMA TornKeeps ==
  ASSUME LogInv, NEW t \in Transactions, CrashWhileLogging(t)
  PROVE  LogInv'
<1>1. Types /\ \A u \in Transactions : Recoverable(u)
  BY DEF LogInv
<1> DEFINE c == Scrubbed(ledger[t].splits)
           flag == IF IsOpen(t) THEN "C" ELSE "D"
           record(d) == [flag |-> flag, trans |-> t, torn |-> TRUE, splits |-> d]
<1>2. /\ phase = "running" /\ phase' = "crashed" /\ before' = Committed
      /\ ledger' = ledger /\ copy' = copy /\ accounts' = accounts /\ file' = file
      /\ ledger[t].is = "live"
  BY DEF CrashWhileLogging, Crashes
<1>3. PICK S \in SUBSET DOMAIN c : log' = log \o <<record(Restrict(c, S))>>
  BY DEF CrashWhileLogging, Logs
<1> DEFINE d == Restrict(c, S)
           r == record(d)
<1>4. d \in Splits
  <2>1. c \in Splits
    BY <1>1, TypeFacts, ScrubbedIsEven
  <2> HIDE DEF c
  <2> QED
    BY <2>1, RestrictedSplits
<1> HIDE DEF d, c
<1>5. /\ r \in Records /\ r.torn /\ (r.flag = "D" => ~IsOpen(t))
      /\ r.flag \in {"C", "D"} /\ r.trans = t
  BY <1>4 DEF Records
<1>6. log' = log \o <<r>>
  BY <1>3 DEF d
<1> HIDE DEF r
<1>7. \A u : Tells(r, u) <=> u = t
  BY <1>5 DEF Tells
<1>8. /\ log' \in Seq(Records)
      /\ \A u \in Transactions : u # t => Untouched(log', log, u) /\ Redone'[u] = Redone[u]
      /\ Told(log', log, r, t) /\ Redone'[t] = Step(Redone[t], t, r, file.accounts)
  BY <1>1, <1>2, <1>5, <1>6, <1>7, AddRecord
<1>9. Types'
  BY <1>1, <1>2, <1>8, CommittedTyped DEF Types
<1>10. ASSUME NEW u \in Transactions, u # t  PROVE Recoverable(u)'
  <2>1. Kept(u)
    BY <1>2, <1>8, <1>10 DEF Kept
  <2> QED
    BY <1>1, <1>2, <2>1, KeptByCrash
<1>11. Recoverable(t)'
  <2>1. Settled(t) /\ Logged(t) /\ phase # "crashed"
    BY <1>1, <1>2 DEF Recoverable
  <2>2. ~ToldDeleted(log, t)
    BY <1>2, <2>1, DeletedLines DEF Settled
  <2>3. \A n \in Telling(log, t) : log[n].flag # "D"
    BY <2>2 DEF ToldDeleted
  <2>4. /\ Telling(log', t) = Telling(log, t) \cup {Len(log) + 1}
        /\ log'[Len(log) + 1] = r
        /\ \A n \in Telling(log, t) : log'[n] = log[n] /\ n < Len(log) + 1
    BY <1>8 DEF Told
  <2>5. DeletedLast(log', t)
    <3>1. Len(log) + 1 \in Int /\ \A n \in Telling(log, t) : n \in Int
      BY <1>1 DEF Telling, Types
    <3> QED
      BY <2>3, <2>4, <3>1 DEF DeletedLast
  <2>6. ToldDeleted(log', t) => r.flag = "D"
    BY <2>3, <2>4 DEF ToldDeleted
  <2>7. r.flag = "D" => Redone'[t] = Deleted
    <3>1. ASSUME r.flag = "D"  PROVE Redone'[t] = Deleted
      <4>1. Committed[t] = ledger[t]
        BY <1>1, <1>5, <3>1, TypeFacts
      <4>2. Redone[t].is = "live"
        BY <1>2, <2>1, <4>1 DEF Logged
      <4> QED
        BY <1>7, <1>8, <3>1, <4>2 DEF Step
    <3> QED
      BY <3>1
  <2>8. IsOpen(t)' <=> IsOpen(t)
    BY <1>2 DEF IsOpen
  <2>9. Settled(t)'
    BY <1>2, <2>1, <2>5, <2>6, <2>7, <2>8 DEF Settled
  <2>10. IsDoubtful(log', file'.open, t)
    BY <1>5, <1>8 DEF Told
  <2> QED
    BY <1>2, <2>9, <2>10 DEF Recoverable, Logged, Survives, Restored
<1> QED
  BY <1>9, <1>10, <1>11 DEF LogInv

LEMMA ClosedEntries ==
  ASSUME NEW t \in Transactions, copy' = [u \in Transactions |-> NotOpen]
  PROVE  ~IsOpen(t)' /\ Committed'[t] = ledger'[t]
BY DEF IsOpen, Committed

LEMMA RecoverKeeps ==
  ASSUME LogInv, Recover
  PROVE  LogInv'
<1>1. Types /\ \A u \in Transactions : Recoverable(u)
  BY DEF LogInv
<1>2. /\ phase = "crashed" /\ phase' = "recovered" /\ ledger' = Redone
      /\ copy' = [t \in Transactions |-> NotOpen] /\ accounts' = file.accounts
      /\ file' = file /\ log' = log /\ before' = before
  BY DEF Recover, Redone
<1>3. Redone' = Redone
  BY <1>2 DEF Redone
<1>4. Redone \in Books
  BY <1>1, ReplayedBooks DEF Types, Redone
<1>5. Types'
  BY <1>1, <1>2, <1>4 DEF Types
<1>6. ASSUME NEW t \in Transactions  PROVE Recoverable(t)'
  <2>1. ~IsOpen(t)' /\ Committed'[t] = Redone[t]
    BY <1>2, ClosedEntries
  <2>2. Settled(t) /\ Survives(t)
    BY <1>1 DEF Recoverable
  <2>3. Telling(log, t) # {} => Tidy(Redone[t].splits)
    BY <1>1, TidyAfterReplay DEF Redone, Types
  <2>4. Settled(t)'
    BY <1>2, <1>3, <2>1, <2>2 DEF Settled
  <2>5. Logged(t)'
    <3>1. Covers(Redone[t], Committed[t])'
      BY <1>3, <2>1 DEF Covers
    <3> QED
      BY <1>2, <1>3, <2>1, <2>3, <3>1, TidyIsEven DEF Logged
  <2>6. Survives(t)'
    <3>1. Covers(Redone[t], before[t]) => Covers(Redone[t], before[t])'
      BY <1>2, <1>3 DEF Covers
    <3> QED
      BY <1>2, <1>3, <2>2, <3>1 DEF Survives
  <2>7. Restored(t)'
    BY <1>2, <1>3, <2>1, <2>3, SameIsSame DEF Restored
  <2> QED
    BY <2>4, <2>5, <2>6, <2>7 DEF Recoverable
<1> QED
  BY <1>5, <1>6 DEF LogInv

LEMMA SameCovers ==
  ASSUME NEW x, NEW y, Same(x, y)
  PROVE  Covers(y, x) /\ \A was : Covers(y, was) => Covers(x, was)
BY DEF Same, Covers

LEMMA ReplayAgainKeeps ==
  ASSUME LogInv, ReplayAgain
  PROVE  LogInv'
<1>1. Types /\ \A u \in Transactions : Recoverable(u)
  BY DEF LogInv
<1>2. /\ phase = "recovered" /\ phase' = "recovered"
      /\ ledger' = Replay(ledger, accounts, log)
      /\ copy' = copy /\ accounts' = accounts
      /\ file' = file /\ log' = log /\ before' = before
  BY DEF ReplayAgain
<1>3. Redone' = Redone
  BY <1>2 DEF Redone
<1>4. ledger' \in Books
  BY <1>1, <1>2, ReplayedBooks DEF Types
<1>5. Types'
  BY <1>1, <1>2, <1>4 DEF Types
<1>6. ASSUME NEW t \in Transactions  PROVE Recoverable(t)'
  <2>1. Settled(t) /\ Survives(t) /\ Restored(t)
    BY <1>1 DEF Recoverable
  <2>2. /\ accounts = file.accounts /\ ~IsOpen(t) /\ Same(ledger[t], Redone[t])
        /\ Telling(log, t) = {} => ledger[t] = Redone[t]
    BY <1>2, <2>1 DEF Restored
  <2>3. ~IsOpen(t)' /\ Committed'[t] = ledger'[t]
    BY <1>2, <2>2 DEF IsOpen, Committed
  <2>4. ledger' = Replay(ledger, file.accounts, log)
    BY <1>2, <2>2
  <2>5. Same(ledger'[t], Redone[t])
    <3>1. DeletedLast(log, t) /\ (ToldDeleted(log, t) => Redone[t] = Deleted)
      BY <2>1 DEF Settled
    <3>2. Same(Replay(ledger, file.accounts, log)[t], Redone[t])
      BY <1>1, <2>2, <3>1, ReplayedAgain DEF Types, Redone
    <3> QED
      BY <2>4, <3>2
  <2>6. Telling(log, t) = {} => ledger'[t] = Redone[t]
    <3>1. ASSUME Telling(log, t) = {}  PROVE ledger'[t] = ledger[t]
      <4>1. \A n \in 1..Len(log) : ~Tells(log[n], t)
        BY <3>1 DEF Telling
      <4>2. Replay(ledger, file.accounts, log)[t] = ledger[t]
        BY <1>1, <4>1, Untold DEF Types
      <4> QED
        BY <2>4, <4>2
    <3> QED
      BY <2>2, <3>1
  <2>7. Telling(log, t) # {} => Tidy(ledger'[t].splits)
    <3>1. ASSUME Telling(log, t) # {}  PROVE Tidy(ledger'[t].splits)
      <4>1. Tidy(Replay(ledger, file.accounts, log)[t].splits)
        BY <1>1, <3>1, TidyAfterReplay DEF Types
      <4> QED
        BY <2>4, <4>1
    <3> QED
      BY <3>1
  <2>8. Settled(t)'
    <3>1. ASSUME ToldDeleted(log, t)  PROVE ledger'[t] = Deleted
      <4>1. Redone[t] = Deleted
        BY <2>1, <3>1 DEF Settled
      <4>2. ledger'[t].is = "deleted" /\ ledger'[t] \in Entries
        BY <1>4, <2>5, <4>1, DeletedLines DEF Same, Books
      <4> QED
        BY <4>2, EntryFacts
    <3> QED
      BY <1>2, <1>3, <2>1, <2>3, <3>1 DEF Settled
  <2>9. Logged(t)'
    <3>1. Covers(Redone[t], Committed[t])'
      <4>1. Covers(Redone[t], ledger'[t])
        BY <2>5, SameCovers
      <4> QED
        BY <1>2, <1>3, <2>3, <4>1 DEF Covers
    <3>2. Committed'[t].is = Redone'[t].is
      BY <1>3, <2>3, <2>5 DEF Same
    <3> QED
      BY <1>2, <2>3, <2>7, <3>1, <3>2, TidyIsEven DEF Logged
  <2>10. Survives(t)'
    <3>1. Covers(Redone[t], before[t]) => Covers(Redone[t], before[t])'
      BY <1>2, <1>3 DEF Covers
    <3> QED
      BY <1>2, <1>3, <2>1, <3>1 DEF Survives
  <2>11. Restored(t)'
    BY <1>2, <1>3, <2>2, <2>3, <2>5, <2>6, <2>7 DEF Restored
  <2> QED
    BY <2>8, <2>9, <2>10, <2>11 DEF Recoverable
<1> QED
  BY <1>5, <1>6 DEF LogInv

-----------------------------------------------------------------------------
LEMMA InitRecoverable ==
  ASSUME LogInit
  PROVE  LogInv
<1>1. PICK c \in Contents, there \in SUBSET Transactions :
        ledger = [t \in Transactions |-> IF t \in there THEN Live(c) ELSE Absent]
  BY DEF LogInit
<1>2. /\ copy = [t \in Transactions |-> NotOpen]
      /\ accounts = Saved \cup {Orphans, Imbalances}
      /\ file = [book |-> ledger, accounts |-> accounts, open |-> {}]
      /\ log = <<>> /\ phase = "running" /\ before = None
  BY DEF LogInit
<1>3. Live(c) \in Entries /\ Absent \in Entries
  BY ContentsFacts, LiveEntry, EmptyEntries
<1>4. ledger \in Books
  BY <1>1, <1>3 DEF Books
<1>5. KnownHomes(accounts)
  BY <1>2 DEF KnownHomes, Homes
<1>6. file.book = ledger /\ file.accounts = accounts
  BY <1>2
<1>7. Types
  <2>1. copy \in [Transactions -> Entries \cup {NotOpen}]
    BY <1>2
  <2>2. before \in Books /\ log \in Seq(Records) /\ phase = "running"
    BY <1>2, NoneInBooks
  <2> QED
    BY <1>4, <1>5, <1>6, <2>1, <2>2 DEF Types
<1>8. ASSUME NEW t \in Transactions  PROVE Recoverable(t)
  <2>1. Redone[t] = ledger[t]
    BY <1>2, <1>6, NothingToReplay DEF Redone
  <2>2. ~IsOpen(t) /\ Committed[t] = ledger[t]
    BY <1>2 DEF IsOpen, Committed
  <2>3. DeletedLast(log, t) /\ ~ToldDeleted(log, t) /\ Telling(log, t) = {}
    BY <1>2, NothingToReplay
  <2>4. Covers(Redone[t], Committed[t])
    BY <2>1, <2>2 DEF Covers
  <2> QED
    BY <1>2, <2>1, <2>2, <2>3, <2>4 DEF Recoverable, Settled, Logged, Survives, Restored
<1> QED
  BY <1>7, <1>8 DEF LogInv

LEMMA StutterRecoverable ==
  ASSUME LogInv, UNCHANGED logvars
  PROVE  LogInv'
<1>1. /\ ledger' = ledger /\ copy' = copy /\ accounts' = accounts /\ file' = file
      /\ log' = log /\ phase' = phase /\ before' = before
  BY DEF logvars
<1>2. Redone' = Redone
  BY <1>1 DEF Redone
<1>3. Types'
  BY <1>1 DEF LogInv, Types
<1>4. ASSUME NEW t \in Transactions  PROVE Recoverable(t)'
  <2>1. Recoverable(t)
    BY DEF LogInv
  <2>2. (IsOpen(t)' <=> IsOpen(t)) /\ Committed'[t] = Committed[t]
    BY <1>1 DEF IsOpen, Committed
  <2> QED
    BY <1>1, <1>2, <2>1, <2>2 DEF Recoverable, Settled, Logged, Survives, Restored, Covers
<1> QED
  BY <1>3, <1>4 DEF LogInv

LEMMA RecoverableSpec == LogSpec => []LogInv
<1>1. LogInit => LogInv
  BY InitRecoverable
<1>2. LogInv /\ [LogNext]_logvars => LogInv'
  <2> SUFFICES ASSUME LogInv, [LogNext]_logvars  PROVE LogInv'
    OBVIOUS
  <2>1. ASSUME NEW t \in Transactions, BeginEdit(t)  PROVE LogInv'
    BY <2>1, BeginKeeps
  <2>2. ASSUME NEW t \in Transactions, CommitEdit(t)  PROVE LogInv'
    BY <2>2, CommitKeeps
  <2>3. ASSUME NEW t \in Transactions, RollbackEdit(t)  PROVE LogInv'
    BY <2>3, RollbackKeeps
  <2>4. ASSUME NEW t \in Transactions, DeleteTrans(t)  PROVE LogInv'
    BY <2>4, DeleteKeeps
  <2>5. ASSUME NEW t \in Transactions, CrashWhileLogging(t)  PROVE LogInv'
    BY <2>5, TornKeeps
  <2>6. ASSUME NEW t \in Transactions, NEW c \in Contents, Edit(t, c)  PROVE LogInv'
    BY <2>6, EditKeeps
  <2>7. ASSUME NEW a \in Opened, OpenAccount(a)  PROVE LogInv'
    BY <2>7, OpenAccountKeeps
  <2>8. CASE Save
    BY <2>8, SaveKeeps
  <2>9. CASE Crash
    BY <2>9, CrashKeeps
  <2>10. CASE Recover
    BY <2>10, RecoverKeeps
  <2>11. CASE ReplayAgain
    BY <2>11, ReplayAgainKeeps
  <2>12. CASE UNCHANGED logvars
    BY <2>12, StutterRecoverable
  <2> QED
    BY <2>1, <2>2, <2>3, <2>4, <2>5, <2>6, <2>7, <2>8, <2>9, <2>10, <2>11, <2>12 DEF LogNext
<1> QED
  BY <1>1, <1>2, PTL DEF LogSpec

-----------------------------------------------------------------------------
(* What it says of a recovered book.                                       *)

LEMMA DoubtfulIs ==
  ASSUME Types, NEW t \in Transactions
  PROVE  /\ Doubtful(t) <=> IsDoubtful(log, file.open, t)
         /\ RecordsOf(t) = Telling(log, t)
         /\ Mentioned(t) = DOMAIN file.book[t].splits \cup LinesOf(log, t)
<1>1. RecordsOf(t) = Telling(log, t)
  BY TellingIs DEF Types, RecordsOf
<1>2. Doubtful(t) = IsDoubtful(log, file.open, t)
  BY <1>1, Zenon DEF Doubtful, IsDoubtful
<1> QED
  BY <1>1, <1>2 DEF Mentioned, LinesOf

LEMMA NothingCommittedGoes ==
  ASSUME LogInv
  PROVE  NothingCommittedIsLost
<1> SUFFICES ASSUME phase = "recovered", NEW t \in Transactions, ~Doubtful(t)
             PROVE  Covers(ledger[t], before[t])
  BY DEF NothingCommittedIsLost
<1>1. Types /\ Survives(t) /\ Restored(t)
  BY DEF LogInv, Recoverable
<1>2. Covers(Redone[t], before[t])
  BY <1>1, DoubtfulIs DEF Survives
<1>3. Same(ledger[t], Redone[t])
  BY <1>1 DEF Restored
<1> QED
  BY <1>2, <1>3, SameCovers

LEMMA NothingIsAdded ==
  ASSUME LogInv
  PROVE  RecoveredAsItWas
<1> SUFFICES ASSUME phase = "recovered", NEW t \in Transactions, ~Doubtful(t),
                    ~Homeless(before[t].splits), Mentioned(t) = DOMAIN before[t].splits,
                    NEW s \in DOMAIN ledger[t].splits \ DOMAIN before[t].splits
             PROVE  s = Imbalance /\ ledger[t].splits[s].amt = 0
  BY DEF RecoveredAsItWas
<1>1. Types /\ Survives(t) /\ Restored(t)
  BY DEF LogInv, Recoverable
<1>2. /\ Same(ledger[t], Redone[t])
      /\ Telling(log, t) = {} => ledger[t] = Redone[t]
      /\ Telling(log, t) # {} => Tidy(ledger[t].splits)
      /\ Telling(log, t) # {} => Even(before[t].splits)
      /\ Covers(ledger[t], before[t])
  BY <1>1, DoubtfulIs, NothingCommittedGoes DEF Restored, Survives, NothingCommittedIsLost
<1>3. Telling(log, t) # {}
  <2>1. ASSUME Telling(log, t) = {}  PROVE FALSE
    <3>1. \A n \in 1..Len(log) : ~Tells(log[n], t)
      BY <2>1 DEF Telling
    <3>2. Redone[t] = file.book[t]
      BY <1>1, <3>1, Untold DEF Types, Redone
    <3>3. DOMAIN file.book[t].splits \subseteq DOMAIN before[t].splits
      BY <1>1, DoubtfulIs
    <3> QED
      BY <1>2, <2>1, <3>2, <3>3
  <2> QED
    BY <2>1
<1> DEFINE c == ledger[t].splits
           d == before[t].splits
           T == DOMAIN c \ {Imbalance}
<1>4. c \in Splits /\ d \in Splits
  BY <1>1, EntryFacts DEF Types, Books
<1>5. T \subseteq DOMAIN d
  <2>1. DOMAIN Redone[t].splits \subseteq Mentioned(t) \cup {Imbalance}
    BY <1>1, NoOtherSplits, DoubtfulIs DEF Types, Redone
  <2>2. T = DOMAIN Redone[t].splits \ {Imbalance}
    BY <1>2 DEF Same
  <2> QED
    BY <2>1, <2>2
<1>6. s = Imbalance /\ Imbalance \in DOMAIN c /\ Imbalance \notin DOMAIN d
  BY <1>5
<1>7. /\ DOMAIN d = T /\ \A x \in T : c[x].amt = d[x].amt
  <2>1. \A x \in DOMAIN d : x \in DOMAIN c /\ c[x].amt = d[x].amt
    BY <1>2, <1>6 DEF Covers
  <2> HIDE DEF c, d
  <2> QED
    BY <1>5, <1>6, <2>1 DEF T
<1>8. Value(d) = 0
  BY <1>2, <1>3 DEF Even
<1>9. Value(c) = 0
  <2>1. c[Imbalance].acc # Nowhere
    BY <1>4, <1>6, SplitsFacts DEF Imbalances, Nowhere
  <2>2. ~Homeless(c)
    BY <1>6, <2>1 DEF Homeless
  <2> QED
    BY <1>2, <1>3, <2>2 DEF Tidy
<1> HIDE DEF c, d, T
<1>10. SumFunctionOnSet(AmountsOf(d), T) = 0
  BY <1>7, <1>8 DEF Value, AmountsOf
<1>11. SumFunctionOnSet(AmountsOf(c), T) = SumFunctionOnSet(AmountsOf(d), T)
  <2>1. IsFiniteSet(T) /\ T \subseteq DOMAIN c /\ T \subseteq DOMAIN d
    BY <1>4, <1>7, SplitsFacts, FS_Subset DEF T
  <2> QED
    BY <1>4, <1>7, <2>1, SameValues
<1>12. Value(c) = c[Imbalance].amt + SumFunctionOnSet(AmountsOf(c), T)
  BY <1>4, <1>6, ValueApart DEF T
<1>13. c[Imbalance].amt \in Int
  BY <1>4, <1>6, SplitsFacts
<1>14. c[Imbalance].amt = 0
  BY <1>9, <1>10, <1>11, <1>12, <1>13
<1> QED
  BY <1>6, <1>14 DEF c

\* However many transactions, accounts, memos and amounts there are, whatever
\* was edited, committed, deleted or saved before the crash, and however often
\* the log is replayed: a committed transaction is back with all its splits.
THEOREM CommittedSurvives == LogSpec => []NothingCommittedIsLost
BY RecoverableSpec, NothingCommittedGoes, PTL

\* And what the replay adds to it is at most an empty balance split.
THEOREM NothingIsMadeUp == LogSpec => []RecoveredAsItWas
BY RecoverableSpec, NothingIsAdded, PTL

\* Replaying a log a second time, or any number of times more, changes nothing
\* but the balance splits: gnc_file_log_replay may be run on what it gave.
SecondReplayChangesNothing ==
  ReplayAgain => \A t \in Transactions :
    /\ ledger'[t].is = ledger[t].is
    /\ DOMAIN ledger'[t].splits \ {Imbalance} = DOMAIN ledger[t].splits \ {Imbalance}
    /\ \A s \in DOMAIN ledger[t].splits \ {Imbalance} :
         ledger'[t].splits[s] = ledger[t].splits[s]

THEOREM ReplayIsIdempotent == LogSpec => [][SecondReplayChangesNothing]_logvars
<1>1. LogInv /\ LogInv' => SecondReplayChangesNothing
  <2> SUFFICES ASSUME LogInv, LogInv', ReplayAgain, NEW t \in Transactions
               PROVE  /\ ledger'[t].is = ledger[t].is
                      /\ DOMAIN ledger'[t].splits \ {Imbalance}
                           = DOMAIN ledger[t].splits \ {Imbalance}
                      /\ \A s \in DOMAIN ledger[t].splits \ {Imbalance} :
                           ledger'[t].splits[s] = ledger[t].splits[s]
    BY DEF SecondReplayChangesNothing
  <2>1. phase = "recovered" /\ phase' = "recovered" /\ file' = file /\ log' = log
    BY DEF ReplayAgain
  <2>2. Redone' = Redone
    BY <2>1 DEF Redone
  <2>3. Restored(t) /\ Restored(t)'
    BY DEF LogInv, Recoverable
  <2>4. Same(ledger[t], Redone[t]) /\ Same(ledger'[t], Redone[t])
    BY <2>1, <2>2, <2>3 DEF Restored
  <2> QED
    BY <2>4 DEF Same
<1> QED
  BY <1>1, RecoverableSpec, PTL DEF LogSpec

-----------------------------------------------------------------------------
(* Lots.  Lists first.                                                     *)

LEMMA ListFacts ==
  ASSUME NEW T, NEW list \in Seq(T)
  PROVE  /\ Len(list) \in Nat /\ DOMAIN list = 1..Len(list)
         /\ ToSet(list) = {list[k] : k \in 1..Len(list)}
         /\ ToSet(list) \subseteq T
         /\ \A k \in 1..Len(list) : list[k] \in ToSet(list)
BY DEF ToSet

KeptTo(list, ids, q, n) ==
  /\ ToSet(q) = {list[k] : k \in 1..n} \ ids
  /\ IsInjective(list) => IsInjective(q)

LEMMA AppendKept ==
  ASSUME NEW T, NEW list \in Seq(T), NEW ids, NEW n \in 1..Len(list), NEW q \in Seq(T),
         KeptTo(list, ids, q, n - 1)
  PROVE  /\ q \o (IF list[n] \in ids THEN <<>> ELSE <<list[n]>>) \in Seq(T)
         /\ KeptTo(list, ids, q \o (IF list[n] \in ids THEN <<>> ELSE <<list[n]>>), n)
<1>1. Len(list) \in Nat /\ Len(q) \in Nat /\ n \in Nat /\ DOMAIN q = 1..Len(q)
      /\ DOMAIN list = 1..Len(list)
  BY ListFacts
<1>2. {list[k] : k \in 1..n} = {list[k] : k \in 1..(n - 1)} \cup {list[n]}
  BY <1>1
<1>3. CASE list[n] \in ids
  <2>1. q \o <<>> = q
    BY ConcatEmptySeq
  <2> QED
    BY <1>2, <1>3, <2>1 DEF KeptTo
<1>4. CASE list[n] \notin ids
  <2> DEFINE r == q \o <<list[n]>>
  <2>1. list[n] \in T /\ <<list[n]>> \in Seq(T) /\ Len(<<list[n]>>) = 1
    OBVIOUS
  <2>2. /\ r \in Seq(T) /\ Len(r) = Len(q) + 1 /\ DOMAIN r = 1..(Len(q) + 1)
        /\ \A k \in 1..Len(q) : r[k] = q[k]
        /\ r[Len(q) + 1] = list[n]
    BY <1>1, <2>1
  <2> HIDE DEF r
  <2>3. ToSet(r) = ToSet(q) \cup {list[n]}
    <3>1. \A k \in 1..(Len(q) + 1) : k \in 1..Len(q) \/ k = Len(q) + 1
      BY <1>1
    <3>2. \A k \in 1..Len(q) : k \in 1..(Len(q) + 1)
      BY <1>1
    <3>3. Len(q) + 1 \in 1..(Len(q) + 1)
      BY <1>1
    <3>4. ToSet(r) \subseteq ToSet(q) \cup {list[n]}
      BY <1>1, <2>2, <3>1 DEF ToSet
    <3>5. ToSet(q) \subseteq ToSet(r)
      BY <1>1, <2>2, <3>2 DEF ToSet
    <3>6. list[n] \in ToSet(r)
      BY <2>2, <3>3 DEF ToSet
    <3> QED
      BY <3>4, <3>5, <3>6
  <2>4. IsInjective(list) => IsInjective(r)
    <3> SUFFICES ASSUME IsInjective(list), NEW j \in 1..(Len(q) + 1), NEW k \in 1..(Len(q) + 1),
                        r[j] = r[k]
                 PROVE  j = k
      BY <2>2 DEF IsInjective
    <3>1. IsInjective(q)
      BY DEF KeptTo
    <3>2. list[n] \notin ToSet(q)
      <4>1. \A m \in 1..(n - 1) : list[m] # list[n]
        BY <1>1 DEF IsInjective
      <4> QED
        BY <4>1 DEF KeptTo
    <3>3. \A m \in 1..Len(q) : q[m] \in ToSet(q)
      BY ListFacts
    <3>4. CASE j \in 1..Len(q) /\ k \in 1..Len(q)
      BY <1>1, <2>2, <3>1, <3>4 DEF IsInjective
    <3>5. CASE j = Len(q) + 1 /\ k \in 1..Len(q)
      BY <2>2, <3>2, <3>3, <3>5
    <3>6. CASE j \in 1..Len(q) /\ k = Len(q) + 1
      BY <2>2, <3>2, <3>3, <3>6
    <3> QED
      BY <1>1, <3>4, <3>5, <3>6
  <2>5. ToSet(r) = {list[k] : k \in 1..n} \ ids
    BY <1>2, <1>4, <2>3 DEF KeptTo
  <2>6. r \in Seq(T) /\ KeptTo(list, ids, r, n)
    BY <2>2, <2>4, <2>5 DEF KeptTo
  <2> QED
    BY <1>4, <2>6 DEF r
<1> QED
  BY <1>3, <1>4

LEMMA WithoutFacts ==
  ASSUME NEW T, NEW list \in Seq(T), NEW ids
  PROVE  /\ Without(list, ids) \in Seq(T)
         /\ ToSet(Without(list, ids)) = ToSet(list) \ ids
         /\ IsInjective(list) => IsInjective(Without(list, ids))
<1> DEFINE N == Len(list)
           add(n) == IF list[n] \in ids THEN <<>> ELSE <<list[n]>>
           step == [p \in (1..N) \X Seq(T) |-> p[2] \o add(p[1])]
           g == CHOOSE g : g = [n \in 0..N |-> IF n = 0 THEN <<>> ELSE g[n - 1] \o add(n)]
<1>1. N \in Nat /\ <<>> \in Seq(T)
  OBVIOUS
<1>2. \A n \in 1..N : add(n) \in Seq(T)
  <2> SUFFICES ASSUME NEW n \in 1..N  PROVE add(n) \in Seq(T)
    OBVIOUS
  <2>1. list[n] \in T
    OBVIOUS
  <2>2. <<list[n]>> \in Seq(T)
    BY <2>1
  <2> QED
    BY <1>1, <2>2
<1>3. \A n \in 1..N, x \in Seq(T) : x \o add(n) \in Seq(T)
  <2> HIDE DEF add
  <2> QED
    BY <1>2, ConcatProperties
<1>4. \A n \in 1..N, x \in Seq(T) : step[<<n, x>>] = x \o add(n)
  OBVIOUS
<1> HIDE DEF step, N, add
<1>5. PICK f : IsLoop(f, <<>>, step, Seq(T), N)
  <2>1. \A n \in 1..N, x \in Seq(T) : step[<<n, x>>] \in Seq(T)
    BY <1>3, <1>4
  <2> QED
    BY <1>1, <2>1, LoopExists
<1>6. f = [n \in 0..N |-> IF n = 0 THEN <<>> ELSE f[n - 1] \o add(n)]
  <2>1. \A n \in 0..N : n # 0 => n \in 1..N /\ f[n - 1] \in Seq(T)
    BY <1>1, <1>5 DEF IsLoop
  <2>2. \A n \in 0..N : f[n] = IF n = 0 THEN <<>> ELSE step[<<n, f[n - 1]>>]
    BY <1>5 DEF IsLoop
  <2>3. \A n \in 0..N : f[n] = IF n = 0 THEN <<>> ELSE f[n - 1] \o add(n)
    BY <1>4, <2>1, <2>2
  <2>4. f = [n \in 0..N |-> f[n]]
    BY <1>5 DEF IsLoop
  <2> QED
    BY <2>3, <2>4
<1>7. g = [n \in 0..N |-> IF n = 0 THEN <<>> ELSE g[n - 1] \o add(n)]
  BY <1>6
<1>8. Without(list, ids) = g[N]
  BY DEF Without, N, add
<1> HIDE DEF g
<1> DEFINE S == {n \in 0..N : g[n] \in Seq(T) /\ KeptTo(list, ids, g[n], n)}
<1>9. 0 \in S
  <2>1. g[0] = <<>> /\ 0 \in 0..N
    BY <1>1, <1>7
  <2>2. KeptTo(list, ids, <<>>, 0)
    BY DEF KeptTo, ToSet, IsInjective
  <2> QED
    BY <1>1, <2>1, <2>2
<1>10. ASSUME NEW n \in 0..(N - 1), n \in S
       PROVE  n + 1 \in S
  <2>1. n + 1 \in 1..N /\ (n + 1) - 1 = n /\ n + 1 \in 0..N /\ n + 1 # 0
    BY <1>1
  <2>2. g[n + 1] = g[n] \o add(n + 1)
    BY <1>7, <2>1
  <2>3. g[n] \in Seq(T) /\ KeptTo(list, ids, g[n], n)
    BY <1>10
  <2>4. g[n + 1] \in Seq(T) /\ KeptTo(list, ids, g[n + 1], n + 1)
    BY <2>1, <2>2, <2>3, AppendKept DEF N, add
  <2> QED
    BY <2>1, <2>4
<1>11. \A n \in 0..N : n \in S
  <2> HIDE DEF S
  <2> QED
    BY <1>1, <1>9, <1>10, UpTo
<1>12. g[N] \in Seq(T) /\ KeptTo(list, ids, g[N], N)
  BY <1>1, <1>11
<1> QED
  BY <1>8, <1>12, ListFacts DEF KeptTo, N

\* A list in which i has been inserted at p
IsInserted(new, list, p, i) ==
  /\ Len(new) = Len(list) + 1
  /\ \A k \in 1..(p - 1) : new[k] = list[k]
  /\ new[p] = i
  /\ \A k \in (p + 1)..(Len(list) + 1) : new[k] = list[k - 1]

LEMMA InsertedAt ==
  ASSUME NEW T, NEW list \in Seq(T), NEW later \in SUBSET (DOMAIN list), NEW i \in T
  PROVE  \E p \in 1..(Len(list) + 1) :
           /\ p \in later \cup {Len(list) + 1}
           /\ \A k \in later : p <= k
           /\ InsertBefore(list, later, i) \in Seq(T)
           /\ IsInserted(InsertBefore(list, later, i), list, p, i)
<1> DEFINE L == Len(list)
           p == Min(later \cup {L + 1})
           A == SubSeq(list, 1, p - 1)
           B == SubSeq(list, p, L)
           R == InsertBefore(list, later, i)
<1>1. L \in Nat /\ DOMAIN list = 1..L
  OBVIOUS
<1>2. p \in later \cup {L + 1} /\ \A k \in later : p <= k
  <2> DEFINE U == later \cup {L + 1}
  <2>1. U \in SUBSET Nat /\ U # {}
    BY <1>1
  <2>2. p = Min(U)
    OBVIOUS
  <2> HIDE DEF U, p
  <2>3. p \in U /\ \A k \in U : p <= k
    BY <2>1, <2>2, MinIsLeast
  <2> QED
    BY <2>3 DEF U
<1> HIDE DEF p
<1>3. p \in 1..(L + 1)
  BY <1>1, <1>2
<1>4. A \in Seq(T) /\ Len(A) = p - 1 /\ \A k \in 1..(p - 1) : A[k] = list[k]
  BY <1>1, <1>3
<1>5. B \in Seq(T) /\ Len(B) = L - p + 1 /\ \A k \in 1..(L - p + 1) : B[k] = list[p + k - 1]
  BY <1>1, <1>3
<1>6. R = A \o <<i>> \o B
  BY DEF InsertBefore, InsertAt, p
<1> HIDE DEF A, B, R, L
<1> DEFINE C == A \o <<i>>
<1>7. C \in Seq(T) /\ Len(C) = p /\ C[p] = i /\ \A k \in 1..(p - 1) : C[k] = A[k]
  <2>1. <<i>> \in Seq(T) /\ Len(<<i>>) = 1 /\ <<i>>[1] = i
    OBVIOUS
  <2> HIDE DEF A
  <2> QED
    BY <1>1, <1>3, <1>4, <2>1
<1> HIDE DEF C
<1>8. R = C \o B
  BY <1>6 DEF C
<1>9. /\ R \in Seq(T) /\ Len(R) = L + 1 /\ DOMAIN R = 1..(L + 1)
      /\ \A k \in 1..p : R[k] = C[k]
      /\ \A k \in (p + 1)..(L + 1) : R[k] = B[k - p]
  BY <1>1, <1>3, <1>5, <1>7, <1>8
<1>10. /\ \A k \in 1..(p - 1) : R[k] = list[k]
       /\ R[p] = i
       /\ \A k \in (p + 1)..(L + 1) : R[k] = list[k - 1]
  <2>1. \A k \in 1..(p - 1) : R[k] = list[k]
    BY <1>1, <1>3, <1>4, <1>7, <1>9
  <2>2. R[p] = i
    BY <1>3, <1>7, <1>9
  <2>3. ASSUME NEW k \in (p + 1)..(L + 1)  PROVE R[k] = list[k - 1]
    <3>1. k - p \in 1..(L - p + 1) /\ p + (k - p) - 1 = k - 1
      BY <1>1, <1>3
    <3> QED
      BY <1>5, <1>9, <3>1
  <2> QED
    BY <2>1, <2>2, <2>3
<1>11. IsInserted(R, list, p, i)
  BY <1>9, <1>10 DEF IsInserted, L
<1> QED
  BY <1>2, <1>3, <1>9, <1>11 DEF L, R

LEMMA InsertFacts ==
  ASSUME NEW T, NEW list \in Seq(T), NEW later \in SUBSET (DOMAIN list), NEW i \in T
  PROVE  /\ InsertBefore(list, later, i) \in Seq(T)
         /\ ToSet(InsertBefore(list, later, i)) = ToSet(list) \cup {i}
         /\ IsInjective(list) /\ i \notin ToSet(list) =>
              IsInjective(InsertBefore(list, later, i))
<1> DEFINE L == Len(list)
           R == InsertBefore(list, later, i)
<1>1. L \in Nat /\ DOMAIN list = 1..L
  OBVIOUS
<1> HIDE DEF R
<1>2. PICK p \in 1..(Len(list) + 1) : R \in Seq(T) /\ IsInserted(R, list, p, i)
  BY InsertedAt DEF R
<1>3. /\ R \in Seq(T) /\ Len(R) = L + 1 /\ DOMAIN R = 1..(L + 1)
  BY <1>2 DEF IsInserted
<1>4. /\ \A k \in 1..(p - 1) : R[k] = list[k]
      /\ R[p] = i
      /\ \A k \in (p + 1)..(L + 1) : R[k] = list[k - 1]
  BY <1>2 DEF IsInserted
<1>5. ToSet(R) = ToSet(list) \cup {i}
  <2>1. \A k \in 1..(L + 1) : R[k] \in ToSet(list) \cup {i}
    <3> SUFFICES ASSUME NEW k \in 1..(L + 1)  PROVE R[k] \in ToSet(list) \cup {i}
      OBVIOUS
    <3>1. CASE k \in 1..(p - 1)
      BY <1>1, <1>2, <1>4, <3>1 DEF ToSet
    <3>2. CASE k = p
      BY <1>4, <3>2
    <3>3. CASE k \in (p + 1)..(L + 1)
      <4>1. k - 1 \in 1..L
        BY <1>1, <1>2, <3>3
      <4> QED
        BY <1>1, <1>4, <3>3, <4>1 DEF ToSet
    <3> QED
      BY <1>1, <1>2, <3>1, <3>2, <3>3
  <2>2. ASSUME NEW k \in 1..L  PROVE list[k] \in ToSet(R)
    <3>1. CASE k \in 1..(p - 1)
      <4>1. k \in 1..(L + 1)
        BY <1>1
      <4> QED
        BY <1>3, <1>4, <3>1, <4>1 DEF ToSet
    <3>2. CASE k \in p..L
      <4>1. k + 1 \in (p + 1)..(L + 1) /\ (k + 1) - 1 = k /\ k + 1 \in 1..(L + 1)
        BY <1>1, <1>2, <3>2
      <4>2. R[k + 1] = list[k]
        BY <1>4, <4>1
      <4> QED
        BY <1>3, <4>1, <4>2 DEF ToSet
    <3> QED
      BY <1>1, <1>2, <3>1, <3>2
  <2>3. i \in ToSet(R)
    BY <1>2, <1>3, <1>4 DEF ToSet
  <2>4. ToSet(R) \subseteq ToSet(list) \cup {i}
    BY <1>3, <2>1 DEF ToSet
  <2>5. ToSet(list) \subseteq ToSet(R)
    BY <1>1, <2>2 DEF ToSet
  <2> QED
    BY <2>3, <2>4, <2>5
<1>6. ASSUME IsInjective(list), i \notin ToSet(list)
       PROVE  IsInjective(R)
  <2> DEFINE at(k) == IF k < p THEN k ELSE k - 1
  <2>1. \A k \in 1..(L + 1) : k # p => R[k] = list[at(k)] /\ at(k) \in 1..L
    <3> SUFFICES ASSUME NEW k \in 1..(L + 1), k # p
                 PROVE  R[k] = list[at(k)] /\ at(k) \in 1..L
      OBVIOUS
    <3>1. CASE k \in 1..(p - 1)
      BY <1>1, <1>2, <1>4, <3>1
    <3>2. CASE k \in (p + 1)..(L + 1)
      BY <1>1, <1>2, <1>4, <3>2
    <3> QED
      BY <1>1, <1>2, <3>1, <3>2
  <2>2. \A k \in 1..L : list[k] # i
    BY <1>1, <1>6 DEF ToSet
  <2>3. \A j, k \in 1..L : list[j] = list[k] => j = k
    BY <1>1, <1>6 DEF IsInjective
  <2> SUFFICES ASSUME NEW j \in 1..(L + 1), NEW k \in 1..(L + 1), R[j] = R[k]
               PROVE  j = k
    BY <1>3 DEF IsInjective
  <2>4. CASE j = p \/ k = p
    <3> HIDE DEF at
    <3> QED
      BY <1>4, <2>1, <2>2, <2>4
  <2>5. CASE j # p /\ k # p
    <3>1. at(j) = at(k)
      <4> HIDE DEF at
      <4> QED
        BY <2>1, <2>3, <2>5
    <3> QED
      BY <1>2, <2>5, <3>1
  <2> QED
    BY <2>4, <2>5
<1> QED
  BY <1>3, <1>5, <1>6 DEF R

-----------------------------------------------------------------------------
(* Accounts, and what their parts add up to.                               *)

SplitType == [trans : 0..MaxSplits, date : Nat, amt : Int, lot : 0..MaxLots,
              peers : SUBSET SplitId]
LotType == [splits : Seq(SplitId), closed : {"unknown", "yes", "no"}]
AccType == [s : [SplitId -> SplitType], list : Seq(SplitId), unsorted : BOOLEAN,
            lot : [LotId -> LotType], lots : Seq(LotId), full : BOOLEAN]

\* LotsAgree of an account that is being scrubbed
Agrees(a) ==
  /\ IsInjective(a.list) /\ ToSet(a.list) = Used(a)
  /\ IsInjective(a.lots)
  /\ \A l \in LotId :
       /\ IsInjective(a.lot[l].splits)
       /\ ToSet(a.lot[l].splits) = {i \in Used(a) : a.s[i].lot = l}
       /\ ToSet(a.lot[l].splits) # {} => l \in ToSet(a.lots)

\* No split is its own peer; merge_splits would destroy it.
NoOwnPeer(a) == \A i \in SplitId : i \notin a.s[i].peers

AccInv(a) == a \in AccType /\ Agrees(a) /\ NoOwnPeer(a)

PartsOf(a, t) == {i \in Used(a) : a.s[i].trans = t}
SameSums(a, b) == \A t \in SplitId : Total(b, PartsOf(b, t)) = Total(a, PartsOf(a, t))

RightCache(a, l) == a.lot[l].closed \in {"unknown", IF UsedUp(a, l) THEN "yes" ELSE "no"}

LEMMA AccFacts ==
  ASSUME NEW a \in AccType
  PROVE  /\ \A i \in SplitId : /\ a.s[i] \in SplitType /\ a.s[i].trans \in 0..MaxSplits
                               /\ a.s[i].date \in Nat /\ a.s[i].amt \in Int
                               /\ a.s[i].lot \in 0..MaxLots /\ a.s[i].peers \in SUBSET SplitId
         /\ \A l \in LotId : /\ a.lot[l] \in LotType /\ a.lot[l].splits \in Seq(SplitId)
                             /\ a.lot[l].closed \in {"unknown", "yes", "no"}
                             /\ ToSet(a.lot[l].splits) \subseteq SplitId
         /\ a.list \in Seq(SplitId) /\ a.lots \in Seq(LotId)
         /\ ToSet(a.list) \subseteq SplitId /\ ToSet(a.lots) \subseteq LotId
         /\ Used(a) \subseteq SplitId
<1>1. a.s \in [SplitId -> SplitType] /\ a.lot \in [LotId -> LotType]
      /\ a.list \in Seq(SplitId) /\ a.lots \in Seq(LotId)
  BY DEF AccType
<1>2. \A i \in SplitId : /\ a.s[i] \in SplitType /\ a.s[i].trans \in 0..MaxSplits
                         /\ a.s[i].date \in Nat /\ a.s[i].amt \in Int
                         /\ a.s[i].lot \in 0..MaxLots /\ a.s[i].peers \in SUBSET SplitId
  BY <1>1 DEF SplitType
<1>3. \A l \in LotId : /\ a.lot[l] \in LotType /\ a.lot[l].splits \in Seq(SplitId)
                       /\ a.lot[l].closed \in {"unknown", "yes", "no"}
  BY <1>1 DEF LotType
<1>4. \A l \in LotId : ToSet(a.lot[l].splits) \subseteq SplitId
  BY <1>3, ListFacts
<1>5. ToSet(a.list) \subseteq SplitId /\ ToSet(a.lots) \subseteq LotId
  BY <1>1, ListFacts
<1> QED
  BY <1>1, <1>2, <1>3, <1>4, <1>5 DEF Used

LEMMA Bounds ==
  /\ MaxSplits \in Nat /\ MaxLots \in Nat /\ 0 \notin SplitId /\ 0 \notin LotId
  /\ SplitId \subseteq 0..MaxSplits /\ LotId \subseteq 0..MaxLots
  /\ IsFiniteSet(SplitId) /\ \A ids \in SUBSET SplitId : IsFiniteSet(ids)
  /\ NoLot = 0 /\ NoSplit = 0
<1>1. MaxSplits \in Nat /\ MaxLots \in Nat
  BY LotsAssumption
<1>2. IsFiniteSet(SplitId)
  BY <1>1, FS_Interval DEF SplitId
<1>3. \A ids \in SUBSET SplitId : IsFiniteSet(ids)
  BY <1>2, FS_Subset
<1> QED
  BY <1>1, <1>2, <1>3 DEF SplitId, LotId, NoLot, NoSplit

LEMMA TotalIsInt ==
  ASSUME NEW a \in AccType, NEW ids \in SUBSET SplitId
  PROVE  Total(a, ids) \in Int
BY AccFacts, Bounds, SumIsInt DEF Total

LEMMA TotalEmpty ==
  ASSUME NEW a
  PROVE  Total(a, {}) = 0
BY SumEmpty DEF Total

LEMMA TotalSame ==
  ASSUME NEW a, NEW b, NEW ids \in SUBSET SplitId,
         \A i \in ids : a.s[i].amt = b.s[i].amt
  PROVE  Total(a, ids) = Total(b, ids)
<1> DEFINE f == [i \in SplitId |-> a.s[i].amt]
           g == [i \in SplitId |-> b.s[i].amt]
<1>1. \A i \in ids : f[i] = g[i]
  OBVIOUS
<1>2. Total(a, ids) = SumFunctionOnSet(f, ids) /\ Total(b, ids) = SumFunctionOnSet(g, ids)
  BY DEF Total
<1> HIDE DEF f, g
<1> QED
  BY <1>1, <1>2, Bounds, SumSame

LEMMA TotalAdd ==
  ASSUME NEW a \in AccType, NEW ids \in SUBSET SplitId, NEW i \in SplitId, i \notin ids
  PROVE  Total(a, ids \cup {i}) = a.s[i].amt + Total(a, ids)
<1> DEFINE f == [k \in SplitId |-> a.s[k].amt]
<1>1. \A k \in ids \cup {i} : f[k] \in Int
  BY AccFacts
<1>2. f[i] = a.s[i].amt
  OBVIOUS
<1>3. \A k : Total(a, k) = SumFunctionOnSet(f, k)
  BY DEF Total
<1>4. IsFiniteSet(ids)
  BY Bounds
<1> HIDE DEF f
<1>5. SumFunctionOnSet(f, ids \cup {i}) = f[i] + SumFunctionOnSet(f, ids)
  BY <1>1, <1>4, SumAdd
<1> QED
  BY <1>2, <1>3, <1>5

LEMMA TotalRemove ==
  ASSUME NEW a \in AccType, NEW ids \in SUBSET SplitId, NEW i \in ids
  PROVE  Total(a, ids) = a.s[i].amt + Total(a, ids \ {i})
<1>1. ids = (ids \ {i}) \cup {i} /\ ids \ {i} \in SUBSET SplitId /\ i \in SplitId
  OBVIOUS
<1> DEFINE r == ids \ {i}
<1> HIDE DEF r
<1>2. Total(a, r \cup {i}) = a.s[i].amt + Total(a, r)
  BY <1>1, TotalAdd DEF r
<1> QED
  BY <1>1, <1>2 DEF r

\* Calls that change neither amounts nor transactions of splits
LEMMA SameAmounts ==
  ASSUME NEW a, NEW b,
         \A i \in SplitId : b.s[i].trans = a.s[i].trans /\ b.s[i].amt = a.s[i].amt
  PROVE  /\ Used(b) = Used(a)
         /\ SameSums(a, b)
<1>1. Used(b) = Used(a)
  BY DEF Used
<1>2. \A t : PartsOf(b, t) = PartsOf(a, t) /\ PartsOf(a, t) \in SUBSET SplitId
  BY <1>1 DEF PartsOf, Used
<1>3. ASSUME NEW t \in SplitId
      PROVE  Total(b, PartsOf(b, t)) = Total(a, PartsOf(a, t))
  <2> DEFINE ids == PartsOf(a, t)
  <2>1. ids \in SUBSET SplitId /\ PartsOf(b, t) = ids
    BY <1>2
  <2> HIDE DEF ids
  <2>2. Total(a, ids) = Total(b, ids)
    BY <2>1, TotalSame
  <2> QED
    BY <2>1, <2>2 DEF ids
<1> QED
  BY <1>1, <1>3 DEF SameSums

-----------------------------------------------------------------------------
(* Sorting.                                                                *)

SortedTo(list, q, n) ==
  /\ ToSet(q) = {list[k] : k \in 1..n}
  /\ IsInjective(list) => IsInjective(q)

LEMMA Insertions ==
  ASSUME NEW T, NEW list \in Seq(T), NEW g, g[0] = <<>>,
         \A n \in 1..Len(list) : g[n - 1] \in Seq(T) =>
           \E later \in SUBSET (DOMAIN g[n - 1]) :
             g[n] = InsertBefore(g[n - 1], later, list[n])
  PROVE  /\ g[Len(list)] \in Seq(T)
         /\ ToSet(g[Len(list)]) = ToSet(list)
         /\ IsInjective(list) => IsInjective(g[Len(list)])
<1> DEFINE N == Len(list)
           upTo(n) == {list[k] : k \in 1..n}
           S == {n \in 0..N : g[n] \in Seq(T) /\ SortedTo(list, g[n], n)}
<1>1. N \in Nat /\ DOMAIN list = 1..N
  OBVIOUS
<1>2. 0 \in S
  <2>1. SortedTo(list, <<>>, 0)
    BY DEF SortedTo, ToSet, IsInjective
  <2>2. <<>> \in Seq(T) /\ 0 \in 0..N
    BY <1>1
  <2>3. g[0] \in Seq(T) /\ SortedTo(list, g[0], 0)
    BY <2>1, <2>2
  <2> HIDE DEF N
  <2> QED
    BY <2>2, <2>3
<1>3. ASSUME NEW n \in 0..(N - 1), n \in S
      PROVE  n + 1 \in S
  <2> DEFINE i == list[n + 1]
  <2>1. n + 1 \in 1..N /\ (n + 1) - 1 = n /\ n + 1 \in 0..N /\ i \in T
    BY <1>1
  <2>2. /\ g[n] \in Seq(T) /\ ToSet(g[n]) = upTo(n)
        /\ IsInjective(list) => IsInjective(g[n])
    BY <1>3 DEF SortedTo
  <2>3. PICK later \in SUBSET (DOMAIN g[n]) : g[n + 1] = InsertBefore(g[n], later, i)
    BY <2>1, <2>2
  <2>4. upTo(n + 1) = upTo(n) \cup {i}
    <3>1. \A k \in 1..(n + 1) : k \in 1..n \/ k = n + 1
      BY <2>1
    <3>2. \A k \in 1..n : k \in 1..(n + 1)
      BY <2>1
    <3> QED
      BY <2>1, <3>1, <3>2
  <2>5. IsInjective(list) => i \notin upTo(n)
    <3>1. \A k \in 1..n : k \in 1..N /\ k # n + 1
      BY <1>1, <2>1
    <3> QED
      BY <1>1, <2>1, <3>1 DEF IsInjective
  <2> HIDE DEF i
  <2>6. /\ g[n + 1] \in Seq(T)
        /\ ToSet(g[n + 1]) = ToSet(g[n]) \cup {i}
        /\ IsInjective(g[n]) /\ i \notin ToSet(g[n]) => IsInjective(g[n + 1])
    <3> DEFINE q == g[n]
    <3>1. q \in Seq(T) /\ later \in SUBSET (DOMAIN q) /\ i \in T
      BY <2>1, <2>2
    <3>2. g[n + 1] = InsertBefore(q, later, i)
      BY <2>3
    <3> HIDE DEF q
    <3>3. /\ InsertBefore(q, later, i) \in Seq(T)
          /\ ToSet(InsertBefore(q, later, i)) = ToSet(q) \cup {i}
          /\ IsInjective(q) /\ i \notin ToSet(q) => IsInjective(InsertBefore(q, later, i))
      BY <3>1, InsertFacts
    <3> QED
      BY <3>2, <3>3 DEF q
  <2>7. SortedTo(list, g[n + 1], n + 1)
    BY <2>2, <2>4, <2>5, <2>6 DEF SortedTo
  <2>8. n + 1 \in 0..N /\ g[n + 1] \in Seq(T)
    BY <2>1, <2>6
  <2> HIDE DEF N
  <2> QED
    BY <2>7, <2>8
<1>4. \A n \in 0..N : n \in S
  <2> HIDE DEF S, N
  <2> QED
    BY <1>1, <1>2, <1>3, UpTo
<1>5. g[N] \in Seq(T) /\ SortedTo(list, g[N], N)
  BY <1>1, <1>4
<1> QED
  BY <1>1, <1>5, ListFacts DEF SortedTo

\* In the order of their dates
InTurn(a, list) ==
  \A j, k \in 1..Len(list) : j <= k => a.s[list[j]].date <= a.s[list[k]].date

LEMMA InsertInTurn ==
  ASSUME NEW a \in AccType, NEW list \in Seq(SplitId), InTurn(a, list),
         NEW later \in SUBSET (DOMAIN list), NEW i \in SplitId,
         \A k \in DOMAIN list : IF k \in later THEN a.s[i].date <= a.s[list[k]].date
                                 ELSE a.s[list[k]].date <= a.s[i].date
  PROVE  InTurn(a, InsertBefore(list, later, i))
<1> DEFINE L == Len(list)
           R == InsertBefore(list, later, i)
           date(k) == a.s[list[k]].date
<1>1. L \in Nat /\ DOMAIN list = 1..L /\ \A k \in 1..L : list[k] \in SplitId
  OBVIOUS
<1>2. a.s[i].date \in Nat /\ \A k \in 1..L : date(k) \in Nat
  BY <1>1, AccFacts
<1>3. \A j, k \in 1..L : j <= k => date(j) <= date(k)
  BY DEF InTurn
<1> HIDE DEF R
<1>4. PICK p \in 1..(L + 1) : /\ p \in later \cup {L + 1} /\ \A k \in later : p <= k
                              /\ IsInserted(R, list, p, i)
  BY InsertedAt DEF R
<1>5. /\ Len(R) = L + 1 /\ R[p] = i
      /\ \A k \in 1..(p - 1) : R[k] = list[k]
      /\ \A k \in (p + 1)..(L + 1) : R[k] = list[k - 1]
  BY <1>4 DEF IsInserted
<1>6. \A k \in 1..(p - 1) : k \in 1..L /\ k \notin later /\ date(k) <= a.s[i].date
  <2> SUFFICES ASSUME NEW k \in 1..(p - 1)
               PROVE  k \in 1..L /\ k \notin later /\ date(k) <= a.s[i].date
    OBVIOUS
  <2>1. k \in 1..L /\ ~(p <= k)
    BY <1>1, <1>4
  <2> QED
    BY <1>1, <1>4, <2>1
<1>7. \A k \in p..L : k \in 1..L /\ a.s[i].date <= date(k)
  <2> SUFFICES ASSUME NEW k \in p..L
               PROVE  k \in 1..L /\ a.s[i].date <= date(k)
    OBVIOUS
  <2>1. k \in 1..L /\ p \in 1..L /\ p <= k /\ p # L + 1
    BY <1>1, <1>4
  <2>2. a.s[i].date <= date(p) /\ date(p) <= date(k)
    BY <1>1, <1>3, <1>4, <2>1
  <2> QED
    BY <1>2, <2>1, <2>2
<1> DEFINE new(k) == a.s[R[k]].date
<1>8. /\ new(p) = a.s[i].date
      /\ \A k \in 1..(p - 1) : new(k) = date(k)
      /\ \A k \in (p + 1)..(L + 1) : new(k) = date(k - 1)
  BY <1>5
<1> HIDE DEF date, new
<1> SUFFICES ASSUME NEW j \in 1..(L + 1), NEW k \in 1..(L + 1), j <= k
             PROVE  new(j) <= new(k)
  BY <1>5 DEF InTurn, new, R
<1>9. \A m \in (p + 1)..(L + 1) : m - 1 \in p..L
  BY <1>1
<1>10. CASE k \in 1..(p - 1)
  <2>1. j \in 1..(p - 1)
    BY <1>10
  <2> QED
    BY <1>3, <1>6, <1>8, <1>10, <2>1
<1>11. CASE k = p
  <2>1. j \in 1..(p - 1) \/ j = p
    BY <1>11
  <2> QED
    BY <1>2, <1>6, <1>8, <1>11, <2>1
<1>12. CASE k \in (p + 1)..(L + 1)
  <2>1. CASE j \in 1..(p - 1)
    <3>1. j <= k - 1 /\ j \in 1..L /\ k - 1 \in 1..L
      BY <1>6, <1>7, <1>9, <1>12, <2>1
    <3> QED
      BY <1>3, <1>8, <1>12, <2>1, <3>1
  <2>2. CASE j = p
    BY <1>7, <1>8, <1>9, <1>12, <2>2
  <2>3. CASE j \in (p + 1)..(L + 1)
    <3>1. j - 1 <= k - 1 /\ j - 1 \in 1..L /\ k - 1 \in 1..L
      BY <1>7, <1>9, <1>12, <2>3
    <3> QED
      BY <1>3, <1>8, <1>12, <2>3, <3>1
  <2> QED
    BY <1>1, <2>1, <2>2, <2>3
<1> QED
  BY <1>1, <1>10, <1>11, <1>12

LEMMA InsertedInTurn ==
  ASSUME NEW a \in AccType, NEW list \in Seq(SplitId), InTurn(a, list), NEW i \in SplitId
  PROVE  InTurn(a, Inserted(a, list, i))
<1> DEFINE later == {k \in DOMAIN list : Before(a, i, list[k])}
<1>1. Inserted(a, list, i) = InsertBefore(list, later, i) /\ later \in SUBSET (DOMAIN list)
  BY DEF Inserted
<1>2. a.s[i].date \in Nat /\ \A k \in DOMAIN list : a.s[list[k]].date \in Nat
  BY AccFacts
<1>3. \A k \in DOMAIN list : IF k \in later THEN a.s[i].date <= a.s[list[k]].date
                              ELSE a.s[list[k]].date <= a.s[i].date
  BY <1>2 DEF Before
<1> HIDE DEF later
<1> QED
  BY <1>1, <1>3, InsertInTurn

\* A list that is sorted stays as it is.
LEMMA SortedAlready ==
  ASSUME NEW a \in AccType, NEW l \in LotId, InTurn(a, a.lot[l].splits)
  PROVE  SortLot(a, l) = a
<1> DEFINE list == a.lot[l].splits
           N == Len(list)
           later(q, i) == {k \in DOMAIN q : a.s[i].date < a.s[q[k]].date}
           placed(q, i) == InsertBefore(q, later(q, i), i)
           upTo(n) == SubSeq(list, 1, n)
           g == CHOOSE g : g = [n \in 0..N |-> IF n = 0 THEN <<>>
                                               ELSE placed(g[n - 1], list[n])]
<1>1. list \in Seq(SplitId) /\ N \in Nat /\ \A n \in 1..N : list[n] \in SplitId
  BY AccFacts
<1>2. SortLot(a, l) = [a EXCEPT !.lot[l].splits = g[N]]
  BY DEF SortLot
<1>3. upTo(0) = <<>> /\ upTo(N) = list
  BY <1>1
<1>4. ASSUME NEW n \in 1..N
      PROVE  placed(upTo(n - 1), list[n]) = upTo(n)
  <2> DEFINE q == upTo(n - 1)
             i == list[n]
  <2>1. n - 1 \in 0..N /\ n \in 0..N
    BY <1>1
  <2>2. q \in Seq(SplitId) /\ Len(q) = n - 1 /\ \A k \in 1..(n - 1) : q[k] = list[k]
    BY <1>1, <2>1
  <2>3. later(q, i) = {}
    <3> SUFFICES ASSUME NEW k \in DOMAIN q  PROVE ~(a.s[i].date < a.s[q[k]].date)
      OBVIOUS
    <3>1. k \in 1..(n - 1)
      BY <2>1, <2>2
    <3>2. k \in 1..N /\ k <= n /\ q[k] = list[k]
      BY <1>1, <2>2, <3>1
    <3>3. a.s[list[k]].date <= a.s[i].date
      BY <3>2 DEF InTurn
    <3>4. a.s[list[k]].date \in Nat /\ a.s[i].date \in Nat
      BY <1>1, <3>2, AccFacts
    <3> HIDE DEF q, i, list
    <3> QED
      BY <3>2, <3>3, <3>4
  <2>4. i \in SplitId /\ {} \in SUBSET (DOMAIN q)
    BY <1>1
  <2> DEFINE R == InsertBefore(q, {}, i)
  <2> HIDE DEF q, R
  <2>5. PICK p \in 1..(Len(q) + 1) :
           /\ p \in {} \cup {Len(q) + 1} /\ R \in Seq(SplitId) /\ IsInserted(R, q, p, i)
    BY <2>2, <2>4, InsertedAt DEF R
  <2>6. p = n
    BY <2>1, <2>2, <2>5
  <2>7. Len(R) = n /\ R[n] = i /\ \A k \in 1..(n - 1) : R[k] = q[k]
    BY <2>1, <2>2, <2>5, <2>6 DEF IsInserted
  <2>8. upTo(n) \in Seq(SplitId) /\ Len(upTo(n)) = n /\ \A k \in 1..n : upTo(n)[k] = list[k]
    BY <1>1, <2>1
  <2> HIDE DEF upTo
  <2>9. ASSUME NEW k \in 1..n
        PROVE  R[k] = upTo(n)[k]
    <3>1. upTo(n)[k] = list[k]
      BY <2>8
    <3>2. CASE k = n
      BY <2>7, <3>1, <3>2
    <3>3. CASE k # n
      <4>1. k \in 1..(n - 1)
        BY <1>1, <2>1, <3>3
      <4> QED
        BY <2>2, <2>7, <3>1, <4>1
    <3> QED
      BY <3>2, <3>3
  <2>10. R = upTo(n)
    BY <2>5, <2>7, <2>8, <2>9, SeqEqual
  <2> QED
    BY <2>3, <2>10 DEF R, q
<1> HIDE DEF upTo, placed, N, list
<1> DEFINE f == [n \in 0..N |-> upTo(n)]
<1>5. f = [n \in 0..N |-> IF n = 0 THEN <<>> ELSE placed(f[n - 1], list[n])]
  <2>1. \A n \in 0..N : n # 0 => n \in 1..N /\ n - 1 \in 0..N
    BY <1>1
  <2> QED
    BY <1>3, <1>4, <2>1
<1> HIDE DEF f
<1>6. g = [n \in 0..N |-> IF n = 0 THEN <<>> ELSE placed(g[n - 1], list[n])]
  BY <1>5
<1> HIDE DEF g
<1>7. g[0] = <<>> /\ \A n \in 1..N : g[n] = placed(g[n - 1], list[n])
  BY <1>1, <1>6
<1> DEFINE S == {n \in 0..N : g[n] = upTo(n)}
<1>8. 0 \in S
  BY <1>1, <1>3, <1>7
<1>9. \A n \in 0..(N - 1) : n \in S => n + 1 \in S
  <2> SUFFICES ASSUME NEW n \in 0..(N - 1), n \in S  PROVE n + 1 \in S
    OBVIOUS
  <2>1. n + 1 \in 1..N /\ (n + 1) - 1 = n /\ n + 1 \in 0..N
    BY <1>1
  <2> QED
    BY <1>4, <1>7, <2>1
<1>10. \A n \in 0..N : n \in S
  <2> HIDE DEF S
  <2> QED
    BY <1>1, <1>8, <1>9, UpTo
<1>11. g[N] = list
  <2>1. N \in 0..N
    BY <1>1
  <2> QED
    BY <1>3, <1>10, <2>1
<1>12. [a EXCEPT !.lot[l].splits = list] = a
  BY DEF AccType, LotType, list
<1> QED
  BY <1>2, <1>11, <1>12

IsSorting(old, new) ==
  /\ new \in Seq(SplitId)
  /\ ToSet(new) = ToSet(old)
  /\ IsInjective(old) => IsInjective(new)

LEMMA SortLotFacts ==
  ASSUME NEW a \in AccType, NEW l \in LotId
  PROVE  \E q : /\ SortLot(a, l) = [a EXCEPT !.lot[l].splits = q]
                /\ IsSorting(a.lot[l].splits, q)
<1> DEFINE T == Seq(SplitId)
           list == a.lot[l].splits
           N == Len(list)
           later(q, i) == {k \in DOMAIN q : a.s[i].date < a.s[q[k]].date}
           placed(q, i) == InsertBefore(q, later(q, i), i)
           step == [p \in (1..N) \X T |-> placed(p[2], list[p[1]])]
           g == CHOOSE g : g = [n \in 0..N |-> IF n = 0 THEN <<>>
                                               ELSE placed(g[n - 1], list[n])]
<1>1. list \in Seq(SplitId) /\ N \in Nat /\ <<>> \in T /\ \A n \in 1..N : list[n] \in SplitId
  BY AccFacts
<1>2. \A q, i : later(q, i) \in SUBSET (DOMAIN q)
  OBVIOUS
<1>3. \A n \in 1..N, x \in T : placed(x, list[n]) \in T
  <2> HIDE DEF later
  <2> QED
    BY <1>1, <1>2, InsertFacts
<1>4. \A n \in 1..N, x \in T : step[<<n, x>>] = placed(x, list[n])
  OBVIOUS
<1>5. SortLot(a, l) = [a EXCEPT !.lot[l].splits = g[N]]
  BY DEF SortLot
<1> HIDE DEF step, N, placed, list
<1>6. PICK f : IsLoop(f, <<>>, step, T, N)
  <2>1. \A n \in 1..N, x \in T : step[<<n, x>>] \in T
    BY <1>3, <1>4
  <2> QED
    BY <1>1, <2>1, LoopExists
<1>7. f = [n \in 0..N |-> IF n = 0 THEN <<>> ELSE placed(f[n - 1], list[n])]
  <2>1. \A n \in 0..N : n # 0 => n \in 1..N /\ f[n - 1] \in T
    BY <1>1, <1>6 DEF IsLoop
  <2>2. \A n \in 0..N : f[n] = IF n = 0 THEN <<>> ELSE step[<<n, f[n - 1]>>]
    BY <1>6 DEF IsLoop
  <2>3. \A n \in 0..N : f[n] = IF n = 0 THEN <<>> ELSE placed(f[n - 1], list[n])
    BY <1>4, <2>1, <2>2
  <2>4. f = [n \in 0..N |-> f[n]]
    BY <1>6 DEF IsLoop
  <2> QED
    BY <2>3, <2>4
<1>8. g = [n \in 0..N |-> IF n = 0 THEN <<>> ELSE placed(g[n - 1], list[n])]
  BY <1>7
<1> HIDE DEF g
<1>9. g[0] = <<>> /\ \A n \in 1..N : g[n] = placed(g[n - 1], list[n])
  BY <1>1, <1>8
<1>10. IsSorting(list, g[N])
  <2>1. \A n \in 1..N : \E L \in SUBSET (DOMAIN g[n - 1]) : g[n] = InsertBefore(g[n - 1], L, list[n])
    BY <1>2, <1>9 DEF placed
  <2> QED
    BY <1>1, <1>9, <2>1, Insertions DEF IsSorting, N
<1> QED
  BY <1>5, <1>10 DEF list

LEMMA AccountCommitFacts ==
  ASSUME NEW a \in AccType
  PROVE  \E q : /\ AccountCommit(a) = [a EXCEPT !.list = q, !.unsorted = FALSE]
                /\ IsSorting(a.list, q)
                /\ a.unsorted => InTurn(a, q)
                /\ ~a.unsorted => q = a.list
<1> DEFINE T == Seq(SplitId)
           list == a.list
           N == Len(list)
           step == [p \in (1..N) \X T |-> Inserted(a, p[2], list[p[1]])]
           g == CHOOSE g : g = [n \in 0..N |-> IF n = 0 THEN <<>>
                                               ELSE Inserted(a, g[n - 1], list[n])]
<1>1. list \in Seq(SplitId) /\ N \in Nat /\ <<>> \in T /\ \A n \in 1..N : list[n] \in SplitId
  BY AccFacts
<1>2. \A q, i : \E later \in SUBSET (DOMAIN q) : Inserted(a, q, i) = InsertBefore(q, later, i)
  <2> SUFFICES ASSUME NEW q, NEW i
               PROVE  \E later \in SUBSET (DOMAIN q) : Inserted(a, q, i) = InsertBefore(q, later, i)
    OBVIOUS
  <2> DEFINE L == {k \in DOMAIN q : Before(a, i, q[k])}
  <2>1. L \in SUBSET (DOMAIN q) /\ Inserted(a, q, i) = InsertBefore(q, L, i)
    BY DEF Inserted
  <2> HIDE DEF L
  <2> QED
    BY <2>1
<1>3. \A n \in 1..N, x \in T : Inserted(a, x, list[n]) \in T
  <2> SUFFICES ASSUME NEW n \in 1..N, NEW x \in T  PROVE Inserted(a, x, list[n]) \in T
    OBVIOUS
  <2> DEFINE i == list[n]
  <2>1. i \in SplitId
    BY <1>1
  <2> HIDE DEF i
  <2>2. PICK L \in SUBSET (DOMAIN x) : Inserted(a, x, i) = InsertBefore(x, L, i)
    BY <1>2
  <2>3. InsertBefore(x, L, i) \in T
    BY <2>1, InsertFacts
  <2> QED
    BY <2>2, <2>3 DEF i
<1>4. \A n \in 1..N, x \in T : step[<<n, x>>] = Inserted(a, x, list[n])
  OBVIOUS
<1>5. AccountCommit(a) = [a EXCEPT !.list = IF a.unsorted THEN g[N] ELSE a.list,
                                   !.unsorted = FALSE]
  BY DEF AccountCommit, AccType
<1> HIDE DEF step, N, list
<1>6. PICK f : IsLoop(f, <<>>, step, T, N)
  <2>1. \A n \in 1..N, x \in T : step[<<n, x>>] \in T
    BY <1>3, <1>4
  <2> QED
    BY <1>1, <2>1, LoopExists
<1>7. f = [n \in 0..N |-> IF n = 0 THEN <<>> ELSE Inserted(a, f[n - 1], list[n])]
  <2>1. \A n \in 0..N : n # 0 => n \in 1..N /\ f[n - 1] \in T
    BY <1>1, <1>6 DEF IsLoop
  <2>2. \A n \in 0..N : f[n] = IF n = 0 THEN <<>> ELSE step[<<n, f[n - 1]>>]
    BY <1>6 DEF IsLoop
  <2>3. \A n \in 0..N : f[n] = IF n = 0 THEN <<>> ELSE Inserted(a, f[n - 1], list[n])
    BY <1>4, <2>1, <2>2
  <2>4. f = [n \in 0..N |-> f[n]]
    BY <1>6 DEF IsLoop
  <2> QED
    BY <2>3, <2>4
<1>8. g = [n \in 0..N |-> IF n = 0 THEN <<>> ELSE Inserted(a, g[n - 1], list[n])]
  BY <1>7
<1> HIDE DEF g
<1>9. g[0] = <<>> /\ \A n \in 1..N : g[n] = Inserted(a, g[n - 1], list[n])
  BY <1>1, <1>8
<1>10. IsSorting(list, g[N])
  <2>1. \A n \in 1..N : \E L \in SUBSET (DOMAIN g[n - 1]) : g[n] = InsertBefore(g[n - 1], L, list[n])
    BY <1>2, <1>9
  <2> QED
    BY <1>1, <1>9, <2>1, Insertions DEF IsSorting, N
<1>11. InTurn(a, g[N])
  <2> DEFINE S == {x \in T : InTurn(a, x)}
  <2>1. g[0] \in S
    BY <1>1, <1>9 DEF InTurn
  <2>2. \A n \in 1..N : g[n - 1] \in S => g[n] \in S
    BY <1>1, <1>3, <1>9, InsertedInTurn
  <2> HIDE DEF S
  <2>3. \A n \in 0..N : g[n] \in S
    BY <1>1, <2>1, <2>2, LoopStays
  <2> QED
    BY <1>1, <2>3 DEF S
<1>12. IsSorting(list, list)
  BY <1>1 DEF IsSorting
<1> DEFINE q == IF a.unsorted THEN g[N] ELSE list
<1>13. AccountCommit(a) = [a EXCEPT !.list = q, !.unsorted = FALSE]
  BY <1>5 DEF list
<1>14. IsSorting(list, q) /\ (a.unsorted => InTurn(a, q)) /\ (~a.unsorted => q = list)
  BY <1>10, <1>11, <1>12
<1> HIDE DEF q
<1> QED
  BY <1>13, <1>14 DEF list

-----------------------------------------------------------------------------
(* What a scrub keeps.                                                     *)

CacheKept(a, b) == \A l \in LotId : RightCache(a, l) => RightCache(b, l)
LotsKept(a, b, made) == ToSet(b.lots) \subseteq ToSet(a.lots) \cup made

\* What each call of a scrub does to the account, made being the lots it makes.
Scrubs(a, b, made) ==
  AccInv(b) /\ SameSums(a, b) /\ CacheKept(a, b) /\ LotsKept(a, b, made)

\* Only caches and the order of lots change.
Looks(a, b) ==
  /\ b \in AccType
  /\ b.s = a.s /\ b.list = a.list /\ b.lots = a.lots /\ b.full = a.full
  /\ \A l \in LotId : IsSorting(a.lot[l].splits, b.lot[l].splits)
  /\ \A l \in LotId : b.lot[l].closed = a.lot[l].closed \/ RightCache(b, l)

LEMMA ScrubsNothing ==
  ASSUME NEW a, AccInv(a)
  PROVE  Scrubs(a, a, {})
BY DEF Scrubs, SameSums, CacheKept, LotsKept

LEMMA ScrubsBoth ==
  ASSUME NEW a, NEW b, NEW c, NEW made, NEW more, Scrubs(a, b, made), Scrubs(b, c, more)
  PROVE  Scrubs(a, c, made \cup more)
BY DEF Scrubs, SameSums, CacheKept, LotsKept

LEMMA EmptyList ==
  ASSUME NEW T, NEW list \in Seq(T)
  PROVE  list = <<>> <=> ToSet(list) = {}
<1>1. CASE list = <<>>
  BY <1>1 DEF ToSet
<1>2. CASE list # <<>>
  <2>1. 1 \in DOMAIN list
    BY <1>2
  <2>2. list[1] \in ToSet(list)
    BY <2>1 DEF ToSet
  <2> QED
    BY <1>2, <2>2
<1> QED
  BY <1>1, <1>2

\* Whether a lot is used up depends on the splits in it and their amounts.
LEMMA SameUse ==
  ASSUME NEW a \in AccType, NEW b \in AccType, NEW l \in LotId,
         ToSet(b.lot[l].splits) = ToSet(a.lot[l].splits),
         \A i \in ToSet(a.lot[l].splits) : b.s[i].amt = a.s[i].amt
  PROVE  UsedUp(b, l) <=> UsedUp(a, l)
<1> DEFINE ids == ToSet(a.lot[l].splits)
<1>1. ids \in SUBSET SplitId
  BY AccFacts
<1>2. a.lot[l].splits = <<>> <=> ids = {}
  BY AccFacts, EmptyList
<1>3. b.lot[l].splits = <<>> <=> ids = {}
  BY AccFacts, EmptyList
<1>4. Balance(a, l) = Total(a, ids) /\ Balance(b, l) = Total(b, ids)
  BY DEF Balance
<1>5. \A i \in ids : b.s[i].amt = a.s[i].amt
  OBVIOUS
<1> HIDE DEF ids
<1>6. Total(a, ids) = Total(b, ids)
  BY <1>1, <1>5, TotalSame
<1> QED
  BY <1>2, <1>3, <1>4, <1>6 DEF UsedUp

LEMMA LooksUse ==
  ASSUME NEW a \in AccType, NEW b, Looks(a, b), NEW l \in LotId
  PROVE  UsedUp(b, l) <=> UsedUp(a, l)
BY SameUse DEF Looks, IsSorting

LEMMA LooksScrubs ==
  ASSUME NEW a, AccInv(a), NEW b, Looks(a, b)
  PROVE  Scrubs(a, b, {})
<1>1. a \in AccType /\ b \in AccType /\ Agrees(a) /\ NoOwnPeer(a)
  BY DEF AccInv, Looks
<1>2. b.s = a.s /\ b.list = a.list /\ b.lots = a.lots
  BY DEF Looks
<1>3. Used(b) = Used(a) /\ SameSums(a, b)
  BY <1>2, SameAmounts
<1>4. \A l \in LotId : IsSorting(a.lot[l].splits, b.lot[l].splits)
  BY DEF Looks
<1>5. Agrees(b)
  BY <1>1, <1>2, <1>3, <1>4 DEF Agrees, IsSorting
<1>6. NoOwnPeer(b)
  BY <1>1, <1>2 DEF NoOwnPeer
<1>7. CacheKept(a, b)
  BY <1>1, LooksUse DEF CacheKept, RightCache, Looks
<1> QED
  BY <1>1, <1>2, <1>3, <1>5, <1>6, <1>7 DEF Scrubs, AccInv, LotsKept

LEMMA LooksBoth ==
  ASSUME NEW a \in AccType, NEW b, NEW c, Looks(a, b), Looks(b, c)
  PROVE  Looks(a, c)
<1>1. b \in AccType /\ c \in AccType
  BY DEF Looks
<1>2. /\ c.s = a.s /\ c.list = a.list /\ c.lots = a.lots /\ c.full = a.full
      /\ \A l \in LotId : IsSorting(a.lot[l].splits, c.lot[l].splits)
  BY DEF Looks, IsSorting
<1>3. ASSUME NEW l \in LotId
      PROVE  c.lot[l].closed = a.lot[l].closed \/ RightCache(c, l)
  <2>1. UsedUp(c, l) <=> UsedUp(b, l)
    BY <1>1, LooksUse
  <2>2. \/ c.lot[l].closed = b.lot[l].closed
        \/ RightCache(c, l)
    BY DEF Looks
  <2>3. b.lot[l].closed = a.lot[l].closed \/ RightCache(b, l)
    BY DEF Looks
  <2> QED
    BY <2>1, <2>2, <2>3 DEF RightCache
<1> QED
  BY <1>1, <1>2, <1>3 DEF Looks

LEMMA KnownLooks ==
  ASSUME NEW a \in AccType, NEW l \in LotId
  PROVE  Looks(a, Known(a, l)) /\ RightCache(Known(a, l), l)
<1> DEFINE b == Known(a, l)
           answer == IF UsedUp(a, l) THEN "yes" ELSE "no"
<1>1. b = [a EXCEPT !.lot[l].closed = answer]
  BY DEF Known
<1>2. answer \in {"unknown", "yes", "no"}
  OBVIOUS
<1> HIDE DEF answer, b
<1>3. b \in AccType
  BY <1>1, <1>2 DEF AccType, LotType
<1>4. /\ b.s = a.s /\ b.list = a.list /\ b.lots = a.lots /\ b.full = a.full
      /\ b.lot[l].closed = answer
      /\ \A k \in LotId : /\ b.lot[k].splits = a.lot[k].splits
                          /\ k # l => b.lot[k].closed = a.lot[k].closed
  BY <1>1 DEF AccType, LotType
<1>5. UsedUp(b, l) <=> UsedUp(a, l)
  BY <1>3, <1>4, SameUse
<1>6. RightCache(b, l)
  BY <1>4, <1>5 DEF RightCache, answer
<1>7. \A k \in LotId : IsSorting(a.lot[k].splits, b.lot[k].splits)
  BY <1>4, AccFacts DEF IsSorting
<1>8. \A k \in LotId : b.lot[k].closed = a.lot[k].closed \/ RightCache(b, k)
  BY <1>4, <1>6
<1>9. Looks(a, b)
  BY <1>3, <1>4, <1>7, <1>8 DEF Looks
<1> QED
  BY <1>6, <1>9 DEF b

LEMMA LooksAtNothing ==
  ASSUME NEW a \in AccType
  PROVE  Looks(a, a)
BY AccFacts DEF Looks, IsSorting

LEMMA AskLooks ==
  ASSUME NEW a \in AccType, NEW l \in LotId
  PROVE  Looks(a, Ask(a, l))
BY KnownLooks, LooksAtNothing DEF Ask

LEMMA SortLotLooks ==
  ASSUME NEW a \in AccType, NEW l \in LotId
  PROVE  Looks(a, SortLot(a, l))
<1>1. PICK q : SortLot(a, l) = [a EXCEPT !.lot[l].splits = q] /\ IsSorting(a.lot[l].splits, q)
  BY SortLotFacts
<1> DEFINE b == [a EXCEPT !.lot[l].splits = q]
<1>2. q \in Seq(SplitId)
  BY <1>1 DEF IsSorting
<1>3. b \in AccType
  BY <1>2 DEF AccType, LotType
<1>4. /\ b.s = a.s /\ b.list = a.list /\ b.lots = a.lots /\ b.full = a.full
      /\ b.lot[l].splits = q
      /\ \A k \in LotId : /\ b.lot[k].closed = a.lot[k].closed
                          /\ k # l => b.lot[k].splits = a.lot[k].splits
  BY DEF AccType, LotType
<1> HIDE DEF b
<1>5. \A k \in LotId : IsSorting(a.lot[k].splits, a.lot[k].splits)
  BY AccFacts DEF IsSorting
<1>6. \A k \in LotId : IsSorting(a.lot[k].splits, b.lot[k].splits)
  BY <1>1, <1>4, <1>5
<1>7. Looks(a, b)
  BY <1>3, <1>4, <1>6 DEF Looks
<1> QED
  BY <1>1, <1>7 DEF b

LEMMA AskOneLooks ==
  ASSUME NEW a \in AccType, NEW l \in LotId
  PROVE  Looks(a, AskOne(a, l))
<1> DEFINE b == Ask(a, l)
           c == SortLot(Known(b, l), l)
<1>1. Looks(a, b) /\ b \in AccType
  BY AskLooks DEF Looks
<1>2. Looks(b, Known(b, l)) /\ Known(b, l) \in AccType
  BY <1>1, KnownLooks DEF Looks
<1>3. Looks(Known(b, l), c)
  BY <1>2, SortLotLooks
<1>4. Looks(b, c)
  BY <1>1, <1>2, <1>3, LooksBoth
<1>5. Looks(a, c)
  BY <1>1, <1>4, LooksBoth
<1>6. AskOne(a, l) = b \/ AskOne(a, l) = c
  BY DEF AskOne
<1> QED
  BY <1>1, <1>5, <1>6

\* What the loop of AskAll has after n rounds
AsksAll(a, g) ==
  /\ g[0] = a /\ AskAll(a) = g[Len(a.lots)]
  /\ \A n \in 1..Len(a.lots) : g[n] = AskOne(g[n - 1], a.lots[n])
  /\ \A n \in 0..Len(a.lots) : g[n] \in AccType /\ Looks(a, g[n])

LEMMA AskAllRun ==
  ASSUME NEW a \in AccType
  PROVE  /\ Len(a.lots) \in Nat /\ \A n \in 1..Len(a.lots) : a.lots[n] \in LotId
         /\ \E g : AsksAll(a, g)
<1> DEFINE N == Len(a.lots)
           S == {x \in AccType : Looks(a, x)}
           step == [p \in (1..N) \X S |-> AskOne(p[2], a.lots[p[1]])]
           g == CHOOSE g : g = [n \in 0..N |-> IF n = 0 THEN a
                                               ELSE AskOne(g[n - 1], a.lots[n])]
<1>1. N \in Nat /\ \A n \in 1..N : a.lots[n] \in LotId
  BY AccFacts
<1>2. a \in S
  BY LooksAtNothing
<1>3. \A n \in 1..N, x \in S : AskOne(x, a.lots[n]) \in S
  <2> SUFFICES ASSUME NEW n \in 1..N, NEW x \in S  PROVE AskOne(x, a.lots[n]) \in S
    OBVIOUS
  <2>1. a.lots[n] \in LotId
    BY <1>1
  <2> DEFINE y == AskOne(x, a.lots[n])
  <2>2. Looks(x, y)
    BY <2>1, AskOneLooks
  <2> HIDE DEF y
  <2>3. Looks(a, y) /\ y \in AccType
    BY <2>2, LooksBoth DEF Looks
  <2> QED
    BY <2>3 DEF y
<1>4. \A n \in 1..N, x \in S : step[<<n, x>>] = AskOne(x, a.lots[n])
  OBVIOUS
<1>5. AskAll(a) = g[N]
  BY DEF AskAll
<1> HIDE DEF step, N, S
<1>6. PICK f : IsLoop(f, a, step, S, N)
  <2>1. \A n \in 1..N, x \in S : step[<<n, x>>] \in S
    BY <1>3, <1>4
  <2> QED
    BY <1>1, <1>2, <2>1, LoopExists
<1>7. f = [n \in 0..N |-> IF n = 0 THEN a ELSE AskOne(f[n - 1], a.lots[n])]
  <2>1. \A n \in 0..N : n # 0 => n \in 1..N /\ f[n - 1] \in S
    BY <1>1, <1>6 DEF IsLoop
  <2>2. \A n \in 0..N : f[n] = IF n = 0 THEN a ELSE step[<<n, f[n - 1]>>]
    BY <1>6 DEF IsLoop
  <2>3. \A n \in 0..N : f[n] = IF n = 0 THEN a ELSE AskOne(f[n - 1], a.lots[n])
    BY <1>4, <2>1, <2>2
  <2>4. f = [n \in 0..N |-> f[n]]
    BY <1>6 DEF IsLoop
  <2> QED
    BY <2>3, <2>4
<1>8. g = [n \in 0..N |-> IF n = 0 THEN a ELSE AskOne(g[n - 1], a.lots[n])]
  BY <1>7
<1> HIDE DEF g
<1>9. g[0] = a /\ \A n \in 1..N : g[n] = AskOne(g[n - 1], a.lots[n])
  BY <1>1, <1>8
<1>10. \A n \in 0..N : g[n] \in S
  BY <1>1, <1>2, <1>3, <1>9, LoopStays
<1>11. AsksAll(a, g)
  BY <1>5, <1>9, <1>10 DEF S, AsksAll, N
<1> QED
  BY <1>1, <1>11 DEF N

LEMMA AskAllLooks ==
  ASSUME NEW a \in AccType
  PROVE  Looks(a, AskAll(a))
<1> DEFINE N == Len(a.lots)
<1>1. N \in Nat
  BY AskAllRun
<1>2. PICK g : AsksAll(a, g)
  BY AskAllRun
<1> QED
  BY <1>1, <1>2 DEF AsksAll

LEMMA EndsOfLot ==
  ASSUME NEW a \in AccType, NEW l \in LotId, a.lot[l].splits # <<>>
  PROVE  /\ Earliest(a, l) \in ToSet(a.lot[l].splits)
         /\ Latest(a, l) \in ToSet(a.lot[l].splits)
<1> DEFINE q == SortLot(a, l).lot[l].splits
<1>1. IsSorting(a.lot[l].splits, q)
  BY SortLotLooks DEF Looks
<1>2. q \in Seq(SplitId) /\ ToSet(q) = ToSet(a.lot[l].splits) /\ q # <<>>
  BY <1>1, AccFacts, EmptyList DEF IsSorting
<1>3. Earliest(a, l) = Head(q) /\ Latest(a, l) = q[Len(q)]
  BY DEF Earliest, Latest, Last
<1> HIDE DEF q
<1>4. Len(q) \in Nat /\ Len(q) # 0 /\ Head(q) = q[1]
  BY <1>2
<1>5. 1 \in 1..Len(q) /\ Len(q) \in 1..Len(q)
  BY <1>4
<1> QED
  BY <1>2, <1>3, <1>4, <1>5, ListFacts

-----------------------------------------------------------------------------
(* Taking splits out of lots and putting them in.                          *)

LEMMA MarkFacts ==
  ASSUME NEW a, AccInv(a), NEW ids
  PROVE  /\ AccInv(Mark(a, ids))
         /\ Mark(a, ids).s = a.s /\ Mark(a, ids).list = a.list
         /\ Mark(a, ids).lots = a.lots /\ Mark(a, ids).full = a.full
         /\ \A l \in LotId :
              /\ Mark(a, ids).lot[l].splits = a.lot[l].splits
              /\ Mark(a, ids).lot[l].closed =
                   IF \E i \in ids : a.s[i].lot = l THEN "unknown" ELSE a.lot[l].closed
<1> DEFINE of(l) == \E i \in ids : a.s[i].lot = l
           b == Mark(a, ids)
<1>1. a \in AccType
  BY DEF AccInv
<1>2. b = [a EXCEPT !.unsorted = TRUE,
                    !.lot = [l \in LotId |-> IF of(l) THEN [a.lot[l] EXCEPT !.closed = "unknown"]
                                             ELSE a.lot[l]]]
  BY <1>1 DEF Mark, AccType
<1>3. \A l \in LotId : a.lot[l] \in LotType
  BY <1>1, AccFacts
<1> HIDE DEF of, b
<1>4. /\ b.s = a.s /\ b.list = a.list /\ b.lots = a.lots /\ b.full = a.full /\ b.unsorted = TRUE
      /\ b.lot = [l \in LotId |-> IF of(l) THEN [a.lot[l] EXCEPT !.closed = "unknown"]
                                  ELSE a.lot[l]]
  BY <1>1, <1>2 DEF AccType
<1>5. \A l \in LotId : /\ b.lot[l].splits = a.lot[l].splits
                       /\ b.lot[l].closed = IF of(l) THEN "unknown" ELSE a.lot[l].closed
                       /\ b.lot[l] \in LotType
  BY <1>3, <1>4 DEF LotType
<1>6. b \in AccType
  <2>1. b.lot \in [LotId -> LotType]
    BY <1>4, <1>5
  <2>2. b = [a EXCEPT !.unsorted = TRUE, !.lot = b.lot]
    BY <1>2, <1>4
  <2> QED
    BY <1>1, <2>1, <2>2 DEF AccType
<1>7. Used(b) = Used(a)
  BY <1>4 DEF Used
<1>8. Agrees(b) /\ NoOwnPeer(b)
  BY <1>4, <1>5, <1>7 DEF AccInv, Agrees, NoOwnPeer
<1> QED
  BY <1>4, <1>5, <1>6, <1>8 DEF AccInv, b, of

IsRemoved(a, b, ids) ==
  /\ AccInv(b)
  /\ b.list = a.list /\ b.full = a.full
  /\ ToSet(b.lots) \subseteq ToSet(a.lots)
  /\ \A i \in SplitId : b.s[i] = IF i \in ids THEN [a.s[i] EXCEPT !.lot = NoLot] ELSE a.s[i]
  /\ \A l \in LotId :
       /\ ToSet(b.lot[l].splits) = ToSet(a.lot[l].splits) \ ids
       /\ \/ b.lot[l].closed = "unknown"
          \/ b.lot[l] = a.lot[l] /\ \A i \in ids : a.s[i].lot # l

LEMMA RemoveFacts ==
  ASSUME NEW a, AccInv(a), NEW ids \in SUBSET Used(a)
  PROVE  IsRemoved(a, RemoveSplits(a, ids), ids)
<1> DEFINE from == {l \in LotId : \E i \in ids : a.s[i].lot = l}
           left(l) == Without(a.lot[l].splits, ids)
           gone == {l \in from : left(l) = <<>>}
           emptied(l) == [splits |-> left(l), closed |-> "unknown"]
           cleared(i) == [a.s[i] EXCEPT !.lot = NoLot]
           b == RemoveSplits(a, ids)
<1>1. a \in AccType /\ Agrees(a) /\ NoOwnPeer(a) /\ ids \in SUBSET SplitId
  BY DEF AccInv, Used
<1>2. b = [a EXCEPT !.s = [i \in SplitId |-> IF i \in ids THEN cleared(i) ELSE a.s[i]],
                    !.unsorted = TRUE,
                    !.lot = [l \in LotId |-> IF l \in from THEN emptied(l) ELSE a.lot[l]],
                    !.lots = Without(a.lots, gone)]
  BY <1>1 DEF RemoveSplits, AccType
<1>3. \A l \in LotId : /\ left(l) \in Seq(SplitId)
                       /\ ToSet(left(l)) = ToSet(a.lot[l].splits) \ ids
                       /\ IsInjective(left(l))
  BY <1>1, AccFacts, WithoutFacts DEF Agrees
<1>4. /\ Without(a.lots, gone) \in Seq(LotId)
      /\ ToSet(Without(a.lots, gone)) = ToSet(a.lots) \ gone
      /\ IsInjective(Without(a.lots, gone))
  <2> HIDE DEF gone
  <2> QED
    BY <1>1, AccFacts, WithoutFacts DEF Agrees
<1>5. \A i \in SplitId : /\ cleared(i) \in SplitType /\ a.s[i] \in SplitType
                         /\ cleared(i).lot = 0 /\ cleared(i).trans = a.s[i].trans
                         /\ cleared(i).peers = a.s[i].peers
  <2> SUFFICES ASSUME NEW i \in SplitId
               PROVE  /\ cleared(i) \in SplitType /\ a.s[i] \in SplitType
                      /\ cleared(i).lot = 0 /\ cleared(i).trans = a.s[i].trans
                      /\ cleared(i).peers = a.s[i].peers
    OBVIOUS
  <2>1. a.s[i] \in SplitType /\ NoLot = 0 /\ NoLot \in 0..MaxLots
    BY <1>1, AccFacts, Bounds
  <2> QED
    BY <2>1 DEF SplitType
<1>6. \A l \in from : l \in LotId
  OBVIOUS
<1>7. \A l \in LotId : a.lot[l] \in LotType
  BY <1>1, AccFacts
<1>8. \A l \in LotId : l \in from <=> \E i \in ids : a.s[i].lot = l
  OBVIOUS
<1>9. gone = {l \in from : ToSet(a.lot[l].splits) \subseteq ids}
  BY <1>3, EmptyList
<1>20. \A l \in LotId : /\ emptied(l) \in LotType
                        /\ emptied(l).splits = left(l) /\ emptied(l).closed = "unknown"
  <2> HIDE DEF left
  <2> QED
    BY <1>3 DEF LotType
<1> HIDE DEF from, left, gone, cleared, emptied, b
<1>10. /\ b.s = [i \in SplitId |-> IF i \in ids THEN cleared(i) ELSE a.s[i]]
       /\ b.list = a.list /\ b.full = a.full /\ b.unsorted = TRUE
       /\ b.lot = [l \in LotId |-> IF l \in from THEN emptied(l) ELSE a.lot[l]]
       /\ b.lots = Without(a.lots, gone)
  BY <1>1, <1>2 DEF AccType
<1>11. \A i \in SplitId : b.s[i] = IF i \in ids THEN cleared(i) ELSE a.s[i]
  BY <1>10
<1>12. \A l \in LotId : b.lot[l] = IF l \in from THEN emptied(l) ELSE a.lot[l]
  BY <1>10
<1>13. b \in AccType
  <2>1. b.s \in [SplitId -> SplitType]
    BY <1>5, <1>10
  <2>2. b.lot \in [LotId -> LotType]
    BY <1>7, <1>10, <1>20
  <2>3. b = [a EXCEPT !.s = b.s, !.unsorted = TRUE, !.lot = b.lot, !.lots = b.lots]
    BY <1>2, <1>10
  <2>4. b.lots \in Seq(LotId)
    BY <1>4, <1>10
  <2> HIDE DEF SplitType, LotType
  <2> QED
    BY <1>1, <2>1, <2>2, <2>3, <2>4 DEF AccType
<1>14. Used(b) = Used(a)
  BY <1>5, <1>11 DEF Used
<1>15. ASSUME NEW l \in LotId
       PROVE  /\ IsInjective(b.lot[l].splits)
              /\ ToSet(b.lot[l].splits) = ToSet(a.lot[l].splits) \ ids
              /\ ToSet(b.lot[l].splits) = {i \in Used(b) : b.s[i].lot = l}
              /\ ToSet(b.lot[l].splits) # {} => l \in ToSet(b.lots)
  <2>1. /\ IsInjective(a.lot[l].splits)
        /\ ToSet(a.lot[l].splits) = {i \in Used(a) : a.s[i].lot = l}
        /\ ToSet(a.lot[l].splits) # {} => l \in ToSet(a.lots)
    BY <1>1 DEF Agrees
  <2>2. IsInjective(b.lot[l].splits) /\ ToSet(b.lot[l].splits) = ToSet(a.lot[l].splits) \ ids
    <3>1. CASE l \in from
      <4>1. b.lot[l].splits = left(l)
        BY <1>12, <1>20, <3>1
      <4> QED
        BY <1>3, <4>1
    <3>2. CASE l \notin from
      <4>1. ToSet(a.lot[l].splits) \cap ids = {}
        BY <1>8, <2>1, <3>2
      <4> QED
        BY <1>12, <2>1, <3>2, <4>1
    <3> QED
      BY <3>1, <3>2
  <2>3. {i \in Used(b) : b.s[i].lot = l} = {i \in Used(a) : a.s[i].lot = l} \ ids
    <3>1. \A i \in Used(a) : i \in SplitId
      BY DEF Used
    <3>2. \A i \in Used(a) : b.s[i].lot = IF i \in ids THEN 0 ELSE a.s[i].lot
      BY <1>5, <1>11, <3>1
    <3>3. l # 0
      BY Bounds
    <3> QED
      BY <1>14, <3>2, <3>3
  <2>4. ToSet(b.lot[l].splits) # {} => l \in ToSet(b.lots)
    BY <1>4, <1>9, <1>10, <2>1, <2>2
  <2> QED
    BY <2>1, <2>2, <2>3, <2>4
<1>16. Agrees(b)
  BY <1>1, <1>4, <1>10, <1>14, <1>15 DEF Agrees
<1>17. NoOwnPeer(b)
  <2>1. \A i \in SplitId : b.s[i].peers = a.s[i].peers
    BY <1>5, <1>11
  <2> QED
    BY <1>1, <2>1 DEF NoOwnPeer
<1>18. \A l \in LotId : \/ b.lot[l].closed = "unknown"
                        \/ b.lot[l] = a.lot[l] /\ \A i \in ids : a.s[i].lot # l
  BY <1>8, <1>12, <1>20
<1>19. AccInv(b)
  BY <1>13, <1>16, <1>17 DEF AccInv
<1> QED
  BY <1>4, <1>10, <1>11, <1>15, <1>18, <1>19 DEF b, cleared, IsRemoved

HasOneMore(T, list, x, new) ==
  /\ new \in Seq(T)
  /\ ToSet(new) = ToSet(list) \cup {x}
  /\ IsInjective(list) /\ x \notin ToSet(list) => IsInjective(new)

LEMMA AddToList ==
  ASSUME NEW T, NEW list \in Seq(T), NEW x \in T
  PROVE  /\ HasOneMore(T, list, x, <<x>> \o list)
         /\ HasOneMore(T, list, x, Append(list, x))
<1> DEFINE N == Len(list)
           f == <<x>> \o list
           g == Append(list, x)
<1>1. N \in Nat /\ DOMAIN list = 1..N /\ ToSet(list) = {list[k] : k \in 1..N}
  BY ListFacts
<1>2. <<x>> \in Seq(T) /\ Len(<<x>>) = 1 /\ <<x>>[1] = x
  OBVIOUS
<1>3. /\ f \in Seq(T) /\ Len(f) = N + 1 /\ f[1] = x
      /\ \A k \in 2..(N + 1) : f[k] = list[k - 1]
  BY <1>1, <1>2, ConcatProperties
<1>4. /\ g \in Seq(T) /\ Len(g) = N + 1 /\ g[N + 1] = x
      /\ \A k \in 1..N : g[k] = list[k]
  BY <1>1
<1> HIDE DEF f, g, N
<1>5. \A k \in 1..(N + 1) : /\ k = 1 \/ (k \in 2..(N + 1) /\ k - 1 \in 1..N)
                            /\ k = N + 1 \/ k \in 1..N
  BY <1>1
<1>6. \A k \in 1..N : k + 1 \in 2..(N + 1) /\ (k + 1) - 1 = k /\ k \in 1..(N + 1)
  BY <1>1
<1>7. DOMAIN f = 1..(N + 1) /\ DOMAIN g = 1..(N + 1) /\ 1 \in 1..(N + 1) /\ N + 1 \in 1..(N + 1)
  BY <1>1, <1>3, <1>4
<1>8. ToSet(f) = ToSet(list) \cup {x}
  <2>1. \A k \in 1..(N + 1) : f[k] = x \/ f[k] \in ToSet(list)
    BY <1>1, <1>3, <1>5
  <2>2. \A k \in 1..N : list[k] \in {f[j] : j \in 1..(N + 1)}
    <3> SUFFICES ASSUME NEW k \in 1..N  PROVE \E j \in 1..(N + 1) : f[j] = list[k]
      OBVIOUS
    <3>1. f[k + 1] = list[k] /\ k + 1 \in 1..(N + 1)
      BY <1>1, <1>3, <1>6
    <3> QED
      BY <3>1
  <2>3. x \in {f[j] : j \in 1..(N + 1)}
    BY <1>3, <1>7
  <2>4. ToSet(f) = {f[j] : j \in 1..(N + 1)}
    BY <1>7 DEF ToSet
  <2> QED
    BY <1>1, <2>1, <2>2, <2>3, <2>4
<1>9. ToSet(g) = ToSet(list) \cup {x}
  <2>1. \A k \in 1..(N + 1) : g[k] = x \/ g[k] \in ToSet(list)
    BY <1>1, <1>4, <1>5
  <2>2. \A k \in 1..N : list[k] \in {g[j] : j \in 1..(N + 1)}
    BY <1>4, <1>6
  <2>3. x \in {g[j] : j \in 1..(N + 1)}
    BY <1>4, <1>7
  <2>4. ToSet(g) = {g[j] : j \in 1..(N + 1)}
    BY <1>7 DEF ToSet
  <2> QED
    BY <1>1, <2>1, <2>2, <2>3, <2>4
<1>10. ASSUME IsInjective(list), x \notin ToSet(list)
       PROVE  IsInjective(f) /\ IsInjective(g)
  <2>1. \A j, k \in 1..N : list[j] = list[k] => j = k
    BY <1>1, <1>10 DEF IsInjective
  <2>2. \A k \in 1..N : list[k] # x
    BY <1>1, <1>10
  <2>3. \A j, k \in 1..(N + 1) : f[j] = f[k] => j = k
    <3> SUFFICES ASSUME NEW j \in 1..(N + 1), NEW k \in 1..(N + 1), f[j] = f[k]  PROVE j = k
      OBVIOUS
    <3>1. CASE j = 1 \/ k = 1
      BY <1>3, <1>5, <2>2, <3>1
    <3>2. CASE j # 1 /\ k # 1
      <4>1. j - 1 \in 1..N /\ k - 1 \in 1..N /\ list[j - 1] = list[k - 1]
        BY <1>3, <1>5, <3>2
      <4>2. j - 1 = k - 1
        BY <2>1, <4>1
      <4> QED
        BY <1>1, <4>2
    <3> QED
      BY <3>1, <3>2
  <2>4. \A j, k \in 1..(N + 1) : g[j] = g[k] => j = k
    BY <1>4, <1>5, <2>1, <2>2
  <2> QED
    BY <1>7, <2>3, <2>4 DEF IsInjective
<1> QED
  <2>1. HasOneMore(T, list, x, f) /\ HasOneMore(T, list, x, g)
    BY <1>3, <1>4, <1>8, <1>9, <1>10 DEF HasOneMore
  <2> QED
    BY <2>1 DEF f, g

WithOneMore(lot, i) == [splits |-> Append(lot.splits, i), closed |-> "unknown"]

LEMMA WithOneMoreFacts ==
  ASSUME NEW lot \in LotType, NEW i \in SplitId,
         IsInjective(lot.splits), i \notin ToSet(lot.splits)
  PROVE  /\ WithOneMore(lot, i) \in LotType
         /\ WithOneMore(lot, i).splits = Append(lot.splits, i)
         /\ WithOneMore(lot, i).closed = "unknown"
         /\ IsInjective(WithOneMore(lot, i).splits)
         /\ ToSet(WithOneMore(lot, i).splits) = ToSet(lot.splits) \cup {i}
<1>1. /\ WithOneMore(lot, i).splits = Append(lot.splits, i)
      /\ WithOneMore(lot, i).closed = "unknown"
  BY DEF WithOneMore
<1>2. lot.splits \in Seq(SplitId)
  BY DEF LotType
<1>3. HasOneMore(SplitId, lot.splits, i, Append(lot.splits, i))
  BY <1>2, AddToList
<1> DEFINE new == WithOneMore(lot, i)
<1>4. HasOneMore(SplitId, lot.splits, i, new.splits)
  BY <1>1, <1>3
<1>5. new = [splits |-> new.splits, closed |-> "unknown"]
  BY DEF WithOneMore
<1> HIDE DEF new
<1>6. new.splits \in Seq(SplitId)
  BY <1>4 DEF HasOneMore
<1>7. new \in LotType
  BY <1>5, <1>6 DEF LotType
<1>8. IsInjective(new.splits) /\ ToSet(new.splits) = ToSet(lot.splits) \cup {i}
  BY <1>4 DEF HasOneMore
<1> QED
  BY <1>1, <1>7, <1>8 DEF new

\* What gnc_lot_add_split does to a split that is in no lot
Put(b, i, l) ==
  [b EXCEPT !.s[i].lot = l, !.unsorted = TRUE,
            !.lots = IF Contains(@, l) THEN @ ELSE <<l>> \o @,
            !.lot[l] = [splits |-> Append(@.splits, i), closed |-> "unknown"]]

IsAdded(a, b, i, l) ==
  /\ AccInv(b)
  /\ b.list = a.list /\ b.full = a.full
  /\ ToSet(b.lots) \subseteq ToSet(a.lots) \cup {l}
  /\ b.s[i].lot = l
  /\ \A k \in SplitId : /\ b.s[k].trans = a.s[k].trans /\ b.s[k].amt = a.s[k].amt
                        /\ b.s[k].peers = a.s[k].peers
                        /\ k # i => b.s[k] = a.s[k]
  /\ \A k \in LotId : \/ b.lot[k].closed = "unknown"
                      \/ k # l /\ b.lot[k] = a.lot[k]

LEMMA PutFacts ==
  ASSUME NEW a, AccInv(a), NEW i \in Used(a), a.s[i].lot = NoLot, NEW l \in LotId
  PROVE  IsAdded(a, Put(a, i, l), i, l)
<1> DEFINE b == Put(a, i, l)
           lots == IF Contains(a.lots, l) THEN a.lots ELSE <<l>> \o a.lots
           new == [splits |-> Append(a.lot[l].splits, i), closed |-> "unknown"]
<1>1. a \in AccType /\ Agrees(a) /\ NoOwnPeer(a) /\ i \in SplitId
  BY DEF AccInv, Used
<1>2. b = [a EXCEPT !.s[i].lot = l, !.unsorted = TRUE, !.lots = lots, !.lot[l] = new]
  BY <1>1 DEF Put, AccType
<1>3. /\ lots \in Seq(LotId) /\ IsInjective(lots)
      /\ ToSet(lots) = ToSet(a.lots) \cup {l}
  <2>1. Contains(a.lots, l) <=> l \in ToSet(a.lots)
    BY <1>1, AccFacts DEF Contains, ToSet
  <2>2. HasOneMore(LotId, a.lots, l, <<l>> \o a.lots)
    BY <1>1, AccFacts, AddToList
  <2> QED
    BY <1>1, <2>1, <2>2, AccFacts DEF Agrees, HasOneMore
<1>4. i \notin ToSet(a.lot[l].splits)
  BY <1>1, Bounds DEF Agrees
<1>5. /\ new \in LotType /\ new.splits = Append(a.lot[l].splits, i) /\ new.closed = "unknown"
      /\ IsInjective(new.splits) /\ ToSet(new.splits) = ToSet(a.lot[l].splits) \cup {i}
  <2>1. /\ a.lot[l] \in LotType /\ IsInjective(a.lot[l].splits)
        /\ i \in SplitId /\ i \notin ToSet(a.lot[l].splits)
    BY <1>1, <1>4, AccFacts DEF Agrees
  <2>2. new = WithOneMore(a.lot[l], i)
    BY DEF WithOneMore
  <2> HIDE DEF new
  <2> QED
    BY <2>1, <2>2, WithOneMoreFacts
<1> HIDE DEF lots, new, b
<1>6. b \in AccType
  <2>1. l \in 0..MaxLots
    BY Bounds
  <2>2. [a.s[i] EXCEPT !.lot = l] \in SplitType
    BY <1>1, <2>1, AccFacts DEF SplitType
  <2>3. [a.s EXCEPT ![i] = [a.s[i] EXCEPT !.lot = l]] \in [SplitId -> SplitType]
    BY <1>1, <2>2 DEF AccType
  <2>4. [a.lot EXCEPT ![l] = new] \in [LotId -> LotType]
    BY <1>1, <1>5 DEF AccType
  <2> HIDE DEF SplitType, LotType
  <2> QED
    BY <1>1, <1>2, <1>3, <2>3, <2>4 DEF AccType
<1>7. /\ b.list = a.list /\ b.full = a.full /\ b.lots = lots
      /\ \A k \in LotId : b.lot[k] = IF k = l THEN new ELSE a.lot[k]
  BY <1>1, <1>2 DEF AccType
<1>8. /\ b.s[i].lot = l
      /\ \A k \in SplitId : /\ b.s[k].trans = a.s[k].trans /\ b.s[k].amt = a.s[k].amt
                            /\ b.s[k].peers = a.s[k].peers
                            /\ k # i => b.s[k] = a.s[k]
  BY <1>1, <1>2 DEF AccType, SplitType
<1>9. Used(b) = Used(a)
  BY <1>8 DEF Used
<1>10. ASSUME NEW k \in LotId
       PROVE  /\ IsInjective(b.lot[k].splits)
              /\ ToSet(b.lot[k].splits) = {j \in Used(b) : b.s[j].lot = k}
              /\ ToSet(b.lot[k].splits) # {} => k \in ToSet(b.lots)
  <2>1. /\ IsInjective(a.lot[k].splits)
        /\ ToSet(a.lot[k].splits) = {j \in Used(a) : a.s[j].lot = k}
        /\ ToSet(a.lot[k].splits) # {} => k \in ToSet(a.lots)
    BY <1>1 DEF Agrees
  <2>2. \A j \in Used(a) : b.s[j].lot = IF j = i THEN l ELSE a.s[j].lot
    BY <1>8 DEF Used
  <2>3. k # 0 /\ a.s[i].lot = 0
    BY Bounds
  <2>4. CASE k = l
    <3>1. b.lot[k].splits = new.splits
      BY <1>7, <2>4
    <3>2. ToSet(b.lot[k].splits) = ToSet(a.lot[k].splits) \cup {i}
      BY <1>5, <2>4, <3>1
    <3>3. {j \in Used(b) : b.s[j].lot = k} = {j \in Used(a) : a.s[j].lot = k} \cup {i}
      BY <1>9, <2>2, <2>4
    <3> QED
      BY <1>3, <1>5, <1>7, <2>1, <2>4, <3>1, <3>2, <3>3
  <2>5. CASE k # l
    <3>1. b.lot[k] = a.lot[k]
      BY <1>7, <2>5
    <3>2. {j \in Used(b) : b.s[j].lot = k} = {j \in Used(a) : a.s[j].lot = k}
      BY <1>9, <2>2, <2>3, <2>5
    <3> QED
      BY <1>3, <1>7, <2>1, <3>1, <3>2
  <2> QED
    BY <2>4, <2>5
<1>11. Agrees(b)
  BY <1>1, <1>3, <1>7, <1>9, <1>10 DEF Agrees
<1>12. NoOwnPeer(b)
  BY <1>1, <1>8 DEF NoOwnPeer
<1>13. \A k \in LotId : b.lot[k].closed = "unknown" \/ (k # l /\ b.lot[k] = a.lot[k])
  BY <1>5, <1>7
<1>14. AccInv(b)
  BY <1>6, <1>11, <1>12 DEF AccInv
<1> QED
  BY <1>3, <1>7, <1>8, <1>13, <1>14 DEF IsAdded, b

LEMMA AddFacts ==
  ASSUME NEW a, AccInv(a), NEW i \in Used(a), NEW l \in LotId, a.s[i].lot # l
  PROVE  IsAdded(a, AddSplit(a, i, l), i, l)
<1> DEFINE b == RemoveSplits(a, {i})
           c == Put(b, i, l)
<1>1. a \in AccType /\ i \in SplitId
  BY DEF AccInv, Used
<1>2. CASE a.s[i].lot = NoLot
  <2>1. AddSplit(a, i, l) = Put(a, i, l)
    BY <1>2 DEF AddSplit, Put
  <2> QED
    BY <1>2, <2>1, PutFacts
<1>3. CASE a.s[i].lot # NoLot
  <2>1. AddSplit(a, i, l) = c
    BY <1>3 DEF AddSplit, Put
  <2>2. IsRemoved(a, b, {i})
    BY RemoveFacts
  <2> HIDE DEF b
  <2>3. \A k \in SplitId : a.s[k] \in SplitType
    BY <1>1, AccFacts
  <2>4. \A k \in SplitId : /\ b.s[k].trans = a.s[k].trans /\ b.s[k].amt = a.s[k].amt
                           /\ b.s[k].peers = a.s[k].peers
                           /\ k # i => b.s[k] = a.s[k]
    BY <2>2, <2>3 DEF SplitType, IsRemoved
  <2>5. b.s[i].lot = NoLot /\ i \in Used(b)
    BY <1>1, <2>2, <2>3, <2>4 DEF SplitType, Used, IsRemoved
  <2>6. IsAdded(b, c, i, l)
    BY <2>2, <2>5, PutFacts DEF IsRemoved
  <2> HIDE DEF c
  <2>7. IsAdded(a, c, i, l)
    BY <2>2, <2>4, <2>6 DEF IsAdded, IsRemoved
  <2> QED
    BY <2>1, <2>7
<1> QED
  BY <1>2, <1>3

\* Calls that keep transactions and amounts, and know of no lot they changed
\* whether it is closed.
LEMMA AddedScrubs ==
  ASSUME NEW a, AccInv(a), NEW b, NEW i, NEW l, IsAdded(a, b, i, l)
  PROVE  Scrubs(a, b, {l})
<1>1. AccInv(b) /\ a \in AccType /\ b \in AccType
  BY DEF IsAdded, AccInv
<1>2. SameSums(a, b)
  BY SameAmounts DEF IsAdded
<1>3. ASSUME NEW k \in LotId, RightCache(a, k)
      PROVE  RightCache(b, k)
  <2>1. CASE b.lot[k].closed = "unknown"
    BY <2>1 DEF RightCache
  <2>2. CASE b.lot[k] = a.lot[k]
    <3>1. \A j \in ToSet(a.lot[k].splits) : b.s[j].amt = a.s[j].amt
      BY <1>1, AccFacts DEF IsAdded
    <3>2. UsedUp(b, k) <=> UsedUp(a, k)
      BY <1>1, <2>2, <3>1, SameUse
    <3> QED
      BY <1>3, <2>2, <3>2 DEF RightCache
  <2> QED
    BY <2>1, <2>2 DEF IsAdded
<1> QED
  BY <1>1, <1>2, <1>3 DEF Scrubs, CacheKept, LotsKept, IsAdded

\* The split i is cut in two, the part j being new.
Cut(a, i, j, part) ==
  [a EXCEPT !.s[i].amt = part, !.s[i].peers = @ \cup {j},
            !.s[j] = [trans |-> a.s[i].trans, date |-> a.s[i].date,
                      amt |-> a.s[i].amt - part, lot |-> NoLot, peers |-> {i}],
            !.list = <<j>> \o @]

LEMMA CutScrubs ==
  ASSUME NEW a, AccInv(a), NEW i \in Used(a), a.s[i].lot = NoLot, NEW part \in Int,
         NEW j \in SplitId, j \notin Used(a)
  PROVE  /\ Scrubs(a, Cut(a, i, j, part), {})
         /\ i \in Used(Cut(a, i, j, part)) /\ j \in Used(Cut(a, i, j, part))
         /\ Cut(a, i, j, part).s[i].lot = NoLot
<1> DEFINE b == Cut(a, i, j, part)
           t == a.s[i].trans
           sj == [trans |-> t, date |-> a.s[i].date, amt |-> a.s[i].amt - part,
                  lot |-> NoLot, peers |-> {i}]
           si == [a.s[i] EXCEPT !.amt = part, !.peers = a.s[i].peers \cup {j}]
           list == <<j>> \o a.list
<1>1. a \in AccType /\ Agrees(a) /\ NoOwnPeer(a) /\ i \in SplitId /\ i # j /\ t # 0
  BY DEF AccInv, Used
<1>2. a.s[i] \in SplitType /\ a.s[j] \in SplitType /\ i \notin a.s[i].peers /\ NoLot = 0
  BY <1>1, AccFacts, Bounds DEF NoOwnPeer
<1>3. /\ si \in SplitType /\ si.trans = t /\ si.amt = part /\ si.lot = NoLot
      /\ i \notin si.peers
  BY <1>1, <1>2 DEF SplitType
<1>4. /\ sj \in SplitType /\ sj.trans = t /\ sj.amt = a.s[i].amt - part /\ sj.lot = NoLot
      /\ j \notin sj.peers
  <2>1. NoLot \in 0..MaxLots
    BY Bounds
  <2> QED
    BY <1>1, <1>2, <2>1 DEF SplitType
<1>5. b = [a EXCEPT !.s = [a.s EXCEPT ![i] = si, ![j] = sj], !.list = list]
  <2>1. a.s \in [SplitId -> SplitType]
    BY <1>1 DEF AccType
  <2> QED
    BY <1>1, <2>1 DEF Cut, AccType, SplitType
<1>6. HasOneMore(SplitId, a.list, j, list)
  BY <1>1, AccFacts, AddToList
<1>7. a.s[i].amt \in Int
  BY <1>1, AccFacts
<1> HIDE DEF b, t, si, sj, list
<1>8. b \in AccType
  <2>1. [a.s EXCEPT ![i] = si, ![j] = sj] \in [SplitId -> SplitType]
    BY <1>1, <1>3, <1>4 DEF AccType
  <2> HIDE DEF SplitType, LotType
  <2> QED
    BY <1>1, <1>5, <1>6, <2>1 DEF AccType, HasOneMore
<1>9. /\ b.list = list /\ b.lots = a.lots /\ b.lot = a.lot
      /\ \A k \in SplitId : b.s[k] = IF k = j THEN sj ELSE IF k = i THEN si ELSE a.s[k]
  BY <1>1, <1>5 DEF AccType
<1>10. Used(b) = Used(a) \cup {j}
  BY <1>1, <1>3, <1>4, <1>9 DEF Used, t
<1>11. Agrees(b)
  <2>1. IsInjective(b.list) /\ ToSet(b.list) = Used(b)
    BY <1>1, <1>6, <1>9, <1>10 DEF HasOneMore, Agrees
  <2>2. ASSUME NEW l \in LotId
        PROVE  {k \in Used(b) : b.s[k].lot = l} = {k \in Used(a) : a.s[k].lot = l}
    <3>1. l # NoLot
      BY Bounds
    <3>2. \A k \in Used(a) : k \in SplitId /\ k # j
      BY DEF Used
    <3>3. \A k \in Used(a) : b.s[k].lot = a.s[k].lot
      BY <1>3, <1>9, <3>2
    <3>4. b.s[j].lot = NoLot
      BY <1>4, <1>9
    <3> QED
      BY <1>10, <3>1, <3>3, <3>4
  <2> QED
    BY <1>1, <1>9, <2>1, <2>2 DEF Agrees
<1>12. NoOwnPeer(b)
  BY <1>1, <1>3, <1>4, <1>9 DEF NoOwnPeer
<1>13. SameSums(a, b)
  <2> SUFFICES ASSUME NEW u \in SplitId
               PROVE  Total(b, PartsOf(b, u)) = Total(a, PartsOf(a, u))
    BY DEF SameSums
  <2> DEFINE P == PartsOf(a, u)
  <2>1. P \in SUBSET SplitId /\ P \subseteq Used(a)
    BY DEF PartsOf, Used
  <2>2. \A k \in Used(a) : b.s[k].trans = a.s[k].trans /\ (k # i => b.s[k].amt = a.s[k].amt)
    BY <1>3, <1>9 DEF Used, t
  <2>3. b.s[j].trans = t /\ b.s[j].amt = a.s[i].amt - part /\ b.s[i].amt = part
    BY <1>1, <1>3, <1>4, <1>9
  <2>4. CASE u # t
    <3>1. PartsOf(b, u) = P
      BY <1>10, <2>2, <2>3, <2>4 DEF PartsOf
    <3>2. i \notin P
      BY <2>4 DEF PartsOf, t
    <3> HIDE DEF P
    <3>3. Total(b, P) = Total(a, P)
      BY <2>1, <2>2, <3>2, TotalSame
    <3> QED
      BY <3>1, <3>3 DEF P
  <2>5. CASE u = t
    <3>1. PartsOf(b, u) = P \cup {j} /\ j \notin P
      BY <1>10, <2>2, <2>3, <2>5 DEF PartsOf
    <3>2. i \in P
      BY <2>5 DEF PartsOf, t
    <3> DEFINE R == P \ {i}
    <3>3. R \in SUBSET SplitId /\ \A k \in R : b.s[k].amt = a.s[k].amt
      BY <2>1, <2>2
    <3> HIDE DEF P
    <3>4. Total(b, P \cup {j}) = b.s[j].amt + Total(b, P)
      BY <1>8, <2>1, <3>1, TotalAdd
    <3>5. Total(b, P) = b.s[i].amt + Total(b, R) /\ Total(a, P) = a.s[i].amt + Total(a, R)
      BY <1>1, <1>8, <2>1, <3>2, TotalRemove
    <3> HIDE DEF R
    <3>6. Total(b, R) = Total(a, R) /\ Total(a, R) \in Int
      BY <1>1, <3>3, TotalSame, TotalIsInt
    <3>7. Total(b, P \cup {j}) = Total(a, P)
      BY <1>7, <2>3, <3>4, <3>5, <3>6
    <3> QED
      BY <3>1, <3>7 DEF P
  <2> QED
    BY <2>4, <2>5
<1>14. CacheKept(a, b)
  <2> SUFFICES ASSUME NEW l \in LotId, RightCache(a, l)
               PROVE  RightCache(b, l)
    BY DEF CacheKept
  <2>1. ToSet(a.lot[l].splits) = {k \in Used(a) : a.s[k].lot = l} /\ l # NoLot
    BY <1>1, Bounds DEF Agrees
  <2>2. \A k \in ToSet(a.lot[l].splits) : k \in SplitId /\ k # i /\ k # j
    BY <2>1 DEF Used
  <2>3. \A k \in ToSet(a.lot[l].splits) : b.s[k].amt = a.s[k].amt
    BY <1>9, <2>2
  <2>4. UsedUp(b, l) <=> UsedUp(a, l)
    BY <1>1, <1>8, <1>9, <2>3, SameUse
  <2> QED
    BY <1>9, <2>4 DEF RightCache
<1>15. Scrubs(a, b, {})
  BY <1>8, <1>9, <1>11, <1>12, <1>13, <1>14 DEF Scrubs, AccInv, LotsKept
<1>16. b.s[i].lot = NoLot
  BY <1>1, <1>3, <1>9
<1> QED
  BY <1>10, <1>15, <1>16 DEF b

-----------------------------------------------------------------------------
(* Assigning splits to lots.                                               *)

LEMMA ScrubsMore ==
  ASSUME NEW a, NEW b, NEW made, NEW more, Scrubs(a, b, made), made \subseteq more
  PROVE  Scrubs(a, b, more)
BY DEF Scrubs, LotsKept

LEMMA ScrubsOn ==
  ASSUME NEW a, NEW b, NEW c, NEW made, Scrubs(a, b, made), Scrubs(b, c, made)
  PROVE  Scrubs(a, c, made)
BY DEF Scrubs, SameSums, CacheKept, LotsKept

\* The bound on splits or lots is reached.
LEMMA FullScrubs ==
  ASSUME NEW a, AccInv(a)
  PROVE  Scrubs(a, [a EXCEPT !.full = TRUE], {})
<1> DEFINE b == [a EXCEPT !.full = TRUE]
<1>1. a \in AccType
  BY DEF AccInv
<1>2. b \in AccType /\ b.s = a.s /\ b.list = a.list /\ b.lots = a.lots /\ b.lot = a.lot
  BY <1>1 DEF AccType
<1> HIDE DEF b
<1>3. Used(b) = Used(a) /\ SameSums(a, b)
  BY <1>2, SameAmounts
<1>4. \A l \in LotId : UsedUp(b, l) <=> UsedUp(a, l)
  BY <1>1, <1>2, SameUse
<1>5. AccInv(b) /\ CacheKept(a, b) /\ LotsKept(a, b, {})
  BY <1>2, <1>3, <1>4 DEF AccInv, Agrees, NoOwnPeer, CacheKept, RightCache, LotsKept
<1> QED
  BY <1>3, <1>5 DEF b, Scrubs

\* What assigning a split to a lot does
Results == [acc : AccType, rest : 0..MaxSplits]
IsAssigned(a, r, made) ==
  /\ r \in Results
  /\ Scrubs(a, r.acc, made)
  /\ r.rest \in {NoSplit} \cup Used(r.acc)

LEMMA AssignedFacts ==
  ASSUME NEW a, NEW made, NEW b, Scrubs(a, b, made), NEW i \in {NoSplit} \cup Used(b)
  PROVE  IsAssigned(a, [acc |-> b, rest |-> i], made)
<1>1. b \in AccType /\ i \in 0..MaxSplits
  BY Bounds DEF Scrubs, AccInv, Used
<1>2. [acc |-> b, rest |-> i] \in Results
  BY <1>1 DEF Results
<1> QED
  BY <1>2 DEF IsAssigned

LEMMA AddScrubs ==
  ASSUME NEW a, AccInv(a), NEW i \in Used(a), a.s[i].lot = NoLot, NEW l \in LotId
  PROVE  Scrubs(a, AddSplit(a, i, l), {l}) /\ Used(AddSplit(a, i, l)) = Used(a)
<1> DEFINE b == AddSplit(a, i, l)
<1>1. a.s[i].lot # l
  BY Bounds
<1>2. IsAdded(a, b, i, l)
  BY <1>1, AddFacts
<1> HIDE DEF b
<1>3. Used(b) = Used(a)
  BY <1>2 DEF IsAdded, Used
<1> QED
  BY <1>2, <1>3, AddedScrubs DEF b

LEMMA CutSplitScrubs ==
  ASSUME NEW a, AccInv(a), NEW i \in Used(a), a.s[i].lot = NoLot, NEW l \in LotId
  PROVE  IsAssigned(a, CutSplit(a, i, l), {l})
<1> DEFINE free == SplitId \ Used(a)
           j == Min(free)
           part == -Balance(a, l)
           b == Cut(a, i, j, part)
           c == AddSplit(b, i, l)
<1>1. a \in AccType
  BY DEF AccInv
<1>2. CASE free = {}
  <2> DEFINE d == [a EXCEPT !.full = TRUE]
  <2>1. CutSplit(a, i, l) = [acc |-> d, rest |-> NoSplit]
    BY <1>2 DEF CutSplit
  <2>2. Scrubs(a, d, {l})
    BY FullScrubs, ScrubsMore
  <2> HIDE DEF d
  <2> QED
    BY <2>1, <2>2, AssignedFacts
<1>3. CASE free # {}
  <2>1. j \in SplitId /\ j \notin Used(a)
    <3>1. free \in SUBSET Nat
      BY Bounds DEF SplitId
    <3> HIDE DEF free
    <3>2. j \in free
      BY <1>3, <3>1, MinIsLeast
    <3> QED
      BY <3>2 DEF free
  <2>2. part \in Int
    <3>1. Balance(a, l) \in Int
      BY <1>1, AccFacts, TotalIsInt DEF Balance
    <3> QED
      BY <3>1
  <2>3. CutSplit(a, i, l) = [acc |-> c, rest |-> j]
    BY <1>3 DEF CutSplit, Cut
  <2> HIDE DEF free, j, part
  <2>4. Scrubs(a, b, {}) /\ i \in Used(b) /\ j \in Used(b) /\ b.s[i].lot = NoLot
    BY <2>1, <2>2, CutScrubs
  <2> HIDE DEF b
  <2>5. Scrubs(b, c, {l}) /\ Used(c) = Used(b)
    BY <2>4, AddScrubs DEF Scrubs
  <2>6. Scrubs(a, c, {l})
    BY <2>4, <2>5, ScrubsMore, ScrubsOn
  <2> HIDE DEF c
  <2> QED
    BY <2>3, <2>4, <2>5, <2>6, AssignedFacts
<1> QED
  BY <1>2, <1>3

LEMMA AssignToLotScrubs ==
  ASSUME NEW a, AccInv(a), NEW i \in Used(a), NEW l \in LotId
  PROVE  IsAssigned(a, AssignToLot(a, i, l), {l})
<1> DEFINE b == Known(a, l)
           r == AssignToLot(a, i, l)
<1>1. a \in AccType
  BY DEF AccInv
<1>2. Scrubs(a, b, {l}) /\ b.s = a.s
  BY <1>1, KnownLooks, LooksScrubs, ScrubsMore DEF Looks
<1>3. Used(b) = Used(a) /\ AccInv(b)
  BY <1>2 DEF Used, Scrubs
<1> HIDE DEF b
<1>4. CASE a.s[i].lot # NoLot \/ b.s[i].amt = 0
  <2>1. r = [acc |-> a, rest |-> NoSplit]
    BY <1>4 DEF AssignToLot, b
  <2>2. Scrubs(a, a, {l})
    BY ScrubsNothing, ScrubsMore
  <2> QED
    BY <2>1, <2>2, AssignedFacts
<1>5. CASE ~(a.s[i].lot # NoLot \/ b.s[i].amt = 0)
  <2>1. b.s[i].lot = NoLot /\ i \in Used(b)
    BY <1>2, <1>3, <1>5
  <2>2. \/ r = [acc |-> b, rest |-> i]
        \/ r = [acc |-> AddSplit(b, i, l), rest |-> NoSplit]
        \/ r = CutSplit(b, i, l)
    BY <1>5 DEF AssignToLot, b
  <2> SUFFICES IsAssigned(a, r, {l})
    OBVIOUS
  <2> HIDE DEF r
  <2>3. CASE r = [acc |-> b, rest |-> i]
    BY <1>2, <2>1, <2>3, AssignedFacts
  <2>4. CASE r = [acc |-> AddSplit(b, i, l), rest |-> NoSplit]
    <3>1. Scrubs(a, AddSplit(b, i, l), {l})
      BY <1>2, <1>3, <2>1, AddScrubs, ScrubsOn
    <3> QED
      BY <2>4, <3>1, AssignedFacts
  <2>5. CASE r = CutSplit(b, i, l)
    <3>1. IsAssigned(b, r, {l})
      BY <1>3, <2>1, <2>5, CutSplitScrubs
    <3> QED
      BY <1>2, <3>1, ScrubsOn DEF IsAssigned
  <2> QED
    BY <2>2, <2>3, <2>4, <2>5
<1> QED
  BY <1>4, <1>5

LEMMA FirstInFacts ==
  ASSUME NEW T, NEW list \in Seq(T), NEW S, S \cap ToSet(list) # {}
  PROVE  FirstIn(list, S) \in S /\ FirstIn(list, S) \in ToSet(list)
<1> DEFINE K == {k \in DOMAIN list : list[k] \in S}
<1>1. DOMAIN list = 1..Len(list) /\ Len(list) \in Nat
  BY ListFacts
<1>2. K \in SUBSET Nat /\ K # {}
  BY <1>1 DEF ToSet
<1>3. FirstIn(list, S) = list[Min(K)]
  BY DEF FirstIn
<1> HIDE DEF K
<1>4. Min(K) \in K
  BY <1>2, MinIsLeast
<1> QED
  BY <1>3, <1>4 DEF K, ToSet

LEMMA PolicyLotFacts ==
  ASSUME NEW a \in AccType, NEW amt
  PROVE  PolicyLot(a, amt) \in {NoLot} \cup LotId
<1> DEFINE suits == {k \in DOMAIN a.lots : Suits(a, a.lots[k], amt)}
           opened(k) == a.s[Earliest(a, a.lots[k])].date
           first == {k \in suits : \A j \in suits : opened(k) <= opened(j)}
           days == {opened(k) : k \in suits}
<1>1. /\ Len(a.lots) \in Nat /\ DOMAIN a.lots = 1..Len(a.lots)
      /\ \A k \in DOMAIN a.lots : a.lots[k] \in LotId
  BY AccFacts
<1>2. \A k \in suits : opened(k) \in Nat
  <2> SUFFICES ASSUME NEW k \in suits  PROVE opened(k) \in Nat
    OBVIOUS
  <2> DEFINE l == a.lots[k]
  <2>1. l \in LotId /\ a.lot[l].splits # <<>>
    BY <1>1 DEF Suits
  <2> HIDE DEF l
  <2>2. Earliest(a, l) \in SplitId
    BY <2>1, EndsOfLot, AccFacts
  <2> QED
    BY <2>2, AccFacts DEF l
<1>3. PolicyLot(a, amt) = IF suits = {} THEN NoLot ELSE a.lots[Min(first)]
  BY DEF PolicyLot
<1>4. suits \subseteq DOMAIN a.lots
  OBVIOUS
<1> HIDE DEF suits, opened
<1>5. ASSUME suits # {}
      PROVE  a.lots[Min(first)] \in LotId
  <2>1. days \in SUBSET Nat /\ days # {}
    BY <1>2, <1>5
  <2>2. PICK d \in days : \A e \in days : d <= e
    <3> HIDE DEF days
    <3> QED
      BY <2>1, LeastExists
  <2>3. PICK k \in suits : d = opened(k)
    BY <2>2
  <2>4. k \in first
    BY <2>2, <2>3
  <2>5. first \in SUBSET Nat /\ first # {}
    BY <1>1, <1>4, <2>4
  <2>6. first \subseteq DOMAIN a.lots
    BY <1>4
  <2> HIDE DEF first
  <2>7. Min(first) \in first
    BY <2>5, MinIsLeast
  <2> QED
    BY <1>1, <2>6, <2>7
<1> QED
  BY <1>3, <1>5

LEMMA FreshScrubs ==
  ASSUME NEW a, AccInv(a), ToSet(a.lots) # LotId
  PROVE  /\ FreshLot(a) \in LotId /\ FreshLot(a) \notin ToSet(a.lots)
         /\ Scrubs(a, [a EXCEPT !.lot[FreshLot(a)] = NewLot], {})
         /\ Used([a EXCEPT !.lot[FreshLot(a)] = NewLot]) = Used(a)
<1> DEFINE l == FreshLot(a)
           b == [a EXCEPT !.lot[l] = NewLot]
<1>1. a \in AccType /\ Agrees(a) /\ NoOwnPeer(a)
  BY DEF AccInv
<1>2. l \in LotId /\ l \notin ToSet(a.lots)
  BY <1>1, AccFacts DEF FreshLot
<1>3. NewLot \in LotType /\ NewLot.splits = <<>> /\ NewLot.closed = "unknown"
  BY DEF NewLot, LotType
<1> HIDE DEF l
<1>4. b \in AccType /\ b.s = a.s /\ b.list = a.list /\ b.lots = a.lots
  BY <1>1, <1>2, <1>3 DEF AccType
<1>5. \A k \in LotId : b.lot[k] = IF k = l THEN NewLot ELSE a.lot[k]
  BY <1>1 DEF AccType
<1> HIDE DEF b
<1>6. Used(b) = Used(a) /\ SameSums(a, b)
  BY <1>4, SameAmounts
<1>7. \A k \in LotId : ToSet(b.lot[k].splits) = ToSet(a.lot[k].splits)
  <2>1. ToSet(a.lot[l].splits) = {}
    BY <1>1, <1>2 DEF Agrees
  <2>2. ToSet(<<>>) = {}
    BY DEF ToSet
  <2> QED
    BY <1>3, <1>5, <2>1, <2>2
<1>8. \A k \in LotId : IsInjective(b.lot[k].splits)
  <2>1. IsInjective(<<>>)
    BY DEF IsInjective
  <2> QED
    BY <1>1, <1>3, <1>5, <2>1 DEF Agrees
<1>9. Agrees(b) /\ NoOwnPeer(b)
  BY <1>1, <1>4, <1>6, <1>7, <1>8 DEF Agrees, NoOwnPeer
<1>10. CacheKept(a, b)
  <2> SUFFICES ASSUME NEW k \in LotId, RightCache(a, k)
               PROVE  RightCache(b, k)
    BY DEF CacheKept
  <2>1. UsedUp(b, k) <=> UsedUp(a, k)
    BY <1>1, <1>4, <1>7, SameUse
  <2>2. CASE k = l
    BY <1>3, <1>5, <2>2 DEF RightCache
  <2>3. CASE k # l
    BY <1>5, <2>1, <2>3 DEF RightCache
  <2> QED
    BY <2>2, <2>3
<1>11. Scrubs(a, b, {})
  BY <1>4, <1>6, <1>9, <1>10 DEF Scrubs, AccInv, LotsKept
<1> QED
  BY <1>2, <1>6, <1>11 DEF b, l

LEMMA AssignFoundScrubs ==
  ASSUME NEW a, AccInv(a), NEW i \in Used(a), NEW l \in {NoLot} \cup LotId
  PROVE  IsAssigned(a, AssignFound(a, i, l), LotId)
<1>1. CASE l # NoLot
  <2>1. AssignFound(a, i, l) = AssignToLot(a, i, l)
    BY <1>1 DEF AssignFound
  <2>2. IsAssigned(a, AssignToLot(a, i, l), {l}) /\ {l} \subseteq LotId
    BY <1>1, AssignToLotScrubs
  <2> QED
    BY <2>1, <2>2, ScrubsMore DEF IsAssigned
<1>2. CASE l = NoLot /\ ToSet(a.lots) # LotId
  <2> DEFINE k == FreshLot(a)
             b == [a EXCEPT !.lot[k] = NewLot]
             r == AssignToLot(b, i, k)
  <2>1. AssignFound(a, i, l) = r
    BY <1>2 DEF AssignFound
  <2>2. k \in LotId /\ Scrubs(a, b, {}) /\ Used(b) = Used(a)
    BY <1>2, FreshScrubs
  <2> HIDE DEF k, b
  <2>3. IsAssigned(b, r, {k})
    BY <2>2, AssignToLotScrubs DEF Scrubs
  <2> HIDE DEF r
  <2>4. Scrubs(a, r.acc, {} \cup {k})
    BY <2>2, <2>3, ScrubsBoth DEF IsAssigned
  <2>5. Scrubs(a, r.acc, LotId)
    BY <2>2, <2>4, ScrubsMore
  <2> QED
    BY <2>1, <2>3, <2>5 DEF IsAssigned
<1>3. CASE l = NoLot /\ ToSet(a.lots) = LotId
  <2> DEFINE d == [a EXCEPT !.full = TRUE]
  <2>1. AssignFound(a, i, l) = [acc |-> d, rest |-> NoSplit]
    BY <1>3 DEF AssignFound
  <2>2. Scrubs(a, d, LotId)
    BY FullScrubs, ScrubsMore
  <2> HIDE DEF d
  <2> QED
    BY <2>1, <2>2, AssignedFacts
<1> QED
  BY <1>1, <1>2, <1>3

LEMMA AssignRoundScrubs ==
  ASSUME NEW a, NEW r, IsAssigned(a, r, LotId)
  PROVE  IsAssigned(a, AssignRound(r), LotId)
<1> DEFINE b == AskAll(r.acc)
           l == PolicyLot(b, b.s[r.rest].amt)
           q == AssignFound(b, r.rest, l)
<1>1. CASE r.rest = NoSplit \/ r.acc.full
  BY <1>1 DEF AssignRound
<1>2. CASE ~(r.rest = NoSplit \/ r.acc.full)
  <2>1. AssignRound(r) = q
    BY <1>2 DEF AssignRound
  <2>2. AccInv(r.acc) /\ r.acc \in AccType /\ r.rest \in Used(r.acc) /\ Scrubs(a, r.acc, LotId)
    BY <1>2 DEF IsAssigned, Scrubs, AccInv
  <2>3. Looks(r.acc, b) /\ Scrubs(r.acc, b, LotId)
    BY <2>2, AskAllLooks, LooksScrubs, ScrubsMore
  <2>4. r.rest \in Used(b) /\ AccInv(b) /\ b \in AccType
    BY <2>2, <2>3 DEF Looks, Used, Scrubs
  <2> HIDE DEF b
  <2>5. l \in {NoLot} \cup LotId
    BY <2>4, PolicyLotFacts
  <2> HIDE DEF l
  <2>6. IsAssigned(b, q, LotId)
    BY <2>4, <2>5, AssignFoundScrubs
  <2> HIDE DEF q
  <2>7. Scrubs(a, q.acc, LotId)
    BY <2>2, <2>3, <2>6, ScrubsOn DEF IsAssigned
  <2> QED
    BY <2>1, <2>6, <2>7 DEF IsAssigned
<1> QED
  BY <1>1, <1>2

\* What the loop of Assign has after n rounds
Assigns(a, i, g) ==
  /\ g[0] = [acc |-> a, rest |-> i] /\ Assign(a, i) = g[Len(a.lots) + 1].acc
  /\ \A n \in 1..(Len(a.lots) + 1) : g[n] = AssignRound(g[n - 1])
  /\ \A n \in 0..(Len(a.lots) + 1) : IsAssigned(a, g[n], LotId)

LEMMA AssignRun ==
  ASSUME NEW a, AccInv(a), NEW i \in Used(a)
  PROVE  /\ Len(a.lots) + 1 \in Nat
         /\ \E g : Assigns(a, i, g)
<1> DEFINE N == Len(a.lots) + 1
           S == {r \in Results : IsAssigned(a, r, LotId)}
           step == [p \in (1..N) \X S |-> AssignRound(p[2])]
           g == CHOOSE g : g = [n \in 0..N |-> IF n = 0 THEN [acc |-> a, rest |-> i]
                                               ELSE AssignRound(g[n - 1])]
<1>1. N \in Nat
  BY AccFacts DEF AccInv
<1>2. [acc |-> a, rest |-> i] \in S
  <2>1. Scrubs(a, a, LotId)
    BY ScrubsNothing, ScrubsMore
  <2>2. IsAssigned(a, [acc |-> a, rest |-> i], LotId)
    BY <2>1, AssignedFacts
  <2> QED
    BY <2>2 DEF IsAssigned
<1>3. \A n \in 1..N, x \in S : AssignRound(x) \in S
  <2> SUFFICES ASSUME NEW x \in S  PROVE AssignRound(x) \in S
    OBVIOUS
  <2>1. IsAssigned(a, AssignRound(x), LotId)
    BY AssignRoundScrubs
  <2> QED
    BY <2>1 DEF IsAssigned
<1>4. \A n \in 1..N, x \in S : step[<<n, x>>] = AssignRound(x)
  OBVIOUS
<1>5. Assign(a, i) = g[N].acc
  BY DEF Assign
<1> HIDE DEF step, N, S
<1>6. PICK f : IsLoop(f, [acc |-> a, rest |-> i], step, S, N)
  <2>1. \A n \in 1..N, x \in S : step[<<n, x>>] \in S
    BY <1>3, <1>4
  <2> QED
    BY <1>1, <1>2, <2>1, LoopExists
<1>7. f = [n \in 0..N |-> IF n = 0 THEN [acc |-> a, rest |-> i] ELSE AssignRound(f[n - 1])]
  <2>1. \A n \in 0..N : n # 0 => n \in 1..N /\ f[n - 1] \in S
    BY <1>1, <1>6 DEF IsLoop
  <2>2. \A n \in 0..N : f[n] = IF n = 0 THEN [acc |-> a, rest |-> i] ELSE step[<<n, f[n - 1]>>]
    BY <1>6 DEF IsLoop
  <2>3. \A n \in 0..N : f[n] = IF n = 0 THEN [acc |-> a, rest |-> i] ELSE AssignRound(f[n - 1])
    BY <1>4, <2>1, <2>2
  <2>4. f = [n \in 0..N |-> f[n]]
    BY <1>6 DEF IsLoop
  <2> QED
    BY <2>3, <2>4
<1>8. g = [n \in 0..N |-> IF n = 0 THEN [acc |-> a, rest |-> i] ELSE AssignRound(g[n - 1])]
  BY <1>7
<1> HIDE DEF g
<1>9. g[0] = [acc |-> a, rest |-> i] /\ \A n \in 1..N : g[n] = AssignRound(g[n - 1])
  BY <1>1, <1>8
<1>10. \A n \in 0..N : g[n] \in S
  BY <1>1, <1>2, <1>3, <1>9, LoopStays
<1>11. Assigns(a, i, g)
  BY <1>5, <1>9, <1>10 DEF S, Assigns, N
<1> QED
  BY <1>1, <1>11 DEF N

LEMMA AssignScrubs ==
  ASSUME NEW a, AccInv(a), NEW i \in Used(a)
  PROVE  Scrubs(a, Assign(a, i), LotId)
<1> DEFINE N == Len(a.lots) + 1
<1>1. N \in Nat
  BY AssignRun
<1>2. PICK g : Assigns(a, i, g)
  BY AssignRun
<1> QED
  BY <1>1, <1>2 DEF IsAssigned, Assigns

LEMMA UnassignedFacts ==
  ASSUME NEW a, AccInv(a)
  PROVE  /\ Unassigned(a) \subseteq ToSet(a.list) /\ ToSet(a.list) = Used(a)
         /\ Unassigned(a) \subseteq Used(a)
         /\ Cardinality(Unassigned(a)) \in Nat
<1>1. Unassigned(a) \subseteq ToSet(a.list) /\ ToSet(a.list) = Used(a)
  BY DEF Unassigned, AccInv, Agrees
<1>2. Unassigned(a) \in SUBSET SplitId
  BY <1>1 DEF Used
<1> QED
  BY <1>1, <1>2, Bounds, FS_CardinalityType

LEMMA AssignNextScrubs ==
  ASSUME NEW a, AccInv(a)
  PROVE  Scrubs(a, AssignNext(a), LotId)
<1> DEFINE i == FirstIn(a.list, Unassigned(a))
<1>1. CASE Unassigned(a) = {} \/ a.full
  BY <1>1, ScrubsNothing, ScrubsMore DEF AssignNext
<1>2. CASE ~(Unassigned(a) = {} \/ a.full)
  <2>1. a.list \in Seq(SplitId) /\ Unassigned(a) \cap ToSet(a.list) # {}
    BY <1>2, AccFacts, UnassignedFacts DEF AccInv
  <2>2. i \in Used(a)
    BY <2>1, FirstInFacts, UnassignedFacts
  <2>3. AssignNext(a) = Assign(a, i)
    BY <1>2 DEF AssignNext
  <2> HIDE DEF i
  <2> QED
    BY <2>2, <2>3, AssignScrubs
<1> QED
  BY <1>1, <1>2

\* What the loop of AssignLots has after n rounds
AssignsLots(a, g) ==
  /\ g[0] = a /\ AssignLots(a) = g[Cardinality(Unassigned(a))]
  /\ \A n \in 1..Cardinality(Unassigned(a)) : g[n] = AssignNext(g[n - 1])
  /\ \A n \in 0..Cardinality(Unassigned(a)) : Scrubs(a, g[n], LotId)

LEMMA AssignLotsRun ==
  ASSUME NEW a, AccInv(a)
  PROVE  /\ Cardinality(Unassigned(a)) \in Nat
         /\ \E g : AssignsLots(a, g)
<1> DEFINE N == Cardinality(Unassigned(a))
           S == {x \in AccType : Scrubs(a, x, LotId)}
           step == [p \in (1..N) \X S |-> AssignNext(p[2])]
           g == CHOOSE g : g = [n \in 0..N |-> IF n = 0 THEN a
                                               ELSE AssignNext(g[n - 1])]
<1>1. N \in Nat
  BY UnassignedFacts
<1>2. a \in S
  <2>1. Scrubs(a, a, LotId) /\ a \in AccType
    BY ScrubsNothing, ScrubsMore DEF AccInv
  <2> QED
    BY <2>1
<1>3. \A n \in 1..N, x \in S : AssignNext(x) \in S
  <2> SUFFICES ASSUME NEW x \in S  PROVE AssignNext(x) \in S
    OBVIOUS
  <2>1. Scrubs(x, AssignNext(x), LotId)
    BY AssignNextScrubs DEF Scrubs
  <2>2. Scrubs(a, AssignNext(x), LotId)
    BY <2>1, ScrubsOn
  <2> QED
    BY <2>2 DEF Scrubs, AccInv
<1>4. \A n \in 1..N, x \in S : step[<<n, x>>] = AssignNext(x)
  OBVIOUS
<1>5. AssignLots(a) = g[N]
  BY DEF AssignLots
<1> HIDE DEF step, N, S
<1>6. PICK f : IsLoop(f, a, step, S, N)
  <2>1. \A n \in 1..N, x \in S : step[<<n, x>>] \in S
    BY <1>3, <1>4
  <2> QED
    BY <1>1, <1>2, <2>1, LoopExists
<1>7. f = [n \in 0..N |-> IF n = 0 THEN a ELSE AssignNext(f[n - 1])]
  <2>1. \A n \in 0..N : n # 0 => n \in 1..N /\ f[n - 1] \in S
    BY <1>1, <1>6 DEF IsLoop
  <2>2. \A n \in 0..N : f[n] = IF n = 0 THEN a ELSE step[<<n, f[n - 1]>>]
    BY <1>6 DEF IsLoop
  <2>3. \A n \in 0..N : f[n] = IF n = 0 THEN a ELSE AssignNext(f[n - 1])
    BY <1>4, <2>1, <2>2
  <2>4. f = [n \in 0..N |-> f[n]]
    BY <1>6 DEF IsLoop
  <2> QED
    BY <2>3, <2>4
<1>8. g = [n \in 0..N |-> IF n = 0 THEN a ELSE AssignNext(g[n - 1])]
  BY <1>7
<1> HIDE DEF g
<1>9. g[0] = a /\ \A n \in 1..N : g[n] = AssignNext(g[n - 1])
  BY <1>1, <1>8
<1>10. \A n \in 0..N : g[n] \in S
  BY <1>1, <1>2, <1>3, <1>9, LoopStays
<1>11. AssignsLots(a, g)
  BY <1>5, <1>9, <1>10 DEF S, AssignsLots, N
<1> QED
  BY <1>1, <1>11 DEF N

LEMMA AssignLotsScrubs ==
  ASSUME NEW a, AccInv(a)
  PROVE  Scrubs(a, AssignLots(a), LotId)
<1> DEFINE N == Cardinality(Unassigned(a))
<1>1. N \in Nat
  BY AssignLotsRun
<1>2. PICK g : AssignsLots(a, g)
  BY AssignLotsRun
<1> QED
  BY <1>1, <1>2 DEF AssignsLots

-----------------------------------------------------------------------------
(* Filling a lot and merging its subsplits.                                *)

LEMMA PolicySplitFacts ==
  ASSUME NEW a, AccInv(a), NEW l
  PROVE  PolicySplit(a, l) \in {NoSplit} \cup Used(a)
<1> DEFINE fits == {i \in Unassigned(a) :
                      /\ a.s[i].date >= a.s[Latest(a, l)].date
                      /\ Balance(a, l) < 0 <=> a.s[i].amt > 0}
<1>1. fits \subseteq Used(a) /\ fits \subseteq ToSet(a.list) /\ a.list \in Seq(SplitId)
  BY UnassignedFacts, AccFacts DEF AccInv
<1>2. PolicySplit(a, l) = NoSplit \/ (fits # {} /\ PolicySplit(a, l) = FirstIn(a.list, fits))
  BY DEF PolicySplit
<1> HIDE DEF fits
<1>3. fits # {} => FirstIn(a.list, fits) \in fits
  BY <1>1, FirstInFacts
<1> QED
  BY <1>1, <1>2, <1>3

LEMMA FillRoundScrubs ==
  ASSUME NEW a, AccInv(a), NEW l \in LotId
  PROVE  Scrubs(a, FillRound(a, l), {l})
<1> DEFINE b == Ask(a, l)
           i == PolicySplit(b, l)
           sorted == SortLot(Known(b, l), l)
           asked == IF b.lot[l].splits = <<>> THEN b ELSE sorted
           c == AssignToLot(asked, i, l).acc
<1>1. a \in AccType
  BY DEF AccInv
<1>2. Looks(a, b) /\ b \in AccType
  BY <1>1, AskLooks DEF Looks
<1>3. Scrubs(a, b, {l}) /\ AccInv(b)
  BY <1>2, LooksScrubs, ScrubsMore DEF Scrubs
<1> HIDE DEF b
<1>4. Looks(b, Known(b, l)) /\ Known(b, l) \in AccType
  BY <1>2, KnownLooks DEF Looks
<1>5. Looks(b, sorted)
  BY <1>2, <1>4, SortLotLooks, LooksBoth
<1>6. Looks(b, asked)
  BY <1>2, <1>5, LooksAtNothing
<1>7. i \in {NoSplit} \cup Used(b)
  BY <1>3, PolicySplitFacts
<1>8. FillRound(a, l) = b \/ FillRound(a, l) = asked \/ (i # NoSplit /\ FillRound(a, l) = c)
  BY DEF FillRound, b
<1> HIDE DEF i, asked
<1>9. Scrubs(b, asked, {l}) /\ AccInv(asked) /\ Used(asked) = Used(b)
  BY <1>3, <1>6, LooksScrubs, ScrubsMore DEF Scrubs, Looks, Used
<1>10. Scrubs(a, asked, {l})
  BY <1>3, <1>9, ScrubsOn
<1>11. i # NoSplit => Scrubs(asked, c, {l})
  BY <1>7, <1>9, AssignToLotScrubs DEF IsAssigned
<1> HIDE DEF c
<1>12. i # NoSplit => Scrubs(a, c, {l})
  BY <1>10, <1>11, ScrubsOn
<1> QED
  BY <1>3, <1>8, <1>10, <1>12

\* What the loop of LotFill has after n rounds
Fills(a, l, g) ==
  /\ g[0] = a /\ LotFill(a, l) = g[Cardinality(Unassigned(a)) + 1]
  /\ \A n \in 1..(Cardinality(Unassigned(a)) + 1) : g[n] = FillRound(g[n - 1], l)
  /\ \A n \in 0..(Cardinality(Unassigned(a)) + 1) : Scrubs(a, g[n], {l})

LEMMA LotFillRun ==
  ASSUME NEW a, AccInv(a), NEW l \in LotId
  PROVE  /\ Cardinality(Unassigned(a)) + 1 \in Nat
         /\ \E g : Fills(a, l, g)
<1> DEFINE N == Cardinality(Unassigned(a)) + 1
           S == {x \in AccType : Scrubs(a, x, {l})}
           step == [p \in (1..N) \X S |-> FillRound(p[2], l)]
           g == CHOOSE g : g = [n \in 0..N |-> IF n = 0 THEN a
                                               ELSE FillRound(g[n - 1], l)]
<1>1. N \in Nat
  BY UnassignedFacts
<1>2. a \in S
  <2>1. Scrubs(a, a, {l}) /\ a \in AccType
    BY ScrubsNothing, ScrubsMore DEF AccInv
  <2> QED
    BY <2>1
<1>3. \A n \in 1..N, x \in S : FillRound(x, l) \in S
  <2> SUFFICES ASSUME NEW x \in S  PROVE FillRound(x, l) \in S
    OBVIOUS
  <2>1. Scrubs(x, FillRound(x, l), {l})
    BY FillRoundScrubs DEF Scrubs
  <2>2. Scrubs(a, FillRound(x, l), {l})
    BY <2>1, ScrubsOn
  <2> QED
    BY <2>2 DEF Scrubs, AccInv
<1>4. \A n \in 1..N, x \in S : step[<<n, x>>] = FillRound(x, l)
  OBVIOUS
<1>5. LotFill(a, l) = g[N]
  BY DEF LotFill
<1> HIDE DEF step, N, S
<1>6. PICK f : IsLoop(f, a, step, S, N)
  <2>1. \A n \in 1..N, x \in S : step[<<n, x>>] \in S
    BY <1>3, <1>4
  <2> QED
    BY <1>1, <1>2, <2>1, LoopExists
<1>7. f = [n \in 0..N |-> IF n = 0 THEN a ELSE FillRound(f[n - 1], l)]
  <2>1. \A n \in 0..N : n # 0 => n \in 1..N /\ f[n - 1] \in S
    BY <1>1, <1>6 DEF IsLoop
  <2>2. \A n \in 0..N : f[n] = IF n = 0 THEN a ELSE step[<<n, f[n - 1]>>]
    BY <1>6 DEF IsLoop
  <2>3. \A n \in 0..N : f[n] = IF n = 0 THEN a ELSE FillRound(f[n - 1], l)
    BY <1>4, <2>1, <2>2
  <2>4. f = [n \in 0..N |-> f[n]]
    BY <1>6 DEF IsLoop
  <2> QED
    BY <2>3, <2>4
<1>8. g = [n \in 0..N |-> IF n = 0 THEN a ELSE FillRound(g[n - 1], l)]
  BY <1>7
<1> HIDE DEF g
<1>9. g[0] = a /\ \A n \in 1..N : g[n] = FillRound(g[n - 1], l)
  BY <1>1, <1>8
<1>10. \A n \in 0..N : g[n] \in S
  BY <1>1, <1>2, <1>3, <1>9, LoopStays
<1>11. Fills(a, l, g)
  BY <1>5, <1>9, <1>10 DEF S, Fills, N
<1> QED
  BY <1>1, <1>11 DEF N

LEMMA LotFillScrubs ==
  ASSUME NEW a, AccInv(a), NEW l \in LotId
  PROVE  Scrubs(a, LotFill(a, l), {l})
<1> DEFINE N == Cardinality(Unassigned(a)) + 1
<1>1. N \in Nat
  BY LotFillRun
<1>2. PICK g : Fills(a, l, g)
  BY LotFillRun
<1> QED
  BY <1>1, <1>2 DEF Fills

\* The split j of the lot has been taken out of it, and is destroyed.
Destroyed(g, a, i, j) ==
  LET kept == [g EXCEPT !.s[i].peers = (@ \cup a.s[j].peers) \ {i, j},
                        !.s[j] = Unused,
                        !.list = Without(@, {j})]
      unlinked(k) == [kept.s[k] EXCEPT !.peers = @ \ {j}]
  IN [kept EXCEPT !.s = [k \in SplitId |-> unlinked(k)]]

LEMMA DestroyedFacts ==
  ASSUME NEW a, a \in AccType, NEW g, AccInv(g), NEW i \in Used(g), NEW j \in Used(g), i # j,
         g.s[j].lot = NoLot
  PROVE  LET b == Destroyed(g, a, i, j) IN
         /\ AccInv(b)
         /\ Used(b) = Used(g) \ {j}
         /\ b.lot = g.lot /\ b.lots = g.lots
         /\ \A k \in SplitId : k # j => /\ b.s[k].trans = g.s[k].trans /\ b.s[k].amt = g.s[k].amt
                                        /\ b.s[k].lot = g.s[k].lot
<1> DEFINE b == Destroyed(g, a, i, j)
           si == [g.s[i] EXCEPT !.peers = (g.s[i].peers \cup a.s[j].peers) \ {i, j}]
           now(k) == IF k = j THEN Unused ELSE IF k = i THEN si ELSE g.s[k]
           part(k) == [now(k) EXCEPT !.peers = now(k).peers \ {j}]
           list == Without(g.list, {j})
<1>1. g \in AccType /\ Agrees(g) /\ NoOwnPeer(g) /\ i \in SplitId /\ j \in SplitId
  BY DEF AccInv, Used
<1>2. \A k \in SplitId : g.s[k] \in SplitType /\ a.s[k].peers \in SUBSET SplitId
                         /\ k \notin g.s[k].peers
  BY <1>1, AccFacts DEF NoOwnPeer
<1>3. Unused \in SplitType /\ Unused.trans = 0 /\ Unused.peers = {}
  <2>1. NoLot \in 0..MaxLots /\ 0 \in 0..MaxSplits
    BY Bounds
  <2> QED
    BY <2>1 DEF Unused, SplitType
<1>4. /\ si \in SplitType /\ si.trans = g.s[i].trans /\ si.amt = g.s[i].amt /\ si.lot = g.s[i].lot
      /\ i \notin si.peers
  BY <1>1, <1>2 DEF SplitType
<1>5. \A k \in SplitId : /\ now(k) \in SplitType /\ k \notin now(k).peers
                         /\ k = j => now(k).trans = 0
                         /\ k # j => /\ now(k).trans = g.s[k].trans /\ now(k).amt = g.s[k].amt
                                     /\ now(k).lot = g.s[k].lot
  <2> HIDE DEF si
  <2> QED
    BY <1>2, <1>3, <1>4
<1> DEFINE s2 == [g.s EXCEPT ![i] = si, ![j] = Unused]
           kept == [g EXCEPT !.s = s2, !.list = list]
           unlinked(k) == [kept.s[k] EXCEPT !.peers = kept.s[k].peers \ {j}]
<1>6. b = [g EXCEPT !.s = [k \in SplitId |-> part(k)], !.list = list]
  <2>1. g.s \in [SplitId -> SplitType]
    BY <1>1 DEF AccType
  <2>2. kept = [g EXCEPT !.s[i].peers = (g.s[i].peers \cup a.s[j].peers) \ {i, j},
                         !.s[j] = Unused, !.list = list]
    BY <1>1, <2>1 DEF AccType
  <2>3. b = [kept EXCEPT !.s = [k \in SplitId |-> unlinked(k)]]
    <3> HIDE DEF kept, list
    <3> QED
      BY <2>2 DEF Destroyed, list
  <2>4. \A k \in SplitId : s2[k] = now(k)
    BY <1>1, <2>1
  <2> HIDE DEF s2, now, list
  <2>5. kept.s = s2
    BY <1>1 DEF AccType
  <2>6. \A k \in SplitId : unlinked(k) = part(k)
    <3> HIDE DEF kept
    <3> QED
      BY <2>4, <2>5
  <2>7. b = [kept EXCEPT !.s = [k \in SplitId |-> part(k)]]
    <3> HIDE DEF b, kept, part, unlinked
    <3> QED
      BY <2>3, <2>6
  <2> HIDE DEF part
  <2> QED
    BY <1>1, <2>7 DEF AccType
<1> HIDE DEF s2, kept, unlinked
<1>7. /\ list \in Seq(SplitId) /\ ToSet(list) = Used(g) \ {j} /\ IsInjective(list)
  <2>1. g.list \in Seq(SplitId) /\ IsInjective(g.list) /\ ToSet(g.list) = Used(g)
    BY <1>1, AccFacts DEF Agrees
  <2> QED
    BY <2>1, WithoutFacts
<1> HIDE DEF now
<1>8. \A k \in SplitId : /\ part(k) \in SplitType /\ k \notin part(k).peers
                         /\ k = j => part(k).trans = 0
                         /\ k # j => /\ part(k).trans = g.s[k].trans /\ part(k).amt = g.s[k].amt
                                     /\ part(k).lot = g.s[k].lot
  <2> SUFFICES ASSUME NEW k \in SplitId
               PROVE  /\ part(k) \in SplitType /\ k \notin part(k).peers
                      /\ part(k).trans = now(k).trans /\ part(k).amt = now(k).amt
                      /\ part(k).lot = now(k).lot
    BY <1>5
  <2>1. now(k) \in SplitType /\ k \notin now(k).peers
    BY <1>5
  <2> QED
    BY <2>1 DEF SplitType
<1> HIDE DEF b, list, part
<1>9. /\ b.s = [k \in SplitId |-> part(k)] /\ b.list = list /\ b.lot = g.lot /\ b.lots = g.lots
  BY <1>1, <1>6 DEF AccType
<1>10. b \in AccType
  <2>1. [k \in SplitId |-> part(k)] \in [SplitId -> SplitType]
    BY <1>8
  <2> HIDE DEF SplitType, LotType
  <2> QED
    BY <1>1, <1>6, <1>7, <2>1 DEF AccType
<1>11. Used(b) = Used(g) \ {j}
  BY <1>8, <1>9 DEF Used
<1>12. Agrees(b)
  <2>1. ASSUME NEW l \in LotId
        PROVE  {k \in Used(b) : b.s[k].lot = l} = {k \in Used(g) : g.s[k].lot = l}
    <3>1. l # g.s[j].lot
      BY Bounds
    <3>2. \A k \in Used(g) : k \in SplitId
      BY DEF Used
    <3>3. \A k \in Used(g) : k # j => b.s[k].lot = g.s[k].lot
      BY <1>8, <1>9, <3>2
    <3> QED
      BY <1>11, <3>1, <3>3
  <2> QED
    BY <1>1, <1>7, <1>9, <1>11, <2>1 DEF Agrees
<1>13. NoOwnPeer(b)
  BY <1>8, <1>9 DEF NoOwnPeer
<1>14. AccInv(b)
  BY <1>10, <1>12, <1>13 DEF AccInv
<1>15. \A k \in SplitId : k # j => /\ b.s[k].trans = g.s[k].trans /\ b.s[k].amt = g.s[k].amt
                                   /\ b.s[k].lot = g.s[k].lot
  BY <1>8, <1>9
<1> QED
  BY <1>9, <1>11, <1>14, <1>15 DEF b

LEMMA MergeScrubs ==
  ASSUME NEW a, AccInv(a), NEW i \in Used(a), NEW j \in Used(a), i # j,
         NEW l \in LotId, a.s[i].lot = l, a.s[j].lot = l, a.s[j].trans = a.s[i].trans
  PROVE  Scrubs(a, MergeSplits(a, i, j), {})
<1> DEFINE x == [a EXCEPT !.s[i].amt = @ + a.s[j].amt]
           g == RemoveSplits(x, {j})
           m == Destroyed(g, a, i, j)
           b == Mark(m, {i})
           t == a.s[i].trans
<1>1. a \in AccType /\ Agrees(a) /\ NoOwnPeer(a) /\ i \in SplitId /\ j \in SplitId
  BY DEF AccInv, Used
<1>2. \A k \in SplitId : a.s[k] \in SplitType /\ a.s[k].amt \in Int
  BY <1>1, AccFacts
<1>3. /\ x \in AccType /\ x.list = a.list /\ x.lots = a.lots /\ x.lot = a.lot
      /\ x.s[i].amt = a.s[i].amt + a.s[j].amt
      /\ \A k \in SplitId : /\ x.s[k].trans = a.s[k].trans /\ x.s[k].lot = a.s[k].lot
                            /\ x.s[k].peers = a.s[k].peers
                            /\ k # i => x.s[k].amt = a.s[k].amt
  <2> DEFINE si == [a.s[i] EXCEPT !.amt = a.s[i].amt + a.s[j].amt]
             s2 == [a.s EXCEPT ![i] = si]
  <2>1. /\ si \in SplitType /\ si.trans = a.s[i].trans /\ si.lot = a.s[i].lot
        /\ si.peers = a.s[i].peers /\ si.amt = a.s[i].amt + a.s[j].amt
    BY <1>1, <1>2 DEF SplitType
  <2>2. x = [a EXCEPT !.s = s2]
    BY <1>1 DEF AccType
  <2> HIDE DEF si, x
  <2>3. s2 \in [SplitId -> SplitType] /\ \A k \in SplitId : s2[k] = IF k = i THEN si ELSE a.s[k]
    BY <1>1, <2>1 DEF AccType
  <2> HIDE DEF s2, SplitType, LotType
  <2>4. /\ x \in AccType /\ x.list = a.list /\ x.lots = a.lots /\ x.lot = a.lot /\ x.s = s2
    BY <1>1, <2>2, <2>3 DEF AccType
  <2> QED
    BY <1>1, <2>1, <2>3, <2>4
<1> HIDE DEF x
<1>4. Used(x) = Used(a)
  BY <1>3 DEF Used
<1>5. AccInv(x)
  <2>1. Agrees(x)
    <3>1. \A k \in Used(a) : k \in SplitId
      BY DEF Used
    <3>2. \A n \in LotId : {k \in Used(x) : x.s[k].lot = n} = {k \in Used(a) : a.s[k].lot = n}
      BY <1>3, <1>4, <3>1
    <3> QED
      BY <1>1, <1>3, <1>4, <3>2 DEF Agrees
  <2>2. NoOwnPeer(x)
    BY <1>1, <1>3 DEF NoOwnPeer
  <2> QED
    BY <1>3, <2>1, <2>2 DEF AccInv
<1>6. IsRemoved(x, g, {j})
  BY <1>4, <1>5, RemoveFacts
<1> HIDE DEF g
<1>7. \A k \in SplitId : x.s[k] \in SplitType
  BY <1>3, AccFacts
<1>8. /\ AccInv(g) /\ ToSet(g.lots) \subseteq ToSet(a.lots)
      /\ g.s[j].lot = NoLot
      /\ \A k \in SplitId : /\ g.s[k].trans = x.s[k].trans /\ g.s[k].amt = x.s[k].amt
                            /\ k # j => g.s[k].lot = x.s[k].lot
      /\ \A n \in LotId : g.lot[n].closed = "unknown" \/ (g.lot[n] = a.lot[n] /\ n # l)
  <2>1. \A k \in SplitId : g.s[k] = IF k = j THEN [x.s[k] EXCEPT !.lot = NoLot] ELSE x.s[k]
    BY <1>6 DEF IsRemoved
  <2>2. \A k \in SplitId : /\ g.s[k].trans = x.s[k].trans /\ g.s[k].amt = x.s[k].amt
                           /\ k # j => g.s[k].lot = x.s[k].lot
    BY <1>7, <2>1 DEF SplitType
  <2>3. g.s[j].lot = NoLot
    BY <1>1, <1>7, <2>1 DEF SplitType
  <2> QED
    BY <1>1, <1>3, <1>6, <2>2, <2>3 DEF IsRemoved
<1>9. Used(g) = Used(a)
  BY <1>3, <1>8 DEF Used
<1>10. /\ AccInv(m) /\ Used(m) = Used(a) \ {j}
       /\ m.lot = g.lot /\ m.lots = g.lots
       /\ \A k \in SplitId : k # j => /\ m.s[k].trans = g.s[k].trans /\ m.s[k].amt = g.s[k].amt
                                      /\ m.s[k].lot = g.s[k].lot
  BY <1>1, <1>8, <1>9, DestroyedFacts
<1>11. MergeSplits(a, i, j) = b
  BY DEF MergeSplits, Destroyed, g, x
<1> HIDE DEF m
<1>12. /\ AccInv(b) /\ b.s = m.s /\ b.lots = m.lots
       /\ \A n \in LotId :
            /\ b.lot[n].splits = m.lot[n].splits
            /\ b.lot[n].closed = IF \E k \in {i} : m.s[k].lot = n THEN "unknown" ELSE m.lot[n].closed
  BY <1>10, MarkFacts
<1> HIDE DEF b
<1>13. Used(b) = Used(a) \ {j} /\ b \in AccType
  BY <1>10, <1>12 DEF Used, AccInv
<1>14. /\ b.s[i].amt = a.s[i].amt + a.s[j].amt /\ b.s[i].lot = l
       /\ \A k \in SplitId : k # j => /\ b.s[k].trans = a.s[k].trans
                                      /\ k # i => b.s[k].amt = a.s[k].amt
  BY <1>1, <1>3, <1>8, <1>10, <1>12
<1>15. SameSums(a, b)
  <2> SUFFICES ASSUME NEW u \in SplitId
               PROVE  Total(b, PartsOf(b, u)) = Total(a, PartsOf(a, u))
    BY DEF SameSums
  <2> DEFINE P == PartsOf(a, u)
  <2>1. P \in SUBSET SplitId /\ P \subseteq Used(a)
    BY DEF PartsOf, Used
  <2>2. \A k \in Used(a) : k \in SplitId
    BY DEF Used
  <2>3. PartsOf(b, u) = P \ {j}
    BY <1>13, <1>14, <2>2 DEF PartsOf
  <2>4. CASE u # t
    <3>1. i \notin P /\ j \notin P
      BY <2>4 DEF PartsOf
    <3>2. P \ {j} = P
      BY <3>1
    <3> HIDE DEF P
    <3>3. \A k \in P : b.s[k].amt = a.s[k].amt
      BY <1>14, <2>1, <3>1
    <3>4. Total(b, P) = Total(a, P)
      BY <2>1, <3>3, TotalSame
    <3> QED
      BY <2>3, <3>2, <3>4 DEF P
  <2>5. CASE u = t
    <3>1. i \in P /\ j \in P
      BY <2>5 DEF PartsOf
    <3> DEFINE Q == P \ {j}
               R == Q \ {i}
    <3>2. /\ Q \in SUBSET SplitId /\ i \in Q /\ R \in SUBSET SplitId
          /\ \A k \in R : b.s[k].amt = a.s[k].amt
      BY <1>14, <2>1, <3>1
    <3> HIDE DEF P
    <3>3. Total(a, P) = a.s[j].amt + Total(a, Q)
      BY <1>1, <2>1, <3>1, TotalRemove
    <3> HIDE DEF Q
    <3>4. Total(a, Q) = a.s[i].amt + Total(a, R) /\ Total(b, Q) = b.s[i].amt + Total(b, R)
      BY <1>1, <1>13, <3>2, TotalRemove
    <3> HIDE DEF R
    <3>5. Total(b, R) = Total(a, R) /\ Total(a, R) \in Int
      BY <1>1, <3>2, TotalSame, TotalIsInt
    <3>6. a.s[i].amt \in Int /\ a.s[j].amt \in Int /\ b.s[i].amt = a.s[i].amt + a.s[j].amt
      BY <1>1, <1>2, <1>14
    <3>7. Total(b, Q) = Total(a, P)
      BY <3>3, <3>4, <3>5, <3>6
    <3> QED
      BY <2>3, <3>7 DEF P, Q
  <2> QED
    BY <2>4, <2>5
<1>16. CacheKept(a, b)
  <2> SUFFICES ASSUME NEW n \in LotId, RightCache(a, n)
               PROVE  RightCache(b, n)
    BY DEF CacheKept
  <2>1. CASE b.lot[n].closed = "unknown"
    BY <2>1 DEF RightCache
  <2>2. CASE b.lot[n].closed # "unknown"
    <3>1. n # l /\ g.lot[n] = a.lot[n]
      BY <1>8, <1>10, <1>12, <1>14, <2>2
    <3>2. ToSet(a.lot[n].splits) = {k \in Used(a) : a.s[k].lot = n}
      BY <1>1 DEF Agrees
    <3>3. \A k \in ToSet(a.lot[n].splits) : k \in SplitId /\ k # i /\ k # j
      BY <3>1, <3>2 DEF Used
    <3>4. \A k \in ToSet(a.lot[n].splits) : b.s[k].amt = a.s[k].amt
      BY <1>14, <3>3
    <3>5. b.lot[n].splits = a.lot[n].splits /\ b.lot[n].closed = a.lot[n].closed
      BY <1>10, <1>12, <2>2, <3>1
    <3>6. UsedUp(b, n) <=> UsedUp(a, n)
      BY <1>1, <1>13, <3>4, <3>5, SameUse
    <3> QED
      BY <3>5, <3>6 DEF RightCache
  <2> QED
    BY <2>1, <2>2
<1>17. Scrubs(a, b, {})
  BY <1>8, <1>10, <1>12, <1>15, <1>16 DEF Scrubs, LotsKept
<1> QED
  BY <1>11, <1>17

LEMMA MergeRoundScrubs ==
  ASSUME NEW a, AccInv(a), NEW l \in LotId
  PROVE  Scrubs(a, MergeRound(a, l), {})
<1> DEFINE mates(i) == {j \in a.s[i].peers : a.s[j].lot = l /\ a.s[j].trans = a.s[i].trans}
           list == a.lot[l].splits
           todo == {i \in ToSet(list) : mates(i) # {}}
           first == FirstIn(list, todo)
           mate == Min(mates(first))
<1>1. CASE todo = {}
  <2>1. MergeRound(a, l) = a
    BY <1>1 DEF MergeRound
  <2> QED
    BY <2>1, ScrubsNothing
<1>2. CASE todo # {}
  <2>1. MergeRound(a, l) = MergeSplits(a, first, mate)
    BY <1>2 DEF MergeRound
  <2>2. a \in AccType /\ Agrees(a) /\ NoOwnPeer(a) /\ list \in Seq(SplitId)
    BY AccFacts DEF AccInv
  <2>3. ToSet(list) = {k \in Used(a) : a.s[k].lot = l}
    BY <2>2 DEF Agrees
  <2>4. first \in todo
    <3>1. todo \cap ToSet(list) # {}
      BY <1>2
    <3> HIDE DEF todo, list
    <3> QED
      BY <2>2, <3>1, FirstInFacts
  <2>5. first \in Used(a) /\ first \in SplitId /\ a.s[first].lot = l /\ mates(first) # {}
        /\ a.s[first].trans # 0
    BY <2>3, <2>4 DEF Used
  <2> HIDE DEF first
  <2>6. \A j \in mates(first) : /\ j \in SplitId /\ j # first /\ a.s[j].lot = l
                                /\ a.s[j].trans = a.s[first].trans
    BY <2>2, <2>5, AccFacts DEF NoOwnPeer
  <2> HIDE DEF mates
  <2>7. mate \in mates(first)
    <3>1. mates(first) \in SUBSET Nat
      BY <2>6 DEF SplitId
    <3> QED
      BY <2>5, <3>1, MinIsLeast
  <2>8. mate \in Used(a) /\ mate # first /\ a.s[mate].lot = l /\ a.s[mate].trans = a.s[first].trans
    BY <2>5, <2>6, <2>7 DEF Used
  <2> HIDE DEF mate
  <2> QED
    BY <2>1, <2>5, <2>8, MergeScrubs
<1> QED
  BY <1>1, <1>2

\* What the loop of MergeSubSplits has after n rounds
Merges(a, l, g) ==
  /\ g[0] = a /\ MergeSubSplits(a, l) = g[Len(a.lot[l].splits)]
  /\ \A n \in 1..Len(a.lot[l].splits) : g[n] = MergeRound(g[n - 1], l)
  /\ \A n \in 0..Len(a.lot[l].splits) : Scrubs(a, g[n], {})

LEMMA MergeSubSplitsRun ==
  ASSUME NEW a, AccInv(a), NEW l \in LotId
  PROVE  /\ Len(a.lot[l].splits) \in Nat
         /\ \E g : Merges(a, l, g)
<1> DEFINE N == Len(a.lot[l].splits)
           S == {x \in AccType : Scrubs(a, x, {})}
           step == [p \in (1..N) \X S |-> MergeRound(p[2], l)]
           g == CHOOSE g : g = [n \in 0..N |-> IF n = 0 THEN a
                                               ELSE MergeRound(g[n - 1], l)]
<1>1. N \in Nat
  BY AccFacts, ListFacts DEF AccInv
<1>2. a \in S
  <2>1. Scrubs(a, a, {}) /\ a \in AccType
    BY ScrubsNothing, ScrubsMore DEF AccInv
  <2> QED
    BY <2>1
<1>3. \A n \in 1..N, x \in S : MergeRound(x, l) \in S
  <2> SUFFICES ASSUME NEW x \in S  PROVE MergeRound(x, l) \in S
    OBVIOUS
  <2>1. Scrubs(x, MergeRound(x, l), {})
    BY MergeRoundScrubs DEF Scrubs
  <2>2. Scrubs(a, MergeRound(x, l), {})
    BY <2>1, ScrubsOn
  <2> QED
    BY <2>2 DEF Scrubs, AccInv
<1>4. \A n \in 1..N, x \in S : step[<<n, x>>] = MergeRound(x, l)
  OBVIOUS
<1>5. MergeSubSplits(a, l) = g[N]
  BY DEF MergeSubSplits
<1> HIDE DEF step, N, S
<1>6. PICK f : IsLoop(f, a, step, S, N)
  <2>1. \A n \in 1..N, x \in S : step[<<n, x>>] \in S
    BY <1>3, <1>4
  <2> QED
    BY <1>1, <1>2, <2>1, LoopExists
<1>7. f = [n \in 0..N |-> IF n = 0 THEN a ELSE MergeRound(f[n - 1], l)]
  <2>1. \A n \in 0..N : n # 0 => n \in 1..N /\ f[n - 1] \in S
    BY <1>1, <1>6 DEF IsLoop
  <2>2. \A n \in 0..N : f[n] = IF n = 0 THEN a ELSE step[<<n, f[n - 1]>>]
    BY <1>6 DEF IsLoop
  <2>3. \A n \in 0..N : f[n] = IF n = 0 THEN a ELSE MergeRound(f[n - 1], l)
    BY <1>4, <2>1, <2>2
  <2>4. f = [n \in 0..N |-> f[n]]
    BY <1>6 DEF IsLoop
  <2> QED
    BY <2>3, <2>4
<1>8. g = [n \in 0..N |-> IF n = 0 THEN a ELSE MergeRound(g[n - 1], l)]
  BY <1>7
<1> HIDE DEF g
<1>9. g[0] = a /\ \A n \in 1..N : g[n] = MergeRound(g[n - 1], l)
  BY <1>1, <1>8
<1>10. \A n \in 0..N : g[n] \in S
  BY <1>1, <1>2, <1>3, <1>9, LoopStays
<1>11. Merges(a, l, g)
  BY <1>5, <1>9, <1>10 DEF S, Merges, N
<1> QED
  BY <1>1, <1>11 DEF N

LEMMA MergeSubSplitsScrubs ==
  ASSUME NEW a, AccInv(a), NEW l \in LotId
  PROVE  Scrubs(a, MergeSubSplits(a, l), {})
<1> DEFINE N == Len(a.lot[l].splits)
<1>1. N \in Nat
  BY MergeSubSplitsRun
<1>2. PICK g : Merges(a, l, g)
  BY MergeSubSplitsRun
<1> QED
  BY <1>1, <1>2 DEF Merges

LEMMA RemovedScrubs ==
  ASSUME NEW a, AccInv(a), NEW ids \in SUBSET Used(a)
  PROVE  Scrubs(a, RemoveSplits(a, ids), {})
<1> DEFINE b == RemoveSplits(a, ids)
<1>1. IsRemoved(a, b, ids)
  BY RemoveFacts
<1> HIDE DEF b
<1>2. AccInv(b) /\ a \in AccType /\ b \in AccType
  BY <1>1 DEF IsRemoved, AccInv
<1>3. \A i \in SplitId : a.s[i] \in SplitType
  BY <1>2, AccFacts
<1>4. \A i \in SplitId : b.s[i].trans = a.s[i].trans /\ b.s[i].amt = a.s[i].amt
  BY <1>1, <1>3 DEF IsRemoved, SplitType
<1>5. SameSums(a, b)
  BY <1>4, SameAmounts
<1>6. CacheKept(a, b)
  <2> SUFFICES ASSUME NEW l \in LotId, RightCache(a, l)
               PROVE  RightCache(b, l)
    BY DEF CacheKept
  <2>1. CASE b.lot[l].closed = "unknown"
    BY <2>1 DEF RightCache
  <2>2. CASE b.lot[l] = a.lot[l]
    <3>1. ToSet(a.lot[l].splits) \subseteq SplitId
      BY <1>2, AccFacts
    <3>2. UsedUp(b, l) <=> UsedUp(a, l)
      BY <1>2, <1>4, <2>2, <3>1, SameUse
    <3> QED
      BY <2>2, <3>2 DEF RightCache
  <2> QED
    BY <1>1, <2>1, <2>2 DEF IsRemoved
<1> QED
  BY <1>1, <1>2, <1>5, <1>6 DEF b, Scrubs, LotsKept, IsRemoved

LEMMA RefilledScrubs ==
  ASSUME NEW a, AccInv(a), NEW l \in LotId
  PROVE  Scrubs(a, Refilled(a, l), {l})
<1> DEFINE sorted == SortLot(a, l)
           thin == Thinned(a, l)
           fill(x) == MergeSubSplits(LotFill(x, l), l)
<1>1. a \in AccType
  BY DEF AccInv
<1>2. Looks(a, sorted)
  BY <1>1, SortLotLooks
<1>3. Scrubs(a, sorted, {l}) /\ AccInv(sorted)
  BY <1>2, LooksScrubs, ScrubsMore DEF Scrubs
<1>4. Scrubs(a, thin, {l})
  <2> DEFINE ids == ToSet(a.lot[l].splits) \ {Earliest(a, l)}
  <2>1. thin = RemoveSplits(sorted, ids)
    BY DEF Thinned
  <2>2. ids \in SUBSET Used(sorted)
    BY <1>2 DEF AccInv, Agrees, Looks, Used
  <2> HIDE DEF ids, sorted, thin
  <2>3. Scrubs(sorted, thin, {l})
    BY <1>3, <2>1, <2>2, RemovedScrubs, ScrubsMore
  <2> QED
    BY <1>3, <2>3, ScrubsOn
<1> HIDE DEF sorted, thin
<1>5. ASSUME NEW x, Scrubs(a, x, {l})
      PROVE  Scrubs(a, fill(x), {l})
  <2> DEFINE y == LotFill(x, l)
             z == MergeSubSplits(y, l)
  <2>1. Scrubs(x, y, {l})
    BY <1>5, LotFillScrubs DEF Scrubs
  <2> HIDE DEF y
  <2>2. Scrubs(y, z, {l})
    BY <2>1, MergeSubSplitsScrubs, ScrubsMore DEF Scrubs
  <2>3. Scrubs(a, z, {l})
    BY <1>5, <2>1, <2>2, ScrubsOn
  <2> QED
    BY <2>3 DEF y
<1>6. Refilled(a, l) = a \/ Refilled(a, l) = fill(thin) \/ Refilled(a, l) = fill(sorted)
  BY DEF Refilled, sorted, thin
<1>7. Scrubs(a, a, {l})
  BY ScrubsNothing, ScrubsMore
<1> HIDE DEF fill
<1> QED
  BY <1>3, <1>4, <1>5, <1>6, <1>7

\* A lot that was scrubbed is known to be closed only if it is.
LEMMA ScrubLotScrubs ==
  ASSUME NEW a, AccInv(a), NEW l \in LotId
  PROVE  Scrubs(a, ScrubLot(a, l), {l}) /\ RightCache(ScrubLot(a, l), l)
<1> DEFINE b == MergeSubSplits(a, l)
           c == Known(b, l)
           d == Refilled(c, l)
<1>1. Scrubs(a, b, {l}) /\ AccInv(b) /\ b \in AccType
  BY MergeSubSplitsScrubs, ScrubsMore DEF Scrubs, AccInv
<1>2. ScrubLot(a, l) = d
  BY DEF ScrubLot
<1> HIDE DEF b
<1>3. Scrubs(b, c, {l}) /\ AccInv(c) /\ RightCache(c, l)
  BY <1>1, KnownLooks, LooksScrubs, ScrubsMore DEF Scrubs
<1> HIDE DEF c
<1>4. Scrubs(c, d, {l})
  BY <1>3, RefilledScrubs
<1> HIDE DEF d
<1>5. Scrubs(a, d, {l})
  BY <1>1, <1>3, <1>4, ScrubsOn
<1>6. RightCache(d, l)
  BY <1>3, <1>4 DEF Scrubs, CacheKept
<1> QED
  BY <1>2, <1>5, <1>6

LEMMA ScrubNextScrubs ==
  ASSUME NEW a, AccInv(a), NEW l \in LotId
  PROVE  /\ Scrubs(a, ScrubNext(a, l), {l})
         /\ a.full => ScrubNext(a, l) = a
         /\ ~a.full => RightCache(ScrubNext(a, l), l)
<1>1. CASE a.full
  <2>1. ScrubNext(a, l) = a
    BY <1>1 DEF ScrubNext
  <2>2. Scrubs(a, a, {l})
    BY ScrubsNothing, ScrubsMore
  <2> QED
    BY <1>1, <2>1, <2>2
<1>2. CASE ~a.full
  <2>1. ScrubNext(a, l) = ScrubLot(a, l)
    BY <1>2 DEF ScrubNext
  <2> QED
    BY <1>2, <2>1, ScrubLotScrubs
<1> QED
  BY <1>1, <1>2

\* The first n lots were scrubbed, if there was room.
Done(a, x, n) == ~x.full => \A k \in 1..n : RightCache(x, a.lots[k])

\* What the loop of ScrubEach has after n rounds
ScrubsEach(a, g) ==
  /\ g[0] = a /\ ScrubEach(a) = g[Len(a.lots)]
  /\ \A n \in 1..Len(a.lots) : g[n] = ScrubNext(g[n - 1], a.lots[n])
  /\ \A n \in 0..Len(a.lots) : Scrubs(a, g[n], ToSet(a.lots))

LEMMA ScrubEachRun ==
  ASSUME NEW a, AccInv(a)
  PROVE  /\ Len(a.lots) \in Nat /\ ToSet(a.lots) = {a.lots[k] : k \in 1..Len(a.lots)}
         /\ \A k \in 1..Len(a.lots) : a.lots[k] \in LotId
         /\ \E g : ScrubsEach(a, g)
<1> DEFINE N == Len(a.lots)
           S == {x \in AccType : Scrubs(a, x, ToSet(a.lots))}
           step == [p \in (1..N) \X S |-> ScrubNext(p[2], a.lots[p[1]])]
           g == CHOOSE g : g = [n \in 0..N |-> IF n = 0 THEN a
                                               ELSE ScrubNext(g[n - 1], a.lots[n])]
<1>1. N \in Nat /\ ToSet(a.lots) = {a.lots[k] : k \in 1..N}
      /\ \A k \in 1..N : a.lots[k] \in ToSet(a.lots) /\ a.lots[k] \in LotId
  <2>1. a.lots \in Seq(LotId) /\ ToSet(a.lots) \subseteq LotId
    BY AccFacts DEF AccInv
  <2>2. \A k \in 1..N : a.lots[k] \in ToSet(a.lots)
    BY <2>1, ListFacts
  <2> QED
    BY <2>1, <2>2, ListFacts
<1>2. a \in S
  <2>1. Scrubs(a, a, ToSet(a.lots)) /\ a \in AccType
    BY ScrubsNothing, ScrubsMore DEF AccInv
  <2> QED
    BY <2>1
<1>3. \A n \in 1..N, x \in S : ScrubNext(x, a.lots[n]) \in S
  <2> SUFFICES ASSUME NEW n \in 1..N, NEW x \in S  PROVE ScrubNext(x, a.lots[n]) \in S
    OBVIOUS
  <2> DEFINE l == a.lots[n]
             y == ScrubNext(x, l)
  <2>1. l \in LotId /\ {l} \subseteq ToSet(a.lots)
    BY <1>1
  <2> HIDE DEF l
  <2>2. Scrubs(x, y, {l})
    BY <2>1, ScrubNextScrubs DEF Scrubs
  <2> HIDE DEF y
  <2>3. Scrubs(a, y, ToSet(a.lots))
    BY <2>1, <2>2, ScrubsMore, ScrubsOn
  <2>4. y \in S
    BY <2>3 DEF Scrubs, AccInv
  <2> QED
    BY <2>4 DEF y, l
<1>4. \A n \in 1..N, x \in S : step[<<n, x>>] = ScrubNext(x, a.lots[n])
  OBVIOUS
<1>5. ScrubEach(a) = g[N]
  BY DEF ScrubEach
<1> HIDE DEF step, N, S
<1>6. PICK f : IsLoop(f, a, step, S, N)
  <2>1. \A n \in 1..N, x \in S : step[<<n, x>>] \in S
    BY <1>3, <1>4
  <2> QED
    BY <1>1, <1>2, <2>1, LoopExists
<1>7. f = [n \in 0..N |-> IF n = 0 THEN a ELSE ScrubNext(f[n - 1], a.lots[n])]
  <2>1. \A n \in 0..N : n # 0 => n \in 1..N /\ f[n - 1] \in S
    BY <1>1, <1>6 DEF IsLoop
  <2>2. \A n \in 0..N : f[n] = IF n = 0 THEN a ELSE step[<<n, f[n - 1]>>]
    BY <1>6 DEF IsLoop
  <2>3. \A n \in 0..N : f[n] = IF n = 0 THEN a ELSE ScrubNext(f[n - 1], a.lots[n])
    BY <1>4, <2>1, <2>2
  <2>4. f = [n \in 0..N |-> f[n]]
    BY <1>6 DEF IsLoop
  <2> QED
    BY <2>3, <2>4
<1>8. g = [n \in 0..N |-> IF n = 0 THEN a ELSE ScrubNext(g[n - 1], a.lots[n])]
  BY <1>7
<1> HIDE DEF g
<1>9. g[0] = a /\ \A n \in 1..N : g[n] = ScrubNext(g[n - 1], a.lots[n])
  BY <1>1, <1>8
<1>10. \A n \in 0..N : g[n] \in S
  BY <1>1, <1>2, <1>3, <1>9, LoopStays
<1>11. ScrubsEach(a, g)
  BY <1>5, <1>9, <1>10 DEF S, ScrubsEach, N
<1> QED
  BY <1>1, <1>11 DEF N

LEMMA ScrubEachScrubs ==
  ASSUME NEW a, AccInv(a)
  PROVE  /\ Scrubs(a, ScrubEach(a), ToSet(a.lots))
         /\ ~ScrubEach(a).full => \A l \in ToSet(a.lots) : RightCache(ScrubEach(a), l)
<1> DEFINE N == Len(a.lots)
<1>1. N \in Nat /\ ToSet(a.lots) = {a.lots[k] : k \in 1..N} /\ \A k \in 1..N : a.lots[k] \in LotId
  BY ScrubEachRun
<1>2. PICK g : ScrubsEach(a, g)
  BY ScrubEachRun
<1>3. /\ g[0] = a /\ ScrubEach(a) = g[N]
      /\ \A n \in 1..N : g[n] = ScrubNext(g[n - 1], a.lots[n])
      /\ \A n \in 0..N : Scrubs(a, g[n], ToSet(a.lots))
  BY <1>2 DEF ScrubsEach
<1> HIDE DEF N
<1> DEFINE T == {n \in 0..N : Done(a, g[n], n)}
<1>4. 0 \in T
  BY <1>1 DEF Done
<1>5. ASSUME NEW n \in 0..(N - 1), n \in T
      PROVE  n + 1 \in T
  <2> DEFINE x == g[n]
             l == a.lots[n + 1]
             y == ScrubNext(x, l)
  <2>1. n + 1 \in 1..N /\ (n + 1) - 1 = n /\ n + 1 \in 0..N /\ n \in 0..N
        /\ \A k \in 1..(n + 1) : k \in 1..n \/ k = n + 1
    BY <1>1
  <2>2. g[n + 1] = y /\ Scrubs(a, x, ToSet(a.lots))
    BY <1>3, <2>1
  <2>3. Done(a, x, n)
    BY <1>5
  <2>4. l \in LotId /\ \A k \in 1..n : a.lots[k] \in LotId
    BY <1>1, <2>1
  <2>5. l = a.lots[n + 1]
    OBVIOUS
  <2>6. AccInv(x)
    BY <2>2 DEF Scrubs
  <2> HIDE DEF l, x
  <2>7. /\ Scrubs(x, y, {l})
        /\ x.full => y = x
        /\ ~x.full => RightCache(y, l)
    BY <2>4, <2>6, ScrubNextScrubs
  <2> HIDE DEF y
  <2>8. ASSUME ~y.full, NEW k \in 1..(n + 1)
        PROVE  RightCache(y, a.lots[k])
    <3>1. ~x.full
      BY <2>7, <2>8
    <3>2. CASE k \in 1..n
      BY <2>3, <2>4, <2>7, <3>1, <3>2 DEF Done, Scrubs, CacheKept
    <3>3. CASE k = n + 1
      BY <2>5, <2>7, <3>1, <3>3
    <3> QED
      BY <2>1, <3>2, <3>3
  <2>9. Done(a, g[n + 1], n + 1)
    BY <2>2, <2>8 DEF Done
  <2> QED
    BY <2>1, <2>9
<1>6. \A n \in 0..N : n \in T
  <2> HIDE DEF T
  <2> QED
    BY <1>1, <1>4, <1>5, UpTo
<1>7. Done(a, g[N], N)
  BY <1>1, <1>6
<1>8. \A l \in ToSet(a.lots) : \E k \in 1..N : l = a.lots[k]
  BY <1>1
<1>9. Scrubs(a, g[N], ToSet(a.lots))
  <2>1. N \in Nat
    BY <1>1
  <2>2. N \in 0..N
    BY <2>1
  <2> QED
    BY <1>3, <2>2
<1>10. ~g[N].full => \A l \in ToSet(a.lots) : RightCache(g[N], l)
  BY <1>7, <1>8 DEF Done
<1> QED
  BY <1>3, <1>9, <1>10

LEMMA ScrubLotsScrubs ==
  ASSUME NEW a, AccInv(a)
  PROVE  LET b == ScrubLots(a) IN
         /\ Scrubs(a, b, LotId)
         /\ ~b.full => \A l \in ToSet(b.lots) : RightCache(b, l)
<1> DEFINE x == AssignLots(a)
           b == ScrubEach(x)
<1>1. Scrubs(a, x, LotId)
  BY AssignLotsScrubs
<1>2. ScrubLots(a) = b
  BY DEF ScrubLots
<1> HIDE DEF x
<1>3. Scrubs(x, b, ToSet(x.lots)) /\ (~b.full => \A l \in ToSet(x.lots) : RightCache(b, l))
  BY <1>1, ScrubEachScrubs DEF Scrubs
<1>4. ToSet(x.lots) \subseteq LotId
  BY <1>1, AccFacts DEF Scrubs, AccInv
<1> HIDE DEF b
<1>5. Scrubs(a, b, LotId)
  BY <1>1, <1>3, <1>4, ScrubsMore, ScrubsOn
<1>6. ToSet(b.lots) \subseteq ToSet(x.lots)
  BY <1>3 DEF Scrubs, LotsKept
<1> QED
  BY <1>2, <1>3, <1>5, <1>6

LEMMA AccountCommitScrubs ==
  ASSUME NEW a, AccInv(a)
  PROVE  LET b == AccountCommit(a) IN
         /\ Scrubs(a, b, {})
         /\ b.full = a.full /\ b.lots = a.lots
<1> DEFINE b == AccountCommit(a)
<1>1. a \in AccType /\ Agrees(a) /\ NoOwnPeer(a)
  BY DEF AccInv
<1>2. PICK q : b = [a EXCEPT !.list = q, !.unsorted = FALSE] /\ IsSorting(a.list, q)
  BY <1>1, AccountCommitFacts
<1>3. q \in Seq(SplitId) /\ ToSet(q) = ToSet(a.list) /\ IsInjective(q)
  BY <1>1, <1>2 DEF IsSorting, Agrees
<1> HIDE DEF b
<1>4. /\ b \in AccType /\ b.s = a.s /\ b.lot = a.lot /\ b.lots = a.lots /\ b.full = a.full
      /\ b.list = q
  <2> HIDE DEF SplitType, LotType
  <2> QED
    BY <1>1, <1>2, <1>3 DEF AccType
<1>5. Used(b) = Used(a) /\ SameSums(a, b)
  BY <1>4, SameAmounts
<1>6. Agrees(b) /\ NoOwnPeer(b)
  BY <1>1, <1>3, <1>4, <1>5 DEF Agrees, NoOwnPeer
<1>7. \A l \in LotId : UsedUp(b, l) <=> UsedUp(a, l)
  BY <1>1, <1>4, SameUse
<1>8. Scrubs(a, b, {})
  BY <1>4, <1>5, <1>6, <1>7 DEF Scrubs, AccInv, CacheKept, RightCache, LotsKept
<1> QED
  BY <1>4, <1>8 DEF b

-----------------------------------------------------------------------------
(* What users do.                                                          *)

\* What users entered of each transaction is what its parts add up to.
Adds(a, e) == e \in [SplitId -> Int] /\ \A t \in SplitId : Total(a, PartsOf(a, t)) = e[t]

IInvLots ==
  /\ AccInv(acc)
  /\ Adds(acc, entered)
  /\ scrubbed \in BOOLEAN
  /\ ScrubbedCache

LEMMA ScrubsAdds ==
  ASSUME NEW a, NEW b, NEW made, Scrubs(a, b, made), Adds(a, entered)
  PROVE  AccInv(b) /\ Adds(b, entered)
BY DEF Scrubs, SameSums, Adds

LEMMA LotsStart ==
  ASSUME LotInit
  PROVE  IInvLots
<1>1. /\ acc.s = [i \in SplitId |-> Unused] /\ acc.list = <<>> /\ acc.lots = <<>>
      /\ acc.lot = [l \in LotId |-> NewLot]
  BY DEF LotInit
<1>2. Unused \in SplitType /\ Unused.trans = 0 /\ Unused.peers = {}
  <2>1. NoLot \in 0..MaxLots /\ 0 \in 0..MaxSplits
    BY Bounds
  <2> QED
    BY <2>1 DEF Unused, SplitType
<1>3. NewLot \in LotType /\ NewLot.splits = <<>>
  BY DEF NewLot, LotType
<1>4. acc \in AccType
  <2>1. <<>> \in Seq(SplitId) /\ <<>> \in Seq(LotId)
    OBVIOUS
  <2>2. acc = [s |-> [i \in SplitId |-> Unused], list |-> <<>>, unsorted |-> FALSE,
               lot |-> [l \in LotId |-> NewLot], lots |-> <<>>, full |-> FALSE]
    BY DEF LotInit
  <2> QED
    BY <1>2, <1>3, <2>1, <2>2 DEF AccType
<1>5. Used(acc) = {}
  BY <1>1, <1>2 DEF Used
<1>6. IsInjective(<<>>) /\ ToSet(<<>>) = {}
  BY DEF IsInjective, ToSet
<1>7. Agrees(acc)
  BY <1>1, <1>3, <1>5, <1>6 DEF Agrees
<1>8. NoOwnPeer(acc)
  BY <1>1, <1>2 DEF NoOwnPeer
<1>9. Adds(acc, entered)
  <2>1. entered \in [SplitId -> Int] /\ \A t \in SplitId : entered[t] = 0
    BY DEF LotInit
  <2>2. \A t : PartsOf(acc, t) = {}
    BY <1>5 DEF PartsOf
  <2> QED
    BY <2>1, <2>2, TotalEmpty DEF Adds
<1>10. scrubbed = FALSE
  BY DEF LotInit
<1> QED
  BY <1>4, <1>7, <1>8, <1>9, <1>10 DEF IInvLots, AccInv, ScrubbedCache

\* A split is given another amount.
LEMMA AmountFacts ==
  ASSUME NEW a, AccInv(a), NEW i \in Used(a), NEW n \in Int
  PROVE  LET x == [a EXCEPT !.s[i].amt = n] IN
         /\ AccInv(x) /\ Used(x) = Used(a) /\ x.s[i].amt = n
         /\ x.list = a.list /\ x.lots = a.lots /\ x.lot = a.lot
         /\ \A k \in SplitId : /\ x.s[k].trans = a.s[k].trans /\ x.s[k].lot = a.s[k].lot
                               /\ k # i => x.s[k].amt = a.s[k].amt
<1> DEFINE x == [a EXCEPT !.s[i].amt = n]
           si == [a.s[i] EXCEPT !.amt = n]
           s2 == [a.s EXCEPT ![i] = si]
<1>1. a \in AccType /\ Agrees(a) /\ NoOwnPeer(a) /\ i \in SplitId /\ a.s[i] \in SplitType
  BY AccFacts DEF AccInv, Used
<1>2. /\ si \in SplitType /\ si.trans = a.s[i].trans /\ si.lot = a.s[i].lot
      /\ si.peers = a.s[i].peers /\ si.amt = n
  BY <1>1 DEF SplitType
<1>3. x = [a EXCEPT !.s = s2]
  BY <1>1 DEF AccType
<1> HIDE DEF si, x
<1>4. s2 \in [SplitId -> SplitType] /\ \A k \in SplitId : s2[k] = IF k = i THEN si ELSE a.s[k]
  BY <1>1, <1>2 DEF AccType
<1> HIDE DEF s2
<1>5. /\ x \in AccType /\ x.list = a.list /\ x.lots = a.lots /\ x.lot = a.lot /\ x.s = s2
  <2> HIDE DEF SplitType, LotType
  <2> QED
    BY <1>1, <1>3, <1>4 DEF AccType
<1>6. \A k \in SplitId : /\ x.s[k].trans = a.s[k].trans /\ x.s[k].lot = a.s[k].lot
                         /\ x.s[k].peers = a.s[k].peers
                         /\ k # i => x.s[k].amt = a.s[k].amt
  BY <1>2, <1>4, <1>5
<1>7. Used(x) = Used(a)
  BY <1>6 DEF Used
<1>8. \A l : {k \in Used(x) : x.s[k].lot = l} = {k \in Used(a) : a.s[k].lot = l}
  <2>1. \A k \in Used(a) : k \in SplitId
    BY DEF Used
  <2> QED
    BY <1>6, <1>7, <2>1
<1>9. AccInv(x)
  BY <1>1, <1>5, <1>6, <1>7, <1>8 DEF AccInv, Agrees, NoOwnPeer
<1> QED
  BY <1>1, <1>2, <1>4, <1>5, <1>6, <1>7, <1>9 DEF x

LEMMA AmountKeeps ==
  ASSUME IInvLots, NEW i \in SplitId, NEW n \in Amounts, Amount(i, n)
  PROVE  IInvLots'
<1> DEFINE x == [acc EXCEPT !.s[i].amt = n]
           b == Mark(x, {i})
           t == acc.s[i].trans
<1>1. /\ AccInv(acc) /\ acc \in AccType /\ i \in Used(acc) /\ n \in Int /\ Adds(acc, entered)
  BY LotsAssumption DEF IInvLots, AccInv, Amount
<1>2. /\ AccInv(x) /\ Used(x) = Used(acc) /\ x.s[i].amt = n
      /\ x.list = acc.list /\ x.lots = acc.lots /\ x.lot = acc.lot
      /\ \A k \in SplitId : /\ x.s[k].trans = acc.s[k].trans /\ x.s[k].lot = acc.s[k].lot
                            /\ k # i => x.s[k].amt = acc.s[k].amt
  BY <1>1, AmountFacts
<1>3. acc' = b /\ scrubbed' = FALSE /\ entered' = [entered EXCEPT ![t] = entered[t] + n - acc.s[i].amt]
  BY DEF Amount, Edited
<1> HIDE DEF x
<1>4. AccInv(b) /\ b.s = x.s
  BY <1>2, MarkFacts
<1>5. Used(b) = Used(acc)
  BY <1>2, <1>4 DEF Used
<1>6. b \in AccType /\ i \in SplitId /\ acc.s[i].amt \in Int /\ t \in SplitId
  <2>1. t \in 0..MaxSplits /\ t # 0
    BY <1>1, AccFacts DEF Used
  <2> QED
    BY <1>1, <1>4, <2>1, AccFacts, Bounds DEF AccInv, SplitId
<1> HIDE DEF b
<1>7. Adds(b, entered')
  <2>1. entered' \in [SplitId -> Int]
    BY <1>1, <1>3, <1>6 DEF Adds
  <2> SUFFICES ASSUME NEW u \in SplitId
               PROVE  Total(b, PartsOf(b, u)) = entered'[u]
    BY <2>1 DEF Adds
  <2> DEFINE P == PartsOf(acc, u)
  <2>2. P \in SUBSET SplitId /\ P \subseteq Used(acc)
    BY DEF PartsOf, Used
  <2>3. \A k \in Used(acc) : k \in SplitId /\ b.s[k].trans = acc.s[k].trans
    BY <1>2, <1>4 DEF Used
  <2>4. PartsOf(b, u) = P
    BY <1>5, <2>3 DEF PartsOf
  <2>5. Total(acc, P) = entered[u] /\ entered[u] \in Int
    BY <1>1 DEF Adds
  <2>6. \A k \in SplitId : k # i => b.s[k].amt = acc.s[k].amt
    BY <1>2, <1>4
  <2>7. CASE u # t
    <3>1. i \notin P
      BY <2>7 DEF PartsOf
    <3> HIDE DEF P
    <3>2. \A k \in P : b.s[k].amt = acc.s[k].amt
      BY <2>2, <2>6, <3>1
    <3>3. Total(b, P) = Total(acc, P)
      BY <2>2, <3>2, TotalSame
    <3>4. entered'[u] = entered[u]
      BY <1>1, <1>3, <2>7 DEF Adds
    <3> QED
      BY <2>4, <2>5, <3>3, <3>4 DEF P
  <2>8. CASE u = t
    <3>1. i \in P
      BY <1>1, <2>8 DEF PartsOf
    <3> DEFINE R == P \ {i}
    <3>2. R \in SUBSET SplitId /\ \A k \in R : b.s[k].amt = acc.s[k].amt
      BY <2>2, <2>6
    <3> HIDE DEF P
    <3>3. Total(acc, P) = acc.s[i].amt + Total(acc, R) /\ Total(b, P) = b.s[i].amt + Total(b, R)
      BY <1>1, <1>6, <2>2, <3>1, TotalRemove
    <3> HIDE DEF R
    <3>4. Total(b, R) = Total(acc, R) /\ Total(acc, R) \in Int
      BY <1>1, <3>2, TotalSame, TotalIsInt
    <3>5. b.s[i].amt = n
      BY <1>2, <1>4
    <3>6. entered'[u] = entered[u] + n - acc.s[i].amt
      BY <1>1, <1>3, <1>6, <2>8 DEF Adds
    <3>7. Total(b, P) = entered'[u]
      <4>1. Total(acc, P) = entered[u]
        BY <2>5 DEF P
      <4>2. entered[u] \in Int /\ n \in Int /\ acc.s[i].amt \in Int
        BY <1>1, <1>6, <2>5
      <4> QED
        BY ONLY <3>3, <3>4, <3>5, <3>6, <4>1, <4>2
    <3> QED
      BY <2>4, <3>7 DEF P
  <2> QED
    BY <2>7, <2>8
<1> QED
  BY <1>3, <1>4, <1>7 DEF IInvLots, ScrubbedCache, Adds, b

LEMMA EnterKeeps ==
  ASSUME IInvLots, NEW d \in Dates, NEW n \in Amounts, Enter(d, n)
  PROVE  IInvLots'
<1> DEFINE free == SplitId \ Used(acc)
           i == Min(free)
           si == [Unused EXCEPT !.trans = i, !.date = d, !.amt = n]
           x == [acc EXCEPT !.s[i] = si]
           later == {k \in DOMAIN acc.list : Before(x, i, acc.list[k])}
           list == InsertBefore(acc.list, later, i)
           b == [acc EXCEPT !.s[i] = si, !.unsorted = TRUE, !.list = list]
<1>1. /\ acc \in AccType /\ Agrees(acc) /\ NoOwnPeer(acc) /\ Adds(acc, entered)
      /\ n \in Int /\ d \in Nat
  BY LotsAssumption DEF IInvLots, AccInv
<1>2. /\ acc' = b /\ scrubbed' = FALSE /\ entered' = [entered EXCEPT ![i] = n]
      /\ \A j \in Used(acc) : acc.s[j].trans # i
  <2>1. [x EXCEPT !.unsorted = TRUE, !.list = Inserted(x, acc.list, i)] = b
    <3>1. Inserted(x, acc.list, i) = list
      BY DEF Inserted
    <3> HIDE DEF list, si, i
    <3> QED
      BY <1>1, <3>1 DEF AccType
  <2>2. x.list = acc.list
    <3> HIDE DEF i, si
    <3> QED
      BY <1>1 DEF AccType
  <2>3. acc' = [x EXCEPT !.unsorted = TRUE, !.list = Inserted(x, x.list, i)]
    BY DEF Enter, Edited
  <2>4. scrubbed' = FALSE /\ entered' = [entered EXCEPT ![i] = n]
        /\ \A j \in Used(acc) : acc.s[j].trans # i
    BY DEF Enter, Edited
  <2> HIDE DEF b, x
  <2> QED
    BY <2>1, <2>2, <2>3, <2>4
<1>3. i \in SplitId /\ i \notin Used(acc)
  <2>1. free \in SUBSET Nat
    BY Bounds DEF SplitId
  <2>2. free # {}
    BY <1>1, AccFacts DEF Enter
  <2> HIDE DEF free
  <2>3. i \in free
    BY <2>1, <2>2, MinIsLeast
  <2> QED
    BY <2>3 DEF free
<1> HIDE DEF i, x
<1>4. /\ si \in SplitType /\ si.trans = i /\ si.amt = n /\ si.lot = NoLot /\ si.peers = {}
      /\ i # 0
  <2>1. i \in 0..MaxSplits /\ NoLot \in 0..MaxLots /\ i # 0
    BY <1>3, Bounds
  <2> QED
    BY <1>1, <2>1 DEF Unused, SplitType
<1>5. /\ list \in Seq(SplitId) /\ ToSet(list) = Used(acc) \cup {i} /\ IsInjective(list)
  <2> DEFINE old == acc.list
  <2>1. old \in Seq(SplitId) /\ ToSet(old) = Used(acc) /\ IsInjective(old)
    BY <1>1, AccFacts DEF Agrees
  <2>2. later \in SUBSET (DOMAIN old) /\ list = InsertBefore(old, later, i)
    OBVIOUS
  <2> HIDE DEF later, old, list
  <2>3. /\ InsertBefore(old, later, i) \in Seq(SplitId)
        /\ ToSet(InsertBefore(old, later, i)) = ToSet(old) \cup {i}
        /\ IsInjective(old) /\ i \notin ToSet(old) => IsInjective(InsertBefore(old, later, i))
    BY <1>3, <2>1, <2>2, InsertFacts
  <2> QED
    BY <1>3, <2>1, <2>2, <2>3
<1> HIDE DEF si, list, b
<1>6. /\ b \in AccType /\ b.list = list /\ b.lots = acc.lots /\ b.lot = acc.lot
      /\ \A k \in SplitId : b.s[k] = IF k = i THEN si ELSE acc.s[k]
  <2>1. [acc.s EXCEPT ![i] = si] \in [SplitId -> SplitType]
    BY <1>1, <1>3, <1>4 DEF AccType
  <2>2. b = [acc EXCEPT !.s = [acc.s EXCEPT ![i] = si], !.unsorted = TRUE, !.list = list]
    BY <1>1 DEF b, AccType
  <2> HIDE DEF SplitType, LotType
  <2> QED
    BY <1>1, <1>5, <2>1, <2>2 DEF AccType
<1>7. Used(b) = Used(acc) \cup {i}
  BY <1>3, <1>4, <1>6 DEF Used
<1>8. Agrees(b)
  <2>1. ASSUME NEW l \in LotId
        PROVE  {k \in Used(b) : b.s[k].lot = l} = {k \in Used(acc) : acc.s[k].lot = l}
    <3>1. l # NoLot
      BY Bounds
    <3>2. \A k \in Used(acc) : k \in SplitId /\ k # i
      BY <1>3 DEF Used
    <3> QED
      BY <1>4, <1>3, <1>6, <1>7, <3>1, <3>2
  <2> QED
    BY <1>1, <1>5, <1>6, <1>7, <2>1 DEF Agrees
<1>9. NoOwnPeer(b)
  BY <1>1, <1>4, <1>6 DEF NoOwnPeer
<1>10. Adds(b, entered')
  <2>1. entered' \in [SplitId -> Int]
    BY <1>1, <1>2 DEF Adds
  <2> SUFFICES ASSUME NEW u \in SplitId
               PROVE  Total(b, PartsOf(b, u)) = entered'[u]
    BY <2>1 DEF Adds
  <2> DEFINE P == PartsOf(acc, u)
  <2>2. P \in SUBSET SplitId /\ \A k \in P : k \in SplitId /\ k # i
    BY <1>3 DEF PartsOf, Used
  <2>3. \A k \in Used(acc) : k \in SplitId /\ b.s[k].trans = acc.s[k].trans
    BY <1>3, <1>6 DEF Used
  <2>4. Total(b, P) = Total(acc, P)
    <3>1. \A k \in P : b.s[k].amt = acc.s[k].amt
      BY <1>6, <2>2
    <3> HIDE DEF P
    <3> QED
      BY <2>2, <3>1, TotalSame
  <2>5. CASE u # i
    <3>1. PartsOf(b, u) = P
      BY <1>3, <1>4, <1>6, <1>7, <2>3, <2>5 DEF PartsOf
    <3>2. entered'[u] = entered[u] /\ Total(acc, P) = entered[u]
      BY <1>1, <1>2, <2>5 DEF Adds
    <3> QED
      BY <2>4, <3>1, <3>2
  <2>6. CASE u = i
    <3>1. P = {}
      BY <1>2, <2>6 DEF PartsOf
    <3>2. PartsOf(b, u) = {} \cup {i}
      BY <1>3, <1>4, <1>6, <1>7, <2>3, <2>6, <3>1 DEF PartsOf
    <3>3. Total(b, {} \cup {i}) = b.s[i].amt + Total(b, {})
      BY <1>3, <1>6, TotalAdd
    <3>4. Total(b, {}) = 0 /\ b.s[i].amt = n
      BY <1>3, <1>4, <1>6, TotalEmpty
    <3>5. entered'[u] = n
      BY <1>1, <1>2, <2>6 DEF Adds
    <3> QED
      BY <1>1, <3>2, <3>3, <3>4, <3>5
  <2> QED
    BY <2>5, <2>6
<1> QED
  BY <1>2, <1>6, <1>8, <1>9, <1>10 DEF IInvLots, AccInv, ScrubbedCache, Adds

\* Changes that leave the account's splits in their transactions, their amounts
\* and their lots as they are.
LEMMA SameLists ==
  ASSUME NEW a, AccInv(a), NEW b \in AccType, b.list = a.list, b.lots = a.lots,
         \A l \in LotId : b.lot[l].splits = a.lot[l].splits,
         \A i \in SplitId : /\ b.s[i].trans = a.s[i].trans /\ b.s[i].amt = a.s[i].amt
                            /\ b.s[i].lot = a.s[i].lot /\ b.s[i].peers = a.s[i].peers
  PROVE  AccInv(b) /\ SameSums(a, b) /\ Used(b) = Used(a)
<1>1. Used(b) = Used(a) /\ SameSums(a, b)
  BY SameAmounts
<1>2. \A l : {k \in Used(b) : b.s[k].lot = l} = {k \in Used(a) : a.s[k].lot = l}
  <2>1. \A k \in Used(a) : k \in SplitId
    BY DEF Used
  <2> QED
    BY <1>1, <2>1
<1>3. Agrees(b) /\ NoOwnPeer(b)
  BY <1>1, <1>2 DEF AccInv, Agrees, NoOwnPeer
<1> QED
  BY <1>1, <1>3 DEF AccInv

LEMMA DatePostedKeeps ==
  ASSUME IInvLots, NEW t \in SplitId, NEW d \in Dates, DatePosted(t, d)
  PROVE  IInvLots'
<1> DEFINE mine == {i \in Used(acc) : acc.s[i].trans = t}
           dated(i) == [acc.s[i] EXCEPT !.date = d]
           s2 == [i \in SplitId |-> IF i \in mine THEN dated(i) ELSE acc.s[i]]
           x == [acc EXCEPT !.s = s2]
           b == Mark(x, mine)
<1>1. /\ acc \in AccType /\ AccInv(acc) /\ Adds(acc, entered) /\ d \in Nat
  BY LotsAssumption DEF IInvLots, AccInv
<1>2. acc' = b /\ scrubbed' = FALSE /\ entered' = entered
  BY <1>1 DEF DatePosted, Edited, AccType
<1>3. \A i \in SplitId : /\ acc.s[i] \in SplitType /\ dated(i) \in SplitType
                         /\ dated(i).trans = acc.s[i].trans /\ dated(i).amt = acc.s[i].amt
                         /\ dated(i).lot = acc.s[i].lot /\ dated(i).peers = acc.s[i].peers
  <2>1. \A i \in SplitId : acc.s[i] \in SplitType
    BY <1>1, AccFacts
  <2> QED
    BY <1>1, <2>1 DEF SplitType
<1> HIDE DEF dated, mine
<1>4. s2 \in [SplitId -> SplitType]
  BY <1>3
<1>5. \A i \in SplitId : /\ s2[i].trans = acc.s[i].trans /\ s2[i].amt = acc.s[i].amt
                         /\ s2[i].lot = acc.s[i].lot /\ s2[i].peers = acc.s[i].peers
  BY <1>3
<1> HIDE DEF s2
<1>6. x \in AccType /\ x.s = s2 /\ x.list = acc.list /\ x.lots = acc.lots /\ x.lot = acc.lot
  <2> HIDE DEF SplitType, LotType
  <2> QED
    BY <1>1, <1>4 DEF AccType
<1> HIDE DEF x
<1>7. AccInv(x) /\ SameSums(acc, x) /\ Used(x) = Used(acc)
  BY <1>1, <1>5, <1>6, SameLists
<1>8. AccInv(b) /\ b.s = x.s
  BY <1>7, MarkFacts
<1> HIDE DEF b
<1>9. SameSums(acc, b)
  BY <1>5, <1>6, <1>8, SameAmounts
<1> QED
  BY <1>1, <1>2, <1>8, <1>9 DEF IInvLots, ScrubbedCache, Adds, SameSums

LEMMA AbandonAmountKeeps ==
  ASSUME IInvLots, NEW i \in SplitId, NEW n \in Amounts, AbandonAmount(i, n)
  PROVE  IInvLots'
<1> DEFINE x == [acc EXCEPT !.s[i].amt = n]
           l == acc.s[i].lot
           seen == Known(x, l)
           b == [acc EXCEPT !.lot = seen.lot, !.unsorted = TRUE]
<1>1. /\ acc \in AccType /\ AccInv(acc) /\ Adds(acc, entered) /\ i \in Used(acc) /\ n \in Int
  BY LotsAssumption DEF IInvLots, AccInv, AbandonAmount
<1>2. acc' = b /\ scrubbed' = FALSE /\ entered' = entered
  BY DEF AbandonAmount, Edited
<1>3. l \in LotId
  <2>1. l \in 0..MaxLots /\ l # 0
    BY <1>1, AccFacts DEF AbandonAmount, NoLot
  <2> QED
    BY <2>1, Bounds DEF LotId
<1>4. x \in AccType /\ x.lot = acc.lot
  BY <1>1, AmountFacts DEF AccInv
<1> HIDE DEF x, l
<1>5. /\ seen \in AccType
      /\ \A k \in LotId : seen.lot[k].splits = x.lot[k].splits
  <2> DEFINE answer == IF UsedUp(x, l) THEN "yes" ELSE "no"
  <2>1. seen = [x EXCEPT !.lot[l].closed = answer]
    BY DEF Known
  <2>2. Looks(x, seen)
    BY <1>3, <1>4, KnownLooks
  <2> HIDE DEF answer, seen
  <2> QED
    BY <1>4, <2>1, <2>2 DEF Looks, AccType, LotType
<1> HIDE DEF seen
<1>6. /\ b \in AccType /\ b.s = acc.s /\ b.list = acc.list /\ b.lots = acc.lots /\ b.lot = seen.lot
  <2> HIDE DEF SplitType, LotType
  <2> QED
    BY <1>1, <1>5 DEF AccType
<1> HIDE DEF b
<1>7. AccInv(b) /\ SameSums(acc, b)
  BY <1>1, <1>4, <1>5, <1>6, SameLists
<1> QED
  BY <1>1, <1>2, <1>7 DEF IInvLots, ScrubbedCache, Adds, SameSums

LEMMA TransDestroyKeeps ==
  ASSUME IInvLots, NEW t \in SplitId, TransDestroy(t)
  PROVE  IInvLots'
<1> DEFINE mine == {i \in Used(acc) : acc.s[i].trans = t}
           a == RemoveSplits(acc, mine)
           s2 == [i \in SplitId |-> IF i \in mine THEN Unused ELSE a.s[i]]
           list == Without(a.list, mine)
           b == [a EXCEPT !.s = s2, !.list = list]
<1>1. /\ acc \in AccType /\ AccInv(acc) /\ Adds(acc, entered)
      /\ mine \in SUBSET Used(acc) /\ mine \in SUBSET SplitId
  BY DEF IInvLots, AccInv, Used
<1>2. IsRemoved(acc, a, mine)
  BY <1>1, RemoveFacts
<1>3. AccInv(a) /\ a \in AccType /\ Agrees(a) /\ NoOwnPeer(a)
  BY <1>2 DEF IsRemoved, AccInv
<1>4. acc' = b /\ scrubbed' = FALSE /\ entered' = [entered EXCEPT ![t] = 0]
  <2>1. acc' = [a EXCEPT !.s = [i \in SplitId |-> IF i \in mine THEN Unused ELSE a.s[i]],
                         !.list = Without(a.list, mine)]
    BY DEF TransDestroy, Edited
  <2> QED
    BY <2>1 DEF TransDestroy, Edited
<1>5. Unused \in SplitType /\ Unused.trans = 0 /\ Unused.peers = {}
  <2>1. NoLot \in 0..MaxLots /\ 0 \in 0..MaxSplits
    BY Bounds
  <2> QED
    BY <2>1 DEF Unused, SplitType
<1>6. \A i \in SplitId : /\ i \in mine => a.s[i].lot = NoLot
                         /\ i \notin mine => a.s[i] = acc.s[i]
                         /\ a.s[i].trans = acc.s[i].trans /\ a.s[i] \in SplitType
  <2>1. \A i \in SplitId : a.s[i] \in SplitType /\ acc.s[i] \in SplitType
    BY <1>1, <1>3, AccFacts
  <2>2. \A i \in SplitId : a.s[i] = IF i \in mine THEN [acc.s[i] EXCEPT !.lot = NoLot] ELSE acc.s[i]
    BY <1>2 DEF IsRemoved
  <2> HIDE DEF mine, a
  <2> QED
    BY <2>1, <2>2 DEF SplitType
<1>7. \A i \in SplitId : i \in mine <=> i \in Used(acc) /\ acc.s[i].trans = t
  OBVIOUS
<1> HIDE DEF a, mine
<1>8. list \in Seq(SplitId) /\ ToSet(list) = ToSet(a.list) \ mine /\ IsInjective(list)
  <2> DEFINE old == a.list
  <2>1. old \in Seq(SplitId) /\ IsInjective(old)
    BY <1>3, AccFacts DEF Agrees
  <2>2. list = Without(old, mine)
    OBVIOUS
  <2> HIDE DEF old, list
  <2> QED
    BY <2>1, <2>2, WithoutFacts DEF old
<1>9. s2 \in [SplitId -> SplitType]
  BY <1>5, <1>6
<1>10. \A i \in SplitId : s2[i] = IF i \in mine THEN Unused ELSE a.s[i]
  OBVIOUS
<1> HIDE DEF s2, list
<1>11. b \in AccType /\ b.s = s2 /\ b.list = list /\ b.lots = a.lots /\ b.lot = a.lot
  <2> HIDE DEF SplitType, LotType
  <2> QED
    BY <1>3, <1>8, <1>9 DEF AccType
<1> HIDE DEF b
<1>12. Used(a) = Used(acc)
  BY <1>6 DEF Used
<1>13. Used(b) = Used(acc) \ mine
  BY <1>5, <1>6, <1>10, <1>11 DEF Used
<1>14. Agrees(b)
  <2>1. ASSUME NEW l \in LotId
        PROVE  {k \in Used(b) : b.s[k].lot = l} = {k \in Used(a) : a.s[k].lot = l}
    <3>1. l # NoLot
      BY Bounds
    <3>2. \A k \in Used(acc) : k \in SplitId
      BY DEF Used
    <3>3. \A k \in Used(acc) : k \in mine => a.s[k].lot # l
      BY <1>6, <3>1, <3>2
    <3>4. \A k \in Used(acc) : k \notin mine => b.s[k].lot = a.s[k].lot
      BY <1>10, <1>11, <3>2
    <3> QED
      BY <1>12, <1>13, <3>3, <3>4
  <2> QED
    BY <1>3, <1>8, <1>11, <1>12, <1>13, <2>1 DEF Agrees
<1>15. NoOwnPeer(b)
  BY <1>3, <1>5, <1>10, <1>11 DEF NoOwnPeer
<1>16. Adds(b, entered')
  <2>1. entered' \in [SplitId -> Int] /\ entered \in [SplitId -> Int]
    BY <1>1, <1>4 DEF Adds
  <2> SUFFICES ASSUME NEW u \in SplitId
               PROVE  Total(b, PartsOf(b, u)) = entered'[u]
    BY <2>1 DEF Adds
  <2>2. \A k \in Used(acc) : k \in SplitId
    BY DEF Used
  <2>3. \A k \in Used(acc) : k \notin mine => b.s[k] = acc.s[k]
    BY <1>6, <1>10, <1>11, <2>2
  <2>4. CASE u = t
    <3>1. PartsOf(b, u) = {}
      BY <1>7, <1>13, <2>2, <2>3, <2>4 DEF PartsOf
    <3>2. entered'[u] = 0
      BY <1>4, <2>1, <2>4
    <3> QED
      BY <3>1, <3>2, TotalEmpty
  <2>5. CASE u # t
    <3> DEFINE P == PartsOf(acc, u)
    <3>1. PartsOf(b, u) = P /\ P \in SUBSET SplitId /\ P \cap mine = {} /\ P \subseteq Used(acc)
      BY <1>7, <1>13, <2>2, <2>3, <2>5 DEF PartsOf
    <3>2. entered'[u] = entered[u] /\ Total(acc, P) = entered[u]
      BY <1>1, <1>4, <2>1, <2>5 DEF Adds
    <3> HIDE DEF P
    <3>3. \A k \in P : b.s[k].amt = acc.s[k].amt
      BY <2>3, <3>1
    <3>4. Total(b, P) = Total(acc, P)
      BY <3>1, <3>3, TotalSame
    <3> QED
      BY <3>1, <3>2, <3>4
  <2> QED
    BY <2>4, <2>5
<1> QED
  BY <1>4, <1>11, <1>14, <1>15, <1>16 DEF IInvLots, AccInv, ScrubbedCache, Adds

\* An account that was scrubbed is still known to be when it is only sorted.
LEMMA GetSplitListKeeps ==
  ASSUME IInvLots, GetSplitList
  PROVE  IInvLots'
<1> DEFINE b == AccountCommit(acc)
<1>1. AccInv(acc) /\ Adds(acc, entered) /\ scrubbed \in BOOLEAN /\ ScrubbedCache
  BY DEF IInvLots
<1>2. acc' = b /\ scrubbed' = scrubbed /\ entered' = entered
  BY DEF GetSplitList
<1>3. Scrubs(acc, b, {}) /\ b.lots = acc.lots
  BY <1>1, AccountCommitScrubs
<1> HIDE DEF b
<1>4. AccInv(b) /\ Adds(b, entered)
  BY <1>1, <1>3, ScrubsAdds
<1>5. ToSet(acc.lots) \subseteq LotId
  BY <1>1, AccFacts DEF AccInv
<1>6. scrubbed => \A l \in ToSet(b.lots) : RightCache(b, l)
  BY <1>1, <1>3, <1>5 DEF ScrubbedCache, RightCache, Scrubs, CacheKept
<1> QED
  BY <1>1, <1>2, <1>4, <1>6 DEF IInvLots, ScrubbedCache, RightCache, Adds, UsedUp, Balance, Total

LEMMA ViewerNewKeeps ==
  ASSUME IInvLots, ViewerNew
  PROVE  IInvLots'
<1> DEFINE l == FreshLot(acc)
           x == [acc EXCEPT !.lot[l] = NewLot]
           lots == <<l>> \o acc.lots
           b == [acc EXCEPT !.lots = lots, !.lot[l] = NewLot]
<1>1. AccInv(acc) /\ Adds(acc, entered) /\ acc \in AccType /\ Agrees(acc)
  BY DEF IInvLots, AccInv
<1>2. acc' = b /\ scrubbed' = FALSE /\ entered' = entered
  BY DEF ViewerNew, Edited
<1>3. /\ l \in LotId /\ l \notin ToSet(acc.lots)
      /\ Scrubs(acc, x, {}) /\ Used(x) = Used(acc)
  BY <1>1, FreshScrubs DEF ViewerNew
<1> HIDE DEF l
<1>4. HasOneMore(LotId, acc.lots, l, lots)
  BY <1>1, <1>3, AccFacts, AddToList
<1>5. lots \in Seq(LotId) /\ ToSet(lots) = ToSet(acc.lots) \cup {l} /\ IsInjective(lots)
  BY <1>1, <1>3, <1>4 DEF HasOneMore, Agrees
<1>6. x.lots = acc.lots /\ AccInv(x) /\ x \in AccType /\ SameSums(acc, x)
  BY <1>1, <1>3 DEF Scrubs, AccInv, AccType
<1> HIDE DEF lots
<1>7. b = [x EXCEPT !.lots = lots]
  BY <1>1 DEF AccType
<1> HIDE DEF b, x
<1>8. b \in AccType /\ b.s = x.s /\ b.list = x.list /\ b.lots = lots /\ b.lot = x.lot
  <2> HIDE DEF SplitType, LotType
  <2> QED
    BY <1>5, <1>6, <1>7 DEF AccType
<1>9. Used(b) = Used(x) /\ SameSums(x, b)
  BY <1>8, SameAmounts
<1>10. AccInv(b)
  BY <1>5, <1>6, <1>8, <1>9 DEF AccInv, Agrees, NoOwnPeer
<1>11. SameSums(acc, b)
  BY <1>6, <1>9 DEF SameSums
<1> QED
  BY <1>1, <1>2, <1>10, <1>11 DEF IInvLots, ScrubbedCache, Adds, SameSums

LEMMA ViewerDeleteKeeps ==
  ASSUME IInvLots, NEW l \in LotId, ViewerDelete(l)
  PROVE  IInvLots'
<1> DEFINE freed(i) == [acc.s[i] EXCEPT !.lot = NoLot]
           s2 == [i \in SplitId |-> IF acc.s[i].lot = l THEN freed(i) ELSE acc.s[i]]
           lots == Without(acc.lots, {l})
           b == [acc EXCEPT !.lots = lots, !.lot[l] = NewLot, !.s = s2]
<1>1. AccInv(acc) /\ Adds(acc, entered) /\ acc \in AccType /\ Agrees(acc) /\ NoOwnPeer(acc)
  BY DEF IInvLots, AccInv
<1>2. acc' = b /\ scrubbed' = FALSE /\ entered' = entered
  BY <1>1 DEF ViewerDelete, Edited, AccType
<1>3. \A i \in SplitId : /\ acc.s[i] \in SplitType /\ freed(i) \in SplitType
                         /\ freed(i).trans = acc.s[i].trans /\ freed(i).amt = acc.s[i].amt
                         /\ freed(i).lot = NoLot /\ freed(i).peers = acc.s[i].peers
  <2>1. (\A i \in SplitId : acc.s[i] \in SplitType) /\ NoLot \in 0..MaxLots
    BY <1>1, AccFacts, Bounds
  <2> QED
    BY <2>1 DEF SplitType
<1> HIDE DEF freed
<1>4. s2 \in [SplitId -> SplitType]
  BY <1>3
<1>5. \A i \in SplitId : /\ s2[i].trans = acc.s[i].trans /\ s2[i].amt = acc.s[i].amt
                         /\ s2[i].peers = acc.s[i].peers
                         /\ s2[i].lot = IF acc.s[i].lot = l THEN NoLot ELSE acc.s[i].lot
  BY <1>3
<1>6. lots \in Seq(LotId) /\ ToSet(lots) = ToSet(acc.lots) \ {l} /\ IsInjective(lots)
  <2> DEFINE old == acc.lots
             gone == {l}
  <2>1. old \in Seq(LotId) /\ IsInjective(old)
    BY <1>1, AccFacts DEF Agrees
  <2>2. lots = Without(old, gone)
    OBVIOUS
  <2> HIDE DEF old, lots, gone
  <2>3. lots \in Seq(LotId) /\ ToSet(lots) = ToSet(old) \ gone /\ IsInjective(lots)
    BY <2>1, <2>2, WithoutFacts
  <2> QED
    BY <2>3 DEF old, gone
<1>7. NewLot \in LotType /\ NewLot.splits = <<>> /\ ToSet(<<>>) = {} /\ IsInjective(<<>>)
  BY DEF NewLot, LotType, ToSet, IsInjective
<1>8. [acc.lot EXCEPT ![l] = NewLot] \in [LotId -> LotType]
  BY <1>1, <1>7 DEF AccType
<1> HIDE DEF s2, lots
<1>9. /\ b \in AccType /\ b.s = s2 /\ b.list = acc.list /\ b.lots = lots
      /\ \A k \in LotId : b.lot[k] = IF k = l THEN NewLot ELSE acc.lot[k]
  <2>1. acc.lot \in [LotId -> LotType]
    BY <1>1 DEF AccType
  <2> HIDE DEF SplitType, LotType
  <2> QED
    BY <1>1, <1>4, <1>6, <1>8, <2>1 DEF AccType
<1> HIDE DEF b
<1>10. Used(b) = Used(acc) /\ SameSums(acc, b)
  BY <1>5, <1>9, SameAmounts
<1>11. Agrees(b)
  <2>1. ASSUME NEW k \in LotId
        PROVE  /\ IsInjective(b.lot[k].splits)
               /\ ToSet(b.lot[k].splits) = {i \in Used(b) : b.s[i].lot = k}
               /\ ToSet(b.lot[k].splits) # {} => k \in ToSet(b.lots)
    <3>1. /\ IsInjective(acc.lot[k].splits)
          /\ ToSet(acc.lot[k].splits) = {i \in Used(acc) : acc.s[i].lot = k}
          /\ ToSet(acc.lot[k].splits) # {} => k \in ToSet(acc.lots)
      BY <1>1 DEF Agrees
    <3>2. \A i \in Used(acc) : b.s[i].lot = IF acc.s[i].lot = l THEN NoLot ELSE acc.s[i].lot
      BY <1>5, <1>9 DEF Used
    <3>3. k # NoLot
      BY Bounds
    <3>4. CASE k = l
      BY <1>7, <1>9, <1>10, <3>2, <3>3, <3>4
    <3>5. CASE k # l
      <4>1. {i \in Used(b) : b.s[i].lot = k} = {i \in Used(acc) : acc.s[i].lot = k}
        BY <1>10, <3>2, <3>3, <3>5
      <4> QED
        BY <1>6, <1>9, <3>1, <3>5, <4>1
    <3> QED
      BY <3>4, <3>5
  <2> QED
    BY <1>1, <1>6, <1>9, <1>10, <2>1 DEF Agrees
<1>12. NoOwnPeer(b)
  BY <1>1, <1>5, <1>9 DEF NoOwnPeer
<1> QED
  BY <1>1, <1>2, <1>9, <1>10, <1>11, <1>12 DEF IInvLots, AccInv, ScrubbedCache, Adds, SameSums

LEMMA ViewerScrubKeeps ==
  ASSUME IInvLots, NEW l \in LotId, ViewerScrub(l)
  PROVE  IInvLots'
<1> DEFINE x == ScrubLot(acc, l)
           b == AccountCommit(x)
<1>1. AccInv(acc) /\ Adds(acc, entered)
  BY DEF IInvLots
<1>2. acc' = b /\ scrubbed' = FALSE /\ entered' = entered
  BY DEF ViewerScrub, Edited
<1>3. Scrubs(acc, x, {l})
  BY <1>1, ScrubLotScrubs
<1> HIDE DEF x
<1>4. Scrubs(x, b, {})
  BY <1>3, AccountCommitScrubs DEF Scrubs
<1> HIDE DEF b
<1>5. AccInv(b) /\ Adds(b, entered)
  BY <1>1, <1>3, <1>4, ScrubsBoth, ScrubsAdds
<1> QED
  BY <1>2, <1>5 DEF IInvLots, ScrubbedCache, Adds

LEMMA AccountScrubLotsKeeps ==
  ASSUME IInvLots, AccountScrubLots
  PROVE  IInvLots'
<1> DEFINE x == ScrubLots(acc)
           b == AccountCommit(x)
<1>1. AccInv(acc) /\ Adds(acc, entered)
  BY DEF IInvLots
<1>2. acc' = b /\ scrubbed' = TRUE /\ entered' = entered /\ ~b.full
  BY DEF AccountScrubLots
<1>3. Scrubs(acc, x, LotId) /\ (~x.full => \A l \in ToSet(x.lots) : RightCache(x, l))
  BY <1>1, ScrubLotsScrubs
<1> HIDE DEF x
<1>4. Scrubs(x, b, {}) /\ b.full = x.full /\ b.lots = x.lots
  BY <1>3, AccountCommitScrubs DEF Scrubs
<1> HIDE DEF b
<1>5. AccInv(b) /\ Adds(b, entered)
  BY <1>1, <1>3, <1>4, ScrubsBoth, ScrubsAdds
<1>6. ToSet(b.lots) \subseteq LotId
  BY <1>5, AccFacts DEF AccInv
<1>7. \A l \in ToSet(b.lots) : RightCache(b, l)
  BY <1>2, <1>3, <1>4, <1>6 DEF Scrubs, CacheKept
<1> QED
  BY <1>2, <1>5, <1>7 DEF IInvLots, ScrubbedCache, RightCache, Adds, UsedUp, Balance, Total

LEMMA LotsInductive ==
  ASSUME IInvLots, [LotNext]_lotvars
  PROVE  IInvLots'
<1>1. CASE UNCHANGED lotvars
  BY <1>1 DEF lotvars, IInvLots, ScrubbedCache, UsedUp, Balance, Total, Adds
<1>2. ASSUME NEW d \in Dates, NEW n \in Amounts, Enter(d, n)
      PROVE  IInvLots'
  BY <1>2, EnterKeeps
<1>3. ASSUME NEW i \in SplitId, NEW n \in Amounts, Amount(i, n)
      PROVE  IInvLots'
  BY <1>3, AmountKeeps
<1>4. ASSUME NEW i \in SplitId, NEW n \in Amounts, AbandonAmount(i, n)
      PROVE  IInvLots'
  BY <1>4, AbandonAmountKeeps
<1>5. ASSUME NEW t \in SplitId, NEW d \in Dates, DatePosted(t, d)
      PROVE  IInvLots'
  BY <1>5, DatePostedKeeps
<1>6. ASSUME NEW t \in SplitId, TransDestroy(t)
      PROVE  IInvLots'
  BY <1>6, TransDestroyKeeps
<1>7. CASE GetSplitList
  BY <1>7, GetSplitListKeeps
<1>8. CASE ViewerNew
  BY <1>8, ViewerNewKeeps
<1>9. CASE AccountScrubLots
  BY <1>9, AccountScrubLotsKeeps
<1>10. ASSUME NEW l \in LotId, ViewerDelete(l)
       PROVE  IInvLots'
  BY <1>10, ViewerDeleteKeeps
<1>11. ASSUME NEW l \in LotId, ViewerScrub(l)
       PROVE  IInvLots'
  BY <1>11, ViewerScrubKeeps
<1> QED
  BY <1>1, <1>2, <1>3, <1>4, <1>5, <1>6, <1>7, <1>8, <1>9, <1>10, <1>11 DEF LotNext

LEMMA LotsInvariant == LotSpec => []IInvLots
<1>1. LotInit => IInvLots
  BY LotsStart
<1>2. IInvLots /\ [LotNext]_lotvars => IInvLots'
  BY LotsInductive
<1> QED
  BY <1>1, <1>2, PTL DEF LotSpec

(* Whatever is cut, merged, moved, deleted and scrubbed, a lot lists       *)
(* exactly the splits that point to it and the account exactly its splits. *)
THEOREM LotsAgreeAlways == LotSpec => []LotsAgree
<1>1. IInvLots => LotsAgree
  <2> SUFFICES ASSUME IInvLots  PROVE LotsAgree
    OBVIOUS
  <2>1. acc \in AccType /\ Agrees(acc)
    BY DEF IInvLots, AccInv
  <2>2. ASSUME NEW l \in LotId, acc.lot[l].splits # <<>>
        PROVE  Contains(acc.lots, l)
    <3>1. ToSet(acc.lot[l].splits) # {}
      BY <2>1, <2>2, AccFacts, EmptyList
    <3>2. l \in ToSet(acc.lots)
      BY <2>1, <3>1 DEF Agrees
    <3> DEFINE q == acc.lots
    <3>3. q \in Seq(LotId)
      BY <2>1, AccFacts
    <3>4. l \in ToSet(q)
      BY <3>2
    <3> HIDE DEF q
    <3>5. ToSet(q) = {q[k] : k \in 1..Len(q)}
      BY <3>3, ListFacts
    <3>6. Contains(q, l)
      BY <3>4, <3>5 DEF Contains
    <3> QED
      BY <3>6 DEF q
  <2> QED
    BY <2>1, <2>2 DEF LotsAgree, Agrees
<1> QED
  BY <1>1, LotsInvariant, PTL

(* However often a split is cut up and its parts are merged and cut again, *)
(* the parts of a transaction add up to what the user entered.             *)
THEOREM NothingIsLost == LotSpec => []NothingLost
<1>1. IInvLots => NothingLost
  BY DEF IInvLots, Adds, NothingLost, PartsOf
<1> QED
  BY <1>1, LotsInvariant, PTL

(* A scrub of the account leaves no lot with a wrong cached answer, even   *)
(* one that an abandoned edit had left wrong.                              *)
THEOREM ScrubMendsCaches == LotSpec => []ScrubbedCache
<1>1. IInvLots => ScrubbedCache
  BY DEF IInvLots
<1> QED
  BY <1>1, LotsInvariant, PTL

-----------------------------------------------------------------------------
(* First in, first out: an account that users only enter splits in, which, *)
(* once there are lots, are no older than those it has.                    *)

Opener(a, l) == a.lot[l].splits[1]
Nonempty(a, l) == a.lot[l].splits # <<>>
UsersOf(a, l) == ToSet(a.lot[l].splits) \ {Opener(a, l)}
Buys(a, l) == a.s[Opener(a, l)].amt > 0
InUse(a, l) == Nonempty(a, l) /\ ~UsedUp(a, l)
OpenedOn(a, l) == a.s[Opener(a, l)].date

\* A lot is opened by its earliest split, and not overdrawn by the others.
LotInOrder(a, l) ==
  /\ InTurn(a, a.lot[l].splits)
  /\ RightCache(a, l)
  /\ Nonempty(a, l) =>
       /\ \A i \in UsersOf(a, l) : a.s[i].amt < 0 <=> Buys(a, l)
       /\ IF Buys(a, l) THEN Balance(a, l) >= 0 ELSE Balance(a, l) <= 0

\* UsedInOrder, of an account that is being scrubbed
InOrder(a, l, k) ==
  /\ InUse(a, l) /\ InUse(a, k) => (Buys(a, l) <=> Buys(a, k))
  /\ /\ Nonempty(a, l) /\ Nonempty(a, k)
     /\ Buys(a, l) <=> Buys(a, k)
     /\ OpenedOn(a, l) < OpenedOn(a, k)
     => /\ UsersOf(a, k) # {} => UsedUp(a, l)
        /\ \A i \in UsersOf(a, l), j \in UsersOf(a, k) : a.s[i].date <= a.s[j].date

LotsInOrder(a) ==
  /\ \A l \in LotId : LotInOrder(a, l)
  /\ \A l, k \in LotId : InOrder(a, l, k)

Loose(a) == {i \in Used(a) : a.s[i].lot = NoLot}

\* R, the splits that are being put into lots, are the earliest in no lot.
LooseLast(a, R) ==
  /\ R \subseteq Loose(a)
  /\ \A i \in Used(a), j \in Loose(a) : i \notin Loose(a) \/ i \in R => a.s[i].date <= a.s[j].date

\* No lot has two parts of a transaction; a part that is to be put into a lot
\* was cut off another that used its lot up.
PartsApart(a, R) ==
  \A i, j \in Used(a) : i # j /\ a.s[i].trans = a.s[j].trans =>
    /\ a.s[i].lot # NoLot => a.s[i].lot # a.s[j].lot
    /\ a.s[j].lot = NoLot => j \in R /\ (a.s[i].lot # NoLot => UsedUp(a, a.s[i].lot))

LooseInTurn(a, R) ==
  \A j, k \in 1..Len(a.list) :
    j <= k /\ a.list[j] \in Loose(a) \ R /\ a.list[k] \in Loose(a) \ R =>
      a.s[a.list[j]].date <= a.s[a.list[k]].date

NoneZero(a) == \A i \in Used(a) : a.s[i].amt # 0

Orderly(a, R) ==
  LotsInOrder(a) /\ NoneZero(a) /\ LooseLast(a, R) /\ PartsApart(a, R) /\ LooseInTurn(a, R)

-----------------------------------------------------------------------------
(* What a call leaves alone stays in order.                                *)

SameLot(a, b, l) ==
  /\ b.lot[l].splits = a.lot[l].splits
  /\ \A i \in ToSet(a.lot[l].splits) : b.s[i].amt = a.s[i].amt /\ b.s[i].date = a.s[i].date

LEMMA OpenerFacts ==
  ASSUME NEW a \in AccType, NEW l \in LotId, Nonempty(a, l)
  PROVE  /\ Opener(a, l) \in ToSet(a.lot[l].splits) /\ Opener(a, l) \in SplitId
         /\ 1 \in 1..Len(a.lot[l].splits)
         /\ UsersOf(a, l) \subseteq ToSet(a.lot[l].splits)
         /\ OpenedOn(a, l) \in Nat
<1> DEFINE q == a.lot[l].splits
<1>1. q \in Seq(SplitId) /\ q # <<>> /\ ToSet(q) \subseteq SplitId
  BY AccFacts DEF Nonempty
<1> HIDE DEF q
<1>2. 1 \in 1..Len(q)
  BY <1>1
<1>3. q[1] \in ToSet(q)
  BY <1>1, <1>2, ListFacts
<1>4. q[1] \in SplitId
  BY <1>1, <1>3
<1> QED
  BY <1>2, <1>3, <1>4, AccFacts DEF Opener, UsersOf, OpenedOn, q

LEMMA SameLotFacts ==
  ASSUME NEW a \in AccType, NEW b \in AccType, NEW l \in LotId, SameLot(a, b, l)
  PROVE  /\ Nonempty(b, l) <=> Nonempty(a, l)
         /\ Opener(b, l) = Opener(a, l) /\ UsersOf(b, l) = UsersOf(a, l)
         /\ Balance(b, l) = Balance(a, l)
         /\ UsedUp(b, l) <=> UsedUp(a, l)
         /\ InUse(b, l) <=> InUse(a, l)
         /\ Nonempty(a, l) => (Buys(b, l) <=> Buys(a, l)) /\ OpenedOn(b, l) = OpenedOn(a, l)
         /\ \A i \in UsersOf(a, l) : b.s[i].amt = a.s[i].amt /\ b.s[i].date = a.s[i].date
<1> DEFINE ids == ToSet(a.lot[l].splits)
<1>1. b.lot[l].splits = a.lot[l].splits
  BY DEF SameLot
<1>2. ids \in SUBSET SplitId /\ \A i \in ids : b.s[i].amt = a.s[i].amt
  BY AccFacts DEF SameLot
<1>3. Balance(b, l) = Total(b, ids) /\ Balance(a, l) = Total(a, ids)
  BY <1>1 DEF Balance
<1> HIDE DEF ids
<1>4. Total(b, ids) = Total(a, ids)
  BY <1>2, TotalSame
<1>5. UsedUp(b, l) <=> UsedUp(a, l)
  BY <1>1, <1>3, <1>4 DEF UsedUp
<1>6. Nonempty(a, l) => Opener(a, l) \in ToSet(a.lot[l].splits)
  BY OpenerFacts
<1>7. Nonempty(a, l) => (Buys(b, l) <=> Buys(a, l)) /\ OpenedOn(b, l) = OpenedOn(a, l)
  BY <1>1, <1>6 DEF Buys, OpenedOn, Opener, SameLot
<1> QED
  BY <1>1, <1>3, <1>4, <1>5, <1>7 DEF Nonempty, Opener, UsersOf, InUse, SameLot

LEMMA LotStays ==
  ASSUME NEW a \in AccType, NEW b \in AccType, NEW l \in LotId, SameLot(a, b, l),
         LotInOrder(a, l), RightCache(b, l)
  PROVE  LotInOrder(b, l)
<1>1. InTurn(b, b.lot[l].splits)
  <2> DEFINE q == a.lot[l].splits
  <2>1. q \in Seq(SplitId)
    BY AccFacts
  <2>2. \A k \in 1..Len(q) : q[k] \in ToSet(q)
    BY <2>1, ListFacts
  <2>3. b.lot[l].splits = q /\ \A i \in ToSet(q) : b.s[i].date = a.s[i].date
    BY DEF SameLot
  <2>4. InTurn(a, q)
    BY DEF LotInOrder
  <2> HIDE DEF q
  <2> QED
    BY <2>2, <2>3, <2>4 DEF InTurn
<1> QED
  BY <1>1, SameLotFacts DEF LotInOrder

LEMMA InOrderStays ==
  ASSUME NEW a \in AccType, NEW b \in AccType, NEW l \in LotId, SameLot(a, b, l),
         NEW k \in LotId, SameLot(a, b, k), InOrder(a, l, k)
  PROVE  InOrder(b, l, k)
<1>1. /\ Nonempty(b, l) <=> Nonempty(a, l)
      /\ UsersOf(b, l) = UsersOf(a, l)
      /\ UsedUp(b, l) <=> UsedUp(a, l)
      /\ InUse(b, l) <=> InUse(a, l)
      /\ Nonempty(a, l) => (Buys(b, l) <=> Buys(a, l)) /\ OpenedOn(b, l) = OpenedOn(a, l)
      /\ \A i \in UsersOf(a, l) : b.s[i].date = a.s[i].date
  BY SameLotFacts
<1>2. /\ Nonempty(b, k) <=> Nonempty(a, k)
      /\ UsersOf(b, k) = UsersOf(a, k)
      /\ UsedUp(b, k) <=> UsedUp(a, k)
      /\ InUse(b, k) <=> InUse(a, k)
      /\ Nonempty(a, k) => (Buys(b, k) <=> Buys(a, k)) /\ OpenedOn(b, k) = OpenedOn(a, k)
      /\ \A i \in UsersOf(a, k) : b.s[i].date = a.s[i].date
  BY SameLotFacts
<1>3. (InUse(a, l) => Nonempty(a, l)) /\ (InUse(a, k) => Nonempty(a, k))
  BY DEF InUse
<1> QED
  BY <1>1, <1>2, <1>3 DEF InOrder

LEMMA LotsStay ==
  ASSUME NEW a \in AccType, NEW b \in AccType, LotsInOrder(a),
         \A l \in LotId : SameLot(a, b, l) /\ RightCache(b, l)
  PROVE  LotsInOrder(b)
BY LotStays, InOrderStays DEF LotsInOrder

\* Only cached answers change, and lots without splits.
Peeks(a, b) ==
  /\ b \in AccType
  /\ b.s = a.s /\ b.list = a.list
  /\ \A l \in LotId : b.lot[l].splits = a.lot[l].splits
  /\ \A l \in LotId : b.lot[l].closed = a.lot[l].closed \/ RightCache(b, l)

LEMMA PeeksFacts ==
  ASSUME NEW a \in AccType, NEW b, Peeks(a, b), NEW R, Orderly(a, R)
  PROVE  /\ Orderly(b, R) /\ Used(b) = Used(a) /\ Loose(b) = Loose(a)
         /\ \A l \in LotId : /\ Opener(b, l) = Opener(a, l)
                             /\ Balance(b, l) = Balance(a, l)
                             /\ InUse(b, l) <=> InUse(a, l)
                             /\ Buys(b, l) <=> Buys(a, l)
<1>1. b \in AccType /\ b.s = a.s /\ b.list = a.list
  BY DEF Peeks
<1>2. Used(b) = Used(a) /\ Loose(b) = Loose(a)
  BY <1>1 DEF Used, Loose
<1>3. \A l \in LotId : SameLot(a, b, l)
  BY <1>1 DEF Peeks, SameLot
<1>4. \A l \in LotId : /\ UsedUp(b, l) <=> UsedUp(a, l)
                       /\ Opener(b, l) = Opener(a, l)
                       /\ Balance(b, l) = Balance(a, l)
                       /\ InUse(b, l) <=> InUse(a, l)
  BY <1>1, <1>3, SameLotFacts
<1>5. \A l \in LotId : RightCache(b, l)
  BY <1>4 DEF Peeks, Orderly, LotsInOrder, LotInOrder, RightCache
<1>6. LotsInOrder(b)
  BY <1>1, <1>3, <1>5, LotsStay DEF Orderly
<1>7. PartsApart(b, R)
  <2>1. ASSUME NEW i \in Used(a), a.s[i].lot # NoLot
        PROVE  UsedUp(b, a.s[i].lot) <=> UsedUp(a, a.s[i].lot)
    <3>1. a.s[i].lot \in LotId
      BY <2>1, AccFacts, Bounds DEF Used, LotId
    <3> QED
      BY <1>4, <3>1
  <2> QED
    BY <1>1, <1>2, <2>1 DEF Orderly, PartsApart
<1>8. NoneZero(b) /\ LooseLast(b, R) /\ LooseInTurn(b, R)
  BY <1>1, <1>2 DEF Orderly, NoneZero, LooseLast, LooseInTurn
<1>9. \A l \in LotId : Buys(b, l) <=> Buys(a, l)
  BY <1>1, <1>4 DEF Buys
<1> QED
  BY <1>2, <1>4, <1>6, <1>7, <1>8, <1>9 DEF Orderly

\* They are asked for in the middle of other calls.
Glances(a, b) ==
  Peeks(a, b) /\ b.lots = a.lots /\ b.full = a.full /\ b.unsorted = a.unsorted

LEMMA GlancesAtNothing ==
  ASSUME NEW a \in AccType
  PROVE  Glances(a, a)
BY DEF Glances, Peeks

LEMMA GlancesBoth ==
  ASSUME NEW a \in AccType, NEW b, NEW c, Glances(a, b), Glances(b, c)
  PROVE  Glances(a, c)
<1>1. /\ b \in AccType /\ c \in AccType
      /\ b.s = a.s /\ b.list = a.list /\ b.lots = a.lots /\ b.full = a.full
      /\ b.unsorted = a.unsorted
      /\ c.s = b.s /\ c.list = b.list /\ c.lots = b.lots /\ c.full = b.full
      /\ c.unsorted = b.unsorted
      /\ \A l \in LotId : b.lot[l].splits = a.lot[l].splits /\ c.lot[l].splits = b.lot[l].splits
  BY DEF Glances, Peeks
<1>2. ASSUME NEW l \in LotId
      PROVE  c.lot[l].closed = a.lot[l].closed \/ RightCache(c, l)
  <2>1. UsedUp(c, l) <=> UsedUp(b, l)
    BY <1>1, SameUse
  <2>2. c.lot[l].closed = b.lot[l].closed \/ RightCache(c, l)
    BY DEF Glances, Peeks
  <2>3. b.lot[l].closed = a.lot[l].closed \/ RightCache(b, l)
    BY DEF Glances, Peeks
  <2> QED
    BY <2>1, <2>2, <2>3 DEF RightCache
<1> QED
  BY <1>1, <1>2 DEF Glances, Peeks

LEMMA KnownGlances ==
  ASSUME NEW a \in AccType, NEW l \in LotId
  PROVE  Glances(a, Known(a, l))
<1> DEFINE b == Known(a, l)
           answer == IF UsedUp(a, l) THEN "yes" ELSE "no"
<1>1. Looks(a, b)
  BY KnownLooks
<1>2. b = [a EXCEPT !.lot[l].closed = answer]
  BY DEF Known
<1> HIDE DEF answer, b
<1>3. b.unsorted = a.unsorted /\ \A k \in LotId : b.lot[k].splits = a.lot[k].splits
  BY <1>2 DEF AccType, LotType
<1> QED
  BY <1>1, <1>3 DEF Looks, Glances, Peeks, b

LEMMA AskGlances ==
  ASSUME NEW a \in AccType, NEW l \in LotId
  PROVE  Glances(a, Ask(a, l))
BY KnownGlances, GlancesAtNothing DEF Ask

\* An answer that is right, or not known, is right.
LEMMA RightAnswer ==
  ASSUME NEW a \in AccType, NEW l \in LotId, RightCache(a, l)
  PROVE  IsClosed(a, l) <=> UsedUp(a, l)
<1>1. CASE a.lot[l].closed = "unknown"
  <2>1. IsClosed(a, l) <=> Known(a, l).lot[l].closed = "yes"
    BY <1>1 DEF IsClosed, Ask
  <2>2. Known(a, l).lot[l].closed = IF UsedUp(a, l) THEN "yes" ELSE "no"
    BY DEF Known, AccType, LotType
  <2> QED
    BY <2>1, <2>2
<1>2. CASE a.lot[l].closed # "unknown"
  BY <1>2 DEF IsClosed, Ask, RightCache
<1> QED
  BY <1>1, <1>2

LEMMA SortsNothing ==
  ASSUME NEW a \in AccType, NEW b, Glances(a, b), NEW l \in LotId, LotInOrder(a, l)
  PROVE  SortLot(b, l) = b
<1>1. b \in AccType /\ b.s = a.s /\ b.lot[l].splits = a.lot[l].splits
  BY DEF Glances, Peeks
<1>2. InTurn(b, b.lot[l].splits)
  BY <1>1 DEF LotInOrder, InTurn
<1> QED
  BY <1>1, <1>2, SortedAlready

LEMMA AskOneGlances ==
  ASSUME NEW a \in AccType, NEW l \in LotId, LotInOrder(a, l)
  PROVE  Glances(a, AskOne(a, l))
<1> DEFINE b == Ask(a, l)
           c == Known(b, l)
<1>1. Glances(a, b) /\ b \in AccType
  BY AskGlances DEF Glances, Peeks
<1> HIDE DEF b
<1>2. Glances(a, c)
  BY <1>1, KnownGlances, GlancesBoth
<1>3. SortLot(c, l) = c
  BY <1>2, SortsNothing
<1>4. AskOne(a, l) = b \/ AskOne(a, l) = SortLot(c, l)
  BY DEF AskOne, b
<1> QED
  BY <1>1, <1>2, <1>3, <1>4

LEMMA AskAllGlances ==
  ASSUME NEW a \in AccType, NEW R, Orderly(a, R)
  PROVE  Glances(a, AskAll(a))
<1> DEFINE N == Len(a.lots)
           S == {x \in AccType : Glances(a, x)}
<1>1. N \in Nat /\ \A n \in 1..N : a.lots[n] \in LotId
  BY AskAllRun
<1>2. PICK g : AsksAll(a, g)
  BY AskAllRun
<1>3. /\ g[0] = a /\ AskAll(a) = g[N]
      /\ \A n \in 1..N : g[n] = AskOne(g[n - 1], a.lots[n])
  BY <1>2 DEF AsksAll
<1> HIDE DEF N
<1>4. g[0] \in S
  BY <1>3, GlancesAtNothing
<1>5. ASSUME NEW n \in 1..N, g[n - 1] \in S
      PROVE  g[n] \in S
  <2> DEFINE x == g[n - 1]
             l == a.lots[n]
             y == AskOne(x, l)
  <2>1. l \in LotId /\ g[n] = y /\ x \in AccType /\ Glances(a, x)
    BY <1>1, <1>3, <1>5
  <2> HIDE DEF x, l
  <2>2. LotInOrder(x, l)
    BY <2>1, PeeksFacts DEF Glances, Orderly, LotsInOrder
  <2>3. Glances(x, y)
    BY <2>1, <2>2, AskOneGlances
  <2> HIDE DEF y
  <2>4. Glances(a, y) /\ y \in AccType
    BY <2>1, <2>3, GlancesBoth DEF Glances, Peeks
  <2> QED
    BY <2>1, <2>4
<1>6. \A n \in 0..N : g[n] \in S
  <2> HIDE DEF S
  <2> QED
    BY <1>1, <1>4, <1>5, LoopStays
<1> QED
  BY <1>1, <1>3, <1>6

-----------------------------------------------------------------------------
(* Finding a lot.                                                          *)

LEMMA EarliestOpens ==
  ASSUME NEW a \in AccType, NEW l \in LotId, LotInOrder(a, l), Nonempty(a, l)
  PROVE  Earliest(a, l) = Opener(a, l)
<1> DEFINE q == a.lot[l].splits
<1>1. SortLot(a, l) = a
  BY GlancesAtNothing, SortsNothing
<1>2. Earliest(a, l) = Head(q)
  BY <1>1 DEF Earliest
<1>3. q \in Seq(SplitId) /\ q # <<>>
  BY AccFacts DEF Nonempty
<1> HIDE DEF q
<1>4. Head(q) = q[1]
  BY <1>3
<1> QED
  BY <1>2, <1>4 DEF q, Opener

LEMMA OpenerSign ==
  ASSUME NEW a, AccInv(a), NoneZero(a), NEW l \in LotId, Nonempty(a, l)
  PROVE  /\ Opener(a, l) \in Used(a) /\ a.s[Opener(a, l)].lot = l
         /\ a.s[Opener(a, l)].amt \in Int /\ a.s[Opener(a, l)].amt # 0
         /\ Balance(a, l) \in Int /\ l \in ToSet(a.lots)
<1>1. a \in AccType
  BY DEF AccInv
<1>2. Opener(a, l) \in ToSet(a.lot[l].splits)
  BY <1>1, OpenerFacts
<1>3. Opener(a, l) \in Used(a) /\ a.s[Opener(a, l)].lot = l /\ l \in ToSet(a.lots)
  BY <1>2 DEF AccInv, Agrees
<1>4. a.s[Opener(a, l)].amt \in Int /\ a.s[Opener(a, l)].amt # 0
  BY <1>1, <1>3, AccFacts DEF NoneZero, Used
<1>5. Balance(a, l) \in Int
  BY <1>1, AccFacts, TotalIsInt DEF Balance
<1> QED
  BY <1>3, <1>4, <1>5

LEMMA InUseFacts ==
  ASSUME NEW a, AccInv(a), LotsInOrder(a), NoneZero(a), NEW l \in LotId, InUse(a, l)
  PROVE  /\ Nonempty(a, l) /\ Balance(a, l) \in Int
         /\ IF Buys(a, l) THEN Balance(a, l) > 0 ELSE Balance(a, l) < 0
<1>1. Nonempty(a, l) /\ ~UsedUp(a, l)
  BY DEF InUse
<1>2. Balance(a, l) \in Int /\ Balance(a, l) # 0
  BY <1>1, OpenerSign DEF UsedUp, Nonempty
<1>3. IF Buys(a, l) THEN Balance(a, l) >= 0 ELSE Balance(a, l) <= 0
  BY <1>1 DEF LotsInOrder, LotInOrder
<1> QED
  BY <1>1, <1>2, <1>3

LEMMA SuitsFacts ==
  ASSUME NEW a, AccInv(a), LotsInOrder(a), NoneZero(a), NEW l \in LotId,
         NEW amt \in Int, amt # 0
  PROVE  Suits(a, l, amt) <=> InUse(a, l) /\ ~(Buys(a, l) <=> amt > 0)
<1> DEFINE opening == a.s[Opener(a, l)].amt
<1>1. a \in AccType /\ LotInOrder(a, l) /\ RightCache(a, l)
  BY DEF AccInv, LotsInOrder, LotInOrder
<1>2. CASE ~InUse(a, l)
  BY <1>1, <1>2, RightAnswer DEF Suits, InUse, Nonempty
<1>3. CASE InUse(a, l)
  <2>1. /\ Nonempty(a, l) /\ ~UsedUp(a, l)
        /\ IF Buys(a, l) THEN Balance(a, l) > 0 ELSE Balance(a, l) < 0
        /\ Balance(a, l) \in Int
    BY <1>3, InUseFacts DEF InUse
  <2>2. opening \in Int /\ opening # 0 /\ (Buys(a, l) <=> opening > 0)
    BY <2>1, OpenerSign DEF Buys
  <2>3. ~IsClosed(a, l)
    BY <1>1, <2>1, RightAnswer
  <2>4. a.s[Earliest(a, l)].amt = opening
    BY <1>1, <2>1, EarliestOpens
  <2>5. Suits(a, l, amt) <=> /\ Sign(opening) = -Sign(amt)
                             /\ opening > 0 <=> Balance(a, l) > 0
    BY <2>1, <2>3, <2>4 DEF Suits, Nonempty
  <2> HIDE DEF opening
  <2>6. Sign(opening) = -Sign(amt) <=> ~(opening > 0 <=> amt > 0)
    BY <2>2 DEF Sign
  <2> QED
    BY <1>3, <2>1, <2>2, <2>5, <2>6
<1> QED
  BY <1>2, <1>3

\* Of the lots in use, the one to use up is the one opened first.
IsFirst(a, l) == InUse(a, l) /\ \A k \in LotId : InUse(a, k) => OpenedOn(a, l) <= OpenedOn(a, k)

LEMMA PolicyLotFirst ==
  ASSUME NEW a, AccInv(a), LotsInOrder(a), NoneZero(a), NEW amt \in Int, amt # 0
  PROVE  \/ /\ PolicyLot(a, amt) = NoLot
            /\ \A k \in LotId : InUse(a, k) => (Buys(a, k) <=> amt > 0)
         \/ /\ PolicyLot(a, amt) \in ToSet(a.lots) /\ PolicyLot(a, amt) \in LotId
            /\ IsFirst(a, PolicyLot(a, amt))
            /\ ~(Buys(a, PolicyLot(a, amt)) <=> amt > 0)
<1> DEFINE suits == {k \in DOMAIN a.lots : Suits(a, a.lots[k], amt)}
           opened(k) == a.s[Earliest(a, a.lots[k])].date
           first == {k \in suits : \A j \in suits : opened(k) <= opened(j)}
           days == {opened(k) : k \in suits}
           l == PolicyLot(a, amt)
<1>1. a \in AccType /\ Agrees(a)
  BY DEF AccInv
<1>2. /\ Len(a.lots) \in Nat /\ DOMAIN a.lots = 1..Len(a.lots)
      /\ ToSet(a.lots) = {a.lots[k] : k \in DOMAIN a.lots}
      /\ \A k \in DOMAIN a.lots : a.lots[k] \in LotId
  BY <1>1, AccFacts, ListFacts
<1>3. \A k \in DOMAIN a.lots :
        k \in suits <=> InUse(a, a.lots[k]) /\ ~(Buys(a, a.lots[k]) <=> amt > 0)
  BY <1>2, SuitsFacts
<1>4. \A k \in suits : opened(k) = OpenedOn(a, a.lots[k]) /\ opened(k) \in Nat
  <2> SUFFICES ASSUME NEW k \in suits
               PROVE  opened(k) = OpenedOn(a, a.lots[k]) /\ opened(k) \in Nat
    OBVIOUS
  <2> DEFINE m == a.lots[k]
  <2>1. m \in LotId /\ Nonempty(a, m)
    BY <1>2, <1>3 DEF InUse
  <2>2. LotInOrder(a, m)
    BY <2>1 DEF LotsInOrder
  <2> HIDE DEF m
  <2>3. Earliest(a, m) = Opener(a, m)
    BY <1>1, <2>1, <2>2, EarliestOpens
  <2>4. OpenedOn(a, m) \in Nat
    BY <1>1, <2>1, OpenerFacts
  <2> QED
    BY <2>3, <2>4 DEF OpenedOn, m
<1>5. l = IF suits = {} THEN NoLot ELSE a.lots[Min(first)]
  BY DEF PolicyLot
<1>6. suits \subseteq DOMAIN a.lots
  OBVIOUS
<1>7. ASSUME NEW k \in LotId, InUse(a, k)
      PROVE  \E n \in DOMAIN a.lots : k = a.lots[n]
  <2>1. k \in ToSet(a.lots)
    BY <1>7, OpenerSign DEF InUse
  <2> QED
    BY <1>2, <2>1
<1> HIDE DEF suits, opened, l
<1>8. CASE suits = {}
  <2>1. l = NoLot
    BY <1>5, <1>8
  <2>2. \A k \in LotId : InUse(a, k) => (Buys(a, k) <=> amt > 0)
    BY <1>3, <1>7, <1>8
  <2> QED
    BY <2>1, <2>2 DEF l
<1>9. CASE suits # {}
  <2>1. days \in SUBSET Nat /\ days # {}
    BY <1>4, <1>9
  <2>2. PICK d \in days : \A e \in days : d <= e
    <3> HIDE DEF days
    <3> QED
      BY <2>1, LeastExists
  <2>3. PICK k \in suits : d = opened(k)
    BY <2>2
  <2>4. k \in first
    BY <2>2, <2>3
  <2>5. first \in SUBSET Nat /\ first # {}
    BY <1>2, <1>6, <2>4
  <2>6. \A n \in first : n \in suits /\ \A j \in suits : opened(n) <= opened(j)
    OBVIOUS
  <2> HIDE DEF first
  <2> DEFINE n == Min(first)
  <2>7. n \in first
    BY <2>5, MinIsLeast
  <2>8. l = a.lots[n]
    BY <1>5, <1>9
  <2> HIDE DEF n
  <2>9. n \in suits /\ \A j \in suits : opened(n) <= opened(j)
    BY <2>6, <2>7
  <2>10. l \in LotId /\ l \in ToSet(a.lots) /\ InUse(a, l) /\ ~(Buys(a, l) <=> amt > 0)
    BY <1>2, <1>3, <1>6, <2>8, <2>9
  <2>11. ASSUME NEW m \in LotId, InUse(a, m)
         PROVE  OpenedOn(a, l) <= OpenedOn(a, m)
    <3>1. Buys(a, l) <=> Buys(a, m)
      BY <2>10, <2>11 DEF LotsInOrder, InOrder
    <3>2. PICK j \in DOMAIN a.lots : m = a.lots[j]
      BY <1>7, <2>11
    <3>3. j \in suits
      BY <1>3, <2>10, <2>11, <3>1, <3>2
    <3>4. opened(n) <= opened(j)
      BY <2>9, <3>3
    <3> QED
      BY <1>4, <2>8, <2>9, <3>2, <3>3, <3>4
  <2> QED
    BY <2>10, <2>11 DEF IsFirst, l
<1> QED
  BY <1>8, <1>9

-----------------------------------------------------------------------------
(* Putting a split into a lot.                                             *)

IsPut(a, b, i, l) ==
  /\ AccInv(b)
  /\ b.list = a.list /\ b.full = a.full /\ b.unsorted = TRUE
  /\ l \in ToSet(a.lots) => b.lots = a.lots
  /\ b.s[i].lot = l
  /\ \A k \in SplitId : /\ b.s[k].trans = a.s[k].trans /\ b.s[k].amt = a.s[k].amt
                        /\ b.s[k].date = a.s[k].date
                        /\ k # i => b.s[k].lot = a.s[k].lot
  /\ b.lot[l].splits = Append(a.lot[l].splits, i) /\ b.lot[l].closed = "unknown"
  /\ \A k \in LotId : k # l => b.lot[k] = a.lot[k]

LEMMA PutIs ==
  ASSUME NEW a, AccInv(a), NEW i \in Used(a), a.s[i].lot = NoLot, NEW l \in LotId
  PROVE  IsPut(a, AddSplit(a, i, l), i, l)
<1> DEFINE lots == IF Contains(a.lots, l) THEN a.lots ELSE <<l>> \o a.lots
           new == [splits |-> Append(a.lot[l].splits, i), closed |-> "unknown"]
           b == [a EXCEPT !.s[i].lot = l, !.unsorted = TRUE, !.lots = lots, !.lot[l] = new]
<1>1. a \in AccType /\ i \in SplitId
  BY DEF AccInv, Used
<1>2. AddSplit(a, i, l) = Put(a, i, l)
  <2>1. a.s[i].lot # l
    BY Bounds
  <2> QED
    BY <2>1 DEF AddSplit, Put
<1>3. Put(a, i, l) = b
  BY <1>1 DEF Put, AccType
<1>4. new.splits = Append(a.lot[l].splits, i) /\ new.closed = "unknown"
  OBVIOUS
<1>5. l \in ToSet(a.lots) => lots = a.lots
  <2> DEFINE q == a.lots
  <2>1. q \in Seq(LotId)
    BY <1>1, AccFacts
  <2> HIDE DEF q
  <2>2. l \in ToSet(q) => Contains(q, l)
    BY <2>1, ListFacts DEF Contains
  <2> QED
    BY <2>2 DEF q
<1> HIDE DEF lots, new
<1>6. AccInv(b)
  BY <1>3, PutFacts DEF IsAdded
<1>7. \A k \in SplitId : b.s[k] = IF k = i THEN [a.s[k] EXCEPT !.lot = l] ELSE a.s[k]
  BY <1>1 DEF AccType
<1>8. \A k \in SplitId : a.s[k] \in SplitType
  BY <1>1, AccFacts
<1>9. /\ b.list = a.list /\ b.full = a.full /\ b.unsorted = TRUE /\ b.lots = lots
      /\ \A k \in LotId : b.lot[k] = IF k = l THEN new ELSE a.lot[k]
  BY <1>1 DEF AccType
<1> HIDE DEF b
<1>10. b.s[i].lot = l
  BY <1>1, <1>7, <1>8 DEF SplitType
<1>11. \A k \in SplitId : /\ b.s[k].trans = a.s[k].trans /\ b.s[k].amt = a.s[k].amt
                          /\ b.s[k].date = a.s[k].date
                          /\ k # i => b.s[k].lot = a.s[k].lot
  BY <1>7, <1>8 DEF SplitType
<1> QED
  BY <1>2, <1>3, <1>4, <1>5, <1>6, <1>9, <1>10, <1>11 DEF IsPut

\* The lot that the split is put into
LEMMA GrownLot ==
  ASSUME NEW a, AccInv(a), NEW i \in Used(a), a.s[i].lot = NoLot, NEW l \in LotId,
         NEW b, IsPut(a, b, i, l)
  PROVE  /\ Nonempty(b, l)
         /\ Balance(b, l) = Balance(a, l) + a.s[i].amt
         /\ ~Nonempty(a, l) => Opener(b, l) = i /\ UsersOf(b, l) = {} /\ Balance(b, l) = a.s[i].amt
         /\ Nonempty(a, l) => /\ Opener(b, l) = Opener(a, l)
                              /\ UsersOf(b, l) = UsersOf(a, l) \cup {i}
<1> DEFINE q == a.lot[l].splits
           new == Append(q, i)
           ids == ToSet(q)
<1>1. a \in AccType /\ b \in AccType /\ i \in SplitId /\ a.s[i].amt \in Int
  BY AccFacts DEF AccInv, IsPut, Used
<1>2. b.lot[l].splits = new
  BY DEF IsPut
<1>3. q \in Seq(SplitId) /\ ids \in SUBSET SplitId
  BY <1>1, AccFacts
<1>4. i \notin ids
  <2>1. ids = {k \in Used(a) : a.s[k].lot = l}
    BY DEF AccInv, Agrees
  <2> QED
    BY <2>1, Bounds
<1>5. Balance(b, l) = Total(b, ToSet(new)) /\ Balance(a, l) = Total(a, ids)
  BY <1>2 DEF Balance
<1>6. Opener(b, l) = new[1] /\ UsersOf(b, l) = ToSet(new) \ {new[1]}
  BY <1>2 DEF Opener, UsersOf
<1>7. Opener(a, l) = q[1] /\ UsersOf(a, l) = ids \ {q[1]} /\ (Nonempty(a, l) <=> q # <<>>)
  BY DEF Opener, UsersOf, Nonempty
<1>8. Nonempty(b, l) <=> new # <<>>
  BY <1>2 DEF Nonempty
<1> HIDE DEF q
<1>9. ToSet(new) = ids \cup {i}
  <2>1. HasOneMore(SplitId, q, i, Append(q, i))
    BY <1>1, <1>3, AddToList
  <2> QED
    BY <2>1 DEF HasOneMore
<1>10. new # <<>> /\ (q = <<>> => new[1] = i) /\ (q # <<>> => new[1] = q[1])
  <2>1. /\ Len(new) = Len(q) + 1 /\ new # <<>>
        /\ \A k \in 1..(Len(q) + 1) : new[k] = IF k <= Len(q) THEN q[k] ELSE i
    BY <1>1, <1>3, AppendProperties
  <2>2. Len(q) \in Nat /\ (q = <<>> <=> Len(q) = 0)
    BY <1>3
  <2> HIDE DEF new
  <2> QED
    BY <2>1, <2>2
<1>11. q = <<>> => ids = {}
  BY <1>3, EmptyList
<1>12. q # <<>> => q[1] \in ids
  BY <1>3, ListFacts
<1> HIDE DEF ids, new
<1>13. Total(b, ids \cup {i}) = b.s[i].amt + Total(b, ids)
  BY <1>1, <1>3, <1>4, TotalAdd
<1>14. b.s[i].amt = a.s[i].amt /\ Total(b, ids) = Total(a, ids) /\ Total(a, ids) \in Int
  <2>1. \A k \in ids : b.s[k].amt = a.s[k].amt
    BY <1>3 DEF IsPut
  <2> QED
    BY <1>1, <1>3, <2>1, TotalSame, TotalIsInt DEF IsPut
<1>15. Balance(b, l) = Balance(a, l) + a.s[i].amt /\ (ids = {} => Balance(b, l) = a.s[i].amt)
  <2>1. Balance(b, l) = b.s[i].amt + Total(a, ids)
    BY <1>5, <1>9, <1>13, <1>14
  <2>2. ids = {} => Total(a, ids) = 0
    BY TotalEmpty
  <2> QED
    BY <1>1, <1>5, <1>14, <2>1, <2>2
<1>16. CASE q = <<>>
  BY <1>6, <1>7, <1>8, <1>9, <1>10, <1>11, <1>15, <1>16
<1>17. CASE q # <<>>
  <2>1. new[1] = q[1] /\ q[1] # i
    BY <1>4, <1>10, <1>12, <1>17
  <2>2. (ids \cup {i}) \ {q[1]} = (ids \ {q[1]}) \cup {i}
    BY <2>1
  <2> QED
    BY <1>6, <1>7, <1>8, <1>9, <1>10, <1>15, <1>17, <2>1, <2>2
<1> QED
  BY <1>16, <1>17

\* The lot may take in the split: it is empty and there is nothing to use up,
\* or it is the first in use and not overdrawn then.
MayTake(a, i, l) ==
  \/ /\ ~Nonempty(a, l)
     /\ \A k \in LotId : InUse(a, k) => (Buys(a, k) <=> a.s[i].amt > 0)
  \/ /\ IsFirst(a, l)
     /\ ~(Buys(a, l) <=> a.s[i].amt > 0)
     /\ IF Buys(a, l) THEN Balance(a, l) + a.s[i].amt >= 0 ELSE Balance(a, l) + a.s[i].amt <= 0

LEMMA InLots ==
  ASSUME NEW a, AccInv(a), NEW R, LooseLast(a, R), NEW i \in R, NEW l \in LotId,
         NEW k \in ToSet(a.lot[l].splits)
  PROVE  /\ k \in Used(a) /\ k \in SplitId /\ a.s[k].lot = l /\ k \notin Loose(a) /\ k # i
         /\ a.s[k].date \in Nat /\ a.s[i].date \in Nat /\ a.s[k].date <= a.s[i].date
<1>1. k \in Used(a) /\ a.s[k].lot = l
  BY DEF AccInv, Agrees
<1>2. k \notin Loose(a) /\ i \in Loose(a)
  BY <1>1, Bounds DEF Loose, LooseLast
<1>3. k \in SplitId /\ i \in SplitId
  BY <1>1, <1>2 DEF Loose, Used
<1>4. a.s[k].date \in Nat /\ a.s[i].date \in Nat
  BY <1>3, AccFacts DEF AccInv
<1>5. a.s[k].date <= a.s[i].date
  BY <1>1, <1>2 DEF LooseLast
<1> QED
  BY <1>1, <1>2, <1>3, <1>4, <1>5

\* The lot that takes in the split is in order then.
LEMMA GrownInOrder ==
  ASSUME NEW a, AccInv(a), NEW R, Orderly(a, R), NEW i \in R, NEW l \in LotId,
         MayTake(a, i, l), NEW b, IsPut(a, b, i, l)
  PROVE  /\ LotInOrder(b, l)
         /\ Nonempty(a, l) => (Buys(b, l) <=> Buys(a, l)) /\ OpenedOn(b, l) = OpenedOn(a, l)
         /\ ~Nonempty(a, l) => (Buys(b, l) <=> a.s[i].amt > 0) /\ OpenedOn(b, l) = a.s[i].date
<1>1. a \in AccType /\ LooseLast(a, R) /\ LotInOrder(a, l) /\ NoneZero(a)
  BY DEF AccInv, Orderly, LotsInOrder
<1>2. i \in Used(a) /\ i \in SplitId /\ a.s[i].lot = NoLot
  BY <1>1 DEF LooseLast, Loose, Used
<1>3. /\ a.s[i].amt \in Int /\ a.s[i].amt # 0 /\ Balance(a, l) \in Int
  BY <1>1, <1>2, AccFacts, TotalIsInt DEF NoneZero, Balance
<1>4. /\ \A k \in SplitId : b.s[k].amt = a.s[k].amt /\ b.s[k].date = a.s[k].date
      /\ b.lot[l].splits = Append(a.lot[l].splits, i)
  BY DEF IsPut
<1>5. InTurn(b, b.lot[l].splits)
  <2> DEFINE q == a.lot[l].splits
             new == Append(q, i)
  <2>1. q \in Seq(SplitId) /\ Len(q) \in Nat
    BY <1>1, AccFacts
  <2>2. \A k \in 1..Len(q) : q[k] \in ToSet(q) /\ q[k] \in SplitId
    BY <2>1, ListFacts
  <2>3. \A k \in 1..Len(q) : a.s[q[k]].date <= a.s[i].date
    BY <1>1, <2>2, InLots
  <2>4. \A j, k \in 1..Len(q) : j <= k => a.s[q[j]].date <= a.s[q[k]].date
    BY <1>1 DEF LotInOrder, InTurn
  <2>5. a.s[i].date \in Nat
    BY <1>1, <1>2, AccFacts
  <2> HIDE DEF q
  <2>6. /\ Len(new) = Len(q) + 1 /\ new[Len(q) + 1] = i
        /\ \A k \in 1..Len(q) : new[k] = q[k]
    BY <1>2, <2>1, AppendProperties
  <2> HIDE DEF new
  <2>7. /\ b.s[new[Len(q) + 1]].date = a.s[i].date
        /\ \A k \in 1..Len(q) : b.s[new[k]].date = a.s[q[k]].date
    BY <1>2, <1>4, <2>2, <2>6
  <2>8. \A k \in 1..Len(new) : k \in 1..Len(q) \/ k = Len(q) + 1
    BY <2>1, <2>6
  <2>9. ASSUME NEW j \in 1..Len(new), NEW k \in 1..Len(new), j <= k
        PROVE  b.s[new[j]].date <= b.s[new[k]].date
    <3>1. CASE k \in 1..Len(q)
      <4>1. j \in 1..Len(q)
        BY <2>1, <2>8, <2>9, <3>1
      <4> QED
        BY <2>4, <2>7, <2>9, <3>1, <4>1
    <3>2. CASE k = Len(q) + 1
      BY <2>3, <2>5, <2>7, <2>8, <3>2
    <3> QED
      BY <2>8, <3>1, <3>2
  <2> QED
    BY <1>4, <2>9 DEF InTurn, new, q
<1>6. RightCache(b, l)
  BY DEF IsPut, RightCache
<1>7. CASE ~Nonempty(a, l)
  <2>1. Opener(b, l) = i /\ UsersOf(b, l) = {} /\ Balance(b, l) = a.s[i].amt
    BY <1>2, <1>7, GrownLot
  <2>2. (Buys(b, l) <=> a.s[i].amt > 0) /\ OpenedOn(b, l) = a.s[i].date
    BY <1>2, <1>4, <2>1 DEF Buys, OpenedOn
  <2>3. IF Buys(b, l) THEN Balance(b, l) >= 0 ELSE Balance(b, l) <= 0
    BY <1>3, <2>1, <2>2
  <2> QED
    BY <1>5, <1>6, <1>7, <2>1, <2>2, <2>3 DEF LotInOrder
<1>8. CASE Nonempty(a, l)
  <2>1. /\ Opener(b, l) = Opener(a, l) /\ UsersOf(b, l) = UsersOf(a, l) \cup {i}
        /\ Balance(b, l) = Balance(a, l) + a.s[i].amt
    BY <1>2, <1>8, GrownLot
  <2>2. Opener(a, l) \in SplitId /\ \A k \in UsersOf(a, l) : k \in SplitId
    BY <1>1, <1>8, OpenerFacts, AccFacts
  <2>3. (Buys(b, l) <=> Buys(a, l)) /\ OpenedOn(b, l) = OpenedOn(a, l)
    BY <1>4, <2>1, <2>2 DEF Buys, OpenedOn
  <2>4. /\ ~(Buys(a, l) <=> a.s[i].amt > 0)
        /\ IF Buys(a, l) THEN Balance(a, l) + a.s[i].amt >= 0
           ELSE Balance(a, l) + a.s[i].amt <= 0
    BY <1>8 DEF MayTake
  <2>5. \A k \in UsersOf(b, l) : b.s[k].amt < 0 <=> Buys(b, l)
    <3>1. \A k \in UsersOf(a, l) : b.s[k].amt < 0 <=> Buys(b, l)
      BY <1>1, <1>4, <1>8, <2>2, <2>3 DEF LotInOrder
    <3>2. b.s[i].amt < 0 <=> Buys(b, l)
      BY <1>2, <1>3, <1>4, <2>3, <2>4
    <3> QED
      BY <2>1, <3>1, <3>2
  <2>6. IF Buys(b, l) THEN Balance(b, l) >= 0 ELSE Balance(b, l) <= 0
    BY <2>1, <2>3, <2>4
  <2> QED
    BY <1>5, <1>6, <1>8, <2>3, <2>5, <2>6 DEF LotInOrder
<1> QED
  BY <1>7, <1>8

LEMMA OthersStay ==
  ASSUME NEW a, AccInv(a), NEW i \in SplitId, NEW l \in LotId, NEW b, IsPut(a, b, i, l),
         NEW k \in LotId, k # l
  PROVE  SameLot(a, b, k) /\ b.lot[k].closed = a.lot[k].closed
<1>1. \A j \in ToSet(a.lot[k].splits) : j \in SplitId
  BY AccFacts DEF AccInv
<1> QED
  BY <1>1 DEF IsPut, SameLot

\* So are all lots.
LEMMA PutInOrder ==
  ASSUME NEW a, AccInv(a), NEW R, Orderly(a, R), NEW i \in R, NEW l \in LotId,
         MayTake(a, i, l), NEW b, IsPut(a, b, i, l)
  PROVE  LotsInOrder(b)
<1>1. /\ a \in AccType /\ b \in AccType /\ LooseLast(a, R) /\ LotsInOrder(a) /\ NoneZero(a)
  BY DEF AccInv, Orderly, IsPut
<1>2. i \in Used(a) /\ i \in SplitId /\ a.s[i].lot = NoLot
  BY <1>1 DEF LooseLast, Loose, Used
<1>3. \A k \in SplitId : b.s[k].date = a.s[k].date
  BY DEF IsPut
<1>4. \A k \in LotId : k # l =>
        /\ SameLot(a, b, k) /\ b.lot[k].closed = a.lot[k].closed
        /\ Nonempty(b, k) <=> Nonempty(a, k)
        /\ UsersOf(b, k) = UsersOf(a, k)
        /\ UsedUp(b, k) <=> UsedUp(a, k)
        /\ InUse(b, k) <=> InUse(a, k)
        /\ Nonempty(a, k) => (Buys(b, k) <=> Buys(a, k)) /\ OpenedOn(b, k) = OpenedOn(a, k)
  BY <1>1, <1>2, OthersStay, SameLotFacts
<1>5. \A k \in LotId : Nonempty(a, k) => OpenedOn(a, k) \in Nat /\ OpenedOn(a, k) <= a.s[i].date
  <2> SUFFICES ASSUME NEW k \in LotId, Nonempty(a, k)
               PROVE  OpenedOn(a, k) \in Nat /\ OpenedOn(a, k) <= a.s[i].date
    OBVIOUS
  <2>1. Opener(a, k) \in ToSet(a.lot[k].splits)
    BY <1>1, OpenerFacts
  <2> QED
    BY <1>1, <2>1, InLots DEF OpenedOn
<1>6. \A k \in LotId, j \in SplitId :
        j \in UsersOf(a, k) => a.s[j].date \in Nat /\ a.s[j].date <= a.s[i].date
  <2> SUFFICES ASSUME NEW k \in LotId, NEW j \in UsersOf(a, k)
               PROVE  a.s[j].date \in Nat /\ a.s[j].date <= a.s[i].date
    OBVIOUS
  <2>1. j \in ToSet(a.lot[k].splits)
    BY DEF UsersOf
  <2> QED
    BY <1>1, <2>1, InLots
<1>7. a.s[i].date \in Nat /\ \A k \in LotId : UsersOf(a, k) \subseteq SplitId
  BY <1>1, <1>2, AccFacts DEF UsersOf
<1>8. /\ LotInOrder(b, l) /\ Nonempty(b, l)
      /\ Nonempty(a, l) => /\ Buys(b, l) <=> Buys(a, l)
                           /\ OpenedOn(b, l) = OpenedOn(a, l)
                           /\ UsersOf(b, l) = UsersOf(a, l) \cup {i}
      /\ ~Nonempty(a, l) => /\ Buys(b, l) <=> a.s[i].amt > 0
                            /\ OpenedOn(b, l) = a.s[i].date
                            /\ UsersOf(b, l) = {}
  BY <1>2, GrownInOrder, GrownLot
<1>9. \A k \in LotId : InUse(a, k) => Nonempty(a, k)
  BY DEF InUse
<1>10. ASSUME NEW k \in LotId
       PROVE  LotInOrder(b, k)
  <2>1. CASE k = l
    BY <1>8, <2>1
  <2>2. CASE k # l
    <3>1. RightCache(b, k)
      BY <1>1, <1>4, <2>2 DEF LotsInOrder, LotInOrder, RightCache
    <3> QED
      BY <1>1, <1>4, <2>2, <3>1, LotStays DEF LotsInOrder
  <2> QED
    BY <2>1, <2>2
<1>11. ASSUME NEW k \in LotId, k # l
       PROVE  InOrder(b, l, k) /\ InOrder(b, k, l)
  <2>1. InOrder(a, l, k) /\ InOrder(a, k, l)
    BY <1>1 DEF LotsInOrder
  <2>2. CASE ~Nonempty(a, l)
    <3>1. InUse(a, k) => (Buys(a, k) <=> a.s[i].amt > 0)
      BY <1>9, <2>2 DEF MayTake, IsFirst
    <3>2. Nonempty(a, k) => ~(a.s[i].date < OpenedOn(a, k))
      BY <1>5, <1>7
    <3> QED
      BY <1>4, <1>8, <1>9, <1>11, <2>2, <3>1, <3>2 DEF InOrder
  <2>3. CASE Nonempty(a, l)
    <3>1. /\ InUse(a, l) /\ ~UsedUp(a, l)
          /\ InUse(a, k) => OpenedOn(a, l) <= OpenedOn(a, k)
      BY <2>3 DEF MayTake, IsFirst, InUse
    <3>2. InOrder(b, l, k)
      <4>1. InUse(b, k) => (Buys(b, l) <=> Buys(b, k))
        BY <1>4, <1>8, <1>9, <1>11, <2>1, <2>3, <3>1 DEF InOrder
      <4>2. ASSUME Nonempty(b, k), Buys(b, l) <=> Buys(b, k), OpenedOn(b, l) < OpenedOn(b, k)
            PROVE  UsersOf(b, k) = {}
        BY <1>4, <1>8, <1>11, <2>1, <2>3, <3>1, <4>2 DEF InOrder
      <4> QED
        BY <4>1, <4>2 DEF InOrder
    <3>3. InOrder(b, k, l)
      <4>1. InUse(b, k) => (Buys(b, k) <=> Buys(b, l))
        BY <1>4, <1>8, <1>9, <1>11, <2>1, <2>3, <3>1 DEF InOrder
      <4>2. ASSUME Nonempty(b, k), Buys(b, k) <=> Buys(b, l), OpenedOn(b, k) < OpenedOn(b, l)
            PROVE  /\ UsedUp(b, k)
                   /\ \A j \in UsersOf(b, k), m \in UsersOf(b, l) : b.s[j].date <= b.s[m].date
        <5>1. Nonempty(a, k) /\ (Buys(a, k) <=> Buys(a, l)) /\ OpenedOn(a, k) < OpenedOn(a, l)
          BY <1>4, <1>8, <1>11, <2>3, <4>2
        <5>2. UsedUp(b, k)
          <6>1. OpenedOn(a, k) \in Nat /\ OpenedOn(a, l) \in Nat
            BY <1>5, <2>3, <5>1
          <6>2. ~InUse(a, k)
            BY <3>1, <5>1, <6>1
          <6> QED
            BY <1>4, <1>11, <5>1, <6>2 DEF InUse
        <5>3. ASSUME NEW j \in UsersOf(b, k), NEW m \in UsersOf(b, l)
              PROVE  b.s[j].date <= b.s[m].date
          <6>1. j \in UsersOf(a, k) /\ j \in SplitId
            BY <1>4, <1>7, <1>11
          <6>2. m \in UsersOf(a, l) \/ m = i
            BY <1>8, <2>3
          <6>3. CASE m \in UsersOf(a, l)
            BY <1>3, <1>7, <2>1, <2>3, <5>1, <6>1, <6>3 DEF InOrder
          <6>4. CASE m = i
            BY <1>2, <1>3, <1>6, <6>1, <6>4
          <6> QED
            BY <6>2, <6>3, <6>4
        <5> QED
          BY <5>2, <5>3
      <4> QED
        BY <4>1, <4>2 DEF InOrder
    <3> QED
      BY <3>2, <3>3
  <2> QED
    BY <2>2, <2>3
<1>12. InOrder(b, l, l)
  <2>1. OpenedOn(b, l) \in Nat
    BY <1>1, <1>8, OpenerFacts
  <2> QED
    BY <2>1 DEF InOrder
<1>13. ASSUME NEW k \in LotId, NEW m \in LotId
       PROVE  InOrder(b, k, m)
  <2>1. CASE k # l /\ m # l
    BY <1>1, <1>4, <2>1, InOrderStays DEF LotsInOrder
  <2>2. CASE k = l \/ m = l
    BY <1>11, <1>12, <2>2
  <2> QED
    BY <2>1, <2>2
<1> QED
  BY <1>10, <1>13 DEF LotsInOrder

LEMMA PutOrderly ==
  ASSUME NEW a, AccInv(a), NEW R, Orderly(a, R), NEW i \in R, NEW l \in LotId,
         MayTake(a, i, l), NEW b, IsPut(a, b, i, l), R = {i} \/ UsedUp(b, l)
  PROVE  /\ Orderly(b, R \ {i}) /\ Used(b) = Used(a) /\ Loose(b) = Loose(a) \ {i}
         /\ \A k \in LotId : k # l => (InUse(b, k) <=> InUse(a, k))
<1>1. /\ a \in AccType /\ b \in AccType /\ LooseLast(a, R) /\ NoneZero(a)
      /\ PartsApart(a, R) /\ LooseInTurn(a, R)
  BY DEF AccInv, Orderly, IsPut
<1>2. i \in Used(a) /\ i \in SplitId /\ a.s[i].lot = NoLot /\ i \in Loose(a) /\ l # NoLot
  BY <1>1, Bounds DEF LooseLast, Loose, Used
<1>3. /\ b.s[i].lot = l /\ b.list = a.list
      /\ \A k \in SplitId : /\ b.s[k].trans = a.s[k].trans /\ b.s[k].amt = a.s[k].amt
                            /\ b.s[k].date = a.s[k].date
                            /\ k # i => b.s[k].lot = a.s[k].lot
  BY DEF IsPut
<1>4. Used(b) = Used(a) /\ Used(a) \subseteq SplitId
  BY <1>3 DEF Used
<1>5. Loose(b) = Loose(a) \ {i} /\ Loose(a) \subseteq Used(a)
  BY <1>2, <1>3, <1>4 DEF Loose
<1>6. ~UsedUp(a, l)
  BY DEF MayTake, IsFirst, InUse, Nonempty, UsedUp
<1>7. \A k \in LotId : k # l => /\ UsedUp(b, k) <=> UsedUp(a, k)
                                /\ InUse(b, k) <=> InUse(a, k)
  BY <1>1, <1>2, OthersStay, SameLotFacts
<1>8. LotsInOrder(b)
  BY PutInOrder
<1>9. NoneZero(b)
  BY <1>1, <1>3, <1>4 DEF NoneZero
<1>10. LooseLast(b, R \ {i})
  <2>1. R \ {i} \subseteq Loose(b)
    BY <1>1, <1>5 DEF LooseLast
  <2>2. ASSUME NEW p \in Used(b), NEW q \in Loose(b), p \notin Loose(b) \/ p \in R \ {i}
        PROVE  b.s[p].date <= b.s[q].date
    <3>1. p \in Used(a) /\ q \in Loose(a) /\ (p \notin Loose(a) \/ p \in R)
      BY <1>4, <1>5, <2>2
    <3>2. a.s[p].date <= a.s[q].date
      BY <1>1, <3>1 DEF LooseLast
    <3>3. b.s[p].date = a.s[p].date /\ b.s[q].date = a.s[q].date
      BY <1>3, <1>4, <1>5, <3>1
    <3> QED
      BY <3>2, <3>3
  <2> QED
    BY <2>1, <2>2 DEF LooseLast
<1>11. PartsApart(b, R \ {i})
  <2> SUFFICES ASSUME NEW p \in Used(a), NEW q \in Used(a), p # q, a.s[p].trans = a.s[q].trans
               PROVE  /\ b.s[p].lot # NoLot => b.s[p].lot # b.s[q].lot
                      /\ b.s[q].lot = NoLot =>
                           q \in R \ {i} /\ (b.s[p].lot # NoLot => UsedUp(b, b.s[p].lot))
    BY <1>3, <1>4 DEF PartsApart
  <2>1. /\ a.s[p].lot # NoLot => a.s[p].lot # a.s[q].lot
        /\ a.s[q].lot = NoLot => q \in R /\ (a.s[p].lot # NoLot => UsedUp(a, a.s[p].lot))
        /\ a.s[q].lot # NoLot => a.s[q].lot # a.s[p].lot
        /\ a.s[p].lot = NoLot => p \in R /\ (a.s[q].lot # NoLot => UsedUp(a, a.s[q].lot))
    BY <1>1 DEF PartsApart
  <2>2. /\ p # i => b.s[p].lot = a.s[p].lot
        /\ q # i => b.s[q].lot = a.s[q].lot
        /\ a.s[p].lot \in {NoLot} \cup LotId
    <3>1. a.s[p].lot \in 0..MaxLots
      BY <1>1, <1>4, AccFacts
    <3> QED
      BY <1>3, <1>4, <3>1, Bounds DEF LotId
  <2>3. b.s[p].lot # NoLot => b.s[p].lot # b.s[q].lot
    BY <1>2, <1>3, <1>6, <2>1, <2>2
  <2>4. ASSUME b.s[q].lot = NoLot
        PROVE  q \in R \ {i} /\ (b.s[p].lot # NoLot => UsedUp(b, b.s[p].lot))
    <3>1. q # i /\ q \in R
      BY <1>2, <1>3, <2>1, <2>2, <2>4
    <3>2. UsedUp(b, l)
      BY <3>1
    <3>3. b.s[p].lot # NoLot /\ p # i => UsedUp(a, a.s[p].lot) /\ a.s[p].lot \in LotId
      BY <2>1, <2>2, <2>4, <3>1
    <3> QED
      BY <1>3, <1>6, <1>7, <2>2, <3>1, <3>2, <3>3
  <2> QED
    BY <2>3, <2>4
<1>12. LooseInTurn(b, R \ {i})
  <2>1. Loose(b) \ (R \ {i}) = Loose(a) \ R
    BY <1>5
  <2>2. \A k \in Loose(a) : b.s[k].date = a.s[k].date
    BY <1>3, <1>4, <1>5
  <2> QED
    BY <1>1, <1>3, <2>1, <2>2 DEF LooseInTurn
<1> QED
  BY <1>4, <1>5, <1>7, <1>8, <1>9, <1>10, <1>11, <1>12 DEF Orderly

IsCut(a, b, i, j, part) ==
  /\ AccInv(b)
  /\ b.lots = a.lots /\ b.lot = a.lot /\ b.full = a.full /\ b.list = <<j>> \o a.list
  /\ Used(b) = Used(a) \cup {j}
  /\ b.s[j].trans = a.s[i].trans /\ b.s[j].date = a.s[i].date
  /\ b.s[j].amt = a.s[i].amt - part /\ b.s[j].lot = NoLot
  /\ b.s[i].amt = part
  /\ \A k \in SplitId \ {j} : /\ b.s[k].trans = a.s[k].trans /\ b.s[k].date = a.s[k].date
                              /\ b.s[k].lot = a.s[k].lot
                              /\ k # i => b.s[k].amt = a.s[k].amt

LEMMA CutIs ==
  ASSUME NEW a, AccInv(a), NEW i \in Used(a), a.s[i].lot = NoLot, NEW part \in Int,
         NEW j \in SplitId, j \notin Used(a)
  PROVE  IsCut(a, Cut(a, i, j, part), i, j, part)
<1> DEFINE b == Cut(a, i, j, part)
           t == a.s[i].trans
           sj == [trans |-> t, date |-> a.s[i].date, amt |-> a.s[i].amt - part,
                  lot |-> NoLot, peers |-> {i}]
           si == [a.s[i] EXCEPT !.amt = part, !.peers = a.s[i].peers \cup {j}]
           list == <<j>> \o a.list
<1>1. a \in AccType /\ i \in SplitId /\ i # j /\ t # 0 /\ a.s[i] \in SplitType
  BY AccFacts DEF AccInv, Used
<1>2. AccInv(b)
  BY CutScrubs DEF Scrubs
<1>3. /\ si.trans = t /\ si.amt = part /\ si.lot = a.s[i].lot /\ si.date = a.s[i].date
      /\ sj.trans = t /\ sj.amt = a.s[i].amt - part /\ sj.lot = NoLot /\ sj.date = a.s[i].date
  BY <1>1 DEF SplitType
<1>4. b = [a EXCEPT !.s = [a.s EXCEPT ![i] = si, ![j] = sj], !.list = list]
  <2>1. a.s \in [SplitId -> SplitType]
    BY <1>1 DEF AccType
  <2> QED
    BY <1>1, <2>1 DEF Cut, AccType, SplitType
<1> HIDE DEF b, t, si, sj, list
<1>5. /\ b.list = list /\ b.lots = a.lots /\ b.lot = a.lot /\ b.full = a.full
      /\ \A k \in SplitId : b.s[k] = IF k = j THEN sj ELSE IF k = i THEN si ELSE a.s[k]
  BY <1>1, <1>4 DEF AccType
<1>6. Used(b) = Used(a) \cup {j}
  BY <1>1, <1>3, <1>5 DEF Used, t
<1>7. b.s[j] = sj /\ b.s[i] = si
  BY <1>1, <1>5
<1>8. \A k \in SplitId \ {j} : /\ b.s[k].trans = a.s[k].trans /\ b.s[k].date = a.s[k].date
                               /\ b.s[k].lot = a.s[k].lot
                               /\ k # i => b.s[k].amt = a.s[k].amt
  BY <1>3, <1>5, <1>7 DEF t
<1> QED
  BY <1>2, <1>3, <1>5, <1>6, <1>7, <1>8 DEF IsCut, b, list, t

LEMMA CutSameLots ==
  ASSUME NEW a, AccInv(a), NEW i \in Used(a), a.s[i].lot = NoLot, NEW part,
         NEW j \in SplitId, j \notin Used(a), NEW b, IsCut(a, b, i, j, part), NEW l \in LotId
  PROVE  SameLot(a, b, l)
<1>1. ToSet(a.lot[l].splits) = {k \in Used(a) : a.s[k].lot = l} /\ l # NoLot
  BY Bounds DEF AccInv, Agrees
<1>2. \A k \in ToSet(a.lot[l].splits) : k \in SplitId \ {j} /\ k # i
  BY <1>1 DEF Used
<1> QED
  BY <1>2 DEF IsCut, SameLot

LEMMA CutOrderly ==
  ASSUME NEW a, AccInv(a), NEW i, Orderly(a, {i}), NEW part \in Int, part # 0,
         part # a.s[i].amt, NEW j \in SplitId, j \notin Used(a),
         NEW b, IsCut(a, b, i, j, part)
  PROVE  Orderly(b, {i, j}) /\ Loose(b) = Loose(a) \cup {j}
<1>1. /\ a \in AccType /\ b \in AccType /\ LooseLast(a, {i}) /\ NoneZero(a)
      /\ PartsApart(a, {i}) /\ LooseInTurn(a, {i}) /\ LotsInOrder(a)
  BY DEF AccInv, Orderly, IsCut
<1>2. /\ i \in Used(a) /\ i \in SplitId /\ a.s[i].lot = NoLot /\ i \in Loose(a) /\ i # j
      /\ a.s[i].amt \in Int
  BY <1>1, AccFacts DEF LooseLast, Loose, Used
<1>3. /\ b.lot = a.lot /\ b.list = <<j>> \o a.list /\ Used(b) = Used(a) \cup {j}
      /\ b.s[j].trans = a.s[i].trans /\ b.s[j].date = a.s[i].date
      /\ b.s[j].amt = a.s[i].amt - part /\ b.s[j].lot = NoLot /\ b.s[i].amt = part
      /\ \A k \in SplitId \ {j} : /\ b.s[k].trans = a.s[k].trans /\ b.s[k].date = a.s[k].date
                                  /\ b.s[k].lot = a.s[k].lot
                                  /\ k # i => b.s[k].amt = a.s[k].amt
  BY DEF IsCut
<1>4. Used(a) \subseteq SplitId \ {j} /\ Loose(a) \subseteq Used(a)
  BY DEF Used, Loose
<1>5. Loose(b) = Loose(a) \cup {j}
  BY <1>3, <1>4 DEF Loose
<1>6. \A l \in LotId : SameLot(a, b, l) /\ (UsedUp(b, l) <=> UsedUp(a, l))
  BY <1>1, <1>2, CutSameLots, SameLotFacts
<1>7. LotsInOrder(b)
  <2>1. \A l \in LotId : RightCache(b, l)
    BY <1>1, <1>3, <1>6 DEF LotsInOrder, LotInOrder, RightCache
  <2> QED
    BY <1>1, <1>6, <2>1, LotsStay
<1>8. NoneZero(b)
  <2>1. b.s[i].amt # 0 /\ b.s[j].amt # 0
    BY <1>2, <1>3
  <2> QED
    BY <1>1, <1>3, <1>4, <2>1 DEF NoneZero
<1>9. LooseLast(b, {i, j})
  <2>1. {i, j} \subseteq Loose(b)
    BY <1>2, <1>5
  <2>2. ASSUME NEW p \in Used(b), NEW q \in Loose(b), p \notin Loose(b) \/ p \in {i, j}
        PROVE  b.s[p].date <= b.s[q].date
    <3> DEFINE x == IF p = j THEN i ELSE p
               y == IF q = j THEN i ELSE q
    <3>1. x \in Used(a) /\ (x \notin Loose(a) \/ x \in {i}) /\ b.s[p].date = a.s[x].date
      BY <1>2, <1>3, <1>4, <1>5, <2>2
    <3>2. y \in Loose(a) /\ b.s[q].date = a.s[y].date
      BY <1>2, <1>3, <1>4, <1>5, <2>2
    <3>3. a.s[x].date <= a.s[y].date
      BY <1>1, <3>1, <3>2 DEF LooseLast
    <3> QED
      BY <3>1, <3>2, <3>3
  <2> QED
    BY <2>1, <2>2 DEF LooseLast
<1>10. PartsApart(b, {i, j})
  <2> SUFFICES ASSUME NEW p \in Used(b), NEW q \in Used(b), p # q, b.s[p].trans = b.s[q].trans
               PROVE  /\ b.s[p].lot # NoLot => b.s[p].lot # b.s[q].lot
                      /\ b.s[q].lot = NoLot =>
                           q \in {i, j} /\ (b.s[p].lot # NoLot => UsedUp(b, b.s[p].lot))
    BY DEF PartsApart
  <2>1. \A k \in Used(a) : a.s[k].lot # NoLot => a.s[k].lot \in LotId
    <3>1. \A k \in Used(a) : a.s[k].lot \in 0..MaxLots
      BY <1>1, <1>4, AccFacts
    <3> QED
      BY <3>1, Bounds DEF LotId
  <2>2. CASE p = j
    <3>1. q \in Used(a) /\ a.s[q].trans = a.s[i].trans /\ b.s[q].lot = a.s[q].lot
      BY <1>3, <1>4, <2>2
    <3>2. q # i => a.s[q].lot # NoLot
      BY <1>1, <1>2, <3>1 DEF PartsApart
    <3> QED
      BY <1>3, <2>2, <3>1, <3>2
  <2>3. CASE q = j
    <3>1. p \in Used(a) /\ a.s[p].trans = a.s[i].trans /\ b.s[p].lot = a.s[p].lot
      BY <1>3, <1>4, <2>3
    <3>2. a.s[p].lot # NoLot => p # i
      BY <1>2
    <3>3. a.s[p].lot # NoLot => UsedUp(a, a.s[p].lot)
      BY <1>1, <1>2, <3>1, <3>2 DEF PartsApart
    <3> QED
      BY <1>3, <1>6, <2>1, <2>3, <3>1, <3>3
  <2>4. CASE p # j /\ q # j
    <3>1. /\ p \in Used(a) /\ q \in Used(a) /\ a.s[p].trans = a.s[q].trans
          /\ b.s[p].lot = a.s[p].lot /\ b.s[q].lot = a.s[q].lot
      BY <1>3, <1>4, <2>4
    <3>2. /\ a.s[p].lot # NoLot => a.s[p].lot # a.s[q].lot
          /\ a.s[q].lot = NoLot => q \in {i} /\ (a.s[p].lot # NoLot => UsedUp(a, a.s[p].lot))
      BY <1>1, <3>1 DEF PartsApart
    <3> QED
      BY <1>6, <2>1, <3>1, <3>2
  <2> QED
    BY <2>2, <2>3, <2>4
<1>11. LooseInTurn(b, {i, j})
  <2> DEFINE q == a.list
             new == b.list
             S == Loose(a) \ {i}
  <2>1. q \in Seq(SplitId) /\ Len(q) \in Nat /\ new = <<j>> \o q
    BY <1>1, <1>3, AccFacts
  <2>2. Loose(b) \ {i, j} = S /\ j \notin S
    BY <1>4, <1>5
  <2>3. \A x, y \in 1..Len(q) :
          x <= y /\ q[x] \in S /\ q[y] \in S => a.s[q[x]].date <= a.s[q[y]].date
    BY <1>1 DEF LooseInTurn
  <2>4. \A k \in S : b.s[k].date = a.s[k].date
    BY <1>3, <1>4
  <2> HIDE DEF q, S, new
  <2>5. /\ Len(new) = Len(q) + 1 /\ new[1] = j
        /\ \A k \in 1..Len(new) : k # 1 => k - 1 \in 1..Len(q) /\ new[k] = q[k - 1]
    BY <2>1
  <2>6. ASSUME NEW x \in 1..Len(new), NEW y \in 1..Len(new), x <= y, new[x] \in S, new[y] \in S
        PROVE  b.s[new[x]].date <= b.s[new[y]].date
    <3>1. x # 1 /\ y # 1
      BY <2>2, <2>5, <2>6
    <3>2. x - 1 \in 1..Len(q) /\ y - 1 \in 1..Len(q) /\ x - 1 <= y - 1
      BY <2>1, <2>5, <2>6, <3>1
    <3>3. new[x] = q[x - 1] /\ new[y] = q[y - 1]
      BY <2>5, <3>1
    <3> QED
      BY <2>3, <2>4, <2>6, <3>2, <3>3
  <2> QED
    BY <2>2, <2>6 DEF LooseInTurn, new, q
<1> QED
  BY <1>5, <1>7, <1>8, <1>9, <1>10, <1>11 DEF Orderly

\* A split is put into a lot that may take it in, or cut and its first part put
\* there: either nothing is left, or one more lot is used up.
UsesUp(a, b) ==
  /\ \A k \in LotId : InUse(b, k) => InUse(a, k)
  /\ \E k \in LotId : InUse(a, k) /\ ~InUse(b, k)

Advances(a, i, r) ==
  \/ r.acc.full
  \/ /\ r.rest = NoSplit /\ r.acc.unsorted
     /\ Orderly(r.acc, {}) /\ Loose(r.acc) = Loose(a) \ {i}
  \/ /\ r.rest \in SplitId
     /\ Orderly(r.acc, {r.rest}) /\ Loose(r.acc) \ {r.rest} = Loose(a) \ {i}
     /\ r.acc.lots = a.lots /\ UsesUp(a, r.acc)

LEMMA PutAdvances ==
  ASSUME NEW a, AccInv(a), NEW i, Orderly(a, {i}), NEW l \in LotId, MayTake(a, i, l)
  PROVE  Advances(a, i, [acc |-> AddSplit(a, i, l), rest |-> NoSplit])
<1> DEFINE b == AddSplit(a, i, l)
<1>1. i \in Used(a) /\ a.s[i].lot = NoLot
  BY DEF Orderly, LooseLast, Loose
<1>2. IsPut(a, b, i, l)
  BY <1>1, PutIs
<1> HIDE DEF b
<1>3. b.unsorted = TRUE
  BY <1>2 DEF IsPut
<1>4. Orderly(b, {i} \ {i}) /\ Loose(b) = Loose(a) \ {i}
  BY <1>2, PutOrderly
<1>5. {i} \ {i} = {}
  OBVIOUS
<1> QED
  BY <1>3, <1>4, <1>5 DEF Advances, b

LEMMA CutAdvances ==
  ASSUME NEW a, AccInv(a), NEW i, Orderly(a, {i}), NEW l \in LotId, IsFirst(a, l),
         ~(Buys(a, l) <=> a.s[i].amt > 0),
         Abs(a.s[i].amt) > Abs(Balance(a, l))
  PROVE  Advances(a, i, CutSplit(a, i, l))
<1> DEFINE free == SplitId \ Used(a)
           j == Min(free)
           part == -Balance(a, l)
           b == Cut(a, i, j, part)
           c == AddSplit(b, i, l)
<1>1. a \in AccType /\ LooseLast(a, {i}) /\ NoneZero(a) /\ LotsInOrder(a)
  BY DEF AccInv, Orderly
<1>2. i \in Used(a) /\ a.s[i].lot = NoLot /\ i \in SplitId /\ i \in Loose(a)
  BY <1>1 DEF LooseLast, Loose, Used
<1>3. InUse(a, l) /\ a.s[i].amt \in Int /\ a.s[i].amt # 0
  BY <1>1, <1>2, AccFacts DEF IsFirst, NoneZero
<1>4. /\ Balance(a, l) \in Int
      /\ IF Buys(a, l) THEN Balance(a, l) > 0 ELSE Balance(a, l) < 0
  BY <1>1, <1>3, InUseFacts
<1>5. part \in Int /\ part # 0 /\ part # a.s[i].amt
  BY <1>3, <1>4 DEF Abs, Sign
<1>6. ~(Buys(a, l) <=> part > 0)
  BY <1>4
<1>7. CASE free = {}
  <2> DEFINE d == [a EXCEPT !.full = TRUE]
  <2>1. CutSplit(a, i, l) = [acc |-> d, rest |-> NoSplit]
    BY <1>7 DEF CutSplit
  <2>2. d.full = TRUE
    BY <1>1 DEF AccType
  <2> HIDE DEF d
  <2> QED
    BY <2>1, <2>2 DEF Advances
<1>8. CASE free # {}
  <2>1. j \in SplitId /\ j \notin Used(a)
    <3>1. free \in SUBSET Nat
      BY Bounds DEF SplitId
    <3> HIDE DEF free
    <3>2. j \in free
      BY <1>8, <3>1, MinIsLeast
    <3> QED
      BY <3>2 DEF free
  <2>2. CutSplit(a, i, l) = [acc |-> c, rest |-> j]
    BY <1>8 DEF CutSplit, Cut
  <2>3. part = -Balance(a, l)
    OBVIOUS
  <2> HIDE DEF free, j, part
  <2>4. IsCut(a, b, i, j, part)
    BY <1>2, <1>5, <2>1, CutIs
  <2> HIDE DEF b
  <2>5. Orderly(b, {i, j}) /\ Loose(b) = Loose(a) \cup {j} /\ AccInv(b) /\ b \in AccType
    <3>1. AccInv(b) /\ b \in AccType
      BY <2>4 DEF IsCut, AccInv
    <3>2. Orderly(b, {i, j}) /\ Loose(b) = Loose(a) \cup {j}
      BY <1>5, <2>1, <2>4, CutOrderly
    <3> QED
      BY <3>1, <3>2
  <2>6. \A k \in LotId : SameLot(a, b, k)
    BY <1>2, <2>1, <2>4, CutSameLots
  <2>7. \A k \in LotId :
          /\ InUse(b, k) <=> InUse(a, k)
          /\ Balance(b, k) = Balance(a, k)
          /\ InUse(a, k) => (Buys(b, k) <=> Buys(a, k)) /\ OpenedOn(b, k) = OpenedOn(a, k)
    BY <1>1, <2>5, <2>6, SameLotFacts DEF InUse
  <2>8. /\ i \in Used(b) /\ b.s[i].lot = NoLot /\ b.s[i].amt = part /\ b.lots = a.lots
        /\ i # j
    BY <1>2, <2>1, <2>4 DEF IsCut
  <2>9. MayTake(b, i, l)
    <3>1. IsFirst(b, l)
      BY <2>7 DEF IsFirst
    <3>2. ~(Buys(b, l) <=> part > 0)
      BY <1>3, <1>6, <2>7
    <3>3. Balance(b, l) + b.s[i].amt = 0
      BY <1>4, <2>3, <2>7, <2>8
    <3> QED
      BY <2>8, <3>1, <3>2, <3>3 DEF MayTake
  <2>10. IsPut(b, c, i, l)
    BY <2>5, <2>8, PutIs
  <2> HIDE DEF c
  <2>11. Nonempty(c, l) /\ Balance(c, l) = 0
    <3>1. Nonempty(c, l) /\ Balance(c, l) = Balance(b, l) + b.s[i].amt
      BY <2>5, <2>8, <2>10, GrownLot
    <3> QED
      BY <1>4, <2>3, <2>7, <2>8, <3>1
  <2>12. UsedUp(c, l) /\ ~InUse(c, l)
    BY <2>11 DEF UsedUp, Nonempty, InUse
  <2>13. /\ Orderly(c, {i, j} \ {i}) /\ Loose(c) = Loose(b) \ {i}
         /\ \A k \in LotId : k # l => (InUse(c, k) <=> InUse(b, k))
    <3> DEFINE R == {i, j}
    <3>1. i \in R /\ Orderly(b, R)
      BY <2>5
    <3> HIDE DEF R
    <3>2. /\ Orderly(c, R \ {i}) /\ Loose(c) = Loose(b) \ {i}
          /\ \A k \in LotId : k # l => (InUse(c, k) <=> InUse(b, k))
      BY <2>5, <2>9, <2>10, <2>12, <3>1, PutOrderly
    <3> QED
      BY <3>2 DEF R
  <2>14. {i, j} \ {i} = {j}
    BY <2>8
  <2>15. Loose(c) \ {j} = Loose(a) \ {i}
    <3>1. j \notin Loose(a)
      BY <2>1 DEF Loose
    <3> QED
      BY <2>5, <2>13, <3>1
  <2>16. c.lots = a.lots
    <3>1. l \in ToSet(a.lots)
      BY <1>1, <1>3, OpenerSign DEF InUse
    <3> QED
      BY <2>8, <2>10, <3>1 DEF IsPut
  <2>17. UsesUp(a, c)
    BY <1>3, <2>7, <2>12, <2>13 DEF UsesUp
  <2> QED
    BY <2>1, <2>2, <2>13, <2>14, <2>15, <2>16, <2>17 DEF Advances
<1> QED
  BY <1>7, <1>8

LEMMA AssignToLotAdvances ==
  ASSUME NEW a, AccInv(a), NEW i, Orderly(a, {i}), NEW l \in LotId,
         \/ /\ ~Nonempty(a, l)
            /\ \A k \in LotId : InUse(a, k) => (Buys(a, k) <=> a.s[i].amt > 0)
         \/ IsFirst(a, l) /\ ~(Buys(a, l) <=> a.s[i].amt > 0)
  PROVE  Advances(a, i, AssignToLot(a, i, l))
<1> DEFINE b == Known(a, l)
           bal == Balance(b, l)
           amt == b.s[i].amt
           r == AssignToLot(a, i, l)
<1>1. /\ a \in AccType /\ LooseLast(a, {i}) /\ i \in Used(a) /\ a.s[i].lot = NoLot
      /\ i \in SplitId
  BY DEF AccInv, Orderly, LooseLast, Loose, Used
<1>2. Glances(a, b)
  BY <1>1, KnownGlances
<1>3. AccInv(b)
  BY <1>1, KnownLooks, LooksScrubs DEF Scrubs
<1> HIDE DEF b
<1>4. b \in AccType /\ b.s = a.s /\ b.lots = a.lots /\ b.full = a.full
      /\ \A k \in LotId : b.lot[k].splits = a.lot[k].splits
  BY <1>2 DEF Glances, Peeks
<1>5. /\ Orderly(b, {i}) /\ Loose(b) = Loose(a)
      /\ \A k \in LotId : /\ Opener(b, k) = Opener(a, k)
                          /\ InUse(b, k) <=> InUse(a, k)
                          /\ Buys(b, k) <=> Buys(a, k)
  BY <1>1, <1>2, PeeksFacts DEF Glances
<1>6. LotsInOrder(b) /\ NoneZero(b) /\ LotInOrder(b, l) /\ RightCache(b, l)
  BY <1>5 DEF Orderly, LotsInOrder, LotInOrder
<1>7. amt \in Int /\ amt # 0 /\ i \in Used(b) /\ b.s[i].lot = NoLot /\ amt = a.s[i].amt
  BY <1>1, <1>4, <1>6, AccFacts DEF NoneZero, Used
<1>8. bal \in Int
  BY <1>4, AccFacts, TotalIsInt DEF Balance
<1>9. \A x : Advances(b, i, x) => Advances(a, i, x)
  BY <1>4, <1>5 DEF Advances, UsesUp
<1>10. \/ /\ ~Nonempty(b, l)
          /\ \A k \in LotId : InUse(b, k) => (Buys(b, k) <=> amt > 0)
       \/ IsFirst(b, l) /\ ~(Buys(b, l) <=> amt > 0)
  <2>1. IsFirst(a, l) => IsFirst(b, l)
    BY <1>4, <1>5 DEF IsFirst, OpenedOn
  <2> QED
    BY <1>4, <1>5, <1>7, <2>1 DEF Nonempty
<1>11. ~UsedUp(b, l) /\ ~IsClosed(b, l)
  BY <1>4, <1>6, <1>10, RightAnswer DEF IsFirst, InUse, Nonempty, UsedUp
<1>12. \/ /\ r = [acc |-> AddSplit(b, i, l), rest |-> NoSplit]
          /\ Sign(bal) # -Sign(amt) \/ Abs(amt) <= Abs(bal)
       \/ r = CutSplit(b, i, l) /\ Sign(bal) = -Sign(amt) /\ ~(Abs(amt) <= Abs(bal))
  BY <1>1, <1>7, <1>11 DEF AssignToLot, b
<1> SUFFICES Advances(a, i, r)
  OBVIOUS
<1> HIDE DEF r, amt, bal
<1>13. CASE ~Nonempty(b, l)
  <2>1. bal = 0
    <3>1. ToSet(b.lot[l].splits) = {}
      BY <1>4, <1>13, AccFacts, EmptyList DEF Nonempty
    <3> QED
      BY <3>1, TotalEmpty DEF bal, Balance
  <2>2. Sign(bal) # -Sign(amt)
    BY <1>7, <2>1 DEF Sign
  <2>3. MayTake(b, i, l)
    BY <1>10, <1>13 DEF MayTake, IsFirst, InUse, amt
  <2> QED
    BY <1>3, <1>5, <1>9, <1>12, <2>2, <2>3, PutAdvances
<1>14. CASE Nonempty(b, l)
  <2>1. IsFirst(b, l) /\ ~(Buys(b, l) <=> amt > 0) /\ InUse(b, l)
    BY <1>10, <1>14 DEF IsFirst
  <2>2. IF Buys(b, l) THEN bal > 0 ELSE bal < 0
    BY <1>3, <1>6, <2>1, InUseFacts DEF bal
  <2>3. Sign(bal) = -Sign(amt)
    BY <1>7, <1>8, <2>1, <2>2 DEF Sign
  <2>4. CASE Abs(amt) <= Abs(bal)
    <3>1. IF Buys(b, l) THEN bal + amt >= 0 ELSE bal + amt <= 0
      BY <1>7, <1>8, <2>1, <2>2, <2>4 DEF Abs, Sign
    <3>2. MayTake(b, i, l)
      BY <2>1, <3>1 DEF MayTake, amt, bal
    <3> QED
      BY <1>3, <1>5, <1>9, <1>12, <2>4, <3>2, PutAdvances
  <2>5. CASE ~(Abs(amt) <= Abs(bal))
    <3>1. Abs(amt) > Abs(bal)
      BY <1>7, <1>8, <2>5 DEF Abs, Sign
    <3>2. Advances(b, i, CutSplit(b, i, l))
      BY <1>3, <1>5, <2>1, <3>1, CutAdvances DEF amt, bal
    <3> QED
      BY <1>9, <1>12, <2>3, <2>5, <3>2
  <2> QED
    BY <2>4, <2>5
<1> QED
  BY <1>13, <1>14

LEMMA AssignFoundAdvances ==
  ASSUME NEW a, AccInv(a), NEW i, Orderly(a, {i})
  PROVE  Advances(a, i, AssignFound(a, i, PolicyLot(a, a.s[i].amt)))
<1> DEFINE amt == a.s[i].amt
           l == PolicyLot(a, amt)
<1>1. /\ a \in AccType /\ LotsInOrder(a) /\ NoneZero(a) /\ i \in Used(a) /\ i \in SplitId
      /\ a.s[i].lot = NoLot
  BY DEF AccInv, Orderly, LooseLast, Loose, Used
<1>2. amt \in Int /\ amt # 0
  BY <1>1, AccFacts DEF NoneZero
<1>3. amt = a.s[i].amt
  OBVIOUS
<1> HIDE DEF amt
<1>4. \/ /\ l = NoLot
         /\ \A k \in LotId : InUse(a, k) => (Buys(a, k) <=> amt > 0)
      \/ l \in LotId /\ IsFirst(a, l) /\ ~(Buys(a, l) <=> amt > 0)
  BY <1>1, <1>2, PolicyLotFirst
<1> HIDE DEF l
<1> SUFFICES Advances(a, i, AssignFound(a, i, l))
  BY <1>3 DEF l
<1>5. CASE l # NoLot
  <2>1. AssignFound(a, i, l) = AssignToLot(a, i, l)
    BY <1>5 DEF AssignFound
  <2> QED
    BY <1>3, <1>4, <1>5, <2>1, AssignToLotAdvances
<1>6. CASE l = NoLot /\ ToSet(a.lots) # LotId
  <2> DEFINE k == FreshLot(a)
             b == [a EXCEPT !.lot[k] = NewLot]
             r == AssignToLot(b, i, k)
  <2>1. AssignFound(a, i, l) = r
    BY <1>6 DEF AssignFound
  <2>2. k \in LotId /\ k \notin ToSet(a.lots) /\ AccInv(b)
    BY <1>6, FreshScrubs DEF Scrubs
  <2>3. NewLot \in LotType /\ NewLot.splits = <<>> /\ NewLot.closed = "unknown"
    BY DEF NewLot, LotType
  <2> HIDE DEF k
  <2>4. /\ b \in AccType /\ b.s = a.s /\ b.list = a.list /\ b.lots = a.lots
        /\ b.unsorted = a.unsorted
        /\ \A m \in LotId : b.lot[m] = IF m = k THEN NewLot ELSE a.lot[m]
    BY <1>1, <2>2, <2>3 DEF AccType
  <2> HIDE DEF b
  <2>5. a.lot[k].splits = <<>>
    <3>1. ToSet(a.lot[k].splits) = {}
      BY <2>2 DEF AccInv, Agrees
    <3> QED
      BY <1>1, <2>2, <3>1, AccFacts, EmptyList
  <2>6. Peeks(a, b)
    BY <2>3, <2>4, <2>5 DEF Peeks, RightCache
  <2>7. /\ Orderly(b, {i}) /\ Loose(b) = Loose(a)
        /\ \A m \in LotId : /\ InUse(b, m) <=> InUse(a, m)
                            /\ Buys(b, m) <=> Buys(a, m)
    BY <1>1, <2>6, PeeksFacts
  <2>8. ~Nonempty(b, k)
    BY <2>2, <2>3, <2>4 DEF Nonempty
  <2>9. \A m \in LotId : InUse(b, m) => (Buys(b, m) <=> b.s[i].amt > 0)
    BY <1>3, <1>4, <1>6, <2>4, <2>7, Bounds
  <2>10. Advances(b, i, r)
    BY <2>2, <2>7, <2>8, <2>9, AssignToLotAdvances
  <2> HIDE DEF r
  <2> QED
    BY <2>1, <2>4, <2>7, <2>10 DEF Advances, UsesUp
<1>7. CASE l = NoLot /\ ToSet(a.lots) = LotId
  <2> DEFINE d == [a EXCEPT !.full = TRUE]
  <2>1. AssignFound(a, i, l) = [acc |-> d, rest |-> NoSplit]
    BY <1>7 DEF AssignFound
  <2>2. d.full = TRUE
    BY <1>1 DEF AccType
  <2> HIDE DEF d
  <2> QED
    BY <2>1, <2>2 DEF Advances
<1> QED
  BY <1>5, <1>6, <1>7

-----------------------------------------------------------------------------
(* Assigning a split.                                                      *)

OpenAt(a, x) == {k \in 1..Len(a.lots) : InUse(x, a.lots[k])}

\* What there is after n rounds
Working(a, i, r, n) ==
  \/ r.acc.full
  \/ /\ r.rest = NoSplit /\ r.acc.unsorted
     /\ Orderly(r.acc, {}) /\ Loose(r.acc) = Loose(a) \ {i}
  \/ /\ r.rest \in SplitId
     /\ Orderly(r.acc, {r.rest}) /\ Loose(r.acc) \ {r.rest} = Loose(a) \ {i}
     /\ r.acc.lots = a.lots /\ Cardinality(OpenAt(a, r.acc)) + n <= Len(a.lots)

LEMMA OpenAtFacts ==
  ASSUME NEW a, AccInv(a), NEW x
  PROVE  /\ Len(a.lots) \in Nat
         /\ IsFiniteSet(OpenAt(a, x)) /\ Cardinality(OpenAt(a, x)) \in Nat
         /\ Cardinality(OpenAt(a, x)) <= Len(a.lots)
<1> DEFINE N == Len(a.lots)
           S == 1..N
           T == OpenAt(a, x)
<1>1. N \in Nat
  BY AccFacts DEF AccInv
<1>2. T \in SUBSET S
  BY DEF OpenAt
<1> HIDE DEF N, T
<1>3. IsFiniteSet(S) /\ Cardinality(S) = N
  BY <1>1, FS_Interval
<1> HIDE DEF S
<1>4. IsFiniteSet(T) /\ Cardinality(T) <= Cardinality(S)
  BY <1>2, <1>3, FS_Subset
<1>5. Cardinality(T) \in Nat
  BY <1>4, FS_CardinalityType
<1> QED
  BY <1>1, <1>3, <1>4, <1>5 DEF N, T

LEMMA FewerOpen ==
  ASSUME NEW a, AccInv(a), NEW b, AccInv(b), NoneZero(b), b.lots = a.lots,
         NEW c, UsesUp(b, c)
  PROVE  Cardinality(OpenAt(a, c)) + 1 <= Cardinality(OpenAt(a, b))
<1> DEFINE S == OpenAt(a, b)
           T == OpenAt(a, c)
<1>1. /\ \A k \in 1..Len(a.lots) : a.lots[k] \in LotId
      /\ ToSet(a.lots) = {a.lots[k] : k \in 1..Len(a.lots)}
  BY AccFacts, ListFacts DEF AccInv
<1>2. PICK k \in LotId : InUse(b, k) /\ ~InUse(c, k)
  BY DEF UsesUp
<1>3. k \in ToSet(a.lots)
  BY <1>2, OpenerSign DEF InUse
<1>4. PICK m \in 1..Len(a.lots) : k = a.lots[m]
  BY <1>1, <1>3
<1>5. m \in S /\ m \notin T
  BY <1>2, <1>4 DEF OpenAt
<1>6. T \subseteq S
  BY <1>1 DEF OpenAt, UsesUp
<1>7. /\ IsFiniteSet(S) /\ Cardinality(S) \in Nat
      /\ IsFiniteSet(T) /\ Cardinality(T) \in Nat
  BY OpenAtFacts
<1> HIDE DEF S, T
<1>8. T \in SUBSET (S \ {m})
  BY <1>5, <1>6
<1>9. IsFiniteSet(S \ {m}) /\ Cardinality(S \ {m}) = Cardinality(S) - 1
  BY <1>5, <1>7, FS_RemoveElement
<1>10. Cardinality(T) <= Cardinality(S \ {m})
  BY <1>8, <1>9, FS_Subset
<1>11. Cardinality(T) + 1 <= Cardinality(S)
  BY <1>7, <1>9, <1>10
<1> QED
  BY <1>11 DEF S, T

LEMMA AskAllAnswers ==
  ASSUME NEW a, AccInv(a), NEW R, Orderly(a, R)
  PROVE  Glances(a, AskAll(a)) /\ AccInv(AskAll(a))
<1> DEFINE b == AskAll(a)
<1>1. a \in AccType
  BY DEF AccInv
<1>2. Glances(a, b)
  BY <1>1, AskAllGlances
<1>3. Looks(a, b)
  BY <1>1, AskAllLooks
<1> HIDE DEF b
<1>4. AccInv(b)
  BY <1>3, LooksScrubs DEF Scrubs
<1> QED
  BY <1>2, <1>4 DEF b

LEMMA WorkingOn ==
  ASSUME NEW a, AccInv(a), NEW i, NEW n \in Nat, NEW r, AccInv(r.acc), Working(a, i, r, n)
  PROVE  Working(a, i, AssignRound(r), n + 1)
<1> DEFINE x == r.acc
           b == AskAll(x)
           q == AssignFound(b, r.rest, PolicyLot(b, b.s[r.rest].amt))
<1>1. CASE r.rest = NoSplit \/ r.acc.full
  <2>1. AssignRound(r) = r
    BY <1>1 DEF AssignRound
  <2> QED
    BY <1>1, <2>1, Bounds DEF Working
<1>2. CASE ~(r.rest = NoSplit \/ r.acc.full)
  <2>1. AssignRound(r) = q
    BY <1>2 DEF AssignRound
  <2>2. /\ r.rest \in SplitId
        /\ Orderly(x, {r.rest}) /\ Loose(x) \ {r.rest} = Loose(a) \ {i}
        /\ x.lots = a.lots /\ Cardinality(OpenAt(a, x)) + n <= Len(a.lots)
        /\ AccInv(x)
    BY <1>2 DEF Working
  <2> HIDE DEF x
  <2>3. Glances(x, b) /\ AccInv(b)
    BY <2>2, AskAllAnswers
  <2> HIDE DEF b
  <2>4. /\ Orderly(b, {r.rest}) /\ Loose(b) = Loose(x) /\ b.lots = a.lots
        /\ \A k \in LotId : InUse(b, k) <=> InUse(x, k)
    BY <2>2, <2>3, PeeksFacts DEF Glances, AccInv
  <2>5. Advances(b, r.rest, q)
    BY <2>3, <2>4, AssignFoundAdvances
  <2> HIDE DEF q
  <2>6. ASSUME q.acc.lots = b.lots, UsesUp(b, q.acc)
        PROVE  Cardinality(OpenAt(a, q.acc)) + (n + 1) <= Len(a.lots)
    <3>1. OpenAt(a, b) = OpenAt(a, x)
      BY <2>2, <2>4, AccFacts DEF OpenAt, AccInv
    <3>2. Cardinality(OpenAt(a, q.acc)) + 1 <= Cardinality(OpenAt(a, b))
      BY <2>3, <2>4, <2>6, FewerOpen DEF Orderly
    <3>3. /\ Cardinality(OpenAt(a, q.acc)) \in Nat /\ Cardinality(OpenAt(a, b)) \in Nat
          /\ Len(a.lots) \in Nat
      BY OpenAtFacts
    <3> QED
      BY <2>2, <3>1, <3>2, <3>3
  <2>7. Working(a, i, q, n + 1)
    BY <2>2, <2>4, <2>5, <2>6 DEF Advances, Working
  <2> QED
    BY <2>1, <2>7
<1> QED
  BY <1>1, <1>2

LEMMA AssignOrderly ==
  ASSUME NEW a, AccInv(a), NEW i, Orderly(a, {i}), NEW x, x = Assign(a, i)
  PROVE  x.full \/ (x.unsorted /\ Orderly(x, {}) /\ Loose(x) = Loose(a) \ {i})
<1> DEFINE N == Len(a.lots) + 1
<1>1. i \in Used(a) /\ i \in SplitId
  BY DEF Orderly, LooseLast, Loose, Used
<1>2. N \in Nat /\ N = Len(a.lots) + 1 /\ Len(a.lots) \in Nat
  BY OpenAtFacts
<1>3. PICK g : Assigns(a, i, g)
  BY <1>1, AssignRun
<1>4. /\ g[0] = [acc |-> a, rest |-> i] /\ x = g[N].acc
      /\ \A n \in 1..N : g[n] = AssignRound(g[n - 1])
      /\ \A n \in 0..N : IsAssigned(a, g[n], LotId)
  BY <1>3 DEF Assigns
<1> HIDE DEF N
<1> DEFINE T == {n \in 0..N : Working(a, i, g[n], n)}
<1>5. 0 \in T
  <2> DEFINE r == [acc |-> a, rest |-> i]
  <2>1. r.acc = a /\ r.rest = i
    OBVIOUS
  <2> HIDE DEF r
  <2>2. Cardinality(OpenAt(a, a)) \in Nat /\ Cardinality(OpenAt(a, a)) <= Len(a.lots)
    BY OpenAtFacts
  <2>3. Cardinality(OpenAt(a, a)) + 0 <= Len(a.lots)
    BY <1>2, <2>2
  <2>4. Working(a, i, r, 0)
    BY <1>1, <2>1, <2>3 DEF Working
  <2> QED
    BY <1>2, <1>4, <2>4 DEF r
<1>6. ASSUME NEW n \in 0..(N - 1), n \in T
      PROVE  n + 1 \in T
  <2>1. n \in Nat /\ n + 1 \in 1..N /\ (n + 1) - 1 = n /\ n + 1 \in 0..N /\ n \in 0..N
    BY <1>2
  <2>2. g[n + 1] = AssignRound(g[n])
    BY <1>4, <2>1
  <2>3. AccInv(g[n].acc) /\ Working(a, i, g[n], n)
    BY <1>4, <1>6, <2>1 DEF IsAssigned, Scrubs
  <2>4. Working(a, i, g[n + 1], n + 1)
    BY <2>1, <2>2, <2>3, WorkingOn
  <2> QED
    BY <2>1, <2>4
<1>7. \A n \in 0..N : n \in T
  <2> HIDE DEF T
  <2> QED
    BY <1>2, <1>5, <1>6, UpTo
<1>8. Working(a, i, g[N], N)
  <2>1. N \in 0..N
    BY <1>2
  <2> QED
    BY <1>7, <2>1
<1>9. ~(Cardinality(OpenAt(a, x)) + N <= Len(a.lots))
  <2>1. Cardinality(OpenAt(a, x)) \in Nat
    BY OpenAtFacts
  <2> QED
    BY <1>2, <2>1
<1> QED
  BY <1>4, <1>8, <1>9 DEF Working

-----------------------------------------------------------------------------
(* Assigning all splits, the earliest first.                               *)

\* The next edit of the account sorts its list, or it is sorted.
Listed(a) == a.unsorted \/ InTurn(a, a.list)

LEMMA LooseFacts ==
  ASSUME NEW a, AccInv(a)
  PROVE  /\ Loose(a) \in SUBSET SplitId /\ Loose(a) \subseteq ToSet(a.list)
         /\ IsFiniteSet(Loose(a)) /\ Cardinality(Loose(a)) \in Nat
         /\ NoneZero(a) => Unassigned(a) = Loose(a)
<1>1. ToSet(a.list) = Used(a) /\ Used(a) \subseteq SplitId
  BY DEF AccInv, Agrees, Used
<1>2. Loose(a) \in SUBSET SplitId /\ Loose(a) \subseteq ToSet(a.list)
  BY <1>1 DEF Loose
<1>3. IsFiniteSet(Loose(a)) /\ Cardinality(Loose(a)) \in Nat
  BY <1>2, Bounds, FS_CardinalityType
<1>4. NoneZero(a) => Unassigned(a) = Loose(a)
  BY <1>1 DEF Unassigned, Loose, NoneZero
<1> QED
  BY <1>2, <1>3, <1>4

\* The first in the list is the earliest.
LEMMA FirstOrderly ==
  ASSUME NEW a, AccInv(a), Orderly(a, {}), Loose(a) # {},
         NEW i, i = FirstIn(a.list, Loose(a))
  PROVE  i \in Loose(a) /\ Orderly(a, {i})
<1> DEFINE q == a.list
           K == {k \in DOMAIN q : q[k] \in Loose(a)}
           m == Min(K)
<1>1. a \in AccType /\ q \in Seq(SplitId)
  BY AccFacts DEF AccInv
<1>2. /\ DOMAIN q = 1..Len(q) /\ Len(q) \in Nat
      /\ ToSet(q) = {q[k] : k \in DOMAIN q}
  BY <1>1, ListFacts
<1>3. Loose(a) \subseteq ToSet(q)
  BY LooseFacts
<1>4. K \in SUBSET Nat /\ K # {}
  <2>1. PICK j \in Loose(a) : TRUE
    OBVIOUS
  <2>2. PICK k \in DOMAIN q : j = q[k]
    BY <1>2, <1>3, <2>1
  <2>3. k \in K
    BY <2>1, <2>2
  <2> QED
    BY <1>2, <2>3
<1>5. i = q[m]
  BY DEF FirstIn
<1>6. \A k \in K : k \in DOMAIN q /\ q[k] \in Loose(a)
  OBVIOUS
<1>7. ASSUME NEW j \in Loose(a)
      PROVE  \E k \in K : j = q[k]
  <2>1. PICK k \in DOMAIN q : j = q[k]
    BY <1>2, <1>3
  <2>2. k \in K
    BY <2>1
  <2> QED
    BY <2>1, <2>2
<1>8. LooseInTurn(a, {}) /\ LooseLast(a, {}) /\ PartsApart(a, {}) /\ LotsInOrder(a) /\ NoneZero(a)
  BY DEF Orderly
<1>9. \A j, k \in 1..Len(q) : j <= k /\ q[j] \in Loose(a) /\ q[k] \in Loose(a) =>
        a.s[q[j]].date <= a.s[q[k]].date
  BY <1>8 DEF LooseInTurn
<1> HIDE DEF K
<1>10. m \in K /\ \A k \in K : m <= k
  BY <1>4, MinIsLeast
<1> HIDE DEF m, q
<1>11. i \in Loose(a)
  BY <1>5, <1>6, <1>10
<1>12. \A j \in Loose(a) : a.s[i].date <= a.s[j].date
  BY <1>2, <1>5, <1>6, <1>7, <1>9, <1>10
<1>13. LooseLast(a, {i})
  BY <1>8, <1>11, <1>12 DEF LooseLast
<1>14. PartsApart(a, {i}) /\ LooseInTurn(a, {i})
  BY <1>8 DEF PartsApart, LooseInTurn
<1> QED
  BY <1>8, <1>11, <1>13, <1>14 DEF Orderly

\* What there is after n rounds
Assigning(x, n, N) ==
  x.full \/ (Orderly(x, {}) /\ Listed(x) /\ Cardinality(Loose(x)) + n <= N)

LEMMA AssignNextOrderly ==
  ASSUME NEW N \in Nat, NEW n \in 0..(N - 1), NEW x, AccInv(x), Assigning(x, n, N)
  PROVE  Assigning(AssignNext(x), n + 1, N)
<1> DEFINE i == FirstIn(x.list, Loose(x))
           y == Assign(x, i)
<1>1. CASE x.full
  <2>1. AssignNext(x) = x
    BY <1>1 DEF AssignNext
  <2> QED
    BY <1>1, <2>1 DEF Assigning
<1>2. CASE ~x.full
  <2>1. Orderly(x, {}) /\ Listed(x) /\ Cardinality(Loose(x)) + n <= N /\ NoneZero(x)
    BY <1>2 DEF Assigning, Orderly
  <2>2. Unassigned(x) = Loose(x)
    BY <2>1, LooseFacts
  <2>3. CASE Loose(x) = {}
    <3>1. AssignNext(x) = x
      BY <2>2, <2>3 DEF AssignNext
    <3>2. Cardinality(Loose(x)) = 0
      BY <2>3, FS_EmptySet
    <3>3. Cardinality(Loose(x)) + (n + 1) <= N
      BY <3>2
    <3> QED
      BY <2>1, <3>1, <3>3 DEF Assigning
  <2>4. CASE Loose(x) # {}
    <3>1. AssignNext(x) = y
      BY <1>2, <2>2, <2>4 DEF AssignNext
    <3>2. i \in Loose(x) /\ Orderly(x, {i})
      BY <2>1, <2>4, FirstOrderly
    <3> HIDE DEF i
    <3>3. y.full \/ (y.unsorted /\ Orderly(y, {}) /\ Loose(y) = Loose(x) \ {i})
      BY <3>2, AssignOrderly
    <3> HIDE DEF y
    <3>4. IsFiniteSet(Loose(x)) /\ Cardinality(Loose(x)) \in Nat
      BY LooseFacts
    <3>5. Cardinality(Loose(x) \ {i}) = Cardinality(Loose(x)) - 1
      BY <3>2, <3>4, FS_RemoveElement
    <3>6. Cardinality(Loose(x) \ {i}) + (n + 1) <= N
      BY <2>1, <3>4, <3>5
    <3> QED
      BY <3>1, <3>3, <3>6 DEF Assigning, Listed
  <2> QED
    BY <2>3, <2>4
<1> QED
  BY <1>1, <1>2

LEMMA AssignLotsOrderly ==
  ASSUME NEW a, AccInv(a), Orderly(a, {}), Listed(a), NEW x, x = AssignLots(a)
  PROVE  /\ AccInv(x)
         /\ x.full \/ (Orderly(x, {}) /\ Listed(x) /\ Loose(x) = {})
<1> DEFINE N == Cardinality(Unassigned(a))
<1>1. N \in Nat
  BY AssignLotsRun
<1>2. PICK g : AssignsLots(a, g)
  BY AssignLotsRun
<1>3. /\ g[0] = a /\ x = g[N]
      /\ \A n \in 1..N : g[n] = AssignNext(g[n - 1])
      /\ \A n \in 0..N : Scrubs(a, g[n], LotId)
  BY <1>2 DEF AssignsLots
<1>4. Cardinality(Loose(a)) + 0 <= N
  <2>1. Unassigned(a) = Loose(a) /\ Cardinality(Loose(a)) \in Nat
    BY LooseFacts DEF Orderly
  <2> QED
    BY <2>1
<1> HIDE DEF N
<1> DEFINE T == {n \in 0..N : Assigning(g[n], n, N)}
<1>5. 0 \in T
  BY <1>1, <1>3, <1>4 DEF Assigning
<1>6. ASSUME NEW n \in 0..(N - 1), n \in T
      PROVE  n + 1 \in T
  <2>1. n + 1 \in 1..N /\ (n + 1) - 1 = n /\ n + 1 \in 0..N /\ n \in 0..N
    BY <1>1
  <2>2. g[n + 1] = AssignNext(g[n]) /\ AccInv(g[n]) /\ Assigning(g[n], n, N)
    BY <1>3, <1>6, <2>1 DEF Scrubs
  <2>3. Assigning(g[n + 1], n + 1, N)
    BY <1>1, <2>2, AssignNextOrderly
  <2> QED
    BY <2>1, <2>3
<1>7. \A n \in 0..N : n \in T
  <2> HIDE DEF T
  <2> QED
    BY <1>1, <1>5, <1>6, UpTo
<1>8. AccInv(x) /\ Assigning(x, N, N)
  <2>1. N \in 0..N
    BY <1>1
  <2> QED
    BY <1>3, <1>7, <2>1 DEF Scrubs
<1>9. Cardinality(Loose(x)) + N <= N => Loose(x) = {}
  <2>1. IsFiniteSet(Loose(x)) /\ Cardinality(Loose(x)) \in Nat
    BY <1>8, LooseFacts
  <2>2. Cardinality(Loose(x)) + N <= N => Cardinality(Loose(x)) = 0
    BY <1>1, <2>1
  <2> QED
    BY <2>1, <2>2, FS_EmptySet
<1> QED
  BY <1>8, <1>9 DEF Assigning

-----------------------------------------------------------------------------
(* Scrubbing the lots: there is nothing to merge, to thin or to fill.      *)

LEMMA MergesNothing ==
  ASSUME NEW a, AccInv(a), NEW R, PartsApart(a, R), NEW l \in LotId
  PROVE  MergeSubSplits(a, l) = a
<1> DEFINE N == Len(a.lot[l].splits)
           mates(i) == {j \in a.s[i].peers : a.s[j].lot = l /\ a.s[j].trans = a.s[i].trans}
           todo == {i \in ToSet(a.lot[l].splits) : mates(i) # {}}
<1>1. a \in AccType /\ Agrees(a) /\ NoOwnPeer(a)
  BY DEF AccInv
<1>2. ASSUME NEW i \in ToSet(a.lot[l].splits), NEW j \in a.s[i].peers,
             a.s[j].lot = l, a.s[j].trans = a.s[i].trans
      PROVE  FALSE
  <2>1. i \in Used(a) /\ i \in SplitId /\ a.s[i].lot = l /\ a.s[i].trans # 0 /\ l # NoLot
    BY <1>1, Bounds DEF Agrees, Used
  <2>2. j \in SplitId /\ i # j
    BY <1>1, <2>1, AccFacts DEF NoOwnPeer
  <2>3. j \in Used(a)
    BY <1>2, <2>1, <2>2 DEF Used
  <2> QED
    BY <1>2, <2>1, <2>2, <2>3 DEF PartsApart
<1>3. todo = {}
  BY <1>2
<1>4. MergeRound(a, l) = a
  BY <1>3 DEF MergeRound
<1> HIDE DEF todo, mates
<1>5. N \in Nat
  BY MergeSubSplitsRun
<1>6. PICK g : Merges(a, l, g)
  BY MergeSubSplitsRun
<1>7. /\ g[0] = a /\ MergeSubSplits(a, l) = g[N]
      /\ \A n \in 1..N : g[n] = MergeRound(g[n - 1], l)
  BY <1>6 DEF Merges
<1> HIDE DEF N
<1> DEFINE S == {a}
<1>8. g[0] \in S /\ \A n \in 1..N : g[n - 1] \in S => g[n] \in S
  BY <1>4, <1>7
<1>9. \A n \in 0..N : g[n] \in S
  <2> HIDE DEF S
  <2> QED
    BY <1>5, <1>8, LoopStays
<1>10. N \in 0..N
  BY <1>5
<1> QED
  BY <1>7, <1>9, <1>10

LEMMA FillsNothing ==
  ASSUME NEW a, AccInv(a), Orderly(a, {}), Loose(a) = {}, NEW l \in LotId
  PROVE  Glances(a, LotFill(a, l))
<1> DEFINE N == Cardinality(Unassigned(a)) + 1
           S == {x \in AccType : Glances(a, x)}
<1>1. a \in AccType /\ LotInOrder(a, l)
  BY DEF AccInv, Orderly, LotsInOrder
<1>2. N \in Nat
  BY LotFillRun
<1>3. PICK g : Fills(a, l, g)
  BY LotFillRun
<1>4. /\ g[0] = a /\ LotFill(a, l) = g[N]
      /\ \A n \in 1..N : g[n] = FillRound(g[n - 1], l)
  BY <1>3 DEF Fills
<1> HIDE DEF N
<1>5. g[0] \in S
  BY <1>1, <1>4, GlancesAtNothing
<1>6. ASSUME NEW n \in 1..N, g[n - 1] \in S
      PROVE  g[n] \in S
  <2> DEFINE x == g[n - 1]
             b == Ask(x, l)
             c == Known(b, l)
             i == PolicySplit(b, l)
             y == FillRound(x, l)
  <2>1. g[n] = y /\ x \in AccType /\ Glances(a, x)
    BY <1>4, <1>6
  <2> HIDE DEF x
  <2>2. Glances(a, b) /\ b \in AccType
    <3>1. Glances(x, b)
      BY <2>1, AskGlances
    <3> HIDE DEF b
    <3> QED
      BY <1>1, <2>1, <3>1, GlancesBoth DEF Glances, Peeks
  <2>3. i = NoSplit
    <3> DEFINE fits == {k \in Unassigned(b) :
                          /\ b.s[k].date >= b.s[Latest(b, l)].date
                          /\ Balance(b, l) < 0 <=> b.s[k].amt > 0}
    <3>1. i = NoSplit \/ fits # {}
      BY DEF PolicySplit
    <3> HIDE DEF b
    <3>2. Unassigned(b) = Unassigned(a)
      BY <2>2 DEF Unassigned, Glances, Peeks
    <3>3. Unassigned(a) = {}
      BY LooseFacts DEF Orderly
    <3> QED
      BY <3>1, <3>2, <3>3
  <2>4. y = b \/ y = SortLot(c, l)
    BY <2>3 DEF FillRound
  <2> HIDE DEF b, y
  <2>5. Glances(a, c)
    <3>1. Glances(b, c)
      BY <2>2, KnownGlances
    <3> HIDE DEF c
    <3> QED
      BY <1>1, <2>2, <3>1, GlancesBoth
  <2> HIDE DEF c
  <2>6. SortLot(c, l) = c
    BY <1>1, <2>5, SortsNothing
  <2>7. Glances(a, y) /\ y \in AccType
    BY <2>2, <2>4, <2>5, <2>6 DEF Glances, Peeks
  <2> QED
    BY <2>1, <2>7
<1>7. \A n \in 0..N : g[n] \in S
  <2> HIDE DEF S
  <2> QED
    BY <1>2, <1>5, <1>6, LoopStays
<1>8. N \in 0..N
  BY <1>2
<1> QED
  BY <1>4, <1>7, <1>8

LEMMA GlancesKeeps ==
  ASSUME NEW a, AccInv(a), NEW R, Orderly(a, R), NEW b, Glances(a, b)
  PROVE  AccInv(b) /\ Orderly(b, R) /\ Loose(b) = Loose(a)
<1>1. a \in AccType /\ b \in AccType
  BY DEF AccInv, Glances, Peeks
<1>2. Orderly(b, R) /\ Loose(b) = Loose(a) /\ Used(b) = Used(a)
  BY <1>1, PeeksFacts DEF Glances
<1>3. b.s = a.s /\ b.list = a.list /\ b.lots = a.lots
      /\ \A l \in LotId : b.lot[l].splits = a.lot[l].splits
  BY DEF Glances, Peeks
<1>4. Agrees(b) /\ NoOwnPeer(b)
  BY <1>2, <1>3 DEF AccInv, Agrees, NoOwnPeer
<1> QED
  BY <1>1, <1>2, <1>4 DEF AccInv

LEMMA RefilledGlances ==
  ASSUME NEW a, AccInv(a), Orderly(a, {}), Loose(a) = {}, NEW l \in LotId
  PROVE  Glances(a, Refilled(a, l))
<1> DEFINE opening == a.s[Earliest(a, l)].amt
           bal == Balance(a, l)
           x == LotFill(a, l)
<1>1. a \in AccType /\ LotInOrder(a, l) /\ LotsInOrder(a) /\ NoneZero(a)
  BY DEF AccInv, Orderly, LotsInOrder
<1>2. CASE bal = 0
  BY <1>1, <1>2, GlancesAtNothing DEF Refilled
<1>3. CASE bal # 0
  <2>1. Nonempty(a, l)
    <3>1. ~Nonempty(a, l) => ToSet(a.lot[l].splits) = {}
      BY <1>1, AccFacts, EmptyList DEF Nonempty
    <3> QED
      BY <1>3, <3>1, TotalEmpty DEF Balance
  <2>2. InUse(a, l)
    BY <1>3, <2>1 DEF InUse, UsedUp
  <2>3. opening > 0 <=> bal > 0
    <3>1. opening = a.s[Opener(a, l)].amt
      BY <1>1, <2>1, EarliestOpens
    <3>2. bal \in Int /\ IF Buys(a, l) THEN bal > 0 ELSE bal < 0
      BY <1>1, <2>2, InUseFacts
    <3> QED
      BY <3>1, <3>2 DEF Buys
  <2>4. SortLot(a, l) = a
    BY <1>1, GlancesAtNothing, SortsNothing
  <2>5. Refilled(a, l) = MergeSubSplits(x, l)
    BY <1>3, <2>3, <2>4 DEF Refilled
  <2>6. Glances(a, x)
    BY FillsNothing
  <2> HIDE DEF x
  <2>7. AccInv(x) /\ PartsApart(x, {})
    BY <2>6, GlancesKeeps DEF Orderly
  <2>8. MergeSubSplits(x, l) = x
    BY <2>7, MergesNothing
  <2> QED
    BY <2>5, <2>6, <2>8
<1> QED
  BY <1>2, <1>3

LEMMA ScrubLotGlances ==
  ASSUME NEW a, AccInv(a), Orderly(a, {}), Loose(a) = {}, NEW l \in LotId
  PROVE  Glances(a, ScrubLot(a, l))
<1> DEFINE b == Known(a, l)
           c == Refilled(b, l)
<1>1. a \in AccType /\ PartsApart(a, {})
  BY DEF AccInv, Orderly
<1>2. MergeSubSplits(a, l) = a
  BY <1>1, MergesNothing
<1>3. ScrubLot(a, l) = c
  BY <1>2 DEF ScrubLot
<1>4. Glances(a, b)
  BY <1>1, KnownGlances
<1> HIDE DEF b
<1>5. AccInv(b) /\ Orderly(b, {}) /\ Loose(b) = {}
  BY <1>4, GlancesKeeps
<1>6. Glances(b, c)
  BY <1>5, RefilledGlances
<1> HIDE DEF c
<1> QED
  BY <1>1, <1>3, <1>4, <1>6, GlancesBoth

LEMMA ScrubEachOrderly ==
  ASSUME NEW a, AccInv(a), a.full \/ (Orderly(a, {}) /\ Loose(a) = {}),
         NEW x, x = ScrubEach(a)
  PROVE  x.full \/ Glances(a, x)
<1> DEFINE N == Len(a.lots)
<1>1. N \in Nat /\ \A k \in 1..N : a.lots[k] \in LotId
  BY ScrubEachRun
<1>2. PICK g : ScrubsEach(a, g)
  BY ScrubEachRun
<1>3. /\ g[0] = a /\ x = g[N]
      /\ \A n \in 1..N : g[n] = ScrubNext(g[n - 1], a.lots[n])
  BY <1>2 DEF ScrubsEach
<1> HIDE DEF N
<1>4. a \in AccType
  BY DEF AccInv
<1>5. N \in 0..N
  BY <1>1
<1>6. CASE a.full
  <2> DEFINE S == {a}
  <2>1. g[0] \in S /\ \A n \in 1..N : g[n - 1] \in S => g[n] \in S
    BY <1>3, <1>6 DEF ScrubNext
  <2>2. \A n \in 0..N : g[n] \in S
    <3> HIDE DEF S
    <3> QED
      BY <1>1, <2>1, LoopStays
  <2> QED
    BY <1>3, <1>5, <1>6, <2>2
<1>7. CASE ~a.full
  <2> DEFINE S == {y \in AccType : Glances(a, y)}
  <2>1. g[0] \in S
    BY <1>3, <1>4, GlancesAtNothing
  <2>2. ASSUME NEW n \in 1..N, g[n - 1] \in S
        PROVE  g[n] \in S
    <3> DEFINE b == g[n - 1]
               l == a.lots[n]
               c == ScrubLot(b, l)
    <3>1. b \in AccType /\ Glances(a, b) /\ l \in LotId /\ g[n] = ScrubNext(b, l)
      BY <1>1, <1>3, <2>2
    <3> HIDE DEF b, l
    <3>2. AccInv(b) /\ Orderly(b, {}) /\ Loose(b) = {}
      BY <1>7, <3>1, GlancesKeeps
    <3>3. Glances(b, c)
      BY <3>1, <3>2, ScrubLotGlances
    <3> HIDE DEF c
    <3>4. Glances(a, c) /\ c \in AccType
      BY <1>4, <3>1, <3>3, GlancesBoth DEF Glances, Peeks
    <3>5. g[n] = b \/ g[n] = c
      BY <3>1 DEF ScrubNext, c
    <3> QED
      BY <3>1, <3>4, <3>5
  <2>3. \A n \in 0..N : g[n] \in S
    <3> HIDE DEF S
    <3> QED
      BY <1>1, <2>1, <2>2, LoopStays
  <2> QED
    BY <1>3, <1>5, <2>3
<1> QED
  BY <1>6, <1>7

LEMMA ScrubLotsOrderly ==
  ASSUME NEW a, AccInv(a), Orderly(a, {}), Listed(a), NEW x, x = ScrubLots(a)
  PROVE  x.full \/ (AccInv(x) /\ Orderly(x, {}) /\ Listed(x) /\ Loose(x) = {})
<1> DEFINE b == AssignLots(a)
<1>1. AccInv(b) /\ (b.full \/ (Orderly(b, {}) /\ Listed(b) /\ Loose(b) = {}))
  BY AssignLotsOrderly
<1>2. x = ScrubEach(b)
  BY DEF ScrubLots
<1> HIDE DEF b
<1>3. x.full \/ Glances(b, x)
  BY <1>1, <1>2, ScrubEachOrderly
<1>4. ASSUME Glances(b, x), ~x.full
      PROVE  AccInv(x) /\ Orderly(x, {}) /\ Listed(x) /\ Loose(x) = {}
  <2>1. b.full = x.full /\ b.s = x.s /\ b.list = x.list /\ b.unsorted = x.unsorted
    BY <1>4 DEF Glances, Peeks
  <2>2. Orderly(b, {}) /\ Listed(b) /\ Loose(b) = {}
    BY <1>1, <1>4, <2>1
  <2>3. AccInv(x) /\ Orderly(x, {}) /\ Loose(x) = {}
    BY <1>1, <1>4, <2>2, GlancesKeeps
  <2> QED
    BY <2>1, <2>2, <2>3 DEF Listed, InTurn
<1> QED
  BY <1>3, <1>4

-----------------------------------------------------------------------------
(* What every call preserves.                                              *)

TidyInv ==
  tidy => /\ Orderly(acc, {}) /\ InTurn(acc, acc.list)
          /\ scrubbed => Loose(acc) = {}

LEMMA CommitOrderly ==
  ASSUME NEW a, AccInv(a), Orderly(a, {}), Listed(a), NEW b, b = AccountCommit(a)
  PROVE  /\ Orderly(b, {}) /\ InTurn(b, b.list) /\ Loose(b) = Loose(a)
<1>1. a \in AccType
  BY DEF AccInv
<1>2. PICK q : /\ b = [a EXCEPT !.list = q, !.unsorted = FALSE]
               /\ IsSorting(a.list, q)
               /\ a.unsorted => InTurn(a, q)
               /\ ~a.unsorted => q = a.list
  BY <1>1, AccountCommitFacts
<1>3. b.list = q /\ b.s = a.s /\ b.lot = a.lot /\ b.lots = a.lots
  BY <1>1, <1>2 DEF AccType
<1>4. b \in AccType
  BY <1>1, <1>2 DEF AccType, IsSorting
<1>5. InTurn(b, b.list)
  BY <1>2, <1>3 DEF Listed, InTurn
<1>6. Used(b) = Used(a) /\ Loose(b) = Loose(a)
  BY <1>3 DEF Used, Loose
<1> DEFINE c == [b EXCEPT !.list = a.list]
<1>7. c \in AccType /\ c.s = a.s /\ c.list = a.list /\ c.lot = a.lot
  BY <1>1, <1>3, <1>4 DEF AccType
<1> HIDE DEF c
<1>8. Peeks(a, c)
  BY <1>7 DEF Peeks
<1>9. \A l \in LotId : SameLot(a, b, l) /\ RightCache(b, l)
  <2> SUFFICES ASSUME NEW l \in LotId  PROVE SameLot(a, b, l) /\ RightCache(b, l)
    OBVIOUS
  <2>1. SameLot(a, b, l)
    BY <1>3 DEF SameLot
  <2>2. UsedUp(b, l) <=> UsedUp(a, l)
    BY <1>1, <1>4, <2>1, SameLotFacts
  <2> QED
    BY <1>3, <2>1, <2>2 DEF Orderly, LotsInOrder, LotInOrder, RightCache
<1>10. LotsInOrder(b)
  BY <1>1, <1>4, <1>9, LotsStay DEF Orderly
<1>11. NoneZero(b) /\ LooseLast(b, {}) /\ PartsApart(b, {})
  BY <1>3, <1>6 DEF Orderly, NoneZero, LooseLast, PartsApart
<1>12. LooseInTurn(b, {})
  BY <1>5 DEF LooseInTurn, InTurn
<1> QED
  BY <1>5, <1>6, <1>10, <1>11, <1>12 DEF Orderly

LEMMA TidyStart ==
  ASSUME LotInit
  PROVE  TidyInv
<1>1. /\ acc.s = [i \in SplitId |-> Unused] /\ acc.list = <<>>
      /\ acc.lot = [l \in LotId |-> NewLot] /\ scrubbed = FALSE
  BY DEF LotInit
<1>2. Unused.trans = 0 /\ NewLot.splits = <<>> /\ NewLot.closed = "unknown"
  BY DEF Unused, NewLot
<1>3. Used(acc) = {} /\ Loose(acc) = {}
  BY <1>1, <1>2 DEF Used, Loose
<1>4. InTurn(acc, <<>>)
  BY DEF InTurn
<1>5. \A l \in LotId : ~Nonempty(acc, l)
  BY <1>1, <1>2 DEF Nonempty
<1>6. LotsInOrder(acc)
  <2>1. ASSUME NEW l \in LotId
        PROVE  LotInOrder(acc, l)
    BY <1>1, <1>2, <1>4, <1>5 DEF LotInOrder, RightCache
  <2>2. ASSUME NEW l \in LotId, NEW k \in LotId
        PROVE  InOrder(acc, l, k)
    BY <1>5 DEF InOrder, InUse
  <2> QED
    BY <2>1, <2>2 DEF LotsInOrder
<1>7. NoneZero(acc) /\ LooseLast(acc, {}) /\ PartsApart(acc, {}) /\ LooseInTurn(acc, {})
  BY <1>3 DEF NoneZero, LooseLast, PartsApart, LooseInTurn
<1> QED
  BY <1>1, <1>4, <1>6, <1>7 DEF TidyInv, Orderly

\* A split is entered that is the newest, if there are lots.
LEMMA EnteredOrderly ==
  ASSUME NEW a, AccInv(a), Orderly(a, {}), NEW b \in AccType,
         NEW i \in SplitId, i \notin Used(a),
         \A j \in Used(a) : a.s[j].trans # i /\ (a.lots = <<>> \/ a.s[j].date <= b.s[i].date),
         b.s[i].trans = i, b.s[i].amt # 0, b.s[i].lot = NoLot,
         \A k \in SplitId \ {i} : b.s[k] = a.s[k],
         b.lot = a.lot, InTurn(b, b.list)
  PROVE  Orderly(b, {})
<1>1. /\ a \in AccType /\ LooseLast(a, {}) /\ NoneZero(a) /\ PartsApart(a, {})
      /\ LotsInOrder(a) /\ Agrees(a)
  BY DEF AccInv, Orderly
<1>2. Used(b) = Used(a) \cup {i} /\ Used(a) \subseteq SplitId \ {i}
  BY Bounds DEF Used
<1>3. Loose(b) = Loose(a) \cup {i}
  BY <1>2 DEF Loose
<1>4. \A l \in LotId : SameLot(a, b, l) /\ (UsedUp(b, l) <=> UsedUp(a, l))
  <2> SUFFICES ASSUME NEW l \in LotId
               PROVE  SameLot(a, b, l) /\ (UsedUp(b, l) <=> UsedUp(a, l))
    OBVIOUS
  <2>1. ToSet(a.lot[l].splits) \subseteq Used(a)
    BY <1>1 DEF Agrees
  <2>2. SameLot(a, b, l)
    BY <1>2, <2>1 DEF SameLot
  <2> QED
    BY <1>1, <2>2, SameLotFacts
<1>5. LotsInOrder(b)
  <2>1. \A l \in LotId : RightCache(b, l)
    BY <1>1, <1>4 DEF LotsInOrder, LotInOrder, RightCache
  <2> QED
    BY <1>1, <1>4, <2>1, LotsStay
<1>6. NoneZero(b)
  BY <1>1, <1>2 DEF NoneZero
<1>7. LooseLast(b, {})
  <2>1. ASSUME NEW p \in Used(b), NEW q \in Loose(b), p \notin Loose(b)
        PROVE  b.s[p].date <= b.s[q].date
    <3>1. p \in Used(a) /\ p \notin Loose(a) /\ b.s[p] = a.s[p]
      BY <1>2, <1>3, <2>1
    <3>2. CASE q \in Loose(a)
      <4>1. b.s[q] = a.s[q]
        BY <1>2, <3>2 DEF Loose
      <4> QED
        BY <1>1, <3>1, <3>2, <4>1 DEF LooseLast
    <3>3. CASE q = i
      <4>1. a.s[p].lot \in LotId
        <5>1. a.s[p].lot \in 0..MaxLots /\ a.s[p].lot # NoLot
          BY <1>1, <1>2, <3>1, AccFacts DEF Loose
        <5> QED
          BY <5>1, Bounds DEF LotId
      <4>2. p \in ToSet(a.lot[a.s[p].lot].splits)
        BY <1>1, <3>1, <4>1 DEF Agrees
      <4>3. ToSet(a.lots) # {}
        BY <1>1, <4>1, <4>2 DEF Agrees
      <4>4. a.lots # <<>>
        BY <1>1, <4>3, AccFacts, EmptyList
      <4> QED
        BY <3>1, <3>3, <4>4
    <3> QED
      BY <1>3, <3>2, <3>3
  <2> QED
    BY <2>1 DEF LooseLast
<1>8. PartsApart(b, {})
  <2> SUFFICES ASSUME NEW p \in Used(b), NEW q \in Used(b), p # q, b.s[p].trans = b.s[q].trans
               PROVE  /\ b.s[p].lot # NoLot => b.s[p].lot # b.s[q].lot
                      /\ b.s[q].lot # NoLot
    BY DEF PartsApart
  <2>1. p \in Used(a) /\ q \in Used(a)
    BY <1>2
  <2>2. b.s[p] = a.s[p] /\ b.s[q] = a.s[q]
    BY <1>2, <2>1
  <2> QED
    BY <1>1, <2>1, <2>2 DEF PartsApart
<1>9. LooseInTurn(b, {})
  BY DEF LooseInTurn, InTurn
<1> QED
  BY <1>5, <1>6, <1>7, <1>8, <1>9 DEF Orderly

LEMMA EnterTidy ==
  ASSUME IInvLots, TidyInv, NEW d \in Dates, NEW n \in Amounts, Enter(d, n)
  PROVE  TidyInv'
<1> SUFFICES ASSUME tidy'  PROVE TidyInv'
  BY DEF TidyInv
<1> DEFINE free == SplitId \ Used(acc)
           i == Min(free)
           si == [Unused EXCEPT !.trans = i, !.date = d, !.amt = n]
           x == [acc EXCEPT !.s[i] = si]
           list == Inserted(x, acc.list, i)
           b == [x EXCEPT !.unsorted = TRUE, !.list = list]
<1>1. AccInv(acc) /\ acc \in AccType /\ Agrees(acc) /\ n \in Int /\ n # 0 /\ d \in Nat
  BY LotsAssumption DEF IInvLots, AccInv
<1>2. tidy /\ (acc.lots = <<>> \/ \A j \in Used(acc) : acc.s[j].date <= d)
      /\ scrubbed' = FALSE /\ \A j \in Used(acc) : acc.s[j].trans # i
  BY DEF Enter, Edited
<1>3. Orderly(acc, {}) /\ InTurn(acc, acc.list)
  BY <1>2 DEF TidyInv
<1>4. i \in SplitId /\ i \notin Used(acc)
  <2>1. free \in SUBSET Nat
    BY Bounds DEF SplitId
  <2>2. free # {}
    BY <1>1, AccFacts DEF Enter
  <2> HIDE DEF free
  <2>3. i \in free
    BY <2>1, <2>2, MinIsLeast
  <2> QED
    BY <2>3 DEF free
<1>5. acc' = b
  <2>1. acc' = [x EXCEPT !.unsorted = TRUE, !.list = Inserted(x, x.list, i)]
    BY DEF Enter, Edited
  <2>2. x.list = acc.list
    <3> HIDE DEF i, si
    <3> QED
      BY <1>1 DEF AccType
  <2> HIDE DEF x
  <2> QED
    BY <2>1, <2>2
<1> HIDE DEF i
<1>6. si.trans = i /\ si.amt = n /\ si.lot = NoLot /\ si.date = d /\ si \in SplitType
  <2>1. i \in 0..MaxSplits /\ NoLot \in 0..MaxLots
    BY <1>4, Bounds
  <2> QED
    BY <1>1, <2>1 DEF Unused, SplitType
<1> HIDE DEF si
<1>7. /\ x \in AccType /\ x.lot = acc.lot
      /\ \A k \in SplitId : x.s[k] = IF k = i THEN si ELSE acc.s[k]
  <2>1. [acc.s EXCEPT ![i] = si] \in [SplitId -> SplitType]
    BY <1>1, <1>4, <1>6 DEF AccType
  <2>2. x = [acc EXCEPT !.s = [acc.s EXCEPT ![i] = si]]
    BY <1>1 DEF AccType
  <2> HIDE DEF SplitType, LotType
  <2> QED
    BY <1>1, <1>4, <2>1, <2>2 DEF AccType
<1> HIDE DEF x
<1>8. InTurn(x, list)
  <2> DEFINE q == acc.list
  <2>1. q \in Seq(SplitId) /\ ToSet(q) = Used(acc)
    BY <1>1, AccFacts DEF Agrees
  <2>2. \A k \in 1..Len(q) : q[k] \in Used(acc) /\ q[k] \in SplitId
    BY <2>1, ListFacts DEF Used
  <2>3. InTurn(acc, q)
    BY <1>3
  <2> HIDE DEF q
  <2>4. \A k \in 1..Len(q) : x.s[q[k]] = acc.s[q[k]]
    BY <1>4, <1>7, <2>2
  <2>5. InTurn(x, q)
    BY <2>3, <2>4 DEF InTurn
  <2>6. InTurn(x, Inserted(x, q, i))
    BY <1>4, <1>7, <2>1, <2>5, InsertedInTurn
  <2> QED
    BY <2>6 DEF q
<1> HIDE DEF list
<1>9. b.s = x.s /\ b.lot = acc.lot /\ b.list = list
  BY <1>7 DEF AccType
<1>10. b \in AccType
  BY <1>5, EnterKeeps DEF IInvLots, AccInv
<1> HIDE DEF b
<1>11. InTurn(b, b.list)
  BY <1>8, <1>9 DEF InTurn
<1>12. Orderly(b, {})
  <2>1. /\ b.s[i].trans = i /\ b.s[i].amt # 0 /\ b.s[i].lot = NoLot /\ b.s[i].date = d
        /\ \A k \in SplitId \ {i} : b.s[k] = acc.s[k]
    BY <1>1, <1>4, <1>6, <1>7, <1>9
  <2>2. \A j \in Used(acc) :
          acc.s[j].trans # i /\ (acc.lots = <<>> \/ acc.s[j].date <= b.s[i].date)
    BY <1>2, <2>1
  <2> QED
    BY <1>1, <1>3, <1>4, <1>9, <1>10, <1>11, <2>1, <2>2, EnteredOrderly
<1>13. (Orderly(acc, {}) /\ InTurn(acc, acc.list))'
  BY <1>5, <1>11, <1>12
<1> QED
  BY <1>2, <1>13 DEF TidyInv

LEMMA GetSplitListTidy ==
  ASSUME IInvLots, TidyInv, GetSplitList
  PROVE  TidyInv'
<1> DEFINE b == AccountCommit(acc)
<1>1. acc' = b /\ scrubbed' = scrubbed /\ tidy' = tidy /\ AccInv(acc)
  BY DEF GetSplitList, IInvLots
<1> HIDE DEF b
<1>2. ASSUME tidy
      PROVE  Orderly(b, {}) /\ InTurn(b, b.list) /\ (scrubbed => Loose(b) = {})
  <2>1. Orderly(acc, {}) /\ Listed(acc) /\ (scrubbed => Loose(acc) = {})
    BY <1>2 DEF TidyInv, Listed
  <2> QED
    BY <1>1, <2>1, CommitOrderly DEF b
<1>3. ASSUME tidy
      PROVE  (Orderly(acc, {}) /\ InTurn(acc, acc.list) /\ (scrubbed => Loose(acc) = {}))'
  BY <1>1, <1>2, <1>3
<1> QED
  BY <1>1, <1>3 DEF TidyInv

LEMMA AccountScrubLotsTidy ==
  ASSUME IInvLots, TidyInv, AccountScrubLots
  PROVE  TidyInv'
<1> DEFINE x == ScrubLots(acc)
           b == AccountCommit(x)
<1>1. acc' = b /\ tidy' = tidy /\ ~b.full /\ AccInv(acc)
  BY DEF AccountScrubLots, IInvLots
<1>2. AccInv(x)
  BY <1>1, ScrubLotsScrubs DEF Scrubs
<1>3. ASSUME tidy
      PROVE  Orderly(b, {}) /\ InTurn(b, b.list) /\ Loose(b) = {}
  <2>1. Orderly(acc, {}) /\ Listed(acc)
    BY <1>3 DEF TidyInv, Listed
  <2>2. x.full \/ (AccInv(x) /\ Orderly(x, {}) /\ Listed(x) /\ Loose(x) = {})
    BY <1>1, <2>1, ScrubLotsOrderly
  <2> HIDE DEF x
  <2>3. b.full = x.full
    BY <1>2, AccountCommitScrubs DEF AccInv
  <2>4. Orderly(x, {}) /\ Listed(x) /\ Loose(x) = {}
    BY <1>1, <2>2, <2>3
  <2> QED
    BY <1>2, <2>4, CommitOrderly
<1> HIDE DEF b
<1>4. ASSUME tidy
      PROVE  (Orderly(acc, {}) /\ InTurn(acc, acc.list) /\ Loose(acc) = {})'
  BY <1>1, <1>3, <1>4
<1> QED
  BY <1>1, <1>4 DEF TidyInv

LEMMA ViewerNewTidy ==
  ASSUME IInvLots, TidyInv, ViewerNew
  PROVE  TidyInv'
<1> DEFINE l == FreshLot(acc)
           lots == <<l>> \o acc.lots
           b == [acc EXCEPT !.lots = lots, !.lot[l] = NewLot]
<1>1. AccInv(acc) /\ acc \in AccType
  BY DEF IInvLots, AccInv
<1>2. acc' = b /\ scrubbed' = FALSE /\ (tidy' => tidy)
  BY DEF ViewerNew, Edited
<1>3. l \in LotId /\ l \notin ToSet(acc.lots)
  BY <1>1, FreshScrubs DEF ViewerNew
<1>4. b \in AccType
  BY <1>2, ViewerNewKeeps DEF IInvLots, AccInv
<1>5. NewLot.splits = <<>> /\ NewLot.closed = "unknown"
  BY DEF NewLot
<1> HIDE DEF l, lots
<1>6. /\ b.s = acc.s /\ b.list = acc.list
      /\ \A k \in LotId : b.lot[k] = IF k = l THEN NewLot ELSE acc.lot[k]
  BY <1>1, <1>3 DEF AccType
<1> HIDE DEF b
<1>7. acc.lot[l].splits = <<>>
  <2>1. ToSet(acc.lot[l].splits) = {}
    BY <1>1, <1>3 DEF AccInv, Agrees
  <2> QED
    BY <1>1, <1>3, <2>1, AccFacts, EmptyList
<1>8. Peeks(acc, b)
  BY <1>4, <1>5, <1>6, <1>7 DEF Peeks, RightCache
<1>9. ASSUME tidy
      PROVE  Orderly(b, {}) /\ InTurn(b, b.list)
  <2>1. Orderly(acc, {}) /\ InTurn(acc, acc.list)
    BY <1>9 DEF TidyInv
  <2>2. Orderly(b, {})
    BY <1>1, <1>8, <2>1, PeeksFacts
  <2> QED
    BY <1>6, <2>1, <2>2 DEF InTurn
<1>10. ASSUME tidy
       PROVE  (Orderly(acc, {}) /\ InTurn(acc, acc.list))'
  BY <1>2, <1>9, <1>10
<1> QED
  BY <1>2, <1>10 DEF TidyInv

LEMMA TidyInductive ==
  ASSUME IInvLots, TidyInv, [LotNext]_lotvars
  PROVE  TidyInv'
<1>1. CASE UNCHANGED lotvars
  <2>1. acc' = acc /\ tidy' = tidy /\ scrubbed' = scrubbed
    BY <1>1 DEF lotvars
  <2>2. ASSUME tidy
        PROVE  (Orderly(acc, {}) /\ InTurn(acc, acc.list) /\ (scrubbed => Loose(acc) = {}))'
    BY <2>1, <2>2 DEF TidyInv
  <2> QED
    BY <2>1, <2>2 DEF TidyInv
<1>2. ASSUME NEW d \in Dates, NEW n \in Amounts, Enter(d, n)
      PROVE  TidyInv'
  BY <1>2, EnterTidy
<1>3. ASSUME NEW i \in SplitId, NEW n \in Amounts, Amount(i, n) \/ AbandonAmount(i, n)
      PROVE  TidyInv'
  BY <1>3 DEF Amount, AbandonAmount, Edited, TidyInv
<1>4. ASSUME NEW t \in SplitId, NEW d \in Dates, DatePosted(t, d)
      PROVE  TidyInv'
  BY <1>4 DEF DatePosted, Edited, TidyInv
<1>5. ASSUME NEW t \in SplitId, TransDestroy(t)
      PROVE  TidyInv'
  BY <1>5 DEF TransDestroy, Edited, TidyInv
<1>6. CASE GetSplitList
  BY <1>6, GetSplitListTidy
<1>7. CASE ViewerNew
  BY <1>7, ViewerNewTidy
<1>8. CASE AccountScrubLots
  BY <1>8, AccountScrubLotsTidy
<1>9. ASSUME NEW l \in LotId, ViewerDelete(l) \/ ViewerScrub(l)
      PROVE  TidyInv'
  BY <1>9 DEF ViewerDelete, ViewerScrub, Edited, TidyInv
<1> QED
  BY <1>1, <1>2, <1>3, <1>4, <1>5, <1>6, <1>7, <1>8, <1>9 DEF LotNext

\* What is left of a lot falls with every split that uses it up, and is never
\* less than what is left at the end.
LEMMA PrefixTotals ==
  ASSUME NEW a, AccInv(a), NoneZero(a), NEW l \in LotId, LotInOrder(a, l), Nonempty(a, l),
         NEW q, q = a.lot[l].splits, NEW k \in DOMAIN q
  PROVE  /\ Total(a, {q[j] : j \in 1..k}) \in Int
         /\ IF Buys(a, l) THEN Total(a, {q[j] : j \in 1..k}) >= 0
            ELSE Total(a, {q[j] : j \in 1..k}) <= 0
<1> DEFINE N == Len(q)
           upTo(n) == {q[j] : j \in 1..n}
<1>1. a \in AccType /\ q \in Seq(SplitId) /\ q # <<>> /\ IsInjective(q) /\ Agrees(a)
      /\ ToSet(q) \subseteq Used(a)
  BY AccFacts DEF AccInv, Agrees, Nonempty
<1>2. /\ N \in Nat /\ N >= 1 /\ DOMAIN q = 1..N
      /\ \A n \in 1..N : q[n] \in SplitId /\ q[n] \in ToSet(q)
      /\ ToSet(q) = upTo(N)
  <2>1. N \in Nat /\ DOMAIN q = 1..N /\ N >= 1
    BY <1>1
  <2>2. ToSet(q) = {q[n] : n \in 1..N} /\ \A n \in 1..N : q[n] \in SplitId
    BY <1>1, ListFacts
  <2> QED
    BY <2>1, <2>2
<1>3. \A m, n \in 1..N : q[m] = q[n] => m = n
  BY <1>1, <1>2 DEF IsInjective
<1>4. /\ \A i \in UsersOf(a, l) : a.s[i].amt < 0 <=> Buys(a, l)
      /\ IF Buys(a, l) THEN Total(a, upTo(N)) >= 0 ELSE Total(a, upTo(N)) <= 0
  BY <1>2 DEF LotInOrder, Balance
<1>5. \A n \in 1..N : n # 1 => q[n] \in UsersOf(a, l)
  <2>1. UsersOf(a, l) = ToSet(q) \ {q[1]}
    BY DEF UsersOf, Opener
  <2>2. 1 \in 1..N /\ \A n \in 1..N : q[n] \in ToSet(q)
    BY <1>2
  <2> HIDE DEF N, upTo
  <2> QED
    BY <1>3, <2>1, <2>2
<1>6. \A n \in 0..N : upTo(n) \in SUBSET SplitId /\ Total(a, upTo(n)) \in Int
  <2> SUFFICES ASSUME NEW n \in 0..N
               PROVE  upTo(n) \in SUBSET SplitId /\ Total(a, upTo(n)) \in Int
    OBVIOUS
  <2>1. upTo(n) \in SUBSET SplitId
    BY <1>2
  <2> HIDE DEF upTo
  <2> QED
    BY <1>1, <2>1, TotalIsInt
<1>7. ASSUME NEW n \in 1..(N - 1)
      PROVE  Total(a, upTo(n + 1)) = a.s[q[n + 1]].amt + Total(a, upTo(n))
  <2>1. n + 1 \in 1..N /\ n \in 0..N /\ \A m \in 1..(n + 1) : m \in 1..n \/ m = n + 1
    BY <1>2
  <2>2. upTo(n + 1) = upTo(n) \cup {q[n + 1]}
    BY <2>1
  <2>3. q[n + 1] \notin upTo(n)
    <3>1. ASSUME NEW m \in 1..n
          PROVE  q[m] # q[n + 1]
      <4>1. m \in 1..N /\ n + 1 \in 1..N /\ m # n + 1
        BY <1>2, <2>1
      <4> HIDE DEF N, upTo
      <4> QED
        BY <1>3, <4>1
    <3> QED
      BY <3>1
  <2>4. upTo(n) \in SUBSET SplitId /\ q[n + 1] \in SplitId
    BY <1>2, <1>6, <2>1
  <2> HIDE DEF upTo
  <2> QED
    BY <1>1, <2>2, <2>3, <2>4, TotalAdd
<1> HIDE DEF upTo, N
<1> DEFINE Right(n) == IF Buys(a, l) THEN Total(a, upTo(n)) >= 0 ELSE Total(a, upTo(n)) <= 0
           T == {m \in 0..(N - 1) : Right(N - m)}
<1>8. 0 \in T
  BY <1>2, <1>4
<1>9. ASSUME NEW m \in 0..((N - 1) - 1), m \in T
      PROVE  m + 1 \in T
  <2> DEFINE n == N - (m + 1)
  <2>1. n \in 1..(N - 1) /\ n + 1 = N - m /\ n + 1 \in 1..N /\ n \in 0..N /\ n + 1 \in 0..N
        /\ m + 1 \in 0..(N - 1) /\ n + 1 # 1
    BY <1>2
  <2>2. Right(n + 1)
    BY <1>9, <2>1
  <2> HIDE DEF n
  <2>3. Total(a, upTo(n + 1)) = a.s[q[n + 1]].amt + Total(a, upTo(n))
    BY <1>7, <2>1
  <2>4. a.s[q[n + 1]].amt \in Int /\ (a.s[q[n + 1]].amt < 0 <=> Buys(a, l))
    BY <1>1, <1>2, <1>4, <1>5, <2>1, AccFacts
  <2>5. Total(a, upTo(n)) \in Int /\ Total(a, upTo(n + 1)) \in Int
    BY <1>6, <2>1
  <2>6. Right(n)
    BY <2>2, <2>3, <2>4, <2>5
  <2> QED
    BY <2>1, <2>6 DEF n
<1>10. \A m \in 0..(N - 1) : m \in T
  <2>1. N - 1 \in Nat
    BY <1>2
  <2> HIDE DEF T
  <2> QED
    BY <1>8, <1>9, <2>1, UpTo
<1>11. N - k \in 0..(N - 1) /\ N - (N - k) = k /\ k \in 0..N
  BY <1>2
<1>12. Right(k)
  BY <1>10, <1>11
<1> QED
  BY <1>6, <1>11, <1>12 DEF upTo

(* First in, first out: while users only enter splits, once there are lots *)
(* each no earlier than the last, every scrub of the account leaves every  *)
(* split in a lot, no lot overdrawn at any point, and the lots used up in  *)
(* the order of their opening.                                             *)
THEOREM FirstInFirstOutAlways == LotSpec => []FirstInFirstOut
<1>1. LotInit => IInvLots /\ TidyInv
  BY LotsStart, TidyStart
<1>2. IInvLots /\ TidyInv /\ [LotNext]_lotvars => (IInvLots /\ TidyInv)'
  BY LotsInductive, TidyInductive
<1>3. IInvLots /\ TidyInv => FirstInFirstOut
  <2> SUFFICES ASSUME IInvLots, TidyInv, tidy, scrubbed
               PROVE  FirstInFirstOut
    BY DEF FirstInFirstOut
  <2>1. /\ AccInv(acc) /\ acc \in AccType
        /\ LotsInOrder(acc) /\ NoneZero(acc) /\ Loose(acc) = {}
    BY DEF IInvLots, AccInv, TidyInv, Orderly
  <2>2. EverySplitAssigned
    BY <2>1 DEF EverySplitAssigned, Loose
  <2> DEFINE inUse == {l \in ToSet(acc.lots) : acc.lot[l].splits # <<>>}
  <2>3. \A l \in inUse : l \in LotId /\ Nonempty(acc, l)
    BY <2>1, AccFacts DEF Nonempty
  <2> HIDE DEF inUse
  <2>4. ASSUME NEW l \in inUse
        PROVE  /\ SortLot(acc, l) = acc /\ Opening(l) = acc.s[Opener(acc, l)]
               /\ Opening(l).amt \in Int /\ Opening(l).amt # 0
               /\ Buys(acc, l) <=> Opening(l).amt > 0
               /\ OpenedOn(acc, l) = Opening(l).date
               /\ Users(l) = UsersOf(acc, l)
               /\ LotInOrder(acc, l)
    <3>1. l \in LotId /\ Nonempty(acc, l) /\ LotInOrder(acc, l)
      BY <2>1, <2>3 DEF LotsInOrder
    <3>2. SortLot(acc, l) = acc
      BY <2>1, <3>1, GlancesAtNothing, SortsNothing
    <3>3. Earliest(acc, l) = Opener(acc, l)
      BY <2>1, <3>1, EarliestOpens
    <3>4. acc.s[Opener(acc, l)].amt \in Int /\ acc.s[Opener(acc, l)].amt # 0
      BY <2>1, <3>1, OpenerSign
    <3> QED
      BY <3>1, <3>2, <3>3, <3>4 DEF Opening, Buys, OpenedOn, Users, UsersOf
  <2>5. ASSUME NEW l \in inUse
        PROVE  NeverOverdrawn(l)
    <3> DEFINE q == acc.lot[l].splits
               part(k) == Total(acc, {q[j] : j \in 1..k})
    <3>1. SortLot(acc, l).lot[l].splits = q
      BY <2>4
    <3>2. ASSUME NEW k \in DOMAIN q
          PROVE  Sign(part(k)) \in {0, Sign(Opening(l).amt)}
      <4>1. part(k) \in Int /\ IF Buys(acc, l) THEN part(k) >= 0 ELSE part(k) <= 0
        BY <2>1, <2>3, <2>4, PrefixTotals
      <4> HIDE DEF part
      <4> QED
        BY <2>4, <4>1 DEF Sign
    <3> QED
      BY <3>1, <3>2 DEF NeverOverdrawn
  <2>6. ASSUME NEW l \in inUse, NEW k \in inUse
        PROVE  UsedInOrder(l, k)
    <3>1. InOrder(acc, l, k) /\ Nonempty(acc, l) /\ Nonempty(acc, k)
      BY <2>1, <2>3 DEF LotsInOrder
    <3>2. Sign(Opening(l).amt) = Sign(Opening(k).amt) => (Buys(acc, l) <=> Buys(acc, k))
      BY <2>4 DEF Sign
    <3>3. ~UsedUp(acc, l) /\ ~UsedUp(acc, k) => (Opening(l).amt > 0 <=> Opening(k).amt > 0)
      BY <2>4, <3>1 DEF InOrder, InUse
    <3>4. ASSUME Sign(Opening(l).amt) = Sign(Opening(k).amt), Opening(l).date < Opening(k).date
          PROVE  /\ Users(k) # {} => UsedUp(acc, l)
                 /\ \A i \in Users(l), j \in Users(k) : acc.s[i].date <= acc.s[j].date
      BY <2>4, <3>1, <3>2, <3>4 DEF InOrder
    <3> QED
      BY <3>3, <3>4 DEF UsedInOrder
  <2> QED
    BY <2>2, <2>5, <2>6 DEF FirstInFirstOut, inUse
<1> QED
  BY <1>1, <1>2, <1>3, PTL DEF LotSpec
=============================================================================
