--------------------------- MODULE InductionLemmas ---------------------------
(***************************************************************************)
(* Facts that rest on an induction, each proved from the least counter-    *)
(* example: every set of natural numbers has a least element, and sums over*)
(* finite sets do not depend on the order in which they are taken; and what*)
(* every round of a loop keeps, holds at its end.                          *)
(***************************************************************************)
EXTENDS Integers, FiniteSets, FiniteSetsExt, Functions,
        NaturalsInduction, WellFoundedInduction, FiniteSetTheorems, TLAPS

LEMMA LeastExists ==
  ASSUME NEW T \in SUBSET Nat, T # {}
  PROVE  \E x \in T : \A y \in T : x <= y
<1> DEFINE R == {p \in Nat \X Nat : p[1] < p[2]}
<1>1. R = OpToRel(<, Nat)
  BY DEF OpToRel
<1>2. IsWellFoundedOn(R, Nat)
  BY <1>1, NatLessThanWellFounded
<1>3. PICK x \in T : \A y \in T : ~(<<y, x>> \in R)
  BY <1>2, WFMin
<1>4. ASSUME NEW y \in T  PROVE x <= y
  <2>1. x \in Nat /\ y \in Nat
    OBVIOUS
  <2>2. y < x => <<y, x>> \in R
    BY <2>1
  <2> QED
    BY <1>3, <2>1, <2>2
<1> QED
  BY <1>4

LEMMA MinIsLeast ==
  ASSUME NEW T \in SUBSET Nat, T # {}
  PROVE  Min(T) \in T /\ \A y \in T : Min(T) <= y
BY LeastExists DEF Min

\* Of a collection of finite sets, one has the fewest elements.
LEMMA SmallestSet ==
  ASSUME NEW A, A # {}, \A T \in A : IsFiniteSet(T)
  PROVE  \E T \in A : \A U \in A : Cardinality(T) <= Cardinality(U)
<1> DEFINE N == {Cardinality(T) : T \in A}
<1>1. N \in SUBSET Nat /\ N # {}
  BY FS_CardinalityType
<1>2. PICK n \in N : \A m \in N : n <= m
  <2> HIDE DEF N
  <2> QED
    BY <1>1, LeastExists
<1>3. PICK T \in A : n = Cardinality(T)
  BY <1>2
<1> QED
  BY <1>2, <1>3

-----------------------------------------------------------------------------
(* Sums.  SumFunctionOnSet(f, S) is the value at S of a function of the    *)
(* subsets of S that takes away one chosen element after the other.        *)
Chosen(T) == CHOOSE x \in T : TRUE
IsIter(iter, f, D) ==
  iter = [T \in D |-> IF T = {} THEN 0
                      ELSE f[Chosen(T)] + iter[T \ {Chosen(T)}]]
Iter(f, S) == CHOOSE iter : IsIter(iter, f, SUBSET S)
Small(S, n) == {T \in SUBSET S : Cardinality(T) <= n}

LEMMA SumIsIter ==
  ASSUME NEW f, NEW S
  PROVE  SumFunctionOnSet(f, S) = Iter(f, S)[S]
BY DEF SumFunctionOnSet, FoldFunctionOnSet, MapThenFoldSet, Iter, IsIter, Chosen

LEMMA ChosenElement ==
  ASSUME NEW T, T # {}
  PROVE  Chosen(T) \in T
BY DEF Chosen

LEMMA WithoutChosen ==
  ASSUME NEW S, IsFiniteSet(S), NEW T \in SUBSET S, T # {}
  PROVE  /\ Chosen(T) \in T
         /\ T \ {Chosen(T)} \in SUBSET S
         /\ IsFiniteSet(T)
         /\ IsFiniteSet(T \ {Chosen(T)})
         /\ Cardinality(T) \in Nat
         /\ Cardinality(T \ {Chosen(T)}) = Cardinality(T) - 1
         /\ Cardinality(T) # 0
<1>1. IsFiniteSet(T) /\ Chosen(T) \in T
  BY FS_Subset, ChosenElement
<1>2. Cardinality(T) \in Nat /\ Cardinality(T) # 0
  BY <1>1, FS_CardinalityType, FS_EmptySet
<1> QED
  BY <1>1, <1>2, FS_RemoveElement

LEMMA IterUpTo ==
  ASSUME NEW f, NEW S, IsFiniteSet(S), NEW n \in Nat
  PROVE  \E iter : IsIter(iter, f, Small(S, n))
<1> DEFINE Bad == {m \in Nat : ~ \E iter : IsIter(iter, f, Small(S, m))}
<1>1. SUFFICES ASSUME Bad # {}  PROVE FALSE
  OBVIOUS
<1>2. PICK m \in Bad : \A k \in Bad : m <= k
  <2>1. Bad \in SUBSET Nat
    OBVIOUS
  <2> HIDE DEF Bad
  <2> QED
    BY <1>1, <2>1, LeastExists
<1>3. CASE m = 0
  <2> DEFINE zero == [T \in Small(S, 0) |-> 0]
  <2>1. ASSUME NEW T \in Small(S, 0)  PROVE T = {}
    <3>1. T \in SUBSET S /\ Cardinality(T) <= 0
      BY DEF Small
    <3>2. T # {} => Cardinality(T) \in Nat /\ Cardinality(T) # 0
      BY <3>1, WithoutChosen
    <3> QED
      BY <3>1, <3>2
  <2>2. IsIter(zero, f, Small(S, 0))
    BY <2>1 DEF IsIter
  <2> QED
    BY <1>2, <1>3, <2>2
<1>4. CASE m # 0
  <2>1. m - 1 \in Nat /\ m - 1 \notin Bad
    BY <1>2, <1>4
  <2>2. PICK g : IsIter(g, f, Small(S, m - 1))
    BY <2>1
  <2> DEFINE h == [T \in Small(S, m) |-> IF T = {} THEN 0
                                         ELSE f[Chosen(T)] + g[T \ {Chosen(T)}]]
  <2>3. ASSUME NEW T \in Small(S, m), T # {}
        PROVE  h[T \ {Chosen(T)}] = g[T \ {Chosen(T)}]
    <3> DEFINE U == T \ {Chosen(T)}
    <3>1. T \in SUBSET S /\ Cardinality(T) <= m
      BY <2>3 DEF Small
    <3>2. /\ U \in SUBSET S /\ Cardinality(U) = Cardinality(T) - 1
          /\ Cardinality(T) \in Nat
      BY <2>3, <3>1, WithoutChosen
    <3>3. U \in Small(S, m - 1) /\ U \in Small(S, m)
      BY <3>1, <3>2 DEF Small
    <3>4. h[U] = IF U = {} THEN 0 ELSE f[Chosen(U)] + g[U \ {Chosen(U)}]
      BY <3>3
    <3>5. g[U] = IF U = {} THEN 0 ELSE f[Chosen(U)] + g[U \ {Chosen(U)}]
      <4> HIDE DEF U
      <4> QED
        BY <2>2, <3>3 DEF IsIter
    <3> QED
      BY <3>4, <3>5
  <2>4. IsIter(h, f, Small(S, m))
    BY <2>3 DEF IsIter
  <2> QED
    BY <1>2, <2>4
<1> QED
  BY <1>3, <1>4

LEMMA IterExists ==
  ASSUME NEW f, NEW S, IsFiniteSet(S)
  PROVE  \A T \in SUBSET S :
           Iter(f, S)[T] = IF T = {} THEN 0
                           ELSE f[Chosen(T)] + Iter(f, S)[T \ {Chosen(T)}]
<1>1. Cardinality(S) \in Nat /\ Small(S, Cardinality(S)) = SUBSET S
  BY FS_CardinalityType, FS_Subset DEF Small
<1>2. \E iter : IsIter(iter, f, SUBSET S)
  <2>1. \E iter : IsIter(iter, f, Small(S, Cardinality(S)))
    BY <1>1, IterUpTo
  <2> QED
    BY <1>1, <2>1
<1>3. IsIter(Iter(f, S), f, SUBSET S)
  BY <1>2 DEF Iter
<1> QED
  BY <1>3 DEF IsIter

\* A partial sum does not depend on the set it is a part of.
LEMMA IterOfPart ==
  ASSUME NEW f, NEW S, IsFiniteSet(S), NEW P \in SUBSET S
  PROVE  Iter(f, S)[P] = SumFunctionOnSet(f, P)
<1> DEFINE Bad == {T \in SUBSET P : Iter(f, S)[T] # Iter(f, P)[T]}
<1>1. IsFiniteSet(P)
  BY FS_Subset
<1>2. Bad = {}
  <2>1. SUFFICES ASSUME Bad # {}  PROVE FALSE
    OBVIOUS
  <2>2. PICK T \in Bad : \A U \in Bad : Cardinality(T) <= Cardinality(U)
    <3>1. \A U \in Bad : IsFiniteSet(U)
      BY <1>1, FS_Subset
    <3> HIDE DEF Bad
    <3> QED
      BY <2>1, <3>1, SmallestSet
  <2>3. T # {}
    BY <1>1, IterExists
  <2>4. T \in SUBSET P
    BY <2>2
  <2> DEFINE U == T \ {Chosen(T)}
  <2>5. U \in SUBSET P /\ ~(Cardinality(T) <= Cardinality(U))
    BY <1>1, <2>3, <2>4, WithoutChosen
  <2>6. Iter(f, S)[U] = Iter(f, P)[U]
    BY <2>2, <2>5
  <2> QED
    BY <1>1, <2>2, <2>3, <2>4, <2>6, IterExists
<1> QED
  BY <1>2, SumIsIter

-----------------------------------------------------------------------------
(* The laws of sums.                                                       *)
LEMMA SumEmpty ==
  ASSUME NEW f
  PROVE  SumFunctionOnSet(f, {}) = 0
BY SumIsIter, IterExists, FS_EmptySet

LEMMA SumChosen ==
  ASSUME NEW f, NEW S, IsFiniteSet(S), S # {}
  PROVE  SumFunctionOnSet(f, S) =
           f[Chosen(S)] + SumFunctionOnSet(f, S \ {Chosen(S)})
<1>1. Iter(f, S)[S] = f[Chosen(S)] + Iter(f, S)[S \ {Chosen(S)}]
  BY IterExists
<1>2. Iter(f, S)[S \ {Chosen(S)}] = SumFunctionOnSet(f, S \ {Chosen(S)})
  BY IterOfPart
<1> QED
  BY <1>1, <1>2, SumIsIter

LEMMA SumIsInt ==
  ASSUME NEW f, NEW S, IsFiniteSet(S), \A x \in S : f[x] \in Int
  PROVE  SumFunctionOnSet(f, S) \in Int
<1> DEFINE Bad == {T \in SUBSET S : SumFunctionOnSet(f, T) \notin Int}
<1>1. SUFFICES ASSUME Bad # {}  PROVE FALSE
  OBVIOUS
<1>2. PICK T \in Bad : \A U \in Bad : Cardinality(T) <= Cardinality(U)
  <2>1. \A U \in Bad : IsFiniteSet(U)
    BY FS_Subset
  <2> HIDE DEF Bad
  <2> QED
    BY <1>1, <2>1, SmallestSet
<1>3. T \in SUBSET S /\ T # {}
  BY SumEmpty
<1> DEFINE U == T \ {Chosen(T)}
<1>4. /\ U \in SUBSET S /\ Chosen(T) \in T /\ IsFiniteSet(T)
      /\ ~(Cardinality(T) <= Cardinality(U))
  <2> HIDE DEF Bad
  <2>1. /\ U \in SUBSET S /\ Chosen(T) \in T /\ IsFiniteSet(T)
        /\ Cardinality(T) \in Nat /\ Cardinality(U) = Cardinality(T) - 1
    BY <1>3, WithoutChosen
  <2> HIDE DEF U
  <2> QED
    BY <2>1
<1>5. SumFunctionOnSet(f, U) \in Int
  <2>1. U \notin Bad
    <3> HIDE DEF Bad, U
    <3> QED
      BY <1>2, <1>4
  <2> QED
    BY <1>4, <2>1
<1>6. SumFunctionOnSet(f, T) = f[Chosen(T)] + SumFunctionOnSet(f, U)
  BY <1>3, <1>4, SumChosen
<1>7. SumFunctionOnSet(f, T) \in Int
  BY <1>3, <1>4, <1>5, <1>6
<1> QED
  BY <1>7

\* Any element may be taken away first.
LEMMA SumRemove ==
  ASSUME NEW f, NEW S, IsFiniteSet(S), \A x \in S : f[x] \in Int, NEW e \in S
  PROVE  SumFunctionOnSet(f, S) = f[e] + SumFunctionOnSet(f, S \ {e})
<1> DEFINE Fails(T) == \E x \in T :
             SumFunctionOnSet(f, T) # f[x] + SumFunctionOnSet(f, T \ {x})
           Bad == {T \in SUBSET S : Fails(T)}
<1>1. SUFFICES ASSUME Bad # {}  PROVE FALSE
  OBVIOUS
<1>2. PICK T \in Bad : \A U \in Bad : Cardinality(T) <= Cardinality(U)
  <2>1. \A U \in Bad : IsFiniteSet(U)
    BY FS_Subset
  <2> HIDE DEF Bad
  <2> QED
    BY <1>1, <2>1, SmallestSet
<1>3. PICK x \in T : SumFunctionOnSet(f, T) # f[x] + SumFunctionOnSet(f, T \ {x})
  OBVIOUS
<1>4. T \in SUBSET S /\ T # {}
  OBVIOUS
<1> DEFINE c == Chosen(T)
           V == T \ {c}
           W == T \ {x}
           R == V \ {x}
<1>5. /\ c \in T /\ IsFiniteSet(T) /\ IsFiniteSet(V) /\ IsFiniteSet(W) /\ IsFiniteSet(R)
      /\ Cardinality(T) \in Nat
      /\ Cardinality(V) = Cardinality(T) - 1 /\ Cardinality(W) = Cardinality(T) - 1
  BY <1>4, WithoutChosen, FS_RemoveElement
<1>6. SumFunctionOnSet(f, T) = f[c] + SumFunctionOnSet(f, V)
  BY <1>4, <1>5, SumChosen
<1>7. c # x
  BY <1>3, <1>6
<1>8. ~Fails(V) /\ ~Fails(W)
  <2>1. V \notin Bad /\ W \notin Bad
    <3> HIDE DEF Bad, V, W
    <3> QED
      BY <1>2, <1>5
  <2>2. V \in SUBSET S /\ W \in SUBSET S
    BY <1>4
  <2> HIDE DEF V, W, Fails
  <2> QED
    BY <2>1, <2>2
<1>9. SumFunctionOnSet(f, V) = f[x] + SumFunctionOnSet(f, R)
  BY <1>7, <1>8
<1>10. SumFunctionOnSet(f, W) = f[c] + SumFunctionOnSet(f, R)
  <2>1. R = W \ {c}
    OBVIOUS
  <2> QED
    BY <1>5, <1>7, <1>8, <2>1
<1>11. SumFunctionOnSet(f, R) \in Int /\ f[c] \in Int /\ f[x] \in Int
  BY <1>4, <1>5, SumIsInt
<1> QED
  BY <1>3, <1>6, <1>9, <1>10, <1>11

\* Equal terms have equal sums.
LEMMA SumSame ==
  ASSUME NEW f, NEW g, NEW S, IsFiniteSet(S), \A x \in S : f[x] = g[x]
  PROVE  SumFunctionOnSet(f, S) = SumFunctionOnSet(g, S)
<1> DEFINE Bad == {T \in SUBSET S : SumFunctionOnSet(f, T) # SumFunctionOnSet(g, T)}
<1>1. SUFFICES ASSUME Bad # {}  PROVE FALSE
  OBVIOUS
<1>2. PICK T \in Bad : \A U \in Bad : Cardinality(T) <= Cardinality(U)
  <2>1. \A U \in Bad : IsFiniteSet(U)
    BY FS_Subset
  <2> HIDE DEF Bad
  <2> QED
    BY <1>1, <2>1, SmallestSet
<1>3. T \in SUBSET S /\ T # {}
  BY SumEmpty
<1> DEFINE U == T \ {Chosen(T)}
<1>4. /\ U \in SUBSET S /\ Chosen(T) \in T /\ IsFiniteSet(T)
      /\ ~(Cardinality(T) <= Cardinality(U))
  <2> HIDE DEF Bad
  <2>1. /\ U \in SUBSET S /\ Chosen(T) \in T /\ IsFiniteSet(T)
        /\ Cardinality(T) \in Nat /\ Cardinality(U) = Cardinality(T) - 1
    BY <1>3, WithoutChosen
  <2> HIDE DEF U
  <2> QED
    BY <2>1
<1>5. SumFunctionOnSet(f, U) = SumFunctionOnSet(g, U)
  <2>1. U \notin Bad
    <3> HIDE DEF Bad, U
    <3> QED
      BY <1>2, <1>4
  <2> QED
    BY <1>4, <2>1
<1>6. SumFunctionOnSet(f, T) = f[Chosen(T)] + SumFunctionOnSet(f, U)
  BY <1>3, <1>4, SumChosen
<1>7. SumFunctionOnSet(g, T) = g[Chosen(T)] + SumFunctionOnSet(g, U)
  BY <1>3, <1>4, SumChosen
<1>8. f[Chosen(T)] = g[Chosen(T)]
  BY <1>3, <1>4
<1>9. SumFunctionOnSet(f, T) = SumFunctionOnSet(g, T)
  BY <1>5, <1>6, <1>7, <1>8
<1> QED
  BY <1>9

\* Renaming the elements keeps the sum.
LEMMA SumRenamed ==
  ASSUME NEW f, NEW g, NEW S, IsFiniteSet(S), NEW b,
         \A x \in S : f[x] \in Int /\ g[b[x]] = f[x],
         \A x, y \in S : b[x] = b[y] => x = y
  PROVE  SumFunctionOnSet(g, {b[x] : x \in S}) = SumFunctionOnSet(f, S)
<1> DEFINE Im(T) == {b[x] : x \in T}
           Bad == {T \in SUBSET S : SumFunctionOnSet(g, Im(T)) # SumFunctionOnSet(f, T)}
<1>1. SUFFICES ASSUME Bad # {}  PROVE FALSE
  <2>1. S \notin Bad
    BY <1>1
  <2> QED
    BY <2>1
<1>2. PICK T \in Bad : \A U \in Bad : Cardinality(T) <= Cardinality(U)
  <2>1. \A U \in Bad : IsFiniteSet(U)
    BY FS_Subset
  <2> HIDE DEF Bad
  <2> QED
    BY <1>1, <2>1, SmallestSet
<1>3. T \in SUBSET S /\ T # {}
  <2>1. Im({}) = {}
    OBVIOUS
  <2> QED
    BY <2>1, SumEmpty
<1> DEFINE c == Chosen(T)
           U == T \ {c}
<1>4. /\ U \in SUBSET S /\ c \in T /\ IsFiniteSet(T)
      /\ ~(Cardinality(T) <= Cardinality(U))
  <2> HIDE DEF Bad
  <2>1. /\ U \in SUBSET S /\ c \in T /\ IsFiniteSet(T)
        /\ Cardinality(T) \in Nat /\ Cardinality(U) = Cardinality(T) - 1
    BY <1>3, WithoutChosen
  <2> HIDE DEF U
  <2> QED
    BY <2>1
<1>5. SumFunctionOnSet(g, Im(U)) = SumFunctionOnSet(f, U)
  <2>1. U \notin Bad
    <3> HIDE DEF Bad, U
    <3> QED
      BY <1>2, <1>4
  <2> QED
    BY <1>4, <2>1
<1>6. Im(U) = Im(T) \ {b[c]}
  <2>1. \A x \in T : b[x] = b[c] => x = c
    BY <1>3, <1>4
  <2> HIDE DEF c
  <2> QED
    BY <1>4, <2>1
<1>7. IsFiniteSet(Im(T))
  <2> DEFINE m == [x \in T |-> b[x]]
  <2>1. m \in Surjection(T, Im(T))
    BY DEF Surjection
  <2> QED
    BY <1>4, <2>1, FS_Surjection
<1>8. b[c] \in Im(T) /\ \A y \in Im(T) : g[y] \in Int
  BY <1>3, <1>4
<1>9. SumFunctionOnSet(g, Im(T)) = g[b[c]] + SumFunctionOnSet(g, Im(T) \ {b[c]})
  <2> HIDE DEF Im, c
  <2> QED
    BY <1>7, <1>8, SumRemove
<1>10. SumFunctionOnSet(f, T) = f[c] + SumFunctionOnSet(f, U)
  BY <1>3, <1>4, SumChosen
<1>11. g[b[c]] = f[c]
  BY <1>3, <1>4
<1>12. SumFunctionOnSet(g, Im(T)) = SumFunctionOnSet(f, T)
  BY <1>5, <1>6, <1>9, <1>10, <1>11
<1> QED
  BY <1>12

\* Adding an element, and changing one term.
LEMMA SumAdd ==
  ASSUME NEW f, NEW S, IsFiniteSet(S), NEW e, e \notin S,
         \A x \in S \cup {e} : f[x] \in Int
  PROVE  SumFunctionOnSet(f, S \cup {e}) = f[e] + SumFunctionOnSet(f, S)
<1>1. IsFiniteSet(S \cup {e})
  BY FS_AddElement
<1>2. (S \cup {e}) \ {e} = S
  OBVIOUS
<1> QED
  BY <1>1, <1>2, SumRemove

-----------------------------------------------------------------------------
(* Steps from 0 to a bound.                                                *)
LEMMA UpTo ==
  ASSUME NEW N \in Nat, NEW S, 0 \in S,
         \A n \in 0..(N - 1) : n \in S => n + 1 \in S
  PROVE  \A n \in 0..N : n \in S
<1> DEFINE Bad == (0..N) \ S
<1>1. SUFFICES ASSUME Bad # {}  PROVE FALSE
  OBVIOUS
<1>2. Bad \in SUBSET Nat
  OBVIOUS
<1>3. PICK m \in Bad : \A k \in Bad : m <= k
  <2> HIDE DEF Bad
  <2> QED
    BY <1>1, <1>2, LeastExists
<1>4. m \in 0..N /\ m \notin S /\ m # 0
  OBVIOUS
<1>5. m - 1 \in 0..(N - 1) /\ m - 1 \in 0..N /\ (m - 1) + 1 = m /\ ~(m <= m - 1)
  BY <1>4
<1>6. m - 1 \in S
  BY <1>3, <1>5
<1> QED
  BY <1>4, <1>5, <1>6

\* A finite set of numbers has a greatest element.
LEMMA GreatestExists ==
  ASSUME NEW N \in Nat, NEW T \in SUBSET (0..N), T # {}
  PROVE  \E x \in T : \A y \in T : y <= x
<1> DEFINE U == {N - y : y \in T}
<1>1. U \in SUBSET Nat /\ U # {}
  <2>1. \A y \in T : y \in 0..N /\ N - y \in Nat
    OBVIOUS
  <2> QED
    BY <2>1
<1>2. PICK u \in U : \A v \in U : u <= v
  <2> HIDE DEF U
  <2> QED
    BY <1>1, LeastExists
<1>3. PICK x \in T : u = N - x
  BY <1>2
<1>4. ASSUME NEW y \in T  PROVE y <= x
  <2>1. u <= N - y
    BY <1>2
  <2>2. x \in 0..N /\ y \in 0..N
    OBVIOUS
  <2> QED
    BY <1>3, <2>1, <2>2
<1> QED
  BY <1>4

LEMMA MaxIsGreatest ==
  ASSUME NEW N \in Nat, NEW T \in SUBSET (0..N), T # {}
  PROVE  Max(T) \in T /\ \A y \in T : y <= Max(T)
BY GreatestExists DEF Max

-----------------------------------------------------------------------------
(* Loops: f[n] is what a loop has after n rounds.                          *)
IsLoop(f, b, step, S, m) ==
  /\ f = [n \in 0..m |-> IF n = 0 THEN b ELSE step[<<n, f[n - 1]>>]]
  /\ \A n \in 0..m : f[n] \in S

\* A loop whose steps stay in a set exists, and stays there.
LEMMA LoopExists ==
  ASSUME NEW N \in Nat, NEW S, NEW b \in S, NEW step,
         \A n \in 1..N, x \in S : step[<<n, x>>] \in S
  PROVE  \E f : IsLoop(f, b, step, S, N)
<1> DEFINE T == {m \in 0..N : \E f : IsLoop(f, b, step, S, m)}
<1>1. 0 \in T
  <2> DEFINE f == [n \in 0..0 |-> b]
  <2>1. f = [n \in 0..0 |-> IF n = 0 THEN b ELSE step[<<n, f[n - 1]>>]]
    OBVIOUS
  <2>2. \A n \in 0..0 : f[n] \in S
    OBVIOUS
  <2>3. IsLoop(f, b, step, S, 0)
    BY <2>1, <2>2 DEF IsLoop
  <2> QED
    BY <2>3
<1>2. ASSUME NEW m \in 0..(N - 1), m \in T
      PROVE  m + 1 \in T
  <2>1. PICK f : IsLoop(f, b, step, S, m)
    BY <1>2
  <2> DEFINE g == [n \in 0..(m + 1) |-> IF n = m + 1 THEN step[<<n, f[m]>>] ELSE f[n]]
  <2>2. m \in Nat /\ m + 1 \in 1..N /\ m \in 0..m
    OBVIOUS
  <2>3. \A n \in 0..m : n # m + 1 /\ n \in 0..(m + 1) /\ g[n] = f[n]
    BY <2>2
  <2>4. g[m + 1] = step[<<m + 1, f[m]>>] /\ f[m] \in S
    BY <2>1, <2>2 DEF IsLoop
  <2>5. \A n \in 0..(m + 1) : n \in 0..m \/ n = m + 1
    BY <2>2
  <2>6. \A n \in 0..(m + 1) : g[n] \in S
    BY <2>1, <2>2, <2>3, <2>4, <2>5 DEF IsLoop
  <2> HIDE DEF g
  <2>7. ASSUME NEW n \in 0..(m + 1)
        PROVE  g[n] = IF n = 0 THEN b ELSE step[<<n, g[n - 1]>>]
    <3>1. CASE n \in 0..m /\ n # 0
      <4>1. n - 1 \in 0..m
        BY <2>2, <3>1
      <4>2. f[n] = step[<<n, f[n - 1]>>]
        BY <2>1, <3>1 DEF IsLoop
      <4> QED
        BY <2>3, <3>1, <4>1, <4>2
    <3>2. CASE n = 0
      <4>1. 0 \in 0..m
        BY <2>2
      <4>2. f[0] = b
        BY <2>1, <4>1 DEF IsLoop
      <4> QED
        BY <2>3, <3>2, <4>1, <4>2
    <3>3. CASE n = m + 1
      <4>1. n - 1 = m /\ n # 0
        BY <2>2, <3>3
      <4>2. g[n] = step[<<n, f[m]>>] /\ g[m] = f[m]
        BY <2>2, <2>3, <2>4, <3>3
      <4> QED
        BY <4>1, <4>2
    <3> QED
      BY <2>5, <3>1, <3>2, <3>3
  <2>8. g = [n \in 0..(m + 1) |-> g[n]]
    BY DEF g
  <2>9. g = [n \in 0..(m + 1) |-> IF n = 0 THEN b ELSE step[<<n, g[n - 1]>>]]
    BY <2>7, <2>8
  <2>10. IsLoop(g, b, step, S, m + 1)
    BY <2>6, <2>9 DEF IsLoop
  <2>11. m + 1 \in 0..N
    BY <2>2
  <2> QED
    BY <2>10, <2>11
<1>3. \A m \in 0..N : m \in T
  <2> HIDE DEF T
  <2> QED
    BY <1>1, <1>2, UpTo
<1>4. N \in T
  BY <1>3
<1> QED
  BY <1>4

LEMMA LoopStays ==
  ASSUME NEW N \in Nat, NEW S, NEW f, f[0] \in S,
         \A n \in 1..N : f[n - 1] \in S => f[n] \in S
  PROVE  \A n \in 0..N : f[n] \in S
<1> DEFINE T == {n \in 0..N : f[n] \in S}
<1>1. 0 \in T
  OBVIOUS
<1>2. ASSUME NEW n \in 0..(N - 1), n \in T
      PROVE  n + 1 \in T
  <2>1. n + 1 \in 1..N /\ (n + 1) - 1 = n /\ n + 1 \in 0..N
    OBVIOUS
  <2> QED
    BY <1>2, <2>1
<1>3. \A n \in 0..N : n \in T
  <2> HIDE DEF T
  <2> QED
    BY <1>1, <1>2, UpTo
<1> QED
  BY <1>3
=============================================================================
